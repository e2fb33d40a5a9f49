---------------------------- MODULE OperationsProofs ----------------------------
(***************************************************************************)
(* Proofs about the operator's side of MCOperations.                       *)
(*                                                                         *)
(* The audit journal: for any processes and events, and any number of      *)
(* crashes of processes and of the host, its complete records are one      *)
(* chain, and what was acknowledged stays.  The argument is that a process *)
(* writes what follows the records it verified under the lock it still     *)
(* holds, and that a host crash, which takes records away, takes all       *)
(* processes with it.                                                      *)
(*                                                                         *)
(* The deployment of applications: the first smoke of a phase proves one   *)
(* endpoint, the steps after it touch the other one only.                  *)
(*                                                                         *)
(* The review of issues: a package is built from a base whose composition  *)
(* is the approved one, and production takes it only on that very base.    *)
(*                                                                         *)
(* The retention of content: what a pass unlinks was named by no pointer   *)
(* and no written request when it was planned, and a pass has the lock.    *)
(***************************************************************************)
EXTENDS ContentRetention, AuditJournal, ApplicationDeploy, IssueReview, FiniteSetTheorems, TLAPS

WriterPlace == {"verifying", "writing", "finishing", "syncing", "linking"}

\* The locks are held where their holders think they hold them.
LocksFit ==
  /\ \A p \in Appender : appending[p] \in WriterPlace <=> writer = p
  /\ \A p \in Appender : appending[p] = "reading" <=> p \in readers

\* Who writes has verified the records as they are, and its event is not among them.
SeenIsCurrent ==
  \A p \in Appender : appending[p] \in {"writing", "finishing"} =>
    seen[p] = records /\ event[p] \notin Events(records)

\* A process that is not idle and does not read has an event; once its record is
\* written it is there.
EventsFit ==
  \A p \in Appender :
    /\ appending[p] \in {"opened"} \cup WriterPlace => event[p] \in Event
    /\ appending[p] \in {"syncing", "linking"} => event[p] \in Events(records)
    /\ appending[p] \in {"opened", "verifying", "writing", "finishing"} /\ event[p] \in acked =>
         event[p] \in Events(records)

\* What was acknowledged is among the synced records.
AckedIsSynced ==
  /\ \A i \in DOMAIN records : records[i].event \in acked => i <= synced
  /\ \A p \in Appender : appending[p] = "linking" => synced = Len(records)

Distinct == \A i, j \in DOMAIN records : records[i].event = records[j].event => i = j

JournalInv ==
  /\ JournalTypeOK /\ LocksFit /\ Chained(records) /\ Distinct /\ SeenIsCurrent /\ EventsFit
  /\ AckedIsSynced

\* There is no journal yet.
LEMMA JournalBegins == JournalInit => JournalInv
<1> SUFFICES ASSUME JournalInit PROVE JournalInv
  OBVIOUS
<1>1. records = <<>> /\ records \in Seq(Record) /\ Len(records) = 0 /\ DOMAIN records = {}
  BY DEF JournalInit
<1>2. JournalTypeOK
  <2>1. <<>> \in Seq(Record) /\ 0 \in 0..MaxJournalCrashes
    BY JournalBoundAssumption
  <2>2. seen \in [Appender -> Seq(Record)] /\ journalCrashes \in 0..MaxJournalCrashes
    BY <2>1 DEF JournalInit
  <2>3. synced \in 0..Len(records)
    BY <1>1 DEF JournalInit
  <2>4. QED
    BY <1>1, <2>2, <2>3 DEF JournalInit, JournalTypeOK, JournalPlace
<1>3. Chained(records) /\ Distinct /\ AckedIsSynced
  BY <1>1 DEF JournalInit, Chained, Distinct, AckedIsSynced
<1>4. LocksFit /\ SeenIsCurrent /\ EventsFit
  BY NoAppenderAssumption DEF JournalInit, LocksFit, SeenIsCurrent, EventsFit, WriterPlace
<1>5. QED
  BY <1>2, <1>3, <1>4 DEF JournalInv

\* A record that follows the chain lengthens it.
LEMMA LongerChain ==
  ASSUME NEW log \in Seq(Record), Chained(log), NEW e \in Event, NEW r,
         r = [event |-> e, position |-> Len(log),
              previous |-> IF Len(log) = 0 THEN NoEvent ELSE log[Len(log)].event]
  PROVE  Append(log, r) \in Seq(Record) /\ Chained(Append(log, r))
<1>1. r \in Record
  <2>1. Len(log) \in Nat /\ (Len(log) # 0 => log[Len(log)] \in Record)
    OBVIOUS
  <2>2. Len(log) # 0 => log[Len(log)].event \in Event
    BY <2>1 DEF Record
  <2>3. QED
    BY <2>1, <2>2 DEF Record
<1>2. Append(log, r) \in Seq(Record) /\ Len(Append(log, r)) = Len(log) + 1
  BY <1>1
<1>3. SUFFICES ASSUME NEW i \in 1..(Len(log) + 1)
               PROVE  /\ Append(log, r)[i].position = i - 1
                      /\ Append(log, r)[i].previous =
                           IF i = 1 THEN NoEvent ELSE Append(log, r)[i - 1].event
  BY <1>2 DEF Chained
<1>4. CASE i = Len(log) + 1
  BY <1>1, <1>4
<1>5. CASE i \in 1..Len(log)
  <2>1. Append(log, r)[i] = log[i] /\ (i # 1 => Append(log, r)[i - 1] = log[i - 1])
    BY <1>1, <1>5
  <2>2. QED
    BY <1>5, <2>1 DEF Chained
<1>6. QED
  BY <1>4, <1>5

\* A prefix of a chain is a chain.
LEMMA ShorterChain ==
  ASSUME NEW log \in Seq(Record), Chained(log), NEW n \in 0..Len(log)
  PROVE  /\ SubSeq(log, 1, n) \in Seq(Record) /\ Len(SubSeq(log, 1, n)) = n
         /\ \A i \in 1..n : SubSeq(log, 1, n)[i] = log[i]
         /\ Chained(SubSeq(log, 1, n))
<1>1. /\ SubSeq(log, 1, n) \in Seq(Record) /\ Len(SubSeq(log, 1, n)) = n
      /\ \A i \in 1..n : SubSeq(log, 1, n)[i] = log[i]
  OBVIOUS
<1>2. QED
  BY <1>1 DEF Chained

\* The events of a longer log.
LEMMA LongerEvents ==
  ASSUME NEW log \in Seq(Record), NEW r \in Record
  PROVE  Events(Append(log, r)) = Events(log) \cup {r.event}
<1>1. /\ Len(Append(log, r)) = Len(log) + 1 /\ Append(log, r) \in Seq(Record)
      /\ \A i \in 1..Len(log) : Append(log, r)[i] = log[i]
      /\ Append(log, r)[Len(log) + 1] = r
  OBVIOUS
<1>2. DOMAIN Append(log, r) = DOMAIN log \cup {Len(log) + 1}
  BY <1>1
<1>3. QED
  BY <1>1, <1>2 DEF Events

\* The process that leaves takes its lock and nothing else with it.
LEMMA CloseStep ==
  ASSUME JournalTypeOK, LocksFit, NEW p \in Appender, Close(p)
  PROVE  /\ appending' \in [Appender -> JournalPlace] /\ appending'[p] = "idle"
         /\ event' \in [Appender -> Event \cup {NoEvent}]
         /\ creator' \in [Appender -> BOOLEAN] /\ seen' \in [Appender -> Seq(Record)]
         /\ writer' \in Appender \cup {NoAppender} /\ readers' \subseteq Appender
         /\ (writer' # NoAppender => readers' = {})
         /\ \A q \in Appender \ {p} : /\ appending'[q] = appending[q] /\ event'[q] = event[q]
                                      /\ seen'[q] = seen[q]
         /\ LocksFit'
BY NoAppenderAssumption
   DEF JournalTypeOK, LocksFit, Close, MoveTo, JournalPlace, WriterPlace

\* Every step keeps the chain and what was acknowledged.
LEMMA JournalInvStep == JournalInv /\ [JournalNext]_journalVars => JournalInv'
<1> SUFFICES ASSUME JournalInv, [JournalNext]_journalVars PROVE JournalInv'
  OBVIOUS
<1> USE NoAppenderAssumption DEF JournalInv
<1>0. Len(records) \in Nat /\ synced \in Nat /\ synced <= Len(records) /\ DOMAIN records = 1..Len(records)
  BY DEF JournalTypeOK
<1>1. CASE UNCHANGED journalVars
  BY <1>1 DEF journalVars, file, locks, local, JournalTypeOK, LocksFit, Chained, Distinct,
              SeenIsCurrent, EventsFit, AckedIsSynced, Events
\* A process closes; the records are as they were, and synced no less.
<1>2. ASSUME NEW p \in Appender, Close(p), records' = records,
             journalCrashes' \in 0..MaxJournalCrashes,
             present' \in BOOLEAN, partial' \in BOOLEAN, linked' \in BOOLEAN,
             synced' = synced \/ synced' = Len(records),
             acked' = acked \/ (acked' = acked \cup {event[p]} /\ synced' = Len(records)
                                /\ event[p] \in Events(records) /\ event[p] \in Event)
      PROVE  JournalInv'
  <2>0. /\ appending'[p] = "idle" /\ LocksFit'
        /\ \A q \in Appender \ {p} : /\ appending'[q] = appending[q] /\ event'[q] = event[q]
                                      /\ seen'[q] = seen[q]
    BY <1>2, CloseStep
  <2>1. JournalTypeOK'
    BY <1>2, <1>0, CloseStep DEF JournalTypeOK
  <2>2. Chained(records)' /\ Distinct'
    BY <1>2 DEF Chained, Distinct
  <2>3. SeenIsCurrent'
    BY <1>2, <2>0 DEF SeenIsCurrent, Events
  <2>4. EventsFit'
    BY <1>2, <2>0 DEF EventsFit, Events, WriterPlace
  <2>5. \A i \in DOMAIN records : records[i].event \in acked' => i <= synced'
    <3>1. CASE synced' = Len(records)
      BY <1>0, <3>1
    <3>2. CASE synced' # Len(records)
      BY <1>2, <3>2 DEF AckedIsSynced
    <3>3. QED
      BY <3>1, <3>2
  <2>6. \A q \in Appender : appending'[q] = "linking" => synced' = Len(records)
    BY <1>2, <2>0 DEF AckedIsSynced
  <2>7. QED
    BY <1>2, <2>0, <2>1, <2>2, <2>3, <2>4, <2>5, <2>6 DEF AckedIsSynced
\* A process moves on and touches none of the records.
<1>3. ASSUME NEW p \in Appender, NEW place \in JournalPlace, MoveTo(p, place),
             UNCHANGED <<records, synced, event, creator, acked, journalCrashes>>,
             seen' \in [Appender -> Seq(Record)],
             \A q \in Appender \ {p} : seen'[q] = seen[q],
             present' \in BOOLEAN, partial' \in BOOLEAN, linked' \in BOOLEAN,
             writer' \in Appender \cup {NoAppender}, readers' \subseteq Appender,
             writer' # NoAppender => readers' = {}, LocksFit',
             place \in {"writing", "finishing"} => seen'[p] = records /\ event[p] \notin Events(records),
             place \notin {"opened", "syncing", "linking"},
             place \in WriterPlace => appending[p] \in {"opened", "verifying", "writing"}
      PROVE  JournalInv'
  <2>1. /\ appending' = [appending EXCEPT ![p] = place] /\ appending'[p] = place
        /\ \A q \in Appender \ {p} : appending'[q] = appending[q]
    BY <1>3 DEF MoveTo, JournalTypeOK
  <2>2. JournalTypeOK'
    BY <1>3, <2>1 DEF JournalTypeOK
  <2>3. Chained(records)' /\ Distinct'
    BY <1>3 DEF Chained, Distinct
  <2>4. SeenIsCurrent'
    BY <1>3, <2>1 DEF SeenIsCurrent, Events
  <2>5. EventsFit'
    BY <1>3, <2>1 DEF EventsFit, Events, WriterPlace, JournalPlace
  <2>6. AckedIsSynced'
    BY <1>3, <2>1 DEF AckedIsSynced
  <2>7. QED
    BY <1>3, <2>2, <2>3, <2>4, <2>5, <2>6
<1>4. ASSUME NEW p \in Appender, NEW e \in Event, Open(p, e) PROVE JournalInv'
  <2>1. /\ appending'[p] = "opened" /\ event'[p] = e
        /\ \A q \in Appender \ {p} : appending'[q] = appending[q] /\ event'[q] = event[q]
        /\ acked' = acked \ {e} /\ seen' = seen
        /\ records' = records /\ synced' = synced /\ writer' = writer /\ readers' = readers
    BY <1>4 DEF Open, MoveTo, JournalTypeOK, locks
  <2>2. JournalTypeOK'
    BY <1>4, <2>1 DEF JournalTypeOK, Open, MoveTo, JournalPlace
  <2>3. LocksFit'
    BY <1>4, <2>1 DEF LocksFit, Open, WriterPlace
  <2>4. Chained(records)' /\ Distinct' /\ AckedIsSynced'
    BY <2>1 DEF Chained, Distinct, AckedIsSynced
  <2>5. SeenIsCurrent'
    BY <2>1 DEF SeenIsCurrent, Events
  <2>6. EventsFit'
    BY <2>1 DEF EventsFit, Events, WriterPlace
  <2>7. QED
    BY <2>2, <2>3, <2>4, <2>5, <2>6
<1>5. ASSUME NEW p \in Appender, LockForAppend(p) PROVE JournalInv'
  <2>1. LocksFit'
    BY <1>5 DEF LockForAppend, MoveTo, LocksFit, WriterPlace, JournalTypeOK
  <2>2. QED
    BY <1>5, <2>1, <1>3 DEF LockForAppend, MoveTo, JournalTypeOK, JournalPlace, file, local
<1>6. ASSUME NEW p \in Appender, Verify(p) PROVE JournalInv'
  <2>1. CASE Verifies /\ event[p] \notin Events(records)
    <3>1. LocksFit'
      BY <1>6, <2>1 DEF Verify, MoveTo, LocksFit, WriterPlace, JournalTypeOK, locks
    <3>2. /\ seen' = [seen EXCEPT ![p] = records] /\ MoveTo(p, "writing") /\ appending[p] = "verifying"
          /\ UNCHANGED <<file, acked, journalCrashes, event, creator, locks>>
      BY <1>6, <2>1 DEF Verify
    <3>3. /\ seen' \in [Appender -> Seq(Record)] /\ seen'[p] = records
          /\ \A q \in Appender \ {p} : seen'[q] = seen[q]
      BY <3>2 DEF JournalTypeOK
    <3>4. QED
      BY <2>1, <3>1, <3>2, <3>3, <1>3 DEF JournalTypeOK, JournalPlace, file, locks
  <2>2. CASE ~(Verifies /\ event[p] \notin Events(records))
    BY <1>6, <2>2, <1>2 DEF Verify, JournalTypeOK, file
  <2>3. QED
    BY <2>1, <2>2
<1>7. ASSUME NEW p \in Appender, Write(p) PROVE JournalInv'
  <2>1. LocksFit'
    BY <1>7 DEF Write, MoveTo, LocksFit, WriterPlace, JournalTypeOK, locks
  <2>2. seen[p] = records /\ event[p] \notin Events(records)
    BY <1>7 DEF Write, SeenIsCurrent
  <2>3. QED
    BY <1>7, <2>1, <2>2, <1>3 DEF Write, JournalTypeOK, JournalPlace, locks, local
<1>8. ASSUME NEW p \in Appender, FinishAppend(p) PROVE JournalInv'
  <2> DEFINE r == NextRecord(p)
  <2>1. /\ appending[p] = "finishing" /\ records' = Append(records, r)
        /\ appending'[p] = "syncing" /\ partial' = FALSE
        /\ \A q \in Appender \ {p} : appending'[q] = appending[q]
        /\ appending' \in [Appender -> JournalPlace]
        /\ UNCHANGED <<present, linked, synced, writer, readers, event, creator, seen, acked, journalCrashes>>
    BY <1>8 DEF FinishAppend, MoveTo, JournalTypeOK, JournalPlace, locks, local
  <2>2. seen[p] = records /\ event[p] \notin Events(records) /\ event[p] \in Event /\ writer = p
    BY <2>1 DEF SeenIsCurrent, EventsFit, WriterPlace, LocksFit
  <2>3. r = [event |-> event[p], position |-> Len(records),
             previous |-> IF Len(records) = 0 THEN NoEvent ELSE records[Len(records)].event]
    BY <2>2 DEF NextRecord
  <2>4. records \in Seq(Record)
    BY DEF JournalTypeOK
  <2> HIDE DEF r
  <2>5. Append(records, r) \in Seq(Record) /\ Chained(Append(records, r))
    BY <2>2, <2>3, <2>4, LongerChain
  <2>6. /\ Len(Append(records, r)) = Len(records) + 1
        /\ \A i \in 1..Len(records) : Append(records, r)[i] = records[i]
        /\ Append(records, r)[Len(records) + 1] = r
    BY <2>4
  <2>7. r \in Record /\ r.event = event[p]
    BY <2>3, <2>5, <2>6
  <2>8. Events(records)' = Events(records) \cup {event[p]}
    BY <2>1, <2>4, <2>7, LongerEvents DEF Events
  <2>9. JournalTypeOK'
    <3>1. synced' \in 0..Len(records') /\ records' \in Seq(Record)
      BY <1>0, <2>1, <2>5, <2>6
    <3>2. QED
      BY <2>1, <3>1 DEF JournalTypeOK
  <2>10. LocksFit'
    BY <2>1, <2>2 DEF LocksFit, WriterPlace
  <2>11. Chained(records)'
    BY <2>1, <2>5 DEF Chained
  <2>12. \A i \in 1..Len(records) : records[i].event # event[p]
    BY <1>0, <2>2 DEF Events
  <2>13. Distinct'
    <3>1. DOMAIN records' = 1..(Len(records) + 1)
      BY <2>1, <2>5, <2>6
    <3>2. \A i \in 1..Len(records) : records'[i] = records[i]
      BY <2>1, <2>6
    <3>3. records'[Len(records) + 1].event = event[p]
      BY <2>1, <2>6, <2>7
    <3>4. QED
      BY <1>0, <3>1, <3>2, <3>3, <2>12 DEF Distinct
  <2>14. SeenIsCurrent'
    <3>1. \A q \in Appender \ {p} : appending[q] \notin WriterPlace
      BY <2>2 DEF LocksFit
    <3>2. QED
      BY <2>1, <3>1 DEF SeenIsCurrent, WriterPlace
  <2>15. EventsFit'
    BY <2>1, <2>2, <2>8 DEF EventsFit, WriterPlace
  <2>16. event[p] \notin acked
    BY <2>1, <2>2 DEF EventsFit
  <2>17. AckedIsSynced'
    <3>1. DOMAIN records' = 1..(Len(records) + 1)
      BY <2>1, <2>5, <2>6
    <3>2. \A i \in DOMAIN records' : records'[i].event \in acked => i <= synced
      <4>1. ASSUME NEW i \in 1..Len(records), records'[i].event \in acked PROVE i <= synced
        <5>1. records'[i] = records[i] /\ i \in DOMAIN records
          BY <1>0, <2>1, <2>6
        <5>2. QED
          BY <4>1, <5>1 DEF AckedIsSynced
      <4>2. records'[Len(records) + 1].event \notin acked
        BY <2>1, <2>6, <2>7, <2>16
      <4>3. \A i \in DOMAIN records' : i \in 1..Len(records) \/ i = Len(records) + 1
        BY <1>0, <3>1
      <4>4. QED
        BY <4>1, <4>2, <4>3
    <3>3. \A q \in Appender : appending'[q] # "linking"
      BY <2>1, <2>2 DEF LocksFit, WriterPlace
    <3>4. QED
      BY <2>1, <3>2, <3>3 DEF AckedIsSynced
  <2>18. QED
    BY <2>9, <2>10, <2>11, <2>13, <2>14, <2>15, <2>17
<1>9. ASSUME NEW p \in Appender, Sync(p) PROVE JournalInv'
  <2>1. /\ appending[p] = "syncing" /\ synced' = Len(records) /\ records' = records
        /\ UNCHANGED <<present, partial, linked, journalCrashes>>
        /\ event[p] \in Event /\ event[p] \in Events(records) /\ writer = p
    BY <1>9 DEF Sync, EventsFit, WriterPlace, LocksFit
  <2>2. CASE ~Verifies \/ ~creator[p]
    <3>1. Close(p) /\ (acked' = acked \/ acked' = acked \cup {event[p]})
      BY <1>9, <2>2 DEF Sync
    <3>2. QED
      BY <2>1, <3>1, <1>2 DEF JournalTypeOK
  <2>3. CASE Verifies /\ creator[p]
    <3>1. /\ appending'[p] = "linking" /\ appending' \in [Appender -> JournalPlace]
          /\ \A q \in Appender \ {p} : appending'[q] = appending[q]
          /\ UNCHANGED <<writer, readers, event, creator, seen, acked>>
      BY <1>9, <2>3 DEF Sync, MoveTo, JournalTypeOK, JournalPlace, locks, local
    <3>2. JournalTypeOK'
      BY <1>0, <2>1, <3>1 DEF JournalTypeOK
    <3>3. LocksFit'
      BY <2>1, <3>1 DEF LocksFit, WriterPlace
    <3>4. Chained(records)' /\ Distinct'
      BY <2>1 DEF Chained, Distinct
    <3>5. SeenIsCurrent'
      BY <2>1, <3>1 DEF SeenIsCurrent, Events
    <3>6. EventsFit'
      BY <2>1, <3>1 DEF EventsFit, Events, WriterPlace
    <3>7. AckedIsSynced'
      <4>1. \A i \in DOMAIN records : i <= Len(records)
        BY <1>0
      <4>2. QED
        BY <2>1, <3>1, <4>1 DEF AckedIsSynced
    <3>8. QED
      BY <3>2, <3>3, <3>4, <3>5, <3>6, <3>7
  <2>4. QED
    BY <2>2, <2>3
<1>10. ASSUME NEW p \in Appender, Link(p) PROVE JournalInv'
  <2>1. synced = Len(records) /\ event[p] \in Event /\ event[p] \in Events(records)
    BY <1>10 DEF Link, AckedIsSynced, EventsFit, WriterPlace
  <2>2. QED
    BY <1>10, <2>1, <1>2 DEF Link, JournalTypeOK
<1>11. ASSUME NEW p \in Appender, OpenRead(p) PROVE JournalInv'
  <2>1. LocksFit'
    BY <1>11 DEF OpenRead, MoveTo, LocksFit, WriterPlace, JournalTypeOK, locks
  <2>2. QED
    BY <1>11, <2>1, <1>3 DEF OpenRead, JournalTypeOK, JournalPlace, WriterPlace, locks, local, file
<1>12. ASSUME NEW p \in Appender, LockForRead(p) PROVE JournalInv'
  <2>1. LocksFit'
    BY <1>12 DEF LockForRead, MoveTo, LocksFit, WriterPlace, JournalTypeOK
  <2>2. QED
    BY <1>12, <2>1, <1>3 DEF LockForRead, JournalTypeOK, JournalPlace, WriterPlace, local, file
<1>13. ASSUME NEW p \in Appender, Read(p) \/ JournalCrash(p) PROVE JournalInv'
  BY <1>13, <1>2, JournalBoundAssumption DEF Read, JournalCrash, JournalTypeOK, file
<1>14. CASE HostCrash
  <2>1. /\ appending' = [p \in Appender |-> "idle"] /\ event' = [p \in Appender |-> NoEvent]
        /\ creator' = [p \in Appender |-> FALSE] /\ seen' = [p \in Appender |-> <<>>]
        /\ writer' = NoAppender /\ readers' = {} /\ acked' = acked
        /\ journalCrashes' \in 0..MaxJournalCrashes
    BY <1>14, JournalBoundAssumption DEF HostCrash, JournalTypeOK
  <2>2. LocksFit' /\ SeenIsCurrent' /\ EventsFit'
    BY <2>1 DEF LocksFit, SeenIsCurrent, EventsFit, WriterPlace
  <2> DEFINE Survives ==
        /\ records' \in Seq(Record) /\ synced' \in 0..Len(records') /\ Chained(records')
        /\ Distinct' /\ \A i \in DOMAIN records' : records'[i].event \in acked => i <= synced'
        /\ present' \in BOOLEAN /\ partial' \in BOOLEAN /\ linked' \in BOOLEAN
  <2>3. Survives
    <3>1. ASSUME NEW n \in synced..Len(records), records' = SubSeq(records, 1, n), synced' = n,
                 partial' \in IF n = Len(records) THEN {FALSE, partial} ELSE BOOLEAN,
                 present' = present, linked' = present
          PROVE  Survives
      <4>1. n \in 0..Len(records) /\ records \in Seq(Record)
        BY <1>0 DEF JournalTypeOK
      <4>2. /\ records' \in Seq(Record) /\ Len(records') = n
            /\ \A i \in 1..n : records'[i] = records[i]
            /\ Chained(records')
        BY <3>1, <4>1, ShorterChain
      <4>3. DOMAIN records' = 1..n
        BY <4>2
      <4>4. Distinct'
        BY <1>0, <4>1, <4>2, <4>3 DEF Distinct
      <4>5. present' \in BOOLEAN /\ partial' \in BOOLEAN /\ linked' \in BOOLEAN
        BY <3>1 DEF JournalTypeOK
      <4>6. synced' \in 0..Len(records') /\ \A i \in DOMAIN records' : i <= synced'
        BY <3>1, <4>1, <4>2, <4>3
      <4>7. QED
        BY <4>2, <4>4, <4>5, <4>6
    <3>2. ASSUME present' = FALSE, records' = <<>>, partial' = FALSE, synced' = 0, linked' = FALSE
          PROVE  Survives
      <4>1. records' \in Seq(Record) /\ Len(records') = 0 /\ DOMAIN records' = {}
        BY <3>2
      <4>2. Chained(records') /\ Distinct'
        BY <4>1 DEF Chained, Distinct
      <4>3. synced' \in 0..Len(records')
        BY <3>2, <4>1
      <4>4. QED
        BY <3>2, <4>1, <4>2, <4>3
    <3>3. QED
      BY <1>14, <3>1, <3>2 DEF HostCrash
  <2>4. JournalTypeOK'
    BY <2>1, <2>3 DEF JournalTypeOK, JournalPlace
  <2>5. AckedIsSynced'
    BY <2>1, <2>3 DEF AckedIsSynced
  <2>6. QED
    BY <2>2, <2>3, <2>4, <2>5 DEF Chained
<1>15. QED
  BY <1>1, <1>4, <1>5, <1>6, <1>7, <1>8, <1>9, <1>10, <1>11, <1>12, <1>13, <1>14
     DEF JournalNext, JournalStep

\* Behaviour of audit_journal.py append_event and read_and_verify: whatever overlaps
\* or crashes, the records form one chain without a fork or a repeated event, and who
\* holds its lock meets no record that a live process is still writing.
THEOREM ChainStaysIntact == JournalSpec => []ChainIntact
<1>1. JournalInv => ChainIntact
  BY NoAppenderAssumption
     DEF JournalInv, JournalTypeOK, LocksFit, ChainIntact, Distinct, WriterPlace
<1>2. QED
  BY <1>1, JournalBegins, JournalInvStep, PTL DEF JournalSpec

\* Behaviour of append_event: once the directory entry is on disk, no crash of a
\* process or of the host takes back an append that returned.
THEOREM AcknowledgedStays == JournalSpec => AckedStays
<1>1. JournalInv /\ [JournalNext]_journalVars =>
        [\A e \in acked : linked /\ e \in Events(records) => e \in Events(records')]_journalVars
  <2> SUFFICES ASSUME JournalInv, JournalNext, NEW e \in acked, linked, e \in Events(records)
               PROVE  e \in Events(records')
    OBVIOUS
  <2>1. records \in Seq(Record) /\ synced \in 0..Len(records) /\ DOMAIN records = 1..Len(records)
    BY DEF JournalInv, JournalTypeOK
  <2>2. CASE HostCrash
    <3>1. PICK n \in synced..Len(records) : records' = SubSeq(records, 1, n)
      BY <2>2 DEF HostCrash
    <3>2. PICK i \in DOMAIN records : records[i].event = e
      BY DEF Events
    <3>3. i <= synced
      BY <3>2 DEF JournalInv, AckedIsSynced
    <3>4. n \in 0..Len(records) /\ i \in 1..n
      BY <2>1, <3>3
    <3>5. /\ Len(records') = n /\ records' \in Seq(Record)
          /\ records'[i] = records[i]
      BY <2>1, <3>1, <3>4, ShorterChain DEF JournalInv
    <3>6. QED
      BY <3>2, <3>4, <3>5 DEF Events
  <2>3. ASSUME NEW p \in Appender, FinishAppend(p) PROVE e \in Events(records')
    <3>1. PICK i \in DOMAIN records : records[i].event = e
      BY DEF Events
    <3>2. records' = Append(records, NextRecord(p))
      BY <2>3 DEF FinishAppend
    <3>3. i \in DOMAIN records' /\ records'[i] = records[i]
      BY <2>1, <3>2
    <3>4. QED
      BY <3>1, <3>3 DEF Events
  <2>4. ASSUME NEW p \in Appender, JournalStep(p), ~FinishAppend(p) PROVE records' = records
    BY <2>4 DEF JournalStep, Open, LockForAppend, Verify, Write, Sync, Link, OpenRead, LockForRead,
                Read, JournalCrash, file
  <2>5. QED
    BY <2>2, <2>3, <2>4 DEF JournalNext
<1>2. QED
  BY <1>1, JournalBegins, JournalInvStep, PTL DEF JournalSpec, AckedStays

----------------------------------------------------------------------------
(* The deployment of applications.                                         *)

\* How much of "previous" is known while a deployment is prepared.
PreviousFits ==
  /\ run.previous \in [DOMAIN run.previous -> [Part -> Names]]
  /\ run.phase = "copy" => DOMAIN run.previous = IF run.at = "source" THEN {} ELSE {"source"}
  /\ run.phase \in {"migrate", "compatibility"} =>
       DOMAIN run.previous = IF run.at = "source" THEN {"source"} ELSE Endpoint
  /\ run.phase = "parity" => DOMAIN run.previous = Endpoint

PreparingFits ==
  /\ run = [phase |-> run.phase, at |-> run.at, deployment |-> run.deployment,
            previous |-> run.previous, applied |-> run.applied]
  /\ run.phase \in Preparing /\ run.at \in Endpoint /\ run.deployment \in Deployments
  /\ PreviousFits

\* In a phase of eight steps the fourth one has proved an endpoint, and what
\* follows leaves that endpoint alone.
SwitchingFits ==
  /\ run = [phase |-> run.phase, step |-> run.step, deployment |-> run.deployment,
            previous |-> run.previous]
  /\ run.phase \in Activating \cup Restoring /\ run.step \in 1..8
  /\ run.deployment \in Deployments /\ run.previous \in [Endpoint -> [Part -> Names]]
  /\ databases["source"][New] = databases["production"][New]
  /\ run.phase \in Activating /\ run.step > 4 => \A p \in Part : active["source"][p] = New
  /\ run.phase \in Restoring /\ run.step > 4 => active["production"] = run.previous["production"]

DeployInv ==
  /\ active \in [Endpoint -> [Part -> Names]]
  /\ run = Idle \/ PreparingFits \/ SwitchingFits

\* Nothing is deployed at the start.
LEMMA DeployBegins == DeployInit => DeployInv
BY DEF DeployInit, DeployInv, Names

\* A run that ends or fails is idle.
LEMMA IdleFits ==
  ASSUME DeployInv, run' = Idle, active' = active
  PROVE  DeployInv'
BY DEF DeployInv, Idle

\* The places that the steps of a phase change.
LEMMA PlacesOfSteps ==
  ASSUME SwitchingFits
  PROVE  /\ At \in Endpoint /\ Slot \in Part \cup {"smoke"}
         /\ Slot = "smoke" <=> run.step \in {4, 8}
         /\ run.phase \in Activating => At = IF run.step <= 4 THEN "source" ELSE "production"
         /\ run.phase \in Restoring => At = IF run.step <= 4 THEN "production" ELSE "source"
<1>1. run.step \in {1, 2, 3, 4, 5, 6, 7, 8} /\ run.phase \in Activating \cup Restoring
  BY DEF SwitchingFits
<1>2. \A k \in {1, 2, 3, 4, 5, 6, 7, 8} :
        /\ Forward[k] = <<IF k <= 4 THEN "source" ELSE "production", Forward[k][2]>>
        /\ Backward[k] = <<IF k <= 4 THEN "production" ELSE "source", Backward[k][2]>>
        /\ Forward[k][2] \in Part \cup {"smoke"} /\ (Forward[k][2] = "smoke" <=> k \in {4, 8})
        /\ Backward[k][2] \in Part \cup {"smoke"} /\ (Backward[k][2] = "smoke" <=> k \in {4, 8})
  BY DEF Forward, Backward, Part
<1>3. Activating \cap Restoring = {}
  BY DEF Activating, Restoring
<1>4. QED
  BY <1>1, <1>2, <1>3 DEF PointerPlace, At, Slot, Endpoint

\* A step that fails, and the last one of a phase, begin another phase or end the run.
LEMMA PhaseBegins ==
  ASSUME DeployInv, SwitchingFits, NEW phase \in {"idle"} \cup Activating \cup Restoring, GoTo(phase),
         active' \in [Endpoint -> [Part -> Names]], databases' = databases
  PROVE  DeployInv'
<1>1. CASE phase = "idle"
  BY <1>1 DEF GoTo, DeployInv
<1>2. CASE phase # "idle"
  <2>1. run' = [phase |-> phase, step |-> 1, deployment |-> run.deployment, previous |-> run.previous]
    BY <1>2 DEF GoTo, SwitchingFits
  <2>2. SwitchingFits'
    BY <1>2, <2>1 DEF SwitchingFits, New
  <2>3. QED
    BY <2>2 DEF DeployInv
<1>3. QED
  BY <1>1, <1>2

\* Whatever follows a phase, or its failure, is a phase of the deployment or its end.
LEMMA FollowingPhases == NextPhase \in {"idle"} \cup Activating \cup Restoring
                         /\ FailurePhase \in {"idle"} \cup Activating \cup Restoring
BY DEF NextPhase, FailurePhase, Activating, Restoring

\* Every step of a deployment keeps what it knows.
LEMMA DeployInvStep == DeployInv /\ [Deploy]_deployVars => DeployInv'
<1> SUFFICES ASSUME DeployInv, [Deploy]_deployVars PROVE DeployInv'
  OBVIOUS
<1>0. /\ Preparing \cap (Activating \cup Restoring) = {} /\ Activating \cap Restoring = {}
      /\ "idle" \notin Preparing \cup Activating \cup Restoring
  BY DEF Preparing, Activating, Restoring
<1>1. CASE UNCHANGED deployVars
  BY <1>1 DEF deployVars, DeployInv, PreparingFits, PreviousFits, SwitchingFits, New
<1>2. ASSUME NEW d \in Deployments, Begin(d) PROVE DeployInv'
  <2>1. PreparingFits'
    BY <1>2 DEF Begin, PreparingFits, PreviousFits, Preparing, Endpoint
  <2>2. QED
    BY <1>2, <2>1 DEF Begin, DeployInv
<1>3. ASSUME run.phase \in Preparing PROVE PreparingFits
  BY <1>3, <1>0 DEF DeployInv, Idle, SwitchingFits
<1>4. ASSUME run.phase \in Activating \cup Restoring PROVE SwitchingFits
  BY <1>4, <1>0 DEF DeployInv, Idle, PreparingFits
<1>5. CASE Copy
  <2>1. PreparingFits /\ run.phase = "copy"
    BY <1>3, <1>5 DEF Copy, Preparing
  <2> DEFINE known == Extended(run.previous, run.at, active[run.at])
  <2>2. known \in [DOMAIN known -> [Part -> Names]] /\ DOMAIN known = DOMAIN run.previous \cup {run.at}
    <3>1. active[run.at] \in [Part -> Names]
      BY <2>1 DEF DeployInv, PreparingFits
    <3>2. QED
      BY <2>1, <3>1 DEF Extended, PreparingFits, PreviousFits
  <2>3. DOMAIN known = IF run.at = "source" THEN {"source"} ELSE Endpoint
    BY <2>1, <2>2 DEF PreparingFits, PreviousFits, Endpoint
  <2> HIDE DEF known
  <2>4. run' = [phase |-> "migrate", at |-> run.at, deployment |-> run.deployment,
                previous |-> known, applied |-> run.applied]
    BY <1>5, <2>1 DEF Copy, PreparingFits, known
  <2>5. PreparingFits'
    BY <2>1, <2>2, <2>3, <2>4 DEF PreparingFits, PreviousFits, Preparing
  <2>6. QED
    BY <1>5, <2>5 DEF Copy, DeployInv
<1>6. CASE Migrate
  <2>1. PreparingFits /\ run.phase = "migrate"
    BY <1>3, <1>6 DEF Migrate, Preparing
  <2>2. ASSUME NEW given, run' = [run EXCEPT !.phase = "compatibility", !.applied = given]
        PROVE  PreparingFits'
    <3>1. run' = [phase |-> "compatibility", at |-> run.at, deployment |-> run.deployment,
                  previous |-> run.previous, applied |-> given]
      BY <2>1, <2>2 DEF PreparingFits
    <3>2. QED
      BY <2>1, <3>1 DEF PreparingFits, PreviousFits, Preparing
  <2>3. run' = Idle \/ \E given : run' = [run EXCEPT !.phase = "compatibility", !.applied = given]
    BY <1>6 DEF Migrate, Fail
  <2>4. QED
    BY <1>6, <2>2, <2>3 DEF Migrate, DeployInv
<1>7. CASE Compatibility
  <2>1. PreparingFits /\ run.phase = "compatibility"
    BY <1>3, <1>7 DEF Compatibility, Preparing
  <2>2. CASE run' = [run EXCEPT !.phase = "copy", !.at = "production"] /\ run.at = "source"
    <3>1. run' = [phase |-> "copy", at |-> "production", deployment |-> run.deployment,
                  previous |-> run.previous, applied |-> run.applied]
      BY <2>1, <2>2 DEF PreparingFits
    <3>2. PreparingFits'
      BY <2>1, <2>2, <3>1 DEF PreparingFits, PreviousFits, Preparing, Endpoint
    <3>3. QED
      BY <1>7, <3>2 DEF Compatibility, DeployInv
  <2>3. CASE run' = [run EXCEPT !.phase = "parity"] /\ run.at # "source"
    <3>1. run' = [phase |-> "parity", at |-> run.at, deployment |-> run.deployment,
                  previous |-> run.previous, applied |-> run.applied]
      BY <2>1, <2>3 DEF PreparingFits
    <3>2. PreparingFits'
      BY <2>1, <2>3, <3>1 DEF PreparingFits, PreviousFits, Preparing
    <3>3. QED
      BY <1>7, <3>2 DEF Compatibility, DeployInv
  <2>4. QED
    BY <1>7, <2>2, <2>3 DEF Compatibility, Fail, DeployInv
<1>8. CASE CheckParity
  <2>1. PreparingFits /\ run.phase = "parity"
    BY <1>3, <1>8 DEF CheckParity, Preparing
  <2>2. CASE Parity
    <3>1. run' = [phase |-> "activate", step |-> 1, deployment |-> run.deployment,
                  previous |-> run.previous]
      BY <1>8, <2>2 DEF CheckParity
    <3>2. SwitchingFits'
      BY <1>8, <2>1, <2>2, <3>1
         DEF CheckParity, Parity, SwitchingFits, PreparingFits, PreviousFits, Activating, New
    <3>3. QED
      BY <1>8, <3>2 DEF CheckParity, DeployInv
  <2>3. QED
    BY <1>8, <2>2 DEF CheckParity, Fail, DeployInv
<1>9. CASE PreparationFails
  BY <1>9 DEF PreparationFails, Fail, DeployInv
\* A step within a phase.
<1>10. ASSUME SwitchingFits, run.step < 8, run' = [run EXCEPT !.step = @ + 1], databases' = databases,
              active' \in [Endpoint -> [Part -> Names]],
              run.phase \in Activating /\ run.step >= 4 => \A p \in Part : active'["source"][p] = New,
              run.phase \in Restoring /\ run.step >= 4 =>
                active'["production"] = run.previous["production"]
       PROVE  DeployInv'
  <2>1. run' = [phase |-> run.phase, step |-> run.step + 1, deployment |-> run.deployment,
                previous |-> run.previous]
    BY <1>10 DEF SwitchingFits
  <2>2. run.step + 1 \in 1..8 /\ (run.step + 1 > 4 => run.step >= 4)
    BY <1>10 DEF SwitchingFits
  <2>3. SwitchingFits'
    BY <1>10, <2>1, <2>2 DEF SwitchingFits, New
  <2>4. QED
    BY <1>10, <2>3 DEF DeployInv
<1>11. CASE Replace
  <2>1. SwitchingFits
    BY <1>4, <1>11 DEF Replace
  <2>2. /\ At \in Endpoint /\ Slot \in Part /\ run.step \notin {4, 8}
        /\ run.phase \in Activating => At = IF run.step <= 4 THEN "source" ELSE "production"
        /\ run.phase \in Restoring => At = IF run.step <= 4 THEN "production" ELSE "source"
    BY <1>11, <2>1, PlacesOfSteps DEF Replace
  <2>3. Wanted \in Names
    BY <2>1, <2>2 DEF SwitchingFits, Wanted, New, Names, Apps
  <2>4. active' \in [Endpoint -> [Part -> Names]] /\ \A t \in Endpoint : t # At => active'[t] = active[t]
    BY <1>11, <2>2, <2>3 DEF Replace, DeployInv
  <2>5. CASE Advance
    <3>1. run.step < 8 /\ run' = [run EXCEPT !.step = @ + 1]
      BY <2>1, <2>2, <2>5 DEF Advance, SwitchingFits
    <3>2. run.step >= 4 => run.step > 4
      BY <2>1, <2>2 DEF SwitchingFits
    <3>3. run.phase \in Activating /\ run.step >= 4 => \A p \in Part : active'["source"][p] = New
      BY <2>1, <2>2, <2>4, <3>2 DEF SwitchingFits, Endpoint
    <3>4. run.phase \in Restoring /\ run.step >= 4 => active'["production"] = run.previous["production"]
      BY <2>1, <2>2, <2>4, <3>2 DEF SwitchingFits, Endpoint
    <3>5. QED
      BY <1>10, <1>11, <2>1, <2>4, <3>1, <3>3, <3>4 DEF Replace
  <2>6. CASE GoTo(FailurePhase)
    BY <1>11, <2>1, <2>4, <2>6, PhaseBegins, FollowingPhases DEF Replace
  <2>7. QED
    BY <1>11, <2>5, <2>6 DEF Replace
<1>12. CASE Skip
  <2>1. SwitchingFits /\ run.phase \in Restoring
    BY <1>4, <1>12 DEF Skip
  <2>2. run.step \notin {4, 8}
    BY <1>12, <2>1, PlacesOfSteps DEF Skip
  <2>3. run.step < 8 /\ run' = [run EXCEPT !.step = @ + 1] /\ (run.step >= 4 => run.step > 4)
    BY <1>12, <2>1, <2>2 DEF Skip, Advance, SwitchingFits
  <2>4. active' = active /\ databases' = databases
    BY <1>12 DEF Skip
  <2>5. QED
    BY <1>0, <1>10, <2>1, <2>3, <2>4 DEF SwitchingFits, DeployInv
<1>13. CASE Smoke
  <2>1. SwitchingFits /\ active' = active /\ databases' = databases
    BY <1>4, <1>13 DEF Smoke
  <2>2. CASE run.step < 8
    <3>1. run.step = 4 /\ run' = [run EXCEPT !.step = @ + 1]
      BY <1>13, <2>1, <2>2, PlacesOfSteps DEF Smoke, Advance
    <3>2. run.phase \in Activating => \A p \in Part : active["source"][p] = New
      BY <1>13, <2>1, <3>1, PlacesOfSteps DEF Smoke, SmokeHolds
    <3>3. run.phase \in Restoring => active["production"] = run.previous["production"]
      BY <1>0, <1>13, <2>1, <3>1, PlacesOfSteps DEF Smoke, SmokeHolds
    <3>4. QED
      BY <1>10, <2>1, <2>2, <3>1, <3>2, <3>3 DEF DeployInv
  <2>3. CASE ~(run.step < 8)
    BY <1>13, <2>1, <2>3, PhaseBegins, FollowingPhases DEF Smoke, Advance, DeployInv
  <2>4. QED
    BY <2>2, <2>3
<1>14. CASE StepFails
  BY <1>4, <1>14, PhaseBegins, FollowingPhases DEF StepFails, DeployInv
<1>15. CASE Kill
  BY <1>15 DEF Kill, DeployInv
<1>16. QED
  BY <1>1, <1>2, <1>5, <1>6, <1>7, <1>8, <1>9, <1>11, <1>12, <1>13, <1>14, <1>15 DEF Deploy

\* Behaviour of local_release.py deploy_application_release: a deployment that ends
\* with its last smoke leaves both endpoints on the new application with equal
\* databases, or both as it found them, for any packages and migrations, whatever
\* step failed and whatever earlier deployments left behind.
THEOREM DeploymentsEndWhole == DeploySpec => EndsAsAWhole
<1>1. DeployInv /\ [Deploy]_deployVars =>
        [Smoke /\ run' = Idle =>
           \/ active' = run.previous
           \/ /\ active' = [t \in Endpoint |-> [p \in Part |-> New]]
              /\ databases["source"][New] = databases["production"][New]]_deployVars
  <2> SUFFICES ASSUME DeployInv, Smoke, run' = Idle
               PROVE  \/ active' = run.previous
                      \/ /\ active' = [t \in Endpoint |-> [p \in Part |-> New]]
                         /\ databases["source"][New] = databases["production"][New]
    OBVIOUS
  <2>0. /\ Preparing \cap (Activating \cup Restoring) = {} /\ Activating \cap Restoring = {}
        /\ "idle" \notin Preparing \cup Activating \cup Restoring
    BY DEF Preparing, Activating, Restoring
  <2>1. SwitchingFits /\ active' = active
    BY <2>0 DEF Smoke, DeployInv, Idle, PreparingFits
  <2>2. run.step = 8
    <3>1. SUFFICES ASSUME run.step < 8 PROVE FALSE
      BY <2>1 DEF SwitchingFits
    <3>2. run' = [phase |-> run.phase, step |-> run.step + 1, deployment |-> run.deployment,
                  previous |-> run.previous]
      BY <2>1, <3>1 DEF Smoke, Advance, SwitchingFits
    <3>3. run'.phase = "idle" /\ run'.phase = run.phase
      BY <3>2 DEF Idle
    <3>4. QED
      BY <2>0, <2>1, <3>3 DEF SwitchingFits
  <2>3. CASE run.phase \in Activating
    <3>1. At = "production" /\ \A p \in Part : active["production"][p] = New /\ active["source"][p] = New
      BY <2>1, <2>2, <2>3, PlacesOfSteps DEF Smoke, SmokeHolds, SwitchingFits
    <3>2. active = [t \in Endpoint |-> [p \in Part |-> New]]
      <4>1. ASSUME NEW t \in Endpoint PROVE active[t] = [p \in Part |-> New]
        BY <3>1 DEF DeployInv, Endpoint
      <4>2. QED
        BY <4>1 DEF DeployInv
    <3>3. QED
      BY <2>1, <3>2 DEF SwitchingFits
  <2>4. CASE run.phase \in Restoring
    <3>1. active["source"] = run.previous["source"] /\ active["production"] = run.previous["production"]
      BY <2>0, <2>1, <2>2, <2>4, PlacesOfSteps DEF Smoke, SmokeHolds, SwitchingFits
    <3>2. active = run.previous
      BY <2>1, <3>1 DEF SwitchingFits, DeployInv, Endpoint
    <3>3. QED
      BY <2>1, <3>2
  <2>5. QED
    BY <2>1, <2>3, <2>4 DEF SwitchingFits
<1>2. QED
  BY <1>1, DeployBegins, DeployInvStep, PTL DEF DeploySpec, EndsAsAWhole

\* A database an application may serve from: the first one, or one with all migrations
\* and the row of that application.
Complete(t, app) ==
  \/ app = Baseline
  \/ /\ databases[t][app].versions = Bundle[app]
     /\ \E row \in databases[t][app].rows : row.app = app

IsDatabase(db) == DOMAIN db = {"rows", "versions"}

DatabasesFit ==
  /\ databases = [t \in Endpoint |-> [n \in Names |-> databases[t][n]]]
  /\ \A t \in Endpoint, n \in Names : databases[t][n] = NoDatabase \/ IsDatabase(databases[t][n])
  /\ \A t \in Endpoint : IsDatabase(databases[t][Baseline])

\* How far the preparation has brought the two databases of the new application, and
\* what a rollback would serve again.
PreparedFits ==
  /\ \A t \in DOMAIN run.previous : Complete(t, run.previous[t].content)
  /\ run.phase \in {"migrate", "compatibility"} => IsDatabase(databases[run.at][New])
  /\ run.phase = "compatibility" => databases[run.at][New].versions = Bundle[New]
  /\ run.at = "production" => Complete("source", New)
  /\ run.phase = "parity" => \A t \in Endpoint : Complete(t, New)

MigratedInv ==
  /\ DatabasesFit
  /\ \A t \in Endpoint : Complete(t, active[t].content)
  /\ PreparingFits => PreparedFits
  /\ SwitchingFits => \A t \in Endpoint : Complete(t, New) /\ Complete(t, run.previous[t].content)

\* What is complete is a database.
LEMMA CompleteIsDatabase ==
  ASSUME DatabasesFit, NEW t \in Endpoint, NEW n \in Names, Complete(t, n)
  PROVE  IsDatabase(databases[t][n])
BY DEF Complete, NoDatabase, DatabasesFit

\* A database is as complete as the one it replaces.
AsComplete(t, app, db) ==
  Complete(t, app) => db.versions = Bundle[app] /\ \E row \in db.rows : row.app = app

\* Rewriting the database of one application keeps what is complete, when the new one
\* is as complete as the old one.
LEMMA OneDatabase ==
  ASSUME DatabasesFit, NEW t \in Endpoint, NEW app \in Apps, NEW db, IsDatabase(db),
         databases' = [databases EXCEPT ![t][app] = db],
         AsComplete(t, app, db)
  PROVE  /\ DatabasesFit'
         /\ \A s \in Endpoint, n \in Names : Complete(s, n) => Complete(s, n)'
         /\ databases'[t][app] = db
         /\ \A s \in Endpoint : s # t => databases'[s] = databases[s]
<1>0. app \in Names /\ app # Baseline /\ Baseline \in Names
  BY DeploymentsAssumption DEF Names, Apps
<1>1. \A s \in Endpoint, n \in Names :
        databases'[s][n] = IF s = t /\ n = app THEN db ELSE databases[s][n]
  BY <1>0 DEF DatabasesFit
<1>2. \A s \in Endpoint : databases'[s] = [n \in Names |-> databases'[s][n]]
  BY DEF DatabasesFit
<1>3. databases' = [s \in Endpoint |-> [n \in Names |-> databases'[s][n]]]
  <2>1. databases' = [s \in Endpoint |-> databases'[s]]
    BY DEF DatabasesFit
  <2>2. QED
    BY <1>2, <2>1
<1>4. \A s \in Endpoint, n \in Names : Complete(s, n) => Complete(s, n)'
  BY <1>0, <1>1 DEF Complete, AsComplete
<1>5. DatabasesFit'
  BY <1>0, <1>1, <1>3 DEF DatabasesFit
<1>6. QED
  BY <1>0, <1>1, <1>4, <1>5 DEF DatabasesFit

\* While the references stay and no database becomes less complete, what is served stays
\* complete, and so does what a rollback would serve.
LEMMA ServedStays ==
  ASSUME DeployInv, MigratedInv, active' = active, DatabasesFit',
         \A s \in Endpoint, n \in Names : Complete(s, n) => Complete(s, n)'
  PROVE  /\ \A s \in Endpoint : Complete(s, active[s].content)'
         /\ PreparingFits => \A s \in DOMAIN run.previous :
              s \in Endpoint /\ (\A n \in Names : n = run.previous[s].content => Complete(s, n)')
<1>1. \A s \in Endpoint : active[s].content \in Names
  BY DEF DeployInv, Part
<1>2. ASSUME NEW s \in Endpoint PROVE Complete(s, active[s].content)'
  <2>1. PICK n \in Names : n = active[s].content
    BY <1>1
  <2>2. Complete(s, n)'
    BY <2>1 DEF MigratedInv
  <2>3. QED
    BY <2>1, <2>2 DEF Complete
<1>3. ASSUME PreparingFits, NEW s \in DOMAIN run.previous
      PROVE  s \in Endpoint /\ (\A n \in Names : n = run.previous[s].content => Complete(s, n)')
  <2>1. s \in Endpoint
    BY <1>3 DEF PreparingFits, PreviousFits, Endpoint, Preparing
  <2>2. QED
    BY <1>3, <2>1 DEF MigratedInv, PreparedFits
<1>4. QED
  BY <1>2, <1>3

\* Every step of a deployment keeps the served databases complete.
LEMMA MigratedStep == DeployInv /\ MigratedInv /\ [Deploy]_deployVars => MigratedInv'
<1> SUFFICES ASSUME DeployInv, MigratedInv, [Deploy]_deployVars PROVE MigratedInv'
  OBVIOUS
<1>0. /\ Preparing \cap (Activating \cup Restoring) = {} /\ Activating \cap Restoring = {}
      /\ "idle" \notin Preparing \cup Activating \cup Restoring
      /\ {"copy", "migrate", "compatibility", "parity"} = Preparing
  BY DEF Preparing, Activating, Restoring
<1>1. ASSUME run.phase \in Preparing PROVE PreparingFits /\ PreparedFits
  BY <1>0, <1>1 DEF DeployInv, Idle, SwitchingFits, MigratedInv
<1>2. ASSUME run.phase \in Activating \cup Restoring
      PROVE  SwitchingFits /\ \A t \in Endpoint : Complete(t, New) /\ Complete(t, run.previous[t].content)
  BY <1>0, <1>2 DEF DeployInv, Idle, PreparingFits, MigratedInv
<1>3. \A t \in Endpoint : active[t].content \in Names
  BY DEF DeployInv, Part
\* A run that ends leaves what is served.
<1>4. ASSUME run' = Idle, databases' = databases, active' = active PROVE MigratedInv'
  <2>1. ~PreparingFits' /\ ~SwitchingFits'
    BY <1>0, <1>4 DEF PreparingFits, SwitchingFits, Idle
  <2>2. QED
    BY <1>4, <2>1 DEF MigratedInv, DatabasesFit, Complete, IsDatabase
<1>5. CASE UNCHANGED deployVars
  BY <1>5 DEF deployVars, MigratedInv, DatabasesFit, PreparingFits, PreviousFits, SwitchingFits,
    PreparedFits, Complete, New
<1>6. ASSUME NEW d \in Deployments, Begin(d) PROVE MigratedInv'
  <2>1. /\ run'.phase = "copy" /\ run'.at = "source" /\ DOMAIN run'.previous = {}
        /\ active' = active /\ databases' = databases
    BY <1>6 DEF Begin
  <2>2. ~SwitchingFits' /\ PreparedFits'
    BY <1>0, <2>1 DEF SwitchingFits, PreparedFits
  <2>3. QED
    BY <2>1, <2>2 DEF MigratedInv, DatabasesFit, Complete
\* What every step of a preparation starts from.
<1>7. ASSUME run.phase \in Preparing
      PROVE  /\ run.at \in Endpoint /\ New \in Apps /\ New \in Names /\ New # Baseline
             /\ DOMAIN run.previous \subseteq Endpoint
             /\ \A s \in DOMAIN run.previous : run.previous[s].content \in Names
  <2>1. PreparingFits
    BY <1>1, <1>7
  <2>2. \A s \in DOMAIN run.previous : run.previous[s] \in [Part -> Names]
    BY <2>1 DEF PreparingFits, PreviousFits
  <2>3. QED
    BY <1>7, <2>1, <2>2, DeploymentsAssumption
    DEF PreparingFits, PreviousFits, New, Apps, Names, Endpoint, Preparing, Part
<1>8. CASE Copy
  <2>1. PreparingFits /\ run.phase = "copy" /\ run.phase \in Preparing /\ PreparedFits
    BY <1>0, <1>1, <1>8 DEF Copy
  <2>2. /\ run'.phase = "migrate" /\ run'.at = run.at /\ run'.deployment = run.deployment
        /\ run'.previous = Extended(run.previous, run.at, active[run.at]) /\ active' = active
    BY <1>8, <2>1 DEF Copy, PreparingFits
  <2>3. IsDatabase(Served(run.at))
    BY <1>3, <1>7, <2>1, CompleteIsDatabase DEF MigratedInv, Served
  <2>4. /\ IsDatabase(databases'[run.at][New]) /\ DatabasesFit'
        /\ \A s \in Endpoint, n \in Names : Complete(s, n) => Complete(s, n)'
    <3>1. CASE databases[run.at][New] = NoDatabase
      <4>1. ~Complete(run.at, New)
        BY <1>7, <2>1, <3>1 DEF Complete, NoDatabase
      <4>2. databases' = [databases EXCEPT ![run.at][New] = Served(run.at)]
        BY <1>8, <3>1 DEF Copy, New
      <4>3. QED
        <5>1. PICK t \in Endpoint, app \in Apps, db \in {Served(run.at)} : t = run.at /\ app = New
          BY <1>7, <2>1
        <5>2. databases' = [databases EXCEPT ![t][app] = db] /\ IsDatabase(db) /\ AsComplete(t, app, db)
          BY <2>3, <4>1, <4>2, <5>1 DEF AsComplete
        <5>3. /\ DatabasesFit' /\ databases'[t][app] = db
              /\ \A s \in Endpoint, n \in Names : Complete(s, n) => Complete(s, n)'
          BY <5>2, OneDatabase DEF MigratedInv
        <5>4. QED
          BY <5>1, <5>2, <5>3
    <3>2. CASE databases[run.at][New] # NoDatabase
      <4>1. databases' = databases
        BY <1>8, <3>2 DEF Copy, New
      <4>2. IsDatabase(databases[run.at][New])
        BY <1>7, <2>1, <3>2 DEF MigratedInv, DatabasesFit
      <4>3. QED
        BY <4>1, <4>2 DEF MigratedInv, DatabasesFit, Complete
    <3>3. QED
      BY <3>1, <3>2
  <2>5. ~SwitchingFits' /\ New' = New
    BY <1>0, <2>2 DEF SwitchingFits, New
  <2>6. \A s \in Endpoint : Complete(s, active[s].content)'
    BY <2>2, <2>4, ServedStays
  <2>7. ASSUME NEW s \in DOMAIN run'.previous PROVE Complete(s, run.previous[s].content)'
    <3>1. s \in Endpoint /\ (s = run.at \/ s \in DOMAIN run.previous)
      BY <1>7, <2>1, <2>2, <2>7 DEF Extended
    <3>2. CASE s = run.at
      <4>1. run'.previous[s] = active[s] /\ active' = active
        BY <1>7, <2>1, <2>2, <3>2 DEF Extended
      <4>2. QED
        BY <2>6, <3>1, <4>1 DEF Complete
    <3>3. CASE s # run.at
      <4>1. run'.previous[s] = run.previous[s] /\ s \in DOMAIN run.previous
        BY <2>2, <3>1, <3>3 DEF Extended
      <4>2. PICK n \in Names : n = run.previous[s].content
        BY <1>7, <2>1, <4>1
      <4>3. Complete(s, n)'
        BY <2>1, <2>2, <2>4, <4>1, <4>2, ServedStays
      <4>4. QED
        BY <4>1, <4>2, <4>3 DEF Complete
    <3>4. QED
      BY <3>2, <3>3
  <2>8. run'.at = "production" => Complete("source", New)'
    <3>1. PICK n \in Names : n = New
      BY <1>7, <2>1
    <3>2. run.at = "production" => Complete("source", n)'
      BY <2>1, <2>4, <3>1 DEF PreparedFits, Endpoint
    <3>3. QED
      BY <2>2, <2>5, <3>1, <3>2 DEF Complete
  <2>9. PreparedFits'
    BY <2>2, <2>4, <2>5, <2>7, <2>8 DEF PreparedFits
  <2>10. QED
    BY <2>2, <2>4, <2>5, <2>6, <2>9 DEF MigratedInv
<1>9. CASE Migrate
  <2>1. PreparingFits /\ run.phase = "migrate" /\ run.phase \in Preparing /\ PreparedFits
    BY <1>0, <1>1, <1>9 DEF Migrate
  <2>2. CASE databases[run.at][New].versions \subseteq Bundle[New]
    <3> DEFINE db == [databases[run.at][New] EXCEPT !.versions = Bundle[New]]
    <3>1. /\ run'.phase = "compatibility" /\ run'.at = run.at /\ run'.deployment = run.deployment
          /\ run'.previous = run.previous /\ active' = active
          /\ databases' = [databases EXCEPT ![run.at][New].versions = Bundle[New]]
      BY <1>9, <2>1, <2>2 DEF Migrate, PreparingFits, New
    <3>2. IsDatabase(databases[run.at][New])
      BY <2>1 DEF PreparedFits
    <3>3. IsDatabase(db) /\ db.versions = Bundle[New] /\ db.rows = databases[run.at][New].rows
      BY <3>2 DEF IsDatabase
    <3>4. databases' = [databases EXCEPT ![run.at][New] = db]
      BY <3>1
    <3>5. Complete(run.at, New) => db.versions = Bundle[New] /\ \E row \in db.rows : row.app = New
      BY <1>7, <2>1, <3>3 DEF Complete
    <3> HIDE DEF db
    <3>6. /\ DatabasesFit' /\ databases'[run.at][New] = db
          /\ \A s \in Endpoint, n \in Names : Complete(s, n) => Complete(s, n)'
      <4>1. PICK t \in Endpoint, app \in Apps, new \in {db} : t = run.at /\ app = New
        BY <1>7, <2>1
      <4>2. /\ databases' = [databases EXCEPT ![t][app] = new] /\ IsDatabase(new)
            /\ AsComplete(t, app, new)
        BY <3>3, <3>4, <3>5, <4>1 DEF AsComplete
      <4>3. /\ DatabasesFit' /\ databases'[t][app] = new
            /\ \A s \in Endpoint, n \in Names : Complete(s, n) => Complete(s, n)'
        BY <4>2, OneDatabase DEF MigratedInv
      <4>4. QED
        BY <4>1, <4>3
    <3>7. ~SwitchingFits' /\ New' = New
      BY <1>0, <3>1 DEF SwitchingFits, New
    <3>8. \A s \in Endpoint : Complete(s, active[s].content)'
      BY <3>1, <3>6, ServedStays
    <3>9. ASSUME NEW s \in DOMAIN run'.previous PROVE Complete(s, run.previous[s].content)'
      <4>1. PICK n \in Names : n = run.previous[s].content
        BY <1>7, <2>1, <3>1
      <4>2. Complete(s, n)'
        BY <2>1, <3>1, <3>6, <4>1, ServedStays
      <4>3. QED
        BY <3>1, <4>1, <4>2 DEF Complete
    <3>10. run'.at = "production" => Complete("source", New)'
      <4>1. PICK n \in Names : n = New
        BY <1>7, <2>1
      <4>2. run.at = "production" => Complete("source", n)'
        BY <2>1, <3>6, <4>1 DEF PreparedFits, Endpoint
      <4>3. QED
        BY <3>1, <3>7, <4>1, <4>2 DEF Complete
    <3>11. PreparedFits'
      BY <3>1, <3>3, <3>6, <3>7, <3>9, <3>10 DEF PreparedFits
    <3>12. QED
      BY <3>6, <3>7, <3>8, <3>11 DEF MigratedInv
  <2>3. CASE ~(databases[run.at][New].versions \subseteq Bundle[New])
    BY <1>4, <1>9, <2>3 DEF Migrate, Fail, New
  <2>4. QED
    BY <2>2, <2>3
<1>10. CASE Compatibility
  <2>1. PreparingFits /\ run.phase = "compatibility" /\ run.phase \in Preparing /\ PreparedFits
    BY <1>0, <1>1, <1>10 DEF Compatibility
  <2>2. CASE AcceptsCompatibility(databases[run.at][New], run.deployment)
    <3> DEFINE db == [databases[run.at][New] EXCEPT !.rows = @ \cup {run.deployment}]
    <3>1. /\ run'.phase = IF run.at = "source" THEN "copy" ELSE "parity"
          /\ run'.at = "production" /\ run'.deployment = run.deployment
          /\ run'.previous = run.previous /\ active' = active
          /\ databases' = [databases EXCEPT ![run.at][New].rows = @ \cup {run.deployment}]
      BY <1>10, <2>1, <2>2 DEF Compatibility, PreparingFits, New, Endpoint
    <3>2. IsDatabase(databases[run.at][New]) /\ databases[run.at][New].versions = Bundle[New]
      BY <2>1 DEF PreparedFits
    <3>3. /\ IsDatabase(db) /\ db.versions = Bundle[New]
          /\ db.rows = databases[run.at][New].rows \cup {run.deployment}
      BY <3>2 DEF IsDatabase
    <3>4. databases' = [databases EXCEPT ![run.at][New] = db]
      BY <3>1
    <3>5. db.versions = Bundle[New] /\ \E row \in db.rows : row.app = New
      BY <3>3 DEF New
    <3> HIDE DEF db
    <3>6. /\ DatabasesFit' /\ databases'[run.at][New] = db
          /\ \A s \in Endpoint, n \in Names : Complete(s, n) => Complete(s, n)'
      <4>1. PICK t \in Endpoint, app \in Apps, new \in {db} : t = run.at /\ app = New
        BY <1>7, <2>1
      <4>2. /\ databases' = [databases EXCEPT ![t][app] = new] /\ IsDatabase(new)
            /\ AsComplete(t, app, new)
        BY <3>3, <3>4, <3>5, <4>1 DEF AsComplete
      <4>3. /\ DatabasesFit' /\ databases'[t][app] = new
            /\ \A s \in Endpoint, n \in Names : Complete(s, n) => Complete(s, n)'
        BY <4>2, OneDatabase DEF MigratedInv
      <4>4. QED
        BY <4>1, <4>3
    <3>7. ~SwitchingFits' /\ New' = New
      BY <1>0, <3>1 DEF SwitchingFits, New
    <3>8. \A s \in Endpoint : Complete(s, active[s].content)'
      BY <3>1, <3>6, ServedStays
    <3>9. ASSUME NEW s \in DOMAIN run'.previous PROVE Complete(s, run.previous[s].content)'
      <4>1. PICK n \in Names : n = run.previous[s].content
        BY <1>7, <2>1, <3>1
      <4>2. Complete(s, n)'
        BY <2>1, <3>1, <3>6, <4>1, ServedStays
      <4>3. QED
        BY <3>1, <4>1, <4>2 DEF Complete
    <3>10. PICK n \in Names : n = New
      BY <1>7, <2>1
    <3>11. PICK t \in Endpoint : t = run.at
      BY <1>7, <2>1
    <3>20. Complete(t, n)' /\ (t = "production" => Complete("source", n)')
      <4>1. t = "production" => Complete("source", n)'
        BY <2>1, <3>6, <3>10, <3>11 DEF PreparedFits, Endpoint
      <4>3. databases'[t][n].versions = Bundle[n] /\ \E row \in databases'[t][n].rows : row.app = n
        BY <3>5, <3>6, <3>10, <3>11
      <4>4. Complete(t, n)'
        BY <4>3 DEF Complete
      <4>5. QED
        BY <4>1, <4>4
    <3>12. /\ run'.at = "production" => Complete("source", New)'
           /\ run'.phase = "parity" => \A s \in Endpoint : Complete(s, New)'
      <4>1. Complete("source", n)' /\ (run.at # "source" => Complete("production", n)')
        BY <3>11, <3>20 DEF Endpoint
      <4>2. run'.phase = "parity" => run.at # "source"
        BY <3>1
      <4>3. QED
        BY <3>7, <3>10, <4>1, <4>2 DEF Complete, Endpoint
    <3>13. PreparedFits'
      BY <3>1, <3>9, <3>12 DEF PreparedFits
    <3>14. QED
      BY <3>6, <3>7, <3>8, <3>13 DEF MigratedInv
  <2>3. CASE ~AcceptsCompatibility(databases[run.at][New], run.deployment)
    BY <1>4, <1>10, <2>3 DEF Compatibility, Fail, New
  <2>4. QED
    BY <2>2, <2>3
<1>11. CASE CheckParity
  <2>1. PreparingFits /\ run.phase = "parity" /\ run.phase \in Preparing /\ PreparedFits
    BY <1>0, <1>1, <1>11 DEF CheckParity
  <2>2. CASE Parity
    <3>1. /\ run' = [phase |-> "activate", step |-> 1, deployment |-> run.deployment, previous |-> run.previous]
          /\ active' = active /\ databases' = databases
      BY <1>11, <2>2 DEF CheckParity
    <3>2. ~PreparingFits' /\ New' = New
      BY <1>0, <3>1 DEF PreparingFits, New, Activating
    <3>3. \A t \in Endpoint : Complete(t, New) /\ Complete(t, run.previous[t].content)
      BY <2>1 DEF PreparedFits, PreparingFits, PreviousFits
    <3>4. (\A t \in Endpoint : Complete(t, New) /\ Complete(t, run.previous[t].content))'
      BY <3>1, <3>2, <3>3 DEF Complete
    <3>5. QED
      BY <3>1, <3>2, <3>4 DEF MigratedInv, DatabasesFit, Complete
  <2>3. QED
    BY <1>4, <1>11, <2>2 DEF CheckParity, Fail
<1>12. CASE PreparationFails
  BY <1>4, <1>12 DEF PreparationFails, Fail
\* The steps of the activation and the rollback: the databases stay.
<1>13. ASSUME run.phase \in Activating \cup Restoring, databases' = databases,
              run' = Idle \/ (\E phase \in Phase, step \in 0..8 : run' = [run EXCEPT !.phase = phase, !.step = step]),
              \A t \in Endpoint : Complete(t, active'[t].content)
       PROVE  MigratedInv'
  <2>1. (\A t \in Endpoint : Complete(t, active[t].content))' /\ DatabasesFit'
    BY <1>13 DEF MigratedInv, Complete, DatabasesFit
  <2>2. CASE run' = Idle
    <3>1. ~PreparingFits' /\ ~SwitchingFits'
      BY <1>0, <2>2 DEF PreparingFits, SwitchingFits, Idle
    <3>2. QED
      BY <2>1, <3>1 DEF MigratedInv
  <2>3. CASE run' # Idle
    <3>1. /\ run'.deployment = run.deployment /\ run'.previous = run.previous
          /\ DOMAIN run' = {"phase", "step", "deployment", "previous"}
      BY <1>2, <1>13, <2>3 DEF SwitchingFits
    <3>2. ~PreparingFits'
      BY <3>1 DEF PreparingFits
    <3>3. (\A t \in Endpoint : Complete(t, New) /\ Complete(t, run.previous[t].content))'
      <4>1. ASSUME NEW t \in Endpoint
            PROVE  Complete(t, New)' /\ Complete(t, run.previous[t].content)'
        <5>1. PICK n, m : n = New /\ m = run.previous[t].content /\ Complete(t, n) /\ Complete(t, m)
          BY <1>2, <1>13
        <5>2. Complete(t, n)' /\ Complete(t, m)'
          BY <1>13, <5>1 DEF Complete
        <5>3. New' = n /\ run'.previous[t].content = m
          BY <3>1, <5>1 DEF New
        <5>4. QED
          BY <5>2, <5>3 DEF Complete
      <4>2. QED
        BY <4>1
    <3>4. QED
      BY <2>1, <3>2, <3>3 DEF MigratedInv
  <2>4. QED
    BY <2>2, <2>3
<1>14. ASSUME run.phase \in Activating \cup Restoring, NEW phase \in Phase, GoTo(phase)
       PROVE  run' = Idle \/ (\E p \in Phase, step \in 0..8 : run' = [run EXCEPT !.phase = p, !.step = step])
  <2>1. CASE phase = "idle"
    BY <1>14, <2>1 DEF GoTo
  <2>2. CASE phase # "idle"
    <3>1. run' = [run EXCEPT !.phase = phase, !.step = 1] /\ 1 \in 0..8
      BY <1>14, <2>2 DEF GoTo
    <3>2. QED
      BY <1>14, <3>1
  <2>3. QED
    BY <2>1, <2>2
<1>15. ASSUME run.phase \in Activating \cup Restoring, Advance
       PROVE  run' = Idle \/ (\E p \in Phase, step \in 0..8 : run' = [run EXCEPT !.phase = p, !.step = step])
  <2>1. CASE run.step < 8
    <3>1. run' = [run EXCEPT !.step = run.step + 1] /\ run.step + 1 \in 0..8 /\ run.phase \in Phase
      BY <1>2, <1>15, <2>1 DEF Advance, SwitchingFits, Phase
    <3>2. run' = [run EXCEPT !.phase = run.phase, !.step = run.step + 1]
      BY <1>2, <1>15, <3>1 DEF SwitchingFits
    <3>3. QED
      BY <3>1, <3>2
  <2>2. CASE ~(run.step < 8)
    BY <1>14, <1>15, <2>2, FollowingPhases DEF Advance, Phase
  <2>3. QED
    BY <2>1, <2>2
<1>16. CASE Replace
  <2>1. /\ SwitchingFits /\ Slot # "smoke" /\ databases' = databases
        /\ active' = [active EXCEPT ![At][Slot] = Wanted]
    BY <1>2, <1>16 DEF Replace
  <2>2. At \in Endpoint /\ Slot \in Part
    BY <2>1, PlacesOfSteps
  <2>3. ASSUME NEW t \in Endpoint PROVE Complete(t, active'[t].content)
    <3>1. CASE t = At /\ Slot = "content"
      <4>1. active'[t].content = Wanted
        BY <2>1, <2>2, <3>1 DEF DeployInv, Part
      <4>2. Complete(t, Wanted)
        BY <1>2, <1>16, <3>1 DEF Replace, Wanted
      <4>3. QED
        BY <4>1, <4>2
    <3>2. CASE ~(t = At /\ Slot = "content")
      <4>1. active'[t].content = active[t].content
        BY <2>1, <2>2, <3>2 DEF DeployInv, Part
      <4>2. QED
        BY <4>1 DEF MigratedInv
    <3>3. QED
      BY <3>1, <3>2
  <2>4. run' = Idle \/ (\E p \in Phase, step \in 0..8 : run' = [run EXCEPT !.phase = p, !.step = step])
    BY <1>14, <1>15, <1>16, FollowingPhases DEF Replace, Phase
  <2>5. QED
    BY <1>13, <1>16, <2>1, <2>3, <2>4 DEF Replace
<1>17. CASE Skip
  BY <1>13, <1>15, <1>17 DEF Skip, MigratedInv
<1>18. CASE Smoke
  BY <1>13, <1>15, <1>18 DEF Smoke, MigratedInv
<1>19. CASE StepFails
  BY <1>13, <1>14, <1>19, FollowingPhases DEF StepFails, MigratedInv, Phase
<1>20. CASE Kill
  BY <1>4, <1>20 DEF Kill
<1>21. QED
  BY <1>5, <1>6, <1>8, <1>9, <1>10, <1>11, <1>12, <1>16, <1>17, <1>18, <1>19, <1>20 DEF Deploy

\* Both endpoints start with the first database.
LEMMA MigratedBegins == DeployInit => MigratedInv
<1> SUFFICES ASSUME DeployInit PROVE MigratedInv
  OBVIOUS
<1>1. ~PreparingFits /\ ~SwitchingFits
  BY DEF DeployInit, Idle, PreparingFits, SwitchingFits, Preparing, Activating, Restoring
<1>2. DatabasesFit
  BY DEF DeployInit, DatabasesFit, IsDatabase, NoDatabase, Names
<1>3. \A t \in Endpoint : Complete(t, active[t].content)
  BY DEF DeployInit, Complete, Part
<1>4. QED
  BY <1>1, <1>2, <1>3 DEF MigratedInv

\* Behaviour of local_release.py _prepare_target and migrations.py apply_migrations: an
\* endpoint never serves a database whose migrations or whose compatibility row are
\* missing, whatever was killed between the copy, the two transactions and the
\* switches, and although a retry migrates the files it finds.
THEOREM ServedMigrated == DeploySpec => []ServedIsMigrated
<1>1. MigratedInv => ServedIsMigrated
  BY DEF MigratedInv, Complete, ServedIsMigrated
<1>2. DeployInv /\ MigratedInv /\ [Deploy]_deployVars => (DeployInv /\ MigratedInv)'
  BY DeployInvStep, MigratedStep
<1>3. QED
  BY <1>1, <1>2, DeployBegins, MigratedBegins, PTL DEF DeploySpec

----------------------------------------------------------------------------
(* The review of issues.                                                   *)

Name == (Reviews \cup {"daily"}) \X Nat

\* What production may be asked to publish: a correction is built from a release
\* with the composition it was approved for.
Sound(c) ==
  /\ c.name \in Name /\ c.base \in Seq(Name)
  /\ c.name[1] \in Reviews => Composition(c.base, IssueOf[c.name[1]]) = MadeFor[c.name[1]]

WorkerFits ==
  \/ worker = NoWorker
  \/ /\ worker = [step |-> worker.step, jobs |-> worker.jobs]
     /\ worker.step \in {"next", "decide", "publish", "publishing", "finish"}
     /\ worker.jobs \in Seq(Reviews) /\ worker.jobs # <<>>
     /\ worker.step = "publish" => build[Job] # NoBuild
  \/ /\ worker = [step |-> worker.step, jobs |-> worker.jobs, pointer |-> worker.pointer]
     /\ worker.step \in {"validate", "build"}
     /\ worker.jobs \in Seq(Reviews) /\ worker.jobs # <<>>
     /\ worker.pointer \in Seq(Name)
     /\ worker.step = "build" => Composition(worker.pointer, IssueOf[Job]) = MadeFor[Job]

PublicationFits ==
  \/ publication = NoPublication
  \/ /\ publication = [step |-> publication.step, candidate |-> publication.candidate]
     /\ publication.step \in {"begin", "send", "wait", "commit", "report"}
     /\ Sound(publication.candidate)

ReviewInv ==
  /\ attempts \in [Reviews -> Nat] /\ daily \in Nat
  /\ DOMAIN build = Reviews /\ \A r \in Reviews : build[r] # NoBuild => Sound(build[r])
  /\ \A c \in receipts \cup inFlight : Sound(c)
  /\ source \in Seq(Name) /\ production \in Seq(Name)
  /\ WorkerFits /\ PublicationFits
  /\ AppliedAsApproved

\* Nothing is confirmed or published at the start.
LEMMA ReviewBegins == ReviewInit => ReviewInv
<1> SUFFICES ASSUME ReviewInit PROVE ReviewInv
  OBVIOUS
<1>1. <<>> \in Seq(Name) /\ DOMAIN production = {}
  BY DEF ReviewInit
<1>2. QED
  BY <1>1 DEF ReviewInit, ReviewInv, WorkerFits, PublicationFits, AppliedAsApproved

\* A release that follows a sound candidate is approved as the one before it was.
LEMMA OneMorePublication ==
  ASSUME AppliedAsApproved, NEW c, Sound(c), production \in Seq(Name), production = c.base,
         production' = Append(production, c.name)
  PROVE  production' \in Seq(Name) /\ AppliedAsApproved'
<1>1. /\ production' \in Seq(Name) /\ Len(production') = Len(production) + 1
      /\ \A k \in 1..Len(production) : production'[k] = production[k]
      /\ production'[Len(production) + 1] = c.name
      /\ Len(production) \in Nat
  BY DEF Sound
<1>2. \A k \in 1..(Len(production) + 1) :
        SubSeq(production', 1, k - 1) = SubSeq(production, 1, k - 1)
  <2> TAKE k \in 1..(Len(production) + 1)
  <2>1. k - 1 \in 0..Len(production) /\ k - 1 \in 0..Len(production')
    BY <1>1
  <2>2. /\ SubSeq(production', 1, k - 1) \in Seq(Name) /\ Len(SubSeq(production', 1, k - 1)) = k - 1
        /\ \A i \in 1..(k - 1) : SubSeq(production', 1, k - 1)[i] = production'[i]
    BY <1>1, <2>1
  <2>3. /\ SubSeq(production, 1, k - 1) \in Seq(Name) /\ Len(SubSeq(production, 1, k - 1)) = k - 1
        /\ \A i \in 1..(k - 1) : SubSeq(production, 1, k - 1)[i] = production[i]
    BY <1>1, <2>1
  <2>4. QED
    BY <1>1, <2>1, <2>2, <2>3
<1>3. SubSeq(production, 1, Len(production)) = production
  OBVIOUS
<1>4. ASSUME NEW k \in DOMAIN production', production'[k][1] \in Reviews
      PROVE  Composition(SubSeq(production', 1, k - 1), IssueOf[production'[k][1]])
               = MadeFor[production'[k][1]]
  <2>1. k \in 1..(Len(production) + 1)
    BY <1>1
  <2>2. CASE k = Len(production) + 1
    <3>1. SubSeq(production', 1, k - 1) = production
      BY <1>1, <1>2, <1>3, <2>2
    <3>2. QED
      BY <1>1, <1>4, <2>2, <3>1 DEF Sound
  <2>3. CASE k \in 1..Len(production)
    <3>1. SubSeq(production', 1, k - 1) = SubSeq(production, 1, k - 1) /\ production'[k] = production[k]
      BY <1>1, <1>2, <2>1, <2>3
    <3>2. k \in DOMAIN production
      BY <2>3
    <3>3. QED
      BY <1>4, <3>1, <3>2 DEF AppliedAsApproved
  <2>4. QED
    BY <1>1, <2>1, <2>2, <2>3
<1>5. QED
  BY <1>1, <1>4 DEF AppliedAsApproved

\* The list of a run is not empty and what follows of it, if it is not, either.
LEMMA JobsGoOn ==
  ASSUME NEW jobs \in Seq(Reviews), jobs # <<>>
  PROVE  /\ Head(jobs) \in Reviews /\ Tail(jobs) \in Seq(Reviews)
         /\ Len(jobs) > 1 => Tail(jobs) # <<>>
<1>1. Len(jobs) \in Nat /\ Len(jobs) # 0 /\ Head(jobs) = jobs[1]
  OBVIOUS
<1>2. Head(jobs) \in Reviews
  BY <1>1
<1>3. Tail(jobs) \in Seq(Reviews) /\ Len(Tail(jobs)) = Len(jobs) - 1
  OBVIOUS
<1>4. Len(jobs) > 1 => Tail(jobs) # <<>>
  <2>1. Len(jobs) > 1 => Len(Tail(jobs)) # 0
    BY <1>1, <1>3
  <2>2. Len(<<>>) = 0
    OBVIOUS
  <2>3. QED
    BY <2>1, <2>2
<1>5. QED
  BY <1>2, <1>3, <1>4

\* The lists a run may make of what is waiting.
LEMMA ListsOfWaiting ==
  ASSUME NEW S \in SUBSET Reviews, S # {}, NEW jobs \in SetToSeqs(S)
  PROVE  jobs \in Seq(Reviews) /\ jobs # <<>>
<1>1. Cardinality(S) \in Nat /\ Cardinality(S) # 0
  BY ReviewAssumption, FS_Subset, FS_CardinalityType, FS_EmptySet
<1>2. jobs \in [1..Cardinality(S) -> S]
  BY DEF SetToSeqs
<1>3. jobs \in Seq(Reviews) /\ Len(jobs) = Cardinality(S)
  BY <1>1, <1>2
<1>4. QED
  BY <1>1, <1>3

\* Every step keeps packages sound and what production has approved.
LEMMA ReviewInvStep == ReviewInv /\ [ReviewNext]_reviewVars => ReviewInv'
<1> SUFFICES ASSUME ReviewInv, [ReviewNext]_reviewVars PROVE ReviewInv'
  OBVIOUS
<1> USE DEF ReviewInv
<1>1. CASE UNCHANGED reviewVars
  BY <1>1 DEF reviewVars, queueVars, buildVars, hostVars, WorkerFits, PublicationFits, AppliedAsApproved, Job
\* The step of an actor that builds nothing: the editor and the worker.
<1>2. ASSUME UNCHANGED <<buildVars, hostVars, daily>>, WorkerFits', PublicationFits' PROVE ReviewInv'
  BY <1>2 DEF buildVars, hostVars, AppliedAsApproved
<1>3. ASSUME UNCHANGED <<worker, build>> PROVE WorkerFits'
  BY <1>3 DEF WorkerFits, Job
<1>4. ASSUME UNCHANGED publication PROVE PublicationFits'
  BY <1>4 DEF PublicationFits
<1>5. ASSUME worker # NoWorker
      PROVE  /\ worker.jobs \in Seq(Reviews) /\ worker.jobs # <<>>
             /\ worker.step \in {"next", "decide", "publish", "publishing", "finish", "validate", "build"}
             /\ Job \in Reviews
  BY <1>5, JobsGoOn DEF WorkerFits, Job
<1>6. ASSUME worker # NoWorker, Continue PROVE WorkerFits'
  <2>1. CASE Len(worker.jobs) > 1
    <3>1. worker' = [step |-> "next", jobs |-> Tail(worker.jobs)]
      BY <1>6, <2>1 DEF Continue
    <3>2. QED
      BY <1>5, <1>6, <2>1, <3>1, JobsGoOn DEF WorkerFits
  <2>2. CASE ~(Len(worker.jobs) > 1)
    BY <1>6, <2>2 DEF Continue, WorkerFits
  <2>3. QED
    BY <2>1, <2>2
<1>7. ASSUME NEW r \in Reviews, Preview(r) \/ Submit(r) PROVE ReviewInv'
  BY <1>2, <1>3, <1>4, <1>7 DEF Preview, Submit, buildVars, hostVars
<1>8. CASE BeginReview
  <2>1. PICK jobs \in SetToSeqs({r \in Reviews : status[r] \in Active}) :
          worker' = [step |-> "next", jobs |-> jobs]
    BY <1>8 DEF BeginReview
  <2>2. {r \in Reviews : status[r] \in Active} \in SUBSET Reviews
        /\ {r \in Reviews : status[r] \in Active} # {}
    BY <1>8 DEF BeginReview
  <2>3. jobs \in Seq(Reviews) /\ jobs # <<>>
    BY <2>1, <2>2, ListsOfWaiting
  <2>4. WorkerFits'
    BY <2>1, <2>3 DEF WorkerFits
  <2>5. QED
    BY <1>2, <1>4, <1>8, <2>4 DEF BeginReview
<1>10. CASE TakeReview
  <2>1. worker.step = "next" /\ worker # NoWorker
    BY <1>10 DEF TakeReview, NoWorker
  <2>2. worker = [step |-> "next", jobs |-> worker.jobs]
    BY <2>1 DEF WorkerFits
  <2>3. worker' = [step |-> IF Job \in finished THEN "finish" ELSE "decide", jobs |-> worker.jobs]
    BY <1>10, <2>2 DEF TakeReview
  <2>4. WorkerFits'
    BY <1>5, <2>1, <2>3 DEF WorkerFits
  <2>5. QED
    BY <1>2, <1>4, <1>10, <2>4 DEF TakeReview
<1>11. CASE Decide
  <2>1. worker.step = "decide" /\ worker # NoWorker
    BY <1>11 DEF Decide, NoWorker
  <2>2. worker = [step |-> "decide", jobs |-> worker.jobs]
    BY <2>1 DEF WorkerFits
  <2>3. CASE StillValid(Job)
    <3>1. worker' = [step |-> "publish", jobs |-> worker.jobs] /\ build' = build /\ build[Job] # NoBuild
      BY <1>11, <2>2, <2>3 DEF Decide, buildVars, StillValid
    <3>2. WorkerFits'
      BY <1>5, <2>1, <3>1 DEF WorkerFits, Job
    <3>3. QED
      BY <1>2, <1>4, <1>11, <3>2 DEF Decide
  <2>4. CASE ~StillValid(Job)
    <3>1. worker' = [step |-> "validate", jobs |-> worker.jobs, pointer |-> source]
      BY <1>11, <2>4 DEF Decide
    <3>2. WorkerFits'
      BY <1>5, <2>1, <3>1 DEF WorkerFits
    <3>3. QED
      BY <1>2, <1>4, <1>11, <3>2 DEF Decide
  <2>5. QED
    BY <2>3, <2>4
<1>12. CASE Validate
  <2>1. worker.step = "validate" /\ worker # NoWorker
    BY <1>12 DEF Validate, NoWorker
  <2>2. worker = [step |-> "validate", jobs |-> worker.jobs, pointer |-> worker.pointer]
        /\ worker.pointer \in Seq(Name)
    BY <2>1 DEF WorkerFits
  <2>3. CASE Approved(Job, worker.pointer) /\ worker' = [worker EXCEPT !.step = "build"]
    <3>1. worker' = [step |-> "build", jobs |-> worker.jobs, pointer |-> worker.pointer]
      BY <2>2, <2>3
    <3>2. WorkerFits'
      BY <1>5, <2>1, <2>2, <2>3, <3>1 DEF WorkerFits, Approved, Job
    <3>3. QED
      BY <1>2, <1>4, <1>12, <3>2 DEF Validate
  <2>4. CASE Continue
    BY <1>2, <1>4, <1>6, <1>12, <2>1, <2>4 DEF Validate
  <2>5. QED
    BY <1>12, <2>3, <2>4 DEF Validate
<1>13. CASE Build
  <2>1. worker.step = "build" /\ worker # NoWorker /\ Job \in Reviews
    BY <1>5, <1>13 DEF Build, NoWorker
  <2>2. worker.pointer \in Seq(Name) /\ Composition(worker.pointer, IssueOf[Job]) = MadeFor[Job]
    BY <2>1 DEF WorkerFits
  <2>3. attempts' \in [Reviews -> Nat] /\ attempts[Job] + 1 \in Nat
    BY <1>13, <2>1 DEF Build
  <2>4. UNCHANGED <<hostVars, publication, daily>>
    BY <1>13 DEF Build
  <2>5. CASE /\ build' = [build EXCEPT ![Job] = [name |-> <<Job, attempts[Job] + 1>>, base |-> worker.pointer]]
             /\ worker' = [step |-> "publish", jobs |-> worker.jobs]
    <3> DEFINE new == [name |-> <<Job, attempts[Job] + 1>>, base |-> worker.pointer]
    <3>1. Sound(new)
      BY <2>1, <2>2, <2>3 DEF Sound, Name
    <3>2. new # NoBuild
      BY DEF NoBuild
    <3>3. /\ DOMAIN build' = Reviews /\ build'[Job] = new
          /\ \A r \in Reviews : r # Job => build'[r] = build[r]
      BY <2>1, <2>5
    <3> HIDE DEF new
    <3>4. \A r \in Reviews : build'[r] # NoBuild => Sound(build'[r])
      BY <3>1, <3>3
    <3>5. worker'.jobs = worker.jobs
      BY <2>5
    <3>6. WorkerFits'
      BY <1>5, <2>1, <2>5, <3>2, <3>3, <3>5 DEF WorkerFits, Job
    <3>7. QED
      BY <1>4, <2>3, <2>4, <3>3, <3>4, <3>6 DEF hostVars, AppliedAsApproved
  <2>6. CASE Continue /\ UNCHANGED build
    BY <1>4, <1>6, <2>1, <2>3, <2>4, <2>6 DEF hostVars, AppliedAsApproved
  <2>7. QED
    BY <1>13, <2>5, <2>6 DEF Build
<1>14. CASE Publish
  <2>1. worker.step = "publish" /\ worker # NoWorker /\ Job \in Reviews
    BY <1>5, <1>14 DEF Publish, NoWorker
  <2>2. worker = [step |-> "publish", jobs |-> worker.jobs] /\ build[Job] # NoBuild
    BY <2>1 DEF WorkerFits
  <2>3. PublicationFits'
    BY <1>14, <2>1, <2>2 DEF Publish, PublicationFits
  <2>4. worker' = [step |-> "publishing", jobs |-> worker.jobs]
    BY <1>14, <2>2 DEF Publish
  <2>5. WorkerFits'
    BY <1>5, <2>1, <2>4 DEF WorkerFits
  <2>6. QED
    BY <1>2, <1>14, <2>3, <2>5 DEF Publish
<1>15. CASE Returned
  <2>1. worker.step = "publishing" /\ worker # NoWorker
    BY <1>15 DEF Returned, NoWorker
  <2>2. worker = [step |-> "publishing", jobs |-> worker.jobs]
    BY <2>1 DEF WorkerFits
  <2>3. ASSUME worker' = [worker EXCEPT !.step = "finish"] PROVE WorkerFits'
    <3>1. worker' = [step |-> "finish", jobs |-> worker.jobs]
      BY <2>2, <2>3
    <3>2. QED
      BY <1>5, <2>1, <3>1 DEF WorkerFits
  <2>4. WorkerFits'
    BY <1>6, <1>15, <2>1, <2>3 DEF Returned
  <2>5. QED
    BY <1>4, <1>15, <2>4 DEF Returned, hostVars, AppliedAsApproved
<1>16. CASE FinishReview
  <2>1. worker # NoWorker
    BY <1>16 DEF FinishReview, NoWorker
  <2>2. QED
    BY <1>2, <1>4, <1>6, <1>16, <2>1 DEF FinishReview
<1>17. CASE WorkerEnds
  <2>1. WorkerFits' /\ PublicationFits'
    BY <1>17 DEF WorkerEnds, WorkerFits, PublicationFits
  <2>2. QED
    BY <1>2, <1>17, <2>1 DEF WorkerEnds
<1>18. CASE DailyPublishes
  <2> DEFINE c == [name |-> <<"daily", daily + 1>>, base |-> source]
  <2>1. Sound(c) /\ publication' = [step |-> "begin", candidate |-> c] /\ daily' \in Nat
    BY <1>18, ReviewAssumption DEF DailyPublishes, Sound, Name
  <2> HIDE DEF c
  <2>2. PublicationFits'
    BY <2>1 DEF PublicationFits
  <2>3. QED
    BY <1>3, <1>18, <2>1, <2>2 DEF DailyPublishes, buildVars, hostVars, AppliedAsApproved
<1>19. CASE DailyRepeats
  <2>1. PICK c \in receipts : publication' = [step |-> "begin", candidate |-> c]
    BY <1>19 DEF DailyRepeats
  <2>2. PublicationFits'
    BY <2>1 DEF PublicationFits
  <2>3. QED
    BY <1>2, <1>3, <1>19, <2>2 DEF DailyRepeats, buildVars
\* A publication that moves on with the same candidate, or ends.
<1>20. ASSUME publication # NoPublication
       PROVE  /\ publication = [step |-> publication.step, candidate |-> Candidate] /\ Sound(Candidate)
              /\ After(Candidate) \in Seq(Name)
  <2>1. publication = [step |-> publication.step, candidate |-> Candidate] /\ Sound(Candidate)
    BY <1>20 DEF PublicationFits, Candidate
  <2>2. QED
    BY <2>1 DEF Sound, After
<1>21. ASSUME publication.step \in {"begin", "send", "wait", "commit", "report"}
       PROVE  publication # NoPublication
  BY <1>21 DEF NoPublication
<1>22. ASSUME publication # NoPublication, NEW step \in {"send", "wait", "commit", "report"},
              publication' = [publication EXCEPT !.step = step]
       PROVE  PublicationFits'
  <2>1. publication' = [step |-> step, candidate |-> Candidate]
    BY <1>20, <1>22
  <2>2. QED
    BY <1>20, <1>22, <2>1 DEF PublicationFits
<1>23. ASSUME EndPublication PROVE PublicationFits'
  BY <1>23 DEF EndPublication, PublicationFits
<1>24. CASE OpenRequest
  <2>1. publication # NoPublication
    BY <1>21, <1>24 DEF OpenRequest
  <2>2. PublicationFits'
    BY <1>22, <1>23, <1>24, <2>1 DEF OpenRequest
  <2>3. \A c \in receipts' : Sound(c)
    BY <1>20, <1>24, <2>1 DEF OpenRequest
  <2>4. QED
    BY <1>3, <1>24, <2>2, <2>3 DEF OpenRequest, buildVars, AppliedAsApproved
<1>25. CASE Send
  <2>1. publication # NoPublication
    BY <1>21, <1>25 DEF Send
  <2>2. PublicationFits' /\ \A c \in inFlight' : Sound(c)
    BY <1>20, <1>22, <1>25, <2>1 DEF Send
  <2>3. QED
    BY <1>3, <1>25, <2>2 DEF Send, buildVars, AppliedAsApproved
<1>26. CASE Answered \/ Refused
  <2>1. publication # NoPublication
    BY <1>21, <1>26 DEF Answered, Refused
  <2>2. PublicationFits'
    BY <1>22, <1>23, <1>26, <2>1 DEF Answered, Refused
  <2>3. QED
    BY <1>2, <1>3, <1>26, <2>2 DEF Answered, Refused, buildVars
<1>27. CASE Commit
  <2>1. publication # NoPublication
    BY <1>21, <1>27 DEF Commit
  <2>2. PublicationFits' /\ source' \in Seq(Name)
    BY <1>20, <1>22, <1>27, <2>1 DEF Commit
  <2>3. QED
    BY <1>3, <1>27, <2>2 DEF Commit, buildVars, AppliedAsApproved
<1>28. CASE SaveReport
  BY <1>3, <1>23, <1>28 DEF SaveReport, buildVars, AppliedAsApproved
<1>29. CASE PublicationFails
  BY <1>2, <1>3, <1>23, <1>29 DEF PublicationFails, buildVars
<1>30. ASSUME NEW c \in inFlight, ProductionActs(c) PROVE ReviewInv'
  <2>1. Sound(c) /\ production = c.base /\ production' = Append(production, c.name)
    BY <1>30 DEF ProductionActs, After
  <2>2. production' \in Seq(Name) /\ AppliedAsApproved'
    BY <2>1, OneMorePublication
  <2>3. QED
    BY <1>3, <1>4, <1>30, <2>2 DEF ProductionActs, buildVars
<1>31. ASSUME NEW c \in inFlight, Vanish(c) PROVE ReviewInv'
  BY <1>3, <1>4, <1>31 DEF Vanish, buildVars, AppliedAsApproved
<1>32. QED
  BY <1>1, <1>7, <1>8, <1>10, <1>11, <1>12, <1>13, <1>14, <1>15, <1>16, <1>17, <1>18, <1>19,
     <1>24, <1>25, <1>26, <1>27, <1>28, <1>29, <1>30, <1>31
     DEF ReviewNext, WorkerStep, PublisherStep

\* Behaviour of process_issue_reviews.py with issue_reviews.py: for any corrections
\* and issues, a correction is made to exactly the composition the owner approved,
\* whatever is repeated, lost or published beside it.
THEOREM CorrectionsAsApproved == ReviewSpec => []AppliedAsApproved
<1>1. ReviewInv => AppliedAsApproved
  BY DEF ReviewInv
<1>2. QED
  BY <1>1, ReviewBegins, ReviewInvStep, PTL DEF ReviewSpec

\* Which corrections a release holds, and which were ever asked of production.
InRelease(release, r) == \E k \in DOMAIN release : release[k][1] = r
Both(r) == InRelease(source, r) /\ InRelease(production, r)
Unrequested(r) == \A c \in receipts : c.name[1] # r

QueueTruth ==
  /\ status \in [Reviews -> {"absent", "queued", "running", "published", "failed"}]
  /\ \A r \in Reviews : /\ status[r] = "published" => Both(r)
                        /\ status[r] = "failed" => Unrequested(r)

\* The jobs of a run are different and still wait for an outcome.
Waiting(jobs) ==
  /\ \A i \in DOMAIN jobs : status[jobs[i]] \in Active
  /\ \A i, j \in DOMAIN jobs : jobs[i] = jobs[j] => i = j

JobsWait ==
  worker # NoWorker =>
    /\ Waiting(worker.jobs)
    /\ worker.step \in {"validate", "build"} => Unrequested(Job)
    /\ worker.step = "publishing" => build[Job] # NoBuild
    /\ worker.step = "finish" => Job \in finished

\* A correction is asked of production with one package only, the one on file.
PackagesFit ==
  /\ \A r \in Reviews : build[r] # NoBuild => build[r].name[1] = r
  /\ \A c \in receipts : \A r \in Reviews : c.name[1] = r => c = build[r] /\ build[r] # NoBuild
  /\ inFlight \subseteq receipts /\ reports \subseteq receipts
  /\ \A k \in DOMAIN production : \E c \in receipts : production[k] = c.name

CandidateFits ==
  publication # NoPublication =>
    /\ Candidate.name[1] \in Reviews =>
         worker # NoWorker /\ worker.step = "publishing" /\ Candidate = build[Job]
    /\ publication.step # "begin" => /\ Candidate \in receipts
                                     /\ source \in {Candidate.base, After(Candidate)}
    /\ publication.step \in {"commit", "report"} => InRelease(production, Candidate.name[1])
    /\ publication.step = "report" => InRelease(source, Candidate.name[1])

ReportedFits ==
  /\ \A c \in reports : Both(c.name[1])
  /\ \A r \in finished : Both(r)

TruthInv == QueueTruth /\ JobsWait /\ PackagesFit /\ CandidateFits /\ ReportedFits

\* A release that follows another one holds what it held and one name more.
LEMMA ReleaseGrows ==
  ASSUME NEW release \in Seq(Name), NEW name \in Name
  PROVE  /\ \A r : InRelease(release, r) => InRelease(Append(release, name), r)
         /\ InRelease(Append(release, name), name[1])
         /\ \A k \in DOMAIN Append(release, name) :
              Append(release, name)[k] = name \/ (k \in DOMAIN release /\ Append(release, name)[k] = release[k])
<1>1. /\ Append(release, name) \in Seq(Name) /\ Len(Append(release, name)) = Len(release) + 1
      /\ \A k \in 1..Len(release) : Append(release, name)[k] = release[k]
      /\ Append(release, name)[Len(release) + 1] = name
      /\ Len(release) \in Nat
  OBVIOUS
<1>2. /\ DOMAIN release = 1..Len(release)
      /\ DOMAIN Append(release, name) = 1..(Len(release) + 1)
  BY <1>1
<1>3. DOMAIN Append(release, name) = DOMAIN release \cup {Len(release) + 1}
  BY <1>1, <1>2
<1>4. QED
  BY <1>1, <1>2, <1>3 DEF InRelease

\* The jobs that are left when the first one has its outcome.
LEMMA JobsLeft ==
  ASSUME NEW jobs \in Seq(Reviews), jobs # <<>>, Waiting(jobs)
  PROVE  /\ status[Head(jobs)] \in Active
         /\ (\A r \in Reviews : r # Head(jobs) => status'[r] = status[r]) => Waiting(Tail(jobs))'
<1>1. Len(jobs) \in Nat \ {0} /\ Head(jobs) = jobs[1] /\ DOMAIN jobs = 1..Len(jobs)
  OBVIOUS
<1>2. /\ Tail(jobs) \in Seq(Reviews) /\ Len(Tail(jobs)) = Len(jobs) - 1
      /\ \A i \in 1..(Len(jobs) - 1) : Tail(jobs)[i] = jobs[i + 1]
  BY <1>1
<1>3. DOMAIN Tail(jobs) = 1..(Len(jobs) - 1)
  BY <1>1, <1>2
<1>4. \A i \in DOMAIN Tail(jobs) : i \in Nat /\ i + 1 \in DOMAIN jobs /\ i + 1 # 1 /\ Tail(jobs)[i] = jobs[i + 1]
  BY <1>1, <1>2, <1>3
<1>5. 1 \in DOMAIN jobs
  BY <1>1
<1>6. \A i \in DOMAIN Tail(jobs) :
        Tail(jobs)[i] # Head(jobs) /\ Tail(jobs)[i] \in Reviews /\ status[Tail(jobs)[i]] \in Active
  BY <1>1, <1>4, <1>5 DEF Waiting
<1>7. \A i, j \in DOMAIN Tail(jobs) : Tail(jobs)[i] = Tail(jobs)[j] => i = j
  <2> TAKE i, j \in DOMAIN Tail(jobs)
  <2>1. Tail(jobs)[i] = Tail(jobs)[j] => i + 1 = j + 1
    BY <1>4 DEF Waiting
  <2>2. i \in Nat /\ j \in Nat
    BY <1>4
  <2>3. QED
    BY <2>1, <2>2
<1>8. (\A r \in Reviews : r # Head(jobs) => status'[r] = status[r]) => Waiting(Tail(jobs))'
  BY <1>6, <1>7 DEF Waiting
<1>9. QED
  BY <1>1, <1>5, <1>8 DEF Waiting

\* A run lists the waiting reviews once each.
LEMMA ListsWait ==
  ASSUME NEW jobs \in SetToSeqs({r \in Reviews : status[r] \in Active})
  PROVE  Waiting(jobs)
<1>1. jobs \in [1..Cardinality({r \in Reviews : status[r] \in Active}) -> {r \in Reviews : status[r] \in Active}]
      /\ \A i, j \in DOMAIN jobs : jobs[i] = jobs[j] => i = j
  BY DEF SetToSeqs, IsInjective
<1>2. QED
  BY <1>1 DEF Waiting

\* Every step keeps what the statuses claim.
LEMMA TruthStep == ReviewInv /\ TruthInv /\ [ReviewNext]_reviewVars => TruthInv'
<1> SUFFICES ASSUME ReviewInv, TruthInv, [ReviewNext]_reviewVars PROVE TruthInv'
  OBVIOUS
<1> USE DEF TruthInv
<1>0. "daily" \notin Reviews
  BY ReviewAssumption
<1>1. CASE UNCHANGED reviewVars
  BY <1>1 DEF reviewVars, queueVars, buildVars, hostVars, QueueTruth, JobsWait, Waiting, PackagesFit,
    CandidateFits, ReportedFits, Both, InRelease, Unrequested, Job, Candidate, After
\* What does not change stays true.
<1>2. ASSUME UNCHANGED <<status, hostVars>> PROVE QueueTruth'
  BY <1>2 DEF hostVars, QueueTruth, Both, InRelease, Unrequested
<1>3. ASSUME UNCHANGED <<build, hostVars>> PROVE PackagesFit'
  BY <1>3 DEF hostVars, PackagesFit
<1>4. ASSUME UNCHANGED <<worker, build, hostVars, publication>> PROVE CandidateFits'
  BY <1>4 DEF hostVars, CandidateFits, Candidate, InRelease, After, Job
<1>5. ASSUME UNCHANGED <<finished, hostVars>> PROVE ReportedFits'
  BY <1>5 DEF hostVars, ReportedFits, Both, InRelease
<1>6. ASSUME UNCHANGED <<worker, status, build, finished, receipts>> PROVE JobsWait'
  BY <1>6 DEF JobsWait, Waiting, Unrequested, Job
\* The publication of a correction goes on only while its worker waits for it.
<1>7. ASSUME UNCHANGED <<build, hostVars, publication>>,
             publication # NoPublication => Candidate.name[1] \notin Reviews
      PROVE  CandidateFits'
  BY <1>7 DEF hostVars, CandidateFits, Candidate, InRelease, After
<1>8. ASSUME worker.step # "publishing", publication # NoPublication PROVE Candidate.name[1] \notin Reviews
  BY <1>8 DEF CandidateFits
<1>9. ASSUME worker # NoWorker
      PROVE  /\ worker.jobs \in Seq(Reviews) /\ worker.jobs # <<>>
             /\ Job \in Reviews /\ Waiting(worker.jobs)
             /\ worker = [step |-> worker.step, jobs |-> worker.jobs]
                \/ worker = [step |-> worker.step, jobs |-> worker.jobs, pointer |-> worker.pointer]
  BY <1>9, JobsGoOn DEF ReviewInv, WorkerFits, Job, JobsWait
\* The worker leaves a review with its outcome.
<1>10. ASSUME worker # NoWorker, Continue, \A r \in Reviews : r # Job => status'[r] = status[r]
       PROVE  JobsWait'
  <2>1. CASE Len(worker.jobs) > 1
    <3>1. worker' = [step |-> "next", jobs |-> Tail(worker.jobs)]
      BY <1>10, <2>1 DEF Continue
    <3>2. PICK jobs \in Seq(Reviews) : jobs = worker.jobs
      BY <1>9, <1>10
    <3>3. Waiting(Tail(jobs))'
      BY <1>9, <1>10, <3>2, JobsLeft DEF Job
    <3>4. QED
      BY <3>1, <3>2, <3>3 DEF JobsWait, Waiting
  <2>2. CASE ~(Len(worker.jobs) > 1)
    BY <1>10, <2>2 DEF Continue, JobsWait
  <2>3. QED
    BY <2>1, <2>2
<1>11. ASSUME NEW r \in Reviews, Preview(r) PROVE TruthInv'
  <2>1. UNCHANGED <<status, worker, buildVars, hostVars, publication>>
    BY <1>11 DEF Preview
  <2>2. UNCHANGED <<build, finished, receipts>>
    BY <2>1 DEF buildVars, hostVars
  <2>3. QED
    BY <1>2, <1>3, <1>4, <1>5, <1>6, <2>1, <2>2
<1>12. ASSUME NEW r \in Reviews, Submit(r) PROVE TruthInv'
  <2>1. status' = status \/ status' = [status EXCEPT ![r] = "queued"]
    BY <1>12 DEF Submit
  <2>2. QueueTruth'
    BY <1>12, <2>1 DEF Submit, hostVars, QueueTruth, Both, InRelease, Unrequested
  <2>3. \A q \in Reviews : status[q] \in Active => status'[q] \in Active
    BY <2>1 DEF QueueTruth, Active
  <2>4. JobsWait'
    BY <1>9, <1>12, <2>3 DEF Submit, buildVars, hostVars, JobsWait, Waiting, Unrequested, Job
  <2>5. QED
    BY <1>3, <1>4, <1>5, <1>12, <2>2, <2>4 DEF Submit, buildVars
<1>13. CASE BeginReview
  <2>1. PICK jobs \in SetToSeqs({r \in Reviews : status[r] \in Active}) :
          worker' = [step |-> "next", jobs |-> jobs]
    BY <1>13 DEF BeginReview
  <2>2. Waiting(jobs)
    BY <2>1, ListsWait
  <2>3. UNCHANGED <<queueVars, buildVars, hostVars, publication>> /\ worker = NoWorker
    BY <1>13 DEF BeginReview
  <2>4. JobsWait'
    BY <2>1, <2>2, <2>3 DEF JobsWait, Waiting, queueVars
  <2>5. publication # NoPublication => Candidate.name[1] \notin Reviews
    BY <2>3 DEF CandidateFits
  <2>6. QED
    BY <1>2, <1>3, <1>5, <1>7, <2>3, <2>4, <2>5 DEF queueVars, buildVars
<1>14. CASE TakeReview
  <2>1. worker.step = "next" /\ worker # NoWorker /\ status' = [status EXCEPT ![Job] = IF @ \in {"published", "failed"} THEN @ ELSE "running"]
        /\ UNCHANGED <<buildVars, hostVars, publication>>
    BY <1>14 DEF TakeReview, NoWorker, Report
  <2>2. status[Job] \in Active
    BY <1>9, <2>1, JobsLeft DEF Job
  <2>3. status' = [status EXCEPT ![Job] = "running"]
    BY <2>1, <2>2 DEF Active
  <2>4. QueueTruth'
    BY <2>1, <2>3 DEF hostVars, QueueTruth, Both, InRelease, Unrequested
  <2>5. worker' = [step |-> IF Job \in finished THEN "finish" ELSE "decide", jobs |-> worker.jobs]
    BY <1>14, <2>1 DEF TakeReview, ReviewInv, WorkerFits
  <2>6. \A q \in Reviews : status[q] \in Active => status'[q] \in Active
    BY <2>3 DEF QueueTruth, Active
  <2>7. Waiting(worker.jobs)'
    BY <1>9, <2>1, <2>5, <2>6 DEF Waiting
  <2>8. JobsWait'
    BY <2>1, <2>5, <2>7 DEF JobsWait, Job, buildVars
  <2>9. QED
    BY <1>3, <1>5, <1>7, <1>8, <2>1, <2>4, <2>8 DEF buildVars
<1>15. CASE Decide
  <2>1. worker.step = "decide" /\ worker # NoWorker /\ UNCHANGED <<queueVars, buildVars, hostVars, publication>>
    BY <1>15 DEF Decide, NoWorker
  <2>2. CandidateFits' /\ QueueTruth' /\ PackagesFit' /\ ReportedFits'
    BY <1>2, <1>3, <1>5, <1>7, <1>8, <2>1 DEF queueVars, buildVars
  <2>3. Waiting(worker.jobs)' <=> Waiting(worker'.jobs)
    BY <2>1 DEF Waiting, queueVars
  <2>4. CASE StillValid(Job)
    <3>1. worker' = [step |-> "publish", jobs |-> worker.jobs]
      BY <1>15, <2>1, <2>4 DEF Decide, ReviewInv, WorkerFits
    <3>2. JobsWait'
      BY <1>9, <2>1, <3>1 DEF JobsWait, Waiting, queueVars
    <3>3. QED
      BY <2>2, <3>2
  <2>5. CASE ~StillValid(Job)
    <3>1. worker' = [step |-> "validate", jobs |-> worker.jobs, pointer |-> source]
      BY <1>15, <2>5 DEF Decide
    <3>2. Unrequested(Job)
      BY <1>9, <2>1, <2>5 DEF StillValid, Unrequested, PackagesFit
    <3>3. JobsWait'
      BY <1>9, <2>1, <3>1, <3>2 DEF JobsWait, Waiting, queueVars, hostVars, Unrequested, Job
    <3>4. QED
      BY <2>2, <3>3
  <2>6. QED
    BY <2>4, <2>5
<1>16. CASE Validate
  <2>1. worker.step = "validate" /\ worker # NoWorker /\ UNCHANGED <<confirmed, retry, buildVars, hostVars, publication>>
        /\ Unrequested(Job)
    BY <1>16 DEF Validate, NoWorker, JobsWait
  <2>2. CandidateFits' /\ PackagesFit' /\ ReportedFits'
    BY <1>3, <1>5, <1>7, <1>8, <2>1 DEF buildVars
  <2>3. CASE worker' = [worker EXCEPT !.step = "build"] /\ UNCHANGED status
    <3>1. worker'.step = "build" /\ worker'.jobs = worker.jobs
      BY <1>9, <2>1, <2>3
    <3>2. JobsWait'
      BY <1>9, <2>1, <2>3, <3>1 DEF JobsWait, Waiting, hostVars, Unrequested, Job
    <3>3. QED
      BY <1>2, <2>1, <2>2, <2>3, <3>2
  <2>4. CASE Report(Job, "failed") /\ Continue
    <3>1. status[Job] \in Active
      BY <1>9, <2>1, JobsLeft DEF Job
    <3>2. status' = [status EXCEPT ![Job] = "failed"]
      BY <2>4, <3>1 DEF Report, Active
    <3>3. QueueTruth'
      BY <1>9, <2>1, <3>2 DEF hostVars, QueueTruth, Both, InRelease, Unrequested
    <3>4. JobsWait'
      BY <1>10, <2>1, <2>4, <3>2 DEF QueueTruth
    <3>5. QED
      BY <2>2, <3>3, <3>4
  <2>5. QED
    BY <1>16, <2>3, <2>4 DEF Validate
<1>17. CASE Build
  <2>1. worker.step = "build" /\ worker # NoWorker /\ UNCHANGED <<queueVars, finished, hostVars, publication>>
        /\ Unrequested(Job) /\ Job \in Reviews
    BY <1>9, <1>17 DEF Build, NoWorker, JobsWait
  <2>2. QueueTruth' /\ ReportedFits'
    BY <1>2, <1>5, <2>1 DEF queueVars
  <2>3. publication # NoPublication => Candidate.name[1] \notin Reviews
    BY <1>8, <2>1
  <2>4. CandidateFits'
    BY <2>1, <2>3 DEF hostVars, CandidateFits, Candidate, InRelease, After
  <2>5. CASE /\ build' = [build EXCEPT ![Job] = [name |-> <<Job, attempts[Job] + 1>>, base |-> worker.pointer]]
             /\ worker' = [step |-> "publish", jobs |-> worker.jobs]
    <3>1. JobsWait'
      BY <1>9, <2>1, <2>5 DEF JobsWait, Waiting, queueVars
    <3>2. \A r \in Reviews : build'[r] # NoBuild => build'[r].name[1] = r
      BY <2>1, <2>5 DEF PackagesFit, ReviewInv
    <3>3. \A r \in Reviews : r # Job => build'[r] = build[r]
      BY <2>5 DEF ReviewInv
    <3>4. \A c \in receipts : \A r \in Reviews : c.name[1] = r => c = build'[r] /\ build'[r] # NoBuild
      BY <2>1, <3>3 DEF PackagesFit, Unrequested
    <3>5. PackagesFit'
      BY <2>1, <3>2, <3>4 DEF PackagesFit, hostVars
    <3>6. QED
      BY <2>2, <2>4, <3>1, <3>5
  <2>6. CASE Continue /\ UNCHANGED build
    BY <1>3, <1>10, <2>1, <2>2, <2>4, <2>6 DEF queueVars
  <2>7. QED
    BY <1>17, <2>5, <2>6 DEF Build
<1>18. CASE Publish
  <2>1. worker.step = "publish" /\ worker # NoWorker /\ UNCHANGED <<queueVars, buildVars, hostVars>>
        /\ build[Job] # NoBuild /\ Job \in Reviews
        /\ publication' = [step |-> "begin", candidate |-> build[Job]]
    BY <1>9, <1>18 DEF Publish, NoWorker, ReviewInv, WorkerFits
  <2>2. worker' = [step |-> "publishing", jobs |-> worker.jobs]
    BY <1>18, <2>1 DEF Publish, ReviewInv, WorkerFits
  <2>3. JobsWait'
    BY <1>9, <2>1, <2>2 DEF JobsWait, Waiting, queueVars, buildVars, Job
  <2>4. CandidateFits'
    BY <2>1, <2>2 DEF CandidateFits, Candidate, Job, NoWorker, buildVars
  <2>5. QED
    BY <1>2, <1>3, <1>5, <2>1, <2>3, <2>4 DEF queueVars, buildVars
<1>19. CASE Returned
  <2>1. worker.step = "publishing" /\ worker # NoWorker /\ build[Job] # NoBuild /\ Job \in Reviews
        /\ UNCHANGED <<queueVars, build, hostVars, publication>> /\ ~InPublication
    BY <1>9, <1>19 DEF Returned, NoWorker, JobsWait
  <2>2. publication # NoPublication => Candidate.name[1] \notin Reviews
    BY <2>1 DEF CandidateFits, InPublication, Candidate
  <2>3. QueueTruth' /\ PackagesFit' /\ CandidateFits'
    BY <1>2, <1>3, <1>7, <2>1, <2>2 DEF queueVars
  <2>4. CASE build[Job] \in reports
    <3>1. finished' = finished \cup {Job} /\ worker' = [step |-> "finish", jobs |-> worker.jobs]
      BY <1>19, <2>1, <2>4 DEF Returned, ReviewInv, WorkerFits
    <3>2. Both(Job)
      BY <2>1, <2>4 DEF ReportedFits, PackagesFit
    <3>3. ReportedFits'
      BY <2>1, <3>1, <3>2 DEF ReportedFits, Both, InRelease, hostVars
    <3>4. JobsWait'
      BY <1>9, <2>1, <3>1 DEF JobsWait, Waiting, queueVars, Job
    <3>5. QED
      BY <2>3, <3>3, <3>4
  <2>5. CASE build[Job] \notin reports
    BY <1>5, <1>10, <1>19, <2>1, <2>3, <2>5 DEF Returned, queueVars
  <2>6. QED
    BY <2>4, <2>5
<1>20. CASE FinishReview
  <2>1. worker.step = "finish" /\ worker # NoWorker /\ Report(Job, "published") /\ Continue
        /\ UNCHANGED <<buildVars, hostVars, publication>>
    BY <1>20 DEF FinishReview, NoWorker
  <2>2. Job \in Reviews /\ Both(Job)
    BY <1>9, <2>1 DEF JobsWait, ReportedFits
  <2>3. \A r \in Reviews : r # Job => status'[r] = status[r]
    BY <2>1 DEF Report, QueueTruth
  <2>4. QueueTruth'
    <3>1. status' = [status EXCEPT ![Job] = status'[Job]] /\ status'[Job] \in {status[Job], "published"}
      BY <2>1, <2>2 DEF Report, QueueTruth
    <3>2. QED
      BY <2>1, <2>2, <3>1 DEF hostVars, QueueTruth, Both, InRelease, Unrequested
  <2>5. QED
    BY <1>3, <1>5, <1>7, <1>8, <1>10, <2>1, <2>3, <2>4 DEF buildVars
<1>21. CASE WorkerEnds
  <2>1. worker' = NoWorker /\ UNCHANGED <<queueVars, buildVars, hostVars>>
        /\ publication' = IF worker.step = "publishing" /\ InPublication THEN NoPublication ELSE publication
    BY <1>21 DEF WorkerEnds
  <2>2. publication' # NoPublication => publication' = publication /\ Candidate.name[1] \notin Reviews
    BY <2>1 DEF CandidateFits, InPublication, Candidate
  <2>3. CandidateFits'
    BY <2>1, <2>2 DEF hostVars, CandidateFits, Candidate, InRelease, After
  <2>4. QED
    BY <1>2, <1>3, <1>5, <2>1, <2>3 DEF queueVars, buildVars, JobsWait
<1>22. CASE DailyPublishes \/ DailyRepeats
  <2>1. publication'.step = "begin" /\ publication'.candidate.name[1] = "daily"
        /\ UNCHANGED <<queueVars, worker, buildVars, hostVars>>
    BY <1>22 DEF DailyPublishes, DailyRepeats
  <2>2. CandidateFits'
    BY <1>0, <2>1 DEF CandidateFits, Candidate
  <2>3. QED
    BY <1>2, <1>3, <1>5, <1>6, <2>1, <2>2 DEF queueVars, buildVars, hostVars
\* The publication goes on.
<1>23. ASSUME publication # NoPublication
       PROVE  /\ publication = [step |-> publication.step, candidate |-> Candidate]
              /\ publication.step \in {"begin", "send", "wait", "commit", "report"}
              /\ Candidate.name \in Name /\ Candidate.base \in Seq(Name)
  BY <1>23 DEF ReviewInv, PublicationFits, Candidate, Sound
<1>24. ASSUME publication.step \in {"begin", "send", "wait", "commit", "report"}
       PROVE  publication # NoPublication
  BY <1>24 DEF NoPublication
<1>25. ASSUME publication # NoPublication, NEW step,
              publication' = [publication EXCEPT !.step = step]
       PROVE  publication'.step = step /\ publication'.candidate = publication.candidate
  BY <1>23, <1>25
<1>26. ASSUME EndPublication PROVE CandidateFits'
  BY <1>26 DEF EndPublication, CandidateFits
<1>27. CASE OpenRequest
  <2>1. publication # NoPublication /\ UNCHANGED <<queueVars, worker, buildVars, source, production, inFlight, reports>>
    BY <1>24, <1>27 DEF OpenRequest
  <2>2. ReportedFits'
    BY <2>1 DEF ReportedFits, Both, InRelease, buildVars
  <2>3. CASE /\ receipts' = receipts \cup {Candidate} /\ publication' = [publication EXCEPT !.step = "send"]
             /\ source \in {Candidate.base, After(Candidate)}
    <3>1. Candidate.name[1] \in Reviews =>
            worker # NoWorker /\ worker.step = "publishing" /\ Candidate = build[Job] /\ build[Job] # NoBuild
      BY <2>1 DEF CandidateFits, JobsWait
    <3>2. ASSUME NEW r \in Reviews, Candidate.name[1] = r
          PROVE  Candidate = build[r] /\ build[r] # NoBuild /\ r = Job /\ status[r] \in Active
      BY <1>9, <3>1, <3>2, JobsLeft DEF PackagesFit, Job
    <3>3. PackagesFit'
      BY <2>1, <2>3, <3>2 DEF PackagesFit, buildVars
    <3>4. QueueTruth'
      BY <2>1, <2>3, <3>2 DEF QueueTruth, queueVars, Both, InRelease, Unrequested, Active
    <3>5. worker # NoWorker /\ worker.step \in {"validate", "build"} => Candidate.name[1] # Job
      BY <1>9, <3>1
    <3>6. JobsWait'
      BY <2>1, <2>3, <3>5 DEF JobsWait, Waiting, Unrequested, Job, queueVars, buildVars
    <3>7. publication'.step = "send" /\ publication'.candidate = Candidate
      BY <1>25, <2>1, <2>3 DEF Candidate
    <3>8. CandidateFits'
      BY <2>1, <2>3, <3>1, <3>7 DEF CandidateFits, Candidate, After, Job, buildVars
    <3>9. QED
      BY <2>2, <3>3, <3>4, <3>6, <3>8
  <2>4. CASE EndPublication /\ UNCHANGED receipts
    BY <1>2, <1>3, <1>6, <1>26, <2>1, <2>2, <2>4 DEF queueVars, buildVars, hostVars
  <2>5. QED
    BY <1>27, <2>3, <2>4 DEF OpenRequest
<1>28. CASE Send
  <2>1. publication # NoPublication /\ publication.step = "send" /\ inFlight' = inFlight \cup {Candidate}
        /\ UNCHANGED <<queueVars, worker, buildVars, source, production, receipts, reports>>
    BY <1>24, <1>28 DEF Send
  <2>2. publication'.step = "wait" /\ publication'.candidate = Candidate
    BY <1>25, <1>28, <2>1 DEF Send, Candidate
  <2>3. Candidate \in receipts
    BY <2>1 DEF CandidateFits
  <2>4. QueueTruth' /\ ReportedFits'
    BY <2>1 DEF QueueTruth, ReportedFits, queueVars, buildVars, Both, InRelease, Unrequested
  <2>5. PackagesFit' /\ CandidateFits'
    BY <2>1, <2>2, <2>3 DEF PackagesFit, CandidateFits, Candidate, After, Job, buildVars
  <2>6. QED
    BY <1>6, <2>1, <2>4, <2>5 DEF queueVars, buildVars
<1>29. CASE Answered
  <2>1. publication # NoPublication /\ publication.step = "wait" /\ production = After(Candidate)
        /\ UNCHANGED <<queueVars, worker, buildVars, hostVars>>
    BY <1>24, <1>29 DEF Answered
  <2>2. publication'.step = "commit" /\ publication'.candidate = Candidate
    BY <1>25, <1>29, <2>1 DEF Answered, Candidate
  <2>3. InRelease(production, Candidate.name[1])
    BY <1>23, <2>1, ReleaseGrows DEF After
  <2>4. CandidateFits'
    BY <2>1, <2>2, <2>3 DEF CandidateFits, Candidate, After, Job, buildVars, hostVars, InRelease
  <2>5. QED
    BY <1>2, <1>3, <1>5, <1>6, <2>1, <2>4 DEF queueVars, buildVars, hostVars
<1>30. CASE Refused \/ PublicationFails
  BY <1>2, <1>3, <1>5, <1>6, <1>26, <1>30 DEF Refused, PublicationFails, queueVars, buildVars, hostVars
<1>31. CASE Commit
  <2>1. publication # NoPublication /\ publication.step = "commit" /\ source' = After(Candidate)
        /\ UNCHANGED <<queueVars, worker, buildVars, production, receipts, inFlight, reports>>
    BY <1>24, <1>31 DEF Commit
  <2>2. publication'.step = "report" /\ publication'.candidate = Candidate
    BY <1>25, <1>31, <2>1 DEF Commit, Candidate
  <2>3. /\ \A r : InRelease(source, r) => InRelease(source', r)
        /\ InRelease(source', Candidate.name[1])
    <3>1. source = Candidate.base \/ source = After(Candidate)
      BY <2>1 DEF CandidateFits
    <3>2. /\ \A r : InRelease(Candidate.base, r) => InRelease(After(Candidate), r)
          /\ InRelease(After(Candidate), Candidate.name[1])
      BY <1>23, <2>1, ReleaseGrows DEF After
    <3>3. QED
      BY <2>1, <3>1, <3>2
  <2>4. \A r : Both(r) => Both(r)'
    BY <2>1, <2>3 DEF Both, InRelease
  <2>5. QueueTruth'
    BY <2>1, <2>4 DEF QueueTruth, queueVars, Unrequested
  <2>6. ReportedFits'
    BY <2>1, <2>4 DEF ReportedFits, buildVars
  <2>7. CandidateFits'
    BY <2>1, <2>2, <2>3 DEF CandidateFits, Candidate, After, Job, buildVars, InRelease
  <2>8. PackagesFit'
    BY <2>1 DEF PackagesFit, buildVars
  <2>9. QED
    BY <1>6, <2>1, <2>5, <2>6, <2>7, <2>8 DEF queueVars, buildVars
<1>32. CASE SaveReport
  <2>1. publication # NoPublication /\ publication.step = "report" /\ reports' = reports \cup {Candidate}
        /\ UNCHANGED <<queueVars, worker, buildVars, source, production, receipts, inFlight>>
    BY <1>24, <1>32 DEF SaveReport
  <2>2. Both(Candidate.name[1]) /\ Candidate \in receipts
    BY <2>1 DEF CandidateFits, Both
  <2>3. QueueTruth' /\ PackagesFit' /\ ReportedFits'
    BY <2>1, <2>2 DEF QueueTruth, PackagesFit, ReportedFits, queueVars, buildVars, Both, InRelease, Unrequested
  <2>4. QED
    BY <1>6, <1>26, <1>32, <2>1, <2>3 DEF SaveReport, queueVars, buildVars
<1>33. ASSUME NEW c \in inFlight, ProductionActs(c) PROVE TruthInv'
  <2>1. production = c.base /\ production' = Append(production, c.name) /\ c \in receipts
        /\ c.name \in Name /\ production \in Seq(Name)
        /\ UNCHANGED <<queueVars, worker, buildVars, source, receipts, inFlight, reports, publication>>
    BY <1>33 DEF ProductionActs, After, PackagesFit, ReviewInv, Sound
  <2>2. /\ \A r : InRelease(production, r) => InRelease(production', r)
        /\ \A k \in DOMAIN production' :
             production'[k] = c.name \/ (k \in DOMAIN production /\ production'[k] = production[k])
    BY <2>1, ReleaseGrows
  <2>3. \A r : Both(r) => Both(r)'
    BY <2>1, <2>2 DEF Both, InRelease
  <2>4. QueueTruth'
    BY <2>1, <2>3 DEF QueueTruth, queueVars, Unrequested
  <2>5. ReportedFits'
    BY <2>1, <2>3 DEF ReportedFits, buildVars
  <2>6. CandidateFits'
    BY <2>1, <2>2 DEF CandidateFits, Candidate, After, Job, buildVars, InRelease
  <2>7. PackagesFit'
    BY <2>1, <2>2 DEF PackagesFit, buildVars
  <2>8. QED
    BY <1>6, <2>1, <2>4, <2>5, <2>6, <2>7 DEF queueVars, buildVars
<1>34. ASSUME NEW c \in inFlight, Vanish(c) PROVE TruthInv'
  <2>1. inFlight' \subseteq inFlight
        /\ UNCHANGED <<queueVars, worker, buildVars, source, production, receipts, reports, publication>>
    BY <1>34 DEF Vanish
  <2>2. QueueTruth' /\ PackagesFit' /\ ReportedFits' /\ CandidateFits'
    BY <2>1 DEF QueueTruth, PackagesFit, ReportedFits, CandidateFits, queueVars, buildVars, Both, InRelease,
      Unrequested, Candidate, After, Job
  <2>3. QED
    BY <1>6, <2>1, <2>2 DEF queueVars, buildVars
<1>35. QED
  BY <1>1, <1>11, <1>12, <1>13, <1>14, <1>15, <1>16, <1>17, <1>18, <1>19, <1>20, <1>21, <1>22,
     <1>27, <1>28, <1>29, <1>30, <1>31, <1>32, <1>33, <1>34
     DEF ReviewNext, WorkerStep, PublisherStep

\* Nothing is asked of production at the start.
LEMMA TruthBegins == ReviewInit => TruthInv
<1> SUFFICES ASSUME ReviewInit PROVE TruthInv
  OBVIOUS
<1>1. DOMAIN production = {}
  BY DEF ReviewInit
<1>2. QED
  BY <1>1 DEF ReviewInit, TruthInv, QueueTruth, JobsWait, PackagesFit, CandidateFits, ReportedFits

\* Behaviour of issue_reviews.py ReviewQueue.update with process_issue_reviews.py: the
\* status tells the owner the truth.  A correction whose status is published is part of
\* the releases of both hosts, and one whose status is failed is in neither and no
\* request on its way can still bring it there.
THEOREM OwnersAreTold == ReviewSpec => []StatusTrue
<1>1. ReviewInv /\ TruthInv => StatusTrue
  <2> SUFFICES ASSUME ReviewInv, TruthInv, NEW r \in Reviews
               PROVE  /\ status[r] = "published" => /\ r \in Composition(source, IssueOf[r])
                                                    /\ r \in Composition(production, IssueOf[r])
                      /\ status[r] = "failed" => /\ r \notin Composition(production, IssueOf[r])
                                                 /\ \A c \in inFlight : c.name[1] # r
    BY DEF StatusTrue
  <2>1. /\ r \in Composition(source, IssueOf[r]) <=> InRelease(source, r)
        /\ r \in Composition(production, IssueOf[r]) <=> InRelease(production, r)
    BY DEF Composition, InRelease
  <2>2. Unrequested(r) => ~InRelease(production, r) /\ \A c \in inFlight : c.name[1] # r
    BY DEF TruthInv, PackagesFit, Unrequested, InRelease
  <2>3. QED
    BY <2>1, <2>2 DEF TruthInv, QueueTruth, Both
<1>2. ReviewInv /\ TruthInv /\ [ReviewNext]_reviewVars => (ReviewInv /\ TruthInv)'
  BY ReviewInvStep, TruthStep
<1>3. QED
  BY <1>1, <1>2, ReviewBegins, TruthBegins, PTL DEF ReviewSpec

-----------------------------------------------------------------------------
(* The retention of content beside activations.                            *)

\* The variables are of their kinds.
RetentionKinds ==
  /\ pc \in [Proc -> Place]
  /\ job \in [Proc -> Request \cup {NoRequest}]
  /\ prev \in [Proc -> Release \cup {NoRelease}]
  /\ lock \in Proc \cup {NoProc, Retention}
  /\ pointer \in Release /\ installed \subseteq Release
  /\ quarantine \in [RequestId -> Request \cup {NoRequest}]
  /\ results \subseteq RequestId

\* Who holds the lock works from a request that is written down.
WorksOn(p) ==
  /\ pc[p] \in Locked <=> lock = p
  /\ pc[p] \notin Ended => job[p] \in Request
  /\ pc[p] \in Publishing \cup Recovering \cup {"relocking", "saving"} => IsPublish(p)
  /\ pc[p] \in Reverting => job[p].action = "rollback"
  /\ pc[p] = "locking" => job[p].action # "status"
  /\ pc[p] \in {"basing", "locking", "relocking", "saving"} \cup Locked
       => quarantine[job[p].id] = job[p]

\* The databases a process goes on to name are there.
Keeps(p) ==
  /\ pc[p] \in {"locking"} \cup Reverting /\ ~IsPublish(p) => job[p].target \in installed
  /\ pc[p] \in {"switching", "renaming"} => job[p].target \in installed
  /\ pc[p] = "renaming" => pointer = prev[p]
  /\ pc[p] \in Activated => prev[p] \in installed

\* A database that neither the pointer nor a rollback the pass has read names.
Spared(d) ==
  /\ d # pointer
  /\ \A i \in listed : quarantine[i].action = "rollback" => d # quarantine[i].target

\* A pass has the lock since it looked at the pointer, and unlinks only such ones.
PassFits ==
  /\ planned # NoRelease => lock = Retention /\ pointer = planned
  /\ listed \subseteq {i \in RequestId : quarantine[i] # NoRequest}
  /\ lock = Retention =>
       \A f \in candidates : f.kind = "database" => Spared(f.name)

\* All of them together.
RetentionInv ==
  /\ RetentionKinds
  /\ pointer \in installed
  /\ \A i \in results : quarantine[i] # NoRequest /\ quarantine[i].action = "publish"
  /\ \A p \in Proc : WorksOn(p) /\ Keeps(p)
  /\ PassFits

\* A step of p leaves the other processes alone, takes no database away and
\* moves the pointer only under the lock.
Apart(p) ==
  /\ RetentionKinds'
  /\ \A q \in Proc \ {p} : pc'[q] = pc[q] /\ job'[q] = job[q] /\ prev'[q] = prev[q]
  /\ \/ lock' = lock
     \/ lock = NoProc /\ lock' = p
     \/ lock = p /\ lock' = NoProc
  /\ installed \subseteq installed'
  /\ pointer' \in installed'
  /\ pc[p] \notin Locked => pointer' = pointer
  /\ \A i \in RequestId : quarantine[i] # NoRequest => quarantine'[i] = quarantine[i]
  /\ \A i \in results' : quarantine'[i] # NoRequest /\ quarantine'[i].action = "publish"

\* At first nothing is planned, and the initial database is there.
LEMMA RetentionBegins == RetentionInit => RetentionInv
BY RetentionAssumption, NoneAssumption, InitialAssumption
   DEF RetentionInit, Init, RetentionInv, RetentionKinds, WorksOn, Keeps, PassFits, Place, Ended,
       BeforeLock, Locked, Publishing, Reverting, Recovering, Activated

\* Every step of an activation process is such a step.
LEMMA ApartStep ==
  ASSUME RetentionInv, NEW p \in Proc, Step(p) PROVE Apart(p)
<1> USE RequestAssumption, NoneAssumption, RetentionAssumption DEF Apart, RetentionInv, RetentionKinds, WorksOn,
        Keeps, RequestType, IsPublish, disk, Activated, Publishing, Reverting, Recovering, Locked, Ended, Place, BeforeLock
<1>1. ASSUME NEW r \in Request, Admit(p, r) PROVE Apart(p)
  BY <1>1 DEF Admit
<1>2. CASE BeforeLockStep(p)
  <2>1. CASE InspectMismatch(p)
    BY <2>1 DEF InspectMismatch, End
  <2>2. CASE InspectReplay(p)
    BY <2>2 DEF InspectReplay, Goto
  <2>3. CASE InspectFresh(p)
    BY <2>3 DEF InspectFresh
  <2>4. CASE WriteQuarantine(p)
    BY <2>4 DEF WriteQuarantine, Retained, End, Goto
  <2>5. CASE WriteBasePointer(p)
    BY <2>5 DEF WriteBasePointer, End, Goto
  <2>6. CASE AnswerStatus(p)
    BY <2>6 DEF AnswerStatus, End
  <2>7. CASE BeginRollback(p)
    BY <2>7 DEF BeginRollback, End, Goto
  <2>8. CASE LockBusy(p)
    BY <2>8 DEF LockBusy, End
  <2>9. CASE LockForPublish(p)
    BY <2>9 DEF LockForPublish, Take
  <2>10. CASE LockForRollback(p)
    BY <2>10 DEF LockForRollback, Take
  <2>11. CASE LockForRecovery(p)
    BY <2>11 DEF LockForRecovery, Take
  <2>12. QED
    BY <1>2, <2>1, <2>2, <2>3, <2>4, <2>5, <2>6, <2>7, <2>8, <2>9, <2>10,
       <2>11 DEF BeforeLockStep
<1>3. CASE PublishStep(p)
  <2>1. CASE Stage(p)
    BY <2>1 DEF Stage, End, Goto
  <2>2. CASE ApplyDelta(p)
    BY <2>2 DEF ApplyDelta, Goto
  <2>3. CASE InstallDatabase(p)
    BY <2>3 DEF InstallDatabase, End, Goto
  <2>4. CASE FinishInstall(p)
    BY <2>4 DEF FinishInstall, Goto
  <2>5. CASE Switch(p)
    BY <2>5 DEF Switch, StagePointer, End, Goto
  <2>6. CASE Activate(p)
    BY <2>6 DEF Activate, RenamePointer, End, Goto
  <2>7. CASE Prove(p)
    BY <2>7 DEF Prove
  <2>8. CASE FailProof(p)
    BY <2>8 DEF FailProof, Goto
  <2>9. CASE Restore(p)
    BY <2>9 DEF Restore, StagePointer, Goto
  <2>10. CASE RestorePointer(p)
    BY <2>10 DEF RestorePointer, RenamePointer, Goto
  <2>11. CASE ProveRestored(p)
    BY <2>11 DEF ProveRestored, End, Goto
  <2>12. CASE Latch(p)
    BY <2>12 DEF Latch, End
  <2>13. CASE SaveResult(p)
    BY <2>13 DEF SaveResult, End
  <2>14. QED
    BY <1>3, <2>1, <2>2, <2>3, <2>4, <2>5, <2>6, <2>7, <2>8, <2>9, <2>10,
       <2>11, <2>12, <2>13 DEF PublishStep
<1>4. CASE RecoveryStep(p)
  <2>1. CASE Recover(p)
    BY <2>1 DEF Recover, End, Goto
  <2>2. CASE ProveRecovered(p)
    BY <2>2 DEF ProveRecovered, End
  <2>3. CASE FailRecovery(p)
    BY <2>3 DEF FailRecovery, End
  <2>4. QED
    BY <1>4, <2>1, <2>2, <2>3 DEF RecoveryStep
<1>5. CASE RollbackStep(p)
  <2>1. CASE Cancel(p)
    BY <2>1 DEF Cancel, Goto
  <2>2. CASE Revert(p)
    BY <2>2 DEF Revert, StagePointer, End, Goto
  <2>3. CASE RevertPointer(p)
    BY <2>3 DEF RevertPointer, RenamePointer, End, Goto
  <2>4. CASE ProveReverted(p)
    BY <2>4 DEF ProveReverted, End
  <2>5. QED
    BY <1>5, <2>1, <2>2, <2>3, <2>4 DEF RollbackStep
<1>6. CASE Fault(p)
  <2>1. CASE Error(p)
    BY <2>1 DEF Error, Fallible, End
  <2>2. CASE ErrorUndoing(p)
    BY <2>2 DEF ErrorUndoing, Goto
  <2>3. CASE Crash(p)
    BY <2>3 DEF Crash
  <2>4. QED
    BY <1>6, <2>1, <2>2, <2>3 DEF Fault
<1>7. QED
  BY <1>1, <1>2, <1>3, <1>4, <1>5, <1>6 DEF Step, Run

\* A process that has ended needs no database.
LEMMA EndKeeps ==
  ASSUME RetentionInv, NEW p \in Proc, NEW outcome \in Ended, End(p, outcome)
  PROVE  (WorksOn(p) /\ Keeps(p))' /\ pc'[p] \in Ended
BY NoneAssumption, RetentionAssumption DEF RetentionInv, RetentionKinds, End, WorksOn, Keeps, Activated, Place, Ended,
   BeforeLock, Publishing, Reverting, Recovering, Locked

\* The process that moves names only databases that are there.
LEMMA OwnKeeps ==
  ASSUME RetentionInv, NEW p \in Proc, Step(p) PROVE (WorksOn(p) /\ Keeps(p))'
<1> USE EndKeeps, RequestAssumption, NoneAssumption, RetentionAssumption DEF RetentionInv, RetentionKinds, WorksOn,
        Keeps, RequestType, IsPublish, disk, Activated, Publishing, Reverting, Recovering, Locked, Ended, Place, BeforeLock
<1>1. ASSUME NEW r \in Request, Admit(p, r) PROVE (WorksOn(p) /\ Keeps(p))'
  BY <1>1 DEF Admit
<1>2. CASE BeforeLockStep(p)
  <2>1. CASE InspectMismatch(p)
    BY <2>1 DEF InspectMismatch
  <2>2. CASE InspectReplay(p)
    BY <2>2 DEF InspectReplay, Goto, MustRecover
  <2>3. CASE InspectFresh(p)
    BY <2>3 DEF InspectFresh, Retained
  <2>4. CASE WriteQuarantine(p)
    BY <2>4 DEF WriteQuarantine, Goto
  <2>5. CASE WriteBasePointer(p)
    BY <2>5 DEF WriteBasePointer, Goto
  <2>6. CASE AnswerStatus(p)
    BY <2>6 DEF AnswerStatus
  <2>7. CASE BeginRollback(p)
    BY <2>7 DEF BeginRollback, Goto
  <2>8. CASE LockBusy(p)
    BY <2>8 DEF LockBusy
  <2>9. CASE LockForPublish(p)
    BY <2>9 DEF LockForPublish, Take
  <2>10. CASE LockForRollback(p)
    <3>1. job[p] \in Request /\ job[p].action = "rollback"
      <4>1. job[p] \in Request /\ job[p].action # "status" /\ job[p].action # "publish"
        BY <2>10 DEF LockForRollback
      <4>2. QED
        BY <4>1 DEF Action
    <3>2. QED
      BY <2>10, <3>1 DEF LockForRollback, Take
  <2>11. CASE LockForRecovery(p)
    BY <2>11 DEF LockForRecovery, Take
  <2>12. QED
    BY <1>2, <2>1, <2>2, <2>3, <2>4, <2>5, <2>6, <2>7, <2>8, <2>9, <2>10,
       <2>11 DEF BeforeLockStep
<1>3. CASE PublishStep(p)
  <2>1. CASE Stage(p)
    BY <2>1 DEF Stage, Goto
  <2>2. CASE ApplyDelta(p)
    BY <2>2 DEF ApplyDelta, Goto
  <2>3. CASE InstallDatabase(p)
    BY <2>3 DEF InstallDatabase, Goto
  <2>4. CASE FinishInstall(p)
    BY <2>4 DEF FinishInstall, Goto
  <2>5. CASE Switch(p)
    BY <2>5 DEF Switch, StagePointer, CanReplace, Goto
  <2>6. CASE Activate(p)
    BY <2>6 DEF Activate, RenamePointer, Goto
  <2>7. CASE Prove(p)
    BY <2>7 DEF Prove
  <2>8. CASE FailProof(p)
    BY <2>8 DEF FailProof, Goto
  <2>9. CASE Restore(p)
    BY <2>9 DEF Restore, StagePointer, Goto
  <2>10. CASE RestorePointer(p)
    BY <2>10 DEF RestorePointer, RenamePointer, Goto
  <2>11. CASE ProveRestored(p)
    BY <2>11 DEF ProveRestored, Goto
  <2>12. CASE Latch(p)
    BY <2>12 DEF Latch
  <2>13. CASE SaveResult(p)
    BY <2>13 DEF SaveResult
  <2>14. QED
    BY <1>3, <2>1, <2>2, <2>3, <2>4, <2>5, <2>6, <2>7, <2>8, <2>9, <2>10,
       <2>11, <2>12, <2>13 DEF PublishStep
<1>4. CASE RecoveryStep(p)
  <2>1. CASE Recover(p)
    BY <2>1 DEF Recover, Goto
  <2>2. CASE ProveRecovered(p)
    BY <2>2 DEF ProveRecovered
  <2>3. CASE FailRecovery(p)
    BY <2>3 DEF FailRecovery
  <2>4. QED
    BY <1>4, <2>1, <2>2, <2>3 DEF RecoveryStep
<1>5. CASE RollbackStep(p)
  <2>1. CASE Cancel(p)
    BY <2>1 DEF Cancel, Goto
  <2>2. CASE Revert(p)
    BY <2>2 DEF Revert, StagePointer, Goto
  <2>3. CASE RevertPointer(p)
    BY <2>3 DEF RevertPointer, RenamePointer, Goto
  <2>4. CASE ProveReverted(p)
    BY <2>4 DEF ProveReverted
  <2>5. QED
    BY <1>5, <2>1, <2>2, <2>3, <2>4 DEF RollbackStep
<1>6. CASE Fault(p)
  <2>1. CASE Error(p)
    BY <2>1 DEF Error, Fallible
  <2>2. CASE ErrorUndoing(p)
    BY <2>2 DEF ErrorUndoing, Goto
  <2>3. CASE Crash(p)
    BY <2>3 DEF Crash
  <2>4. QED
    BY <1>6, <2>1, <2>2, <2>3 DEF Fault
<1>7. QED
  BY <1>1, <1>2, <1>3, <1>4, <1>5, <1>6 DEF Step, Run

\* A process that does not move keeps its databases.
LEMMA OthersKeep ==
  ASSUME RetentionInv, NEW p \in Proc, NEW q \in Proc, q # p, Apart(p)
  PROVE  (WorksOn(q) /\ Keeps(q))'
<1>1. pc'[q] = pc[q] /\ job'[q] = job[q] /\ prev'[q] = prev[q]
  BY DEF Apart
<1>2. WorksOn(q) /\ Keeps(q) /\ WorksOn(p)
  BY DEF RetentionInv
<1>3. lock' = q <=> lock = q
  BY NoneAssumption DEF Apart
<1>4. pc[q] \notin Ended => job[q] \in Request /\ job[q] # NoRequest /\ job[q].id \in RequestId
  BY <1>2, RequestAssumption, NoneAssumption DEF WorksOn, RequestType
<1>5. pc[q] = "renaming" => pointer' = pointer
  BY <1>2 DEF WorksOn, Apart, Locked, Publishing
<1>6. WorksOn(q)'
  <2>1. pc[q] \in {"basing", "locking", "relocking", "saving"} \cup Locked
          => quarantine'[job[q].id] = job[q]
    BY <1>2, <1>4 DEF WorksOn, Apart, Ended, Locked, Publishing, Reverting, Recovering
  <2>2. QED
    BY <1>1, <1>2, <1>3, <2>1 DEF WorksOn, IsPublish
<1>7. Keeps(q)'
  BY <1>1, <1>2, <1>5 DEF Keeps, IsPublish, Apart
<1>8. QED
  BY <1>6, <1>7

\* Activations leave what a pass has chosen, and the requests it has read.
LEMMA ActivationKeeps ==
  ASSUME RetentionInv, ActivationStep
  PROVE  RetentionInv'
<1>1. PICK p \in Proc : Step(p)
  BY DEF ActivationStep, Next
<1>2. Apart(p)
  BY <1>1, ApartStep
<1>3. \A q \in Proc : (WorksOn(q) /\ Keeps(q))'
  BY <1>1, <1>2, OwnKeeps, OthersKeep
<1>4. candidates' = candidates /\ planned' = planned /\ listed' = listed
  BY DEF ActivationStep
<1>5. lock = Retention => lock' = Retention /\ pointer' = pointer
  BY <1>2, RetentionAssumption DEF RetentionInv, WorksOn, Apart
<1>6. lock' = Retention => lock = Retention
  BY <1>2, RetentionAssumption DEF Apart
<1>7. \A i \in listed : quarantine'[i] = quarantine[i] /\ quarantine[i] # NoRequest
  BY <1>2 DEF RetentionInv, PassFits, Apart
<1>8. PassFits'
  <2>1. ASSUME lock' = Retention, NEW f \in candidates, f.kind = "database"
        PROVE  Spared(f.name)'
    BY <1>4, <1>5, <1>6, <1>7, <2>1 DEF RetentionInv, PassFits, Spared
  <2>2. QED
    BY <1>4, <1>5, <1>6, <1>7, <2>1 DEF RetentionInv, PassFits
<1>9. QED
  BY <1>2, <1>3, <1>8 DEF RetentionInv, Apart

\* A pass chooses nothing that a rollback it has read names.
LEMMA PlanKeeps ==
  ASSUME RetentionInv, Plan PROVE RetentionInv'
<1>1. /\ lock = NoProc /\ lock' = Retention /\ planned' = pointer
      /\ listed' = {i \in RequestId : quarantine[i] # NoRequest}
      /\ UNCHANGED <<pc, job, prev, disk>>
      /\ \E age, stagings : candidates' = Candidates(age, stagings)
  BY DEF Plan
<1>2. /\ UNCHANGED <<pointer, quarantine, installed, results>>
  BY <1>1 DEF disk
<1>3. ASSUME NEW p \in Proc PROVE (WorksOn(p) /\ Keeps(p))'
  BY <1>1, <1>2, NoneAssumption, RetentionAssumption DEF RetentionInv, WorksOn, Keeps, IsPublish
<1>4. ASSUME NEW i \in listed', quarantine[i].action = "rollback"
      PROVE  quarantine[i].target \in Protected
  <2>1. i \in Unresolved
    BY <1>1, <1>4 DEF Unresolved, RetentionInv
  <2>2. quarantine[i].target \in Needs(i)
    BY <1>4 DEF Needs
  <2>3. QED
    BY <2>1, <2>2 DEF Protected
<1>5. pointer \in Protected
  BY DEF Protected
<1>6. \A f \in candidates' : f.kind = "database" => f.name \notin Protected
  <2>1. PICK age, stagings : candidates' = Candidates(age, stagings)
    BY <1>1
  <2>2. QED
    BY <2>1 DEF Candidates
<1>7. PassFits'
  BY <1>1, <1>2, <1>4, <1>5, <1>6, NoneAssumption DEF PassFits, Spared
<1>8. RetentionKinds'
  BY <1>1, <1>2 DEF RetentionInv, RetentionKinds
<1>9. QED
  BY <1>2, <1>3, <1>7, <1>8 DEF RetentionInv

\* What is unlinked is named by nobody, unless it is struck.
LEMMA UnlinkKeeps ==
  ASSUME RetentionInv, Unlink, ~struck' PROVE RetentionInv'
<1>1. /\ lock = Retention
      /\ UNCHANGED <<pc, job, prev, lock, pointer, quarantine, results, planned, listed>>
  BY DEF Unlink
<1>2. PICK f \in candidates :
        /\ candidates' = candidates \ {f}
        /\ installed' = IF f.kind = "database" THEN installed \ {f.name} ELSE installed
        /\ f.kind = "database" => ~Overlooked(f.name)
  BY DEF Unlink
<1>3. f.kind = "database" => Spared(f.name)
  BY <1>1 DEF RetentionInv, PassFits
<1>4. ASSUME NEW p \in Proc PROVE (WorksOn(p) /\ Keeps(p))'
  <2>1. pc[p] \notin Locked /\ WorksOn(p) /\ Keeps(p)
    BY <1>1, RetentionAssumption DEF RetentionInv, WorksOn
  <2>2. WorksOn(p)'
    BY <1>1, <2>1 DEF WorksOn, IsPublish
  <2>3. ASSUME pc[p] = "locking", ~IsPublish(p), f.kind = "database" PROVE f.name # job[p].target
    <3>1. job[p] \in Request /\ job[p].action = "rollback" /\ quarantine[job[p].id] = job[p]
      <4>1. job[p] \in Request /\ job[p].action # "status" /\ job[p].action # "publish"
        BY <2>1, <2>3 DEF WorksOn, Ended, IsPublish
      <4>2. job[p].action \in Action
        BY <4>1, RequestAssumption DEF RequestType
      <4>3. QED
        BY <2>1, <2>3, <4>1, <4>2 DEF WorksOn, Action
    <3>2. CASE job[p].id \in listed
      BY <1>3, <2>3, <3>1, <3>2 DEF Spared
    <3>3. CASE job[p].id \notin listed
      BY <1>2, <2>3, <3>3 DEF Overlooked
    <3>4. QED
      BY <3>2, <3>3
  <2>4. Keeps(p)'
    BY <1>1, <1>2, <2>1, <2>3 DEF Keeps, IsPublish, Locked, Publishing, Reverting, Activated
  <2>5. QED
    BY <2>2, <2>4
<1>5. PassFits'
  BY <1>1, <1>2 DEF RetentionInv, PassFits, Spared
<1>6. RetentionKinds' /\ pointer' \in installed'
  BY <1>1, <1>2, <1>3 DEF RetentionInv, RetentionKinds, Spared
<1>7. QED
  BY <1>1, <1>4, <1>5, <1>6 DEF RetentionInv

\* The end of a pass frees the lock only.
LEMMA EndPassKeeps ==
  ASSUME RetentionInv, EndPass PROVE RetentionInv'
<1>1. /\ lock = Retention /\ lock' = NoProc /\ planned' = NoRelease /\ listed' = {}
      /\ UNCHANGED <<pc, job, prev, pointer, quarantine, installed, results>>
  BY DEF EndPass, disk
<1>2. ASSUME NEW p \in Proc PROVE (WorksOn(p) /\ Keeps(p))'
  BY <1>1, NoneAssumption, RetentionAssumption DEF RetentionInv, WorksOn, Keeps, IsPublish
<1>3. PassFits' /\ RetentionKinds'
  BY <1>1, RetentionAssumption DEF RetentionInv, PassFits, RetentionKinds
<1>4. QED
  BY <1>1, <1>2, <1>3 DEF RetentionInv

\* A step of nobody changes nothing.
LEMMA RestKeeps ==
  ASSUME RetentionInv, UNCHANGED allVars PROVE RetentionInv'
BY DEF allVars, retentionVars, vars, disk, RetentionInv, RetentionKinds, WorksOn, Keeps, PassFits, Spared, IsPublish

\* Behaviour of rotate_content_state.py: retention never takes away the active
\* database, nor the one a publication will put back, nor the target of a rollback,
\* for any requests, failures, crashes and passes, until it strikes the target of a
\* rollback whose request was written after it had read them.
THEOREM UndoneStays == RetentionSpec => []UndoneIsThere
<1>1. (struck \/ RetentionInv) /\ [RetentionNext]_allVars => (struck \/ RetentionInv)'
  <2> SUFFICES ASSUME struck \/ RetentionInv, [RetentionNext]_allVars, ~struck'
               PROVE  RetentionInv'
    OBVIOUS
  <2>1. ~struck
    BY DEF RetentionNext, ActivationStep, Plan, Unlink, EndPass, allVars, retentionVars
  <2>2. QED
    BY <2>1, ActivationKeeps, PlanKeeps, UnlinkKeeps, EndPassKeeps, RestKeeps DEF RetentionNext
<1>2. struck \/ RetentionInv => UndoneIsThere
  BY DEF RetentionInv, Keeps, PassFits, UndoneIsThere
<1>3. QED
  BY <1>1, <1>2, RetentionBegins, PTL DEF RetentionSpec
=============================================================================
