----------------------------- MODULE AuditJournal -----------------------------
(***************************************************************************)
(* The publisher's audit journal: an append-only file of hash-chained      *)
(* records, appended under an exclusive flock and read under a shared one  *)
(* (audit_journal.py).                                                     *)
(*                                                                         *)
(* A record carries its event, its position and the hash of the record     *)
(* before it; the hash stands for that record's event and position.        *)
(***************************************************************************)
EXTENDS Naturals, Sequences

CONSTANTS
    Appender,           \* processes that append or read
    Event,          \* event ids
    MaxJournalCrashes,     \* bound: journalCrashes of processes and of the host
    HostMayCrash,   \* may the host lose what was not synced?
    NoAppender, NoEvent

ASSUME JournalBoundAssumption == MaxJournalCrashes \in Nat
ASSUME HostAssumption == HostMayCrash \in BOOLEAN
ASSUME NoAppenderAssumption == NoAppender \notin Appender /\ NoEvent \notin Event

VARIABLES
    present,   \* the file exists
    records,   \* its complete records
    partial,   \* it ends in an incomplete one
    linked,    \* its directory entry is synced
    synced,    \* how many of its records are
    writer,    \* holder of the exclusive lock
    readers,   \* holders of the shared lock
    appending,        \* where each process is
    event,     \* the event it appends
    creator,   \* it created the file
    seen,      \* the records it verified under its lock
    acked,     \* events whose last append returned
    journalCrashes    \* journalCrashes so far

file == <<present, records, partial, linked, synced>>
locks == <<writer, readers>>
local == <<event, creator, seen>>
journalVars == <<file, locks, appending, local, acked, journalCrashes>>

Record == [event: Event, position: Nat, previous: Event \cup {NoEvent}]
JournalPlace == {"idle", "opened", "verifying", "writing", "finishing", "syncing",
                 "linking", "openedRead", "reading"}

JournalTypeOK ==
    /\ present \in BOOLEAN /\ partial \in BOOLEAN /\ linked \in BOOLEAN
    /\ records \in Seq(Record)
    /\ synced \in 0..Len(records)
    /\ writer \in Appender \cup {NoAppender}
    /\ readers \subseteq Appender
    /\ writer # NoAppender => readers = {}
    /\ appending \in [Appender -> JournalPlace]
    /\ event \in [Appender -> Event \cup {NoEvent}]
    /\ creator \in [Appender -> BOOLEAN]
    /\ seen \in [Appender -> Seq(Record)]
    /\ acked \subseteq Event
    /\ journalCrashes \in 0..MaxJournalCrashes

JournalInit ==
    /\ present = FALSE /\ partial = FALSE /\ linked = FALSE
    /\ records = <<>>
    /\ synced = 0
    /\ writer = NoAppender /\ readers = {}
    /\ appending = [p \in Appender |-> "idle"]
    /\ event = [p \in Appender |-> NoEvent]
    /\ creator = [p \in Appender |-> FALSE]
    /\ seen = [p \in Appender |-> <<>>]
    /\ acked = {}
    /\ journalCrashes = 0

MoveTo(p, place) == appending' = [appending EXCEPT ![p] = place]

\* The process leaves, and its locks are released.
Close(p) ==
    /\ MoveTo(p, "idle")
    /\ event' = [event EXCEPT ![p] = NoEvent]
    /\ creator' = [creator EXCEPT ![p] = FALSE]
    /\ seen' = [seen EXCEPT ![p] = <<>>]
    /\ writer' = IF writer = p THEN NoAppender ELSE writer
    /\ readers' = readers \ {p}

Events(log) == {log[i].event : i \in DOMAIN log}

\* _verify_bytes: positions and the hash chain.
Chained(log) ==
    \A i \in DOMAIN log :
        /\ log[i].position = i - 1
        /\ log[i].previous = IF i = 1 THEN NoEvent ELSE log[i - 1].event
Verifies == ~partial /\ Chained(records)

-----------------------------------------------------------------------------
(* append_event.                                                           *)

Open(p, e) ==
    /\ appending[p] = "idle"
    /\ present' = TRUE
    /\ creator' = [creator EXCEPT ![p] = ~present]
    /\ event' = [event EXCEPT ![p] = e]
    /\ acked' = acked \ {e}
    /\ MoveTo(p, "opened")
    /\ UNCHANGED <<records, partial, linked, synced, locks, seen, journalCrashes>>

\* Variant: appends share the lock.
LockForSharedAppend(p) ==
    /\ appending[p] = "opened"
    /\ writer' = p
    /\ MoveTo(p, "verifying")
    /\ UNCHANGED <<file, readers, local, acked, journalCrashes>>

LockForAppend(p) ==
    /\ appending[p] = "opened"
    /\ writer = NoAppender /\ readers = {}
    /\ writer' = p
    /\ MoveTo(p, "verifying")
    /\ UNCHANGED <<file, readers, local, acked, journalCrashes>>

Verify(p) ==
    /\ appending[p] = "verifying"
    /\ IF Verifies /\ event[p] \notin Events(records)
       THEN /\ seen' = [seen EXCEPT ![p] = records]
            /\ MoveTo(p, "writing")
            /\ UNCHANGED <<event, creator, locks>>
       ELSE Close(p)
    /\ UNCHANGED <<file, acked, journalCrashes>>

\* The bytes of a record may reach the file in several writes.
Write(p) ==
    /\ appending[p] = "writing"
    /\ partial' = TRUE
    /\ MoveTo(p, "finishing")
    /\ UNCHANGED <<present, records, linked, synced, locks, local, acked, journalCrashes>>

NextRecord(p) ==
    LET n == Len(seen[p])
    IN  [event |-> event[p], position |-> n,
         previous |-> IF n = 0 THEN NoEvent ELSE seen[p][n].event]

FinishAppend(p) ==
    /\ appending[p] = "finishing"
    /\ partial' = FALSE
    /\ records' = Append(records, NextRecord(p))
    /\ MoveTo(p, "syncing")
    /\ UNCHANGED <<present, linked, synced, locks, local, acked, journalCrashes>>

\* Variant: the append returns before it is synced.
SyncLater(p) ==
    /\ appending[p] = "syncing"
    /\ IF creator[p]
       THEN MoveTo(p, "linking") /\ UNCHANGED <<locks, local, acked>>
       ELSE acked' = acked \cup {event[p]} /\ Close(p)
    /\ UNCHANGED <<file, journalCrashes>>

\* fsync, the second verification, and for the creator the directory's fsync.
Sync(p) ==
    /\ appending[p] = "syncing"
    /\ synced' = Len(records)
    /\ IF ~Verifies
       THEN Close(p) /\ UNCHANGED acked
       ELSE IF creator[p]
       THEN MoveTo(p, "linking") /\ UNCHANGED <<locks, local, acked>>
       ELSE acked' = acked \cup {event[p]} /\ Close(p)
    /\ UNCHANGED <<present, records, partial, linked, journalCrashes>>

Link(p) ==
    /\ appending[p] = "linking"
    /\ linked' = TRUE
    /\ acked' = acked \cup {event[p]}
    /\ Close(p)
    /\ UNCHANGED <<present, records, partial, synced, journalCrashes>>

-----------------------------------------------------------------------------
(* read_and_verify.  A journal that does not exist reads as empty.         *)

OpenRead(p) ==
    /\ appending[p] = "idle"
    /\ present
    /\ MoveTo(p, "openedRead")
    /\ UNCHANGED <<file, locks, local, acked, journalCrashes>>

LockForRead(p) ==
    /\ appending[p] = "openedRead"
    /\ writer = NoAppender
    /\ readers' = readers \cup {p}
    /\ MoveTo(p, "reading")
    /\ UNCHANGED <<file, writer, local, acked, journalCrashes>>

Read(p) ==
    /\ appending[p] = "reading"
    /\ Close(p)
    /\ UNCHANGED <<file, acked, journalCrashes>>

-----------------------------------------------------------------------------
\* The process is killed, or one of its system calls fails.
JournalCrash(p) ==
    /\ appending[p] # "idle"
    /\ journalCrashes < MaxJournalCrashes
    /\ journalCrashes' = journalCrashes + 1
    /\ Close(p)
    /\ UNCHANGED <<file, acked>>

\* A prefix of what was not synced survives, and the file itself only if its
\* directory entry was synced or happened to reach the disk.
HostCrash ==
    /\ HostMayCrash
    /\ journalCrashes < MaxJournalCrashes
    /\ journalCrashes' = journalCrashes + 1
    /\ appending' = [p \in Appender |-> "idle"]
    /\ event' = [p \in Appender |-> NoEvent]
    /\ creator' = [p \in Appender |-> FALSE]
    /\ seen' = [p \in Appender |-> <<>>]
    /\ writer' = NoAppender /\ readers' = {}
    /\ \/ \E n \in synced..Len(records) :
             /\ records' = SubSeq(records, 1, n)
             /\ synced' = n
             /\ partial' \in IF n = Len(records) THEN {FALSE, partial} ELSE BOOLEAN
             /\ present' = present
             /\ linked' = present
       \/ /\ ~linked
          /\ present' = FALSE /\ records' = <<>> /\ partial' = FALSE
          /\ synced' = 0 /\ linked' = FALSE
    /\ UNCHANGED acked

JournalStep(p) ==
    \/ \E e \in Event : Open(p, e)
    \/ LockForAppend(p) \/ Verify(p) \/ Write(p) \/ FinishAppend(p) \/ Sync(p) \/ Link(p)
    \/ OpenRead(p) \/ LockForRead(p) \/ Read(p) \/ JournalCrash(p)

JournalNext == HostCrash \/ \E p \in Appender : JournalStep(p)

JournalSpec == JournalInit /\ [][JournalNext]_journalVars

-----------------------------------------------------------------------------
\* Whatever overlaps or journalCrashes, the complete records form one chain without a
\* fork or a repeated event, and no reader or appender that holds its lock meets
\* a record that a live process is still writing.
ChainIntact ==
    /\ Chained(records)
    /\ \A i, j \in DOMAIN records : records[i].event = records[j].event => i = j
    /\ \A p \in readers : partial => \A q \in Appender : appending[q] # "finishing"

\* An append that returned stays in the journal: as soon as the directory entry
\* is on disk, no crash of a process or of the host takes it back.
AckedStays ==
    [][\A e \in acked : linked /\ e \in Events(records) => e \in Events(records')]_journalVars
=============================================================================
