------------------------------- MODULE AgentTurn -------------------------------
(***************************************************************************)
(* A question to the knowledge base: the reader's turn (app.mjs: a stream, *)
(* and the plain endpoint behind it when the stream breaks), the threads   *)
(* of the agent service that serve it (agent_api.py), what stands between  *)
(* them and a paid model - the key guard and the ask budget -, and the     *)
(* answers kept under question, epoch and revision of the base.            *)
(* Abstracted: one question, one client address and one key; a revision is *)
(* counted when a pass of the chain succeeds; retrieval, drafting and      *)
(* verification decide freely.                                             *)
(***************************************************************************)
EXTENDS Naturals, FiniteSets, Sequences, SequencesExt

CONSTANTS
    Readers,        \* turns of the client's pages
    PerClient,      \* ASKS_PER_CLIENT
    Subscriber,     \* SUBSCRIBER_ASKS_PER_CLIENT
    KeyCeiling,     \* SUBSCRIBER_ASKS_PER_KEY_PER_DAY
    WindowLength,   \* ASK_WINDOW_SECONDS
    KeptFor,        \* AccessGuard ttl_seconds
    EpochLength,    \* seconds that share a cache key
    DayLength,      \* seconds of a day
    MaxClock,       \* bound: the clock
    MaxRevision,    \* bound: passes of the chain
    MaxKeyChanges,  \* bound: revocations and extensions
    MaxLost,        \* bound: connections that break and turns that are stopped
    Unset

Modes == {"stream", "json"}
Threads == Readers \X Modes

ASSUME TurnAssumption ==
    /\ {PerClient, Subscriber, KeyCeiling, MaxClock, MaxRevision, MaxKeyChanges, MaxLost} \subseteq Nat
    /\ {WindowLength, KeptFor, EpochLength, DayLength} \subseteq Nat \ {0}
    /\ Unset \notin Nat

VARIABLES
    clock, revision,
    key, revokedAt, keyChanges, \* kx.access_keys: the key's status, and since when
    guard,      \* AccessGuard._cache: its entry, or Unset
    asked,      \* AskBudget._asked: moments in the client's window
    day, keyDay,\* AskBudget._day and _key_day
    answers,    \* kx.research_answers
    thread,     \* the handler threads
    reader,     \* per turn: where the page is
    lost        \* connections lost so far

keyVars == <<key, revokedAt, keyChanges>>
budget == <<asked, day, keyDay>>
page == <<reader, lost>>
turnVars == <<clock, revision, keyVars, guard, budget, answers, thread, page>>

-----------------------------------------------------------------------------

Idle == [step |-> "off", at |-> 0, valid |-> FALSE, epoch |-> 0, asOf |-> 0,
         moment |-> 0, charged |-> FALSE, base |-> 0, outcome |-> "none", cached |-> FALSE]

Ended == [Idle EXCEPT !.step = "over"]

TurnInit ==
    /\ clock = 0 /\ revision = 0
    /\ key \in {"active", "revoked"} /\ revokedAt = (IF key = "active" THEN Unset ELSE 0)
    /\ keyChanges = 0
    /\ guard = Unset
    /\ asked = <<>> /\ day = 0 /\ keyDay = 0
    /\ answers = {}
    /\ thread = [t \in Threads |-> Idle]
    /\ reader = [r \in Readers |-> "idle"] /\ lost = 0

To(t, step) == thread' = [thread EXCEPT ![t].step = step]

\* Time passes, a pass of the chain succeeds, the owner revokes or extends.
Tick ==
    /\ clock < MaxClock
    /\ clock' = clock + 1
    /\ UNCHANGED <<revision, keyVars, guard, budget, answers, thread, page>>

ChainPasses ==
    /\ revision < MaxRevision
    /\ revision' = revision + 1
    /\ UNCHANGED <<clock, keyVars, guard, budget, answers, thread, page>>

Revoke ==
    /\ keyChanges < MaxKeyChanges /\ key = "active"
    /\ key' = "revoked" /\ revokedAt' = clock /\ keyChanges' = keyChanges + 1
    /\ UNCHANGED <<clock, revision, guard, budget, answers, thread, page>>

\* An extension makes the key active again.
Extend ==
    /\ keyChanges < MaxKeyChanges /\ key = "revoked"
    /\ key' = "active" /\ revokedAt' = Unset /\ keyChanges' = keyChanges + 1
    /\ UNCHANGED <<clock, revision, guard, budget, answers, thread, page>>

-----------------------------------------------------------------------------
\* AccessGuard.check: the time is read first, the base outside the lock.

CheckKey(t) ==
    /\ thread[t].step = "check"
    /\ IF guard # Unset /\ clock - guard.at < KeptFor
       THEN thread' = [thread EXCEPT ![t].step = "context", ![t].at = clock,
                                     ![t].valid = guard.valid]
       ELSE thread' = [thread EXCEPT ![t].step = "reading", ![t].at = clock]
    /\ UNCHANGED <<clock, revision, keyVars, guard, budget, answers, page>>

ReadKey(t) ==
    /\ thread[t].step = "reading"
    /\ thread' = [thread EXCEPT ![t].step = "keeping", ![t].valid = (key = "active")]
    /\ UNCHANGED <<clock, revision, keyVars, guard, budget, answers, page>>

\* Variant: what was read is kept from when it is stored.
EntryOfNow(k) == [valid |-> k.valid, at |-> clock]

Entry(k) == [valid |-> k.valid, at |-> k.at]

KeepKey(t) ==
    /\ thread[t].step = "keeping"
    /\ guard' = Entry(thread[t])
    /\ To(t, "context")
    /\ UNCHANGED <<clock, revision, keyVars, budget, answers, page>>

-----------------------------------------------------------------------------
\* _draft_flow.

\* A refusal in the cache is not an answer.
Served(rows) == {a \in rows : a.kind = "answer"}

Under(k) == {a \in answers : a.epoch = k.epoch /\ a.asOf = k.asOf}

\* The question is put under the epoch and the revision of this moment, and the
\* kept answers under that key are asked first.
Lookup(t) ==
    LET k == [thread[t] EXCEPT !.asOf = revision, !.epoch = clock \div EpochLength] IN
    /\ k.step = "context"
    /\ IF Served(Under(k)) # {}
       THEN \E a \in Served(Under(k)) :
                thread' = [thread EXCEPT ![t] = [k EXCEPT !.step = "reply", !.outcome = a.kind,
                                                          !.base = a.base, !.cached = TRUE]]
       ELSE thread' = [thread EXCEPT ![t] = [k EXCEPT !.step = "moment"]]
    /\ UNCHANGED <<clock, revision, keyVars, guard, budget, answers, page>>

\* AskBudget.refused reads the time before it takes its lock.
ReadMoment(t) ==
    /\ thread[t].step = "moment"
    /\ thread' = [thread EXCEPT ![t].step = "charge", ![t].moment = clock]
    /\ UNCHANGED <<clock, revision, keyVars, guard, budget, answers, page>>

DayOf(m) == m \div DayLength

\* A call of another day than the last one clears the counts.
AskedToday(k) == IF DayOf(k.moment) # day THEN <<>> ELSE asked
KeyCount(k) == IF DayOf(k.moment) # day THEN 0 ELSE keyDay

InWindow(k) == SelectSeq(AskedToday(k), LAMBDA m : k.moment < m + WindowLength)

KeySpent(k) == k.valid /\ KeyCount(k) >= KeyCeiling
WindowSpent(k) == Len(InWindow(k)) >= (IF k.valid THEN Subscriber ELSE PerClient)

Charge(t) ==
    LET k == thread[t] IN
    /\ k.step = "charge"
    /\ day' = DayOf(k.moment)
    /\ IF KeySpent(k) \/ WindowSpent(k)
       THEN /\ thread' = [thread EXCEPT ![t].step = "reply", ![t].outcome = "limited"]
            /\ asked' = (IF KeySpent(k) THEN AskedToday(k) ELSE InWindow(k)) /\ keyDay' = KeyCount(k)
       ELSE /\ thread' = [thread EXCEPT ![t] = [@ EXCEPT !.step = "search", !.charged = TRUE,
                               !.at = 0, !.valid = FALSE, !.moment = 0]]
            /\ asked' = Append(InWindow(k), k.moment)
            /\ keyDay' = KeyCount(k) + (IF k.valid THEN 1 ELSE 0)
    /\ UNCHANGED <<clock, revision, keyVars, guard, answers, page>>

\* The base is read as it is now, whatever the context said: it holds nothing on
\* the question, or the model drafts from what was found - an answer, an answer
\* the spans do not carry, an error.
Search(t) ==
    /\ thread[t].step = "search"
    /\ \E kind \in {"answer", "refusal", "error"} :
           thread' = [thread EXCEPT ![t] = [@ EXCEPT !.base = revision, !.outcome = kind,
                          !.step = IF kind = "error" THEN "reply" ELSE "record"]]
    /\ UNCHANGED <<clock, revision, keyVars, guard, budget, answers, page>>

\* Variant: one row per question, as before migration 035.
ClashesWithAny(row) == Under(row) # {}

\* The unique indexes of research_answers: one answer and one refusal per key.
Clashes(row) == \E a \in Under(row) : a.kind = row.kind

Row(k) == [kind |-> k.outcome, epoch |-> k.epoch, asOf |-> k.asOf, base |-> k.base]

RecordRow(t) ==
    /\ thread[t].step = "record"
    /\ answers' = IF Clashes(Row(thread[t])) THEN answers ELSE answers \cup {Row(thread[t])}
    /\ To(t, "reply")
    /\ UNCHANGED <<clock, revision, keyVars, guard, budget, page>>

-----------------------------------------------------------------------------
\* The reader's page.

AskQuestion(r) ==
    /\ reader[r] = "idle"
    /\ reader' = [reader EXCEPT ![r] = "stream"]
    /\ To(<<r, "stream">>, "check")
    /\ UNCHANGED <<clock, revision, keyVars, guard, budget, answers, lost>>

\* A stream that broke, or told an error, is asked again as JSON.
FallBack(r) == reader' = [reader EXCEPT ![r] = "json"]

Breaks(r) ==
    /\ reader[r] = "stream" /\ lost < MaxLost /\ lost' = lost + 1
    /\ thread[<<r, "stream">>].step # "off"
    /\ FallBack(r)
    /\ thread' = [thread EXCEPT ![<<r, "json">>].step = "check"]
    /\ UNCHANGED <<clock, revision, keyVars, guard, budget, answers>>

\* The thread of a stream nobody reads ends at its next event.
WriteFails(t) ==
    /\ t[2] = "stream" /\ reader[t[1]] # "stream"
    /\ thread[t].step \in {"record", "reply"}
    /\ thread' = [thread EXCEPT ![t] = Ended]
    /\ UNCHANGED <<clock, revision, keyVars, guard, budget, answers, page>>

Reply(t) ==
    LET r == t[1] IN
    /\ thread[t].step = "reply"
    /\ \/ /\ reader[r] # t[2]
          /\ thread' = [thread EXCEPT ![t] = Ended]
          /\ UNCHANGED <<page>>
       \/ /\ reader[r] = t[2] /\ thread[t].outcome # "error"
          /\ thread' = [thread EXCEPT ![t] = Ended]
          /\ reader' = [reader EXCEPT ![r] = "done"]
       \/ /\ reader[r] = t[2] /\ thread[t].outcome = "error"
          /\ IF t[2] = "stream"
             THEN FallBack(r) /\ thread' = [thread EXCEPT ![t] = Ended, ![<<r, "json">>].step = "check"]
             ELSE /\ reader' = [reader EXCEPT ![r] = "failed"]
                  /\ thread' = [thread EXCEPT ![t] = Ended]
    /\ UNCHANGED <<clock, revision, keyVars, guard, budget, answers, lost>>

\* The stop button, or a JSON reply that was lost.
Stop(r) ==
    /\ reader[r] \in {"stream", "json"} /\ lost < MaxLost /\ lost' = lost + 1
    /\ reader' = [reader EXCEPT ![r] = "stopped"]
    /\ UNCHANGED <<clock, revision, keyVars, guard, budget, answers, thread>>

-----------------------------------------------------------------------------

Serve(t) ==
    \/ CheckKey(t) \/ ReadKey(t) \/ KeepKey(t) \/ Lookup(t) \/ ReadMoment(t)
    \/ Charge(t) \/ Search(t) \/ RecordRow(t) \/ WriteFails(t) \/ Reply(t)

TurnNext ==
    \/ Tick \/ ChainPasses \/ Revoke \/ Extend
    \/ \E t \in Threads : Serve(t)
    \/ \E r \in Readers : AskQuestion(r) \/ Breaks(r) \/ Stop(r)

TurnSpec == TurnInit /\ [][TurnNext]_turnVars

-----------------------------------------------------------------------------

\* Threads, rows and cards are of their kind.
TurnTypeOK ==
    /\ clock \in 0..MaxClock /\ revision \in 0..MaxRevision
    /\ guard # Unset => guard.at \in 0..clock
    /\ \A t \in Threads : thread[t].base \in 0..revision /\ thread[t].asOf \in 0..revision
    /\ \A a \in answers : a.kind \in {"answer", "refusal"} /\ a.base \in 0..revision
    /\ \A r \in Readers : reader[r] \in {"idle", "stream", "json", "done", "failed", "stopped"}
    /\ lost \in 0..MaxLost

\* An answer from the cache rests on the base the question was asked of, or on
\* a later one, whatever passed between retrieval and recording.
FreshFromCache ==
    \A t \in Threads : thread[t].cached => thread[t].base >= thread[t].asOf

\* An answer that is told is kept: a refusal recorded for the same question, by
\* another turn or an earlier one, does not keep it out.
AnswerIsKept ==
    \A t \in Threads : (thread[t].step = "reply" /\ thread[t].outcome = "answer") =>
        \E a \in Under(thread[t]) : a.kind = "answer"

\* A refusal is never replayed: whoever is told that the base holds nothing had
\* it searched.
RefusalWasSearched ==
    \A t \in Threads : thread[t].outcome = "refusal" => thread[t].charged

\* "A revocation lands within the minute" (agent_api.py): no request is served
\* as a subscriber's that came KeptFor after the key was revoked.
RevocationLands ==
    \A t \in Threads :
        (thread[t].valid /\ revokedAt # Unset) => thread[t].at < revokedAt + KeptFor
=============================================================================
