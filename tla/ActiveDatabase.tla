---------------------------- MODULE ActiveDatabase ----------------------------
(***************************************************************************)
(* How the public API follows active.json (ActiveDatabaseManager).         *)
(*                                                                         *)
(* Requests are served under one lock from one opened database, kept with  *)
(* the pointer bytes it was opened for.  A request that observes other     *)
(* bytes reopens: it reads the pointer before, reads and parses it, opens  *)
(* and verifies the database it names, and reads it after.  Activation     *)
(* processes move the pointer meanwhile, also back: an activation that is  *)
(* not proven is undone, and operators roll back.  A release stands for    *)
(* its pointer bytes and for its database, which verification compares.    *)
(* What only the properties need to know (during, slipped, wavered) is     *)
(* recorded beside the program's own variables.                            *)
(***************************************************************************)
EXTENDS Naturals

CONSTANTS
    Release,
    Initial,
    Moves,        \* pairs <<from, to>>: how activation moves the pointer
    MaxMoves,     \* bound: moves of the pointer in one behaviour
    Thread,       \* request threads of the API
    NoRelease, NoThread

ASSUME MovesAssumption == Moves \subseteq Release \X Release
ASSUME InitialAssumption == Initial \in Release
ASSUME BoundAssumption == MaxMoves \in Nat
ASSUME NoneAssumption == NoRelease \notin Release /\ NoThread \notin Thread

Attempts == 3     \* _LOAD_ATTEMPTS

VARIABLES
    pointer,      \* active.json
    moves,        \* moves so far
    opened,       \* the database kept open
    openedBytes,  \* the pointer bytes it is kept with
    lock,         \* the thread that holds the lock
    pc,           \* where each thread is
    before,       \* pointer bytes its holder read first
    candidate,    \* the database it opened
    attempt,      \* its attempts so far
    during,       \* per request, the releases the pointer named since it arrived
    slipped,      \* the pointer moved between the first two reads of the attempt
    wavered       \* the database kept open comes from such an attempt

manager == <<opened, openedBytes, wavered>>
reopening == <<before, candidate, attempt, slipped>>
managerVars == <<pointer, moves, manager, lock, pc, reopening, during>>

ThreadPlace == {"idle", "waiting", "observing", "reading", "opening", "comparing",
                "answering"}
Maybe == Release \cup {NoRelease}

ManagerTypeOK ==
    /\ pointer \in Release
    /\ moves \in 0..MaxMoves
    /\ opened \in Maybe /\ openedBytes \in Maybe
    /\ lock \in Thread \cup {NoThread}
    /\ pc \in [Thread -> ThreadPlace]
    /\ before \in Maybe /\ candidate \in Maybe
    /\ attempt \in 0..Attempts
    /\ during \in [Thread -> SUBSET Release]
    /\ slipped \in BOOLEAN /\ wavered \in BOOLEAN
    /\ \A t \in Thread : pc[t] \notin {"idle", "waiting"} <=> lock = t

ManagerInit ==
    /\ pointer = Initial
    /\ moves = 0
    /\ opened = NoRelease /\ openedBytes = NoRelease
    /\ lock = NoThread
    /\ pc = [t \in Thread |-> "idle"]
    /\ before = NoRelease /\ candidate = NoRelease
    /\ attempt = 0
    /\ during = [t \in Thread |-> {}]
    /\ slipped = FALSE /\ wavered = FALSE

Goto(t, place) == pc' = [pc EXCEPT ![t] = place]

\* The request leaves with an answer or an error.
Leave(t) ==
    /\ Goto(t, "idle")
    /\ lock' = NoThread
    /\ during' = [during EXCEPT ![t] = {}]

\* An activation, its undoing or a rollback replaces the pointer.
Move ==
    /\ moves < MaxMoves
    /\ moves' = moves + 1
    /\ \E m \in Moves : pointer = m[1] /\ pointer' = m[2]
    /\ during' = [t \in Thread |-> IF pc[t] = "idle" THEN {} ELSE during[t] \cup {pointer'}]
    /\ slipped' = (slipped \/ \E t \in Thread : pc[t] = "opening")
    /\ UNCHANGED <<manager, lock, pc, before, candidate, attempt>>

Arrive(t) ==
    /\ pc[t] = "idle"
    /\ Goto(t, "waiting")
    /\ during' = [during EXCEPT ![t] = {pointer}]
    /\ UNCHANGED <<pointer, moves, manager, lock, reopening>>

Acquire(t) ==
    /\ pc[t] = "waiting"
    /\ lock = NoThread
    /\ lock' = t
    /\ Goto(t, "observing")
    /\ UNCHANGED <<pointer, moves, manager, reopening, during>>

\* Variant: any opened database is used.
ObserveAny(t) ==
    /\ pc[t] = "observing"
    /\ Goto(t, IF opened # NoRelease THEN "answering" ELSE "reading")
    /\ attempt' = 0
    /\ UNCHANGED <<pointer, moves, manager, lock, before, candidate, slipped, during>>

Observe(t) ==
    /\ pc[t] = "observing"
    /\ Goto(t, IF openedBytes = pointer THEN "answering" ELSE "reading")
    /\ attempt' = 0
    /\ UNCHANGED <<pointer, moves, manager, lock, before, candidate, slipped, during>>

\* One more attempt, or the error of the last.
ReadBefore(t) ==
    /\ pc[t] = "reading"
    /\ \/ /\ attempt < Attempts
          /\ attempt' = attempt + 1
          /\ before' = pointer
          /\ slipped' = FALSE
          /\ Goto(t, "opening")
          /\ UNCHANGED <<lock, during>>
       \/ /\ attempt = Attempts
          /\ Leave(t)
          /\ UNCHANGED <<attempt, before, slipped>>
    /\ UNCHANGED <<pointer, moves, manager, candidate>>

\* The pointer is read again for its contents; the database it names is opened
\* and verified, or fails to be.
Open(t) ==
    /\ pc[t] = "opening"
    /\ \/ candidate' = pointer /\ Goto(t, "comparing")
       \/ Goto(t, "reading") /\ UNCHANGED candidate
    /\ UNCHANGED <<pointer, moves, manager, lock, before, attempt, slipped, during>>

Compare(t) ==
    /\ pc[t] = "comparing"
    /\ IF before = pointer
       THEN /\ opened' = candidate /\ openedBytes' = before /\ wavered' = slipped
            /\ Goto(t, "answering")
       ELSE Goto(t, "reading") /\ UNCHANGED manager
    /\ UNCHANGED <<pointer, moves, lock, reopening, during>>

Answer(t) ==
    /\ pc[t] = "answering"
    /\ Leave(t)
    /\ UNCHANGED <<pointer, moves, manager, reopening>>

\* close: the manager forgets its database, and would open one again.
Close ==
    /\ lock = NoThread
    /\ opened' = NoRelease /\ openedBytes' = NoRelease /\ wavered' = FALSE
    /\ UNCHANGED <<pointer, moves, lock, pc, reopening, during>>

Serve(t) ==
    \/ Acquire(t) \/ Observe(t) \/ ReadBefore(t) \/ Open(t) \/ Compare(t) \/ Answer(t)

ManagerNext == Move \/ Close \/ \E t \in Thread : Arrive(t) \/ Serve(t)

ManagerSpec == ManagerInit /\ [][ManagerNext]_managerVars

-----------------------------------------------------------------------------
\* A request is answered from a release that was active at some time between
\* its arrival and its answer, however the pointer moved, forward or back, while
\* databases were opened and kept.  There is one exception: a database opened
\* while the pointer left the bytes read first and came back to them is kept
\* with those bytes and answers until the pointer moves again.
AnswerCurrent ==
    [][\A t \in Thread : pc[t] = "answering" /\ pc'[t] = "idle"
                         => opened \in during[t] \/ wavered]_managerVars

\* The bytes a database is kept with are those of its own pointer, with the same
\* exception.
KeptWithItsBytes == wavered \/ opened = openedBytes

=============================================================================
