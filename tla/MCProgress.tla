------------------------------ MODULE MCProgress -------------------------------
(***************************************************************************)
(* The local publisher, with what it must eventually reach, and the fetch  *)
(* queue, which must drain.  One of the two moves; fairness is that of its *)
(* own module, for the steps of the part that moves.                       *)
(***************************************************************************)
EXTENDS LocalPublisherProperties, TLC

CONSTANTS b0, x, y, z, d1, d2, s1, s2, h, w1

VARIABLES
    moving,
    torn,       \* a run was interrupted between two effects that nothing explains
    queue, best, stored, bodies, validator, page, time, txn, flight, pass,
    queueFaults, commands

\* Two candidates that compete, and a successor of one of them.
FourReleases == {b0, x, y, z}
Candidates == {[base |-> b0, target |-> x], [base |-> b0, target |-> y],
               [base |-> y, target |-> z]}
\* Places between two durable effects that the journal or the results explain.
Durable == {"resuming", "working", "closing"}

\* Two documents of one host, the second with two contents; one worker.
Queue == INSTANCE FetchQueue WITH
    Docs <- {d1, d2}, Perimeter <- {d2}, Host <- [d \in {d1, d2} |-> h],
    Workers <- {w1}, Slots <- {s1, s2}, MaxAttempts <- 2, PerHost <- 1, MaxRung <- 1,
    MaxEdition <- 2, Parse <- d1 :> <<"complete">> @@ d2 :> <<"partial", "complete">>,
    MaxTime <- d1 :> 1 @@ d2 :> 2, MaxFaults <- 1, MaxCommands <- 0,
    faults <- queueFaults

queueVars == <<queue, best, stored, bodies, validator, page, time, txn, flight, pass,
               queueFaults, commands>>

ProgressInit == Init /\ Queue!Init /\ torn = FALSE /\ moving \in {"publisher", "queue"}

PublisherMoves ==
    /\ moving = "publisher" /\ UNCHANGED <<moving, queueVars>>
    /\ torn' = (torn \/ (faults' # faults /\ at \notin Durable))
QueueMoves == moving = "queue" /\ UNCHANGED <<moving, torn, vars>>

ProgressNext == (Next /\ PublisherMoves) \/ (Queue!Next /\ QueueMoves)

ProgressFairness ==
    /\ WF_vars(Run /\ PublisherMoves)
    /\ \A c \in Candidate : SF_vars(Begin(c) /\ PublisherMoves)
    /\ WF_queueVars(Queue!Claim(w1) /\ QueueMoves)
    /\ \A s \in {s1, s2} : /\ WF_queueVars(Queue!Download(w1, s) /\ QueueMoves)
                           /\ WF_queueVars(Queue!Record(w1, s) /\ QueueMoves)
    /\ \A d \in {d1, d2} :
          /\ WF_queueVars(Queue!BecomeDue(d) /\ QueueMoves)
          /\ WF_queueVars(~Queue!Fetching(d) /\ Queue!LeaseEnds(d) /\ QueueMoves)

ProgressSpec ==
    ProgressInit /\ [][ProgressNext]_<<moving, torn, vars, queueVars>> /\ ProgressFairness

\* If repeated runs are interrupted only right after a transition or a saved
\* result, production and source agree again, or the publisher is blocked.
ConvergesUnlessTorn == production # source ~> production = source \/ Blocked \/ torn

\* Every queued document is settled in the end: dead workers' leases are taken
\* back, retries are tried until they succeed or the attempts are used up.
QueueDrains == moving = "queue" => Queue!Drains
=============================================================================
