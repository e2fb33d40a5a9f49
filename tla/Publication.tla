----------------------------- MODULE Publication -----------------------------
(***************************************************************************)
(* Publication of candidates from the source host.                         *)
(*                                                                         *)
(* publish_candidate runs under the source's own lock, so at most one run  *)
(* is active: it retains the pointer its candidate starts from, sends one  *)
(* exact request to production over SSH (RemoteActivation), and only when  *)
(* production has proven the release moves the source pointer and saves    *)
(* the result that is reported.  A run that dies, loses its connection or  *)
(* waits for more than a minute leaves its remote process behind; the next *)
(* run of the same candidate sends the same bytes again.  An operator      *)
(* sends rollback and status requests to production directly.              *)
(***************************************************************************)
EXTENDS RemoteActivationProperties

CONSTANTS
    MaxFaults,       \* bound: faults of both hosts in one behaviour
    RunnerMayDie     \* may a run die inside replace_pointer?

ASSUME FaultBoundAssumption == MaxFaults \in Nat
ASSUME RunnerAssumption == RunnerMayDie \in BOOLEAN

\* A candidate stands for its retained package, delta and request bytes.
Candidate == {r \in Request : r.action = "publish"}

VARIABLES
    source,           \* active.json of the source
    sourceTemp,       \* staging files .active.<sha>.next of the source
    sourceInstalled,  \* releases/ of the source
    kept,             \* requests/<candidate>.base-pointer.json
    reported,         \* candidates with a results/<candidate>.json
    at,               \* where the run is
    cand,             \* the candidate it publishes
    call,             \* the remote process whose reply it awaits
    faults            \* faults so far

sourceDisk == <<source, sourceTemp, sourceInstalled, kept, reported>>
run == <<at, cand, call>>
pubVars == <<vars, sourceDisk, run, faults>>

RunPlace == {"idle", "calling", "awaiting", "installing", "switching",
             "renaming", "reporting"}

PubTypeOK ==
    /\ source \in Release
    /\ sourceTemp \subseteq Release
    /\ sourceInstalled \subseteq Release
    /\ kept \in [Candidate -> Release \cup {NoRelease}]
    /\ reported \subseteq Candidate
    /\ at \in RunPlace
    /\ cand \in Candidate \cup {NoRequest}
    /\ call \in Proc \cup {NoProc}
    /\ faults \in 0..MaxFaults
    /\ at = "idle" <=> cand = NoRequest
    /\ at = "calling" => call = NoProc

PubInit ==
    /\ Init
    /\ source = Initial
    /\ sourceTemp = {}
    /\ sourceInstalled = {Initial}
    /\ kept = [c \in Candidate |-> NoRelease]
    /\ reported = {}
    /\ at = "idle"
    /\ cand = NoRequest
    /\ call = NoProc
    /\ faults = 0

-----------------------------------------------------------------------------
(* One run of publish_candidate.                                           *)

\* The run returns or raises and releases the source's lock.
EndRun == at' = "idle" /\ cand' = NoRequest /\ call' = NoProc

GoOn(place) == at' = place /\ UNCHANGED <<cand, call>>

\* Variant: the candidate's base is not compared with the source.
BeginAnywhere(c) ==
    /\ at = "idle"
    /\ c \notin reported
    /\ kept' = [kept EXCEPT ![c] = c.base]
    /\ at' = "calling"
    /\ cand' = c
    /\ UNCHANGED <<vars, source, sourceTemp, sourceInstalled, reported, call, faults>>

\* The pointer the candidate is built on is retained before any call: a run
\* that finds the source already advanced to its own release goes back to it.
\* A reported candidate is answered from its saved result, and one with another
\* base is refused; neither changes anything.
Begin(c) ==
    /\ at = "idle"
    /\ c \notin reported
    /\ LET base == IF source = c.target /\ kept[c] # NoRelease
                   THEN kept[c] ELSE source
       IN  /\ base = c.base
           /\ kept[c] \in {NoRelease, base}
           /\ kept' = [kept EXCEPT ![c] = base]
    /\ at' = "calling"
    /\ cand' = c
    /\ UNCHANGED <<vars, source, sourceTemp, sourceInstalled, reported, call, faults>>

Call(p) ==
    /\ at = "calling"
    /\ Admit(p, cand)
    /\ at' = "awaiting"
    /\ call' = p
    /\ UNCHANGED <<cand, sourceDisk, faults>>

\* Production refuses it by one of its markers.
CallRefused ==
    /\ at = "calling"
    /\ blocked \/ cand.target \in cancelled
    /\ EndRun
    /\ UNCHANGED <<vars, sourceDisk, faults>>

\* Variant: the exit code is not looked at.
ReplyUnread ==
    /\ at = "awaiting"
    /\ pc[call] \in Ended
    /\ GoOn("installing")
    /\ UNCHANGED <<vars, sourceDisk, faults>>

\* Only a proven publication of this very request goes on.
Reply ==
    /\ at = "awaiting"
    /\ pc[call] \in Ended
    /\ IF pc[call] = "done" THEN GoOn("installing") ELSE EndRun
    /\ UNCHANGED <<vars, sourceDisk, faults>>

InstallSource ==
    /\ at = "installing"
    /\ sourceInstalled' = sourceInstalled \cup {cand.target}
    /\ GoOn("switching")
    /\ UNCHANGED <<vars, source, sourceTemp, kept, reported, faults>>

\* replace_pointer again; nothing else moves the source under its lock.
SwitchSource ==
    /\ at = "switching"
    /\ IF cand.target \in sourceTemp
       THEN EndRun /\ UNCHANGED sourceTemp
       ELSE sourceTemp' = sourceTemp \cup {cand.target} /\ GoOn("renaming")
    /\ UNCHANGED <<vars, source, sourceInstalled, kept, reported, faults>>

RenameSource ==
    /\ at = "renaming"
    /\ source' = cand.target
    /\ sourceTemp' = sourceTemp \ {cand.target}
    /\ GoOn("reporting") \/ (FsyncMayFail /\ EndRun)
    /\ UNCHANGED <<vars, sourceInstalled, kept, reported, faults>>

Report ==
    /\ at = "reporting"
    /\ reported' = reported \cup {cand}
    /\ EndRun
    /\ UNCHANGED <<vars, source, sourceTemp, sourceInstalled, kept, faults>>

-----------------------------------------------------------------------------
(* Faults and the operator.                                                *)

\* An error, a lost connection, the timeout of 60 seconds, or the death of the
\* run, which alone leaves a staging file behind.
Interrupt ==
    /\ at # "idle"
    /\ faults < MaxFaults
    /\ faults' = faults + 1
    /\ \/ /\ sourceTemp' = IF at = "renaming" THEN sourceTemp \ {cand.target}
                           ELSE sourceTemp
       \/ RunnerMayDie /\ UNCHANGED sourceTemp
    /\ EndRun
    /\ UNCHANGED <<vars, source, sourceInstalled, kept, reported>>

RemoteFault(p) ==
    /\ faults < MaxFaults
    /\ faults' = faults + 1
    /\ Fault(p)
    /\ UNCHANGED <<sourceDisk, run>>

RemoteStep(p) == Run(p) /\ UNCHANGED <<sourceDisk, run, faults>>

Operate(p, r) ==
    /\ p # call
    /\ Admit(p, r)
    /\ UNCHANGED <<sourceDisk, run, faults>>

SomeCall == \E p \in Proc : Call(p)

RunStep ==
    \/ SomeCall
    \/ CallRefused \/ Reply \/ InstallSource \/ SwitchSource \/ RenameSource
    \/ Report

PubNext ==
    \/ RunStep
    \/ \E c \in Candidate : Begin(c)
    \/ Interrupt
    \/ \E p \in Proc : \/ RemoteStep(p)
                       \/ RemoteFault(p)
                       \/ \E r \in Request \ Candidate : Operate(p, r)

PubSpec == PubInit /\ [][PubNext]_pubVars

\* A started run and a started remote process go on unless they are
\* interrupted, a candidate without a result is tried again, and a healthy
\* release is not called unhealthy forever.  A call finds a process in the end:
\* the host starts one per connection, and Proc only bounds how many overlap.
Fairness ==
    /\ WF_pubVars(RunStep)
    /\ SF_pubVars(SomeCall)
    /\ \A p \in Proc : /\ WF_pubVars(RemoteStep(p))
                       /\ SF_pubVars(ProveRecovered(p) /\ RemoteStep(p))
    /\ \A c \in Candidate : SF_pubVars(Begin(c))

FairPubSpec == PubSpec /\ Fairness

-----------------------------------------------------------------------------
(* What source and production promise together.                            *)

\* The source is moved only after production saved its proof, whatever replies
\* were lost or came from a repeated call: its release is the initial one or one
\* whose publication has a saved result there.
SourceFollowsProduction ==
    source = Initial \/ \E c \in Candidate : c.target = source /\ c.id \in results

\* Without an operator's rollback production is at the source's release or one
\* publication ahead of it, although attempts overlap and are repeated.
AtMostOneAhead ==
    \/ pointer = source
    \/ \E c \in Candidate : c.base = source /\ c.target = pointer
    \/ source \in cancelled

\* A publication is activated only on a release that was itself proven: an
\* unproven one is never built upon, even when its undoing is still under way.
BuildsOnProven ==
    [][\A p \in Proc : pc[p] = "renaming" /\ pointer' # pointer =>
          pointer = Initial \/ \E c \in Candidate :
                                  c.target = pointer /\ c.id \in results]_pubVars

\* A release reported as published leaves production only for one built on it
\* or by an explicit rollback: no late or repeated process undoes it.
ReportedStays ==
    [][\A c \in reported :
          pointer = c.target /\ pointer' # pointer =>
             \/ c.target \in cancelled
             \/ \E d \in Candidate : d.base = c.target /\ d.target = pointer']_pubVars

\* The requests a careful source and operator make: a candidate is prepared into a
\* release of its own, whose sequence number follows its base's (the delta engine demands
\* the successor), and a rollback puts back the release on which the one it takes down
\* was built.  A rollback over two releases marks only the upper one as cancelled: a copy
\* of the lower one's publication that was inspected long ago then activates it again.
OwnReleases == \A c, d \in Candidate : c.target = d.target => c = d
Successors(number) == \A c \in Candidate : number[c.target] > number[c.base]
StepBack ==
    \A r \in Request : r.action = "rollback" =>
        r.base = r.target \/ \E c \in Candidate : c.target = r.base /\ c.base = r.target

\* When production is ahead of the source, repeating the publication makes them
\* agree, unless production was latched or an operator took one of them down.
InDoubtResolves ==
    pointer # source ~> \/ pointer = source
                        \/ blocked
                        \/ {pointer, source} \cap cancelled # {}

\* docs/migration-plan-review-2026-08-19.md says that repeating a candidate
\* returns its saved success or "continues safely from the last recoverable
\* step".  A run that died between creating its staging file and renaming it
\* leaves a file of the same name, which every later run refuses.
RetryContinues ==
    \A c \in Candidate : c.id \in results ~> \/ c \in reported
                                             \/ blocked
                                             \/ c.target \in cancelled
=============================================================================
