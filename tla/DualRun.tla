------------------------------- MODULE DualRun --------------------------------
(***************************************************************************)
(* One collected snapshot, copied for the Legacy branch and for the V2     *)
(* branch; each branch runs on its own attested copy, Legacy first; the    *)
(* Legacy tree is sealed and hashed around the V2 run; the comparison is   *)
(* written when both copies still attest the same bytes.  The process may  *)
(* die between two steps and be started again on the same run root, and    *)
(* something of the same account may write into any of the three places.   *)
(***************************************************************************)
EXTENDS Naturals, FiniteSets

CONSTANTS
  MaxWrites,     \* bound: foreign writes
  MaxRestarts    \* bound: deaths of the process

VARIABLES
  snapshot,     \* bytes of the snapshot in its store
  tree,         \* what each branch root holds
  fork,         \* what the process knows of each branch's copy
  execution,    \* what it knows of each branch's run
  consumed,     \* bytes each runner really read
  legacyHash,   \* hash of the sealed Legacy tree
  comparison,   \* the saved comparison
  pc, writes, restarts

dualVars == <<snapshot, tree, fork, execution, consumed, legacyHash, comparison, pc,
              writes, restarts>>

Branches == {"legacy", "v2"}
\* Bytes: those collected, others that are a well-formed snapshot under the same name, or
\* bytes whose own hashes do not agree.
Bytes == {"collected", "other", "damaged"}
Identity == "collected"
Nothing == "nothing"
NoTree == [made |-> FALSE, input |-> Nothing, attests |-> Nothing]
EmptyTree == [NoTree EXCEPT !.made = TRUE]
NotRun == [status |-> "none", identity |-> Nothing]

DualRunInit ==
  /\ snapshot = Nothing
  /\ tree = [b \in Branches |-> NoTree]
  /\ fork = [b \in Branches |-> Nothing]
  /\ execution = [b \in Branches |-> NotRun]
  /\ consumed = [b \in Branches |-> Nothing]
  /\ legacyHash = NoTree
  /\ comparison = [b \in Branches |-> "none"]
  /\ pc = <<"create", "both">> /\ writes = 0 /\ restarts = 0

At(label, b) == pc = <<label, b>>
Goto(label, b) == pc' = <<label, b>>
Stop == Goto("stopped", "both")
Verifies(bytes) == bytes \in {"collected", "other"}

\* Published under its name without replacing anything, then read back.
CreateSnapshot ==
  /\ At("create", "both")
  /\ IF snapshot = Nothing THEN snapshot' = "collected" /\ Goto("open", "both")
     ELSE Stop /\ UNCHANGED snapshot
  /\ UNCHANGED <<tree, fork, execution, consumed, legacyHash, comparison, writes, restarts>>

\* A process that is started again opens the snapshot that is there.
OpenSnapshot ==
  /\ At("open", "both")
  /\ IF snapshot = Identity THEN Goto("fork", "legacy") ELSE Stop
  /\ UNCHANGED <<snapshot, tree, fork, execution, consumed, legacyHash, comparison, writes, restarts>>

NextFork(b) == IF b = "legacy" THEN Goto("fork", "v2") ELSE Goto("run", "legacy")
ForkFails(b) == fork' = [fork EXCEPT ![b] = Nothing] /\ NextFork(b)

\* consume_snapshot_for_branch: the source is verified and a branch root is made, once.
MakeBranch(b) ==
  /\ At("fork", b)
  /\ IF snapshot = Identity /\ ~tree[b].made
     THEN /\ tree' = [tree EXCEPT ![b] = EmptyTree]
          /\ Goto("copy", b)
          /\ UNCHANGED fork
     ELSE ForkFails(b) /\ UNCHANGED tree
  /\ UNCHANGED <<snapshot, execution, consumed, legacyHash, comparison, writes, restarts>>

\* The bytes verified before are what is copied.
CopySnapshot(b) ==
  /\ At("copy", b)
  /\ tree' = [tree EXCEPT ![b].input = Identity]
  /\ Goto("attest", b)
  /\ UNCHANGED <<snapshot, fork, execution, consumed, legacyHash, comparison, writes, restarts>>

WriteAttestation(b) ==
  /\ At("attest", b)
  /\ tree' = [tree EXCEPT ![b].attests = Identity]
  /\ Goto("attested", b)
  /\ UNCHANGED <<snapshot, fork, execution, consumed, legacyHash, comparison, writes, restarts>>

\* verify_consumption_attestation: the copy verifies and is what the attestation names.
Attested(b) ==
  /\ tree[b].made /\ Verifies(tree[b].input) /\ tree[b].attests = tree[b].input

FinishFork(b) ==
  /\ At("attested", b)
  /\ fork' = [fork EXCEPT ![b] = IF Attested(b) /\ tree[b].input = Identity THEN Identity ELSE Nothing]
  /\ NextFork(b)
  /\ UNCHANGED <<snapshot, tree, execution, consumed, legacyHash, comparison, writes, restarts>>

-----------------------------------------------------------------------------
\* _execute_branch attests once more before the runner is called ...
StartRunner(b) ==
  LET ready == fork[b] # Nothing /\ Attested(b) /\ tree[b].input = fork[b]
  IN  /\ At("run", b)
      /\ execution' = [execution EXCEPT ![b] =
           IF ready THEN [status |-> "running", identity |-> tree[b].input]
           ELSE [status |-> "blocked", identity |-> Nothing]]
      /\ CASE ready -> Goto("read", b)
           [] ~ready /\ b = "legacy" -> Goto("seal", b)
           [] OTHER -> Goto("hash", b)
      /\ UNCHANGED <<snapshot, tree, fork, consumed, legacyHash, comparison, writes, restarts>>

\* ... which reads its copy, then answers or fails; V2 must not have published.
RunBranch(b) ==
  /\ At("read", b)
  /\ consumed' = [consumed EXCEPT ![b] = tree[b].input]
  /\ \E status \in {"success", "failed"} :
       execution' = [execution EXCEPT ![b].status = status]
  /\ Goto(IF b = "legacy" THEN "baseline" ELSE "hash", b)
  /\ UNCHANGED <<snapshot, tree, fork, legacyHash, comparison, writes, restarts>>

\* Legacy's output is compared with its baseline; a success that differs is a failure.
CheckBaseline ==
  /\ At("baseline", "legacy")
  /\ \E matches \in BOOLEAN :
       execution' = IF matches THEN execution ELSE [execution EXCEPT !["legacy"].status = "failed"]
  /\ Goto("seal", "legacy")
  /\ UNCHANGED <<snapshot, tree, fork, consumed, legacyHash, comparison, writes, restarts>>

\* The tree is sealed and hashed; without a workspace there is nothing to protect, and
\* without a seal V2 does not run.
SealLegacy ==
  /\ At("seal", "legacy")
  /\ \/ /\ legacyHash' = IF fork["legacy"] # Nothing THEN tree["legacy"] ELSE NoTree
        /\ Goto("run", "v2")
        /\ UNCHANGED execution
     \/ /\ fork["legacy"] # Nothing
        /\ execution' = [execution EXCEPT !["v2"] = [status |-> "blocked", identity |-> Nothing]]
        /\ Goto("compare", "both")
        /\ UNCHANGED legacyHash
  /\ UNCHANGED <<snapshot, tree, fork, consumed, comparison, writes, restarts>>

CheckIsolation ==
  /\ At("hash", "v2")
  /\ execution' = IF legacyHash.made /\ legacyHash # tree["legacy"]
                  THEN [execution EXCEPT !["v2"].status = "failed"] ELSE execution
  /\ Goto("compare", "both")
  /\ UNCHANGED <<snapshot, tree, fork, consumed, legacyHash, comparison, writes, restarts>>

-----------------------------------------------------------------------------
\* Variant: the attestations of the fork are believed.
ComparableOnce ==
  \A b \in Branches : fork[b] = Identity /\ execution[b].identity = Identity

\* build_daily_comparison: both copies attest again, and are those of the fork and of the
\* executions.
Comparable ==
  \A b \in Branches : /\ fork[b] = Identity /\ Attested(b) /\ tree[b].input = Identity
                      /\ execution[b].identity = Identity

WriteComparison ==
  /\ At("compare", "both")
  /\ comparison' = IF Comparable /\ \A b \in Branches : comparison[b] = "none"
                   THEN [b \in Branches |-> execution[b].status] ELSE comparison
  /\ Stop
  /\ UNCHANGED <<snapshot, tree, fork, execution, consumed, legacyHash, writes, restarts>>

-----------------------------------------------------------------------------
\* A buggy runner, or another process of the account, rewrites a file.
ForeignWrite ==
  /\ writes < MaxWrites
  /\ \/ /\ snapshot # Nothing
        /\ snapshot' \in Bytes /\ UNCHANGED tree
     \/ \E b \in Branches, bytes \in Bytes :
          /\ \/ tree[b].input # Nothing /\ tree' = [tree EXCEPT ![b].input = bytes]
             \/ tree[b].attests # Nothing /\ tree' = [tree EXCEPT ![b].attests = bytes]
          /\ UNCHANGED snapshot
  /\ writes' = writes + 1
  /\ UNCHANGED <<fork, execution, consumed, legacyHash, comparison, pc, restarts>>

\* The process dies and is started again: what it knew is gone, the trees are there.
Restart ==
  /\ restarts < MaxRestarts /\ ~At("create", "both")
  /\ fork' = [b \in Branches |-> Nothing]
  /\ execution' = [b \in Branches |-> NotRun]
  /\ consumed' = [b \in Branches |-> Nothing]
  /\ legacyHash' = NoTree
  /\ restarts' = restarts + 1
  /\ \E again \in {"create", "open"} : Goto(again, "both")
  /\ UNCHANGED <<snapshot, tree, comparison, writes>>

DualRunNext ==
  \/ CreateSnapshot \/ OpenSnapshot
  \/ \E b \in Branches :
       \/ MakeBranch(b) \/ CopySnapshot(b) \/ WriteAttestation(b) \/ FinishFork(b)
       \/ StartRunner(b) \/ RunBranch(b)
  \/ CheckBaseline \/ SealLegacy \/ CheckIsolation \/ WriteComparison
  \/ ForeignWrite \/ Restart

DualRunSpec == DualRunInit /\ [][DualRunNext]_dualVars

DualRunTypeOK ==
  LET Trees == [made : BOOLEAN, input : Bytes \cup {Nothing}, attests : Bytes \cup {Nothing}]
  IN  /\ snapshot \in Bytes \cup {Nothing}
      /\ legacyHash \in Trees /\ tree \in [Branches -> Trees]
      /\ fork \in [Branches -> {Nothing, Identity}]
      /\ writes \in 0..MaxWrites /\ restarts \in 0..MaxRestarts

\* When the comparison is written, both runners have read exactly the bytes that were
\* collected, whatever single file was written behind the process's back
\* (verify_consumption_attestation before each run and again before the report).
SameInput ==
  [][comparison' # comparison => \A b \in Branches : consumed[b] = Identity]_comparison
=============================================================================
