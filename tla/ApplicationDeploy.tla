-------------------------- MODULE ApplicationDeploy --------------------------
(***************************************************************************)
(* deploy_application_release: a package is staged on both endpoints, its  *)
(* migrations are applied to copies of the active databases, and then      *)
(* three references per endpoint are switched one after the other, undone, *)
(* and switched again (local_release.py, migration.py, migrations.py).     *)
(*                                                                         *)
(* One deployment runs at a time, under radar-mutation.lock of its work    *)
(* root.  Nothing records how far it came: a deployment that is killed     *)
(* leaves the references as they are, and the next one starts from them.   *)
(***************************************************************************)
EXTENDS Naturals, Sequences, FiniteSets

CONSTANTS
    Deployments,    \* approved packages: [app, stamp]
    Bundle,         \* the migrations a package carries, [apps -> versions]
    MaxRuns,        \* bound: runs of deploy_application_release
    MaxKills        \* bound: runs that are killed

Apps == {d.app : d \in Deployments}
Baseline == "baseline"      \* install_initial_application
NoDatabase == [rows |-> {}]
Endpoint == {"source", "production"}
Part == {"content", "api", "web"}

ASSUME DeploymentsAssumption ==
    /\ \A d \in Deployments : d.stamp \in Nat /\ Baseline # d.app
    /\ DOMAIN Bundle = Apps
    /\ {MaxRuns, MaxKills} \subseteq Nat

VARIABLES
    active,         \* what each endpoint serves, [Endpoint -> [Part -> app]]
    databases,      \* [Endpoint -> [names -> rows and migrations]]
    stale,          \* unfinished .active.<sha>.next files
    run,            \* the deployment in progress
    runs, kills     \* counters

deployVars == <<active, databases, stale, run, runs, kills>>

----------------------------------------------------------------------------
Names == Apps \cup {Baseline}
Idle == [phase |-> "idle"]
Served(t) == databases[t][active[t].content]
Stamps(db) == {row.stamp : row \in db.rows}

\* The order of activation, and that of _rollback_target with production first.
Forward == <<<<"source", "content">>, <<"source", "api">>, <<"source", "web">>,
             <<"source", "smoke">>, <<"production", "content">>, <<"production", "api">>,
             <<"production", "web">>, <<"production", "smoke">>>>
Backward == <<<<"production", "web">>, <<"production", "api">>, <<"production", "content">>,
              <<"production", "smoke">>, <<"source", "web">>, <<"source", "api">>,
              <<"source", "content">>, <<"source", "smoke">>>>

Preparing == {"copy", "migrate", "compatibility", "parity"}
Activating == {"activate", "reactivate"}
Restoring == {"undo", "prove", "proveAgain", "undoAgain"}
Phase == {"idle"} \cup Preparing \cup Activating \cup Restoring

DeployTypeOK ==
    /\ active \in [Endpoint -> [Part -> Names]]
    /\ \A t \in Endpoint : /\ DOMAIN databases[t] = Names
                           /\ \A n \in Names : databases[t][n].rows \subseteq Deployments
    /\ stale \subseteq Endpoint \X Names
    /\ run.phase \in Phase
    /\ run.phase \in Activating \cup Restoring => run.step \in 1..8
    /\ runs \in 0..MaxRuns /\ kills \in 0..MaxKills

DeployInit ==
    /\ active = [t \in Endpoint |-> [p \in Part |-> Baseline]]
    /\ databases = [t \in Endpoint |-> [n \in Names |->
          IF n = Baseline THEN [rows |-> {}, versions |-> {}] ELSE NoDatabase]]
    /\ stale = {} /\ run = Idle /\ runs = 0 /\ kills = 0

----------------------------------------------------------------------------
(* _prepare_target on one endpoint after the other.                        *)

Begin(d) ==
    /\ run = Idle
    /\ runs < MaxRuns /\ runs' = runs + 1
    /\ run' = [phase |-> "copy", at |-> "source", deployment |-> d,
               previous |-> [t \in {} |-> 0], applied |-> [t \in {} |-> 0]]
    /\ UNCHANGED <<active, databases, stale, kills>>

\* The run raises; the lock is released.
Fail == run' = Idle

Extended(f, t, value) == [x \in DOMAIN f \cup {t} |-> IF x = t THEN value ELSE f[x]]

\* What is active is remembered, and the active database is copied to the name
\* of this application, unless a file of that name is there.
Copy ==
    LET t == run.at  app == run.deployment.app IN
    /\ run.phase = "copy"
    /\ databases' = IF databases[t][app] = NoDatabase
                    THEN [databases EXCEPT ![t][app] = Served(t)] ELSE databases
    /\ run' = [run EXCEPT !.phase = "migrate", !.previous = Extended(@, t, active[t])]
    /\ UNCHANGED <<active, stale, runs, kills>>

\* apply_migrations, one transaction.
Migrate ==
    LET t == run.at  app == run.deployment.app  db == databases[t][app] IN
    /\ run.phase = "migrate"
    /\ IF db.versions \subseteq Bundle[app]
       THEN /\ databases' = [databases EXCEPT ![t][app].versions = Bundle[app]]
            /\ run' = [run EXCEPT !.phase = "compatibility",
                                  !.applied = Extended(@, t, Bundle[app] \ db.versions)]
       ELSE Fail /\ UNCHANGED databases
    /\ UNCHANGED <<active, stale, runs, kills>>

\* _install_compatibility: the row is there already, or it is the latest.
AcceptsCompatibility(db, d) ==
    \/ d \in db.rows
    \/ /\ \A row \in db.rows : row.app # d.app
       /\ \A stamp \in Stamps(db) : stamp < d.stamp

Compatibility ==
    LET t == run.at  d == run.deployment  db == databases[t][d.app] IN
    /\ run.phase = "compatibility"
    /\ IF AcceptsCompatibility(db, d)
       THEN /\ databases' = [databases EXCEPT ![t][d.app].rows = @ \cup {d}]
            /\ run' = IF t = "source" THEN [run EXCEPT !.phase = "copy", !.at = "production"]
                      ELSE [run EXCEPT !.phase = "parity"]
       ELSE Fail /\ UNCHANGED databases
    /\ UNCHANGED <<active, stale, runs, kills>>

\* Variant: what the two migrations report is not compared.
NoParity == TRUE

\* _assert_migration_parity.
Parity ==
    LET app == run.deployment.app IN
    /\ run.applied["source"] = run.applied["production"]
    /\ databases["source"][app] = databases["production"][app]

CheckParity ==
    /\ run.phase = "parity"
    /\ IF Parity
       THEN run' = [phase |-> "activate", step |-> 1, deployment |-> run.deployment,
                    previous |-> run.previous]
       ELSE Fail
    /\ UNCHANGED <<active, databases, stale, runs, kills>>

\* An artifact, a file or a check is not what it should be.
PreparationFails ==
    /\ run.phase \in Preparing
    /\ Fail
    /\ UNCHANGED <<active, databases, stale, runs, kills>>

----------------------------------------------------------------------------
(* _activate_target and _rollback_target.                                  *)

New == run.deployment.app
PointerPlace == IF run.phase \in Activating THEN Forward[run.step] ELSE Backward[run.step]
At == PointerPlace[1]
Slot == PointerPlace[2]
Wanted == IF run.phase \in Activating THEN New ELSE run.previous[At][Slot]

\* What follows when all steps of a phase are done, and when one of them fails.
\* prove_rollback undoes a complete activation once and makes it again.
NextPhase ==
    CASE run.phase = "activate" -> "prove"
      [] run.phase = "prove" -> "reactivate"
      [] OTHER -> "idle"
FailurePhase ==
    CASE run.phase = "activate" -> "undo"
      [] run.phase = "prove" -> "proveAgain"
      [] run.phase = "reactivate" -> "undoAgain"
      [] OTHER -> "idle"

GoTo(phase) ==
    run' = IF phase = "idle" THEN Idle ELSE [run EXCEPT !.phase = phase, !.step = 1]

Advance == IF run.step < 8 THEN run' = [run EXCEPT !.step = @ + 1] ELSE GoTo(NextPhase)

\* _replace_content_pointer and _replace_current, after the comparison with
\* what the reference should be: a rollback leaves alone what is not its own.
MayReplace ==
    /\ IF run.phase \in Activating THEN active[At][Slot] = run.previous[At][Slot]
       ELSE active[At][Slot] = New
    /\ Slot = "content" => <<At, Wanted>> \notin stale

Replace ==
    /\ run.phase \in Activating \cup Restoring
    /\ Slot # "smoke"
    /\ MayReplace
    /\ active' = [active EXCEPT ![At][Slot] = Wanted]
    /\ \/ Advance
       \/ GoTo(FailurePhase)      \* fsync fails after the rename
    /\ UNCHANGED <<databases, stale, runs, kills>>

Skip ==
    /\ run.phase \in Restoring
    /\ Slot # "smoke" /\ active[At][Slot] # New
    /\ Advance
    /\ UNCHANGED <<active, databases, stale, runs, kills>>

\* _smoke_new and _smoke_previous can succeed only in the state they expect.
SmokeHolds ==
    IF run.phase \in Activating
    THEN /\ \A p \in Part : active[At][p] = New
         /\ \A stamp \in Stamps(Served(At)) : stamp <= run.deployment.stamp
    ELSE active[At] = run.previous[At]

Smoke ==
    /\ run.phase \in Activating \cup Restoring
    /\ Slot = "smoke" /\ SmokeHolds
    /\ Advance
    /\ UNCHANGED <<active, databases, stale, runs, kills>>

StepFails ==
    /\ run.phase \in Activating \cup Restoring
    /\ GoTo(FailurePhase)
    /\ UNCHANGED <<active, databases, stale, runs, kills>>

\* The process is killed: between two steps, or while it writes the staging
\* file of a content pointer.
Kill ==
    /\ run # Idle
    /\ kills < MaxKills /\ kills' = kills + 1
    /\ run' = Idle
    /\ stale' \in {stale} \cup
          (IF run.phase \in Activating \cup Restoring /\ Slot = "content" /\ MayReplace
           THEN {stale \cup {<<At, Wanted>>}} ELSE {})
    /\ UNCHANGED <<active, databases, runs>>

Deploy ==
    \/ \E d \in Deployments : Begin(d)
    \/ Copy \/ Migrate \/ Compatibility \/ CheckParity \/ PreparationFails
    \/ Replace \/ Skip \/ Smoke \/ StepFails \/ Kill

DeploySpec == DeployInit /\ [][Deploy]_deployVars

----------------------------------------------------------------------------
\* An endpoint never serves a database whose migrations or whose compatibility
\* row are missing, whatever was killed between the copy, the two transactions
\* and the switches, and although a retry migrates files that are there.
ServedIsMigrated ==
    \A t \in Endpoint :
        LET app == active[t].content IN
        app # Baseline =>
            /\ databases[t][app].versions = Bundle[app]
            /\ \E row \in databases[t][app].rows : row.app = app

\* A deployment that ends with its last smoke leaves both endpoints on the new
\* application with equal databases, or both as it found them: whatever step
\* failed before, and whatever earlier deployments left behind when killed.
EndsAsAWhole ==
    [][Smoke /\ run' = Idle =>
          \/ active' = run.previous
          \/ /\ active' = [t \in Endpoint |-> [p \in Part |-> New]]
             /\ databases["source"][New] = databases["production"][New]]_deployVars

\* Any fault restores and proves both previous targets before another deploy
\* may proceed (v2/README.md).
RestoredBeforeNext ==
    [][run = Idle /\ run'.phase = "copy" => active["source"] = active["production"]]_deployVars
=============================================================================
