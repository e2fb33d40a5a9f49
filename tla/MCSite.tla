-------------------------------- MODULE MCSite --------------------------------
(***************************************************************************)
(* One instance of each of four components behind what readers meet: the   *)
(* database manager of the public API, the page of the Radar, the releases *)
(* of the knowledge section, and the queue that fetches its documents.     *)
(* The component that moves is chosen at the start; the others stay as     *)
(* they began.                                                             *)
(***************************************************************************)
EXTENDS ActiveDatabase, RadarPage, KnowledgeRelease, FetchQueue, TLC

CONSTANTS a, b, c, t1, t2, d1, d2, d3, k1, k2, u1, u2, h

VARIABLE moving

ThreeReleases == {a, b, c}
\* Two publications, one after the other, and the undoing of each.
Activations == {<<a, b>>, <<b, a>>, <<b, c>>, <<c, b>>}

\* The page is opened at the address of a date that has no issue.
AbsentDate == [path |-> d1, period |-> "issue", query |-> NoQuery, rubric |-> FALSE]

\* One page with one statement, a foreign and a native quotation, one idea.
ImportedFirst == [s \in Statements |-> 1]

\* Two documents of one host; the second one's page has two contents.
OneHost == [k \in Docs |-> h]
Pages == k1 :> <<"partial">> @@ k2 :> <<"complete", "complete">>
Downloads == k1 :> 1 @@ k2 :> 2

SiteInit ==
    /\ ManagerInit /\ PageInit /\ ReleaseInit /\ Init
    /\ moving \in {"manager", "page", "knowledge", "queue"}

SiteNext ==
    /\ UNCHANGED moving
    /\ \/ moving = "manager" /\ ManagerNext /\ UNCHANGED <<pageVars, releaseVars, vars>>
       \/ moving = "page" /\ PageNext /\ UNCHANGED <<managerVars, releaseVars, vars>>
       \/ moving = "knowledge" /\ ReleaseNext /\ UNCHANGED <<managerVars, pageVars, vars>>
       \/ moving = "queue" /\ Next /\ UNCHANGED <<managerVars, pageVars, releaseVars>>

SiteSpec ==
    SiteInit /\ [][SiteNext]_<<moving, managerVars, pageVars, releaseVars, vars>>

\* The state of each component is of its kind.
SiteTypeOK == ManagerTypeOK /\ PageTypeOK /\ ReleaseTypeOK /\ TypeOK

SiteSymmetry == Permutations({t1, t2}) \cup Permutations(Operators) \cup Permutations({u1, u2})
=============================================================================
