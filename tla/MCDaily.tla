------------------------------- MODULE MCDaily --------------------------------
(***************************************************************************)
(* The way of one day's issue to production, part by part: the derivation  *)
(* of rows from candidates, the launches of the daily run, and the dual    *)
(* run on one collected snapshot.  The part that moves is chosen at the    *)
(* start; the others stay as they began.                                   *)
(***************************************************************************)
EXTENDS Derivation, DailyRun, DualRun, TLC

CONSTANTS b1, b2, l1, l2

VARIABLE moving

\* A new card; the issue without its first card, so that others move up; without its
\* last; a card named twice; an analysis that cites a card left out.
StartCards == <<1, 3, 2>>
Content(materials, cites, rubric) ==
  [materials |-> materials, cites |-> cites, rubric |-> rubric]
FiveContents == {Content(<<5>>, {5}, 1), Content(<<3, 2>>, {3}, 1), Content(<<1, 3>>, {}, 2),
                 Content(<<3, 3>>, {}, 1), Content(<<1, 3, 5>>, {2}, 1)}
ThreeNames == {<<1, 1>>, <<2, 1>>, <<2, 2>>}

\* A card that belongs into the window and one that does not; in the next version the
\* first one has another text and the second one belongs there, too.
Card(text, eligible) == [text |-> text, eligible |-> eligible]
TwoVersions == <<"a" :> Card(1, TRUE) @@ "x" :> Card(1, FALSE),
                 "a" :> Card(2, TRUE) @@ "x" :> Card(1, TRUE)>>

DailyInit ==
  /\ DerivationInit /\ DailyRunInit /\ DualRunInit
  /\ moving \in {"rows", "launch", "dual"}

DailyNext ==
  /\ UNCHANGED moving
  /\ \/ moving = "rows" /\ DerivationNext /\ UNCHANGED <<dailyVars, dualVars>>
     \/ moving = "launch" /\ DailyRunNext /\ UNCHANGED <<derivationVars, dualVars>>
     \/ moving = "dual" /\ DualRunNext /\ UNCHANGED <<derivationVars, dailyVars>>

DailySpec == DailyInit /\ [][DailyNext]_<<moving, derivationVars, dailyVars, dualVars>>

\* The state of each part is of its kind.
DailyTypeOK == DailyRunTypeOK /\ DualRunTypeOK

DailySymmetry == Permutations({l1, l2})
=============================================================================
