---------------------------- MODULE ReleaseRegister ----------------------------
(***************************************************************************)
(* What the activation boundary of the production host promises its        *)
(* caller, without files, locks or processes: one register that names the  *)
(* active release and moves only along the requests the host was given,    *)
(* and never forward to a release an operator has taken down.              *)
(***************************************************************************)
CONSTANTS
    Release, Initial,
    Forward,    \* pairs <<base, target>> a publication may activate
    Backward    \* pairs <<base, target>> an operator may roll back

VARIABLES
    active,     \* the active release
    takenDown   \* releases an operator cancelled

vars == <<active, takenDown>>

Init == active = Initial /\ takenDown = {}

\* A publication replaces exactly the release it was built on.
Publish(base, target) ==
    /\ <<base, target>> \in Forward
    /\ active = base
    /\ target \notin takenDown
    /\ active' = target
    /\ UNCHANGED takenDown

\* An unproven publication is undone; the host may go no further than that.
Undo(base, target) ==
    /\ <<base, target>> \in Forward
    /\ active = target
    /\ active' = base
    /\ UNCHANGED takenDown

TakeDown(base, target) ==
    /\ <<base, target>> \in Backward
    /\ base # target
    /\ takenDown' = takenDown \cup {base}
    /\ UNCHANGED active

\* The decision is on record before the pointer follows it.
RollBack(base, target) ==
    /\ <<base, target>> \in Backward
    /\ base = target \/ base \in takenDown
    /\ active = base
    /\ active' = target
    /\ UNCHANGED takenDown

Next == \E b, t \in Release :
    Publish(b, t) \/ Undo(b, t) \/ TakeDown(b, t) \/ RollBack(b, t)

Spec == Init /\ [][Next]_vars
=============================================================================
