----------------------------- MODULE PairedRelease -----------------------------
(***************************************************************************)
(* What a publisher of two hosts promises, without journals or crashes:    *)
(* production goes first, alone and only from a state in which both agree, *)
(* and is then either followed by the source or brought back to it.        *)
(***************************************************************************)
CONSTANTS
    Initial,
    Candidate   \* records with the base and the target of a publication

VARIABLES
    source,     \* the release active on the source
    production  \* the release active on production

vars == <<source, production>>

Init == source = Initial /\ production = Initial

Activate(c) ==
    /\ source = c.base
    /\ production = c.base
    /\ production' = c.target
    /\ UNCHANGED source

Commit(c) ==
    /\ source = c.base
    /\ production = c.target
    /\ source' = c.target
    /\ UNCHANGED production

Undo(c) ==
    /\ source = c.base
    /\ production = c.target
    /\ production' = c.base
    /\ UNCHANGED source

Next == \E c \in Candidate : Activate(c) \/ Commit(c) \/ Undo(c)

Spec == Init /\ [][Next]_vars
=============================================================================
