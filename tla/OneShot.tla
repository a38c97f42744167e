------------------------------ MODULE OneShot ------------------------------
(***************************************************************************)
(* What an attempt ledger promises of each attempt: it is spent before its *)
(* worker is called, it is called at most once, and once it is decided     *)
(* nothing more happens to it.                                             *)
(***************************************************************************)
CONSTANT Attempts

VARIABLE phase      \* [Attempts -> {"pending", "spent", "called", "decided"}]

OneShotInit == phase = [a \in Attempts |-> "pending"]

Becomes(a, from, to) ==
    /\ phase[a] \in from
    /\ phase' = [phase EXCEPT ![a] = to]

Spend(a)  == Becomes(a, {"pending"}, "spent")
Call(a)   == Becomes(a, {"spent"}, "called")
Decide(a) == Becomes(a, {"spent", "called"}, "decided")

OneShotNext == \E a \in Attempts : Spend(a) \/ Call(a) \/ Decide(a)

OneShotSpec == OneShotInit /\ [][OneShotNext]_phase
=============================================================================
