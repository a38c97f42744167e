--------------------------- MODULE DurableEffect ---------------------------
(***************************************************************************)
(* What the publication path promises, without journals, workers or        *)
(* messages.  An attempt is declared durably, with the one intent it is    *)
(* for; only then may its external effect happen, at most once; and it is  *)
(* confirmed only when an effect for its intent exists.                    *)
(***************************************************************************)
EXTENDS Naturals

CONSTANTS
    Rows,       \* attempts
    Intents,    \* what an attempt may publish
    NoIntent    \* the intent of an attempt that is not declared

VARIABLES
    declared,   \* [Rows -> Intents \cup {NoIntent}]
    effects,    \* [Rows \X Intents -> Nat], external effects made so far
    confirmed   \* the attempts reported as published

abstractVars == <<declared, effects, confirmed>>

AbstractInit ==
    /\ declared = [r \in Rows |-> NoIntent]
    /\ effects = [x \in Rows \X Intents |-> 0]
    /\ confirmed = {}

Declare(r, i) ==
    /\ declared[r] = NoIntent
    /\ declared' = [declared EXCEPT ![r] = i]
    /\ UNCHANGED <<effects, confirmed>>

Effect(r, i) ==
    /\ declared[r] = i
    /\ effects[<<r, i>>] = 0
    /\ effects' = [effects EXCEPT ![<<r, i>>] = 1]
    /\ UNCHANGED <<declared, confirmed>>

Confirm(r, i) ==
    /\ declared[r] = i
    /\ r \notin confirmed
    /\ \E s \in Rows : effects[<<s, i>>] > 0
    /\ confirmed' = confirmed \cup {r}
    /\ UNCHANGED <<declared, effects>>

AbstractNext ==
    \E r \in Rows, i \in Intents : Declare(r, i) \/ Effect(r, i) \/ Confirm(r, i)

AbstractSpec == AbstractInit /\ [][AbstractNext]_abstractVars
=============================================================================
