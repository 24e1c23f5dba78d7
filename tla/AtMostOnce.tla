----------------------------- MODULE AtMostOnce -----------------------------
(***************************************************************************)
(* What an operation identifier promises its caller: the first request     *)
(* that commits under it decides its receipt for good, its effects happen  *)
(* once, and every later request under it (a retry after a lost            *)
(* acknowledgement, a second process, a reuse by mistake) changes nothing. *)
(* The native memory kernel and the context store are shown to implement   *)
(* this specification.                                                     *)
(***************************************************************************)
EXTENDS Naturals

CONSTANTS
    Ops,       \* the operation identifiers callers use
    Receipts   \* what a caller may be told

VARIABLES
    receipt,   \* the receipt stored for each operation that committed
    effects    \* how often the effects of each operation were applied

vars == <<receipt, effects>>

Init ==
    /\ receipt = [op \in {} |-> {}]
    /\ effects = [op \in Ops |-> 0]

\* A request that only finds what an earlier one already did is recorded
\* with that one's receipt and has no effects of its own.
Decide(op) ==
    /\ op \notin DOMAIN receipt
    /\ receipt' \in [DOMAIN receipt \cup {op} -> Receipts]
    /\ \A o \in DOMAIN receipt : receipt'[o] = receipt[o]
    /\ \/ effects' = [effects EXCEPT ![op] = 1]
       \/ effects' = effects

Next == \E op \in Ops : Decide(op)

Spec == Init /\ [][Next]_vars
=============================================================================
