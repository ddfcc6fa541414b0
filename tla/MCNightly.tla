----------------------------- MODULE MCNightly -----------------------------
(* A small instance of NightlyReconciliation for TLC. *)
EXTENDS NightlyReconciliation, TLC

CONSTANTS p1, p2, p3

\* Two payments share their reference.
TwoShareRef == [p \in Payment |-> IF p = p3 THEN "own" ELSE "shared"]
Interchangeable == Permutations({p1, p2})

Named(inList, inHook) == [listed |-> inList, told |-> inHook]

\* Both keys everywhere, or no key in the list, for those that share a
\* reference; the other is known by its reference alone.
KeysMissing ==
    [p \in Payment |->
        IF p = p3 THEN {Named({"ref"}, {"ref"})}
        ELSE {Named({"id", "ref"}, {"id", "ref"}), Named({}, {"id"})}]
=============================================================================
