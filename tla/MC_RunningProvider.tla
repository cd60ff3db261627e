---------------------------- MODULE MC_RunningProvider ----------------------------
(* Callers of one provider; Nobody is a model value. *)
EXTENDS RunningProvider, TLC

CONSTANTS a, b

TwoCallers == {a, b}
OneCaller  == {a}
Alike      == Permutations(TwoCallers)
=============================================================================
