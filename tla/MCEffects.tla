----------------------------- MODULE MCEffects ------------------------------
(* An instance of Effects: an approval that lapses, and one not valid yet. *)
EXTENDS Effects, TLC

TwoWindows == {<<0, 2>>, <<1, 9>>}
RunnerSymmetry == Permutations(Runners)
=============================================================================
