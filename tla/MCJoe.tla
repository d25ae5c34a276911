------------------------------- MODULE MCJoe -------------------------------
(* Model-checking instance of Joe: the constants are given in the .cfg     *)
(* files; Symmetry permutes the model values, for the safety runs.          *)
EXTENDS Joe, TLC

Symmetry == Permutations(Clients) \cup Permutations(Msgs)
              \cup Permutations(Topics) \cup Permutations(Stoppers)
=============================================================================
