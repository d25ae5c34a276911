--------------------------- MODULE MCJoeRefinement ---------------------------
(* Model-checking instance of Joe's refinement of PubSub.                  *)
EXTENDS JoeRefinement, TLC

(* Clients, messages, topics and stoppers are interchangeable.              *)
RefinementSymmetry ==
  Permutations(Clients) \cup Permutations(Msgs) \cup Permutations(Topics)
  \cup Permutations(Stoppers)

=============================================================================
