------------------------------ MODULE MCServer ------------------------------
(* Model-checking instance of the Server over Joe.                         *)
EXTENDS Server, JoeRefinement, TLC


=============================================================================
