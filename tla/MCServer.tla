------------------------------ MODULE MCServer ------------------------------
(* Model-checking instance of Server: engineers and connections are each   *)
(* interchangeable. *)
EXTENDS Server, TLC

NodeSymmetry == Permutations(Users) \cup Permutations(Handlers)
=============================================================================
