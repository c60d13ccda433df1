---- MODULE MCDataLayer ----
(* Model-checking instance of DataLayer: the handlers are interchangeable. *)
EXTENDS DataLayer, TLC

HandlerSymmetry == Permutations(Handlers)
====
