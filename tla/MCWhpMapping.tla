---- MODULE MCWhpMapping ----
(* Model-checking instance of WhpMapping. *)
EXTENDS WhpMapping
====
