----------------------------- MODULE MCSessions -----------------------------
(* The workers of Sessions are interchangeable. *)
EXTENDS Sessions

Symmetric == Permutations(Workers)
=============================================================================
