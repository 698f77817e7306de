---------------------------- MODULE MCTopology ----------------------------
(***************************************************************************)
(* Routes for Topology: to a, over silent hops and the router, or over b;  *)
(* to b, over the router.  Requests' slots are alike.                      *)
(***************************************************************************)
EXTENDS Topology

CONSTANTS a, b

MCRoutes ==
  a :> {<<Silent, Silent, "r", a>>, <<b, a>>} @@ b :> {<<"r", b>>}

Symmetric == Permutations(Requests)
=============================================================================
