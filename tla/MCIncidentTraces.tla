-------------------------- MODULE MCIncidentTraces --------------------------
(* IncidentTraces with what traceroute and tracepath print: a route with     *)
(* silent hops that ends at the target, and one that repeats a hop number    *)
(* and does not get there.                                                   *)
EXTENDS IncidentTraces

Line(n, from) == [n |-> n, from |-> from]

MCOutputs(e) ==
  {<<Line(1, Silent), Line(2, Silent), Line(3, e)>>,
   <<Line(1, "r"), Line(1, "r"), Line(2, Silent), Line(3, Silent)>>}

=============================================================================
