-------------------------- MODULE MC_MapfPlanning --------------------------
(* Instances of MapfPlanning.  A corridor a - b - c with a siding d at b.  *)
EXTENDS MapfPlanning

CONSTANTS r1, r2, a, b, c, d

Both(edges) == edges \cup {<<e[2], e[1]>> : e \in edges}

MCRank == r1 :> 1 @@ r2 :> 2

MCCorridor == Both({<<a, b>>, <<b, c>>})
MCSiding   == Both({<<a, b>>, <<b, c>>, <<b, d>>})

\* the robots face each other; then r1 has come to stand on r2's vertex,
\* which no plan can start from; then they have changed places
MCAssignments ==
    << r1 :> a @@ r2 :> c, r1 :> c @@ r2 :> c, r1 :> b @@ r2 :> a >>

MCOneAssignment == << r1 :> a @@ r2 :> b >>
=============================================================================
