------------------------- MODULE MC_PrioritySearch -------------------------
(***************************************************************************)
(* A corridor a - b to a triangle b, c, d, one side of it twice as long,   *)
(* and a slow robot.  The requests: every choice of different start  *)
(* vertices and of up to two goals for two robots, the third one out of    *)
(* scope on its way, standing still or unknown, an edge blocked or none.   *)
(***************************************************************************)
EXTENDS EarliestLegs, TLC

CONSTANTS r1, r2, r3, va, vb, vc, vd

Ranks       == r1 :> 1 @@ r2 :> 2 @@ r3 :> 3
VertexRanks == va :> 1 @@ vb :> 2 @@ vc :> 3 @@ vd :> 4

Both(es) == es \cup {<<e[2], e[1]>> : e \in es}

Triangle == Both({<<va, vb>>, <<vb, vc>>, <<vb, vd>>, <<vd, vc>>})
Lengths  == [e \in Triangle |-> IF e \in Both({<<vb, vc>>}) THEN 2 ELSE 1]
Paces   == r1 :> 1 @@ r2 :> 2 @@ r3 :> 1

Unknown == [steps |-> <<>>, arrival |-> <<>>]
KeptPlans ==
    { Unknown, [steps |-> <<vd>>, arrival |-> <<0>>],
      [steps |-> <<vd, vb, vc>>, arrival |-> <<0, 1, 3>>] }

GoalLists == {<<>>} \cup {<<v>> : v \in Vertices} \cup {<<vc, va>>, <<vd, vb>>}

SearchRequests ==
    {[scope   |-> {r1, r2},
      start   |-> r1 :> x @@ r2 :> y @@ r3 :> vd,
      goals   |-> r1 :> g @@ r2 :> h @@ r3 :> <<>>,
      blocked |-> cut,
      kept    |-> r1 :> Unknown @@ r2 :> Unknown @@ r3 :> k] :
        x \in {va, vb}, y \in {vc, vd}, g \in GoalLists, h \in GoalLists,
        cut \in {{}, {<<vb, vc>>}}, k \in KeptPlans}

=============================================================================
