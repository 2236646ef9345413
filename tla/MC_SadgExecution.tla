------------------------- MODULE MC_SadgExecution -------------------------
(***************************************************************************)
(* Small fleets for SadgExecution.  The plans are written out: steps per   *)
(* robot, then the visit order of every location visited twice.  OnPlan    *)
(* takes each of them at any time, or passes it over.                      *)
(***************************************************************************)
EXTENDS SadgExecution, TLC

CONSTANTS r1, r2, r3, a, b, c, d, f

At(r, i) == [robot |-> r, index |-> i]
Visit(v, s) == [location |-> v, sequence |-> s]

NoEdges  == {}
OneBlock == {<<a, b>>}

-----------------------------------------------------------------------------
(* Three robots.  r1 crosses b before r2 enters the location r1 started    *)
(* from (an opposing dependency); r3 follows r2 to d.                      *)
StartConvoy == r1 :> a @@ r2 :> d @@ r3 :> f

Convoy ==
    [steps  |-> r1 :> <<a, b, c>> @@ r2 :> <<d, b, a>> @@ r3 :> <<f, d>>,
     visits |-> << Visit(a, <<At(r1, 0), At(r2, 2)>>),
                   Visit(b, <<At(r1, 1), At(r2, 1)>>),
                   Visit(d, <<At(r2, 0), At(r3, 1)>>) >>]

\* r1 overtakes r3 on the edge d -> f: the H-cons intake refuses it
Overtaking ==
    [steps  |-> r1 :> <<c, d, f>> @@ r2 :> <<a>> @@ r3 :> <<d, f>>,
     visits |-> << Visit(d, <<At(r3, 0), At(r1, 1)>>),
                   Visit(f, <<At(r1, 2), At(r3, 1)>>) >>]

ConvoyThenRefused == <<Convoy, Overtaking>>

-----------------------------------------------------------------------------
(* Two robots.  A plan sends r1 to b; from the middle of that move or from *)
(* its end, and perhaps after a plan that is refused, both are to cross a, *)
(* r2 last on the edge r1 comes from.                                      *)
StartApproach == r1 :> a @@ r2 :> c

Approach == [steps |-> r1 :> <<a, b>> @@ r2 :> <<c>>, visits |-> <<>>]

OvertakingPair ==
    [steps  |-> r1 :> <<b, a, d>> @@ r2 :> <<c, a, d>>,
     visits |-> << Visit(a, <<At(r1, 1), At(r2, 1)>>),
                   Visit(d, <<At(r2, 2), At(r1, 2)>>) >>]

Crossing ==
    [steps  |-> r1 :> <<b, a, d>> @@ r2 :> <<c, a, b>>,
     visits |-> << Visit(a, <<At(r1, 1), At(r2, 1)>>),
                   Visit(b, <<At(r1, 0), At(r2, 2)>>) >>]

ReplanInMotion == <<Approach, OvertakingPair, Crossing>>

-----------------------------------------------------------------------------
(* Two robots: r1 goes through b before r2 stops there.                    *)
StartThrough == r1 :> a @@ r2 :> d

Through ==
    [steps  |-> r1 :> <<a, b, c>> @@ r2 :> <<d, b>>,
     visits |-> << Visit(b, <<At(r1, 1), At(r2, 1)>>) >>]

\* from its end both go back, under the same segment names
Back ==
    [steps  |-> r1 :> <<c, b, d>> @@ r2 :> <<b, a>>,
     visits |-> << Visit(b, <<At(r2, 0), At(r1, 1)>>) >>]

ThereAndBack == <<Through, Back>>

\* the same goals are assigned again, planned from where the robots began
ThroughAgain == <<Through, Through>>

\* r2 is to enter c after r1, which has its last step there
Parked ==
    [steps  |-> r1 :> <<a, c>> @@ r2 :> <<d, b>>,
     visits |-> << Visit(c, <<At(r1, 1), At(r2, 1)>>) >>]

ThenParked == <<Through, Parked>>
=============================================================================
