--------------------------- MODULE MC_Assignment ---------------------------
(***************************************************************************)
(* Small instances for Assignment: robots on a line of five endpoints one  *)
(* metre apart, queues of two goals.                                       *)
(***************************************************************************)
EXTENDS Assignment, TLC

CONSTANTS va, vb, vc, vd, ve

Line == <<va, vb, vc, vd, ve>>

Metres(i, j) == 1000 * (IF i < j THEN j - i ELSE i - j)

LineDist == [pair \in Locations \X Locations |->
               LET at(v) == CHOOSE i \in DOMAIN Line : Line[i] = v
               IN  Metres(at(pair[1]), at(pair[2]))]

Ends == 1 :> va @@ 2 :> ve @@ 3 :> vc

\* pick-up and delivery tasks that compete for endpoints and for capacity
SixTasks   == << <<vb, vc>>, <<vd>>, <<vc, va>>, <<ve, vb>>, <<vd>>, <<va, ve>> >>
ThreeTasks == << <<vb, vc>>, <<vc, vd>>, <<va>> >>

NoMessages == {}
NoPairs    == {}

Show(r, n, v) == [robot |-> r, seq |-> n, active |-> TRUE, location |-> v]
Hide(r, n, v) == [robot |-> r, seq |-> n, active |-> FALSE, location |-> v]

\* an override of robot 1, its end, and one message that carries an older
\* command again with a newer one that no goal id is known for
Overrides == { << Show(1, 0, ve) >>, << Hide(1, 1, ve) >>,
               << Show(1, 2, vd), Hide(1, 1, ve) >> }
Known     == { <<1, ve>> }
=============================================================================
