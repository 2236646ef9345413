----------------------------- MODULE VisitOrder -----------------------------
(***************************************************************************)
(* What a discrete plan asks of a fleet, as if everybody saw everything at *)
(* once: a robot may leave its location at any time, and enters the next   *)
(* one of its path when every earlier visit of that location, in the order *)
(* the plan gives, is over.  A plan may take over at any time; a robot     *)
(* between two locations then finishes its move first.  There is no server *)
(* here, no segment, no dependency, no message: SadgExecution implements   *)
(* this with all of them.                                                  *)
(***************************************************************************)
EXTENDS Integers, Sequences

CONSTANTS
    Robots,
    Start,     \* where each robot stands before the first plan
    Plans,     \* the discrete plans that may come, in order (see SadgCompiler)
    Accepted   \* the numbers of those that may be put in force

VARIABLES
    plan,      \* the plan in force, 0 before the first one
    pos,       \* index of the last location of its path a robot has reached,
               \* -1 while it ends a move begun under an earlier plan
    moving,    \* between two locations or not
    at,        \* the location a robot stands on or left last
    heads,     \* the location a robot stands on or heads for
    settled    \* nothing of an earlier plan interferes with the plan in force

vars == <<plan, pos, moving, at, heads, settled>>

Init ==
    /\ plan = 0
    /\ pos = [r \in Robots |-> 0]
    /\ moving = [r \in Robots |-> FALSE]
    /\ at = Start /\ heads = Start
    /\ settled = TRUE

Path(r) == Plans[plan].steps[r]

\* the robot's visit with index i is over
Left(r, i) == pos[r] > i \/ (pos[r] = i /\ moving[r])

\* every visit before r's next one is over, at the location r is to enter
HasItsTurn(r) ==
    \A e \in DOMAIN Plans[plan].visits :
       LET s == Plans[plan].visits[e].sequence
       IN  \A m, n \in DOMAIN s :
              m < n /\ s[n].robot = r /\ s[n].index = pos[r] + 1
              => Left(s[m].robot, s[m].index)

Replan(i) ==
    /\ i > plan /\ i \in Accepted
    /\ plan' = i
    /\ pos' = [r \in Robots |-> IF moving[r] THEN -1 ELSE 0]
    /\ settled' = TRUE
    /\ UNCHANGED <<moving, at, heads>>

Leave(r) ==
    /\ plan # 0 /\ ~moving[r] /\ pos[r] + 1 < Len(Path(r))
    /\ moving' = [moving EXCEPT ![r] = TRUE]
    /\ heads' = [heads EXCEPT ![r] = Path(r)[pos[r] + 2]]
    /\ UNCHANGED <<plan, pos, at, settled>>

Enter(r) ==
    /\ plan # 0 /\ moving[r] /\ HasItsTurn(r)
    /\ moving' = [moving EXCEPT ![r] = FALSE]
    /\ pos' = [pos EXCEPT ![r] = @ + 1]
    /\ at' = [at EXCEPT ![r] = heads[r]]
    /\ UNCHANGED <<plan, heads, settled>>

\* when something of an earlier plan interferes, nothing is promised until
\* the next plan takes over
Disturbed == ~settled'

Next == \/ \E i \in DOMAIN Plans : Replan(i)
        \/ \E r \in Robots : Leave(r) \/ Enter(r)
        \/ Disturbed

Spec == Init /\ [][Next]_vars
=============================================================================
