----------------------------- MODULE MCTimeSync -----------------------------
(* Small instances of TimeSync: two axes, five motions, one input after    *)
(* another on one trajectory object.                                       *)
EXTENDS TimeSync

CONSTANTS
  low, high,  \* position motions with two gaps, each gap ending in the other's
  flat,       \* velocity motion without a jerk limit
  first,      \* position motion without an acceleration limit
  stuck,      \* position motion that has no solution
  SyncsUsed,  \* synchronisation modes the requests use
  Minimums    \* minimum durations the requests use

MCMotions    == {low, high, flat, first, stuck}
MCVelocity   == {flat}
MCFirstOrder == {first}
MCAtRest     == {high, first}

MCMinDuration(m) == CASE m = low -> 3 [] m = high -> 5 [] m = flat -> 4
                      [] m = first -> 1 [] m = stuck -> Infeasible

\* From 5 on low has no 5 and 7, high no 6 and 8.
MCGapA(m) == CASE m = low -> [left |-> 4, right |-> 6]
               [] m = high -> [left |-> 5, right |-> 7]
               [] OTHER -> [left |-> 0, right |-> 0]
MCGapB(m) == CASE m = low -> [left |-> 6, right |-> 8]
               [] m = high -> [left |-> 7, right |-> 9]
               [] OTHER -> [left |-> 0, right |-> 0]

\* Pairs of motions with one control interface, then with one for each axis.
MCPairs == {<<low, high>>, <<high, low>>, <<low, first>>, <<high, stuck>>,
            <<first, first>>, <<flat, flat>>, <<flat, high>>}

OneInterface(motion) == motion[1] \in Velocity <=> motion[2] \in Velocity

MCRequests ==
  {r \in [motion: MCPairs, enabled: [Dofs -> BOOLEAN], sync: [Dofs -> SyncsUsed],
          perDofControl: BOOLEAN, discrete: BOOLEAN, minimum: Minimums] :
     /\ r.perDofControl = ~OneInterface(r.motion)
     /\ r.enabled[2]}

NoMinimumOnly == {NoMinimum}
NoneOrInGap   == {NoMinimum, 5}
=============================================================================
