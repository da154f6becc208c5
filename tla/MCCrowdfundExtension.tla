----------------------- MODULE MCCrowdfundExtension -------------------------
(***************************************************************************)
(* Two contributors who can give for each other, one of whom can have a    *)
(* plan, and votes on a later deadline.  One contribution can reach the    *)
(* goal, so the plan and the delegate also book after a payout; a vote     *)
(* ends at or before the deadlines and is executed after one of them.      *)
(***************************************************************************)
EXTENDS CrowdfundExtension

CONSTANTS c1, c2

MCContributors == {c1, c2}

\* One token every second until time 3, which is after the first deadline.
MCPlanTerms == {[amount |-> 1, interval |-> 1, endDate |-> 3]}

\* c1 has the plan and gives for c2.
MCPlanners == {c1}
MCDelegationPairs == {<<c2, c1>>}

MCNothing == {}
=============================================================================
