----------------------------- MODULE MCCrowdfund ----------------------------
(***************************************************************************)
(* Finite instances of Crowdfund.  Amounts are a few tokens and rates are  *)
(* thousands of basis points, so that shares round down to different whole *)
(* tokens; deadlines fall inside the clock's range so that calls happen    *)
(* before, at and after them.                                              *)
(***************************************************************************)
EXTENDS Crowdfund

CONSTANTS c1, c2

MCContributors == {c1, c2}

\* A sponsor who matches half and one who matches everything up to 2 tokens.
MCMatchingConfigs == {[ratio |-> 5000, max |-> 3], [ratio |-> 10000, max |-> 2]}

\* Half of the payout has vested at time 3, all of it at time 4.
MCVesting == [cliff |-> 2, duration |-> 2]

\* Everybody may contribute, or c1 is kept out.
MCAdmissionSets == {{c1, c2}, {c2}}
\* One sponsor, for the plain campaigns.
MCOneMatching == {[ratio |-> 5000, max |-> 2]}

\* Instances without matching or insurance.
MCNoMatchings == {}
MCNoRates == {}
=============================================================================
