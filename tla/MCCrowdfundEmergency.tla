----------------------- MODULE MCCrowdfundEmergency -------------------------
(***************************************************************************)
(* A campaign with one contributor and two approvers.  Locks of one and    *)
(* two seconds make sessions opened at different times end together, and   *)
(* the rules differ in the quorum and in who is listed.                    *)
(***************************************************************************)
EXTENDS CrowdfundEmergency

CONSTANTS c1, a1, a2

MCContributors == {c1}
MCApprovers == {a1, a2}

MCMultisigConfigs == {[required |-> 1, list |-> {a1}],
                      [required |-> 2, list |-> {a1, a2}]}

MCNothing == {}
=============================================================================
