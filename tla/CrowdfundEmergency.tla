------------------------- MODULE CrowdfundEmergency -------------------------
(***************************************************************************)
(* The admin's emergency withdrawal of contracts/crowdfund/src/lib.rs,     *)
(* running next to every other call on the campaign.                       *)
(*                                                                         *)
(* The admin opens a session with a lock; when the lock has run out the    *)
(* admin takes KEY_TOTAL tokens.  If a multi-signature rule is configured, *)
(* enough approvals must have been counted.  The contract recognises an    *)
(* approver's second approval of a session by the end time of the          *)
(* session's lock, and neither cancelling nor executing a session resets   *)
(* the count.  The emergency calls look at no status and clear no          *)
(* contribution.                                                           *)
(***************************************************************************)
EXTENDS Crowdfund

CONSTANTS
  Approvers,       \* the addresses that can be listed as approvers
  LockPeriods,     \* lock_period values passed to initiate
  MultisigConfigs  \* [required, list] values passed to setup

\* The list may name an address twice, so required may exceed the number of
\* the approvers.
ASSUME EmergencyAssumption ==
  /\ IsFiniteSet(Approvers)
  /\ LockPeriods \subseteq Nat
  /\ MultisigConfigs \subseteq [required : Nat \ {0}, list : SUBSET Approvers]

VARIABLES
  lockTime,      \* DataKey::EmergencyLockTime, 0 for none
  approvals,     \* DataKey::EmergencyApprovalCount
  required,      \* DataKey::EmergencyApproversRequired, 0 for no rule
  approvers,     \* DataKey::EmergencyApproversList
  lastApproved,  \* DataKey::EmergencyApproval: end of the lock last approved
  adminBal,      \* tokens paid to the admin
  opened,        \* history: the end of the lock of the session that is open
                 \* since its initiation, NoSession when there is none
  signers        \* history: who approved since the last initiation

session == <<lockTime, approvals, required, approvers, lastApproved, adminBal,
             opened, signers>>
evars == <<vars, session>>

NoSession == -1

-----------------------------------------------------------------------------
EInit ==
  /\ Init
  /\ lockTime = 0
  /\ approvals = 0
  /\ required = 0
  /\ approvers = {}
  /\ lastApproved = [a \in Approvers |-> 0]
  /\ adminBal = 0
  /\ opened = NoSession
  /\ signers = {}

\* A call of module Crowdfund.
CampaignCall == Next /\ UNCHANGED session

\* Mutant: the count of an earlier session carries over.
InitiateEmergencyCarrying(period) ==
  /\ lockTime' = now + period
  /\ opened' = now + period
  /\ signers' = {}
  /\ UNCHANGED <<vars, approvals, required, approvers, lastApproved, adminBal>>

\* initiate_emergency_withdrawal: a new session, even when one is open.
InitiateEmergency(period) ==
  /\ lockTime' = now + period
  /\ approvals' = 0
  /\ opened' = now + period
  /\ signers' = {}
  /\ UNCHANGED <<vars, required, approvers, lastApproved, adminBal>>

\* Mutant: the lock stays after the money was taken.
LockAfterExecuteKept == lockTime

\* The lock once the session was executed.
LockAfterExecute == 0

\* execute_emergency_withdrawal takes the total, if there is one.
ExecuteEmergency ==
  LET taken == IF total > 0 THEN total ELSE 0
  IN
  /\ lockTime # 0
  /\ now >= lockTime
  /\ required > 0 => approvals >= required
  /\ held >= taken
  /\ held' = held - taken
  /\ adminBal' = adminBal + taken
  /\ total' = total - taken
  /\ lockTime' = LockAfterExecute
  /\ opened' = NoSession
  /\ UNCHANGED <<now, campaign, contribution, insurance, match, admitted,
                 wallet, payees, approvals, required, approvers, lastApproved,
                 signers>>

\* cancel_emergency_withdrawal
CancelEmergency ==
  /\ lockTime' = 0
  /\ opened' = NoSession
  /\ UNCHANGED <<vars, approvals, required, approvers, lastApproved, adminBal,
                 signers>>

\* setup_emergency_multisig, in an open session too; the count stays.
SetupMultisig(config) ==
  /\ required' = config.required
  /\ approvers' = config.list
  /\ UNCHANGED <<vars, lockTime, approvals, lastApproved, adminBal, opened,
                 signers>>

\* The marker left by an approver's last approval is this session's.
ApprovedBefore(a) == lastApproved[a] = lockTime

\* approve_emergency_withdrawal, when it is more than a silent repetition.
ApproveEmergency(a) ==
  /\ lockTime # 0
  /\ required # 0
  /\ a \in approvers
  /\ ~ApprovedBefore(a)
  /\ lastApproved' = [lastApproved EXCEPT ![a] = lockTime]
  /\ approvals' = approvals + 1
  /\ signers' = signers \cup {a}
  /\ UNCHANGED <<vars, lockTime, required, approvers, adminBal, opened>>

ENext ==
  \/ CampaignCall
  \/ \E p \in LockPeriods : InitiateEmergency(p)
  \/ ExecuteEmergency
  \/ CancelEmergency
  \/ \E config \in MultisigConfigs : SetupMultisig(config)
  \/ \E a \in Approvers : ApproveEmergency(a)

ESpec == EInit /\ [][ENext]_evars

-----------------------------------------------------------------------------
ETypeOK ==
  /\ TypeOK
  /\ lockTime \in Nat
  /\ approvals \in Nat
  /\ required \in Nat
  /\ approvers \subseteq Approvers
  /\ lastApproved \in [Approvers -> Nat]
  /\ adminBal \in Nat
  /\ opened \in Nat \cup {NoSession}
  /\ signers \subseteq Approvers

\* The counter is the number of different approvers of the current session:
\* neither a repeated approval, nor a cancelled or restarted session, nor a
\* changed list of approvers makes one approver count twice
\* (initiate_emergency_withdrawal, approve_emergency_withdrawal).
QuorumCounted == approvals = Cardinality(signers)

\* The admin is paid only in a session that was opened, not cancelled and not
\* used before, when its lock has run out, and with as many different
\* approvals given since it was opened as the rule in force asks for.
EmergencyAuthorised ==
  [][adminBal' # adminBal
     => /\ opened # NoSession
        /\ now >= opened
        /\ Cardinality(signers) >= required]_evars

\* The money the admin took is the only difference the emergency calls make
\* to the contract's accounts: nothing is taken from the books twice.
EmergencyConserved ==
  held + creatorBal + platformBal + adminBal
    = TotalOf(contribution, Contributors) + TotalOf(insuranceFee, Contributors)

\* As long as the admin has taken nothing, everybody can still be paid back
\* and the goal is measured against at least the recorded contributions, with
\* any number of open, approved and cancelled sessions.
IntactUntilTaken == adminBal = 0 => Conserved /\ BooksCoverContributions

\* As long as the admin has taken nothing, the campaign also keeps the promise
\* of module Escrow: whatever sessions are opened, approved, cancelled or
\* executed for nothing, each contributor's tokens go in, come back to their
\* owner or are paid out once, as without the emergency calls.
EscrowUntilTaken ==
  [][adminBal' = 0
       => [Promise!Next]_<<wallet, Stake, creatorBal + platformBal>>]_evars
=============================================================================
