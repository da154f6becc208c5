----------------------------- MODULE Crowdfund ------------------------------
(***************************************************************************)
(* The money of one crowdfunding campaign: contracts/crowdfund/src/lib.rs. *)
(*                                                                         *)
(* One contract instance is one campaign.  A call is one transaction: it   *)
(* happens entirely or, when the code returns an error or the token        *)
(* contract panics, not at all.  So every entry point that changes state   *)
(* is one action whose guard collects the early returns of the code and    *)
(* the balance checks of the token contract, and a refused call is no step.*)
(* Authorisation is not represented: an action stands for a call by a      *)
(* party the code accepts.                                                 *)
(*                                                                         *)
(* Left to other modules or left out: recurring plans, delegation, votes,  *)
(* emergency withdrawal, the reset made by clone_campaign, metadata,       *)
(* tiers, history, the contributor list and events.  The per-address rate  *)
(* limit only refuses calls, so the model lets more calls through than the *)
(* code does.                                                              *)
(***************************************************************************)
EXTENDS Integers, FiniteSets, TokenTotals

CONSTANTS
  Contributors,     \* the addresses that contribute
  InitialWallet,    \* tokens each contributor owns at the start
  Amounts,          \* amounts passed to contribute
  MinContribution,  \* KEY_MIN
  MaxContribution,  \* KEY_MAX, 0 for no maximum
  Goals,            \* values of KEY_GOAL
  Deadlines,        \* values of KEY_DEADLINE
  MaxTime,          \* bound of the ledger clock
  MaxTotal,         \* bound of KEY_TOTAL when contributions raise it
  PlatformBps,      \* fee_bps of the platform configuration, 0 for none
  InsuranceRates,   \* fee_bps values passed to enable_insurance
  MatchingConfigs,  \* [ratio, max] records passed to setup_matching
  NoMatching,       \* setup_matching was never called
  Vesting,          \* [cliff, duration] or NoVesting
  NoVesting,
  AdmissionSets,    \* outcomes of editing the white- and blacklist
  MaxBatch          \* MAX_BATCH of refund_batch

FullRate == 10000  \* basis points in the whole

VestingSchedules == [cliff : Nat, duration : Nat]

ASSUME CrowdfundAssumption ==
  /\ IsFiniteSet(Contributors)
  /\ InitialWallet \in Nat
  /\ Amounts \subseteq Nat \ {0}
  /\ MinContribution \in Nat
  /\ MaxContribution \in Nat
  /\ MaxContribution = 0 \/ MaxContribution >= MinContribution
  /\ Goals \subseteq Nat \ {0}
  /\ Deadlines \subseteq Nat
  /\ MaxTime \in Nat
  /\ MaxTotal \in Nat
  /\ PlatformBps \in 0..FullRate
  /\ InsuranceRates \subseteq 0..FullRate
  /\ MatchingConfigs \subseteq [ratio : 0..FullRate, max : Nat \ {0}]
  /\ NoMatching \notin MatchingConfigs
  /\ Vesting \in VestingSchedules \cup {NoVesting}
  /\ NoVesting \notin VestingSchedules
  /\ AdmissionSets \subseteq SUBSET Contributors
  /\ MaxBatch \in Nat

VARIABLES
  now,            \* env.ledger().timestamp()
  status,         \* KEY_STATUS
  goal,           \* KEY_GOAL
  deadline,       \* KEY_DEADLINE
  total,          \* KEY_TOTAL, an i128
  contribution,   \* DataKey::Contribution
  insuranceFee,   \* DataKey::InsuranceFee
  insurancePool,  \* KEY_INSURANCE_POOL
  insuranceBps,   \* KEY_INSURANCE: fee_bps, 0 while not enabled
  matching,       \* DataKey::MatchingConfig
  totalMatched,   \* DataKey::TotalMatched
  admitted,       \* the addresses that pass the white- and blacklist
  wallet,         \* token balance of each contributor
  held,           \* token balance of the contract
  creatorBal,     \* tokens paid to the creator
  platformBal     \* tokens paid to the platform

campaign  == <<status, goal, deadline>>
insurance == <<insuranceFee, insurancePool, insuranceBps>>
match     == <<matching, totalMatched>>
payees    == <<creatorBal, platformBal>>
vars == <<now, status, goal, deadline, total, contribution, insuranceFee,
          insurancePool, insuranceBps, matching, totalMatched, admitted,
          wallet, held, creatorBal, platformBal>>

Statuses == {"Active", "Paused", "Successful", "Cancelled", "Archived"}

-----------------------------------------------------------------------------
\* A share of an amount in basis points, rounded down.
Share(amount, bps) == (amount * bps) \div FullRate

\* Mutant: the insurance fee is booked as a contribution too.
NetOfGross(amount) == amount

\* The part of an amount that counts as a contribution: the insurance fee is
\* split off.
NetOf(amount) == amount - Share(amount, insuranceBps)

\* What the sponsor's configuration adds to a contribution.
Matched(amount) ==
  IF matching = NoMatching THEN 0
  ELSE LET offer == Share(amount, matching.ratio)
           left  == matching.max - totalMatched
           least == IF offer < left THEN offer ELSE left
       IN  IF least > 0 THEN least ELSE 0

\* The part of a payout that has vested by now.
Vested(payout) ==
  IF Vesting = NoVesting THEN payout
  ELSE IF now >= Vesting.cliff + Vesting.duration THEN payout
  ELSE (payout * (now - Vesting.cliff)) \div Vesting.duration

\* Mutant: any money raised is enough.
AnythingRaised == total > 0

\* The goal test of withdraw.
GoalReached == total >= goal

\* Mutant: the goal is paid out.
PayableGoal == goal

\* What withdraw divides between the platform and the creator.
Payable == total

\* Mutant: a cancelled campaign is not treated as failed before its deadline.
RefundsOpenAtDeadline == now >= deadline /\ total < goal

\* The condition shared by refund_single, refund_batch and
\* claim_insurance_payout: the campaign was cancelled or missed its goal.
RefundsOpen ==
  \/ status = "Cancelled"
  \/ now >= deadline /\ total < goal

\* Mutant: half of the campaign's total instead of the caller's balance.
PartialRefundLimitOfTotal(c) == total \div 2

\* refund_partial returns at most half of the recorded contribution.
PartialRefundLimit(c) == contribution[c] \div 2

-----------------------------------------------------------------------------
\* initialize: the campaign starts Active with nothing raised.
Init ==
  /\ now = 1
  /\ status = "Active"
  /\ goal \in Goals
  /\ deadline \in {d \in Deadlines : d > now}
  /\ total = 0
  /\ contribution = [c \in Contributors |-> 0]
  /\ insuranceFee = [c \in Contributors |-> 0]
  /\ insurancePool = 0
  /\ insuranceBps = 0
  /\ matching = NoMatching
  /\ totalMatched = 0
  /\ admitted = Contributors
  /\ wallet = [c \in Contributors |-> InitialWallet]
  /\ held = 0
  /\ creatorBal = 0
  /\ platformBal = 0

\* The ledger clock advances between transactions.
Tick ==
  /\ now < MaxTime
  /\ now' = now + 1
  /\ UNCHANGED <<campaign, total, contribution, insurance, match, admitted,
                 wallet, held, payees>>

\* contribute: the insurance fee is split off and kept in the pool, the rest
\* is booked to the contributor, and the total also counts what the sponsor
\* matches, for which no tokens move.
Contribute(c, a) ==
  LET fee == Share(a, insuranceBps)
      net == NetOf(a)
      matched == Matched(net)
  IN
  /\ status = "Active"
  /\ now < deadline
  /\ c \in admitted
  /\ a >= MinContribution
  /\ MaxContribution > 0 => contribution[c] + a <= MaxContribution
  /\ wallet[c] >= a
  /\ total + net + matched <= MaxTotal
  /\ wallet' = [wallet EXCEPT ![c] = @ - a]
  /\ held' = held + a
  /\ insuranceFee' = [insuranceFee EXCEPT ![c] = @ + fee]
  /\ insurancePool' = insurancePool + fee
  /\ contribution' = [contribution EXCEPT ![c] = @ + net]
  /\ totalMatched' = totalMatched + matched
  /\ total' = total + net + matched
  /\ UNCHANGED <<now, campaign, insuranceBps, matching, admitted, payees>>

\* The payment of a withdrawal: the platform fee first, then the vested part
\* of the rest to the creator.
PayOut ==
  LET fee == Share(Payable, PlatformBps)
      vested == Vested(Payable - fee)
  IN
  /\ held >= fee + vested
  /\ held' = held - fee - vested
  /\ platformBal' = platformBal + fee
  /\ creatorBal' = creatorBal + vested

\* withdraw: after the deadline the creator takes what the books say was
\* raised; the token transfers fail when the contract does not hold it.
Withdraw ==
  /\ status = "Active"
  /\ now >= deadline
  /\ GoalReached
  /\ Vesting # NoVesting => now >= Vesting.cliff
  /\ PayOut
  /\ total' = 0
  /\ status' = "Successful"
  /\ UNCHANGED <<now, goal, deadline, contribution, insurance, match, admitted,
                 wallet>>

\* extend_deadline: only to a later time, but even after the deadline passed.
ExtendDeadline(d) ==
  /\ status = "Active"
  /\ d > deadline
  /\ deadline' = d
  /\ UNCHANGED <<now, status, goal, total, contribution, insurance, match,
                 admitted, wallet, held, payees>>

\* adjust_goal: up or down, at any time while Active.
AdjustGoal(g) ==
  /\ status = "Active"
  /\ goal' = g
  /\ UNCHANGED <<now, status, deadline, total, contribution, insurance, match,
                 admitted, wallet, held, payees>>

\* Mutant: a change of status clears the books.
SetStatusClearing(from, to) ==
  /\ status \in from
  /\ status' = to
  /\ total' = 0
  /\ UNCHANGED <<now, goal, deadline, contribution, insurance, match, admitted,
                 wallet, held, payees>>

\* A call that only writes KEY_STATUS.
SetStatus(from, to) ==
  /\ status \in from
  /\ status' = to
  /\ UNCHANGED <<now, goal, deadline, total, contribution, insurance, match,
                 admitted, wallet, held, payees>>

\* Mutant: cancelling sets the status that names a missed goal.
CancelCampaignRefunded == SetStatus({"Active", "Paused", "Archived"}, "Refunded")

\* cancel_campaign refuses Cancelled, Successful and Refunded (a status no
\* entry point sets); an archived campaign can be cancelled.
CancelCampaign == SetStatus({"Active", "Paused", "Archived"}, "Cancelled")

\* archive refuses Active, Paused and Archived.
Archive == SetStatus({"Successful", "Cancelled"}, "Archived")

\* pause
Pause == SetStatus({"Active"}, "Paused")

\* Mutant: any status is resumed.
ResumeAny == SetStatus(Statuses \ {"Active"}, "Active")

\* resume, and unpause which calls it.
Resume == SetStatus({"Paused"}, "Active")

\* Mutant: the recorded contributions are not cleared.
PayBackKeeping(S) ==
  /\ held >= TotalOf(contribution, S)
  /\ held' = held - TotalOf(contribution, S)
  /\ wallet' = [c \in Contributors |->
                  wallet[c] + IF c \in S THEN contribution[c] ELSE 0]
  /\ contribution' = contribution

\* The recorded contributions of the addresses in S are paid back and cleared.
PayBack(S) ==
  /\ held >= TotalOf(contribution, S)
  /\ held' = held - TotalOf(contribution, S)
  /\ wallet' = [c \in Contributors |->
                  wallet[c] + IF c \in S THEN contribution[c] ELSE 0]
  /\ contribution' = [c \in Contributors |->
                        IF c \in S THEN 0 ELSE contribution[c]]

\* refund_single pays one address back; the total is left as it is.
RefundSingle(c) ==
  /\ RefundsOpen
  /\ contribution[c] > 0
  /\ PayBack({c})
  /\ UNCHANGED <<now, campaign, total, insurance, match, admitted, payees>>

\* refund_batch pays back the first MAX_BATCH addresses it is given, all of
\* them or none.  An address listed twice is paid once, so the list is a set.
RefundBatch(S) ==
  /\ RefundsOpen
  /\ Cardinality(S) <= MaxBatch
  /\ PayBack(S)
  /\ UNCHANGED <<now, campaign, total, insurance, match, admitted, payees>>

\* refund_partial asks neither for a status nor for the deadline, and takes
\* the amount out of the books too.
RefundPartial(c, a) ==
  /\ a <= PartialRefundLimit(c)
  /\ held >= a
  /\ held' = held - a
  /\ wallet' = [wallet EXCEPT ![c] = @ + a]
  /\ contribution' = [contribution EXCEPT ![c] = @ - a]
  /\ total' = total - a
  /\ UNCHANGED <<now, campaign, insurance, match, admitted, payees>>

\* Mutant: a changed configuration keeps the amount matched so far.
SetupMatchingKeepingTotal(m) ==
  /\ matching' = m
  /\ UNCHANGED <<now, campaign, total, contribution, insurance, totalMatched,
                 admitted, wallet, held, payees>>

\* setup_matching replaces the configuration and forgets what was matched.
SetupMatching(m) ==
  /\ matching' = m
  /\ totalMatched' = 0
  /\ UNCHANGED <<now, campaign, total, contribution, insurance, admitted, wallet,
                 held, payees>>

\* enable_insurance replaces the rate and sets the pool counter to zero.
EnableInsurance(bps) ==
  /\ insuranceBps' = bps
  /\ insurancePool' = 0
  /\ UNCHANGED <<now, campaign, total, contribution, insuranceFee, match,
                 admitted, wallet, held, payees>>

\* Mutant: the pool counter is not reduced by a claim.
PoolAfterClaimKept(c) == insurancePool

\* The pool counter after a claim.
PoolAfterClaim(c) == insurancePool - insuranceFee[c]

\* claim_insurance_payout returns the fee when the pool counter covers it.
ClaimInsurancePayout(c) ==
  /\ RefundsOpen
  /\ insuranceFee[c] > 0
  /\ insurancePool >= insuranceFee[c]
  /\ held >= insuranceFee[c]
  /\ held' = held - insuranceFee[c]
  /\ wallet' = [wallet EXCEPT ![c] = @ + insuranceFee[c]]
  /\ insurancePool' = PoolAfterClaim(c)
  /\ insuranceFee' = [insuranceFee EXCEPT ![c] = 0]
  /\ UNCHANGED <<now, campaign, total, contribution, insuranceBps, match,
                 admitted, payees>>

\* The list entry points (white- and blacklist, whitelist-only, visibility)
\* decide together which addresses contribute lets in.
SetAdmission(S) ==
  /\ S # admitted
  /\ admitted' = S
  /\ UNCHANGED <<now, campaign, total, contribution, insurance, match, wallet, held, payees>>

Next ==
  \/ Tick
  \/ \E c \in Contributors, a \in Amounts : Contribute(c, a)
  \/ Withdraw
  \/ \E d \in Deadlines : ExtendDeadline(d)
  \/ \E g \in Goals : AdjustGoal(g)
  \/ CancelCampaign
  \/ Archive
  \/ Pause
  \/ Resume
  \/ \E c \in Contributors : RefundSingle(c)
  \/ \E S \in SUBSET Contributors : RefundBatch(S)
  \/ \E c \in Contributors, a \in Amounts : RefundPartial(c, a)
  \/ \E m \in MatchingConfigs : SetupMatching(m)
  \/ \E bps \in InsuranceRates : EnableInsurance(bps)
  \/ \E c \in Contributors : ClaimInsurancePayout(c)
  \/ \E S \in AdmissionSets : SetAdmission(S)

Spec == Init /\ [][Next]_vars

\* A contributor who is owed a refund keeps calling refund_single, which
\* anybody may call for any address.
KeepsCalling(c) == WF_vars(RefundSingle(c))
Fairness == \A c \in Contributors : KeepsCalling(c)

FairSpec == Spec /\ Fairness

-----------------------------------------------------------------------------
TypeOK ==
  /\ now \in Nat
  /\ status \in Statuses
  /\ goal \in Goals
  /\ deadline \in Deadlines
  /\ total \in Int
  /\ contribution \in [Contributors -> Nat]
  /\ insuranceFee \in [Contributors -> Nat]
  /\ insurancePool \in Nat
  /\ insuranceBps \in 0..FullRate
  /\ matching \in MatchingConfigs \cup {NoMatching}
  /\ totalMatched \in Nat
  /\ admitted \subseteq Contributors
  /\ wallet \in [Contributors -> Nat]
  /\ held \in Nat
  /\ creatorBal \in Nat
  /\ platformBal \in Nat

\* Every token that left a contributor's wallet is on record for that
\* contributor, as a contribution or as an insurance fee, or came back: no
\* sequence of refunds, partial refunds and claims pays anybody twice or
\* from another contributor's money (refund_single, refund_batch,
\* refund_partial, claim_insurance_payout).
Accounted ==
  \A c \in Contributors :
    wallet[c] + contribution[c] + insuranceFee[c] = InitialWallet

\* The contract's balance and what was paid out are exactly the recorded
\* contributions and insurance fees, so until a payout every contributor can
\* be paid back in full, in any order.
Conserved ==
  held + creatorBal + platformBal
    = TotalOf(contribution, Contributors) + TotalOf(insuranceFee, Contributors)

\* What a contributor has at stake, and the money that left the campaign.
Stake == [c \in Contributors |-> contribution[c] + insuranceFee[c]]

Promise == INSTANCE Escrow WITH
  Depositors <- Contributors, Endowment <- InitialWallet,
  wallet <- wallet, stake <- Stake, paid <- creatorBal + platformBal

\* The campaign is an escrow: every call takes tokens in from their owner
\* before anything was paid out, returns them to their owner, pays out once,
\* or moves no money at all.
ImplementsEscrow == Promise!Spec

\* Nothing was paid to the creator or the platform.
Unpaid == creatorBal = 0 /\ platformBal = 0

\* KEY_TOTAL is not reduced by refund_single and refund_batch, and it counts
\* matched amounts, but while the campaign can still be paid out it never
\* understates the recorded contributions: the goal test of withdraw and of
\* the refunds is not made against too low a figure.
BooksCoverContributions ==
  status \in {"Active", "Paused"} => total >= TotalOf(contribution, Contributors)

\* No insurance fee was ever collected.
NoFees == \A c \in Contributors : insuranceFee[c] = 0

\* Although KEY_TOTAL goes stale when refunds are followed by an extended
\* deadline, withdraw succeeds only when contributions that are still on
\* record reach the goal (without vesting and insurance fees): the stale part
\* makes the token transfer fail.
PayoutMeetsGoal ==
  [][status # "Successful" /\ status' = "Successful"
       /\ Vesting = NoVesting /\ NoFees
     => TotalOf(contribution, Contributors) >= goal]_vars

\* After a withdrawal without vesting only insurance fees are left, so the
\* refund entry points, whose guard is open again because withdraw sets
\* KEY_TOTAL to zero, have no contribution to pay back.
WithdrawEmptiesContract ==
  status = "Successful" /\ Vesting = NoVesting
    => held <= TotalOf(insuranceFee, Contributors)

\* No sequence of archive, cancel, resume and extend lets the creator
\* withdraw a second time.
PaidOnce == [][~Unpaid => UNCHANGED payees]_vars

\* The pool counter never promises more than the fees still on record.
PoolOwed == insurancePool <= TotalOf(insuranceFee, Contributors)

\* Until a payout the contract holds the pool on top of the contributions.
PoolFunded ==
  Unpaid => held >= TotalOf(contribution, Contributors) + insurancePool

\* Changing the sponsor's configuration in mid-campaign never leaves more
\* matched than the configuration in force allows.
MatchedWithinCap == matching # NoMatching => totalMatched <= matching.max

\* What validate_state lists as its first invariant, "total_raised >= 0".
\* It fails: with vesting part of a successful payout stays in the contract,
\* and refund_partial still serves it although the total is already zero.
TotalNonNegative == total >= 0

\* What refund_single documents: an error "if goal was reached and campaign
\* not cancelled".  It fails: withdraw sets the total to zero, so after a
\* payout the refund guard finds the goal missed, and what has not vested is
\* paid back to whoever asks first.
NoRefundAfterSuccess ==
  [][status = "Successful" => \A c \in Contributors : ~RefundSingle(c)]_vars

\* What setup_matching promises, that the sponsor tops contributions up: a
\* higher total comes with as many tokens.  It fails: contribute adds the
\* matched amount to the total and no entry point takes it from the sponsor.
MatchIsFunded == [][total' > total => total' - total <= held' - held]_vars

\* The campaign was cancelled or missed its goal.
CampaignFailed ==
  status = "Cancelled" \/ (now >= deadline /\ total < goal)

\* As long as a failed campaign was not paid out, a call of refund_single for
\* anybody with a record succeeds: no batch, partial refund, claim or reset of
\* the pool counter that came before leaves the contract without the tokens.
RefundPossible ==
  \A c \in Contributors :
    Unpaid /\ CampaignFailed /\ contribution[c] > 0
      => ENABLED <<RefundSingle(c)>>_vars

\* A campaign that failed before any payout pays each contributor back, unless
\* the creator takes it out of that state.
RefundEventually ==
  \A c \in Contributors :
    (Unpaid /\ CampaignFailed) ~> (contribution[c] = 0 \/ ~CampaignFailed)
=============================================================================
