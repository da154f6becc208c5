--------------------------- MODULE CrowdfundPlans ---------------------------
(***************************************************************************)
(* Contributions made for somebody else's account, or by schedule:         *)
(* recurring plans and delegation of contracts/crowdfund/src/lib.rs, next  *)
(* to every other call on the campaign.                                    *)
(*                                                                         *)
(* execute_recurring looks at no status, deadline, list or limit.  A       *)
(* delegated contribution is paid by the delegate and booked to the        *)
(* delegator; it skips the maximum, the matching and the insurance.        *)
(***************************************************************************)
EXTENDS Crowdfund

CONSTANTS
  Planners,        \* the contributors that set up recurring plans
  PlanTerms,       \* [amount, interval, endDate] passed to setup_recurring
  NoPlan,          \* no recurring plan is stored
  DelegationPairs, \* <<delegator, delegate>>, the delegations that are made
  DelegatedLimits, \* amounts passed to delegate_contribution
  NoDelegation     \* no delegation is stored

Terms == [amount : Nat \ {0}, interval : Nat \ {0}, endDate : Nat]
Plans == [terms : Terms, lastExecuted : Nat]
Delegations == [amount : Nat \ {0}, delegate : Contributors, active : BOOLEAN]

ASSUME PlansAssumption ==
  /\ Planners \subseteq Contributors
  /\ PlanTerms \subseteq Terms
  /\ NoPlan \notin Plans
  /\ DelegationPairs \subseteq Contributors \X Contributors
  /\ DelegatedLimits \subseteq Nat \ {0}
  /\ NoDelegation \notin Delegations

VARIABLES
  plan,        \* DataKey::RecurringPlan
  delegation,  \* DataKey::Delegation
  delegated,   \* DataKey::DelegatedContribution
  gave         \* history: tokens each address paid for delegators

programs == <<plan, delegation, delegated, gave>>
pvars == <<vars, programs>>

-----------------------------------------------------------------------------
PInit ==
  /\ Init
  /\ plan = [c \in Contributors |-> NoPlan]
  /\ delegation = [c \in Contributors |-> NoDelegation]
  /\ delegated = [c \in Contributors |-> 0]
  /\ gave = [c \in Contributors |-> 0]

\* A call of module Crowdfund.
CampaignCall == Next /\ UNCHANGED programs

\* Mutant: the tokens are booked to the address that pays.
BookToPayer(payer, c, a) ==
  /\ wallet[payer] >= a
  /\ total + a <= MaxTotal
  /\ wallet' = [wallet EXCEPT ![payer] = @ - a]
  /\ held' = held + a
  /\ contribution' = [contribution EXCEPT ![payer] = @ + a]
  /\ total' = total + a
  /\ UNCHANGED <<now, campaign, insurance, match, admitted, payees>>

\* Mutant: the tokens are not counted in the total.
BookUncounted(payer, c, a) ==
  /\ wallet[payer] >= a
  /\ wallet' = [wallet EXCEPT ![payer] = @ - a]
  /\ held' = held + a
  /\ contribution' = [contribution EXCEPT ![c] = @ + a]
  /\ UNCHANGED <<now, campaign, total, insurance, match, admitted, payees>>

\* The payer's tokens are booked to the contributor and to the total, without
\* fee or matching.
Book(payer, c, a) ==
  /\ wallet[payer] >= a
  /\ total + a <= MaxTotal
  /\ wallet' = [wallet EXCEPT ![payer] = @ - a]
  /\ held' = held + a
  /\ contribution' = [contribution EXCEPT ![c] = @ + a]
  /\ total' = total + a
  /\ UNCHANGED <<now, campaign, insurance, match, admitted, payees>>

\* setup_recurring replaces a plan; the first execution waits an interval.
SetupRecurring(c, terms) ==
  /\ terms.endDate > now
  /\ plan' = [plan EXCEPT ![c] = [terms |-> terms, lastExecuted |-> now]]
  /\ UNCHANGED <<vars, delegation, delegated, gave>>

\* execute_recurring: an interval after the last execution, until the end date.
ExecuteRecurring(c) ==
  /\ plan[c] # NoPlan
  /\ now <= plan[c].terms.endDate
  /\ now >= plan[c].lastExecuted + plan[c].terms.interval
  /\ Book(c, c, plan[c].terms.amount)
  /\ plan' = [plan EXCEPT ![c].lastExecuted = now]
  /\ UNCHANGED <<delegation, delegated, gave>>

\* cancel_recurring
CancelRecurring(c) ==
  /\ plan' = [plan EXCEPT ![c] = NoPlan]
  /\ UNCHANGED <<vars, delegation, delegated, gave>>

\* delegate_contribution replaces the delegation; what was contributed under
\* the old one still counts against the new limit.
DelegateContribution(c, d, limit) ==
  /\ delegation' = [delegation EXCEPT
                      ![c] = [amount |-> limit, delegate |-> d, active |-> TRUE]]
  /\ UNCHANGED <<vars, plan, delegated, gave>>

\* The delegator's counter after a delegated contribution.
DelegatedAfter(c, a) == delegated[c] + a

\* contribute_on_behalf
ContributeOnBehalf(c, d, a) ==
  /\ delegation[c] # NoDelegation
  /\ delegation[c].active
  /\ delegation[c].delegate = d
  /\ DelegatedAfter(c, a) <= delegation[c].amount
  /\ a >= MinContribution
  /\ status = "Active"
  /\ now < deadline
  /\ c \in admitted
  /\ Book(d, c, a)
  /\ delegated' = [delegated EXCEPT ![c] = DelegatedAfter(c, a)]
  /\ gave' = [gave EXCEPT ![d] = @ + a]
  /\ UNCHANGED <<plan, delegation>>

\* revoke_delegation
RevokeDelegation(c) ==
  /\ delegation[c] # NoDelegation
  /\ delegation' = [delegation EXCEPT ![c].active = FALSE]
  /\ UNCHANGED <<vars, plan, delegated, gave>>

ProgramCall ==
  \/ \E c \in Planners, t \in PlanTerms : SetupRecurring(c, t)
  \/ \E c \in Contributors : ExecuteRecurring(c)
  \/ \E c \in Contributors : CancelRecurring(c)
  \/ \E pair \in DelegationPairs, n \in DelegatedLimits :
       DelegateContribution(pair[1], pair[2], n)
  \/ \E c, d \in Contributors, a \in Amounts : ContributeOnBehalf(c, d, a)
  \/ \E c \in Contributors : RevokeDelegation(c)

PNext == CampaignCall \/ ProgramCall

PSpec == PInit /\ [][PNext]_pvars

-----------------------------------------------------------------------------
PTypeOK ==
  /\ TypeOK
  /\ plan \in [Contributors -> Plans \cup {NoPlan}]
  /\ delegation \in [Contributors -> Delegations \cup {NoDelegation}]
  /\ delegated \in [Contributors -> Nat]
  /\ gave \in [Contributors -> Nat]

\* Every token is accounted for per address when others pay for it too: what
\* an address owns and has on record is what it started with, plus what
\* DelegatedContribution says was given for it, minus what it gave
\* (contribute_on_behalf, execute_recurring and all the refunds).
GiftsAccounted ==
  \A c \in Contributors :
    wallet[c] + contribution[c] + insuranceFee[c]
      = InitialWallet + delegated[c] - gave[c]

Keeping == INSTANCE Custody WITH
  Depositors <- Contributors, Endowment <- InitialWallet,
  wallet <- wallet, stake <- Stake, held <- held,
  paid <- creatorBal + platformBal

\* Schedules and delegates break the escrow (they book after a payout, and
\* onto records of others), but not the custody: every call puts the payer's
\* own tokens on a record, returns records to those they stand for, pays out
\* once, or moves no money (execute_recurring, contribute_on_behalf, withdraw
\* and all the refunds).
ImplementsCustody == Keeping!Spec
=============================================================================
