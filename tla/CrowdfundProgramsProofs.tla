----------------------- MODULE CrowdfundProgramsProofs -----------------------
(***************************************************************************)
(* Proofs about plans, delegation and votes, next to every other call of   *)
(* the campaign: whoever pays, every token is on record; the books cover   *)
(* the contributions; a vote is counted once and applied once; refunds     *)
(* that are asked for arrive; and the whole implements Custody.            *)
(***************************************************************************)
EXTENDS CrowdfundExtension, CrowdfundProofs

LEMMA ProgramConstants ==
  /\ Planners \subseteq Contributors
  /\ \A t \in PlanTerms : t \in Terms
  /\ \A t \in Terms : t.amount \in Nat /\ t.interval \in Nat /\ t.endDate \in Nat
  /\ NoPlan \notin Plans
  /\ \A p \in DelegationPairs : p[1] \in Contributors /\ p[2] \in Contributors
  /\ \A n \in DelegatedLimits : n \in Nat \ {0}
  /\ NoDelegation \notin Delegations
  /\ VotingPeriod \in Nat
<1>1. \A p \in DelegationPairs : p[1] \in Contributors /\ p[2] \in Contributors
  <2>1. DelegationPairs \subseteq Contributors \X Contributors
    BY PlansAssumption
  <2> QED
    BY <2>1
<1>2. \A t \in Terms : t.amount \in Nat /\ t.interval \in Nat /\ t.endDate \in Nat
  BY DEF Terms
<1> QED
  BY <1>1, <1>2, PlansAssumption, ExtensionAssumption

-----------------------------------------------------------------------------
(* What booking moves. *)

\* The payer's tokens arrive in the contract and on the contributor's record.
LEMMA BookMoves ==
  ASSUME TypeOK, NEW payer \in Contributors, NEW c \in Contributors,
         NEW a \in Nat, Book(payer, c, a)
  PROVE  /\ TypeOK'
         /\ Booked' = Booked + a /\ Fees' = Fees
         /\ held' = held + a /\ total' = total + a
         /\ \A x \in Contributors :
              Wealth(x)' = Wealth(x) + (IF x = c THEN a ELSE 0)
                                     - (IF x = payer THEN a ELSE 0)
<1>1. /\ wallet[payer] >= a
      /\ wallet' = [wallet EXCEPT ![payer] = @ - a]
      /\ held' = held + a
      /\ contribution' = [contribution EXCEPT ![c] = @ + a]
      /\ total' = total + a
      /\ UNCHANGED <<now, campaign, insurance, match, admitted, payees>>
  BY DEF Book
<1>2. wallet[payer] - a \in Nat
  BY <1>1 DEF TypeOK
<1>3. TypeOK'
  BY <1>1, <1>2 DEF TypeOK, campaign, insurance, match, payees
<1>4. Booked' = Booked + a
  <2>1. Booked' = Booked + contribution'[c] - contribution[c]
    BY <1>1, <1>3, SumOfChange DEF TypeOK, Booked
  <2> QED
    BY <1>1, <2>1, SumTypes DEF TypeOK
<1>5. Fees' = Fees
  BY <1>1 DEF insurance, Fees
<1>6. ASSUME NEW x \in Contributors
      PROVE  Wealth(x)' = Wealth(x) + (IF x = c THEN a ELSE 0)
                                    - (IF x = payer THEN a ELSE 0)
  <2>1. /\ wallet'[x] = wallet[x] - IF x = payer THEN a ELSE 0
        /\ contribution'[x] = contribution[x] + IF x = c THEN a ELSE 0
        /\ insuranceFee'[x] = insuranceFee[x]
    BY <1>1 DEF TypeOK, insurance
  <2> QED
    BY <2>1 DEF TypeOK, Wealth
<1> QED
  BY <1>1, <1>3, <1>4, <1>5, <1>6

\* So it keeps the books, in any status.
LEMMA BooksBook ==
  ASSUME Books, NEW payer \in Contributors, NEW c \in Contributors,
         NEW a \in Nat, Book(payer, c, a)
  PROVE  Books'
<1>1. /\ TypeOK' /\ Booked' = Booked + a /\ Fees' = Fees
      /\ held' = held + a /\ total' = total + a
      /\ Booked \in Nat /\ Fees \in Nat
  BY BookMoves, SumTypes DEF Books
<1>2. UNCHANGED <<status, insurancePool, matching, totalMatched, creatorBal,
                  platformBal>>
  BY DEF Book, campaign, insurance, match, payees
<1>3. Conserved' /\ BooksCoverContributions' /\ PoolOwed'
  BY <1>1, <1>2 DEF Books, TypeOK, Conserved, BooksCoverContributions, PoolOwed,
                    Booked, Fees
<1>4. MatchedWithinCap' /\ OpenMeansUnpaid'
  BY <1>2 DEF Books, MatchedWithinCap, OpenMeansUnpaid, Unpaid
<1> QED
  BY <1>1, <1>3, <1>4 DEF Books

-----------------------------------------------------------------------------
(* Plans and delegation. *)

\* What the programs add to the books: who paid for whom.
PInv == PTypeOK /\ Books /\ GiftsAccounted

LEMMA PInvInit == PInit => PInv
<1> SUFFICES ASSUME PInit
             PROVE  PInv
  OBVIOUS
<1>1. Books /\ TypeOK
  BY BooksInit DEF PInit, Books
<1>2. PTypeOK
  BY <1>1 DEF PInit, PTypeOK
<1>3. GiftsAccounted
  BY Constants DEF PInit, Init, GiftsAccounted
<1> QED
  BY <1>1, <1>2, <1>3 DEF PInv

\* The calls that leave the money alone.
LEMMA PInvQuiet ==
  ASSUME PInv, PTypeOK', UNCHANGED <<vars, delegated, gave>>
  PROVE  PInv'
<1>1. Books'
  BY BooksNext DEF PInv
<1> QED
  BY <1>1 DEF PInv, GiftsAccounted, vars

LEMMA PInvNext == PInv /\ [PNext]_pvars => PInv'
<1> SUFFICES ASSUME PInv, [PNext]_pvars
             PROVE  PInv'
  OBVIOUS
<1>0. /\ PTypeOK /\ TypeOK /\ Books
      /\ UNCHANGED vars => TypeOK'
  BY TypeNext DEF PInv, PTypeOK
<1>g. \A x \in Contributors :
        /\ Wealth(x) = InitialWallet + delegated[x] - gave[x]
        /\ delegated[x] \in Nat /\ gave[x] \in Nat /\ Wealth(x) \in Nat
  BY <1>0 DEF PInv, GiftsAccounted, Wealth, PTypeOK, TypeOK
<1>1. CASE CampaignCall
  <2>1. Next /\ UNCHANGED <<plan, delegation, delegated, gave>>
    BY <1>1 DEF CampaignCall, programs
  <2>2. Books' /\ \A x \in Contributors : Wealth(x)' = Wealth(x)
    BY <1>0, <2>1, BooksNext, MoneyMoves
  <2>3. PTypeOK'
    BY <1>0, <2>1, <2>2 DEF PTypeOK, Books
  <2>4. GiftsAccounted'
    BY <1>g, <2>1, <2>2 DEF GiftsAccounted, Wealth
  <2> QED
    BY <2>2, <2>3, <2>4 DEF PInv
<1>2. ASSUME NEW c \in Planners, NEW t \in PlanTerms, SetupRecurring(c, t)
      PROVE  PInv'
  <2>1. [terms |-> t, lastExecuted |-> now] \in Plans
    BY <1>0, ProgramConstants DEF TypeOK, Plans
  <2>2. PTypeOK'
    BY <1>0, <1>2, <2>1 DEF SetupRecurring, PTypeOK
  <2> QED
    BY <1>2, <2>2, PInvQuiet DEF SetupRecurring
<1>3. ASSUME NEW c \in Contributors, ExecuteRecurring(c)
      PROVE  PInv'
  <2> DEFINE a == plan[c].terms.amount
  <2>1. plan[c] \in Plans
    BY <1>0, <1>3 DEF ExecuteRecurring, PTypeOK
  <2>2. a \in Nat
    BY <2>1, ProgramConstants DEF Plans
  <2>3. /\ Book(c, c, a)
        /\ plan' = [plan EXCEPT ![c].lastExecuted = now]
        /\ UNCHANGED <<delegation, delegated, gave>>
    BY <1>3 DEF ExecuteRecurring
  <2> HIDE DEF a
  <2>4. /\ Books' /\ TypeOK'
        /\ \A x \in Contributors :
              Wealth(x)' = Wealth(x) + (IF x = c THEN a ELSE 0)
                                     - (IF x = c THEN a ELSE 0)
    BY <1>0, <2>2, <2>3, BookMoves, BooksBook
  <2>5. [plan[c] EXCEPT !.lastExecuted = now] \in Plans
    BY <1>0, <2>1 DEF Plans, TypeOK
  <2>6. PTypeOK'
    BY <1>0, <2>3, <2>4, <2>5 DEF PTypeOK
  <2>7. \A x \in Contributors : Wealth(x)' = InitialWallet + delegated'[x] - gave'[x]
    BY <1>g, <2>2, <2>3, <2>4
  <2> QED
    BY <2>4, <2>6, <2>7 DEF PInv, GiftsAccounted, Wealth
<1>4. ASSUME NEW c \in Contributors, CancelRecurring(c)
      PROVE  PInv'
  <2>1. PTypeOK'
    BY <1>0, <1>4 DEF CancelRecurring, PTypeOK
  <2> QED
    BY <1>4, <2>1, PInvQuiet DEF CancelRecurring
<1>5. ASSUME NEW pair \in DelegationPairs, NEW n \in DelegatedLimits,
             DelegateContribution(pair[1], pair[2], n)
      PROVE  PInv'
  <2>1. [amount |-> n, delegate |-> pair[2], active |-> TRUE] \in Delegations
    BY ProgramConstants DEF Delegations
  <2>2. PTypeOK'
    BY <1>0, <1>5, <2>1 DEF DelegateContribution, PTypeOK
  <2> QED
    BY <1>5, <2>2, PInvQuiet DEF DelegateContribution
<1>6. ASSUME NEW c \in Contributors, NEW d \in Contributors, NEW a \in Amounts,
             ContributeOnBehalf(c, d, a)
      PROVE  PInv'
  <2>1. a \in Nat
    BY Constants
  <2>2. /\ Book(d, c, a)
        /\ delegated' = [delegated EXCEPT ![c] = delegated[c] + a]
        /\ gave' = [gave EXCEPT ![d] = @ + a]
        /\ UNCHANGED <<plan, delegation>>
    BY <1>6 DEF ContributeOnBehalf, DelegatedAfter
  <2>3. /\ Books' /\ TypeOK'
        /\ \A x \in Contributors :
              Wealth(x)' = Wealth(x) + (IF x = c THEN a ELSE 0)
                                     - (IF x = d THEN a ELSE 0)
    BY <1>0, <2>1, <2>2, BookMoves, BooksBook
  <2>4. PTypeOK'
    BY <1>0, <2>1, <2>2, <2>3 DEF PTypeOK
  <2>5. \A x \in Contributors :
          /\ delegated'[x] = delegated[x] + IF x = c THEN a ELSE 0
          /\ gave'[x] = gave[x] + IF x = d THEN a ELSE 0
    BY <1>0, <2>1, <2>2 DEF PTypeOK
  <2>6. \A x \in Contributors : Wealth(x)' = InitialWallet + delegated'[x] - gave'[x]
    BY <1>g, <2>1, <2>3, <2>5, Constants
  <2> QED
    BY <2>3, <2>4, <2>6 DEF PInv, GiftsAccounted, Wealth
<1>7. ASSUME NEW c \in Contributors, RevokeDelegation(c)
      PROVE  PInv'
  <2>1. delegation[c] \in Delegations
    BY <1>0, <1>7 DEF RevokeDelegation, PTypeOK
  <2>2. [delegation[c] EXCEPT !.active = FALSE] \in Delegations
    BY <2>1 DEF Delegations
  <2>3. PTypeOK'
    BY <1>0, <1>7, <2>2 DEF RevokeDelegation, PTypeOK
  <2> QED
    BY <1>7, <2>3, PInvQuiet DEF RevokeDelegation
<1>8. CASE UNCHANGED pvars
  <2>1. PTypeOK'
    BY <1>0, <1>8 DEF pvars, programs, PTypeOK
  <2> QED
    BY <1>8, <2>1, PInvQuiet DEF pvars, programs
<1> QED
  BY <1>1, <1>2, <1>3, <1>4, <1>5, <1>6, <1>7, <1>8 DEF PNext, ProgramCall

-----------------------------------------------------------------------------
(* Votes.  Counting works because a contributor without the proposal's      *)
(* marker has cast no ballot on it; and the deadline a vote sets is one      *)
(* that could be proposed.                                                   *)

VInv ==
  /\ PInv
  /\ XTypeOK
  /\ BallotsCountedOnce
  /\ proposal # NoProposal =>
       /\ proposal.newDeadline \in Deadlines
       /\ \A c \in Contributors : ~Voted(c) => ballot[c] = 0

LEMMA VInvInit == XInit => VInv
<1> SUFFICES ASSUME XInit
             PROVE  VInv
  OBVIOUS
<1>1. PInv
  BY PInvInit DEF XInit
<1>2. XTypeOK
  BY <1>1 DEF PInv, XInit, XTypeOK, NoBallots
<1> QED
  BY <1>1, <1>2 DEF VInv, BallotsCountedOnce, XInit

\* The record of a proposal.
LEMMA ProposalFields ==
  ASSUME NEW p \in Proposals
  PROVE  /\ p.newDeadline \in Nat /\ p.votesFor \in Nat /\ p.votesAgainst \in Nat
         /\ p.createdAt \in Nat /\ p.votingEndsAt \in Nat /\ p.executed \in BOOLEAN
BY DEF Proposals

LEMMA VInvNext == VInv /\ [XNext]_xvars => VInv'
<1> SUFFICES ASSUME VInv, [XNext]_xvars
             PROVE  VInv'
  OBVIOUS
<1>0. /\ PInv /\ PTypeOK /\ TypeOK /\ XTypeOK
  BY DEF VInv, PInv, PTypeOK
<1>1. ASSUME [PNext]_pvars, UNCHANGED voting
      PROVE  VInv'
  <2>1. PInv'
    BY <1>0, <1>1, PInvNext
  <2>2. XTypeOK'
    BY <1>0, <1>1, <2>1 DEF voting, XTypeOK, PInv
  <2> QED
    BY <1>1, <2>1, <2>2 DEF VInv, voting, BallotsCountedOnce, Voted
<1>2. ASSUME NEW d \in Deadlines, ProposeExtension(d)
      PROVE  VInv'
  <2>1. /\ proposal' = [newDeadline |-> d, votesFor |-> 0, votesAgainst |-> 0,
                        createdAt |-> now, votingEndsAt |-> now + VotingPeriod,
                        executed |-> FALSE]
        /\ ballot' = NoBallots
        /\ UNCHANGED <<pvars, lastVoted>>
    BY <1>2 DEF ProposeExtension
  <2>2. PInv'
    BY <1>0, <2>1, PInvNext
  <2>3. proposal' \in Proposals
    BY <1>0, <2>1, Constants, ProgramConstants DEF TypeOK, Proposals
  <2>4. XTypeOK'
    BY <1>0, <2>1, <2>2, <2>3 DEF PInv, XTypeOK, NoBallots
  <2>5. TotalOf(NoBallots, Contributors) = 0
    BY TotalOfZero DEF NoBallots
  <2>6. BallotsCountedOnce'
    BY <2>1, <2>5 DEF BallotsCountedOnce
  <2>7. proposal'.newDeadline \in Deadlines /\ \A c \in Contributors : ballot'[c] = 0
    BY <2>1 DEF NoBallots
  <2> QED
    BY <2>2, <2>4, <2>6, <2>7 DEF VInv
<1>3. ASSUME NEW c \in Contributors, NEW approve \in BOOLEAN,
             VoteOnExtension(c, approve)
      PROVE  VInv'
  <2> DEFINE weight == contribution[c]
  <2>1. /\ proposal # NoProposal
        /\ ~Voted(c)
        /\ proposal' = IF approve
                       THEN [proposal EXCEPT !.votesFor = @ + weight]
                       ELSE [proposal EXCEPT !.votesAgainst = @ + weight]
        /\ lastVoted' = [lastVoted EXCEPT ![c] = proposal.createdAt]
        /\ ballot' = [ballot EXCEPT ![c] = weight]
        /\ UNCHANGED pvars
    BY <1>3 DEF VoteOnExtension
  <2>2. weight \in Nat /\ proposal \in Proposals
    BY <1>0, <2>1 DEF TypeOK, XTypeOK
  <2> HIDE DEF weight
  <2>3. PInv'
    BY <1>0, <2>1, PInvNext
  <2>4. /\ proposal' \in Proposals
        /\ proposal'.createdAt = proposal.createdAt
        /\ proposal'.newDeadline = proposal.newDeadline
        /\ proposal'.votesFor + proposal'.votesAgainst
             = proposal.votesFor + proposal.votesAgainst + weight
    BY <2>1, <2>2 DEF Proposals
  <2>5. XTypeOK'
    BY <1>0, <2>1, <2>2, <2>3, <2>4, ProposalFields DEF PInv, XTypeOK
  <2>6. ballot[c] = 0
    BY <2>1 DEF VInv
  <2>7. TotalOf(ballot', Contributors) = TotalOf(ballot, Contributors) + weight
    <3>1. TotalOf(ballot', Contributors)
            = TotalOf(ballot, Contributors) + ballot'[c] - ballot[c]
      BY <1>0, <2>1, <2>5, SumOfChange DEF XTypeOK
    <3>2. TotalOf(ballot, Contributors) \in Nat
      BY <1>0, Constants, TotalOfType DEF XTypeOK
    <3>3. ballot'[c] = weight
      BY <1>0, <2>1 DEF XTypeOK
    <3> QED
      BY <2>2, <2>6, <3>1, <3>2, <3>3
  <2>8. BallotsCountedOnce'
    BY <2>1, <2>4, <2>7 DEF VInv, BallotsCountedOnce
  <2>9. \A x \in Contributors : ~Voted(x)' => ballot'[x] = 0
    BY <1>0, <2>1, <2>4 DEF VInv, Voted, XTypeOK
  <2> QED
    BY <2>1, <2>3, <2>4, <2>5, <2>8, <2>9 DEF VInv
<1>4. CASE ExecuteExtension
  <2>1. /\ proposal # NoProposal
        /\ deadline' \in {deadline, proposal.newDeadline}
        /\ proposal' = [proposal EXCEPT !.executed = TRUE]
        /\ UNCHANGED <<now, status, goal, total, contribution, insuranceFee,
                       insurancePool, insuranceBps, matching, totalMatched,
                       admitted, wallet, held, creatorBal, platformBal>>
        /\ UNCHANGED <<plan, delegation, delegated, gave, lastVoted, ballot>>
    BY <1>4 DEF ExecuteExtension, insurance, match, payees, programs
  <2>2. proposal \in Proposals /\ proposal.newDeadline \in Deadlines
    BY <1>0, <2>1 DEF VInv, XTypeOK
  <2>3. TypeOK' /\ PTypeOK'
    BY <1>0, <2>1, <2>2 DEF TypeOK, PTypeOK
  <2>4. Books'
    BY <1>0, <2>1, <2>3 DEF PInv, Books, Conserved, BooksCoverContributions,
         PoolOwed, MatchedWithinCap, OpenMeansUnpaid, Unpaid
  <2>5. PInv'
    BY <1>0, <2>1, <2>3, <2>4 DEF PInv, GiftsAccounted
  <2>6. /\ proposal' \in Proposals
        /\ proposal'.createdAt = proposal.createdAt
        /\ proposal'.newDeadline = proposal.newDeadline
        /\ proposal'.votesFor = proposal.votesFor
        /\ proposal'.votesAgainst = proposal.votesAgainst
    BY <2>1, <2>2 DEF Proposals
  <2>7. XTypeOK'
    BY <1>0, <2>1, <2>3, <2>6 DEF XTypeOK
  <2> QED
    BY <2>1, <2>2, <2>5, <2>6, <2>7 DEF VInv, BallotsCountedOnce, Voted
<1>5. CASE UNCHANGED xvars
  BY <1>1, <1>5 DEF xvars, voting
<1> QED
  BY <1>1, <1>2, <1>3, <1>4, <1>5 DEF XNext, OtherCall

LEMMA VotingInvariant == XSpec => []VInv
BY VInvInit, VInvNext, PTL DEF XSpec

-----------------------------------------------------------------------------
\* Plans, delegations, proposals and the campaign keep their types; in
\* particular no refund of a delegated or recurring contribution overdraws.
THEOREM ProgramTypeCorrect == XSpec => []XTypeOK
<1>1. VInv => XTypeOK
  BY DEF VInv
<1> QED
  BY <1>1, VotingInvariant, PTL

\* Whoever pays and whoever is refunded, an address has what it started with
\* plus what was given for it minus what it gave (contribute_on_behalf,
\* execute_recurring, the refunds).
THEOREM GiftsOnRecord == XSpec => []GiftsAccounted
<1>1. VInv => GiftsAccounted
  BY DEF VInv, PInv
<1> QED
  BY <1>1, VotingInvariant, PTL

\* The contract's balance and its total stay true when contributions are
\* booked in any status by schedule or for others.
THEOREM BooksHoldWithPrograms == XSpec => [](Conserved /\ BooksCoverContributions)
<1>1. VInv => Conserved /\ BooksCoverContributions
  BY DEF VInv, PInv, Books
<1> QED
  BY <1>1, VotingInvariant, PTL

\* The votes on a proposal are the ballots of different contributors
\* (vote_on_extension), however the records change during the vote.
THEOREM NobodyVotesTwice == XSpec => []BallotsCountedOnce
<1>1. VInv => BallotsCountedOnce
  BY DEF VInv
<1> QED
  BY <1>1, VotingInvariant, PTL

\* Only execute_extension moves the deadline back, and only once per vote.
THEOREM VotesApplyOnce == XSpec => AppliedOnce
<1> DEFINE Once == deadline' < deadline
                   => proposal # NoProposal /\ ~proposal.executed /\ proposal'.executed
<1>1. VInv /\ [XNext]_xvars => [Once]_xvars
  <2> SUFFICES ASSUME VInv, XNext, deadline' < deadline
               PROVE  proposal # NoProposal /\ ~proposal.executed /\ proposal'.executed
    OBVIOUS
  <2>0. deadline \in Nat /\ XTypeOK
    BY Constants DEF VInv, PInv, PTypeOK, TypeOK
  <2>1. ~(UNCHANGED deadline)
    BY <2>0
  <2>2. \A d \in Deadlines : ~ExtendDeadline(d)
    <3>1. ASSUME NEW d \in Deadlines, ExtendDeadline(d)
          PROVE  FALSE
      <4>1. deadline' = d /\ d > deadline /\ d \in Nat
        BY <3>1, Constants DEF ExtendDeadline
      <4> QED
        BY <2>0, <4>1
    <3> QED
      BY <3>1
  <2>3. ~Next
    BY <2>1, <2>2 DEF Next, Tick, Contribute, Withdraw, AdjustGoal,
       CancelCampaign, Archive, Pause, Resume, SetStatus, RefundSingle,
       RefundBatch, RefundPartial, SetupMatching, EnableInsurance,
       ClaimInsurancePayout, SetAdmission, campaign
  <2>4. ~ProgramCall
    BY <2>1 DEF ProgramCall, SetupRecurring, ExecuteRecurring, CancelRecurring,
       DelegateContribution, ContributeOnBehalf, RevokeDelegation, Book, vars, campaign
  <2>5. ExecuteExtension
    BY <2>1, <2>3, <2>4 DEF XNext, OtherCall, PNext, CampaignCall,
       ProposeExtension, VoteOnExtension, pvars, vars
  <2>6. proposal # NoProposal /\ ~proposal.executed
        /\ proposal' = [proposal EXCEPT !.executed = TRUE]
    BY <2>5 DEF ExecuteExtension, Settled
  <2> QED
    BY <2>0, <2>6 DEF XTypeOK, Proposals
<1> QED
  BY <1>1, VotingInvariant, PTL DEF XSpec, AppliedOnce

\* A payout still needs recorded contributions that reach the goal, although
\* programs book without most of the checks of contribute.
THEOREM PayoutBackedWithPrograms == XSpec => PayoutMeetsGoal
<1> DEFINE Backed == status # "Successful" /\ status' = "Successful"
                       /\ Vesting = NoVesting /\ NoFees
                     => TotalOf(contribution, Contributors) >= goal
<1>1. VInv /\ [XNext]_xvars => [Backed]_vars
  <2> SUFFICES ASSUME VInv, [XNext]_xvars
               PROVE  [Backed]_vars
    OBVIOUS
  <2>1. Books
    BY DEF VInv, PInv
  <2>2. CASE Next
    BY <2>1, <2>2, PayoutStep
  <2>3. CASE ~Next
    <3>1. status' = status
      BY <2>3 DEF XNext, OtherCall, PNext, CampaignCall, ProgramCall,
         SetupRecurring, ExecuteRecurring, CancelRecurring,
         DelegateContribution, ContributeOnBehalf, RevokeDelegation, Book,
         ProposeExtension, VoteOnExtension, ExecuteExtension, xvars, pvars,
         vars, campaign
    <3> QED
      BY <3>1
  <2> QED
    BY <2>2, <2>3
<1> QED
  BY <1>1, VotingInvariant, PTL DEF XSpec, PayoutMeetsGoal

\* A campaign that was paid out is not paid again, whatever is booked to it
\* afterwards by a schedule or for others.
THEOREM PaidOnceWithPrograms == XSpec => PaidOnce
<1> DEFINE Kept == ~Unpaid => UNCHANGED payees
<1>1. VInv /\ [XNext]_xvars => [Kept]_vars
  <2> SUFFICES ASSUME VInv, [XNext]_xvars
               PROVE  [Kept]_vars
    OBVIOUS
  <2>1. Books
    BY DEF VInv, PInv
  <2>2. CASE Next
    BY <2>1, <2>2, PaidStep
  <2>3. CASE ~Next
    <3>1. UNCHANGED payees
      BY <2>3 DEF XNext, OtherCall, PNext, CampaignCall, ProgramCall,
         SetupRecurring, ExecuteRecurring, CancelRecurring,
         DelegateContribution, ContributeOnBehalf, RevokeDelegation, Book,
         ProposeExtension, VoteOnExtension, ExecuteExtension, xvars, pvars,
         vars, payees
    <3> QED
      BY <3>1
  <2> QED
    BY <2>2, <2>3
<1> QED
  BY <1>1, VotingInvariant, PTL DEF XSpec, PaidOnce

\* Until a payout all contributions and the pool can be paid back at once,
\* those that execute_recurring and contribute_on_behalf booked after the
\* campaign was cancelled or had failed included.
THEOREM PoolHeldWithPrograms == XSpec => []PoolFunded
<1>1. VInv => PoolFunded
  BY BooksFundPool DEF VInv, PInv
<1> QED
  BY <1>1, VotingInvariant, PTL
-----------------------------------------------------------------------------
(* The campaign with its programs implements the custody: the record of a   *)
(* contributor is the contribution plus the insurance fee, and what was      *)
(* paid out is the creator's and the platform's money.                       *)

custodyVars == <<wallet, Stake, held, creatorBal + platformBal>>

\* The instance adds up records in the same way.
LEMMA SameRecords == \A f, S : Keeping!TotalOf(f, S) = TotalOf(f, S)
<1>1. \A S : Keeping!Cardinality(S) = Cardinality(S)
  BY DEF Keeping!Cardinality, Cardinality
<1> QED
  BY <1>1 DEF Keeping!TotalOf, Keeping!Coins, TotalOf, Coins

LEMMA KeepInit == XInit => Keeping!Init
BY Constants DEF XInit, PInit, Init, Keeping!Init, Stake

\* Records are natural numbers, and add up to what is held and was paid out.
LEMMA RecordsTotal ==
  Books => /\ Stake \in [Contributors -> Nat]
           /\ TotalOf(Stake, Contributors) = held + creatorBal + platformBal
<1> SUFFICES ASSUME Books
             PROVE  /\ Stake \in [Contributors -> Nat]
                    /\ TotalOf(Stake, Contributors) = held + creatorBal + platformBal
  OBVIOUS
<1>1. IsFiniteSet(Contributors)
  BY Constants
<1>2. TotalOf(Stake, Contributors) = Booked + Fees
  BY <1>1, TotalOfSum DEF Books, TypeOK, Booked, Fees, Stake
<1>3. \A c \in Contributors : contribution[c] + insuranceFee[c] \in Nat
  BY DEF Books, TypeOK
<1> QED
  BY <1>2, <1>3 DEF Books, Conserved, Booked, Fees, Stake

\* Tokens that move from a wallet to the contract and onto a record are put in.
LEMMA KeepPut ==
  ASSUME Books, NEW payer \in Contributors, NEW c \in Contributors,
         NEW a \in Nat \ {0}, wallet[payer] >= a,
         wallet' = [wallet EXCEPT ![payer] = @ - a],
         held' = held + a,
         \A x \in Contributors :
           contribution'[x] + insuranceFee'[x]
             = contribution[x] + insuranceFee[x] + IF x = c THEN a ELSE 0,
         UNCHANGED payees
  PROVE  Keeping!Put(payer, c)
<1>1. a \in 1..wallet[payer]
  BY DEF Books, TypeOK
<1>2. Stake' = [Stake EXCEPT ![c] = @ + a]
  <2>1. \A x \in Contributors : contribution[x] \in Nat /\ insuranceFee[x] \in Nat
    BY DEF Books, TypeOK
  <2>2. \A x \in Contributors : Stake'[x] = [Stake EXCEPT ![c] = @ + a][x]
    BY <2>1 DEF Stake
  <2> QED
    BY <2>2 DEF Stake
<1>3. (creatorBal + platformBal)' = creatorBal + platformBal
  BY DEF payees
<1> QED
  BY <1>1, <1>2, <1>3 DEF Keeping!Put

\* A step that only lowers records and moves exactly that much to the wallets
\* of those they stand for is a return.
LEMMA KeepReturn ==
  ASSUME Books, Books', UNCHANGED <<creatorBal, platformBal>>,
         \A c \in Contributors : /\ contribution'[c] <= contribution[c]
                                 /\ insuranceFee'[c] <= insuranceFee[c]
                                 /\ Wealth(c)' = Wealth(c)
  PROVE  Keeping!Return
<1> DEFINE back == [c \in Contributors |-> Stake[c] - Stake'[c]]
           Old == TotalOf(Stake, Contributors)
           New == TotalOf(Stake', Contributors)
           Back == TotalOf(back, Contributors)
<1>1. /\ Stake \in [Contributors -> Nat] /\ Stake' \in [Contributors -> Nat]
      /\ Old = held + creatorBal + platformBal
      /\ New = held' + creatorBal + platformBal
  <2>1. Stake \in [Contributors -> Nat] /\ Old = held + creatorBal + platformBal
    BY RecordsTotal
  <2>2. (/\ Stake \in [Contributors -> Nat]
         /\ TotalOf(Stake, Contributors) = held + creatorBal + platformBal)'
    BY RecordsTotal, PTL
  <2>3. Stake' \in [Contributors -> Nat] /\ New = held' + creatorBal' + platformBal'
    BY <2>2
  <2> QED
    BY <2>1, <2>3
<1>2. \A c \in Contributors : Stake'[c] <= Stake[c] /\ back[c] \in Nat
                              /\ back[c] <= Stake[c]
  <2>1. \A c \in Contributors : Stake'[c] <= Stake[c]
    BY DEF Books, TypeOK, Stake
  <2> QED
    BY <1>1, <2>1
<1>3. Old = New + Back
  <2>1. IsFiniteSet(Contributors)
    BY Constants
  <2>2. TotalOf([x \in Contributors |-> Stake'[x] + back[x]], Contributors) = New + Back
    <3> HIDE DEF back
    <3> QED
      BY <1>1, <1>2, <2>1, TotalOfSum
  <2>3. \A x \in Contributors : [y \in Contributors |-> Stake'[y] + back[y]][x] = Stake[x]
    BY <1>1
  <2>4. TotalOf([x \in Contributors |-> Stake'[x] + back[x]], Contributors) = Old
    BY <2>3, TotalOfSame
  <2> QED
    BY <2>2, <2>4
<1>4. Back \in Nat /\ \A c \in Contributors : back[c] <= Back
  <2>1. IsFiniteSet(Contributors)
    BY Constants
  <2> HIDE DEF back
  <2> QED
    BY <1>2, <2>1, TotalOfType, TotalOfAtLeast
<1>t. held \in Nat /\ held' \in Nat /\ creatorBal \in Nat /\ platformBal \in Nat
  BY DEF Books, TypeOK
<1>5. held' = held - Back /\ Back <= held
  <2>1. PICK k \in Nat : k = held'
    BY <1>t
  <2>2. PICK b \in Nat : b = Back
    BY <1>4
  <2>3. held + creatorBal + platformBal = k + creatorBal + platformBal + b
    BY <1>1, <1>3, <2>1, <2>2
  <2>4. k = held - b /\ b <= held
    BY <1>t, <2>3
  <2> QED
    BY <2>1, <2>2, <2>4, Zenon
<1>6. back \in Keeping!Refunds
  <2>1. \A c \in Contributors : back[c] \in 0..held
    <3> HIDE DEF back, Back
    <3> QED
      BY <1>2, <1>4, <1>5, <1>t
  <2>2. back \in [Contributors -> 0..held]
    BY <2>1
  <2> QED
    BY <1>2, <1>5, <2>2, SameRecords DEF Keeping!Refunds
<1>7. wallet' = [c \in Contributors |-> wallet[c] + back[c]]
  <2>1. \A c \in Contributors : wallet'[c] + Stake'[c] = wallet[c] + Stake[c]
    BY DEF Books, TypeOK, Wealth, Stake
  <2>2. \A c \in Contributors : wallet'[c] = wallet[c] + back[c]
    BY <1>1, <2>1 DEF Books, TypeOK
  <2> QED
    BY <2>2 DEF Books, TypeOK
<1>8. Stake' = [c \in Contributors |-> Stake[c] - back[c]]
  <2>1. \A c \in Contributors : Stake'[c] = Stake[c] - back[c]
    BY <1>1
  <2> QED
    BY <1>1, <2>1
<1>9. (creatorBal + platformBal)' = creatorBal + platformBal
  OBVIOUS
<1> QED
  <2> HIDE DEF back
  <2>1. held' = held - Keeping!TotalOf(back, Contributors)
    BY <1>5, SameRecords
  <2> QED
    BY <1>6, <1>7, <1>8, <1>9, <2>1 DEF Keeping!Return

\* withdraw is the one payment out, or pays nothing.
LEMMA KeepPayOut ==
  ASSUME Books, Withdraw
  PROVE  Keeping!PayOut \/ UNCHANGED custodyVars
<1> DEFINE fee == Share(Payable, PlatformBps)
           vested == Vested(Payable - fee)
<1>1. fee \in Nat /\ vested \in Nat
  BY PayOutParts DEF Books, Withdraw
<1>2. /\ held >= fee + vested
      /\ held' = held - fee - vested
      /\ platformBal' = platformBal + fee
      /\ creatorBal' = creatorBal + vested
      /\ status = "Active"
      /\ UNCHANGED <<contribution, insuranceFee, wallet>>
  BY DEF Withdraw, PayOut, insurance
<1> HIDE DEF fee, vested
<1>3. creatorBal = 0 /\ platformBal = 0 /\ held \in Nat
  BY <1>2 DEF Books, TypeOK, OpenMeansUnpaid, Unpaid
<1>4. Stake' = Stake
  BY <1>2 DEF Stake
<1>5. /\ creatorBal + platformBal = 0
      /\ (creatorBal + platformBal)' = vested + fee
      /\ held' = held - (vested + fee)
  BY <1>1, <1>2, <1>3
<1>6. CASE vested + fee = 0
  BY <1>2, <1>3, <1>4, <1>5, <1>6 DEF custodyVars
<1>7. CASE vested + fee # 0
  <2>1. vested + fee \in 1..held
    BY <1>1, <1>2, <1>3, <1>7
  <2> QED
    BY <1>2, <1>4, <1>5, <2>1 DEF Keeping!PayOut
<1> QED
  BY <1>6, <1>7

\* The calls of module Crowdfund.
LEMMA KeepCampaign ==
  ASSUME Books, Books', [Next]_vars
  PROVE  Keeping!Next \/ UNCHANGED custodyVars
<1> USE DEF Keeping!Next
<1>w. TypeOK /\ \A x \in Contributors : Wealth(x)' = Wealth(x)
  BY MoneyMoves DEF Books
<1>1. ASSUME NEW c \in Contributors, NEW a \in Amounts, Contribute(c, a)
      PROVE  Keeping!Next
  <2> DEFINE fee == Share(a, insuranceBps)
             net == NetOf(a)
  <2>1. a \in Nat \ {0} /\ fee \in Nat /\ net \in Nat /\ net + fee = a
    BY <1>w, Constants, NetBounds
  <2>2. /\ wallet[c] >= a
        /\ wallet' = [wallet EXCEPT ![c] = @ - a]
        /\ held' = held + a
        /\ contribution' = [contribution EXCEPT ![c] = @ + net]
        /\ insuranceFee' = [insuranceFee EXCEPT ![c] = @ + fee]
        /\ UNCHANGED payees
    BY <1>1 DEF Contribute
  <2> HIDE DEF fee, net
  <2>3. \A x \in Contributors :
          contribution'[x] + insuranceFee'[x]
            = contribution[x] + insuranceFee[x] + IF x = c THEN a ELSE 0
    BY <1>w, <2>1, <2>2 DEF TypeOK
  <2>4. Keeping!Put(c, c)
    BY <2>1, <2>2, <2>3, KeepPut
  <2> QED
    BY <2>4
<1>2. CASE Withdraw
  BY <1>2, KeepPayOut
<1>3. ASSUME NEW S \in SUBSET Contributors, PayBack(S),
             UNCHANGED <<insurance, payees>>
      PROVE  Keeping!Next
  <2>1. \A c \in Contributors : /\ contribution'[c] <= contribution[c]
                                /\ insuranceFee'[c] <= insuranceFee[c]
    BY <1>3, <1>w DEF PayBack, insurance, TypeOK
  <2> QED
    BY <1>3, <1>w, <2>1, KeepReturn DEF payees
<1>4. ASSUME NEW c \in Contributors, RefundSingle(c)
      PROVE  Keeping!Next
  <2>1. {c} \in SUBSET Contributors
    OBVIOUS
  <2> QED
    BY <1>3, <1>4, <2>1 DEF RefundSingle
<1>5. ASSUME NEW S \in SUBSET Contributors, RefundBatch(S)
      PROVE  Keeping!Next
  BY <1>3, <1>5 DEF RefundBatch
<1>6. ASSUME NEW c \in Contributors, NEW a \in Amounts, RefundPartial(c, a)
      PROVE  Keeping!Next
  <2>1. a \in Nat
    BY Constants
  <2>2. \A x \in Contributors : /\ contribution'[x] <= contribution[x]
                                /\ insuranceFee'[x] <= insuranceFee[x]
    BY <1>6, <1>w, <2>1 DEF RefundPartial, insurance, TypeOK
  <2>3. UNCHANGED <<creatorBal, platformBal>>
    BY <1>6 DEF RefundPartial, payees
  <2> QED
    BY <1>w, <2>2, <2>3, KeepReturn
<1>7. ASSUME NEW c \in Contributors, ClaimInsurancePayout(c)
      PROVE  Keeping!Next
  <2>1. \A x \in Contributors : /\ contribution'[x] <= contribution[x]
                                /\ insuranceFee'[x] <= insuranceFee[x]
    BY <1>7, <1>w DEF ClaimInsurancePayout, TypeOK
  <2>2. UNCHANGED <<creatorBal, platformBal>>
    BY <1>7 DEF ClaimInsurancePayout, payees
  <2> QED
    BY <1>w, <2>1, <2>2, KeepReturn
<1>8. ASSUME UNCHANGED <<contribution, insuranceFee, wallet, held, payees>>
      PROVE  UNCHANGED custodyVars
  BY <1>8 DEF custodyVars, Stake, payees
<1> HIDE DEF Keeping!Next
<1> QED
  BY <1>1, <1>2, <1>4, <1>5, <1>6, <1>7, <1>8
     DEF Next, Tick, ExtendDeadline, AdjustGoal, CancelCampaign, Archive,
         Pause, Resume, SetStatus, SetupMatching, EnableInsurance,
         SetAdmission, insurance, vars, payees

\* Booking by schedule or for somebody else is a put by the payer.
LEMMA KeepBook ==
  ASSUME Books, NEW payer \in Contributors, NEW c \in Contributors,
         NEW a \in Nat \ {0}, Book(payer, c, a)
  PROVE  Keeping!Next
<1>1. /\ wallet[payer] >= a
      /\ wallet' = [wallet EXCEPT ![payer] = @ - a]
      /\ held' = held + a
      /\ contribution' = [contribution EXCEPT ![c] = @ + a]
      /\ UNCHANGED <<insuranceFee, payees>>
  BY DEF Book, insurance
<1>2. \A x \in Contributors :
        contribution'[x] + insuranceFee'[x]
          = contribution[x] + insuranceFee[x] + IF x = c THEN a ELSE 0
  BY <1>1 DEF Books, TypeOK
<1>3. Keeping!Put(payer, c)
  BY <1>1, <1>2, KeepPut
<1> QED
  BY <1>3 DEF Keeping!Next

LEMMA KeepNext ==
  VInv /\ VInv' /\ [XNext]_xvars => [Keeping!Next]_custodyVars
<1> SUFFICES ASSUME VInv, VInv', [XNext]_xvars
             PROVE  Keeping!Next \/ UNCHANGED custodyVars
  OBVIOUS
<1>0. Books /\ Books' /\ PTypeOK
  BY DEF VInv, PInv
<1>1. CASE [Next]_vars
  BY <1>0, <1>1, KeepCampaign
<1>2. ASSUME NEW c \in Contributors, ExecuteRecurring(c)
      PROVE  Keeping!Next
  <2> DEFINE a == plan[c].terms.amount
  <2>1. plan[c] \in Plans
    BY <1>0, <1>2 DEF ExecuteRecurring, PTypeOK
  <2>2. a \in Nat \ {0}
    BY <2>1 DEF Plans, Terms
  <2>3. Book(c, c, a)
    BY <1>2 DEF ExecuteRecurring
  <2> HIDE DEF a
  <2> QED
    BY <1>0, <2>2, <2>3, KeepBook
<1>3. ASSUME NEW c \in Contributors, NEW d \in Contributors, NEW a \in Amounts,
             ContributeOnBehalf(c, d, a)
      PROVE  Keeping!Next
  <2>1. a \in Nat \ {0} /\ Book(d, c, a)
    BY <1>3, Constants DEF ContributeOnBehalf
  <2> QED
    BY <1>0, <2>1, KeepBook
<1>4. CASE ExecuteExtension
  BY <1>4 DEF ExecuteExtension, custodyVars, Stake, insurance, payees
<1> QED
  BY <1>1, <1>2, <1>3, <1>4
     DEF XNext, OtherCall, PNext, CampaignCall, ProgramCall, SetupRecurring,
         CancelRecurring, DelegateContribution, RevokeDelegation,
         ProposeExtension, VoteOnExtension, xvars, pvars

\* Schedules and delegates book in any status and for others; still every call
\* is a step of module Custody: no token is lost, made, or returned to anyone
\* but the one on whose record it was, and one payment is made.
THEOREM ProgramsKeepCustody == XSpec => ImplementsCustody
<1>1. VInv /\ [XNext]_xvars => VInv'
  BY VInvNext
<1> QED
  BY <1>1, KeepInit, KeepNext, VotingInvariant, PTL
     DEF XSpec, ImplementsCustody, Keeping!Spec, custodyVars
-----------------------------------------------------------------------------
(* Refunds arrive next to the programs too: nothing that is booked by        *)
(* schedule or for others makes a call of refund_single fail that is due.    *)

\* Only withdraw pays, and a failed campaign is not paid out.
LEMMA OwedStepWithPrograms ==
  ASSUME NEW c \in Contributors
  PROVE  VInv /\ Owed(c) /\ [XNext]_xvars => Owed(c)' \/ Cleared(c)'
<1> SUFFICES ASSUME VInv, Owed(c), [XNext]_xvars
             PROVE  Owed(c)' \/ Cleared(c)'
  OBVIOUS
<1>1. Books /\ VInv'
  BY VInvNext DEF VInv, PInv
<1>2. CASE [Next]_vars
  BY <1>1, <1>2, OwedStep
<1>3. CASE ~[Next]_vars
  <2>1. UNCHANGED payees
    BY <1>3 DEF XNext, OtherCall, PNext, CampaignCall, ProgramCall,
       SetupRecurring, ExecuteRecurring, CancelRecurring,
       DelegateContribution, ContributeOnBehalf, RevokeDelegation, Book,
       ProposeExtension, VoteOnExtension, ExecuteExtension, xvars, pvars
  <2>2. contribution'[c] \in Nat
    BY <1>1 DEF VInv, PInv, Books, TypeOK
  <2>3. Unpaid'
    BY <2>1 DEF Owed, Unpaid, payees
  <2>4. CASE CampaignFailed' /\ contribution'[c] > 0
    BY <2>3, <2>4 DEF Owed
  <2>5. CASE ~(CampaignFailed' /\ contribution'[c] > 0)
    BY <2>2, <2>5 DEF Cleared
  <2> QED
    BY <2>4, <2>5
<1> QED
  BY <1>2, <1>3

\* A failed campaign pays everybody back for whom somebody keeps calling
\* refund_single, whatever schedules and delegates book meanwhile and whatever
\* becomes of votes on its deadline.
THEOREM RefundsArriveWithPrograms ==
  XSpec /\ (\A c \in Contributors : AskedFor(c)) => RefundEventually
<1> SUFFICES ASSUME NEW c \in Contributors
             PROVE  XSpec /\ (\A x \in Contributors : AskedFor(x)) =>
                      ((Unpaid /\ CampaignFailed)
                         ~> (contribution[c] = 0 \/ ~CampaignFailed))
  BY DEF RefundEventually
<1>1. VInv /\ Owed(c) /\ [XNext]_xvars => Owed(c)' \/ Cleared(c)'
  BY OwedStepWithPrograms
<1>2. <<RefundSingle(c)>>_vars => Cleared(c)'
  BY RefundClears
<1>3. Books /\ Owed(c) => RefundCallable(c)
  BY OwedCallable
<1>4. (\A x \in Contributors : AskedFor(x)) => AskedFor(c)
  OBVIOUS
<1>5. /\ Books /\ Unpaid /\ CampaignFailed => Owed(c) \/ Cleared(c)
      /\ Cleared(c) <=> contribution[c] = 0 \/ ~CampaignFailed
  BY OwedOrCleared
<1>6. VInv => Books
  BY DEF VInv, PInv
<1> QED
  BY <1>1, <1>2, <1>3, <1>4, <1>5, <1>6, VotingInvariant, PTL
     DEF XSpec, AskedFor
=============================================================================
