--------------------------- MODULE CrowdfundProofs --------------------------
(***************************************************************************)
(* Proofs about Crowdfund, for every set of contributors, every amount,    *)
(* fee, matching configuration and vesting schedule; last, that it         *)
(* implements Escrow.                                                      *)
(***************************************************************************)
EXTENDS Crowdfund, TokenTotalsProofs

-----------------------------------------------------------------------------
(* What the assumption on the constants says of one value at a time. *)

LEMMA Constants ==
  /\ IsFiniteSet(Contributors)
  /\ InitialWallet \in Nat
  /\ \A a \in Amounts : a \in Nat /\ a > 0
  /\ \A g \in Goals : g \in Nat /\ g > 0
  /\ Deadlines \subseteq Nat
  /\ PlatformBps \in 0..FullRate
  /\ InsuranceRates \subseteq 0..FullRate
  /\ AdmissionSets \subseteq SUBSET Contributors
BY CrowdfundAssumption

LEMMA ConfigurationTypes ==
  /\ \A m \in MatchingConfigs : m.ratio \in 0..FullRate /\ m.max \in Nat
  /\ Vesting # NoVesting => Vesting.cliff \in Nat /\ Vesting.duration \in Nat
<1>1. \A m \in MatchingConfigs : m.ratio \in 0..FullRate /\ m.max \in Nat
  <2>1. MatchingConfigs \subseteq [ratio : 0..FullRate, max : Nat \ {0}]
    BY CrowdfundAssumption
  <2> QED
    BY <2>1
<1>2. Vesting # NoVesting => Vesting.cliff \in Nat /\ Vesting.duration \in Nat
  <2>1. Vesting # NoVesting => Vesting \in [cliff : Nat, duration : Nat]
    BY CrowdfundAssumption DEF VestingSchedules
  <2> QED
    BY <2>1
<1> QED
  BY <1>1, <1>2

(* Shares and schedules are natural numbers. *)

\* A share in basis points lies between nothing and the whole.
LEMMA ShareBounds ==
  ASSUME NEW a \in Nat, NEW b \in 0..FullRate
  PROVE  Share(a, b) \in Nat /\ Share(a, b) <= a
<1>0. FullRate \in Nat \ {0}
  BY DEF FullRate
<1>1. a * b \in Nat /\ a * b <= a * FullRate
  BY <1>0
<1>2. \A x \in Nat, n \in Nat \ {0} : x \div n \in Nat /\ n * (x \div n) <= x
  OBVIOUS
<1>3. \A x, y \in Nat, n \in Nat \ {0} : n * y <= n * x => y <= x
  OBVIOUS
<1>4. (a * b) \div FullRate \in Nat /\ FullRate * ((a * b) \div FullRate) <= a * FullRate
  BY <1>0, <1>1, <1>2
<1>5. (a * b) \div FullRate <= a
  BY <1>0, <1>3, <1>4
<1> QED
  BY <1>4, <1>5 DEF Share

LEMMA NetBounds ==
  ASSUME TypeOK, NEW a \in Amounts
  PROVE  /\ Share(a, insuranceBps) \in Nat
         /\ NetOf(a) \in Nat
         /\ NetOf(a) + Share(a, insuranceBps) = a
<1>1. a \in Nat /\ insuranceBps \in 0..FullRate
  BY Constants DEF TypeOK
<1>2. Share(a, insuranceBps) \in Nat /\ Share(a, insuranceBps) <= a
  BY <1>1, ShareBounds
<1> QED
  BY <1>1, <1>2 DEF NetOf

\* What is matched never exceeds what the configuration still allows.
LEMMA MatchedBounds ==
  ASSUME TypeOK, NEW n \in Nat
  PROVE  /\ Matched(n) \in Nat
         /\ matching # NoMatching /\ totalMatched <= matching.max
              => totalMatched + Matched(n) <= matching.max
<1>1. CASE matching = NoMatching
  BY <1>1 DEF Matched
<1>2. CASE matching # NoMatching
  <2>1. matching.ratio \in 0..FullRate /\ matching.max \in Nat /\ totalMatched \in Nat
    BY <1>2, ConfigurationTypes DEF TypeOK
  <2>2. Share(n, matching.ratio) \in Nat
    BY <2>1, ShareBounds
  <2> QED
    BY <1>2, <2>1, <2>2 DEF Matched
<1> QED
  BY <1>1, <1>2

LEMMA VestedType ==
  ASSUME TypeOK, NEW p \in Nat, Vesting # NoVesting => now >= Vesting.cliff
  PROVE  /\ Vested(p) \in Nat
         /\ Vesting = NoVesting => Vested(p) = p
<1>1. CASE Vesting = NoVesting
  BY <1>1 DEF Vested
<1>2. CASE Vesting # NoVesting
  <2>1. Vesting.cliff \in Nat /\ Vesting.duration \in Nat /\ now \in Nat
    BY <1>2, ConfigurationTypes DEF TypeOK
  <2>2. CASE now >= Vesting.cliff + Vesting.duration
    BY <1>2, <2>2 DEF Vested
  <2>3. CASE ~(now >= Vesting.cliff + Vesting.duration)
    <3> DEFINE elapsed == now - Vesting.cliff
    <3>1. elapsed \in Nat /\ Vesting.duration \in Nat \ {0}
      BY <1>2, <2>1, <2>3
    <3>2. p * elapsed \in Nat
      BY <3>1
    <3>3. \A x \in Nat, y \in Nat \ {0} : x \div y \in Nat
      OBVIOUS
    <3>4. (p * elapsed) \div Vesting.duration \in Nat
      BY <3>1, <3>2, <3>3
    <3> QED
      BY <1>2, <2>3, <3>4 DEF Vested
  <2> QED
    BY <2>2, <2>3
<1> QED
  BY <1>1, <1>2

\* The two parts of a payout, when the goal was reached.
LEMMA PayOutParts ==
  ASSUME TypeOK, GoalReached, Vesting # NoVesting => now >= Vesting.cliff
  PROVE  LET fee == Share(Payable, PlatformBps)
             vested == Vested(Payable - fee)
         IN  /\ fee \in Nat /\ vested \in Nat
             /\ total \in Nat /\ total >= goal /\ goal > 0
             /\ Vesting = NoVesting => fee + vested = total
<1>1. total \in Nat /\ total >= goal /\ goal > 0
  BY Constants DEF TypeOK, GoalReached
<1>0. PlatformBps \in 0..FullRate
  BY Constants
<1>2. Share(total, PlatformBps) \in Nat /\ Share(total, PlatformBps) <= total
  BY <1>0, <1>1, ShareBounds
<1>3. total - Share(total, PlatformBps) \in Nat
  BY <1>1, <1>2
<1> QED
  BY <1>1, <1>2, <1>3, VestedType DEF Payable

-----------------------------------------------------------------------------
(* Types. *)

LEMMA TypeInit == Init => TypeOK
<1>1. 0 \in 0..FullRate
  BY DEF FullRate
<1> QED
  BY <1>1, Constants DEF Init, TypeOK, Statuses

LEMMA TypeNext == TypeOK /\ [Next]_vars => TypeOK'
<1> SUFFICES ASSUME TypeOK, [Next]_vars
             PROVE  TypeOK'
  OBVIOUS
<1> USE DEF TypeOK, Statuses, campaign, insurance, match, payees
<1>1. CASE Tick
  BY <1>1 DEF Tick
<1>2. ASSUME NEW c \in Contributors, NEW a \in Amounts, Contribute(c, a)
      PROVE  TypeOK'
  <2>1. /\ a \in Nat /\ Share(a, insuranceBps) \in Nat /\ NetOf(a) \in Nat
        /\ Matched(NetOf(a)) \in Nat
    BY Constants, NetBounds, MatchedBounds
  <2>2. wallet[c] - a \in Nat
    BY <1>2, <2>1 DEF Contribute
  <2> QED
    BY <1>2, <2>1, <2>2 DEF Contribute
<1>3. CASE Withdraw
  <2>1. /\ Share(Payable, PlatformBps) \in Nat
        /\ Vested(Payable - Share(Payable, PlatformBps)) \in Nat
    BY <1>3, PayOutParts DEF Withdraw
  <2> QED
    BY <1>3, <2>1 DEF Withdraw, PayOut
<1>4. ASSUME NEW d \in Deadlines, ExtendDeadline(d)
      PROVE  TypeOK'
  BY <1>4 DEF ExtendDeadline
<1>5. ASSUME NEW g \in Goals, AdjustGoal(g)
      PROVE  TypeOK'
  BY <1>5 DEF AdjustGoal
<1>6. CASE CancelCampaign \/ Archive \/ Pause \/ Resume
  BY <1>6 DEF CancelCampaign, Archive, Pause, Resume, SetStatus
<1>7. ASSUME NEW S \in SUBSET Contributors, PayBack(S),
             UNCHANGED <<now, campaign, total, insurance, match, admitted, payees>>
      PROVE  TypeOK'
  <2>1. IsFiniteSet(S)
    BY Constants, FS_Subset
  <2>2. TotalOf(contribution, S) \in Nat
    BY <2>1, TotalOfType
  <2> QED
    BY <1>7, <2>2 DEF PayBack
<1>8. ASSUME NEW c \in Contributors, NEW a \in Amounts, RefundPartial(c, a)
      PROVE  TypeOK'
  <2>1. a \in Nat /\ contribution[c] \in Nat
    BY Constants
  <2>2. contribution[c] - a \in Nat
    BY <1>8, <2>1 DEF RefundPartial, PartialRefundLimit
  <2> QED
    BY <1>8, <2>1, <2>2 DEF RefundPartial
<1>9. ASSUME NEW m \in MatchingConfigs, SetupMatching(m)
      PROVE  TypeOK'
  BY <1>9 DEF SetupMatching
<1>10. ASSUME NEW bps \in InsuranceRates, EnableInsurance(bps)
       PROVE  TypeOK'
  BY <1>10, Constants DEF EnableInsurance
<1>11. ASSUME NEW c \in Contributors, ClaimInsurancePayout(c)
       PROVE  TypeOK'
  BY <1>11 DEF ClaimInsurancePayout, PoolAfterClaim
<1>12. ASSUME NEW S \in AdmissionSets, SetAdmission(S)
       PROVE  TypeOK'
  BY <1>12, Constants DEF SetAdmission
<1>13. CASE UNCHANGED vars
  BY <1>13 DEF vars
<1>14. ASSUME NEW c \in Contributors, RefundSingle(c)
       PROVE  TypeOK'
  BY <1>7, <1>14 DEF RefundSingle
<1>15. ASSUME NEW S \in SUBSET Contributors, RefundBatch(S)
       PROVE  TypeOK'
  BY <1>7, <1>15 DEF RefundBatch
<1> QED
  BY <1>1, <1>2, <1>3, <1>4, <1>5, <1>6, <1>8, <1>9, <1>10, <1>11, <1>12,
     <1>13, <1>14, <1>15 DEF Next

\* The state stays well typed: in particular no balance, fee, pool counter or
\* token balance of the contract becomes negative.
THEOREM TypeCorrect == Spec => []TypeOK
BY TypeInit, TypeNext, PTL DEF Spec

-----------------------------------------------------------------------------
(* What a call moves.  These facts need the types only, so they also hold   *)
(* next to the programs and the emergency calls, where the books differ.    *)

Booked == TotalOf(contribution, Contributors)
Fees == TotalOf(insuranceFee, Contributors)

\* What an address owns or has on record.
Wealth(c) == wallet[c] + contribution[c] + insuranceFee[c]

\* What the contract received less what is on record.
Surplus == held + creatorBal + platformBal - Booked - Fees

LEMMA SumTypes ==
  ASSUME TypeOK
  PROVE  Booked \in Nat /\ Fees \in Nat
BY Constants, TotalOfType DEF TypeOK, Booked, Fees

\* Changing one contributor's entry changes the sum by the difference.
LEMMA SumOfChange ==
  ASSUME NEW f \in [Contributors -> Nat], NEW g \in [Contributors -> Nat],
         NEW c \in Contributors, \A x \in Contributors \ {c} : f[x] = g[x]
  PROVE  TotalOf(g, Contributors) = TotalOf(f, Contributors) + g[c] - f[c]
<1>1. IsFiniteSet(Contributors)
  BY Constants
<1>2. (\A x \in Contributors : f[x] \in Nat) /\ (\A x \in Contributors : g[x] \in Nat)
  OBVIOUS
<1> QED
  BY <1>1, <1>2, TotalOfChange

\* contribute books the net amount and the fee.
LEMMA SumsContribute ==
  ASSUME TypeOK, TypeOK', NEW c \in Contributors, NEW a \in Amounts,
         Contribute(c, a)
  PROVE  Booked' = Booked + NetOf(a) /\ Fees' = Fees + Share(a, insuranceBps)
<1> DEFINE fee == Share(a, insuranceBps)
           net == NetOf(a)
<1>1. fee \in Nat /\ net \in Nat
  BY NetBounds
<1>2. /\ contribution' = [contribution EXCEPT ![c] = @ + net]
      /\ insuranceFee' = [insuranceFee EXCEPT ![c] = @ + fee]
  BY DEF Contribute
<1> HIDE DEF fee, net
<1>3. Booked' = Booked + contribution'[c] - contribution[c]
  BY <1>2, SumOfChange DEF TypeOK, Booked
<1>4. Fees' = Fees + insuranceFee'[c] - insuranceFee[c]
  BY <1>2, SumOfChange DEF TypeOK, Fees
<1>5. Booked' = Booked + net /\ Fees' = Fees + fee
  BY <1>1, <1>2, <1>3, <1>4, SumTypes DEF TypeOK
<1> QED
  BY <1>5 DEF fee, net

\* A full refund takes what it pays back off the records.
LEMMA SumsPayBack ==
  ASSUME TypeOK, TypeOK', NEW S \in SUBSET Contributors, PayBack(S)
  PROVE  /\ TotalOf(contribution, S) \in Nat
         /\ Booked' = Booked - TotalOf(contribution, S)
<1>1. contribution' = [c \in Contributors |->
                         IF c \in S THEN 0 ELSE contribution[c]]
  BY DEF PayBack
<1>2. /\ TotalOf(contribution, S) \in Nat
      /\ TotalOf(contribution, Contributors \ S) \in Nat
  BY Constants, FS_Subset, FS_Difference, TotalOfType DEF TypeOK
<1>3. Booked = TotalOf(contribution, S) + TotalOf(contribution, Contributors \ S)
  BY Constants, TotalOfSplit DEF TypeOK, Booked
<1>4. Booked' = TotalOf(contribution', S) + TotalOf(contribution', Contributors \ S)
  BY Constants, TotalOfSplit DEF TypeOK, Booked
<1>5. TotalOf(contribution', S) = 0
  BY <1>1, TotalOfZero
<1>6. TotalOf(contribution', Contributors \ S) = TotalOf(contribution, Contributors \ S)
  BY <1>1, TotalOfSame
<1> QED
  BY <1>2, <1>3, <1>4, <1>5, <1>6

\* So does a partial one.
LEMMA SumsRefundPartial ==
  ASSUME TypeOK, TypeOK', NEW c \in Contributors, NEW a \in Amounts,
         RefundPartial(c, a)
  PROVE  Booked' = Booked - a
<1>1. a \in Nat /\ contribution' = [contribution EXCEPT ![c] = @ - a]
  BY Constants DEF RefundPartial
<1>2. Booked' = Booked + contribution'[c] - contribution[c]
  BY <1>1, SumOfChange DEF TypeOK, Booked
<1> QED
  BY <1>1, <1>2, SumTypes DEF TypeOK

\* An insurance payout takes the fee off the records.
LEMMA SumsClaim ==
  ASSUME TypeOK, TypeOK', NEW c \in Contributors, ClaimInsurancePayout(c)
  PROVE  Fees' = Fees - insuranceFee[c]
<1>1. insuranceFee' = [insuranceFee EXCEPT ![c] = 0]
  BY DEF ClaimInsurancePayout
<1>2. Fees' = Fees + insuranceFee'[c] - insuranceFee[c]
  BY <1>1, SumOfChange DEF TypeOK, Fees
<1> QED
  BY <1>1, <1>2, SumTypes DEF TypeOK

\* The steps that move no tokens.
LEMMA SumsQuiet ==
  ASSUME UNCHANGED <<contribution, insuranceFee>>
  PROVE  Booked' = Booked /\ Fees' = Fees
BY DEF Booked, Fees

\* No call takes from one address what is on record for another, and what the
\* contract receives or pays is booked.
LEMMA MoneyMoves ==
  TypeOK /\ [Next]_vars =>
    /\ \A c \in Contributors : Wealth(c)' = Wealth(c)
    /\ Surplus' = Surplus
<1> SUFFICES ASSUME TypeOK, [Next]_vars
             PROVE  /\ \A x \in Contributors : Wealth(x)' = Wealth(x)
                    /\ Surplus' = Surplus
  OBVIOUS
<1>0. TypeOK' /\ Booked \in Nat /\ Fees \in Nat
  BY TypeNext, SumTypes
<1>1. ASSUME NEW c \in Contributors, NEW a \in Amounts, Contribute(c, a)
      PROVE  /\ \A x \in Contributors : Wealth(x)' = Wealth(x)
             /\ Surplus' = Surplus
  <2> DEFINE fee == Share(a, insuranceBps)
             net == NetOf(a)
  <2>1. a \in Nat /\ fee \in Nat /\ net \in Nat /\ net + fee = a
    BY Constants, NetBounds
  <2>2. Booked' = Booked + net /\ Fees' = Fees + fee
    BY <1>0, <1>1, SumsContribute
  <2>3. /\ wallet' = [wallet EXCEPT ![c] = @ - a]
        /\ contribution' = [contribution EXCEPT ![c] = @ + net]
        /\ insuranceFee' = [insuranceFee EXCEPT ![c] = @ + fee]
        /\ held' = held + a
        /\ UNCHANGED <<creatorBal, platformBal>>
    BY <1>1 DEF Contribute, payees
  <2> HIDE DEF fee, net
  <2>4. \A x \in Contributors : Wealth(x)' = Wealth(x)
    BY <2>1, <2>3 DEF TypeOK, Wealth
  <2> QED
    BY <1>0, <2>1, <2>2, <2>3, <2>4 DEF TypeOK, Surplus
<1>2. CASE Withdraw
  <2> DEFINE fee == Share(Payable, PlatformBps)
             vested == Vested(Payable - fee)
  <2>1. fee \in Nat /\ vested \in Nat
    BY <1>2, PayOutParts DEF Withdraw
  <2>2. /\ held' = held - fee - vested
        /\ platformBal' = platformBal + fee
        /\ creatorBal' = creatorBal + vested
        /\ UNCHANGED <<contribution, insuranceFee, wallet>>
    BY <1>2 DEF Withdraw, PayOut, insurance
  <2> HIDE DEF fee, vested
  <2>3. \A x \in Contributors : Wealth(x)' = Wealth(x)
    BY <2>2 DEF Wealth
  <2> QED
    BY <1>0, <2>1, <2>2, <2>3, SumsQuiet DEF TypeOK, Surplus
<1>3. ASSUME NEW S \in SUBSET Contributors, PayBack(S), UNCHANGED <<insurance, payees>>
      PROVE  /\ \A x \in Contributors : Wealth(x)' = Wealth(x)
             /\ Surplus' = Surplus
  <2>1. /\ held' = held - TotalOf(contribution, S)
        /\ wallet' = [x \in Contributors |->
                        wallet[x] + IF x \in S THEN contribution[x] ELSE 0]
        /\ contribution' = [x \in Contributors |->
                              IF x \in S THEN 0 ELSE contribution[x]]
        /\ UNCHANGED <<insuranceFee, creatorBal, platformBal>>
    BY <1>3 DEF PayBack, insurance, payees
  <2>2. /\ TotalOf(contribution, S) \in Nat
        /\ Booked' = Booked - TotalOf(contribution, S)
    BY <1>0, <1>3, SumsPayBack
  <2>3. \A x \in Contributors : Wealth(x)' = Wealth(x)
    BY <2>1 DEF TypeOK, Wealth
  <2>4. Fees' = Fees
    BY <2>1 DEF Fees
  <2> QED
    BY <1>0, <2>1, <2>2, <2>3, <2>4 DEF TypeOK, Surplus
<1>4. ASSUME NEW c \in Contributors, RefundSingle(c)
      PROVE  /\ \A x \in Contributors : Wealth(x)' = Wealth(x)
             /\ Surplus' = Surplus
  <2>1. {c} \in SUBSET Contributors
    OBVIOUS
  <2> QED
    BY <1>3, <1>4, <2>1 DEF RefundSingle
<1>5. ASSUME NEW S \in SUBSET Contributors, RefundBatch(S)
      PROVE  /\ \A x \in Contributors : Wealth(x)' = Wealth(x)
             /\ Surplus' = Surplus
  BY <1>3, <1>5 DEF RefundBatch
<1>6. ASSUME NEW c \in Contributors, NEW a \in Amounts, RefundPartial(c, a)
      PROVE  /\ \A x \in Contributors : Wealth(x)' = Wealth(x)
             /\ Surplus' = Surplus
  <2>1. /\ a \in Nat
        /\ held' = held - a
        /\ wallet' = [wallet EXCEPT ![c] = @ + a]
        /\ contribution' = [contribution EXCEPT ![c] = @ - a]
        /\ UNCHANGED <<insuranceFee, creatorBal, platformBal>>
    BY <1>6, Constants DEF RefundPartial, insurance, payees
  <2>2. Booked' = Booked - a
    BY <1>0, <1>6, SumsRefundPartial
  <2>3. \A x \in Contributors : Wealth(x)' = Wealth(x)
    BY <2>1 DEF TypeOK, Wealth
  <2>4. Fees' = Fees
    BY <2>1 DEF Fees
  <2> QED
    BY <1>0, <2>1, <2>2, <2>3, <2>4 DEF TypeOK, Surplus
<1>7. ASSUME NEW c \in Contributors, ClaimInsurancePayout(c)
      PROVE  /\ \A x \in Contributors : Wealth(x)' = Wealth(x)
             /\ Surplus' = Surplus
  <2>1. /\ held' = held - insuranceFee[c]
        /\ wallet' = [wallet EXCEPT ![c] = @ + insuranceFee[c]]
        /\ insuranceFee' = [insuranceFee EXCEPT ![c] = 0]
        /\ UNCHANGED <<contribution, creatorBal, platformBal>>
    BY <1>7 DEF ClaimInsurancePayout, payees
  <2>2. Fees' = Fees - insuranceFee[c]
    BY <1>0, <1>7, SumsClaim
  <2>3. \A x \in Contributors : Wealth(x)' = Wealth(x)
    BY <2>1 DEF TypeOK, Wealth
  <2>4. Booked' = Booked
    BY <2>1 DEF Booked
  <2> QED
    BY <1>0, <2>1, <2>2, <2>3, <2>4 DEF TypeOK, Surplus
<1>8. ASSUME UNCHANGED <<contribution, insuranceFee, wallet, held, creatorBal, platformBal>>
      PROVE  /\ \A x \in Contributors : Wealth(x)' = Wealth(x)
             /\ Surplus' = Surplus
  BY <1>8, SumsQuiet DEF Wealth, Surplus
<1>9. CASE Tick \/ CancelCampaign \/ Archive \/ Pause \/ Resume
  BY <1>8, <1>9 DEF Tick, CancelCampaign, Archive, Pause, Resume, SetStatus,
                    insurance, payees
<1>10. ASSUME NEW d \in Deadlines, ExtendDeadline(d)
       PROVE  /\ \A x \in Contributors : Wealth(x)' = Wealth(x)
              /\ Surplus' = Surplus
  BY <1>8, <1>10 DEF ExtendDeadline, insurance, payees
<1>11. ASSUME NEW g \in Goals, AdjustGoal(g)
       PROVE  /\ \A x \in Contributors : Wealth(x)' = Wealth(x)
              /\ Surplus' = Surplus
  BY <1>8, <1>11 DEF AdjustGoal, insurance, payees
<1>12. ASSUME NEW m \in MatchingConfigs, SetupMatching(m)
       PROVE  /\ \A x \in Contributors : Wealth(x)' = Wealth(x)
              /\ Surplus' = Surplus
  BY <1>8, <1>12 DEF SetupMatching, insurance, payees
<1>13. ASSUME NEW bps \in InsuranceRates, EnableInsurance(bps)
       PROVE  /\ \A x \in Contributors : Wealth(x)' = Wealth(x)
              /\ Surplus' = Surplus
  BY <1>8, <1>13 DEF EnableInsurance, payees
<1>14. ASSUME NEW S \in AdmissionSets, SetAdmission(S)
       PROVE  /\ \A x \in Contributors : Wealth(x)' = Wealth(x)
              /\ Surplus' = Surplus
  BY <1>8, <1>14 DEF SetAdmission, insurance, payees
<1>15. CASE UNCHANGED vars
  BY <1>8, <1>15 DEF vars
<1> QED
  BY <1>1, <1>2, <1>4, <1>5, <1>6, <1>7, <1>9, <1>10, <1>11, <1>12, <1>13,
     <1>14, <1>15 DEF Next

-----------------------------------------------------------------------------
(* The inductive invariant, in two parts.  Books is what every call keeps,  *)
(* the programs of CrowdfundPlans included: Conserved says how much the     *)
(* contract holds, and that the total covers the records stays true as long *)
(* as no payout reset it, which is while the campaign is Active or Paused.  *)
(* That a withdrawal leaves only fees, and that nobody pays for others, is  *)
(* what IInv adds.                                                          *)

\* A campaign that can still be paid out has paid nothing.
OpenMeansUnpaid == status \in {"Active", "Paused"} => Unpaid

Books ==
  /\ TypeOK
  /\ Conserved
  /\ BooksCoverContributions
  /\ PoolOwed
  /\ MatchedWithinCap
  /\ OpenMeansUnpaid

IInv == Books /\ Accounted /\ WithdrawEmptiesContract

LEMMA BooksInit == Init => Books
<1> SUFFICES ASSUME Init
             PROVE  Books
  OBVIOUS
<1>1. TypeOK
  BY TypeInit
<1>2. Booked = 0 /\ Fees = 0
  BY TotalOfZero DEF Init, Booked, Fees
<1> QED
  BY <1>1, <1>2
     DEF Books, Init, Conserved, BooksCoverContributions, PoolOwed,
         MatchedWithinCap, OpenMeansUnpaid, Unpaid, Booked, Fees

\* Conserved says that there is no surplus, so it stays.
LEMMA ConservedNext == TypeOK /\ Conserved /\ [Next]_vars => Conserved'
<1> SUFFICES ASSUME TypeOK, Conserved, [Next]_vars
             PROVE  Conserved'
  OBVIOUS
<1>1. TypeOK' /\ Surplus' = Surplus
  BY TypeNext, MoneyMoves
<1>2. Booked \in Nat /\ Fees \in Nat
  BY SumTypes
<1>3. (Booked \in Nat /\ Fees \in Nat)'
  BY <1>1, SumTypes, PTL
<1> QED
  BY <1>1, <1>2, <1>3 DEF TypeOK, Conserved, Surplus, Booked, Fees

\* contribute raises the total by what it books, or more.
LEMMA BooksContribute ==
  ASSUME Books, NEW c \in Contributors, NEW a \in Amounts, Contribute(c, a),
         TypeOK', Conserved'
  PROVE  Books'
<1> DEFINE fee == Share(a, insuranceBps)
           net == NetOf(a)
           matched == Matched(net)
<1>1. /\ fee \in Nat /\ net \in Nat /\ matched \in Nat
      /\ matching # NoMatching => totalMatched + matched <= matching.max
  BY NetBounds, MatchedBounds DEF Books, MatchedWithinCap
<1>2. Booked' = Booked + net /\ Fees' = Fees + fee
  BY SumsContribute DEF Books
<1>3. /\ insurancePool' = insurancePool + fee
      /\ total' = total + net + matched
      /\ totalMatched' = totalMatched + matched
      /\ UNCHANGED <<status, matching, creatorBal, platformBal>>
  BY DEF Contribute, campaign, payees
<1> HIDE DEF fee, net, matched
<1>4. BooksCoverContributions' /\ PoolOwed'
  BY <1>1, <1>2, <1>3, SumTypes
     DEF Books, TypeOK, BooksCoverContributions, PoolOwed, Booked, Fees
<1>5. MatchedWithinCap' /\ OpenMeansUnpaid'
  BY <1>1, <1>3 DEF Books, MatchedWithinCap, OpenMeansUnpaid, Unpaid
<1> QED
  BY <1>4, <1>5 DEF Books

\* The calls that pay back lower the records at least as much as the total.
LEMMA BooksLowered ==
  ASSUME Books, TypeOK', Conserved',
         UNCHANGED <<status, matching, totalMatched, creatorBal, platformBal>>,
         Booked' - Booked <= total' - total,
         Fees' - Fees = insurancePool' - insurancePool
  PROVE  Books'
<1>1. Booked \in Nat /\ Fees \in Nat
  BY SumTypes DEF Books
<1>2. (Booked \in Nat /\ Fees \in Nat)'
  BY SumTypes, PTL
<1>3. BooksCoverContributions' /\ PoolOwed'
  BY <1>1, <1>2 DEF Books, TypeOK, BooksCoverContributions, PoolOwed, Booked, Fees
<1>4. MatchedWithinCap' /\ OpenMeansUnpaid'
  BY DEF Books, MatchedWithinCap, OpenMeansUnpaid, Unpaid
<1> QED
  BY <1>3, <1>4 DEF Books

\* The steps that move no tokens and leave the books as they are.
LEMMA BooksQuiet ==
  ASSUME Books, TypeOK', Conserved',
         UNCHANGED <<total, contribution, insuranceFee, creatorBal, platformBal>>,
         insurancePool' \in {insurancePool, 0},
         matching' # NoMatching => totalMatched' <= matching'.max,
         status' \in {"Active", "Paused"} => status \in {"Active", "Paused"}
  PROVE  Books'
<1>1. Booked' = Booked /\ Fees' = Fees /\ Booked \in Nat /\ Fees \in Nat
  BY SumTypes, SumsQuiet DEF Books
<1>2. BooksCoverContributions' /\ PoolOwed'
  BY <1>1 DEF Books, TypeOK, BooksCoverContributions, PoolOwed, Booked, Fees
<1>3. MatchedWithinCap' /\ OpenMeansUnpaid'
  BY DEF Books, MatchedWithinCap, OpenMeansUnpaid, Unpaid
<1> QED
  BY <1>2, <1>3 DEF Books

LEMMA BooksNext == Books /\ [Next]_vars => Books'
<1> SUFFICES ASSUME Books, [Next]_vars
             PROVE  Books'
  OBVIOUS
<1>0. TypeOK /\ TypeOK' /\ Conserved' /\ Booked \in Nat /\ Fees \in Nat
  BY TypeNext, ConservedNext, SumTypes DEF Books
<1>m. matching # NoMatching => totalMatched <= matching.max
  BY DEF Books, MatchedWithinCap
<1>1. CASE Tick
  BY <1>0, <1>1, <1>m, BooksQuiet DEF Tick, campaign, insurance, match, payees
<1>2. ASSUME NEW c \in Contributors, NEW a \in Amounts, Contribute(c, a)
      PROVE  Books'
  BY <1>0, <1>2, BooksContribute
<1>3. CASE Withdraw
  <2>1. status' = "Successful" /\ UNCHANGED <<contribution, insuranceFee,
                                  insurancePool, matching, totalMatched>>
    BY <1>3 DEF Withdraw, insurance, match
  <2> QED
    BY <1>0, <2>1 DEF Books, BooksCoverContributions, PoolOwed,
                      MatchedWithinCap, OpenMeansUnpaid
<1>4. ASSUME NEW d \in Deadlines, ExtendDeadline(d)
      PROVE  Books'
  BY <1>0, <1>4, <1>m, BooksQuiet DEF ExtendDeadline, insurance, match, payees
<1>5. ASSUME NEW g \in Goals, AdjustGoal(g)
      PROVE  Books'
  BY <1>0, <1>5, <1>m, BooksQuiet DEF AdjustGoal, insurance, match, payees
<1>6. CASE CancelCampaign \/ Archive \/ Pause \/ Resume
  <2>1. status' \in {"Active", "Paused"} => status \in {"Active", "Paused"}
    BY <1>6 DEF CancelCampaign, Archive, Pause, Resume, SetStatus
  <2>2. UNCHANGED <<total, contribution, insuranceFee, insurancePool, matching,
                    totalMatched, creatorBal, platformBal>>
    BY <1>6 DEF CancelCampaign, Archive, Pause, Resume, SetStatus, insurance,
                match, payees
  <2> QED
    BY <1>0, <1>m, <2>1, <2>2, BooksQuiet
<1>7. ASSUME NEW S \in SUBSET Contributors, PayBack(S),
             UNCHANGED <<now, campaign, total, insurance, match, admitted, payees>>
      PROVE  Books'
  <2>1. /\ TotalOf(contribution, S) \in Nat
        /\ Booked' = Booked - TotalOf(contribution, S)
    BY <1>0, <1>7, SumsPayBack
  <2>2. UNCHANGED <<status, total, insuranceFee, insurancePool, matching,
                    totalMatched, creatorBal, platformBal>>
    BY <1>7 DEF campaign, insurance, match, payees
  <2>3. Fees' = Fees
    BY <2>2 DEF Fees
  <2> QED
    BY <1>0, <2>1, <2>2, <2>3, BooksLowered DEF TypeOK
<1>8. ASSUME NEW c \in Contributors, RefundSingle(c)
      PROVE  Books'
  <2>1. {c} \in SUBSET Contributors
    OBVIOUS
  <2> QED
    BY <1>7, <1>8, <2>1 DEF RefundSingle
<1>9. ASSUME NEW S \in SUBSET Contributors, RefundBatch(S)
      PROVE  Books'
  BY <1>7, <1>9 DEF RefundBatch
<1>10. ASSUME NEW c \in Contributors, NEW a \in Amounts, RefundPartial(c, a)
       PROVE  Books'
  <2>1. a \in Nat /\ Booked' = Booked - a
    BY <1>0, <1>10, Constants, SumsRefundPartial
  <2>2. /\ total' = total - a
        /\ UNCHANGED <<status, insuranceFee, insurancePool, matching,
                       totalMatched, creatorBal, platformBal>>
    BY <1>10 DEF RefundPartial, campaign, insurance, match, payees
  <2>3. Fees' = Fees
    BY <2>2 DEF Fees
  <2> QED
    BY <1>0, <2>1, <2>2, <2>3, BooksLowered DEF TypeOK
<1>11. ASSUME NEW m \in MatchingConfigs, SetupMatching(m)
       PROVE  Books'
  <2>1. totalMatched' <= matching'.max
    BY <1>11, ConfigurationTypes DEF SetupMatching
  <2> QED
    BY <1>0, <1>11, <2>1, BooksQuiet DEF SetupMatching, campaign, insurance, payees
<1>12. ASSUME NEW bps \in InsuranceRates, EnableInsurance(bps)
       PROVE  Books'
  BY <1>0, <1>12, <1>m, BooksQuiet DEF EnableInsurance, campaign, match, payees
<1>13. ASSUME NEW c \in Contributors, ClaimInsurancePayout(c)
       PROVE  Books'
  <2>1. Fees' = Fees - insuranceFee[c] /\ insuranceFee[c] \in Nat
    BY <1>0, <1>13, SumsClaim DEF TypeOK
  <2>2. /\ insurancePool' = insurancePool - insuranceFee[c]
        /\ UNCHANGED <<status, total, contribution, matching, totalMatched,
                       creatorBal, platformBal>>
    BY <1>13 DEF ClaimInsurancePayout, PoolAfterClaim, campaign, match, payees
  <2>3. Booked' = Booked
    BY <2>2 DEF Booked
  <2> QED
    BY <1>0, <2>1, <2>2, <2>3, BooksLowered DEF TypeOK
<1>14. ASSUME NEW S \in AdmissionSets, SetAdmission(S)
       PROVE  Books'
  BY <1>0, <1>14, <1>m, BooksQuiet DEF SetAdmission, campaign, insurance, match, payees
<1>15. CASE UNCHANGED vars
  BY <1>0, <1>15, <1>m, BooksQuiet DEF vars
<1> QED
  BY <1>1, <1>2, <1>3, <1>4, <1>5, <1>6, <1>8, <1>9, <1>10, <1>11, <1>12,
     <1>13, <1>14, <1>15 DEF Next

\* What withdraw leaves without vesting, and nobody adds to it later.
LEMMA EmptyNext ==
  Books /\ WithdrawEmptiesContract /\ [Next]_vars => WithdrawEmptiesContract'
<1> SUFFICES ASSUME Books, WithdrawEmptiesContract, [Next]_vars,
                    status' = "Successful", Vesting = NoVesting
             PROVE  held' <= Fees'
  BY DEF WithdrawEmptiesContract, Fees
<1>0. /\ TypeOK /\ TypeOK'
      /\ Booked \in Nat /\ Fees \in Nat
  BY TypeNext, SumTypes DEF Books
<1>1. CASE Withdraw
  <2> DEFINE fee == Share(Payable, PlatformBps)
             vested == Vested(Payable - fee)
  <2>1. fee \in Nat /\ vested \in Nat /\ total \in Nat /\ fee + vested = total
    BY <1>0, <1>1, PayOutParts DEF Withdraw
  <2>2. /\ held' = held - fee - vested
        /\ status = "Active"
        /\ UNCHANGED insuranceFee
    BY <1>1 DEF Withdraw, PayOut, insurance
  <2> HIDE DEF fee, vested
  <2>3. held = Booked + Fees /\ total >= Booked
    BY <1>0, <2>2 DEF Books, Conserved, OpenMeansUnpaid, Unpaid, TypeOK,
                      BooksCoverContributions, Booked, Fees
  <2>4. Fees' = Fees
    BY <2>2 DEF Fees
  <2> QED
    BY <1>0, <2>1, <2>2, <2>3, <2>4 DEF TypeOK
<1>2. CASE ~Withdraw
  <2>1. status = "Successful"
    BY <1>2 DEF Next, Tick, Contribute, ExtendDeadline, AdjustGoal,
       CancelCampaign, Archive, Pause, Resume, SetStatus, RefundSingle,
       RefundBatch, RefundPartial, SetupMatching, EnableInsurance,
       ClaimInsurancePayout, SetAdmission, campaign, vars
  <2>2. held <= Fees
    BY <2>1 DEF WithdrawEmptiesContract, Fees
  <2>3. ASSUME NEW S \in SUBSET Contributors, PayBack(S), UNCHANGED insurance
        PROVE  held' <= Fees'
    <3>1. TotalOf(contribution, S) \in Nat
      BY <1>0, <2>3, SumsPayBack
    <3>2. held' = held - TotalOf(contribution, S) /\ Fees' = Fees
      BY <2>3 DEF PayBack, insurance, Fees
    <3> QED
      BY <1>0, <2>2, <3>1, <3>2 DEF TypeOK
  <2>4. ASSUME NEW c \in Contributors, RefundSingle(c)
        PROVE  held' <= Fees'
    <3>1. {c} \in SUBSET Contributors
      OBVIOUS
    <3> QED
      BY <2>3, <2>4, <3>1 DEF RefundSingle
  <2>5. ASSUME NEW S \in SUBSET Contributors, RefundBatch(S)
        PROVE  held' <= Fees'
    BY <2>3, <2>5 DEF RefundBatch
  <2>6. ASSUME NEW c \in Contributors, NEW a \in Amounts, RefundPartial(c, a)
        PROVE  held' <= Fees'
    <3>1. held' = held - a /\ a \in Nat /\ Fees' = Fees
      BY <2>6, Constants DEF RefundPartial, insurance, Fees
    <3> QED
      BY <1>0, <2>2, <3>1 DEF TypeOK
  <2>7. ASSUME NEW c \in Contributors, ClaimInsurancePayout(c)
        PROVE  held' <= Fees'
    <3>1. /\ held' = held - insuranceFee[c] /\ insuranceFee[c] \in Nat
          /\ Fees' = Fees - insuranceFee[c]
      BY <1>0, <2>7, SumsClaim DEF ClaimInsurancePayout, TypeOK
    <3> QED
      BY <1>0, <2>2, <3>1 DEF TypeOK
  <2>8. ASSUME UNCHANGED <<held, insuranceFee>>
        PROVE  held' <= Fees'
    BY <2>2, <2>8 DEF Fees
  <2>9. \A c \in Contributors, a \in Amounts : ~Contribute(c, a)
    BY <2>1 DEF Contribute
  <2> QED
    BY <1>2, <2>4, <2>5, <2>6, <2>7, <2>8, <2>9
       DEF Next, Tick, ExtendDeadline, AdjustGoal, CancelCampaign, Archive,
           Pause, Resume, SetStatus, SetupMatching, EnableInsurance,
           SetAdmission, insurance, vars
<1> QED
  BY <1>1, <1>2

LEMMA IInvInit == Init => IInv
<1> SUFFICES ASSUME Init
             PROVE  IInv
  OBVIOUS
<1>1. Accounted
  BY Constants DEF Init, Accounted
<1> QED
  BY <1>1, BooksInit DEF IInv, Init, WithdrawEmptiesContract

LEMMA IInvNext == IInv /\ [Next]_vars => IInv'
<1> SUFFICES ASSUME IInv, [Next]_vars
             PROVE  IInv'
  OBVIOUS
<1>1. Books' /\ WithdrawEmptiesContract'
  BY BooksNext, EmptyNext DEF IInv
<1>2. \A c \in Contributors : Wealth(c)' = Wealth(c)
  BY MoneyMoves DEF IInv, Books
<1>3. Accounted'
  BY <1>2 DEF IInv, Accounted, Wealth
<1> QED
  BY <1>1, <1>3 DEF IInv

\* The inductive invariant holds in every reachable state.
THEOREM InductiveInvariant == Spec => []IInv
BY IInvInit, IInvNext, PTL DEF Spec

-----------------------------------------------------------------------------
\* No sequence of calls pays a contributor twice or out of somebody else's
\* money: wallet, contribution and fee always add up (refund_single,
\* refund_batch, refund_partial, claim_insurance_payout).
THEOREM EveryTokenAccounted == Spec => []Accounted
<1>1. IInv => Accounted
  BY DEF IInv
<1> QED
  BY <1>1, InductiveInvariant, PTL

\* The contract's balance plus the payouts equals the records at any time.
THEOREM BalanceConserved == Spec => []Conserved
<1>1. IInv => Conserved
  BY DEF IInv, Books
<1> QED
  BY <1>1, InductiveInvariant, PTL

\* KEY_TOTAL never understates what an open campaign owes its contributors.
THEOREM TotalCoversContributions == Spec => []BooksCoverContributions
<1>1. IInv => BooksCoverContributions
  BY DEF IInv, Books
<1> QED
  BY <1>1, InductiveInvariant, PTL

\* Without vesting a withdrawal leaves nothing but fees, so the refund guard
\* it reopens by clearing KEY_TOTAL pays nothing more.
THEOREM NothingLeftAfterWithdraw == Spec => []WithdrawEmptiesContract
<1>1. IInv => WithdrawEmptiesContract
  BY DEF IInv
<1> QED
  BY <1>1, InductiveInvariant, PTL

\* The pool counter never promises more than the fees on record.
THEOREM PoolBacked == Spec => []PoolOwed
<1>1. IInv => PoolOwed
  BY DEF IInv, Books
<1> QED
  BY <1>1, InductiveInvariant, PTL

LEMMA BooksFundPool == Books => PoolFunded
<1> SUFFICES ASSUME Books, Unpaid
             PROVE  held >= TotalOf(contribution, Contributors) + insurancePool
  BY DEF PoolFunded
<1>1. Booked \in Nat /\ Fees \in Nat
  BY SumTypes DEF Books
<1>2. held = Booked + Fees /\ insurancePool <= Fees
  BY <1>1 DEF Books, TypeOK, Conserved, PoolOwed, Unpaid, Booked, Fees
<1> QED
  BY <1>1, <1>2 DEF Books, TypeOK, Booked

\* Until a payout the contract holds the pool on top of the contributions,
\* although enable_insurance resets the counter.
THEOREM PoolHeld == Spec => []PoolFunded
<1>1. IInv => PoolFunded
  BY BooksFundPool DEF IInv
<1> QED
  BY <1>1, InductiveInvariant, PTL

\* The matched amount respects the configuration in force.
THEOREM MatchingCapped == Spec => []MatchedWithinCap
<1>1. IInv => MatchedWithinCap
  BY DEF IInv, Books
<1> QED
  BY <1>1, InductiveInvariant, PTL

-----------------------------------------------------------------------------
\* Only withdraw pays the creator or the platform, and it needs an Active
\* campaign, which is one that has not paid.
LEMMA PaidStep == Books /\ [Next]_vars => [~Unpaid => UNCHANGED payees]_vars
<1> SUFFICES ASSUME Books, Next, ~Unpaid
             PROVE  UNCHANGED payees
  OBVIOUS
<1>1. ~Withdraw
  BY DEF Books, OpenMeansUnpaid, Withdraw
<1> QED
  BY <1>1 DEF Next, Tick, Contribute, ExtendDeadline, AdjustGoal,
     CancelCampaign, Archive, Pause, Resume, SetStatus, RefundSingle,
     RefundBatch, RefundPartial, SetupMatching, EnableInsurance,
     ClaimInsurancePayout, SetAdmission

\* No detour through archive, cancel, pause or resume pays twice.
THEOREM NoSecondPayout == Spec => PaidOnce
<1>1. IInv => Books
  BY DEF IInv
<1> QED
  BY <1>1, PaidStep, InductiveInvariant, PTL DEF Spec, PaidOnce

\* The payout that PayoutMeetsGoal speaks of is backed: KEY_TOTAL may be stale
\* or inflated by matching, but then the contract does not hold the tokens.
LEMMA PayoutStep ==
  Books /\ [Next]_vars =>
    [status # "Successful" /\ status' = "Successful"
       /\ Vesting = NoVesting /\ NoFees
     => TotalOf(contribution, Contributors) >= goal]_vars
<1> SUFFICES ASSUME Books, Next, status # "Successful", status' = "Successful",
                    Vesting = NoVesting, NoFees
             PROVE  Booked >= goal
  BY DEF Booked
<1>1. Withdraw
  BY DEF Next, Tick, Contribute, ExtendDeadline, AdjustGoal,
     CancelCampaign, Archive, Pause, Resume, SetStatus, RefundSingle,
     RefundBatch, RefundPartial, SetupMatching, EnableInsurance,
     ClaimInsurancePayout, SetAdmission, campaign
<1> DEFINE fee == Share(Payable, PlatformBps)
           vested == Vested(Payable - fee)
<1>2. fee \in Nat /\ vested \in Nat /\ fee + vested = total
  BY <1>1, PayOutParts DEF Books, Withdraw
<1>3. total >= goal /\ held >= fee + vested /\ status = "Active"
  BY <1>1 DEF Withdraw, GoalReached, PayOut
<1> HIDE DEF fee, vested
<1>4. Fees = 0 /\ Booked \in Nat
  BY TotalOfZero, SumTypes DEF NoFees, Fees, Books
<1>5. held = Booked + Fees
  BY <1>3, <1>4 DEF Books, TypeOK, Conserved, OpenMeansUnpaid, Unpaid, Booked, Fees
<1>6. goal \in Nat /\ total \in Int /\ held \in Nat
  BY Constants DEF Books, TypeOK
<1> QED
  BY <1>2, <1>3, <1>4, <1>5, <1>6

\* A withdrawal without vesting or insurance succeeds only when recorded
\* contributions reach the goal.
THEOREM PayoutBacked == Spec => PayoutMeetsGoal
<1>1. IInv => Books
  BY DEF IInv
<1> QED
  BY <1>1, PayoutStep, InductiveInvariant, PTL DEF Spec, PayoutMeetsGoal

-----------------------------------------------------------------------------
(* Refunds arrive.  What the prover cannot do is show that an action is      *)
(* ENABLED, which is what weak fairness speaks of.  Two theorems say so in   *)
(* two ways: one has the fairness of the runs and takes from them what is    *)
(* ENABLED (RefundPossible); the other states the same fairness with the     *)
(* conditions that refund_single tests in the place of ENABLED, and needs    *)
(* nothing else.                                                             *)

Owed(c) == Unpaid /\ CampaignFailed /\ contribution[c] > 0
Cleared(c) == contribution[c] = 0 \/ ~CampaignFailed

\* Every early return of refund_single is passed and the transfer succeeds.
RefundCallable(c) ==
  /\ RefundsOpen
  /\ contribution[c] > 0
  /\ held >= TotalOf(contribution, {c})

\* Somebody keeps calling refund_single for c: the call happens again and
\* again, unless again and again it would be refused.
AskedFor(c) == []<>~RefundCallable(c) \/ []<><<RefundSingle(c)>>_vars

\* When a refund is due the contract has the tokens for any batch of them.
LEMMA OwedAffordable ==
  ASSUME Books, NEW c \in Contributors, Owed(c), NEW S \in SUBSET Contributors
  PROVE  /\ RefundsOpen /\ contribution[c] > 0
         /\ held >= TotalOf(contribution, S)
<1>1. /\ TotalOf(contribution, S) \in Nat
      /\ TotalOf(contribution, Contributors \ S) \in Nat
  BY Constants, FS_Subset, FS_Difference, TotalOfType DEF Books, TypeOK
<1>2. Booked = TotalOf(contribution, S) + TotalOf(contribution, Contributors \ S)
  BY Constants, TotalOfSplit DEF Books, TypeOK, Booked
<1>3. held >= Booked + insurancePool /\ held \in Nat /\ insurancePool \in Nat
  BY BooksFundPool DEF Books, TypeOK, PoolFunded, Owed, Booked
<1>4. RefundsOpen /\ contribution[c] > 0
  BY DEF Owed, CampaignFailed, RefundsOpen
<1> QED
  BY <1>1, <1>2, <1>3, <1>4

\* Everything refund_single asks for is there when a refund is due: its
\* condition holds and the contract has the tokens, as it has for any batch.
THEOREM RefundsAffordable ==
  ASSUME NEW c \in Contributors, NEW S \in SUBSET Contributors
  PROVE  Spec => [](Owed(c) => RefundsOpen /\ contribution[c] > 0
                                 /\ held >= TotalOf(contribution, S))
<1>1. IInv => (Owed(c) => RefundsOpen /\ contribution[c] > 0
                            /\ held >= TotalOf(contribution, S))
  BY OwedAffordable DEF IInv
<1> QED
  BY <1>1, InductiveInvariant, PTL

LEMMA OwedCallable ==
  ASSUME NEW c \in Contributors
  PROVE  Books /\ Owed(c) => RefundCallable(c)
<1>1. {c} \in SUBSET Contributors
  OBVIOUS
<1> QED
  BY <1>1, OwedAffordable DEF RefundCallable

\* Who is owed a refund stays so until it is paid or the campaign is no longer
\* failed: a failed campaign is not paid out.
LEMMA OwedStep ==
  ASSUME NEW c \in Contributors
  PROVE  Books /\ Owed(c) /\ [Next]_vars => Owed(c)' \/ Cleared(c)'
<1> SUFFICES ASSUME Books, Owed(c), [Next]_vars, CampaignFailed'
             PROVE  Unpaid' /\ (contribution'[c] > 0 \/ contribution'[c] = 0)
  BY DEF Owed, Cleared
<1>1. contribution'[c] \in Nat
  BY TypeNext DEF Books, TypeOK
<1>2. ~Withdraw
  BY Constants DEF Owed, CampaignFailed, Withdraw, GoalReached, Books, TypeOK
<1>3. UNCHANGED payees
  BY <1>2 DEF Next, Tick, Contribute, ExtendDeadline, AdjustGoal,
     CancelCampaign, Archive, Pause, Resume, SetStatus, RefundSingle,
     RefundBatch, RefundPartial, SetupMatching, EnableInsurance,
     ClaimInsurancePayout, SetAdmission, vars, payees
<1> QED
  BY <1>1, <1>3 DEF Owed, Unpaid, payees

\* A due refund is owed, or there is nothing to pay back.
LEMMA OwedOrCleared ==
  ASSUME NEW c \in Contributors
  PROVE  /\ Books /\ Unpaid /\ CampaignFailed => Owed(c) \/ Cleared(c)
         /\ Cleared(c) <=> contribution[c] = 0 \/ ~CampaignFailed
BY DEF Books, TypeOK, Owed, Cleared

LEMMA RefundClears ==
  ASSUME NEW c \in Contributors
  PROVE  <<RefundSingle(c)>>_vars => Cleared(c)'
BY DEF RefundSingle, PayBack, Cleared

\* A failed campaign pays everybody back (refund_single), if refunds are
\* possible when they are due and somebody keeps asking for them.
THEOREM RefundsArrive == FairSpec /\ []RefundPossible => RefundEventually
<1> SUFFICES ASSUME NEW c \in Contributors
             PROVE  FairSpec /\ []RefundPossible =>
                      ((Unpaid /\ CampaignFailed)
                         ~> (contribution[c] = 0 \/ ~CampaignFailed))
  BY DEF RefundEventually
<1>1. Books /\ Owed(c) /\ [Next]_vars => Owed(c)' \/ Cleared(c)'
  BY OwedStep
<1>2. <<RefundSingle(c)>>_vars => Cleared(c)'
  BY RefundClears
<1>3. RefundPossible => (Owed(c) => ENABLED <<RefundSingle(c)>>_vars)
  BY DEF RefundPossible, Owed
<1>4. Fairness => KeepsCalling(c)
  BY DEF Fairness
<1>5. /\ Books /\ Unpaid /\ CampaignFailed => Owed(c) \/ Cleared(c)
      /\ Cleared(c) <=> contribution[c] = 0 \/ ~CampaignFailed
  BY OwedOrCleared
<1>6. IInv => Books
  BY DEF IInv
<1> QED
  BY <1>1, <1>2, <1>3, <1>4, <1>5, <1>6, InductiveInvariant, PTL
     DEF FairSpec, Spec, KeepsCalling

\* A failed campaign pays everybody back for whom somebody keeps calling
\* refund_single; that the calls are not refused is part of what is proved.
THEOREM RefundsArriveWhenAsked ==
  Spec /\ (\A c \in Contributors : AskedFor(c)) => RefundEventually
<1> SUFFICES ASSUME NEW c \in Contributors
             PROVE  Spec /\ (\A x \in Contributors : AskedFor(x)) =>
                      ((Unpaid /\ CampaignFailed)
                         ~> (contribution[c] = 0 \/ ~CampaignFailed))
  BY DEF RefundEventually
<1>1. Books /\ Owed(c) /\ [Next]_vars => Owed(c)' \/ Cleared(c)'
  BY OwedStep
<1>2. <<RefundSingle(c)>>_vars => Cleared(c)'
  BY RefundClears
<1>3. Books /\ Owed(c) => RefundCallable(c)
  BY OwedCallable
<1>4. (\A x \in Contributors : AskedFor(x)) => AskedFor(c)
  OBVIOUS
<1>5. /\ Books /\ Unpaid /\ CampaignFailed => Owed(c) \/ Cleared(c)
      /\ Cleared(c) <=> contribution[c] = 0 \/ ~CampaignFailed
  BY OwedOrCleared
<1>6. IInv => Books
  BY DEF IInv
<1> QED
  BY <1>1, <1>2, <1>3, <1>4, <1>5, <1>6, InductiveInvariant, PTL
     DEF Spec, AskedFor

-----------------------------------------------------------------------------
(* The campaign implements the escrow: the stake of a contributor is the    *)
(* contribution plus the insurance fee on record, what left is the          *)
(* creator's and the platform's money, and every step is a step of Escrow   *)
(* or changes none of its variables.                                        *)

escrowVars == <<wallet, Stake, creatorBal + platformBal>>

\* The stakes add up to what the contract holds and what it paid out.
LEMMA StakeTotal ==
  IInv => /\ TotalOf(Stake, Contributors) = held + (creatorBal + platformBal)
          /\ \A c \in Contributors : Stake[c] \in 0..InitialWallet
<1> SUFFICES ASSUME IInv
             PROVE  /\ TotalOf(Stake, Contributors) = held + (creatorBal + platformBal)
                    /\ \A c \in Contributors : Stake[c] \in 0..InitialWallet
  OBVIOUS
<1>1. IsFiniteSet(Contributors) /\ InitialWallet \in Nat
  BY Constants
<1>2. TotalOf(Stake, Contributors) = Booked + Fees
  BY <1>1, TotalOfSum DEF IInv, Books, TypeOK, Booked, Fees, Stake
<1>3. Booked \in Nat /\ Fees \in Nat
  BY SumTypes DEF IInv, Books
<1>4. \A c \in Contributors : contribution[c] + insuranceFee[c] \in 0..InitialWallet
  BY <1>1 DEF IInv, Books, TypeOK, Accounted
<1> QED
  BY <1>2, <1>3, <1>4 DEF IInv, Books, TypeOK, Conserved, Booked, Fees, Stake

\* The instance adds up stakes in the same way.
LEMMA SameTotal == \A f, S : Promise!TotalOf(f, S) = TotalOf(f, S)
<1>1. \A S : Promise!Cardinality(S) = Cardinality(S)
  BY DEF Promise!Cardinality, Cardinality
<1> QED
  BY <1>1 DEF Promise!TotalOf, Promise!Coins, TotalOf, Coins

LEMMA EscrowInit == Init => Promise!Init
BY Constants DEF Init, Promise!Init, Stake

\* contribute is a deposit.
LEMMA EscrowDeposit ==
  ASSUME IInv, IInv', NEW c \in Contributors, NEW a \in Amounts, Contribute(c, a)
  PROVE  Promise!Deposit(c)
<1> DEFINE fee == Share(a, insuranceBps)
           net == NetOf(a)
<1>1. a \in Nat /\ a > 0 /\ fee \in Nat /\ net \in Nat /\ net + fee = a
  BY Constants, NetBounds DEF IInv, Books
<1>2. /\ wallet[c] >= a
      /\ wallet' = [wallet EXCEPT ![c] = @ - a]
      /\ contribution' = [contribution EXCEPT ![c] = @ + net]
      /\ insuranceFee' = [insuranceFee EXCEPT ![c] = @ + fee]
      /\ status = "Active"
      /\ UNCHANGED <<creatorBal, platformBal>>
  BY DEF Contribute, payees
<1> HIDE DEF fee, net
<1>3. a \in 1..wallet[c]
  BY <1>1, <1>2 DEF IInv, Books, TypeOK
<1>4. creatorBal + platformBal = 0
  BY <1>2 DEF IInv, Books, OpenMeansUnpaid, Unpaid
<1>5. Stake' = [Stake EXCEPT ![c] = @ + a]
  <2>1. \A x \in Contributors :
          contribution'[x] + insuranceFee'[x]
            = contribution[x] + insuranceFee[x] + IF x = c THEN a ELSE 0
    BY <1>1, <1>2 DEF IInv, Books, TypeOK
  <2>2. \A x \in Contributors : contribution[x] \in Nat /\ insuranceFee[x] \in Nat
    BY DEF IInv, Books, TypeOK
  <2>3. \A x \in Contributors : Stake'[x] = [Stake EXCEPT ![c] = @ + a][x]
    BY <1>1, <2>1, <2>2 DEF Stake
  <2> QED
    BY <2>3 DEF Stake
<1> QED
  BY <1>2, <1>3, <1>4, <1>5 DEF Promise!Deposit

\* A step that only lowers records and pays exactly that much to their
\* owners is a return.
LEMMA EscrowReturn ==
  ASSUME IInv, IInv', UNCHANGED <<creatorBal, platformBal>>,
         \A c \in Contributors : /\ contribution'[c] <= contribution[c]
                                 /\ insuranceFee'[c] <= insuranceFee[c]
  PROVE  Promise!Return
<1> DEFINE back == [c \in Contributors |-> Stake[c] - Stake'[c]]
<1>1. \A c \in Contributors :
        /\ Stake[c] \in 0..InitialWallet /\ Stake'[c] \in 0..InitialWallet
        /\ Stake'[c] <= Stake[c]
  <2>1. \A c \in Contributors : Stake[c] \in 0..InitialWallet
    BY StakeTotal
  <2>2. \A c \in Contributors : Stake'[c] \in 0..InitialWallet
    BY Constants DEF IInv, Books, TypeOK, Accounted, Stake
  <2>3. \A c \in Contributors : Stake'[c] <= Stake[c]
    BY DEF IInv, Books, TypeOK, Stake
  <2> QED
    BY <2>1, <2>2, <2>3
<1>2. back \in Promise!Refunds
  BY <1>1, Constants DEF Promise!Refunds
<1>3. wallet' = [c \in Contributors |-> wallet[c] + back[c]]
  <2>1. \A c \in Contributors :
          wallet[c] + Stake[c] = InitialWallet /\ wallet'[c] + Stake'[c] = InitialWallet
    BY DEF IInv, Books, TypeOK, Accounted, Stake
  <2>2. \A c \in Contributors : wallet'[c] = wallet[c] + back[c]
    BY <1>1, <2>1, Constants DEF IInv, Books, TypeOK
  <2> QED
    BY <2>2 DEF IInv, Books, TypeOK
<1>4. Stake' = [c \in Contributors |-> Stake[c] - back[c]]
  BY <1>1 DEF Stake
<1>5. TotalOf(Stake', Contributors) >= creatorBal + platformBal
  <2>1. (TotalOf(Stake, Contributors) = held + (creatorBal + platformBal))'
    BY StakeTotal, PTL
  <2>2. /\ held' \in Nat /\ creatorBal' = creatorBal /\ platformBal' = platformBal
        /\ creatorBal \in Nat /\ platformBal \in Nat
    BY DEF IInv, Books, TypeOK
  <2>3. TotalOf(Stake', Contributors) = held' + (creatorBal' + platformBal')
    BY <2>1
  <2>4. TotalOf(Stake', Contributors) = held' + (creatorBal + platformBal)
    BY <2>2, <2>3
  <2>5. \A h, p \in Nat : h + p >= p
    OBVIOUS
  <2>6. held' \in Nat /\ creatorBal + platformBal \in Nat
    BY <2>2
  <2> QED
    BY <2>4, <2>5, <2>6
<1>6. (creatorBal + platformBal)' = creatorBal + platformBal
  OBVIOUS
<1> QED
  BY <1>2, <1>3, <1>4, <1>5, <1>6, SameTotal DEF Promise!Return

\* withdraw is the one payment out, or pays nothing.
LEMMA EscrowPayOut ==
  ASSUME IInv, IInv', Withdraw
  PROVE  Promise!PayOut \/ UNCHANGED escrowVars
<1> DEFINE fee == Share(Payable, PlatformBps)
           vested == Vested(Payable - fee)
<1>1. fee \in Nat /\ vested \in Nat
  BY PayOutParts DEF IInv, Books, Withdraw
<1>2. /\ held >= fee + vested
      /\ platformBal' = platformBal + fee
      /\ creatorBal' = creatorBal + vested
      /\ status = "Active"
      /\ UNCHANGED <<contribution, insuranceFee, wallet>>
  BY DEF Withdraw, PayOut, insurance
<1> HIDE DEF fee, vested
<1>3. creatorBal = 0 /\ platformBal = 0
  BY <1>2 DEF IInv, Books, OpenMeansUnpaid, Unpaid
<1>4. Stake' = Stake /\ creatorBal + platformBal = 0
  BY <1>2, <1>3 DEF Stake
<1>5. (creatorBal + platformBal)' = vested + fee
  BY <1>1, <1>2, <1>3
<1>6. vested + fee \in 0..TotalOf(Stake, Contributors)
  <2>1. TotalOf(Stake, Contributors) = held
    BY <1>3, StakeTotal DEF IInv, Books, TypeOK
  <2> QED
    BY <1>1, <1>2, <2>1 DEF IInv, Books, TypeOK
<1>7. CASE vested + fee = 0
  BY <1>2, <1>4, <1>5, <1>7 DEF escrowVars
<1>8. CASE vested + fee # 0
  <2>1. vested + fee \in 1..TotalOf(Stake, Contributors)
    BY <1>1, <1>6, <1>8
  <2>2. (creatorBal + platformBal)' \in 1..Promise!TotalOf(Stake, Contributors)
    BY <1>5, <2>1, SameTotal
  <2> QED
    BY <1>2, <1>4, <2>2 DEF Promise!PayOut
<1> QED
  BY <1>7, <1>8

LEMMA EscrowNext ==
  IInv /\ IInv' /\ [Next]_vars => [Promise!Next]_escrowVars
<1> SUFFICES ASSUME IInv, IInv', [Next]_vars
             PROVE  Promise!Next \/ UNCHANGED escrowVars
  OBVIOUS
<1> USE DEF Promise!Next
<1>1. ASSUME NEW c \in Contributors, NEW a \in Amounts, Contribute(c, a)
      PROVE  Promise!Next
  BY <1>1, EscrowDeposit
<1>2. CASE Withdraw
  BY <1>2, EscrowPayOut
<1>3. ASSUME NEW S \in SUBSET Contributors, PayBack(S),
             UNCHANGED <<insurance, payees>>
      PROVE  Promise!Next
  <2>1. \A c \in Contributors : /\ contribution'[c] <= contribution[c]
                                /\ insuranceFee'[c] <= insuranceFee[c]
    BY <1>3 DEF PayBack, insurance, IInv, Books, TypeOK
  <2> QED
    BY <1>3, <2>1, EscrowReturn DEF payees
<1>4. ASSUME NEW c \in Contributors, RefundSingle(c)
      PROVE  Promise!Next
  <2>1. {c} \in SUBSET Contributors
    OBVIOUS
  <2> QED
    BY <1>3, <1>4, <2>1 DEF RefundSingle
<1>5. ASSUME NEW S \in SUBSET Contributors, RefundBatch(S)
      PROVE  Promise!Next
  BY <1>3, <1>5 DEF RefundBatch
<1>6. ASSUME NEW c \in Contributors, NEW a \in Amounts, RefundPartial(c, a)
      PROVE  Promise!Next
  <2>1. a \in Nat
    BY Constants
  <2>2. \A x \in Contributors : /\ contribution'[x] <= contribution[x]
                                /\ insuranceFee'[x] <= insuranceFee[x]
    BY <1>6, <2>1 DEF RefundPartial, insurance, IInv, Books, TypeOK
  <2>3. UNCHANGED <<creatorBal, platformBal>>
    BY <1>6 DEF RefundPartial, payees
  <2> QED
    BY <2>2, <2>3, EscrowReturn
<1>7. ASSUME NEW c \in Contributors, ClaimInsurancePayout(c)
      PROVE  Promise!Next
  <2>1. \A x \in Contributors : /\ contribution'[x] <= contribution[x]
                                /\ insuranceFee'[x] <= insuranceFee[x]
    BY <1>7 DEF ClaimInsurancePayout, IInv, Books, TypeOK
  <2>2. UNCHANGED <<creatorBal, platformBal>>
    BY <1>7 DEF ClaimInsurancePayout, payees
  <2> QED
    BY <2>1, <2>2, EscrowReturn
<1>8. ASSUME UNCHANGED <<contribution, insuranceFee, wallet, creatorBal, platformBal>>
      PROVE  UNCHANGED escrowVars
  BY <1>8 DEF escrowVars, Stake
<1>9. CASE Tick
  BY <1>8, <1>9 DEF Tick, insurance, payees
<1>10. ASSUME NEW d \in Deadlines, ExtendDeadline(d)
       PROVE  UNCHANGED escrowVars
  BY <1>8, <1>10 DEF ExtendDeadline, insurance, payees
<1>11. ASSUME NEW g \in Goals, AdjustGoal(g)
       PROVE  UNCHANGED escrowVars
  BY <1>8, <1>11 DEF AdjustGoal, insurance, payees
<1>12. CASE CancelCampaign \/ Archive \/ Pause \/ Resume
  BY <1>8, <1>12 DEF CancelCampaign, Archive, Pause, Resume, SetStatus,
                     insurance, payees
<1>13. ASSUME NEW m \in MatchingConfigs, SetupMatching(m)
       PROVE  UNCHANGED escrowVars
  BY <1>8, <1>13 DEF SetupMatching, insurance, payees
<1>14. ASSUME NEW bps \in InsuranceRates, EnableInsurance(bps)
       PROVE  UNCHANGED escrowVars
  BY <1>8, <1>14 DEF EnableInsurance, payees
<1>15. ASSUME NEW S \in AdmissionSets, SetAdmission(S)
       PROVE  UNCHANGED escrowVars
  BY <1>8, <1>15 DEF SetAdmission, insurance, payees
<1>16. CASE UNCHANGED vars
  BY <1>8, <1>16 DEF vars
<1> HIDE DEF Promise!Next
<1> QED
  BY <1>1, <1>2, <1>4, <1>5, <1>6, <1>7, <1>9, <1>10, <1>11, <1>12, <1>13,
     <1>14, <1>15, <1>16 DEF Next

\* Whatever the goal, the deadlines, the fees, the matching and the order of
\* the calls, the campaign handles money the way module Escrow says.
THEOREM CampaignIsEscrow == Spec => ImplementsEscrow
<1>1. IInv /\ [Next]_vars => IInv'
  BY IInvNext
<1> QED
  BY <1>1, EscrowInit, EscrowNext, InductiveInvariant, PTL
     DEF Spec, ImplementsEscrow, Promise!Spec, escrowVars

-----------------------------------------------------------------------------
(* What the disagreements need.  TLC finds the total negative, refunds after *)
(* a payout, and matched amounts without tokens; here is what they depend    *)
(* on.  Without vesting and without an insurance fee a withdrawal leaves     *)
(* nothing in the contract, so what is refunded is still in the total.       *)

Plain == Vesting = NoVesting /\ InsuranceRates \subseteq {0}

PlainInv ==
  /\ insuranceBps = 0
  /\ NoFees
  /\ status = "Successful" => ~Unpaid
  /\ IF Unpaid THEN total >= Booked ELSE held = 0 /\ total = 0

LEMMA PlainInit == Init => PlainInv
<1> SUFFICES ASSUME Init
             PROVE  PlainInv
  OBVIOUS
<1>1. Booked = 0
  BY TotalOfZero DEF Init, Booked
<1> QED
  BY <1>1 DEF Init, PlainInv, NoFees, Unpaid

\* No fee is taken, so none is claimed.
LEMMA PlainFees ==
  ASSUME Plain, TypeOK, PlainInv, [Next]_vars
  PROVE  insuranceBps' = 0 /\ NoFees'
<1>0. insuranceBps = 0 /\ NoFees
  BY DEF PlainInv
<1>1. ASSUME NEW c \in Contributors, NEW a \in Amounts, Contribute(c, a)
      PROVE  insuranceBps' = 0 /\ NoFees'
  <2>1. Share(a, insuranceBps) = 0
    <3>1. a \in Nat /\ a * 0 = 0
      BY Constants
    <3>2. FullRate \in Nat \ {0} /\ 0 \div FullRate = 0
      BY DEF FullRate
    <3> QED
      BY <1>0, <3>1, <3>2 DEF Share
  <2>2. /\ insuranceFee' = [insuranceFee EXCEPT ![c] = @ + Share(a, insuranceBps)]
        /\ UNCHANGED insuranceBps
    BY <1>1 DEF Contribute
  <2> QED
    BY <1>0, <2>1, <2>2 DEF NoFees, TypeOK
<1>2. \A c \in Contributors : ~ClaimInsurancePayout(c)
  BY <1>0 DEF ClaimInsurancePayout, NoFees
<1>3. ASSUME NEW bps \in InsuranceRates, EnableInsurance(bps)
      PROVE  insuranceBps' = 0 /\ NoFees'
  BY <1>0, <1>3 DEF EnableInsurance, Plain, NoFees
<1>4. ASSUME UNCHANGED insurance
      PROVE  insuranceBps' = 0 /\ NoFees'
  BY <1>0, <1>4 DEF insurance, NoFees
<1> QED
  BY <1>1, <1>2, <1>3, <1>4
     DEF Next, Tick, Withdraw, ExtendDeadline, AdjustGoal, CancelCampaign,
         Archive, Pause, Resume, SetStatus, RefundSingle, RefundBatch,
         RefundPartial, SetupMatching, SetAdmission, insurance, vars

\* The withdrawal takes all there is.
LEMMA PlainWithdraw ==
  ASSUME Plain, IInv, PlainInv, Withdraw
  PROVE  ~Unpaid' /\ held' = 0 /\ total' = 0
<1> DEFINE fee == Share(Payable, PlatformBps)
           vested == Vested(Payable - fee)
<1>1. /\ fee \in Nat /\ vested \in Nat /\ total \in Nat /\ total > 0
      /\ fee + vested = total
  <2>1. /\ fee \in Nat /\ vested \in Nat /\ total \in Nat /\ total >= goal
        /\ goal > 0 /\ fee + vested = total
    BY PayOutParts DEF IInv, Books, Withdraw, Plain
  <2>2. goal \in Nat
    BY Constants DEF IInv, Books, TypeOK
  <2> QED
    BY <2>1, <2>2
<1>2. /\ held >= fee + vested
      /\ held' = held - fee - vested
      /\ platformBal' = platformBal + fee
      /\ creatorBal' = creatorBal + vested
      /\ total' = 0 /\ status = "Active"
  BY DEF Withdraw, PayOut
<1> HIDE DEF fee, vested
<1>3. Fees = 0
  BY TotalOfZero DEF PlainInv, NoFees, Fees
<1>4. Unpaid /\ creatorBal = 0 /\ platformBal = 0
  BY <1>2 DEF IInv, Books, OpenMeansUnpaid, Unpaid
<1>5. held = Booked /\ Booked \in Nat /\ total >= Booked
  BY <1>3, <1>4, SumTypes DEF IInv, Books, TypeOK, Conserved, PlainInv, Booked, Fees
<1>6. held' = 0
  BY <1>1, <1>2, <1>5
<1>7. ~Unpaid'
  BY <1>1, <1>2, <1>4 DEF Unpaid
<1> QED
  BY <1>2, <1>6, <1>7

\* Until then every refund that lowers the total lowers the records as much.
LEMMA PlainUnpaid ==
  ASSUME IInv, [Next]_vars, ~Withdraw, total >= Booked
  PROVE  total' >= Booked'
<1>0. TypeOK /\ TypeOK' /\ Booked \in Nat /\ total \in Int
  BY TypeNext, SumTypes DEF IInv, Books, TypeOK
<1>1. ASSUME NEW c \in Contributors, NEW a \in Amounts, Contribute(c, a)
      PROVE  total' >= Booked'
  <2>1. NetOf(a) \in Nat /\ Matched(NetOf(a)) \in Nat
    BY <1>0, NetBounds, MatchedBounds
  <2>2. Booked' = Booked + NetOf(a)
    BY <1>0, <1>1, SumsContribute
  <2>3. total' = total + NetOf(a) + Matched(NetOf(a))
    BY <1>1 DEF Contribute
  <2> QED
    BY <1>0, <2>1, <2>2, <2>3
<1>2. ASSUME NEW S \in SUBSET Contributors, PayBack(S), UNCHANGED total
      PROVE  total' >= Booked'
  <2>1. /\ TotalOf(contribution, S) \in Nat
        /\ Booked' = Booked - TotalOf(contribution, S)
    BY <1>0, <1>2, SumsPayBack
  <2> QED
    BY <1>0, <1>2, <2>1
<1>3. ASSUME NEW c \in Contributors, RefundSingle(c)
      PROVE  total' >= Booked'
  <2>1. {c} \in SUBSET Contributors
    OBVIOUS
  <2> QED
    BY <1>2, <1>3, <2>1 DEF RefundSingle
<1>4. ASSUME NEW S \in SUBSET Contributors, RefundBatch(S)
      PROVE  total' >= Booked'
  BY <1>2, <1>4 DEF RefundBatch
<1>5. ASSUME NEW c \in Contributors, NEW a \in Amounts, RefundPartial(c, a)
      PROVE  total' >= Booked'
  <2>1. a \in Nat /\ Booked' = Booked - a /\ total' = total - a
    BY <1>0, <1>5, Constants, SumsRefundPartial DEF RefundPartial
  <2> QED
    BY <1>0, <2>1
<1>6. ASSUME UNCHANGED <<total, contribution>>
      PROVE  total' >= Booked'
  BY <1>6 DEF Booked
<1> QED
  BY <1>1, <1>3, <1>4, <1>5, <1>6
     DEF Next, Tick, ExtendDeadline, AdjustGoal, CancelCampaign, Archive,
         Pause, Resume, SetStatus, SetupMatching, EnableInsurance,
         ClaimInsurancePayout, SetAdmission, vars

\* Afterwards no call finds anything to pay.
LEMMA PlainPaid ==
  ASSUME IInv, [Next]_vars, ~Unpaid, held = 0, total = 0, NoFees
  PROVE  held' = 0 /\ total' = 0
<1>0. TypeOK /\ TypeOK' /\ status \notin {"Active", "Paused"}
  BY TypeNext DEF IInv, Books, OpenMeansUnpaid
<1>1. ASSUME NEW S \in SUBSET Contributors, PayBack(S), UNCHANGED total
      PROVE  held' = 0 /\ total' = 0
  <2>1. TotalOf(contribution, S) \in Nat
    BY <1>0, <1>1, SumsPayBack
  <2>2. held >= TotalOf(contribution, S) /\ held' = held - TotalOf(contribution, S)
    BY <1>1 DEF PayBack
  <2> QED
    BY <1>1, <2>1, <2>2
<1>2. ASSUME NEW c \in Contributors, RefundSingle(c)
      PROVE  held' = 0 /\ total' = 0
  <2>1. {c} \in SUBSET Contributors
    OBVIOUS
  <2> QED
    BY <1>1, <1>2, <2>1 DEF RefundSingle
<1>3. ASSUME NEW S \in SUBSET Contributors, RefundBatch(S)
      PROVE  held' = 0 /\ total' = 0
  BY <1>1, <1>3 DEF RefundBatch
<1>4. \A c \in Contributors, a \in Amounts : ~RefundPartial(c, a) /\ ~Contribute(c, a)
  <2>1. \A a \in Amounts : a \in Nat /\ ~(0 >= a)
    BY Constants
  <2> QED
    BY <1>0, <2>1 DEF RefundPartial, Contribute
<1>5. \A c \in Contributors : ~ClaimInsurancePayout(c)
  BY DEF ClaimInsurancePayout, NoFees
<1>6. ~Withdraw
  BY <1>0 DEF Withdraw
<1> QED
  BY <1>2, <1>3, <1>4, <1>5, <1>6
     DEF Next, Tick, ExtendDeadline, AdjustGoal, CancelCampaign, Archive,
         Pause, Resume, SetStatus, SetupMatching, EnableInsurance,
         SetAdmission, vars

LEMMA PlainNext ==
  ASSUME Plain
  PROVE  IInv /\ PlainInv /\ [Next]_vars => PlainInv'
<1> SUFFICES ASSUME IInv, PlainInv, [Next]_vars
             PROVE  PlainInv'
  OBVIOUS
<1>1. insuranceBps' = 0 /\ NoFees'
  BY PlainFees DEF IInv, Books
<1>s. ~Withdraw /\ status' = "Successful" => status = "Successful"
  BY DEF Next, Tick, Contribute, ExtendDeadline, AdjustGoal,
     CancelCampaign, Archive, Pause, Resume, SetStatus, RefundSingle,
     RefundBatch, RefundPartial, SetupMatching, EnableInsurance,
     ClaimInsurancePayout, SetAdmission, vars, campaign
<1>2. CASE Withdraw
  BY <1>1, <1>2, PlainWithdraw DEF PlainInv
<1>3. CASE ~Withdraw /\ Unpaid
  <2>1. total' >= Booked'
    BY <1>3, PlainUnpaid DEF PlainInv
  <2>2. UNCHANGED payees
    BY <1>3 DEF Next, Tick, Contribute, ExtendDeadline, AdjustGoal,
       CancelCampaign, Archive, Pause, Resume, SetStatus, RefundSingle,
       RefundBatch, RefundPartial, SetupMatching, EnableInsurance,
       ClaimInsurancePayout, SetAdmission, vars, payees
  <2> QED
    BY <1>1, <1>s, <1>3, <2>1, <2>2 DEF PlainInv, Unpaid, payees
<1>4. CASE ~Unpaid
  <2>1. held' = 0 /\ total' = 0
    BY <1>4, PlainPaid DEF PlainInv
  <2>2. UNCHANGED payees
    BY <1>4, PaidStep DEF IInv, vars, payees
  <2> QED
    BY <1>1, <1>4, <2>1, <2>2 DEF PlainInv, Unpaid, payees
<1> QED
  BY <1>2, <1>3, <1>4

\* What validate_state asserts, total_raised >= 0, holds for every campaign
\* without vesting and insurance fees: the negative total that TLC finds needs
\* a payout that leaves tokens behind.
THEOREM PlainTotalNonNegative ==
  ASSUME Plain
  PROVE  Spec => []TotalNonNegative
<1>1. IInv /\ [Next]_vars => IInv'
  BY IInvNext
<1>2. IInv /\ PlainInv => TotalNonNegative
  BY SumTypes DEF IInv, Books, TypeOK, PlainInv, TotalNonNegative
<1> QED
  BY <1>1, <1>2, PlainInit, PlainNext, InductiveInvariant, PTL DEF Spec

\* refund_single keeps its documented promise, no refund once the goal was
\* reached and paid out, for every campaign without vesting and insurance fees.
THEOREM PlainNoRefundAfterSuccess ==
  ASSUME Plain
  PROVE  Spec => NoRefundAfterSuccess
<1> DEFINE Refused == status = "Successful" => \A c \in Contributors : ~RefundSingle(c)
<1>1. IInv /\ PlainInv => Refused
  <2> SUFFICES ASSUME IInv, PlainInv, status = "Successful",
                      NEW c \in Contributors, RefundSingle(c)
               PROVE  FALSE
    OBVIOUS
  <2>1. held = 0
    BY DEF PlainInv
  <2>2. contribution[c] \in Nat /\ contribution[c] > 0
        /\ held >= TotalOf(contribution, {c})
    BY DEF RefundSingle, PayBack, IInv, Books, TypeOK
  <2>3. contribution[c] <= TotalOf(contribution, {c})
    BY <2>2, TotalOfAtLeast, FS_Singleton
  <2>4. TotalOf(contribution, {c}) \in Nat
    BY <2>2, TotalOfType, FS_Singleton
  <2> QED
    BY <2>1, <2>2, <2>3, <2>4
<1> QED
  BY <1>1, PlainInit, PlainNext, InductiveInvariant, PTL
     DEF Spec, NoRefundAfterSuccess

\* Without a sponsor the total rises by no more than the tokens that come in:
\* what MatchIsFunded misses is the matched amount and nothing else.
THEOREM UnmatchedIsFunded ==
  ASSUME MatchingConfigs = {}
  PROVE  Spec => MatchIsFunded
<1> DEFINE Funded == total' > total => total' - total <= held' - held
<1>1. IInv /\ [Next]_vars => [Funded]_vars
  <2> SUFFICES ASSUME IInv, Next, total' > total
               PROVE  total' - total <= held' - held
    OBVIOUS
  <2>1. TypeOK /\ total \in Int /\ matching = NoMatching
    BY DEF IInv, Books, TypeOK
  <2>2. ~Withdraw
    BY <2>1, PayOutParts DEF Withdraw
  <2>3. \A c \in Contributors, a \in Amounts : ~RefundPartial(c, a)
    BY <2>1, Constants DEF RefundPartial
  <2>r. total' # total
    BY <2>1
  <2>4. PICK c \in Contributors, a \in Amounts : Contribute(c, a)
    BY <2>r, <2>2, <2>3
       DEF Next, Tick, ExtendDeadline, AdjustGoal, CancelCampaign, Archive,
           Pause, Resume, SetStatus, RefundSingle, RefundBatch, SetupMatching,
           EnableInsurance, ClaimInsurancePayout, SetAdmission
  <2>5. /\ a \in Nat /\ NetOf(a) \in Nat /\ Share(a, insuranceBps) \in Nat
        /\ NetOf(a) + Share(a, insuranceBps) = a
    BY <2>1, Constants, NetBounds
  <2>6. total' = total + NetOf(a) + Matched(NetOf(a)) /\ held' = held + a
    BY <2>4 DEF Contribute
  <2>7. Matched(NetOf(a)) = 0
    BY <2>1 DEF Matched
  <2>8. held \in Nat
    BY DEF IInv, Books, TypeOK
  <2> QED
    BY <2>1, <2>5, <2>6, <2>7, <2>8
<1> QED
  BY <1>1, InductiveInvariant, PTL DEF Spec, MatchIsFunded
=============================================================================
