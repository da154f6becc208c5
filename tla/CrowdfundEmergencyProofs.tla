---------------------- MODULE CrowdfundEmergencyProofs ----------------------
(***************************************************************************)
(* Proofs about the emergency withdrawal: the approvals counted are those  *)
(* of different approvers of the session in progress, the admin is paid    *)
(* only in such a session, and what the admin takes is the only change to  *)
(* the accounts of the campaign.  What is left of the campaign's promises  *)
(* after the admin took something comes last.                              *)
(***************************************************************************)
EXTENDS CrowdfundEmergency, CrowdfundProofs

LEMMA EmergencyConstants ==
  /\ IsFiniteSet(Approvers)
  /\ \A p \in LockPeriods : p \in Nat
  /\ \A m \in MultisigConfigs : m.required \in Nat /\ m.list \subseteq Approvers
<1>1. \A m \in MultisigConfigs : m.required \in Nat /\ m.list \subseteq Approvers
  <2>1. MultisigConfigs \subseteq [required : Nat \ {0}, list : SUBSET Approvers]
    BY EmergencyAssumption
  <2> QED
    BY <2>1
<1> QED
  BY <1>1, EmergencyAssumption

LEMMA ETypeInit == EInit => ETypeOK
BY TypeInit DEF EInit, ETypeOK, NoSession

LEMMA ETypeNext == ETypeOK /\ [ENext]_evars => ETypeOK'
<1> SUFFICES ASSUME ETypeOK, [ENext]_evars
             PROVE  ETypeOK'
  OBVIOUS
<1> USE DEF ETypeOK
<1>1. CASE CampaignCall
  BY <1>1, TypeNext DEF CampaignCall, session
<1>2. ASSUME NEW p \in LockPeriods, InitiateEmergency(p)
      PROVE  ETypeOK'
  <2>1. TypeOK'
    BY <1>2, TypeNext DEF InitiateEmergency
  <2>2. now + p \in Nat
    BY EmergencyConstants DEF TypeOK
  <2> QED
    BY <1>2, <2>1, <2>2 DEF InitiateEmergency
<1>3. CASE ExecuteEmergency
  <2> DEFINE taken == IF total > 0 THEN total ELSE 0
  <2>1. taken \in Nat /\ total - taken \in Int
    BY DEF TypeOK
  <2>2. /\ held >= taken
        /\ held' = held - taken
        /\ adminBal' = adminBal + taken
        /\ total' = total - taken
    BY <1>3 DEF ExecuteEmergency
  <2> HIDE DEF taken
  <2>3. held' \in Nat /\ total' \in Int /\ adminBal' \in Nat
    BY <2>1, <2>2 DEF TypeOK
  <2>4. TypeOK'
    BY <1>3, <2>3 DEF ExecuteEmergency, TypeOK, campaign, insurance, match, payees
  <2> QED
    BY <1>3, <2>3, <2>4 DEF ExecuteEmergency, LockAfterExecute
<1>4. CASE CancelEmergency
  BY <1>4, TypeNext DEF CancelEmergency
<1>5. ASSUME NEW m \in MultisigConfigs, SetupMultisig(m)
      PROVE  ETypeOK'
  BY <1>5, TypeNext, EmergencyConstants DEF SetupMultisig
<1>6. ASSUME NEW a \in Approvers, ApproveEmergency(a)
      PROVE  ETypeOK'
  BY <1>6, TypeNext DEF ApproveEmergency
<1>7. CASE UNCHANGED evars
  BY <1>7, TypeNext DEF evars, session
<1> QED
  BY <1>1, <1>2, <1>3, <1>4, <1>5, <1>6, <1>7 DEF ENext

-----------------------------------------------------------------------------
(* The inductive invariant.  Counting works because every approver of the  *)
(* session in progress carries its lock time as a marker: this needs the   *)
(* lock time to stay what it was until the session ends.                   *)

Counting ==
  /\ approvals = Cardinality(signers)
  /\ lockTime # 0 => \A a \in signers : lastApproved[a] = lockTime

OpenSession == lockTime # 0 => opened = lockTime

EIInv == ETypeOK /\ Counting /\ OpenSession

LEMMA EIInvInit == EInit => EIInv
BY ETypeInit, FS_EmptySet DEF EInit, EIInv, Counting, OpenSession

LEMMA EIInvNext == EIInv /\ [ENext]_evars => EIInv'
<1> SUFFICES ASSUME EIInv, [ENext]_evars
             PROVE  EIInv'
  OBVIOUS
<1>0. ETypeOK /\ ETypeOK'
  BY ETypeNext DEF EIInv
<1>1. CASE CampaignCall
  BY <1>0, <1>1 DEF CampaignCall, session, EIInv, Counting, OpenSession
<1>2. ASSUME NEW p \in LockPeriods, InitiateEmergency(p)
      PROVE  EIInv'
  <2>1. approvals' = 0 /\ signers' = {} /\ opened' = lockTime'
    BY <1>2 DEF InitiateEmergency
  <2> QED
    BY <1>0, <2>1, FS_EmptySet DEF EIInv, Counting, OpenSession
<1>3. CASE ExecuteEmergency
  <2>1. lockTime' = 0 /\ UNCHANGED <<approvals, signers>>
    BY <1>3 DEF ExecuteEmergency, LockAfterExecute
  <2> QED
    BY <1>0, <2>1 DEF EIInv, Counting, OpenSession
<1>4. CASE CancelEmergency
  BY <1>0, <1>4 DEF CancelEmergency, EIInv, Counting, OpenSession
<1>5. ASSUME NEW m \in MultisigConfigs, SetupMultisig(m)
      PROVE  EIInv'
  BY <1>0, <1>5 DEF SetupMultisig, EIInv, Counting, OpenSession
<1>6. ASSUME NEW a \in Approvers, ApproveEmergency(a)
      PROVE  EIInv'
  <2>1. /\ lockTime # 0 /\ lastApproved[a] # lockTime
        /\ lastApproved' = [lastApproved EXCEPT ![a] = lockTime]
        /\ approvals' = approvals + 1
        /\ signers' = signers \cup {a}
        /\ UNCHANGED <<lockTime, opened>>
    BY <1>6 DEF ApproveEmergency, ApprovedBefore
  <2>2. a \notin signers
    BY <2>1 DEF EIInv, Counting
  <2>3. IsFiniteSet(signers)
    BY EmergencyConstants, FS_Subset DEF EIInv, ETypeOK
  <2>4. Cardinality(signers \cup {a}) = Cardinality(signers) + 1
    BY <2>2, <2>3, FS_AddElement
  <2>5. Counting'
    BY <2>1, <2>4 DEF EIInv, ETypeOK, Counting
  <2> QED
    BY <1>0, <2>1, <2>5 DEF EIInv, OpenSession
<1>7. CASE UNCHANGED evars
  BY <1>0, <1>7 DEF evars, session, EIInv, Counting, OpenSession
<1> QED
  BY <1>1, <1>2, <1>3, <1>4, <1>5, <1>6, <1>7 DEF ENext

\* The approval counter equals the number of different approvers since the
\* session was opened, for any number of approvers, locks and sessions.
THEOREM ApprovalsCountedOnce == ESpec => []QuorumCounted
<1>1. EIInv => QuorumCounted
  BY DEF EIInv, Counting, QuorumCounted
<1> QED
  BY <1>1, EIInvInit, EIInvNext, PTL DEF ESpec

\* The admin is paid only after the lock of an open session and with the
\* required number of different approvals given in it.
THEOREM PaidInSessionOnly == ESpec => EmergencyAuthorised
<1> DEFINE Authorised == adminBal' # adminBal => /\ opened # NoSession
                                                 /\ now >= opened
                                                 /\ Cardinality(signers) >= required
<1>1. EIInv /\ [ENext]_evars => [Authorised]_evars
  <2> SUFFICES ASSUME EIInv, ENext, adminBal' # adminBal
               PROVE  /\ opened # NoSession
                      /\ now >= opened
                      /\ Cardinality(signers) >= required
    OBVIOUS
  <2>1. ExecuteEmergency
    BY DEF ENext, CampaignCall, session, InitiateEmergency, CancelEmergency,
           SetupMultisig, ApproveEmergency
  <2>2. /\ lockTime # 0 /\ now >= lockTime
        /\ required > 0 => approvals >= required
    BY <2>1 DEF ExecuteEmergency
  <2>3. opened = lockTime /\ lockTime \in Nat /\ required \in Nat /\ approvals \in Nat
        /\ approvals = Cardinality(signers)
    BY <2>2 DEF EIInv, ETypeOK, OpenSession, Counting
  <2> QED
    BY <2>2, <2>3 DEF NoSession
<1> QED
  BY <1>1, EIInvInit, EIInvNext, PTL DEF ESpec, EmergencyAuthorised

\* Every variable of the campaign and of the emergency calls keeps its type.
THEOREM EmergencyTypeCorrect == ESpec => []ETypeOK
BY ETypeInit, ETypeNext, PTL DEF ESpec

-----------------------------------------------------------------------------
(* The accounts.  The campaign's calls leave the surplus as it is, and what *)
(* an emergency takes from the contract the admin has.  Until then nothing  *)
(* disturbs the campaign's own invariant; afterwards the total no longer    *)
(* covers the records and only the sum of the money is left.                *)

AInv ==
  /\ ETypeOK
  /\ EmergencyConserved
  /\ adminBal = 0 => IInv

LEMMA AInvInit == EInit => AInv
<1> SUFFICES ASSUME EInit
             PROVE  AInv
  OBVIOUS
<1>1. ETypeOK /\ IInv /\ adminBal = 0
  BY ETypeInit, IInvInit DEF EInit
<1> QED
  BY <1>1 DEF AInv, EmergencyConserved, IInv, Books, Conserved, TypeOK, EInit, Init

\* The calls that leave the campaign alone.
LEMMA AInvQuiet ==
  ASSUME AInv, ETypeOK', UNCHANGED vars, UNCHANGED adminBal
  PROVE  AInv'
<1>1. EmergencyConserved'
  BY DEF AInv, EmergencyConserved, vars
<1>2. adminBal' = 0 => IInv'
  BY IInvNext DEF AInv
<1> QED
  BY <1>1, <1>2 DEF AInv

LEMMA AInvNext == AInv /\ [ENext]_evars => AInv'
<1> SUFFICES ASSUME AInv, [ENext]_evars
             PROVE  AInv'
  OBVIOUS
<1>0. /\ ETypeOK /\ ETypeOK' /\ TypeOK /\ TypeOK'
      /\ Booked \in Nat /\ Fees \in Nat
  BY ETypeNext, SumTypes DEF AInv, ETypeOK
<1>1. CASE CampaignCall
  <2>1. Next /\ adminBal' = adminBal
    BY <1>1 DEF CampaignCall, session
  <2>2. Surplus' = Surplus
    BY <1>0, <2>1, MoneyMoves
  <2>3. (Booked \in Nat /\ Fees \in Nat)'
    BY <1>0, SumTypes, PTL
  <2>4. EmergencyConserved'
    BY <1>0, <2>1, <2>2, <2>3
       DEF AInv, ETypeOK, TypeOK, EmergencyConserved, Surplus, Booked, Fees
  <2>5. adminBal' = 0 => IInv'
    BY <2>1, IInvNext DEF AInv
  <2> QED
    BY <1>0, <2>4, <2>5 DEF AInv
<1>2. ASSUME NEW p \in LockPeriods, InitiateEmergency(p)
      PROVE  AInv'
  BY <1>0, <1>2, AInvQuiet DEF InitiateEmergency
<1>3. CASE ExecuteEmergency
  <2> DEFINE taken == IF total > 0 THEN total ELSE 0
  <2>1. taken \in Nat
    BY <1>0 DEF TypeOK
  <2>2. /\ held' = held - taken
        /\ adminBal' = adminBal + taken
        /\ total' = total - taken
        /\ UNCHANGED <<contribution, insuranceFee, creatorBal, platformBal>>
    BY <1>3 DEF ExecuteEmergency, insurance, payees
  <2> HIDE DEF taken
  <2>3. EmergencyConserved'
    BY <1>0, <2>1, <2>2
       DEF AInv, ETypeOK, TypeOK, EmergencyConserved
  <2>4. ASSUME adminBal' = 0
        PROVE  IInv'
    <3>1. taken = 0 /\ adminBal = 0
      BY <1>0, <2>1, <2>2, <2>4 DEF ETypeOK
    <3>2. held' = held /\ total' = total
      BY <1>0, <2>2, <3>1 DEF TypeOK
    <3>3. UNCHANGED vars
      BY <1>3, <3>2 DEF ExecuteEmergency, vars, campaign, insurance, match, payees
    <3> QED
      BY <3>1, <3>3, IInvNext DEF AInv
  <2> QED
    BY <1>0, <2>3, <2>4 DEF AInv
<1>4. CASE CancelEmergency
  BY <1>0, <1>4, AInvQuiet DEF CancelEmergency
<1>5. ASSUME NEW m \in MultisigConfigs, SetupMultisig(m)
      PROVE  AInv'
  BY <1>0, <1>5, AInvQuiet DEF SetupMultisig
<1>6. ASSUME NEW a \in Approvers, ApproveEmergency(a)
      PROVE  AInv'
  BY <1>0, <1>6, AInvQuiet DEF ApproveEmergency
<1>7. CASE UNCHANGED evars
  BY <1>0, <1>7, AInvQuiet DEF evars, session
<1> QED
  BY <1>1, <1>2, <1>3, <1>4, <1>5, <1>6, <1>7 DEF ENext

\* The balance, the payouts and what the admin took are the records, whatever
\* is refunded, withdrawn or taken again afterwards.
THEOREM TakenIsAccounted == ESpec => []EmergencyConserved
<1>1. AInv => EmergencyConserved
  BY DEF AInv
<1> QED
  BY <1>1, AInvInit, AInvNext, PTL DEF ESpec

\* Sessions that were opened, approved or cancelled and took nothing leave
\* every promise of the campaign as it was.
THEOREM SessionsHarmless == ESpec => []IntactUntilTaken
<1>1. AInv => IntactUntilTaken
  BY DEF AInv, IntactUntilTaken, IInv, Books
<1> QED
  BY <1>1, AInvInit, AInvNext, PTL DEF ESpec

\* Until the admin has taken something the campaign is the escrow it is
\* without the emergency calls, whatever sessions come and go.
THEOREM SessionsKeepEscrow == ESpec => EscrowUntilTaken
<1>1. AInv /\ AInv' /\ [ENext]_evars
        => [adminBal' = 0 => [Promise!Next]_escrowVars]_evars
  <2> SUFFICES ASSUME AInv, AInv', ENext, adminBal' = 0
               PROVE  [Promise!Next]_escrowVars
    OBVIOUS
  <2>1. [Next]_vars
    <3>1. CASE ExecuteEmergency
      <4> DEFINE taken == IF total > 0 THEN total ELSE 0
      <4>1. /\ taken \in Nat /\ adminBal \in Nat /\ adminBal' = adminBal + taken
            /\ held' = held - taken /\ total' = total - taken
        BY <3>1 DEF ExecuteEmergency, AInv, ETypeOK, TypeOK
      <4>2. taken = 0
        BY <4>1
      <4>3. UNCHANGED <<held, total>>
        BY <4>1, <4>2 DEF AInv, ETypeOK, TypeOK
      <4> QED
        BY <3>1, <4>3 DEF ExecuteEmergency, vars, campaign, insurance, match, payees
    <3> QED
      BY <3>1 DEF ENext, CampaignCall, InitiateEmergency, CancelEmergency,
                  SetupMultisig, ApproveEmergency
  <2>2. adminBal = 0
    <3>1. adminBal' = adminBal \/ ExecuteEmergency
      BY DEF ENext, CampaignCall, session, InitiateEmergency, CancelEmergency,
             SetupMultisig, ApproveEmergency
    <3>2. ExecuteEmergency => \E taken \in Nat : adminBal' = adminBal + taken
      BY DEF ExecuteEmergency, AInv, ETypeOK, TypeOK
    <3> QED
      BY <3>1, <3>2 DEF AInv, ETypeOK
  <2>3. IInv /\ IInv'
    BY <2>2 DEF AInv
  <2> QED
    BY <2>1, <2>3, EscrowNext
<1>2. EscrowUntilTaken <=> [][adminBal' = 0 => [Promise!Next]_escrowVars]_evars
  BY DEF EscrowUntilTaken, escrowVars
<1> QED
  BY <1>1, <1>2, AInvInit, AInvNext, PTL DEF ESpec
-----------------------------------------------------------------------------
(* What holds even after the admin took something: the creator is still paid *)
(* at most once and only against recorded contributions, because a campaign  *)
(* that can be paid out has paid nothing and the contract never holds more   *)
(* than what is on record.                                                   *)

TInv == ETypeOK /\ EmergencyConserved /\ OpenMeansUnpaid

LEMMA TInvInit == EInit => TInv
BY AInvInit DEF AInv, TInv, EInit, Init, OpenMeansUnpaid, Unpaid

LEMMA TInvNext == AInv /\ TInv /\ [ENext]_evars => TInv'
<1> SUFFICES ASSUME AInv, TInv, [ENext]_evars
             PROVE  TInv'
  OBVIOUS
<1>1. AInv'
  BY AInvNext
<1>2. OpenMeansUnpaid'
  <2>1. CASE Withdraw
    BY <2>1 DEF Withdraw, OpenMeansUnpaid
  <2>2. CASE ~Withdraw
    <3>1. /\ UNCHANGED payees
          /\ status' \in {"Active", "Paused"} => status \in {"Active", "Paused"}
      BY <2>2 DEF ENext, CampaignCall, Next, Tick, Contribute, ExtendDeadline,
         AdjustGoal, CancelCampaign, Archive, Pause, Resume, SetStatus,
         RefundSingle, RefundBatch, RefundPartial, SetupMatching,
         EnableInsurance, ClaimInsurancePayout, SetAdmission,
         InitiateEmergency, ExecuteEmergency, CancelEmergency, SetupMultisig,
         ApproveEmergency, campaign, payees, vars, evars
    <3> QED
      BY <3>1 DEF TInv, OpenMeansUnpaid, Unpaid, payees
  <2> QED
    BY <2>1, <2>2
<1> QED
  BY <1>1, <1>2 DEF AInv, TInv

LEMMA TakenInvariant == ESpec => [](AInv /\ TInv)
BY AInvInit, AInvNext, TInvInit, TInvNext, PTL DEF ESpec

\* Every step that pays the creator, or makes the campaign successful, is a
\* withdrawal of an Active campaign.
LEMMA PaidIsWithdraw ==
  [ENext]_evars => \/ Withdraw
                   \/ /\ UNCHANGED payees
                      /\ status' = "Successful" => status = "Successful"
BY DEF ENext, CampaignCall, Next, Tick, Contribute, ExtendDeadline,
   AdjustGoal, CancelCampaign, Archive, Pause, Resume, SetStatus,
   RefundSingle, RefundBatch, RefundPartial, SetupMatching,
   EnableInsurance, ClaimInsurancePayout, SetAdmission,
   InitiateEmergency, ExecuteEmergency, CancelEmergency, SetupMultisig,
   ApproveEmergency, campaign, payees, vars, evars

\* No emergency withdrawal, before or after, lets the creator be paid twice.
THEOREM PaidOnceWithSessions == ESpec => PaidOnce
<1> DEFINE Kept == ~Unpaid => UNCHANGED payees
<1>1. TInv /\ [ENext]_evars => [Kept]_vars
  <2> SUFFICES ASSUME TInv, [ENext]_evars, ~Unpaid
               PROVE  UNCHANGED payees
    OBVIOUS
  <2>1. ~Withdraw
    BY DEF TInv, OpenMeansUnpaid, Withdraw
  <2> QED
    BY <2>1, PaidIsWithdraw
<1> QED
  BY <1>1, TakenInvariant, PTL DEF ESpec, PaidOnce

\* A withdrawal still needs recorded contributions that reach the goal when
\* the admin has taken a part of the contract's tokens, or all of them.
THEOREM PayoutBackedWithSessions == ESpec => PayoutMeetsGoal
<1> DEFINE Backed == status # "Successful" /\ status' = "Successful"
                       /\ Vesting = NoVesting /\ NoFees
                     => TotalOf(contribution, Contributors) >= goal
<1>1. TInv /\ [ENext]_evars => [Backed]_vars
  <2> SUFFICES ASSUME TInv, [ENext]_evars, status # "Successful",
                      status' = "Successful", Vesting = NoVesting, NoFees
               PROVE  Booked >= goal
    BY DEF Booked
  <2>1. Withdraw /\ TypeOK
    BY PaidIsWithdraw DEF TInv, ETypeOK
  <2> DEFINE fee == Share(Payable, PlatformBps)
             vested == Vested(Payable - fee)
  <2>2. fee \in Nat /\ vested \in Nat /\ fee + vested = total
    BY <2>1, PayOutParts DEF Withdraw
  <2>3. total >= goal /\ held >= fee + vested /\ status = "Active"
    BY <2>1 DEF Withdraw, GoalReached, PayOut
  <2> HIDE DEF fee, vested
  <2>4. Fees = 0 /\ Booked \in Nat
    BY <2>1, TotalOfZero, SumTypes DEF NoFees, Fees
  <2>5. Booked = held + adminBal /\ adminBal \in Nat
    BY <2>1, <2>3, <2>4 DEF TInv, ETypeOK, TypeOK, EmergencyConserved,
       OpenMeansUnpaid, Unpaid, Booked, Fees
  <2>6. goal \in Nat /\ total \in Int /\ held \in Nat
    BY <2>1, Constants DEF TypeOK
  <2> QED
    BY <2>2, <2>3, <2>4, <2>5, <2>6
<1> QED
  BY <1>1, TakenInvariant, PTL DEF ESpec, PayoutMeetsGoal

\* The admin was paid.
Taken == adminBal > 0

\* Who is owed a refund while the admin has taken nothing stays so until it is
\* paid, the campaign is no longer failed, or the admin takes something.
LEMMA OwedStepWithSessions ==
  ASSUME NEW c \in Contributors
  PROVE  AInv /\ ~Taken /\ Owed(c) /\ [ENext]_evars
           => (~Taken' /\ Owed(c)') \/ Cleared(c)' \/ Taken'
<1> SUFFICES ASSUME AInv, adminBal = 0, Owed(c), [ENext]_evars, ~(adminBal' > 0)
             PROVE  adminBal' = 0 /\ (Owed(c)' \/ Cleared(c)')
  BY DEF Taken, AInv, ETypeOK
<1>1. AInv' /\ IInv /\ ETypeOK
  BY AInvNext DEF AInv
<1>2. adminBal' = 0
  BY <1>1 DEF AInv, ETypeOK
<1>3. IInv'
  BY <1>1, <1>2 DEF AInv
<1>4. CASE [Next]_vars
  BY <1>1, <1>2, <1>4, OwedStep DEF IInv
<1>5. CASE ~[Next]_vars
  <2>1. UNCHANGED payees
    BY <1>5 DEF ENext, CampaignCall, InitiateEmergency, ExecuteEmergency,
       CancelEmergency, SetupMultisig, ApproveEmergency, evars
  <2>2. contribution'[c] \in Nat /\ Unpaid'
    BY <1>3, <2>1 DEF IInv, Books, TypeOK, Owed, Unpaid, payees
  <2>3. CASE CampaignFailed' /\ contribution'[c] > 0
    BY <1>2, <2>2, <2>3 DEF Owed
  <2>4. CASE ~(CampaignFailed' /\ contribution'[c] > 0)
    BY <1>2, <2>2, <2>4 DEF Cleared
  <2> QED
    BY <2>3, <2>4
<1> QED
  BY <1>4, <1>5

\* A failed campaign pays everybody back for whom somebody keeps calling
\* refund_single, with any number of emergency sessions, unless the admin
\* takes the tokens first.
THEOREM RefundsArriveUntilTaken ==
  ASSUME NEW c \in Contributors
  PROVE  ESpec /\ AskedFor(c) =>
           ((Unpaid /\ CampaignFailed)
              ~> (contribution[c] = 0 \/ ~CampaignFailed \/ Taken))
<1>1. AInv /\ ~Taken /\ Owed(c) /\ [ENext]_evars
        => (~Taken' /\ Owed(c)') \/ Cleared(c)' \/ Taken'
  BY OwedStepWithSessions
<1>2. <<RefundSingle(c)>>_vars => Cleared(c)'
  BY RefundClears
<1>3. Books /\ Owed(c) => RefundCallable(c)
  BY OwedCallable
<1>4. /\ Books /\ Unpaid /\ CampaignFailed => Owed(c) \/ Cleared(c)
      /\ Cleared(c) <=> contribution[c] = 0 \/ ~CampaignFailed
  BY OwedOrCleared
<1>5. AInv /\ ~Taken => Books
  BY DEF AInv, ETypeOK, IInv, Taken
<1> QED
  BY <1>1, <1>2, <1>3, <1>4, <1>5, TakenInvariant, PTL DEF ESpec, AskedFor
=============================================================================
