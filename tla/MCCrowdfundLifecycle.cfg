\* Plain campaigns: no insurance, no vesting, one sponsor.
SPECIFICATION FairSpec
CONSTANTS
  c1 = c1
  c2 = c2
  Contributors <- MCContributors
  InitialWallet = 4
  Amounts = {1, 2, 4}
  MinContribution = 1
  MaxContribution = 4
  Goals = {3, 5}
  Deadlines = {2, 3, 4}
  MaxTime = 4
  MaxTotal = 12
  PlatformBps = 2500
  InsuranceRates <- MCNoRates
  MatchingConfigs <- MCOneMatching
  NoMatching = NoMatching
  Vesting = NoVesting
  NoVesting = NoVesting
  AdmissionSets <- MCAdmissionSets
  MaxBatch = 2
INVARIANTS
  TypeOK
  Accounted
  BooksCoverContributions
  WithdrawEmptiesContract
  RefundPossible
PROPERTIES
  PayoutMeetsGoal
  PaidOnce
  RefundEventually
