\* Recurring plans, delegation and votes on the deadline.
SPECIFICATION XSpec
CONSTANTS
  c1 = c1
  c2 = c2
  Contributors <- MCContributors
  InitialWallet = 1
  Amounts = {1}
  MinContribution = 1
  MaxContribution = 0
  Goals = {1, 2}
  Deadlines = {2, 3, 4}
  MaxTime = 3
  MaxTotal = 3
  PlatformBps = 0
  InsuranceRates <- MCNothing
  MatchingConfigs <- MCNothing
  NoMatching = NoMatching
  Vesting = NoVesting
  NoVesting = NoVesting
  AdmissionSets = {}
  MaxBatch = 2
  Planners <- MCPlanners
  DelegationPairs <- MCDelegationPairs
  PlanTerms <- MCPlanTerms
  NoPlan = NoPlan
  DelegatedLimits = {1}
  NoDelegation = NoDelegation
  VotingPeriod = 1
  NoProposal = NoProposal
INVARIANTS
  XTypeOK
  GiftsAccounted
  BooksCoverContributions
  BallotsCountedOnce
PROPERTIES
  ImplementsCustody
  AppliedOnce
