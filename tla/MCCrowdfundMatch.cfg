\* setup_matching: contributions topped up by the sponsor.
SPECIFICATION Spec
CONSTANTS
  c1 = c1
  c2 = c2
  Contributors <- MCContributors
  InitialWallet = 4
  Amounts = {1, 4}
  MinContribution = 1
  MaxContribution = 4
  Goals = {3}
  Deadlines = {2, 3}
  MaxTime = 4
  MaxTotal = 10
  PlatformBps = 2500
  InsuranceRates <- MCNoRates
  MatchingConfigs <- MCMatchingConfigs
  NoMatching = NoMatching
  Vesting = NoVesting
  NoVesting = NoVesting
  AdmissionSets = {}
  MaxBatch = 2
PROPERTY
  MatchIsFunded
