\* Emergency sessions next to a plain campaign.
SPECIFICATION ESpec
CONSTANTS
  c1 = c1
  a1 = a1
  a2 = a2
  Contributors <- MCContributors
  InitialWallet = 4
  Amounts = {1, 4}
  MinContribution = 1
  MaxContribution = 0
  Goals = {2}
  Deadlines = {3}
  MaxTime = 4
  MaxTotal = 8
  PlatformBps = 2500
  InsuranceRates <- MCNothing
  MatchingConfigs <- MCNothing
  NoMatching = NoMatching
  Vesting = NoVesting
  NoVesting = NoVesting
  AdmissionSets = {}
  MaxBatch = 2
  Approvers <- MCApprovers
  LockPeriods = {1, 2}
  MultisigConfigs <- MCMultisigConfigs
INVARIANTS
  ETypeOK
  QuorumCounted
  EmergencyConserved
  IntactUntilTaken
PROPERTY
  EmergencyAuthorised
  EscrowUntilTaken
