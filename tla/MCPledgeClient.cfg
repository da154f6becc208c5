SPECIFICATION Spec
CONSTANTS
  m1 = m1
  m2 = m2
  c1 = c1
  c2 = c2
  viewer = viewer
  Page = Page
  NoModal = NoModal
  NoCall = NoCall
  NoEntry = NoEntry
  Modals <- MCModals
  Calls <- MCCalls
  Claims <- MCClaims
  Readers <- MCReaders
  Viewers <- MCViewers
  Methods <- MCMethods
  Static <- MCStatic
  TTL = 1
  Infinity = 100
  Latency = 1
  MaxTime = 3
  MaxVersion = 2
  MaxPolls = 2
SYMMETRY Symmetry
INVARIANTS
  ReportsAreTrue
  NoGhostPledge
  ReadsAreRecent
  OneCallPerPanel
CHECK_DEADLOCK FALSE
