SPECIFICATION FairSpec
CONSTANTS
  r1 = r1
  r2 = r2
  p1 = p1
  p2 = p2
  c1 = c1
  c2 = c2
  NoCourse = NoCourse
  Requests <- MCRequest
  Polls <- MCPolls
  Courses <- MCCourse
  Gated <- MCCourse
  Shapes <- MCShapes
  MaxHeight = 2
  MaxRare = 1
INVARIANTS
  DuplicatesOverlap
  CredentialsBacked
  NothingSkipped
PROPERTIES
  EventsAreIssued
