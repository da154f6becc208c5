SPECIFICATION Spec
CONSTANTS
  r1 = r1
  r2 = r2
  p1 = p1
  p2 = p2
  c1 = c1
  c2 = c2
  NoCourse = NoCourse
  Requests <- MCRequests
  Polls <- MCPoll
  Courses <- MCCourses
  Gated <- MCCourse
  Shapes <- MCTuple
  MaxHeight = 1
  MaxRare = 0
INVARIANT NoDuplicateCredential
