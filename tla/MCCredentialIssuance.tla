------------------------ MODULE MCCredentialIssuance ------------------------
\* Requests and overlapping polls, courses that require KYC, restarts and
\* failed calls.
EXTENDS CredentialIssuance

CONSTANTS r1, r2, p1, p2, c1, c2

MCRequest == {r1}
MCRequests == {r1, r2}
MCPoll == {p1}
MCPolls == {p1, p2}
MCCourse == {c1}
MCCourses == {c1, c2}
MCTuple == {"tuple"}
MCShapes == {"fields", "tuple"}
=============================================================================
