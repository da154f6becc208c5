----------------------------- MODULE MCSessions -----------------------------
\* Two requests at once and two pairs: two logins, or one that is refreshed.
EXTENDS Sessions, TLC

CONSTANTS w1, w2, p1, p2

MCRequests == {w1, w2}
MCPairs == {p1, p2}

\* Nothing tells one request or one pair from another.
MCSymmetry == Permutations(MCRequests) \cup Permutations(MCPairs)
=============================================================================
