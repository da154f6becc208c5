--------------------------- MODULE MCPledgeClient ---------------------------
\* Two pledges, or a pledge and a withdrawal, of one page, and a second reader
\* of the statistics.
EXTENDS PledgeClient, TLC

CONSTANTS m1, m2, c1, c2, viewer

MCModals == {m1, m2}
MCCalls == {c1, c2}
MCReaders == {c1, c2, viewer}
MCViewers == {viewer}
MCMethods == {"get_stats"}
MCStatic == {}
MCClaims == {"withdraw"}
Symmetry ==
  {[x \in MCModals \cup MCCalls |-> IF x \in MCModals THEN p[x] ELSE q[x]] :
     p \in Permutations(MCModals), q \in Permutations(MCCalls)}
=============================================================================
