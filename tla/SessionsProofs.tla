--------------------------- MODULE SessionsProofs ---------------------------
(***************************************************************************)
(* Proofs about Sessions for any number of requests and pairs, any         *)
(* lifetimes, and any number of failed calls and restarts.                 *)
(***************************************************************************)
EXTENDS Sessions, FiniteSetTheorems, TLAPS

\* A request presents what was issued, holds a revoked token once it revoked
\* one, and, when it began after the logout, is on its way to a refusal.
JobOK(r) ==
  /\ r.refresh # NoPair => row[r.refresh] # "none"
  /\ r.access # NoPair => row[r.access] # "none"
  /\ r.at \in {"findToken", "revokeToken", "issuePair", "findSession",
               "revokeSession", "cacheToken", "listToken"} => r.refresh # NoPair
  /\ r.at \in {"lookInCache", "lookInTable", "user"} => r.access # NoPair
  /\ r.at \in {"issuePair", "cacheToken", "listToken"} =>
       row[r.refresh] = "revoked"
  /\ r.late =>
       /\ r.at \notin {"revokeToken", "issuePair", "findSession",
                      "revokeSession", "cacheToken", "listToken"}
       /\ r.at = "findToken" => row[r.refresh] = "revoked"
       /\ r.at \in {"lookInCache", "lookInTable"} => r.access \in closed
       /\ r.at = "user" => now >= Expiry(r.access)

JobsOK == \A w \in Requests : JobOK(job[w])

\* A refresh token that was logged out is revoked; an access token that was is
\* on the blacklist or has expired.
LogoutsKept ==
  /\ \A p \in loggedOut \ {NoPair} : row[p] = "revoked"
  /\ \A a \in closed \ {NoPair} :
       row[a] # "none" /\ (a \in listed \/ Expiry(a) < now)

\* Only a revoked token was good for a pair.
ParentsRevoked ==
  \A q \in Pairs : parent[q] # NoPair =>
    row[q] # "none" /\ row[parent[q]] = "revoked"

SInv == TypeOK /\ JobsOK /\ LogoutsKept /\ ParentsRevoked /\ RotationBounded

LEMMA InvImplies == SInv => LogoutSticks
BY DEF SInv, JobsOK, JobOK, LogoutSticks

-----------------------------------------------------------------------------
(* A step of one request.                                                  *)

Moves(w, r) == r \in Jobs /\ job' = [job EXCEPT ![w] = r]

LEMMA IdleIsJob == Idle \in Jobs
BY DEF Idle, Jobs, Places

LEMMA MoveTypes ==
  ASSUME TypeOK, NEW w \in Requests, NEW r, Moves(w, r)
  PROVE  /\ job' \in [Requests -> Jobs]
         /\ job'[w] = r
         /\ \A v \in Requests \ {w} : job'[v] = job[v]
BY DEF TypeOK, Moves

LEMMA Goes ==
  ASSUME TypeOK, NEW w \in Requests, NEW place \in Places, GoTo(w, place)
  PROVE  \E r \in Jobs : /\ Moves(w, r) /\ r.at = place
                         /\ r.refresh = job[w].refresh
                         /\ r.access = job[w].access /\ r.late = job[w].late
<1> DEFINE s == [job[w] EXCEPT !.at = place]
<1>1. job[w] \in Jobs
  BY DEF TypeOK
<1>2. /\ s \in Jobs /\ s.at = place /\ s.refresh = job[w].refresh
      /\ s.access = job[w].access /\ s.late = job[w].late
  BY <1>1 DEF Jobs
<1>3. Moves(w, s)
  BY <1>2 DEF Moves, GoTo
<1> QED
  BY <1>2, <1>3

LEMMA Ends ==
  ASSUME NEW w \in Requests, End(w)
  PROVE  \E r \in Jobs : /\ Moves(w, r) /\ r.at = "idle" /\ ~r.late
                         /\ r.refresh = NoPair /\ r.access = NoPair
<1>1. /\ Idle.at = "idle" /\ ~Idle.late
      /\ Idle.refresh = NoPair /\ Idle.access = NoPair
  BY DEF Idle
<1>2. Moves(w, Idle)
  BY IdleIsJob DEF End, Moves
<1> QED
  BY <1>1, <1>2, IdleIsJob

\* What was issued stays issued, what was revoked stays revoked.
Grows ==
  /\ \A p \in Pairs : row[p] # "none" =>
       row'[p] # "none" /\ issued'[p] = issued[p]
  /\ \A p \in Pairs : row[p] = "revoked" => row'[p] = "revoked"
  /\ closed \subseteq closed'
  /\ now <= now'

LEMMA OthersKept ==
  ASSUME SInv, now' \in 0..MaxTime, Grows, NEW r \in Jobs, JobOK(r)
  PROVE  JobOK(r)'
<1>1. /\ r.refresh \in Pairs \cup {NoPair} /\ r.access \in Pairs \cup {NoPair}
      /\ r.late \in BOOLEAN
  BY DEF Jobs
<1>2. now \in Nat /\ now' \in Nat /\ now <= now'
  BY SessionsAssumption DEF SInv, TypeOK, Grows
<1>3. r.refresh # NoPair => /\ row'[r.refresh] # "none"
                            /\ row[r.refresh] = "revoked" => row'[r.refresh] = "revoked"
  BY <1>1 DEF JobOK, Grows
<1>4. r.access # NoPair => row'[r.access] # "none" /\ issued'[r.access] = issued[r.access]
  BY <1>1 DEF JobOK, Grows
<1>5. r.late /\ r.at \in {"lookInCache", "lookInTable"} => r.access \in closed'
  BY DEF JobOK, Grows
<1>6. r.late /\ r.at = "user" => now' >= issued'[r.access] + AccessTtl
  <2> SUFFICES ASSUME r.late, r.at = "user"
               PROVE  now' >= issued'[r.access] + AccessTtl
    OBVIOUS
  <2>1. r.access \in Pairs /\ now >= issued[r.access] + AccessTtl
    BY <1>1 DEF JobOK, Expiry
  <2>2. issued'[r.access] = issued[r.access] /\ issued[r.access] \in Nat
    BY <1>4, <2>1, SessionsAssumption DEF SInv, TypeOK
  <2> QED
    BY <1>2, <2>1, <2>2, SessionsAssumption
<1> QED
  BY <1>3, <1>4, <1>5, <1>6 DEF JobOK, Expiry

\* What a step of a request has to keep.
LEMMA StepKeeps ==
  ASSUME SInv, TypeOK', NEW w \in Requests, NEW r, Moves(w, r), Grows,
         JobOK(r)', LogoutsKept', ParentsRevoked', RotationBounded'
  PROVE  SInv'
<1>1. job'[w] = r /\ \A v \in Requests \ {w} : job'[v] = job[v]
  BY MoveTypes DEF SInv
<1>2. ASSUME NEW v \in Requests
      PROVE  JobOK(job[v])'
  <2>1. CASE v = w
    BY <1>1, <2>1 DEF JobOK
  <2>2. CASE v # w
    <3>1. PICK s \in Jobs : s = job[v] /\ JobOK(s)
      BY DEF SInv, TypeOK, JobsOK
    <3>2. JobOK(s)'
      BY <3>1, OthersKept DEF TypeOK
    <3>3. job'[v] = s
      BY <1>1, <2>2, <3>1
    <3> QED
      BY <3>2, <3>3 DEF JobOK
  <2> QED
    BY <2>1, <2>2
<1> QED
  BY <1>2 DEF SInv, JobsOK

-----------------------------------------------------------------------------
(* Counting.                                                               *)

Renews(r, p) == r.refresh = p /\ r.at \in {"revokeToken", "issuePair"}

LEMMA RequestsCount == Cardinality(Requests) \in Nat
BY FS_CardinalityType, SessionsAssumption

LEMMA RenewingFinite ==
  ASSUME NEW p \in Pairs
  PROVE  /\ IsFiniteSet(Renewing(p)) /\ Cardinality(Renewing(p)) \in Nat
         /\ Cardinality(Renewing(p)) <= Cardinality(Requests)
<1>1. Renewing(p) \in SUBSET Requests
  BY DEF Renewing
<1> QED
  BY <1>1, FS_Subset, FS_CardinalityType, SessionsAssumption

LEMMA ChildrenFinite ==
  ASSUME NEW p \in Pairs
  PROVE  IsFiniteSet(Children(p)) /\ Cardinality(Children(p)) \in Nat
<1>1. Children(p) \in SUBSET Pairs
  BY DEF Children
<1> QED
  BY <1>1, FS_Subset, FS_CardinalityType, SessionsAssumption

LEMMA RenewingNext ==
  ASSUME NEW p \in Pairs
  PROVE  /\ Cardinality(Renewing(p)') \in Nat
         /\ Cardinality(Renewing(p)') <= Cardinality(Requests)
<1>1. Renewing(p)' \in SUBSET Requests
  BY DEF Renewing
<1> QED
  BY <1>1, FS_Subset, FS_CardinalityType, SessionsAssumption

\* How the refreshes under way change with a step of w.
LEMMA RenewingMoves ==
  ASSUME TypeOK, NEW w \in Requests, NEW r, Moves(w, r), NEW p \in Pairs
  PROVE  /\ Renews(job[w], p) /\ Renews(r, p) => Renewing(p)' = Renewing(p)
         /\ ~Renews(job[w], p) /\ ~Renews(r, p) => Renewing(p)' = Renewing(p)
         /\ Renews(job[w], p) /\ ~Renews(r, p) =>
              Cardinality(Renewing(p)') = Cardinality(Renewing(p)) - 1
<1>1. job'[w] = r /\ \A v \in Requests \ {w} : job'[v] = job[v]
  BY MoveTypes
<1>2. /\ Renewing(p) = {v \in Requests : Renews(job[v], p)}
      /\ Renewing(p)' = {v \in Requests : Renews(job'[v], p)}
  BY DEF Renewing, Renews
<1>3. (Renews(job[w], p) <=> Renews(r, p)) => Renewing(p)' = Renewing(p)
  BY <1>1, <1>2
<1>4. ASSUME Renews(job[w], p), ~Renews(r, p)
      PROVE  Cardinality(Renewing(p)') = Cardinality(Renewing(p)) - 1
  <2>1. Renewing(p)' = Renewing(p) \ {w} /\ w \in Renewing(p)
    BY <1>1, <1>2, <1>4
  <2> QED
    BY <2>1, RenewingFinite, FS_RemoveElement
<1> QED
  BY <1>3, <1>4

\* A step that begins no renewal and issues no pair.
LEMMA RotationQuiet ==
  ASSUME SInv, NEW w \in Requests, NEW r, Moves(w, r), UNCHANGED parent,
         \A p \in Pairs : Renews(r, p) => Renews(job[w], p)
  PROVE  RotationBounded'
<1> SUFFICES ASSUME NEW p \in Pairs
             PROVE  Cardinality(Children(p)') + Cardinality(Renewing(p)')
                      <= Cardinality(Requests)
  BY DEF RotationBounded
<1>1. Children(p)' = Children(p)
  BY DEF Children
<1>2. \/ Cardinality(Renewing(p)') = Cardinality(Renewing(p))
      \/ Cardinality(Renewing(p)') = Cardinality(Renewing(p)) - 1
  BY RenewingMoves DEF SInv
<1>3. /\ Cardinality(Children(p)) \in Nat /\ Cardinality(Renewing(p)) \in Nat
      /\ Cardinality(Children(p)) + Cardinality(Renewing(p)) <= Cardinality(Requests)
  BY RenewingFinite, ChildrenFinite DEF SInv, RotationBounded
<1>4. Cardinality(Children(p)') = Cardinality(Children(p))
  BY <1>1
<1> QED
  BY <1>2, <1>3, <1>4, RequestsCount

\* A step that only moves one request.
LEMMA QuietKeeps ==
  ASSUME SInv, NEW w \in Requests, NEW r, Moves(w, r),
         UNCHANGED <<now, row, issued, parent, listed, loggedOut, closed>>,
         cached' \subseteq Pairs \cup {NoPair}, UNCHANGED faults \/ Fault,
         JobOK(r)', \A p \in Pairs : Renews(r, p) => Renews(job[w], p)
  PROVE  SInv'
<1>1. TypeOK'
  <2>1. job' \in [Requests -> Jobs]
    BY MoveTypes DEF SInv
  <2>2. faults' \in 0..MaxFaults
    BY SessionsAssumption DEF SInv, TypeOK, Fault
  <2> QED
    BY <2>1, <2>2 DEF SInv, TypeOK
<1>2. Grows
  BY SessionsAssumption DEF Grows, SInv, TypeOK
<1>3. LogoutsKept' /\ ParentsRevoked'
  BY DEF SInv, LogoutsKept, ParentsRevoked, Expiry
<1>4. RotationBounded'
  BY RotationQuiet
<1> QED
  BY <1>1, <1>2, <1>3, <1>4, StepKeeps

-----------------------------------------------------------------------------
(* Steps that keep no record.                                              *)

\* A request that ends is as good as none.
LEMMA EndQuiet ==
  ASSUME SInv, NEW w \in Requests, End(w),
         UNCHANGED <<now, row, issued, parent, listed, loggedOut, closed>>,
         cached' \subseteq Pairs \cup {NoPair}, UNCHANGED faults \/ Fault
  PROVE  SInv'
<1>1. PICK r \in Jobs : /\ Moves(w, r) /\ r.at = "idle" /\ ~r.late
                        /\ r.refresh = NoPair /\ r.access = NoPair
  BY Ends
<1>2. JobOK(r)'
  BY <1>1 DEF JobOK
<1>3. \A p \in Pairs : ~Renews(r, p)
  BY <1>1 DEF Renews
<1> QED
  BY <1>1, <1>2, <1>3, QuietKeeps

LEMMA BeginRefreshKeeps ==
  ASSUME SInv, NEW w \in Requests, NEW p \in Given, BeginRefresh(w, p)
  PROVE  SInv'
<1>1. p \in Pairs /\ row[p] # "none" /\ p # NoPair
  BY SessionsAssumption DEF Given
<1>2. PICK r \in Jobs : /\ Moves(w, r) /\ r.at = "findToken" /\ r.refresh = p
                        /\ r.access = NoPair /\ r.late = (p \in loggedOut)
  <2> DEFINE b == p \in loggedOut
             s == [Idle EXCEPT !.at = "findToken", !.refresh = p, !.late = b]
  <2>1. /\ s \in Jobs /\ s.at = "findToken" /\ s.refresh = p
        /\ s.access = NoPair /\ s.late = b
    <3>1. b \in BOOLEAN
      OBVIOUS
    <3> HIDE DEF b
    <3> QED
      BY <1>1, <3>1 DEF Idle, Jobs, Places
  <2>2. Moves(w, s)
    BY <2>1 DEF BeginRefresh, Moves
  <2> QED
    BY <2>1, <2>2
<1>3. r.late => row[p] = "revoked"
  BY <1>1, <1>2 DEF SInv, LogoutsKept
<1>4. UNCHANGED <<now, row, issued, parent, listed, cached, loggedOut, closed, faults>>
  BY DEF BeginRefresh, tokenVars, listVars, history
<1>5. JobOK(r)'
  BY <1>1, <1>2, <1>3, <1>4 DEF JobOK
<1>6. \A q \in Pairs : ~Renews(r, q)
  BY <1>2 DEF Renews
<1> QED
  BY <1>2, <1>4, <1>5, <1>6, QuietKeeps DEF SInv, TypeOK

LEMMA BeginLogoutKeeps ==
  ASSUME SInv, NEW w \in Requests, NEW p \in Given, NEW a \in Given \cup {NoPair},
         BeginLogout(w, p, a)
  PROVE  SInv'
<1>1. /\ p \in Pairs /\ row[p] # "none" /\ p # NoPair
      /\ a \in Pairs \cup {NoPair} /\ (a # NoPair => row[a] # "none")
  BY SessionsAssumption DEF Given
<1>2. PICK r \in Jobs : /\ Moves(w, r) /\ r.at = "findSession" /\ r.refresh = p
                        /\ r.access = a /\ ~r.late
  <2> DEFINE s == [Idle EXCEPT !.at = "findSession", !.refresh = p, !.access = a]
  <2>1. /\ s \in Jobs /\ s.at = "findSession" /\ s.refresh = p
        /\ s.access = a /\ ~s.late
    BY <1>1 DEF Idle, Jobs, Places
  <2>2. Moves(w, s)
    BY <2>1 DEF BeginLogout, Moves
  <2> QED
    BY <2>1, <2>2
<1>3. UNCHANGED <<now, row, issued, parent, listed, cached, loggedOut, closed, faults>>
  BY DEF BeginLogout, tokenVars, listVars, history
<1>4. JobOK(r)'
  BY <1>1, <1>2, <1>3 DEF JobOK
<1>5. \A q \in Pairs : ~Renews(r, q)
  BY <1>2 DEF Renews
<1> QED
  BY <1>2, <1>3, <1>4, <1>5, QuietKeeps DEF SInv, TypeOK

LEMMA BeginCheckKeeps ==
  ASSUME SInv, NEW w \in Requests, NEW a \in Given, BeginCheck(w, a)
  PROVE  SInv'
<1>1. a \in Pairs /\ row[a] # "none" /\ a # NoPair
  BY SessionsAssumption DEF Given
<1>2. PICK r \in Jobs : /\ Moves(w, r) /\ r.at = "lookInCache"
                        /\ r.refresh = NoPair /\ r.access = a
                        /\ r.late = (a \in closed)
  <2> DEFINE b == a \in closed
             s == [Idle EXCEPT !.at = "lookInCache", !.access = a, !.late = b]
  <2>1. /\ s \in Jobs /\ s.at = "lookInCache" /\ s.refresh = NoPair
        /\ s.access = a /\ s.late = b
    <3>1. b \in BOOLEAN
      OBVIOUS
    <3> HIDE DEF b
    <3> QED
      BY <1>1, <3>1 DEF Idle, Jobs, Places
  <2>2. Moves(w, s)
    BY <2>1 DEF BeginCheck, Moves
  <2> QED
    BY <2>1, <2>2
<1>3. UNCHANGED <<now, row, issued, parent, listed, cached, loggedOut, closed, faults>>
  BY DEF BeginCheck, tokenVars, listVars, history
<1>4. JobOK(r)'
  BY <1>1, <1>2, <1>3 DEF JobOK
<1>5. \A q \in Pairs : ~Renews(r, q)
  BY <1>2 DEF Renews
<1> QED
  BY <1>2, <1>3, <1>4, <1>5, QuietKeeps DEF SInv, TypeOK

\* What the entries of the cache can become.
LEMMA CachedTypes ==
  ASSUME TypeOK, NEW w \in Requests
  PROVE  Cached(job[w].access) \subseteq Pairs \cup {NoPair}
BY DEF TypeOK, Jobs, Cached

LEMMA CacheTokenKeeps ==
  ASSUME SInv, NEW w \in Requests, CacheToken(w)
  PROVE  SInv'
<1>1. /\ cached' \subseteq Pairs \cup {NoPair}
      /\ UNCHANGED <<now, row, issued, parent, listed, loggedOut, closed>>
  BY CachedTypes DEF CacheToken, SInv, TypeOK, tokenVars, history
<1>2. CASE Fails(w)
  BY <1>1, <1>2, EndQuiet DEF Fails
<1>3. CASE Done(w, "listToken")
  <2>1. PICK r \in Jobs : /\ Moves(w, r) /\ r.at = "listToken"
                          /\ r.refresh = job[w].refresh
                          /\ r.access = job[w].access /\ r.late = job[w].late
    BY <1>3, Goes DEF Done, Places, SInv
  <2>2. JobOK(job[w]) /\ job[w].at = "cacheToken"
    BY DEF CacheToken, SInv, JobsOK
  <2>3. JobOK(r)'
    BY <1>1, <2>1, <2>2 DEF JobOK
  <2>4. \A q \in Pairs : ~Renews(r, q)
    BY <2>1 DEF Renews
  <2> QED
    BY <1>1, <1>3, <2>1, <2>3, <2>4, QuietKeeps DEF Done
<1> QED
  BY <1>2, <1>3 DEF CacheToken

LEMMA LookInCacheKeeps ==
  ASSUME SInv, NEW w \in Requests, LookInCache(w)
  PROVE  SInv'
<1>1. /\ cached' \subseteq Pairs \cup {NoPair}
      /\ UNCHANGED <<now, row, issued, parent, listed, loggedOut, closed>>
  BY DEF LookInCache, SInv, TypeOK, tokenVars, listVars, history
<1>2. CASE End(w) /\ (UNCHANGED faults \/ Fault)
  BY <1>1, <1>2, EndQuiet
<1>3. CASE Done(w, "lookInTable")
  <2>1. PICK r \in Jobs : /\ Moves(w, r) /\ r.at = "lookInTable"
                          /\ r.refresh = job[w].refresh
                          /\ r.access = job[w].access /\ r.late = job[w].late
    BY <1>3, Goes DEF Done, Places, SInv
  <2>2. JobOK(job[w]) /\ job[w].at = "lookInCache"
    BY DEF LookInCache, SInv, JobsOK
  <2>3. JobOK(r)'
    BY <1>1, <2>1, <2>2 DEF JobOK
  <2>4. \A q \in Pairs : ~Renews(r, q)
    BY <2>1 DEF Renews
  <2> QED
    BY <1>1, <1>3, <2>1, <2>3, <2>4, QuietKeeps DEF Done
<1> QED
  BY <1>2, <1>3 DEF LookInCache, Fails

\* A token that was logged out is not found in the table only after it expired.
LEMMA LookInTableKeeps ==
  ASSUME SInv, NEW w \in Requests, LookInTable(w)
  PROVE  SInv'
<1>1. /\ cached' \subseteq Pairs \cup {NoPair}
      /\ UNCHANGED <<now, row, issued, parent, listed, loggedOut, closed>>
  BY DEF LookInTable, SInv, TypeOK, tokenVars, listVars, history
<1>2. JobOK(job[w]) /\ job[w].at = "lookInTable" /\ job[w] \in Jobs
  BY DEF LookInTable, SInv, JobsOK, TypeOK
<1>3. CASE Fails(w)
  BY <1>1, <1>3, EndQuiet DEF Fails
<1>4. CASE job[w].access \in listed /\ Done(w, "recache")
  <2>1. PICK r \in Jobs : /\ Moves(w, r) /\ r.at = "recache"
                          /\ r.refresh = job[w].refresh
                          /\ r.access = job[w].access /\ r.late = job[w].late
    BY <1>4, Goes DEF Done, Places, SInv
  <2>2. JobOK(r)'
    BY <1>1, <1>2, <2>1 DEF JobOK
  <2>3. \A q \in Pairs : ~Renews(r, q)
    BY <2>1 DEF Renews
  <2> QED
    BY <1>1, <1>4, <2>1, <2>2, <2>3, QuietKeeps DEF Done
<1>5. CASE job[w].access \notin listed /\ Done(w, "user")
  <2>1. PICK r \in Jobs : /\ Moves(w, r) /\ r.at = "user"
                          /\ r.refresh = job[w].refresh
                          /\ r.access = job[w].access /\ r.late = job[w].late
    BY <1>5, Goes DEF Done, Places, SInv
  <2>2. r.late => now >= Expiry(r.access)
    <3> SUFFICES ASSUME r.late PROVE now >= Expiry(r.access)
      OBVIOUS
    <3>1. r.access \in closed \ {NoPair} /\ r.access \notin listed /\ r.access \in Pairs
      BY <1>2, <1>5, <2>1 DEF JobOK, Jobs
    <3>2. Expiry(r.access) < now
      BY <3>1 DEF SInv, LogoutsKept
    <3>3. Expiry(r.access) \in Nat /\ now \in Nat
      BY <3>1, SessionsAssumption DEF SInv, TypeOK, Expiry
    <3> QED
      BY <3>2, <3>3
  <2>3. r.late => now' >= Expiry(r.access)'
    BY <1>1, <2>2 DEF Expiry
  <2>4. JobOK(r)'
    BY <1>1, <1>2, <2>1, <2>3 DEF JobOK
  <2>5. \A q \in Pairs : ~Renews(r, q)
    BY <2>1 DEF Renews
  <2> QED
    BY <1>1, <1>5, <2>1, <2>4, <2>5, QuietKeeps DEF Done
<1> QED
  BY <1>3, <1>4, <1>5 DEF LookInTable

LEMMA RecacheKeeps ==
  ASSUME SInv, NEW w \in Requests, Recache(w)
  PROVE  SInv'
<1>1. /\ cached' \subseteq Pairs \cup {NoPair}
      /\ UNCHANGED <<now, row, issued, parent, listed, loggedOut, closed>>
  BY CachedTypes DEF Recache, SInv, TypeOK, tokenVars, history
<1> QED
  BY <1>1, EndQuiet DEF Recache

LEMMA AcceptKeeps ==
  ASSUME SInv, NEW w \in Requests, Accept(w)
  PROVE  SInv'
<1>1. /\ cached' \subseteq Pairs \cup {NoPair}
      /\ UNCHANGED <<now, row, issued, parent, listed, loggedOut, closed>>
  BY DEF Accept, SInv, TypeOK, tokenVars, listVars, history
<1> QED
  BY <1>1, EndQuiet DEF Accept

-----------------------------------------------------------------------------
(* refresh and logout.                                                     *)

\* Only a live token, which was good for no pair yet, begins to be renewed.
LEMMA FindTokenKeeps ==
  ASSUME SInv, NEW w \in Requests, FindToken(w)
  PROVE  SInv'
<1>1. /\ cached' \subseteq Pairs \cup {NoPair}
      /\ UNCHANGED <<now, row, issued, parent, listed, cached, loggedOut, closed>>
  BY DEF FindToken, SInv, TypeOK, tokenVars, listVars, history
<1>2. JobOK(job[w]) /\ job[w].at = "findToken" /\ job[w] \in Jobs
  BY DEF FindToken, SInv, JobsOK, TypeOK
<1>3. CASE End(w) /\ (UNCHANGED faults \/ Fault)
  BY <1>1, <1>3, EndQuiet
<1>4. CASE Renewable(job[w].refresh) /\ Done(w, "revokeToken")
  <2>1. PICK r \in Jobs : /\ Moves(w, r) /\ r.at = "revokeToken"
                          /\ r.refresh = job[w].refresh
                          /\ r.access = job[w].access /\ r.late = job[w].late
    BY <1>4, Goes DEF Done, Places, SInv
  <2>2. row[r.refresh] = "live" /\ r.refresh \in Pairs
    BY <1>2, <1>4, <2>1 DEF Renewable, JobOK, Jobs
  <2>3. ~r.late
    BY <1>2, <2>1, <2>2 DEF JobOK
  <2>4. JobOK(r)'
    BY <1>1, <1>2, <2>1, <2>3 DEF JobOK
  <2>5. TypeOK'
    <3>1. job' \in [Requests -> Jobs]
      BY <2>1, MoveTypes DEF SInv
    <3> QED
      BY <1>1, <1>4, <3>1 DEF SInv, TypeOK, Done
  <2>6. Grows
    BY <1>1, SessionsAssumption DEF Grows, SInv, TypeOK
  <2>7. LogoutsKept' /\ ParentsRevoked'
    BY <1>1 DEF SInv, LogoutsKept, ParentsRevoked, Expiry
  <2>8. RotationBounded'
    <3> SUFFICES ASSUME NEW p \in Pairs
                 PROVE  Cardinality(Children(p)') + Cardinality(Renewing(p)')
                          <= Cardinality(Requests)
      BY DEF RotationBounded
    <3>1. Children(p)' = Children(p)
      BY <1>1 DEF Children
    <3>2. CASE p = r.refresh
      <4>1. Children(p) = {}
        BY <2>2, <3>2, SessionsAssumption DEF Children, SInv, ParentsRevoked
      <4>2. Cardinality(Children(p)') = 0
        BY <3>1, <4>1, FS_EmptySet
      <4> QED
        BY <4>2, RenewingNext
    <3>3. CASE p # r.refresh
      <4>1. ~Renews(job[w], p) /\ ~Renews(r, p)
        BY <2>1, <3>3 DEF Renews
      <4>2. Renewing(p)' = Renewing(p)
        BY <2>1, <4>1, RenewingMoves DEF SInv
      <4> QED
        BY <3>1, <4>2 DEF SInv, RotationBounded
    <3> QED
      BY <3>2, <3>3
  <2> QED
    BY <2>1, <2>4, <2>5, <2>6, <2>7, <2>8, StepKeeps
<1> QED
  BY <1>3, <1>4 DEF FindToken, Fails

\* A step that revokes the token a request holds, or does not, and whatever
\* answers the logout.
LEMMA RevokeKeeps ==
  ASSUME SInv, NEW w \in Requests, NEW r, Moves(w, r),
         job[w].refresh # NoPair, row' \in {row, Revoked(w)},
         UNCHANGED <<now, issued, parent, listed, cached, closed>>,
         UNCHANGED faults \/ Fault,
         \/ UNCHANGED loggedOut
         \/ loggedOut' = loggedOut \cup {job[w].refresh} /\ row' = Revoked(w),
         \A p \in Pairs : Renews(r, p) => Renews(job[w], p),
         r.refresh # NoPair => r.refresh = job[w].refresh,
         r.access # NoPair => r.access = job[w].access,
         r.at \in {"issuePair", "cacheToken"} =>
           row' = Revoked(w) /\ r.refresh # NoPair /\ ~r.late,
         r.at \in {"idle", "issuePair", "cacheToken"},
         r.late => r.at = "idle"
  PROVE  SInv'
<1>1. /\ job[w] \in Jobs /\ JobOK(job[w]) /\ r \in Jobs
  BY DEF SInv, TypeOK, JobsOK, Moves
<1>2. job[w].refresh \in Pairs /\ row[job[w].refresh] # "none"
  BY <1>1 DEF Jobs, JobOK
<1>3. /\ row' \in [Pairs -> {"none", "live", "revoked"}]
      /\ \A p \in Pairs : row'[p] = row[p] \/ (p = job[w].refresh /\ row'[p] = "revoked")
      /\ row' = Revoked(w) => row'[job[w].refresh] = "revoked"
  BY <1>2 DEF Revoked, SInv, TypeOK
<1>4. TypeOK'
  <2>1. job' \in [Requests -> Jobs]
    BY MoveTypes DEF SInv
  <2>2. faults' \in 0..MaxFaults
    BY SessionsAssumption DEF SInv, TypeOK, Fault
  <2>3. loggedOut' \subseteq Pairs \cup {NoPair}
    BY <1>2 DEF SInv, TypeOK
  <2> QED
    BY <1>3, <2>1, <2>2, <2>3 DEF SInv, TypeOK
<1>5. Grows
  BY <1>2, <1>3, SessionsAssumption DEF Grows, SInv, TypeOK
<1>6. \A p \in Pairs : row[p] # "none" => row'[p] # "none"
  BY <1>5 DEF Grows
<1>7. \A p \in Pairs : row[p] = "revoked" => row'[p] = "revoked"
  BY <1>5 DEF Grows
<1>8. LogoutsKept'
  <2>1. ASSUME NEW p \in loggedOut' \ {NoPair}
        PROVE  row'[p] = "revoked"
    <3>1. CASE p \in loggedOut
      <4>1. p \in Pairs /\ row[p] = "revoked"
        BY <2>1, <3>1 DEF SInv, TypeOK, LogoutsKept
      <4> QED
        BY <4>1, <1>7
    <3>2. CASE p \notin loggedOut
      BY <1>3, <2>1, <3>2
    <3> QED
      BY <3>1, <3>2
  <2>2. ASSUME NEW a \in closed' \ {NoPair}
        PROVE  row'[a] # "none" /\ (a \in listed' \/ Expiry(a)' < now')
    <3>1. /\ a \in Pairs /\ row[a] # "none"
          /\ a \in listed \/ Expiry(a) < now
      BY <2>2 DEF SInv, TypeOK, LogoutsKept
    <3> QED
      BY <1>6, <3>1 DEF Expiry
  <2> QED
    BY <2>1, <2>2 DEF LogoutsKept
<1>9. ParentsRevoked'
  <2> SUFFICES ASSUME NEW q \in Pairs, parent'[q] # NoPair
               PROVE  row'[q] # "none" /\ row'[parent'[q]] = "revoked"
    BY DEF ParentsRevoked
  <2>1. /\ parent[q] \in Pairs /\ row[q] # "none" /\ row[parent[q]] = "revoked"
    BY DEF SInv, TypeOK, ParentsRevoked
  <2> QED
    BY <2>1, <1>6, <1>7
<1>10. RotationBounded'
  BY RotationQuiet
<1>11. JobOK(r)'
  <2>1. r.refresh # NoPair => row'[r.refresh] # "none"
    BY <1>2, <1>6
  <2>2. r.access # NoPair => row'[r.access] # "none"
    BY <1>1, <1>6 DEF JobOK, Jobs
  <2>3. r.at \in {"issuePair", "cacheToken"} => row'[r.refresh] = "revoked"
    BY <1>3
  <2> QED
    BY <2>1, <2>2, <2>3 DEF JobOK
<1> QED
  BY <1>4, <1>5, <1>8, <1>9, <1>10, <1>11, StepKeeps

LEMMA RevokeTokenKeeps ==
  ASSUME SInv, NEW w \in Requests, RevokeToken(w)
  PROVE  SInv'
<1>1. UNCHANGED <<now, issued, parent, listed, cached, loggedOut, closed>>
  BY DEF RevokeToken, listVars, history
<1>2. job[w].at = "revokeToken" /\ job[w].refresh # NoPair /\ ~job[w].late
  BY DEF RevokeToken, SInv, JobsOK, JobOK
<1>3. CASE row' = Revoked(w) /\ Done(w, "issuePair")
  <2>1. PICK r \in Jobs : /\ Moves(w, r) /\ r.at = "issuePair"
                          /\ r.refresh = job[w].refresh
                          /\ r.access = job[w].access /\ r.late = job[w].late
    BY <1>3, Goes DEF Done, Places, SInv
  <2>2. \A p \in Pairs : Renews(r, p) => Renews(job[w], p)
    BY <1>2, <2>1 DEF Renews
  <2> QED
    BY <1>1, <1>2, <1>3, <2>1, <2>2, RevokeKeeps DEF Done
<1>4. CASE row' \in {row, Revoked(w)} /\ Fails(w)
  <2>1. PICK r \in Jobs : /\ Moves(w, r) /\ r.at = "idle" /\ ~r.late
                          /\ r.refresh = NoPair /\ r.access = NoPair
    BY <1>4, Ends DEF Fails
  <2>2. \A p \in Pairs : Renews(r, p) => Renews(job[w], p)
    BY <2>1 DEF Renews
  <2> QED
    BY <1>1, <1>2, <1>4, <2>1, <2>2, RevokeKeeps DEF Fails
<1> QED
  BY <1>3, <1>4 DEF RevokeToken

LEMMA RevokeSessionKeeps ==
  ASSUME SInv, NEW w \in Requests, RevokeSession(w)
  PROVE  SInv'
<1>1. UNCHANGED <<now, issued, parent, listed, cached, closed>>
  BY DEF RevokeSession, listVars
<1>2. job[w].at = "revokeSession" /\ job[w].refresh # NoPair /\ ~job[w].late
  BY DEF RevokeSession, SInv, JobsOK, JobOK
<1>3. CASE row' = Revoked(w) /\ job[w].access = NoPair /\ Answered(w)
  <2>1. PICK r \in Jobs : /\ Moves(w, r) /\ r.at = "idle" /\ ~r.late
                          /\ r.refresh = NoPair /\ r.access = NoPair
    BY <1>3, Ends DEF Answered
  <2>2. \A p \in Pairs : Renews(r, p) => Renews(job[w], p)
    BY <2>1 DEF Renews
  <2> QED
    BY <1>1, <1>2, <1>3, <2>1, <2>2, RevokeKeeps DEF Answered
<1>4. CASE row' = Revoked(w) /\ Done(w, "cacheToken") /\ UNCHANGED loggedOut
  <2>1. PICK r \in Jobs : /\ Moves(w, r) /\ r.at = "cacheToken"
                          /\ r.refresh = job[w].refresh
                          /\ r.access = job[w].access /\ r.late = job[w].late
    BY <1>4, Goes DEF Done, Places, SInv
  <2>2. \A p \in Pairs : Renews(r, p) => Renews(job[w], p)
    BY <2>1 DEF Renews
  <2> QED
    BY <1>1, <1>2, <1>4, <2>1, <2>2, RevokeKeeps DEF Done
<1>5. CASE row' \in {row, Revoked(w)} /\ Fails(w) /\ UNCHANGED loggedOut
  <2>1. PICK r \in Jobs : /\ Moves(w, r) /\ r.at = "idle" /\ ~r.late
                          /\ r.refresh = NoPair /\ r.access = NoPair
    BY <1>5, Ends DEF Fails
  <2>2. \A p \in Pairs : Renews(r, p) => Renews(job[w], p)
    BY <2>1 DEF Renews
  <2> QED
    BY <1>1, <1>2, <1>5, <2>1, <2>2, RevokeKeeps DEF Fails
<1> QED
  BY <1>3, <1>4, <1>5 DEF RevokeSession

\* A logout that is answered for a token that is revoked.
LEMMA AnswerKeeps ==
  ASSUME SInv, NEW w \in Requests, End(w), JobOK(job[w]),
         job[w].refresh # NoPair, row[job[w].refresh] = "revoked",
         UNCHANGED <<now, row, issued, parent, cached>>,
         UNCHANGED faults \/ Fault,
         loggedOut' = loggedOut \cup {job[w].refresh} \/ UNCHANGED loggedOut,
         \/ UNCHANGED <<listed, closed>>
         \/ UNCHANGED closed /\ listed' = Listed(job[w].access)
         \/ closed' = closed \cup {job[w].access} /\ listed' = Listed(job[w].access)
  PROVE  SInv'
<1>1. PICK r \in Jobs : /\ Moves(w, r) /\ r.at = "idle" /\ ~r.late
                        /\ r.refresh = NoPair /\ r.access = NoPair
  BY Ends
<1>2. /\ job[w] \in Jobs /\ job[w].refresh \in Pairs
      /\ job[w].access \in Pairs \cup {NoPair}
      /\ job[w].access # NoPair => row[job[w].access] # "none"
  BY DEF SInv, TypeOK, Jobs, JobOK
<1>3. TypeOK'
  <2>1. job' \in [Requests -> Jobs]
    BY <1>1, MoveTypes DEF SInv
  <2>2. faults' \in 0..MaxFaults
    BY SessionsAssumption DEF SInv, TypeOK, Fault
  <2>3. /\ loggedOut' \subseteq Pairs \cup {NoPair}
        /\ closed' \subseteq Pairs \cup {NoPair}
        /\ listed' \subseteq Pairs \cup {NoPair}
    BY <1>2 DEF SInv, TypeOK, Listed
  <2> QED
    BY <2>1, <2>2, <2>3 DEF SInv, TypeOK
<1>4. Grows
  BY SessionsAssumption DEF Grows, SInv, TypeOK
<1>5. LogoutsKept'
  <2>1. ASSUME NEW p \in loggedOut' \ {NoPair}
        PROVE  row'[p] = "revoked"
    BY DEF SInv, LogoutsKept
  <2>2. ASSUME NEW a \in closed' \ {NoPair}
        PROVE  row'[a] # "none" /\ (a \in listed' \/ Expiry(a)' < now')
    <3>1. CASE a \in closed
      <4>1. row[a] # "none" /\ (a \in listed \/ Expiry(a) < now)
        BY <2>2, <3>1 DEF SInv, LogoutsKept
      <4>2. listed \subseteq listed'
        BY DEF Listed
      <4> QED
        BY <4>1, <4>2 DEF Expiry
    <3>2. CASE a \notin closed
      BY <1>2, <2>2, <3>2 DEF Listed
    <3> QED
      BY <3>1, <3>2
  <2> QED
    BY <2>1, <2>2 DEF LogoutsKept
<1>6. ParentsRevoked'
  BY DEF SInv, ParentsRevoked
<1>7. \A p \in Pairs : ~Renews(r, p)
  BY <1>1 DEF Renews
<1>8. RotationBounded'
  BY <1>1, <1>7, RotationQuiet
<1>9. JobOK(r)'
  BY <1>1 DEF JobOK
<1> QED
  BY <1>1, <1>3, <1>4, <1>5, <1>6, <1>8, <1>9, StepKeeps

LEMMA FindSessionKeeps ==
  ASSUME SInv, NEW w \in Requests, FindSession(w)
  PROVE  SInv'
<1>1. /\ UNCHANGED <<now, row, issued, parent, listed, cached, closed>>
      /\ cached' \subseteq Pairs \cup {NoPair}
  BY DEF FindSession, SInv, TypeOK, tokenVars, listVars
<1>2. /\ JobOK(job[w]) /\ job[w].at = "findSession" /\ job[w] \in Jobs
      /\ job[w].refresh # NoPair /\ ~job[w].late /\ row[job[w].refresh] # "none"
  BY DEF FindSession, SInv, JobsOK, JobOK, TypeOK
<1>3. CASE Fails(w) /\ UNCHANGED loggedOut
  BY <1>1, <1>3, EndQuiet DEF Fails
<1>4. CASE row[job[w].refresh] # "live" /\ Answered(w)
  <2>1. row[job[w].refresh] = "revoked"
    BY <1>2, <1>4 DEF SInv, TypeOK, Jobs
  <2> QED
    BY <1>1, <1>2, <1>4, <2>1, AnswerKeeps DEF Answered
<1>5. CASE Done(w, "revokeSession") /\ UNCHANGED loggedOut
  <2>1. PICK r \in Jobs : /\ Moves(w, r) /\ r.at = "revokeSession"
                          /\ r.refresh = job[w].refresh
                          /\ r.access = job[w].access /\ r.late = job[w].late
    BY <1>5, Goes DEF Done, Places, SInv
  <2>2. JobOK(r)'
    BY <1>1, <1>2, <2>1 DEF JobOK
  <2>3. \A p \in Pairs : ~Renews(r, p)
    BY <2>1 DEF Renews
  <2> QED
    BY <1>1, <1>5, <2>1, <2>2, <2>3, QuietKeeps DEF Done
<1> QED
  BY <1>3, <1>4, <1>5 DEF FindSession

LEMMA ListTokenKeeps ==
  ASSUME SInv, NEW w \in Requests, ListToken(w)
  PROVE  SInv'
<1>1. UNCHANGED <<now, row, issued, parent, cached>>
  BY DEF ListToken, tokenVars
<1>2. /\ JobOK(job[w]) /\ job[w].refresh # NoPair
      /\ row[job[w].refresh] = "revoked"
  BY DEF ListToken, SInv, JobsOK, JobOK
<1>3. CASE /\ listed' = Listed(job[w].access)
           /\ closed' = closed \cup {job[w].access} /\ Answered(w)
  BY <1>1, <1>2, <1>3, AnswerKeeps DEF Answered
<1>4. CASE /\ listed' \in {listed, Listed(job[w].access)}
           /\ Fails(w) /\ UNCHANGED history
  BY <1>1, <1>2, <1>4, AnswerKeeps DEF Fails, history
<1> QED
  BY <1>3, <1>4 DEF ListToken

\* A new pair is nobody's parent, and its own only parent is revoked.
LEMMA NewPairKeeps ==
  ASSUME SInv, NEW p \in Pairs, NEW for \in Pairs \cup {NoPair}, NewPair(p, for),
         UNCHANGED <<now, listed, cached, loggedOut, closed>>,
         for # NoPair => row[for] = "revoked"
  PROVE  /\ Grows /\ LogoutsKept' /\ ParentsRevoked'
         /\ row' \in [Pairs -> {"none", "live", "revoked"}]
         /\ issued' \in [Pairs -> 0..MaxTime]
         /\ parent' \in [Pairs -> Pairs \cup {NoPair}]
         /\ \A q \in Pairs :
              Children(q)' = IF q = for THEN Children(q) \cup {p} ELSE Children(q)
         /\ \A q \in Pairs : p \notin Children(q)
<1>1. /\ row \in [Pairs -> {"none", "live", "revoked"}] /\ row[p] = "none"
      /\ issued \in [Pairs -> 0..MaxTime] /\ now \in 0..MaxTime
      /\ parent \in [Pairs -> Pairs \cup {NoPair}]
  BY DEF SInv, TypeOK, NewPair
<1>2. parent[p] = NoPair
  BY <1>1 DEF SInv, ParentsRevoked
<1>3. /\ row' = [row EXCEPT ![p] = "live"]
      /\ issued' = [issued EXCEPT ![p] = now]
      /\ parent' = [parent EXCEPT ![p] = for]
  BY DEF NewPair
<1>4. /\ row' \in [Pairs -> {"none", "live", "revoked"}]
      /\ issued' \in [Pairs -> 0..MaxTime]
      /\ parent' \in [Pairs -> Pairs \cup {NoPair}]
  BY <1>1, <1>3
<1>5. /\ row'[p] = "live" /\ parent'[p] = for
      /\ \A q \in Pairs \ {p} : /\ row'[q] = row[q] /\ issued'[q] = issued[q]
                                /\ parent'[q] = parent[q]
  BY <1>1, <1>3
<1>6. Grows
  BY <1>1, <1>5, SessionsAssumption DEF Grows
<1>7. LogoutsKept'
  <2>1. ASSUME NEW q \in loggedOut' \ {NoPair}
        PROVE  row'[q] = "revoked"
    BY <1>1, <1>5 DEF SInv, TypeOK, LogoutsKept
  <2>2. ASSUME NEW a \in closed' \ {NoPair}
        PROVE  row'[a] # "none" /\ (a \in listed' \/ Expiry(a)' < now')
    <3>1. a \in Pairs /\ row[a] # "none" /\ (a \in listed \/ Expiry(a) < now)
      BY <2>2 DEF SInv, TypeOK, LogoutsKept
    <3>2. a # p /\ row'[a] = row[a] /\ issued'[a] = issued[a]
      BY <1>1, <1>5, <3>1
    <3> QED
      BY <3>1, <3>2 DEF Expiry
  <2> QED
    BY <2>1, <2>2 DEF LogoutsKept
<1>8. ParentsRevoked'
  <2> SUFFICES ASSUME NEW q \in Pairs, parent'[q] # NoPair
               PROVE  row'[q] # "none" /\ row'[parent'[q]] = "revoked"
    BY DEF ParentsRevoked
  <2>1. CASE q = p
    <3>1. for \in Pairs /\ row[for] = "revoked" /\ for # p
      BY <1>1, <1>5, <2>1
    <3> QED
      BY <1>5, <2>1, <3>1
  <2>2. CASE q # p
    <3>1. /\ parent'[q] = parent[q] /\ parent[q] \in Pairs
          /\ row[q] # "none" /\ row[parent[q]] = "revoked"
      BY <1>1, <1>5, <2>2 DEF SInv, ParentsRevoked
    <3>2. parent[q] # p
      BY <1>1, <3>1
    <3> QED
      BY <1>5, <2>2, <3>1, <3>2
  <2> QED
    BY <2>1, <2>2
<1>9. ASSUME NEW q \in Pairs
      PROVE  /\ Children(q)' = IF q = for THEN Children(q) \cup {p} ELSE Children(q)
             /\ p \notin Children(q)
  <2>1. q # NoPair
    BY SessionsAssumption
  <2> QED
    BY <1>2, <1>5, <2>1 DEF Children
<1> QED
  BY <1>4, <1>6, <1>7, <1>8, <1>9

LEMMA LoginKeeps ==
  ASSUME SInv, Login
  PROVE  SInv'
<1>1. PICK p \in Pairs : NewPair(p, NoPair)
  BY DEF Login
<1>2. UNCHANGED <<now, listed, cached, job, loggedOut, closed, faults>>
  BY DEF Login, listVars, history
<1>3. /\ Grows /\ LogoutsKept' /\ ParentsRevoked'
      /\ row' \in [Pairs -> {"none", "live", "revoked"}]
      /\ issued' \in [Pairs -> 0..MaxTime]
      /\ parent' \in [Pairs -> Pairs \cup {NoPair}]
      /\ \A q \in Pairs :
           Children(q)' = IF q = NoPair THEN Children(q) \cup {p} ELSE Children(q)
  BY <1>1, <1>2, NewPairKeeps
<1>4. TypeOK'
  BY <1>2, <1>3 DEF SInv, TypeOK
<1>5. ASSUME NEW v \in Requests
      PROVE  JobOK(job[v])'
  <2>1. PICK s \in Jobs : s = job[v] /\ JobOK(s)
    BY DEF SInv, TypeOK, JobsOK
  <2>2. JobOK(s)'
    BY <1>3, <1>4, <2>1, OthersKept DEF TypeOK
  <2>3. job'[v] = s
    BY <1>2, <2>1
  <2> QED
    BY <2>2, <2>3 DEF JobOK
<1>6. RotationBounded'
  <2> SUFFICES ASSUME NEW q \in Pairs
               PROVE  Cardinality(Children(q)') + Cardinality(Renewing(q)')
                        <= Cardinality(Requests)
    BY DEF RotationBounded
  <2>1. Children(q)' = Children(q)
    BY <1>3, SessionsAssumption
  <2>2. Renewing(q)' = Renewing(q)
    BY <1>2 DEF Renewing
  <2> QED
    BY <2>1, <2>2 DEF SInv, RotationBounded
<1> QED
  BY <1>3, <1>4, <1>5, <1>6 DEF SInv, JobsOK

LEMMA IssuePairKeeps ==
  ASSUME SInv, NEW w \in Requests, IssuePair(w)
  PROVE  SInv'
<1>1. /\ UNCHANGED <<now, listed, cached, loggedOut, closed>>
      /\ cached' \subseteq Pairs \cup {NoPair}
  BY DEF IssuePair, SInv, TypeOK, listVars, history
<1>2. /\ JobOK(job[w]) /\ job[w].at = "issuePair" /\ job[w] \in Jobs
      /\ job[w].refresh \in Pairs /\ row[job[w].refresh] = "revoked"
  BY DEF IssuePair, SInv, JobsOK, JobOK, TypeOK, Jobs
<1>3. CASE Fails(w) /\ UNCHANGED tokenVars
  BY <1>1, <1>3, EndQuiet DEF Fails, tokenVars
<1>4. CASE /\ \E p \in Pairs : NewPair(p, job[w].refresh)
           /\ End(w) /\ UNCHANGED faults
  <2>1. PICK p \in Pairs : NewPair(p, job[w].refresh)
    BY <1>4
  <2>2. PICK for \in Pairs : for = job[w].refresh
    BY <1>2
  <2>3. PICK r \in Jobs : /\ Moves(w, r) /\ r.at = "idle" /\ ~r.late
                          /\ r.refresh = NoPair /\ r.access = NoPair
    BY <1>4, Ends
  <2>4. /\ Grows /\ LogoutsKept' /\ ParentsRevoked'
        /\ row' \in [Pairs -> {"none", "live", "revoked"}]
        /\ issued' \in [Pairs -> 0..MaxTime]
        /\ parent' \in [Pairs -> Pairs \cup {NoPair}]
        /\ \A q \in Pairs :
             Children(q)' = IF q = for THEN Children(q) \cup {p} ELSE Children(q)
        /\ \A q \in Pairs : p \notin Children(q)
    BY <1>1, <1>2, <2>1, <2>2, NewPairKeeps
  <2>5. TypeOK'
    <3>1. job' \in [Requests -> Jobs]
      BY <2>3, MoveTypes DEF SInv
    <3> QED
      BY <1>1, <1>4, <2>4, <3>1 DEF SInv, TypeOK
  <2>6. RotationBounded'
    <3> SUFFICES ASSUME NEW q \in Pairs
                 PROVE  Cardinality(Children(q)') + Cardinality(Renewing(q)')
                          <= Cardinality(Requests)
      BY DEF RotationBounded
    <3>1. /\ Cardinality(Children(q)) \in Nat /\ Cardinality(Renewing(q)) \in Nat
          /\ Cardinality(Children(q)) + Cardinality(Renewing(q)) <= Cardinality(Requests)
      BY RenewingFinite, ChildrenFinite DEF SInv, RotationBounded
    <3>2. ~Renews(r, q)
      BY <2>3 DEF Renews
    <3>3. CASE q = for
      <4>1. Renews(job[w], q)
        BY <1>2, <2>2, <3>3 DEF Renews
      <4>2. Cardinality(Renewing(q)') = Cardinality(Renewing(q)) - 1
        BY <2>3, <3>2, <4>1, RenewingMoves DEF SInv
      <4>3. Cardinality(Children(q) \cup {p}) = Cardinality(Children(q)) + 1
        BY <2>4, ChildrenFinite, FS_AddElement
      <4>4. Children(q)' = Children(q) \cup {p}
        BY <2>4, <3>3
      <4>5. Cardinality(Children(q)') = Cardinality(Children(q)) + 1
        BY <4>3, <4>4
      <4> QED
        BY <3>1, <4>2, <4>5, RequestsCount
    <3>4. CASE q # for
      <4>1. ~Renews(job[w], q)
        BY <2>2, <3>4 DEF Renews
      <4>2. Renewing(q)' = Renewing(q) /\ Children(q)' = Children(q)
        BY <2>3, <2>4, <3>2, <3>4, <4>1, RenewingMoves DEF SInv
      <4> QED
        BY <3>1, <4>2
    <3> QED
      BY <3>3, <3>4
  <2>7. JobOK(r)'
    BY <2>3 DEF JobOK
  <2> QED
    BY <2>3, <2>4, <2>5, <2>6, <2>7, StepKeeps
<1> QED
  BY <1>3, <1>4 DEF IssuePair

-----------------------------------------------------------------------------
(* Steps of nobody, and of everybody.                                      *)

LEMMA AsideKeeps ==
  ASSUME SInv, Tick \/ Cleanup
  PROVE  SInv'
<1>1. /\ UNCHANGED <<row, issued, parent, cached, job, loggedOut, closed, faults>>
      /\ now' \in 0..MaxTime /\ now <= now'
      /\ listed' \subseteq listed
      /\ \A a \in listed : a \in listed' \/ Expiry(a) < now
  BY SessionsAssumption
  DEF Tick, Cleanup, Expired, SInv, TypeOK, tokenVars, listVars, history
<1>2. TypeOK'
  BY <1>1 DEF SInv, TypeOK
<1>3. Grows
  BY <1>1 DEF Grows
<1>4. ASSUME NEW v \in Requests
      PROVE  JobOK(job[v])'
  <2>1. PICK s \in Jobs : s = job[v] /\ JobOK(s)
    BY DEF SInv, TypeOK, JobsOK
  <2>2. JobOK(s)'
    BY <1>1, <1>3, <2>1, OthersKept
  <2>3. job'[v] = s
    BY <1>1, <2>1
  <2> QED
    BY <2>2, <2>3 DEF JobOK
<1>5. LogoutsKept'
  <2>1. \A p \in loggedOut' \ {NoPair} : row'[p] = "revoked"
    BY <1>1 DEF SInv, LogoutsKept
  <2>2. ASSUME NEW a \in closed' \ {NoPair}
        PROVE  row'[a] # "none" /\ (a \in listed' \/ Expiry(a)' < now')
    <3>1. a \in Pairs /\ row[a] # "none" /\ (a \in listed \/ Expiry(a) < now)
      BY <1>1, <2>2 DEF SInv, TypeOK, LogoutsKept
    <3>2. Expiry(a) \in Nat /\ now \in Nat /\ now' \in Nat
      BY <1>1, <3>1, SessionsAssumption DEF SInv, TypeOK, Expiry
    <3>3. Expiry(a)' = Expiry(a)
      BY <1>1 DEF Expiry
    <3>4. a \in listed' \/ Expiry(a) < now
      BY <1>1, <3>1
    <3> QED
      BY <1>1, <3>1, <3>2, <3>3, <3>4
  <2> QED
    BY <2>1, <2>2 DEF LogoutsKept
<1>6. ParentsRevoked' /\ RotationBounded'
  BY <1>1 DEF SInv, ParentsRevoked, RotationBounded, Children, Renewing
<1> QED
  BY <1>2, <1>4, <1>5, <1>6 DEF SInv, JobsOK

LEMMA CrashKeeps ==
  ASSUME SInv, Crash
  PROVE  SInv'
<1>1. /\ UNCHANGED <<now, row, issued, parent, listed, loggedOut, closed>>
      /\ cached' \subseteq cached /\ job' = [w \in Requests |-> Idle]
      /\ Idle.at = "idle" /\ ~Idle.late
      /\ Idle.refresh = NoPair /\ Idle.access = NoPair
  BY DEF Crash, tokenVars, history, Idle
<1>2. TypeOK'
  <2>1. faults' \in 0..MaxFaults
    BY SessionsAssumption DEF Crash, Fault, SInv, TypeOK
  <2>2. job' \in [Requests -> Jobs]
    BY <1>1, IdleIsJob
  <2> QED
    BY <1>1, <2>1, <2>2 DEF SInv, TypeOK
<1>3. JobsOK'
  BY <1>1 DEF JobsOK, JobOK
<1>4. LogoutsKept' /\ ParentsRevoked'
  BY <1>1 DEF SInv, LogoutsKept, ParentsRevoked, Expiry
<1>5. RotationBounded'
  <2> SUFFICES ASSUME NEW p \in Pairs
               PROVE  Cardinality(Children(p)') + Cardinality(Renewing(p)')
                        <= Cardinality(Requests)
    BY DEF RotationBounded
  <2>1. Renewing(p)' = {}
    BY <1>1 DEF Renewing
  <2>2. Cardinality(Renewing(p)') = 0
    BY <2>1, FS_EmptySet
  <2>3. Children(p)' = Children(p)
    BY <1>1 DEF Children
  <2>4. /\ Cardinality(Children(p)) \in Nat /\ Cardinality(Renewing(p)) \in Nat
        /\ Cardinality(Children(p)) + Cardinality(Renewing(p)) <= Cardinality(Requests)
    BY RenewingFinite, ChildrenFinite DEF SInv, RotationBounded
  <2> QED
    BY <2>2, <2>3, <2>4, RequestsCount
<1> QED
  BY <1>2, <1>3, <1>4, <1>5 DEF SInv

LEMMA SInvInit == Init => SInv
<1> SUFFICES ASSUME Init PROVE SInv
  OBVIOUS
<1>1. TypeOK
  BY IdleIsJob, SessionsAssumption DEF Init, TypeOK
<1>2. JobsOK
  BY DEF Init, JobsOK, JobOK, Idle
<1>3. LogoutsKept /\ ParentsRevoked
  BY DEF Init, LogoutsKept, ParentsRevoked
<1>4. RotationBounded
  <2> SUFFICES ASSUME NEW p \in Pairs
               PROVE  Cardinality(Children(p)) + Cardinality(Renewing(p))
                        <= Cardinality(Requests)
    BY DEF RotationBounded
  <2>1. Children(p) = {}
    BY SessionsAssumption DEF Init, Children
  <2>2. Renewing(p) = {}
    BY DEF Init, Renewing, Idle
  <2> QED
    BY <2>1, <2>2, FS_EmptySet, RequestsCount
<1> QED
  BY <1>1, <1>2, <1>3, <1>4 DEF SInv

LEMMA SInvStep == SInv /\ [Next]_vars => SInv'
<1> SUFFICES ASSUME SInv, [Next]_vars PROVE SInv'
  OBVIOUS
<1>1. CASE UNCHANGED vars
  BY <1>1 DEF vars, tokenVars, listVars, history, SInv, TypeOK, JobsOK, JobOK,
              LogoutsKept, ParentsRevoked, RotationBounded, Children, Renewing,
              Expiry
<1>2. CASE Login \/ Tick \/ Cleanup \/ Crash
  BY <1>2, LoginKeeps, AsideKeeps, CrashKeeps
<1>3. CASE \E w \in Requests : \E p \in Given :
             \/ BeginRefresh(w, p) \/ BeginCheck(w, p)
             \/ \E a \in Given \cup {NoPair} : BeginLogout(w, p, a)
  BY <1>3, BeginRefreshKeeps, BeginCheckKeeps, BeginLogoutKeeps
<1>4. CASE \E w \in Requests :
             \/ FindToken(w) \/ RevokeToken(w) \/ IssuePair(w)
             \/ FindSession(w) \/ RevokeSession(w) \/ CacheToken(w) \/ ListToken(w)
  BY <1>4, FindTokenKeeps, RevokeTokenKeeps, IssuePairKeeps, FindSessionKeeps,
     RevokeSessionKeeps, CacheTokenKeeps, ListTokenKeeps
<1>5. CASE \E w \in Requests :
             LookInCache(w) \/ LookInTable(w) \/ Recache(w) \/ Accept(w)
  BY <1>5, LookInCacheKeeps, LookInTableKeeps, RecacheKeeps, AcceptKeeps
<1> QED
  BY <1>1, <1>2, <1>3, <1>4, <1>5 DEF Next

LEMMA SInvAlways == Spec => []SInv
BY SInvInit, SInvStep, PTL DEF Spec

\* Every variable keeps its type (refresh, logout, validate).
THEOREM SessionsTypeCorrect == Spec => []TypeOK
<1>1. SInv => TypeOK
  BY DEF SInv
<1> QED
  BY <1>1, SInvAlways, PTL

\* Nothing that begins after a logout was answered gets anything out of the
\* tokens it put out of use (logout, isTokenBlacklisted, refresh).
THEOREM LogoutsLast == Spec => []LogoutSticks
BY InvImplies, SInvAlways, PTL

\* A refresh token is good for one pair, up to refreshes that overlap.
THEOREM RotationHolds == Spec => []RotationBounded
<1>1. SInv => RotationBounded
  BY DEF SInv
<1> QED
  BY <1>1, SInvAlways, PTL

\* The duplicate pairs need refreshes that overlap: when requests are served one
\* at a time a refresh token is good for one pair, whatever calls fail and
\* however often the process restarts in between (refresh).
THEOREM OnePairOneAtATime ==
  ASSUME Cardinality(Requests) <= 1
  PROVE  Spec => [](\A p \in Pairs : Cardinality(Children(p)) <= 1)
<1>1. SInv => \A p \in Pairs : Cardinality(Children(p)) <= 1
  <2> SUFFICES ASSUME SInv, NEW p \in Pairs
               PROVE  Cardinality(Children(p)) <= 1
    OBVIOUS
  <2>1. /\ Cardinality(Children(p)) \in Nat /\ Cardinality(Renewing(p)) \in Nat
        /\ Cardinality(Children(p)) + Cardinality(Renewing(p)) <= Cardinality(Requests)
    BY RenewingFinite, ChildrenFinite DEF SInv, RotationBounded
  <2> QED
    BY <2>1, RequestsCount
<1> QED
  BY <1>1, SInvAlways, PTL

=============================================================================
