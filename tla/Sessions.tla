------------------------------ MODULE Sessions ------------------------------
(***************************************************************************)
(* Sessions of a user: refresh, logout and issueTokenPair of               *)
(* apps/backend/src/auth/auth.service.ts, the blacklist of access tokens   *)
(* in token-blacklist.service.ts, and validate of jwt.strategy.ts.         *)
(*                                                                         *)
(* Every await is a step of its own, so requests overlap: two refreshes of *)
(* one token, a refresh and the logout, a check and the logout.  A client  *)
(* may present any token it was ever given, again and again.               *)
(*                                                                         *)
(* A pair is an access token and a refresh token issued together; the      *)
(* access token is signed and kept nowhere.  Left out: passwords, second   *)
(* factors, verification and reset mails, API keys, audit records.         *)
(***************************************************************************)
EXTENDS Integers, FiniteSets

CONSTANTS
  Requests,    \* requests under way at once
  Pairs,       \* pairs that can be issued
  AccessTtl,   \* lifetime of an access token
  RefreshTtl,  \* lifetime of a refresh token
  MaxTime,     \* bound on the clock
  MaxFaults,   \* bound on failed calls of the database and the cache, and
               \* restarts of the process
  NoPair

ASSUME SessionsAssumption ==
  /\ IsFiniteSet(Requests) /\ IsFiniteSet(Pairs) /\ NoPair \notin Pairs
  /\ AccessTtl \in Nat \ {0} /\ RefreshTtl \in Nat \ {0}
  /\ MaxTime \in Nat /\ MaxFaults \in Nat

\* The await a request is at: in refresh; in logout and blacklistToken; in
\* validate and isTokenBlacklisted.
Places == {"idle", "findToken", "revokeToken", "issuePair",
           "findSession", "revokeSession", "cacheToken", "listToken",
           "lookInCache", "lookInTable", "recache", "user"}
Jobs == [at : Places,
         refresh : Pairs \cup {NoPair},  \* whose refresh token it presents
         access : Pairs \cup {NoPair},   \* whose access token it presents
         late : BOOLEAN]  \* it began when the token was logged out

Idle == [at |-> "idle", refresh |-> NoPair, access |-> NoPair, late |-> FALSE]

VARIABLES
  now,
  row,        \* refresh_tokens: no row yet, live, or revoked
  issued,     \* when a pair was issued
  parent,     \* history: the pair whose refresh token it was issued for
  listed,     \* token_blacklist: access tokens
  cached,     \* blacklist entries of the cache
  job,        \* what each request is doing
  loggedOut,  \* history: refresh tokens of logouts that were answered
  closed,     \* history: access tokens that logouts put on the blacklist
  faults

tokenVars == <<row, issued, parent>>
listVars == <<listed, cached>>
history == <<loggedOut, closed>>
vars == <<now, tokenVars, listVars, job, history, faults>>

Init ==
  /\ now = 0
  /\ row = [p \in Pairs |-> "none"]
  /\ issued = [p \in Pairs |-> 0]
  /\ parent = [p \in Pairs |-> NoPair]
  /\ listed = {} /\ cached = {}
  /\ job = [w \in Requests |-> Idle]
  /\ loggedOut = {} /\ closed = {}
  /\ faults = 0

-----------------------------------------------------------------------------
Given == {p \in Pairs : row[p] # "none"}

\* An access token is refused from Expiry on, a refresh token after its last.
Expiry(p) == issued[p] + AccessTtl
RefreshExpired(p) == issued[p] + RefreshTtl < now

\* Something goes wrong.
Fault == faults < MaxFaults /\ faults' = faults + 1

GoTo(w, place) == job' = [job EXCEPT ![w].at = place]
End(w) == job' = [job EXCEPT ![w] = Idle]

\* A call goes through, or fails and ends the request.
Done(w, place) == GoTo(w, place) /\ UNCHANGED faults
Fails(w) == Fault /\ End(w)

\* The row of the presented refresh token is saved with revoked.
Revoked(w) == [row EXCEPT ![job[w].refresh] = "revoked"]

\* issueTokenPair.
NewPair(p, for) ==
  /\ row[p] = "none"
  /\ row' = [row EXCEPT ![p] = "live"]
  /\ issued' = [issued EXCEPT ![p] = now]
  /\ parent' = [parent EXCEPT ![p] = for]

\* login, its last call.
Login ==
  /\ \E p \in Pairs : NewPair(p, NoPair)
  /\ UNCHANGED <<now, listVars, job, history, faults>>

-----------------------------------------------------------------------------
(* refresh.                                                                *)

BeginRefresh(w, p) ==
  /\ job[w].at = "idle"
  /\ job' = [job EXCEPT ![w] = [Idle EXCEPT !.at = "findToken", !.refresh = p,
                                            !.late = p \in loggedOut]]
  /\ UNCHANGED <<now, tokenVars, listVars, history, faults>>

\* Mutant: the row is looked for by its hash alone.
Usable(p) == row[p] # "none" /\ ~RefreshExpired(p)

\* A row that is not revoked, and has not expired.
Renewable(p) == row[p] = "live" /\ ~RefreshExpired(p)

FindToken(w) ==
  /\ job[w].at = "findToken"
  /\ \/ Renewable(job[w].refresh) /\ Done(w, "revokeToken")
     \/ ~Renewable(job[w].refresh) /\ End(w) /\ UNCHANGED faults
     \/ Fails(w)
  /\ UNCHANGED <<now, tokenVars, listVars, history>>

RevokeToken(w) ==
  /\ job[w].at = "revokeToken"
  /\ \/ row' = Revoked(w) /\ Done(w, "issuePair")
     \/ row' \in {row, Revoked(w)} /\ Fails(w)
  /\ UNCHANGED <<now, issued, parent, listVars, history>>

\* A failure leaves the client with a revoked token and no other.
IssuePair(w) ==
  /\ job[w].at = "issuePair"
  /\ \/ /\ \E p \in Pairs : NewPair(p, job[w].refresh)
        /\ End(w) /\ UNCHANGED faults
     \/ Fails(w) /\ UNCHANGED tokenVars
  /\ UNCHANGED <<now, listVars, history>>

-----------------------------------------------------------------------------
(* logout.                                                                 *)

BeginLogout(w, p, a) ==
  /\ job[w].at = "idle"
  /\ job' = [job EXCEPT ![w] = [Idle EXCEPT !.at = "findSession", !.refresh = p,
                                            !.access = a]]
  /\ UNCHANGED <<now, tokenVars, listVars, history, faults>>

\* The logout is answered.
Answered(w) ==
  End(w) /\ loggedOut' = loggedOut \cup {job[w].refresh} /\ UNCHANGED faults

\* Without a row that is not revoked the controller's call, which passes no
\* user, leaves the access token alone and is answered as a success.
FindSession(w) ==
  /\ job[w].at = "findSession"
  /\ \/ /\ row[job[w].refresh] = "live"
        /\ Done(w, "revokeSession") /\ UNCHANGED loggedOut
     \/ row[job[w].refresh] # "live" /\ Answered(w)
     \/ Fails(w) /\ UNCHANGED loggedOut
  /\ UNCHANGED <<now, tokenVars, listVars, closed>>

RevokeSession(w) ==
  /\ job[w].at = "revokeSession"
  /\ \/ /\ row' = Revoked(w)
        /\ IF job[w].access = NoPair
             THEN Answered(w)
             ELSE Done(w, "cacheToken") /\ UNCHANGED loggedOut
     \/ row' \in {row, Revoked(w)} /\ Fails(w) /\ UNCHANGED loggedOut
  /\ UNCHANGED <<now, issued, parent, listVars, closed>>

\* blacklistToken: an entry of the cache that lives as long as the token.
Cached(a) == IF now < Expiry(a) THEN cached \cup {a} ELSE cached

CacheToken(w) ==
  /\ job[w].at = "cacheToken"
  /\ \/ cached' = Cached(job[w].access) /\ Done(w, "listToken")
     \/ cached' \in {cached, Cached(job[w].access)} /\ Fails(w)
  /\ UNCHANGED <<now, tokenVars, listed, history>>

\* Mutant: the cache is all there is.
ListedNot(a) == listed

Listed(a) == listed \cup {a}

ListToken(w) ==
  /\ job[w].at = "listToken"
  /\ \/ /\ listed' = Listed(job[w].access)
        /\ closed' = closed \cup {job[w].access}
        /\ Answered(w)
     \/ /\ listed' \in {listed, Listed(job[w].access)}
        /\ Fails(w) /\ UNCHANGED history
  /\ UNCHANGED <<now, tokenVars, cached>>

-----------------------------------------------------------------------------
(* validate, which passport calls for a token that has not expired.        *)

BeginCheck(w, a) ==
  /\ job[w].at = "idle" /\ now < Expiry(a)
  /\ job' = [job EXCEPT ![w] = [Idle EXCEPT !.at = "lookInCache", !.access = a,
                                            !.late = a \in closed]]
  /\ UNCHANGED <<now, tokenVars, listVars, history, faults>>

InCache(a) == a \in cached /\ now < Expiry(a)

LookInCache(w) ==
  /\ job[w].at = "lookInCache"
  /\ \/ InCache(job[w].access) /\ End(w) /\ UNCHANGED faults
     \/ ~InCache(job[w].access) /\ Done(w, "lookInTable")
     \/ Fails(w)
  /\ UNCHANGED <<now, tokenVars, listVars, history>>

LookInTable(w) ==
  /\ job[w].at = "lookInTable"
  /\ \/ job[w].access \in listed /\ Done(w, "recache")
     \/ job[w].access \notin listed /\ Done(w, "user")
     \/ Fails(w)
  /\ UNCHANGED <<now, tokenVars, listVars, history>>

\* The token is refused, whether or not it could be cached.
Recache(w) ==
  /\ job[w].at = "recache" /\ End(w)
  /\ \/ cached' = Cached(job[w].access) /\ UNCHANGED faults
     \/ cached' \in {cached, Cached(job[w].access)} /\ Fault
  /\ UNCHANGED <<now, tokenVars, listed, history>>

\* The token is accepted, once the user's row is read.
Accept(w) ==
  /\ job[w].at = "user" /\ End(w) /\ (UNCHANGED faults \/ Fault)
  /\ UNCHANGED <<now, tokenVars, listVars, history>>

-----------------------------------------------------------------------------
(* What happens around them.                                               *)

Tick ==
  /\ now < MaxTime /\ now' = now + 1
  /\ UNCHANGED <<tokenVars, listVars, job, history, faults>>

\* cleanupExpiredTokens.
Expired == {a \in listed : Expiry(a) < now}

Cleanup ==
  /\ listed' = listed \ Expired
  /\ UNCHANGED <<now, tokenVars, cached, job, history, faults>>

\* The process restarts; a cache in its memory is lost.
Crash ==
  /\ Fault
  /\ job' = [w \in Requests |-> Idle]
  /\ cached' \in {cached, {}}
  /\ UNCHANGED <<now, tokenVars, listed, history>>

Next ==
  \/ Login \/ Tick \/ Cleanup \/ Crash
  \/ \E w \in Requests :
       \/ \E p \in Given : \/ BeginRefresh(w, p) \/ BeginCheck(w, p)
                           \/ \E a \in Given \cup {NoPair} : BeginLogout(w, p, a)
       \/ FindToken(w) \/ RevokeToken(w) \/ IssuePair(w)
       \/ FindSession(w) \/ RevokeSession(w) \/ CacheToken(w) \/ ListToken(w)
       \/ LookInCache(w) \/ LookInTable(w) \/ Recache(w) \/ Accept(w)

Spec == Init /\ [][Next]_vars

-----------------------------------------------------------------------------
TypeOK ==
  /\ now \in 0..MaxTime
  /\ row \in [Pairs -> {"none", "live", "revoked"}]
  /\ issued \in [Pairs -> 0..MaxTime]
  /\ parent \in [Pairs -> Pairs \cup {NoPair}]
  /\ listed \subseteq Pairs \cup {NoPair}
  /\ cached \subseteq Pairs \cup {NoPair}
  /\ job \in [Requests -> Jobs]
  /\ loggedOut \subseteq Pairs \cup {NoPair}
  /\ closed \subseteq Pairs \cup {NoPair}
  /\ faults \in 0..MaxFaults

\* After a logout was answered nothing that begins later gets anything out of
\* its tokens, through overlapping requests, lost caches, restarts and the
\* clean-up: its refresh token yields no pair, and an access token it put on
\* the blacklist is accepted by no check that does not outlive the token.
LogoutSticks ==
  \A w \in Requests : job[w].late =>
    /\ job[w].at \notin {"revokeToken", "issuePair"}
    /\ job[w].at = "user" => now >= Expiry(job[w].access)

\* Refreshes that found p's token usable and have not ended.
Renewing(p) ==
  {w \in Requests : /\ job[w].refresh = p
                    /\ job[w].at \in {"revokeToken", "issuePair"}}
Children(p) == {q \in Pairs : parent[q] = p}

\* Rotation: a refresh token is good for one pair, up to refreshes that
\* overlap; failures in between cost a pair and never give one back.
RotationBounded ==
  \A p \in Pairs :
    Cardinality(Children(p)) + Cardinality(Renewing(p)) <= Cardinality(Requests)
=============================================================================
