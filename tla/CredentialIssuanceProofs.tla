---------------------- MODULE CredentialIssuanceProofs ----------------------
(***************************************************************************)
(* Proofs about CredentialIssuance for any number of requests, polls and   *)
(* courses, any ledger, either shape of its events, and any number of      *)
(* failed calls, incomplete answers and restarts.                          *)
(***************************************************************************)
EXTENDS CredentialIssuance, FiniteSetTheorems, TLAPS

\* A call of issue that is under way while KYC is approved is one that has
\* seen an approval.
ApprovalsSeen ==
  \A w \in Workers : IsApproved /\ job[w].at \in IssuePlaces => w \in cleared

CInv == TypeOK /\ DuplicatesOverlap /\ CredentialsBacked /\ ApprovalsSeen

-----------------------------------------------------------------------------
(* A step of one worker.                                                   *)

\* The worker w goes on to r and the others stay where they are.
Moves(w, r) == r \in Jobs /\ job' = [job EXCEPT ![w] = r]

LEMMA IdleIsJob == Idle \in Jobs
BY IssuanceAssumption DEF Idle, Jobs, Places, IssuePlaces, Ledgers

LEMMA MoveTypes ==
  ASSUME TypeOK, NEW w \in Workers, NEW r, Moves(w, r)
  PROVE  /\ job' \in [Workers -> Jobs]
         /\ job'[w] = r
         /\ \A v \in Workers \ {w} : job'[v] = job[v]
BY DEF TypeOK, Moves

LEMMA PlaceIsMove ==
  ASSUME TypeOK, NEW w \in Workers, NEW p \in Places, GoTo(w, p)
  PROVE  Moves(w, [job[w] EXCEPT !.at = p])
<1>1. job[w] \in Jobs
  BY DEF TypeOK
<1>2. [job[w] EXCEPT !.at = p] \in Jobs
  BY <1>1 DEF Jobs
<1> QED
  BY <1>2 DEF GoTo, Moves

LEMMA AfterIssueIsJob ==
  ASSUME TypeOK, NEW w \in Workers
  PROVE  AfterIssue(w) \in Jobs
<1>1. job[w] \in Jobs
  BY DEF TypeOK
<1>2. 0 \in 0..MaxHeight /\ "handle" \in Places
  BY IssuanceAssumption DEF Places
<1>3. [job[w] EXCEPT !.at = "handle", !.course = NoCourse, !.ledger = 0] \in Jobs
  BY <1>1, <1>2 DEF Jobs
<1> QED
  BY <1>3, IdleIsJob DEF AfterIssue

\* The places a call of issue that has not inserted its row can be at, and the
\* one at which its transaction was applied.
Inserting(r, c) == r.course = c /\ r.at \in {"gate", "mint", "save"}
Saving(r, c) == r.course = c /\ r.at = "save"

LEMMA Finite ==
  ASSUME NEW S \in SUBSET Workers
  PROVE  IsFiniteSet(S) /\ Cardinality(S) \in Nat
                        /\ Cardinality(S) <= Cardinality(Workers)
BY FS_Subset, FS_CardinalityType, IssuanceAssumption

\* What one worker adds to, or takes from, a set of workers.
LEMMA OneMoreOrLess ==
  ASSUME NEW S \in SUBSET Workers, NEW T \in SUBSET Workers,
         NEW w \in Workers, T \ {w} = S \ {w}
  PROVE  /\ w \in S /\ w \in T => T = S
         /\ w \in S /\ w \notin T => Cardinality(T) = Cardinality(S) - 1
         /\ w \notin S /\ w \in T => Cardinality(T) = Cardinality(S) + 1
         /\ w \notin S /\ w \notin T => T = S
<1>1. IsFiniteSet(S) /\ Cardinality(S) \in Nat
  BY Finite
<1>2. CASE w \in S /\ w \in T
  BY <1>2
<1>3. CASE w \in S /\ w \notin T
  <2>1. T = S \ {w}
    BY <1>3
  <2>2. Cardinality(S \ {w}) = Cardinality(S) - 1
    BY <1>1, <1>3, FS_RemoveElement
  <2> QED
    BY <1>3, <2>1, <2>2
<1>4. CASE w \notin S /\ w \in T
  <2>1. T = S \cup {w}
    BY <1>4
  <2>2. Cardinality(S \cup {w}) = Cardinality(S) + 1
    BY <1>1, <1>4, FS_AddElement
  <2> QED
    BY <1>4, <2>1, <2>2
<1>5. CASE w \notin S /\ w \notin T
  BY <1>5
<1> QED
  BY <1>2, <1>3, <1>4, <1>5

\* How the two counts change with a step of w.
LEMMA Counts ==
  ASSUME TypeOK, NEW w \in Workers, NEW r, Moves(w, r), NEW c \in Courses
  PROVE  /\ Cardinality(Issuing(c)) \in Nat
         /\ Cardinality(Issuing(c)') \in Nat
         /\ Cardinality(Issuing(c)') <= Cardinality(Workers)
         /\ Inserting(job[w], c) /\ ~Inserting(r, c) =>
              Cardinality(Issuing(c)') = Cardinality(Issuing(c)) - 1
         /\ (Inserting(job[w], c) <=> Inserting(r, c)) =>
              Cardinality(Issuing(c)') = Cardinality(Issuing(c))
         /\ Cardinality(Unsaved(c)) \in Nat
         /\ Cardinality(Unsaved(c)') \in Nat
         /\ ~Saving(job[w], c) /\ Saving(r, c) =>
              Cardinality(Unsaved(c)') = Cardinality(Unsaved(c)) + 1
         /\ Saving(job[w], c) /\ ~Saving(r, c) =>
              Cardinality(Unsaved(c)') = Cardinality(Unsaved(c)) - 1
         /\ (Saving(job[w], c) <=> Saving(r, c)) =>
              Cardinality(Unsaved(c)') = Cardinality(Unsaved(c))
<1> DEFINE I == Issuing(c)
           J == Issuing(c)'
           U == Unsaved(c)
           V == Unsaved(c)'
<1>1. /\ I = {v \in Workers : Inserting(job[v], c)}
      /\ J = {v \in Workers : Inserting(job'[v], c)}
      /\ U = {v \in Workers : Saving(job[v], c)}
      /\ V = {v \in Workers : Saving(job'[v], c)}
  BY DEF Issuing, Unsaved, Inserting, Saving
<1>2. /\ job'[w] = r
      /\ \A v \in Workers \ {w} : job'[v] = job[v]
  BY MoveTypes
<1>3. /\ w \in I <=> Inserting(job[w], c)
      /\ w \in J <=> Inserting(r, c)
      /\ w \in U <=> Saving(job[w], c)
      /\ w \in V <=> Saving(r, c)
  BY <1>1, <1>2
<1>4. /\ I \in SUBSET Workers /\ J \in SUBSET Workers /\ J \ {w} = I \ {w}
      /\ U \in SUBSET Workers /\ V \in SUBSET Workers /\ V \ {w} = U \ {w}
  BY <1>1, <1>2
<1> HIDE DEF I, J, U, V
<1>5. /\ w \in I /\ w \in J => J = I
      /\ w \in I /\ w \notin J => Cardinality(J) = Cardinality(I) - 1
      /\ w \notin I /\ w \notin J => J = I
  BY <1>4, OneMoreOrLess
<1>6. /\ w \in U /\ w \in V => V = U
      /\ w \in U /\ w \notin V => Cardinality(V) = Cardinality(U) - 1
      /\ w \notin U /\ w \in V => Cardinality(V) = Cardinality(U) + 1
      /\ w \notin U /\ w \notin V => V = U
  BY <1>4, OneMoreOrLess
<1>7. /\ Cardinality(I) \in Nat /\ Cardinality(J) \in Nat
      /\ Cardinality(J) <= Cardinality(Workers)
      /\ Cardinality(U) \in Nat /\ Cardinality(V) \in Nat
  BY <1>4, Finite
<1>8. /\ Cardinality(I) \in Nat /\ Cardinality(J) \in Nat
      /\ Cardinality(J) <= Cardinality(Workers)
      /\ Inserting(job[w], c) /\ ~Inserting(r, c) =>
           Cardinality(J) = Cardinality(I) - 1
      /\ (Inserting(job[w], c) <=> Inserting(r, c)) =>
           Cardinality(J) = Cardinality(I)
      /\ Cardinality(U) \in Nat /\ Cardinality(V) \in Nat
      /\ ~Saving(job[w], c) /\ Saving(r, c) =>
           Cardinality(V) = Cardinality(U) + 1
      /\ Saving(job[w], c) /\ ~Saving(r, c) =>
           Cardinality(V) = Cardinality(U) - 1
      /\ (Saving(job[w], c) <=> Saving(r, c)) =>
           Cardinality(V) = Cardinality(U)
  BY <1>3, <1>5, <1>6, <1>7
<1> QED
  BY <1>8 DEF I, J, U, V

-----------------------------------------------------------------------------
(* Steps that keep the invariant.                                          *)

\* Only w enters or leaves the set of the workers that have seen an approval.
OnlyClears(w) == cleared' \subseteq cleared \cup {w} /\ cleared \subseteq cleared' \cup {w}

\* The part of TypeOK that a step of a worker can disturb besides job.
LEMMA TypesKept ==
  ASSUME TypeOK, NEW w \in Workers, NEW r, Moves(w, r), OnlyClears(w),
         UNCHANGED <<ledgerVars, kyc>>, cursor' \in 0..MaxHeight,
         minted' \in [Courses -> Nat], creds' \in [Courses -> Nat],
         direct' \in [Courses -> Nat],
         dropped' \subseteq 0..MaxHeight, UNCHANGED rare \/ Rarely
  PROVE  TypeOK'
<1>1. job' \in [Workers -> Jobs]
  BY MoveTypes
<1>2. rare' \in 0..MaxRare
  BY IssuanceAssumption DEF TypeOK, Rarely
<1>3. cleared' \subseteq Workers
  BY DEF TypeOK, OnlyClears
<1> QED
  BY <1>1, <1>2, <1>3 DEF TypeOK, ledgerVars

\* What a step of a worker has to keep.
LEMMA MoveKeeps ==
  ASSUME CInv, TypeOK', NEW w \in Workers, NEW r, Moves(w, r), OnlyClears(w),
         UNCHANGED kyc,
         r.at \in {"mint", "save"} /\ r.course \in Gated => w \in cleared',
         IsApproved /\ r.at \in IssuePlaces => w \in cleared',
         \A c \in Courses :
           /\ creds'[c] + Cardinality(Issuing(c)') <= Cardinality(Workers)
           /\ creds'[c] + Cardinality(Unsaved(c)') + direct'[c] <= minted'[c]
  PROVE  CInv'
<1>1. DuplicatesOverlap'
  BY DEF DuplicatesOverlap
<1>2. /\ job'[w] = r /\ \A v \in Workers \ {w} : job'[v] = job[v]
      /\ \A v \in Workers \ {w} : v \in cleared' <=> v \in cleared
  BY MoveTypes DEF CInv, OnlyClears
<1>3. CredentialsBacked'
  BY <1>2 DEF CInv, CredentialsBacked
<1>4. ApprovalsSeen'
  BY <1>2 DEF CInv, ApprovalsSeen, IsApproved
<1> QED
  BY <1>1, <1>3, <1>4 DEF CInv

LEMMA CardinalityOfWorkers == Cardinality(Workers) \in Nat
BY FS_CardinalityType, IssuanceAssumption

\* A step of a worker that neither inserts nor applies anything and does not
\* pass the first check.
LEMMA QuietKeeps ==
  ASSUME CInv, TypeOK', NEW w \in Workers, NEW r, Moves(w, r), OnlyClears(w),
         UNCHANGED <<kyc, minted, creds, direct>>,
         r.at \in {"mint", "save"} /\ r.course \in Gated => w \in cleared',
         IsApproved /\ r.at \in IssuePlaces => w \in cleared',
         \A c \in Courses : /\ Inserting(r, c) => Inserting(job[w], c)
                            /\ Saving(r, c) => Saving(job[w], c)
  PROVE  CInv'
<1>1. ASSUME NEW c \in Courses
      PROVE  /\ creds'[c] + Cardinality(Issuing(c)') <= Cardinality(Workers)
             /\ creds'[c] + Cardinality(Unsaved(c)') + direct'[c] <= minted'[c]
  <2> DEFINE i == Cardinality(Issuing(c))
             j == Cardinality(Issuing(c)')
             u == Cardinality(Unsaved(c))
             v == Cardinality(Unsaved(c)')
             n == Cardinality(Workers)
  <2>1. i \in Nat /\ j \in Nat /\ j <= i /\ u \in Nat /\ v \in Nat /\ v <= u
    <3>1. i \in Nat /\ j \in Nat /\ (j = i \/ j = i - 1)
      BY Counts DEF CInv
    <3>2. u \in Nat /\ v \in Nat /\ (v = u \/ v = u - 1)
      BY Counts DEF CInv
    <3> HIDE DEF i, j, u, v
    <3> QED
      BY <3>1, <3>2
  <2>2. /\ creds[c] \in Nat /\ minted[c] \in Nat /\ direct[c] \in Nat
        /\ creds[c] + i <= n /\ creds[c] + u + direct[c] <= minted[c]
    BY DEF CInv, TypeOK, DuplicatesOverlap, CredentialsBacked
  <2>3. n \in Nat
    BY CardinalityOfWorkers
  <2>4. creds'[c] = creds[c] /\ minted'[c] = minted[c] /\ direct'[c] = direct[c]
    OBVIOUS
  <2> HIDE DEF i, j, u, v, n
  <2>5. creds'[c] + j <= n /\ creds'[c] + v + direct'[c] <= minted'[c]
    BY <2>1, <2>2, <2>3, <2>4
  <2> QED
    BY <2>5 DEF j, v, n
<1> QED
  BY <1>1, MoveKeeps

-----------------------------------------------------------------------------
(* The actions.                                                            *)

\* A call of issue that ends, in either way.
LEMMA LeaveMoves ==
  ASSUME TypeOK, NEW w \in Workers, Return(w) \/ Throw(w)
  PROVE  /\ Moves(w, AfterIssue(w))
         /\ AfterIssue(w).at \in {"idle", "handle"}
         /\ OnlyClears(w)
         /\ dropped' \subseteq 0..MaxHeight
<1>1. job[w] \in Jobs /\ dropped \subseteq 0..MaxHeight
  BY DEF TypeOK
<1>2. job[w].ledger \in 0..MaxHeight
  BY <1>1 DEF Jobs
<1>3. job' = [job EXCEPT ![w] = AfterIssue(w)] /\ cleared' = cleared \ {w}
  BY DEF Return, Throw, LeaveIssue
<1>4. Moves(w, AfterIssue(w)) /\ OnlyClears(w)
  BY <1>3, AfterIssueIsJob DEF Moves, OnlyClears
<1>5. AfterIssue(w).at \in {"idle", "handle"}
  BY <1>1 DEF AfterIssue, Idle, Jobs
<1>6. dropped' \subseteq 0..MaxHeight
  BY <1>1, <1>2 DEF Return, Throw
<1> QED
  BY <1>4, <1>5, <1>6

\* What an action that leaves a variable alone owes to the lemmas below.
LEMMA TypesNow ==
  ASSUME CInv
  PROVE  /\ TypeOK
         /\ cursor \in 0..MaxHeight
         /\ dropped \subseteq 0..MaxHeight
         /\ minted \in [Courses -> Nat] /\ creds \in [Courses -> Nat]
         /\ direct \in [Courses -> Nat]
BY DEF CInv, TypeOK

\* A worker that is at none of the places of issue after the first check.
LEMMA OutsideKeeps ==
  ASSUME CInv, NEW w \in Workers, NEW r, Moves(w, r), OnlyClears(w),
         UNCHANGED <<ledgerVars, kyc, minted, creds, direct>>,
         cursor' \in 0..MaxHeight,
         dropped' \subseteq 0..MaxHeight, UNCHANGED rare \/ Rarely,
         \/ r.at \in {"idle", "events", "handle"}
         \/ r.at = "check" /\ (IsApproved => w \in cleared')
  PROVE  CInv'
<1>1. TypeOK'
  BY TypesNow, TypesKept
<1>2. \A c \in Courses : ~Inserting(r, c) /\ ~Saving(r, c)
  BY DEF Inserting, Saving
<1>3. /\ r.at \in {"mint", "save"} /\ r.course \in Gated => w \in cleared'
      /\ IsApproved /\ r.at \in IssuePlaces => w \in cleared'
  BY DEF IssuePlaces
<1> QED
  BY <1>1, <1>2, <1>3, QuietKeeps

LEMMA LeaveKeeps ==
  ASSUME CInv, NEW w \in Workers, Return(w) \/ Throw(w),
         UNCHANGED <<ledgerVars, storeVars, issueVars>>, UNCHANGED rare \/ Rarely
  PROVE  CInv'
<1>1. /\ Moves(w, AfterIssue(w)) /\ OnlyClears(w)
      /\ AfterIssue(w).at \in {"idle", "handle"} /\ dropped' \subseteq 0..MaxHeight
  BY TypesNow, LeaveMoves
<1> QED
  BY <1>1, TypesNow, OutsideKeeps DEF storeVars, issueVars

\* A call of issue that begins.
LEMMA CallMoves ==
  ASSUME TypeOK, NEW w \in Workers, NEW j \in Jobs, CallIssue(w, j)
  PROVE  /\ Moves(w, [j EXCEPT !.at = "check"])
         /\ OnlyClears(w) /\ (IsApproved => w \in cleared')
         /\ [j EXCEPT !.at = "check"].at = "check"
<1>1. [j EXCEPT !.at = "check"] \in Jobs /\ [j EXCEPT !.at = "check"].at = "check"
  BY DEF Jobs, Places, IssuePlaces
<1>2. Moves(w, [j EXCEPT !.at = "check"])
  BY <1>1 DEF CallIssue, Moves
<1>3. OnlyClears(w) /\ (IsApproved => w \in cleared')
  BY DEF CallIssue, OnlyClears
<1> QED
  BY <1>1, <1>2, <1>3

LEMMA CallKeeps ==
  ASSUME CInv, NEW w \in Workers, NEW j \in Jobs, CallIssue(w, j),
         UNCHANGED <<ledgerVars, storeVars, issueVars, dropped, rare>>
  PROVE  CInv'
<1>1. /\ Moves(w, [j EXCEPT !.at = "check"])
      /\ OnlyClears(w) /\ (IsApproved => w \in cleared')
      /\ [j EXCEPT !.at = "check"].at = "check"
  BY TypesNow, CallMoves
<1> QED
  BY <1>1, TypesNow, OutsideKeeps DEF storeVars, issueVars

LEMMA RequestKeeps ==
  ASSUME CInv, NEW w \in Requests, NEW c \in Courses, BeginIssue(w, c)
  PROVE  CInv'
<1>1. w \in Workers /\ [Idle EXCEPT !.course = c] \in Jobs
  BY IdleIsJob DEF Workers, Jobs, Idle
<1> QED
  BY <1>1, CallKeeps DEF BeginIssue

LEMMA BeginPollKeeps ==
  ASSUME CInv, NEW w \in Polls, BeginPoll(w)
  PROVE  CInv'
<1> DEFINE r == [Idle EXCEPT !.at = "events", !.from = cursor]
<1>1. r \in Jobs /\ r.at = "events"
  BY IdleIsJob, TypesNow DEF Jobs, Places, Idle
<1>2. w \in Workers /\ Moves(w, r)
  BY <1>1 DEF BeginPoll, Moves, Workers
<1> HIDE DEF r
<1>3. OnlyClears(w)
  BY DEF BeginPoll, historyVars, OnlyClears
<1> QED
  BY <1>1, <1>2, <1>3, TypesNow, OutsideKeeps
  DEF BeginPoll, storeVars, issueVars, historyVars

\* What an answer makes of the poll's job.
Answered(w, some) ==
  [Idle EXCEPT !.at = "handle", !.latest = Newer(w), !.queue = some]

LEMMA AnswerMoves ==
  ASSUME TypeOK, NEW w \in Workers, NEW some, Answer(w, some)
  PROVE  /\ Moves(w, Answered(w, some))
         /\ Answered(w, some).at = "handle"
         /\ Answered(w, some).from = 0
         /\ Answered(w, some).latest = Newer(w) /\ Newer(w) <= height
         /\ Answered(w, some).queue = some
         /\ dropped' \subseteq 0..MaxHeight
<1> DEFINE r == Answered(w, some)
<1>1. /\ height \in 0..MaxHeight /\ MaxHeight \in Nat
      /\ job[w] \in Jobs /\ job[w].from \in Nat
  BY IssuanceAssumption DEF TypeOK, Jobs
<1>2. Newer(w) \in 0..MaxHeight /\ Newer(w) <= height
  BY <1>1 DEF Newer
<1>3. EventsFrom(w) \subseteq Ledgers /\ EventsFrom(w) \subseteq 0..MaxHeight
  BY <1>1 DEF EventsFrom, Ledgers
<1>4. some \subseteq Ledgers
  BY <1>3 DEF Answer
<1>5. /\ r \in Jobs /\ r.at = "handle" /\ r.from = 0 /\ r.latest = Newer(w)
      /\ r.queue = some
  BY <1>2, <1>4, IdleIsJob DEF Answered, Jobs, Places, Idle
<1>6. Moves(w, r)
  BY <1>5 DEF Answer, Answered, Moves
<1>7. dropped' \subseteq 0..MaxHeight
  BY <1>3 DEF Answer, TypeOK
<1> QED
  BY <1>2, <1>5, <1>6, <1>7

LEMMA GetEventsKeeps ==
  ASSUME CInv, NEW w \in Polls, GetEvents(w)
  PROVE  CInv'
<1>1. w \in Workers /\ OnlyClears(w)
  BY DEF Workers, GetEvents, OnlyClears
<1>2. /\ UNCHANGED <<ledgerVars, storeVars, issueVars>>
      /\ UNCHANGED rare \/ Rarely
  BY DEF GetEvents
<1>3. CASE job' = [job EXCEPT ![w] = Idle] /\ UNCHANGED dropped
  <2>1. Moves(w, Idle) /\ Idle.at = "idle"
    BY <1>3, IdleIsJob DEF Moves, Idle
  <2> QED
    BY <1>1, <1>2, <1>3, <2>1, TypesNow, OutsideKeeps DEF storeVars, issueVars
<1>4. ASSUME NEW some, Answer(w, some)
      PROVE  CInv'
  <2>1. /\ Moves(w, Answered(w, some)) /\ Answered(w, some).at = "handle"
        /\ dropped' \subseteq 0..MaxHeight
    BY <1>1, <1>4, TypesNow, AnswerMoves
  <2> QED
    BY <1>1, <1>2, <2>1, TypesNow, OutsideKeeps DEF storeVars, issueVars
<1> QED
  BY <1>3, <1>4 DEF GetEvents

\* What the poll carries when it has taken l off its queue, and when it calls
\* issue for it.
Taken(w, l) == [job[w] EXCEPT !.queue = @ \ {l}]
Calling(w, l) == [Taken(w, l) EXCEPT !.course = event[l], !.ledger = l]

LEMMA HandleMoves ==
  ASSUME TypeOK, NEW w \in Workers, NEW l \in job[w].queue, job[w].at = "handle"
  PROVE  /\ l \in Ledgers /\ l \in 0..MaxHeight
         /\ Taken(w, l) \in Jobs /\ Taken(w, l).at = "handle"
         /\ Calling(w, l) \in Jobs
<1>1. job[w] \in Jobs
  BY DEF TypeOK
<1>2. l \in Ledgers
  BY <1>1 DEF Jobs
<1>3. l \in 0..MaxHeight /\ event[l] \in Courses \cup {NoCourse}
  BY <1>2, IssuanceAssumption DEF Ledgers, TypeOK
<1>4. Taken(w, l) \in Jobs /\ Taken(w, l).at = "handle"
  BY <1>1 DEF Taken, Jobs
<1>5. Calling(w, l) \in Jobs
  BY <1>3, <1>4 DEF Calling, Jobs
<1> QED
  BY <1>2, <1>3, <1>4, <1>5

\* The two ways handleEvent can go.
LEMMA HandleCases ==
  ASSUME TypeOK, NEW w \in Workers, Handle(w)
  PROVE  /\ UNCHANGED <<ledgerVars, storeVars, issueVars>>
         /\ job[w].at = "handle"
         /\ \E l \in job[w].queue :
              \/ /\ Legible(l) /\ CallIssue(w, Calling(w, l))
                 /\ UNCHANGED <<dropped, rare>>
              \/ /\ job' = [job EXCEPT ![w] = Taken(w, l)] /\ UNCHANGED cleared
                 /\ \/ ~Legible(l) /\ UNCHANGED <<dropped, rare>>
                    \/ Rarely /\ dropped' = dropped \cup {l}
BY DEF Handle, Taken, Calling

LEMMA HandleKeeps ==
  ASSUME CInv, NEW w \in Polls, Handle(w)
  PROVE  CInv'
<1>1. w \in Workers
  BY DEF Workers
<1>2. /\ UNCHANGED <<ledgerVars, storeVars, issueVars>>
      /\ job[w].at = "handle"
  BY <1>1, TypesNow, HandleCases
<1>3. ASSUME NEW l \in job[w].queue, CallIssue(w, Calling(w, l)),
             UNCHANGED <<dropped, rare>>
      PROVE  CInv'
  <2>1. Calling(w, l) \in Jobs
    BY <1>1, <1>2, TypesNow, HandleMoves
  <2> QED
    BY <1>1, <1>2, <1>3, <2>1, CallKeeps
<1>4. ASSUME NEW l \in job[w].queue, job' = [job EXCEPT ![w] = Taken(w, l)],
             UNCHANGED cleared,
             \/ UNCHANGED <<dropped, rare>>
             \/ Rarely /\ dropped' = dropped \cup {l}
      PROVE  CInv'
  <2>1. l \in 0..MaxHeight /\ Taken(w, l) \in Jobs /\ Taken(w, l).at = "handle"
    BY <1>1, <1>2, TypesNow, HandleMoves
  <2>2. Moves(w, Taken(w, l)) /\ OnlyClears(w)
    BY <1>4, <2>1 DEF Moves, OnlyClears
  <2>3. dropped' \subseteq 0..MaxHeight
    BY <1>4, <2>1, TypesNow
  <2> QED
    BY <1>1, <1>2, <1>4, <2>1, <2>2, <2>3, TypesNow, OutsideKeeps
    DEF storeVars, issueVars
<1> QED
  BY <1>1, <1>3, <1>4, TypesNow, HandleCases

LEMMA EndPollKeeps ==
  ASSUME CInv, NEW w \in Polls, EndPoll(w)
  PROVE  CInv'
<1>1. w \in Workers /\ job[w] \in Jobs
  BY DEF Workers, CInv, TypeOK
<1>2. CursorAfter(w) \in 0..MaxHeight
  BY <1>1, TypesNow DEF CursorAfter, Jobs
<1>3. Moves(w, Idle) /\ Idle.at = "idle" /\ OnlyClears(w)
  BY IdleIsJob DEF EndPoll, Moves, Idle, OnlyClears, historyVars
<1>4. cursor' \in 0..MaxHeight /\ (UNCHANGED rare \/ Rarely)
  BY <1>2, TypesNow DEF EndPoll
<1> QED
  BY <1>1, <1>3, <1>4, TypesNow, OutsideKeeps
  DEF EndPoll, issueVars, historyVars

\* The first check is passed only without a row.
LEMMA CheckKeeps ==
  ASSUME CInv, NEW w \in Workers, Check(w)
  PROVE  CInv'
<1> USE TypesNow
<1>1. CASE /\ Return(w) \/ Throw(w)
           /\ UNCHANGED rare \/ Rarely
  BY <1>1, LeaveKeeps DEF Check
<1>2. CASE /\ creds[job[w].course] = 0 /\ GoTo(w, AfterCheck(w))
           /\ UNCHANGED <<historyVars, rare>>
  <2> DEFINE r == [job[w] EXCEPT !.at = AfterCheck(w)]
  <2>1. Moves(w, r)
    BY <1>2, PlaceIsMove DEF AfterCheck, Places, IssuePlaces
  <2>2. /\ r.at = AfterCheck(w) /\ r.course = job[w].course
        /\ job[w].at = "check"
    BY DEF Check, TypeOK, Jobs
  <2> HIDE DEF r
  <2>3. UNCHANGED <<ledgerVars, storeVars, issueVars>> /\ OnlyClears(w)
    BY <1>2 DEF Check, historyVars, OnlyClears
  <2>4. TypeOK'
    BY <1>2, <2>1, <2>3, TypesKept DEF storeVars, issueVars, historyVars
  <2>5. ASSUME NEW c \in Courses
        PROVE  /\ creds'[c] + Cardinality(Issuing(c)') <= Cardinality(Workers)
               /\ creds'[c] + Cardinality(Unsaved(c)') + direct'[c] <= minted'[c]
    <3>1. Cardinality(Unsaved(c)') = Cardinality(Unsaved(c))
      BY <2>1, <2>2, Counts DEF Saving, AfterCheck
    <3>2. creds'[c] = creds[c] /\ minted'[c] = minted[c] /\ direct'[c] = direct[c]
      BY <2>3 DEF issueVars
    <3>3. creds[c] + Cardinality(Issuing(c)') <= Cardinality(Workers)
      <4>1. CASE c = r.course
        <5>1. creds[c] = 0
          BY <1>2, <2>2, <4>1
        <5>2. /\ Cardinality(Issuing(c)') \in Nat
              /\ Cardinality(Issuing(c)') <= Cardinality(Workers)
          BY <2>1, Counts
        <5> QED
          BY <5>1, <5>2
      <4>2. CASE c # r.course
        <5>1. Cardinality(Issuing(c)') = Cardinality(Issuing(c))
          BY <2>1, <2>2, <4>2, Counts DEF Inserting
        <5> QED
          BY <5>1 DEF CInv, DuplicatesOverlap
      <4> QED
        BY <4>1, <4>2
    <3> QED
      BY <3>1, <3>2, <3>3 DEF CInv, CredentialsBacked
  <2>6. /\ r.at \in {"mint", "save"} /\ r.course \in Gated => w \in cleared'
        /\ IsApproved /\ r.at \in IssuePlaces => w \in cleared'
    <3>1. r.course \in Gated => r.at = "gate"
      BY <2>2 DEF AfterCheck
    <3>2. IsApproved => w \in cleared'
      BY <1>2, <2>2 DEF CInv, ApprovalsSeen, IssuePlaces, historyVars
    <3> QED
      BY <3>1, <3>2
  <2>7. UNCHANGED kyc
    BY <2>3 DEF storeVars
  <2> QED
    BY <2>1, <2>3, <2>4, <2>5, <2>6, <2>7, MoveKeeps
<1> QED
  BY <1>1, <1>2 DEF Check

\* The gate is passed while KYC is approved, which the call then has seen.
LEMMA GateKeeps ==
  ASSUME CInv, NEW w \in Workers, Gate(w)
  PROVE  CInv'
<1> USE TypesNow
<1>1. CASE Throw(w) /\ (UNCHANGED rare \/ Rarely)
  BY <1>1, LeaveKeeps DEF Gate
<1>2. CASE IsApproved /\ GoTo(w, "mint") /\ UNCHANGED <<historyVars, rare>>
  <2> DEFINE r == [job[w] EXCEPT !.at = "mint"]
  <2>1. Moves(w, r)
    BY <1>2, PlaceIsMove DEF Places, IssuePlaces
  <2>2. r.at = "mint" /\ r.course = job[w].course /\ job[w].at = "gate"
    BY DEF Gate, TypeOK, Jobs
  <2> HIDE DEF r
  <2>3. UNCHANGED <<ledgerVars, storeVars, issueVars>> /\ OnlyClears(w)
    BY <1>2 DEF Gate, historyVars, OnlyClears
  <2>4. TypeOK'
    BY <1>2, <2>1, <2>3, TypesKept DEF storeVars, issueVars, historyVars
  <2>5. w \in cleared'
    BY <1>2, <2>2 DEF CInv, ApprovalsSeen, IssuePlaces, historyVars
  <2>6. \A c \in Courses : /\ Inserting(r, c) => Inserting(job[w], c)
                           /\ Saving(r, c) => Saving(job[w], c)
    BY <2>2 DEF Inserting, Saving
  <2> QED
    BY <2>1, <2>3, <2>4, <2>5, <2>6, QuietKeeps DEF storeVars, issueVars
<1> QED
  BY <1>1, <1>2 DEF Gate

\* One more transaction.
LEMMA MoreTypes ==
  ASSUME NEW f \in [Courses -> Nat], NEW d
  PROVE  /\ [f EXCEPT ![d] = @ + 1] \in [Courses -> Nat]
         /\ \A c \in Courses :
              [f EXCEPT ![d] = @ + 1][c] = IF c = d THEN f[c] + 1 ELSE f[c]
<1>1. CASE d \in Courses
  BY <1>1
<1>2. CASE d \notin Courses
  <2>1. [f EXCEPT ![d] = @ + 1] = f
    BY <1>2
  <2> QED
    BY <1>2, <2>1
<1> QED
  BY <1>1, <1>2

LEMMA MintKeeps ==
  ASSUME CInv, NEW w \in Workers, Mint(w)
  PROVE  CInv'
<1> USE TypesNow
<1> DEFINE d == job[w].course
           more == [minted EXCEPT ![d] = @ + 1]
<1>1. /\ more \in [Courses -> Nat]
      /\ \A c \in Courses : more[c] = IF c = d THEN minted[c] + 1 ELSE minted[c]
  BY MoreTypes
<1>2. PICK r : /\ Moves(w, r) /\ OnlyClears(w)
               /\ \/ /\ r.at = "save" /\ r.course = d /\ minted' = more
                     /\ UNCHANGED <<historyVars, rare>>
                  \/ /\ r.at \in {"idle", "handle"} /\ minted' \in {minted, more}
                     /\ dropped' \subseteq 0..MaxHeight /\ Rarely
  <2>1. CASE minted' = more /\ GoTo(w, "save") /\ UNCHANGED <<historyVars, rare>>
    <3>1. Moves(w, [job[w] EXCEPT !.at = "save"])
      BY <2>1, PlaceIsMove DEF Places, IssuePlaces
    <3>2. /\ [job[w] EXCEPT !.at = "save"].at = "save"
          /\ [job[w] EXCEPT !.at = "save"].course = d
      BY DEF TypeOK, Jobs
    <3>3. OnlyClears(w)
      BY <2>1 DEF historyVars, OnlyClears
    <3> HIDE DEF more
    <3> QED
      BY <2>1, <3>1, <3>2, <3>3
  <2>2. CASE Rarely /\ Throw(w) /\ minted' \in {minted, more}
    <3> HIDE DEF more
    <3> QED
      BY <2>2, LeaveMoves
  <2> QED
    BY <2>1, <2>2 DEF Mint
<1> HIDE DEF more
<1>3. UNCHANGED <<ledgerVars, storeVars, creds, direct>> /\ job[w].at = "mint"
  BY DEF Mint
<1>4. minted' \in [Courses -> Nat]
  BY <1>1, <1>2
<1>5. TypeOK'
  BY <1>2, <1>3, <1>4, TypesKept DEF storeVars, historyVars
<1>6. ASSUME NEW c \in Courses
      PROVE  /\ creds'[c] + Cardinality(Issuing(c)') <= Cardinality(Workers)
             /\ creds'[c] + Cardinality(Unsaved(c)') + direct'[c] <= minted'[c]
  <2> DEFINE i == Cardinality(Issuing(c))
             j == Cardinality(Issuing(c)')
             u == Cardinality(Unsaved(c))
             v == Cardinality(Unsaved(c)')
             n == Cardinality(Workers)
  <2>1. /\ creds'[c] = creds[c] /\ direct'[c] = direct[c] /\ creds[c] \in Nat
        /\ direct[c] \in Nat /\ minted[c] \in Nat /\ n \in Nat
    BY <1>3, CardinalityOfWorkers
  <2>2. creds[c] + i <= n /\ creds[c] + u + direct[c] <= minted[c]
    BY DEF CInv, DuplicatesOverlap, CredentialsBacked
  <2>3. i \in Nat /\ j \in Nat /\ u \in Nat /\ v \in Nat
    BY <1>2, Counts
  <2>4. ~Saving(job[w], c)
    BY <1>3 DEF Saving
  <2>5. CASE c = d /\ r.at = "save"
    <3>1. r.course = d /\ minted'[c] = minted[c] + 1
      BY <1>1, <1>2, <2>5
    <3>2. j = i
      BY <1>2, <1>3, <2>5, <3>1, Counts DEF Inserting
    <3>3. v = u + 1
      BY <1>2, <2>4, <2>5, <3>1, Counts DEF Saving
    <3>4. creds'[c] + j <= n /\ creds'[c] + v + direct'[c] <= minted'[c]
      <4> HIDE DEF i, j, u, v, n
      <4> QED
        BY <2>1, <2>2, <2>3, <3>1, <3>2, <3>3
    <3> QED
      BY <3>4
  <2>6. CASE ~(c = d /\ r.at = "save")
    <3>1. ~Saving(r, c)
      BY <1>2, <2>6 DEF Saving
    <3>2. v = u
      BY <1>2, <2>4, <3>1, Counts
    <3>3. j = i \/ j = i - 1
      <4>1. Inserting(r, c) => Inserting(job[w], c)
        BY <1>2, <1>3 DEF Inserting
      <4> QED
        BY <1>2, <4>1, Counts
    <3>4. minted'[c] \in {minted[c], minted[c] + 1}
      BY <1>1, <1>2
    <3>5. creds'[c] + j <= n /\ creds'[c] + v + direct'[c] <= minted'[c]
      <4> HIDE DEF i, j, u, v, n
      <4> QED
        BY <2>1, <2>2, <2>3, <3>2, <3>3, <3>4
    <3> QED
      BY <3>5
  <2> QED
    BY <2>5, <2>6
<1>7. UNCHANGED kyc
  BY <1>3 DEF storeVars
<1>8. /\ r.at \in {"mint", "save"} /\ r.course \in Gated => w \in cleared'
      /\ IsApproved /\ r.at \in IssuePlaces => w \in cleared'
  <2>1. /\ d \in Gated => w \in cleared
        /\ IsApproved => w \in cleared
    BY <1>3 DEF CInv, CredentialsBacked, ApprovalsSeen, IssuePlaces
  <2> QED
    BY <1>2, <2>1 DEF historyVars, IssuePlaces
<1> QED
  BY <1>2, <1>5, <1>6, <1>7, <1>8, MoveKeeps

LEMMA SaveKeeps ==
  ASSUME CInv, NEW w \in Workers, Save(w)
  PROVE  CInv'
<1> USE TypesNow
<1> DEFINE d == job[w].course
           more == [creds EXCEPT ![d] = @ + 1]
           r == AfterIssue(w)
<1>1. /\ more \in [Courses -> Nat]
      /\ \A c \in Courses : more[c] = IF c = d THEN creds[c] + 1 ELSE creds[c]
  BY MoreTypes
<1>2. /\ Moves(w, r) /\ r.at \in {"idle", "handle"}
      /\ OnlyClears(w) /\ dropped' \subseteq 0..MaxHeight
  BY LeaveMoves DEF Save
<1>3. /\ UNCHANGED <<ledgerVars, storeVars, minted, direct>> /\ job[w].at = "save"
      /\ creds' \in {creds, more} /\ (UNCHANGED rare \/ Rarely)
  BY DEF Save
<1> HIDE DEF more, r
<1>4. creds' \in [Courses -> Nat]
  BY <1>1, <1>3
<1>5. TypeOK'
  BY <1>2, <1>3, <1>4, TypesKept DEF storeVars
<1>6. ASSUME NEW c \in Courses
      PROVE  /\ creds'[c] + Cardinality(Issuing(c)') <= Cardinality(Workers)
             /\ creds'[c] + Cardinality(Unsaved(c)') + direct'[c] <= minted'[c]
  <2> DEFINE i == Cardinality(Issuing(c))
             j == Cardinality(Issuing(c)')
             u == Cardinality(Unsaved(c))
             v == Cardinality(Unsaved(c)')
             n == Cardinality(Workers)
  <2>1. /\ minted'[c] = minted[c] /\ direct'[c] = direct[c] /\ creds[c] \in Nat
        /\ direct[c] \in Nat /\ minted[c] \in Nat /\ n \in Nat
    BY <1>3, CardinalityOfWorkers
  <2>2. creds[c] + i <= n /\ creds[c] + u + direct[c] <= minted[c]
    BY DEF CInv, DuplicatesOverlap, CredentialsBacked
  <2>3. i \in Nat /\ j \in Nat /\ u \in Nat /\ v \in Nat
    BY <1>2, Counts
  <2>4. ~Inserting(r, c) /\ ~Saving(r, c)
    BY <1>2 DEF Inserting, Saving
  <2>5. creds'[c] + j <= n /\ creds'[c] + v + direct'[c] <= minted'[c]
    <3>1. CASE c = d
      <4>1. Inserting(job[w], c) /\ Saving(job[w], c)
        BY <1>3, <3>1 DEF Inserting, Saving
      <4>2. j = i - 1 /\ v = u - 1
        BY <1>2, <2>4, <4>1, Counts
      <4>3. creds'[c] \in {creds[c], creds[c] + 1}
        BY <1>1, <1>3
      <4> HIDE DEF i, j, u, v, n
      <4> QED
        BY <2>1, <2>2, <2>3, <4>2, <4>3
    <3>2. CASE c # d
      <4>1. ~Inserting(job[w], c) /\ ~Saving(job[w], c)
        BY <3>2 DEF Inserting, Saving
      <4>2. j = i /\ v = u
        BY <1>2, <2>4, <4>1, Counts
      <4>3. creds'[c] = creds[c]
        BY <1>1, <1>3, <3>2
      <4> HIDE DEF i, j, u, v, n
      <4> QED
        BY <2>1, <2>2, <2>3, <4>2, <4>3
    <3> QED
      BY <3>1, <3>2
  <2> QED
    BY <2>5
<1>7. UNCHANGED kyc
  BY <1>3 DEF storeVars
<1>8. r.at \notin IssuePlaces /\ r.at \notin {"mint", "save"}
  BY <1>2 DEF IssuePlaces
<1> QED
  BY <1>2, <1>5, <1>6, <1>7, <1>8, MoveKeeps

-----------------------------------------------------------------------------
(* Steps of nobody, and of everybody.                                      *)

\* A transaction that goes round issue is no transaction of a row.
LEMMA MintDirectKeeps ==
  ASSUME CInv, NEW d \in Courses, MintDirect(d)
  PROVE  CInv'
<1> USE TypesNow
<1>1. /\ UNCHANGED <<ledgerVars, storeVars, creds, job, historyVars>>
      /\ minted' = [minted EXCEPT ![d] = @ + 1]
      /\ direct' = [direct EXCEPT ![d] = @ + 1]
      /\ Rarely
  BY DEF MintDirect
<1>2. /\ minted' \in [Courses -> Nat] /\ direct' \in [Courses -> Nat]
      /\ \A c \in Courses :
           \/ minted'[c] = minted[c] /\ direct'[c] = direct[c]
           \/ minted'[c] = minted[c] + 1 /\ direct'[c] = direct[c] + 1
  BY <1>1
<1>3. rare' \in 0..MaxRare
  BY <1>1, IssuanceAssumption DEF Rarely, TypeOK
<1>4. TypeOK'
  BY <1>1, <1>2, <1>3 DEF TypeOK, ledgerVars, storeVars, historyVars
<1>5. DuplicatesOverlap' /\ ApprovalsSeen'
  BY <1>1 DEF CInv, DuplicatesOverlap, ApprovalsSeen, IsApproved, Issuing,
              storeVars, historyVars
<1>6. CredentialsBacked'
  <2>1. ASSUME NEW c \in Courses
        PROVE  creds'[c] + Cardinality(Unsaved(c)') + direct'[c] <= minted'[c]
    <3> DEFINE u == Cardinality(Unsaved(c))
    <3>1. Unsaved(c)' = Unsaved(c) /\ u \in Nat
      BY <1>1, Finite DEF Unsaved
    <3>2. /\ creds'[c] = creds[c] /\ creds[c] \in Nat /\ minted[c] \in Nat
          /\ direct[c] \in Nat /\ creds[c] + u + direct[c] <= minted[c]
      BY <1>1 DEF CInv, CredentialsBacked
    <3> HIDE DEF u
    <3>3. creds'[c] + u + direct'[c] <= minted'[c]
      BY <1>2, <3>1, <3>2
    <3> QED
      BY <3>1, <3>3 DEF u
  <2> QED
    BY <1>1, <2>1 DEF CInv, CredentialsBacked, historyVars
<1> QED
  BY <1>4, <1>5, <1>6 DEF CInv

LEMMA CloseTypes ==
  ASSUME TypeOK, Close
  PROVE  height' \in 0..MaxHeight /\ event' \in [Ledgers -> Courses \cup {NoCourse}]
<1>1. height' \in 0..MaxHeight
  BY IssuanceAssumption DEF Close, TypeOK
<1> QED
  BY <1>1 DEF Close, Emit, TypeOK

LEMMA CloseKeeps ==
  ASSUME CInv, Close
  PROVE  CInv'
<1>1. UNCHANGED <<shape, storeVars, issueVars, job, historyVars, rare>>
  BY DEF Close
<1>2. height' \in 0..MaxHeight /\ event' \in [Ledgers -> Courses \cup {NoCourse}]
  BY TypesNow, CloseTypes
<1> QED
  BY <1>1, <1>2 DEF CInv, TypeOK, DuplicatesOverlap, CredentialsBacked,
                    ApprovalsSeen, IsApproved, Issuing, Unsaved, storeVars,
                    issueVars, historyVars

\* The KYC record changes; every call under way sees that it is approved.
LEMMA KycKeeps ==
  ASSUME CInv, SubmitKyc \/ \E s \in KycStatuses \ {"none"} : KycWebhook(s)
  PROVE  CInv'
<1>1. UNCHANGED <<ledgerVars, cursor, issueVars, job, dropped, rare>>
  BY DEF SubmitKyc, KycWebhook, historyVars
<1>2. /\ kyc' \in KycStatuses
      /\ cleared' \subseteq Workers /\ cleared \subseteq cleared'
      /\ kyc' = "approved" =>
           \A w \in Workers : job[w].at \in IssuePlaces => w \in cleared'
  BY DEF SubmitKyc, KycWebhook, KycStatuses, CInv, TypeOK, historyVars
<1>3. TypeOK'
  BY <1>1, <1>2 DEF CInv, TypeOK, ledgerVars, issueVars
<1>4. DuplicatesOverlap'
  BY <1>1 DEF CInv, DuplicatesOverlap, Issuing, issueVars
<1>5. CredentialsBacked'
  BY <1>1, <1>2 DEF CInv, CredentialsBacked, Unsaved, issueVars
<1>6. ApprovalsSeen'
  BY <1>1, <1>2 DEF ApprovalsSeen, IsApproved
<1> QED
  BY <1>3, <1>4, <1>5, <1>6 DEF CInv

LEMMA CrashKeeps ==
  ASSUME CInv, Crash
  PROVE  CInv'
<1>1. /\ job' = [w \in Workers |-> Idle] /\ Idle.at = "idle"
      /\ UNCHANGED <<ledgerVars, kyc, issueVars, dropped>> /\ cleared' = {}
  BY DEF Crash, Idle
<1>2. TypeOK'
  <2>1. job' \in [Workers -> Jobs]
    BY <1>1, IdleIsJob
  <2>2. cursor' \in 0..MaxHeight /\ rare' \in 0..MaxRare
    BY IssuanceAssumption DEF Crash, Rarely, CInv, TypeOK
  <2> QED
    BY <1>1, <2>1, <2>2 DEF CInv, TypeOK, ledgerVars, issueVars
<1>3. \A c \in Courses : Issuing(c)' = {} /\ Unsaved(c)' = {}
  BY <1>1 DEF Issuing, Unsaved
<1>4. ASSUME NEW c \in Courses
      PROVE  /\ creds[c] <= Cardinality(Workers)
             /\ creds[c] + direct[c] <= minted[c]
  <2>1. /\ creds[c] \in Nat /\ minted[c] \in Nat /\ direct[c] \in Nat
        /\ creds[c] + Cardinality(Issuing(c)) <= Cardinality(Workers)
        /\ creds[c] + Cardinality(Unsaved(c)) + direct[c] <= minted[c]
    BY DEF CInv, TypeOK, DuplicatesOverlap, CredentialsBacked
  <2>2. Cardinality(Issuing(c)) \in Nat /\ Cardinality(Unsaved(c)) \in Nat
    BY Finite DEF Issuing, Unsaved
  <2> QED
    BY <2>1, <2>2, CardinalityOfWorkers
<1>5. Cardinality({}) = 0
  BY FS_EmptySet
<1>6. /\ creds \in [Courses -> Nat] /\ direct \in [Courses -> Nat]
      /\ creds' = creds /\ minted' = minted /\ direct' = direct
  BY <1>1 DEF CInv, TypeOK, issueVars
<1>7. DuplicatesOverlap'
  <2> SUFFICES ASSUME NEW c \in Courses
               PROVE  creds'[c] + Cardinality(Issuing(c)') <= Cardinality(Workers)
    BY DEF DuplicatesOverlap
  <2>1. Cardinality(Issuing(c)') = 0
    BY <1>3, <1>5
  <2> QED
    BY <1>4, <1>6, <2>1
<1>8. CredentialsBacked'
  <2>1. ASSUME NEW c \in Courses
        PROVE  creds'[c] + Cardinality(Unsaved(c)') + direct'[c] <= minted'[c]
    <3>1. Cardinality(Unsaved(c)') = 0
      BY <1>3, <1>5
    <3> QED
      BY <1>4, <1>6, <3>1
  <2> QED
    BY <1>1, <2>1 DEF CredentialsBacked
<1>9. ApprovalsSeen'
  BY <1>1 DEF ApprovalsSeen, IssuePlaces
<1> QED
  BY <1>2, <1>7, <1>8, <1>9 DEF CInv

LEMMA CInvInit == Init => CInv
<1> SUFFICES ASSUME Init PROVE CInv
  OBVIOUS
<1>1. TypeOK
  <2>1. job \in [Workers -> Jobs]
    BY IdleIsJob DEF Init
  <2>2. /\ height \in 0..MaxHeight /\ cursor \in 0..MaxHeight
        /\ rare \in 0..MaxRare
    BY IssuanceAssumption DEF Init
  <2>3. /\ minted \in [Courses -> Nat] /\ creds \in [Courses -> Nat]
        /\ direct \in [Courses -> Nat]
        /\ event \in [Ledgers -> Courses \cup {NoCourse}] /\ shape \in Shapes
    BY DEF Init
  <2>4. kyc \in KycStatuses /\ cleared = {} /\ dropped = {}
    BY DEF Init, KycStatuses
  <2> QED
    BY <2>1, <2>2, <2>3, <2>4 DEF TypeOK
<1>2. \A c \in Courses : Issuing(c) = {} /\ Unsaved(c) = {}
  BY DEF Init, Issuing, Unsaved, Idle
<1>3. \A c \in Courses : creds[c] = 0 /\ minted[c] = 0 /\ direct[c] = 0
  BY DEF Init
<1>4. \A w \in Workers : job[w].at = "idle"
  BY DEF Init, Idle
<1>5. DuplicatesOverlap /\ CredentialsBacked
  BY <1>2, <1>3, <1>4, FS_EmptySet, CardinalityOfWorkers
  DEF DuplicatesOverlap, CredentialsBacked
<1>6. ApprovalsSeen
  BY <1>4 DEF ApprovalsSeen, IssuePlaces
<1> QED
  BY <1>1, <1>5, <1>6 DEF CInv

LEMMA CInvStep == CInv /\ [Next]_vars => CInv'
<1> SUFFICES ASSUME CInv, [Next]_vars PROVE CInv'
  OBVIOUS
<1>1. CASE UNCHANGED vars
  BY <1>1 DEF vars, ledgerVars, storeVars, issueVars, historyVars, CInv, TypeOK,
              DuplicatesOverlap, CredentialsBacked, ApprovalsSeen, IsApproved,
              Issuing, Unsaved
<1>2. CASE \E w \in Requests, c \in Courses : BeginIssue(w, c) \/ Record(w, c)
  BY <1>2, RequestKeeps DEF Record
<1>3. CASE \E w \in Workers : Issue(w)
  BY <1>3, CheckKeeps, GateKeeps, MintKeeps, SaveKeeps DEF Issue
<1>4. CASE \E w \in Polls : BeginPoll(w) \/ GetEvents(w) \/ Handle(w) \/ EndPoll(w)
  BY <1>4, BeginPollKeeps, GetEventsKeeps, HandleKeeps, EndPollKeeps
<1>5. CASE \/ Close \/ Crash \/ SubmitKyc
           \/ \E s \in KycStatuses \ {"none"} : KycWebhook(s)
           \/ \E c \in Courses : MintDirect(c)
  BY <1>5, CloseKeeps, KycKeeps, CrashKeeps, MintDirectKeeps
<1> QED
  BY <1>1, <1>2, <1>3, <1>4, <1>5 DEF Next

LEMMA CInvAlways == Spec => []CInv
BY CInvInit, CInvStep, PTL DEF Spec

\* Every variable keeps its type (issue, record, poll and the KYC record).
THEOREM IssuanceTypeCorrect == Spec => []TypeOK
<1>1. CInv => TypeOK
  BY DEF CInv
<1> QED
  BY <1>1, CInvAlways, PTL

\* A credential on record stops every later call of issue: however many events
\* are delivered again, rows never outnumber the calls under way at once.
THEOREM OnlyOverlapDuplicates == Spec => []DuplicatesOverlap
<1>1. CInv => DuplicatesOverlap
  BY DEF CInv
<1> QED
  BY <1>1, CInvAlways, PTL

\* "Avoid duplicate credentials" holds when calls of issue do not overlap: one
\* worker inserts at most one row, whatever is delivered again.
THEOREM NoOverlapNoDuplicates ==
  ASSUME Cardinality(Workers) <= 1
  PROVE  Spec => []NoDuplicateCredential
<1>1. CInv => NoDuplicateCredential
  <2> SUFFICES ASSUME CInv, NEW c \in Courses
               PROVE  creds[c] <= 1
    BY DEF NoDuplicateCredential
  <2>1. Issuing(c) \in SUBSET Workers
    BY DEF Issuing
  <2>2. Cardinality(Issuing(c)) \in Nat /\ Cardinality(Workers) \in Nat
    BY <2>1, Finite, CardinalityOfWorkers
  <2>3. /\ creds[c] \in Nat
        /\ creds[c] + Cardinality(Issuing(c)) <= Cardinality(Workers)
    BY DEF CInv, TypeOK, DuplicatesOverlap
  <2> QED
    BY <2>2, <2>3
<1> QED
  BY <1>1, CInvAlways, PTL

\* Every row of the credentials table stands for a transaction of its own, none
\* of them one that went round issue; and a call of issue gets past the gate of a
\* course that requires KYC only on an approval that held since it began.
THEOREM RowsAreBacked == Spec => []CredentialsBacked
<1>1. CInv => CredentialsBacked
  BY DEF CInv
<1> QED
  BY <1>1, CInvAlways, PTL

-----------------------------------------------------------------------------
(* The cursor.  What makes NothingSkipped inductive is what every poll       *)
(* carries with it: the ledgers up to the cursor it has read are settled,    *)
(* and those up to the cursor it will write are settled, still in its queue, *)
(* or the one that it is handling.                                           *)

Handling(r, l) ==
  r.ledger = l /\ r.course = event[l] /\ r.at \in IssuePlaces

Covered(r) ==
  /\ r.from <= height /\ r.latest <= height
  /\ \A l \in Ledgers : l <= r.from => Settled(l)
  /\ \A l \in Ledgers :
       l <= r.latest => Settled(l) \/ l \in r.queue \/ Handling(r, l)

Scanned ==
  /\ cursor <= height
  /\ NothingSkipped
  /\ \A w \in Workers : Covered(job[w])

\* What no step undoes.
Grows ==
  /\ height <= height' /\ UNCHANGED shape
  /\ \A l \in Ledgers : l <= height => event'[l] = event[l]
  /\ \A c \in Courses : creds[c] <= creds'[c]
  /\ dropped \subseteq dropped'

LEMMA CredsGrow ==
  ASSUME TypeOK, NEW w \in Workers,
         creds' \in {creds, [creds EXCEPT ![job[w].course] = @ + 1]}
  PROVE  \A c \in Courses : creds[c] <= creds'[c]
<1>1. creds \in [Courses -> Nat]
  BY DEF TypeOK
<1>2. \A c \in Courses :
        [creds EXCEPT ![job[w].course] = @ + 1][c]
          = IF c = job[w].course THEN creds[c] + 1 ELSE creds[c]
  BY <1>1, MoreTypes
<1>3. CASE creds' = creds
  BY <1>1, <1>3
<1>4. CASE creds' = [creds EXCEPT ![job[w].course] = @ + 1]
  BY <1>1, <1>2, <1>4
<1> QED
  BY <1>3, <1>4

LEMMA NextGrows == TypeOK /\ [Next]_vars => Grows
<1> SUFFICES ASSUME TypeOK, [Next]_vars
             PROVE  Grows
  OBVIOUS
<1>0. height \in Nat /\ creds \in [Courses -> Nat]
  BY IssuanceAssumption DEF TypeOK
<1>1. /\ height <= height' /\ UNCHANGED shape
      /\ \A l \in Ledgers : l <= height => event'[l] = event[l]
  <2>1. CASE UNCHANGED ledgerVars
    BY <1>0, <2>1 DEF ledgerVars
  <2>2. CASE Close
    <3>1. height' = height + 1 /\ UNCHANGED shape
      BY <2>2 DEF Close
    <3>2. ASSUME NEW l \in Ledgers, l <= height
          PROVE  event'[l] = event[l]
      <4>1. l # height + 1
        BY <1>0, <3>2 DEF Ledgers
      <4> QED
        BY <2>2, <4>1 DEF Close, Emit, TypeOK
    <3> QED
      BY <1>0, <3>1, <3>2
  <2> QED
    BY <2>1, <2>2
    DEF Next, BeginIssue, Record, MintDirect, Issue, Check, Gate, Mint, Save,
        BeginPoll, GetEvents, Handle, EndPoll, SubmitKyc, KycWebhook, Crash, vars
<1>2. \A c \in Courses : creds[c] <= creds'[c]
  <2>1. CASE UNCHANGED creds
    BY <1>0, <2>1
  <2>2. CASE \E w \in Workers : Save(w)
    BY <2>2, CredsGrow DEF Save
  <2> QED
    BY <2>1, <2>2
    DEF Next, BeginIssue, Record, MintDirect, Issue, Check, Gate, Mint,
        BeginPoll, GetEvents, Handle, EndPoll, Close, SubmitKyc, KycWebhook,
        Crash, vars, issueVars
<1>3. dropped \subseteq dropped'
  BY DEF Next, BeginIssue, Record, MintDirect, Issue, Check, Gate, Mint, Save,
         Return, Throw, BeginPoll, GetEvents, Answer, Handle, EndPoll, Close,
         SubmitKyc, KycWebhook, Crash, vars, historyVars
<1> QED
  BY <1>1, <1>2, <1>3 DEF Grows

\* A settled ledger stays settled.
LEMMA SettledStays ==
  ASSUME TypeOK, TypeOK', Grows, NEW l \in Ledgers, l <= height, Settled(l)
  PROVE  Settled(l)'
<1>1. /\ event'[l] = event[l] /\ event[l] \in Courses \cup {NoCourse}
      /\ Legible(l)' <=> Legible(l)
  BY DEF Grows, TypeOK, Legible
<1>2. CASE ~Legible(l) \/ l \in dropped
  BY <1>1, <1>2 DEF Settled, Grows
<1>3. CASE Legible(l) /\ creds[event[l]] > 0
  <2>1. event[l] \in Courses
    BY <1>1, <1>3 DEF Legible
  <2>2. creds[event[l]] \in Nat /\ creds'[event[l]] \in Nat
        /\ creds[event[l]] <= creds'[event[l]]
    BY <2>1 DEF Grows, TypeOK
  <2> QED
    BY <1>1, <1>3, <2>2 DEF Settled
<1> QED
  BY <1>2, <1>3 DEF Settled

\* A worker that keeps its cursors, and every ledger that was in its queue or
\* in its hands is still there or settled.
LEMMA CoveredOn ==
  ASSUME TypeOK, TypeOK', Grows, Scanned, NEW w \in Workers,
         job'[w].from = job[w].from, job'[w].latest = job[w].latest,
         \A l \in Ledgers :
           l <= height /\ (l \in job[w].queue \/ Handling(job[w], l))
             => Settled(l)' \/ l \in job'[w].queue \/ (Handling(job[w], l))'
  PROVE  (Covered(job[w]))'
<1>1. job[w] \in Jobs /\ height \in Nat /\ height' \in Nat
  BY IssuanceAssumption DEF TypeOK
<1>2. job[w].from \in Nat /\ job[w].latest \in Nat
  BY <1>1, IssuanceAssumption DEF Jobs
<1>3. /\ job[w].from <= height /\ job[w].latest <= height
      /\ \A l \in Ledgers : l <= job[w].from => Settled(l)
      /\ \A l \in Ledgers :
           l <= job[w].latest =>
             Settled(l) \/ l \in job[w].queue \/ Handling(job[w], l)
  BY DEF Scanned, Covered
<1>4. job'[w].from <= height' /\ job'[w].latest <= height'
  BY <1>1, <1>2, <1>3 DEF Grows
<1>5. ASSUME NEW l \in Ledgers, l <= job'[w].from
      PROVE  Settled(l)'
  BY <1>1, <1>2, <1>3, <1>5, SettledStays DEF Ledgers
<1>6. ASSUME NEW l \in Ledgers, l <= job'[w].latest
      PROVE  Settled(l)' \/ l \in job'[w].queue \/ (Handling(job[w], l))'
  <2>1. l <= height
    BY <1>1, <1>2, <1>3, <1>6 DEF Ledgers
  <2>2. Settled(l) => Settled(l)'
    BY <2>1, SettledStays
  <2> QED
    BY <1>3, <1>6, <2>1, <2>2
<1> QED
  BY <1>4, <1>5, <1>6 DEF Covered

\* A worker that goes to another place with all it carries.
LEMMA CoveredStays ==
  ASSUME TypeOK, TypeOK', Grows, Scanned, NEW w \in Workers,
         job'[w].from = job[w].from, job'[w].latest = job[w].latest,
         job'[w].queue = job[w].queue, job'[w].course = job[w].course,
         job'[w].ledger = job[w].ledger,
         job'[w].at = job[w].at \/ job'[w].at \in IssuePlaces
  PROVE  (Covered(job[w]))'
<1>1. \A l \in Ledgers : l <= height /\ Handling(job[w], l) => (Handling(job[w], l))'
  BY DEF Handling, Grows
<1> QED
  BY <1>1, CoveredOn

\* A worker that carries no cursor.
LEMMA CoveredFresh ==
  ASSUME TypeOK', NEW w \in Workers, job'[w].from = 0, job'[w].latest = 0
  PROVE  (Covered(job[w]))'
<1>1. height' \in Nat
  BY IssuanceAssumption DEF TypeOK
<1>2. \A l \in Ledgers : ~(l <= 0)
  BY DEF Ledgers
<1> QED
  BY <1>1, <1>2 DEF Covered

\* What a step of one worker owes to Scanned.
LEMMA MoveScans ==
  ASSUME TypeOK, TypeOK', Grows, Scanned, NEW w \in Workers, NEW r, Moves(w, r),
         UNCHANGED cursor, (Covered(job[w]))'
  PROVE  Scanned'
<1>1. \A v \in Workers : (Covered(job[v]))'
  <2>1. ASSUME NEW v \in Workers \ {w}
        PROVE  (Covered(job[v]))'
    <3>1. job'[v] = job[v]
      BY MoveTypes
    <3> QED
      BY <3>1, CoveredStays
  <2> QED
    BY <2>1
<1>2. cursor' <= height' /\ NothingSkipped'
  <2>1. height \in Nat /\ height' \in Nat /\ cursor \in Nat
    BY IssuanceAssumption DEF TypeOK
  <2>2. cursor <= height /\ \A l \in Ledgers : l <= cursor => Settled(l)
    BY DEF Scanned, NothingSkipped
  <2>3. cursor' = cursor /\ cursor' <= height'
    BY <2>1, <2>2 DEF Grows
  <2>4. ASSUME NEW l \in Ledgers, l <= cursor'
        PROVE  Settled(l)'
    BY <2>1, <2>2, <2>3, <2>4, SettledStays DEF Ledgers
  <2> QED
    BY <2>3, <2>4 DEF NothingSkipped
<1> QED
  BY <1>1, <1>2 DEF Scanned

\* A call of issue that is over: it has left its ledger settled.
LEMMA EndOfIssue ==
  ASSUME TypeOK, TypeOK', Grows, Scanned, NEW w \in Workers,
         \/ Return(w) /\ \A l \in Ledgers :
                           l <= height /\ Handling(job[w], l) => Settled(l)'
         \/ Throw(w)
  PROVE  (Covered(job[w]))'
<1>1. job[w] \in Jobs /\ Moves(w, AfterIssue(w))
  BY LeaveMoves DEF TypeOK
<1>2. job'[w] = AfterIssue(w)
  BY <1>1, MoveTypes
<1>3. CASE w \in Requests
  BY <1>2, <1>3, CoveredFresh DEF AfterIssue, Idle
<1>4. CASE w \notin Requests
  <2>1. job'[w] = [job[w] EXCEPT !.at = "handle", !.course = NoCourse,
                                  !.ledger = 0]
    BY <1>2, <1>4 DEF AfterIssue
  <2>2. /\ job'[w].from = job[w].from /\ job'[w].latest = job[w].latest
        /\ job'[w].queue = job[w].queue
    BY <1>1, <2>1 DEF Jobs
  <2>3. ASSUME NEW l \in Ledgers, l <= height, Handling(job[w], l)
        PROVE  Settled(l)'
    <3>1. CASE Throw(w)
      <4>1. job[w].ledger \in dropped'
        BY <1>4, <3>1 DEF Throw, Workers
      <4> QED
        BY <2>3, <4>1 DEF Settled, Handling
    <3> QED
      BY <2>3, <3>1
  <2> QED
    BY <2>2, <2>3, CoveredOn
<1> QED
  BY <1>3, <1>4

\* A worker that goes on within issue.
LEMMA GoToScans ==
  ASSUME TypeOK, TypeOK', Grows, Scanned, NEW w \in Workers,
         NEW p \in IssuePlaces, GoTo(w, p), UNCHANGED cursor
  PROVE  Scanned'
<1>1. Moves(w, [job[w] EXCEPT !.at = p])
  BY PlaceIsMove DEF Places
<1>2. job[w] \in Jobs /\ job'[w] = [job[w] EXCEPT !.at = p]
  BY <1>1, MoveTypes DEF TypeOK
<1>3. /\ job'[w].from = job[w].from /\ job'[w].latest = job[w].latest
      /\ job'[w].queue = job[w].queue /\ job'[w].course = job[w].course
      /\ job'[w].ledger = job[w].ledger /\ job'[w].at = p
  BY <1>2 DEF Jobs
<1>4. (Covered(job[w]))'
  BY <1>3, CoveredStays
<1> QED
  BY <1>1, <1>4, MoveScans

LEMMA EndScans ==
  ASSUME TypeOK, TypeOK', Grows, Scanned, NEW w \in Workers, UNCHANGED cursor,
         \/ Return(w) /\ \A l \in Ledgers :
                           l <= height /\ Handling(job[w], l) => Settled(l)'
         \/ Throw(w)
  PROVE  Scanned'
<1>1. Moves(w, AfterIssue(w))
  BY LeaveMoves
<1> QED
  BY <1>1, EndOfIssue, MoveScans

\* A request that begins, or a poll that is over before it has read anything.
LEMMA FreshScans ==
  ASSUME TypeOK, TypeOK', Grows, Scanned, NEW w \in Workers,
         NEW r \in Jobs, job' = [job EXCEPT ![w] = r],
         r.from = 0, r.latest = 0, UNCHANGED cursor
  PROVE  Scanned'
<1>1. Moves(w, r)
  BY DEF Moves
<1>2. job'[w] = r
  BY <1>1, MoveTypes
<1>3. (Covered(job[w]))'
  BY <1>2, CoveredFresh
<1> QED
  BY <1>1, <1>3, MoveScans

LEMMA RequestScans ==
  ASSUME TypeOK, TypeOK', Grows, Scanned, NEW w \in Requests, NEW c \in Courses,
         BeginIssue(w, c)
  PROVE  Scanned'
<1> DEFINE j == [Idle EXCEPT !.course = c]
           r == [j EXCEPT !.at = "check"]
<1>1. w \in Workers
  BY DEF Workers
<1>2. r \in Jobs /\ r.from = 0 /\ r.latest = 0
  BY IdleIsJob DEF Jobs, Places, IssuePlaces, Idle
<1>3. job' = [job EXCEPT ![w] = r] /\ UNCHANGED cursor
  BY DEF BeginIssue, CallIssue, storeVars
<1> HIDE DEF r
<1> QED
  BY <1>1, <1>2, <1>3, FreshScans

\* issue returns only when the credential is on record.
LEMMA IssueScans ==
  ASSUME TypeOK, TypeOK', Grows, Scanned, NEW w \in Workers, Issue(w)
  PROVE  Scanned'
<1>1. CASE Check(w)
  <2>1. UNCHANGED <<cursor, event, creds>>
    BY <1>1 DEF Check, storeVars, ledgerVars, issueVars
  <2>2. CASE Return(w) /\ creds[job[w].course] > 0
    <3>1. ASSUME NEW l \in Ledgers, Handling(job[w], l)
          PROVE  Settled(l)'
      BY <2>1, <2>2, <3>1 DEF Handling, Settled
    <3> QED
      BY <2>1, <2>2, <3>1, EndScans
  <2>3. CASE GoTo(w, AfterCheck(w)) \/ Throw(w)
    BY <2>1, <2>3, GoToScans, EndScans DEF AfterCheck, IssuePlaces
  <2> QED
    BY <1>1, <2>2, <2>3 DEF Check
<1>2. CASE Gate(w) \/ Mint(w)
  <2>1. UNCHANGED cursor
    BY <1>2 DEF Gate, Mint, storeVars
  <2>2. GoTo(w, "mint") \/ GoTo(w, "save") \/ Throw(w)
    BY <1>2 DEF Gate, Mint
  <2> QED
    BY <2>1, <2>2, GoToScans, EndScans DEF IssuePlaces
<1>3. CASE Save(w)
  <2>1. UNCHANGED <<cursor, event, shape>>
    BY <1>3 DEF Save, storeVars, ledgerVars
  <2>2. CASE Return(w) /\ creds' = [creds EXCEPT ![job[w].course] = @ + 1]
    <3>1. ASSUME NEW l \in Ledgers, Handling(job[w], l), Legible(l)
          PROVE  Settled(l)'
      <4>1. event[l] \in Courses /\ creds \in [Courses -> Nat]
        BY <3>1 DEF TypeOK, Legible
      <4>2. creds'[event[l]] = creds[event[l]] + 1 /\ creds[event[l]] \in Nat
        BY <2>2, <3>1, <4>1 DEF Handling
      <4>3. creds'[event[l]] > 0
        BY <4>2
      <4> QED
        BY <2>1, <4>3 DEF Settled
    <3>2. ASSUME NEW l \in Ledgers, ~Legible(l)
          PROVE  Settled(l)'
      BY <2>1, <3>2 DEF Settled, Legible
    <3> QED
      BY <2>1, <2>2, <3>1, <3>2, EndScans
  <2>3. CASE Throw(w)
    BY <2>1, <2>3, EndScans
  <2> QED
    BY <1>3, <2>2, <2>3 DEF Save
<1> QED
  BY <1>1, <1>2, <1>3 DEF Issue

\* The cursor that a poll has read is one that was not ahead.
LEMMA BeginPollScans ==
  ASSUME TypeOK, TypeOK', Grows, Scanned, NEW w \in Polls, BeginPoll(w)
  PROVE  Scanned'
<1> DEFINE r == [Idle EXCEPT !.at = "events", !.from = cursor]
<1>1. r \in Jobs /\ r.from = cursor /\ r.latest = 0
  BY IdleIsJob DEF Jobs, Places, Idle, TypeOK
<1>2. w \in Workers /\ Moves(w, r)
  BY <1>1 DEF BeginPoll, Moves, Workers
<1> HIDE DEF r
<1>3. job'[w] = r
  BY <1>2, MoveTypes
<1>4. UNCHANGED <<cursor, height, event, shape, creds, dropped>>
  BY DEF BeginPoll, storeVars, ledgerVars, issueVars, historyVars
<1>5. /\ height \in Nat /\ cursor <= height
      /\ \A l \in Ledgers : l <= cursor => Settled(l)
  BY IssuanceAssumption DEF TypeOK, Scanned, NothingSkipped
<1>6. \A l \in Ledgers : l <= cursor => Settled(l)'
  BY <1>4, <1>5 DEF Settled, Legible
<1>7. \A l \in Ledgers : ~(l <= 0)
  BY DEF Ledgers
<1>8. (Covered(job[w]))'
  BY <1>1, <1>3, <1>4, <1>5, <1>6, <1>7 DEF Covered
<1> QED
  BY <1>2, <1>4, <1>8, MoveScans

\* Every ledger up to the newest is settled before the cursor that was read, or
\* in the answer, or left out of it, or empty.
LEMMA GetEventsScans ==
  ASSUME TypeOK, TypeOK', Grows, Scanned, NEW w \in Polls, GetEvents(w)
  PROVE  Scanned'
<1>1. w \in Workers
  BY DEF Workers
<1>2. UNCHANGED <<cursor, height, event, shape, creds>>
  BY DEF GetEvents, storeVars, ledgerVars, issueVars
<1>3. CASE job' = [job EXCEPT ![w] = Idle]
  BY <1>1, <1>2, <1>3, IdleIsJob, FreshScans DEF Idle
<1>4. ASSUME NEW some, Answer(w, some)
      PROVE  Scanned'
  <2> DEFINE r == Answered(w, some)
  <2>1. /\ Moves(w, r) /\ r.from = 0 /\ r.latest = Newer(w) /\ Newer(w) <= height
        /\ r.queue = some
    BY <1>1, <1>4, AnswerMoves
  <2> HIDE DEF r
  <2>2. job'[w] = r
    BY <1>1, <2>1, MoveTypes
  <2>3. /\ height \in 0..MaxHeight /\ MaxHeight \in Nat
        /\ job[w] \in Jobs /\ job[w].from \in Nat /\ Newer(w) \in Nat
    BY <1>1, IssuanceAssumption DEF TypeOK, Jobs, Newer
  <2>4. dropped \subseteq dropped' /\ EventsFrom(w) \ some \subseteq dropped'
    BY <1>4 DEF Answer
  <2>5. ASSUME NEW l \in Ledgers, l <= Newer(w)
        PROVE  Settled(l)' \/ l \in some
    <3>1. l \in 1..height
      BY <2>1, <2>3, <2>5 DEF Ledgers
    <3>2. CASE event[l] = NoCourse
      BY <1>2, <3>2 DEF Settled, Legible
    <3>3. CASE event[l] # NoCourse /\ l >= job[w].from
      <4>1. l \in EventsFrom(w)
        BY <3>1, <3>3 DEF EventsFrom
      <4> QED
        BY <2>4, <4>1 DEF Settled
    <3>4. CASE ~(l >= job[w].from)
      <4>1. l <= job[w].from
        BY <2>3, <3>1, <3>4
      <4>2. Settled(l)
        BY <1>1, <4>1 DEF Scanned, Covered
      <4> QED
        BY <1>2, <2>4, <4>2 DEF Settled, Legible
    <3> QED
      BY <3>2, <3>3, <3>4
  <2>6. \A l \in Ledgers : ~(l <= 0)
    BY DEF Ledgers
  <2>7. (Covered(job[w]))'
    BY <1>2, <2>1, <2>2, <2>3, <2>5, <2>6 DEF Covered
  <2> QED
    BY <1>1, <1>2, <2>1, <2>7, MoveScans
<1> QED
  BY <1>3, <1>4 DEF GetEvents

\* An event leaves the queue for the hands of the poll, or is none the handler
\* reads, or is let go.
LEMMA HandleScans ==
  ASSUME TypeOK, TypeOK', Grows, Scanned, NEW w \in Polls, Handle(w)
  PROVE  Scanned'
<1>1. w \in Workers /\ job[w] \in Jobs
  BY DEF Workers, TypeOK
<1>2. /\ UNCHANGED <<cursor, height, event, shape, creds>>
      /\ job[w].at = "handle"
  BY <1>1, HandleCases DEF storeVars, ledgerVars, issueVars
<1>3. ASSUME NEW l \in job[w].queue, CallIssue(w, Calling(w, l))
      PROVE  Scanned'
  <2> DEFINE r == [Calling(w, l) EXCEPT !.at = "check"]
  <2>1. l \in Ledgers /\ Taken(w, l) \in Jobs /\ Calling(w, l) \in Jobs
    BY <1>1, <1>2, HandleMoves
  <2>2. Moves(w, r)
    BY <1>1, <1>3, <2>1, CallMoves
  <2>3. /\ Taken(w, l).from = job[w].from /\ Taken(w, l).latest = job[w].latest
        /\ Taken(w, l).queue = job[w].queue \ {l}
    BY <1>1 DEF Taken, Jobs
  <2>4. /\ Calling(w, l).from = job[w].from /\ Calling(w, l).latest = job[w].latest
        /\ Calling(w, l).queue = job[w].queue \ {l}
        /\ Calling(w, l).course = event[l] /\ Calling(w, l).ledger = l
    BY <2>1, <2>3 DEF Calling, Jobs
  <2>5. /\ r.from = job[w].from /\ r.latest = job[w].latest
        /\ r.queue = job[w].queue \ {l} /\ r.at = "check"
        /\ r.course = event[l] /\ r.ledger = l
    BY <2>1, <2>4 DEF Jobs
  <2> HIDE DEF r
  <2>6. job'[w] = r
    BY <1>1, <2>2, MoveTypes
  <2>7. ASSUME NEW m \in Ledgers, m \in job[w].queue \/ Handling(job[w], m)
        PROVE  m \in job'[w].queue \/ (Handling(job[w], m))'
    BY <1>2, <2>5, <2>6, <2>7 DEF Handling, IssuePlaces
  <2>8. (Covered(job[w]))'
    BY <1>1, <2>5, <2>6, <2>7, CoveredOn
  <2> QED
    BY <1>1, <1>2, <2>2, <2>8, MoveScans
<1>4. ASSUME NEW l \in job[w].queue, job' = [job EXCEPT ![w] = Taken(w, l)],
             ~Legible(l) \/ l \in dropped'
      PROVE  Scanned'
  <2>1. Taken(w, l) \in Jobs
    BY <1>1, <1>2, HandleMoves
  <2>2. Moves(w, Taken(w, l))
    BY <1>4, <2>1 DEF Moves
  <2>3. job'[w] = Taken(w, l)
    BY <1>1, <2>2, MoveTypes
  <2>4. /\ job'[w].from = job[w].from /\ job'[w].latest = job[w].latest
        /\ job'[w].queue = job[w].queue \ {l}
    BY <1>1, <2>3 DEF Taken, Jobs
  <2>5. Settled(l)'
    BY <1>2, <1>4 DEF Settled, Legible
  <2>6. ASSUME NEW m \in Ledgers, m \in job[w].queue \/ Handling(job[w], m)
        PROVE  Settled(m)' \/ m \in job'[w].queue
    BY <1>2, <2>4, <2>5, <2>6 DEF Handling, IssuePlaces
  <2>7. (Covered(job[w]))'
    BY <1>1, <2>4, <2>6, CoveredOn
  <2> QED
    BY <1>1, <1>2, <2>2, <2>7, MoveScans
<1> QED
  BY <1>1, <1>3, <1>4, HandleCases

\* A poll whose queue is empty has settled what its cursor passes.
LEMMA EndPollScans ==
  ASSUME TypeOK, TypeOK', Grows, Scanned, NEW w \in Polls, EndPoll(w)
  PROVE  Scanned'
<1>1. w \in Workers /\ job[w] \in Jobs
  BY DEF Workers, TypeOK
<1>2. /\ UNCHANGED <<height, event, shape, creds, dropped>>
      /\ job' = [job EXCEPT ![w] = Idle]
      /\ job[w].at = "handle" /\ job[w].queue = {}
      /\ cursor' = CursorAfter(w) \/ UNCHANGED cursor
  BY DEF EndPoll, ledgerVars, issueVars, historyVars
<1>3. CASE UNCHANGED cursor
  BY <1>1, <1>2, <1>3, IdleIsJob, FreshScans DEF Idle
<1>4. CASE cursor' = job[w].latest
  <2>1. \A v \in Workers : (Covered(job[v]))'
    <3>1. Moves(w, Idle)
      BY <1>2, IdleIsJob DEF Moves
    <3>2. (Covered(job[w]))'
      <4>1. job'[w] = Idle
        BY <1>1, <3>1, MoveTypes
      <4> QED
        BY <1>1, <4>1, CoveredFresh DEF Idle
    <3>3. ASSUME NEW v \in Workers \ {w}
          PROVE  (Covered(job[v]))'
      <4>1. job'[v] = job[v]
        BY <1>1, <3>1, MoveTypes
      <4> QED
        BY <4>1, CoveredStays
    <3> QED
      BY <3>2, <3>3
  <2>2. /\ job[w].latest <= height
        /\ \A l \in Ledgers : l <= job[w].latest => Settled(l)
    BY <1>1, <1>2 DEF Scanned, Covered, Handling, IssuePlaces
  <2>3. cursor' <= height' /\ NothingSkipped'
    BY <1>2, <1>4, <2>2 DEF NothingSkipped, Settled, Legible
  <2> QED
    BY <2>1, <2>3 DEF Scanned
<1> QED
  BY <1>2, <1>3, <1>4 DEF CursorAfter

\* A step that leaves every worker where it is or sends them all home.
LEMMA OthersScan ==
  ASSUME TypeOK, TypeOK', Grows, Scanned,
         job' = job \/ job' = [w \in Workers |-> Idle],
         cursor' \in {cursor, 0}
  PROVE  Scanned'
<1>1. \A w \in Workers : (Covered(job[w]))'
  <2>1. CASE job' = job
    BY <2>1, CoveredStays
  <2>2. CASE job' = [w \in Workers |-> Idle]
    <3> SUFFICES ASSUME NEW w \in Workers
                 PROVE  (Covered(job[w]))'
      OBVIOUS
    <3>1. job'[w] = Idle
      BY <2>2
    <3> QED
      BY <3>1, CoveredFresh DEF Idle
  <2> QED
    BY <2>1, <2>2
<1>2. /\ height \in Nat /\ height' \in Nat /\ cursor \in Nat
      /\ cursor <= height /\ height <= height'
      /\ \A l \in Ledgers : l <= cursor => Settled(l)
  BY IssuanceAssumption DEF TypeOK, Scanned, NothingSkipped, Grows
<1>3. cursor' <= height'
  BY <1>2
<1>4. ASSUME NEW l \in Ledgers, l <= cursor'
      PROVE  Settled(l)'
  <2>1. l <= cursor /\ l <= height
    BY <1>2, <1>4 DEF Ledgers
  <2> QED
    BY <1>2, <2>1, SettledStays
<1> QED
  BY <1>1, <1>3, <1>4 DEF Scanned, NothingSkipped

LEMMA ScannedInit == Init => Scanned
<1> SUFFICES ASSUME Init PROVE Scanned
  OBVIOUS
<1>1. \A l \in Ledgers : ~(l <= 0)
  BY DEF Ledgers
<1> QED
  BY <1>1 DEF Init, Scanned, NothingSkipped, Covered, Idle

LEMMA ScannedStep == TypeOK /\ TypeOK' /\ Scanned /\ [Next]_vars => Scanned'
<1> SUFFICES ASSUME TypeOK, TypeOK', Scanned, [Next]_vars PROVE Scanned'
  OBVIOUS
<1>0. Grows
  BY NextGrows
<1>1. CASE \E w \in Requests, c \in Courses : BeginIssue(w, c) \/ Record(w, c)
  BY <1>0, <1>1, RequestScans DEF Record
<1>2. CASE \E w \in Workers : Issue(w)
  BY <1>0, <1>2, IssueScans
<1>3. CASE \E w \in Polls : BeginPoll(w) \/ GetEvents(w) \/ Handle(w) \/ EndPoll(w)
  BY <1>0, <1>3, BeginPollScans, GetEventsScans, HandleScans, EndPollScans
<1>4. CASE \/ Close \/ Crash \/ SubmitKyc \/ UNCHANGED vars
           \/ \E s \in KycStatuses \ {"none"} : KycWebhook(s)
           \/ \E c \in Courses : MintDirect(c)
  <2>1. job' = job \/ job' = [w \in Workers |-> Idle]
    BY <1>4 DEF Close, Crash, SubmitKyc, KycWebhook, MintDirect, vars
  <2>2. cursor' \in {cursor, 0}
    BY <1>4 DEF Close, Crash, SubmitKyc, KycWebhook, MintDirect, vars, storeVars
  <2> QED
    BY <1>0, <2>1, <2>2, OthersScan
<1> QED
  BY <1>1, <1>2, <1>3, <1>4 DEF Next

\* The cursor never passes an event that the handler reads, whose credential is
\* not on record, and that was not let go (left out of an answer, of a user not
\* on record, or with a handler that threw): for any number of polls that
\* overlap in any way, either shape of the events, any ledger, and any sequence
\* of restarts, lost cursors and failed calls.
THEOREM CursorSkipsNothing == Spec => []NothingSkipped
<1>1. CInv => TypeOK
  BY DEF CInv
<1>2. Scanned => NothingSkipped
  BY DEF Scanned
<1> QED
  BY <1>1, <1>2, CInvAlways, ScannedInit, ScannedStep, PTL DEF Spec

-----------------------------------------------------------------------------
(* The contract of the repository.                                         *)

NoPollIssues == \A w \in Polls : job[w].at \notin IssuePlaces

LEMMA PollsOnlyPass ==
  ASSUME "fields" \notin Shapes
  PROVE  TypeOK /\ NoPollIssues /\ [Next]_vars => NoPollIssues'
<1> SUFFICES ASSUME TypeOK, NoPollIssues, [Next]_vars
             PROVE  NoPollIssues'
  OBVIOUS
<1>1. \A l \in Ledgers : ~Legible(l)
  BY DEF Legible, TypeOK
<1>2. CASE job' = job \/ job' = [w \in Workers |-> Idle]
  BY <1>2 DEF NoPollIssues, Idle, IssuePlaces, Workers
<1>3. ASSUME NEW w \in Requests, NEW r, job' = [job EXCEPT ![w] = r]
      PROVE  NoPollIssues'
  BY <1>3, IssuanceAssumption DEF NoPollIssues, TypeOK
<1>4. ASSUME NEW w \in Polls, NEW r, job' = [job EXCEPT ![w] = r],
             r.at \in {"idle", "events", "handle"}
      PROVE  NoPollIssues'
  BY <1>4 DEF NoPollIssues, TypeOK, IssuePlaces, Workers
<1>5. CASE \E w \in Requests, c \in Courses : BeginIssue(w, c) \/ Record(w, c)
  BY <1>3, <1>5 DEF BeginIssue, Record, CallIssue
<1>6. ASSUME NEW w \in Workers, Issue(w)
      PROVE  NoPollIssues'
  <2>1. w \in Requests
    BY <1>6 DEF Issue, Check, Gate, Mint, Save, NoPollIssues, IssuePlaces, Workers
  <2>2. \E r : job' = [job EXCEPT ![w] = r]
    <3>1. ASSUME NEW p, GoTo(w, p)
          PROVE  job' = [job EXCEPT ![w] = [job[w] EXCEPT !.at = p]]
      BY <3>1 DEF GoTo
    <3>2. CASE Return(w) \/ Throw(w)
      BY <3>2 DEF Return, Throw, LeaveIssue
    <3> QED
      BY <1>6, <3>1, <3>2 DEF Issue, Check, Gate, Mint, Save
  <2> QED
    BY <1>3, <2>1, <2>2
<1>7. ASSUME NEW w \in Polls, BeginPoll(w) \/ GetEvents(w) \/ EndPoll(w)
      PROVE  NoPollIssues'
  <2>1. /\ Idle.at = "idle" /\ [Idle EXCEPT !.at = "events", !.from = cursor].at = "events"
        /\ \A some : [Idle EXCEPT !.at = "handle", !.latest = Newer(w),
                                  !.queue = some].at = "handle"
    BY DEF Idle
  <2> QED
    BY <1>4, <1>7, <2>1 DEF BeginPoll, GetEvents, Answer, EndPoll
<1>8. ASSUME NEW w \in Polls, Handle(w)
      PROVE  NoPollIssues'
  <2>1. w \in Workers /\ job[w].at = "handle"
    BY <1>8 DEF Workers, Handle
  <2>2. PICK l \in job[w].queue :
          Legible(l) \/ job' = [job EXCEPT ![w] = Taken(w, l)]
    BY <1>8, <2>1, HandleCases
  <2>3. l \in Ledgers /\ Taken(w, l).at = "handle"
    BY <2>1, HandleMoves
  <2> QED
    BY <1>1, <1>4, <2>2, <2>3
<1> QED
  BY <1>2, <1>5, <1>6, <1>7, <1>8
  DEF Next, Close, Crash, SubmitKyc, KycWebhook, MintDirect, vars

\* With the contract of the repository, whose events are tuples, no poll ever
\* calls issue: no credential is issued for a completion that is recorded on the
\* ledger, only for requests.
THEOREM TuplesIssueNothing ==
  ASSUME "fields" \notin Shapes
  PROVE  Spec => []NoPollIssues
<1>1. CInv => TypeOK
  BY DEF CInv
<1>2. Init => NoPollIssues
  BY DEF Init, NoPollIssues, Idle, IssuePlaces, Workers
<1> QED
  BY <1>1, <1>2, CInvAlways, PollsOnlyPass, PTL DEF Spec
=============================================================================
