------------------------- MODULE CredentialIssuance -------------------------
(***************************************************************************)
(* How a completed course becomes a credential: issue of                   *)
(* apps/backend/src/credentials/credentials.service.ts, its callers        *)
(* progress.service.ts (record) and stellar/stellar-indexer.service.ts     *)
(* (poll), issueCredential of stellar/stellar.service.ts, which also has   *)
(* callers that go round issue, and the status of kyc/kyc.service.ts.      *)
(*                                                                         *)
(* An await after which modelled state is read or written is a step of its *)
(* own, so calls of issue overlap: two requests, two polls of the interval *)
(* timer, or a request and a poll.  No table has a unique constraint.      *)
(*                                                                         *)
(* The contract the indexer listens to is configuration.  Its handler      *)
(* reads fields named student and course; the contract in the repository   *)
(* (contracts/analytics) publishes a tuple, which the handler passes over. *)
(* That contract also refuses every record_progress of the backend, which  *)
(* has an argument too few: completions are recorded by others.            *)
(*                                                                         *)
(* One student; what is kept of another has another key.  Left out:        *)
(* rewards, notifications, progress rows, token transfer events, changes   *)
(* of courses.  Submitting to the KYC provider is one step, its last: what *)
(* is saved there is constant.                                             *)
(***************************************************************************)
EXTENDS Integers, FiniteSets

CONSTANTS
  Requests,    \* HTTP requests under way at once
  Polls,       \* polls under way at once
  Courses,
  Gated,       \* the courses with requiresKyc
  Shapes,      \* of what a contract publishes of a completion: "fields", "tuple"
  MaxHeight,   \* bound on ledgers
  MaxRare,     \* bound on what is rare: failed calls of the database, the
               \* cache and the ledger, answers without some of the events,
               \* events of users not on record, transactions that go round
               \* issue, restarts of the process
  NoCourse

Workers == Requests \cup Polls
Ledgers == 1..MaxHeight

ASSUME IssuanceAssumption ==
  /\ IsFiniteSet(Workers) /\ Requests \cap Polls = {}
  /\ Gated \subseteq Courses /\ NoCourse \notin Courses
  /\ Shapes \subseteq {"fields", "tuple"}
  /\ MaxHeight \in Nat /\ MaxRare \in Nat

\* No customer row; a row with status approved; a row with another status,
\* pending or rejected, which nothing tells apart.
KycStatuses == {"none", "approved", "open"}

\* The await a worker is at, in issue or in poll.
IssuePlaces == {"check", "gate", "mint", "save"}
Places == {"idle", "events", "handle"} \cup IssuePlaces
Jobs == [at : Places, course : Courses \cup {NoCourse},
         ledger : 0..MaxHeight,   \* whose event is handled, or 0
         from : 0..MaxHeight,     \* lastLedger, until the events are there
         latest : 0..MaxHeight,   \* latestLedger if it is newer, or 0
         queue : SUBSET Ledgers]  \* the ledgers whose events are to be handled

Idle == [at |-> "idle", course |-> NoCourse, ledger |-> 0, from |-> 0,
         latest |-> 0, queue |-> {}]

VARIABLES
  height,    \* the last ledger
  event,     \* the course whose completion a ledger records, or NoCourse
  shape,     \* of the events of the contract the indexer listens to
  cursor,    \* LAST_LEDGER_KEY in the cache; 0 when it is missing
  kyc,       \* status of the student's kyc_customers row
  minted,    \* credential transactions on the ledger, per course
  creds,     \* rows of the credentials table, per course
  job,       \* what each worker is doing
  direct,    \* history: the transactions that went round issue, per course
  cleared,   \* history: the workers in a call of issue during which, at some
             \* time, KYC was approved
  dropped,   \* history: the ledgers with an event let go: an answer left it
             \* out, its user was not on record, or its handler threw
  rare       \* rare things so far

ledgerVars == <<height, event, shape>>
storeVars == <<cursor, kyc>>
issueVars == <<minted, creds, direct>>
historyVars == <<cleared, dropped>>
vars == <<ledgerVars, storeVars, issueVars, job, historyVars, rare>>

Init ==
  /\ height = 0
  /\ event = [l \in Ledgers |-> NoCourse]
  /\ shape \in Shapes
  /\ cursor = 0
  /\ kyc = "none"
  /\ minted = [c \in Courses |-> 0]
  /\ creds = [c \in Courses |-> 0]
  /\ job = [w \in Workers |-> Idle]
  /\ direct = [c \in Courses |-> 0]
  /\ cleared = {} /\ dropped = {}
  /\ rare = 0

-----------------------------------------------------------------------------
Rarely == rare < MaxRare /\ rare' = rare + 1

GoTo(w, place) == job' = [job EXCEPT ![w].at = place]

IsApproved == kyc = "approved"

\* w calls issue for the job j; its first await is the search for a credential.
CallIssue(w, j) ==
  /\ job' = [job EXCEPT ![w] = [j EXCEPT !.at = "check"]]
  /\ cleared' = IF IsApproved THEN cleared \cup {w} ELSE cleared \ {w}

\* issue is over: the response is sent, or the poll takes the next event.
AfterIssue(w) ==
  IF w \in Requests THEN Idle
  ELSE [job[w] EXCEPT !.at = "handle", !.course = NoCourse, !.ledger = 0]

LeaveIssue(w) ==
  job' = [job EXCEPT ![w] = AfterIssue(w)] /\ cleared' = cleared \ {w}

Return(w) == LeaveIssue(w) /\ UNCHANGED dropped

\* issue throws; the loop of poll catches, and never returns to the event.
Throw(w) ==
  /\ LeaveIssue(w)
  /\ dropped' = IF w \in Polls THEN dropped \cup {job[w].ledger} ELSE dropped

-----------------------------------------------------------------------------
(* The callers that are requests.                                          *)

\* POST credentials/issue.
BeginIssue(w, c) ==
  /\ job[w].at = "idle"
  /\ CallIssue(w, [Idle EXCEPT !.course = c])
  /\ UNCHANGED <<ledgerVars, storeVars, issueVars, dropped, rare>>

\* POST v1/progress with 100 per cent.  recordProgress fails on the ledger, which
\* record tolerates; when the row is saved, it calls issue.  Until then, and when
\* the row cannot be saved, nothing happens to what is modelled.
Record(w, c) == BeginIssue(w, c)

\* The admin's POST stellar/mint and POST stellar/credentials/issue, and the
\* certificate of a completed enrolment: issueCredential with no search for a
\* credential, no gate and no row.
MintDirect(c) ==
  /\ Rarely
  /\ minted' = [minted EXCEPT ![c] = @ + 1]
  /\ direct' = [direct EXCEPT ![c] = @ + 1]
  /\ UNCHANGED <<ledgerVars, storeVars, creds, job, historyVars>>

-----------------------------------------------------------------------------
(* issue.                                                                  *)

\* Only a course that requires it has the gate.
AfterCheck(w) == IF job[w].course \in Gated THEN "gate" ELSE "mint"

\* Mutant: no credential is looked for.
CheckNothing(w) ==
  /\ job[w].at = "check"
  /\ GoTo(w, AfterCheck(w))
  /\ UNCHANGED <<ledgerVars, storeVars, issueVars, historyVars, rare>>

\* An existing credential is returned.  Otherwise the course is looked up, which
\* reads nothing that changes here; it may not exist.
Check(w) ==
  /\ job[w].at = "check"
  /\ \/ creds[job[w].course] > 0 /\ Return(w) /\ UNCHANGED rare
     \/ /\ creds[job[w].course] = 0 /\ GoTo(w, AfterCheck(w))
        /\ UNCHANGED <<historyVars, rare>>
     \/ Rarely /\ Throw(w)
  /\ UNCHANGED <<ledgerVars, storeVars, issueVars>>

Gate(w) ==
  /\ job[w].at = "gate"
  /\ \/ IsApproved /\ GoTo(w, "mint") /\ UNCHANGED <<historyVars, rare>>
     \/ ~IsApproved /\ Throw(w) /\ UNCHANGED rare
     \/ Rarely /\ Throw(w)
  /\ UNCHANGED <<ledgerVars, storeVars, issueVars>>

\* Mutant: a failed transaction is tolerated, like a failed reward.
MintTolerant(w) ==
  LET more == [minted EXCEPT ![job[w].course] = @ + 1]
  IN /\ job[w].at = "mint"
     /\ GoTo(w, "save")
     /\ \/ minted' = more /\ UNCHANGED rare
        \/ Rarely /\ minted' \in {minted, more}
     /\ UNCHANGED <<ledgerVars, storeVars, creds, direct, historyVars>>

\* issueCredential: an error may come after the transaction was applied.  The
\* entry that issueCredentialFallback writes before it is not counted.
Mint(w) ==
  LET more == [minted EXCEPT ![job[w].course] = @ + 1]
  IN /\ job[w].at = "mint"
     /\ \/ minted' = more /\ GoTo(w, "save") /\ UNCHANGED <<historyVars, rare>>
        \/ Rarely /\ Throw(w) /\ minted' \in {minted, more}
     /\ UNCHANGED <<ledgerVars, storeVars, creds, direct>>

\* The credential's row is inserted, whatever is there by now.
Save(w) ==
  LET more == [creds EXCEPT ![job[w].course] = @ + 1]
  IN /\ job[w].at = "save"
     /\ \/ creds' = more /\ Return(w) /\ UNCHANGED rare
        \/ Rarely /\ Throw(w) /\ creds' \in {creds, more}
     /\ UNCHANGED <<ledgerVars, storeVars, minted, direct>>

Issue(w) == Check(w) \/ Gate(w) \/ Mint(w) \/ Save(w)

-----------------------------------------------------------------------------
(* poll.                                                                   *)

\* The interval fires, whatever polls are under way, and the cursor is read.
BeginPoll(w) ==
  /\ job[w].at = "idle"
  /\ job' = [job EXCEPT ![w] = [Idle EXCEPT !.at = "events", !.from = cursor]]
  /\ UNCHANGED <<ledgerVars, storeVars, issueVars, historyVars, rare>>

\* What the code asks for; without a cursor, for whatever there is.
EventsFrom(w) == {l \in 1..height : event[l] # NoCourse /\ l >= job[w].from}

\* What the cursor will be set to, if at all.
Newer(w) == IF height > job[w].from THEN height ELSE 0

\* An answer with the events of some of the ledgers asked for.
Answer(w, some) ==
  /\ some \subseteq EventsFrom(w)
  /\ job' = [job EXCEPT ![w] = [Idle EXCEPT !.at = "handle",
                                !.latest = Newer(w), !.queue = some]]
  /\ dropped' = dropped \cup (EventsFrom(w) \ some)

\* Mutant: the cursor moves before the events are handled.
GetEventsMoving(w) ==
  /\ job[w].at = "events"
  /\ \/ /\ Answer(w, EventsFrom(w)) /\ UNCHANGED rare
        /\ cursor' = IF Newer(w) > 0 THEN Newer(w) ELSE cursor
     \/ Rarely /\ job' = [job EXCEPT ![w] = Idle] /\ UNCHANGED <<cursor, dropped>>
  /\ UNCHANGED <<ledgerVars, kyc, issueVars, cleared>>

\* getEvents answers with all events asked for, or with those that fit a page
\* or that the node has kept (only one page is read); or the node refuses.
GetEvents(w) ==
  /\ job[w].at = "events"
  /\ \/ Answer(w, EventsFrom(w)) /\ UNCHANGED rare
     \/ Rarely /\ \E some \in SUBSET EventsFrom(w) : Answer(w, some)
     \/ Rarely /\ job' = [job EXCEPT ![w] = Idle] /\ UNCHANGED dropped
  /\ UNCHANGED <<ledgerVars, storeVars, issueVars, cleared>>

\* The ledger has an event with the fields the handler reads; the others, and
\* those with another topic, it leaves alone.
Legible(l) == event[l] # NoCourse /\ shape = "fields"

\* handleEvent of the next event, up to issue.  It returns when the value has
\* not the fields, and when no user with the key is on record, which may be so
\* at any time: keys are linked and replaced.  Or the look at the users fails.
Handle(w) ==
  \E l \in job[w].queue :
    LET taken == [job[w] EXCEPT !.queue = @ \ {l}]
        pass == job' = [job EXCEPT ![w] = taken] /\ UNCHANGED cleared
        letGo == pass /\ dropped' = dropped \cup {l}
    IN /\ job[w].at = "handle" /\ \A m \in job[w].queue : l <= m
       /\ \/ ~Legible(l) /\ pass /\ UNCHANGED <<dropped, rare>>
          \/ /\ Legible(l)
             /\ CallIssue(w, [taken EXCEPT !.course = event[l], !.ledger = l])
             /\ UNCHANGED <<dropped, rare>>
          \/ Legible(l) /\ Rarely /\ letGo
       /\ UNCHANGED <<ledgerVars, storeVars, issueVars>>

\* The cursor moves when the answer was newer than the cursor read.
CursorAfter(w) == IF job[w].latest > 0 THEN job[w].latest ELSE cursor

EndPoll(w) ==
  /\ job[w].at = "handle" /\ job[w].queue = {}
  /\ job' = [job EXCEPT ![w] = Idle]
  /\ \/ cursor' = CursorAfter(w) /\ UNCHANGED rare
     \/ Rarely /\ UNCHANGED cursor
  /\ UNCHANGED <<ledgerVars, kyc, issueVars, historyVars>>

-----------------------------------------------------------------------------
(* What happens around them.                                               *)

\* record_progress with 100 per cent in the next ledger, called by the student,
\* the admin or an authorised caller.
Emit(c) == event' = [event EXCEPT ![height + 1] = c]

\* A ledger closes, with a completion or without.
Close ==
  /\ height < MaxHeight /\ height' = height + 1
  /\ (\E c \in Courses : Emit(c)) \/ UNCHANGED event
  /\ UNCHANGED <<shape, storeVars, issueVars, job, historyVars, rare>>

\* upsertCustomer and uploadDocument: pending, whatever the status was.
SubmitKyc ==
  /\ kyc' = "open"
  /\ UNCHANGED <<ledgerVars, cursor, issueVars, job, historyVars, rare>>

\* handleWebhook, for a customer on record.
KycWebhook(status) ==
  /\ kyc # "none"
  /\ kyc' = status
  /\ cleared' = IF status = "approved"
                THEN cleared \cup {w \in Workers : job[w].at \in IssuePlaces}
                ELSE cleared
  /\ UNCHANGED <<ledgerVars, cursor, issueVars, job, dropped, rare>>

\* The process restarts; the cache may or may not be that of a Redis server.
Crash ==
  /\ Rarely
  /\ job' = [w \in Workers |-> Idle]
  /\ cursor' \in {cursor, 0}
  /\ cleared' = {}
  /\ UNCHANGED <<ledgerVars, kyc, issueVars, dropped>>

Next ==
  \/ \E w \in Requests, c \in Courses : BeginIssue(w, c) \/ Record(w, c)
  \/ \E c \in Courses : MintDirect(c)
  \/ \E w \in Workers : Issue(w)
  \/ \E w \in Polls : BeginPoll(w) \/ GetEvents(w) \/ Handle(w) \/ EndPoll(w)
  \/ Close \/ Crash
  \/ SubmitKyc
  \/ \E s \in KycStatuses \ {"none"} : KycWebhook(s)

\* The timer goes on firing whether or not an earlier poll has ended: some poll
\* goes on, though another may hang in an await for ever.
Fairness ==
  WF_vars(\E w \in Polls : BeginPoll(w) \/ GetEvents(w) \/ Handle(w)
                            \/ EndPoll(w) \/ Issue(w))

Spec == Init /\ [][Next]_vars
FairSpec == Spec /\ Fairness

-----------------------------------------------------------------------------
TypeOK ==
  /\ height \in 0..MaxHeight
  /\ event \in [Ledgers -> Courses \cup {NoCourse}]
  /\ shape \in Shapes
  /\ cursor \in 0..MaxHeight
  /\ kyc \in KycStatuses
  /\ minted \in [Courses -> Nat]
  /\ creds \in [Courses -> Nat]
  /\ direct \in [Courses -> Nat]
  /\ job \in [Workers -> Jobs]
  /\ cleared \subseteq Workers
  /\ dropped \subseteq 0..MaxHeight
  /\ rare \in 0..MaxRare

\* Calls of issue that found no credential and have not inserted one.
Issuing(c) == {w \in Workers : /\ job[w].course = c
                               /\ job[w].at \in {"gate", "mint", "save"}}

\* Duplicates come from overlap alone.  A credential that is on record stops
\* every call of issue that begins later, however often events are delivered
\* again after restarts, lost cursors and failed calls: rows and calls that may
\* still insert one never outnumber the calls under way at once.
DuplicatesOverlap ==
  \A c \in Courses : creds[c] + Cardinality(Issuing(c)) <= Cardinality(Workers)

\* Calls of issue whose transaction was applied and whose row is not there.
Unsaved(c) == {w \in Workers : job[w].course = c /\ job[w].at = "save"}

\* Every row of issue stands for a transaction of its own, none of them one that
\* went round issue; and a call of issue that gets past the gate of a course
\* that requires KYC does so on an approval that held at some time since the
\* call began, not on one withdrawn before.  The callers that go round issue
\* have no gate: of their transactions this says nothing.
CredentialsBacked ==
  /\ \A c \in Courses :
       creds[c] + Cardinality(Unsaved(c)) + direct[c] <= minted[c]
  /\ \A w \in Workers :
       job[w].at \in {"mint", "save"} /\ job[w].course \in Gated => w \in cleared

\* The event of a ledger needs no further poll: there is none that the handler
\* reads, its credential is on record, or it was let go.
Settled(l) == Legible(l) => creds[event[l]] > 0 \/ l \in dropped

\* The cursor never passes an event that still has to be handled, whichever of
\* the overlapping polls moves it, however old the cursor is that the poll has
\* read, and whatever was recorded while it was under way: what a restart
\* interrupts is asked for again.  It does pass what the handler cannot read,
\* and what was let go: by an answer without it, by the silent return for an
\* unknown user, by an error.
NothingSkipped == \A l \in Ledgers : l <= cursor => Settled(l)

\* A completion the handler can read is not lost between the ledger and the
\* credentials by restarts, a lost or set back cursor, or overlapping polls:
\* its credential is issued unless that very event was let go.
EventsAreIssued == []<>(\A l \in Ledgers : Settled(l))

\* credentials.service.ts:25: "Avoid duplicate credentials".
NoDuplicateCredential == \A c \in Courses : creds[c] <= 1
=============================================================================
