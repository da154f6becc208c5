----------------------- MODULE WebhookDeliveryProofs -----------------------
(***************************************************************************)
(* Proofs about WebhookDelivery for any number of events, webhooks,        *)
(* overlapping calls and attempts.                                         *)
(***************************************************************************)
EXTENDS WebhookDelivery, TLAPS

\* A copy of a delivery counts no more attempts than were made.
CopiesBehind ==
  \A c \in Callers : \A copy \in queue[c] : copy.attempts <= sent[copy.delivery]

\* An attempt under way counts no more attempts than were made, and one that
\* was answered with success was accepted.
RequestsBehind ==
  \A c \in Callers : request[c] # NoRequest =>
    /\ request[c].attempts <= sent[request[c].delivery]
    /\ request[c].outcome = "2xx" => request[c].delivery \in accepted

\* A delivery that waits for another attempt has one left.
PendingHasAttempt ==
  \A d \in Deliveries : status[d] = "pending" => attempts[d] < MaxAttempts

WInv ==
  /\ TypeOK
  /\ GivenUpLate
  /\ SuccessWasAccepted
  /\ CopiesBehind
  /\ RequestsBehind
  /\ PendingHasAttempt

LEMMA WInvInit == Init => WInv
BY WebhookAssumption, SMT
DEF Init, WInv, TypeOK, GivenUpLate, SuccessWasAccepted, CopiesBehind,
    RequestsBehind, PendingHasAttempt, HookStates, Statuses

\* Steps that touch neither records nor calls.
LEMMA AsideKeeps ==
  ASSUME WInv, TypeOK', UNCHANGED <<record, calls, history>>
  PROVE  WInv'
BY DEF WInv, GivenUpLate, SuccessWasAccepted, CopiesBehind, RequestsBehind,
       PendingHasAttempt, record, calls, history

LEMMA DeliverKeeps ==
  ASSUME WInv, NEW c \in Callers, NEW copy \in queue[c], Deliver(c, copy)
  PROVE  WInv'
<1>1. copy \in Copies
  BY DEF WInv, TypeOK
<1>2. copy.attempts + 1 \in 1..MaxAttempts /\ copy.delivery \in Deliveries
  BY <1>1, WebhookAssumption, SMT DEF Copies
<1> DEFINE new == [delivery |-> copy.delivery, attempts |-> copy.attempts + 1,
                   outcome |-> "waiting"]
<1>3. new \in Requests
  BY <1>2 DEF Requests, Outcomes
<1>4. /\ queue' \in [Callers -> SUBSET Copies]
      /\ \A b \in Callers : queue'[b] \subseteq queue[b]
  BY DEF Deliver, WInv, TypeOK
<1>5. /\ request' \in [Callers -> Requests \cup {NoRequest}]
      /\ request'[c] = new
      /\ \A b \in Callers \ {c} : request'[b] = request[b]
  <2> HIDE DEF new
  <2>1. request' = [request EXCEPT ![c] = new]
    BY DEF Deliver, new
  <2> QED BY <1>3, <2>1 DEF WInv, TypeOK
<1>6. /\ sent' \in [Deliveries -> Nat]
      /\ sent'[copy.delivery] = sent[copy.delivery] + 1
      /\ \A d \in Deliveries : sent[d] <= sent'[d]
  BY <1>2, SMT DEF Deliver, WInv, TypeOK
<1>7. UNCHANGED <<hook, published, toSave, status, attempts, nextRetry, accepted,
                  faults>>
  BY DEF Deliver, record
<1>8. TypeOK'
  BY <1>4, <1>5, <1>6, <1>7 DEF WInv, TypeOK
<1>9. GivenUpLate'
  BY <1>6, <1>7, WebhookAssumption, SMT DEF WInv, TypeOK, GivenUpLate
<1>10. SuccessWasAccepted' /\ PendingHasAttempt'
  BY <1>7 DEF WInv, SuccessWasAccepted, PendingHasAttempt
<1>11. CopiesBehind'
  <2> SUFFICES ASSUME NEW b \in Callers, NEW x \in queue'[b]
               PROVE  x.attempts <= sent'[x.delivery]
    BY DEF CopiesBehind
  <2>1. x \in queue[b] /\ x \in Copies
    BY <1>4
  <2>2. x.attempts <= sent[x.delivery] /\ x.delivery \in Deliveries
        /\ x.attempts \in Int
    BY <2>1, WebhookAssumption, SMT DEF WInv, CopiesBehind, Copies
  <2> QED BY <1>6, <2>2, SMT DEF WInv, TypeOK
<1>12. RequestsBehind'
  <2> SUFFICES ASSUME NEW b \in Callers, request'[b] # NoRequest
               PROVE  /\ request'[b].attempts <= sent'[request'[b].delivery]
                      /\ request'[b].outcome = "2xx"
                           => request'[b].delivery \in accepted'
    BY DEF RequestsBehind
  <2>1. CASE b = c
    <3>1. request'[b].attempts = copy.attempts + 1
          /\ request'[b].delivery = copy.delivery /\ request'[b].outcome = "waiting"
      BY <1>5, <2>1
    <3>2. copy.attempts <= sent[copy.delivery]
      BY DEF WInv, CopiesBehind
    <3> QED BY <1>1, <1>2, <1>6, <3>1, <3>2, SMT DEF Copies, WInv, TypeOK
  <2>2. CASE b # c
    <3>1. request'[b] = request[b] /\ request[b] \in Requests
      BY <1>5, <2>2
    <3>2. /\ request[b].attempts <= sent[request[b].delivery]
          /\ request[b].outcome = "2xx" => request[b].delivery \in accepted
          /\ request[b].delivery \in Deliveries /\ request[b].attempts \in Int
      BY <3>1, WebhookAssumption, SMT DEF WInv, RequestsBehind, Requests
    <3> QED BY <1>6, <1>7, <3>1, <3>2, SMT DEF WInv, TypeOK
  <2> QED BY <2>1, <2>2
<1> QED BY <1>8, <1>9, <1>10, <1>11, <1>12 DEF WInv

\* A call that ends early leaves every copy and request it does not hold.
LEMMA DropKeeps ==
  ASSUME WInv, TypeOK',
         \A c \in Callers : queue'[c] \subseteq queue[c],
         \A c \in Callers : request'[c] \in {request[c], NoRequest},
         UNCHANGED <<record, history>>
  PROVE  WInv'
<1>1. UNCHANGED <<status, attempts, nextRetry, sent, accepted>>
  BY DEF record, history
<1>2. GivenUpLate' /\ SuccessWasAccepted' /\ PendingHasAttempt'
  BY <1>1 DEF WInv, GivenUpLate, SuccessWasAccepted, PendingHasAttempt
<1>3. CopiesBehind'
  BY <1>1 DEF WInv, CopiesBehind
<1>4. RequestsBehind'
  BY <1>1 DEF WInv, RequestsBehind
<1> QED BY <1>2, <1>3, <1>4 DEF WInv

LEMMA SaveDeliveryKeeps ==
  ASSUME WInv, NEW d \in Deliveries, SaveDelivery(d)
  PROVE  WInv'
<1> DEFINE first == [delivery |-> d, attempts |-> 0]
<1>1. first \in Copies
  BY WebhookAssumption, SMT DEF Copies
<1>2. /\ queue' \in [Callers -> SUBSET Copies]
      /\ queue'[d] = {first}
      /\ \A b \in Callers \ {d} : queue'[b] = queue[b]
  <2>1. queue' = [queue EXCEPT ![d] = {first}] /\ d \in Callers
    BY DEF SaveDelivery, Callers
  <2> HIDE DEF first
  <2> QED BY <1>1, <2>1 DEF WInv, TypeOK
<1>3. /\ status' = [status EXCEPT ![d] = "pending"]
      /\ attempts' = [attempts EXCEPT ![d] = 0]
      /\ nextRetry' = [nextRetry EXCEPT ![d] = "null"]
      /\ toSave' = toSave \ {d}
      /\ UNCHANGED <<hook, published, request, sent, accepted, faults>>
  BY DEF SaveDelivery, history
<1>4. TypeOK'
  BY <1>2, <1>3, WebhookAssumption, SMT DEF WInv, TypeOK, Statuses
<1>5. GivenUpLate' /\ SuccessWasAccepted' /\ PendingHasAttempt'
  BY <1>3, WebhookAssumption, SMT
  DEF WInv, TypeOK, GivenUpLate, SuccessWasAccepted, PendingHasAttempt
<1>6. CopiesBehind'
  <2> SUFFICES ASSUME NEW b \in Callers, NEW x \in queue'[b]
               PROVE  x.attempts <= sent[x.delivery]
    BY <1>3 DEF CopiesBehind
  <2>1. CASE b = d
    BY <1>2, <2>1, SMT DEF WInv, TypeOK
  <2>2. CASE b # d
    BY <1>2, <2>2 DEF WInv, CopiesBehind
  <2> QED BY <2>1, <2>2
<1>7. RequestsBehind'
  BY <1>3 DEF WInv, RequestsBehind
<1> QED BY <1>4, <1>5, <1>6, <1>7 DEF WInv

\* The copies that retryPending loads count what the records count.
LEMMA RetryPendingKeeps ==
  ASSUME WInv, NEW r \in Runs, RetryPending(r)
  PROVE  WInv'
<1> DEFINE due == {d \in Deliveries : Due(d)}
           Load(batch) == {[delivery |-> d, attempts |-> attempts[d]] : d \in batch}
<1>1. PICK batch \in SUBSET due : queue' = [queue EXCEPT ![r] = Load(batch)]
  BY DEF RetryPending
<1>2. UNCHANGED <<hook, published, toSave, record, request, history, faults>>
  BY DEF RetryPending
<1>3. ASSUME NEW d \in batch
      PROVE  /\ [delivery |-> d, attempts |-> attempts[d]] \in Copies
             /\ attempts[d] <= sent[d]
  <2>1. d \in Deliveries /\ status[d] = "pending"
    BY DEF Due
  <2>2. attempts[d] < MaxAttempts /\ attempts[d] \in 0..MaxAttempts
    BY <2>1 DEF WInv, PendingHasAttempt, TypeOK
  <2>3. attempts[d] \in 0..(MaxAttempts - 1)
    BY <2>2, WebhookAssumption, SMT
  <2> QED BY <2>1, <2>3 DEF Copies, WInv, GivenUpLate
<1>4. Load(batch) \in SUBSET Copies
  BY <1>3
<1>5. \A x \in Load(batch) : x.attempts <= sent[x.delivery]
  BY <1>3
<1> HIDE DEF Load
<1>6. /\ queue' \in [Callers -> SUBSET Copies]
      /\ queue'[r] = Load(batch)
      /\ \A b \in Callers \ {r} : queue'[b] = queue[b]
  BY <1>1, <1>4 DEF WInv, TypeOK, Callers
<1>7. TypeOK'
  BY <1>2, <1>6 DEF WInv, TypeOK, record, history
<1>8. GivenUpLate' /\ SuccessWasAccepted' /\ PendingHasAttempt' /\ RequestsBehind'
  BY <1>2 DEF WInv, GivenUpLate, SuccessWasAccepted, PendingHasAttempt,
              RequestsBehind, record, history
<1>9. CopiesBehind'
  BY <1>2, <1>5, <1>6 DEF WInv, CopiesBehind, history
<1> QED BY <1>7, <1>8, <1>9 DEF WInv

LEMMA AnswerKeeps ==
  ASSUME WInv, NEW c \in Callers, NEW outcome \in Outcomes \ {"waiting"},
         NEW arrived \in BOOLEAN, Answer(c, outcome, arrived)
  PROVE  WInv'
<1> DEFINE new == [request[c] EXCEPT !.outcome = outcome]
<1>1. request[c] \in Requests /\ request[c] # NoRequest
  BY DEF Answer, WInv, TypeOK
<1>2. /\ new \in Requests
      /\ new.attempts = request[c].attempts
      /\ new.delivery = request[c].delivery
      /\ new.outcome = outcome
  BY <1>1 DEF Requests
<1>3. /\ request' \in [Callers -> Requests \cup {NoRequest}]
      /\ request'[c] = new
      /\ \A b \in Callers \ {c} : request'[b] = request[b]
  <2>1. request' = [request EXCEPT ![c] = new]
    BY DEF Answer
  <2> HIDE DEF new
  <2> QED BY <1>2, <2>1 DEF WInv, TypeOK
<1>4. /\ accepted \subseteq accepted'
      /\ accepted' \subseteq Deliveries
      /\ outcome = "2xx" => request[c].delivery \in accepted'
  BY <1>1 DEF Answer, Requests, WInv, TypeOK
<1>5. UNCHANGED <<hook, published, toSave, status, attempts, nextRetry, queue,
                  sent, faults>>
  BY DEF Answer, record
<1>6. TypeOK'
  BY <1>3, <1>4, <1>5 DEF WInv, TypeOK
<1>7. GivenUpLate' /\ SuccessWasAccepted' /\ PendingHasAttempt' /\ CopiesBehind'
  BY <1>4, <1>5 DEF WInv, GivenUpLate, SuccessWasAccepted, PendingHasAttempt,
                    CopiesBehind
<1>8. RequestsBehind'
  <2> HIDE DEF new
  <2> SUFFICES ASSUME NEW b \in Callers, request'[b] # NoRequest
               PROVE  /\ request'[b].attempts <= sent[request'[b].delivery]
                      /\ request'[b].outcome = "2xx"
                           => request'[b].delivery \in accepted'
    BY <1>5 DEF RequestsBehind
  <2>1. CASE b = c
    BY <1>1, <1>2, <1>3, <1>4, <2>1 DEF WInv, RequestsBehind
  <2>2. CASE b # c
    BY <1>3, <1>4, <2>2 DEF WInv, RequestsBehind
  <2> QED BY <2>1, <2>2
<1> QED BY <1>6, <1>7, <1>8 DEF WInv

\* The record takes over a count that is no higher than the attempts made and
\* is given up only at the limit.
LEMMA SaveKeeps ==
  ASSUME WInv, NEW c \in Callers, Save(c)
  PROVE  WInv'
<1> DEFINE r == request[c]
           d == request[c].delivery
<1>1. r \in Requests /\ r # NoRequest
  BY DEF Save, WInv, TypeOK
<1>2. /\ d \in Deliveries
      /\ r.attempts \in 1..MaxAttempts
      /\ r.attempts <= sent[d]
      /\ r.outcome = "2xx" => d \in accepted
  BY <1>1 DEF Requests, WInv, RequestsBehind
<1>3. /\ attempts' = [attempts EXCEPT ![d] = r.attempts]
      /\ request' = [request EXCEPT ![c] = NoRequest]
      /\ UNCHANGED <<hook, published, toSave, queue, sent, accepted, faults>>
  BY DEF Save, history
<1>4. nextRetry' \in [Deliveries -> {"null", "later", "due"}]
  BY DEF Save, WInv, TypeOK
<1>5. PICK new \in {"pending", "success", "failed"} :
        /\ status' = [status EXCEPT ![d] = new]
        /\ new = "success" => r.outcome = "2xx"
        /\ new = "pending" => ~(r.attempts >= MaxAttempts)
        /\ new = "failed" => r.attempts >= MaxAttempts
  BY DEF Save, Succeeded, LastAttempt
<1>6. TypeOK'
  <2>1. status' \in [Deliveries -> Statuses]
    BY <1>5 DEF WInv, TypeOK, Statuses
  <2>2. attempts' \in [Deliveries -> 0..MaxAttempts]
    BY <1>2, <1>3, WebhookAssumption, SMT DEF WInv, TypeOK
  <2>3. request' \in [Callers -> Requests \cup {NoRequest}]
    BY <1>3 DEF WInv, TypeOK
  <2> QED BY <1>3, <1>4, <2>1, <2>2, <2>3 DEF WInv, TypeOK
<1> HIDE DEF r, d
<1>7. GivenUpLate'
  <2> SUFFICES ASSUME NEW x \in Deliveries
               PROVE  /\ attempts'[x] <= sent[x]
                      /\ status'[x] = "failed" => sent[x] >= MaxAttempts
    BY <1>3 DEF GivenUpLate
  <2>1. CASE x = d
    <3>1. attempts'[x] = r.attempts /\ status'[x] = new
      BY <1>3, <1>5, <2>1 DEF WInv, TypeOK
    <3>2. sent[x] \in Nat /\ MaxAttempts \in Nat /\ r.attempts \in Int
      BY <1>2, WebhookAssumption, SMT DEF WInv, TypeOK
    <3> QED BY <1>2, <1>5, <2>1, <3>1, <3>2, SMT
  <2>2. CASE x # d
    BY <1>3, <1>5, <2>2 DEF WInv, TypeOK, GivenUpLate
  <2> QED BY <2>1, <2>2
<1>8. SuccessWasAccepted'
  BY <1>2, <1>3, <1>5 DEF WInv, TypeOK, SuccessWasAccepted
<1>9. PendingHasAttempt'
  <2> SUFFICES ASSUME NEW x \in Deliveries, status'[x] = "pending"
               PROVE  attempts'[x] < MaxAttempts
    BY DEF PendingHasAttempt
  <2>1. CASE x = d
    <3>1. attempts'[x] = r.attempts /\ new = "pending"
      BY <1>3, <1>5, <2>1 DEF WInv, TypeOK
    <3> QED BY <1>2, <1>5, <3>1, WebhookAssumption, SMT
  <2>2. CASE x # d
    BY <1>3, <1>5, <2>2 DEF WInv, TypeOK, PendingHasAttempt
  <2> QED BY <2>1, <2>2
<1>10. CopiesBehind' /\ RequestsBehind'
  BY <1>3 DEF WInv, TypeOK, CopiesBehind, RequestsBehind
<1> QED BY <1>6, <1>7, <1>8, <1>9, <1>10 DEF WInv

LEMMA WInvNext == WInv /\ [Next]_vars => WInv'
<1> SUFFICES ASSUME WInv, [Next]_vars
             PROVE  WInv'
  OBVIOUS
<1>1. ASSUME NEW h \in Webhooks,
             Register(h) \/ Deactivate(h) \/ Activate(h) \/ Delete(h)
      PROVE  WInv'
  <2>1. PICK from \in SUBSET HookStates, to \in HookStates : SetHook(h, from, to)
    BY <1>1 DEF Register, Deactivate, Activate, Delete, HookStates
  <2>2. TypeOK'
    BY <2>1 DEF SetHook, WInv, TypeOK, record, calls, history
  <2> QED BY <2>1, <2>2, AsideKeeps DEF SetHook
<1>2. ASSUME NEW e \in Events, Publish(e)
      PROVE  WInv'
  <2>1. TypeOK'
    BY <1>2 DEF Publish, WInv, TypeOK, Deliveries, record, calls, history
  <2> QED BY <1>2, <2>1, AsideKeeps DEF Publish
<1>3. ASSUME NEW d \in Deliveries, SaveDelivery(d)
      PROVE  WInv'
  BY <1>3, SaveDeliveryKeeps
<1>4. ASSUME NEW d \in Deliveries, FirstAttempt(d)
      PROVE  WInv'
  <2>1. d \in Callers
    BY DEF Callers
  <2> QED BY <1>4, <2>1, DeliverKeeps DEF FirstAttempt
<1>5. ASSUME NEW r \in Runs, RetryPending(r)
      PROVE  WInv'
  BY <1>5, RetryPendingKeeps
<1>6. ASSUME NEW r \in Runs, Retry(r)
      PROVE  WInv'
  <2>1. r \in Callers
    BY DEF Callers
  <2> QED BY <1>6, <2>1, DeliverKeeps DEF Retry
<1>7. ASSUME NEW r \in Runs, Skip(r)
      PROVE  WInv'
  <2>1. \A b \in Callers : queue'[b] \subseteq queue[b]
    BY <1>7 DEF Skip, WInv, TypeOK
  <2>2. TypeOK'
    BY <1>7 DEF Skip, WInv, TypeOK, record, history
  <2> QED BY <1>7, <2>1, <2>2, DropKeeps DEF Skip
<1>8. ASSUME NEW c \in Callers, NEW outcome \in Outcomes \ {"waiting"},
             NEW arrived \in BOOLEAN, Answer(c, outcome, arrived)
      PROVE  WInv'
  BY <1>8, AnswerKeeps
<1>9. ASSUME NEW c \in Callers, Save(c)
      PROVE  WInv'
  BY <1>9, SaveKeeps
<1>10. ASSUME NEW d \in Deliveries, BecomeDue(d)
       PROVE  WInv'
  <2>1. UNCHANGED <<hook, published, toSave, status, attempts, queue, request,
                    sent, accepted, faults>>
    BY <1>10 DEF BecomeDue, calls, history
  <2>2. TypeOK'
    BY <1>10, <2>1 DEF BecomeDue, WInv, TypeOK
  <2> QED BY <2>1, <2>2 DEF WInv, GivenUpLate, SuccessWasAccepted, CopiesBehind,
                            RequestsBehind, PendingHasAttempt
<1>11. ASSUME NEW c \in Callers, CallFails(c)
       PROVE  WInv'
  <2>1. /\ \A b \in Callers : queue'[b] \subseteq queue[b]
        /\ \A b \in Callers : request'[b] \in {request[b], NoRequest}
    BY <1>11 DEF CallFails, WInv, TypeOK
  <2>2. faults' \in 0..MaxFaults
    BY <1>11, WebhookAssumption, SMT DEF CallFails, WInv, TypeOK
  <2>3. TypeOK'
    BY <1>11, <2>2 DEF CallFails, WInv, TypeOK, record, history
  <2> QED BY <1>11, <2>1, <2>3, DropKeeps DEF CallFails
<1>12. ASSUME NEW e \in Events, PublishFails(e)
       PROVE  WInv'
  <2>1. faults' \in 0..MaxFaults
    BY <1>12, WebhookAssumption, SMT DEF PublishFails, WInv, TypeOK
  <2>2. TypeOK'
    BY <1>12, <2>1 DEF PublishFails, WInv, TypeOK, record, calls, history
  <2> QED BY <1>12, <2>2, AsideKeeps DEF PublishFails
<1>13. CASE Crash
  <2>1. /\ \A b \in Callers : queue'[b] \subseteq queue[b]
        /\ \A b \in Callers : request'[b] \in {request[b], NoRequest}
    BY <1>13 DEF Crash
  <2>2. faults' \in 0..MaxFaults
    BY <1>13, WebhookAssumption, SMT DEF Crash, WInv, TypeOK
  <2>3. TypeOK'
    BY <1>13, <2>2 DEF Crash, WInv, TypeOK, record, history
  <2> QED BY <1>13, <2>1, <2>3, DropKeeps DEF Crash
<1>14. CASE UNCHANGED vars
  <2>1. TypeOK'
    BY <1>14 DEF vars, WInv, TypeOK
  <2> QED BY <1>14, <2>1, AsideKeeps DEF vars, record, calls, history
<1> QED
  BY <1>1, <1>2, <1>3, <1>4, <1>5, <1>6, <1>7, <1>8, <1>9, <1>10, <1>11, <1>12,
     <1>13, <1>14 DEF Next

\* The types, the counts and the successes of webhook deliveries, as one
\* invariant of the specification.
THEOREM DeliveryInvariant == Spec => []WInv
BY WInvInit, WInvNext, PTL DEF Spec

\* Delivery records and the copies that calls hold keep their types; in
\* particular no copy ever counts more than MAX_ATTEMPTS attempts.
THEOREM DeliveryTypes == Spec => []TypeOK
<1>1. WInv => TypeOK
  BY DEF WInv
<1> QED BY <1>1, DeliveryInvariant, PTL

\* No delivery is given up before MAX_ATTEMPTS requests were made, however
\* many calls of retryPending overlap, fail or are cut off by a crash.
THEOREM NeverGivenUpEarly == Spec => []GivenUpLate
<1>1. WInv => GivenUpLate
  BY DEF WInv
<1> QED BY <1>1, DeliveryInvariant, PTL

\* A recorded success was accepted by the endpoint.
THEOREM SuccessIsReal == Spec => []SuccessWasAccepted
<1>1. WInv => SuccessWasAccepted
  BY DEF WInv
<1> QED BY <1>1, DeliveryInvariant, PTL
-----------------------------------------------------------------------------
(* What is finished stays finished.  A delivery is saved once, for an event  *)
(* that was published, and only saved deliveries have copies and attempts;   *)
(* so a finished record can be written only by a call that has one of them.  *)

Saved(d) == status[d] # "unsaved"

SavedOnce ==
  /\ \A d \in Deliveries : Saved(d) => d[1] \in published /\ d \notin toSave
  /\ \A d \in toSave : d[1] \in published
  /\ \A c \in Callers :
       /\ \A copy \in queue[c] : Saved(copy.delivery)
       /\ request[c] # NoRequest => Saved(request[c].delivery)

LEMMA SavedOnceInit == Init => SavedOnce
BY DEF Init, SavedOnce, Saved

\* Steps that save nothing, and take no copy or attempt that is not saved.
LEMMA SavedOnceQuiet ==
  ASSUME SavedOnce, TypeOK, published' = published, toSave' \subseteq toSave,
         \A d \in Deliveries : Saved(d)' <=> Saved(d),
         \A c \in Callers : \A copy \in queue'[c] :
           Saved(copy.delivery) /\ copy.delivery \in Deliveries,
         \A c \in Callers : request'[c] # NoRequest =>
           Saved(request'[c].delivery) /\ request'[c].delivery \in Deliveries
  PROVE  SavedOnce'
BY DEF SavedOnce, Saved, TypeOK

\* What the copies and attempts are of.
LEMMA HeldDeliveries ==
  ASSUME TypeOK, NEW c \in Callers
  PROVE  /\ \A copy \in queue[c] : copy.delivery \in Deliveries
         /\ request[c] # NoRequest => request[c].delivery \in Deliveries
<1>1. queue[c] \subseteq Copies /\ request[c] \in Requests \cup {NoRequest}
  BY DEF TypeOK
<1> QED
  BY <1>1 DEF Copies, Requests

LEMMA SavedOnceNext == WInv /\ SavedOnce /\ [Next]_vars => SavedOnce'
<1> SUFFICES ASSUME WInv, SavedOnce, [Next]_vars
             PROVE  SavedOnce'
  OBVIOUS
<1>0. /\ TypeOK
      /\ \A c \in Callers :
           /\ \A copy \in queue[c] :
                Saved(copy.delivery) /\ copy.delivery \in Deliveries
           /\ request[c] # NoRequest =>
                Saved(request[c].delivery) /\ request[c].delivery \in Deliveries
  BY HeldDeliveries DEF WInv, SavedOnce
<1>a. ASSUME UNCHANGED <<published, status>>, toSave' \subseteq toSave,
             \A c \in Callers : queue'[c] \subseteq queue[c],
             \A c \in Callers : request'[c] \in {request[c], NoRequest}
      PROVE  SavedOnce'
  <2>1. \A d \in Deliveries : Saved(d)' <=> Saved(d)
    BY <1>a DEF Saved
  <2> QED
    BY <1>0, <1>a, <2>1, SavedOnceQuiet
<1>b. ASSUME NEW c \in Callers, NEW copy \in queue[c], Deliver(c, copy)
      PROVE  SavedOnce'
  <2>1. /\ UNCHANGED <<published, toSave, status>>
        /\ \A x \in Callers : queue'[x] \subseteq queue[x]
    BY <1>0, <1>b DEF Deliver, TypeOK, record
  <2>2. \A x \in Callers : x # c => request'[x] = request[x]
    BY <1>0, <1>b DEF Deliver, TypeOK
  <2>3. request'[c].delivery = copy.delivery
    BY <1>0, <1>b DEF Deliver, TypeOK
  <2>4. \A x \in Callers : request'[x] # NoRequest =>
          Saved(request'[x].delivery) /\ request'[x].delivery \in Deliveries
    BY <1>0, <2>2, <2>3
  <2>5. \A d \in Deliveries : Saved(d)' <=> Saved(d)
    BY <2>1 DEF Saved
  <2> QED
    BY <1>0, <2>1, <2>4, <2>5, SavedOnceQuiet
<1>1. ASSUME NEW h \in Webhooks,
             Register(h) \/ Deactivate(h) \/ Activate(h) \/ Delete(h)
      PROVE  SavedOnce'
  <2>1. UNCHANGED <<published, toSave, status, queue, request>>
    BY <1>1 DEF Register, Deactivate, Activate, Delete, SetHook, record, calls
  <2> QED
    BY <1>a, <2>1
<1>2. ASSUME NEW e \in Events, Publish(e)
      PROVE  SavedOnce'
  <2>1. /\ e \notin published
        /\ published' = published \cup {e}
        /\ \A d \in toSave' : d \in toSave \/ d[1] = e
        /\ UNCHANGED <<status, queue, request>>
    BY <1>2 DEF Publish, record, calls
  <2>2. \A d \in Deliveries : Saved(d)' => d[1] \in published' /\ d \notin toSave'
    BY <2>1 DEF SavedOnce, Saved
  <2>3. \A d \in toSave' : d[1] \in published'
    BY <2>1 DEF SavedOnce
  <2> QED
    BY <2>1, <2>2, <2>3 DEF SavedOnce, Saved
<1>3. ASSUME NEW d \in Deliveries, SaveDelivery(d)
      PROVE  SavedOnce'
  <2>1. /\ d \in toSave
        /\ toSave' = toSave \ {d}
        /\ status' = [status EXCEPT ![d] = "pending"]
        /\ queue' = [queue EXCEPT ![d] = {[delivery |-> d, attempts |-> 0]}]
        /\ UNCHANGED <<published, request>>
    BY <1>3 DEF SaveDelivery
  <2>2. \A x \in Deliveries : Saved(x)' <=> x = d \/ Saved(x)
    BY <1>0, <2>1 DEF TypeOK, Saved
  <2>3. \A x \in Deliveries : Saved(x)' => x[1] \in published' /\ x \notin toSave'
    BY <2>1, <2>2 DEF SavedOnce
  <2>4. \A x \in toSave' : x[1] \in published'
    BY <2>1 DEF SavedOnce
  <2>5. \A c \in Callers : \A copy \in queue'[c] :
          copy \in queue[c] \/ copy.delivery = d
    BY <1>0, <2>1 DEF TypeOK
  <2>6. \A c \in Callers : \A copy \in queue'[c] : Saved(copy.delivery)'
    BY <1>0, <2>2, <2>5
  <2>7. \A c \in Callers : request'[c] # NoRequest =>
          status'[request'[c].delivery] # "unsaved"
    BY <1>0, <2>1, <2>2 DEF Saved
  <2> QED
    BY <2>3, <2>4, <2>6, <2>7 DEF SavedOnce, Saved
<1>4. ASSUME NEW d \in Deliveries, FirstAttempt(d)
      PROVE  SavedOnce'
  <2>1. d \in Callers
    BY DEF Callers
  <2> QED
    BY <1>4, <1>b, <2>1 DEF FirstAttempt
<1>5. ASSUME NEW r \in Runs, RetryPending(r)
      PROVE  SavedOnce'
  <2>1. PICK batch \in SUBSET {d \in Deliveries : Due(d)} :
          queue' = [queue EXCEPT
            ![r] = {[delivery |-> d, attempts |-> attempts[d]] : d \in batch}]
    BY <1>5 DEF RetryPending
  <2>2. UNCHANGED <<published, toSave, status, request>>
    BY <1>5 DEF RetryPending, record
  <2>3. \A c \in Callers : \A copy \in queue'[c] :
          copy \in queue[c] \/ copy.delivery \in batch
    BY <1>0, <2>1 DEF TypeOK
  <2>4. \A d \in batch : d \in Deliveries /\ Saved(d)
    BY DEF Due, Saved
  <2>5. \A c \in Callers : \A copy \in queue'[c] :
          Saved(copy.delivery) /\ copy.delivery \in Deliveries
    BY <1>0, <2>3, <2>4
  <2>6. \A d \in Deliveries : Saved(d)' <=> Saved(d)
    BY <2>2 DEF Saved
  <2> QED
    BY <1>0, <2>2, <2>5, <2>6, SavedOnceQuiet
<1>6. ASSUME NEW r \in Runs, Retry(r)
      PROVE  SavedOnce'
  <2>1. r \in Callers
    BY DEF Callers
  <2> QED
    BY <1>6, <1>b, <2>1 DEF Retry
<1>7. ASSUME NEW r \in Runs, Skip(r)
      PROVE  SavedOnce'
  <2>1. \A b \in Callers : queue'[b] \subseteq queue[b]
    BY <1>0, <1>7 DEF Skip, TypeOK
  <2>2. UNCHANGED <<published, toSave, status, request>>
    BY <1>7 DEF Skip, record
  <2> QED
    BY <1>a, <2>1, <2>2
<1>8. ASSUME NEW c \in Callers, NEW outcome \in Outcomes \ {"waiting"},
             NEW arrived \in BOOLEAN, Answer(c, outcome, arrived)
      PROVE  SavedOnce'
  <2>1. /\ request[c] # NoRequest
        /\ request' = [request EXCEPT ![c].outcome = outcome]
        /\ UNCHANGED <<published, toSave, status, queue>>
    BY <1>8 DEF Answer, record
  <2>2. request[c] \in Requests
    BY <1>0, <2>1 DEF TypeOK
  <2>3. request'[c].delivery = request[c].delivery
    BY <1>0, <2>1, <2>2 DEF TypeOK, Requests
  <2>4. \A b \in Callers : b # c => request'[b] = request[b]
    BY <1>0, <2>1 DEF TypeOK
  <2>5. \A b \in Callers : request'[b] # NoRequest =>
          Saved(request'[b].delivery) /\ request'[b].delivery \in Deliveries
    BY <1>0, <2>1, <2>3, <2>4
  <2>6. \A d \in Deliveries : Saved(d)' <=> Saved(d)
    BY <2>1 DEF Saved
  <2> QED
    BY <1>0, <2>1, <2>5, <2>6, SavedOnceQuiet
<1>9. ASSUME NEW c \in Callers, Save(c)
      PROVE  SavedOnce'
  <2> DEFINE d == request[c].delivery
  <2>1. /\ request[c] # NoRequest
        /\ request' = [request EXCEPT ![c] = NoRequest]
        /\ \E s \in {"pending", "success", "failed"} :
             status' = [status EXCEPT ![d] = s]
        /\ UNCHANGED <<published, toSave, queue>>
    BY <1>9 DEF Save
  <2>2. d \in Deliveries /\ Saved(d)
    BY <1>0, <2>1
  <2> HIDE DEF d
  <2>3. \A x \in Deliveries : Saved(x)' <=> Saved(x)
    BY <1>0, <2>1, <2>2 DEF TypeOK, Saved
  <2>4. \A b \in Callers : request'[b] \in {request[b], NoRequest}
    BY <1>0, <2>1 DEF TypeOK
  <2> QED
    BY <1>0, <2>1, <2>3, <2>4, SavedOnceQuiet
<1>10. ASSUME NEW d \in Deliveries, BecomeDue(d)
       PROVE  SavedOnce'
  <2>1. UNCHANGED <<published, toSave, status, queue, request>>
    BY <1>10 DEF BecomeDue, calls
  <2> QED
    BY <1>a, <2>1
<1>11. ASSUME NEW c \in Callers, CallFails(c)
       PROVE  SavedOnce'
  <2>1. /\ \A b \in Callers : queue'[b] \subseteq queue[b]
        /\ \A b \in Callers : request'[b] \in {request[b], NoRequest}
        /\ UNCHANGED <<published, toSave, status>>
    BY <1>0, <1>11 DEF CallFails, TypeOK, record
  <2> QED
    BY <1>a, <2>1
<1>12. ASSUME NEW e \in Events, PublishFails(e)
       PROVE  SavedOnce'
  <2>1. toSave' \subseteq toSave /\ UNCHANGED <<published, status, queue, request>>
    BY <1>12 DEF PublishFails, record, calls
  <2> QED
    BY <1>a, <2>1
<1>13. CASE Crash
  <2>1. /\ toSave' \subseteq toSave
        /\ \A b \in Callers : queue'[b] \subseteq queue[b]
        /\ \A b \in Callers : request'[b] \in {request[b], NoRequest}
        /\ UNCHANGED <<published, status>>
    BY <1>13 DEF Crash, record
  <2> QED
    BY <1>a, <2>1
<1>14. CASE UNCHANGED vars
  BY <1>14, <1>a DEF vars
<1> QED
  BY <1>1, <1>2, <1>3, <1>4, <1>5, <1>6, <1>7, <1>8, <1>9, <1>10, <1>11, <1>12,
     <1>13, <1>14 DEF Next

LEMMA SavingInvariant == Spec => [](WInv /\ SavedOnce)
BY WInvInit, WInvNext, SavedOnceInit, SavedOnceNext, PTL DEF Spec

\* The record of a delivery stays what it is, and no request is made for it.
Untouched(d) ==
  /\ Closed(d)'
  /\ status'[d] = status[d] /\ attempts'[d] = attempts[d]
  /\ sent'[d] = sent[d]

\* A finished delivery that no call holds is not touched: it is not due, it
\* is not saved again, and no copy or attempt of it is left to save.
LEMMA ClosedStep ==
  ASSUME WInv, SavedOnce, [Next]_vars, NEW d \in Deliveries, Closed(d)
  PROVE  Untouched(d)
<1>0. /\ TypeOK /\ d \notin toSave
      /\ status[d] \in {"success", "failed"} /\ ~Due(d)
      /\ \A c \in Callers :
           /\ \A copy \in queue[c] : copy.delivery # d
           /\ request[c] # NoRequest => request[c].delivery # d
  BY DEF WInv, SavedOnce, Saved, Closed, Due
<1>a. ASSUME status'[d] = status[d], attempts'[d] = attempts[d], sent'[d] = sent[d],
             \A c \in Callers : \A copy \in queue'[c] : copy.delivery # d,
             \A c \in Callers : request'[c] # NoRequest => request'[c].delivery # d
      PROVE  Untouched(d)
  BY <1>0, <1>a DEF Closed, Untouched
<1>b. ASSUME status' = status, attempts' = attempts, sent' = sent,
             \A c \in Callers : queue'[c] \subseteq queue[c],
             \A c \in Callers : request'[c] \in {request[c], NoRequest}
      PROVE  Untouched(d)
  BY <1>0, <1>a, <1>b
<1>c. ASSUME NEW c \in Callers, NEW copy \in queue[c], Deliver(c, copy)
      PROVE  Untouched(d)
  <2>1. /\ UNCHANGED <<status, attempts>>
        /\ \A x \in Callers : queue'[x] \subseteq queue[x]
        /\ sent' = [sent EXCEPT ![copy.delivery] = @ + 1]
    BY <1>0, <1>c DEF Deliver, TypeOK, record
  <2>2. copy.delivery # d
    BY <1>0
  <2>3. \A x \in Callers : request'[x] # NoRequest => request'[x].delivery # d
    <3>1. request'[c].delivery = copy.delivery
      BY <1>0, <1>c DEF Deliver, TypeOK
    <3>2. \A x \in Callers : x # c => request'[x] = request[x]
      BY <1>0, <1>c DEF Deliver, TypeOK
    <3> QED
      BY <1>0, <2>2, <3>1, <3>2
  <2>4. sent'[d] = sent[d]
    BY <1>0, <2>1, <2>2 DEF TypeOK
  <2> QED
    BY <1>0, <1>a, <2>1, <2>3, <2>4
<1>1. ASSUME NEW h \in Webhooks,
             Register(h) \/ Deactivate(h) \/ Activate(h) \/ Delete(h)
      PROVE  Untouched(d)
  <2>1. UNCHANGED <<status, attempts, sent, queue, request>>
    BY <1>1 DEF Register, Deactivate, Activate, Delete, SetHook, record, calls, history
  <2> QED
    BY <1>b, <2>1
<1>2. ASSUME NEW e \in Events, Publish(e)
      PROVE  Untouched(d)
  <2>1. UNCHANGED <<status, attempts, sent, queue, request>>
    BY <1>2 DEF Publish, record, calls, history
  <2> QED
    BY <1>b, <2>1
<1>3. ASSUME NEW x \in Deliveries, SaveDelivery(x)
      PROVE  Untouched(d)
  <2>1. x \in toSave /\ x # d
    BY <1>0, <1>3 DEF SaveDelivery
  <2>2. /\ status' = [status EXCEPT ![x] = "pending"]
        /\ attempts' = [attempts EXCEPT ![x] = 0]
        /\ queue' = [queue EXCEPT ![x] = {[delivery |-> x, attempts |-> 0]}]
        /\ UNCHANGED <<request, sent>>
    BY <1>3 DEF SaveDelivery, history
  <2>3. status'[d] = status[d] /\ attempts'[d] = attempts[d]
    BY <1>0, <2>1, <2>2 DEF TypeOK
  <2>4. \A c \in Callers : \A copy \in queue'[c] : copy.delivery # d
    BY <1>0, <2>1, <2>2 DEF TypeOK
  <2> QED
    BY <1>0, <1>a, <2>2, <2>3, <2>4
<1>4. ASSUME NEW x \in Deliveries, FirstAttempt(x)
      PROVE  Untouched(d)
  <2>1. x \in Callers
    BY DEF Callers
  <2> QED
    BY <1>4, <1>c, <2>1 DEF FirstAttempt
<1>5. ASSUME NEW r \in Runs, RetryPending(r)
      PROVE  Untouched(d)
  <2>1. PICK batch \in SUBSET {x \in Deliveries : Due(x)} :
          queue' = [queue EXCEPT
            ![r] = {[delivery |-> x, attempts |-> attempts[x]] : x \in batch}]
    BY <1>5 DEF RetryPending
  <2>2. UNCHANGED <<status, attempts, request, sent>>
    BY <1>5 DEF RetryPending, record, history
  <2>3. \A c \in Callers : \A copy \in queue'[c] :
          copy \in queue[c] \/ copy.delivery \in batch
    BY <1>0, <2>1 DEF TypeOK
  <2>4. d \notin batch
    BY <1>0
  <2>5. \A c \in Callers : \A copy \in queue'[c] : copy.delivery # d
    BY <1>0, <2>3, <2>4
  <2> QED
    BY <1>0, <1>a, <2>2, <2>5
<1>6. ASSUME NEW r \in Runs, Retry(r)
      PROVE  Untouched(d)
  <2>1. r \in Callers
    BY DEF Callers
  <2> QED
    BY <1>6, <1>c, <2>1 DEF Retry
<1>7. ASSUME NEW r \in Runs, Skip(r)
      PROVE  Untouched(d)
  <2>1. \A b \in Callers : queue'[b] \subseteq queue[b]
    BY <1>0, <1>7 DEF Skip, TypeOK
  <2>2. UNCHANGED <<status, attempts, sent, request>>
    BY <1>7 DEF Skip, record, history
  <2> QED
    BY <1>b, <2>1, <2>2
<1>8. ASSUME NEW c \in Callers, NEW outcome \in Outcomes \ {"waiting"},
             NEW arrived \in BOOLEAN, Answer(c, outcome, arrived)
      PROVE  Untouched(d)
  <2>1. /\ request[c] # NoRequest
        /\ request' = [request EXCEPT ![c].outcome = outcome]
        /\ UNCHANGED <<status, attempts, sent, queue>>
    BY <1>8 DEF Answer, record
  <2>2. request'[c].delivery = request[c].delivery
    BY <1>0, <2>1 DEF TypeOK, Requests
  <2>3. \A b \in Callers : b # c => request'[b] = request[b]
    BY <1>0, <2>1 DEF TypeOK
  <2>4. \A b \in Callers : request'[b] # NoRequest => request'[b].delivery # d
    BY <1>0, <2>1, <2>2, <2>3
  <2> QED
    BY <1>0, <1>a, <2>1, <2>4
<1>9. ASSUME NEW c \in Callers, Save(c)
      PROVE  Untouched(d)
  <2> DEFINE x == request[c].delivery
  <2>1. /\ request[c] # NoRequest
        /\ request' = [request EXCEPT ![c] = NoRequest]
        /\ \E s \in {"pending", "success", "failed"} :
             status' = [status EXCEPT ![x] = s]
        /\ \E n \in 1..MaxAttempts : attempts' = [attempts EXCEPT ![x] = n]
        /\ UNCHANGED <<sent, queue>>
    BY <1>0, <1>9 DEF Save, history, TypeOK, Requests
  <2>2. x # d
    BY <1>0, <2>1
  <2> HIDE DEF x
  <2>3. status'[d] = status[d] /\ attempts'[d] = attempts[d]
    BY <1>0, <2>1, <2>2 DEF TypeOK
  <2>4. \A b \in Callers : request'[b] \in {request[b], NoRequest}
    BY <1>0, <2>1 DEF TypeOK
  <2> QED
    BY <1>0, <1>a, <2>1, <2>3, <2>4
<1>10. ASSUME NEW x \in Deliveries, BecomeDue(x)
       PROVE  Untouched(d)
  <2>1. UNCHANGED <<status, attempts, sent, queue, request>>
    BY <1>10 DEF BecomeDue, calls, history
  <2> QED
    BY <1>b, <2>1
<1>11. ASSUME NEW c \in Callers, CallFails(c)
       PROVE  Untouched(d)
  <2>1. /\ \A b \in Callers : queue'[b] \subseteq queue[b]
        /\ \A b \in Callers : request'[b] \in {request[b], NoRequest}
        /\ UNCHANGED <<status, attempts, sent>>
    BY <1>0, <1>11 DEF CallFails, TypeOK, record, history
  <2> QED
    BY <1>b, <2>1
<1>12. ASSUME NEW e \in Events, PublishFails(e)
       PROVE  Untouched(d)
  <2>1. UNCHANGED <<status, attempts, sent, queue, request>>
    BY <1>12 DEF PublishFails, record, calls, history
  <2> QED
    BY <1>b, <2>1
<1>13. CASE Crash
  <2>1. /\ \A b \in Callers : queue'[b] \subseteq queue[b]
        /\ \A b \in Callers : request'[b] \in {request[b], NoRequest}
        /\ UNCHANGED <<status, attempts, sent>>
    BY <1>13 DEF Crash, record, history
  <2> QED
    BY <1>b, <2>1
<1>14. CASE UNCHANGED vars
  BY <1>14, <1>b DEF vars
<1> QED
  BY <1>1, <1>2, <1>3, <1>4, <1>5, <1>6, <1>7, <1>8, <1>9, <1>10, <1>11, <1>12,
     <1>13, <1>14 DEF Next

\* A finished delivery that no call holds stays finished as it is recorded and
\* is sent no more, for any number of events, webhooks and overlapping calls.
THEOREM FinishedForGood == Spec => ClosedStays
<1> DEFINE Stays == \A d \in Deliveries :
              Closed(d) => /\ Closed(d)'
                           /\ status'[d] = status[d] /\ attempts'[d] = attempts[d]
                           /\ sent'[d] = sent[d]
<1>1. WInv /\ SavedOnce /\ [Next]_vars => [Stays]_vars
  BY ClosedStep DEF Untouched
<1> QED
  BY <1>1, SavingInvariant, PTL DEF Spec, ClosedStays
=============================================================================
