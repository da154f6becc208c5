-------------------------- MODULE WebhookDelivery --------------------------
(***************************************************************************)
(* Delivery of events to registered webhooks:                              *)
(* apps/backend/src/webhooks/webhooks.service.ts.                          *)
(*                                                                         *)
(* publish saves one delivery per active webhook and starts its first      *)
(* attempt; every minute retryPending loads the deliveries that are due    *)
(* and attempts them one after the other.  Nothing keeps these calls       *)
(* apart: a first attempt and several calls of retryPending may hold       *)
(* copies of one delivery, and each overwrites the record with what        *)
(* became of its own copy.  A step ends where the code awaits the          *)
(* database or the endpoint, and there the process may also stop or the    *)
(* database call fail.                                                     *)
(*                                                                         *)
(* Left out: signatures, response bodies, the log query, and changes of a  *)
(* webhook's address or event list.  save is one step.                     *)
(***************************************************************************)
EXTENDS Integers, FiniteSets

CONSTANTS
  Events,       \* the events that are published, each once
  Webhooks,     \* the webhooks that are registered, each once
  Runs,         \* bound: calls of retryPending that overlap
  MaxAttempts,  \* MAX_ATTEMPTS
  Batch,        \* take, the deliveries loaded by one call of retryPending
  MaxFaults,    \* bound: crashes, failed database calls, endless requests
  NoRequest     \* the call waits for no answer and has none to record

Deliveries == Events \X Webhooks

\* The calls of deliver: the first attempt of each delivery, and the retries.
Callers == Deliveries \cup Runs

HookStates == {"none", "active", "inactive", "deleted"}
Statuses == {"unsaved", "pending", "success", "failed"}
Copies == [delivery : Deliveries, attempts : 0..(MaxAttempts - 1)]
Outcomes == {"waiting", "2xx", "other", "error"}
Requests ==
  [delivery : Deliveries, attempts : 1..MaxAttempts, outcome : Outcomes]

ASSUME WebhookAssumption ==
  /\ IsFiniteSet(Events) /\ IsFiniteSet(Webhooks)
  /\ Runs \cap Deliveries = {}
  /\ MaxAttempts \in Nat \ {0}
  /\ Batch \in Nat \ {0}
  /\ MaxFaults \in Nat
  /\ NoRequest \notin Requests

VARIABLES
  hook,       \* the state of each webhook
  published,  \* the events that were published
  toSave,     \* deliveries that publish has yet to save
  status,     \* DeliveryStatus of each delivery, "unsaved" before it exists
  attempts,   \* the attempts recorded
  nextRetry,  \* nextRetryAt: null, in the future or in the past; it is read
              \* of pending deliveries only
  queue,      \* copies of deliveries that a call holds and has yet to attempt
  request,    \* the attempt of each call
  sent,       \* history: requests made for each delivery
  accepted,   \* history: deliveries the endpoint accepted
  faults      \* crashes, failed calls and endless requests so far

record == <<status, attempts, nextRetry>>
calls  == <<queue, request>>
history == <<sent, accepted>>
vars == <<hook, published, toSave, status, attempts, nextRetry, queue, request,
          sent, accepted, faults>>

-----------------------------------------------------------------------------
Init ==
  /\ hook = [h \in Webhooks |-> "none"]
  /\ published = {}
  /\ toSave = {}
  /\ status = [d \in Deliveries |-> "unsaved"]
  /\ attempts = [d \in Deliveries |-> 0]
  /\ nextRetry = [d \in Deliveries |-> "null"]
  /\ queue = [c \in Callers |-> {}]
  /\ request = [c \in Callers |-> NoRequest]
  /\ sent = [d \in Deliveries |-> 0]
  /\ accepted = {}
  /\ faults = 0

SetHook(h, from, to) ==
  /\ hook[h] \in from
  /\ hook' = [hook EXCEPT ![h] = to]
  /\ UNCHANGED <<published, toSave, record, calls, history, faults>>

\* register
Register(h) == SetHook(h, {"none"}, "active")

\* update, of isActive
Deactivate(h) == SetHook(h, {"active"}, "inactive")
Activate(h) == SetHook(h, {"inactive"}, "active")

\* delete removes the webhook and leaves its deliveries.
Delete(h) == SetHook(h, {"active", "inactive"}, "deleted")

\* publish loads the active webhooks.
Publish(e) ==
  /\ e \notin published
  /\ published' = published \cup {e}
  /\ toSave' = toSave \cup {<<e, h>> : h \in {x \in Webhooks : hook[x] = "active"}}
  /\ UNCHANGED <<hook, record, calls, history, faults>>

\* publish saves a delivery and schedules its first attempt (setImmediate).
SaveDelivery(d) ==
  /\ d \in toSave
  /\ toSave' = toSave \ {d}
  /\ status' = [status EXCEPT ![d] = "pending"]
  /\ attempts' = [attempts EXCEPT ![d] = 0]
  /\ nextRetry' = [nextRetry EXCEPT ![d] = "null"]
  /\ queue' = [queue EXCEPT ![d] = {[delivery |-> d, attempts |-> 0]}]
  /\ UNCHANGED <<hook, published, request, history, faults>>

\* The copy leaves the queue, its attempt is counted and the request is made.
Deliver(c, copy) ==
  /\ queue' = [queue EXCEPT ![c] = @ \ {copy}]
  /\ request' = [request EXCEPT
                   ![c] = [delivery |-> copy.delivery,
                           attempts |-> copy.attempts + 1,
                           outcome |-> "waiting"]]
  /\ sent' = [sent EXCEPT ![copy.delivery] = @ + 1]
  /\ UNCHANGED <<hook, published, toSave, record, accepted, faults>>

\* The first attempt uses the webhook that publish loaded.
FirstAttempt(d) ==
  /\ request[d] = NoRequest
  /\ \E copy \in queue[d] : Deliver(d, copy)

\* Mutant: deliveries without a retry time are not loaded.
DueScheduled(d) == status[d] = "pending" /\ nextRetry[d] = "due"

\* Mutant: deliveries without a retry time are loaded in every status.
DueUnscheduled(d) ==
  \/ status[d] # "unsaved" /\ nextRetry[d] = "null"
  \/ status[d] = "pending" /\ nextRetry[d] = "due"

\* The query of retryPending.
Due(d) == status[d] = "pending" /\ nextRetry[d] \in {"null", "due"}

\* retryPending loads at most a batch of the deliveries that are due, in no
\* particular order, even while earlier calls still work on theirs.
RetryPending(r) ==
  LET due == {d \in Deliveries : Due(d)}
      size == IF Cardinality(due) < Batch THEN Cardinality(due) ELSE Batch
  IN
  /\ queue[r] = {} /\ request[r] = NoRequest
  /\ \E batch \in SUBSET due \ {{}} :
       /\ Cardinality(batch) = size
       /\ queue' = [queue EXCEPT
            ![r] = {[delivery |-> d, attempts |-> attempts[d]] : d \in batch}]
  /\ UNCHANGED <<hook, published, toSave, record, request, history, faults>>

\* retryPending attempts the next delivery of its batch, however the record
\* changed since it was loaded, active webhook or not.
Retry(r) ==
  /\ request[r] = NoRequest
  /\ \E copy \in queue[r] : hook[copy.delivery[2]] # "deleted" /\ Deliver(r, copy)

\* retryPending passes over a delivery whose webhook was deleted.
Skip(r) ==
  /\ request[r] = NoRequest
  /\ \E copy \in queue[r] :
       /\ hook[copy.delivery[2]] = "deleted"
       /\ queue' = [queue EXCEPT ![r] = @ \ {copy}]
  /\ UNCHANGED <<hook, published, toSave, record, request, history, faults>>

\* The request ends: with an answer, or with an error or the time limit.  In
\* these cases the endpoint may have accepted the delivery all the same.
Answer(c, outcome, arrived) ==
  /\ request[c] # NoRequest
  /\ request[c].outcome = "waiting"
  /\ outcome = "2xx" => arrived
  /\ outcome = "other" => ~arrived
  /\ request' = [request EXCEPT ![c].outcome = outcome]
  /\ accepted' = IF arrived THEN accepted \cup {request[c].delivery} ELSE accepted
  /\ UNCHANGED <<hook, published, toSave, record, queue, sent, faults>>

\* Mutant: every answer is a success.
SucceededAny(r) == r.outcome \in {"2xx", "other"}

\* The endpoint answered with a status of 200 to 299.
Succeeded(r) == r.outcome = "2xx"

\* Mutant: the limit is checked before the attempt is counted.
LastAttemptEarly(r) == r.attempts + 1 >= MaxAttempts

\* Mutant: one attempt too many.
LastAttemptLate(r) == r.attempts > MaxAttempts

\* The attempt was the last one allowed.
LastAttempt(r) == r.attempts >= MaxAttempts

\* The end of deliver: the record becomes what the call's copy became.
Save(c) ==
  LET r == request[c]
      d == r.delivery
      again == ~Succeeded(r) /\ ~LastAttempt(r)
  IN
  /\ r # NoRequest
  /\ r.outcome # "waiting"
  /\ status' = [status EXCEPT ![d] = IF Succeeded(r) THEN "success"
                                     ELSE IF again THEN "pending" ELSE "failed"]
  /\ attempts' = [attempts EXCEPT ![d] = r.attempts]
  /\ nextRetry' = [nextRetry EXCEPT ![d] = IF again THEN "later" ELSE "null"]
  /\ request' = [request EXCEPT ![c] = NoRequest]
  /\ UNCHANGED <<hook, published, toSave, queue, history, faults>>

\* Time passes until a delivery is due again.
BecomeDue(d) ==
  /\ nextRetry[d] = "later"
  /\ nextRetry' = [nextRetry EXCEPT ![d] = "due"]
  /\ UNCHANGED <<hook, published, toSave, status, attempts, calls, history, faults>>

\* A call goes no further.  A database call fails: the lookup of a webhook by
\* retryPending, or the save after an attempt.  Or a request never ends: its
\* time limit is one of an idle connection, and an answer that breaks off
\* resolves nothing.
CallFails(c) ==
  /\ faults < MaxFaults
  /\ (c \in Runs /\ queue[c] # {}) \/ request[c] # NoRequest
  /\ queue' = [queue EXCEPT ![c] = {}]
  /\ request' = [request EXCEPT ![c] = NoRequest]
  /\ faults' = faults + 1
  /\ UNCHANGED <<hook, published, toSave, record, history>>

\* publish fails to save a delivery; those after it are not saved either.
PublishFails(e) ==
  /\ faults < MaxFaults
  /\ \E h \in Webhooks : <<e, h>> \in toSave
  /\ toSave' = toSave \ ({e} \X Webhooks)
  /\ faults' = faults + 1
  /\ UNCHANGED <<hook, published, record, calls, history>>

\* The process stops and starts again with nothing but the database.
Crash ==
  /\ faults < MaxFaults
  /\ toSave' = {}
  /\ queue' = [c \in Callers |-> {}]
  /\ request' = [c \in Callers |-> NoRequest]
  /\ faults' = faults + 1
  /\ UNCHANGED <<hook, published, record, history>>

Next ==
  \/ \E h \in Webhooks : Register(h)
  \/ \E h \in Webhooks : Deactivate(h)
  \/ \E h \in Webhooks : Activate(h)
  \/ \E h \in Webhooks : Delete(h)
  \/ \E e \in Events : Publish(e)
  \/ \E d \in Deliveries : SaveDelivery(d)
  \/ \E d \in Deliveries : FirstAttempt(d)
  \/ \E r \in Runs : RetryPending(r)
  \/ \E r \in Runs : Retry(r)
  \/ \E r \in Runs : Skip(r)
  \/ \E c \in Callers, outcome \in Outcomes \ {"waiting"}, arrived \in BOOLEAN :
       Answer(c, outcome, arrived)
  \/ \E c \in Callers : Save(c)
  \/ \E d \in Deliveries : BecomeDue(d)
  \/ \E c \in Callers : CallFails(c)
  \/ \E e \in Events : PublishFails(e)
  \/ Crash

Spec == Init /\ [][Next]_vars

\* The process runs, the timer of retryPending fires, time passes, and all but
\* MaxFaults requests end, with the time limit at the latest.
Fairness ==
  /\ \A d \in Deliveries : WF_vars(SaveDelivery(d)) /\ WF_vars(FirstAttempt(d))
  /\ \A d \in Deliveries : WF_vars(BecomeDue(d))
  /\ \A r \in Runs :
       WF_vars(RetryPending(r)) /\ WF_vars(Retry(r)) /\ WF_vars(Skip(r))
  /\ \A c \in Callers :
       /\ WF_vars(\E outcome \in Outcomes, arrived \in BOOLEAN :
                    outcome # "waiting" /\ Answer(c, outcome, arrived))
       /\ WF_vars(Save(c))

FairSpec == Spec /\ Fairness

-----------------------------------------------------------------------------
TypeOK ==
  /\ hook \in [Webhooks -> HookStates]
  /\ published \subseteq Events
  /\ toSave \subseteq Deliveries
  /\ status \in [Deliveries -> Statuses]
  /\ attempts \in [Deliveries -> 0..MaxAttempts]
  /\ nextRetry \in [Deliveries -> {"null", "later", "due"}]
  /\ queue \in [Callers -> SUBSET Copies]
  /\ request \in [Callers -> Requests \cup {NoRequest}]
  /\ sent \in [Deliveries -> Nat]
  /\ accepted \subseteq Deliveries
  /\ faults \in 0..MaxFaults

\* A delivery is given up only after the endpoint was tried as often as
\* MAX_ATTEMPTS says, although overlapping calls write back counts taken from
\* outdated copies and a crash forgets attempts: the record may count too
\* few, never too many (deliver, retryPending).
GivenUpLate ==
  \A d \in Deliveries :
    /\ attempts[d] <= sent[d]
    /\ status[d] = "failed" => sent[d] >= MaxAttempts

\* A delivery recorded as a success was accepted by the endpoint, whichever
\* of the calls that hold copies of it wrote the record.
SuccessWasAccepted ==
  \A d \in Deliveries : status[d] = "success" => d \in accepted

\* The record says that the delivery is finished, and no call has a copy of it
\* or an attempt of it under way.
Closed(d) ==
  /\ status[d] \in {"success", "failed"}
  /\ \A c \in Callers :
       /\ \A copy \in queue[c] : copy.delivery # d
       /\ request[c] # NoRequest => request[c].delivery # d

\* Only a call that loaded a delivery while it was pending can write to it
\* once it is finished: a finished delivery that no call holds is loaded by no
\* later call of retryPending, sent no more and never reopened, although save
\* overwrites the record whatever it says by then (publish, retryPending,
\* deliver).
ClosedStays ==
  [][\A d \in Deliveries :
       Closed(d) => /\ Closed(d)'
                    /\ status'[d] = status[d] /\ attempts'[d] = attempts[d]
                    /\ sent'[d] = sent[d]]_vars

\* A saved delivery has its final status or belongs to a deleted webhook.
Settled(d) ==
  status[d] \in {"unsaved", "success", "failed"} \/ hook[d[2]] = "deleted"

\* Retries come to an end: although a call with an outdated copy can set a
\* finished delivery back to pending, or its count to a lower one, from some
\* time on every delivery is settled, crashes and failed calls included.  It
\* needs a batch that has room for every delivery, because the deliveries of
\* deleted webhooks stay pending and are loaded again and again.
DeliveriesSettle ==
  Cardinality(Deliveries) <= Batch => <>[](\A d \in Deliveries : Settled(d))
=============================================================================
