# Formal model of ROCK-BUTTOM

TLA+ specifications of the parts of this repository that move money or must
survive concurrency, with TLC runs on small instances and TLAPS proofs for
every size.

## 1. The system

ROCK-BUTTOM is a learning platform on Stellar. The repository README calls the
Soroban contracts "the source of truth for funds and credentials"; the NestJS
backend indexes their events and serves the Next.js web application.

| part | state | operations | what is hard | correct when |
|---|---|---|---|---|
| `contracts/crowdfund` | status, goal, deadline, `KEY_TOTAL`, contribution and insurance fee per address, matching, pool, plans, delegations, votes, emergency session | about 40 calls that change state | one total that several calls change and some forget, several ways to get money back, calls legal in unexpected states | nobody is paid twice or from somebody else's money; one payout, backed by contributions; failed campaigns pay back |
| `contracts/token` (BST) | balances, allowances, supply, vesting, stakes, airdrops | mint, burn, transfer, approve, create and claim vesting, stake, withdraw, claim | replaced records, totals kept beside them | supply equals the balances; a schedule pays its amount once |
| `contracts/governance` | proposals, votes, upgrades | propose, vote, execute, approve | weight is the balance at the time of the call | tokens count once per proposal |
| `contracts/grants`, `scholarship_fund`, `buyback`, `liquidity_pool`, `royalty_distribution` | fund counters, milestones, applications | award, release, donate, distribute | milestone replaced after its release | released at most the award |
| `contracts/nft`, `badges`, `certificate`, `registry`, `reputation`, `analytics`, `credential_metadata`, `token_restrictions` | one record per key | one write per call; `analytics` publishes the completions the indexer polls for | little | - |
| `contracts/shared` | roles, pause flag, multisig, timelock | helper calls | - | - |
| backend, `stellar`, `credentials`, `progress`, `kyc`, `certificates` | ledger cursor in the cache, credentials and KYC status in the database, transactions on the ledger | record progress, poll, handle event, issue, transactions that go round issue, KYC webhook | overlapping polls, failed handlers, restarts, check-then-act around ledger transactions | a completion the indexer can read leads to a credential unless its event was let go; every row is backed by a transaction, every call past the gate by an approval; duplicates come from overlap only |
| backend, `webhooks` | deliveries with status, attempts, next retry | publish, deliver, retryPending | first attempt and retry of one record, crash between request and record | accepted, or given up after at least five attempts |
| backend, `auth` | refresh tokens, blacklist of access tokens in a cache and a table, backup codes | login, refresh, logout, check, clean-up | requests that overlap, a cache in front of a table, restarts | a logout is final; a refresh token is good for one pair, up to overlap |
| backend, other services | one table each | CRUD, coupons, payouts, batches, rate limit | read-modify-write on one record | - |
| web application, a campaign's page | modal, buttons, optimistic total, signing flag, cache of contract reads | pledge, withdraw, refund, read | a call is several awaits long, the modal can go meanwhile, answers arrive late | what the page reports is what the ledger did; no failed pledge stays in the total; reads are recent |
| web application, the rest, and `packages/types` | forms, lists, charts | - | - | - |

The parts interact in three ways. The contracts call each other and the token
contract inside one transaction (crowdfund -> token, governance -> token), and
a transaction either happens or leaves no trace. The backend reads contract
events by polling and submits transactions (`issueCredential`, `mintReward`).
The web application calls the backend over HTTP, and builds, signs and submits
contract calls itself: it reads through a cache in the browser and learns the
fate of a transaction by polling the RPC node.

The crowdfunding contract is the core: it holds other people's money, is the
largest piece of logic of its own (4600 lines), and its calls can come in any
order from any party. `PROJECT.json` lists every component, the hazards of
each, and the lines every definition stands for.

## 2. Plan

In this order, the most important behaviour first:

1. `Crowdfund`: the money of one campaign. Done, with proofs.
2. `Escrow`: what the campaign promises, and the refinement. Done, proved.
3. `CrowdfundEmergency`, `CrowdfundPlans`, `CrowdfundExtension`: the further
   programs of the contract, each composed with every call of the campaign.
   Done, proved.
4. `WebhookDelivery`: deliveries whose record several calls write, crashes, the
   limit of five attempts; liveness under a fair retry timer. Done, safety
   proved. It comes before the token because it is the backend's plainest race.
5. `RpcCache` and `PledgeClient`, which extends it: the browser's side of the
   campaign, where every call of the contract starts. Done, proved.
6. `CredentialIssuance`: the backend between the ledger and its database;
   liveness under a fair poll. Done, safety proved.
7. `Sessions`: refresh, logout and checks of one user's tokens under requests
   that overlap. Done, proved.
8. `CrowdfundProgramsProofs`: the properties of plans, delegation and votes.
   Done.
9. What the findings depend on, the liveness of refunds, the refinement next to
   emergency sessions, and the indexer's cursor. Done, proved.
10. `Custody`: what the escrow's promise comes to when programs book after a
   payout and for others, and the refinement; the campaign's promises next to
   emergency sessions that took something; finished deliveries. Done, proved.

What stays outside, and why, is said in section 7.

## 3. The modules

**Crowdfund.** One contract instance is one campaign, and a call is one transaction. So a call
is one action; its guard is the conjunction of the negated early returns and of
the checks of the token contract; a refused call changes nothing and is no
step. Concurrency is the order of the calls, which nothing restricts. An action
stands for a call by a party that `require_auth` accepts.

| module | what it is | code |
|---|---|---|
| `TokenTotals` | sums of balances | the token contract, as crowdfund uses it |
| `Escrow` | abstract: deposit before the payout, return to the owner, one payout | what crowdfund promises |
| `Crowdfund` | contribute, withdraw, refund_single, refund_batch, refund_partial, extend_deadline, adjust_goal, cancel_campaign, archive, pause, resume, setup_matching, enable_insurance, claim_insurance_payout, the lists, the clock | `crowdfund/src/lib.rs`, `validation.rs` |
| `CrowdfundEmergency` | initiate, execute, cancel, setup_emergency_multisig, approve; extends `Crowdfund` | `lib.rs` 1340-1558 |
| `CrowdfundPlans` | setup, execute and cancel_recurring; delegate_contribution, contribute_on_behalf, revoke_delegation; extends `Crowdfund` | `lib.rs` 1940-2058, 2487-2683 |
| `CrowdfundExtension` | propose_extension, vote_on_extension, execute_extension; extends `CrowdfundPlans` | `lib.rs` 2071-2214 |
| `Custody` | abstract: the weaker promise that programs keep, put by anybody at any time, return to the owner, one payout | what the contract promises with its programs |
| `WebhookDelivery` | register, update (of `isActive`), delete, publish, deliver, retryPending, the answers of endpoints, crashes and failed calls | `webhooks/webhooks.service.ts` |
| `RpcCache` | simulateView, cacheGet, cacheSet, cacheInvalidateLive, the clock | `lib/rpc-cache.ts`, `lib/contract.ts` 61-97 |
| `PledgeClient` | open and close the modal, confirm, the debounced call, withdraw and refund, dismiss, invokeContract from building to the last poll; extends `RpcCache` | `PledgeModal.tsx`, `CampaignActions.tsx`, `useCampaign.ts`, `WalletContext.tsx`, `lib/contract.ts` |
| `CredentialIssuance` | record, issue, poll and its handler, transactions that go round issue, the KYC submission and webhook, closing ledgers with completions, failed calls and restarts | `credentials.service.ts`, `credentials.controller.ts`, `progress.service.ts`, `stellar-indexer.service.ts`, `stellar.service.ts`, `stellar.controller.ts`, `kyc.service.ts`, `record_progress` of `contracts/analytics` |
| `Sessions` | login, refresh, logout, the check of an access token, clean-up, failed calls and restarts | `auth.service.ts`, `auth.controller.ts`, `token-blacklist.service.ts`, `jwt.strategy.ts` |
| `TokenTotalsProofs` and the `*Proofs` modules | lemmas and theorems | - |
| `MC*` | constants for TLC | - |

State. A variable of `Crowdfund` is a storage entry (`total` is `KEY_TOTAL`,
`contribution` is `DataKey::Contribution`, `insurancePool` is
`KEY_INSURANCE_POOL`, and so on; each declaration names its key). `wallet`,
`held`, `creatorBal` and `platformBal` are balances in the token contract.
`admitted` stands for the white- and blacklist, whitelist-only mode and
visibility together: all `contribute` asks is whether an address passes. The
emergency, plan and vote modules add the entries of their own calls, and a few
history variables, marked as such, that only properties read (`opened`,
`signers`, `gave`, `ballot`).

Data abstracted in the contract. Events, TTLs, messages, metadata, the contributor list and
count, the largest contribution, contribution history and reward tiers are
written by `contribute` and read by no guard. The per-address rate limit only
refuses calls, so the model allows a superset. There is one token: with several
accepted tokens the contract still keeps one number per contributor and refunds
in the default token. i128 is an integer: the contract is built with overflow
checks, and amounts are far below the limit.

**Webhooks.** The service is one Node.js process, so code between two `await`s runs
alone and an action ends where the code awaits the database or the endpoint.
`status`, `attempts` and `nextRetry` are the columns of a delivery; `queue`
holds the copies that a call loaded and has yet to attempt, `request` the copy
whose request is under way. A call is the first attempt of a delivery, named by
the delivery, or one of the `Runs` of `retryPending`, which the timer starts
every minute whether or not the last one ended. `save` writes the copy over the
record. The retry delays are abstracted to "later" and "due"; a webhook's URL
and secret matter to no property; every webhook listens to every event. A
failed database call or an endless request ends the call it belongs to and
nothing else: Sentry's handler keeps an unhandled rejection from stopping the
process.

**The campaign's page.** JavaScript in the browser is again one thread: an
action ends at an `await`. A call of `invokeContract` goes through the phases
building, signing, sending, polling; `txStatus` and `pendingTx` are React state
of a panel (a modal, or the page for withdraw and refund) and are lost with it,
while the call goes on. `delta` is `optimisticDelta` of `useCampaign`,
`isSigning` the flag of the wallet. The debounce timer outlives the modal that
set it. `store` is the cache; a cached answer is recorded as the contract's
version it describes, when it was given, and whether a confirmation overtook
it. `fate` is what the ledger does with a transaction, which the page learns
late or never. Amounts matter only by being valid or not.

**Credentials.** `job` says at which `await` each worker is: a request that
calls `issue` or a poll of the interval timer. Awaits after which nothing that
is modelled changes hands have no step: the lookup of the course belongs to the
check, the reward to the transaction. `event` holds the completions that
`record_progress` of `contracts/analytics` put on the ledger, `cursor` the
cache's last ledger, `minted` and `creds` count transactions and database rows.

Completions on the ledger are recorded by others (the student, its admin, an
authorised caller): the backend's own `record_progress` has three arguments
(`stellar.service.ts` 162, 228) and the contract wants four (`lib.rs` 156), so
it always fails, which `record` tolerates. Which contract the indexer listens
to is configuration, and `shape` is what that contract publishes: the fields
`student` and `course` that the handler reads (`stellar-indexer.service.ts` 85),
or a tuple, as the repository's contract does (`lib.rs` 231), which the handler
passes over at line 90. Both are initial states.

`MintDirect` stands for the callers of `issueCredential` that go round `issue`:
`POST stellar/mint` and `POST stellar/credentials/issue`
(`stellar.controller.ts` 51, 104) and the certificate of an enrolment
(`certificates.service.ts` 60). They look for no credential, ask for no KYC
approval and insert no row.

Rare things share one bound: a failed call of the database, the cache or the
ledger at any await, with or without its effect where it has one; an answer of
the node without some of the events (only one page is read, and a node keeps
only so many ledgers); a user not on record when the event is handled; a
transaction round `issue`; a restart, which ends all workers and loses the
cursor or not, since the cache may be memory or Redis. `direct`, `cleared` and
`dropped` are history: transactions round `issue`; calls of `issue` during which
KYC was approved at some time; ledgers whose event was let go. One student is
enough: what is kept of another has another key.

**Sessions.** `job` is again the await each request is at. A pair is an access
token and a refresh token issued together. `row` is the refresh token's row,
`listed` the blacklist's table and `cached` its cache, whose entries end with
the token. `loggedOut` and `closed` are history: tokens of logouts that were
answered. The client may present any token it ever got.

Operators whose name ends the comment "Mutant:" stand directly before the
definition they change. They are plausible mistakes in that code, and each
property of a passing run is violated by one of them.

## 4. The runs

| run | module and cfg | instance | what it shows |
|---|---|---|---|
| `crowdfund_lifecycle` | `MCCrowdfund`, `Lifecycle` | two contributors, one matching configuration, no vesting or insurance, platform fee, time to 4, fair | 130,704 states |
| `crowdfund_features` | `MCCrowdfund`, `Features` | insurance rates, matching and vesting together | 390,552 states |
| `crowdfund_emergency` | `MCCrowdfundEmergency` | approvers, lock periods and rules that change | 91,842 states |
| `crowdfund_programs` | `MCCrowdfundExtension` | a recurring plan, a delegation, votes with a period of 1, goals of one and two contributions, time to 3 | 817,680 states |
| `webhook_delivery` | `MCWebhookDelivery` | one delivery, two overlapping calls of `retryPending`, three attempts, one fault, fair | 121,495 states |
| `pledge_client` | `MCPledgeClient` | two modals and the page, two calls, a second reader, two polls, TTL and latency 1, two versions | about 1.8 million states |
| `credential_issuance` | `MCCredentialIssuance` | one request, two overlapping polls, one course that requires KYC, both shapes of event, two ledgers, one rare thing, fair | 1.2 million states |
| `sessions` | `MCSessions` | two requests, two pairs, lifetimes 1 and 2, time to 3, one fault | about 1.6 million states |
| `crowdfund_negative_total` | `MCCrowdfund`, `Negative` | vesting | the documented `total_raised >= 0` fails |
| `crowdfund_match_unfunded` | `MCCrowdfund`, `Match` | matching | the sponsor's top-up is not paid in |
| `crowdfund_paid_refund` | `MCCrowdfund`, `PaidRefund` | vesting | refunds after a successful payout |
| `credential_duplicates` | `MCCredentialIssuance`, `MCCredentialDuplicates` | two requests, tuples as events, nothing rare | two rows for one course |

`crowdfund_lifecycle` asks whether any order of contributions, refunds of all
kinds, extended deadlines, changed goals, pauses, cancellations and withdrawals
breaks the accounts:

- `Accounted`: what an address owns, has on record and paid in fees is what it
  started with. Nobody is refunded twice or with somebody else's tokens. (A
  batch is a set: `refund_batch` reads each record when its turn comes, so an
  address listed twice has nothing on record the second time, `lib.rs` 1230.)
- `BooksCoverContributions`: `refund_single` and `refund_batch` do not reduce
  `KEY_TOTAL`, and matching raises it without tokens; it still never
  understates the contributions while the campaign is open.
- `WithdrawEmptiesContract`: `withdraw` zeroes the total, so the guard of the
  refunds is open again on a paid-out campaign; without vesting nothing is left
  for them.
- `PayoutMeetsGoal`: the total can be stale (refund, then extend the deadline),
  but then the token transfer fails; a payout is backed by contributions that
  reach the goal.
- `PaidOnce`: no path through archive, cancel, pause, resume and extend pays the
  creator again.
- `RefundPossible`: whoever has money in a failed or cancelled campaign that was
  not paid out can have it back in the next step, whatever was paused, batched,
  refunded in part or matched before.
- `RefundEventually`: a failed or cancelled campaign pays each contributor back
  unless the creator takes it out of that state.

`crowdfund_features` adds insurance and vesting: `Conserved` (balance plus
payouts equal the records), `PoolOwed` and `PoolFunded` (the pool counter is
covered by fees and by tokens, although `enable_insurance` resets it),
`MatchedWithinCap` and `ImplementsEscrow`, the refinement of `Escrow`.

`crowdfund_emergency`: `QuorumCounted` (the counter is the number of different
approvers since the session was opened, with locks that coincide, sessions
cancelled and reopened, and lists replaced), `EmergencyAuthorised` (money moves
only in an open session, after its lock, with enough approvers),
`EmergencyConserved`, `IntactUntilTaken`, and `EscrowUntilTaken`: while the admin
has taken nothing the campaign still implements `Escrow` step by step.

`crowdfund_programs`: `GiftsAccounted` (as `Accounted`, when others pay),
`BooksCoverContributions` with contributions that skip most checks,
`BallotsCountedOnce` (the votes are ballots of different contributors, however
records change during the vote) and `AppliedOnce` (the deadline moves back only
when a vote is executed, and one vote does so once). `ImplementsCustody` is the
refinement that remains next to programs. They are no `Escrow`: a plan or a
delegate books after the payout as well, and onto somebody else's record. What
they keep is `Custody`: tokens come from the payer's own wallet onto one record,
records go back to those they stand for, out of what is held, and one payment
goes out. The run reaches bookings and refunds after a payout, since one
contribution can meet the goal before the plan has ended.

`webhook_delivery`: the first attempt and two calls of `retryPending` hold
copies of one delivery and write it back in any order, which lowers the count
of attempts and turns a finished delivery pending again.

- `GivenUpLate`: a delivery is `failed` only after `MAX_ATTEMPTS` requests; the
  count may lag behind the requests, never run ahead of them.
- `SuccessWasAccepted`: a recorded success is one the endpoint accepted.
- `ClosedStays`: a finished delivery that no call holds a copy of is never
  loaded, sent, counted or reopened again. What `save` can undo it undoes only
  through calls that loaded the delivery while it was pending.
- `DeliveriesSettle`: from some time on every saved delivery is a success, is
  given up, or belongs to a deleted webhook. In particular a delivery whose
  first attempt was lost in a crash is found through its missing retry time.

The module does not promise what the code does not: an outdated copy can
overwrite a success with a failure, the endpoint can be asked more often than
`MAX_ATTEMPTS` times, and the count can fall. TLC finds each of these within
the same instance; no document of the repository says otherwise, so they are
noted here and are no findings.

`pledge_client`: modals are opened and closed at any moment of a call, a timer
fires for a modal that is gone, and answers of the node arrive late.

- `ReportsAreTrue`: a reported success was applied, and a reported refusal or
  failure was not and cannot be; what "not confirmed after polling" says is
  left open, as it must be.
- `NoGhostPledge`: the optimistic total adds no pledge that was reported as an
  error, whichever of two pledges ends first and wherever its modal is.
- `OneCallPerPanel`: although the confirmation leads to a call two seconds
  later, through a closure made before, no panel has two calls under way.
- `ReadsAreRecent`: what the cache answers is bounded in age, and includes
  every transaction of this page unless its answer overtook the invalidation.

The exception in the last is the code's: such an answer is cached as if new,
for the 15 seconds of an entry. Other facts noted here and not counted as
findings: after a confirmed pledge nothing takes `optimisticDelta` back, so
once the statistics are read again the shown total counts it twice until the
page is loaded anew; `sendTransaction` answering `TRY_AGAIN_LATER` is treated
like an accepted transaction and polled for.

`credential_issuance`:

- `DuplicatesOverlap`: how many credentials of one course there can be. Rows
  and calls of `issue` that may still insert one never outnumber the calls
  under way at once, however often events are delivered again. So a deployment
  that never overlaps has no duplicates; this one does, see section 5.
- `CredentialsBacked`: every row stands for a transaction of its own, none of
  them one that went round `issue`; and a call of `issue` past the gate of a
  gated course saw an approval that held at some time since it began, not one
  withdrawn before. An approval withdrawn during the transactions comes too
  late for the code. The gate is in `issue` alone: the callers that go round it
  mint for a gated course with no approval at all, and of their transactions
  the property says nothing.
- `NothingSkipped`: the cursor passes no event that the handler can read and
  that still needs a poll, although overlapping polls write it in any order,
  from cursors read at different times, and completions are recorded meanwhile.
- `EventsAreIssued`: such a completion leads to a credential in spite of
  restarts, lost or set back cursors and overlapping polls.

The last two exempt the events that were let go, and so does the code. The loop
of `poll` catches an error, logs it and moves the cursor on, and nothing retries
the event, not even when the error is that KYC is not approved yet. The handler
returns without a word when no user with the key is on record (93). `getEvents`
is asked for a single page while the cursor moves to the newest ledger, so
events beyond a page are skipped. An event with another value (90) or topic
(77) needs no poll, since no poll does anything with it: with the repository's
own contract that is every completion, the indexer issues nothing
(`TuplesIssueNothing` in section 6), and credentials come from requests alone.

Also noted: events of the cursor's own ledger are read again by every poll,
which repeats their notifications; the ledger's data entry has one key per
course, so the credential of one student overwrites that of another; a referrer
can be paid twice, or never (`progress.service.ts` 53).

`sessions`:

- `LogoutSticks`: nothing that begins after a logout was answered gets anything
  out of its tokens, through overlapping requests, lost caches, restarts and
  clean-ups.
- `RotationBounded`: a refresh token is good for one pair, up to refreshes that
  overlap.

The module does not promise what the code does not: overlapping refreshes of
one token each yield a pair, a failure between revoking a token and issuing
the next pair costs the session, and a logout with a refresh token that was
already rotated is answered as a success without putting the access token on
the blacklist (the controller passes no user). `cleanupExpiredTokens` has no
caller in the repository; the model lets it run at any time.

### Bounds

Two contributors are enough for money to move from one to the other, for a
batch, and for a tie of votes; the emergency run has two approvers and, as its
calls concern no single contributor, one contributor. Amounts are one or a few
tokens and the goals lie between one contribution and all of them, so both
sides of every comparison occur; the basis-point rates are chosen so that
rounding loses a token. `MaxTime` lies beyond the latest deadline, cliff and
lock, except for the programs, whose time ends at 3: a vote of one second is
proposed at 1 or 2 and executed at 2 or 3, and campaigns with a deadline of 2
or 3 are paid out or refunded while plans and votes go on. `MaxTotal` bounds
`KEY_TOTAL` only where a contribution raises it; wallets bound the tokens, so
this bound matters only for refunds that are contributed again. The clock
starts at 1, because some markers use 0 for "never".

One delivery is enough for the race on a record, since calls meet only there;
two runs beside the first attempt give three writers. `Batch` is 1, room for
the one delivery. Three attempts leave one between the first and the last, so a
count can be lowered and counted up again. `MaxFaults` bounds crashes, failed
database calls and endless requests together. The run has
`CHECK_DEADLOCK FALSE`: once the event is published and its delivery settled
nothing is left to do.

The page has two modals and two calls because every property of it relates two
of them: a pledge that fails after the next one began, a second confirmation.
Two polls are a first and a last. The cache holds one method, since entries do
not interact; TTL and latency of 1 in a time of 3 let an entry age, expire and
be written late. Two versions are one change of others and one of the page, or
two of the page. The run has `CHECK_DEADLOCK FALSE`: modals and calls run out.

One request and two polls are three calls of `issue` at once, for a property
that counts them; two ledgers are an event and its repetition, and a cursor
that can be set back. `MaxRare` bounds all the rare things together: one can fall
between any two steps. Without it the run would not reach the interesting
exemptions; with two of them the cases only combine, which the proofs cover.
The violation run needs two requests and nothing rare.

Two requests are what every race on a token takes. With two pairs a token
is good for one other at most, so the run can exceed the bound of
`RotationBounded` only by that pair and two refreshes that found the token
usable after it; that it holds for any number of pairs is what the proof adds.
Lifetimes differ so that an access token expires before its refresh token, and time goes beyond both.

### Fairness

`RefundEventually` assumes weak fairness of `RefundSingle(c)` for each
contributor (`KeepsCalling(c)`), and nothing else: `refund_single` asks nobody's authorisation, so
anybody who wants a refund to happen can keep calling, and the call stays
enabled as long as the campaign is failed and unpaid, which is what
`RefundPossible` says. Contributions, the
creator and the clock are not fair.

`DeliveriesSettle` assumes weak fairness of the steps of the Node.js process
(saving a delivery, its first attempt, retrying, skipping, recording the
outcome), of the timer that calls `retryPending` every minute, of time passing
until a delivery is due, and of every request ending one way or another: it is
cut off after 10 idle seconds. That limit does not cover an endpoint that keeps
sending, or one that breaks off in the middle of its answer, which neither
resolves nor rejects the promise; such a call never goes on, and the model
counts it among its faults. Publishing and the owners' calls are not fair.

`EventsAreIssued` assumes weak fairness of one action, that some poll takes its
next step: the interval timer keeps starting polls, and not all of those under
way hang for ever. Any single poll may. It is justified because the timer is
set once at start-up and fires again whatever happened to the polls before, and
the clients of the database, the cache and the node answer or fail. Requests,
KYC and the ledger are not fair; rare things are bounded, as liveness needs. So
a node that refuses every request is outside the model, in particular one that
refuses a request without a first ledger, which is what `poll` sends as long as
there is no cursor: with it the indexer never starts.

## 5. Findings

- `TotalNonNegative` (`validate_state`, `lib.rs` 4045): `refund_partial` looks
  at no status; after a withdrawal with a vesting schedule it takes the zeroed
  total below zero.
- `MatchIsFunded` (`setup_matching`, `lib.rs` 1718): the total counts matched
  amounts for which no tokens arrive. A matched campaign can be paid out only
  when the plain contributions cover the total.
- `NoRefundAfterSuccess` (`refund_single`, `lib.rs` 1143): after a payout the
  guard finds the goal missed, because the total is zero; what has not vested
  goes to whoever asks for a refund first, and the creator has no second call
  to collect it.

- `NoDuplicateCredential` (`credentials.service.ts` 25, "Avoid duplicate
  credentials"): the check and the insertion are several ledger transactions
  apart and the table has no unique constraint. Two requests for one course that
  overlap, say the completion of its last lesson and the admin's `POST
  credentials/issue`, both find no credential and both insert one.

Noticed in the contract while modelling, each the behaviour of a single call and without a run
of its own: `archive` closes the refunds of a cancelled campaign before its
deadline, although `cancel_campaign` promises them "at any time"; an approver
cannot approve a reopened emergency session whose lock ends when the old one's
did; approvals by an address that was since removed from the list still count;
`execute_extension` can set an earlier deadline than the one in force;
`execute_recurring` books contributions on a campaign that is closed.

Noticed in the backend, where the disagreement is between two pieces of code and
no state leads to it: its `record_progress` has an argument too few, the indexer
cannot read the analytics contract's completions, and three callers of
`issueCredential` have neither gate nor row (section 3).

## 6. The proofs

Assumptions: `CrowdfundAssumption`, `EmergencyAssumption`, `PlansAssumption`,
`ExtensionAssumption`, `WebhookAssumption`, `CacheAssumption`,
`PledgeAssumption`, `IssuanceAssumption` and `SessionsAssumption`. They say that
parties, calls and workers are finite sets, amounts positive, rates within
`0..FullRate`, lifetimes natural numbers and the special values no members of
the sets they stand apart from. They allow any number of parties, any amounts,
deadlines, configurations, faults and restarts.

`TokenTotalsProofs` states what the modules need about sums: the sum of balances is
a natural number, changes by what one balance changes by, splits along a subset
and bounds each of its terms.

`CrowdfundProofs` begins with what a call moves, which needs the types only:
`MoneyMoves` says that no call changes what an address owns or has on record
taken together (`Wealth`), nor the difference between what the contract received
and what is on record (`Surplus`). The inductive invariant `IInv` has two parts.
`Books` is what every call keeps, the programs included: types, `Conserved`,
`BooksCoverContributions`, `PoolOwed`, `MatchedWithinCap`, and that a campaign
which was paid out never is `Active` or `Paused` again. The single properties
are not inductive: the total covers the records only as long as no payout reset
it, and `PaidOnce` and `PayoutMeetsGoal` need that and the balance.
`Accounted` and `WithdrawEmptiesContract` complete `IInv`; they hold for the
campaign alone, since programs let others pay and book after a payout.

The module ends with the refinement: the initial states of the campaign are
initial states of `Escrow` and every step is a deposit, a return, a payout, or
moves no money, under the mapping `stake <- contribution + insuranceFee`, `paid
<- creatorBal + platformBal`. It uses `IInv` for the steps in which the abstract
guard is stronger than the code's: a deposit happens only before a payout
because the status says so.

Between the two stands the liveness of the refunds, in two forms. `RefundsArrive`
proves `RefundEventually` from the fairness of the specification and
`[]RefundPossible`: a debt stays until it is paid or the campaign is no longer
failed (`OwedStep`, which needs that a failed campaign is not paid out), and a
refund clears it. That an action is `ENABLED` is out of the prover's reach, so
`RefundPossible` itself is left to TLC. `RefundsArriveWhenAsked` needs no run:
it states the same fairness without `ENABLED`. `RefundCallable(c)` spells out
what `refund_single` checks, its own guard and the token contract's balance, and
`AskedFor(c)` says that the call happens again and again unless it would be
refused again and again. On the instance of `crowdfund_lifecycle`
`RefundCallable(c)` and the enabledness of the action were compared with TLC in
every reachable state and agree. `OwedCallable` proves that the call is never
refused while the debt stands, so nothing about the refunds is left to a
bounded check but the reading of `ENABLED`. `RefundsAffordable` adds that the
contract has the tokens for every batch of such refunds at once.

The last section says what the disagreements of section 5 depend on, which a
counterexample does not. Without vesting and insurance fees (`Plain`) a payout
leaves nothing in the contract, and then both the negative total and the refund
after a success are impossible (`PlainTotalNonNegative`,
`PlainNoRefundAfterSuccess`); without a sponsor the total never rises by more
than the tokens that arrive (`UnmatchedIsFunded`). Their invariant `PlainInv`
adds to `IInv` that the total covers the records of an unpaid campaign in every
status, a cancelled one included, and that a paid one holds nothing.

`CrowdfundEmergencyProofs` proves `QuorumCounted` and `EmergencyAuthorised`
from an invariant `EIInv` that relates the counter, the markers and the session: a
signer's marker is the lock of the session it signed, and the open session is
the stored lock.

Its second invariant, `AInv`, says that `IInv` holds until the admin has taken
something, and the balance of the money from then on; the campaign's own calls
are `MoneyMoves` and `IInvNext` again. With it `SessionsKeepEscrow` reuses the
refinement: until then each step of the campaign is the step of `Escrow` it was
without sessions, and those of the sessions move no money.

After the admin took something `IInv` is gone, but two promises are not.
`TInv` keeps the balance of the money and that an open campaign has paid
nobody; from it `PaidOnceWithSessions` and `PayoutBackedWithSessions` follow, as
the contract still never holds more than the records, so a withdrawal on a total
the admin has emptied fails at the transfer. `RefundsArriveUntilTaken` is the
liveness of the refunds in this composition: a refund that is asked for arrives
unless the campaign stops being failed or the admin takes the tokens first.

`CrowdfundProgramsProofs` uses `Books` and `MoneyMoves` for the campaign's calls
next to plans, delegation and votes, and adds for the programs who paid for
whom (`PInv`) and for the votes that a contributor without the proposal's marker
has cast no ballot on it (`VInv`). `PaidOnceWithPrograms` and
`PoolHeldWithPrograms` carry two promises of the campaign over to the programs,
which book contributions after a cancellation or a payout; `crowdfund_programs`
does not check these two again, nor `PayoutMeetsGoal` and `Conserved`, which
are proved here and checked without programs. `RefundsArriveWithPrograms`
does so for the liveness of refunds: a booking can only add to a debt.

It ends with the refinement of `Custody`, under the mapping of the escrow.
`KeepPut`, `KeepReturn` and `KeepPayOut` turn equations between the balances into
the three abstract steps; `KeepCampaign` takes the campaign's calls to them by
`MoneyMoves`, and `KeepBook` the one booking that `contribute_on_behalf` and
`execute_recurring` share.

`WebhookDeliveryProofs` assumes `WebhookAssumption` (finitely many events and
webhooks, at least one attempt and one delivery per batch). Its invariant `WInv`
adds to the two properties what makes them inductive: no copy and no request
under way counts more attempts than were made, a request answered with success
was accepted, and a pending delivery has an attempt left, so that the copies
taken of it have one too. `FinishedForGood` needs one more, `SavedOnce`: a
delivery is saved by `publish` once, so no step but those of a call that holds
it writes its record (`Untouched`), and `retryPending` takes copies of pending
deliveries only.

`PledgeClientProofs` conjoins the properties of the page with what makes them
inductive: where a call is says what its transaction can have become
(`ReportInv`); a panel with a call under way shows it or is gone, with no timer
left, and no modal is opened twice (`PanelInv`); an answer that travels or is
cached is within its latency and lifetime, and is newer than the last
confirmation unless it overtook it (`CacheInv`).

`CredentialIssuanceProofs` conjoins the two properties with `ApprovalsSeen`: an
approval in force is one that every call of `issue` under way has seen, so that
the gate, which reads the status alone, lets only such calls through. `DuplicatesOverlap` is
inductive next to the types: a call passes the check only when there are no
rows, so that rows and callers are at most the callers, and every insertion
takes a caller out of the set of those that may still insert. With one worker
this is `NoOverlapNoDuplicates`: the duplicates of section 5 need an overlap.

`NothingSkipped` has an invariant of its own, `Scanned`. Every poll carries two
ledger numbers, the cursor it read and the one it will write. Up to the first
every event is settled; up to the second it is settled, in the poll's queue, or
in its hands (`Covered`). No step undoes a settlement (`Grows`), new events have
higher numbers than any poll carries, and a poll writes its number when its
queue is empty and its hands are free, so a slow poll that sets the cursor back
or forward leaves nothing out. An event the handler cannot read is settled by
being unreadable; one let go, by an incomplete answer among others, is settled
from that step on. The theorem makes no promise about either, see section 4.

`TuplesIssueNothing` is the other side of this: when the contract publishes
tuples no poll ever calls `issue`.

`SessionsProofs` relates the place of each request to the rows: a token of a
logout that was answered is revoked and stays so, an access token on the
blacklist stays there until it has expired, since only the clean-up removes it,
and a token for which a pair was issued is revoked and never live again, so no
refresh that begins later adds to its pairs. `OnePairOneAtATime` draws the
conclusion for requests served one after the other: there the bound is one pair,
whatever fails in between.

| theorem | property |
|---|---|
| `TypeCorrect` | `TypeOK` of `Crowdfund` |
| `EveryTokenAccounted` | `Accounted` |
| `BalanceConserved` | `Conserved` |
| `TotalCoversContributions` | `BooksCoverContributions` |
| `NothingLeftAfterWithdraw` | `WithdrawEmptiesContract` |
| `PoolBacked` | `PoolOwed` |
| `PoolHeld` | `PoolFunded` |
| `MatchingCapped` | `MatchedWithinCap` |
| `NoSecondPayout` | `PaidOnce` |
| `PayoutBacked` | `PayoutMeetsGoal` |
| `CampaignIsEscrow` | `ImplementsEscrow` |
| `RefundsAffordable` | the provable part of `RefundPossible` |
| `RefundsArrive` | `RefundEventually`, given `RefundPossible` |
| `RefundsArriveWhenAsked` | `RefundEventually`, under `AskedFor` |
| `PlainTotalNonNegative` | `TotalNonNegative`, without vesting and insurance |
| `PlainNoRefundAfterSuccess` | `NoRefundAfterSuccess`, without vesting and insurance |
| `UnmatchedIsFunded` | `MatchIsFunded`, without matching |
| `ApprovalsCountedOnce` | `QuorumCounted` |
| `PaidInSessionOnly` | `EmergencyAuthorised` |
| `EmergencyTypeCorrect` | `ETypeOK` |
| `TakenIsAccounted` | `EmergencyConserved` |
| `SessionsHarmless` | `IntactUntilTaken` |
| `SessionsKeepEscrow` | `EscrowUntilTaken` |
| `PaidOnceWithSessions` | `PaidOnce` |
| `PayoutBackedWithSessions` | `PayoutMeetsGoal` |
| `RefundsArriveUntilTaken` | `RefundEventually` until the admin takes something, under `AskedFor` |
| `ProgramTypeCorrect` | `XTypeOK` |
| `GiftsOnRecord` | `GiftsAccounted` |
| `BooksHoldWithPrograms` | `BooksCoverContributions` |
| `NobodyVotesTwice` | `BallotsCountedOnce` |
| `VotesApplyOnce` | `AppliedOnce` |
| `PayoutBackedWithPrograms` | `PayoutMeetsGoal` |
| `PaidOnceWithPrograms` | `PaidOnce` |
| `PoolHeldWithPrograms` | `PoolFunded` |
| `ProgramsKeepCustody` | `ImplementsCustody` |
| `RefundsArriveWithPrograms` | `RefundEventually`, under `AskedFor` |
| `DeliveryTypes` | `TypeOK` of `WebhookDelivery` |
| `NeverGivenUpEarly` | `GivenUpLate` |
| `SuccessIsReal` | `SuccessWasAccepted` |
| `FinishedForGood` | `ClosedStays` |
| `PageTypeCorrect` | `TypeOK` of `PledgeClient` |
| `ReportsCorrect` | `ReportsAreTrue` |
| `NoGhosts` | `NoGhostPledge` |
| `OneCall` | `OneCallPerPanel` |
| `CacheCorrect` | `ReadsAreRecent` |
| `IssuanceTypeCorrect` | `TypeOK` of `CredentialIssuance` |
| `OnlyOverlapDuplicates` | `DuplicatesOverlap` |
| `RowsAreBacked` | `CredentialsBacked` |
| `CursorSkipsNothing` | `NothingSkipped` |
| `TuplesIssueNothing` | no poll calls `issue`, when events are tuples |
| `NoOverlapNoDuplicates` | `NoDuplicateCredential`, with one worker |
| `SessionsTypeCorrect` | `TypeOK` of `Sessions` |
| `LogoutsLast` | `LogoutSticks` |
| `RotationHolds` | `RotationBounded` |
| `OnePairOneAtATime` | at most one pair per refresh token, when requests do not overlap |

Only model-checked: `RefundPossible`, because it states `ENABLED` (`OwedCallable`
proves the same with the conditions of the call written out), and
`DeliveriesSettle` and `EventsAreIssued`. For these two the enabledness of several actions would be
a hypothesis, and the argument goes by induction over what is left to do
(attempts, rare things, the events in a queue), which no installed prover can carry
out for all instances; `NothingSkipped` and `GivenUpLate` are the safety parts
of them that are proved. No module declares a recursive operator.

## 7. Not modelled

`clone_campaign` resets the campaign in place and keeps the old records, so
what is shown here holds up to the first clone; `update_verification`
overwrites a contribution record with a status. Disputes, milestones, reward
tiers, verification, metadata and statistics move no tokens. Several accepted
tokens would need a balance per token.

The token contract appears as the balances crowdfund works on. Its vesting,
stakes and airdrops, governance, grants, scholarship, buyback, pool and royalty
contracts and the record-keeping contracts are counters and records that one
call writes and a unit test reaches; where a sequence of two calls matters
(staking twice, voting with tokens that moved) `PROJECT.json` names the line
among the hazards.

Of the backend, what is left are services of one database statement per
request, and read-modify-write on one record (coupons, payouts, enrollments,
batches, the rate limit). Backup codes race like any two writers of one column.
Progress rows, certificates, rewards, notifications and the token balance cache
beside the credentials are left out.

The web application is most of the repository's TypeScript: pages, charts,
filters, forms, embed codes and translations, each a function of its inputs
with no state that outlives a rendering. Models of them would restate them. That
is why the lines that the modules stand for are a small share of all: the logic
with state, order and failure is concentrated in the contract, a few services
of the backend and the path of a contract call through the browser. The
campaign wizard is a form saved as a draft after every change, for one user;
its deployment is `invokeContract` again, without the modal. (Noticed: the draft
is saved once more after the deployment, and a draft resumed at the last step
shows an empty form.)
