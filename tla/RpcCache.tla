------------------------------ MODULE RpcCache ------------------------------
(***************************************************************************)
(* The browser's cache of contract reads: apps/web/src/lib/rpc-cache.ts,   *)
(* and simulateView of apps/web/src/lib/contract.ts, which fills it.       *)
(*                                                                         *)
(* simulateView looks into the cache, otherwise asks the RPC node, and     *)
(* stores the answer when it arrives.  A read is thus two awaits long, and *)
(* the cache may be invalidated in between.  What the contract would       *)
(* answer is a version: the number of transactions applied to it.  One     *)
(* contract is modelled, and calls without arguments, the only ones that   *)
(* are cached.  Hit counters are left out.                                 *)
(***************************************************************************)
EXTENDS Integers

CONSTANTS
  Readers,     \* the places in the page that may have a read under way
  Viewers,     \* those that read unasked, not after a transaction
  Methods,     \* the contract's view methods
  Static,      \* STATIC_METHODS
  TTL,         \* DEFAULT_TTL_MS
  Infinity,    \* expiresAt of an entry that never expires
  Latency,     \* bound: how long an answer of the RPC node may travel
  MaxTime,     \* bound on the clock
  MaxVersion,  \* bound on the transactions applied to the contract
  NoEntry

ASSUME CacheAssumption ==
  /\ Static \subseteq Methods /\ Viewers \subseteq Readers
  /\ TTL \in Nat /\ Latency \in Nat /\ MaxTime \in Nat /\ MaxVersion \in Nat
  /\ Infinity \in Nat /\ Infinity > MaxTime + TTL

Times == 0..MaxTime
Versions == 0..MaxVersion

\* An answer: its version, when the node gave it, and whether a transaction
\* was confirmed to this page while it travelled.
Answers == [version : Versions, asOf : Times, raced : BOOLEAN]
Entries == [answer : Answers, expires : Nat]
ReadPhases == {"idle", "asked", "answered"}
Reads == [phase : ReadPhases, method : Methods, answer : Answers]

ASSUME NoEntryAssumption == NoEntry \notin Entries

VARIABLES
  now,        \* Date.now()
  version,    \* the contract's version on the ledger
  store,      \* the cache: an entry or NoEntry for each method
  read,       \* each reader's call of simulateView
  confirmed   \* history: the version at the last invalidation

cacheVars == <<now, version, store, read, confirmed>>

NoAnswer == [version |-> 0, asOf |-> 0, raced |-> FALSE]
Idle(m) == [phase |-> "idle", method |-> m, answer |-> NoAnswer]

CacheInit ==
  /\ now = 0 /\ version = 0 /\ confirmed = 0
  /\ store = [m \in Methods |-> NoEntry]
  /\ \E m \in Methods : read = [r \in Readers |-> Idle(m)]

-----------------------------------------------------------------------------
Expired(entry) == now > entry.expires

\* cacheGet answers from the cache.
Hit(m) == store[m] # NoEntry /\ ~Expired(store[m])

\* cacheGet: an expired entry is deleted.
AfterGet(m) == IF Hit(m) THEN store ELSE [store EXCEPT ![m] = NoEntry]

\* expiresAt, as cacheSet computes it.
ExpiresAt(m) == IF m \in Static THEN Infinity ELSE now + TTL

\* cacheInvalidateLive removes the entries that expire at all.
Live == {m \in Methods : store[m] # NoEntry /\ store[m].expires # Infinity}
\* Mutant: the entries that never expire are removed instead.
AfterInvalidateStatic == [m \in Methods |-> IF m \in Live THEN store[m] ELSE NoEntry]
AfterInvalidate == [m \in Methods |-> IF m \in Live THEN NoEntry ELSE store[m]]

\* History: an answer under way is older than the confirmation.
Raced == [r \in Readers |-> IF read[r].phase = "answered"
                            THEN [read[r] EXCEPT !.answer.raced = TRUE]
                            ELSE read[r]]

\* simulateView, up to the request.  A hit changes nothing.
BeginRead(r, m) ==
  /\ read[r].phase = "idle"
  /\ ~Hit(m)
  /\ store' = AfterGet(m)
  /\ read' = [read EXCEPT ![r] = [Idle(m) EXCEPT !.phase = "asked"]]
  /\ UNCHANGED <<now, version, confirmed>>

\* The RPC node simulates the call.
AnswerRead(r) ==
  /\ read[r].phase = "asked"
  /\ read' = [read EXCEPT ![r].phase = "answered",
                          ![r].answer = [version |-> version, asOf |-> now,
                                         raced |-> FALSE]]
  /\ UNCHANGED <<now, version, store, confirmed>>

\* simulateView resumes with the answer: cacheSet.
FinishRead(r) ==
  LET m == read[r].method
      entry == [answer |-> read[r].answer, expires |-> ExpiresAt(m)]
  IN /\ read[r].phase = "answered"
     /\ store' = [store EXCEPT ![m] = entry]
     /\ read' = [read EXCEPT ![r] = Idle(m)]
     /\ UNCHANGED <<now, version, confirmed>>

\* The request fails or the simulation is an error: simulateView throws.
FailRead(r) ==
  /\ read[r].phase # "idle"
  /\ read' = [read EXCEPT ![r] = Idle(read[r].method)]
  /\ UNCHANGED <<now, version, store, confirmed>>

\* A transaction of somebody else is applied.
OthersChange ==
  /\ version < MaxVersion
  /\ version' = version + 1
  /\ UNCHANGED <<now, store, read, confirmed>>

\* Time passes; no answer travels longer than Latency.  The clock stands
\* still while nothing in the cache depends on it.
Tick ==
  /\ now < MaxTime
  /\ \/ \E m \in Methods : store[m] # NoEntry
     \/ \E r \in Readers : read[r].phase = "answered"
  /\ \A r \in Readers :
       read[r].phase = "answered" => now < read[r].answer.asOf + Latency
  /\ now' = now + 1
  /\ UNCHANGED <<version, store, read, confirmed>>

CacheNext ==
  \/ \E r \in Viewers, m \in Methods : BeginRead(r, m)
  \/ \E r \in Readers : AnswerRead(r) \/ FinishRead(r) \/ FailRead(r)
  \/ OthersChange
  \/ Tick

-----------------------------------------------------------------------------
CacheTypeOK ==
  /\ now \in Times
  /\ version \in Versions
  /\ confirmed \in Versions
  /\ store \in [Methods -> Entries \cup {NoEntry}]
  /\ read \in [Readers -> Reads]

\* What the cache would answer for a method was true of the contract no
\* longer ago than the entry's lifetime and its answer's journey.
StalenessBounded ==
  \A m \in Methods \ Static :
    Hit(m) => now <= store[m].answer.asOf + TTL + Latency

\* What the cache would answer includes every transaction that was confirmed
\* to this page, unless the answer was under way at the confirmation.
ReadYourWrites ==
  \A m \in Methods \ Static :
    Hit(m) => \/ store[m].answer.version >= confirmed
              \/ store[m].answer.raced

\* Cached live data (get_stats) is recent: bounded in age whatever the order
\* in which reads end, and not older than a confirmed transaction of this
\* page except when an answer overtakes the invalidation.
ReadsAreRecent == StalenessBounded /\ ReadYourWrites
=============================================================================
