------------------------- MODULE PledgeClientProofs -------------------------
(***************************************************************************)
(* Proofs about the campaign page: its types, that invokeContract reports  *)
(* what happened, that no reported failure stays in the total, that a      *)
(* panel has one call at a time, and how old a cached read may be.         *)
(***************************************************************************)
EXTENDS PledgeClient, TLAPS

USE CacheAssumption, NoEntryAssumption, PledgeAssumption

\* The cache is untouched, or one of its own actions took place.
CacheStep == UNCHANGED cacheVars \/ CacheNext

\* The records the page starts from and goes back to have their types.
LEMMA FreshRecords ==
  /\ NewCall \in CallRecords
  /\ \A why \in Outcomes : Ended(why) \in CallRecords
  /\ \A m \in Methods : Idle(m) \in Reads
  /\ \A m \in Methods : [Idle(m) EXCEPT !.phase = "asked"] \in Reads
PROOF
  <1>1. NewCall \in CallRecords
    BY DEF NewCall, CallRecords, Phases, Panels, Kinds, Outcomes
  <1>2. \A why \in Outcomes : Ended(why) \in CallRecords
    BY <1>1 DEF Ended, CallRecords, Phases
  <1>3. NoAnswer \in Answers
    BY DEF NoAnswer, Answers, Times, Versions
  <1>4. \A m \in Methods : Idle(m) \in Reads
    BY <1>3 DEF Idle, Reads, ReadPhases
  <1>5. \A m \in Methods : [Idle(m) EXCEPT !.phase = "asked"] \in Reads
    BY <1>4 DEF Reads, ReadPhases
  <1> QED
    BY <1>1, <1>2, <1>4, <1>5

\* A call that goes on to another phase keeps its type.
LEMMA PhaseType ==
  ASSUME NEW r \in CallRecords, NEW ph \in Phases
  PROVE  [r EXCEPT !.phase = ph] \in CallRecords
  BY DEF CallRecords

LEMMA InitType == Init => TypeOK
PROOF
  <1> SUFFICES ASSUME Init
               PROVE  TypeOK
    OBVIOUS
  <1>1. CacheTypeOK
    BY FreshRecords DEF Init, CacheInit, CacheTypeOK, Times, Versions
  <1>2. call \in [Calls -> CallRecords]
    BY FreshRecords DEF Init
  <1> QED
    BY <1>1, <1>2 DEF Init, TypeOK, TxStatuses, Fates

\* The cache's own actions keep the types of the cache.
LEMMA CacheTypeStep ==
  ASSUME CacheTypeOK, CacheNext
  PROVE  CacheTypeOK'
PROOF
  <1> USE DEF CacheTypeOK, Times, Versions, ReadPhases
  <1>1. ASSUME NEW r \in Readers, NEW m \in Methods, BeginRead(r, m)
        PROVE  CacheTypeOK'
    <2>1. AfterGet(m) \in [Methods -> Entries \cup {NoEntry}]
      BY DEF AfterGet
    <2> QED
      BY <1>1, <2>1, FreshRecords DEF BeginRead
  <1>2. ASSUME NEW r \in Readers, AnswerRead(r)
        PROVE  CacheTypeOK'
    BY <1>2 DEF AnswerRead, Reads, Answers
  <1>3. ASSUME NEW r \in Readers, FinishRead(r)
        PROVE  CacheTypeOK'
    <2>1. /\ read[r].method \in Methods /\ read[r].answer \in Answers
          /\ ExpiresAt(read[r].method) \in Nat
      BY <1>3 DEF ExpiresAt, Reads
    <2>2. [answer |-> read[r].answer, expires |-> ExpiresAt(read[r].method)] \in Entries
      BY <2>1 DEF Entries
    <2> QED
      BY <1>3, <2>1, <2>2, FreshRecords DEF FinishRead
  <1>4. ASSUME NEW r \in Readers, FailRead(r)
        PROVE  CacheTypeOK'
    BY <1>4, FreshRecords DEF FailRead, Reads
  <1>5. CASE OthersChange
    BY <1>5 DEF OthersChange
  <1>6. CASE Tick
    BY <1>6 DEF Tick
  <1> QED
    BY <1>1, <1>2, <1>3, <1>4, <1>5, <1>6 DEF CacheNext

\* Setting a panel's state keeps its types.
LEMMA SetPanelType ==
  ASSUME TypeOK, NEW p \in Panels, NEW s \in TxStatuses, NEW b \in BOOLEAN,
         SetPanel(p, s, b)
  PROVE  txStatus' \in [Panels -> TxStatuses] /\ pendingTx' \in [Panels -> BOOLEAN]
  BY DEF TypeOK, SetPanel

LEMMA ThrowsType ==
  ASSUME TypeOK, NEW c \in Calls, NEW why \in Outcomes, Throws(c, why),
         isSigning' \in BOOLEAN, fate' \in [Calls -> Fates]
  PROVE  TypeOK'
PROOF
  <1>1. Ended(why) \in CallRecords
    BY FreshRecords
  <1>2. call[c].panel \in Panels /\ "error" \in TxStatuses
    BY DEF TypeOK, TxStatuses, CallRecords
  <1>3. txStatus' \in [Panels -> TxStatuses] /\ pendingTx' \in [Panels -> BOOLEAN]
    BY <1>2, SetPanelType DEF Throws
  <1> QED
    BY <1>1, <1>3 DEF Throws, TypeOK, CacheTypeOK, cacheVars

\* What a person does on the page keeps the types.
LEMMA PageTypeStep ==
  ASSUME TypeOK, PageNext
  PROVE  TypeOK'
PROOF
  <1> USE DEF TypeOK, CacheTypeOK, cacheVars
  <1>1. ASSUME NEW m \in Modals,
               OpenModal(m) \/ ConfirmPledge(m) \/ RejectAmount(m)
        PROVE  TypeOK'
    BY <1>1 DEF OpenModal, ConfirmPledge, RejectAmount
  <1>2. CASE CloseModal
    <2>1. shown \in Panels /\ "idle" \in TxStatuses
      BY <1>2 DEF CloseModal, Panels, TxStatuses
    <2>2. txStatus' \in [Panels -> TxStatuses] /\ pendingTx' \in [Panels -> BOOLEAN]
      BY <1>2, <2>1, SetPanelType DEF CloseModal
    <2> QED
      BY <1>2, <2>2 DEF CloseModal
  <1>3. ASSUME NEW c \in Calls, NEW p \in Panels, NEW k \in Kinds, Start(c, p, k),
               timer' \subseteq Modals, delta' \in Calls \cup {NoCall}
        PROVE  TypeOK'
    <2>1. txStatus' \in [Panels -> TxStatuses] /\ pendingTx' \in [Panels -> BOOLEAN]
      BY <1>3, SetPanelType DEF Start, TxStatuses
    <2>2. call' \in [Calls -> CallRecords]
      BY <1>3, FreshRecords DEF Start, CallRecords, Phases
    <2> QED
      BY <1>3, <2>1, <2>2 DEF Start
  <1>4. ASSUME NEW m \in Modals, NEW c \in Calls, StartPledge(m, c)
        PROVE  TypeOK'
    BY <1>3, <1>4 DEF StartPledge, Panels, Kinds
  <1>5. ASSUME NEW c \in Calls, NEW k \in Claims, StartClaim(c, k)
        PROVE  TypeOK'
    <2>1. k \in Kinds /\ Page \in Panels
      BY DEF Panels, Kinds
    <2> QED
      BY <1>3, <1>5, <2>1 DEF StartClaim
  <1>6. ASSUME NEW p \in Panels, Dismiss(p)
        PROVE  TypeOK'
    BY <1>6 DEF Dismiss, TxStatuses
  <1> QED
    BY <1>1, <1>2, <1>4, <1>5, <1>6 DEF PageNext

\* invokeContract keeps the types.
LEMMA CallTypeStep ==
  ASSUME TypeOK, NEW c \in Calls,
         Build(c) \/ Sign(c) \/ Send(c) \/ Decide(c) \/ Poll(c)
  PROVE  TypeOK'
PROOF
  <1> USE DEF TypeOK, CacheTypeOK, cacheVars, uiVars
  <1>0. {"refused", "failed", "broken", "unconfirmed", "success"} \subseteq Outcomes
    BY DEF Outcomes
  <1>1. CASE Build(c)
    <2>1. CASE Throws(c, "refused") /\ UNCHANGED <<isSigning, fate>>
      BY <2>1, <1>0, ThrowsType
    <2>2. CASE call' = [call EXCEPT ![c].phase = "signing"]
      <3>1. call' \in [Calls -> CallRecords]
        BY <2>2, PhaseType DEF Phases
      <3>2. Throws(c, "refused") \/ (isSigning' = TRUE /\ UNCHANGED <<cacheVars, uiVars, delta, fate>>)
        BY <1>1 DEF Build
      <3> QED
        BY <2>1, <3>1, <3>2, <1>1 DEF Build
    <2> QED
      BY <1>1, <2>1, <2>2 DEF Build
  <1>2. CASE Sign(c)
    <2>1. CASE Throws(c, "refused") /\ UNCHANGED fate
      BY <1>2, <2>1, <1>0, ThrowsType DEF Sign
    <2>2. CASE ~Throws(c, "refused")
      <3>0. call[c].panel \in Panels /\ "submitting" \in TxStatuses
        BY DEF CallRecords, TxStatuses
      <3>1. txStatus' \in [Panels -> TxStatuses] /\ pendingTx' \in [Panels -> BOOLEAN]
        BY <1>2, <2>2, <3>0, SetPanelType DEF Sign
      <3>2. call' \in [Calls -> CallRecords]
        <4>1. call' = [call EXCEPT ![c].phase = "sending"]
          BY <1>2, <2>2 DEF Sign
        <4> QED
          BY <4>1, PhaseType DEF Phases
      <3> QED
        BY <1>2, <2>2, <3>1, <3>2 DEF Sign
    <2> QED
      BY <1>2, <2>1, <2>2 DEF Sign
  <1>3. CASE Send(c)
    <2>1. fate' \in [Calls -> Fates] /\ isSigning' \in BOOLEAN
      BY <1>3 DEF Send, Fates
    <2>2. CASE Throws(c, "refused") \/ Throws(c, "broken")
      BY <2>1, <2>2, <1>0, ThrowsType
    <2>3. CASE call' = [call EXCEPT ![c].phase = "polling"]
      BY <1>3, <2>1, <2>2, <2>3 DEF Send, CallRecords, Phases
    <2> QED
      BY <1>3, <2>1, <2>2, <2>3 DEF Send
  <1>4. CASE Decide(c)
    BY <1>4 DEF Decide, Fates, Versions
  <1>5. CASE PollSuccess(c)
    <2>1. call[c].panel \in Panels /\ "success" \in TxStatuses
      BY DEF TxStatuses, CallRecords
    <2>2. txStatus' \in [Panels -> TxStatuses] /\ pendingTx' \in [Panels -> BOOLEAN]
      BY <1>5, <2>1, SetPanelType DEF PollSuccess
    <2>3. Ended("success") \in CallRecords
      BY <1>0, FreshRecords
    <2>4. store' \in [Methods -> Entries \cup {NoEntry}]
      BY <1>5 DEF PollSuccess, AfterInvalidate
    <2>5. Raced \in [Readers -> Reads]
      <3>1. \A r \in Readers : [read[r] EXCEPT !.answer.raced = TRUE] \in Reads
        <4>1. \A a \in Answers : [a EXCEPT !.raced = TRUE] \in Answers
          BY DEF Answers
        <4>2. \A x \in Reads, a \in Answers : [x EXCEPT !.answer = a] \in Reads
          BY DEF Reads
        <4>3. \A x \in Reads : x.answer \in Answers
          BY DEF Reads
        <4> QED
          BY <4>1, <4>2, <4>3
      <3> QED
        BY <3>1 DEF Raced
    <2>6. [Idle("get_stats") EXCEPT !.phase = "asked"]
            \in Reads
      BY FreshRecords
    <2>7. read' \in [Readers -> Reads]
      BY <1>5, <2>5, <2>6 DEF PollSuccess
    <2> QED
      BY <1>5, <2>2, <2>3, <2>4, <2>7 DEF PollSuccess
  <1>6. CASE PollThrows(c)
    BY <1>6, <1>0, ThrowsType DEF PollThrows
  <1>7. CASE PollNothing(c)
    <2>1. CASE call[c].polls + 1 < MaxPolls
      <3>1. call' \in [Calls -> CallRecords]
        BY <1>7, <2>1 DEF PollNothing, CallRecords
      <3> QED
        BY <1>7, <2>1, <3>1 DEF PollNothing
    <2>2. CASE ~(call[c].polls + 1 < MaxPolls)
      BY <1>7, <2>2, <1>0, ThrowsType DEF PollNothing
    <2> QED
      BY <2>1, <2>2
  <1> QED
    BY <1>1, <1>2, <1>3, <1>4, <1>5, <1>6, <1>7 DEF Poll

\* The variables of the page keep their types in every behaviour.
THEOREM PageTypeCorrect == Spec => []TypeOK
PROOF
  <1>1. TypeOK /\ [Next]_vars => TypeOK'
    <2> SUFFICES ASSUME TypeOK, [Next]_vars
                 PROVE  TypeOK'
      OBVIOUS
    <2>1. CASE CacheNext /\ UNCHANGED pledgeVars
      BY <2>1, CacheTypeStep DEF TypeOK, pledgeVars, uiVars
    <2>2. CASE PageNext
      BY <2>2, PageTypeStep
    <2>3. CASE CallNext
      BY <2>3, CallTypeStep DEF CallNext
    <2>4. CASE UNCHANGED vars
      BY <2>4 DEF TypeOK, CacheTypeOK, vars, cacheVars, pledgeVars, uiVars
    <2> QED
      BY <2>1, <2>2, <2>3, <2>4 DEF Next
  <1> QED
    BY InitType, <1>1, PTL DEF Spec

-----------------------------------------------------------------------------
(* What a call reports, and what the total shows.                          *)

\* A call has no outcome before it is done, and its transaction does not
\* exist before it is sent; the total's pledge has begun.
ReportInv ==
  /\ \A c \in Calls :
       /\ call[c].phase # "done" => call[c].outcome = "none"
       /\ call[c].phase \in {"none", "building", "signing", "sending"} =>
            fate[c] = "none"
  /\ delta # NoCall => call[delta].kind = "pledge" /\ call[delta].phase # "none"
  /\ ReportsAreTrue
  /\ NoGhostPledge

\* What is left of a call that ended.
LEMMA EndedRecord ==
  ASSUME NEW why
  PROVE  /\ Ended(why).phase = "done" /\ Ended(why).outcome = why
         /\ Ended(why).kind = "pledge" /\ Ended(why).panel = Page
  BY DEF Ended, NewCall

\* A call that throws is reported truthfully, and its pledge leaves the total.
LEMMA ThrowsReport ==
  ASSUME TypeOK, ReportInv, NEW c \in Calls, NEW why \in Outcomes, Throws(c, why),
         why # "success",
         \A d \in Calls \ {c} : fate'[d] = fate[d],
         why \in {"refused", "failed"} => fate'[c] \notin {"pending", "applied"}
  PROVE  ReportInv'
PROOF
  <1>1. /\ \A d \in Calls \ {c} : call'[d] = call[d]
        /\ call'[c] = Ended(why)
    BY DEF Throws, TypeOK
  <1>2. delta' # NoCall => delta' = delta /\ delta \in Calls \ {c}
    BY DEF Throws, TypeOK, ReportInv
  <1> QED
    BY <1>1, <1>2, EndedRecord DEF ReportInv, ReportsAreTrue, NoGhostPledge

\* Starting a call reports nothing.
LEMMA StartReport ==
  ASSUME TypeOK, ReportInv, NEW c \in Calls, NEW p, NEW k, Start(c, p, k),
         delta' = delta \/ (delta' = c /\ k = "pledge")
  PROVE  ReportInv'
PROOF
  <1>1. /\ \A d \in Calls \ {c} : call'[d] = call[d]
        /\ \A d \in Calls : fate'[d] = fate[d]
        /\ fate[c] = "none"
        /\ call[c].phase = "none"
    BY DEF Start, TypeOK, ReportInv
  <1>2. /\ call'[c].phase = "building" /\ call'[c].outcome = "none"
        /\ call'[c].kind = k
    BY DEF Start, TypeOK, NewCall
  <1>3. delta # NoCall => delta \in Calls \ {c} /\ call'[delta] = call[delta]
    BY <1>1 DEF ReportInv, TypeOK
  <1>4. delta' # NoCall => /\ call'[delta'].kind = "pledge"
                           /\ call'[delta'].phase # "none"
                           /\ call'[delta'].outcome \in {"none", "success"}
    <2>1. CASE delta' = c /\ k = "pledge"
      BY <2>1, <1>2
    <2>2. CASE delta' = delta
      BY <2>2, <1>3 DEF ReportInv, NoGhostPledge
    <2> QED
      BY <2>1, <2>2
  <1>5. ASSUME NEW d \in Calls
        PROVE  /\ call'[d].phase # "done" => call'[d].outcome = "none"
               /\ call'[d].phase \in {"none", "building", "signing", "sending"} =>
                    fate'[d] = "none"
               /\ call'[d].outcome = "success" => fate'[d] = "applied"
               /\ call'[d].outcome \in {"refused", "failed"} =>
                    fate'[d] \notin {"pending", "applied"}
    <2>1. CASE d = c
      BY <2>1, <1>1, <1>2
    <2>2. CASE d # c
      <3>1. call'[d] = call[d] /\ fate'[d] = fate[d]
        BY <2>2, <1>1
      <3> QED
        BY <3>1 DEF ReportInv, ReportsAreTrue
    <2> QED
      BY <2>1, <2>2
  <1> QED
    BY <1>4, <1>5 DEF ReportInv, ReportsAreTrue, NoGhostPledge

\* A call that goes on without ending reports nothing.
LEMMA GoesOnReport ==
  ASSUME TypeOK, ReportInv, NEW c \in Calls, UNCHANGED delta,
         \A d \in Calls \ {c} : call'[d] = call[d] /\ fate'[d] = fate[d],
         call'[c].outcome = "none", call[c].outcome = "none",
         call'[c].kind = call[c].kind, call'[c].phase # "none",
         call'[c].phase \in {"building", "signing", "sending"} => fate'[c] = "none"
  PROVE  ReportInv'
  BY DEF ReportInv, ReportsAreTrue, NoGhostPledge, TypeOK

LEMMA CallReport ==
  ASSUME TypeOK, ReportInv, NEW c \in Calls,
         Build(c) \/ Sign(c) \/ Send(c) \/ Decide(c) \/ Poll(c)
  PROVE  ReportInv'
PROOF
  <1>0. {"refused", "failed", "broken", "unconfirmed"} \subseteq Outcomes
    BY DEF Outcomes
  <1>1. CASE Build(c)
    <2>1. CASE Throws(c, "refused") /\ UNCHANGED fate
      BY <1>1, <2>1, <1>0, ThrowsReport DEF Build, ReportInv
    <2>2. CASE call' = [call EXCEPT ![c].phase = "signing"] /\ UNCHANGED <<delta, fate>>
      BY <1>1, <2>2, GoesOnReport DEF Build, ReportInv, TypeOK, CallRecords
    <2> QED
      BY <1>1, <2>1, <2>2 DEF Build
  <1>2. CASE Sign(c)
    <2>1. CASE Throws(c, "refused") /\ UNCHANGED fate
      BY <1>2, <2>1, <1>0, ThrowsReport DEF Sign, ReportInv
    <2>2. CASE call' = [call EXCEPT ![c].phase = "sending"] /\ UNCHANGED <<delta, fate>>
      BY <1>2, <2>2, GoesOnReport DEF Sign, ReportInv, TypeOK, CallRecords
    <2> QED
      BY <1>2, <2>1, <2>2 DEF Sign
  <1>3. CASE Send(c)
    <2>1. CASE Throws(c, "refused") /\ UNCHANGED fate
      BY <1>3, <2>1, <1>0, ThrowsReport DEF Send, ReportInv
    <2>2. CASE /\ Throws(c, "broken")
               /\ fate' = [fate EXCEPT ![c] = "pending"] \/ UNCHANGED fate
      BY <2>2, <1>0, ThrowsReport DEF TypeOK
    <2>3. CASE /\ call' = [call EXCEPT ![c].phase = "polling"] /\ UNCHANGED delta
               /\ fate' = [fate EXCEPT ![c] = "pending"]
      BY <1>3, <2>3, GoesOnReport DEF Send, ReportInv, TypeOK, CallRecords
    <2> QED
      BY <1>3, <2>1, <2>2, <2>3 DEF Send
  <1>4. CASE Decide(c)
    <2>1. call' = call /\ delta' = delta /\ fate[c] = "pending"
      BY <1>4 DEF Decide
    <2>2. /\ \A d \in Calls \ {c} : fate'[d] = fate[d]
          /\ fate'[c] \in {"applied", "failed"}
      BY <1>4 DEF Decide, TypeOK
    <2> QED
      BY <2>1, <2>2 DEF ReportInv, ReportsAreTrue, NoGhostPledge
  <1>5. CASE PollSuccess(c)
    <2>1. /\ \A d \in Calls \ {c} : call'[d] = call[d]
          /\ call'[c] = Ended("success")
          /\ delta' = delta /\ fate' = fate /\ fate[c] = "applied"
      BY <1>5 DEF PollSuccess, TypeOK
    <2> QED
      BY <2>1, EndedRecord DEF ReportInv, ReportsAreTrue, NoGhostPledge, TypeOK
  <1>6. CASE PollThrows(c)
    BY <1>6, <1>0, ThrowsReport DEF PollThrows
  <1>7. CASE PollNothing(c)
    <2>1. CASE Throws(c, "unconfirmed") /\ UNCHANGED fate
      BY <2>1, <1>0, ThrowsReport
    <2>2. CASE call' = [call EXCEPT ![c].polls = @ + 1] /\ UNCHANGED <<delta, fate>>
      BY <1>7, <2>2, GoesOnReport DEF PollNothing, ReportInv, TypeOK, CallRecords
    <2> QED
      BY <1>7, <2>1, <2>2 DEF PollNothing
  <1> QED
    BY <1>1, <1>2, <1>3, <1>4, <1>5, <1>6, <1>7 DEF Poll

LEMMA PageReport ==
  ASSUME TypeOK, ReportInv, PageNext
  PROVE  ReportInv'
PROOF
  <1>1. ASSUME UNCHANGED <<call, fate, delta>>
        PROVE  ReportInv'
    BY <1>1 DEF ReportInv, ReportsAreTrue, NoGhostPledge
  <1>2. ASSUME NEW m \in Modals, NEW c \in Calls, StartPledge(m, c)
        PROVE  ReportInv'
    BY <1>2, StartReport DEF StartPledge
  <1>3. ASSUME NEW c \in Calls, NEW k \in Claims, StartClaim(c, k)
        PROVE  ReportInv'
    BY <1>3, StartReport DEF StartClaim
  <1> QED
    BY <1>1, <1>2, <1>3
       DEF PageNext, OpenModal, ConfirmPledge, RejectAmount, CloseModal, Dismiss

LEMMA ReportInvariant == Spec => []ReportInv
PROOF
  <1>1. Init => ReportInv
    BY DEF Init, ReportInv, ReportsAreTrue, NoGhostPledge, NewCall
  <1>2. TypeOK /\ ReportInv /\ [Next]_vars => ReportInv'
    <2> SUFFICES ASSUME TypeOK, ReportInv, [Next]_vars
                 PROVE  ReportInv'
      OBVIOUS
    <2>1. CASE UNCHANGED <<call, fate, delta>>
      BY <2>1 DEF ReportInv, ReportsAreTrue, NoGhostPledge
    <2>2. CASE PageNext
      BY <2>2, PageReport
    <2>3. CASE CallNext
      BY <2>3, CallReport DEF CallNext
    <2> QED
      BY <2>1, <2>2, <2>3 DEF Next, vars, pledgeVars
  <1> QED
    BY <1>1, <1>2, PageTypeCorrect, PTL DEF Spec

\* invokeContract reports what happened on the ledger.
THEOREM ReportsCorrect == Spec => []ReportsAreTrue
  BY ReportInvariant, PTL DEF ReportInv

\* The optimistic total of useCampaign adds no pledge reported as an error.
THEOREM NoGhosts == Spec => []NoGhostPledge
  BY ReportInvariant, PTL DEF ReportInv

-----------------------------------------------------------------------------
(* One call at a time.                                                     *)

Active(c) == call[c].phase \notin {"none", "done"}

\* A panel on screen with a call under way shows it; a modal whose timer is
\* set has none, and modals are not opened twice.
PanelInv ==
  /\ timer \subseteq opened
  /\ shown # NoModal => shown \in opened
  /\ \A c \in Calls : Active(c) =>
       /\ call[c].panel \in opened \cup {Page}
       /\ call[c].panel \in {Page, shown} => pendingTx[call[c].panel]
       /\ call[c].panel \notin timer
  /\ OneCallPerPanel

\* A call that ends frees its panel.
LEMMA EndPanel ==
  ASSUME TypeOK, PanelInv, NEW c \in Calls, Active(c), NEW why, NEW s,
         call' = [call EXCEPT ![c] = Ended(why)],
         SetPanel(call[c].panel, s, FALSE), UNCHANGED <<shown, opened, timer>>
  PROVE  PanelInv'
PROOF
  <1>1. /\ \A d \in Calls \ {c} : call'[d] = call[d]
        /\ call'[c].phase = "done"
    BY EndedRecord DEF TypeOK
  <1>2. \A d \in Calls \ {c} : Active(d) =>
          call[d].panel # call[c].panel
    BY DEF PanelInv, OneCallPerPanel, Active
  <1>3. \A q \in Panels \ {call[c].panel} : pendingTx'[q] = pendingTx[q]
    BY DEF SetPanel, TypeOK
  <1>4. ASSUME NEW d \in Calls, Active(d)'
        PROVE  d # c /\ Active(d) /\ call'[d] = call[d] /\ call[d].panel \in Panels
    BY <1>1, <1>4 DEF Active, TypeOK, CallRecords
  <1> QED
    BY <1>2, <1>3, <1>4 DEF PanelInv, OneCallPerPanel, Active

LEMMA ThrowsPanel ==
  ASSUME TypeOK, PanelInv, NEW c \in Calls, Active(c), NEW why, Throws(c, why)
  PROVE  PanelInv'
  BY EndPanel DEF Throws

\* A call that goes on keeps its panel.
LEMMA GoesOnPanel ==
  ASSUME TypeOK, PanelInv, NEW c \in Calls, NEW r,
         call' = [call EXCEPT ![c] = r], Active(c), r.panel = call[c].panel,
         UNCHANGED <<shown, opened, timer>>,
         \A q \in Panels : pendingTx[q] => pendingTx'[q]
  PROVE  PanelInv'
PROOF
  <1>1. \A d \in Calls : call'[d].panel = call[d].panel
    BY DEF TypeOK
  <1>2. \A d \in Calls : Active(d)' => Active(d)
    BY DEF TypeOK, Active
  <1>3. \A d \in Calls : call[d].panel \in Panels
    BY DEF TypeOK, CallRecords
  <1> QED
    BY <1>1, <1>2, <1>3 DEF PanelInv, OneCallPerPanel, Active

LEMMA CallPanel ==
  ASSUME TypeOK, PanelInv, NEW c \in Calls,
         Build(c) \/ Sign(c) \/ Send(c) \/ Decide(c) \/ Poll(c)
  PROVE  PanelInv'
PROOF
  <1>0. \A ph : [call[c] EXCEPT !.phase = ph].panel = call[c].panel
    BY DEF TypeOK, CallRecords
  <1>1. CASE Build(c)
    <2>1. Active(c)
      BY <1>1 DEF Build, Active
    <2>2. CASE Throws(c, "refused")
      BY <2>1, <2>2, ThrowsPanel
    <2>3. CASE /\ call' = [call EXCEPT ![c].phase = "signing"]
               /\ UNCHANGED <<cacheVars, uiVars, delta, fate>>
      BY <2>1, <2>3, <1>0, GoesOnPanel DEF uiVars
    <2> QED
      BY <1>1, <2>2, <2>3 DEF Build
  <1>2. CASE Sign(c)
    <2>1. Active(c)
      BY <1>2 DEF Sign, Active
    <2>2. CASE Throws(c, "refused")
      BY <2>1, <2>2, ThrowsPanel
    <2>3. CASE /\ call' = [call EXCEPT ![c].phase = "sending"]
               /\ SetPanel(call[c].panel, "submitting", TRUE)
               /\ UNCHANGED <<cacheVars, shown, opened, timer, delta, fate>>
      <3>1. \A q \in Panels : pendingTx[q] => pendingTx'[q]
        BY <2>3 DEF SetPanel, TypeOK
      <3> QED
        BY <2>1, <2>3, <3>1, <1>0, GoesOnPanel
    <2> QED
      BY <1>2, <2>2, <2>3 DEF Sign
  <1>3. CASE Send(c)
    <2>1. Active(c)
      BY <1>3 DEF Send, Active
    <2>2. CASE Throws(c, "refused") \/ Throws(c, "broken")
      BY <2>1, <2>2, ThrowsPanel
    <2>3. CASE /\ call' = [call EXCEPT ![c].phase = "polling"]
               /\ UNCHANGED <<cacheVars, uiVars, delta>>
      BY <2>1, <2>3, <1>0, GoesOnPanel DEF uiVars
    <2> QED
      BY <1>3, <2>2, <2>3 DEF Send
  <1>4. CASE Decide(c)
    BY <1>4 DEF Decide, uiVars, PanelInv, OneCallPerPanel, Active
  <1>5. CASE PollSuccess(c)
    <2>1. Active(c)
      BY <1>5 DEF PollSuccess, Active
    <2> QED
      BY <1>5, <2>1, EndPanel DEF PollSuccess
  <1>6. CASE PollThrows(c)
    BY <1>6, ThrowsPanel DEF PollThrows, Active
  <1>7. CASE PollNothing(c)
    <2>1. Active(c)
      BY <1>7 DEF PollNothing, Active
    <2>2. CASE Throws(c, "unconfirmed")
      BY <2>1, <2>2, ThrowsPanel
    <2>3. CASE /\ call' = [call EXCEPT ![c].polls = @ + 1]
               /\ UNCHANGED <<cacheVars, uiVars, delta>>
      <3>1. [call[c] EXCEPT !.polls = @ + 1].panel = call[c].panel
        BY DEF TypeOK, CallRecords
      <3> QED
        BY <2>1, <2>3, <3>1, GoesOnPanel DEF uiVars
    <2> QED
      BY <1>7, <2>2, <2>3 DEF PollNothing
  <1> QED
    BY <1>1, <1>2, <1>3, <1>4, <1>5, <1>6, <1>7 DEF Poll

\* A panel without a call under way starts one.
LEMMA StartPanel ==
  ASSUME TypeOK, PanelInv, NEW c \in Calls, NEW p \in Panels, NEW k, Start(c, p, k),
         p \in opened \cup {Page}, p \notin timer', timer' \subseteq timer,
         \A d \in Calls : Active(d) => call[d].panel # p
  PROVE  PanelInv'
PROOF
  <1>1. /\ \A d \in Calls \ {c} : call'[d] = call[d]
        /\ call'[c].panel = p
        /\ call[c].phase = "none"
    BY DEF Start, TypeOK, NewCall
  <1>2. /\ p \in {Page, shown} => pendingTx'[p]
        /\ \A q \in Panels : pendingTx[q] => pendingTx'[q]
    BY DEF Start, SetPanel, TypeOK
  <1>3. \A d \in Calls : call[d].panel \in Panels
    BY DEF TypeOK, CallRecords
  <1>4. \A d \in Calls \ {c} : Active(d)' => Active(d)
    BY <1>1 DEF Active
  <1>5. OneCallPerPanel'
    BY <1>1, <1>4 DEF PanelInv, OneCallPerPanel, Active
  <1>6. ASSUME NEW d \in Calls, Active(d)'
        PROVE  /\ call'[d].panel \in opened \cup {Page}
               /\ call'[d].panel \in {Page, shown} => pendingTx'[call'[d].panel]
               /\ call'[d].panel \notin timer'
    <2>1. CASE d = c
      BY <2>1, <1>1, <1>2
    <2>2. CASE d # c
      BY <2>2, <1>1, <1>2, <1>3, <1>4, <1>6 DEF PanelInv
    <2> QED
      BY <2>1, <2>2
  <1> QED
    BY <1>5, <1>6 DEF Start, PanelInv

LEMMA PagePanel ==
  ASSUME TypeOK, PanelInv, PageNext
  PROVE  PanelInv'
PROOF
  <1>0. \A d \in Calls : call[d].panel \in Panels
    BY DEF TypeOK, CallRecords
  <1>1. ASSUME NEW m \in Modals, OpenModal(m)
        PROVE  PanelInv'
    BY <1>1, <1>0 DEF OpenModal, PanelInv, OneCallPerPanel, Active, Panels, TypeOK
  <1>2. ASSUME NEW m \in Modals, ConfirmPledge(m)
        PROVE  PanelInv'
    BY <1>2, <1>0 DEF ConfirmPledge, IsProcessing, PanelInv, OneCallPerPanel, Active
  <1>3. ASSUME NEW m \in Modals, RejectAmount(m)
        PROVE  PanelInv'
    BY <1>3 DEF RejectAmount, PanelInv, OneCallPerPanel, Active
  <1>4. CASE CloseModal
    <2>1. \A q \in Panels \ {shown} : pendingTx'[q] = pendingTx[q]
      BY <1>4 DEF CloseModal, SetPanel, TypeOK
    <2> QED
      BY <1>4, <2>1, <1>0 DEF CloseModal, PanelInv, OneCallPerPanel, Active, TypeOK, Panels
  <1>5. ASSUME NEW m \in Modals, NEW c \in Calls, StartPledge(m, c)
        PROVE  PanelInv'
    <2>1. m \in Panels /\ m \in opened /\ timer' = timer \ {m}
      BY <1>5 DEF StartPledge, PanelInv, Panels
    <2>2. \A d \in Calls : Active(d) => call[d].panel # m
      BY <1>5 DEF StartPledge, PanelInv
    <2> QED
      BY <1>5, <2>1, <2>2, StartPanel DEF StartPledge
  <1>6. ASSUME NEW c \in Calls, NEW k \in Claims, StartClaim(c, k)
        PROVE  PanelInv'
    <2>1. Page \in Panels /\ Page \notin timer /\ timer' = timer
      BY <1>6 DEF StartClaim, Panels, TypeOK
    <2>2. \A d \in Calls : Active(d) => call[d].panel # Page
      BY <1>6 DEF StartClaim, IsProcessing, PanelInv
    <2> QED
      BY <1>6, <2>1, <2>2, StartPanel DEF StartClaim
  <1>7. ASSUME NEW p \in Panels, Dismiss(p)
        PROVE  PanelInv'
    BY <1>7 DEF Dismiss, PanelInv, OneCallPerPanel, Active
  <1> QED
    BY <1>1, <1>2, <1>3, <1>4, <1>5, <1>6, <1>7 DEF PageNext

\* A modal, and the page itself, has at most one call under way.
THEOREM OneCall == Spec => []OneCallPerPanel
PROOF
  <1>1. Init => PanelInv
    BY DEF Init, PanelInv, OneCallPerPanel, Active, NewCall
  <1>2. TypeOK /\ PanelInv /\ [Next]_vars => PanelInv'
    <2> SUFFICES ASSUME TypeOK, PanelInv, [Next]_vars
                 PROVE  PanelInv'
      OBVIOUS
    <2>1. CASE UNCHANGED pledgeVars
      BY <2>1 DEF pledgeVars, uiVars, PanelInv, OneCallPerPanel, Active
    <2>2. CASE PageNext
      BY <2>2, PagePanel
    <2>3. CASE CallNext
      BY <2>3, CallPanel DEF CallNext
    <2> QED
      BY <2>1, <2>2, <2>3 DEF Next, vars
  <1>3. PanelInv => OneCallPerPanel
    BY DEF PanelInv
  <1> QED
    BY <1>1, <1>2, <1>3, PageTypeCorrect, PTL DEF Spec

-----------------------------------------------------------------------------
(* The cache.                                                              *)

\* Includes what was confirmed to this page, or overtook the confirmation.
Current(answer) == answer.version >= confirmed \/ answer.raced

\* An answer travels no longer than Latency, a live entry lives no longer than
\* TTL after it arrived, and none survives a confirmation.
CacheInv ==
  /\ confirmed <= version
  /\ \A r \in Readers : read[r].phase = "answered" =>
       /\ read[r].answer.asOf <= now
       /\ now <= read[r].answer.asOf + Latency
       /\ Current(read[r].answer)
  /\ \A m \in Methods \ Static : store[m] # NoEntry =>
       /\ store[m].expires <= store[m].answer.asOf + Latency + TTL
       /\ store[m].expires <= MaxTime + TTL
       /\ Current(store[m].answer)

LEMMA CacheInvStep ==
  ASSUME TypeOK, CacheInv, CacheNext
  PROVE  CacheInv'
PROOF
  <1> USE DEF TypeOK, CacheTypeOK, Times, Versions
  <1>1. ASSUME NEW r \in Readers, NEW m \in Methods, BeginRead(r, m)
        PROVE  CacheInv'
    BY <1>1 DEF BeginRead, AfterGet, Idle, CacheInv, Current
  <1>2. ASSUME NEW r \in Readers, AnswerRead(r)
        PROVE  CacheInv'
    <2>1. /\ \A q \in Readers \ {r} : read'[q] = read[q]
          /\ read'[r].phase = "answered"
          /\ read'[r].answer = [version |-> version, asOf |-> now, raced |-> FALSE]
      BY <1>2 DEF AnswerRead, Reads
    <2>2. now <= now + Latency
      OBVIOUS
    <2> QED
      BY <1>2, <2>1, <2>2 DEF AnswerRead, CacheInv, Current
  <1>3. ASSUME NEW r \in Readers, FinishRead(r)
        PROVE  CacheInv'
    <2> DEFINE m == read[r].method
    <2>1. /\ m \in Methods /\ read[r].answer \in Answers
          /\ read[r].phase = "answered"
      BY <1>3 DEF FinishRead, Reads
    <2>2. /\ \A q \in Readers \ {r} : read'[q] = read[q]
          /\ read'[r].phase = "idle"
          /\ UNCHANGED <<now, version, confirmed>>
      BY <1>3 DEF FinishRead, Idle
    <2>3. /\ \A n \in Methods \ {m} : store'[n] = store[n]
          /\ store'[m].answer = read[r].answer
          /\ store'[m].expires = ExpiresAt(m)
      BY <1>3, <2>1 DEF FinishRead
    <2>4. m \notin Static =>
            /\ ExpiresAt(m) <= read[r].answer.asOf + Latency + TTL
            /\ ExpiresAt(m) <= MaxTime + TTL
            /\ Current(read[r].answer)
      BY <2>1 DEF ExpiresAt, CacheInv, Answers
    <2> HIDE DEF m
    <2>5. \A n \in Methods \ Static : store'[n] # NoEntry =>
            /\ store'[n].expires <= store'[n].answer.asOf + Latency + TTL
            /\ store'[n].expires <= MaxTime + TTL
            /\ Current(store'[n].answer)
      BY <2>1, <2>3, <2>4 DEF CacheInv
    <2> QED
      BY <2>2, <2>5 DEF CacheInv, Current
  <1>4. ASSUME NEW r \in Readers, FailRead(r)
        PROVE  CacheInv'
    BY <1>4 DEF FailRead, Idle, CacheInv, Current
  <1>5. CASE OthersChange
    BY <1>5 DEF OthersChange, CacheInv, Current
  <1>6. CASE Tick
    <2>1. \A r \in Readers : read[r].phase = "answered" =>
            read[r].answer.asOf \in Nat /\ now < read[r].answer.asOf + Latency
      BY <1>6 DEF Tick, Reads, Answers
    <2> QED
      BY <1>6, <2>1 DEF Tick, CacheInv, Current
  <1> QED
    BY <1>1, <1>2, <1>3, <1>4, <1>5, <1>6 DEF CacheNext

\* A confirmed transaction removes what the cache could answer too old.
LEMMA ConfirmStep ==
  ASSUME TypeOK, CacheInv, NEW c \in Calls, PollSuccess(c)
  PROVE  CacheInv'
PROOF
  <1> USE DEF TypeOK, CacheTypeOK, Times, Versions
  <1>1. UNCHANGED <<now, version>> /\ confirmed' = version
    BY DEF PollSuccess
  <1>2. \A m \in Methods \ Static : store'[m] = NoEntry
    <2>1. \A m \in Methods \ Static : store[m] # NoEntry => store[m].expires # Infinity
      BY DEF CacheInv, Entries
    <2> QED
      BY <2>1 DEF PollSuccess, AfterInvalidate, Live
  <1>3. ASSUME NEW r \in Readers, read'[r].phase = "answered"
        PROVE  /\ read'[r].answer.asOf <= now
               /\ now <= read'[r].answer.asOf + Latency
               /\ read'[r].answer.raced
    <2>1. \A x \in Reads : /\ [x EXCEPT !.answer.raced = TRUE].phase = x.phase
                            /\ [x EXCEPT !.answer.raced = TRUE].answer.asOf = x.answer.asOf
                            /\ [x EXCEPT !.answer.raced = TRUE].answer.raced
      BY DEF Reads, Answers
    <2>2. read[r] \in Reads /\ read'[r] = Raced[r]
      BY <1>3 DEF PollSuccess, Idle
    <2>3. read[r].phase = "answered" /\ Raced[r] = [read[r] EXCEPT !.answer.raced = TRUE]
      BY <1>3, <2>2 DEF Raced
    <2> QED
      BY <2>1, <2>2, <2>3 DEF CacheInv
  <1> QED
    BY <1>1, <1>2, <1>3 DEF CacheInv, Current

\* Whatever order reads, expiries and confirmations come in, a cached live
\* value is bounded in age and includes what was confirmed to this page,
\* except when an answer overtakes the invalidation.
THEOREM CacheCorrect == Spec => []ReadsAreRecent
PROOF
  <1>1. Init => CacheInv
    BY DEF Init, CacheInit, CacheInv, Idle, Current
  <1>2. TypeOK /\ CacheInv /\ [Next]_vars => CacheInv'
    <2> SUFFICES ASSUME TypeOK, CacheInv, [Next]_vars
                 PROVE  CacheInv'
      OBVIOUS
    <2>1. CASE CacheNext
      BY <2>1, CacheInvStep
    <2>2. CASE UNCHANGED cacheVars
      BY <2>2 DEF cacheVars, CacheInv, Current
    <2>3. CASE PageNext
      BY <2>2, <2>3 DEF PageNext, OpenModal, ConfirmPledge, RejectAmount, CloseModal,
                        StartPledge, StartClaim, Start, Dismiss
    <2>4. ASSUME NEW c \in Calls, Build(c) \/ Sign(c) \/ Send(c) \/ Poll(c)
          PROVE  CacheInv'
      BY <2>2, <2>4, ConfirmStep
         DEF Build, Sign, Send, Throws, Poll, PollThrows, PollNothing
    <2>5. ASSUME NEW c \in Calls, Decide(c)
          PROVE  CacheInv'
      BY <2>5 DEF Decide, CacheInv, Current, TypeOK, CacheTypeOK, Versions
    <2> QED
      BY <2>1, <2>2, <2>3, <2>4, <2>5 DEF Next, CallNext, vars
  <1>3. TypeOK /\ CacheInv => ReadsAreRecent
    <2> SUFFICES ASSUME TypeOK, CacheInv, NEW m \in Methods \ Static, Hit(m)
                 PROVE  /\ now <= store[m].answer.asOf + TTL + Latency
                        /\ store[m].answer.version >= confirmed \/ store[m].answer.raced
      BY DEF ReadsAreRecent, StalenessBounded, ReadYourWrites
    <2>1. store[m] # NoEntry /\ store[m] \in Entries /\ ~(now > store[m].expires)
      BY DEF Hit, Expired, TypeOK, CacheTypeOK
    <2> QED
      BY <2>1 DEF CacheInv, Current, Entries, Answers, Times, TypeOK, CacheTypeOK
  <1> QED
    BY <1>1, <1>2, <1>3, PageTypeCorrect, PTL DEF Spec
=============================================================================
