---------------------------- MODULE PledgeClient ----------------------------
(***************************************************************************)
(* A campaign's page in the browser: the pledge modal                      *)
(* (components/ui/PledgeModal.tsx), the withdraw and refund buttons        *)
(* (app/campaigns/[id]/CampaignActions.tsx), the optimistic total          *)
(* (hooks/useCampaign.ts), the wallet's signing flag                       *)
(* (context/WalletContext.tsx), and invokeContract of lib/contract.ts,     *)
(* which all of them call.                                                 *)
(*                                                                         *)
(* A call of invokeContract builds a transaction, has it signed, submits   *)
(* it and polls for its fate.  The modal may be closed and opened again    *)
(* meanwhile, its timer goes on, and a second call may start while the     *)
(* first is under way.                                                     *)
(*                                                                         *)
(* The wallet is connected.  Whether the page offers withdraw and refund   *)
(* depends on the campaign and is left open, and so are the figures shown. *)
(* Of an amount only its validity is modelled.  The ledger is external: a  *)
(* transaction that reached it is applied, fails or stays pending for      *)
(* good, and the node that is polled may not know yet.                     *)
(***************************************************************************)
EXTENDS RpcCache

CONSTANTS
  Modals,    \* the pledge modals opened, one after the other
  Page,      \* CampaignActions, as a holder of pendingTx and txStatus
  Claims,    \* what the page offers besides pledging
  Calls,     \* bound: calls of invokeContract
  MaxPolls,  \* polls of getTransaction before giving up
  NoModal,
  NoCall

Panels == Modals \cup {Page}

ASSUME PledgeAssumption ==
  /\ Page \notin Modals
  /\ NoModal \notin Modals
  /\ NoCall \notin Calls
  /\ Claims \subseteq {"withdraw", "refund"}
  /\ Calls \subseteq Readers \ Viewers
  /\ MaxPolls \in Nat \ {0}
  /\ "get_stats" \in Methods \ Static

Kinds == {"pledge", "withdraw", "refund"}
Phases == {"none", "building", "signing", "sending", "polling", "done"}
\* How a call ended: with the hash; refused before the ledger had the
\* transaction; failed on the ledger; given up after the last poll; or broken
\* off by an error of the network.
Outcomes == {"none", "success", "refused", "failed", "unconfirmed", "broken"}
CallRecords == [phase : Phases, panel : Panels, kind : Kinds,
                polls : 0..MaxPolls, outcome : Outcomes]
TxStatuses == {"idle", "signing", "submitting", "success", "error"}
\* A pending transaction may stay so: then it has been dropped.
Fates == {"none", "pending", "applied", "failed"}

VARIABLES
  shown,      \* the modal on screen (pledging of CampaignActions)
  opened,     \* the modals that were opened so far
  timer,      \* the modals whose debounce timer is set
  txStatus,   \* txStatus of each panel on screen
  pendingTx,  \* pendingTx of each panel on screen
  isSigning,  \* of the wallet
  delta,      \* optimisticDelta: the pledge whose amount it adds
  call,       \* each call of invokeContract
  fate        \* the call's transaction on the ledger

uiVars == <<shown, opened, timer, txStatus, pendingTx>>
pledgeVars == <<uiVars, isSigning, delta, call, fate>>
vars == <<cacheVars, pledgeVars>>

NewCall == [phase |-> "none", panel |-> Page, kind |-> "pledge", polls |-> 0,
            outcome |-> "none"]

Init ==
  /\ CacheInit
  /\ shown = NoModal /\ opened = {}
  /\ timer = {}
  /\ txStatus = [p \in Panels |-> "idle"]
  /\ pendingTx = [p \in Panels |-> FALSE]
  /\ isSigning = FALSE
  /\ delta = NoCall
  /\ call = [c \in Calls |-> NewCall]
  /\ fate = [c \in Calls |-> "none"]

-----------------------------------------------------------------------------
(* The page and its modal.                                                 *)

\* Mutant: only the wallet's flag disables the buttons.
IsProcessingWhileSigning(p) == isSigning
IsProcessing(p) ==
  \/ txStatus[p] # "idle"
  \/ pendingTx[p]
  \/ p \in Modals /\ isSigning

\* "Pledge Now" mounts a new modal.
OpenModal(m) ==
  /\ shown = NoModal /\ m \notin opened
  /\ ~IsProcessing(Page)
  /\ shown' = m
  /\ opened' = opened \cup {m}
  /\ UNCHANGED <<cacheVars, timer, txStatus, pendingTx, isSigning, delta, call,
                 fate>>

\* setTxStatus and setPendingTx, which do nothing once the panel is gone.
SetPanel(p, status, pending) ==
  IF p \in {Page, shown}
    THEN /\ txStatus' = [txStatus EXCEPT ![p] = status]
         /\ pendingTx' = [pendingTx EXCEPT ![p] = pending]
    ELSE UNCHANGED <<txStatus, pendingTx>>

\* Escape closes the modal at any time; its state is gone, its timer stays set.
CloseModal ==
  /\ shown # NoModal
  /\ shown' = NoModal
  /\ SetPanel(shown, "idle", FALSE)
  /\ UNCHANGED <<cacheVars, opened, timer, isSigning, delta, call, fate>>

\* handlePledgeWithDebounce replaces the timer.
ConfirmPledge(m) ==
  /\ shown = m
  /\ ~IsProcessing(m)
  /\ timer' = timer \cup {m}
  /\ UNCHANGED <<cacheVars, shown, opened, txStatus, pendingTx, isSigning,
                 delta, call, fate>>

\* A panel starts a call of invokeContract.
Start(c, p, kind) ==
  /\ call[c].phase = "none"
  /\ call' = [call EXCEPT ![c] = [NewCall EXCEPT !.phase = "building",
                                                 !.panel = p, !.kind = kind]]
  /\ SetPanel(p, "signing", TRUE)
  /\ UNCHANGED <<cacheVars, shown, opened, isSigning, fate>>

\* handlePledge, when the timer fires.  The pendingTx it tests is that of the
\* click, at which the button was enabled.
StartPledge(m, c) ==
  /\ m \in timer
  /\ timer' = timer \ {m}
  /\ delta' = c
  /\ Start(c, m, "pledge")

\* The amount is not valid: handlePledge shows a toast and returns.
RejectAmount(m) ==
  /\ m \in timer
  /\ timer' = timer \ {m}
  /\ UNCHANGED <<cacheVars, shown, opened, txStatus, pendingTx, isSigning,
                 delta, call, fate>>

\* handleWithdraw and handleRefund; the modal would cover their buttons.
StartClaim(c, kind) ==
  /\ shown = NoModal
  /\ ~IsProcessing(Page)
  /\ Start(c, Page, kind)
  /\ UNCHANGED <<timer, delta>>

\* handleDismiss: the button of an error, the timeout of a success.
Dismiss(p) ==
  /\ txStatus[p] \in {"success", "error"}
  /\ txStatus' = [txStatus EXCEPT ![p] = "idle"]
  /\ UNCHANGED <<cacheVars, shown, opened, timer, pendingTx, isSigning, delta,
                 call, fate>>

-----------------------------------------------------------------------------
(* invokeContract.                                                         *)

\* What is left of a call that ended.
Ended(outcome) == [NewCall EXCEPT !.phase = "done", !.outcome = outcome]

\* Mutant: rolled back only by the modal that is still on screen.
ThrowsIfMounted(c, why) ==
  LET p == call[c].panel
  IN /\ call' = [call EXCEPT ![c] = Ended(why)]
     /\ SetPanel(p, "error", FALSE)
     /\ delta' = IF p = shown THEN NoCall ELSE delta
     /\ UNCHANGED <<cacheVars, shown, opened, timer>>

\* The call throws, and the panel's catch and finally run.
Throws(c, why) ==
  LET p == call[c].panel
  IN /\ call' = [call EXCEPT ![c] = Ended(why)]
     /\ SetPanel(p, "error", FALSE)
     /\ delta' = IF call[c].kind = "pledge" THEN NoCall ELSE delta
     /\ UNCHANGED <<cacheVars, shown, opened, timer>>

\* loadAccount and prepareTransaction; signTx raises the wallet's flag.
Build(c) ==
  /\ call[c].phase = "building"
  /\ \/ /\ call' = [call EXCEPT ![c].phase = "signing"]
        /\ isSigning' = TRUE
        /\ UNCHANGED <<cacheVars, uiVars, delta, fate>>
     \/ Throws(c, "refused") /\ UNCHANGED <<isSigning, fate>>

\* The wallet signs or refuses; signTx lowers the flag either way.
Sign(c) ==
  /\ call[c].phase = "signing"
  /\ isSigning' = FALSE
  /\ \/ /\ call' = [call EXCEPT ![c].phase = "sending"]
        /\ SetPanel(call[c].panel, "submitting", TRUE)
        /\ UNCHANGED <<cacheVars, shown, opened, timer, delta, fate>>
     \/ Throws(c, "refused") /\ UNCHANGED fate

\* sendTransaction: accepted, ERROR, or no answer.
Send(c) ==
  /\ call[c].phase = "sending"
  /\ \/ /\ fate' = [fate EXCEPT ![c] = "pending"]
        /\ call' = [call EXCEPT ![c].phase = "polling"]
        /\ UNCHANGED <<cacheVars, uiVars, delta>>
     \/ Throws(c, "refused") /\ UNCHANGED fate
     \/ /\ \/ fate' = [fate EXCEPT ![c] = "pending"]
           \/ UNCHANGED fate
        /\ Throws(c, "broken")
  /\ UNCHANGED isSigning

\* The ledger decides about a transaction.
Decide(c) ==
  /\ fate[c] = "pending"
  /\ \/ /\ version < MaxVersion
        /\ fate' = [fate EXCEPT ![c] = "applied"]
        /\ version' = version + 1
     \/ /\ fate' = [fate EXCEPT ![c] = "failed"]
        /\ UNCHANGED version
  /\ UNCHANGED <<now, store, read, confirmed, uiVars, isSigning, delta, call>>

\* The poll finds SUCCESS: cacheInvalidateLive, and the panel goes on to read
\* the statistics, except after a refund.
PollSuccess(c) ==
  LET p == call[c].panel
  IN /\ call[c].phase = "polling"
     /\ fate[c] = "applied"
     /\ store' = AfterInvalidate
     /\ confirmed' = version
     /\ read' = IF call[c].kind = "refund" THEN Raced
                ELSE [Raced EXCEPT ![c] = [Idle("get_stats") EXCEPT !.phase = "asked"]]
     /\ call' = [call EXCEPT ![c] = Ended("success")]
     /\ SetPanel(p, "success", FALSE)
     /\ UNCHANGED <<now, version, shown, opened, timer, isSigning, delta, fate>>

\* The poll finds FAILED, or cannot be made.
PollThrows(c) ==
  /\ call[c].phase = "polling"
  /\ \/ fate[c] = "failed" /\ Throws(c, "failed")
     \/ Throws(c, "broken")
  /\ UNCHANGED <<isSigning, fate>>

\* Mutant: the last poll takes what it cannot see for a failure.
PollNothingFailed(c) ==
  /\ call[c].phase = "polling"
  /\ Throws(c, "failed")
  /\ UNCHANGED <<isSigning, fate>>

\* The poll finds nothing, and the last one gives up.
PollNothing(c) ==
  /\ call[c].phase = "polling"
  /\ IF call[c].polls + 1 < MaxPolls
       THEN /\ call' = [call EXCEPT ![c].polls = @ + 1]
            /\ UNCHANGED <<cacheVars, uiVars, delta>>
       ELSE Throws(c, "unconfirmed")
  /\ UNCHANGED <<isSigning, fate>>

Poll(c) == PollSuccess(c) \/ PollThrows(c) \/ PollNothing(c)

-----------------------------------------------------------------------------
PageNext ==
  \/ \E m \in Modals : OpenModal(m) \/ ConfirmPledge(m) \/ RejectAmount(m)
  \/ CloseModal
  \/ \E m \in Modals, c \in Calls : StartPledge(m, c)
  \/ \E c \in Calls, kind \in Claims : StartClaim(c, kind)
  \/ \E p \in Panels : Dismiss(p)

CallNext == \E c \in Calls : Build(c) \/ Sign(c) \/ Send(c) \/ Decide(c) \/ Poll(c)

Next == (CacheNext /\ UNCHANGED pledgeVars) \/ PageNext \/ CallNext

Spec == Init /\ [][Next]_vars

-----------------------------------------------------------------------------
TypeOK ==
  /\ CacheTypeOK
  /\ shown \in Modals \cup {NoModal}
  /\ opened \subseteq Modals
  /\ timer \subseteq Modals
  /\ txStatus \in [Panels -> TxStatuses]
  /\ pendingTx \in [Panels -> BOOLEAN]
  /\ isSigning \in BOOLEAN
  /\ delta \in Calls \cup {NoCall}
  /\ call \in [Calls -> CallRecords]
  /\ fate \in [Calls -> Fates]

\* What invokeContract reports is what happened: after a hash the transaction
\* has been applied, and after a refusal or a failure it has not and cannot be.
\* (Only "not confirmed after polling" and a broken request leave it open.)
ReportsAreTrue ==
  \A c \in Calls :
    /\ call[c].outcome = "success" => fate[c] = "applied"
    /\ call[c].outcome \in {"refused", "failed"} =>
         fate[c] \notin {"pending", "applied"}

\* The optimistic total adds no pledge that was reported as an error: the
\* rollback of useCampaign is in time even when a modal was closed, another
\* opened, and two pledges end in any order.
NoGhostPledge ==
  delta # NoCall => call[delta].outcome \in {"none", "success"}

\* A modal has at most one call under way, although its button leads to a call
\* two seconds later, through a closure made before the first call began.
OneCallPerPanel ==
  \A c, d \in Calls :
    /\ c # d
    /\ call[c].panel = call[d].panel
    /\ call[c].phase \notin {"none", "done"}
    => call[d].phase \in {"none", "done"}
=============================================================================
