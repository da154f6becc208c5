------------------------------ MODULE Custody -------------------------------
(***************************************************************************)
(* What is left of the promise of module Escrow when tokens are also put   *)
(* in by schedule and for somebody else's account: they may come from one  *)
(* party's wallet onto another party's record, and also after something    *)
(* was paid out.  What stays of the promise is that nobody's tokens are    *)
(* lost or made, that a record is returned only to the party it stands     *)
(* for and only from what the custodian holds, and that there is one       *)
(* payment out.                                                            *)
(***************************************************************************)
EXTENDS Integers, FiniteSets, TokenTotals

CONSTANTS
  Depositors,  \* the parties that own tokens and records
  Endowment    \* tokens each of them owns at the start

VARIABLES
  wallet,  \* tokens each depositor owns
  stake,   \* tokens on record for each depositor
  held,    \* tokens the custodian holds
  paid     \* tokens paid out

Init ==
  /\ wallet = [d \in Depositors |-> Endowment]
  /\ stake = [d \in Depositors |-> 0]
  /\ held = 0
  /\ paid = 0

\* A payer's tokens are put on the record of an owner.
Put(payer, owner) ==
  /\ \E a \in 1..wallet[payer] :
       /\ wallet' = [wallet EXCEPT ![payer] = @ - a]
       /\ stake' = [stake EXCEPT ![owner] = @ + a]
       /\ held' = held + a
  /\ UNCHANGED paid

\* The ways to return a part of every record that what is held allows.
Refunds == {back \in [Depositors -> 0..held] :
              /\ \A d \in Depositors : back[d] <= stake[d]
              /\ TotalOf(back, Depositors) <= held}

\* Parts of the records go to those they stand for.
Return ==
  /\ \E back \in Refunds :
       /\ wallet' = [d \in Depositors |-> wallet[d] + back[d]]
       /\ stake' = [d \in Depositors |-> stake[d] - back[d]]
       /\ held' = held - TotalOf(back, Depositors)
  /\ UNCHANGED paid

\* A part of what is held is paid out, once.
PayOut ==
  /\ paid = 0
  /\ \E a \in 1..held : paid' = a /\ held' = held - a
  /\ UNCHANGED <<wallet, stake>>

Next ==
  \/ \E payer, owner \in Depositors : Put(payer, owner)
  \/ Return
  \/ PayOut

Spec == Init /\ [][Next]_<<wallet, stake, held, paid>>
=============================================================================
