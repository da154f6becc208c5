------------------------------- MODULE Escrow -------------------------------
(***************************************************************************)
(* What a crowdfunding campaign promises about money, whatever its goal,   *)
(* deadline, fees and matching are: a depositor's tokens are in the        *)
(* depositor's wallet or on record as the depositor's stake; stakes are    *)
(* taken in and paid out at most once, after which nothing more is taken   *)
(* in; and stakes are returned to their owners only, as long as what stays *)
(* on record covers what was paid out.                                     *)
(***************************************************************************)
EXTENDS Integers, FiniteSets, TokenTotals

CONSTANTS
  Depositors,  \* the parties that deposit
  Endowment    \* tokens each of them owns at the start

VARIABLES
  wallet,  \* tokens each depositor owns
  stake,   \* tokens on record for each depositor
  paid     \* tokens paid out of the escrow

Init ==
  /\ wallet = [d \in Depositors |-> Endowment]
  /\ stake = [d \in Depositors |-> 0]
  /\ paid = 0

\* A depositor puts some of its tokens in, as long as nothing was paid out.
Deposit(d) ==
  /\ paid = 0
  /\ \E a \in 1..wallet[d] :
       /\ wallet' = [wallet EXCEPT ![d] = @ - a]
       /\ stake' = [stake EXCEPT ![d] = @ + a]
  /\ UNCHANGED paid

\* The ways to return a part of every stake.
Refunds == {back \in [Depositors -> 0..Endowment] :
              \A d \in Depositors : back[d] <= stake[d]}

\* Parts of the stakes go back to their owners; tokens that were paid out
\* cannot be returned any more.
Return ==
  /\ \E back \in Refunds :
       /\ wallet' = [d \in Depositors |-> wallet[d] + back[d]]
       /\ stake' = [d \in Depositors |-> stake[d] - back[d]]
  /\ TotalOf(stake', Depositors) >= paid
  /\ UNCHANGED paid

\* A part of the stakes is paid out, once.
PayOut ==
  /\ paid = 0
  /\ paid' \in 1..TotalOf(stake, Depositors)
  /\ UNCHANGED <<wallet, stake>>

Next ==
  \/ \E d \in Depositors : Deposit(d)
  \/ Return
  \/ PayOut

Spec == Init /\ [][Next]_<<wallet, stake, paid>>
=============================================================================
