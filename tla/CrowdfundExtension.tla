------------------------- MODULE CrowdfundExtension -------------------------
(***************************************************************************)
(* The contributors' vote on a later deadline, of                          *)
(* contracts/crowdfund/src/lib.rs, next to every other call on the         *)
(* campaign, recurring and delegated contributions included.               *)
(*                                                                         *)
(* A vote weighs what the voter has on record when it is cast.  There is   *)
(* one proposal at a time; a new one replaces it.  The contract recognises *)
(* a second vote by the creation time of the proposal.                     *)
(***************************************************************************)
EXTENDS CrowdfundPlans

CONSTANTS
  VotingPeriod,  \* 604800 seconds in the code
  NoProposal     \* no proposal is stored

Proposals == [newDeadline : Nat, votesFor : Nat, votesAgainst : Nat,
              createdAt : Nat, votingEndsAt : Nat, executed : BOOLEAN]

ASSUME ExtensionAssumption ==
  /\ VotingPeriod \in Nat
  /\ NoProposal \notin Proposals

VARIABLES
  proposal,   \* DataKey::ExtensionProposal
  lastVoted,  \* DataKey::ExtensionVote: creation time of the proposal voted on
  ballot      \* history: the weight each contributor cast on this proposal

voting == <<proposal, lastVoted, ballot>>
xvars == <<pvars, voting>>

NoBallots == [c \in Contributors |-> 0]

-----------------------------------------------------------------------------
XInit ==
  /\ PInit
  /\ proposal = NoProposal
  /\ lastVoted = [c \in Contributors |-> 0]
  /\ ballot = NoBallots

\* A call of the modules below.
OtherCall == PNext /\ UNCHANGED voting

\* propose_extension, in any status
ProposeExtension(d) ==
  /\ d > deadline
  /\ proposal' = [newDeadline |-> d, votesFor |-> 0, votesAgainst |-> 0,
                  createdAt |-> now, votingEndsAt |-> now + VotingPeriod,
                  executed |-> FALSE]
  /\ ballot' = NoBallots
  /\ UNCHANGED <<pvars, lastVoted>>

\* Mutant: a second vote is not recognised.
VotedNever(c) == FALSE

\* The marker left by a contributor's last vote is this proposal's.
Voted(c) == lastVoted[c] = proposal.createdAt

\* vote_on_extension, also by an address with nothing on record
VoteOnExtension(c, approve) ==
  /\ proposal # NoProposal
  /\ now <= proposal.votingEndsAt
  /\ ~Voted(c)
  /\ proposal' = IF approve
                 THEN [proposal EXCEPT !.votesFor = @ + contribution[c]]
                 ELSE [proposal EXCEPT !.votesAgainst = @ + contribution[c]]
  /\ lastVoted' = [lastVoted EXCEPT ![c] = proposal.createdAt]
  /\ ballot' = [ballot EXCEPT ![c] = contribution[c]]
  /\ UNCHANGED pvars

\* Mutant: a proposal that was executed can be executed again.
SettledNot == FALSE

\* execute_extension is a silent no-op on an executed proposal.
Settled == proposal.executed

\* More than half of the weight cast is in favour.
Carried ==
  /\ proposal.votesFor + proposal.votesAgainst > 0
  /\ proposal.votesFor * 2 > proposal.votesFor + proposal.votesAgainst

\* execute_extension, after the voting period; the deadline is set to what
\* was proposed even if it was extended further in the meantime.
ExecuteExtension ==
  /\ proposal # NoProposal
  /\ now > proposal.votingEndsAt
  /\ ~Settled
  /\ deadline' = IF Carried THEN proposal.newDeadline ELSE deadline
  /\ proposal' = [proposal EXCEPT !.executed = TRUE]
  /\ UNCHANGED <<now, status, goal, total, contribution, insurance, match,
                 admitted, wallet, held, payees, programs, lastVoted, ballot>>

XNext ==
  \/ OtherCall
  \/ \E d \in Deadlines : ProposeExtension(d)
  \/ \E c \in Contributors, approve \in BOOLEAN : VoteOnExtension(c, approve)
  \/ ExecuteExtension

XSpec == XInit /\ [][XNext]_xvars

-----------------------------------------------------------------------------
XTypeOK ==
  /\ PTypeOK
  /\ proposal \in Proposals \cup {NoProposal}
  /\ lastVoted \in [Contributors -> Nat]
  /\ ballot \in [Contributors -> Nat]

\* The votes on a proposal are the ballots of different contributors, each
\* with the weight it had when it was cast: refunds and further contributions
\* during the vote, and earlier proposals, count nobody twice.
BallotsCountedOnce ==
  proposal # NoProposal =>
    proposal.votesFor + proposal.votesAgainst = TotalOf(ballot, Contributors)

\* The deadline moves back only when a vote that was not applied before is
\* executed; after that no call moves it back until there is a new proposal,
\* so a deadline extended after the vote is not undone again.
AppliedOnce ==
  [][deadline' < deadline
     => proposal # NoProposal /\ ~proposal.executed /\ proposal'.executed]_xvars
=============================================================================
