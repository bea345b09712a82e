----------------------------- MODULE MCMolochV1 -----------------------------
(***************************************************************************)
(* Small DAOs for TLC.  One block takes six seconds as in the runtime and  *)
(* a period as long, so that every block is a period of its own.           *)
(***************************************************************************)
EXTENDS MolochV1Properties, TLC

CONSTANTS Alice, Bob, Carol, NoKey, Guild, Custodian

TwoUsers   == {Alice, Bob}
ThreeUsers == {Alice, Bob, Carol}

NoKeys   == {}
BobAsKey == {Bob}

\* Enough for one tribute or one deposit and a little more.
Modest == [u \in Users |-> 3]
Meagre == [u \in Users |-> 2]

\* One period to vote and one of grace.
Quick == [period_duration |-> 6, voting_period_length |-> 1,
          grace_period_length |-> 1, abort_window |-> 1,
          dilution_bound |-> 1, proposal_deposit |-> 0,
          processing_reward |-> 0]

\* Two periods to vote and no grace: consecutive proposals are open at once.
Overlapping == [Quick EXCEPT !.voting_period_length = 2,
                             !.grace_period_length = 0]

\* One period to vote and no grace.
Hasty == [Quick EXCEPT !.grace_period_length = 0]

\* summon accepts a period of no length; nothing works until the next summon.
Stopped == [Quick EXCEPT !.period_duration = 0]

\* The proposer puts down a deposit, a part of which pays the processing.
Deposit == [Hasty EXCEPT !.proposal_deposit = 2, !.processing_reward = 1]

OnlyQuick       == {Quick}
OnlyHasty       == {Hasty}
OnlyOverlapping == {Overlapping}
OnlyDeposit     == {Deposit}
AnySettings     == {Hasty, Quick, Stopped}

UsersAlike == Permutations(Users)

=============================================================================
