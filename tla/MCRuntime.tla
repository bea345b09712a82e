------------------------------ MODULE MCRuntime ------------------------------
(***************************************************************************)
(* Small chains for TLC: two users, one of which holds the sudo key.       *)
(***************************************************************************)
EXTENDS RuntimeProperties, TLC

CONSTANTS Alice, Bob, NoKey, Guild, Custodian, Fund, NoOne

TwoUsers == {Alice, Bob}

ToAlice == <<"Id", Alice>>
ToBob   == <<"Id", Bob>>
Nowhere == <<"Index", Bob>>

\* Alice founds a DAO, proposes Bob as a member or lets him do that for her,
\* and leaves; Bob pays the tribute, processes the proposal or takes the
\* tribute back.  Both have a little to do with a round of funding, too, and
\* Bob may send all his money away and get a part of it back.  With the sudo
\* key Alice takes Bob's money, declares him penniless or pays as Bob.
Hasty == [period_duration |-> 6, voting_period_length |-> 1,
          grace_period_length |-> 0, abort_window |-> 1,
          dilution_bound |-> 1, proposal_deposit |-> 2,
          processing_reward |-> 1]

OnlyHasty == {Hasty}

DAOCalls ==
  (Alice :> {<<"summon", Hasty>>, <<"submit_proposal", Bob, 2, 1>>,
             <<"submit_vote", 0>>, <<"ragequit", 1>>,
             <<"update_delegate", Bob>>, <<"set_key", Bob>>,
             <<"start_round", 1>>, <<"end_round", 1>>,
             <<"force_transfer", ToBob, ToAlice, 5>>,
             <<"set_balance", ToBob, 0>>,
             <<"sudo_as", ToBob, <<"transfer_keep_alive", ToAlice, 3>>>>})
    @@ (Bob :> {<<"custody", 2>>, <<"submit_proposal", Bob, 2, 1>>,
                <<"process_proposal", 0>>, <<"abort", 0>>,
                <<"donate", 1, 4>>, <<"transfer", ToAlice, 5>>,
                <<"transfer", Nowhere, 1>>})

DAOMoney == (Alice :> 7) @@ (Bob :> 6)

ThreeAndTwo == (Alice :> 3) @@ (Bob :> 2)

None == [u \in Users |-> 0]

OneEach == [u \in Users |-> 1]

=============================================================================
