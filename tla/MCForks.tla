------------------------------- MODULE MCForks -------------------------------
(***************************************************************************)
(* A small chain for TLC on which Alice, who holds the sudo key, opens a   *)
(* round and registers a project as Bob.  Bob votes for it in pieces, and  *)
(* Alice may vote as Bob, too.                                             *)
(***************************************************************************)
EXTENDS ForkProperties, TLC

CONSTANTS Alice, Bob, NoKey, Guild, Custodian, Fund, NoOne

TwoUsers == {Alice, Bob}

ToBob == <<"Id", Bob>>

VotingCalls ==
  (Alice :> {<<"start_round", 1>>,
             <<"sudo_as", ToBob, <<"register_project", 1, 1>>>>,
             <<"sudo_as", ToBob, <<"vote", 1, 1, 1>>>>})
    @@ (Bob :> {<<"vote", 1, 1, 1>>})

VotingMoney == (Alice :> 2) @@ (Bob :> 13)

\* Alice signs one call after the other; Bob may sign ahead, and several
\* calls for one nonce.
Ahead  == (Alice :> 0) @@ (Bob :> 1)
Signed == (Alice :> 3) @@ (Bob :> 3)
Rivals == (Alice :> 1) @@ (Bob :> 2)

NoSettings == {}

=============================================================================
