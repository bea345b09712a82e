------------------------------- MODULE Runtime -------------------------------
(***************************************************************************)
(* The runtime, runtime/src/lib.rs: construct_runtime! puts the DAO and    *)
(* the funding pallet on one set of balances, beside Sudo, Balances and    *)
(* transaction payment, and Executive applies signed extrinsics to them.   *)
(*                                                                         *)
(* An extrinsic is a message: once signed it may be lost, delayed, sent    *)
(* again by anybody or overtaken by another one, so that signed only       *)
(* grows.  It is applied in two steps.  Charge is the part of SignedExtra  *)
(* that changes state, the nonce and the fee; then the call is dispatched, *)
(* or refused with an error, which costs the fee, or it panics, and the    *)
(* block builder undoes the charge.  The pallets are modules of their own; *)
(* frame_system, pallet_balances, pallet_sudo and                          *)
(* pallet_transaction_payment are dependencies, modelled as far as the     *)
(* runtime's configuration uses them.  Versions, genesis hash and weight   *)
(* are checks that do not tell the extrinsics of one chain apart, and      *)
(* extrinsics are immortal, as CheckEra permits.                           *)
(*                                                                         *)
(* The sudo key may dispatch every call as the root, or as any account.    *)
(* Modelled are the calls of the two pallets, of Balances and of Sudo.     *)
(* The calls of System for the root are not: set_code, set_storage and     *)
(* kill_storage may turn the state into any other, or replace the program. *)
(***************************************************************************)
EXTENDS Integers, Sequences, FiniteSets, Balances, Storage, Unsigned

CONSTANTS
  Users, Endowment,                      \* both pallets

  GuildAccount, CustodyAccount, DefaultAccount,             \* the DAO
  MaxVotingPeriodLength, MaxGracePeriodLength, MaxDilutionBound, MaxShares,
  BlockTime, SummonSettings, Tributes, ShareRequests, DelegateKeys,
  MaxTime, MaxSummonTime, MaxProposals, MaxStartingPeriod,

  FundAccount, U32, UnitOfVote, NumberOfUnitPerVote,        \* the funding
  FeeRatioPerVote, RoundIds, LastHash, Ballots, Donations, MaxVotes,
  MaxDonated,

  SudoKey,                \* the sudo account at genesis
  Fee,                    \* what the inclusion of an extrinsic costs
  Calls,                  \* the calls each user may sign
  MaxAhead,               \* bounds on how far ahead each user chooses a nonce
  MaxSigned,              \* bounds on the extrinsics each user signs
  MaxRivals,              \* bounds on those that have the same nonce
  NoExtrinsic

Accounts == Users \cup {GuildAccount, CustodyAccount, DefaultAccount,
                        FundAccount}

\* The forms of an address, MultiAddress; a client may use any of them.
AddressForms == {"Id", "Index", "Raw", "Address32", "Address20"}

\* AccountIdLookup resolves no address but an account id.
Resolves(address) == address[1] = "Id"

IsAddress(address) ==
  /\ address[1] \in AddressForms
  /\ Resolves(address) => address[2] \in Accounts

ASSUME RuntimeAssumption ==
  /\ FundAccount \notin Users \cup {GuildAccount, CustodyAccount}
  /\ Users \cap {GuildAccount, CustodyAccount} = {}
  /\ SudoKey \in Users
  /\ Endowment \in [Users -> Nat]
  /\ Fee \in Nat \ {0}
  /\ {BlockTime, LastHash} \subseteq Nat
  /\ DOMAIN Calls = Users
  /\ {MaxAhead, MaxSigned, MaxRivals} \subseteq [Users -> Nat]

VARIABLES
  now, SummonTime, settings, TotalShares, TotalSharesRequested, Members,
  AddressOfDelegates, ProposalQueue, ProposalVotes, ApplicantCustody,
  Rounds, Projects, ProjectVotes,
  balances,
  nonce,                  \* frame_system: the next nonce of every user
  key,                    \* pallet_sudo: the account that may act as root
  signed,                 \* all extrinsics ever signed
  current,                \* the extrinsic that is being applied
  lives,                  \* how often each account has been reaped
  used                    \* <<user, life, nonce>> of what was applied

DAO == INSTANCE MolochV1
Funding == INSTANCE FundingQueries

\* The arguments a call is decoded from have the types it is declared with.
CallTyped(c) ==
  /\ c[1] \in {"transfer", "transfer_keep_alive", "set_balance"} =>
       IsAddress(c[2]) /\ c[3] \in Number
  /\ c[1] = "force_transfer" =>
       IsAddress(c[2]) /\ IsAddress(c[3]) /\ c[4] \in Number
  /\ c[1] = "summon" => c[2] \in DAO!SettingsType
  /\ c[1] \in {"custody", "ragequit"} => c[2] \in Number
  /\ c[1] = "submit_proposal" =>
       c[2] \in Accounts /\ c[3] \in Number /\ c[4] \in Number
  /\ c[1] = "donate" => c[3] \in Number
  /\ c[1] = "vote" => c[4] \in Number
  /\ c[1] = "set_key" => c[2] \in Users

\* The call in a sudo_as is a call as well.
ASSUME CallAssumption ==
  \A u \in Users : \A c \in Calls[u] :
    /\ CallTyped(c)
    /\ c[1] = "sudo_as" => IsAddress(c[2]) /\ CallTyped(c[3])

\* No extrinsic that is being applied looks like none.
ASSUME ExtrinsicAssumption ==
  NoExtrinsic \notin
    [fee : {0, Fee},
     extrinsic : [signer : Users, call : UNION {Calls[u] : u \in Users},
                  nonce : Nat, asked : Nat, life : Nat, quote : Number]]

daoVars == <<now, SummonTime, settings, TotalShares, TotalSharesRequested,
             Members, AddressOfDelegates, ProposalQueue, ProposalVotes,
             ApplicantCustody>>
fundingVars == <<Rounds, Projects, ProjectVotes>>
accountVars == <<nonce, lives>>
vars == <<daoVars, fundingVars, accountVars, balances, key, signed, current,
          used>>

-----------------------------------------------------------------------------
(* The genesis: endowed users and a sudo key.  construct_runtime! includes *)
(* no Config of the two pallets, so their internal accounts do not exist.  *)

Init ==
  /\ DAO!Unsummoned
  /\ Funding!NoRounds
  /\ balances = [a \in Accounts |-> IF a \in Users THEN Endowment[a] ELSE 0]
  /\ nonce = [u \in Users |-> 0]
  /\ lives = [u \in Users |-> 0]
  /\ key = SudoKey
  /\ signed = {}
  /\ current = NoExtrinsic
  /\ used = {}

-----------------------------------------------------------------------------
(* The calls, as tuples of a name and arguments.                           *)

FundingCall(who, c) ==
  /\ \/ c[1] = "register_project" /\ Funding!RegisterProject(who, c[2], c[3])
     \/ c[1] = "donate" /\ Funding!Donate(who, c[2], c[3])
     \/ c[1] = "vote" /\ Funding!Vote(who, c[2], c[3], c[4])
  /\ UNCHANGED <<daoVars, accountVars, key>>

DAOCall(who, c) ==
  /\ \/ c[1] = "summon" /\ DAO!Summon(who, c[2])
     \/ c[1] = "custody" /\ DAO!Custody(who, c[2])
     \/ c[1] = "submit_proposal" /\ DAO!SubmitProposal(who, c[2], c[3], c[4])
     \/ c[1] = "ragequit" /\ DAO!Ragequit(who, c[2])
     \/ c[1] = "update_delegate" /\ DAO!UpdateDelegate(who, c[2])
     \/ /\ c[1] \in {"submit_vote", "process_proposal", "abort"}
        /\ c[2] \in DAO!Indices
        /\ \/ c[1] = "submit_vote" /\ DAO!SubmitVote(who, c[2])
           \/ c[1] = "process_proposal" /\ DAO!ProcessProposal(who, c[2])
           \/ c[1] = "abort" /\ DAO!Abort(who, c[2])
  /\ UNCHANGED <<fundingVars, accountVars, key>>

\* A call of Balances may reap an account, whose entry in frame_system goes
\* with it, the nonce included.
Reaped(u) == balances[u] > 0 /\ balances'[u] = 0

Reaping ==
  /\ nonce' = [u \in Users |-> IF Reaped(u) THEN 0 ELSE nonce[u]]
  /\ lives' = [u \in Users |-> IF Reaped(u) THEN lives[u] + 1 ELSE lives[u]]

TransferCall(who, c) ==
  /\ c[1] \in {"transfer", "transfer_keep_alive"}
  /\ Resolves(c[2])
  /\ balances' = Transfer(balances, who, c[2][2], c[3],
                          IF c[1] = "transfer" THEN AllowDeath ELSE KeepAlive)
  /\ Reaping
  /\ UNCHANGED <<daoVars, fundingVars, key>>

\* The calls of Balances for the root.  set_balance leaves nothing reserved.
ForceTransfer(c) ==
  /\ c[1] = "force_transfer"
  /\ Resolves(c[2])
  /\ Resolves(c[3])
  /\ balances' = Transfer(balances, c[2][2], c[3][2], c[4], AllowDeath)

SetBalance(c) ==
  /\ c[1] = "set_balance"
  /\ Resolves(c[2])
  /\ balances' = [balances EXCEPT
       ![c[2][2]] = IF c[3] < ExistentialDeposit THEN 0 ELSE c[3]]

\* sudo: the key dispatches the call as the root, which is the origin that
\* start_round and end_round ask for.
SudoCall(who, c) ==
  /\ who = key
  /\ \/ /\ \/ c[1] = "start_round" /\ Funding!StartRound(c[2])
           \/ c[1] = "end_round" /\ Funding!EndRound(c[2])
        /\ UNCHANGED <<accountVars, key>>
     \/ /\ ForceTransfer(c) \/ SetBalance(c)
        /\ Reaping
        /\ UNCHANGED <<fundingVars, key>>
     \/ /\ c[1] = "set_key"
        /\ key' = c[2]
        /\ UNCHANGED <<fundingVars, accountVars, balances>>
  /\ UNCHANGED daoVars

SignedCall(who, c) ==
  FundingCall(who, c) \/ DAOCall(who, c) \/ SudoCall(who, c)
    \/ TransferCall(who, c)

\* sudo_as: the key dispatches the call c[3] as if the account c[2] had
\* signed it.  A sudo_as within another one is allowed for the key only and
\* comes down to the inner one.
SudoAsCall(who, c) ==
  /\ c[1] = "sudo_as"
  /\ who = key
  /\ Resolves(c[2])
  /\ SignedCall(c[2][2], c[3])

Call(who, c) == SignedCall(who, c) \/ SudoAsCall(who, c)

-----------------------------------------------------------------------------
(* Signing.  A wallet asks for the price of a vote before it signs one and *)
(* does not sign when there is no answer.  The question is answered at a   *)
(* block, never in the middle of an extrinsic.  asked is the nonce the     *)
(* account had there and life tells which account that was.                *)

Quote(who, c) ==
  IF c[1] = "vote" THEN Funding!vote_cost(who, c[2], c[3], c[4]) ELSE 0

Quoted(who, c) ==
  c[1] = "vote" => Funding!VoteCostAnswered(who, c[2], c[3], c[4])

Sign(who, c, n) ==
  /\ current = NoExtrinsic
  /\ Cardinality({x \in signed : x.signer = who}) < MaxSigned[who]
  /\ Cardinality({x \in signed : x.signer = who /\ x.nonce = n}) < MaxRivals[who]
  /\ Quoted(who, c)
  /\ signed' = signed \cup
       {[signer |-> who, call |-> c, nonce |-> n, asked |-> nonce[who],
         life |-> lives[who], quote |-> Quote(who, c)]}
  /\ UNCHANGED <<daoVars, fundingVars, accountVars, balances, key, current,
                 used>>

-----------------------------------------------------------------------------
(* Applying an extrinsic.                                                  *)

NonceMatches(x) == x.nonce = nonce[x.signer]

\* The calls of Sudo pay no fee when they succeed: it is withdrawn first and
\* refunded after the call, here not withdrawn at all or not refunded.
Sudoed == {"start_round", "end_round", "set_key", "force_transfer",
           "set_balance", "sudo_as"}

Fees(x) ==
  IF x.signer = key /\ x.call[1] \in Sudoed THEN {0, Fee} ELSE {Fee}

CanPayFee_M(who) == TRUE

CanPayFee(who) == balances[who] >= Fee + ExistentialDeposit

NextNonce_M(who) == nonce

NextNonce(who) == [nonce EXCEPT ![who] = @ + 1]

Place(x) == <<x.signer, lives[x.signer], x.nonce>>

Charge(x) ==
  /\ current = NoExtrinsic
  /\ NonceMatches(x)
  /\ CanPayFee(x.signer)
  /\ \E fee \in Fees(x) :
       /\ balances' = [balances EXCEPT ![x.signer] = @ - fee]
       /\ current' = [fee |-> fee, extrinsic |-> x]
  /\ nonce' = NextNonce(x.signer)
  /\ used' = used \cup {Place(x)}
  /\ UNCHANGED <<daoVars, fundingVars, lives, key, signed>>

Dispatch ==
  /\ current # NoExtrinsic
  /\ Call(current.extrinsic.signer, current.extrinsic.call)
  /\ current' = NoExtrinsic
  /\ UNCHANGED <<signed, used>>

\* The pallets' actions do not tell an error from a panic.
Fails ==
  /\ current # NoExtrinsic
  /\ ~ENABLED Call(current.extrinsic.signer, current.extrinsic.call)
  /\ current' = NoExtrinsic

Refuse ==
  /\ Fails
  /\ UNCHANGED <<daoVars, fundingVars, accountVars, balances, key, signed,
                 used>>

Panic ==
  /\ Fails
  /\ LET x == current.extrinsic IN
     /\ balances' = [balances EXCEPT ![x.signer] = @ + current.fee]
     /\ nonce' = [nonce EXCEPT ![x.signer] = @ - 1]
     /\ used' = used \ {Place(x)}
  /\ UNCHANGED <<daoVars, fundingVars, lives, key, signed>>

\* The timestamp inherent of a block comes before its extrinsics.
NewBlock ==
  /\ current = NoExtrinsic
  /\ DAO!Tick
  /\ UNCHANGED <<fundingVars, accountVars, key, signed, current, used>>

-----------------------------------------------------------------------------

Next ==
  \/ \E who \in Users : \E c \in Calls[who] :
       \E n \in nonce[who] .. nonce[who] + MaxAhead[who] : Sign(who, c, n)
  \/ \E x \in signed : Charge(x)
  \/ Dispatch
  \/ Refuse
  \/ Panic
  \/ NewBlock

Spec == Init /\ [][Next]_vars

=============================================================================
