---------------------------- MODULE RuntimeProofs ----------------------------
(***************************************************************************)
(* The nonces and the money of the runtime, where both pallets work on one *)
(* set of balances.  An extrinsic is applied once in the life of its       *)
(* signer's account: for this the pallets' calls only have to leave nonces *)
(* and lives alone.  No account is overdrawn and nobody pays but by an     *)
(* extrinsic of one's own or of the sudo key that names one: for this      *)
(* every call of the two pallets, of Balances and of Sudo is followed to   *)
(* the transfers it makes, whichever account calls.                        *)
(***************************************************************************)
EXTENDS RuntimeProperties, DataProofs

-----------------------------------------------------------------------------
(* The nonces.                                                             *)

\* Users sign with natural numbers, and accounts count their extrinsics and
\* their lives.
CountsOK ==
  /\ nonce \in [Users -> Nat]
  /\ lives \in [Users -> Nat]
  /\ \A x \in signed : x.signer \in Users /\ x.nonce \in Nat

\* What was applied in the present life of an account came before the nonce
\* the account has now, and nothing was applied in a life yet to come.
UsedIsPast ==
  \A t \in used :
    \E u \in Users, l, n \in Nat :
      /\ t = <<u, l, n>>
      /\ l <= lives[u]
      /\ l = lives[u] => n < nonce[u]

\* The extrinsic that is being applied was the last one of its signer, so
\* that undoing its charge gives back the nonce and the place it took.
CurrentIsLast ==
  current # NoExtrinsic =>
    LET x == current.extrinsic IN
    /\ x \in signed
    /\ nonce[x.signer] = x.nonce + 1

NonceInv == CountsOK /\ UsedIsPast /\ CurrentIsLast

LEMMA NonceInit == Init => NonceInv
BY DEF Init, NonceInv, CountsOK, UsedIsPast, CurrentIsLast

\* Signing adds to the extrinsics, and to nothing else.
LEMMA NonceSign ==
  ASSUME NonceInv, NEW who \in Users, NEW c \in Calls[who],
         NEW n \in nonce[who] .. nonce[who] + MaxAhead[who], Sign(who, c, n)
  PROVE  NonceInv'
<1> DEFINE x == [signer |-> who, call |-> c, nonce |-> n, asked |-> nonce[who],
                 life |-> lives[who], quote |-> Quote(who, c)]
<1>1. /\ signed' = signed \cup {x}
      /\ UNCHANGED <<nonce, lives, used, current>>
  BY DEF Sign, accountVars
<1>2. x.signer = who /\ x.nonce = n /\ n \in Nat
  BY DEF NonceInv, CountsOK
<1> HIDE DEF x
<1>3. CountsOK'
  BY <1>1, <1>2 DEF NonceInv, CountsOK
<1>4. UsedIsPast' /\ CurrentIsLast'
  BY <1>1 DEF NonceInv, UsedIsPast, CurrentIsLast
<1> QED
  BY <1>3, <1>4 DEF NonceInv

\* A charge takes the place the nonce of the account stands at, and moves
\* the nonce on.
LEMMA NonceCharge ==
  ASSUME NonceInv, NEW x \in signed, Charge(x)
  PROVE  NonceInv' /\ Place(x) \notin used
<1> DEFINE u == x.signer
           n == x.nonce
<1>1. /\ u \in Users /\ n \in Nat /\ lives[u] \in Nat
      /\ nonce[u] = n /\ nonce \in [Users -> Nat]
  BY DEF NonceInv, CountsOK, Charge, NonceMatches
<1>2. /\ nonce' = [nonce EXCEPT ![u] = @ + 1]
      /\ used' = used \cup {<<u, lives[u], n>>}
      /\ UNCHANGED <<lives, signed>>
      /\ current'.extrinsic = x
  BY DEF Charge, NextNonce, Place
<1>3. CountsOK'
  BY <1>1, <1>2 DEF NonceInv, CountsOK
<1>4. CurrentIsLast'
  BY <1>1, <1>2 DEF CurrentIsLast
<1>5. <<u, lives[u], n>> \notin used
  BY <1>1 DEF NonceInv, UsedIsPast
<1>6. UsedIsPast'
  BY <1>1, <1>2 DEF NonceInv, UsedIsPast
<1> QED
  BY <1>3, <1>4, <1>5, <1>6 DEF NonceInv, Place

\* The calls of Balances start the next life of an account they reap, and
\* every other call keeps nonces and lives; so does a call that the sudo key
\* makes as another account, since it is one of these calls.
LEMMA CallNonces ==
  ASSUME NEW who, NEW c, Call(who, c)
  PROVE  UNCHANGED accountVars \/ Reaping
<1>1. ASSUME NEW a, NEW d, SignedCall(a, d)
      PROVE  UNCHANGED accountVars \/ Reaping
  <2>1. CASE FundingCall(a, d)
    BY <2>1 DEF FundingCall, accountVars
  <2>2. CASE DAOCall(a, d)
    BY <2>2 DEF DAOCall, accountVars
  <2>3. CASE SudoCall(a, d)
    BY <2>3 DEF SudoCall, accountVars
  <2>4. CASE TransferCall(a, d)
    BY <2>4 DEF TransferCall
  <2> QED
    BY <1>1, <2>1, <2>2, <2>3, <2>4 DEF SignedCall
<1> QED
  BY <1>1 DEF Call, SudoAsCall

LEMMA NonceDispatch ==
  ASSUME NonceInv, Dispatch
  PROVE  NonceInv'
<1>1. current' = NoExtrinsic /\ UNCHANGED <<signed, used>>
  BY DEF Dispatch
<1>2. \/ UNCHANGED <<nonce, lives>>
      \/ \E S \in SUBSET Users :
           /\ nonce' = [u \in Users |-> IF u \in S THEN 0 ELSE nonce[u]]
           /\ lives' = [u \in Users |-> IF u \in S THEN lives[u] + 1 ELSE lives[u]]
  <2> DEFINE S == {u \in Users : Reaped(u)}
  <2>1. UNCHANGED accountVars \/ Reaping
    BY CallNonces DEF Dispatch
  <2>2. CASE UNCHANGED accountVars
    BY <2>2 DEF accountVars
  <2>3. CASE Reaping
    <3>1. /\ nonce' = [u \in Users |-> IF u \in S THEN 0 ELSE nonce[u]]
          /\ lives' = [u \in Users |-> IF u \in S THEN lives[u] + 1 ELSE lives[u]]
      BY <2>3 DEF Reaping
    <3> QED
      BY <3>1
  <2> QED
    BY <2>1, <2>2, <2>3
<1>3. CurrentIsLast'
  BY <1>1 DEF CurrentIsLast
<1>4. CASE UNCHANGED <<nonce, lives>>
  BY <1>1, <1>3, <1>4 DEF NonceInv, CountsOK, UsedIsPast
<1>5. ASSUME NEW S \in SUBSET Users,
             nonce' = [u \in Users |-> IF u \in S THEN 0 ELSE nonce[u]],
             lives' = [u \in Users |-> IF u \in S THEN lives[u] + 1 ELSE lives[u]]
      PROVE  CountsOK' /\ UsedIsPast'
  <2>1. CountsOK'
    BY <1>1, <1>5 DEF NonceInv, CountsOK
  <2>2. UsedIsPast'
    BY <1>1, <1>5 DEF NonceInv, CountsOK, UsedIsPast
  <2> QED
    BY <2>1, <2>2
<1> QED
  BY <1>2, <1>3, <1>4, <1>5 DEF NonceInv

\* A panic gives back the nonce of the charge and empties the place.
LEMMA NoncePanic ==
  ASSUME NonceInv, Panic
  PROVE  NonceInv'
<1> DEFINE x == current.extrinsic
           u == x.signer
           n == x.nonce
<1>1. /\ u \in Users /\ n \in Nat /\ lives[u] \in Nat
      /\ nonce[u] = n + 1 /\ nonce \in [Users -> Nat]
  BY DEF Panic, Fails, NonceInv, CountsOK, CurrentIsLast
<1>2. /\ nonce' = [nonce EXCEPT ![u] = @ - 1]
      /\ used' = used \ {<<u, lives[u], n>>}
      /\ UNCHANGED <<lives, signed>>
      /\ current' = NoExtrinsic
  BY DEF Panic, Fails, Place
<1>3. CountsOK'
  BY <1>1, <1>2 DEF NonceInv, CountsOK
<1>4. CurrentIsLast'
  BY <1>2 DEF CurrentIsLast
<1>5. UsedIsPast'
  <2> SUFFICES ASSUME NEW t \in used, t # <<u, lives[u], n>>
               PROVE  \E v \in Users, l, m \in Nat :
                        /\ t = <<v, l, m>>
                        /\ l <= lives[v]
                        /\ l = lives[v] => m < nonce'[v]
    BY <1>2 DEF UsedIsPast
  <2>1. PICK v \in Users, l \in Nat, m \in Nat :
          /\ t = <<v, l, m>>
          /\ l <= lives[v]
          /\ l = lives[v] => m < nonce[v]
    BY DEF NonceInv, UsedIsPast
  <2>2. l = lives[v] => m < nonce'[v]
    BY <1>1, <1>2, <2>1
  <2> QED
    BY <2>1, <2>2
<1> QED
  BY <1>3, <1>4, <1>5 DEF NonceInv

LEMMA NonceStep ==
  ASSUME NonceInv, [Next]_vars
  PROVE  NonceInv'
<1>1. CASE UNCHANGED vars
  BY <1>1 DEF vars, accountVars, NonceInv, CountsOK, UsedIsPast, CurrentIsLast
<1>2. CASE Refuse
  BY <1>2 DEF Refuse, Fails, accountVars, NonceInv, CountsOK, UsedIsPast,
              CurrentIsLast
<1>3. CASE NewBlock
  BY <1>3 DEF NewBlock, accountVars, NonceInv, CountsOK, UsedIsPast,
              CurrentIsLast
<1> QED
  BY <1>1, <1>2, <1>3, NonceSign, NonceCharge, NonceDispatch, NoncePanic
  DEF Next

\* An extrinsic is applied only in a place that nothing has been applied in,
\* whoever sends it again, in whatever order, after whatever failures and
\* panics: CheckNonce compares with a number that only a reaped account
\* starts anew (runtime/src/lib.rs:386-394).
THEOREM AppliedOncePerLife == Spec => AppliedOnce
<1>1. Init => NonceInv
  BY NonceInit
<1>2. NonceInv /\ [Next]_vars => NonceInv'
  BY NonceStep
<1>3. NonceInv /\ [Next]_vars
        => [\A x \in signed :
              current = NoExtrinsic /\ current' # NoExtrinsic
                /\ current'.extrinsic = x => Place(x) \notin used]_vars
  <2> SUFFICES ASSUME NonceInv, Next, NEW x \in signed,
                      current = NoExtrinsic, current' # NoExtrinsic,
                      current'.extrinsic = x
               PROVE  Place(x) \notin used
    OBVIOUS
  <2>1. PICK y \in signed : Charge(y)
    BY DEF Next, Sign, Dispatch, Refuse, Panic, Fails, NewBlock
  <2>2. current'.extrinsic = y
    BY <2>1 DEF Charge
  <2> QED
    BY <2>1, <2>2, NonceCharge
<1> QED
  BY <1>1, <1>2, <1>3, PTL DEF Spec, AppliedOnce

-----------------------------------------------------------------------------
(* The transfers.                                                          *)

ProposalType ==
  [proposer : Accounts, applicant : Accounts, shares_requested : Number,
   starting_period : Int, yes_votes : Number, no_votes : Number,
   processed : BOOLEAN, did_pass : BOOLEAN, aborted : BOOLEAN,
   token_tribute : Number, max_total_shares_at_yes : Nat]

\* What the handlers read to find out how much is paid, and to whom: the
\* settings, the shares in circulation and the queue of the DAO, the members
\* its keys stand for, and the owners of the projects.
PaymentsTyped ==
  /\ now \in Nat
  /\ SummonTime \in Nat
  /\ settings \in DAO!SettingsType
  /\ TotalShares \in Nat
  /\ AddressOfDelegates \in [DOMAIN AddressOfDelegates -> Accounts]
  /\ ProposalQueue \in Seq(ProposalType)
  /\ \A p \in DOMAIN Projects :
       "owner" \in DOMAIN Projects[p] /\ Projects[p].owner \in Accounts

BalancesTyped == balances \in [Accounts -> Nat]

\* What a call of who leaves behind.
PaidBy(who) ==
  /\ PaymentsTyped'
  /\ BalancesTyped'
  /\ \A u \in Users : u # who => balances'[u] >= balances[u]

\* The same when other accounts may pay.
PaidFrom(S) ==
  /\ PaymentsTyped'
  /\ BalancesTyped'
  /\ \A u \in Users \ S : balances'[u] >= balances[u]

LEMMA AccountSets ==
  /\ Users \subseteq Accounts
  /\ {GuildAccount, CustodyAccount, FundAccount} \subseteq Accounts
  /\ GuildAccount \notin Users
  /\ CustodyAccount \notin Users
  /\ FundAccount \notin Users
BY RuntimeAssumption DEF Accounts

\* A transfer overdraws nobody and takes from the sender only.
LEMMA TransferKeeps ==
  ASSUME NEW b \in [Accounts -> Nat], NEW from \in Accounts,
         NEW to \in Accounts, NEW value \in Nat, NEW requirement
  PROVE  /\ Transfer(b, from, to, value, requirement) \in [Accounts -> Nat]
         /\ \A u \in Accounts : u # from =>
              Transfer(b, from, to, value, requirement)[u] >= b[u]
<1>1. Transfer(b, from, to, value, requirement) \in [Accounts -> Nat]
  BY TransferType
<1>2. \A u \in Accounts : u # from =>
        Transfer(b, from, to, value, requirement)[u] >= b[u]
  BY DEF Transfer
<1> QED
  BY <1>1, <1>2

\* The pallets pay with the same transfer.
LEMMA DAOTransferKeeps ==
  ASSUME NEW b \in [Accounts -> Nat], NEW from \in Accounts,
         NEW to \in Accounts, NEW value \in Nat, NEW requirement
  PROVE  /\ DAO!Transfer(b, from, to, value, requirement) \in [Accounts -> Nat]
         /\ \A u \in Accounts : u # from =>
              DAO!Transfer(b, from, to, value, requirement)[u] >= b[u]
<1>1. DAO!Transfer(b, from, to, value, requirement)
        = Transfer(b, from, to, value, requirement)
  BY DEF DAO!Transfer, DAO!CanTransfer, DAO!Remainder, DAO!KeepAlive,
         Transfer, CanTransfer, Remainder, KeepAlive
<1> QED
  BY <1>1, TransferKeeps

LEMMA FundingTransferKeeps ==
  ASSUME NEW b \in [Accounts -> Nat], NEW from \in Accounts,
         NEW to \in Accounts, NEW value \in Nat, NEW requirement
  PROVE  /\ Funding!Transfer(b, from, to, value, requirement)
              \in [Accounts -> Nat]
         /\ \A u \in Accounts : u # from =>
              Funding!Transfer(b, from, to, value, requirement)[u] >= b[u]
<1>1. Funding!Transfer(b, from, to, value, requirement)
        = Transfer(b, from, to, value, requirement)
  BY DEF Funding!Transfer, Funding!CanTransfer, Funding!Remainder,
         Funding!KeepAlive, Transfer, CanTransfer, Remainder, KeepAlive
<1> QED
  BY <1>1, TransferKeeps

LEMMA NumberSets ==
  /\ DAO!Number = Number
  /\ Funding!Number = Number
BY DEF DAO!Number, Funding!Number, Number

-----------------------------------------------------------------------------
(* The calls of the DAO.                                                   *)

\* The settings are numbers of their type.
LEMMA SettingNumbers ==
  ASSUME PaymentsTyped
  PROVE  /\ settings.period_duration \in Number
         /\ settings.proposal_deposit \in Number
         /\ settings.processing_reward \in Number
BY NumberSets DEF PaymentsTyped, DAO!SettingsType

LEMMA PeriodIsInteger ==
  ASSUME PaymentsTyped, DAO!PeriodDefined
  PROVE  DAO!get_current_period \in Int
<1> DEFINE d == settings.period_duration
           t == (now - SummonTime) \div 1000
<1>1. d \in Nat /\ d > 0
  BY SettingNumbers, NumberIsNat DEF DAO!PeriodDefined
<1>2. t \in Int
  BY DEF PaymentsTyped
<1> HIDE DEF d, t
<1>3. t \div d \in Int
  BY <1>1, <1>2
<1> QED
  BY <1>3 DEF d, t, DAO!get_current_period

\* A proposal of the queue has its type, and so has the queue with another
\* proposal in its place.
LEMMA ProposalTypes ==
  ASSUME PaymentsTyped, NEW i \in DAO!Indices
  PROVE  /\ i \in Nat
         /\ i + 1 \in 1 .. Len(ProposalQueue)
         /\ DAO!Proposal(i) = ProposalQueue[i + 1]
         /\ ProposalQueue[i + 1] \in ProposalType
         /\ \A p \in ProposalType :
              [ProposalQueue EXCEPT ![i + 1] = p] \in Seq(ProposalType)
<1>1. i \in Nat /\ i + 1 \in 1 .. Len(ProposalQueue)
  BY DEF PaymentsTyped, DAO!Indices
<1> QED
  BY <1>1 DEF PaymentsTyped, DAO!Proposal

LEMMA SummonPays ==
  ASSUME PaymentsTyped, BalancesTyped, NEW who \in Accounts,
         NEW s \in DAO!SettingsType, DAO!Summon(who, s),
         UNCHANGED fundingVars
  PROVE  PaidBy(who)
<1>1. AddressOfDelegates' \in [DOMAIN AddressOfDelegates' -> Accounts]
  BY DEF PaymentsTyped, DAO!Summon, DAO!Put
<1> QED
  BY <1>1, AccountSets
  DEF DAO!Summon, DAO!queue, fundingVars, PaidBy, PaymentsTyped, BalancesTyped

LEMMA CustodyPays ==
  ASSUME PaymentsTyped, BalancesTyped, NEW who \in Accounts, NEW t \in Number,
         DAO!Custody(who, t), UNCHANGED fundingVars
  PROVE  PaidBy(who)
<1>1. t \in Nat
  BY NumberIsNat
<1>2. /\ balances' \in [Accounts -> Nat]
      /\ \A u \in Accounts : u # who => balances'[u] >= balances[u]
  BY <1>1, AccountSets, DAOTransferKeeps DEF DAO!Custody, BalancesTyped
<1> QED
  BY <1>2, AccountSets
  DEF DAO!Custody, DAO!clock, DAO!shares, DAO!membership, DAO!queue,
      fundingVars, PaidBy, PaymentsTyped, BalancesTyped

LEMMA SubmitProposalPays ==
  ASSUME PaymentsTyped, BalancesTyped, NEW who \in Accounts,
         NEW a \in Accounts, NEW t \in Number, NEW n \in Number,
         DAO!SubmitProposal(who, a, t, n), UNCHANGED fundingVars
  PROVE  PaidBy(who)
<1>1. DAO!get_current_period \in Int
  BY PeriodIsInteger DEF DAO!SubmitProposal
<1>2. DAO!StartingPeriod \in Int
  <2>1. CASE Len(ProposalQueue) = 0
    BY <1>1, <2>1 DEF DAO!StartingPeriod
  <2>2. CASE Len(ProposalQueue) # 0
    <3>1. Len(ProposalQueue) \in 1 .. Len(ProposalQueue)
      BY <2>2 DEF PaymentsTyped
    <3>2. ProposalQueue[Len(ProposalQueue)] \in ProposalType
      BY <3>1 DEF PaymentsTyped
    <3>3. ProposalQueue[Len(ProposalQueue)].starting_period \in Int
      BY <3>2 DEF ProposalType
    <3> QED
      BY <1>1, <3>3 DEF DAO!StartingPeriod
  <2> QED
    BY <2>1, <2>2
<1>3. AddressOfDelegates[who] \in Accounts
  BY DEF PaymentsTyped, DAO!SubmitProposal, DAO!ActsForMember
<1>4. DAO!NewProposal(AddressOfDelegates[who], a, t, n) \in ProposalType
  BY <1>2, <1>3, NumberIsNat DEF DAO!NewProposal, ProposalType
<1>5. ProposalQueue' \in Seq(ProposalType)
  BY <1>4 DEF DAO!SubmitProposal, PaymentsTyped
<1>6. settings.proposal_deposit \in Nat
  BY SettingNumbers, NumberIsNat
<1>7. /\ balances' \in [Accounts -> Nat]
      /\ \A u \in Accounts : u # who => balances'[u] >= balances[u]
  BY <1>6, AccountSets, DAOTransferKeeps
  DEF DAO!SubmitProposal, DAO!DepositPaid, BalancesTyped
<1> QED
  BY <1>5, <1>7, AccountSets
  DEF DAO!SubmitProposal, DAO!clock, DAO!membership, fundingVars, PaidBy,
      PaymentsTyped, BalancesTyped

\* A vote pays nothing.
LEMMA SubmitVotePays ==
  ASSUME PaymentsTyped, BalancesTyped, NEW who \in Accounts,
         NEW i \in DAO!Indices, DAO!SubmitVote(who, i), UNCHANGED fundingVars
  PROVE  PaidBy(who)
<1> DEFINE m == AddressOfDelegates[who]
           p == ProposalQueue[i + 1]
<1>1. i + 1 \in 1 .. Len(ProposalQueue) /\ p \in ProposalType
      /\ DAO!Proposal(i) = p
  BY ProposalTypes
<1>2. ProposalQueue' \in Seq(ProposalType)
  <2>1. CASE DAO!VoteYes(m, i)
    <3> DEFINE q == [p EXCEPT !.yes_votes = @ + Members[m].shares,
                              !.max_total_shares_at_yes = DAO!RaiseMaxTotal(@)]
    <3>1. q \in ProposalType
      BY <1>1, <2>1, NumberSets
      DEF DAO!VoteYes, DAO!RaiseMaxTotal, ProposalType, PaymentsTyped
    <3>2. ProposalQueue' = [ProposalQueue EXCEPT ![i + 1] = q]
      BY <1>1, <2>1 DEF DAO!VoteYes, PaymentsTyped
    <3> QED
      BY <3>1, <3>2, ProposalTypes
  <2>2. CASE DAO!VoteNo(m, i)
    <3> DEFINE q == [p EXCEPT !.no_votes = @ + Members[m].shares]
    <3>1. q \in ProposalType
      BY <1>1, <2>2, NumberSets DEF DAO!VoteNo, ProposalType
    <3>2. ProposalQueue' = [ProposalQueue EXCEPT ![i + 1] = q]
      BY <1>1, <2>2 DEF DAO!VoteNo, PaymentsTyped
    <3> QED
      BY <3>1, <3>2, ProposalTypes
  <2> QED
    BY <2>1, <2>2 DEF DAO!SubmitVote
<1> QED
  BY <1>2, AccountSets
  DEF DAO!SubmitVote, DAO!clock, DAO!shares, fundingVars, PaidBy,
      PaymentsTyped, BalancesTyped

\* The three payments of process_proposal, two of them by the guild bank.
LEMMA ProcessBalancesKeep ==
  ASSUME PaymentsTyped, BalancesTyped, NEW who \in Accounts,
         NEW p \in ProposalType, NEW to \in Accounts
  PROVE  /\ DAO!BalancesAfterProcess(who, p, to) \in [Accounts -> Nat]
         /\ \A u \in Users :
              DAO!BalancesAfterProcess(who, p, to)[u] >= balances[u]
<1> DEFINE reward   == settings.processing_reward
           rest     == DAO!Sub(settings.proposal_deposit,
                               settings.processing_reward)
           tributed == DAO!Transfer(balances, CustodyAccount, to,
                                    p.token_tribute, DAO!AllowDeath)
           rewarded == DAO!Transfer(tributed, GuildAccount, who, reward,
                                    DAO!KeepAlive)
           after    == DAO!Transfer(rewarded, GuildAccount, p.proposer, rest,
                                    DAO!KeepAlive)
<1>1. reward \in Nat
  BY SettingNumbers, NumberIsNat
<1>2. rest \in Nat
  <2>1. rest = Sub(settings.proposal_deposit, settings.processing_reward)
    BY DEF DAO!Sub, Sub
  <2>2. Sub(settings.proposal_deposit, settings.processing_reward) \in Number
    BY SettingNumbers, SubType
  <2> QED
    BY <2>1, <2>2, NumberIsNat
<1>3. p.token_tribute \in Nat /\ p.proposer \in Accounts
  BY NumberIsNat DEF ProposalType
<1> HIDE DEF reward, rest
<1>4. /\ tributed \in [Accounts -> Nat]
      /\ \A u \in Users : tributed[u] >= balances[u]
  BY <1>3, AccountSets, DAOTransferKeeps DEF BalancesTyped
<1> HIDE DEF tributed
<1>5. /\ rewarded \in [Accounts -> Nat]
      /\ \A u \in Users : rewarded[u] >= tributed[u]
  BY <1>1, <1>4, AccountSets, DAOTransferKeeps
<1> HIDE DEF rewarded
<1>6. /\ after \in [Accounts -> Nat]
      /\ \A u \in Users : after[u] >= rewarded[u]
  BY <1>2, <1>3, <1>5, AccountSets, DAOTransferKeeps
<1>7. \A u \in Users : after[u] >= balances[u]
  <2> HIDE DEF after
  <2> TAKE u \in Users
  <2>1. {after[u], rewarded[u], tributed[u], balances[u]} \subseteq Nat
    BY <1>4, <1>5, <1>6, AccountSets DEF BalancesTyped
  <2> QED
    BY <1>4, <1>5, <1>6, <2>1
<1>8. DAO!BalancesAfterProcess(who, p, to) = after
  BY DEF reward, rest, tributed, rewarded, DAO!BalancesAfterProcess,
         DAO!GuildPays
<1> QED
  BY <1>6, <1>7, <1>8

\* A member that is admitted is an applicant, and the keys that are reset
\* stand for members.
LEMMA DelegatesAfterPassTyped ==
  ASSUME PaymentsTyped, NEW a \in Accounts
  PROVE  DAO!DelegatesAfterPass(a)
           \in [DOMAIN DAO!DelegatesAfterPass(a) -> Accounts]
<1> DEFINE reset == IF a \in DOMAIN AddressOfDelegates
                    THEN DAO!Put(AddressOfDelegates, AddressOfDelegates[a],
                                 AddressOfDelegates[a])
                    ELSE AddressOfDelegates
<1>1. reset \in [DOMAIN reset -> Accounts]
  BY DEF PaymentsTyped, DAO!Put
<1>2. CASE a \in DOMAIN Members
  BY <1>2 DEF DAO!DelegatesAfterPass, PaymentsTyped
<1>3. CASE a \notin DOMAIN Members
  <2>1. DAO!DelegatesAfterPass(a) = DAO!Put(reset, a, a)
    BY <1>3 DEF DAO!DelegatesAfterPass
  <2> HIDE DEF reset
  <2>2. DAO!Put(reset, a, a) \in [DOMAIN DAO!Put(reset, a, a) -> Accounts]
    BY <1>1 DEF DAO!Put
  <2> QED
    BY <2>1, <2>2
<1> QED
  BY <1>2, <1>3

LEMMA ProcessProposalPays ==
  ASSUME PaymentsTyped, BalancesTyped, NEW who \in Accounts,
         NEW i \in DAO!Indices, DAO!ProcessProposal(who, i),
         UNCHANGED fundingVars
  PROVE  PaidBy(who)
<1> DEFINE p == ProposalQueue[i + 1]
<1>1. i + 1 \in 1 .. Len(ProposalQueue) /\ p \in ProposalType
      /\ DAO!Proposal(i) = p
  BY ProposalTypes
<1>2. p.applicant \in Accounts /\ p.shares_requested \in Number
  BY <1>1 DEF ProposalType
<1>3. CASE DAO!Pass(who, i)
  <2> DEFINE q == [p EXCEPT !.processed = TRUE, !.did_pass = TRUE]
  <2>1. q \in ProposalType
    BY <1>1 DEF ProposalType
  <2>2. ProposalQueue' = [ProposalQueue EXCEPT ![i + 1] = q]
    BY <1>1, <1>3 DEF DAO!Pass, PaymentsTyped
  <2>3. ProposalQueue' \in Seq(ProposalType)
    BY <2>1, <2>2, ProposalTypes
  <2>4. TotalShares' \in Nat
    BY <1>3, NumberSets, NumberIsNat DEF DAO!Pass
  <2>5. AddressOfDelegates' \in [DOMAIN AddressOfDelegates' -> Accounts]
    <3>1. AddressOfDelegates' = DAO!DelegatesAfterPass(p.applicant)
      BY <1>1, <1>3 DEF DAO!Pass
    <3> QED
      BY <1>2, <3>1, DelegatesAfterPassTyped
  <2>6. balances' = DAO!BalancesAfterProcess(who, p, GuildAccount)
    BY <1>1, <1>3 DEF DAO!Pass
  <2>7. /\ balances' \in [Accounts -> Nat]
        /\ \A u \in Users : balances'[u] >= balances[u]
    BY <1>1, <2>6, AccountSets, ProcessBalancesKeep
  <2> QED
    BY <2>3, <2>4, <2>5, <2>7
    DEF DAO!ProcessProposal, DAO!clock, fundingVars, PaidBy, PaymentsTyped,
        BalancesTyped
<1>4. CASE DAO!Fail(who, i)
  <2> DEFINE q == [p EXCEPT !.processed = TRUE]
  <2>1. q \in ProposalType
    BY <1>1 DEF ProposalType
  <2>2. ProposalQueue' = [ProposalQueue EXCEPT ![i + 1] = q]
    BY <1>1, <1>4 DEF DAO!Fail, PaymentsTyped
  <2>3. ProposalQueue' \in Seq(ProposalType)
    BY <2>1, <2>2, ProposalTypes
  <2>4. balances' = DAO!BalancesAfterProcess(who, p, p.applicant)
    BY <1>1, <1>4 DEF DAO!Fail
  <2>5. /\ balances' \in [Accounts -> Nat]
        /\ \A u \in Users : balances'[u] >= balances[u]
    BY <1>1, <1>2, <2>4, AccountSets, ProcessBalancesKeep
  <2> QED
    BY <1>4, <2>3, <2>5
    DEF DAO!ProcessProposal, DAO!Fail, DAO!clock, DAO!membership, fundingVars,
        PaidBy, PaymentsTyped, BalancesTyped
<1> QED
  BY <1>3, <1>4 DEF DAO!ProcessProposal

LEMMA RagequitPays ==
  ASSUME PaymentsTyped, BalancesTyped, NEW who \in Accounts, NEW n \in Number,
         DAO!Ragequit(who, n), UNCHANGED fundingVars
  PROVE  PaidBy(who)
<1> DEFINE part == (balances[GuildAccount] * n) \div TotalShares
<1>1. part \in Nat
  <2>1. balances[GuildAccount] * n \in Nat
    BY NumberSets, NumberIsNat DEF DAO!Ragequit
  <2>2. TotalShares \in Nat /\ TotalShares > 0
    BY DEF DAO!Ragequit, PaymentsTyped
  <2> QED
    BY <2>1, <2>2, DivType
<1>2. TotalShares' \in Nat
  <2>1. n \in Nat /\ TotalShares \in Nat /\ TotalShares >= n
    BY NumberIsNat DEF DAO!Ragequit, PaymentsTyped
  <2> QED
    BY <2>1 DEF DAO!Ragequit
<1>3. balances' = DAO!Transfer(balances, GuildAccount, who, part,
                               DAO!KeepAlive)
  BY DEF DAO!Ragequit, DAO!GuildPays
<1> HIDE DEF part
<1>4. /\ balances' \in [Accounts -> Nat]
      /\ \A u \in Users : balances'[u] >= balances[u]
  BY <1>1, <1>3, AccountSets, DAOTransferKeeps DEF BalancesTyped
<1> QED
  BY <1>2, <1>4
  DEF DAO!Ragequit, DAO!clock, DAO!queue, fundingVars, PaidBy, PaymentsTyped,
      BalancesTyped

LEMMA AbortPays ==
  ASSUME PaymentsTyped, BalancesTyped, NEW who \in Accounts,
         NEW i \in DAO!Indices, DAO!Abort(who, i), UNCHANGED fundingVars
  PROVE  PaidBy(who)
<1> DEFINE p == ProposalQueue[i + 1]
           q == [p EXCEPT !.token_tribute = 0, !.aborted = TRUE]
<1>1. i + 1 \in 1 .. Len(ProposalQueue) /\ p \in ProposalType
      /\ DAO!Proposal(i) = p
  BY ProposalTypes
<1>2. q \in ProposalType /\ p.token_tribute \in Nat
  BY <1>1, NumberIsNat DEF ProposalType
<1>3. ProposalQueue' = [ProposalQueue EXCEPT ![i + 1] = q]
  BY <1>1 DEF DAO!Abort, PaymentsTyped
<1>4. ProposalQueue' \in Seq(ProposalType)
  BY <1>2, <1>3, ProposalTypes
<1>5. balances' = DAO!Transfer(balances, CustodyAccount, who, p.token_tribute,
                               DAO!AllowDeath)
  BY <1>1 DEF DAO!Abort
<1>6. /\ balances' \in [Accounts -> Nat]
      /\ \A u \in Users : balances'[u] >= balances[u]
  BY <1>2, <1>5, AccountSets, DAOTransferKeeps DEF BalancesTyped
<1> QED
  BY <1>4, <1>6
  DEF DAO!Abort, DAO!clock, DAO!shares, DAO!membership, fundingVars, PaidBy,
      PaymentsTyped, BalancesTyped

LEMMA UpdateDelegatePays ==
  ASSUME PaymentsTyped, BalancesTyped, NEW who \in Accounts, NEW delegate,
         DAO!UpdateDelegate(who, delegate), UNCHANGED fundingVars
  PROVE  PaidBy(who)
<1> DEFINE kept == DAO!Remove(AddressOfDelegates,
                              DAO!MemberAt(who).delegate_key)
<1>1. kept \in [DOMAIN kept -> Accounts]
  BY DEF PaymentsTyped, DAO!Remove
<1>2. AddressOfDelegates' = DAO!Put(kept, delegate, who)
  BY DEF DAO!UpdateDelegate
<1> HIDE DEF kept
<1>3. AddressOfDelegates' \in [DOMAIN AddressOfDelegates' -> Accounts]
  BY <1>1, <1>2 DEF DAO!Put
<1> QED
  BY <1>3, AccountSets
  DEF DAO!UpdateDelegate, DAO!clock, DAO!shares, DAO!queue, fundingVars,
      PaidBy, PaymentsTyped, BalancesTyped

LEMMA DAOCallPays ==
  ASSUME PaymentsTyped, BalancesTyped, NEW who \in Accounts, NEW c,
         CallTyped(c), DAOCall(who, c)
  PROVE  PaidBy(who)
<1>1. UNCHANGED fundingVars
  BY DEF DAOCall
<1>2. CASE c[1] = "summon" /\ DAO!Summon(who, c[2])
  BY <1>1, <1>2, SummonPays DEF CallTyped
<1>3. CASE c[1] = "custody" /\ DAO!Custody(who, c[2])
  BY <1>1, <1>3, CustodyPays DEF CallTyped
<1>4. CASE /\ c[1] = "submit_proposal"
           /\ DAO!SubmitProposal(who, c[2], c[3], c[4])
  BY <1>1, <1>4, SubmitProposalPays DEF CallTyped
<1>5. CASE c[1] = "ragequit" /\ DAO!Ragequit(who, c[2])
  BY <1>1, <1>5, RagequitPays DEF CallTyped
<1>6. CASE DAO!UpdateDelegate(who, c[2])
  BY <1>1, <1>6, UpdateDelegatePays
<1>7. CASE c[2] \in DAO!Indices /\ DAO!SubmitVote(who, c[2])
  BY <1>1, <1>7, SubmitVotePays
<1>8. CASE c[2] \in DAO!Indices /\ DAO!ProcessProposal(who, c[2])
  BY <1>1, <1>8, ProcessProposalPays
<1>9. CASE c[2] \in DAO!Indices /\ DAO!Abort(who, c[2])
  BY <1>1, <1>9, AbortPays
<1> QED
  BY <1>2, <1>3, <1>4, <1>5, <1>6, <1>7, <1>8, <1>9 DEF DAOCall

-----------------------------------------------------------------------------
(* The calls of the funding pallet.                                        *)

\* The balances after the payment to project h, if there is one.
PaidProject(r, b, h) ==
  IF h \notin Funding!ProjectsOf(r) THEN b
  ELSE Funding!Transfer(b, FundAccount, Funding!Project(r, h).owner,
                        Funding!Payout(Rounds[r], Funding!Project(r, h)),
                        Funding!KeepAlive)

LEMMA PaidProjectKeeps ==
  ASSUME PaymentsTyped, NEW r, NEW b \in [Accounts -> Nat], NEW h,
         \A k \in Funding!ProjectsOf(r) :
           Funding!Payout(Rounds[r], Funding!Project(r, k)) \in Funding!Number
  PROVE  /\ PaidProject(r, b, h) \in [Accounts -> Nat]
         /\ \A u \in Users : PaidProject(r, b, h)[u] >= b[u]
<1>1. CASE h \in Funding!ProjectsOf(r)
  <2> DEFINE owner  == Funding!Project(r, h).owner
             payout == Funding!Payout(Rounds[r], Funding!Project(r, h))
  <2>1. owner \in Accounts
    BY <1>1, AccountSets
    DEF PaymentsTyped, Funding!ProjectsOf, Funding!Project
  <2>2. payout \in Nat
    BY <1>1, NumberSets, NumberIsNat
  <2>3. PaidProject(r, b, h)
          = Funding!Transfer(b, FundAccount, owner, payout, Funding!KeepAlive)
    BY <1>1 DEF PaidProject
  <2> HIDE DEF owner, payout
  <2> QED
    BY <2>1, <2>2, <2>3, AccountSets, FundingTransferKeeps
<1>2. CASE h \notin Funding!ProjectsOf(r)
  BY <1>2, AccountSets DEF PaidProject
<1> QED
  BY <1>1, <1>2

\* The payments at the end of a round, one after the other: the recursive
\* function of BalancesAfterEnd exists, by induction over the projects, and
\* by another one it yields balances, none of them reduced but the fund's.
LEMMA EndRoundKeeps ==
  ASSUME PaymentsTyped, BalancesTyped, NEW r,
         \A k \in Funding!ProjectsOf(r) :
           Funding!Payout(Rounds[r], Funding!Project(r, k)) \in Funding!Number
  PROVE  /\ Funding!BalancesAfterEnd(r) \in [Accounts -> Nat]
         /\ \A u \in Users : Funding!BalancesAfterEnd(r)[u] >= balances[u]
<1> DEFINE B == {b \in [Accounts -> Nat] : \A u \in Users : b[u] >= balances[u]}
           Step(f, h) == IF h = 0 THEN balances ELSE PaidProject(r, f[h - 1], h)
           Lists(n, f) == /\ f \in [0 .. n -> B]
                          /\ \A h \in 0 .. n : f[h] = Step(f, h)
           Solves(f) == f = [h \in 0 .. LastHash |-> Step(f, h)]
           paid == CHOOSE f : Solves(f)
           S == {n \in 0 .. LastHash : \E f : Lists(n, f)}
           T == {n \in 0 .. LastHash : paid[n] \in B}
<1>1. LastHash \in Nat /\ balances \in B
  BY RuntimeAssumption, AccountSets DEF BalancesTyped
<1>2. ASSUME NEW h, NEW b \in B PROVE PaidProject(r, b, h) \in B
  <2>1. /\ PaidProject(r, b, h) \in [Accounts -> Nat]
        /\ \A u \in Users : PaidProject(r, b, h)[u] >= b[u]
    BY PaidProjectKeeps
  <2>2. ASSUME NEW u \in Users PROVE PaidProject(r, b, h)[u] >= balances[u]
    <3>1. /\ {PaidProject(r, b, h)[u], b[u], balances[u]} \subseteq Nat
          /\ b[u] >= balances[u]
      BY <2>1, AccountSets DEF BalancesTyped
    <3> QED
      BY <2>1, <3>1
  <2> QED
    BY <2>1, <2>2
<1> HIDE DEF B
<1>3. 0 .. LastHash \subseteq S
  <2>1. 0 \in S
    <3> DEFINE f == [h \in 0 .. 0 |-> balances]
    <3>1. Lists(0, f)
      BY <1>1
    <3>2. 0 \in 0 .. LastHash
      BY <1>1
    <3> HIDE DEF f
    <3> QED
      BY <3>1, <3>2
  <2>2. ASSUME NEW n \in 1 .. LastHash, n - 1 \in S PROVE n \in S
    <3>1. PICK f : Lists(n - 1, f)
      BY <2>2
    <3> DEFINE g == [h \in 0 .. n |-> IF h = n THEN PaidProject(r, f[n - 1], n)
                                     ELSE f[h]]
    <3>2. n - 1 \in 0 .. n - 1 /\ f[n - 1] \in B
      BY <1>1, <3>1
    <3>3. g \in [0 .. n -> B]
      BY <1>1, <1>2, <3>1, <3>2
    <3>4. ASSUME NEW h \in 0 .. n PROVE g[h] = Step(g, h)
      <4>1. CASE h = n
        BY <1>1, <4>1
      <4>2. CASE h = 0
        BY <1>1, <3>1, <4>2
      <4>3. CASE h # n /\ h # 0
        <5>1. h \in 0 .. n - 1 /\ h - 1 \in 0 .. n /\ h - 1 # n
          BY <1>1, <4>3
        <5>2. f[h] = PaidProject(r, f[h - 1], h)
          BY <3>1, <4>3, <5>1
        <5>3. g[h] = f[h] /\ g[h - 1] = f[h - 1]
          BY <4>3, <5>1
        <5> QED
          BY <4>3, <5>2, <5>3
      <4> QED
        BY <4>1, <4>2, <4>3
    <3>5. Lists(n, g)
      BY <3>3, <3>4
    <3>6. n \in 0 .. LastHash
      BY <1>1
    <3> QED
      BY <3>5, <3>6
  <2> HIDE DEF S
  <2> QED
    BY <1>1, <2>1, <2>2, NumberInduction
<1>4. \E f : Solves(f)
  <2>1. PICK f : Lists(LastHash, f)
    BY <1>1, <1>3
  <2>2. Solves(f)
    BY <2>1
  <2> QED
    BY <2>2
<1>5. Solves(paid)
  BY <1>4
<1>6. Funding!BalancesAfterEnd(r) = paid[LastHash]
  BY DEF Funding!BalancesAfterEnd, PaidProject
<1>7. \A h \in 0 .. LastHash : paid[h] = Step(paid, h)
  <2> HIDE DEF paid
  <2> QED
    BY <1>5
<1> HIDE DEF paid
<1>8. 0 .. LastHash \subseteq T
  <2>1. 0 \in T
    BY <1>1, <1>7
  <2>2. ASSUME NEW n \in 1 .. LastHash, n - 1 \in T PROVE n \in T
    <3>1. n \in 0 .. LastHash /\ n # 0
      BY <1>1
    <3>2. paid[n] = PaidProject(r, paid[n - 1], n)
      BY <1>7, <3>1
    <3> QED
      BY <1>2, <2>2, <3>1, <3>2
  <2> HIDE DEF T
  <2> QED
    BY <1>1, <2>1, <2>2, NumberInduction
<1>9. paid[LastHash] \in B
  BY <1>1, <1>8
<1> QED
  BY <1>6, <1>9 DEF B

\* A project keeps its owner.
LEMMA OwnersKept ==
  ASSUME PaymentsTyped, NEW p \in DOMAIN Projects, NEW q,
         "owner" \in DOMAIN q, q.owner = Projects[p].owner,
         Projects' = [Projects EXCEPT ![p] = q]
  PROVE  \A k \in DOMAIN Projects' :
           "owner" \in DOMAIN Projects'[k] /\ Projects'[k].owner \in Accounts
BY DEF PaymentsTyped

LEMMA FundingCallPays ==
  ASSUME PaymentsTyped, BalancesTyped, NEW who \in Accounts, NEW c,
         CallTyped(c), FundingCall(who, c)
  PROVE  PaidBy(who)
<1>1. UNCHANGED daoVars
  BY DEF FundingCall
<1> USE AccountSets DEF daoVars
<1>2. CASE Funding!RegisterProject(who, c[2], c[3])
  <2> DEFINE k == <<c[2], c[3]>>
  <2>1. /\ Projects' = Funding!Put(Projects, k, Funding!NewProject(who))
        /\ UNCHANGED balances
    BY <1>2 DEF Funding!RegisterProject
  <2>2. /\ Funding!NewProject(who).owner = who
        /\ "owner" \in DOMAIN Funding!NewProject(who)
    BY DEF Funding!NewProject
  <2> HIDE DEF k
  <2>3. \A p \in DOMAIN Projects' :
          "owner" \in DOMAIN Projects'[p] /\ Projects'[p].owner \in Accounts
    BY <2>1, <2>2 DEF Funding!Put, PaymentsTyped
  <2> QED
    BY <1>1, <2>1, <2>3 DEF PaidBy, PaymentsTyped, BalancesTyped
<1>3. CASE c[1] = "donate" /\ Funding!Donate(who, c[2], c[3])
  <2>1. c[3] \in Nat
    BY <1>3, NumberIsNat DEF CallTyped
  <2>2. /\ balances' \in [Accounts -> Nat]
        /\ \A u \in Accounts : u # who => balances'[u] >= balances[u]
    BY <1>3, <2>1, FundingTransferKeeps DEF Funding!Donate, BalancesTyped
  <2> QED
    BY <1>1, <1>3, <2>2
    DEF Funding!Donate, PaidBy, PaymentsTyped, BalancesTyped
<1>4. CASE Funding!Vote(who, c[2], c[3], c[4])
  <2> DEFINE r == c[2]
             h == c[3]
             voted == Funding!Voted(who, r, h)
             cost == Funding!cal_cost(voted, c[4])
             amount == Funding!cal_amount(cost, FALSE)
             area == Funding!NewArea(c[4], Funding!Project(r, h).total_votes,
                                     voted)
             net == amount - Funding!cal_amount(cost, TRUE)
             p == <<r, h>>
             q == Funding!ProjectAfterVote(Projects[p], c[4], area, net)
  <2>1. /\ p \in DOMAIN Projects
        /\ Projects' = [Projects EXCEPT ![p] = q]
        /\ balances' = Funding!Transfer(balances, who, FundAccount, amount,
                                        Funding!KeepAlive)
        /\ amount \in Nat
    BY <1>4, NumberSets, NumberIsNat DEF Funding!Vote, Funding!VoteDefined
  <2>2. "owner" \in DOMAIN q /\ q.owner = Projects[p].owner
    BY <2>1 DEF Funding!ProjectAfterVote, PaymentsTyped
  <2> HIDE DEF amount, p, q
  <2>3. /\ balances' \in [Accounts -> Nat]
        /\ \A u \in Accounts : u # who => balances'[u] >= balances[u]
    BY <2>1, FundingTransferKeeps DEF BalancesTyped
  <2>4. \A k \in DOMAIN Projects' :
          "owner" \in DOMAIN Projects'[k] /\ Projects'[k].owner \in Accounts
    BY <2>1, <2>2, OwnersKept
  <2> QED
    BY <1>1, <2>3, <2>4 DEF PaidBy, PaymentsTyped, BalancesTyped
<1> QED
  BY <1>2, <1>3, <1>4 DEF FundingCall

-----------------------------------------------------------------------------
(* The calls of the root and the transfers between accounts.               *)

LEMMA SudoCallPays ==
  ASSUME PaymentsTyped, BalancesTyped, NEW who \in Accounts, NEW c,
         CallTyped(c), SudoCall(who, c), key \in Users
  PROVE  PaidFrom(MayPay(who, c)) /\ key' \in Users
<1>1. UNCHANGED daoVars
  BY DEF SudoCall
<1>2. CASE Funding!StartRound(c[2]) /\ UNCHANGED key
  BY <1>1, <1>2, AccountSets
  DEF Funding!StartRound, daoVars, PaidFrom, PaymentsTyped, BalancesTyped
<1>3. CASE Funding!EndRound(c[2]) /\ UNCHANGED key
  <2>1. /\ balances' \in [Accounts -> Nat]
        /\ \A u \in Users : balances'[u] >= balances[u]
    BY <1>3, EndRoundKeeps DEF Funding!EndRound
  <2> QED
    BY <1>1, <1>3, <2>1
    DEF Funding!EndRound, daoVars, PaidFrom, PaymentsTyped, BalancesTyped
<1>4. CASE /\ c[1] = "set_key"
           /\ key' = c[2]
           /\ UNCHANGED <<fundingVars, balances>>
  BY <1>1, <1>4, AccountSets
  DEF CallTyped, daoVars, fundingVars, PaidFrom, PaymentsTyped, BalancesTyped
<1>5. CASE ForceTransfer(c) /\ UNCHANGED <<fundingVars, key>>
  <2>1. /\ c[2][2] \in Accounts /\ c[3][2] \in Accounts /\ c[4] \in Nat
        /\ c[2][2] \in MayPay(who, c)
    BY <1>5, NumberIsNat
    DEF ForceTransfer, CallTyped, IsAddress, SudoCall, MayPay, Named
  <2>2. /\ balances' \in [Accounts -> Nat]
        /\ \A u \in Accounts : u # c[2][2] => balances'[u] >= balances[u]
    BY <1>5, <2>1, TransferKeeps DEF ForceTransfer, BalancesTyped
  <2> QED
    BY <1>1, <1>5, <2>1, <2>2, AccountSets
    DEF daoVars, fundingVars, PaidFrom, PaymentsTyped, BalancesTyped
<1>6. CASE SetBalance(c) /\ UNCHANGED <<fundingVars, key>>
  <2>1. /\ c[2][2] \in Accounts /\ c[3] \in Nat
        /\ c[2][2] \in MayPay(who, c)
    BY <1>6, NumberIsNat
    DEF SetBalance, CallTyped, IsAddress, SudoCall, MayPay, Named
  <2>2. /\ balances' \in [Accounts -> Nat]
        /\ \A u \in Accounts : u # c[2][2] => balances'[u] >= balances[u]
    BY <1>6, <2>1 DEF SetBalance, BalancesTyped
  <2> QED
    BY <1>1, <1>6, <2>1, <2>2, AccountSets
    DEF daoVars, fundingVars, PaidFrom, PaymentsTyped, BalancesTyped
<1> QED
  BY <1>2, <1>3, <1>4, <1>5, <1>6 DEF SudoCall

LEMMA TransferCallPays ==
  ASSUME PaymentsTyped, BalancesTyped, NEW who \in Accounts, NEW c,
         CallTyped(c), TransferCall(who, c)
  PROVE  PaidBy(who)
<1>1. c[2][2] \in Accounts /\ c[3] \in Nat
  BY NumberIsNat DEF TransferCall, CallTyped, IsAddress
<1>2. /\ balances' \in [Accounts -> Nat]
      /\ \A u \in Accounts : u # who => balances'[u] >= balances[u]
  BY <1>1, TransferKeeps DEF TransferCall, BalancesTyped
<1> QED
  BY <1>2, AccountSets
  DEF TransferCall, daoVars, fundingVars, PaidBy, PaymentsTyped, BalancesTyped

LEMMA SignedCallPays ==
  ASSUME PaymentsTyped, BalancesTyped, NEW who \in Accounts, NEW c,
         CallTyped(c), SignedCall(who, c), key \in Users
  PROVE  PaidFrom(MayPay(who, c)) /\ key' \in Users
<1>1. who \in MayPay(who, c)
  BY DEF MayPay
<1>2. PaidBy(who) => PaidFrom(MayPay(who, c))
  BY <1>1 DEF PaidBy, PaidFrom
<1> HIDE DEF MayPay
<1>3. CASE FundingCall(who, c)
  BY <1>2, <1>3, FundingCallPays DEF FundingCall
<1>4. CASE DAOCall(who, c)
  BY <1>2, <1>4, DAOCallPays DEF DAOCall
<1>5. CASE SudoCall(who, c)
  BY <1>5, SudoCallPays
<1>6. CASE TransferCall(who, c)
  BY <1>2, <1>6, TransferCallPays DEF TransferCall
<1> QED
  BY <1>3, <1>4, <1>5, <1>6 DEF SignedCall

\* What an extrinsic takes, also when the sudo key acts as another account.
LEMMA CallPays ==
  ASSUME PaymentsTyped, BalancesTyped, NEW x, x.signer \in Users,
         x.call \in Calls[x.signer], Call(x.signer, x.call), key \in Users
  PROVE  PaidFrom(Payers(x)) /\ key' \in Users
<1> DEFINE who == x.signer
           c   == x.call
<1>1. who \in Accounts /\ CallTyped(c)
  BY AccountSets, CallAssumption
<1>2. CASE SignedCall(who, c)
  <2>1. PaidFrom(MayPay(who, c)) /\ key' \in Users
    BY <1>1, <1>2, SignedCallPays
  <2>2. MayPay(who, c) \subseteq Payers(x)
    BY DEF Payers
  <2> QED
    BY <2>1, <2>2 DEF PaidFrom
<1>3. CASE SudoAsCall(who, c)
  <2> DEFINE target == c[2][2]
             d      == c[3]
  <2>1. /\ c[1] = "sudo_as" /\ who = key /\ Resolves(c[2])
        /\ SignedCall(target, d)
    BY <1>3 DEF SudoAsCall
  <2>2. target \in Accounts /\ CallTyped(d)
    BY <2>1, CallAssumption DEF IsAddress
  <2>3. PaidFrom(MayPay(target, d)) /\ key' \in Users
    BY <2>1, <2>2, SignedCallPays
  <2>4. MayPay(target, d) \subseteq Payers(x)
    BY <2>1 DEF Payers, Named
  <2> QED
    BY <2>3, <2>4 DEF PaidFrom
<1> QED
  BY <1>2, <1>3 DEF Call

-----------------------------------------------------------------------------
(* The extrinsics.                                                         *)

ExtrinsicType ==
  [signer : Users, call : UNION {Calls[u] : u \in Users}, nonce : Nat,
   asked : Nat, life : Nat, quote : Number]

\* Users sign calls of theirs, and what is charged is the fee or nothing.
ExtrinsicsTyped ==
  /\ signed \subseteq ExtrinsicType
  /\ \A x \in signed : x.call \in Calls[x.signer]
  /\ current # NoExtrinsic => current.fee \in {0, Fee}

\* With the nonces, which a panic takes back, this is inductive.
MoneyInv ==
  NonceInv /\ PaymentsTyped /\ BalancesTyped /\ key \in Users
    /\ ExtrinsicsTyped

\* Whose extrinsic a step belongs to.
Step == IF current = NoExtrinsic THEN current' ELSE current

\* A step takes money only from those who may pay for its extrinsic.
OwnMoneyStep ==
  \A u \in Users : balances'[u] < balances[u] =>
    Step # NoExtrinsic /\ u \in Payers(Step.extrinsic)

LEMMA SignerPays ==
  ASSUME NEW x
  PROVE  x.signer \in Payers(x)
BY DEF Payers, MayPay

LEMMA MoneyInit == Init => MoneyInv
<1> SUFFICES ASSUME Init PROVE MoneyInv
  OBVIOUS
<1>1. NonceInv
  BY NonceInit
<1>2. settings \in DAO!SettingsType
  BY NumberSets, NumberIsNat DEF Init, DAO!Unsummoned, DAO!SettingsType
<1>3. /\ AddressOfDelegates \in [DOMAIN AddressOfDelegates -> Accounts]
      /\ DOMAIN Projects = {}
  BY DEF Init, DAO!Unsummoned, DAO!EmptyMap, Funding!NoRounds,
         Funding!EmptyMap
<1>4. PaymentsTyped
  BY <1>2, <1>3 DEF Init, DAO!Unsummoned, PaymentsTyped
<1>5. BalancesTyped
  BY RuntimeAssumption DEF Init, BalancesTyped
<1> QED
  BY <1>1, <1>4, <1>5, RuntimeAssumption DEF Init, ExtrinsicsTyped, MoneyInv

\* A step that changes no balance takes nobody's money.
LEMMA NothingPaid ==
  ASSUME BalancesTyped, UNCHANGED balances
  PROVE  OwnMoneyStep
BY AccountSets DEF BalancesTyped, OwnMoneyStep

LEMMA MoneySign ==
  ASSUME MoneyInv, NEW who \in Users, NEW c \in Calls[who],
         NEW n \in nonce[who] .. nonce[who] + MaxAhead[who], Sign(who, c, n)
  PROVE  MoneyInv' /\ OwnMoneyStep
<1> DEFINE x == [signer |-> who, call |-> c, nonce |-> n, asked |-> nonce[who],
                 life |-> lives[who], quote |-> Quote(who, c)]
<1>1. /\ signed' = signed \cup {x}
      /\ UNCHANGED <<daoVars, fundingVars, balances, key, current>>
  BY DEF Sign
<1>2. Quote(who, c) \in Number
  BY NumberSets, NumberIsNat
  DEF Sign, Quote, Quoted, Funding!VoteCostAnswered
<1>3. x \in ExtrinsicType /\ x.signer = who /\ x.call = c
  BY <1>2 DEF ExtrinsicType, MoneyInv, NonceInv, CountsOK
<1> HIDE DEF x
<1>4. ExtrinsicsTyped'
  BY <1>1, <1>3 DEF ExtrinsicsTyped, MoneyInv
<1>5. NonceInv'
  BY NonceSign DEF MoneyInv
<1>6. PaymentsTyped' /\ BalancesTyped' /\ key' \in Users
  BY <1>1
  DEF daoVars, fundingVars, MoneyInv, PaymentsTyped, BalancesTyped
<1> QED
  BY <1>1, <1>4, <1>5, <1>6, NothingPaid DEF MoneyInv

\* A charge leaves an extrinsic to be applied, which is not NoExtrinsic.
LEMMA ChargeCurrent ==
  ASSUME MoneyInv, NEW x \in signed, Charge(x)
  PROVE  current' # NoExtrinsic /\ current'.extrinsic = x
<1>1. x \in ExtrinsicType
  BY DEF MoneyInv, ExtrinsicsTyped
<1>2. PICK fee \in {0, Fee} : current' = [fee |-> fee, extrinsic |-> x]
  BY DEF Charge, Fees
<1>3. [fee |-> fee, extrinsic |-> x] # NoExtrinsic
  BY <1>1, <1>2, ExtrinsicAssumption DEF ExtrinsicType
<1> QED
  BY <1>2, <1>3

\* The fee is there when it is charged.
LEMMA MoneyCharge ==
  ASSUME MoneyInv, NEW x \in signed, Charge(x)
  PROVE  MoneyInv' /\ OwnMoneyStep
<1>1. x \in ExtrinsicType /\ x.signer \in Users
  BY DEF MoneyInv, ExtrinsicsTyped, ExtrinsicType
<1>2. PICK fee \in {0, Fee} :
        /\ balances' = [balances EXCEPT ![x.signer] = @ - fee]
        /\ current' = [fee |-> fee, extrinsic |-> x]
  BY DEF Charge, Fees
<1>3. balances[x.signer] >= Fee + ExistentialDeposit
  BY DEF Charge, CanPayFee
<1>4. BalancesTyped'
  BY <1>1, <1>2, <1>3, AccountSets, RuntimeAssumption,
     ExistentialDepositAssumption
  DEF MoneyInv, BalancesTyped
<1>5. ExtrinsicsTyped'
  BY <1>2 DEF Charge, MoneyInv, ExtrinsicsTyped
<1>6. PaymentsTyped' /\ key' \in Users
  BY DEF Charge, daoVars, fundingVars, MoneyInv, PaymentsTyped
<1>7. NonceInv'
  BY NonceCharge DEF MoneyInv
<1>8. current' # NoExtrinsic /\ current'.extrinsic = x
  BY ChargeCurrent
<1>9. OwnMoneyStep
  BY <1>1, <1>2, <1>8, AccountSets, SignerPays
  DEF Charge, OwnMoneyStep, Step, MoneyInv, BalancesTyped
<1> QED
  BY <1>4, <1>5, <1>6, <1>7, <1>9 DEF MoneyInv

\* The extrinsic under way is one that was signed.
LEMMA CurrentTyped ==
  ASSUME MoneyInv, current # NoExtrinsic
  PROVE  /\ current.extrinsic \in signed
         /\ current.extrinsic.signer \in Users
         /\ current.extrinsic.call \in Calls[current.extrinsic.signer]
         /\ current.fee \in {0, Fee}
BY DEF MoneyInv, ExtrinsicsTyped, NonceInv, CountsOK, CurrentIsLast

LEMMA MoneyDispatch ==
  ASSUME MoneyInv, Dispatch
  PROVE  MoneyInv' /\ OwnMoneyStep
<1> DEFINE x == current.extrinsic
<1>1. /\ current # NoExtrinsic
      /\ Call(x.signer, x.call)
      /\ current' = NoExtrinsic
      /\ signed' = signed
  BY DEF Dispatch
<1>2. x.signer \in Users /\ x.call \in Calls[x.signer]
  BY <1>1, CurrentTyped
<1>3. Step.extrinsic = x /\ Step # NoExtrinsic
  BY <1>1 DEF Step
<1> HIDE DEF x
<1>4. PaidFrom(Payers(x)) /\ key' \in Users
  BY <1>1, <1>2, CallPays DEF MoneyInv
<1>5. ExtrinsicsTyped'
  BY <1>1 DEF MoneyInv, ExtrinsicsTyped
<1>6. NonceInv'
  BY NonceDispatch DEF MoneyInv
<1>7. OwnMoneyStep
  <2> SUFFICES ASSUME NEW u \in Users, balances'[u] < balances[u]
               PROVE  u \in Payers(x)
    BY <1>3 DEF OwnMoneyStep
  <2>1. balances[u] \in Nat /\ balances'[u] \in Nat
    BY <1>4, AccountSets DEF PaidFrom, MoneyInv, BalancesTyped
  <2> QED
    BY <1>4, <2>1 DEF PaidFrom
<1> QED
  BY <1>4, <1>5, <1>6, <1>7 DEF MoneyInv, PaidFrom

\* A panic gives the fee back.
LEMMA MoneyPanic ==
  ASSUME MoneyInv, Panic
  PROVE  MoneyInv' /\ OwnMoneyStep
<1> DEFINE u == current.extrinsic.signer
<1>1. u \in Users /\ current.fee \in Nat
  BY CurrentTyped, RuntimeAssumption DEF Panic, Fails
<1>2. /\ balances' = [balances EXCEPT ![u] = @ + current.fee]
      /\ current' = NoExtrinsic
      /\ UNCHANGED <<daoVars, fundingVars, key, signed>>
  BY DEF Panic, Fails
<1> HIDE DEF u
<1>3. BalancesTyped' /\ \A v \in Users : balances'[v] >= balances[v]
  BY <1>1, <1>2, AccountSets DEF MoneyInv, BalancesTyped
<1>4. OwnMoneyStep
  BY <1>3, AccountSets DEF OwnMoneyStep, MoneyInv, BalancesTyped
<1>5. PaymentsTyped' /\ key' \in Users /\ ExtrinsicsTyped'
  BY <1>2
  DEF daoVars, fundingVars, MoneyInv, PaymentsTyped, ExtrinsicsTyped
<1>6. NonceInv'
  BY NoncePanic DEF MoneyInv
<1> QED
  BY <1>3, <1>4, <1>5, <1>6 DEF MoneyInv

LEMMA MoneyStep ==
  ASSUME MoneyInv, [Next]_vars
  PROVE  MoneyInv' /\ OwnMoneyStep
<1>1. NonceInv'
  BY NonceStep DEF MoneyInv
<1>2. CASE UNCHANGED vars
  BY <1>1, <1>2, NothingPaid
  DEF vars, daoVars, fundingVars, MoneyInv, PaymentsTyped, BalancesTyped,
      ExtrinsicsTyped
<1>3. CASE Refuse
  BY <1>1, <1>3, NothingPaid
  DEF Refuse, Fails, daoVars, fundingVars, MoneyInv, PaymentsTyped,
      BalancesTyped, ExtrinsicsTyped
<1>4. CASE NewBlock
  <2>1. now' \in Nat
    BY <1>4, RuntimeAssumption DEF NewBlock, DAO!Tick, MoneyInv, PaymentsTyped
  <2> QED
    BY <1>1, <1>4, <2>1, NothingPaid
    DEF NewBlock, DAO!Tick, DAO!shares, DAO!membership, DAO!queue,
        fundingVars, MoneyInv, PaymentsTyped, BalancesTyped, ExtrinsicsTyped
<1> QED
  BY <1>2, <1>3, <1>4, MoneySign, MoneyCharge, MoneyDispatch, MoneyPanic
  DEF Next

\* No balance and no nonce is ever negative, on accounts that both pallets,
\* the fees and plain transfers share, whatever is signed, refused and undone
\* (runtime/src/lib.rs:353-406).
THEOREM TypeCorrect == Spec => []TypeOK
<1>1. Init => MoneyInv
  BY MoneyInit
<1>2. MoneyInv /\ [Next]_vars => MoneyInv'
  BY MoneyStep
<1>3. MoneyInv => TypeOK
  BY DEF MoneyInv, BalancesTyped, ExtrinsicsTyped, NonceInv, CountsOK,
         CurrentIsLast, TypeOK
<1> QED
  BY <1>1, <1>2, <1>3, PTL DEF Spec

\* Nobody's balance falls but by an extrinsic that one has signed oneself or
\* by one in which the sudo key names the account: of all the transfers the
\* calls make, those that do not take from the account that calls take from
\* the accounts of the pallets, which are nobody's, or, as force_transfer and
\* set_balance do, from the one that the key names; and sudo_as takes from
\* the account it acts for (moloch-v1 lib.rs:265, 294, 439-460, 497, 527;
\* quadratic-funding lib.rs:183, 234, 285; runtime/src/lib.rs:260, 365-367).
THEOREM NobodyElsePays == Spec => OwnMoneyOnly
<1>1. Init => MoneyInv
  BY MoneyInit
<1>2. MoneyInv /\ [Next]_vars => MoneyInv'
  BY MoneyStep
<1>3. MoneyInv /\ [Next]_vars
        => [\A u \in Users :
              balances'[u] < balances[u] =>
                LET step == IF current = NoExtrinsic THEN current' ELSE current
                IN  step # NoExtrinsic /\ u \in Payers(step.extrinsic)]_vars
  BY MoneyStep DEF OwnMoneyStep, Step
<1> QED
  BY <1>1, <1>2, <1>3, PTL DEF Spec, OwnMoneyOnly

=============================================================================
