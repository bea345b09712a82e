------------------------------ MODULE ForkProofs ------------------------------
(***************************************************************************)
(* What the price of a vote is worth on a chain that may be left for       *)
(* another one.  Of every account two numbers tell how far it got: the     *)
(* life it is in and the nonce it has reached.  Whatever chain is the best *)
(* one, it extends the finalized block, so that an account is never behind *)
(* what it was there; and while it stands still its own votes, the only    *)
(* part of the state that the price depends on, stay as they are, unless   *)
(* the sudo key votes for it.                                              *)
(***************************************************************************)
EXTENDS ForkProperties, RuntimeProofs

-----------------------------------------------------------------------------
(* The state of the finalized block.                                       *)

\* What MoneyInv says of the state of a block.
MoneyAt(c) ==
  /\ c.nonce \in [Users -> Nat]
  /\ c.lives \in [Users -> Nat]
  /\ \A t \in c.used :
       \E u \in Users, l, n \in Nat :
         /\ t = <<u, l, n>>
         /\ l <= c.lives[u]
         /\ l = c.lives[u] => n < c.nonce[u]
  /\ c.now \in Nat
  /\ c.SummonTime \in Nat
  /\ c.settings \in DAO!SettingsType
  /\ c.TotalShares \in Nat
  /\ c.AddressOfDelegates \in [DOMAIN c.AddressOfDelegates -> Accounts]
  /\ c.ProposalQueue \in Seq(ProposalType)
  /\ \A p \in DOMAIN c.Projects :
       "owner" \in DOMAIN c.Projects[p] /\ c.Projects[p].owner \in Accounts
  /\ c.balances \in [Accounts -> Nat]
  /\ c.key \in Users

LEMMA ChainFields ==
  /\ Chain.now = now /\ Chain.SummonTime = SummonTime
  /\ Chain.settings = settings /\ Chain.TotalShares = TotalShares
  /\ Chain.AddressOfDelegates = AddressOfDelegates
  /\ Chain.ProposalQueue = ProposalQueue
  /\ Chain.Projects = Projects /\ Chain.ProjectVotes = ProjectVotes
  /\ Chain.balances = balances /\ Chain.nonce = nonce
  /\ Chain.lives = lives /\ Chain.key = key /\ Chain.used = used
BY DEF Chain

LEMMA MoneyOfChain == MoneyInv => MoneyAt(Chain)
<1> SUFFICES ASSUME MoneyInv PROVE MoneyAt(Chain)
  OBVIOUS
<1>1. /\ nonce \in [Users -> Nat] /\ lives \in [Users -> Nat]
      /\ UsedIsPast /\ PaymentsTyped /\ BalancesTyped /\ key \in Users
  BY DEF MoneyInv, NonceInv, CountsOK
<1> QED
  BY <1>1, ChainFields
  DEF MoneyAt, UsedIsPast, PaymentsTyped, BalancesTyped

\* What a block has, it has as the finalized block.
LEMMA MoneyOfFinal ==
  ASSUME NEW c, MoneyAt(c), final' = c
  PROVE  MoneyAt(final)'
<1>1. /\ final'.nonce \in [Users -> Nat] /\ final'.lives \in [Users -> Nat]
      /\ final'.balances \in [Accounts -> Nat] /\ final'.key \in Users
  BY DEF MoneyAt
<1>2. \A t \in final'.used :
        \E u \in Users, l, n \in Nat :
          /\ t = <<u, l, n>>
          /\ l <= final'.lives[u]
          /\ l = final'.lives[u] => n < final'.nonce[u]
  BY DEF MoneyAt
<1>3. /\ final'.now \in Nat /\ final'.SummonTime \in Nat
      /\ final'.settings \in DAO!SettingsType /\ final'.TotalShares \in Nat
  BY DEF MoneyAt
<1>4. /\ final'.AddressOfDelegates
           \in [DOMAIN final'.AddressOfDelegates -> Accounts]
      /\ final'.ProposalQueue \in Seq(ProposalType)
  BY DEF MoneyAt
<1>5. \A p \in DOMAIN final'.Projects :
        /\ "owner" \in DOMAIN final'.Projects[p]
        /\ final'.Projects[p].owner \in Accounts
  BY DEF MoneyAt
<1> QED
  BY ONLY <1>1, <1>2, <1>3, <1>4, <1>5 DEF MoneyAt

\* Back at the finalized block the extrinsics are still signed.
LEMMA MoneyAfterRetract ==
  ASSUME MoneyInv, MoneyAt(final), Retract
  PROVE  MoneyInv'
<1>1. /\ signed' = signed /\ current' = NoExtrinsic
      /\ current = NoExtrinsic
  BY DEF Retract
<1>2. CountsOK'
  BY <1>1 DEF Retract, MoneyAt, MoneyInv, NonceInv, CountsOK
<1>3. UsedIsPast'
  BY DEF Retract, MoneyAt, UsedIsPast
<1>4. CurrentIsLast'
  BY <1>1 DEF CurrentIsLast
<1>5. PaymentsTyped'
  BY DEF Retract, MoneyAt, PaymentsTyped
<1>6. BalancesTyped' /\ key' \in Users
  BY DEF Retract, MoneyAt, BalancesTyped
<1>7. ExtrinsicsTyped'
  BY <1>1 DEF MoneyInv, ExtrinsicsTyped
<1> QED
  BY <1>2, <1>3, <1>4, <1>5, <1>6, <1>7 DEF MoneyInv, NonceInv

-----------------------------------------------------------------------------
(* How far an account got.                                                 *)

\* The nonce of the account, but while an extrinsic of it is being applied
\* the nonce it had before.
Done(u) ==
  nonce[u] - (IF current # NoExtrinsic /\ current.extrinsic.signer = u
              THEN 1 ELSE 0)

\* The nonce n of the life l comes not before the nonce k of the life m.
NotBefore(l, n, m, k) == l > m \/ (l = m /\ n >= k)

Advanced(u) ==
  \/ lives'[u] > lives[u]
  \/ lives'[u] = lives[u] /\ Done(u)' > Done(u)

VotesKept(u) ==
  \A k : Get(ProjectVotes', <<k, u>>, 0) = Get(ProjectVotes, <<k, u>>, 0)

Stood(u) ==
  /\ lives'[u] = lives[u] /\ Done(u)' = Done(u)
  /\ VotesAreOwn(u) => VotesKept(u)

LEMMA DoneType ==
  ASSUME MoneyInv, NEW u \in Users
  PROVE  lives[u] \in Nat /\ nonce[u] \in Nat /\ Done(u) \in Int
BY DEF MoneyInv, NonceInv, CountsOK, Done

LEMMA DoneTypeNext ==
  ASSUME MoneyInv', NEW u \in Users
  PROVE  lives'[u] \in Nat /\ nonce'[u] \in Nat /\ Done(u)' \in Int
BY DEF MoneyInv, NonceInv, CountsOK, Done

\* A vote is stored for the account that bought it.
LEMMA SignedCallKeepsVotes ==
  ASSUME NEW who, NEW c, SignedCall(who, c), NEW u
  PROVE  VotesKept(u) \/ (who = u /\ c[1] = "vote")
<1>1. CASE UNCHANGED ProjectVotes
  BY <1>1 DEF VotesKept
<1>2. CASE FundingCall(who, c)
  <2>1. CASE Funding!RegisterProject(who, c[2], c[3])
    BY <1>1, <2>1 DEF Funding!RegisterProject
  <2>2. CASE Funding!Donate(who, c[2], c[3])
    BY <1>1, <2>2 DEF Funding!Donate
  <2>3. CASE c[1] = "vote" /\ Funding!Vote(who, c[2], c[3], c[4])
    <3>1. PICK k, v : ProjectVotes' = Funding!Put(ProjectVotes, <<k, who>>, v)
      BY <2>3 DEF Funding!Vote
    <3> QED
      BY <2>3, <3>1 DEF Funding!Put, Get, VotesKept
  <2> QED
    BY <1>2, <2>1, <2>2, <2>3 DEF FundingCall
<1>3. CASE DAOCall(who, c)
  BY <1>1, <1>3 DEF DAOCall, fundingVars
<1>4. CASE SudoCall(who, c)
  BY <1>1, <1>4 DEF SudoCall, Funding!StartRound, Funding!EndRound, fundingVars
<1>5. CASE TransferCall(who, c)
  BY <1>1, <1>5 DEF TransferCall, fundingVars
<1> QED
  BY <1>2, <1>3, <1>4, <1>5 DEF SignedCall

\* The votes of an account change by an extrinsic of its own or by one in
\* which the sudo key votes for it.
LEMMA CallKeepsVotes ==
  ASSUME NEW x \in signed, Call(x.signer, x.call),
         NEW u, VotesAreOwn(u), u # x.signer
  PROVE  VotesKept(u)
<1> DEFINE c == x.call
<1>1. CASE SignedCall(x.signer, c)
  BY <1>1, SignedCallKeepsVotes
<1>2. CASE SudoAsCall(x.signer, c)
  <2>1. c[1] = "sudo_as" /\ Resolves(c[2]) /\ SignedCall(c[2][2], c[3])
    BY <1>2 DEF SudoAsCall
  <2>2. VotesKept(u) \/ (c[2][2] = u /\ c[3][1] = "vote")
    BY <2>1, SignedCallKeepsVotes
  <2> QED
    BY <2>1, <2>2 DEF VotesAreOwn
<1> QED
  BY <1>1, <1>2 DEF Call

\* A call leaves life and nonce of an account alone or ends its life.
LEMMA CallKeepsNonce ==
  ASSUME MoneyInv, NEW who, NEW c, Call(who, c), NEW u \in Users
  PROVE  \/ lives'[u] = lives[u] /\ nonce'[u] = nonce[u]
         \/ lives'[u] > lives[u]
<1>1. lives[u] \in Nat
  BY DoneType
<1>2. CASE UNCHANGED accountVars
  BY <1>2 DEF accountVars
<1>3. CASE Reaping
  BY <1>1, <1>3 DEF Reaping
<1> QED
  BY <1>2, <1>3, CallNonces

\* A step leaves an account where it is, with the votes it has if nobody
\* signed votes for it, or takes it further; only an extrinsic of the account
\* that was applied and not undone does, or the end of its life.
LEMMA PositionStep ==
  ASSUME MoneyInv, MoneyInv', [Next]_vars, NEW u \in Users
  PROVE  Stood(u) \/ Advanced(u)
<1>1. /\ lives[u] \in Nat /\ nonce[u] \in Nat
      /\ lives'[u] \in Nat /\ nonce'[u] \in Nat
  BY DoneType, DoneTypeNext
<1>2. ASSUME UNCHANGED <<fundingVars, accountVars, current>> PROVE Stood(u)
  BY <1>2 DEF fundingVars, accountVars, Stood, VotesKept, Done
<1>3. CASE UNCHANGED vars
  BY <1>2, <1>3 DEF vars
<1>4. ASSUME NEW who \in Users, NEW c \in Calls[who], NEW n, Sign(who, c, n)
      PROVE  Stood(u)
  BY <1>2, <1>4 DEF Sign
<1>5. CASE NewBlock
  BY <1>2, <1>5 DEF NewBlock
<1>6. ASSUME NEW x \in signed, Charge(x) PROVE Stood(u)
  <2>1. /\ x.signer \in Users /\ nonce \in [Users -> Nat]
        /\ nonce' = [nonce EXCEPT ![x.signer] = @ + 1]
        /\ UNCHANGED <<lives, ProjectVotes>> /\ current = NoExtrinsic
    BY <1>6 DEF Charge, NextNonce, fundingVars, MoneyInv, NonceInv, CountsOK
  <2>2. current' # NoExtrinsic /\ current'.extrinsic = x
    BY <1>6, ChargeCurrent
  <2> QED
    BY <1>1, <2>1, <2>2 DEF Stood, Done, VotesKept
<1>7. CASE Dispatch
  <2> DEFINE who == current.extrinsic.signer
             c == current.extrinsic.call
  <2>1. current # NoExtrinsic /\ current' = NoExtrinsic /\ Call(who, c)
    BY <1>7 DEF Dispatch
  <2>2. \/ lives'[u] = lives[u] /\ nonce'[u] = nonce[u]
        \/ lives'[u] > lives[u]
    BY <2>1, CallKeepsNonce
  <2>3. u # who /\ VotesAreOwn(u) => VotesKept(u)
    <3>1. current.extrinsic \in signed
      BY <2>1, CurrentTyped
    <3> QED
      BY <2>1, <3>1, CallKeepsVotes
  <2> QED
    BY <1>1, <2>1, <2>2, <2>3 DEF Stood, Advanced, Done
<1>8. CASE Refuse
  BY <1>1, <1>8
  DEF Refuse, Fails, fundingVars, accountVars, Stood, Advanced, Done, VotesKept
<1>9. CASE Panic
  <2> DEFINE who == current.extrinsic.signer
  <2>1. /\ current # NoExtrinsic /\ current' = NoExtrinsic
        /\ nonce' = [nonce EXCEPT ![who] = @ - 1]
        /\ UNCHANGED <<lives, ProjectVotes>>
        /\ nonce \in [Users -> Nat]
    BY <1>9 DEF Panic, Fails, fundingVars, MoneyInv, NonceInv, CountsOK
  <2> QED
    BY <1>1, <2>1 DEF Stood, Done, VotesKept
<1> QED
  BY <1>3, <1>4, <1>5, <1>6, <1>7, <1>8, <1>9 DEF Next

-----------------------------------------------------------------------------
(* The quotes.                                                             *)

\* What the vote x costs, in points, when votes are what was bought so far.
Price(votes, x) ==
  Funding!cal_cost(
    Get(votes, <<<<x.call[2], x.call[3]>>, x.signer>>, 0), x.call[4])

IsVote(x) == x.call[1] = "vote"

\* The best chain extends the finalized block.
FinalFirst ==
  \A u \in Users : NotBefore(lives[u], Done(u), final.lives[u], final.nonce[u])

\* The block where the price of x was asked for is part of every chain.
AskedFirst(x) ==
  NotBefore(final.lives[x.signer], final.nonce[x.signer], x.life, x.asked)

\* As long as the signer got no further than when it asked, at the finalized
\* block or on the best chain, and the sudo key did not sign votes for it, the
\* price there is the one it was told.
PriceStands(x) ==
  /\ final.lives[x.signer] = x.life /\ final.nonce[x.signer] = x.asked =>
       Price(final.ProjectVotes, x) = x.quote
  /\ lives[x.signer] = x.life /\ Done(x.signer) = x.asked =>
       Price(ProjectVotes, x) = x.quote

QuoteStands(x) == VotesAreOwn(x.signer) => PriceStands(x)

QuotesHold == \A x \in firm : IsVote(x) => AskedFirst(x) /\ QuoteStands(x)

ForkInv ==
  /\ MoneyInv /\ MoneyAt(final)
  /\ firm \subseteq signed
  /\ FinalFirst /\ QuotesHold

\* The price that Sign notes is the one the storage gives.
LEMMA QuoteIsPrice ==
  ASSUME NEW x, IsVote(x)
  PROVE  Quote(x.signer, x.call) = Price(ProjectVotes, x)
BY DEF IsVote, Quote, Price, Funding!vote_cost, Funding!Voted,
       Funding!VoteHash, Funding!Get, Get

\* The price of a vote depends on the votes of its signer only.
LEMMA PriceKept ==
  ASSUME NEW x, VotesKept(x.signer)
  PROVE  Price(ProjectVotes', x) = Price(ProjectVotes, x)
BY DEF VotesKept, Price

LEMMA FirmType ==
  ASSUME MoneyInv, NEW x \in signed
  PROVE  x.signer \in Users /\ x.life \in Nat /\ x.asked \in Nat
BY DEF MoneyInv, ExtrinsicsTyped, ExtrinsicType

LEMMA ForkInitInv == ForkInit => ForkInv
<1> SUFFICES ASSUME ForkInit PROVE ForkInv
  OBVIOUS
<1>1. /\ MoneyInv /\ final = Chain /\ firm = {} /\ current = NoExtrinsic
  BY MoneyInit DEF ForkInit, Init
<1>2. MoneyAt(final)
  BY <1>1, MoneyOfChain
<1>3. FinalFirst
  BY <1>1, ChainFields, DoneType DEF FinalFirst, NotBefore, Done
<1> QED
  BY <1>1, <1>2, <1>3 DEF ForkInv, QuotesHold

\* A step on the best chain, which does not know of the finalized block.
LEMMA ForkInvRuntime ==
  ASSUME ForkInv, [Next]_vars, final' = final,
         firm' \subseteq firm \cup (IF Chain = final THEN signed' \ signed
                                                     ELSE {})
  PROVE  ForkInv'
<1>1. MoneyInv /\ MoneyInv' /\ MoneyAt(final)
  BY MoneyStep DEF ForkInv
<1>2. MoneyAt(final)'
  BY <1>1, MoneyOfFinal
<1>3. /\ signed \subseteq signed'
      /\ \/ signed' = signed
         \/ \E who \in Users : \E c, n : Sign(who, c, n)
  BY DEF Next, vars, Sign, Charge, Dispatch, Refuse, Panic, NewBlock
<1>4. firm' \subseteq signed'
  BY <1>3 DEF ForkInv
<1>5. \A u \in Users :
        /\ lives[u] \in Nat /\ Done(u) \in Int
        /\ lives'[u] \in Nat /\ Done(u)' \in Int
        /\ final.lives[u] \in Nat /\ final.nonce[u] \in Nat
        /\ Stood(u) \/ Advanced(u)
  BY <1>1, DoneType, DoneTypeNext, PositionStep DEF MoneyAt
<1>6. FinalFirst'
  <2> SUFFICES ASSUME NEW u \in Users
               PROVE  NotBefore(lives'[u], Done(u)', final.lives[u],
                                final.nonce[u])
    BY DEF FinalFirst, NotBefore, Done
  <2>1. NotBefore(lives[u], Done(u), final.lives[u], final.nonce[u])
    BY DEF ForkInv, FinalFirst
  <2> QED
    BY <1>5, <2>1 DEF NotBefore, Stood, Advanced
<1>7. ASSUME NEW x \in firm, IsVote(x)
      PROVE  AskedFirst(x)' /\ QuoteStands(x)'
  <2> DEFINE u == x.signer
  <2>1. u \in Users /\ x.life \in Nat /\ x.asked \in Nat
    BY <1>1, FirmType DEF ForkInv
  <2>2. AskedFirst(x) /\ QuoteStands(x)
    BY <1>7 DEF ForkInv, QuotesHold
  <2>3. AskedFirst(x)'
    BY <2>2 DEF AskedFirst, NotBefore
  <2> SUFFICES ASSUME VotesAreOwn(u)' PROVE PriceStands(x)'
    BY <2>3 DEF QuoteStands
  <2> VotesAreOwn(u)
    BY <1>3 DEF VotesAreOwn
  <2>4. CASE Stood(u)
    <3>1. Price(ProjectVotes', x) = Price(ProjectVotes, x)
      BY <2>4, PriceKept DEF Stood
    <3>2. lives'[u] = lives[u] /\ Done(u)' = Done(u)
      BY <2>4 DEF Stood
    <3>3. lives'[u] = x.life /\ Done(u)' = x.asked =>
            Price(ProjectVotes', x) = x.quote
      BY <2>2, <3>1, <3>2 DEF QuoteStands, PriceStands
    <3>4. final'.lives[u] = x.life /\ final'.nonce[u] = x.asked =>
            Price(final'.ProjectVotes, x) = x.quote
      BY <2>2 DEF QuoteStands, PriceStands
    <3> QED
      BY <3>3, <3>4 DEF PriceStands, Price
  <2>5. CASE Advanced(u)
    <3>1. NotBefore(lives[u], Done(u), final.lives[u], final.nonce[u])
      BY <2>1 DEF ForkInv, FinalFirst
    <3>2. NotBefore(final.lives[u], final.nonce[u], x.life, x.asked)
      BY <2>2 DEF AskedFirst
    <3>3. ~(lives'[u] = x.life /\ Done(u)' = x.asked)
      BY <1>5, <2>1, <2>5, <3>1, <3>2 DEF NotBefore, Advanced
    <3>4. final'.lives[u] = x.life /\ final'.nonce[u] = x.asked =>
            Price(final'.ProjectVotes, x) = x.quote
      BY <2>2 DEF QuoteStands, PriceStands
    <3> QED
      BY <3>3, <3>4 DEF PriceStands, Price
  <2> QED
    BY <1>5, <2>1, <2>4, <2>5
<1>8. ASSUME NEW x \in firm' \ firm, IsVote(x)
      PROVE  AskedFirst(x)' /\ QuoteStands(x)'
  <2>1. Chain = final /\ x \in signed' \ signed
    BY <1>8
  <2>2. PICK who \in Users : \E c, n : Sign(who, c, n)
    BY <1>3, <2>1
  <2> PICK c, n : Sign(who, c, n)
    BY <2>2
  <2>3. /\ x = [signer |-> who, call |-> c, nonce |-> n, asked |-> nonce[who],
                life |-> lives[who], quote |-> Quote(who, c)]
        /\ UNCHANGED <<nonce, lives, current, ProjectVotes>>
        /\ current = NoExtrinsic
    BY <2>1, <2>2 DEF Sign, accountVars, fundingVars
  <2>4. /\ x.signer = who /\ x.call = c /\ x.asked = nonce[who]
        /\ x.life = lives[who] /\ x.quote = Quote(who, c)
    BY <2>3
  <2>5. x.quote = Price(ProjectVotes, x)
    BY <1>8, <2>4, QuoteIsPrice
  <2>6. /\ final'.lives = lives /\ final'.nonce = nonce
        /\ final'.ProjectVotes = ProjectVotes
    BY <2>1, ChainFields
  <2>7. lives[who] \in Nat /\ nonce[who] \in Nat
    BY <1>1, DoneType
  <2>8. AskedFirst(x)'
    BY <2>4, <2>6, <2>7 DEF AskedFirst, NotBefore
  <2>9. QuoteStands(x)'
    BY <2>3, <2>5, <2>6 DEF QuoteStands, PriceStands, Price
  <2> QED
    BY <2>8, <2>9
<1>9. QuotesHold'
  BY <1>7, <1>8 DEF QuotesHold, IsVote
<1> QED
  BY <1>1, <1>2, <1>4, <1>6, <1>9 DEF ForkInv

\* What was known of the best chain is now known of the finalized block.
LEMMA ForkInvFinalize ==
  ASSUME ForkInv, Finalize
  PROVE  ForkInv'
<1>1. /\ UNCHANGED <<nonce, lives, current, ProjectVotes, signed, firm>>
      /\ current = NoExtrinsic /\ final' = Chain
  BY DEF Finalize, vars, accountVars, fundingVars
<1>2. MoneyInv'
  BY MoneyStep DEF ForkInv, Finalize
<1>3. MoneyAt(final)'
  <2>1. MoneyAt(Chain)
    BY MoneyOfChain DEF ForkInv
  <2> QED
    BY <1>1, <2>1, MoneyOfFinal
<1>4. /\ final'.lives = lives /\ final'.nonce = nonce
      /\ final'.ProjectVotes = ProjectVotes
  BY <1>1, ChainFields
<1>5. \A u \in Users :
        /\ lives[u] \in Nat /\ nonce[u] \in Nat
        /\ Done(u) = nonce[u] /\ Done(u)' = nonce[u]
        /\ final.lives[u] \in Nat /\ final.nonce[u] \in Nat
  BY <1>1, DoneType DEF ForkInv, MoneyAt, Done
<1>6. FinalFirst'
  <2> SUFFICES ASSUME NEW u \in Users
               PROVE  NotBefore(lives'[u], Done(u)', final'.lives[u],
                                final'.nonce[u])
    BY DEF FinalFirst, NotBefore, Done
  <2> QED
    BY <1>1, <1>4, <1>5 DEF NotBefore
<1>7. ASSUME NEW x \in firm, IsVote(x)
      PROVE  AskedFirst(x)' /\ QuoteStands(x)'
  <2> DEFINE u == x.signer
  <2>1. u \in Users /\ x.life \in Nat /\ x.asked \in Nat
    BY FirmType DEF ForkInv
  <2>2. AskedFirst(x) /\ QuoteStands(x)
    BY <1>7 DEF ForkInv, QuotesHold
  <2>3. NotBefore(lives[u], Done(u), final.lives[u], final.nonce[u])
    BY <2>1 DEF ForkInv, FinalFirst
  <2>4. AskedFirst(x)'
    BY <1>4, <1>5, <2>1, <2>2, <2>3 DEF AskedFirst, NotBefore
  <2>5. QuoteStands(x)'
    BY <1>1, <1>4, <1>5, <2>1, <2>2
    DEF QuoteStands, PriceStands, Price, VotesAreOwn
  <2> QED
    BY <2>4, <2>5
<1>8. QuotesHold'
  BY <1>1, <1>7 DEF QuotesHold, IsVote
<1> QED
  BY <1>1, <1>2, <1>3, <1>6, <1>8 DEF ForkInv

\* What is known of the finalized block is known of the chain that starts
\* there.
LEMMA ForkInvRetract ==
  ASSUME ForkInv, Retract
  PROVE  ForkInv'
<1>1. /\ UNCHANGED <<current, signed, firm, final>>
      /\ current = NoExtrinsic
      /\ nonce' = final.nonce /\ lives' = final.lives
      /\ ProjectVotes' = final.ProjectVotes
  BY DEF Retract
<1>2. MoneyInv'
  BY MoneyAfterRetract DEF ForkInv
<1>3. MoneyAt(final)'
  BY <1>1, MoneyOfFinal DEF ForkInv
<1>4. \A u \in Users :
        /\ final.lives[u] \in Nat /\ final.nonce[u] \in Nat
        /\ Done(u)' = final.nonce[u]
  BY <1>1 DEF ForkInv, MoneyAt, Done
<1>5. FinalFirst'
  <2> SUFFICES ASSUME NEW u \in Users
               PROVE  NotBefore(lives'[u], Done(u)', final'.lives[u],
                                final'.nonce[u])
    BY DEF FinalFirst, NotBefore, Done
  <2> QED
    BY <1>1, <1>4 DEF NotBefore
<1>6. ASSUME NEW x \in firm, IsVote(x)
      PROVE  AskedFirst(x)' /\ QuoteStands(x)'
  <2>1. x.signer \in Users
    BY FirmType DEF ForkInv
  <2>2. AskedFirst(x) /\ QuoteStands(x)
    BY <1>6 DEF ForkInv, QuotesHold
  <2>3. AskedFirst(x)'
    BY <1>1, <2>2 DEF AskedFirst, NotBefore
  <2>4. QuoteStands(x)'
    BY <1>1, <1>4, <2>1, <2>2
    DEF QuoteStands, PriceStands, Price, VotesAreOwn
  <2> QED
    BY <2>3, <2>4
<1>7. QuotesHold'
  BY <1>1, <1>6 DEF QuotesHold, IsVote
<1> QED
  BY <1>1, <1>2, <1>3, <1>5, <1>7 DEF ForkInv

LEMMA ForkInvStep ==
  ForkInv /\ [ForkNext]_<<vars, final, firm, forks>> => ForkInv'
<1> SUFFICES ASSUME ForkInv, [ForkNext]_<<vars, final, firm, forks>>
             PROVE  ForkInv'
  OBVIOUS
<1>1. CASE RuntimeStep
  BY <1>1, ForkInvRuntime DEF RuntimeStep
<1>2. CASE UNCHANGED <<vars, final, firm, forks>>
  BY <1>2, ForkInvRuntime
<1> QED
  BY <1>1, <1>2, ForkInvFinalize, ForkInvRetract DEF ForkNext

-----------------------------------------------------------------------------
(* The charge.                                                             *)

\* A transfer of who to the fund account takes its value or nothing.
LEMMA FundTransferTakes ==
  ASSUME NEW b \in [Accounts -> Nat], NEW who \in Users, NEW value \in Nat
  PROVE  b[who] - Funding!Transfer(b, who, FundAccount, value,
                                   Funding!KeepAlive)[who] \in {0, value}
<1>1. /\ who \in Accounts /\ FundAccount \in Accounts /\ who # FundAccount
      /\ b[who] \in Nat
  BY AccountSets
<1> DEFINE t == Funding!Transfer(b, who, FundAccount, value, Funding!KeepAlive)
<1>2. CASE /\ value > 0
           /\ Funding!CanTransfer(b, who, FundAccount, value,
                                  Funding!KeepAlive)
  <2>1. b[who] - value >= ExistentialDeposit
    BY <1>2 DEF Funding!CanTransfer
  <2>2. Funding!Remainder(b[who], value) = b[who] - value
    BY <1>1, <2>1, ExistentialDepositAssumption DEF Funding!Remainder
  <2>3. t[who] = b[who] - value
    BY <1>1, <1>2, <2>2 DEF Funding!Transfer
  <2> HIDE DEF t
  <2>4. b[who] - t[who] = value
    BY <1>1, <2>3
  <2> QED
    BY <2>4 DEF t
<1>3. CASE ~(/\ value > 0
             /\ Funding!CanTransfer(b, who, FundAccount, value,
                                    Funding!KeepAlive))
  <2>1. t = b
    BY <1>3 DEF Funding!Transfer
  <2> HIDE DEF t
  <2>2. b[who] - t[who] = 0
    BY <1>1, <2>1
  <2> QED
    BY <2>2 DEF t
<1> QED
  BY <1>2, <1>3

\* The step in which a vote is counted while an extrinsic is being applied.
LEMMA VoteIsDispatched ==
  ASSUME ForkInv, ForkNext, current # NoExtrinsic,
         IsVote(current.extrinsic), ProjectVotes' # ProjectVotes
  PROVE  LET x == current.extrinsic IN
         Funding!Vote(x.signer, x.call[2], x.call[3], x.call[4])
<1> DEFINE who == current.extrinsic.signer
           c == current.extrinsic.call
<1>1. Next
  BY DEF ForkNext, RuntimeStep, Finalize, Retract
<1>2. Dispatch
  BY <1>1 DEF Next, Sign, Charge, Refuse, Panic, NewBlock, fundingVars
<1>3. SignedCall(who, c)
  BY <1>2 DEF Dispatch, Call, SudoAsCall, IsVote
<1>4. FundingCall(who, c)
  BY <1>3
  DEF SignedCall, DAOCall, SudoCall, TransferCall, Funding!StartRound,
      Funding!EndRound, fundingVars
<1> QED
  BY <1>4 DEF FundingCall, Funding!RegisterProject, Funding!Donate

\* ChargedAsQuoted for one step.
QuoteCharged ==
  LET x == current.extrinsic
      paid == balances[x.signer] - balances'[x.signer]
  IN  /\ current # NoExtrinsic
      /\ x.call[1] = "vote"
      /\ ProjectVotes' # ProjectVotes
      /\ x \in firm
      /\ x.nonce = x.asked
      /\ x.life = lives[x.signer]
      /\ VotesAreOwn(x.signer)
      => paid \in {0, Funding!cal_amount(x.quote, FALSE)}

LEMMA QuoteChargedStep == ForkInv /\ ForkNext => QuoteCharged
<1> DEFINE x == current.extrinsic
           who == x.signer
           c == x.call
           voted == Funding!Voted(who, c[2], c[3])
           cost == Funding!cal_cost(voted, c[4])
           amount == Funding!cal_amount(cost, FALSE)
<1> SUFFICES ASSUME ForkInv, ForkNext, current # NoExtrinsic, IsVote(x),
                    ProjectVotes' # ProjectVotes, x \in firm,
                    x.nonce = x.asked, x.life = lives[who], VotesAreOwn(who)
             PROVE  balances[who] - balances'[who]
                      \in {0, Funding!cal_amount(x.quote, FALSE)}
  BY DEF QuoteCharged, IsVote
<1>1. Funding!Vote(who, c[2], c[3], c[4])
  BY VoteIsDispatched
<1>2. /\ balances' = Funding!Transfer(balances, who, FundAccount, amount,
                                      Funding!KeepAlive)
      /\ amount \in Funding!Number
  BY <1>1 DEF Funding!Vote, Funding!VoteDefined
<1>3. amount \in Nat
  BY <1>2, NumberSets, NumberIsNat
<1>4. MoneyInv /\ who \in Users /\ balances \in [Accounts -> Nat]
  BY CurrentTyped DEF ForkInv, MoneyInv, BalancesTyped
<1>5. cost = x.quote
  <2>1. nonce[who] = x.nonce + 1 /\ x.nonce \in Nat
    BY <1>4 DEF MoneyInv, NonceInv, CountsOK, CurrentIsLast
  <2>2. Done(who) = x.asked
    BY <2>1 DEF Done
  <2>3. Price(ProjectVotes, x) = x.quote
    BY <2>2 DEF ForkInv, QuotesHold, QuoteStands, PriceStands
  <2>4. cost = Price(ProjectVotes, x)
    BY DEF Price, Funding!Voted, Funding!VoteHash, Funding!Get, Get
  <2> QED
    BY <2>3, <2>4
<1> HIDE DEF x, who, cost
<1>6. balances[who] - balances'[who] \in {0, amount}
  <2> HIDE DEF amount
  <2> QED
    BY <1>2, <1>3, <1>4, FundTransferTakes
<1> QED
  BY <1>5, <1>6

\* A vote that was signed with the nonce its account had when it asked for
\* the price, at a finalized block, costs that price or, when the transfer
\* fails, nothing: however long it is under way, whoever votes in the
\* meantime, whatever else the account signed, and however often the best
\* chain is left for another one.  The nonce is what saves it: until the
\* account gets further, no vote of its own slips in between.  The sudo key
\* needs no nonce of the account, so nobody may have signed a sudo_as that
\* votes for it (quadratic-funding lib.rs:279-285, 346-351;
\* runtime/src/lib.rs:260, 391, 537).
THEOREM QuotesAreCharged == ForkSpec => ChargedAsQuoted
<1>1. ForkInit => ForkInv
  BY ForkInitInv
<1>2. ForkInv /\ [ForkNext]_<<vars, final, firm, forks>> => ForkInv'
  BY ForkInvStep
<1>3. ForkInv /\ [ForkNext]_<<vars, final, firm, forks>>
        => [QuoteCharged]_vars
  BY QuoteChargedStep
<1>4. [][QuoteCharged]_vars => ChargedAsQuoted
  BY PTL DEF QuoteCharged, ChargedAsQuoted
<1> QED
  BY <1>1, <1>2, <1>3, <1>4, PTL DEF ForkSpec

=============================================================================
