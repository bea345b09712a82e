--------------------------- MODULE MolochV1Proofs ---------------------------
(***************************************************************************)
(* Properties of the DAO pallet for every set of users, every value of the *)
(* limits and bounds, both build profiles and all arguments of the calls.  *)
(***************************************************************************)
EXTENDS MolochV1Properties, DataProofs

-----------------------------------------------------------------------------
(* Types.                                                                  *)

\* The current period is a number when it is defined.
LEMMA PeriodType ==
  ASSUME TypeOK, PeriodDefined
  PROVE  get_current_period \in Nat
<1>1. settings.period_duration \in Nat /\ settings.period_duration > 0
  BY NumberAssumption, WordAssumption DEF TypeOK, SettingsType, Number, PeriodDefined
<1>2. now - SummonTime \in Nat
  BY DEF TypeOK
<1>3. (now - SummonTime) \div 1000 \in Nat
  BY <1>2, DivType
<1> QED
  BY <1>1, <1>3, DivType DEF get_current_period

\* Accounts and members have their types.
LEMMA AccountTypes ==
  /\ Users \subseteq AccountIds
  /\ {GuildAccount, CustodyAccount, DefaultAccount} \subseteq AccountIds
BY DEF AccountIds

LEMMA MemberTypes ==
  ASSUME TypeOK
  PROVE  /\ NoMember \in MemberType
         /\ \A who \in AccountIds, n \in Number : NewMember(who, n) \in MemberType
         /\ \A who \in AccountIds : MemberAt(who) \in MemberType
<1>1. 0 \in Number
  BY NumberAssumption, WordAssumption DEF Number
<1>2. NoMember \in MemberType
  BY <1>1, AccountTypes DEF NoMember, MemberType
<1>3. \A who \in AccountIds, n \in Number : NewMember(who, n) \in MemberType
  BY <1>1 DEF NewMember, MemberType
<1>4. \A who \in AccountIds : MemberAt(who) \in MemberType
  BY <1>2, GetType DEF MemberAt, TypeOK
<1> QED
  BY <1>2, <1>3, <1>4

\* The proposal with a valid index has its type, and replacing it by another
\* proposal gives a queue of the same length.
LEMMA QueueTypes ==
  ASSUME TypeOK, NEW i \in Indices
  PROVE  /\ i \in Nat
         /\ i + 1 \in 1 .. Len(ProposalQueue)
         /\ Proposal(i) \in ProposalType
         /\ \A p \in ProposalType :
              /\ [ProposalQueue EXCEPT ![i + 1] = p] \in Seq(ProposalType)
              /\ Len([ProposalQueue EXCEPT ![i + 1] = p]) = Len(ProposalQueue)
<1>1. i \in Nat /\ i + 1 \in 1 .. Len(ProposalQueue)
  BY DEF TypeOK, Indices
<1> QED
  BY <1>1 DEF TypeOK, Proposal

\* An account that acts for a member names one that exists.
LEMMA ActingType ==
  ASSUME TypeOK, NEW who, ActsForMember(who)
  PROVE  /\ AddressOfDelegates[who] \in AccountIds
         /\ AddressOfDelegates[who] \in DOMAIN Members
         /\ Members[AddressOfDelegates[who]] \in MemberType
<1>1. AddressOfDelegates[who] \in AccountIds
  BY DEF ActsForMember, TypeOK
<1>2. AddressOfDelegates[who] \in DOMAIN Members
  BY DEF ActsForMember, MemberAt, Get, NoMember
<1> QED
  BY <1>1, <1>2 DEF TypeOK

\* Every state the program starts in is typed.
LEMMA TypeInit == Init => TypeOK
<1> SUFFICES ASSUME Init PROVE TypeOK
  OBVIOUS
<1>1. 0 \in Number
  BY NumberAssumption, WordAssumption DEF Number
<1>2. settings \in SettingsType
  BY <1>1 DEF Init, Unsummoned, SettingsType
<1>3. balances \in [AccountIds -> Nat]
  BY AccountAssumption DEF Init, AccountIds
<1> QED
  BY <1>1, <1>2, <1>3 DEF Init, Unsummoned, TypeOK, EmptyMap

\* Each call keeps the types.
LEMMA TypeSummon ==
  ASSUME TypeOK, NEW who \in Users, NEW s \in SummonSettings, Summon(who, s)
  PROVE  TypeOK'
<1>1. 1 \in Number
  BY NumberAssumption, WordAssumption DEF Number
<1>2. NewMember(who, 1) \in MemberType /\ who \in AccountIds
  BY <1>1, MemberTypes, AccountTypes
<1>3. /\ DOMAIN Members' \subseteq AccountIds
      /\ Members' \in [DOMAIN Members' -> MemberType]
  BY <1>2, PutType DEF Summon, TypeOK
<1>4. /\ DOMAIN AddressOfDelegates' \subseteq AccountIds
      /\ AddressOfDelegates' \in [DOMAIN AddressOfDelegates' -> AccountIds]
  BY <1>2, PutType DEF Summon, TypeOK
<1> QED
  BY <1>1, <1>3, <1>4, InputAssumption DEF Summon, TypeOK, queue

LEMMA TypeCustody ==
  ASSUME TypeOK, NEW who \in Users, NEW t \in Tributes, Custody(who, t)
  PROVE  TypeOK'
<1>1. t \in Number /\ t \in Nat
  BY InputAssumption, NumberAssumption, WordAssumption DEF Number
<1>2. balances' \in [AccountIds -> Nat]
  BY <1>1, TransferType, AccountTypes DEF Custody, TypeOK
<1>3. /\ DOMAIN ApplicantCustody' \subseteq AccountIds
      /\ ApplicantCustody' \in [DOMAIN ApplicantCustody' -> Number]
  BY <1>1, PutType, AccountTypes DEF Custody, TypeOK
<1> QED
  BY <1>2, <1>3 DEF Custody, TypeOK, clock, shares, membership, queue

LEMMA TypeSubmitProposal ==
  ASSUME TypeOK, NEW who \in Users, NEW a \in Users, NEW t \in Tributes,
         NEW n \in ShareRequests, SubmitProposal(who, a, t, n)
  PROVE  TypeOK'
<1>1. t \in Number /\ n \in Number /\ 0 \in Number
  BY InputAssumption, NumberAssumption, WordAssumption DEF Number
<1>2. TotalSharesRequested' \in Number
  BY <1>1, NumberAssumption, WordAssumption, SMTT(60)
  DEF SubmitProposal, FitsMaxShares, TypeOK, Number
<1>3. get_current_period \in Nat
  BY PeriodType DEF SubmitProposal
<1>4. StartingPeriod \in Number
  <2>1. CASE Len(ProposalQueue) = 0
    BY <2>1, <1>3, InputAssumption, NumberAssumption, WordAssumption
    DEF SubmitProposal, StartingPeriod, Number
  <2>2. CASE Len(ProposalQueue) # 0
    <3>1. Len(ProposalQueue) \in 1 .. Len(ProposalQueue)
      BY <2>2 DEF TypeOK
    <3>2. ProposalQueue[Len(ProposalQueue)] \in ProposalType
      BY <3>1 DEF TypeOK
    <3>3. ProposalQueue[Len(ProposalQueue)].starting_period \in Number
      BY <3>2 DEF ProposalType
    <3> QED
      BY <2>2, <3>3, <1>3, InputAssumption, NumberAssumption, WordAssumption,
         SMTT(60)
      DEF SubmitProposal, StartingPeriod, Number
  <2> QED
    BY <2>1, <2>2
<1>5. AddressOfDelegates[who] \in AccountIds
  BY ActingType DEF SubmitProposal
<1>6. NewProposal(AddressOfDelegates[who], a, t, n) \in ProposalType
  BY <1>1, <1>4, <1>5, AccountTypes DEF NewProposal, ProposalType
<1>7. ProposalQueue' \in Seq(ProposalType)
  BY <1>6 DEF SubmitProposal, TypeOK
<1>8. settings.proposal_deposit \in Nat
  BY NumberAssumption, WordAssumption DEF TypeOK, SettingsType, Number
<1>9. balances' \in [AccountIds -> Nat]
  BY <1>8, TransferType, AccountTypes DEF SubmitProposal, DepositPaid, TypeOK
<1> QED
  BY <1>2, <1>7, <1>9 DEF SubmitProposal, TypeOK, clock, membership

LEMMA TypeSubmitVote ==
  ASSUME TypeOK, NEW who \in Users, NEW i \in Indices, SubmitVote(who, i)
  PROVE  TypeOK'
<1> DEFINE m == AddressOfDelegates[who]
           p == Proposal(i)
<1>1. m \in AccountIds /\ m \in DOMAIN Members /\ Members[m] \in MemberType
  BY ActingType DEF SubmitVote
<1>2. i \in Nat /\ i + 1 \in 1 .. Len(ProposalQueue) /\ p \in ProposalType
  BY QueueTypes
<1>3. <<i, m>> \in Nat \X AccountIds
  BY <1>1, <1>2
<1> DEFINE votes(v) == Put(ProposalVotes, <<i, m>>, v)
<1>4. \A v \in {1, 2} : /\ DOMAIN votes(v) \subseteq Nat \X AccountIds
                        /\ votes(v) \in [DOMAIN votes(v) -> {1, 2}]
  <2> DEFINE K == Nat \X AccountIds
             V == {1, 2}
  <2>1. <<i, m>> \in K /\ DOMAIN ProposalVotes \subseteq K
        /\ ProposalVotes \in [DOMAIN ProposalVotes -> V]
    BY <1>3 DEF TypeOK
  <2> SUFFICES ASSUME NEW v \in V
               PROVE  /\ DOMAIN votes(v) \subseteq K
                      /\ votes(v) \in [DOMAIN votes(v) -> V]
    OBVIOUS
  <2> HIDE DEF K, V, m
  <2> QED
    BY <2>1, PutType
<1>5. CASE VoteYes(m, i)
  <2> DEFINE q == [p EXCEPT !.yes_votes = @ + Members[m].shares,
                            !.max_total_shares_at_yes = RaiseMaxTotal(@)]
  <2>1. q \in ProposalType
    BY <1>2, <1>5 DEF VoteYes, RaiseMaxTotal, ProposalType, TypeOK
  <2>2. ProposalQueue' = [ProposalQueue EXCEPT ![i + 1] = q]
    BY <1>2, <1>5 DEF VoteYes, Proposal, TypeOK
  <2>3. ProposalQueue' \in Seq(ProposalType)
    BY <2>1, <2>2, QueueTypes
  <2>4. RaiseHighest(Members[m], i) \in MemberType
    BY <1>1, <1>2 DEF RaiseHighest, MemberType
  <2>5. Members' \in [DOMAIN Members -> MemberType]
    BY <1>1, <1>5, <2>4 DEF VoteYes, TypeOK
  <2>6. /\ DOMAIN ProposalVotes' \subseteq Nat \X AccountIds
        /\ ProposalVotes' \in [DOMAIN ProposalVotes' -> {1, 2}]
    BY <1>4, <1>5 DEF VoteYes
  <2> QED
    BY <2>3, <2>5, <2>6 DEF SubmitVote, TypeOK, clock, shares
<1>6. CASE VoteNo(m, i)
  <2> DEFINE q == [p EXCEPT !.no_votes = @ + Members[m].shares]
  <2>1. q \in ProposalType
    BY <1>2, <1>6 DEF VoteNo, ProposalType
  <2>2. ProposalQueue' = [ProposalQueue EXCEPT ![i + 1] = q]
    BY <1>2, <1>6 DEF VoteNo, Proposal, TypeOK
  <2>3. ProposalQueue' \in Seq(ProposalType)
    BY <2>1, <2>2, QueueTypes
  <2>4. /\ DOMAIN ProposalVotes' \subseteq Nat \X AccountIds
        /\ ProposalVotes' \in [DOMAIN ProposalVotes' -> {1, 2}]
    BY <1>4, <1>6 DEF VoteNo
  <2> QED
    BY <1>6, <2>3, <2>4 DEF SubmitVote, VoteNo, TypeOK, clock, shares
<1> QED
  BY <1>5, <1>6 DEF SubmitVote

\* Processing: members, delegates, record and balances keep their types.
LEMMA TypeAdmission ==
  ASSUME TypeOK, NEW a \in AccountIds, NEW n \in Number,
         MemberAt(a).shares + n \in Number
  PROVE  /\ DOMAIN MembersAfterPass(a, n) \subseteq AccountIds
         /\ MembersAfterPass(a, n) \in [DOMAIN MembersAfterPass(a, n) -> MemberType]
         /\ DOMAIN DelegatesAfterPass(a) \subseteq AccountIds
         /\ DelegatesAfterPass(a) \in [DOMAIN DelegatesAfterPass(a) -> AccountIds]
<1>1. CASE a \in DOMAIN Members
  <2>1. Members[a].shares + n \in Number
    BY <1>1 DEF MemberAt, Get
  <2>2. [Members[a] EXCEPT !.shares = @ + n] \in MemberType
    <3> DEFINE m == Members[a]
               k == m.shares + n
    <3>1. m \in MemberType
      BY <1>1 DEF TypeOK
    <3>2. k \in Number
      BY <2>1
    <3> HIDE DEF m, k
    <3>3. [m EXCEPT !.shares = k] \in MemberType
      BY <3>1, <3>2, SMTT(60) DEF MemberType
    <3> QED
      BY <3>3 DEF m, k
  <2>3. MembersAfterPass(a, n) \in [DOMAIN Members -> MemberType]
    BY <1>1, <2>2 DEF MembersAfterPass, TypeOK
  <2> QED
    BY <1>1, <2>3 DEF DelegatesAfterPass, TypeOK
<1>2. CASE a \notin DOMAIN Members
  <2>1. /\ DOMAIN WithKeyReset(a) \subseteq AccountIds
        /\ WithKeyReset(a) \in [DOMAIN WithKeyReset(a) -> MemberType]
    <3>1. CASE a \in DOMAIN AddressOfDelegates
      <4> DEFINE d == AddressOfDelegates[a]
      <4>1. d \in AccountIds
        BY <3>1 DEF TypeOK
      <4>2. [MemberAt(d) EXCEPT !.delegate_key = d] \in MemberType
        BY <4>1, MemberTypes DEF MemberType
      <4> QED
        BY <3>1, <4>1, <4>2, PutType DEF WithKeyReset, TypeOK
    <3>2. CASE a \notin DOMAIN AddressOfDelegates
      BY <3>2 DEF WithKeyReset, TypeOK
    <3> QED
      BY <3>1, <3>2
  <2>2. NewMember(a, n) \in MemberType
    BY MemberTypes
  <2>3. /\ DOMAIN MembersAfterPass(a, n) \subseteq AccountIds
        /\ MembersAfterPass(a, n) \in [DOMAIN MembersAfterPass(a, n) -> MemberType]
    BY <1>2, <2>1, <2>2, PutType DEF MembersAfterPass
  <2>4. CASE a \in DOMAIN AddressOfDelegates
    <3> DEFINE d == AddressOfDelegates[a]
               reset == Put(AddressOfDelegates, d, d)
    <3>1. d \in AccountIds
      BY <2>4 DEF TypeOK
    <3>2. /\ DOMAIN reset \subseteq AccountIds
          /\ reset \in [DOMAIN reset -> AccountIds]
      BY <3>1, PutType DEF TypeOK
    <3>3. DelegatesAfterPass(a) = Put(reset, a, a)
      BY <1>2, <2>4 DEF DelegatesAfterPass
    <3>4. /\ DOMAIN Put(reset, a, a) \subseteq AccountIds
          /\ Put(reset, a, a) \in [DOMAIN Put(reset, a, a) -> AccountIds]
      <4> HIDE DEF reset
      <4> QED
        BY <3>2, PutType
    <3> QED
      BY <2>3, <3>3, <3>4
  <2>5. CASE a \notin DOMAIN AddressOfDelegates
    BY <1>2, <2>3, <2>5, PutType DEF DelegatesAfterPass, TypeOK
  <2> QED
    BY <2>4, <2>5
<1> QED
  BY <1>1, <1>2

\* The guild bank's payments keep the balances typed.
LEMMA TypeGuildPays ==
  ASSUME NEW b \in [AccountIds -> Nat], NEW to \in AccountIds, NEW value \in Nat
  PROVE  GuildPays(b, to, value) \in [AccountIds -> Nat]
BY TransferType, AccountTypes DEF GuildPays

LEMMA TypeProcessBalances ==
  ASSUME TypeOK, NEW who \in AccountIds, NEW p \in ProposalType,
         NEW to \in AccountIds
  PROVE  BalancesAfterProcess(who, p, to) \in [AccountIds -> Nat]
<1> DEFINE rest == Sub(settings.proposal_deposit, settings.processing_reward)
<1>1. settings.processing_reward \in Nat /\ rest \in Nat
  BY NumberAssumption, WordAssumption, SubType, SMTT(60)
  DEF TypeOK, SettingsType, Number
<1>2. p.token_tribute \in Nat /\ p.proposer \in AccountIds
  BY NumberAssumption, WordAssumption DEF ProposalType, Number
<1> DEFINE paid == Transfer(balances, CustodyAccount, to, p.token_tribute,
                            AllowDeath)
           rewarded == GuildPays(paid, who, settings.processing_reward)
<1>3. paid \in [AccountIds -> Nat]
  BY <1>2, TransferType, AccountTypes DEF TypeOK
<1>4. rewarded \in [AccountIds -> Nat]
  BY <1>1, <1>3, TypeGuildPays
<1>5. GuildPays(rewarded, p.proposer, rest) \in [AccountIds -> Nat]
  BY <1>1, <1>2, <1>4, TypeGuildPays
<1> QED
  BY <1>5 DEF BalancesAfterProcess

LEMMA TypeProcessProposal ==
  ASSUME TypeOK, NEW who \in Users, NEW i \in Indices, ProcessProposal(who, i)
  PROVE  TypeOK'
<1> DEFINE p == Proposal(i)
<1>1. i \in Nat /\ i + 1 \in 1 .. Len(ProposalQueue) /\ p \in ProposalType
  BY QueueTypes
<1>2. /\ p.applicant \in AccountIds
      /\ p.shares_requested \in Number
      /\ p.token_tribute \in Number
  BY <1>1 DEF ProposalType
<1>3. TotalSharesRequested' \in Number
  <2>1. /\ TotalSharesRequested' = TotalSharesRequested - p.shares_requested
        /\ TotalSharesRequested - p.shares_requested >= 0
    BY DEF ProcessProposal, RequestedWithout
  <2>2. TotalSharesRequested \in Number
    BY DEF TypeOK
  <2> HIDE DEF p
  <2> QED
    BY <1>2, <2>1, <2>2, NumberAssumption, WordAssumption DEF Number
<1>4. /\ DOMAIN ApplicantCustody' \subseteq AccountIds
      /\ ApplicantCustody' \in [DOMAIN ApplicantCustody' -> Number]
  <2>1. 0 \in Number
    BY NumberAssumption, WordAssumption DEF Number
  <2>2. Get(ApplicantCustody, p.applicant, 0) \in Number
    BY <2>1, GetType DEF TypeOK
  <2> DEFINE a == p.applicant
             rest == Sub(Get(ApplicantCustody, a, 0), p.token_tribute)
  <2>3. rest \in Number /\ a \in AccountIds
    BY <1>2, <2>2, SubType
  <2>4. ApplicantCustody' = Put(ApplicantCustody, a, rest)
    BY DEF ProcessProposal, RecordAfterProcess
  <2> HIDE DEF a, rest
  <2> QED
    BY <2>3, <2>4, PutType DEF TypeOK
<1>5. CASE Pass(who, i)
  <2> DEFINE q == [p EXCEPT !.processed = TRUE, !.did_pass = TRUE]
  <2>1. q \in ProposalType
    BY <1>1 DEF ProposalType
  <2>2. ProposalQueue' = [ProposalQueue EXCEPT ![i + 1] = q]
    BY <1>1, <1>5 DEF Pass, Proposal, TypeOK
  <2>3. ProposalQueue' \in Seq(ProposalType)
    BY <2>1, <2>2, QueueTypes
  <2>4. TotalShares' \in Number /\ MemberAt(p.applicant).shares + p.shares_requested \in Number
    BY <1>5 DEF Pass
  <2>5. /\ DOMAIN Members' \subseteq AccountIds
        /\ Members' \in [DOMAIN Members' -> MemberType]
        /\ DOMAIN AddressOfDelegates' \subseteq AccountIds
        /\ AddressOfDelegates' \in [DOMAIN AddressOfDelegates' -> AccountIds]
    <3>1. /\ Members' = MembersAfterPass(p.applicant, p.shares_requested)
          /\ AddressOfDelegates' = DelegatesAfterPass(p.applicant)
      BY <1>5 DEF Pass
    <3> HIDE DEF p
    <3> QED
      BY <1>2, <2>4, <3>1, TypeAdmission
  <2>6. balances' \in [AccountIds -> Nat]
    BY <1>1, <1>5, TypeProcessBalances, AccountTypes DEF Pass
  <2> QED
    BY <1>3, <1>4, <2>3, <2>4, <2>5, <2>6 DEF ProcessProposal, TypeOK, clock
<1>6. CASE Fail(who, i)
  <2> DEFINE q == [p EXCEPT !.processed = TRUE]
  <2>1. q \in ProposalType
    BY <1>1 DEF ProposalType
  <2>2. ProposalQueue' = [ProposalQueue EXCEPT ![i + 1] = q]
    BY <1>1, <1>6 DEF Fail, Proposal, TypeOK
  <2>3. ProposalQueue' \in Seq(ProposalType)
    BY <2>1, <2>2, QueueTypes
  <2>4. balances' \in [AccountIds -> Nat]
    BY <1>1, <1>2, <1>6, TypeProcessBalances, AccountTypes DEF Fail
  <2> QED
    BY <1>3, <1>4, <1>6, <2>3, <2>4
    DEF ProcessProposal, Fail, TypeOK, clock, membership
<1> QED
  BY <1>5, <1>6 DEF ProcessProposal

LEMMA TypeRagequit ==
  ASSUME TypeOK, NEW who \in Users, NEW n \in Nat, Ragequit(who, n)
  PROVE  TypeOK'
<1>1. /\ who \in DOMAIN Members /\ Members[who] \in MemberType
      /\ n <= Members[who].shares /\ n <= TotalShares
  BY DEF Ragequit, TypeOK
<1>2. Members[who].shares - n \in Number /\ TotalShares' \in Number
  <2>1. Members[who].shares \in Number /\ TotalShares \in Number
    BY <1>1 DEF MemberType, TypeOK
  <2>2. TotalShares' = TotalShares - n
    BY DEF Ragequit
  <2> QED
    BY <1>1, <2>1, <2>2, NumberAssumption, WordAssumption DEF Number
<1>3. [Members[who] EXCEPT !.shares = @ - n] \in MemberType
  BY <1>1, <1>2 DEF MemberType
<1>4. Members' \in [DOMAIN Members -> MemberType]
  BY <1>1, <1>3 DEF Ragequit, TypeOK
<1>5. (balances[GuildAccount] * n) \div TotalShares \in Nat
  <2>1. balances[GuildAccount] * n \in Nat
    BY DEF Ragequit, Number
  <2>2. TotalShares \in Nat /\ TotalShares > 0
    BY DEF Ragequit, TypeOK, Number
  <2> QED
    BY <2>1, <2>2, DivType
<1>6. balances' \in [AccountIds -> Nat]
  BY <1>5, TypeGuildPays, AccountTypes DEF Ragequit, TypeOK
<1> QED
  BY <1>2, <1>4, <1>6 DEF Ragequit, TypeOK, clock, queue

LEMMA TypeAbort ==
  ASSUME TypeOK, NEW who \in Users, NEW i \in Indices, Abort(who, i)
  PROVE  TypeOK'
<1> DEFINE p == Proposal(i)
           q == [p EXCEPT !.token_tribute = 0, !.aborted = TRUE]
<1>1. i \in Nat /\ i + 1 \in 1 .. Len(ProposalQueue) /\ p \in ProposalType
  BY QueueTypes
<1>2. 0 \in Number /\ p.token_tribute \in Nat
  BY <1>1, NumberAssumption, WordAssumption, SMTT(60) DEF Number, ProposalType
<1>3. q \in ProposalType
  BY <1>1, <1>2 DEF ProposalType
<1>4. ProposalQueue' = [ProposalQueue EXCEPT ![i + 1] = q]
  BY <1>1 DEF Abort, Proposal, TypeOK
<1>5. ProposalQueue' \in Seq(ProposalType)
  BY <1>3, <1>4, QueueTypes
<1>6. balances' \in [AccountIds -> Nat]
  BY <1>2, TransferType, AccountTypes DEF Abort, TypeOK
<1>7. /\ DOMAIN ApplicantCustody' \subseteq AccountIds
      /\ ApplicantCustody' \in [DOMAIN ApplicantCustody' -> Number]
  BY RemoveType DEF Abort, TypeOK
<1> QED
  BY <1>5, <1>6, <1>7 DEF Abort, TypeOK, clock, shares, membership

LEMMA TypeUpdateDelegate ==
  ASSUME TypeOK, NEW who \in Users, NEW key \in DelegateKeys,
         UpdateDelegate(who, key)
  PROVE  TypeOK'
<1> DEFINE kept == Remove(AddressOfDelegates, MemberAt(who).delegate_key)
<1>1. /\ DOMAIN kept \subseteq AccountIds
      /\ kept \in [DOMAIN kept -> AccountIds]
  BY RemoveType DEF TypeOK
<1>2. who \in AccountIds /\ key \in AccountIds
  BY AccountTypes, InputAssumption
<1>3. /\ DOMAIN Put(kept, key, who) \subseteq AccountIds
      /\ Put(kept, key, who) \in [DOMAIN Put(kept, key, who) -> AccountIds]
  <2> HIDE DEF kept
  <2> QED
    BY <1>1, <1>2, PutType
<1> QED
  BY <1>3 DEF UpdateDelegate, TypeOK, clock, shares, queue

LEMMA TypeTick == TypeOK /\ Tick => TypeOK'
BY NumberAssumption, WordAssumption DEF TypeOK, Tick, shares, membership, queue

\* The types are inductive, whoever summons and whenever.
LEMMA TypeNext == TypeOK /\ [Next]_vars => TypeOK'
<1> SUFFICES ASSUME TypeOK, [Next]_vars PROVE TypeOK'
  OBVIOUS
<1>1. CASE UNCHANGED vars
  BY <1>1 DEF TypeOK, vars, clock, shares, membership, queue
<1>2. CASE Next
  BY <1>2, TypeSummon, TypeCustody, TypeSubmitProposal, TypeSubmitVote,
     TypeProcessProposal, TypeRagequit, TypeAbort, TypeUpdateDelegate, TypeTick,
     NumberAssumption, WordAssumption
  DEF Next, CallOrTick, Number
<1> QED
  BY <1>1, <1>2

\* Type correctness of every storage item, lib.rs:112-134: in particular no
\* number of the pallet leaves the range of its type, in either build.
THEOREM TypeCorrect == Spec => []TypeOK
BY TypeInit, TypeNext, PTL DEF Spec

\* A step of the founded DAO is a step of the DAO anybody may summon.
LEMMA FoundedIsNext == [NextFounded]_vars => [Next]_vars
BY DEF NextFounded, Found, Next

LEMMA TypeCorrectFounded == SpecFounded => []TypeOK
BY TypeInit, TypeNext, FoundedIsNext, PTL DEF SpecFounded

-----------------------------------------------------------------------------
(* The queue.                                                              *)

\* submit_proposal appends a proposal that is not processed and starts in
\* StartingPeriod.
Appends(p) ==
  /\ ProposalQueue' = Append(ProposalQueue, p)
  /\ ~p.processed
  /\ PeriodDefined
  /\ p.starting_period = StartingPeriod

\* Every other step keeps the proposals and their starting periods, and
\* processes one only after its predecessor.
Keeps ==
  /\ Len(ProposalQueue') = Len(ProposalQueue)
  /\ \A i \in Indices :
       /\ Proposal(i)'.starting_period = Proposal(i).starting_period
       /\ Proposal(i).processed => Proposal(i)'.processed
       /\ Proposal(i)'.processed =>
            Proposal(i).processed \/ PreviousProcessed(i)

LEMMA QueueStep ==
  ASSUME TypeOK, [Next]_vars
  PROVE  Keeps \/ \E p \in ProposalType : Appends(p)
<1>1. ASSUME ProposalQueue' = ProposalQueue PROVE Keeps
  BY <1>1 DEF Keeps, Proposal
<1>2. ASSUME NEW i \in Indices, NEW q \in ProposalType,
             ProposalQueue' = [ProposalQueue EXCEPT ![i + 1] = q],
             q.starting_period = Proposal(i).starting_period,
             Proposal(i).processed => q.processed,
             q.processed => Proposal(i).processed \/ PreviousProcessed(i)
      PROVE  Keeps
  <2>1. Len(ProposalQueue') = Len(ProposalQueue)
    BY <1>2, QueueTypes
  <2>2. \A j \in Indices : Proposal(j)' = IF j = i THEN q ELSE Proposal(j)
    BY <1>2 DEF Proposal, Indices, TypeOK
  <2> QED
    BY <1>2, <2>1, <2>2 DEF Keeps
<1>3. CASE UNCHANGED vars
  BY <1>1, <1>3 DEF vars, queue
<1>4. ASSUME NEW who \in Users, NEW s \in SummonSettings, Summon(who, s)
      PROVE  Keeps
  BY <1>1, <1>4 DEF Summon, queue
<1>5. ASSUME NEW who \in Users, NEW t \in Tributes, Custody(who, t)
      PROVE  Keeps
  BY <1>1, <1>5 DEF Custody, queue
<1>6. ASSUME NEW who \in Users, NEW a \in Users, NEW t \in Tributes,
             NEW n \in ShareRequests, SubmitProposal(who, a, t, n)
      PROVE  \E p \in ProposalType : Appends(p)
  <2> DEFINE p == NewProposal(AddressOfDelegates[who], a, t, n)
  <2>1. ProposalQueue' = Append(ProposalQueue, p) /\ PeriodDefined
    BY <1>6 DEF SubmitProposal
  <2>2. ProposalQueue' \in Seq(ProposalType)
    BY <1>6, TypeSubmitProposal DEF TypeOK
  <2>3. p \in ProposalType
    <3> HIDE DEF p
    <3>1. ProposalQueue \in Seq(ProposalType) /\ Len(ProposalQueue) \in Nat
      BY DEF TypeOK
    <3>2. Len(ProposalQueue) + 1 \in 1 .. Len(ProposalQueue')
      BY <2>1, <2>2, <3>1
    <3>3. ProposalQueue'[Len(ProposalQueue) + 1] = p
      BY <2>1, <3>1
    <3> QED
      BY <2>2, <3>2, <3>3
  <2>4. ~p.processed /\ p.starting_period = StartingPeriod
    BY DEF NewProposal
  <2> QED
    BY <2>1, <2>3, <2>4 DEF Appends
<1>7. ASSUME NEW who \in Users, NEW i \in Indices, SubmitVote(who, i)
      PROVE  Keeps
  <2> DEFINE m == AddressOfDelegates[who]
             n == Members[m].shares
             y == [Proposal(i) EXCEPT !.yes_votes = @ + n,
                     !.max_total_shares_at_yes = RaiseMaxTotal(@)]
             z == [Proposal(i) EXCEPT !.no_votes = @ + n]
  <2>1. i + 1 \in 1 .. Len(ProposalQueue) /\ Proposal(i) \in ProposalType
    BY QueueTypes
  <2>2. CASE VoteYes(m, i)
    <3>1. ProposalQueue' = [ProposalQueue EXCEPT ![i + 1] = y]
      BY <2>1, <2>2 DEF VoteYes, Proposal, TypeOK
    <3>2. y \in ProposalType
      BY <2>1, <2>2 DEF VoteYes, RaiseMaxTotal, ProposalType, TypeOK
    <3>3. /\ y.starting_period = Proposal(i).starting_period
          /\ y.processed = Proposal(i).processed
      BY <2>1 DEF ProposalType
    <3> QED
      BY <1>2, <3>1, <3>2, <3>3
  <2>3. CASE VoteNo(m, i)
    <3>1. ProposalQueue' = [ProposalQueue EXCEPT ![i + 1] = z]
      BY <2>1, <2>3 DEF VoteNo, Proposal, TypeOK
    <3>2. z \in ProposalType
      BY <2>1, <2>3 DEF VoteNo, ProposalType
    <3>3. /\ z.starting_period = Proposal(i).starting_period
          /\ z.processed = Proposal(i).processed
      BY <2>1 DEF ProposalType
    <3> QED
      BY <1>2, <3>1, <3>2, <3>3
  <2> QED
    BY <1>7, <2>2, <2>3 DEF SubmitVote
<1>8. ASSUME NEW who \in Users, NEW i \in Indices, ProcessProposal(who, i)
      PROVE  Keeps
  <2> DEFINE y == [Proposal(i) EXCEPT !.processed = TRUE, !.did_pass = TRUE]
             z == [Proposal(i) EXCEPT !.processed = TRUE]
  <2>1. i + 1 \in 1 .. Len(ProposalQueue) /\ Proposal(i) \in ProposalType
    BY QueueTypes
  <2>2. \/ ProposalQueue' = [ProposalQueue EXCEPT ![i + 1] = y]
        \/ ProposalQueue' = [ProposalQueue EXCEPT ![i + 1] = z]
    BY <1>8, <2>1 DEF ProcessProposal, Pass, Fail, Proposal, TypeOK
  <2>3. y \in ProposalType /\ z \in ProposalType
    BY <2>1 DEF ProposalType
  <2>4. /\ y.starting_period = Proposal(i).starting_period
        /\ z.starting_period = Proposal(i).starting_period
        /\ y.processed /\ z.processed
    BY <2>1 DEF ProposalType
  <2>5. PreviousProcessed(i)
    BY <1>8 DEF ProcessProposal
  <2> HIDE DEF y, z
  <2> QED
    BY <1>2, <2>2, <2>3, <2>4, <2>5
<1>9. ASSUME NEW who \in Users, NEW n \in 0 .. MaxShares, Ragequit(who, n)
      PROVE  Keeps
  BY <1>1, <1>9 DEF Ragequit, queue
<1>10. ASSUME NEW who \in Users, NEW i \in Indices, Abort(who, i)
       PROVE  Keeps
  <2> DEFINE y == [Proposal(i) EXCEPT !.token_tribute = 0, !.aborted = TRUE]
  <2>1. i + 1 \in 1 .. Len(ProposalQueue) /\ Proposal(i) \in ProposalType
    BY QueueTypes
  <2>2. ProposalQueue' = [ProposalQueue EXCEPT ![i + 1] = y]
    BY <1>10, <2>1 DEF Abort, Proposal, TypeOK
  <2>3. y \in ProposalType
    <3>1. 0 \in Number
      BY NumberAssumption, WordAssumption DEF Number
    <3> QED
      BY <2>1, <3>1 DEF ProposalType
  <2>4. /\ y.starting_period = Proposal(i).starting_period
        /\ y.processed = Proposal(i).processed
    BY <2>1 DEF ProposalType
  <2> QED
    BY <1>2, <2>2, <2>3, <2>4
<1>11. ASSUME NEW who \in Users, NEW key \in DelegateKeys,
              UpdateDelegate(who, key)
       PROVE  Keeps
  BY <1>1, <1>11 DEF UpdateDelegate, queue
<1>12. CASE Tick
  BY <1>1, <1>12 DEF Tick, queue
<1> QED
  BY <1>3, <1>4, <1>5, <1>6, <1>7, <1>8, <1>9, <1>10, <1>11, <1>12
  DEF Next, CallOrTick

\* An appended proposal is the last of the new queue; the others stay.
LEMMA AppendKeeps ==
  ASSUME TypeOK, NEW p \in ProposalType, Appends(p)
  PROVE  /\ Len(ProposalQueue) \in Nat
         /\ Indices' = 0 .. Len(ProposalQueue)
         /\ \A i \in Indices' :
              Proposal(i)' = IF i \in Indices THEN Proposal(i) ELSE p
         /\ \A i \in Indices' : i \notin Indices => i = Len(ProposalQueue)
<1> DEFINE n == Len(ProposalQueue)
<1>1. ProposalQueue \in Seq(ProposalType) /\ n \in Nat
  BY DEF TypeOK
<1>2. ProposalQueue' = Append(ProposalQueue, p)
  BY DEF Appends
<1>3. Len(ProposalQueue') = n + 1 /\ ProposalQueue'[n + 1] = p
  BY <1>1, <1>2
<1>4. \A k \in 1 .. n : ProposalQueue'[k] = ProposalQueue[k]
  BY <1>1, <1>2
<1>5. Indices' = 0 .. n
  BY <1>1, <1>3 DEF Indices
<1>6. \A i \in 0 .. n : i \in Indices => i + 1 \in 1 .. n
  BY <1>1 DEF Indices
<1>7. \A i \in 0 .. n : i \notin Indices => i = n
  BY <1>1 DEF Indices
<1> QED
  BY <1>1, <1>3, <1>4, <1>5, <1>6, <1>7 DEF Proposal

\* The processed proposals are a prefix of the queue: process_proposal looks
\* at one predecessor only (lib.rs:385), and no setting of the periods, no
\* wrapped subtraction and no other summon breaks the order.
THEOREM QueueInOrder == Spec => []ProcessedInOrder
<1>1. Init => ProcessedInOrder
  BY DEF Init, Unsummoned, ProcessedInOrder, Indices
<1>2. TypeOK /\ ProcessedInOrder /\ [Next]_vars => ProcessedInOrder'
  <2> SUFFICES ASSUME TypeOK, ProcessedInOrder, [Next]_vars,
                      NEW i \in Indices', NEW j \in Indices',
                      i <= j, Proposal(j)'.processed
               PROVE  Proposal(i)'.processed
    BY DEF ProcessedInOrder
  <2>1. CASE Keeps
    <3>1. i \in Indices /\ j \in Indices
      BY <2>1 DEF Keeps, Indices
    <3>2. CASE Proposal(j).processed
      BY <2>1, <3>1, <3>2 DEF Keeps, ProcessedInOrder
    <3>3. CASE i # j /\ PreviousProcessed(j)
      <4>1. j - 1 \in Indices /\ i <= j - 1 /\ j > 0
        BY <3>1, <3>3 DEF Indices, TypeOK
      <4>2. Proposal(j - 1).processed
        BY <3>3, <4>1 DEF PreviousProcessed
      <4> QED
        BY <2>1, <3>1, <4>1, <4>2 DEF Keeps, ProcessedInOrder
    <3> QED
      BY <2>1, <3>1, <3>2, <3>3 DEF Keeps
  <2>2. ASSUME NEW p \in ProposalType, Appends(p)
        PROVE  Proposal(i)'.processed
    <3>1. j \in Indices
      BY <2>2, AppendKeeps DEF Appends
    <3>2. i \in Indices
      BY <2>2, <3>1, AppendKeeps DEF Indices
    <3> QED
      BY <2>2, <3>1, <3>2, AppendKeeps DEF ProcessedInOrder
  <2> QED
    BY <2>1, <2>2, QueueStep
<1> QED
  BY <1>1, <1>2, TypeCorrect, PTL DEF Spec

\* Proposals start one after the other (lib.rs:297-301): StartingPeriod is
\* above the last one even when another summon has set the clock back, so a
\* period belongs to one proposal at most.
THEOREM OneStartPerPeriod == Spec => []StartingPeriodsIncrease
<1>1. Init => StartingPeriodsIncrease
  BY DEF Init, Unsummoned, StartingPeriodsIncrease, Indices
<1>2. TypeOK /\ StartingPeriodsIncrease /\ [Next]_vars
        => StartingPeriodsIncrease'
  <2> SUFFICES ASSUME TypeOK, StartingPeriodsIncrease, [Next]_vars,
                      NEW i \in Indices', NEW j \in Indices', i < j
               PROVE  Proposal(i)'.starting_period < Proposal(j)'.starting_period
    BY DEF StartingPeriodsIncrease
  <2>1. CASE Keeps
    <3>1. i \in Indices /\ j \in Indices
      BY <2>1 DEF Keeps, Indices
    <3> QED
      BY <2>1, <3>1 DEF Keeps, StartingPeriodsIncrease
  <2>2. ASSUME NEW p \in ProposalType, Appends(p)
        PROVE  Proposal(i)'.starting_period < Proposal(j)'.starting_period
    <3>1. i \in Indices /\ Proposal(i)' = Proposal(i)
      BY <2>2, AppendKeeps DEF Indices
    <3>2. CASE j \in Indices
      BY <2>2, <3>1, <3>2, AppendKeeps DEF StartingPeriodsIncrease
    <3>3. CASE j \notin Indices
      <4> DEFINE last == Len(ProposalQueue) - 1
      <4>1. /\ Len(ProposalQueue) > 0 /\ Len(ProposalQueue) \in Nat
            /\ last \in Indices /\ i <= last
        BY <3>1 DEF Indices, TypeOK
      <4>2. Proposal(last) = ProposalQueue[Len(ProposalQueue)]
        BY <4>1 DEF Proposal
      <4>3. /\ Proposal(i).starting_period \in Nat
            /\ Proposal(last).starting_period \in Nat
        <5>1. \A k \in Indices : Proposal(k) \in ProposalType
          BY QueueTypes
        <5>2. \A k \in Indices : Proposal(k).starting_period \in Number
          BY <5>1 DEF ProposalType
        <5> HIDE DEF last
        <5> QED
          BY <3>1, <4>1, <5>2, NumberAssumption, WordAssumption DEF Number
      <4>4. Proposal(i).starting_period <= Proposal(last).starting_period
        BY <3>1, <4>1, <4>3 DEF StartingPeriodsIncrease, Indices
      <4>5. get_current_period \in Nat
        BY <2>2, PeriodType DEF Appends
      <4>6. Proposal(last).starting_period < StartingPeriod
        BY <4>1, <4>2, <4>3, <4>5 DEF StartingPeriod
      <4>7. StartingPeriod \in Nat
        BY <4>1, <4>2, <4>3, <4>5 DEF StartingPeriod
      <4>8. Proposal(j)' = p /\ p.starting_period = StartingPeriod
        BY <2>2, <3>3, AppendKeeps DEF Appends
      <4> HIDE DEF last
      <4> QED
        BY <3>1, <4>3, <4>4, <4>6, <4>7, <4>8
    <3> QED
      BY <3>2, <3>3
  <2> QED
    BY <2>1, <2>2, QueueStep
<1> QED
  BY <1>1, <1>2, TypeCorrect, PTL DEF Spec

-----------------------------------------------------------------------------
(* Delegate keys.                                                          *)

\* A member's address never acts for another member, whatever keys are set
\* by whom (lib.rs:536-551) and whoever is admitted under an address that was
\* a delegate key (lib.rs:415-433).
THEOREM OwnKeyAlways == Spec => []OwnKey
<1>1. Init => OwnKey
  BY DEF Init, Unsummoned, OwnKey, EmptyMap
<1>2. TypeOK /\ OwnKey /\ [Next]_vars => OwnKey'
  <2> SUFFICES ASSUME TypeOK, OwnKey, [Next]_vars PROVE OwnKey'
    OBVIOUS
  <2>1. ASSUME Members' = Members, AddressOfDelegates' = AddressOfDelegates
        PROVE  OwnKey'
    BY <2>1 DEF OwnKey
  <2>2. CASE UNCHANGED vars
    BY <2>1, <2>2 DEF vars, membership
  <2>3. ASSUME NEW who \in Users, NEW s \in SummonSettings, Summon(who, s)
        PROVE  OwnKey'
    <3>1. DOMAIN Members' = DOMAIN Members \cup {who}
      BY <2>3 DEF Summon, Put
    <3>2. /\ DOMAIN AddressOfDelegates' = DOMAIN AddressOfDelegates \cup {who}
          /\ AddressOfDelegates'[who] = who
          /\ \A k \in DOMAIN AddressOfDelegates :
               k # who => AddressOfDelegates'[k] = AddressOfDelegates[k]
      BY <2>3 DEF Summon, Put
    <3> QED
      BY <3>1, <3>2 DEF OwnKey
  <2>4. ASSUME NEW who \in Users, NEW t \in Tributes, Custody(who, t)
        PROVE  OwnKey'
    BY <2>1, <2>4 DEF Custody, membership
  <2>5. ASSUME NEW who \in Users, NEW a \in Users, NEW t \in Tributes,
               NEW n \in ShareRequests, SubmitProposal(who, a, t, n)
        PROVE  OwnKey'
    BY <2>1, <2>5 DEF SubmitProposal, membership
  <2>6. ASSUME NEW who \in Users, NEW i \in Indices, SubmitVote(who, i)
        PROVE  OwnKey'
    <3>1. AddressOfDelegates' = AddressOfDelegates
      BY <2>6 DEF SubmitVote
    <3>2. DOMAIN Members' = DOMAIN Members
      BY <2>6 DEF SubmitVote, VoteYes, VoteNo, TypeOK
    <3> QED
      BY <3>1, <3>2 DEF OwnKey
  <2>7. ASSUME NEW who \in Users, NEW i \in Indices, ProcessProposal(who, i)
        PROVE  OwnKey'
    <3> DEFINE a == Proposal(i).applicant
               n == Proposal(i).shares_requested
    <3>1. CASE Fail(who, i)
      BY <2>1, <3>1 DEF Fail, membership
    <3>2. CASE Pass(who, i) /\ a \in DOMAIN Members
      <4>1. /\ Members' = MembersAfterPass(a, n)
            /\ AddressOfDelegates' = DelegatesAfterPass(a)
        BY <3>2 DEF Pass
      <4>2. DOMAIN Members' = DOMAIN Members
        BY <3>2, <4>1 DEF MembersAfterPass, TypeOK
      <4>3. AddressOfDelegates' = AddressOfDelegates
        BY <3>2, <4>1 DEF DelegatesAfterPass
      <4> QED
        BY <4>2, <4>3 DEF OwnKey
    <3>3. CASE Pass(who, i) /\ a \notin DOMAIN Members
      <4>1. /\ Members' = Put(WithKeyReset(a), a, NewMember(a, n))
            /\ AddressOfDelegates' = DelegatesAfterPass(a)
        BY <3>3 DEF Pass, MembersAfterPass
      <4> HIDE DEF a
      <4>2. CASE a \in DOMAIN AddressOfDelegates
        <5> DEFINE d == AddressOfDelegates[a]
        <5>1. DOMAIN Members' = DOMAIN Members \cup {d, a}
          BY <4>1, <4>2 DEF WithKeyReset, Put
        <5>2. AddressOfDelegates' = Put(Put(AddressOfDelegates, d, d), a, a)
          BY <3>3, <4>1, <4>2 DEF DelegatesAfterPass
        <5> HIDE DEF d
        <5>3. /\ DOMAIN AddressOfDelegates' = DOMAIN AddressOfDelegates \cup {d, a}
              /\ AddressOfDelegates'[a] = a
              /\ AddressOfDelegates'[d] = d
              /\ \A k \in DOMAIN AddressOfDelegates \ {d, a} :
                   AddressOfDelegates'[k] = AddressOfDelegates[k]
          BY <5>2 DEF Put
        <5> QED
          BY <5>1, <5>3 DEF OwnKey
      <4>3. CASE a \notin DOMAIN AddressOfDelegates
        <5>1. DOMAIN Members' = DOMAIN Members \cup {a}
          BY <4>1, <4>3 DEF WithKeyReset, Put
        <5>2. AddressOfDelegates' = Put(AddressOfDelegates, a, a)
          BY <3>3, <4>1, <4>3 DEF DelegatesAfterPass
        <5>3. /\ DOMAIN AddressOfDelegates' = DOMAIN AddressOfDelegates \cup {a}
              /\ AddressOfDelegates'[a] = a
              /\ \A k \in DOMAIN AddressOfDelegates \ {a} :
                   AddressOfDelegates'[k] = AddressOfDelegates[k]
          BY <5>2 DEF Put
        <5> QED
          BY <5>1, <5>3 DEF OwnKey
      <4> QED
        BY <4>2, <4>3
    <3> QED
      BY <2>7, <3>1, <3>2, <3>3 DEF ProcessProposal
  <2>8. ASSUME NEW who \in Users, NEW n \in 0 .. MaxShares, Ragequit(who, n)
        PROVE  OwnKey'
    <3>1. AddressOfDelegates' = AddressOfDelegates
      BY <2>8 DEF Ragequit
    <3>2. DOMAIN Members' = DOMAIN Members
      BY <2>8 DEF Ragequit, TypeOK
    <3> QED
      BY <3>1, <3>2 DEF OwnKey
  <2>9. ASSUME NEW who \in Users, NEW i \in Indices, Abort(who, i)
        PROVE  OwnKey'
    BY <2>1, <2>9 DEF Abort, membership
  <2>10. ASSUME NEW who \in Users, NEW key \in DelegateKeys,
                UpdateDelegate(who, key)
         PROVE  OwnKey'
    <3> DEFINE kept == Remove(AddressOfDelegates, MemberAt(who).delegate_key)
    <3>1. Members' = Members /\ AddressOfDelegates' = Put(kept, key, who)
      BY <2>10 DEF UpdateDelegate
    <3>2. key = who \/ key \notin DOMAIN Members
      BY <2>10 DEF UpdateDelegate, KeyIsFree
    <3>3. \A k \in DOMAIN kept : /\ k \in DOMAIN AddressOfDelegates
                                 /\ kept[k] = AddressOfDelegates[k]
      BY DEF Remove
    <3> HIDE DEF kept
    <3>4. /\ DOMAIN AddressOfDelegates' = DOMAIN kept \cup {key}
          /\ AddressOfDelegates'[key] = who
          /\ \A k \in DOMAIN kept \ {key} : AddressOfDelegates'[k] = kept[k]
      BY <3>1 DEF Put
    <3> QED
      BY <3>1, <3>2, <3>3, <3>4 DEF OwnKey
  <2>11. CASE Tick
    BY <2>1, <2>11 DEF Tick, membership
  <2> QED
    BY <2>2, <2>3, <2>4, <2>5, <2>6, <2>7, <2>8, <2>9, <2>10, <2>11
    DEF Next, CallOrTick
<1> QED
  BY <1>1, <1>2, TypeCorrect, PTL DEF Spec

-----------------------------------------------------------------------------
(* The founded DAO.                                                        *)

\* Before the summon there is nothing.
NoDaoYet ==
  DOMAIN Members = {} =>
    /\ ProposalQueue = << >>
    /\ DOMAIN ProposalVotes = {}
    /\ TotalShares = 0
    /\ TotalSharesRequested = 0

\* Votes are cast by members on proposals in the queue.
VotesOfMembers == DOMAIN ProposalVotes \subseteq Indices \X DOMAIN Members

\* Members are never removed, the proposal that locks a member's shares is
\* only ever replaced by a later one, and a member loses shares only when it
\* may quit.
LEMMA MembersGrow ==
  ASSUME TypeOK, [NextFounded]_vars
  PROVE  /\ DOMAIN Members \subseteq DOMAIN Members'
         /\ \A m \in DOMAIN Members :
              /\ Members'[m].highest_index_yes_vote
                   >= Members[m].highest_index_yes_vote
              /\ Members'[m].shares >= Members[m].shares \/ MayQuit(Members[m])
<1> DEFINE Grown ==
      /\ DOMAIN Members \subseteq DOMAIN Members'
      /\ \A m \in DOMAIN Members :
           /\ Members'[m].highest_index_yes_vote
                >= Members[m].highest_index_yes_vote
           /\ Members'[m].shares >= Members[m].shares \/ MayQuit(Members[m])
<1> SUFFICES Grown
  OBVIOUS
<1>1. \A m \in DOMAIN Members : /\ Members[m].highest_index_yes_vote \in Nat
                                /\ Members[m].shares \in Nat
                                /\ Members[m] \in MemberType
  BY NumberAssumption, WordAssumption DEF TypeOK, MemberType, Number
<1>2. ASSUME Members' = Members PROVE Grown
  BY <1>1, <1>2
<1>3. CASE UNCHANGED vars
  BY <1>2, <1>3 DEF vars, membership
<1>4. CASE Found
  BY <1>4 DEF Found
<1>5. ASSUME NEW who \in Users, NEW t \in Tributes, Custody(who, t)
      PROVE  Grown
  BY <1>2, <1>5 DEF Custody, membership
<1>6. ASSUME NEW who \in Users, NEW a \in Users, NEW t \in Tributes,
             NEW n \in ShareRequests, SubmitProposal(who, a, t, n)
      PROVE  Grown
  BY <1>2, <1>6 DEF SubmitProposal, membership
<1>7. ASSUME NEW who \in Users, NEW i \in Indices, SubmitVote(who, i)
      PROVE  Grown
  <2> DEFINE v == AddressOfDelegates[who]
  <2>1. CASE VoteNo(v, i)
    BY <1>2, <2>1 DEF VoteNo
  <2>2. CASE VoteYes(v, i)
    <3>1. Members' = [Members EXCEPT ![v] = RaiseHighest(Members[v], i)]
      BY <2>2 DEF VoteYes
    <3>2. v \in DOMAIN Members /\ i \in Nat
      BY <1>7, ActingType, QueueTypes DEF SubmitVote
    <3>3. /\ RaiseHighest(Members[v], i).highest_index_yes_vote
               >= Members[v].highest_index_yes_vote
          /\ RaiseHighest(Members[v], i).shares = Members[v].shares
      BY <1>1, <3>2 DEF RaiseHighest, MemberType
    <3> HIDE DEF v
    <3> QED
      BY <1>1, <3>1, <3>2, <3>3
  <2> QED
    BY <1>7, <2>1, <2>2 DEF SubmitVote
<1>8. ASSUME NEW who \in Users, NEW i \in Indices, ProcessProposal(who, i)
      PROVE  Grown
  <2> DEFINE a == Proposal(i).applicant
             n == Proposal(i).shares_requested
  <2>1. n \in Nat
    BY QueueTypes, NumberAssumption, WordAssumption DEF ProposalType, Number
  <2>2. CASE Fail(who, i)
    BY <1>2, <2>2 DEF Fail, membership
  <2>3. CASE Pass(who, i)
    <3>1. Members' = MembersAfterPass(a, n)
      BY <2>3 DEF Pass
    <3> HIDE DEF a, n
    <3>2. CASE a \in DOMAIN Members
      <4>1. Members' = [Members EXCEPT ![a].shares = @ + n]
        BY <3>1, <3>2 DEF MembersAfterPass
      <4> DEFINE r == [Members[a] EXCEPT !.shares = @ + n]
      <4>2. /\ r.highest_index_yes_vote = Members[a].highest_index_yes_vote
            /\ r.shares >= Members[a].shares
        BY <1>1, <2>1, <3>2 DEF MemberType
      <4>3. Members' = [Members EXCEPT ![a] = r]
        BY <4>1
      <4> HIDE DEF r
      <4> QED
        BY <1>1, <3>2, <4>2, <4>3
    <3>3. CASE a \notin DOMAIN Members
      <4>1. /\ DOMAIN Members \subseteq DOMAIN WithKeyReset(a)
            /\ \A m \in DOMAIN Members :
                 /\ WithKeyReset(a)[m].highest_index_yes_vote
                      = Members[m].highest_index_yes_vote
                 /\ WithKeyReset(a)[m].shares = Members[m].shares
        <5>1. CASE a \notin DOMAIN AddressOfDelegates
          BY <5>1 DEF WithKeyReset
        <5>2. CASE a \in DOMAIN AddressOfDelegates
          <6> DEFINE d == AddressOfDelegates[a]
                     r == [MemberAt(d) EXCEPT !.delegate_key = d]
          <6>1. WithKeyReset(a) = Put(Members, d, r)
            BY <5>2 DEF WithKeyReset
          <6>2. d \in DOMAIN Members =>
                  /\ r.highest_index_yes_vote = Members[d].highest_index_yes_vote
                  /\ r.shares = Members[d].shares
            BY <1>1 DEF MemberAt, Get, MemberType
          <6> HIDE DEF d, r
          <6> QED
            BY <6>1, <6>2 DEF Put
        <5> QED
          BY <5>1, <5>2
      <4>2. Members' = Put(WithKeyReset(a), a, NewMember(a, n))
        BY <3>1, <3>3 DEF MembersAfterPass
      <4>3. /\ DOMAIN WithKeyReset(a) \subseteq DOMAIN Members'
            /\ \A m \in DOMAIN Members : Members'[m] = WithKeyReset(a)[m]
        BY <3>3, <4>1, <4>2 DEF Put
      <4> QED
        BY <1>1, <4>1, <4>3
    <3> QED
      BY <3>2, <3>3
  <2> QED
    BY <1>8, <2>2, <2>3 DEF ProcessProposal
<1>9. ASSUME NEW who \in Users, NEW n \in 0 .. MaxShares, Ragequit(who, n)
      PROVE  Grown
  <2>1. Members' = [Members EXCEPT ![who].shares = @ - n]
    BY <1>9 DEF Ragequit
  <2>2. who \in DOMAIN Members /\ MayQuit(Members[who])
    BY <1>9 DEF Ragequit
  <2>3. [Members[who] EXCEPT !.shares = @ - n].highest_index_yes_vote
          = Members[who].highest_index_yes_vote
    BY <1>1, <2>2 DEF MemberType
  <2> QED
    BY <1>1, <2>1, <2>2, <2>3
<1>10. ASSUME NEW who \in Users, NEW i \in Indices, Abort(who, i)
       PROVE  Grown
  BY <1>2, <1>10 DEF Abort, membership
<1>11. ASSUME NEW who \in Users, NEW key \in DelegateKeys,
              UpdateDelegate(who, key)
       PROVE  Grown
  BY <1>2, <1>11 DEF UpdateDelegate
<1>12. CASE Tick
  BY <1>2, <1>12 DEF Tick, membership
<1> HIDE DEF Grown
<1> QED
  BY <1>3, <1>4, <1>5, <1>6, <1>7, <1>8, <1>9, <1>10, <1>11, <1>12
  DEF NextFounded, CallOrTick

\* Casts(i, m, v): member m casts vote v on proposal i.
Casts(i, m, v) ==
  /\ ProposalVotes' = Put(ProposalVotes, <<i, m>>, v)
  /\ v = 1 => Members'[m].highest_index_yes_vote >= i

\* Only submit_vote adds a vote, for a member, and a yes vote locks the
\* member's shares (lib.rs:349-357).
LEMMA VotesStep ==
  ASSUME TypeOK, [NextFounded]_vars
  PROVE  \/ ProposalVotes' = ProposalVotes
         \/ \E i \in Indices, m \in DOMAIN Members, v \in {1, 2} : Casts(i, m, v)
<1>1. ASSUME NEW who \in Users, NEW i \in Indices, SubmitVote(who, i)
      PROVE  \E m \in DOMAIN Members, v \in {1, 2} : Casts(i, m, v)
  <2> DEFINE m == AddressOfDelegates[who]
  <2>1. m \in DOMAIN Members /\ Members[m] \in MemberType /\ i \in Nat
    BY <1>1, ActingType, QueueTypes DEF SubmitVote
  <2>2. CASE VoteYes(m, i)
    <3>1. Members' = [Members EXCEPT ![m] = RaiseHighest(Members[m], i)]
      BY <2>2 DEF VoteYes
    <3>2. RaiseHighest(Members[m], i).highest_index_yes_vote >= i
      BY <2>1 DEF RaiseHighest, MemberType
    <3>3. Casts(i, m, 1)
      BY <2>1, <2>2, <3>1, <3>2 DEF VoteYes, Casts
    <3> QED
      BY <2>1, <3>3
  <2>3. CASE VoteNo(m, i)
    <3>1. Casts(i, m, 2)
      BY <2>3 DEF VoteNo, Casts
    <3> QED
      BY <2>1, <3>1
  <2> QED
    BY <1>1, <2>2, <2>3 DEF SubmitVote
<1>2. ASSUME NEW who \in Users, NEW s \in SummonSettings, Summon(who, s)
      PROVE  ProposalVotes' = ProposalVotes
  BY <1>2 DEF Summon, queue
<1>3. CASE Found
  BY <1>2, <1>3 DEF Found
<1>4. CASE UNCHANGED vars \/ Tick
  BY <1>4 DEF vars, queue, Tick
<1>5. ASSUME NEW who \in Users, NEW i \in Indices,
             ProcessProposal(who, i) \/ Abort(who, i)
      PROVE  ProposalVotes' = ProposalVotes
  BY <1>5 DEF ProcessProposal, Abort
<1>6. ASSUME NEW who \in Users, NEW t \in Tributes, Custody(who, t)
      PROVE  ProposalVotes' = ProposalVotes
  BY <1>6 DEF Custody, queue
<1>7. ASSUME NEW who \in Users, NEW a \in Users, NEW t \in Tributes,
             NEW n \in ShareRequests, SubmitProposal(who, a, t, n)
      PROVE  ProposalVotes' = ProposalVotes
  BY <1>7 DEF SubmitProposal
<1>8. ASSUME NEW who \in Users, NEW n \in 0 .. MaxShares, Ragequit(who, n)
      PROVE  ProposalVotes' = ProposalVotes
  BY <1>8 DEF Ragequit, queue
<1>9. ASSUME NEW who \in Users, NEW key \in DelegateKeys,
             UpdateDelegate(who, key)
      PROVE  ProposalVotes' = ProposalVotes
  BY <1>9 DEF UpdateDelegate, queue
<1> QED
  BY <1>1, <1>3, <1>4, <1>5, <1>6, <1>7, <1>8, <1>9 DEF NextFounded, CallOrTick

LEMMA NoDaoYetStep ==
  ASSUME TypeOK, NoDaoYet, [NextFounded]_vars
  PROVE  NoDaoYet'
<1> SUFFICES ASSUME DOMAIN Members' = {}
             PROVE  /\ ProposalQueue' = << >>
                    /\ DOMAIN ProposalVotes' = {}
                    /\ TotalShares' = 0
                    /\ TotalSharesRequested' = 0
  BY DEF NoDaoYet
<1>1. /\ DOMAIN Members = {}
      /\ ProposalQueue = << >>
      /\ DOMAIN ProposalVotes = {}
      /\ TotalShares = 0
      /\ TotalSharesRequested = 0
  BY MembersGrow DEF NoDaoYet
<1>2. Indices = {}
  BY <1>1 DEF Indices
<1>3. ASSUME UNCHANGED <<shares, queue>>
      PROVE  /\ ProposalQueue' = << >>
             /\ DOMAIN ProposalVotes' = {}
             /\ TotalShares' = 0
             /\ TotalSharesRequested' = 0
  BY <1>1, <1>3 DEF shares, queue
<1>4. CASE UNCHANGED vars
  BY <1>3, <1>4 DEF vars
<1>5. CASE Found
  <2>1. \E who \in Users, s \in SummonSettings :
          Members' = Put(Members, who, NewMember(who, 1))
    BY <1>5 DEF Found, Summon
  <2> QED
    BY <2>1 DEF Put
<1>6. CASE CallOrTick
  <2>1. ASSUME NEW who \in Users PROVE ~ActsForMember(who)
    BY <1>1, <2>1, ActingType
  <2>2. CASE \E who \in Users, t \in Tributes : Custody(who, t)
    BY <1>3, <2>2 DEF Custody
  <2>3. CASE \E who \in Users, key \in DelegateKeys : UpdateDelegate(who, key)
    BY <1>3, <2>3 DEF UpdateDelegate
  <2>4. CASE Tick
    BY <1>3, <2>4 DEF Tick
  <2>5. ASSUME NEW who \in Users, NEW n \in 0 .. MaxShares
        PROVE  ~Ragequit(who, n)
    BY <1>1 DEF Ragequit
  <2>6. ASSUME NEW who \in Users, NEW a \in Users, NEW t \in Tributes,
               NEW n \in ShareRequests
        PROVE  ~SubmitProposal(who, a, t, n)
    BY <2>1 DEF SubmitProposal
  <2> QED
    BY <1>2, <1>6, <2>2, <2>3, <2>4, <2>5, <2>6 DEF CallOrTick
<1> QED
  BY <1>4, <1>5, <1>6 DEF NextFounded

LEMMA FoundedInit == Init => NoDaoYet /\ VotesOfMembers /\ YesVotersLocked
BY DEF Init, Unsummoned, NoDaoYet, VotesOfMembers, YesVotersLocked,
       EmptyMap, Indices

\* Indices only grow.
LEMMA IndicesGrow ==
  ASSUME TypeOK, [Next]_vars
  PROVE  Indices \subseteq Indices'
<1>1. CASE Keeps
  BY <1>1 DEF Keeps, Indices
<1>2. ASSUME NEW p \in ProposalType, Appends(p)
      PROVE  Indices \subseteq Indices'
  BY <1>2, AppendKeeps DEF Indices
<1> QED
  BY <1>1, <1>2, QueueStep

LEMMA VotesOfMembersStep ==
  ASSUME TypeOK, VotesOfMembers, [NextFounded]_vars
  PROVE  VotesOfMembers'
<1>1. DOMAIN Members \subseteq DOMAIN Members' /\ Indices \subseteq Indices'
  BY MembersGrow, IndicesGrow, FoundedIsNext
<1>2. CASE ProposalVotes' = ProposalVotes
  BY <1>1, <1>2 DEF VotesOfMembers
<1>3. ASSUME NEW i \in Indices, NEW m \in DOMAIN Members, NEW v \in {1, 2},
             Casts(i, m, v)
      PROVE  VotesOfMembers'
  <2>1. DOMAIN ProposalVotes' = DOMAIN ProposalVotes \cup {<<i, m>>}
    BY <1>3 DEF Casts, Put
  <2> QED
    BY <1>1, <2>1 DEF VotesOfMembers
<1> QED
  BY <1>2, <1>3, VotesStep

LEMMA YesVotersLockedStep ==
  ASSUME TypeOK, VotesOfMembers, YesVotersLocked, [NextFounded]_vars
  PROVE  YesVotersLocked'
<1> SUFFICES ASSUME NEW m \in DOMAIN Members', NEW i \in Indices',
                    <<i, m>> \in DOMAIN ProposalVotes',
                    ProposalVotes'[<<i, m>>] = 1
             PROVE  i <= Members'[m].highest_index_yes_vote
  BY DEF YesVotersLocked, VotedYes
<1>1. ASSUME <<i, m>> \in DOMAIN ProposalVotes, ProposalVotes[<<i, m>>] = 1
      PROVE  i <= Members'[m].highest_index_yes_vote
  <2>1. i \in Indices /\ m \in DOMAIN Members
    BY <1>1 DEF VotesOfMembers
  <2>2. i <= Members[m].highest_index_yes_vote
    BY <1>1, <2>1 DEF YesVotersLocked, VotedYes
  <2>3. Members'[m].highest_index_yes_vote >= Members[m].highest_index_yes_vote
    BY <2>1, MembersGrow
  <2>4. /\ i \in Nat
        /\ Members[m].highest_index_yes_vote \in Nat
        /\ Members'[m].highest_index_yes_vote \in Nat
    <3>1. TypeOK'
      BY TypeNext, FoundedIsNext
    <3>2. Members[m] \in MemberType /\ Members'[m] \in MemberType
      BY <2>1, <3>1 DEF TypeOK
    <3> QED
      BY <2>1, <3>2, QueueTypes DEF MemberType
  <2> QED
    BY <2>2, <2>3, <2>4
<1>2. ASSUME NEW j \in Indices, NEW k \in DOMAIN Members, NEW v \in {1, 2},
             Casts(j, k, v)
      PROVE  i <= Members'[m].highest_index_yes_vote
  <2>1. CASE i = j /\ m = k
    <3>1. v = 1
      BY <1>2, <2>1 DEF Casts, Put
    <3>2. Members'[m].highest_index_yes_vote >= i
      BY <1>2, <2>1, <3>1 DEF Casts
    <3>3. i \in Nat /\ Members'[m].highest_index_yes_vote \in Nat
      <4>1. TypeOK'
        BY TypeNext, FoundedIsNext
      <4>2. Members'[m] \in MemberType
        BY <4>1 DEF TypeOK
      <4> QED
        BY <2>1, <4>2, QueueTypes DEF MemberType
    <3> QED
      BY <3>2, <3>3
  <2>2. CASE <<i, m>> # <<j, k>>
    BY <1>1, <1>2, <2>2 DEF Casts, Put
  <2> QED
    BY <2>1, <2>2
<1> QED
  BY <1>1, <1>2, VotesStep

\* In the founded DAO highest_index_yes_vote covers all of a member's yes
\* votes, in whatever order they were cast (lib.rs:353-357).
THEOREM VotersStayLocked == SpecFounded => []YesVotersLocked
<1> DEFINE Inv == TypeOK /\ VotesOfMembers /\ YesVotersLocked
<1>1. Init => Inv
  BY TypeInit, FoundedInit
<1>2. Inv /\ [NextFounded]_vars => Inv'
  BY TypeNext, FoundedIsNext, VotesOfMembersStep, YesVotersLockedStep
<1>3. Inv => YesVotersLocked
  OBVIOUS
<1> QED
  BY <1>1, <1>2, <1>3, PTL DEF SpecFounded

LEMMA QueueInOrderFounded == SpecFounded => []ProcessedInOrder
BY QueueInOrder, FoundedIsNext, PTL DEF Spec, SpecFounded

\* ragequit looks at the proposal with the highest index only
\* (lib.rs:480-484); as the processed proposals are a prefix of the queue and
\* the highest index covers all yes votes, no share that voted yes on a
\* pending proposal is burned.
THEOREM QuitAfterProcessing == SpecFounded => RagequitAfterProcessing
<1>1. TypeOK /\ ProcessedInOrder /\ YesVotersLocked /\ [NextFounded]_vars
        => [\A m \in DOMAIN Members :
              Members'[m].shares < Members[m].shares =>
                \A i \in Indices : VotedYes(m, i) => Proposal(i).processed]_vars
  <2> SUFFICES ASSUME TypeOK, ProcessedInOrder, YesVotersLocked,
                      [NextFounded]_vars, NEW m \in DOMAIN Members,
                      Members'[m].shares < Members[m].shares,
                      NEW i \in Indices, VotedYes(m, i)
               PROVE  Proposal(i).processed
    OBVIOUS
  <2> DEFINE h == Members[m].highest_index_yes_vote
  <2>1. DOMAIN Members \subseteq DOMAIN Members' /\ TypeOK'
    BY MembersGrow, TypeNext, FoundedIsNext
  <2>2. Members[m] \in MemberType /\ Members'[m] \in MemberType
    BY <2>1 DEF TypeOK
  <2>3. Members[m].shares \in Nat /\ Members'[m].shares \in Nat /\ h \in Nat
    BY <2>2, NumberAssumption, WordAssumption DEF MemberType, Number
  <2>4. MayQuit(Members[m])
    BY <2>3, MembersGrow
  <2>5. h \in Indices /\ Proposal(h).processed
    BY <2>3, <2>4 DEF MayQuit, Indices, TypeOK
  <2>6. i <= h
    BY DEF YesVotersLocked
  <2> QED
    BY <2>5, <2>6 DEF ProcessedInOrder
<1> QED
  BY <1>1, TypeCorrectFounded, QueueInOrderFounded, VotersStayLocked, PTL
  DEF SpecFounded, RagequitAfterProcessing

\* submit_proposal's comparison with MaxShares (lib.rs:282) bounds the shares
\* for good: processing moves requested shares to issued ones or drops them.
LEMMA SharesWithinMaxStep ==
  ASSUME TypeOK, NoDaoYet, SharesWithinMax, [NextFounded]_vars
  PROVE  SharesWithinMax'
<1>1. TotalShares \in Nat /\ TotalSharesRequested \in Nat
  BY NumberAssumption, WordAssumption DEF TypeOK, Number
<1>2. ASSUME UNCHANGED shares PROVE SharesWithinMax'
  BY <1>2 DEF SharesWithinMax, shares
<1>3. CASE UNCHANGED vars
  BY <1>2, <1>3 DEF vars
<1>4. CASE Found
  <2>1. TotalShares' = 1 /\ TotalSharesRequested' = 0
    BY <1>4 DEF Found, Summon, NoDaoYet
  <2> QED
    BY <2>1, NumberAssumption, WordAssumption DEF SharesWithinMax, Number
<1>5. ASSUME NEW who \in Users, NEW a \in Users, NEW t \in Tributes,
             NEW n \in ShareRequests, SubmitProposal(who, a, t, n)
      PROVE  SharesWithinMax'
  <2>1. n \in Nat
    BY InputAssumption, NumberAssumption, WordAssumption DEF Number
  <2> QED
    BY <1>1, <1>5, <2>1, NumberAssumption, WordAssumption
    DEF SubmitProposal, FitsMaxShares, SharesWithinMax, Number
<1>6. ASSUME NEW who \in Users, NEW i \in Indices, ProcessProposal(who, i)
      PROVE  SharesWithinMax'
  <2> DEFINE n == Proposal(i).shares_requested
  <2>1. n \in Nat
    BY QueueTypes, NumberAssumption, WordAssumption DEF ProposalType, Number
  <2>2. /\ TotalSharesRequested' = TotalSharesRequested - n
        /\ TotalSharesRequested - n >= 0
    BY <1>6 DEF ProcessProposal, RequestedWithout
  <2>3. TotalShares' = TotalShares + n \/ TotalShares' = TotalShares
    BY <1>6 DEF ProcessProposal, Pass, Fail
  <2> HIDE DEF n
  <2> QED
    BY <1>1, <2>1, <2>2, <2>3, NumberAssumption, WordAssumption DEF SharesWithinMax, Number
<1>7. ASSUME NEW who \in Users, NEW n \in 0 .. MaxShares, Ragequit(who, n)
      PROVE  SharesWithinMax'
  BY <1>1, <1>7, NumberAssumption, WordAssumption DEF Ragequit, SharesWithinMax, Number
<1>8. ASSUME NEW who \in Users, NEW i \in Indices,
             SubmitVote(who, i) \/ Abort(who, i)
      PROVE  SharesWithinMax'
  BY <1>2, <1>8 DEF SubmitVote, Abort
<1>9. CASE Tick \/ \E who \in Users, t \in Tributes : Custody(who, t)
  BY <1>2, <1>9 DEF Tick, Custody
<1>10. CASE \E who \in Users, key \in DelegateKeys : UpdateDelegate(who, key)
  BY <1>2, <1>10 DEF UpdateDelegate
<1> QED
  BY <1>3, <1>4, <1>5, <1>6, <1>7, <1>8, <1>9, <1>10
  DEF NextFounded, CallOrTick

\* The shares issued and requested in a founded DAO stay within MaxShares:
\* submit_proposal is the only call that adds to them, and it looks at both
\* (lib.rs:280-282); a request that passes moves from one to the other
\* (lib.rs:388, 437).
THEOREM SharesBounded == SpecFounded => []SharesWithinMax
<1> DEFINE Inv == TypeOK /\ NoDaoYet /\ SharesWithinMax
<1>1. Init => Inv
  BY TypeInit, FoundedInit, NumberAssumption, WordAssumption
  DEF Init, Unsummoned, SharesWithinMax, Number
<1>2. Inv /\ [NextFounded]_vars => Inv'
  BY TypeNext, FoundedIsNext, NoDaoYetStep, SharesWithinMaxStep
<1>3. Inv => SharesWithinMax
  OBVIOUS
<1> QED
  BY <1>1, <1>2, <1>3, PTL DEF SpecFounded

-----------------------------------------------------------------------------
(* The guild bank.                                                         *)

\* A payment that must keep its sender alive leaves the guild bank with the
\* existential deposit.
LEMMA GuildPaysKeeps ==
  ASSUME NEW b \in [AccountIds -> Nat], NEW to \in AccountIds, NEW value \in Nat,
         b[GuildAccount] >= ExistentialDeposit
  PROVE  /\ GuildPays(b, to, value) \in [AccountIds -> Nat]
         /\ GuildPays(b, to, value)[GuildAccount] >= ExistentialDeposit
<1>1. GuildPays(b, to, value) \in [AccountIds -> Nat]
  BY TransferType, AccountTypes DEF GuildPays
<1>2. b[GuildAccount] \in Nat /\ GuildAccount \in AccountIds
  BY AccountTypes
<1>3. GuildPays(b, to, value)[GuildAccount] >= ExistentialDeposit
  <2>1. CASE CanTransfer(b, GuildAccount, to, value, KeepAlive)
    <3>1. b[GuildAccount] - value >= ExistentialDeposit
      BY <2>1 DEF CanTransfer
    <3>2. Remainder(b[GuildAccount], value) >= ExistentialDeposit
      BY <1>2, <3>1, ExistentialDepositAssumption DEF Remainder
    <3> QED
      BY <1>2, <3>2 DEF GuildPays, Transfer
  <2>2. CASE ~CanTransfer(b, GuildAccount, to, value, KeepAlive)
    BY <2>2 DEF GuildPays, Transfer
  <2> QED
    BY <2>1, <2>2
<1> QED
  BY <1>1, <1>3

\* A transfer from another account takes nothing from the guild bank.
LEMMA OthersPayKeeps ==
  ASSUME NEW b \in [AccountIds -> Nat], NEW from \in AccountIds \ {GuildAccount},
         NEW to \in AccountIds, NEW value \in Nat, NEW requirement
  PROVE  /\ Transfer(b, from, to, value, requirement) \in [AccountIds -> Nat]
         /\ Transfer(b, from, to, value, requirement)[GuildAccount]
              >= b[GuildAccount]
<1>1. b[GuildAccount] \in Nat /\ GuildAccount \in AccountIds
  BY AccountTypes
<1>2. Transfer(b, from, to, value, requirement) \in [AccountIds -> Nat]
  BY TransferType
<1> QED
  BY <1>1, <1>2 DEF Transfer

\* Deposits only come in, and rewards, returned deposits and the shares of a
\* ragequit are paid with KeepAlive (lib.rs:457-460, 497): no sequence of
\* calls, by whomever, reaps the guild bank.
THEOREM GuildStaysAlive == Spec => GuildKeptAlive
<1> DEFINE Alive(b) == b[GuildAccount] >= ExistentialDeposit
<1>1. TypeOK /\ [Next]_vars => [Alive(balances) => Alive(balances')]_vars
  <2> SUFFICES ASSUME TypeOK, [Next]_vars, Alive(balances)
               PROVE  Alive(balances')
    OBVIOUS
  <2>1. /\ balances \in [AccountIds -> Nat] /\ balances[GuildAccount] \in Nat
        /\ ExistentialDeposit \in Nat
    BY AccountTypes, ExistentialDepositAssumption DEF TypeOK
  <2>2. CASE UNCHANGED balances
    BY <2>2
  <2>3. ASSUME NEW b \in [AccountIds -> Nat], b[GuildAccount] >= balances[GuildAccount]
        PROVE  Alive(b)
    BY <2>1, <2>3, AccountTypes
  <2>4. /\ settings.proposal_deposit \in Number
        /\ settings.processing_reward \in Number
        /\ settings.proposal_deposit \in Nat
        /\ settings.processing_reward \in Nat
    BY NumberAssumption, WordAssumption DEF TypeOK, SettingsType, Number
  <2>5. Users \subseteq AccountIds \ {GuildAccount}
        /\ CustodyAccount \in AccountIds \ {GuildAccount}
    BY AccountTypes, AccountAssumption
  <2>6. ASSUME NEW who \in Users, NEW t \in Tributes, Custody(who, t)
        PROVE  Alive(balances')
    <3>1. t \in Nat
      BY InputAssumption, NumberAssumption, WordAssumption DEF Number
    <3> QED
      BY <2>1, <2>3, <2>5, <2>6, <3>1, OthersPayKeeps DEF Custody
  <2>7. ASSUME NEW who \in Users, NEW a \in Users, NEW t \in Tributes,
               NEW n \in ShareRequests, SubmitProposal(who, a, t, n)
        PROVE  Alive(balances')
    BY <2>1, <2>3, <2>4, <2>5, <2>7, OthersPayKeeps, AccountTypes
    DEF SubmitProposal, DepositPaid
  <2>8. ASSUME NEW who \in Users, NEW i \in Indices, ProcessProposal(who, i)
        PROVE  Alive(balances')
    <3> DEFINE p == Proposal(i)
    <3>1. p \in ProposalType
      BY QueueTypes
    <3>2. /\ p.proposer \in AccountIds /\ p.applicant \in AccountIds
          /\ p.token_tribute \in Nat
      BY <3>1, NumberAssumption, WordAssumption DEF ProposalType, Number
    <3> HIDE DEF p
    <3>3. ASSUME NEW to \in AccountIds PROVE Alive(BalancesAfterProcess(who, p, to))
      <4> DEFINE tributed == Transfer(balances, CustodyAccount, to,
                                      p.token_tribute, AllowDeath)
                 rewarded == GuildPays(tributed, who, settings.processing_reward)
                 rest == Sub(settings.proposal_deposit, settings.processing_reward)
      <4>1. tributed \in [AccountIds -> Nat] /\ Alive(tributed)
        BY <2>1, <2>3, <2>5, <3>2, OthersPayKeeps
      <4>2. rewarded \in [AccountIds -> Nat] /\ Alive(rewarded)
        <5> HIDE DEF tributed
        <5> QED
          BY <2>4, <4>1, GuildPaysKeeps, AccountTypes
      <4>3. rest \in Nat
        <5>1. rest \in Number
          BY <2>4, SubType
        <5> QED
          BY <5>1, WordAssumption DEF Number
      <4>4. Alive(GuildPays(rewarded, p.proposer, rest))
        <5> HIDE DEF rewarded, rest
        <5> QED
          BY <3>2, <4>2, <4>3, GuildPaysKeeps
      <4> QED
        BY <4>4 DEF BalancesAfterProcess
    <3>4. \E to \in AccountIds : balances' = BalancesAfterProcess(who, p, to)
      BY <2>8, <3>2, AccountTypes DEF ProcessProposal, Pass, Fail, p
    <3> HIDE DEF Alive
    <3> QED
      BY <3>3, <3>4
  <2>9. ASSUME NEW who \in Users, NEW n \in 0 .. MaxShares, Ragequit(who, n)
        PROVE  Alive(balances')
    <3> DEFINE v == (balances[GuildAccount] * n) \div TotalShares
    <3>1. n \in Nat /\ TotalShares \in Nat /\ TotalShares > 0
      BY <2>9, NumberAssumption, WordAssumption DEF Ragequit, TypeOK, Number
    <3>2. balances[GuildAccount] * n \in Nat
      BY <2>1, <3>1
    <3>3. v \in Nat
      BY <3>1, <3>2, DivType
    <3>4. balances' = GuildPays(balances, who, v)
      BY <2>9 DEF Ragequit
    <3> HIDE DEF v
    <3> QED
      BY <2>1, <3>3, <3>4, GuildPaysKeeps, AccountTypes
  <2>10. ASSUME NEW who \in Users, NEW i \in Indices, Abort(who, i)
         PROVE  Alive(balances')
    <3>1. Proposal(i).token_tribute \in Nat
      BY QueueTypes, NumberAssumption, WordAssumption DEF ProposalType, Number
    <3> QED
      BY <2>1, <2>3, <2>5, <2>10, <3>1, OthersPayKeeps, AccountTypes DEF Abort
  <2>11. CASE UNCHANGED vars \/ Tick
    BY <2>2, <2>11 DEF vars, Tick
  <2>12. ASSUME NEW who \in Users, NEW s \in SummonSettings, Summon(who, s)
         PROVE  Alive(balances')
    BY <2>2, <2>12 DEF Summon
  <2>13. ASSUME NEW who \in Users, NEW i \in Indices, SubmitVote(who, i)
         PROVE  Alive(balances')
    BY <2>2, <2>13 DEF SubmitVote
  <2>14. ASSUME NEW who \in Users, NEW key \in DelegateKeys,
                UpdateDelegate(who, key)
         PROVE  Alive(balances')
    BY <2>2, <2>14 DEF UpdateDelegate
  <2> HIDE DEF Alive
  <2> QED
    BY <2>6, <2>7, <2>8, <2>9, <2>10, <2>11, <2>12, <2>13, <2>14
    DEF Next, CallOrTick
<1> QED
  BY <1>1, TypeCorrect, PTL DEF Spec, GuildKeptAlive

=============================================================================
