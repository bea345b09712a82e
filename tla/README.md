# A formal model of Substrate-Moloch-V1

The repository is a Substrate 2.0.1 chain with two pallets of its own: a DAO
(`src/pallets/moloch-v1`) and quadratic funding
(`src/pallets/quadratic-funding`). This directory holds TLA+ modules of both
pallets, of the runtime that composes them and of the forks a client of the
chain lives with, TLC configurations that check them on small instances, and
TLAPS proofs, for every value of the constants, of all safety properties that
the runs find to hold: of the two pallets, of the runtime and of the forks.

    tlc -config shares.cfg MCMolochV1.tla        # a run
    tlapm QuadraticFundingProofs.tla             # the proofs of a module

## The system

| Part | State | Operations | Modelled by |
| --- | --- | --- | --- |
| DAO pallet, `pallets/moloch-v1/src/lib.rs` | settings, members, delegate keys, proposal queue, votes, tribute records, share totals | `summon`, `custody`, `submit_proposal`, `submit_vote`, `process_proposal`, `ragequit`, `abort`, `update_delegate` | `MolochV1` |
| Funding pallet, `pallets/quadratic-funding/src/lib.rs` | rounds, projects, votes | `start_round`, `end_round`, `register_project`, `vote`, `donate` | `QuadraticFunding` |
| Currency (`pallet_balances`, external) | free balances | `transfer`, `free_balance` | `Balances` |
| Storage maps (`frame_support`, external) | - | `get`, `insert`, `remove` | `Storage` |
| `u128` arithmetic | - | plain and checked operators | `Unsigned` |
| Queries of the funding pallet (`rpc`, `runtime-api`) | none | `vote_cost`, `projects_per_round` | `FundingQueries` |
| Runtime (`runtime/src`) | balances of all accounts, nonces, the sudo key | genesis, the calls of the pallets, `sudo`, `sudo_as`, `set_key`, `transfer`, `transfer_keep_alive`, `force_transfer`, `set_balance`, charge, refusal, panic | `Runtime` |
| Node (`node/src`), stock template | the best and the finalized chain | genesis, authoring, finalization, change of the best chain; RPC | `Forks`, `Init` and `Quoted` of `Runtime` |
| Command line, service wiring, mocks | none of the program | - | not modelled |

The pallets do not call each other. Both call `Currency::transfer` and discard
the result (`let _ =`). The DAO pallet also reads the block's timestamp, the
custody and guild balances, and its settings. The runtime executes one
extrinsic at a time; a call that returns an error or panics leaves no state of
the pallets behind. Therefore every call is one action. What is interleaved is
the calls of different accounts and the blocks, and this is where the hard
behaviour is:

* `process_proposal` may be called by anybody, at any time from the end of the
  grace period, and everybody waits for the head of the queue;
* the lock on a yes voter's shares is one number, which has to stand for all
  the votes of a member;
* totals (`TotalShares`, `TotalSharesRequested`, `total_support_area`) are kept
  beside what they sum up;
* a transfer that fails is not noticed by the call that made it;
* plain `-` and `+` wrap in a release build and panic in a debug build, while
  `checked_*().unwrap()` panics in both;
* `summon` can be called again at any time by anybody;
* a signed extrinsic is a message: it may be late, lost, sent again by anybody
  or overtaken, and the nonce that orders the extrinsics of an account goes
  when the account is reaped;
* a query is answered at the best block, which may not become final, and acted
  upon later.

What makes each part correct: the queue is processed in order and once; shares
are neither created nor lost but by passing, ragequit and summon, and never
exceed `MaxShares`; the shares behind a yes vote stay until the proposal is
processed; delegate keys do not shadow members; the queue does not get stuck;
the numbers of a round are those of the quadratic funding formula; the fund
account can pay what it owes; what a query announces is what is charged or
paid; and an extrinsic is applied once and takes nobody's money but its
signer's, or that of an account which the sudo key names in it. The `hazards`
in `PROJECT.json` name the line at which each of these could go wrong; a hazard
without a property has a note that says why.

## Modules

* `Storage`, `Balances`, `Unsigned` - the external parts, from how the pallets
  use them. `Transfer` returns the balances after a transfer, which are the old
  ones if it fails; it knows the existential deposit, `KeepAlive`,
  `AllowDeath`, and the dust a reaped account loses.
* `MolochV1` - the DAO pallet. A storage item is the variable of the same name;
  the seven items `summon` stores its arguments in are one record `settings`,
  `balances` stands for the currency and `now` for `pallet_timestamp` in
  milliseconds. There is one action per call, named after it in camel case, and
  `Tick` for a new block. `ProcessProposal` has a disjunct for a proposal that
  passes (`Pass`) and one for a proposal that fails (`Fail`).
* `MolochV1Properties` - its properties, and the refinement mapping to
  `ProposalLifecycle`.
* `ProposalLifecycle` - what the DAO promises about shares, without members,
  votes, money or time: a queue of requests that are settled once and in order,
  and a supply that only passing requests increase.
* `DataProofs` - lemmas of the proofs below: what `Put`, `Transfer`, `Sub` and
  `Add` return; that a sum over a finite set is the number of tokens in a set
  with as many tokens for each element as its number says, how it changes with
  one summand, and when sums may be added, split and scaled.
* `MolochV1Proofs`, `MolochV1QueueProofs`, `MolochV1LifecycleProofs` - the
  theorems about the DAO: types, order, locks and the guild bank; what is final
  and the sums; the refinement of `ProposalLifecycle`. Each module extends the
  ones before it.
* `QuadraticFundingProofs`, `FundingPayoutProofs` - the theorems about the
  funding pallet: its numbers and its solvency; what the end of a round pays.
* `QuadraticFunding`, `QuadraticFundingProperties` - the funding pallet and its
  properties. Project hashes are numbered in the order in which `iter_prefix`
  visits them; this order is fixed, and hashes are chosen freely by the
  callers, so numbering them loses nothing. `start_round` and `end_round` have
  no caller: `AdminOrigin` is the root.
* `FundingQueries` - the two queries with their conversions to `u32`.
  `VoteCostAnswered` and `RanksAnswered` say when the RPC has an answer and not
  an error.
* `Runtime` - both pallets, as instances of their modules, over one variable
  `balances`, behind signed extrinsics. `Sign` puts an extrinsic into the set
  `signed`, from which nothing is ever removed; `Charge` takes nonce and fee;
  `Dispatch` is the call itself; `Refuse` and `Panic` are what becomes of a
  call that does not go through; `NewBlock` advances the clock. `lives` and
  `used` only record how often an account was reaped and what has been applied
  in which life. A call is one of `FundingCall`, `DAOCall`, `TransferCall` and
  `SudoCall`, or a `SudoAsCall`, in which the sudo key dispatches one of these
  as another account: `pallet_sudo` has `type Call = Call`. As the root the key
  opens and ends rounds, hands the key on, moves money between any two accounts
  and sets the balance of any account.
* `RuntimeProperties` - what the runtime owes to those who sign.
* `RuntimeProofs` - the theorems about the runtime: its nonces, the types of
  what all accounts share, and whose money a step takes.
* `Forks`, `ForkProperties` - the state of `Runtime` is that of the best block,
  `final` that of the finalized one. `Retract` returns to it, and the steps
  that follow build another chain from there, out of the same signed
  extrinsics. `ForkProofs` has the theorem about quotes.
* `MCMolochV1`, `MCQuadraticFunding`, `MCRuntime`, `MCForks` - the instances
  for TLC.

Operators whose names end in `_M` (or `_M2`) are faulty variants of the
definition below them. No action uses them; putting one in place of its
original makes TLC report the property that `PROJECT.json` pairs it with.

`MolochV1` has two specifications. `Spec` allows what the code allows, a
`summon` at any time. `SpecFounded` is a DAO in which `summon` has been called
once, as `doc/test-guide.md` describes it. A second `summon` sets `TotalShares`
to 1 and gives the caller a fresh member record while the other members keep
their shares, so properties of shares and votes are stated for the founded DAO,
and the others for both.

What the models leave out: events; the text of proposals and the names of
projects (`register_project` refuses names shorter than 3 or longer than 32
bytes); the genesis builds, which `construct_runtime!` does not run because it
lists neither pallet with a `Config`, so that the internal accounts start
empty. The modules of the single pallets also leave out fees and transfers of
users among each other, which `Runtime` has.

`Runtime` abstracts what the pallets are not about: the fee is one constant,
since weight and length are data; a sudo call pays no fee when it succeeds, and
the refund that follows the call is modelled as a choice, made when the fee is
taken, between the fee and none; accounts have no reserved balance, of which
`set_balance` would set a second number; the key does not dispatch the calls of
System for the root (`set_code`, `set_storage`, `kill_storage`), which put any
state or any program in place of this one, so that nothing holds after them;
extrinsics are immortal, as `CheckEra` permits; versions and the genesis hash
do not tell the extrinsics of one chain apart. The modules of the pallets do
not tell an error from a panic, so both `Refuse` and `Panic` are possible
whenever a call is not enabled. A call whose guard has reached one of the
bounds below counts as refused, too. A transfer that fails costs the fee and
changes nothing else, whether it is dispatched or refused.

## Runs

The DAO runs use one block of six seconds per period. U128 is 1000, so a
wrapped subtraction is far above any number a run reaches and behaves like one
modulo 2^128.

| Run | What it asks | Instance |
| --- | --- | --- |
| `resummon` | Whoever summons, and with whatever periods, also none: are numbers in their types, is the queue in order, its starts increasing, the requested shares accounted, no member shadowed by a key? | `Spec`, release build, 2 accounts, 3 settings, 2 proposals, 3 periods; 2.8M states |
| `shares` | Are shares conserved and capped, and those of yes voters locked, when two proposals are open at once? | founded, 3 interchangeable accounts, requests of 1 and 2 shares, `MaxShares` 4, 2 proposals, 5 periods; 1.3M states |
| `checked` | Does the build with overflow checks implement `ProposalLifecycle`? Is a processed proposal final? | founded, debug build, 3 accounts, delegate key, 2 proposals; 0.5M states |
| `drain` | Is every proposal processed in the end? Does the guild bank survive its payments? | founded, fair, release build, 2 accounts, deposit 2, reward 1, tribute 1; 160k states |
| `funding` | Are areas, grants and tax functions of the votes, and the matches within the pool? | 3 voters, 2 projects, ballots 0 to 2, up to 4 votes a project, accounts that cannot pay everything, U128 = 16 so that grants wrap; 38k states |
| `solvent` | When accounts can pay, is the fund account solvent and is every owner paid what `qf_ranks` announced? Do ended rounds stay as they are? | 2 rounds with 2 projects each, a donation of 7, a unit of 2, endowments above all prices; 466k states |
| `calls` | With both pallets, Balances and Sudo on the same accounts: does a charge ever overdraw one? Is an extrinsic applied twice? Does a call take the money of somebody who neither signed it nor is named in it by the sudo key? | 2 users, up to 3 and 2 extrinsics out of 11 and 7 calls, among them `force_transfer`, `set_balance` and `sudo_as`, an account that is reaped and comes back, fee 1; 4.6M states |
| `quotes` | Is a vote charged as it was quoted, when votes are delayed and replaced and the chain forks, and the sudo key has not signed a vote for the account? | 2 users, up to 3 extrinsics each, the voter's nonces one ahead and 2 of them the same, a key holder who may vote as the voter, one change of the best chain; 2.8M states |
| `early` | A proposal is processed only after voting and grace: violated | release build |
| `delegate` | The stored delegate key acts for its member: violated | |
| `tribute` | The custody account covers the pending tributes: violated | |
| `unpaid` | Votes are counted only if they are paid: violated | |

Why the bounds are enough. Two proposals are the fewest with an order, a
predecessor and an overlap, and requests of different sizes tell a lost request
from a swapped one. Three accounts are a summoner, an applicant and a third
party (a second applicant, or a key holder). The clock runs past the periods of
both proposals. `MaxShares` is small enough to be reached. Three voters are the
fewest for which the order of votes could matter to an area beyond one pair;
two projects the fewest with shares of a pool; two rounds the fewest that share
an account or could mix votes. In `calls`, three extrinsics of the founder are
enough to summon, propose and vote, and two of the other user to pay a tribute
and process, abort or propose; an account can be reaped, be endowed again and
see its first extrinsic replayed; the founder holds the sudo key and may take
the other user's money, set that balance to 0 or pay as the other user. Longer
sequences of calls are the business of the runs of the single pallets; here
calls of different modules meet over the same money. In `quotes` three votes
are a price, a vote that slips in and a third one with the nonce of another,
and one fork can undo any of them. `MaxSigned`, `MaxRivals` and `MaxAhead`, a
number for each user, bound what is signed, `MaxForks` how often the best chain
is left. The bounds `MaxTime`, `MaxSummonTime`, `MaxProposals`,
`MaxStartingPeriod`, `MaxVotes` and `MaxDonated` are conjuncts of the guards of
`Tick`, `Summon`, `SubmitProposal`, `Vote` and `Donate`; the proofs hold for
every value of them (`MaxVotes` is a number of the pallet's type). Symmetry is
used where all accounts have the same endowment and no key is named, and not
with liveness. The runs of the funding pallet and of the runtime switch off
deadlock checking: when every identifier is used up and every round has ended,
or everything that may be signed has been applied, there is nothing left to do,
and there need not be.

Fairness. Only `drain` assumes any: weak fairness of `Tick`, since Aura
produces blocks whether or not there are calls, and weak fairness of
`ProcessProposal`, since anybody may process the head of the queue and is paid
`processing_reward` for it. No fairness is assumed for members, applicants or
voters.

## Where code and text disagree

Four runs show a disagreement; the findings in `PROJECT.json` quote the text.

* In the release build the check that voting and grace are over is passed
  early: `now - voting - grace` wraps around while the chain is younger than
  the two periods (`lib.rs:381`). In a debug build the call panics instead,
  which is why `checked` can show that processed proposals are final and
  `drain`, in the release build, shows that the queue moves.
* `update_delegate` changes a copy of the member that is not written back
  (`lib.rs:544-548`), so the stored key and the key that acts differ.
* `submit_proposal` compares each tribute with the balance of the whole custody
  account (`lib.rs:285`), so two proposals may count on the same money.
* `vote` counts votes whether or not the transfer succeeded, although a comment
  says the transfer ensures it; `donate` does the same with the pool.

Seen while modelling, without a run of their own: a deposit or a ragequit that
would take the guild bank below the existential deposit is not paid and nobody
is told (`lib.rs:460, 497`); in a debug build a proposal whose tribute exceeds
the applicant's record panics each time it is processed and blocks the queue
(`lib.rs:448`), so `QueueDrains` is stated for the release build only; a second
`summon` breaks the conservation of shares; admitting an applicant whose
address is a key of a non-member creates that non-member with `exists = false`
(`lib.rs:419`, against the comment at 38); `register_project` does not look at
the round, although its comment says the round is ongoing
(`quadratic-funding lib.rs:247, 253`); and a comment says that the deposit is
collected from the proposer (`moloch-v1 lib.rs:293`), which in a proposal is
the member behind the key (`lib.rs:46, 304`), while the code takes it from the
key that calls (`lib.rs:294`) and pays what remains of it to the member
(`lib.rs:460`). `OwnMoneyOnly` is about what the code does: the member, who has
not signed, pays nothing.

Of the runtime: a price is binding only if it was asked for at a finalized
block and the vote has the nonce of that block. Otherwise another vote of the
same account may slip in, or a fork may change the price, and
`ChargedAsQuoted` without its condition `x \in firm` is violated; nothing in
`rpc/src/lib.rs:81` tells a client at which block it was answered. Nor is it
binding when the sudo key votes for the account by `sudo_as`, which asks for no
nonce of the account: `ChargedAsQuoted` without `VotesAreOwn` is violated, too.
The nonce of
a reaped account starts again at 0, so that what it signed before is valid once
more when it is endowed again: this is why `AppliedOnce` speaks of one life of
an account. `projects_per_round` converts every number to `u32` and panics
where one does not fit, so that one project with larger grants leaves
`qf_ranks` without an answer for the whole round.

## Proofs

The theorems hold for all accounts, settings, arguments, bounds, numbers of
proposals, rounds, projects and voters, sizes of integers and, unless the table
says otherwise, for both builds. They rest on the named assumptions of the
modules: internal accounts differ from each other and from the users,
arguments and `MaxVotes` are in the range of their types, a block takes time,
the fee per vote is less than its price, and, for the sums of the funding
pallet, there are finitely many users. The assumptions of `Runtime` say the
same of its accounts and of the arguments in `Calls`, and that `NoExtrinsic` is
no extrinsic. TLC evaluates the assumptions in every run.

"Checked" stands for the hypothesis `OverflowChecks`. It is there where the
release build breaks the property (the run `early`). "Founded" stands for
`SpecFounded`, as in the runs.

| Theorem | States | Inductive invariant, and why it is needed |
| --- | --- | --- |
| `TypeCorrect` | `Spec => []TypeOK` | `TypeOK` itself; it contains that no plain subtraction or balance leaves its range |
| `QueueInOrder` | `Spec => []ProcessedInOrder` | with `TypeOK`: the order survives because a step processes one proposal, whose predecessor is processed |
| `OneStartPerPeriod` | `Spec => []StartingPeriodsIncrease` | with `TypeOK`: a new start is above that of the last proposal, whatever the clock says |
| `OwnKeyAlways` | `Spec => []OwnKey` | with `TypeOK` |
| `VotersStayLocked` | founded: `[]YesVotersLocked` | `TypeOK /\ VotesOfMembers /\ YesVotersLocked`: without `VotesOfMembers` a new member could inherit a vote its fresh record does not show |
| `QuitAfterProcessing` | founded: `RagequitAfterProcessing` | from `VotersStayLocked` and `QueueInOrder`: the one proposal that `ragequit` looks at is the last the member voted yes on, and all before it are processed |
| `SharesBounded` | founded: `[]SharesWithinMax` | `TypeOK /\ NoDaoYet /\ SharesWithinMax`: `NoDaoYet` says that nothing has been requested when the one `summon` comes |
| `GuildStaysAlive` | `Spec => GuildKeptAlive` | `TypeOK`: each payment of a call leaves the bank alive, one after the other |
| `ProcessedStayFinal` | founded, checked: `ProcessedIsFinal` | `FinalInv`: a processed proposal is past voting and grace (`ProcessedAreOver`), the abort window lies within voting (`WindowWithinVoting`), and periods never go back, so that the calls that do not look at `processed` come too late |
| `PassedNotAborted` | founded, checked: `[]NotAbortedAndPassed` | `FinalInv`, which also says that only processed proposals have passed |
| `RequestsAccounted` | `Spec => []RequestedSharesAccounted` | `TypeOK` and `RequestedInv`, the sum over a finite set |
| `SharesAddUp` | founded: `[]SharesConserved` | `TypeOK /\ NoDaoYet /\ SharesInv` |
| `YesVotesStayBacked` | founded: `[]YesVotesBacked` | `VoteInv` (types, `SharesInv`, `VotesOfMembers`, order and locks): backing falls only by a ragequit, which the locks keep from the voters of open proposals; a vote adds a voter that was not one |
| `DilutionCountsVoters` | founded: `[]YesVotesWithinTotal` | `VoteInv` and `YesVotesBacked`: when a vote raises the maximum, the votes are backed by a part of `TotalShares` |
| `QueueImplementsLifecycle` | founded, checked: `ImplementsLifecycle` | `FinalInv /\ RequestedInv /\ ProcessedInOrder`: the pallet's sum is the abstract one, and the head of the queue the first unsettled request |
| `StorageTyped` | `Spec => []TypeOK` | `TypeOK` itself; the payments of `end_round` by the recursion below |
| `VotesAlwaysAddUp`, `AreaAlwaysPairs`, `GrantsAlwaysCost` | `Spec => []VotesAddUp` and so on | `TypeOK /\ ProjectsInv`: the three together with `VotesOfProjects`, without which a project could be registered over votes that were cast before; the areas need the sum of the votes, since `vote` computes with it |
| `RoundAreaAlwaysSum`, `TaxAlwaysAccounted` | `Spec => []RoundAreaIsSum` and so on | with `ProjectsInv`: what is added to the project is added to its round; a project registered in a running round starts at 0 |
| `MatchAlwaysWithin` | `Spec => []MatchWithinPool` | none of its own: it follows from `RoundAreaIsSum` |
| `EndedRoundsFrozen` | `Spec => EndedRoundFrozen` | none: every handler looks at the round |
| `SolventWhenPaid` | `Spec /\ VotesPaid /\ DonationsPaid => []Solvent` | with all of the above and `FiniteRounds`: ending a round moves what it owes out of both sides, payments that fail included |
| `IssuanceNeverGrows` | `Spec => []IssuanceKept` | `IssuanceKept`, with `TypeOK` and `ProjectsInv`, for the price of a vote: a transfer conserves money or burns dust, and so does the recursion of payments |
| `OwnersPaidInFull` | `PricesKeepAlive`, `IssuanceFits`: `Spec /\ VotesPaid /\ DonationsPaid => OwnersPaid` | `PaidInv`: `Solvent` with the invariants under it, and `IssuanceKept`, `GrantsExact` (no grants have wrapped, being less than the issuance) and `PoolTaxed` (a pool is no more than was donated), by which the tax a round holds back is at least the fee of one vote |
| `RoundsCanEnd` | `IssuanceFits`: `Spec /\ VotesPaid /\ DonationsPaid => []PayoutsFit` | `PaidInv`: what a project is due is part of what the fund account has, and that is part of the issuance, so that `end_round` finds no number it cannot unwrap |
| `RanksPaidInFull` | the same as `OwnersPaidInFull`: `... => RanksArePaid` | `PaidInv`: the owner's payments are those above, the ranks divide once more, and each division drops less than one |
| `TypeCorrect` (runtime) | `Spec => []TypeOK` | `MoneyInv`: with `NonceInv`, the types of what the calls take as amounts (`PaymentsTyped`), of the balances and of what is signed; it also says that the charge a panic takes back was the fee or nothing |
| `NobodyElsePays` | `Spec => OwnMoneyOnly` | `MoneyInv`: each call of both pallets transfers from its signer, or from the accounts of the pallets, which nobody signs for, and the two calls for the root that move money take it from the account they name |
| `QuotesAreCharged` | `ForkSpec => ChargedAsQuoted` | `ForkInv`: `MoneyInv` on the best chain and of the finalized block, the best chain is never behind the finalized one in lives and nonces (`FinalFirst`), and as long as an account has not got beyond the nonce it asked at, on either chain, its price there is the quoted one (`QuotesHold`), unless the sudo key has signed a vote for it (`VotesAreOwn`) |
| `AppliedOncePerLife` | `Spec => AppliedOnce` | `NonceInv`: what was applied in the present life of an account has a nonce below its own (`UsedIsPast`), and the extrinsic that is being applied has the last one (`CurrentIsLast`), so that undoing its charge gives back that place and no other |

How the proofs go. The type proofs have a lemma per action. The queue proofs
share `QueueStep` and `QueueCalls`, which say in what ways a step changes the
queue, the proofs about votes share `MembersGrow` and `VotesStep`, and those of
the funding pallet share `ProjectCases` and `RoundCases`: a step keeps a
project or a round, votes for it, or starts it anew. Sums are taken apart with
the lemmas of `DataProofs`: the cardinality of a set of tokens changes by the
tokens of one element. `SumFunction` of the community modules is recursive;
that it is such a cardinality is proved by the smallest subset for which it
would not be. In the same way `EndBalances` shows, by the smallest project
number, that the recursion of `BalancesAfterEnd` pays one project after the
other.

`SolventWhenPaid` has two hypotheses about the behaviour, because `vote` and
`donate` discard the result of their transfers. `VotesPaid` is what the comment
in `vote` claims (lib.rs:284); the run `unpaid` shows that the code does not
see to it, and the theorem says what depends on it. `DonationsPaid` is the same
for `donate`. Both hold in the instance of the run `solvent`, whose accounts
have more than all votes and donations cost.

`OwnersPaidInFull` and `RanksPaidInFull` need two more hypotheses, on the
constants. A fund account that has what it owes may still fail to pay: a
payment below the existential deposit does not reach an owner whose account
does not exist, and `KeepAlive` refuses the last payment if it would kill the
fund account. `PricesKeepAlive` says that the net price of one vote and the fee
in it are not below the existential deposit. In `runtime/src/lib.rs:232,
265-271` they are 940 and 60 times 10^9, against a deposit of 500. With it a
project that is paid anything is paid at least the net price of a vote, and the
tax that its round holds back keeps the fund account alive: this is the
argument, payment by payment, of the proof. `IssuanceFits` says that the
issuance is less than 2^128, as it must be where `pallet_balances` keeps it in
a `u128`; with `IssuanceNeverGrows` the grants that were paid for have not
wrapped. The instance of `solvent` satisfies both.

The proofs about the runtime do not cite the theorems about the pallets. An
instance of a pallet over the accounts of the runtime is another specification,
whose balances also move by fees and by the calls of the other pallet, and a
theorem of `Spec` does not apply to it. `MoneyInv` has what is needed from each
pallet again: the amounts that are paid are numbers. `ForkProofs` extends
`RuntimeProofs`, since each step on the best chain is a step of the runtime; it
adds what such a step does to the nonce and the votes of an account, and the
return to the finalized block.

Two things the proofs asked of the model. `Status` had been a `CASE` in which a
proposal that is both aborted and passed met two arms; it is now an order of
conditions. `PairsOfVoters`, an operator for the pairs in the formula of
quadratic funding, became the square of the sum less the sum of the squares,
which is the form `NewArea` computes.

That `end_round` cannot panic for good is a theorem without a run. Its
hypotheses are about steps, and TLC does not check an invariant under such
hypotheses; without them a round whose unpaid votes are dear enough really
cannot be ended.

Checked by TLC only:

* `QueueDrains`: liveness under fairness, which is beyond TLAPS.
* The four disagreements, which are counterexamples.
* That the assumptions and hypotheses can be met: the runs evaluate the former,
  and `solvent` is an instance of the latter.

## Not modelled

The command line and the wiring of libraries in `node/src` (`cli.rs`,
`command.rs`, most of `service.rs`, `new_light`) start tasks and keep no state
of the program. The consensus itself, block import, networking and the
transaction pool are dependencies; of them, `Forks` has the effect on the chain
a client sees, and `Sign` with `Charge` any order a pool may choose. Weights,
versions, benchmarks and the authorities' APIs of `runtime/src/lib.rs` do not
concern the pallets. The mocks and unit tests were read for what the pallets
are expected to do.

## Plan

1. Done: `Storage`, `Balances`, `Unsigned`, `MolochV1` with its properties and
   abstract specification; `QuadraticFunding` and `FundingQueries` with their
   properties; `Runtime` and `Forks` with theirs.
2. Done: the theorems listed above, which cover every safety property of the
   passing runs.
3. Open: `VotesPaid` and `DonationsPaid` are hypotheses since `vote` and
   `donate` discard the result of the transfer. When the code checks it, the
   run `unpaid` turns into a passing one, both become theorems, and the
   theorems that have them as hypotheses lose them.
4. Open: `OwnersPaidInFull` for the runtime, where fees and the other pallet
   move the balances as well. It would need `PaidInv` over the accounts of the
   runtime, of which `MoneyInv` is the part about types.
