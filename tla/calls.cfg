SPECIFICATION Spec
CONSTANTS
  Alice = Alice
  Bob = Bob
  NoKey = NoKey
  Guild = Guild
  Custodian = Custodian
  Fund = Fund
  NoOne = NoOne
  Users <- TwoUsers
  Endowment <- DAOMoney
  ExistentialDeposit = 1
  U128 = 1000
  OverflowChecks = FALSE
  GuildAccount <- Guild
  CustodyAccount <- Custodian
  DefaultAccount <- NoKey
  MaxVotingPeriodLength = 2
  MaxGracePeriodLength = 2
  MaxDilutionBound = 2
  MaxShares = 3
  BlockTime = 6000
  SummonSettings <- OnlyHasty
  Tributes = {2}
  ShareRequests = {1}
  DelegateKeys = {}
  MaxTime = 12000
  MaxSummonTime = 0
  MaxProposals = 1
  MaxStartingPeriod = 2
  FundAccount <- Fund
  U32 = 100
  UnitOfVote = 1
  NumberOfUnitPerVote = 3
  FeeRatioPerVote = 1
  RoundIds = {1}
  LastHash = 1
  Ballots = {1}
  Donations = {4}
  MaxVotes = 8
  MaxDonated = 4
  SudoKey <- Alice
  Fee = 1
  Calls <- DAOCalls
  MaxAhead <- None
  MaxSigned <- ThreeAndTwo
  MaxRivals <- OneEach
  NoExtrinsic <- NoOne
INVARIANTS
  TypeOK
PROPERTIES
  AppliedOnce
  OwnMoneyOnly
CHECK_DEADLOCK FALSE
