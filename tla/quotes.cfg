SPECIFICATION ForkSpec
CONSTANTS
  Alice = Alice
  Bob = Bob
  NoKey = NoKey
  Guild = Guild
  Custodian = Custodian
  Fund = Fund
  NoOne = NoOne
  Users <- TwoUsers
  Endowment <- VotingMoney
  ExistentialDeposit = 1
  U128 = 1000
  OverflowChecks = FALSE
  GuildAccount <- Guild
  CustodyAccount <- Custodian
  DefaultAccount <- NoKey
  MaxVotingPeriodLength = 2
  MaxGracePeriodLength = 2
  MaxDilutionBound = 2
  MaxShares = 3
  BlockTime = 6000
  SummonSettings <- NoSettings
  Tributes = {}
  ShareRequests = {}
  DelegateKeys = {}
  MaxTime = 0
  MaxSummonTime = 0
  MaxProposals = 0
  MaxStartingPeriod = 0
  FundAccount <- Fund
  U32 = 100
  UnitOfVote = 1
  NumberOfUnitPerVote = 3
  FeeRatioPerVote = 1
  RoundIds = {1}
  LastHash = 1
  Ballots = {1}
  Donations = {}
  MaxVotes = 8
  MaxDonated = 0
  SudoKey <- Alice
  Fee = 1
  Calls <- VotingCalls
  MaxAhead <- Ahead
  MaxSigned <- Signed
  MaxForks = 1
  MaxRivals <- Rivals
  NoExtrinsic <- NoOne
PROPERTIES
  ChargedAsQuoted
CHECK_DEADLOCK FALSE
