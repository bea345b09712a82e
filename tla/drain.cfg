SPECIFICATION FairSpec
CONSTANTS
  Alice = Alice
  Bob = Bob
  Carol = Carol
  NoKey = NoKey
  Guild = Guild
  Custodian = Custodian
  Users <- TwoUsers
  GuildAccount <- Guild
  CustodyAccount <- Custodian
  DefaultAccount <- NoKey
  Endowment <- Modest
  ExistentialDeposit = 1
  U128 = 1000
  OverflowChecks = FALSE
  MaxVotingPeriodLength = 2
  MaxGracePeriodLength = 2
  MaxDilutionBound = 2
  MaxShares = 4
  BlockTime = 6000
  SummonSettings <- OnlyDeposit
  Tributes = {1}
  ShareRequests = {1}
  DelegateKeys <- NoKeys
  MaxTime = 18000
  MaxSummonTime = 0
  MaxProposals = 2
  MaxStartingPeriod = 2
PROPERTIES
  QueueDrains
  GuildKeptAlive
