SPECIFICATION SpecFounded
CONSTANTS
  Alice = Alice
  Bob = Bob
  Carol = Carol
  NoKey = NoKey
  Guild = Guild
  Custodian = Custodian
  Users <- TwoUsers
  GuildAccount <- Guild
  CustodyAccount <- Custodian
  DefaultAccount <- NoKey
  Endowment <- Meagre
  ExistentialDeposit = 1
  U128 = 1000
  OverflowChecks = FALSE
  MaxVotingPeriodLength = 2
  MaxGracePeriodLength = 2
  MaxDilutionBound = 2
  MaxShares = 4
  BlockTime = 6000
  SummonSettings <- OnlyQuick
  Tributes = {1}
  ShareRequests = {1}
  DelegateKeys <- NoKeys
  MaxTime = 24000
  MaxSummonTime = 6000
  MaxProposals = 1
  MaxStartingPeriod = 2
PROPERTIES
  ProcessedAfterGrace
