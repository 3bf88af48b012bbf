SPECIFICATION Spec
CONSTANTS
  None = None
  Release <- Releases
  Upstream <- UpstreamOf
  Token <- TokenOf
  Canonical <- Campaigns
  Created <- CreatedRounds
  Shell <- Shells
  ShellCampaign <- ShellRule
  OldName = "COMPARE"
  NewName = "DOWNGRADE"
  LegacyRounds <- Versions
  Remap <- RemapOf
  Excused <- ExcusedCases
  Databases <- Starts
  Opened = {"d2"}
INVARIANTS TypeOK NothingLost NamesAgree
PROPERTY CampaignsKept
CHECK_DEADLOCK FALSE
