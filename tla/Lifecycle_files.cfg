SPECIFICATION Spec
CONSTANTS
  Names = {1, 2}
  MaxRank = 2
  Squelches = {50}
  Gains = {200, 297}
  UserLists <- UserLists1
  MaxBoots = 2
  MaxChanges = 1
INVARIANTS SettingsCarryOver UserTunersFirst
PROPERTIES DatabaseIsKept StartSettles
CHECK_DEADLOCK FALSE
