CONSTANTS
  Lists <- SomeLists
  Team <- TeamOf
  Players <- FewPlayers
  MaxLocks = 2
  Attempts = 2
SPECIFICATION Spec
INVARIANT TypeOK LegalResult LockedStay OutsidersAsRuled CompanionsCome
CHECK_DEADLOCK FALSE
