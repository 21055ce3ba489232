SPECIFICATION OpenSpec
CONSTANTS
  Radix = 4
  alice = 9
  bob = 6
  Tags <- MCTags
  Bags <- MCOpenBags
  Auths <- MCAuths
  Wrapped <- MCWrapped
  Plists <- MCPlists
  LossPoints <- MCLossPoints
CHECK_DEADLOCK FALSE
INVARIANTS
  TypeOK
  ClassKeysAsWritten
  PanicsOnlyWithoutClass
  OpenTypeOK
  ManifestTypeOK
  AllProtectedOrNone
  PasswordDecides
  DerivedKeyOpensTheSame
  PlistDecides
  OpensForItsKeyOnly
  NeverOpensUnlocked
  PanicsExplained
  FreshOnlyIfLostInBetween
PROPERTIES
  Returns
