SPECIFICATION Spec
CONSTANTS
  plain = plain
  spaced = spaced
  exported = exported
  typed = typed
  Commands = {p1, p2, p3}
  Jobs <- MCJobs
  Names <- MCNames
  EthNames = {plain}
  sanitizeName <- MCSanitize
  Secrets = {exported, typed}
  OwnSecret <- MCOwn
INVARIANTS
  TypeOK
  WalletKept
  PassphraseKept
  FileWalletOpens
  SettingsKept
SYMMETRY Symmetry
\* Every command ends.
CHECK_DEADLOCK FALSE
