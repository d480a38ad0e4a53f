SPECIFICATION Spec
CONSTANTS
  Components <- MCComponents
  Unbounded = 100
  Stack = 20
  Rules <- KeychainRules
  Exemptions <- MCExemptions
  Inferences <- MCInferences
  Lists <- MCLists
  Questions = 2
  DataNames <- MCData
  SignerNames <- MCSigners
  DefaultCertificate <- MCDefaultCertificate
CHECK_DEADLOCK FALSE
INVARIANTS MatchIsLanguage DecisionsForget SignerIsAbove
