SPECIFICATION Spec
CONSTANTS
  MaxComps = 2
  MaxSubjects = 1
  MaxExtensions = 1
  Now <- MCNow
  SigSize <- MCSigSize
  Comps <- MCComps
  CompUris <- MCCompUris
  Numbers <- MCNumbers
  PacketNames <- MCPacketNames
  SuffixCounts <- MCSuffixCounts
  Selectors <- MCSelectors
  Scopes <- MCScopes
  Lifetimes <- MCLifetimes
  ExcludeFields <- MCExcludeFields
  Universe <- MCUniverse
  ParsedInterests <- MCParsedInterests
  Contents <- MCContents
  Types <- MCTypes
  FinalBlocks <- MCFinalBlocks
  Times <- MCTimes
  SigLens <- MCSigLens
  CertSigLens <- MCCertSigLens
  CertNames <- MCCertNames
  KeyNames <- MCKeyNames
  Versions <- MCVersions
  Subjects <- MCSubjects
  Extensions <- MCExtensions
  KeyBlobs <- MCKeyBlobs
  ValidityEnds <- MCValidityEnds
INVARIANTS
  UriRoundTrip
  NameOrder
  WireRoundTrip
  TruncationThrows
  RelayIsIdentity
  SentIsSigned
  CertificateSurvives
  ExcludedWasAsked
  LastIsExcluded
PROPERTY LostOnlyAboveNested
