SPECIFICATION Spec
CONSTANTS
  R = R
  C = C
  D = D
  E = E
  L = L
  M = M
  kr = kr
  kc = kc
  ke = ke
  kx = kx
  certC = certC
  fakeC = fakeC
  certE = certE
  certL = certL
  certM = certM
  good = good
  deep = deep
  bad = bad
  alias = alias
  loop = loop
  free = free
  wild = wild
  banned = banned
  NoName = NoName
  NoPacket = NoPacket
  Packets <- MCPackets
  Names <- MCNames
  Keys <- MCKeys
  Locator <- MCLocator
  NameOf <- MCNameOf
  Under <- MCUnder
  Signer <- MCSigner
  KeyOf <- MCKeyOf
  Anchors <- MCAnchors
  Required <- MCRequired
  MustFail = {banned}
  Satisfies <- MCSatisfies
  Exempt = {free}
  Received <- MCReceived
  Vals = {v1}
  StepLimit = 3
  Retries = 1
  Ageing <- MCAgeing
  MaxDrops = 0
INVARIANT EndsWithCallback
CHECK_DEADLOCK FALSE
