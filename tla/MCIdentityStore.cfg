SPECIFICATION KeychainSpec
CONSTANTS
  Identities = {alice, bob}
  Procs = {p, q}
  None = None
  Versions = {1, 2}
  NotBefore <- MCNotBefore
  NotAfter <- MCNotAfter
  MaxTime = 2
  MaxOps = 2
  MaxFaults = 1
SYMMETRY Symmetry
INVARIANTS
  StoragesConsistent
  DefaultsUnique
  SignatureVerifies
  MasterKeyOnDisk
CHECK_DEADLOCK FALSE
