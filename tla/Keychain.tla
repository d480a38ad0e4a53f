------------------------------ MODULE Keychain ------------------------------
(***************************************************************************)
(* Keychain over the storages of IdentityStore: what its queries and its   *)
(* signing operations return in every state of the database and the files, *)
(* and BasicEncryptionManager, whose constructor makes the master key.     *)
(*                                                                         *)
(* Queries and signing change nothing on record, so they are operators.    *)
(* An outcome is a record with the result, or Fails(e), where e is         *)
(*   "SecException"  the exception the callers are told of;                *)
(*   "Name error"    Name::get throws on an empty name;                    *)
(*   "abort"         a NULL Ptr is dereferenced.                           *)
(* A query of a default that several rows answer returns any of them: a    *)
(* set of outcomes.  These are the outcomes of a database that is not      *)
(* busy; a busy one answers a query as if there were no row, so that the   *)
(* operation fails as it does without the row.                             *)
(*                                                                         *)
(* Not modelled: the active flag of a key, which activateKey and           *)
(* deactivateKey write and nothing reads; addAnyCertificate, which nothing *)
(* calls.                                                                  *)
(***************************************************************************)
EXTENDS IdentityStore

CONSTANTS NotBefore, NotAfter   \* validity of the certificates of a version

ASSUME ValidityAssumption ==
  NotBefore \in [Versions -> Nat] /\ NotAfter \in [Versions -> Nat]

VARIABLES mkTable,    \* the table MasterKey exists
          masterKeys, \* its rows: the seconds in their names, all active
          symFiles,   \* the master keys whose .key file exists
          ciphers,    \* the rows of BlockCipher: a name, the key encrypted, with which key
          manager     \* the default key name of each process's encryption manager:
                      \* None before it is built, 0 for the empty name

encVars == <<mkTable, masterKeys, symFiles, ciphers, manager>>
allVars == <<vars, encVars>>

KeychainInit == /\ Init
                /\ mkTable = FALSE /\ masterKeys = {} /\ symFiles = {} /\ ciphers = {}
                /\ manager = [p \in Procs |-> None]

Fails(e) == [error |-> e]
Failed(outcome) == "error" \in DOMAIN outcome

-----------------------------------------------------------------------------
(* BasicIdentityStorage: queries. *)

CertName(c) == <<c.key, c.version>>

doesKeyExist(k) == keyRow[k] # None

getKey(k) == keyRow[k]

getAllIdentities(dflt) == IF dflt THEN defIds ELSE ids \ defIds

getAllKeyNames(dflt) == {k \in KeyNames : doesKeyExist(k) /\ (k \in defKeys) = dflt}

getAllKeyNamesOfIdentity(i, dflt) == {k \in getAllKeyNames(dflt) : IdOf(k) = i}

getAllCertificateNames(dflt) == {CertName(c) : c \in IF dflt THEN defCerts ELSE certs \ defCerts}

getAllCertificateNamesOfKey(k, dflt) == {n \in getAllCertificateNames(dflt) : n[1] = k}

\* With any, whatever the validity; otherwise both comparisons are strict.
getCertificate(n, any) ==
  {c \in certs : /\ CertName(c) = n
                 /\ any \/ (NotBefore[c.version] < clock /\ clock < NotAfter[c.version])}

getDefaultIdentity == IF defIds = {} THEN {None} ELSE defIds

getDefaultKeyNameForIdentity(i) ==
  LET dflt == {k \in defKeys : IdOf(k) = i} IN IF dflt = {} THEN {None} ELSE dflt

getDefaultCertificateNameForKey(k) ==
  LET dflt == {[name |-> CertName(c)] : c \in {d \in defCerts : d.key = k}} IN
  IF k = None THEN {Fails("Name error")}
  ELSE IF dflt = {} THEN {[name |-> None]} ELSE dflt

getDefaultCertificateNameForIdentity(i) ==
  UNION {getDefaultCertificateNameForKey(k) : k \in getDefaultKeyNameForIdentity(i)}

getDefaultCertificateName ==
  UNION {getDefaultCertificateNameForIdentity(i) : i \in getDefaultIdentity}

-----------------------------------------------------------------------------
(* SimpleKeyStore: what it does with the files. *)

\* doesKeyExist: the file of that class can be opened.
hasFile(k, class) == CASE class = "PUBLIC" -> pub[k] # None
                       [] class = "PRIVATE" -> pri[k] # None
                       [] class = "SYMMETRIC" -> k \in symFiles

getPublickey(k) == IF hasFile(k, "PUBLIC") THEN [key |-> pub[k]] ELSE Fails("SecException")

sign(k) == IF hasFile(k, "PRIVATE") THEN [key |-> pri[k]] ELSE Fails("SecException")

\* A cipher text is the public key it was made with, or None for NULL.  The
\* symmetric half gives AES the size of a pointer as the key's length, which no
\* AES key has; the exception becomes NULL.
encrypt(k, sym) ==
  IF ~ hasFile(k, IF sym THEN "SYMMETRIC" ELSE "PUBLIC") THEN Fails("SecException")
  ELSE [cipher |-> IF sym THEN None ELSE pub[k]]

\* What the private key does not fit is NULL again.
decrypt(k, cipher, sym) ==
  IF ~ hasFile(k, IF sym THEN "SYMMETRIC" ELSE "PRIVATE") THEN Fails("SecException")
  ELSE [plain |-> IF sym \/ cipher # pri[k] THEN None ELSE cipher]

-----------------------------------------------------------------------------
(* IdentityManager: signing. *)

\* A signature has the private key that made it, the key of the certificate it
\* points to and the public key whose digest it carries.
Signature(by, locator, digest) ==
  IF Failed(by) THEN by ELSE IF Failed(digest) THEN digest
  ELSE [by |-> by.key, locator |-> locator, digest |-> digest.key]

\* getCertificate and getAnyCertificate: the manager copies the certificate it
\* was given without looking whether it was given one, so the callers' tests for
\* NULL are never reached.
managerCertificate(n, any) ==
  LET found == getCertificate(n, any) IN
  IF found = {} THEN Fails("abort") ELSE [cert |-> CHOOSE c \in found : TRUE]

\* Mutant: the identity's oldest key signs.
signByCertificate_OldestKey(n) ==
  LET keys == {l \in KeyNames : doesKeyExist(l) /\ IdOf(l) = IdOf(n[1])} IN
  IF getCertificate(n, FALSE) = {} THEN Fails("abort")
  ELSE LET k == CHOOSE k \in keys : \A l \in keys : k[2] <= l[2] IN
       Signature(sign(k), n[1], getPublickey(n[1]))

signByCertificate(n) ==
  LET found == managerCertificate(n, FALSE) IN
  IF Failed(found) THEN found
  ELSE Signature(sign(found.cert.key), found.cert.key, getPublickey(found.cert.key))

\* A certificate for k, signed under the certificate named signer: its
\* publisher digest is that of the subject's key.
createIdentityCertificate(k, signer) ==
  IF ~ doesKeyExist(k) \/ Failed(managerCertificate(signer, FALSE)) THEN Fails("abort")
  ELSE Signature(sign(signer[1]), signer[1], [key |-> getKey(k)])

selfSign(k) == IF ~ doesKeyExist(k) THEN Fails("abort")
               ELSE Signature(sign(k), k, [key |-> getKey(k)])

-----------------------------------------------------------------------------
(* Keychain. *)

\* By the identity given or inferred by the policy; None: the default identity.
signByIdentity(i) ==
  LET Under(n) == IF Failed(n) THEN n
                  ELSE IF n.name = None THEN Fails("SecException")
                  ELSE signByCertificate(n.name) IN
  {Under(n) : n \in IF i = None THEN getDefaultCertificateName
                    ELSE getDefaultCertificateNameForIdentity(i)}

-----------------------------------------------------------------------------
(* BasicEncryptionManager: the constructor, statement by statement. *)

NewManager(p) ==
  Executed /\ Begin(p, [IdleProc EXCEPT !.pc = "masterTable"]) /\ UNCHANGED encVars

MasterTable(p) ==
  /\ At(p, "masterTable")
  /\ \/ Hits(mkTable) /\ Goto(p, "selectMaster")
     \/ Misses(~ mkTable) /\ Goto(p, "createMaster")
  /\ UNCHANGED <<idVars, keyVars, certVars, fileVars, boundVars, histVars, encVars>>

\* Mutant: the row is made with the table, before the key.
CreateMaster_RowFirst(p) ==
  /\ At(p, "createMaster")
  /\ mkTable' = TRUE
  /\ masterKeys' = masterKeys \cup {clock}
  /\ proc' = [proc EXCEPT ![p] = [@ EXCEPT !.pc = "testSymFile", !.gen = clock]]
  /\ UNCHANGED <<idVars, keyVars, certVars, fileVars, boundVars, busy, histVars,
                 symFiles, ciphers, manager>>

\* CREATE TABLE IF NOT EXISTS; the key is named after the second.
CreateMaster(p) ==
  /\ At(p, "createMaster")
  /\ \/ Executed /\ mkTable' = TRUE
     \/ Busy /\ UNCHANGED mkTable
  /\ proc' = [proc EXCEPT ![p] = [@ EXCEPT !.pc = "testSymFile", !.gen = clock]]
  /\ UNCHANGED <<idVars, keyVars, certVars, fileVars, boundVars, histVars,
                 masterKeys, symFiles, ciphers, manager>>

\* SimpleKeyStore::generateKey: an existing file is an exception, and with it
\* the constructor fails.
TestSymFile(p) ==
  /\ At(p, "testSymFile")
  /\ IF hasFile(proc[p].gen, "SYMMETRIC") THEN Return(p) ELSE Goto(p, "writeSymFile")
  /\ UNCHANGED <<idVars, keyVars, certVars, fileVars, boundVars, busy, histVars, encVars>>

WriteSymFile(p) ==
  /\ At(p, "writeSymFile")
  /\ symFiles' = symFiles \cup {proc[p].gen}
  /\ Goto(p, "insertMaster")
  /\ UNCHANGED <<idVars, keyVars, certVars, fileVars, boundVars, busy, histVars,
                 mkTable, masterKeys, ciphers, manager>>

\* The manager uses its key whether or not the row was taken; without the table
\* it is not.
InsertMaster(p) ==
  /\ At(p, "insertMaster")
  /\ \/ Hits(mkTable) /\ masterKeys' = masterKeys \cup {proc[p].gen} /\ UNCHANGED skipped
     \/ Misses(~ mkTable) /\ skipped' = skipped \cup {"MasterKey"} /\ UNCHANGED masterKeys
  /\ manager' = [manager EXCEPT ![p] = proc[p].gen]
  /\ Return(p)
  /\ UNCHANGED <<idVars, keyVars, certVars, fileVars, boundVars, contested, unsettled,
                 mkTable, symFiles, ciphers>>

\* The first row; without one the default key keeps its empty name.
SelectMaster(p) ==
  /\ At(p, "selectMaster")
  /\ \/ Executed /\ \E t \in masterKeys : manager' = [manager EXCEPT ![p] = t]
     \/ Misses(masterKeys = {}) /\ manager' = [manager EXCEPT ![p] = 0]
  /\ Return(p)
  /\ UNCHANGED <<idVars, keyVars, certVars, fileVars, boundVars, histVars,
                 mkTable, masterKeys, symFiles, ciphers>>

doesKeyNameExist(n) == \E r \in ciphers : r.name = n

\* createSymKey: the new key is encrypted with the master key.  An exception
\* changes nothing; NULL is dereferenced and the process ends, so that no row is
\* ever written.
CreateSymKey(p, n) ==
  LET e == encrypt(manager[p], TRUE) IN
  /\ At(p, "idle") /\ ops < MaxOps /\ manager[p] # None
  /\ ops' = ops + 1
  /\ IF doesKeyNameExist(n) \/ Failed(e) THEN UNCHANGED <<ciphers, manager>>
     ELSE IF e.cipher = None THEN manager' = [manager EXCEPT ![p] = None] /\ UNCHANGED ciphers
     ELSE /\ ciphers' = ciphers \cup {[name |-> n, cipher |-> e.cipher, by |-> manager[p]]}
          /\ UNCHANGED manager
  /\ UNCHANGED <<idVars, keyVars, certVars, fileVars, proc, clock, crashes, busy, histVars,
                 mkTable, masterKeys, symFiles>>

\* NULL for a name without a row.
getSymmetricKey(n) ==
  IF ~ doesKeyNameExist(n) THEN [key |-> None]
  ELSE LET r == CHOOSE r \in ciphers : r.name = n
           d == decrypt(r.by, r.cipher, TRUE)
       IN IF Failed(d) THEN d ELSE IF d.plain = None THEN Fails("abort") ELSE [key |-> n]

\* encrypt and decrypt of the manager, and of Keychain: symmetric keys are used
\* without a test for NULL.
managerEncrypt(n, sym) ==
  LET s == getSymmetricKey(n) IN
  IF ~ sym THEN encrypt(n, FALSE) ELSE IF Failed(s) THEN s
  ELSE IF s.key = None THEN Fails("abort") ELSE [cipher |-> s.key]
managerDecrypt(n, cipher, sym) ==
  LET s == getSymmetricKey(n) IN
  IF ~ sym THEN decrypt(n, cipher, FALSE) ELSE IF Failed(s) THEN s
  ELSE IF s.key = None THEN Fails("abort")
  ELSE [plain |-> IF cipher = s.key THEN cipher ELSE None]

-----------------------------------------------------------------------------
\* A killed process takes its keychain with it.
KeychainNext ==
  \/ \E p \in Procs :
       \/ (Step(p) \/ Call(p)) /\ UNCHANGED encVars
       \/ /\ Crash(p)
          /\ manager' = [manager EXCEPT ![p] = None]
          /\ UNCHANGED <<mkTable, masterKeys, symFiles, ciphers>>
       \/ NewManager(p) \/ MasterTable(p) \/ CreateMaster(p) \/ TestSymFile(p)
       \/ WriteSymFile(p) \/ InsertMaster(p) \/ SelectMaster(p)
       \/ \E k \in KeyNames : CreateSymKey(p, k)
  \/ Tick /\ UNCHANGED encVars

KeychainSpec == KeychainInit /\ [][KeychainNext]_allVars

-----------------------------------------------------------------------------
(* Properties. *)

\* A signature made under a certificate verifies with it: in every state that
\* concurrent operations, exceptions and killed processes lead to, what
\* signByCertificate, createIdentityCertificate, selfSign and signByIdentity
\* return is made with the private half of the key in the certificate it points
\* to, signing for an identity uses a key of that identity, and what is
\* encrypted with a key on record is decrypted with it.  Keys that two processes
\* generated in one second are excepted: their two files may be of two pairs.
SignatureVerifies ==
  LET Verifies(s, pubs) == Failed(s) \/ s.locator \in contested \/ s.by \in pubs IN
  /\ \A c \in certs : /\ Verifies(signByCertificate(CertName(c)), {c.pub})
                      /\ \A k \in KeyNames :
                           Verifies(createIdentityCertificate(k, CertName(c)), {c.pub})
  /\ \A k \in KeyNames : Verifies(selfSign(k), {getKey(k)})
  /\ \A i \in Identities : \A s \in signByIdentity(i) :
       Failed(s) \/ (IdOf(s.locator) = i /\ Verifies(s, {getKey(s.locator)}))
  /\ \A k \in KeyNames : doesKeyExist(k) /\ k \notin contested =>
       LET c == managerEncrypt(k, FALSE) IN
       ~ Failed(c) /\ managerDecrypt(k, c.cipher, FALSE) = [plain |-> getKey(k)]

\* A row of MasterKey, and the default key of a running manager that has one, has
\* its file, however the constructors of several processes interleave and
\* wherever one is killed or finds the database busy; and the table is without a
\* row only if a process is at making it, one was killed, or the database was
\* busy when the row was to be inserted.  (A manager built in the meantime has no
\* default key.)
MasterKeyOnDisk ==
  /\ masterKeys \subseteq symFiles
  /\ \A p \in Procs : manager[p] \notin {None, 0} => ~ Failed(encrypt(manager[p], TRUE))
  /\ mkTable /\ masterKeys = {} =>
       \/ crashes > 0 \/ "MasterKey" \in skipped
       \/ \E p \in Procs : proc[p].pc \in {"testSymFile", "writeSymFile", "insertMaster"}

\* There are never two default identities, two default keys of an identity or
\* two default certificates of a key, unless the last call that set one overlapped
\* with another or found the database busy when it was to clear the old one: the
\* next undisturbed call mends it.
DefaultsUnique ==
  /\ <<>> \notin unsettled => Cardinality(getAllIdentities(TRUE)) <= 1
  /\ \A i \in Identities : <<i>> \notin unsettled => Cardinality(getAllKeyNamesOfIdentity(i, TRUE)) <= 1
  /\ \A k \in KeyNames : k \notin unsettled => Cardinality(getAllCertificateNamesOfKey(k, TRUE)) <= 1
=============================================================================
