--------------------------- MODULE IdentityStore ---------------------------
(***************************************************************************)
(* IdentityManager over BasicIdentityStorage (an SQLite database in        *)
(* ~/.ndnx) and SimpleKeyStore (one file per half of a key pair).          *)
(*                                                                         *)
(* Database and files outlive the programs that use them and are shared by *)
(* all Keychains of a user; nothing locks them across statements and there *)
(* are no transactions.  An action is one SQL statement or one file        *)
(* operation of one process; a process may be killed between any two of    *)
(* them.  An exception ends the operation and undoes nothing.              *)
(*                                                                         *)
(* While another connection has the database locked a statement returns    *)
(* SQLITE_BUSY.  No busy handler is set and the result is not looked at:   *)
(* the statement does nothing, a query finds nothing, the caller goes on.  *)
(*                                                                         *)
(* A key name is the identity and the second in which getNewKeyName ran.   *)
(* Key material is the number of the generation that made it.  Rows are    *)
(* never deleted by the code.                                              *)
(***************************************************************************)
EXTENDS Naturals, FiniteSets

CONSTANTS Identities, Procs, None,
          Versions,   \* bound: certificate versions
          MaxTime,    \* bound: seconds; 0 is the past
          MaxOps,     \* bound: operations begun
          MaxFaults   \* bound: processes killed and statements that found the database busy

ASSUME BoundAssumption == MaxTime \in Nat \ {0} /\ MaxOps \in Nat /\ MaxFaults \in Nat
ASSUME NoneAssumption == None \notin Identities \cup Nat

KeyNames == Identities \X (0..MaxTime)

VARIABLES ids, defIds,        \* Identity rows, those with default_identity = 1
          keyRow, defKeys,    \* Key rows: name -> public key; those with default_key = 1
          certs, defCerts,    \* Certificate rows [key, version, pub], the default ones
          pri, pub, locked,   \* the key files, and the names whose files are read-only
          proc,               \* what each process is doing
          clock, ops, crashes, busy,
          contested,          \* history: key names two processes generated at once
          unsettled,          \* history: whose default was not cleared, or while another process
                              \* was setting it, when it was last set: <<>> for the identity,
                              \* <<i>> for i's key, a key name for its certificate
          skipped             \* history: the rows a busy database did not take: identities
                              \* and "MasterKey"

vars == <<ids, defIds, keyRow, defKeys, certs, defCerts, pri, pub, locked, proc,
          clock, ops, crashes, busy, contested, unsettled, skipped>>

idVars     == <<ids, defIds>>
keyVars    == <<keyRow, defKeys>>
certVars   == <<certs, defCerts>>
fileVars   == <<pri, pub, locked>>
boundVars  == <<clock, ops, crashes>>
histVars   == <<contested, unsettled, skipped>>

IdOf(k) == k[1]

Material == 0..MaxOps

Certificates == [key : KeyNames, version : Versions, pub : Material]

\* pc: the next statement; id, key, gen, cert: arguments and locals; next: where
\* addIdentity returns to; then: the default settings still to be made.
IdleProc == [pc |-> "idle", id |-> None, key |-> None, gen |-> None, cert |-> None,
             next |-> "idle", then |-> {}]

\* The database as earlier runs left it: some identities with a default key.
Init == \E old \in SUBSET Identities :
  LET oldKeys == old \X {0}
      files == [k \in KeyNames |-> IF k \in oldKeys THEN 0 ELSE None] IN
  /\ ids = old /\ defIds = {}
  /\ keyRow = files /\ defKeys = oldKeys
  /\ certs = {} /\ defCerts = {}
  /\ pri = files /\ pub = files /\ locked = oldKeys
  /\ proc = [p \in Procs |-> IdleProc]
  /\ clock = 1 /\ ops = 0 /\ crashes = 0 /\ busy = 0
  /\ contested = {} /\ unsettled = {} /\ skipped = {}

At(p, l) == proc[p].pc = l
Goto(p, l) == proc' = [proc EXCEPT ![p].pc = l]
Return(p) == proc' = [proc EXCEPT ![p] = IdleProc]

\* The first default setting the operation still has to make, if any.
ThenDefaults(p) == IF "key" \in proc[p].then THEN "clearKey"
                   ELSE IF "cert" \in proc[p].then THEN "clearCert" ELSE "idle"

Proceed(p, l) == IF l = "idle" THEN Return(p) ELSE Goto(p, l)

\* A statement that is executed, and one that is not.
Executed == UNCHANGED busy
Busy == crashes + busy < MaxFaults /\ busy' = busy + 1

\* What a query tells its caller: there is such a row, or there seems to be none.
Hits(row) == row /\ Executed
Misses(noRow) == (noRow /\ Executed) \/ Busy

-----------------------------------------------------------------------------
(* Operations of the application. *)

Begin(p, r) == /\ At(p, "idle") /\ ops < MaxOps
               /\ ops' = ops + 1
               /\ proc' = [proc EXCEPT ![p] = r]
               /\ UNCHANGED <<idVars, keyVars, certVars, fileVars, clock, crashes, histVars>>

\* createIdentity throws for an identity that exists.
CreateIdentity(p, i) ==
  \/ Hits(i \in ids) /\ Begin(p, IdleProc)
  \/ /\ Misses(i \notin ids)
     /\ Begin(p, [IdleProc EXCEPT !.pc = "addIdentity", !.id = i, !.next = "newName",
                                  !.gen = ops + 1, !.then = {"key"}])

\* generateRSAKeyPair and generateRSAKeyPairAsDefault.
GenerateRSAKeyPair(p, i, dflt) ==
  Executed /\ Begin(p, [IdleProc EXCEPT !.pc = "newName", !.id = i, !.gen = ops + 1, !.then = dflt])

\* setDefaultKeyForIdentity: whether the key exists is not looked at.
SetDefaultKeyForIdentity(p, k) ==
  /\ Executed
  /\ Begin(p, [IdleProc EXCEPT !.pc = "clearKey", !.id = IdOf(k), !.key = k, !.then = {"key"}])

\* addCertificate, addCertificateAsDefault, addCertificateAsIdentityDefault.
AddCertificate(p, c, dflt) ==
  /\ Executed
  /\ Begin(p, [IdleProc EXCEPT !.pc = "testCert", !.id = IdOf(c.key), !.key = c.key, !.cert = c,
                               !.then = dflt])

\* setDefaultCertificateForKey: only the key must be on record.
SetDefaultCertificateForKey(p, c) ==
  \/ Misses(keyRow[c.key] = None) /\ Begin(p, IdleProc)
  \/ /\ Hits(keyRow[c.key] # None)
     /\ Begin(p, [IdleProc EXCEPT !.pc = "clearCert", !.key = c.key, !.cert = c])

SetDefaultIdentity(p, i) == Executed /\ Begin(p, [IdleProc EXCEPT !.pc = "clearId", !.id = i])

-----------------------------------------------------------------------------
(* BasicIdentityStorage::addIdentity: a query, then an insertion that the    *)
(* primary key makes void when another process was faster.                   *)

AddIdentity(p) == /\ At(p, "addIdentity")
                  /\ \/ Hits(proc[p].id \in ids) /\ Return(p)
                     \/ Misses(proc[p].id \notin ids) /\ Goto(p, "insertIdentity")
                  /\ UNCHANGED <<idVars, keyVars, certVars, fileVars, boundVars, histVars>>

InsertIdentity(p) ==
  /\ At(p, "insertIdentity")
  /\ \/ Executed /\ ids' = ids \cup {proc[p].id} /\ UNCHANGED skipped
     \/ Busy /\ skipped' = skipped \cup {proc[p].id} /\ UNCHANGED ids
  /\ Goto(p, proc[p].next)
  /\ UNCHANGED <<defIds, keyVars, certVars, fileVars, boundVars, contested, unsettled>>

-----------------------------------------------------------------------------
(* generateKeyPair. *)

GetNewKeyName(p) ==
  LET k == <<proc[p].id, clock>> IN
  /\ At(p, "newName")
  /\ \/ Hits(keyRow[k] # None) /\ Return(p)
     \/ /\ Misses(keyRow[k] = None)
        /\ proc' = [proc EXCEPT ![p] = [@ EXCEPT !.pc = "checkFiles", !.key = k]]
  /\ UNCHANGED <<idVars, keyVars, certVars, fileVars, boundVars, histVars>>

\* Mutant: existing key files are not looked for.
CheckFiles_Skip(p) ==
  /\ At(p, "checkFiles")
  /\ Goto(p, "writePri")
  /\ UNCHANGED <<idVars, keyVars, certVars, fileVars, boundVars, busy, histVars>>

\* SimpleKeyStore::generateKeyPair, up to the generation.
CheckFiles(p) ==
  LET k == proc[p].key
      rivals == {q \in Procs \ {p} : At(q, "writePri") /\ proc[q].key = k} IN
  /\ At(p, "checkFiles")
  /\ IF pub[k] # None \/ pri[k] # None
       THEN Return(p) /\ UNCHANGED contested
       ELSE /\ Goto(p, "writePri")
            /\ contested' = IF rivals = {} THEN contested ELSE contested \cup {k}
  /\ UNCHANGED <<idVars, keyVars, certVars, fileVars, boundVars, busy, unsettled, skipped>>

\* Writing to a file that is read-only throws.
WritePrivate(p) ==
  LET k == proc[p].key IN
  /\ At(p, "writePri")
  /\ IF k \in locked
       THEN Return(p) /\ UNCHANGED pri
       ELSE pri' = [pri EXCEPT ![k] = proc[p].gen] /\ Goto(p, "writePub")
  /\ UNCHANGED <<idVars, keyVars, certVars, pub, locked, boundVars, busy, histVars>>

WritePublic(p) ==
  LET k == proc[p].key IN
  /\ At(p, "writePub")
  /\ IF k \in locked
       THEN Return(p) /\ UNCHANGED pub
       ELSE pub' = [pub EXCEPT ![k] = proc[p].gen] /\ Goto(p, "chmod")
  /\ UNCHANGED <<idVars, keyVars, certVars, pri, locked, boundVars, busy, histVars>>

\* chmod, then getPublickey() reads the file back.
ChmodAndRead(p) ==
  /\ At(p, "chmod")
  /\ locked' = locked \cup {proc[p].key}
  /\ proc' = [proc EXCEPT ![p] = [@ EXCEPT !.pc = "addKey", !.gen = pub[proc[p].key]]]
  /\ UNCHANGED <<idVars, keyVars, certVars, pri, pub, boundVars, busy, histVars>>

\* addKey: the identity's row is made if need be, ...
AddKey(p) ==
  /\ At(p, "addKey")
  /\ \/ Hits(proc[p].id \in ids) /\ Goto(p, "testKey")
     \/ /\ Misses(proc[p].id \notin ids)
        /\ proc' = [proc EXCEPT ![p] = [@ EXCEPT !.pc = "addIdentity", !.next = "testKey"]]
  /\ UNCHANGED <<idVars, keyVars, certVars, fileVars, boundVars, histVars>>

\* ... the key must be new, ...
TestKey(p) ==
  /\ At(p, "testKey")
  /\ \/ Hits(keyRow[proc[p].key] # None) /\ Return(p)
     \/ Misses(keyRow[proc[p].key] = None) /\ Goto(p, "insertKey")
  /\ UNCHANGED <<idVars, keyVars, certVars, fileVars, boundVars, histVars>>

\* ... and is inserted, unless another process was faster.
InsertKey(p) ==
  /\ At(p, "insertKey")
  /\ \/ Executed /\ keyRow' = [keyRow EXCEPT ![proc[p].key] = IF @ = None THEN proc[p].gen ELSE @]
     \/ Busy /\ UNCHANGED keyRow
  /\ Proceed(p, ThenDefaults(p))
  /\ UNCHANGED <<idVars, defKeys, certVars, fileVars, boundVars, histVars>>

-----------------------------------------------------------------------------
(* addCertificate. *)

DoesCertificateExist(k, v) == \E c \in certs : c.key = k /\ c.version = v

\* No key, a certificate of that name, or another public key: exceptions.
TestCertificate(p) ==
  LET c == proc[p].cert IN
  /\ At(p, "testCert")
  /\ \/ Misses(keyRow[c.key] # c.pub) /\ Return(p)
     \/ Hits(DoesCertificateExist(c.key, c.version)) /\ Return(p)
     \/ /\ keyRow[c.key] = c.pub /\ Misses(~ DoesCertificateExist(c.key, c.version))
        /\ Goto(p, "insertCert")
  /\ UNCHANGED <<idVars, keyVars, certVars, fileVars, boundVars, histVars>>

InsertCertificate(p) ==
  LET c == proc[p].cert IN
  /\ At(p, "insertCert")
  /\ \/ /\ Executed
        /\ certs' = IF DoesCertificateExist(c.key, c.version) THEN certs ELSE certs \cup {c}
     \/ Busy /\ UNCHANGED certs
  /\ Proceed(p, ThenDefaults(p))
  /\ UNCHANGED <<idVars, keyVars, defCerts, fileVars, boundVars, histVars>>

-----------------------------------------------------------------------------
(* Setting defaults: one UPDATE clears, a second one sets. *)

\* Another process is between the two statements for the same owner.
Overlaps(p, l, f) == \E q \in Procs \ {p} : At(q, l) /\ proc[q][f] = proc[p][f]

\* The owner's default was cleared, alone or not; it was not.
Cleared(owner, alone) ==
  Executed /\ unsettled' = IF alone THEN unsettled \ {owner} ELSE unsettled \cup {owner}
NotCleared(owner) == Busy /\ unsettled' = unsettled \cup {owner}

ClearDefaultId(p) ==
  /\ At(p, "clearId")
  /\ \/ Cleared(<<>>, ~ \E q \in Procs \ {p} : At(q, "setId")) /\ defIds' = {}
     \/ NotCleared(<<>>) /\ UNCHANGED defIds
  /\ Goto(p, "setId")
  /\ UNCHANGED <<ids, keyVars, certVars, fileVars, boundVars, contested, skipped>>

SetDefaultId(p) ==
  /\ At(p, "setId")
  /\ \/ Executed /\ defIds' = defIds \cup ({proc[p].id} \cap ids)
     \/ Busy /\ UNCHANGED defIds
  /\ Return(p)
  /\ UNCHANGED <<ids, keyVars, certVars, fileVars, boundVars, histVars>>

\* Mutant: the previous default key stays one.
ClearDefaultKey_Keep(p) ==
  /\ At(p, "clearKey")
  /\ Goto(p, "setKey")
  /\ UNCHANGED <<idVars, keyVars, certVars, fileVars, boundVars, busy, histVars>>

\* setDefaultKeyNameForIdentity
ClearDefaultKey(p) ==
  /\ At(p, "clearKey")
  /\ \/ /\ Cleared(<<proc[p].id>>, ~ Overlaps(p, "setKey", "id"))
        /\ defKeys' = {k \in defKeys : IdOf(k) # proc[p].id}
     \/ NotCleared(<<proc[p].id>>) /\ UNCHANGED defKeys
  /\ Goto(p, "setKey")
  /\ UNCHANGED <<idVars, keyRow, certVars, fileVars, boundVars, contested, skipped>>

SetDefaultKey(p) ==
  /\ At(p, "setKey")
  /\ \/ Executed /\ defKeys' = defKeys \cup {k \in {proc[p].key} : keyRow[k] # None}
     \/ Busy /\ UNCHANGED defKeys
  /\ Proceed(p, IF "cert" \in proc[p].then THEN "clearCert" ELSE "idle")
  /\ UNCHANGED <<idVars, keyRow, certVars, fileVars, boundVars, histVars>>

\* setDefaultCertificateNameForKey
ClearDefaultCert(p) ==
  /\ At(p, "clearCert")
  /\ \/ /\ Cleared(proc[p].key, ~ Overlaps(p, "setCert", "key"))
        /\ defCerts' = {c \in defCerts : c.key # proc[p].key}
     \/ NotCleared(proc[p].key) /\ UNCHANGED defCerts
  /\ Goto(p, "setCert")
  /\ UNCHANGED <<idVars, keyVars, certs, fileVars, boundVars, contested, skipped>>

SetDefaultCert(p) ==
  /\ At(p, "setCert")
  /\ \/ /\ Executed
        /\ defCerts' = defCerts \cup {c \in certs : /\ c.key = proc[p].key
                                                   /\ c.version = proc[p].cert.version}
     \/ Busy /\ UNCHANGED defCerts
  /\ Return(p)
  /\ UNCHANGED <<idVars, keyVars, certs, fileVars, boundVars, histVars>>

-----------------------------------------------------------------------------
Crash(p) == /\ ~ At(p, "idle") /\ crashes + busy < MaxFaults
            /\ crashes' = crashes + 1
            /\ Return(p)
            /\ UNCHANGED <<idVars, keyVars, certVars, fileVars, clock, ops, busy, histVars>>

Tick == /\ clock < MaxTime
        /\ clock' = clock + 1
        /\ UNCHANGED <<idVars, keyVars, certVars, fileVars, proc, ops, crashes, busy, histVars>>

Step(p) == \/ AddIdentity(p) \/ InsertIdentity(p)
           \/ GetNewKeyName(p) \/ CheckFiles(p) \/ WritePrivate(p) \/ WritePublic(p)
           \/ ChmodAndRead(p) \/ AddKey(p) \/ TestKey(p) \/ InsertKey(p)
           \/ TestCertificate(p) \/ InsertCertificate(p)
           \/ ClearDefaultId(p) \/ SetDefaultId(p)
           \/ ClearDefaultKey(p) \/ SetDefaultKey(p)
           \/ ClearDefaultCert(p) \/ SetDefaultCert(p)

Call(p) == \/ \E i \in Identities : \/ CreateIdentity(p, i) \/ SetDefaultIdentity(p, i)
                                    \/ \E dflt \in {{}, {"key"}} : GenerateRSAKeyPair(p, i, dflt)
           \/ \E k \in KeyNames : SetDefaultKeyForIdentity(p, k)
           \/ \E c \in Certificates :
                /\ c.pub \in {pub[k] : k \in KeyNames}
                /\ \/ \E dflt \in {{}, {"cert"}, {"key", "cert"}} : AddCertificate(p, c, dflt)
                   \/ SetDefaultCertificateForKey(p, c)

Next == (\E p \in Procs : Step(p) \/ Call(p) \/ Crash(p)) \/ Tick

Spec == Init /\ [][Next]_vars

-----------------------------------------------------------------------------
(* Properties. *)

Rows == {k \in KeyNames : keyRow[k] # None}

\* "It is the responsibility of IdentityManager to keep the consistency between
\* the public storage and private storage" (index.rst:211): whatever is killed,
\* thrown or skipped half-way, a key on record has a private and a public key
\* file, which form one pair unless two processes generated the key in the same
\* second; and its identity is on record unless the database was busy when that
\* row was to be inserted.
StoragesConsistent ==
  \A k \in Rows : /\ IdOf(k) \in ids \cup skipped
                  /\ pri[k] # None /\ pub[k] # None
                  /\ k \notin contested => keyRow[k] = pub[k] /\ pri[k] = pub[k]

=============================================================================
