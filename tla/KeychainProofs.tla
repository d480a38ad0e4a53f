--------------------------- MODULE KeychainProofs ---------------------------
(***************************************************************************)
(* The storages and the Keychain for every set of identities, processes    *)
(* and certificate versions, any number of operations, of processes killed *)
(* and of statements that a busy database did not execute.                 *)
(* KeychainInv is the inductive invariant, in four parts:                  *)
(*   Calls     what a process between two statements has in its locals;    *)
(*   Storages  what it knows of the files and rows it is about to use, and *)
(*             that two processes write one key's files only if contested; *)
(*   Defaults  who is between clearing and setting a default;              *)
(*   Masters   where the master keys are.                                  *)
(***************************************************************************)
EXTENDS Keychain, FiniteSetTheorems, TLAPS

Writing == {"writePri", "writePub", "chmod"}
Filing == {"addKey", "testKey", "insertKey"}
Adding == {"addIdentity", "insertIdentity"}
OfCert == {"testCert", "insertCert", "clearCert", "setCert"}
OfDefault == {"clearKey", "setKey", "clearId", "setId"}
OfMaster == {"masterTable", "selectMaster", "createMaster", "testSymFile", "writeSymFile", "insertMaster"}

PCs == {"idle", "newName", "checkFiles"} \cup Writing \cup Filing \cup Adding
       \cup OfCert \cup OfDefault \cup OfMaster

Processes == [pc : PCs, id : Identities \cup {None}, key : KeyNames \cup {None},
              gen : Nat \cup {None}, cert : Certificates \cup {None},
              next : {"idle", "newName", "testKey"}, then : SUBSET {"key", "cert"}]

\* r is making a key and has its name; r is making a key.
Named(r) == r.pc \in {"checkFiles"} \cup Writing \cup Filing \/ (r.pc \in Adding /\ r.next = "testKey")
Making(r) == Named(r) \/ r.pc \in {"newName"} \cup Adding

TypeOK ==
  /\ ids \in SUBSET Identities
  /\ keyRow \in [KeyNames -> Nat \cup {None}]
  /\ pri \in [KeyNames -> Nat \cup {None}] /\ pub \in [KeyNames -> Nat \cup {None}]
  /\ defIds \in SUBSET Identities /\ defKeys \in SUBSET KeyNames
  /\ certs \in SUBSET Certificates /\ defCerts \in SUBSET Certificates
  /\ locked \in SUBSET KeyNames /\ contested \in SUBSET KeyNames
  /\ proc \in [Procs -> Processes]
  /\ clock \in 0..MaxTime /\ ops \in 0..MaxOps /\ crashes \in Nat /\ busy \in Nat

\* The locals of a process.
CallOK(r) ==
  /\ r.pc \in OfCert \/ "cert" \in r.then => r.cert \in Certificates /\ r.key = r.cert.key
  /\ Named(r) \/ r.pc \in {"clearKey", "setKey", "testCert", "insertCert"} =>
       r.key \in KeyNames /\ r.id \in Identities /\ IdOf(r.key) = r.id
  /\ Making(r) => r.id \in Identities /\ r.gen \in Nat /\ "cert" \notin r.then
  /\ r.pc \in {"clearId", "setId"} => r.id \in Identities
  /\ r.pc \in Adding => r.next \in {"newName", "testKey"}
  /\ r.pc \in {"testSymFile", "writeSymFile", "insertMaster"} => r.gen \in Nat

Calls == \A p \in Procs : CallOK(proc[p])

\* What a process knows of the files and the rows.
Knows(r) ==
  /\ r.pc = "writePub" => pri[r.key] # None /\ (r.key \notin contested => pri[r.key] = r.gen)
  /\ r.pc = "chmod" => /\ pri[r.key] # None /\ pub[r.key] # None
                       /\ r.key \notin contested => pri[r.key] = r.gen /\ pub[r.key] = r.gen
  /\ r.pc \in Filing \/ (r.pc \in Adding /\ r.next = "testKey") =>
       r.key \in locked /\ pub[r.key] = r.gen
  /\ r.pc \in {"testKey", "insertKey"} => r.id \in ids \cup skipped
  /\ r.pc = "insertCert" => keyRow[r.cert.key] = r.cert.pub

\* Read-only files are complete; a row has its files; a certificate its key.
Files == \A k \in locked : /\ pri[k] # None /\ pub[k] # None
                           /\ k \notin contested => pri[k] = pub[k]
KeyRows == \A k \in Rows : k \in locked /\ keyRow[k] = pub[k] /\ IdOf(k) \in ids \cup skipped
CertRows == \A c \in certs : keyRow[c.key] = c.pub
Known == \A p \in Procs : Knows(proc[p])

\* Two processes write the files of one key only if it is contested.
Exclusive == \A p, q \in Procs :
  p # q /\ proc[p].pc \in Writing /\ proc[q].pc \in Writing /\ proc[p].key = proc[q].key
  => proc[p].key \in contested

Storages == Files /\ KeyRows /\ CertRows /\ Known /\ Exclusive

\* Between the two UPDATEs there is no default, and nobody else is there, once
\* the default was cleared undisturbed.
OneId == <<>> \notin unsettled =>
  /\ \A i, j \in defIds : i = j
  /\ \A p \in Procs : At(p, "setId") => defIds = {} /\ \A q \in Procs : At(q, "setId") => q = p

OneKey == \A i \in Identities : <<i>> \notin unsettled =>
  /\ \A k, l \in defKeys : IdOf(k) = i /\ IdOf(l) = i => k = l
  /\ \A p \in Procs : At(p, "setKey") /\ proc[p].id = i =>
       /\ \A k \in defKeys : IdOf(k) # i
       /\ \A q \in Procs : At(q, "setKey") /\ proc[q].id = i => q = p

OneCert == \A n \in KeyNames : n \notin unsettled =>
  /\ \A c, d \in defCerts : c.key = n /\ d.key = n => c.version = d.version
  /\ \A p \in Procs : At(p, "setCert") /\ proc[p].key = n =>
       /\ \A c \in defCerts : c.key # n
       /\ \A q \in Procs : At(q, "setCert") /\ proc[q].key = n => q = p

Defaults == OneId /\ OneKey /\ OneCert

AtMaster == {"testSymFile", "writeSymFile", "insertMaster"}

\* A row, and the default key of a manager, have their file; a file has its row,
\* or the process that writes the row is on its way, or one was killed or its row
\* not taken.
MasterFiles ==
  /\ masterKeys \subseteq symFiles
  /\ manager \in [Procs -> symFiles \cup {None, 0}]
  /\ \A p \in Procs : At(p, "insertMaster") => proc[p].gen \in symFiles
FileRows == \A f \in symFiles : \/ f \in masterKeys \/ crashes > 0 \/ "MasterKey" \in skipped
                                \/ \E p \in Procs : At(p, "insertMaster") /\ proc[p].gen = f
TableUsed == mkTable /\ masterKeys = {} =>
  crashes > 0 \/ "MasterKey" \in skipped \/ \E p \in Procs : proc[p].pc \in AtMaster

Masters == MasterFiles /\ FileRows /\ TableUsed

KeychainInv == TypeOK /\ Calls /\ Storages /\ Defaults /\ Masters

-----------------------------------------------------------------------------
(* What a statement does to the locals of the processes. *)

Others(p) == \A q \in Procs : q # p => proc'[q] = proc[q]

\* r is s with another program counter.
Moved(r, s, l) ==
  r.pc = l /\ r.id = s.id /\ r.key = s.key /\ r.gen = s.gen /\ r.cert = s.cert
  /\ r.next = s.next /\ r.then = s.then

\* The process that ends its operation forgets everything.
LEMMA IdleProcess ==
  /\ IdleProc \in Processes
  /\ IdleProc.pc = "idle" /\ IdleProc.id = None /\ IdleProc.key = None /\ IdleProc.gen = None
  /\ IdleProc.cert = None /\ IdleProc.next = "idle" /\ IdleProc.then = {}
  /\ CallOK(IdleProc)
  BY DEF IdleProc, Processes, PCs, CallOK, Named, Making, OfCert, Writing, Filing, Adding

\* Return: the other processes keep their locals.
LEMMA ReturnEffect ==
  ASSUME proc \in [Procs -> Processes], NEW p \in Procs, Return(p)
  PROVE  proc' \in [Procs -> Processes] /\ Others(p) /\ proc'[p] = IdleProc
  BY IdleProcess DEF Return, Others

\* Goto: one process moves to another statement and keeps its locals.
LEMMA GotoEffect ==
  ASSUME proc \in [Procs -> Processes], NEW p \in Procs, NEW l \in PCs, Goto(p, l)
  PROVE  proc' \in [Procs -> Processes] /\ Others(p) /\ Moved(proc'[p], proc[p], l)
  BY DEF Goto, Others, Moved, Processes

\* Begin: an idle process gets the locals of its operation.
LEMMA BeginEffect ==
  ASSUME proc \in [Procs -> Processes], NEW p \in Procs, NEW r \in Processes, Begin(p, r)
  PROVE  proc' \in [Procs -> Processes] /\ Others(p) /\ proc'[p] = r /\ proc[p].pc = "idle"
  BY DEF Begin, At, Others

-----------------------------------------------------------------------------
(* The locals of the processes. *)

\* What an operation begins with.
LEMMA BeginRecords ==
  ASSUME TypeOK, ops < MaxOps
  PROVE  /\ \A i \in Identities :
              LET r == [IdleProc EXCEPT !.pc = "addIdentity", !.id = i, !.next = "newName",
                                        !.gen = ops + 1, !.then = {"key"}]
              IN  r \in Processes /\ CallOK(r) /\ r.pc = "addIdentity" /\ r.next = "newName"
         /\ \A i \in Identities, dflt \in {{}, {"key"}} :
              LET r == [IdleProc EXCEPT !.pc = "newName", !.id = i, !.gen = ops + 1, !.then = dflt]
              IN  r \in Processes /\ CallOK(r) /\ r.pc = "newName"
         /\ \A k \in KeyNames :
              LET r == [IdleProc EXCEPT !.pc = "clearKey", !.id = IdOf(k), !.key = k, !.then = {"key"}]
              IN  r \in Processes /\ CallOK(r) /\ r.pc = "clearKey"
         /\ \A c \in Certificates, dflt \in {{}, {"cert"}, {"key", "cert"}} :
              LET r == [IdleProc EXCEPT !.pc = "testCert", !.id = IdOf(c.key), !.key = c.key,
                                        !.cert = c, !.then = dflt]
              IN  r \in Processes /\ CallOK(r) /\ r.pc = "testCert"
         /\ \A c \in Certificates :
              LET r == [IdleProc EXCEPT !.pc = "clearCert", !.key = c.key, !.cert = c]
              IN  r \in Processes /\ CallOK(r) /\ r.pc = "clearCert"
         /\ \A i \in Identities :
              LET r == [IdleProc EXCEPT !.pc = "clearId", !.id = i]
              IN  r \in Processes /\ CallOK(r) /\ r.pc = "clearId"
         /\ LET r == [IdleProc EXCEPT !.pc = "masterTable"]
            IN  r \in Processes /\ CallOK(r) /\ r.pc = "masterTable"
<1> USE DEF IdleProc, Processes, PCs, CallOK, Named, Making, OfCert, OfDefault, OfMaster,
            Writing, Filing, Adding
<1>1. ops + 1 \in Nat
  BY BoundAssumption DEF TypeOK
<1>2. ASSUME NEW i \in Identities
      PROVE  LET r == [IdleProc EXCEPT !.pc = "addIdentity", !.id = i, !.next = "newName",
                                       !.gen = ops + 1, !.then = {"key"}]
             IN  r \in Processes /\ CallOK(r) /\ r.pc = "addIdentity" /\ r.next = "newName"
  BY <1>1
<1>3. ASSUME NEW i \in Identities, NEW dflt \in {{}, {"key"}}
      PROVE  LET r == [IdleProc EXCEPT !.pc = "newName", !.id = i, !.gen = ops + 1, !.then = dflt]
             IN  r \in Processes /\ CallOK(r) /\ r.pc = "newName"
  BY <1>1
<1>4. ASSUME NEW k \in KeyNames
      PROVE  LET r == [IdleProc EXCEPT !.pc = "clearKey", !.id = IdOf(k), !.key = k, !.then = {"key"}]
             IN  r \in Processes /\ CallOK(r) /\ r.pc = "clearKey"
  BY DEF KeyNames, IdOf
<1>5. ASSUME NEW c \in Certificates, NEW dflt \in {{}, {"cert"}, {"key", "cert"}}
      PROVE  LET r == [IdleProc EXCEPT !.pc = "testCert", !.id = IdOf(c.key), !.key = c.key,
                                       !.cert = c, !.then = dflt]
             IN  r \in Processes /\ CallOK(r) /\ r.pc = "testCert"
  <2>1. c.key \in KeyNames /\ IdOf(c.key) \in Identities
    BY DEF Certificates, KeyNames, IdOf
  <2> QED  BY <2>1
<1>6. ASSUME NEW c \in Certificates
      PROVE  LET r == [IdleProc EXCEPT !.pc = "clearCert", !.key = c.key, !.cert = c]
             IN  r \in Processes /\ CallOK(r) /\ r.pc = "clearCert"
  <2>1. c.key \in KeyNames
    BY DEF Certificates
  <2> QED  BY <2>1
<1>7. ASSUME NEW i \in Identities
      PROVE  LET r == [IdleProc EXCEPT !.pc = "clearId", !.id = i]
             IN  r \in Processes /\ CallOK(r) /\ r.pc = "clearId"
  OBVIOUS
<1>8. LET r == [IdleProc EXCEPT !.pc = "masterTable"]
      IN  r \in Processes /\ CallOK(r) /\ r.pc = "masterTable"
  OBVIOUS
<1> QED  BY <1>2, <1>3, <1>4, <1>5, <1>6, <1>7, <1>8

Entries == {"idle", "addIdentity", "newName", "clearKey", "testCert", "clearCert", "clearId", "masterTable"}

\* p begins an operation, whichever it is.
Starts(p) == \E r \in Processes : /\ Begin(p, r) /\ CallOK(r) /\ r.pc \in Entries /\ busy' \in Nat
                                  /\ r.pc = "addIdentity" => r.next = "newName"

\* Every operation of the application starts that way.
LEMMA CallStarts ==
  ASSUME TypeOK, NEW p \in Procs, Call(p) \/ NewManager(p)
  PROVE  Starts(p)
<1> USE DEF Starts, Entries
<1>1. ops < MaxOps
  BY DEF Call, NewManager, CreateIdentity, GenerateRSAKeyPair, SetDefaultKeyForIdentity,
         AddCertificate, SetDefaultCertificateForKey, SetDefaultIdentity, Begin
<1>b. busy' \in Nat
  <2>1. Executed \/ Busy
    BY DEF Call, NewManager, CreateIdentity, GenerateRSAKeyPair, SetDefaultKeyForIdentity, AddCertificate,
           SetDefaultCertificateForKey, SetDefaultIdentity, Hits, Misses
  <2> QED  BY <2>1 DEF Executed, Busy, TypeOK
<1>2. ASSUME NEW i \in Identities, CreateIdentity(p, i)
      PROVE  Starts(p)
  <2>1. CASE Begin(p, IdleProc)
    BY <1>b, <2>1, IdleProcess
  <2>2. CASE ~ Begin(p, IdleProc)
    <3> DEFINE r == [IdleProc EXCEPT !.pc = "addIdentity", !.id = i, !.next = "newName",
                                     !.gen = ops + 1, !.then = {"key"}]
    <3>1. r \in Processes /\ CallOK(r) /\ r.pc = "addIdentity" /\ r.next = "newName"
      BY <1>1, BeginRecords
    <3>2. Begin(p, r)
      BY <1>2, <2>2 DEF CreateIdentity
    <3> HIDE DEF r
    <3> QED  BY <3>1, <3>2, <1>b
  <2> QED  BY <2>1, <2>2
<1>3. ASSUME NEW i \in Identities, SetDefaultIdentity(p, i)
      PROVE  Starts(p)
  BY <1>1, <1>b, <1>3, BeginRecords DEF SetDefaultIdentity
<1>4. ASSUME NEW i \in Identities, NEW dflt \in {{}, {"key"}}, GenerateRSAKeyPair(p, i, dflt)
      PROVE  Starts(p)
  BY <1>1, <1>b, <1>4, BeginRecords DEF GenerateRSAKeyPair
<1>5. ASSUME NEW k \in KeyNames, SetDefaultKeyForIdentity(p, k)
      PROVE  Starts(p)
  BY <1>1, <1>b, <1>5, BeginRecords DEF SetDefaultKeyForIdentity
<1>6. ASSUME NEW c \in Certificates, NEW dflt \in {{}, {"cert"}, {"key", "cert"}},
             AddCertificate(p, c, dflt)
      PROVE  Starts(p)
  BY <1>1, <1>b, <1>6, BeginRecords DEF AddCertificate
<1>7. ASSUME NEW c \in Certificates, SetDefaultCertificateForKey(p, c)
      PROVE  Starts(p)
  <2>1. CASE Begin(p, IdleProc)
    BY <1>b, <2>1, IdleProcess
  <2>2. CASE ~ Begin(p, IdleProc)
    BY <1>1, <1>b, <1>7, <2>2, BeginRecords DEF SetDefaultCertificateForKey
  <2> QED  BY <2>1, <2>2
<1>8. ASSUME NewManager(p)
      PROVE  Starts(p)
  BY <1>1, <1>b, <1>8, BeginRecords DEF NewManager
<1> QED  BY <1>2, <1>3, <1>4, <1>5, <1>6, <1>7, <1>8 DEF Call

\* The types, and the locals of the process that takes a statement.
LEMMA CallsStep ==
  ASSUME TypeOK, Calls, Storages, NEW p \in Procs, Step(p)
  PROVE  proc' \in [Procs -> Processes] /\ Others(p) /\ CallOK(proc'[p])
<1> USE DEF TypeOK, Moved, Processes
<1>c. CallOK(proc[p])
  BY DEF Calls
<1>r. ASSUME Return(p)
      PROVE  proc' \in [Procs -> Processes] /\ Others(p) /\ CallOK(proc'[p])
  BY <1>r, ReturnEffect, IdleProcess
<1> DEFINE Goal == proc' \in [Procs -> Processes] /\ Others(p) /\ CallOK(proc'[p])
           PC(l) == l \in PCs
<1>pc. /\ PC("insertIdentity") /\ PC("newName") /\ PC("testKey") /\ PC("writePri") /\ PC("writePub")
       /\ PC("chmod") /\ PC("insertKey") /\ PC("insertCert") /\ PC("setId") /\ PC("setKey")
       /\ PC("setCert") /\ PC("clearKey") /\ PC("clearCert") /\ PC("addIdentity") /\ PC("addKey")
       /\ PC("checkFiles")
  BY DEF PCs, Writing, Filing, Adding, OfCert, OfDefault
<1> HIDE DEF PC
<1>1. CASE AddIdentity(p)
  <2>1. CASE Return(p)  BY <2>1, <1>r
  <2>2. CASE Goto(p, "insertIdentity")
    BY <2>2, <1>1, <1>c, <1>pc, GotoEffect
       DEF AddIdentity, At, CallOK, Named, Making, Writing, Filing, Adding, OfCert, PC
  <2> QED  BY <1>1, <2>1, <2>2 DEF AddIdentity
<1>2. CASE InsertIdentity(p)
  <2>1. proc[p].next \in {"newName", "testKey"}
    BY <1>2, <1>c DEF InsertIdentity, At, CallOK, Adding
  <2> QED
    BY <2>1, <1>2, <1>c, <1>pc, GotoEffect
       DEF InsertIdentity, At, CallOK, Named, Making, Writing, Filing, Adding, OfCert, PC
<1>3. CASE GetNewKeyName(p)
  <2> DEFINE k == <<proc[p].id, clock>>
  <2>1. CASE Return(p)  BY <2>1, <1>r
  <2>2. CASE proc' = [proc EXCEPT ![p] = [@ EXCEPT !.pc = "checkFiles", !.key = k]]
    <3>1. proc[p].id \in Identities /\ k \in KeyNames /\ IdOf(k) = proc[p].id /\ proc[p].pc = "newName"
      BY <1>3, <1>c DEF GetNewKeyName, At, CallOK, Making, KeyNames, IdOf
    <3> HIDE DEF k
    <3>2. [proc[p] EXCEPT !.pc = "checkFiles", !.key = k] \in Processes
      BY <3>1, <1>pc DEF PC
    <3>3. proc'[p] = [proc[p] EXCEPT !.pc = "checkFiles", !.key = k] /\ Others(p)
          /\ proc' \in [Procs -> Processes]
      BY <2>2, <3>2 DEF Others
    <3>4. /\ proc'[p].pc = "checkFiles" /\ proc'[p].key = k /\ proc'[p].id = proc[p].id
          /\ proc'[p].gen = proc[p].gen /\ proc'[p].then = proc[p].then
      BY <3>3
    <3> QED
      BY <3>1, <3>3, <3>4, <1>c DEF CallOK, Named, Making, Writing, Filing, Adding, OfCert
  <2> QED  BY <1>3, <2>1, <2>2 DEF GetNewKeyName
<1>4. CASE CheckFiles(p)
  <2>1. CASE Return(p)  BY <2>1, <1>r
  <2>2. CASE Goto(p, "writePri")
    BY <2>2, <1>4, <1>c, <1>pc, GotoEffect
       DEF CheckFiles, At, CallOK, Named, Making, Writing, Filing, Adding, OfCert, PC
  <2> QED  BY <1>4, <2>1, <2>2 DEF CheckFiles
<1>5. CASE WritePrivate(p)
  <2>1. CASE Return(p)  BY <2>1, <1>r
  <2>2. CASE Goto(p, "writePub")
    BY <2>2, <1>5, <1>c, <1>pc, GotoEffect
       DEF WritePrivate, At, CallOK, Named, Making, Writing, Filing, Adding, OfCert, PC
  <2> QED  BY <1>5, <2>1, <2>2 DEF WritePrivate
<1>6. CASE WritePublic(p)
  <2>1. CASE Return(p)  BY <2>1, <1>r
  <2>2. CASE Goto(p, "chmod")
    BY <2>2, <1>6, <1>c, <1>pc, GotoEffect
       DEF WritePublic, At, CallOK, Named, Making, Writing, Filing, Adding, OfCert, PC
  <2> QED  BY <1>6, <2>1, <2>2 DEF WritePublic
<1>7. CASE ChmodAndRead(p)
  <2> DEFINE g == pub[proc[p].key]
             r == [proc[p] EXCEPT !.pc = "addKey", !.gen = g]
  <2>1. proc[p].pc = "chmod" /\ Knows(proc[p]) /\ proc[p].key \in KeyNames
    BY <1>7, <1>c DEF ChmodAndRead, At, Storages, Known, CallOK, Named, Writing
  <2>2. g \in Nat
    BY <2>1 DEF Knows
  <2> HIDE DEF g
  <2>3. r \in Processes /\ Moved([r EXCEPT !.gen = proc[p].gen], proc[p], "addKey") /\ r.gen = g
        /\ r.pc = "addKey" /\ r.key = proc[p].key /\ r.id = proc[p].id /\ r.then = proc[p].then
    BY <2>2, <1>pc DEF PC
  <2>4. proc' = [proc EXCEPT ![p] = r]
    BY <1>7 DEF ChmodAndRead, g
  <2> HIDE DEF r
  <2>5. proc'[p] = r /\ Others(p) /\ proc' \in [Procs -> Processes]
    BY <2>3, <2>4 DEF Others
  <2> QED
    BY <2>1, <2>2, <2>3, <2>5, <1>c DEF CallOK, Named, Making, Writing, Filing, Adding, OfCert
<1>8. CASE AddKey(p)
  <2>1. CASE Goto(p, "testKey")
    BY <2>1, <1>8, <1>c, <1>pc, GotoEffect DEF AddKey, At, CallOK, Named, Making, Writing, Filing, Adding, OfCert, PC
  <2>2. CASE proc' = [proc EXCEPT ![p] = [@ EXCEPT !.pc = "addIdentity", !.next = "testKey"]]
    <3> DEFINE r == [proc[p] EXCEPT !.pc = "addIdentity", !.next = "testKey"]
    <3>1. r \in Processes /\ r.pc = "addIdentity" /\ r.next = "testKey" /\ r.key = proc[p].key
          /\ r.id = proc[p].id /\ r.then = proc[p].then /\ r.gen = proc[p].gen
      BY <1>pc DEF PC
    <3>2. proc' = [proc EXCEPT ![p] = r]
      BY <2>2
    <3> HIDE DEF r
    <3>3. proc'[p] = r /\ Others(p) /\ proc' \in [Procs -> Processes]
      BY <3>1, <3>2 DEF Others
    <3> QED
      BY <1>8, <3>1, <3>3, <1>c DEF AddKey, At, CallOK, Named, Making, Writing, Filing, Adding, OfCert
  <2> QED  BY <1>8, <2>1, <2>2 DEF AddKey
<1>9. CASE TestKey(p)
  <2>1. CASE Return(p)  BY <2>1, <1>r
  <2>2. CASE Goto(p, "insertKey")
    BY <2>2, <1>9, <1>c, <1>pc, GotoEffect DEF TestKey, At, CallOK, Named, Making, Writing, Filing, Adding, OfCert, PC
  <2> QED  BY <1>9, <2>1, <2>2 DEF TestKey
<1>10. CASE InsertKey(p)
  <2>1. CASE Return(p)  BY <2>1, <1>r
  <2>2. CASE Goto(p, "clearKey")
    BY <2>2, <1>10, <1>c, <1>pc, GotoEffect DEF InsertKey, At, CallOK, Named, Making, Writing, Filing, Adding, OfCert, PC
  <2>3. "cert" \notin proc[p].then
    BY <1>10, <1>c DEF InsertKey, At, CallOK, Named, Making, Filing
  <2> QED  BY <1>10, <2>1, <2>2, <2>3 DEF InsertKey, Proceed, ThenDefaults
<1>11. CASE TestCertificate(p)
  <2>1. CASE Return(p)  BY <2>1, <1>r
  <2>2. CASE Goto(p, "insertCert")
    BY <2>2, <1>11, <1>c, <1>pc, GotoEffect DEF TestCertificate, At, CallOK, Named, Making, Writing, Filing, Adding, OfCert, PC
  <2> QED  BY <1>11, <2>1, <2>2 DEF TestCertificate
<1>12. CASE InsertCertificate(p)
  <2>1. CASE Return(p)  BY <2>1, <1>r
  <2>2. CASE Goto(p, "clearKey")
    BY <2>2, <1>12, <1>c, <1>pc, GotoEffect DEF InsertCertificate, At, CallOK, Named, Making, Writing, Filing, Adding, OfCert, PC
  <2>3. CASE Goto(p, "clearCert")
    BY <2>3, <1>12, <1>c, <1>pc, GotoEffect DEF InsertCertificate, At, CallOK, Named, Making, Writing, Filing, Adding, OfCert, PC
  <2> QED  BY <1>12, <2>1, <2>2, <2>3 DEF InsertCertificate, Proceed, ThenDefaults
<1>13. CASE ClearDefaultId(p)
  BY <1>13, <1>c, <1>pc, GotoEffect DEF ClearDefaultId, At, CallOK, Named, Making, Writing, Filing, Adding, OfCert, PC
<1>14. CASE SetDefaultId(p)
  BY <1>14, <1>r DEF SetDefaultId
<1>15. CASE ClearDefaultKey(p)
  BY <1>15, <1>c, <1>pc, GotoEffect DEF ClearDefaultKey, At, CallOK, Named, Making, Writing, Filing, Adding, OfCert, PC
<1>16. CASE SetDefaultKey(p)
  <2>1. CASE Return(p)  BY <2>1, <1>r
  <2>2. CASE Goto(p, "clearCert") /\ "cert" \in proc[p].then
    BY <2>2, <1>16, <1>c, <1>pc, GotoEffect DEF SetDefaultKey, At, CallOK, Named, Making, Writing, Filing, Adding, OfCert, PC
  <2> QED  BY <1>16, <2>1, <2>2 DEF SetDefaultKey, Proceed
<1>17. CASE ClearDefaultCert(p)
  BY <1>17, <1>c, <1>pc, GotoEffect DEF ClearDefaultCert, At, CallOK, Named, Making, Writing, Filing, Adding, OfCert, PC
<1>18. CASE SetDefaultCert(p)
  BY <1>18, <1>r DEF SetDefaultCert
<1> QED
  BY <1>1, <1>2, <1>3, <1>4, <1>5, <1>6, <1>7, <1>8, <1>9, <1>10, <1>11, <1>12, <1>13, <1>14, <1>15, <1>16, <1>17, <1>18 DEF Step

\* The rows and files keep their types.
LEMMA TypesStep ==
  ASSUME TypeOK, Calls, Storages, NEW p \in Procs, Step(p)
  PROVE  TypeOK'
<1> USE DEF TypeOK, idVars, keyVars, certVars, fileVars, boundVars, histVars, Executed, Busy, Hits, Misses,
            Cleared, NotCleared
<1>c. CallOK(proc[p])
  BY DEF Calls
<1>p. proc' \in [Procs -> Processes]
  BY CallsStep
<1>u. CASE AddIdentity(p) \/ GetNewKeyName(p) \/ AddKey(p) \/ TestKey(p) \/ TestCertificate(p)
  BY <1>u, <1>p DEF AddIdentity, GetNewKeyName, AddKey, TestKey, TestCertificate
<1>1. CASE InsertIdentity(p)
  BY <1>1, <1>p, <1>c DEF InsertIdentity, At, CallOK, Making, Adding
<1>2. CASE CheckFiles(p)
  BY <1>2, <1>p, <1>c DEF CheckFiles, At, CallOK, Named
<1>3. CASE WritePrivate(p)
  BY <1>3, <1>p, <1>c DEF WritePrivate, At, CallOK, Named, Making, Writing
<1>4. CASE WritePublic(p)
  BY <1>4, <1>p, <1>c DEF WritePublic, At, CallOK, Named, Making, Writing
<1>5. CASE ChmodAndRead(p)
  BY <1>5, <1>p, <1>c DEF ChmodAndRead, At, CallOK, Named, Writing
<1>6. CASE InsertKey(p)
  BY <1>6, <1>p, <1>c DEF InsertKey, At, CallOK, Named, Making, Filing
<1>7. CASE InsertCertificate(p)
  BY <1>7, <1>p, <1>c DEF InsertCertificate, At, CallOK, OfCert
<1>8. CASE ClearDefaultId(p)
  BY <1>8, <1>p, <1>c DEF ClearDefaultId
<1>9. CASE SetDefaultId(p)
  BY <1>9, <1>p, <1>c DEF SetDefaultId
<1>10. CASE ClearDefaultKey(p)
  BY <1>10, <1>p, <1>c DEF ClearDefaultKey
<1>11. CASE SetDefaultKey(p)
  BY <1>11, <1>p, <1>c DEF SetDefaultKey, At, CallOK
<1>12. CASE ClearDefaultCert(p)
  BY <1>12, <1>p, <1>c DEF ClearDefaultCert
<1>13. CASE SetDefaultCert(p)
  BY <1>13, <1>p, <1>c DEF SetDefaultCert
<1> QED
  BY <1>u, <1>1, <1>2, <1>3, <1>4, <1>5, <1>6, <1>7, <1>8, <1>9, <1>10, <1>11, <1>12, <1>13 DEF Step

\* The statements of the encryption manager.
Mastering(p) == \/ MasterTable(p) \/ CreateMaster(p) \/ TestSymFile(p)
                \/ WriteSymFile(p) \/ InsertMaster(p) \/ SelectMaster(p)

\* They stay among themselves and leave the identity storage and the key pairs alone.
LEMMA MasterEffect ==
  ASSUME TypeOK, Calls, NEW p \in Procs, Mastering(p)
  PROVE  /\ proc' \in [Procs -> Processes] /\ Others(p) /\ CallOK(proc'[p])
         /\ proc'[p].pc \in OfMaster \cup {"idle"}
         /\ UNCHANGED <<idVars, keyVars, certVars, fileVars, boundVars, contested, unsettled>>
         /\ skipped \subseteq skipped' /\ busy' \in Nat
<1> DEFINE Goal == /\ proc' \in [Procs -> Processes] /\ Others(p) /\ CallOK(proc'[p])
                   /\ proc'[p].pc \in OfMaster \cup {"idle"}
<1>c. CallOK(proc[p])
  BY DEF Calls
<1>t. proc \in [Procs -> Processes] /\ clock \in Nat
  BY BoundAssumption DEF TypeOK
<1>u. /\ UNCHANGED <<idVars, keyVars, certVars, fileVars, boundVars, contested, unsettled>>
      /\ skipped \subseteq skipped'
  BY DEF Mastering, MasterTable, CreateMaster, TestSymFile, WriteSymFile, InsertMaster, SelectMaster, histVars
<1>b. busy' \in Nat
  BY DEF Mastering, MasterTable, CreateMaster, TestSymFile, WriteSymFile, InsertMaster, SelectMaster,
         Executed, Busy, Hits, Misses, TypeOK
<1>r. ASSUME Return(p)  PROVE Goal
  BY <1>r, <1>t, ReturnEffect, IdleProcess
<1>g. ASSUME NEW l \in {"selectMaster", "createMaster", "writeSymFile", "insertMaster"}, Goto(p, l),
             l \in {"writeSymFile", "insertMaster"} => proc[p].pc \in {"testSymFile", "writeSymFile"},
             proc[p].pc \in {"masterTable", "testSymFile", "writeSymFile"}
      PROVE  Goal
  <2>1. l \in PCs /\ l \in OfMaster
    BY DEF PCs, OfMaster
  <2>2. proc' \in [Procs -> Processes] /\ Others(p) /\ Moved(proc'[p], proc[p], l)
    BY <1>g, <2>1, <1>t, GotoEffect
  <2>3. CallOK(proc'[p])
    BY <1>g, <2>2, <1>c DEF Moved, CallOK, Named, Making, Writing, Filing, Adding, OfCert
  <2> QED  BY <2>1, <2>2, <2>3 DEF Moved
<1>1. ASSUME MasterTable(p) \/ TestSymFile(p) \/ WriteSymFile(p) \/ InsertMaster(p) \/ SelectMaster(p)
      PROVE  Goal
  <2> HIDE DEF Goal
  <2> QED
    BY <1>1, <1>r, <1>g DEF MasterTable, TestSymFile, WriteSymFile, InsertMaster, SelectMaster, At
<1>2. ASSUME CreateMaster(p)  PROVE Goal
  <2> DEFINE r == [proc[p] EXCEPT !.pc = "testSymFile", !.gen = clock]
  <2>1. r \in Processes /\ r.pc = "testSymFile" /\ r.gen = clock /\ r.then = proc[p].then
        /\ r.cert = proc[p].cert /\ r.key = proc[p].key
    BY <1>t DEF Processes, PCs, OfMaster
  <2>2. proc' = [proc EXCEPT ![p] = r]
    BY <1>2 DEF CreateMaster
  <2> HIDE DEF r
  <2>3. proc' \in [Procs -> Processes] /\ Others(p) /\ proc'[p] = r
    BY <2>1, <2>2, <1>t DEF Others
  <2>4. CallOK(r)
    BY <2>1, <1>c, <1>t DEF CallOK, Named, Making, Writing, Filing, Adding, OfCert
  <2> QED  BY <2>1, <2>3, <2>4 DEF OfMaster
<1> QED  BY <1>1, <1>2, <1>u, <1>b DEF Mastering

\* Every step of the system keeps TypeOK and Calls.
LEMMA CallsNext ==
  ASSUME TypeOK, Calls, Storages, [KeychainNext]_allVars
  PROVE  TypeOK' /\ Calls'
<1>s. ASSUME NEW p \in Procs, proc' \in [Procs -> Processes], Others(p), CallOK(proc'[p])
      PROVE  Calls'
  BY <1>s DEF Calls, Others
<1>d. ASSUME UNCHANGED <<idVars, keyVars, certVars, fileVars, clock, contested>>,
             proc' \in [Procs -> Processes], ops' \in 0..MaxOps, crashes' \in Nat, busy' \in Nat
      PROVE  TypeOK'
  BY <1>d DEF TypeOK, idVars, keyVars, certVars, fileVars
<1>u. ops \in 0..MaxOps /\ crashes \in Nat /\ busy \in Nat /\ proc \in [Procs -> Processes] /\ clock \in Nat
  BY BoundAssumption DEF TypeOK
<1>1. ASSUME NEW p \in Procs, Step(p)
      PROVE  TypeOK' /\ Calls'
  BY <1>1, <1>s, CallsStep, TypesStep
<1>2. ASSUME NEW p \in Procs, Starts(p)
      PROVE  TypeOK' /\ Calls'
  <2>1. PICK r \in Processes : Begin(p, r) /\ CallOK(r) /\ busy' \in Nat
    BY <1>2 DEF Starts
  <2>2. proc' \in [Procs -> Processes] /\ Others(p) /\ proc'[p] = r
    BY <2>1, <1>u, BeginEffect
  <2>3. ops' \in 0..MaxOps /\ crashes' \in Nat
    BY <2>1, <1>u, BoundAssumption DEF Begin
  <2> QED  BY <2>1, <2>2, <2>3, <1>s, <1>d DEF Begin, histVars
<1>3. ASSUME NEW p \in Procs, Crash(p)
      PROVE  TypeOK' /\ Calls'
  <2>1. proc' \in [Procs -> Processes] /\ Others(p) /\ CallOK(proc'[p])
    BY <1>3, <1>u, ReturnEffect, IdleProcess DEF Crash
  <2>2. ops' \in 0..MaxOps /\ crashes' \in Nat /\ busy' \in Nat
    BY <1>3, <1>u DEF Crash
  <2> QED  BY <1>3, <2>1, <2>2, <1>s, <1>d DEF Crash, histVars
<1>4. ASSUME NEW p \in Procs, Mastering(p)
      PROVE  TypeOK' /\ Calls'
  BY <1>4, MasterEffect, <1>s, <1>d, <1>u DEF boundVars
<1>5. ASSUME NEW p \in Procs, NEW k \in KeyNames, CreateSymKey(p, k)
      PROVE  TypeOK' /\ Calls'
  <2>1. ops' \in 0..MaxOps
    BY <1>5, <1>u, BoundAssumption DEF CreateSymKey
  <2>2. UNCHANGED <<idVars, keyVars, certVars, fileVars, proc, clock, crashes, busy, contested>>
    BY <1>5 DEF CreateSymKey, histVars
  <2> QED  BY <2>1, <2>2, <1>d, <1>u DEF Calls
<1>6. CASE Tick
  BY <1>6, <1>u, BoundAssumption DEF Tick, TypeOK, Calls, idVars, keyVars, certVars, fileVars, histVars
<1>7. CASE UNCHANGED allVars
  BY <1>7 DEF allVars, vars, TypeOK, Calls
<1> QED
  BY <1>1, <1>2, <1>3, <1>4, <1>5, <1>6, <1>7, CallStarts DEF KeychainNext, Mastering

-----------------------------------------------------------------------------
(* The files and the rows. *)

storeVars == <<ids, keyRow, certs, pri, pub, locked, contested>>

\* A process that knows nothing of the files and the rows.
Quiet(r) == /\ r.pc \notin Writing \cup Filing \cup {"insertCert"}
            /\ r.pc \in Adding => r.next # "testKey"

\* A step that leaves a process with nothing to know, and the files and rows alone.
LEMMA QuietStep ==
  ASSUME Storages, NEW p \in Procs, Others(p), Quiet(proc'[p]), UNCHANGED storeVars,
         skipped \subseteq skipped'
  PROVE  Storages'
<1> USE DEF storeVars
<1>1. Files' /\ KeyRows' /\ CertRows'
  BY DEF Storages, Files, KeyRows, CertRows, Rows
<1>2. Known'
  <2> SUFFICES ASSUME NEW q \in Procs  PROVE Knows(proc[q])'
    BY DEF Known
  <2>1. CASE q = p
    BY <2>1 DEF Knows, Quiet, Filing, Writing
  <2>2. CASE q # p
    BY <2>2 DEF Knows, Others, Storages, Known
  <2> QED  BY <2>1, <2>2
<1>3. Exclusive'
  BY DEF Storages, Exclusive, Others, Quiet
<1> QED  BY <1>1, <1>2, <1>3 DEF Storages

\* The statements that only read, or write what Storages does not speak of.
LEMMA StoragesReaders ==
  ASSUME TypeOK, Calls, Storages, NEW p \in Procs,
         \/ GetNewKeyName(p) \/ ClearDefaultId(p) \/ SetDefaultId(p) \/ ClearDefaultKey(p)
         \/ SetDefaultKey(p) \/ ClearDefaultCert(p) \/ SetDefaultCert(p)
  PROVE  Storages'
<1> USE DEF TypeOK
<1>1. Others(p)
  BY CallsStep DEF Step
<1>2. UNCHANGED <<storeVars, skipped>>
  BY DEF GetNewKeyName, ClearDefaultId, SetDefaultId, ClearDefaultKey, SetDefaultKey, ClearDefaultCert,
         SetDefaultCert, storeVars, idVars, keyVars, certVars, fileVars, histVars
<1>3. proc'[p].pc \in {"idle", "checkFiles", "setId", "setKey", "clearCert", "setCert"}
  <2>1. CASE GetNewKeyName(p)
    <3>1. CASE Return(p)  BY <3>1, ReturnEffect, IdleProcess
    <3>2. CASE proc' = [proc EXCEPT ![p] = [@ EXCEPT !.pc = "checkFiles", !.key = <<proc[p].id, clock>>]]
      BY <3>2 DEF Processes
    <3> QED  BY <2>1, <3>1, <3>2 DEF GetNewKeyName
  <2>2. CASE ~ GetNewKeyName(p)
    <3>1. \/ Return(p) \/ Goto(p, "setId") \/ Goto(p, "setKey") \/ Goto(p, "clearCert") \/ Goto(p, "setCert")
      BY <2>2 DEF ClearDefaultId, SetDefaultId, ClearDefaultKey, SetDefaultKey, ClearDefaultCert,
                  SetDefaultCert, Proceed
    <3>2. "setId" \in PCs /\ "setKey" \in PCs /\ "clearCert" \in PCs /\ "setCert" \in PCs
      BY DEF PCs, OfCert, OfDefault
    <3> QED  BY <3>1, <3>2, GotoEffect, ReturnEffect, IdleProcess DEF Moved
  <2> QED  BY <2>1, <2>2
<1>4. Quiet(proc'[p])
  BY <1>3 DEF Quiet, Writing, Filing, Adding
<1> QED  BY <1>1, <1>2, <1>4, QuietStep

\* Who makes a key, and on which row, before it is filed.
LEMMA StoragesIdentity ==
  ASSUME TypeOK, Calls, Storages, NEW p \in Procs, AddIdentity(p) \/ InsertIdentity(p) \/ AddKey(p)
  PROVE  Storages'
<1> USE DEF TypeOK
<1>o. Others(p)
  BY CallsStep DEF Step
<1>c. CallOK(proc[p]) /\ Knows(proc[p])
  BY DEF Calls, Storages, Known
<1>1. /\ UNCHANGED <<keyRow, certs, pri, pub, locked, contested>>
      /\ ids \subseteq ids' /\ skipped \subseteq skipped'
  BY DEF AddIdentity, InsertIdentity, AddKey, idVars, keyVars, certVars, fileVars, histVars
<1>2. Files' /\ KeyRows' /\ CertRows'
  BY <1>1 DEF Storages, Files, KeyRows, CertRows, Rows
<1>pc. "insertIdentity" \in PCs /\ "testKey" \in PCs /\ "newName" \in PCs /\ "addIdentity" \in PCs
  BY DEF PCs, Filing, Adding
<1>3. \/ Quiet(proc'[p])
      \/ /\ proc'[p].key = proc[p].key /\ proc'[p].gen = proc[p].gen /\ proc'[p].id = proc[p].id
         /\ proc[p].pc \in Adding \cup {"addKey"} /\ proc'[p].pc \in Adding \cup {"newName", "testKey"}
         /\ proc'[p].pc \in Adding /\ proc'[p].next = "testKey" =>
              proc[p].pc \in Filing \/ proc[p].next = "testKey"
         /\ proc'[p].pc = "testKey" =>
              (proc[p].pc \in Filing \/ proc[p].next = "testKey") /\ proc'[p].id \in ids' \cup skipped'
  <2>1. CASE AddIdentity(p)
    <3>1. CASE Return(p)  BY <3>1, ReturnEffect, IdleProcess DEF Quiet, Writing, Filing, Adding
    <3>2. CASE Goto(p, "insertIdentity")
      BY <2>1, <3>2, GotoEffect, <1>pc DEF Moved, Adding, Quiet, Writing, Filing, AddIdentity, At
    <3> QED  BY <2>1, <3>1, <3>2 DEF AddIdentity
  <2>2. CASE InsertIdentity(p)
    <3>1. proc[p].next \in {"newName", "testKey"} /\ proc[p].pc = "insertIdentity"
      BY <2>2, <1>c DEF InsertIdentity, At, CallOK, Adding
    <3> QED
      BY <3>1, <2>2, <1>pc, GotoEffect DEF InsertIdentity, Moved, Adding
  <2>3. CASE AddKey(p)
    <3>1. CASE Goto(p, "testKey") /\ proc[p].id \in ids
      BY <2>3, <3>1, GotoEffect, <1>pc, <1>1 DEF Moved, Adding, AddKey, At, Filing
    <3>2. CASE proc' = [proc EXCEPT ![p] = [@ EXCEPT !.pc = "addIdentity", !.next = "testKey"]]
      BY <2>3, <3>2, <1>pc DEF Processes, AddKey, At, Adding, Filing
    <3> QED  BY <2>3, <3>1, <3>2 DEF AddKey, Hits
  <2> QED  BY <2>1, <2>2, <2>3
<1>4. Known'
  <2> SUFFICES ASSUME NEW q \in Procs  PROVE Knows(proc[q])'
    BY DEF Known
  <2>1. CASE q = p
    <3>1. CASE Quiet(proc'[p])
      BY <2>1, <3>1 DEF Knows, Quiet, Filing, Writing
    <3>2. CASE ~ Quiet(proc'[p])
      BY <2>1, <3>2, <1>1, <1>3, <1>c DEF Knows, Filing, Adding
    <3> QED  BY <3>1, <3>2
  <2>2. CASE q # p
    BY <1>o, <1>1, <2>2 DEF Knows, Others, Storages, Known
  <2> QED  BY <2>1, <2>2
<1>5. Exclusive'
  <2>1. proc'[p].pc \notin Writing
    BY <1>3 DEF Quiet, Writing, Adding
  <2> QED  BY <2>1, <1>1, <1>o DEF Storages, Exclusive, Others
<1> QED  BY <1>2, <1>4, <1>5 DEF Storages

\* generateKeyPair: the files of a key are looked for, written and made read-only.
LEMMA StoragesFiles ==
  ASSUME TypeOK, Calls, Storages, NEW p \in Procs,
         CheckFiles(p) \/ WritePrivate(p) \/ WritePublic(p) \/ ChmodAndRead(p)
  PROVE  Storages'
<1> USE DEF TypeOK
<1> DEFINE k == proc[p].key
<1>o. Others(p)
  BY CallsStep DEF Step
<1>c. CallOK(proc[p]) /\ Knows(proc[p])
  BY DEF Calls, Storages, Known
<1>k. k \in KeyNames /\ proc[p].gen \in Nat /\ proc[p].gen # None
  BY <1>c, NoneAssumption DEF CheckFiles, WritePrivate, WritePublic, ChmodAndRead, At, CallOK, Named, Making, Writing
<1>q. ASSUME NEW q \in Procs  PROVE CallOK(proc[q]) /\ Knows(proc[q])
  BY DEF Calls, Storages, Known
<1>pc. "writePri" \in PCs /\ "writePub" \in PCs /\ "chmod" \in PCs /\ "addKey" \in PCs
  BY DEF PCs, Writing, Filing
<1>r. ASSUME Return(p), UNCHANGED <<storeVars, skipped>>  PROVE Storages'
  BY <1>r, <1>o, ReturnEffect, IdleProcess, QuietStep DEF Quiet, Writing, Filing, Adding
<1>1. ASSUME CheckFiles(p), pub[k] = None, pri[k] = None
      PROVE  Storages'
  <2>1. /\ UNCHANGED <<ids, keyRow, certs, pri, pub, locked, skipped>> /\ contested \subseteq contested'
        /\ Goto(p, "writePri")
        /\ (\E q \in Procs \ {p} : proc[q].pc = "writePri" /\ proc[q].key = k) => k \in contested'
    BY <1>1 DEF CheckFiles, At, idVars, keyVars, certVars, fileVars
  <2>2. Moved(proc'[p], proc[p], "writePri")
    BY <2>1, <1>pc, GotoEffect
  <2>3. Files' /\ KeyRows' /\ CertRows'
    BY <2>1 DEF Storages, Files, KeyRows, CertRows, Rows
  <2>4. Known'
    <3> SUFFICES ASSUME NEW q \in Procs  PROVE Knows(proc[q])'
      BY DEF Known
    <3>1. CASE q = p
      BY <3>1, <2>2 DEF Knows, Moved, Filing, Adding
    <3>2. CASE q # p
      BY <3>2, <2>1, <1>o, <1>q DEF Knows, Others
    <3> QED  BY <3>1, <3>2
  <2>5. ASSUME NEW q \in Procs, q # p, proc[q].pc \in Writing, proc[q].key = k
        PROVE  k \in contested'
    BY <2>5, <2>1, <1>1, <1>q DEF Writing, Knows
  <2>6. Exclusive'
    <3> SUFFICES ASSUME NEW q \in Procs, NEW r \in Procs, q # r,
                        proc'[q].pc \in Writing, proc'[r].pc \in Writing, proc'[q].key = proc'[r].key
                 PROVE  proc'[q].key \in contested'
      BY DEF Exclusive
    <3>1. CASE q = p
      BY <3>1, <1>o, <2>2, <2>5 DEF Others, Moved
    <3>2. CASE r = p
      BY <3>2, <1>o, <2>2, <2>5 DEF Others, Moved
    <3>3. CASE q # p /\ r # p
      BY <3>3, <1>o, <2>1 DEF Others, Storages, Exclusive
    <3> QED  BY <3>1, <3>2, <3>3
  <2> QED  BY <2>3, <2>4, <2>6 DEF Storages
<1>e. ASSUME proc'[p].key = k, proc[p].pc \in Writing, UNCHANGED contested
      PROVE  Exclusive'
  BY <1>e, <1>o DEF Others, Storages, Exclusive
<1>x. ASSUME NEW q \in Procs, q # p, proc[p].pc \in Writing, proc[q].pc \in Writing, proc[q].key = k
      PROVE  k \in contested
  BY <1>x DEF Storages, Exclusive
<1>2. ASSUME WritePrivate(p), k \notin locked
      PROVE  Storages'
  <2>1. /\ UNCHANGED <<ids, keyRow, certs, pub, locked, contested, skipped>> /\ Goto(p, "writePub")
        /\ pri' = [pri EXCEPT ![k] = proc[p].gen] /\ proc[p].pc = "writePri"
    BY <1>2 DEF WritePrivate, At, idVars, keyVars, certVars, histVars
  <2>2. Moved(proc'[p], proc[p], "writePub")
    BY <2>1, <1>pc, GotoEffect
  <2>3. \A l \in KeyNames : pri'[l] = IF l = k THEN proc[p].gen ELSE pri[l]
    BY <2>1, <1>k
  <2>4. Files' /\ KeyRows' /\ CertRows'
    BY <2>1, <2>3, <1>2 DEF Storages, Files, KeyRows, CertRows, Rows
  <2>5. Known'
    <3> SUFFICES ASSUME NEW q \in Procs  PROVE Knows(proc[q])'
      BY DEF Known
    <3>1. CASE q = p
      BY <3>1, <2>2, <2>1, <2>3, <1>k DEF Knows, Moved, Filing, Adding
    <3>2. CASE q # p
      <4>1. proc'[q] = proc[q] /\ Knows(proc[q])
        BY <3>2, <1>o, <1>q DEF Others
      <4>2. proc[q].pc \in Writing => proc[q].key \in KeyNames /\ (proc[q].key = k => k \in contested)
        BY <3>2, <1>x, <1>q, <2>1 DEF CallOK, Named, Writing
      <4> QED  BY <4>1, <4>2, <2>1, <2>3, <1>k DEF Knows, Writing
    <3> QED  BY <3>1, <3>2
  <2> QED  BY <2>1, <2>2, <2>4, <2>5, <1>e DEF Storages, Moved, Writing
<1>3. ASSUME WritePublic(p), k \notin locked
      PROVE  Storages'
  <2>1. /\ UNCHANGED <<ids, keyRow, certs, pri, locked, contested, skipped>> /\ Goto(p, "chmod")
        /\ pub' = [pub EXCEPT ![k] = proc[p].gen] /\ proc[p].pc = "writePub"
    BY <1>3 DEF WritePublic, At, idVars, keyVars, certVars, histVars
  <2>2. Moved(proc'[p], proc[p], "chmod")
    BY <2>1, <1>pc, GotoEffect
  <2>3. \A l \in KeyNames : pub'[l] = IF l = k THEN proc[p].gen ELSE pub[l]
    BY <2>1, <1>k
  <2>4. Files' /\ KeyRows' /\ CertRows'
    BY <2>1, <2>3, <1>3 DEF Storages, Files, KeyRows, CertRows, Rows
  <2>5. Known'
    <3> SUFFICES ASSUME NEW q \in Procs  PROVE Knows(proc[q])'
      BY DEF Known
    <3>1. CASE q = p
      BY <3>1, <2>2, <2>1, <2>3, <1>k, <1>c DEF Knows, Moved, Filing, Adding
    <3>2. CASE q # p
      <4>1. proc'[q] = proc[q] /\ Knows(proc[q])
        BY <3>2, <1>o, <1>q DEF Others
      <4>2. proc[q].pc \in Writing => proc[q].key \in KeyNames /\ (proc[q].key = k => k \in contested)
        BY <3>2, <1>x, <1>q, <2>1 DEF CallOK, Named, Writing
      <4>3. proc[q].pc \in Filing \/ (proc[q].pc \in Adding /\ proc[q].next = "testKey") =>
              proc[q].key \in KeyNames /\ proc[q].key # k
        BY <4>1, <1>q, <1>3 DEF CallOK, Named, Knows
      <4> QED  BY <4>1, <4>2, <4>3, <2>1, <2>3, <1>k DEF Knows, Writing
    <3> QED  BY <3>1, <3>2
  <2> QED  BY <2>1, <2>2, <2>4, <2>5, <1>e DEF Storages, Moved, Writing
<1>4. ASSUME ChmodAndRead(p)
      PROVE  Storages'
  <2>1. /\ UNCHANGED <<ids, keyRow, certs, pri, pub, contested, skipped>> /\ locked' = locked \cup {k}
        /\ proc[p].pc = "chmod"
    BY <1>4 DEF ChmodAndRead, At, idVars, keyVars, certVars, histVars
  <2>2. proc'[p].pc = "addKey" /\ proc'[p].key = k /\ proc'[p].gen = pub[k]
    BY <1>4 DEF ChmodAndRead, Processes
  <2>3. Files' /\ KeyRows' /\ CertRows'
    BY <2>1, <1>c DEF Storages, Files, KeyRows, CertRows, Rows, Knows
  <2>4. Known'
    <3> SUFFICES ASSUME NEW q \in Procs  PROVE Knows(proc[q])'
      BY DEF Known
    <3>1. CASE q = p
      BY <3>1, <2>1, <2>2 DEF Knows
    <3>2. CASE q # p
      BY <3>2, <1>o, <1>q, <2>1 DEF Knows, Others
    <3> QED  BY <3>1, <3>2
  <2> QED  BY <2>1, <2>2, <2>3, <2>4, <1>e DEF Storages, Writing
<1>5. ASSUME CheckFiles(p), ~ (pub[k] = None /\ pri[k] = None)
      PROVE  Storages'
  BY <1>5, <1>r DEF CheckFiles, storeVars, idVars, keyVars, certVars, fileVars, histVars
<1>6. ASSUME WritePrivate(p) \/ WritePublic(p), k \in locked
      PROVE  Storages'
  BY <1>6, <1>r DEF WritePrivate, WritePublic, storeVars, idVars, keyVars, certVars, histVars
<1> QED  BY <1>1, <1>2, <1>3, <1>4, <1>5, <1>6

\* addKey and addCertificate: a row is tested for and inserted.
LEMMA StoragesRows ==
  ASSUME TypeOK, Calls, Storages, NEW p \in Procs,
         TestKey(p) \/ InsertKey(p) \/ TestCertificate(p) \/ InsertCertificate(p)
  PROVE  Storages'
<1> USE DEF TypeOK
<1> DEFINE k == proc[p].key
           c == proc[p].cert
<1>o. Others(p)
  BY CallsStep DEF Step
<1>q. ASSUME NEW q \in Procs  PROVE CallOK(proc[q]) /\ Knows(proc[q])
  BY DEF Calls, Storages, Known
<1>pc. "insertKey" \in PCs /\ "insertCert" \in PCs /\ "clearKey" \in PCs /\ "clearCert" \in PCs
  BY DEF PCs, Filing, OfCert, OfDefault
<1>m. ASSUME NEW d \in Certificates  PROVE d.pub # None /\ d.key \in KeyNames
  BY NoneAssumption, BoundAssumption DEF Certificates, Material
<1>y. ASSUME Return(p)  PROVE Quiet(proc'[p])
  BY <1>y, ReturnEffect, IdleProcess DEF Quiet, Writing, Filing, Adding
<1>z. ASSUME Proceed(p, ThenDefaults(p))  PROVE Quiet(proc'[p])
  <2>1. Return(p) \/ Goto(p, "clearKey") \/ Goto(p, "clearCert")
    BY <1>z DEF Proceed, ThenDefaults
  <2> QED  BY <2>1, <1>y, <1>pc, GotoEffect DEF Moved, Quiet, Writing, Filing, Adding
<1>e. ASSUME proc'[p].pc \notin Writing, UNCHANGED contested
      PROVE  Exclusive'
  BY <1>e, <1>o DEF Others, Storages, Exclusive
<1>1. ASSUME TestKey(p), Goto(p, "insertKey")
      PROVE  Storages'
  <2>1. UNCHANGED <<storeVars, skipped>> /\ proc[p].pc = "testKey"
    BY <1>1 DEF TestKey, At, storeVars, idVars, keyVars, certVars, fileVars, histVars
  <2>2. Moved(proc'[p], proc[p], "insertKey")
    BY <1>1, <1>pc, GotoEffect
  <2>3. Files' /\ KeyRows' /\ CertRows'
    BY <2>1 DEF Storages, Files, KeyRows, CertRows, Rows, storeVars
  <2>4. Known'
    <3> SUFFICES ASSUME NEW q \in Procs  PROVE Knows(proc[q])'
      BY DEF Known
    <3>1. CASE q = p
      BY <3>1, <2>1, <2>2, <1>q DEF Knows, Moved, Filing, storeVars
    <3>2. CASE q # p
      BY <3>2, <1>o, <1>q, <2>1 DEF Knows, Others, storeVars
    <3> QED  BY <3>1, <3>2
  <2> QED  BY <2>1, <2>2, <2>3, <2>4, <1>e DEF Storages, Moved, Writing, storeVars
<1>2. ASSUME InsertKey(p)
      PROVE  Storages'
  <2>1. /\ UNCHANGED <<ids, certs, pri, pub, locked, contested, skipped>> /\ proc[p].pc = "insertKey"
        /\ \/ keyRow' = [keyRow EXCEPT ![k] = IF keyRow[k] = None THEN proc[p].gen ELSE keyRow[k]]
           \/ UNCHANGED keyRow
    BY <1>2 DEF InsertKey, At, idVars, certVars, fileVars, histVars
  <2>2. k \in KeyNames /\ IdOf(k) \in ids \cup skipped /\ k \in locked /\ proc[p].gen = pub[k]
    BY <2>1, <1>q DEF CallOK, Named, Knows, Filing
  <2>3. /\ \A l \in KeyNames : keyRow[l] # None => keyRow'[l] = keyRow[l]
        /\ \A l \in KeyNames : keyRow'[l] # None => keyRow'[l] = keyRow[l] \/ (l = k /\ keyRow'[l] = pub[k])
    BY <2>1, <2>2
  <2>4. Files' /\ KeyRows'
    BY <2>1, <2>2, <2>3 DEF Storages, Files, KeyRows, Rows
  <2>5. CertRows'
    BY <2>1, <2>3, <1>m DEF Storages, CertRows
  <2>6. Quiet(proc'[p])
    BY <1>2, <1>z DEF InsertKey
  <2>7. Known'
    <3> SUFFICES ASSUME NEW q \in Procs  PROVE Knows(proc[q])'
      BY DEF Known
    <3>1. CASE q = p
      BY <3>1, <2>6 DEF Knows, Quiet, Filing, Writing
    <3>2. CASE q # p
      <4>1. proc[q].pc = "insertCert" => proc[q].cert \in Certificates
        BY <1>q DEF CallOK, OfCert
      <4> QED  BY <3>2, <1>o, <1>q, <1>m, <2>1, <2>3, <4>1 DEF Knows, Others
    <3> QED  BY <3>1, <3>2
  <2> QED  BY <2>1, <2>4, <2>5, <2>6, <2>7, <1>e DEF Storages, Quiet
<1>3. ASSUME TestCertificate(p), Goto(p, "insertCert"), keyRow[c.key] = c.pub
      PROVE  Storages'
  <2>1. UNCHANGED <<storeVars, skipped>> /\ proc[p].pc = "testCert"
    BY <1>3 DEF TestCertificate, At, storeVars, idVars, keyVars, certVars, fileVars, histVars
  <2>2. Moved(proc'[p], proc[p], "insertCert")
    BY <1>3, <1>pc, GotoEffect
  <2>3. Files' /\ KeyRows' /\ CertRows'
    BY <2>1 DEF Storages, Files, KeyRows, CertRows, Rows, storeVars
  <2>4. Known'
    <3> SUFFICES ASSUME NEW q \in Procs  PROVE Knows(proc[q])'
      BY DEF Known
    <3>1. CASE q = p
      BY <3>1, <2>1, <2>2, <1>3 DEF Knows, Moved, Filing, Adding, storeVars
    <3>2. CASE q # p
      BY <3>2, <1>o, <1>q, <2>1 DEF Knows, Others, storeVars
    <3> QED  BY <3>1, <3>2
  <2> QED  BY <2>1, <2>2, <2>3, <2>4, <1>e DEF Storages, Moved, Writing, storeVars
<1>4. ASSUME InsertCertificate(p)
      PROVE  Storages'
  <2>1. /\ UNCHANGED <<ids, keyRow, pri, pub, locked, contested, skipped>> /\ proc[p].pc = "insertCert"
        /\ certs' \subseteq certs \cup {c}
    BY <1>4 DEF InsertCertificate, At, idVars, keyVars, fileVars, histVars
  <2>2. keyRow[c.key] = c.pub
    BY <2>1, <1>q DEF Knows
  <2>3. Files' /\ KeyRows' /\ CertRows'
    BY <2>1, <2>2 DEF Storages, Files, KeyRows, CertRows, Rows
  <2>4. Quiet(proc'[p])
    BY <1>4, <1>z DEF InsertCertificate
  <2>5. Known'
    <3> SUFFICES ASSUME NEW q \in Procs  PROVE Knows(proc[q])'
      BY DEF Known
    <3>1. CASE q = p
      BY <3>1, <2>4 DEF Knows, Quiet, Filing, Writing
    <3>2. CASE q # p
      BY <3>2, <1>o, <1>q, <2>1 DEF Knows, Others
    <3> QED  BY <3>1, <3>2
  <2> QED  BY <2>1, <2>3, <2>4, <2>5, <1>e DEF Storages, Quiet
<1>5. ASSUME TestKey(p) \/ TestCertificate(p), Return(p)
      PROVE  Storages'
  <2>1. UNCHANGED <<storeVars, skipped>>
    BY <1>5 DEF TestKey, TestCertificate, storeVars, idVars, keyVars, certVars, fileVars, histVars
  <2> QED  BY <2>1, <1>5, <1>o, <1>y, QuietStep
<1>6. TestKey(p) => Return(p) \/ Goto(p, "insertKey")
  BY DEF TestKey
<1>7. TestCertificate(p) => Return(p) \/ (Goto(p, "insertCert") /\ keyRow[c.key] = c.pub)
  BY DEF TestCertificate
<1> QED  BY <1>1, <1>2, <1>3, <1>4, <1>5, <1>6, <1>7

\* Every step of the system keeps the storages consistent.
LEMMA StoragesNext ==
  ASSUME TypeOK, Calls, Storages, [KeychainNext]_allVars
  PROVE  Storages'
<1>t. proc \in [Procs -> Processes]
  BY DEF TypeOK
<1>1. ASSUME NEW p \in Procs, Step(p)
      PROVE  Storages'
  BY <1>1, StoragesReaders, StoragesIdentity, StoragesFiles, StoragesRows DEF Step
<1>2. ASSUME NEW p \in Procs, Starts(p)
      PROVE  Storages'
  <2>1. PICK r \in Processes : Begin(p, r) /\ r.pc \in Entries /\ (r.pc = "addIdentity" => r.next = "newName")
    BY <1>2 DEF Starts
  <2>2. Others(p) /\ proc'[p] = r
    BY <2>1, <1>t, BeginEffect
  <2>3. Quiet(proc'[p])
    BY <2>1, <2>2 DEF Quiet, Entries, Writing, Filing, Adding
  <2>4. UNCHANGED <<storeVars, skipped>>
    BY <2>1 DEF Begin, storeVars, idVars, keyVars, certVars, fileVars, histVars
  <2> QED  BY <2>2, <2>3, <2>4, QuietStep
<1>3. ASSUME NEW p \in Procs, Crash(p)
      PROVE  Storages'
  <2>1. Others(p) /\ Quiet(proc'[p])
    BY <1>3, <1>t, ReturnEffect, IdleProcess DEF Crash, Quiet, Writing, Filing, Adding
  <2>2. UNCHANGED <<storeVars, skipped>>
    BY <1>3 DEF Crash, storeVars, idVars, keyVars, certVars, fileVars, histVars
  <2> QED  BY <2>1, <2>2, QuietStep
<1>4. ASSUME NEW p \in Procs, Mastering(p)
      PROVE  Storages'
  <2>1. Others(p) /\ proc'[p].pc \in OfMaster \cup {"idle"} /\ UNCHANGED storeVars /\ skipped \subseteq skipped'
    BY <1>4, MasterEffect DEF storeVars, idVars, keyVars, certVars, fileVars, histVars
  <2>2. Quiet(proc'[p])
    BY <2>1 DEF Quiet, OfMaster, Writing, Filing, Adding
  <2> QED  BY <2>1, <2>2, QuietStep
<1>u. ASSUME UNCHANGED <<storeVars, skipped>>, UNCHANGED proc
      PROVE  Storages'
  BY <1>u DEF storeVars, Storages, Files, KeyRows, CertRows, Known, Exclusive, Rows, Knows
<1>5. ASSUME NEW p \in Procs, NEW k \in KeyNames, CreateSymKey(p, k)
      PROVE  Storages'
  BY <1>5, <1>u DEF CreateSymKey, storeVars, idVars, keyVars, certVars, fileVars, histVars
<1>6. CASE Tick
  BY <1>6, <1>u DEF Tick, storeVars, idVars, keyVars, certVars, fileVars, histVars
<1>7. CASE UNCHANGED allVars
  BY <1>7, <1>u DEF allVars, vars, storeVars
<1> QED
  BY <1>1, <1>2, <1>3, <1>4, <1>5, <1>6, <1>7, CallStarts DEF KeychainNext, Mastering

-----------------------------------------------------------------------------
(* The defaults. *)

Between == {"setId", "setKey", "setCert"}

\* A statement of the identity manager leads to another one, and only the first
\* UPDATE of a setting to the place between the two.
LEMMA StepPc ==
  ASSUME TypeOK, Calls, NEW p \in Procs, Step(p)
  PROVE  /\ proc[p].pc \notin OfMaster \cup {"idle"} /\ proc'[p].pc \notin OfMaster
         /\ \/ proc'[p].pc \notin Between
            \/ ClearDefaultId(p) /\ Moved(proc'[p], proc[p], "setId")
            \/ ClearDefaultKey(p) /\ Moved(proc'[p], proc[p], "setKey")
            \/ ClearDefaultCert(p) /\ Moved(proc'[p], proc[p], "setCert")
<1> USE DEF TypeOK
<1> DEFINE Labels == {"insertIdentity", "newName", "testKey", "writePri", "writePub", "chmod",
                      "insertKey", "insertCert", "clearKey", "clearCert"}
<1>1. proc[p].pc \notin OfMaster \cup {"idle"}
  BY DEF Step, AddIdentity, InsertIdentity, GetNewKeyName, CheckFiles, WritePrivate, WritePublic,
         ChmodAndRead, AddKey, TestKey, InsertKey, TestCertificate, InsertCertificate, ClearDefaultId,
         SetDefaultId, ClearDefaultKey, SetDefaultKey, ClearDefaultCert, SetDefaultCert, At, OfMaster
<1>p. \A l \in Labels : l \in PCs /\ l \notin OfMaster \cup Between
  BY DEF PCs, Writing, Filing, Adding, OfCert, OfDefault, OfMaster, Between
<1>b. \A l \in Between : l \in PCs /\ l \notin OfMaster
  BY DEF PCs, OfCert, OfDefault, OfMaster, Between
<1>r. ASSUME Return(p)  PROVE proc'[p].pc \notin OfMaster \cup Between
  BY <1>r, ReturnEffect, IdleProcess DEF OfMaster, Between
<1>g. ASSUME NEW l \in Labels, Goto(p, l)  PROVE proc'[p].pc \notin OfMaster \cup Between
  BY <1>g, <1>p, GotoEffect DEF Moved
<1>2. CASE ClearDefaultId(p) \/ ClearDefaultKey(p) \/ ClearDefaultCert(p)
  <2>0. ASSUME NEW l \in Between, Goto(p, l)
        PROVE  Moved(proc'[p], proc[p], l) /\ proc'[p].pc \notin OfMaster
    BY <2>0, <1>b, GotoEffect DEF Moved
  <2>1. "setId" \in Between /\ "setKey" \in Between /\ "setCert" \in Between
    BY DEF Between
  <2>2. CASE ClearDefaultId(p)
    BY <2>0, <2>1, <2>2, <1>1 DEF ClearDefaultId
  <2>3. CASE ClearDefaultKey(p)
    BY <2>0, <2>1, <2>3, <1>1 DEF ClearDefaultKey
  <2>4. CASE ClearDefaultCert(p)
    BY <2>0, <2>1, <2>4, <1>1 DEF ClearDefaultCert
  <2> QED  BY <1>2, <2>2, <2>3, <2>4
<1>3. CASE AddIdentity(p) \/ CheckFiles(p) \/ WritePrivate(p) \/ WritePublic(p) \/ TestKey(p) \/ InsertKey(p)
           \/ TestCertificate(p) \/ InsertCertificate(p) \/ SetDefaultId(p) \/ SetDefaultKey(p)
           \/ SetDefaultCert(p)
  <2>1. Return(p) \/ \E l \in Labels : Goto(p, l)
    BY <1>3 DEF AddIdentity, CheckFiles, WritePrivate, WritePublic, TestKey, InsertKey, TestCertificate,
                InsertCertificate, SetDefaultId, SetDefaultKey, SetDefaultCert, Proceed, ThenDefaults
  <2> QED  BY <2>1, <1>1, <1>r, <1>g
<1>4. CASE InsertIdentity(p)
  <2>1. proc[p].next \in Labels
    BY <1>4 DEF InsertIdentity, At, Calls, CallOK, Adding
  <2> QED  BY <1>4, <2>1, <1>1, <1>g DEF InsertIdentity
<1>5. CASE GetNewKeyName(p) \/ ChmodAndRead(p) \/ AddKey(p)
  <2>1. CASE Return(p) \/ Goto(p, "testKey")
    BY <2>1, <1>1, <1>r, <1>g
  <2>2. CASE ~ (Return(p) \/ Goto(p, "testKey"))
    <3>1. proc'[p].pc \in {"checkFiles", "addKey", "addIdentity"}
      <4>1. CASE GetNewKeyName(p)
        <5>1. \E k : proc' = [proc EXCEPT ![p] = [@ EXCEPT !.pc = "checkFiles", !.key = k]]
          BY <2>2, <4>1 DEF GetNewKeyName
        <5> QED  BY <5>1 DEF Processes
      <4>2. CASE ChmodAndRead(p)
        BY <4>2 DEF ChmodAndRead, Processes
      <4>3. CASE AddKey(p)
        BY <2>2, <4>3 DEF AddKey, Processes
      <4> QED  BY <1>5, <4>1, <4>2, <4>3
    <3> QED  BY <3>1, <1>1 DEF OfMaster, Between
  <2> QED  BY <2>1, <2>2
<1> QED  BY <1>2, <1>3, <1>4, <1>5 DEF Step

\* A step that touches no default and goes to no place between two UPDATEs.
LEMMA DefaultsKept ==
  ASSUME Defaults, NEW p \in Procs, Others(p), UNCHANGED unsettled
  PROVE  /\ proc'[p].pc # "setId" /\ UNCHANGED defIds => OneId'
         /\ proc'[p].pc # "setKey" /\ UNCHANGED defKeys => OneKey'
         /\ proc'[p].pc # "setCert" /\ UNCHANGED defCerts => OneCert'
  BY DEF Defaults, Others, OneId, OneKey, OneCert, At

\* The names in unsettled are told apart by their length.
LEMMA Owners ==
  /\ \A i : <<i>> # <<>> /\ \A j : <<i>> = <<j>> => i = j
  /\ \A k \in KeyNames : k # <<>> /\ \A i : k # <<i>>
  BY DEF KeyNames

\* The six UPDATEs.
LEMMA DefaultsSet ==
  ASSUME TypeOK, Calls, Defaults, NEW p \in Procs, Others(p), Step(p)
  PROVE  Defaults'
<1>c. CallOK(proc[p])
  BY DEF Calls
<1>s. \/ proc'[p].pc \notin Between
      \/ ClearDefaultId(p) /\ Moved(proc'[p], proc[p], "setId")
      \/ ClearDefaultKey(p) /\ Moved(proc'[p], proc[p], "setKey")
      \/ ClearDefaultCert(p) /\ Moved(proc'[p], proc[p], "setCert")
  BY StepPc
<1>n. /\ ClearDefaultId(p) => proc[p].pc = "clearId"
      /\ SetDefaultId(p) => proc[p].pc = "setId"
      /\ ClearDefaultKey(p) => proc[p].pc = "clearKey"
      /\ SetDefaultKey(p) => proc[p].pc = "setKey"
      /\ ClearDefaultCert(p) => proc[p].pc = "clearCert"
      /\ SetDefaultCert(p) => proc[p].pc = "setCert"
  BY DEF ClearDefaultId, SetDefaultId, ClearDefaultKey, SetDefaultKey, ClearDefaultCert, SetDefaultCert, At
<1>m. /\ ClearDefaultKey(p) => proc'[p].id = proc[p].id
      /\ ClearDefaultCert(p) => proc'[p].key = proc[p].key
  <2>1. "setKey" \in PCs /\ "setCert" \in PCs
    BY DEF PCs, OfCert, OfDefault
  <2> QED  BY <2>1, GotoEffect DEF ClearDefaultKey, ClearDefaultCert, Moved, TypeOK
<1>e. /\ ClearDefaultId(p) => \A o : o # <<>> => (o \in unsettled' <=> o \in unsettled)
      /\ ClearDefaultKey(p) => \A o : o # <<proc[p].id>> => (o \in unsettled' <=> o \in unsettled)
      /\ ClearDefaultCert(p) => \A o : o # proc[p].key => (o \in unsettled' <=> o \in unsettled)
      /\ ~ ClearDefaultId(p) /\ ~ ClearDefaultKey(p) /\ ~ ClearDefaultCert(p) => UNCHANGED unsettled
  <2>1. ~ ClearDefaultId(p) /\ ~ ClearDefaultKey(p) /\ ~ ClearDefaultCert(p) => UNCHANGED unsettled
    BY DEF Step, AddIdentity, InsertIdentity, GetNewKeyName, CheckFiles, WritePrivate, WritePublic,
           ChmodAndRead, AddKey, TestKey, InsertKey, TestCertificate, InsertCertificate, SetDefaultId,
           SetDefaultKey, SetDefaultCert, histVars
  <2>2. ASSUME NEW o, NEW alone, Cleared(o, alone) \/ NotCleared(o)
        PROVE  \A x : x # o => (x \in unsettled' <=> x \in unsettled)
    BY <2>2 DEF Cleared, NotCleared
  <2>3. /\ ClearDefaultId(p) => \E alone : Cleared(<<>>, alone) \/ NotCleared(<<>>)
        /\ ClearDefaultKey(p) => \E alone : Cleared(<<proc[p].id>>, alone) \/ NotCleared(<<proc[p].id>>)
        /\ ClearDefaultCert(p) => \E alone : Cleared(proc[p].key, alone) \/ NotCleared(proc[p].key)
    BY DEF ClearDefaultId, ClearDefaultKey, ClearDefaultCert
  <2> QED  BY <2>1, <2>2, <2>3
<1>k. ClearDefaultCert(p) => proc[p].key \in KeyNames
  BY <1>c, <1>n DEF CallOK, OfCert, Certificates
<1>o. /\ ~ ClearDefaultId(p) => (<<>> \in unsettled' <=> <<>> \in unsettled)
      /\ ~ ClearDefaultKey(p) => \A i : <<i>> \in unsettled' <=> <<i>> \in unsettled
      /\ ~ ClearDefaultCert(p) => \A k \in KeyNames : k \in unsettled' <=> k \in unsettled
  BY <1>e, <1>k, <1>n, Owners
<1>1. OneId'
  <2>1. CASE ClearDefaultId(p)
    <3>1. <<>> \notin unsettled' => defIds' = {} /\ \A q \in Procs : q # p => ~ At(q, "setId")
      BY <2>1 DEF ClearDefaultId, Cleared, NotCleared
    <3> QED  BY <3>1 DEF OneId, At, Others
  <2>2. CASE SetDefaultId(p)
    <3>1. /\ defIds' \subseteq defIds \cup {proc[p].id} /\ UNCHANGED unsettled /\ proc[p].pc = "setId"
          /\ proc'[p].pc # "setId"
      BY <2>2, <1>s, <1>n DEF SetDefaultId, At, Between, histVars
    <3> QED  BY <3>1 DEF Defaults, OneId, At, Others
  <2>3. CASE ~ ClearDefaultId(p) /\ ~ SetDefaultId(p)
    <3>1. UNCHANGED defIds /\ proc'[p].pc # "setId"
      BY <2>3, <1>s DEF Step, AddIdentity, InsertIdentity, GetNewKeyName, CheckFiles, WritePrivate, WritePublic,
         ChmodAndRead, AddKey, TestKey, InsertKey, TestCertificate, InsertCertificate, ClearDefaultKey,
         SetDefaultKey, ClearDefaultCert, SetDefaultCert, idVars, Between, Moved
    <3> QED  BY <2>3, <3>1, <1>o DEF Defaults, OneId, At, Others
  <2> QED  BY <2>1, <2>2, <2>3
<1>2. OneKey'
  <2>1. CASE ClearDefaultKey(p)
    <3>1. /\ defKeys' \subseteq defKeys /\ proc'[p].id = proc[p].id
          /\ <<proc[p].id>> \notin unsettled' =>
               /\ defKeys' = {k \in defKeys : IdOf(k) # proc[p].id}
               /\ \A q \in Procs : At(q, "setKey") /\ proc[q].id = proc[p].id => q = p
      BY <2>1, <1>m DEF ClearDefaultKey, Overlaps, Cleared, NotCleared
    <3>2. \A i \in Identities : i # proc[p].id => (<<i>> \in unsettled' <=> <<i>> \in unsettled)
      BY <2>1, <1>e, Owners
    <3>3. SUFFICES ASSUME NEW i \in Identities, <<i>> \notin unsettled'
                   PROVE  /\ \A k, l \in defKeys' : IdOf(k) = i /\ IdOf(l) = i => k = l
                          /\ \A r \in Procs : proc'[r].pc = "setKey" /\ proc'[r].id = i =>
                               /\ \A k \in defKeys' : IdOf(k) # i
                               /\ \A q \in Procs : proc'[q].pc = "setKey" /\ proc'[q].id = i => q = r
      BY DEF OneKey, At
    <3>4. CASE i = proc[p].id
      BY <3>1, <3>3, <3>4 DEF At, Others
    <3>5. CASE i # proc[p].id
      BY <3>1, <3>2, <3>3, <3>5 DEF Defaults, OneKey, At, Others
    <3> QED  BY <3>4, <3>5
  <2>2. CASE SetDefaultKey(p)
    <3>1. /\ defKeys' \subseteq defKeys \cup {proc[p].key} /\ UNCHANGED unsettled /\ proc[p].pc = "setKey"
          /\ proc'[p].pc # "setKey" /\ IdOf(proc[p].key) = proc[p].id
      BY <2>2, <1>s, <1>n, <1>c DEF SetDefaultKey, At, Between, CallOK, histVars
    <3> QED  BY <3>1 DEF Defaults, OneKey, At, Others
  <2>3. CASE ~ ClearDefaultKey(p) /\ ~ SetDefaultKey(p)
    <3>1. UNCHANGED defKeys /\ proc'[p].pc # "setKey"
      BY <2>3, <1>s DEF Step, AddIdentity, InsertIdentity, GetNewKeyName, CheckFiles, WritePrivate, WritePublic,
         ChmodAndRead, AddKey, TestKey, InsertKey, TestCertificate, InsertCertificate, ClearDefaultId,
         SetDefaultId, ClearDefaultCert, SetDefaultCert, keyVars, Between, Moved
    <3> QED  BY <2>3, <3>1, <1>o DEF Defaults, OneKey, At, Others
  <2> QED  BY <2>1, <2>2, <2>3
<1>3. OneCert'
  <2>1. CASE ClearDefaultCert(p)
    <3>1. /\ defCerts' \subseteq defCerts /\ proc'[p].key = proc[p].key
          /\ proc[p].key \notin unsettled' =>
               /\ defCerts' = {c \in defCerts : c.key # proc[p].key}
               /\ \A q \in Procs : At(q, "setCert") /\ proc[q].key = proc[p].key => q = p
      BY <2>1, <1>m DEF ClearDefaultCert, Overlaps, Cleared, NotCleared
    <3>2. \A n \in KeyNames : n # proc[p].key => (n \in unsettled' <=> n \in unsettled)
      BY <2>1, <1>e
    <3>3. SUFFICES ASSUME NEW n \in KeyNames, n \notin unsettled'
                   PROVE  /\ \A c, d \in defCerts' : c.key = n /\ d.key = n => c.version = d.version
                          /\ \A r \in Procs : proc'[r].pc = "setCert" /\ proc'[r].key = n =>
                               /\ \A c \in defCerts' : c.key # n
                               /\ \A q \in Procs : proc'[q].pc = "setCert" /\ proc'[q].key = n => q = r
      BY DEF OneCert, At
    <3>4. CASE n = proc[p].key
      BY <3>1, <3>3, <3>4 DEF At, Others
    <3>5. CASE n # proc[p].key
      BY <3>1, <3>2, <3>3, <3>5 DEF Defaults, OneCert, At, Others
    <3> QED  BY <3>4, <3>5
  <2>2. CASE SetDefaultCert(p)
    <3>1. /\ \A c \in defCerts' : c \in defCerts \/ (c.key = proc[p].key /\ c.version = proc[p].cert.version)
          /\ UNCHANGED unsettled /\ proc[p].pc = "setCert" /\ proc'[p].pc # "setCert"
      BY <2>2, <1>s, <1>n DEF SetDefaultCert, At, Between, histVars
    <3> QED  BY <3>1 DEF Defaults, OneCert, At, Others
  <2>3. CASE ~ ClearDefaultCert(p) /\ ~ SetDefaultCert(p)
    <3>1. UNCHANGED defCerts /\ proc'[p].pc # "setCert"
      BY <2>3, <1>s DEF Step, AddIdentity, InsertIdentity, GetNewKeyName, CheckFiles, WritePrivate, WritePublic,
         ChmodAndRead, AddKey, TestKey, InsertKey, TestCertificate, InsertCertificate, ClearDefaultId,
         SetDefaultId, ClearDefaultKey, SetDefaultKey, certVars, Between, Moved
    <3> QED  BY <2>3, <3>1, <1>o DEF Defaults, OneCert, At, Others
  <2> QED  BY <2>1, <2>2, <2>3
<1> QED  BY <1>1, <1>2, <1>3 DEF Defaults

\* Every step of the system keeps the defaults unique.
LEMMA DefaultsNext ==
  ASSUME TypeOK, Calls, Storages, Defaults, [KeychainNext]_allVars
  PROVE  Defaults'
<1>t. proc \in [Procs -> Processes]
  BY DEF TypeOK
<1>k. ASSUME NEW p \in Procs, Others(p), proc'[p].pc \notin Between, UNCHANGED <<idVars, keyVars, certVars, unsettled>>
      PROVE  Defaults'
  BY <1>k, DefaultsKept DEF Defaults, Between, idVars, keyVars, certVars
<1>1. ASSUME NEW p \in Procs, Step(p)
      PROVE  Defaults'
  BY <1>1, CallsStep, DefaultsSet
<1>2. ASSUME NEW p \in Procs, Starts(p)
      PROVE  Defaults'
  <2>1. PICK r \in Processes : Begin(p, r) /\ r.pc \in Entries
    BY <1>2 DEF Starts
  <2>2. Others(p) /\ proc'[p].pc \notin Between
    BY <2>1, <1>t, BeginEffect DEF Entries, Between
  <2> QED  BY <2>1, <2>2, <1>k DEF Begin, histVars
<1>3. ASSUME NEW p \in Procs, Crash(p)
      PROVE  Defaults'
  <2>1. Others(p) /\ proc'[p].pc \notin Between
    BY <1>3, <1>t, ReturnEffect, IdleProcess DEF Crash, Between
  <2> QED  BY <1>3, <2>1, <1>k DEF Crash, histVars
<1>4. ASSUME NEW p \in Procs, Mastering(p)
      PROVE  Defaults'
  <2>1. Others(p) /\ proc'[p].pc \notin Between
    BY <1>4, MasterEffect DEF OfMaster, Between
  <2> QED  BY <1>4, <2>1, <1>k, MasterEffect
<1>u. ASSUME UNCHANGED <<defIds, defKeys, defCerts, unsettled, proc>>
      PROVE  Defaults'
  BY <1>u DEF Defaults, OneId, OneKey, OneCert, At
<1>5. ASSUME NEW p \in Procs, NEW k \in KeyNames, CreateSymKey(p, k)
      PROVE  Defaults'
  BY <1>5, <1>u DEF CreateSymKey, idVars, keyVars, certVars, histVars
<1>6. CASE Tick
  BY <1>6, <1>u DEF Tick, idVars, keyVars, certVars, histVars
<1>7. CASE UNCHANGED allVars
  BY <1>7, <1>u DEF allVars, vars
<1> QED
  BY <1>1, <1>2, <1>3, <1>4, <1>5, <1>6, <1>7, CallStarts DEF KeychainNext, Mastering

-----------------------------------------------------------------------------
(* The master keys. *)

\* A step that leaves the encryption manager's tables and files alone.
LEMMA MastersKept ==
  ASSUME Masters, NEW p \in Procs, Others(p), proc[p].pc \notin AtMaster, proc'[p].pc \notin AtMaster,
         UNCHANGED <<encVars, crashes>>, skipped \subseteq skipped'
  PROVE  Masters'
<1> USE DEF encVars, Masters
<1>k. "MasterKey" \in skipped => "MasterKey" \in skipped'
  OBVIOUS
<1>1. MasterFiles'
  BY DEF MasterFiles, At, Others, AtMaster
<1>2. FileRows'
  BY <1>k DEF FileRows, At, Others, AtMaster
<1>3. TableUsed'
  <2>1. (\E q \in Procs : proc[q].pc \in AtMaster) => \E q \in Procs : proc'[q].pc \in AtMaster
    BY DEF Others
  <2> QED  BY <2>1, <1>k, Zenon DEF TableUsed
<1> QED  BY <1>1, <1>2, <1>3

\* The statements of the encryption manager's constructor.
LEMMA MastersStep ==
  ASSUME TypeOK, Calls, Masters, NEW p \in Procs, Mastering(p)
  PROVE  Masters'
<1> USE DEF Masters, encVars
<1>o. Others(p) /\ UNCHANGED crashes /\ proc \in [Procs -> Processes] /\ skipped \subseteq skipped'
  BY MasterEffect DEF boundVars, TypeOK
<1>k. "MasterKey" \in skipped => "MasterKey" \in skipped'
  BY <1>o
<1>1. CASE MasterTable(p)
  <2>1. proc[p].pc = "masterTable" /\ UNCHANGED encVars
    BY <1>1 DEF MasterTable, At
  <2>2. Goto(p, "selectMaster") \/ Goto(p, "createMaster")
    BY <1>1 DEF MasterTable
  <2>3. "selectMaster" \in PCs /\ "createMaster" \in PCs
    BY DEF PCs, OfMaster
  <2>4. proc'[p].pc \in {"selectMaster", "createMaster"}
    BY <2>2, <2>3, <1>o, GotoEffect DEF Moved
  <2> QED  BY <2>1, <2>4, <1>o, MastersKept DEF AtMaster
<1>2. CASE CreateMaster(p)
  <2>1. proc[p].pc = "createMaster" /\ UNCHANGED <<masterKeys, symFiles, manager>>
    BY <1>2 DEF CreateMaster, At
  <2>2. proc'[p].pc = "testSymFile"
    BY <1>2, <1>o DEF CreateMaster, Processes
  <2>3. MasterFiles'
    BY <2>1, <2>2, <1>o DEF MasterFiles, At, Others
  <2>4. FileRows'
    BY <2>1, <2>2, <1>o, <1>k DEF FileRows, At, Others
  <2>5. TableUsed'
    BY <2>2 DEF TableUsed, AtMaster
  <2> QED  BY <2>3, <2>4, <2>5
<1>3. CASE TestSymFile(p)
  <2>1. proc[p].pc = "testSymFile" /\ UNCHANGED <<masterKeys, symFiles, manager, mkTable>>
    BY <1>3 DEF TestSymFile, At
  <2>2. \/ Return(p) /\ proc[p].gen \in symFiles
        \/ Goto(p, "writeSymFile")
    BY <1>3 DEF TestSymFile, hasFile
  <2>3. "writeSymFile" \in PCs
    BY DEF PCs, OfMaster
  <2>4. \/ proc'[p].pc = "idle" /\ proc[p].gen \in symFiles
        \/ proc'[p].pc = "writeSymFile"
    BY <2>2, <2>3, <1>o, GotoEffect, ReturnEffect, IdleProcess DEF Moved
  <2>5. MasterFiles'
    BY <2>1, <2>4, <1>o DEF MasterFiles, At, Others
  <2>6. FileRows'
    BY <2>1, <2>4, <1>o, <1>k DEF FileRows, At, Others
  <2>7. TableUsed'
    <3>1. CASE proc'[p].pc = "writeSymFile"
      BY <3>1 DEF TableUsed, AtMaster
    <3>2. CASE proc[p].gen \in symFiles
      BY <3>2, <2>1, <2>6 DEF FileRows, TableUsed, AtMaster, At
    <3> QED  BY <2>4, <3>1, <3>2
  <2> QED  BY <2>5, <2>6, <2>7
<1>4. CASE WriteSymFile(p)
  <2>1. /\ proc[p].pc = "writeSymFile" /\ UNCHANGED <<masterKeys, manager, mkTable>>
        /\ symFiles' = symFiles \cup {proc[p].gen}
    BY <1>4 DEF WriteSymFile, At
  <2>2. "insertMaster" \in PCs
    BY DEF PCs, OfMaster
  <2>3. proc'[p].pc = "insertMaster" /\ proc'[p].gen = proc[p].gen
    BY <1>4, <2>2, <1>o, GotoEffect DEF WriteSymFile, Moved
  <2>4. MasterFiles'
    BY <2>1, <2>3, <1>o DEF MasterFiles, At, Others
  <2>5. FileRows'
    BY <2>1, <2>3, <1>o, <1>k DEF FileRows, At, Others
  <2>6. TableUsed'
    BY <2>3 DEF TableUsed, AtMaster
  <2> QED  BY <2>4, <2>5, <2>6
<1>5. CASE InsertMaster(p)
  <2>1. /\ proc[p].pc = "insertMaster" /\ UNCHANGED <<symFiles, mkTable>>
        /\ masterKeys' = masterKeys \cup {proc[p].gen} \/ (UNCHANGED masterKeys /\ "MasterKey" \in skipped')
        /\ manager' = [manager EXCEPT ![p] = proc[p].gen]
    BY <1>5 DEF InsertMaster, At
  <2>2. proc'[p].pc = "idle"
    BY <1>5, <1>o, ReturnEffect, IdleProcess DEF InsertMaster
  <2>3. MasterFiles'
    BY <2>1, <2>2, <1>o DEF MasterFiles, At, Others
  <2>4. FileRows'
    BY <2>1, <2>2, <1>o, <1>k DEF FileRows, At, Others
  <2>5. TableUsed'
    BY <2>1 DEF TableUsed
  <2> QED  BY <2>3, <2>4, <2>5
<1>6. CASE SelectMaster(p)
  <2>1. proc[p].pc = "selectMaster" /\ UNCHANGED <<masterKeys, symFiles, mkTable>>
    BY <1>6 DEF SelectMaster, At
  <2>2. PICK t \in masterKeys \cup {0} : manager' = [manager EXCEPT ![p] = t]
    BY <1>6 DEF SelectMaster, Misses
  <2>3. proc'[p].pc = "idle"
    BY <1>6, <1>o, ReturnEffect, IdleProcess DEF SelectMaster
  <2>4. MasterFiles'
    BY <2>1, <2>2, <2>3, <1>o DEF MasterFiles, At, Others
  <2>5. FileRows'
    BY <2>1, <2>3, <1>o, <1>k DEF FileRows, At, Others
  <2>6. TableUsed'
    <3>1. (\E q \in Procs : proc[q].pc \in AtMaster) => \E q \in Procs : proc'[q].pc \in AtMaster
      BY <2>1, <1>o DEF Others, AtMaster
    <3> QED  BY <2>1, <3>1, <1>o, <1>k, Zenon DEF TableUsed
  <2> QED  BY <2>4, <2>5, <2>6
<1> QED  BY <1>1, <1>2, <1>3, <1>4, <1>5, <1>6 DEF Mastering

\* Every step of the system keeps the master keys on disk.
LEMMA MastersNext ==
  ASSUME TypeOK, Calls, Storages, Masters, [KeychainNext]_allVars
  PROVE  Masters'
<1>t. proc \in [Procs -> Processes] /\ crashes \in Nat
  BY DEF TypeOK
<1>1. ASSUME NEW p \in Procs, Step(p), UNCHANGED encVars
      PROVE  Masters'
  <2>1. proc[p].pc \notin AtMaster /\ proc'[p].pc \notin AtMaster
    BY <1>1, StepPc DEF AtMaster, OfMaster
  <2>2. UNCHANGED crashes /\ skipped \subseteq skipped'
    BY <1>1 DEF Step, AddIdentity, InsertIdentity, GetNewKeyName, CheckFiles, WritePrivate, WritePublic,
         ChmodAndRead, AddKey, TestKey, InsertKey, TestCertificate, InsertCertificate, ClearDefaultId,
         SetDefaultId, ClearDefaultKey, SetDefaultKey, ClearDefaultCert, SetDefaultCert, boundVars, histVars
  <2> QED  BY <1>1, <2>1, <2>2, CallsStep, MastersKept
<1>2. ASSUME NEW p \in Procs, Starts(p), UNCHANGED encVars
      PROVE  Masters'
  <2>1. PICK r \in Processes : Begin(p, r) /\ r.pc \in Entries
    BY <1>2 DEF Starts
  <2>2. Others(p) /\ proc'[p].pc \notin AtMaster /\ proc[p].pc \notin AtMaster /\ UNCHANGED <<crashes, skipped>>
    BY <2>1, <1>t, BeginEffect DEF Entries, AtMaster, Begin, histVars
  <2> QED  BY <1>2, <2>2, MastersKept
<1>3. ASSUME NEW p \in Procs, Crash(p), manager' = [manager EXCEPT ![p] = None],
             UNCHANGED <<mkTable, masterKeys, symFiles, ciphers>>
      PROVE  Masters'
  <2>1. Others(p) /\ proc'[p].pc = "idle" /\ crashes' > 0
    BY <1>3, <1>t, ReturnEffect, IdleProcess DEF Crash
  <2>2. MasterFiles'
    BY <1>3, <2>1 DEF Masters, MasterFiles, At, Others
  <2>3. FileRows' /\ TableUsed'
    BY <2>1 DEF FileRows, TableUsed
  <2> QED  BY <2>2, <2>3 DEF Masters
<1>4. ASSUME NEW p \in Procs, Mastering(p)
      PROVE  Masters'
  BY <1>4, MastersStep
<1>u. ASSUME UNCHANGED <<mkTable, masterKeys, symFiles, crashes, skipped, proc>>, MasterFiles'
      PROVE  Masters'
  <2>1. FileRows'
    BY <1>u DEF Masters, FileRows, At
  <2>2. TableUsed'
    BY <1>u, Zenon DEF Masters, TableUsed
  <2> QED  BY <1>u, <2>1, <2>2 DEF Masters
<1>5. ASSUME NEW p \in Procs, NEW k \in KeyNames, CreateSymKey(p, k)
      PROVE  Masters'
  <2>1. UNCHANGED <<mkTable, masterKeys, symFiles, crashes, skipped, proc>>
    BY <1>5 DEF CreateSymKey, histVars
  <2>2. manager' = manager \/ manager' = [manager EXCEPT ![p] = None]
    BY <1>5 DEF CreateSymKey
  <2>3. MasterFiles'
    BY <2>1, <2>2 DEF Masters, MasterFiles, At
  <2> QED  BY <2>1, <2>3, <1>u
<1>6. CASE Tick /\ UNCHANGED encVars
  BY <1>6, <1>u DEF Tick, encVars, Masters, MasterFiles, At, histVars
<1>7. CASE UNCHANGED allVars
  BY <1>7, <1>u DEF allVars, vars, encVars, Masters, MasterFiles, At
<1>8. ASSUME NEW p \in Procs, NewManager(p)
      PROVE  UNCHANGED encVars
  BY <1>8 DEF NewManager
<1> QED
  BY <1>1, <1>2, <1>3, <1>4, <1>5, <1>6, <1>7, <1>8, CallStarts DEF KeychainNext, Mastering

-----------------------------------------------------------------------------
(* The theorems. *)

\* What earlier runs left satisfies the invariant.
LEMMA InvInit ==
  ASSUME KeychainInit
  PROVE  KeychainInv
<1>1. PICK old \in SUBSET Identities :
        LET oldKeys == old \X {0}
            files == [k \in KeyNames |-> IF k \in oldKeys THEN 0 ELSE None] IN
        /\ ids = old /\ defIds = {}
        /\ keyRow = files /\ defKeys = oldKeys
        /\ certs = {} /\ defCerts = {}
        /\ pri = files /\ pub = files /\ locked = oldKeys
        /\ proc = [p \in Procs |-> IdleProc]
        /\ clock = 1 /\ ops = 0 /\ crashes = 0 /\ busy = 0
        /\ contested = {} /\ unsettled = {} /\ skipped = {}
  BY DEF KeychainInit, Init
<1> DEFINE oldKeys == old \X {0}
<1>2. oldKeys \subseteq KeyNames
  BY BoundAssumption DEF KeyNames
<1>3. \A k \in KeyNames : /\ pri[k] = keyRow[k] /\ pub[k] = keyRow[k] /\ keyRow[k] \in Nat \cup {None}
                          /\ k \in oldKeys <=> keyRow[k] # None
  BY <1>1, NoneAssumption
<1>4. \A p \in Procs : proc[p] = IdleProc
  BY <1>1
<1>5. TypeOK
  <2>1. proc \in [Procs -> Processes]
    BY <1>1, IdleProcess
  <2> QED  BY <1>1, <1>2, <2>1, BoundAssumption DEF TypeOK
<1>6. Calls
  BY <1>4, IdleProcess DEF Calls
<1>7. Storages
  <2>1. \A k \in oldKeys : IdOf(k) \in ids
    BY <1>1 DEF IdOf
  <2>2. Known
    BY <1>4, IdleProcess DEF Known, Knows, Filing, Adding
  <2>3. Exclusive
    BY <1>4, IdleProcess DEF Exclusive, Writing
  <2>4. Files /\ KeyRows /\ CertRows
    BY <1>1, <1>2, <1>3, <2>1 DEF Files, KeyRows, CertRows, Rows
  <2> QED  BY <2>2, <2>3, <2>4 DEF Storages
<1>8. Defaults
  <2>1. \A k, l \in oldKeys : IdOf(k) = IdOf(l) => k = l
    BY DEF IdOf
  <2> QED  BY <1>1, <1>4, <2>1, IdleProcess DEF Defaults, OneId, OneKey, OneCert, At
<1>9. Masters
  <2>1. MasterFiles
    BY <1>4, IdleProcess DEF KeychainInit, MasterFiles, At
  <2>2. FileRows
    BY DEF KeychainInit, FileRows
  <2>3. TableUsed
    BY Zenon DEF KeychainInit, TableUsed
  <2> QED  BY <2>1, <2>2, <2>3 DEF Masters
<1> QED  BY <1>5, <1>6, <1>7, <1>8, <1>9 DEF KeychainInv

\* KeychainInv is an invariant.
LEMMA Invariance == KeychainSpec => []KeychainInv
<1>1. KeychainInit => KeychainInv
  BY InvInit
<1>2. KeychainInv /\ [KeychainNext]_allVars => KeychainInv'
  BY CallsNext, StoragesNext, DefaultsNext, MastersNext DEF KeychainInv
<1> QED  BY <1>1, <1>2, PTL DEF KeychainSpec

\* IdentityManager keeps the public and the private storage consistent, whatever
\* statements interleave, throw, are skipped or are never reached: a key on record
\* has its two files.  They are a pair unless the key is contested, and its
\* identity is on record unless that very insertion was skipped
\* (StoragesConsistent).
THEOREM StoragesStayConsistent == KeychainSpec => []StoragesConsistent
<1>1. KeychainInv => StoragesConsistent
  BY DEF KeychainInv, Storages, Files, KeyRows, StoragesConsistent
<1> QED  BY <1>1, Invariance, PTL

\* A set whose elements are all equal has at most one.
LEMMA AtMostOne ==
  ASSUME NEW S, \A x, y \in S : x = y
  PROVE  Cardinality(S) <= 1
<1>1. CASE S = {}
  BY <1>1, FS_EmptySet
<1>2. CASE S # {}
  <2>1. PICK x : S = {x}
    BY <1>2
  <2> QED  BY <2>1, FS_Singleton
<1> QED  BY <1>1, <1>2

\* There is at most one default identity, default key of an identity and default
\* certificate of a key, except where the last call that set one overlapped with
\* another or was not able to clear the old one (DefaultsUnique).
THEOREM DefaultsStayUnique == KeychainSpec => []DefaultsUnique
<1>1. ASSUME KeychainInv  PROVE DefaultsUnique
  <2> USE <1>1 DEF KeychainInv, Defaults, TypeOK
  <2>1. ASSUME <<>> \notin unsettled  PROVE Cardinality(getAllIdentities(TRUE)) <= 1
    BY <2>1, AtMostOne DEF OneId, getAllIdentities
  <2>2. ASSUME NEW i \in Identities, <<i>> \notin unsettled
        PROVE  Cardinality(getAllKeyNamesOfIdentity(i, TRUE)) <= 1
    <3>1. \A k \in getAllKeyNamesOfIdentity(i, TRUE) : k \in defKeys /\ IdOf(k) = i
      BY DEF getAllKeyNamesOfIdentity, getAllKeyNames
    <3>2. \A k, l \in getAllKeyNamesOfIdentity(i, TRUE) : k = l
      <4> SUFFICES ASSUME NEW k \in getAllKeyNamesOfIdentity(i, TRUE), NEW l \in getAllKeyNamesOfIdentity(i, TRUE)
                   PROVE  k = l
        OBVIOUS
      <4>1. k \in defKeys /\ IdOf(k) = i /\ l \in defKeys /\ IdOf(l) = i
        BY <3>1
      <4> QED  BY <2>2, <4>1 DEF OneKey
    <3> QED  BY <3>2, AtMostOne
  <2>3. ASSUME NEW k \in KeyNames, k \notin unsettled
        PROVE  Cardinality(getAllCertificateNamesOfKey(k, TRUE)) <= 1
    <3>1. \A n \in getAllCertificateNamesOfKey(k, TRUE) :
            \E c \in defCerts : n = <<c.key, c.version>> /\ c.key = k
      BY DEF getAllCertificateNamesOfKey, getAllCertificateNames, CertName
    <3>2. \A m, n \in getAllCertificateNamesOfKey(k, TRUE) : m = n
      <4> SUFFICES ASSUME NEW m \in getAllCertificateNamesOfKey(k, TRUE),
                          NEW n \in getAllCertificateNamesOfKey(k, TRUE)
                   PROVE  m = n
        OBVIOUS
      <4>1. PICK c \in defCerts : m = <<c.key, c.version>> /\ c.key = k
        BY <3>1
      <4>2. PICK d \in defCerts : n = <<d.key, d.version>> /\ d.key = k
        BY <3>1
      <4>3. c.version = d.version
        BY <2>3, <4>1, <4>2 DEF OneCert
      <4> QED  BY <4>1, <4>2, <4>3
    <3> QED  BY <3>2, AtMostOne
  <2> QED  BY <2>1, <2>2, <2>3 DEF DefaultsUnique
<1> QED  BY <1>1, Invariance, PTL

\* The outcome of an operation is a failure or a record of its result.
LEMMA Outcomes ==
  ASSUME NEW x, NEW y, NEW z
  PROVE  /\ Failed(Fails(x)) /\ ~ Failed([cert |-> x]) /\ ~ Failed([key |-> x]) /\ ~ Failed([name |-> x])
         /\ ~ Failed([cipher |-> x]) /\ ~ Failed([plain |-> x])
         /\ ~ Failed([by |-> x, locator |-> y, digest |-> z])
  BY DEF Failed, Fails

\* Rows of MasterKey and the default keys that managers have got are on disk,
\* however constructors interleave and wherever one is killed or finds the database
\* busy; the table stays without a row, and managers without a default key, only
\* after a kill or a skipped insertion (MasterKeyOnDisk).
THEOREM MasterKeyIsOnDisk == KeychainSpec => []MasterKeyOnDisk
<1>1. ASSUME KeychainInv  PROVE MasterKeyOnDisk
  <2> USE <1>1 DEF KeychainInv, Masters
  <2>1. ASSUME NEW p \in Procs, manager[p] \notin {None, 0}
        PROVE  ~ Failed(encrypt(manager[p], TRUE))
    <3>1. manager[p] \in symFiles
      BY <2>1 DEF MasterFiles
    <3>2. hasFile(manager[p], "SYMMETRIC")
      <4>1. "SYMMETRIC" # "PUBLIC" /\ "SYMMETRIC" # "PRIVATE"
        OBVIOUS
      <4> QED  BY <3>1, <4>1 DEF hasFile
    <3> QED  BY <3>2, Outcomes DEF encrypt
  <2>2. masterKeys \subseteq symFiles
    BY DEF MasterFiles
  <2>3. TableUsed
    OBVIOUS
  <2> QED  BY <2>1, <2>2, <2>3, Zenon DEF MasterKeyOnDisk, TableUsed, AtMaster
<1> QED  BY <1>1, Invariance, PTL

\* The two halves of a key on record fit.
LEMMA KeyFits ==
  ASSUME KeychainInv, NEW k \in KeyNames, keyRow[k] # None
  PROVE  pri[k] # None /\ keyRow[k] = pub[k] /\ (k \in contested \/ pri[k] = pub[k])
  BY DEF KeychainInv, Storages, KeyRows, Files, Rows

\* Whatever the digest, a signature under k is made with k's private file.
LEMMA SignedWith ==
  ASSUME NEW k, NEW digest
  PROVE  LET s == Signature(sign(k), k, digest) IN Failed(s) \/ (s.by = pri[k] /\ s.locator = k)
<1>1. CASE hasFile(k, "PRIVATE")
  <2>1. sign(k) = [key |-> pri[k]] /\ ~ Failed(sign(k))
    BY <1>1, Outcomes DEF sign
  <2>2. CASE Failed(digest)
    BY <2>1, <2>2 DEF Signature
  <2>3. CASE ~ Failed(digest)
    BY <2>1, <2>3 DEF Signature
  <2> QED  BY <2>2, <2>3
<1>2. CASE ~ hasFile(k, "PRIVATE")
  <2>1. Failed(sign(k))
    BY <1>2, Outcomes DEF sign
  <2> QED  BY <2>1 DEF Signature
<1> QED  BY <1>1, <1>2

\* What signByCertificate finds has the name it was asked for.
LEMMA SignedUnder ==
  ASSUME KeychainInv, NEW k \in KeyNames, NEW v
  PROVE  LET s == signByCertificate(<<k, v>>) IN
         Failed(s) \/ (s.locator = k /\ keyRow[k] # None /\ s.by = pri[k])
<1> DEFINE n == <<k, v>>
           found == getCertificate(n, FALSE)
           c == CHOOSE d \in found : TRUE
<1>1. CASE found = {}
  BY <1>1, Outcomes DEF signByCertificate, managerCertificate
<1>2. CASE found # {}
  <2>1. c \in found
    BY <1>2
  <2>2. c \in certs /\ c.key = k
    BY <2>1 DEF getCertificate, CertName
  <2>3. keyRow[k] # None
    BY <2>2, NoneAssumption, BoundAssumption
       DEF KeychainInv, TypeOK, Storages, CertRows, Certificates, Material
  <2>4. managerCertificate(n, FALSE) = [cert |-> c]
    BY <1>2 DEF managerCertificate
  <2> HIDE DEF c
  <2>5. signByCertificate(n) = Signature(sign(k), k, getPublickey(k))
    <3>1. ~ Failed([cert |-> c]) /\ [cert |-> c].cert = c
      BY Outcomes
    <3> QED  BY <2>2, <2>4, <3>1 DEF signByCertificate
  <2> QED  BY <2>3, <2>5, SignedWith
<1> QED  BY <1>1, <1>2

\* What is signed under a certificate verifies with it, whoever signs and
\* whatever happened to the storages before, unless two processes generated the
\* signing key at once (SignatureVerifies).
THEOREM SignaturesVerify == KeychainSpec => []SignatureVerifies
<1>1. ASSUME KeychainInv  PROVE SignatureVerifies
  <2> USE <1>1
  <2> DEFINE Verifies(s, pubs) == Failed(s) \/ s.locator \in contested \/ s.by \in pubs
  <2>c. ASSUME NEW c \in certs
        PROVE  c.key \in KeyNames /\ keyRow[c.key] = c.pub /\ keyRow[c.key] # None
    BY NoneAssumption, BoundAssumption DEF KeychainInv, TypeOK, Storages, CertRows, Certificates, Material
  <2>1. ASSUME NEW c \in certs
        PROVE  Verifies(signByCertificate(CertName(c)), {c.pub})
    BY <2>c, SignedUnder, KeyFits DEF CertName
  <2>2. ASSUME NEW c \in certs, NEW k \in KeyNames
        PROVE  Verifies(createIdentityCertificate(k, CertName(c)), {c.pub})
    <3> DEFINE s == createIdentityCertificate(k, CertName(c))
    <3>1. s = Fails("abort") \/ s = Signature(sign(c.key), c.key, [key |-> getKey(k)])
      BY DEF createIdentityCertificate, CertName
    <3>2. Failed(Fails("abort"))
      BY Outcomes
    <3>3. Failed(s) \/ (s.by = pri[c.key] /\ s.locator = c.key)
      BY <3>1, <3>2, SignedWith
    <3>4. c.key \in contested \/ pri[c.key] \in {c.pub}
      BY <2>c, KeyFits
    <3> QED  BY <3>3, <3>4
  <2>3. ASSUME NEW k \in KeyNames
        PROVE  Verifies(selfSign(k), {getKey(k)})
    BY SignedWith, Outcomes, KeyFits DEF selfSign, doesKeyExist, getKey
  <2>4. ASSUME NEW i \in Identities, NEW s \in signByIdentity(i)
        PROVE  Failed(s) \/ (IdOf(s.locator) = i /\ Verifies(s, {getKey(s.locator)}))
    <3>1. i # None
      BY NoneAssumption
    <3>2. PICK n \in getDefaultCertificateNameForIdentity(i) :
            s = IF Failed(n) THEN n ELSE IF n.name = None THEN Fails("SecException")
                ELSE signByCertificate(n.name)
      BY <3>1 DEF signByIdentity
    <3>3. PICK k \in getDefaultKeyNameForIdentity(i) : n \in getDefaultCertificateNameForKey(k)
      BY DEF getDefaultCertificateNameForIdentity
    <3>4. CASE Failed(n) \/ n = [name |-> None]
      <4>1. Failed(Fails("SecException"))
        BY Outcomes
      <4> QED  BY <3>2, <3>4, <4>1
    <3>5. CASE ~ (Failed(n) \/ n = [name |-> None])
      <4>1. k # None /\ \E c \in defCerts : n = [name |-> <<k, c.version>>]
        BY <3>3, <3>5, Outcomes DEF getDefaultCertificateNameForKey, CertName
      <4>2. k \in KeyNames /\ IdOf(k) = i
        BY <4>1 DEF getDefaultKeyNameForIdentity, KeychainInv, TypeOK
      <4>3. PICK c \in defCerts : n = [name |-> <<k, c.version>>]
        BY <4>1
      <4>4. s = Fails("SecException") \/ s = signByCertificate(<<k, c.version>>)
        BY <3>2, <4>3, <3>5
      <4>5. Failed(s) \/ (s.locator = k /\ keyRow[k] # None /\ s.by = pri[k])
        <5>1. Failed(Fails("SecException"))
          BY Outcomes
        <5> QED  BY <4>2, <4>4, <5>1, SignedUnder
      <4> QED  BY <4>2, <4>5, KeyFits DEF getKey
    <3> QED  BY <3>4, <3>5
  <2>5. ASSUME NEW k \in KeyNames, doesKeyExist(k) /\ k \notin contested
        PROVE  LET c == managerEncrypt(k, FALSE) IN
               ~ Failed(c) /\ managerDecrypt(k, c.cipher, FALSE) = [plain |-> getKey(k)]
    <3>1. pri[k] # None /\ pub[k] = keyRow[k] /\ pri[k] = pub[k]
      BY <2>5, KeyFits DEF doesKeyExist
    <3>2. hasFile(k, "PUBLIC") /\ hasFile(k, "PRIVATE")
      BY <3>1 DEF hasFile
    <3>3. managerEncrypt(k, FALSE) = [cipher |-> pub[k]]
      BY <3>2 DEF managerEncrypt, encrypt
    <3>4. managerDecrypt(k, pub[k], FALSE) = [plain |-> pub[k]]
      BY <3>1, <3>2 DEF managerDecrypt, decrypt
    <3>5. ~ Failed([cipher |-> pub[k]]) /\ [cipher |-> pub[k]].cipher = pub[k]
      BY Outcomes
    <3> QED  BY <3>1, <3>3, <3>4, <3>5 DEF getKey
  <2> QED  BY <2>1, <2>2, <2>3, <2>4, <2>5 DEF SignatureVerifies
<1> QED  BY <1>1, Invariance, PTL
=============================================================================
