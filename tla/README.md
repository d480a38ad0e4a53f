# ndn.cxx in TLA+

TLA+ models of ndn.cxx, a C++ client library for Named Data Networking: its
thread pool and scheduler, the connection to the NDN daemon (ndnd), packet
verification with its policy rules and certificate cache, the identity storage,
keychain and master key, the name trie, exclude filters, and names, packets and
certificates down to the bytes of their ndnb and DER encodings. TLC checks each
model on small instances; TLAPS proves the safety properties of the components
with state for every instance, and what names, numbers, blobs and times come back
as, for every value.

`PROJECT.json` lists the components, the runs, the lines of `src/` each
definition stands for, a seeded fault (a *mutant*) for every checked property,
the hazards the properties are aimed at, and the theorems.

## 1. The system

### Components, their state and their operations

| component | source | state | operations |
|---|---|---|---|
| Executor | `executor/` | job queue, `m_needStop`, worker threads, a condition variable | `start`, `shutdown`, `execute`; a worker's `run`/`waitForJob` |
| Scheduler | `scheduler/` | `m_taskMap` by tag, a libevent timer and `m_invoked` per task, `m_running`, an event-loop thread, a one-thread Executor | `start`, `shutdown`, `addTask` (twice overloaded), `deleteTask`, `rescheduleTask(At)`; `OneTimeTask::run`, `PeriodicTask::run` |
| Wrapper | `ndn.cxx/wrapper/` | connection to ndnd, `m_connected`, `m_running`, `m_registeredInterests`, the ndn thread, a one-thread Executor | `setInterestFilter`, `clearInterestFilter`, `sendInterest`, `publishDataBy...`, `shutdown`; `ndnLoop`; `incomingInterest`, `incomingData` |
| Packet verification | `ndn.cxx/security/keychain.cc`, `policy/simple-policy-manager.cc` | trust anchors, step limit; per validation the packets being checked | `verifyData`, `checkVerificationPolicy`, `onCertificateVerified`, `onCertificateUnverified`, `onCertificateInterestTimeout` |
| Policy rules, name regexes | `ndn.cxx/security/policy/`, `ndn.cxx/regex/` | four lists of rules and expressions; every matcher remembers its last match | `requireVerify`, `skipVerifyAndTrust`, `checkSigningPolicy`, `inferSigningIdentity`, `add...`; `match`, `expand` |
| TTLCertificateCache | `ndn.cxx/security/cache/` | `m_cache`, `m_lruList`, a cleaning thread | `insertCertificate`, `getCertificate`, `cleanLoop`, shutdown |
| Identity storage, key store | `ndn.cxx/security/identity/` | SQLite tables Identity, Key, Certificate with default flags; one file per half of a key pair | `createIdentity`, `generateRSAKeyPair(AsDefault)`, `addCertificate...`, `setDefault...`, queries |
| Keychain, encryption manager | `ndn.cxx/security/keychain.cc`, `identity/identity-manager.cc`, `encryption/` | tables MasterKey and BlockCipher, a `.key` file per master key | `sign...`, `selfSign`, `createIdentityCertificate`, `encrypt`, `decrypt`, `createSymKey` |
| Name trie | `ndn.cxx/trie/` | tree of nodes, payloads, the replacement policy's container | `insert`, `erase`, `clear`, `set_max_size`, four prefix searches, `modify` |
| Exclude | `ndn.cxx/fields/exclude.*` | a sorted map from components to an ANY flag | `excludeOne`, `excludeRange`, `excludeBefore`, `excludeAfter`, `isExcluded` |
| Names | `ndn.cxx/fields/name*`, `helpers/uri.h` | a list of components | `append...`, sub-names, comparison, URIs, numbers and versions |
| Interest, Data, fields | `ndn.cxx/interest.*`, `data.*`, `fields/` | fields, `m_wire` | setters, copy, `encodeToWire`, `decodeFromWire`, `encodeToUnsignedWire` |
| ndnb | `ndn.cxx/wire/` | none | two encoders, the block parser and its visitors |
| DER, certificates | `ndn.cxx/helpers/der/`, `helpers/oid.cc`, `security/certificate/` | validity, subjects, key, extensions | `encode`, `decode`, names of certificates and keys |
| Others | `ndn.cxx/face.cc`, `wrapper/charbuf.*`, `security/identity/osx-privatekey-storage.mm`, ... | | see section 7 |

### How they interact

* The scheduler's event loop turns an expired timer into an Executor job that
  calls `Task::run()`; `run()` calls back into the scheduler to deregister or
  reschedule its task.
* The wrapper's ndn thread queues the application's callbacks on its own
  Executor. Incoming Data goes through `Keychain::verifyData` first; outgoing Data
  is signed through the keychain, which keeps the signed bytes in the packet.
* `verifyData` answers with a verdict, or sends a certificate interest through
  the wrapper; the certificate is verified in the same way, one step deeper, and
  its verdict (an Executor job) decides about the packet below it. All
  validations share one certificate cache, which a thread of its own cleans.
* The policy manager's rules decide which packets are verified, by whose key they
  may be signed, and which identity signs a name; a rule object may stand in
  several lists.
* Every Keychain of a user, in any process, works on the same database and key
  directory.
* Inserting into a full trie makes the policy call back into the trie to erase a
  victim while the insertion is under way.
* A certificate is a Data packet whose content is DER; its name leads to the key,
  and the key locator of what it signs leads to its name.

### What is hard about it

Threads meet in the Executor (a condition variable, interruption, an unlocked
flag), in the Scheduler (the unlocked half of `addTask`, `m_invoked`, shutdown
against an event loop that has not begun) and in the Wrapper (a reconnect against
a shutdown, unlocked reads of `m_connected`). Verification depends on an
unreliable network, on timeouts and retries, on bounded recursion and on state
shared between validations. Matchers keep state between matches. Identity storage
and master key must survive crashes and other processes without transactions. Trie
and policy call each other. The interval map of Exclude is edited in place. The
codecs announce sizes with one function and write with another, use sentinels for
absent fields, and find the signed bytes of a packet at a fixed offset.
`PROJECT.json` lists 40 hazards with the line each bites at.

## 2. Modules

| module | models | used by |
|---|---|---|
| `JobPool` | the Executor's promise: FIFO hand-over, nothing lost or run twice, a closed pool runs nothing | instantiated by `Executor` |
| `Executor` | `executor.cc` at the granularity of the mutex | `ExecutorProofs`, `MCExecutor` |
| `Scheduler` | `scheduler.cc`, `task.cc`, both task kinds | `SchedulerProofs`, `MCScheduler` |
| `Wrapper` | `wrapper.cc` after its constructor | `WrapperProofs`, `MCWrapper` |
| `Verification` | `verifyData` with `SimplePolicyManager` | `VerificationProofs`, `MCVerification` |
| `TTLCertificateCache` | `ttl-certificate-cache.cc` | `CertificateCacheProofs`, `MCCertificateCache` |
| `IdentityStore` | the writing operations of `IdentityManager` over `BasicIdentityStorage` and `SimpleKeyStore` | `Keychain` |
| `Keychain` | queries, signing, encryption, the master key | `KeychainProofs`, `MCIdentityStore` |
| `TrieWithPolicy` | `trie.h`, `trie-with-policy.h` and five policies | `TrieProofs`, `MCTrie` |
| `NameRegex` | `ndn.cxx/regex/` | `PolicyRules` |
| `PolicyRules` | `IdentityPolicyRule`, the decisions of `SimplePolicyManager`, both overloads of `signByIdentity` | `MCPolicy` |
| `Exclude` | `exclude.cc` | `PacketLife`, `FieldProofs` |
| `ByteStream` | reading bytes from a stream, and what a read past its end gives | `NdnbBlocks`, `Der` |
| `Names` | components, names, URIs, numbers in them | `NameLife`, `NdnbBlocks` |
| `NameLife` | a name built by any sequence of calls | `PacketLife`, `FieldProofs` |
| `NdnbBlocks` | the encoder; headers, blobs, numbers and times as they are read | `Ndnb`, `FieldProofs` |
| `Ndnb` | the block parser with its nested blocks, and the visitors | `Packets` |
| `Packets` | interests and data packets, their encoders and decoders | `Certificates` |
| `Der` | DER nodes, their encoding and parsing | `Certificates` |
| `Certificates` | certificates' fields, keys, extensions and names | `PacketLife` |
| `PacketLife` | the life of a name, an exclude filter, an interest, a data packet and a certificate | `MCPackets` |

Operators named `X_Fault` (for example `InterestTimeout_Forever`) are faulty
versions of `X`; no specification uses them. They show that a property notices
the fault.

**Executor.** A critical section is one action, cut where `cond.wait` releases the
lock: `CheckStop` (the loop condition of `run`), `TakeJob`, `Park`,
`Interrupted`, `FinishJob`. `interrupt_all` flags the workers one by one
(`InterruptThread`), and a parked one wakes up and throws. Spurious wake-ups
happen at any time. A job that contains an interruption point may be cut short
(`CutJob`). `submitted`, `taken`, `ended` and `cut` are history.

**Scheduler.** `m_mutex` is recursive and held for every map operation, so each of
these is one action; `addTask` is two (`AddToMap`, `ArmAdded`) because it arms
the timer after releasing the lock. The two halves of `run()` around the callback
are actions of the worker. Delays are abstracted: an armed timer may expire
whenever the loop runs. The executor appears through the JobPool contract with
one worker.

**Wrapper.** `ThreadStep` is `ndnLoop`: serving, noticing a lost connection, the
retry loop with its sleep, restoring the filters. `sendInterest` is two actions,
because it tests before it takes the lock. `shutdown()` is the sequence executor,
flag, unlocked test of `m_connected`, join. ndnd and the client library are
external: the daemon dies and comes back, and any call into the library may fail.
`setInterestFilter` and `clearInterestFilter` are called with `record` true or false;
`apart` is history: the prefixes whose last filter call on this session failed in the
library or was made with `record` false, so that what is served and what is on record
may differ.

**Verification.** A validation is a stack: the application's packet, and above each
packet the certificate fetched to check it. The position in the stack is the step
count. `Verdict` is `checkVerificationPolicy` plus the signature check, over
abstract packets: who signed it, which key name its locator holds, which rules
match it. Any packet under the interest's name may answer a certificate interest
(forged, looping and expired ones too), because the code does not compare it with
the name in the KeyLocator. The cache may evict at any time (what it may evict is
`TTLCertificateCache`'s business), and the connection may go.

**TTLCertificateCache.** An insertion is two actions because the expiry time is
computed before the lock. A cleaning round reads the clock (`CleanTop`), takes the
lock (`CleanLock`), erases the expired entries one by one (`CleanErase`) and releases
it (`CleanUnlock`); nobody else gets in between. `older` is history: for each name,
those that were not used since it was. It defines what the LRU list should look like.

**IdentityStore and Keychain.** One action is one SQL statement or one file
operation of one process, and a process may be killed between any two. Key names
carry the second they were made in, as `getNewKeyName` does. The initial database
is any that earlier runs left behind.

The code sets no busy handler and, in all of these calls, does not look at the result of
`sqlite3_step` (`basic-identity-storage.cc:201`, `:261`, `:555`, `:586`, `:616`,
`basic-encryption-manager.cc:123`). A statement that meets a lock of another
process therefore does nothing, a query that does finds nothing, and the caller goes on.
Every statement has this second outcome (`Busy`), so a key may be inserted without its
identity, a default be set without the old one being cleared, and the master key's table
be made and its row not. Three history variables say where this, or an overlap of two
processes, went wrong, and the properties except exactly these places: `skipped` (the
identity rows, or the row of MasterKey, that were not inserted), `unsettled` (owners
whose default was last set without clearing the old one or while another process was setting
it) and `contested` (key names that two processes generated in the same second). Each
exception is a flaw of the code (section 5). Not modelled are a busy database in the
CREATE TABLEs of the identity storage's constructor, and in the queries a signing call makes:
the outcomes of signing are those for a database that answers.

Queries, signing, encryption and decryption
change nothing on record: they are operators over the state, whose outcome may be
an exception (`Fails`), a crash, or one of several rows when a default is not
unique. The properties quantify over their outcomes in every reachable state. The
constructor of the encryption manager (`MasterTable` ... `SelectMaster`) runs
beside the other operations.

**TrieWithPolicy.** A node is its name. `Insert` is the whole call, with the
victim's erasure (`Replace`) or the refused insertion (`Reject`) inside. Names
are an abstract prefix order (`Pre`), so the proofs hold for every name space.
Undefined behaviour of the code (unlinking an unlinked node, a null node passed
to the policy) is a step to an absorbing state `op = "crash"`.

**NameRegex and PolicyRules.** An expression is a sequence of tokens; `Compile`
builds the tree of matchers as the pattern list matcher does, and `Matches` walks it
with backtracking, longest attempt first. What the matchers of the parentheses
matched last outlives the match in the code; it is threaded through the operators
and kept in `object`, and `expand` reads it. `Language` is the reference: the set of names
an expression denotes, without any order of attempts. The operators return the set of
their results (one, or none where a constructor throws), which `Then` chains. A question of
the keychain (`Verify`, `Sign`, `SignBlob`) is one action. `SignByIdentity` takes the certificate of
the identity given, of the inferred one, or the default one, and asks the policy;
`SignBlobByIdentity`, the overload for a Blob, infers nothing and asks no policy.

**Exclude.** The map is the set of its keys (`entries`) and of those with the flag
(`any`); components are totally ordered, so they are numbers. `asked` and `last`
are history. Its calls are the steps `ExcludeStep` of `PacketLife`.

**Packets.** Bytes are numbers and all conversions are carried out: escaping, block
headers in base 128 with their first four bits, fractions of a second in 1/4096, DER
lengths and object identifiers. A decoder yields the set of its results: empty when
it throws. `data.blob` is `m_wire`, the bytes kept from signing or decoding, from
which a packet is sent instead of its fields. `NameLife` builds a name with the calls
of `name.h`; its steps are the steps `NameStep` of `PacketLife`, which builds packets with the
setters in any order, signs, publishes, relays and reads them back; `signed` remembers
the bytes the signature was made over. Digests and signature bits are uninterpreted.
Where the decoder's numbers are narrow they are so here: the seconds of a timestamp are an
`int` that wraps around (`HighInInt`), a number in text an `int32_t` that stops at its greatest
value. A DER leaf keeps the header it was read with, and its size counts that header; written
again it gets the header this encoder would give it, which differs from the kept one only for leaves
of other encoders (`der.cc:53` uses the long form from 127 on, DER from 128).

## 3. Runs

State counts are distinct states. `CHECK_DEADLOCK FALSE` appears where the system
may stop for good: all jobs done, the wrapper shut down, the bounds used up.

| run | checks | states | shows |
|---|---|---|---|
| `executor` | `Fifo`, `NoLostWakeup`, `QuietWhenStopped`, `ImplementsPool`, `EveryJobTaken`, `ShutdownReturns` | 21 209 | the pool keeps its contract in every interleaving of two workers, owner and clients, over a restart |
| `scheduler` | `TimersFollowMap`, `RunsOncePerReset`, `RegisteredTaskRuns` | 280 080 | map, timers and `m_invoked` stay consistent; no task is forgotten or run twice for one reset |
| `wrapper` | `FiltersMatchRecord`, `QuietAfterShutdown`, `ShutdownCompletes` | 569 264 | filters follow the record across deaths of the daemon; shutdown ends threads and callbacks |
| `verification` | `VerifiedIsTrusted`, `CacheIsTrusted`, `ChainBounded`, `Terminates` | 203 433 | only packets with a chain of trust are reported verified; every validation ends |
| `verification_silent` | `EndsWithCallback` (violated) | | finding 1 |
| `cert_cache` | `ListInOrderOfUse`, `StaleAtMostOneInterval` | 413 098 | the list holds the cached names in order of use and within the limit; expired entries go within one interval |
| `identity` | `StoragesConsistent`, `DefaultsUnique`, `SignatureVerifies`, `MasterKeyOnDisk` | 409 632 | what a crash, another process or a busy database can leave behind, and that keys work whatever it is, but for the recorded exceptions |
| `trie` | `LinkedOnce`, `Pruned`, `LookupsAnswer`, `CrashNeedsRoot`, `FullNeverGrows` | 117 889 | container and trie agree, pruning is exact, searches find something when there is something |
| `trie_deepest` | `DeepestIsBelow` (violated) | | finding 3 |
| `policy` | `MatchIsLanguage`, `DecisionsForget`, `SignerIsAbove` | 12 161 | backtracking accepts what the expression denotes; old matches decide nothing but through a group the match does not reach; an admitted signer stands above what it signs |
| `exclude_nested` | `AskedIsExcluded` (violated) | | finding 2 |
| `packets` | `UriRoundTrip`, `NameOrder`, `WireRoundTrip`, `TruncationThrows`, `RelayIsIdentity`, `SentIsSigned`, `CertificateSurvives`, `ExcludedWasAsked`, `LastIsExcluded`, `LostOnlyAboveNested` | 27 683 | what is written comes back, what is sent is what was signed, a certificate survives its encodings; nothing is excluded unasked, what was asked last is, an exclusion is lost only above a nested range |

### Bounds, and why they are enough

* `executor`: 2 workers are needed for a wake-up to reach the wrong one, 3 jobs
  for one to wait while both are busy, 2 starts for a restart with a job left in
  the queue.
* `scheduler`: a one-time and a periodic task share a tag, so that one can take
  the other's place; a second one-time task competes for the worker. 4 client
  calls allow add, delete, re-add, reschedule; 2 starts a restart.
* `wrapper`: two prefixes (one failing, one not), two callbacks (replacing one by
  the other), an interest in flight, two deaths (one during a reconnect), three
  filter calls (set, replace, clear; each on record or not), a queue of one job.
* `verification`: 2 validations, and a PKI with one instance of each case: genuine,
  forged, looping, expiring and prefix-named certificates, packets that are
  exempt, match no rule, or match a must-fail rule. Step limit 3 lets the loop of
  two certificates be entered twice. One retry stands for the code's three: first
  transmission, last retry, giving up.
* `cert_cache`: 3 names in a cache of 2, 2 writers, freshness 0 and 1, interval 1,
  clock up to 3.
* `identity`: 2 identities, 2 processes, 2 operations, 1 fault (a killed process or a
  skipped statement: `MaxFaults`), keys of three
  different seconds (one of them before the start), certificate versions with
  different validity. Two operations suffice for two processes to be inside any
  pair of operations at once.
* `trie`: six names with a chain of three and two forks, three of them stored at
  once; sizes 0 (not enforced), 1 and 2, which may be lowered below the number
  of entries.
* `policy`: the three rules the Keychain installs, a must-fail rule for verifying and
  signing, an exemption with a bounded repetition and three inferences, one with
  nested groups and one, `(<ndn>)(<a>)?`, with a group its match of /ndn does not reach;
  inferred names that are no identity, and a default identity; names shaped
  like data, DSK and KSK certificates at three depths; two questions, so that the
  second meets what the first left in the matchers. Without its premise `Reached`,
  `DecisionsForget` is violated here.
* `packets`: components with a slash, a percent sign, a byte above 127, and none at
  all; numbers 0, one byte, two bytes; a name whose length needs a second header
  byte; lifetimes below a second, with a fraction, with one that rounds up to a
  second, and unset; an exclude filter over six components, which give two disjoint
  ranges, with a component between and beside them, and every nesting, with any
  number of calls; signatures of the default and of another size (32 bytes stand
  for 256: both need two bytes of header); an OID with a base-128 number of three
  bytes.

Symmetry is used only in the runs without liveness (`cert_cache`, `identity`).

### Fairness

Weak fairness only, for what a thread scheduler or the client library provides.

* `executor`: the owner inside `start`/`shutdown` and each worker keep going; every
  job returns. Nobody is obliged to call `start`, `shutdown` or `execute`.
* `scheduler`: event loop, worker, and owner keep going; an `addTask` that has begun
  arms its timer; a pending timer expires while the loop runs (delays are finite).
* `wrapper`: ndn thread, worker and owner keep going, callbacks return. The daemon
  is not obliged to come back.
* `verification`: the ndn thread and the executor keep going, and the client
  library ends each interest with data or a timeout, as ndn_express_interest does.

## 4. Proofs

The theorems about components with state have the form `Spec => []P` (or
`Spec => [][A]_vars`, or, for the refinement, `Spec => Abstract!Spec`) and rest on
the named `ASSUME`s of the module concerned; TLC evaluates these in the runs. The
theorems about encodings speak about all values and rest on no assumption.

**ExecutorProofs**: `ExecutorTypes`, `ExecutorFifo`, `ExecutorNoLostWakeup`,
`ExecutorQuiet`, for every pool size, every set of jobs and every number of
restarts. The inductive invariant `ExecInv` adds to `TypeOK` and `Fifo`:
`Phases` (which worker states are possible in each phase of the owner), `Hands` (a
worker has a job exactly when it is in it), and `Attended`, which is
`NoLostWakeup` restricted to the workers created so far. `NoLostWakeup` is not
inductive alone: during `start()` jobs may be queued and the workers not yet
there, so the argument needs that each new one begins awake; and `execute`
notifies only on an empty queue, so it needs that a non-empty one has had an
awake worker since.

**TrieProofs**: `TrieTypes`, `TrieLinkedOnce`, `TriePruned`, `TrieLookupsAnswer`,
`TrieCrashNeedsRoot`, `TrieFullNeverGrows`, for every name space with prefixes
totally ordered, every policy, size and predicate. The invariants are inductive
only together (`TrieInv`): an erasure unlinks exactly one entry because the
container lists exactly the stored names, pruning is exact because the tree was,
and the searches walk the existing nodes, which `Pruned` says are the right ones.
Lemmas cover linking into and unlinking from a sequence, the order of LFU's
multiset, and what pruning leaves.

**VerificationProofs**: `VerificationTypes`, `VerifiedTrusted`, `CacheTrusted`,
`ChainsBounded`, for every PKI, rule set, step limit and number of validations.
`Trusted` is the least set that contains the exempt packets and every admitted
packet its anchor or a trusted certificate under its locator vouches for. The
invariant `VInv` says that the cache is trusted, a queued "verified" is about a
trusted packet, and the stack is `Linked`: every packet that waits for a certificate
was admitted, has no anchor, and the packet above it came in under its locator's name.
Trust then travels down one level with each `CertificateVerified`. Reading from the
cache needs that it is trusted, and writing to it needs that the verdict was sound,
so the two are proved together.

**FieldProofs, exclude filters**: `ExcludeTypes`, `ExcludeOnlyAsked`, `ExcludeLast`, `ExcludeLost`,
for every set of components. The lemmas say what each call does to the set of
excluded components: `excludeOne` adds one (`OneEffect`), a range or an unbounded one
excludes exactly itself and what was excluded, but for what lies above the end of a range that began inside
another (`RangeEffect`, `AfterEffect`). They need the shape of the map (`Sound`): the last
entry below a component decides about it. The invariant is that shape
together with the two state properties.

**FieldProofs, names**: `ComponentsComeBack`, `NumbersComeBack`, `NamesTotallyOrdered`,
for all sequences of bytes, numbers and names; `NameTypeCorrect`, `UriRoundTripHolds`
and `NameOrderHolds` about `NameSpec`, for every set of components, URIs and numbers.
`compare` is shown to decide a relation that is stated without it (`NameLess`: the first
difference, or a proper prefix), and that relation to be a strict total order. The round trips go
backwards over the written text: FlattenSeq puts the escaped characters (and a name's
components) one after the other, `FlattenParts` says where each begins, and at each
of these places the reader consumes exactly that block. The inductive invariant
`NameTypeOK` says that no component is empty: an empty one is printed as nothing between
two slashes and would not come back, so `UriRoundTrip` needs that no sequence of calls makes one.

The functions that read and write are recursive (LET f[x \in S] == ...), and such a
definition says nothing until the function is known to exist. The lemma `Recursion` gives that
for any definition whose measure is bounded; `SetInduction`, `UpInduction`
and `DownInduction` are induction over the set of the numbers that have a property. They
are derived from the well-foundedness of the numbers and take sets where the library's
theorems take operators.

**FieldProofs, blocks**: `HeadersComeBack`, `BlobsComeBack`, `WrittenNumbersComeBack`,
`TimesSurvive`, `SizesAreAnnounced`. `Holds(b, at, s)` says that s stands in the stream b
at position at; whatever stands around it, the parser reads a header, a blob or a number
from there as it was written and is left right behind it. A header is the digits of a number
in base 128 and a last byte, and the high bit of that byte is the first one on the way.
Numbers are not bounded: the parser's `uint32_t` and the `uint64_t` of components are exact
below 2^32 and 2^64. `TimesSurvive` is `TimeSurvives` of the run for every time whose seconds
fit into the decoder's `int`, that is before 2^31 seconds (from then on `int seconds` of
`timestamp-visitor.cc:28` overflows and the time does not come back). `SizesAreAnnounced` is the part `SizesAgree` of `WireRoundTrip`
for all values, `SerializedSizeName` by induction over the components.

**SchedulerProofs**: `SchedulerTypes`, `TimersAlwaysFollowMap`,
`CallbackRunsOncePerReset`, for every set of tasks and tags and any number of calls
and restarts. `SchedInv` adds `MapByTag` (the map files a task under its own tag, so
the task whose place another one takes is the one whose timer is deleted), `Phases`
(executor, loop and owner), `AddingIsKnown` (a task between the two halves of
`addTask` is registered, or was deleted there), and two facts about the worker inside
`run()`: its task stays marked until a `reset()` (`RunIsMarked`), and a periodic task
that was reset during its callback already has a timer or a job (`RunIsAwaited`), since
`run()` then does not reschedule it. Without the last one `TimersFollowMap` is not
inductive: the end of `run()` would forget the task.

**WrapperProofs**: `WrapperTypes`, `FiltersAreRestored`, `ShutdownIsQuiet`, for every
set of prefixes, callbacks and interests, any number of deaths of the daemon and any
queue. `WrapInv` adds `Links` (a thread that reconnects has no session, and without
one nothing is served: so `connectNdnd` starts from nothing and the filters it sets are
all there are; a filter call on record that the library accepts changes both sides alike,
and any other makes its prefix `apart`) and `Phases` (once `shutdown()` has passed the executor, that is closed,
and a closed one runs nothing).

**KeychainProofs**: `StoragesStayConsistent`, `DefaultsStayUnique`,
`SignaturesVerify`, `MasterKeyIsOnDisk`, about `KeychainSpec`, for every set of
identities, processes and versions, any number of operations, crashes between any
two statements, and any statement skipped by a busy database. `KeychainInv` says in four parts what holds between two statements:
`Calls` (the locals of each operation); `Storages` (read-only key files are complete;
a row was read from its files; a process about to insert knows its files and rows still
to be as it left them; two processes write one key's files only if it is `contested`);
`Defaults` (between the UPDATE that clears a default and the one that sets it there is
none, and nobody else is between the two, unless the owner is `unsettled`); `Masters` (a master key's row
comes after its file, and a table without a row has somebody at work or killed, or its
insertion was skipped).
`SignatureVerifies` is about every outcome of the signing calls, and follows from
`Storages`: a certificate on record carries the public key on record, which is
that of the files.

**CertificateCacheProofs**: `ListStaysInOrderOfUse`, `StaleEntriesAreBounded`, for
every set of names and threads, every size, interval and freshness. The list part rests
on lemmas about erasing a node and about moving one to the end. The bound on stale
entries needs `Swept`: less than an interval has passed since the last round began,
and that round left nothing that had expired by then, but for what was put in later by
a writer that had computed the expiry earlier.

**Refinement**: `ExecutorImplementsPool` proves that `Executor` implements `JobPool`
(`ImplementsPool`). Each action is a step of the pool under the mapping, or leaves its
variables alone. It needs `ExecInv`, and `Accounted`: a job in a worker's hands,
ended or cut short came from the queue, so a job that `execute` accepts is new to the
pool.

### Only model-checked

* Liveness: `EveryJobTaken`, `ShutdownReturns`, `RegisteredTaskRuns`,
  `ShutdownCompletes`, `Terminates`. Liveness under fairness is beyond the proof
  system used.
* The policy rules and whole packets: `MatchIsLanguage`, `DecisionsForget`,
  `SignerIsAbove`, `WireRoundTrip` (but for its sizes and times), `TruncationThrows`,
  `RelayIsIdentity`, `SentIsSigned`, `CertificateSurvives`. They are about trees
  of any depth (expressions, nested blocks, DER nodes), which `NameRegex`, `PolicyRules`,
  `Ndnb`, `Packets` and `Der` walk with RECURSIVE operators. The prover accepts no module that
  reaches one, and a tree of unbounded depth has no set to define a recursive function on
  that TLC could still evaluate. There the runs compare both directions of a conversion, or a
  definition with its reference, over bounded inputs.

## 5. Findings

1. `verification_silent`. A fetched valid certificate with the wrong key, or a
   refused certificate interest, ends a validation without any callback.
2. `exclude_nested`. A range put inside a wider excluded range gets an end marker
   that un-excludes the part of the wider range above it. `LostOnlyAboveNested`
   proves that this is the only way to lose an exclusion.
3. `trie_deepest`. `deepest_prefix_match` is said to "Find a node that has prefix at
   least as the key" (`trie-with-policy.h:170`); when a proper prefix of the key has a
   payload it answers that one, although a node below the key exists.

Behaviours the models reproduce and the properties are stated around:

* Executor: `execute()` notifies only when the queue was empty, so two quick calls
  wake one worker and the second job may wait beside an idle worker
  (`executor.cc:71`).
* Scheduler: `event_base_loopbreak` before the thread has entered
  `event_base_loop` is forgotten, so `shutdown()` right after `start()` may block
  for ever (`scheduler.cc:140`); a `OneTimeTask` deregisters by tag and may remove
  a task that took the tag over during its callback (`one-time-task.cc:36`); a task
  that is deleted between the two halves of `addTask` leaves a timer
  that fires for a task no longer registered (`scheduler.cc:170`; `raced`).
* Wrapper: `setInterestFilter` keeps the callback first recorded for a prefix, which
  comes back after a reconnect (`wrapper.cc:487`); `FiltersMatchRecord` compares
  which prefixes are served, not the callbacks.
* Trie: `find_if` does not ask the predicate about the root, against its comment
  (`trie.h:258`, "longest prefix match satisfying" the predicate; `LookupsAnswer` excepts
  the root); `clear()` keeps the payload of
  the root, so a later erase of the empty name unlinks a node that is not linked, and
  the search of an empty trie for the empty name hands the policy a null node
  (`CrashNeedsRoot` says these are the only ways to undefined behaviour).
* Identity storage: no result of `sqlite3_step` is looked at and no busy handler set, so a
  database locked by another process silently drops statements: a key without its
  identity's row (`skipped`), a second default (`unsettled`). Two processes that set a
  default at once leave two as well, though `index.rst:163` says there is "one and only
  one" (`DefaultsUnique` says that nothing else does, and that the next undisturbed call
  mends it);
  an unknown key as default clears the old one and sets none; two processes that
  generate a key of one identity in one second overwrite each other's files
  (`contested`).
* Keychain: a NULL certificate is copied before it is tested (`identity-manager.cc:235`);
  `signByIdentity` without a default key ends in an exception of `Name`
  (`identity-storage.cc:48`); the publisher digest of an issued certificate is the
  subject's (`identity-manager.cc:187`); symmetric encryption passes the size of a
  pointer as the key length (`simplekey-store.cc:306`), so no symmetric key is ever
  stored; a crash while the master key is made, or an insertion skipped by a busy database, leaves a
  table without a row, and every later manager without a default key
  (`basic-encryption-manager.cc:97`), as is one that is built while another makes it;
  `signByIdentity` of a Blob asks no signing policy (`keychain.cc:247`).
* Regexes: a group under a repetition that takes nothing is passed over without being
  cleared (`regex-repeat-matcher.cc:137`), so `expand()` returns what an earlier match
  left in it: with `(<ndn>)(<a>)?` and `\1\2`, /ndn asked after /ndn/a infers /ndn/a and is
  signed with that identity's certificate. `DecisionsForget` excepts exactly the calls whose match
  leaves a group unreached that the template uses (`Reached`).
* Names: `toUri` does not escape a slash; `appendNumber(0)` adds nothing, though
  `name.h:152` says a component is appended; a name with a component KEY of its own
  leads to the wrong key name.
* Packets: `decodeFromWire` finds the signed bytes at offset 266, which is right for
  signatures of 256 bytes only; empty content or an empty digest is written and
  refused by the decoder; `time::Seconds` swaps the results of `modf`, so the
  fractional seconds of `interest.h:93` are lost; the fraction of a time is lost on
  the wire, and one that rounds up may carry into nothing; times from 2^31 seconds on wrap
  around (`timestamp-visitor.cc:28`); copying an interest drops
  its exclude filter, which is not written to the wire either; of all content types
  only KEY is decoded by the older decoder; `block.cc:49` makes an exception it does
  not throw.
* Certificates: `selfSign(cert)` leaves the old signed bytes in the packet; what
  `IntroCertificateExtension` writes it cannot read; generalized times drop
  fractions.

## 6. Plan

Done: the modules above, in the order Executor, Scheduler, Verification, cache,
Wrapper, IdentityStore, Trie, Exclude, regexes and policy rules, Keychain,
names and codecs, packets and certificates; proofs of the safety properties of
Executor (with its refinement), Trie, Verification, Exclude, Scheduler, Wrapper,
Keychain, certificate cache and names; proofs that headers, blobs, numbers and times come
back from the wire.

Left, in this order:

1. *Composition*: `Verification` over `TTLCertificateCache` instead of a cache that
   evicts at will, and with `PolicyRules` for its constants `Required`, `Satisfies`,
   `MustFail`; `Scheduler` and `Wrapper` over `JobPool` by INSTANCE.
2. *Face* on top of the trie; `clear_if` and the iterators of the trie, which bypass
   the policy.

## 7. Not modelled

* Cryptography: a signature is the identity of the key that made it, or bits of the
  right size.
* `Face`: a registry of callbacks in two tries; nothing in the repository derives
  from it.
* The `active` flag of keys (written, and read by no query), `addAnyCertificate` (no
  caller), `createSigningRequest` (returns a pointer into a destroyed object),
  `revokeKey` and `revokeCertificate` (empty), `AesCipher` (no symmetric key is ever
  stored).
* `IntroCertificate`, the print visitors and the visitors nothing calls, the calendar
  of generalized times (boost's), `decodeFromWire` from a stream object other than
  a byte array.
* `BasicCertificateCache`, no-verify policy manager, interval generators, hashes,
  logging, charbuf streams: no control of their own.
* Random and multi policies of the trie: they refer to ns-3 types the repository
  lacks, so nothing can instantiate them.
* OS X key storage: its behaviour is in the operating system.
* `security/old`, `security/tmp`, `disabled`: not built.
* Inside the modelled parts: a `shutdown()` called from a job (it joins its own
  thread), jobs that throw (they end the process), two threads in one Regex
  object, destruction of tasks still queued, `NDN_UPCALL_FINAL` clean-up, hash table
  growth, `find_exact`, `clear_if` and the iterators of the trie.
