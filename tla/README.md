# localRbac in TLA+

localRbac is a local-first database with per-resource read and write rights.
Every device holds a replica in cr-sqlite, signs every row it writes, encrypts
every cell under a per-resource data key (DEK), and exchanges changesets as
files. There is no server: what a replica accepts is decided by
`importChangeset` on the importing device, and who can read is decided by the
keywraps the admin has put into the database.

This directory holds TLA+ models of that program, the TLC configurations that
check them, and TLAPS proofs about them. Paths are given from the repository's
root, those of the components in section 1 from `packages/datalayer/src/`;
`crengine.ts` is `packages/datalayer/src/engine/crengine.ts`.

## 1. Inventory

| component | state it keeps | operations | what is hard about it | what makes it correct |
|---|---|---|---|---|
| Key administration, `crengine.ts` 221-300 | tables `dekver`, `grantrec`, `keywrap`, `identity` | `grant`, `revoke`, `rotateDek`, `rotateAllDeks`, `importIdentityCard`, the version a `writeCell` encrypts under | all async, nothing excludes two calls at once; several statements per call and no transaction; throws half way; the tab may close | a revoked subject never gets a later key; members keep the keys they are entitled to |
| Signed row and merge, `crengine.ts` 110-140, `sqlite.ts` 80-100 | `author`, `sig`, content columns, column versions | `INSERT OR REPLACE`, `crsql_changes` | concurrent writes tie, and each column decides by itself | merging is a join: order, repetition and route do not matter |
| Changeset exchange, `crengine.ts` 165-172, 366, 432-491 | main database, staging connection, files in circulation | `exportChangeset`, `importChangeset`, `authorizeStaging`, `genesis` | late, lost, repeated, reordered files; checks and merge are several awaits apart; the grants that justify a row may be gone | one admin root per replica; only authorized rows; replicas converge; a fresh one can join |
| Consensus loop, `crengine.ts` 385-427, 493-556 | `checkpoint`, `_wm` (local watermark), the rebuild slice | `recordCheckpoint`, `exportSince`, `runConsensus`, `rebuildSliceFor`, `wipe` | watermark taken after the merge that brought the checkpoint; rejected diffs ignored; a slice restarts column versions | no accepted write is lost by a round; members rebuild the same state |
| Checkpoint chain, `consensus/chain.ts` | none (pure) | `chainFrom`, `tip`, `mergeBase`, `isDescendant` | forks of the chain, equal epochs, missing parents | merge base is the latest common ancestor |
| Compartment fold, `compartment/materialize.ts`, `crengine.ts` 314-362 | none (pure over decrypted cells) | `foldRecords`, `listRecords`, `consolidate`, tags | versions compared as text | the same cells give the same record |
| Device session, `crengine.ts` 142-222, 552-558 | `state.session`, `state.conn`, `dekCache` | `login`, `unlock`, `logout`, `getDEK`, `genesis`, `close` | cached negative answers; session changes during an await; reopening an existing database | no key of one user used for another; a key that has arrived is usable |
| MLS compartments, `mls/` | one group per resource, on coordinator and members | `grant`, `revoke`, `join`, `apply`, `dek` | overlapping grants start from the same group; commits out of order or twice | members of a resource, and only they, share the epoch key |
| Threshold vault, `vault.ts`, `crypto/secret-sharing/shamir.ts` | sealed vault, contributions | `sealVault`, `contributeShare`, `produceContribution`, `importContribution`, `openVault` | fewer, repeated or foreign shares | any k distinct custodians open it, fewer do not |
| Ceremony, `ceremony/` | none (orchestration) | `lock`, `distribute`, `partition`, slices | records in several resources | nothing leaves a resource the recipient may not read |
| Encrypted VFS, `engine/EncryptedIDBVFS.js`, `EncryptingIDBContext.js` | blocks in IndexedDB, per-file transaction state, the current IDB transaction | `xWrite`, `xTruncate`, `xSync`, atomic write batches, rollback, `purge`; `run` with its transaction retry | crash between transactions; relaxed durability; re-blocking | after a crash the old or the new file |
| Connection queue, `engine/sqlite.ts` | `#tail`, a chain of promises | `run`, `all`, `scalar`, `exec`, `close` | `close` against queued statements | one statement at a time |
| Crypto wrappers, keystore | none | sign, seal, AEAD, hash, KDF | none here: calls into WebCrypto and Argon2id | assumed, see section 8 |
| Demo app, `packages/app/src/` | DOM | buttons | starts a device call without waiting for the one before | it supplies the interleavings the models allow |

How they interact: the app calls the device object that `createCrDevice`
returns. The device sends SQL through one `Conn` (queued, one statement at a
time) to cr-sqlite, whose pages go through the encrypted VFS in the browser.
Devices interact only through changeset files. The vault, the ceremony and the
MLS groups are libraries beside the device: they take records and identities and
return sealed files.

## 2. What is modelled now

| module | models | proved about in |
|---|---|---|
| `KeyRotation` | key administration on one device | `KeyRotationProofs` |
| `CrRow` | one signed row and its column-wise merge | `ReplicationProofs` |
| `Replication` (extends `CrRow`) | devices exchanging full changesets | `ReplicationProofs` |
| `AtomicFile` | what SQLite takes from a file that reports `SQLITE_IOCAP_BATCH_ATOMIC`: the abstract specification of the VFS | `IdbVfsProofs` |
| `BlockStore` | the object store `blocks` and what the VFS does to it in one transaction | `IdbVfsProofs` |
| `IdbContext` (extends `BlockStore`) | the transactions, the function queue and `sync()` of `EncryptingIDBContext.js` | `IdbVfsProofs` |
| `IdbVfs` (extends `IdbContext`) | `EncryptedIDBVFS.js` under SQLite; `File` is the `INSTANCE` of `AtomicFile` it implements | `IdbVfsProofs` |
| `ConnQueue` | the promise lane of `sqlite.ts`, `finalize`, `close` | `LocalRbacProofs` |
| `DekCache` | session, `getDEK` await by await, and what clears its cache | `DekCacheProofs` |
| `Chain` | the verbs of `consensus/chain.ts` | `RebuildProofs` |
| `Rebuild` (extends `Chain`) | rounds of the consensus loop: watermarks, diffs, checkpoints, slices, wipe | `RebuildProofs` |
| `MlsGroups` | the MLS group of a resource, on coordinator and members | `MlsGroupsProofs` |
| `Shamir` | GF(2^8), `split`, `combine` | `ShamirProofs` |
| `Vault` | vaults, contributions, `openVault`; the sharing scheme is a parameter | `LocalRbacProofs` |
| `Ceremony` | `consolidate`, `foldRecords`, `lock`, while the database is written | `LocalRbacProofs` |
| `LocalRbac` | the last seven parts and the VFS side by side | `LocalRbacProofs` |
| `MCKeyRotation`, `MCReplication`, `MCRebuild` | constants and symmetry for TLC | |

### KeyRotation

One device, the admin's. Each method is an asynchronous program whose statements
go one by one through the connection's queue, so a call is a record of locals
(`pc`, `req`, `ver`, `todo`, `queue`) and there is **one action per statement**.
`Call` is the set of calls that may be in flight: a singleton is a device used
serially, two slots give every interleaving of two methods at once.

| code | model |
|---|---|
| `dekver` rows (select of the highest) | `dekver[r]`, 0 for none; `DekVerFor`, `PutDekver` |
| `grantrec` row (role and revoked) | `grantrec[<<s, r>>]`, status and epoch |
| `keywrap` rows | the set `keywrap` of `<<s, r, version>>` |
| `ensureDekVer` | `EnsureDekVer`, `InitDekVer` |
| `grant` | `StartGrant`, ensure, `PutGrant`, `WrapDekTo` or `ThrowUnknown` |
| `revoke` | `StartRevoke` / `StartRevokeKeep`, `ReadEpoch`, `PutRevoke`, then a rotation |
| `rotateResource` | `ReadVer`, `PutVer`, `ReadMembers`, `WrapDekTo` per member in any order |
| `rotateAllDeks` | `ListResources`, `NextResource`, and a rotation for each |
| `writeCell` of the admin | `StartWrite`, ensure, `PutCell` |
| tab closed | `Crash`: the tables stay, every call is gone |

`closing`, `locked`, `shut` and `torn` are history that no action reads. They
name the intervals the properties talk about: a rotating revoke under way, one
that has returned with no grant since, a write begun inside such an interval,
and a version whose distribution was cut short.

### CrRow and Replication

A row is what cr-sqlite merges: a version and three columns that each remember
the write they came from. `INSERT OR REPLACE` writes all columns at the next
version (`Put`). `MergeRow` is `crsql_changes`: the higher version wins, and on
equal versions each column keeps the larger value **by itself**. The order on
contents, keys and signatures is a constant, because ciphertexts have random
nonces and signatures have no order anybody chose; the models fix three orders
that disagree. cr-sqlite is not part of the repository: these operators state
what the code relies on and are marked external in the map.

`Replication` has one resource and one cell, because authorization is decided
per row and rows do not interact. The tables kept are the ones that decide what
is accepted: `adminroot`, `grantrec`, `cell`. A file is a full changeset
(`exportChangeset(-1)`, the only kind the app exports); any device may import
any file, late, out of order, repeatedly, or never, and exporting over a file
loses the older one.

| code | model |
|---|---|
| `genesis` | `Genesis` |
| `grant`, `revoke` (the row) | `Grant`, `Revoke` over `SetGrant` |
| `writeCell`, `putCell` | `Edit` |
| `exportChangeset(-1)` | `Export` |
| `importChangeset` up to the end of the system rows of `authorizeStaging` | `CheckSystem`, `RejectSystem` |
| the data rows of `authorizeStaging` | `CheckData`, `RejectData` |
| `applyChangesetSQL` into main | `Apply` |

An import is three steps because `authorizeStaging` reads main twice before
main is written, with awaits between, and the device goes on working.
`CanOverlap` says whether a device may begin an import while another runs.
`seen` (the writes a database has merged) and `appointed` (every writer grant
ever made) are history.

### AtomicFile, BlockStore, IdbContext, IdbVfs

SQLite runs over one file with the default options, one connection, and the VFS
turns its calls into functions that the context runs one after the other in
IndexedDB transactions. A block is `[pos, ver, val, size]`: offset as a page
number, and the version, which goes down by one per atomic batch. A page's value
is the number of the transaction that wrote it, so a mix of two transactions is
visible. SQLite is external and nondeterministic: which pages a transaction
writes, whether its cache spills (rollback journal and plain writes instead of a
batch), whether a batch is rolled back, when it takes and drops its lock.

| code | model |
|---|---|
| `xOpen`, `xClose`, `xLock`, `xUnlock` | the actions of these names, and `RunOpen`, `RunReload` for the functions they queue |
| `xWrite` | `xWrite`: into the batch, through, or into block 0 in memory |
| BEGIN / COMMIT / ROLLBACK_ATOMIC_WRITE | `BeginAtomic`, `CommitAtomic`, `RollbackAtomic`; their functions `ClearAbandoned`, `CommitBatch`, `RunUndo` |
| FCNTL_SYNC, `xSync` | `xSync`, answered by `SyncOK` or `SyncFails` |
| `xRead`, `xFileSize`, `#bound` | `ReadPage`, `ReadFile`, `Found` |
| `xTruncate`, `xDelete` of a journal | `Cut` and `Truncate`; the function "unlink" |
| SQLite's rollback journal, and a hot one played back | `Spill` and the function "journal"; `PlayBack`, which truncates, writes pages back (`WriteBack`) and syncs |
| `#maybePurge`, `purge` | `RunWrite` sets `pending`; `IdlePurge` queues `Purge` |
| `#runChain`, `#tx`, the retry | `runs`, `txs`, `Runnable`, `Ran`, `NewTransaction` |
| `#putChain`, `sync()` | `chained`, `awaited`, `rejected`; `SyncRuns`, `SyncReturns`, `SyncThrows` |
| a transaction commits or aborts | `Committing`, `Complete`, `Abort` |
| the page is closed or reloaded | `Crash` |

The VFS reports `SQLITE_IOCAP_SEQUENTIAL` (EncryptedIDBVFS.js:471), so SQLite does not
sync the journal before it writes pages: that the journal is on disk first follows only
from the order in which the context runs functions and IndexedDB commits transactions.
When a hot journal is played back, `xTruncate` queues block 0 as it stands, and page 0
of the journal comes after it with an `xWrite` of its own.

`hist` (contents committed since the page was loaded) and `acked` (the newest one
`xSync` was answered for) are history, and with `Stored`, the content a reload
would find, they are the refinement mapping. `Implements` therefore says more than
an invariant: contents reach the disk in order and none is ever half there.
After an aborted transaction the code promises nothing any more, and so does
`AtomicFile` (`lost`): every `sync` throws until the page is reloaded. A reload does not
help. The functions of a batch run one after the other on the current transaction; if
IndexedDB aborts it between two of them, the next gets a new transaction
(EncryptingIDBContext.js:116, 138), which commits block 0 of the new version without
the pages the old one held. That mix stays in the object store, where a later purge may
take the last good version of a page.

### ConnQueue

The lane holds the jobs chained on `#tail`. A statement may throw at any time;
`close()` is two jobs, and statements called between them are chained in between.

### DekCache

`getDEK` is four steps with an await before each of the last three, and it reads
`state.session` at three of them: `GetDek`, `ReadRoot`, `ReadWrap`, `Store`. Any
number of calls overlap with `Login`, `Logout`, `Genesis`, an import in two steps
(the changeset is applied, the cache is cleared) and `Wipe`. A key is named by
whose private key it was derived from and its version. One assumption is in a
guard: a call under way meets at most one login (`MayLogin`), because a login
generates key pairs or runs Argon2id while the call awaits single statements.

### Chain, Rebuild

Members work, export what changed since the latest checkpoint they hold, and wait
for their slice; the coordinator goes on working all the time. "Changed since
db_version n" is a set of changed rows per watermark. `recordCheckpoint` is two
steps (`ReadChain`, `RecordCheckpoint`) and calls may overlap, so the chain forks.
`rebuildSliceFor` restarts versions at 1, as a fresh staging database does.
`made` (which write overwrote which) and `home` (the member's database when it
sent its diff) are history. Two constants open what the code leaves open and the
passing run closes: `CanEdit` (finding 6) and `CanSyncDirty` (a member with work
it has not sent imports the coordinator's checkpoint; `setWatermark` then counts
that work as sent, and `KeptThroughRebuild` fails: hazard at crengine.ts:399).
A local write between the two statements of `importChangeset` that apply a changeset
and set the watermarks (486, 489) has the same effect; `Imported` makes them one step.

### MlsGroups

A group state is the log of the commits that made it, and its key is that log.
`ensure` and the commit are awaited, so `grant` and `revoke` are two or three steps.
Welcomes and commits stay available for ever: reading one late, twice or never is
the unreliable channel. Each commit has its own randomness (`id`), as in ts-mls.

### Shamir, Vault, Ceremony

`Shamir` is translated byte for byte, tables included: `Power` is the loop that fills
`EXP`, and a table entry the loop never writes (`LOG[0]`) stays 0. `Vault` seals one
vault; the opener imports its custodians' contributions, and contribution files of other
vaults, which `importContribution` accepts from any custodian's `x`. In `Ceremony`
everything that changes the database may happen between the two reads of
`consolidate` and before `lock`; the cells of a record list in any order, because the
select has no `ORDER BY`.

### LocalRbac

These parts, each with several actors of its own, share no state: what one does
neither reads nor changes what another keeps. Every interleaving of two of them is
a pair of behaviours of one each, and every property here speaks of one part, so
it is enough that a behaviour moves one part, named by `part`, while the others
stay where they began. TLC then explores the sum of the state spaces and not their
product. What the parts do to each other is in the module of the part that feels
it: an import clears the cache in `DekCache`, a revocation moves keys in
`Ceremony`, and the statements of a device are atomic because `ConnQueue` runs one
at a time.

## 3. Runs

Every constant that bounds a run is named in the module: `MaxVer` (highest DEK
version, highest row version) and `MaxGrant` (highest version of a grant row).

| run | instance | shows |
|---|---|---|
| `key_overlap` | 1 subject, 1 resource, 2 calls, crashes, 3 versions | `LockedOut`: once a rotating revoke has returned, its subject holds no wrap of the current key, whatever overlapped it. `LaterWritesLocked`: a write begun after that uses no key the subject holds. |
| `key_serial` | 1 subject, 2 resources, 1 call, crashes, 2 versions | `MembersHoldKeys`: between calls a member holds every version since the grant, except those whose distribution threw or crashed |
| `key_lost` | 1 subject, 1 resource, 2 calls, no crash | **violated**: `MembersHoldCurrentKey` (finding 1) |
| `key_wedge` | 2 subjects, 1 call, no crash | **violated**: `ProvisionedMembersKeepUp` (finding 2) |
| `sync_overlap` | 2 devices, both editing, 2 files, overlapping imports, revocations | `SameWritesSameCell`: same writes merged, same cell. `GrantsOnlyMoveForward`: an old file never brings a revoked grant back. |
| `sync_serial` | 3 devices, two of them founders, serial imports | `RootPinned` and `OneGroup`: a pinned root stays, and nothing of another group gets in |
| `sync_quiet` | 3 devices, one editor, grants never withdrawn, overlapping imports | `ExchangeConverges` and `FreshMachineReconstructs` |
| `sync_tie` | as above with two editors | **violated**: `ExchangeConverges` (finding 3) |
| `sync_join` | as above with one editor and a revocation | **violated**: `FreshMachineReconstructs` (finding 4) |
| `local_rbac` | the parts of `LocalRbac`, each at its own size (below), no purge during a `sync()`, no edit after a rebuild | see the next table |
| `vfs_ack` | the VFS alone, 3 transactions, no fault, purges at any time | **violated**: `AcknowledgedIsDurable` (finding 5) |
| `rebuild_undo` | the consensus loop alone, 1 member, 2 records, 1 checkpoint, 4 writes | **violated**: `NoneUndone` (finding 6) |

What `local_rbac` shows (252,136 states, about three minutes):

| part, bounds | property |
|---|---|
| VFS: 2 transactions, 2 pages, purge from 2 pages on, 1 abort or reload | `Implements`: refines `AtomicFile`. `ReadsCommitted`: who takes the lock reads the last committed transaction. `SyncAnswers`: `xSync` answers, aborted transactions included. `PurgeHappens`: a scheduled purge happens. |
| connection: 2 handlers, 4 statements, any of which throws | `EarlyCallsRun`: what was called before `close()` runs on an open connection. `CallsAnswered`: everybody gets an answer. |
| key cache: 3 users, 1 version, 2 `getDEK` calls | `RightKeyOrNone`: what is cached for the user at the keyboard is the resource's key or null. `NoStaleNull`: the null goes when the key comes. |
| consensus loop: 1 member, 1 record, 4 checkpoints, 1 write, 1 archived, 2 overlapping `recordCheckpoint` | `KeptThroughRebuild`: what a member had when it sent its diff comes back. `ChainsComplete`, `MergeBaseIsLatest`: the chain verbs on forked chains, with and without a common checkpoint. |
| MLS: 2 members, 6 commits | `SameEpochSameKey`, `RevokedLockedOut` |
| vault: 3 custodians, every quorum, 2 keys, 8 coefficients, 1 byte in foreign shares | `QuorumOpens`: any k genuine shares or more open it, fewer do not. `OneWrongShareFailsClosed`. `BelowQuorumNothingIsKnown`: whichever fewer than k shares there are, `split` could have made them of any other key, with coefficients it may draw. |
| lock: 1 member and the admin, 1 record, 2 resources, 2 versions, 2 writes | `LockLosesNothing`: a locker who can open every cell locks every record once, with the value of a newest version |

Why the bounds are enough to be interesting. Three DEK versions let a grant read
the first, a rotation publish the second, and a revoke's own rotation publish
the third. Two calls contain every pairwise race, and the proofs cover any
number. Two versions of a row give a tie, a later version that beats it, and a
revoked grant; two files give an old one and a new one in circulation, and two
imports at once. Three devices are a founder, a writer and a bystander, or two
founders and somebody who hears from both. `sync_serial` keeps one version per
row because ties and revocations do not touch the question it asks. The key
and sync runs check for deadlock: a state always has a call, an export or an
import left. `local_rbac`, `vfs_ack` and `rebuild_undo` turn it off, because their
parts end: a connection that is closed, a database that has taken its bounded
writes, a vault all of whose shares are in.

Symmetry is used over subjects, calls and files only, which no definition names;
devices differ in the orders they are given. No run with symmetry has a liveness
property.

Each property has a mutant of the code that breaks it, kept beside the
definition it changes (the select without its `ORDER BY`, the missing
`revoked=0`, an import that ignores the root of main, a merge that overwrites,
`writeCell` without its check, and so on).

The bounds of `local_rbac`: two transactions write the two pages twice, which is
enough to schedule a purge, and one fault leaves one of them abandoned or its journal
to be played back. Two pages are page 0, which has rules of its own, and one other.
Two calls that read the same chain fork it. Four checkpoints let them do so above a
common checkpoint that is not the first (c0, c1, then c2 and another on c1, the fork of
`consensus.test.ts`), so that a merge base is asked for which is neither missing nor the
start of the chain. The loop has one record, since rows do not interact, in exchange for
the longer chains; `rebuild_undo` has two, and `KeptThroughRebuild` is proved for any
number. Six commits found a group, grant two
members, revoke one, grant it again and leave one to spare. The vault's bytes
include products beyond the first half of the log table, and the two keys differ
in both halves. `BelowQuorumNothingIsKnown` asks for coefficients that `split` could
have drawn, so the set of coefficients must be closed under the differences that the
other key makes: with 153, the two keys' `Xor`, it is the span of 153, 153/2 and 153/3 over
the bits. (With 0 as the only coefficient a share is the secret, and the property fails.) `MaxDekVer` is at most 9 by assumption, because `hlc` is compared
as text. Its fixed constants (`PurgeDuringSync`, `CanEdit`, `CanSyncDirty` FALSE)
are not bounds: they exclude the behaviours of findings 5 and 6 and of the hazard
at crengine.ts:399.

## 4. Fairness

The exchange of files and the administration assume no fairness: every step that
would have to happen for progress is a person, exporting, carrying a file,
importing it, clicking again after an error. Convergence there is a property of
states: `ExchangeConverges` says that whenever no import between any two replicas
would change anything, the replicas are equal.

Inside a page the browser does schedule, and `LocalRbac!Spec` says so:

- `IdbVfs!EventLoop`: weak fairness of the function chain (promise callbacks run),
  of the commit of a transaction (IndexedDB commits one without requests), and of
  `sync()`'s answer. Strong fairness of the idle callback, because in the model it
  is kept out while a `sync()` waits: `requestIdleCallback` is called in some of the
  moments the page is idle. Nothing is fair that SQLite, an abort or a reload
  decides.
- `ConnQueue!Steps`: weak fairness of the lane's next step. A statement of SQLite
  ends or throws; which of the two is left open, and no handler has to call.

`SyncAnswers` and `CallsAnswered` are not trivial under these: the first fails if a
transaction commits only when the next function arrives, the second if a job that
throws keeps the lane. A behaviour of another part satisfies the fairness of these
two because their steps are then never enabled.

## 5. Findings

Each is a run that TLC must find violated, with the sentence of the repository
it contradicts quoted in `PROJECT.json`.

1. **A grant can miss a rotation it overlaps** (`key_lost`, crengine.ts:250).
   `grant` reads the version, a rotation reads the members before the grant row
   exists and publishes the next version, both return: the member cannot read
   what is written from then on, and nothing resumes the distribution.
2. **A failed grant breaks later rotations** (`key_wedge`, crengine.ts:251). The
   grant row is stored before `wrapDekTo` throws for an identity that is not
   there. Each later rotation publishes a version, throws at that member, and the
   members after it never get the key.
3. **Concurrent edits can merge into a row nobody signed** (`sync_tie`,
   crengine.ts:466). Content, author and signature decide separately on a tie.
   The merged row fails verification everywhere, so its holder's exports are
   rejected, and the replicas stay apart.
4. **After a revocation nobody can join** (`sync_join`, crengine.ts:467). The
   full changeset carries the writer's cells together with the grant row that no
   longer says writer. A fresh device knows no older grant and rejects all of it.
5. **`sync()` can forget a transaction** (`vfs_ack`, EncryptingIDBContext.js:167).
   `sync()` awaits the `#putChain` it read and then resets it. If the idle callback
   starts a purge during that await, its function makes a new transaction whose
   link is thrown away. SQLite's next batch reuses this transaction, its `xSync`
   waits for nothing and reports success before the batch is on disk.
6. **After a rebuild a member's edits lose** (`rebuild_undo`, crengine.ts:515). The
   slice is made in a fresh database, so rebuilt rows have version 1 while the
   coordinator's rows have kept theirs. The member's next edit has version 2; merged
   against version 3 it is dropped, and the next exchange puts the old value back at
   the member.

One more limit is expressed by a constant rather than a finding: `RootPinned` and
`OneGroup` hold for imports that do not overlap on a device, or with one founder
(both are proved, section 6). Two *first* imports at once, of two groups, both
trust the root of their own changeset, because the pinned root is
read several awaits before the merge.
`SameEpochSameKey` needs the same kind of condition: with two coordinator calls at
once (`Caller` of two elements) both commits start from one group and the members
part ways.

## 6. Proofs

All proofs are for arbitrary constants that satisfy the named assumptions of the
modules (`MaxVer` a natural number, `Nobody` no device, and so on). A condition
beyond those is in the theorem's `ASSUME` and named below.

**`KeyRotationProofs`**

- `TypeCorrect`: `Spec => []TypeOK`.
- `RevokeLocksOut`: `Spec => []LockedOut`, and `RevokeLocksLaterWrites`:
  `Spec => []LaterWritesLocked`, for any number of overlapping calls and with
  crashes. `LockedOut` is not inductive: a call in flight may hold a member list
  or a version from before. The invariant `IInv` adds which locals a call has at
  each step (`Shape`), that no version or wrap exceeds what is published
  (`Bounded`), that while the rotation of a revoke runs, nobody has wrapped or
  will wrap the new version for its subject (`ClosingInv`), that this survives
  the return (`LockedInv`), and the same for a write begun later (`ShutInv`).
- `SerialMembersHoldKeys`: `[]MembersHoldKeys` **assuming one call at a time**
  (`Serial`). Finding 1 shows why the assumption is needed. The invariant says a
  call's version has not been overtaken (`Undisturbed`) and that a missing wrap
  is still owed by the call that announced the version (`HeldInv`).

**`ReplicationProofs`**: every property of the passing sync runs is a theorem.

- `TypeCorrect`: `Spec => []TypeOK`.
- `MergeConverges`: `Spec => []SameWritesSameCell`, overlapping imports included.
  `IsJoin(S, row)` says that a row is the join of the writes `S`: the highest
  version, and among the writes with that version the largest value per column.
  A set has one join because no two writes compare equal (`JoinUnique`), an edit
  extends it (`JoinPut`), and the merge of two joins is the join of the union
  (`JoinMerge`). The invariant is that every database and every file holds the
  join of what it has seen. This is the commutativity, associativity and
  idempotence of README.md:33 in one statement. It does not contradict finding 3:
  the common row exists, but it cannot travel.
- `RootStaysPinned`, `OneGroupOnly` and `GrantsMoveForward`: `RootPinned`,
  `[]OneGroup` and `GrantsOnlyMoveForward`, **assuming `OneTrust`**: imports do not
  overlap on a device, or all devices have one founder. Either keeps `Trusted`, that
  between the check of the root and the merge the device has no root or the
  file's: with serial imports because a device has at most one (`Alone`), with one
  founder because there is one root (`Rooted`). `Grouped` says that databases and
  files hold only what their own root and its writers signed. `Copies` relates
  every two copies of a grant row: equal versions are equal rows, and the root's
  own device has the highest, so a merge never has a tie to decide.
- `FreshMachinesJoin` and `CalmExchangeConverges`: `[]FreshMachineReconstructs` and
  `[]ExchangeConverges`, **assuming `Calm`**: one founder, one editor, a grant row
  written once. Findings 3 and 4 are what happens with a second editor, or a second
  version of a grant. The invariant `AllFit`: every database and file carries the
  grant that justifies its cell, and is accepted by every device of the group.

**`IdbVfsProofs`** (`Params`, no purge starts while `sync()` waits: `~PurgeDuringSync`;
finding 5 is what happens when one does)

- `ImplementsFile`: `Spec => Implements`, the refinement of `AtomicFile`.
  `LocksReadCommitted`, `AcknowledgedOnDisk`: `[]ReadsCommitted`,
  `[]AcknowledgedIsDurable`. `ReloadKeepsAcknowledged`: a reload leaves a content at
  least as new as the one acknowledged last. `TypeCorrect`.
- The invariant `IInv` has four parts. `Chained`: at most two transactions of
  IndexedDB are open, and `sync()` waits only with nothing in the queue. `Queue`: the
  functions in the queue are some that SQLite asks for in its present phase
  (`KindOK`), in an order it can have asked in (`Lined`). `Types`. And, unless writes
  were lost, `Whole`, which relates the object store on disk, the store as the
  functions run so far leave it (`image`), the functions still to come, and the file
  SQLite sees: every committed content has a greater stamp than the one before
  (`Ordered`); disk and image each hold one of them whole, the image the newest or,
  while its commit is in the queue, the one before (`OnDisk`); image and queue together
  make what SQLite has before it, with one predicate for each place it can be in:
  reading, in a batch, writing plainly, playing a journal back, rolling back (`InPhase`);
  while SQLite writes plainly, the journal is in the image or waits in the queue ahead of
  the pages (`Journaling`), and no page changes that it does not save (`Direct`); the
  journal is deleted only when the file without it is the
  committed content (`Leaving`); and no version that is still read is named in the
  purge list (`Intact`).
- Running one function of the queue keeps this, whichever it is; so does adding the
  functions of the next call, since what is read depends only on the newest block 0 and
  the newest versions it lets see (`At`, `Finds`). A commit of IndexedDB copies the
  image to the disk, an abort or a reload takes the disk back; then only `OnDisk` says
  what is left. A step is mapped to `AtomicFile` with `hist`, `acked` and `Stored`, the
  place in `hist` of the content a reload would find.
- `Whole` was first written, and checked by TLC, without `lost`; that is how the loss
  after an abort in the middle of a batch, described in section 3, was met.

**`DekCacheProofs`** (`Params`)

- `KeysAreRight`, `NullsAreFresh`, `TypeCorrect`. Neither property is inductive: a
  call in flight carries an answer that fits the session it began under. The
  invariant adds `CallsFollowSession`: until a login comes in between, the session
  is the one the call began with, or nobody's; and a call that is about to store a
  null or a wrong key has met another user, who stays until it has ended, so that
  the answer goes to a slot of somebody else. It is here that "at most one login
  per call" is needed: with two, the first user could be back.

**`MlsGroupsProofs`** (`Params`, one coordinator call at a time: `OneAtATime`)

- `OneKeyPerEpoch`: `Spec => []SameEpochSameKey`. The invariant `OneHistory`: every
  state a member holds, every Welcome and every commit is a past state of the
  coordinator's one log, so two of the same length are the same.
- `TypeCorrect` and `RevokeLocksOut`: `[]RevokedLockedOut`. `Seated` adds that the
  members read off a log are those seated by it and not unseated since, at which
  leaf, and that who may open a state was seated in it.

**`RebuildProofs`** (`Params`)

- `ShapeKept`, `TypeCorrect`: the shape of devices, diffs, slices and calls.
- `ChainsAreComplete`, `MergeBaseIsTheLatest`: `[]ChainsComplete`,
  `[]MergeBaseIsLatest`, whether or not records are edited and members adopt
  checkpoints early. `Linked`: on every device the parent of a checkpoint is there
  and one epoch older. `Walk` is a recursive function; that the equation which
  defines it has a solution, and each fact about a whole chain, is proved by the
  smallest epoch that would contradict it.
- `RebuildKeeps`: `[]KeptThroughRebuild` **assuming `~CanEdit` and
  `~CanSyncDirty`**, without which it is false (finding 6, hazard at
  crengine.ts:399). With no row written twice the invariant can follow each row:
  `Brought` and `OnItsWay` say where a row that a member had when it sent its diff
  is until the coordinator has it, `Unsent` that what a watermark skips has been
  sent, `Traced` that a slice brings back what the coordinator had by then.

**`ShamirProofs`** (`GeneratorAssumption`, and nothing about the number of custodians,
the quorum or the bytes)

- `GeneratorAssumption` says that 3 generates the field: `LOG` and `EXP` are inverse
  to each other on the bytes but 0, and the 255th power is 1. It has no constant in it:
  it is a closed formula about the tables, decided by TLC each time `LocalRbac` is run.
  The provers would have to compute 255 table entries to do the same.
- The field: `Xor` is a group, by the bits of a byte (`XorLaws`). Multiplication adds
  exponents modulo 255, hence is commutative, associative and without divisors of zero,
  and `div` undoes it (`MulCommutes`, `MulAssociates`, `MulNotZero`, `DivUndone`), the
  second half of `EXP` standing in for the reduction (`PowersRecur`).
  `MulDistributes`: for the generator by the bits of `Twice`, for its powers from there.
- `combine` adds and multiplies in an order that `CHOOSE` leaves open. `FoldExists`,
  `FoldsAgree` and `OverTakes` show that a fold over a finite set exists and, for a
  commutative and associative operation, may take its elements in any order.
- `CombineRecovers`: shares of a polynomial of degree `k` at `k + 1` points or more
  give its value at 0. `Vanishes` says that a function has degree `k` at most without
  naming coefficients: its divided differences over `k + 2` points or more are 0
  (`Difference`), which each round of `split`'s accumulator keeps true for the degree
  reached so far (`PolynomialVanishes`); with 0 as one more point this is Lagrange's
  formula (`Interpolates`).
- `CombineMisses`: every share counts in that formula with a weight that is not 0
  (`LagrangeIs`), so one byte that differs makes another sum.
- `EverySecretFits`: for at most `k` shares of a secret shared with `k` coefficients, every
  other secret has `k` coefficients of bytes that give the very same shares. Some
  polynomial is 1 at 0 and 0 at every share in hand (`VanishingShare`, a line for each
  share); the difference of the two secrets times its coefficients, added to the given
  ones, makes the others (`ShareMoves`).

**`LocalRbacProofs`** (the assumption `ParamsAssumption` of `LocalRbac`)

- `AnyQuorumOpens`, `WrongShareFailsClosed`, `NothingBelowQuorum`: the three properties
  of the vault, for any number of custodians up to 255, any quorum, and every byte that
  keys and polynomials may have; the last **assuming `Coefficient = Byte`**, as
  `randomBytes` draws them: it is false of a set that misses some. The invariant `Sealed`: the shares of a vault are
  `split` of its key, and what the opener holds are shares of the vaults there are. Then
  the shares used together have an `x` each (`AsManyPoints` counts them), and the
  theorems of `ShamirProofs` apply; a wrong share of a custodian whose genuine one is
  there too is refused by `combine` for its repeated `x`.
- `EarlyCallsAlwaysRun`: `[]EarlyCallsRun`, for the lane of the connection. The invariant
  `LaneInOrder` says that the jobs called before `close()` precede its finalize in the
  lane, and that none of them is left once the connection is finalized.
- `KeysAreRight`, `NullsAreFresh`, `OneKeyPerEpoch`, `RevokeLocksOut`, `RebuildKeeps`,
  `ChainsAreComplete`, `MergeBaseIsTheLatest`: the theorems of the modules above, for
  the composed specification the run checks; so are `StoreIsAtomicFile` (`Implements`)
  and `LocksReadCommitted` (`[]ReadsCommitted`), with the purge task waiting for
  `sync()` as in the run. Seen from the variables of one part, a step of the composition
  is a step of that part or a stutter (`PartsMove`), so its behaviours are behaviours of
  the part and its theorems apply.
- `LocksLoseNothing`: `[]LockLosesNothing`, proved here for the ceremony part
  itself. `Ceremonious` says where every cell, tag and key comes from, and what a
  lock under way has read: every record in a list whose cells hold the newest
  version the locker can open, in whatever order they were listed. `FoldPicksNewest`
  is the fact about `foldRecord`, for lists of any length.
- `TypeCorrect`: `[]TypeOK`, of all seven parts.

TLC checked each property, and for the key cache, the consensus loop and the VFS
(`Chained`, `Queue`, `Whole`, on two small instances) the inductive invariant too,
before it was proved. Every invariant of the passing runs is a theorem. Induction over
the natural numbers and over finite sets is done by hand where it is needed, by the
smallest counterexample (`Smallest`, `OneByOne`), since the library's induction theorems
cannot be instantiated. Only model-checked, being out of the prover's reach: liveness
(`SyncAnswers`, `PurgeHappens`, `CallsAnswered`) and `ENABLED`; and
`GeneratorAssumption`, as said above.

## 7. Plan

Done: everything in section 2. Next, in this order:

1. Proofs: `OneKeyPerEpoch` and `ImplementsFile` each exclude one kind of overlap
   that the code allows; what remains true with it could be stated and proved.
2. Rejected diffs in the consensus loop: `Rebuild` composed with the authorization of
   `Replication`, with grants that change between rounds and rotation inside
   `runConsensus`.
3. Several tabs on one database: the WebLocks of the VFS, transactions opened for
   reading, relaxed durability.
4. Authorization of the remaining tables (`identity`, `keywrap`, `dekver`,
   `archived`).

## 8. Not modelled, and assumptions

- Cryptography is assumed: a signature verifies only for the key and the content
  it was made for, a sealed box opens only for its key, hashes do not collide, an
  AEAD opens with the right key only.
- In `Replication`: authorization of `identity`, `keywrap`, `dekver` and `checkpoint`
  rows (same check as grants: signed by the admin, or by the owner for an identity)
  and of `archived` rows (signature only), the `dek_ver` column of a cell, the reader
  role, several resources. `Genesis` is taken once per device, as the app offers it;
  reopening an existing database is not modelled.
- In `KeyRotation`: devices other than the admin's, and the contents of cells.
- In `IdbVfs`: `#reblockIfNeeded` (page size changes by VACUUM), relaxed durability,
  several connections or tabs and their WebLocks, a function that fails on both tries,
  Asyncify calling a method twice, the encryption of a block's bytes, deletion on close.
  Transactions opened for reading and the switch to a writing one
  (EncryptingIDBContext.js:96-98) are left out too, and with them a hazard: the listeners
  of a transaction are added to whatever `#tx` is when the one before has settled (125,
  132). After a transaction 5 s old is committed and `#tx` cleared, a function that reads
  makes a second and one that writes replaces it by a third; the second's callback then
  watches the third, and the third's meets null and rejects `#putChain`.
- In `DekCache`: more than one login during one `getDEK` call. In `Rebuild`: rejected
  diffs, grants that change, rotation, taking a record out of the archive, a local write
  between applying a changeset and setting its watermarks, or between taking the state
  root of a checkpoint and inserting it (the root only names the checkpoint; grant rows,
  which nobody changes here, are left out of it); after `wipe` the database is empty, as
  `:memory:` is, while in the browser the file stays in IndexedDB. In
  `MlsGroups`: application messages and update commits, which the compartments do
  not use. In `Vault`: `quorumFor`, a contribution counted twice, sharing of longer
  secrets (bytes are shared independently), two wrong shares at once. In `Ceremony`: several columns (they fold
  independently), `distribute`, `openArchive`, `serialize`.
- `boot-browser.ts`, the demo app, the crypto wrappers and the keystore keep no state
  of interest.
