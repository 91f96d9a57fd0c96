# A formal model of Alike A2

Alike A2 backs up virtual machines. A backup ("vault") cuts a version of a VM
into blocks, names each block by its fingerprint ("print") and stores only the
blocks that the data store does not have yet. Many versions share blocks, so a
delete cannot simply remove files: reference counts say which blocks are free,
and maintenance ("purge") removes them later. The engine is a Java program
(`src/java/src/quadric`); the data store itself is a directory on a share
(NFS, CIFS, a bucket), which has no transactions. The engine may be stopped at
any time, its jobs are threads that may be canceled at any time, and its view
of the share is a cache in two SQLite databases. A file system in C
(`src/fuse`) lets restores read the store through the engine, over shared
memory. Operators work with a web console (`src/webui/js`), one page of
JavaScript whose requests to the appliance are answered in any order.

This directory holds TLA+ modules of the engine's data store, of the shared
memory between file system and engine, and of the console; the TLC runs that
check them on small instances; and theorems that TLAPS proves for instances of
every size.

| module | what it models | instances | proofs |
|---|---|---|---|
| `DataStore` | transactions, journal files, reference counts, purge, restart | `MCDataStore` | `DataStoreProofs`, `DataStoreCalm`, `DataStoreDurable` |
| `VersionStore` | what a data store promises its clients; DataStore implements it | | `DataStoreDurable` |
| `VaultManager` | registrations, print locks and the delete lock, thread by thread | `MCVaultManager` | `VaultManagerProofs` |
| `Maintenance` | when purges run: interests, pauses, forced maintenance | `MCMaintenance` | `MaintenanceProofs` |
| `FuseSlots` | the shared-memory slots between file system and engine | `MCFuseSlots` | `FuseSlotsProofs` |
| `Console` | screens of the console, their requests and timers, the job log | `MCConsole` | `ConsoleProofs` |
| `ScheduleEditor` | the editor of scheduled jobs and what the appliance stores | `MCScheduleEditor` | `ScheduleEditorProofs` |

## 1. The system and its parts

| part | source | state | operations | modelled in |
|---|---|---|---|---|
| transaction log and journal | `ods/HeaderManager.java` | `transact.tx`, `<tx>.flags`, `<tx>.ecl`, `delete.tx` on the share; tables FLAG and vversion in `cache.db` | createTxBegin, commitBegin, commitVault, commitDelete, reconCleanup, load, rebuild, reconcilePurgeTransactions | DataStore |
| jobs of one store | `ods/Ods.java` | `isNuked`, `isFirstSync`, `hasEverSynced`, the monitor | makeVault, VaultTx, commitVault, makeDelete, maintPurge, sync, rebuild, shutdown | DataStore |
| reference counts | `ods/JournalManager.java`, `dao/PrintCrud.java` | table prints of `ods.db` | createVaultLog, applyJournal (Clear, Increment, Decrement), getDeletePrints, finishPurge | DataStore |
| registrations and delete lock | `ods/VaultManager.java` | members, leases, print locks (`dogCrap`), delete lock | register, registerMunge, vaultNext, lockPrint, unregister, lease expiry | VaultManager; its effect on purges in DataStore |
| maintenance | `ods/MaintenanceMaster.java`, `util/JobControl.java` | a tracker per site, pause and cancel flags | runMaint, monitor, control | Maintenance; the purge itself in DataStore |
| vault commands | `ods/VaultCommandAdapter.java`, the block sources | per job: sender threads | doVault, sendPrint, commit | doVault's use of the store in DataStore, its sender threads in VaultManager |
| resumable vaults | `ods/ResumeFile.java` | a file of vaulted prints | dump, reload | not modelled yet |
| leased locks | `ods/LeasedLock.java` | lock file with a lease | lock, doLease, isLocked | not modelled yet |
| version locks | `restore/VersionLocker.java`, `restore/RestoreMonitor.java` | a count per version | lock, unlock | not modelled yet |
| damaged blocks | `restore/BadBlockManager.java` | a table of bad prints | damage, heal | not modelled yet |
| munge server | `socket/MungeServer.java`, `fuse/FuseMonitor.java` | sockets, worker threads | accept, dispatch | not modelled yet |
| retention | `gfs/GfsManager.java` and `gfs/*` | none | which versions to keep | not modelled yet |
| FUSE client | `src/fuse/*.c`, `fuse/FuseMonitor.java`, `util/SharedMem.java` | slots in shared memory, a pool of them, a control pipe | claim a slot, ask, receive in parts, give it back; answer in parts | FuseSlots |
| storage adapters, crypto, VHD, VHDX, ECL and HCL formats, external sort | `spdb`, `crypt`, `vhd`, `vhdx`, `util` | files | put, get, parse | not modelled: I/O and formats. One put, delete or stat of one file is one atomic step |
| command dispatcher | `blockvaulter/*` | running commands | parse, start, cancel | not modelled: its cancel is the action Fail |
| console: screens | `webui/js/a3.js`, `events.js`, `utils.js` | the screen, timers, `viewingJLD`, caches in sessionStorage | a click on a menu or a log, the answer to a request, a tick of a timer | Console |
| console: editor of jobs | the same | the page, its lists, the requests in flight | open, choose, save, run now; answers | ScheduleEditor |
| web service, scheduler | `src/webui` (PHP), `src/appliance/shared_lib` | scheduled jobs | dispatch, setSchedule | setSchedule in ScheduleEditor; else answers that come, fail or get lost |
| scripts of appliance and hosts, docker | `src/appliance`, `src/host` | | installation and start | not modelled |

How they interact. A command starts a job; the job enters `Ods`, whose methods
are `synchronized`, so that the bodies of makeVault, makeDelete, commitVault,
sync and the two ends of maintPurge exclude each other. The senders of a vault
and the loop of maintPurge run *outside* the monitor: they meet only in
VaultManager, through the delete lock and the set of active prints. Every job
first marks the store unsynced (`nukeSync`: isNuked, and `__UNSYNC` in
`dsinfo`), then changes `cache.db`, `ods.db` and the share one file at a time,
and marks it synced at the end (`unnukeSync`: the MD5 of `transact.tx` and the
mtime and length of `ods.db`). A store that is unsynced accepts no job; a new
engine rebuilds both databases from the share.

The file system claims a slot of shared memory for each call, writes a control
message into a pipe, and receives the answer a buffer at a time while a worker
of the engine sends it; either side gives up after 300 seconds. The console
runs one callback at a time, but any number of its requests may be in flight,
and the callback of an answer works on whatever screen is shown by then.

What is hard in the console: a late answer, a timer that outlives its screen,
a refresh loop that an error or a lost answer may break, a list that arrives
after the user has chosen from it. What is hard at the slots: a slot that is
used again while the worker of a call that gave up still means to write to it,
and an answer whose end only its length tells. What is hard in the engine: a
restart between any two files; a job that fails after it
changed counts; a purge that reads a batch, releases everything, and deletes
it later while vaults begin and commit; a transaction number that is used
again; a delete and its vault that must leave the log together; liveness of a
purge among vaults. `PROJECT.json` lists them as hazards with their lines.

## 2. DataStore

### State

Variables are grouped by what survives what. `share` survives everything,
`cache` survives a restart of the engine, `engine` is lost with it.

| variable | code |
|---|---|
| `txLog` | `transact.tx`: a line per transaction with its TransactState |
| `flagFile` | `<tx>.flags` (EclFlags): `NoFile`, 0, or the transaction this one deletes |
| `ecl` | `<tx>.ecl`, as the version whose list of prints it is |
| `delLog` | `delete.tx` |
| `blocks` | the block files |
| `flag`, `vver` | the committed rows of FLAG and vversion |
| `rows`, `ref` | table prints: which prints have a row, and refCount |
| `seal`, `dbMoved` | `dsinfo`: `__UNSYNC` or the log it was sealed with; whether `ods.db` differs from what was sealed |
| `nuked`, `firstSync`, `everSynced` | isNuked, isFirstSync, hasEverSynced of Ods |
| `largest` | HeaderManager.largestTx |
| `op` | the job in the Ods monitor with its program counter and its locals |
| `open` | the registered vault of each transaction: prints still to hand out (`todo`), handed out and not sent (`cur`), locked in dogCrap (`held`) |
| `purge` | maintPurge: program counter, batch, conflicts, transactions to reconcile |
| `promised` | history: versions whose commitVault reached transact.tx and whose commitDelete has not |
| `restarts` | counter, bounded by MaxRestarts |

### Actions

Each action is the code between two points where the engine may stop with a
different state on disk, or where another thread may step in.

* makeVault: `MakeVault`, reconCleanup (`CleanChoose` ... `CleanCommit`),
  `CreateTxBegin`, `CreateVaultLog`, `CommitBeginFlags`, `CommitBeginLog`,
  `PutEcl`, `UnnukeSync` (which hands out the senders).
* senders: `VaultNext`, `SendPrint`, `VaultUnregister`, `CommitVault`,
  `CommitVaulted`, `CommitIncrement`, `UnnukeSync`; `VaultAbort`.
* makeDelete: `MakeDelete`, reconCleanup, `CreateTxBegin`, `DeleteDecrement`,
  `PutEcl`, `CommitDeleteFlags`, `CommitDeleteLog`, `UnnukeSync`.
* maintPurge: `StartPurge`, then `PurgeTake`, `PurgeAsk` and `PurgeDelete`
  (under the delete lock, which `VaultNext` needs too), `PurgeFinish` in a loop, `PurgeGiveUp`, `PurgeEnd` or `PurgeReconcile` followed by reconCleanup
  twice (once for the reconciled rows, once for the pairs).
* sync: `SyncTrusted`, or `SyncRebuild`, `SyncLoad`, reconCleanup,
  `SyncReplay`, `SyncRollback`, reconCleanup, `UnnukeSync`.
* failures: `Fail` (the job is canceled or meets an I/O error), `Crash`,
  `Shutdown`.

`Faults` names what the environment may do. The code forbids none of it; a run
whose property depends on the absence of one leaves it out, and section 3 says
what happens with it (`purgeOverlap` in a violation run, `failOverlap` and
`tornDelLog` in a table; VaultManager's violation run shows `readFlagLost`). `fail` and `failOverlap` differ in whether a
vault is open; `purgeOverlap` lets a purge overlap vaults and deletes;
`tornDelLog` lets the engine stop between two files of one delete log.
`readFlagLost` lets a vault lock a print while the purge deletes: the delete
lock is a reader-writer lock whose readers share one flag, and VaultManager
(run `locks_sneak`) shows how the flag gets lost. Every run of DataStore takes
the lock to work, so that it asks what the rest of the code does; `SentKept` is
the only property that needs it.

### What is abstracted

* The dump of `transact.tx` and the commit of `cache.db` that surround it are
  one step when only the seal could tell them apart: every such step lies in a
  job that has marked the store unsynced, and a restart then discards
  `cache.db` altogether.
* The age of a Begin transaction (BROKEN_TX_WINDOW_MINS) is a
  nondeterministic choice of which of them are old.
* An ECL is the set of its prints and a version is a uuid with an epoch.
* A put, a delete or a stat of one file is atomic.
* A store with a foreign site (blocks are sent after makeVault) is the general
  case; for site 0 the munge has already written them, and the sender sends
  nothing.
* The site's read-only mode, resync, validate and the web queries are left out.
* A vault of a version that is already listed (DuplicateVaultException) leaves
  the store unsynced until it is rebooted, as the code says at Ods.java:953. It
  is among the inputs only with `fail`.

## 3. Properties and runs of DataStore

Properties are stated at the end of `DataStore.tla`, each with the sentence it
formalises. All runs use two versions that share a print, `v1 = {p1}` and
`v2 = {p1, p2}`: the smallest case with a shared and an unshared block.

| run | question | bounds | verdict |
|---|---|---|---|
| `store_crash` | Under restarts at any step but between two files of one delete log, and under jobs that fail while no other vault is open, is every committed version complete (Durable), the catalog exact (Catalog), are reference counts exact (RefcountsExact), do cache and share agree (FlagsAgree), do transactions move only forward (TxLifecycle), and is the whole an implementation of VersionStore (Promise)? | 3 transactions, 2 restarts, `fail` | holds, 1.6 million states |
| `store_any` | What holds whatever overlaps: SealTrusted, NoOrphans, SentKept | 3 transactions, 1 restart, every fault but `readFlagLost`, batches of 1 | holds, 3.6 million states |
| `store_live` | Do vaults commit (VaultCommits), do deletes leave the log (DeleteReclaimed), do free blocks leave the share (SpaceReclaimed)? | 4 transactions, no fault, no restart | holds; no deadlock |
| `store_overlap` | Is a committed version complete if a purge overlaps its vault? | 3 transactions, `purgeOverlap` | violated |

What this instance does beyond the runs, found by adding one line to a `.cfg`:

| change | then | why |
|---|---|---|
| `store_crash` with `failOverlap` | RefcountsExact is violated | Ods.java:565: a delete that is canceled leaves wrong counts and relies on a rebuild; an open vault that commits afterwards seals them |
| `store_crash` with the invariant FlagsVerified | it is violated (it holds with MaxRestarts = 1) | HeaderManager.java:1025: "Always do this to recover from previous delete failures, making delete atomic". A purge writes a rolled back vault to `delete.tx` and the engine stops; the rebuild loads its row from transact.tx, and loadAndRunDeleteLog (:1264) removes its files but no row. After a second restart the row is there and the files are not, which verifyFlags (:258) stops the engine for, if it is switched on; FlagsAgree says that this is all that may differ, and the next purge drops the row |
| `store_crash` with the invariant RolledBackTracked | it is violated (it holds with MaxRestarts = 1) | HeaderManager.java:506: the callback of a rebuild would clear the prints of rolled back vaults, but the query that feeds it never selects them; after the next rebuild their blocks are unreachable |
| `store_crash` with `tornDelLog` | Catalog is violated | HeaderManager.java:1285: the files of a delete and of its vault are removed one at a time in no particular order; stopping after the delete's .flags and before the vault's lists the vault again at the next load, although :1025 calls the delete atomic |

Why the bounds suffice for the interesting cases: three transactions are two
vaults and a delete, a vault, its delete and the vault of the same version
again, or an abandoned transaction whose number is used again. A restart may
fall anywhere and is followed by a rebuild; two let the second cut off the
rebuild, or find what the rebuild left behind. Batches
of one with no conflicts allowed (`store_any`) force a purge through several
rounds and through its early exit. In the other runs a batch is as large as the
prints table.

Deadlock is checked in `store_live` and, where it does not matter, in
`store_overlap`; the other runs switch it off since all transaction numbers may be used
up and the engine may have no restart left, an end the bounds create.

Fairness (`FairSpec`): each thread that has begun goes on. The job in the
monitor steps (WF of OpStep), so do each vault's senders, the purge, the
periodic sync, and the scheduler of maintenance, which starts a purge when the
store is quiet. Nothing obliges a client to begin a vault or a delete. The
liveness run excludes `purgeOverlap` because a Java monitor is not fair: with
purges that start again and again, commitVault may wait for ever.

### What the violation run of DataStore shows

1. `store_overlap` (Ods.java:634). The batch of unreferenced prints is read
   before the delete lock is taken. A vault that begins in between, or that
   registered earlier and has already unregistered, commits; the purge then
   deletes its block and row.

### Mutants

Each property of a passing run, of every module, has a mutant in
`PROJECT.json`: an operator beside the definition it replaces,
marked `\* faulty` that stands for a plausible bug (an increment that only
clears, a flag file ignored, a cleanup without its log ...). With it TLC
violates the property, which shows that the property is about the code.

## 4. VaultManager

DataStore takes one vault as one actor. VaultManager looks inside: its actors
are the threads that register, lock prints and unregister, and its steps lie
between two acquisitions of a lock.

| variable | code |
|---|---|
| `readFlag`, `writeFlag` | isDeleteReadLocked, isDeleteWriteLocked |
| `idleCheck` | the scheduled task of the constructor still runs |
| `globo` | who keeps globoLock over several steps: only registerMunge does; everywhere else it is taken and released within one step |
| `myKey`, `members`, `leases` | the fields of the same name; `todo` of a member is what its cursor has left |
| `amb` | ambMembers with reverseAmbMembers and associates: the key of a path |
| `cache`, `everyone` | activeMap and everyone of DogCrap |
| `pc`, `key`, `cur`, `left` | per thread: its step, the key it works with, the print it locks and writes, the prints a munge thread has still to write |
| `aborted`, `errors` | meOrChildrenAborted of each VaultTx, errorz of doVault |
| `purge`, `blocks` | maintPurge with a batch of one print, the block files |
| `sent`, `commits` | history: what each sibling has sent, how often the vault was committed |

Threads and their steps:

* A munge thread (AmbHelper, once per block): `RegisterMunge`; unless the path
  has a key already, `RegisterLock`, `RegisterPut`, `RegisterClose`,
  `RegisterReturn` with globoLock in hand; `LockEnter`, `LockPut`, `LockClose`
  (lockPrint), `Send`. `UnregisterMunge` when the job has written everything,
  which a job may also never do.
* A sibling of one vault: `Begin` and the four steps of register, in makeVault
  one sibling after the other, the parent first; `RevealCursor` (the constructor
  of VaultTx); `StartSending` when makeVault returns; then `VaultNext`,
  lockPrint and `Send` in a loop; `Commit`, or `Close`.
* A resumed vault: register, `ResumeAdvance`, `ResumeUnregister`.
* `CheckForIdleRegisters` unregisters any of the keys with a lease; without the
  fault `expire` it takes only keys nobody works with. `IdleCheckThrows` ends it
  for good: scheduleAtFixedRate runs a task no more that has thrown, and
  nothing catches the exception of tryLock (fault `timeout`) or of clearPrints
  (fault `clear`, before some of the keys are unregistered).
  `forceUnregisterAll` is the operator's command.
* The purger: `PurgeLock`, `PurgeAsk`, `PurgeUnlink`, `PurgeUnlock`.
* `TimeoutDelete`, `TimeoutGlobo`, `PurgeTimeout`: a wait of
  LOCK_TIME_FATAL_SECS throws; a munge thread's client gets an error for the
  block (the model drops the print), a sender aborts.

`RegisterClose` and `RegisterReturn` are two steps because the code is:
`return myKey` follows the release of both locks. `ReadUnlock` sets one flag
for all readers, as the code does.

Left out: the files behind the cursors, MaintenanceMaster.register,
listActiveMunges, the logging around the locks, what clearPrints of expired
leases does to the cache (DataStore's `VaultAbort` has it), and the damaged blocks that AmbHelper
rewrites.

| run | question | bounds | verdict |
|---|---|---|---|
| `locks_batch` | Is a vault committed once and complete (BatchComplete), and always when all siblings finish (LastCommits)? | three siblings and a munge thread, `abort`, `timeout` | holds, 1.3 million states |
| `locks_live` | Does every thread keep to keys that were given out (TypeOK), are the counts exact (CountExact), are locks given back (LocksReleased) and prints unlocked while the idle check is scheduled (PrintsReleased)? | two munge threads on one file, a resumed vault, two prints, 3 registrations, `timeout`, `expire`, `clear` | holds, 120,000 states |
| `locks_sneak` | Does the purge keep every locked print (LockedKept)? | two munge threads, no fault | violated |

BatchComplete does not hold with every fault. With a resumed vault beside a
sibling (`locks_batch` with one sender, Resumer = {r1} and no fault), two registrations may return the
same key (VaultManager.java:215), and the resumed vault advances and
unregisters a sibling of another vault. With `expire`, unregister answers "last
of its batch" for a key that is gone (VaultManager.java:289), and a sibling
commits while another still sends.

Two munge threads on one file that want the same print are the smallest case in
which one transaction locks a print twice; when its registration expires and
the file is registered again, two transactions lock the print; three siblings are
a parent and two children, so that a sibling that is neither occurs. The number
of registrations bounds `myKey`: a file may be registered, expire and be
registered twice more. Deadlock is not checked: all threads may be done, and a
munge may wait for a registration that the bound does not allow.

What the delete lock would guarantee if it were a correct reader-writer lock is
DataStore's `SentKept`, which holds there without `readFlagLost`; what remains of
it with a lock that loses its flag is the theorem `PrintIsKept` (section 9).

Fairness: each thread that has begun goes on, as does a purge that holds the
lock; the idle check runs every minute until it throws (fairness of
`CheckForIdleRegisters`, which is enabled only until then). Nothing obliges a job to unregister its
munge, and nothing obliges a purge to begin. LocksReleased needs the timeouts:
registerMunge waits for the delete lock with globoLock in hand while the purge
holds the delete lock and waits for globoLock, and only LOCK_TIME_FATAL_SECS
ends this, by failing one of the two.

PrintsReleased asks nothing of a check that has thrown, because the code does
nothing then: one timeout of globoLock (VaultManager.java:426) or one failing
clearPrints (:448) in the task of :78, and a print whose job never unregisters
stays locked, and its block away from every purge, until the engine is
restarted or an operator calls forceUnregisterAll. Without the disjunct
`~idleCheck` TLC finds the property violated.

What the violation run shows:

2. `locks_sneak` (VaultManager.java:257). The first of two readers to close
   clears the flag of both; the purge enters and asks before the second reader
   has locked its print, and deletes the block afterwards.

## 5. Maintenance

When a purge runs is decided by MaintenanceMaster, and DataStore takes it as
given. Its actors are the jobs, the callers of force, the monitor and the runs
of runMaint.

| variable | code |
|---|---|
| `maints`, `refCount`, `paused`, `isRunning`, `largestTx` | the trackers: refCount is the WeakHashMap of interests, `paused` that of the tracker's JobControl |
| `currentLargestTx`, `maintRunning` | the fields of Ods |
| `globalForceOnce` | the one field that all callers of force, for any store, wait for |
| `run` | where each run of runMaint is; a run belongs to a store |
| `force` | per caller: where its call of force is |

`register` and `JobGone` begin and end an interest; `monitor` is its turn of
one tracker, which ends the pause and starts a run, or pauses; `Check`,
`reset`, `maintPurge`, `PurgeEnds`, `control`, `Finally` and `Wipe` are
runMaint, cut where another thread can tell the difference: between the test of
isRunning (under a lock) and its assignment (outside), and between the test of
globalForceOnce and its assignment. The monitor compares globalForceOnce with
the *position* of the tracker, as the code does; that does no harm since force
also registers the MaintenanceMaster as an interest that never ends.

| run | question | bounds | verdict |
|---|---|---|---|
| `maint` | Is a purge of a store alone, and maintRunning set exactly while it runs (OnePurge)? Does every force return (ForceReturns)? Are the transactions of a store maintained while a job is interested (NeedIsMet)? | two stores, two runs of one and one of the other at a time, one job, a caller for each store, one further transaction | holds, 167,000 states |

Two runs of one store are what the race on isRunning needs; two callers of
different stores are what it takes to overwrite the field of the other. The
pool of threads has no bound in the code, so each store has runs of its own.
There is nothing to do once every force has returned and no job is interested:
deadlock is not checked.

Fairness: the monitor ticks, a run goes on unless it is paused, a caller goes
on. A purge obeys the pause only while it has blocks to delete; fairness
demands nothing of it then.

What no property claims, because the code does not do it: that a force returns
only after a purge that began since (the field is wiped by any run of the store
that finds it set, and a second force of another store releases the first;
refCheck relies on it, "Force recon 1st", VaultCommandAdapter.java:351); that a
force of a read-only store returns (runMaint leaves such a store before its
finally, so the model has only stores that are not); that a store whose purge
failed is purged again before the next transaction (largestTx is set in the
finally).

## 6. FuseSlots

A call of the file system takes a slot from a pool (`blkfs_get_next_datafile`),
empties it (`memslot_pre_receive`), writes a control message, receives its
answer in parts (`memslot_receive_impl`) and gives the slot back
(`blkfs_unlink_datafile`). A worker of the engine (`dispatch`) sends the answer
a buffer at a time whenever the slot waits (`memslot_send_impl`). Both sides
give up after 300 seconds (`ReceiveTimeout`, `SendTimeout`).

| variable | code |
|---|---|
| `free`, `leaked` | the pool; history: slots that no call gave back |
| `slot` | shared memory: the flag (waiting, sending, underread), whose answer it holds, from which unit, how many |
| `client` | per thread: its call, the locals of memslot_receive_fully, whether it failed; `alone` is history: no worker of an earlier call had the slot when it was emptied |
| `work` | per request: its worker and how much it has sent |

Sizes are in units: the 4-byte length of a name is one. A read wants what the
kernel asks for, getattr a fixed struct, readlink at most a path, and readdir
receives a length and a name alternately. Faults: `slow` (a side takes longer
than the other waits) and `write` (the control pipe is broken).

| run | question | bounds | verdict |
|---|---|---|---|
| `slots` | Is every slot in the pool, in one call, or lost to a broken pipe (SlotsAccounted)? Does a call find only its own answer, from where it stopped (OwnAnswer), and receive all of it (WholeAnswer)? What may a call wait for in vain (NoStall)? Does it end (CallsEnd)? | two threads, two slots, two requests, buffers of 4, reads of 9, both faults | holds, 385,000 states |

A read of 9 takes three buffers, and any shorter answer is among the inputs, so
that answers end inside, at the end of, and one beyond a buffer. Two requests
are enough for a slot to be used again while the worker of its last call is
still about. Requests are bounded, so an end is expected and deadlock not
checked.

Fairness: threads of both sides step, and timeouts fire.

The limits of what is claimed are the code's. Neither side compares txNo: a
call that gets a slot whose former worker is still sending (`~alone`) may read
the answer of another call. The end of an answer is a buffer that is not full,
so that one of a multiple of 50 KB that is shorter than the request has no end:
the call waits 300 seconds and fails; NoStall says that this is the only such
case. A directory longer than a buffer may have names cut at the border and
their lengths misread. A read or getattr whose control message fails keeps its
slot for ever (blkfs_shared.c:231, blkfs.c:379).

## 7. Console

JavaScript runs one callback at a time: a click, the answer to a request and
the tick of a timer are one action each, and answers come in any order.

| variable | code |
|---|---|
| `body`, `shown` | what #dataTableDiv shows: screen, the click it was asked by, how far its draw function came, the job of a log; the parts that later answers have filled |
| `viewingJLD` | window.viewingJLD, the flag that lets an answer of a job log draw |
| `timer`, `stray` | the timers whose handle is kept; timers of logs whose handle was overwritten |
| `flight` | requests without an answer |
| `a3Cache`, `kept` | sessionStorage: the list of A3s, finished logs |
| `running`, `noticed`, `asking` | jobs, those that checkRunningJobs has seen to end, the open confirmation |
| `clicks`, `logClick`, `wanted` | bound and history |

Every entry of the menu is an action: some send a request and leave the screen
as it is, others set theirs up at once. An answer runs the draw function of its
request, whatever is shown by then; draw functions that stop for want of data,
throw, or ask for parts are the `Stages`. The job log arms a timer for the
next refresh while its job is active; `cancelJob` starts a second chain.

| run | question | bounds | verdict |
|---|---|---|---|
| `console_pages` | Do timers belong to the screen shown (TimersBelong)? Does a late log never take the screen from a page asked for after it (LogNotStolen)? | all screens, one job, one appliance, 2 clicks, requests that fail or get lost | holds, 139,000 states |
| `console_log` | Is the log of an active job always being refreshed (LiveLogPolled)? Does the log of a job that ended come to show it (LogShowsEnd)? Is each "Loading ..." replaced (LoadingEnds)? | two jobs, one appliance, 3 screens, 3 clicks, no fault | holds, 252,000 states |

Two clicks are a log and a page, in any order and overlapping; three are a log,
another page, and back. `Watched` says which parts of screens an instance
follows: each adds a request per appliance and does not touch the others.
Deadlock is not checked since clicks are bounded.

Fairness of `console_log`: what is asked is answered, and timers fire. The
periodic polls do not starve other answers: each kind is fair by itself.
`console_log` has no faults because a refresh that fails ends its chain: a log
then shows an active job until the user leaves it.

Adding `PROPERTY LogIsWanted` to `console_log.cfg` shows a weakness of the flag: the late
answer of the first of two logs that were clicked takes the screen, because
viewingJLD (a3.js:3291) knows no job number.

Not claimed, since the code does not do it: that the answer of an older menu
click does not take the screen from a newer one; that the dashboard's answer
does not paint over a page (it has no setupPage); that rows of schedules are
appended once when the page is drawn twice; that checkRunningJobs (a3.js:4783)
sees a change that leaves the number of jobs as it was.

## 8. ScheduleEditor

The pages that make or change a backup, a restore or a replication, with the
lists they ask for, and what setSchedule (`src/appliance/shared_lib`) stores.

| variable | code |
|---|---|
| `page` | which page, the job it changes, a number that tells pages apart |
| `systems`, `hosts`, `tabs`, `keyword`, `gfs`, `choice`, `opts` | the fields of the form |
| `flight` | requests: lists, the job to edit, saves, runs |
| `server`, `ran` | the scheduled jobs of the appliance; history: jobs it was told to run |
| `acts`, `haste` | bound; history: the user did not wait for the answers before acting |

`Open` stands for the ways to a page, `Edit` for what the user does on one,
`Answer` for the answers. `getSchedule` is how the appliance answers for the
job to edit, which is not as it is stored: the retention is added for backups
only, and systems that were not found when their pool was last read, or whose
version is gone, are left out. An answer finds its element by its id: the list asked
for by a page that was left fills the next one. `StoredTarget` is what
setSchedule makes of a target.

| run | question | bounds | verdict |
|---|---|---|---|
| `editor` | Are hosts and targets listed once (HostOnce, TargetOnce), disks too if the user waits (DisksOnce)? Is no storage of another host stored (StorageFits), no version of another system put into a target (OwnVersion), the retention of a backup, left alone, kept (RetentionKept)? Is a restore that is saved to run now run (RunNowRuns)? | two systems, a Xen host and a HyperV host, two profiles, one job of each kind, 5 acts on one page, or 3 when a second one is opened, requests that fail | holds, 1.6 million states |

Five acts are a destination, two systems, a removal and a save; with a second
page, the answers to the first one's requests come to the wrong page. Deadlock is
not checked since acts are bounded. Fairness: the request to run a job reaches the
appliance; nothing else.

Properties of what is sent (RetentionKept, OwnVersion) speak of a page that was
given time to load (`calm`), and OwnVersion of the targets put together on it: a
job that was once saved in haste with a version of another system keeps it when
it is opened and saved again (five acts are too few to reach that; with six and
one job TLC does). A user who does not wait is left out, since the code does
nothing for him: a save before the list of profiles has come loses the retention, a
late list of versions gives versions of another system, a line "Please wait"
can be clicked into a target, a second click on Save makes a second job. Other
things the code does that no property speaks of: a job that is edited to have
systems, hosts and a keyword is saved as one kind of job; a run request that
is lost leaves a restore on no list (a3.js:5022), which is why lost requests
are not among the faults; setSchedule is not a transaction; the answer of a save
draws the list over another page.

RetentionKept speaks of backups because the code does not keep the retention
of a replication: loadScheduleFromDB (shared_lib:941) adds it to the answer for
category 0 or a job with the option `backup`, and a replication is category 1 and
setSchedule never stores that option. Its editor (a3.js:1142) therefore never
ticks "use GFS", and each save of an existing replication deletes the retention
(shared_lib:290 and updateGfsForSchedule, :557), with CBT or without. In the
same way the edit of a backup leaves out, and its save removes, a system that was
not found when its pool was last read, and that of a restore one whose version
is gone; no property speaks of the targets that a change keeps.

## 9. Proofs

`DataStoreProofs.tla` proves for every set of prints and versions, every bound
and every set of faults:

* `TypeCorrect`: `Spec => []TypeOK`. The inductive invariant is TypeOK itself,
  which besides types says what a job is about (`OpSound`): a step that reads
  `Ecl[op.ver]` or `flag[op.target]` is reached only with a version or a
  transaction there. Without OpSound the types are not inductive.
* `SealIsTrusted`: `Spec => []SealTrusted`. As it stands the property is not
  inductive: `~seal.unsync` and an idle engine say nothing of a step that
  writes transact.tx. The proof uses that every such step belongs to a job, and
  that a job begins with Nuke, so that no step of a job is enabled while the
  seal is trusted.
* `PrintIsKept`: for every vault t and print p, `Spec /\ [][~Sneaks(t, p)]_vars
  => []PrintSent(t, p)`, whatever the faults. Sneaks is the step that the delete
  lock should exclude: the vault begins to hold the print while the purge, which
  has asked for the active prints, is about to delete it. A vault that does not
  sneak keeps what it has sent even if others do and the lock does nothing.
  The inductive invariant adds PrintFree: what the purge is about to delete is not
  held by t. `PurgeAsk` establishes it, only Sneaks would disturb it, and every
  new member of `held` is in `cur` until it was sent.
* `SentIsKept`: SentKept in every behaviour in which no vault sneaks. The code
  does not keep to that: `locks_sneak` is a vault that sneaks. `LockKeepsOut`
  proves that the condition holds if `readFlagLost` is not among the faults, so
  that both together cover the run `store_any`.
* `NothingIsOrphaned`: `Spec => [](OrphanInv /\ NoOrphans)`, whatever fails or
  overlaps. NoOrphans speaks of a store in sync; OrphanInv says of every program
  counter which transaction's files may be on the share without a row: the one a
  job has just been given has none yet, one that a cleanup removes is still in
  `delete.tx`, and a rebuild that has loaded its rows has a row for each file.

`DataStoreCalm.tla` and `DataStoreDurable.tla` prove what needs the log, the
cache and the blocks to agree, for any prints, versions, number of transactions
and of restarts, batches and conflicts. They assume `Calm`: that none of
`failOverlap`, `purgeOverlap` and `tornDelLog` is among the faults. Jobs still
fail and are canceled while no vault is open, vaults overlap one another and a
delete, and the engine stops between any two writes. Each of the three faults breaks one of
the properties, as section 3 shows (`store_overlap`, RefcountsExact with
`failOverlap`, Catalog with `tornDelLog`), so that the assumption is no
convenience. `readFlagLost` is allowed.

* `CalmCorrect`: `Spec => []CalmInv`. `Made` is the FLAG table that a load of the
  share would make and `Live` the vaults it would list. The parts about the share
  (`ShapeInv`, `PairInv`, `EclInv`, `LogInv`, `PromisedInv`) hold at every step,
  for a load may follow any of them: a delete belongs to one earlier vault and is
  in `delete.tx` with it or not at all, what is in `delete.tx` may be removed, and
  the promised versions are those of the live vaults. `CacheInv` and `VverInv` say
  that the rows of the cache are those of the share, or (`InFlux`) are rows the
  job at hand is between two writes of. `DoomedInv` and `DelLogInv` follow a
  cleanup through its program counter, `PcInv` and `JobInv` say what each job has
  done to its transaction by then, `OpenInv` and `PurgeInv` what open vaults and a
  purge rely on. None of these is inductive without the others: what a cleanup may remove
  follows from the cache, which follows from the share, which is what earlier
  cleanups have left.
* `FlagsDoAgree` (FlagsAgree) and `CatalogIsTrue` (Catalog) follow from it.
  `TxsAreLawful` (TxLifecycle, an action property) is proved from it with one
  lemma for what each action does to `Made`.
* `DurCorrect`: `Spec => []DurInv`, inductive together with CalmInv. `RefInv`:
  counts are the number of promised versions that contain a print, but for the
  one a commit has not counted yet, or a delete has counted off already. `RowInv`:
  a print with references has a row. `SentInv`: a block that an open vault has
  not still to send is on the share, as is each one of a promised version.
  `BatchInv`: no print of a promised version is in the batch of a purge.
* `PromisesKept` (Durable) and `CountsAreExact` (RefcountsExact) follow from it.
* `StoreImplementsPromise`: `Spec => Promise`. Under CalmInv what can be restored
  from the share (`Restorable`) is `promised`, so that each action
  maps to a step of VersionStore or to a stutter: UnnukeSync at the end of
  makeVault to Begin, CommitVaulted to Commit, DeleteDecrement to AskDelete,
  CommitDeleteFlags to Delete, Crash to Restart.

`VaultManagerProofs.tla` proves for any threads, prints, deltas, number of
registrations and faults:

* `RegistrationsTyped`: `Spec => []TypeOK`. TypeOK is inductive with KeysGiven,
  which says that a thread past its registration has a key and one that locks
  has a print; without it `cache[key[t]]` would leave its type.
* `CountIsExact`: `Spec => []CountExact`. Adding a print to one cache adds one
  to a Cardinality, and unregistering a set of keys subtracts the Cardinality
  of those that held the print; both are facts about finite sets, proved as
  lemmas from FiniteSetTheorems.
* `VaultIsComplete` (BatchComplete) and `TheLastCommits` (LastCommits), assuming
  `NoRace`: no resumed vault registers, and no lease expires under a thread that
  works. Section 4 says why both properties are false otherwise. Munge threads
  register at any time, senders are canceled, and every wait for a lock may end
  by a timeout. The inductive invariant BatchInv says in `MungeInv` and `OwnKeys`
  that a sibling is told of its own registration or of one without a cursor,
  since registerMunge keeps globoLock until it has read its key and makeVault
  registers one sibling at a time (`OneByOne`); in `Covered` that all cursors at
  the site are of siblings; in `Progress` that what a sibling has not sent is
  still in its cursor or at hand, and that one that failed has aborted the vault
  unless it had sent everything and only the wait for globoLock at its commit
  was in vain. So whoever finds nothing outstanding is the last. Steps of
  other threads are proved once, from what they leave alone (`Aside`).

`MaintenanceProofs.tla` proves for any stores, jobs, callers and number of runs:

* `TypeCorrect` and `PurgeIsAlone` (OnePurge). Their conjunction is inductive:
  a run enters its purge only while maintRunning is unset, which OnePurge itself
  says to mean that no other does, and leaving resets the flag of its own store.

`FuseSlotsProofs.tla` proves for any threads, slots, sizes, number of requests
and faults:

* `TypeCorrect`, `SlotsAreAccounted` and `AnswerIsOwn` (OwnAnswer). OwnAnswer
  says what a slot holds, not who may write to it next, and so is not
  inductive. AnswerInv adds that the worker of the call is the only one at work
  on its slot if the call is `alone` (SoleWorker), and that what was taken and
  what lies in the buffer add up to what was sent (Continues); WorkInv and
  CallInv relate a call with its worker and bound what each is at; PoolInv is
  SlotsAccounted with the slots of calls told apart.
* `AnswerIsWhole` (WholeAnswer) and `NothingStalls` (NoStall), from SizeInv: a
  receive that goes on has taken whole buffers only, so that what it finds next
  is the rest of the answer or a full buffer, and a directory that fits into a
  buffer is read at a length or at a name. The divisions by the sizes are lemmas
  about multiples.

`ConsoleProofs.tla` proves for any jobs, appliances, menus, number of clicks
and faults:

* `TypeCorrect` and `TimersDoBelong` (TimersBelong): the actions are brought
  into three shapes (a page painted, painted over, a log drawn) of which the
  invariants are proved once.
* `LogIsNotStolen`: `Spec => LogNotStolen`, an action property. The invariant
  LogInv says that while viewingJLD is set, the page on the screen and every
  request for the dashboard are older than the last click on a log.
* `LiveLogIsPolled`: `Faults = {} /\ Spec => []LiveLogPolled`. An answer that is an
  error, or that never comes, does end the refresh of a log
  (`console_log` has no faults either). PollInv adds that a log on the screen is
  being viewed and belongs to a job.

`ScheduleEditorProofs.tla` proves for any systems, hosts, profiles, jobs, bounds
and faults:

* `TypeCorrect`, `HostsAreOnce`, `TargetsAreOnce` and `StorageDoesFit`.
  StorageFits is not inductive alone: pages and saves in flight may hold a
  storage of another host, when the destination is a HyperV host whose list of
  storages is hidden. FormInv and FlightInv say that this is the only case, and
  the lemma about setSchedule that it drops exactly that.
* `DisksAreOnce` (DisksOnce), `RetentionIsKept` (RetentionKept) and `VersionIsOwn`
  (OwnVersion), the latter two action properties. CalmInv follows a page that was
  given time to load: a line asks for its disks only while it has none; the
  choice of versions is of the system that the list was asked for (ChoiceOwn);
  the form holds the retention of a backup, or has asked for it (RetentionFits);
  the job on the page is stored. `AnsweredJob` says what the answer with a job has
  of the stored one. EditorAssumption says for this that the lines
  "loading" and "no systems" of a select are no systems.

The assumptions are `DataStoreAssumption`, `VaultManagerAssumption`,
`MaintenanceAssumption`, `SlotsAssumption`, `ConsoleAssumption` and
`EditorAssumption`, which say what the constants are, and `SavedAssumption`: the
jobs an editor starts with were saved by one. TLC evaluates them in each run.
In each module there is one lemma per action or group of actions and a step
per conjunct the action disturbs. The types of Maintenance, FuseSlots and
ScheduleEditor are proved and not checked by a run besides.

Only model-checked:

* the two properties that the code violates, Complete and LockedKept, each with
  a counterexample;
* liveness under fairness, since the prover does not reason about ENABLED:
  DeleteReclaimed, SpaceReclaimed, VaultCommits, LocksReleased, PrintsReleased,
  LogShowsEnd, LoadingEnds, RunNowRuns, CallsEnd, NeedIsMet and ForceReturns.

Every invariant and every action property of a passing run is a theorem, under the
hypotheses named above.

The sums in RefcountsExact and CountExact are Cardinalities, so that no
induction over data is needed.

## 10. Not modelled

* LeasedLock, VersionLocker, ResumeFile's file, BadBlockManager, MungeServer
  and GfsManager: see the plan. VersionLocker's map (RestoreMonitor) is a set of
  counters of which the engine asks whether one is zero.
* The PHP web service, except setSchedule: its handlers pass requests on to the
  appliance. Its scheduler is cron.
* Wizards, dialogs and settings forms of the console, its tables, charts and
  login: forms with a request each, without timers or lists that race, except
  for tests of hosts and agents, whose answers go to whatever dialog is open.
* Shutdown of engine and file system while a call is in progress, mutexes whose
  owner died, and mapped directories of guest file systems.
* Storage adapters, encryption, external sort, VHD, VHDX, HCL and ECL: formats
  and I/O. Third-party web code, installation scripts.

## 11. Plan

Done: DataStore and VersionStore, VaultManager, Maintenance, FuseSlots, Console,
ScheduleEditor, their runs and theorems. Left, in this order:

1. VersionLocker against makeDelete, with the locks that are never given back;
   LeasedLock with two engines; ResumeFile with a vault that is interrupted
   twice; BadBlockManager against a purge; MungeServer's selector and workers.
2. Retention: GfsManager as operators, compared with a reference definition.
3. Proofs: the modules of 1 as they are written; in the present ones, that
   SentKept and Durable survive a resumed vault, once ResumeFile is modelled.
