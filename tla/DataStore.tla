----------------------------- MODULE DataStore -----------------------------
(* One deduplicating data store of the A2 engine (src/java/src/quadric/ods): *)
(* the transaction log, its journal files and its blocks on the share, the   *)
(* local cache of them, and the jobs that work on it.                        *)
(*                                                                           *)
(* The share (survives everything):                                          *)
(*   txLog     transact.tx: the state of every transaction                   *)
(*   flagFile  <tx>.flags: the transaction a transaction deletes (0: none)   *)
(*   ecl       <tx>.ecl: the list of prints of a version                     *)
(*   delLog    delete.tx: transactions whose files are being removed         *)
(*   blocks    the block files, named by their prints                        *)
(* The local databases (survive a restart of the engine):                    *)
(*   flag, vver  tables FLAG and vversion of cache.db                        *)
(*   rows, ref   table prints of ods.db: its keys and their refCount         *)
(*   seal        dsinfo.md5: the transact.tx the cache was last in sync with *)
(*   dbMoved     ods.db has another mtime or length than when sealed         *)
(* The engine (lost at a restart): the fields of Ods, the job that holds its *)
(* monitor (op), the vaults that are sending (open), the purge (purge).      *)
EXTENDS Integers, FiniteSets, FiniteSetsExt

CONSTANTS
    Prints,        \* block fingerprints
    Version,      \* VM versions: a uuid and an epoch
    Ecl,          \* Ecl[v]: the prints of version v
    NoVersion,    \* no version
    MaxTx,        \* bound: transaction numbers 1..MaxTx
    PurgeBatch,   \* maintPurgeBatchSize
    MaxConflicts, \* maxConflictPrints
    MaxRestarts,  \* bound: restarts of the engine
    Faults        \* what the environment may do, see FaultKinds

(* The code forbids none of these; a run names those its schedule contains.  *)
(*  fail         a job is canceled or hits an I/O error, no vault being      *)
(*               open; a version is sent that the store has already          *)
(*  failOverlap  the same while a vault is open                              *)
(*  purgeOverlap a purge runs while a vault is open or a delete in progress  *)
(*  tornDelLog   the engine stops half way through the files of a delete log *)
(*  readFlagLost the purge gets the delete lock while a vault locks a print, *)
(*               since another reader has cleared the flag both share        *)
FaultKinds == {"fail", "failOverlap", "purgeOverlap", "tornDelLog",
               "readFlagLost"}

ASSUME DataStoreAssumption ==
    /\ IsFiniteSet(Prints) /\ NoVersion \notin Version
    /\ Ecl \in [Version -> SUBSET Prints]
    /\ MaxTx \in Nat \ {0} /\ PurgeBatch \in Nat \ {0}
    /\ MaxConflicts \in Nat /\ MaxRestarts \in Nat
    /\ Faults \subseteq FaultKinds

Tx == 1..MaxTx
TxState == {"Rollback", "Begin", "Active", "Vaulted", "Reconned"}
NoFile == -1                               \* the .flags file does not exist
NoRow == [state |-> "none", del |-> 0]     \* no row of FLAG

VARIABLES txLog, flagFile, ecl, delLog, blocks,
          flag, vver, rows, ref, seal, dbMoved,
          nuked, firstSync, everSynced, largest, op, open, purge,
          promised, restarts

share  == <<txLog, flagFile, ecl, delLog, blocks>>
cache  == <<flag, vver, rows, ref, seal, dbMoved>>
engine == <<nuked, firstSync, everSynced, largest, op, open, purge>>
vars   == <<share, cache, engine, promised, restarts>>

Log == [Tx -> TxState \cup {"none"}]
Row == [state: TxState \cup {"none"}, del: Tx \cup {0}]

(* A job inside the Ods monitor.  pc names the step to do next and ret the   *)
(* one after reconCleanup; doomed are the rows that deleteTxs has marked for *)
(* deletion, marked those set to Reconned, both in the open transaction of   *)
(* cache.db; todo and at drive the removal of the files of delete.tx; delta  *)
(* is the list of prints createVaultLog writes.                              *)
OpKind == {"none", "vault", "commit", "delete", "recon", "sync"}
OpPc == {"idle", "clean", "oldRm", "oldDrop", "write", "rm", "drop", "commit",
         "begin", "delta", "beginFlags", "beginLog", "putEcl", "vaulted",
         "incr", "decr", "delFlags", "delLog", "load", "replay", "rollback",
         "seal"}
NoOp == [kind |-> "none", pc |-> "idle", ret |-> "idle", tx |-> 0,
         ver |-> NoVersion, target |-> 0, doomed |-> {}, marked |-> {},
         todo |-> {}, at |-> 0, delta |-> {}]

NoVault == [phase |-> "none", ver |-> NoVersion, todo |-> {}, cur |-> {},
            held |-> {}]
NoPurge == [pc |-> "idle", batch |-> {}, conflicts |-> {}, txs |-> {}]

----------------------------------------------------------------------------
(* Views of the state                                                        *)

Listed == {t \in Tx : vver[t] # NoVersion /\ flag[t].state \in {"Vaulted", "Reconned"}}
Enumerated == {t \in Listed : \A d \in Tx : flag[d].del # t}
ListedVersions == {vver[t] : t \in Listed}
EclPrints(t) == IF ecl[t] = NoVersion THEN {} ELSE Ecl[ecl[t]]
DumpOfTable(f) == [t \in Tx |-> flag[t].state]                \* faulty
Dump(f) == [t \in Tx |-> f[t].state]
VaultOpen == \E t \in Tx : open[t].phase # "none"
SendingPrints == UNION {open[t].cur : t \in Tx}                \* faulty
ActivePrints == UNION {open[t].held : t \in Tx}
NegativeRows == {p \in rows : ref[p] < 0}                      \* faulty
SingleRows == {p \in rows : ref[p] \in {0, 1}}                 \* faulty
ZeroRows == {p \in rows : ref[p] = 0}
NextTx == (IF largest = 0
           THEN Max({t \in Tx : flag[t] # NoRow} \cup {0}) ELSE largest) + 1

GoodMd5 == ~seal.unsync /\ seal.log = txLog /\ ~dbMoved
NeedsSyncByFlag == IF firstSync THEN FALSE ELSE nuked          \* faulty
NeedsSync == IF firstSync THEN ~GoodMd5 ELSE nuked
InSync == op.kind = "none" /\ ~NeedsSync

Fresh(v) == v \notin ListedVersions /\ \A t \in Tx : open[t].ver # v
PurgeMayOverlap == "purgeOverlap" \in Faults \/ purge.pc = "idle"
DeleteLocked == purge.pc = "unlink" /\ "readFlagLost" \notin Faults

(* What HeaderManager.load makes of transact.tx and the .flags files.        *)
MaterializeUnchecked(t) ==                                    \* faulty
    IF txLog[t] = "none" THEN NoRow
    ELSE [state |-> txLog[t], del |-> flagFile[t]]
Materialize(t) ==
    IF txLog[t] = "none" THEN NoRow
    ELSE IF flagFile[t] # NoFile THEN [state |-> txLog[t], del |-> flagFile[t]]
    ELSE IF txLog[t] = "Begin" THEN [state |-> "Begin", del |-> 0]
    ELSE NoRow

----------------------------------------------------------------------------
(* Steps shared by the jobs                                                  *)

NukeInMemory == nuked' = TRUE /\ UNCHANGED seal               \* faulty
Nuke == nuked' = TRUE /\ seal' = [seal EXCEPT !.unsync = TRUE]

Goto(pc) == op' = [op EXCEPT !.pc = pc]
At(pc) == op.kind # "none" /\ op.pc = pc

StartOp(kind, pc, ret) ==
    /\ op.kind = "none"
    /\ Nuke
    /\ op' = [NoOp EXCEPT !.kind = kind, !.pc = pc, !.ret = ret]

(* FLAG as the open transaction of the job sees it.                          *)
Pending == [t \in Tx |-> IF t \in op.doomed THEN NoRow
                         ELSE IF t \in op.marked
                              THEN [flag[t] EXCEPT !.state = "Reconned"]
                              ELSE flag[t]]

DeletedVaults ==                                              \* faulty
    {t \in Tx : /\ flag[t].state \in {"Vaulted", "Reconned"}
                /\ \E d \in Tx : flag[d] = [state |-> "Reconned", del |-> t]}
DeletedPairs ==
    LET done == {d \in Tx : flag[d].state = "Reconned"}
        vaults == {t \in Tx : /\ flag[t].state \in {"Vaulted", "Reconned"}
                              /\ \E d \in done : flag[d].del = t}
    IN vaults \cup {d \in done : flag[d].del \in
                        {t \in Tx : flag[t].state \in {"Vaulted", "Reconned"}}}

----------------------------------------------------------------------------
(* reconCleanup: removes abandoned Begin transactions and finished pairs of  *)
(* a vault and its delete, through the delete log.                           *)

(* old stands for the Begin transactions older than BROKEN_TX_WINDOW_MINS.   *)
CleanChoose ==
    /\ At("clean")
    /\ \E old \in SUBSET {t \in Tx : flag[t] = [state |-> "Begin", del |-> 0]} :
           op' = [op EXCEPT !.doomed = old \cup DeletedPairs, !.todo = delLog,
                            !.pc = IF delLog = {} THEN "write" ELSE "oldRm"]
    /\ UNCHANGED <<share, cache, nuked, firstSync, everSynced, largest, open,
                   purge, promised, restarts>>

CleanNoLog ==                                                 \* faulty
    /\ At("write") /\ Goto("commit")
    /\ UNCHANGED <<share, cache, nuked, firstSync, everSynced, largest, open,
                   purge, promised, restarts>>
CleanWriteLog ==
    /\ At("write")
    /\ IF op.doomed = {}
       THEN Goto("commit") /\ UNCHANGED delLog
       ELSE /\ delLog' = op.doomed
            /\ op' = [op EXCEPT !.pc = "rm", !.todo = op.doomed]
    /\ UNCHANGED <<txLog, flagFile, ecl, blocks, cache, nuked, firstSync,
                   everSynced, largest, open, purge, promised, restarts>>

(* One file at a time: the .ecl of a transaction, then its .flags.           *)
CleanRemoveFile ==
    /\ At("oldRm") \/ At("rm")
    /\ \/ /\ op.at = 0
          /\ \E t \in op.todo :
               /\ ecl' = [ecl EXCEPT ![t] = NoVersion]
               /\ op' = [op EXCEPT !.at = t]
          /\ UNCHANGED flagFile
       \/ /\ op.at # 0
          /\ flagFile' = [flagFile EXCEPT ![op.at] = NoFile]
          /\ op' = [op EXCEPT !.at = 0, !.todo = @ \ {op.at}]
          /\ UNCHANGED ecl
    /\ UNCHANGED <<txLog, delLog, blocks, cache, nuked, firstSync, everSynced,
                   largest, open, purge, promised, restarts>>

CleanDump ==
    /\ At("oldRm") \/ At("rm")
    /\ op.at = 0 /\ op.todo = {}
    /\ IF op.pc = "rm"
       THEN txLog' = Dump(Pending) /\ Goto("drop")
       ELSE txLog' = Dump([t \in Tx |-> IF t \in op.marked THEN Pending[t]
                                                            ELSE flag[t]])
            /\ Goto("oldDrop")
    /\ UNCHANGED <<flagFile, ecl, delLog, blocks, cache, nuked, firstSync,
                   everSynced, largest, open, purge, promised, restarts>>

CleanDropLog ==
    /\ At("oldDrop") \/ At("drop")
    /\ delLog' = {}
    /\ Goto(IF op.pc = "oldDrop" THEN "write" ELSE "commit")
    /\ UNCHANGED <<txLog, flagFile, ecl, blocks, cache, nuked, firstSync,
                   everSynced, largest, open, purge, promised, restarts>>

(* con.commit; reconcilePurgeTransactions dumps transact.tx once more.       *)
CleanCommit ==
    /\ At("commit")
    /\ flag' = Pending
    /\ vver' = [t \in Tx |-> IF t \in op.doomed THEN NoVersion ELSE vver[t]]
    /\ IF op.kind = "recon" /\ op.ret = "clean"
       THEN /\ txLog' = Dump(Pending)
            /\ op' = [op EXCEPT !.pc = "clean", !.ret = "seal",
                                !.doomed = {}, !.marked = {}]
       ELSE /\ UNCHANGED txLog
            /\ op' = [op EXCEPT !.pc = op.ret, !.doomed = {}, !.marked = {}]
    /\ UNCHANGED <<flagFile, ecl, delLog, blocks, rows, ref, seal, dbMoved,
                   nuked, firstSync, everSynced, largest, open, purge,
                   promised, restarts>>

(* HeaderManager.createTxBegin: a fresh number, no .flags file yet.          *)
CreateTxBegin ==
    /\ At("begin")
    /\ NextTx \in Tx
    /\ largest' = NextTx
    /\ flag' = [flag EXCEPT ![NextTx] = [state |-> "Begin", del |-> 0]]
    /\ txLog' = Dump(flag')
    /\ op' = [op EXCEPT !.tx = NextTx,
                        !.pc = IF op.kind = "vault" THEN "delta" ELSE "decr"]
    /\ UNCHANGED <<flagFile, ecl, delLog, blocks, vver, rows, ref, seal,
                   dbMoved, nuked, firstSync, everSynced, open, purge,
                   promised, restarts>>

(* Ods.putEcl: the ECL of the version, or the copy a delete keeps of it.     *)
PutEcl ==
    /\ At("putEcl")
    /\ ecl' = [ecl EXCEPT ![op.tx] = op.ver]
    /\ Goto(IF op.kind = "vault" THEN "seal" ELSE "delFlags")
    /\ UNCHANGED <<txLog, flagFile, delLog, blocks, cache, nuked, firstSync,
                   everSynced, largest, open, purge, promised, restarts>>

(* Ods.unnukeSync ends every job; makeVault also hands out its VaultTxs.     *)
UnnukeSync ==
    /\ At("seal")
    /\ nuked' = FALSE /\ everSynced' = TRUE
    /\ seal' = [unsync |-> FALSE, log |-> txLog] /\ dbMoved' = FALSE
    /\ op' = NoOp
    /\ open' = IF op.kind = "vault"
               THEN [open EXCEPT ![op.tx] = [NoVault EXCEPT
                        !.phase = "sending", !.ver = op.ver, !.todo = op.delta]]
               ELSE IF op.kind = "commit"
               THEN [open EXCEPT ![op.tx] = NoVault] ELSE open
    /\ purge' = IF op.kind = "recon" THEN NoPurge ELSE purge
    /\ UNCHANGED <<share, flag, vver, rows, ref, firstSync, largest, promised,
                   restarts>>

----------------------------------------------------------------------------
(* JournalManager: applying a list of prints to the reference counts         *)

Clear(S) == rows' = rows \cup S /\ UNCHANGED ref
AddRef(S, n) ==
    /\ rows' = rows \cup S
    /\ ref' = [p \in Prints |-> IF p \notin S THEN ref[p]
                              ELSE (IF ref[p] > 0 THEN ref[p] ELSE 0) + n]
IncrementAsClear(S) == Clear(S)                               \* faulty
Increment(S) == AddRef(S, 1)
DecrementAsClear(S) == Clear(S)                               \* faulty
Decrement(S) == AddRef(S, -1)

----------------------------------------------------------------------------
(* makeVault: begin a transaction for version v and open its senders         *)

MakeVault(v) ==
    /\ ~NeedsSync /\ NextTx \in Tx /\ PurgeMayOverlap
    /\ Fresh(v) \/ "fail" \in Faults
    /\ op.kind = "none" /\ Nuke
    /\ op' = [NoOp EXCEPT !.kind = "vault", !.pc = "clean", !.ret = "begin",
                          !.ver = v]
    /\ firstSync' = FALSE
    /\ UNCHANGED <<share, flag, vver, rows, ref, dbMoved, everSynced, largest,
                   open, purge, promised, restarts>>

(* createVaultLog: the prints without a positive count; a duplicate version  *)
(* is refused, the store staying unsynced.                                   *)
CreateVaultLog ==
    /\ At("delta")
    /\ op' = IF op.ver \in ListedVersions THEN NoOp
             ELSE [op EXCEPT !.delta = {p \in Ecl[op.ver] : ref[p] <= 0},
                             !.pc = "beginFlags"]
    /\ UNCHANGED <<share, cache, nuked, firstSync, everSynced, largest, open,
                   purge, promised, restarts>>

CommitBeginFlags ==
    /\ At("beginFlags")
    /\ flagFile' = [flagFile EXCEPT ![op.tx] = 0]
    /\ Goto("beginLog")
    /\ UNCHANGED <<txLog, ecl, delLog, blocks, cache, nuked, firstSync,
                   everSynced, largest, open, purge, promised, restarts>>

CommitBeginLog ==
    /\ At("beginLog")
    /\ flag' = [flag EXCEPT ![op.tx].state = "Active"]
    /\ txLog' = Dump(flag')
    /\ Goto("putEcl")
    /\ UNCHANGED <<flagFile, ecl, delLog, blocks, vver, rows, ref, seal,
                   dbMoved, nuked, firstSync, everSynced, largest, open, purge,
                   promised, restarts>>

----------------------------------------------------------------------------
(* The senders of an open vault                                              *)

(* VaultTx.vaultNext: the print is locked against the purge, then sent.      *)
VaultNext(t, p) ==
    /\ open[t].phase = "sending" /\ p \in open[t].todo
    /\ ~DeleteLocked
    /\ open' = [open EXCEPT ![t].todo = @ \ {p}, ![t].cur = @ \cup {p},
                            ![t].held = @ \cup {p}]
    /\ UNCHANGED <<share, cache, nuked, firstSync, everSynced, largest, op,
                   purge, promised, restarts>>

SendPrint(t, p) ==
    /\ p \in open[t].cur
    /\ blocks' = blocks \cup {p}
    /\ open' = [open EXCEPT ![t].cur = @ \ {p}]
    /\ UNCHANGED <<txLog, flagFile, ecl, delLog, cache, nuked, firstSync,
                   everSynced, largest, op, purge, promised, restarts>>

(* The last VaultTx.commit unregisters, which unlocks every print ...        *)
VaultWaitsForItself(t) ==                                     \* faulty
    /\ open[t].phase = "sending" /\ open[t].todo = {} /\ open[t].cur = {}
    /\ open[t].held = {}
    /\ open' = [open EXCEPT ![t].phase = "unregistered", ![t].held = {}]
    /\ UNCHANGED <<share, cache, nuked, firstSync, everSynced, largest, op,
                   purge, promised, restarts>>
VaultUnregister(t) ==
    /\ open[t].phase = "sending" /\ open[t].todo = {} /\ open[t].cur = {}
    /\ open' = [open EXCEPT ![t].phase = "unregistered", ![t].held = {}]
    /\ UNCHANGED <<share, cache, nuked, firstSync, everSynced, largest, op,
                   purge, promised, restarts>>

(* ... and then commits the vault.                                           *)
CommitVault(t) ==
    /\ open[t].phase = "unregistered"
    /\ op.kind = "none" /\ Nuke
    /\ op' = [NoOp EXCEPT !.kind = "commit", !.pc = "vaulted", !.tx = t,
                          !.ver = open[t].ver]
    /\ UNCHANGED <<share, flag, vver, rows, ref, dbMoved, firstSync,
                   everSynced, largest, open, purge, promised, restarts>>

(* HeaderManager.commitVault; the index version_index of vversion refuses a  *)
(* second row of the same version.                                           *)
CommitVaulted ==
    /\ At("vaulted")
    /\ IF flag[op.tx].state = "Active" /\ \A t \in Tx : vver[t] # op.ver
       THEN /\ flag' = [flag EXCEPT ![op.tx].state = "Vaulted"]
            /\ vver' = [vver EXCEPT ![op.tx] = op.ver]
            /\ txLog' = Dump(flag')
            /\ promised' = promised \cup {op.ver}
            /\ Goto("incr") /\ UNCHANGED open
       ELSE /\ op' = NoOp /\ open' = [open EXCEPT ![op.tx] = NoVault]
            /\ UNCHANGED <<flag, vver, txLog, promised>>
    /\ UNCHANGED <<flagFile, ecl, delLog, blocks, rows, ref, seal, dbMoved,
                   nuked, firstSync, everSynced, largest, purge, restarts>>

CommitIncrement ==
    /\ At("incr")
    /\ Increment(Ecl[op.ver])
    /\ Goto("seal")
    /\ UNCHANGED <<share, flag, vver, seal, dbMoved, nuked, firstSync,
                   everSynced, largest, open, purge, promised, restarts>>

(* A sender fails and closes, or its lease expires and VaultManager clears   *)
(* the prints it held.                                                       *)
VaultAbort(t) ==
    /\ open[t].phase = "sending" /\ "fail" \in Faults
    /\ open' = [open EXCEPT ![t] = NoVault]
    /\ \/ UNCHANGED <<rows, ref, dbMoved>>
       \/ Clear(open[t].held) /\ dbMoved' \in {dbMoved, TRUE}
    /\ UNCHANGED <<share, flag, vver, seal, nuked, firstSync, everSynced,
                   largest, op, purge, promised, restarts>>

----------------------------------------------------------------------------
(* makeDelete: delete the listed vault t                                     *)

MakeDelete(t) ==
    /\ t \in Listed
    /\ ~NeedsSync /\ NextTx \in Tx /\ PurgeMayOverlap
    /\ op.kind = "none" /\ Nuke
    /\ op' = [NoOp EXCEPT !.kind = "delete", !.pc = "clean", !.ret = "begin",
                          !.target = t]
    /\ firstSync' = FALSE
    /\ UNCHANGED <<share, flag, vver, rows, ref, dbMoved, everSynced, largest,
                   open, purge, promised, restarts>>

(* The ECL of the target is read, or the delete fails.                       *)
DeleteDecrement ==
    /\ At("decr")
    /\ IF ecl[op.target] = NoVersion
       THEN op' = NoOp /\ UNCHANGED <<rows, ref>>
       ELSE /\ Decrement(EclPrints(op.target))
            /\ op' = [op EXCEPT !.pc = "putEcl", !.ver = ecl[op.target]]
    /\ UNCHANGED <<share, flag, vver, seal, dbMoved, nuked, firstSync,
                   everSynced, largest, open, purge, promised, restarts>>

(* commitDelete writes <tx>.flags, from here on a restart may honour it ...  *)
CommitDeleteFlags ==
    /\ At("delFlags")
    /\ IF flag[op.target].state \in {"Vaulted", "Reconned"}
       THEN /\ flagFile' = [flagFile EXCEPT ![op.tx] = op.target]
            /\ promised' = promised \ {op.ver}
            /\ Goto("delLog")
       ELSE op' = NoOp /\ UNCHANGED <<flagFile, promised>>
    /\ UNCHANGED <<txLog, ecl, delLog, blocks, cache, nuked, firstSync,
                   everSynced, largest, open, purge, restarts>>

(* ... then transact.tx, and drops the version from the list.                *)
CommitDeleteLog ==
    /\ At("delLog")
    /\ flag' = [flag EXCEPT ![op.tx] = [state |-> "Active", del |-> op.target]]
    /\ vver' = [vver EXCEPT ![op.target] = NoVersion]
    /\ txLog' = Dump(flag')
    /\ Goto("seal")
    /\ UNCHANGED <<flagFile, ecl, delLog, blocks, rows, ref, seal, dbMoved,
                   nuked, firstSync, everSynced, largest, open, purge,
                   promised, restarts>>

----------------------------------------------------------------------------
(* maintPurge: it holds the Ods monitor only at its start and its end        *)

StartPurge ==
    /\ op.kind = "none" /\ ~NeedsSync
    /\ purge.pc = "idle"
    /\ "purgeOverlap" \in Faults \/ ~VaultOpen
    /\ purge' = [NoPurge EXCEPT !.pc = "loop",
                    !.txs = {t \in Tx : \/ flag[t].state = "Active" /\ flag[t].del # 0
                                        \/ flag[t].state = "Rollback"}]
    /\ firstSync' = FALSE
    /\ UNCHANGED <<share, cache, nuked, everSynced, largest, op, open, promised,
                   restarts>>

(* The batch is read before the delete lock is taken.                        *)
PurgeTake ==
    /\ purge.pc = "loop"
    /\ Cardinality(ZeroRows) > Cardinality(purge.conflicts)
    /\ Cardinality(purge.conflicts) <= MaxConflicts
    /\ \E S \in SUBSET ZeroRows :
          /\ \/ S = ZeroRows
             \/ Cardinality(S) = PurgeBatch + Cardinality(purge.conflicts)
          /\ Cardinality(S) <= PurgeBatch + Cardinality(purge.conflicts)
          /\ purge' = [purge EXCEPT !.batch = S \ purge.conflicts, !.pc = "delete"]
    /\ UNCHANGED <<share, cache, nuked, firstSync, everSynced, largest, op,
                   open, promised, restarts>>

PurgeGiveUp ==
    /\ purge.pc = "loop"
    /\ \/ /\ Cardinality(ZeroRows) > Cardinality(purge.conflicts)
          /\ Cardinality(purge.conflicts) > MaxConflicts
       \/ "fail" \in Faults
    /\ purge' = NoPurge
    /\ UNCHANGED <<share, cache, nuked, firstSync, everSynced, largest, op,
                   open, promised, restarts>>

(* Under the delete lock: set the prints being vaulted aside ...             *)
PurgeAsk ==
    /\ purge.pc = "delete"
    /\ LET conflicts == purge.conflicts \cup (purge.batch \cap ActivePrints)
       IN purge' = [purge EXCEPT !.conflicts = conflicts,
                                 !.batch = @ \ conflicts, !.pc = "unlink"]
    /\ UNCHANGED <<share, cache, nuked, firstSync, everSynced, largest, op,
                   open, promised, restarts>>

(* ... and delete the other blocks.  One that cannot be deleted is skipped.  *)
PurgeDelete ==
    /\ purge.pc = "unlink"
    /\ \/ blocks' = blocks \ purge.batch
       \/ /\ "fail" \in Faults
          /\ \E S \in SUBSET purge.batch : blocks' = blocks \ S
    /\ purge' = [purge EXCEPT !.pc = "finish"]
    /\ UNCHANGED <<txLog, flagFile, ecl, delLog, cache, nuked, firstSync,
                   everSynced, largest, op, open, promised, restarts>>

(* finishPurge forgets the batch, outside the delete lock and the monitor;   *)
(* if the database refuses, the store is marked unsynced.                    *)
PurgeFinish ==
    /\ purge.pc = "finish"
    /\ \/ /\ rows' = rows \ purge.batch
          /\ ref' = [p \in Prints |-> IF p \in purge.batch THEN 0 ELSE ref[p]]
          /\ dbMoved' \in {dbMoved, TRUE}
          /\ purge' = [purge EXCEPT !.batch = {}, !.pc = "loop"]
          /\ UNCHANGED <<nuked, seal>>
       \/ /\ "fail" \in Faults
          /\ Nuke /\ purge' = NoPurge
          /\ UNCHANGED <<rows, ref, dbMoved>>
    /\ UNCHANGED <<share, flag, vver, firstSync, everSynced, largest, op, open,
                   promised, restarts>>

PurgeNothingLeft == Cardinality(ZeroRows) <= Cardinality(purge.conflicts)

PurgeEnd ==
    /\ purge.pc = "loop" /\ PurgeNothingLeft
    /\ op.kind = "none" /\ (purge.conflicts # {} \/ NeedsSync)
    /\ purge' = NoPurge
    /\ firstSync' = (firstSync /\ NeedsSync)
    /\ UNCHANGED <<share, cache, nuked, everSynced, largest, op, open, promised,
                   restarts>>

(* reconcilePurgeTransactions: deletes become Reconned, rollbacks go away.   *)
PurgeReconcile ==
    /\ purge.pc = "loop" /\ PurgeNothingLeft
    /\ purge.conflicts = {} /\ ~NeedsSync
    /\ op.kind = "none" /\ Nuke
    /\ LET known == {t \in purge.txs : flag[t] # NoRow}
           deletes == {t \in known : flag[t].del # 0}
       IN op' = [NoOp EXCEPT !.kind = "recon",
                     !.pc = IF purge.txs = {} THEN "clean"
                            ELSE IF delLog # {} THEN "oldRm"
                            ELSE "write",
                     !.ret = IF purge.txs = {} THEN "seal" ELSE "clean",
                     !.todo = delLog,
                     !.marked = deletes, !.doomed = known \ deletes]
    /\ purge' = [purge EXCEPT !.pc = "reconcile"]
    /\ firstSync' = FALSE
    /\ UNCHANGED <<share, flag, vver, rows, ref, dbMoved, everSynced, largest,
                   open, promised, restarts>>

----------------------------------------------------------------------------
(* sync: trust the cache, or rebuild it from the share once per engine run   *)

SyncTrusted ==
    /\ op.kind = "none" /\ ~NeedsSync
    /\ nuked' = FALSE /\ everSynced' = TRUE /\ firstSync' = FALSE
    /\ UNCHANGED <<share, cache, largest, op, open, purge, promised, restarts>>

SyncRebuild ==
    /\ NeedsSync /\ ~everSynced
    /\ StartOp("sync", "load", "replay")
    /\ UNCHANGED <<share, flag, vver, rows, ref, dbMoved, firstSync, everSynced,
                   largest, open, purge, promised, restarts>>

LoadedVersion(t, last) ==
    IF /\ Materialize(t).state \in {"Vaulted", "Reconned"}
       /\ Materialize(t).del = 0
       /\ \A d \in t + 1 .. last : Materialize(d).del # t
    THEN ecl[t] ELSE NoVersion

(* A vault whose ECL is gone puts a null into changedVersions; a later       *)
(* delete that searches the list past it fails the load.                     *)
LoadFailsAt ==
    {d \in Tx :
        /\ Materialize(d).del # 0
        /\ \E t \in 1 .. d - 1 :
              /\ Materialize(t).state \in {"Vaulted", "Reconned"}
              /\ Materialize(t).del = 0 /\ ecl[t] = NoVersion
              /\ Materialize(d).del < t =>
                    LoadedVersion(Materialize(d).del, d - 1) = NoVersion}

(* clear, dropAllData and HeaderManager.load: what was loaded before a       *)
(* failure is committed.                                                     *)
SyncLoad ==
    /\ At("load")
    /\ rows' = {} /\ ref' = [p \in Prints |-> 0]
    /\ LET bad == LoadFailsAt
           last == IF bad = {} THEN MaxTx ELSE Min(bad)
       IN /\ IF bad = {} THEN Goto("clean") ELSE op' = NoOp
          /\ flag' = [t \in Tx |-> IF t <= last THEN Materialize(t) ELSE NoRow]
          /\ vver' = [t \in Tx |-> IF t > last THEN NoVersion
                                   ELSE IF bad = {} THEN LoadedVersion(t, last)
                                   ELSE LoadedVersion(t, last - 1)]
    /\ UNCHANGED <<share, seal, dbMoved, nuked, firstSync, everSynced, largest,
                   open, purge, promised, restarts>>

(* HeaderManager.rebuild with the callback of Ods.rebuild                    *)
SyncReplay ==
    /\ At("replay")
    /\ LET live == {t \in Enumerated : flag[t].del = 0}
           cleared == {t \in Tx : flag[t].state = "Active"
                             \/ (flag[t].state = "Rollback" /\ flag[t].del # 0)}
       IN /\ rows' = UNION {EclPrints(t) : t \in live \cup cleared}
          /\ ref' = [p \in Prints |->
                        Cardinality({t \in live : p \in EclPrints(t)})]
    /\ Goto("rollback")
    /\ UNCHANGED <<share, flag, vver, seal, dbMoved, nuked, firstSync,
                   everSynced, largest, open, purge, promised, restarts>>

(* postSyncCleanup: vaults that never finished are rolled back.              *)
UnfinishedOrDeletes == {t \in Tx : flag[t].state = "Active"}   \* faulty
Unfinished == {t \in Tx : flag[t] = [state |-> "Active", del |-> 0]}
SyncRollback ==
    /\ At("rollback")
    /\ flag' = [t \in Tx |-> IF t \in Unfinished
                             THEN [flag[t] EXCEPT !.state = "Rollback"]
                             ELSE flag[t]]
    /\ txLog' = IF Unfinished = {} THEN txLog ELSE Dump(flag')
    /\ op' = [op EXCEPT !.pc = "clean", !.ret = "seal"]
    /\ UNCHANGED <<flagFile, ecl, delLog, blocks, vver, rows, ref, seal,
                   dbMoved, nuked, firstSync, everSynced, largest, open, purge,
                   promised, restarts>>

----------------------------------------------------------------------------
(* Failures and restarts                                                     *)

Torn == op.pc \in {"oldRm", "rm"} /\ (op.at # 0 \/ op.todo # delLog)
OthersOpen == \E t \in Tx \ {op.tx} : open[t].phase # "none"

(* The job is canceled or fails: its open transaction is rolled back, and    *)
(* the store stays unsynced.  A journal being applied may be half committed. *)
Fail ==
    /\ op.kind # "none"
    /\ "failOverlap" \in Faults \/ ("fail" \in Faults /\ ~OthersOpen)
    /\ "tornDelLog" \in Faults \/ ~Torn
    /\ IF op.pc \in {"incr", "decr"}
       THEN \E S \in SUBSET (IF op.pc = "incr" THEN Ecl[op.ver]
                                               ELSE EclPrints(op.target)) :
               AddRef(S, IF op.pc = "incr" THEN 1 ELSE -1)
       ELSE UNCHANGED <<rows, ref>>
    /\ op' = NoOp
    /\ open' = IF op.kind = "commit" THEN [open EXCEPT ![op.tx] = NoVault] ELSE open
    /\ purge' = IF op.kind = "recon" THEN NoPurge ELSE purge
    /\ UNCHANGED <<share, flag, vver, seal, dbMoved, nuked, firstSync,
                   everSynced, largest, promised, restarts>>

FreshEngine ==
    /\ nuked' = TRUE /\ firstSync' = TRUE /\ everSynced' = FALSE
    /\ largest' = 0 /\ op' = NoOp
    /\ open' = [t \in Tx |-> NoVault] /\ purge' = NoPurge

(* The engine dies.  What SQLite still had in its log may reach ods.db only  *)
(* now, which changes the file.                                              *)
Crash ==
    /\ restarts < MaxRestarts /\ restarts' = restarts + 1
    /\ "tornDelLog" \in Faults \/ ~Torn
    /\ FreshEngine
    /\ dbMoved' \in {dbMoved, TRUE}
    /\ UNCHANGED <<share, flag, vver, rows, ref, seal, promised>>

(* Ods.shutdown, graceful when no job holds the store unsynced.              *)
Shutdown ==
    /\ restarts < MaxRestarts /\ restarts' = restarts + 1
    /\ op.kind = "none" /\ ~nuked
    /\ FreshEngine
    /\ seal' = [unsync |-> FALSE, log |-> txLog]
    /\ dbMoved' \in BOOLEAN
    /\ UNCHANGED <<share, flag, vver, rows, ref, promised>>

----------------------------------------------------------------------------
(* A new, empty store and a fresh engine                                     *)
Init ==
    /\ txLog = [t \in Tx |-> "none"] /\ flagFile = [t \in Tx |-> NoFile]
    /\ ecl = [t \in Tx |-> NoVersion] /\ delLog = {} /\ blocks = {}
    /\ flag = [t \in Tx |-> NoRow] /\ vver = [t \in Tx |-> NoVersion]
    /\ rows = {} /\ ref = [p \in Prints |-> 0]
    /\ seal = [unsync |-> TRUE, log |-> txLog] /\ dbMoved = FALSE
    /\ nuked = TRUE /\ firstSync = TRUE /\ everSynced = FALSE /\ largest = 0
    /\ op = NoOp /\ open = [t \in Tx |-> NoVault] /\ purge = NoPurge
    /\ promised = {} /\ restarts = 0

Clean == \/ CleanChoose \/ CleanWriteLog \/ CleanRemoveFile \/ CleanDump
         \/ CleanDropLog \/ CleanCommit
OpStep == \/ Clean \/ CreateTxBegin \/ PutEcl \/ UnnukeSync
          \/ CreateVaultLog \/ CommitBeginFlags \/ CommitBeginLog
          \/ CommitVaulted \/ CommitIncrement
          \/ DeleteDecrement \/ CommitDeleteFlags \/ CommitDeleteLog
          \/ SyncLoad \/ SyncReplay \/ SyncRollback
Sender(t) == \/ \E p \in Prints : VaultNext(t, p) \/ SendPrint(t, p)
             \/ VaultUnregister(t) \/ CommitVault(t)
Purger == \/ PurgeTake \/ PurgeGiveUp \/ PurgeAsk \/ PurgeDelete
          \/ PurgeFinish \/ PurgeEnd \/ PurgeReconcile

Next == \/ \E v \in Version : MakeVault(v)
        \/ \E t \in Tx : Sender(t) \/ VaultAbort(t) \/ MakeDelete(t)
        \/ OpStep
        \/ StartPurge \/ Purger
        \/ SyncTrusted \/ SyncRebuild
        \/ Fail \/ Crash \/ Shutdown

Spec == Init /\ [][Next]_vars

(* Jobs that have begun go on, the engine syncs, and maintenance starts a    *)
(* purge when the store is quiet: threads of the engine, each of them fair.  *)
FairSpec == /\ Spec
            /\ WF_vars(OpStep) /\ WF_vars(StartPurge) /\ WF_vars(Purger)
            /\ WF_vars(SyncTrusted \/ SyncRebuild)
            /\ \A t \in Tx : WF_vars(Sender(t))

----------------------------------------------------------------------------
(* Properties                                                                *)

(* The types, and with them what a job is about.                             *)
Job == [kind: OpKind, pc: OpPc, ret: OpPc, tx: Tx \cup {0},
        ver: Version \cup {NoVersion}, target: Tx \cup {0},
        doomed: SUBSET Tx, marked: SUBSET Tx, todo: SUBSET Tx,
        at: Tx \cup {0}, delta: SUBSET Prints]
Vault == [phase: {"none", "sending", "unregistered"},
          ver: Version \cup {NoVersion}, todo: SUBSET Prints,
          cur: SUBSET Prints, held: SUBSET Prints]
Purge == [pc: {"idle", "loop", "delete", "unlink", "finish", "reconcile"},
          batch: SUBSET Prints, conflicts: SUBSET Prints, txs: SUBSET Tx]

ShareType == /\ txLog \in Log
             /\ flagFile \in [Tx -> Tx \cup {0, NoFile}]
             /\ ecl \in [Tx -> Version \cup {NoVersion}]
             /\ delLog \in SUBSET Tx /\ blocks \in SUBSET Prints
CacheType == /\ flag \in [Tx -> Row]
             /\ vver \in [Tx -> Version \cup {NoVersion}]
             /\ rows \in SUBSET Prints /\ ref \in [Prints -> Int]
             /\ seal \in [unsync: BOOLEAN, log: Log] /\ dbMoved \in BOOLEAN
EngineType == /\ nuked \in BOOLEAN /\ firstSync \in BOOLEAN
              /\ everSynced \in BOOLEAN /\ largest \in Tx \cup {0}
              /\ op \in Job /\ open \in [Tx -> Vault] /\ purge \in Purge
Types == /\ ShareType /\ CacheType /\ EngineType
         /\ promised \in SUBSET Version /\ restarts \in 0 .. MaxRestarts
OpSound == /\ op.kind \in {"vault", "commit"} => op.ver \in Version
           /\ op.kind = "delete" => op.target \in Tx
           /\ op.pc = "begin" \/ op.ret = "begin" => op.kind \in {"vault", "delete"}
           /\ op.ret \in {"idle", "begin", "clean", "replay", "seal"}
           /\ op.pc = "delta" => op.kind = "vault"
           /\ op.pc = "decr" => op.kind = "delete"
           /\ op.pc \in {"vaulted", "incr"} => op.kind = "commit"
           /\ \A t \in Tx : open[t].phase # "none" => open[t].ver \in Version

(* Every variable keeps its type: in particular every number that a job, a   *)
(* .flags file or the log carries is a transaction of the store, or none,    *)
(* and a job has the version or the vault that its next step works on.       *)
TypeOK == Types /\ OpSound

(* What the store promised it can restore: a committed vault that was not    *)
(* deleted is on the share with its state, its flags, its ECL and every one  *)
(* of its blocks, whatever has been purged, canceled or restarted since.     *)
Durable ==
    \A v \in promised : \E t \in Tx :
        /\ txLog[t] = "Vaulted" /\ flagFile[t] = 0
        /\ ecl[t] = v /\ Ecl[v] \subseteq blocks

(* While the store calls itself in sync, the versions it lists are exactly   *)
(* those that were committed and not deleted: a restart in the middle of a   *)
(* commit, a delete or a cleanup neither loses a version nor resurrects one, *)
(* except a stop between two files of one delete log (tornDelLog), which the *)
(* code calls atomic: a load that finds the files of the delete gone and     *)
(* those of its vault there lists the vault again.                           *)
Catalog == InSync => ListedVersions = promised

(* While in sync, the reference count of a print is the number of listed     *)
(* versions that contain it, and a print with references has a row: what the *)
(* increments, decrements, purges and a rebuild leave is the same.           *)
RefcountsExact ==
    InSync => \A p \in Prints :
        /\ ref[p] = Cardinality({t \in Listed : p \in EclPrints(t)})
        /\ ref[p] > 0 => p \in rows

(* HeaderManager.verifyFlags: the FLAG table and the share agree.  It holds  *)
(* until a second restart: see FlagsAgree.                                   *)
FlagsVerified == InSync => \A t \in Tx : flag[t] = Materialize(t)

(* What verifyFlags finds at worst, however often the engine restarts: the   *)
(* row of a rolled back vault whose files are gone from the share, because a *)
(* rebuild found them in delete.tx and only removed the files (the next      *)
(* purge drops the row, as one without an ECL).  Every other row agrees.     *)
FlagsAgree ==
    InSync => \A t \in Tx :
        \/ flag[t] = Materialize(t)
        \/ flag[t] = [state |-> "Rollback", del |-> 0] /\ Materialize(t) = NoRow

(* The cache is sealed only with the log it was in sync with: as long as     *)
(* dsinfo does not say __UNSYNC, no job is running and transact.tx is the    *)
(* one of the seal, so a crash in the middle of a job is always noticed.     *)
SealTrusted == ~seal.unsync => op.kind = "none" /\ seal.log = txLog

(* While in sync, a transaction number that is not in use has no file on the *)
(* share: its number may be used again without finding the ECL or the flags  *)
(* of another transaction.                                                   *)
NoOrphans == InSync => \A t \in Tx : flag[t] = NoRow =>
                           flagFile[t] = NoFile /\ ecl[t] = NoVersion

(* A block that an open vault has sent is on the share as long as the vault  *)
(* is registered, even while a purge runs that read its batch before, if the *)
(* delete lock keeps vaults out: "prevent new vaulters from sneaking in".    *)
(* With readFlagLost it does not (LockedKept of VaultManager is violated).   *)
SentKept == \A t \in Tx : open[t].held \ open[t].cur \subseteq blocks

(* The steps of a transaction, as a reader of the share sees it: a committed *)
(* vault never goes back, a delete is reconciled only after its commit, only *)
(* a vault is rolled back, and what disappears has lost its ECL before.      *)
VaultSteps == {<<"Begin", "Active">>, <<"Active", "Vaulted">>,
               <<"Active", "Rollback">>}
DeleteSteps == {<<"Begin", "Active">>, <<"Active", "Reconned">>}
MayFollow(before, after) ==
    \/ after = NoRow /\ before.state # "Active"
    \/ before = NoRow /\ after = [state |-> "Begin", del |-> 0]
    \/ before.del = 0 /\ before.state = "Begin" /\ after.state = "Begin"
    \/ /\ before.del = after.del
       /\ <<before.state, after.state>> \in
             IF after.del = 0 THEN VaultSteps ELSE DeleteSteps
TxLifecycle ==
    [][\A t \in Tx : Materialize(t)' # Materialize(t) =>
           /\ MayFollow(Materialize(t), Materialize(t)')
           /\ Materialize(t)' = NoRow => ecl[t] = NoVersion]_share

(* Between two jobs every committed and undeleted version is complete, even  *)
(* if purges overlap vaults: "Okay NOW the vault is 100% on both ends".      *)
Complete == op.kind = "none" => Durable

(* Every vault that is in the log and was neither deleted nor committed has  *)
(* its blocks in the prints table once the store is in sync, so that a purge *)
(* can reclaim them: "An unfinished or delete vault. Clear it."              *)
RolledBackTracked ==
    InSync => \A t \in Tx : flag[t].state = "Rollback" =>
                  EclPrints(t) \cap blocks \subseteq rows

(* A committed delete is reconciled: it and its vault leave the log.         *)
DeleteReclaimed ==
    \A d \in Tx : flag[d].state = "Active" /\ flag[d].del # 0 ~> txLog[d] = "none"

(* A block nobody references any more leaves the share, unless a vault takes *)
(* a reference to it again.                                                  *)
SpaceReclaimed ==
    \A p \in Prints : (p \in rows /\ ref[p] = 0)
                           ~> (p \notin blocks \/ ref[p] > 0)

(* A vault that was begun is committed.                                      *)
VaultCommits == \A v \in Version : (\E t \in Tx : open[t].ver = v) ~> v \in promised

(* DataStore implements VersionStore: whatever the engine does, what can be  *)
(* restored from the share changes only by commits and deletes of clients.   *)
Restorable ==
    {v \in Version : \E t \in Tx \ delLog :
        /\ Materialize(t) = [state |-> "Vaulted", del |-> 0]
        /\ ecl[t] = v /\ Ecl[v] \subseteq blocks
        /\ \A d \in Tx : Materialize(d).del # t}
Abstract == INSTANCE VersionStore WITH
    stored <- Restorable,
    sending <- {open[t].ver : t \in Tx} \ {NoVersion},
    deleting <- IF op.kind = "delete" THEN {op.ver} \ {NoVersion} ELSE {}
Promise == Abstract!Spec
=============================================================================
