---------------------------- MODULE DataStoreCalm ----------------------------
(* Theorems of DataStore: the log and the cache agree, as long as jobs and    *)
(* the purge keep out of each other's way and a delete log is never left half *)
(* done.                                                                      *)
EXTENDS DataStoreProofs

----------------------------------------------------------------------------
(* The inductive invariant                                                    *)

(* The faults under which the log and the cache do not stay together.         *)

Calm == {"failOverlap", "purgeOverlap", "tornDelLog"} \cap Faults = {}

A0 == [state |-> "Active", del |-> 0]
V0 == [state |-> "Vaulted", del |-> 0]
R0 == [state |-> "Rollback", del |-> 0]

(* The rows a load would make of the share, and the vaults it would list.     *)
Made == [t \in Tx |-> Materialize(t)]
Live == {t \in Tx \ delLog : Made[t] = V0 /\ \A d \in Tx : Made[d].del # t}

Shape(r) == \/ r \in {NoRow, B0, A0, V0, R0}
            \/ r.del # 0 /\ r.state \in {"Begin", "Active", "Reconned"}
TornAt(t) == Torn /\ t \in delLog

(* What a cleanup may remove, if it removes D.                                *)
DisposableIn(t, D) ==
    \/ Made[t] \in {NoRow, B0, R0}
    \/ Made[t].state = "Reconned" /\ Made[t].del \in D
    \/ Made[t] = V0 /\ \E d \in D : Made[d] = [state |-> "Reconned", del |-> t]

(* A delete belongs to one earlier vault, and both are removed together.      *)
ShapeInv == \A t \in Tx : Shape(Made[t])
PairInv == \A d, t \in Tx : Made[d].del = t =>
              /\ t < d
              /\ d \in delLog <=> t \in delLog
              /\ Made[t] = V0 \/ TornAt(t)
              /\ \A e \in Tx : Made[e].del = t => e = d
EclInv == \A t \in Tx : Made[t] = V0 => ecl[t] # NoVersion \/ TornAt(t)
LogInv == \A t \in delLog :
              /\ Made[t].state # "Active"
              /\ Made[t].state = "Begin" => Made[t] = B0
              /\ ~Torn => DisposableIn(t, delLog)

PromisedInv == /\ promised = {ecl[t] : t \in Live}
               /\ \A s, t \in Live : ecl[s] = ecl[t] => s = t

ShareInv == ShapeInv /\ PairInv /\ EclInv /\ LogInv /\ PromisedInv

(* The rows of the cache are those of the share, but for rolled back vaults   *)
(* whose files an old delete log has removed, and for those a job is at.      *)
Stale(t) == /\ NoFiles(t) /\ txLog[t] # "Begin"
            /\ flag[t].state \notin {"none", "Begin"}
Settled(t) == flag[t] = Made[t] \/ (flag[t] = R0 /\ Stale(t))
InFlux(t) ==
    \/ At("oldRm") /\ t \in delLog
    \/ (At("oldDrop") \/ At("write")) /\ t \in op.doomed /\ Stale(t)
    \/ (At("rm") \/ At("drop") \/ At("commit")) /\ t \in op.doomed
    \/ /\ At("drop") \/ At("commit")
       /\ t \in op.marked /\ Made[t] = [flag[t] EXCEPT !.state = "Reconned"]
    \/ At("delLog") /\ t = op.tx
CacheInv == Loaded => \A t \in Tx : Settled(t) \/ InFlux(t)
VverInv == Loaded => \A t \in Tx :
    vver[t] = IF t \in Live \/ (At("delLog") /\ t = op.target)
              THEN ecl[t] ELSE NoVersion

(* What a cleanup is about to remove may be removed.                          *)
DoomedInv ==
    /\ At("oldRm") =>
          /\ op.todo \subseteq delLog
          /\ \A t \in delLog :
                \/ flag[t] \in {NoRow, B0, R0}
                \/ t \in op.doomed /\ flag[t].state \in {"Vaulted", "Reconned"}
          /\ \A t \in delLog : flag[t].state = "Begin" => txLog[t] = "Begin"
          /\ \A t \in delLog \ op.todo : NoFiles(t)
          /\ \A t \in op.doomed \ delLog : DisposableIn(t, op.doomed)
    /\ At("oldDrop") \/ At("write") =>
          \A t \in op.doomed : DisposableIn(t, op.doomed)
    /\ At("oldDrop") => \A t \in delLog : NoFiles(t) /\ Made[t] \in {NoRow, B0}
    /\ At("rm") \/ At("drop") => delLog = op.doomed
    /\ At("rm") => op.todo \subseteq delLog
    /\ op.kind # "none" /\ op.pc \in CleanPc =>
          \A t \in op.marked : flag[t].state \in {"Active", "Reconned"}
DelLogInv ==
    Loaded /\ delLog # {} => \/ At("clean") /\ op.kind = "sync"
                             \/ At("oldRm") \/ At("oldDrop") \/ At("rm") \/ At("drop")

(* Which job does what.                                                       *)
KindInv ==
    /\ op.pc # "idle"
    /\ op.pc \in {"delta", "beginFlags", "beginLog"} => op.kind = "vault"
    /\ op.pc \in {"decr", "delFlags", "delLog"} => op.kind = "delete"
    /\ op.pc \in {"putEcl", "begin"} => op.kind \in {"vault", "delete"}
    /\ op.pc \in {"load", "replay", "rollback"} => op.kind = "sync"
    /\ op.pc \in {"vaulted", "incr"} => op.kind = "commit"
    /\ op.pc \in CleanPc \cup {"clean"} =>
          \/ op.kind \in {"vault", "delete"} /\ op.ret = "begin"
          \/ op.kind = "sync" /\ op.ret \in {"replay", "seal"}
          \/ op.kind = "recon" /\ op.ret = "seal"
          \/ /\ op.kind = "recon" /\ op.ret = "clean"
             /\ op.pc \in {"write", "rm", "drop", "commit"}
    /\ op.marked # {} => op.kind = "recon" /\ op.ret = "clean"
    /\ op.kind \in {"sync", "recon"} => op.tx = 0
    /\ op.pc \in {"load", "replay"} => op.ret = "replay"
PcInv == /\ op.kind = "none" => op = NoOp
         /\ op.kind # "none" => KindInv

(* What a job has done to its transaction.                                    *)
VaultJob ==
    /\ op.pc \in {"delta", "beginFlags"} => Made[op.tx] = B0 /\ NoFiles(op.tx)
    /\ op.pc = "beginLog" => Made[op.tx] = B0 /\ flagFile[op.tx] = 0
    /\ op.pc = "putEcl" => Made[op.tx] = A0
    /\ op.pc = "seal" => op.tx \in Tx /\ Made[op.tx] = A0 /\ ecl[op.tx] = op.ver
DeleteJob ==
    /\ op.pc \in CleanPc \cup {"clean", "begin", "decr", "putEcl", "delFlags"} =>
          op.target \in Live
    /\ op.pc \in {"decr", "putEcl", "delFlags"} =>
          Made[op.tx] = B0 /\ flagFile[op.tx] = NoFile /\ op.target < op.tx
    /\ op.pc \in {"putEcl", "delFlags"} => op.ver = ecl[op.target]
    /\ op.pc = "delLog" =>
          /\ Made[op.tx] = [state |-> "Begin", del |-> op.target]
          /\ flag[op.tx] = B0
CommitJob ==
    /\ op.tx \in Tx
    /\ op.pc = "vaulted" =>
          open[op.tx].phase = "unregistered" /\ open[op.tx].ver = op.ver
    /\ op.pc = "incr" => op.tx \in Live /\ ecl[op.tx] = op.ver
JobInv ==
    /\ op.kind \in {"vault", "delete"} /\ op.tx # 0 => open[op.tx].phase = "none"
    /\ op.kind = "vault" => VaultJob
    /\ op.kind = "delete" => DeleteJob
    /\ op.kind = "commit" => CommitJob

(* The transactions of open vaults, and those a purge has taken.              *)
OpenInv == \A t \in Tx : open[t].phase # "none" =>
    /\ ecl[t] = open[t].ver
    /\ \/ Made[t] = A0
       \/ /\ Made[t] = V0
          /\ op.kind = "commit" /\ op.tx = t /\ op.pc \in {"incr", "seal"}
    /\ open[t].phase = "unregistered" => open[t].todo = {} /\ open[t].cur = {}
PurgeInv ==
    purge.pc # "idle" =>
       /\ ~VaultOpen /\ op.kind \in {"none", "sync", "recon"}
       /\ \A t \in purge.txs :
             \/ Made[t] \in {NoRow, R0}
             \/ Made[t].state \in {"Active", "Reconned"} /\ Made[t].del # 0

CalmInv == /\ OrphanInv /\ ShareInv /\ CacheInv /\ VverInv /\ DoomedInv
           /\ DelLogInv /\ PcInv /\ JobInv /\ OpenInv /\ PurgeInv

----------------------------------------------------------------------------
(* What load makes of a transaction, and how that changes                     *)

(* Every row that load could make has the type of a row of the FLAG table.    *)
LEMMA MadeIs ==
    ASSUME TypeOK, NEW t \in Tx
    PROVE  Made[t] = Materialize(t) /\ Made[t] \in Row
  BY MaterializeType DEF Made

(* Nothing else than the log and the .flags file counts.                      *)
LEMMA MadePoint ==
    ASSUME NEW t \in Tx, txLog'[t] = txLog[t], flagFile'[t] = flagFile[t]
    PROVE  Made'[t] = Made[t]
  BY DEF Made, Materialize

(* A transaction with both is what they say.                                  *)
LEMMA MadeFlagged ==
    ASSUME NEW t \in Tx, txLog[t] # "none", flagFile[t] # NoFile
    PROVE  Made[t] = [state |-> txLog[t], del |-> flagFile[t]]
  BY DEF Made, Materialize

(* Without files only a Begin counts.                                         *)
LEMMA MadeBare ==
    ASSUME NEW t \in Tx, flagFile[t] = NoFile
    PROVE  Made[t] = IF txLog[t] = "Begin" THEN B0 ELSE NoRow
  BY DEF Made, Materialize, B0

(* A dump of the row that load would make changes nothing, nor does one of    *)
(* any other row but a Begin, if the files are gone.                          *)
LEMMA DumpPoint ==
    ASSUME TypeOK, NEW t \in Tx, NEW r \in Row,
           txLog'[t] = r.state, flagFile'[t] = flagFile[t],
           \/ r = Made[t]
           \/ flagFile[t] = NoFile /\ Made[t] = NoRow /\ r.state # "Begin"
    PROVE  Made'[t] = Made[t]
<1>1. Made'[t] = Materialize(t)' /\ Made[t] = Materialize(t)
  BY DEF Made
<1> QED BY <1>1 DEF Materialize, NoRow, B0

(* ... and a dump of another row makes it that row, if it has its flags.      *)
LEMMA DumpFlagged ==
    ASSUME NEW t \in Tx, NEW r \in Row, txLog'[t] = r.state,
           flagFile'[t] = r.del, r.state # "none", r.del # NoFile
    PROVE  Made'[t] = r
<1>1. Made'[t] = Materialize(t)'
  BY DEF Made
<1> QED BY <1>1 DEF Materialize, Row

(* Rows and what load makes of a transaction agree, if no job is at it.       *)
LEMMA SettledRow ==
    ASSUME TypeOK, NEW t \in Tx, Settled(t)
    PROVE  /\ flag[t] # R0 => Made[t] = flag[t]
           /\ Made[t] # NoRow => Made[t] = flag[t]
  BY MadeBare DEF Settled, Stale, NoFiles

FluxPc == CleanPc \cup {"delLog"}

(* No row is in flux unless a cleanup or the end of a delete is at it.        *)
LEMMA NoFlux ==
    ASSUME CacheInv, Loaded, op.kind = "none" \/ op.pc \notin FluxPc
    PROVE  \A t \in Tx : Settled(t)
  BY DEF CacheInv, InFlux, At, FluxPc, CleanPc

Stops == Fail \/ Crash \/ Shutdown

(* A failure or a restart leaves no vault open.                               *)
LEMMA StopsClose ==
    ASSUME TypeOK, Calm, PcInv, JobInv, Stops
    PROVE  \A t \in Tx : open'[t].phase = "none"
<1>1. CASE Fail
  <2>1. \A t \in Tx : t # op.tx => open[t].phase = "none"
    BY <1>1 DEF Fail, Calm, OthersOpen
  <2>2. open \in [Tx -> Vault] /\ op \in Job /\ 0 \notin Tx /\ op.kind # "none"
    BY <1>1, Shapes0 DEF TypeOK, Types, EngineType, Fail
  <2>3. CASE op.kind = "commit"
    BY <1>1, <2>1, <2>2, <2>3 DEF Fail, NoVault
  <2>4. CASE op.kind \in {"vault", "delete"}
    BY <1>1, <2>1, <2>2, <2>4 DEF Fail, JobInv
  <2>5. CASE op.kind \in {"sync", "recon"}
    BY <1>1, <2>1, <2>2, <2>5 DEF Fail, PcInv, KindInv
  <2> QED BY <2>2, <2>3, <2>4, <2>5 DEF Job, OpKind
<1>2. CASE Crash \/ Shutdown
  <2>1. FreshEngine
    BY <1>2 DEF Crash, Shutdown
  <2> QED BY <2>1 DEF FreshEngine, NoVault
<1> QED BY <1>1, <1>2 DEF Stops

(* A failure leaves the cache unloaded: no vault stays open.                  *)
LEMMA FailUnloads ==
    ASSUME TypeOK, Calm, SealTrusted, PcInv, JobInv, Fail
    PROVE  ~Loaded'
<1>1. op.kind # "none" /\ seal.unsync /\ seal' = seal /\ op' = NoOp
  BY DEF Fail, SealTrusted, TypeOK, Types, CacheType
<1>2. \A t \in Tx : open'[t].phase = "none"
  BY StopsClose DEF Stops
<1> QED BY <1>1, <1>2 DEF Loaded, VaultOpen, NoOp

(* So does a restart in the middle of a job.                                  *)
LEMMA CrashUnloads ==
    ASSUME TypeOK, SealTrusted, op.kind # "none", Crash
    PROVE  ~Loaded'
<1>1. seal.unsync /\ seal' = seal /\ FreshEngine
  BY DEF Crash, SealTrusted, TypeOK, Types, CacheType
<1> QED BY <1>1 DEF FreshEngine, Loaded, VaultOpen, NoOp, NoVault

----------------------------------------------------------------------------
(* The steps that leave files and rows alone                                  *)

Starts == \/ \E v \in Version : MakeVault(v)
          \/ \E t \in Tx : MakeDelete(t) \/ CommitVault(t)
          \/ SyncRebuild \/ PurgeReconcile
Goes == \/ CleanChoose \/ CreateVaultLog \/ CommitIncrement
        \/ DeleteDecrement \/ SyncReplay \/ UnnukeSync
Sends == \E t \in Tx : \/ \E p \in Prints : VaultNext(t, p) \/ SendPrint(t, p)
                       \/ VaultUnregister(t) \/ VaultAbort(t)
Purges == \/ StartPurge \/ PurgeTake \/ PurgeGiveUp \/ PurgeAsk
          \/ PurgeDelete \/ PurgeFinish \/ PurgeEnd
Waits == Sends \/ Purges \/ SyncTrusted \/ UNCHANGED vars

(* Every step changes files, starts a job, moves one on, stops it or leaves   *)
(* the jobs alone.                                                            *)
LEMMA AllSteps ==
    ASSUME [Next]_vars PROVE FileStep \/ Starts \/ Goes \/ Stops \/ Waits
  BY DEF Next, OpStep, Clean, Sender, Purger, FileStep, Starts, Goes, Stops,
     Sends, Purges, Waits

(* The job that holds the store is not touched by the others.                 *)
LEMMA WaitsKeep == ASSUME Waits PROVE op' = op
<1>1. ASSUME NEW t \in Tx, NEW p \in Prints, VaultNext(t, p) \/ SendPrint(t, p)
      PROVE  op' = op
  BY <1>1 DEF VaultNext, SendPrint
<1>2. ASSUME NEW t \in Tx, VaultUnregister(t) \/ VaultAbort(t) PROVE op' = op
  BY <1>2 DEF VaultUnregister, VaultAbort
<1>3. Purges => op' = op
  BY DEF Purges, StartPurge, PurgeTake, PurgeGiveUp, PurgeAsk, PurgeDelete,
     PurgeFinish, PurgeEnd
<1>4. SyncTrusted \/ UNCHANGED vars => op' = op
  BY DEF SyncTrusted, vars, engine
<1> QED BY <1>1, <1>2, <1>3, <1>4 DEF Waits, Sends

(* A job starts from no job.                                                  *)
LEMMA StartsDo ==
    ASSUME TypeOK, Starts
    PROVE  /\ op.kind = "none" /\ op'.kind # "none" /\ op'.at = 0
           /\ op'.tx \in Tx \cup {0}
           /\ \/ op'.kind = "vault" /\ op'.pc = "clean" /\ op'.ret = "begin"
              \/ op'.kind = "delete" /\ op'.pc = "clean" /\ op'.ret = "begin"
              \/ op'.kind = "commit" /\ op'.pc = "vaulted"
              \/ op'.kind = "sync" /\ op'.pc = "load" /\ op'.ret = "replay"
              \/ op'.kind = "recon" /\ PurgeReconcile
           /\ op'.kind # "commit" => op'.tx = 0
           /\ op'.kind # "recon" => op'.marked = {} /\ op'.doomed = {}
<1>1. ASSUME NEW v \in Version, MakeVault(v)
      PROVE  /\ op.kind = "none" /\ op'.kind = "vault" /\ op'.pc = "clean"
             /\ op'.ret = "begin" /\ op'.at = 0 /\ op'.tx = 0
             /\ op'.marked = {} /\ op'.doomed = {}
  BY <1>1 DEF MakeVault, NoOp
<1>2. ASSUME NEW t \in Tx, MakeDelete(t)
      PROVE  /\ op.kind = "none" /\ op'.kind = "delete" /\ op'.pc = "clean"
             /\ op'.ret = "begin" /\ op'.at = 0 /\ op'.tx = 0
             /\ op'.marked = {} /\ op'.doomed = {}
  BY <1>2 DEF MakeDelete, NoOp
<1>3. ASSUME NEW t \in Tx, CommitVault(t)
      PROVE  /\ op.kind = "none" /\ op'.kind = "commit" /\ op'.pc = "vaulted"
             /\ op'.at = 0 /\ op'.tx = t /\ op'.marked = {} /\ op'.doomed = {}
  BY <1>3 DEF CommitVault, NoOp
<1>4. CASE SyncRebuild
  BY <1>4 DEF SyncRebuild, StartOp, NoOp
<1>5. CASE PurgeReconcile
  BY <1>5 DEF PurgeReconcile, NoOp
<1> QED BY <1>1, <1>2, <1>3, <1>4, <1>5 DEF Starts

(* A failure and a restart leave no job.                                      *)
LEMMA StopsDo == ASSUME Stops PROVE op' = NoOp
  BY DEF Stops, Fail, Crash, Shutdown, FreshEngine

(* While the store is in sync nothing is left to be removed.                  *)
LEMMA SyncedLoaded ==
    ASSUME TypeOK, EngineInv, DelLogInv, op.kind = "none", ~NeedsSync
    PROVE  Loaded /\ delLog = {}
  BY SyncedSeal DEF Loaded, DelLogInv, At

(* Every job keeps to its own steps.                                          *)
LEMMA PcStep ==
    ASSUME TypeOK, CalmInv, [Next]_vars PROVE PcInv'
<1> USE DEF CalmInv, OrphanInv
<1>1. op \in Job /\ (op.kind # "none" => KindInv) /\ JobKnown
  BY Shapes0 DEF PcInv
<1>2. CASE op' = op
  BY <1>2 DEF PcInv, KindInv
<1>3. CASE op' = NoOp
  BY <1>3 DEF PcInv, NoOp
<1>4. CASE Starts /\ ~PurgeReconcile
  BY <1>4, StartsDo DEF PcInv, KindInv, CleanPc
<1>5. CASE PurgeReconcile
  <2>1. delLog = {}
    BY <1>5, SyncedLoaded DEF PurgeReconcile
  <2>2. /\ op'.kind = "recon" /\ op'.tx = 0
        /\ \/ op'.pc = "clean" /\ op'.ret = "seal" /\ purge.txs = {}
           \/ op'.pc = "write" /\ op'.ret = "clean"
        /\ op'.marked \subseteq purge.txs
    BY <1>5, <2>1 DEF PurgeReconcile, NoOp
  <2> QED BY <2>2 DEF PcInv, KindInv, CleanPc
<1>6. CASE CleanChoose
  <2>1. /\ op.kind # "none" /\ op.pc = "clean" /\ op'.pc \in {"write", "oldRm"}
        /\ op'.kind = op.kind /\ op'.ret = op.ret /\ op'.tx = op.tx
        /\ op'.marked = op.marked
    BY <1>1, <1>6 DEF CleanChoose, At, Job
  <2> QED BY <1>1, <2>1 DEF PcInv, KindInv, CleanPc
<1>7. CASE CleanWriteLog \/ CleanDump \/ CleanDropLog \/ CleanRemoveFile
  <2>1. /\ op.kind # "none" /\ op.pc \in {"write", "oldRm", "oldDrop", "rm", "drop"}
        /\ op'.kind = op.kind /\ op'.ret = op.ret /\ op'.tx = op.tx
        /\ op'.marked = op.marked
        /\ op'.pc \in {"oldRm", "oldDrop", "write", "rm", "drop", "commit"}
        /\ op.pc \in {"write", "rm", "drop"} => op'.pc \in {"rm", "drop", "commit"}
    <3>1. CASE CleanWriteLog
      BY <1>1, <3>1, GotoDoes, WriteDoes DEF CleanWriteLog, At
    <3>2. CASE CleanDump
      BY <1>1, <3>2, GotoDoes DEF CleanDump, At
    <3>3. CASE CleanDropLog
      BY <1>1, <3>3, GotoDoes DEF CleanDropLog, At
    <3>4. CASE CleanRemoveFile
      BY <1>1, <3>4, RemoveDoes DEF CleanRemoveFile, At
    <3> QED BY <1>7, <3>1, <3>2, <3>3, <3>4
  <2> QED BY <1>1, <2>1 DEF PcInv, KindInv, CleanPc
<1>8. CASE CleanCommit
  <2>1. /\ op.kind # "none" /\ op.pc = "commit" /\ op'.kind = op.kind
        /\ op'.tx = op.tx /\ op'.marked = {}
        /\ IF op.kind = "recon" /\ op.ret = "clean"
           THEN op'.pc = "clean" /\ op'.ret = "seal"
           ELSE op'.pc = op.ret /\ op'.ret = op.ret
    BY <1>1, <1>8, CommitDoes DEF CleanCommit, At
  <2> QED BY <1>1, <2>1 DEF PcInv, KindInv, CleanPc
<1>9. CASE CreateTxBegin
  <2>1. /\ op.kind # "none" /\ op.pc = "begin" /\ op'.kind = op.kind
        /\ op'.pc = IF op.kind = "vault" THEN "delta" ELSE "decr"
        /\ op'.marked = op.marked
    BY <1>1, <1>9, CreateDoes DEF CreateTxBegin, At
  <2> QED BY <1>1, <2>1 DEF PcInv, KindInv, CleanPc
<1>10. CASE (CreateVaultLog \/ DeleteDecrement) /\ op' # NoOp
  <2>1. /\ op.kind # "none" /\ op'.kind = op.kind /\ op'.marked = op.marked
        /\ op'.tx = op.tx
        /\ \/ op.pc = "delta" /\ op'.pc = "beginFlags"
           \/ op.pc = "decr" /\ op'.pc = "putEcl"
    BY <1>1, <1>10, DeltaDoes, DecrementDoes
       DEF CreateVaultLog, DeleteDecrement, At
  <2> QED BY <1>1, <2>1 DEF PcInv, KindInv, CleanPc
<1>11. CASE (CommitBeginFlags \/ CommitBeginLog \/ PutEcl \/ CommitVaulted
             \/ CommitIncrement \/ CommitDeleteFlags \/ CommitDeleteLog
             \/ SyncLoad \/ SyncReplay) /\ op' # NoOp
  <2>1. PICK x \in OpPc :
             /\ Goto(x) /\ op.kind # "none"
             /\ <<op.pc, x>> \in {<<"beginFlags", "beginLog">>,
                   <<"beginLog", "putEcl">>, <<"putEcl", "seal">>,
                   <<"putEcl", "delFlags">>, <<"vaulted", "incr">>,
                   <<"incr", "seal">>, <<"delFlags", "delLog">>,
                   <<"delLog", "seal">>, <<"load", "clean">>,
                   <<"replay", "rollback">>}
             /\ x = "delFlags" => op.kind # "vault"
    BY <1>11 DEF CommitBeginFlags, CommitBeginLog, PutEcl, CommitVaulted,
       CommitIncrement, CommitDeleteFlags, CommitDeleteLog, SyncLoad,
       SyncReplay, At, OpPc
  <2>2. /\ op'.pc = x /\ op'.kind = op.kind /\ op'.ret = op.ret
        /\ op'.tx = op.tx /\ op'.marked = op.marked
    BY <1>1, <2>1, GotoDoes
  <2> QED BY <1>1, <2>1, <2>2 DEF PcInv, KindInv, CleanPc
<1>12. CASE SyncRollback
  <2>1. /\ op.kind # "none" /\ op.pc = "rollback" /\ op'.pc = "clean"
        /\ op'.ret = "seal" /\ op'.kind = op.kind /\ op'.tx = op.tx
        /\ op'.marked = op.marked
    BY <1>1, <1>12, RollbackDoes DEF SyncRollback, At
  <2> QED BY <1>1, <2>1 DEF PcInv, KindInv, CleanPc
<1>13. Stops \/ UnnukeSync => op' = NoOp
  BY StopsDo DEF UnnukeSync
<1> QED
  BY <1>2, <1>3, <1>4, <1>5, <1>6, <1>7, <1>8, <1>9, <1>10, <1>11, <1>12, <1>13,
     AllSteps, WaitsKeep DEF Starts, Goes, FileStep

(* A quiet step leaves rows in flux only if it leaves the job where it was.   *)
LEMMA QuietMoves ==
    ASSUME TypeOK, Calm, SealTrusted, CalmInv, [Next]_vars, ~FileStep
    PROVE  /\ \/ op' = op
              \/ op.kind = "none"
              \/ op.kind # "none" /\ op.pc \in {"delta", "decr", "incr", "replay", "seal"}
              \/ CleanChoose \/ ~Loaded'
           /\ \/ op' = op \/ CleanChoose \/ PurgeReconcile
              \/ op'.kind = "none" \/ op'.pc \notin FluxPc
           /\ op' = op \/ (~Torn /\ ~Torn')
<1> USE DEF CalmInv, OrphanInv
<1>1. op \in Job /\ PcInv /\ PcInv'
  BY Shapes0, PcStep
<1>2. CASE Starts
  <2>1. op.kind = "none" /\ op = NoOp
    BY <1>1, <1>2, StartsDo DEF PcInv
  <2>2. PurgeReconcile \/ op'.pc \in {"clean", "vaulted", "load"}
    BY <1>2, StartsDo
  <2>3. PurgeReconcile => ~Torn'
    <3>1. PurgeReconcile => op'.at = 0 /\ op'.todo = delLog /\ delLog' = delLog
      BY DEF PurgeReconcile, NoOp, share
    <3> QED BY <3>1 DEF Torn
  <2> QED BY <2>1, <2>2, <2>3 DEF Torn, NoOp, FluxPc, CleanPc
<1>3. CASE CleanChoose
  <2>1. op.pc = "clean" /\ op'.todo = delLog /\ delLog' = delLog /\ op'.at = op.at
    BY <1>1, <1>3 DEF CleanChoose, At, Job, share
  <2>2. op.at = 0
    BY <2>1 DEF JobKnown
  <2> QED BY <1>3, <2>1, <2>2 DEF Torn
<1>4. CASE Goes /\ ~CleanChoose
  <2>1. /\ op.kind # "none" /\ op.pc \in {"delta", "decr", "incr", "replay", "seal"}
        /\ op' = NoOp \/ op'.pc \in {"beginFlags", "putEcl", "seal", "rollback"}
    BY <1>1, <1>4, DeltaDoes, DecrementDoes, GotoDoes DEF Goes, CreateVaultLog,
       CommitIncrement, DeleteDecrement, SyncReplay, UnnukeSync, At
  <2> QED BY <2>1 DEF Torn, NoOp, FluxPc, CleanPc
<1>5. CASE Stops
  <2>1. op' = NoOp
    BY <1>5, StopsDo
  <2>2. ~Torn
    <3>1. CASE Fail \/ Crash
      BY <3>1 DEF Fail, Crash, Calm
    <3>2. CASE Shutdown
      BY <1>1, <3>2 DEF Shutdown, PcInv, NoOp, Torn
    <3> QED BY <1>5, <3>1, <3>2 DEF Stops
  <2>3. op.kind = "none" \/ ~Loaded'
    BY <1>5, FailUnloads, CrashUnloads DEF Stops, Shutdown
  <2> QED BY <2>1, <2>2, <2>3 DEF Torn, NoOp
<1> QED BY <1>2, <1>3, <1>4, <1>5, AllSteps, WaitsKeep

(* Quiet steps keep the share as it is ...                                    *)
LEMMA QuietShare ==
    ASSUME TypeOK, Calm, SealTrusted, CalmInv, [Next]_vars, ~FileStep
    PROVE  /\ ShareInv' /\ Made' = Made /\ Live' = Live
           /\ UNCHANGED files
<1>1. UNCHANGED files /\ (Torn' <=> Torn)
  <2>1. op' = op \/ (~Torn /\ ~Torn')
    BY QuietMoves
  <2>2. UNCHANGED files
    BY QuietStep DEF CalmInv, OrphanInv
  <2> QED BY <2>1, <2>2 DEF files, Torn
<1>2. Made' = Made
  BY <1>1 DEF Made, files, Materialize
<1>3. Live' = Live
  BY <1>1, <1>2 DEF Live, files
<1>4. ShareInv
  BY DEF CalmInv
<1>5. \A t : TornAt(t)' <=> TornAt(t)
  BY <1>1 DEF TornAt, files
<1>6. ShareInv'
  BY <1>1, <1>2, <1>3, <1>4, <1>5 DEF ShareInv, ShapeInv, PairInv, EclInv, LogInv,
     PromisedInv, DisposableIn, files
<1> QED BY <1>1, <1>2, <1>3, <1>6

(* ... and the cache.                                                         *)
LEMMA QuietCache ==
    ASSUME TypeOK, Calm, SealTrusted, CalmInv, [Next]_vars, ~FileStep
    PROVE  CacheInv' /\ VverInv' /\ DelLogInv'
<1> USE DEF CalmInv
<1>1. /\ UNCHANGED files /\ Made' = Made /\ Live' = Live
      /\ Loaded' => Loaded
  BY QuietShare, QuietStep DEF OrphanInv
<1>2. CASE op' = op
  BY <1>1, <1>2 DEF CacheInv, VverInv, DelLogInv, Settled, Stale, InFlux, At,
     files, NoFiles
<1>3. CASE op' # op /\ Loaded'
  <2>1. \/ op.kind = "none" \/ CleanChoose
        \/ op.kind # "none" /\ op.pc \in {"delta", "decr", "incr", "replay", "seal"}
    BY <1>3, QuietMoves
  <2>2. op.kind = "none" \/ op.pc \notin FluxPc
    BY <2>1 DEF FluxPc, CleanPc, CleanChoose, At
  <2>3. \A t \in Tx : Settled(t)
    BY <1>1, <1>3, <2>2, NoFlux
  <2>4. CacheInv'
    BY <1>1, <2>3 DEF CacheInv, Settled, Stale, NoFiles, files
  <2>5. VverInv'
    <3>1. ~At("delLog")
      BY <2>2 DEF At, FluxPc
    <3>2. ~At("delLog")'
      <4>1. CleanChoose \/ PurgeReconcile => op'.pc # "delLog"
        BY Shapes0 DEF CleanChoose, PurgeReconcile, NoOp, Job
      <4> QED BY <1>3, <4>1, QuietMoves DEF At, FluxPc
    <3> QED BY <1>1, <1>3, <3>1, <3>2 DEF VverInv, files
  <2>6. DelLogInv'
    <3>1. delLog = {} \/ CleanChoose
      BY <1>1, <1>3, <2>1 DEF DelLogInv, At
    <3>2. CleanChoose => delLog = {} \/ At("oldRm")'
      BY Shapes0 DEF CleanChoose, At, Job
    <3> QED BY <1>1, <3>1, <3>2 DEF DelLogInv, files
  <2> QED BY <2>4, <2>5, <2>6
<1>4. CASE ~Loaded'
  BY <1>4 DEF CacheInv, VverInv, DelLogInv
<1> QED BY <1>2, <1>3, <1>4

(* What reconCleanup chooses may be removed.                                  *)
LEMMA ChooseDoomed ==
    ASSUME TypeOK, CalmInv, CleanChoose
    PROVE  DoomedInv'
<1>1. /\ op \in Job /\ op.kind # "none" /\ op.pc = "clean"
      /\ UNCHANGED <<txLog, flagFile, ecl, delLog, flag>>
      /\ op.at = 0 /\ Loaded
  BY Shapes0 DEF CleanChoose, At, share, cache, CalmInv, OrphanInv, JobKnown, Loaded
<1>2. PICK old \in SUBSET {t \in Tx : flag[t] = B0} :
         /\ op'.doomed = old \cup DeletedPairs /\ op'.todo = delLog
         /\ op'.pc = IF delLog = {} THEN "write" ELSE "oldRm"
         /\ op'.kind = op.kind
  BY <1>1 DEF CleanChoose, Job, B0
<1>3. /\ \A t \in Tx : Settled(t)
      /\ ~Torn /\ Made' = Made
  <2>1. \A t \in Tx : Settled(t)
    BY <1>1, NoFlux DEF CalmInv, FluxPc, CleanPc
  <2> QED BY <1>1, <2>1 DEF Torn, Made, Materialize
<1>4. \A t \in Tx : /\ flag[t] # R0 => Made[t] = flag[t]
                    /\ Made[t] # NoRow => Made[t] = flag[t]
  BY <1>3, SettledRow
<1>5. \A t, d \in Tx : Made[d].del = t => Made[t] = V0
  BY <1>3 DEF CalmInv, ShareInv, PairInv, TornAt
<1>6. \A t, d \in Tx :
         /\ flag[d].state = "Reconned" /\ flag[d].del = t
         /\ flag[t].state \in {"Vaulted", "Reconned"}
         => d \in DeletedPairs /\ t \in DeletedPairs
  BY DEF DeletedPairs
<1>7. ASSUME NEW t \in DeletedPairs
      PROVE  DisposableIn(t, DeletedPairs) /\ t \in Tx
  <2>1. CASE \E d \in Tx : /\ flag[d].state = "Reconned" /\ flag[d].del = t
                           /\ t \in Tx /\ flag[t].state \in {"Vaulted", "Reconned"}
    <3>1. PICK d \in Tx : /\ flag[d].state = "Reconned" /\ flag[d].del = t
                          /\ t \in Tx /\ flag[t].state \in {"Vaulted", "Reconned"}
      BY <2>1
    <3>2. d \in DeletedPairs
      BY <1>6, <3>1
    <3>3. Made[d] = flag[d] /\ flag[d] \in Row
      BY <1>4, <3>1, Shapes0 DEF R0
    <3>4. Made[d] = [state |-> "Reconned", del |-> t]
      BY <3>1, <3>3 DEF Row
    <3>5. Made[t] = V0
      BY <1>5, <3>1, <3>4
    <3> QED BY <3>1, <3>2, <3>4, <3>5 DEF DisposableIn
  <2>2. CASE \E v \in Tx : /\ flag[t].state = "Reconned" /\ flag[t].del = v
                           /\ t \in Tx /\ flag[v].state \in {"Vaulted", "Reconned"}
    <3>1. PICK v \in Tx : /\ flag[t].state = "Reconned" /\ flag[t].del = v
                          /\ t \in Tx /\ flag[v].state \in {"Vaulted", "Reconned"}
      BY <2>2
    <3>2. v \in DeletedPairs /\ Made[t] = flag[t]
      BY <1>4, <1>6, <3>1 DEF R0
    <3> QED BY <3>1, <3>2 DEF DisposableIn
  <2> QED BY <2>1, <2>2 DEF DeletedPairs
<1>8. \A t \in op'.doomed : DisposableIn(t, op'.doomed)
  <2>1. \A t \in old : DisposableIn(t, op'.doomed)
    BY <1>4 DEF DisposableIn, B0, R0
  <2>2. \A t \in DeletedPairs : DisposableIn(t, op'.doomed)
    BY <1>2, <1>7 DEF DisposableIn
  <2> QED BY <1>2, <2>1, <2>2
<1>9. PICK D \in SUBSET Tx : D = op'.doomed
  BY <1>2, <1>7
<1>10. ASSUME NEW t \in delLog
       PROVE  \/ flag[t] \in {NoRow, B0, R0}
              \/ /\ t \in DeletedPairs
                 /\ flag[t].state \in {"Vaulted", "Reconned"}
  <2>1. t \in Tx /\ DisposableIn(t, delLog) /\ delLog \subseteq Tx
    BY <1>3, Shapes0 DEF CalmInv, ShareInv, LogInv
  <2>2. CASE Made[t] \in {NoRow, B0, R0}
    BY <1>4, <2>1, <2>2
  <2>3. CASE Made[t].state = "Reconned" /\ Made[t].del \in delLog
    <3>1. PICK v \in Tx : v = Made[t].del
      BY <2>1, <2>3
    <3>2. Made[v] = V0 /\ flag[v] = V0 /\ flag[t] = Made[t]
      BY <1>4, <1>5, <2>1, <2>3, <3>1 DEF V0, NoRow
    <3> QED BY <1>6, <2>1, <2>3, <3>1, <3>2 DEF V0
  <2>4. CASE Made[t] = V0 /\ \E d \in delLog : Made[d] = [state |-> "Reconned", del |-> t]
    <3>1. PICK d \in delLog : Made[d] = [state |-> "Reconned", del |-> t]
      BY <2>4
    <3>2. flag[t] = V0 /\ flag[d] = Made[d] /\ d \in Tx
      BY <1>4, <2>1, <2>4, <3>1 DEF V0, NoRow
    <3> QED BY <1>6, <2>1, <3>1, <3>2 DEF V0
  <2> QED BY <2>1, <2>2, <2>3, <2>4 DEF DisposableIn
<1>11. \A t \in delLog : flag[t].state = "Begin" => txLog[t] = "Begin"
  <2> SUFFICES ASSUME NEW t \in delLog, flag[t].state = "Begin"
               PROVE  txLog[t] = "Begin"
    OBVIOUS
  <2>1. t \in Tx
    BY Shapes0
  <2>2. Made[t].state = "Begin"
    BY <1>4, <2>1 DEF R0
  <2> QED BY <2>1, <2>2 DEF Made, Materialize, NoRow
<1>12. \A t \in D : DisposableIn(t, D)'
  BY <1>3, <1>8, <1>9 DEF DisposableIn
<1>13. op'.marked = {}
  BY <1>1, CalmInv DEF CleanChoose, CalmInv, OrphanInv, JobKnown, CleanPc, Job
<1>14. CASE op'.pc = "write"
  BY <1>9, <1>12, <1>14, <1>13 DEF DoomedInv, At
<1>15. CASE op'.pc = "oldRm"
  <2>1. \A t \in delLog' \ op'.todo : NoFiles(t)'
    BY <1>1, <1>2
  <2>2. \A t \in D \ delLog' : DisposableIn(t, D)'
    BY <1>12
  <2>3. \A t \in delLog' :
           \/ flag'[t] \in {NoRow, B0, R0}
           \/ t \in D /\ flag'[t].state \in {"Vaulted", "Reconned"}
    BY <1>1, <1>2, <1>9, <1>10
  <2>4. \A t \in delLog' : flag'[t].state = "Begin" => txLog'[t] = "Begin"
    BY <1>1, <1>11
  <2> QED BY <1>1, <1>2, <1>9, <1>15, <1>13, <2>1, <2>2, <2>3, <2>4 DEF DoomedInv, At
<1> QED BY <1>2, <1>14, <1>15

(* ... and so is what a purge has deleted.                                    *)
LEMMA ReconcileDoomed ==
    ASSUME TypeOK, CalmInv, PurgeReconcile
    PROVE  DoomedInv'
<1>1. /\ delLog = {} /\ Loaded /\ op.kind = "none"
      /\ UNCHANGED <<txLog, flagFile, ecl, delLog, flag>>
  BY SyncedLoaded DEF PurgeReconcile, share, CalmInv, OrphanInv
<1>2. /\ op'.pc \in {"clean", "write"}
      /\ op'.doomed = {t \in purge.txs : flag[t] # NoRow /\ flag[t].del = 0}
      /\ \A t \in op'.marked : t \in purge.txs /\ flag[t].del # 0
  BY <1>1 DEF PurgeReconcile, NoOp
<1>3. Made' = Made
  BY <1>1 DEF Made, Materialize
<1>4. ASSUME NEW t \in op'.doomed PROVE Made[t] \in {NoRow, R0}
  <2>1. t \in Tx /\ t \in purge.txs /\ flag[t].del = 0
    BY <1>2 DEF TypeOK, Types, EngineType, Purge
  <2>2. \/ Made[t] \in {NoRow, R0} \/ Made[t].del # 0
    BY <2>1 DEF CalmInv, PurgeInv, PurgeReconcile
  <2>3. Made[t] # NoRow => Made[t] = flag[t]
    BY <1>1, <2>1, NoFlux, SettledRow DEF CalmInv
  <2> QED BY <2>1, <2>2, <2>3
<1>5. ASSUME NEW t \in op'.marked
      PROVE  flag[t].state \in {"Active", "Reconned"} /\ flag'[t] = flag[t]
  <2>1. t \in Tx /\ t \in purge.txs /\ flag[t].del # 0
    BY <1>2 DEF TypeOK, Types, EngineType, Purge
  <2>2. \/ Made[t] \in {NoRow, R0} \/ Made[t].state \in {"Active", "Reconned"}
    BY <2>1 DEF CalmInv, PurgeInv, PurgeReconcile
  <2>3. Made[t] = flag[t]
    BY <1>1, <2>1, NoFlux, SettledRow DEF CalmInv, R0
  <2> QED BY <1>1, <2>1, <2>2, <2>3 DEF NoRow, R0
<1> QED BY <1>2, <1>3, <1>4, <1>5 DEF DoomedInv, At, DisposableIn

(* What a cleanup is about to remove stays disposable while others work.      *)
LEMMA QuietDoomed ==
    ASSUME TypeOK, Calm, SealTrusted, CalmInv, [Next]_vars, ~FileStep
    PROVE  DoomedInv'
<1>1. UNCHANGED files /\ Made' = Made
  BY QuietShare
<1>2. CASE op' = op
  BY <1>1, <1>2 DEF CalmInv, DoomedInv, DisposableIn, At, files, NoFiles
<1>3. CASE op'.kind = "none" \/ op'.pc \notin FluxPc
  BY <1>3 DEF DoomedInv, At, FluxPc, CleanPc
<1> QED BY <1>2, <1>3, ChooseDoomed, ReconcileDoomed, QuietMoves

(* What the senders do to the vaults that are open.                           *)
LEMMA WaitsOpen ==
    ASSUME TypeOK, Waits, NEW t \in Tx
    PROVE  /\ open[t].phase = "none" => open'[t].phase = "none"
           /\ open'[t].phase # "none" => open'[t].ver = open[t].ver
           /\ open[t].phase = "unregistered" =>
                 open'[t].phase = "unregistered" /\ open'[t].todo = open[t].todo
                 /\ open'[t].cur \subseteq open[t].cur
           /\ open[t].phase # "unregistered" /\ open'[t].phase = "unregistered" =>
                 open'[t].todo = {} /\ open'[t].cur = {}
<1>1. open \in [Tx -> Vault]
  BY DEF TypeOK, Types, EngineType
<1>2. ASSUME NEW u \in Tx, NEW p \in Prints, VaultNext(u, p)
      PROVE  /\ open'[t].phase = open[t].phase /\ open'[t].ver = open[t].ver
             /\ open[t].phase = "unregistered" => open'[t] = open[t]
  <2>1. open[u].phase = "sending"
    BY <1>2 DEF VaultNext
  <2>2. CASE t = u
    BY <1>1, <1>2, <2>1, <2>2 DEF VaultNext, Vault
  <2>3. CASE t # u
    BY <1>1, <1>2, <2>3 DEF VaultNext
  <2> QED BY <2>2, <2>3
<1>3. ASSUME NEW u \in Tx, NEW p \in Prints, SendPrint(u, p)
      PROVE  /\ open'[t].phase = open[t].phase /\ open'[t].ver = open[t].ver
             /\ open'[t].todo = open[t].todo /\ open'[t].cur \subseteq open[t].cur
  <2>1. CASE t = u
    BY <1>1, <1>3, <2>1 DEF SendPrint, Vault
  <2>2. CASE t # u
    BY <1>1, <1>3, <2>2 DEF SendPrint
  <2> QED BY <2>1, <2>2
<1>4. ASSUME NEW u \in Tx, VaultUnregister(u)
      PROVE  \/ open'[t] = open[t]
             \/ /\ open[t].phase = "sending" /\ open'[t].phase = "unregistered"
                /\ open'[t].ver = open[t].ver
                /\ open'[t].todo = {} /\ open'[t].cur = {}
  <2>1. CASE t = u
    BY <1>1, <1>4, <2>1 DEF VaultUnregister, Vault
  <2>2. CASE t # u
    BY <1>1, <1>4, <2>2 DEF VaultUnregister
  <2> QED BY <2>1, <2>2
<1>5. ASSUME NEW u \in Tx, VaultAbort(u)
      PROVE  \/ open'[t] = open[t]
             \/ open[t].phase = "sending" /\ open'[t].phase = "none"
  BY <1>1, <1>5 DEF VaultAbort, NoVault
<1>6. Purges \/ SyncTrusted \/ UNCHANGED vars => open' = open
  BY DEF Purges, StartPurge, PurgeTake, PurgeGiveUp, PurgeAsk, PurgeDelete,
     PurgeFinish, PurgeEnd, SyncTrusted, vars, engine
<1> QED BY <1>2, <1>3, <1>4, <1>5, <1>6 DEF Waits, Sends

(* What an idle store lists is live.                                          *)
LEMMA ListedLive ==
    ASSUME TypeOK, CalmInv, Loaded, op.kind = "none"
    PROVE  /\ Listed = Live
           /\ \A t \in Live : vver[t] = ecl[t] /\ ecl[t] # NoVersion /\ flag[t] = V0
<1>1. ASSUME NEW t \in Listed PROVE t \in Live
  BY <1>1 DEF Listed, CalmInv, VverInv, At
<1>2. ASSUME NEW t \in Live
      PROVE  vver[t] = ecl[t] /\ ecl[t] # NoVersion /\ flag[t] = V0
  <2>1. t \in Tx /\ Made[t] = V0 /\ t \notin delLog
    BY DEF Live
  <2>2. vver[t] = ecl[t] /\ ecl[t] # NoVersion
    BY <2>1 DEF CalmInv, VverInv, ShareInv, EclInv, TornAt
  <2>3. Settled(t)
    BY <2>1, NoFlux DEF CalmInv
  <2>4. flag[t] = V0
    BY <2>1, <2>3, SettledRow DEF V0, NoRow
  <2> QED BY <2>2, <2>4
<1>3. Live \subseteq Listed
  BY <1>2 DEF Listed, Live, V0
<1> QED BY <1>1, <1>2, <1>3

(* Quiet steps leave a job with the transaction it is about.                  *)
LEMMA QuietJobs ==
    ASSUME TypeOK, Calm, SealTrusted, CalmInv, [Next]_vars, ~FileStep
    PROVE  JobInv'
<1>1. /\ UNCHANGED files /\ Made' = Made /\ Live' = Live /\ op \in Job
      /\ JobInv /\ PcInv /\ 0 \notin Tx
  BY QuietShare, Shapes0 DEF CalmInv
<1>2. CASE Waits
  <2>1. op' = op
    BY <1>2, WaitsKeep
  <2>2. \A t \in Tx : /\ open[t].phase = "none" => open'[t].phase = "none"
                      /\ open[t].phase = "unregistered" =>
                            /\ open'[t].phase = "unregistered"
                            /\ open'[t].ver = open[t].ver
    BY <1>2, WaitsOpen
  <2> QED BY <1>1, <2>1, <2>2 DEF JobInv, VaultJob, DeleteJob, CommitJob, files,
     NoFiles, Job
<1>3. ASSUME NEW t \in Tx, CommitVault(t) PROVE JobInv'
  <2>1. /\ op'.kind = "commit" /\ op'.pc = "vaulted" /\ op'.tx = t
        /\ op'.ver = open[t].ver /\ open' = open /\ open[t].phase = "unregistered"
    BY <1>3 DEF CommitVault, NoOp
  <2> QED BY <2>1 DEF JobInv, CommitJob
<1>4. ASSUME NEW t \in Tx, MakeDelete(t) PROVE JobInv'
  <2>1. /\ op'.kind = "delete" /\ op'.pc = "clean" /\ op'.tx = 0
        /\ op'.target = t /\ op.kind = "none" /\ ~NeedsSync /\ t \in Listed
    BY <1>4 DEF MakeDelete, NoOp
  <2>2. t \in Live
    BY <2>1, SyncedLoaded, ListedLive DEF CalmInv, OrphanInv
  <2> QED BY <1>1, <2>1, <2>2 DEF JobInv, DeleteJob
<1>5. ASSUME NEW v \in Version, MakeVault(v) PROVE JobInv'
  <2>1. op'.kind = "vault" /\ op'.pc = "clean" /\ op'.tx = 0
    BY <1>5 DEF MakeVault, NoOp
  <2> QED BY <2>1 DEF JobInv, VaultJob
<1>6. CASE SyncRebuild \/ PurgeReconcile
  <2>1. op'.kind \in {"sync", "recon"}
    BY <1>6 DEF SyncRebuild, StartOp, PurgeReconcile, NoOp
  <2> QED BY <2>1 DEF JobInv
<1>7. CASE Goes /\ op' # NoOp
  <2>1. /\ op'.kind = op.kind /\ op'.tx = op.tx /\ op'.target = op.target
        /\ open' = open /\ op.kind # "none"
        /\ \/ CleanChoose /\ op.pc = "clean" /\ op'.pc \in {"write", "oldRm"}
           \/ op.pc = "delta" /\ op'.pc = "beginFlags"
           \/ op.pc = "incr" /\ op'.pc = "seal"
           \/ op.pc = "replay" /\ op'.pc = "rollback"
           \/ /\ op.pc = "decr" /\ op'.pc = "putEcl"
              /\ op'.ver = ecl[op.target]
    <3>1. CASE CleanChoose
      BY <1>1, <3>1 DEF CleanChoose, At, Job
    <3>2. CASE CreateVaultLog
      BY <1>1, <1>7, <3>2, DeltaDoes DEF CreateVaultLog, At
    <3>3. CASE CommitIncrement \/ SyncReplay
      BY <1>1, <3>3, GotoDoes DEF CommitIncrement, SyncReplay, At
    <3>4. CASE DeleteDecrement
      BY <1>1, <1>7, <3>4, DecrementDoes DEF DeleteDecrement, At
    <3> QED BY <1>7, <3>1, <3>2, <3>3, <3>4 DEF Goes, UnnukeSync
  <2>2. KindInv
    BY <1>1, <2>1 DEF PcInv
  <2>3. op'.kind \in {"vault", "delete"} /\ op'.tx # 0 => open'[op'.tx].phase = "none"
    BY <1>1, <2>1 DEF JobInv
  <2>4. op'.kind = "vault" => VaultJob'
    <3>1. op.kind = "vault" => op.pc \in {"clean", "delta"} /\ VaultJob
      BY <1>1, <2>1, <2>2 DEF KindInv, JobInv, CleanPc
    <3> QED BY <1>1, <2>1, <3>1 DEF VaultJob, files, NoFiles
  <2>5. op'.kind = "delete" => DeleteJob'
    <3>1. op.kind = "delete" => op.pc \in {"clean", "decr"} /\ DeleteJob
      BY <1>1, <2>1, <2>2 DEF KindInv, JobInv, CleanPc
    <3> QED BY <1>1, <2>1, <3>1 DEF DeleteJob, files, CleanPc
  <2>6. op'.kind = "commit" => CommitJob'
    <3>1. op.kind = "commit" => op.pc = "incr" /\ CommitJob
      BY <1>1, <2>1, <2>2 DEF KindInv, JobInv, CleanPc
    <3> QED BY <1>1, <2>1, <3>1 DEF CommitJob
  <2> QED BY <2>3, <2>4, <2>5, <2>6 DEF JobInv
<1>8. CASE op' = NoOp
  BY <1>8 DEF JobInv, NoOp
<1> QED
  BY <1>2, <1>3, <1>4, <1>5, <1>6, <1>7, <1>8, AllSteps, StopsDo DEF Starts

(* Quiet steps leave the transactions of open vaults alone.                   *)
LEMMA QuietOpen ==
    ASSUME TypeOK, Calm, SealTrusted, CalmInv, [Next]_vars, ~FileStep
    PROVE  OpenInv'
<1>1. /\ UNCHANGED files /\ Made' = Made /\ Live' = Live /\ op \in Job
      /\ JobInv /\ PcInv /\ OpenInv /\ 0 \notin Tx /\ open \in [Tx -> Vault]
  BY QuietShare, Shapes0 DEF CalmInv, TypeOK, Types, EngineType
<1>2. CASE Waits
  <2>1. op' = op
    BY <1>2, WaitsKeep
  <2>2. SUFFICES ASSUME NEW t \in Tx, open'[t].phase # "none"
                 PROVE  /\ ecl'[t] = open'[t].ver
                        /\ \/ Made'[t] = A0
                           \/ /\ Made'[t] = V0 /\ op'.kind = "commit"
                              /\ op'.tx = t /\ op'.pc \in {"incr", "seal"}
                        /\ open'[t].phase = "unregistered" =>
                              open'[t].todo = {} /\ open'[t].cur = {}
    BY DEF OpenInv
  <2>3. /\ open[t].phase # "none" /\ open'[t].ver = open[t].ver
        /\ \/ open'[t].phase # "unregistered"
           \/ /\ open[t].phase = "unregistered" /\ open'[t].todo = open[t].todo
              /\ open'[t].cur \subseteq open[t].cur
           \/ open'[t].todo = {} /\ open'[t].cur = {}
    BY <1>2, <2>2, WaitsOpen
  <2> QED BY <1>1, <2>1, <2>3 DEF OpenInv, files
<1>3. CASE Starts
  <2>1. open' = open /\ op.kind = "none"
    <3>1. ASSUME NEW t \in Tx, CommitVault(t) \/ MakeDelete(t) PROVE open' = open
      BY <3>1 DEF CommitVault, MakeDelete
    <3>2. ASSUME NEW v \in Version, MakeVault(v) PROVE open' = open
      BY <3>2 DEF MakeVault
    <3>3. SyncRebuild \/ PurgeReconcile => open' = open
      BY DEF SyncRebuild, PurgeReconcile
    <3> QED BY <1>3, <3>1, <3>2, <3>3, StartsDo DEF Starts
  <2> QED BY <1>1, <2>1 DEF OpenInv, files
<1>4. CASE Goes /\ ~UnnukeSync
  <2>1. /\ open' = open /\ op.kind # "none"
        /\ op.kind = "commit" =>
              op.pc = "incr" /\ op'.pc = "seal" /\ op'.kind = "commit" /\ op'.tx = op.tx
    <3>1. CASE CommitIncrement
      BY <1>1, <3>1, GotoDoes DEF CommitIncrement, At
    <3>2. CASE ~CommitIncrement
      <4>1. /\ open' = open /\ op.kind # "none"
            /\ op.pc \in {"clean", "delta", "decr", "replay"}
        BY <1>4, <3>2 DEF Goes, CleanChoose, CreateVaultLog, DeleteDecrement,
           SyncReplay, At
      <4> QED BY <1>1, <4>1 DEF PcInv, KindInv
    <3> QED BY <3>1, <3>2
  <2> QED BY <1>1, <2>1 DEF OpenInv, files
<1>5. CASE UnnukeSync
  <2>1. /\ op.kind # "none" /\ op.pc = "seal" /\ UNCHANGED <<ecl>>
        /\ open' = IF op.kind = "vault"
                   THEN [open EXCEPT ![op.tx] = [NoVault EXCEPT
                           !.phase = "sending", !.ver = op.ver, !.todo = op.delta]]
                   ELSE IF op.kind = "commit"
                   THEN [open EXCEPT ![op.tx] = NoVault] ELSE open
    BY <1>5 DEF UnnukeSync, At, share
  <2>2. ASSUME NEW t \in Tx, t # op.tx \/ op.kind \notin {"vault", "commit"},
               open'[t].phase # "none"
        PROVE  /\ ecl'[t] = open'[t].ver /\ Made'[t] = A0
               /\ open'[t].phase = "unregistered" =>
                      open'[t].todo = {} /\ open'[t].cur = {}
    <3>1. open'[t] = open[t]
      BY <1>1, <2>1, <2>2
    <3> QED BY <1>1, <2>1, <2>2, <3>1 DEF OpenInv
  <2>3. CASE op.kind = "vault"
    <3>1. op.tx \in Tx /\ Made[op.tx] = A0 /\ ecl[op.tx] = op.ver
      BY <1>1, <2>1, <2>3 DEF JobInv, VaultJob
    <3>2. open'[op.tx].phase = "sending" /\ open'[op.tx].ver = op.ver
      BY <1>1, <2>1, <2>3, <3>1 DEF NoVault
    <3> QED BY <1>1, <2>1, <2>2, <3>1, <3>2 DEF OpenInv
  <2>4. CASE op.kind = "commit"
    <3>1. op.tx \in Tx /\ open'[op.tx].phase = "none"
      BY <1>1, <2>1, <2>4 DEF JobInv, CommitJob, NoVault
    <3> QED BY <2>2, <3>1 DEF OpenInv
  <2>5. CASE op.kind \notin {"vault", "commit"}
    BY <2>2, <2>5 DEF OpenInv
  <2> QED BY <2>3, <2>4, <2>5
<1>6. CASE Stops
  BY <1>1, <1>6, StopsClose DEF OpenInv
<1> QED BY <1>2, <1>3, <1>4, <1>5, <1>6, AllSteps

(* What a purge has taken stays so, and no vault opens while it runs.         *)
LEMMA QuietPurge ==
    ASSUME TypeOK, Calm, SealTrusted, CalmInv, [Next]_vars, ~FileStep
    PROVE  PurgeInv'
<1>1. /\ UNCHANGED files /\ Made' = Made /\ op \in Job /\ purge \in Purge
      /\ JobInv /\ PcInv /\ PurgeInv /\ 0 \notin Tx /\ open \in [Tx -> Vault]
  BY QuietShare, Shapes0 DEF CalmInv, TypeOK, Types, EngineType
<1>2. CASE purge' = NoPurge
  BY <1>2 DEF PurgeInv, NoPurge
<1>3. CASE /\ purge'.pc # "idle" => purge.pc # "idle"
           /\ purge'.txs = purge.txs
           /\ VaultOpen' => VaultOpen
           /\ purge.pc # "idle" => op'.kind \in {"none", "sync", "recon"}
  BY <1>1, <1>3 DEF PurgeInv
<1>4. CASE Sends
  <2>1. VaultOpen' => VaultOpen
    BY <1>4, WaitsOpen DEF Waits, VaultOpen
  <2>2. purge' = purge /\ op' = op
    <3>1. ASSUME NEW t \in Tx, NEW p \in Prints, VaultNext(t, p) \/ SendPrint(t, p)
          PROVE  purge' = purge
      BY <3>1 DEF VaultNext, SendPrint
    <3>2. ASSUME NEW t \in Tx, VaultUnregister(t) \/ VaultAbort(t)
          PROVE  purge' = purge
      BY <3>2 DEF VaultUnregister, VaultAbort
    <3> QED BY <1>4, <3>1, <3>2, WaitsKeep DEF Waits, Sends
  <2> QED BY <1>1, <2>1, <2>2 DEF PurgeInv
<1>5. CASE StartPurge
  <2>1. /\ op.kind = "none" /\ ~NeedsSync /\ op' = op /\ open' = open /\ ~VaultOpen
        /\ purge'.txs = {t \in Tx : \/ flag[t].state = "Active" /\ flag[t].del # 0
                                    \/ flag[t].state = "Rollback"}
    BY <1>5 DEF StartPurge, Calm, NoPurge
  <2>2. Loaded /\ \A t \in Tx : Settled(t)
    BY <2>1, SyncedLoaded, NoFlux DEF CalmInv, OrphanInv
  <2>3. ASSUME NEW t \in purge'.txs
        PROVE  \/ Made[t] \in {NoRow, R0}
               \/ Made[t].state \in {"Active", "Reconned"} /\ Made[t].del # 0
    <3>1. t \in Tx /\ Settled(t) /\ Shape(Made[t])
      BY <2>1, <2>2 DEF CalmInv, ShareInv, ShapeInv
    <3>2. CASE Made[t] = NoRow
      BY <3>2
    <3>3. CASE Made[t] # NoRow
      <4>1. Made[t] = flag[t]
        BY <3>1, <3>3, SettledRow
      <4> QED BY <2>1, <3>1, <4>1 DEF Shape, B0, A0, V0, NoRow
    <3> QED BY <3>2, <3>3
  <2> QED BY <1>1, <2>1, <2>3 DEF PurgeInv, VaultOpen
<1>6. CASE PurgeTake \/ PurgeAsk \/ PurgeDelete \/ PurgeFinish
  <2>1. purge' = NoPurge \/ (purge.pc # "idle" /\ purge'.txs = purge.txs)
    <3>1. CASE PurgeTake
      <4>1. PICK S \in SUBSET ZeroRows :
               purge' = [purge EXCEPT !.batch = S \ purge.conflicts, !.pc = "delete"]
        BY <3>1 DEF PurgeTake
      <4>2. purge.pc = "loop"
        BY <3>1 DEF PurgeTake
      <4> QED BY <1>1, <4>1, <4>2 DEF Purge
    <3>2. CASE PurgeAsk
      BY <1>1, <3>2 DEF PurgeAsk, Purge
    <3>3. CASE PurgeDelete
      BY <1>1, <3>3 DEF PurgeDelete, Purge
    <3>4. CASE PurgeFinish
      BY <1>1, <3>4 DEF PurgeFinish, Purge
    <3> QED BY <1>6, <3>1, <3>2, <3>3, <3>4
  <2>2. op' = op /\ open' = open
    BY <1>6 DEF PurgeTake, PurgeAsk, PurgeDelete, PurgeFinish
  <2> QED BY <1>1, <1>2, <2>1, <2>2 DEF PurgeInv, VaultOpen
<1>7. CASE PurgeGiveUp \/ PurgeEnd \/ Crash \/ Shutdown
  BY <1>2, <1>7 DEF PurgeGiveUp, PurgeEnd, Crash, Shutdown, FreshEngine
<1>8. CASE Fail
  <2>1. op' = NoOp /\ ~VaultOpen' /\ (purge' = NoPurge \/ purge' = purge)
    BY <1>1, <1>8, StopsClose, StopsDo DEF Stops, VaultOpen, Fail
  <2> QED BY <1>1, <1>2, <2>1 DEF PurgeInv, NoOp
<1>9. CASE SyncTrusted \/ UNCHANGED vars
  <2>1. UNCHANGED <<op, open, purge>>
    BY <1>9 DEF SyncTrusted, vars, engine
  <2> QED BY <1>1, <2>1 DEF PurgeInv, VaultOpen
<1>10. ASSUME NEW v \in Version, MakeVault(v) PROVE PurgeInv'
  BY <1>10 DEF MakeVault, PurgeMayOverlap, Calm, PurgeInv
<1>11. ASSUME NEW t \in Tx, MakeDelete(t) PROVE PurgeInv'
  BY <1>11 DEF MakeDelete, PurgeMayOverlap, Calm, PurgeInv
<1>12. ASSUME NEW t \in Tx, CommitVault(t) PROVE PurgeInv'
  <2>1. VaultOpen /\ purge' = purge
    BY <1>12 DEF CommitVault, VaultOpen
  <2> QED BY <1>1, <2>1 DEF PurgeInv
<1>13. CASE SyncRebuild \/ PurgeReconcile
  <2>1. /\ op'.kind \in {"sync", "recon"} /\ open' = open
        /\ purge'.txs = purge.txs
        /\ purge'.pc # "idle" => purge.pc # "idle"
    <3>1. CASE SyncRebuild
      BY <3>1 DEF SyncRebuild, StartOp, NoOp
    <3>2. CASE PurgeReconcile
      BY <1>1, <3>2 DEF PurgeReconcile, NoOp, Purge
    <3> QED BY <1>13, <3>1, <3>2
  <2> QED BY <1>1, <2>1 DEF PurgeInv, VaultOpen
<1>14. CASE Goes
  <2>1. op'.kind = op.kind \/ op'.kind = "none"
    <3>1. CASE CleanChoose
      BY <1>1, <3>1 DEF CleanChoose, Job
    <3>2. CASE CreateVaultLog
      BY <1>1, <3>2, DeltaDoes DEF CreateVaultLog, NoOp
    <3>3. CASE CommitIncrement \/ SyncReplay
      BY <1>1, <3>3, GotoDoes DEF CommitIncrement, SyncReplay
    <3>4. CASE DeleteDecrement
      BY <1>1, <3>4, DecrementDoes DEF DeleteDecrement, NoOp
    <3>5. CASE UnnukeSync
      BY <3>5 DEF UnnukeSync, NoOp
    <3> QED BY <1>14, <3>1, <3>2, <3>3, <3>4, <3>5 DEF Goes
  <2>2. purge' = purge \/ purge' = NoPurge
    BY <1>14 DEF Goes, CleanChoose, CreateVaultLog, DeleteDecrement,
       CommitIncrement, SyncReplay, UnnukeSync
  <2>3. VaultOpen' => VaultOpen \/ op.kind = "vault"
    <3>1. CASE UnnukeSync
      <4>1. CASE op.kind = "commit"
        BY <1>1, <3>1, <4>1 DEF UnnukeSync, VaultOpen, NoVault
      <4>2. CASE op.kind \notin {"vault", "commit"}
        BY <3>1, <4>2 DEF UnnukeSync, VaultOpen
      <4> QED BY <4>1, <4>2
    <3>2. CASE ~UnnukeSync
      <4>1. open' = open
        BY <1>14, <3>2 DEF Goes, CleanChoose, CreateVaultLog, DeleteDecrement,
           CommitIncrement, SyncReplay
      <4> QED BY <4>1 DEF VaultOpen
    <3> QED BY <3>1, <3>2
  <2>4. op.kind # "vault" \/ purge.pc = "idle"
    BY <1>1 DEF PurgeInv
  <2> QED BY <1>1, <1>2, <2>1, <2>2, <2>3, <2>4 DEF PurgeInv
<1> QED
  BY <1>4, <1>5, <1>6, <1>7, <1>8, <1>9, <1>10, <1>11, <1>12, <1>13, <1>14,
     AllSteps DEF Starts, Stops, Waits, Purges

----------------------------------------------------------------------------
(* What keeps the parts of the invariant                                      *)

----------------------------------------------------------------------------
(* What the steps that write files have in common                             *)

(* A transaction keeps its part in pairs and lists, or its removal is noticed *)
(* by the delete log.                                                         *)
Alike(t) == Made'[t].del = Made[t].del /\ (Made'[t] = V0 <=> Made[t] = V0)
Gone(t) == t \in delLog /\ Made'[t] \in {NoRow, B0}

(* The share stays sound if every pair stays what it is or goes with the      *)
(* delete log, and no committed vault changes hands.                          *)
LEMMA ShareMoves ==
    ASSUME TypeOK, ShareInv, promised' = promised, delLog' = delLog,
           \A t \in Tx : Shape(Made'[t]) /\ (Alike(t) \/ Gone(t)),
           \A t \in delLog : Made'[t] = Made[t] \/ Gone(t),
           \A t \in Tx \ delLog : Made[t] = V0 => ecl'[t] = ecl[t],
           Torn' \/ \A t \in delLog : Gone(t)
    PROVE  ShareInv' /\ Live' = Live
<1>1. \A t \in Tx : Gone(t) => Made'[t].del = 0 /\ Made'[t] # V0
  BY DEF Gone, NoRow, B0, V0
<1>2. 0 \notin Tx /\ delLog \subseteq Tx
  BY Shapes0
<1>3. PairInv /\ EclInv /\ LogInv /\ PromisedInv
  BY DEF ShareInv
<1>4. \A d, t \in Tx : Made'[d].del = t => Made[d].del = t /\ ~Gone(d)
  BY <1>1, <1>2 DEF Alike
<1>5. \A t \in Tx \ delLog : TornAt(t) = FALSE /\ Alike(t)
  BY DEF TornAt, Gone
<1>6. Live' = Live
  <2>1. ASSUME NEW t \in Tx \ delLog, \A d \in Tx : Made[d].del # t
        PROVE  \A d \in Tx : Made'[d].del # t
    BY <1>4, <2>1
  <2>2. ASSUME NEW t \in Tx \ delLog, Made[t] = V0, NEW d \in Tx, Made[d].del = t
        PROVE  Made'[d].del = t
    <3>1. d \notin delLog
      BY <1>3, <2>2 DEF PairInv
    <3> QED BY <1>5, <2>2, <3>1 DEF Alike
  <2> QED BY <1>5, <2>1, <2>2 DEF Live, Alike
<1>7. PairInv'
  <2> SUFFICES ASSUME NEW d \in Tx, NEW t \in Tx, Made'[d].del = t
               PROVE  /\ t < d
                      /\ d \in delLog <=> t \in delLog
                      /\ Made'[t] = V0 \/ (Torn' /\ t \in delLog)
                      /\ \A e \in Tx : Made'[e].del = t => e = d
    BY DEF PairInv, TornAt
  <2>1. Made[d].del = t /\ ~Gone(d)
    BY <1>4
  <2>2. /\ t < d /\ (d \in delLog <=> t \in delLog)
        /\ Made[t] = V0 \/ TornAt(t)
        /\ \A e \in Tx : Made[e].del = t => e = d
    BY <1>3, <2>1 DEF PairInv
  <2>3. Made'[t] = V0 \/ (Torn' /\ t \in delLog)
    BY <1>5, <2>1, <2>2 DEF Alike
  <2> QED BY <1>4, <2>2, <2>3
<1>8. EclInv'
  <2> SUFFICES ASSUME NEW t \in Tx, Made'[t] = V0
               PROVE  ecl'[t] # NoVersion \/ (Torn' /\ t \in delLog)
    BY DEF EclInv, TornAt
  <2>1. ~Gone(t) /\ Made[t] = V0
    BY <1>1 DEF Alike
  <2> QED BY <1>3, <1>5, <2>1 DEF EclInv
<1>9. LogInv'
  <2> SUFFICES ASSUME NEW t \in delLog
               PROVE  /\ Made'[t].state # "Active"
                      /\ Made'[t].state = "Begin" => Made'[t] = B0
                      /\ Gone(t) => DisposableIn(t, delLog)'
    BY DEF LogInv
  <2>1. Gone(t) => /\ Made'[t].state # "Active"
                   /\ Made'[t].state = "Begin" => Made'[t] = B0
                   /\ DisposableIn(t, delLog)'
    BY DEF Gone, NoRow, B0, DisposableIn
  <2> QED BY <1>3, <2>1 DEF LogInv
<1>10. PromisedInv'
  <2>1. \A t \in Live : ecl'[t] = ecl[t]
    BY DEF Live
  <2> QED BY <1>3, <1>6, <2>1 DEF PromisedInv
<1>11. ShapeInv'
  BY DEF ShapeInv
<1> QED BY <1>6, <1>7, <1>8, <1>9, <1>10, <1>11 DEF ShareInv

(* A dump of the row of a transaction that no job is at.                      *)
LEMMA DumpSettled ==
    ASSUME TypeOK, NEW t \in Tx, Settled(t), txLog'[t] = flag[t].state,
           flagFile'[t] = flagFile[t], ecl'[t] = ecl[t], flag'[t] = flag[t]
    PROVE  Made'[t] = Made[t] /\ Settled(t)'
<1>1. flag[t] \in Row
  BY Shapes0
<1>2. Made'[t] = Made[t]
  <2>1. CASE flag[t] = Made[t]
    BY <1>1, <2>1, DumpPoint
  <2>2. CASE flag[t] = R0 /\ Stale(t)
    <3>1. Made[t] = NoRow /\ flagFile[t] = NoFile /\ flag[t].state # "Begin"
      BY <2>2, MadeBare DEF Stale, NoFiles, R0
    <3> QED BY <1>1, <3>1, DumpPoint
  <2> QED BY <2>1, <2>2 DEF Settled
<1>3. flag[t] = R0 => txLog'[t] # "Begin"
  BY DEF R0
<1> QED BY <1>2, <1>3 DEF Settled, Stale, NoFiles

(* Other transactions than those open may change.                             *)
LEMMA OpenMoves ==
    ASSUME OpenInv, open' = open, op.pc \notin {"incr", "seal"},
           \A t \in Tx : open[t].phase # "none" /\ Made[t] = A0 =>
                            Made'[t] = A0 /\ ecl'[t] = ecl[t]
    PROVE  OpenInv'
  BY DEF OpenInv

(* ... and others than those that a purge has taken.                          *)
LEMMA PurgeMoves ==
    ASSUME PurgeInv, purge \in Purge, open' = open, purge' = purge,
           op'.kind = op.kind \/ op'.kind = "none",
           \A t \in Tx : purge.pc # "idle" /\ t \in purge.txs =>
              \/ Made'[t] \in {Made[t], NoRow, R0}
              \/ Made'[t].state \in {"Active", "Reconned"} /\ Made'[t].del # 0
    PROVE  PurgeInv'
<1>1. VaultOpen' <=> VaultOpen
  BY DEF VaultOpen
<1>2. purge.txs \subseteq Tx
  BY DEF Purge
<1> QED BY <1>1, <1>2 DEF PurgeInv

(* A cleanup changes nothing for the job it is part of.                       *)
LEMMA CleanJobs ==
    ASSUME TypeOK, KindInv, JobInv, op.kind # "none", op.pc \in CleanPc,
           open' = open, Live' = Live,
           op'.kind = op.kind, op'.tx = op.tx, op'.target = op.target,
           op'.pc \in CleanPc \cup {"clean"} \/ op'.pc = op.ret
    PROVE  JobInv'
<1>1. /\ op.kind \in {"vault", "delete"} /\ op.ret = "begin"
      \/ op.kind \in {"sync", "recon"}
  BY DEF KindInv
<1>2. op.kind = "vault" => VaultJob'
  BY <1>1 DEF VaultJob, CleanPc
<1>3. op.kind = "delete" => DeleteJob'
  <2>1. op.kind = "delete" => op.target \in Live
    BY DEF JobInv, DeleteJob
  <2> QED BY <1>1, <2>1 DEF DeleteJob, CleanPc
<1> QED BY <1>1, <1>2, <1>3 DEF JobInv

----------------------------------------------------------------------------
(* The steps that change the share: the cleanup                               *)

Rest == /\ ShareInv /\ CacheInv /\ VverInv /\ DoomedInv /\ DelLogInv
        /\ JobInv /\ OpenInv /\ PurgeInv

(* A change of a transaction that a reader of the share may see.              *)
LawfulStep == \A t \in Tx : Made'[t] # Made[t] =>
    MayFollow(Made[t], Made'[t]) /\ (Made'[t] = NoRow => ecl[t] = NoVersion)

(* A step of a job finds the cache loaded, but for the load itself.           *)
LEMMA AtJob ==
    ASSUME TypeOK, CalmInv, NEW x, At(x), x # "load"
    PROVE  /\ op.kind # "none" /\ op.pc = x /\ Loaded /\ KindInv
           /\ x \notin FluxPc => \A t \in Tx : Settled(t)
           /\ x \notin {"clean", "oldRm", "oldDrop", "rm", "drop"} => delLog = {}
<1>1. op.kind # "none" /\ op.pc = x /\ Loaded /\ KindInv
  BY DEF At, Loaded, CalmInv, PcInv
<1>2. x \notin {"clean", "oldRm", "oldDrop", "rm", "drop"} => delLog = {}
  BY <1>1 DEF CalmInv, DelLogInv, At
<1> QED BY <1>1, <1>2, NoFlux DEF CalmInv

(* The vault and the delete of a pair go together.                            *)
LEMMA DisposableVault ==
    ASSUME NEW t, NEW D, DisposableIn(t, D), Made[t] = V0
    PROVE  \E d \in D : Made[d] = [state |-> "Reconned", del |-> t]
<1>1. V0.state = "Vaulted" /\ V0 \notin {NoRow, B0, R0}
  BY DEF V0, NoRow, B0, R0
<1> QED BY <1>1 DEF DisposableIn

(* A delete is disposed of only after it was reconciled, and with its vault.  *)
LEMMA DisposableDelete ==
    ASSUME NEW t, NEW D, DisposableIn(t, D), Made[t].del # 0
    PROVE  Made[t].state = "Reconned" /\ Made[t].del \in D
<1>1. \A r \in {V0, NoRow, B0, R0} : r.del = 0
  BY DEF V0, NoRow, B0, R0
<1> QED BY <1>1 DEF DisposableIn

(* Without a delete log a transaction that is not part of a pair can go.      *)
LEMMA WriteCalm ==
    ASSUME TypeOK, CalmInv, CleanWriteLog
    PROVE  Rest' /\ LawfulStep
<1>1. /\ At("write") /\ op \in Job /\ op.kind # "none" /\ op.pc = "write"
      /\ KindInv /\ delLog = {} /\ Loaded
      /\ UNCHANGED <<txLog, flagFile, ecl, flag, vver, promised, seal, open, purge>>
  BY AtJob, Shapes0 DEF CleanWriteLog, CleanPc, cache
<1>2. Made' = Made /\ ~Torn
  BY <1>1 DEF Made, Materialize, Torn
<1>3. /\ op'.kind = op.kind /\ op'.tx = op.tx /\ op'.target = op.target
      /\ op'.doomed = op.doomed /\ op'.marked = op.marked
      /\ \/ op.doomed = {} /\ op'.pc = "commit" /\ delLog' = {}
         \/ op'.pc = "rm" /\ op'.todo = delLog' /\ delLog' = op.doomed
      /\ op'.at = 0
  <2>1. op.at = 0
    BY <1>1 DEF CalmInv, OrphanInv, JobKnown
  <2>2. CASE op.doomed = {}
    BY <1>1, <2>1, <2>2, GotoDoes DEF CleanWriteLog
  <2>3. CASE op.doomed # {}
    BY <1>1, <2>1, <2>3, WriteDoes DEF CleanWriteLog
  <2> QED BY <2>2, <2>3
<1>4. ~Torn' /\ delLog' = op.doomed /\ op.doomed \subseteq Tx
  BY <1>1, <1>3 DEF Torn, Job
<1>5. \A t \in op.doomed : DisposableIn(t, op.doomed)
  BY <1>1 DEF CalmInv, DoomedInv
<1>6. /\ \A t \in Tx : Shape(Made[t])
      /\ \A d, t \in Tx : Made[d].del = t =>
             t < d /\ Made[t] = V0 /\ \A e \in Tx : Made[e].del = t => e = d
      /\ \A t \in Tx : Made[t] = V0 => ecl[t] # NoVersion
  BY <1>2 DEF CalmInv, ShareInv, ShapeInv, PairInv, EclInv, TornAt
<1>7. Live' = Live
  <2>1. ASSUME NEW t \in op.doomed, Made[t] = V0
        PROVE  \E d \in Tx : Made[d].del = t
    <3>1. PICK d \in op.doomed : Made[d] = [state |-> "Reconned", del |-> t]
      BY <1>5, <2>1, DisposableVault
    <3> QED BY <1>4, <3>1
  <2> QED BY <1>1, <1>2, <1>4, <2>1 DEF Live
<1>8. \A d, t \in Tx : Made[d].del = t => (d \in op.doomed <=> t \in op.doomed)
  <2> SUFFICES ASSUME NEW d \in Tx, NEW t \in Tx, Made[d].del = t
               PROVE  d \in op.doomed <=> t \in op.doomed
    OBVIOUS
  <2>1. t # 0 /\ Made[t] = V0 /\ \A e \in Tx : Made[e].del = t => e = d
    BY <1>6, Shapes0
  <2>2. d \in op.doomed => t \in op.doomed
    BY <1>5, <2>1, DisposableDelete
  <2>3. t \in op.doomed => d \in op.doomed
    <3>1. SUFFICES ASSUME t \in op.doomed PROVE d \in op.doomed
      OBVIOUS
    <3>2. PICK e \in op.doomed : Made[e] = [state |-> "Reconned", del |-> t]
      BY <1>5, <2>1, <3>1, DisposableVault
    <3> QED BY <1>4, <2>1, <3>2
  <2> QED BY <2>2, <2>3
<1>9. ShareInv'
  <2>1. ShapeInv'
    BY <1>2, <1>6 DEF ShapeInv
  <2>2. PairInv'
    BY <1>2, <1>4, <1>6, <1>8 DEF PairInv
  <2>3. EclInv'
    BY <1>1, <1>2, <1>6 DEF EclInv
  <2>4. LogInv'
    <3>1. ASSUME NEW t \in op.doomed
          PROVE  /\ Made[t].state # "Active"
                 /\ Made[t].state = "Begin" => Made[t] = B0
      <4>1. \A r \in {NoRow, B0, R0, V0} :
               r.state # "Active" /\ (r.state = "Begin" => r = B0)
        BY DEF NoRow, B0, R0, V0
      <4> QED BY <1>5, <3>1, <4>1 DEF DisposableIn
    <3>2. \A t \in op.doomed : DisposableIn(t, op.doomed)
      BY <1>5
    <3>3. PICK D \in SUBSET Tx : D = op.doomed
      BY <1>4
    <3>4. \A t \in D : DisposableIn(t, D)'
      BY <1>2, <3>2, <3>3 DEF DisposableIn
    <3> QED BY <1>2, <1>4, <3>1, <3>3, <3>4 DEF LogInv
  <2>5. PromisedInv'
    BY <1>1, <1>7 DEF CalmInv, ShareInv, PromisedInv
  <2> QED BY <2>1, <2>2, <2>3, <2>4, <2>5 DEF ShareInv
<1>10. CacheInv'
  <2> SUFFICES ASSUME NEW t \in Tx PROVE (Settled(t) \/ InFlux(t))'
    BY DEF CacheInv
  <2>1. Settled(t) \/ t \in op.doomed
    BY <1>1 DEF CalmInv, CacheInv, InFlux, At
  <2>2. Settled(t) => Settled(t)'
    BY <1>1, <1>2 DEF Settled, Stale, NoFiles
  <2>3. t \in op.doomed => InFlux(t)'
    BY <1>1, <1>3 DEF InFlux, At
  <2> QED BY <2>1, <2>2, <2>3
<1>11. VverInv'
  BY <1>1, <1>3, <1>7 DEF CalmInv, VverInv, At
<1>12. DoomedInv'
  <2>1. \A t \in op.marked : flag[t].state \in {"Active", "Reconned"}
    BY <1>1 DEF CalmInv, DoomedInv, CleanPc
  <2> QED BY <1>1, <1>3, <1>4, <2>1 DEF DoomedInv, At
<1>13. DelLogInv'
  BY <1>1, <1>3 DEF DelLogInv, At
<1>14. JobInv'
  BY <1>1, <1>3, <1>7, CleanJobs DEF CalmInv, CleanPc
<1>15. OpenInv' /\ PurgeInv'
  BY <1>1, <1>2, <1>3, OpenMoves, PurgeMoves
     DEF CalmInv, TypeOK, Types, EngineType
<1>16. LawfulStep
  BY <1>2 DEF LawfulStep
<1> QED
  BY <1>9, <1>10, <1>11, <1>12, <1>13, <1>14, <1>15, <1>16 DEF Rest

(* Files of the delete log are removed one by one.                            *)
LEMMA RemoveCalm ==
    ASSUME TypeOK, CalmInv, CleanRemoveFile
    PROVE  Rest' /\ LawfulStep
<1>1. /\ op \in Job /\ op.kind # "none" /\ op.pc \in {"oldRm", "rm"} /\ KindInv /\ Loaded
      /\ UNCHANGED <<txLog, delLog, flag, vver, promised, seal, open, purge>>
      /\ delLog \subseteq Tx
  BY AtJob, Shapes0 DEF CleanRemoveFile, CleanPc, cache
<1>2. /\ op'.kind = op.kind /\ op'.pc = op.pc /\ op'.tx = op.tx
      /\ op'.target = op.target
      /\ op'.doomed = op.doomed /\ op'.marked = op.marked
  BY <1>1, RemoveDoes
<1>3. /\ op.todo \subseteq delLog
      /\ op.pc = "rm" => delLog = op.doomed
  BY <1>1 DEF CalmInv, DoomedInv, At
<1>4. PICK a \in delLog :
         /\ \A t \in Tx \ {a} : Made'[t] = Made[t] /\ ecl'[t] = ecl[t]
                                /\ flagFile'[t] = flagFile[t]
         /\ \/ /\ op.at = 0 /\ op'.at = a /\ Made'[a] = Made[a]
               /\ op'.todo = op.todo /\ a \in op.todo
            \/ /\ op.at = a /\ op'.at = 0 /\ Gone(a) /\ NoFiles(a)'
               /\ Made'[a] = B0 => txLog[a] = "Begin"
               /\ op'.todo = op.todo \ {a} /\ a \in op.todo
  <2>1. CASE op.at = 0
    <3>1. PICK t \in op.todo : ecl' = [ecl EXCEPT ![t] = NoVersion] /\ op'.at = t
      BY <1>1, <2>1 DEF CleanRemoveFile, Job
    <3>2. t \in delLog /\ t \in Tx /\ flagFile' = flagFile /\ op'.todo = op.todo
      BY <1>1, <1>3, <2>1, <3>1, RemoveDoes DEF CleanRemoveFile
    <3>3. Made' = Made
      BY <1>1, <3>2 DEF Made, Materialize
    <3> QED BY <2>1, <3>1, <3>2, <3>3, Shapes0
  <2>2. CASE op.at # 0
    <3>1. PICK t \in op.todo : t = op.at /\ ecl[t] = NoVersion
      BY <1>1, <2>2 DEF CalmInv, OrphanInv, CleanKnown, CleanPc
    <3>2. /\ flagFile' = [flagFile EXCEPT ![t] = NoFile] /\ ecl' = ecl
          /\ op'.todo = op.todo \ {t} /\ op'.at = 0 /\ t \in Tx /\ t \in delLog
      BY <1>1, <1>3, <2>2, <3>1, RemoveDoes DEF CleanRemoveFile
    <3>3. flagFile'[t] = NoFile /\ \A u \in Tx \ {t} : flagFile'[u] = flagFile[u]
      BY <3>2, Shapes0
    <3>4. \A u \in Tx \ {t} : Made'[u] = Made[u]
      BY <1>1, <3>3, MadePoint
    <3>5. Made'[t] = IF txLog[t] = "Begin" THEN B0 ELSE NoRow
      <4>1. Made'[t] = Materialize(t)'
        BY <3>2 DEF Made
      <4> QED BY <1>1, <3>3, <4>1 DEF Materialize, B0
    <3>6. Made'[t] = B0 => txLog[t] = "Begin"
      BY <3>5 DEF B0, NoRow
    <3> QED BY <3>1, <3>2, <3>3, <3>4, <3>5, <3>6 DEF Gone, NoFiles
  <2> QED BY <2>1, <2>2
<1>5. Torn' /\ a \in Tx
  BY <1>1, <1>2, <1>4, Shapes0 DEF Torn
<1>6. \A t \in Tx : /\ Shape(Made[t])
                    /\ Made'[t] = Made[t] \/ Gone(t)
  BY <1>4 DEF CalmInv, ShareInv, ShapeInv
<1>7. ShareInv' /\ Live' = Live
  <2>1. \A t \in Tx : Shape(Made'[t]) /\ (Alike(t) \/ Gone(t))
    BY <1>6 DEF Alike, Gone, Shape
  <2>2. \A t \in delLog : Made'[t] = Made[t] \/ Gone(t)
    BY <1>1, <1>6
  <2>3. \A t \in Tx \ delLog : ecl'[t] = ecl[t]
    BY <1>4
  <2> QED BY <1>1, <1>5, <2>1, <2>2, <2>3, ShareMoves DEF CalmInv
<1>8. CacheInv'
  <2> SUFFICES ASSUME NEW t \in Tx PROVE (Settled(t) \/ InFlux(t))'
    BY DEF CacheInv
  <2>1. CASE t \in delLog
    BY <1>1, <1>2, <1>3, <2>1 DEF InFlux, At
  <2>2. CASE t \notin delLog
    <3>1. Settled(t) \/ (t \in op.doomed /\ op.pc = "rm")
      BY <1>1, <2>2 DEF CalmInv, CacheInv, InFlux, At
    <3>2. Settled(t)
      BY <1>3, <2>2, <3>1
    <3> QED BY <1>1, <1>4, <2>2, <3>2 DEF Settled, Stale, NoFiles
  <2> QED BY <2>1, <2>2
<1>9. VverInv'
  <2>1. \A t \in Live : ecl'[t] = ecl[t]
    BY <1>4 DEF Live
  <2> QED BY <1>1, <1>2, <1>7, <2>1 DEF CalmInv, VverInv, At
<1>10. DoomedInv'
  <2>1. op'.todo \subseteq delLog
    BY <1>3, <1>4
  <2>2. \A t \in op.marked : flag[t].state \in {"Active", "Reconned"}
    BY <1>1 DEF CalmInv, DoomedInv, CleanPc
  <2>3. CASE op.pc = "rm"
    BY <1>1, <1>2, <1>3, <2>1, <2>2, <2>3 DEF DoomedInv, At
  <2>4. CASE op.pc = "oldRm"
    <3>1. /\ \A t \in delLog :
                \/ flag[t] \in {NoRow, B0, R0}
                \/ t \in op.doomed /\ flag[t].state \in {"Vaulted", "Reconned"}
          /\ \A t \in delLog : flag[t].state = "Begin" => txLog[t] = "Begin"
          /\ \A t \in delLog \ op.todo : NoFiles(t)
          /\ \A t \in op.doomed \ delLog : DisposableIn(t, op.doomed)
      BY <1>1, <2>4 DEF CalmInv, DoomedInv, At
    <3>2. \A t \in delLog \ op'.todo : NoFiles(t)'
      BY <1>1, <1>4, <3>1 DEF NoFiles
    <3>3. PICK D \in SUBSET Tx : D = op.doomed
      BY <1>1 DEF Job
    <3>4. ASSUME NEW t \in D \ delLog PROVE DisposableIn(t, D)'
      <4>1. DisposableIn(t, D) /\ t \in Tx /\ Made'[t] = Made[t]
        BY <1>4, <3>1, <3>3, <3>4
      <4>2. ASSUME NEW d \in D, Made[d] = [state |-> "Reconned", del |-> t]
            PROVE  Made'[d] = Made[d]
        <5>1. d \notin delLog
          BY <3>3, <3>4, <4>1, <4>2 DEF CalmInv, ShareInv, PairInv
        <5> QED BY <1>4, <3>3, <5>1
      <4> QED BY <4>1, <4>2 DEF DisposableIn
    <3> QED BY <1>1, <1>2, <2>1, <2>2, <2>4, <3>1, <3>2, <3>3, <3>4 DEF DoomedInv, At
  <2> QED BY <1>1, <2>3, <2>4
<1>11. DelLogInv'
  BY <1>1, <1>2 DEF DelLogInv, At
<1>12. JobInv'
  BY <1>1, <1>2, <1>7, CleanJobs DEF CalmInv, CleanPc
<1>13. OpenInv'
  <2>1. \A t \in Tx : Made[t] = A0 => t \notin delLog
    BY DEF CalmInv, ShareInv, LogInv, A0
  <2>2. \A t \in Tx : Made[t] = A0 => Made'[t] = A0 /\ ecl'[t] = ecl[t]
    BY <1>4, <2>1
  <2> QED BY <1>1, <2>2, OpenMoves DEF CalmInv
<1>14. PurgeInv'
  <2>1. ASSUME NEW t \in Tx, purge.pc # "idle", t \in purge.txs,
               Made'[t] \notin {Made[t], NoRow}
        PROVE  FALSE
    <3>1. t = a /\ Made'[a] = B0 /\ txLog[a] = "Begin"
      BY <1>4, <2>1 DEF Gone
    <3>2. Made[a].state = "Begin"
      BY <1>5, <3>1 DEF Made, Materialize
    <3> QED BY <2>1, <3>1, <3>2 DEF CalmInv, PurgeInv, NoRow, R0
  <2> QED BY <1>1, <1>2, <2>1, PurgeMoves DEF CalmInv, TypeOK, Types, EngineType
<1>15. LawfulStep
  <2> SUFFICES ASSUME Made'[a] # Made[a]
               PROVE  MayFollow(Made[a], Made'[a]) /\ ecl[a] = NoVersion
    BY <1>4, <1>5 DEF LawfulStep
  <2>1. op.at = a /\ Gone(a) /\ (Made'[a] = B0 => txLog[a] = "Begin")
    BY <1>4
  <2>2. ecl[a] = NoVersion
    BY <1>1, <1>5, <2>1, Shapes0 DEF CalmInv, OrphanInv, CleanKnown, CleanPc
  <2>3. Made[a].state # "Active" /\ (Made[a].state = "Begin" => Made[a] = B0)
    BY DEF CalmInv, ShareInv, LogInv
  <2>4. txLog[a] = "Begin" => Made[a].state = "Begin"
    BY <1>5 DEF Made, Materialize
  <2>5. Made'[a] = NoRow
    BY <2>1, <2>3, <2>4 DEF Gone
  <2> QED BY <2>2, <2>3, <2>5 DEF MayFollow
<1> QED
  BY <1>7, <1>8, <1>9, <1>10, <1>11, <1>12, <1>13, <1>14, <1>15 DEF Rest

(* The delete log is emptied when nothing counts any more of what it lists.   *)
LEMMA DropCalm ==
    ASSUME TypeOK, CalmInv, CleanDropLog
    PROVE  Rest' /\ LawfulStep
<1>1. /\ op \in Job /\ op.kind # "none" /\ op.pc \in {"oldDrop", "drop"} /\ KindInv
      /\ Loaded /\ delLog' = {}
      /\ UNCHANGED <<txLog, flagFile, ecl, flag, vver, promised, seal, open, purge>>
      /\ delLog \subseteq Tx
  BY AtJob, Shapes0 DEF CleanDropLog, CleanPc, cache
<1>2. /\ op'.kind = op.kind /\ op'.tx = op.tx /\ op'.target = op.target
      /\ op'.doomed = op.doomed /\ op'.marked = op.marked
      /\ op'.pc = IF op.pc = "oldDrop" THEN "write" ELSE "commit"
  BY <1>1, GotoDoes DEF CleanDropLog
<1>3. Made' = Made /\ ~Torn /\ ~Torn'
  BY <1>1, <1>2 DEF Made, Materialize, Torn
<1>4. \A t \in delLog : Made[t] \in {NoRow, B0}
  <2>1. CASE op.pc = "oldDrop"
    BY <1>1, <2>1 DEF CalmInv, DoomedInv, At
  <2>2. CASE op.pc = "drop"
    <3>1. \A t \in delLog : NoFiles(t) /\ txLog[t] = "none"
      BY <1>1, <2>2 DEF CalmInv, DoomedInv, OrphanInv, CleanKnown, CleanPc, At
    <3> QED BY <1>1, <3>1, MadeBare DEF NoFiles
  <2> QED BY <1>1, <2>1, <2>2
<1>5. Live' = Live
  BY <1>1, <1>3, <1>4 DEF Live, V0, NoRow, B0
<1>6. ShareInv'
  <2>1. ShapeInv' /\ LogInv'
    BY <1>1, <1>3 DEF CalmInv, ShareInv, ShapeInv, LogInv
  <2>2. PairInv' /\ EclInv'
    BY <1>1, <1>3 DEF CalmInv, ShareInv, PairInv, EclInv, TornAt
  <2>3. PromisedInv'
    BY <1>1, <1>5 DEF CalmInv, ShareInv, PromisedInv
  <2> QED BY <2>1, <2>2, <2>3 DEF ShareInv
<1>7. CacheInv'
  <2> SUFFICES ASSUME NEW t \in Tx PROVE (Settled(t) \/ InFlux(t))'
    BY DEF CacheInv
  <2>1. Settled(t) \/ InFlux(t)
    BY <1>1 DEF CalmInv, CacheInv
  <2>2. Settled(t) => Settled(t)'
    BY <1>1, <1>3 DEF Settled, Stale, NoFiles
  <2>3. InFlux(t) => InFlux(t)'
    <3>1. Stale(t)' <=> Stale(t)
      BY <1>1 DEF Stale, NoFiles
    <3>2. CASE op.pc = "oldDrop"
      BY <1>1, <1>2, <3>1, <3>2 DEF InFlux, At
    <3>3. CASE op.pc = "drop"
      BY <1>1, <1>2, <1>3, <3>3 DEF InFlux, At
    <3> QED BY <1>1, <3>2, <3>3
  <2> QED BY <2>1, <2>2, <2>3
<1>8. VverInv'
  BY <1>1, <1>2, <1>5 DEF CalmInv, VverInv, At
<1>9. DoomedInv'
  <2>1. \A t \in op.marked : flag[t].state \in {"Active", "Reconned"}
    BY <1>1 DEF CalmInv, DoomedInv, CleanPc
  <2>2. CASE op.pc = "oldDrop"
    <3>1. PICK D \in SUBSET Tx : D = op.doomed
      BY <1>1 DEF Job
    <3>2. \A t \in D : DisposableIn(t, D)
      BY <1>1, <2>2, <3>1 DEF CalmInv, DoomedInv, At
    <3>3. \A t \in D : DisposableIn(t, D)'
      BY <1>3, <3>2 DEF DisposableIn
    <3> QED BY <1>1, <1>2, <2>1, <2>2, <3>1, <3>3 DEF DoomedInv, At
  <2>3. CASE op.pc = "drop"
    BY <1>1, <1>2, <2>1, <2>3 DEF DoomedInv, At
  <2> QED BY <1>1, <2>2, <2>3
<1>10. DelLogInv'
  BY <1>1 DEF DelLogInv
<1>11. JobInv'
  BY <1>1, <1>2, <1>5, CleanJobs DEF CalmInv, CleanPc
<1>12. OpenInv' /\ PurgeInv'
  BY <1>1, <1>2, <1>3, OpenMoves, PurgeMoves
     DEF CalmInv, TypeOK, Types, EngineType
<1>13. LawfulStep
  BY <1>3 DEF LawfulStep
<1> QED
  BY <1>5, <1>6, <1>7, <1>8, <1>9, <1>10, <1>11, <1>12, <1>13 DEF Rest

(* What is left after the transactions of an older delete log are gone.       *)
LEMMA DumpOldCalm ==
    ASSUME TypeOK, CalmInv, CleanDump, op.pc = "oldRm"
    PROVE  Rest' /\ LawfulStep
<1>1. /\ op \in Job /\ op.kind # "none" /\ KindInv /\ Loaded
      /\ At("oldRm") /\ op.at = 0 /\ op.todo = {} /\ op.marked = {}
      /\ UNCHANGED <<flagFile, ecl, delLog, flag, vver, promised, seal, open, purge>>
      /\ delLog \subseteq Tx
  BY AtJob, Shapes0 DEF CleanDump, CleanPc, cache, KindInv, At
<1>2. \A t \in Tx : txLog'[t] = flag[t].state
  BY <1>1 DEF CleanDump, Dump
<1>3. /\ op'.kind = op.kind /\ op'.tx = op.tx /\ op'.target = op.target
      /\ op'.doomed = op.doomed /\ op'.marked = {}
      /\ op'.pc = "oldDrop"
  BY <1>1, GotoDoes DEF CleanDump
<1>4. ASSUME NEW t \in Tx, t \notin delLog
      PROVE  Made'[t] = Made[t] /\ Settled(t) /\ Settled(t)'
  <2>1. Settled(t)
    BY <1>1, <1>4 DEF CalmInv, CacheInv, InFlux, At
  <2> QED BY <1>1, <1>2, <2>1, DumpSettled
<1>5. ASSUME NEW t \in delLog
      PROVE  /\ Made'[t] = IF flag[t].state = "Begin" THEN B0 ELSE NoRow
             /\ NoFiles(t)
             /\ \/ flag[t] \in {NoRow, B0, R0}
                \/ t \in op.doomed /\ flag[t].state \in {"Vaulted", "Reconned"}
             /\ flag[t].state = "Begin" => txLog[t] = "Begin"
  <2>1. /\ NoFiles(t)
        /\ \/ flag[t] \in {NoRow, B0, R0}
           \/ t \in op.doomed /\ flag[t].state \in {"Vaulted", "Reconned"}
        /\ flag[t].state = "Begin" => txLog[t] = "Begin"
    BY <1>1 DEF CalmInv, DoomedInv
  <2>2. Made'[t] = Materialize(t)' /\ flagFile'[t] = NoFile /\ t \in Tx
    BY <1>1, <2>1 DEF Made, NoFiles
  <2> QED BY <1>2, <2>1, <2>2 DEF Materialize, B0
<1>6. /\ \A t \in delLog : Gone(t)
      /\ ShareInv' /\ Live' = Live
  <2>1. \A t \in delLog : Gone(t)
    BY <1>5 DEF Gone
  <2>2. \A t \in Tx : Shape(Made'[t]) /\ (Alike(t) \/ Gone(t))
    BY <1>4, <2>1 DEF CalmInv, ShareInv, ShapeInv, Alike, Gone, Shape
  <2> QED BY <1>1, <2>1, <2>2, ShareMoves DEF CalmInv
<1>7. CacheInv'
  <2> SUFFICES ASSUME NEW t \in delLog PROVE (Settled(t) \/ InFlux(t))'
    BY <1>1, <1>4 DEF CacheInv
  <2>1. flag[t].state \in {"Rollback", "Vaulted", "Reconned"} => Stale(t)'
    BY <1>1, <1>2, <1>5 DEF Stale, NoFiles
  <2>2. CASE flag[t] \in {NoRow, B0, R0}
    BY <1>1, <1>5, <2>1, <2>2 DEF Settled, NoRow, B0, R0
  <2>3. CASE t \in op.doomed /\ flag[t].state \in {"Vaulted", "Reconned"}
    BY <1>1, <1>3, <2>1, <2>3 DEF InFlux, At
  <2> QED BY <1>5, <2>2, <2>3
<1>8. VverInv'
  BY <1>1, <1>3, <1>6 DEF CalmInv, VverInv, At
<1>9. DoomedInv'
  <2>1. PICK D \in SUBSET Tx : D = op.doomed
    BY <1>1 DEF Job
  <2>2. ASSUME NEW t \in D PROVE DisposableIn(t, D)'
    <3>1. CASE t \in delLog
      BY <1>6, <3>1 DEF Gone, DisposableIn
    <3>2. CASE t \notin delLog
      <4>1. DisposableIn(t, D) /\ t \in Tx /\ Made'[t] = Made[t]
        BY <1>1, <1>4, <2>1, <2>2, <3>2 DEF CalmInv, DoomedInv
      <4>2. ASSUME NEW d \in D, Made[d] = [state |-> "Reconned", del |-> t]
            PROVE  Made'[d] = Made[d]
        <5>1. d \notin delLog
          BY <2>1, <3>2, <4>1, <4>2 DEF CalmInv, ShareInv, PairInv
        <5> QED BY <1>4, <2>1, <5>1
      <4> QED BY <4>1, <4>2 DEF DisposableIn
    <3> QED BY <3>1, <3>2
  <2>3. \A t \in delLog : NoFiles(t)' /\ Made'[t] \in {NoRow, B0}
    BY <1>1, <1>5 DEF NoFiles
  <2> QED BY <1>1, <1>3, <2>1, <2>2, <2>3 DEF DoomedInv, At
<1>10. DelLogInv'
  BY <1>1, <1>3 DEF DelLogInv, At
<1>11. JobInv'
  BY <1>1, <1>3, <1>6, CleanJobs DEF CalmInv, CleanPc, At
<1>12. OpenInv'
  <2>1. \A t \in Tx : Made[t] = A0 => t \notin delLog
    BY DEF CalmInv, ShareInv, LogInv, A0
  <2>2. \A t \in Tx : Made[t] = A0 => Made'[t] = A0 /\ ecl'[t] = ecl[t]
    BY <1>1, <1>4, <2>1
  <2> QED BY <1>1, <2>2, OpenMoves DEF CalmInv
<1>13. PurgeInv'
  <2>1. ASSUME NEW t \in Tx, purge.pc # "idle", t \in purge.txs,
               Made'[t] \notin {Made[t], NoRow}
        PROVE  FALSE
    <3>1. txLog[t] = "Begin"
      BY <1>4, <1>5, <2>1
    <3>2. Made[t].state = "Begin"
      BY <3>1 DEF Made, Materialize
    <3> QED BY <2>1, <3>2 DEF CalmInv, PurgeInv, NoRow, R0
  <2> QED BY <1>1, <1>3, <2>1, PurgeMoves DEF CalmInv, TypeOK, Types, EngineType
<1>14. LawfulStep
  <2> SUFFICES ASSUME NEW t \in delLog, Made'[t] # Made[t]
               PROVE  MayFollow(Made[t], Made'[t]) /\ ecl[t] = NoVersion
    BY <1>1, <1>4 DEF LawfulStep
  <2>1. Made[t].state # "Active" /\ (Made[t].state = "Begin" => Made[t] = B0)
    BY DEF CalmInv, ShareInv, LogInv
  <2>2. txLog[t] = "Begin" => Made[t].state = "Begin"
    BY <1>1 DEF Made, Materialize
  <2>3. Made'[t] = NoRow /\ NoFiles(t)
    BY <1>5, <2>1, <2>2
  <2> QED BY <2>1, <2>3 DEF MayFollow, NoFiles
<1> QED
  BY <1>6, <1>7, <1>8, <1>9, <1>10, <1>11, <1>12, <1>13, <1>14 DEF Rest

(* A delete becomes Reconned in the log, without a change of its pair.        *)
LEMMA DumpMarked ==
    ASSUME TypeOK, NEW t \in Tx, txLog'[t] = "Reconned", flagFile'[t] = flagFile[t],
           flag[t].state \in {"Active", "Reconned"}, flag[t].del # 0,
           Made[t] = flag[t] \/ Made[t] = [flag[t] EXCEPT !.state = "Reconned"]
    PROVE  /\ Made'[t] = [flag[t] EXCEPT !.state = "Reconned"]
           /\ Made[t].del = flag[t].del /\ Made'[t].del = flag[t].del
           /\ Made'[t] = [state |-> "Reconned", del |-> Made[t].del]
           /\ Made[t].state \in {"Active", "Reconned"}
           /\ Made[t] = [state |-> Made[t].state, del |-> Made[t].del]
<1>1. flag[t] \in Row
  BY Shapes0
<1>2. Made[t].del = flag[t].del /\ Made[t].del # 0
  BY <1>1 DEF Row
<1>3. flagFile[t] = flag[t].del /\ flagFile[t] # NoFile
  BY <1>2 DEF Made, Materialize, NoRow
<1>4. Made'[t] = [state |-> "Reconned", del |-> flag[t].del]
  <2>1. Made'[t] = Materialize(t)'
    BY DEF Made
  <2> QED BY <1>3, <2>1 DEF Materialize
<1>5. Made[t].state \in {"Active", "Reconned"}
  BY <1>1 DEF Row
<1>6. Made[t] = [state |-> Made[t].state, del |-> Made[t].del]
  BY <1>1 DEF Row
<1> QED BY <1>1, <1>2, <1>4, <1>5, <1>6 DEF Row

(* Readers may see that.                                                      *)
LEMMA MarkFollows ==
    ASSUME NEW r, NEW s, r.state \in {"Active", "Reconned"}, r.del # 0,
           s = [state |-> "Reconned", del |-> r.del], r # s,
           r = [state |-> r.state, del |-> r.del]
    PROVE  MayFollow(r, s) /\ s # NoRow
<1>1. r.state = "Active"
  OBVIOUS
<1> QED BY <1>1 DEF MayFollow, DeleteSteps, NoRow

(* What the log says after the files of the doomed transactions are gone.     *)
LEMMA DumpNewCalm ==
    ASSUME TypeOK, CalmInv, CleanDump, op.pc = "rm"
    PROVE  Rest' /\ LawfulStep
<1>1. /\ op \in Job /\ op.kind # "none" /\ KindInv /\ Loaded
      /\ At("rm") /\ op.at = 0 /\ op.todo = {} /\ delLog = op.doomed
      /\ UNCHANGED <<flagFile, ecl, delLog, flag, vver, promised, seal, open, purge>>
      /\ delLog \subseteq Tx
  BY AtJob, Shapes0 DEF CleanDump, CleanPc, cache, At, CalmInv, DoomedInv
<1>2. /\ \A t \in op.marked : flag[t].del # 0 /\ flag[t].state \in {"Active", "Reconned"}
      /\ \A t \in op.doomed : NoFiles(t)
      /\ op.marked \cap op.doomed = {} /\ op.marked \subseteq Tx
  BY <1>1 DEF CalmInv, OrphanInv, CleanKnown, DoomedInv, CleanPc, Job
<1>3. \A t \in Tx : txLog'[t] = Pending[t].state
  BY <1>1 DEF CleanDump, Dump
<1>4. /\ op'.kind = op.kind /\ op'.tx = op.tx /\ op'.target = op.target
      /\ op'.doomed = op.doomed /\ op'.marked = op.marked
      /\ op'.pc = "drop"
  BY <1>1, GotoDoes DEF CleanDump
<1>5. ASSUME NEW t \in Tx, t \notin op.doomed PROVE Settled(t)
  BY <1>1, <1>5 DEF CalmInv, CacheInv, InFlux, At
<1>6. ASSUME NEW t \in Tx, t \notin op.doomed, t \notin op.marked
      PROVE  Made'[t] = Made[t] /\ Settled(t)'
  <2>1. txLog'[t] = flag[t].state
    BY <1>3, <1>6 DEF Pending
  <2> QED BY <1>1, <1>5, <1>6, <2>1, DumpSettled
<1>7. ASSUME NEW t \in op.marked
      PROVE  /\ Made'[t] = [flag[t] EXCEPT !.state = "Reconned"]
             /\ Made'[t] = [state |-> "Reconned", del |-> Made[t].del]
             /\ Made[t].del # 0 /\ Made[t].state \in {"Active", "Reconned"}
             /\ Made[t] = [state |-> Made[t].state, del |-> Made[t].del]
  <2>1. t \in Tx /\ t \notin op.doomed /\ flag[t] \in Row
    BY <1>2, Shapes0
  <2>2. txLog'[t] = "Reconned"
    BY <1>3, <1>7, <2>1 DEF Pending, Row
  <2>3. Made[t] = flag[t]
    BY <1>2, <1>5, <2>1, SettledRow DEF R0
  <2> QED BY <1>1, <1>2, <2>1, <2>2, <2>3, DumpMarked
<1>8. \A t \in op.marked :
          /\ Made'[t].state = "Reconned" /\ Made'[t].del = Made[t].del
          /\ Made[t].del # 0 /\ Made[t] \notin {A0, V0} /\ Made'[t] # V0
  <2> SUFFICES ASSUME NEW t \in op.marked
               PROVE  /\ Made'[t].state = "Reconned" /\ Made'[t].del = Made[t].del
                      /\ Made[t].del # 0 /\ Made[t] \notin {A0, V0} /\ Made'[t] # V0
    OBVIOUS
  <2>1. Made'[t] = [state |-> "Reconned", del |-> Made[t].del] /\ Made[t].del # 0
    BY <1>7
  <2> QED BY <2>1 DEF A0, V0
<1>9. ASSUME NEW t \in op.doomed PROVE Made'[t] = NoRow
  <2>1. t \in Tx /\ t \notin op.marked /\ txLog'[t] = "none"
    BY <1>1, <1>2, <1>3 DEF Pending, NoRow
  <2> QED BY <2>1 DEF Made, Materialize
<1>10. ShareInv' /\ Live' = Live
  <2>1. \A t \in delLog : Gone(t)
    BY <1>1, <1>9 DEF Gone
  <2>2. ASSUME NEW t \in Tx, t \notin op.doomed
        PROVE  Shape(Made'[t]) /\ Alike(t)
    <3>1. CASE t \in op.marked
      BY <1>8, <3>1 DEF Shape, Alike
    <3>2. CASE t \notin op.marked
      BY <1>6, <2>2, <3>2 DEF CalmInv, ShareInv, ShapeInv, Alike
    <3> QED BY <3>1, <3>2
  <2>3. \A t \in Tx : Shape(Made'[t]) /\ (Alike(t) \/ Gone(t))
    BY <1>1, <1>9, <2>1, <2>2 DEF Shape
  <2> QED BY <1>1, <2>1, <2>3, ShareMoves DEF CalmInv
<1>11. CacheInv'
  <2> SUFFICES ASSUME NEW t \in Tx PROVE (Settled(t) \/ InFlux(t))'
    BY DEF CacheInv
  <2>1. CASE t \in op.doomed
    BY <1>1, <1>4, <2>1 DEF InFlux, At
  <2>2. CASE t \in op.marked
    BY <1>1, <1>4, <1>7, <2>2 DEF InFlux, At
  <2> QED BY <1>6, <2>1, <2>2
<1>12. VverInv'
  BY <1>1, <1>4, <1>10 DEF CalmInv, VverInv, At
<1>13. DoomedInv'
  BY <1>1, <1>2, <1>4 DEF DoomedInv, At
<1>14. DelLogInv'
  BY <1>1, <1>4 DEF DelLogInv, At
<1>15. JobInv'
  BY <1>1, <1>4, <1>10, CleanJobs DEF CalmInv, CleanPc, At
<1>16. OpenInv'
  <2>1. \A t \in Tx : Made[t] = A0 => t \notin delLog
    BY DEF CalmInv, ShareInv, LogInv, A0
  <2>2. \A t \in Tx : Made[t] = A0 => t \notin op.marked
    BY <1>8
  <2>3. \A t \in Tx : Made[t] = A0 => Made'[t] = A0 /\ ecl'[t] = ecl[t]
    BY <1>1, <1>6, <2>1, <2>2
  <2> QED BY <1>1, <2>3, OpenMoves DEF CalmInv, At
<1>17. PurgeInv'
  <2>1. \A t \in Tx : \/ Made'[t] \in {Made[t], NoRow}
                      \/ Made'[t].state \in {"Active", "Reconned"} /\ Made'[t].del # 0
    BY <1>6, <1>9, <1>8
  <2> QED BY <1>1, <1>4, <2>1, PurgeMoves DEF CalmInv, TypeOK, Types, EngineType
<1>18. LawfulStep
  <2> SUFFICES ASSUME NEW t \in Tx, Made'[t] # Made[t]
               PROVE  /\ MayFollow(Made[t], Made'[t])
                      /\ Made'[t] = NoRow => ecl[t] = NoVersion
    BY DEF LawfulStep
  <2>1. CASE t \in op.doomed
    <3>1. Made[t].state # "Active"
      BY <1>1, <2>1 DEF CalmInv, ShareInv, LogInv
    <3> QED BY <1>2, <1>9, <2>1, <3>1 DEF MayFollow, NoFiles
  <2>2. CASE t \in op.marked
    <3>1. PICK r, s : r = Made[t] /\ s = Made'[t] /\ r # s
      OBVIOUS
    <3>2. /\ r.state \in {"Active", "Reconned"} /\ r.del # 0
          /\ s = [state |-> "Reconned", del |-> r.del]
          /\ r = [state |-> r.state, del |-> r.del]
      BY <1>7, <2>2, <3>1
    <3>3. MayFollow(r, s) /\ s # NoRow
      BY <3>1, <3>2, MarkFollows
    <3> QED BY <3>1, <3>3
  <2> QED BY <1>6, <2>1, <2>2
<1> QED
  BY <1>10, <1>11, <1>12, <1>13, <1>14, <1>15, <1>16, <1>17, <1>18 DEF Rest

(* The cache follows, and a purge dumps the log again.                        *)
LEMMA CommitCalm ==
    ASSUME TypeOK, CalmInv, CleanCommit
    PROVE  Rest' /\ LawfulStep
<1>1. /\ op \in Job /\ op.kind # "none" /\ KindInv /\ Loaded
      /\ At("commit") /\ op.pc = "commit" /\ delLog = {}
      /\ UNCHANGED <<flagFile, ecl, delLog, promised, seal, open, purge>>
  BY AtJob, Shapes0 DEF CleanCommit, CleanPc, cache, At
<1>2. /\ \A t \in op.marked : flag[t].del # 0 /\ flag[t].state \in {"Active", "Reconned"}
      /\ \A t \in op.doomed : NoFiles(t) /\ txLog[t] = "none"
      /\ op.marked \cap op.doomed = {} /\ op.marked \subseteq Tx
      /\ op.doomed \subseteq Tx
  BY <1>1 DEF CalmInv, OrphanInv, CleanKnown, DoomedInv, CleanPc, Job
<1>3. /\ op'.kind = op.kind /\ op'.tx = op.tx /\ op'.target = op.target
      /\ op'.doomed = {} /\ op'.marked = {}
      /\ op'.pc = "clean" \/ op'.pc = op.ret
      /\ op'.pc \notin FluxPc
  BY <1>1, CommitDoes DEF KindInv, CleanPc, FluxPc
<1>4. /\ \A t \in Tx : flag'[t] = Pending[t]
      /\ \A t \in Tx : vver'[t] = IF t \in op.doomed THEN NoVersion ELSE vver[t]
      /\ \/ \A t \in Tx : txLog'[t] = Pending[t].state
         \/ txLog' = txLog /\ op.marked = {}
  BY <1>1 DEF CleanCommit, Dump, KindInv
<1>5. ASSUME NEW t \in Tx, t \notin op.doomed, t \notin op.marked
      PROVE  Made'[t] = Made[t] /\ Settled(t)'
  <2>1. Settled(t) /\ flag'[t] = flag[t]
    BY <1>1, <1>4, <1>5 DEF CalmInv, CacheInv, InFlux, At, Pending
  <2>2. CASE txLog'[t] = flag[t].state
    BY <1>1, <2>1, <2>2, DumpSettled
  <2>3. CASE txLog'[t] = txLog[t]
    BY <1>1, <2>1, <2>3, MadePoint DEF Settled, Stale, NoFiles
  <2> QED BY <1>4, <1>5, <2>2, <2>3 DEF Pending
<1>6. ASSUME NEW t \in op.marked
      PROVE  /\ Made'[t] = flag'[t]
             /\ Made'[t] = [state |-> "Reconned", del |-> Made[t].del]
             /\ Made[t].del # 0 /\ Made[t].state \in {"Active", "Reconned"}
             /\ Made[t] = [state |-> Made[t].state, del |-> Made[t].del]
  <2>1. t \in Tx /\ t \notin op.doomed /\ flag[t] \in Row
    BY <1>2, Shapes0
  <2>2. /\ txLog'[t] = "Reconned"
        /\ flag'[t] = [flag[t] EXCEPT !.state = "Reconned"]
    BY <1>4, <1>6, <2>1 DEF Pending, Row
  <2>3. \/ Settled(t)
        \/ Made[t] = [flag[t] EXCEPT !.state = "Reconned"]
    BY <1>1, <2>1 DEF CalmInv, CacheInv, InFlux, At
  <2>4. Made[t] = flag[t] \/ Made[t] = [flag[t] EXCEPT !.state = "Reconned"]
    BY <1>2, <2>1, <2>3, SettledRow DEF R0
  <2> QED BY <1>1, <1>2, <2>1, <2>2, <2>4, DumpMarked
<1>7. \A t \in op.marked :
          /\ Made'[t].state = "Reconned" /\ Made'[t].del = Made[t].del
          /\ Made[t].del # 0 /\ Made[t] \notin {A0, V0} /\ Made'[t] # V0
  <2> SUFFICES ASSUME NEW t \in op.marked
               PROVE  /\ Made'[t].state = "Reconned" /\ Made'[t].del = Made[t].del
                      /\ Made[t].del # 0 /\ Made[t] \notin {A0, V0} /\ Made'[t] # V0
    OBVIOUS
  <2>1. Made'[t] = [state |-> "Reconned", del |-> Made[t].del] /\ Made[t].del # 0
    BY <1>6
  <2> QED BY <2>1 DEF A0, V0
<1>8. ASSUME NEW t \in op.doomed
      PROVE  Made'[t] = NoRow /\ Made[t] = NoRow /\ flag'[t] = NoRow
  <2>1. t \in Tx /\ t \notin op.marked
    BY <1>2
  <2>2. flag'[t] = NoRow /\ txLog'[t] = "none" /\ txLog[t] = "none"
    BY <1>2, <1>4, <2>1 DEF Pending, NoRow
  <2> QED BY <2>1, <2>2 DEF Made, Materialize
<1>9. ASSUME NEW t \in Tx
      PROVE  Shape(Made'[t]) /\ Alike(t)
  <2>1. CASE t \in op.marked
    BY <1>7, <2>1 DEF Shape, Alike
  <2>2. CASE t \in op.doomed
    BY <1>8, <2>2 DEF Shape, Alike
  <2>3. CASE t \notin op.marked /\ t \notin op.doomed
    BY <1>5, <2>3 DEF CalmInv, ShareInv, ShapeInv, Alike
  <2> QED BY <2>1, <2>2, <2>3
<1>10. ShareInv' /\ Live' = Live
  BY <1>1, <1>9, ShareMoves DEF CalmInv
<1>11. CacheInv'
  <2>1. \A t \in Tx : Settled(t)'
    BY <1>5, <1>6, <1>8 DEF Settled
  <2> QED BY <2>1 DEF CacheInv
<1>12. VverInv'
  <2>1. \A t \in op.doomed : t \notin Live
    BY <1>8 DEF Live, NoRow, V0
  <2>2. op.pc # "delLog" /\ op'.pc # "delLog"
    BY <1>1, <1>3 DEF FluxPc
  <2> QED BY <1>1, <1>4, <1>10, <2>1, <2>2 DEF CalmInv, VverInv, At
<1>13. DoomedInv'
  BY <1>3 DEF DoomedInv, At, FluxPc, CleanPc
<1>14. DelLogInv'
  BY <1>1 DEF DelLogInv
<1>15. JobInv'
  BY <1>1, <1>3, <1>10, CleanJobs DEF CalmInv, CleanPc, At
<1>16. OpenInv'
  <2>1. \A t \in Tx : Made[t] = A0 => Made'[t] = A0 /\ ecl'[t] = ecl[t]
    BY <1>1, <1>5, <1>8, <1>7 DEF A0, NoRow
  <2> QED BY <1>1, <2>1, OpenMoves DEF CalmInv, At
<1>17. PurgeInv'
  <2>1. \A t \in Tx : \/ Made'[t] \in {Made[t], NoRow}
                      \/ Made'[t].state \in {"Active", "Reconned"} /\ Made'[t].del # 0
    BY <1>5, <1>8, <1>7
  <2> QED BY <1>1, <1>3, <2>1, PurgeMoves DEF CalmInv, TypeOK, Types, EngineType
<1>18. LawfulStep
  <2> SUFFICES ASSUME NEW t \in Tx, Made'[t] # Made[t]
               PROVE  /\ MayFollow(Made[t], Made'[t])
                      /\ Made'[t] = NoRow => ecl[t] = NoVersion
    BY DEF LawfulStep
  <2>1. CASE t \in op.marked
    <3>1. PICK r, s : r = Made[t] /\ s = Made'[t] /\ r # s
      OBVIOUS
    <3>2. /\ r.state \in {"Active", "Reconned"} /\ r.del # 0
          /\ s = [state |-> "Reconned", del |-> r.del]
          /\ r = [state |-> r.state, del |-> r.del]
      BY <1>6, <2>1, <3>1
    <3>3. MayFollow(r, s) /\ s # NoRow
      BY <3>1, <3>2, MarkFollows
    <3> QED BY <3>1, <3>3
  <2> QED BY <1>5, <1>8, <2>1
<1> QED
  BY <1>10, <1>11, <1>12, <1>13, <1>14, <1>15, <1>16, <1>17, <1>18 DEF Rest

----------------------------------------------------------------------------
(* The steps that change the share: a transaction is begun                    *)

(* A job that is past its cleanup writes to its own transaction only.         *)
LEMMA OwnShare ==
    ASSUME TypeOK, ShareInv, delLog = {}, delLog' = {}, promised' = promised,
           NEW x \in Tx, \A t \in Tx \ {x} : Made'[t] = Made[t] /\ ecl'[t] = ecl[t],
           Shape(Made'[x]), Alike(x), Made[x] # V0
    PROVE  ShareInv' /\ Live' = Live
<1>1. \A t \in Tx : Made[t] = V0 => ecl'[t] = ecl[t]
  OBVIOUS
<1>2. \A t \in Tx : Shape(Made'[t]) /\ Alike(t)
  BY DEF ShareInv, ShapeInv, Alike
<1> QED BY <1>1, <1>2, ShareMoves

(* The numbers of a new transaction.                                          *)
LEMMA CreateCalm ==
    ASSUME TypeOK, CalmInv, CreateTxBegin
    PROVE  Rest' /\ LawfulStep
<1>1. /\ op \in Job /\ op.kind # "none" /\ KindInv /\ Loaded
      /\ op.pc = "begin" /\ delLog = {} /\ \A t \in Tx : Settled(t)
      /\ UNCHANGED <<flagFile, ecl, delLog, vver, promised, seal, open, purge>>
      /\ 0 \notin Tx /\ Tx \subseteq Int
  BY AtJob, Shapes0 DEF CreateTxBegin, CleanPc, FluxPc
<1>2. PICK x \in Tx : x = NextTx
  BY DEF CreateTxBegin
<1>3. /\ op'.kind = op.kind /\ op'.tx = x /\ op'.target = op.target
      /\ op'.pc = IF op.kind = "vault" THEN "delta" ELSE "decr"
      /\ op.kind \in {"vault", "delete"} /\ op'.pc \notin FluxPc
  BY <1>1, <1>2, CreateDoes DEF KindInv, FluxPc, CleanPc
<1>4. /\ flag' = [flag EXCEPT ![x] = B0]
      /\ \A t \in Tx : txLog'[t] = flag'[t].state
  BY <1>2 DEF CreateTxBegin, B0, Dump
<1>5. /\ flag[x] = NoRow /\ NoFiles(x) /\ Made[x] = NoRow
      /\ \A t \in Tx : t >= x => flag[t] = NoRow
  <2>1. \A t \in Tx : t >= x => flag[t] = NoRow /\ NoFiles(t)
    BY <1>1, <1>2, FreshTx DEF CalmInv, OrphanInv
  <2> QED BY <1>1, <2>1, SettledRow DEF R0, NoRow
<1>6. flag'[x] = B0 /\ Made'[x] = B0
  <2>1. flag'[x] = B0 /\ txLog'[x] = "Begin" /\ flagFile'[x] = NoFile
    BY <1>1, <1>4, <1>5, Shapes0 DEF B0, NoFiles
  <2> QED BY <2>1 DEF Made, Materialize, B0
<1>7. \A t \in Tx \ {x} : Made'[t] = Made[t] /\ Settled(t)' /\ flag'[t] = flag[t]
  <2> SUFFICES ASSUME NEW t \in Tx \ {x}
               PROVE  Made'[t] = Made[t] /\ Settled(t)' /\ flag'[t] = flag[t]
    OBVIOUS
  <2>1. flag'[t] = flag[t]
    BY <1>4, Shapes0
  <2> QED BY <1>1, <1>4, <2>1, DumpSettled
<1>8. ShareInv' /\ Live' = Live
  BY <1>1, <1>5, <1>6, <1>7, OwnShare
     DEF CalmInv, Shape, Alike, NoRow, B0, V0
<1>9. CacheInv'
  <2>1. \A t \in Tx : Settled(t)'
    BY <1>6, <1>7 DEF Settled
  <2> QED BY <2>1 DEF CacheInv
<1>10. VverInv'
  BY <1>1, <1>3, <1>8 DEF CalmInv, VverInv, At, FluxPc
<1>11. DoomedInv' /\ DelLogInv'
  BY <1>1, <1>3 DEF DoomedInv, DelLogInv, At, FluxPc, CleanPc
<1>12. JobInv'
  <2>1. open[x].phase = "none"
    BY <1>5 DEF CalmInv, OpenInv, NoRow, A0, V0
  <2>2. CASE op.kind = "vault"
    <3>1. op'.kind = "vault" /\ op'.pc = "delta" /\ op'.tx = x
      BY <1>3, <2>2
    <3>2. flagFile'[x] = NoFile /\ ecl'[x] = NoVersion /\ open'[x].phase = "none"
      BY <1>1, <1>5, <2>1 DEF NoFiles
    <3> QED BY <1>6, <3>1, <3>2 DEF JobInv, VaultJob, NoFiles
  <2>3. CASE op.kind = "delete"
    <3>1. op.target \in Live
      <4>1. DeleteJob
        BY <2>3 DEF CalmInv, JobInv
      <4> QED BY <1>1, <4>1 DEF DeleteJob
    <3>2. PICK y \in Tx : y = op.target /\ Made[y] = V0
      BY <3>1 DEF Live
    <3>3. op.target < x
      <4>1. flag[y] # NoRow
        BY <1>1, <3>2, SettledRow DEF V0, NoRow
      <4>2. y >= x => flag[y] = NoRow
        BY <1>5
      <4>3. x \in Int /\ y \in Int
        BY <1>1
      <4> QED BY <3>2, <4>1, <4>2, <4>3
    <3>4. /\ op'.kind = "delete" /\ op'.pc = "decr" /\ op'.tx = x
          /\ op'.target = op.target
      BY <1>3, <2>3
    <3>5. flagFile'[x] = NoFile /\ open'[x].phase = "none"
      BY <1>1, <1>5, <2>1 DEF NoFiles
    <3> QED BY <1>6, <1>8, <3>1, <3>3, <3>4, <3>5 DEF JobInv, DeleteJob, CleanPc
  <2> QED BY <1>3, <2>2, <2>3
<1>13. OpenInv'
  <2>1. Made[x] # A0
    BY <1>5 DEF A0, NoRow
  <2>2. \A t \in Tx : Made[t] = A0 => Made'[t] = A0 /\ ecl'[t] = ecl[t]
    BY <1>1, <1>7, <2>1
  <2> QED BY <1>1, <2>2, OpenMoves DEF CalmInv
<1>14. PurgeInv'
  <2>1. purge.pc = "idle" /\ purge' = purge
    BY <1>1, <1>3 DEF CalmInv, PurgeInv
  <2> QED BY <2>1 DEF PurgeInv
<1>15. LawfulStep
  <2>1. \A t \in Tx : Made'[t] # Made[t] => Made[t] = NoRow /\ Made'[t] = B0
    BY <1>5, <1>6, <1>7
  <2> QED BY <2>1 DEF LawfulStep, MayFollow, NoRow, B0
<1> QED
  BY <1>8, <1>9, <1>10, <1>11, <1>12, <1>13, <1>14, <1>15 DEF Rest

(* The ECL of a vault, or of the version that a delete forgets.               *)
LEMMA PutCalm ==
    ASSUME TypeOK, CalmInv, PutEcl
    PROVE  Rest' /\ LawfulStep
<1>1. /\ op \in Job /\ op.kind # "none" /\ KindInv /\ Loaded
      /\ op.pc = "putEcl" /\ delLog = {} /\ \A t \in Tx : Settled(t)
      /\ UNCHANGED <<txLog, flagFile, delLog, flag, vver, promised, seal, open, purge>>
      /\ 0 \notin Tx /\ Tx \subseteq Int
  BY AtJob, Shapes0 DEF PutEcl, CleanPc, FluxPc, cache
<1>2. /\ op'.kind = op.kind /\ op'.tx = op.tx /\ op'.target = op.target
      /\ op'.ver = op.ver
      /\ op'.pc = IF op.kind = "vault" THEN "seal" ELSE "delFlags"
      /\ op.kind \in {"vault", "delete"} /\ op'.pc \notin FluxPc
  BY <1>1, GotoDoes DEF PutEcl, KindInv, FluxPc, CleanPc
<1>3. PICK x \in Tx : x = op.tx
  BY <1>1, <1>2 DEF CalmInv, OrphanInv, JobKnown, Began, Flagged
<1>4. /\ Made[x] = IF op.kind = "vault" THEN A0 ELSE B0
      /\ open[x].phase = "none"
      /\ op.kind = "delete" =>
            /\ op.target \in Live /\ op.target < x /\ op.ver = ecl[op.target]
            /\ flagFile[x] = NoFile
  BY <1>1, <1>2, <1>3 DEF CalmInv, JobInv, VaultJob, DeleteJob
<1>5. Made' = Made /\ ecl'[x] = op.ver /\ \A t \in Tx \ {x} : ecl'[t] = ecl[t]
  BY <1>1, <1>3, Shapes0 DEF Made, Materialize, PutEcl
<1>6. ShareInv' /\ Live' = Live /\ x \notin Live
  <2>1. Made[x] # V0 /\ Shape(Made[x])
    BY <1>4 DEF A0, B0, V0, Shape
  <2>2. Alike(x)
    BY <1>5 DEF Alike
  <2>3. ShareInv' /\ Live' = Live
    BY <1>1, <1>5, <2>1, <2>2, OwnShare DEF CalmInv
  <2> QED BY <2>1, <2>3 DEF Live
<1>7. CacheInv'
  <2>1. \A t \in Tx \ {x} : Settled(t)'
    BY <1>1, <1>5 DEF Settled, Stale, NoFiles
  <2>2. flag[x] = Made[x]
    BY <1>1, <1>4, SettledRow DEF A0, B0, NoRow
  <2>3. Settled(x)'
    BY <1>1, <1>5, <2>2 DEF Settled
  <2> QED BY <2>1, <2>3 DEF CacheInv
<1>8. VverInv'
  <2>1. \A t \in Live : ecl'[t] = ecl[t]
    BY <1>5, <1>6 DEF Live
  <2> QED BY <1>1, <1>2, <1>6, <2>1 DEF CalmInv, VverInv, At, FluxPc
<1>9. DoomedInv' /\ DelLogInv'
  BY <1>1, <1>2 DEF DoomedInv, DelLogInv, At, FluxPc, CleanPc
<1>10. JobInv'
  <2>1. CASE op.kind = "vault"
    BY <1>1, <1>2, <1>3, <1>4, <1>5, <2>1 DEF JobInv, VaultJob
  <2>2. CASE op.kind = "delete"
    <3>1. ecl'[op.target] = ecl[op.target]
      BY <1>4, <1>5, <1>6, <2>2 DEF Live
    <3> QED BY <1>1, <1>2, <1>3, <1>4, <1>5, <1>6, <2>2, <3>1 DEF JobInv, DeleteJob
  <2> QED BY <1>2, <2>1, <2>2
<1>11. OpenInv'
  BY <1>1, <1>4, <1>5, OpenMoves DEF CalmInv
<1>12. PurgeInv'
  <2>1. purge.pc = "idle" /\ purge' = purge
    BY <1>1, <1>2 DEF CalmInv, PurgeInv
  <2> QED BY <2>1 DEF PurgeInv
<1>13. LawfulStep
  BY <1>5 DEF LawfulStep
<1> QED
  BY <1>6, <1>7, <1>8, <1>9, <1>10, <1>11, <1>12, <1>13 DEF Rest

(* The .flags file of a vault, and then its state.                            *)
LEMMA BeginCalm ==
    ASSUME TypeOK, CalmInv, CommitBeginFlags \/ CommitBeginLog
    PROVE  Rest' /\ LawfulStep
<1>1. /\ op \in Job /\ op.kind = "vault" /\ KindInv /\ Loaded
      /\ op.pc \in {"beginFlags", "beginLog"}
      /\ delLog = {} /\ \A t \in Tx : Settled(t)
      /\ UNCHANGED <<ecl, delLog, vver, promised, seal, open, purge>>
      /\ 0 \notin Tx /\ Tx \subseteq Int
  BY AtJob, Shapes0 DEF CommitBeginFlags, CommitBeginLog, CleanPc, FluxPc, cache,
     KindInv
<1>2. /\ op'.kind = op.kind /\ op'.tx = op.tx /\ op'.target = op.target
      /\ op'.pc = IF op.pc = "beginFlags" THEN "beginLog" ELSE "putEcl"
      /\ op'.pc \notin FluxPc
  <2>1. /\ CommitBeginFlags => op.pc = "beginFlags" /\ Goto("beginLog")
        /\ CommitBeginLog => op.pc = "beginLog" /\ Goto("putEcl")
    BY DEF CommitBeginFlags, CommitBeginLog, At
  <2>2. /\ op'.kind = op.kind /\ op'.tx = op.tx /\ op'.target = op.target
        /\ op'.pc = IF op.pc = "beginFlags" THEN "beginLog" ELSE "putEcl"
    BY <1>1, <2>1, GotoDoes
  <2> QED BY <1>1, <2>2 DEF FluxPc, CleanPc
<1>3. PICK x \in Tx : /\ x = op.tx /\ flag[x] = B0 /\ Made[x] = B0
                      /\ txLog[x] = "Begin" /\ open[x].phase = "none"
                      /\ op.pc = "beginFlags" => NoFiles(x)
                      /\ op.pc = "beginLog" => flagFile[x] = 0
  BY <1>1 DEF CalmInv, OrphanInv, JobKnown, Began, Flagged, JobInv, VaultJob
<1>4. /\ Made'[x] = flag'[x] /\ Made'[x] \in {B0, A0}
      /\ op.pc = "beginFlags" => Made'[x] = B0 /\ flagFile'[x] = 0
      /\ op.pc = "beginLog" => Made'[x] = A0
      /\ \A t \in Tx \ {x} : /\ flag'[t] = flag[t] /\ flagFile'[t] = flagFile[t]
                             /\ Made'[t] = Made[t] /\ Settled(t)'
  <2>1. CASE CommitBeginFlags
    <3>1. /\ op.pc = "beginFlags" /\ UNCHANGED <<txLog, flag>>
          /\ flagFile'[x] = 0
          /\ \A t \in Tx \ {x} : flagFile'[t] = flagFile[t]
      BY <1>3, <2>1, Shapes0 DEF CommitBeginFlags, At, cache
    <3>2. Made'[x] = B0
      BY <1>3, <3>1, Shapes0 DEF Made, Materialize, B0
    <3>3. \A t \in Tx \ {x} : Made'[t] = Made[t]
      BY <3>1, MadePoint
    <3>4. \A t \in Tx \ {x} : Settled(t)'
      BY <1>1, <3>1, <3>3 DEF Settled, Stale, NoFiles
    <3> QED BY <1>3, <3>1, <3>2, <3>3, <3>4
  <2>2. CASE CommitBeginLog
    <3>1. /\ op.pc = "beginLog" /\ flagFile' = flagFile
          /\ flag' = [flag EXCEPT ![x].state = "Active"]
          /\ \A t \in Tx : txLog'[t] = flag'[t].state
      BY <1>3, <2>2 DEF CommitBeginLog, At, Dump
    <3>2. flag'[x] = A0 /\ \A t \in Tx \ {x} : flag'[t] = flag[t]
      BY <1>3, <3>1, Shapes0 DEF A0, B0
    <3>3. Made'[x] = A0
      <4>1. txLog'[x] = "Active" /\ flagFile'[x] = 0
        BY <1>3, <3>1, <3>2 DEF A0
      <4> QED BY <4>1 DEF Made, Materialize, A0, NoFile
    <3>4. \A t \in Tx \ {x} : Made'[t] = Made[t] /\ Settled(t)'
      BY <1>1, <3>1, <3>2, DumpSettled
    <3> QED BY <3>1, <3>2, <3>3, <3>4
  <2> QED BY <2>1, <2>2
<1>5. ShareInv' /\ Live' = Live
  <2>1. /\ Made[x] # V0 /\ Made'[x] # V0 /\ Shape(Made'[x])
        /\ Made'[x].del = Made[x].del
    BY <1>3, <1>4 DEF A0, B0, V0, Shape
  <2> QED BY <1>1, <1>4, <2>1, OwnShare DEF CalmInv, Alike
<1>6. CacheInv'
  BY <1>4 DEF CacheInv, Settled
<1>7. VverInv'
  BY <1>1, <1>2, <1>5 DEF CalmInv, VverInv, At, FluxPc
<1>8. DoomedInv' /\ DelLogInv'
  BY <1>1, <1>2 DEF DoomedInv, DelLogInv, At, FluxPc, CleanPc
<1>9. JobInv'
  BY <1>1, <1>2, <1>3, <1>4 DEF JobInv, VaultJob
<1>10. OpenInv'
  BY <1>1, <1>3, <1>4, OpenMoves DEF CalmInv
<1>11. PurgeInv'
  <2>1. purge.pc = "idle" /\ purge' = purge
    BY <1>1, <1>2 DEF CalmInv, PurgeInv
  <2> QED BY <2>1 DEF PurgeInv
<1>12. LawfulStep
  <2>1. \A t \in Tx : Made'[t] # Made[t] => Made[t] = B0 /\ Made'[t] = A0
    BY <1>3, <1>4
  <2>2. MayFollow(B0, A0) /\ A0 # NoRow
    BY DEF MayFollow, VaultSteps, NoRow, A0, B0
  <2> QED BY <2>1, <2>2 DEF LawfulStep
<1> QED
  BY <1>5, <1>6, <1>7, <1>8, <1>9, <1>10, <1>11, <1>12 DEF Rest

----------------------------------------------------------------------------
(* The steps that change the share: a vault or a delete ends                  *)

(* A job that gives up has done nothing.                                      *)
LEMMA GiveUpCalm ==
    ASSUME TypeOK, CalmInv, UNCHANGED files, seal' = seal, purge' = purge,
           op' = NoOp, delLog = {},
           \A t \in Tx : Settled(t), op.pc # "delLog",
           \A t \in Tx : open'[t].phase = "none" \/ (open'[t] = open[t] /\ Made[t] = A0)
    PROVE  Rest' /\ LawfulStep
<1>1. Made' = Made /\ ~Torn' /\ delLog' = {}
  BY DEF files, Made, Materialize, Torn, NoOp
<1>2. Live' = Live
  BY <1>1 DEF Live
<1>3. ShareInv'
  <2>1. Torn' \/ \A t \in delLog : Gone(t)
    OBVIOUS
  <2>2. \A t \in Tx : Shape(Made'[t]) /\ Alike(t)
    BY <1>1 DEF CalmInv, ShareInv, ShapeInv, Alike
  <2> QED BY <2>1, <2>2, ShareMoves DEF CalmInv, files
<1>4. CacheInv'
  BY <1>1 DEF CacheInv, Settled, Stale, NoFiles, files
<1>5. VverInv'
  <2>1. Loaded' => Loaded
    <3>1. VaultOpen' => VaultOpen
      BY DEF VaultOpen
    <3>2. Loaded' => VaultOpen' \/ ~seal'.unsync
      BY DEF Loaded, NoOp
    <3>3. ~seal'.unsync => Loaded
      BY DEF Loaded
    <3>4. VaultOpen => Loaded
      BY DEF Loaded
    <3> QED BY <3>1, <3>2, <3>3, <3>4
  <2> QED BY <1>2, <2>1 DEF CalmInv, VverInv, At, NoOp, files
<1>6. DoomedInv' /\ DelLogInv' /\ JobInv'
  BY <1>1 DEF DoomedInv, DelLogInv, JobInv, At, NoOp
<1>7. OpenInv'
  BY <1>1 DEF CalmInv, OpenInv, files
<1>8. PurgeInv'
  <2>1. VaultOpen' => VaultOpen
    BY DEF VaultOpen
  <2> QED BY <1>1, <2>1 DEF CalmInv, PurgeInv, NoOp
<1>9. LawfulStep
  BY <1>1 DEF LawfulStep
<1> QED
  BY <1>3, <1>4, <1>5, <1>6, <1>7, <1>8, <1>9 DEF Rest

(* The commit of a vault makes it live.                                       *)
LEMMA VaultedCalm ==
    ASSUME TypeOK, CalmInv, CommitVaulted
    PROVE  Rest' /\ LawfulStep
<1>1. /\ op \in Job /\ op.kind = "commit" /\ KindInv /\ Loaded
      /\ op.pc = "vaulted" /\ delLog = {} /\ \A t \in Tx : Settled(t)
      /\ UNCHANGED <<flagFile, ecl, delLog, seal, purge>>
      /\ 0 \notin Tx /\ Tx \subseteq Int /\ op.ver \in Version
  BY AtJob, Shapes0 DEF CommitVaulted, CleanPc, FluxPc, KindInv, TypeOK, OpSound
<1>2. PICK x \in Tx : /\ x = op.tx /\ Made[x] = A0 /\ flag[x] = A0
                      /\ open[x].phase = "unregistered" /\ ecl[x] = op.ver
                      /\ open[x].ver = op.ver
  <2>1. PICK x \in Tx : /\ x = op.tx /\ open[x].phase = "unregistered"
                        /\ open[x].ver = op.ver
    BY <1>1 DEF CalmInv, JobInv, CommitJob
  <2>2. Made[x] = A0 /\ ecl[x] = op.ver
    BY <1>1, <2>1 DEF CalmInv, OpenInv
  <2>3. flag[x] = A0
    BY <1>1, <2>2, SettledRow DEF A0, NoRow
  <2> QED BY <2>1, <2>2, <2>3
<1>3. \A t \in Tx : open[t].phase # "none" => Made[t] = A0
  BY <1>1 DEF CalmInv, OpenInv
<1>4. open \in [Tx -> Vault]
  BY DEF TypeOK, Types, EngineType
<1>5. CASE ~(\A t \in Tx : vver[t] # op.ver)
  <2>1. /\ op' = NoOp /\ open' = [open EXCEPT ![x] = NoVault]
        /\ UNCHANGED <<flag, vver, txLog, promised>>
    BY <1>2, <1>5 DEF CommitVaulted
  <2>2. \A t \in Tx : open'[t].phase = "none" \/ (open'[t] = open[t] /\ Made[t] = A0)
    BY <1>3, <1>4, <2>1 DEF NoVault
  <2> QED BY <1>1, <2>1, <2>2, GiveUpCalm DEF files
<1>6. CASE \A t \in Tx : vver[t] # op.ver
  <2>1. /\ flag' = [flag EXCEPT ![x].state = "Vaulted"]
        /\ vver' = [vver EXCEPT ![x] = op.ver]
        /\ \A t \in Tx : txLog'[t] = flag'[t].state
        /\ promised' = promised \cup {op.ver}
        /\ Goto("incr") /\ open' = open
    BY <1>2, <1>6 DEF CommitVaulted, Dump, A0
  <2>2. /\ op'.kind = "commit" /\ op'.tx = x /\ op'.ver = op.ver /\ op'.pc = "incr"
    BY <1>1, <1>2, <2>1, GotoDoes
  <2>3. flag'[x] = V0 /\ \A t \in Tx \ {x} : flag'[t] = flag[t]
    BY <1>2, <2>1, Shapes0 DEF A0, V0
  <2>4. Made'[x] = V0
    <3>1. flagFile[x] = 0
      BY <1>2 DEF Made, Materialize, A0, NoRow
    <3>2. txLog'[x] = "Vaulted" /\ flagFile'[x] = 0
      BY <1>1, <2>1, <2>3, <3>1 DEF V0
    <3> QED BY <3>2 DEF Made, Materialize, V0, NoFile
  <2>5. \A t \in Tx \ {x} : Made'[t] = Made[t] /\ Settled(t)'
    BY <1>1, <2>1, <2>3, DumpSettled
  <2>6. /\ Made[x].del = 0 /\ Made'[x].del = 0 /\ Made[x] # V0 /\ Shape(Made'[x])
    BY <1>2, <2>4 DEF A0, V0, Shape
  <2>7. \A t \in Tx : ~TornAt(t) /\ ~TornAt(t)'
    BY <1>1 DEF TornAt
  <2>8. \A d \in Tx : Made'[d].del = Made[d].del
    BY <2>5, <2>6
  <2>9. \A d \in Tx : Made[d].del # x
    BY <2>6, <2>7 DEF CalmInv, ShareInv, PairInv
  <2>10. Live' = Live \cup {x} /\ x \notin Live
    BY <1>1, <2>4, <2>5, <2>6, <2>8, <2>9 DEF Live
  <2>11. ShareInv'
    <3>1. ShapeInv'
      BY <2>5, <2>6 DEF CalmInv, ShareInv, ShapeInv
    <3>2. PairInv'
      <4> SUFFICES ASSUME NEW d \in Tx, NEW t \in Tx, Made'[d].del = t
                   PROVE  /\ t < d
                          /\ d \in delLog' <=> t \in delLog'
                          /\ Made'[t] = V0
                          /\ \A e \in Tx : Made'[e].del = t => e = d
        BY DEF PairInv
      <4>1. Made[d].del = t /\ t # x
        BY <2>8, <2>9
      <4>2. t < d /\ Made[t] = V0 /\ \A e \in Tx : Made[e].del = t => e = d
        BY <2>7, <4>1 DEF CalmInv, ShareInv, PairInv
      <4> QED BY <1>1, <2>5, <2>8, <4>1, <4>2
    <3>3. EclInv'
      <4>1. ecl'[x] # NoVersion
        BY <1>1, <1>2, DataStoreAssumption
      <4>2. ASSUME NEW t \in Tx \ {x}, Made'[t] = V0 PROVE ecl'[t] # NoVersion
        BY <1>1, <2>5, <2>7, <4>2 DEF CalmInv, ShareInv, EclInv
      <4> QED BY <4>1, <4>2 DEF EclInv
    <3>4. LogInv'
      BY <1>1 DEF LogInv
    <3>5. PromisedInv'
      <4>1. \A t \in Live : ecl'[t] = ecl[t] /\ ecl[t] = vver[t] /\ t \in Tx
        BY <1>1 DEF CalmInv, VverInv, Live
      <4>2. \A t \in Live : ecl[t] # op.ver
        BY <1>6, <4>1
      <4>3. /\ promised = {ecl[t] : t \in Live}
            /\ \A s, t \in Live : ecl[s] = ecl[t] => s = t
        BY DEF CalmInv, ShareInv, PromisedInv
      <4>4. promised' = {ecl'[t] : t \in Live'}
        BY <1>1, <1>2, <2>1, <2>10, <4>3
      <4>5. \A s, t \in Live' : ecl'[s] = ecl'[t] => s = t
        BY <1>1, <1>2, <2>10, <4>2, <4>3
      <4> QED BY <4>4, <4>5 DEF PromisedInv
    <3> QED BY <3>1, <3>2, <3>3, <3>4, <3>5 DEF ShareInv
  <2>12. CacheInv'
    BY <2>3, <2>4, <2>5 DEF CacheInv, Settled
  <2>13. VverInv'
    <3>1. \A t \in Tx : vver[t] = IF t \in Live THEN ecl[t] ELSE NoVersion
      BY <1>1 DEF CalmInv, VverInv, At
    <3>2. \A t \in Tx : vver'[t] = IF t = x THEN op.ver ELSE vver[t]
      BY <2>1, Shapes0
    <3> QED BY <1>1, <1>2, <2>2, <2>10, <3>1, <3>2 DEF VverInv, At
  <2>14. DoomedInv' /\ DelLogInv'
    BY <1>1, <2>2 DEF DoomedInv, DelLogInv, At, CleanPc
  <2>15. JobInv'
    BY <1>1, <1>2, <2>2, <2>10 DEF JobInv, CommitJob
  <2>16. OpenInv'
    <3> SUFFICES ASSUME NEW t \in Tx, open[t].phase # "none"
                 PROVE  /\ ecl[t] = open[t].ver
                        /\ Made'[t] = A0 \/ (Made'[t] = V0 /\ t = x)
                        /\ open[t].phase = "unregistered" =>
                              open[t].todo = {} /\ open[t].cur = {}
      BY <1>1, <2>1, <2>2 DEF OpenInv
    <3> QED BY <1>3, <2>4, <2>5 DEF CalmInv, OpenInv
  <2>17. PurgeInv'
    <3>1. purge.pc = "idle" /\ purge' = purge
      BY <1>1 DEF CalmInv, PurgeInv
    <3> QED BY <3>1 DEF PurgeInv
  <2>18. LawfulStep
    <3>1. \A t \in Tx : Made'[t] # Made[t] => Made[t] = A0 /\ Made'[t] = V0
      BY <1>2, <2>4, <2>5
    <3>2. MayFollow(A0, V0) /\ V0 # NoRow
      BY DEF MayFollow, VaultSteps, NoRow, A0, V0
    <3> QED BY <3>1, <3>2 DEF LawfulStep
  <2> QED
    BY <2>11, <2>12, <2>13, <2>14, <2>15, <2>16, <2>17, <2>18 DEF Rest
<1> QED BY <1>5, <1>6

(* The .flags file of a delete takes its vault from the live ones.            *)
LEMMA DelFlagsCalm ==
    ASSUME TypeOK, CalmInv, CommitDeleteFlags
    PROVE  Rest' /\ LawfulStep
<1>1. /\ op \in Job /\ op.kind = "delete" /\ KindInv /\ Loaded
      /\ op.pc = "delFlags" /\ delLog = {} /\ \A t \in Tx : Settled(t)
      /\ UNCHANGED <<txLog, ecl, delLog, flag, vver, seal, purge, open>>
      /\ 0 \notin Tx /\ Tx \subseteq Int
  BY AtJob, Shapes0 DEF CommitDeleteFlags, CleanPc, FluxPc, KindInv, cache
<1>2. PICK x \in Tx : /\ x = op.tx /\ Made[x] = B0 /\ flag[x] = B0
                      /\ txLog[x] = "Begin" /\ open[x].phase = "none"
  BY <1>1 DEF CalmInv, OrphanInv, JobKnown, Began, Flagged, JobInv, DeleteJob
<1>3. PICK v \in Tx : /\ v = op.target /\ v \in Live /\ v < x /\ op.ver = ecl[v]
                      /\ Made[v] = V0 /\ flag[v] = V0
  <2>1. op.target \in Live /\ op.target < x /\ op.ver = ecl[op.target]
    BY <1>1, <1>2 DEF CalmInv, JobInv, DeleteJob
  <2>2. PICK v \in Tx : v = op.target /\ Made[v] = V0
    BY <2>1 DEF Live
  <2>3. flag[v] = V0
    BY <1>1, <2>2, SettledRow DEF V0, NoRow
  <2> QED BY <2>1, <2>2, <2>3
<1>4. /\ flagFile' = [flagFile EXCEPT ![x] = v]
      /\ promised' = promised \ {ecl[v]} /\ Goto("delLog")
  BY <1>2, <1>3 DEF CommitDeleteFlags, V0
<1>5. /\ op'.kind = "delete" /\ op'.tx = x /\ op'.target = v /\ op'.pc = "delLog"
  BY <1>1, <1>2, <1>3, <1>4, GotoDoes
<1>6. flagFile'[x] = v /\ \A t \in Tx \ {x} : flagFile'[t] = flagFile[t]
  BY <1>4, Shapes0
<1>7. Made'[x] = [state |-> "Begin", del |-> v]
  <2>1. txLog'[x] = "Begin" /\ flagFile'[x] = v /\ v # NoFile
    BY <1>1, <1>2, <1>6, Shapes0
  <2> QED BY <2>1 DEF Made, Materialize
<1>8. \A t \in Tx \ {x} : Made'[t] = Made[t]
  BY <1>1, <1>6, MadePoint
<1>9. /\ Made[x].del = 0 /\ Made'[x].del = v /\ Made[x] # V0 /\ Made'[x] # V0
      /\ Shape(Made'[x]) /\ v # x /\ v # 0
  BY <1>1, <1>2, <1>3, <1>7 DEF B0, V0, Shape
<1>10. \A t \in Tx : ~TornAt(t) /\ ~TornAt(t)'
  BY <1>1 DEF TornAt
<1>11. \A d \in Tx : Made[d].del # v
  BY <1>3 DEF Live
<1>12. Live' = Live \ {v}
  BY <1>1, <1>8, <1>9 DEF Live
<1>13. ShareInv'
  <2>1. ShapeInv'
    BY <1>8, <1>9 DEF CalmInv, ShareInv, ShapeInv
  <2>2. PairInv'
    <3> SUFFICES ASSUME NEW d \in Tx, NEW t \in Tx, Made'[d].del = t
                 PROVE  /\ t < d
                        /\ d \in delLog' <=> t \in delLog'
                        /\ Made'[t] = V0
                        /\ \A e \in Tx : Made'[e].del = t => e = d
      BY DEF PairInv
    <3>1. CASE d = x
      BY <1>1, <1>3, <1>8, <1>9, <1>11, <3>1
    <3>2. CASE d # x
      <4>1. Made[d].del = t /\ t # v
        BY <1>8, <1>11, <3>2
      <4>2. t < d /\ Made[t] = V0 /\ \A e \in Tx : Made[e].del = t => e = d
        BY <1>10, <4>1 DEF CalmInv, ShareInv, PairInv
      <4> QED BY <1>1, <1>8, <1>9, <4>1, <4>2
    <3> QED BY <3>1, <3>2
  <2>3. EclInv'
    BY <1>1, <1>8, <1>9, <1>10 DEF CalmInv, ShareInv, EclInv
  <2>4. LogInv'
    BY <1>1 DEF LogInv
  <2>5. PromisedInv'
    <3>1. /\ promised = {ecl[t] : t \in Live}
          /\ \A s, t \in Live : ecl[s] = ecl[t] => s = t
      BY DEF CalmInv, ShareInv, PromisedInv
    <3>2. promised' = {ecl[t] : t \in Live \ {v}}
      BY <1>3, <1>4, <3>1
    <3> QED BY <1>1, <1>12, <3>1, <3>2 DEF PromisedInv
  <2> QED BY <2>1, <2>2, <2>3, <2>4, <2>5 DEF ShareInv
<1>14. CacheInv'
  <2>1. \A t \in Tx \ {x} : Settled(t)'
    BY <1>1, <1>6, <1>8 DEF Settled, Stale, NoFiles
  <2>2. InFlux(x)'
    BY <1>5 DEF InFlux, At
  <2> QED BY <2>1, <2>2 DEF CacheInv
<1>15. VverInv'
  <2>1. \A t \in Tx : vver[t] = IF t \in Live THEN ecl[t] ELSE NoVersion
    BY <1>1 DEF CalmInv, VverInv, At
  <2> QED BY <1>1, <1>3, <1>5, <1>12, <2>1 DEF VverInv, At
<1>16. DoomedInv' /\ DelLogInv'
  BY <1>1, <1>5 DEF DoomedInv, DelLogInv, At, CleanPc
<1>17. JobInv'
  BY <1>1, <1>2, <1>5, <1>7 DEF JobInv, DeleteJob, CleanPc
<1>18. OpenInv'
  BY <1>1, <1>2, <1>8, OpenMoves DEF CalmInv
<1>19. PurgeInv'
  <2>1. purge.pc = "idle" /\ purge' = purge
    BY <1>1 DEF CalmInv, PurgeInv
  <2> QED BY <2>1 DEF PurgeInv
<1>20. LawfulStep
  <2>1. \A t \in Tx : Made'[t] # Made[t] =>
              Made[t] = B0 /\ Made'[t].state = "Begin"
    BY <1>2, <1>7, <1>8
  <2> QED BY <2>1 DEF LawfulStep, MayFollow, B0, NoRow
<1> QED
  BY <1>13, <1>14, <1>15, <1>16, <1>17, <1>18, <1>19, <1>20 DEF Rest

(* ... and its state takes it from the list.                                  *)
LEMMA DelLogCalm ==
    ASSUME TypeOK, CalmInv, CommitDeleteLog
    PROVE  Rest' /\ LawfulStep
<1>1. /\ op \in Job /\ op.kind = "delete" /\ KindInv /\ Loaded
      /\ op.pc = "delLog" /\ delLog = {}
      /\ UNCHANGED <<flagFile, ecl, delLog, promised, seal, purge, open>>
      /\ 0 \notin Tx /\ Tx \subseteq Int
  BY AtJob, Shapes0 DEF CommitDeleteLog, CleanPc, FluxPc, KindInv
<1>2. PICK v \in Tx : v = op.target
  BY <1>1 DEF TypeOK, OpSound
<1>3. PICK x \in Tx : /\ x = op.tx /\ Made[x] = [state |-> "Begin", del |-> v]
                      /\ open[x].phase = "none"
  BY <1>1, <1>2 DEF CalmInv, OrphanInv, JobKnown, Began, Flagged, JobInv, DeleteJob
<1>4. /\ flag' = [flag EXCEPT ![x] = [state |-> "Active", del |-> v]]
      /\ vver' = [vver EXCEPT ![v] = NoVersion]
      /\ \A t \in Tx : txLog'[t] = flag'[t].state /\ Goto("seal")
  BY <1>2, <1>3 DEF CommitDeleteLog, Dump
<1>5. /\ op'.kind = "delete" /\ op'.tx = x /\ op'.target = v /\ op'.pc = "seal"
  BY <1>1, <1>2, <1>3, <1>4, GotoDoes
<1>6. /\ flag'[x] = [state |-> "Active", del |-> v]
      /\ \A t \in Tx \ {x} : flag'[t] = flag[t]
  BY <1>4, Shapes0
<1>7. Made'[x] = [state |-> "Active", del |-> v]
  <2>1. flagFile[x] = v
    BY <1>1, <1>3 DEF Made, Materialize, NoRow
  <2>2. txLog'[x] = "Active" /\ flagFile'[x] = v /\ v # NoFile
    BY <1>1, <1>4, <1>6, <2>1, Shapes0
  <2> QED BY <2>2 DEF Made, Materialize
<1>8. \A t \in Tx \ {x} : Made'[t] = Made[t] /\ Settled(t)'
  <2> SUFFICES ASSUME NEW t \in Tx \ {x} PROVE Made'[t] = Made[t] /\ Settled(t)'
    OBVIOUS
  <2>1. Settled(t)
    BY <1>1, <1>3 DEF CalmInv, CacheInv, InFlux, At
  <2> QED BY <1>1, <1>4, <1>6, <2>1, DumpSettled
<1>9. /\ Made[x].del = v /\ Made'[x].del = v /\ Made[x] # V0 /\ Made'[x] # V0
      /\ Shape(Made'[x]) /\ v # 0
  BY <1>1, <1>3, <1>7 DEF V0, Shape
<1>10. ShareInv' /\ Live' = Live
  BY <1>1, <1>8, <1>9, OwnShare DEF CalmInv, Alike
<1>11. CacheInv'
  BY <1>6, <1>7, <1>8 DEF CacheInv, Settled
<1>12. VverInv'
  <2>1. \A t \in Tx : vver[t] = IF t \in Live \/ t = v THEN ecl[t] ELSE NoVersion
    BY <1>1, <1>2 DEF CalmInv, VverInv, At
  <2>2. \A t \in Tx : vver'[t] = IF t = v THEN NoVersion ELSE vver[t]
    BY <1>4, Shapes0
  <2>3. v \notin Live
    BY <1>9 DEF Live
  <2> QED BY <1>1, <1>5, <1>10, <2>1, <2>2, <2>3 DEF VverInv, At
<1>13. DoomedInv' /\ DelLogInv'
  BY <1>1, <1>5 DEF DoomedInv, DelLogInv, At, CleanPc
<1>14. JobInv'
  BY <1>1, <1>3, <1>5 DEF JobInv, DeleteJob, CleanPc
<1>15. OpenInv'
  BY <1>1, <1>3, <1>8, OpenMoves DEF CalmInv
<1>16. PurgeInv'
  <2>1. purge.pc = "idle" /\ purge' = purge
    BY <1>1 DEF CalmInv, PurgeInv
  <2> QED BY <2>1 DEF PurgeInv
<1>17. LawfulStep
  <2>1. \A t \in Tx : Made'[t] # Made[t] =>
           /\ Made[t] = [state |-> "Begin", del |-> v]
           /\ Made'[t] = [state |-> "Active", del |-> v]
    BY <1>3, <1>7, <1>8
  <2>2. /\ MayFollow([state |-> "Begin", del |-> v], [state |-> "Active", del |-> v])
        /\ [state |-> "Active", del |-> v] # NoRow
    BY <1>9 DEF MayFollow, DeleteSteps, NoRow
  <2> QED BY <2>1, <2>2 DEF LawfulStep
<1> QED
  BY <1>10, <1>11, <1>12, <1>13, <1>14, <1>15, <1>16, <1>17 DEF Rest

----------------------------------------------------------------------------
(* The steps that change the share: a load; the theorems                      *)

(* A sync finds no vault open.                                                *)
LEMMA SyncAlone ==
    ASSUME CalmInv, op.kind = "sync" PROVE ~VaultOpen
  BY DEF CalmInv, OrphanInv, EngineInv

(* A load reads every transaction: no vault has lost its ECL.                 *)
LEMMA LoadReadsAll ==
    ASSUME TypeOK, CalmInv, ~Torn PROVE LoadFailsAt = {}
<1>1. \A t \in Tx : Made[t] = V0 => ecl[t] # NoVersion
  BY DEF CalmInv, ShareInv, EclInv, TornAt
<1>2. ASSUME NEW t \in Tx, Materialize(t).state \in {"Vaulted", "Reconned"},
             Materialize(t).del = 0
      PROVE  ecl[t] # NoVersion
  <2>1. Made[t] = Materialize(t) /\ Made[t] \in Row /\ Shape(Made[t])
    BY MadeIs DEF CalmInv, ShareInv, ShapeInv
  <2>2. Made[t] = V0
    BY <1>2, <2>1 DEF Shape, V0, A0, B0, R0, NoRow
  <2> QED BY <1>1, <2>2
<1>3. ASSUME NEW d \in Tx, NEW t \in 1 .. d - 1 PROVE t \in Tx
  BY <1>3, DataStoreAssumption DEF Tx
<1> QED BY <1>2, <1>3 DEF LoadFailsAt

(* It lists the live vaults.                                                  *)
LEMMA LoadedLive ==
    ASSUME TypeOK, CalmInv, ~Torn, NEW t \in Tx
    PROVE  LoadedVersion(t, MaxTx) = IF t \in Live THEN ecl[t] ELSE NoVersion
<1>1. /\ \A d \in Tx : Made[d] = Materialize(d)
      /\ Shape(Made[t]) /\ t \in Int /\ 0 \notin Tx
  BY MadeIs, Shapes0 DEF CalmInv, ShareInv, ShapeInv
<1>2. /\ Materialize(t).state \in {"Vaulted", "Reconned"} /\ Materialize(t).del = 0
      <=> Made[t] = V0
  BY <1>1 DEF Shape, V0, A0, B0, R0, NoRow
<1>3. \A d \in Tx : Made[d].del = t => t < d
  BY DEF CalmInv, ShareInv, PairInv
<1>4. \A d \in Tx : d \in t + 1 .. MaxTx <=> t < d
  BY <1>1, DataStoreAssumption DEF Tx
<1>5. \A d \in t + 1 .. MaxTx : d \in Tx
  BY <1>1, DataStoreAssumption DEF Tx
<1>6. (\A d \in t + 1 .. MaxTx : Materialize(d).del # t)
      <=> (\A d \in Tx : Made[d].del # t)
  BY <1>1, <1>3, <1>4, <1>5
<1>7. t \in delLog /\ Made[t] = V0 => \E d \in Tx : Made[d].del = t
  <2> SUFFICES ASSUME t \in delLog, Made[t] = V0 PROVE \E d \in Tx : Made[d].del = t
    OBVIOUS
  <2>1. DisposableIn(t, delLog)
    BY DEF CalmInv, ShareInv, LogInv
  <2>2. PICK d \in delLog : Made[d] = [state |-> "Reconned", del |-> t]
    BY <2>1, DisposableVault
  <2> QED BY <2>2, Shapes0
<1> QED BY <1>2, <1>6, <1>7 DEF LoadedVersion, Live

(* A load makes the cache agree with the share, the delete log included.      *)
LEMMA LoadCalm ==
    ASSUME TypeOK, CalmInv, SyncLoad
    PROVE  Rest' /\ LawfulStep
<1>1. /\ op \in Job /\ op.kind = "sync" /\ op.pc = "load" /\ ~Torn /\ ~VaultOpen
      /\ UNCHANGED <<txLog, flagFile, ecl, delLog, seal, open, purge, promised>>
  BY Shapes0, SyncAlone DEF SyncLoad, At, CalmInv, PcInv, KindInv, Torn, share
<1>2. LoadFailsAt = {}
  BY <1>1, LoadReadsAll
<1>3. /\ Goto("clean")
      /\ \A t \in Tx : flag'[t] = Materialize(t)
      /\ \A t \in Tx : vver'[t] = LoadedVersion(t, MaxTx)
  <2>1. /\ Goto("clean")
        /\ flag' = [t \in Tx |-> IF t <= MaxTx THEN Materialize(t) ELSE NoRow]
        /\ vver' = [t \in Tx |-> IF t > MaxTx THEN NoVersion
                                 ELSE LoadedVersion(t, MaxTx)]
    BY <1>2 DEF SyncLoad
  <2>2. \A t \in Tx : t <= MaxTx /\ ~(t > MaxTx)
    BY DataStoreAssumption DEF Tx
  <2> QED BY <2>1, <2>2
<1>4. op'.kind = "sync" /\ op'.pc = "clean" /\ ~Torn'
  BY <1>1, <1>3, GotoDoes DEF Torn
<1>5. Made' = Made /\ \A t \in Tx : flag'[t] = Made[t]
  BY <1>1, <1>3, MadeIs DEF Made, Materialize
<1>6. Live' = Live
  BY <1>1, <1>5 DEF Live
<1>7. ShareInv'
  <2>1. \A t : TornAt(t)' <=> TornAt(t)
    BY <1>1, <1>4 DEF TornAt
  <2> QED BY <1>1, <1>4, <1>5, <1>6, <2>1 DEF CalmInv, ShareInv, ShapeInv, PairInv,
       EclInv, LogInv, PromisedInv, DisposableIn
<1>8. CacheInv'
  BY <1>5 DEF CacheInv, Settled
<1>9. VverInv'
  BY <1>1, <1>3, <1>4, <1>6, LoadedLive DEF VverInv, At
<1>10. DoomedInv' /\ DelLogInv' /\ JobInv'
  BY <1>4 DEF DoomedInv, DelLogInv, JobInv, At, CleanPc
<1>11. OpenInv'
  BY <1>1 DEF OpenInv, VaultOpen
<1>12. PurgeInv'
  BY <1>1, <1>4, <1>5, PurgeMoves DEF CalmInv, TypeOK, Types, EngineType
<1>13. LawfulStep
  BY <1>5 DEF LawfulStep
<1> QED
  BY <1>7, <1>8, <1>9, <1>10, <1>11, <1>12, <1>13 DEF Rest

(* Vaults that never finished are rolled back, in the log and in the cache.   *)
LEMMA RollbackCalm ==
    ASSUME TypeOK, CalmInv, SyncRollback
    PROVE  Rest' /\ LawfulStep
<1>1. /\ op \in Job /\ op.kind = "sync" /\ KindInv /\ Loaded
      /\ op.pc = "rollback" /\ delLog = {} /\ \A t \in Tx : Settled(t)
      /\ UNCHANGED <<flagFile, ecl, delLog, vver, seal, purge, open, promised>>
      /\ ~VaultOpen
  BY AtJob, Shapes0, SyncAlone DEF SyncRollback, CleanPc, FluxPc, KindInv
<1>2. op'.kind = "sync" /\ op'.pc = "clean"
  BY <1>1, RollbackDoes
<1>3. \A t \in Tx : flag'[t] = IF flag[t] = A0 THEN R0 ELSE flag[t]
  <2>1. \A t \in Tx : flag[t] = A0 => [flag[t] EXCEPT !.state = "Rollback"] = R0
    BY DEF A0, R0
  <2>2. Unfinished = {t \in Tx : flag[t] = A0}
    BY DEF Unfinished, A0
  <2> QED BY <2>1, <2>2 DEF SyncRollback
<1>4. (\A t \in Tx : txLog'[t] = flag'[t].state) \/ (txLog' = txLog /\ flag' = flag)
  <2>1. CASE Unfinished = {}
    <3>1. \A t \in Tx : flag'[t] = flag[t]
      BY <2>1 DEF SyncRollback
    <3>2. flag' = [t \in Tx |-> flag'[t]] /\ flag = [t \in Tx |-> flag[t]]
      BY Shapes0 DEF SyncRollback
    <3> QED BY <2>1, <3>1, <3>2 DEF SyncRollback
  <2>2. CASE Unfinished # {}
    BY <2>2 DEF SyncRollback, Dump
  <2> QED BY <2>1, <2>2
<1>5. ASSUME NEW t \in Tx, flag[t] # A0 PROVE Made'[t] = Made[t] /\ Settled(t)'
  <2>1. flag'[t] = flag[t] /\ Settled(t)
    BY <1>1, <1>3, <1>5
  <2>2. CASE txLog'[t] = flag'[t].state
    BY <1>1, <2>1, <2>2, DumpSettled
  <2>3. CASE txLog' = txLog
    BY <1>1, <2>1, <2>3, MadePoint DEF Settled, Stale, NoFiles
  <2> QED BY <1>4, <2>2, <2>3
<1>6. ASSUME NEW t \in Tx, flag[t] = A0
      PROVE  Made'[t] = R0 /\ flag'[t] = R0 /\ Made[t] = A0
  <2>1. Made[t] = A0 /\ flag'[t] = R0
    BY <1>1, <1>3, <1>6, SettledRow DEF A0, R0
  <2>2. flagFile[t] = 0
    BY <2>1 DEF Made, Materialize, A0, NoRow
  <2>3. txLog'[t] = "Rollback"
    <3>1. A0 # R0
      BY DEF A0, R0
    <3> QED BY <1>4, <1>6, <2>1, <3>1 DEF R0
  <2> QED BY <1>1, <2>1, <2>2, <2>3 DEF Made, Materialize, R0, NoFile
<1>7. ShareInv' /\ Live' = Live
  <2>1. \A t \in Tx : Shape(Made'[t]) /\ Alike(t)
    <3>1. /\ A0.del = 0 /\ R0.del = 0 /\ A0 # V0 /\ R0 # V0 /\ Shape(R0)
      BY DEF A0, R0, V0, Shape
    <3> QED BY <1>5, <1>6, <3>1 DEF CalmInv, ShareInv, ShapeInv, Alike
  <2> QED BY <1>1, <2>1, ShareMoves DEF CalmInv
<1>8. CacheInv'
  BY <1>5, <1>6 DEF CacheInv, Settled
<1>9. VverInv'
  BY <1>1, <1>2, <1>7 DEF CalmInv, VverInv, At
<1>10. DoomedInv' /\ DelLogInv' /\ JobInv'
  BY <1>1, <1>2 DEF DoomedInv, DelLogInv, JobInv, At, CleanPc
<1>11. OpenInv'
  BY <1>1 DEF OpenInv, VaultOpen
<1>12. PurgeInv'
  <2>1. \A t \in Tx : Made'[t] \in {Made[t], R0}
    BY <1>5, <1>6
  <2> QED BY <1>1, <1>2, <2>1, PurgeMoves DEF CalmInv, TypeOK, Types, EngineType
<1>13. LawfulStep
  <2>1. \A t \in Tx : Made'[t] # Made[t] => Made[t] = A0 /\ Made'[t] = R0
    BY <1>5, <1>6
  <2>2. MayFollow(A0, R0) /\ R0 # NoRow
    BY DEF MayFollow, VaultSteps, NoRow, A0, R0
  <2> QED BY <2>1, <2>2 DEF LawfulStep
<1> QED
  BY <1>7, <1>8, <1>9, <1>10, <1>11, <1>12, <1>13 DEF Rest

(* Together: the log and the cache keep agreeing.                             *)
LEMMA CalmStep ==
    ASSUME TypeOK, Calm, SealTrusted, CalmInv, [Next]_vars PROVE CalmInv'
<1>1. OrphanInv' /\ PcInv'
  BY OrphanStep, PcStep DEF CalmInv
<1>2. CASE FileStep
  BY <1>1, <1>2, WriteCalm, RemoveCalm, DropCalm, DumpOldCalm, DumpNewCalm, CommitCalm,
     CreateCalm, PutCalm, BeginCalm, VaultedCalm, DelFlagsCalm, DelLogCalm,
     LoadCalm, RollbackCalm DEF FileStep, Rest, CalmInv, CleanDump, At
<1>3. CASE ~FileStep
  BY <1>1, <1>3, QuietShare, QuietCache, QuietDoomed, QuietJobs, QuietOpen, QuietPurge
     DEF CalmInv
<1> QED BY <1>2, <1>3

(* Every change of a transaction is one that readers of the share may see.    *)
LEMMA CalmLawful ==
    ASSUME TypeOK, Calm, SealTrusted, CalmInv, [Next]_vars PROVE LawfulStep
<1>1. CASE FileStep
  BY <1>1, WriteCalm, RemoveCalm, DropCalm, DumpOldCalm, DumpNewCalm, CommitCalm,
     CreateCalm, PutCalm, BeginCalm, VaultedCalm, DelFlagsCalm, DelLogCalm,
     LoadCalm, RollbackCalm DEF FileStep, CalmInv, CleanDump, At
<1>2. CASE ~FileStep
  BY <1>2, QuietShare DEF LawfulStep
<1> QED BY <1>1, <1>2

(* A new store has an empty log and an empty cache.                           *)
LEMMA CalmInit == Init => CalmInv
<1> SUFFICES ASSUME Init PROVE CalmInv
  OBVIOUS
<1>1. Made = [t \in Tx |-> NoRow]
  BY DEF Init, Made, Materialize
<1>2. /\ \A t \in Tx : Made[t] = NoRow /\ flag[t] = NoRow /\ open[t].phase = "none"
      /\ delLog = {} /\ promised = {} /\ op = NoOp /\ ~Loaded /\ purge.pc = "idle"
  BY <1>1 DEF Init, NoVault, NoPurge, Loaded, VaultOpen, NoOp
<1>3. 0 \notin Tx /\ NoRow.del = 0 /\ NoRow # V0 /\ Shape(NoRow)
  BY TxInt DEF NoRow, V0, Shape
<1>4. Live = {}
  BY <1>2, <1>3 DEF Live
<1>5. ShareInv
  BY <1>2, <1>3, <1>4 DEF ShareInv, ShapeInv, PairInv, EclInv, LogInv, PromisedInv
<1>6. CacheInv /\ VverInv /\ DoomedInv /\ DelLogInv /\ PcInv /\ JobInv
  BY <1>2 DEF CacheInv, VverInv, DoomedInv, DelLogInv, PcInv, JobInv, At, NoOp
<1>7. OpenInv /\ PurgeInv
  BY <1>2 DEF OpenInv, PurgeInv
<1> QED BY <1>5, <1>6, <1>7, OrphanInit DEF CalmInv

(* What load would make of the share stays what the cache and the jobs take   *)
(* it for: CalmInv, the inductive invariant of the theorems below, as long as *)
(* nothing fails or purges while a vault is open and the delete log is        *)
(* written in one piece.                                                      *)
THEOREM CalmCorrect ==
    ASSUME Calm PROVE Spec => []CalmInv
<1>1. TypeOK /\ SealTrusted /\ CalmInv /\ [Next]_vars => CalmInv'
  BY CalmStep
<1> QED BY <1>1, CalmInit, TypeCorrect, SealIsTrusted, PTL DEF Spec

(* In sync, every row of the cache is what a load of the share would make it, *)
(* but for rolled back vaults whose files an old delete log took: FlagsAgree. *)
THEOREM FlagsDoAgree ==
    ASSUME Calm PROVE Spec => []FlagsAgree
<1>1. TypeOK /\ CalmInv => FlagsAgree
  <2> SUFFICES ASSUME TypeOK, CalmInv, InSync, NEW t \in Tx
               PROVE  \/ flag[t] = Materialize(t)
                      \/ flag[t] = R0 /\ Materialize(t) = NoRow
    BY DEF FlagsAgree, R0
  <2>1. Loaded /\ op.kind = "none"
    BY SyncedLoaded DEF InSync, CalmInv, OrphanInv
  <2>2. Settled(t)
    BY <2>1, NoFlux DEF CalmInv
  <2> QED BY <2>2, MadeBare DEF Settled, Stale, NoFiles, Made
<1> QED BY <1>1, CalmCorrect, TypeCorrect, PTL

(* In sync, the versions the store lists are those that were committed and    *)
(* not deleted, whatever jobs ran, failed or were cut off by a restart.       *)
THEOREM CatalogIsTrue ==
    ASSUME Calm PROVE Spec => []Catalog
<1>1. TypeOK /\ CalmInv => Catalog
  <2> SUFFICES ASSUME TypeOK, CalmInv, InSync PROVE ListedVersions = promised
    BY DEF Catalog
  <2>1. Loaded /\ op.kind = "none"
    BY SyncedLoaded DEF InSync, CalmInv, OrphanInv
  <2>2. Listed = Live /\ \A t \in Live : vver[t] = ecl[t]
    BY <2>1, ListedLive
  <2> QED BY <2>2 DEF ListedVersions, CalmInv, ShareInv, PromisedInv
<1> QED BY <1>1, CalmCorrect, TypeCorrect, PTL

(* Whatever step the engine takes, a reader of the share sees a transaction   *)
(* only begin, commit, roll back, be reconciled or go, in that order, and go  *)
(* only without its ECL: TxLifecycle.                                         *)
THEOREM TxsAreLawful ==
    ASSUME Calm PROVE Spec => TxLifecycle
<1> DEFINE Lawful == \A t \in Tx : Materialize(t)' # Materialize(t) =>
                        /\ MayFollow(Materialize(t), Materialize(t)')
                        /\ Materialize(t)' = NoRow => ecl[t] = NoVersion
<1>1. TypeOK /\ SealTrusted /\ CalmInv /\ [Next]_vars => [Lawful]_share
  <2> SUFFICES ASSUME TypeOK, SealTrusted, CalmInv, [Next]_vars PROVE Lawful
    OBVIOUS
  <2>1. LawfulStep
    BY CalmLawful
  <2>2. \A t \in Tx : Made[t] = Materialize(t) /\ Made'[t] = Materialize(t)'
    BY DEF Made
  <2> QED BY <2>1, <2>2 DEF LawfulStep
<1>2. TxLifecycle <=> [][Lawful]_share
  BY DEF TxLifecycle
<1> QED
  BY <1>1, <1>2, CalmCorrect, TypeCorrect, SealIsTrusted, PTL DEF Spec, TxLifecycle
=============================================================================
