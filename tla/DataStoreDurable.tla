-------------------------- MODULE DataStoreDurable --------------------------
(* Theorems of DataStore: the blocks and their reference counts, and that    *)
(* it implements VersionStore.                                               *)
EXTENDS DataStoreCalm

----------------------------------------------------------------------------
(* The blocks and their reference counts, under the same assumption           *)

(* A sync that has not applied the ECLs of the share yet.                     *)
Replaying == /\ op.kind = "sync" /\ op.ret = "replay"
             /\ op.pc \notin {"rollback", "seal"}

(* The versions whose prints are counted: a commit is promised before it is   *)
(* counted, a delete is counted off before the promise is taken back.         *)
Uncounted == \/ At("incr")
             \/ op.kind = "delete" /\ op.pc \in {"putEcl", "delFlags"}
Counted == promised \ (IF Uncounted THEN {op.ver} ELSE {})
Users(p) == {v \in Counted : p \in Ecl[v]}

RefInv == Loaded /\ ~Replaying =>
              \A p \in Prints : ref[p] = Cardinality(Users(p))
RowInv == \A p \in Prints : ref[p] > 0 => p \in rows

(* The prints of the promised versions.                                       *)
Kept == UNION {Ecl[v] : v \in promised}

(* From createVaultLog on a vault knows which prints it has to send.          *)
SentPc == {"beginFlags", "beginLog", "putEcl", "seal"}

(* Blocks that were promised, that a vault sends or has not to send.          *)
SentInv == /\ Kept \subseteq blocks
           /\ \A t \in Tx : open[t].phase # "none" =>
                 Ecl[open[t].ver] \subseteq blocks \cup open[t].todo \cup open[t].cur
           /\ op.kind = "vault" /\ op.pc \in SentPc =>
                 Ecl[op.ver] \subseteq blocks \cup op.delta

(* What a purge may take, and what it has taken.                              *)
BatchInv == /\ purge.pc # "idle" => ZeroRows \cap Kept = {}
            /\ purge.pc \in {"delete", "unlink", "finish"} =>
                  purge.batch \cap Kept = {}

(* A closed vault is about no version.                                        *)
ClosedInv == \A t \in Tx : open[t].phase = "none" => open[t].ver = NoVersion

DurInv == RefInv /\ RowInv /\ SentInv /\ BatchInv /\ ClosedInv

(* Only a commit and a delete change what is promised.                        *)
LEMMA PromisedKept ==
    ASSUME [Next]_vars, ~CommitVaulted, ~CommitDeleteFlags
    PROVE  promised' = promised
<1>1. CASE FileStep
  BY <1>1 DEF FileStep, CleanWriteLog, CleanRemoveFile, CleanDump, CleanDropLog,
     CleanCommit, CreateTxBegin, PutEcl, CommitBeginFlags, CommitBeginLog,
     CommitDeleteLog, SyncLoad, SyncRollback
<1>2. CASE Starts
  BY <1>2 DEF Starts, MakeVault, MakeDelete, CommitVault, SyncRebuild, PurgeReconcile
<1>3. CASE Goes
  BY <1>3 DEF Goes, CleanChoose, CreateVaultLog, CommitIncrement, DeleteDecrement,
     SyncReplay, UnnukeSync
<1>4. CASE Stops
  BY <1>4 DEF Stops, Fail, Crash, Shutdown
<1>5. CASE Purges \/ SyncTrusted \/ UNCHANGED vars
  BY <1>5 DEF Purges, StartPurge, PurgeTake, PurgeGiveUp, PurgeAsk, PurgeDelete,
     PurgeFinish, PurgeEnd, SyncTrusted, vars
<1>6. CASE Sends
  BY <1>6 DEF Sends, VaultNext, SendPrint, VaultUnregister, VaultAbort
<1> QED BY <1>1, <1>2, <1>3, <1>4, <1>5, <1>6, AllSteps DEF Waits

(* Only journals, the end of a purged batch and a rebuild change the counts,  *)
(* and only they take rows away.                                              *)
LEMMA CountsKept ==
    ASSUME [Next]_vars, ~CommitIncrement, ~DeleteDecrement, ~PurgeFinish,
           ~SyncLoad, ~SyncReplay, ~Fail
    PROVE  ref' = ref /\ rows \subseteq rows' /\ (~Sends => rows' = rows)
<1>1. CASE FileStep
  BY <1>1 DEF FileStep, CleanWriteLog, CleanRemoveFile, CleanDump, CleanDropLog,
     CleanCommit, CreateTxBegin, PutEcl, CommitBeginFlags, CommitBeginLog,
     CommitVaulted, CommitDeleteFlags, CommitDeleteLog, SyncRollback, cache
<1>2. CASE Starts
  BY <1>2 DEF Starts, MakeVault, MakeDelete, CommitVault, SyncRebuild, PurgeReconcile
<1>3. CASE Goes
  BY <1>3 DEF Goes, CleanChoose, CreateVaultLog, UnnukeSync, cache
<1>4. CASE Stops
  BY <1>4 DEF Stops, Crash, Shutdown
<1>5. CASE Purges \/ SyncTrusted \/ UNCHANGED vars
  BY <1>5 DEF Purges, StartPurge, PurgeTake, PurgeGiveUp, PurgeAsk, PurgeDelete,
     PurgeEnd, SyncTrusted, vars, cache
<1>6. CASE Sends
  BY <1>6 DEF Sends, VaultNext, SendPrint, VaultUnregister, VaultAbort, Clear, cache
<1> QED BY <1>1, <1>2, <1>3, <1>4, <1>5, <1>6, AllSteps DEF Waits

(* Only a purge deletes blocks.                                               *)
LEMMA BlocksKept ==
    ASSUME [Next]_vars, ~PurgeDelete
    PROVE  blocks \subseteq blocks' /\ (~Sends => blocks' = blocks)
<1>1. CASE FileStep
  BY <1>1 DEF FileStep, CleanWriteLog, CleanRemoveFile, CleanDump, CleanDropLog,
     CleanCommit, CreateTxBegin, PutEcl, CommitBeginFlags, CommitBeginLog,
     CommitVaulted, CommitDeleteFlags, CommitDeleteLog, SyncLoad, SyncRollback, share
<1>2. CASE Starts
  BY <1>2 DEF Starts, MakeVault, MakeDelete, CommitVault, SyncRebuild,
     PurgeReconcile, share
<1>3. CASE Goes
  BY <1>3 DEF Goes, CleanChoose, CreateVaultLog, CommitIncrement, DeleteDecrement,
     SyncReplay, UnnukeSync, share
<1>4. CASE Stops
  BY <1>4 DEF Stops, Fail, Crash, Shutdown, share
<1>5. CASE Purges \/ SyncTrusted \/ UNCHANGED vars
  BY <1>5 DEF Purges, StartPurge, PurgeTake, PurgeGiveUp, PurgeAsk,
     PurgeFinish, PurgeEnd, SyncTrusted, vars, share
<1>6. CASE Sends
  BY <1>6 DEF Sends, VaultNext, SendPrint, VaultUnregister, VaultAbort, share
<1> QED BY <1>1, <1>2, <1>3, <1>4, <1>5, <1>6, AllSteps DEF Waits

----------------------------------------------------------------------------
(* What a step does to the job                                                *)

(* What a step within a job does to what it is about.                         *)
Keeps == /\ op'.kind = op.kind /\ op'.ver = op.ver /\ op'.delta = op.delta
         /\ (Uncounted' <=> Uncounted) /\ (Replaying => Replaying')
         /\ op'.kind = "vault" /\ op'.pc \in SentPc => op.pc \in SentPc

(* The cleanup of a job keeps its vault or its delete.                        *)
LEMMA CleanKeeps ==
    ASSUME TypeOK, CalmInv, Clean PROVE Keeps /\ op.kind # "none"
<1>1. op \in Job
  BY Shapes0
<1>2. op.kind # "none" /\ op.pc \in CleanPc \cup {"clean"} /\ KindInv
  BY DEF Clean, CleanChoose, CleanWriteLog, CleanRemoveFile, CleanDump,
     CleanDropLog, CleanCommit, At, CleanPc, CalmInv, PcInv
<1>3. /\ op'.kind = op.kind /\ op'.ver = op.ver /\ op'.delta = op.delta
      /\ op'.pc \in CleanPc \cup {"clean", op.ret}
      /\ op'.ret = op.ret \/ op.kind = "recon"
  <2>1. CASE CleanChoose
    BY <1>1, <2>1 DEF CleanChoose, CleanPc, Job
  <2>2. CASE CleanWriteLog
    <3>1. CASE op.doomed = {}
      BY <1>1, <2>2, <3>1, GotoDoes DEF CleanWriteLog, CleanPc
    <3>2. CASE op.doomed # {}
      BY <1>1, <2>2, <3>2, WriteDoes DEF CleanPc
    <3> QED BY <3>1, <3>2
  <2>3. CASE CleanRemoveFile
    BY <1>1, <1>2, <2>3, RemoveDoes
  <2>4. CASE CleanDump \/ CleanDropLog
    <3>1. \/ Goto("drop") \/ Goto("oldDrop") \/ Goto("write") \/ Goto("commit")
      BY <2>4 DEF CleanDump, CleanDropLog
    <3>2. op'.pc \in CleanPc
      BY <1>1, <3>1, GotoDoes DEF CleanPc
    <3> QED BY <1>1, <3>1, <3>2, GotoDoes
  <2>5. CASE CleanCommit
    BY <1>1, <2>5, CommitDoes
  <2> QED BY <2>1, <2>2, <2>3, <2>4, <2>5 DEF Clean
<1>4. op.ret \in {"begin", "replay", "seal", "clean"}
      /\ (op.kind = "sync" => op.ret \in {"replay", "seal"})
      /\ (op.kind = "vault" => op.ret = "begin")
  BY <1>2 DEF KindInv
<1>5. op'.pc \notin {"incr", "putEcl", "delFlags"} /\ ~Uncounted /\ ~Uncounted'
  BY <1>2, <1>3, <1>4 DEF CleanPc, Uncounted, At
<1>6. Replaying => Replaying'
  BY <1>2, <1>3, <1>4 DEF CleanPc, Replaying
<1>7. op'.kind = "vault" => op'.pc \notin SentPc
  BY <1>3, <1>4 DEF CleanPc, SentPc
<1> QED BY <1>2, <1>3, <1>5, <1>6, <1>7 DEF Keeps

(* So do the other steps, but for those that count, promise or end.           *)
LEMMA StepKeeps ==
    ASSUME TypeOK, CalmInv,
           \/ CreateTxBegin \/ PutEcl \/ CommitBeginFlags \/ CommitBeginLog
           \/ CommitDeleteLog \/ SyncRollback
    PROVE  Keeps /\ op.kind # "none"
<1>1. op \in Job
  BY Shapes0
<1>2. CASE CreateTxBegin
  <2>1. op.kind \in {"vault", "delete"} /\ op.pc = "begin"
    BY <1>2 DEF CreateTxBegin, At, CalmInv, PcInv, KindInv
  <2> QED BY <1>1, <1>2, <2>1, CreateDoes DEF Keeps, Uncounted, Replaying, SentPc, At
<1>3. CASE PutEcl
  <2>1. op.kind \in {"vault", "delete"} /\ op.pc = "putEcl"
    BY <1>3 DEF PutEcl, At, CalmInv, PcInv, KindInv
  <2>2. Goto(IF op.kind = "vault" THEN "seal" ELSE "delFlags")
    BY <1>3 DEF PutEcl
  <2> QED BY <1>1, <2>1, <2>2, GotoDoes DEF Keeps, Uncounted, Replaying, SentPc, At
<1>4. CASE CommitBeginFlags
  BY <1>1, <1>4, GotoDoes
     DEF CommitBeginFlags, Keeps, Uncounted, Replaying, SentPc, At, CalmInv, PcInv, KindInv
<1>5. CASE CommitBeginLog
  BY <1>1, <1>5, GotoDoes
     DEF CommitBeginLog, Keeps, Uncounted, Replaying, SentPc, At, CalmInv, PcInv, KindInv
<1>6. CASE CommitDeleteLog
  BY <1>1, <1>6, GotoDoes
     DEF CommitDeleteLog, Keeps, Uncounted, Replaying, SentPc, At, CalmInv, PcInv, KindInv
<1>7. CASE SyncRollback
  <2>1. op.kind = "sync" /\ op.pc = "rollback"
    BY <1>7 DEF SyncRollback, At, CalmInv, PcInv, KindInv
  <2> QED BY <1>1, <1>7, <2>1, RollbackDoes DEF Keeps, Uncounted, Replaying, SentPc, At
<1> QED BY <1>2, <1>3, <1>4, <1>5, <1>6, <1>7

Counts == CommitVaulted \/ CommitDeleteFlags \/ CommitIncrement \/ DeleteDecrement
          \/ CreateVaultLog \/ SyncLoad \/ SyncReplay

(* Every other step keeps the job, begins one, or ends one that has counted   *)
(* all it had to count.                                                       *)
LEMMA JobMoves ==
    ASSUME TypeOK, Calm, SealTrusted, CalmInv, [Next]_vars, ~Counts
    PROVE  \/ op' = op
           \/ Keeps /\ op.kind # "none" /\ (Clean \/ FileStep)
           \/ Starts /\ op = NoOp /\ ~Uncounted' /\ op'.pc \notin SentPc
           \/ op' = NoOp /\ (UnnukeSync \/ Stops)
<1>1. FileStep => Clean \/ CreateTxBegin \/ PutEcl \/ CommitBeginFlags
                        \/ CommitBeginLog \/ CommitDeleteLog \/ SyncRollback
  BY DEF FileStep, Counts, Clean
<1>2. Goes => CleanChoose \/ UnnukeSync
  BY DEF Goes, Counts
<1>3. CleanChoose => Clean
  BY DEF Clean
<1>4. UnnukeSync => op' = NoOp
  BY DEF UnnukeSync
<1>5. CASE Starts
  <2>1. op = NoOp /\ op'.pc \notin {"incr"} \cup SentPc
    <3>1. PurgeReconcile => op'.pc \in {"clean", "oldRm", "write"}
      BY DEF PurgeReconcile, NoOp
    <3> QED BY <1>5, <3>1, StartsDo DEF CalmInv, PcInv, SentPc
  <2>2. ~Uncounted'
    <3>1. op'.kind = "delete" => op'.pc = "clean"
      BY <1>5, StartsDo
    <3> QED BY <2>1, <3>1 DEF Uncounted, At
  <2> QED BY <1>5, <2>1, <2>2
<1> QED BY <1>1, <1>2, <1>3, <1>4, <1>5, AllSteps, WaitsKeep, StopsDo, CleanKeeps, StepKeeps

----------------------------------------------------------------------------
(* The counts of references                                                   *)

(* There are no more promised versions than transactions.                     *)
LEMMA PromisedFinite ==
    ASSUME TypeOK, CalmInv
    PROVE  /\ IsFiniteSet(promised) /\ IsFiniteSet(Counted)
           /\ \A p \in Prints : IsFiniteSet(Users(p))
<1>1. IsFiniteSet(Live)
  <2>1. IsFiniteSet(Tx)
    BY DataStoreAssumption, FS_Interval DEF Tx
  <2>2. Live \in SUBSET Tx
    BY DEF Live
  <2> QED BY <2>1, <2>2, FS_Subset
<1>2. promised = {ecl[t] : t \in Live}
  BY DEF CalmInv, ShareInv, PromisedInv
<1> DEFINE f == [t \in Live |-> ecl[t]]
<1>3. f \in Surjection(Live, promised)
  BY <1>2 DEF Surjection
<1>4. IsFiniteSet(promised)
  BY <1>1, <1>3, FS_Surjection
<1>5. Counted \in SUBSET promised /\ \A p \in Prints : Users(p) \in SUBSET promised
  BY DEF Counted, Users
<1> QED BY <1>4, <1>5, FS_Subset

(* A promised version is one of a listed transaction of the share.            *)
LEMMA PromisedHas ==
    ASSUME TypeOK, CalmInv, NEW v \in promised
    PROVE  v \in Version /\ \E t \in Live : ecl[t] = v
<1>1. PICK t \in Live : ecl[t] = v
  BY DEF CalmInv, ShareInv, PromisedInv
<1>2. ecl[t] # NoVersion
  BY <1>1 DEF CalmInv, ShareInv, EclInv, TornAt, Live
<1>3. t \in Tx /\ ecl[t] \in Version \cup {NoVersion}
  BY Shapes0 DEF Live
<1> QED BY <1>1, <1>2, <1>3

(* A print has references if and only if a counted version contains it.       *)
LEMMA UsedIff ==
    ASSUME TypeOK, CalmInv, NEW p \in Prints
    PROVE  /\ Cardinality(Users(p)) \in Nat
           /\ Cardinality(Users(p)) # 0 <=> \E v \in Counted : p \in Ecl[v]
<1>1. IsFiniteSet(Users(p))
  BY PromisedFinite
<1>2. Users(p) # {} <=> \E v \in Counted : p \in Ecl[v]
  BY DEF Users
<1> QED BY <1>1, <1>2, FS_EmptySet, FS_CardinalityType

(* Steps that neither count nor promise.                                      *)
LEMMA RefQuiet ==
    ASSUME TypeOK, Calm, SealTrusted, CalmInv, RefInv, [Next]_vars, ~Counts,
           ~PurgeFinish
    PROVE  RefInv'
<1>1. CASE ~Loaded'
  BY <1>1 DEF RefInv
<1>2. CASE Loaded'
  <2>1. Loaded /\ promised' = promised
    BY <1>2, LoadedStep, PromisedKept DEF Counts, CalmInv, OrphanInv
  <2>2. ref' = ref
    BY <1>2, CountsKept, FailUnloads DEF Counts, CalmInv
  <2>3. ~Replaying' => ~Replaying /\ Counted' = Counted
    <3>1. CASE op' = op
      BY <2>1, <3>1 DEF Replaying, Counted, Uncounted, At
    <3>2. CASE Keeps
      BY <2>1, <3>2 DEF Keeps, Counted
    <3>3. CASE op = NoOp /\ ~Uncounted'
      BY <2>1, <3>3 DEF NoOp, Replaying, Counted, Uncounted, At
    <3>4. CASE op' = NoOp /\ UnnukeSync
      BY <2>1, <3>4 DEF UnnukeSync, NoOp, Replaying, Counted, Uncounted, At
    <3>5. CASE op' = NoOp /\ Stops
      <4>1. op = NoOp
        BY <1>2, <3>5, FailUnloads, CrashUnloads
           DEF Stops, Shutdown, CalmInv, PcInv
      <4> QED BY <2>1, <3>5, <4>1 DEF Replaying, Counted, Uncounted, At
    <3> QED BY <3>1, <3>2, <3>3, <3>4, <3>5, JobMoves
  <2> QED BY <2>1, <2>2, <2>3 DEF RefInv, Users
<1> QED BY <1>1, <1>2

(* An ECL of the store is one of the sets of prints.                          *)
LEMMA EclIs == \A v \in Version : Ecl[v] \subseteq Prints
  BY DataStoreAssumption

(* commitVault promises a version that is not counted yet.                    *)
LEMMA VaultedRef ==
    ASSUME TypeOK, SealTrusted, CalmInv, RefInv, CommitVaulted
    PROVE  RefInv'
<1>1. /\ op \in Job /\ op.kind = "commit" /\ op.pc = "vaulted" /\ Loaded
      /\ ref' = ref
  BY AtJob, Shapes0 DEF CommitVaulted, KindInv
<1>2. Counted = promised /\ ~Replaying
  BY <1>1 DEF Counted, Uncounted, At, Replaying
<1>3. Counted' = promised
  <2>1. CASE flag[op.tx].state = "Active" /\ \A t \in Tx : vver[t] # op.ver
    <3>1. op.ver \notin promised
      <4>1. \A t \in Live : vver[t] = ecl[t]
        BY <1>1 DEF CalmInv, VverInv, At, Live
      <4> QED BY <2>1, <4>1, PromisedHas DEF Live
    <3>2. op'.kind = "commit" /\ op'.pc = "incr" /\ op'.ver = op.ver
      BY <1>1, <2>1, GotoDoes DEF CommitVaulted
    <3>3. promised' = promised \cup {op.ver}
      BY <2>1 DEF CommitVaulted
    <3> QED BY <3>1, <3>2, <3>3 DEF Counted, Uncounted, At
  <2>2. CASE ~(flag[op.tx].state = "Active" /\ \A t \in Tx : vver[t] # op.ver)
    <3>1. op' = NoOp /\ promised' = promised
      BY <2>2 DEF CommitVaulted
    <3> QED BY <3>1 DEF Counted, Uncounted, At, NoOp
  <2> QED BY <2>1, <2>2
<1> QED BY <1>1, <1>2, <1>3 DEF RefInv, Users

(* The increment counts it.                                                   *)
LEMMA IncrementRef ==
    ASSUME TypeOK, SealTrusted, CalmInv, RefInv, CommitIncrement
    PROVE  RefInv'
<1>1. /\ op \in Job /\ op.kind = "commit" /\ op.pc = "incr" /\ Loaded
      /\ AddRef(Ecl[op.ver], 1) /\ promised' = promised
      /\ ref \in [Prints -> Int]
  BY AtJob, Shapes0 DEF CommitIncrement, KindInv, Increment, TypeOK, Types, CacheType
<1>2. Counted = promised \ {op.ver} /\ ~Replaying
  BY <1>1 DEF Counted, Uncounted, At, Replaying
<1>3. Counted' = promised
  BY <1>1, GotoDoes DEF CommitIncrement, Counted, Uncounted, At
<1>4. PICK v \in promised : v = op.ver
  BY <1>1 DEF CalmInv, JobInv, CommitJob, ShareInv, PromisedInv
<1>5. ASSUME NEW p \in Prints
      PROVE  ref'[p] = Cardinality(Users(p)')
  <2>1. ref[p] = Cardinality(Users(p)) /\ ref[p] \in Nat /\ IsFiniteSet(Users(p))
    BY <1>1, <1>2, UsedIff, PromisedFinite DEF RefInv
  <2>2. Users(p)' = IF p \in Ecl[v] THEN Users(p) \cup {v} ELSE Users(p)
    BY <1>2, <1>3, <1>4 DEF Users
  <2>3. v \notin Users(p)
    BY <1>2, <1>4 DEF Users
  <2>4. ref'[p] = IF p \in Ecl[v] THEN ref[p] + 1 ELSE ref[p]
    BY <1>1, <1>4, <2>1 DEF AddRef
  <2>5. PICK U : U = Users(p)
    OBVIOUS
  <2>6. Cardinality(U \cup {v}) = Cardinality(U) + 1
    BY <2>1, <2>3, <2>5, FS_AddElement
  <2>7. p \in Ecl[v] => Users(p)' = U \cup {v}
    BY <2>2, <2>5
  <2>8. p \notin Ecl[v] => Users(p)' = U
    BY <2>2, <2>5
  <2> QED BY <2>1, <2>4, <2>5, <2>6, <2>7, <2>8
<1> QED BY <1>5 DEF RefInv

(* A delete is counted off before it takes the promise back.                  *)
LEMMA DecrementRef ==
    ASSUME TypeOK, SealTrusted, CalmInv, RefInv, DeleteDecrement
    PROVE  RefInv'
<1>1. /\ op \in Job /\ op.kind = "delete" /\ op.pc = "decr" /\ Loaded
      /\ promised' = promised /\ ref \in [Prints -> Int]
  BY AtJob, Shapes0 DEF DeleteDecrement, KindInv, TypeOK, Types, CacheType
<1>2. Counted = promised /\ ~Replaying
  BY <1>1 DEF Counted, Uncounted, At, Replaying
<1>3. op.target \in Live /\ op.target \in Tx
  BY <1>1 DEF CalmInv, JobInv, DeleteJob, CleanPc, Live
<1>4. PICK v \in promised : v = ecl[op.target]
  BY <1>3 DEF CalmInv, ShareInv, PromisedInv
<1>5. v \in Version /\ v # NoVersion
  BY <1>4, PromisedHas, DataStoreAssumption
<1>6. op'.pc = "putEcl" /\ op'.ver = v /\ op'.kind = "delete"
  BY <1>1, <1>4, <1>5, DecrementDoes
<1>7. AddRef(Ecl[v], -1)
  BY <1>4, <1>5 DEF DeleteDecrement, Decrement, EclPrints
<1>8. Counted' = promised \ {v}
  BY <1>1, <1>6 DEF Counted, Uncounted, At
<1>9. ASSUME NEW p \in Prints
      PROVE  ref'[p] = Cardinality(Users(p)')
  <2>1. ref[p] = Cardinality(Users(p)) /\ ref[p] \in Nat /\ IsFiniteSet(Users(p))
    BY <1>1, <1>2, UsedIff, PromisedFinite DEF RefInv
  <2>2. Users(p)' = IF p \in Ecl[v] THEN Users(p) \ {v} ELSE Users(p)
    BY <1>2, <1>8 DEF Users
  <2>3. p \in Ecl[v] => v \in Users(p) /\ ref[p] > 0
    <3>1. p \in Ecl[v] => v \in Counted /\ v \in Users(p)
      BY <1>2 DEF Users
    <3>2. p \in Ecl[v] => Cardinality(Users(p)) # 0
      BY <3>1, UsedIff
    <3> QED BY <2>1, <3>1, <3>2
  <2>4. ref'[p] = IF p \in Ecl[v] THEN ref[p] - 1 ELSE ref[p]
    BY <1>1, <1>7, <2>1, <2>3 DEF AddRef
  <2>5. PICK U : U = Users(p)
    OBVIOUS
  <2>6. v \in U => Cardinality(U \ {v}) = Cardinality(U) - 1
    BY <2>1, <2>5, FS_RemoveElement
  <2>7. p \in Ecl[v] => Users(p)' = U \ {v}
    BY <2>2, <2>5
  <2>8. p \notin Ecl[v] => Users(p)' = U
    BY <2>2, <2>5
  <2> QED BY <2>1, <2>3, <2>4, <2>5, <2>6, <2>7, <2>8
<1> QED BY <1>9 DEF RefInv

(* commitDelete takes the promise back.                                       *)
LEMMA DelFlagsRef ==
    ASSUME TypeOK, SealTrusted, CalmInv, RefInv, CommitDeleteFlags
    PROVE  /\ RefInv' /\ promised' = promised \ {op.ver}
           /\ op.kind = "delete" /\ op'.kind = "delete" /\ op'.ver = op.ver
<1>1. /\ op \in Job /\ op.kind = "delete" /\ op.pc = "delFlags" /\ Loaded
      /\ ref' = ref /\ op.target \in Live
      /\ \A t \in Tx : Settled(t)
  BY AtJob, Shapes0
     DEF CommitDeleteFlags, KindInv, FluxPc, CleanPc, cache, CalmInv, JobInv, DeleteJob
<1>2. flag[op.target].state = "Vaulted"
  BY <1>1, SettledRow DEF Live, V0, NoRow
<1>3. promised' = promised \ {op.ver} /\ Goto("delLog")
  BY <1>2 DEF CommitDeleteFlags
<1>4. Counted = promised \ {op.ver} /\ ~Replaying
  BY <1>1 DEF Counted, Uncounted, At, Replaying
<1>5. Counted' = promised' /\ op'.kind = "delete" /\ op'.ver = op.ver
  BY <1>1, <1>3, GotoDoes DEF Counted, Uncounted, At
<1> QED BY <1>1, <1>3, <1>4, <1>5 DEF RefInv, Users

(* createVaultLog reads the counts.                                           *)
LEMMA DeltaRef ==
    ASSUME TypeOK, SealTrusted, CalmInv, RefInv, CreateVaultLog
    PROVE  RefInv'
<1>1. /\ op \in Job /\ op.kind = "vault" /\ op.pc = "delta" /\ Loaded
      /\ ref' = ref /\ promised' = promised
  BY AtJob, Shapes0 DEF CreateVaultLog, KindInv, cache
<1>2. Counted = promised /\ ~Replaying
  BY <1>1 DEF Counted, Uncounted, At, Replaying
<1>3. Counted' = promised
  <2>1. CASE op.ver \in ListedVersions
    BY <1>1, <2>1 DEF CreateVaultLog, Counted, Uncounted, At, NoOp
  <2>2. CASE op.ver \notin ListedVersions
    BY <1>1, <2>2, DeltaDoes DEF Counted, Uncounted, At
  <2> QED BY <2>1, <2>2
<1> QED BY <1>1, <1>2, <1>3 DEF RefInv, Users

----------------------------------------------------------------------------
(* A load, a rebuild and the end of a batch                                   *)

(* As many transactions as versions use a print.                              *)
LEMMA UserTxs ==
    ASSUME TypeOK, CalmInv, NEW p \in Prints
    PROVE  Cardinality({t \in Live : p \in EclPrints(t)})
              = Cardinality({v \in promised : p \in Ecl[v]})
<1> DEFINE S == {t \in Live : p \in EclPrints(t)}
           W == {v \in promised : p \in Ecl[v]}
           f == [t \in S |-> ecl[t]]
<1>1. IsFiniteSet(W)
  <2>1. W \in SUBSET promised
    OBVIOUS
  <2> QED BY <2>1, PromisedFinite, FS_Subset
<1>2. /\ promised = {ecl[t] : t \in Live}
      /\ \A s, t \in Live : ecl[s] = ecl[t] => s = t
  BY DEF CalmInv, ShareInv, PromisedInv
<1>3. \A t \in Live : ecl[t] # NoVersion /\ EclPrints(t) = Ecl[ecl[t]]
  BY DEF CalmInv, ShareInv, EclInv, TornAt, Live, EclPrints
<1>4. f \in [S -> W]
  BY <1>2, <1>3
<1>5. f \in Injection(S, W)
  BY <1>2, <1>4 DEF Injection, IsInjective
<1>6. f \in Surjection(S, W)
  BY <1>2, <1>3, <1>4 DEF Surjection
<1> HIDE DEF S, W, f
<1>7. Cardinality(S) = Cardinality(W)
  BY <1>1, <1>5, <1>6, FS_Injection
<1> QED BY <1>7 DEF S, W

(* The vaults that the cache lists, outside of a cleanup.                     *)
LEMMA ListedThen ==
    ASSUME TypeOK, CalmInv, Loaded, op.kind = "none" \/ op.pc \notin FluxPc
    PROVE  Listed = Live /\ Enumerated = Live /\ \A t \in Live : flag[t] = V0
<1>1. \A t \in Tx : Settled(t)
  BY NoFlux DEF CalmInv
<1>2. \A t \in Tx : vver[t] = IF t \in Live THEN ecl[t] ELSE NoVersion
  BY DEF CalmInv, VverInv, At, FluxPc
<1>3. ASSUME NEW t \in Live PROVE flag[t] = V0 /\ ecl[t] # NoVersion
  <2>1. t \in Tx /\ Made[t] = V0 /\ t \notin delLog
    BY DEF Live
  <2>2. flag[t] = V0
    BY <1>1, <2>1, SettledRow DEF V0, NoRow
  <2> QED BY <2>1, <2>2 DEF CalmInv, ShareInv, EclInv, TornAt
<1>4. Listed = Live
  BY <1>2, <1>3 DEF Listed, V0, Live
<1>5. \A t \in Live, d \in Tx : flag[d].del # t
  <2> SUFFICES ASSUME NEW t \in Live, NEW d \in Tx PROVE flag[d].del # t
    OBVIOUS
  <2>1. flag[d] = Made[d] \/ flag[d] = R0
    BY <1>1 DEF Settled
  <2> QED BY <2>1, Shapes0 DEF Live, R0
<1> QED BY <1>3, <1>4, <1>5 DEF Enumerated

(* A rebuild counts the listed vaults.                                        *)
LEMMA ReplayRef ==
    ASSUME TypeOK, CalmInv, SyncReplay
    PROVE  RefInv' /\ RowInv'
<1>1. /\ op \in Job /\ op.kind = "sync" /\ op.pc = "replay" /\ Loaded
      /\ promised' = promised
  BY AtJob, Shapes0 DEF SyncReplay, KindInv
<1>2. /\ Enumerated = Live /\ \A t \in Live : flag[t].del = 0
  BY <1>1, ListedThen DEF FluxPc, CleanPc, V0
<1>3. \A p \in Prints : /\ ref'[p] = Cardinality({t \in Live : p \in EclPrints(t)})
                        /\ \A t \in Live : EclPrints(t) \subseteq rows'
  <2>1. {t \in Enumerated : flag[t].del = 0} = Live
    BY <1>2
  <2> QED BY <2>1 DEF SyncReplay
<1>4. op'.kind = "sync" /\ op'.pc = "rollback"
  BY <1>1, GotoDoes DEF SyncReplay
<1>5. Counted' = promised
  BY <1>1, <1>4 DEF Counted, Uncounted, At
<1>6. ASSUME NEW p \in Prints
      PROVE  /\ ref'[p] = Cardinality(Users(p)')
             /\ ref'[p] > 0 => p \in rows'
  <2>1. ref'[p] = Cardinality({v \in promised : p \in Ecl[v]})
    BY <1>3, UserTxs
  <2>2. Users(p)' = {v \in promised : p \in Ecl[v]}
    BY <1>5 DEF Users
  <2>3. PICK S : S = {t \in Live : p \in EclPrints(t)}
    OBVIOUS
  <2>4. S = {} => ref'[p] = 0
    BY <1>3, <2>3, FS_EmptySet
  <2>5. S # {} => p \in rows'
    BY <1>3, <2>3
  <2> QED BY <2>1, <2>2, <2>4, <2>5
<1> QED BY <1>6 DEF RefInv, RowInv

(* A load empties the tables, and a rebuild follows.                          *)
LEMMA LoadRef ==
    ASSUME TypeOK, CalmInv, SyncLoad PROVE RefInv' /\ RowInv'
<1>1. op \in Job /\ op.kind = "sync" /\ op.pc = "load" /\ op.ret = "replay"
  BY Shapes0 DEF SyncLoad, At, CalmInv, PcInv, KindInv
<1>2. Goto("clean")
  <2>1. LoadFailsAt = {}
    BY <1>1, LoadReadsAll DEF Torn
  <2> QED BY <2>1 DEF SyncLoad
<1>3. Replaying'
  BY <1>1, <1>2, GotoDoes DEF Replaying
<1>4. \A p \in Prints : ref'[p] = 0
  BY DEF SyncLoad
<1> QED BY <1>3, <1>4 DEF RefInv, RowInv

(* The prints of a batch had no references, and have none.                    *)
LEMMA FinishRef ==
    ASSUME TypeOK, CalmInv, RefInv, RowInv, BatchInv, PurgeFinish, [Next]_vars
    PROVE  RefInv' /\ RowInv'
<1>1. /\ op' = op /\ promised' = promised /\ Counted' = Counted
      /\ Replaying' = Replaying
  BY DEF PurgeFinish, Counted, Uncounted, Replaying, At
<1>2. Loaded' => Loaded
  <2>1. seal \in [unsync: BOOLEAN, log: Log]
    BY DEF TypeOK, Types, CacheType
  <2>2. ~seal'.unsync => ~seal.unsync
    BY <2>1 DEF PurgeFinish, Nuke
  <2>3. open' = open
    BY DEF PurgeFinish
  <2> QED BY <1>1, <2>2, <2>3 DEF Loaded, VaultOpen
<1>3. CASE ref' = ref /\ rows' = rows
  BY <1>1, <1>2, <1>3 DEF RefInv, RowInv, Users
<1>4. CASE /\ rows' = rows \ purge.batch
           /\ ref' = [p \in Prints |-> IF p \in purge.batch THEN 0 ELSE ref[p]]
  <2>1. RowInv'
    BY <1>4 DEF RowInv
  <2>2. ASSUME NEW p \in purge.batch, p \in Prints
        PROVE  Cardinality(Users(p)) = 0
    <3>1. p \notin Kept
      BY <2>2 DEF BatchInv, PurgeFinish
    <3> QED BY <2>2, <3>1, UsedIff DEF Kept, Counted
  <2>3. \A p \in Prints : Users(p)' = Users(p)
    BY <1>1 DEF Users
  <2> QED BY <1>1, <1>2, <1>4, <2>1, <2>2, <2>3 DEF RefInv
<1> QED BY <1>3, <1>4 DEF PurgeFinish

(* A print with references has a row.                                         *)
LEMMA RowStep ==
    ASSUME TypeOK, CalmInv, RefInv, RowInv, BatchInv, [Next]_vars PROVE RowInv'
<1>1. ref \in [Prints -> Int] /\ rows \subseteq Prints
  BY DEF TypeOK, Types, CacheType
<1>2. CASE \E S, n : AddRef(S, n)
  BY <1>1, <1>2 DEF AddRef, RowInv
<1>3. CASE CommitIncrement \/ DeleteDecrement
  BY <1>2, <1>3 DEF CommitIncrement, DeleteDecrement, Increment, Decrement, RowInv
<1>4. CASE Fail
  BY <1>2, <1>4 DEF Fail, RowInv
<1>5. CASE PurgeFinish
  BY <1>5, FinishRef
<1>6. CASE SyncLoad \/ SyncReplay
  BY <1>6, LoadRef, ReplayRef
<1>7. CASE ref' = ref /\ rows \subseteq rows'
  BY <1>7 DEF RowInv
<1> QED BY <1>3, <1>4, <1>5, <1>6, <1>7, CountsKept

(* The counts stay right.                                                     *)
LEMMA RefStep ==
    ASSUME TypeOK, Calm, SealTrusted, CalmInv, RefInv, RowInv, BatchInv, [Next]_vars
    PROVE  RefInv'
BY RefQuiet, VaultedRef, DelFlagsRef, IncrementRef, DecrementRef, DeltaRef,
   LoadRef, ReplayRef, FinishRef DEF Counts

----------------------------------------------------------------------------
(* The blocks of promised versions and of open vaults                         *)

(* Vaults are opened by the end of a job, and closed by another.              *)
LEMMA OpenKept ==
    ASSUME [Next]_vars, ~UnnukeSync, ~Sends, ~Stops, ~CommitVaulted
    PROVE  open' = open
<1>1. CASE FileStep
  BY <1>1 DEF FileStep, CleanWriteLog, CleanRemoveFile, CleanDump, CleanDropLog,
     CleanCommit, CreateTxBegin, PutEcl, CommitBeginFlags, CommitBeginLog,
     CommitDeleteFlags, CommitDeleteLog, SyncLoad, SyncRollback
<1>2. CASE Starts
  BY <1>2 DEF Starts, MakeVault, MakeDelete, CommitVault, SyncRebuild, PurgeReconcile
<1>3. CASE Goes
  BY <1>3 DEF Goes, CleanChoose, CreateVaultLog, CommitIncrement, DeleteDecrement,
     SyncReplay
<1>4. CASE Purges \/ SyncTrusted \/ UNCHANGED vars
  BY <1>4 DEF Purges, StartPurge, PurgeTake, PurgeGiveUp, PurgeAsk, PurgeDelete,
     PurgeFinish, PurgeEnd, SyncTrusted, vars, engine
<1> QED BY <1>1, <1>2, <1>3, <1>4, AllSteps DEF Waits

(* What a purge does to its batch.                                            *)
LEMMA BatchMoves ==
    ASSUME TypeOK, [Next]_vars, ~StartPurge
    PROVE  /\ purge'.pc # "idle" => purge.pc # "idle"
           /\ purge'.pc \in {"delete", "unlink", "finish"} =>
                 \/ PurgeTake /\ purge'.batch \subseteq ZeroRows
                 \/ /\ purge.pc \in {"delete", "unlink", "finish"}
                    /\ purge'.batch \subseteq purge.batch
<1>1. purge \in Purge
  BY DEF TypeOK, Types, EngineType
<1>2. CASE purge' = purge \/ purge' = NoPurge
  BY <1>2 DEF NoPurge
<1>3. CASE PurgeTake
  <2>1. PICK S \in SUBSET ZeroRows :
           purge' = [purge EXCEPT !.batch = S \ purge.conflicts, !.pc = "delete"]
    BY <1>3 DEF PurgeTake
  <2> QED BY <1>3, <2>1, <1>1 DEF PurgeTake, Purge
<1>4. CASE PurgeAsk \/ PurgeDelete \/ PurgeFinish \/ PurgeReconcile
  <2>1. PurgeAsk => /\ purge.pc = "delete" /\ purge'.batch \subseteq purge.batch
    BY <1>1 DEF PurgeAsk, Purge
  <2>2. PurgeDelete => /\ purge.pc = "unlink" /\ purge'.batch = purge.batch
    BY <1>1 DEF PurgeDelete, Purge
  <2>3. PurgeFinish => /\ purge.pc = "finish" /\ purge'.pc \in {"loop", "idle"}
    <3>1. PurgeFinish => \/ purge' = NoPurge
                         \/ purge' = [purge EXCEPT !.batch = {}, !.pc = "loop"]
      BY DEF PurgeFinish
    <3>2. PurgeFinish => purge.pc = "finish"
      BY DEF PurgeFinish
    <3>3. /\ [purge EXCEPT !.batch = {}, !.pc = "loop"].pc = "loop"
          /\ NoPurge.pc = "idle"
      BY <1>1 DEF Purge, NoPurge
    <3> QED BY <3>1, <3>2, <3>3
  <2>4. PurgeReconcile => /\ purge.pc = "loop" /\ purge'.pc = "reconcile"
    BY <1>1 DEF PurgeReconcile, Purge
  <2> QED BY <1>4, <2>1, <2>2, <2>3, <2>4
<1>5. FileStep => purge' = purge
  BY DEF FileStep, CleanWriteLog, CleanRemoveFile, CleanDump, CleanDropLog,
     CleanCommit, CreateTxBegin, PutEcl, CommitBeginFlags, CommitBeginLog,
     CommitVaulted, CommitDeleteFlags, CommitDeleteLog, SyncLoad, SyncRollback
<1>6. Starts => purge' = purge \/ PurgeReconcile
  BY DEF Starts, MakeVault, MakeDelete, CommitVault, SyncRebuild
<1>7. Goes => purge' = purge \/ purge' = NoPurge
  BY DEF Goes, CleanChoose, CreateVaultLog, CommitIncrement, DeleteDecrement,
     SyncReplay, UnnukeSync
<1>8. Stops => purge' = purge \/ purge' = NoPurge
  BY DEF Stops, Fail, Crash, Shutdown, FreshEngine
<1>9. Sends \/ SyncTrusted \/ UNCHANGED vars => purge' = purge
  BY DEF Sends, VaultNext, SendPrint, VaultUnregister, VaultAbort, SyncTrusted,
     vars, engine
<1>10. PurgeGiveUp \/ PurgeEnd => purge' = NoPurge
  BY DEF PurgeGiveUp, PurgeEnd
<1> QED BY <1>2, <1>3, <1>4, <1>5, <1>6, <1>7, <1>8, <1>9, <1>10, AllSteps
           DEF Waits, Purges

(* A vault is complete when it is promised, and no purge has taken a block    *)
(* of a promised version.                                                     *)
LEMMA KeptStep ==
    ASSUME TypeOK, SealTrusted, CalmInv, RefInv, SentInv, BatchInv, [Next]_vars
    PROVE  Kept' \subseteq blocks'
<1>1. CASE CommitVaulted
  <2>1. op \in Job /\ op.kind = "commit" /\ op.pc = "vaulted" /\ blocks' = blocks
    BY <1>1, AtJob, Shapes0 DEF CommitVaulted, KindInv
  <2>2. PICK t \in Tx : t = op.tx
    BY <2>1 DEF CalmInv, JobInv, CommitJob
  <2>3. /\ open[t].phase = "unregistered" /\ open[t].ver = op.ver
        /\ open[t].todo = {} /\ open[t].cur = {}
    BY <2>1, <2>2 DEF CalmInv, JobInv, CommitJob, OpenInv
  <2>4. Ecl[op.ver] \subseteq blocks
    BY <2>3 DEF SentInv
  <2>5. promised' \subseteq promised \cup {op.ver}
    BY <1>1 DEF CommitVaulted
  <2> QED BY <2>1, <2>4, <2>5 DEF SentInv, Kept
<1>2. CASE CommitDeleteFlags
  <2>1. promised' \subseteq promised /\ blocks' = blocks
    BY <1>2 DEF CommitDeleteFlags
  <2> QED BY <2>1 DEF SentInv, Kept
<1>3. CASE PurgeDelete
  <2>1. promised' = promised /\ blocks \ purge.batch \subseteq blocks'
        /\ purge.pc = "unlink"
    BY <1>3 DEF PurgeDelete
  <2> QED BY <2>1 DEF SentInv, BatchInv, Kept
<1>4. CASE ~CommitVaulted /\ ~CommitDeleteFlags /\ ~PurgeDelete
  BY <1>4, PromisedKept, BlocksKept DEF SentInv, Kept
<1> QED BY <1>1, <1>2, <1>3, <1>4

(* What a sender has not on the share is still to be sent.                    *)
LEMMA OpenBlocks ==
    ASSUME TypeOK, Calm, SealTrusted, CalmInv, SentInv, [Next]_vars, NEW t \in Tx,
           open'[t].phase # "none"
    PROVE  Ecl[open'[t].ver] \subseteq blocks' \cup open'[t].todo \cup open'[t].cur
<1>1. open \in [Tx -> Vault] /\ op \in Job
  BY Shapes0 DEF TypeOK, Types, EngineType
<1>2. ~Stops
  BY StopsClose DEF CalmInv
<1>3. CASE UnnukeSync
  <2>1. op.kind # "none" /\ op.pc = "seal" /\ blocks' = blocks
    BY <1>3 DEF UnnukeSync, At, share
  <2>2. CASE op.kind = "vault" /\ t = op.tx
    <3>1. open'[t].ver = op.ver /\ open'[t].todo = op.delta
      BY <1>1, <1>3, <2>2 DEF UnnukeSync, NoVault
    <3> QED BY <2>1, <2>2, <3>1 DEF SentInv, SentPc
  <2>3. CASE ~(op.kind = "vault" /\ t = op.tx)
    <3>1. open'[t] = open[t]
      BY <1>1, <1>3, <2>3 DEF UnnukeSync, NoVault
    <3> QED BY <2>1, <3>1 DEF SentInv
  <2> QED BY <2>2, <2>3
<1>4. CASE CommitVaulted
  <2>1. open'[t] = open[t] /\ blocks' = blocks
    BY <1>1, <1>4 DEF CommitVaulted, NoVault
  <2> QED BY <2>1 DEF SentInv
<1>5. ASSUME NEW u \in Tx, NEW p \in Prints, VaultNext(u, p)
      PROVE  Ecl[open'[t].ver] \subseteq blocks' \cup open'[t].todo \cup open'[t].cur
  <2>1. /\ open'[t].ver = open[t].ver /\ open[t].phase # "none" /\ blocks' = blocks
        /\ open[t].todo \cup open[t].cur \subseteq open'[t].todo \cup open'[t].cur
    BY <1>1, <1>5 DEF VaultNext, share, Vault
  <2> QED BY <2>1 DEF SentInv
<1>6. ASSUME NEW u \in Tx, NEW p \in Prints, SendPrint(u, p)
      PROVE  Ecl[open'[t].ver] \subseteq blocks' \cup open'[t].todo \cup open'[t].cur
  <2>1. /\ open'[t].ver = open[t].ver /\ open[t].phase # "none"
        /\ open'[t].todo = open[t].todo /\ open[t].cur \subseteq open'[t].cur \cup {p}
        /\ blocks' = blocks \cup {p}
    BY <1>1, <1>6 DEF SendPrint, Vault
  <2> QED BY <2>1 DEF SentInv
<1>7. ASSUME NEW u \in Tx, VaultUnregister(u) \/ VaultAbort(u)
      PROVE  Ecl[open'[t].ver] \subseteq blocks' \cup open'[t].todo \cup open'[t].cur
  <2>1. CASE VaultUnregister(u)
    <3>1. /\ open'[t].ver = open[t].ver /\ open[t].phase # "none" /\ blocks' = blocks
          /\ open'[t].todo = open[t].todo /\ open'[t].cur = open[t].cur
      BY <1>1, <2>1 DEF VaultUnregister, share, Vault
    <3> QED BY <3>1 DEF SentInv
  <2>2. CASE VaultAbort(u)
    <3>1. open'[t] = open[t] /\ blocks' = blocks
      BY <1>1, <2>2 DEF VaultAbort, share, NoVault
    <3> QED BY <3>1 DEF SentInv
  <2> QED BY <1>7, <2>1, <2>2
<1>8. CASE Sends
  BY <1>5, <1>6, <1>7, <1>8 DEF Sends
<1>9. CASE ~UnnukeSync /\ ~Sends /\ ~CommitVaulted
  <2>1. open' = open
    BY <1>2, <1>9, OpenKept
  <2>2. PurgeDelete => open[t].phase = "none"
    BY DEF PurgeDelete, CalmInv, PurgeInv, VaultOpen
  <2> QED BY <2>1, <2>2, BlocksKept DEF SentInv
<1> QED BY <1>3, <1>4, <1>8, <1>9

----------------------------------------------------------------------------
(* The rows that a purge takes                                                *)

(* The kinds of the jobs that count and promise.                              *)
LEMMA CountsKinds ==
    ASSUME TypeOK, SealTrusted, CalmInv, Counts, ~CreateVaultLog
    PROVE  op'.kind # "vault"
<1>1. op \in Job
  BY Shapes0
<1>2. CASE CommitVaulted
  <2>1. op.kind = "commit"
    BY <1>2, AtJob DEF CommitVaulted, KindInv
  <2>2. op' = NoOp \/ Goto("incr")
    BY <1>2 DEF CommitVaulted
  <2> QED BY <1>1, <2>1, <2>2, GotoDoes DEF NoOp
<1>3. CASE CommitDeleteFlags
  <2>1. op.kind = "delete"
    BY <1>3, AtJob DEF CommitDeleteFlags, KindInv
  <2>2. op' = NoOp \/ Goto("delLog")
    BY <1>3 DEF CommitDeleteFlags
  <2> QED BY <1>1, <2>1, <2>2, GotoDoes DEF NoOp
<1>4. CASE CommitIncrement
  <2>1. op.kind = "commit"
    BY <1>4, AtJob DEF CommitIncrement, KindInv
  <2> QED BY <1>1, <1>4, <2>1, GotoDoes DEF CommitIncrement
<1>5. CASE DeleteDecrement
  <2>1. op.kind = "delete"
    BY <1>5, AtJob DEF DeleteDecrement, KindInv
  <2> QED BY <1>1, <1>5, <2>1, DecrementDoes DEF DeleteDecrement, NoOp
<1>6. CASE SyncLoad
  <2>1. op.kind = "sync"
    BY <1>6 DEF SyncLoad, At, CalmInv, PcInv, KindInv
  <2>2. op' = NoOp \/ Goto("clean")
    BY <1>6 DEF SyncLoad
  <2> QED BY <1>1, <2>1, <2>2, GotoDoes DEF NoOp
<1>7. CASE SyncReplay
  <2>1. op.kind = "sync"
    BY <1>7, AtJob DEF SyncReplay, KindInv
  <2> QED BY <1>1, <1>7, <2>1, GotoDoes DEF SyncReplay
<1> QED BY <1>2, <1>3, <1>4, <1>5, <1>6, <1>7 DEF Counts

(* A vault does not send what promised versions hold: that is on the share.   *)
LEMMA DeltaBlocks ==
    ASSUME TypeOK, Calm, SealTrusted, CalmInv, RefInv, SentInv, [Next]_vars,
           op'.kind = "vault", op'.pc \in SentPc
    PROVE  Ecl[op'.ver] \subseteq blocks' \cup op'.delta
<1>1. op \in Job
  BY Shapes0
<1>2. CASE CreateVaultLog
  <2>1. /\ op.kind = "vault" /\ op.pc = "delta" /\ Loaded
        /\ blocks' = blocks /\ ref \in [Prints -> Int] /\ op.ver \in Version
    BY <1>2, AtJob
       DEF CreateVaultLog, KindInv, share, TypeOK, Types, CacheType, OpSound
  <2>2. op.ver \notin ListedVersions
    BY <1>2 DEF CreateVaultLog, NoOp
  <2>3. op'.ver = op.ver /\ op'.delta = {p \in Ecl[op.ver] : ref[p] <= 0}
    BY <1>1, <1>2, <2>2, DeltaDoes
  <2>4. ASSUME NEW p \in Ecl[op.ver], ~(ref[p] <= 0) PROVE p \in blocks
    <3>1. p \in Prints /\ ref[p] # 0
      BY <2>1, <2>4, EclIs
    <3>2. Cardinality(Users(p)) # 0
      BY <2>1, <3>1 DEF RefInv, Replaying
    <3>3. p \in Kept
      BY <3>1, <3>2, UsedIff DEF Counted, Kept
    <3> QED BY <3>3 DEF SentInv
  <2> QED BY <2>1, <2>3, <2>4
<1>3. CASE ~CreateVaultLog
  <2>1. ~Counts
    BY <1>3, CountsKinds
  <2>2. op.kind = "vault" /\ op.pc \in SentPc /\ op'.ver = op.ver /\ op'.delta = op.delta
    <3>1. op' # NoOp
      BY DEF NoOp
    <3> QED BY <2>1, <3>1, JobMoves DEF Keeps
  <2>3. ~PurgeDelete
    BY <2>2 DEF PurgeDelete, CalmInv, PurgeInv
  <2> QED BY <2>2, <2>3, BlocksKept DEF SentInv
<1> QED BY <1>2, <1>3

(* While a purge runs nothing gets promised, and no row of a promised print   *)
(* loses its references.                                                      *)
LEMMA ZeroStep ==
    ASSUME TypeOK, Calm, SealTrusted, CalmInv, RefInv, RowInv, BatchInv, [Next]_vars,
           purge'.pc # "idle"
    PROVE  (ZeroRows \cap Kept)' = {}
<1>1. CASE StartPurge
  <2>1. /\ op.kind = "none" /\ ~NeedsSync /\ promised' = promised
        /\ ref' = ref /\ rows' = rows
    BY <1>1 DEF StartPurge, cache
  <2>2. Loaded /\ ~Replaying /\ Counted = promised
    BY <2>1, SyncedLoaded DEF CalmInv, OrphanInv, Replaying, Counted, Uncounted, At
  <2>3. ASSUME NEW p \in ZeroRows PROVE p \notin Kept
    <3>1. p \in Prints /\ ref[p] = 0
      BY DEF ZeroRows, TypeOK, Types, CacheType
    <3>2. Cardinality(Users(p)) = 0
      BY <2>2, <3>1 DEF RefInv
    <3> QED BY <2>2, <3>1, <3>2, UsedIff DEF Kept
  <2>4. ZeroRows' = ZeroRows /\ Kept' = Kept
    BY <2>1 DEF ZeroRows, Kept
  <2> QED BY <2>3, <2>4
<1>2. CASE ~StartPurge
  <2>1. purge.pc # "idle" /\ ~VaultOpen /\ op.kind \in {"none", "sync", "recon"}
    BY <1>2, BatchMoves DEF CalmInv, PurgeInv
  <2>2. ~CommitVaulted /\ ~CommitDeleteFlags /\ ~CommitIncrement /\ ~DeleteDecrement
    BY <2>1, AtJob
       DEF CommitVaulted, CommitDeleteFlags, CommitIncrement, DeleteDecrement, KindInv
  <2>3. promised' = promised /\ Kept' = Kept
    BY <2>2, PromisedKept DEF Kept
  <2>4. CASE ZeroRows' \subseteq ZeroRows
    BY <2>1, <2>3, <2>4 DEF BatchInv
  <2>5. CASE SyncLoad
    BY <2>5 DEF SyncLoad, ZeroRows
  <2>6. CASE SyncReplay
    <3>1. op \in Job /\ op.kind = "sync" /\ op.pc = "replay" /\ Loaded
      BY <2>6, AtJob, Shapes0 DEF SyncReplay, KindInv
    <3>2. op'.kind = "sync" /\ op'.pc = "rollback" /\ seal' = seal
      BY <2>6, <3>1, GotoDoes DEF SyncReplay
    <3>3. \A p \in Prints : ref'[p] = Cardinality({t \in Live : p \in EclPrints(t)})
      <4>1. {t \in Enumerated : flag[t].del = 0} = Live
        BY <3>1, ListedThen DEF FluxPc, CleanPc, V0
      <4> QED BY <2>6, <4>1 DEF SyncReplay
    <3>4. ASSUME NEW p \in Prints, ref'[p] = 0 PROVE p \notin Kept
      <4>1. Counted = promised
        BY <3>1 DEF Counted, Uncounted, At
      <4>2. Cardinality(Users(p)) = 0
        BY <3>3, <3>4, <4>1, UserTxs DEF Users
      <4> QED BY <4>1, <4>2, UsedIff DEF Kept
    <3>5. Kept \subseteq Prints
      BY PromisedHas, EclIs DEF Kept
    <3> QED BY <2>3, <3>4, <3>5 DEF ZeroRows
  <2>7. CASE PurgeFinish
    BY <2>4, <2>7 DEF PurgeFinish, ZeroRows, TypeOK, Types, CacheType
  <2>8. CASE Fail
    <3>1. op.pc \notin {"incr", "decr"}
      BY <2>1, <2>8 DEF Fail, CalmInv, PcInv, KindInv
    <3> QED BY <2>4, <2>8, <3>1 DEF Fail, ZeroRows
  <2>9. ~Sends \/ rows' = rows
    BY <2>1 DEF Sends, VaultNext, SendPrint, VaultUnregister, VaultAbort, VaultOpen, cache
  <2>10. CASE ref' = ref /\ rows' = rows
    BY <2>4, <2>10 DEF ZeroRows
  <2> QED BY <2>2, <2>5, <2>6, <2>7, <2>8, <2>9, <2>10, CountsKept
<1> QED BY <1>1, <1>2

(* So a batch has none of a promised version.                                 *)
LEMMA BatchStep ==
    ASSUME TypeOK, Calm, SealTrusted, CalmInv, RefInv, RowInv, BatchInv, [Next]_vars
    PROVE  BatchInv'
<1>1. purge'.pc # "idle" => (ZeroRows \cap Kept)' = {}
  BY ZeroStep
<1>2. ASSUME purge'.pc \in {"delete", "unlink", "finish"}
      PROVE  purge'.batch \cap Kept' = {}
  <2>1. ~StartPurge
    BY <1>2 DEF StartPurge, NoPurge
  <2>2. purge.pc # "idle"
    BY <1>2, <2>1, BatchMoves
  <2>3. purge'.batch \cap Kept = {}
    BY <1>2, <2>1, <2>2, BatchMoves DEF BatchInv
  <2>4. ~CommitVaulted /\ ~CommitDeleteFlags
    BY <2>2, AtJob DEF CommitVaulted, CommitDeleteFlags, KindInv, CalmInv, PurgeInv
  <2>5. Kept' = Kept
    BY <2>4, PromisedKept DEF Kept
  <2> QED BY <2>3, <2>5
<1> QED BY <1>1, <1>2 DEF BatchInv

(* How vaults open and close.                                                 *)
LEMMA VaultMoves ==
    ASSUME TypeOK, CalmInv, [Next]_vars
    PROVE  \/ \A t \in Tx : /\ open'[t].ver = open[t].ver
                            /\ open'[t].phase = "none" <=> open[t].phase = "none"
           \/ /\ op'.kind = op.kind \/ op.kind = "commit"
              /\ \E t \in Tx : open' = [open EXCEPT ![t] = NoVault]
           \/ /\ UnnukeSync /\ op.kind = "vault" /\ op.tx \in Tx
              /\ open' = [open EXCEPT ![op.tx] = [NoVault EXCEPT
                            !.phase = "sending", !.ver = op.ver, !.todo = op.delta]]
           \/ (Crash \/ Shutdown) /\ open' = [t \in Tx |-> NoVault]
<1>1. open \in [Tx -> Vault] /\ op \in Job
  BY Shapes0 DEF TypeOK, Types, EngineType
<1>2. CASE open' = open
  BY <1>2
<1>3. CASE UnnukeSync
  <2>1. op.kind # "none" /\ op.pc = "seal"
    BY <1>3 DEF UnnukeSync, At
  <2>2. op.kind \in {"vault", "commit"} => op.tx \in Tx
    BY <2>1 DEF CalmInv, JobInv, VaultJob, CommitJob
  <2> QED BY <1>2, <1>3, <2>2 DEF UnnukeSync
<1>4. ASSUME NEW t \in Tx, NEW p \in Prints, VaultNext(t, p) \/ SendPrint(t, p)
      PROVE  \A u \in Tx : /\ open'[u].ver = open[u].ver
                           /\ open'[u].phase = "none" <=> open[u].phase = "none"
  <2>1. CASE VaultNext(t, p)
    BY <1>1, <2>1 DEF VaultNext, Vault
  <2>2. CASE SendPrint(t, p)
    BY <1>1, <2>2 DEF SendPrint, Vault
  <2> QED BY <1>4, <2>1, <2>2
<1>5. ASSUME NEW t \in Tx, VaultUnregister(t)
      PROVE  \A u \in Tx : /\ open'[u].ver = open[u].ver
                           /\ open'[u].phase = "none" <=> open[u].phase = "none"
  BY <1>1, <1>5 DEF VaultUnregister, Vault
<1>6. ASSUME NEW t \in Tx, VaultAbort(t)
      PROVE  op' = op /\ open' = [open EXCEPT ![t] = NoVault]
  BY <1>6 DEF VaultAbort
<1>7. CASE Sends
  BY <1>4, <1>5, <1>6, <1>7 DEF Sends
<1>8. CASE CommitVaulted
  <2>1. op.kind = "commit" /\ op.tx \in Tx
    BY <1>8 DEF CommitVaulted, At, CalmInv, PcInv, KindInv, JobInv, CommitJob
  <2> QED BY <1>2, <1>8, <2>1 DEF CommitVaulted
<1>9. CASE Fail
  <2>1. op.kind = "commit" => op.tx \in Tx
    BY DEF CalmInv, JobInv, CommitJob
  <2> QED BY <1>2, <1>9, <2>1 DEF Fail
<1>10. CASE Crash \/ Shutdown
  BY <1>10 DEF Crash, Shutdown, FreshEngine
<1> QED
  BY <1>2, <1>3, <1>7, <1>8, <1>9, <1>10, OpenKept DEF Stops

(* A vault that is not open has no version.                                   *)
LEMMA ClosedStep ==
    ASSUME TypeOK, CalmInv, ClosedInv, [Next]_vars PROVE ClosedInv'
<1>1. open \in [Tx -> Vault]
  BY DEF TypeOK, Types, EngineType
<1>2. NoVault.ver = NoVersion
  BY DEF NoVault
<1>3. ASSUME NEW t \in Tx, open' = [open EXCEPT ![t] = NoVault] PROVE ClosedInv'
  BY <1>1, <1>2, <1>3 DEF ClosedInv
<1>4. CASE UnnukeSync /\ op.kind = "vault" /\ op.tx \in Tx
  <2>1. \A t \in Tx : open'[t].phase = "none" => open'[t] = open[t]
    BY <1>1, <1>4 DEF UnnukeSync, NoVault
  <2> QED BY <2>1 DEF ClosedInv
<1>5. CASE open' = [t \in Tx |-> NoVault]
  BY <1>2, <1>5 DEF ClosedInv
<1>6. CASE \A t \in Tx : /\ open'[t].ver = open[t].ver
                         /\ open'[t].phase = "none" <=> open[t].phase = "none"
  BY <1>6 DEF ClosedInv
<1> QED BY <1>3, <1>4, <1>5, <1>6, VaultMoves

(* Together: blocks and counts stay right.                                    *)
LEMMA DurStep ==
    ASSUME TypeOK, Calm, SealTrusted, CalmInv, DurInv, [Next]_vars
    PROVE  DurInv'
<1>1. SentInv'
  BY KeptStep, OpenBlocks, DeltaBlocks DEF DurInv, SentInv
<1> QED BY <1>1, RefStep, RowStep, BatchStep, ClosedStep DEF DurInv

(* A new store has neither blocks nor counts.                                 *)
LEMMA DurInit == Init => DurInv
<1> SUFFICES ASSUME Init PROVE DurInv
  OBVIOUS
<1>1. /\ promised = {} /\ op = NoOp /\ rows = {} /\ purge.pc = "idle"
      /\ \A p \in Prints : ref[p] = 0
      /\ \A t \in Tx : open[t].phase = "none" /\ open[t].ver = NoVersion
  BY DEF Init, NoPurge, NoVault
<1>2. \A p \in Prints : Users(p) = {}
  BY <1>1 DEF Users, Counted
<1>3. RefInv /\ RowInv
  BY <1>1, <1>2, FS_EmptySet DEF RefInv, RowInv
<1>4. SentInv /\ BatchInv /\ ClosedInv
  BY <1>1 DEF SentInv, BatchInv, ClosedInv, Kept, NoOp
<1> QED BY <1>3, <1>4 DEF DurInv

----------------------------------------------------------------------------
(* Theorems                                                                   *)

(* The counts, the rows, the blocks and the batch of a purge stay what the    *)
(* promised versions need: DurInv, inductive together with CalmInv.           *)
THEOREM DurCorrect ==
    ASSUME Calm PROVE Spec => []DurInv
<1>1. TypeOK /\ SealTrusted /\ CalmInv /\ DurInv /\ [Next]_vars => DurInv'
  BY DurStep
<1> QED
  BY <1>1, DurInit, CalmCorrect, TypeCorrect, SealIsTrusted, PTL DEF Spec

(* What the store promised it can restore, at any moment: its state, its      *)
(* flags, its ECL and all of its blocks are on the share.                     *)
THEOREM PromisesKept ==
    ASSUME Calm PROVE Spec => []Durable
<1>1. TypeOK /\ CalmInv /\ DurInv => Durable
  <2> SUFFICES ASSUME TypeOK, CalmInv, DurInv, NEW v \in promised
               PROVE  \E t \in Tx : /\ txLog[t] = "Vaulted" /\ flagFile[t] = 0
                                    /\ ecl[t] = v /\ Ecl[v] \subseteq blocks
    BY DEF Durable
  <2>1. PICK t \in Live : ecl[t] = v
    BY PromisedHas
  <2>2. t \in Tx /\ Made[t] = V0
    BY <2>1 DEF Live
  <2>3. txLog[t] = "Vaulted" /\ flagFile[t] = 0
    BY <2>2 DEF Made, Materialize, V0, NoRow
  <2>4. Ecl[v] \subseteq blocks
    BY DEF DurInv, SentInv, Kept
  <2> QED BY <2>1, <2>2, <2>3, <2>4
<1> QED BY <1>1, DurCorrect, CalmCorrect, TypeCorrect, PTL

(* In sync, a print has as many references as there are listed versions that  *)
(* contain it, and a row if it has any.                                       *)
THEOREM CountsAreExact ==
    ASSUME Calm PROVE Spec => []RefcountsExact
<1>1. TypeOK /\ CalmInv /\ DurInv => RefcountsExact
  <2> SUFFICES ASSUME TypeOK, CalmInv, DurInv, InSync, NEW p \in Prints
               PROVE  /\ ref[p] = Cardinality({t \in Listed : p \in EclPrints(t)})
                      /\ ref[p] > 0 => p \in rows
    BY DEF RefcountsExact
  <2>1. Loaded /\ op.kind = "none"
    BY SyncedLoaded DEF InSync, CalmInv, OrphanInv
  <2>2. ~Replaying /\ Counted = promised
    BY <2>1 DEF Replaying, Counted, Uncounted, At
  <2>3. ref[p] = Cardinality({v \in promised : p \in Ecl[v]})
    BY <2>1, <2>2 DEF DurInv, RefInv, Users
  <2>4. Listed = Live
    BY <2>1, ListedThen
  <2> QED BY <2>3, <2>4, UserTxs DEF DurInv, RowInv
<1> QED BY <1>1, DurCorrect, CalmCorrect, TypeCorrect, PTL

(* What can be restored from the share is what was promised.                  *)
LEMMA RestorableIs ==
    ASSUME TypeOK, CalmInv, DurInv PROVE Restorable = promised
<1>1. \A t \in Tx : Made[t] = Materialize(t)
  BY DEF Made
<1>2. ASSUME NEW v \in promised PROVE v \in Restorable
  <2>1. PICK t \in Live : ecl[t] = v
    BY PromisedHas
  <2>2. v \in Version /\ Ecl[v] \subseteq blocks
    BY PromisedHas DEF DurInv, SentInv, Kept
  <2> QED BY <1>1, <2>1, <2>2 DEF Restorable, Live, V0
<1>3. ASSUME NEW v \in Restorable PROVE v \in promised
  <2>1. PICK t \in Tx \ delLog : /\ Materialize(t) = [state |-> "Vaulted", del |-> 0]
                                 /\ ecl[t] = v
                                 /\ \A d \in Tx : Materialize(d).del # t
    BY DEF Restorable
  <2>2. t \in Live
    BY <1>1, <2>1 DEF Live, V0
  <2> QED BY <2>1, <2>2 DEF CalmInv, ShareInv, PromisedInv
<1> QED BY <1>2, <1>3

Sending == {open[t].ver : t \in Tx} \ {NoVersion}
Deleting == IF op.kind = "delete" THEN {op.ver} \ {NoVersion} ELSE {}

(* A vault that closes, or opens, is one version less, or more, in flight.    *)
LEMMA SendingMoves ==
    ASSUME TypeOK, NEW t \in Tx, NEW w \in Vault, open' = [open EXCEPT ![t] = w],
           open[t].ver = NoVersion \/ w.ver = NoVersion \/ w.ver = open[t].ver
    PROVE  \/ Sending' = Sending
           \/ \E v \in Version : Sending' = Sending \cup {v}
           \/ \E v \in Version : Sending' = Sending \ {v}
<1>1. open \in [Tx -> Vault]
  BY DEF TypeOK, Types, EngineType
<1>2. \A u \in Tx : open'[u].ver = IF u = t THEN w.ver ELSE open[u].ver
  BY <1>1
<1>3. w.ver \in Version \cup {NoVersion} /\ open[t].ver \in Version \cup {NoVersion}
  BY <1>1 DEF Vault
<1>4. PICK a, b : a = open[t].ver /\ b = w.ver
  OBVIOUS
<1>5. CASE a = b
  BY <1>2, <1>4, <1>5 DEF Sending
<1>6. CASE a = NoVersion /\ b # NoVersion
  <2>1. /\ \A x : x \in Sending <=> x # NoVersion /\ \E u \in Tx : open[u].ver = x
        /\ \A x : x \in Sending' <=> x # NoVersion /\ \E u \in Tx : open'[u].ver = x
    BY DEF Sending
  <2>2. ASSUME NEW x PROVE x \in Sending' <=> x \in Sending \cup {b}
    <3>1. ASSUME x \in Sending' PROVE x \in Sending \cup {b}
      <4>1. PICK u \in Tx : open'[u].ver = x /\ x # NoVersion
        BY <2>1, <3>1
      <4> QED BY <1>2, <1>4, <2>1, <4>1
    <3>2. ASSUME x \in Sending PROVE x \in Sending'
      <4>1. PICK u \in Tx : open[u].ver = x /\ x # NoVersion
        BY <2>1, <3>2
      <4>2. u # t
        BY <1>4, <1>6, <4>1
      <4>3. open'[u].ver = x
        BY <1>2, <4>1, <4>2
      <4> QED BY <2>1, <4>1, <4>3
    <3>3. b \in Sending'
      <4>1. open'[t].ver = b
        BY <1>2, <1>4
      <4> QED BY <1>6, <2>1, <4>1
    <3> QED BY <3>1, <3>2, <3>3
  <2>3. Sending' = Sending \cup {b}
    BY <2>2
  <2> QED BY <1>3, <1>4, <1>6, <2>3
<1>7. CASE a # NoVersion /\ b = NoVersion
  <2>1. CASE \E u \in Tx \ {t} : open[u].ver = a
    <3>1. Sending' = Sending
      BY <1>2, <1>4, <1>7, <2>1 DEF Sending
    <3> QED BY <3>1
  <2>2. CASE ~\E u \in Tx \ {t} : open[u].ver = a
    <3>1. Sending' = Sending \ {a}
      BY <1>2, <1>4, <1>7, <2>2 DEF Sending
    <3> QED BY <1>3, <1>4, <1>7, <3>1
  <2> QED BY <2>1, <2>2
<1> QED BY <1>4, <1>5, <1>6, <1>7

----------------------------------------------------------------------------
(* The promise of the store                                                   *)

(* A step that changes neither is no step of the promise; a vault that is     *)
(* opened, closed or committed is one.                                        *)
LEMMA FlightMoves ==
    ASSUME TypeOK, CalmInv, DurInv, [Next]_vars
    PROVE  \/ Sending' = Sending
           \/ \E v \in Version : Sending' = Sending \cup {v}
           \/ \E v \in Version : Sending' = Sending \ {v}
           \/ (Crash \/ Shutdown) /\ Sending' = {}
<1>1. open \in [Tx -> Vault] /\ op \in Job
  BY Shapes0 DEF TypeOK, Types, EngineType
<1>2. NoVault \in Vault /\ NoVault.ver = NoVersion
  BY DEF NoVault, Vault
<1>3. ASSUME NEW t \in Tx, open' = [open EXCEPT ![t] = NoVault]
      PROVE  \/ Sending' = Sending
             \/ \E v \in Version : Sending' = Sending \cup {v}
             \/ \E v \in Version : Sending' = Sending \ {v}
  BY <1>2, <1>3, SendingMoves
<1>4. CASE \A t \in Tx : /\ open'[t].ver = open[t].ver
                         /\ open'[t].phase = "none" <=> open[t].phase = "none"
  BY <1>4 DEF Sending
<1>5. CASE UnnukeSync /\ op.kind = "vault" /\ op.tx \in Tx
  <2>1. PICK t \in Tx : t = op.tx
    BY <1>5
  <2>2. PICK w : w = [NoVault EXCEPT !.phase = "sending", !.ver = op.ver,
                                     !.todo = op.delta]
    OBVIOUS
  <2>3. w \in Vault
    BY <1>1, <2>2 DEF NoVault, Vault, Job
  <2>4. open' = [open EXCEPT ![t] = w]
    BY <1>5, <2>1, <2>2 DEF UnnukeSync
  <2>5. open[t].ver = NoVersion
    BY <1>5, <2>1, TxInt DEF DurInv, ClosedInv, CalmInv, JobInv
  <2> QED BY <2>3, <2>4, <2>5, SendingMoves
<1>6. CASE (Crash \/ Shutdown) /\ open' = [t \in Tx |-> NoVault]
  BY <1>2, <1>6 DEF Sending
<1> QED BY <1>3, <1>4, <1>5, <1>6, VaultMoves

(* Only a delete that reads the ECL of its vault, and its end, change what is *)
(* being deleted.                                                             *)
LEMMA DeletingMoves ==
    ASSUME TypeOK, Calm, SealTrusted, CalmInv, DurInv, [Next]_vars
    PROVE  \/ Deleting' = Deleting
           \/ Deleting' = {}
           \/ DeleteDecrement /\ \E v \in Version : Deleting' = {v}
<1>1. op \in Job
  BY Shapes0
<1>2. CASE Counts /\ ~DeleteDecrement /\ ~CommitDeleteFlags
  <2>1. op'.kind # "delete"
    <3>1. CASE CommitVaulted
      <4>1. op.kind = "commit"
        BY <3>1, AtJob DEF CommitVaulted, KindInv
      <4>2. op' = NoOp \/ Goto("incr")
        BY <3>1 DEF CommitVaulted
      <4> QED BY <1>1, <4>1, <4>2, GotoDoes DEF NoOp
    <3>2. CASE CommitIncrement
      <4>1. op.kind = "commit"
        BY <3>2, AtJob DEF CommitIncrement, KindInv
      <4> QED BY <1>1, <3>2, <4>1, GotoDoes DEF CommitIncrement
    <3>3. CASE CreateVaultLog
      <4>1. op.kind = "vault"
        BY <3>3, AtJob DEF CreateVaultLog, KindInv
      <4> QED BY <1>1, <3>3, <4>1, DeltaDoes DEF CreateVaultLog, NoOp
    <3>4. CASE SyncLoad
      <4>1. op.kind = "sync"
        BY <3>4 DEF SyncLoad, At, CalmInv, PcInv, KindInv
      <4>2. op' = NoOp \/ Goto("clean")
        BY <3>4 DEF SyncLoad
      <4> QED BY <1>1, <4>1, <4>2, GotoDoes DEF NoOp
    <3>5. CASE SyncReplay
      <4>1. op.kind = "sync"
        BY <3>5, AtJob DEF SyncReplay, KindInv
      <4> QED BY <1>1, <3>5, <4>1, GotoDoes DEF SyncReplay
    <3> QED BY <1>2, <3>1, <3>2, <3>3, <3>4, <3>5 DEF Counts
  <2> QED BY <2>1 DEF Deleting
<1>3. CASE CommitDeleteFlags
  <2>1. op'.kind = op.kind /\ op'.ver = op.ver
    BY <1>3, DelFlagsRef DEF DurInv
  <2> QED BY <2>1 DEF Deleting
<1>4. CASE DeleteDecrement
  <2>1. op.kind = "delete" /\ op.pc = "decr"
    BY <1>4, AtJob DEF DeleteDecrement, KindInv
  <2>2. op.target \in Live
    BY <2>1 DEF CalmInv, JobInv, DeleteJob
  <2>3. PICK v \in promised : v = ecl[op.target]
    BY <2>2 DEF CalmInv, ShareInv, PromisedInv
  <2>4. v \in Version /\ v # NoVersion
    BY PromisedHas, DataStoreAssumption
  <2>5. op'.ver = v /\ op'.kind = "delete"
    BY <1>1, <1>4, <2>1, <2>3, <2>4, DecrementDoes
  <2>6. Deleting' = {v}
    BY <2>4, <2>5 DEF Deleting
  <2> QED BY <1>4, <2>4, <2>6
<1>5. CASE op' = op \/ Keeps
  BY <1>5 DEF Keeps, Deleting
<1>6. CASE op' = NoOp
  BY <1>6 DEF NoOp, Deleting
<1>7. CASE Starts
  <2>1. op'.kind # "delete" \/ op'.ver = NoVersion
    <3>1. ASSUME NEW v \in Version, MakeVault(v) PROVE op'.kind = "vault"
      BY <3>1 DEF MakeVault, NoOp
    <3>2. ASSUME NEW t \in Tx, MakeDelete(t) PROVE op'.ver = NoVersion
      BY <3>2 DEF MakeDelete, NoOp
    <3>3. ASSUME NEW t \in Tx, CommitVault(t) PROVE op'.kind = "commit"
      BY <3>3 DEF CommitVault, NoOp
    <3>4. SyncRebuild => op'.kind = "sync"
      BY DEF SyncRebuild, StartOp, NoOp
    <3>5. PurgeReconcile => op'.kind = "recon"
      BY DEF PurgeReconcile, NoOp
    <3> QED BY <1>7, <3>1, <3>2, <3>3, <3>4, <3>5 DEF Starts
  <2> QED BY <2>1 DEF Deleting
<1> QED BY <1>2, <1>3, <1>4, <1>5, <1>6, <1>7, JobMoves

(* What is promised changes by a commit of what was sent and by a delete of   *)
(* what is being deleted, and by nothing else.                                *)
LEMMA PromisedMoves ==
    ASSUME TypeOK, Calm, SealTrusted, CalmInv, DurInv, [Next]_vars
    PROVE  \/ promised' = promised
           \/ /\ Sending' = Sending /\ Deleting' = Deleting
              /\ \E v \in Version : /\ v \in Sending /\ v \notin promised
                                    /\ promised' = promised \cup {v}
           \/ /\ Sending' = Sending /\ Deleting' = Deleting
              /\ \E v \in Version : /\ v \in Deleting /\ v \in promised
                                    /\ promised' = promised \ {v}
<1>1. op \in Job
  BY Shapes0
<1>2. CASE CommitVaulted /\ promised' # promised
  <2>1. /\ op.kind = "commit" /\ op.pc = "vaulted" /\ Loaded
        /\ \A t \in Tx : vver[t] # op.ver
        /\ promised' = promised \cup {op.ver} /\ open' = open
        /\ Goto("incr")
    BY <1>2, AtJob DEF CommitVaulted, KindInv
  <2>2. PICK t \in Tx : t = op.tx /\ open[t].ver = op.ver
    BY <2>1 DEF CalmInv, JobInv, CommitJob
  <2>3. PICK v \in Version : v = op.ver
    BY <2>1 DEF TypeOK, OpSound
  <2>4. v \in Sending
    BY <2>2, <2>3, DataStoreAssumption DEF Sending
  <2>5. v \notin promised
    BY <1>2, <2>1, <2>3
  <2>6. Sending' = Sending /\ Deleting' = Deleting
    BY <1>1, <2>1, GotoDoes DEF Sending, Deleting
  <2> QED BY <2>1, <2>3, <2>4, <2>5, <2>6
<1>3. CASE CommitDeleteFlags /\ promised' # promised
  <2>1. /\ promised' = promised \ {op.ver} /\ open' = open
        /\ op.kind = "delete" /\ op'.kind = "delete" /\ op'.ver = op.ver
    BY <1>3, DelFlagsRef DEF DurInv, CommitDeleteFlags
  <2>2. PICK v : v = op.ver
    OBVIOUS
  <2>3. v \in promised
    BY <1>3, <2>1, <2>2
  <2>4. v \in Version /\ v # NoVersion
    BY <2>3, PromisedHas, DataStoreAssumption
  <2>5. v \in Deleting
    BY <2>1, <2>2, <2>4 DEF Deleting
  <2>6. Sending' = Sending /\ Deleting' = Deleting
    BY <1>3, <2>1 DEF Sending, Deleting, CommitDeleteFlags
  <2> QED BY <2>1, <2>2, <2>3, <2>4, <2>5, <2>6
<1> QED BY <1>2, <1>3, PromisedKept

(* No step opens or closes a vault and touches a delete, but for a restart.   *)
LEMMA OneAtATime ==
    ASSUME TypeOK, SealTrusted, CalmInv, [Next]_vars
    PROVE  \/ Sending' = Sending \/ Deleting' = Deleting
           \/ Crash \/ Shutdown
<1>1. CASE UnnukeSync
  <2>1. CASE op.kind = "delete"
    BY <1>1, <2>1 DEF UnnukeSync, Sending
  <2>2. CASE op.kind # "delete"
    BY <1>1, <2>2 DEF UnnukeSync, Deleting, NoOp
  <2> QED BY <2>1, <2>2
<1>2. CASE Fail
  <2>1. CASE op.kind = "commit"
    BY <1>2, <2>1 DEF Fail, Deleting, NoOp
  <2>2. CASE op.kind # "commit"
    BY <1>2, <2>2 DEF Fail, Sending
  <2> QED BY <2>1, <2>2
<1>3. CASE CommitVaulted
  <2>1. op.kind = "commit"
    BY <1>3, AtJob DEF CommitVaulted, KindInv
  <2>2. open' = open \/ op' = NoOp
    BY <1>3 DEF CommitVaulted
  <2> QED BY <2>1, <2>2 DEF Sending, Deleting, NoOp
<1>4. CASE Sends
  <2>1. op' = op
    BY <1>4, WaitsKeep DEF Waits
  <2> QED BY <2>1 DEF Deleting
<1>5. CASE open' = open
  BY <1>5 DEF Sending
<1> QED BY <1>1, <1>2, <1>3, <1>4, <1>5, OpenKept DEF Stops

(* Every step of the engine is one of the promise, or none.                   *)
LEMMA PromiseStep ==
    ASSUME TypeOK, Calm, SealTrusted, CalmInv, DurInv, [Next]_vars,
           Restorable = promised, Restorable' = promised'
    PROVE  [Abstract!Next]_(Abstract!vvars)
<1>1. Restorable = promised /\ Restorable' = promised'
  OBVIOUS
<1>2. /\ Sending = {open[t].ver : t \in Tx} \ {NoVersion}
      /\ Deleting = IF op.kind = "delete" THEN {op.ver} \ {NoVersion} ELSE {}
  BY DEF Sending, Deleting
<1>3. CASE promised' # promised
  BY <1>1, <1>3, PromisedMoves
     DEF Abstract!Next, Abstract!Commit, Abstract!Delete, Sending, Deleting
<1>4. CASE promised' = promised /\ (Crash \/ Shutdown)
  <2>1. Sending' = {} /\ Deleting' = {}
    <3>1. op' = NoOp /\ open' = [t \in Tx |-> NoVault]
      BY <1>4 DEF Crash, Shutdown, FreshEngine
    <3>2. op'.kind = "none" /\ \A t \in Tx : open'[t].ver = NoVersion
      BY <3>1 DEF NoOp, NoVault
    <3>3. Sending' = {}
      BY <3>2 DEF Sending
    <3>4. Deleting' = {}
      BY <3>2 DEF Deleting
    <3> QED BY <3>3, <3>4
  <2> QED BY <1>1, <1>4, <2>1
          DEF Abstract!Next, Abstract!Restart, Sending, Deleting
<1>5. CASE promised' = promised /\ Sending' = Sending
  <2>1. CASE Deleting' = Deleting
    BY <1>1, <1>5, <2>1 DEF Abstract!vvars, Sending, Deleting
  <2>2. CASE Deleting' = {}
    BY <1>1, <1>5, <2>2 DEF Abstract!Next, Abstract!EndDelete, Sending, Deleting
  <2>3. CASE \E v \in Version : Deleting' = {v}
    BY <1>1, <1>5, <2>3 DEF Abstract!Next, Abstract!AskDelete, Sending, Deleting
  <2> QED BY <2>1, <2>2, <2>3, DeletingMoves
<1>6. CASE promised' = promised /\ Deleting' = Deleting /\ ~Crash /\ ~Shutdown
  <2>1. CASE \E v \in Version : Sending' = Sending \cup {v}
    BY <1>1, <1>6, <2>1 DEF Abstract!Next, Abstract!Begin, Sending, Deleting
  <2>2. CASE \E v \in Version : Sending' = Sending \ {v}
    BY <1>1, <1>6, <2>2 DEF Abstract!Next, Abstract!End, Sending, Deleting
  <2> QED BY <1>5, <1>6, <2>1, <2>2, FlightMoves
<1> QED BY <1>3, <1>4, <1>5, <1>6, OneAtATime

(* The store implements its promise: what can be restored from the share      *)
(* changes only by the commits and the deletes of clients.                    *)
THEOREM StoreImplementsPromise ==
    ASSUME Calm PROVE Spec => Promise
<1> DEFINE Same == Restorable = promised
<1>1. Init => Abstract!Init
  <2> SUFFICES ASSUME Init PROVE Abstract!Init
    OBVIOUS
  <2>1. /\ \A t \in Tx : open[t].ver = NoVersion
        /\ op.kind = "none" /\ \A t \in Tx : txLog[t] = "none"
    BY DEF Init, NoVault, NoOp
  <2>2. Restorable = {}
    BY <2>1 DEF Restorable, Materialize, NoRow
  <2> QED BY <2>1, <2>2 DEF Abstract!Init
<1>2. TypeOK /\ CalmInv /\ DurInv => Same
  BY RestorableIs
<1>3. /\ TypeOK /\ SealTrusted /\ CalmInv /\ DurInv /\ [Next]_vars
      /\ Same /\ Same'
      => [Abstract!Next]_(Abstract!vvars)
  BY PromiseStep
<1> HIDE DEF Same
<1> QED
  BY <1>1, <1>2, <1>3, TypeCorrect, SealIsTrusted, CalmCorrect, DurCorrect, PTL
     DEF Spec, Promise, Abstract!Spec
=============================================================================
