-------------------------- MODULE DataStoreProofs --------------------------
(* Theorems of DataStore, for any prints, versions, bounds and faults.       *)
EXTENDS DataStore, FiniteSetTheorems, WellFoundedInduction, TLAPS

(* transact.tx is the column of states of a FLAG table.                      *)
LEMMA DumpType == ASSUME NEW f \in [Tx -> Row] PROVE Dump(f) \in Log
  BY DEF Dump, Row, Log

(* Numbers of transactions are integers other than 0 and NoFile.            *)
LEMMA TxInt == Tx \subseteq Int /\ 0 \notin Tx /\ NoFile \notin Tx
  BY DataStoreAssumption DEF Tx, NoFile

(* What load makes of the share is a row of FLAG, for every transaction.    *)
LEMMA MaterializeType ==
    ASSUME TypeOK, NEW t \in Tx PROVE Materialize(t) \in Row
<1>1. NoRow \in Row
  BY DEF NoRow, Row
<1>2. txLog[t] \in TxState \cup {"none"} /\ flagFile[t] \in Tx \cup {0, NoFile}
  BY DEF TypeOK, Types, ShareType, Log
<1>3. CASE txLog[t] # "none" /\ flagFile[t] # NoFile
  BY <1>2, <1>3 DEF Materialize, Row
<1>4. CASE txLog[t] = "none" \/ flagFile[t] = NoFile
  BY <1>1, <1>4 DEF Materialize, Row, TxState
<1> QED BY <1>3, <1>4

(* FLAG as the open transaction of a job sees it is a FLAG table.           *)
LEMMA PendingType == ASSUME TypeOK PROVE Pending \in [Tx -> Row]
<1>1. NoRow \in Row
  BY DEF NoRow, Row
<1>2. ASSUME NEW t \in Tx PROVE [flag[t] EXCEPT !.state = "Reconned"] \in Row
  BY DEF TypeOK, Types, CacheType, Row, TxState
<1> QED BY <1>1, <1>2 DEF Pending, TypeOK, Types, CacheType

(* The prints of an ECL file on the share are prints of the store.          *)
LEMMA EclType == ASSUME TypeOK, NEW t \in Tx PROVE EclPrints(t) \subseteq Prints
  BY DataStoreAssumption DEF TypeOK, Types, ShareType, EclPrints

(* Applying a journal leaves rows prints and counts integers.               *)
LEMMA AddRefType ==
    ASSUME TypeOK
    PROVE  \A S \in SUBSET Prints : AddRef(S, 1) \/ AddRef(S, -1) =>
              rows' \in SUBSET Prints /\ ref' \in [Prints -> Int]
  BY DEF TypeOK, Types, CacheType, AddRef

(* The number of a set of transactions is an integer.                       *)
LEMMA CountType == ASSUME NEW S \in SUBSET Tx PROVE Cardinality(S) \in Int
<1>1. IsFiniteSet(Tx)
  BY DataStoreAssumption, FS_Interval DEF Tx
<1> QED BY <1>1, FS_Subset, FS_CardinalityType

(* The names of kinds, program counters and states are members of their sets.*)
LEMMA Names ==
    /\ {"idle", "clean", "oldRm", "oldDrop", "write", "rm", "drop", "commit",
        "begin", "delta", "beginFlags", "beginLog", "putEcl", "vaulted",
        "incr", "decr", "delFlags", "delLog", "load", "replay", "rollback",
        "seal"} \subseteq OpPc
    /\ {"none", "vault", "commit", "delete", "recon", "sync"} \subseteq OpKind
    /\ {"Rollback", "Begin", "Active", "Vaulted", "Reconned"} \subseteq TxState
  BY DEF OpPc, OpKind, TxState

(* An idle monitor is a job in the sense of its type.                       *)
LEMMA NoOpType == NoOp \in Job
  BY Names DEF NoOp, Job

(* A transaction without an open vault is within the type of vaults.        *)
LEMMA NoVaultType == NoVault \in Vault
  BY DEF NoVault, Vault

(* An idle purge is within the type of purges.                              *)
LEMMA NoPurgeType == NoPurge \in Purge
  BY DEF NoPurge, Purge

(* A missing row is within the type of rows.                                *)
LEMMA NoRowType == NoRow \in Row
  BY DEF NoRow, Row

(* A new store and a fresh engine are of the right types.                   *)
LEMMA TypeInit == Init => TypeOK
<1> SUFFICES ASSUME Init PROVE TypeOK
  OBVIOUS
<1>1. ShareType
  BY DEF Init, ShareType, Log
<1>2. CacheType
  <2>1. txLog \in Log
    BY <1>1 DEF ShareType
  <2>2. seal \in [unsync: BOOLEAN, log: Log]
    BY <2>1 DEF Init
  <2>3. ref \in [Prints -> Int] /\ rows \in SUBSET Prints
    BY DEF Init
  <2>4. flag \in [Tx -> Row] /\ vver \in [Tx -> Version \cup {NoVersion}]
    BY NoRowType DEF Init
  <2> QED BY <2>2, <2>3, <2>4 DEF Init, CacheType
<1>3. EngineType
  BY NoOpType, NoVaultType, NoPurgeType DEF Init, EngineType
<1>4. promised \in SUBSET Version /\ restarts \in 0 .. MaxRestarts
  BY DataStoreAssumption DEF Init
<1>5. OpSound
  BY DEF Init, OpSound, NoOp, NoVault
<1> QED BY <1>1, <1>2, <1>3, <1>4, <1>5 DEF TypeOK, Types

(* A job may change any of its fields.                                       *)
LEMMA JobGoto == ASSUME NEW j \in Job, NEW x \in OpPc
                 PROVE  [j EXCEPT !.pc = x] \in Job
  BY DEF Job

(* A job keeps its type when its files to remove are replaced.              *)
LEMMA JobTodo == ASSUME NEW j \in Job, NEW x \in OpPc, NEW S \in SUBSET Tx
                 PROVE  [j EXCEPT !.pc = x, !.todo = S] \in Job
  BY DEF Job

(* A job keeps its type when its rows to delete are replaced.               *)
LEMMA JobDoomed ==
    ASSUME NEW j \in Job, NEW x \in OpPc, NEW S \in SUBSET Tx, NEW T \in SUBSET Tx
    PROVE  [j EXCEPT !.doomed = S, !.todo = T, !.pc = x] \in Job
<1>1. [j EXCEPT !.doomed = S] \in Job
  BY DEF Job
<1>2. [j EXCEPT !.doomed = S, !.todo = T] \in Job
  BY <1>1 DEF Job
<1> QED BY <1>2 DEF Job

(* Every step of reconCleanup keeps the types.                              *)
LEMMA CleanType == TypeOK /\ Clean => Types'
<1> SUFFICES ASSUME TypeOK, Clean PROVE Types'
  OBVIOUS
<1> USE DEF TypeOK, Types, ShareType, CacheType, EngineType
<1>1. CASE CleanChoose
  <2>1. DeletedPairs \subseteq Tx
    BY DEF DeletedPairs
  <2>2. PICK old \in SUBSET Tx :
           op' = [op EXCEPT !.doomed = old \cup DeletedPairs, !.todo = delLog,
                            !.pc = IF delLog = {} THEN "write" ELSE "oldRm"]
    BY <1>1 DEF CleanChoose
  <2>3. op' \in Job
    BY <2>1, <2>2, Names, JobDoomed
  <2> QED BY <1>1, <2>3 DEF CleanChoose, share, cache
<1>2. CASE CleanWriteLog
  <2>1. op' \in Job /\ delLog' \in SUBSET Tx
    <3>1. op.doomed \in SUBSET Tx
      BY DEF Job
    <3>2. CASE op.doomed = {}
      BY <1>2, <3>2, Names, JobGoto DEF CleanWriteLog, Goto
    <3>3. CASE op.doomed # {}
      <4>1. [op EXCEPT !.pc = "rm", !.todo = op.doomed] \in Job
        BY <3>1, Names, JobTodo
      <4>2. op' = [op EXCEPT !.pc = "rm", !.todo = op.doomed]
            /\ delLog' = op.doomed
        BY <1>2, <3>3 DEF CleanWriteLog
      <4> QED BY <3>1, <4>1, <4>2
    <3> QED BY <3>2, <3>3
  <2> QED BY <1>2, <2>1 DEF CleanWriteLog, cache
<1>3. CASE CleanRemoveFile
  <2>1. CASE op.at = 0
    <3>1. PICK t \in Tx : /\ op' = [op EXCEPT !.at = t]
                          /\ ecl' = [ecl EXCEPT ![t] = NoVersion]
      BY <1>3, <2>1 DEF CleanRemoveFile, Job
    <3>2. op' \in Job
      BY <3>1 DEF Job
    <3>3. ecl' \in [Tx -> Version \cup {NoVersion}]
      BY <3>1
    <3> QED BY <1>3, <2>1, <3>2, <3>3 DEF CleanRemoveFile, cache
  <2>2. CASE op.at # 0
    <3>1. op' \in Job
      <4>1. op' = [op EXCEPT !.at = 0, !.todo = op.todo \ {op.at}]
        BY <1>3, <2>2 DEF CleanRemoveFile
      <4>2. [op EXCEPT !.at = 0] \in Job
        BY DEF Job
      <4>3. op.todo \ {op.at} \in SUBSET Tx
        BY DEF Job
      <4> QED BY <4>1, <4>2, <4>3 DEF Job
    <3>2. flagFile' \in [Tx -> Tx \cup {0, NoFile}]
      BY <1>3, <2>2 DEF CleanRemoveFile
    <3> QED BY <1>3, <2>2, <3>1, <3>2 DEF CleanRemoveFile, cache
  <2> QED BY <2>1, <2>2
<1>4. CASE CleanDump
  <2>1. op' \in Job
    BY <1>4, Names, JobGoto DEF CleanDump, Goto
  <2>2. [t \in Tx |-> IF t \in op.marked THEN Pending[t] ELSE flag[t]]
          \in [Tx -> Row]
    BY PendingType
  <2>3. txLog' \in Log
    BY <1>4, <2>2, PendingType, DumpType DEF CleanDump
  <2> QED BY <1>4, <2>1, <2>3 DEF CleanDump, cache
<1>5. CASE CleanDropLog
  <2>1. op' \in Job
    BY <1>5, Names, JobGoto DEF CleanDropLog, Goto
  <2> QED BY <1>5, <2>1 DEF CleanDropLog, cache
<1>6. CASE CleanCommit
  <2>1. op' \in Job
    <3>1. op.ret \in OpPc
      BY DEF Job
    <3>2. CASE op.kind = "recon" /\ op.ret = "clean"
      <4>1. [op EXCEPT !.pc = "clean", !.ret = "seal"] \in Job
        BY Names DEF Job
      <4>2. [op EXCEPT !.pc = "clean", !.ret = "seal", !.doomed = {}] \in Job
        BY <4>1 DEF Job
      <4>3. [op EXCEPT !.pc = "clean", !.ret = "seal", !.doomed = {},
                       !.marked = {}] \in Job
        BY <4>2 DEF Job
      <4>4. op' = [op EXCEPT !.pc = "clean", !.ret = "seal", !.doomed = {},
                             !.marked = {}]
        BY <1>6, <3>2 DEF CleanCommit
      <4> QED BY <4>3, <4>4
    <3>3. CASE ~(op.kind = "recon" /\ op.ret = "clean")
      <4>1. [op EXCEPT !.pc = op.ret] \in Job
        BY <3>1, JobGoto
      <4>2. [op EXCEPT !.pc = op.ret, !.doomed = {}] \in Job
        BY <4>1 DEF Job
      <4>3. [op EXCEPT !.pc = op.ret, !.doomed = {}, !.marked = {}] \in Job
        BY <4>2 DEF Job
      <4>4. op' = [op EXCEPT !.pc = op.ret, !.doomed = {}, !.marked = {}]
        BY <1>6, <3>3 DEF CleanCommit
      <4> QED BY <4>3, <4>4
    <3> QED BY <3>2, <3>3
  <2>2. flag' \in [Tx -> Row] /\ txLog' \in Log
    BY <1>6, PendingType, DumpType DEF CleanCommit
  <2>3. vver' \in [Tx -> Version \cup {NoVersion}]
    BY <1>6 DEF CleanCommit
  <2> QED BY <1>6, <2>1, <2>2, <2>3 DEF CleanCommit
<1> QED BY <1>1, <1>2, <1>3, <1>4, <1>5, <1>6 DEF Clean

(* A job keeps its type when its other locals are replaced.                 *)
LEMMA JobFields ==
    ASSUME NEW j \in Job, NEW x \in OpPc
    PROVE  /\ \A n \in Tx : [j EXCEPT !.tx = n, !.pc = x] \in Job
           /\ \A v \in Version : [j EXCEPT !.pc = x, !.ver = v] \in Job
           /\ \A S \in SUBSET Prints : [j EXCEPT !.delta = S, !.pc = x] \in Job
           /\ \A y \in OpPc : [j EXCEPT !.pc = x, !.ret = y] \in Job
<1>1. ASSUME NEW n \in Tx PROVE [j EXCEPT !.tx = n, !.pc = x] \in Job
  BY <1>1 DEF Job
<1>2. ASSUME NEW v \in Version PROVE [j EXCEPT !.pc = x, !.ver = v] \in Job
  BY <1>2 DEF Job
<1>3. ASSUME NEW S \in SUBSET Prints
      PROVE  [j EXCEPT !.delta = S, !.pc = x] \in Job
  BY <1>3 DEF Job
<1>4. ASSUME NEW y \in OpPc PROVE [j EXCEPT !.pc = x, !.ret = y] \in Job
  BY <1>4 DEF Job
<1> QED BY <1>1, <1>2, <1>3, <1>4

(* FLAG keeps its type when one row changes.                                *)
LEMMA FlagSet ==
    ASSUME TypeOK, NEW t, NEW x \in TxState
    PROVE  [flag EXCEPT ![t].state = x] \in [Tx -> Row]
<1>1. ASSUME NEW r \in Row PROVE [r EXCEPT !.state = x] \in Row
  BY DEF Row
<1> QED BY <1>1 DEF TypeOK, Types, CacheType

(* createTxBegin and putEcl keep the types.                                 *)
LEMMA BeginType == TypeOK /\ (CreateTxBegin \/ PutEcl) => Types'
<1> SUFFICES ASSUME TypeOK, CreateTxBegin \/ PutEcl PROVE Types'
  OBVIOUS
<1> USE DEF TypeOK, Types, ShareType, CacheType, EngineType
<1>1. CASE CreateTxBegin
  <2>1. op' \in Job
    <3>1. ASSUME NEW x \in {"delta", "decr"}
          PROVE  [op EXCEPT !.tx = NextTx, !.pc = x] \in Job
      BY <1>1, <3>1, Names, JobFields DEF CreateTxBegin
    <3> QED BY <1>1, <3>1 DEF CreateTxBegin
  <2>2. [state |-> "Begin", del |-> 0] \in Row
    BY Names DEF Row
  <2>3. flag' \in [Tx -> Row]
    BY <1>1, <2>2 DEF CreateTxBegin
  <2>4. txLog' \in Log
    BY <1>1, <2>3, DumpType DEF CreateTxBegin
  <2> QED BY <1>1, <2>1, <2>3, <2>4 DEF CreateTxBegin
<1>2. CASE PutEcl
  <2>1. op' \in Job
    BY <1>2, Names, JobGoto DEF PutEcl, Goto
  <2>2. ecl' \in [Tx -> Version \cup {NoVersion}]
    BY <1>2 DEF PutEcl, Job
  <2> QED BY <1>2, <2>1, <2>2 DEF PutEcl, cache
<1> QED BY <1>1, <1>2

(* unnukeSync keeps the types, and opens a vault with a version.            *)
LEMMA UnnukeType == TypeOK /\ UnnukeSync => Types'
<1> SUFFICES ASSUME TypeOK, UnnukeSync PROVE Types'
  OBVIOUS
<1> USE DEF TypeOK, Types, ShareType, CacheType, EngineType
<1>1. op' \in Job
  BY NoOpType DEF UnnukeSync
<1>2. purge' \in Purge
  BY NoPurgeType DEF UnnukeSync
<1>3. open' \in [Tx -> Vault]
  <2>1. [NoVault EXCEPT !.phase = "sending", !.ver = op.ver, !.todo = op.delta]
           \in Vault
    <3>1. op.ver \in Version \cup {NoVersion} /\ op.delta \subseteq Prints
      BY DEF Job
    <3>2. [NoVault EXCEPT !.phase = "sending"] \in Vault
      BY NoVaultType DEF Vault
    <3>3. [NoVault EXCEPT !.phase = "sending", !.ver = op.ver] \in Vault
      BY <3>1, <3>2 DEF Vault
    <3> QED BY <3>1, <3>3 DEF Vault
  <2> QED BY <2>1, NoVaultType DEF UnnukeSync
<1>4. seal' \in [unsync: BOOLEAN, log: Log]
  BY DEF UnnukeSync
<1> QED BY <1>1, <1>2, <1>3, <1>4 DEF UnnukeSync, share

(* A vault keeps its type when its senders take, send and unlock prints.    *)
LEMMA VaultType ==
    TypeOK /\ (CreateVaultLog \/ CommitBeginFlags \/ CommitBeginLog) => Types'
<1> SUFFICES ASSUME TypeOK, CreateVaultLog \/ CommitBeginFlags \/ CommitBeginLog
             PROVE  Types'
  OBVIOUS
<1> USE DEF TypeOK, Types, ShareType, CacheType, EngineType
<1>1. CASE CreateVaultLog
  <2>1. op' \in Job
    <3>1. CASE op.ver \in ListedVersions
      BY <1>1, <3>1, NoOpType DEF CreateVaultLog
    <3>2. CASE op.ver \notin ListedVersions
      <4> DEFINE D == {p \in Ecl[op.ver] : ref[p] <= 0}
      <4>1. D \in SUBSET Prints
        <5>1. op.ver \in Version
          BY <1>1 DEF CreateVaultLog, At, OpSound
        <5> QED BY <5>1, DataStoreAssumption
      <4>2. [op EXCEPT !.delta = D, !.pc = "beginFlags"] \in Job
        BY <4>1, Names, JobFields
      <4> QED BY <1>1, <3>2, <4>2 DEF CreateVaultLog
    <3> QED BY <3>1, <3>2
  <2> QED BY <1>1, <2>1 DEF CreateVaultLog, share, cache
<1>2. CASE CommitBeginFlags
  <2>1. op' \in Job
    BY <1>2, Names, JobGoto DEF CommitBeginFlags, Goto
  <2>2. flagFile' \in [Tx -> Tx \cup {0, NoFile}]
    BY <1>2 DEF CommitBeginFlags
  <2> QED BY <1>2, <2>1, <2>2 DEF CommitBeginFlags, cache
<1>3. CASE CommitBeginLog
  <2>1. op' \in Job
    BY <1>3, Names, JobGoto DEF CommitBeginLog, Goto
  <2>2. flag' \in [Tx -> Row]
    BY <1>3, Names, FlagSet DEF CommitBeginLog
  <2>3. txLog' \in Log
    BY <1>3, <2>2, DumpType DEF CommitBeginLog
  <2> QED BY <1>3, <2>1, <2>2, <2>3 DEF CommitBeginLog
<1> QED BY <1>1, <1>2, <1>3

(* The senders of a vault and its commit keep the types.                    *)
LEMMA SenderType == ASSUME NEW t \in Tx PROVE TypeOK /\ Sender(t) => Types'
<1> SUFFICES ASSUME TypeOK, Sender(t) PROVE Types'
  OBVIOUS
<1> USE DEF TypeOK, Types, ShareType, CacheType, EngineType
<1>1. ASSUME NEW p \in Prints, VaultNext(t, p) \/ SendPrint(t, p) PROVE Types'
  <2> DEFINE w == open[t]
  <2>1. w \in Vault
    OBVIOUS
  <2>2. CASE VaultNext(t, p)
    <3>1. [w EXCEPT !.todo = w.todo \ {p}, !.cur = w.cur \cup {p},
                    !.held = w.held \cup {p}] \in Vault
      <4>1. [w EXCEPT !.todo = w.todo \ {p}] \in Vault
        BY <2>1 DEF Vault
      <4>2. [w EXCEPT !.todo = w.todo \ {p}, !.cur = w.cur \cup {p}] \in Vault
        BY <2>1, <4>1 DEF Vault
      <4> QED BY <2>1, <4>2 DEF Vault
    <3>2. open' = [open EXCEPT ![t] =
             [w EXCEPT !.todo = w.todo \ {p}, !.cur = w.cur \cup {p},
                       !.held = w.held \cup {p}]]
      BY <2>2 DEF VaultNext
    <3> QED BY <2>2, <3>1, <3>2 DEF VaultNext, share, cache
  <2>3. CASE SendPrint(t, p)
    <3>1. [w EXCEPT !.cur = w.cur \ {p}] \in Vault
      BY <2>1 DEF Vault
    <3>2. open' = [open EXCEPT ![t] = [w EXCEPT !.cur = w.cur \ {p}]]
      BY <2>3 DEF SendPrint
    <3> QED BY <2>3, <3>1, <3>2 DEF SendPrint, cache
  <2> QED BY <1>1, <2>2, <2>3
<1>2. CASE VaultUnregister(t)
  <2> DEFINE w == open[t]
  <2>1. [w EXCEPT !.phase = "unregistered", !.held = {}] \in Vault
    <3>1. w \in Vault
      OBVIOUS
    <3> HIDE DEF w, TypeOK, Types, ShareType, CacheType, EngineType
    <3>2. [w EXCEPT !.phase = "unregistered"] \in Vault
      BY <3>1 DEF Vault
    <3> QED BY <3>2 DEF Vault
  <2>2. open' = [open EXCEPT ![t] = [w EXCEPT !.phase = "unregistered", !.held = {}]]
    BY <1>2 DEF VaultUnregister
  <2> QED BY <1>2, <2>1, <2>2 DEF VaultUnregister, share, cache
<1>3. CASE CommitVault(t)
  <2>1. op' \in Job
    <3>1. open[t].ver \in Version \cup {NoVersion}
      BY DEF Vault
    <3>2. [NoOp EXCEPT !.kind = "commit", !.pc = "vaulted"] \in Job
      BY NoOpType, Names DEF Job
    <3>3. [NoOp EXCEPT !.kind = "commit", !.pc = "vaulted", !.tx = t] \in Job
      BY <3>2 DEF Job
    <3> QED BY <1>3, <3>1, <3>3 DEF CommitVault, Job
  <2>2. seal' \in [unsync: BOOLEAN, log: Log]
    BY <1>3 DEF CommitVault, Nuke
  <2> QED BY <1>3, <2>1, <2>2 DEF CommitVault, share, Nuke
<1> QED BY <1>1, <1>2, <1>3 DEF Sender

(* A sender that closes or whose lease expires keeps the types.             *)
LEMMA AbortType == ASSUME NEW t \in Tx PROVE TypeOK /\ VaultAbort(t) => Types'
<1> SUFFICES ASSUME TypeOK, VaultAbort(t) PROVE Types'
  OBVIOUS
<1> USE DEF TypeOK, Types, ShareType, CacheType, EngineType
<1>1. open' \in [Tx -> Vault]
  BY NoVaultType DEF VaultAbort
<1>2. rows' \in SUBSET Prints /\ ref' \in [Prints -> Int] /\ dbMoved' \in BOOLEAN
  <2>1. open[t].held \in SUBSET Prints
    BY DEF Vault
  <2> QED BY <2>1 DEF VaultAbort, Clear
<1> QED BY <1>1, <1>2 DEF VaultAbort, share

(* commitVault keeps the types.                                             *)
LEMMA CommitType == TypeOK /\ (CommitVaulted \/ CommitIncrement) => Types'
<1> SUFFICES ASSUME TypeOK, CommitVaulted \/ CommitIncrement PROVE Types'
  OBVIOUS
<1> USE DEF TypeOK, Types, ShareType, CacheType, EngineType
<1>0. op.ver \in Version
  BY DEF At, OpSound, CommitVaulted, CommitIncrement
<1>1. CASE CommitVaulted
  <2>1. CASE flag[op.tx].state = "Active" /\ \A t \in Tx : vver[t] # op.ver
    <3>1. op' \in Job
      BY <1>1, <2>1, Names, JobGoto DEF CommitVaulted, Goto
    <3>2. flag' \in [Tx -> Row]
      BY <1>1, <2>1, Names, FlagSet DEF CommitVaulted
    <3>3. txLog' \in Log
      BY <1>1, <2>1, <3>2, DumpType DEF CommitVaulted
    <3>4. /\ vver' \in [Tx -> Version \cup {NoVersion}]
          /\ promised' \in SUBSET Version /\ open' = open
      BY <1>0, <1>1, <2>1 DEF CommitVaulted
    <3> QED BY <1>1, <3>1, <3>2, <3>3, <3>4 DEF CommitVaulted
  <2>2. CASE ~(flag[op.tx].state = "Active" /\ \A t \in Tx : vver[t] # op.ver)
    <3>1. op' \in Job /\ open' \in [Tx -> Vault]
      BY <1>1, <2>2, NoOpType, NoVaultType DEF CommitVaulted
    <3>2. UNCHANGED <<flag, vver, txLog, promised>>
      BY <1>1, <2>2 DEF CommitVaulted
    <3> QED BY <1>1, <3>1, <3>2 DEF CommitVaulted
  <2> QED BY <2>1, <2>2
<1>2. CASE CommitIncrement
  <2>1. op' \in Job
    BY <1>2, Names, JobGoto DEF CommitIncrement, Goto
  <2>2. Ecl[op.ver] \in SUBSET Prints
    BY <1>0, DataStoreAssumption
  <2>3. rows' \in SUBSET Prints /\ ref' \in [Prints -> Int]
    <3>1. AddRef(Ecl[op.ver], 1)
      BY <1>2 DEF CommitIncrement, Increment
    <3> QED BY <2>2, <3>1, AddRefType
  <2> QED BY <1>2, <2>1, <2>3 DEF CommitIncrement, share
<1> QED BY <1>1, <1>2

(* The steps of makeDelete keep the types.                                  *)
LEMMA DeleteType ==
    TypeOK /\ (DeleteDecrement \/ CommitDeleteFlags \/ CommitDeleteLog) => Types'
<1> SUFFICES ASSUME TypeOK,
                    DeleteDecrement \/ CommitDeleteFlags \/ CommitDeleteLog
             PROVE  Types'
  OBVIOUS
<1> USE DEF TypeOK, Types, ShareType, CacheType, EngineType
<1>1. CASE DeleteDecrement
  <2>1. op.target \in Tx
    BY <1>1 DEF DeleteDecrement, At, OpSound
  <2>2. CASE ecl[op.target] = NoVersion
    BY <1>1, <2>2, NoOpType DEF DeleteDecrement, share
  <2>3. CASE ecl[op.target] # NoVersion
    <3>1. ecl[op.target] \in Version
      BY <2>1, <2>3
    <3>2. op' \in Job
      <4>1. [op EXCEPT !.pc = "putEcl", !.ver = ecl[op.target]] \in Job
        BY <3>1, Names, JobFields
      <4> QED BY <1>1, <2>3, <4>1 DEF DeleteDecrement
    <3>3. EclPrints(op.target) \in SUBSET Prints
      BY <2>1, EclType
    <3>4. rows' \in SUBSET Prints /\ ref' \in [Prints -> Int]
      <4>1. AddRef(EclPrints(op.target), -1)
        BY <1>1, <2>3 DEF DeleteDecrement, Decrement
      <4> QED BY <3>3, <4>1, AddRefType
    <3> QED BY <1>1, <3>2, <3>4 DEF DeleteDecrement, share
  <2> QED BY <2>2, <2>3
<1>2. CASE CommitDeleteFlags
  <2>1. op.target \in Tx \cup {0}
    BY DEF Job
  <2>2. op' \in Job
    BY <1>2, Names, JobGoto, NoOpType DEF CommitDeleteFlags, Goto
  <2>3. flagFile' \in [Tx -> Tx \cup {0, NoFile}]
    BY <1>2, <2>1 DEF CommitDeleteFlags
  <2>4. promised' \in SUBSET Version
    BY <1>2 DEF CommitDeleteFlags
  <2> QED BY <1>2, <2>2, <2>3, <2>4 DEF CommitDeleteFlags, cache
<1>3. CASE CommitDeleteLog
  <2>1. op' \in Job
    BY <1>3, Names, JobGoto DEF CommitDeleteLog, Goto
  <2>2. [state |-> "Active", del |-> op.target] \in Row
    BY Names DEF Job, Row
  <2>3. flag' \in [Tx -> Row]
    BY <1>3, <2>2 DEF CommitDeleteLog
  <2>4. txLog' \in Log
    BY <1>3, <2>3, DumpType DEF CommitDeleteLog
  <2>5. vver' \in [Tx -> Version \cup {NoVersion}]
    BY <1>3 DEF CommitDeleteLog
  <2> QED BY <1>3, <2>1, <2>3, <2>4, <2>5 DEF CommitDeleteLog
<1> QED BY <1>1, <1>2, <1>3

(* load, rebuild and postSyncCleanup keep the types.                        *)
LEMMA SyncType ==
    TypeOK /\ (SyncLoad \/ SyncReplay \/ SyncRollback) => Types'
<1> SUFFICES ASSUME TypeOK, SyncLoad \/ SyncReplay \/ SyncRollback PROVE Types'
  OBVIOUS
<1> USE DEF TypeOK, Types, ShareType, CacheType, EngineType
<1>1. CASE SyncLoad
  <2>1. op' \in Job
    BY <1>1, Names, JobGoto, NoOpType DEF SyncLoad, Goto
  <2>2. rows' \in SUBSET Prints /\ ref' \in [Prints -> Int]
    BY <1>1 DEF SyncLoad
  <2>3. flag' \in [Tx -> Row]
    BY <1>1, MaterializeType, NoRowType DEF SyncLoad
  <2>4. vver' \in [Tx -> Version \cup {NoVersion}]
    <3>1. \A n : \A t \in Tx : LoadedVersion(t, n) \in Version \cup {NoVersion}
      BY DEF LoadedVersion
    <3> QED BY <1>1, <3>1 DEF SyncLoad
  <2> QED BY <1>1, <2>1, <2>2, <2>3, <2>4 DEF SyncLoad, share
<1>2. CASE SyncReplay
  <2>1. op' \in Job
    BY <1>2, Names, JobGoto DEF SyncReplay, Goto
  <2>2. rows' \in SUBSET Prints /\ ref' \in [Prints -> Int]
    <3> DEFINE live == {t \in Enumerated : flag[t].del = 0}
               cleared == {t \in Tx : flag[t].state = "Active"
                              \/ (flag[t].state = "Rollback" /\ flag[t].del # 0)}
    <3>1. live \subseteq Tx /\ cleared \subseteq Tx
      BY DEF Enumerated, Listed
    <3>2. UNION {EclPrints(t) : t \in live \cup cleared} \subseteq Prints
      BY <3>1, EclType
    <3>3. \A p \in Prints : Cardinality({t \in live : p \in EclPrints(t)}) \in Int
      BY <3>1, CountType
    <3>4. rows' = UNION {EclPrints(t) : t \in live \cup cleared}
          /\ ref' = [p \in Prints |->
                        Cardinality({t \in live : p \in EclPrints(t)})]
      BY <1>2 DEF SyncReplay
    <3> QED BY <3>2, <3>3, <3>4
  <2> QED BY <1>2, <2>1, <2>2 DEF SyncReplay, share
<1>3. CASE SyncRollback
  <2>1. op' \in Job
    BY <1>3, Names, JobFields DEF SyncRollback
  <2>2. flag' \in [Tx -> Row]
    <3>1. \A t \in Tx : [flag[t] EXCEPT !.state = "Rollback"] \in Row
      BY Names DEF Row
    <3> QED BY <1>3, <3>1 DEF SyncRollback
  <2>3. txLog' \in Log
    BY <1>3, <2>2, DumpType DEF SyncRollback
  <2> QED BY <1>3, <2>1, <2>2, <2>3 DEF SyncRollback
<1> QED BY <1>1, <1>2, <1>3

(* The beginnings of the jobs keep the types.                               *)
LEMMA StartType ==
    /\ TypeOK /\ SyncTrusted => Types'
    /\ TypeOK /\ SyncRebuild => Types'
    /\ \A v \in Version : TypeOK /\ MakeVault(v) => Types'
    /\ \A t \in Tx : TypeOK /\ MakeDelete(t) => Types'
<1> USE DEF TypeOK, Types, ShareType, CacheType, EngineType
<1>1. ASSUME TypeOK, Nuke PROVE seal' \in [unsync: BOOLEAN, log: Log]
  BY <1>1 DEF Nuke
<1>2. ASSUME TypeOK, SyncTrusted PROVE Types'
  BY <1>2 DEF SyncTrusted, share, cache
<1>3. ASSUME TypeOK, SyncRebuild PROVE Types'
  <2>1. op' \in Job
    <3>1. [NoOp EXCEPT !.kind = "sync", !.pc = "load"] \in Job
      BY NoOpType, Names DEF Job
    <3> QED BY <1>3, <3>1, Names DEF SyncRebuild, StartOp, Job
  <2>2. seal' \in [unsync: BOOLEAN, log: Log] /\ nuked' \in BOOLEAN
    BY <1>1, <1>3 DEF SyncRebuild, StartOp, Nuke
  <2> QED BY <1>3, <2>1, <2>2 DEF SyncRebuild, share
<1>4. ASSUME TypeOK, NEW v \in Version, MakeVault(v) PROVE Types'
  <2>1. op' \in Job
    <3>1. [NoOp EXCEPT !.kind = "vault", !.pc = "clean"] \in Job
      BY NoOpType, Names DEF Job
    <3>2. [NoOp EXCEPT !.kind = "vault", !.pc = "clean", !.ret = "begin"] \in Job
      BY <3>1, Names DEF Job
    <3> QED BY <1>4, <3>2 DEF MakeVault, Job
  <2>2. seal' \in [unsync: BOOLEAN, log: Log] /\ nuked' \in BOOLEAN
    BY <1>1, <1>4 DEF MakeVault, Nuke
  <2> QED BY <1>4, <2>1, <2>2 DEF MakeVault, share
<1>5. ASSUME TypeOK, NEW t \in Tx, MakeDelete(t) PROVE Types'
  <2>1. op' \in Job
    <3>1. [NoOp EXCEPT !.kind = "delete", !.pc = "clean"] \in Job
      BY NoOpType, Names DEF Job
    <3>2. [NoOp EXCEPT !.kind = "delete", !.pc = "clean", !.ret = "begin"] \in Job
      BY <3>1, Names DEF Job
    <3> QED BY <1>5, <3>2 DEF MakeDelete, Job
  <2>2. seal' \in [unsync: BOOLEAN, log: Log] /\ nuked' \in BOOLEAN
    BY <1>1, <1>5 DEF MakeDelete, Nuke
  <2> QED BY <1>5, <2>1, <2>2 DEF MakeDelete, share
<1> QED BY <1>2, <1>3, <1>4, <1>5

(* Every step of maintPurge keeps the types.                                *)
LEMMA PurgeType == TypeOK /\ (StartPurge \/ Purger) => Types'
<1> SUFFICES ASSUME TypeOK, StartPurge \/ Purger PROVE Types'
  OBVIOUS
<1> USE DEF TypeOK, Types, ShareType, CacheType, EngineType
<1>1. CASE StartPurge
  <2>1. [NoPurge EXCEPT !.pc = "loop"] \in Purge
    BY NoPurgeType DEF Purge
  <2>2. purge' \in Purge
    BY <1>1, <2>1 DEF StartPurge, Purge
  <2> QED BY <1>1, <2>2 DEF StartPurge, share, cache
<1>2. CASE PurgeTake
  <2>1. PICK S \in SUBSET ZeroRows :
           purge' = [purge EXCEPT !.batch = S \ purge.conflicts, !.pc = "delete"]
    BY <1>2 DEF PurgeTake
  <2>2. S \subseteq Prints
    BY <2>1 DEF ZeroRows
  <2>3. [purge EXCEPT !.batch = S \ purge.conflicts] \in Purge
    BY <2>2 DEF Purge
  <2>4. purge' \in Purge
    BY <2>1, <2>3 DEF Purge
  <2> QED BY <1>2, <2>4 DEF PurgeTake, share, cache
<1>3. CASE PurgeGiveUp
  BY <1>3, NoPurgeType DEF PurgeGiveUp, share, cache
<1>4. CASE PurgeAsk
  <2> DEFINE c == purge.conflicts \cup (purge.batch \cap ActivePrints)
             d == purge.batch \ c
  <2>1. purge' = [purge EXCEPT !.conflicts = c, !.batch = d, !.pc = "unlink"]
    BY <1>4 DEF PurgeAsk
  <2>2. c \in SUBSET Prints /\ d \in SUBSET Prints
    BY DEF Purge
  <2>3. purge' \in Purge
    <3> HIDE DEF c, d
    <3>1. [purge EXCEPT !.conflicts = c] \in Purge
      BY <2>2 DEF Purge
    <3>2. [purge EXCEPT !.conflicts = c, !.batch = d] \in Purge
      BY <2>2, <3>1 DEF Purge
    <3> QED BY <2>1, <3>2 DEF Purge
  <2> QED BY <1>4, <2>3 DEF PurgeAsk, share, cache
<1>5. CASE PurgeDelete
  <2>1. purge' \in Purge
    BY <1>5 DEF PurgeDelete, Purge
  <2>2. blocks' \in SUBSET Prints
    BY <1>5 DEF PurgeDelete
  <2> QED BY <1>5, <2>1, <2>2 DEF PurgeDelete, cache
<1>6. CASE PurgeFinish
  <2>1. purge' \in Purge
    <3>1. [purge EXCEPT !.batch = {}] \in Purge
      BY DEF Purge
    <3>2. [purge EXCEPT !.batch = {}, !.pc = "loop"] \in Purge
      BY <3>1 DEF Purge
    <3> QED BY <1>6, <3>2, NoPurgeType DEF PurgeFinish
  <2>2. \/ /\ UNCHANGED <<nuked, seal>>
           /\ rows' = rows \ purge.batch /\ dbMoved' \in {dbMoved, TRUE}
           /\ ref' = [p \in Prints |-> IF p \in purge.batch THEN 0 ELSE ref[p]]
        \/ Nuke /\ UNCHANGED <<rows, ref, dbMoved>>
    BY <1>6 DEF PurgeFinish
  <2>3. seal \in [unsync: BOOLEAN, log: Log] /\ nuked \in BOOLEAN
    OBVIOUS
  <2>4. seal' \in [unsync: BOOLEAN, log: Log] /\ nuked' \in BOOLEAN
    BY <2>2, <2>3 DEF Nuke
  <2>5. rows' \in SUBSET Prints /\ dbMoved' \in BOOLEAN
    BY <2>2
  <2>6. ref' \in [Prints -> Int]
    <3>1. ref \in [Prints -> Int] /\ 0 \in Int
      OBVIOUS
    <3>2. \/ ref' = [p \in Prints |-> IF p \in purge.batch THEN 0 ELSE ref[p]]
          \/ ref' = ref
      BY <2>2
    <3> HIDE DEF TypeOK, Types, CacheType, EngineType, ShareType
    <3> QED BY <3>1, <3>2
  <2> QED BY <1>6, <2>1, <2>4, <2>5, <2>6 DEF PurgeFinish, share
<1>7. CASE PurgeEnd
  BY <1>7, NoPurgeType DEF PurgeEnd, share, cache
<1>8. CASE PurgeReconcile
  <2> DEFINE known == {t \in purge.txs : flag[t] # NoRow}
             deletes == {t \in known : flag[t].del # 0}
             pc == IF purge.txs = {} THEN "clean"
                   ELSE IF delLog # {} THEN "oldRm" ELSE "write"
             ret == IF purge.txs = {} THEN "seal" ELSE "clean"
             left == known \ deletes
  <2>1. deletes \in SUBSET Tx /\ left \in SUBSET Tx
    BY DEF Purge
  <2>2. pc \in OpPc /\ ret \in OpPc
    BY Names
  <2>3. op' = [NoOp EXCEPT !.kind = "recon", !.pc = pc, !.ret = ret,
                           !.todo = delLog, !.marked = deletes, !.doomed = left]
    BY <1>8 DEF PurgeReconcile
  <2>4. op' \in Job
    <3> HIDE DEF deletes, pc, ret, left
    <3>1. [NoOp EXCEPT !.kind = "recon", !.pc = pc] \in Job
      BY <2>2, NoOpType, Names DEF Job
    <3>2. [NoOp EXCEPT !.kind = "recon", !.pc = pc, !.ret = ret] \in Job
      BY <2>2, <3>1 DEF Job
    <3>3. [NoOp EXCEPT !.kind = "recon", !.pc = pc, !.ret = ret,
                       !.todo = delLog] \in Job
      BY <3>2 DEF Job
    <3>4. [NoOp EXCEPT !.kind = "recon", !.pc = pc, !.ret = ret,
                       !.todo = delLog, !.marked = deletes] \in Job
      BY <2>1, <3>3 DEF Job
    <3> QED BY <2>1, <2>3, <3>4 DEF Job
  <2>5. purge' \in Purge
    BY <1>8 DEF PurgeReconcile, Purge
  <2>6. seal' \in [unsync: BOOLEAN, log: Log] /\ nuked' \in BOOLEAN
    BY <1>8 DEF PurgeReconcile, Nuke
  <2> QED BY <1>8, <2>4, <2>5, <2>6 DEF PurgeReconcile, share
<1> QED BY <1>1, <1>2, <1>3, <1>4, <1>5, <1>6, <1>7, <1>8 DEF Purger

(* A failing job and a restart keep the types.                              *)
LEMMA StopType == TypeOK /\ (Fail \/ Crash \/ Shutdown) => Types'
<1> SUFFICES ASSUME TypeOK, Fail \/ Crash \/ Shutdown PROVE Types'
  OBVIOUS
<1> USE DEF TypeOK, Types, ShareType, CacheType, EngineType
<1>1. CASE Fail
  <2>1. rows' \in SUBSET Prints /\ ref' \in [Prints -> Int]
    <3>1. CASE op.pc = "incr"
      <4>1. Ecl[op.ver] \subseteq Prints
        BY <3>1, DataStoreAssumption DEF OpSound
      <4>2. PICK S \in SUBSET Ecl[op.ver] : AddRef(S, 1)
        BY <1>1, <3>1 DEF Fail
      <4> QED BY <4>1, <4>2, AddRefType
    <3>2. CASE op.pc = "decr"
      <4>1. EclPrints(op.target) \subseteq Prints
        BY <3>2, EclType DEF OpSound
      <4>2. PICK S \in SUBSET EclPrints(op.target) : AddRef(S, -1)
        BY <1>1, <3>2 DEF Fail
      <4> QED BY <4>1, <4>2, AddRefType
    <3>3. CASE op.pc \notin {"incr", "decr"}
      BY <1>1, <3>3 DEF Fail
    <3> QED BY <3>1, <3>2, <3>3
  <2>2. op' \in Job /\ open' \in [Tx -> Vault] /\ purge' \in Purge
    BY <1>1, NoOpType, NoVaultType, NoPurgeType DEF Fail
  <2> QED BY <1>1, <2>1, <2>2 DEF Fail, share
<1>2. ASSUME FreshEngine PROVE EngineType'
  BY <1>2, NoOpType, NoVaultType, NoPurgeType DEF FreshEngine
<1>3. ASSUME restarts < MaxRestarts, restarts' = restarts + 1
      PROVE  restarts' \in 0 .. MaxRestarts
  BY <1>3, DataStoreAssumption
<1>4. CASE Crash
  BY <1>2, <1>3, <1>4 DEF Crash, share
<1>5. CASE Shutdown
  <2>1. seal' \in [unsync: BOOLEAN, log: Log] /\ dbMoved' \in BOOLEAN
    BY <1>5 DEF Shutdown
  <2> QED BY <1>2, <1>3, <1>5, <2>1 DEF Shutdown, share
<1> QED BY <1>1, <1>4, <1>5

(* Every step keeps the types.                                              *)
LEMMA TypeStep == TypeOK /\ [Next]_vars => Types'
<1> SUFFICES ASSUME TypeOK, [Next]_vars PROVE Types'
  OBVIOUS
<1>1. CASE OpStep
  BY <1>1, CleanType, BeginType, UnnukeType, VaultType, CommitType, DeleteType,
     SyncType DEF OpStep
<1>2. CASE UNCHANGED vars
  BY <1>2 DEF vars, share, cache, engine, TypeOK, Types, ShareType, CacheType,
     EngineType
<1> QED
  BY <1>1, <1>2, SenderType, AbortType, StartType, PurgeType, StopType DEF Next

(* What a job is about stays with it from step to step.                      *)
LEMMA SoundStep == TypeOK /\ [Next]_vars => OpSound'
<1> SUFFICES ASSUME TypeOK, [Next]_vars PROVE OpSound'
  OBVIOUS
<1> USE DEF TypeOK, OpSound
<1>1. CASE Clean
  <2>1. open' = open
    BY <1>1 DEF Clean, CleanChoose, CleanWriteLog, CleanRemoveFile, CleanDump,
       CleanDropLog, CleanCommit
  <2>2. op \in Job
    BY DEF Types, EngineType
  <2>3. /\ op'.kind = op.kind /\ op'.ver = op.ver /\ op'.target = op.target
        /\ \/ op'.ret = op.ret
           \/ op'.ret = "seal"
        /\ \/ op'.pc \in {"clean", "write", "oldRm", "oldDrop", "rm", "drop",
                          "commit"}
           \/ op'.pc = op.ret
    <3>1. CASE CleanChoose \/ CleanWriteLog
      BY <2>2, <3>1 DEF CleanChoose, CleanWriteLog, Goto, Job
    <3>2. CASE CleanRemoveFile
      BY <2>2, <3>2 DEF CleanRemoveFile, At, Job
    <3>3. CASE CleanDump \/ CleanDropLog
      BY <2>2, <3>3 DEF CleanDump, CleanDropLog, Goto, Job
    <3>4. CASE CleanCommit
      BY <2>2, <3>4 DEF CleanCommit, Job
    <3> QED BY <1>1, <3>1, <3>2, <3>3, <3>4 DEF Clean
  <2> QED BY <2>1, <2>3
<1>2. CASE CreateTxBegin \/ PutEcl \/ CommitBeginFlags \/ CommitBeginLog
  <2>1. open' = open /\ op \in Job
    BY <1>2 DEF CreateTxBegin, PutEcl, CommitBeginFlags, CommitBeginLog, Types,
       EngineType
  <2>2. /\ op'.kind = op.kind /\ op'.ver = op.ver /\ op'.target = op.target
        /\ op'.ret = op.ret
    BY <1>2, <2>1 DEF CreateTxBegin, PutEcl, CommitBeginFlags, CommitBeginLog,
       Goto, Job
  <2>3. \/ op'.pc \in {"beginLog", "putEcl", "seal", "delFlags"}
        \/ op'.pc = "delta" /\ op.kind = "vault"
        \/ op'.pc = "decr" /\ op.kind = "delete"
    BY <1>2, <2>1 DEF CreateTxBegin, PutEcl, CommitBeginFlags, CommitBeginLog,
       At, Goto, Job
  <2> QED BY <2>1, <2>2, <2>3
<1>3. CASE UnnukeSync
  <2>1. op' = NoOp
    BY <1>3 DEF UnnukeSync
  <2>2. ASSUME NEW t \in Tx, open'[t].phase # "none"
        PROVE  open'[t].ver \in Version
    <3>1. open \in [Tx -> Vault]
      BY DEF Types, EngineType
    <3> QED BY <1>3, <2>2, <3>1 DEF UnnukeSync, NoVault
  <2> QED BY <2>1, <2>2 DEF NoOp
<1>4. CASE CreateVaultLog
  BY <1>4 DEF CreateVaultLog, At, NoOp, Types, EngineType, Job
<1>5. CASE CommitVaulted \/ CommitIncrement
  <2>1. op \in Job /\ open \in [Tx -> Vault]
    BY DEF Types, EngineType
  <2>2. \A t \in Tx : open'[t] = open[t] \/ open'[t] = NoVault
    BY <1>5, <2>1 DEF CommitVaulted, CommitIncrement
  <2>3. op' = NoOp \/ /\ op'.kind = op.kind /\ op'.ver = op.ver
                      /\ op'.target = op.target /\ op'.ret = op.ret
                      /\ op.kind = "commit" /\ op'.pc \in {"incr", "seal"}
    BY <1>5, <2>1 DEF CommitVaulted, CommitIncrement, At, Goto, Job
  <2> QED BY <2>2, <2>3 DEF NoOp, NoVault
<1>6. CASE DeleteDecrement \/ CommitDeleteFlags \/ CommitDeleteLog
  <2>1. op \in Job /\ open' = open
    BY <1>6 DEF Types, EngineType, DeleteDecrement, CommitDeleteFlags,
       CommitDeleteLog
  <2>2. op' = NoOp \/ /\ op'.kind = op.kind /\ op'.target = op.target
                      /\ op'.ret = op.ret
                      /\ op'.ver = op.ver \/ op'.kind = "delete"
                      /\ op'.pc \in {"putEcl", "delLog", "seal"}
    BY <1>6, <2>1 DEF DeleteDecrement, CommitDeleteFlags, CommitDeleteLog, At,
       Goto, Job
  <2> QED BY <2>1, <2>2 DEF NoOp
<1>7. CASE SyncLoad \/ SyncReplay \/ SyncRollback
  <2>1. op \in Job /\ open' = open
    BY <1>7 DEF Types, EngineType, SyncLoad, SyncReplay, SyncRollback
  <2>2. op' = NoOp \/ /\ op'.kind = op.kind /\ op'.target = op.target
                      /\ op'.ver = op.ver
                      /\ op'.ret = op.ret \/ op'.ret = "seal"
                      /\ op'.pc \in {"clean", "rollback"}
    BY <1>7, <2>1 DEF SyncLoad, SyncReplay, SyncRollback, Goto, Job
  <2> QED BY <2>1, <2>2 DEF NoOp
<1>8. ASSUME NEW t \in Tx, Sender(t) \/ VaultAbort(t) PROVE OpSound'
  <2>1. open \in [Tx -> Vault]
    BY DEF Types, EngineType
  <2>2. CASE CommitVault(t)
    <3>1. op' = [NoOp EXCEPT !.kind = "commit", !.pc = "vaulted", !.tx = t,
                             !.ver = open[t].ver]
          /\ open' = open /\ open[t].ver \in Version
      BY <2>2 DEF CommitVault
    <3> QED BY <3>1 DEF NoOp
  <2>3. CASE ~CommitVault(t)
    <3>1. op' = op
      BY <1>8, <2>3 DEF Sender, VaultNext, SendPrint, VaultUnregister, VaultAbort
    <3>2. \A u \in Tx : \/ open'[u] = NoVault
                        \/ /\ open'[u].ver = open[u].ver
                           /\ open[u].phase = "none" => open'[u].phase = "none"
      <4>1. CASE VaultAbort(t)
        BY <2>1, <4>1 DEF VaultAbort
      <4>2. CASE VaultUnregister(t)
        BY <2>1, <4>2 DEF VaultUnregister, Vault
      <4>3. ASSUME NEW p \in Prints, VaultNext(t, p) \/ SendPrint(t, p)
            PROVE  \A u \in Tx : /\ open'[u].ver = open[u].ver
                                 /\ open'[u].phase = open[u].phase
        <5>1. CASE VaultNext(t, p)
          BY <2>1, <5>1 DEF VaultNext, Vault
        <5>2. CASE SendPrint(t, p)
          BY <2>1, <5>2 DEF SendPrint, Vault
        <5> QED BY <4>3, <5>1, <5>2
      <4> QED BY <1>8, <2>3, <4>1, <4>2, <4>3 DEF Sender
    <3> QED BY <3>1, <3>2 DEF NoVault
  <2> QED BY <2>2, <2>3
<1>9. ASSUME NEW v \in Version, MakeVault(v) PROVE OpSound'
  BY <1>9 DEF MakeVault, NoOp
<1>10. ASSUME NEW t \in Tx, MakeDelete(t) PROVE OpSound'
  BY <1>10 DEF MakeDelete, NoOp
<1>11. CASE StartPurge \/ Purger
  <2>1. open' = open
    BY <1>11 DEF StartPurge, Purger, PurgeTake, PurgeGiveUp, PurgeAsk,
       PurgeDelete, PurgeFinish, PurgeEnd, PurgeReconcile
  <2>2. \/ op' = op
        \/ /\ op'.kind = "recon" /\ op'.ret \in {"seal", "clean"}
           /\ op'.pc \in {"clean", "oldRm", "write"}
    <3>1. CASE PurgeReconcile
      BY <3>1 DEF PurgeReconcile, NoOp
    <3>2. CASE ~PurgeReconcile
      BY <1>11, <3>2 DEF StartPurge, Purger, PurgeTake, PurgeGiveUp,
         PurgeAsk, PurgeDelete, PurgeFinish, PurgeEnd
    <3> QED BY <3>1, <3>2
  <2> QED BY <2>1, <2>2
<1>12. CASE SyncTrusted \/ SyncRebuild
  BY <1>12 DEF SyncTrusted, SyncRebuild, StartOp, NoOp
<1>13. CASE Fail \/ Crash \/ Shutdown
  <2>1. op' = NoOp
    BY <1>13 DEF Fail, Crash, Shutdown, FreshEngine
  <2>2. \A t \in Tx : open'[t] = open[t] \/ open'[t] = NoVault
    BY <1>13 DEF Fail, Crash, Shutdown, FreshEngine, Types, EngineType
  <2> QED BY <2>1, <2>2 DEF NoOp, NoVault
<1>14. CASE UNCHANGED vars
  BY <1>14 DEF vars, engine
<1> QED
  BY <1>1, <1>2, <1>3, <1>4, <1>5, <1>6, <1>7, <1>8, <1>9, <1>10, <1>11, <1>12,
     <1>13, <1>14 DEF Next, OpStep

(* The type invariant, and with it that each job has the version, the vault  *)
(* and the transaction its steps need (Ods.makeVault, makeDelete, VaultTx).  *)
THEOREM TypeCorrect == Spec => []TypeOK
<1>1. TypeOK /\ [Next]_vars => TypeOK'
  BY TypeStep, SoundStep DEF TypeOK
<1> QED BY TypeInit, <1>1, PTL DEF Spec

(* A crash at any point of a job is noticed: the seal of the cache is trusted *)
(* only when no job was running and transact.tx is the one that was sealed   *)
(* (Ods.nukeSync before the first write of each job, Ods.unnukeSync after    *)
(* its last).  With the types the property is inductive.                     *)
THEOREM SealIsTrusted == Spec => []SealTrusted
<1>1. Init => SealTrusted
  BY DEF Init, SealTrusted
<1>2. TypeOK /\ SealTrusted /\ [Next]_vars => SealTrusted'
  <2> SUFFICES ASSUME TypeOK, SealTrusted, [Next]_vars
               PROVE  SealTrusted'
    OBVIOUS
  <2> USE DEF SealTrusted
  <2>1. CASE OpStep
    <3>1. op.kind # "none" /\ seal.unsync
      BY <2>1 DEF OpStep, Clean, CleanChoose, CleanWriteLog, CleanRemoveFile,
         CleanDump, CleanDropLog, CleanCommit, CreateTxBegin, PutEcl,
         UnnukeSync, CreateVaultLog, CommitBeginFlags, CommitBeginLog,
         CommitVaulted, CommitIncrement, DeleteDecrement, CommitDeleteFlags,
         CommitDeleteLog, SyncLoad, SyncReplay, SyncRollback, At
    <3>2. CASE UnnukeSync
      BY <3>2 DEF UnnukeSync, NoOp, share
    <3>3. CASE ~UnnukeSync
      <4>1. seal' = seal
        BY <2>1, <3>3 DEF OpStep, Clean, CleanChoose, CleanWriteLog,
           CleanRemoveFile, CleanDump, CleanDropLog, CleanCommit,
           CreateTxBegin, PutEcl, CreateVaultLog, CommitBeginFlags,
           CommitBeginLog, CommitVaulted, CommitIncrement, DeleteDecrement,
           CommitDeleteFlags, CommitDeleteLog, SyncLoad, SyncReplay,
           SyncRollback, cache
      <4> QED BY <3>1, <4>1
    <3> QED BY <3>2, <3>3
  <2>2. ASSUME NEW v \in Version, MakeVault(v)
        PROVE  SealTrusted'
    BY <2>2 DEF MakeVault, Nuke
  <2>3. ASSUME NEW t \in Tx, Sender(t)
        PROVE  SealTrusted'
    <3>1. ASSUME NEW p \in Prints, VaultNext(t, p) \/ SendPrint(t, p)
          PROVE  SealTrusted'
      BY <3>1 DEF VaultNext, SendPrint, share, cache
    <3>2. CASE VaultUnregister(t)
      BY <3>2 DEF VaultUnregister, share, cache
    <3>3. CASE CommitVault(t)
      BY <3>3 DEF CommitVault, Nuke
    <3> QED BY <2>3, <3>1, <3>2, <3>3 DEF Sender
  <2>4. ASSUME NEW t \in Tx, VaultAbort(t) \/ MakeDelete(t)
        PROVE  SealTrusted'
    <3>1. CASE VaultAbort(t)
      BY <3>1 DEF VaultAbort, share
    <3>2. CASE MakeDelete(t)
      BY <3>2 DEF MakeDelete, Nuke
    <3> QED BY <2>4, <3>1, <3>2
  <2>5. CASE StartPurge \/ Purger
    <3>1. CASE StartPurge \/ PurgeTake \/ PurgeGiveUp \/ PurgeAsk \/ PurgeEnd
      BY <3>1 DEF StartPurge, PurgeTake, PurgeGiveUp, PurgeAsk, PurgeEnd,
         share, cache
    <3>2. CASE PurgeDelete
      BY <3>2 DEF PurgeDelete, cache
    <3>3. CASE PurgeFinish
      <4>1. \/ seal' = seal \/ Nuke
        BY <3>3 DEF PurgeFinish
      <4>2. op' = op /\ txLog' = txLog
        BY <3>3 DEF PurgeFinish, share
      <4>3. seal \in [unsync: BOOLEAN, log: Log]
        BY DEF TypeOK, Types, CacheType
      <4> QED BY <4>1, <4>2, <4>3 DEF Nuke
    <3>4. CASE PurgeReconcile
      BY <3>4 DEF PurgeReconcile, Nuke
    <3> QED BY <2>5, <3>1, <3>2, <3>3, <3>4 DEF Purger
  <2>6. CASE SyncTrusted \/ SyncRebuild
    <3>1. CASE SyncTrusted
      BY <3>1 DEF SyncTrusted, share, cache
    <3>2. CASE SyncRebuild
      BY <3>2 DEF SyncRebuild, StartOp, Nuke, share
    <3> QED BY <2>6, <3>1, <3>2
  <2>7. CASE Fail \/ Crash \/ Shutdown
    <3>1. CASE Fail
      BY <3>1 DEF Fail, share, NoOp
    <3>2. CASE Crash
      BY <3>2 DEF Crash, FreshEngine, NoOp, share
    <3>3. CASE Shutdown
      BY <3>3 DEF Shutdown, FreshEngine, NoOp, share
    <3> QED BY <2>7, <3>1, <3>2, <3>3
  <2>8. CASE UNCHANGED vars
    BY <2>8 DEF vars, share, cache, engine
  <2> QED BY <2>1, <2>2, <2>3, <2>4, <2>5, <2>6, <2>7, <2>8 DEF Next
<1> QED BY <1>1, <1>2, TypeCorrect, PTL DEF Spec

(* A print that a vault has sent is on the share.                            *)
PrintSent(t, p) == p \in open[t].held \ open[t].cur => p \in blocks

(* What maintPurge is about to delete is not held by the vault.              *)
PrintFree(t, p) == purge.pc = "unlink" /\ p \in purge.batch => p \notin open[t].held

(* The step that the delete lock is there to exclude: a vault locks a print  *)
(* after the purge has asked for the active ones and before it deletes it.   *)
Sneaks(t, p) == /\ purge.pc = "unlink" /\ p \in purge.batch
                /\ p \notin open[t].held /\ p \in open'[t].held

(* No step takes a block away that an open vault has sent, since the purge   *)
(* deletes only what the vault does not hold.                                *)
LEMMA SentStep ==
    ASSUME TypeOK, NEW t \in Tx, NEW q \in Prints, PrintSent(t, q), PrintFree(t, q),
           [Next]_vars
    PROVE  PrintSent(t, q)'
<1>1. open \in [Tx -> Vault]
  BY DEF TypeOK, Types, EngineType
<1>2. q \in open[t].held \ open[t].cur => q \in blocks
  BY DEF PrintSent
<1>3. CASE UnnukeSync
  BY <1>1, <1>2, <1>3 DEF UnnukeSync, NoVault, share, PrintSent
<1>4. CASE CommitVaulted
  BY <1>1, <1>2, <1>4 DEF CommitVaulted, NoVault, PrintSent
<1>5. CASE Fail \/ Crash \/ Shutdown
  <2>1. blocks' = blocks
    BY <1>5 DEF Fail, Crash, Shutdown, share
  <2>2. open'[t] = open[t] \/ open'[t] = NoVault
    BY <1>1, <1>5 DEF Fail, Crash, Shutdown, FreshEngine
  <2> QED BY <1>2, <2>1, <2>2 DEF NoVault, PrintSent
<1>6. ASSUME NEW u \in Tx, VaultAbort(u) \/ VaultUnregister(u)
      PROVE  PrintSent(t, q)'
  <2>1. blocks' = blocks
    BY <1>6 DEF VaultAbort, VaultUnregister, share
  <2>2. open'[t] = open[t] \/ open'[t].held = {}
    <3>1. CASE VaultAbort(u)
      BY <1>1, <3>1 DEF VaultAbort, NoVault
    <3>2. CASE VaultUnregister(u)
      BY <1>1, <3>2 DEF VaultUnregister, Vault
    <3> QED BY <1>6, <3>1, <3>2
  <2> QED BY <1>2, <2>1, <2>2 DEF PrintSent
<1>7. ASSUME NEW u \in Tx, NEW p \in Prints, VaultNext(u, p)
      PROVE  PrintSent(t, q)'
  <2>1. blocks' = blocks
    BY <1>7 DEF VaultNext, share
  <2>2. CASE u = t
    <3>1. /\ open'[t].held = open[t].held \cup {p}
          /\ open'[t].cur = open[t].cur \cup {p}
      BY <1>1, <1>7, <2>2 DEF VaultNext, Vault
    <3> QED BY <1>2, <2>1, <3>1 DEF PrintSent
  <2>3. CASE u # t
    BY <1>1, <1>2, <1>7, <2>1, <2>3 DEF VaultNext, PrintSent
  <2> QED BY <2>2, <2>3
<1>8. ASSUME NEW u \in Tx, NEW p \in Prints, SendPrint(u, p)
      PROVE  PrintSent(t, q)'
  <2>1. blocks' = blocks \cup {p}
    BY <1>8 DEF SendPrint
  <2>2. CASE u = t
    <3>1. open'[t].held = open[t].held /\ open'[t].cur = open[t].cur \ {p}
      BY <1>1, <1>8, <2>2 DEF SendPrint, Vault
    <3> QED BY <1>2, <2>1, <3>1 DEF PrintSent
  <2>3. CASE u # t
    BY <1>1, <1>2, <1>8, <2>1, <2>3 DEF SendPrint, PrintSent
  <2> QED BY <2>2, <2>3
<1>9. CASE PurgeDelete
  <2>1. open' = open
    BY <1>9 DEF PurgeDelete
  <2>2. ~(q \in open[t].held /\ q \in purge.batch)
    BY <1>9 DEF PurgeDelete, PrintFree
  <2>3. q \in blocks /\ q \notin purge.batch => q \in blocks'
    BY <1>9 DEF PurgeDelete
  <2> QED BY <1>2, <2>1, <2>2, <2>3 DEF PrintSent
<1>10. CASE UNCHANGED <<open, blocks>>
  BY <1>2, <1>10 DEF PrintSent
<1>11. OpStep => UnnukeSync \/ CommitVaulted \/ UNCHANGED <<open, blocks>>
  BY DEF OpStep, Clean, CleanChoose, CleanWriteLog, CleanRemoveFile,
     CleanDump, CleanDropLog, CleanCommit, CreateTxBegin, PutEcl,
     CreateVaultLog, CommitBeginFlags, CommitBeginLog, CommitIncrement,
     DeleteDecrement, CommitDeleteFlags, CommitDeleteLog, SyncLoad,
     SyncReplay, SyncRollback, share
<1>12. StartPurge \/ Purger => PurgeDelete \/ UNCHANGED <<open, blocks>>
  BY DEF StartPurge, Purger, PurgeTake, PurgeGiveUp, PurgeAsk, PurgeFinish, PurgeEnd,
     PurgeReconcile, share
<1>13. SyncTrusted \/ SyncRebuild => UNCHANGED <<open, blocks>>
  BY DEF SyncTrusted, SyncRebuild, share
<1>14. ASSUME NEW v \in Version, MakeVault(v) PROVE UNCHANGED <<open, blocks>>
  BY <1>14 DEF MakeVault, share
<1>15. ASSUME NEW u \in Tx, MakeDelete(u) \/ CommitVault(u)
       PROVE  UNCHANGED <<open, blocks>>
  BY <1>15 DEF MakeDelete, CommitVault, share
<1>16. UNCHANGED vars => UNCHANGED <<open, blocks>>
  BY DEF vars, share, engine
<1>17. ASSUME NEW u \in Tx, Sender(u)
       PROVE  PrintSent(t, q)'
  BY <1>6, <1>7, <1>8, <1>10, <1>15, <1>17 DEF Sender
<1> QED
  BY <1>3, <1>4, <1>5, <1>6, <1>9, <1>10, <1>11, <1>12, <1>13, <1>16, <1>14,
     <1>15, <1>17 DEF Next

(* Between the question for the active prints and the deletion the vault     *)
(* does not begin to hold a print of the batch, unless it sneaks in.         *)
LEMMA UnlinkStep ==
    ASSUME TypeOK, NEW t \in Tx, NEW q \in Prints, PrintFree(t, q), [Next]_vars,
           [~Sneaks(t, q)]_vars
    PROVE  PrintFree(t, q)'
<1>1. open \in [Tx -> Vault] /\ purge \in Purge
  BY DEF TypeOK, Types, EngineType
<1>2. CASE purge'.pc # "unlink"
  BY <1>2 DEF PrintFree
<1>3. CASE PurgeAsk
  <2>1. open' = open
    BY <1>3 DEF PurgeAsk
  <2>2. purge'.batch \cap ActivePrints = {}
    BY <1>1, <1>3 DEF PurgeAsk, Purge
  <2> QED BY <2>1, <2>2 DEF PrintFree, ActivePrints
<1>4. ASSUME purge' = purge, \A u \in Tx : open'[u].held \subseteq open[u].held
      PROVE  PrintFree(t, q)'
  BY <1>4 DEF PrintFree
<1>5. ASSUME NEW u \in Tx, Sender(u) \/ VaultAbort(u) PROVE PrintFree(t, q)'
  <2>1. ASSUME NEW p \in Prints, VaultNext(u, p) PROVE PrintFree(t, q)'
    <3>1. purge' = purge
      BY <2>1 DEF VaultNext
    <3>2. ~Sneaks(t, q)
      BY DEF Sneaks, vars, engine
    <3> QED BY <3>1, <3>2 DEF PrintFree, Sneaks
  <2>2. ASSUME NEW p \in Prints, SendPrint(u, p) PROVE PrintFree(t, q)'
    BY <1>1, <1>4, <2>2 DEF SendPrint, Vault
  <2>3. CASE VaultUnregister(u)
    BY <1>1, <1>4, <2>3 DEF VaultUnregister, Vault
  <2>4. CASE CommitVault(u)
    BY <1>4, <2>4 DEF CommitVault
  <2>5. CASE VaultAbort(u)
    BY <1>1, <1>4, <2>5 DEF VaultAbort, NoVault
  <2> QED BY <1>5, <2>1, <2>2, <2>3, <2>4, <2>5 DEF Sender
<1>6. CASE StartPurge \/ Purger
  <2>1. CASE StartPurge
    BY <1>2, <2>1 DEF StartPurge, NoPurge
  <2>2. CASE PurgeTake
    BY <1>1, <1>2, <2>2 DEF PurgeTake, Purge
  <2>3. CASE PurgeGiveUp \/ PurgeEnd
    BY <1>2, <2>3 DEF PurgeGiveUp, PurgeEnd, NoPurge
  <2>4. CASE PurgeDelete \/ PurgeReconcile
    BY <1>1, <1>2, <2>4 DEF PurgeDelete, PurgeReconcile, Purge
  <2>5. CASE PurgeFinish
    <3>1. purge' = NoPurge \/ purge' = [purge EXCEPT !.batch = {}, !.pc = "loop"]
      BY <2>5 DEF PurgeFinish
    <3>2. [purge EXCEPT !.batch = {}, !.pc = "loop"].pc = "loop"
      BY <1>1 DEF Purge
    <3>3. NoPurge.pc = "idle"
      BY DEF NoPurge
    <3> QED BY <1>2, <3>1, <3>2, <3>3
  <2> QED BY <1>3, <1>6, <2>1, <2>2, <2>3, <2>4, <2>5 DEF Purger
<1>7. CASE OpStep
  <2>1. CASE UnnukeSync
    <3>1. \A u \in Tx : open'[u].held \subseteq open[u].held
      BY <1>1, <2>1 DEF UnnukeSync, NoVault
    <3>2. purge' = purge \/ purge'.pc = "idle"
      BY <2>1 DEF UnnukeSync, NoPurge
    <3> QED BY <1>2, <1>4, <3>1, <3>2
  <2>2. CASE CommitVaulted
    BY <1>1, <1>4, <2>2 DEF CommitVaulted, NoVault
  <2>3. CASE UNCHANGED <<open, purge>>
    BY <1>4, <2>3
  <2>4. UnnukeSync \/ CommitVaulted \/ UNCHANGED <<open, purge>>
    BY <1>7 DEF OpStep, Clean, CleanChoose, CleanWriteLog, CleanRemoveFile,
       CleanDump, CleanDropLog, CleanCommit, CreateTxBegin, PutEcl,
       CreateVaultLog, CommitBeginFlags, CommitBeginLog, CommitIncrement,
       DeleteDecrement, CommitDeleteFlags, CommitDeleteLog, SyncLoad,
       SyncReplay, SyncRollback
  <2> QED BY <2>1, <2>2, <2>3, <2>4
<1>8. CASE Fail \/ Crash \/ Shutdown
  <2>1. \A u \in Tx : open'[u] = open[u] \/ open'[u] = NoVault
    BY <1>1, <1>8 DEF Fail, Crash, Shutdown, FreshEngine
  <2>2. \A u \in Tx : open'[u].held \subseteq open[u].held
    BY <2>1 DEF NoVault
  <2>3. purge' = purge \/ purge' = NoPurge
    BY <1>8 DEF Fail, Crash, Shutdown, FreshEngine
  <2> QED BY <1>2, <1>4, <2>2, <2>3 DEF NoPurge
<1>9. CASE UNCHANGED <<open, purge>>
  BY <1>4, <1>9
<1>10. SyncTrusted \/ SyncRebuild => UNCHANGED <<open, purge>>
  BY DEF SyncTrusted, SyncRebuild
<1>11. ASSUME NEW v \in Version, MakeVault(v) PROVE UNCHANGED <<open, purge>>
  BY <1>11 DEF MakeVault
<1>12. ASSUME NEW u \in Tx, MakeDelete(u) PROVE UNCHANGED <<open, purge>>
  BY <1>12 DEF MakeDelete
<1>13. UNCHANGED vars => UNCHANGED <<open, purge>>
  BY DEF vars, engine
<1> QED
  BY <1>5, <1>6, <1>7, <1>8, <1>9, <1>10, <1>11, <1>12, <1>13 DEF Next

(* The purge never takes a block away from a vault that has sent it, however *)
(* long ago its batch was read: the prints that a registered vault holds are *)
(* set aside before the blocks are deleted (VaultManager.isActivePrint in    *)
(* Ods.maintPurge).  What it takes is that this vault does not lock this     *)
(* print between the question and the deletion; what the others do, and the  *)
(* delete lock, do not matter.  Inductive only together with PrintFree.      *)
THEOREM PrintIsKept ==
    ASSUME NEW t \in Tx, NEW p \in Prints
    PROVE  Spec /\ [][~Sneaks(t, p)]_vars => []PrintSent(t, p)
<1> DEFINE Inv == PrintSent(t, p) /\ PrintFree(t, p)
<1>1. Init => Inv
  BY DEF Init, PrintSent, PrintFree, NoVault, NoPurge
<1>2. TypeOK /\ Inv /\ [Next]_vars /\ [~Sneaks(t, p)]_vars => Inv'
  BY SentStep, UnlinkStep
<1>3. Inv => PrintSent(t, p)
  OBVIOUS
<1> HIDE DEF Inv
<1> QED BY <1>1, <1>2, <1>3, TypeCorrect, PTL DEF Spec

(* So every open vault keeps what it has sent in any behaviour, with any     *)
(* faults, in which no vault sneaks in.                                      *)
THEOREM SentIsKept ==
    Spec /\ [][\A t \in Tx : \A p \in Prints : ~Sneaks(t, p)]_vars => []SentKept
<1> DEFINE NoneSneaks == \A t \in Tx : \A p \in Prints : ~Sneaks(t, p)
           Inv == \A t \in Tx : \A p \in Prints : PrintSent(t, p) /\ PrintFree(t, p)
<1>1. Init => Inv
  BY DEF Init, PrintSent, PrintFree, NoVault, NoPurge
<1>2. TypeOK /\ Inv /\ [Next]_vars /\ [NoneSneaks]_vars => Inv'
  <2> SUFFICES ASSUME TypeOK, Inv, [Next]_vars, [NoneSneaks]_vars,
                      NEW t \in Tx, NEW p \in Prints
               PROVE  PrintSent(t, p)' /\ PrintFree(t, p)'
    OBVIOUS
  <2>1. PrintSent(t, p) /\ PrintFree(t, p)
    OBVIOUS
  <2>2. [~Sneaks(t, p)]_vars
    OBVIOUS
  <2> QED BY <2>1, <2>2, SentStep, UnlinkStep
<1>3. TypeOK /\ Inv => SentKept
  BY DEF TypeOK, Types, EngineType, Vault, PrintSent, SentKept
<1> HIDE DEF Inv
<1> QED BY <1>1, <1>2, <1>3, TypeCorrect, PTL DEF Spec

(* The delete lock keeps every vault out, as long as no reader makes it      *)
(* forget another (readFlagLost); then the condition need not be assumed.    *)
THEOREM LockKeepsOut ==
    ASSUME "readFlagLost" \notin Faults
    PROVE  Spec => [][\A t \in Tx : \A p \in Prints : ~Sneaks(t, p)]_vars
<1>1. ASSUME TypeOK, Next, NEW t \in Tx, NEW p \in Prints, Sneaks(t, p)
      PROVE  FALSE
  <2>1. open \in [Tx -> Vault] /\ DeleteLocked
    BY <1>1 DEF TypeOK, Types, EngineType, Sneaks, DeleteLocked
  <2>2. p \notin open[t].held /\ p \in open'[t].held
    BY <1>1 DEF Sneaks
  <2>3. ASSUME NEW u \in Tx, Sender(u) \/ VaultAbort(u) PROVE FALSE
    <3>1. ~ \E q \in Prints : VaultNext(u, q)
      BY <2>1 DEF VaultNext
    <3>2. ASSUME NEW q \in Prints PROVE ~SendPrint(u, q)
      BY <2>1, <2>2 DEF SendPrint, Vault
    <3>3. ~VaultUnregister(u)
      BY <2>1, <2>2 DEF VaultUnregister, Vault
    <3>4. ~CommitVault(u)
      BY <2>2 DEF CommitVault
    <3>5. ASSUME VaultAbort(u) PROVE FALSE
      <4>1. open'[t].held \subseteq open[t].held
        BY <2>1, <3>5 DEF VaultAbort, NoVault
      <4> QED BY <2>2, <4>1
    <3> QED BY <2>3, <3>1, <3>2, <3>3, <3>4, <3>5 DEF Sender
  <2>4. ASSUME Fail \/ Crash \/ Shutdown PROVE FALSE
    <3>1. open'[t] = open[t] \/ open'[t] = NoVault
      BY <2>1, <2>4 DEF Fail, Crash, Shutdown, FreshEngine
    <3> QED BY <2>2, <3>1 DEF NoVault
  <2>5. ASSUME UnnukeSync PROVE FALSE
    <3>1. open'[t].held \subseteq open[t].held
      BY <2>1, <2>5 DEF UnnukeSync, NoVault
    <3> QED BY <2>2, <3>1
  <2>6. ASSUME CommitVaulted PROVE FALSE
    <3>1. open'[t].held \subseteq open[t].held
      BY <2>1, <2>6 DEF CommitVaulted, NoVault
    <3> QED BY <2>2, <3>1
  <2>7. OpStep => UnnukeSync \/ CommitVaulted \/ UNCHANGED open
    BY DEF OpStep, Clean, CleanChoose, CleanWriteLog, CleanRemoveFile,
       CleanDump, CleanDropLog, CleanCommit, CreateTxBegin, PutEcl,
       CreateVaultLog, CommitBeginFlags, CommitBeginLog, CommitIncrement,
       DeleteDecrement, CommitDeleteFlags, CommitDeleteLog, SyncLoad,
       SyncReplay, SyncRollback
  <2>8. StartPurge \/ Purger => UNCHANGED open
    BY DEF StartPurge, Purger, PurgeTake, PurgeGiveUp, PurgeAsk, PurgeDelete,
       PurgeFinish, PurgeEnd, PurgeReconcile
  <2>9. SyncTrusted \/ SyncRebuild => UNCHANGED open
    BY DEF SyncTrusted, SyncRebuild
  <2>10. ASSUME NEW v \in Version, MakeVault(v) PROVE UNCHANGED open
    BY <2>10 DEF MakeVault
  <2>11. ASSUME NEW u \in Tx, MakeDelete(u) PROVE UNCHANGED open
    BY <2>11 DEF MakeDelete
  <2> QED
    BY <1>1, <2>2, <2>3, <2>4, <2>5, <2>6, <2>7, <2>8, <2>9, <2>10, <2>11 DEF Next
<1>2. TypeOK /\ [Next]_vars => [\A t \in Tx : \A p \in Prints : ~Sneaks(t, p)]_vars
  BY <1>1
<1> QED BY <1>2, TypeCorrect, PTL DEF Spec

(* Theorems of DataStore about the transaction log, the files of the          *)
(* transactions and the cache of both, for any constants.                     *)

----------------------------------------------------------------------------
(* Operators of the proofs                                                    *)

B0 == [state |-> "Begin", del |-> 0]
NoFiles(t) == flagFile[t] = NoFile /\ ecl[t] = NoVersion

(* The cache has been filled in since the last failure or restart.            *)
Loaded == ~seal.unsync \/ VaultOpen \/ (op.kind # "none" /\ op.pc # "load")

CleanPc == {"oldRm", "oldDrop", "write", "rm", "drop", "commit"}

(* Only a sync rebuilds the cache, once, and before any vault is opened.      *)
EngineInv == /\ ~nuked => ~seal.unsync
             /\ VaultOpen => everSynced
             /\ op.kind = "sync" => ~everSynced
             /\ op.pc = "load" => op.kind = "sync"

(* What the share says of a transaction and its files.                        *)
FilesKnown == \A t \in Tx :
    /\ txLog[t] = "none" => NoFiles(t)
    /\ flagFile[t] = NoFile /\ ecl[t] # NoVersion => txLog[t] = "Begin"
    /\ largest # 0 /\ t > largest => NoFiles(t) /\ txLog[t] # "Begin"

(* What the cache knows of them.                                              *)
RowsKnown == Loaded => \A t \in Tx :
    /\ flag[t].state = "none" => NoFiles(t)
    /\ flagFile[t] = NoFile /\ ecl[t] # NoVersion => flag[t] = B0
    /\ txLog[t] = "Begin" => flag[t] # NoRow
    /\ largest # 0 /\ t > largest => flag[t] = NoRow

(* How far a cleanup has come.                                                *)
CleanKnown == op.kind # "none" /\ op.pc \in CleanPc =>
    /\ op.marked \cap op.doomed = {}
    /\ \A t \in op.marked : flag[t].del # 0
    /\ op.pc \in {"oldRm", "rm"} /\ op.at # 0 =>
          op.at \in op.todo /\ ecl[op.at] = NoVersion
    /\ op.pc = "rm" => \A t \in op.doomed \ op.todo : NoFiles(t)
    /\ op.pc \in {"drop", "commit"} =>
          \A t \in op.doomed : NoFiles(t) /\ txLog[t] = "none"

(* How far a job has come with the transaction it began.                      *)
Began == \/ op.pc \in {"delta", "decr", "beginFlags", "beginLog", "delFlags"}
         \/ op.pc = "putEcl" /\ op.kind # "vault"
Flagged == \/ op.pc \in {"beginLog", "delLog"}
           \/ op.pc = "putEcl" /\ op.kind = "vault"
JobKnown ==
    /\ op.at # 0 => op.pc \in {"oldRm", "rm"}
    /\ op.pc \notin CleanPc => op.marked = {}
    /\ op.kind # "none" =>
         /\ Began \/ Flagged => op.tx \in Tx
         /\ Began => flag[op.tx] = B0 /\ txLog[op.tx] = "Begin"
         /\ Flagged => flagFile[op.tx] # NoFile
         /\ op.pc \in {"beginFlags", "beginLog"} => op.kind = "vault"

OrphanInv == EngineInv /\ FilesKnown /\ RowsKnown /\ CleanKnown /\ JobKnown

----------------------------------------------------------------------------
(* A bounded set of numbers has a greatest one.                              *)
LEMMA MaxOf ==
    ASSUME NEW n \in Nat, NEW S \in SUBSET (0 .. n), S # {}
    PROVE  Max(S) \in S /\ \A y \in S : y <= Max(S)
<1> DEFINE R == OpToRel(<, Nat)
           U == {m \in Nat : \A y \in S : y <= m}
<1>1. ASSUME NEW x \in Nat, NEW y \in Nat, x < y PROVE <<x, y>> \in R
  BY <1>1, Zenon DEF OpToRel
<1>2. PICK u \in U : \A v \in U : ~ (<<v, u>> \in R)
  <2>1. U # {} /\ U \subseteq Nat
    OBVIOUS
  <2> HIDE DEF R, U
  <2>2. IsWellFoundedOn(R, Nat)
    BY NatLessThanWellFounded, Zenon DEF R
  <2>3. \E x \in U : \A y \in U : ~ (<<y, x>> \in R)
    BY <2>1, <2>2, WFMin
  <2> QED BY <2>3
<1> HIDE DEF R
<1>3. \A v \in U : v >= u
  <2> SUFFICES ASSUME NEW v \in U, v < u PROVE FALSE
    BY u \in U
  <2>1. <<v, u>> \in R
    BY <1>1
  <2> QED BY <1>2, <2>1
<1>4. u \in S
  <2> SUFFICES ASSUME u \notin S PROVE FALSE
    OBVIOUS
  <2>1. \A y \in S : y < u /\ y \in Nat
    BY u \in U
  <2>2. u > 0
    <3>1. PICK y \in S : TRUE
      OBVIOUS
    <3> QED BY <2>1, <3>1
  <2>3. u - 1 \in U
    BY <2>1, <2>2
  <2> QED BY <1>3, <2>3
<1>5. \E x \in S : \A y \in S : x >= y
  BY <1>4
<1> QED BY <1>5 DEF Max

(* A job that only goes on to another step.                                   *)
LEMMA GotoDoes ==
    ASSUME op \in Job, NEW x, Goto(x)
    PROVE  /\ op'.pc = x /\ op'.kind = op.kind /\ op'.ret = op.ret
           /\ op'.tx = op.tx /\ op'.ver = op.ver /\ op'.target = op.target
           /\ op'.doomed = op.doomed /\ op'.marked = op.marked
           /\ op'.todo = op.todo /\ op'.at = op.at /\ op'.delta = op.delta
  BY DEF Goto, Job

(* createTxBegin gives the job its number.                                    *)
LEMMA CreateDoes ==
    ASSUME op \in Job, CreateTxBegin
    PROVE  /\ op'.tx = NextTx
           /\ op'.pc = IF op.kind = "vault" THEN "delta" ELSE "decr"
           /\ op'.kind = op.kind /\ op'.ret = op.ret /\ op'.ver = op.ver
           /\ op'.target = op.target /\ op'.doomed = op.doomed
           /\ op'.marked = op.marked /\ op'.todo = op.todo /\ op'.at = op.at
           /\ op'.delta = op.delta
  BY DEF CreateTxBegin, Job

(* createVaultLog hands the job its delta.                                    *)
LEMMA DeltaDoes ==
    ASSUME op \in Job, CreateVaultLog, op.ver \notin ListedVersions
    PROVE  /\ op'.delta = {p \in Ecl[op.ver] : ref[p] <= 0}
           /\ op'.pc = "beginFlags" /\ op'.kind = op.kind /\ op'.ret = op.ret
           /\ op'.tx = op.tx /\ op'.ver = op.ver /\ op'.target = op.target
           /\ op'.doomed = op.doomed /\ op'.marked = op.marked
           /\ op'.todo = op.todo /\ op'.at = op.at
<1> DEFINE D == {p \in Ecl[op.ver] : ref[p] <= 0}
<1>1. op' = [op EXCEPT !.delta = D, !.pc = "beginFlags"]
  BY DEF CreateVaultLog
<1> HIDE DEF D
<1>2. op'.delta = D /\ op'.pc = "beginFlags"
  BY <1>1 DEF Job
<1>3. /\ op'.kind = op.kind /\ op'.ret = op.ret /\ op'.tx = op.tx
      /\ op'.ver = op.ver /\ op'.target = op.target /\ op'.at = op.at
      /\ op'.doomed = op.doomed /\ op'.marked = op.marked
      /\ op'.todo = op.todo
  BY <1>1 DEF Job
<1> QED BY <1>2, <1>3 DEF D

(* A delete reads the version of its target.                                  *)
LEMMA DecrementDoes ==
    ASSUME op \in Job, DeleteDecrement, ecl[op.target] # NoVersion
    PROVE  /\ op'.pc = "putEcl" /\ op'.ver = ecl[op.target]
           /\ op'.kind = op.kind /\ op'.ret = op.ret /\ op'.tx = op.tx
           /\ op'.target = op.target /\ op'.doomed = op.doomed
           /\ op'.marked = op.marked /\ op'.todo = op.todo /\ op'.at = op.at
           /\ op'.delta = op.delta
<1> DEFINE v == ecl[op.target]
<1>1. op' = [op EXCEPT !.pc = "putEcl", !.ver = v]
  BY DEF DeleteDecrement
<1> HIDE DEF v
<1>2. op'.pc = "putEcl" /\ op'.ver = v
  BY <1>1 DEF Job
<1>3. /\ op'.kind = op.kind /\ op'.ret = op.ret /\ op'.tx = op.tx
      /\ op'.target = op.target /\ op'.at = op.at /\ op'.delta = op.delta
      /\ op'.doomed = op.doomed /\ op'.marked = op.marked
      /\ op'.todo = op.todo
  BY <1>1 DEF Job
<1> QED BY <1>2, <1>3 DEF v

(* postSyncCleanup is followed by a cleanup.                                  *)
LEMMA RollbackDoes ==
    ASSUME op \in Job, SyncRollback
    PROVE  /\ op'.pc = "clean" /\ op'.ret = "seal" /\ op'.kind = op.kind
           /\ op'.tx = op.tx /\ op'.ver = op.ver /\ op'.target = op.target
           /\ op'.doomed = op.doomed /\ op'.marked = op.marked
           /\ op'.todo = op.todo /\ op'.at = op.at /\ op'.delta = op.delta
  BY DEF SyncRollback, Job

(* A cleanup commits its rows and returns.                                    *)
LEMMA CommitDoes ==
    ASSUME op \in Job, CleanCommit
    PROVE  /\ op'.pc = IF op.kind = "recon" /\ op.ret = "clean"
                     THEN "clean" ELSE op.ret
           /\ op'.ret = IF op.kind = "recon" /\ op.ret = "clean"
                     THEN "seal" ELSE op.ret
           /\ op'.doomed = {} /\ op'.marked = {} /\ op'.kind = op.kind
           /\ op'.tx = op.tx /\ op'.ver = op.ver /\ op'.target = op.target
           /\ op'.todo = op.todo /\ op'.at = op.at /\ op'.delta = op.delta
<1>1. CASE op.kind = "recon" /\ op.ret = "clean"
  BY <1>1 DEF CleanCommit, Job
<1>2. CASE ~(op.kind = "recon" /\ op.ret = "clean")
  BY <1>2 DEF CleanCommit, Job
<1> QED BY <1>1, <1>2

(* A cleanup writes its log.                                                  *)
LEMMA WriteDoes ==
    ASSUME op \in Job, CleanWriteLog, op.doomed # {}
    PROVE  /\ op'.pc = "rm" /\ op'.todo = op.doomed /\ op'.kind = op.kind
           /\ op'.ret = op.ret /\ op'.tx = op.tx /\ op'.ver = op.ver
           /\ op'.target = op.target /\ op'.doomed = op.doomed
           /\ op'.marked = op.marked /\ op'.at = op.at
           /\ op'.delta = op.delta
  BY DEF CleanWriteLog, Job

(* A cleanup removes a file.                                                  *)
LEMMA RemoveDoes ==
    ASSUME op \in Job, CleanRemoveFile
    PROVE  /\ (op.at # 0 => op'.at = 0) /\ (op.at = 0 => op'.at \in op.todo)
           /\ op'.todo = IF op.at = 0 THEN op.todo ELSE op.todo \ {op.at}
           /\ op'.kind = op.kind /\ op'.pc = op.pc /\ op'.ret = op.ret
           /\ op'.tx = op.tx /\ op'.ver = op.ver /\ op'.target = op.target
           /\ op'.doomed = op.doomed /\ op'.marked = op.marked
           /\ op'.delta = op.delta
  BY DEF CleanRemoveFile, Job

(* The cache is trusted only if the seal says so.                             *)
LEMMA SyncedSeal == ASSUME EngineInv, ~NeedsSync PROVE ~seal.unsync
  BY DEF EngineInv, NeedsSync, GoodMd5

(* The engine syncs once, and before it opens a vault.                        *)
LEMMA EngineStep ==
    ASSUME TypeOK, EngineInv, [Next]_vars PROVE EngineInv'
<1>1. open \in [Tx -> Vault] /\ op \in Job /\ seal \in [unsync: BOOLEAN, log: Log]
  BY DEF TypeOK, Types, CacheType, EngineType
<1>2. CASE UNCHANGED <<nuked, everSynced>> /\ (seal' = seal)
           /\ (VaultOpen' => VaultOpen)
           /\ (op' = op \/ (op'.pc # "load" /\ (op'.kind = "sync" => op.kind = "sync")))
  BY <1>2 DEF EngineInv
<1>3. CASE Nuke /\ UNCHANGED <<everSynced, open>>
           /\ (op'.kind = "sync" => ~everSynced)
           /\ (op'.pc = "load" => op'.kind = "sync")
  <2>1. seal'.unsync = TRUE /\ nuked' = TRUE
    BY <1>1, <1>3 DEF Nuke
  <2> QED BY <1>3, <2>1 DEF EngineInv, VaultOpen
<1>4. CASE UnnukeSync
  BY <1>4 DEF UnnukeSync, EngineInv, NoOp
<1>5. CASE Clean \/ CreateTxBegin \/ PutEcl \/ CreateVaultLog \/ CommitBeginFlags
           \/ CommitBeginLog \/ CommitIncrement \/ DeleteDecrement
           \/ CommitDeleteFlags \/ CommitDeleteLog \/ SyncReplay \/ SyncRollback
           \/ SyncLoad
  <2>1. UNCHANGED <<nuked, everSynced, seal, open>>
    BY <1>5 DEF Clean, CleanChoose, CleanWriteLog, CleanRemoveFile,
       CleanDump, CleanDropLog, CleanCommit, CreateTxBegin, PutEcl,
       CreateVaultLog, CommitBeginFlags, CommitBeginLog, CommitIncrement,
       DeleteDecrement, CommitDeleteFlags, CommitDeleteLog, SyncLoad,
       SyncReplay, SyncRollback, cache
  <2>2. op'.pc # "load" /\ (op'.kind = "sync" => op.kind = "sync")
    <3>1. CASE CleanChoose \/ CleanWriteLog \/ CleanDump \/ CleanDropLog \/ PutEcl
      BY <1>1, <3>1 DEF CleanChoose, CleanWriteLog, CleanDump, CleanDropLog,
         PutEcl, Goto, Job
    <3>2. CASE CleanCommit \/ CleanRemoveFile
      BY <1>1, <3>2 DEF CleanCommit, CleanRemoveFile, Job, TypeOK, OpSound, At
    <3>3. CASE CommitBeginFlags \/ CommitBeginLog \/ CommitIncrement
               \/ CommitDeleteFlags \/ CommitDeleteLog \/ SyncReplay \/ SyncLoad
      <4>1. op' = NoOp \/ \E x \in {"beginLog", "putEcl", "seal", "delLog",
                                    "rollback", "clean"} : Goto(x)
        BY <3>3 DEF CommitBeginFlags, CommitBeginLog, CommitIncrement,
           CommitDeleteFlags, CommitDeleteLog, SyncReplay, SyncLoad
      <4> QED BY <1>1, <4>1, GotoDoes DEF NoOp
    <3>4. CASE CreateTxBegin
      BY <1>1, <3>4, CreateDoes
    <3>5. CASE CreateVaultLog
      BY <1>1, <3>5, DeltaDoes DEF CreateVaultLog, NoOp
    <3>6. CASE DeleteDecrement
      BY <1>1, <3>6, DecrementDoes DEF DeleteDecrement, NoOp
    <3>7. CASE SyncRollback
      BY <1>1, <3>7, RollbackDoes
    <3> QED BY <1>5, <3>1, <3>2, <3>3, <3>4, <3>5, <3>6, <3>7 DEF Clean
  <2> QED BY <1>2, <2>1, <2>2 DEF VaultOpen
<1>6. CASE CommitVaulted
  <2>1. VaultOpen' => VaultOpen
    BY <1>1, <1>6 DEF CommitVaulted, VaultOpen, NoVault
  <2>2. op'.pc # "load" /\ (op'.kind = "sync" => op.kind = "sync")
    BY <1>1, <1>6 DEF CommitVaulted, Goto, NoOp, Job
  <2> QED BY <1>2, <1>6, <2>1, <2>2 DEF CommitVaulted
<1>7. ASSUME NEW t \in Tx, VaultAbort(t) \/ VaultUnregister(t) PROVE EngineInv'
  <2>1. CASE VaultAbort(t)
    BY <1>1, <1>2, <2>1 DEF VaultAbort, VaultOpen, NoVault
  <2>2. CASE VaultUnregister(t)
    BY <1>1, <1>2, <2>2 DEF VaultUnregister, VaultOpen, cache
  <2> QED BY <1>7, <2>1, <2>2
<1>8. ASSUME NEW t \in Tx, NEW p \in Prints, VaultNext(t, p) \/ SendPrint(t, p)
      PROVE  EngineInv'
  <2>1. UNCHANGED <<nuked, everSynced, seal, op>>
    BY <1>8 DEF VaultNext, SendPrint, cache
  <2>2. VaultOpen' => VaultOpen
    <3>1. \A u \in Tx : open'[u].phase = open[u].phase
      <4>1. CASE VaultNext(t, p)
        BY <1>1, <4>1 DEF VaultNext, Vault
      <4>2. CASE SendPrint(t, p)
        BY <1>1, <4>2 DEF SendPrint, Vault
      <4> QED BY <1>8, <4>1, <4>2
    <3> QED BY <3>1 DEF VaultOpen
  <2> QED BY <1>2, <2>1, <2>2
<1>9. ASSUME NEW t \in Tx, CommitVault(t) \/ MakeDelete(t) PROVE EngineInv'
  BY <1>3, <1>9 DEF CommitVault, MakeDelete, NoOp
<1>10. ASSUME NEW v \in Version, MakeVault(v) PROVE EngineInv'
  BY <1>3, <1>10 DEF MakeVault, NoOp
<1>11. CASE SyncRebuild \/ PurgeReconcile
  BY <1>3, <1>11 DEF SyncRebuild, StartOp, PurgeReconcile, NoOp
<1>12. CASE SyncTrusted
  BY <1>12, SyncedSeal DEF SyncTrusted, EngineInv, cache
<1>13. CASE StartPurge \/ PurgeTake \/ PurgeGiveUp \/ PurgeAsk \/ PurgeDelete
            \/ PurgeEnd
  BY <1>2, <1>13 DEF StartPurge, PurgeTake, PurgeGiveUp, PurgeAsk,
     PurgeDelete, PurgeEnd, cache, VaultOpen
<1>14. CASE PurgeFinish
  <2>1. UNCHANGED <<everSynced, open, op>> /\ (UNCHANGED <<nuked, seal>> \/ Nuke)
    BY <1>14 DEF PurgeFinish
  <2> QED BY <1>2, <1>3, <2>1 DEF EngineInv, VaultOpen
<1>15. CASE Fail
  <2>1. VaultOpen' => VaultOpen
    BY <1>1, <1>15 DEF Fail, VaultOpen, NoVault
  <2> QED BY <1>2, <1>15, <2>1 DEF Fail, NoOp
<1>16. CASE Crash \/ Shutdown
  <2>1. FreshEngine
    BY <1>16 DEF Crash, Shutdown
  <2>2. ~VaultOpen'
    BY <2>1 DEF FreshEngine, VaultOpen, NoVault
  <2>3. nuked' = TRUE /\ op' = NoOp
    BY <2>1 DEF FreshEngine
  <2> QED BY <2>2, <2>3 DEF EngineInv, NoOp
<1>17. CASE UNCHANGED vars
  BY <1>2, <1>17 DEF vars, cache, engine, VaultOpen
<1> QED
  BY <1>4, <1>5, <1>6, <1>7, <1>8, <1>9, <1>10, <1>11, <1>12, <1>13, <1>14,
     <1>15, <1>16, <1>17 DEF Next, OpStep, Sender, Purger

(* The steps that touch the log, a file or the rows of the cache.             *)
FileStep == \/ CleanWriteLog \/ CleanRemoveFile \/ CleanDump \/ CleanDropLog
            \/ CleanCommit \/ CreateTxBegin \/ PutEcl \/ CommitBeginFlags
            \/ CommitBeginLog \/ CommitVaulted \/ CommitDeleteFlags
            \/ CommitDeleteLog \/ SyncLoad \/ SyncRollback

files == <<txLog, flagFile, ecl, delLog, flag, vver, promised>>

(* Only a load fills in the cache.                                            *)
LEMMA LoadedStep ==
    ASSUME TypeOK, EngineInv, [Next]_vars, ~SyncLoad
    PROVE  Loaded' => Loaded
<1>1. open \in [Tx -> Vault] /\ op \in Job /\ seal \in [unsync: BOOLEAN, log: Log]
  BY DEF TypeOK, Types, CacheType, EngineType
<1>2. CASE op.kind = "none" /\ ~NeedsSync
  BY <1>2, SyncedSeal DEF Loaded
<1>3. CASE OpStep
  <2>1. op.kind # "none" /\ (op.pc = "load" => SyncLoad)
    BY <1>3 DEF OpStep, Clean, CleanChoose, CleanWriteLog, CleanRemoveFile,
       CleanDump, CleanDropLog, CleanCommit, CreateTxBegin, PutEcl,
       UnnukeSync, CreateVaultLog, CommitBeginFlags, CommitBeginLog,
       CommitVaulted, CommitIncrement, DeleteDecrement, CommitDeleteFlags,
       CommitDeleteLog, SyncReplay, SyncRollback, At
  <2> QED BY <2>1 DEF Loaded
<1>4. ASSUME NEW t \in Tx, Sender(t) \/ VaultAbort(t) PROVE Loaded' => Loaded
  <2>1. ASSUME NEW p \in Prints, VaultNext(t, p) PROVE Loaded' => Loaded
    BY <2>1 DEF VaultNext, VaultOpen, Loaded
  <2>2. CASE VaultUnregister(t) \/ CommitVault(t) \/ VaultAbort(t)
    BY <2>2 DEF VaultUnregister, CommitVault, VaultAbort, VaultOpen, Loaded
  <2>3. ASSUME NEW p \in Prints, SendPrint(t, p) PROVE Loaded' => Loaded
    <3>1. \A u \in Tx : open'[u].phase = open[u].phase
      BY <1>1, <2>3 DEF SendPrint, Vault
    <3>2. seal' = seal /\ op' = op
      BY <2>3 DEF SendPrint, cache
    <3> QED BY <3>1, <3>2 DEF Loaded, VaultOpen
  <2> QED BY <1>4, <2>1, <2>2, <2>3 DEF Sender
<1>5. ASSUME NEW t \in Tx, MakeDelete(t) PROVE Loaded' => Loaded
  BY <1>2, <1>5 DEF MakeDelete
<1>6. ASSUME NEW v \in Version, MakeVault(v) PROVE Loaded' => Loaded
  BY <1>2, <1>6 DEF MakeVault
<1>7. CASE StartPurge \/ Purger
  <2>1. CASE PurgeReconcile
    BY <1>2, <2>1 DEF PurgeReconcile
  <2>2. CASE PurgeFinish
    <3>1. op' = op /\ open' = open /\ (seal' = seal \/ seal'.unsync = TRUE)
      BY <1>1, <2>2 DEF PurgeFinish, Nuke
    <3> QED BY <3>1 DEF Loaded, VaultOpen
  <2>3. CASE ~PurgeFinish /\ ~PurgeReconcile
    <3>1. UNCHANGED <<op, open, seal>>
      BY <1>7, <2>3 DEF StartPurge, Purger, PurgeTake, PurgeGiveUp, PurgeAsk,
         PurgeDelete, PurgeEnd, cache
    <3> QED BY <3>1 DEF Loaded, VaultOpen
  <2> QED BY <2>1, <2>2, <2>3
<1>8. CASE SyncTrusted
  BY <1>8 DEF SyncTrusted, Loaded, VaultOpen, cache
<1>9. CASE SyncRebuild
  <2>1. seal'.unsync = TRUE /\ open' = open /\ op'.pc = "load"
    BY <1>1, <1>9 DEF SyncRebuild, StartOp, Nuke, NoOp
  <2> QED BY <2>1 DEF Loaded, VaultOpen
<1>10. CASE Fail
  <2>1. VaultOpen' => VaultOpen
    BY <1>1, <1>10 DEF Fail, VaultOpen, NoVault
  <2>2. seal' = seal /\ op' = NoOp
    BY <1>10 DEF Fail
  <2> QED BY <2>1, <2>2 DEF Loaded, NoOp
<1>11. CASE Crash \/ Shutdown
  <2>1. FreshEngine
    BY <1>11 DEF Crash, Shutdown
  <2>2. ~VaultOpen' /\ op' = NoOp
    BY <2>1 DEF FreshEngine, VaultOpen, NoVault
  <2>3. CASE Crash
    <3>1. seal' = seal
      BY <2>3 DEF Crash
    <3> QED BY <2>2, <3>1 DEF Loaded, NoOp
  <2>4. CASE Shutdown
    BY <2>4 DEF Shutdown, EngineInv, Loaded
  <2> QED BY <1>11, <2>3, <2>4
<1>12. CASE UNCHANGED vars
  BY <1>12 DEF vars, cache, engine, Loaded, VaultOpen
<1> QED
  BY <1>3, <1>4, <1>5, <1>6, <1>7, <1>8, <1>9, <1>10, <1>11, <1>12 DEF Next

(* All other steps leave files and rows alone.                                *)
LEMMA QuietStep ==
    ASSUME TypeOK, EngineInv, [Next]_vars, ~FileStep
    PROVE  /\ UNCHANGED files
           /\ largest' = largest \/ (largest' = 0 /\ op' = NoOp /\ ~VaultOpen')
           /\ Loaded' => Loaded
<1>1. open \in [Tx -> Vault] /\ op \in Job /\ seal \in [unsync: BOOLEAN, log: Log]
  BY DEF TypeOK, Types, CacheType, EngineType
<1>2. ASSUME NEW t \in Tx, Sender(t) \/ VaultAbort(t) \/ MakeDelete(t)
      PROVE  UNCHANGED files /\ largest' = largest
  <2>1. ASSUME NEW p \in Prints, VaultNext(t, p) \/ SendPrint(t, p)
        PROVE  UNCHANGED files /\ largest' = largest
    BY <2>1 DEF VaultNext, SendPrint, files, share, cache
  <2>2. CASE VaultUnregister(t) \/ CommitVault(t) \/ VaultAbort(t) \/ MakeDelete(t)
    BY <2>2 DEF VaultUnregister, CommitVault, VaultAbort, MakeDelete, files,
       share, cache
  <2> QED BY <1>2, <2>1, <2>2 DEF Sender
<1>3. ASSUME NEW v \in Version, MakeVault(v)
      PROVE  UNCHANGED files /\ largest' = largest
  BY <1>3 DEF MakeVault, files, share, cache
<1>4. OpStep => UNCHANGED files /\ largest' = largest
  BY DEF OpStep, Clean, CleanChoose, UnnukeSync, CreateVaultLog,
     CommitIncrement, DeleteDecrement, SyncReplay, FileStep, files, share, cache
<1>5. StartPurge \/ Purger => UNCHANGED files /\ largest' = largest
  BY DEF StartPurge, Purger, PurgeTake, PurgeGiveUp, PurgeAsk, PurgeDelete,
     PurgeFinish, PurgeEnd, PurgeReconcile, files, share, cache
<1>6. SyncTrusted \/ SyncRebuild \/ Fail => UNCHANGED files /\ largest' = largest
  BY DEF SyncTrusted, SyncRebuild, Fail, files, share, cache
<1>7. Crash \/ Shutdown =>
         UNCHANGED files /\ largest' = 0 /\ op' = NoOp /\ ~VaultOpen'
  <2>1. FreshEngine => ~VaultOpen'
    BY DEF FreshEngine, VaultOpen, NoVault
  <2> QED BY <2>1 DEF Crash, Shutdown, FreshEngine, files, share, cache
<1>8. UNCHANGED vars => UNCHANGED files /\ largest' = largest
  BY DEF vars, share, cache, engine, files
<1>9. /\ UNCHANGED files
      /\ largest' = largest \/ (largest' = 0 /\ op' = NoOp /\ ~VaultOpen')
  BY <1>2, <1>3, <1>4, <1>5, <1>6, <1>7, <1>8 DEF Next
<1>10. Loaded' => Loaded
  BY LoadedStep DEF FileStep
<1> QED BY <1>9, <1>10

(* The types that the proofs below use most.                                  *)
LEMMA Shapes0 ==
    ASSUME TypeOK
    PROVE  /\ flag \in [Tx -> Row] /\ txLog \in Log /\ op \in Job
           /\ flagFile \in [Tx -> Tx \cup {0, NoFile}]
           /\ ecl \in [Tx -> Version \cup {NoVersion}]
           /\ vver \in [Tx -> Version \cup {NoVersion}]
           /\ largest \in Tx \cup {0} /\ delLog \in SUBSET Tx
           /\ Tx \subseteq Int /\ 0 \notin Tx /\ NoFile \notin Tx /\ NoFile # 0
  BY TxInt DEF TypeOK, Types, ShareType, CacheType, EngineType, NoFile

(* A step that leaves files and rows alone keeps what is known of them.       *)
LEMMA QuietKnown ==
    ASSUME TypeOK, EngineInv, FilesKnown, RowsKnown, [Next]_vars, ~FileStep
    PROVE  FilesKnown' /\ RowsKnown'
<1>1. /\ UNCHANGED <<txLog, flagFile, ecl, flag>>
      /\ largest' = largest \/ largest' = 0
  BY QuietStep DEF files
<1>2. Loaded' => Loaded
  BY QuietStep
<1> QED BY <1>1, <1>2 DEF FilesKnown, RowsKnown, NoFiles

(* reconCleanup writes the delete log.                                        *)
LEMMA WriteKnown ==
    ASSUME TypeOK, FilesKnown, RowsKnown, CleanKnown, JobKnown, CleanWriteLog
    PROVE  FilesKnown' /\ RowsKnown' /\ CleanKnown' /\ JobKnown'
<1>1. /\ op \in Job /\ op.kind # "none" /\ op.pc = "write"
      /\ UNCHANGED <<txLog, flagFile, ecl, flag, largest>>
  BY Shapes0 DEF CleanWriteLog, At, cache
<1>2. /\ op.at = 0 /\ \A t \in op.marked : flag[t].del # 0
      /\ op.marked \cap op.doomed = {}
  BY <1>1 DEF JobKnown, CleanKnown, CleanPc
<1>3. /\ op'.pc = IF op.doomed = {} THEN "commit" ELSE "rm"
      /\ op'.doomed = op.doomed /\ op'.marked = op.marked /\ op'.at = op.at
      /\ op.doomed # {} => op'.todo = op.doomed
      /\ op'.kind = op.kind
  BY <1>1, GotoDoes, WriteDoes DEF CleanWriteLog
<1>4. CleanKnown'
  BY <1>1, <1>2, <1>3 DEF CleanKnown, CleanPc, NoFiles
<1>5. JobKnown'
  BY <1>1, <1>2, <1>3 DEF JobKnown, CleanPc, Began, Flagged
<1>6. Loaded
  BY <1>1 DEF Loaded
<1> QED BY <1>1, <1>4, <1>5, <1>6 DEF FilesKnown, RowsKnown, NoFiles

(* reconCleanup removes a file.                                               *)
LEMMA RemoveKnown ==
    ASSUME TypeOK, FilesKnown, RowsKnown, CleanKnown, JobKnown, CleanRemoveFile
    PROVE  FilesKnown' /\ RowsKnown' /\ CleanKnown' /\ JobKnown'
<1>1. /\ op \in Job /\ op.kind # "none" /\ op.pc \in {"oldRm", "rm"}
      /\ UNCHANGED <<txLog, flag, largest>>
  BY Shapes0 DEF CleanRemoveFile, At, cache
<1>2. /\ \A t \in op.marked : flag[t].del # 0
      /\ op.marked \cap op.doomed = {}
      /\ op.at # 0 => op.at \in op.todo /\ ecl[op.at] = NoVersion
      /\ op.pc = "rm" => \A t \in op.doomed \ op.todo : NoFiles(t)
  BY <1>1 DEF CleanKnown, CleanPc
<1>3. /\ (op.at # 0 => op'.at = 0) /\ (op.at = 0 => op'.at \in op.todo)
      /\ op'.todo = IF op.at = 0 THEN op.todo ELSE op.todo \ {op.at}
      /\ op'.pc = op.pc /\ op'.kind = op.kind
      /\ op'.marked = op.marked /\ op'.doomed = op.doomed
  BY <1>1, RemoveDoes
<1>4. /\ op.doomed \subseteq Tx /\ op.todo \subseteq Tx /\ 0 \notin Tx
      /\ ecl \in [Tx -> Version \cup {NoVersion}]
      /\ flagFile \in [Tx -> Tx \cup {0, NoFile}]
  BY Shapes0 DEF Job
<1>5. /\ \A t \in Tx : ecl'[t] = ecl[t] \/ ecl'[t] = NoVersion
      /\ \A t \in Tx : flagFile'[t] = flagFile[t] \/ NoFiles(t)'
      /\ op'.at # 0 => ecl'[op'.at] = NoVersion
      /\ op.at # 0 => flagFile'[op.at] = NoFile /\ ecl'[op.at] = NoVersion
  <2>1. CASE op.at = 0
    <3>1. /\ ecl' = [ecl EXCEPT ![op'.at] = NoVersion] /\ flagFile' = flagFile
      BY <1>1, <2>1 DEF CleanRemoveFile, Job
    <3> QED BY <1>3, <1>4, <2>1, <3>1
  <2>2. CASE op.at # 0
    <3>1. ecl' = ecl /\ flagFile' = [flagFile EXCEPT ![op.at] = NoFile]
      BY <2>2 DEF CleanRemoveFile
    <3> QED BY <1>2, <1>3, <1>4, <2>2, <3>1 DEF NoFiles
  <2> QED BY <2>1, <2>2
<1>6. \A t \in Tx : NoFiles(t) => NoFiles(t)'
  BY <1>5 DEF NoFiles
<1>7. CleanKnown'
  <2>1. op.pc = "rm" => \A t \in op'.doomed \ op'.todo : NoFiles(t)'
    BY <1>2, <1>3, <1>4, <1>5, <1>6 DEF NoFiles
  <2> QED BY <1>1, <1>2, <1>3, <1>5, <2>1 DEF CleanKnown, CleanPc
<1>8. JobKnown'
  BY <1>1, <1>3 DEF JobKnown, CleanPc, Began, Flagged
<1>9. Loaded
  BY <1>1 DEF Loaded
<1> QED
  BY <1>1, <1>5, <1>6, <1>7, <1>8, <1>9 DEF FilesKnown, RowsKnown, NoFiles

(* A log that is the dump of rows which have changed only as files and log    *)
(* allow is again one of which all files are known.                           *)
LEMMA DumpKnown ==
    ASSUME TypeOK, FilesKnown, RowsKnown, Loaded, NEW f \in [Tx -> Row],
           txLog' = Dump(f), largest' = largest,
           UNCHANGED <<flagFile, ecl>>,
           \A t \in Tx : \/ f[t] = flag[t]
                         \/ f[t] = NoRow /\ NoFiles(t)
                         \/ /\ f[t].state \notin {"none", "Begin"}
                            /\ flag[t] \notin {NoRow, B0}
    PROVE  /\ FilesKnown'
           /\ flag' \in {flag, f} => RowsKnown'
<1>1. \A t \in Tx : txLog'[t] = f[t].state
  BY DEF Dump
<1>2. /\ flag \in [Tx -> Row] /\ Tx \subseteq Int
  BY Shapes0
<1>3. FilesKnown'
  BY <1>1, <1>2 DEF FilesKnown, RowsKnown, NoFiles, NoRow, B0, Row
<1>4. ASSUME NEW t \in Tx, NEW r \in Row, r \in {flag[t], f[t]}
      PROVE  /\ r.state = "none" => NoFiles(t)
             /\ flagFile[t] = NoFile /\ ecl[t] # NoVersion => r = B0
             /\ txLog'[t] = "Begin" => r # NoRow
             /\ largest # 0 /\ t > largest => r = NoRow
  <2>1. /\ flag[t].state = "none" => NoFiles(t)
        /\ flagFile[t] = NoFile /\ ecl[t] # NoVersion => flag[t] = B0
        /\ largest # 0 /\ t > largest => flag[t] = NoRow
    BY DEF RowsKnown
  <2>2. CASE f[t] = flag[t]
    BY <1>1, <1>4, <2>1, <2>2 DEF NoRow
  <2>3. CASE f[t] = NoRow /\ NoFiles(t)
    BY <1>1, <1>4, <2>1, <2>3 DEF NoRow, NoFiles
  <2>4. CASE f[t].state \notin {"none", "Begin"} /\ flag[t] \notin {NoRow, B0}
    BY <1>1, <1>4, <2>1, <2>4 DEF NoRow
  <2> QED BY <2>2, <2>3, <2>4
<1>5. \A t \in Tx : f[t] \in Row /\ flag[t] \in Row
  BY <1>2
<1>6. flag' \in {flag, f} => RowsKnown'
  BY <1>4, <1>5 DEF RowsKnown, NoFiles
<1> QED BY <1>3, <1>6

(* FLAG as the open transaction of a cleanup sees it differs from the table   *)
(* only by doomed rows without files and by reconciled deletes.               *)
LEMMA PendingKnown ==
    ASSUME TypeOK, CleanKnown, op.kind # "none",
           op.pc \in {"drop", "commit"} \/ (op.pc = "rm" /\ op.todo = {})
    PROVE  /\ Pending \in [Tx -> Row]
           /\ \A t \in Tx : \/ Pending[t] = flag[t]
                            \/ Pending[t] = NoRow /\ NoFiles(t)
                            \/ /\ Pending[t].state \notin {"none", "Begin"}
                               /\ flag[t] \notin {NoRow, B0}
           /\ \A t \in op.doomed : Pending[t] = NoRow
<1>1. Pending \in [Tx -> Row]
  BY PendingType
<1>2. /\ \A t \in op.marked : flag[t].del # 0
      /\ \A t \in op.doomed : NoFiles(t)
      /\ op.marked \subseteq Tx /\ op.doomed \subseteq Tx /\ flag \in [Tx -> Row]
  BY Shapes0 DEF CleanKnown, CleanPc, Job
<1>3. \A t \in op.doomed : Pending[t] = NoRow
  BY <1>2 DEF Pending
<1>4. ASSUME NEW t \in op.marked \ op.doomed
      PROVE  /\ Pending[t].state \notin {"none", "Begin"}
             /\ flag[t] \notin {NoRow, B0}
  <2>1. Pending[t] = [flag[t] EXCEPT !.state = "Reconned"]
    BY <1>2 DEF Pending
  <2>2. flag[t] \in Row
    BY <1>2
  <2>3. Pending[t].state = "Reconned"
    BY <2>1, <2>2 DEF Row
  <2> QED BY <1>2, <2>3 DEF NoRow, B0
<1>5. \A t \in Tx \ (op.marked \cup op.doomed) : Pending[t] = flag[t]
  BY DEF Pending
<1> QED BY <1>1, <1>2, <1>3, <1>4, <1>5

(* reconCleanup rewrites the log without the doomed.                          *)
LEMMA CleanDumpKnown ==
    ASSUME TypeOK, FilesKnown, RowsKnown, CleanKnown, JobKnown, CleanDump
    PROVE  FilesKnown' /\ RowsKnown' /\ CleanKnown' /\ JobKnown'
<1>1. /\ op \in Job /\ op.kind # "none" /\ op.pc \in {"oldRm", "rm"}
      /\ op.at = 0 /\ op.todo = {}
      /\ UNCHANGED <<flagFile, ecl, flag, largest>>
  BY Shapes0 DEF CleanDump, At, cache
<1>2. /\ op'.pc = IF op.pc = "rm" THEN "drop" ELSE "oldDrop"
      /\ op'.kind = op.kind /\ op'.at = op.at
      /\ op'.marked = op.marked /\ op'.doomed = op.doomed
  BY <1>1, GotoDoes DEF CleanDump
<1>3. op.marked \cap op.doomed = {} /\ \A t \in op.marked : flag[t].del # 0
  BY <1>1 DEF CleanKnown, CleanPc
<1>4. Loaded
  BY <1>1 DEF Loaded
<1>5. JobKnown'
  BY <1>1, <1>2 DEF JobKnown, CleanPc, Began, Flagged
<1>6. CASE op.pc = "rm"
  <2>1. txLog' = Dump(Pending)
    BY <1>6 DEF CleanDump
  <2>2. FilesKnown' /\ RowsKnown'
    BY <1>1, <1>4, <1>6, <2>1, PendingKnown, DumpKnown
  <2>3. \A t \in op.doomed : NoFiles(t)' /\ txLog'[t] = "none"
    <3>1. \A t \in op.doomed : t \in Tx /\ Pending[t] = NoRow /\ NoFiles(t)
      BY <1>1, <1>6, PendingKnown DEF CleanKnown, CleanPc, Job
    <3> QED BY <1>1, <2>1, <3>1 DEF Dump, NoRow, NoFiles
  <2>4. CleanKnown'
    BY <1>1, <1>2, <1>3, <1>6, <2>3 DEF CleanKnown, CleanPc
  <2> QED BY <1>5, <2>2, <2>4
<1>7. CASE op.pc = "oldRm"
  <2> DEFINE F == [t \in Tx |-> IF t \in op.marked THEN Pending[t] ELSE flag[t]]
  <2>1. txLog' = Dump(F)
    BY <1>1, <1>7 DEF CleanDump
  <2>2. F \in [Tx -> Row]
    BY Shapes0, PendingType
  <2>3. \A t \in Tx : \/ F[t] = flag[t]
                      \/ F[t] = NoRow /\ NoFiles(t)
                      \/ /\ F[t].state \notin {"none", "Begin"}
                         /\ flag[t] \notin {NoRow, B0}
    <3>1. ASSUME NEW t \in op.marked
          PROVE  F[t].state = "Reconned" /\ flag[t] \notin {NoRow, B0}
      <4>1. t \in Tx /\ flag[t] \in Row /\ t \notin op.doomed
        BY <1>1, <1>3, Shapes0 DEF Job
      <4>2. F[t] = [flag[t] EXCEPT !.state = "Reconned"]
        BY <4>1 DEF Pending
      <4>3. F[t].state = "Reconned"
        BY <4>1, <4>2 DEF Row
      <4> QED BY <1>3, <4>3 DEF NoRow, B0
    <3> QED BY <3>1
  <2> HIDE DEF F
  <2>4. FilesKnown' /\ RowsKnown'
    BY <1>1, <1>4, <2>1, <2>2, <2>3, DumpKnown
  <2>5. CleanKnown'
    BY <1>1, <1>2, <1>3, <1>7 DEF CleanKnown, CleanPc
  <2> QED BY <1>5, <2>4, <2>5
<1> QED BY <1>1, <1>6, <1>7

(* reconCleanup drops the delete log.                                         *)
LEMMA DropKnown ==
    ASSUME TypeOK, FilesKnown, RowsKnown, CleanKnown, JobKnown, CleanDropLog
    PROVE  FilesKnown' /\ RowsKnown' /\ CleanKnown' /\ JobKnown'
<1>1. /\ op \in Job /\ op.kind # "none" /\ op.pc \in {"oldDrop", "drop"}
      /\ UNCHANGED <<txLog, flagFile, ecl, flag, largest>>
  BY Shapes0 DEF CleanDropLog, At, cache
<1>2. /\ op'.pc = IF op.pc = "oldDrop" THEN "write" ELSE "commit"
      /\ op'.kind = op.kind /\ op'.at = op.at
      /\ op'.marked = op.marked /\ op'.doomed = op.doomed
  BY <1>1, GotoDoes DEF CleanDropLog
<1>3. CleanKnown' /\ JobKnown'
  BY <1>1, <1>2 DEF CleanKnown, JobKnown, CleanPc, Began, Flagged, NoFiles
<1>4. Loaded
  BY <1>1 DEF Loaded
<1> QED BY <1>1, <1>3, <1>4 DEF FilesKnown, RowsKnown, NoFiles

(* reconCleanup commits its rows.                                             *)
LEMMA CommitKnown ==
    ASSUME TypeOK, FilesKnown, RowsKnown, CleanKnown, JobKnown, CleanCommit
    PROVE  FilesKnown' /\ RowsKnown' /\ CleanKnown' /\ JobKnown'
<1>1. /\ op \in Job /\ op.kind # "none" /\ op.pc = "commit"
      /\ UNCHANGED <<flagFile, ecl, largest>> /\ flag' = Pending
      /\ txLog' \in {txLog, Dump(Pending)}
  BY Shapes0 DEF CleanCommit, At
<1>2. op'.pc \in {"idle", "begin", "clean", "replay", "seal"}
      /\ op'.at = op.at /\ op'.marked = {}
  BY <1>1, CommitDoes DEF TypeOK, OpSound
<1>3. CleanKnown' /\ JobKnown'
  BY <1>1, <1>2 DEF CleanKnown, JobKnown, CleanPc, Began, Flagged
<1>4. Loaded
  BY <1>1 DEF Loaded
<1>5. CASE txLog' = Dump(Pending)
  BY <1>1, <1>3, <1>4, <1>5, PendingKnown, DumpKnown
<1>6. CASE txLog' = txLog
  <2>1. FilesKnown'
    BY <1>1, <1>6 DEF FilesKnown, NoFiles
  <2>2. ASSUME NEW t \in Tx
        PROVE  /\ flag'[t].state = "none" => NoFiles(t)
               /\ flagFile[t] = NoFile /\ ecl[t] # NoVersion => flag'[t] = B0
               /\ txLog[t] = "Begin" => flag'[t] # NoRow
               /\ largest # 0 /\ t > largest => flag'[t] = NoRow
    <3>1. /\ flag[t].state = "none" => NoFiles(t)
          /\ flagFile[t] = NoFile /\ ecl[t] # NoVersion => flag[t] = B0
          /\ txLog[t] = "Begin" => flag[t] # NoRow
          /\ largest # 0 /\ t > largest => flag[t] = NoRow
      BY <1>4 DEF RowsKnown
    <3>2. t \in op.doomed => NoFiles(t) /\ txLog[t] = "none"
      BY <1>1 DEF CleanKnown, CleanPc
    <3>3. t \notin op.doomed /\ flag'[t] # flag[t] =>
             flag'[t].state \notin {"none", "Begin"} /\ flag[t] \notin {NoRow, B0}
      <4>1. t \notin op.doomed /\ flag'[t] # flag[t] => t \in op.marked
        BY <1>1 DEF Pending
      <4>2. t \notin op.doomed /\ t \in op.marked => Pending[t].state = "Reconned"
        BY Shapes0 DEF Pending, Row
      <4>3. t \in op.marked => flag[t].del # 0
        BY <1>1 DEF CleanKnown, CleanPc
      <4> QED BY <1>1, <4>1, <4>2, <4>3 DEF NoRow, B0
    <3>4. t \in op.doomed => flag'[t] = NoRow
      BY <1>1 DEF Pending
    <3> QED BY <3>1, <3>2, <3>3, <3>4 DEF NoFiles, NoRow
  <2>3. RowsKnown'
    BY <1>1, <1>6, <2>2 DEF RowsKnown, NoFiles
  <2> QED BY <1>3, <2>1, <2>3
<1> QED BY <1>1, <1>5, <1>6

(* A new transaction gets a number whose rows and files are gone.             *)
LEMMA FreshTx ==
    ASSUME TypeOK, RowsKnown, Loaded, NEW t \in Tx, t >= NextTx
    PROVE  flag[t] = NoRow /\ NoFiles(t) /\ (largest # 0 => t > largest)
<1>1. /\ flag[t].state = "none" => NoFiles(t)
      /\ largest # 0 /\ t > largest => flag[t] = NoRow
  BY DEF RowsKnown
<1>2. CASE largest # 0
  <2>1. largest \in Int /\ t \in Int /\ NextTx = largest + 1
    BY <1>2, Shapes0 DEF NextTx
  <2> QED BY <1>1, <1>2, <2>1 DEF NoRow
<1>3. CASE largest = 0
  <2> DEFINE U == {u \in Tx : flag[u] # NoRow} \cup {0}
  <2>1. U \in SUBSET (0 .. MaxTx) /\ U # {} /\ MaxTx \in Nat
    BY DataStoreAssumption DEF Tx
  <2>2. PICK m \in 0 .. MaxTx : m = Max(U) /\ \A y \in U : y <= m
    BY <2>1, MaxOf
  <2>3. NextTx = m + 1
    BY <1>3, <2>2 DEF NextTx
  <2> HIDE DEF U
  <2>4. t \in Int /\ m \in Int /\ t >= m + 1
    BY <2>1, <2>2, <2>3, Shapes0
  <2>5. t \notin U
    BY <2>2, <2>4
  <2>6. flag[t] = NoRow
    BY <2>5 DEF U
  <2> QED BY <1>1, <1>3, <2>6 DEF NoRow
<1> QED BY <1>2, <1>3

(* createTxBegin takes such a number.                                         *)
LEMMA CreateKnown ==
    ASSUME TypeOK, FilesKnown, RowsKnown, CleanKnown, JobKnown, CreateTxBegin
    PROVE  FilesKnown' /\ RowsKnown' /\ CleanKnown' /\ JobKnown'
<1>1. PICK N \in Tx : N = NextTx
  BY DEF CreateTxBegin
<1>2. /\ op \in Job /\ op.kind # "none" /\ op.pc = "begin"
      /\ UNCHANGED <<flagFile, ecl>> /\ largest' = N
      /\ flag' = [flag EXCEPT ![N] = B0] /\ txLog' = Dump(flag')
  BY <1>1, Shapes0 DEF CreateTxBegin, At, B0
<1>3. /\ op'.tx = N /\ op'.pc \in {"delta", "decr"}
      /\ op'.at = op.at /\ op'.marked = op.marked
  BY <1>1, <1>2, CreateDoes
<1>4. Loaded
  BY <1>2 DEF Loaded
<1>5. \A t \in Tx : t >= N => flag[t] = NoRow /\ NoFiles(t) /\ (largest # 0 => t > largest)
  BY <1>1, <1>4, FreshTx
<1>6. /\ flag \in [Tx -> Row] /\ Tx \subseteq Int /\ 0 \notin Tx
  BY Shapes0
<1>7. \A t \in Tx : flag'[t] = IF t = N THEN B0 ELSE flag[t]
  BY <1>2, <1>6
<1>8. \A t \in Tx : txLog'[t] = flag'[t].state
  BY <1>2 DEF Dump
<1>9. ASSUME NEW t \in Tx
      PROVE  /\ txLog'[t] = "none" => NoFiles(t)
             /\ flagFile[t] = NoFile /\ ecl[t] # NoVersion =>
                   flag'[t] = B0 /\ txLog'[t] = "Begin"
             /\ flag'[t].state = "none" => NoFiles(t)
             /\ txLog'[t] = "Begin" => flag'[t] # NoRow
             /\ t > N => NoFiles(t) /\ flag'[t] = NoRow /\ txLog'[t] # "Begin"
  <2>1. /\ flag[t].state = "none" => NoFiles(t)
        /\ flagFile[t] = NoFile /\ ecl[t] # NoVersion => flag[t] = B0
    BY <1>4 DEF RowsKnown
  <2>2. CASE t = N
    BY <1>6, <1>7, <1>8, <2>2 DEF B0, NoRow
  <2>3. CASE t # N
    <3>1. flag'[t] = flag[t] /\ txLog'[t] = flag[t].state
      BY <1>7, <1>8, <2>3
    <3>2. t > N => flag[t] = NoRow /\ NoFiles(t)
      BY <1>2, <1>5, <1>6
    <3> QED BY <2>1, <3>1, <3>2 DEF B0, NoRow
  <2> QED BY <2>2, <2>3
<1>10. FilesKnown' /\ RowsKnown'
  BY <1>2, <1>9 DEF FilesKnown, RowsKnown, NoFiles
<1>11. CleanKnown'
  BY <1>3 DEF CleanKnown, CleanPc
<1>12. JobKnown'
  <2>1. op.marked = {} /\ op.at = 0
    BY <1>2 DEF JobKnown, CleanPc
  <2>2. flag'[N] = B0 /\ txLog'[N] = "Begin"
    BY <1>7, <1>8 DEF B0
  <2> QED BY <1>2, <1>3, <2>1, <2>2 DEF JobKnown, CleanPc, Began, Flagged
<1> QED BY <1>10, <1>11, <1>12

(* putEcl writes an ECL only for a transaction that has its number.           *)
LEMMA PutKnown ==
    ASSUME TypeOK, FilesKnown, RowsKnown, CleanKnown, JobKnown, PutEcl
    PROVE  FilesKnown' /\ RowsKnown' /\ CleanKnown' /\ JobKnown'
<1>1. /\ op \in Job /\ op.kind # "none" /\ op.pc = "putEcl"
      /\ UNCHANGED <<txLog, flagFile, flag, largest>>
      /\ ecl' = [ecl EXCEPT ![op.tx] = op.ver]
  BY Shapes0 DEF PutEcl, At, cache
<1>2. /\ op'.pc = IF op.kind = "vault" THEN "seal" ELSE "delFlags"
      /\ op'.kind = op.kind /\ op'.at = op.at /\ op'.tx = op.tx
      /\ op'.marked = op.marked
  BY <1>1, GotoDoes DEF PutEcl
<1>3. /\ op.tx \in Tx /\ op.marked = {} /\ op.at = 0
      /\ \/ flagFile[op.tx] # NoFile
         \/ op.kind # "vault" /\ flag[op.tx] = B0 /\ txLog[op.tx] = "Begin"
      /\ op.kind # "vault" => flag[op.tx] = B0 /\ txLog[op.tx] = "Begin"
  BY <1>1 DEF JobKnown, Began, Flagged, CleanPc
<1>4. /\ ecl \in [Tx -> Version \cup {NoVersion}] /\ Loaded
  BY <1>1, Shapes0 DEF Loaded
<1>5. \A t \in Tx : t # op.tx => ecl'[t] = ecl[t]
  BY <1>1, <1>4
<1>6. CleanKnown' /\ JobKnown'
  BY <1>1, <1>2, <1>3 DEF CleanKnown, JobKnown, CleanPc, Began, Flagged
<1>7. ASSUME NEW t \in Tx
      PROVE  /\ txLog[t] = "none" => NoFiles(t)'
             /\ flagFile[t] = NoFile /\ ecl'[t] # NoVersion =>
                   txLog[t] = "Begin" /\ flag[t] = B0
             /\ largest # 0 /\ t > largest => NoFiles(t)'
             /\ flag[t].state = "none" => NoFiles(t)'
  <2>1. /\ txLog[t] = "none" => NoFiles(t)
        /\ flagFile[t] = NoFile /\ ecl[t] # NoVersion =>
              txLog[t] = "Begin" /\ flag[t] = B0
        /\ largest # 0 /\ t > largest => NoFiles(t) /\ txLog[t] # "Begin"
        /\ flag[t].state = "none" => NoFiles(t)
    BY <1>4 DEF FilesKnown, RowsKnown
  <2>2. CASE t = op.tx
    BY <1>1, <1>3, <2>1, <2>2 DEF NoFiles, B0
  <2>3. CASE t # op.tx
    BY <1>1, <1>5, <2>1, <2>3 DEF NoFiles
  <2> QED BY <2>2, <2>3
<1> QED BY <1>1, <1>4, <1>6, <1>7 DEF FilesKnown, RowsKnown, NoFiles

(* The flags of a transaction are written while it has no files.              *)
LEMMA FlagsKnown ==
    ASSUME TypeOK, FilesKnown, RowsKnown, CleanKnown, JobKnown,
           CommitBeginFlags \/ CommitDeleteFlags
    PROVE  FilesKnown' /\ RowsKnown' /\ CleanKnown' /\ JobKnown'
<1>1. /\ op \in Job /\ op.kind # "none" /\ op.pc \in {"beginFlags", "delFlags"}
      /\ UNCHANGED <<txLog, ecl, flag, largest>>
      /\ flagFile' \in {flagFile, [flagFile EXCEPT ![op.tx] = 0],
                        [flagFile EXCEPT ![op.tx] = op.target]}
  BY Shapes0 DEF CommitBeginFlags, CommitDeleteFlags, At, cache
<1>2. /\ op.tx \in Tx /\ op.marked = {} /\ op.at = 0
      /\ flag[op.tx] = B0 /\ txLog[op.tx] = "Begin"
      /\ op.pc = "beginFlags" => op.kind = "vault"
      /\ 0 # NoFile /\ op.target # NoFile /\ Loaded
      /\ flagFile \in [Tx -> Tx \cup {0, NoFile}]
  BY <1>1, Shapes0 DEF JobKnown, Began, CleanPc, Loaded, Job
<1>3. /\ \A t \in Tx \ {op.tx} : flagFile'[t] = flagFile[t]
      /\ flagFile'[op.tx] \in {flagFile[op.tx], 0, op.target}
  BY <1>1, <1>2
<1>4. FilesKnown'
  <2>1. ASSUME NEW t \in Tx
        PROVE  /\ txLog[t] = "none" => NoFiles(t)'
               /\ flagFile'[t] = NoFile /\ ecl[t] # NoVersion => txLog[t] = "Begin"
               /\ largest # 0 /\ t > largest => NoFiles(t)' /\ txLog[t] # "Begin"
    <3>1. /\ txLog[t] = "none" => NoFiles(t)
          /\ flagFile[t] = NoFile /\ ecl[t] # NoVersion => txLog[t] = "Begin"
          /\ largest # 0 /\ t > largest => NoFiles(t) /\ txLog[t] # "Begin"
      BY DEF FilesKnown
    <3> QED BY <1>1, <1>2, <1>3, <3>1 DEF NoFiles
  <2> QED BY <1>1, <2>1 DEF FilesKnown
<1>5. RowsKnown'
  <2>1. ASSUME NEW t \in Tx
        PROVE  /\ flag[t].state = "none" => NoFiles(t)'
               /\ flagFile'[t] = NoFile /\ ecl[t] # NoVersion => flag[t] = B0
    <3>1. /\ flag[t].state = "none" => NoFiles(t)
          /\ flagFile[t] = NoFile /\ ecl[t] # NoVersion => flag[t] = B0
      BY <1>2 DEF RowsKnown
    <3> QED BY <1>1, <1>2, <1>3, <3>1 DEF NoFiles, B0
  <2> QED BY <1>1, <1>2, <2>1 DEF RowsKnown
<1>6. CleanKnown' /\ JobKnown'
  <2>1. CASE CommitBeginFlags
    <3>1. op'.pc = "beginLog" /\ op'.kind = op.kind /\ op'.at = op.at
          /\ op'.marked = op.marked /\ op'.tx = op.tx
          /\ flagFile' = [flagFile EXCEPT ![op.tx] = 0] /\ op.pc = "beginFlags"
      BY <1>1, <2>1, GotoDoes DEF CommitBeginFlags, At
    <3> QED
      BY <1>1, <1>2, <3>1 DEF CleanKnown, JobKnown, CleanPc, Began, Flagged
  <2>2. CASE CommitDeleteFlags /\ op' = NoOp
    BY <2>2 DEF NoOp, CleanKnown, JobKnown, CleanPc, Began, Flagged
  <2>3. CASE CommitDeleteFlags /\ op' # NoOp
    <3>1. op'.pc = "delLog" /\ op'.kind = op.kind /\ op'.at = op.at
          /\ op'.marked = op.marked /\ op'.tx = op.tx
          /\ flagFile' = [flagFile EXCEPT ![op.tx] = op.target]
      BY <1>1, <2>3, GotoDoes DEF CommitDeleteFlags
    <3> QED
      BY <1>1, <1>2, <3>1 DEF CleanKnown, JobKnown, CleanPc, Began, Flagged
  <2> QED BY <2>1, <2>2, <2>3
<1> QED BY <1>4, <1>5, <1>6

(* A row that is neither missing nor just begun changes with the log.         *)
LEMMA LogKnown ==
    ASSUME TypeOK, FilesKnown, RowsKnown, CleanKnown, JobKnown,
           CommitBeginLog \/ CommitDeleteLog \/ CommitVaulted
    PROVE  FilesKnown' /\ RowsKnown' /\ CleanKnown' /\ JobKnown'
<1>1. /\ op \in Job /\ op.kind # "none"
      /\ op.pc \in {"beginLog", "delLog", "vaulted"}
      /\ UNCHANGED <<flagFile, ecl, largest>>
  BY Shapes0 DEF CommitBeginLog, CommitDeleteLog, CommitVaulted, At
<1>2. op.marked = {} /\ op.at = 0 /\ Loaded
  BY <1>1 DEF JobKnown, CleanPc, Loaded
<1>3. /\ op'.pc \in {"putEcl", "seal", "incr", "idle"} /\ op'.at = 0
      /\ op'.marked = {}
      /\ op'.pc = "putEcl" => /\ op'.kind = "vault" /\ op'.tx = op.tx
                              /\ op.tx \in Tx /\ flagFile[op.tx] # NoFile
  <2>1. CASE CommitBeginLog
    <3>1. op.pc = "beginLog"
      BY <2>1 DEF CommitBeginLog, At
    <3> QED BY <1>1, <1>2, <2>1, <3>1, GotoDoes DEF CommitBeginLog, JobKnown, Flagged
  <2>2. CASE CommitDeleteLog
    BY <1>1, <1>2, <2>2, GotoDoes DEF CommitDeleteLog
  <2>3. CASE CommitVaulted
    BY <1>1, <1>2, <2>3, GotoDoes DEF CommitVaulted, NoOp
  <2> QED BY <2>1, <2>2, <2>3
<1>4. CleanKnown' /\ JobKnown'
  BY <1>1, <1>3 DEF CleanKnown, JobKnown, CleanPc, Began, Flagged
<1>5. /\ flag \in [Tx -> Row] /\ op.tx \in Tx \cup {0} /\ op.target \in Tx \cup {0}
      /\ \A r \in Row : r.state \in TxState \cup {"none"}
  BY <1>1, Shapes0 DEF Job, Row
<1>6. CASE op'.pc = "idle" /\ CommitVaulted
  <2>1. UNCHANGED <<flag, txLog>>
    BY <1>6, <1>1, GotoDoes DEF CommitVaulted
  <2> QED BY <1>1, <1>2, <1>4, <2>1 DEF FilesKnown, RowsKnown, NoFiles
<1>7. CASE ~(op'.pc = "idle" /\ CommitVaulted)
  <2>1. txLog' = Dump(flag') /\ flag' \in [Tx -> Row]
    <3>1. CASE CommitBeginLog
      BY <3>1, <1>5, FlagSet DEF CommitBeginLog, TxState
    <3>2. CASE CommitDeleteLog
      <4>1. [state |-> "Active", del |-> op.target] \in Row
        BY <1>5 DEF Row, TxState
      <4> QED BY <3>2, <1>5, <4>1 DEF CommitDeleteLog
    <3>3. CASE CommitVaulted
      <4>1. flag' = [flag EXCEPT ![op.tx].state = "Vaulted"] /\ txLog' = Dump(flag')
        BY <3>3, <1>7 DEF CommitVaulted, NoOp
      <4> QED BY <4>1, FlagSet DEF TxState
    <3> QED BY <3>1, <3>2, <3>3
  <2>2. \A t \in Tx : \/ flag'[t] = flag[t]
                      \/ flag'[t].state \in {"Active", "Vaulted"}
    <3>1. CASE CommitBeginLog
      BY <3>1, <1>5 DEF CommitBeginLog, Row
    <3>2. CASE CommitDeleteLog
      BY <3>2, <1>5 DEF CommitDeleteLog
    <3>3. CASE CommitVaulted
      BY <3>3, <1>5, <1>7 DEF CommitVaulted, NoOp, Row
    <3> QED BY <3>1, <3>2, <3>3
  <2>3. \A t \in Tx : flag'[t] # flag[t] => flagFile[t] # NoFile \/ flag[t] \notin {NoRow, B0}
    <3>1. CASE CommitBeginLog \/ CommitDeleteLog
      <4>1. op.tx \in Tx /\ flagFile[op.tx] # NoFile
        BY <3>1, <1>1 DEF CommitBeginLog, CommitDeleteLog, At, JobKnown, Flagged
      <4> QED BY <1>5, <3>1, <4>1 DEF CommitBeginLog, CommitDeleteLog
    <3>2. CASE CommitVaulted
      <4>1. flag' = [flag EXCEPT ![op.tx].state = "Vaulted"]
            /\ flag[op.tx].state = "Active"
        BY <3>2, <1>7 DEF CommitVaulted, NoOp
      <4>2. \A t \in Tx : flag'[t] # flag[t] => t = op.tx
        BY <1>5, <4>1
      <4> QED BY <4>1, <4>2 DEF NoRow, B0
    <3> QED BY <3>1, <3>2
  <2>4. ASSUME NEW t \in Tx
        PROVE  /\ txLog'[t] = flag'[t].state
               /\ flag'[t].state = "none" => NoFiles(t)
               /\ flagFile[t] = NoFile /\ ecl[t] # NoVersion => flag'[t] = B0
               /\ largest # 0 /\ t > largest => NoFiles(t) /\ flag'[t] = NoRow
    <3>1. /\ flag[t].state = "none" => NoFiles(t)
          /\ flagFile[t] = NoFile /\ ecl[t] # NoVersion => flag[t] = B0
          /\ largest # 0 /\ t > largest => NoFiles(t) /\ flag[t] = NoRow
      BY <1>2 DEF RowsKnown, FilesKnown
    <3>2. txLog'[t] = flag'[t].state
      BY <2>1 DEF Dump
    <3> QED BY <2>2, <2>3, <3>1, <3>2 DEF NoFiles, NoRow
  <2>5. FilesKnown' /\ RowsKnown'
    BY <1>1, <2>4 DEF FilesKnown, RowsKnown, NoFiles, B0, NoRow
  <2> QED BY <1>4, <2>5
<1> QED BY <1>6, <1>7

(* What load makes of a transaction.                                          *)
LEMMA MadeKnown ==
    ASSUME TypeOK, FilesKnown, NEW t \in Tx
    PROVE  /\ Materialize(t).state = "none" => NoFiles(t)
           /\ flagFile[t] = NoFile /\ ecl[t] # NoVersion => Materialize(t) = B0
           /\ txLog[t] = "Begin" => Materialize(t) # NoRow
           /\ NoFiles(t) /\ txLog[t] # "Begin" => Materialize(t) = NoRow
<1>1. /\ txLog[t] = "none" => NoFiles(t)
      /\ flagFile[t] = NoFile /\ ecl[t] # NoVersion => txLog[t] = "Begin"
  BY DEF FilesKnown
<1> QED BY <1>1 DEF Materialize, NoRow, B0, NoFiles

(* load fills in the rows of the transactions whose files are there; where    *)
(* it fails the cache stays unloaded.                                         *)
LEMMA LoadKnown ==
    ASSUME TypeOK, SealTrusted, EngineInv, FilesKnown, RowsKnown, CleanKnown,
           JobKnown, SyncLoad
    PROVE  FilesKnown' /\ RowsKnown' /\ CleanKnown' /\ JobKnown'
<1>1. /\ op \in Job /\ op.kind # "none" /\ op.pc = "load" /\ op.kind = "sync"
      /\ UNCHANGED <<txLog, flagFile, ecl, largest, seal, open>>
      /\ seal.unsync /\ ~VaultOpen
      /\ op.marked = {} /\ op.at = 0
      /\ seal \in [unsync: BOOLEAN, log: Log]
  BY Shapes0 DEF SyncLoad, At, share, SealTrusted, EngineInv, JobKnown, CleanPc,
     TypeOK, Types, CacheType
<1>2. FilesKnown'
  BY <1>1 DEF FilesKnown, NoFiles
<1>3. CASE LoadFailsAt = {}
  <2>1. /\ op'.pc = "clean" /\ op'.at = 0 /\ op'.marked = {} /\ op'.kind = "sync"
    BY <1>1, <1>3, GotoDoes DEF SyncLoad
  <2>2. \A t \in Tx : flag'[t] = Materialize(t)
    <3>1. \A t \in Tx : t <= MaxTx
      BY DataStoreAssumption DEF Tx
    <3> QED BY <1>3, <3>1 DEF SyncLoad
  <2>3. RowsKnown'
    <3>1. ASSUME NEW t \in Tx
          PROVE  /\ flag'[t].state = "none" => NoFiles(t)
                 /\ flagFile[t] = NoFile /\ ecl[t] # NoVersion => flag'[t] = B0
                 /\ txLog[t] = "Begin" => flag'[t] # NoRow
                 /\ largest # 0 /\ t > largest => flag'[t] = NoRow
      BY <2>2, MadeKnown DEF FilesKnown
    <3> QED BY <1>1, <3>1 DEF RowsKnown, NoFiles
  <2>4. CleanKnown' /\ JobKnown'
    BY <2>1 DEF CleanKnown, JobKnown, CleanPc, Began, Flagged
  <2> QED BY <1>2, <2>3, <2>4
<1>4. CASE LoadFailsAt # {}
  <2>1. op' = NoOp
    BY <1>4 DEF SyncLoad
  <2>2. CleanKnown' /\ JobKnown'
    BY <2>1 DEF NoOp, CleanKnown, JobKnown, CleanPc, Began, Flagged
  <2>3. ~Loaded'
    BY <1>1, <2>1 DEF Loaded, NoOp, VaultOpen
  <2> QED BY <1>2, <2>2, <2>3 DEF RowsKnown
<1> QED BY <1>3, <1>4

(* postSyncCleanup rolls unfinished vaults back.                              *)
LEMMA RollbackKnown ==
    ASSUME TypeOK, FilesKnown, RowsKnown, CleanKnown, JobKnown, SyncRollback
    PROVE  FilesKnown' /\ RowsKnown' /\ CleanKnown' /\ JobKnown'
<1>1. /\ op \in Job /\ op.kind # "none" /\ op.pc = "rollback"
      /\ UNCHANGED <<flagFile, ecl, largest>>
      /\ txLog' = IF Unfinished = {} THEN txLog ELSE Dump(flag')
      /\ flag' = [t \in Tx |-> IF t \in Unfinished
                               THEN [flag[t] EXCEPT !.state = "Rollback"]
                               ELSE flag[t]]
  BY Shapes0 DEF SyncRollback, At
<1>2. op.marked = {} /\ op.at = 0 /\ Loaded /\ flag \in [Tx -> Row]
  BY <1>1, Shapes0 DEF JobKnown, CleanPc, Loaded
<1>3. CleanKnown' /\ JobKnown'
  <2>1. op'.pc = "clean" /\ op'.at = 0 /\ op'.marked = {}
    BY <1>1, <1>2, RollbackDoes
  <2> QED BY <2>1 DEF CleanKnown, JobKnown, CleanPc, Began, Flagged
<1>4. CASE Unfinished = {}
  <2>1. flag' = flag /\ txLog' = txLog
    BY <1>1, <1>2, <1>4
  <2> QED BY <1>1, <1>2, <1>3, <2>1 DEF FilesKnown, RowsKnown, NoFiles
<1>5. CASE Unfinished # {}
  <2>1. \A t \in Unfinished : flag[t] \notin {NoRow, B0}
    BY DEF Unfinished, NoRow, B0
  <2>2. flag' \in [Tx -> Row]
    <3>1. ASSUME NEW r \in Row PROVE [r EXCEPT !.state = "Rollback"] \in Row
      BY DEF Row, TxState
    <3> QED BY <1>1, <1>2, <3>1
  <2>3. \A t \in Tx : \/ flag'[t] = flag[t]
                      \/ flag'[t].state = "Rollback" /\ flag[t] \notin {NoRow, B0}
    BY <1>1, <1>2, <2>1 DEF Row
  <2>4. PICK f \in [Tx -> Row] : f = flag'
    BY <2>2
  <2>5. FilesKnown' /\ (flag' \in {flag, f} => RowsKnown')
    BY <1>1, <1>2, <1>5, <2>3, <2>4, DumpKnown
  <2> QED BY <1>3, <2>4, <2>5
<1> QED BY <1>4, <1>5

(* A step that leaves files and rows alone keeps a job where it was, stops    *)
(* it, starts one, or takes it on.                                            *)
LEMMA QuietJob ==
    ASSUME TypeOK, EngineInv, CleanKnown, JobKnown, [Next]_vars, ~FileStep
    PROVE  CleanKnown' /\ JobKnown'
<1>1. UNCHANGED <<txLog, flagFile, ecl, flag>> /\ op \in Job
  BY QuietStep, Shapes0 DEF files
<1>2. CASE op' = op
  BY <1>1, <1>2 DEF CleanKnown, JobKnown, CleanPc, Began, Flagged, NoFiles
<1>3. CASE op' = NoOp
  BY <1>3 DEF NoOp, CleanKnown, JobKnown, CleanPc, Began, Flagged
<1>4. CASE op'.at = 0 /\ op'.marked = {}
           /\ op'.pc \in {"clean", "vaulted", "load", "seal", "rollback"}
  BY <1>4 DEF CleanKnown, JobKnown, CleanPc, Began, Flagged
<1>5. CASE PurgeReconcile
  <2> DEFINE known == {t \in purge.txs : flag[t] # NoRow}
             deletes == {t \in known : flag[t].del # 0}
  <2>1. /\ op'.at = 0 /\ op'.marked = deletes /\ op'.doomed = known \ deletes
        /\ op'.pc \in {"clean", "oldRm", "write"}
        /\ op'.pc = "clean" => purge.txs = {}
    BY <1>5 DEF PurgeReconcile, NoOp
  <2>2. op'.pc = "clean" => op'.marked = {}
    BY <2>1
  <2>3. op'.marked \cap op'.doomed = {} /\ \A t \in op'.marked : flag[t].del # 0
    BY <2>1
  <2> HIDE DEF known, deletes
  <2> QED
    BY <1>1, <2>1, <2>2, <2>3 DEF CleanKnown, JobKnown, CleanPc, Began, Flagged
<1>6. CASE CleanChoose
  <2>1. op.pc = "clean" /\ op'.at = op.at /\ op'.marked = op.marked
        /\ op'.pc \in {"write", "oldRm"}
    BY <1>1, <1>6 DEF CleanChoose, At, Job
  <2> QED
    BY <2>1 DEF CleanKnown, JobKnown, CleanPc, Began, Flagged
<1>7. CASE CreateVaultLog /\ op' # NoOp
  <2>1. /\ op.kind # "none" /\ op.pc = "delta" /\ op'.pc = "beginFlags"
        /\ op'.at = op.at /\ op'.marked = op.marked /\ op'.tx = op.tx
        /\ op'.kind = op.kind /\ op.kind = "vault"
    BY <1>1, <1>7, DeltaDoes DEF CreateVaultLog, At, TypeOK, OpSound
  <2> QED
    BY <1>1, <2>1 DEF CleanKnown, JobKnown, CleanPc, Began, Flagged
<1>8. CASE DeleteDecrement /\ op' # NoOp
  <2>1. /\ op.kind # "none" /\ op.pc = "decr" /\ op'.pc = "putEcl"
        /\ op'.at = op.at /\ op'.marked = op.marked /\ op'.tx = op.tx
        /\ op'.kind = op.kind /\ op.kind = "delete"
    BY <1>1, <1>8, DecrementDoes DEF DeleteDecrement, At, TypeOK, OpSound
  <2> QED
    BY <1>1, <2>1 DEF CleanKnown, JobKnown, CleanPc, Began, Flagged
<1>9. CASE CommitIncrement \/ SyncReplay
  <2>1. /\ op.pc \in {"incr", "replay"} /\ op'.pc \in {"seal", "rollback"}
        /\ op'.at = op.at /\ op'.marked = op.marked
    BY <1>1, <1>9, GotoDoes DEF CommitIncrement, SyncReplay, At
  <2> QED BY <1>4, <2>1 DEF JobKnown, CleanPc
<1>10. ASSUME NEW t \in Tx, CommitVault(t) \/ MakeDelete(t)
       PROVE  CleanKnown' /\ JobKnown'
  <2>1. op'.at = 0 /\ op'.marked = {} /\ op'.pc \in {"vaulted", "clean"}
    BY <1>10 DEF CommitVault, MakeDelete, NoOp
  <2> QED BY <1>4, <2>1
<1>11. ASSUME NEW v \in Version, MakeVault(v) PROVE CleanKnown' /\ JobKnown'
  <2>1. op'.at = 0 /\ op'.marked = {} /\ op'.pc = "clean"
    BY <1>11 DEF MakeVault, NoOp
  <2> QED BY <1>4, <2>1
<1>12. CASE SyncRebuild
  <2>1. op'.at = 0 /\ op'.marked = {} /\ op'.pc = "load"
    BY <1>12 DEF SyncRebuild, StartOp, NoOp
  <2> QED BY <1>4, <2>1
<1>13. ASSUME NEW t \in Tx, NEW p \in Prints,
              VaultNext(t, p) \/ SendPrint(t, p) \/ VaultUnregister(t)
              \/ VaultAbort(t)
       PROVE  op' = op
  BY <1>13 DEF VaultNext, SendPrint, VaultUnregister, VaultAbort
<1>14. CASE UnnukeSync \/ Fail \/ Crash \/ Shutdown
  BY <1>3, <1>14 DEF UnnukeSync, Fail, Crash, Shutdown, FreshEngine
<1>15. CASE StartPurge \/ PurgeTake \/ PurgeGiveUp \/ PurgeAsk \/ PurgeDelete
            \/ PurgeFinish \/ PurgeEnd \/ SyncTrusted \/ UNCHANGED vars
  <2>1. op' = op
    BY <1>15 DEF StartPurge, PurgeTake, PurgeGiveUp, PurgeAsk, PurgeDelete,
       PurgeFinish, PurgeEnd, SyncTrusted, vars, engine
  <2> QED BY <1>2, <2>1
<1>16. ASSUME NEW t \in Tx, VaultUnregister(t) \/ VaultAbort(t) PROVE op' = op
  BY <1>16 DEF VaultUnregister, VaultAbort
<1> QED
  BY <1>2, <1>3, <1>5, <1>6, <1>7, <1>8, <1>9, <1>10, <1>11, <1>12, <1>13, <1>14,
     <1>15, <1>16 DEF Next, OpStep, Clean, Sender, Purger, FileStep

(* OrphanInv is inductive, given the types and the trust in the seal.         *)
LEMMA OrphanStep ==
    ASSUME TypeOK, SealTrusted, OrphanInv, [Next]_vars
    PROVE  OrphanInv'
<1> USE DEF OrphanInv
<1>1. EngineInv'
  BY EngineStep
<1>2. CASE ~FileStep
  BY <1>1, <1>2, QuietKnown, QuietJob
<1>3. CASE FileStep
  BY <1>1, <1>3, WriteKnown, RemoveKnown, CleanDumpKnown, DropKnown, CommitKnown,
     CreateKnown, PutKnown, FlagsKnown, LogKnown, LoadKnown, RollbackKnown
     DEF FileStep
<1> QED BY <1>2, <1>3

(* A new store has no files.                                                  *)
LEMMA OrphanInit == Init => OrphanInv
<1> SUFFICES ASSUME Init PROVE OrphanInv
  OBVIOUS
<1>1. EngineInv
  BY DEF Init, EngineInv, VaultOpen, NoVault, NoOp
<1>2. FilesKnown /\ RowsKnown
  BY DEF Init, FilesKnown, RowsKnown, NoFiles, NoRow
<1>3. CleanKnown /\ JobKnown
  BY DEF Init, NoOp, CleanKnown, JobKnown, CleanPc, Began, Flagged
<1> QED BY <1>1, <1>2, <1>3 DEF OrphanInv

(* A transaction number that is not in use has no file on the share, whatever *)
(* fails, overlaps or stops half way: NoOrphans, with OrphanInv.              *)
THEOREM NothingIsOrphaned == Spec => [](OrphanInv /\ NoOrphans)
<1>1. TypeOK /\ OrphanInv => NoOrphans
  <2> SUFFICES ASSUME TypeOK, OrphanInv, InSync, NEW t \in Tx, flag[t] = NoRow
               PROVE  NoFiles(t)
    BY DEF NoOrphans, NoFiles
  <2>1. Loaded
    BY SyncedSeal DEF OrphanInv, InSync, Loaded
  <2> QED BY <2>1 DEF OrphanInv, RowsKnown, NoRow
<1>2. TypeOK /\ SealTrusted /\ OrphanInv /\ [Next]_vars => OrphanInv'
  BY OrphanStep
<1> QED
  BY <1>1, <1>2, OrphanInit, TypeCorrect, SealIsTrusted, PTL DEF Spec
=============================================================================
