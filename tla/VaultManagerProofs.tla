------------------------- MODULE VaultManagerProofs -------------------------
(* Theorems about VaultManager, for any threads, prints and bounds: types and *)
(* counts with any faults, the commit of a vault where no key is swapped.     *)
EXTENDS VaultManager, FiniteSetTheorems, TLAPS

(* Keys are numbers from 1 on, and not the key of nobody.                    *)
LEMMA KeyInt == Key \subseteq Int /\ 0 \notin Key /\ -1 \notin Key
  BY VaultManagerAssumption DEF Key

(* How many of a set of keys lock a print is a number.                       *)
LEMMA CountType ==
    ASSUME NEW S \in SUBSET Key
    PROVE IsFiniteSet(S) /\ Cardinality(S) \in Int
<1>1. IsFiniteSet(Key)
  BY VaultManagerAssumption, FS_Interval DEF Key
<1> QED BY <1>1, FS_Subset, FS_CardinalityType

(* The steps of a thread are steps at a program counter of its own.          *)
LEMMA Pcs ==
    {"idle", "register", "put", "close", "return", "reveal", "registered",
     "advance", "unregister", "lock", "lockPut", "lockClose", "send", "next",
     "commit", "abort", "done", "failed"} \subseteq Pc
  BY DEF Pc

(* unregister keeps the types of the tables.                                 *)
LEMMA UnregisterType ==
    ASSUME TableType, NEW K \in SUBSET Key, Unregister(K)
    PROVE TableType' /\ myKey' = myKey
<1> USE DEF TableType
<1>1. NoMember \in Member
  BY DEF NoMember, Member, MemberKind
<1>2. members' \in [Key -> Member]
  BY <1>1 DEF Unregister
<1>3. \A p \in Prints : Cardinality({k \in K : p \in cache[k]}) \in Int
  <2> TAKE p \in Prints
  <2> QED BY CountType
<1>4. everyone' \in [Prints -> Int]
  BY <1>3 DEF Unregister
<1> QED BY <1>2, <1>4 DEF Unregister

(* unregister takes the prints of the keys out of the count, and no others.  *)
LEMMA UnregisterCount ==
    ASSUME TableType, CountExact, NEW K \in SUBSET Key, Unregister(K)
    PROVE CountExact'
<1> SUFFICES ASSUME NEW p \in Prints
             PROVE everyone'[p] = Cardinality({k \in Key : p \in cache'[k]})
  BY DEF CountExact
<1> DEFINE all == {k \in Key : p \in cache[k]}
           gone == {k \in K : p \in cache[k]}
<1>1. {k \in Key : p \in cache'[k]} = all \ gone
  BY DEF Unregister
<1>2. all \cap gone = gone
  OBVIOUS
<1>3. IsFiniteSet(all)
  BY CountType
<1>4. Cardinality(all \ gone) = Cardinality(all) - Cardinality(all \cap gone)
  BY <1>3, FS_Difference
<1>5. everyone'[p] = everyone[p] - Cardinality(gone)
  BY DEF Unregister, TableType
<1>6. everyone[p] = Cardinality(all)
  BY DEF CountExact
<1> QED BY <1>1, <1>2, <1>4, <1>5, <1>6

(* DogCrap.put counts a print once for a transaction.                        *)
LEMMA PutCount ==
    ASSUME TableType, CountExact, NEW j \in Key, NEW q \in Prints,
           PutOnce(j, q), cache' = [cache EXCEPT ![j] = @ \cup {q}]
    PROVE CountExact'
<1> USE DEF TableType
<1> SUFFICES ASSUME NEW p \in Prints
             PROVE everyone'[p] = Cardinality({k \in Key : p \in cache'[k]})
  BY DEF CountExact
<1> DEFINE all == {k \in Key : p \in cache[k]}
<1>1. everyone[p] = Cardinality(all) /\ IsFiniteSet(all)
  BY CountType DEF CountExact
<1>2. CASE p # q \/ q \in cache[j]
  <2>1. {k \in Key : p \in cache'[k]} = all
    BY <1>2
  <2>2. everyone'[p] = everyone[p]
    BY <1>2 DEF PutOnce
  <2> QED BY <1>1, <2>1, <2>2
<1>3. CASE p = q /\ q \notin cache[j]
  <2>1. {k \in Key : p \in cache'[k]} = all \cup {j}
    BY <1>3
  <2>2. everyone'[p] = everyone[p] + 1
    BY <1>3 DEF PutOnce
  <2>3. j \notin all
    BY <1>3
  <2>4. Cardinality(all \cup {j}) = Cardinality(all) + 1
    BY <1>1, <2>3, FS_AddElement
  <2> QED BY <1>1, <2>1, <2>2, <2>4
<1> QED BY <1>2, <1>3

(* An empty table of registrations and idle threads are of the right types.  *)
LEMMA TypeInit == Init => TypeOK
<1> SUFFICES ASSUME Init PROVE TypeOK
  OBVIOUS
<1> USE VaultManagerAssumption DEF Init
<1>1. NoMember \in Member
  BY DEF NoMember, Member, MemberKind
<1>2. TableType
  BY <1>1 DEF TableType
<1>3. LocalType
  <2>1. pc \in [Thread -> Pc]
    BY DEF Pc
  <2>2. left \in [Thread -> SUBSET Prints]
    BY DEF Thread
  <2> QED BY <2>1, <2>2 DEF LocalType
<1>4. Types
  BY <1>2, <1>3 DEF Types
<1>5. KeysGiven
  BY DEF KeysGiven, Working
<1> QED BY <1>4, <1>5 DEF TypeOK

(* The registrations keep the types.                                         *)
LEMMA RegisterType ==
    ASSUME TypeOK, NEW t \in Thread,
           \/ RegisterMunge(t) \/ Begin(t) \/ RegisterLock(t) \/ RegisterPut(t)
           \/ RegisterClose(t) \/ RegisterReturn(t) \/ RevealCursor(t)
           \/ CancelMakeVault(t) \/ ResumeAdvance(t) \/ ResumeUnregister(t)
    PROVE TypeOK'
<1> USE KeyInt, Pcs, VaultManagerAssumption
    DEF TypeOK, Types, LocalType, TableType, Goto, At, locks, table, local, vault
<1>1. CASE RegisterMunge(t)
  <2>1. pc' = [pc EXCEPT ![t] = "lock"] \/ pc' = [pc EXCEPT ![t] = "register"]
    BY <1>1 DEF RegisterMunge
  <2>2. PICK p \in left[t] : cur' = [cur EXCEPT ![t] = p]
    BY <1>1 DEF RegisterMunge
  <2>3. p \in Prints
    BY <2>2
  <2>4. key' \in [Thread -> Key \cup {0}] /\ globo' \in Munger \cup {None}
    BY <1>1 DEF RegisterMunge
  <2>5. Types'
    <3>1. pc' \in [Thread -> Pc]
      BY <2>1
    <3>2. cur' \in [Thread -> Prints \cup {None}]
      BY <2>2, <2>3
    <3> QED BY <1>1, <2>4, <3>1, <3>2 DEF RegisterMunge
  <2>6. \A u \in Thread \ {t} : pc'[u] = pc[u] /\ key'[u] = key[u] /\ cur'[u] = cur[u]
    BY <1>1, <2>1, <2>2 DEF RegisterMunge
  <2>7. cur'[t] \in Prints
    BY <2>2, <2>3
  <2>8. pc'[t] = "register" \/ (pc'[t] = "lock" /\ key'[t] \in Key)
    BY <1>1 DEF RegisterMunge
  <2>9. myKey' = myKey
    BY <1>1 DEF RegisterMunge
  <2> QED BY <2>5, <2>6, <2>7, <2>8, <2>9 DEF KeysGiven, Working
<1>2. CASE Begin(t)
  BY <1>2 DEF Begin, KeysGiven, Working
<1>3. CASE RegisterLock(t)
  BY <1>3 DEF RegisterLock, ReadLock, KeysGiven, Working
<1>4. CASE RegisterPut(t)
  <2>1. myKey' \in Key
    BY <1>4 DEF RegisterPut, Key
  <2>2. t \in Sender \ {Parent} => key[Parent] \in Key \cup {0}
    BY DEF Thread
  <2>3. [kind |-> IF t \in Munger THEN "munge" ELSE "vault",
         parent |-> IF t \in Sender \ {Parent} THEN key[Parent] ELSE -1,
         todo |-> IF t \in Sender THEN Delta[t] ELSE {}] \in Member
    BY <2>2 DEF Member, MemberKind
  <2>4. members' \in [Key -> Member]
    BY <1>4, <2>1, <2>3 DEF RegisterPut
  <2>5. Types'
    BY <1>4, <2>1, <2>4 DEF RegisterPut
  <2> QED BY <1>4, <2>1, <2>5 DEF RegisterPut, KeysGiven, Working
<1>5. CASE RegisterClose(t)
  BY <1>5 DEF RegisterClose, ReadUnlock, KeysGiven, Working
<1>6. CASE RegisterReturn(t)
  <2>1. myKey \in Key
    BY <1>6 DEF RegisterReturn, KeysGiven
  <2>2. key' \in [Thread -> Key \cup {0}] /\ key'[t] \in Key
    BY <1>6, <2>1 DEF RegisterReturn
  <2>3. amb' \in [Path -> Key \cup {0}] /\ globo' \in Munger \cup {None}
    BY <1>6, <2>1 DEF RegisterReturn
  <2>4. Types'
    BY <1>6, <2>2, <2>3 DEF RegisterReturn
  <2>5. t \in Munger => cur[t] \in Prints
    BY <1>6 DEF RegisterReturn, KeysGiven
  <2> QED BY <1>6, <2>1, <2>2, <2>4, <2>5 DEF RegisterReturn, KeysGiven, Working
<1>7. CASE RevealCursor(t)
  BY <1>7 DEF RevealCursor, KeysGiven, Working
<1>8. CASE CancelMakeVault(t)
  BY <1>8 DEF CancelMakeVault, KeysGiven, Working
<1>9. CASE ResumeAdvance(t)
  <2>1. key[t] \in Key
    BY <1>9 DEF ResumeAdvance, KeysGiven, Working
  <2>2. [members[key[t]] EXCEPT !.todo = {}] \in Member
    BY <2>1 DEF Member
  <2>3. members' \in [Key -> Member]
    BY <1>9, <2>1, <2>2 DEF ResumeAdvance
  <2> QED BY <1>9, <2>3 DEF ResumeAdvance, KeysGiven, Working
<1>10. CASE ResumeUnregister(t)
  <2>1. {key[t]} \in SUBSET Key
    BY <1>10 DEF ResumeUnregister, KeysGiven, Working
  <2>2. TableType' /\ myKey' = myKey
    BY <1>10, <2>1, UnregisterType DEF ResumeUnregister
  <2> QED BY <1>10, <2>2 DEF ResumeUnregister, KeysGiven, Working
<1> QED BY <1>1, <1>2, <1>3, <1>4, <1>5, <1>6, <1>7, <1>8, <1>9, <1>10

(* Locking a print and writing its block keep the types.                     *)
LEMMA LockType ==
    ASSUME TypeOK, NEW t \in Thread,
           LockEnter(t) \/ LockPut(t) \/ LockClose(t) \/ Send(t)
    PROVE TypeOK'
<1> USE KeyInt, Pcs, VaultManagerAssumption
    DEF TypeOK, Types, LocalType, TableType, Goto, At, locks, table, local, vault
<1>1. CASE LockEnter(t)
  BY <1>1 DEF LockEnter, ReadLock, KeysGiven, Working
<1>2. CASE LockPut(t)
  <2>1. key[t] \in Key /\ cur[t] \in Prints
    BY <1>2 DEF LockPut, KeysGiven, Working
  <2>2. everyone' \in [Prints -> Int]
    BY <1>2, <2>1 DEF LockPut, PutOnce
  <2>3. cache' \in [Key -> SUBSET Prints] /\ leases' \in SUBSET Key
    BY <1>2, <2>1 DEF LockPut
  <2> QED BY <1>2, <2>2, <2>3 DEF LockPut, KeysGiven, Working
<1>3. CASE LockClose(t)
  BY <1>3 DEF LockClose, ReadUnlock, KeysGiven, Working
<1>4. CASE Send(t)
  <2>1. key[t] \in Key /\ cur[t] \in Prints
    BY <1>4 DEF Send, KeysGiven, Working
  <2>2. blocks' \in SUBSET Prints /\ left' \in [Thread -> SUBSET Prints]
    BY <1>4, <2>1 DEF Send
  <2>3. sent' \in [Sender -> SUBSET Prints]
    BY <1>4, <2>1 DEF Send
  <2>4. pc' \in [Thread -> Pc]
        /\ \A u \in Thread \ {t} : pc'[u] = pc[u]
        /\ pc'[t] \in {"idle", "abort", "next"}
    BY <1>4 DEF Send
  <2>5. Types'
    BY <1>4, <2>2, <2>3, <2>4 DEF Send
  <2> QED BY <1>4, <2>1, <2>4, <2>5 DEF Send, KeysGiven, Working
<1> QED BY <1>1, <1>2, <1>3, <1>4

(* Sending, committing and closing a vault keep the types.                   *)
LEMMA VaultType ==
    ASSUME TypeOK, NEW t \in Thread, VaultNext(t) \/ Commit(t) \/ Close(t)
    PROVE TypeOK'
<1> USE KeyInt, Pcs, VaultManagerAssumption
    DEF TypeOK, Types, LocalType, TableType, Goto, At, locks, table, local, vault
<1>1. CASE VaultNext(t)
  <2>1. key[t] \in Key
    BY <1>1 DEF VaultNext, KeysGiven, Working
  <2>2. CASE Goto(t, "abort") /\ UNCHANGED <<members, cur>>
    BY <1>1, <2>1, <2>2 DEF VaultNext, KeysGiven, Working
  <2>3. CASE Goto(t, "commit") /\ UNCHANGED <<members, cur>>
    BY <1>1, <2>1, <2>3 DEF VaultNext, KeysGiven, Working
  <2>4. ASSUME NEW p \in members[key[t]].todo,
               members' = [members EXCEPT ![key[t]].todo = @ \ {p}],
               cur' = [cur EXCEPT ![t] = p], Goto(t, "lock")
        PROVE TypeOK'
    <3>1. p \in Prints
      BY <2>1 DEF Member
    <3>2. [members[key[t]] EXCEPT !.todo = @ \ {p}] \in Member
      BY <2>1 DEF Member
    <3>3. members' \in [Key -> Member]
      BY <2>1, <2>4, <3>2
    <3>4. cur' \in [Thread -> Prints \cup {None}] /\ cur'[t] \in Prints
          /\ \A u \in Thread \ {t} : cur'[u] = cur[u]
      BY <2>4, <3>1
    <3>5. pc' \in [Thread -> Pc] /\ pc'[t] = "lock"
          /\ \A u \in Thread \ {t} : pc'[u] = pc[u]
      BY <2>4
    <3>6. Types'
      BY <1>1, <3>3, <3>4, <3>5 DEF VaultNext
    <3> QED BY <1>1, <2>1, <3>4, <3>5, <3>6 DEF VaultNext, KeysGiven, Working
  <2> QED BY <1>1, <2>2, <2>3, <2>4 DEF VaultNext
<1>2. CASE Commit(t)
  <2>1. {key[t]} \in SUBSET Key
    BY <1>2 DEF Commit, KeysGiven, Working
  <2>2. TableType' /\ myKey' = myKey
    BY <1>2, <2>1, UnregisterType DEF Commit
  <2>3. commits' \in Nat
    BY <1>2 DEF Commit
  <2> QED BY <1>2, <2>2, <2>3 DEF Commit, KeysGiven, Working
<1>3. CASE Close(t)
  <2>1. {key[t]} \in SUBSET Key
    BY <1>3 DEF Close, KeysGiven, Working
  <2>2. TableType' /\ myKey' = myKey
    BY <1>3, <2>1, UnregisterType DEF Close
  <2>3. aborted' \in [Sender -> BOOLEAN] /\ errors' \in BOOLEAN
    BY <1>3 DEF Close
  <2> QED BY <1>3, <2>2, <2>3 DEF Close, KeysGiven, Working
<1> QED BY <1>1, <1>2, <1>3

(* A thread that gives up needs no more than the key it has.                  *)
LEMMA KeysKept ==
    ASSUME KeysGiven, UNCHANGED <<myKey, key, cur>>,
           \A u \in Thread : \/ pc'[u] = pc[u]
                             \/ pc'[u] \in {"idle", "failed"}
                             \/ pc'[u] = "abort" /\ pc[u] \in Working
    PROVE  KeysGiven'
<1>1. ASSUME NEW u \in Thread, pc'[u] \in Working PROVE key'[u] \in Key
  <2>1. pc[u] \in Working
    BY <1>1 DEF Working
  <2> QED BY <2>1 DEF KeysGiven
<1>2. ASSUME NEW u \in Thread, pc'[u] \in {"close", "return"} PROVE myKey' \in Key
  <2>1. pc'[u] = pc[u]
    BY <1>2
  <2> QED BY <1>2, <2>1 DEF KeysGiven
<1>3. ASSUME NEW u \in Thread,
             \/ pc'[u] \in {"lock", "lockPut", "lockClose", "send"}
             \/ u \in Munger /\ pc'[u] \in {"register", "put", "close", "return"}
      PROVE  cur'[u] \in Prints
  <2>1. pc'[u] = pc[u]
    BY <1>3
  <2> QED BY <1>3, <2>1 DEF KeysGiven
<1> QED BY <1>1, <1>2, <1>3 DEF KeysGiven

(* Timeouts keep the types.                                                  *)
LEMMA TimeoutType ==
    ASSUME TypeOK, NEW t \in Thread, TimeoutDelete(t) \/ TimeoutGlobo(t)
    PROVE TypeOK'
<1>1. CASE TimeoutDelete(t)
  <2>1. /\ pc' \in [Thread -> Pc]
        /\ \A u \in Thread : \/ pc'[u] = pc[u]
                             \/ pc'[u] \in {"idle", "failed"}
                             \/ pc'[u] = "abort" /\ pc[u] \in Working
    BY <1>1, Pcs DEF TimeoutDelete, Goto, At, Working, TypeOK, Types, LocalType
  <2>2. left' \in [Thread -> SUBSET Prints]
    BY <1>1 DEF TimeoutDelete, TypeOK, Types, LocalType
  <2>3. globo' \in Munger \cup {None}
    BY <1>1 DEF TimeoutDelete, TypeOK, Types
  <2>4. Types'
    BY <1>1, <2>1, <2>2, <2>3
       DEF TimeoutDelete, TypeOK, Types, TableType, LocalType, table, vault
  <2>5. UNCHANGED <<myKey, key, cur>>
    BY <1>1 DEF TimeoutDelete, table
  <2> QED BY <2>1, <2>4, <2>5, KeysKept DEF TypeOK
<1>2. CASE TimeoutGlobo(t)
  <2>1. /\ pc' \in [Thread -> Pc]
        /\ \A u \in Thread : \/ pc'[u] = pc[u]
                             \/ pc'[u] \in {"idle", "failed"}
                             \/ pc'[u] = "abort" /\ pc[u] \in Working
    BY <1>2, Pcs DEF TimeoutGlobo, Goto, At, Working, TypeOK, Types, LocalType
  <2>2. left' \in [Thread -> SUBSET Prints]
    BY <1>2 DEF TimeoutGlobo, TypeOK, Types, LocalType
  <2>3. aborted' \in [Sender -> BOOLEAN] /\ errors' \in BOOLEAN
    BY <1>2 DEF TimeoutGlobo, TypeOK, Types
  <2>4. readFlag' \in BOOLEAN
    BY <1>2 DEF TimeoutGlobo, TypeOK, Types
  <2>5. Types'
    BY <1>2, <2>1, <2>2, <2>3, <2>4
       DEF TimeoutGlobo, TypeOK, Types, TableType, LocalType, table
  <2>6. UNCHANGED <<myKey, key, cur>>
    BY <1>2 DEF TimeoutGlobo, table
  <2> QED BY <2>1, <2>5, <2>6, KeysKept DEF TypeOK
<1> QED BY <1>1, <1>2

(* The idle check, its failure and an operator's command are alike in what   *)
(* they may change: they unregister keys with a lease.                       *)
LeaseStep == CheckForIdleRegisters \/ IdleCheckThrows \/ forceUnregisterAll

LEMMA LeaseStepKinds ==
    ASSUME LeaseStep, idleCheck \in BOOLEAN
    PROVE  /\ UNCHANGED <<locks, local, vault, purge, blocks>>
           /\ idleCheck' \in BOOLEAN
           /\ \/ UNCHANGED table
              \/ \E K \in SUBSET leases :
                    /\ Unregister(K)
                    /\ "expire" \notin Faults => \A k \in K : ~Busy(k)
<1>1. Expired \subseteq leases /\ ("expire" \notin Faults => \A k \in Expired : ~Busy(k))
  BY DEF Expired
<1>2. CASE CheckForIdleRegisters
  BY <1>1, <1>2 DEF CheckForIdleRegisters
<1>3. CASE IdleCheckThrows
  BY <1>1, <1>3 DEF IdleCheckThrows
<1>4. CASE forceUnregisterAll
  BY <1>4 DEF forceUnregisterAll
<1> QED BY <1>2, <1>3, <1>4 DEF LeaseStep

(* So do the steps that belong to no thread of Thread.                       *)
LEMMA OtherType ==
    ASSUME TypeOK,
           \/ StartSending \/ LeaseStep \/ Purger
           \/ \E f \in Path : UnregisterMunge(f)
    PROVE TypeOK'
<1> USE KeyInt, Pcs, VaultManagerAssumption
    DEF TypeOK, Types, LocalType, TableType, At, locks, table, local, vault
<1>1. CASE StartSending
  BY <1>1 DEF StartSending, KeysGiven, Working
<1>2. CASE LeaseStep
  <2>1. /\ UNCHANGED <<locks, local, vault, purge, blocks>> /\ idleCheck' \in BOOLEAN
        /\ UNCHANGED table \/ \E K \in SUBSET leases : Unregister(K)
    BY <1>2, LeaseStepKinds
  <2>2. TableType' /\ myKey' = myKey
    BY <2>1, UnregisterType
  <2> QED BY <2>1, <2>2 DEF KeysGiven, Working
<1>3. CASE Purger
  <2>1. purge' \in [pc: {"idle", "ask", "unlink", "unlock"}, print: SUBSET Prints]
    BY <1>3 DEF Purger, PurgeLock, PurgeAsk, PurgeUnlink, PurgeTimeout, PurgeUnlock
  <2>2. writeFlag' \in BOOLEAN /\ blocks' \in SUBSET Prints
    BY <1>3 DEF Purger, PurgeLock, PurgeAsk, PurgeUnlink, PurgeTimeout, PurgeUnlock
  <2>3. UNCHANGED <<readFlag, globo, table, local, vault, idleCheck>>
    BY <1>3 DEF Purger, PurgeLock, PurgeAsk, PurgeUnlink, PurgeTimeout, PurgeUnlock
  <2> QED BY <2>1, <2>2, <2>3 DEF KeysGiven, Working
<1>4. ASSUME NEW f \in Path, UnregisterMunge(f) PROVE TypeOK'
  <2>1. {amb[f]} \in SUBSET Key
    BY <1>4 DEF UnregisterMunge
  <2>2. TableType' /\ myKey' = myKey
    BY <1>4, <2>1, UnregisterType DEF UnregisterMunge
  <2> QED BY <1>4, <2>2 DEF UnregisterMunge, KeysGiven, Working
<1> QED BY <1>1, <1>2, <1>3, <1>4

(* Every step keeps the types.                                               *)
LEMMA TypeStep == TypeOK /\ [Next]_vars => TypeOK'
<1> SUFFICES ASSUME TypeOK, [Next]_vars PROVE TypeOK'
  OBVIOUS
<1>1. ASSUME NEW t \in Thread, Step(t) PROVE TypeOK'
  BY <1>1, RegisterType, LockType, VaultType, TimeoutType DEF Step
<1>2. CASE UNCHANGED vars
  BY <1>2 DEF vars, locks, table, local, vault, TypeOK, Types, TableType,
     LocalType, KeysGiven
<1> QED BY <1>1, <1>2, OtherType DEF Next, LeaseStep

(* Whatever interleaves, expires or times out, a thread that works with the  *)
(* tables has a key that register gave out, and one that locks a print has a *)
(* print (VaultManager.register, vaultNext, lockPrint).                      *)
THEOREM RegistrationsTyped == Spec => []TypeOK
<1> QED BY TypeInit, TypeStep, PTL DEF Spec

(* DogCrap.everyone is the number of transactions that lock a print: it is   *)
(* inductive with the types, since lockPrint counts a print once for its     *)
(* transaction and unregister, whoever calls it, takes out exactly the       *)
(* prints of the transactions it removes.                                    *)
THEOREM CountIsExact == Spec => []CountExact
<1>1. Init => CountExact
  <2> SUFFICES ASSUME Init, NEW p \in Prints
               PROVE everyone[p] = Cardinality({k \in Key : p \in cache[k]})
    BY DEF CountExact
  <2>1. {k \in Key : p \in cache[k]} = {}
    BY DEF Init
  <2> QED BY <2>1, FS_EmptySet DEF Init
<1>2. TypeOK /\ CountExact /\ [Next]_vars => CountExact'
  <2> SUFFICES ASSUME TypeOK, CountExact, [Next]_vars PROVE CountExact'
    OBVIOUS
  <2>1. TableType
    BY DEF TypeOK, Types
  <2>2. ASSUME UNCHANGED <<cache, everyone>> PROVE CountExact'
    BY <2>2 DEF CountExact
  <2>3. ASSUME NEW t \in Thread, Step(t) PROVE CountExact'
    <3>1. CASE LockPut(t)
      <4>1. key[t] \in Key /\ cur[t] \in Prints
        BY <3>1 DEF LockPut, At, TypeOK, KeysGiven, Working
      <4> QED BY <2>1, <3>1, <4>1, PutCount DEF LockPut
    <3>2. CASE ResumeUnregister(t) \/ Commit(t) \/ Close(t)
      <4>1. key[t] \in Key
        BY <3>2 DEF ResumeUnregister, Commit, Close, At, TypeOK, KeysGiven, Working
      <4>2. Unregister({key[t]})
        BY <3>2 DEF ResumeUnregister, Commit, Close
      <4> QED BY <2>1, <4>1, <4>2, UnregisterCount
    <3>3. CASE \/ RegisterMunge(t) \/ Begin(t) \/ RegisterLock(t) \/ RegisterPut(t)
               \/ RegisterClose(t) \/ RegisterReturn(t) \/ RevealCursor(t)
               \/ CancelMakeVault(t) \/ ResumeAdvance(t)
      BY <2>2, <3>3 DEF RegisterMunge, Begin, RegisterLock, RegisterPut,
         RegisterClose, RegisterReturn, RevealCursor, CancelMakeVault,
         ResumeAdvance, table
    <3>4. CASE LockEnter(t) \/ LockClose(t) \/ Send(t) \/ VaultNext(t)
               \/ TimeoutDelete(t) \/ TimeoutGlobo(t)
      BY <2>2, <3>4 DEF LockEnter, LockClose, Send, VaultNext, TimeoutDelete,
         TimeoutGlobo, table
    <3> QED BY <2>3, <3>1, <3>2, <3>3, <3>4 DEF Step
  <2>4. CASE StartSending \/ Purger \/ UNCHANGED vars
    BY <2>2, <2>4 DEF StartSending, Purger, PurgeLock, PurgeAsk, PurgeUnlink,
       PurgeTimeout, PurgeUnlock, vars, table
  <2>5. CASE LeaseStep
    <3>1. CASE UNCHANGED table
      BY <2>2, <3>1 DEF table
    <3>2. ASSUME NEW K \in SUBSET leases, Unregister(K) PROVE CountExact'
      <4>1. K \in SUBSET Key
        BY <2>1 DEF TableType
      <4> QED BY <2>1, <3>2, <4>1, UnregisterCount
    <3> QED BY <2>5, <3>1, <3>2, LeaseStepKinds DEF TypeOK, Types
  <2>6. ASSUME NEW f \in Path, UnregisterMunge(f) PROVE CountExact'
    <3>1. {amb[f]} \in SUBSET Key
      BY <2>1, <2>6 DEF UnregisterMunge, TableType
    <3>2. Unregister({amb[f]})
      BY <2>6 DEF UnregisterMunge
    <3> QED BY <2>1, <3>1, <3>2, UnregisterCount
  <2> QED BY <2>3, <2>4, <2>5, <2>6 DEF Next, LeaseStep
<1> QED BY <1>1, <1>2, RegistrationsTyped, PTL DEF Spec

----------------------------------------------------------------------------
(* The commit of a vault.  register returns a field that another thread may  *)
(* have counted up since (RegisterReturn), so that a sibling may be given    *)
(* the key of someone else.  The theorems below are about a site where no    *)
(* resumed vault registers meanwhile and no lease expires under a thread     *)
(* that works; munge threads may register at any time, and every sender may  *)
(* be canceled or wait in vain for a lock.                                   *)

(* A sibling is being registered, or waits for the others to be; it sends.   *)
Registering == {"register", "put", "close", "return", "reveal"}
Before == Registering \cup {"idle", "registered"}
Live   == {"next", "lock", "lockPut", "lockClose", "send", "commit", "abort"}
Begun  == Live \cup {"done"}

ParentOf(s) == IF s = Parent THEN -1 ELSE key[Parent]

(* The key of a sibling is that of its own registration, and no sibling that *)
(* has one shares it.                                                        *)
Own(s) == /\ key[s] \in Key /\ HasCursor(key[s])
          /\ members[key[s]].parent = ParentOf(s)
          /\ \A u \in Sender \ {s} :
                pc[u] \in Live \cup {"registered"} => key[u] # key[s]

(* Keys are used once; a munge has no parent and its key no cursor, since    *)
(* registerMunge keeps globoLock until it has read its key.                  *)
KeyInv ==
    /\ \A k \in Key : k > myKey => members[k].kind = "none" /\ k \notin leases
    /\ \A t \in Thread : key[t] <= myKey
    /\ \A f \in Path : amb[f] <= myKey
    /\ \A k \in Key : members[k].kind = "munge" => members[k].parent = -1
MungeInv ==
    /\ \A m \in Munger :
          /\ pc[m] \in {"register", "put", "close", "return"} => globo = m
          /\ pc[m] \in {"close", "return"} => ~HasCursor(myKey)
          /\ key[m] \in Key => ~HasCursor(key[m])
    /\ \A f \in Path : amb[f] \in Key => ~HasCursor(amb[f])

(* A munge thread has no vault to abort, a sibling no file to resume.        *)
OwnSteps == /\ \A m \in Munger : pc[m] # "abort"
            /\ \A s \in Sender : pc[s] \notin {"advance", "unregister"}

(* v is the registration a sibling has made and not yet been told of.        *)
Latest(v) == HasCursor(v) /\ \A w \in Key : HasCursor(w) => w <= v
Made(s, v) == /\ Latest(v) /\ v \notin leases
              /\ members[v].todo = Delta[s] /\ members[v].parent = ParentOf(s)
              /\ \A u \in Sender \ {s} : pc[u] = "registered" => key[u] # v

(* makeVault registers one sibling after the other, the parent first; who is *)
(* told of a key with a cursor has its own, for no one but a sibling         *)
(* registers a cursor.                                                       *)
OneByOne == \A s, u \in Sender :
    /\ s # u /\ pc[s] \in Registering => pc[u] \in {"idle", "registered", "failed"}
    /\ u # Parent /\ pc[u] # "idle"
       => pc[Parent] \in Begun \cup {"registered", "failed"}
    /\ pc[s] \in Begun => pc[u] \notin Before
OwnKeys == \A s \in Sender :
    /\ pc[s] \in {"close", "return"} => \E v \in Key : Made(s, v)
    /\ \/ pc[s] = "reveal" /\ HasCursor(key[s])
       \/ pc[s] = "registered"
       => Own(s) /\ members[key[s]].todo = Delta[s]
    /\ pc[s] \in Live => Own(s)

(* Every cursor at the site belongs to a sibling.                            *)
Whose(v) == \E s \in Sender :
    \/ pc[s] = "registered" /\ key[s] = v
    \/ pc[s] \in {"close", "return"} /\ Latest(v)
    \/ pc[s] = "reveal" /\ (HasCursor(key[s]) => key[s] = v)
Covered ==
    /\ (\A s \in Sender : pc[s] \in Before)
       => \A v \in Key : HasCursor(v) => Whose(v)
    /\ (\E u \in Sender : pc[u] \in Begun)
       => \A v \in Key : HasCursor(v) =>
             \E s \in Sender : key[s] = v /\ pc[s] \in Live \cup {"failed"}

(* What a sibling has not sent it still has to take, or has at hand.  One    *)
(* that fails aborts the vault, unless it had sent everything and only the   *)
(* wait for globoLock at its commit was in vain.                             *)
AtHand(s) == IF pc[s] \in {"lock", "lockPut", "lockClose", "send"}
             THEN {cur[s]} ELSE {}
Progress ==
    /\ \A s \in Sender :
          /\ pc[s] \in Before => sent[s] = {}
          /\ pc[s] \in Live \ {"abort"}
             => Delta[s] = sent[s] \cup members[key[s]].todo \cup AtHand(s)
          /\ pc[s] \in {"commit", "done"} => sent[s] = Delta[s]
          /\ pc[s] = "done" => key[s] \in Key /\ members[key[s]].kind = "none"
    /\ \A s, u \in Sender : pc[u] \in Begun /\ pc[s] = "failed"
                            => aborted[Parent] \/ sent[s] = Delta[s]
    /\ \A u \in Sender : aborted[u] => \E s \in Sender : pc[s] = "failed"

Committed ==
    /\ \/ commits = 0
       \/ commits = 1 /\ \A s \in Sender : /\ pc[s] \in {"done", "failed"}
                                           /\ sent[s] = Delta[s]
    /\ LastCommits

BatchInv == /\ KeyInv /\ MungeInv /\ OwnSteps
            /\ OneByOne /\ OwnKeys /\ Covered /\ Progress /\ Committed

(* No two keys are swapped, and none is taken from a thread that works.      *)
NoRace == Resumer = {} /\ "expire" \notin Faults

LEMMA KeyOrder == /\ \A k \in Key : k \in Int /\ k > 0
                  /\ \A k \in Key \cup {0} : k \in Int /\ k >= 0
                  /\ \A k \in Key \cup {0} : k < MaxKey => k + 1 \in Key
  BY VaultManagerAssumption DEF Key

(* unregister takes registrations away and adds none.                        *)
LEMMA UnregisterKeys ==
    ASSUME TypeOK, KeyInv, NEW K \in SUBSET Key, Unregister(K), key' = key
    PROVE KeyInv'
<1> USE DEF TypeOK, Types, TableType
<1>1. \A k \in Key : members'[k] = NoMember \/ members'[k] = members[k]
  BY DEF Unregister
<1>2. \A f \in Path : amb'[f] = 0 \/ amb'[f] = amb[f]
  BY DEF Unregister
<1>3. leases' \subseteq leases /\ myKey' = myKey /\ myKey >= 0
  BY KeyOrder DEF Unregister
<1> QED BY <1>1, <1>2, <1>3 DEF KeyInv, NoMember

LEMMA KeyStep == TypeOK /\ KeyInv /\ [Next]_vars => KeyInv'
<1> SUFFICES ASSUME TypeOK, KeyInv, [Next]_vars PROVE KeyInv'
  OBVIOUS
<1> USE DEF TypeOK, Types, TableType, LocalType
<1>1. ASSUME UNCHANGED <<myKey, members, leases, amb>>,
             \A t \in Thread : key'[t] <= myKey
      PROVE KeyInv'
  BY <1>1 DEF KeyInv
<1>2. ASSUME UNCHANGED <<myKey, members, leases, amb, key>> PROVE KeyInv'
  BY <1>2 DEF KeyInv
<1>3. ASSUME NEW t \in Thread, Step(t) PROVE KeyInv'
  <2>1. CASE RegisterMunge(t)
    <3>1. \A u \in Thread : key'[u] = key[u] \/ key'[u] = amb[PathOf[t]]
      BY <2>1 DEF RegisterMunge
    <3>2. PathOf[t] \in Path
      BY <2>1, VaultManagerAssumption DEF RegisterMunge
    <3>3. \A u \in Thread : key'[u] <= myKey
      BY <3>1, <3>2 DEF KeyInv
    <3> QED BY <1>1, <2>1, <3>3 DEF RegisterMunge, table
  <2>2. CASE RegisterPut(t)
    <3>1. /\ myKey' = myKey + 1 /\ myKey' \in Key /\ UNCHANGED <<key, leases, amb>>
          /\ \A k \in Key \ {myKey'} : members'[k] = members[k]
          /\ members'[myKey'].kind = "munge" => members'[myKey'].parent = -1
      <4>1. myKey' \in Key
        BY <2>2, KeyOrder DEF RegisterPut
      <4>2. t \in Munger => t \notin Sender
        BY VaultManagerAssumption
      <4> QED BY <2>2, <4>1, <4>2 DEF RegisterPut
    <3>2. \A k \in Key : k > myKey' => k > myKey /\ k # myKey'
      BY <3>1, KeyOrder
    <3>3. ASSUME NEW j \in Key \cup {0}, j <= myKey PROVE j <= myKey'
      BY <3>1, <3>3, KeyOrder
    <3>4. \A u \in Thread : key[u] <= myKey'
      BY <3>3 DEF KeyInv
    <3>5. \A f \in Path : amb[f] <= myKey'
      BY <3>3 DEF KeyInv
    <3> QED BY <3>1, <3>2, <3>4, <3>5 DEF KeyInv
  <2>3. CASE RegisterReturn(t)
    <3>1. UNCHANGED <<myKey, members, leases>>
      BY <2>3 DEF RegisterReturn
    <3>2. \A u \in Thread : key'[u] = key[u] \/ key'[u] = myKey
      BY <2>3 DEF RegisterReturn
    <3>3. \A f \in Path : amb'[f] = amb[f] \/ amb'[f] = myKey
      BY <2>3 DEF RegisterReturn
    <3>4. myKey \in Int
      BY KeyOrder
    <3> QED BY <3>1, <3>2, <3>3, <3>4 DEF KeyInv
  <2>4. CASE ResumeAdvance(t) \/ VaultNext(t)
    <3>1. \A k \in Key : /\ members'[k].kind = members[k].kind
                         /\ members'[k].parent = members[k].parent
      BY <2>4 DEF ResumeAdvance, VaultNext, Member
    <3>2. UNCHANGED <<myKey, leases, amb, key>>
      BY <2>4 DEF ResumeAdvance, VaultNext
    <3> QED BY <3>1, <3>2 DEF KeyInv
  <2>5. CASE ResumeUnregister(t) \/ Commit(t) \/ Close(t)
    <3>1. key[t] \in Key
      BY <2>5 DEF ResumeUnregister, Commit, Close, At, KeysGiven, Working
    <3>2. Unregister({key[t]}) /\ key' = key
      BY <2>5 DEF ResumeUnregister, Commit, Close, local
    <3> QED BY <3>1, <3>2, UnregisterKeys
  <2>6. CASE LockPut(t)
    <3>1. leases' = leases \cup {key[t]} /\ UNCHANGED <<myKey, members, amb, key>>
      BY <2>6 DEF LockPut
    <3>2. \A k \in Key : k > myKey => k # key[t]
      BY KeyOrder DEF KeyInv
    <3> QED BY <3>1, <3>2 DEF KeyInv
  <2>7. CASE \/ Begin(t) \/ RegisterLock(t) \/ RegisterClose(t) \/ RevealCursor(t)
             \/ CancelMakeVault(t) \/ LockEnter(t) \/ LockClose(t) \/ Send(t)
             \/ TimeoutDelete(t) \/ TimeoutGlobo(t)
    BY <1>2, <2>7 DEF Begin, RegisterLock, RegisterClose, RevealCursor,
       CancelMakeVault, LockEnter, LockClose, Send, TimeoutDelete, TimeoutGlobo,
       table
  <2> QED BY <1>3, <2>1, <2>2, <2>3, <2>4, <2>5, <2>6, <2>7 DEF Step
<1>4. CASE StartSending \/ Purger \/ UNCHANGED vars
  BY <1>2, <1>4 DEF StartSending, Purger, PurgeLock, PurgeAsk, PurgeUnlink,
     PurgeTimeout, PurgeUnlock, vars, table, local
<1>5. CASE LeaseStep
  <2>1. /\ UNCHANGED local
        /\ UNCHANGED table \/ \E K \in SUBSET leases : Unregister(K)
    BY <1>5, LeaseStepKinds DEF TypeOK, Types
  <2>2. leases \subseteq Key /\ key' = key
    BY <2>1 DEF local, TypeOK, Types, TableType
  <2>3. CASE UNCHANGED table
    BY <1>2, <2>1, <2>3 DEF table, local
  <2>4. ASSUME NEW K \in SUBSET leases, Unregister(K) PROVE KeyInv'
    <3>1. K \in SUBSET Key
      BY <2>2
    <3> QED BY <2>2, <2>4, <3>1, UnregisterKeys
  <2> QED BY <2>1, <2>3, <2>4
<1>6. ASSUME NEW f \in Path, UnregisterMunge(f) PROVE KeyInv'
  <2>1. {amb[f]} \in SUBSET Key /\ Unregister({amb[f]}) /\ key' = key
    BY <1>6 DEF UnregisterMunge, local
  <2> QED BY <2>1, UnregisterKeys
<1> QED BY <1>3, <1>4, <1>5, <1>6 DEF Next, LeaseStep

(* Who has a cursor: register gives one to a sibling, unregister takes it.   *)
LEMMA UnregisterCursor ==
    ASSUME NEW K \in SUBSET Key, Unregister(K)
    PROVE  \A k \in Key : /\ k \in K => members'[k] = NoMember /\ ~HasCursor(k)'
                          /\ k \notin K => members'[k] = members[k]
  BY DEF Unregister, HasCursor, NoMember

(* A munge's key is never that of a sibling, under whichever key the blocks  *)
(* of its file are locked.                                                   *)
LEMMA MungeStep ==
    ASSUME NoRace, TypeOK, KeyInv, MungeInv, [Next]_vars
    PROVE  MungeInv'
<1>t. /\ pc \in [Thread -> Pc] /\ key \in [Thread -> Key \cup {0}]
      /\ members \in [Key -> Member] /\ amb \in [Path -> Key \cup {0}]
      /\ myKey \in Key \cup {0} /\ leases \in SUBSET Key
      /\ globo \in Munger \cup {None}
  BY DEF TypeOK, Types, TableType, LocalType
<1>0. /\ \A m \in Munger : m \notin Sender /\ m \notin Resumer
      /\ Thread = Munger \cup Sender /\ None \notin Thread /\ Resumer = {}
  BY VaultManagerAssumption DEF NoRace, Thread
<1> DEFINE Inside == {"register", "put", "close", "return"}
<1>1. ASSUME UNCHANGED <<globo, myKey, amb>>,
             \A k \in Key : HasCursor(k)' => HasCursor(k),
             \A m \in Munger : /\ pc'[m] \in Inside => pc[m] \in Inside
                               /\ pc'[m] \in {"close", "return"}
                                  => pc[m] \in {"close", "return"}
                               /\ key'[m] = key[m],
             \A m \in Munger : pc'[m] \in {"close", "return"} => myKey \in Key
      PROVE  MungeInv'
  BY <1>t, <1>1 DEF MungeInv
<1>2. \A m \in Munger : pc[m] \in {"close", "return"} => myKey \in Key
  BY <1>0 DEF TypeOK, KeysGiven
<1>3. ASSUME NEW K \in SUBSET Key, Unregister(K), UNCHANGED <<locks, local>>
      PROVE  MungeInv'
  <2>1. \A k \in Key : HasCursor(k)' => HasCursor(k)
    BY <1>t, <1>3, UnregisterCursor DEF HasCursor
  <2>2. \A f \in Path : amb'[f] = amb[f] \/ amb'[f] \notin Key
    BY <1>t, <1>3, KeyOrder DEF Unregister
  <2>3. UNCHANGED <<globo, myKey, pc, key>>
    BY <1>t, <1>3 DEF Unregister, locks, local
  <2> QED BY <1>t, <1>2, <2>1, <2>2, <2>3 DEF MungeInv
<1>4. ASSUME NEW s \in Sender, Step(s) PROVE MungeInv'
  <2>0. s \notin Munger /\ s \notin Resumer /\ s \in Thread
    BY <1>t, <1>0, <1>4
  <2>1. CASE RegisterPut(s)
    <3>1. globo = None
      BY <1>t, <1>0, <2>0, <2>1 DEF RegisterPut, GloboFree
    <3>2. \A m \in Munger : pc[m] \notin Inside
      BY <1>t, <1>0, <3>1 DEF MungeInv
    <3>3. \A m \in Munger : pc'[m] = pc[m] /\ key'[m] = key[m] /\ key[m] <= myKey
      BY <1>t, <1>0, <2>0, <2>1 DEF RegisterPut, Goto, KeyInv
    <3>4. /\ myKey' = myKey + 1 /\ amb' = amb
          /\ \A k \in Key : k # myKey + 1 => members'[k] = members[k]
      BY <1>t, <2>1 DEF RegisterPut
    <3>5. \A k \in Key \cup {0} : k <= myKey => k # myKey + 1
      BY <1>t, KeyOrder
    <3>6. \A m \in Munger : key'[m] \in Key => ~HasCursor(key[m])'
      BY <1>t, <1>0, <3>3, <3>4, <3>5 DEF MungeInv, HasCursor
    <3>7. \A f \in Path : amb'[f] \in Key => ~HasCursor(amb[f])'
      BY <1>t, <3>4, <3>5 DEF MungeInv, HasCursor, KeyInv
    <3> QED BY <1>t, <3>2, <3>3, <3>4, <3>6, <3>7 DEF MungeInv, HasCursor
  <2>2. CASE Commit(s) \/ Close(s)
    <3>1. key[s] \in Key
      BY <1>t, <1>0, <2>0, <2>2 DEF Commit, Close, At, TypeOK, KeysGiven, Working
    <3>2. Unregister({key[s]}) /\ globo' = globo /\ key' = key
      BY <1>t, <2>2 DEF Commit, Close, locks
    <3>3. \A k \in Key : HasCursor(k)' => HasCursor(k)
      BY <1>t, <3>1, <3>2, UnregisterCursor DEF HasCursor
    <3>4. \A m \in Munger : pc'[m] = pc[m]
      BY <1>t, <1>0, <2>0, <2>2 DEF Commit, Close, Goto
    <3>5. \A f \in Path : amb'[f] = amb[f] \/ amb'[f] \notin Key
      BY <1>t, <3>2, KeyOrder DEF Unregister
    <3>6. myKey' = myKey
      BY <1>t, <3>2 DEF Unregister
    <3> QED BY <1>t, <1>2, <3>2, <3>3, <3>4, <3>5, <3>6 DEF MungeInv
  <2>3. CASE VaultNext(s)
    <3>1. \A k \in Key : members'[k].kind = members[k].kind
      <4>1. CASE members' = members
        BY <4>1
      <4>2. ASSUME NEW p, members' = [members EXCEPT ![key[s]].todo = @ \ {p}]
            PROVE  \A k \in Key : members'[k].kind = members[k].kind
        BY <1>t, <4>2 DEF Member
      <4> QED BY <2>3, <4>1, <4>2 DEF VaultNext
    <3> QED BY <1>t, <1>0, <1>1, <1>2, <2>0, <2>3, <3>1 DEF VaultNext, HasCursor, Goto, locks
  <2>4. CASE RegisterReturn(s)
    BY <1>t, <1>0, <1>1, <1>2, <2>0, <2>4 DEF RegisterReturn, HasCursor, Goto
  <2>5. CASE TimeoutDelete(s) \/ TimeoutGlobo(s)
    <3>1. globo' = globo
      BY <1>t, <1>0, <2>0, <2>5 DEF TimeoutDelete, TimeoutGlobo
    <3> QED BY <1>t, <1>0, <1>1, <1>2, <2>0, <2>5, <3>1
        DEF TimeoutDelete, TimeoutGlobo, HasCursor, Goto, table
  <2>6. CASE \/ Begin(s) \/ RegisterLock(s) \/ RegisterClose(s)
             \/ RevealCursor(s) \/ CancelMakeVault(s)
             \/ LockEnter(s) \/ LockPut(s) \/ LockClose(s) \/ Send(s)
    <3>1. UNCHANGED <<globo, myKey, amb, members, key>>
      BY <1>t, <2>6 DEF Begin, RegisterLock, RegisterClose, RevealCursor,
         CancelMakeVault, LockEnter, LockPut, LockClose, Send, table, locks
    <3>2. \A m \in Munger : pc'[m] = pc[m]
      BY <1>t, <1>0, <2>0, <2>6 DEF Begin, RegisterLock, RegisterClose, RevealCursor,
         CancelMakeVault, LockEnter, LockPut, LockClose, Send, Goto
    <3> QED BY <1>t, <1>1, <1>2, <3>1, <3>2 DEF HasCursor
  <2>7. ~RegisterMunge(s) /\ ~ResumeAdvance(s) /\ ~ResumeUnregister(s)
    BY <1>t, <1>0, <2>0 DEF RegisterMunge, ResumeAdvance, ResumeUnregister
  <2> QED BY <1>t, <1>4, <2>1, <2>2, <2>3, <2>4, <2>5, <2>6, <2>7 DEF Step
<1>5. ASSUME NEW m \in Munger, Step(m) PROVE MungeInv'
  <2>0. m \notin Sender /\ m \notin Resumer /\ m \in Thread
    BY <1>t, <1>0
  <2>1. CASE RegisterMunge(m)
    <3>1. PathOf[m] \in Path /\ key'[m] \in {key[m], amb[PathOf[m]]}
      BY <1>t, <2>1, VaultManagerAssumption DEF RegisterMunge
    <3>2. \A n \in Munger \ {m} : pc'[n] = pc[n] /\ key'[n] = key[n]
      BY <1>t, <1>0, <2>0, <2>1 DEF RegisterMunge, Goto
    <3>3. UNCHANGED <<myKey, amb, members>>
      BY <1>t, <2>1 DEF RegisterMunge, table
    <3>4. \/ pc'[m] = "lock" /\ globo' = globo
          \/ pc'[m] = "register" /\ globo' = m
      BY <1>t, <1>0, <2>0, <2>1 DEF RegisterMunge, Goto
    <3>5. \A n \in Munger : pc[n] \in Inside /\ n # m => globo' = n
      BY <1>t, <1>0, <2>1, <3>4 DEF RegisterMunge, MungeInv, GloboFree
    <3>6. key'[m] \in Key => ~HasCursor(key'[m])
      BY <1>t, <3>1 DEF MungeInv
    <3> QED BY <1>t, <3>2, <3>3, <3>4, <3>5, <3>6 DEF MungeInv, HasCursor
  <2>2. CASE RegisterPut(m)
    <3>1. globo = m /\ \A n \in Munger \ {m} : pc[n] \notin Inside
      BY <1>t, <2>2 DEF RegisterPut, At, MungeInv
    <3>2. \A n \in Munger \ {m} : pc'[n] = pc[n]
      BY <1>t, <1>0, <2>0, <2>2 DEF RegisterPut, Goto
    <3>3. /\ myKey' = myKey + 1 /\ amb' = amb /\ key' = key /\ globo' = globo
          /\ \A k \in Key : k # myKey + 1 => members'[k] = members[k]
      BY <1>t, <2>2 DEF RegisterPut, locks
    <3>4. myKey' \in Key
      BY <1>t, <2>2, KeyOrder DEF RegisterPut
    <3>5. members'[myKey'].kind = "munge"
      BY <1>t, <2>2, <3>4 DEF RegisterPut
    <3>6. \A k \in Key : HasCursor(k)' => HasCursor(k)
      BY <3>3, <3>5 DEF HasCursor
    <3>7. ~HasCursor(myKey)'
      BY <3>5 DEF HasCursor
    <3>8. \A n \in Munger : key'[n] \in Key => ~HasCursor(key[n])'
      BY <3>3, <3>6 DEF MungeInv, HasCursor
    <3>9. \A f \in Path : amb'[f] \in Key => ~HasCursor(amb[f])'
      BY <3>3, <3>6 DEF MungeInv, HasCursor
    <3> QED BY <3>1, <3>2, <3>3, <3>7, <3>8, <3>9 DEF MungeInv
  <2>3. CASE RegisterReturn(m)
    <3>1. globo = m /\ \A n \in Munger \ {m} : pc[n] \notin Inside
      BY <1>t, <2>3 DEF RegisterReturn, At, MungeInv
    <3>2. /\ pc'[m] = "lock" /\ UNCHANGED <<myKey, members>>
          /\ \A n \in Munger \ {m} : pc'[n] = pc[n]
      BY <1>t, <1>0, <2>0, <2>3 DEF RegisterReturn, Goto
    <3>3. \A n \in Munger : key'[n] = key[n] \/ key'[n] = myKey
      BY <1>t, <2>3 DEF RegisterReturn
    <3>4. \A f \in Path : amb'[f] = amb[f] \/ amb'[f] = myKey
      BY <1>t, <2>3 DEF RegisterReturn
    <3>5. ~HasCursor(myKey)
      BY <1>t, <2>3 DEF RegisterReturn, At, MungeInv
    <3> QED BY <1>t, <3>1, <3>2, <3>3, <3>4, <3>5 DEF MungeInv, HasCursor
  <2>4. CASE TimeoutDelete(m) \/ TimeoutGlobo(m)
    <3>1. /\ pc'[m] = "idle" /\ UNCHANGED <<myKey, members, amb, key>>
          /\ \A n \in Munger \ {m} : pc'[n] = pc[n]
      BY <1>t, <1>0, <2>0, <2>4 DEF TimeoutDelete, TimeoutGlobo, Goto, table
    <3>2. \A n \in Munger \ {m} : globo = n => globo' = n
      BY <1>t, <2>4 DEF TimeoutDelete, TimeoutGlobo
    <3> QED BY <1>t, <3>1, <3>2 DEF MungeInv, HasCursor
  <2>5. CASE RegisterLock(m) \/ RegisterClose(m)
    <3>1. UNCHANGED <<globo, myKey, amb, members, key>>
      BY <1>t, <2>5 DEF RegisterLock, RegisterClose, table, locks
    <3>2. \A n \in Munger : /\ pc'[n] \in Inside => pc[n] \in Inside
                            /\ pc'[n] \in {"close", "return"}
                               => pc[n] \in {"close", "return"}
      BY <1>t, <1>0, <2>0, <2>5 DEF RegisterLock, RegisterClose, Goto, At
    <3> QED BY <1>t, <1>1, <1>2, <3>1, <3>2 DEF HasCursor
  <2>6. CASE LockEnter(m) \/ LockPut(m) \/ LockClose(m) \/ Send(m)
    <3>1. UNCHANGED <<globo, myKey, amb, members, key>>
      BY <1>t, <2>6 DEF LockEnter, LockPut, LockClose, Send, table, locks
    <3>2. /\ pc'[m] \notin Inside
          /\ \A n \in Munger \ {m} : pc'[n] = pc[n]
      BY <1>t, <1>0, <2>0, <2>6 DEF LockEnter, LockPut, LockClose, Send, Goto
    <3> QED BY <1>t, <1>1, <1>2, <3>1, <3>2 DEF HasCursor
  <2>7. /\ ~Begin(m) /\ ~RevealCursor(m) /\ ~CancelMakeVault(m)
        /\ ~ResumeAdvance(m) /\ ~ResumeUnregister(m)
        /\ ~VaultNext(m) /\ ~Commit(m) /\ ~Close(m)
    BY <1>t, <1>0, <2>0 DEF Begin, RevealCursor, CancelMakeVault, ResumeAdvance,
       ResumeUnregister, VaultNext, Commit, Close
  <2> QED BY <1>t, <1>5, <2>1, <2>2, <2>3, <2>4, <2>5, <2>6, <2>7 DEF Step
<1>6. CASE StartSending
  <2>1. UNCHANGED <<globo, myKey, amb, members, key>>
    BY <1>t, <1>6 DEF StartSending, table, locks
  <2>2. \A m \in Munger : pc'[m] = pc[m]
    BY <1>t, <1>0, <1>6 DEF StartSending
  <2> QED BY <1>t, <1>1, <1>2, <2>1, <2>2 DEF HasCursor
<1>7. CASE Purger \/ UNCHANGED vars
  <2>1. UNCHANGED <<globo, myKey, amb, members, key, pc>>
    BY <1>t, <1>7 DEF Purger, PurgeLock, PurgeAsk, PurgeUnlink, PurgeTimeout,
       PurgeUnlock, vars, table, locks, local
  <2> QED BY <1>t, <1>1, <1>2, <2>1 DEF HasCursor
<1>8. CASE LeaseStep
  <2>1. /\ UNCHANGED <<locks, local, vault>>
        /\ UNCHANGED table \/ \E K \in SUBSET leases : Unregister(K)
    BY <1>t, <1>8, LeaseStepKinds DEF TypeOK, Types
  <2>2. CASE UNCHANGED table
    <3>1. UNCHANGED <<globo, myKey, amb, members, key, pc>>
      BY <2>1, <2>2 DEF table, locks, local
    <3> QED BY <1>t, <1>1, <1>2, <3>1 DEF HasCursor
  <2>3. ASSUME NEW K \in SUBSET leases, Unregister(K) PROVE MungeInv'
    BY <1>t, <1>3, <2>1, <2>3
  <2> QED BY <2>1, <2>2, <2>3
<1>9. ASSUME NEW f \in Path, UnregisterMunge(f) PROVE MungeInv'
  <2>1. {amb[f]} \in SUBSET Key /\ Unregister({amb[f]})
    BY <1>t, <1>9 DEF UnregisterMunge
  <2> QED BY <1>t, <1>3, <1>9, <2>1 DEF UnregisterMunge
<1> QED BY <1>t, <1>0, <1>4, <1>5, <1>6, <1>7, <1>8, <1>9 DEF Next, LeaseStep

LEMMA Shapes ==
    ASSUME TypeOK
    PROVE  /\ pc \in [Thread -> Pc] /\ key \in [Thread -> Key \cup {0}]
           /\ cur \in [Thread -> Prints \cup {None}]
           /\ members \in [Key -> Member] /\ myKey \in Key \cup {0}
           /\ leases \in SUBSET Key /\ sent \in [Sender -> SUBSET Prints]
           /\ aborted \in [Sender -> BOOLEAN] /\ commits \in Nat
           /\ errors \in BOOLEAN
  BY DEF TypeOK, Types, TableType, LocalType

LEMMA Roles ==
    ASSUME NoRace
    PROVE  /\ Thread = Munger \cup Sender /\ Resumer = {} /\ None \notin Thread
           /\ \A m \in Munger : m \notin Sender
           /\ Parent \in Sender \/ Sender = {}
           /\ Delta \in [Munger \cup Sender -> SUBSET Prints]
  BY VaultManagerAssumption DEF NoRace, Thread

(* What the steps of a sibling are, and what every other step leaves of its  *)
(* vault: a cursor is taken away only from a key with a lease that no        *)
(* sibling works with.                                                       *)
Sibling(s) ==
    \/ Begin(s) \/ RegisterLock(s) \/ RegisterPut(s) \/ RegisterClose(s)
    \/ RegisterReturn(s) \/ RevealCursor(s) \/ CancelMakeVault(s)
    \/ LockEnter(s) \/ LockPut(s) \/ LockClose(s) \/ Send(s)
    \/ VaultNext(s) \/ Commit(s) \/ Close(s)
    \/ TimeoutDelete(s) \/ TimeoutGlobo(s)
Works(k) == \E s \in Sender : key[s] = k /\ pc[s] \notin {"idle", "done", "failed"}
Aside ==
    /\ \A s \in Sender : pc'[s] = pc[s] /\ key'[s] = key[s] /\ cur'[s] = cur[s]
    /\ UNCHANGED <<sent, aborted, commits>>
    /\ \A k \in Key :
          /\ HasCursor(k)' => members'[k] = members[k]
          /\ HasCursor(k) /\ (k \notin leases \/ Works(k)) => members'[k] = members[k]
          /\ k \in leases' /\ k \notin leases => ~HasCursor(k)
          /\ k <= myKey /\ members[k].kind = "none" => members'[k].kind = "none"

LEMMA OwnStepsStep ==
    ASSUME NoRace, TypeOK, OwnSteps, [Next]_vars
    PROVE  OwnSteps'
<1> DEFINE Alien(t) == \/ t \in Munger /\ pc[t] = "abort"
                       \/ t \in Sender /\ pc[t] \in {"advance", "unregister"}
<1> SUFFICES ASSUME NEW u \in Thread PROVE ~Alien(u)'
  BY Roles DEF OwnSteps
<1>0. ~Alien(u) /\ u \notin Resumer /\ (u \in Munger => u \notin Sender)
  BY Roles DEF OwnSteps
<1>1. ASSUME NEW t \in Thread, Step(t) PROVE ~Alien(u)'
  <2>1. CASE u = t
    BY <1>0, <1>1, <2>1, Shapes DEF Step, RegisterMunge, Begin, RegisterLock,
       RegisterPut, RegisterClose, RegisterReturn, RevealCursor,
       CancelMakeVault, ResumeAdvance, ResumeUnregister, LockEnter, LockPut,
       LockClose, Send, VaultNext, Commit, Close, TimeoutDelete, TimeoutGlobo,
       Goto
  <2>2. CASE u # t
    <3>1. pc'[u] = pc[u]
      BY <1>1, <2>2, Shapes DEF Step, RegisterMunge, Begin, RegisterLock,
         RegisterPut, RegisterClose, RegisterReturn, RevealCursor,
         CancelMakeVault, ResumeAdvance, ResumeUnregister, LockEnter, LockPut,
         LockClose, Send, VaultNext, Commit, Close, TimeoutDelete, TimeoutGlobo,
         Goto
    <3> QED BY <1>0, <3>1
  <2> QED BY <2>1, <2>2
<1>2. CASE StartSending
  BY <1>0, <1>2 DEF StartSending
<1>3. CASE \/ LeaseStep \/ Purger \/ UNCHANGED vars
           \/ \E f \in Path : UnregisterMunge(f)
  BY <1>0, <1>3 DEF LeaseStep, CheckForIdleRegisters, IdleCheckThrows,
     forceUnregisterAll, Purger, PurgeLock, PurgeAsk, PurgeUnlink, PurgeTimeout,
     PurgeUnlock, UnregisterMunge, vars, local
<1> QED BY <1>1, <1>2, <1>3 DEF Next, LeaseStep

LEMMA AsideUnregister ==
    ASSUME NEW K \in SUBSET Key, Unregister(K), UNCHANGED <<local, vault>>,
           \A k \in K : HasCursor(k) => k \in leases /\ ~Works(k)
    PROVE  Aside
<1>1. \A k \in Key : /\ k \in K => members'[k].kind = "none" /\ ~HasCursor(k)'
                     /\ k \notin K => members'[k] = members[k]
  BY UnregisterCursor DEF NoMember
<1>2. leases' \subseteq leases
  BY DEF Unregister
<1> QED BY <1>1, <1>2 DEF Aside, local, vault

LEMMA AsideMunge ==
    ASSUME NoRace, TypeOK, KeyInv, MungeInv, OwnSteps, NEW m \in Munger, Step(m)
    PROVE  Aside
<1>0. m \in Thread /\ m \notin Sender /\ m \notin Resumer /\ \A s \in Sender : s \in Thread
  BY Roles
<1>1. ASSUME \A t \in Thread \ {m} : pc'[t] = pc[t] /\ key'[t] = key[t] /\ cur'[t] = cur[t],
             UNCHANGED <<sent, aborted, commits, members>>,
             leases' = leases \/ (key[m] \in Key /\ leases' = leases \cup {key[m]})
      PROVE  Aside
  BY <1>0, <1>1 DEF Aside, HasCursor, MungeInv
<1>2. CASE RegisterPut(m)
  <2>1. /\ myKey' = myKey + 1 /\ leases' = leases /\ UNCHANGED <<sent, aborted, commits>>
        /\ \A k \in Key : k # myKey + 1 => members'[k] = members[k]
    BY <1>2, Shapes DEF RegisterPut, vault
  <2>2. \A s \in Sender : pc'[s] = pc[s] /\ key'[s] = key[s] /\ cur'[s] = cur[s]
    BY <1>0, <1>2, Shapes DEF RegisterPut, Goto
  <2>3. myKey + 1 \in Key
    BY <1>2, Shapes, KeyOrder DEF RegisterPut
  <2>4. members'[myKey + 1].kind = "munge"
    BY <1>2, <2>3, Shapes DEF RegisterPut
  <2>5. members[myKey + 1].kind = "none" /\ myKey + 1 > myKey
    BY <2>3, Shapes, KeyOrder DEF KeyInv
  <2>6. ~(myKey + 1 <= myKey)
    BY Shapes, KeyOrder
  <2> QED BY <2>1, <2>2, <2>3, <2>4, <2>5, <2>6 DEF Aside, HasCursor
<1>3. CASE \/ RegisterMunge(m) \/ RegisterLock(m) \/ RegisterClose(m)
           \/ RegisterReturn(m) \/ LockEnter(m) \/ LockClose(m)
           \/ Send(m) \/ TimeoutDelete(m)
  <2>1. UNCHANGED <<sent, aborted, commits, members, leases>>
    BY <1>0, <1>3 DEF RegisterMunge, RegisterLock, RegisterClose, RegisterReturn,
       LockEnter, LockClose, Send, TimeoutDelete, table, vault
  <2>2. \A t \in Thread \ {m} : pc'[t] = pc[t] /\ key'[t] = key[t] /\ cur'[t] = cur[t]
    BY <1>0, <1>3, Shapes DEF RegisterMunge, RegisterLock, RegisterClose,
       RegisterReturn, LockEnter, LockClose, Send, TimeoutDelete, Goto
  <2> QED BY <1>1, <2>1, <2>2
<1>4. CASE LockPut(m)
  <2>1. key[m] \in Key
    BY <1>0, <1>4 DEF LockPut, At, TypeOK, KeysGiven, Working
  <2>2. UNCHANGED <<sent, aborted, commits, members>> /\ leases' = leases \cup {key[m]}
    BY <1>4 DEF LockPut, vault
  <2>3. \A t \in Thread \ {m} : pc'[t] = pc[t] /\ key'[t] = key[t] /\ cur'[t] = cur[t]
    BY <1>0, <1>4, Shapes DEF LockPut, Goto
  <2> QED BY <1>1, <2>1, <2>2, <2>3
<1>5. CASE TimeoutGlobo(m)
  <2>1. pc[m] # "abort"
    BY DEF OwnSteps
  <2>2. UNCHANGED <<sent, aborted, commits, members, leases>>
    BY <1>5, <2>1 DEF TimeoutGlobo, At, table
  <2>3. \A t \in Thread \ {m} : pc'[t] = pc[t] /\ key'[t] = key[t] /\ cur'[t] = cur[t]
    BY <1>0, <1>5, Shapes DEF TimeoutGlobo, Goto
  <2> QED BY <1>1, <2>2, <2>3
<1>6. /\ ~Begin(m) /\ ~RevealCursor(m) /\ ~CancelMakeVault(m)
      /\ ~ResumeAdvance(m) /\ ~ResumeUnregister(m)
      /\ ~VaultNext(m) /\ ~Commit(m) /\ ~Close(m)
  BY <1>0 DEF Begin, RevealCursor, CancelMakeVault, ResumeAdvance,
     ResumeUnregister, VaultNext, Commit, Close
<1> QED BY <1>2, <1>3, <1>4, <1>5, <1>6 DEF Step

LEMMA StepKinds ==
    ASSUME NoRace, TypeOK, KeyInv, MungeInv, OwnSteps, [Next]_vars
    PROVE  \/ \E s \in Sender : Sibling(s)
           \/ StartSending
           \/ Aside
<1>1. ASSUME NEW s \in Sender, Step(s) PROVE Sibling(s)
  <2>1. s \notin Munger /\ s \notin Resumer
    BY Roles
  <2> QED BY <1>1, <2>1 DEF Step, Sibling, RegisterMunge, ResumeAdvance,
      ResumeUnregister
<1>2. CASE Purger \/ UNCHANGED vars
  <2>1. UNCHANGED <<sent, aborted, commits, members, leases, pc, key, cur>>
    BY <1>2 DEF Purger, PurgeLock, PurgeAsk, PurgeUnlink, PurgeTimeout,
       PurgeUnlock, vars, table, local, vault
  <2> QED BY <2>1 DEF Aside, HasCursor
<1>3. CASE LeaseStep
  <2>1. /\ UNCHANGED <<local, vault>>
        /\ \/ UNCHANGED table
           \/ \E K \in SUBSET leases : Unregister(K) /\ \A k \in K : ~Busy(k)
    BY <1>3, LeaseStepKinds DEF NoRace, TypeOK, Types
  <2>2. CASE UNCHANGED table
    BY <2>1, <2>2 DEF Aside, HasCursor, table, local, vault
  <2>3. ASSUME NEW K \in SUBSET leases, Unregister(K), \A k \in K : ~Busy(k)
        PROVE  Aside
    <3>1. \A k \in K : ~Works(k)
      BY <2>3, Roles DEF Works, Busy
    <3>2. K \in SUBSET Key
      BY Shapes
    <3> QED BY <2>1, <2>3, <3>1, <3>2, AsideUnregister
  <2> QED BY <2>1, <2>2, <2>3
<1>4. ASSUME NEW f \in Path, UnregisterMunge(f) PROVE Aside
  <2>1. {amb[f]} \in SUBSET Key
    BY <1>4 DEF UnregisterMunge, TypeOK, Types, TableType
  <2>2. \A k \in {amb[f]} : ~HasCursor(k)
    BY <2>1 DEF MungeInv
  <2> QED BY <1>4, <2>1, <2>2, AsideUnregister DEF UnregisterMunge
<1>5. ASSUME NEW m \in Munger, Step(m) PROVE Aside
  BY <1>5, AsideMunge
<1> QED BY <1>1, <1>2, <1>3, <1>4, <1>5, Roles DEF Next, LeaseStep

(* Where a step of a sibling leads, and what it leaves of the others.        *)
LEMMA SiblingMoves ==
    ASSUME NoRace, TypeOK, OwnSteps, NEW s \in Sender, Sibling(s)
    PROVE  /\ \A u \in Sender \ {s} :
                 pc'[u] = pc[u] /\ key'[u] = key[u] /\ cur'[u] = cur[u]
           /\ pc[s] # "return" => key'[s] = key[s]
           /\ \/ /\ pc[s] = "idle" /\ pc'[s] = "register"
                 /\ \A u \in Sender : pc[u] \in {"idle", "registered"}
                 /\ s # Parent => pc[Parent] = "registered"
              \/ pc[s] \in Registering /\ pc'[s] \in Registering \cup {"registered", "failed"}
              \/ pc[s] = "registered" /\ pc'[s] = "failed"
              \/ pc[s] \in Live /\ pc'[s] \in Live \cup {"done", "failed"}
<1>0. s \in Thread /\ s \notin Munger /\ s \notin Resumer /\ \A u \in Sender : u \in Thread
  BY Roles
<1>1. CASE \/ Begin(s) \/ RegisterLock(s) \/ RegisterPut(s) \/ RegisterClose(s)
           \/ RegisterReturn(s) \/ RevealCursor(s) \/ CancelMakeVault(s)
  BY <1>0, <1>1, Shapes DEF Begin, RegisterLock, RegisterPut, RegisterClose,
     RegisterReturn, RevealCursor, CancelMakeVault, Goto, At, Registering
<1>2. CASE LockEnter(s) \/ LockPut(s) \/ LockClose(s) \/ Send(s)
  BY <1>0, <1>2, Shapes DEF LockEnter, LockPut, LockClose, Send, Goto, At, Live
<1>3. CASE Commit(s) \/ Close(s)
  BY <1>0, <1>3, Shapes DEF Commit, Close, Goto, At, Live
<1>4. CASE VaultNext(s)
  <2>1. pc' = [pc EXCEPT ![s] = "lock"] \/ pc' = [pc EXCEPT ![s] = "commit"]
        \/ pc' = [pc EXCEPT ![s] = "abort"]
    BY <1>4 DEF VaultNext, Goto
  <2>2. \A u \in Sender \ {s} : cur'[u] = cur[u]
    BY <1>0, <1>4, Shapes DEF VaultNext
  <2>3. key' = key /\ pc[s] = "next"
    BY <1>4 DEF VaultNext, At
  <2> QED BY <1>0, <2>1, <2>2, <2>3, Shapes DEF Live
<1>5. CASE TimeoutDelete(s) \/ TimeoutGlobo(s)
  <2>1. CASE TimeoutDelete(s)
    BY <1>0, <2>1, Shapes DEF TimeoutDelete, Goto, At, Live, Registering
  <2>2. CASE TimeoutGlobo(s)
    <3>1. pc' = [pc EXCEPT ![s] = IF pc[s] \in {"lockPut", "next"}
                                  THEN "abort" ELSE "failed"]
      BY <1>0, <2>2 DEF TimeoutGlobo, Goto
    <3>2. pc[s] \in {"put", "reveal", "advance", "unregister", "lockPut", "next",
                     "commit", "abort"} /\ key' = key /\ cur' = cur
      BY <2>2 DEF TimeoutGlobo
    <3>3. pc[s] \notin {"advance", "unregister"}
      BY DEF OwnSteps
    <3> QED BY <1>0, <3>1, <3>2, <3>3, Shapes DEF Live, Registering
  <2> QED BY <1>5, <2>1, <2>2
<1> QED BY <1>1, <1>2, <1>3, <1>4, <1>5 DEF Sibling

(* The parent's key does not change once a child is being registered.        *)
LEMMA ParentStable ==
    ASSUME NoRace, TypeOK, OwnSteps, OneByOne, NEW s \in Sender, Sibling(s)
    PROVE  \A u \in Sender : pc[u] # "idle" => ParentOf(u)' = ParentOf(u)
<1> SUFFICES ASSUME NEW u \in Sender, pc[u] # "idle", u # Parent
             PROVE  key'[Parent] = key[Parent]
  BY DEF ParentOf
<1>1. Parent \in Sender
  BY Roles
<1>2. pc[Parent] # "return"
  BY DEF OneByOne, Begun, Live
<1> QED BY <1>1, <1>2, SiblingMoves

LEMMA OneByOneStep ==
    ASSUME NoRace, TypeOK, OwnSteps, OneByOne,
           (\E s \in Sender : Sibling(s)) \/ StartSending \/ Aside
    PROVE  OneByOne'
<1>1. ASSUME NEW s \in Sender, Sibling(s) PROVE OneByOne'
  <2>1. s # Parent => Parent \in Sender
    BY Roles
  <2> QED BY <1>1, <2>1, SiblingMoves, Roles DEF OneByOne, Begun, Before, Live, Registering
<1>2. CASE StartSending
  <2>1. \A u \in Sender : pc[u] = "registered" /\ pc'[u] = "next"
    BY <1>2, Roles DEF StartSending, At
  <2>2. Parent \in Sender
    BY <1>2, Roles DEF StartSending
  <2> QED BY <2>1, <2>2 DEF OneByOne, Begun, Before, Live, Registering
<1>3. CASE Aside
  <2>1. \A u \in Sender : pc'[u] = pc[u]
    BY <1>3 DEF Aside
  <2>2. Parent \in Sender \/ Sender = {}
    BY Roles
  <2> QED BY <2>1, <2>2 DEF OneByOne
<1> QED BY <1>1, <1>2, <1>3

(* While a sibling is being registered, the only other step of a sibling is  *)
(* to be canceled.                                                           *)
LEMMA OthersWait ==
    ASSUME NoRace, TypeOK, OwnSteps, OneByOne, NEW s \in Sender, Sibling(s),
           NEW u \in Sender \ {s}, pc[u] \in Registering
    PROVE  CancelMakeVault(s) /\ pc[s] = "registered" /\ pc'[s] = "failed"
<1>1. pc[s] \in {"idle", "registered", "failed"}
  BY DEF OneByOne
<1>2. pc[s] = "registered" /\ pc'[s] = "failed"
  BY <1>1, SiblingMoves DEF Registering, Live
<1>3. CancelMakeVault(s)
  BY <1>2 DEF Sibling, Begin, RegisterLock, RegisterPut, RegisterClose,
     RegisterReturn, RevealCursor, LockEnter, LockPut, LockClose, Send,
     VaultNext, Commit, Close, TimeoutDelete, TimeoutGlobo, At
<1> QED BY <1>2, <1>3

(* Which registrations a step of a sibling changes.                          *)
LEMMA SiblingTables ==
    ASSUME NoRace, TypeOK, KeyInv, NEW s \in Sender, Sibling(s)
    PROVE  \/ UNCHANGED members
           \/ /\ pc[s] = "put" /\ pc'[s] = "close" /\ RegisterPut(s)
           \/ /\ pc[s] \in Live /\ key[s] \in Key
              /\ \A k \in Key \ {key[s]} : members'[k] = members[k]
              /\ \/ /\ members'[key[s]].kind = members[key[s]].kind
                    /\ members'[key[s]].parent = members[key[s]].parent
                    /\ VaultNext(s)
                 \/ members'[key[s]] = NoMember /\ pc'[s] \in {"done", "failed"}
<1>0. s \in Thread /\ s \notin Munger /\ s \notin Resumer
  BY Roles
<1>1. CASE RegisterPut(s)
  BY <1>0, <1>1, Shapes DEF RegisterPut, At, Goto
<1>2. CASE VaultNext(s)
  <2>1. key[s] \in Key /\ pc[s] \in Live
    BY <1>0, <1>2 DEF VaultNext, At, TypeOK, KeysGiven, Working, Live
  <2>2. ASSUME NEW p, members' = [members EXCEPT ![key[s]].todo = @ \ {p}]
        PROVE  /\ \A k \in Key \ {key[s]} : members'[k] = members[k]
               /\ members'[key[s]].kind = members[key[s]].kind
               /\ members'[key[s]].parent = members[key[s]].parent
    BY <2>1, <2>2, Shapes DEF Member
  <2> QED BY <1>2, <2>1, <2>2 DEF VaultNext
<1>3. CASE Commit(s) \/ Close(s)
  <2>1. key[s] \in Key /\ pc[s] \in Live
    BY <1>0, <1>3 DEF Commit, Close, At, TypeOK, KeysGiven, Working, Live
  <2>2. Unregister({key[s]}) /\ pc'[s] \in {"done", "failed"}
    BY <1>0, <1>3, Shapes DEF Commit, Close, Goto
  <2> QED BY <2>1, <2>2, UnregisterCursor
<1>4. CASE \/ Begin(s) \/ RegisterLock(s) \/ RegisterClose(s)
           \/ RegisterReturn(s) \/ RevealCursor(s) \/ CancelMakeVault(s)
           \/ LockEnter(s) \/ LockPut(s) \/ LockClose(s) \/ Send(s)
           \/ TimeoutDelete(s) \/ TimeoutGlobo(s)
  BY <1>4 DEF Begin, RegisterLock, RegisterClose, RegisterReturn, RevealCursor,
     CancelMakeVault, LockEnter, LockPut, LockClose, Send, TimeoutDelete,
     TimeoutGlobo, table
<1> QED BY <1>1, <1>2, <1>3, <1>4 DEF Sibling

(* The steps of one sibling leave the key of another its own.                *)
LEMMA OthersKeys ==
    ASSUME NoRace, TypeOK, KeyInv, OwnSteps, OneByOne, OwnKeys,
           NEW s \in Sender, Sibling(s), NEW u \in Sender \ {s}
    PROVE  /\ pc'[u] \in {"close", "return"} => \E v \in Key : Made(u, v)'
           /\ \/ pc'[u] = "reveal" /\ HasCursor(key[u])'
              \/ pc'[u] = "registered"
              => Own(u)' /\ members'[key'[u]].todo = Delta[u]
           /\ pc'[u] \in Live => Own(u)'
<1>1. pc'[u] = pc[u] /\ key'[u] = key[u]
  BY SiblingMoves
<1>2. pc[u] # "idle" => ParentOf(u)' = ParentOf(u)
  BY ParentStable
<1>3. CASE pc[u] \in Registering
  <2>1. pc[s] = "registered" /\ pc'[s] = "failed" /\ CancelMakeVault(s)
    BY <1>3, OthersWait
  <2>2. UNCHANGED <<members, leases>> /\ key'[s] = key[s]
    BY <2>1, SiblingMoves DEF CancelMakeVault, table
  <2>3. \A w \in Sender : pc'[w] \in Live \cup {"registered"}
                          => pc[w] = pc'[w] /\ key'[w] = key[w]
    BY <2>1, SiblingMoves DEF Live
  <2>4. ASSUME NEW v \in Key, Made(u, v) PROVE Made(u, v)'
    BY <1>2, <1>3, <2>2, <2>3, <2>4 DEF Made, Latest, HasCursor, Registering
  <2>5. Own(u) => Own(u)'
    BY <1>1, <1>2, <1>3, <2>2, <2>3 DEF Own, HasCursor, Registering
  <2> QED BY <1>1, <1>3, <2>2, <2>4, <2>5
      DEF OwnKeys, HasCursor, Registering, Live
<1>4. CASE pc[u] \in Live \cup {"registered"}
  <2>1. Own(u)
    BY <1>4 DEF OwnKeys
  <2>2. /\ members'[key[u]].kind = members[key[u]].kind
        /\ members'[key[u]].parent = members[key[u]].parent
        /\ pc[u] = "registered" => members'[key[u]] = members[key[u]]
    <3>1. key[u] \in Key /\ key[u] <= myKey
      BY <2>1, Roles DEF Own, KeyInv
    <3>2. CASE RegisterPut(s)
      <4>1. key[u] # myKey + 1
        BY <3>1, KeyOrder, Shapes
      <4> QED BY <3>1, <3>2, <4>1, Shapes DEF RegisterPut
    <3>3. CASE pc[s] \in Live /\ \A k \in Key \ {key[s]} : members'[k] = members[k]
      <4>1. key[s] # key[u]
        BY <2>1, <3>3 DEF Own
      <4> QED BY <3>1, <3>3, <4>1
    <3> QED BY <3>2, <3>3, SiblingTables
  <2>3. pc'[s] \in Live \cup {"registered"} => key'[s] # key[u]
    <3>1. CASE pc[s] \in Live
      BY <2>1, <3>1, SiblingMoves DEF Own, Live
    <3>2. CASE pc[s] \in Registering /\ pc'[s] = "registered"
      <4>1. pc[s] = "reveal" /\ HasCursor(key[s]) /\ key' = key
        BY <3>2, SiblingMoves, Shapes, Roles DEF Sibling, Registering, Begin,
           RegisterLock, RegisterPut, RegisterClose, RegisterReturn,
           RevealCursor, CancelMakeVault, LockEnter, LockPut, LockClose, Send,
           VaultNext, Commit, Close, TimeoutDelete, TimeoutGlobo, At, Goto
      <4>2. Own(s)
        BY <4>1 DEF OwnKeys
      <4> QED BY <1>4, <4>1, <4>2 DEF Own
    <3> QED BY <3>1, <3>2, SiblingMoves DEF Live, Registering
  <2>4. \A w \in Sender \ {u} : pc'[w] \in Live \cup {"registered"} => key'[w] # key'[u]
    BY <1>1, <2>1, <2>3, SiblingMoves DEF Own
  <2>5. Own(u)'
    BY <1>1, <1>2, <1>4, <2>1, <2>2, <2>4 DEF Own, HasCursor, Live
  <2> QED BY <1>1, <1>4, <2>2, <2>5 DEF OwnKeys, Live
<1> QED BY <1>1, <1>3, <1>4 DEF Registering, Live

(* A sibling is told of the registration it has made, or of no cursor.       *)
LEMMA OwnKey ==
    ASSUME NoRace, TypeOK, KeyInv, OwnSteps, OneByOne, OwnKeys,
           NEW s \in Sender, Sibling(s)
    PROVE  /\ pc'[s] \in {"close", "return"} => \E v \in Key : Made(s, v)'
           /\ \/ pc'[s] = "reveal" /\ HasCursor(key[s])'
              \/ pc'[s] = "registered"
              => Own(s)' /\ members'[key'[s]].todo = Delta[s]
           /\ pc'[s] \in Live => Own(s)'
<1>0. s \in Thread /\ s \notin Munger /\ s \notin Resumer
  BY Roles
<1>1. pc[s] # "idle" => ParentOf(s)' = ParentOf(s)
  BY ParentStable
<1>2. \A u \in Sender \ {s} : pc'[u] = pc[u] /\ key'[u] = key[u]
  BY SiblingMoves
<1>3. CASE RegisterPut(s)
  <2>0. PICK v \in Key : v = myKey + 1
    BY <1>3, Shapes, KeyOrder DEF RegisterPut
  <2>1. /\ v > myKey /\ v \in Int
        /\ \A j \in Key \cup {0} : j <= myKey => j <= v /\ j # v
        /\ \A j \in Key : j <= myKey \/ j > myKey
    <3>1. myKey \in Int /\ v \in Int
      BY Shapes, KeyOrder
    <3> QED BY <2>0, <3>1, KeyOrder
  <2>2. /\ members'[v] = [kind |-> "vault", parent |-> ParentOf(s), todo |-> Delta[s]]
        /\ \A k \in Key : k # v => members'[k] = members[k]
        /\ leases' = leases /\ key' = key /\ pc[s] = "put" /\ pc'[s] = "close"
    BY <1>0, <1>3, <2>0, Shapes DEF RegisterPut, ParentOf, Goto, At
  <2>3. ASSUME NEW w \in Key, HasCursor(w)' PROVE w <= v
    <3>1. HasCursor(w) => w <= myKey
      BY <2>1 DEF KeyInv, HasCursor
    <3>2. w = v => w <= v
      BY <2>1
    <3> QED BY <2>1, <2>2, <2>3, <3>1, <3>2 DEF HasCursor
  <2>4. Latest(v)'
    BY <2>2, <2>3 DEF Latest, HasCursor
  <2>5. v \notin leases
    BY <2>1 DEF KeyInv
  <2>6. \A u \in Sender : key[u] # v
    <3> TAKE u \in Sender
    <3>1. key[u] \in Key \cup {0} /\ key[u] <= myKey
      BY Shapes, Roles DEF KeyInv
    <3> QED BY <2>1, <3>1
  <2>7. Made(s, v)'
    BY <1>1, <2>2, <2>4, <2>5, <2>6 DEF Made
  <2> QED BY <2>2, <2>7 DEF Live
<1>4. CASE RegisterClose(s)
  <2>1. /\ pc[s] = "close" /\ pc'[s] = "return"
        /\ UNCHANGED <<members, leases, key>>
    BY <1>0, <1>4, Shapes DEF RegisterClose, At, Goto, table
  <2>2. PICK v \in Key : Made(s, v)
    BY <2>1 DEF OwnKeys
  <2>3. Made(s, v)'
    BY <1>1, <1>2, <2>1, <2>2 DEF Made, Latest, HasCursor
  <2> QED BY <2>1, <2>3 DEF Live
<1>5. CASE RegisterReturn(s)
  <2>1. /\ pc[s] = "return" /\ pc'[s] = "reveal" /\ key'[s] = myKey
        /\ UNCHANGED members /\ myKey \in Key
    BY <1>0, <1>5, Shapes DEF RegisterReturn, At, Goto, TypeOK, KeysGiven
  <2>2. PICK v \in Key : Made(s, v)
    BY <2>1 DEF OwnKeys
  <2>3. v <= myKey
    BY <2>2, Shapes, KeyOrder DEF Made, Latest, HasCursor, KeyInv
  <2>4. HasCursor(myKey) => v = myKey
    BY <2>1, <2>2, <2>3, KeyOrder DEF Made, Latest
  <2>5. \A u \in Sender \ {s} : pc[u] \notin Live
    BY <2>1 DEF OneByOne, Registering, Live
  <2>6. ASSUME HasCursor(myKey)
        PROVE  Own(s)' /\ members'[key'[s]].todo = Delta[s]
    BY <1>1, <1>2, <2>1, <2>2, <2>4, <2>5, <2>6 DEF Own, Made, Latest, HasCursor
  <2>7. HasCursor(key[s])' => HasCursor(myKey)
    BY <2>1 DEF HasCursor
  <2> QED BY <2>1, <2>6, <2>7 DEF Live
<1>6. CASE pc[s] = "reveal"
  <2>1. key'[s] = key[s] /\ UNCHANGED members
        /\ pc'[s] \in {"registered", "failed"}
        /\ (pc'[s] = "registered" => HasCursor(key[s]))
    BY <1>0, <1>6, Shapes DEF Sibling, Registering, Begin,
       RegisterLock, RegisterPut, RegisterClose, RegisterReturn,
       RevealCursor, CancelMakeVault, LockEnter, LockPut, LockClose, Send,
       VaultNext, Commit, Close, TimeoutDelete, TimeoutGlobo, At, Goto, table
  <2>2. HasCursor(key[s]) => Own(s) /\ members[key[s]].todo = Delta[s]
    BY <1>6 DEF OwnKeys
  <2>3. Own(s) => Own(s)'
    BY <1>1, <1>2, <1>6, <2>1 DEF Own, HasCursor
  <2> QED BY <2>1, <2>2, <2>3 DEF Live
<1>7. CASE pc[s] \in Live /\ pc'[s] \in Live
  <2>1. Own(s) /\ key'[s] = key[s]
    BY <1>7, SiblingMoves DEF OwnKeys, Live
  <2>2. /\ members'[key[s]].kind = members[key[s]].kind
        /\ members'[key[s]].parent = members[key[s]].parent
    BY <1>7, SiblingTables DEF Live
  <2>3. Own(s)'
    BY <1>1, <1>2, <1>7, <2>1, <2>2 DEF Own, HasCursor, Live
  <2> QED BY <1>7, <2>3 DEF Live
<1>8. CASE pc'[s] \in {"register", "put", "failed", "done"}
  BY <1>8 DEF Live
<1>9. pc[s] = "idle" => pc'[s] = "register"
  BY SiblingMoves DEF Registering, Live
<1>10. /\ pc[s] = "register" => pc'[s] \in {"put", "failed"}
       /\ pc[s] = "put" /\ ~RegisterPut(s) => pc'[s] = "failed"
       /\ pc[s] = "close" => RegisterClose(s)
       /\ pc[s] = "return" => RegisterReturn(s)
  BY <1>0, Shapes DEF Sibling, Registering, Begin,
     RegisterLock, RegisterPut, RegisterClose, RegisterReturn,
     RevealCursor, CancelMakeVault, LockEnter, LockPut, LockClose, Send,
     VaultNext, Commit, Close, TimeoutDelete, TimeoutGlobo, At, Goto
<1> QED BY <1>3, <1>4, <1>5, <1>6, <1>7, <1>8, <1>9, <1>10, SiblingMoves
    DEF Registering

LEMMA OwnKeysStep ==
    ASSUME NoRace, TypeOK, KeyInv, OwnSteps, OneByOne, OwnKeys,
           (\E s \in Sender : Sibling(s)) \/ StartSending \/ Aside
    PROVE  OwnKeys'
<1>0. \A s \in Sender : s \in Thread /\ (s # Parent => Parent \in Sender)
  BY Roles
<1>1. CASE \E s \in Sender : Sibling(s)
  <2>1. PICK s \in Sender : Sibling(s)
    BY <1>1
  <2>2. ASSUME NEW u \in Sender
        PROVE  /\ pc'[u] \in {"close", "return"} => \E v \in Key : Made(u, v)'
               /\ \/ pc'[u] = "reveal" /\ HasCursor(key[u])'
                  \/ pc'[u] = "registered"
                  => Own(u)' /\ members'[key'[u]].todo = Delta[u]
               /\ pc'[u] \in Live => Own(u)'
    BY <2>1, <2>2, OthersKeys, OwnKey
  <2> QED BY <2>2 DEF OwnKeys
<1>2. CASE StartSending
  <2>1. /\ \A u \in Sender : pc[u] = "registered" /\ pc'[u] = "next"
        /\ UNCHANGED <<members, key>>
    BY <1>0, <1>2 DEF StartSending, At, table
  <2>2. \A u \in Sender : Own(u)
    BY <2>1 DEF OwnKeys
  <2>3. \A u \in Sender : Own(u)'
    BY <2>1, <2>2 DEF Own, HasCursor, ParentOf
  <2> QED BY <2>1, <2>3 DEF OwnKeys
<1>3. CASE Aside
  <2>1. /\ \A u \in Sender : pc'[u] = pc[u] /\ key'[u] = key[u]
        /\ \A k \in Key : HasCursor(k)' => members'[k] = members[k] /\ HasCursor(k)
    BY <1>3 DEF Aside, HasCursor
  <2>2. \A u \in Sender : ParentOf(u)' = ParentOf(u)
    BY <1>0, <2>1 DEF ParentOf
  <2>3. ASSUME NEW u \in Sender, pc[u] \notin {"idle", "done", "failed"}, Own(u)
        PROVE  Own(u)' /\ members'[key'[u]] = members[key[u]]
    <3>1. key[u] \in Key /\ HasCursor(key[u]) /\ Works(key[u])
      BY <2>3 DEF Own, Works
    <3>2. members'[key[u]] = members[key[u]]
      BY <1>3, <3>1 DEF Aside
    <3> QED BY <2>1, <2>2, <2>3, <3>2 DEF Own, HasCursor
  <2>4. ASSUME NEW u \in Sender, NEW v \in Key, Made(u, v) PROVE Made(u, v)'
    <3>1. HasCursor(v) /\ v \notin leases
      BY <2>4 DEF Made, Latest
    <3>2. members'[v] = members[v] /\ v \notin leases'
      BY <1>3, <3>1 DEF Aside
    <3> QED BY <2>1, <2>2, <2>4, <3>2 DEF Made, Latest, HasCursor
  <2>5. \A u \in Sender : pc[u] = "reveal" => key[u] \in Key
    BY <1>0 DEF TypeOK, KeysGiven, Working
  <2>6. ASSUME NEW u \in Sender
        PROVE  /\ pc'[u] \in {"close", "return"} => \E v \in Key : Made(u, v)'
               /\ \/ pc'[u] = "reveal" /\ HasCursor(key[u])'
                  \/ pc'[u] = "registered"
                  => Own(u)' /\ members'[key'[u]].todo = Delta[u]
               /\ pc'[u] \in Live => Own(u)'
    <3>2. pc[u] = "reveal" /\ HasCursor(key[u])' => HasCursor(key[u])
      BY <2>1, <2>5 DEF HasCursor
    <3>3. pc'[u] \in {"close", "return"} => \E v \in Key : Made(u, v)'
      BY <2>1, <2>4 DEF OwnKeys
    <3>4. \/ pc[u] = "reveal" /\ HasCursor(key[u])
          \/ pc[u] = "registered"
          => Own(u)' /\ members'[key'[u]].todo = Delta[u]
      BY <2>3 DEF OwnKeys
    <3>5. pc[u] \in Live => Own(u)'
      BY <2>3 DEF OwnKeys, Live
    <3> QED BY <2>1, <3>2, <3>3, <3>4, <3>5
  <2> QED BY <2>6 DEF OwnKeys
<1> QED BY <1>1, <1>2, <1>3

LEMMA CoveredStep ==
    ASSUME NoRace, TypeOK, KeyInv, OwnSteps, OneByOne, OwnKeys, Covered,
           (\E s \in Sender : Sibling(s)) \/ StartSending \/ Aside
    PROVE  Covered'
<1>0. \A s \in Sender : s \in Thread
  BY Roles
<1>1. ASSUME NEW s \in Sender, Sibling(s) PROVE Covered'
  <2>0. \A u \in Sender \ {s} : pc'[u] = pc[u] /\ key'[u] = key[u]
    BY <1>1, SiblingMoves
  <2>1. ASSUME \A u \in Sender : pc'[u] \in Before, NEW v \in Key, HasCursor(v)'
        PROVE  Whose(v)'
    <3>1. \A u \in Sender : pc[u] \in Before
      BY <1>1, <2>0, <2>1, SiblingMoves DEF Before, Live, Registering
    <3>2. HasCursor(v) => Whose(v)
      BY <3>1 DEF Covered
    <3>3. CASE RegisterPut(s)
      <4>1. \A u \in Sender \ {s} : pc[u] \in {"idle", "registered"}
        BY <3>1, <3>3 DEF RegisterPut, At, OneByOne, Registering, Before
      <4>2. pc[s] = "put" /\ pc'[s] = "close"
        BY <1>0, <3>3, Shapes DEF RegisterPut, At, Goto
      <4>3. CASE v = myKey + 1
        <5>1. \A w \in Key : w # v => members'[w] = members[w]
          BY <3>3, <4>3, Shapes DEF RegisterPut
        <5>2. ASSUME NEW w \in Key, HasCursor(w)' PROVE w <= v
          <6>1. myKey \in Int /\ w \in Int
            BY Shapes, KeyOrder
          <6>2. w # v => w <= myKey
            BY <5>1, <5>2, <6>1 DEF KeyInv, HasCursor
          <6> QED BY <4>3, <6>1, <6>2
        <5>3. Latest(v)'
          BY <2>1, <5>2 DEF Latest
        <5> QED BY <4>2, <5>3 DEF Whose
      <4>4. CASE v # myKey + 1
        <5>1. HasCursor(v)
          BY <2>1, <3>3, <4>4, Shapes DEF RegisterPut, HasCursor
        <5>2. PICK u \in Sender : pc[u] = "registered" /\ key[u] = v
          BY <3>2, <4>1, <4>2, <5>1 DEF Whose
        <5>3. pc'[u] = "registered" /\ key'[u] = v
          BY <2>0, <4>2, <5>2
        <5> QED BY <5>3 DEF Whose
      <4> QED BY <4>3, <4>4
    <3>4. CASE ~RegisterPut(s)
      <4>1. UNCHANGED members
        BY <1>1, <3>1, <3>4, SiblingTables DEF Before, Live, Registering
      <4>2. HasCursor(v) /\ (Latest(v) => Latest(v)')
        BY <2>1, <4>1 DEF HasCursor, Latest
      <4>3. PICK u \in Sender : \/ pc[u] = "registered" /\ key[u] = v
                                \/ pc[u] \in {"close", "return"} /\ Latest(v)
                                \/ pc[u] = "reveal" /\ (HasCursor(key[u]) => key[u] = v)
        BY <3>2, <4>2 DEF Whose
      <4>4. CASE u # s
        <5>1. pc'[u] = pc[u] /\ key'[u] = key[u]
          BY <2>0, <4>4
        <5> QED BY <4>1, <4>2, <4>3, <5>1 DEF Whose, HasCursor
      <4>5. CASE u = s
        <5>1. pc'[s] # "failed"
          BY <2>1 DEF Before, Registering
        <5>2. pc[s] \in {"close", "return", "reveal"}
          BY <1>1, <4>3, <4>5, <5>1, SiblingMoves DEF Registering, Live
        <5>3. \/ pc[s] = "close" /\ pc'[s] = "return"
              \/ /\ pc[s] = "return" /\ pc'[s] = "reveal" /\ key'[s] = myKey
              \/ /\ pc[s] = "reveal" /\ pc'[s] = "registered"
                 /\ HasCursor(key[s]) /\ key'[s] = key[s]
          BY <1>0, <1>1, <5>1, <5>2, Shapes, Roles
             DEF Sibling, Registering, Begin,
             RegisterLock, RegisterPut, RegisterClose, RegisterReturn,
             RevealCursor, CancelMakeVault, LockEnter, LockPut, LockClose, Send,
             VaultNext, Commit, Close, TimeoutDelete, TimeoutGlobo, At, Goto
        <5>4. CASE pc[s] = "return"
          <6>1. Latest(v) /\ v <= myKey /\ key'[s] = myKey /\ pc'[s] = "reveal"
            <7>1. Latest(v) /\ key'[s] = myKey /\ pc'[s] = "reveal"
              BY <4>3, <4>5, <5>3, <5>4
            <7>2. ~(v > myKey)
              BY <4>2 DEF KeyInv, HasCursor
            <7> QED BY <7>1, <7>2, Shapes, KeyOrder
          <6>2. HasCursor(myKey) => myKey = v
            <7>1. HasCursor(myKey) => myKey \in Key
              BY <5>4, <1>0 DEF TypeOK, KeysGiven
            <7> QED BY <6>1, <7>1, KeyOrder DEF Latest
          <6>3. HasCursor(key[s])' => HasCursor(myKey)
            BY <4>1, <6>1 DEF HasCursor
          <6> QED BY <6>1, <6>2, <6>3 DEF Whose
        <5> QED BY <4>2, <4>3, <4>5, <5>3, <5>4 DEF Whose
      <4> QED BY <4>4, <4>5
    <3> QED BY <3>3, <3>4
  <2>2. ASSUME NEW u \in Sender, pc'[u] \in Begun, NEW v \in Key, HasCursor(v)'
        PROVE  \E w \in Sender : key'[w] = v /\ pc'[w] \in Live \cup {"failed"}
    <3>1. pc[u] \in Begun
      BY <1>1, <2>0, <2>2, SiblingMoves DEF Begun, Live, Registering
    <3>2. pc[s] \in Live /\ key'[s] = key[s] /\ pc'[s] \in Live \cup {"done", "failed"}
      BY <1>1, <3>1, SiblingMoves DEF OneByOne, Begun, Before, Live, Registering
    <3>3. HasCursor(v) /\ (key[s] = v => pc'[s] # "done")
      <4>1. CASE Commit(s)
        <5>1. key[s] \in Key /\ Unregister({key[s]})
          BY <1>0, <4>1 DEF Commit, At, TypeOK, KeysGiven, Working
        <5> QED BY <2>2, <5>1, UnregisterCursor DEF HasCursor
      <4>2. CASE ~Commit(s)
        <5>1. pc'[s] # "done"
          BY <1>0, <1>1, <4>2, Shapes, SiblingMoves, Roles
             DEF Sibling, Registering, Begin,
             RegisterLock, RegisterPut, RegisterClose, RegisterReturn,
             RevealCursor, CancelMakeVault, LockEnter, LockPut, LockClose, Send,
             VaultNext, Commit, Close, TimeoutDelete, TimeoutGlobo, At, Goto
        <5>2. HasCursor(v)
          BY <1>1, <2>2, <3>2, SiblingTables DEF HasCursor, NoMember, Live
        <5> QED BY <5>1, <5>2
      <4> QED BY <4>1, <4>2
    <3>4. PICK w \in Sender : key[w] = v /\ pc[w] \in Live \cup {"failed"}
      BY <3>1, <3>3 DEF Covered
    <3> QED BY <2>0, <3>2, <3>3, <3>4
  <2> QED BY <2>1, <2>2 DEF Covered
<1>2. CASE StartSending
  <2>1. /\ \A u \in Sender : pc[u] = "registered" /\ pc'[u] = "next"
        /\ UNCHANGED <<members, key>> /\ Sender # {}
    BY <1>0, <1>2 DEF StartSending, At, table
  <2>2. \A v \in Key : HasCursor(v) => Whose(v)
    BY <2>1 DEF Covered, Before
  <2>3. \A v \in Key : HasCursor(v)' =>
           \E s \in Sender : key'[s] = v /\ pc'[s] \in Live \cup {"failed"}
    BY <2>1, <2>2 DEF Whose, HasCursor, Live
  <2> QED BY <2>1, <2>3 DEF Covered, Before, Registering
<1>3. CASE Aside
  <2>1. /\ \A u \in Sender : pc'[u] = pc[u] /\ key'[u] = key[u]
        /\ \A k \in Key : HasCursor(k)' => HasCursor(k)
    BY <1>3 DEF Aside, HasCursor
  <2>2. \A u \in Sender : pc[u] = "reveal" => key[u] \in Key
    BY <1>0 DEF TypeOK, KeysGiven, Working
  <2>3. ASSUME NEW v \in Key, HasCursor(v)', Whose(v) PROVE Whose(v)'
    <3>1. Latest(v) => Latest(v)'
      BY <2>1, <2>3 DEF Latest
    <3>2. \A u \in Sender : pc[u] = "reveal" /\ HasCursor(key[u])' => HasCursor(key[u])
      BY <2>1, <2>2 DEF HasCursor
    <3> QED BY <2>1, <2>3, <3>1, <3>2 DEF Whose
  <2> QED BY <2>1, <2>3 DEF Covered
<1> QED BY <1>1, <1>2, <1>3

(* What the other siblings have sent and still have to send stays.           *)
LEMMA OthersProgress ==
    ASSUME NoRace, TypeOK, KeyInv, OwnSteps, OneByOne, OwnKeys, Progress,
           NEW s \in Sender, Sibling(s), NEW u \in Sender \ {s}
    PROVE  /\ sent'[u] = sent[u]
           /\ pc'[u] \in Live
              => members'[key'[u]] = members[key[u]] /\ AtHand(u)' = AtHand(u)
           /\ pc'[u] = "done" => key'[u] \in Key /\ members'[key'[u]].kind = "none"
<1>0. s \in Thread /\ s \notin Munger /\ s \notin Resumer
  BY Roles
<1>1. pc'[u] = pc[u] /\ key'[u] = key[u] /\ cur'[u] = cur[u]
  BY SiblingMoves
<1>2. sent'[u] = sent[u]
  BY <1>0, Shapes DEF Sibling, Begin, RegisterLock, RegisterPut, RegisterClose,
     RegisterReturn, RevealCursor, CancelMakeVault, LockEnter, LockPut,
     LockClose, Send, VaultNext, Commit, Close, TimeoutDelete, TimeoutGlobo,
     vault
<1>3. ASSUME pc[u] \in Begun
      PROVE  \/ UNCHANGED members
             \/ /\ pc[s] \in Live
                /\ \A k \in Key \ {key[s]} : members'[k] = members[k]
                /\ members'[key[s]].kind \in {members[key[s]].kind, "none"}
  <2>1. pc[s] # "put"
    BY <1>3 DEF OneByOne, Before, Registering
  <2> QED BY <2>1, SiblingTables DEF NoMember
<1>4. ASSUME pc[u] \in Live PROVE members'[key[u]] = members[key[u]]
  <2>1. Own(u)
    BY <1>4 DEF OwnKeys
  <2>2. pc[s] \in Live => key[s] # key[u]
    BY <2>1 DEF Own
  <2> QED BY <1>3, <1>4, <2>1, <2>2 DEF Own, Begun
<1>5. ASSUME pc[u] = "done" PROVE key[u] \in Key /\ members'[key[u]].kind = "none"
  <2>1. key[u] \in Key /\ members[key[u]].kind = "none"
    BY <1>5 DEF Progress
  <2>2. CASE key[u] = key[s]
    BY <1>3, <1>5, <2>1, <2>2 DEF Begun
  <2>3. CASE key[u] # key[s]
    BY <1>3, <1>5, <2>1, <2>3 DEF Begun
  <2> QED BY <2>1, <2>2, <2>3
<1> QED BY <1>1, <1>2, <1>4, <1>5 DEF AtHand

(* A sibling sends what it takes off its cursor, and commits with an empty   *)
(* one.                                                                      *)
LEMMA OwnProgress ==
    ASSUME NoRace, TypeOK, KeyInv, OwnSteps, OneByOne, OwnKeys, Progress,
           NEW s \in Sender, Sibling(s)
    PROVE  /\ pc'[s] \in Before => sent'[s] = {}
           /\ pc'[s] \in Live \ {"abort"}
              => Delta[s] = sent'[s] \cup members'[key'[s]].todo \cup AtHand(s)'
           /\ pc'[s] \in {"commit", "done"} => sent'[s] = Delta[s]
           /\ pc'[s] = "done" => key'[s] \in Key /\ members'[key'[s]].kind = "none"
           /\ pc'[s] = "failed" /\ pc[s] \in Live
              => aborted'[Parent] \/ sent'[s] = Delta[s]
<1>0. s \in Thread /\ s \notin Munger /\ s \notin Resumer /\ Parent \in Sender
  BY Roles
<1>1. CASE pc[s] \in Before
  <2>1. sent' = sent
    BY <1>1 DEF Before, Registering, Sibling, Begin, RegisterLock, RegisterPut,
       RegisterClose, RegisterReturn, RevealCursor, CancelMakeVault, LockEnter,
       LockPut, LockClose, Send, VaultNext, Commit, Close, TimeoutDelete,
       TimeoutGlobo, vault, At
  <2>2. sent[s] = {}
    BY <1>1 DEF Progress
  <2>3. pc'[s] \in Registering \cup {"registered", "failed"} /\ pc[s] \notin Live
    BY <1>1, SiblingMoves DEF Before, Registering, Live
  <2> QED BY <2>1, <2>2, <2>3 DEF Registering, Live
<1>2. CASE VaultNext(s)
  <2>1. pc[s] = "next" /\ sent' = sent /\ key' = key
    BY <1>2 DEF VaultNext, At, vault
  <2>2. Own(s) /\ HasCursor(key[s]) /\ key[s] \in Key
    BY <2>1 DEF OwnKeys, Own, Live
  <2>3. Delta[s] = sent[s] \cup members[key[s]].todo
    BY <2>1 DEF Progress, AtHand, Live
  <2>4. CASE members[key[s]].todo = {}
    <3>1. pc'[s] = "commit" /\ members' = members
      BY <1>0, <1>2, <2>2, <2>4, Shapes DEF VaultNext, Goto
    <3> QED BY <2>1, <2>3, <2>4, <3>1 DEF AtHand, Before, Registering
  <2>5. CASE members[key[s]].todo # {}
    <3>1. PICK p \in members[key[s]].todo :
             /\ members' = [members EXCEPT ![key[s]].todo = @ \ {p}]
             /\ cur' = [cur EXCEPT ![s] = p] /\ Goto(s, "lock")
      BY <1>2, <2>2, <2>5 DEF VaultNext
    <3>2. pc'[s] = "lock" /\ cur'[s] = p
      BY <1>0, <3>1, Shapes DEF Goto
    <3>3. members'[key[s]].todo = members[key[s]].todo \ {p}
      BY <2>2, <3>1, Shapes DEF Member
    <3>4. AtHand(s)' = {p}
      BY <3>2 DEF AtHand
    <3>5. Delta[s] = sent'[s] \cup members'[key'[s]].todo \cup AtHand(s)'
      BY <2>1, <2>3, <3>3, <3>4
    <3> QED BY <3>2, <3>5 DEF Before, Registering
  <2> QED BY <2>4, <2>5
<1>3. CASE Send(s)
  <2>1. /\ pc[s] = "send" /\ pc'[s] \in {"abort", "next"}
        /\ sent'[s] = sent[s] \cup {cur[s]} /\ UNCHANGED <<members, key>>
    BY <1>0, <1>3, Shapes DEF Send, At, Goto, table
  <2>2. Delta[s] = sent[s] \cup members[key[s]].todo \cup {cur[s]}
    BY <2>1 DEF Progress, AtHand, Live
  <2>3. AtHand(s)' = {}
    BY <2>1 DEF AtHand
  <2> QED BY <2>1, <2>2, <2>3 DEF Before, Registering
<1>4. CASE LockEnter(s) \/ LockPut(s) \/ LockClose(s)
  <2>1. /\ pc[s] \in {"lock", "lockPut", "lockClose"}
        /\ pc'[s] \in {"lockPut", "lockClose", "send"}
        /\ UNCHANGED <<sent, members, key, cur>>
    BY <1>0, <1>4, Shapes DEF LockEnter, LockPut, LockClose, At, Goto, table, vault
  <2>2. Delta[s] = sent[s] \cup members[key[s]].todo \cup {cur[s]}
    BY <2>1 DEF Progress, AtHand, Live
  <2>3. AtHand(s)' = {cur[s]}
    BY <2>1 DEF AtHand
  <2> QED BY <2>1, <2>2, <2>3 DEF Before, Registering
<1>5. CASE Commit(s)
  <2>1. /\ pc[s] = "commit" /\ pc'[s] = "done" /\ UNCHANGED <<sent, key>>
        /\ Unregister({key[s]})
    BY <1>0, <1>5, Shapes DEF Commit, At, Goto
  <2>2. key[s] \in Key /\ sent[s] = Delta[s]
    BY <1>0, <2>1 DEF TypeOK, KeysGiven, Working, Progress
  <2>3. members'[key[s]] = NoMember
    BY <2>1, <2>2, UnregisterCursor
  <2> QED BY <2>1, <2>2, <2>3 DEF NoMember, Before, Registering, Live
<1>6. CASE Close(s)
  <2>1. pc'[s] = "failed" /\ aborted'[Parent] = TRUE
    BY <1>0, <1>6, Shapes DEF Close, Goto
  <2> QED BY <2>1 DEF Before, Registering, Live
<1>7. CASE TimeoutDelete(s) /\ pc[s] \in Live
  <2>1. pc'[s] = "abort"
    BY <1>0, <1>7, Shapes DEF TimeoutDelete, Goto, At, Live
  <2> QED BY <2>1 DEF Before, Registering
<1>8. CASE TimeoutGlobo(s) /\ pc[s] \in Live
  <2>1. CASE pc[s] = "commit"
    <3>1. pc'[s] = "failed" /\ sent' = sent
      BY <1>0, <1>8, <2>1, Shapes DEF TimeoutGlobo, Goto
    <3>2. sent[s] = Delta[s]
      BY <2>1 DEF Progress
    <3> QED BY <3>1, <3>2 DEF Before, Registering, Live
  <2>2. CASE pc[s] = "abort"
    <3>1. pc'[s] = "failed" /\ aborted'[Parent] = TRUE
      BY <1>0, <1>8, <2>2, Shapes DEF TimeoutGlobo, Goto, At
    <3> QED BY <3>1 DEF Before, Registering, Live
  <2>3. CASE pc[s] \notin {"commit", "abort"}
    <3>1. pc'[s] = "abort"
      BY <1>0, <1>8, <2>3, Shapes DEF TimeoutGlobo, Goto, Live
    <3> QED BY <3>1 DEF Before, Registering
  <2> QED BY <2>1, <2>2, <2>3
<1>9. CASE pc[s] \in Live /\ ~TimeoutDelete(s) /\ ~TimeoutGlobo(s)
  BY <1>2, <1>3, <1>4, <1>5, <1>6, <1>9 DEF Live, Sibling, Begin, RegisterLock,
     RegisterPut, RegisterClose, RegisterReturn, RevealCursor, CancelMakeVault, At
<1>10. pc[s] \in Before \cup Live
  BY SiblingMoves DEF Before, Registering
<1> QED BY <1>1, <1>7, <1>8, <1>9, <1>10

LEMMA ProgressStep ==
    ASSUME NoRace, TypeOK, KeyInv, OwnSteps, OneByOne, OwnKeys, Progress,
           (\E s \in Sender : Sibling(s)) \/ StartSending \/ Aside
    PROVE  Progress'
<1>0. \A s \in Sender : s \in Thread /\ Parent \in Sender
  BY Roles
<1> DEFINE Part(s) ==
      /\ pc[s] \in Before => sent[s] = {}
      /\ pc[s] \in Live \ {"abort"}
         => Delta[s] = sent[s] \cup members[key[s]].todo \cup AtHand(s)
      /\ pc[s] \in {"commit", "done"} => sent[s] = Delta[s]
      /\ pc[s] = "done" => key[s] \in Key /\ members[key[s]].kind = "none"
<1>1. CASE \E s \in Sender : Sibling(s)
  <2>1. PICK s \in Sender : Sibling(s)
    BY <1>1
  <2>2. \A u \in Sender \ {s} : pc'[u] = pc[u] /\ key'[u] = key[u]
    BY <2>1, SiblingMoves
  <2>3. ASSUME NEW u \in Sender PROVE Part(u)'
    <3>1. CASE u = s
      <4> HIDE DEF Part
      <4>1. /\ pc'[s] \in Before => sent'[s] = {}
            /\ pc'[s] \in Live \ {"abort"}
               => Delta[s] = sent'[s] \cup members'[key'[s]].todo \cup AtHand(s)'
            /\ pc'[s] \in {"commit", "done"} => sent'[s] = Delta[s]
            /\ pc'[s] = "done" => key'[s] \in Key /\ members'[key'[s]].kind = "none"
        BY <2>1, OwnProgress
      <4> QED BY <3>1, <4>1 DEF Part
    <3>2. CASE u # s
      <4>1. Part(u)
        BY DEF Progress
      <4>2. /\ sent'[u] = sent[u]
            /\ pc'[u] \in Live
               => members'[key'[u]] = members[key[u]] /\ AtHand(u)' = AtHand(u)
            /\ pc'[u] = "done" => key'[u] \in Key /\ members'[key'[u]].kind = "none"
        BY <2>1, <3>2, OthersProgress
      <4> QED BY <2>2, <3>2, <4>1, <4>2
    <3> QED BY <3>1, <3>2
  <2>4. /\ aborted[Parent] => aborted'[Parent]
        /\ \A u \in Sender : aborted'[u] => aborted[u] \/ pc'[s] = "failed"
    BY <1>0, <2>1, Shapes, Roles DEF Sibling, Begin, RegisterLock, RegisterPut,
       RegisterClose, RegisterReturn, RevealCursor, CancelMakeVault, LockEnter,
       LockPut, LockClose, Send, VaultNext, Commit, Close, TimeoutDelete,
       TimeoutGlobo, vault, Goto, At
  <2>5. pc[s] \notin {"done", "failed"}
    BY <2>1, SiblingMoves DEF Registering, Live
  <2>6. ASSUME NEW w \in Sender, NEW u \in Sender, pc'[u] \in Begun, pc'[w] = "failed"
        PROVE  aborted'[Parent] \/ sent'[w] = Delta[w]
    <3>1. pc[u] \in Begun
      BY <2>1, <2>2, <2>6, SiblingMoves DEF Begun, Live, Registering
    <3>2. pc[s] \in Live
      BY <2>1, <3>1, SiblingMoves DEF OneByOne, Begun, Before, Registering
    <3>3. CASE w = s
      BY <2>1, <2>6, <3>2, <3>3, OwnProgress
    <3>4. CASE w # s
      <4>1. aborted[Parent] \/ sent[w] = Delta[w]
        BY <2>2, <2>6, <3>1, <3>4 DEF Progress
      <4>2. sent'[w] = sent[w]
        BY <2>1, <3>4, OthersProgress
      <4> QED BY <2>4, <4>1, <4>2
    <3> QED BY <3>3, <3>4
  <2>7. ASSUME NEW u \in Sender, aborted'[u] PROVE \E w \in Sender : pc'[w] = "failed"
    <3>1. CASE aborted[u]
      <4>1. PICK w \in Sender : pc[w] = "failed"
        BY <3>1 DEF Progress
      <4> QED BY <2>2, <2>5, <4>1
    <3> QED BY <2>4, <2>7, <3>1
  <2> QED BY <2>3, <2>6, <2>7 DEF Progress
<1>2. CASE StartSending
  <2>1. /\ \A u \in Sender : pc[u] = "registered" /\ pc'[u] = "next"
        /\ UNCHANGED <<members, key, sent, aborted>>
    BY <1>0, <1>2 DEF StartSending, At, table, vault
  <2>2. ASSUME NEW u \in Sender PROVE Delta[u] = sent[u] \cup members[key[u]].todo
    BY <2>1 DEF OwnKeys, Progress, Before
  <2>3. \A u \in Sender : AtHand(u)' = {} /\ ~aborted[u]
    BY <2>1 DEF AtHand, Progress
  <2> QED BY <2>1, <2>2, <2>3 DEF Progress, Before, Registering
<1>3. CASE Aside
  <2>1. /\ \A u \in Sender : pc'[u] = pc[u] /\ key'[u] = key[u] /\ cur'[u] = cur[u]
        /\ UNCHANGED <<sent, aborted>>
    BY <1>3 DEF Aside
  <2>2. ASSUME NEW u \in Sender, pc[u] \in Live
        PROVE  members'[key[u]] = members[key[u]]
    <3>1. key[u] \in Key /\ HasCursor(key[u]) /\ Works(key[u])
      BY <2>2 DEF OwnKeys, Own, Works, Live
    <3> QED BY <1>3, <3>1 DEF Aside
  <2>3. ASSUME NEW u \in Sender, pc[u] = "done"
        PROVE  members'[key[u]].kind = "none"
    BY <1>0, <1>3, <2>3 DEF Aside, Progress, KeyInv
  <2>4. \A u \in Sender : AtHand(u)' = AtHand(u)
    BY <2>1 DEF AtHand
  <2>5. ASSUME NEW u \in Sender PROVE Part(u)'
    <3>1. Part(u)
      BY DEF Progress
    <3> QED BY <2>1, <2>2, <2>3, <2>4, <3>1 DEF Live
  <2> HIDE DEF Part
  <2>6. /\ \A w, u \in Sender : pc'[u] \in Begun /\ pc'[w] = "failed"
                                => aborted'[Parent] \/ sent'[w] = Delta[w]
        /\ \A u \in Sender : aborted'[u] => \E w \in Sender : pc'[w] = "failed"
    BY <2>1 DEF Progress
  <2> QED BY <2>5, <2>6 DEF Progress, Part
<1> QED BY <1>1, <1>2, <1>3

(* A sibling that sends is outstanding for every other.                      *)
LEMMA LiveIsOutstanding ==
    ASSUME NoRace, TypeOK, OwnKeys, NEW s \in Sender, NEW u \in Sender \ {s},
           pc[s] \in Live, pc[u] \in Live
    PROVE  Outstanding(key[s])
<1>1. Own(s) /\ Own(u)
  BY DEF OwnKeys
<1>2. /\ key[s] \in Key /\ key[u] \in Key \ {key[s]}
      /\ members[key[s]].kind = "vault" /\ members[key[u]].kind = "vault"
      /\ members[key[s]].parent = ParentOf(s) /\ members[key[u]].parent = ParentOf(u)
  BY <1>1 DEF Own, HasCursor
<1>3. CASE s = Parent
  BY <1>2, <1>3 DEF Outstanding, ParentOf
<1>4. CASE u = Parent
  BY <1>2, <1>4 DEF Outstanding, ParentOf
<1>5. CASE s # Parent /\ u # Parent
  <2>1. key[Parent] # -1
    BY KeyInt, Roles, Shapes
  <2> QED BY <1>2, <1>5, <2>1 DEF Outstanding, ParentOf
<1> QED BY <1>3, <1>4, <1>5

(* The last sibling at the site has nothing outstanding: a munge is nobody's *)
(* sibling, and all cursors are of siblings.                                 *)
LEMMA LastIsNotOutstanding ==
    ASSUME NoRace, TypeOK, KeyInv, OwnKeys, Covered, Progress,
           NEW s \in Sender, pc[s] \in Live,
           \A u \in Sender \ {s} : pc[u] = "done"
    PROVE  ~Outstanding(key[s])
<1>1. Own(s)
  BY DEF OwnKeys
<1>2. key[s] \in Key /\ members[key[s]].parent = ParentOf(s)
  BY <1>1 DEF Own
<1>3. ASSUME NEW o \in Key \ {key[s]}, members[o].kind # "none"
      PROVE  members[o].parent = -1
  <2>1. ~HasCursor(o)
    <3>1. HasCursor(o) => \E w \in Sender : key[w] = o /\ pc[w] \in Live \cup {"failed"}
      BY DEF Covered, Begun
    <3> QED BY <1>3, <3>1 DEF Live
  <2>2. members[o].kind \in MemberKind
    BY Shapes DEF Member
  <2> QED BY <1>3, <2>1, <2>2 DEF HasCursor, MemberKind, KeyInv
<1>4. ASSUME NEW o \in Key \ {key[s]}, members[o].kind # "none"
      PROVE  o # members[key[s]].parent
  <2>1. CASE s = Parent
    BY <1>2, <2>1, KeyInt DEF ParentOf
  <2>2. CASE s # Parent
    <3>1. pc[Parent] = "done"
      BY <2>2, Roles
    <3>2. members[key[Parent]].kind = "none"
      BY <3>1, Roles DEF Progress
    <3> QED BY <1>2, <1>4, <2>2, <3>2 DEF ParentOf
  <2> QED BY <2>1, <2>2
<1>5. key[s] # -1
  BY <1>2, KeyInt
<1> QED BY <1>3, <1>4, <1>5 DEF Outstanding

LEMMA CommittedStep ==
    ASSUME NoRace, TypeOK, KeyInv, OwnSteps, OneByOne, OwnKeys, Covered,
           Progress, Committed,
           (\E s \in Sender : Sibling(s)) \/ StartSending \/ Aside
    PROVE  Committed'
<1>0. \A s \in Sender : s \in Thread /\ Parent \in Sender
  BY Roles
<1>1. ASSUME NEW s \in Sender, Sibling(s) PROVE Committed'
  <2>0. \A u \in Sender \ {s} : pc'[u] = pc[u]
    BY <1>1, SiblingMoves
  <2>1. commits = 0
    BY <1>1, SiblingMoves DEF Committed, Registering, Live
  <2>2. CASE Commit(s)
    <3>1. /\ pc[s] = "commit" /\ pc'[s] = "done" /\ sent' = sent
          /\ commits' = IF Outstanding(key[s]) \/ aborted[s] \/ aborted[Parent]
                        THEN commits ELSE commits + 1
      BY <1>0, <2>2, Shapes DEF Commit, At, Goto
    <3>2. ASSUME ~Outstanding(key[s]), ~aborted[Parent], NEW u \in Sender
          PROVE  pc'[u] \in {"done", "failed"} /\ sent'[u] = Delta[u]
      <4>1. CASE u = s
        BY <3>1, <4>1 DEF Progress
      <4>2. CASE u # s
        <5>1. pc[u] \notin Before
          BY <3>1 DEF OneByOne, Begun, Live
        <5>2. pc[u] \notin Live
          BY <3>1, <3>2, <4>2, LiveIsOutstanding DEF Live
        <5>3. pc[u] \in {"done", "failed"}
          BY <1>0, <5>1, <5>2, Shapes DEF Pc, Before, Live, Registering, OwnSteps
        <5>4. sent[u] = Delta[u]
          BY <3>1, <3>2, <5>3 DEF Progress, Begun, Live
        <5> QED BY <2>0, <3>1, <4>2, <5>3, <5>4
      <4> QED BY <4>1, <4>2
    <3>3. ASSUME \A u \in Sender : pc'[u] = "done" PROVE commits' = 1
      <4>1. ~Outstanding(key[s])
        BY <2>0, <3>1, <3>3, LastIsNotOutstanding DEF Live
      <4>2. \A u \in Sender : ~aborted[u]
        BY <2>0, <3>1, <3>3 DEF Progress
      <4> QED BY <1>0, <2>1, <3>1, <4>1, <4>2
    <3> QED BY <2>1, <3>1, <3>2, <3>3 DEF Committed, LastCommits, At
  <2>3. CASE ~Commit(s)
    <3>1. commits' = 0 /\ pc'[s] # "done"
      BY <1>0, <1>1, <2>1, <2>3, Shapes, Roles DEF Sibling, Begin, RegisterLock,
         RegisterPut, RegisterClose, RegisterReturn, RevealCursor,
         CancelMakeVault, LockEnter, LockPut, LockClose, Send, VaultNext, Commit,
         Close, TimeoutDelete, TimeoutGlobo, vault, Goto, At
    <3> QED BY <3>1 DEF Committed, LastCommits, At
  <2> QED BY <2>2, <2>3
<1>2. CASE StartSending
  <2>1. /\ \A u \in Sender : pc[u] = "registered" /\ pc'[u] = "next"
        /\ UNCHANGED <<commits, sent>> /\ Sender # {}
    BY <1>0, <1>2 DEF StartSending, At, vault
  <2> QED BY <2>1 DEF Committed, LastCommits, At
<1>3. CASE Aside
  BY <1>3 DEF Aside, Committed, LastCommits, At
<1> QED BY <1>1, <1>2, <1>3

LEMMA BatchInit == NoRace /\ Init => BatchInv
<1> SUFFICES ASSUME NoRace, Init PROVE BatchInv
  OBVIOUS
<1>1. \A t \in Thread : pc[t] = "idle" /\ key[t] = 0
  BY DEF Init
<1>2. \A k \in Key : ~HasCursor(k) /\ members[k].kind = "none" /\ k \notin leases
  BY DEF Init, HasCursor, NoMember
<1>3. \A s \in Sender : s \in Thread /\ pc[s] = "idle" /\ sent[s] = {} /\ ~aborted[s]
  BY <1>1, Roles DEF Init
<1>4. \A m \in Munger : m \in Thread /\ pc[m] = "idle" /\ key[m] = 0
  BY <1>1, Roles
<1>5. myKey = 0 /\ commits = 0 /\ \A f \in Path : amb[f] = 0
  BY DEF Init
<1>6. KeyInv
  BY <1>1, <1>2, <1>5 DEF KeyInv
<1>7. MungeInv /\ OwnSteps
  BY <1>3, <1>4, <1>5, KeyInt DEF MungeInv, OwnSteps
<1>8. OneByOne
  BY <1>3 DEF OneByOne, Registering, Begun, Live
<1>9. OwnKeys /\ Covered
  BY <1>2, <1>3 DEF OwnKeys, Covered, Begun, Live
<1>10. Progress
  BY <1>3 DEF Progress, Begun, Live
<1>11. Committed
  BY <1>3, <1>5 DEF Committed, LastCommits, At
<1> QED BY <1>6, <1>7, <1>8, <1>9, <1>10, <1>11 DEF BatchInv

LEMMA BatchStep == NoRace /\ TypeOK /\ BatchInv /\ [Next]_vars => BatchInv'
<1> SUFFICES ASSUME NoRace, TypeOK, BatchInv, [Next]_vars PROVE BatchInv'
  OBVIOUS
<1> USE DEF BatchInv
<1>1. KeyInv' /\ MungeInv' /\ OwnSteps'
  BY KeyStep, MungeStep, OwnStepsStep
<1>2. (\E s \in Sender : Sibling(s)) \/ StartSending \/ Aside
  BY StepKinds
<1>3. OneByOne'
  BY <1>2, OneByOneStep
<1>4. OwnKeys'
  BY <1>2, OwnKeysStep
<1>5. Covered'
  BY <1>2, CoveredStep
<1>6. Progress'
  BY <1>2, ProgressStep
<1>7. Committed'
  BY <1>2, CommittedStep
<1> QED BY <1>1, <1>3, <1>4, <1>5, <1>6, <1>7

LEMMA BatchCorrect == NoRace /\ Spec => []BatchInv
<1>1. NoRace /\ Init => BatchInv
  BY BatchInit
<1>2. NoRace /\ TypeOK /\ BatchInv /\ [Next]_vars => BatchInv'
  BY BatchStep
<1>3. CASE NoRace
  BY <1>1, <1>2, <1>3, RegistrationsTyped, PTL DEF Spec
<1> QED BY <1>3

(* A vault is committed at most once, and then every sibling has sent its    *)
(* part of the delta (Ods.VaultTx.commit, close): a sibling that sends is    *)
(* registered and therefore outstanding for all others, one that fails has   *)
(* aborted the vault or has sent all it had to.                              *)
THEOREM VaultIsComplete == NoRace /\ Spec => []BatchComplete
<1>1. BatchInv => BatchComplete
  BY DEF BatchInv, Committed, BatchComplete
<1> QED BY <1>1, BatchCorrect, PTL

(* The last sibling to finish commits the vault, whatever munges are         *)
(* registered at the site: all registrations with a cursor are of siblings,  *)
(* and a munge has no parent (VaultManager.unregister).                      *)
THEOREM TheLastCommits == NoRace /\ Spec => []LastCommits
<1>1. BatchInv => LastCommits
  BY DEF BatchInv, Committed
<1> QED BY <1>1, BatchCorrect, PTL
=============================================================================
