---------------------------- MODULE VaultManager ----------------------------
(* VaultManager of one site (ods/VaultManager.java) at the level of its      *)
(* threads: who is registered, which prints are locked against the purge,    *)
(* and the two locks that guard this, the delete lock (two flags under a     *)
(* Java monitor) and the globoLock (a reentrant lock).                       *)
(*                                                                           *)
(* The threads that meet here:                                               *)
(*   a munge thread writes the blocks of an AMB file (AmbHelper), for which  *)
(*   it registers the path unless another thread has;                        *)
(*   a sender is one of the siblings of one vault (Ods.VaultTx): it          *)
(*   registers its part of the delta, sends it, and the last one to          *)
(*   unregister commits the vault;                                           *)
(*   a resumer is another vault of the site that registers a ResumeFile;     *)
(*   the purger deletes a block under the delete lock (Ods.maintPurge);      *)
(*   the idle check unregisters who has not locked a print for long, until   *)
(*   it fails once.                                                          *)
EXTENDS Integers, FiniteSets

CONSTANTS
    Prints,    \* block fingerprints
    Munger,    \* munge threads
    Path,      \* AMB files
    PathOf,    \* PathOf[m]: the file whose blocks munge thread m writes
    Sender,    \* the siblings of the vault
    Parent,    \* the sibling registered first, or None
    Resumer,   \* resumed vaults
    Delta,     \* Delta[t]: the prints of a munge thread or of a sender
    None,      \* no thread
    MaxKey,    \* bound: registrations
    Faults     \* what the environment may do, see FaultKinds

(* The code forbids none of these; a run names those its schedule contains.  *)
(*  abort    a sender is canceled                                            *)
(*  timeout  a wait for a lock lasts LOCK_TIME_FATAL_SECS and throws         *)
(*  expire   a lease expires, or an operator forces all munges to unregister *)
(*           (forceUnregisterAll), while a thread works with it              *)
(*  clear    clearPrints of an expired lease throws                          *)
FaultKinds == {"abort", "timeout", "expire", "clear"}

Thread == Munger \cup Sender \cup Resumer

ASSUME VaultManagerAssumption ==
    /\ IsFiniteSet(Prints)
    /\ Munger \cap Sender = {} /\ (Munger \cup Sender) \cap Resumer = {}
    /\ None \notin Thread
    /\ Parent \in Sender \/ (Parent = None /\ Sender = {})
    /\ PathOf \in [Munger -> Path]
    /\ Delta \in [Munger \cup Sender -> SUBSET Prints]
    /\ MaxKey \in Nat \ {0} /\ Faults \subseteq FaultKinds

Key == 1..MaxKey

VARIABLES
    readFlag,   \* isDeleteReadLocked
    writeFlag,  \* isDeleteWriteLocked
    globo,      \* the thread that keeps globoLock over several steps, or None
    myKey,      \* the last key given out
    members,    \* members: the registration of a key
    leases,     \* keys of leases
    amb,        \* ambMembers, with its reverse and associates
    cache,      \* DogCrap.activeMap: the prints locked for a key
    everyone,   \* DogCrap.everyone: for how many keys a print is locked
    pc, key, cur, left,  \* per thread: step, transaction, print, still to do
    aborted,    \* meOrChildrenAborted of each sibling
    errors,     \* a sibling has failed (errorz of doVault)
    purge,      \* maintPurge: step and print
    idleCheck,  \* the idle check is still scheduled
    blocks,     \* block files on the share
    sent,       \* history: prints each sibling has sent
    commits     \* history: how often the vault was committed

locks == <<readFlag, writeFlag, globo>>
table == <<myKey, members, leases, amb, cache, everyone>>
local == <<pc, key, cur, left>>
vault == <<aborted, errors, sent, commits>>
vars  == <<locks, table, local, vault, purge, blocks, idleCheck>>

(* Registrations have a cursor unless they are munges (orderedDifFile null). *)
MemberKind == {"none", "munge", "vault"}
NoMember == [kind |-> "none", parent |-> 0, todo |-> {}]

----------------------------------------------------------------------------
(* The locks, and the operations on the tables that run under globoLock      *)

GloboFree(t) == globo \in {None, t}
ReadLock == ~writeFlag /\ readFlag' = TRUE
ReadUnlock == readFlag' = FALSE

Active(p) == everyone[p] > 0

(* DogCrap.put: a print counts once for a key.                               *)
PutEvery(k, p) ==                                             \* faulty
    everyone' = [everyone EXCEPT ![p] = @ + 1]
PutOnce(k, p) ==
    everyone' = IF p \in cache[k] THEN everyone
                                  ELSE [everyone EXCEPT ![p] = @ + 1]

(* unregister, for a set of keys: DogCrap.remove and the maps.               *)
Unregister(K) ==
    /\ members' = [k \in Key |-> IF k \in K THEN NoMember ELSE members[k]]
    /\ leases' = leases \ K
    /\ amb' = [f \in Path |-> IF amb[f] \in K THEN 0 ELSE amb[f]]
    /\ cache' = [k \in Key |-> IF k \in K THEN {} ELSE cache[k]]
    /\ everyone' = [p \in Prints |->
                       everyone[p] - Cardinality({k \in K : p \in cache[k]})]
    /\ UNCHANGED myKey

(* What unregister(k) returns: a parent, a child or a sibling is registered. *)
SameParent(k) ==                                              \* faulty
    /\ members[k].kind # "none"
    /\ \E o \in Key \ {k} :
          /\ members[o].kind # "none"
          /\ \/ o = members[k].parent
             \/ members[o].parent = k
             \/ members[o].parent = members[k].parent
Outstanding(k) ==
    /\ members[k].kind # "none"
    /\ \E o \in Key \ {k} :
          /\ members[o].kind # "none"
          /\ \/ o = members[k].parent
             \/ members[o].parent = k
             \/ members[o].parent = members[k].parent /\ members[k].parent # -1

Goto(t, where) == pc' = [pc EXCEPT ![t] = where]
At(t, where) == pc[t] = where

----------------------------------------------------------------------------
(* Registration.  registerMunge keeps globoLock around register; makeVault   *)
(* and doVault call register without it.                                     *)

(* AmbHelper.getOrRegister for the next block of the file.                   *)
RegisterUnchecked(m) ==                                       \* faulty
    /\ m \in Munger /\ At(m, "idle") /\ GloboFree(m)
    /\ \E p \in left[m] : cur' = [cur EXCEPT ![m] = p]
    /\ key' = [key EXCEPT ![m] = amb[PathOf[m]]]
    /\ Goto(m, "lock")
    /\ UNCHANGED <<locks, table, left, vault, purge, blocks, idleCheck>>
RegisterMunge(m) ==
    /\ m \in Munger /\ At(m, "idle") /\ GloboFree(m)
    /\ \E p \in left[m] : cur' = [cur EXCEPT ![m] = p]
    /\ IF amb[PathOf[m]] # 0
       THEN /\ key' = [key EXCEPT ![m] = amb[PathOf[m]]]
            /\ Goto(m, "lock") /\ UNCHANGED globo
       ELSE /\ myKey < MaxKey
            /\ globo' = m /\ Goto(m, "register") /\ UNCHANGED key
    /\ UNCHANGED <<readFlag, writeFlag, table, left, vault, purge, blocks,
                   idleCheck>>

(* makeVault registers the siblings one by one, the parent first, and doVault*)
(* a ResumeFile.                                                             *)
Begin(t) ==
    /\ t \in Sender \cup Resumer /\ At(t, "idle")
    /\ t \in Sender => \A s \in Sender : pc[s] \in {"idle", "registered"}
    /\ t \in Sender \ {Parent} => At(Parent, "registered")
    /\ Goto(t, "register")
    /\ UNCHANGED <<locks, table, key, cur, left, vault, purge, blocks,
                   idleCheck>>

RegisterLock(t) ==
    /\ At(t, "register") /\ ReadLock
    /\ Goto(t, "put")
    /\ UNCHANGED <<writeFlag, globo, table, key, cur, left, vault, purge,
                   blocks, idleCheck>>

RegisterPut(t) ==
    /\ At(t, "put") /\ GloboFree(t) /\ myKey < MaxKey
    /\ myKey' = myKey + 1
    /\ members' = [members EXCEPT ![myKey'] =
          [kind |-> IF t \in Munger THEN "munge" ELSE "vault",
           parent |-> IF t \in Sender \ {Parent} THEN key[Parent] ELSE -1,
           todo |-> IF t \in Sender THEN Delta[t] ELSE {}]]
    /\ Goto(t, "close")
    /\ UNCHANGED <<locks, leases, amb, cache, everyone, key, cur, left, vault,
                   purge, blocks, idleCheck>>

RegisterClose(t) ==
    /\ At(t, "close") /\ ReadUnlock
    /\ Goto(t, "return")
    /\ UNCHANGED <<writeFlag, globo, table, key, cur, left, vault, purge,
                   blocks, idleCheck>>

(* "return myKey" reads the field after both locks are gone.                 *)
RegisterReturn(t) ==
    /\ At(t, "return")
    /\ key' = [key EXCEPT ![t] = myKey]
    /\ IF t \in Munger
       THEN /\ amb' = [amb EXCEPT ![PathOf[t]] = myKey] /\ globo' = None
            /\ Goto(t, "lock")
       ELSE /\ Goto(t, IF t \in Resumer THEN "advance" ELSE "reveal")
            /\ UNCHANGED <<amb, globo>>
    /\ UNCHANGED <<readFlag, writeFlag, myKey, members, leases, cache,
                   everyone, cur, left, vault, purge, blocks, idleCheck>>

HasCursor(k) == members[k].kind = "vault"

(* The VaultTx asks for its cursor; without one makeVault fails, and what it *)
(* has registered stays.                                                     *)
RevealCursor(s) ==
    /\ s \in Sender /\ At(s, "reveal") /\ GloboFree(s)
    /\ Goto(s, IF HasCursor(key[s]) THEN "registered" ELSE "failed")
    /\ UNCHANGED <<locks, table, key, cur, left, vault, purge, blocks,
                   idleCheck>>

(* makeVault is canceled between two registrations, or later.                *)
CancelMakeVault(s) ==
    /\ s \in Sender /\ At(s, "registered") /\ "abort" \in Faults
    /\ Goto(s, "failed")
    /\ UNCHANGED <<locks, table, key, cur, left, vault, purge, blocks,
                   idleCheck>>

(* makeVault returns, and the siblings begin to send.                        *)
StartSending ==
    /\ Sender # {} /\ \A s \in Sender : At(s, "registered")
    /\ pc' = [t \in Thread |-> IF t \in Sender THEN "next" ELSE pc[t]]
    /\ UNCHANGED <<locks, table, key, cur, left, vault, purge, blocks,
                   idleCheck>>

(* register(ResumeFile): the cursor of what it takes for its own member is   *)
(* moved to the end.                                                         *)
ResumeAdvance(r) ==
    /\ r \in Resumer /\ At(r, "advance") /\ GloboFree(r)
    /\ IF HasCursor(key[r])
       THEN /\ members' = [members EXCEPT ![key[r]].todo = {}]
            /\ Goto(r, "unregister")
       ELSE Goto(r, "failed") /\ UNCHANGED members
    /\ UNCHANGED <<locks, myKey, leases, amb, cache, everyone, key, cur, left,
                   vault, purge, blocks, idleCheck>>

ResumeUnregister(r) ==
    /\ r \in Resumer /\ At(r, "unregister") /\ GloboFree(r)
    /\ Unregister({key[r]})
    /\ Goto(r, "done")
    /\ UNCHANGED <<locks, key, cur, left, vault, purge, blocks, idleCheck>>

----------------------------------------------------------------------------
(* lockPrint, under the delete lock for reading; then the block is written   *)

LockEnter(t) ==
    /\ At(t, "lock") /\ ReadLock
    /\ Goto(t, "lockPut")
    /\ UNCHANGED <<writeFlag, globo, table, key, cur, left, vault, purge,
                   blocks, idleCheck>>

LockPutNoLease(t) ==                                          \* faulty
    /\ At(t, "lockPut") /\ GloboFree(t)
    /\ PutOnce(key[t], cur[t])
    /\ cache' = [cache EXCEPT ![key[t]] = @ \cup {cur[t]}]
    /\ Goto(t, "lockClose")
    /\ UNCHANGED <<locks, myKey, members, leases, amb, key, cur, left, vault,
                   purge, blocks, idleCheck>>
LockPut(t) ==
    /\ At(t, "lockPut") /\ GloboFree(t)
    /\ PutOnce(key[t], cur[t])
    /\ cache' = [cache EXCEPT ![key[t]] = @ \cup {cur[t]}]
    /\ leases' = leases \cup {key[t]}
    /\ Goto(t, "lockClose")
    /\ UNCHANGED <<locks, myKey, members, amb, key, cur, left, vault, purge,
                   blocks, idleCheck>>

LockClose(t) ==
    /\ At(t, "lockClose") /\ ReadUnlock
    /\ Goto(t, "send")
    /\ UNCHANGED <<writeFlag, globo, table, key, cur, left, vault, purge,
                   blocks, idleCheck>>

(* doWriteBlock, or sendPrint; a sender stops when a sibling has failed.     *)
Send(t) ==
    /\ At(t, "send")
    /\ blocks' = blocks \cup {cur[t]}
    /\ left' = [left EXCEPT ![t] = @ \ {cur[t]}]
    /\ sent' = IF t \in Sender THEN [sent EXCEPT ![t] = @ \cup {cur[t]}] ELSE sent
    /\ Goto(t, IF t \in Munger THEN "idle" ELSE IF errors THEN "abort" ELSE "next")
    /\ UNCHANGED <<locks, table, key, cur, aborted, errors, commits, purge,
                   idleCheck>>

----------------------------------------------------------------------------
(* The senders of a vault                                                    *)

(* vaultNext, and after the last print the check of VaultTx.commit; without  *)
(* a cursor it throws.                                                       *)
VaultNext(s) ==
    /\ s \in Sender /\ At(s, "next") /\ GloboFree(s)
    /\ IF ~HasCursor(key[s])
       THEN Goto(s, "abort") /\ UNCHANGED <<members, cur>>
       ELSE IF members[key[s]].todo = {}
       THEN Goto(s, "commit") /\ UNCHANGED <<members, cur>>
       ELSE \E p \in members[key[s]].todo :
               /\ members' = [members EXCEPT ![key[s]].todo = @ \ {p}]
               /\ cur' = [cur EXCEPT ![s] = p]
               /\ Goto(s, "lock")
    /\ UNCHANGED <<locks, myKey, leases, amb, cache, everyone, key, left,
                   vault, purge, blocks, idleCheck>>

(* VaultTx.commit: the last of the siblings commits, unless it or the parent *)
(* was aborted.                                                              *)
Commit(s) ==
    /\ s \in Sender /\ At(s, "commit") /\ GloboFree(s)
    /\ Unregister({key[s]})
    /\ commits' = IF Outstanding(key[s]) \/ aborted[s] \/ aborted[Parent]
                  THEN commits ELSE commits + 1
    /\ Goto(s, "done")
    /\ UNCHANGED <<locks, key, cur, left, aborted, errors, sent, purge,
                   blocks, idleCheck>>

(* VaultTx.close of a sender that did not commit, and errorz.add.            *)
CloseSelf(s) ==                                               \* faulty
    /\ s \in Sender /\ GloboFree(s)
    /\ At(s, "abort") \/ (At(s, "next") /\ "abort" \in Faults)
    /\ aborted' = [aborted EXCEPT ![s] = TRUE]
    /\ errors' = TRUE
    /\ Unregister({key[s]})
    /\ Goto(s, "failed")
    /\ UNCHANGED <<locks, key, cur, left, sent, commits, purge, blocks,
                   idleCheck>>
Close(s) ==
    /\ s \in Sender /\ GloboFree(s)
    /\ At(s, "abort") \/ (At(s, "next") /\ "abort" \in Faults)
    /\ aborted' = [aborted EXCEPT ![s] = TRUE, ![Parent] = TRUE]
    /\ errors' = TRUE
    /\ Unregister({key[s]})
    /\ Goto(s, "failed")
    /\ UNCHANGED <<locks, key, cur, left, sent, commits, purge, blocks,
                   idleCheck>>

----------------------------------------------------------------------------
(* unregisterMunge at the end of the job, the idle check, and timeouts       *)

UnregisterMunge(f) ==
    /\ globo = None /\ amb[f] # 0
    /\ \A m \in Munger : PathOf[m] = f => At(m, "idle") /\ left[m] = {}
    /\ Unregister({amb[f]})
    /\ UNCHANGED <<locks, local, vault, purge, blocks, idleCheck>>

(* A thread works with key k.                                                *)
Busy(k) == \E t \in Thread : key[t] = k /\ pc[t] \notin {"idle", "done", "failed"}

(* The keys whose leases are, or may be taken for, too old.                  *)
Expired == IF "expire" \in Faults THEN leases ELSE {k \in leases : ~Busy(k)}

CheckForIdleRegisters ==
    /\ idleCheck /\ globo = None
    /\ \E K \in (SUBSET Expired) \ {{}} : Unregister(K)
    /\ UNCHANGED <<locks, local, vault, purge, blocks, idleCheck>>

(* scheduleAtFixedRate runs a task no more that has thrown: tryLock does when*)
(* globoLock is not had in time, and clearPrints, between two keys.          *)
IdleCheckThrows ==
    /\ idleCheck /\ idleCheck' = FALSE
    /\ \/ "timeout" \in Faults /\ globo # None /\ UNCHANGED table
       \/ /\ "clear" \in Faults /\ globo = None
          /\ \E K \in (SUBSET Expired) \ {Expired} : Unregister(K)
    /\ UNCHANGED <<locks, local, vault, purge, blocks>>

(* An operator's command: all leases, or those before clearPrints throws.    *)
forceUnregisterAll ==
    /\ "expire" \in Faults /\ globo = None
    /\ \E K \in (SUBSET leases) \ {{}} :
          /\ K = leases \/ "clear" \in Faults
          /\ Unregister(K)
    /\ UNCHANGED <<locks, local, vault, purge, blocks, idleCheck>>

(* The delete lock is not had in time: register and lockPrint throw, what    *)
(* was locked is unlocked; the client of a munge thread gets REZ_IO.         *)
TimeoutDelete(t) ==
    /\ "timeout" \in Faults /\ writeFlag
    /\ pc[t] \in {"register", "lock"}
    /\ globo' = IF globo = t THEN None ELSE globo
    /\ left' = [left EXCEPT ![t] = @ \ {cur[t]}]
    /\ Goto(t, IF t \in Munger THEN "idle"
               ELSE IF At(t, "lock") THEN "abort" ELSE "failed")
    /\ UNCHANGED <<readFlag, writeFlag, table, key, cur, vault, purge, blocks,
                   idleCheck>>

(* globoLock is not had in time.                                             *)
TimeoutGlobo(t) ==
    /\ "timeout" \in Faults /\ ~GloboFree(t)
    /\ pc[t] \in {"put", "reveal", "advance", "unregister", "lockPut", "next",
                  "commit", "abort"}
    /\ readFlag' = IF pc[t] \in {"put", "lockPut"} THEN FALSE ELSE readFlag
    /\ errors' = (errors \/ pc[t] \in {"commit", "abort"})
    /\ aborted' = IF At(t, "abort")
                  THEN [aborted EXCEPT ![t] = TRUE, ![Parent] = TRUE] ELSE aborted
    /\ left' = [left EXCEPT ![t] = @ \ {cur[t]}]
    /\ Goto(t, IF t \in Munger THEN "idle"
               ELSE IF pc[t] \in {"lockPut", "next"} THEN "abort" ELSE "failed")
    /\ UNCHANGED <<writeFlag, globo, table, key, cur, sent, commits, purge,
                   blocks, idleCheck>>

----------------------------------------------------------------------------
(* The purger, for a batch of one print                                      *)

PurgeLock ==
    /\ purge.pc = "idle" /\ ~writeFlag /\ ~readFlag
    /\ \E p \in blocks : purge' = [pc |-> "ask", print |-> {p}]
    /\ writeFlag' = TRUE
    /\ UNCHANGED <<readFlag, globo, table, local, vault, blocks, idleCheck>>

PurgeAsk ==
    /\ purge.pc = "ask" /\ globo = None
    /\ purge' = [pc |-> "unlink",
                 print |-> {p \in purge.print : ~Active(p)}]
    /\ UNCHANGED <<locks, table, local, vault, blocks, idleCheck>>

PurgeUnlink ==
    /\ purge.pc = "unlink"
    /\ blocks' = blocks \ purge.print
    /\ purge' = [pc |-> "unlock", print |-> {}]
    /\ UNCHANGED <<locks, table, local, vault, idleCheck>>

PurgeTimeoutKeeps ==                                          \* faulty
    /\ "timeout" \in Faults /\ purge.pc = "ask" /\ globo # None
    /\ purge' = [pc |-> "idle", print |-> {}]
    /\ UNCHANGED <<locks, table, local, vault, blocks, idleCheck>>
PurgeTimeout ==
    /\ "timeout" \in Faults /\ purge.pc = "ask" /\ globo # None
    /\ purge' = [pc |-> "unlock", print |-> {}]
    /\ UNCHANGED <<locks, table, local, vault, blocks, idleCheck>>

PurgeUnlock ==
    /\ purge.pc = "unlock"
    /\ writeFlag' = FALSE /\ purge' = [purge EXCEPT !.pc = "idle"]
    /\ UNCHANGED <<readFlag, globo, table, local, vault, blocks, idleCheck>>

----------------------------------------------------------------------------
(* No one is registered; the share may hold blocks of earlier vaults.        *)
Init ==
    /\ readFlag = FALSE /\ writeFlag = FALSE /\ globo = None /\ myKey = 0
    /\ members = [k \in Key |-> NoMember] /\ leases = {}
    /\ amb = [f \in Path |-> 0]
    /\ cache = [k \in Key |-> {}] /\ everyone = [p \in Prints |-> 0]
    /\ pc = [t \in Thread |-> "idle"] /\ key = [t \in Thread |-> 0]
    /\ cur = [t \in Thread |-> None]
    /\ left = [t \in Thread |-> IF t \in Munger THEN Delta[t] ELSE {}]
    /\ aborted = [s \in Sender |-> FALSE] /\ errors = FALSE
    /\ purge = [pc |-> "idle", print |-> {}] /\ idleCheck = TRUE
    /\ blocks \in SUBSET Prints
    /\ sent = [s \in Sender |-> {}] /\ commits = 0

Step(t) == \/ RegisterMunge(t) \/ Begin(t) \/ RegisterLock(t) \/ RegisterPut(t)
           \/ RegisterClose(t) \/ RegisterReturn(t)
           \/ RevealCursor(t) \/ CancelMakeVault(t)
           \/ ResumeAdvance(t) \/ ResumeUnregister(t)
           \/ LockEnter(t) \/ LockPut(t) \/ LockClose(t) \/ Send(t)
           \/ VaultNext(t) \/ Commit(t) \/ Close(t)
           \/ TimeoutDelete(t) \/ TimeoutGlobo(t)
Purger == PurgeLock \/ PurgeAsk \/ PurgeUnlink \/ PurgeTimeout \/ PurgeUnlock

Next == \/ \E t \in Thread : Step(t)
        \/ StartSending
        \/ \E f \in Path : UnregisterMunge(f)
        \/ CheckForIdleRegisters \/ IdleCheckThrows \/ forceUnregisterAll
        \/ Purger

Spec == Init /\ [][Next]_vars

(* A thread of the engine that has begun goes on, waits for a lock no longer *)
(* than LOCK_TIME_FATAL_SECS, and the idle check runs every minute unless it *)
(* has thrown.  Nothing obliges a purge to begin, or an operator to force.   *)
FairSpec == /\ Spec
            /\ \A t \in Thread : WF_vars(Step(t))
            /\ WF_vars(StartSending) /\ WF_vars(CheckForIdleRegisters)
            /\ WF_vars(PurgeAsk \/ PurgeUnlink \/ PurgeTimeout \/ PurgeUnlock)

----------------------------------------------------------------------------
(* Properties                                                                *)

Pc == {"idle", "register", "put", "close", "return", "reveal", "registered",
       "advance", "unregister", "lock", "lockPut", "lockClose", "send", "next",
       "commit", "abort", "done", "failed"}
Member == [kind: MemberKind, parent: Key \cup {0, -1}, todo: SUBSET Prints]
Working == {"reveal", "registered", "advance", "unregister", "lock", "lockPut",
            "lockClose", "send", "next", "commit", "abort"}

TableType == /\ myKey \in Key \cup {0} /\ members \in [Key -> Member]
             /\ leases \in SUBSET Key /\ amb \in [Path -> Key \cup {0}]
             /\ cache \in [Key -> SUBSET Prints] /\ everyone \in [Prints -> Int]
LocalType == /\ pc \in [Thread -> Pc] /\ key \in [Thread -> Key \cup {0}]
             /\ cur \in [Thread -> Prints \cup {None}]
             /\ left \in [Thread -> SUBSET Prints]
Types == /\ readFlag \in BOOLEAN /\ writeFlag \in BOOLEAN
         /\ globo \in Munger \cup {None}
         /\ TableType /\ LocalType
         /\ aborted \in [Sender -> BOOLEAN] /\ errors \in BOOLEAN
         /\ purge \in [pc: {"idle", "ask", "unlink", "unlock"},
                       print: SUBSET Prints]
         /\ blocks \in SUBSET Prints /\ idleCheck \in BOOLEAN
         /\ sent \in [Sender -> SUBSET Prints] /\ commits \in Nat
KeysGiven == /\ \A t \in Thread : pc[t] \in Working => key[t] \in Key
             /\ \A t \in Thread : pc[t] \in {"close", "return"} => myKey \in Key
             /\ \A t \in Thread :
                   \/ pc[t] \in {"lock", "lockPut", "lockClose", "send"}
                   \/ t \in Munger /\ pc[t] \in {"register", "put", "close", "return"}
                   => cur[t] \in Prints

(* Every variable keeps its type, a thread that works with the tables has a  *)
(* key that was given out, and one that locks a print has the print.         *)
TypeOK == Types /\ KeysGiven

(* DogCrap.everyone counts the transactions that lock a print: the purger    *)
(* asks it alone (isActivePrint), so a count that is too low gives up a      *)
(* block that is being vaulted, and one too high keeps it for ever.          *)
CountExact == \A p \in Prints :
    everyone[p] = Cardinality({k \in Key : p \in cache[k]})

(* A print that is locked for a transaction has its block on the share, or a *)
(* thread is still about to write it: "Obtain a VaultManager lock to prevent *)
(* new vaulters from sneaking in" (Ods.java:633).                            *)
LockedKept == \A k \in Key : \A p \in cache[k] :
    \/ p \in blocks
    \/ \E t \in Thread : key[t] = k /\ cur[t] = p /\ pc[t] \in {"lockClose", "send"}

(* A vault is committed once, and only after every sibling has sent its part *)
(* of the delta: "Wrap up this vault after all vaults have been sent".       *)
BatchComplete == /\ commits <= 1
                 /\ commits = 1 => \A s \in Sender : sent[s] = Delta[s]

(* When every sibling has finished without an abort, the last one of them    *)
(* has committed the vault, whoever else is registered at the site.          *)
LastCommits == Sender # {} /\ (\A s \in Sender : At(s, "done")) => commits = 1

(* No lock is kept for ever, whatever wait ends by a timeout.                *)
LocksReleased == /\ writeFlag ~> ~writeFlag
                 /\ readFlag ~> ~readFlag
                 /\ globo # None ~> globo = None

(* A print does not stay locked when all who work with it are gone, be it    *)
(* that a job never unregisters its munge: as long as the idle check is      *)
(* scheduled, the lease ends it.  A check that has thrown is never run again *)
(* (VaultManager.java:78), and such a print is then kept until a restart.    *)
PrintsReleased == \A p \in Prints : Active(p) ~> (~Active(p) \/ ~idleCheck)
=============================================================================
