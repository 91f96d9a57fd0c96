---------------------------- MODULE FuseSlotsProofs ----------------------------
(***************************************************************************)
(* Theorems about FuseSlots: types, the slots of the pool, that a call     *)
(* reads its own answer and all of it, and that none waits in vain, for any*)
(* number of threads, slots and requests, any sizes and either fault.      *)
(***************************************************************************)
EXTENDS FuseSlots, TLAPS

(* A thread in a call has a slot, a request of its own, and never received  *)
(* more than it wanted.                                                     *)
CallInv ==
    /\ \A c \in Client :
          /\ client[c].pc = "idle" => client[c].slot = None
          /\ client[c].pc # "idle" => client[c].req <= count
          /\ client[c].got <= client[c].want
          /\ client[c].pc \in {"reset", "write"} =>
                work[client[c].req].st = "none" /\ client[c].taken = 0
          /\ client[c].pc = "recv" =>
                work[client[c].req].st # "none" /\ work[client[c].req].slot = client[c].slot
    /\ \A c, d \in Client :
          client[c].pc # "idle" /\ client[d].pc # "idle" /\ client[c].req = client[d].req
          => c = d

(* Workers exist for requests that were made, and send nothing before they  *)
(* have an answer.                                                          *)
WorkInv ==
    \A r \in Requests :
        /\ work[r].st # "none" => r <= count
        /\ work[r].st \in {"none", "asked"} => work[r].sent = 0
        /\ work[r].sent <= work[r].len

(* Nobody but the worker of a call writes to its slot, if nobody else had   *)
(* it to begin with; what the slot holds continues what the call has taken, *)
(* and with it makes up what the worker has sent.                           *)
SoleWorker(c) ==
    \A r \in Requests :
        work[r].st \in {"asked", "sending"} /\ work[r].slot = client[c].slot
        => client[c].pc = "recv" /\ r = client[c].req

Continues(c) ==
    LET k == client[c]
        b == slot[k.slot]
    IN  /\ b.flag = "waiting" => k.taken = work[k.req].sent
        /\ b.flag # "waiting" =>
              b.req = k.req /\ b.from = k.taken /\ k.taken + b.len = work[k.req].sent

Answer(c) ==
    client[c].alone =>
        /\ client[c].pc \in {"write", "recv"} => SoleWorker(c)
        /\ client[c].pc = "write" =>
              slot[client[c].slot].flag = "waiting"
        /\ client[c].pc = "recv" => Continues(c)

AnswerInv == \A c \in Client : Answer(c)

(* A slot has one holder at most, in the pool, in a call, or leaked.        *)
PoolInv ==
    /\ \A c, d \in Client : client[c].slot \in Slot /\ client[c].slot = client[d].slot => c = d
    /\ \A c \in Client : client[c].slot \notin free \cup leaked
    /\ free \cap leaked = {}
    /\ \A s \in Slot : s \in free \cup leaked \/ \E c \in Client : client[c].slot = s

Inv == TypeOK /\ CallInv /\ WorkInv /\ AnswerInv /\ PoolInv

SlotFlags == {"waiting", "sending", "underread"}
Parts == {"all", "length", "name"}
WorkStates == {"none", "asked", "sending", "sent", "gaveUp"}

Buffer == [flag : SlotFlags, req : Requests \cup {None}, from : Nat, len : Nat]
Call == [pc : Calls, req : Requests \cup {None}, slot : Slot \cup {None}, kind : Kinds,
         part : Parts, want : Nat, got : Nat, taken : Nat, failed : BOOLEAN, alone : BOOLEAN]
Job == [st : WorkStates, slot : Slot \cup {None}, kind : Kinds, want : Nat, len : Nat, sent : Nat]

(* TypeOK in the words of this module.                                      *)
LEMMA Types ==
    TypeOK <=> /\ free \subseteq Slot
               /\ slot \in [Slot -> Buffer]
               /\ client \in [Client -> Call]
               /\ work \in [Requests -> Job]
               /\ count \in 0..MaxReq
               /\ leaked \subseteq Slot
               /\ \A c \in Client : client[c].pc # "idle" =>
                     client[c].slot \in Slot /\ client[c].req \in Requests
               /\ \A r \in Requests : work[r].st # "none" => work[r].slot \in Slot
  BY DEF TypeOK, Buffer, Call, Job, SlotFlags, Parts, WorkStates

LEMMA ResetIsBuffer == Reset \in Buffer
  BY DEF Reset, Buffer, SlotFlags

LEMMA IdleIsCall == Idle \in Call
  BY DEF Idle, Call, Calls, Kinds, Parts

LEMMA WantsAreNat ==
    ASSUME NEW kind \in Kinds, NEW want \in Wants(kind)
    PROVE  want \in Nat
  BY SlotsAssumption DEF Kinds, Wants

(* An answer's length is a number.                                          *)
LEMMA AnswersAreNat ==
    ASSUME NEW w \in Job, NEW len \in Answers(w)
    PROVE  len \in Nat
<1>1. \A n \in Names : n * (Name + 1) + 1 \in Nat
  BY SlotsAssumption
<1> QED
  BY <1>1 DEF Job, Kinds, Answers

(* The next part of a call keeps its slot and its request and counts what   *)
(* it took.                                                                 *)
LEMMA NextPartIsCall ==
    ASSUME NEW c \in Client, NEW amt \in Nat, client[c] \in Call, client[c].pc = "recv",
           client[c].got + amt <= client[c].want,
           NEW next \in NextPart(c, amt)
    PROVE  /\ next \in Call
           /\ next.pc \in {"recv", "unlink"}
           /\ next.slot = client[c].slot
           /\ next.req = client[c].req /\ next.kind = client[c].kind
           /\ next.alone = client[c].alone
           /\ next.taken = client[c].taken + amt
           /\ next.got <= next.want
<1> DEFINE k == client[c]
           total == k.taken + amt
           done(f) == [k EXCEPT !.pc = "unlink", !.taken = total, !.got = @ + amt, !.failed = f]
           more(p, want) == [k EXCEPT !.part = p, !.want = want, !.got = 0, !.taken = total]
<1>1. next \in {done(TRUE), done(FALSE), more("name", Name), more("length", 1)}
  <2> DEFINE exact == amt > 0 /\ total = ((total - 1) \div (Name + 1)) * (Name + 1) + 1
             last == total = work[k.req].len
  <2> HIDE DEF exact, last
  <2>1. CASE k.part = "all"
    <3>1. next = done(k.kind = "attr" /\ k.got + amt # k.want)
      BY <2>1, Zenon DEF NextPart
    <3>2. (k.kind = "attr" /\ k.got + amt # k.want) \in BOOLEAN
      OBVIOUS
    <3> HIDE DEF done
    <3> QED BY <3>1, <3>2
  <2>2. CASE k.part = "length"
    <3>1. next \in (IF amt = 0 \/ ~exact \/ last THEN {done(FALSE)} ELSE {})
               \cup (IF amt > 0 /\ (~exact \/ ~last) THEN {more("name", Name)} ELSE {})
               \cup (IF amt > 0 /\ ~exact THEN {done(TRUE)} ELSE {})
      BY <2>2, Zenon DEF NextPart, exact, last
    <3> HIDE DEF done, more
    <3> QED BY <3>1
  <2>3. CASE k.part = "name"
    <3>1. next \in IF amt = 0 THEN {done(FALSE)} ELSE {more("length", 1)}
      BY <2>3, Zenon DEF NextPart
    <3> HIDE DEF done, more
    <3> QED BY <3>1
  <2> QED BY <2>1, <2>2, <2>3 DEF Call, Parts
<1>2. k \in Call /\ total \in Nat /\ k.got + amt \in Nat /\ Name \in Nat
  BY SlotsAssumption DEF Call
<1>3. \A f \in BOOLEAN : /\ done(f) \in Call /\ done(f).pc = "unlink"
                         /\ done(f).slot = k.slot /\ done(f).req = k.req
                         /\ done(f).kind = k.kind
                         /\ done(f).alone = k.alone /\ done(f).taken = total
                         /\ done(f).got <= done(f).want
  BY <1>2 DEF Call, Calls
<1>4. ASSUME NEW p \in Parts, NEW n \in Nat
      PROVE  /\ more(p, n) \in Call /\ more(p, n).pc = "recv"
             /\ more(p, n).slot = k.slot /\ more(p, n).req = k.req
             /\ more(p, n).kind = k.kind
             /\ more(p, n).alone = k.alone /\ more(p, n).taken = total
             /\ more(p, n).got <= more(p, n).want
  <2>1. more(p, n) \in Call
    BY <1>2 DEF Call
  <2>2. more(p, n).want = n /\ more(p, n).got = 0 /\ more(p, n).taken = total
    BY <1>2 DEF Call
  <2>3. more(p, n).pc = "recv" /\ more(p, n).slot = k.slot /\ more(p, n).req = k.req
        /\ more(p, n).alone = k.alone /\ more(p, n).kind = k.kind
    BY <1>2 DEF Call
  <2> HIDE DEF more
  <2> QED BY <2>1, <2>2, <2>3
<1> HIDE DEF done, more
<1>5. "name" \in Parts /\ "length" \in Parts /\ 1 \in Nat
  BY DEF Parts
<1>6. CASE next = done(TRUE)
  BY <1>3, <1>6
<1>7. CASE next = done(FALSE)
  BY <1>3, <1>7
<1>8. CASE next = more("name", Name)
  BY <1>2, <1>4, <1>5, <1>8
<1>9. CASE next = more("length", 1)
  BY <1>4, <1>5, <1>9
<1> QED BY <1>1, <1>6, <1>7, <1>8, <1>9
-----------------------------------------------------------------------------
(* A step that leaves a call, its slot and its worker alone keeps Answer.   *)
LEMMA OthersKeep ==
    ASSUME NEW d \in Client, Answer(d), client'[d] = client[d],
           client[d].pc \in {"write", "recv"} =>
              /\ slot'[client[d].slot] = slot[client[d].slot]
              /\ work'[client[d].req].sent = work[client[d].req].sent
              /\ \A r \in Requests :
                    work'[r].st \in {"asked", "sending"} /\ work'[r].slot = client[d].slot
                    => work[r].st \in {"asked", "sending"} /\ work[r].slot = client[d].slot
    PROVE  Answer(d)'
<1>1. CASE client[d].pc \in {"write", "recv"}
  <2>1. SoleWorker(d) => SoleWorker(d)'
    BY <1>1 DEF SoleWorker
  <2>2. Continues(d) => Continues(d)'
    BY <1>1 DEF Continues
  <2> QED BY <1>1, <2>1, <2>2 DEF Answer
<1>2. CASE client[d].pc \notin {"write", "recv"}
  BY <1>2 DEF Answer
<1> QED BY <1>1, <1>2

LEMMA InitInv == Init => Inv
<1> SUFFICES ASSUME Init PROVE Inv
  OBVIOUS
<1> USE DEF Init
<1>1. TypeOK
  <2>1. Reset \in Buffer /\ [Reset EXCEPT !.flag = "sending"] \in Buffer
    BY DEF Reset, Buffer, SlotFlags
  <2>2. NoWork \in Job /\ NoWork.st = "none" /\ NoWork.sent = 0
    BY DEF NoWork, Job, WorkStates, Kinds
  <2>3. Idle \in Call /\ Idle.pc = "idle"
    BY IdleIsCall DEF Idle
  <2>4. 0 \in 0..MaxReq
    BY SlotsAssumption
  <2> QED BY <2>1, <2>2, <2>3, <2>4, Types
<1>2. CallInv
  BY SlotsAssumption DEF CallInv, Idle
<1>3. WorkInv
  BY DEF WorkInv, NoWork
<1>4. AnswerInv
  BY DEF AnswerInv, Answer, Idle
<1>5. PoolInv
  BY SlotsAssumption DEF PoolInv, Idle
<1> QED BY <1>1, <1>2, <1>3, <1>4, <1>5 DEF Inv

(* The client takes a slot.                                                 *)
LEMMA GetKeeps ==
    ASSUME Inv, NEW c \in Client, blkfs_get_next_datafile(c)
    PROVE  Inv'
<1> USE DEF blkfs_get_next_datafile
<1>1. PICK s \in free, kind \in Kinds : \E want \in Wants(kind) :
          /\ free' = free \ {s}
          /\ client' = [client EXCEPT ![c] =
                          [Idle EXCEPT !.pc = "reset", !.req = count + 1, !.slot = s,
                                       !.kind = kind, !.want = want,
                                       !.part = IF kind = "list" THEN "length" ELSE "all"]]
  OBVIOUS
<1>2. PICK want \in Wants(kind) :
          /\ free' = free \ {s}
          /\ client' = [client EXCEPT ![c] =
                          [Idle EXCEPT !.pc = "reset", !.req = count + 1, !.slot = s,
                                       !.kind = kind, !.want = want,
                                       !.part = IF kind = "list" THEN "length" ELSE "all"]]
  BY <1>1
<1> DEFINE new == [Idle EXCEPT !.pc = "reset", !.req = count + 1, !.slot = s,
                               !.kind = kind, !.want = want,
                               !.part = IF kind = "list" THEN "length" ELSE "all"]
<1>3. /\ s \in Slot /\ count + 1 \in Requests /\ count + 1 \in 0..MaxReq /\ count \in Nat
      /\ want \in Nat
  BY WantsAreNat, SlotsAssumption DEF Inv, TypeOK, Requests
<1>4. /\ new \in Call /\ new.pc = "reset" /\ new.req = count + 1 /\ new.slot = s
      /\ new.got = 0 /\ new.want = want /\ new.taken = 0 /\ new.alone = FALSE
  BY <1>3 DEF Idle, Call, Calls, Kinds, Parts
<1>5. /\ client \in [Client -> Call] /\ client' = [client EXCEPT ![c] = new]
  BY <1>2, Types DEF Inv
<1> HIDE DEF new
<1>6. /\ client'[c] = new /\ client' \in [Client -> Call]
      /\ \A d \in Client : d # c => client'[d] = client[d]
  BY <1>4, <1>5
<1>7. work[count + 1].st = "none"
  BY <1>3 DEF Inv, WorkInv
<1>8. TypeOK'
  BY <1>2, <1>3, <1>4, <1>6, Types DEF Inv, TypeOK, Buffer, Call, Job, SlotFlags, Parts, WorkStates
<1>9. CallInv'
  <2>1. \A d \in Client : client[d].pc # "idle" => client[d].req \in Nat
    BY DEF Inv, TypeOK, Requests
  <2>2. ASSUME NEW d \in Client
        PROVE  /\ client'[d].pc = "idle" => client'[d].slot = None
               /\ client'[d].pc # "idle" => client'[d].req <= count'
               /\ client'[d].got <= client'[d].want
               /\ client'[d].pc \in {"reset", "write"} =>
                     work'[client'[d].req].st = "none" /\ client'[d].taken = 0
               /\ client'[d].pc = "recv" =>
                     /\ work'[client'[d].req].st # "none"
                     /\ work'[client'[d].req].slot = client'[d].slot
    <3>1. CASE d = c
      <4>1. client'[d] = new /\ work' = work /\ count' = count + 1
        BY <1>6, <3>1
      <4>2. new.got <= new.want /\ new.req <= count'
        BY <1>3, <1>4, <4>1
      <4> QED BY <1>4, <1>7, <4>1, <4>2
    <3>2. CASE d # c
      BY <1>3, <1>6, <2>1, <3>2 DEF Inv, CallInv
    <3> QED BY <3>1, <3>2
  <2>3. ASSUME NEW d \in Client, NEW e \in Client,
               client'[d].pc # "idle", client'[e].pc # "idle", client'[d].req = client'[e].req
        PROVE  d = e
    <3>1. \A x \in Client \ {c} : client[x].pc # "idle" => client[x].req # count + 1
      BY <1>3, <2>1 DEF Inv, CallInv
    <3> QED BY <1>4, <1>6, <2>3, <3>1 DEF Inv, CallInv
  <2> QED BY <2>2, <2>3 DEF CallInv
<1>10. WorkInv'
  BY <1>3 DEF Inv, WorkInv, Requests
<1>11. AnswerInv'
  <2>1. \A d \in Client \ {c} : Answer(d)'
    BY <1>6, OthersKeep DEF Inv, AnswerInv
  <2>2. Answer(c)'
    BY <1>4, <1>6 DEF Answer
  <2> QED BY <2>1, <2>2 DEF AnswerInv
<1>12. PoolInv'
  <2>1. client[c].slot = None /\ None \notin Slot
    BY SlotsAssumption DEF Inv, CallInv
  <2> QED BY <1>2, <1>3, <1>4, <1>6, <2>1 DEF Inv, PoolInv, TypeOK
<1> QED BY <1>8, <1>9, <1>10, <1>11, <1>12 DEF Inv

(* A step of one call that changes neither its slot nor its request, nor    *)
(* what is in the pool, keeps the pool; it keeps CallInv if the workers of  *)
(* the requests stay as they are.                                           *)
LEMMA OneCallSteps ==
    ASSUME Inv, NEW c \in Client, NEW new \in Call,
           client[c].pc # "idle",
           client' = [client EXCEPT ![c] = new],
           new.pc # "idle", new.req = client[c].req, new.slot = client[c].slot,
           new.got <= new.want,
           new.pc \in {"reset", "write"} => work'[new.req].st = "none" /\ new.taken = 0,
           new.pc = "recv" => work'[new.req].st # "none" /\ work'[new.req].slot = new.slot,
           \A r \in Requests : r # new.req => work'[r] = work[r],
           UNCHANGED <<free, count, leaked>>
    PROVE  /\ client' \in [Client -> Call]
           /\ client'[c] = new
           /\ \A d \in Client : d # c => client'[d] = client[d]
           /\ \A d \in Client : d # c /\ client[d].pc # "idle" =>
                 client[d].slot # client[c].slot /\ client[d].req # client[c].req
           /\ \A d \in Client : client'[d].pc # "idle" =>
                 client'[d].slot \in Slot /\ client'[d].req \in Requests
           /\ CallInv'
           /\ PoolInv'
<1>1. client \in [Client -> Call]
  BY Types DEF Inv
<1>2. /\ client' \in [Client -> Call] /\ client'[c] = new
      /\ \A d \in Client : d # c => client'[d] = client[d]
  BY <1>1
<1>3. \A d \in Client : client[d].pc # "idle" =>
          client[d].slot \in Slot /\ client[d].req \in Requests
  BY DEF Inv, TypeOK
<1>4. \A d \in Client : d # c /\ client[d].pc # "idle" =>
          client[d].slot # client[c].slot /\ client[d].req # client[c].req
  BY <1>3 DEF Inv, CallInv, PoolInv
<1>5. \A d \in Client : client'[d].pc # "idle" =>
          client'[d].slot \in Slot /\ client'[d].req \in Requests
  BY <1>2, <1>3
<1>6. CallInv'
  <2>1. ASSUME NEW d \in Client
        PROVE  /\ client'[d].pc = "idle" => client'[d].slot = None
               /\ client'[d].pc # "idle" => client'[d].req <= count'
               /\ client'[d].got <= client'[d].want
               /\ client'[d].pc \in {"reset", "write"} =>
                     work'[client'[d].req].st = "none" /\ client'[d].taken = 0
               /\ client'[d].pc = "recv" =>
                     /\ work'[client'[d].req].st # "none"
                     /\ work'[client'[d].req].slot = client'[d].slot
    <3>1. CASE d = c
      BY <1>2, <3>1 DEF Inv, CallInv
    <3>2. CASE d # c
      BY <1>2, <1>3, <1>4, <3>2 DEF Inv, CallInv
    <3> QED BY <3>1, <3>2
  <2>2. ASSUME NEW d \in Client, NEW e \in Client,
               client'[d].pc # "idle", client'[e].pc # "idle", client'[d].req = client'[e].req
        PROVE  d = e
    BY <1>2, <1>4, <2>2 DEF Inv, CallInv
  <2> QED BY <2>1, <2>2 DEF CallInv
<1>7. PoolInv'
  BY <1>2 DEF Inv, PoolInv
<1> QED BY <1>2, <1>4, <1>5, <1>6, <1>7

(* The client empties its slot.                                             *)
LEMMA PreReceiveKeeps ==
    ASSUME Inv, NEW c \in Client, memslot_pre_receive(c)
    PROVE  Inv'
<1> DEFINE s == client[c].slot
           new == [client[c] EXCEPT !.pc = "write", !.alone = (AtWork(s) = {})]
<1>0. /\ client[c].pc = "reset" /\ slot' = [slot EXCEPT ![s] = Reset]
      /\ client' = [client EXCEPT ![c] = new]
      /\ UNCHANGED <<free, work, count, leaked>>
  BY DEF memslot_pre_receive
<1>1. client[c] \in Call /\ slot \in [Slot -> Buffer] /\ s \in Slot
  BY <1>0, Types DEF Inv, TypeOK
<1>2. /\ new \in Call /\ new.pc = "write" /\ new.req = client[c].req /\ new.slot = s
      /\ new.got = client[c].got /\ new.want = client[c].want /\ new.taken = client[c].taken
      /\ new.alone = (AtWork(s) = {})
  BY <1>1 DEF Call, Calls
<1> HIDE DEF new
<1>3. new.got <= new.want /\ work[new.req].st = "none" /\ new.taken = 0
  BY <1>0, <1>2 DEF Inv, CallInv
<1>4. /\ client' \in [Client -> Call] /\ client'[c] = new
      /\ \A d \in Client : d # c => client'[d] = client[d]
      /\ \A d \in Client : d # c /\ client[d].pc # "idle" =>
            client[d].slot # client[c].slot /\ client[d].req # client[c].req
      /\ \A d \in Client : client'[d].pc # "idle" =>
            client'[d].slot \in Slot /\ client'[d].req \in Requests
      /\ CallInv' /\ PoolInv'
  BY <1>0, <1>2, <1>3, OneCallSteps
<1>5. /\ slot' \in [Slot -> Buffer] /\ slot'[s] = Reset
      /\ \A x \in Slot : x # s => slot'[x] = slot[x]
  BY <1>0, <1>1, ResetIsBuffer
<1>6. TypeOK'
  BY <1>0, <1>4, <1>5, Types DEF Inv, TypeOK, Buffer, Call, Job, SlotFlags, Parts, WorkStates
<1>7. WorkInv'
  BY <1>0 DEF Inv, WorkInv
<1>8. AnswerInv'
  <2>1. ASSUME NEW d \in Client, d # c PROVE Answer(d)'
    <3>1. client[d].pc # "idle" => client[d].slot \in Slot
      BY DEF Inv, TypeOK
    <3> QED BY <1>0, <1>4, <1>5, <2>1, <3>1, OthersKeep DEF Inv, AnswerInv
  <2>2. Answer(c)'
    <3>1. ASSUME new.alone PROVE SoleWorker(c)'
      <4>1. AtWork(s) = {}
        BY <1>2, <3>1
      <4>2. \A r \in Requests : ~(work[r].st \in {"asked", "sending"} /\ work[r].slot = s)
        BY <4>1 DEF AtWork
      <4>3. work' = work /\ client'[c].slot = s
        BY <1>0, <1>2, <1>4
      <4> HIDE DEF s
      <4> QED BY <4>2, <4>3 DEF SoleWorker
    <3> QED BY <1>2, <1>4, <1>5, <3>1 DEF Answer, Reset
  <2> QED BY <2>1, <2>2 DEF AnswerInv
<1> QED BY <1>4, <1>6, <1>7, <1>8 DEF Inv

(* The control message reaches the engine.                                  *)
LEMMA WriteKeeps ==
    ASSUME Inv, NEW c \in Client, blkfs_write_control_message(c)
    PROVE  Inv'
<1> DEFINE k == client[c]
           new == [k EXCEPT !.pc = "recv"]
           job == [NoWork EXCEPT !.st = "asked", !.slot = k.slot, !.kind = k.kind, !.want = k.want]
<1>0. /\ k.pc = "write" /\ client' = [client EXCEPT ![c] = new]
      /\ work' = [work EXCEPT ![k.req] = job]
      /\ UNCHANGED <<free, slot, count, leaked>>
  BY DEF blkfs_write_control_message
<1>1. /\ k \in Call /\ work \in [Requests -> Job] /\ slot \in [Slot -> Buffer]
      /\ k.req \in Requests /\ k.slot \in Slot
  BY <1>0, Types DEF Inv, TypeOK
<1>2. /\ new \in Call /\ new.pc = "recv" /\ new.req = k.req /\ new.slot = k.slot
      /\ new.got = k.got /\ new.want = k.want /\ new.taken = k.taken /\ new.alone = k.alone
  BY <1>1 DEF Call, Calls
<1>3. /\ job \in Job /\ job.st = "asked" /\ job.slot = k.slot
      /\ job.sent = 0 /\ job.len = 0
  BY <1>1 DEF NoWork, Job, WorkStates, Call
<1>4. /\ work' \in [Requests -> Job] /\ work'[k.req] = job
      /\ \A r \in Requests : r # k.req => work'[r] = work[r]
  BY <1>0, <1>1, <1>3
<1> HIDE DEF new, job
<1>5. k.got <= k.want /\ k.taken = 0 /\ k.req <= count
  BY <1>0 DEF Inv, CallInv
<1>6. /\ client' \in [Client -> Call] /\ client'[c] = new
      /\ \A d \in Client : d # c => client'[d] = client[d]
      /\ \A d \in Client : d # c /\ client[d].pc # "idle" =>
            client[d].slot # client[c].slot /\ client[d].req # client[c].req
      /\ \A d \in Client : client'[d].pc # "idle" =>
            client'[d].slot \in Slot /\ client'[d].req \in Requests
      /\ CallInv' /\ PoolInv'
  <2>1. /\ client[c].pc # "idle" /\ new.pc # "idle" /\ new.got <= new.want
        /\ ~(new.pc \in {"reset", "write"})
        /\ work'[new.req].st # "none" /\ work'[new.req].slot = new.slot
        /\ \A r \in Requests : r # new.req => work'[r] = work[r]
    BY <1>0, <1>2, <1>3, <1>4, <1>5
  <2> QED BY <1>0, <1>2, <2>1, OneCallSteps
<1>7. TypeOK'
  <2>1. \A r \in Requests : work'[r].st # "none" => work'[r].slot \in Slot
    BY <1>1, <1>3, <1>4 DEF Inv, TypeOK
  <2>2. free \subseteq Slot /\ leaked \subseteq Slot /\ count \in 0..MaxReq
    BY DEF Inv, TypeOK
  <2> QED BY <1>0, <1>1, <1>4, <1>6, <2>1, <2>2 DEF TypeOK, Buffer, Call, Job, SlotFlags, Parts, WorkStates
<1>8. WorkInv'
  BY <1>0, <1>3, <1>4, <1>5 DEF Inv, WorkInv
<1>9. AnswerInv'
  <2>1. ASSUME NEW d \in Client, d # c PROVE Answer(d)'
    <3>1. client[d].pc # "idle" => client[d].req \in Requests
      BY DEF Inv, TypeOK
    <3>2. client[d].pc # "idle" =>
             \A r \in Requests :
                work'[r].st \in {"asked", "sending"} /\ work'[r].slot = client[d].slot
                => work[r].st \in {"asked", "sending"} /\ work[r].slot = client[d].slot
      BY <1>3, <1>4, <1>6, <2>1
    <3> QED BY <1>0, <1>4, <1>6, <2>1, <3>1, <3>2, OthersKeep DEF Inv, AnswerInv
  <2>2. ASSUME k.alone PROVE SoleWorker(c)'
    <3>1. \A r \in Requests : ~(work[r].st \in {"asked", "sending"} /\ work[r].slot = k.slot)
      BY <1>0, <2>2 DEF Inv, AnswerInv, Answer, SoleWorker
    <3>2. client'[c].pc = "recv" /\ client'[c].slot = k.slot /\ client'[c].req = k.req
      BY <1>2, <1>6
    <3> HIDE DEF k
    <3> QED BY <1>4, <3>1, <3>2 DEF SoleWorker
  <2>3. ASSUME k.alone PROVE Continues(c)'
    <3>1. slot[k.slot].flag = "waiting"
      BY <1>0, <2>3 DEF Inv, AnswerInv, Answer
    <3> QED BY <1>0, <1>2, <1>3, <1>4, <1>5, <1>6, <3>1 DEF Continues
  <2>4. Answer(c)'
    BY <1>2, <1>6, <2>2, <2>3 DEF Answer
  <2> QED BY <2>1, <2>4 DEF AnswerInv
<1> QED BY <1>6, <1>7, <1>8, <1>9 DEF Inv

(* A call that only gives up keeps everything.                              *)
LEMMA FailsKeeps ==
    ASSUME Inv, NEW c \in Client, client[c].pc # "idle",
           client' = [client EXCEPT ![c].pc = "unlink", ![c].failed = TRUE],
           UNCHANGED <<free, slot, work, count, leaked>>
    PROVE  Inv'
<1> DEFINE new == [client[c] EXCEPT !.pc = "unlink", !.failed = TRUE]
<1>1. client[c] \in Call /\ client' = [client EXCEPT ![c] = new]
  BY Types DEF Inv
<1>2. /\ new \in Call /\ new.pc = "unlink" /\ new.req = client[c].req
      /\ new.slot = client[c].slot /\ new.got = client[c].got /\ new.want = client[c].want
  BY <1>1 DEF Call, Calls
<1> HIDE DEF new
<1>3. new.got <= new.want
  BY <1>2 DEF Inv, CallInv
<1>4. /\ client' \in [Client -> Call] /\ client'[c] = new
      /\ \A d \in Client : d # c => client'[d] = client[d]
      /\ \A d \in Client : client'[d].pc # "idle" =>
            client'[d].slot \in Slot /\ client'[d].req \in Requests
      /\ CallInv' /\ PoolInv'
  BY <1>1, <1>2, <1>3, OneCallSteps
<1>5. TypeOK'
  BY <1>4, Types DEF Inv, TypeOK, Buffer, Call, Job, SlotFlags, Parts, WorkStates
<1>6. WorkInv'
  BY DEF Inv, WorkInv
<1>7. AnswerInv'
  <2>1. \A d \in Client \ {c} : Answer(d)'
    BY <1>4, OthersKeep DEF Inv, AnswerInv
  <2>2. Answer(c)'
    BY <1>2, <1>4 DEF Answer
  <2> QED BY <2>1, <2>2 DEF AnswerInv
<1> QED BY <1>4, <1>5, <1>6, <1>7 DEF Inv

(* The slot is nobody's: it goes back to the pool, or is leaked.            *)
LEMMA LeaveKeeps ==
    ASSUME Inv, NEW c \in Client, client[c].pc # "idle",
           client' = [client EXCEPT ![c] = Idle],
           \/ free' = free \cup {client[c].slot} /\ leaked' = leaked
           \/ leaked' = leaked \cup {client[c].slot} /\ free' = free,
           UNCHANGED <<slot, work, count>>
    PROVE  Inv'
<1>1. client \in [Client -> Call] /\ client[c].slot \in Slot
  BY Types DEF Inv, TypeOK
<1>2. /\ client' \in [Client -> Call] /\ client'[c] = Idle
      /\ \A d \in Client : d # c => client'[d] = client[d]
  BY <1>1, IdleIsCall
<1>3. Idle.pc = "idle" /\ Idle.slot = None /\ Idle.got <= Idle.want /\ Idle.alone = FALSE
  BY DEF Idle
<1>4. TypeOK'
  <2>1. \A d \in Client : client'[d].pc # "idle" =>
            client'[d].slot \in Slot /\ client'[d].req \in Requests
    BY <1>2, <1>3 DEF Inv, TypeOK
  <2> QED BY <1>1, <1>2, <2>1, Types DEF Inv, TypeOK, Buffer, Call, Job, SlotFlags, Parts, WorkStates
<1>5. CallInv'
  BY <1>2, <1>3 DEF Inv, CallInv
<1>6. WorkInv'
  BY DEF Inv, WorkInv
<1>7. AnswerInv'
  <2>1. \A d \in Client \ {c} : Answer(d)'
    BY <1>2, OthersKeep DEF Inv, AnswerInv
  <2>2. Answer(c)'
    BY <1>2, <1>3 DEF Answer
  <2> QED BY <2>1, <2>2 DEF AnswerInv
<1>8. PoolInv'
  <2>1. None \notin Slot /\ free \subseteq Slot /\ leaked \subseteq Slot
    BY SlotsAssumption DEF Inv, TypeOK
  <2>2. \A d, e \in Client :
            client'[d].slot \in Slot /\ client'[d].slot = client'[e].slot => d = e
    BY <1>2, <1>3, <2>1 DEF Inv, PoolInv
  <2>3. \A d \in Client : client'[d].slot \notin free' \cup leaked'
    BY <1>1, <1>2, <1>3, <2>1 DEF Inv, PoolInv
  <2>4. free' \cap leaked' = {}
    BY <1>1 DEF Inv, PoolInv
  <2>5. \A s \in Slot : s \in free' \cup leaked' \/ \E d \in Client : client'[d].slot = s
    BY <1>2 DEF Inv, PoolInv
  <2> QED BY <2>2, <2>3, <2>4, <2>5 DEF PoolInv
<1> QED BY <1>4, <1>5, <1>6, <1>7, <1>8 DEF Inv

(* The worker of a request changes its own record only.                     *)
LEMMA WorkerSteps ==
    ASSUME Inv, NEW r \in Requests, NEW new \in Job,
           work[r].st \in {"asked", "sending"},
           work' = [work EXCEPT ![r] = new],
           new.st \in {"sending", "sent", "gaveUp"}, new.slot = work[r].slot,
           new.sent <= new.len,
           slot' \in [Slot -> Buffer],
           UNCHANGED <<free, client, count, leaked>>
    PROVE  /\ work'[r] = new
           /\ \A q \in Requests : q # r => work'[q] = work[q]
           /\ TypeOK' /\ CallInv' /\ WorkInv' /\ PoolInv'
           /\ \A c \in Client : SoleWorker(c) => SoleWorker(c)'
<1>1. work \in [Requests -> Job]
  BY Types DEF Inv
<1>2. /\ work' \in [Requests -> Job] /\ work'[r] = new
      /\ \A q \in Requests : q # r => work'[q] = work[q]
  BY <1>1
<1>3. TypeOK'
  <2>1. \A q \in Requests : work'[q].st # "none" => work'[q].slot \in Slot
    BY <1>2 DEF Inv, TypeOK
  <2> QED BY <1>2, <2>1, Types DEF Inv, TypeOK, Buffer, Call, Job, SlotFlags, Parts, WorkStates
<1>4. CallInv'
  <2>1. \A c \in Client : client[c].pc # "idle" => client[c].req \in Requests
    BY DEF Inv, TypeOK
  <2> QED BY <1>2, <2>1 DEF Inv, CallInv
<1>5. WorkInv'
  BY <1>2 DEF Inv, WorkInv
<1>6. PoolInv'
  BY DEF Inv, PoolInv
<1>7. \A c \in Client : SoleWorker(c) => SoleWorker(c)'
  BY <1>2 DEF SoleWorker
<1> QED BY <1>2, <1>3, <1>4, <1>5, <1>6, <1>7

(* A worker that gets its answer, or gives up, has sent nothing.            *)
LEMMA QuietKeeps ==
    ASSUME Inv, NEW r \in Requests, NEW new \in Job,
           work[r].st \in {"asked", "sending"},
           work' = [work EXCEPT ![r] = new],
           new.st \in {"sending", "sent", "gaveUp"}, new.slot = work[r].slot,
           new.sent <= new.len,
           new.sent = work[r].sent,
           UNCHANGED <<free, slot, client, count, leaked>>
    PROVE  Inv'
<1>1. slot' \in [Slot -> Buffer]
  BY Types DEF Inv
<1>2. /\ work'[r] = new
      /\ \A q \in Requests : q # r => work'[q] = work[q]
      /\ TypeOK' /\ CallInv' /\ WorkInv' /\ PoolInv'
      /\ \A c \in Client : SoleWorker(c) => SoleWorker(c)'
  BY <1>1, WorkerSteps
<1>3. \A c \in Client : client[c].pc # "idle" => client[c].req \in Requests
  BY DEF Inv, TypeOK
<1>4. \A c \in Client : client[c].pc = "recv" /\ Continues(c) => Continues(c)'
  BY <1>2, <1>3 DEF Continues
<1>5. AnswerInv'
  BY <1>2, <1>4 DEF Inv, AnswerInv, Answer
<1> QED BY <1>2, <1>5 DEF Inv

LEMMA DispatchKeeps ==
    ASSUME Inv, NEW r \in Requests, dispatch(r)
    PROVE  Inv'
<1>1. work[r] \in Job
  BY Types DEF Inv
<1>2. PICK len \in Answers(work[r]) :
          work' = [work EXCEPT ![r].st = "sending", ![r].len = len]
  BY DEF dispatch
<1> DEFINE new == [work[r] EXCEPT !.st = "sending", !.len = len]
<1>3. len \in Nat /\ work' = [work EXCEPT ![r] = new]
  BY <1>1, <1>2, AnswersAreNat
<1>4. /\ new \in Job /\ new.st = "sending" /\ new.slot = work[r].slot
      /\ new.sent = work[r].sent /\ new.len = len
  BY <1>1, <1>3 DEF Job, WorkStates
<1> HIDE DEF new
<1>5. work[r].sent = 0
  BY DEF dispatch, Inv, WorkInv
<1>6. new.sent <= new.len /\ work[r].st = "asked" /\ UNCHANGED <<free, slot, client, count, leaked>>
  BY <1>3, <1>4, <1>5 DEF dispatch
<1> QED BY <1>3, <1>4, <1>6, QuietKeeps

LEMMA SendTimeoutKeeps ==
    ASSUME Inv, NEW r \in Requests, SendTimeout(r)
    PROVE  Inv'
<1> DEFINE new == [work[r] EXCEPT !.st = "gaveUp"]
<1>1. work[r] \in Job /\ work' = [work EXCEPT ![r] = new]
  BY Types DEF Inv, SendTimeout
<1>2. /\ new \in Job /\ new.st = "gaveUp" /\ new.slot = work[r].slot
      /\ new.sent = work[r].sent /\ new.len = work[r].len
  BY <1>1 DEF Job, WorkStates
<1> HIDE DEF new
<1>3. work[r].sent <= work[r].len
  BY DEF Inv, WorkInv
<1> QED BY <1>1, <1>2, <1>3, QuietKeeps DEF SendTimeout

(* The worker puts a part of its answer into the slot: what is there then   *)
(* is what the call goes on with, if it is the slot's only worker.          *)
LEMMA SendKeeps ==
    ASSUME Inv, NEW r \in Requests, memslot_send_impl(r)
    PROVE  Inv'
<1> DEFINE w == work[r]
           amt == Lesser(w.len - w.sent, Buf)
           new == [w EXCEPT !.sent = @ + amt, !.st = IF w.sent + amt = w.len THEN "sent" ELSE @]
           b == [flag |-> "sending", req |-> r, from |-> w.sent, len |-> amt]
<1>0. /\ w.st = "sending" /\ slot[w.slot].flag = "waiting"
      /\ slot' = [slot EXCEPT ![w.slot] = b] /\ work' = [work EXCEPT ![r] = new]
      /\ UNCHANGED <<free, client, count, leaked>>
  BY DEF memslot_send_impl
<1>1. /\ w \in Job /\ w.slot \in Slot /\ slot \in [Slot -> Buffer] /\ w.sent <= w.len
      /\ w.sent \in Nat /\ w.len \in Nat
  BY <1>0, Types DEF Inv, TypeOK, WorkInv, Job
<1>2. amt \in Nat /\ w.sent + amt <= w.len
  BY <1>1, SlotsAssumption DEF Lesser
<1> HIDE DEF amt
<1>3. /\ new \in Job /\ new.st \in {"sending", "sent"} /\ new.slot = w.slot
      /\ new.sent = w.sent + amt /\ new.len = w.len
  <2> DEFINE st == IF w.sent + amt = w.len THEN "sent" ELSE w.st
  <2>1. st \in {"sending", "sent"} /\ new = [w EXCEPT !.sent = @ + amt, !.st = st]
    BY <1>0
  <2>2. st \in WorkStates /\ w.sent + amt \in Nat
    BY <1>1, <1>2, <2>1 DEF WorkStates
  <2> HIDE DEF st
  <2>3. new = [w EXCEPT !.sent = w.sent + amt, !.st = st] /\ w \in Job
    BY <1>1, <2>1
  <2> HIDE DEF w
  <2> QED BY <2>1, <2>2, <2>3 DEF Job
<1>4. /\ b \in Buffer /\ b.flag = "sending" /\ b.req = r /\ b.from = w.sent /\ b.len = amt
  BY <1>1, <1>2 DEF Buffer, SlotFlags
<1> HIDE DEF new, b
<1>5. /\ slot' \in [Slot -> Buffer] /\ slot'[w.slot] = b
      /\ \A s \in Slot : s # w.slot => slot'[s] = slot[s]
  BY <1>0, <1>1, <1>4
<1>6. /\ work'[r] = new
      /\ \A q \in Requests : q # r => work'[q] = work[q]
      /\ TypeOK' /\ CallInv' /\ WorkInv' /\ PoolInv'
      /\ \A c \in Client : SoleWorker(c) => SoleWorker(c)'
  BY <1>0, <1>1, <1>2, <1>3, <1>5, WorkerSteps
<1>7. AnswerInv'
  <2>1. SUFFICES ASSUME NEW c \in Client PROVE Answer(c)'
    BY DEF AnswerInv
  <2>2. Answer(c) /\ client' = client
    BY <1>0 DEF Inv, AnswerInv
  <2>3. client[c].pc # "idle" => client[c].slot \in Slot /\ client[c].req \in Requests
    BY DEF Inv, TypeOK
  <2>4. CASE client[c].pc \in {"write", "recv"} /\ client[c].slot = w.slot /\ client[c].alone
    <3>1. SoleWorker(c)
      BY <2>2, <2>4 DEF Answer
    <3>2. client[c].pc = "recv" /\ client[c].req = r
      BY <1>0, <2>4, <3>1 DEF SoleWorker
    <3>3. client[c].taken = w.sent
      BY <1>0, <2>2, <2>4, <3>2 DEF Answer, Continues
    <3>4. Continues(c)'
      BY <1>3, <1>4, <1>5, <1>6, <2>2, <2>4, <3>2, <3>3 DEF Continues
    <3> QED BY <1>6, <2>2, <3>1, <3>2, <3>4 DEF Answer
  <2>5. CASE client[c].pc \in {"write", "recv"} /\ client[c].slot # w.slot /\ client[c].alone
    <3>1. SoleWorker(c)'
      BY <1>6, <2>2, <2>5 DEF Answer
    <3>2. client[c].pc = "recv" => client[c].req # r
      BY <2>5 DEF Inv, CallInv
    <3>3. slot'[client[c].slot] = slot[client[c].slot]
      BY <1>5, <2>3, <2>5
    <3>4. client[c].pc = "recv" => Continues(c)'
      BY <1>6, <2>2, <2>3, <2>5, <3>2, <3>3 DEF Answer, Continues
    <3> QED BY <2>2, <2>5, <3>1, <3>3, <3>4 DEF Answer
  <2>6. CASE ~client[c].alone \/ client[c].pc \notin {"write", "recv"}
    BY <2>2, <2>6 DEF Answer
  <2> QED BY <2>4, <2>5, <2>6
<1> QED BY <1>6, <1>7 DEF Inv

(* Taking from a slot leaves what was not taken.                            *)
LEMMA LeftIsBuffer ==
    ASSUME NEW b \in Buffer, NEW amt \in Nat, amt <= b.len, b.flag # "waiting"
    PROVE  /\ Left(b, amt) \in Buffer
           /\ Left(b, amt).flag = "waiting" => amt = b.len
           /\ Left(b, amt).flag # "waiting" =>
                 /\ Left(b, amt).req = b.req
                 /\ Left(b, amt).from = b.from + amt
                 /\ Left(b, amt).from + Left(b, amt).len = b.from + b.len
<1> DEFINE rest == [b EXCEPT !.flag = "underread", !.from = @ + amt, !.len = @ - amt]
<1>1. CASE b.len = 0
  <2>1. ~(b.len > 0)
    BY <1>1
  <2>2. Left(b, amt) = b
    BY <1>1, <2>1, Zenon DEF Left
  <2> QED BY <1>1, <2>2 DEF Buffer
<1>2. CASE b.len # 0 /\ amt = b.len
  <2>1. b.len > 0
    BY <1>2 DEF Buffer
  <2>2. Left(b, amt) = Reset
    BY <1>2, <2>1, Zenon DEF Left
  <2> QED BY <1>2, <2>2, ResetIsBuffer DEF Reset
<1>3. CASE b.len # 0 /\ amt # b.len
  <2>1. Left(b, amt) = rest
    BY <1>3, Zenon DEF Left
  <2>2. b.from \in Nat /\ b.len \in Nat /\ b.len - amt \in Nat /\ b.from + amt \in Nat
    BY DEF Buffer
  <2>3. rest = [b EXCEPT !.flag = "underread", !.from = b.from + amt, !.len = b.len - amt]
    OBVIOUS
  <2> HIDE DEF rest
  <2>4. /\ rest \in Buffer /\ rest.flag = "underread" /\ rest.req = b.req
        /\ rest.from = b.from + amt /\ rest.len = b.len - amt
    BY <2>2, <2>3 DEF Buffer, SlotFlags
  <2>5. rest.from + rest.len = b.from + b.len
    BY <2>2, <2>4
  <2> QED BY <2>1, <2>4, <2>5
<1> QED BY <1>1, <1>2, <1>3

(* The client takes from its slot: what is left goes on where it stopped.   *)
LEMMA ReceiveKeeps ==
    ASSUME Inv, NEW c \in Client, memslot_receive_impl(c)
    PROVE  Inv'
<1> DEFINE k == client[c]
           b == slot[k.slot]
           amt == Amount(c)
<1>0. /\ k.pc = "recv" /\ b.flag # "waiting"
      /\ slot' = [slot EXCEPT ![k.slot] = Left(b, amt)]
      /\ UNCHANGED <<free, work, count, leaked>>
  BY DEF memslot_receive_impl
<1>1. /\ k \in Call /\ k.slot \in Slot /\ k.req \in Requests /\ slot \in [Slot -> Buffer]
      /\ b \in Buffer /\ k.got <= k.want /\ client \in [Client -> Call]
  BY <1>0, Types DEF Inv, TypeOK, CallInv
<1>2. amt \in Nat /\ amt <= b.len /\ k.got + amt <= k.want
  BY <1>1 DEF Amount, Lesser, Call, Buffer
<1>3. PICK new \in Call :
          /\ client' = [client EXCEPT ![c] = new]
          /\ new.pc \in {"recv", "unlink"} /\ new.slot = k.slot /\ new.req = k.req
          /\ new.alone = k.alone /\ new.taken = k.taken + amt /\ new.got <= new.want
  <2> HIDE DEF amt
  <2>1. CASE \E next \in NextPart(c, amt) : client' = [client EXCEPT ![c] = next]
    BY <1>0, <1>1, <1>2, <2>1, NextPartIsCall
  <2>2. CASE client' = [client EXCEPT ![c].got = @ + amt, ![c].taken = @ + amt]
    <3> DEFINE new == [k EXCEPT !.got = k.got + amt, !.taken = k.taken + amt]
    <3>1. client' = [client EXCEPT ![c] = new]
      BY <1>1, <2>2
    <3>2. /\ new \in Call /\ new.pc = "recv" /\ new.slot = k.slot /\ new.req = k.req
          /\ new.alone = k.alone /\ new.taken = k.taken + amt
          /\ new.got = k.got + amt /\ new.want = k.want
      <4>1. k.got + amt \in Nat /\ k.taken + amt \in Nat
        BY <1>1, <1>2 DEF Call
      <4>2. new = [k EXCEPT !.got = k.got + amt, !.taken = k.taken + amt]
        OBVIOUS
      <4> HIDE DEF new, k
      <4> QED BY <1>0, <1>1, <4>1, <4>2 DEF Call
    <3> HIDE DEF new
    <3> QED BY <1>2, <3>1, <3>2
  <2> QED BY <2>1, <2>2 DEF memslot_receive_impl, amt
<1> HIDE DEF amt
<1>4. /\ Left(b, amt) \in Buffer
      /\ Left(b, amt).flag = "waiting" => amt = b.len
      /\ Left(b, amt).flag # "waiting" =>
            /\ Left(b, amt).req = b.req
            /\ Left(b, amt).from = b.from + amt
            /\ Left(b, amt).from + Left(b, amt).len = b.from + b.len
  BY <1>0, <1>1, <1>2, LeftIsBuffer
<1>5. /\ slot' \in [Slot -> Buffer] /\ slot'[k.slot] = Left(b, amt)
      /\ \A s \in Slot : s # k.slot => slot'[s] = slot[s]
  BY <1>0, <1>1, <1>4
<1>6. work[k.req].st # "none" /\ work[k.req].slot = k.slot
  BY <1>0 DEF Inv, CallInv
<1>7. /\ client' \in [Client -> Call] /\ client'[c] = new
      /\ \A d \in Client : d # c => client'[d] = client[d]
      /\ \A d \in Client : d # c /\ client[d].pc # "idle" =>
            client[d].slot # client[c].slot /\ client[d].req # client[c].req
      /\ \A d \in Client : client'[d].pc # "idle" =>
            client'[d].slot \in Slot /\ client'[d].req \in Requests
      /\ CallInv' /\ PoolInv'
  <2>1. /\ client[c].pc # "idle" /\ new.pc # "idle" /\ ~(new.pc \in {"reset", "write"})
        /\ work'[new.req].st # "none" /\ work'[new.req].slot = new.slot
        /\ \A r \in Requests : r # new.req => work'[r] = work[r]
    BY <1>0, <1>3, <1>6
  <2> QED BY <1>0, <1>3, <2>1, OneCallSteps
<1>8. TypeOK'
  BY <1>0, <1>5, <1>7, Types DEF Inv, TypeOK, Buffer, Call, Job, SlotFlags, Parts, WorkStates
<1>9. WorkInv'
  BY <1>0 DEF Inv, WorkInv
<1>10. AnswerInv'
  <2>1. ASSUME NEW d \in Client, d # c PROVE Answer(d)'
    <3>1. client[d].pc # "idle" => client[d].slot \in Slot
      BY DEF Inv, TypeOK
    <3> QED BY <1>0, <1>5, <1>7, <2>1, <3>1, OthersKeep DEF Inv, AnswerInv
  <2>2. ASSUME k.alone, new.pc = "recv" PROVE SoleWorker(c)'
    <3>1. SoleWorker(c)
      BY <1>0, <2>2 DEF Inv, AnswerInv, Answer
    <3> QED BY <1>0, <1>3, <1>7, <2>2, <3>1 DEF SoleWorker
  <2>3. ASSUME k.alone, new.pc = "recv" PROVE Continues(c)'
    <3>1. b.req = k.req /\ b.from = k.taken /\ k.taken + b.len = work[k.req].sent
      BY <1>0, <2>3 DEF Inv, AnswerInv, Answer, Continues
    <3>2. /\ slot'[new.slot] = Left(b, amt) /\ work' = work /\ client'[c] = new
          /\ new.req = k.req /\ new.taken = k.taken + amt
      BY <1>0, <1>3, <1>5, <1>7
    <3>3. k.taken \in Nat /\ b.len \in Nat
      BY <1>1 DEF Call, Buffer
    <3> HIDE DEF k, b
    <3> QED BY <1>2, <1>4, <3>1, <3>2, <3>3 DEF Continues
  <2>4. Answer(c)'
    BY <1>3, <1>7, <2>2, <2>3 DEF Answer
  <2> QED BY <2>1, <2>4 DEF AnswerInv
<1> QED BY <1>7, <1>8, <1>9, <1>10 DEF Inv
-----------------------------------------------------------------------------
(* Every step of a thread or a worker keeps the invariant.                  *)
LEMMA NextKeeps == Inv /\ [Next]_vars => Inv'
<1> SUFFICES ASSUME Inv, [Next]_vars PROVE Inv'
  OBVIOUS
<1>1. ASSUME NEW c \in Client, blkfs_get_next_datafile(c) PROVE Inv'
  BY <1>1, GetKeeps
<1>2. ASSUME NEW c \in Client, memslot_pre_receive(c) PROVE Inv'
  BY <1>2, PreReceiveKeeps
<1>3. ASSUME NEW c \in Client, blkfs_write_control_message(c) PROVE Inv'
  BY <1>3, WriteKeeps
<1>4. ASSUME NEW c \in Client, WriteFails(c) PROVE Inv'
  <2>1. client[c].pc # "idle" /\ UNCHANGED <<free, slot, work, count>>
    BY <1>4 DEF WriteFails
  <2>2. CASE leaked' = leaked \cup {client[c].slot} /\ client' = [client EXCEPT ![c] = Idle]
    BY <2>1, <2>2, LeaveKeeps
  <2>3. CASE /\ client' = [client EXCEPT ![c].pc = "unlink", ![c].failed = TRUE]
             /\ leaked' = leaked
    BY <2>1, <2>3, FailsKeeps
  <2> QED BY <1>4, <2>2, <2>3 DEF WriteFails
<1>5. ASSUME NEW c \in Client, memslot_receive_impl(c) PROVE Inv'
  BY <1>5, ReceiveKeeps
<1>6. ASSUME NEW c \in Client, ReceiveTimeout(c) PROVE Inv'
  <2>1. /\ client[c].pc # "idle"
        /\ client' = [client EXCEPT ![c].pc = "unlink", ![c].failed = TRUE]
        /\ UNCHANGED <<free, slot, work, count, leaked>>
    BY <1>6 DEF ReceiveTimeout
  <2> QED BY <2>1, FailsKeeps
<1>7. ASSUME NEW c \in Client, blkfs_unlink_datafile(c) PROVE Inv'
  <2>1. /\ client[c].pc # "idle" /\ client' = [client EXCEPT ![c] = Idle]
        /\ free' = free \cup {client[c].slot} /\ leaked' = leaked
        /\ UNCHANGED <<slot, work, count>>
    BY <1>7 DEF blkfs_unlink_datafile
  <2> QED BY <2>1, LeaveKeeps
<1>8. ASSUME NEW r \in Requests, dispatch(r) PROVE Inv'
  BY <1>8, DispatchKeeps
<1>9. ASSUME NEW r \in Requests, memslot_send_impl(r) PROVE Inv'
  BY <1>9, SendKeeps
<1>10. ASSUME NEW r \in Requests, SendTimeout(r) PROVE Inv'
  BY <1>10, SendTimeoutKeeps
<1>11. CASE UNCHANGED vars
  BY <1>11 DEF vars, Inv, TypeOK, CallInv, WorkInv, AnswerInv, Answer, SoleWorker, Continues, PoolInv
<1> QED
  BY <1>1, <1>2, <1>3, <1>4, <1>5, <1>6, <1>7, <1>8, <1>9, <1>10, <1>11
     DEF Next, ClientStep, Worker

(* The invariants of the calls, the workers, the answers and the pool.      *)
THEOREM Invariance == Spec => []Inv
  BY InitInv, NextKeeps, PTL DEF Spec

(* The shared memory, the calls and the workers keep their types: in        *)
(* particular no buffer is ever taken beyond its length.                    *)
THEOREM TypeCorrect == Spec => []TypeOK
<1>1. Inv => TypeOK
  BY DEF Inv
<1> QED BY <1>1, Invariance, PTL

(* blkfs_get_next_datafile and blkfs_unlink_datafile: a slot is in the pool,*)
(* in exactly one call, or was lost to a broken control pipe.               *)
THEOREM SlotsAreAccounted == Spec => []SlotsAccounted
<1>1. Inv => SlotsAccounted
  <2> SUFFICES ASSUME Inv, NEW s \in Slot
               PROVE  /\ \A c, d \in Held(s) : c = d
                      /\ s \in free => Held(s) = {} /\ s \notin leaked
                      /\ s \in leaked => Held(s) = {}
                      /\ s \in free \cup leaked \/ Held(s) # {}
    BY DEF SlotsAccounted
  <2> QED BY DEF Inv, PoolInv, Held
<1> QED BY <1>1, Invariance, PTL

(* memslot_receive_impl: what a call finds in its slot is its own answer,   *)
(* from where it has read to.                                               *)
THEOREM AnswerIsOwn == Spec => []OwnAnswer
<1>1. Inv => OwnAnswer
  BY DEF Inv, AnswerInv, Answer, Continues, OwnAnswer
<1> QED BY <1>1, Invariance, PTL
-----------------------------------------------------------------------------
(* That a call receives its whole answer.                                   *)

(* A worker sends a part at a time, and nothing is left when it is done; an *)
(* answer that fits into a buffer is sent at once.                          *)
JobSizes(r) ==
    LET w == work[r]
    IN  /\ w.st \in {"none", "asked"} => w.len = 0
        /\ w.st \in {"sending", "sent", "gaveUp"} => w.len \in Answers(w)
        /\ w.st = "sent" => w.sent = w.len
        /\ w.st \in {"sending", "gaveUp"} => w.sent = 0 \/ Buf < w.len

(* A call asks for what it wants; all but a directory is one receive.       *)
CallSizes(c) ==
    LET k == client[c]
    IN  /\ k.kind # "list" =>
              k.part = "all" /\ k.want \in Wants(k.kind) /\ k.got = k.taken
        /\ k.pc \in {"reset", "write"} =>
              k.got = 0 /\ (k.kind = "list" => k.part = "length" /\ k.want = 1)
        /\ k.pc = "recv" =>
              /\ work[k.req].kind = k.kind
              /\ k.kind # "list" => work[k.req].want = k.want

(* A receive that goes on has taken full buffers only, and finds all that a *)
(* buffer holds of the rest.                                                *)
AtBlock(c) ==
    LET k == client[c]
        w == work[k.req]
        b == slot[k.slot]
    IN  /\ k.got < k.want
        /\ \E j \in Nat : k.taken = j * Buf
        /\ b.flag # "waiting" => w.st # "asked" /\ b.len = Lesser(w.len - k.taken, Buf)

(* The call of a directory is at a length or at a name, never at its end.   *)
AtName(c) ==
    LET k == client[c]
        w == work[k.req]
        b == slot[k.slot]
    IN  /\ k.got = 0
        /\ \E m \in Nat :
              \/ k.part = "length" /\ k.want = 1 /\ k.taken = m * (Name + 1)
              \/ k.part = "name" /\ k.want = Name /\ k.taken = m * (Name + 1) + 1
        /\ b.flag # "waiting" => w.st = "sent"
        /\ w.st # "asked" => k.taken < w.len

Whole(c) ==
    LET k == client[c]
        w == work[k.req]
    IN  k.alone =>
           /\ k.pc = "recv" /\ k.kind # "list" => AtBlock(c)
           /\ k.pc = "recv" /\ k.kind = "list" /\ w.len <= Buf => AtName(c)
           /\ k.pc = "unlink" /\ ~k.failed /\ (k.kind = "list" => w.len <= Buf) =>
                 w.st # "asked" /\ k.taken = w.len

Sized(c) == client[c].pc # "idle" => CallSizes(c) /\ Whole(c)

SizeInv == /\ \A r \in Requests : JobSizes(r)
           /\ \A c \in Client : Sized(c)

(* Multiples of a buffer, and of a length and a name.                       *)
LEMMA Quotient == ASSUME NEW m \in Nat, NEW n \in Nat \ {0} PROVE (m * n) \div n = m
  OBVIOUS

LEMMA Remainder == ASSUME NEW m \in Nat, NEW n \in Nat \ {0} PROVE (m * n) % n = 0
  OBVIOUS

LEMMA Multiples ==
    ASSUME NEW m \in Nat, NEW n \in Nat \ {0}
    PROVE  m * n \in Nat /\ (m + 1) * n = m * n + n
  OBVIOUS

LEMMA NextMultiple ==
    ASSUME NEW m \in Nat, NEW n \in Nat, NEW k \in Nat \ {0}, m * k < n * k
    PROVE  (m + 1) * k <= n * k
  OBVIOUS

(* What a call asks for is something, and no answer is longer.              *)
LEMMA WantsSomething ==
    ASSUME NEW kind \in Kinds, NEW want \in Wants(kind)
    PROVE  want > 0
  BY SlotsAssumption DEF Kinds, Wants

LEMMA AnswerFits ==
    ASSUME NEW w \in Job, w.kind # "list", NEW len \in Answers(w)
    PROVE  len <= w.want /\ (w.kind = "attr" => len = w.want)
  BY DEF Job, Kinds, Answers

LEMMA AnswerOfNames ==
    ASSUME NEW w \in Job, w.kind = "list", NEW len \in Answers(w)
    PROVE  \E n \in Nat : len = n * (Name + 1) + 1
  BY SlotsAssumption DEF Job, Kinds, Answers

(* What NextPart makes of a call, part by part.                             *)
LEMMA NextPartAll ==
    ASSUME NEW c \in Client, NEW amt \in Nat, client[c] \in Call, client[c].part = "all",
           NEW next \in NextPart(c, amt)
    PROVE  /\ next.pc = "unlink" /\ next.part = "all" /\ next.kind = client[c].kind
           /\ next.want = client[c].want /\ next.got = client[c].got + amt
<1> DEFINE k == client[c]
           f == k.kind = "attr" /\ k.got + amt # k.want
<1>1. next = [k EXCEPT !.pc = "unlink", !.taken = k.taken + amt, !.got = k.got + amt,
                       !.failed = f]
  BY Zenon DEF NextPart
<1> HIDE DEF f
<1> QED BY <1>1 DEF Call

LEMMA NextPartName ==
    ASSUME NEW c \in Client, NEW amt \in Nat, client[c] \in Call, client[c].part = "name",
           amt > 0, NEW next \in NextPart(c, amt), client[c].pc = "recv"
    PROVE  /\ next.pc = "recv" /\ next.part = "length" /\ next.kind = client[c].kind
           /\ next.want = 1 /\ next.got = 0
<1> DEFINE k == client[c]
<1>1. next \in IF amt = 0 THEN {[k EXCEPT !.pc = "unlink", !.taken = k.taken + amt,
                                          !.got = k.got + amt, !.failed = FALSE]}
               ELSE {[k EXCEPT !.part = "length", !.want = 1, !.got = 0,
                               !.taken = k.taken + amt]}
  BY Zenon DEF NextPart
<1>2. next = [k EXCEPT !.part = "length", !.want = 1, !.got = 0, !.taken = k.taken + amt]
  BY <1>1
<1> QED BY <1>2 DEF Call

LEMMA NextPartLength ==
    ASSUME NEW c \in Client, NEW amt \in Nat, client[c] \in Call, client[c].part = "length",
           amt > 0, NEW next \in NextPart(c, amt), client[c].pc = "recv",
           NEW m \in Nat, client[c].taken + amt = m * (Name + 1) + 1
    PROVE  /\ next.kind = client[c].kind
           /\ client[c].taken + amt = work[client[c].req].len =>
                 next.pc = "unlink" /\ next.part = "length"
           /\ client[c].taken + amt # work[client[c].req].len =>
                 next.pc = "recv" /\ next.part = "name" /\ next.want = Name /\ next.got = 0
<1> DEFINE k == client[c]
           total == k.taken + amt
           exact == amt > 0 /\ total = ((total - 1) \div (Name + 1)) * (Name + 1) + 1
           last == total = work[k.req].len
           done(f) == [k EXCEPT !.pc = "unlink", !.taken = total, !.got = k.got + amt,
                                !.failed = f]
           more == [k EXCEPT !.part = "name", !.want = Name, !.got = 0, !.taken = total]
<1>1. exact
  <2>1. Name + 1 \in Nat \ {0}
    BY SlotsAssumption
  <2>2. m * (Name + 1) \in Nat
    BY <2>1, Multiples
  <2>3. total - 1 = m * (Name + 1)
    BY <2>2
  <2>4. (total - 1) \div (Name + 1) = m
    BY <2>1, <2>3, Quotient
  <2>5. total = m * (Name + 1) + 1
    OBVIOUS
  <2> HIDE DEF total
  <2> QED BY <2>4, <2>5
<1> HIDE DEF exact
<1>2. next \in (IF amt = 0 \/ ~exact \/ last THEN {done(FALSE)} ELSE {})
           \cup (IF amt > 0 /\ (~exact \/ ~last) THEN {more} ELSE {})
           \cup (IF amt > 0 /\ ~exact THEN {done(TRUE)} ELSE {})
  BY Zenon DEF NextPart, exact
<1>3. /\ done(FALSE).kind = k.kind /\ done(FALSE).pc = "unlink" /\ done(FALSE).part = "length"
      /\ more.kind = k.kind /\ more.pc = "recv" /\ more.part = "name"
      /\ more.want = Name /\ more.got = 0
  BY DEF Call
<1>4. ~(amt = 0) /\ (last <=> client[c].taken + amt = work[client[c].req].len)
  OBVIOUS
<1> HIDE DEF done, more, last
<1>5. last => next = done(FALSE)
  BY <1>1, <1>2, <1>4
<1>6. ~last => next = more
  BY <1>1, <1>2, <1>4
<1>7. next.kind = client[c].kind
  BY <1>3, <1>5, <1>6
<1>8. last => next.pc = "unlink" /\ next.part = "length"
  BY <1>3, <1>5
<1>9. ~last => next.pc = "recv" /\ next.part = "name" /\ next.want = Name /\ next.got = 0
  BY <1>3, <1>6
<1> QED BY <1>4, <1>7, <1>8, <1>9, Zenon

(* A call that has the same worker and finds the same in its slot.          *)
LEMMA OthersStay ==
    ASSUME NEW d \in Client, Sized(d), client'[d] = client[d],
           client[d].pc # "idle" => work'[client[d].req] = work[client[d].req],
           client[d].pc = "recv" => slot'[client[d].slot] = slot[client[d].slot]
    PROVE  Sized(d)'
<1>1. CASE client[d].pc = "recv"
  <2>1. CallSizes(d)'
    BY <1>1 DEF Sized, CallSizes
  <2>2. AtBlock(d) => AtBlock(d)'
    BY <1>1 DEF AtBlock
  <2>3. AtName(d) => AtName(d)'
    BY <1>1 DEF AtName
  <2>4. Whole(d)'
    BY <1>1, <2>2, <2>3 DEF Sized, Whole
  <2> QED BY <2>1, <2>4 DEF Sized
<1>2. CASE client[d].pc \notin {"idle", "recv"}
  BY <1>2 DEF Sized, CallSizes, Whole
<1>3. CASE client[d].pc = "idle"
  BY <1>3 DEF Sized
<1> QED BY <1>1, <1>2, <1>3

(* Nothing else in the calls has the slot or the request of a call.         *)
LEMMA Apart ==
    ASSUME Inv, NEW c \in Client, client[c].pc # "idle"
    PROVE  /\ client[c] \in Call /\ client[c].slot \in Slot /\ client[c].req \in Requests
           /\ \A d \in Client : d # c /\ client[d].pc # "idle" =>
                 /\ client[d].slot \in Slot /\ client[d].req \in Requests
                 /\ client[d].slot # client[c].slot /\ client[d].req # client[c].req
<1>1. \A d \in Client : client[d].pc # "idle" =>
          client[d].slot \in Slot /\ client[d].req \in Requests
  BY DEF Inv, TypeOK
<1>2. client[c] \in Call
  BY Types DEF Inv
<1> QED BY <1>1, <1>2 DEF Inv, CallInv, PoolInv

(* A step of one call keeps the others' sizes, if it changes at most its    *)
(* own slot and the worker of its own request.                              *)
LEMMA OneCallSized ==
    ASSUME Inv, SizeInv, NEW c \in Client, client[c].pc # "idle",
           NEW new, client' = [client EXCEPT ![c] = new],
           \A s \in Slot : s # client[c].slot => slot'[s] = slot[s],
           \A r \in Requests : r # client[c].req => work'[r] = work[r]
    PROVE  client'[c] = new /\ \A d \in Client : d # c => Sized(d)'
<1>1. client \in [Client -> Call]
  BY Types DEF Inv
<1>2. client'[c] = new /\ \A d \in Client : d # c => client'[d] = client[d]
  BY <1>1
<1>3. ASSUME NEW d \in Client, d # c PROVE Sized(d)'
  <2>1. Sized(d) /\ client'[d] = client[d]
    BY <1>2, <1>3 DEF SizeInv
  <2>2. client[d].pc # "idle" =>
           /\ client[d].slot \in Slot /\ client[d].req \in Requests
           /\ client[d].slot # client[c].slot /\ client[d].req # client[c].req
    BY <1>3, Apart
  <2>3. client[d].pc # "idle" => work'[client[d].req] = work[client[d].req]
    BY <2>2
  <2>4. client[d].pc = "recv" => slot'[client[d].slot] = slot[client[d].slot]
    BY <2>2
  <2> QED BY <2>1, <2>3, <2>4, OthersStay
<1> QED BY <1>2, <1>3

LEMMA GetSizes ==
    ASSUME Inv, SizeInv, NEW c \in Client, blkfs_get_next_datafile(c) PROVE SizeInv'
<1>1. PICK s \in free, kind \in Kinds : \E want \in Wants(kind) :
          client' = [client EXCEPT ![c] =
                       [Idle EXCEPT !.pc = "reset", !.req = count + 1, !.slot = s,
                                    !.kind = kind, !.want = want,
                                    !.part = IF kind = "list" THEN "length" ELSE "all"]]
  BY DEF blkfs_get_next_datafile
<1>2. PICK want \in Wants(kind) :
          client' = [client EXCEPT ![c] =
                       [Idle EXCEPT !.pc = "reset", !.req = count + 1, !.slot = s,
                                    !.kind = kind, !.want = want,
                                    !.part = IF kind = "list" THEN "length" ELSE "all"]]
  BY <1>1
<1> DEFINE new == [Idle EXCEPT !.pc = "reset", !.req = count + 1, !.slot = s,
                               !.kind = kind, !.want = want,
                               !.part = IF kind = "list" THEN "length" ELSE "all"]
<1>3. UNCHANGED <<slot, work>>
  BY DEF blkfs_get_next_datafile
<1>4. client'[c] = new /\ \A d \in Client : d # c => client'[d] = client[d]
  BY <1>2, Types DEF Inv
<1>5. /\ new.pc = "reset" /\ new.kind = kind /\ new.want = want /\ new.got = 0
      /\ new.taken = 0 /\ new.alone = FALSE
      /\ new.part = IF kind = "list" THEN "length" ELSE "all"
  BY DEF Idle
<1> HIDE DEF new
<1>6. kind = "list" => want = 1
  BY DEF Wants
<1>7. Sized(c)'
  <2>1. CallSizes(c)'
    BY <1>4, <1>5, <1>6 DEF CallSizes, Wants
  <2>2. Whole(c)'
    BY <1>4, <1>5 DEF Whole
  <2> QED BY <2>1, <2>2 DEF Sized
<1>8. ASSUME NEW d \in Client, d # c PROVE Sized(d)'
  BY <1>3, <1>4, <1>8, OthersStay DEF SizeInv
<1>9. \A r \in Requests : JobSizes(r)'
  BY <1>3 DEF SizeInv, JobSizes, Answers
<1> QED BY <1>7, <1>8, <1>9 DEF SizeInv

LEMMA PreReceiveSizes ==
    ASSUME Inv, SizeInv, NEW c \in Client, memslot_pre_receive(c) PROVE SizeInv'
<1> DEFINE new == [client[c] EXCEPT !.pc = "write", !.alone = (AtWork(client[c].slot) = {})]
<1>1. /\ client[c].pc = "reset" /\ client' = [client EXCEPT ![c] = new]
      /\ slot' = [slot EXCEPT ![client[c].slot] = Reset] /\ work' = work
  BY DEF memslot_pre_receive
<1>2. /\ client[c] \in Call /\ client[c].slot \in Slot /\ slot \in [Slot -> Buffer]
  BY <1>1, Apart, Types DEF Inv
<1>3. /\ new.pc = "write" /\ new.kind = client[c].kind /\ new.want = client[c].want
      /\ new.got = client[c].got /\ new.taken = client[c].taken /\ new.part = client[c].part
  BY <1>2 DEF Call
<1> HIDE DEF new
<1>4. \A s \in Slot : s # client[c].slot => slot'[s] = slot[s]
  BY <1>1, <1>2
<1>5. client'[c] = new /\ \A d \in Client : d # c => Sized(d)'
  BY <1>1, <1>4, OneCallSized
<1>6. Sized(c)'
  <2>1. CallSizes(c)
    BY <1>1 DEF SizeInv, Sized
  <2>2. CallSizes(c)'
    BY <1>1, <1>3, <1>5, <2>1 DEF CallSizes, Wants
  <2>3. Whole(c)'
    BY <1>3, <1>5 DEF Whole
  <2> QED BY <2>2, <2>3 DEF Sized
<1>7. \A r \in Requests : JobSizes(r)'
  BY <1>1 DEF SizeInv, JobSizes, Answers
<1> QED BY <1>5, <1>6, <1>7 DEF SizeInv

LEMMA WriteSizes ==
    ASSUME Inv, SizeInv, NEW c \in Client, blkfs_write_control_message(c) PROVE SizeInv'
<1> DEFINE k == client[c]
           new == [k EXCEPT !.pc = "recv"]
           job == [NoWork EXCEPT !.st = "asked", !.slot = k.slot, !.kind = k.kind, !.want = k.want]
<1>1. /\ k.pc = "write" /\ client' = [client EXCEPT ![c] = new]
      /\ work' = [work EXCEPT ![k.req] = job] /\ slot' = slot
  BY DEF blkfs_write_control_message
<1>2. k \in Call /\ k.slot \in Slot /\ k.req \in Requests /\ work \in [Requests -> Job]
  BY <1>1, Apart, Types DEF Inv
<1>3. /\ new.pc = "recv" /\ new.kind = k.kind /\ new.want = k.want /\ new.req = k.req
      /\ new.got = k.got /\ new.taken = k.taken /\ new.part = k.part
      /\ new.slot = k.slot /\ new.alone = k.alone
  BY <1>2 DEF Call
<1>4. job.st = "asked" /\ job.kind = k.kind /\ job.want = k.want /\ job.len = 0
  BY DEF NoWork
<1>5. work'[k.req] = job /\ \A r \in Requests : r # k.req => work'[r] = work[r]
  BY <1>1, <1>2
<1> HIDE DEF new, job
<1>6. client'[c] = new /\ \A d \in Client : d # c => Sized(d)'
  BY <1>1, <1>5, OneCallSized
<1>7. CallSizes(c) /\ k.taken = 0
  BY <1>1 DEF SizeInv, Sized, Inv, CallInv
<1>8. CallSizes(c)'
  BY <1>1, <1>3, <1>4, <1>5, <1>6, <1>7 DEF CallSizes, Wants
<1>9. Whole(c)'
  <2>1. k.alone => slot[k.slot].flag = "waiting"
    BY <1>1 DEF Inv, AnswerInv, Answer
  <2>2. 0 = 0 * Buf /\ 0 = 0 * (Name + 1) /\ 0 \in Nat
    BY SlotsAssumption
  <2>3. CASE k.kind # "list"
    <3>1. k.want > 0
      BY <1>2, <1>7, <2>3, WantsSomething DEF CallSizes, Call
    <3>2. k.alone => AtBlock(c)'
      BY <1>1, <1>3, <1>6, <1>7, <2>1, <2>2, <3>1 DEF AtBlock, CallSizes
    <3> QED BY <1>3, <1>6, <2>3, <3>2 DEF Whole
  <2>4. CASE k.kind = "list"
    <3>1. k.part = "length" /\ k.want = 1 /\ k.got = 0
      BY <1>1, <1>7, <2>4 DEF CallSizes
    <3>2. k.alone => AtName(c)'
      BY <1>1, <1>3, <1>4, <1>5, <1>6, <1>7, <2>1, <2>2, <3>1 DEF AtName
    <3> QED BY <1>3, <1>6, <2>4, <3>2 DEF Whole
  <2> QED BY <2>3, <2>4
<1>10. \A r \in Requests : JobSizes(r)'
  <2>1. ASSUME NEW r \in Requests, r = k.req PROVE JobSizes(r)'
    BY <1>4, <1>5, <2>1 DEF JobSizes
  <2>2. ASSUME NEW r \in Requests, r # k.req PROVE JobSizes(r)'
    BY <1>5, <2>2 DEF SizeInv, JobSizes, Answers
  <2> QED BY <2>1, <2>2
<1> QED BY <1>6, <1>8, <1>9, <1>10 DEF SizeInv, Sized

(* A call that fails promises nothing.                                      *)
LEMMA FailsSizes ==
    ASSUME Inv, SizeInv, NEW c \in Client, client[c].pc # "idle",
           client' = [client EXCEPT ![c].pc = "unlink", ![c].failed = TRUE],
           UNCHANGED <<slot, work>>
    PROVE  SizeInv'
<1> DEFINE new == [client[c] EXCEPT !.pc = "unlink", !.failed = TRUE]
<1>1. client[c] \in Call /\ client' = [client EXCEPT ![c] = new]
  BY Apart, Types DEF Inv
<1>2. /\ new.pc = "unlink" /\ new.failed = TRUE /\ new.kind = client[c].kind
      /\ new.want = client[c].want /\ new.got = client[c].got
      /\ new.taken = client[c].taken /\ new.part = client[c].part
  BY <1>1 DEF Call
<1> HIDE DEF new
<1>3. client'[c] = new /\ \A d \in Client : d # c => Sized(d)'
  BY <1>1, OneCallSized
<1>4. CallSizes(c)' /\ Whole(c)'
  BY <1>2, <1>3 DEF SizeInv, Sized, CallSizes, Whole, Wants
<1>5. \A r \in Requests : JobSizes(r)'
  BY DEF SizeInv, JobSizes, Answers
<1> QED BY <1>3, <1>4, <1>5 DEF SizeInv, Sized

LEMMA LeaveSizes ==
    ASSUME Inv, SizeInv, NEW c \in Client, client[c].pc # "idle",
           client' = [client EXCEPT ![c] = Idle], UNCHANGED <<slot, work>>
    PROVE  SizeInv'
<1>1. client'[c] = Idle /\ \A d \in Client : d # c => Sized(d)'
  BY OneCallSized
<1>2. Sized(c)'
  BY <1>1 DEF Sized, Idle
<1>3. \A r \in Requests : JobSizes(r)'
  BY DEF SizeInv, JobSizes, Answers
<1> QED BY <1>1, <1>2, <1>3 DEF SizeInv

(* A receive that is not of a directory ends with the whole answer, or has  *)
(* taken one more full buffer.                                              *)
LEMMA ReceiveBlock ==
    ASSUME Inv, SizeInv, NEW c \in Client, memslot_receive_impl(c),
           client[c].alone, client[c].kind # "list", NEW amt, amt = Amount(c)
    PROVE  /\ amt \in Nat /\ work[client[c].req].st # "asked"
           /\ Ends(c, amt) => client[c].taken + amt = work[client[c].req].len
           /\ ~Ends(c, amt) =>
                 /\ client[c].got + amt < client[c].want
                 /\ \E j \in Nat : client[c].taken + amt = j * Buf
                 /\ Left(slot[client[c].slot], amt).flag = "waiting"
<1> DEFINE k == client[c]
           w == work[k.req]
           b == slot[k.slot]
<1>1. k.pc = "recv" /\ b.flag # "waiting"
  BY DEF memslot_receive_impl
<1>2. k \in Call /\ k.slot \in Slot /\ k.req \in Requests /\ b \in Buffer /\ w \in Job
  BY <1>1, Apart, Types DEF Inv
<1>3. /\ k.got \in Nat /\ k.want \in Nat /\ k.taken \in Nat /\ b.len \in Nat
      /\ w.sent \in Nat /\ w.len \in Nat /\ Buf \in Nat \ {0}
  BY <1>2, SlotsAssumption DEF Call, Buffer, Job
<1>4. AtBlock(c) /\ k.got = k.taken /\ w.kind = k.kind /\ w.want = k.want
  BY <1>1 DEF SizeInv, Sized, Whole, CallSizes
<1>5. k.taken + b.len = w.sent /\ w.sent <= w.len
  BY <1>1, <1>2 DEF Inv, AnswerInv, Answer, Continues, WorkInv
<1>6. w.st \notin {"none", "asked"} /\ k.got < k.want /\ b.len = Lesser(w.len - k.taken, Buf)
  BY <1>1, <1>4 DEF AtBlock, Inv, CallInv
<1>7. w.len <= k.want
  <2>1. w.len \in Answers(w)
    BY <1>2, <1>6 DEF SizeInv, JobSizes, Job, WorkStates
  <2> QED BY <1>2, <1>4, <2>1, AnswerFits
<1>8. PICK j \in Nat : k.taken = j * Buf
  BY <1>4 DEF AtBlock
<1>9. amt = b.len
  <2>1. amt = Lesser(k.want - k.got, b.len)
    BY DEF Amount
  <2>2. b.len <= k.want - k.got
    BY <1>3, <1>4, <1>5, <1>7
  <2> HIDE DEF k, b
  <2> QED BY <1>3, <2>1, <2>2 DEF Lesser
<1>10. /\ b.len <= w.len - k.taken /\ b.len <= Buf
       /\ b.len < Buf => b.len = w.len - k.taken
  BY <1>3, <1>5, <1>6 DEF Lesser
<1>11. Ends(c, amt) => k.taken + amt = w.len
  <2> SUFFICES ASSUME Ends(c, amt) PROVE k.taken + amt = w.len
    OBVIOUS
  <2>1. amt = 0 \/ k.got + amt = k.want \/ amt < Buf
    BY DEF Ends
  <2> HIDE DEF k, w, b
  <2>2. CASE amt < Buf
    BY <1>3, <1>9, <1>10, <2>2
  <2>3. CASE k.got + amt = k.want
    BY <1>3, <1>4, <1>7, <1>9, <1>10, <2>3
  <2> QED BY <1>3, <2>1, <2>2, <2>3
<1>12. ASSUME ~Ends(c, amt)
       PROVE  k.got + amt < k.want /\ k.taken + amt = (j + 1) * Buf /\ amt # 0
  <2>1. amt # 0 /\ k.got + amt # k.want /\ ~(amt < Buf /\ amt < k.want)
    BY <1>12 DEF Ends
  <2>2. (j + 1) * Buf = j * Buf + Buf
    BY <1>3, Multiples
  <2> HIDE DEF k, w, b
  <2>3. k.got + amt < k.want
    BY <1>3, <1>4, <1>7, <1>9, <1>10, <2>1
  <2>4. amt = Buf
    BY <1>3, <1>9, <1>10, <2>1, <2>3
  <2> QED BY <1>8, <2>1, <2>2, <2>3, <2>4
<1>13. amt # 0 => Left(b, amt).flag = "waiting"
  <2> SUFFICES ASSUME amt # 0 PROVE Left(b, amt).flag = "waiting"
    OBVIOUS
  <2>1. ~(b.len = 0) /\ b.len > 0
    BY <1>3, <1>9
  <2>2. Left(b, amt) = Reset
    BY <1>9, <2>1, Zenon DEF Left
  <2> QED BY <2>2 DEF Reset
<1>14. \A i \in Nat : i + 1 \in Nat
  OBVIOUS
<1> QED BY <1>3, <1>6, <1>8, <1>9, <1>11, <1>12, <1>13, <1>14

(* A receive of a directory that fits into a buffer finds a length or all   *)
(* of a name.                                                               *)
LEMMA ReceiveName ==
    ASSUME Inv, SizeInv, NEW c \in Client, memslot_receive_impl(c),
           client[c].alone, client[c].kind = "list", work[client[c].req].len <= Buf,
           NEW amt, amt = Amount(c)
    PROVE  /\ Ends(c, amt) /\ work[client[c].req].st = "sent"
           /\ \A next \in NextPart(c, amt) :
                 /\ next.pc = "unlink" => client[c].taken + amt = work[client[c].req].len
                 /\ next.pc = "recv" =>
                       /\ next.got = 0 /\ client[c].taken + amt < work[client[c].req].len
                       /\ \E m \in Nat :
                             \/ /\ next.part = "length" /\ next.want = 1
                                /\ client[c].taken + amt = m * (Name + 1)
                             \/ /\ next.part = "name" /\ next.want = Name
                                /\ client[c].taken + amt = m * (Name + 1) + 1
<1> DEFINE k == client[c]
           w == work[k.req]
           b == slot[k.slot]
<1>1. k.pc = "recv" /\ b.flag # "waiting"
  BY DEF memslot_receive_impl
<1>2. k \in Call /\ k.slot \in Slot /\ k.req \in Requests /\ b \in Buffer /\ w \in Job
  BY <1>1, Apart, Types DEF Inv
<1>3. /\ k.want \in Nat /\ k.taken \in Nat /\ b.len \in Nat /\ w.sent \in Nat /\ w.len \in Nat
      /\ Name \in Nat \ {0} /\ Name + 1 \in Nat \ {0}
  BY <1>2, SlotsAssumption DEF Call, Buffer, Job
<1>4. AtName(c) /\ w.kind = "list"
  BY <1>1 DEF SizeInv, Sized, Whole, CallSizes
<1>5. k.got = 0 /\ w.st = "sent" /\ k.taken < w.len
  BY <1>1, <1>4 DEF AtName
<1>6. k.taken + b.len = w.len /\ w.len \in Answers(w)
  BY <1>1, <1>2, <1>5 DEF Inv, AnswerInv, Answer, Continues, SizeInv, JobSizes
<1>7. PICK n \in Nat : w.len = n * (Name + 1) + 1
  BY <1>2, <1>4, <1>6, AnswerOfNames
<1>8. PICK m \in Nat :
          \/ k.part = "length" /\ k.want = 1 /\ k.taken = m * (Name + 1)
          \/ k.part = "name" /\ k.want = Name /\ k.taken = m * (Name + 1) + 1
  BY <1>4 DEF AtName
<1>9. /\ m * (Name + 1) \in Nat /\ n * (Name + 1) \in Nat
      /\ (m + 1) * (Name + 1) = m * (Name + 1) + (Name + 1) /\ m + 1 \in Nat
  BY <1>3, Multiples
<1>10. amt = Lesser(k.want - 0, b.len)
  BY <1>5 DEF Amount
<1>11. CASE k.part = "length" /\ k.want = 1 /\ k.taken = m * (Name + 1)
  <2>1. amt = 1
    BY <1>3, <1>5, <1>6, <1>10, <1>11 DEF Lesser
  <2>2. Ends(c, amt)
    BY <1>5, <1>11, <2>1 DEF Ends
  <2>3. k.taken + amt = m * (Name + 1) + 1 /\ amt > 0 /\ amt \in Nat
    BY <1>11, <2>1
  <2>4. \A next \in NextPart(c, amt) :
           /\ k.taken + amt = w.len => next.pc = "unlink" /\ next.part = "length"
           /\ k.taken + amt # w.len =>
                 next.pc = "recv" /\ next.part = "name" /\ next.want = Name /\ next.got = 0
    BY <1>1, <1>2, <1>11, <2>3, NextPartLength
  <2>5. k.taken + amt <= w.len
    BY <1>3, <1>5, <2>1
  <2> HIDE DEF k, w, b
  <2>6. k.taken + amt # w.len => k.taken + amt < w.len
    BY <1>3, <2>1, <2>5
  <2>7. CASE k.taken + amt = w.len
    BY <1>5, <2>2, <2>4, <2>7 DEF k, w
  <2>8. CASE k.taken + amt # w.len
    BY <1>5, <2>2, <2>3, <2>4, <2>6, <2>8 DEF k, w
  <2> QED BY <2>7, <2>8
<1>12. CASE k.part = "name" /\ k.want = Name /\ k.taken = m * (Name + 1) + 1
  <2>1. m * (Name + 1) < n * (Name + 1)
    BY <1>5, <1>7, <1>9, <1>12
  <2>2. (m + 1) * (Name + 1) <= n * (Name + 1)
    BY <1>3, <2>1, NextMultiple
  <2>3. Name <= b.len
    BY <1>3, <1>6, <1>7, <1>9, <1>12, <2>2
  <2>4. amt = Name
    BY <1>3, <1>10, <1>12, <2>3 DEF Lesser
  <2>5. Ends(c, amt)
    BY <1>3, <1>5, <1>12, <2>4 DEF Ends
  <2>6. \A next \in NextPart(c, amt) :
           next.pc = "recv" /\ next.part = "length" /\ next.want = 1 /\ next.got = 0
    <3>1. amt \in Nat /\ amt > 0
      BY <1>3, <2>4
    <3> QED BY <1>1, <1>2, <1>12, <3>1, NextPartName
  <2>7. k.taken + amt = (m + 1) * (Name + 1)
    BY <1>3, <1>9, <1>12, <2>4
  <2>8. k.taken + amt < w.len
    <3>1. (m + 1) * (Name + 1) \in Nat
      BY <1>3, <1>9, Multiples
    <3> HIDE DEF k, w, b
    <3> QED BY <1>3, <1>7, <1>9, <2>2, <2>7, <3>1
  <2>9. \E i \in Nat : k.taken + amt = i * (Name + 1)
    <3> WITNESS m + 1 \in Nat
    <3> QED BY <2>7
  <2> QED BY <1>5, <2>5, <2>6, <2>8, <2>9
<1> QED BY <1>8, <1>11, <1>12

LEMMA ReceiveSizes ==
    ASSUME Inv, SizeInv, NEW c \in Client, memslot_receive_impl(c) PROVE SizeInv'
<1> DEFINE k == client[c]
           w == work[k.req]
           b == slot[k.slot]
           amt == Amount(c)
<1>1. /\ k.pc = "recv" /\ b.flag # "waiting" /\ work' = work
      /\ slot' = [slot EXCEPT ![k.slot] = Left(b, amt)]
  BY DEF memslot_receive_impl
<1>2. /\ k \in Call /\ k.slot \in Slot /\ k.req \in Requests /\ slot \in [Slot -> Buffer]
      /\ b \in Buffer /\ k.got <= k.want /\ client \in [Client -> Call]
  BY <1>1, Apart, Types DEF Inv, CallInv
<1>3. amt \in Nat /\ amt <= b.len /\ k.got + amt <= k.want
  BY <1>2 DEF Amount, Lesser, Call, Buffer
<1> HIDE DEF amt
<1>4. PICK new :
          /\ client' = [client EXCEPT ![c] = new]
          /\ new.pc \in {"recv", "unlink"} /\ new.req = k.req /\ new.slot = k.slot
          /\ new.alone = k.alone /\ new.taken = k.taken + amt /\ new.kind = k.kind
          /\ \/ Ends(c, amt) /\ new \in NextPart(c, amt)
             \/ /\ ~Ends(c, amt) /\ new.pc = "recv" /\ new.part = k.part
                /\ new.want = k.want /\ new.got = k.got + amt
  <2>1. CASE Ends(c, amt) /\ \E next \in NextPart(c, amt) : client' = [client EXCEPT ![c] = next]
    BY <1>1, <1>2, <1>3, <2>1, NextPartIsCall
  <2>2. CASE ~Ends(c, amt) /\ client' = [client EXCEPT ![c].got = @ + amt, ![c].taken = @ + amt]
    <3> DEFINE new == [k EXCEPT !.got = k.got + amt, !.taken = k.taken + amt]
    <3>1. client' = [client EXCEPT ![c] = new]
      BY <1>2, <2>2
    <3>2. /\ new.pc = "recv" /\ new.slot = k.slot /\ new.req = k.req /\ new.kind = k.kind
          /\ new.alone = k.alone /\ new.taken = k.taken + amt /\ new.part = k.part
          /\ new.got = k.got + amt /\ new.want = k.want
      <4> HIDE DEF k
      <4> QED BY <1>1, <1>2 DEF Call
    <3> HIDE DEF new
    <3> QED BY <2>2, <3>1, <3>2
  <2> QED BY <2>1, <2>2 DEF memslot_receive_impl, amt
<1>5. /\ slot'[k.slot] = Left(b, amt) /\ \A s \in Slot : s # k.slot => slot'[s] = slot[s]
  BY <1>1, <1>2
<1>6. client'[c] = new /\ \A d \in Client : d # c => Sized(d)'
  BY <1>1, <1>4, <1>5, OneCallSized
<1>7. CallSizes(c)
  BY <1>1 DEF SizeInv, Sized
<1>8. k.kind # "list" =>
         new.part = "all" /\ new.want = k.want /\ new.got = k.got + amt
  BY <1>2, <1>3, <1>4, <1>7, NextPartAll DEF CallSizes
<1>9. CallSizes(c)'
  <2>1. k.kind # "list" => new.want \in Wants(k.kind) /\ new.got = new.taken
    BY <1>4, <1>7, <1>8 DEF CallSizes
  <2>2. new.pc = "recv" => work'[new.req].kind = new.kind
                           /\ (new.kind # "list" => work'[new.req].want = new.want)
    BY <1>1, <1>4, <1>7, <1>8 DEF CallSizes
  <2>3. Wants(k.kind)' = Wants(new.kind)
    BY <1>4, <1>6 DEF Wants
  <2> QED BY <1>4, <1>6, <1>8, <2>1, <2>2 DEF CallSizes, Wants
<1>10. ASSUME k.alone, k.kind # "list" PROVE Whole(c)'
  <2>1. /\ w.st # "asked"
        /\ Ends(c, amt) => k.taken + amt = w.len
        /\ ~Ends(c, amt) => /\ k.got + amt < k.want
                            /\ \E j \in Nat : k.taken + amt = j * Buf
                            /\ Left(b, amt).flag = "waiting"
    BY <1>10, ReceiveBlock DEF amt
  <2>2. CASE Ends(c, amt)
    <3>1. new.pc = "unlink"
      BY <1>2, <1>3, <1>4, <1>7, <1>10, <2>2, NextPartAll DEF CallSizes
    <3> QED BY <1>1, <1>4, <1>6, <2>1, <2>2, <3>1 DEF Whole
  <2>3. CASE ~Ends(c, amt)
    <3>1. new.pc = "recv"
      BY <1>4, <2>3
    <3>2. AtBlock(c)'
      BY <1>4, <1>5, <1>6, <1>8, <1>10, <2>1, <2>3 DEF AtBlock
    <3> QED BY <1>4, <1>6, <1>10, <3>1, <3>2 DEF Whole
  <2> QED BY <2>2, <2>3
<1>11. ASSUME k.alone, k.kind = "list", w.len <= Buf PROVE Whole(c)'
  <2>1. Ends(c, amt)
    BY <1>11, ReceiveName DEF amt
  <2>2. new \in NextPart(c, amt)
    BY <1>4, <2>1
  <2>3. /\ w.st = "sent"
        /\ new.pc = "unlink" => k.taken + amt = w.len
        /\ new.pc = "recv" =>
              /\ new.got = 0 /\ k.taken + amt < w.len
              /\ \E m \in Nat :
                    \/ new.part = "length" /\ new.want = 1 /\ k.taken + amt = m * (Name + 1)
                    \/ new.part = "name" /\ new.want = Name
                       /\ k.taken + amt = m * (Name + 1) + 1
    BY <1>11, <2>2, ReceiveName DEF amt
  <2>4. ASSUME new.pc = "recv" PROVE AtName(c)'
    <3>1. \E m \in Nat :
             \/ new.part = "length" /\ new.want = 1 /\ new.taken = m * (Name + 1)
             \/ new.part = "name" /\ new.want = Name /\ new.taken = m * (Name + 1) + 1
      BY <1>4, <2>3, <2>4, Zenon
    <3>2. new.got = 0 /\ new.taken < w.len /\ w.st = "sent" /\ work'[new.req] = w
      BY <1>1, <1>4, <2>3, <2>4
    <3> QED BY <1>6, <3>1, <3>2 DEF AtName
  <2> QED BY <1>1, <1>4, <1>6, <1>11, <2>3, <2>4 DEF Whole
<1>12. Whole(c)'
  <2>1. CASE ~k.alone \/ (k.kind = "list" /\ ~(w.len <= Buf))
    BY <1>1, <1>4, <1>6, <2>1 DEF Whole
  <2> QED BY <1>10, <1>11, <2>1
<1>13. \A r \in Requests : JobSizes(r)'
  BY <1>1 DEF SizeInv, JobSizes, Answers
<1> QED BY <1>6, <1>9, <1>12, <1>13 DEF SizeInv, Sized

(* A step of a worker keeps what the calls of other requests have, if it    *)
(* writes to its own slot only while it is the sole worker there.           *)
LEMMA WorkerSized ==
    ASSUME Inv, SizeInv, NEW r \in Requests, NEW new,
           work' = [work EXCEPT ![r] = new], client' = client,
           work[r].st \in {"asked", "sending"},
           \A s \in Slot : s # work[r].slot => slot'[s] = slot[s],
           new.kind = work[r].kind, new.want = work[r].want
    PROVE  /\ work'[r] = new
           /\ \A q \in Requests : q # r => work'[q] = work[q] /\ JobSizes(q)'
           /\ \A c \in Client : client[c].pc # "idle" => CallSizes(c)'
           /\ \A c \in Client :
                 client[c].pc # "idle" /\ client[c].req # r => Whole(c)'
<1>1. work \in [Requests -> Job]
  BY Types DEF Inv
<1>2. work'[r] = new /\ \A q \in Requests : q # r => work'[q] = work[q]
  BY <1>1
<1>3. \A q \in Requests : q # r => JobSizes(q)'
  BY <1>2 DEF SizeInv, JobSizes, Answers
<1>4. ASSUME NEW c \in Client, client[c].pc # "idle" PROVE CallSizes(c)'
  <2>1. CallSizes(c) /\ client[c].req \in Requests
    BY <1>4, Apart DEF SizeInv, Sized
  <2> QED BY <1>2, <2>1 DEF CallSizes, Wants
<1>5. ASSUME NEW c \in Client, client[c].pc # "idle", client[c].req # r PROVE Whole(c)'
  <2>1. Sized(c) /\ client[c].req \in Requests /\ client[c].slot \in Slot
    BY <1>5, Apart DEF SizeInv
  <2>2. client[c].alone /\ client[c].pc = "recv" => client[c].slot # work[r].slot
    BY <1>5 DEF Inv, AnswerInv, Answer, SoleWorker
  <2>3. CASE client[c].alone
    <3>1. client[c].pc = "recv" => slot'[client[c].slot] = slot[client[c].slot]
      BY <2>1, <2>2, <2>3
    <3>2. work'[client[c].req] = work[client[c].req]
      BY <1>2, <1>5, <2>1
    <3>3. Sized(c)'
      BY <2>1, <3>1, <3>2, OthersStay
    <3> QED BY <1>5, <3>3 DEF Sized
  <2>4. CASE ~client[c].alone
    BY <2>4 DEF Whole
  <2> QED BY <2>3, <2>4
<1> QED BY <1>2, <1>3, <1>4, <1>5

LEMMA DispatchSizes ==
    ASSUME Inv, SizeInv, NEW r \in Requests, dispatch(r) PROVE SizeInv'
<1>1. PICK len \in Answers(work[r]) :
          work' = [work EXCEPT ![r].st = "sending", ![r].len = len]
  BY DEF dispatch
<1> DEFINE new == [work[r] EXCEPT !.st = "sending", !.len = len]
<1>2. /\ work[r].st = "asked" /\ work[r] \in Job /\ UNCHANGED <<slot, client>>
      /\ work' = [work EXCEPT ![r] = new] /\ len \in Nat
  BY <1>1, Types, AnswersAreNat DEF dispatch, Inv
<1>3. /\ new.st = "sending" /\ new.len = len /\ new.kind = work[r].kind
      /\ new.want = work[r].want /\ new.sent = work[r].sent
  BY <1>2 DEF Job
<1> HIDE DEF new
<1>4. /\ work'[r] = new
      /\ \A q \in Requests : q # r => work'[q] = work[q] /\ JobSizes(q)'
      /\ \A c \in Client : client[c].pc # "idle" => CallSizes(c)'
      /\ \A c \in Client : client[c].pc # "idle" /\ client[c].req # r => Whole(c)'
  BY <1>2, <1>3, WorkerSized
<1>5. work[r].sent = 0 /\ work[r].len = 0
  BY <1>2 DEF Inv, WorkInv, SizeInv, JobSizes
<1>6. JobSizes(r)'
  BY <1>1, <1>3, <1>4, <1>5 DEF JobSizes, Answers
<1>7. ASSUME NEW c \in Client, client[c].pc # "idle", client[c].req = r PROVE Whole(c)'
  <2>1. Whole(c) /\ CallSizes(c) /\ client[c] \in Call
    BY <1>7, Apart DEF SizeInv, Sized
  <2>2. client[c].alone => ~(client[c].pc = "recv" /\ slot[client[c].slot].flag # "waiting"
                             /\ client[c].kind # "list")
    BY <1>2, <1>7, <2>1 DEF Whole, AtBlock
  <2>3. ASSUME client[c].alone, client[c].pc = "recv", client[c].kind # "list"
        PROVE  AtBlock(c)'
    BY <1>2, <2>1, <2>2, <2>3 DEF Whole, AtBlock
  <2>4. ASSUME client[c].alone, client[c].pc = "recv", client[c].kind = "list"
        PROVE  AtName(c)'
    <3>1. AtName(c)
      BY <1>5, <1>7, <2>1, <2>4, SlotsAssumption DEF Whole
    <3>2. slot[client[c].slot].flag = "waiting"
      BY <1>2, <1>7, <3>1 DEF AtName
    <3>3. client[c].taken = 0
      BY <1>5, <1>7, <2>4, <3>2 DEF Inv, AnswerInv, Answer, Continues
    <3>4. work[r].kind = "list"
      BY <1>7, <2>1, <2>4 DEF CallSizes
    <3>5. PICK n \in Nat : len = n * (Name + 1) + 1
      BY <1>2, <3>4, AnswerOfNames
    <3>6. n * (Name + 1) \in Nat
      BY SlotsAssumption, Multiples
    <3>7. 0 < len
      BY <3>5, <3>6
    <3> QED BY <1>2, <1>3, <1>4, <1>7, <3>1, <3>2, <3>3, <3>7 DEF AtName
  <2>5. ~(client[c].alone /\ client[c].pc = "unlink" /\ ~client[c].failed)
    BY <1>2, <1>5, <1>7, <2>1, SlotsAssumption DEF Whole
  <2> QED BY <1>2, <2>3, <2>4, <2>5 DEF Whole
<1> QED BY <1>2, <1>4, <1>6, <1>7 DEF SizeInv, Sized

LEMMA SendTimeoutSizes ==
    ASSUME Inv, SizeInv, NEW r \in Requests, SendTimeout(r) PROVE SizeInv'
<1> DEFINE new == [work[r] EXCEPT !.st = "gaveUp"]
<1>1. /\ work[r].st = "sending" /\ slot[work[r].slot].flag # "waiting"
      /\ work' = [work EXCEPT ![r] = new] /\ UNCHANGED <<slot, client>> /\ work[r] \in Job
  BY Types DEF SendTimeout, Inv
<1>2. /\ new.st = "gaveUp" /\ new.len = work[r].len /\ new.kind = work[r].kind
      /\ new.want = work[r].want /\ new.sent = work[r].sent
  BY <1>1 DEF Job
<1> HIDE DEF new
<1>3. /\ work'[r] = new
      /\ \A q \in Requests : q # r => work'[q] = work[q] /\ JobSizes(q)'
      /\ \A c \in Client : client[c].pc # "idle" => CallSizes(c)'
      /\ \A c \in Client : client[c].pc # "idle" /\ client[c].req # r => Whole(c)'
  BY <1>1, <1>2, WorkerSized
<1>4. JobSizes(r)'
  BY <1>1, <1>2, <1>3 DEF SizeInv, JobSizes, Answers
<1>5. ASSUME NEW c \in Client, client[c].pc # "idle", client[c].req = r PROVE Whole(c)'
  <2>1. Whole(c)
    BY <1>5 DEF SizeInv, Sized
  <2>2. AtBlock(c) => AtBlock(c)'
    BY <1>1, <1>2, <1>3, <1>5 DEF AtBlock
  <2>3. client[c].pc = "recv" => ~AtName(c)
    BY <1>1, <1>5 DEF AtName, Inv, CallInv
  <2> QED BY <1>1, <1>2, <1>3, <1>5, <2>1, <2>2, <2>3 DEF Whole
<1> QED BY <1>1, <1>3, <1>4, <1>5 DEF SizeInv, Sized

LEMMA SendSizes ==
    ASSUME Inv, SizeInv, NEW r \in Requests, memslot_send_impl(r) PROVE SizeInv'
<1> DEFINE w == work[r]
           amt == Lesser(w.len - w.sent, Buf)
           new == [w EXCEPT !.sent = w.sent + amt, !.st = IF w.sent + amt = w.len THEN "sent" ELSE w.st]
           b == [flag |-> "sending", req |-> r, from |-> w.sent, len |-> amt]
<1>1. /\ w.st = "sending" /\ slot[w.slot].flag = "waiting" /\ client' = client
      /\ slot' = [slot EXCEPT ![w.slot] = b] /\ work' = [work EXCEPT ![r] = new]
  BY DEF memslot_send_impl
<1>2. /\ w \in Job /\ w.slot \in Slot /\ slot \in [Slot -> Buffer] /\ w.sent <= w.len
      /\ w.sent \in Nat /\ w.len \in Nat /\ Buf \in Nat \ {0}
  BY <1>1, Types, SlotsAssumption DEF Inv, TypeOK, WorkInv, Job
<1>3. /\ amt \in Nat /\ w.sent + amt <= w.len
      /\ w.sent + amt # w.len => amt = Buf
      /\ w.sent = 0 /\ w.len <= Buf => amt = w.len
  BY <1>2 DEF Lesser
<1> HIDE DEF amt
<1>4. /\ new.len = w.len /\ new.kind = w.kind /\ new.want = w.want
      /\ new.sent = w.sent + amt
      /\ new.st = IF w.sent + amt = w.len THEN "sent" ELSE "sending"
  <2> HIDE DEF w
  <2> QED BY <1>1, <1>2 DEF Job
<1>5. b.flag = "sending" /\ b.len = amt
  OBVIOUS
<1>6. slot'[w.slot] = b /\ \A s \in Slot : s # w.slot => slot'[s] = slot[s]
  BY <1>1, <1>2
<1> HIDE DEF new, b
<1>7. /\ work'[r] = new
      /\ \A q \in Requests : q # r => work'[q] = work[q] /\ JobSizes(q)'
      /\ \A c \in Client : client[c].pc # "idle" => CallSizes(c)'
      /\ \A c \in Client : client[c].pc # "idle" /\ client[c].req # r => Whole(c)'
  BY <1>1, <1>4, <1>6, WorkerSized
<1>8. w.len \in Answers(w) /\ (w.sent = 0 \/ Buf < w.len)
  BY <1>1 DEF SizeInv, JobSizes
<1>9. JobSizes(r)'
  <2>1. new.len \in Answers(new)
    BY <1>4, <1>8 DEF Answers
  <2>2. new.st = "sent" => new.sent = new.len
    BY <1>4
  <2>3. new.st = "sending" => Buf < new.len
    <3> HIDE DEF w
    <3> QED BY <1>2, <1>3, <1>4, <1>8
  <2> QED BY <1>4, <1>7, <2>1, <2>2, <2>3 DEF JobSizes, Answers
<1>10. ASSUME NEW c \in Client, client[c].pc # "idle", client[c].req = r PROVE Whole(c)'
  <2>1. Whole(c) /\ (client[c].pc = "recv" => client[c].slot = w.slot)
    BY <1>10 DEF SizeInv, Sized, Inv, CallInv
  <2>2. ASSUME client[c].pc = "recv", client[c].alone PROVE client[c].taken = w.sent
    BY <1>1, <1>10, <2>1, <2>2 DEF Inv, AnswerInv, Answer, Continues
  <2>3. ASSUME client[c].pc = "recv", client[c].alone, client[c].kind # "list"
        PROVE  AtBlock(c)'
    <3>1. AtBlock(c)
      BY <2>1, <2>3 DEF Whole
    <3>2. client[c].taken = w.sent
      BY <2>2, <2>3
    <3>3. new.st # "asked" /\ b.len = Lesser(new.len - client[c].taken, Buf)
      BY <1>4, <1>5, <3>2 DEF amt
    <3> QED BY <1>1, <1>6, <1>7, <1>10, <2>1, <2>3, <3>1, <3>3 DEF AtBlock
  <2>4. ASSUME client[c].pc = "recv", client[c].alone, client[c].kind = "list", w.len <= Buf
        PROVE  AtName(c)'
    <3>1. AtName(c)
      BY <1>10, <2>1, <2>4 DEF Whole
    <3>2. w.sent = 0
      BY <1>2, <1>8, <2>4
    <3>3. new.st = "sent"
      BY <1>2, <1>3, <1>4, <2>4, <3>2
    <3>4. client[c].taken < w.len
      BY <1>1, <1>10, <3>1 DEF AtName
    <3> QED BY <1>1, <1>4, <1>7, <1>10, <3>1, <3>3, <3>4 DEF AtName
  <2> QED BY <1>1, <1>4, <1>7, <1>10, <2>1, <2>3, <2>4 DEF Whole
<1> QED BY <1>1, <1>7, <1>9, <1>10 DEF SizeInv, Sized

LEMMA InitSizes == Init => SizeInv
<1> SUFFICES ASSUME Init PROVE SizeInv
  OBVIOUS
<1>1. \A r \in Requests : JobSizes(r)
  BY DEF Init, JobSizes, NoWork
<1>2. \A c \in Client : Sized(c)
  BY DEF Init, Sized, Idle
<1> QED BY <1>1, <1>2 DEF SizeInv

LEMMA NextSizes == Inv /\ SizeInv /\ [Next]_vars => SizeInv'
<1> SUFFICES ASSUME Inv, SizeInv, [Next]_vars PROVE SizeInv'
  OBVIOUS
<1>1. ASSUME NEW c \in Client, WriteFails(c) PROVE SizeInv'
  <2>1. client[c].pc # "idle" /\ UNCHANGED <<slot, work>>
    BY <1>1 DEF WriteFails
  <2>2. CASE client' = [client EXCEPT ![c] = Idle]
    BY <2>1, <2>2, LeaveSizes
  <2>3. CASE client' = [client EXCEPT ![c].pc = "unlink", ![c].failed = TRUE]
    BY <2>1, <2>3, FailsSizes
  <2> QED BY <1>1, <2>2, <2>3 DEF WriteFails
<1>2. ASSUME NEW c \in Client, ReceiveTimeout(c) PROVE SizeInv'
  BY <1>2, FailsSizes DEF ReceiveTimeout
<1>3. ASSUME NEW c \in Client, blkfs_unlink_datafile(c) PROVE SizeInv'
  BY <1>3, LeaveSizes DEF blkfs_unlink_datafile
<1>4. CASE UNCHANGED vars
  <2>1. \A r \in Requests : JobSizes(r)'
    BY <1>4 DEF vars, SizeInv, JobSizes, Answers
  <2>2. \A c \in Client : Sized(c)'
    BY <1>4, OthersStay DEF vars, SizeInv
  <2> QED BY <2>1, <2>2 DEF SizeInv
<1> QED
  BY <1>1, <1>2, <1>3, <1>4, GetSizes, PreReceiveSizes, WriteSizes, ReceiveSizes,
     DispatchSizes, SendSizes, SendTimeoutSizes
     DEF Next, ClientStep, Worker

(* The invariants of the slots and of the sizes, together.                  *)
THEOREM SizesCorrect == Spec => []SizeInv
  BY InitInv, NextKeeps, InitSizes, NextSizes, PTL DEF Spec

(* memslot_receive_fully: whatever the sizes, a call that does not fail has *)
(* received its whole answer, of a directory if it fits into a buffer.      *)
THEOREM AnswerIsWhole == Spec => []WholeAnswer
<1>1. SizeInv => WholeAnswer
  BY DEF SizeInv, Sized, Whole, WholeAnswer
<1> QED BY <1>1, SizesCorrect, PTL

(* A call waits in vain only for the end of an answer of whole buffers that *)
(* is shorter than what it asked for.                                       *)
THEOREM NothingStalls == Spec => []NoStall
<1>1. Inv /\ SizeInv => NoStall
  <2> SUFFICES ASSUME Inv, SizeInv, NEW c \in Client,
                      client[c].pc = "recv", client[c].alone,
                      work[client[c].req].st = "sent",
                      slot[client[c].slot].flag = "waiting",
                      client[c].kind = "list" => work[client[c].req].len <= Buf
               PROVE  /\ client[c].kind \in {"read", "link"}
                      /\ work[client[c].req].len < client[c].want
                      /\ work[client[c].req].len % Buf = 0
    BY DEF NoStall
  <2> DEFINE k == client[c]
             w == work[k.req]
  <2>1. k \in Call /\ k.req \in Requests /\ w \in Job
    BY Apart, Types DEF Inv
  <2>2. k.taken = w.sent /\ w.sent = w.len /\ w.len \in Answers(w)
    BY <2>1 DEF Inv, AnswerInv, Answer, Continues, SizeInv, JobSizes
  <2>3. CallSizes(c) /\ Whole(c)
    BY DEF SizeInv, Sized
  <2>4. k.kind # "list"
    <3>1. CASE k.kind = "list"
      <4>1. k.taken < w.len
        BY <2>3, <3>1 DEF Whole, AtName
      <4> QED BY <2>1, <2>2, <4>1 DEF Job
    <3> QED BY <3>1
  <2>5. AtBlock(c) /\ k.got = k.taken /\ w.want = k.want /\ w.kind = k.kind
    BY <2>3, <2>4 DEF Whole, CallSizes
  <2>6. k.taken < k.want
    BY <2>5 DEF AtBlock
  <2>7. k.kind # "attr"
    <3>1. CASE k.kind = "attr"
      <4>1. w.len = k.want
        BY <2>1, <2>2, <2>5, <3>1, AnswerFits
      <4> QED BY <2>1, <2>2, <2>6, <4>1 DEF Job
    <3> QED BY <3>1
  <2>8. PICK j \in Nat : k.taken = j * Buf
    BY <2>5 DEF AtBlock
  <2>9. (j * Buf) % Buf = 0
    BY Remainder, SlotsAssumption
  <2>10. w.len % Buf = 0
    BY <2>2, <2>8, <2>9
  <2> QED BY <2>1, <2>2, <2>4, <2>6, <2>7, <2>10 DEF Call, Kinds
<1> QED BY <1>1, Invariance, SizesCorrect, PTL
=============================================================================
