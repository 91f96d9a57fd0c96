------------------------------- MODULE FuseSlots -------------------------------
(***************************************************************************)
(* Reads of the restore file system (src/fuse/blkfs.c, blkfs_shared.c,     *)
(* memslot.c).  A thread of the FUSE client takes a slot of the shared     *)
(* memory from its pool, resets it, names it in a control message to the   *)
(* engine and takes the answer out of it, a buffer at a time; a worker of  *)
(* the engine (FuseMonitor, RestoreMonitor) puts the answer in.  Either    *)
(* side may give up waiting, and a slot that was given back may still have *)
(* a worker of an earlier request.                                         *)
(* Every critical section of a slot's mutex is one action.  A wait for the *)
(* flag of a slot looks at it every 3 s whether or not it is signalled.    *)
(***************************************************************************)
EXTENDS Naturals, FiniteSets

CONSTANTS
    Client,    \* threads of the FUSE client
    Slot,      \* the slots of this client
    Buf,       \* MEMSLOT_SHARED_BUFFER_SIZE
    Read,      \* sizes of reads that the kernel asks for
    Stat,      \* sizeof(struct blkfs_stat)
    Path,      \* the longest target of a link
    Name,      \* the length of a name in a directory; its length field is 1
    Names,     \* how many names directories have
    MaxReq,    \* bound: requests
    Faults,    \* "slow": a side takes longer than the other waits;
               \* "write": the control pipe is broken
    None       \* no slot and no request

ASSUME SlotsAssumption ==
    /\ Buf \in Nat \ {0} /\ Stat \in Nat \ {0} /\ Path \in Nat \ {0} /\ Name \in Nat \ {0}
    /\ Read \subseteq Nat \ {0}
    /\ Names \subseteq Nat
    /\ MaxReq \in Nat
    /\ Faults \subseteq {"slow", "write"}
    /\ None \notin Slot \cup Nat

Requests == 1..MaxReq

Kinds == {"read", "attr", "link", "list"}

VARIABLES
    free,      \* pipe_list and the slots not used yet
    slot,      \* shared memory: flag, whose answer, from which unit, bufLen
    client,    \* per thread: its call, and the receive that it is in
    work,      \* per request: the worker of the engine
    count,     \* number of requests so far
    leaked     \* history: slots that no call gave back

vars == <<free, slot, client, work, count, leaked>>

Calls == {"idle", "reset", "write", "recv", "unlink"}

(* want and got are those of one memslot_receive_fully; taken is what the   *)
(* request has received in all.  alone is history: no worker of an earlier  *)
(* request had the slot when it was reset.                                  *)
Idle == [pc |-> "idle", req |-> None, slot |-> None, kind |-> "read", part |-> "all",
         want |-> 0, got |-> 0, taken |-> 0, failed |-> FALSE, alone |-> FALSE]

NoWork == [st |-> "none", slot |-> None, kind |-> "read", want |-> 0, len |-> 0, sent |-> 0]

TypeOK ==
    /\ free \subseteq Slot
    /\ slot \in [Slot -> [flag : {"waiting", "sending", "underread"},
                          req : Requests \cup {None}, from : Nat, len : Nat]]
    /\ client \in [Client -> [pc : Calls, req : Requests \cup {None},
                              slot : Slot \cup {None}, kind : Kinds,
                              part : {"all", "length", "name"}, want : Nat, got : Nat,
                              taken : Nat, failed : BOOLEAN, alone : BOOLEAN]]
    /\ work \in [Requests -> [st : {"none", "asked", "sending", "sent", "gaveUp"},
                              slot : Slot \cup {None}, kind : Kinds, want : Nat,
                              len : Nat, sent : Nat]]
    /\ count \in 0..MaxReq
    /\ leaked \subseteq Slot
    /\ \A c \in Client : client[c].pc # "idle" =>
          client[c].slot \in Slot /\ client[c].req \in Requests
    /\ \A r \in Requests : work[r].st # "none" => work[r].slot \in Slot
-----------------------------------------------------------------------------
Lesser(a, b) == IF a < b THEN a ELSE b

(* Workers of the engine that still may write to the slot.                  *)
AtWork(s) == {r \in Requests : work[r].st \in {"asked", "sending"} /\ work[r].slot = s}

(* memslot_client_reset                                                     *)
Reset == [flag |-> "waiting", req |-> None, from |-> 0, len |-> 0]

Wants(kind) ==
    CASE kind = "read" -> Read
      [] kind = "attr" -> {Stat}
      [] kind = "link" -> {Path}
      [] OTHER         -> {1}

(* The client: a slot from the pool.  A thread that finds none for 30 s     *)
(* answers EBUSY, which changes nothing.                                    *)
blkfs_get_next_datafile(c) ==
    /\ client[c].pc = "idle"
    /\ count < MaxReq
    /\ count' = count + 1
    /\ \E s \in free, kind \in Kinds : \E want \in Wants(kind) :
          /\ free' = free \ {s}
          /\ client' = [client EXCEPT ![c] =
                          [Idle EXCEPT !.pc = "reset", !.req = count + 1, !.slot = s,
                                       !.kind = kind, !.want = want,
                                       !.part = IF kind = "list" THEN "length" ELSE "all"]]
    /\ UNCHANGED <<slot, work, leaked>>

(* faulty: the slot keeps what an earlier request left in it.               *)
memslot_no_pre_receive(c) ==
    LET s == client[c].slot
    IN  /\ client[c].pc = "reset"
        /\ client' = [client EXCEPT ![c].pc = "write", ![c].alone = (AtWork(s) = {})]
        /\ UNCHANGED <<free, slot, work, count, leaked>>

memslot_pre_receive(c) ==
    LET s == client[c].slot
    IN  /\ client[c].pc = "reset"
        /\ slot' = [slot EXCEPT ![s] = Reset]
        /\ client' = [client EXCEPT ![c].pc = "write", ![c].alone = (AtWork(s) = {})]
        /\ UNCHANGED <<free, work, count, leaked>>

(* The control message.  When it cannot be written, reads and getattr       *)
(* return without giving their slot back.                                   *)
blkfs_write_control_message(c) ==
    LET k == client[c]
    IN  /\ k.pc = "write"
        /\ client' = [client EXCEPT ![c].pc = "recv"]
        /\ work' = [work EXCEPT ![k.req] =
                      [NoWork EXCEPT !.st = "asked", !.slot = k.slot, !.kind = k.kind,
                                     !.want = k.want]]
        /\ UNCHANGED <<free, slot, count, leaked>>

WriteFails(c) ==
    LET k == client[c]
    IN  /\ k.pc = "write"
        /\ "write" \in Faults
        /\ \/ /\ k.kind \in {"read", "attr"}
              /\ leaked' = leaked \cup {k.slot}
              /\ client' = [client EXCEPT ![c] = Idle]
           \/ /\ k.kind \in {"link", "list"}
              /\ client' = [client EXCEPT ![c].pc = "unlink", ![c].failed = TRUE]
              /\ UNCHANGED leaked
        /\ UNCHANGED <<free, slot, work, count>>

(* memslot_receive_impl: what it takes off the slot, and what it leaves.    *)
Amount(c) == Lesser(client[c].want - client[c].got, slot[client[c].slot].len)

Left(b, amt) ==
    CASE b.len = 0   -> b
      [] amt = b.len /\ b.len > 0 -> Reset
      [] OTHER -> [b EXCEPT !.flag = "underread", !.from = @ + amt, !.len = @ - amt]

(* faulty: a buffer that was full ends the answer ...                       *)
EndsShort(c, amt) ==
    \/ amt = 0
    \/ client[c].got + amt = client[c].want
    \/ amt < client[c].want

(* faulty: ... and only an empty one, or none, does.                        *)
EndsEmpty(c, amt) == amt = 0 \/ client[c].got + amt = client[c].want

(* memslot_receive_fully ends with what was wanted, with nothing, or with a *)
(* buffer that was not full.                                                *)
Ends(c, amt) ==
    \/ amt = 0
    \/ client[c].got + amt = client[c].want
    \/ amt < Buf /\ amt < client[c].want

(* What a call does with what it received: the attributes, data or target   *)
(* end it; the length of a name asks for the name, unless it is 0.  Past a  *)
(* name that came short, a length may be anything.                          *)
NextPart(c, amt) ==
    LET k == client[c]
        total == k.taken + amt
        exact == amt > 0 /\ total = ((total - 1) \div (Name + 1)) * (Name + 1) + 1
        last  == total = work[k.req].len
        done(failed) == [k EXCEPT !.pc = "unlink", !.taken = total, !.got = @ + amt,
                                  !.failed = failed]
        next(part, want) == [k EXCEPT !.part = part, !.want = want, !.got = 0, !.taken = total]
    IN  CASE k.part = "all" ->
               {done(k.kind = "attr" /\ k.got + amt # k.want)}
          [] k.part = "length" ->
               (IF amt = 0 \/ ~exact \/ last THEN {done(FALSE)} ELSE {})
               \cup (IF amt > 0 /\ (~exact \/ ~last) THEN {next("name", Name)} ELSE {})
               \cup (IF amt > 0 /\ ~exact THEN {done(TRUE)} ELSE {})
          [] OTHER ->
               IF amt = 0 THEN {done(FALSE)} ELSE {next("length", 1)}

memslot_receive_impl(c) ==
    LET k == client[c]
        s == k.slot
        amt == Amount(c)
    IN  /\ k.pc = "recv"
        /\ slot[s].flag \in {"sending", "underread"}
        /\ slot' = [slot EXCEPT ![s] = Left(@, amt)]
        /\ \/ /\ Ends(c, amt)
              /\ \E next \in NextPart(c, amt) : client' = [client EXCEPT ![c] = next]
           \/ /\ ~Ends(c, amt)
              /\ client' = [client EXCEPT ![c].got = @ + amt, ![c].taken = @ + amt]
        /\ UNCHANGED <<free, work, count, leaked>>

(* faulty: only an answer that was sent in full is given up.                *)
TimeoutWhenSent(c) ==
    LET k == client[c]
    IN  /\ k.pc = "recv"
        /\ slot[k.slot].flag = "waiting"
        /\ work[k.req].st = "sent"
        /\ client' = [client EXCEPT ![c].pc = "unlink", ![c].failed = TRUE]
        /\ UNCHANGED <<free, slot, work, count, leaked>>

(* faulty: a call that failed returns at once, as one without a request.    *)
TimeoutReturns(c) ==
    LET k == client[c]
    IN  /\ k.pc = "recv"
        /\ slot[k.slot].flag = "waiting"
        /\ "slow" \in Faults \/ work[k.req].st \in {"sent", "gaveUp"}
        /\ client' = [client EXCEPT ![c] = Idle]
        /\ UNCHANGED <<free, slot, work, count, leaked>>

(* After 300 s the call fails; if nothing is slow, since nothing is to come.*)
ReceiveTimeout(c) ==
    LET k == client[c]
    IN  /\ k.pc = "recv"
        /\ slot[k.slot].flag = "waiting"
        /\ "slow" \in Faults \/ work[k.req].st \in {"sent", "gaveUp"}
        /\ client' = [client EXCEPT ![c].pc = "unlink", ![c].failed = TRUE]
        /\ UNCHANGED <<free, slot, work, count, leaked>>

blkfs_unlink_datafile(c) ==
    /\ client[c].pc = "unlink"
    /\ free' = free \cup {client[c].slot}
    /\ client' = [client EXCEPT ![c] = Idle]
    /\ UNCHANGED <<slot, work, count, leaked>>
-----------------------------------------------------------------------------
(* The engine.  A worker that fails answers as well: nothing to a read,     *)
(* attributes of no file, /dev/null, or no names.                           *)
Answers(w) ==
    CASE w.kind = "read" -> 0..w.want
      [] w.kind = "attr" -> {w.want}
      [] w.kind = "link" -> 1..w.want
      [] OTHER           -> {n * (Name + 1) + 1 : n \in Names}

(* doMonitor hands the request to a worker, which finds its answer ...      *)
dispatch(r) ==
    /\ work[r].st = "asked"
    /\ \E len \in Answers(work[r]) :
          work' = [work EXCEPT ![r].st = "sending", ![r].len = len]
    /\ UNCHANGED <<free, slot, client, count, leaked>>

(* ... and writes it, a buffer at a time, whenever the slot is waiting.     *)
memslot_send_impl(r) ==
    LET w == work[r]
        amt == Lesser(w.len - w.sent, Buf)
    IN  /\ w.st = "sending"
        /\ slot[w.slot].flag = "waiting"
        /\ slot' = [slot EXCEPT ![w.slot] =
                      [flag |-> "sending", req |-> r, from |-> w.sent, len |-> amt]]
        /\ work' = [work EXCEPT ![r].sent = @ + amt,
                                ![r].st = IF w.sent + amt = w.len THEN "sent" ELSE @]
        /\ UNCHANGED <<free, client, count, leaked>>

(* After 300 s the worker drops the rest; if nothing is slow, since the     *)
(* slot is nobody's.                                                        *)
SendTimeout(r) ==
    LET w == work[r]
    IN  /\ w.st = "sending"
        /\ slot[w.slot].flag # "waiting"
        /\ \/ "slow" \in Faults
           \/ \A c \in Client : client[c].pc \in {"reset", "write", "recv"}
                                => client[c].slot # w.slot
        /\ work' = [work EXCEPT ![r].st = "gaveUp"]
        /\ UNCHANGED <<free, slot, client, count, leaked>>

(* The file is created with zeroes, and MEMSLOT_FLAG_SENDING is 0.         *)
Init ==
    /\ free = Slot
    /\ slot = [s \in Slot |-> [Reset EXCEPT !.flag = "sending"]]
    /\ client = [c \in Client |-> Idle]
    /\ work = [r \in Requests |-> NoWork]
    /\ count = 0
    /\ leaked = {}

ClientStep(c) ==
    \/ blkfs_get_next_datafile(c)
    \/ memslot_pre_receive(c)
    \/ blkfs_write_control_message(c) \/ WriteFails(c)
    \/ memslot_receive_impl(c) \/ ReceiveTimeout(c)
    \/ blkfs_unlink_datafile(c)

Worker(r) == dispatch(r) \/ memslot_send_impl(r) \/ SendTimeout(r)

Next ==
    \/ \E c \in Client : ClientStep(c)
    \/ \E r \in Requests : Worker(r)

Spec == Init /\ [][Next]_vars

(* Threads of both sides that can step do so.                               *)
Fairness ==
    /\ \A c \in Client : WF_vars(client[c].pc # "idle" /\ ClientStep(c))
    /\ \A r \in Requests : WF_vars(Worker(r))

FairSpec == Spec /\ Fairness
-----------------------------------------------------------------------------
(* A slot is in the pool, in one call, or lost for good.                    *)
Held(s) == {c \in Client : client[c].slot = s}

SlotsAccounted ==
    \A s \in Slot :
        /\ \A c, d \in Held(s) : c = d
        /\ s \in free => Held(s) = {} /\ s \notin leaked
        /\ s \in leaked => Held(s) = {}
        /\ s \in free \cup leaked \/ Held(s) # {}

(* What a call finds in its slot is its own answer, from where it has read  *)
(* to, whatever earlier calls left there; unless a worker of a call that    *)
(* gave up was still about when the slot was reset.                         *)
OwnAnswer ==
    \A c \in Client :
        LET k == client[c]
        IN  k.pc = "recv" /\ k.alone /\ slot[k.slot].flag # "waiting" =>
                slot[k.slot].req = k.req /\ slot[k.slot].from = k.taken

(* A call that does not fail has received its whole answer; a directory,    *)
(* if its names fit into one buffer.                                        *)
WholeAnswer ==
    \A c \in Client :
        LET k == client[c]
        IN  /\ k.pc = "unlink" /\ k.alone /\ ~k.failed
            /\ k.kind = "list" => work[k.req].len <= Buf
            => k.taken = work[k.req].len

(* A call waits for an answer that has been sent in full only if it ended   *)
(* with a full buffer: then nothing says that it ended.                     *)
NoStall ==
    \A c \in Client :
        LET k == client[c]
            w == work[k.req]
        IN  /\ k.pc = "recv" /\ k.alone
            /\ w.st = "sent" /\ slot[k.slot].flag = "waiting"
            /\ k.kind = "list" => w.len <= Buf
            => k.kind \in {"read", "link"} /\ w.len < k.want /\ w.len % Buf = 0

(* Every call ends.                                                         *)
CallsEnd == \A c \in Client : client[c].pc # "idle" ~> client[c].pc = "idle"
=============================================================================
