------------------------------- MODULE Virtio -------------------------------
(***************************************************************************)
(* One virtqueue of one virtio-mmio device (internal/hypervisor/virtio):   *)
(* the registers (transport.go), the rings in guest memory (queue.go) and  *)
(* the device working on them: the block device, the transmit queue or the *)
(* receive queue of the network device (blk.go, net.go).  A vCPU of the    *)
(* guest runs a device's HandleNotify; ReadLoop runs deliver.              *)
(*                                                                         *)
(* The driver is Linux's, as the registers and the rings expect it.        *)
(* Ring indices are taken modulo Wrap, which stands for 2^16.              *)
(***************************************************************************)
EXTENDS Naturals, Sequences, FiniteSets, Listing

CONSTANTS Devices,     \* subset of {"blk", "tx", "rx"}: the device is one of them
          Vcpus,       \* "blk", "tx" -> how many vCPUs notify it
          Size, Wrap,
          Addrs,       \* where rings may be
          Outcomes,    \* device -> what may become of a request, of {"ok", "fail", "bad"}
          MaxResets,   \* bound on resets by the driver
          Resettable,  \* the devices the driver resets
          SameAddr,    \* whether a ring may be where it was before a reset
          SkipNum      \* whether the driver may leave the queue size out

VARIABLES kind,    \* the device
          reg,     \* Transport: [size, ready, avail, ok, isr]
          mem,     \* address -> the rings there
          drv,     \* the driver: [stage, last, free, seen, irq, col]
          dev,     \* the device: [queue, addr]
          objs,    \* its VirtQueues, in order of making
          th,      \* thread -> [pc, o, snap, head, any, u]
          req,     \* descriptor -> what became of the request in it
          resets

viVars == <<kind, reg, mem, drv, dev, objs, th, req, resets>>
queueVars == <<mem, objs>>

Slots == 0..(Size - 1)
Threads == IF kind = "rx" THEN {0} ELSE 1..Vcpus[kind]

\* resetLocked
Reset0 == [size |-> 0, ready |-> FALSE, avail |-> 0, ok |-> FALSE, isr |-> FALSE]
NoRings == [avail |-> 0, ring |-> [s \in Slots |-> 0], used |-> 0, uring |-> [s \in Slots |-> 0],
            out |-> [s \in Slots |-> "ok"]]
NewDriver(last) == [stage |-> "num", last |-> last, free |-> Slots, seen |-> 0, irq |-> FALSE, col |-> FALSE]
Idle == [pc |-> "idle", o |-> 0, snap |-> Reset0, head |-> 0, any |-> FALSE, u |-> 0]
NewVirtQueue(q) == [addr |-> q.avail, size |-> q.size, last |-> 0, lock |-> FALSE]

ViInit ==
  /\ kind \in Devices
  /\ reg = Reset0 /\ mem = [a \in Addrs |-> NoRings] /\ drv = NewDriver(0)
  /\ dev = [queue |-> 0, addr |-> 0] /\ objs = <<>>
  /\ th = [t \in 0..2 |-> Idle]
  /\ req = [s \in Slots |-> "free"] /\ resets = 0
-----------------------------------------------------------------------------
(* The registers, as the driver writes them *)

Writes(stage, next) ==
  /\ drv.stage = stage /\ drv' = [drv EXCEPT !.stage = next]
  /\ UNCHANGED <<kind, dev, objs, th, req, resets>>

\* A size of 0 is not stored.
WriteQueueNum(n) ==
  /\ Writes("num", "addr")
  /\ n = 0 => SkipNum
  /\ reg' = IF n > 0 THEN [reg EXCEPT !.size = n] ELSE reg
  /\ UNCHANGED mem

WriteQueueDriver ==
  LET a == IF SameAddr /\ drv.last # 0 THEN drv.last ELSE First(Addrs \ {drv.last}) IN
  /\ Writes("addr", "ready")
  /\ reg' = [reg EXCEPT !.avail = a] /\ mem' = [b \in Addrs |-> NoRings]

WriteQueueReady ==
  Writes("ready", "status") /\ reg' = [reg EXCEPT !.ready = TRUE] /\ UNCHANGED mem

WriteStatus ==
  Writes("status", "ok") /\ reg' = [reg EXCEPT !.ok = TRUE] /\ UNCHANGED mem

\* Writing 0: the driver forgets its requests; the device is not told.
Reset ==
  /\ kind \in Resettable /\ resets < MaxResets /\ resets' = resets + 1
  /\ drv.stage = "ok" /\ \A t \in Threads : th[t].pc = "idle"
  /\ reg' = Reset0 /\ drv' = NewDriver(reg.avail)
  /\ req' = [s \in Slots |-> "free"]
  /\ UNCHANGED <<kind, dev, queueVars, th>>
-----------------------------------------------------------------------------
(* The driver's side of the rings *)

\* A vCPU makes a request and exits with a write to QueueNotify; a receive buffer
\* needs no notification.
Post(t, out) ==
  LET head == First(drv.free)
      m == mem[reg.avail]
  IN /\ drv.stage = "ok" /\ drv.free # {}
     /\ IF kind = "rx" THEN UNCHANGED th ELSE th[t].pc = "idle" /\ th' = [th EXCEPT ![t].pc = "ensure"]
     /\ drv' = [drv EXCEPT !.free = @ \ {head}] /\ req' = [req EXCEPT ![head] = "posted"]
     /\ mem' = [mem EXCEPT ![reg.avail] = [m EXCEPT !.out[head] = out, !.ring[m.avail % Size] = head,
                                                    !.avail = (@ + 1) % Wrap]]
     /\ UNCHANGED <<kind, reg, dev, objs, resets>>

\* The interrupt handler reads and acknowledges InterruptStatus.
Interrupt ==
  /\ drv.irq
  /\ drv' = [drv EXCEPT !.irq = FALSE, !.col = @ \/ reg.isr]
  /\ reg' = [reg EXCEPT !.isr = FALSE]
  /\ UNCHANGED <<kind, queueVars, dev, th, req, resets>>

Collect ==
  LET m == mem[reg.avail]
      head == m.uring[drv.seen % Size]
  IN /\ drv.col /\ drv.stage = "ok"
     /\ IF drv.seen = m.used
        THEN drv' = [drv EXCEPT !.col = FALSE] /\ UNCHANGED req
        ELSE /\ drv' = [drv EXCEPT !.seen = (@ + 1) % Wrap, !.free = @ \union {head}]
             /\ req' = [req EXCEPT ![head] = IF @ = "served" THEN "free" ELSE "unserved"]
     /\ UNCHANGED <<kind, reg, queueVars, dev, th, resets>>
-----------------------------------------------------------------------------
(* The device *)

Goes(t, pc) == th' = [th EXCEPT ![t].pc = pc]

\* ReadLoop: a frame comes from the tap.
Frame(t) ==
  /\ kind = "rx" /\ th[t].pc = "idle" /\ Goes(t, "ensure")
  /\ UNCHANGED <<kind, reg, queueVars, drv, dev, req, resets>>

\* Whether the cached VirtQueue is not that of the registers
Renegotiated == reg.ready /\ reg.avail # dev.addr

\* ensureQueues of the network device, under its mutex
EnsureQueues(t) ==
  /\ kind # "blk" /\ th[t].pc = "ensure"
  /\ objs' = IF Renegotiated THEN Append(objs, NewVirtQueue(reg)) ELSE objs
  /\ dev' = IF Renegotiated THEN [queue |-> Len(objs'), addr |-> reg.avail] ELSE dev
  /\ th' = [th EXCEPT ![t].pc = IF dev'.queue = 0 THEN "idle" ELSE "pop", ![t].o = dev'.queue]
  /\ UNCHANGED <<kind, reg, mem, drv, req, resets>>

\* ensureQueue of the block device, which holds none: the check, the queue, then
\* its address
EnsureQueue(t) ==
  /\ kind = "blk"
  /\ \/ /\ th[t].pc = "ensure" /\ UNCHANGED <<objs, dev>>
        /\ th' = [th EXCEPT ![t].pc = IF Renegotiated THEN "make" ELSE IF dev.queue = 0 THEN "idle" ELSE "pop",
                            ![t].snap = IF Renegotiated THEN reg ELSE @]
     \/ /\ th[t].pc = "make" /\ Goes(t, "made")
        /\ objs' = Append(objs, NewVirtQueue(th[t].snap)) /\ dev' = [dev EXCEPT !.queue = Len(objs')]
     \/ /\ th[t].pc = "made" /\ th' = [th EXCEPT ![t].pc = "pop", ![t].snap = Reset0]
        /\ dev' = [dev EXCEPT !.addr = th[t].snap.avail] /\ UNCHANGED objs
  /\ UNCHANGED <<kind, reg, mem, drv, req, resets>>

\* The block device uses its queue as it is now, the other the one it read.
QueueOf(t) == IF kind = "blk" THEN dev.queue ELSE th[t].o

Popped(q) == [q EXCEPT !.last = (@ + 1) % Wrap]

\* An unreadable chain stays where it is; a size of 0 would divide by it.
Pop(t) ==
  LET o == QueueOf(t)
      q == objs[o]
      m == mem[q.addr]
      head == m.ring[q.last % q.size]
      none == m.avail = q.last
  IN /\ th[t].pc = "pop" /\ ~q.lock /\ q.size # 0
     /\ IF none \/ m.out[head] = "bad"
        THEN Goes(t, "end") /\ UNCHANGED objs
        ELSE /\ th' = [th EXCEPT ![t].pc = "handle", ![t].head = head]
             /\ objs' = [objs EXCEPT ![o] = Popped(q)]
     /\ UNCHANGED <<kind, reg, mem, drv, dev, req, resets>>

Fails(t) == mem[objs[QueueOf(t)].addr].out[th[t].head] = "fail"

Served(t) == req' = [req EXCEPT ![th[t].head] = IF @ = "posted" THEN "served" ELSE "twice"]

\* handleRequest answers in the status byte; it counts whatever came of it.
HandleBlk(t) ==
  /\ kind = "blk" /\ th[t].pc = "handle" /\ Served(t)
  /\ th' = [th EXCEPT ![t].pc = "push", ![t].any = TRUE]
  /\ UNCHANGED <<kind, reg, queueVars, drv, dev, resets>>

\* transmit: a frame that could not be written does not count as sent.
HandleTx(t) ==
  /\ kind = "tx" /\ th[t].pc = "handle" /\ Served(t)
  /\ th' = [th EXCEPT ![t].pc = "push", ![t].any = @ \/ ~Fails(t)]
  /\ UNCHANGED <<kind, reg, queueVars, drv, dev, resets>>

\* writeAcross: a frame with no room in the buffer is dropped, the buffer with it.
HandleRx(t) ==
  /\ kind = "rx" /\ th[t].pc = "handle" /\ Served(t)
  /\ th' = [th EXCEPT ![t] = IF Fails(t) THEN Idle ELSE [@ EXCEPT !.pc = "push", !.any = TRUE]]
  /\ UNCHANGED <<kind, reg, queueVars, drv, dev, resets>>

\* Mutant: used.idx goes before the entry it is to cover.
PushOrder_Swapped == <<"idx", "entry">>

PushOrder == <<"entry", "idx">>

\* Push, under the queue's mutex, in two stores the driver may see apart
Push(t) ==
  LET o == QueueOf(t)
      a == objs[o].addr
      u == IF th[t].pc = "push" THEN mem[a].used ELSE th[t].u
      store(m, what) == IF what = "entry" THEN [m EXCEPT !.uring[u % Size] = th[t].head]
                        ELSE [m EXCEPT !.used = (u + 1) % Wrap]
  IN /\ UNCHANGED <<kind, reg, drv, dev, req, resets>>
     /\ \/ /\ th[t].pc = "push" /\ ~objs[o].lock
           /\ mem' = [mem EXCEPT ![a] = store(@, PushOrder[1])]
           /\ objs' = [objs EXCEPT ![o].lock = TRUE]
           /\ th' = [th EXCEPT ![t].pc = "publish", ![t].u = u]
        \/ /\ th[t].pc = "publish"
           /\ mem' = [mem EXCEPT ![a] = store(@, PushOrder[2])]
           /\ objs' = [objs EXCEPT ![o].lock = FALSE]
           /\ th' = [th EXCEPT ![t].pc = IF kind = "rx" THEN "end" ELSE "pop", ![t].head = 0, ![t].u = 0]

RaiseUsedBufferInterrupt == [reg EXCEPT !.isr = TRUE]

End(t) ==
  /\ th[t].pc = "end"
  /\ reg' = IF th[t].any THEN RaiseUsedBufferInterrupt ELSE reg
  /\ th' = [th EXCEPT ![t] = IF @.any THEN [@ EXCEPT !.pc = "pulse"] ELSE Idle]
  /\ UNCHANGED <<kind, queueVars, drv, dev, req, resets>>

pulseIRQ(t) ==
  /\ th[t].pc = "pulse"
  /\ drv' = [drv EXCEPT !.irq = TRUE] /\ th' = [th EXCEPT ![t] = Idle]
  /\ UNCHANGED <<kind, reg, queueVars, dev, req, resets>>

Works(t) ==
  \/ EnsureQueues(t) \/ EnsureQueue(t) \/ Pop(t) \/ HandleBlk(t) \/ HandleTx(t) \/ HandleRx(t)
  \/ Push(t) \/ End(t) \/ pulseIRQ(t)

\* All descriptors are at the device, which waits for something readable.
Stalled ==
  /\ drv.stage = "ok" /\ drv.free = {} /\ ~drv.irq /\ ~drv.col
  /\ \A t \in Threads : th[t].pc = "idle"
  /\ UNCHANGED viVars

ViNext ==
  \/ \E n \in {0, Size} : WriteQueueNum(n)
  \/ WriteQueueDriver \/ WriteQueueReady \/ WriteStatus \/ Reset
  \/ Interrupt \/ Collect \/ Stalled
  \/ \E t \in Threads : Frame(t) \/ Works(t) \/ \E out \in Outcomes[kind] : Post(t, out)

\* A vCPU that exits is served, and the guest's interrupt handler runs.
ViFairness ==
  /\ WF_viVars(Interrupt) /\ WF_viVars(Collect)
  /\ \A t \in 0..2 : WF_viVars(t \in Threads /\ Works(t))

ViSpec == ViInit /\ [][ViNext]_viVars /\ ViFairness
-----------------------------------------------------------------------------
(* Properties *)

\* The device does a request once, and only one the driver has made since it last
\* set the device up: neither vCPUs at the same queue, nor the indices wrapping,
\* nor a re-negotiation makes it do one again (queue.go: Pop; net.go: ensureQueues;
\* runloop.go: `both are safe for concurrent use from multiple vCPUs').
ServedOnce == \A s \in Slots : req[s] # "twice"

\* What the driver takes from the used ring is a request the device did, once
\* (queue.go: Push writes the entry before idx, `to never observe the new idx
\* before the entry data it points to').
ReturnedServed == \A s \in Slots : req[s] # "unserved"

Unreadable == \E s \in Slots : req[s] = "posted" /\ mem[reg.avail].out[s] = "bad"

\* Every request has come back to the driver whenever the device and the interrupt
\* handler rest: no notification is lost between two vCPUs at the queue, and no
\* interrupt between the device and the acknowledgement (blk.go, net.go:
\* HandleNotify).  A frame the tap did not take is left out, and so is a queue with
\* an unreadable chain.
Answered ==
  (\A t \in Threads : th[t].pc = "idle") /\ ~drv.irq /\ ~drv.col =>
    \A s \in Slots :
      kind # "rx" /\ req[s] \in {"posted", "served"} =>
        Unreadable \/ (kind = "tx" /\ mem[reg.avail].out[s] = "fail")

\* A request is done once, comes back once, and none is left.
ServedAndReturned == ServedOnce /\ ReturnedServed /\ Answered

\* The guest is told of whatever was pushed (net.go: onInterrupt is called `whenever
\* this device has pushed to a used ring and the guest should be told').
\* It does not hold (README, Properties that do not hold).
Told ==
  kind # "rx" => \A s \in Slots : req[s] = "posted" ~> req[s] = "free" \/ Unreadable

\* A buffer the device took comes back (queue.go: `HeadIndex is what Push must be
\* called with once the device has handled it').
\* It does not hold (README, Properties that do not hold).
BufferReturned == \A s \in Slots : req[s] = "served" ~> req[s] = "free"

\* No queue is worked on before the driver is done (transport.go: IsDriverOK: `a
\* device should not process virtqueues before this').
\* It does not hold (README, Properties that do not hold).
OnlyWhileDriverOK == [][(\E t \in Threads : th[t].pc = "pop" /\ th'[t].pc = "handle") => reg.ok]_viVars

\* No VirtQueue has size 0 (transport.go: `so a later NewVirtQueue never sees a size
\* that over/underflows uint16 or divides-by-zero on vq.size').
\* It does not hold (README, Properties that do not hold).
SizeSet == \A i \in DOMAIN objs : objs[i].size # 0
=============================================================================
