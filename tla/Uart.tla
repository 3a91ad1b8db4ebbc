-------------------------------- MODULE Uart --------------------------------
(***************************************************************************)
(* One virtual UART of kernel/virtrtlab_uart.c, with every thread that     *)
(* enters the driver:                                                      *)
(*                                                                         *)
(*   writer   the AUT inside write(/dev/ttyVIRTLABx)                       *)
(*   timer    tx_timer (hrtimer) and its callback                          *)
(*   work     tx_work, the fault-injection engine, on the system workqueue *)
(*   ctl      the holder of virtrtlab_bus_state_mutex (virtrtlab_core.c):  *)
(*            state=down and state=reset run this driver's bus notifier    *)
(*   port     tty_port activate() / shutdown(), serialised by port->mutex  *)
(*   wire     open() and release() of /dev/virtrtlab-wireN                 *)
(*   reader   the simulator side inside read(wire_fd)                      *)
(*   resize   a sysfs write to tx_buf_sz or rx_buf_sz                      *)
(*   exit     rmmod inside virtrtlab_uart_exit(), which takes the device   *)
(*            apart while the others may still be on their way             *)
(*                                                                         *)
(* A thread's program counter names its NEXT step.  One step is one        *)
(* critical section, atomic operation or call into a kernel library; the   *)
(* statements between two steps touch only the thread's own locals.  The   *)
(* counter that records a loss is updated in the step that loses the       *)
(* bytes: these atomic additions commute with every step but a reset of    *)
(* the counters.                                                           *)
(*                                                                         *)
(* Data.  A byte is its serial number: byte n is the n-th one accepted by  *)
(* write().  tx_fifo therefore holds an interval of numbers, which is what *)
(* a kfifo stores of its content too (its in and out counters); rx_fifo is *)
(* a sequence, because drops and overruns leave gaps in it.  There is no   *)
(* clock: an armed timer may expire at any moment, which covers every      *)
(* baud rate, latency_ns and jitter_ns; the value of a byte is not kept,   *)
(* so a bit flip (B4) does not show.                                       *)
(***************************************************************************)
EXTENDS Integers, Sequences

CONSTANTS
    BufSizes,      \* the sizes tx_buf_sz / rx_buf_sz may be set to
    DefaultBufSz,  \* the size both have after insmod
    BurstSz,       \* VIRTRTLAB_UART_BURST_SZ: bytes one run of tx_work moves
    Env,           \* which of EnvOps the environment of this instance does
    MaxBytes,      \* bound: bytes the AUT gets accepted
    MaxWireBytes   \* bound: bytes the simulator writes to the wire

\* Operations the environment may or may not use in an instance.
EnvOps == {"down", "reset", "close", "attrs", "stats", "resize", "rmmod"}

ASSUME BufAssumption ==
    /\ BufSizes \subseteq Nat \ {0}
    /\ DefaultBufSz \in BufSizes
ASSUME BurstAssumption == BurstSz \in Nat \ {0}
ASSUME EnvAssumption   == Env \subseteq EnvOps
ASSUME BoundAssumption == MaxBytes \in Nat /\ MaxWireBytes \in Nat

VARIABLES
    bus_state,   \* virtrtlab_bus_state
    ctl,         \* pc of the holder of virtrtlab_bus_state_mutex
    ctl_op,      \* the event it is broadcasting: "none", "down" or "reset"
    exit,        \* pc of virtrtlab_uart_exit(): "live" before it, "freed" after
    port,        \* pc of the tty_port life cycle
    alloc,       \* port_activate's locals tx_sz and rx_sz
    port_active, \* udev->port_active
    hangup,      \* an asynchronous hangup of the tty is queued
    writer,      \* pc of the AUT's write()
    blocked,     \* the AUT sleeps in n_tty until tty_wakeup or a hangup
    enabled, drop_rate, tx_buf_sz, rx_buf_sz,  \* sysfs attributes
    resize,      \* a buffer-size store between its check and its commit
    sent,        \* tx_fifo's in: number of the last byte accepted
    taken,       \* tx_fifo's out: number of the last byte that left tx_fifo
    tx_cap,      \* size of tx_fifo; 0 while it is freed
    timer,       \* tx_timer is armed
    pending,     \* tx_work is queued
    work,        \* pc of tx_work_fn
    burst,       \* its local burst[]: the bytes lo + 1 .. hi
    rx_fifo,     \* content of rx_fifo
    rx_cap,      \* size of rx_fifo; 0 while it is freed
    wire,        \* pc of the wire fd; wire_open_count = 1 unless "closed"
    wire_reset_pending,
    reader,      \* pc of wire_read
    stat,        \* stats/: tx_bytes, rx_bytes, overruns, drops
    wire_sent,   \* bytes the simulator has tried to write
    recv,        \* history: the bytes read(wire_fd) returned
    written_off  \* history: AUT bytes lost outside the current counters, less
                 \* the overruns counted for the other direction

busVars    == <<bus_state, ctl, ctl_op, exit>>
portVars   == <<port, alloc, port_active, hangup>>
writerVars == <<writer, blocked>>
attrVars   == <<enabled, drop_rate, tx_buf_sz, rx_buf_sz, resize>>
txVars     == <<sent, taken, tx_cap>>
engineVars == <<timer, pending, work, burst>>
rxVars     == <<rx_fifo, rx_cap>>
wireVars   == <<wire, wire_reset_pending, reader, recv, wire_sent>>
statVars   == <<stat, written_off>>

vars == <<busVars, portVars, writerVars, attrVars, txVars, engineVars,
          rxVars, wireVars, statVars>>

-----------------------------------------------------------------------------
(* The kernel libraries, as far as the driver uses them. *)

\* The bytes in tx_fifo, and their number (kfifo_len).
TxFifo == (taken + 1)..sent
TxLen  == sent - taken

\* Mutant: the room is computed from the attribute, not from the live kfifo.
TxRoomOfAttr == tx_buf_sz - TxLen

\* kfifo_avail(&tx_fifo).
TxRoom == tx_cap - TxLen

\* Free slots of rx_fifo.  kfifo_free() leaves mask = 0 and esize = 0, so a
\* freed kfifo still reports one free slot, which stores nothing.
RxSlots == IF rx_cap = 0 THEN 1 ELSE rx_cap
RxRoom  == RxSlots - Len(rx_fifo)

MinOf(a, b) == IF a <= b THEN a ELSE b

\* The bytes lo + 1 .. lo + n, in order.
Run(lo, n) == [i \in 1..n |-> lo + i]

BurstLen == burst.hi - burst.lo

\* A cancel_work_sync() is in progress: queueing tx_work has no effect.
Cancelling == ctl = "wait" \/ port = "wait" \/ exit = "wait"

\* The device is in the bus's notifier chain.
Notified == exit \in {"live", "wire", "notifier"}

Stats == [tx_bytes : Nat, rx_bytes : Nat, overruns : Nat, drops : Nat]

NoBytes == [tx_bytes |-> 0, rx_bytes |-> 0, overruns |-> 0, drops |-> 0]

Count(field, n) == [stat EXCEPT ![field] = @ + n]

-----------------------------------------------------------------------------
(* Initial state: after insmod, nothing open. *)

Init ==
    /\ bus_state = "up" /\ ctl = "idle" /\ ctl_op = "none" /\ exit = "live"
    /\ port = "closed" /\ alloc = [tx |-> DefaultBufSz, rx |-> DefaultBufSz]
    /\ port_active = FALSE /\ hangup = FALSE
    /\ writer = "idle" /\ blocked = FALSE
    /\ enabled = TRUE /\ drop_rate = "zero"
    /\ tx_buf_sz = DefaultBufSz /\ rx_buf_sz = DefaultBufSz
    /\ resize = [attr |-> "none", size |-> DefaultBufSz]
    /\ sent = 0 /\ taken = 0 /\ tx_cap = 0
    /\ timer = FALSE /\ pending = FALSE
    /\ work = "idle" /\ burst = [lo |-> 0, hi |-> 0]
    /\ rx_fifo = <<>> /\ rx_cap = 0
    /\ wire = "closed" /\ wire_reset_pending = FALSE
    /\ reader = "idle" /\ recv = <<>> /\ wire_sent = 0
    /\ stat = NoBytes /\ written_off = 0

-----------------------------------------------------------------------------
(* writer: virtrtlab_tty_write_common().  The tty layer lets one write in  *)
(* at a time, and none once shutdown() has begun.  A write that finds the  *)
(* bus down or the device disabled returns -EIO and changes nothing.       *)

WriteCheckBus ==
    /\ writer = "idle" /\ ~blocked /\ port = "open"
    /\ bus_state = "up" /\ sent < MaxBytes
    /\ writer' = "gate"
    /\ UNCHANGED <<busVars, portVars, blocked, attrVars, txVars, engineVars,
                   rxVars, wireVars, statVars>>

WriteGate ==
    /\ writer = "gate"
    /\ writer' = IF enabled THEN "enqueue" ELSE "idle"
    /\ UNCHANGED <<busVars, portVars, blocked, attrVars, txVars, engineVars,
                   rxVars, wireVars, statVars>>

\* kfifo_in_spinlocked() copies what fits.
WriteEnqueue ==
    /\ writer = "enqueue" /\ TxRoom > 0
    /\ \E n \in 1..(MaxBytes - sent) : sent' = sent + MinOf(n, TxRoom)
    /\ writer' = "arm"
    /\ UNCHANGED <<busVars, portVars, blocked, attrVars, taken, tx_cap,
                   engineVars, rxVars, wireVars, statVars>>

\* Nothing fits: write() returns 0.  On an O_NONBLOCK tty n_tty returns
\* -EAGAIN; on a blocking one it sleeps until the driver calls tty_wakeup(),
\* which this driver never does, or the tty is hung up.
WriteFull ==
    /\ writer = "enqueue" /\ TxRoom = 0
    /\ blocked' \in IF port = "open" THEN BOOLEAN ELSE {FALSE}
    /\ writer' = "idle"
    /\ UNCHANGED <<busVars, portVars, attrVars, txVars, engineVars, rxVars,
                   wireVars, statVars>>

\* hrtimer_start(), on an armed timer too.
WriteArm ==
    /\ writer = "arm"
    /\ timer' = TRUE
    /\ writer' = "idle"
    /\ UNCHANGED <<busVars, portVars, blocked, attrVars, txVars, pending, work,
                   burst, rxVars, wireVars, statVars>>

Writer == WriteCheckBus \/ WriteGate \/ WriteEnqueue \/ WriteFull \/ WriteArm

-----------------------------------------------------------------------------
(* timer and work: virtrtlab_uart_tx_timer_cb(), virtrtlab_uart_tx_work_fn *)

TimerExpire ==
    /\ timer
    /\ timer' = FALSE
    /\ pending' = (pending \/ ~Cancelling)
    /\ UNCHANGED <<busVars, portVars, writerVars, attrVars, txVars, work,
                   burst, rxVars, wireVars, statVars>>

\* Mutant: a run of tx_work takes a whole burst, however little there is.
WorkDequeueWhole ==
    /\ pending /\ work = "idle"
    /\ pending' = FALSE
    /\ LET n == IF TxLen = 0 THEN 0 ELSE BurstSz IN
          /\ work' = IF n = 0 THEN "idle" ELSE "count"
          /\ burst' = IF n = 0 THEN burst ELSE [lo |-> taken, hi |-> taken + n]
          /\ taken' = taken + n
    /\ UNCHANGED <<busVars, portVars, writerVars, attrVars, sent, tx_cap,
                   timer, rxVars, wireVars, statVars>>

\* B1.  An empty tx_fifo ends the run at once.
WorkDequeue ==
    /\ pending /\ work = "idle"
    /\ pending' = FALSE
    /\ LET n == MinOf(BurstSz, TxLen) IN
          /\ work' = IF n = 0 THEN "idle" ELSE "count"
          /\ burst' = IF n = 0 THEN burst ELSE [lo |-> taken, hi |-> taken + n]
          /\ taken' = taken + n
    /\ UNCHANGED <<busVars, portVars, writerVars, attrVars, sent, tx_cap,
                   timer, rxVars, wireVars, statVars>>

\* B2.
WorkCount ==
    /\ work = "count"
    /\ stat' = Count("tx_bytes", BurstLen)
    /\ work' = "gate"
    /\ UNCHANGED <<busVars, portVars, writerVars, attrVars, txVars, timer,
                   pending, burst, rxVars, wireVars, written_off>>

\* Snapshot of the attributes, enabled gate, and B3's draw.
WorkGate ==
    /\ work = "gate"
    /\ \/ /\ ~enabled \/ drop_rate # "zero"
          /\ work' = "drop"
       \/ /\ enabled /\ drop_rate # "full"
          /\ work' = "deliver"
    /\ UNCHANGED <<busVars, portVars, writerVars, attrVars, txVars, timer,
                   pending, burst, rxVars, wireVars, statVars>>

WorkDrop ==
    /\ work = "drop"
    /\ stat' = Count("drops", BurstLen)
    /\ burst' = [lo |-> 0, hi |-> 0]
    /\ work' = "rearm"
    /\ UNCHANGED <<busVars, portVars, writerVars, attrVars, txVars, timer,
                   pending, rxVars, wireVars, written_off>>

\* Mutant: an overrun counts the whole burst, not the bytes that did not fit.
WorkDeliverOvercount ==
    /\ work = "deliver"
    /\ LET n == MinOf(BurstLen, RxRoom) IN
          /\ rx_fifo' = rx_fifo \o Run(burst.lo, n)
          /\ stat' = Count("overruns", IF n < BurstLen THEN BurstLen ELSE 0)
    /\ burst' = [lo |-> 0, hi |-> 0]
    /\ work' = "rearm"
    /\ UNCHANGED <<busVars, portVars, writerVars, attrVars, txVars, timer,
                   pending, rx_cap, wireVars, written_off>>

\* B5, with the wake-up of wire_read (a waiting reader re-tests its condition).
WorkDeliver ==
    /\ work = "deliver"
    /\ LET n == MinOf(BurstLen, RxRoom) IN
          /\ rx_fifo' = rx_fifo \o Run(burst.lo, n)
          /\ stat' = Count("overruns", BurstLen - n)
    /\ burst' = [lo |-> 0, hi |-> 0]
    /\ work' = "rearm"
    /\ UNCHANGED <<busVars, portVars, writerVars, attrVars, txVars, timer,
                   pending, rx_cap, wireVars, written_off>>

\* Mutant: B6 is missing.
WorkRearmNever ==
    /\ work = "rearm"
    /\ work' = "idle"
    /\ UNCHANGED <<busVars, portVars, writerVars, attrVars, txVars, timer,
                   pending, burst, rxVars, wireVars, statVars>>

\* B6.
WorkRearm ==
    /\ work = "rearm"
    /\ timer' = (timer \/ TxLen > 0)
    /\ work' = "idle"
    /\ UNCHANGED <<busVars, portVars, writerVars, attrVars, txVars, pending,
                   burst, rxVars, wireVars, statVars>>

Work == \/ WorkDequeue \/ WorkCount \/ WorkGate \/ WorkDrop \/ WorkDeliver
        \/ WorkRearm

-----------------------------------------------------------------------------
(* port: tty_port activate() and shutdown().  shutdown() runs on the last  *)
(* close and on a hangup; the tty layer has by then waited for the writer. *)

\* activate() reads the sizes under udev->lock ...
PortActivate ==
    /\ port = "closed" /\ exit = "live"
    /\ alloc' = [tx |-> tx_buf_sz, rx |-> rx_buf_sz]
    /\ port' = "alloc"
    /\ UNCHANGED <<busVars, port_active, hangup, writerVars, attrVars, txVars,
                   engineVars, rxVars, wireVars, statVars>>

\* ... and allocates both kfifos.
PortAlloc ==
    /\ port = "alloc"
    /\ tx_cap' = alloc.tx /\ taken' = sent
    /\ rx_cap' = alloc.rx /\ rx_fifo' = <<>>
    /\ written_off' = written_off + Len(rx_fifo)
    /\ port_active' = TRUE
    /\ port' = "open"
    /\ UNCHANGED <<busVars, alloc, hangup, writerVars, attrVars, sent,
                   engineVars, wireVars, stat>>

\* kfifo_alloc() of one of them fails, and so does the open.  A failed
\* allocation of rx_fifo empties it; one of tx_fifo leaves rx_fifo alone.
PortAllocFail ==
    /\ port = "alloc"
    /\ rx_fifo' \in {rx_fifo, <<>>}
    /\ written_off' = written_off + Len(rx_fifo) - Len(rx_fifo')
    /\ port' = "closed" /\ hangup' = FALSE
    /\ UNCHANGED <<busVars, alloc, port_active, writerVars, attrVars, txVars,
                   engineVars, rx_cap, wireVars, stat>>

\* The last close.  A hangup still queued runs before the tty is released and
\* finds the port shut down.
PortClose ==
    /\ "close" \in Env
    /\ port = "open" /\ writer = "idle" /\ ~blocked
    /\ port' = "timer" /\ hangup' = FALSE
    /\ UNCHANGED <<busVars, alloc, port_active, writerVars, attrVars, txVars,
                   engineVars, rxVars, wireVars, statVars>>

\* Mutant: a hangup that finds a write() in the driver is forgotten.
PortHangupLost ==
    /\ hangup /\ port = "open"
    /\ port' = IF writer = "idle" THEN "hangup" ELSE port
    /\ hangup' = FALSE /\ blocked' = FALSE
    /\ UNCHANGED <<busVars, alloc, port_active, writer, attrVars, txVars,
                   engineVars, rxVars, wireVars, statVars>>

\* The queued hangup runs: it bars new writes, wakes a sleeping one ...
PortHangup ==
    /\ hangup /\ port = "open"
    /\ port' = "hangup" /\ hangup' = FALSE
    /\ blocked' = FALSE
    /\ UNCHANGED <<busVars, alloc, port_active, writer, attrVars, txVars,
                   engineVars, rxVars, wireVars, statVars>>

\* ... and shuts the port down once the writer has left the driver.
PortHungUp ==
    /\ port = "hangup" /\ writer = "idle"
    /\ port' = "timer"
    /\ UNCHANGED <<busVars, alloc, port_active, hangup, writerVars, attrVars,
                   txVars, engineVars, rxVars, wireVars, statVars>>

ShutdownTimer ==
    /\ port = "timer"
    /\ timer' = FALSE
    /\ port' = "work"
    /\ UNCHANGED <<busVars, alloc, port_active, hangup, writerVars, attrVars,
                   txVars, pending, work, burst, rxVars, wireVars, statVars>>

\* cancel_work_sync(): unqueue tx_work, ...
ShutdownWork ==
    /\ port = "work"
    /\ pending' = FALSE
    /\ port' = "wait"
    /\ UNCHANGED <<busVars, alloc, port_active, hangup, writerVars, attrVars,
                   txVars, timer, work, burst, rxVars, wireVars, statVars>>

\* ... and wait for a run in progress.
ShutdownWait ==
    /\ port = "wait" /\ work = "idle"
    /\ port' = "account"
    /\ UNCHANGED <<busVars, alloc, port_active, hangup, writerVars, attrVars,
                   txVars, engineVars, rxVars, wireVars, statVars>>

\* Mutant: shutdown() does not count the bytes it is about to free.
ShutdownAccountNothing ==
    /\ port = "account"
    /\ port' = "freetx"
    /\ UNCHANGED <<busVars, alloc, port_active, hangup, writerVars, attrVars,
                   txVars, engineVars, rxVars, wireVars, statVars>>

\* kfifo_len(&tx_fifo), read without tx_lock.
ShutdownAccount ==
    /\ port = "account"
    /\ stat' = Count("drops", TxLen)
    /\ port' = "freetx"
    /\ UNCHANGED <<busVars, alloc, port_active, hangup, writerVars, attrVars,
                   txVars, engineVars, rxVars, wireVars, written_off>>

ShutdownFreeTx ==
    /\ port = "freetx"
    /\ tx_cap' = 0 /\ taken' = sent
    /\ port' = "freerx"
    /\ UNCHANGED <<busVars, alloc, port_active, hangup, writerVars, attrVars,
                   sent, engineVars, rxVars, wireVars, statVars>>

\* Mutant: rx_fifo is freed and port_active stays set.
ShutdownFreeRxActive ==
    /\ port = "freerx"
    /\ rx_cap' = 0 /\ rx_fifo' = <<>>
    /\ written_off' = written_off + Len(rx_fifo)
    /\ port' = "closed"
    /\ UNCHANGED <<busVars, alloc, port_active, hangup, writerVars, attrVars,
                   txVars, engineVars, wireVars, stat>>

\* Under rx_lock.
ShutdownFreeRx ==
    /\ port = "freerx"
    /\ port_active' = FALSE
    /\ rx_cap' = 0 /\ rx_fifo' = <<>>
    /\ written_off' = written_off + Len(rx_fifo)
    /\ port' = "closed"
    /\ UNCHANGED <<busVars, alloc, hangup, writerVars, attrVars, txVars,
                   engineVars, wireVars, stat>>

Shutdown == \/ ShutdownTimer \/ ShutdownWork \/ ShutdownWait
            \/ ShutdownAccount \/ ShutdownFreeTx \/ ShutdownFreeRx

Port == \/ PortActivate \/ PortAlloc \/ PortAllocFail
        \/ PortClose \/ PortHangup \/ PortHungUp \/ Shutdown

-----------------------------------------------------------------------------
(* ctl: virtrtlab_bus_set_state() and virtrtlab_bus_reset(), each holding  *)
(* virtrtlab_bus_state_mutex throughout, and this driver's notifier.       *)

\* state=down: publish the state, then notify the devices in the chain.
BusSetDown ==
    /\ "down" \in Env
    /\ ctl = "idle" /\ bus_state = "up"
    /\ bus_state' = "down"
    /\ ctl_op' = IF Notified THEN "down" ELSE "none"
    /\ ctl' = IF Notified THEN "timer" ELSE "idle"
    /\ UNCHANGED <<exit, portVars, writerVars, attrVars, txVars, engineVars,
                   rxVars, wireVars, statVars>>

\* state=up: the UP event changes nothing in this driver.
BusSetUp ==
    /\ ctl = "idle" /\ bus_state = "down"
    /\ bus_state' = "up"
    /\ UNCHANGED <<ctl, ctl_op, exit, portVars, writerVars, attrVars, txVars,
                   engineVars, rxVars, wireVars, statVars>>

\* state=reset: notify first.  Out of the chain, this is BusSetUp at most.
BusReset ==
    /\ "reset" \in Env
    /\ ctl = "idle" /\ Notified
    /\ ctl_op' = "reset" /\ ctl' = "timer"
    /\ UNCHANGED <<bus_state, exit, portVars, writerVars, attrVars, txVars,
                   engineVars, rxVars, wireVars, statVars>>

NotifyTimer ==
    /\ ctl = "timer"
    /\ timer' = FALSE
    /\ ctl' = "work"
    /\ UNCHANGED <<bus_state, ctl_op, exit, portVars, writerVars, attrVars,
                   txVars, pending, work, burst, rxVars, wireVars, statVars>>

NotifyWork ==
    /\ ctl = "work"
    /\ pending' = FALSE
    /\ ctl' = "wait"
    /\ UNCHANGED <<bus_state, ctl_op, exit, portVars, writerVars, attrVars,
                   txVars, timer, work, burst, rxVars, wireVars, statVars>>

NotifyWait ==
    /\ ctl = "wait" /\ work = "idle"
    /\ ctl' = "flush"
    /\ UNCHANGED <<bus_state, ctl_op, exit, portVars, writerVars, attrVars,
                   txVars, engineVars, rxVars, wireVars, statVars>>

\* Mutant: DOWN cancels the timer and the work, and forgets the flush.
NotifyFlushDownKeeps ==
    /\ ctl = "flush" /\ ctl_op = "down"
    /\ ctl' = "idle" /\ ctl_op' = "none"
    /\ UNCHANGED <<bus_state, exit, portVars, writerVars, attrVars, txVars,
                   engineVars, rxVars, wireVars, statVars>>

\* DOWN: kfifo_len and kfifo_reset under tx_lock, then stat_drops.
NotifyFlushDown ==
    /\ ctl = "flush" /\ ctl_op = "down"
    /\ taken' = sent
    /\ stat' = Count("drops", TxLen)
    /\ ctl' = "idle" /\ ctl_op' = "none"
    /\ UNCHANGED <<bus_state, exit, portVars, writerVars, attrVars, sent,
                   tx_cap, engineVars, rxVars, wireVars, written_off>>

\* RESET: kfifo_reset under tx_lock, not counted.
NotifyFlushReset ==
    /\ ctl = "flush" /\ ctl_op = "reset"
    /\ taken' = sent
    /\ written_off' = written_off + TxLen
    /\ ctl' = "attrs"
    /\ UNCHANGED <<bus_state, ctl_op, exit, portVars, writerVars, attrVars,
                   sent, tx_cap, engineVars, rxVars, wireVars, stat>>

NotifyAttrs ==
    /\ ctl = "attrs"
    /\ enabled' = TRUE /\ drop_rate' = "zero"
    /\ ctl' = "stats"
    /\ UNCHANGED <<bus_state, ctl_op, exit, portVars, writerVars, tx_buf_sz,
                   rx_buf_sz, resize, txVars, engineVars, rxVars, wireVars,
                   statVars>>

\* All four counters := 0.
ClearStats ==
    /\ stat' = NoBytes
    /\ written_off' = written_off + stat.drops + stat.overruns

NotifyStats ==
    /\ ctl = "stats"
    /\ ClearStats
    /\ ctl' = "signal"
    /\ UNCHANGED <<bus_state, ctl_op, exit, portVars, writerVars, attrVars,
                   txVars, engineVars, rxVars, wireVars>>

\* wire_reset_pending := 1 and wake wire_read.
NotifySignal ==
    /\ ctl = "signal"
    /\ wire_reset_pending' = TRUE
    /\ ctl' = "hangup"
    /\ UNCHANGED <<bus_state, ctl_op, exit, portVars, writerVars, attrVars,
                   txVars, engineVars, rxVars, wire, reader, recv, wire_sent,
                   statVars>>

\* tty_port_tty_hangup() queues a hangup of the tty, if there is one.
NotifyHangup ==
    /\ ctl = "hangup"
    /\ hangup' = (port \in {"alloc", "open"})
    /\ ctl' = "up"
    /\ UNCHANGED <<bus_state, ctl_op, exit, port, alloc, port_active,
                   writerVars, attrVars, txVars, engineVars, rxVars, wireVars,
                   statVars>>

\* Back in virtrtlab_bus_reset(): state := UP and the UP event.
BusResetUp ==
    /\ ctl = "up"
    /\ bus_state' = "up" /\ ctl_op' = "none" /\ ctl' = "idle"
    /\ UNCHANGED <<exit, portVars, writerVars, attrVars, txVars, engineVars,
                   rxVars, wireVars, statVars>>

Notifier == \/ NotifyTimer \/ NotifyWork \/ NotifyWait
            \/ NotifyFlushDown \/ NotifyFlushReset \/ NotifyAttrs
            \/ NotifyStats \/ NotifySignal \/ NotifyHangup \/ BusResetUp

Ctl == BusSetDown \/ BusSetUp \/ BusReset \/ Notifier

-----------------------------------------------------------------------------
(* sysfs stores *)

EnabledStore ==
    /\ "attrs" \in Env /\ exit # "freed"
    /\ enabled' = ~enabled
    /\ UNCHANGED <<busVars, portVars, writerVars, drop_rate, tx_buf_sz,
                   rx_buf_sz, resize, txVars, engineVars, rxVars, wireVars,
                   statVars>>

\* 0, something in between, or 1000000 ppm.  The stores of latency_ns, jitter_ns
\* and bitflip_rate_ppm around it change nothing that the model keeps.
DropRateStore ==
    /\ "attrs" \in Env /\ exit # "freed"
    /\ drop_rate' \in {"zero", "some", "full"}
    /\ UNCHANGED <<busVars, portVars, writerVars, enabled, tx_buf_sz,
                   rx_buf_sz, resize, txVars, engineVars, rxVars, wireVars,
                   statVars>>

\* tx_buf_sz / rx_buf_sz: the EBUSY test is made before udev->lock is taken.
BufSzCheck ==
    /\ "resize" \in Env /\ exit # "freed"
    /\ resize.attr = "none"
    /\ wire = "closed" /\ ~port_active
    /\ \E a \in {"tx", "rx"}, n \in BufSizes :
          resize' = [attr |-> a, size |-> n]
    /\ UNCHANGED <<busVars, portVars, writerVars, enabled, drop_rate,
                   tx_buf_sz, rx_buf_sz, txVars, engineVars, rxVars, wireVars,
                   statVars>>

BufSzCommit ==
    /\ resize.attr # "none"
    /\ tx_buf_sz' = IF resize.attr = "tx" THEN resize.size ELSE tx_buf_sz
    /\ rx_buf_sz' = IF resize.attr = "rx" THEN resize.size ELSE rx_buf_sz
    /\ resize' = [attr |-> "none", size |-> DefaultBufSz]
    /\ UNCHANGED <<busVars, portVars, writerVars, enabled, drop_rate, txVars,
                   engineVars, rxVars, wireVars, statVars>>

\* stats/reset
StatsReset ==
    /\ "stats" \in Env /\ exit # "freed"
    /\ ClearStats
    /\ UNCHANGED <<busVars, portVars, writerVars, attrVars, txVars, engineVars,
                   rxVars, wireVars>>

Sysfs == \/ EnabledStore \/ DropRateStore \/ BufSzCheck \/ BufSzCommit
         \/ StatsReset

-----------------------------------------------------------------------------
(* wire and reader: the file operations of /dev/virtrtlab-wireN.           *)

\* open(): atomic_cmpxchg(&wire_open_count, 0, 1), -EBUSY when it is taken ...
WireOpen ==
    /\ wire = "closed" /\ exit = "live"
    /\ wire' = "opening"
    /\ UNCHANGED <<busVars, portVars, writerVars, attrVars, txVars, engineVars,
                   rxVars, wire_reset_pending, reader, recv, wire_sent,
                   statVars>>

\* ... then the stale reset flag is cleared.
WireOpened ==
    /\ wire = "opening"
    /\ wire_reset_pending' = FALSE
    /\ wire' = "open"
    /\ UNCHANGED <<busVars, portVars, writerVars, attrVars, txVars, engineVars,
                   rxVars, reader, recv, wire_sent, statVars>>

\* release(): kfifo_reset(&rx_fifo) under rx_lock ...
WireRelease ==
    /\ wire = "open" /\ reader = "idle"
    /\ rx_fifo' = <<>>
    /\ written_off' = written_off + Len(rx_fifo)
    /\ wire' = "release"
    /\ UNCHANGED <<busVars, portVars, writerVars, attrVars, txVars, engineVars,
                   rx_cap, wire_reset_pending, reader, recv, wire_sent, stat>>

\* ... then wire_open_count := 0.
WireReleased ==
    /\ wire = "release"
    /\ wire' = "closed"
    /\ UNCHANGED <<busVars, portVars, writerVars, attrVars, txVars, engineVars,
                   rxVars, wire_reset_pending, reader, recv, wire_sent,
                   statVars>>

\* read() with a reset pending returns 0 at once.  A blocking read waits
\* first; an O_NONBLOCK one tries.
ReadBegin ==
    /\ wire = "open" /\ reader = "idle" /\ ~wire_reset_pending
    /\ reader' \in {"wait", "try"}
    /\ UNCHANGED <<busVars, portVars, writerVars, attrVars, txVars, engineVars,
                   rxVars, wire, wire_reset_pending, recv, wire_sent,
                   statVars>>

\* Mutant: the wait ignores a pending reset.
ReadConditionNoReset == rx_fifo # <<>> \/ ~port_active

\* wait_event_interruptible() returns; a pending reset is EOF.
ReadCondition == rx_fifo # <<>> \/ ~port_active \/ wire_reset_pending

ReadWake ==
    /\ reader = "wait" /\ ReadCondition
    /\ reader' = IF wire_reset_pending THEN "idle" ELSE "take"
    /\ UNCHANGED <<busVars, portVars, writerVars, attrVars, txVars, engineVars,
                   rxVars, wire, wire_reset_pending, recv, wire_sent,
                   statVars>>

\* A signal ends the wait with -ERESTARTSYS.
ReadInterrupt ==
    /\ reader = "wait"
    /\ reader' = "idle"
    /\ UNCHANGED <<busVars, portVars, writerVars, attrVars, txVars, engineVars,
                   rxVars, wire, wire_reset_pending, recv, wire_sent,
                   statVars>>

\* Under rx_lock: the port was shut down (EOF) ...
ReadEof ==
    /\ reader \in {"take", "try"} /\ ~port_active
    /\ reader' = "idle"
    /\ UNCHANGED <<busVars, portVars, writerVars, attrVars, txVars, engineVars,
                   rxVars, wire, wire_reset_pending, recv, wire_sent,
                   statVars>>

\* ... or rx_fifo is empty: -EAGAIN, or wait again ...
ReadNothing ==
    /\ reader \in {"take", "try"} /\ port_active /\ rx_fifo = <<>>
    /\ reader' = IF reader = "try" THEN "idle" ELSE "wait"
    /\ UNCHANGED <<busVars, portVars, writerVars, attrVars, txVars, engineVars,
                   rxVars, wire, wire_reset_pending, recv, wire_sent,
                   statVars>>

\* Mutant: kfifo_out_peek() for kfifo_out(): the bytes stay in rx_fifo.
ReadTakePeek ==
    /\ reader \in {"take", "try"} /\ port_active
    /\ \E k \in 1..Len(rx_fifo) : recv' = recv \o SubSeq(rx_fifo, 1, k)
    /\ reader' = "idle"
    /\ UNCHANGED <<busVars, portVars, writerVars, attrVars, txVars, engineVars,
                   rxVars, wire, wire_reset_pending, wire_sent, statVars>>

\* Mutant: the newest bytes are read first.
ReadTakeNewest ==
    /\ reader \in {"take", "try"} /\ port_active
    /\ \E k \in 1..Len(rx_fifo) :
          /\ recv' = recv \o SubSeq(rx_fifo, Len(rx_fifo) - k + 1, Len(rx_fifo))
          /\ rx_fifo' = SubSeq(rx_fifo, 1, Len(rx_fifo) - k)
    /\ reader' = "idle"
    /\ UNCHANGED <<busVars, portVars, writerVars, attrVars, txVars, engineVars,
                   rx_cap, wire, wire_reset_pending, wire_sent, statVars>>

\* ... or kfifo_out() takes up to count bytes.
ReadTake ==
    /\ reader \in {"take", "try"} /\ port_active
    /\ \E k \in 1..Len(rx_fifo) :
          /\ recv' = recv \o SubSeq(rx_fifo, 1, k)
          /\ rx_fifo' = SubSeq(rx_fifo, k + 1, Len(rx_fifo))
    /\ reader' = "idle"
    /\ UNCHANGED <<busVars, portVars, writerVars, attrVars, txVars, engineVars,
                   rx_cap, wire, wire_reset_pending, wire_sent, statVars>>

Read == ReadBegin \/ ReadWake \/ ReadInterrupt \/ ReadEof \/ ReadNothing \/ ReadTake

\* write(wire_fd), one chunk: the tty flip buffer takes k of n bytes; no test
\* of the bus, of enabled or of port_active.
WireWrite ==
    /\ wire = "open"
    /\ \E n \in 1..(MaxWireBytes - wire_sent) : \E k \in 0..n :
          /\ wire_sent' = wire_sent + n
          /\ stat' = [tx_bytes |-> stat.tx_bytes, drops |-> stat.drops,
                      rx_bytes |-> stat.rx_bytes + k,
                      overruns |-> stat.overruns + (n - k)]
          /\ written_off' = written_off - (n - k)
    /\ UNCHANGED <<busVars, portVars, writerVars, attrVars, txVars, engineVars,
                   rxVars, wire, wire_reset_pending, reader, recv>>

Wire == WireOpen \/ WireOpened \/ WireRelease \/ WireReleased \/ WireWrite

-----------------------------------------------------------------------------
(* exit: virtrtlab_uart_exit(), for one device.  The kernel starts it only *)
(* while nobody has the tty or the wire open, and refuses new opens from   *)
(* then on.                                                                *)

\* tty_unregister_driver()
ExitTty ==
    /\ "rmmod" \in Env
    /\ exit = "live" /\ port = "closed" /\ wire = "closed"
    /\ exit' = "wire"
    /\ UNCHANGED <<bus_state, ctl, ctl_op, portVars, writerVars, attrVars,
                   txVars, engineVars, rxVars, wireVars, statVars>>

\* misc_deregister()
ExitWire ==
    /\ exit = "wire"
    /\ exit' = "notifier"
    /\ UNCHANGED <<bus_state, ctl, ctl_op, portVars, writerVars, attrVars,
                   txVars, engineVars, rxVars, wireVars, statVars>>

\* virtrtlab_bus_unregister_notifier(): waits for a broadcast in progress.
ExitNotifier ==
    /\ exit = "notifier" /\ ctl \in {"idle", "up"}
    /\ exit' = "timer"
    /\ UNCHANGED <<bus_state, ctl, ctl_op, portVars, writerVars, attrVars,
                   txVars, engineVars, rxVars, wireVars, statVars>>

\* Mutant: tx_timer is not cancelled: "shutdown() has stopped it".
ExitTimerTrusted ==
    /\ exit = "timer"
    /\ exit' = "work"
    /\ UNCHANGED <<bus_state, ctl, ctl_op, portVars, writerVars, attrVars,
                   txVars, engineVars, rxVars, wireVars, statVars>>

\* hrtimer_cancel()
ExitTimer ==
    /\ exit = "timer"
    /\ timer' = FALSE
    /\ exit' = "work"
    /\ UNCHANGED <<bus_state, ctl, ctl_op, portVars, writerVars, attrVars,
                   txVars, pending, work, burst, rxVars, wireVars, statVars>>

\* cancel_work_sync(): unqueue tx_work ...
ExitWork ==
    /\ exit = "work"
    /\ pending' = FALSE
    /\ exit' = "wait"
    /\ UNCHANGED <<bus_state, ctl, ctl_op, portVars, writerVars, attrVars,
                   txVars, timer, work, burst, rxVars, wireVars, statVars>>

\* ... and wait for a run in progress.
ExitWait ==
    /\ exit = "wait" /\ work = "idle"
    /\ exit' = "device"
    /\ UNCHANGED <<bus_state, ctl, ctl_op, portVars, writerVars, attrVars,
                   txVars, engineVars, rxVars, wireVars, statVars>>

\* device_unregister(): waits for the stores, then virtrtlab_uart_dev_release()
\* frees the device.
ExitDevice ==
    /\ exit = "device" /\ resize.attr = "none"
    /\ exit' = "freed"
    /\ UNCHANGED <<bus_state, ctl, ctl_op, portVars, writerVars, attrVars,
                   txVars, engineVars, rxVars, wireVars, statVars>>

Exit == \/ ExitTty \/ ExitWire \/ ExitNotifier \/ ExitTimer \/ ExitWork
        \/ ExitWait \/ ExitDevice

-----------------------------------------------------------------------------

Next == \/ Writer \/ TimerExpire \/ Work \/ Port \/ Ctl \/ Sysfs \/ Wire \/ Read
        \/ Exit

\* What the kernel keeps running once it has begun: an armed timer expires, a
\* queued work item runs, a thread inside the driver goes on.  Nothing obliges
\* the AUT, the simulator or the harness to start a new operation.
Fairness ==
    /\ WF_vars(WriteGate \/ WriteEnqueue \/ WriteFull \/ WriteArm)
    /\ WF_vars(TimerExpire)
    /\ WF_vars(Work)
    /\ WF_vars(PortAlloc \/ PortAllocFail \/ PortHangup \/ PortHungUp
               \/ Shutdown)
    /\ WF_vars(Notifier)
    /\ WF_vars(BufSzCommit)
    /\ WF_vars(WireOpened \/ WireReleased)
    /\ WF_vars(ReadWake \/ ReadEof \/ ReadNothing \/ ReadTake)

Spec == Init /\ [][Next]_vars /\ Fairness

-----------------------------------------------------------------------------
(* Properties *)

BurstPcs    == {"count", "gate", "drop", "deliver"}
ShutdownPcs == {"timer", "work", "wait", "account", "freetx", "freerx"}

\* The program counters, the flags and the rest of virtrtlab_uart_dev.
PcsOK ==
    /\ bus_state \in {"up", "down"}
    /\ ctl \in {"idle", "timer", "work", "wait", "flush", "attrs", "stats",
                "signal", "hangup", "up"}
    /\ ctl_op \in {"none", "down", "reset"}
    /\ exit \in {"live", "wire", "notifier", "timer", "work", "wait", "device",
                 "freed"}
    /\ port \in {"closed", "alloc", "open", "hangup"} \cup ShutdownPcs
    /\ writer \in {"idle", "gate", "enqueue", "arm"}
    /\ work \in {"idle", "rearm"} \cup BurstPcs
    /\ wire \in {"closed", "opening", "open", "release"}
    /\ reader \in {"idle", "wait", "take", "try"}
    /\ drop_rate \in {"zero", "some", "full"}

FlagsOK ==
    /\ port_active \in BOOLEAN /\ hangup \in BOOLEAN
    /\ blocked \in BOOLEAN /\ enabled \in BOOLEAN
    /\ timer \in BOOLEAN /\ pending \in BOOLEAN
    /\ wire_reset_pending \in BOOLEAN

DataOK ==
    /\ alloc \in [tx : BufSizes, rx : BufSizes]
    /\ tx_buf_sz \in BufSizes /\ rx_buf_sz \in BufSizes
    /\ resize \in [attr : {"none", "tx", "rx"}, size : BufSizes]
    /\ sent \in 0..MaxBytes /\ taken \in 0..sent
    /\ tx_cap \in {0} \cup BufSizes /\ rx_cap \in {0} \cup BufSizes
    /\ burst \in [lo : Nat, hi : Nat]
    /\ rx_fifo \in Seq(Nat) /\ recv \in Seq(Nat)
    /\ wire_sent \in 0..MaxWireBytes
    /\ stat \in Stats
    /\ written_off \in Int

\* Every variable of the driver keeps its type; in particular a byte leaves
\* tx_fifo only after it entered (taken never passes sent), and no counter of
\* stats/ goes negative.
TypeOK == PcsOK /\ FlagsOK /\ DataOK

\* The kfifos are live exactly while the tty port is, and never overfull:
\* port_active promises wire_read() a live rx_fifo, an open port promises
\* write() a live tx_fifo, and no byte lies in a tx_fifo that is freed.
FifosLive ==
    /\ port_active <=> port \in {"open", "hangup"} \cup ShutdownPcs
    /\ port_active <=> rx_cap # 0
    /\ tx_cap # 0 <=> port \in {"open", "hangup"} \cup (ShutdownPcs \ {"freerx"})
    /\ TxLen <= tx_cap
    /\ Len(rx_fifo) <= RxSlots
    /\ writer # "idle" => port \in {"open", "hangup"}

\* No byte is stranded: while tx_fifo holds a byte, something that is certain
\* to run will take it out -- the timer, the work item, a writer about to arm
\* the timer, or a cancellation that is on its way to empty tx_fifo.  This is
\* what makes the lockless kfifo_is_empty() test of B6 and the cancellations
\* of DOWN, RESET and shutdown safe.
NoStrandedBytes ==
    TxLen > 0 => \/ timer \/ pending \/ work # "idle"
                 \/ writer = "arm"
                 \/ ctl \in {"work", "wait", "flush"}
                 \/ port \in {"work", "wait", "account", "freetx"}

\* The bytes the simulator has read followed by those it can read next are in
\* the order in which write() accepted them, each at most once, through every
\* flush, drop, overrun, reset, close and reopen.
Ordered(s, n) == \A i, j \in 1..n : i < j => s[i] < s[j]
InOrder == Ordered(recv \o rx_fifo, Len(recv) + Len(rx_fifo))

\* No silent loss: every accepted byte is still in the driver, has been read,
\* or is counted in drops or overruns, except for the losses that are meant
\* not to be counted (written_off: a RESET's flush, unread bytes dropped when
\* the wire or the port closes, and counters that were cleared).  The overruns
\* of the other direction, which share a counter, do not make up for a loss.
Accounted ==
    Len(recv) + Len(rx_fifo) + stat.drops + stat.overruns + written_off
NoSilentLoss == sent <= Accounted + BurstLen + TxLen

\* Exact accounting: and nothing is counted twice.  Without a shutdown of the
\* port every accepted byte is in exactly one place.
ExactLedger == sent = Accounted + BurstLen + TxLen

\* Nothing runs on a freed device: no armed timer, no queued or running
\* tx_work, no broadcast, reader, writer or store inside it; and from
\* cancel_work_sync() on nothing can queue it again.  virtrtlab_uart_exit()
\* cancels the timer before the work, although a run of tx_work re-arms the
\* timer and although shutdown() may have left the timer armed.
FreedIsQuiet ==
    /\ exit \in {"wait", "device", "freed"} => ~timer /\ ~pending
    /\ exit \in {"device", "freed"} => work = "idle"
    /\ exit = "freed" => /\ ctl \in {"idle", "up"} /\ port = "closed"
                         /\ wire = "closed" /\ writer = "idle"
                         /\ reader = "idle" /\ resize.attr = "none"

\* Strengthenings of the invariants above, used by the proofs in UartProofs.
\* What each call of virtrtlab_uart_exit() has put an end to stays ended.  No
\* write() is left to start the timer, and a late run of tx_work finds tx_fifo
\* freed, hence empty, and does not start it either.
ExitInv ==
    /\ reader # "idle" => wire = "open"
    /\ exit # "live" => port = "closed" /\ wire = "closed"
    /\ exit \notin {"live", "wire", "notifier"} => ctl \in {"idle", "up"}
    /\ exit \in {"work", "wait", "device", "freed"} => timer = FALSE
    /\ exit \in {"wait", "device", "freed"} => pending = FALSE
    /\ exit \in {"device", "freed"} => work = "idle"
    /\ exit = "freed" => resize.attr = "none"

\* A run of tx_work between B1 and B5 holds a non-empty burst, which has left
\* tx_fifo; any other run holds none.
BurstInv ==
    /\ work \in BurstPcs => burst.lo < burst.hi /\ burst.hi <= taken
    /\ work \notin BurstPcs => burst.lo = 0 /\ burst.hi = 0

\* Everything in rx_fifo and recv is older than what tx_work holds or tx_fifo
\* may still give it.
Floor == IF work \in BurstPcs THEN burst.lo ELSE taken
OrderInv ==
    /\ Ordered(recv, Len(recv)) /\ Ordered(rx_fifo, Len(rx_fifo))
    /\ \A i \in 1..Len(recv), j \in 1..Len(rx_fifo) : recv[i] < rx_fifo[j]
    /\ \A i \in 1..Len(recv) : recv[i] <= Floor
    /\ \A i \in 1..Len(rx_fifo) : rx_fifo[i] <= Floor

\* Between the accounting and the freeing of tx_fifo in shutdown(), its bytes
\* are already in the counters.
LossInv ==
    /\ NoSilentLoss
    /\ port = "freetx" => sent <= Accounted + BurstLen

\* The driver implements the lossy FIFO channel of UartChannel.
Transit ==
    {rx_fifo[i] : i \in 1..Len(rx_fifo)} \cup ((burst.lo + 1)..burst.hi) \cup TxFifo
Channel == INSTANCE UartChannel WITH transit <- Transit
ImplementsChannel == Channel!ChannelSpec

\* A pending reset reaches the simulator: once RESET has raised
\* wire_reset_pending, a read() that is waiting returns.
ResetEndsRead == (wire_reset_pending /\ reader = "wait") ~> (reader = "idle")

\* A byte in tx_fifo eventually leaves it: delivered, dropped or flushed.
QueuedByteLeaves ==
    \A b \in 1..MaxBytes : (b \in TxFifo) ~> (b \notin TxFifo)

\* A port whose tty was hung up by RESET is eventually closed.
HangupCloses == hangup ~> (port = "closed")

-----------------------------------------------------------------------------
(* What the repository's docs and comments say of this driver, and the     *)
(* code does not do: each is refuted by a run of its own.                  *)

\* virtrtlab_uart.c, above port_activate: "shutdown() -- called on last close;
\* frees kfifos and stops the timer."
ShutdownStopsTimer == port = "closed" => ~timer

\* docs/sysfs.md, write() with a full TX buffer: "blocking: suspend until
\* write_room() > 0".  A sleeping write resumes once there is room.
BlockedWriteResumes == (blocked /\ TxRoom > 0) ~> ~blocked

=============================================================================
