----------------------------- MODULE UartProofs -----------------------------
(***************************************************************************)
(* Proofs about module Uart, for every set of buffer sizes, burst size,    *)
(* bound and set of environment operations.                                *)
(*                                                                         *)
(* TypeInv is the inductive core: the types, the life of the two kfifos    *)
(* and the burst tx_work holds need each other (a counter grows by a       *)
(* natural number because tx_fifo and the burst are never negative; the    *)
(* fifos never overflow because their length and size are natural          *)
(* numbers).  The other invariants are inductive on top of it.  Booleans   *)
(* are left to Zenon and arithmetic to SMT, so the types are proved in     *)
(* three parts.                                                            *)
(***************************************************************************)
EXTENDS Uart, SequenceTheorems, TLAPS

TypeInv == TypeOK /\ FifosLive /\ BurstInv

-----------------------------------------------------------------------------
(* What the operators of the model return. *)

\* Adding to one of the four counters of stats/ leaves four counters.
LEMMA CountType ==
    ASSUME NEW field \in {"tx_bytes", "rx_bytes", "overruns", "drops"},
           NEW n \in Nat, stat \in Stats
    PROVE  Count(field, n) \in Stats
  BY DEF Count, Stats

\* It changes that counter and no other.
LEMMA Counted ==
    ASSUME NEW n \in Nat, stat \in Stats
    PROVE  /\ Count("tx_bytes", n).drops = stat.drops
           /\ Count("tx_bytes", n).overruns = stat.overruns
           /\ Count("drops", n).drops = stat.drops + n
           /\ Count("drops", n).overruns = stat.overruns
           /\ Count("overruns", n).drops = stat.drops
           /\ Count("overruns", n).overruns = stat.overruns + n
  BY DEF Count, Stats

\* kfifo_len(&tx_fifo) is never negative.
LEMMA TxLenType == DataOK => TxLen \in Nat
  BY BoundAssumption DEF DataOK, TxLen

\* Neither is the number of bytes tx_work holds.
LEMMA BurstLenType == DataOK /\ BurstInv => BurstLen \in Nat
  BY DEF DataOK, BurstInv, BurstLen, BurstPcs

\* The amounts the ledger adds up.
LEMMA Amounts ==
    TypeInv => /\ sent \in Nat /\ taken \in Nat /\ tx_cap \in Nat
               /\ TxLen \in Nat /\ BurstLen \in Nat /\ Accounted \in Int
               /\ Len(recv) \in Nat /\ Len(rx_fifo) \in Nat
               /\ stat.drops \in Nat /\ stat.overruns \in Nat
               /\ written_off \in Int /\ stat \in Stats
  <1> SUFFICES ASSUME TypeInv
               PROVE  /\ sent \in Nat /\ taken \in Nat /\ tx_cap \in Nat
                      /\ TxLen \in Nat /\ BurstLen \in Nat /\ Accounted \in Int
                      /\ Len(recv) \in Nat /\ Len(rx_fifo) \in Nat
                      /\ stat.drops \in Nat /\ stat.overruns \in Nat
                      /\ written_off \in Int /\ stat \in Stats
    OBVIOUS
  <1>1. /\ sent \in Nat /\ taken \in Nat /\ tx_cap \in Nat
        /\ written_off \in Int /\ stat \in Stats
        /\ recv \in Seq(Nat) /\ rx_fifo \in Seq(Nat)
    BY BoundAssumption, BufAssumption DEF TypeInv, TypeOK, DataOK
  <1>2. TxLen \in Nat /\ BurstLen \in Nat
    BY TxLenType, BurstLenType DEF TypeInv, TypeOK
  <1>3. stat.drops \in Nat /\ stat.overruns \in Nat
    BY <1>1 DEF Stats
  <1>4. Len(recv) \in Nat /\ Len(rx_fifo) \in Nat
    BY <1>1
  <1>5. Accounted \in Int
    BY <1>1, <1>3, <1>4 DEF Accounted
  <1> QED
    BY <1>1, <1>2, <1>3, <1>4, <1>5

\* The bytes lo + 1 .. lo + n as a sequence.
LEMMA RunType ==
    ASSUME NEW lo \in Nat, NEW n \in Nat
    PROVE  /\ Run(lo, n) \in Seq(Nat)
           /\ Len(Run(lo, n)) = n
           /\ \A i \in 1..n : Run(lo, n)[i] = lo + i
  BY DEF Run

\* Appending the run lo + 1 .. lo + n to an increasing sequence whose elements
\* are at most lo keeps it increasing.
LEMMA Extended ==
    ASSUME NEW s, NEW t, NEW m \in Nat, NEW n \in Nat, NEW lo \in Nat,
           Ordered(s, m), \A i \in 1..m : s[i] \in Nat /\ s[i] <= lo,
           \A i \in 1..m : t[i] = s[i],
           \A i \in 1..n : t[m + i] = lo + i
    PROVE  /\ Ordered(t, m + n)
           /\ \A i \in 1..(m + n) : t[i] <= lo + n
           /\ \A i \in 1..(m + n) : i \in 1..m \/ lo < t[i]
  <1>1. ASSUME NEW i \in 1..(m + n), i \notin 1..m
        PROVE  t[i] = lo + (i - m) /\ i - m \in 1..n
    <2>1. i - m \in 1..n /\ m + (i - m) = i
      BY <1>1
    <2> QED
      BY <2>1
  <1>2. ASSUME NEW i \in 1..(m + n), NEW j \in 1..(m + n), i < j
        PROVE  t[i] < t[j]
    <2>1. CASE j \in 1..m
      <3>1. i \in 1..m
        BY <1>2, <2>1
      <3> QED
        BY <1>2, <2>1, <3>1 DEF Ordered
    <2>2. CASE i \in 1..m /\ j \notin 1..m
      BY <1>1, <1>2, <2>2
    <2>3. CASE i \notin 1..m /\ j \notin 1..m
      BY <1>1, <1>2, <2>3
    <2>4. i \notin 1..m => j \notin 1..m
      BY <1>2
    <2> QED
      BY <2>1, <2>2, <2>3, <2>4
  <1>4. ASSUME NEW i \in 1..(m + n)
        PROVE  t[i] <= lo + n /\ (i \in 1..m \/ lo < t[i])
    <2>1. CASE i \in 1..m
      BY <2>1
    <2>2. CASE i \notin 1..m
      BY <1>1, <2>2
    <2> QED
      BY <2>1, <2>2
  <1> QED
    BY <1>2, <1>4 DEF Ordered

\* The first k of the m elements of s move to the end of the l elements of r.
Moves(r, r2, l, s, s2, m, k) ==
    /\ l \in Nat /\ m \in Nat /\ k \in 1..m
    /\ Ordered(r, l) /\ Ordered(s, m)
    /\ \A i \in 1..l, j \in 1..m : r[i] < s[j]
    /\ \A i \in 1..l : r2[i] = r[i]
    /\ \A i \in 1..k : r2[l + i] = s[i]
    /\ \A i \in 1..(m - k) : s2[i] = s[k + i]

\* What the two are then: both increasing, the one below the other, and made of
\* the same elements.
Moved(r, r2, l, s, s2, m, k) ==
    /\ Ordered(r2, l + k) /\ Ordered(s2, m - k)
    /\ \A i \in 1..(l + k), j \in 1..(m - k) : r2[i] < s2[j]
    /\ \A i \in 1..(l + k) :
          \/ i \in 1..l /\ r2[i] = r[i]
          \/ i - l \in 1..m /\ r2[i] = s[i - l]
    /\ \A i \in 1..(m - k) : k + i \in 1..m /\ s2[i] = s[k + i]

\* A move keeps the order.
LEMMA MoveKeepsOrder ==
    ASSUME NEW r, NEW r2, NEW s, NEW s2, NEW l, NEW m, NEW k,
           Moves(r, r2, l, s, s2, m, k)
    PROVE  Moved(r, r2, l, s, s2, m, k)
  <1> USE DEF Moves
  <1>1. ASSUME NEW i \in 1..(l + k), i \notin 1..l
        PROVE  /\ i - l \in 1..k /\ i - l \in 1..m
               /\ r2[i] = s[i - l]
    <2>1. /\ i - l \in 1..k /\ i - l \in 1..m
          /\ l + (i - l) = i
      BY <1>1
    <2> QED
      BY <2>1
  <1>2. ASSUME NEW i \in 1..(m - k)
        PROVE  k + i \in 1..m /\ s2[i] = s[k + i]
    OBVIOUS
  <1>3. ASSUME NEW i \in 1..(l + k), NEW j \in 1..(l + k), i < j
        PROVE  r2[i] < r2[j]
    <2>1. CASE j \in 1..l
      <3>1. i \in 1..l
        BY <1>3, <2>1
      <3> QED
        BY <1>3, <2>1, <3>1 DEF Ordered
    <2>2. CASE i \in 1..l /\ j \notin 1..l
      BY <1>1, <1>3, <2>2
    <2>3. CASE i \notin 1..l /\ j \notin 1..l
      <3>1. i - l < j - l
        BY <1>3
      <3> QED
        BY <1>1, <1>3, <2>3, <3>1 DEF Ordered
    <2>4. i \notin 1..l => j \notin 1..l
      BY <1>3
    <2> QED
      BY <2>1, <2>2, <2>3, <2>4
  <1>4. ASSUME NEW i \in 1..(m - k), NEW j \in 1..(m - k), i < j
        PROVE  s2[i] < s2[j]
    <2>1. k + i < k + j
      BY <1>4
    <2> QED
      BY <1>2, <1>4, <2>1 DEF Ordered
  <1>5. ASSUME NEW i \in 1..(l + k), NEW j \in 1..(m - k)
        PROVE  r2[i] < s2[j]
    <2>1. CASE i \in 1..l
      BY <1>2, <2>1
    <2>2. CASE i \notin 1..l
      <3>1. i - l < k + j
        BY <1>1, <2>2
      <3> QED
        BY <1>1, <1>2, <2>2, <3>1 DEF Ordered
    <2> QED
      BY <2>1, <2>2
  <1>6. Ordered(r2, l + k) /\ Ordered(s2, m - k)
    BY <1>3, <1>4 DEF Ordered
  <1>7. \A i \in 1..(m - k) : k + i \in 1..m /\ s2[i] = s[k + i]
    BY <1>2
  <1>8. \A i \in 1..(l + k), j \in 1..(m - k) : r2[i] < s2[j]
    BY <1>5
  <1>9. \A i \in 1..(l + k) :
            \/ i \in 1..l /\ r2[i] = r[i]
            \/ i - l \in 1..m /\ r2[i] = s[i - l]
    BY <1>1
  <1> HIDE DEF Moves
  <1> QED
    BY <1>6, <1>7, <1>8, <1>9, Zenon DEF Moved

\* What B5 of tx_work does to rx_fifo: the first n bytes of the burst are
\* appended, as many as fit, and the others are counted as overruns.
LEMMA Deliver ==
    ASSUME DataOK, BurstInv, FifosLive, WorkDeliver
    PROVE  \E n \in 0..BurstLen :
              /\ n <= RxRoom
              /\ stat' = Count("overruns", BurstLen - n)
              /\ rx_fifo' \in Seq(Nat)
              /\ Len(rx_fifo') = Len(rx_fifo) + n
              /\ \A i \in 1..Len(rx_fifo) : rx_fifo'[i] = rx_fifo[i]
              /\ \A i \in 1..n : rx_fifo'[Len(rx_fifo) + i] = burst.lo + i
  <1> DEFINE n == MinOf(BurstLen, RxRoom)
             run == Run(burst.lo, n)
  <1>1. BurstLen \in Nat /\ burst.lo \in Nat /\ rx_fifo \in Seq(Nat)
    BY BurstLenType DEF DataOK
  <1>2. RxRoom \in Nat
    BY BufAssumption DEF DataOK, FifosLive, RxRoom, RxSlots
  <1>3. n \in 0..BurstLen /\ n \in Nat /\ n <= RxRoom
    BY <1>1, <1>2 DEF MinOf
  <1>4. rx_fifo' = rx_fifo \o run /\ stat' = Count("overruns", BurstLen - n)
    BY DEF WorkDeliver
  <1> HIDE DEF n
  <1>5. run \in Seq(Nat) /\ Len(run) = n /\ \A i \in 1..n : run[i] = burst.lo + i
    BY <1>1, <1>3, RunType
  <1> HIDE DEF run
  <1>6. rx_fifo' \in Seq(Nat) /\ Len(rx_fifo') = Len(rx_fifo) + n
    BY <1>1, <1>4, <1>5, ConcatProperties
  <1>7. \A i \in 1..Len(rx_fifo) : rx_fifo'[i] = rx_fifo[i]
    BY <1>1, <1>4, <1>5, <1>6
  <1>8. \A i \in 1..n : rx_fifo'[Len(rx_fifo) + i] = burst.lo + i
    BY <1>1, <1>3, <1>4, <1>5, <1>6
  <1> QED
    BY <1>3, <1>4, <1>6, <1>7, <1>8

\* What read(wire_fd) does: the first k bytes of rx_fifo move to recv.
LEMMA Take ==
    ASSUME DataOK, ReadTake
    PROVE  \E k \in 1..Len(rx_fifo) :
              /\ recv' \in Seq(Nat) /\ rx_fifo' \in Seq(Nat)
              /\ Len(recv') = Len(recv) + k
              /\ Len(rx_fifo') = Len(rx_fifo) - k
              /\ \A i \in 1..Len(recv) : recv'[i] = recv[i]
              /\ \A i \in 1..k : recv'[Len(recv) + i] = rx_fifo[i]
              /\ \A i \in 1..(Len(rx_fifo) - k) : rx_fifo'[i] = rx_fifo[k + i]
  <1>1. PICK k \in 1..Len(rx_fifo) :
            /\ recv' = recv \o SubSeq(rx_fifo, 1, k)
            /\ rx_fifo' = SubSeq(rx_fifo, k + 1, Len(rx_fifo))
    BY DEF ReadTake
  <1> DEFINE out == SubSeq(rx_fifo, 1, k)
  <1>2. /\ recv \in Seq(Nat) /\ rx_fifo \in Seq(Nat)
        /\ Len(rx_fifo) \in Nat /\ Len(recv) \in Nat /\ k \in Nat
    BY DEF DataOK
  <1>3. out \in Seq(Nat) /\ Len(out) = k /\ \A i \in 1..k : out[i] = rx_fifo[i]
    BY <1>2
  <1>4. /\ rx_fifo' \in Seq(Nat) /\ Len(rx_fifo') = Len(rx_fifo) - k
        /\ \A i \in 1..(Len(rx_fifo) - k) : rx_fifo'[i] = rx_fifo[k + i]
    BY <1>1, <1>2
  <1>5. recv' = recv \o out
    BY <1>1
  <1> HIDE DEF out
  <1>6. recv' \in Seq(Nat) /\ Len(recv') = Len(recv) + k
    BY <1>2, <1>3, <1>5, ConcatProperties
  <1>7. \A i \in 1..Len(recv) : recv'[i] = recv[i]
    BY <1>2, <1>3, <1>5
  <1>8. \A i \in 1..k : recv'[Len(recv) + i] = rx_fifo[i]
    BY <1>2, <1>3, <1>5
  <1> QED
    BY <1>4, <1>6, <1>7, <1>8

-----------------------------------------------------------------------------
(* The types, the life of the kfifos and the burst. *)

\* The state after insmod.
LEMMA InitType == Init => TypeInv
  <1> SUFFICES ASSUME Init PROVE TypeInv
    OBVIOUS
  <1>1. PcsOK
    BY DEF Init, PcsOK, ShutdownPcs, BurstPcs
  <1>2. FlagsOK
    BY Zenon DEF Init, FlagsOK
  <1>3. DataOK
    BY BufAssumption, BoundAssumption DEF Init, DataOK, Stats, NoBytes
  <1>4. FifosLive
    BY DEF Init, FifosLive, TxLen, RxSlots, ShutdownPcs
  <1>5. BurstInv
    BY DEF Init, BurstInv, BurstPcs
  <1> QED
    BY <1>1, <1>2, <1>3, <1>4, <1>5 DEF TypeInv, TypeOK

\* Every program counter stays in its range.
LEMMA NextPcs == PcsOK /\ [Next]_vars => PcsOK'
  <1> SUFFICES ASSUME PcsOK,
                      [Next]_vars
               PROVE  PcsOK'
    OBVIOUS
  <1> USE DEF PcsOK, ShutdownPcs, BurstPcs, busVars, portVars, writerVars, attrVars,
          txVars, engineVars, rxVars, wireVars, statVars
  <1>1. CASE WriteCheckBus \/ WriteGate \/ WriteEnqueue \/ WriteFull
               \/ WriteArm
    BY <1>1 DEF WriteCheckBus, WriteGate, WriteEnqueue, WriteFull, WriteArm
  <1>2. CASE TimerExpire
    BY <1>2 DEF TimerExpire
  <1>3. CASE WorkDequeue \/ WorkCount \/ WorkGate \/ WorkDrop \/ WorkDeliver
               \/ WorkRearm
    BY <1>3
    DEF WorkDequeue, WorkCount, WorkGate, WorkDrop, WorkDeliver, WorkRearm
  <1>4. CASE PortActivate \/ PortAlloc \/ PortAllocFail \/ PortClose
               \/ PortHangup \/ PortHungUp
    BY <1>4
    DEF PortActivate, PortAlloc, PortAllocFail, PortClose, PortHangup,
       PortHungUp
  <1>5. CASE ShutdownTimer \/ ShutdownWork \/ ShutdownWait \/ ShutdownAccount
               \/ ShutdownFreeTx \/ ShutdownFreeRx
    BY <1>5
    DEF ShutdownTimer, ShutdownWork, ShutdownWait, ShutdownAccount,
       ShutdownFreeTx, ShutdownFreeRx
  <1>6. CASE BusSetDown \/ BusSetUp \/ BusReset \/ NotifyTimer \/ NotifyWork
               \/ NotifyWait \/ NotifyFlushDown \/ NotifyFlushReset
               \/ NotifyAttrs \/ NotifyStats \/ NotifySignal \/ NotifyHangup
               \/ BusResetUp
    BY <1>6
    DEF BusSetDown, BusSetUp, BusReset, NotifyTimer, NotifyWork, NotifyWait,
       NotifyFlushDown, NotifyFlushReset, NotifyAttrs, NotifyStats,
       NotifySignal, NotifyHangup, BusResetUp
  <1>7. CASE EnabledStore \/ DropRateStore \/ BufSzCheck \/ BufSzCommit
               \/ StatsReset
    BY <1>7
    DEF EnabledStore, DropRateStore, BufSzCheck, BufSzCommit, StatsReset
  <1>8. CASE WireOpen \/ WireOpened \/ WireRelease \/ WireReleased
               \/ WireWrite
    BY <1>8 DEF WireOpen, WireOpened, WireRelease, WireReleased, WireWrite
  <1>9. CASE ReadBegin \/ ReadWake \/ ReadInterrupt \/ ReadEof \/ ReadNothing
               \/ ReadTake
    BY <1>9
    DEF ReadBegin, ReadWake, ReadInterrupt, ReadEof, ReadNothing, ReadTake
  <1>exit. CASE ExitTty \/ ExitWire \/ ExitNotifier \/ ExitTimer \/ ExitWork
               \/ ExitWait \/ ExitDevice
    BY <1>exit
    DEF ExitTty, ExitWire, ExitNotifier, ExitTimer, ExitWork, ExitWait,
       ExitDevice
  <1>10. CASE UNCHANGED vars
    BY <1>10 DEF vars
  <1> QED
    BY <1>1, <1>2, <1>3, <1>4, <1>5, <1>6, <1>7, <1>8, <1>9, <1>10, <1>exit
    DEF Next, Writer, Work, Port, Shutdown, Ctl, Notifier, Sysfs, Wire, Read,
       Exit

\* Every flag stays a Boolean.
LEMMA NextFlags == FlagsOK /\ [Next]_vars => FlagsOK'
  <1> SUFFICES ASSUME FlagsOK,
                      [Next]_vars
               PROVE  FlagsOK'
    OBVIOUS
  <1> USE DEF FlagsOK, busVars, portVars, writerVars, attrVars,
          txVars, engineVars, rxVars, wireVars, statVars
  <1>1. CASE WriteCheckBus \/ WriteGate \/ WriteEnqueue \/ WriteFull
               \/ WriteArm
    BY <1>1, Zenon
    DEF WriteCheckBus, WriteGate, WriteEnqueue, WriteFull, WriteArm
  <1>2. CASE TimerExpire
    BY <1>2, Zenon DEF TimerExpire
  <1>3. CASE WorkDequeue \/ WorkCount \/ WorkGate \/ WorkDrop \/ WorkDeliver
               \/ WorkRearm
    BY <1>3, Zenon
    DEF WorkDequeue, WorkCount, WorkGate, WorkDrop, WorkDeliver, WorkRearm
  <1>4. CASE PortActivate \/ PortAlloc \/ PortAllocFail \/ PortClose
               \/ PortHangup \/ PortHungUp
    BY <1>4, Zenon
    DEF PortActivate, PortAlloc, PortAllocFail, PortClose, PortHangup,
       PortHungUp
  <1>5. CASE ShutdownTimer \/ ShutdownWork \/ ShutdownWait \/ ShutdownAccount
               \/ ShutdownFreeTx \/ ShutdownFreeRx
    BY <1>5, Zenon
    DEF ShutdownTimer, ShutdownWork, ShutdownWait, ShutdownAccount,
       ShutdownFreeTx, ShutdownFreeRx
  <1>6. CASE BusSetDown \/ BusSetUp \/ BusReset \/ NotifyTimer \/ NotifyWork
               \/ NotifyWait \/ NotifyFlushDown \/ NotifyFlushReset
               \/ NotifyAttrs \/ NotifyStats \/ NotifySignal \/ BusResetUp
    BY <1>6, ZenonT(30)
    DEF BusSetDown, BusSetUp, BusReset, NotifyTimer, NotifyWork, NotifyWait,
       NotifyFlushDown, NotifyFlushReset, NotifyAttrs, NotifyStats,
       NotifySignal, BusResetUp
  <1>7. CASE NotifyHangup
    <2>1. hangup' \in BOOLEAN
      BY <1>7 DEF NotifyHangup
    <2> QED
      BY <1>7, <2>1, Zenon DEF NotifyHangup
  <1>8. CASE EnabledStore \/ DropRateStore \/ BufSzCheck \/ BufSzCommit
               \/ StatsReset
    BY <1>8, Zenon
    DEF EnabledStore, DropRateStore, BufSzCheck, BufSzCommit, StatsReset
  <1>9. CASE WireOpen \/ WireOpened \/ WireRelease \/ WireReleased
               \/ WireWrite
    BY <1>9, Zenon
    DEF WireOpen, WireOpened, WireRelease, WireReleased, WireWrite
  <1>10. CASE ReadBegin \/ ReadWake \/ ReadInterrupt \/ ReadEof \/ ReadNothing
               \/ ReadTake
    BY <1>10, Zenon
    DEF ReadBegin, ReadWake, ReadInterrupt, ReadEof, ReadNothing, ReadTake
  <1>exit. CASE ExitTty \/ ExitWire \/ ExitNotifier \/ ExitTimer \/ ExitWork
               \/ ExitWait \/ ExitDevice
    BY <1>exit, ZenonT(30)
    DEF ExitTty, ExitWire, ExitNotifier, ExitTimer, ExitWork, ExitWait,
       ExitDevice
  <1>11. CASE UNCHANGED vars
    BY <1>11, Zenon DEF vars
  <1> QED
    BY <1>1, <1>2, <1>3, <1>4, <1>5, <1>6, <1>7, <1>8, <1>9, <1>10, <1>11,
       <1>exit
    DEF Next, Writer, Work, Port, Shutdown, Ctl, Notifier, Sysfs, Wire, Read,
       Exit

\* Sizes, positions, contents and counters keep their types.
LEMMA NextData == DataOK /\ FifosLive /\ BurstInv /\ [Next]_vars => DataOK'
  <1> SUFFICES ASSUME DataOK, FifosLive, BurstInv,
                      [Next]_vars
               PROVE  DataOK'
    OBVIOUS
  <1> USE BufAssumption, BurstAssumption, BoundAssumption
      DEF DataOK, busVars, portVars, writerVars, attrVars,
          txVars, engineVars, rxVars, wireVars, statVars
  <1>1. CASE WriteCheckBus \/ WriteGate \/ WriteFull \/ WriteArm
    BY <1>1 DEF WriteCheckBus, WriteGate, WriteFull, WriteArm
  <1>2. CASE WriteEnqueue
    BY <1>2 DEF WriteEnqueue, TxRoom, TxLen, MinOf, FifosLive
  <1>3. CASE TimerExpire
    BY <1>3 DEF TimerExpire
  <1>4. CASE WorkGate \/ WorkRearm
    BY <1>4 DEF WorkGate, WorkRearm
  <1>5. CASE WorkDequeue
    BY <1>5 DEF WorkDequeue, MinOf, TxLen
  <1>6. CASE WorkCount
    BY <1>6, CountType, BurstLenType DEF WorkCount
  <1>7. CASE WorkDrop
    BY <1>7, CountType, BurstLenType DEF WorkDrop
  <1>8. CASE WorkDeliver
    <2>1. rx_fifo' \in Seq(Nat) /\ stat' \in Stats
      BY <1>8, Deliver, BurstLenType, CountType
    <2> QED
      BY <1>8, <2>1 DEF WorkDeliver
  <1>9. CASE PortClose \/ PortHangup \/ PortHungUp
    BY <1>9 DEF PortClose, PortHangup, PortHungUp
  <1>10. CASE PortActivate
    BY <1>10 DEF PortActivate
  <1>11. CASE PortAlloc
    BY <1>11 DEF PortAlloc
  <1>12. CASE PortAllocFail
    <2>1. CASE rx_fifo' = rx_fifo
      BY <1>12, <2>1 DEF PortAllocFail
    <2>2. CASE rx_fifo' = << >>
      BY <1>12, <2>2 DEF PortAllocFail
    <2> QED
      BY <1>12, <2>1, <2>2 DEF PortAllocFail
  <1>13. CASE ShutdownTimer \/ ShutdownWork \/ ShutdownWait
    BY <1>13 DEF ShutdownTimer, ShutdownWork, ShutdownWait
  <1>14. CASE ShutdownAccount
    BY <1>14, CountType, TxLenType DEF ShutdownAccount
  <1>15. CASE ShutdownFreeTx
    BY <1>15 DEF ShutdownFreeTx
  <1>16. CASE ShutdownFreeRx
    BY <1>16 DEF ShutdownFreeRx
  <1>17. CASE BusSetDown \/ BusSetUp \/ BusReset \/ NotifyTimer \/ NotifyWork
               \/ NotifyWait \/ NotifyAttrs \/ NotifySignal \/ NotifyHangup
               \/ BusResetUp
    BY <1>17
    DEF BusSetDown, BusSetUp, BusReset, NotifyTimer, NotifyWork, NotifyWait,
       NotifyAttrs, NotifySignal, NotifyHangup, BusResetUp
  <1>18. CASE NotifyFlushDown
    BY <1>18, CountType, TxLenType DEF NotifyFlushDown
  <1>19. CASE NotifyFlushReset
    BY <1>19, TxLenType DEF NotifyFlushReset
  <1>20. CASE NotifyStats
    BY <1>20 DEF NotifyStats, ClearStats, NoBytes, Stats
  <1>21. CASE EnabledStore \/ DropRateStore
    BY <1>21 DEF EnabledStore, DropRateStore
  <1>22. CASE BufSzCheck
    BY <1>22 DEF BufSzCheck
  <1>23. CASE BufSzCommit
    BY <1>23 DEF BufSzCommit
  <1>24. CASE StatsReset
    BY <1>24 DEF StatsReset, ClearStats, NoBytes, Stats
  <1>25. CASE WireOpen \/ WireOpened \/ WireReleased
    BY <1>25 DEF WireOpen, WireOpened, WireReleased
  <1>26. CASE WireRelease
    BY <1>26 DEF WireRelease
  <1>27. CASE WireWrite
    BY <1>27 DEF WireWrite, Stats
  <1>28. CASE ReadBegin \/ ReadWake \/ ReadInterrupt \/ ReadEof \/ ReadNothing
    BY <1>28 DEF ReadBegin, ReadWake, ReadInterrupt, ReadEof, ReadNothing
  <1>29. CASE ReadTake
    <2>1. recv' \in Seq(Nat) /\ rx_fifo' \in Seq(Nat)
      BY <1>29, Take
    <2> QED
      BY <1>29, <2>1 DEF ReadTake
  <1>exit. CASE ExitTty \/ ExitWire \/ ExitNotifier \/ ExitTimer \/ ExitWork
               \/ ExitWait \/ ExitDevice
    BY <1>exit
    DEF ExitTty, ExitWire, ExitNotifier, ExitTimer, ExitWork, ExitWait,
       ExitDevice
  <1>30. CASE UNCHANGED vars
    BY <1>30 DEF vars
  <1> QED
    BY <1>1, <1>2, <1>3, <1>4, <1>5, <1>6, <1>7, <1>8, <1>9, <1>10, <1>11,
       <1>12, <1>13, <1>14, <1>15, <1>16, <1>17, <1>18, <1>19, <1>20, <1>21,
       <1>22, <1>23, <1>24, <1>25, <1>26, <1>27, <1>28, <1>29, <1>30, <1>exit
    DEF Next, Writer, Work, Port, Shutdown, Ctl, Notifier, Sysfs, Wire, Read,
       Exit

\* The kfifos live as long as the port and are never overfull.
LEMMA NextLive ==
    PcsOK /\ DataOK /\ FifosLive /\ BurstInv /\ [Next]_vars => FifosLive'
  <1> SUFFICES ASSUME PcsOK, DataOK, FifosLive, BurstInv,
                      [Next]_vars
               PROVE  FifosLive'
    OBVIOUS
  <1> USE BufAssumption, BurstAssumption, BoundAssumption
      DEF PcsOK, DataOK, FifosLive, TxLen, RxSlots, ShutdownPcs, busVars, portVars, writerVars, attrVars,
          txVars, engineVars, rxVars, wireVars, statVars
  <1>1. CASE WriteGate \/ WriteFull \/ WriteArm
    BY <1>1 DEF WriteGate, WriteFull, WriteArm
  <1>2. CASE WriteCheckBus
    BY <1>2 DEF WriteCheckBus
  <1>3. CASE WriteEnqueue
    BY <1>3 DEF WriteEnqueue, TxRoom, MinOf
  <1>4. CASE TimerExpire
    BY <1>4 DEF TimerExpire
  <1>5. CASE WorkCount \/ WorkGate \/ WorkDrop \/ WorkRearm
    BY <1>5 DEF WorkCount, WorkGate, WorkDrop, WorkRearm
  <1>6. CASE WorkDequeue
    BY <1>6 DEF WorkDequeue, MinOf
  <1>7. CASE WorkDeliver
    <2>1. PICK n \in 0..BurstLen :
             n <= RxRoom /\ Len(rx_fifo') = Len(rx_fifo) + n
      BY <1>7, Deliver
    <2>2. BurstLen \in Nat /\ Len(rx_fifo) \in Nat
      BY BurstLenType
    <2>3. Len(rx_fifo') <= RxSlots'
      BY <1>7, <2>1, <2>2 DEF WorkDeliver, RxRoom
    <2> QED
      BY <1>7, <2>3 DEF WorkDeliver
  <1>8. CASE PortActivate
    BY <1>8 DEF PortActivate
  <1>9. CASE PortAlloc
    BY <1>9 DEF PortAlloc
  <1>10. CASE PortAllocFail
    BY <1>10 DEF PortAllocFail
  <1>11. CASE PortClose
    BY <1>11 DEF PortClose
  <1>12. CASE PortHangup
    BY <1>12 DEF PortHangup
  <1>13. CASE PortHungUp
    BY <1>13 DEF PortHungUp
  <1>14. CASE ShutdownTimer \/ ShutdownWork \/ ShutdownWait
    BY <1>14 DEF ShutdownTimer, ShutdownWork, ShutdownWait
  <1>15. CASE ShutdownAccount
    BY <1>15 DEF ShutdownAccount
  <1>16. CASE ShutdownFreeTx
    BY <1>16 DEF ShutdownFreeTx
  <1>17. CASE ShutdownFreeRx
    BY <1>17 DEF ShutdownFreeRx
  <1>18. CASE BusSetDown \/ BusSetUp \/ BusReset \/ NotifyTimer \/ NotifyWork
               \/ NotifyWait \/ NotifyAttrs \/ NotifyStats \/ NotifySignal
               \/ NotifyHangup \/ BusResetUp
    BY <1>18, SMTT(30)
    DEF BusSetDown, BusSetUp, BusReset, NotifyTimer, NotifyWork, NotifyWait,
       NotifyAttrs, NotifyStats, NotifySignal, NotifyHangup, BusResetUp
  <1>19. CASE NotifyFlushDown
    BY <1>19 DEF NotifyFlushDown
  <1>20. CASE NotifyFlushReset
    BY <1>20 DEF NotifyFlushReset
  <1>21. CASE EnabledStore \/ DropRateStore \/ BufSzCheck \/ BufSzCommit
               \/ StatsReset
    BY <1>21, SMTT(30)
    DEF EnabledStore, DropRateStore, BufSzCheck, BufSzCommit, StatsReset
  <1>22. CASE WireOpen \/ WireOpened \/ WireReleased
    BY <1>22 DEF WireOpen, WireOpened, WireReleased
  <1>23. CASE WireRelease
    BY <1>23 DEF WireRelease
  <1>24. CASE WireWrite
    BY <1>24 DEF WireWrite
  <1>25. CASE ReadBegin \/ ReadWake \/ ReadInterrupt \/ ReadEof \/ ReadNothing
    BY <1>25 DEF ReadBegin, ReadWake, ReadInterrupt, ReadEof, ReadNothing
  <1>26. CASE ReadTake
    <2>1. PICK k \in 1..Len(rx_fifo) : Len(rx_fifo') = Len(rx_fifo) - k
      BY <1>26, Take
    <2>2. Len(rx_fifo') <= RxSlots'
      BY <1>26, <2>1 DEF ReadTake
    <2> QED
      BY <1>26, <2>2 DEF ReadTake
  <1>exit. CASE ExitTty \/ ExitWire \/ ExitNotifier \/ ExitTimer \/ ExitWork
               \/ ExitWait \/ ExitDevice
    BY <1>exit
    DEF ExitTty, ExitWire, ExitNotifier, ExitTimer, ExitWork, ExitWait,
       ExitDevice
  <1>27. CASE UNCHANGED vars
    BY <1>27 DEF vars
  <1> QED
    BY <1>1, <1>2, <1>3, <1>4, <1>5, <1>6, <1>7, <1>8, <1>9, <1>10, <1>11,
       <1>12, <1>13, <1>14, <1>15, <1>16, <1>17, <1>18, <1>19, <1>20, <1>21,
       <1>22, <1>23, <1>24, <1>25, <1>26, <1>27, <1>exit
    DEF Next, Writer, Work, Port, Shutdown, Ctl, Notifier, Sysfs, Wire, Read,
       Exit

\* tx_work holds bytes between B1 and B5, and only then.
LEMMA NextBurst == DataOK /\ BurstInv /\ [Next]_vars => BurstInv'
  <1> SUFFICES ASSUME DataOK, BurstInv,
                      [Next]_vars
               PROVE  BurstInv'
    OBVIOUS
  <1> USE BurstAssumption, BoundAssumption
      DEF DataOK, BurstInv, BurstPcs, busVars, portVars, writerVars, attrVars,
          txVars, engineVars, rxVars, wireVars, statVars
  <1>1. CASE WriteCheckBus \/ WriteGate \/ WriteFull \/ WriteArm
    BY <1>1 DEF WriteCheckBus, WriteGate, WriteFull, WriteArm
  <1>2. CASE WriteEnqueue
    BY <1>2 DEF WriteEnqueue, TxRoom, TxLen, MinOf
  <1>3. CASE TimerExpire
    BY <1>3 DEF TimerExpire
  <1>4. CASE WorkDequeue
    BY <1>4 DEF WorkDequeue, MinOf, TxLen
  <1>5. CASE WorkCount
    BY <1>5 DEF WorkCount
  <1>6. CASE WorkGate
    BY <1>6 DEF WorkGate
  <1>7. CASE WorkDrop
    BY <1>7 DEF WorkDrop
  <1>8. CASE WorkDeliver
    BY <1>8 DEF WorkDeliver
  <1>9. CASE WorkRearm
    BY <1>9 DEF WorkRearm
  <1>10. CASE PortActivate \/ PortAllocFail \/ PortClose \/ PortHangup
               \/ PortHungUp
    BY <1>10
    DEF PortActivate, PortAllocFail, PortClose, PortHangup, PortHungUp
  <1>11. CASE PortAlloc
    BY <1>11 DEF PortAlloc
  <1>12. CASE ShutdownTimer \/ ShutdownWork \/ ShutdownWait \/ ShutdownAccount
               \/ ShutdownFreeRx
    BY <1>12
    DEF ShutdownTimer, ShutdownWork, ShutdownWait, ShutdownAccount,
       ShutdownFreeRx
  <1>13. CASE ShutdownFreeTx
    BY <1>13 DEF ShutdownFreeTx
  <1>14. CASE BusSetDown \/ BusSetUp \/ BusReset \/ NotifyTimer \/ NotifyWork
               \/ NotifyWait \/ NotifyAttrs \/ NotifyStats \/ NotifySignal
               \/ NotifyHangup \/ BusResetUp
    BY <1>14
    DEF BusSetDown, BusSetUp, BusReset, NotifyTimer, NotifyWork, NotifyWait,
       NotifyAttrs, NotifyStats, NotifySignal, NotifyHangup, BusResetUp
  <1>15. CASE NotifyFlushDown
    BY <1>15 DEF NotifyFlushDown
  <1>16. CASE NotifyFlushReset
    BY <1>16 DEF NotifyFlushReset
  <1>17. CASE EnabledStore \/ DropRateStore \/ BufSzCheck \/ BufSzCommit
               \/ StatsReset
    BY <1>17
    DEF EnabledStore, DropRateStore, BufSzCheck, BufSzCommit, StatsReset
  <1>18. CASE WireOpen \/ WireOpened \/ WireRelease \/ WireReleased
               \/ WireWrite
    BY <1>18 DEF WireOpen, WireOpened, WireRelease, WireReleased, WireWrite
  <1>19. CASE ReadBegin \/ ReadWake \/ ReadInterrupt \/ ReadEof \/ ReadNothing
               \/ ReadTake
    BY <1>19
    DEF ReadBegin, ReadWake, ReadInterrupt, ReadEof, ReadNothing, ReadTake
  <1>exit. CASE ExitTty \/ ExitWire \/ ExitNotifier \/ ExitTimer \/ ExitWork
               \/ ExitWait \/ ExitDevice
    BY <1>exit
    DEF ExitTty, ExitWire, ExitNotifier, ExitTimer, ExitWork, ExitWait,
       ExitDevice
  <1>20. CASE UNCHANGED vars
    BY <1>20 DEF vars
  <1> QED
    BY <1>1, <1>2, <1>3, <1>4, <1>5, <1>6, <1>7, <1>8, <1>9, <1>10, <1>11,
       <1>12, <1>13, <1>14, <1>15, <1>16, <1>17, <1>18, <1>19, <1>20, <1>exit
    DEF Next, Writer, Work, Port, Shutdown, Ctl, Notifier, Sysfs, Wire, Read,
       Exit

\* The three hold together.
LEMMA NextType == TypeInv /\ [Next]_vars => TypeInv'
  BY NextPcs, NextFlags, NextData, NextLive, NextBurst DEF TypeInv, TypeOK

\* The inductive core is an invariant of the driver.
LEMMA TypeInvariance == Spec => []TypeInv
  BY InitType, NextType, PTL DEF Spec

\* Every variable of the driver keeps its type: no counter and no fifo length
\* goes negative, and no byte leaves tx_fifo before it entered.
THEOREM TypeCorrect == Spec => []TypeOK
  BY TypeInvariance, PTL DEF TypeInv

\* port_active promises a live rx_fifo and an open port a live tx_fifo, at
\* every step of port_activate() and port_shutdown(), and no kfifo overflows.
THEOREM FifosLiveCorrect == Spec => []FifosLive
  BY TypeInvariance, PTL DEF TypeInv

-----------------------------------------------------------------------------
(* rmmod *)

\* What virtrtlab_uart_exit() has put an end to stays ended.
LEMMA NextExit == TypeInv /\ ExitInv /\ [Next]_vars => ExitInv'
  <1> SUFFICES ASSUME TypeInv, ExitInv,
                      [Next]_vars
               PROVE  ExitInv'
    OBVIOUS
  <1>live. /\ exit # "live" => writer = "idle" /\ ~(TxLen > 0)
           /\ writer # "idle" => port # "closed"
    BY BoundAssumption
    DEF TypeInv, TypeOK, DataOK, FifosLive, ShutdownPcs, ExitInv, TxLen
  <1> USE <1>live
      DEF ExitInv, Notified, busVars, portVars, writerVars, attrVars, txVars,
          engineVars, rxVars, wireVars, statVars
  <1>1. CASE WriteCheckBus \/ WriteGate \/ WriteEnqueue \/ WriteFull
    BY <1>1 DEF WriteCheckBus, WriteGate, WriteEnqueue, WriteFull
  <1>2. CASE WriteArm
    BY <1>2, Zenon DEF WriteArm
  <1>3. CASE TimerExpire
    BY <1>3, Zenon DEF TimerExpire, Cancelling
  <1>4. CASE WorkDequeue
    BY <1>4 DEF WorkDequeue
  <1>5. CASE WorkCount \/ WorkGate \/ WorkDrop \/ WorkDeliver
    BY <1>5 DEF WorkCount, WorkGate, WorkDrop, WorkDeliver
  <1>6. CASE WorkRearm
    BY <1>6, Zenon DEF WorkRearm
  <1>7. CASE PortActivate \/ PortAlloc \/ PortAllocFail \/ PortClose
               \/ PortHangup \/ PortHungUp
    BY <1>7
    DEF PortActivate, PortAlloc, PortAllocFail, PortClose, PortHangup,
       PortHungUp
  <1>8. CASE ShutdownTimer \/ ShutdownWork \/ ShutdownWait \/ ShutdownAccount
               \/ ShutdownFreeTx \/ ShutdownFreeRx
    BY <1>8
    DEF ShutdownTimer, ShutdownWork, ShutdownWait, ShutdownAccount,
       ShutdownFreeTx, ShutdownFreeRx
  <1>9. CASE BusSetDown \/ BusSetUp \/ BusReset \/ NotifyTimer \/ NotifyWork
               \/ NotifyWait \/ NotifyFlushDown \/ NotifyFlushReset
               \/ NotifyAttrs \/ NotifyStats \/ NotifySignal \/ NotifyHangup
               \/ BusResetUp
    BY <1>9
    DEF BusSetDown, BusSetUp, BusReset, NotifyTimer, NotifyWork, NotifyWait,
       NotifyFlushDown, NotifyFlushReset, NotifyAttrs, NotifyStats,
       NotifySignal, NotifyHangup, BusResetUp
  <1>10. CASE EnabledStore \/ DropRateStore \/ BufSzCheck \/ BufSzCommit
               \/ StatsReset
    BY <1>10
    DEF EnabledStore, DropRateStore, BufSzCheck, BufSzCommit, StatsReset
  <1>11. CASE WireOpen \/ WireOpened \/ WireRelease \/ WireReleased
               \/ WireWrite
    BY <1>11 DEF WireOpen, WireOpened, WireRelease, WireReleased, WireWrite
  <1>12. CASE ReadBegin \/ ReadWake \/ ReadInterrupt \/ ReadEof \/ ReadNothing
               \/ ReadTake
    BY <1>12
    DEF ReadBegin, ReadWake, ReadInterrupt, ReadEof, ReadNothing, ReadTake
  <1>13. CASE ExitTty \/ ExitWire \/ ExitNotifier \/ ExitTimer \/ ExitWork
               \/ ExitWait \/ ExitDevice
    BY <1>13
    DEF ExitTty, ExitWire, ExitNotifier, ExitTimer, ExitWork, ExitWait,
       ExitDevice
  <1>14. CASE UNCHANGED vars
    BY <1>14 DEF vars
  <1> QED
    BY <1>1, <1>2, <1>3, <1>4, <1>5, <1>6, <1>7, <1>8, <1>9, <1>10, <1>11,
       <1>12, <1>13, <1>14
    DEF Next, Writer, Work, Port, Shutdown, Ctl, Notifier, Sysfs, Wire, Read,
       Exit

\* What the exit has ended, from insmod on.
LEMMA ExitInvariance == Spec => []ExitInv
  <1>1. Init => ExitInv
    BY DEF Init, ExitInv
  <1> QED
    BY <1>1, TypeInvariance, NextExit, PTL DEF Spec

\* Nothing runs on a device that virtrtlab_uart_exit() has freed, although
\* tx_work may re-arm the timer and shutdown() may leave it armed.
THEOREM FreedIsQuietCorrect == Spec => []FreedIsQuiet
  <1>1. TypeInv /\ ExitInv => FreedIsQuiet
    BY DEF TypeInv, FifosLive, ShutdownPcs, ExitInv, FreedIsQuiet
  <1> QED
    BY <1>1, TypeInvariance, ExitInvariance, PTL

-----------------------------------------------------------------------------
(* No byte is stranded in tx_fifo. *)

\* Each step that disarms the timer or unqueues tx_work hands the bytes over.
LEMMA NextStranded ==
    TypeInv /\ ExitInv /\ NoStrandedBytes /\ [Next]_vars => NoStrandedBytes'
  <1> SUFFICES ASSUME TypeInv, ExitInv, NoStrandedBytes,
                      [Next]_vars
               PROVE  NoStrandedBytes'
    OBVIOUS
  <1> USE BurstAssumption, BoundAssumption
      DEF TypeInv, TypeOK, PcsOK, DataOK, FifosLive, ShutdownPcs, BurstPcs,
          NoStrandedBytes, TxLen, busVars, portVars, writerVars, attrVars,
          txVars, engineVars, rxVars, wireVars, statVars
  <1>1. CASE WriteCheckBus \/ WriteGate \/ WriteFull
    BY <1>1 DEF WriteCheckBus, WriteGate, WriteFull
  <1>2. CASE WriteEnqueue
    BY <1>2 DEF WriteEnqueue, TxRoom, MinOf
  <1>3. CASE WriteArm
    BY <1>3 DEF WriteArm
  <1>4. CASE TimerExpire
    BY <1>4 DEF TimerExpire, Cancelling, ExitInv
  <1>5. CASE WorkCount \/ WorkGate \/ WorkDrop \/ WorkDeliver
    BY <1>5 DEF WorkCount, WorkGate, WorkDrop, WorkDeliver
  <1>6. CASE WorkDequeue
    BY <1>6 DEF WorkDequeue, MinOf
  <1>7. CASE WorkRearm
    BY <1>7 DEF WorkRearm
  <1>8. CASE PortActivate \/ PortAllocFail \/ PortClose \/ PortHangup
               \/ PortHungUp
    BY <1>8 DEF PortActivate, PortAllocFail, PortClose, PortHangup, PortHungUp
  <1>9. CASE PortAlloc
    BY <1>9 DEF PortAlloc
  <1>10. CASE ShutdownTimer
    BY <1>10 DEF ShutdownTimer
  <1>11. CASE ShutdownWork
    BY <1>11 DEF ShutdownWork
  <1>12. CASE ShutdownWait
    BY <1>12 DEF ShutdownWait
  <1>13. CASE ShutdownAccount
    BY <1>13 DEF ShutdownAccount
  <1>14. CASE ShutdownFreeTx
    BY <1>14 DEF ShutdownFreeTx
  <1>15. CASE ShutdownFreeRx
    BY <1>15 DEF ShutdownFreeRx
  <1>16. CASE BusSetDown \/ BusSetUp \/ BusReset \/ NotifyAttrs \/ NotifyStats
               \/ NotifySignal \/ NotifyHangup \/ BusResetUp
    BY <1>16
    DEF BusSetDown, BusSetUp, BusReset, NotifyAttrs, NotifyStats,
       NotifySignal, NotifyHangup, BusResetUp
  <1>17. CASE NotifyTimer
    BY <1>17 DEF NotifyTimer
  <1>18. CASE NotifyWork
    BY <1>18 DEF NotifyWork
  <1>19. CASE NotifyWait
    BY <1>19 DEF NotifyWait
  <1>20. CASE NotifyFlushDown
    BY <1>20 DEF NotifyFlushDown
  <1>21. CASE NotifyFlushReset
    BY <1>21 DEF NotifyFlushReset
  <1>22. CASE EnabledStore \/ DropRateStore \/ BufSzCheck \/ BufSzCommit
               \/ StatsReset
    BY <1>22
    DEF EnabledStore, DropRateStore, BufSzCheck, BufSzCommit, StatsReset
  <1>23. CASE WireOpen \/ WireOpened \/ WireRelease \/ WireReleased
               \/ WireWrite
    BY <1>23 DEF WireOpen, WireOpened, WireRelease, WireReleased, WireWrite
  <1>24. CASE ReadBegin \/ ReadWake \/ ReadInterrupt \/ ReadEof \/ ReadNothing
               \/ ReadTake
    BY <1>24
    DEF ReadBegin, ReadWake, ReadInterrupt, ReadEof, ReadNothing, ReadTake
  <1>exit. CASE ExitTty \/ ExitWire \/ ExitNotifier \/ ExitTimer \/ ExitWork
               \/ ExitWait \/ ExitDevice
    <2>1. TxLen' = TxLen /\ ~(TxLen > 0)
      BY <1>exit
      DEF ExitInv, ExitTty, ExitWire, ExitNotifier, ExitTimer, ExitWork,
          ExitWait, ExitDevice
    <2> QED
      BY <2>1
  <1>25. CASE UNCHANGED vars
    BY <1>25 DEF vars
  <1> QED
    BY <1>1, <1>2, <1>3, <1>4, <1>5, <1>6, <1>7, <1>8, <1>9, <1>10, <1>11,
       <1>12, <1>13, <1>14, <1>15, <1>16, <1>17, <1>18, <1>19, <1>20, <1>21,
       <1>22, <1>23, <1>24, <1>25, <1>exit
    DEF Next, Writer, Work, Port, Shutdown, Ctl, Notifier, Sysfs, Wire, Read,
       Exit

\* While tx_fifo holds a byte, something is on its way to take it out: a lost
\* wake-up of tx_work is impossible.
THEOREM NoStrandedCorrect == Spec => []NoStrandedBytes
  <1>1. Init => NoStrandedBytes
    BY DEF Init, NoStrandedBytes, TxLen
  <1> QED
    BY <1>1, TypeInvariance, ExitInvariance, NextStranded, PTL DEF Spec

-----------------------------------------------------------------------------
(* No byte is lost silently. *)

\* The ledger is kept: what leaves one place arrives in another, is counted or
\* is written off; and tx_fifo does not grow while shutdown() is freeing it.
LedgerKept ==
    /\ Accounted' + BurstLen' + TxLen' - sent'
          = Accounted + BurstLen + TxLen - sent
    /\ port' = "freetx" => port = "freetx" /\ TxLen' <= TxLen

\* A step that moves no byte keeps it.
LEMMA Untouched ==
    ASSUME TypeInv,
           UNCHANGED <<sent, taken, burst, recv, rx_fifo, stat, written_off>>,
           port' = "freetx" => port = "freetx"
    PROVE  LedgerKept
  <1>1. TxLen \in Nat /\ BurstLen \in Nat /\ Accounted \in Int /\ sent \in Nat
    BY Amounts
  <1>2. TxLen' = TxLen /\ BurstLen' = BurstLen /\ Accounted' = Accounted
    BY DEF TxLen, BurstLen, Accounted
  <1> QED
    BY <1>1, <1>2 DEF LedgerKept

\* Every step keeps the ledger but the two with which shutdown() first counts
\* the bytes in tx_fifo and then frees them.
LEMMA NextLedger ==
    ASSUME TypeInv, [Next]_vars, ~ShutdownAccount, ~ShutdownFreeTx
    PROVE  LedgerKept
  <1>amounts. /\ sent \in Nat /\ taken \in Nat /\ tx_cap \in Nat
              /\ TxLen \in Nat /\ BurstLen \in Nat /\ Accounted \in Int
              /\ Len(recv) \in Nat /\ Len(rx_fifo) \in Nat
              /\ stat.drops \in Nat /\ stat.overruns \in Nat
              /\ written_off \in Int /\ stat \in Stats
    BY Amounts
  <1> USE <1>amounts DEF busVars, portVars, writerVars, attrVars,
          txVars, engineVars, rxVars, wireVars, statVars
  <1>1. CASE WriteCheckBus \/ WriteGate \/ WriteFull \/ WriteArm
    BY <1>1, Untouched
    DEF WriteCheckBus, WriteGate, WriteFull, WriteArm
  <1>2. CASE WriteEnqueue
    <2>1. PICK n \in Nat : sent' = sent + n
      BY <1>2, BoundAssumption DEF WriteEnqueue, TxRoom, MinOf
    <2>2. Accounted' = Accounted /\ BurstLen' = BurstLen
      BY <1>2 DEF WriteEnqueue, Accounted, BurstLen
    <2>4. TxLen' = TxLen + n
      BY <1>2, <2>1 DEF WriteEnqueue, TxLen
    <2>3. port' = port /\ port # "freetx"
      BY <1>2 DEF WriteEnqueue, TypeInv, FifosLive
    <2> QED
      BY <1>2, <2>1, <2>2, <2>3, <2>4 DEF LedgerKept
  <1>3. CASE TimerExpire
    BY <1>3, Untouched
    DEF TimerExpire
  <1>4. CASE WorkGate \/ WorkRearm
    BY <1>4, Untouched
    DEF WorkGate, WorkRearm
  <1>5. CASE WorkDequeue
    <2>1. BurstLen = 0
      BY <1>5 DEF WorkDequeue, TypeInv, BurstInv, BurstPcs, BurstLen
    <2>2. PICK n \in Nat : BurstLen' = n /\ TxLen' = TxLen - n
      BY <1>5, <2>1, BurstAssumption DEF WorkDequeue, BurstLen, TxLen, MinOf
    <2>3. Accounted' = Accounted /\ sent' = sent /\ port' = port
      BY <1>5 DEF WorkDequeue, Accounted
    <2> QED
      BY <1>5, <2>1, <2>2, <2>3 DEF LedgerKept
  <1>6. CASE WorkCount
    <2>0. stat'.drops = stat.drops /\ stat'.overruns = stat.overruns
      BY <1>6, Counted DEF WorkCount
    <2>1. Accounted' = Accounted
      BY <1>6, <2>0 DEF WorkCount, Accounted
    <2>2. /\ BurstLen' = BurstLen /\ TxLen' = TxLen
          /\ sent' = sent /\ port' = port
      BY <1>6 DEF WorkCount, BurstLen, TxLen
    <2> QED
      BY <1>6, <2>1, <2>2 DEF LedgerKept
  <1>7. CASE WorkDrop
    <2>0. stat'.drops = stat.drops + BurstLen /\ stat'.overruns = stat.overruns
      BY <1>7, Counted DEF WorkDrop
    <2>1. Accounted' = Accounted + BurstLen
      BY <1>7, <2>0 DEF WorkDrop, Accounted
    <2>2. /\ BurstLen' = 0 /\ TxLen' = TxLen
          /\ sent' = sent /\ port' = port
      BY <1>7 DEF WorkDrop, BurstLen, TxLen
    <2> QED
      BY <1>7, <2>1, <2>2 DEF LedgerKept
  <1>8. CASE WorkDeliver
    <2>1. PICK n \in 0..BurstLen :
             /\ Len(rx_fifo') = Len(rx_fifo) + n
             /\ stat' = Count("overruns", BurstLen - n)
      BY <1>8, Deliver DEF TypeInv, TypeOK
    <2>2. BurstLen - n \in Nat
      OBVIOUS
    <2>3. stat'.drops = stat.drops /\ stat'.overruns = stat.overruns + (BurstLen - n)
      BY <2>1, <2>2, Counted
    <2>4. Accounted' = Accounted + BurstLen
      BY <1>8, <2>1, <2>3, SMTT(30) DEF WorkDeliver, Accounted
    <2>5. BurstLen' = 0 /\ TxLen' = TxLen /\ sent' = sent /\ port' = port
      BY <1>8 DEF WorkDeliver, BurstLen, TxLen
    <2> QED
      BY <1>8, <2>4, <2>5 DEF LedgerKept
  <1>9. CASE PortActivate
    <2>1. Accounted' = Accounted
      BY <1>9 DEF PortActivate, Accounted
    <2>2. /\ BurstLen' = BurstLen /\ TxLen' = TxLen
          /\ sent' = sent /\ port' # "freetx"
      BY <1>9 DEF PortActivate, BurstLen, TxLen
    <2> QED
      BY <1>9, <2>1, <2>2 DEF LedgerKept
  <1>10. CASE PortAlloc
    <2>0. Len(rx_fifo') = 0
      BY <1>10, EmptySeq DEF PortAlloc
    <2>1. Accounted' = Accounted
      BY <1>10, <2>0 DEF PortAlloc, Accounted
    <2>2. /\ BurstLen' = BurstLen /\ TxLen' = TxLen
          /\ sent' = sent /\ port' = "open"
      BY <1>10 DEF PortAlloc, BurstLen, TxLen, TypeInv, FifosLive, ShutdownPcs
    <2> QED
      BY <1>10, <2>1, <2>2 DEF LedgerKept
  <1>11. CASE PortAllocFail
    <2>1. CASE rx_fifo' = rx_fifo
      BY <1>11, <2>1 DEF PortAllocFail, Accounted, BurstLen, TxLen, LedgerKept
    <2>2. CASE rx_fifo' = << >>
      <3>1. Len(rx_fifo') = 0
        BY <2>2, EmptySeq
      <3>2. Accounted' = Accounted
        BY <1>11, <3>1 DEF PortAllocFail, Accounted
      <3>3. /\ BurstLen' = BurstLen /\ TxLen' = TxLen
            /\ sent' = sent /\ port' = "closed"
        BY <1>11 DEF PortAllocFail, BurstLen, TxLen
      <3> QED
        BY <1>11, <3>2, <3>3 DEF LedgerKept
    <2> QED
      BY <1>11, <2>1, <2>2 DEF PortAllocFail
  <1>12. CASE PortClose
    <2>1. Accounted' = Accounted
      BY <1>12 DEF PortClose, Accounted
    <2>2. /\ BurstLen' = BurstLen /\ TxLen' = TxLen
          /\ sent' = sent /\ port' # "freetx"
      BY <1>12 DEF PortClose, BurstLen, TxLen
    <2> QED
      BY <1>12, <2>1, <2>2 DEF LedgerKept
  <1>13. CASE PortHangup
    <2>1. Accounted' = Accounted
      BY <1>13 DEF PortHangup, Accounted
    <2>2. /\ BurstLen' = BurstLen /\ TxLen' = TxLen
          /\ sent' = sent /\ port' # "freetx"
      BY <1>13 DEF PortHangup, BurstLen, TxLen
    <2> QED
      BY <1>13, <2>1, <2>2 DEF LedgerKept
  <1>14. CASE PortHungUp
    <2>1. Accounted' = Accounted
      BY <1>14 DEF PortHungUp, Accounted
    <2>2. /\ BurstLen' = BurstLen /\ TxLen' = TxLen
          /\ sent' = sent /\ port' # "freetx"
      BY <1>14 DEF PortHungUp, BurstLen, TxLen
    <2> QED
      BY <1>14, <2>1, <2>2 DEF LedgerKept
  <1>15. CASE ShutdownTimer \/ ShutdownWork \/ ShutdownWait
    BY <1>15, Untouched
    DEF ShutdownTimer, ShutdownWork, ShutdownWait
  <1>18. CASE ShutdownFreeRx
    <2>0. Len(rx_fifo') = 0
      BY <1>18, EmptySeq DEF ShutdownFreeRx
    <2>1. Accounted' = Accounted
      BY <1>18, <2>0 DEF ShutdownFreeRx, Accounted
    <2>2. /\ BurstLen' = BurstLen /\ TxLen' = TxLen
          /\ sent' = sent /\ port' = "closed"
      BY <1>18 DEF ShutdownFreeRx, BurstLen, TxLen
    <2> QED
      BY <1>18, <2>1, <2>2 DEF LedgerKept
  <1>19. CASE BusSetDown \/ BusSetUp \/ BusReset \/ NotifyTimer \/ NotifyWork
               \/ NotifyWait \/ NotifyAttrs \/ NotifySignal \/ NotifyHangup
               \/ BusResetUp
    BY <1>19, Untouched
    DEF BusSetDown, BusSetUp, BusReset, NotifyTimer, NotifyWork,
        NotifyWait, NotifyAttrs, NotifySignal, NotifyHangup, BusResetUp
  <1>20. CASE NotifyFlushDown
    <2>0. stat'.drops = stat.drops + TxLen /\ stat'.overruns = stat.overruns
      BY <1>20, Counted DEF NotifyFlushDown
    <2>1. Accounted' = Accounted + TxLen
      BY <1>20, <2>0 DEF NotifyFlushDown, Accounted
    <2>2. /\ BurstLen' = BurstLen /\ TxLen' = 0
          /\ sent' = sent /\ port' = port
      BY <1>20 DEF NotifyFlushDown, BurstLen, TxLen
    <2> QED
      BY <1>20, <2>1, <2>2 DEF LedgerKept
  <1>21. CASE NotifyFlushReset
    <2>1. Accounted' = Accounted + TxLen
      BY <1>21 DEF NotifyFlushReset, Accounted
    <2>2. /\ BurstLen' = BurstLen /\ TxLen' = 0
          /\ sent' = sent /\ port' = port
      BY <1>21 DEF NotifyFlushReset, BurstLen, TxLen
    <2> QED
      BY <1>21, <2>1, <2>2 DEF LedgerKept
  <1>22. CASE NotifyStats
    <2>0. stat'.drops = 0 /\ stat'.overruns = 0
      BY <1>22 DEF NotifyStats, ClearStats, NoBytes
    <2>1. Accounted' = Accounted
      BY <1>22, <2>0 DEF NotifyStats, Accounted, ClearStats
    <2>2. /\ BurstLen' = BurstLen /\ TxLen' = TxLen
          /\ sent' = sent /\ port' = port
      BY <1>22 DEF NotifyStats, BurstLen, TxLen
    <2> QED
      BY <1>22, <2>1, <2>2 DEF LedgerKept
  <1>23. CASE EnabledStore \/ DropRateStore \/ BufSzCheck \/ BufSzCommit
    BY <1>23, Untouched
    DEF EnabledStore, DropRateStore, BufSzCheck, BufSzCommit
  <1>24. CASE StatsReset
    <2>0. stat'.drops = 0 /\ stat'.overruns = 0
      BY <1>24 DEF StatsReset, ClearStats, NoBytes
    <2>1. Accounted' = Accounted
      BY <1>24, <2>0 DEF StatsReset, Accounted, ClearStats
    <2>2. /\ BurstLen' = BurstLen /\ TxLen' = TxLen
          /\ sent' = sent /\ port' = port
      BY <1>24 DEF StatsReset, BurstLen, TxLen
    <2> QED
      BY <1>24, <2>1, <2>2 DEF LedgerKept
  <1>25. CASE WireOpen \/ WireOpened \/ WireReleased
    BY <1>25, Untouched
    DEF WireOpen, WireOpened, WireReleased
  <1>26. CASE WireRelease
    <2>0. Len(rx_fifo') = 0
      BY <1>26, EmptySeq DEF WireRelease
    <2>1. Accounted' = Accounted
      BY <1>26, <2>0 DEF WireRelease, Accounted
    <2>2. /\ BurstLen' = BurstLen /\ TxLen' = TxLen
          /\ sent' = sent /\ port' = port
      BY <1>26 DEF WireRelease, BurstLen, TxLen
    <2> QED
      BY <1>26, <2>1, <2>2 DEF LedgerKept
  <1>27. CASE WireWrite
    <2>1. PICK n \in Nat : /\ stat'.drops = stat.drops
                          /\ stat'.overruns = stat.overruns + n
                          /\ written_off' = written_off - n
      BY <1>27, BoundAssumption DEF WireWrite
    <2>4. recv' = recv /\ rx_fifo' = rx_fifo
      BY <1>27 DEF WireWrite
    <2>2. Accounted' = Accounted
      BY <2>1, <2>4 DEF Accounted
    <2>3. BurstLen' = BurstLen /\ TxLen' = TxLen /\ sent' = sent /\ port' = port
      BY <1>27 DEF WireWrite, BurstLen, TxLen
    <2> QED
      BY <1>27, <2>2, <2>3 DEF LedgerKept
  <1>28. CASE ReadBegin \/ ReadWake \/ ReadInterrupt \/ ReadEof \/ ReadNothing
    BY <1>28, Untouched
    DEF ReadBegin, ReadWake, ReadInterrupt, ReadEof, ReadNothing
  <1>29. CASE ReadTake
    <2>1. PICK k \in 1..Len(rx_fifo) :
             /\ Len(recv') = Len(recv) + k
             /\ Len(rx_fifo') = Len(rx_fifo) - k
      BY <1>29, Take DEF TypeInv, TypeOK
    <2>4. stat' = stat /\ written_off' = written_off
      BY <1>29 DEF ReadTake
    <2>2. Accounted' = Accounted
      BY <2>1, <2>4 DEF Accounted
    <2>3. BurstLen' = BurstLen /\ TxLen' = TxLen /\ sent' = sent /\ port' = port
      BY <1>29 DEF ReadTake, BurstLen, TxLen
    <2> QED
      BY <1>29, <2>2, <2>3 DEF LedgerKept
  <1>exit. CASE ExitTty \/ ExitWire \/ ExitNotifier \/ ExitTimer \/ ExitWork
               \/ ExitWait \/ ExitDevice
    BY <1>exit, Untouched
    DEF ExitTty, ExitWire, ExitNotifier, ExitTimer, ExitWork, ExitWait,
        ExitDevice
  <1>30. CASE UNCHANGED vars
    BY <1>30, Untouched
    DEF vars
  <1> QED
    BY <1>1, <1>2, <1>3, <1>4, <1>5, <1>6, <1>7, <1>8, <1>9, <1>10, <1>11,
       <1>12, <1>13, <1>14, <1>15, <1>18, <1>19, <1>20, <1>21,
       <1>22, <1>23, <1>24, <1>25, <1>26, <1>27, <1>28, <1>29, <1>30, <1>exit
    DEF Next, Writer, Work, Port, Shutdown, Ctl, Notifier, Sysfs, Wire, Read,
       Exit

\* The amounts of the ledger, before and after a step.
AmountsOK ==
    /\ sent \in Nat /\ TxLen \in Nat /\ BurstLen \in Nat /\ Accounted \in Int
    /\ Len(recv) \in Nat /\ Len(rx_fifo) \in Nat
    /\ stat.drops \in Nat /\ stat.overruns \in Nat
    /\ written_off \in Int /\ stat \in Stats

\* They have their types after a step that keeps the types.
LEMMA NextAmounts == TypeInv' => AmountsOK'
  <1>1. TypeInv => AmountsOK
    BY Amounts DEF AmountsOK
  <1> QED
    BY <1>1, PTL

\* Every byte stays in the driver, is read, counted or written off.
LEMMA NextLoss == TypeInv /\ LossInv /\ [Next]_vars => LossInv'
  <1> SUFFICES ASSUME TypeInv, LossInv, [Next]_vars
               PROVE  LossInv'
    OBVIOUS
  <1>amounts. AmountsOK
    BY Amounts DEF AmountsOK
  <1>next. AmountsOK'
    BY NextType, NextAmounts
  <1> USE DEF AmountsOK
  <1>1. CASE ShutdownAccount
    <2>1. stat'.drops = stat.drops + TxLen /\ stat'.overruns = stat.overruns
      BY <1>1, <1>amounts, Counted DEF ShutdownAccount
    <2>2. Accounted' = Accounted + TxLen
      BY <1>1, <1>amounts, <2>1 DEF ShutdownAccount, Accounted, rxVars, wireVars
    <2>3. BurstLen' = BurstLen /\ TxLen' = TxLen /\ sent' = sent
      BY <1>1 DEF ShutdownAccount, BurstLen, TxLen, engineVars, txVars
    <2> QED
      BY <1>amounts, <2>2, <2>3 DEF LossInv, NoSilentLoss
  <1>2. CASE ShutdownFreeTx
    <2>1. Accounted' = Accounted
      BY <1>2 DEF ShutdownFreeTx, Accounted, rxVars, wireVars, statVars
    <2>2. /\ BurstLen' = BurstLen /\ TxLen' = 0 /\ sent' = sent
          /\ port = "freetx" /\ port' = "freerx"
      BY <1>2, <1>amounts DEF ShutdownFreeTx, BurstLen, TxLen, engineVars
    <2> QED
      BY <1>amounts, <2>1, <2>2 DEF LossInv, NoSilentLoss
  <1>3. CASE ~ShutdownAccount /\ ~ShutdownFreeTx
    <2>1. LedgerKept
      BY <1>3, NextLedger
    <2>2. PICK a, b, c, n \in Int :
             a = Accounted' /\ b = BurstLen' /\ c = TxLen' /\ n = sent'
      BY <1>next
    <2>3. /\ a + b + c - n = Accounted + BurstLen + TxLen - sent
          /\ port' = "freetx" => port = "freetx" /\ c <= TxLen
      BY <2>1, <2>2, Zenon DEF LedgerKept
    <2>4. /\ n <= a + b + c
          /\ port' = "freetx" => n <= a + b
      BY <1>amounts, <2>3 DEF LossInv, NoSilentLoss
    <2> QED
      BY <2>2, <2>4, Zenon DEF LossInv, NoSilentLoss
  <1> QED
    BY <1>1, <1>2, <1>3

\* Every byte write() accepted is in the driver, was read, or is accounted for,
\* whatever the interleaving of faults, DOWN, RESET, close and reopen.
THEOREM NoSilentLossCorrect == Spec => []NoSilentLoss
  <1>1. Init => LossInv
    BY EmptySeq DEF Init, LossInv, NoSilentLoss, Accounted, BurstLen, TxLen, NoBytes
  <1>2. LossInv => NoSilentLoss
    BY DEF LossInv
  <1> QED
    BY <1>1, <1>2, TypeInvariance, NextLoss, PTL DEF Spec

\* As long as the port is not shut down, by the last close or by the hangup of
\* a RESET, the ledger is exact: every byte write() accepted is in exactly one
\* place, whatever the interleaving of writes, tx_work, DOWN, reads of the wire,
\* its close and reopen, resizes and cleared counters.
THEOREM ExactLedgerCorrect ==
    ASSUME "close" \notin Env, "reset" \notin Env
    PROVE  Spec => []ExactLedger
  <1> DEFINE NoShutdown == /\ port \in {"closed", "alloc", "open"}
                           /\ hangup = FALSE /\ ctl_op # "reset"
                           /\ ctl \in {"idle", "timer", "work", "wait", "flush"}
  <1>1. Init => NoShutdown /\ ExactLedger
    BY EmptySeq
    DEF Init, ExactLedger, Accounted, BurstLen, TxLen, NoBytes
  <1>2. NoShutdown /\ [Next]_vars => NoShutdown'
    <2> SUFFICES ASSUME NoShutdown, [Next]_vars
                 PROVE  NoShutdown'
      OBVIOUS
    <2> USE DEF busVars, portVars
    <2>1. CASE Writer \/ TimerExpire \/ Work
      BY <2>1
      DEF Writer, WriteCheckBus, WriteGate, WriteEnqueue, WriteFull, WriteArm,
          TimerExpire, Work, WorkDequeue, WorkCount, WorkGate, WorkDrop,
          WorkDeliver, WorkRearm
    <2>2. CASE Port
      BY <2>2
      DEF Port, PortActivate, PortAlloc, PortAllocFail, PortClose, PortHangup,
          PortHungUp, Shutdown, ShutdownTimer, ShutdownWork, ShutdownWait,
          ShutdownAccount, ShutdownFreeTx, ShutdownFreeRx
    <2>3. CASE Ctl
      BY <2>3
      DEF Ctl, BusSetDown, BusSetUp, BusReset, Notifier, NotifyTimer,
          NotifyWork, NotifyWait, NotifyFlushDown, NotifyFlushReset,
          NotifyAttrs, NotifyStats, NotifySignal, NotifyHangup, BusResetUp
    <2>4. CASE Sysfs
      BY <2>4
      DEF Sysfs, EnabledStore, DropRateStore, BufSzCheck, BufSzCommit,
          StatsReset
    <2>5. CASE Wire \/ Read
      BY <2>5
      DEF Wire, WireOpen, WireOpened, WireRelease, WireReleased, WireWrite,
          Read, ReadBegin, ReadWake, ReadInterrupt, ReadTake, ReadEof,
          ReadNothing
    <2>6. CASE Exit
      BY <2>6
      DEF Exit, ExitTty, ExitWire, ExitNotifier, ExitTimer, ExitWork, ExitWait,
          ExitDevice
    <2>7. CASE UNCHANGED vars
      BY <2>7 DEF vars
    <2> QED
      BY <2>1, <2>2, <2>3, <2>4, <2>5, <2>6, <2>7 DEF Next
  <1>3. TypeInv /\ TypeInv' /\ NoShutdown /\ ExactLedger /\ [Next]_vars
           => ExactLedger'
    <2> SUFFICES ASSUME TypeInv, TypeInv', NoShutdown, ExactLedger, [Next]_vars
                 PROVE  ExactLedger'
      OBVIOUS
    <2>1. /\ sent \in Int /\ TxLen \in Int /\ BurstLen \in Int
          /\ Accounted \in Int
      BY Amounts
    <2>2. AmountsOK'
      BY NextAmounts
    <2>3. ~ShutdownAccount /\ ~ShutdownFreeTx
      BY DEF ShutdownAccount, ShutdownFreeTx
    <2>4. LedgerKept
      BY <2>3, NextLedger
    <2>5. PICK a, b, c, n \in Int :
             a = Accounted' /\ b = BurstLen' /\ c = TxLen' /\ n = sent'
      BY <2>2 DEF AmountsOK
    <2>6. a + b + c - n = Accounted + BurstLen + TxLen - sent
      BY <2>4, <2>5, Zenon DEF LedgerKept
    <2>7. n = a + b + c
      BY <2>1, <2>6 DEF ExactLedger
    <2> QED
      BY <2>5, <2>7, Zenon DEF ExactLedger
  <1> QED
    BY <1>1, <1>2, <1>3, TypeInvariance, PTL DEF Spec

-----------------------------------------------------------------------------
(* Bytes are delivered in order, and the driver implements UartChannel. *)

\* Each step keeps rx_fifo and recv in order and below what is still to come.
LEMMA NextOrder == TypeInv /\ OrderInv /\ [Next]_vars => OrderInv'
  <1> SUFFICES ASSUME TypeInv, OrderInv,
                      [Next]_vars
               PROVE  OrderInv'
    OBVIOUS
  <1>types. /\ sent \in Nat /\ taken \in Nat /\ taken <= sent
            /\ burst.lo \in Nat /\ burst.hi \in Nat
            /\ recv \in Seq(Nat) /\ rx_fifo \in Seq(Nat)
            /\ work \in BurstPcs => burst.lo < burst.hi /\ burst.hi <= taken
    BY BoundAssumption DEF TypeInv, TypeOK, DataOK, BurstInv
  <1> USE <1>types
      DEF OrderInv, Floor, BurstPcs, busVars, portVars, writerVars, attrVars,
          txVars, engineVars, rxVars, wireVars, statVars
  <1>1. CASE WriteCheckBus \/ WriteGate \/ WriteFull \/ WriteArm
    BY <1>1 DEF WriteCheckBus, WriteGate, WriteFull, WriteArm
  <1>2. CASE WriteEnqueue
    BY <1>2 DEF WriteEnqueue
  <1>3. CASE TimerExpire
    BY <1>3 DEF TimerExpire
  <1>4. CASE WorkDequeue
    BY <1>4, BurstAssumption, BoundAssumption DEF WorkDequeue, MinOf, TxLen
  <1>5. CASE WorkCount
    BY <1>5 DEF WorkCount
  <1>6. CASE WorkGate
    BY <1>6 DEF WorkGate
  <1>7. CASE WorkDrop
    BY <1>7, SMTT(30) DEF WorkDrop
  <1>8. CASE WorkDeliver
    <2>1. PICK n \in 0..BurstLen :
             /\ rx_fifo' \in Seq(Nat)
             /\ Len(rx_fifo') = Len(rx_fifo) + n
             /\ \A i \in 1..Len(rx_fifo) : rx_fifo'[i] = rx_fifo[i]
             /\ \A i \in 1..n : rx_fifo'[Len(rx_fifo) + i] = burst.lo + i
      BY <1>8, Deliver DEF TypeInv, TypeOK
    <2>2. /\ recv' = recv /\ Floor = burst.lo /\ Floor' = taken
          /\ n \in Nat /\ burst.lo + n <= taken /\ Len(rx_fifo) \in Nat
      BY <1>8, <2>1 DEF WorkDeliver, BurstLen
    <2>3. \A i \in 1..Len(rx_fifo) : rx_fifo[i] \in Nat /\ rx_fifo[i] <= burst.lo
      BY <2>2
    <2>4. /\ Ordered(rx_fifo', Len(rx_fifo) + n)
          /\ \A i \in 1..(Len(rx_fifo) + n) : rx_fifo'[i] <= burst.lo + n
          /\ \A i \in 1..(Len(rx_fifo) + n) :
                i \in 1..Len(rx_fifo) \/ burst.lo < rx_fifo'[i]
      <3>1. Ordered(rx_fifo, Len(rx_fifo))
        OBVIOUS
      <3> QED
        BY <2>1, <2>2, <2>3, <3>1, Extended, Zenon
    <2>5. \A i \in 1..Len(recv) : recv[i] \in Nat /\ recv[i] <= burst.lo
      BY <2>2
    <2>6. \A i \in 1..Len(rx_fifo') : rx_fifo'[i] \in Nat /\ rx_fifo'[i] <= taken
      BY <2>1, <2>2, <2>4, SMTT(30)
    <2>7. \A i \in 1..Len(recv), j \in 1..Len(rx_fifo') : recv[i] < rx_fifo'[j]
      <3> SUFFICES ASSUME NEW i \in 1..Len(recv), NEW j \in 1..Len(rx_fifo')
                   PROVE  recv[i] < rx_fifo'[j]
        OBVIOUS
      <3>1. CASE j \in 1..Len(rx_fifo)
        BY <2>1, <3>1
      <3>2. CASE burst.lo < rx_fifo'[j]
        BY <2>5, <2>6, <3>2, SMTT(30)
      <3> QED
        BY <2>1, <2>4, <3>1, <3>2
    <2>8. \A i \in 1..Len(recv) : recv[i] <= taken
      BY <2>2, <2>5
    <2> QED
      BY <2>1, <2>2, <2>4, <2>6, <2>7, <2>8
  <1>9. CASE WorkRearm
    BY <1>9 DEF WorkRearm
  <1>10. CASE PortActivate \/ PortClose \/ PortHangup \/ PortHungUp
    BY <1>10 DEF PortActivate, PortClose, PortHangup, PortHungUp
  <1>11. CASE PortAlloc
    BY <1>11, EmptySeq DEF PortAlloc, Ordered
  <1>12. CASE PortAllocFail
    BY <1>12, EmptySeq, SMTT(30) DEF PortAllocFail, Ordered
  <1>13. CASE ShutdownTimer \/ ShutdownWork \/ ShutdownWait \/ ShutdownAccount
    BY <1>13 DEF ShutdownTimer, ShutdownWork, ShutdownWait, ShutdownAccount
  <1>14. CASE ShutdownFreeTx
    BY <1>14, SMTT(30) DEF ShutdownFreeTx
  <1>15. CASE ShutdownFreeRx
    BY <1>15, EmptySeq DEF ShutdownFreeRx, Ordered
  <1>16. CASE BusSetDown \/ BusSetUp \/ BusReset \/ NotifyTimer \/ NotifyWork
               \/ NotifyWait \/ NotifyAttrs \/ NotifyStats \/ NotifySignal
               \/ NotifyHangup \/ BusResetUp
    BY <1>16
    DEF BusSetDown, BusSetUp, BusReset, NotifyTimer, NotifyWork, NotifyWait,
       NotifyAttrs, NotifyStats, NotifySignal, NotifyHangup, BusResetUp
  <1>17. CASE NotifyFlushDown
    BY <1>17 DEF NotifyFlushDown
  <1>18. CASE NotifyFlushReset
    BY <1>18 DEF NotifyFlushReset
  <1>19. CASE EnabledStore \/ DropRateStore \/ BufSzCheck \/ BufSzCommit
               \/ StatsReset
    BY <1>19
    DEF EnabledStore, DropRateStore, BufSzCheck, BufSzCommit, StatsReset
  <1>20. CASE WireOpen \/ WireOpened \/ WireReleased \/ WireWrite
    BY <1>20 DEF WireOpen, WireOpened, WireReleased, WireWrite
  <1>21. CASE WireRelease
    BY <1>21, EmptySeq DEF WireRelease, Ordered
  <1>22. CASE ReadBegin \/ ReadWake \/ ReadInterrupt \/ ReadEof \/ ReadNothing
    BY <1>22 DEF ReadBegin, ReadWake, ReadInterrupt, ReadEof, ReadNothing
  <1>23. CASE ReadTake
    <2>1. PICK k \in 1..Len(rx_fifo) :
             /\ recv' \in Seq(Nat) /\ rx_fifo' \in Seq(Nat)
             /\ Len(recv') = Len(recv) + k
             /\ Len(rx_fifo') = Len(rx_fifo) - k
             /\ \A i \in 1..Len(recv) : recv'[i] = recv[i]
             /\ \A i \in 1..k : recv'[Len(recv) + i] = rx_fifo[i]
             /\ \A i \in 1..(Len(rx_fifo) - k) : rx_fifo'[i] = rx_fifo[k + i]
      BY <1>23, Take DEF TypeInv, TypeOK
    <2>2. /\ Floor' = Floor /\ Len(recv) \in Nat /\ Len(rx_fifo) \in Nat
      BY <1>23 DEF ReadTake
    <2>3. Moved(recv, recv', Len(recv), rx_fifo, rx_fifo', Len(rx_fifo), k)
      <3>1. Moves(recv, recv', Len(recv), rx_fifo, rx_fifo', Len(rx_fifo), k)
        BY <2>1, <2>2 DEF Moves
      <3> QED
        BY <3>1, MoveKeepsOrder, Zenon
    <2>4. /\ \A i \in 1..Len(recv') : recv'[i] <= Floor
          /\ \A i \in 1..Len(rx_fifo') : rx_fifo'[i] <= Floor
      BY <2>1, <2>3 DEF Moved
    <2> QED
      BY <2>1, <2>2, <2>3, <2>4 DEF Moved
  <1>exit. CASE ExitTty \/ ExitWire \/ ExitNotifier \/ ExitTimer \/ ExitWork
               \/ ExitWait \/ ExitDevice
    BY <1>exit
    DEF ExitTty, ExitWire, ExitNotifier, ExitTimer, ExitWork, ExitWait,
       ExitDevice
  <1>24. CASE UNCHANGED vars
    BY <1>24 DEF vars
  <1> QED
    BY <1>1, <1>2, <1>3, <1>4, <1>5, <1>6, <1>7, <1>8, <1>9, <1>10, <1>11,
       <1>12, <1>13, <1>14, <1>15, <1>16, <1>17, <1>18, <1>19, <1>20, <1>21,
       <1>22, <1>23, <1>24, <1>exit
    DEF Next, Writer, Work, Port, Shutdown, Ctl, Notifier, Sysfs, Wire, Read,
       Exit

\* What the simulator has read, followed by what it can read next, is in the
\* order in which write() accepted it.
THEOREM InOrderCorrect == Spec => []InOrder
  <1>1. Init => OrderInv
    BY EmptySeq DEF Init, OrderInv, Ordered
  <1>2. TypeInv /\ OrderInv => InOrder
    <2> SUFFICES ASSUME TypeInv, OrderInv
                 PROVE  InOrder
      OBVIOUS
    <2> DEFINE l == Len(recv)
               m == Len(rx_fifo)
               all == recv \o rx_fifo
    <2>1. recv \in Seq(Nat) /\ rx_fifo \in Seq(Nat) /\ l \in Nat /\ m \in Nat
      BY DEF TypeInv, TypeOK, DataOK
    <2>2. \A i \in 1..(l + m) : all[i] = IF i <= l THEN recv[i] ELSE rx_fifo[i - l]
      BY <2>1, ConcatProperties
    <2>3. /\ Ordered(recv, l) /\ Ordered(rx_fifo, m)
          /\ \A i \in 1..l, j \in 1..m : recv[i] < rx_fifo[j]
      BY DEF OrderInv
    <2> HIDE DEF l, m, all
    <2>4. ASSUME NEW i \in 1..(l + m), NEW j \in 1..(l + m), i < j
          PROVE  all[i] < all[j]
      <3>1. CASE j <= l
        <4>1. i \in 1..l /\ j \in 1..l
          BY <2>1, <2>4, <3>1
        <4> QED
          BY <2>1, <2>2, <2>3, <2>4, <4>1 DEF Ordered
      <3>2. CASE i <= l /\ ~(j <= l)
        <4>1. i \in 1..l /\ j - l \in 1..m
          BY <2>1, <2>4, <3>2
        <4> QED
          BY <2>2, <2>3, <3>2, <4>1
      <3>3. CASE ~(i <= l) /\ ~(j <= l)
        <4>1. i - l \in 1..m /\ j - l \in 1..m /\ i - l < j - l
          BY <2>1, <2>4, <3>3
        <4> QED
          BY <2>2, <2>3, <3>3, <4>1 DEF Ordered
      <3>4. ~(i <= l) => ~(j <= l)
        BY <2>1, <2>4
      <3> QED
        BY <3>1, <3>2, <3>3, <3>4
    <2> QED
      BY <2>4 DEF InOrder, Ordered, l, m, all
  <1> QED
    BY <1>1, <1>2, TypeInvariance, NextOrder, PTL DEF Spec

\* Every step but the two that pass a byte on loses bytes in transit, or none.
LEMMA LoseStep ==
    ASSUME TypeInv, [Next]_vars, ~WriteEnqueue, ~ReadTake
    PROVE  sent' = sent /\ recv' = recv /\ Transit' \subseteq Transit
  <1>types. /\ sent \in Nat /\ taken \in Nat /\ taken <= sent
            /\ burst.lo \in Nat /\ burst.hi \in Nat
            /\ recv \in Seq(Nat) /\ rx_fifo \in Seq(Nat)
    BY BoundAssumption DEF TypeInv, TypeOK, DataOK
  <1> USE <1>types
      DEF Transit, TxFifo, BurstPcs, busVars, portVars, writerVars, attrVars,
          txVars, engineVars, rxVars, wireVars, statVars
  <1>1. CASE WriteCheckBus \/ WriteGate \/ WriteFull \/ WriteArm
    BY <1>1 DEF WriteCheckBus, WriteGate, WriteFull, WriteArm
  <1>2. CASE TimerExpire
    BY <1>2 DEF TimerExpire
  <1>3. CASE WorkCount \/ WorkGate \/ WorkRearm
    BY <1>3 DEF WorkCount, WorkGate, WorkRearm
  <1>4. CASE WorkDequeue
    BY <1>4, BurstAssumption DEF WorkDequeue, MinOf, TxLen, TypeInv, BurstInv
  <1>5. CASE WorkDrop
    BY <1>5 DEF WorkDrop
  <1>6. CASE WorkDeliver
    <2>1. PICK n \in 0..BurstLen :
             /\ rx_fifo' \in Seq(Nat)
             /\ Len(rx_fifo') = Len(rx_fifo) + n
             /\ \A i \in 1..Len(rx_fifo) : rx_fifo'[i] = rx_fifo[i]
             /\ \A i \in 1..n : rx_fifo'[Len(rx_fifo) + i] = burst.lo + i
      BY <1>6, Deliver DEF TypeInv, TypeOK
    <2>2. /\ sent' = sent /\ recv' = recv /\ taken' = taken
          /\ burst' = [lo |-> 0, hi |-> 0] /\ n \in Nat /\ n <= burst.hi - burst.lo
      BY <1>6, <2>1 DEF WorkDeliver, BurstLen
    <2>3. ASSUME NEW i \in 1..Len(rx_fifo')
          PROVE  rx_fifo'[i] \in Transit
      <3>1. CASE i \in 1..Len(rx_fifo)
        BY <2>1, <3>1
      <3>2. CASE i \notin 1..Len(rx_fifo)
        <4>1. i - Len(rx_fifo) \in 1..n /\ Len(rx_fifo) + (i - Len(rx_fifo)) = i
          BY <2>1, <2>2, <3>2
        <4>2. rx_fifo'[i] = burst.lo + (i - Len(rx_fifo))
          BY <2>1, <4>1
        <4>3. rx_fifo'[i] \in (burst.lo + 1)..burst.hi
          BY <2>2, <4>1, <4>2
        <4> QED
          BY <4>3
      <3> QED
        BY <3>1, <3>2
    <2>4. (burst'.lo + 1)..burst'.hi = {} /\ TxFifo' = TxFifo
      BY <2>2
    <2> QED
      BY <2>2, <2>3, <2>4
  <1>7. CASE PortActivate \/ PortClose \/ PortHangup \/ PortHungUp
    BY <1>7 DEF PortActivate, PortClose, PortHangup, PortHungUp
  <1>8. CASE PortAlloc
    BY <1>8, EmptySeq DEF PortAlloc
  <1>9. CASE PortAllocFail
    BY <1>9, EmptySeq DEF PortAllocFail
  <1>10. CASE ShutdownTimer \/ ShutdownWork \/ ShutdownWait \/ ShutdownAccount
    BY <1>10 DEF ShutdownTimer, ShutdownWork, ShutdownWait, ShutdownAccount
  <1>11. CASE ShutdownFreeTx
    BY <1>11 DEF ShutdownFreeTx
  <1>12. CASE ShutdownFreeRx
    BY <1>12, EmptySeq DEF ShutdownFreeRx
  <1>13. CASE BusSetDown \/ BusSetUp \/ BusReset \/ NotifyTimer \/ NotifyWork
               \/ NotifyWait \/ NotifyAttrs \/ NotifyStats \/ NotifySignal
               \/ NotifyHangup \/ BusResetUp
    BY <1>13
    DEF BusSetDown, BusSetUp, BusReset, NotifyTimer, NotifyWork, NotifyWait,
       NotifyAttrs, NotifyStats, NotifySignal, NotifyHangup, BusResetUp
  <1>14. CASE NotifyFlushDown
    BY <1>14 DEF NotifyFlushDown
  <1>15. CASE NotifyFlushReset
    BY <1>15 DEF NotifyFlushReset
  <1>16. CASE EnabledStore \/ DropRateStore \/ BufSzCheck \/ BufSzCommit
               \/ StatsReset
    BY <1>16
    DEF EnabledStore, DropRateStore, BufSzCheck, BufSzCommit, StatsReset
  <1>17. CASE WireOpen \/ WireOpened \/ WireReleased \/ WireWrite
    BY <1>17 DEF WireOpen, WireOpened, WireReleased, WireWrite
  <1>18. CASE WireRelease
    BY <1>18, EmptySeq DEF WireRelease
  <1>19. CASE ReadBegin \/ ReadWake \/ ReadInterrupt \/ ReadEof \/ ReadNothing
    BY <1>19 DEF ReadBegin, ReadWake, ReadInterrupt, ReadEof, ReadNothing
  <1>exit. CASE ExitTty \/ ExitWire \/ ExitNotifier \/ ExitTimer \/ ExitWork
               \/ ExitWait \/ ExitDevice
    BY <1>exit
    DEF ExitTty, ExitWire, ExitNotifier, ExitTimer, ExitWork, ExitWait,
       ExitDevice
  <1>20. CASE UNCHANGED vars
    BY <1>20 DEF vars
  <1> QED
    BY <1>1, <1>2, <1>3, <1>4, <1>5, <1>6, <1>7, <1>8, <1>9, <1>10, <1>11,
       <1>12, <1>13, <1>14, <1>15, <1>16, <1>17, <1>18, <1>19, <1>20, <1>exit
    DEF Next, Writer, Work, Port, Shutdown, Ctl, Notifier, Sysfs, Wire, Read,
       Exit

\* An accepted write is a Send of the channel.
LEMMA SendStep ==
    ASSUME TypeInv, WriteEnqueue
    PROVE  Channel!Send
  <1>1. PICK n \in Nat : sent' = sent + n /\ n > 0
    BY BoundAssumption, Amounts DEF WriteEnqueue, TxRoom, MinOf
  <1>2. /\ sent \in Nat /\ taken \in Nat /\ taken <= sent
    BY BoundAssumption DEF TypeInv, TypeOK, DataOK
  <1>3. TxFifo' = TxFifo \cup ((sent + 1)..sent')
    BY <1>1, <1>2 DEF WriteEnqueue, TxFifo
  <1>4. /\ rx_fifo' = rx_fifo /\ burst' = burst /\ recv' = recv
    BY DEF WriteEnqueue, rxVars, engineVars, wireVars
  <1>5. Transit' = Transit \cup ((sent + 1)..sent')
    BY <1>3, <1>4 DEF Transit
  <1> QED
    BY <1>1, <1>2, <1>4, <1>5 DEF Channel!Send

\* A read that returns bytes is a Receive of the channel: what it returns was
\* in transit, is no longer, and comes after everything read before.
LEMMA ReceiveStep ==
    ASSUME TypeInv, OrderInv, OrderInv', ReadTake
    PROVE  Channel!Receive
  <1>1. PICK k \in 1..Len(rx_fifo) :
             /\ recv' \in Seq(Nat) /\ rx_fifo' \in Seq(Nat)
             /\ Len(recv') = Len(recv) + k
             /\ Len(rx_fifo') = Len(rx_fifo) - k
             /\ \A i \in 1..Len(recv) : recv'[i] = recv[i]
             /\ \A i \in 1..k : recv'[Len(recv) + i] = rx_fifo[i]
             /\ \A i \in 1..(Len(rx_fifo) - k) : rx_fifo'[i] = rx_fifo[k + i]
    BY Take DEF TypeInv, TypeOK
  <1> DEFINE l == Len(recv)
             m == Len(rx_fifo)
             new == {recv'[i] : i \in (l + 1)..Len(recv')}
             rest == ((burst.lo + 1)..burst.hi) \cup TxFifo
  <1>2. /\ l \in Nat /\ m \in Nat /\ k \in Nat /\ k <= m
        /\ \A i \in 1..m : rx_fifo[i] \in Nat
    BY DEF TypeInv, TypeOK, DataOK
  <1>3. sent' = sent /\ burst' = burst /\ taken' = taken
    BY DEF ReadTake, txVars, engineVars
  <1>4. \A i \in (l + 1)..Len(recv') : i - l \in 1..k /\ recv'[i] = rx_fifo[i - l]
    <2> SUFFICES ASSUME NEW i \in (l + 1)..Len(recv')
                 PROVE  i - l \in 1..k /\ recv'[i] = rx_fifo[i - l]
      OBVIOUS
    <2>1. i - l \in 1..k /\ l + (i - l) = i
      BY <1>1, <1>2
    <2> QED
      BY <1>1, <2>1
  <1>5. new = {rx_fifo[i] : i \in 1..k}
    <2>1. ASSUME NEW i \in 1..k
          PROVE  l + i \in (l + 1)..Len(recv') /\ recv'[l + i] = rx_fifo[i]
      BY <1>1, <1>2
    <2>2. {rx_fifo[i] : i \in 1..k} \subseteq new
      BY <2>1
    <2>3. new \subseteq {rx_fifo[i] : i \in 1..k}
      BY <1>4
    <2> QED
      BY <2>2, <2>3
  <1>6. {rx_fifo'[i] : i \in 1..Len(rx_fifo')} = {rx_fifo[i] : i \in (k + 1)..m}
    <2>1. ASSUME NEW i \in (k + 1)..m
          PROVE  i - k \in 1..Len(rx_fifo') /\ rx_fifo'[i - k] = rx_fifo[i]
      <3>1. i - k \in 1..(Len(rx_fifo) - k) /\ k + (i - k) = i
        BY <1>2
      <3> QED
        BY <1>1, <3>1
    <2>2. ASSUME NEW i \in 1..Len(rx_fifo')
          PROVE  k + i \in (k + 1)..m /\ rx_fifo'[i] = rx_fifo[k + i]
      BY <1>1, <1>2
    <2> QED
      BY <2>1, <2>2
  <1>7. \A i \in 1..m : rx_fifo[i] \notin rest
    BY <1>2, BoundAssumption, SMTT(30)
    DEF TypeInv, TypeOK, DataOK, BurstInv, OrderInv, Floor, TxFifo
  <1>8. \A i \in 1..k, j \in (k + 1)..m : rx_fifo[i] # rx_fifo[j]
    BY <1>2 DEF OrderInv, Ordered
  <1>9. Transit' = Transit \ new
    <2>1. /\ Transit = {rx_fifo[i] : i \in 1..m} \cup rest
          /\ Transit' = {rx_fifo[i] : i \in (k + 1)..m} \cup rest
      BY <1>3, <1>6 DEF Transit, TxFifo
    <2>2. \A x : x \in {rx_fifo[i] : i \in 1..m} <=>
                   \/ x \in {rx_fifo[i] : i \in 1..k}
                   \/ x \in {rx_fifo[i] : i \in (k + 1)..m}
      BY <1>2
    <2> HIDE DEF new, rest
    <2> QED
      BY <1>2, <1>5, <1>7, <1>8, <2>1, <2>2
  <1>10. \A i \in (l + 1)..Len(recv') : recv'[i] \in Transit
    BY <1>2, <1>4 DEF Transit
  <1>11. \A i \in (l + 1)..Len(recv') : \A j \in 1..(i - 1) : recv'[j] < recv'[i]
    <2>1. Ordered(recv', Len(recv'))
      BY DEF OrderInv
    <2> QED
      BY <1>1, <1>2, <2>1 DEF Ordered
  <1>12. Len(recv') > Len(recv)
    BY <1>1, <1>2
  <1> QED
    BY <1>1, <1>3, <1>9, <1>10, <1>11, <1>12, Zenon DEF Channel!Receive

\* The driver, with all its threads, implements the lossy FIFO channel: bytes
\* are lost, but never invented, duplicated or overtaken.
THEOREM Refinement == Spec => ImplementsChannel
  <1>1. Init => Channel!ChannelInit
    BY EmptySeq DEF Init, Channel!ChannelInit, Transit, TxFifo
  <1>2. TypeInv /\ OrderInv /\ OrderInv' /\ [Next]_vars
           => [Channel!ChannelNext]_(Channel!channelVars)
    BY LoseStep, SendStep, ReceiveStep
    DEF Channel!ChannelNext, Channel!Lose
  <1>3. Init => OrderInv
    BY EmptySeq DEF Init, OrderInv, Ordered
  <1> QED
    BY <1>1, <1>2, <1>3, TypeInvariance, NextOrder, PTL
    DEF Spec, ImplementsChannel, Channel!ChannelSpec

=============================================================================
