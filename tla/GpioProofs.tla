----------------------------- MODULE GpioProofs -----------------------------
(***************************************************************************)
(* Proofs about module Gpio, for every number of injector threads.         *)
(*                                                                         *)
(* The types carry the argument: no thread holds a generation above        *)
(* snap_gen, so a thread whose generation equals snap_gen read the newest  *)
(* snapshot, and committing it can only raise apply_gen.                   *)
(***************************************************************************)
EXTENDS Gpio, TLAPS

\* The state after insmod.
LEMMA InitType == Init => TypeOK
  <1> SUFFICES ASSUME Init PROVE TypeOK
    OBVIOUS
  <1>1. FlagsOK
    BY Zenon DEF Init, FlagsOK
  <1>2. DataOK
    BY DEF Init, DataOK, Threads, Values, NoLocal, NoStats
  <1> QED
    BY <1>1, <1>2 DEF TypeOK

\* Every flag stays a Boolean.
LEMMA NextFlags == FlagsOK /\ [Next]_vars => FlagsOK'
  <1> SUFFICES ASSUME FlagsOK, [Next]_vars
               PROVE  FlagsOK'
    OBVIOUS
  <1> USE DEF FlagsOK, busVars, attrVars, lineVars, snapVars
  <1>1. ASSUME NEW i \in Injectors, Inject(i)
        PROVE  FlagsOK'
    BY <1>1, Zenon
    DEF Inject, InjectBegin, InjectDiscard, InjectDrop, InjectAccept, InjectStart
  <1>2. ASSUME NEW t \in Threads, Apply(t)
        PROVE  FlagsOK'
    BY <1>2, Zenon DEF Apply, ApplyStale, ApplyRead, CommitStale, Commit
  <1>3. CASE TimerExpire
    BY <1>3, Zenon DEF TimerExpire
  <1>4. CASE WorkBegin
    BY <1>4, Zenon DEF WorkBegin
  <1>5. CASE Aut
    BY <1>5, Zenon DEF Aut, DirectionInput, DirectionOutput, SetValue
  <1>6. CASE BusSetState
    BY <1>6, Zenon DEF BusSetState
  <1>7. CASE Reset
    BY <1>7, Zenon DEF Reset, ResetTimer, ResetWork, ResetWait, ResetMark
  <1>8. CASE AttrStore
    BY <1>8, Zenon DEF AttrStore
  <1>9. CASE StatsReset
    BY <1>9, Zenon DEF StatsReset
  <1>10. CASE Exit
    BY <1>10, Zenon
    DEF Exit, ExitTimer, ExitWork, ExitWait, ExitNotifier, ExitDevice
  <1>11. CASE UNCHANGED vars
    BY <1>11, Zenon DEF vars
  <1> QED
    BY <1>1, <1>2, <1>3, <1>4, <1>5, <1>6, <1>7, <1>8, <1>9, <1>10, <1>11
    DEF Next

\* Generations and the rest keep their types.
LEMMA NextData == DataOK /\ [Next]_vars => DataOK'
  <1> SUFFICES ASSUME DataOK, [Next]_vars
               PROVE  DataOK'
    OBVIOUS
  <1> USE ThreadAssumption
      DEF DataOK, Threads, Values, Goto, Return, NoLocal, NoStats, busVars,
          attrVars, lineVars, snapVars
  <1>1. ASSUME NEW i \in Injectors, InjectBegin(i)
        PROVE  DataOK'
    BY <1>1 DEF InjectBegin
  <1>2. ASSUME NEW i \in Injectors, InjectDiscard(i)
        PROVE  DataOK'
    BY <1>2 DEF InjectDiscard
  <1>3. ASSUME NEW i \in Injectors, InjectDrop(i)
        PROVE  DataOK'
    BY <1>3 DEF InjectDrop
  <1>4. ASSUME NEW i \in Injectors, InjectAccept(i)
        PROVE  DataOK'
    BY <1>4 DEF InjectAccept
  <1>5. ASSUME NEW i \in Injectors, InjectStart(i)
        PROVE  DataOK'
    BY <1>5 DEF InjectStart
  <1>6. ASSUME NEW t \in Threads, ApplyStale(t)
        PROVE  DataOK'
    BY <1>6 DEF ApplyStale
  <1>7. ASSUME NEW t \in Threads, ApplyRead(t)
        PROVE  DataOK'
    BY <1>7 DEF ApplyRead
  <1>8. ASSUME NEW t \in Threads, CommitStale(t)
        PROVE  DataOK'
    BY <1>8 DEF CommitStale
  <1>9. ASSUME NEW t \in Threads, Commit(t)
        PROVE  DataOK'
    BY <1>9 DEF Commit, One
  <1>10. CASE TimerExpire
    BY <1>10 DEF TimerExpire
  <1>11. CASE WorkBegin
    BY <1>11 DEF WorkBegin
  <1>12. CASE Aut
    BY <1>12 DEF Aut, DirectionInput, DirectionOutput, SetValue
  <1>13. CASE BusSetState
    BY <1>13 DEF BusSetState
  <1>14. CASE Reset
    BY <1>14 DEF Reset, ResetTimer, ResetWork, ResetWait, ResetMark
  <1>15. CASE AttrStore
    BY <1>15 DEF AttrStore
  <1>16. CASE StatsReset
    BY <1>16 DEF StatsReset
  <1>17. CASE Exit
    BY <1>17
    DEF Exit, ExitTimer, ExitWork, ExitWait, ExitNotifier, ExitDevice
  <1>18. CASE UNCHANGED vars
    BY <1>18 DEF vars
  <1> HIDE DEF DataOK
  <1> QED
    BY <1>1, <1>2, <1>3, <1>4, <1>5, <1>6, <1>7, <1>8, <1>9, <1>10, <1>11,
       <1>12, <1>13, <1>14, <1>15, <1>16, <1>17, <1>18
    DEF Next, Inject, Apply

\* Every variable keeps its type, and nobody knows a generation inject_store()
\* has not issued.
THEOREM TypeCorrect == Spec => []TypeOK
  <1>1. TypeOK /\ [Next]_vars => TypeOK'
    BY NextFlags, NextData DEF TypeOK
  <1> QED
    BY InitType, <1>1, PTL DEF Spec

\* The committed generation never goes back, through every race of line_apply()
\* with new injects, with a RESET and with itself.
THEOREM NeverRegressCorrect == Spec => NeverRegress
  <1>1. TypeOK /\ [Next]_vars => [apply_gen' >= apply_gen]_vars
    <2> SUFFICES ASSUME TypeOK, Next
                 PROVE  apply_gen' >= apply_gen
      OBVIOUS
    <2> USE DEF TypeOK, DataOK, busVars, attrVars, lineVars, snapVars
    <2>0. apply_gen \in Nat /\ snap_gen \in Nat /\ apply_gen <= snap_gen
      OBVIOUS
    <2>1. ASSUME NEW i \in Injectors, Inject(i)
          PROVE  apply_gen' >= apply_gen
      BY <2>0, <2>1
      DEF Inject, InjectBegin, InjectDiscard, InjectDrop, InjectAccept, InjectStart
    <2>2. ASSUME NEW t \in Threads, Apply(t)
          PROVE  apply_gen' >= apply_gen
      BY <2>0, <2>2 DEF Apply, ApplyStale, ApplyRead, CommitStale, Commit
    <2>3. CASE TimerExpire \/ WorkBegin \/ BusSetState \/ AttrStore \/ StatsReset
      BY <2>0, <2>3
      DEF TimerExpire, WorkBegin, BusSetState, AttrStore, StatsReset
    <2>4. CASE Aut
      BY <2>0, <2>4 DEF Aut, DirectionInput, DirectionOutput, SetValue
    <2>5. CASE Reset
      BY <2>0, <2>5 DEF Reset, ResetTimer, ResetWork, ResetWait, ResetMark
    <2>6. CASE Exit
      BY <2>0, <2>6
      DEF Exit, ExitTimer, ExitWork, ExitWait, ExitNotifier, ExitDevice
    <2> QED
      BY <2>1, <2>2, <2>3, <2>4, <2>5, <2>6 DEF Next
  <1> QED
    BY <1>1, TypeCorrect, PTL DEF Spec, NeverRegress

\* While the AUT drives the line, no other thread changes its value or counts a
\* change: line_apply() looks at is_output in the critical section of the commit.
THEOREM AutOwnsOutputCorrect == Spec => AutOwnsOutput
  <1>1. TypeOK /\ [Next]_vars
           => [is_output => /\ value' # value => Aut
                            /\ stat'.value_changes <= stat.value_changes]_vars
    <2> SUFFICES ASSUME TypeOK, Next, is_output
                 PROVE  /\ value' # value => Aut
                        /\ stat'.value_changes <= stat.value_changes
      OBVIOUS
    <2>1. stat.value_changes \in Nat
      BY DEF TypeOK, DataOK
    <2> USE DEF busVars, attrVars, lineVars, snapVars
    <2>2. ASSUME NEW i \in Injectors, Inject(i)
          PROVE  value' = value /\ stat'.value_changes = stat.value_changes
      BY <2>2
      DEF TypeOK, DataOK, Inject, InjectBegin, InjectDiscard, InjectDrop, InjectAccept, InjectStart
    <2>3. ASSUME NEW t \in Threads, Apply(t)
          PROVE  value' = value /\ stat'.value_changes = stat.value_changes
      <3>1. CASE Commit(t)
        <4>1. value' = value
          BY <3>1 DEF Commit
        <4>2. stat'.value_changes = stat.value_changes + One(FALSE)
          BY <3>1, <4>1 DEF Commit
        <4> QED
          BY <2>1, <4>1, <4>2 DEF One
      <3> QED
        BY <2>3, <3>1 DEF Apply, ApplyStale, ApplyRead, CommitStale
    <2>4. ASSUME TimerExpire \/ WorkBegin \/ BusSetState \/ AttrStore \/ StatsReset
          PROVE  value' = value /\ stat' \in {stat, NoStats}
      BY <2>4
      DEF TimerExpire, WorkBegin, BusSetState, AttrStore, StatsReset
    <2>5. ASSUME Aut
          PROVE  stat' = stat
      BY <2>5 DEF Aut, DirectionInput, DirectionOutput, SetValue
    <2>6. ASSUME Reset
          PROVE  value' = value /\ stat' \in {stat, NoStats}
      BY <2>6 DEF Reset, ResetTimer, ResetWork, ResetWait, ResetMark
    <2>7. ASSUME Exit
          PROVE  value' = value /\ stat' = stat
      BY <2>7
      DEF Exit, ExitTimer, ExitWork, ExitWait, ExitNotifier, ExitDevice
    <2>8. /\ value' # value => Aut
          /\ stat'.value_changes \in {stat.value_changes, NoStats.value_changes}
      BY <2>2, <2>3, <2>4, <2>5, <2>6, <2>7 DEF Next
    <2>9. NoStats.value_changes = 0
      BY DEF NoStats
    <2> QED
      BY <2>1, <2>8, <2>9
  <1> QED
    BY <1>1, TypeCorrect, PTL DEF Spec, AutOwnsOutput

\* A thread that is about to commit the newest generation holds its value.
LEMMA NextNewest == TypeOK /\ CommitsNewest /\ [Next]_vars => CommitsNewest'
  <1> SUFFICES ASSUME TypeOK, CommitsNewest, [Next]_vars
               PROVE  CommitsNewest'
    OBVIOUS
  <1> USE ThreadAssumption
      DEF TypeOK, DataOK, CommitsNewest, Threads, Values, Goto, Return, NoLocal,
          busVars, attrVars, lineVars, snapVars
  <1>1. ASSUME NEW i \in Injectors, InjectBegin(i)
        PROVE  CommitsNewest'
    BY <1>1 DEF InjectBegin
  <1>2. ASSUME NEW i \in Injectors, InjectDiscard(i)
        PROVE  CommitsNewest'
    BY <1>2 DEF InjectDiscard
  <1>3. ASSUME NEW i \in Injectors, InjectDrop(i)
        PROVE  CommitsNewest'
    BY <1>3 DEF InjectDrop
  <1>4. ASSUME NEW i \in Injectors, InjectAccept(i)
        PROVE  CommitsNewest'
    BY <1>4 DEF InjectAccept
  <1>5. ASSUME NEW i \in Injectors, InjectStart(i)
        PROVE  CommitsNewest'
    BY <1>5 DEF InjectStart
  <1>6. ASSUME NEW t \in Threads, ApplyStale(t)
        PROVE  CommitsNewest'
    BY <1>6 DEF ApplyStale
  <1>7. ASSUME NEW t \in Threads, ApplyRead(t)
        PROVE  CommitsNewest'
    BY <1>7 DEF ApplyRead
  <1>8. ASSUME NEW t \in Threads, CommitStale(t)
        PROVE  CommitsNewest'
    BY <1>8 DEF CommitStale
  <1>9. ASSUME NEW t \in Threads, Commit(t)
        PROVE  CommitsNewest'
    BY <1>9 DEF Commit
  <1>10. CASE TimerExpire
    BY <1>10 DEF TimerExpire
  <1>11. CASE WorkBegin
    BY <1>11 DEF WorkBegin
  <1>12. CASE Aut
    BY <1>12 DEF Aut, DirectionInput, DirectionOutput, SetValue
  <1>13. CASE BusSetState
    BY <1>13 DEF BusSetState
  <1>14. CASE Reset
    BY <1>14 DEF Reset, ResetTimer, ResetWork, ResetWait, ResetMark
  <1>15. CASE AttrStore
    BY <1>15 DEF AttrStore
  <1>16. CASE StatsReset
    BY <1>16 DEF StatsReset
  <1>17. CASE Exit
    BY <1>17
    DEF Exit, ExitTimer, ExitWork, ExitWait, ExitNotifier, ExitDevice
  <1>18. CASE UNCHANGED vars
    BY <1>18 DEF vars
  <1> HIDE DEF CommitsNewest
  <1> QED
    BY <1>1, <1>2, <1>3, <1>4, <1>5, <1>6, <1>7, <1>8, <1>9, <1>10, <1>11,
       <1>12, <1>13, <1>14, <1>15, <1>16, <1>17, <1>18
    DEF Next, Inject, Apply

\* What line_apply() commits is the newest request, however many threads race
\* for it and however long they sleep between its two critical sections.
THEOREM CommitsNewestCorrect == Spec => []CommitsNewest
  <1>1. Init => CommitsNewest
    BY ThreadAssumption DEF Init, CommitsNewest, Threads
  <1> QED
    BY <1>1, TypeCorrect, NextNewest, PTL DEF Spec

\* A step that ends one way of committing the newest request leaves another.
LEMMA NextRemembered ==
    TypeOK /\ NoForgottenInject /\ [Next]_vars => NoForgottenInject'
  <1> SUFFICES ASSUME TypeOK, NoForgottenInject, [Next]_vars
               PROVE  NoForgottenInject'
    OBVIOUS
  <1> USE ThreadAssumption
      DEF TypeOK, DataOK, NoForgottenInject, Threads, Values, Goto, Return,
          NoLocal, busVars, attrVars, lineVars, snapVars
  <1>1. ASSUME NEW i \in Injectors, InjectBegin(i)
        PROVE  NoForgottenInject'
    BY <1>1 DEF InjectBegin
  <1>2. ASSUME NEW i \in Injectors, InjectDiscard(i)
        PROVE  NoForgottenInject'
    BY <1>2 DEF InjectDiscard
  <1>3. ASSUME NEW i \in Injectors, InjectDrop(i)
        PROVE  NoForgottenInject'
    BY <1>3 DEF InjectDrop
  <1>4. ASSUME NEW i \in Injectors, InjectAccept(i)
        PROVE  NoForgottenInject'
    BY <1>4 DEF InjectAccept
  <1>5. ASSUME NEW i \in Injectors, InjectStart(i)
        PROVE  NoForgottenInject'
    BY <1>5 DEF InjectStart
  <1>6. ASSUME NEW t \in Threads, ApplyStale(t)
        PROVE  NoForgottenInject'
    BY <1>6 DEF ApplyStale
  <1>7. ASSUME NEW t \in Threads, ApplyRead(t)
        PROVE  NoForgottenInject'
    BY <1>7 DEF ApplyRead
  <1>8. ASSUME NEW t \in Threads, CommitStale(t)
        PROVE  NoForgottenInject'
    BY <1>8 DEF CommitStale
  <1>9. ASSUME NEW t \in Threads, Commit(t)
        PROVE  NoForgottenInject'
    BY <1>9 DEF Commit
  <1>10. CASE TimerExpire
    BY <1>10 DEF TimerExpire, Cancelling
  <1>11. CASE WorkBegin
    BY <1>11 DEF WorkBegin
  <1>12. CASE Aut
    BY <1>12 DEF Aut, DirectionInput, DirectionOutput, SetValue
  <1>13. CASE BusSetState
    BY <1>13 DEF BusSetState
  <1>14. CASE Reset
    BY <1>14 DEF Reset, ResetTimer, ResetWork, ResetWait, ResetMark
  <1>15. CASE AttrStore
    BY <1>15 DEF AttrStore
  <1>16. CASE StatsReset
    BY <1>16 DEF StatsReset
  <1>17. CASE Exit
    BY <1>17
    DEF Exit, ExitTimer, ExitWork, ExitWait, ExitNotifier, ExitDevice
  <1>18. CASE UNCHANGED vars
    BY <1>18 DEF vars
  <1> HIDE DEF NoForgottenInject
  <1> QED
    BY <1>1, <1>2, <1>3, <1>4, <1>5, <1>6, <1>7, <1>8, <1>9, <1>10, <1>11,
       <1>12, <1>13, <1>14, <1>15, <1>16, <1>17, <1>18
    DEF Next, Inject, Apply

\* No accepted inject is forgotten, by no interleaving of injectors, timer, work
\* item and RESET.
THEOREM NoForgottenCorrect == Spec => []NoForgottenInject
  <1>1. Init => NoForgottenInject
    BY DEF Init, NoForgottenInject
  <1> QED
    BY <1>1, TypeCorrect, NextRemembered, PTL DEF Spec

-----------------------------------------------------------------------------
(* rmmod *)

\* What virtrtlab_gpio_exit() has put an end to stays ended, but for a late
\* inject.
LEMMA NextExit == TypeOK /\ ExitInv /\ [Next]_vars => ExitInv'
  <1> SUFFICES ASSUME TypeOK, ExitInv, [Next]_vars
               PROVE  ExitInv'
    OBVIOUS
  <1> USE ThreadAssumption
      DEF TypeOK, DataOK, ExitInv, Notified, Threads, Goto, Return, busVars,
          attrVars, lineVars, snapVars
  <1>1. ASSUME NEW i \in Injectors, InjectBegin(i)
        PROVE  ExitInv'
    BY <1>1 DEF InjectBegin
  <1>2. ASSUME NEW i \in Injectors, InjectDiscard(i)
        PROVE  ExitInv'
    BY <1>2 DEF InjectDiscard
  <1>3. ASSUME NEW i \in Injectors, InjectDrop(i)
        PROVE  ExitInv'
    BY <1>3 DEF InjectDrop
  <1>4. ASSUME NEW i \in Injectors, InjectAccept(i)
        PROVE  ExitInv'
    BY <1>4 DEF InjectAccept
  <1>5. ASSUME NEW i \in Injectors, InjectStart(i)
        PROVE  ExitInv'
    BY <1>5 DEF InjectStart
  <1>6. ASSUME NEW t \in Threads, ApplyStale(t)
        PROVE  ExitInv'
    BY <1>6 DEF ApplyStale
  <1>7. ASSUME NEW t \in Threads, ApplyRead(t)
        PROVE  ExitInv'
    BY <1>7 DEF ApplyRead
  <1>8. ASSUME NEW t \in Threads, CommitStale(t)
        PROVE  ExitInv'
    BY <1>8 DEF CommitStale
  <1>9. ASSUME NEW t \in Threads, Commit(t)
        PROVE  ExitInv'
    BY <1>9 DEF Commit
  <1>10. CASE TimerExpire
    BY <1>10 DEF TimerExpire, Cancelling
  <1>11. CASE WorkBegin
    BY <1>11 DEF WorkBegin
  <1>12. CASE Aut
    BY <1>12 DEF Aut, DirectionInput, DirectionOutput, SetValue
  <1>13. CASE BusSetState
    BY <1>13 DEF BusSetState
  <1>14. CASE Reset
    BY <1>14 DEF Reset, ResetTimer, ResetWork, ResetWait, ResetMark
  <1>15. CASE AttrStore
    BY <1>15 DEF AttrStore
  <1>16. CASE StatsReset
    BY <1>16 DEF StatsReset
  <1>17. CASE Exit
    BY <1>17 DEF Exit, ExitTimer, ExitWork, ExitWait, ExitNotifier, ExitDevice
  <1>18. CASE UNCHANGED vars
    BY <1>18 DEF vars
  <1> HIDE DEF ExitInv
  <1> QED
    BY <1>1, <1>2, <1>3, <1>4, <1>5, <1>6, <1>7, <1>8, <1>9, <1>10, <1>11,
       <1>12, <1>13, <1>14, <1>15, <1>16, <1>17, <1>18
    DEF Next, Inject, Apply

\* Only an inject that armed its timer during rmmod can leave anything running
\* on a freed bank, for every number of injector threads.
THEOREM FreedUnlessLateCorrect == Spec => []FreedUnlessLate
  <1>1. Init => ExitInv
    BY DEF Init, ExitInv, Notified
  <1>2. TypeOK /\ ExitInv => FreedUnlessLate
    BY DEF TypeOK, FlagsOK, ExitInv, FreedUnlessLate, Notified
  <1> QED
    BY <1>1, <1>2, TypeCorrect, NextExit, PTL DEF Spec

=============================================================================
