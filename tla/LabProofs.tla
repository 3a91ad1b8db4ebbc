----------------------------- MODULE LabProofs -----------------------------
(***************************************************************************)
(* Proofs about module Lab and the modules it is made of, for every number *)
(* of devices, of threads that write `state', and of processes.            *)
(*                                                                         *)
(* KernelInv is about the kernel's side: what each module has, from how    *)
(* far its init, error path or exit has got (HaveInv, which rests on       *)
(* LaddersUndo), what hangs from it, and who uses it.  EventsInv adds the  *)
(* events of the bus.  StopInv, DownInv and UpInv are about the commands.  *)
(* KernelNext is the part of a step that the kernel's side sees, so that   *)
(* the lemmas about it need not go through the steps of virtrtlabctl.      *)
(***************************************************************************)
EXTENDS Lab, ModulesProofs, PrngProofs, TLAPS

-----------------------------------------------------------------------------
(* Lists of modules *)

\* The first module of a list, and the rest of it.
LEMMA ListTail ==
    ASSUME NEW S, NEW s \in Seq(S), s # <<>>
    PROVE  /\ Head(s) \in S /\ Head(s) = s[1] /\ Tail(s) \in Seq(S)
           /\ Len(s) \in Nat \ {0} /\ Len(Tail(s)) = Len(s) - 1
           /\ \A i \in 1..Len(Tail(s)) : Tail(s)[i] = s[i + 1]
           /\ SeqSet(s) = {Head(s)} \cup SeqSet(Tail(s))
  <1>1. /\ Head(s) \in S /\ Head(s) = s[1] /\ Tail(s) \in Seq(S)
        /\ Len(s) \in Nat \ {0} /\ Len(Tail(s)) = Len(s) - 1
        /\ \A i \in 1..Len(Tail(s)) : Tail(s)[i] = s[i + 1]
    OBVIOUS
  <1>2. ASSUME NEW i \in 1..Len(s), i # 1
        PROVE  \E j \in 1..Len(Tail(s)) : Tail(s)[j] = s[i]
    <2>1. i - 1 \in 1..Len(Tail(s)) /\ (i - 1) + 1 = i
      BY <1>1, <1>2
    <2> QED
      BY <1>1, <2>1
  <1>3. \A i \in 1..Len(Tail(s)) : i + 1 \in 1..Len(s)
    BY <1>1
  <1>4. SeqSet(s) = {Head(s)} \cup SeqSet(Tail(s))
    BY <1>1, <1>2, <1>3 DEF SeqSet
  <1> QED
    BY <1>1, <1>4

\* What loaded_this_run.append() makes of a list.
LEMMA ListAppend ==
    ASSUME NEW S, NEW s \in Seq(S), NEW e \in S
    PROVE  /\ Append(s, e) \in Seq(S) /\ SeqSet(Append(s, e)) = SeqSet(s) \cup {e}
           /\ Len(Append(s, e)) = Len(s) + 1 /\ Append(s, e)[Len(s) + 1] = e
           /\ \A i \in 1..Len(s) : Append(s, e)[i] = s[i]
  <1>1. /\ Append(s, e) \in Seq(S) /\ Len(s) \in Nat
        /\ Len(Append(s, e)) = Len(s) + 1 /\ Append(s, e)[Len(s) + 1] = e
        /\ \A i \in 1..Len(s) : Append(s, e)[i] = s[i]
    OBVIOUS
  <1>2. 1..(Len(s) + 1) = 1..Len(s) \cup {Len(s) + 1}
    BY <1>1
  <1>3. SeqSet(Append(s, e)) = SeqSet(s) \cup {e}
    BY <1>1, <1>2 DEF SeqSet
  <1> QED
    BY <1>1, <1>3

\* The reversal of a list has the same modules, in the other order.
LEMMA ListReversed ==
    ASSUME NEW S, NEW s \in Seq(S)
    PROVE  /\ Reversed(s) \in Seq(S) /\ Len(Reversed(s)) = Len(s)
           /\ SeqSet(Reversed(s)) = SeqSet(s)
           /\ \A i \in 1..Len(s) : Reversed(s)[i] = s[Len(s) + 1 - i]
  <1>1. /\ Len(s) \in Nat /\ \A i \in 1..Len(s) : Len(s) + 1 - i \in 1..Len(s)
        /\ \A i \in 1..Len(s) : s[i] \in S /\ Len(s) + 1 - (Len(s) + 1 - i) = i
    OBVIOUS
  <1>2. /\ Reversed(s) \in Seq(S) /\ Len(Reversed(s)) = Len(s)
        /\ \A i \in 1..Len(s) : Reversed(s)[i] = s[Len(s) + 1 - i]
    BY <1>1 DEF Reversed
  <1>3. SeqSet(Reversed(s)) \subseteq SeqSet(s)
    BY <1>1, <1>2 DEF SeqSet
  <1>4. SeqSet(s) \subseteq SeqSet(Reversed(s))
    <2> SUFFICES ASSUME NEW i \in 1..Len(s)
                 PROVE  \E j \in 1..Len(s) : Reversed(s)[j] = s[i]
      BY <1>2 DEF SeqSet
    <2>1. PICK j \in 1..Len(s) : j = Len(s) + 1 - i /\ Len(s) + 1 - j = i
      BY <1>1
    <2> QED
      BY <1>2, <2>1
  <1> QED
    BY <1>2, <1>3, <1>4

\* A list that leaves out some modules of a list is a list of modules.
LEMMA ListSublists ==
    ASSUME NEW S, NEW s \in Seq(S), NEW t \in Sublists(s)
    PROVE  t \in Seq(S)
  <1>1. PICK n \in 0..Len(s) : \E f \in [1..n -> 1..Len(s)] : t = [i \in 1..n |-> s[f[i]]]
    BY DEF Sublists
  <1> PICK f \in [1..n -> 1..Len(s)] : t = [i \in 1..n |-> s[f[i]]]
    BY <1>1
  <1>2. \A i \in 1..n : s[f[i]] \in S
    BY <1>1
  <1>3. n \in Nat
    OBVIOUS
  <1> QED
    BY <1>1, <1>2, <1>3

\* The profiles are lists of modules.
LEMMA ProfileLists ==
    ASSUME NEW p \in Profiles \cup {<<>>}
    PROVE  p \in Seq(Mods) /\ <<"core">> \o p \in Seq(Mods) /\ KnownModules \in Seq(Mods)
  <1>1. <<"core">> \in Seq(Mods) /\ <<"uart">> \in Seq(Mods) /\ <<"gpio">> \in Seq(Mods)
        /\ <<"uart", "gpio">> \in Seq(Mods) /\ <<>> \in Seq(Mods)
    BY DEF Mods
  <1>2. p \in Seq(Mods)
    BY <1>1 DEF Profiles
  <1>3. <<"core">> \o p \in Seq(Mods)
    BY <1>1, <1>2
  <1>4. KnownModules \in Seq(Mods)
    BY DEF Mods, KnownModules
  <1> QED
    BY <1>2, <1>3, <1>4

-----------------------------------------------------------------------------
(* virtrtlabctl *)

\* The locals of a command, the files and the processes have their types at
\* every step of every command.
LEMMA CliTypesNext == CliTypes /\ [LabNext]_labVars => CliTypes'
  <1> SUFFICES ASSUME CliTypes, [LabNext]_labVars
               PROVE  CliTypes'
    OBVIOUS
  <1> USE PidAssumption
      DEF CliTypes, cliVars, fileVars, procVars, Begin, Leave, At, Proceed,
          PruneStale, DaemonPid, Daemons, Send, Free
  <1>1. CASE UpBegin
    <2>1. queue' \in Seq(Mods)
      BY <1>1, ProfileLists DEF UpBegin
    <2>2. /\ profile' \in Profiles \cup {<<>>} /\ mine' \in Seq(Mods) /\ before' \subseteq Mods
      BY <1>1 DEF UpBegin, Loaded
    <2>3. /\ cmd' \in {"none", "up", "start", "down", "stop"} /\ scenario' = "cli" /\ scenario = "cli"
          /\ target' \in Pids \cup {0} /\ pidfile' \in Pids \cup {0}
          /\ refused' \in BOOLEAN /\ pc' # "insmod"
      BY <1>1 DEF UpBegin
    <2>4. modlist' = modlist /\ stray' = stray /\ proc' = proc /\ sig' = sig
      BY <1>1 DEF UpBegin
    <2> QED
      BY <2>1, <2>2, <2>3, <2>4
  <1>2. CASE UpSkip
    <2>1. queue' \in Seq(Mods)
      BY <1>2, ListTail DEF UpSkip
    <2> QED
      BY <1>2, <2>1 DEF UpSkip
  <1>3. CASE UpInsmod
    BY <1>3 DEF UpInsmod
  <1>4. CASE UpInsmodOk
    <2>1. Head(queue) \in Mods /\ Tail(queue) \in Seq(Mods)
      BY <1>4, ListTail DEF UpInsmodOk
    <2>2. queue' \in Seq(Mods) /\ mine' \in Seq(Mods)
      BY <1>4, <2>1, ListAppend DEF UpInsmodOk
    <2> QED
      BY <1>4, <2>2 DEF UpInsmodOk
  <1>5. CASE UpInsmodFailed
    <2>1. queue' \in Seq(Mods)
      BY <1>5, ListReversed DEF UpInsmodFailed
    <2> QED
      BY <1>5, <2>1 DEF UpInsmodFailed
  <1>6. CASE UpRolledBack
    BY <1>6 DEF UpRolledBack
  <1>7. CASE UpSeed
    BY <1>7 DEF UpSeed
  <1>8. CASE UpList
    <2>1. modlist' \in Seq(Mods)
      BY <1>8, ProfileLists, ListSublists DEF UpList
    <2> QED
      BY <1>8, <2>1 DEF UpList
  <1>9. CASE StartBegin
    <2>1. /\ profile' \in Profiles \cup {<<>>} /\ queue' \in Seq(Mods) /\ mine' \in Seq(Mods)
          /\ before' \subseteq Mods
      BY <1>9 DEF StartBegin, Profiles
    <2>2. /\ cmd' \in {"none", "up", "start", "down", "stop"} /\ (cmd' # "none" => scenario' = "cli")
          /\ scenario' = scenario /\ target' \in Pids \cup {0} /\ pidfile' \in Pids \cup {0}
          /\ refused' \in BOOLEAN /\ cmd' # "up"
      BY <1>9 DEF StartBegin
    <2>3. modlist' = modlist /\ stray' = stray /\ proc' = proc /\ sig' = sig
      BY <1>9 DEF StartBegin
    <2> QED
      BY <2>1, <2>2, <2>3
  <1>10. CASE LaunchSkip
    BY <1>10 DEF LaunchSkip
  <1>11. CASE Launch
    BY <1>11 DEF Launch
  <1>12. CASE WritePidFile
    BY <1>12 DEF WritePidFile
  <1>13. CASE PollSockets
    BY <1>13 DEF PollSockets
  <1>14. CASE Contract
    <2>1. /\ profile' \in Profiles \cup {<<>>} /\ queue' \in Seq(Mods) /\ mine' \in Seq(Mods)
          /\ before' \subseteq Mods
      BY <1>14 DEF Contract, Profiles
    <2>2. /\ cmd' \in {"none", "up", "start", "down", "stop"} /\ (cmd' # "none" => scenario' = "cli")
          /\ scenario' = scenario /\ target' \in Pids \cup {0} /\ pidfile' \in Pids \cup {0}
          /\ refused' \in BOOLEAN /\ cmd' # "up"
      BY <1>14 DEF Contract
    <2>3. modlist' = modlist /\ stray' = stray /\ proc' = proc /\ sig' = sig
      BY <1>14 DEF Contract
    <2> QED
      BY <2>1, <2>2, <2>3
  <1>15. CASE Status
    BY <1>15 DEF Status
  <1>16. CASE DownBegin
    <2>1. queue' \in Seq(Mods)
      <3>1. CASE modlist = NoList
        BY <1>16, <3>1, ProfileLists, ListReversed DEF DownBegin
      <3>2. CASE modlist # NoList
        BY <1>16, <3>2, ListReversed DEF DownBegin
      <3> QED
        BY <3>1, <3>2
    <2>2. /\ profile' \in Profiles \cup {<<>>} /\ mine' \in Seq(Mods) /\ before' \subseteq Mods
      BY <1>16 DEF DownBegin, Loaded
    <2>3. /\ cmd' \in {"none", "up", "start", "down", "stop"} /\ scenario' = "cli" /\ scenario = "cli"
          /\ target' \in Pids \cup {0} /\ pidfile' \in Pids \cup {0}
          /\ refused' \in BOOLEAN /\ pc' # "insmod"
      BY <1>16 DEF DownBegin
    <2>4. modlist' = modlist /\ stray' = stray /\ proc' = proc /\ sig' = sig
      BY <1>16 DEF DownBegin
    <2> QED
      BY <2>1, <2>2, <2>3, <2>4
  <1>17. CASE StopBegin
    <2>1. /\ profile' \in Profiles \cup {<<>>} /\ queue' \in Seq(Mods) /\ mine' \in Seq(Mods)
          /\ before' \subseteq Mods
      BY <1>17 DEF StopBegin, Profiles
    <2>2. /\ cmd' \in {"none", "up", "start", "down", "stop"} /\ (cmd' # "none" => scenario' = "cli")
          /\ scenario' = scenario /\ target' \in Pids \cup {0} /\ pidfile' \in Pids \cup {0}
          /\ refused' \in BOOLEAN /\ cmd' # "up"
      BY <1>17 DEF StopBegin
    <2>3. modlist' = modlist /\ stray' = stray /\ proc' = proc /\ sig' = sig
      BY <1>17 DEF StopBegin
    <2> QED
      BY <2>1, <2>2, <2>3
  <1>18. CASE StopFind
    BY <1>18 DEF StopFind
  <1>19. CASE StopTerm
    BY <1>19 DEF StopTerm
  <1>20. CASE StopGone
    BY <1>20 DEF StopGone
  <1>21. CASE StopKill
    BY <1>21 DEF StopKill
  <1>22. CASE StopUnpid
    BY <1>22 DEF StopUnpid
  <1>23. CASE UnloadSkip
    <2>1. queue' \in Seq(Mods)
      BY <1>23, ListTail DEF UnloadSkip
    <2> QED
      BY <1>23, <2>1 DEF UnloadSkip
  <1>24. CASE Unload
    <2>1. queue' \in Seq(Mods)
      BY <1>24, ListTail DEF Unload
    <2> QED
      BY <1>24, <2>1 DEF Unload
  <1>25. CASE UnloadRefused
    <2>1. queue' \in Seq(Mods)
      BY <1>25, ListTail DEF UnloadRefused
    <2> QED
      BY <1>25, <2>1 DEF UnloadRefused
  <1>26. CASE DownEnd
    BY <1>26 DEF DownEnd
  <1>27. CASE Abandon
    <2>1. /\ profile' \in Profiles \cup {<<>>} /\ queue' \in Seq(Mods) /\ mine' \in Seq(Mods)
          /\ before' \subseteq Mods
      BY <1>27 DEF Abandon, Profiles
    <2>2. /\ cmd' \in {"none", "up", "start", "down", "stop"} /\ (cmd' # "none" => scenario' = "cli")
          /\ scenario' = scenario /\ target' \in Pids \cup {0} /\ pidfile' \in Pids \cup {0}
          /\ refused' \in BOOLEAN /\ cmd' # "up"
      BY <1>27 DEF Abandon
    <2>3. modlist' = modlist /\ stray' = stray /\ proc' = proc /\ sig' = sig
      BY <1>27 DEF Abandon
    <2> QED
      BY <2>1, <2>2, <2>3
  <1>28. ASSUME NEW p \in Pids, DaemonReady(p)
        PROVE  CliTypes'
    BY <1>28 DEF DaemonReady
  <1>29. ASSUME NEW p \in Pids, DaemonFails(p)
        PROVE  CliTypes'
    BY <1>29 DEF DaemonFails
  <1>30. ASSUME NEW p \in Pids, DaemonTerm(p)
        PROVE  CliTypes'
    BY <1>30 DEF DaemonTerm
  <1>31. ASSUME NEW p \in Pids, DaemonDies(p)
        PROVE  CliTypes'
    BY <1>31 DEF DaemonDies
  <1>32. ASSUME NEW p \in Pids, PidReused(p)
        PROVE  CliTypes'
    BY <1>32 DEF PidReused
  <1>33. ASSUME NEW p \in Pids, OtherExits(p)
        PROVE  CliTypes'
    BY <1>33 DEF OtherExits
  <1>34. CASE Loading
    BY <1>34 DEF Loading
  <1>35. CASE StoreBegins
    BY <1>35 DEF StoreBegins
  <1>36. ASSUME NEW w \in Storers, Stores(w)
        PROVE  CliTypes'
    BY <1>36 DEF Stores
  <1>37. CASE Draws
    BY <1>37 DEF Draws
  <1>38. CASE ModuleStep
    BY <1>38 DEF ModuleStep
  <1>39. CASE AutFiles
    BY <1>39 DEF AutFiles
  <1>40. CASE UNCHANGED labVars
    BY <1>40 DEF labVars
  <1> QED
    BY <1>1, <1>2, <1>3, <1>4, <1>5, <1>6, <1>7, <1>8, <1>9, <1>10, <1>11,
       <1>12, <1>13, <1>14, <1>15, <1>16, <1>17, <1>18, <1>19, <1>20, <1>21,
       <1>22, <1>23, <1>24, <1>25, <1>26, <1>27, <1>28, <1>29, <1>30, <1>31,
       <1>32, <1>33, <1>34, <1>35, <1>36, <1>37, <1>38, <1>39, <1>40
    DEF LabNext, Up, Down, Process

-----------------------------------------------------------------------------
(* The kernel's side of the lab *)

\* What a step of the lab does to the modules and to the bus: virtrtlabctl and the
\* processes reach them only through insmod, rmmod, open, close and `state'.
KernelNext ==
    \/ \E m \in Mods : Insmod(m) \/ Rmmod(m)
    \/ Acquire \/ AcquireFails \/ Release \/ Returned
    \/ \E m \in Mods, u \in Pids \cup {Aut} :
          /\ OpenFile(m, u) \/ CloseFile(m, u)
          /\ UNCHANGED <<mstate, loading, todo, have, busVars>>
    \/ \E w \in Storers :
          /\ (AttrsWritable /\ StateStore(w)) \/ Store(w)
          /\ UNCHANGED modVars
    \/ UNCHANGED <<modVars, busVars>>

\* Every step of the lab is such a step.
LEMMA KernelSteps == CliTypes /\ [LabNext]_labVars => KernelNext
  <1> SUFFICES ASSUME CliTypes, [LabNext]_labVars
               PROVE  KernelNext
    OBVIOUS
  <1> USE DEF kernVars
  <1>1. CASE UpBegin
    BY <1>1 DEF UpBegin, KernelNext
  <1>2. CASE UpSkip
    BY <1>2 DEF UpSkip, KernelNext
  <1>3. CASE UpInsmod
    <2>1. Head(queue) \in Mods
      BY <1>3, ListTail DEF UpInsmod, CliTypes
    <2>2. Insmod(Head(queue))
      BY <1>3 DEF UpInsmod
    <2> QED
      BY <2>1, <2>2 DEF KernelNext
  <1>4. CASE UpInsmodOk
    BY <1>4 DEF UpInsmodOk, KernelNext
  <1>5. CASE UpInsmodFailed
    BY <1>5 DEF UpInsmodFailed, KernelNext
  <1>6. CASE UpRolledBack
    BY <1>6 DEF UpRolledBack, KernelNext
  <1>7. CASE UpSeed
    BY <1>7 DEF UpSeed, KernelNext
  <1>8. CASE UpList
    BY <1>8 DEF UpList, KernelNext
  <1>9. CASE StartBegin
    BY <1>9 DEF StartBegin, KernelNext
  <1>10. CASE LaunchSkip
    BY <1>10 DEF LaunchSkip, KernelNext
  <1>11. CASE Launch
    BY <1>11 DEF Launch, KernelNext
  <1>12. CASE WritePidFile
    BY <1>12 DEF WritePidFile, KernelNext
  <1>13. CASE PollSockets
    BY <1>13 DEF PollSockets, KernelNext
  <1>14. CASE Contract
    BY <1>14 DEF Contract, KernelNext
  <1>15. CASE Status
    BY <1>15 DEF Status, KernelNext
  <1>16. CASE DownBegin
    BY <1>16 DEF DownBegin, KernelNext
  <1>17. CASE StopBegin
    BY <1>17 DEF StopBegin, KernelNext
  <1>18. CASE StopFind
    BY <1>18 DEF StopFind, KernelNext
  <1>19. CASE StopTerm
    BY <1>19 DEF StopTerm, KernelNext
  <1>20. CASE StopGone
    BY <1>20 DEF StopGone, KernelNext
  <1>21. CASE StopKill
    BY <1>21 DEF StopKill, KernelNext
  <1>22. CASE StopUnpid
    BY <1>22 DEF StopUnpid, KernelNext
  <1>23. CASE UnloadSkip
    BY <1>23 DEF UnloadSkip, KernelNext
  <1>24. CASE Unload
    <2>1. Head(queue) \in Mods
      BY <1>24, ListTail DEF Unload, CliTypes
    <2>2. Rmmod(Head(queue))
      BY <1>24 DEF Unload
    <2> QED
      BY <2>1, <2>2 DEF KernelNext
  <1>25. CASE UnloadRefused
    BY <1>25 DEF UnloadRefused, KernelNext
  <1>26. CASE DownEnd
    BY <1>26 DEF DownEnd, KernelNext
  <1>27. CASE Abandon
    BY <1>27 DEF Abandon, KernelNext
  <1>28. ASSUME NEW p \in Pids, DaemonReady(p)
        PROVE  KernelNext
    <2>1. OpenFile("uart", p) /\ UNCHANGED <<mstate, loading, todo, have, busVars>>
      BY <1>28 DEF DaemonReady
    <2>2. "uart" \in Mods /\ p \in Pids \cup {Aut}
      BY DEF Mods
    <2> QED
      BY <2>1, <2>2 DEF KernelNext
  <1>29. ASSUME NEW p \in Pids, DaemonFails(p)
        PROVE  KernelNext
    BY <1>29 DEF DaemonFails, KernelNext
  <1>30. ASSUME NEW p \in Pids, DaemonTerm(p)
        PROVE  KernelNext
    <2>1. CloseFile("uart", p) /\ UNCHANGED <<mstate, loading, todo, have, busVars>>
      BY <1>30 DEF DaemonTerm
    <2>2. "uart" \in Mods /\ p \in Pids \cup {Aut}
      BY DEF Mods
    <2> QED
      BY <2>1, <2>2 DEF KernelNext
  <1>31. ASSUME NEW p \in Pids, DaemonDies(p)
        PROVE  KernelNext
    <2>1. CloseFile("uart", p) /\ UNCHANGED <<mstate, loading, todo, have, busVars>>
      BY <1>31 DEF DaemonDies
    <2>2. "uart" \in Mods /\ p \in Pids \cup {Aut}
      BY DEF Mods
    <2> QED
      BY <2>1, <2>2 DEF KernelNext
  <1>32. ASSUME NEW p \in Pids, PidReused(p)
        PROVE  KernelNext
    BY <1>32 DEF PidReused, KernelNext
  <1>33. ASSUME NEW p \in Pids, OtherExits(p)
        PROVE  KernelNext
    BY <1>33 DEF OtherExits, KernelNext
  <1>34. CASE Loading
    BY <1>34 DEF Loading, KernelNext
  <1>35. CASE StoreBegins
    BY <1>35 DEF StoreBegins, KernelNext
  <1>36. ASSUME NEW w \in Storers, Stores(w)
        PROVE  KernelNext
    BY <1>36 DEF Stores, KernelNext
  <1>37. CASE Draws
    BY <1>37 DEF Draws, KernelNext
  <1>38. CASE ModuleStep
    BY <1>38 DEF ModuleStep, KernelNext
  <1>39. CASE AutFiles
    BY <1>39 DEF AutFiles, KernelNext
  <1>40. CASE UNCHANGED labVars
    BY <1>40 DEF labVars, KernelNext
  <1> QED
    BY <1>1, <1>2, <1>3, <1>4, <1>5, <1>6, <1>7, <1>8, <1>9, <1>10, <1>11,
       <1>12, <1>13, <1>14, <1>15, <1>16, <1>17, <1>18, <1>19, <1>20, <1>21,
       <1>22, <1>23, <1>24, <1>25, <1>26, <1>27, <1>28, <1>29, <1>30, <1>31,
       <1>32, <1>33, <1>34, <1>35, <1>36, <1>37, <1>38, <1>39, <1>40
    DEF LabNext, Up, Down, Process

\* One module at a time comes or goes, and virtrtlab_core only while it is alone.
LEMMA ModStatesNext == ModStates /\ KernelNext => ModStates'
  <1> SUFFICES ASSUME ModStates, KernelNext
               PROVE  ModStates'
    OBVIOUS
  <1> USE DEF ModStates, Mods
  <1>1. ASSUME NEW m \in Mods, Insmod(m)
        PROVE  ModStates'
    BY <1>1 DEF Insmod, Linked
  <1>2. ASSUME NEW m \in Mods, Rmmod(m)
        PROVE  ModStates'
    BY <1>2 DEF Rmmod, Needed
  <1>3. CASE Acquire
    BY <1>3 DEF Acquire, Running
  <1>4. CASE AcquireFails
    BY <1>4 DEF AcquireFails, Running
  <1>5. CASE Release
    BY <1>5 DEF Release, Running
  <1>6. CASE Returned
    BY <1>6 DEF Returned
  <1>7. CASE UNCHANGED <<mstate, loading, todo>>
    BY <1>7
  <1> QED
    BY <1>1, <1>2, <1>3, <1>4, <1>5, <1>6, <1>7 DEF KernelNext, modVars

\* What the init function of a module has acquired after none, one more and
\* all of its steps.
LEMMA AcquiredOne ==
    ASSUME NEW m \in Mods
    PROVE  /\ LoadOf(m) \in Seq(Steps)
           /\ Acquired(m, 0) = {} /\ Acquired(m, Len(LoadOf(m))) = Owned(m)
           /\ \A k \in 1..Len(LoadOf(m)) :
                 /\ Acquired(m, k) = Acquired(m, k - 1) \cup {LoadOf(m)[k].res}
                 /\ LoadOf(m)[k].res \in Owned(m)
                 /\ LoadOf(m)[k].res \notin Acquired(m, k - 1)
  <1>1. /\ LoadOf(m) \in Seq(Steps)
        /\ \A k \in 1..Len(LoadOf(m)) : \A j \in 1..Len(LoadOf(m)) :
              LoadOf(m)[j].res = LoadOf(m)[k].res => j = k
    BY LaddersUndo DEF Orderly
  <1>2. /\ Owned(m) = Got(LoadOf(m), Len(LoadOf(m)))
        /\ \A k : Acquired(m, k) = Got(LoadOf(m), k)
    BY OwnedIs
  <1>3. Got(LoadOf(m), 0) = {}
    BY DEF Got
  <1>4. ASSUME NEW k \in 1..Len(LoadOf(m))
        PROVE  /\ Got(LoadOf(m), k) = Got(LoadOf(m), k - 1) \cup {LoadOf(m)[k].res}
               /\ LoadOf(m)[k].res \in Got(LoadOf(m), Len(LoadOf(m)))
               /\ LoadOf(m)[k].res \notin Got(LoadOf(m), k - 1)
    <2>1. k \in Nat \ {0}
      OBVIOUS
    <2>2. Got(LoadOf(m), k) = Got(LoadOf(m), k - 1) \cup {LoadOf(m)[k].res}
      BY <2>1, GotOne
    <2>3. \A j \in 1..(k - 1) : j \in 1..Len(LoadOf(m)) /\ j # k
      BY <1>1
    <2>4. LoadOf(m)[k].res \notin Got(LoadOf(m), k - 1)
      BY <1>1, <2>3 DEF Got
    <2> QED
      BY <2>2, <2>4 DEF Got
  <1> QED
    BY <1>1, <1>2, <1>3, <1>4

\* The step that runs: an init function acquires what follows in it, any other
\* function has exactly what the module has left to release.
LEMMA NowOf ==
    ASSUME ModStates, HaveInv, todo # <<>>
    PROVE  /\ loading \in Mods /\ Tail(todo) \in Seq(Steps) /\ Now \in Steps
           /\ Now.act = "get" =>
                 /\ mstate[loading] = "coming"
                 /\ \E k \in 1..Len(LoadOf(loading)) :
                       /\ k = Len(LoadOf(loading)) - Len(todo) + 1
                       /\ Now = LoadOf(loading)[k]
                       /\ Owned(loading) \cap have = Acquired(loading, k - 1)
           /\ Now.act = "put" =>
                 /\ mstate[loading] = "going"
                 /\ Undoes(todo, Owned(loading) \cap have)
  <1>1. /\ loading \in Mods /\ Tail(todo) \in Seq(Steps) /\ Now \in Steps
        /\ Len(todo) \in Nat \ {0} /\ Now = todo[1]
    BY DEF ModStates, HaveInv, Now
  <1>2. mstate[loading] \in {"coming", "going"}
    BY <1>1 DEF ModStates
  <1>3. CASE mstate[loading] = "going"
    <2>1. Undoes(todo, Owned(loading) \cap have)
      BY <1>1, <1>3 DEF HaveInv, Has
    <2>2. Now.act = "put"
      BY <1>1, <2>1 DEF Undoes
    <2> QED
      BY <1>1, <1>3, <2>1, <2>2
  <1>4. CASE mstate[loading] = "coming"
    <2> DEFINE L == LoadOf(loading)
               n == Len(L) - Len(todo)
    <2>1. /\ n \in Nat /\ Owned(loading) \cap have = Acquired(loading, n)
          /\ \A j \in 1..Len(todo) : todo[j] = L[n + j]
      BY <1>1, <1>4 DEF HaveInv, Has
    <2>2. L \in Seq(Steps) /\ Len(L) \in Nat
      BY <1>1, AcquiredOne
    <2> HIDE DEF L
    <2>3. PICK k \in 1..Len(L) : k = n + 1 /\ k - 1 = n
      BY <1>1, <2>1, <2>2
    <2>4. Now = L[k]
      BY <1>1, <2>1, <2>3
    <2>5. L[k].act = "get"
      BY <1>1, <2>3, LaddersUndo DEF Orderly, L
    <2>6. Owned(loading) \cap have = Acquired(loading, k - 1)
      BY <2>1, <2>3
    <2> QED
      BY <1>1, <1>4, <2>3, <2>4, <2>5, <2>6 DEF L
  <1> QED
    BY <1>2, <1>3, <1>4

\* A step that changes only what `loading' has keeps what the others have.
LEMMA OthersHave ==
    ASSUME ModStates, HaveInv, NEW m \in Mods, m # loading,
           mstate'[m] = mstate[m], Owned(m) \cap have' = Owned(m) \cap have
    PROVE  Has(m)'
  <1>1. mstate[m] \in {"absent", "live"}
    BY DEF ModStates
  <1>2. Has(m)
    BY DEF HaveInv
  <1> QED
    BY <1>1, <1>2 DEF Has

\* Each step of an init function acquires the next resource, the error path of a
\* failing step and the exit function release what there is.
LEMMA HaveNext == ModStates /\ HaveInv /\ KernelNext => HaveInv'
  <1> SUFFICES ASSUME ModStates, HaveInv, KernelNext
               PROVE  HaveInv'
    OBVIOUS
  <1>1. ASSUME NEW m \in Mods, Insmod(m)
        PROVE  HaveInv'
    <2>1. /\ mstate[m] = "absent" /\ mstate' = [mstate EXCEPT ![m] = "coming"]
          /\ todo' = LoadOf(m) /\ have' = have /\ loading = "none"
      BY <1>1 DEF Insmod
    <2>2. /\ LoadOf(m) \in Seq(Steps) /\ Acquired(m, 0) = {}
          /\ Len(LoadOf(m)) - Len(LoadOf(m)) = 0
      BY AcquiredOne
    <2>3. mstate'[m] = "coming" /\ \A n \in Mods : n # m => mstate'[n] = mstate[n]
      BY <2>1 DEF ModStates
    <2>4. Owned(m) \cap have = {}
      BY <2>1 DEF HaveInv, Has
    <2>5. \A j \in 1..Len(LoadOf(m)) : LoadOf(m)[j] = LoadOf(m)[0 + j]
      OBVIOUS
    <2>6. Has(m)'
      BY <2>1, <2>2, <2>3, <2>4, <2>5 DEF Has
    <2>7. ASSUME NEW n \in Mods, n # m
          PROVE  Has(n)'
      <3>1. n # loading
        BY <2>1 DEF Mods
      <3> QED
        BY <2>1, <2>3, <2>7, <3>1, OthersHave
    <2> QED
      BY <2>1, <2>2, <2>6, <2>7 DEF HaveInv
  <1>2. ASSUME NEW m \in Mods, Rmmod(m)
        PROVE  HaveInv'
    <2>1. /\ mstate[m] = "live" /\ mstate' = [mstate EXCEPT ![m] = "going"]
          /\ todo' = UnloadOf(m) /\ have' = have /\ loading = "none"
      BY <1>2 DEF Rmmod
    <2>2. UnloadOf(m) \in Seq(Steps) /\ Undoes(UnloadOf(m), Owned(m))
      BY LaddersUndo DEF Orderly
    <2>3. mstate'[m] = "going" /\ \A n \in Mods : n # m => mstate'[n] = mstate[n]
      BY <2>1 DEF ModStates
    <2>4. Owned(m) \cap have = Owned(m)
      BY <2>1 DEF HaveInv, Has
    <2>5. Undoes(todo', Owned(m) \cap have')
      BY <2>1, <2>2, <2>4
    <2>6. Has(m)'
      BY <2>3, <2>5 DEF Has
    <2>7. ASSUME NEW n \in Mods, n # m
          PROVE  Has(n)'
      <3>1. n # loading
        BY <2>1 DEF Mods
      <3> QED
        BY <2>1, <2>3, <2>7, <3>1, OthersHave
    <2> QED
      BY <2>1, <2>2, <2>6, <2>7 DEF HaveInv
  <1>3. CASE Acquire
    <2>1. /\ todo # <<>> /\ Now.act = "get" /\ have' = have \cup {Now.res}
          /\ todo' = Tail(todo) /\ mstate' = mstate /\ loading' = loading
      BY <1>3 DEF Acquire, Running
    <2> DEFINE L == LoadOf(loading)
    <2>2. PICK k \in 1..Len(L) :
             /\ k = Len(L) - Len(todo) + 1
             /\ Now = L[k]
             /\ Owned(loading) \cap have = Acquired(loading, k - 1)
      BY <2>1, NowOf
    <2>3. loading \in Mods /\ Tail(todo) \in Seq(Steps) /\ mstate[loading] = "coming"
      BY <2>1, NowOf
    <2>4. /\ L \in Seq(Steps) /\ L[k].res \in Owned(loading)
          /\ Acquired(loading, k) = Acquired(loading, k - 1) \cup {L[k].res}
      BY <2>3, AcquiredOne
    <2> HIDE DEF L
    <2>5. Owned(loading) \cap have' = Acquired(loading, k)
      BY <2>1, <2>2, <2>4
    <2>6. /\ Len(L) - Len(Tail(todo)) = k /\ k \in Nat
          /\ \A j \in 1..Len(Tail(todo)) : Tail(todo)[j] = L[k + j]
      <3>1. todo \in Seq(Steps)
        BY DEF HaveInv
      <3>2. /\ Len(todo) \in Nat \ {0} /\ Len(Tail(todo)) = Len(todo) - 1 /\ Len(L) \in Nat
            /\ \A j \in 1..Len(Tail(todo)) : Tail(todo)[j] = todo[j + 1]
        BY <2>1, <2>4, <3>1
      <3>3. \A j \in 1..Len(todo) : todo[j] = L[(Len(L) - Len(todo)) + j]
        BY <2>3 DEF HaveInv, Has, L
      <3>4. Len(L) - Len(Tail(todo)) = k /\ k \in Nat
        BY <2>2, <3>2
      <3>5. ASSUME NEW j \in 1..Len(Tail(todo))
            PROVE  Tail(todo)[j] = L[k + j]
        <4>1. PICK i \in 1..Len(todo) : i = j + 1 /\ (Len(L) - Len(todo)) + i = k + j
          BY <2>2, <3>2
        <4> QED
          BY <3>2, <3>3, <4>1
      <3> QED
        BY <3>4, <3>5
    <2>7. Has(loading)'
      BY <2>1, <2>3, <2>5, <2>6 DEF Has, L
    <2>8. ASSUME NEW n \in Mods, n # loading
          PROVE  Has(n)'
      <3>1. Now.res \notin Owned(n)
        BY <2>2, <2>3, <2>4, <2>8, OwnedApart
      <3>2. Owned(n) \cap have' = Owned(n) \cap have
        BY <2>1, <3>1
      <3> QED
        BY <2>1, <2>8, <3>2, OthersHave
    <2>9. \A r \in have' : \E m \in Mods : r \in Owned(m)
      BY <2>1, <2>2, <2>3, <2>4 DEF HaveInv
    <2> QED
      BY <2>1, <2>3, <2>7, <2>8, <2>9 DEF HaveInv
  <1>4. CASE AcquireFails
    <2>1. /\ todo # <<>> /\ Now.act = "get" /\ have' = have
          /\ todo' = FailOf(loading, Now.res) /\ loading' = loading
          /\ mstate' = [mstate EXCEPT ![loading] = "going"]
      BY <1>4 DEF AcquireFails, Running
    <2> DEFINE L == LoadOf(loading)
    <2>2. PICK k \in 1..Len(L) :
             /\ Now = L[k]
             /\ Owned(loading) \cap have = Acquired(loading, k - 1)
      BY <2>1, NowOf
    <2>3. loading \in Mods
      BY <2>1, NowOf
    <2>4. /\ FailOf(loading, L[k].res) \in Seq(Steps)
          /\ Undoes(FailOf(loading, L[k].res), Acquired(loading, k - 1))
      BY <2>3, LaddersUndo DEF Orderly
    <2> HIDE DEF L
    <2>5. todo' \in Seq(Steps) /\ Undoes(todo', Owned(loading) \cap have')
      BY <2>1, <2>2, <2>4
    <2>6. mstate'[loading] = "going" /\ \A n \in Mods : n # loading => mstate'[n] = mstate[n]
      BY <2>1, <2>3 DEF ModStates
    <2>7. Has(loading)'
      BY <2>1, <2>5, <2>6 DEF Has
    <2>8. ASSUME NEW n \in Mods, n # loading
          PROVE  Has(n)'
      BY <2>1, <2>6, <2>8, OthersHave
    <2> QED
      BY <2>1, <2>5, <2>7, <2>8 DEF HaveInv
  <1>5. CASE Release
    <2>1. /\ todo # <<>> /\ Now.act = "put" /\ have' = have \ {Now.res}
          /\ todo' = Tail(todo) /\ mstate' = mstate /\ loading' = loading
      BY <1>5 DEF Release, Running
    <2>2. /\ loading \in Mods /\ Tail(todo) \in Seq(Steps) /\ mstate[loading] = "going"
          /\ Undoes(todo, Owned(loading) \cap have)
      BY <2>1, NowOf
    <2>3. /\ Now.res \in Owned(loading)
          /\ Undoes(Tail(todo), (Owned(loading) \cap have) \ {Now.res})
      <3>1. todo \in Seq(Steps)
        BY DEF HaveInv
      <3> DEFINE R == Owned(loading) \cap have
      <3>2. Undoes(todo, R)
        BY <2>2
      <3> HIDE DEF R
      <3>3. Now.res \in R /\ Undoes(Tail(todo), R \ {Now.res})
        BY <2>1, <3>1, <3>2, UndoesTail DEF Now
      <3> QED
        BY <3>3 DEF R
    <2>4. (Owned(loading) \cap have) \ {Now.res} = Owned(loading) \cap have'
      BY <2>1
    <2>5. Undoes(todo', Owned(loading) \cap have')
      BY <2>1, <2>3, <2>4
    <2>6. Has(loading)'
      BY <2>1, <2>2, <2>5 DEF Has
    <2>7. ASSUME NEW n \in Mods, n # loading
          PROVE  Has(n)'
      <3>1. Now.res \notin Owned(n)
        BY <2>2, <2>3, <2>7, OwnedApart
      <3>2. Owned(n) \cap have' = Owned(n) \cap have
        BY <2>1, <3>1
      <3> QED
        BY <2>1, <2>7, <3>2, OthersHave
    <2>8. \A r \in have' : \E m \in Mods : r \in Owned(m)
      BY <2>1 DEF HaveInv
    <2> QED
      BY <2>1, <2>2, <2>6, <2>7, <2>8 DEF HaveInv
  <1>6. CASE Returned
    <2> PICK m \in Mods : m = loading
      BY <1>6 DEF Returned, ModStates
    <2>1. /\ m = loading /\ todo = <<>> /\ todo' = todo /\ have' = have
          /\ mstate' = [mstate EXCEPT ![m] = IF @ = "coming" THEN "live" ELSE "absent"]
      BY <1>6 DEF Returned, ModStates
    <2>2. \A n \in Mods : n # m => mstate'[n] = mstate[n]
      BY <2>1 DEF ModStates
    <2>3. ASSUME mstate[m] = "coming"
          PROVE  Has(m)'
      <3>1. Owned(m) \cap have = Acquired(m, Len(LoadOf(m)) - Len(todo))
        BY <2>1, <2>3 DEF HaveInv, Has
      <3>2. Len(LoadOf(m)) - Len(todo) = Len(LoadOf(m))
        BY <2>1, AcquiredOne
      <3>3. Owned(m) \subseteq have
        BY <2>1, <3>1, <3>2, AcquiredOne
      <3>4. mstate'[m] = "live"
        BY <2>1, <2>3 DEF ModStates
      <3> QED
        BY <2>1, <3>3, <3>4 DEF Has
    <2>4. ASSUME mstate[m] # "coming"
          PROVE  Has(m)'
      <3>1. mstate[m] = "going" /\ mstate'[m] = "absent"
        BY <2>1, <2>4 DEF ModStates
      <3>2. Undoes(todo, Owned(m) \cap have) /\ Len(todo) = 0
        BY <2>1, <3>1 DEF HaveInv, Has
      <3>3. Owned(m) \cap have = {}
        BY <3>2 DEF Undoes
      <3> QED
        BY <2>1, <3>1, <3>3 DEF Has
    <2>5. Has(m)'
      BY <2>3, <2>4
    <2>6. ASSUME NEW n \in Mods, n # m
          PROVE  Has(n)'
      BY <2>1, <2>2, <2>6, OthersHave
    <2> QED
      BY <2>1, <2>5, <2>6 DEF HaveInv
  <1>7. CASE UNCHANGED <<mstate, loading, todo, have>>
    BY <1>7 DEF HaveInv, Has
  <1> QED
    BY <1>1, <1>2, <1>3, <1>4, <1>5, <1>6, <1>7 DEF KernelNext, modVars

-----------------------------------------------------------------------------
(* The notifier chain *)

\* Registering a device that is not in the chain adds it, and only it.
LEMMA AppendChain ==
    ASSUME StoreOK, NEW d \in Devs, ~InChain(d), chain' = Append(chain, d)
    PROVE  /\ chain' \in Seq(Devs)
           /\ \A i, j \in 1..Len(chain') : chain'[i] = chain'[j] => i = j
           /\ \A e \in Devs : InChain(e)' <=> InChain(e) \/ e = d
  <1>1. chain \in Seq(Devs) /\ \A i, j \in 1..Len(chain) : chain[i] = chain[j] => i = j
    BY DEF StoreOK
  <1>2. /\ chain' \in Seq(Devs) /\ Len(chain) \in Nat /\ Len(chain') = Len(chain) + 1
        /\ chain'[Len(chain) + 1] = d /\ \A i \in 1..Len(chain) : chain'[i] = chain[i]
    BY <1>1
  <1>3. 1..Len(chain') = 1..Len(chain) \cup {Len(chain) + 1}
    BY <1>2
  <1>4. \A i \in 1..Len(chain) : chain[i] # d
    BY DEF InChain
  <1>5. \A i, j \in 1..Len(chain') : chain'[i] = chain'[j] => i = j
    BY <1>1, <1>2, <1>3, <1>4
  <1>6. \A e \in Devs : InChain(e)' <=> InChain(e) \/ e = d
    BY <1>2, <1>3 DEF InChain
  <1> QED
    BY <1>2, <1>5, <1>6

\* Unregistering a device takes it out of the chain, and only it.
LEMMA UnlinkChain ==
    ASSUME StoreOK, NEW d \in Devs, Unlink(d)
    PROVE  /\ chain' \in Seq(Devs)
           /\ \A i, j \in 1..Len(chain') : chain'[i] = chain'[j] => i = j
           /\ \A e \in Devs : InChain(e)' <=> InChain(e) /\ e # d
  <1>1. chain \in Seq(Devs) /\ \A i, j \in 1..Len(chain) : chain[i] = chain[j] => i = j
    BY DEF StoreOK
  <1>2. CASE ~InChain(d)
    <2>1. chain' = chain
      BY <1>2 DEF Unlink
    <2> QED
      BY <1>1, <1>2, <2>1 DEF InChain
  <1>3. CASE InChain(d)
    <2>1. PICK i \in 1..Len(chain) :
             /\ chain[i] = d
             /\ chain' = SubSeq(chain, 1, i - 1) \o SubSeq(chain, i + 1, Len(chain))
      BY <1>3 DEF Unlink
    <2> DEFINE s == SubSeq(chain, 1, i - 1)
               t == SubSeq(chain, i + 1, Len(chain))
    <2>2. /\ s \in Seq(Devs) /\ Len(s) = i - 1
          /\ \A j \in 1..(i - 1) : s[j] = chain[j]
      BY <1>1
    <2>3. /\ t \in Seq(Devs) /\ Len(t) = Len(chain) - i /\ Len(chain) \in Nat
          /\ \A j \in 1..(Len(chain) - i) : t[j] = chain[i + j]
      BY <1>1
    <2> HIDE DEF s, t
    <2> DEFINE c == s \o t
    <2>4. /\ c \in Seq(Devs) /\ Len(c) = Len(s) + Len(t)
          /\ \A j \in 1..Len(s) : c[j] = s[j]
          /\ \A j \in 1..Len(t) : c[Len(s) + j] = t[j]
      <3>1. s \in Seq(Devs) /\ t \in Seq(Devs)
        BY <2>2, <2>3
      <3> QED
        BY <3>1
    <2>10. chain' = c
      BY <2>1 DEF s, t
    <2> HIDE DEF c
    <2>5. ASSUME NEW j \in 1..Len(c)
          PROVE  \/ j < i /\ j \in 1..Len(chain) /\ c[j] = chain[j]
                 \/ j >= i /\ j + 1 \in 1..Len(chain) /\ c[j] = chain[j + 1]
      <3>1. CASE j < i
        <4>1. j \in 1..Len(chain) /\ j \in 1..Len(s) /\ j \in 1..(i - 1)
          BY <2>2, <2>3, <3>1
        <4>2. c[j] = chain[j]
          BY <2>2, <2>4, <4>1
        <4> QED
          BY <3>1, <4>1, <4>2
      <3>2. CASE j >= i
        <4>1. PICK k \in 1..Len(t) : k = j - (i - 1) /\ (i - 1) + k = j /\ i + k = j + 1
          BY <2>2, <2>3, <2>4, <3>2
        <4>2. c[j] = t[k]
          BY <2>2, <2>4, <4>1
        <4>3. t[k] = chain[j + 1]
          BY <2>3, <4>1
        <4>4. j + 1 \in 1..Len(chain)
          BY <2>2, <2>3, <2>4, <3>2
        <4> QED
          BY <3>2, <4>2, <4>3, <4>4
      <3> QED
        BY <2>2, <2>3, <2>4, <3>1, <3>2
    <2>6. ASSUME NEW j \in 1..Len(chain), j # i
          PROVE  \E k \in 1..Len(c) : c[k] = chain[j]
      <3>1. CASE j < i
        <4>1. j \in 1..Len(c) /\ j \in 1..Len(s) /\ j \in 1..(i - 1)
          BY <2>2, <2>3, <2>4, <3>1
        <4> QED
          BY <2>2, <2>4, <4>1
      <3>2. CASE j > i
        <4>1. PICK k \in 1..Len(t) : k = j - i /\ i + k = j
          BY <2>3, <3>2
        <4>2. Len(s) \in Nat /\ Len(t) \in Nat /\ Len(c) = Len(s) + Len(t)
          BY <2>2, <2>3, <2>4
        <4>3. Len(s) + k \in 1..Len(c)
          BY <4>1, <4>2
        <4>4. c[Len(s) + k] = t[k] /\ t[k] = chain[j]
          BY <2>3, <2>4, <4>1
        <4> QED
          BY <4>3, <4>4
      <3> QED
        BY <2>6, <3>1, <3>2
    <2>7. ASSUME NEW j \in 1..Len(c), NEW k \in 1..Len(c), c[j] = c[k]
          PROVE  j = k
      <3>1. CASE j < i /\ k < i
        BY <1>1, <2>5, <2>7, <3>1
      <3>2. CASE j >= i /\ k >= i
        <4>1. j + 1 = k + 1
          BY <1>1, <2>5, <2>7, <3>2
        <4> QED
          BY <2>2, <2>3, <2>4, <4>1
      <3>3. CASE j < i /\ k >= i
        <4>1. j = k + 1
          BY <1>1, <2>5, <2>7, <3>3
        <4> QED
          BY <2>2, <2>3, <2>4, <3>3, <4>1
      <3>4. CASE j >= i /\ k < i
        <4>1. j + 1 = k
          BY <1>1, <2>5, <2>7, <3>4
        <4> QED
          BY <2>2, <2>3, <2>4, <3>4, <4>1
      <3> QED
        BY <2>2, <2>3, <2>4, <3>1, <3>2, <3>3, <3>4
    <2>8. ASSUME NEW j \in 1..Len(c)
          PROVE  c[j] # d /\ \E k \in 1..Len(chain) : chain[k] = c[j]
      <3>1. CASE j < i
        BY <1>1, <2>1, <2>5, <3>1
      <3>2. CASE j >= i
        <4>1. j + 1 # i
          BY <2>2, <2>3, <2>4, <3>2
        <4> QED
          BY <1>1, <2>1, <2>5, <3>2, <4>1
      <3> QED
        BY <2>2, <2>3, <2>4, <3>1, <3>2
    <2>9. \A e \in Devs : InChain(e)' <=> InChain(e) /\ e # d
      <3>1. ASSUME NEW e \in Devs, \E j \in 1..Len(c) : c[j] = e
            PROVE  (\E j \in 1..Len(chain) : chain[j] = e) /\ e # d
        BY <2>8, <3>1
      <3>2. ASSUME NEW e \in Devs, \E j \in 1..Len(chain) : chain[j] = e, e # d
            PROVE  \E j \in 1..Len(c) : c[j] = e
        BY <2>1, <2>6, <3>2
      <3> QED
        BY <2>10, <3>1, <3>2 DEF InChain
    <2> QED
      BY <2>4, <2>7, <2>9, <2>10
  <1> QED
    BY <1>2, <1>3

\* The modules, what they have, the chain and the stores, taken together.
KernelInv == ModStates /\ HaveInv /\ StoreOK /\ UseInv

\* The device whose notifier a step registers is not in the chain yet.
LEMMA RegistersNew ==
    ASSUME KernelInv, Acquire
    PROVE  /\ Now.res \notin have
           /\ Now.res[1] = "nb" =>
                 /\ Now.res[2] \in Devs /\ Now.res = <<"nb", Now.res[2]>>
                 /\ ~InChain(Now.res[2]) /\ Register(Now.res[2])
           /\ Now.res[1] # "nb" => UNCHANGED busVars
           /\ have' = have \cup {Now.res}
  <1>1. todo # <<>> /\ Now.act = "get"
    BY DEF Acquire, Running
  <1>2. PICK k \in 1..Len(LoadOf(loading)) :
           /\ Now = LoadOf(loading)[k]
           /\ Owned(loading) \cap have = Acquired(loading, k - 1)
    BY <1>1, NowOf DEF KernelInv
  <1>3. loading \in Mods
    BY <1>1, NowOf DEF KernelInv
  <1>4. Now.res \in Owned(loading) /\ Now.res \notin have
    BY <1>2, <1>3, AcquiredOne
  <1>5. Now.res[1] = "nb" => Now.res[2] \in Devs /\ Now.res = <<"nb", Now.res[2]>>
    BY <1>3, <1>4, OwnedApart
  <1>6. Now.res[1] = "nb" => ~InChain(Now.res[2])
    BY <1>4, <1>5 DEF KernelInv, UseInv
  <1>7. /\ Now.res[1] = "nb" => Register(Now.res[2])
        /\ Now.res[1] # "nb" => UNCHANGED busVars
        /\ have' = have \cup {Now.res}
    BY DEF Acquire
  <1> QED
    BY <1>4, <1>5, <1>6, <1>7

\* The step that releases something has it, and nothing hangs from it any more.
LEMMA ReleasesLast ==
    ASSUME KernelInv, Release
    PROVE  /\ Now.res \in have /\ have' = have \ {Now.res}
           /\ \A r \in have' : Now.res \notin Under(r)
           /\ Now.res[1] = "nb" =>
                 /\ Now.res[2] \in Devs /\ Now.res = <<"nb", Now.res[2]>>
                 /\ Unregister(Now.res[2])
           /\ Now.res[1] # "nb" => UNCHANGED busVars
  <1>1. todo # <<>> /\ Now.act = "put" /\ have' = have \ {Now.res} /\ todo \in Seq(Steps)
    BY DEF Release, Running, KernelInv, HaveInv
  <1>2. loading \in Mods /\ Undoes(todo, Owned(loading) \cap have) /\ mstate[loading] = "going"
    BY <1>1, NowOf DEF KernelInv
  <1> DEFINE R == Owned(loading) \cap have
  <1>3. Undoes(todo, R)
    BY <1>2
  <1>4. Now.res \in R /\ \A r \in R : Now.res \notin Under(r) \/ r = Now.res
    <2> HIDE DEF R
    <2> QED
      BY <1>1, <1>3, UndoesTail DEF Now
  <1>5. ASSUME NEW r \in have'
        PROVE  Now.res \notin Under(r)
    <2>1. PICK n \in Mods : r \in Owned(n)
      BY <1>1 DEF KernelInv, HaveInv
    <2>2. CASE n = loading
      BY <1>1, <1>4, <2>1, <2>2
    <2>3. CASE n # loading
      <3>1. mstate[n] # "absent"
        BY <1>1, <2>1 DEF KernelInv, HaveInv, Has
      <3>2. loading # "core"
        BY <1>2, <2>3, <3>1 DEF KernelInv, ModStates
      <3>3. Under(r) \subseteq Owned(n) \cup Owned("core")
        <4>1. PICK k \in 1..Len(LoadOf(n)) : r = LoadOf(n)[k].res
          BY <2>1, OwnedIs DEF Got
        <4>2. Under(r) \subseteq Acquired(n, k - 1) \cup Owned("core")
          BY <4>1, LaddersUndo DEF Orderly
        <4>3. Acquired(n, k - 1) \subseteq Owned(n)
          BY OwnedIs, AcquiredOne DEF Got
        <4> QED
          BY <4>2, <4>3
      <3>4. Now.res \notin Owned(n) /\ Now.res \notin Owned("core")
        BY <1>2, <1>4, <2>3, <3>2, OwnedApart DEF Mods
      <3> QED
        BY <3>3, <3>4
    <2> QED
      BY <2>2, <2>3
  <1>6. Now.res[1] = "nb" => Now.res[2] \in Devs /\ Now.res = <<"nb", Now.res[2]>>
    BY <1>2, <1>4, OwnedApart
  <1>7. /\ Now.res[1] = "nb" => Unregister(Now.res[2])
        /\ Now.res[1] # "nb" => UNCHANGED busVars
    BY DEF Release
  <1> QED
    BY <1>1, <1>4, <1>5, <1>6, <1>7

\* A store keeps its place: the chain is edited only while no store walks it.
LEMMA StoreNext == KernelInv /\ KernelNext => StoreOK'
  <1> SUFFICES ASSUME KernelInv, KernelNext
               PROVE  StoreOK'
    OBVIOUS
  <1>1. StoreOK
    BY DEF KernelInv
  <1>2. CASE Acquire
    <2>1. CASE Now.res[1] = "nb"
      <3> DEFINE d == Now.res[2]
      <3>1. d \in Devs /\ ~InChain(d) /\ Register(d)
        BY <1>2, <2>1, RegistersNew
      <3> HIDE DEF d
      <3>2. ~Walking /\ chain' = Append(chain, d) /\ store' = store
        BY <3>1 DEF Register
      <3> QED
        BY <1>1, <3>1, <3>2, AppendChain DEF StoreOK, Walking
    <2>2. CASE Now.res[1] # "nb"
      BY <1>1, <1>2, <2>2, RegistersNew DEF busVars, StoreOK, InChain
    <2> QED
      BY <2>1, <2>2
  <1>3. CASE Release
    <2>1. CASE Now.res[1] = "nb"
      <3> DEFINE d == Now.res[2]
      <3>1. d \in Devs /\ Unregister(d)
        BY <1>3, <2>1, ReleasesLast
      <3> HIDE DEF d
      <3>2. ~Walking /\ Unlink(d) /\ store' = store
        BY <3>1 DEF Unregister
      <3> QED
        BY <1>1, <3>1, <3>2, UnlinkChain DEF StoreOK, Walking
    <2>2. CASE Now.res[1] # "nb"
      BY <1>1, <1>3, <2>2, ReleasesLast DEF busVars, StoreOK, InChain
    <2> QED
      BY <2>1, <2>2
  <1>4. ASSUME NEW w \in Storers, StateStore(w)
        PROVE  StoreOK'
    BY <1>1, <1>4 DEF StateStore, Goto, StoreOK, InChain, Idle
  <1>5. ASSUME NEW w \in Storers, Store(w)
        PROVE  StoreOK'
    <2> USE <1>1 DEF StoreOK, Goto, InChain, Idle
    <2>1. CASE SetState(w)
      <3>1. chain' = chain /\ store[w].ev \in {"up", "down"}
        BY <2>1 DEF SetState
      <3>2. \/ store' = [store EXCEPT ![w] = [pc |-> "idle", ev |-> "none", left |-> <<>>]]
            \/ store' = [store EXCEPT ![w] = [pc |-> "call", ev |-> store[w].ev, left |-> <<>>]]
        BY <2>1 DEF SetState
      <3>3. CASE store' = [store EXCEPT ![w] = [pc |-> "idle", ev |-> "none", left |-> <<>>]]
        BY <3>1, <3>3
      <3>4. CASE store' = [store EXCEPT ![w] = [pc |-> "call", ev |-> store[w].ev, left |-> <<>>]]
        BY <3>1, <3>4
      <3> QED
        BY <3>2, <3>3, <3>4
    <2>2. CASE BusReset(w)
      BY <2>2 DEF BusReset
    <2>3. CASE CallChain(w)
      BY <2>3 DEF CallChain
    <2>4. CASE Notify(w)
      BY <2>4 DEF Notify
    <2>5. CASE StoreDone(w)
      BY <2>5 DEF StoreDone
    <2>6. CASE ResetUp(w)
      BY <2>6 DEF ResetUp
    <2> QED
      BY <1>5, <2>1, <2>2, <2>3, <2>4, <2>5, <2>6 DEF Store
  <1>6. CASE UNCHANGED <<chain, store>>
    BY <1>1, <1>6 DEF StoreOK, InChain
  <1>7. ASSUME NEW m \in Mods, Insmod(m)
        PROVE  UNCHANGED <<chain, store>>
    BY <1>7 DEF Insmod, busVars
  <1> QED
    BY <1>2, <1>3, <1>4, <1>5, <1>6, <1>7
    DEF KernelNext, Rmmod, AcquireFails, Returned, busVars

\* Nothing that is in use goes away: no resource before what hangs from it, no
\* notifier from the chain but with its device, no attribute before its stores,
\* no module before its open files.
LEMMA UseNext == KernelInv /\ KernelNext => UseInv'
  <1> SUFFICES ASSUME KernelInv, KernelNext
               PROVE  UseInv'
    OBVIOUS
  <1>1. UseInv /\ StoreOK /\ ModStates
    BY DEF KernelInv
  <1>2. ASSUME NEW m \in Mods, Insmod(m)
        PROVE  UseInv'
    <2>1. /\ UNCHANGED <<have, users, chain, store>>
          /\ mstate[m] = "absent" /\ mstate' = [mstate EXCEPT ![m] = "coming"]
      BY <1>2 DEF Insmod, busVars
    <2>2. \A n \in Mods : mstate[n] = "live" => mstate'[n] = "live"
      BY <1>1, <2>1 DEF ModStates
    <2> QED
      BY <1>1, <2>1, <2>2 DEF UseInv, InChain
  <1>3. ASSUME NEW m \in Mods, Rmmod(m)
        PROVE  UseInv'
    <2>1. /\ UNCHANGED <<have, users, chain, store>>
          /\ users[m] = {} /\ mstate' = [mstate EXCEPT ![m] = "going"]
      BY <1>3 DEF Rmmod, busVars
    <2>2. \A n \in Mods : n # m /\ mstate[n] = "live" => mstate'[n] = "live"
      BY <1>1, <2>1 DEF ModStates
    <2> QED
      BY <1>1, <2>1, <2>2 DEF UseInv, InChain
  <1>4. CASE Acquire
    <2>1. /\ have' = have \cup {Now.res} /\ users' = users /\ mstate' = mstate
          /\ store' = store
      BY <1>4 DEF Acquire, Register, busVars
    <2>2. Under(Now.res) \subseteq have
      <3>1. todo # <<>> /\ Now.act = "get"
        BY <1>4 DEF Acquire, Running
      <3>2. PICK k \in 1..Len(LoadOf(loading)) :
               /\ Now = LoadOf(loading)[k]
               /\ Owned(loading) \cap have = Acquired(loading, k - 1)
        BY <3>1, NowOf DEF KernelInv
      <3>3. loading \in Mods /\ mstate[loading] = "coming"
        BY <3>1, NowOf DEF KernelInv
      <3>4. Under(Now.res) \subseteq
               Acquired(loading, k - 1) \cup (IF loading = "core" THEN {} ELSE Owned("core"))
        BY <3>2, <3>3, LaddersUndo DEF Orderly
      <3>5. Acquired(loading, k - 1) \subseteq have
        BY <3>2
      <3>6. loading # "core" => Owned("core") \subseteq have
        BY <3>3 DEF KernelInv, ModStates, HaveInv, Has, Mods
      <3> QED
        BY <3>4, <3>5, <3>6
    <2>3. \A d \in Devs : InChain(d)' <=> <<"nb", d>> \in have'
      <3>1. CASE Now.res[1] = "nb"
        <4> DEFINE e == Now.res[2]
        <4>1. e \in Devs /\ ~InChain(e) /\ Register(e) /\ Now.res = <<"nb", e>>
          BY <1>4, <3>1, RegistersNew
        <4> HIDE DEF e
        <4>2. \A d \in Devs : InChain(d)' <=> InChain(d) \/ d = e
          BY <1>1, <4>1, AppendChain DEF Register
        <4> QED
          <5>1. \A d \in Devs : InChain(d) <=> <<"nb", d>> \in have
            BY <1>1 DEF UseInv
          <5>2. \A d \in Devs : <<"nb", d>> = <<"nb", e>> <=> d = e
            OBVIOUS
          <5> QED
            BY <2>1, <4>1, <4>2, <5>1, <5>2
      <3>2. CASE Now.res[1] # "nb"
        <4>1. \A d \in Devs : Now.res # <<"nb", d>>
          BY <3>2
        <4>2. chain' = chain
          BY <1>4, <3>2, RegistersNew DEF busVars
        <4> QED
          BY <1>1, <2>1, <4>1, <4>2 DEF UseInv, InChain
      <3> QED
        BY <3>1, <3>2
    <2>4. \A r \in have' : Under(r) \subseteq have'
      BY <1>1, <2>1, <2>2 DEF UseInv
    <2> QED
      BY <1>1, <2>1, <2>3, <2>4 DEF UseInv
  <1>5. CASE AcquireFails
    <2>1. UNCHANGED <<have, users, chain, store>> /\ mstate' = [mstate EXCEPT ![loading] = "going"]
      BY <1>5 DEF AcquireFails, busVars
    <2>2. \A n \in Mods : mstate[n] = "live" => mstate'[n] = "live"
      BY <1>1, <2>1 DEF ModStates
    <2> QED
      BY <1>1, <2>1, <2>2 DEF UseInv, InChain
  <1>6. CASE Release
    <2>1. /\ users' = users /\ mstate' = mstate /\ store' = store
      BY <1>6 DEF Release, Unregister, busVars
    <2>2. have' = have \ {Now.res} /\ \A r \in have' : Now.res \notin Under(r)
      BY <1>6, ReleasesLast
    <2>3. \A d \in Devs : InChain(d)' <=> <<"nb", d>> \in have'
      <3>1. CASE Now.res[1] = "nb"
        <4> DEFINE e == Now.res[2]
        <4>1. e \in Devs /\ Unregister(e) /\ Now.res = <<"nb", e>>
          BY <1>6, <3>1, ReleasesLast
        <4> HIDE DEF e
        <4>2. \A d \in Devs : InChain(d)' <=> InChain(d) /\ d # e
          BY <1>1, <4>1, UnlinkChain DEF Unregister
        <4> QED
          <5>1. \A d \in Devs : InChain(d) <=> <<"nb", d>> \in have
            BY <1>1 DEF UseInv
          <5>2. \A d \in Devs : <<"nb", d>> = <<"nb", e>> <=> d = e
            OBVIOUS
          <5> QED
            BY <2>2, <4>1, <4>2, <5>1, <5>2
      <3>2. CASE Now.res[1] # "nb"
        <4>1. \A d \in Devs : Now.res # <<"nb", d>>
          BY <3>2
        <4>2. chain' = chain
          BY <1>6, <3>2, ReleasesLast DEF busVars
        <4> QED
          BY <1>1, <2>2, <4>1, <4>2 DEF UseInv, InChain
      <3> QED
        BY <3>1, <3>2
    <2>4. \A w \in Storers : store[w] # Idle => <<"bus_attrs", "core">> \in have'
      <3>1. Now.res = <<"bus_attrs", "core">> => Now.res[1] = "bus_attrs"
        OBVIOUS
      <3>2. Now.res[1] = "bus_attrs" => \A w \in Storers : store[w] = Idle
        BY <1>6 DEF Release
      <3> QED
        BY <1>1, <2>2, <3>1, <3>2 DEF UseInv
    <2>5. \A r \in have' : Under(r) \subseteq have'
      BY <1>1, <2>2 DEF UseInv
    <2> QED
      BY <1>1, <2>1, <2>3, <2>4, <2>5 DEF UseInv
  <1>7. CASE Returned
    <2>1. /\ UNCHANGED <<have, users, chain, store>> /\ loading \in Mods
          /\ mstate' = [mstate EXCEPT ![loading] = IF @ = "coming" THEN "live" ELSE "absent"]
      BY <1>1, <1>7 DEF Returned, ModStates, busVars
    <2>2. \A n \in Mods : mstate[n] = "live" => mstate'[n] = "live"
      BY <1>1, <2>1 DEF ModStates
    <2> QED
      BY <1>1, <2>1, <2>2 DEF UseInv, InChain
  <1>8. ASSUME NEW m \in Mods, NEW u, OpenFile(m, u) \/ CloseFile(m, u),
               UNCHANGED <<mstate, loading, todo, have, busVars>>
        PROVE  UseInv'
    <2>1. UNCHANGED <<mstate, have, chain, store>>
      BY <1>8 DEF busVars
    <2>2. /\ DOMAIN users' = Mods /\ users' = [n \in Mods |-> users'[n]]
          /\ \A n \in Mods : users'[n] # {} => mstate[n] = "live"
      <3>1. CASE OpenFile(m, u)
        BY <1>1, <3>1 DEF OpenFile, UseInv
      <3>2. CASE CloseFile(m, u)
        BY <1>1, <3>2 DEF CloseFile, UseInv
      <3> QED
        BY <1>8, <3>1, <3>2
    <2> QED
      BY <1>1, <2>1, <2>2 DEF UseInv, InChain
  <1>9. ASSUME NEW w \in Storers, (AttrsWritable /\ StateStore(w)) \/ Store(w), UNCHANGED modVars
        PROVE  UseInv'
    <2>1. UNCHANGED <<mstate, have, users>>
      BY <1>9 DEF modVars
    <2>2. /\ chain' = chain
          /\ \A v \in Storers : v # w => store'[v] = store[v]
      BY <1>1, <1>9
      DEF StoreOK, StateStore, Store, Goto, SetState, BusReset, CallChain, Notify, StoreDone, ResetUp
    <2>3. <<"bus_attrs", "core">> \in have
      <3>1. CASE AttrsWritable
        BY <3>1 DEF AttrsWritable
      <3>2. CASE Store(w)
        <4>1. store[w] # Idle
          BY <3>2
          DEF Store, SetState, BusReset, CallChain, Notify, StoreDone, ResetUp, Idle
        <4> QED
          BY <1>1, <4>1 DEF UseInv
      <3> QED
        BY <1>9, <3>1, <3>2
    <2> QED
      BY <1>1, <2>1, <2>2, <2>3 DEF UseInv, InChain
  <1>10. CASE UNCHANGED <<modVars, busVars>>
    BY <1>1, <1>10 DEF UseInv, InChain, modVars, busVars
  <1> QED
    BY <1>2, <1>3, <1>4, <1>5, <1>6, <1>7, <1>8, <1>9, <1>10 DEF KernelNext

\* No module is loaded at first.
LEMMA KernelStarts == LabInit => CliTypes /\ KernelInv /\ EventsInv
  <1> SUFFICES ASSUME LabInit
               PROVE  CliTypes /\ KernelInv /\ EventsInv
    OBVIOUS
  <1> USE DEF LabInit, ModInit, BusInit
  <1>1. CliTypes
    <2>1. /\ profile \in Profiles \cup {<<>>} /\ queue \in Seq(Mods) /\ mine \in Seq(Mods)
          /\ before \subseteq Mods /\ modlist \in Seq(Mods) \cup {NoList}
      OBVIOUS
    <2>2. /\ proc \in [Pids -> {"free", "other"} \cup Daemons]
          /\ sig \in [Pids -> {"none", "term", "kill"}]
          /\ refused \in BOOLEAN /\ stray \in BOOLEAN
      OBVIOUS
    <2>3. /\ scenario \in {"bus", "prng", "cli"} /\ cmd = "none"
          /\ target \in Pids \cup {0} /\ pidfile \in Pids \cup {0}
      OBVIOUS
    <2> QED
      BY <2>1, <2>2, <2>3 DEF CliTypes
  <1>2. ModStates
    BY DEF ModStates, Mods
  <1>3. HaveInv
    BY DEF HaveInv, Has
  <1>4. StoreOK
    BY DEF StoreOK, InChain, Idle
  <1>5. UseInv
    BY DEF UseInv, InChain
  <1>6. EventsInv
    BY DEF EventsInv, InChain, Busy, Idle, MutexFree, Broadcasts
  <1> QED
    BY <1>1, <1>2, <1>3, <1>4, <1>5, <1>6 DEF KernelInv

\* Whatever the commands, the processes, the AUT and the stores do, a step keeps
\* the kernel's side of the lab in order.
LEMMA KernelKeeps == LabSpec => [](CliTypes /\ KernelInv)
  <1>1. LabInit => CliTypes /\ KernelInv
    BY KernelStarts
  <1>2. (CliTypes /\ KernelInv) /\ [LabNext]_labVars => (CliTypes /\ KernelInv)'
    <2> SUFFICES ASSUME CliTypes, KernelInv, [LabNext]_labVars
                 PROVE  CliTypes' /\ KernelInv'
      OBVIOUS
    <2>1. KernelNext /\ CliTypes'
      BY KernelSteps, CliTypesNext
    <2>2. ModStates' /\ HaveInv'
      BY <2>1, ModStatesNext, HaveNext DEF KernelInv
    <2>3. StoreOK' /\ UseInv'
      BY <2>1, StoreNext, UseNext
    <2> QED
      BY <2>1, <2>2, <2>3 DEF KernelInv
  <1> QED
    BY <1>1, <1>2, PTL DEF LabSpec

\* No user of a resource outlives it, at any step of any init function, error path
\* or exit function of the three modules, while attributes are written, events
\* are broadcast and files are open.
THEOREM NothingDangles == LabSpec => []NoDangling
  <1>1. KernelInv => NoDangling
    <2> SUFFICES ASSUME KernelInv PROVE NoDangling
      OBVIOUS
    <2>1. /\ \A r \in have : Under(r) \subseteq have
          /\ \A w \in Storers : store[w] # Idle => <<"bus_attrs", "core">> \in have
          /\ \A m \in Mods : users[m] # {} => mstate[m] = "live"
      BY DEF KernelInv, UseInv
    <2>2. ASSUME NEW w \in Storers, NEW d \in SeqSet(store[w].left)
          PROVE  <<"dev", d>> \in have
      <3>1. PICK i \in 1..Len(store[w].left) : store[w].left[i] = d
        BY DEF SeqSet
      <3>2. store[w].left # <<>>
        BY <3>1
      <3>3. InChain(d) /\ d \in Devs
        BY <3>1, <3>2 DEF KernelInv, StoreOK
      <3>4. <<"nb", d>> \in have
        BY <3>3 DEF KernelInv, UseInv
      <3>5. Under(<<"nb", d>>) = {<<"dev", d>>}
        BY UnderKind
      <3> QED
        BY <2>1, <3>4, <3>5
    <2>3. ASSUME Running("put")
          PROVE  Now.res \in have
      <3>1. todo # <<>> /\ Now.act = "put" /\ todo \in Seq(Steps)
        BY <2>3 DEF Running, KernelInv, HaveInv
      <3> DEFINE R == Owned(loading) \cap have
      <3>2. Undoes(todo, R)
        BY <3>1, NowOf DEF KernelInv
      <3> HIDE DEF R
      <3>3. Now.res \in R
        BY <3>1, <3>2, UndoesTail DEF Now
      <3> QED
        BY <3>3 DEF R
    <2> QED
      BY <2>1, <2>2, <2>3 DEF NoDangling
  <1> QED
    BY <1>1, KernelKeeps, PTL

\* insmod is all or nothing: a module that is live has all that its init function
\* acquires, one that is absent has left nothing behind.
THEOREM InsmodAllOrNothing == LabSpec => []AllOrNothing
  <1>1. KernelInv => AllOrNothing
    BY DEF KernelInv, HaveInv, Has, AllOrNothing
  <1> QED
    BY <1>1, KernelKeeps, PTL

-----------------------------------------------------------------------------
(* The events of the bus *)

\* With virtrtlab_core absent, the chain is empty and no store runs.
LEMMA CoreAbsent ==
    ASSUME KernelInv, mstate["core"] = "absent"
    PROVE  /\ \A d \in Devs : ~InChain(d)
           /\ \A w \in Storers : store[w] = Idle
  <1>1. \A m \in Mods : mstate[m] = "absent"
    BY DEF KernelInv, ModStates, Mods
  <1>2. have = {}
    BY <1>1 DEF KernelInv, HaveInv, Has
  <1> QED
    BY <1>2 DEF KernelInv, UseInv

\* A store that broadcasts has the mutex, so the state is what it broadcasts and
\* the devices it has passed have heard it.
LEMMA EventsNext == KernelInv /\ EventsInv /\ KernelNext => EventsInv'
  <1> SUFFICES ASSUME KernelInv, EventsInv, KernelNext
               PROVE  EventsInv'
    OBVIOUS
  <1>1. StoreOK /\ EventsInv
    BY DEF KernelInv
  <1>2. ASSUME NEW m \in Mods, Insmod(m)
        PROVE  EventsInv'
    <2>1. CASE m = "core"
      <3>1. /\ mstate["core"] = "absent" /\ bus_state' = "up"
            /\ UNCHANGED <<chain, seen, store>>
        BY <1>2, <2>1 DEF Insmod
      <3> QED
        BY <1>1, <3>1, CoreAbsent DEF EventsInv, Idle, Busy, MutexFree, InChain, Broadcasts
    <2>2. CASE m # "core"
      BY <1>1, <1>2, <2>2 DEF Insmod, busVars, EventsInv, Busy, MutexFree, InChain, Broadcasts
    <2> QED
      BY <2>1, <2>2
  <1>3. CASE Acquire /\ Now.res[1] = "nb"
    <2> DEFINE d == Now.res[2]
    <2>1. d \in Devs /\ ~InChain(d) /\ Register(d)
      BY <1>3, RegistersNew
    <2> HIDE DEF d
    <2>2. /\ ~Walking /\ chain' = Append(chain, d) /\ UNCHANGED <<bus_state, store>>
          /\ seen' = [seen EXCEPT ![d] = "none"]
      BY <2>1 DEF Register
    <2>3. \A e \in Devs : InChain(e)' <=> InChain(e) \/ e = d
      BY <1>1, <2>1, <2>2, AppendChain
    <2> QED
      BY <1>1, <2>1, <2>2, <2>3 DEF EventsInv, Busy, MutexFree, Walking, Broadcasts
  <1>4. CASE Release /\ Now.res[1] = "nb"
    <2> DEFINE d == Now.res[2]
    <2>1. d \in Devs /\ Unregister(d)
      BY <1>4, ReleasesLast
    <2> HIDE DEF d
    <2>2. ~Walking /\ Unlink(d) /\ UNCHANGED <<bus_state, seen, store>>
      BY <2>1 DEF Unregister
    <2>3. \A e \in Devs : InChain(e)' => InChain(e)
      BY <1>1, <2>1, <2>2, UnlinkChain
    <2> QED
      BY <1>1, <2>1, <2>2, <2>3 DEF EventsInv, Busy, MutexFree, Walking, Broadcasts
  <1>5. ASSUME NEW w \in Storers, StateStore(w)
        PROVE  EventsInv'
    <2>1. PICK e \in {"up", "down", "reset"} :
             store' = [store EXCEPT ![w] = [pc |-> "lock", ev |-> e, left |-> <<>>]]
      BY <1>5 DEF StateStore, Goto
    <2>2. UNCHANGED <<bus_state, chain, seen>> /\ store[w].pc = "idle"
      BY <1>5 DEF StateStore
    <2>3. /\ \A v \in Storers : v # w => store'[v] = store[v]
          /\ store'[w].pc = "lock"
      BY <1>1, <2>1 DEF StoreOK
    <2>4. /\ \A v \in Storers : Busy(v)' => v # w /\ Busy(v)
          /\ MutexFree' => MutexFree
      BY <2>2, <2>3 DEF Busy, MutexFree, Broadcasts
    <2> QED
      BY <1>1, <2>2, <2>3, <2>4 DEF EventsInv, InChain, Broadcasts
  <1>6. ASSUME NEW w \in Storers, Store(w)
        PROVE  EventsInv'
    <2>1. /\ store \in [Storers -> [pc : {"idle", "lock", "call", "walk"},
                                    ev : {"none", "up", "down", "reset"}, left : Seq(Devs)]]
          /\ chain \in Seq(Devs)
      BY <1>1 DEF StoreOK
    <2> USE <1>1, <2>1 DEF EventsInv, Goto, InChain, Busy, MutexFree, Broadcasts
    <2>2. CASE SetState(w)
      <3>1. /\ MutexFree /\ chain' = chain /\ seen' = seen
            /\ store[w].ev \in {"up", "down"} /\ bus_state' = store[w].ev
        BY <2>2 DEF SetState
      <3>2. CASE bus_state = store[w].ev
        <4>1. store' = [store EXCEPT ![w] = [pc |-> "idle", ev |-> "none", left |-> <<>>]]
          BY <2>2, <3>2 DEF SetState
        <4> QED
          BY <3>1, <3>2, <4>1, SMTT(30)
      <3>3. CASE bus_state # store[w].ev
        <4>1. store' = [store EXCEPT ![w] = [pc |-> "call", ev |-> store[w].ev, left |-> <<>>]]
          BY <2>2, <3>3 DEF SetState
        <4>2. /\ store'[w].pc = "call" /\ store'[w].ev = store[w].ev
              /\ \A v \in Storers : Busy(v)' => v = w
          BY <3>1, <4>1
        <4>3. \A d \in Devs : InChain(d)' => seen'[d] \in {"none", bus_state}
          BY <3>1
        <4>4. store'[w].ev = "down" => \A d \in Devs : InChain(d)' => seen'[d] # "reset"
          BY <3>1, <4>3
        <4>5. Broadcasts(w)'
          BY <3>1, <4>2, <4>4
        <4>6. ~MutexFree'
          BY <4>2
        <4> QED
          BY <3>1, <4>2, <4>5, <4>6
      <3> QED
        BY <3>2, <3>3
    <2>3. CASE BusReset(w)
      BY <2>3 DEF BusReset
    <2>4. CASE CallChain(w)
      BY <2>4 DEF CallChain
    <2>5. CASE Notify(w)
      <3> DEFINE e == store[w].ev
                 l == store[w].left
      <3>1. /\ store[w].pc = "walk" /\ l # <<>> /\ l \in Seq(Devs)
            /\ seen' = [seen EXCEPT ![Head(l)] = e]
            /\ store' = [store EXCEPT ![w] = [pc |-> "walk", ev |-> e, left |-> Tail(l)]]
            /\ UNCHANGED <<bus_state, chain>>
        BY <2>5 DEF Notify
      <3>2. /\ Head(l) = l[1] /\ Head(l) \in Devs /\ Tail(l) \in Seq(Devs)
            /\ \A i \in 1..Len(l) : l[i] = Head(l) \/ \E k \in 1..Len(Tail(l)) : Tail(l)[k] = l[i]
        <4>1. Head(l) = l[1] /\ Head(l) \in Devs /\ Tail(l) \in Seq(Devs) /\ Len(l) \in Nat
              /\ Len(Tail(l)) = Len(l) - 1 /\ \A i \in 1..Len(Tail(l)) : Tail(l)[i] = l[i + 1]
          BY <3>1, ListTail
        <4>2. ASSUME NEW i \in 1..Len(l), i # 1
              PROVE  \E k \in 1..Len(Tail(l)) : Tail(l)[k] = l[i]
          <5>1. i - 1 \in 1..Len(Tail(l)) /\ (i - 1) + 1 = i
            BY <4>1, <4>2
          <5> QED
            BY <4>1, <5>1
        <4> QED
          BY <4>1, <4>2
      <3>3. /\ store'[w] = [pc |-> "walk", ev |-> e, left |-> Tail(l)]
            /\ \A v \in Storers : v # w => store'[v] = store[v]
        BY <3>1
      <3>4. Busy(w) /\ ~MutexFree /\ ~MutexFree' /\ \A v \in Storers : Busy(v)' => v = w
        BY <3>1, <3>3
      <3>5. seen' \in [Devs -> {"none", "up", "down", "reset"}]
        BY <3>1, <3>2
      <3>6. e # "reset" => bus_state = e
        BY <3>4
      <3>7. ASSUME e = "down", NEW d \in Devs, InChain(d)
            PROVE  seen'[d] # "reset"
        BY <3>1, <3>2, <3>4, <3>7
      <3>8. ASSUME e # "reset", NEW d \in Devs, InChain(d)
            PROVE  \/ seen'[d] = e
                   \/ \E i \in 1..Len(Tail(l)) : Tail(l)[i] = d
        <4>1. seen[d] = e \/ \E i \in 1..Len(l) : l[i] = d
          BY <3>1, <3>4, <3>8
        <4>2. seen'[d] = IF d = Head(l) THEN e ELSE seen[d]
          BY <3>1
        <4> HIDE DEF l, e
        <4> QED
          BY <3>2, <4>1, <4>2
      <3> HIDE DEF e, l
      <3>9. store'[w].pc = "walk" /\ store'[w].ev = e /\ store'[w].left = Tail(l)
        BY <3>3
      <3>10. \A d \in Devs : InChain(d)' <=> InChain(d)
        BY <3>1
      <3> HIDE DEF InChain, Busy, MutexFree
      <3>11. Broadcasts(w)'
        BY <3>1, <3>6, <3>7, <3>8, <3>9, <3>10 DEF Broadcasts
      <3> HIDE DEF Broadcasts
      <3>12. bus_state' \in {"up", "down"}
        BY <3>1
      <3> HIDE <1>1, <2>1
      <3> QED
        BY <3>4, <3>5, <3>9, <3>11, <3>12
    <2>6. CASE StoreDone(w)
      BY <2>6 DEF StoreDone
    <2>7. CASE ResetUp(w)
      BY <2>7 DEF ResetUp
    <2> QED
      BY <1>6, <2>2, <2>3, <2>4, <2>5, <2>6, <2>7 DEF Store
  <1>7. CASE UNCHANGED busVars
    BY <1>1, <1>7 DEF busVars, EventsInv, InChain, Busy, MutexFree, Broadcasts
  <1>8. Acquire => Now.res[1] = "nb" \/ UNCHANGED busVars
    BY DEF Acquire
  <1>9. Release => Now.res[1] = "nb" \/ UNCHANGED busVars
    BY DEF Release
  <1>10. (\E m \in Mods : Rmmod(m)) \/ AcquireFails \/ Returned => UNCHANGED busVars
    BY DEF Rmmod, AcquireFails, Returned
  <1>11. (\E m \in Mods : Insmod(m)) \/ (\E w \in Storers : StateStore(w) \/ Store(w))
         \/ Acquire \/ Release \/ UNCHANGED busVars
    BY <1>10 DEF KernelNext, busVars
  <1> QED
    BY <1>2, <1>3, <1>4, <1>5, <1>6, <1>7, <1>8, <1>9, <1>11

\* A step after which a device has heard of something else than RESET is the UP
\* that completes it, or registers the device again.
LEMMA ResetStep ==
    ASSUME KernelInv, EventsInv, KernelNext, NEW d \in Devs,
           seen[d] = "reset", seen'[d] # "reset"
    PROVE  seen'[d] = "up" \/ ~InChain(d)
  <1>1. StoreOK /\ seen \in [Devs -> {"none", "up", "down", "reset"}]
    BY DEF KernelInv, EventsInv
  <1>2. ASSUME NEW w \in Storers, Store(w)
        PROVE  seen'[d] = "up" \/ ~InChain(d)
    <2>1. Notify(w)
      BY <1>2 DEF Store, SetState, BusReset, CallChain, StoreDone, ResetUp
    <2> DEFINE e == store[w].ev
               l == store[w].left
    <2>2. /\ store[w].pc = "walk" /\ l # <<>> /\ l \in Seq(Devs)
          /\ seen' = [seen EXCEPT ![Head(l)] = e]
          /\ e \in {"up", "down", "reset"}
      BY <1>1, <2>1 DEF Notify, StoreOK
    <2>3. d = Head(l) /\ e # "reset" /\ seen'[d] = e
      <3> HIDE DEF l, e
      <3> QED
        BY <1>1, <2>2
    <2>4. Busy(w)
      BY <2>2 DEF Busy
    <2>5. e = "down" => \A c \in Devs : InChain(c) => seen[c] # "reset"
      BY <2>4 DEF EventsInv, Broadcasts
    <2> QED
      BY <2>2, <2>3, <2>5
  <1>3. ASSUME Acquire
        PROVE  ~InChain(d)
    <2>1. Now.res[1] = "nb" /\ Register(Now.res[2]) /\ ~InChain(Now.res[2])
      BY <1>3, RegistersNew DEF busVars
    <2>2. d = Now.res[2]
      BY <1>1, <2>1 DEF Register
    <2> QED
      BY <2>1, <2>2
  <1>4. ASSUME ~Acquire, \A w \in Storers : ~Store(w)
        PROVE  seen' = seen
    BY <1>4 DEF KernelNext, Insmod, Rmmod, AcquireFails, Release, Unregister, Returned,
                StateStore, busVars
  <1> QED
    BY <1>2, <1>3, <1>4

\* Every step of the lab keeps the events of the bus in order.
LEMMA EventsKeep == LabSpec => [](CliTypes /\ KernelInv /\ EventsInv)
  <1>1. LabInit => EventsInv
    BY KernelStarts
  <1>2. CliTypes /\ KernelInv /\ EventsInv /\ [LabNext]_labVars => EventsInv'
    BY KernelSteps, EventsNext
  <1> QED
    BY <1>1, <1>2, KernelKeeps, PTL DEF LabSpec

\* Whoever writes `state' and while modules come and go: once the stores are done,
\* the last event a device heard of agrees with the state of the bus.
THEOREM EventsAgreeAlways == LabSpec => []EventsAgree
  <1>1. EventsInv => EventsAgree
    BY DEF EventsInv, EventsAgree, Busy, Broadcasts
  <1> QED
    BY <1>1, EventsKeep, PTL

\* After RESET the next event of a device is the UP that completes it.
THEOREM ResetIsCompleted == LabSpec => ResetThenUp
  <1>1. (CliTypes /\ KernelInv /\ EventsInv) /\ [LabNext]_labVars
           => [\A d \in Devs : (seen[d] = "reset" /\ seen'[d] # "reset")
                                   => seen'[d] = "up" \/ ~InChain(d)]_busVars
    BY KernelSteps, ResetStep
  <1> QED
    BY <1>1, EventsKeep, PTL DEF LabSpec, ResetThenUp

-----------------------------------------------------------------------------
(* The commands *)

\* A command that stops the daemon signals the process it found, and by the time it
\* unloads the modules that process is gone or has its SIGKILL.
LEMMA StopNext == CliTypes /\ StopInv /\ [LabNext]_labVars => StopInv'
  <1> SUFFICES ASSUME CliTypes, StopInv, [LabNext]_labVars
               PROVE  StopInv'
    OBVIOUS
  <1> USE PidAssumption
      DEF CliTypes, StopInv, cliVars, fileVars, procVars, Begin, Leave, At, Proceed,
          DaemonPid, Daemons, Send, Free
  <1>1. CASE UpBegin
    BY <1>1 DEF UpBegin
  <1>2. CASE UpSkip
    BY <1>2 DEF UpSkip
  <1>3. CASE UpInsmod
    BY <1>3 DEF UpInsmod
  <1>4. CASE UpInsmodOk
    BY <1>4 DEF UpInsmodOk
  <1>5. CASE UpInsmodFailed
    BY <1>5 DEF UpInsmodFailed
  <1>6. CASE UpRolledBack
    BY <1>6 DEF UpRolledBack
  <1>7. CASE UpSeed
    BY <1>7 DEF UpSeed
  <1>8. CASE UpList
    BY <1>8 DEF UpList
  <1>9. CASE StartBegin
    BY <1>9 DEF StartBegin
  <1>10. CASE LaunchSkip
    BY <1>10 DEF LaunchSkip
  <1>11. CASE Launch
    BY <1>11 DEF Launch
  <1>12. CASE WritePidFile
    BY <1>12 DEF WritePidFile
  <1>13. CASE PollSockets
    BY <1>13 DEF PollSockets
  <1>14. CASE Contract
    BY <1>14 DEF Contract
  <1>15. CASE Status
    BY <1>15 DEF Status
  <1>16. CASE DownBegin
    BY <1>16 DEF DownBegin
  <1>17. CASE StopBegin
    BY <1>17 DEF StopBegin
  <1>18. CASE StopFind
    BY <1>18 DEF StopFind
  <1>19. CASE StopTerm
    BY <1>19 DEF StopTerm
  <1>20. CASE StopGone
    BY <1>20 DEF StopGone
  <1>21. CASE StopKill
    BY <1>21 DEF StopKill
  <1>22. CASE StopUnpid
    BY <1>22 DEF StopUnpid
  <1>23. CASE UnloadSkip
    BY <1>23 DEF UnloadSkip
  <1>24. CASE Unload
    BY <1>24 DEF Unload
  <1>25. CASE UnloadRefused
    BY <1>25 DEF UnloadRefused
  <1>26. CASE DownEnd
    BY <1>26 DEF DownEnd
  <1>27. CASE Abandon
    BY <1>27 DEF Abandon
  <1>28. ASSUME NEW p \in Pids, DaemonReady(p)
        PROVE  StopInv'
    BY <1>28 DEF DaemonReady
  <1>29. ASSUME NEW p \in Pids, DaemonFails(p)
        PROVE  StopInv'
    BY <1>29 DEF DaemonFails
  <1>30. ASSUME NEW p \in Pids, DaemonTerm(p)
        PROVE  StopInv'
    BY <1>30 DEF DaemonTerm
  <1>31. ASSUME NEW p \in Pids, DaemonDies(p)
        PROVE  StopInv'
    BY <1>31 DEF DaemonDies
  <1>32. ASSUME NEW p \in Pids, PidReused(p)
        PROVE  StopInv'
    BY <1>32 DEF PidReused
  <1>33. ASSUME NEW p \in Pids, OtherExits(p)
        PROVE  StopInv'
    BY <1>33 DEF OtherExits
  <1>34. CASE Loading
    BY <1>34 DEF Loading
  <1>35. CASE StoreBegins
    BY <1>35 DEF StoreBegins
  <1>36. ASSUME NEW w \in Storers, Stores(w)
        PROVE  StopInv'
    BY <1>36 DEF Stores
  <1>37. CASE Draws
    BY <1>37 DEF Draws
  <1>38. CASE ModuleStep
    BY <1>38 DEF ModuleStep
  <1>39. CASE AutFiles
    BY <1>39 DEF AutFiles
  <1>40. CASE UNCHANGED labVars
    BY <1>40 DEF labVars
  <1> QED
    BY <1>1, <1>2, <1>3, <1>4, <1>5, <1>6, <1>7, <1>8, <1>9, <1>10, <1>11,
       <1>12, <1>13, <1>14, <1>15, <1>16, <1>17, <1>18, <1>19, <1>20, <1>21,
       <1>22, <1>23, <1>24, <1>25, <1>26, <1>27, <1>28, <1>29, <1>30, <1>31,
       <1>32, <1>33, <1>34, <1>35, <1>36, <1>37, <1>38, <1>39, <1>40
    DEF LabNext, Up, Down, Process

\* The lists that a command works through: virtrtlab_core first while it loads,
\* last while it unloads.
LEMMA CoreLists ==
    ASSUME NEW s \in Seq(Mods)
    PROVE  /\ CoreFirst(s) => CoreLast(Reversed(s))
           /\ CoreFirst(<<>>)
           /\ \A e \in Mods : (s = <<>> \/ (e # "core" /\ CoreFirst(s))) => CoreFirst(Append(s, e))
           /\ s # <<>> =>
                 /\ CoreFirst(s) => CoreFirst(Tail(s)) /\ "core" \notin SeqSet(Tail(s))
                 /\ CoreLast(s) => CoreLast(Tail(s))
                 /\ CoreLast(s) /\ Head(s) = "core" => SeqSet(Tail(s)) = {}
  <1>1. ASSUME CoreFirst(s)
        PROVE  CoreLast(Reversed(s))
    <2>1. Len(Reversed(s)) = Len(s) /\ \A i \in 1..Len(s) : Reversed(s)[i] = s[Len(s) + 1 - i]
      BY ListReversed
    <2>2. ASSUME NEW i \in 1..Len(s), Reversed(s)[i] = "core"
          PROVE  i = Len(s)
      <3>1. PICK j \in 1..Len(s) : j = Len(s) + 1 - i
        BY SMTT(30)
      <3>2. j = 1
        BY <1>1, <2>1, <2>2, <3>1 DEF CoreFirst
      <3> QED
        BY <3>1, <3>2
    <2> QED
      BY <2>1, <2>2 DEF CoreLast
  <1>2. CoreFirst(<<>>)
    BY DEF CoreFirst
  <1>3. ASSUME NEW e \in Mods, s = <<>> \/ (e # "core" /\ CoreFirst(s))
        PROVE  CoreFirst(Append(s, e))
    <2>1. /\ Len(Append(s, e)) = Len(s) + 1 /\ Append(s, e)[Len(s) + 1] = e
          /\ Len(s) \in Nat /\ \A i \in 1..Len(s) : Append(s, e)[i] = s[i]
      BY ListAppend
    <2>2. 1..(Len(s) + 1) = 1..Len(s) \cup {Len(s) + 1}
      BY <2>1
    <2> QED
      BY <1>3, <2>1, <2>2 DEF CoreFirst
  <1>4. ASSUME s # <<>>
        PROVE  /\ CoreFirst(s) => CoreFirst(Tail(s)) /\ "core" \notin SeqSet(Tail(s))
               /\ CoreLast(s) => CoreLast(Tail(s))
               /\ CoreLast(s) /\ Head(s) = "core" => SeqSet(Tail(s)) = {}
    <2>1. /\ Head(s) = s[1] /\ Len(s) \in Nat \ {0} /\ Len(Tail(s)) = Len(s) - 1
          /\ \A i \in 1..Len(Tail(s)) : Tail(s)[i] = s[i + 1]
      BY <1>4, ListTail
    <2>2. \A i \in 1..Len(Tail(s)) : i + 1 \in 1..Len(s) /\ i + 1 # 1
      BY <2>1
    <2>3. CoreFirst(s) => \A i \in 1..Len(Tail(s)) : Tail(s)[i] # "core"
      BY <2>1, <2>2 DEF CoreFirst
    <2>4. CoreFirst(s) => CoreFirst(Tail(s)) /\ "core" \notin SeqSet(Tail(s))
      BY <2>3 DEF CoreFirst, SeqSet
    <2>5. CoreLast(s) => CoreLast(Tail(s))
      <3> SUFFICES ASSUME CoreLast(s), NEW i \in 1..Len(Tail(s)), Tail(s)[i] = "core"
                   PROVE  i = Len(Tail(s))
        BY DEF CoreLast
      <3>1. i + 1 = Len(s)
        BY <2>1, <2>2 DEF CoreLast
      <3>5. Len(s) \in Nat /\ Len(Tail(s)) \in Nat /\ Len(Tail(s)) = Len(s) - 1
        BY <2>1
      <3>2. PICK a \in Nat, b \in Nat : a = Len(s) /\ b = Len(Tail(s)) /\ b = a - 1
        BY <3>5, Zenon
      <3>3. i \in 1..b /\ i + 1 = a
        BY <3>1, <3>2
      <3>4. i = b
        BY <3>2, <3>3
      <3> QED
        BY <3>2, <3>4
    <2>6. CoreLast(s) /\ Head(s) = "core" => SeqSet(Tail(s)) = {}
      <3> SUFFICES ASSUME CoreLast(s), Head(s) = "core"
                   PROVE  SeqSet(Tail(s)) = {}
        OBVIOUS
      <3>1. 1 \in 1..Len(s) /\ s[1] = "core"
        BY <2>1
      <3>2. Len(s) = 1
        BY <3>1 DEF CoreLast
      <3>3. Len(Tail(s)) = 0 /\ 1..0 = {}
        BY <2>1, <3>2
      <3> QED
        BY <3>3 DEF SeqSet
    <2> QED
      BY <2>4, <2>5, <2>6
  <1> QED
    BY <1>1, <1>2, <1>3, <1>4

\* A step of an init or exit function, seen by the command that waits for it.
LEMMA FunctionSteps ==
    ASSUME ModStates, ModuleStep
    PROVE  \/ UNCHANGED <<mstate, loading>> /\ Loaded' = Loaded
           \/ /\ loading \in Mods /\ loading' = loading /\ Loaded' = Loaded
              /\ mstate'[loading] = "going"
           \/ /\ loading \in Mods /\ loading' = "none"
              /\ Loaded' = IF mstate[loading] = "going" THEN Loaded \ {loading} ELSE Loaded
  <1>1. CASE Acquire \/ Release
    BY <1>1 DEF Acquire, Release, Loaded
  <1>2. CASE AcquireFails
    <2>1. /\ mstate' = [mstate EXCEPT ![loading] = "going"] /\ loading' = loading
          /\ loading \in Mods
      BY <1>2 DEF AcquireFails, Running, ModStates
    <2>2. mstate[loading] # "absent"
      BY <2>1 DEF ModStates
    <2> QED
      BY <2>1, <2>2 DEF ModStates, Loaded
  <1>3. CASE Returned
    BY <1>3 DEF Returned, ModStates, Loaded
  <1> QED
    BY <1>1, <1>2, <1>3 DEF ModuleStep

\* Which steps matter to a command: the four that begin one, those that change its
\* lists, and those of the function whose end it waits for.
LEMMA CommandSteps ==
    ASSUME CliTypes, [LabNext]_labVars, cmd' # "none"
    PROVE  /\ cmd = "none" => UpBegin \/ StartBegin \/ DownBegin \/ StopBegin
           /\ cmd # "none" => cmd' = cmd
           /\ cmd = "down" =>
                 \/ UnloadSkip \/ Unload \/ UnloadRefused \/ ModuleStep
                 \/ /\ UNCHANGED <<mstate, loading, queue, modlist, refused>>
                    /\ pc' \in {pc, "term", "wait", "unpid", "unload"}
           /\ cmd = "up" =>
                 \/ UpSkip \/ UpInsmod \/ UpInsmodOk \/ UpInsmodFailed
                 \/ UnloadSkip \/ Unload \/ UnloadRefused \/ ModuleStep
                 \/ /\ UNCHANGED <<mstate, loading, queue, mine, before, refused>>
                    /\ pc' \in {pc, "list", "launch", "pidfile", "poll", "contract"}
  <1> USE DEF LabNext, Up, Down, Process, labVars, cliVars, fileVars, kernVars, modVars,
              Begin, At, Proceed, Leave, StopFind, StopTerm, StopGone, StopKill, StopUnpid,
              DownEnd, Abandon, DaemonReady, DaemonFails, DaemonTerm, DaemonDies,
              PidReused, OtherExits, Loading, StoreBegins, Stores, Draws, AutFiles,
              UpRolledBack, UpSeed, UpList, LaunchSkip, Launch, WritePidFile,
              PollSockets, Contract, Status
  <1>1. ASSUME cmd = "none"
        PROVE  UpBegin \/ StartBegin \/ DownBegin \/ StopBegin
    BY <1>1 DEF UpSkip, UpInsmod, UpInsmodOk, UpInsmodFailed, UnloadSkip, Unload,
                UnloadRefused, ModuleStep
  <1>2. ASSUME cmd # "none"
        PROVE  cmd' = cmd
    BY <1>2 DEF UpBegin, StartBegin, DownBegin, StopBegin, UpSkip, UpInsmod, UpInsmodOk,
                UpInsmodFailed, UnloadSkip, Unload, UnloadRefused, ModuleStep
  <1>3. ASSUME cmd = "down"
        PROVE  \/ UnloadSkip \/ Unload \/ UnloadRefused \/ ModuleStep
               \/ /\ UNCHANGED <<mstate, loading, queue, modlist, refused>>
                  /\ pc' \in {pc, "term", "wait", "unpid", "unload"}
    BY <1>3 DEF CliTypes, UpBegin, StartBegin, DownBegin, StopBegin, UpSkip, UpInsmod,
                UpInsmodOk, UpInsmodFailed
  <1>4. ASSUME cmd = "up"
        PROVE  \/ UpSkip \/ UpInsmod \/ UpInsmodOk \/ UpInsmodFailed
               \/ UnloadSkip \/ Unload \/ UnloadRefused \/ ModuleStep
               \/ /\ UNCHANGED <<mstate, loading, queue, mine, before, refused>>
                  /\ pc' \in {pc, "list", "launch", "pidfile", "poll", "contract"}
    BY <1>4 DEF CliTypes, UpBegin, StartBegin, DownBegin, StopBegin
  <1> QED
    BY <1>1, <1>2, <1>3, <1>4

\* A `down' works through its list: what is loaded stays in it until its rmmod
\* runs, and virtrtlab_core is last.
LEMMA DownNext == CliTypes /\ ModStates /\ DownInv /\ [LabNext]_labVars => DownInv'
  <1> SUFFICES ASSUME CliTypes, ModStates, DownInv, [LabNext]_labVars, cmd' = "down"
               PROVE  DownInv'
    BY DEF DownInv
  <1>1. CASE cmd = "none"
    <2>1. DownBegin
      BY <1>1, CommandSteps DEF UpBegin, StartBegin, StopBegin, Begin
    <2>2. /\ pc' = "find" /\ loading' = "none" /\ modlist' = modlist /\ Loaded' = Loaded
          /\ queue' = Reversed(IF modlist = NoList THEN KnownModules ELSE modlist)
      BY <2>1 DEF DownBegin, Begin, kernVars, modVars, fileVars, Loaded
    <2>3. ASSUME modlist = NoList
          PROVE  CoreLast(queue') /\ Mods \subseteq SeqSet(queue')
      <3>1. KnownModules \in Seq(Mods) /\ CoreFirst(KnownModules) /\ Mods = SeqSet(KnownModules)
        BY DEF KnownModules, Mods, CoreFirst, SeqSet
      <3>2. queue' = Reversed(KnownModules)
        BY <2>2, <2>3
      <3> QED
        BY <3>1, <3>2, CoreLists, ListReversed
    <2>4. Loaded \subseteq Mods
      BY DEF Loaded
    <2> QED
      BY <2>2, <2>3, <2>4 DEF DownInv
  <1>2. CASE cmd = "down"
    <2> USE <1>2
    <2>1. scenario = "cli" /\ queue \in Seq(Mods)
      BY DEF CliTypes
    <2>2. ASSUME UNCHANGED <<mstate, loading, queue, modlist, refused>>,
                 pc' \in {pc, "term", "wait", "unpid", "unload"}
          PROVE  DownInv'
      <3>1. Loaded' = Loaded
        BY <2>2 DEF Loaded
      <3> QED
        BY <2>2, <3>1 DEF DownInv
    <2>3. CASE UnloadSkip
      <3>1. /\ queue # <<>> /\ Head(queue) \notin Loaded /\ queue' = Tail(queue) /\ pc' = "unload"
            /\ UNCHANGED <<mstate, loading, modlist, refused>> /\ Loaded' = Loaded
        BY <2>3 DEF UnloadSkip, Proceed, kernVars, modVars, fileVars, Loaded
      <3>2. SeqSet(queue) = {Head(queue)} \cup SeqSet(queue')
        BY <2>1, <3>1, ListTail
      <3>3. CoreLast(queue) => CoreLast(queue')
        BY <2>1, <3>1, CoreLists
      <3> QED
        BY <3>1, <3>2, <3>3 DEF DownInv
    <2>4. CASE Unload
      <3>1. /\ queue # <<>> /\ Rmmod(Head(queue)) /\ queue' = Tail(queue) /\ pc' = "unload"
            /\ UNCHANGED <<modlist, refused>>
        BY <2>4 DEF Unload, Proceed, fileVars
      <3>2. /\ SeqSet(queue) = {Head(queue)} \cup SeqSet(queue') /\ Head(queue) \in Mods
            /\ CoreLast(queue) => CoreLast(queue')
        BY <2>1, <3>1, ListTail, CoreLists
      <3>3. /\ loading = "none" /\ loading' = Head(queue) /\ mstate'[loading'] = "going"
            /\ Loaded' = Loaded
        BY <3>1, <3>2 DEF Rmmod, Loaded, ModStates
      <3>4. "none" \notin Loaded
        BY DEF Loaded, Mods
      <3> QED
        BY <3>1, <3>2, <3>3, <3>4 DEF DownInv
    <2>5. CASE UnloadRefused
      <3>1. /\ queue # <<>> /\ Head(queue) \in Loaded /\ queue' = Tail(queue) /\ pc' = "unload"
            /\ users[Head(queue)] # {} \/ Needed(Head(queue))
            /\ refused' = (refused \/ users[Head(queue)] # {})
            /\ UNCHANGED <<mstate, loading, modlist>> /\ Loaded' = Loaded /\ loading = "none"
        BY <2>5 DEF UnloadRefused, At, Proceed, kernVars, modVars, fileVars, Loaded
      <3>2. /\ SeqSet(queue) = {Head(queue)} \cup SeqSet(queue') /\ Head(queue) \in Mods
            /\ CoreLast(queue) => CoreLast(queue')
            /\ CoreLast(queue) /\ Head(queue) = "core" => SeqSet(queue') = {}
        BY <2>1, <3>1, ListTail, CoreLists
      <3>3. modlist = NoList => CoreLast(queue')
        BY <3>2 DEF DownInv
      <3>4. ~(modlist = NoList /\ ~refused')
        <4> SUFFICES ASSUME modlist = NoList, ~refused'
                     PROVE  FALSE
          OBVIOUS
        <4>1. Needed(Head(queue)) /\ ~refused
          BY <3>1
        <4>2. Head(queue) = "core"
          BY <4>1 DEF Needed
        <4>3. PICK n \in Loaded : n # "core"
          BY <4>1 DEF Needed, Loaded
        <4>4. n \in SeqSet(queue)
          <5>1. n # "none"
            BY DEF Loaded, Mods
          <5> QED
            BY <3>1, <4>1, <5>1 DEF DownInv
        <4> QED
          BY <3>2, <4>2, <4>3, <4>4 DEF DownInv
      <3> QED
        BY <3>1, <3>3, <3>4 DEF DownInv
    <2>6. CASE ModuleStep
      <3>1. UNCHANGED <<cmd, pc, queue, modlist, refused>>
        BY <2>6 DEF ModuleStep, cliVars, fileVars
      <3>2. \/ UNCHANGED <<mstate, loading>> /\ Loaded' = Loaded
            \/ /\ loading \in Mods /\ loading' = loading /\ Loaded' = Loaded
               /\ mstate'[loading] = "going"
            \/ /\ loading \in Mods /\ loading' = "none"
               /\ Loaded' = IF mstate[loading] = "going" THEN Loaded \ {loading} ELSE Loaded
        BY <2>6, FunctionSteps
      <3>3. loading \in Mods => loading # "none"
        BY DEF Mods
      <3> QED
        BY <3>1, <3>2, <3>3 DEF DownInv
    <2> QED
      BY <2>2, <2>3, <2>4, <2>5, <2>6, CommandSteps
  <1>3. CASE cmd \notin {"none", "down"}
    BY <1>3, CommandSteps
  <1> QED
    BY <1>1, <1>2, <1>3

\* An `up' loads what is missing, virtrtlab_core first, and remembers what it has
\* loaded; its rollback works through that backwards.
LEMMA UpNext == CliTypes /\ ModStates /\ UpInv /\ [LabNext]_labVars => UpInv'
  <1> SUFFICES ASSUME CliTypes, ModStates, UpInv, [LabNext]_labVars, cmd' = "up"
               PROVE  UpInv'
    BY DEF UpInv
  <1>1. "none" \notin Mods /\ Loaded \subseteq Mods
    BY DEF Loaded, Mods
  <1>2. CASE cmd = "none"
    <2>1. UpBegin
      BY <1>2, CommandSteps DEF DownBegin, StartBegin, StopBegin, Begin
    <2>2. /\ pc' \in {"load", "contract"} /\ loading' = "none" /\ Loaded' = Loaded
          /\ before' = Loaded /\ mine' = <<>> /\ profile' \in Profiles
          /\ pc' = "load" => queue' = <<"core">> \o profile'
      BY <2>1 DEF UpBegin, Begin, kernVars, modVars, Loaded
    <2>3. \A m \in Loaded : "core" \in Loaded
      BY <2>1 DEF ModStates, Loaded, Mods
    <2>4. pc' = "load" => CoreFirst(queue')
      <3>1. CoreFirst(<<"core">> \o <<"uart">>)
        BY DEF CoreFirst
      <3>2. CoreFirst(<<"core">> \o <<"gpio">>)
        BY DEF CoreFirst
      <3>3. CoreFirst(<<"core">> \o <<"uart", "gpio">>)
        BY DEF CoreFirst
      <3> QED
        BY <2>2, <3>1, <3>2, <3>3 DEF Profiles
    <2>5. SeqSet(<<>>) = {} /\ CoreFirst(<<>>)
      BY DEF SeqSet, CoreFirst
    <2> QED
      BY <2>2, <2>3, <2>4, <2>5 DEF UpInv
  <1>3. CASE cmd = "up"
    <2> USE <1>3
    <2>1. queue \in Seq(Mods) /\ mine \in Seq(Mods) /\ before \subseteq Mods
          /\ (pc = "insmod" => queue # <<>>)
      BY DEF CliTypes
    <2>2. ASSUME UNCHANGED <<mstate, loading, queue, mine, before, refused>>,
                 pc' \in {pc, "list", "launch", "pidfile", "poll", "contract"}
          PROVE  UpInv'
      <3>1. Loaded' = Loaded
        BY <2>2 DEF Loaded
      <3> QED
        BY <2>2, <3>1 DEF UpInv
    <2>3. CASE UpSkip
      <3>1. /\ pc = "load" /\ pc' = "load" /\ queue # <<>> /\ queue' = Tail(queue)
            /\ UNCHANGED <<mstate, loading, mine, before>> /\ Loaded' = Loaded
        BY <2>3 DEF UpSkip, At, Proceed, kernVars, modVars, Loaded
      <3>2. CoreFirst(queue) => CoreFirst(queue') /\ "core" \notin SeqSet(queue')
        BY <2>1, <3>1, CoreLists
      <3> QED
        BY <3>1, <3>2 DEF UpInv
    <2>4. CASE UpInsmod
      <3>1. /\ pc = "load" /\ pc' = "insmod" /\ queue # <<>> /\ queue' = queue
            /\ Head(queue) \notin Loaded /\ Insmod(Head(queue))
            /\ UNCHANGED <<mine, before>>
        BY <2>4 DEF UpInsmod, At, Proceed
      <3>2. Head(queue) \in Mods
        BY <2>1, <3>1, ListTail
      <3>3. loading' = Head(queue) /\ Loaded' = Loaded \cup {Head(queue)}
        BY <3>1, <3>2 DEF Insmod, Loaded, ModStates
      <3>4. Loaded' \ {Head(queue)} = Loaded
        BY <3>1, <3>3
      <3> QED
        BY <3>1, <3>3, <3>4 DEF UpInv
    <2>5. CASE UpInsmodOk
      <3>1. /\ pc = "insmod" /\ pc' = "load" /\ loading = "none" /\ Head(queue) \in Loaded
            /\ queue' = Tail(queue) /\ mine' = Append(mine, Head(queue))
            /\ UNCHANGED <<mstate, loading, before>> /\ Loaded' = Loaded
        BY <2>5 DEF UpInsmodOk, At, Proceed, kernVars, modVars, Loaded
      <3> DEFINE m == Head(queue)
      <3>2. m \in Mods /\ m \in SeqSet(queue)
        BY <2>1, <3>1, ListTail
      <3>3. SeqSet(mine') = SeqSet(mine) \cup {m}
        BY <2>1, <3>1, <3>2, ListAppend
      <3>4. /\ CoreFirst(queue) /\ CoreFirst(mine) /\ ("core" \in SeqSet(queue) => mine = <<>>)
            /\ before \cap SeqSet(mine) = {} /\ m \notin before \cup SeqSet(mine)
            /\ Loaded \ {m} = before \cup SeqSet(mine)
        BY <3>1 DEF UpInv
      <3>5. CoreFirst(queue') /\ "core" \notin SeqSet(queue')
        BY <2>1, <3>1, <3>4, CoreLists
      <3>6. CoreFirst(mine')
        BY <2>1, <3>1, <3>2, <3>4, CoreLists
      <3>7. before \cap SeqSet(mine') = {} /\ Loaded = before \cup SeqSet(mine')
        BY <3>1, <3>3, <3>4
      <3>8. \A n \in before : "core" \in before
        BY DEF UpInv
      <3> QED
        BY <3>1, <3>5, <3>6, <3>7, <3>8 DEF UpInv
    <2>6. CASE UpInsmodFailed
      <3>1. /\ pc = "insmod" /\ pc' = "unload" /\ loading = "none" /\ Head(queue) \notin Loaded
            /\ queue' = Reversed(mine)
            /\ UNCHANGED <<mstate, loading, before>> /\ Loaded' = Loaded
        BY <2>6 DEF UpInsmodFailed, At, Proceed, kernVars, modVars, Loaded
      <3>2. /\ CoreFirst(mine) /\ before \cap SeqSet(mine) = {}
            /\ Loaded \ {Head(queue)} = before \cup SeqSet(mine)
            /\ \A n \in before : "core" \in before
        BY <3>1 DEF UpInv
      <3>3. SeqSet(queue') = SeqSet(mine) /\ CoreLast(queue')
        BY <2>1, <3>1, <3>2, ListReversed, CoreLists
      <3>4. Loaded = before \cup SeqSet(mine)
        BY <3>1, <3>2
      <3> QED
        BY <1>1, <2>1, <3>1, <3>2, <3>3, <3>4 DEF UpInv
    <2>7. CASE UnloadSkip
      <3>1. /\ pc = "unload" /\ pc' = "unload" /\ queue # <<>> /\ Head(queue) \notin Loaded
            /\ queue' = Tail(queue)
            /\ UNCHANGED <<mstate, loading, before, refused>> /\ Loaded' = Loaded
        BY <2>7 DEF UnloadSkip, At, Proceed, kernVars, modVars, Loaded
      <3>2. /\ SeqSet(queue) = {Head(queue)} \cup SeqSet(queue')
            /\ CoreLast(queue) => CoreLast(queue')
        BY <2>1, <3>1, ListTail, CoreLists
      <3> QED
        BY <3>1, <3>2 DEF UpInv
    <2>8. CASE Unload
      <3>1. /\ pc = "unload" /\ pc' = "unload" /\ queue # <<>> /\ Rmmod(Head(queue))
            /\ queue' = Tail(queue) /\ UNCHANGED <<before, refused>>
        BY <2>8 DEF Unload, At, Proceed
      <3>2. /\ SeqSet(queue) = {Head(queue)} \cup SeqSet(queue') /\ Head(queue) \in Mods
            /\ CoreLast(queue) => CoreLast(queue')
        BY <2>1, <3>1, ListTail, CoreLists
      <3>3. /\ loading = "none" /\ loading' = Head(queue) /\ mstate'[loading'] = "going"
            /\ Loaded' = Loaded
        BY <3>1, <3>2 DEF Rmmod, Loaded, ModStates
      <3> QED
        BY <1>1, <3>1, <3>2, <3>3 DEF UpInv
    <2>9. CASE UnloadRefused
      <3>1. /\ pc = "unload" /\ pc' = "unload" /\ queue # <<>> /\ Head(queue) \in Loaded
            /\ queue' = Tail(queue) /\ (users[Head(queue)] # {} \/ Needed(Head(queue)))
            /\ refused' = (refused \/ users[Head(queue)] # {})
            /\ UNCHANGED <<mstate, loading, before>> /\ Loaded' = Loaded /\ loading = "none"
        BY <2>9 DEF UnloadRefused, At, Proceed, kernVars, modVars, Loaded
      <3>2. /\ SeqSet(queue) = {Head(queue)} \cup SeqSet(queue')
            /\ CoreLast(queue) => CoreLast(queue')
            /\ CoreLast(queue) /\ Head(queue) = "core" => SeqSet(queue') = {}
        <4>1. queue # <<>> /\ queue' = Tail(queue)
          BY <3>1
        <4>2. SeqSet(queue) = {Head(queue)} \cup SeqSet(Tail(queue))
          BY <2>1, <4>1, ListTail
        <4>3. /\ CoreLast(queue) => CoreLast(Tail(queue))
              /\ CoreLast(queue) /\ Head(queue) = "core" => SeqSet(Tail(queue)) = {}
          BY <2>1, <4>1, CoreLists
        <4> QED
          BY <4>1, <4>2, <4>3
      <3>3. /\ before \subseteq Loaded /\ before \cap SeqSet(queue) = {} /\ CoreLast(queue)
            /\ \A n \in before : "core" \in before
        BY <3>1 DEF UpInv
      <3>4. ASSUME ~refused'
            PROVE  FALSE
        <4>1. Needed(Head(queue)) /\ ~refused
          BY <3>1, <3>4
        <4>2. Head(queue) = "core"
          BY <4>1 DEF Needed
        <4>3. PICK n \in Loaded : n # "core"
          BY <4>1 DEF Needed, Loaded
        <4>4. n \in before \cup SeqSet(queue) \cup {loading}
          BY <3>1, <4>1 DEF UpInv
        <4>5. n # "none" /\ n \notin before
          BY <1>1, <3>2, <3>3, <4>2
        <4> QED
          BY <3>1, <3>2, <3>3, <4>2, <4>3, <4>4, <4>5
      <3> QED
        BY <1>1, <2>1, <3>1, <3>2, <3>3, <3>4 DEF UpInv
    <2>10. CASE ModuleStep
      <3>1. UNCHANGED <<cmd, pc, queue, mine, before, refused>>
        BY <2>10 DEF ModuleStep, cliVars
      <3>2. \/ UNCHANGED <<mstate, loading>> /\ Loaded' = Loaded
            \/ /\ loading \in Mods /\ loading' = loading /\ Loaded' = Loaded
               /\ mstate'[loading] = "going"
            \/ /\ loading \in Mods /\ loading' = "none"
               /\ Loaded' = IF mstate[loading] = "going" THEN Loaded \ {loading} ELSE Loaded
        BY <2>10, FunctionSteps
      <3>3. CASE UNCHANGED <<mstate, loading>> /\ Loaded' = Loaded
        BY <3>1, <3>3 DEF UpInv
      <3>4. CASE /\ loading \in Mods /\ loading' = loading /\ Loaded' = Loaded
                 /\ mstate'[loading] = "going"
        BY <3>1, <3>4 DEF UpInv
      <3>5. CASE /\ loading \in Mods /\ loading' = "none"
                 /\ Loaded' = IF mstate[loading] = "going" THEN Loaded \ {loading} ELSE Loaded
        BY <1>1, <2>1, <3>1, <3>5 DEF UpInv
      <3> QED
        BY <3>2, <3>3, <3>4, <3>5
    <2> QED
      BY <2>2, <2>3, <2>4, <2>5, <2>6, <2>7, <2>8, <2>9, <2>10, CommandSteps
  <1>4. CASE cmd \notin {"none", "up"}
    BY <1>4, CommandSteps
  <1> QED
    BY <1>2, <1>3, <1>4

\* Every step of the lab keeps what the commands rely on.
LEMMA CommandsKeep == LabSpec => [](StopInv /\ DownInv /\ UpInv)
  <1>1. LabInit => StopInv /\ DownInv /\ UpInv
    BY DEF LabInit, StopInv, DownInv, UpInv
  <1>2. (CliTypes /\ KernelInv) /\ (StopInv /\ DownInv /\ UpInv) /\ [LabNext]_labVars
           => (StopInv /\ DownInv /\ UpInv)'
    BY StopNext, DownNext, UpNext DEF KernelInv
  <1> QED
    BY <1>1, <1>2, KernelKeeps, PTL DEF LabSpec

\* An `up' whose insmod fails half way leaves loaded exactly what was loaded before
\* it, unless the AUT already holds one of its modules open.
THEOREM RollbackRestoresAlways == LabSpec => []RollbackRestores
  <1>1. (CliTypes /\ KernelInv) /\ (StopInv /\ DownInv /\ UpInv) => RollbackRestores
    <2> SUFFICES ASSUME CliTypes, UpInv, At({"up"}, "unload"), queue = <<>>, ~refused
                 PROVE  Loaded = before
      BY DEF RollbackRestores
    <2>1. cmd = "up" /\ pc = "unload" /\ loading = "none"
      BY DEF At
    <2>2. SeqSet(queue) = {} /\ "none" \notin Loaded
      BY DEF SeqSet, Loaded, Mods
    <2> QED
      BY <2>1, <2>2 DEF UpInv
  <1> QED
    BY <1>1, KernelKeeps, CommandsKeep, PTL

\* A `down' without modules.list leaves nothing loaded, whatever failures, kills and
\* crashes came before it, unless somebody holds a module open; and the daemon
\* it found is gone or about to be.
THEOREM DownRecoversAlways == LabSpec => []DownRecovers
  <1>1. StopInv /\ DownInv /\ UpInv => DownRecovers
    <2> SUFFICES ASSUME StopInv, DownInv
                 PROVE  DownRecovers
      OBVIOUS
    <2>1. ASSUME At({"down"}, "unload"), queue = <<>>, modlist = NoList, ~refused
          PROVE  Loaded = {}
      <3>1. cmd = "down" /\ loading = "none"
        BY <2>1 DEF At
      <3>2. SeqSet(queue) = {} /\ "none" \notin Loaded
        BY <2>1 DEF SeqSet, Loaded, Mods
      <3> QED
        BY <2>1, <3>1, <3>2 DEF DownInv
    <2>2. ASSUME At({"down", "stop"}, "unload"), target # 0
          PROVE  proc[target] = "free" \/ sig[target] = "kill"
      BY <2>2 DEF StopInv, At
    <2> QED
      BY <2>1, <2>2 DEF DownRecovers
  <1> QED
    BY <1>1, CommandsKeep, PTL

\* _daemon_pid() keeps a stale daemon.pid from making a command signal a process
\* that is not a virtrtlabd.
THEOREM SignalsOnlyDaemonAlways == LabSpec => []SignalsOnlyDaemon
  <1>1. StopInv /\ DownInv /\ UpInv => SignalsOnlyDaemon
    BY DEF StopInv, SignalsOnlyDaemon
  <1> QED
    BY <1>1, CommandsKeep, PTL

-----------------------------------------------------------------------------
(* The random source of the bus *)

\* virtrtlab_core starts with the default seed at every load, and whatever is drawn
\* and written until it goes, the random state never is zero.
THEOREM PrngSafeInLab == LabSpec => []PrngNeverZero
  <1>1. LabInit => PrngNeverZero
    BY DEF LabInit, ModInit, PrngInit, PrngNeverZero, DefaultSeed, Word, Bits
  <1>2. PrngNeverZero /\ [LabNext]_labVars => PrngNeverZero'
    <2> SUFFICES ASSUME PrngNeverZero, [LabNext]_labVars
                 PROVE  PrngNeverZero'
      OBVIOUS
    <2>1. CASE NextPrng
      <3>1. prng' = Xorshift(prng)
        BY <2>1 DEF NextPrng, PrngNeverZero
      <3> QED
        BY <3>1, XorshiftNonZero DEF PrngNeverZero
    <2>2. ASSUME NEW v \in Seeds, SeedStore(v)
          PROVE  PrngNeverZero'
      BY <2>2, SeedAssumption DEF SeedStore, PrngNeverZero
    <2>3. CASE prng' = DefaultSeed
      BY <2>3 DEF PrngNeverZero, DefaultSeed, Word, Bits
    <2>4. CASE prng' = prng
      BY <2>4 DEF PrngNeverZero
    <2>5. ASSUME NEW m, Insmod(m)
          PROVE  prng' \in {prng, DefaultSeed}
      BY <2>5 DEF Insmod, prngVars
    <2>6. CASE Up
      BY <2>2, <2>3, <2>4, <2>5, <2>6
      DEF Up, UpBegin, UpSkip, UpInsmod, UpInsmodOk, UpInsmodFailed, UpRolledBack, UpSeed,
          UpList, StartBegin, LaunchSkip, Launch, WritePidFile, PollSockets, Contract,
          Status, kernVars, prngVars
    <2>7. CASE Down \/ Abandon
      BY <2>4, <2>7
      DEF Down, DownBegin, StopBegin, StopFind, StopTerm, StopGone, StopKill, StopUnpid,
          UnloadSkip, Unload, Rmmod, UnloadRefused, DownEnd, Abandon, kernVars, prngVars
    <2>8. ASSUME NEW p \in Pids, Process(p)
          PROVE  PrngNeverZero'
      BY <2>4, <2>8
      DEF Process, DaemonReady, DaemonFails, DaemonTerm, DaemonDies, PidReused, OtherExits,
          kernVars, prngVars
    <2>9. CASE Loading \/ StoreBegins \/ (\E w \in Storers : Stores(w)) \/ ModuleStep \/ AutFiles
      BY <2>3, <2>4, <2>5, <2>9
      DEF Loading, Rmmod, StoreBegins, Stores, ModuleStep, Acquire, AcquireFails, Release,
          Returned, AutFiles, prngVars
    <2>10. CASE Draws
      BY <2>1, <2>2, <2>10 DEF Draws
    <2>11. CASE UNCHANGED labVars
      BY <2>4, <2>11 DEF labVars, kernVars, prngVars
    <2> QED
      BY <2>6, <2>7, <2>8, <2>9, <2>10, <2>11 DEF LabNext
  <1> QED
    BY <1>1, <1>2, PTL DEF LabSpec

=============================================================================
