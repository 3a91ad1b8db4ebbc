---------------------------- MODULE DaemonProofs ----------------------------
(***************************************************************************)
(* Proofs about module Daemon, for every set of instances.                 *)
(*                                                                         *)
(* The invariants speak about the points between two handlers.  DaemonInv  *)
(* fills in the rest: AtWork says what each step of a handler has done to  *)
(* the instance it works on, AtRest that the others are as between two     *)
(* handlers, and ServerEvents why an event in the batch is still true.     *)
(***************************************************************************)
EXTENDS Daemon, TLAPS

\* The state main() starts from.
LEMMA InitInv == Init => DaemonInv
  <1> SUFFICES ASSUME Init PROVE DaemonInv
    OBVIOUS
  <1>1. TypeOK
    <2>1. port_active \in [Insts -> BOOLEAN]
      <3>1. CASE "tty" \in Env
        BY <3>1 DEF Init
      <3>2. CASE "tty" \notin Env
        BY <3>2 DEF Init
      <3> QED
        BY <3>1, <3>2
    <2>2. /\ loop = "init" /\ cur \in Insts /\ chunk = 0 /\ batch = {}
          /\ rx = [i \in Insts |-> 0] /\ backlog = [i \in Insts |-> 0]
          /\ sock_in = [i \in Insts |-> 0] /\ sock_out = [i \in Insts |-> 0]
      BY DEF Init
    <2>3. /\ wire_fd \in [Insts -> BOOLEAN] /\ server_fd \in [Insts -> BOOLEAN]
          /\ client_fd \in [Insts -> BOOLEAN] /\ old \in [Insts -> BOOLEAN]
          /\ reset_pending \in [Insts -> BOOLEAN] /\ sigterm \in BOOLEAN
          /\ state \in [Insts -> {"WAIT_CLIENT", "RELAYING"}]
          /\ watch \in [Insts -> SUBSET Roles]
          /\ peer \in [Insts -> {"none", "up", "closed"}]
      BY Zenon DEF Init
    <2> QED
      BY <2>1, <2>2, <2>3, CapAssumption DEF TypeOK, Between
  <1>2. RelayInv /\ LostWireIsOffline /\ \A i \in Insts : ServerEvents(i)
    BY DEF Init, RelayInv, AtRest, InHandler, Between, LostWireIsOffline,
           ServerEvents
  <1> QED
    BY <1>1, <1>2 DEF DaemonInv

\* Types.  accept() finds the connection that was reported, so backlog does
\* not go below zero.
LEMMA TypeNext == DaemonInv /\ [Next]_vars => TypeOK'
  <1> SUFFICES ASSUME DaemonInv, [Next]_vars
               PROVE  TypeOK'
    OBVIOUS
  <1> USE CapAssumption
      DEF DaemonInv, TypeOK, Between, Roles, Set, instVars, wireVars, sockVars,
          loopVars
  <1>1. ASSUME NEW i \in Insts, InstanceInit(i)
        PROVE  TypeOK'
    BY <1>1 DEF InstanceInit
  <1>2. CASE InitFails
    BY <1>2 DEF InitFails, ExitAll
  <1>3. CASE EpollWait
    BY <1>3 DEF EpollWait, Ready
  <1>4. CASE BatchDone
    BY <1>4 DEF BatchDone
  <1>5. ASSUME NEW i \in Insts, NEW role \in Roles, StaleEvent(i, role)
        PROVE  TypeOK'
    BY <1>5 DEF StaleEvent, Take
  <1>6. ASSUME NEW i \in Insts, OnServer(i)
        PROVE  TypeOK'
    BY <1>6 DEF OnServer, Take, EpollAdd, ServerEvents
  <1>7. ASSUME NEW i \in Insts, OnWire(i)
        PROVE  TypeOK'
    BY <1>7 DEF OnWire, Take
  <1>8. ASSUME NEW i \in Insts, ClientBytes(i)
        PROVE  TypeOK'
    BY <1>8 DEF ClientBytes, Take
  <1>9. ASSUME NEW i \in Insts, ClientGone(i)
        PROVE  TypeOK'
    BY <1>9 DEF ClientGone, Take
  <1>10. CASE OnSignal
    BY <1>10 DEF OnSignal, ExitAll
  <1>11. CASE ReadBytes
    BY <1>11 DEF ReadBytes
  <1>12. CASE ReadEof
    BY <1>12 DEF ReadEof, CloseWire
  <1>13. CASE Reopened
    BY <1>13 DEF Reopened, OpenWire, DropClient, EnterWaitClient, EpollAdd
  <1>14. CASE ReopenFails
    BY <1>14 DEF ReopenFails, DropClient
  <1>15. CASE ReadFails
    BY <1>15 DEF ReadFails
  <1>16. CASE SendBytes
    BY <1>16 DEF SendBytes
  <1>17. CASE SendFails
    BY <1>17 DEF SendFails
  <1>18. CASE CloseClient
    BY <1>18 DEF CloseClient, DropClient
  <1>19. CASE CloseClientNoWire
    BY <1>19 DEF CloseClientNoWire, DropClient, EnterWaitClient, EpollAdd
  <1>20. CASE DrainBytes
    BY <1>20 DEF DrainBytes
  <1>21. CASE DrainEmpty
    BY <1>21 DEF DrainEmpty, EnterWaitClient, EpollAdd
  <1>22. CASE DrainEof
    BY <1>22 DEF DrainEof, CloseWire
  <1>23. CASE DrainReopened
    BY <1>23 DEF DrainReopened, OpenWire, EnterWaitClient, EpollAdd
  <1>24. CASE DrainReopenFails
    BY <1>24 DEF DrainReopenFails
  <1>25. CASE SigTerm
    BY <1>25 DEF SigTerm
  <1>26. ASSUME NEW i \in Insts, SimConnect(i)
        PROVE  TypeOK'
    BY <1>26 DEF SimConnect
  <1>27. ASSUME NEW i \in Insts, SimSend(i)
        PROVE  TypeOK'
    BY <1>27 DEF SimSend
  <1>28. ASSUME NEW i \in Insts, SimRead(i)
        PROVE  TypeOK'
    BY <1>28 DEF SimRead
  <1>29. ASSUME NEW i \in Insts, SimClose(i)
        PROVE  TypeOK'
    BY <1>29 DEF SimClose
  <1>30. ASSUME NEW i \in Insts, TtyToggle(i)
        PROVE  TypeOK'
    BY <1>30 DEF TtyToggle
  <1>31. ASSUME NEW i \in Insts, AutByte(i)
        PROVE  TypeOK'
    BY <1>31 DEF AutByte
  <1>32. ASSUME NEW i \in Insts, BusReset(i)
        PROVE  TypeOK'
    BY <1>32 DEF BusReset
  <1>33. CASE UNCHANGED vars
    BY <1>33 DEF vars
  <1> QED
    BY <1>1, <1>2, <1>3, <1>4, <1>5, <1>6, <1>7, <1>8, <1>9, <1>10, <1>11,
       <1>12, <1>13, <1>14, <1>15, <1>16, <1>17, <1>18, <1>19, <1>20, <1>21,
       <1>22, <1>23, <1>24, <1>25, <1>26, <1>27, <1>28, <1>29, <1>30, <1>31,
       <1>32, <1>33
    DEF Next, DaemonStep, Handlers, Environment

\* Every step of every handler leaves its instance as the next step expects it,
\* and the other instances at rest.
LEMMA RelayNext == DaemonInv /\ TypeOK' /\ [Next]_vars => RelayInv'
  <1> SUFFICES ASSUME DaemonInv, TypeOK', [Next]_vars
               PROVE  RelayInv'
    OBVIOUS
  <1> USE DEF DaemonInv, TypeOK, RelayInv, InHandler, Between, AtWork, AtRest,
              Settled, Closing, Set, instVars, wireVars, sockVars, loopVars
  <1>1. ASSUME NEW i \in Insts, InstanceInit(i)
        PROVE  RelayInv'
    BY <1>1 DEF InstanceInit, LostWireIsOffline
  <1>2. CASE InitFails
    BY <1>2 DEF InitFails, ExitAll
  <1>3. CASE EpollWait
    BY <1>3 DEF EpollWait, Ready
  <1>4. CASE BatchDone
    BY <1>4 DEF BatchDone
  <1>5. ASSUME NEW i \in Insts, NEW role \in Roles, StaleEvent(i, role)
        PROVE  RelayInv'
    BY <1>5 DEF StaleEvent, Take
  <1>6. ASSUME NEW i \in Insts, OnServer(i)
        PROVE  RelayInv'
    BY <1>6 DEF OnServer, Take, EpollAdd
  <1>7. ASSUME NEW i \in Insts, OnWire(i)
        PROVE  RelayInv'
    BY <1>7 DEF OnWire, Take
  <1>8. ASSUME NEW i \in Insts, ClientBytes(i)
        PROVE  RelayInv'
    BY <1>8 DEF ClientBytes, Take
  <1>9. ASSUME NEW i \in Insts, ClientGone(i)
        PROVE  RelayInv'
    BY <1>9 DEF ClientGone, Take
  <1>10. CASE OnSignal
    BY <1>10 DEF OnSignal, ExitAll
  <1>11. CASE ReadBytes
    BY <1>11 DEF ReadBytes
  <1>12. CASE ReadEof
    BY <1>12 DEF ReadEof, CloseWire
  <1>13. CASE Reopened
    BY <1>13 DEF Reopened, OpenWire, DropClient, EnterWaitClient, EpollAdd
  <1>14. CASE ReopenFails
    BY <1>14 DEF ReopenFails, DropClient
  <1>15. CASE ReadFails
    BY <1>15 DEF ReadFails
  <1>16. CASE SendBytes
    BY <1>16 DEF SendBytes
  <1>17. CASE SendFails
    BY <1>17 DEF SendFails
  <1>18. CASE CloseClient
    BY <1>18 DEF CloseClient, DropClient
  <1>19. CASE CloseClientNoWire
    BY <1>19 DEF CloseClientNoWire, DropClient, EnterWaitClient, EpollAdd
  <1>20. CASE DrainBytes
    BY <1>20 DEF DrainBytes
  <1>21. CASE DrainEmpty
    BY <1>21 DEF DrainEmpty, EnterWaitClient, EpollAdd
  <1>22. CASE DrainEof
    BY <1>22 DEF DrainEof, CloseWire
  <1>23. CASE DrainReopened
    BY <1>23 DEF DrainReopened, OpenWire, EnterWaitClient, EpollAdd
  <1>24. CASE DrainReopenFails
    BY <1>24 DEF DrainReopenFails
  <1>25. CASE SigTerm
    BY <1>25 DEF SigTerm
  <1>26. ASSUME NEW i \in Insts, SimConnect(i)
        PROVE  RelayInv'
    BY <1>26 DEF SimConnect
  <1>27. ASSUME NEW i \in Insts, SimSend(i)
        PROVE  RelayInv'
    BY <1>27 DEF SimSend
  <1>28. ASSUME NEW i \in Insts, SimRead(i)
        PROVE  RelayInv'
    BY <1>28 DEF SimRead
  <1>29. ASSUME NEW i \in Insts, SimClose(i)
        PROVE  RelayInv'
    BY <1>29 DEF SimClose
  <1>30. ASSUME NEW i \in Insts, TtyToggle(i)
        PROVE  RelayInv'
    BY <1>30 DEF TtyToggle
  <1>31. ASSUME NEW i \in Insts, AutByte(i)
        PROVE  RelayInv'
    BY <1>31 DEF AutByte
  <1>32. ASSUME NEW i \in Insts, BusReset(i)
        PROVE  RelayInv'
    BY <1>32 DEF BusReset
  <1>33. CASE UNCHANGED vars
    BY <1>33 DEF vars
  <1> QED
    BY <1>1, <1>2, <1>3, <1>4, <1>5, <1>6, <1>7, <1>8, <1>9, <1>10, <1>11,
       <1>12, <1>13, <1>14, <1>15, <1>16, <1>17, <1>18, <1>19, <1>20, <1>21,
       <1>22, <1>23, <1>24, <1>25, <1>26, <1>27, <1>28, <1>29, <1>30, <1>31,
       <1>32, <1>33
    DEF Next, DaemonStep, Handlers, Environment

\* A wire is lost only with the simulator disconnected and nothing of the
\* instance registered in epoll but, later, its socket.
LEMMA LostNext == DaemonInv /\ TypeOK' /\ [Next]_vars => LostWireIsOffline'
  <1> SUFFICES ASSUME DaemonInv, TypeOK', [Next]_vars
               PROVE  LostWireIsOffline'
    OBVIOUS
  <1> USE DEF DaemonInv, TypeOK, LostWireIsOffline, Set, instVars, wireVars,
              sockVars, loopVars
  <1>1. ASSUME NEW i \in Insts, InstanceInit(i)
        PROVE  LostWireIsOffline'
    BY <1>1
    DEF InstanceInit, Roles, InHandler, Between, AtWork, AtRest, Settled,
        Closing, RelayInv
  <1>2. CASE InitFails
    BY <1>2 DEF InitFails, ExitAll
  <1>3. CASE EpollWait
    BY <1>3 DEF EpollWait, Ready
  <1>4. CASE BatchDone
    BY <1>4 DEF BatchDone
  <1>5. ASSUME NEW i \in Insts, NEW role \in Roles, StaleEvent(i, role)
        PROVE  LostWireIsOffline'
    BY <1>5 DEF StaleEvent, Take
  <1>6. ASSUME NEW i \in Insts, OnServer(i)
        PROVE  LostWireIsOffline'
    BY <1>6 DEF OnServer, Take, EpollAdd
  <1>7. ASSUME NEW i \in Insts, OnWire(i)
        PROVE  LostWireIsOffline'
    BY <1>7 DEF OnWire, Take
  <1>8. ASSUME NEW i \in Insts, ClientBytes(i)
        PROVE  LostWireIsOffline'
    BY <1>8
    DEF ClientBytes, Take, Roles, InHandler, Between, AtWork, AtRest, Settled,
        Closing, RelayInv
  <1>9. ASSUME NEW i \in Insts, ClientGone(i)
        PROVE  LostWireIsOffline'
    BY <1>9 DEF ClientGone, Take
  <1>10. CASE OnSignal
    BY <1>10 DEF OnSignal, ExitAll
  <1>11. CASE ReadBytes
    BY <1>11 DEF ReadBytes
  <1>12. CASE ReadEof
    BY <1>12
    DEF ReadEof, CloseWire, Roles, InHandler, Between, AtWork, AtRest,
        Settled, Closing, RelayInv
  <1>13. CASE Reopened
    BY <1>13
    DEF Reopened, OpenWire, DropClient, EnterWaitClient, EpollAdd, Roles,
        InHandler, Between, AtWork, AtRest, Settled, Closing, RelayInv
  <1>14. CASE ReopenFails
    BY <1>14
    DEF ReopenFails, DropClient, Roles, InHandler, Between, AtWork, AtRest,
        Settled, Closing, RelayInv
  <1>15. CASE ReadFails
    BY <1>15 DEF ReadFails
  <1>16. CASE SendBytes
    BY <1>16 DEF SendBytes
  <1>17. CASE SendFails
    BY <1>17 DEF SendFails
  <1>18. CASE CloseClient
    BY <1>18
    DEF CloseClient, DropClient, Roles, InHandler, Between, AtWork, AtRest,
        Settled, Closing, RelayInv
  <1>19. CASE CloseClientNoWire
    BY <1>19 DEF CloseClientNoWire, DropClient, EnterWaitClient, EpollAdd
  <1>20. CASE DrainBytes
    BY <1>20 DEF DrainBytes
  <1>21. CASE DrainEmpty
    BY <1>21
    DEF DrainEmpty, EnterWaitClient, EpollAdd, Roles, InHandler, Between,
        AtWork, AtRest, Settled, Closing, RelayInv
  <1>22. CASE DrainEof
    BY <1>22
    DEF DrainEof, CloseWire, Roles, InHandler, Between, AtWork, AtRest,
        Settled, Closing, RelayInv
  <1>23. CASE DrainReopened
    BY <1>23
    DEF DrainReopened, OpenWire, EnterWaitClient, EpollAdd, Roles, InHandler,
        Between, AtWork, AtRest, Settled, Closing, RelayInv
  <1>24. CASE DrainReopenFails
    BY <1>24
    DEF DrainReopenFails, Roles, InHandler, Between, AtWork, AtRest, Settled,
        Closing, RelayInv
  <1>25. CASE SigTerm
    BY <1>25 DEF SigTerm
  <1>26. ASSUME NEW i \in Insts, SimConnect(i)
        PROVE  LostWireIsOffline'
    BY <1>26 DEF SimConnect
  <1>27. ASSUME NEW i \in Insts, SimSend(i)
        PROVE  LostWireIsOffline'
    BY <1>27 DEF SimSend
  <1>28. ASSUME NEW i \in Insts, SimRead(i)
        PROVE  LostWireIsOffline'
    BY <1>28 DEF SimRead
  <1>29. ASSUME NEW i \in Insts, SimClose(i)
        PROVE  LostWireIsOffline'
    BY <1>29 DEF SimClose
  <1>30. ASSUME NEW i \in Insts, TtyToggle(i)
        PROVE  LostWireIsOffline'
    BY <1>30 DEF TtyToggle
  <1>31. ASSUME NEW i \in Insts, AutByte(i)
        PROVE  LostWireIsOffline'
    BY <1>31 DEF AutByte
  <1>32. ASSUME NEW i \in Insts, BusReset(i)
        PROVE  LostWireIsOffline'
    BY <1>32 DEF BusReset
  <1>33. CASE UNCHANGED vars
    BY <1>33 DEF vars
  <1> QED
    BY <1>1, <1>2, <1>3, <1>4, <1>5, <1>6, <1>7, <1>8, <1>9, <1>10, <1>11,
       <1>12, <1>13, <1>14, <1>15, <1>16, <1>17, <1>18, <1>19, <1>20, <1>21,
       <1>22, <1>23, <1>24, <1>25, <1>26, <1>27, <1>28, <1>29, <1>30, <1>31,
       <1>32, <1>33
    DEF Next, DaemonStep, Handlers, Environment

\* A connection in the batch stays acceptable until its event is dispatched.
LEMMA ServerNext ==
    ASSUME DaemonInv, TypeOK', [Next]_vars, NEW j \in Insts
    PROVE  ServerEvents(j)'
  <1> USE DEF DaemonInv, TypeOK, ServerEvents, Set, instVars, wireVars,
              sockVars, loopVars
  <1>1. ASSUME NEW i \in Insts, InstanceInit(i)
        PROVE  ServerEvents(j)'
    BY <1>1 DEF InstanceInit
  <1>2. CASE InitFails
    BY <1>2 DEF InitFails, ExitAll
  <1>3. CASE EpollWait
    BY <1>3
    DEF EpollWait, Ready, Roles, InHandler, Between, AtWork, AtRest, Settled,
        Closing, RelayInv
  <1>4. CASE BatchDone
    BY <1>4 DEF BatchDone
  <1>5. ASSUME NEW i \in Insts, NEW role \in Roles, StaleEvent(i, role)
        PROVE  ServerEvents(j)'
    BY <1>5 DEF StaleEvent, Take
  <1>6. ASSUME NEW i \in Insts, OnServer(i)
        PROVE  ServerEvents(j)'
    BY <1>6
    DEF OnServer, Take, EpollAdd, Roles, InHandler, Between, AtWork, AtRest,
        Settled, Closing, RelayInv
  <1>7. ASSUME NEW i \in Insts, OnWire(i)
        PROVE  ServerEvents(j)'
    BY <1>7 DEF OnWire, Take
  <1>8. ASSUME NEW i \in Insts, ClientBytes(i)
        PROVE  ServerEvents(j)'
    BY <1>8 DEF ClientBytes, Take
  <1>9. ASSUME NEW i \in Insts, ClientGone(i)
        PROVE  ServerEvents(j)'
    BY <1>9 DEF ClientGone, Take
  <1>10. CASE OnSignal
    BY <1>10 DEF OnSignal, ExitAll
  <1>11. CASE ReadBytes
    BY <1>11 DEF ReadBytes
  <1>12. CASE ReadEof
    BY <1>12
    DEF ReadEof, CloseWire, Roles, InHandler, Between, AtWork, AtRest,
        Settled, Closing, RelayInv
  <1>13. CASE Reopened
    BY <1>13
    DEF Reopened, OpenWire, DropClient, EnterWaitClient, EpollAdd, Roles,
        InHandler, Between, AtWork, AtRest, Settled, Closing, RelayInv
  <1>14. CASE ReopenFails
    BY <1>14
    DEF ReopenFails, DropClient, Roles, InHandler, Between, AtWork, AtRest,
        Settled, Closing, RelayInv
  <1>15. CASE ReadFails
    BY <1>15 DEF ReadFails
  <1>16. CASE SendBytes
    BY <1>16 DEF SendBytes
  <1>17. CASE SendFails
    BY <1>17 DEF SendFails
  <1>18. CASE CloseClient
    BY <1>18
    DEF CloseClient, DropClient, Roles, InHandler, Between, AtWork, AtRest,
        Settled, Closing, RelayInv
  <1>19. CASE CloseClientNoWire
    BY <1>19
    DEF CloseClientNoWire, DropClient, EnterWaitClient, EpollAdd, Roles,
        InHandler, Between, AtWork, AtRest, Settled, Closing, RelayInv
  <1>20. CASE DrainBytes
    BY <1>20 DEF DrainBytes
  <1>21. CASE DrainEmpty
    BY <1>21
    DEF DrainEmpty, EnterWaitClient, EpollAdd, Roles, InHandler, Between,
        AtWork, AtRest, Settled, Closing, RelayInv
  <1>22. CASE DrainEof
    BY <1>22 DEF DrainEof, CloseWire
  <1>23. CASE DrainReopened
    BY <1>23
    DEF DrainReopened, OpenWire, EnterWaitClient, EpollAdd, Roles, InHandler,
        Between, AtWork, AtRest, Settled, Closing, RelayInv
  <1>24. CASE DrainReopenFails
    BY <1>24
    DEF DrainReopenFails, Roles, InHandler, Between, AtWork, AtRest, Settled,
        Closing, RelayInv
  <1>25. CASE SigTerm
    BY <1>25 DEF SigTerm
  <1>26. ASSUME NEW i \in Insts, SimConnect(i)
        PROVE  ServerEvents(j)'
    BY <1>26 DEF SimConnect
  <1>27. ASSUME NEW i \in Insts, SimSend(i)
        PROVE  ServerEvents(j)'
    BY <1>27 DEF SimSend
  <1>28. ASSUME NEW i \in Insts, SimRead(i)
        PROVE  ServerEvents(j)'
    BY <1>28 DEF SimRead
  <1>29. ASSUME NEW i \in Insts, SimClose(i)
        PROVE  ServerEvents(j)'
    BY <1>29 DEF SimClose
  <1>30. ASSUME NEW i \in Insts, TtyToggle(i)
        PROVE  ServerEvents(j)'
    BY <1>30 DEF TtyToggle
  <1>31. ASSUME NEW i \in Insts, AutByte(i)
        PROVE  ServerEvents(j)'
    BY <1>31 DEF AutByte
  <1>32. ASSUME NEW i \in Insts, BusReset(i)
        PROVE  ServerEvents(j)'
    BY <1>32 DEF BusReset
  <1>33. CASE UNCHANGED vars
    BY <1>33 DEF vars
  <1> QED
    BY <1>1, <1>2, <1>3, <1>4, <1>5, <1>6, <1>7, <1>8, <1>9, <1>10, <1>11,
       <1>12, <1>13, <1>14, <1>15, <1>16, <1>17, <1>18, <1>19, <1>20, <1>21,
       <1>22, <1>23, <1>24, <1>25, <1>26, <1>27, <1>28, <1>29, <1>30, <1>31,
       <1>32, <1>33
    DEF Next, DaemonStep, Handlers, Environment

\* DaemonInv is an invariant of the daemon.
LEMMA Invariance == Spec => []DaemonInv
  <1>1. DaemonInv /\ [Next]_vars => DaemonInv'
    <2> SUFFICES ASSUME DaemonInv, [Next]_vars
                 PROVE  DaemonInv'
      OBVIOUS
    <2>1. TypeOK'
      BY TypeNext
    <2>2. RelayInv' /\ LostWireIsOffline'
      BY <2>1, RelayNext, LostNext
    <2>3. \A i \in Insts : ServerEvents(i)'
      BY <2>1, ServerNext
    <2> QED
      BY <2>1, <2>2, <2>3 DEF DaemonInv
  <1> QED
    BY InitInv, <1>1, PTL DEF Spec

\* Every variable keeps its type: the byte counts stay within rx_fifo and the
\* socket buffer, and accept() is never called without a connection.
THEOREM DaemonTypeCorrect == Spec => []TypeOK
  <1>1. DaemonInv => TypeOK
    BY DEF DaemonInv
  <1> QED
    BY Invariance, <1>1, PTL

\* Between two handlers every instance with a wire has exactly the descriptors
\* open and registered that its state needs.
THEOREM StatesMatchFds == Spec => []StateMatchesFds
  <1>1. DaemonInv => StateMatchesFds
    BY DEF DaemonInv, RelayInv, StateMatchesFds, AtRest
  <1> QED
    BY Invariance, <1>1, PTL

\* No handler that passes its state guard acts on a descriptor of another
\* session, however stale its event is.
THEOREM HandlersNotStale == Spec => []NoStaleHandler
  <1>1. DaemonInv => NoStaleHandler
    BY DEF DaemonInv, TypeOK, RelayInv, NoStaleHandler, InHandler, Between,
           Roles, AtWork, AtRest, Settled, Expects
  <1> QED
    BY Invariance, <1>1, PTL

\* An instance that has lost its wire serves nobody.
THEOREM LostWiresOffline == Spec => []LostWireIsOffline
  <1>1. DaemonInv => LostWireIsOffline
    BY DEF DaemonInv
  <1> QED
    BY Invariance, <1>1, PTL

\* No byte of one session reaches the simulator of the next.
THEOREM SessionsKeepTheirBytes == Spec => []SessionBytesOnly
  <1>1. DaemonInv => SessionBytesOnly
    BY DEF DaemonInv, RelayInv, SessionBytesOnly, AtRest
  <1> QED
    BY Invariance, <1>1, PTL

\* The only way into the abort of epoll_loop_add() is a wire device that cannot
\* be opened again: as long as none is lost, the daemon never aborts, whatever
\* the AUT, the bus and the simulators do.
THEOREM AbortNeedsLostWire ==
    ASSUME "lost" \notin Env
    PROVE  Spec => []NoAbort
  <1>1. Init => AllWired
    BY DEF Init, AllWired
  <1>2. DaemonInv /\ AllWired /\ [Next]_vars => AllWired'
    <2> SUFFICES ASSUME DaemonInv, AllWired, [Next]_vars
                 PROVE  AllWired'
      OBVIOUS
    <2> USE DEF DaemonInv, TypeOK, AllWired, Set, instVars, wireVars, sockVars,
                loopVars
    <2>1. ASSUME NEW i \in Insts, InstanceInit(i)
          PROVE  AllWired'
      BY <2>1 DEF InstanceInit
    <2>2. CASE InitFails
      BY <2>2 DEF InitFails, ExitAll
    <2>3. CASE EpollWait
      BY <2>3 DEF EpollWait, Ready
    <2>4. CASE BatchDone
      BY <2>4 DEF BatchDone
    <2>5. ASSUME NEW i \in Insts, NEW role \in Roles, StaleEvent(i, role)
          PROVE  AllWired'
      BY <2>5 DEF StaleEvent, Take
    <2>6. ASSUME NEW i \in Insts, OnServer(i)
          PROVE  AllWired'
      BY <2>6 DEF OnServer, Take, EpollAdd
    <2>7. ASSUME NEW i \in Insts, OnWire(i)
          PROVE  AllWired'
      BY <2>7 DEF OnWire, Take
    <2>8. ASSUME NEW i \in Insts, ClientBytes(i)
          PROVE  AllWired'
      BY <2>8 DEF ClientBytes, Take
    <2>9. ASSUME NEW i \in Insts, ClientGone(i)
          PROVE  AllWired'
      BY <2>9 DEF ClientGone, Take
    <2>10. CASE OnSignal
      BY <2>10 DEF OnSignal, ExitAll
    <2>11. CASE ReadBytes
      BY <2>11 DEF ReadBytes
    <2>12. CASE ReadEof
      BY <2>12
      DEF ReadEof, CloseWire, RelayInv, InHandler, AtWork, AtRest, Closing
    <2>13. CASE Reopened
      BY <2>13
      DEF Reopened, OpenWire, DropClient, EnterWaitClient, EpollAdd, RelayInv,
          InHandler, AtWork, AtRest, Closing
    <2>14. CASE ReopenFails
      BY <2>14 DEF ReopenFails, DropClient
    <2>15. CASE ReadFails
      BY <2>15 DEF ReadFails
    <2>16. CASE SendBytes
      BY <2>16 DEF SendBytes
    <2>17. CASE SendFails
      BY <2>17 DEF SendFails
    <2>18. CASE CloseClient
      BY <2>18 DEF CloseClient, DropClient
    <2>19. CASE CloseClientNoWire
      BY <2>19
      DEF CloseClientNoWire, DropClient, EnterWaitClient, EpollAdd, RelayInv,
          InHandler, AtWork, AtRest, Closing
    <2>20. CASE DrainBytes
      BY <2>20 DEF DrainBytes
    <2>21. CASE DrainEmpty
      BY <2>21
      DEF DrainEmpty, EnterWaitClient, EpollAdd, RelayInv, InHandler, AtWork,
          AtRest, Closing
    <2>22. CASE DrainEof
      BY <2>22 DEF DrainEof, CloseWire
    <2>23. CASE DrainReopened
      BY <2>23
      DEF DrainReopened, OpenWire, EnterWaitClient, EpollAdd, RelayInv,
          InHandler, AtWork, AtRest, Closing
    <2>24. CASE DrainReopenFails
      BY <2>24 DEF DrainReopenFails
    <2>25. CASE SigTerm
      BY <2>25 DEF SigTerm
    <2>26. ASSUME NEW i \in Insts, SimConnect(i)
          PROVE  AllWired'
      BY <2>26 DEF SimConnect
    <2>27. ASSUME NEW i \in Insts, SimSend(i)
          PROVE  AllWired'
      BY <2>27 DEF SimSend
    <2>28. ASSUME NEW i \in Insts, SimRead(i)
          PROVE  AllWired'
      BY <2>28 DEF SimRead
    <2>29. ASSUME NEW i \in Insts, SimClose(i)
          PROVE  AllWired'
      BY <2>29 DEF SimClose
    <2>30. ASSUME NEW i \in Insts, TtyToggle(i)
          PROVE  AllWired'
      BY <2>30 DEF TtyToggle
    <2>31. ASSUME NEW i \in Insts, AutByte(i)
          PROVE  AllWired'
      BY <2>31 DEF AutByte
    <2>32. ASSUME NEW i \in Insts, BusReset(i)
          PROVE  AllWired'
      BY <2>32 DEF BusReset
    <2>33. CASE UNCHANGED vars
      BY <2>33 DEF vars
    <2> QED
      BY <2>1, <2>2, <2>3, <2>4, <2>5, <2>6, <2>7, <2>8, <2>9, <2>10, <2>11,
         <2>12, <2>13, <2>14, <2>15, <2>16, <2>17, <2>18, <2>19, <2>20, <2>21,
         <2>22, <2>23, <2>24, <2>25, <2>26, <2>27, <2>28, <2>29, <2>30, <2>31,
         <2>32, <2>33
      DEF Next, DaemonStep, Handlers, Environment
  <1>3. AllWired => NoAbort
    BY DEF AllWired, NoAbort
  <1> QED
    BY <1>1, <1>2, <1>3, Invariance, PTL DEF Spec

=============================================================================
