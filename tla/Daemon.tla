------------------------------- MODULE Daemon -------------------------------
(***************************************************************************)
(* virtrtlabd (daemon/): one single-threaded epoll loop that relays each   *)
(* UART's wire device to the simulator connected to its socket.            *)
(*                                                                         *)
(* The loop takes one batch of ready file descriptors from epoll_wait()    *)
(* and dispatches it event by event; an event may be stale by the time its *)
(* handler runs.  Every system call that can block or fail is a step of    *)
(* its own, so the kernel, the AUT and the simulators move in between.  A  *)
(* blocking call that cannot return has no step: the loop stays there.     *)
(*                                                                         *)
(* Around the daemon: the wire device as virtrtlab_uart.c presents it (see *)
(* module Uart: port_active, bytes in rx_fifo, wire_reset_pending), and    *)
(* AF_UNIX stream sockets with blocking reads and writes.  Bytes are only  *)
(* counted.  A system call interrupted by a signal does not occur: SIGTERM *)
(* and SIGINT are blocked and arrive through the signalfd.                 *)
(***************************************************************************)
EXTENDS Integers, FiniteSets

CONSTANTS
    Insts,    \* the UART instances
    Sig,      \* the signalfd's event
    Env,      \* which of EnvOps happen in this instance
    RxCap,    \* bound: bytes in a wire's rx_fifo
    SockCap,  \* bound: bytes queued towards a simulator
    Backlog   \* connections the kernel queues on a listening socket

\* The AUT opens and closes its tty, the bus is reset, a wire device cannot be
\* opened, the simulator closes.
EnvOps == {"tty", "reset", "lost", "simclose"}

ASSUME InstAssumption == IsFiniteSet(Insts) /\ Insts # {} /\ Sig \notin Insts
ASSUME EnvAssumption  == Env \subseteq EnvOps
ASSUME CapAssumption  ==
    /\ RxCap \in Nat \ {0} /\ SockCap \in Nat \ {0} /\ Backlog \in Nat \ {0}
    /\ RxCap <= SockCap

VARIABLES
    loop,       \* next step of the daemon
    cur,        \* the instance whose handler is running
    chunk,      \* bytes in wire_buf, read and not sent yet
    batch,      \* events of this epoll_wait() not dispatched yet
    state,      \* inst->state
    wire_fd, server_fd, client_fd,  \* TRUE: open; FALSE: -1
    watch,      \* the roles registered in epoll
    port_active, rx, reset_pending, \* the wire device, from module Uart
    backlog,    \* connections queued on the listening socket
    peer,       \* the simulator behind client_fd: "none", "up" or "closed"
    sock_in, sock_out,  \* bytes queued from and to the simulator
    sigterm,    \* SIGTERM or SIGINT is pending
    old         \* history: rx_fifo holds a byte of the session that has ended

instVars == <<state, wire_fd, server_fd, client_fd, watch>>
wireVars == <<port_active, rx, reset_pending, old>>
sockVars == <<backlog, peer, sock_in, sock_out>>
loopVars == <<loop, cur, chunk, batch>>
vars == <<loopVars, instVars, wireVars, sockVars, sigterm>>

Roles == {"wire", "server", "client"}

Init ==
    /\ loop = "init" /\ cur \in Insts /\ chunk = 0 /\ batch = {}
    /\ state = [i \in Insts |-> "WAIT_CLIENT"]
    /\ wire_fd = [i \in Insts |-> FALSE]
    /\ server_fd = [i \in Insts |-> FALSE]
    /\ client_fd = [i \in Insts |-> FALSE]
    /\ watch = [i \in Insts |-> {}]
    /\ port_active \in [Insts -> IF "tty" \in Env THEN {FALSE} ELSE {TRUE}]
    /\ rx = [i \in Insts |-> 0]
    /\ reset_pending = [i \in Insts |-> FALSE]
    /\ old = [i \in Insts |-> FALSE]
    /\ backlog = [i \in Insts |-> 0]
    /\ peer = [i \in Insts |-> "none"]
    /\ sock_in = [i \in Insts |-> 0] /\ sock_out = [i \in Insts |-> 0]
    /\ sigterm = FALSE

Set(f, i, v) == [f EXCEPT ![i] = v]

-----------------------------------------------------------------------------
(* Pieces of handlers *)

\* close(wire_fd): the driver's release drops what rx_fifo holds.
CloseWire(i) ==
    /\ rx' = Set(rx, i, 0) /\ old' = Set(old, i, FALSE)
    /\ UNCHANGED <<port_active, reset_pending>>

\* wire_open() succeeds: the driver clears the reset flag, and with it a RESET
\* broadcast since the close.
OpenWire(i) ==
    /\ reset_pending' = Set(reset_pending, i, FALSE)
    /\ UNCHANGED <<port_active, rx, old>>

\* close(client_fd), as the simulator sees it.
DropClient(i) ==
    /\ client_fd' = Set(client_fd, i, FALSE)
    /\ peer' = Set(peer, i, "none")
    /\ sock_in' = Set(sock_in, i, 0) /\ sock_out' = Set(sock_out, i, 0)

\* epoll_loop_add(): aborts the daemon on a closed descriptor.
EpollAdd(open) == loop' = IF open THEN "dispatch" ELSE "abort"

\* Mutant: inst->state is not set back.
EnterWaitClientStuck(i) ==
    /\ watch' = Set(watch, i, {"server"})
    /\ EpollAdd(server_fd[i])
    /\ UNCHANGED state

\* Mutant: the listening socket is not registered again.
EnterWaitClientDeaf(i) ==
    /\ watch' = Set(watch, i, {})
    /\ state' = Set(state, i, "WAIT_CLIENT")
    /\ EpollAdd(server_fd[i])

\* enter_wait_client()
EnterWaitClient(i) ==
    /\ watch' = Set(watch, i, {"server"})
    /\ state' = Set(state, i, "WAIT_CLIENT")
    /\ EpollAdd(server_fd[i])

\* read(wire_fd) returns 0.
WireEof(i) == reset_pending[i] \/ ~port_active[i]

-----------------------------------------------------------------------------
(* main(): uart_instance_init() for each instance *)

InstanceInit(i) ==
    /\ loop = "init" /\ ~wire_fd[i]
    /\ wire_fd' = Set(wire_fd, i, TRUE)
    /\ server_fd' = Set(server_fd, i, TRUE)
    /\ watch' = Set(watch, i, {"server"})
    /\ reset_pending' = Set(reset_pending, i, FALSE)
    /\ loop' = IF \A j \in Insts \ {i} : wire_fd[j] THEN "epoll" ELSE "init"
    /\ UNCHANGED <<cur, chunk, batch, state, client_fd, port_active, rx, old,
                   sockVars, sigterm>>

\* All descriptors closed, sockets unlinked, then exit: a failed start-up
\* (with a non-zero status), and on_signal().
ExitAll ==
    /\ wire_fd' = [i \in Insts |-> FALSE]
    /\ server_fd' = [i \in Insts |-> FALSE]
    /\ client_fd' = [i \in Insts |-> FALSE]
    /\ watch' = [i \in Insts |-> {}]
    /\ peer' = [i \in Insts |-> "none"]
    /\ backlog' = [i \in Insts |-> 0]
    /\ sock_in' = [i \in Insts |-> 0] /\ sock_out' = [i \in Insts |-> 0]
    /\ rx' = [i \in Insts |-> IF wire_fd[i] THEN 0 ELSE rx[i]]
    /\ old' = [i \in Insts |-> FALSE]
    /\ loop' = "exit" /\ batch' = {}
    /\ UNCHANGED <<cur, chunk, state, port_active, reset_pending, sigterm>>

InitFails ==
    /\ "lost" \in Env
    /\ loop = "init"
    /\ ExitAll

-----------------------------------------------------------------------------
(* epoll_loop_run() and dispatch() *)

\* Level-triggered: what epoll_wait() reports.
Ready ==
    {e \in Insts \X Roles :
        LET i == e[1] r == e[2] IN
          /\ r \in watch[i]
          /\ \/ r = "server" /\ backlog[i] > 0
             \/ r = "wire" /\ (rx[i] > 0 \/ WireEof(i))
             \/ r = "client" /\ (sock_in[i] > 0 \/ peer[i] = "closed")}
    \cup (IF sigterm THEN {<<Sig, "signal">>} ELSE {})

\* All ready events fit in one call (MAX_EVENTS exceeds the descriptors).
EpollWait ==
    /\ loop = "epoll" /\ Ready # {}
    /\ batch' = Ready
    /\ loop' = "dispatch"
    /\ UNCHANGED <<cur, chunk, instVars, wireVars, sockVars, sigterm>>

BatchDone ==
    /\ loop = "dispatch" /\ batch = {}
    /\ loop' = "epoll"
    /\ UNCHANGED <<cur, chunk, batch, instVars, wireVars, sockVars, sigterm>>

\* Mutant: the loop also dispatches what an earlier epoll_wait() left in
\* events[].
TakeAny(e) ==
    /\ loop = "dispatch"
    /\ batch' = batch \ {e}

\* Take one event out of the batch, in whatever order epoll reported it.
Take(e) ==
    /\ loop = "dispatch" /\ e \in batch
    /\ batch' = batch \ {e}

\* The state guard at the top of each handler.
Expects(role) == IF role = "server" THEN "WAIT_CLIENT" ELSE "RELAYING"

StaleEvent(i, role) ==
    /\ Take(<<i, role>>)
    /\ state[i] # Expects(role)
    /\ UNCHANGED <<loop, cur, chunk, instVars, wireVars, sockVars, sigterm>>

OnSignal ==
    /\ loop = "dispatch" /\ <<Sig, "signal">> \in batch
    /\ ExitAll

\* Mutant: a failing epoll_loop_add() is ignored.
OnServerNoWire(i) ==
    /\ Take(<<i, "server">>) /\ state[i] = "WAIT_CLIENT"
    /\ backlog' = [backlog EXCEPT ![i] = @ - 1]
    /\ client_fd' = Set(client_fd, i, TRUE)
    /\ peer' = Set(peer, i, "up")
    /\ watch' = Set(watch, i, {"wire", "client"})
    /\ state' = Set(state, i, "RELAYING")
    /\ UNCHANGED <<loop, cur, chunk, wire_fd, server_fd, wireVars, sock_in,
                   sock_out, sigterm>>

\* on_server_readable()
OnServer(i) ==
    /\ Take(<<i, "server">>) /\ state[i] = "WAIT_CLIENT"
    /\ backlog' = [backlog EXCEPT ![i] = @ - 1]
    /\ client_fd' = Set(client_fd, i, TRUE)
    /\ peer' = Set(peer, i, "up")
    /\ watch' = Set(watch, i, {"wire", "client"})
    /\ state' = Set(state, i, "RELAYING")
    /\ EpollAdd(wire_fd[i])
    /\ UNCHANGED <<cur, chunk, wire_fd, server_fd, wireVars, sock_in,
                   sock_out, sigterm>>

-----------------------------------------------------------------------------
(* on_wire_readable() *)

\* Mutant: on_wire_readable() without its state guard.
OnWireUnguarded(i) ==
    /\ Take(<<i, "wire">>)
    /\ cur' = i /\ loop' = "read"
    /\ UNCHANGED <<chunk, instVars, wireVars, sockVars, sigterm>>

OnWire(i) ==
    /\ Take(<<i, "wire">>) /\ state[i] = "RELAYING"
    /\ cur' = i /\ loop' = "read"
    /\ UNCHANGED <<chunk, instVars, wireVars, sockVars, sigterm>>

\* read(wire_fd), blocking: no step while rx_fifo is empty and there is no EOF.
ReadBytes ==
    /\ loop = "read" /\ wire_fd[cur] /\ ~WireEof(cur) /\ rx[cur] > 0
    /\ chunk' \in 1..rx[cur]
    /\ rx' = [rx EXCEPT ![cur] = @ - chunk']
    /\ loop' = "send"
    /\ UNCHANGED <<cur, batch, instVars, port_active, reset_pending, old,
                   sockVars, sigterm>>

\* Mutant: a read() of 0 bytes is taken for "nothing to relay".
ReadEofIgnored ==
    /\ loop = "read" /\ wire_fd[cur] /\ WireEof(cur)
    /\ loop' = "dispatch"
    /\ UNCHANGED <<cur, chunk, batch, instVars, wireVars, sockVars, sigterm>>

\* EOF: wire_reopen() takes wire_fd out of epoll and closes it, ...
ReadEof ==
    /\ loop = "read" /\ wire_fd[cur] /\ WireEof(cur)
    /\ CloseWire(cur)
    /\ watch' = [watch EXCEPT ![cur] = @ \ {"wire"}]
    /\ loop' = "reopen"
    /\ UNCHANGED <<cur, chunk, batch, state, wire_fd, server_fd, client_fd,
                   sockVars, sigterm>>

\* ... opens it again, disconnects the simulator and waits for the next one.
Reopened ==
    /\ loop = "reopen"
    /\ OpenWire(cur)
    /\ DropClient(cur)
    /\ EnterWaitClient(cur)
    /\ UNCHANGED <<cur, chunk, batch, wire_fd, server_fd, backlog, sigterm>>

\* The wire cannot be opened again: uart_instance_destroy().
ReopenFails ==
    /\ "lost" \in Env
    /\ loop = "reopen"
    /\ wire_fd' = Set(wire_fd, cur, FALSE)
    /\ DropClient(cur)
    /\ server_fd' = Set(server_fd, cur, FALSE)
    /\ watch' = Set(watch, cur, {})
    /\ backlog' = Set(backlog, cur, 0)
    /\ loop' = "dispatch"
    /\ UNCHANGED <<cur, chunk, batch, state, wireVars, sigterm>>

\* EBADF: the drain lost the wire earlier in this batch.
ReadFails ==
    /\ loop = "read" /\ ~wire_fd[cur]
    /\ loop' = "dispatch"
    /\ UNCHANGED <<cur, chunk, batch, instVars, wireVars, sockVars, sigterm>>

\* send(client_fd), blocking: no step while a live simulator leaves no room.
SendBytes ==
    /\ loop = "send" /\ peer[cur] = "up" /\ sock_out[cur] + chunk <= SockCap
    /\ sock_out' = [sock_out EXCEPT ![cur] = @ + chunk]
    /\ chunk' = 0
    /\ loop' = "dispatch"
    /\ UNCHANGED <<cur, batch, instVars, wireVars, backlog, peer, sock_in,
                   sigterm>>

\* EPIPE.
SendFails ==
    /\ loop = "send" /\ peer[cur] = "closed"
    /\ chunk' = 0
    /\ loop' = "hangup"
    /\ UNCHANGED <<cur, batch, instVars, wireVars, sockVars, sigterm>>

-----------------------------------------------------------------------------
(* on_client_readable() *)

\* recv() returns bytes; write(wire_fd) never blocks.
ClientBytes(i) ==
    /\ Take(<<i, "client">>) /\ state[i] = "RELAYING"
    /\ client_fd[i] /\ sock_in[i] > 0
    /\ sock_in' = Set(sock_in, i, 0)
    /\ UNCHANGED <<loop, cur, chunk, instVars, wireVars, backlog, peer,
                   sock_out, sigterm>>

\* recv() returns 0 (the simulator closed) or an error (EBADF: no client).
ClientGone(i) ==
    /\ Take(<<i, "client">>) /\ state[i] = "RELAYING"
    /\ ~client_fd[i] \/ (sock_in[i] = 0 /\ peer[i] = "closed")
    /\ cur' = i /\ loop' = "hangup"
    /\ UNCHANGED <<chunk, instVars, wireVars, sockVars, sigterm>>

-----------------------------------------------------------------------------
(* close_client_and_drain() *)

\* client_close(), wire_fd out of epoll, O_NONBLOCK.
CloseClient ==
    /\ loop = "hangup" /\ wire_fd[cur]
    /\ DropClient(cur)
    /\ old' = Set(old, cur, rx[cur] > 0)
    /\ watch' = Set(watch, cur, {})
    /\ loop' = "drain"
    /\ UNCHANGED <<cur, chunk, batch, state, wire_fd, server_fd, port_active, rx,
                   reset_pending, backlog, sigterm>>

\* fcntl() on a closed wire_fd fails: no drain.
CloseClientNoWire ==
    /\ loop = "hangup" /\ ~wire_fd[cur]
    /\ DropClient(cur)
    /\ EnterWaitClient(cur)
    /\ UNCHANGED <<cur, chunk, batch, wire_fd, server_fd, wireVars, backlog,
                   sigterm>>

\* Old bytes leave rx_fifo before the ones that arrive during the drain.
DrainBytes ==
    /\ loop = "drain" /\ ~WireEof(cur)
    /\ \E k \in 1..rx[cur] :
          /\ rx' = [rx EXCEPT ![cur] = @ - k]
          /\ old' = [old EXCEPT ![cur] = @ /\ k < rx[cur]]
    /\ UNCHANGED <<loopVars, instVars, port_active, reset_pending, sockVars,
                   sigterm>>

\* Mutant: the drain is one read(), whatever is left after it.
DrainOnce ==
    /\ loop = "drain" /\ ~WireEof(cur)
    /\ EnterWaitClient(cur)
    /\ UNCHANGED <<cur, chunk, batch, wire_fd, server_fd, client_fd, wireVars,
                   sockVars, sigterm>>

\* Mutant: the drain reads without O_NONBLOCK and never gets -EAGAIN.
DrainBlocks == FALSE

\* -EAGAIN: back to WAIT_CLIENT.
DrainEmpty ==
    /\ loop = "drain" /\ ~WireEof(cur) /\ rx[cur] = 0
    /\ EnterWaitClient(cur)
    /\ UNCHANGED <<cur, chunk, batch, wire_fd, server_fd, client_fd, wireVars,
                   sockVars, sigterm>>

\* EOF: close and open the wire again.
DrainEof ==
    /\ loop = "drain" /\ WireEof(cur)
    /\ CloseWire(cur)
    /\ loop' = "drainreopen"
    /\ UNCHANGED <<cur, chunk, batch, instVars, sockVars, sigterm>>

DrainReopened ==
    /\ loop = "drainreopen"
    /\ OpenWire(cur)
    /\ EnterWaitClient(cur)
    /\ UNCHANGED <<cur, chunk, batch, wire_fd, server_fd, client_fd, sockVars,
                   sigterm>>

\* "wire lost; instance stays with no wire": no socket event any more.
DrainReopenFails ==
    /\ "lost" \in Env
    /\ loop = "drainreopen"
    /\ wire_fd' = Set(wire_fd, cur, FALSE)
    /\ loop' = "dispatch"
    /\ UNCHANGED <<cur, chunk, batch, state, server_fd, client_fd, watch,
                   wireVars, sockVars, sigterm>>

Handlers ==
    \/ \E i \in Insts :
          \/ \E role \in Roles : StaleEvent(i, role)
          \/ OnServer(i) \/ OnWire(i) \/ ClientBytes(i) \/ ClientGone(i)
    \/ OnSignal
    \/ ReadBytes \/ ReadEof \/ Reopened \/ ReopenFails \/ ReadFails
    \/ SendBytes \/ SendFails
    \/ CloseClient \/ CloseClientNoWire
    \/ DrainBytes \/ DrainEmpty \/ DrainEof \/ DrainReopened
    \/ DrainReopenFails

DaemonStep == \/ (\E i \in Insts : InstanceInit(i)) \/ InitFails
              \/ EpollWait \/ BatchDone \/ Handlers

-----------------------------------------------------------------------------
(* The kernel, the AUT and the simulators *)

SimConnect(i) ==
    /\ server_fd[i] /\ backlog[i] < Backlog
    /\ backlog' = [backlog EXCEPT ![i] = @ + 1]
    /\ UNCHANGED <<loopVars, instVars, wireVars, peer, sock_in, sock_out,
                   sigterm>>

SimSend(i) ==
    /\ peer[i] = "up" /\ sock_in[i] = 0
    /\ sock_in' = Set(sock_in, i, 1)
    /\ UNCHANGED <<loopVars, instVars, wireVars, backlog, peer, sock_out,
                   sigterm>>

SimRead(i) ==
    /\ peer[i] = "up" /\ sock_out[i] > 0
    /\ sock_out' = Set(sock_out, i, 0)
    /\ UNCHANGED <<loopVars, instVars, wireVars, backlog, peer, sock_in,
                   sigterm>>

SimClose(i) ==
    /\ "simclose" \in Env
    /\ peer[i] = "up"
    /\ peer' = Set(peer, i, "closed")
    /\ UNCHANGED <<loopVars, instVars, wireVars, backlog, sock_in, sock_out,
                   sigterm>>

\* The tty is opened or closed; both empty rx_fifo.
TtyToggle(i) ==
    /\ "tty" \in Env
    /\ port_active' = [port_active EXCEPT ![i] = ~@]
    /\ rx' = Set(rx, i, 0) /\ old' = Set(old, i, FALSE)
    /\ UNCHANGED <<loopVars, instVars, reset_pending, sockVars, sigterm>>

\* tx_work delivers a byte of the AUT.
AutByte(i) ==
    /\ port_active[i] /\ rx[i] < RxCap
    /\ rx' = [rx EXCEPT ![i] = @ + 1]
    /\ UNCHANGED <<loopVars, instVars, port_active, reset_pending, old,
                   sockVars, sigterm>>

BusReset(i) ==
    /\ "reset" \in Env
    /\ reset_pending' = Set(reset_pending, i, TRUE)
    /\ UNCHANGED <<loopVars, instVars, port_active, rx, old, sockVars,
                   sigterm>>

SigTerm ==
    /\ ~sigterm
    /\ sigterm' = TRUE
    /\ UNCHANGED <<loopVars, instVars, wireVars, sockVars>>

Environment ==
    /\ loop \notin {"exit", "abort"}
    /\ \/ SigTerm
       \/ \E i \in Insts : \/ SimConnect(i) \/ SimSend(i) \/ SimRead(i)
                            \/ SimClose(i) \/ TtyToggle(i) \/ AutByte(i)
                            \/ BusReset(i)

Next == DaemonStep \/ Environment

\* The daemon runs whenever it can.  The drain loop outruns the AUT: a read()
\* takes microseconds and up to a page, while the driver delivers at most one
\* burst per timer period, so a read() does empty rx_fifo, and the next one does
\* find it empty.
DrainAll == DrainBytes /\ rx'[cur] = 0
Spec == /\ Init /\ [][Next]_vars
        /\ WF_vars(DaemonStep) /\ SF_vars(DrainAll) /\ SF_vars(DrainEmpty)

\* And simulators keep reading their socket.
ReadingSpec ==
    Spec /\ \A i \in Insts : WF_vars(Environment /\ SimRead(i))

-----------------------------------------------------------------------------
(* Properties *)

Between == {"epoll", "dispatch"}

\* Every variable keeps its type, and what is queued stays within its bound.
TypeOK ==
    /\ loop \in Between \cup {"init", "read", "reopen", "send", "hangup",
                               "drain", "drainreopen", "exit", "abort"}
    /\ cur \in Insts /\ chunk \in 0..RxCap
    /\ batch \subseteq ((Insts \X Roles) \cup {<<Sig, "signal">>})
    /\ state \in [Insts -> {"WAIT_CLIENT", "RELAYING"}]
    /\ wire_fd \in [Insts -> BOOLEAN] /\ server_fd \in [Insts -> BOOLEAN]
    /\ client_fd \in [Insts -> BOOLEAN]
    /\ watch \in [Insts -> SUBSET Roles]
    /\ port_active \in [Insts -> BOOLEAN] /\ rx \in [Insts -> 0..RxCap]
    /\ reset_pending \in [Insts -> BOOLEAN] /\ old \in [Insts -> BOOLEAN]
    /\ backlog \in [Insts -> 0..Backlog]
    /\ peer \in [Insts -> {"none", "up", "closed"}]
    /\ sock_in \in [Insts -> 0..1] /\ sock_out \in [Insts -> 0..SockCap]
    /\ sigterm \in BOOLEAN

\* The descriptors, and their registration, that each of the two states needs.
Settled(i) ==
    /\ server_fd[i]
    /\ state[i] = "WAIT_CLIENT" =>
          watch[i] = {"server"} /\ ~client_fd[i] /\ peer[i] = "none"
    /\ state[i] = "RELAYING" =>
          watch[i] = {"wire", "client"} /\ client_fd[i] /\ peer[i] # "none"

\* Between two handlers every instance that has its wire is in one of the two
\* states of the relay, with exactly the descriptors open and registered that
\* the state needs: whatever order the events of a batch come in, and whatever
\* happened to the wire or the simulator since epoll_wait() reported them.
StateMatchesFds ==
    loop \in Between => \A i \in Insts : wire_fd[i] => Settled(i)

\* An event that passes its handler's state guard is about a descriptor that
\* is still registered, as long as the instance has its wire: no handler acts on
\* a descriptor of another session.
NoStaleHandler ==
    /\ loop = "dispatch" =>
          \A i \in Insts, role \in Roles :
              (<<i, role>> \in batch /\ state[i] = Expects(role) /\ wire_fd[i])
                  => role \in watch[i]
    /\ (loop \in {"read", "send"} /\ wire_fd[cur])
          => state[cur] = "RELAYING" /\ client_fd[cur]

\* An instance that has lost its wire serves nobody: no simulator is connected
\* to it, epoll watches neither its wire nor a client, and a socket it still
\* watches is open.
LostWireIsOffline ==
    loop # "abort" =>
        \A i \in Insts :
            ~wire_fd[i] => /\ ~client_fd[i] /\ peer[i] = "none"
                           /\ watch[i] \subseteq {"server"}
                           /\ watch[i] # {} => server_fd[i]

\* No byte of one session reaches the next: when an instance waits for a
\* simulator or relays to one, nothing the AUT sent before the previous session
\* ended is left in rx_fifo, however the session ended (the simulator closed, a
\* send failed, the bus was reset) and whatever the AUT sends meanwhile.
SessionBytesOnly ==
    loop \in Between => \A i \in Insts : wire_fd[i] => ~old[i]

\* docs/daemon.md, Signals: "SIGTERM: Clean shutdown: removes all sockets,
\* exits 0".
TermExits == sigterm ~> (loop = "exit")

\* A simulator that connects to an idle instance is accepted, unless the
\* daemon is told to stop.
ConnectAccepted ==
    \A i \in Insts :
        (backlog[i] > 0 /\ state[i] = "WAIT_CLIENT")
            ~> (state[i] = "RELAYING" \/ loop = "exit")

\* docs/daemon.md, "Wire device re-open on bus reset": a reset that finds a
\* session running ends it, also when the daemon is inside another handler or
\* about to read bytes that were there before the reset.
ResetEndsSession ==
    \A i \in Insts :
        (state[i] = "RELAYING" /\ reset_pending[i])
            ~> (state[i] = "WAIT_CLIENT" \/ loop = "exit")

-----------------------------------------------------------------------------
(* Strengthenings of the invariants, used by the proofs *)

InHandler == {"read", "reopen", "send", "hangup", "drain", "drainreopen"}

\* An instance no handler is working on.
AtRest(i) ==
    /\ wire_fd[i] => Settled(i) /\ ~old[i]
    /\ loop = "init" => state[i] = "WAIT_CLIENT" /\ ~old[i]

\* The session of cur is over and its simulator gone; the wire is still open.
Closing ==
    /\ wire_fd[cur] /\ server_fd[cur] /\ ~client_fd[cur]
    /\ peer[cur] = "none" /\ watch[cur] = {}

\* The instance a handler is working on, before each of the handler's steps.
AtWork ==
    /\ state[cur] = "RELAYING"
    /\ loop \in {"read", "hangup"} => AtRest(cur)
    /\ loop = "send" => wire_fd[cur] /\ AtRest(cur)
    /\ loop = "reopen" =>
          /\ wire_fd[cur] /\ server_fd[cur] /\ client_fd[cur]
          /\ peer[cur] # "none" /\ watch[cur] = {"client"} /\ ~old[cur]
    /\ loop = "drain" => Closing /\ (old[cur] => rx[cur] > 0)
    /\ loop = "drainreopen" => Closing /\ ~old[cur]

RelayInv ==
    /\ loop \in Between \cup {"init"} => \A i \in Insts : AtRest(i)
    /\ loop \in InHandler => AtWork /\ \A i \in Insts \ {cur} : AtRest(i)

\* Only an instance that waits for a simulator watches its socket; so a
\* connection that epoll_wait() reported is still there for accept().
ServerEvents(i) ==
    /\ (loop # "abort" /\ ~wire_fd[i] /\ watch[i] # {})
          => state[i] = "WAIT_CLIENT"
    /\ <<i, "server">> \in batch => state[i] = "WAIT_CLIENT" /\ backlog[i] > 0

\* The inductive invariant of the daemon.
DaemonInv ==
    /\ TypeOK
    /\ RelayInv
    /\ LostWireIsOffline
    /\ \A i \in Insts : ServerEvents(i)

\* As long as no wire is lost, every instance has one once main() is done.
AllWired ==
    /\ loop # "abort"
    /\ loop \notin {"init", "exit"} => \A i \in Insts : wire_fd[i]

-----------------------------------------------------------------------------
(* What a comment says, and the code does not do. *)

\* on_wire_readable: "wire device lost permanently -- take instance offline":
\* the instance, and not the daemon with all the other instances.
NoAbort == loop # "abort"

=============================================================================
