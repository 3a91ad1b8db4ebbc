--------------------------------- MODULE Lab ---------------------------------
(***************************************************************************)
(* The lab as virtrtlabctl (cli/virtrtlabctl.py) manages it: `up', `down', *)
(* `daemon start' and `daemon stop', step by step, over the kernel modules *)
(* of module Modules, the virtrtlabd process, and the files that carry the *)
(* state of the lab from one command to the next: daemon.pid, modules.list *)
(* and the sockets.                                                        *)
(*                                                                         *)
(* One operator runs one command at a time.  A step may fail, a command    *)
(* may be killed between two steps, the daemon may fail to start or die,   *)
(* the AUT opens and closes its devices, and the pid of a dead daemon may  *)
(* be given to another process -- though not while a command runs.  The    *)
(* sockets of all UARTs are one: they come and go together.                *)
(*                                                                         *)
(* `scenario' picks what goes on around the modules in a behaviour:        *)
(*   "bus"   modules come and go, fail to load, and `state' is written     *)
(*   "prng"  modules come and go while faults are drawn and seeds written  *)
(*   "cli"   virtrtlabctl runs the lab                                     *)
(***************************************************************************)
EXTENDS Modules

CONSTANT Pids  \* the process ids

ASSUME PidAssumption == Pids \subseteq Nat \ {0}

VARIABLES
    scenario,
    cmd,      \* the command that runs, or "none"
    pc,       \* its next step
    profile,  \* the device modules of the profile of `up', in order
    queue,    \* the modules it still has to load or unload
    mine,     \* cmd_up's loaded_this_run
    target,   \* the pid it found or started
    pidfile,  \* content of daemon.pid; 0 without the file
    modlist,  \* content of modules.list; NoList without the file
    sock,     \* the socket files exist
    proc,     \* of each pid: "free", "other", or the state of a virtrtlabd
    sig,      \* a signal on its way to the process
    before,   \* history: the modules that were loaded when `up' began
    refused,  \* history: some rmmod of this command met an open file
    stray     \* history: a signal was sent to a process of somebody else

cliVars  == <<cmd, pc, profile, queue, mine, target, before, refused>>
fileVars == <<pidfile, modlist>>
procVars == <<sock, proc, sig, stray>>
kernVars == <<modVars, busVars, prngVars>>
labVars  == <<scenario, cliVars, fileVars, procVars, kernVars>>

NoList   == <<"none">>
Profiles == {<<"uart">>, <<"gpio">>, <<"uart", "gpio">>}

\* KNOWN_MODULES
KnownModules == <<"core", "uart", "gpio">>

Loaded == {m \in Mods : mstate[m] # "absent"}

\* The AUT among the users of a module; the others are daemons.
Aut == 0

Reversed(s) == [i \in 1..Len(s) |-> s[Len(s) + 1 - i]]

\* A virtrtlabd that starts, one that will only exit, and one that serves.
Daemons == {"starting", "doomed", "ready"}

LabInit ==
    /\ ModInit
    /\ scenario \in {"bus", "prng", "cli"}
    /\ cmd = "none" /\ pc = "idle" /\ profile = <<>> /\ queue = <<>>
    /\ mine = <<>> /\ target = 0 /\ before = {} /\ refused = FALSE
    /\ pidfile = 0 /\ modlist = NoList
    /\ sock = FALSE /\ stray = FALSE
    /\ proc = [p \in Pids |-> "free"] /\ sig = [p \in Pids |-> "none"]

-----------------------------------------------------------------------------
(* How a command moves on *)

\* An insmod or rmmod it started has returned.
At(cmds, p) == cmd \in cmds /\ pc = p /\ loading = "none"

Proceed(p) == pc' = p /\ UNCHANGED <<cmd, profile, before>>

\* The command ends, and its locals with it.
Leave ==
    /\ cmd' = "none" /\ pc' = "idle" /\ profile' = <<>> /\ queue' = <<>>
    /\ mine' = <<>> /\ target' = 0 /\ before' = {} /\ refused' = FALSE

Begin(c) ==
    /\ scenario = "cli" /\ cmd = "none" /\ loading = "none"
    /\ cmd' = c /\ mine' = <<>> /\ target' = 0 /\ refused' = FALSE

\* A step raises an error after which the code cleans nothing up -- _find_ko(),
\* the seed, modules.list, the spawn, daemon.pid, a timeout of _poll_sockets(),
\* the contract -- or the command is killed.
Abandon ==
    /\ cmd # "none"
    /\ Leave
    /\ UNCHANGED <<scenario, fileVars, procVars, kernVars>>

\* Mutant: the pid is taken if there is such a process, whoever it is.
DaemonPidUnchecked ==
    IF pidfile # 0 /\ proc[pidfile] # "free" THEN pidfile ELSE 0

\* _daemon_pid(): the pid in daemon.pid if it is a virtrtlabd's, else 0.
DaemonPid == IF pidfile # 0 /\ proc[pidfile] \in Daemons THEN pidfile ELSE 0

\* It removes a stale file, unless the file is root's and the caller is not.
PruneStale == pidfile' \in {pidfile, DaemonPid}

-----------------------------------------------------------------------------
(* cmd_up() *)

\* Nothing to do if all is loaded and the daemon runs.
UpBegin ==
    /\ Begin("up")
    /\ profile' \in Profiles /\ before' = Loaded
    /\ IF {"core"} \cup SeqSet(profile') \subseteq Loaded
       THEN PruneStale ELSE UNCHANGED pidfile
    /\ IF {"core"} \cup SeqSet(profile') \subseteq Loaded /\ DaemonPid # 0
       THEN pc' = "contract" /\ queue' = <<>>
       ELSE pc' = "load" /\ queue' = <<"core">> \o profile'
    /\ UNCHANGED <<scenario, modlist, procVars, kernVars>>

UpSkip ==
    /\ At({"up"}, "load") /\ queue # <<>> /\ Head(queue) \in Loaded
    /\ queue' = Tail(queue)
    /\ Proceed("load")
    /\ UNCHANGED <<scenario, mine, target, refused, fileVars, procVars, kernVars>>

UpInsmod ==
    /\ At({"up"}, "load") /\ queue # <<>> /\ Head(queue) \notin Loaded
    /\ Insmod(Head(queue))
    /\ Proceed("insmod")
    /\ UNCHANGED <<scenario, queue, mine, target, refused, fileVars, procVars>>

UpInsmodOk ==
    /\ At({"up"}, "insmod") /\ Head(queue) \in Loaded
    /\ mine' = Append(mine, Head(queue)) /\ queue' = Tail(queue)
    /\ Proceed("load")
    /\ UNCHANGED <<scenario, target, refused, fileVars, procVars, kernVars>>

\* Mutant: the rollback unloads in the order of loading.
UpInsmodFailedForward ==
    /\ At({"up"}, "insmod") /\ Head(queue) \notin Loaded
    /\ queue' = mine
    /\ Proceed("unload")
    /\ UNCHANGED <<scenario, mine, target, refused, fileVars, procVars, kernVars>>

\* insmod failed: roll back, last module first.
UpInsmodFailed ==
    /\ At({"up"}, "insmod") /\ Head(queue) \notin Loaded
    /\ queue' = Reversed(mine)
    /\ Proceed("unload")
    /\ UNCHANGED <<scenario, mine, target, refused, fileVars, procVars, kernVars>>

UpRolledBack ==
    /\ At({"up"}, "unload") /\ queue = <<>>
    /\ Leave
    /\ UNCHANGED <<scenario, fileVars, procVars, kernVars>>

\* The seed of the profile, if it has one.
UpSeed ==
    /\ At({"up"}, "load") /\ queue = <<>>
    /\ UNCHANGED prngVars \/ \E v \in Seeds : SeedStore(v)
    /\ Proceed("list")
    /\ UNCHANGED <<scenario, queue, mine, target, refused, fileVars, procVars,
                   modVars, busVars>>

\* s with some of its elements left out.
Sublists(s) ==
    UNION {{[i \in 1..n |-> s[f[i]]] :
               f \in {f \in [1..n -> 1..Len(s)] :
                        \A i, j \in 1..n : i < j => f[i] < f[j]}} :
           n \in 0..Len(s)}

\* modules.list: the modules of the profile that are loaded.
UpList ==
    /\ At({"up"}, "list")
    /\ \E s \in Sublists(<<"core">> \o profile) :
          /\ SeqSet(s) = Loaded \cap ({"core"} \cup SeqSet(profile))
          /\ modlist' = s
    /\ Proceed("launch")
    /\ UNCHANGED <<scenario, queue, mine, target, refused, pidfile, procVars,
                   kernVars>>

\* `daemon start' is an error if the daemon runs.
StartBegin ==
    /\ Begin("start") /\ DaemonPid = 0
    /\ PruneStale
    /\ profile' = <<"uart">> /\ before' = {} /\ queue' = <<>>
    /\ pc' = "launch"
    /\ UNCHANGED <<scenario, modlist, procVars, kernVars>>

Serving(p) == "uart" \in SeqSet(p)

LaunchSkip ==
    /\ At({"up", "start"}, "launch") /\ DaemonPid # 0
    /\ Proceed("poll")
    /\ UNCHANGED <<scenario, queue, mine, target, refused, fileVars, procVars,
                   kernVars>>

\* _launch_daemon(): start the process.  It is told to serve no UART, and will
\* only exit, if the profile has none.
Launch ==
    /\ At({"up", "start"}, "launch") /\ DaemonPid = 0
    /\ \E p \in Pids :
          /\ proc[p] = "free"
          /\ proc' = [proc EXCEPT ![p] =
                         IF Serving(profile) THEN "starting" ELSE "doomed"]
          /\ target' = p
    /\ PruneStale
    /\ Proceed("pidfile")
    /\ UNCHANGED <<scenario, queue, mine, refused, modlist, sock, sig, stray,
                   kernVars>>

WritePidFile ==
    /\ At({"up", "start"}, "pidfile")
    /\ pidfile' = target
    /\ Proceed("poll")
    /\ UNCHANGED <<scenario, queue, mine, target, refused, modlist, procVars,
                   kernVars>>

\* _poll_sockets() finds the files, whoever made them.
PollSockets ==
    /\ At({"up", "start"}, "poll") /\ (Serving(profile) => sock)
    /\ Proceed("contract")
    /\ UNCHANGED <<scenario, queue, mine, target, refused, fileVars, procVars,
                   kernVars>>

\* Exit status 0.  `daemon start' has looked for its pid again.
Contract ==
    /\ At({"up", "start"}, "contract")
    /\ IF cmd = "start" THEN PruneStale ELSE UNCHANGED pidfile
    /\ Leave
    /\ UNCHANGED <<scenario, modlist, procVars, kernVars>>

\* `status' and `daemon status': they only look, but _daemon_pid() tidies up.
Status ==
    /\ scenario = "cli" /\ cmd = "none" /\ pidfile # 0
    /\ PruneStale
    /\ UNCHANGED <<scenario, cliVars, modlist, procVars, kernVars>>

Up == \/ UpBegin \/ UpSkip \/ UpInsmod \/ UpInsmodOk \/ UpInsmodFailed
      \/ UpRolledBack \/ UpSeed \/ UpList \/ StartBegin \/ LaunchSkip \/ Launch
      \/ WritePidFile \/ PollSockets \/ Contract
      \/ Status

-----------------------------------------------------------------------------
(* cmd_down() and `daemon stop' *)

\* Mutant: the modules are unloaded in the order of the list.
DownBeginForward ==
    /\ Begin("down")
    /\ queue' = IF modlist = NoList THEN KnownModules ELSE modlist
    /\ pc' = "find" /\ profile' = <<>> /\ before' = {}
    /\ UNCHANGED <<scenario, fileVars, procVars, kernVars>>

DownBegin ==
    /\ Begin("down")
    /\ queue' = Reversed(IF modlist = NoList THEN KnownModules ELSE modlist)
    /\ pc' = "find" /\ profile' = <<>> /\ before' = {}
    /\ UNCHANGED <<scenario, fileVars, procVars, kernVars>>

StopBegin ==
    /\ Begin("stop")
    /\ queue' = <<>> /\ pc' = "find" /\ profile' = <<>> /\ before' = {}
    /\ UNCHANGED <<scenario, fileVars, procVars, kernVars>>

\* _stop_daemon(): no daemon, nothing to stop.
StopFind ==
    /\ At({"down", "stop"}, "find")
    /\ target' = DaemonPid /\ PruneStale
    /\ Proceed(IF DaemonPid = 0 THEN "unload" ELSE "term")
    /\ UNCHANGED <<scenario, queue, mine, refused, modlist, procVars, kernVars>>

Send(s) ==
    /\ sig' = [sig EXCEPT ![target] = IF proc[target] = "free" THEN "none" ELSE s]
    /\ stray' = (stray \/ proc[target] = "other")

StopTerm ==
    /\ At({"down", "stop"}, "term")
    /\ Send("term")
    /\ Proceed("wait")
    /\ UNCHANGED <<scenario, queue, mine, target, refused, fileVars, sock, proc,
                   kernVars>>

StopGone ==
    /\ At({"down", "stop"}, "wait") /\ proc[target] = "free"
    /\ Proceed("unpid")
    /\ UNCHANGED <<scenario, queue, mine, target, refused, fileVars, procVars,
                   kernVars>>

\* Five seconds later the process is still there.
StopKill ==
    /\ At({"down", "stop"}, "wait") /\ proc[target] # "free"
    /\ Send("kill")
    /\ Proceed("unpid")
    /\ UNCHANGED <<scenario, queue, mine, target, refused, fileVars, sock, proc,
                   kernVars>>

StopUnpid ==
    /\ At({"down", "stop"}, "unpid")
    /\ pidfile' = 0
    /\ Proceed("unload")
    /\ UNCHANGED <<scenario, queue, mine, target, refused, modlist, procVars,
                   kernVars>>

\* The modules one by one, in cmd_down and in the rollback of cmd_up.
UnloadSkip ==
    /\ At({"up", "down"}, "unload") /\ queue # <<>> /\ Head(queue) \notin Loaded
    /\ queue' = Tail(queue)
    /\ Proceed("unload")
    /\ UNCHANGED <<scenario, mine, target, refused, fileVars, procVars, kernVars>>

Unload ==
    /\ At({"up", "down"}, "unload") /\ queue # <<>>
    /\ Rmmod(Head(queue))
    /\ queue' = Tail(queue)
    /\ Proceed("unload")
    /\ UNCHANGED <<scenario, mine, target, refused, fileVars, procVars>>

\* rmmod fails, and its error is ignored.
UnloadRefused ==
    /\ At({"up", "down"}, "unload") /\ queue # <<>> /\ Head(queue) \in Loaded
    /\ users[Head(queue)] # {} \/ Needed(Head(queue))
    /\ queue' = Tail(queue)
    /\ refused' = (refused \/ users[Head(queue)] # {})
    /\ Proceed("unload")
    /\ UNCHANGED <<scenario, mine, target, fileVars, procVars, kernVars>>

DownEnd ==
    /\ At({"down", "stop"}, "unload") /\ queue = <<>>
    /\ modlist' = IF cmd = "down" THEN NoList ELSE modlist
    /\ Leave
    /\ UNCHANGED <<scenario, pidfile, procVars, kernVars>>

Down == \/ DownBegin \/ StopBegin \/ StopFind \/ StopTerm \/ StopGone
        \/ StopKill \/ StopUnpid \/ UnloadSkip \/ Unload \/ UnloadRefused
        \/ DownEnd

-----------------------------------------------------------------------------
(* The virtrtlabd process, seen from outside (see module Daemon) *)

WiresFree == mstate["uart"] = "live" /\ users["uart"] \cap Pids = {}

\* uart_instance_init() has opened every wire and bound every socket, over the
\* files of an earlier run if there are any.
DaemonReady(p) ==
    /\ proc[p] = "starting" /\ WiresFree
    /\ proc' = [proc EXCEPT ![p] = "ready"]
    /\ OpenFile("uart", p)
    /\ sock' = TRUE
    /\ UNCHANGED <<scenario, cliVars, fileVars, sig, stray, mstate, loading, todo,
                   have, busVars, prngVars>>

Free(p) ==
    /\ proc' = [proc EXCEPT ![p] = "free"]
    /\ sig' = [sig EXCEPT ![p] = "none"]

\* main() fails; the instances it had got so far are destroyed, sockets too.
DaemonFails(p) ==
    /\ proc[p] \in {"starting", "doomed"}
    /\ Free(p)
    /\ sock' \in {sock} \cup (IF proc[p] = "starting" /\ WiresFree THEN {FALSE} ELSE {})
    /\ UNCHANGED <<scenario, cliVars, fileVars, stray, kernVars>>

\* on_signal(): the sockets are removed.
DaemonTerm(p) ==
    /\ proc[p] = "ready" /\ sig[p] = "term"
    /\ Free(p) /\ CloseFile("uart", p)
    /\ sock' = FALSE
    /\ UNCHANGED <<scenario, cliVars, fileVars, stray, mstate, loading, todo, have,
                   busVars, prngVars>>

\* It aborts, or SIGKILL arrives: the socket files stay.
DaemonDies(p) ==
    /\ proc[p] = "ready"
    /\ Free(p) /\ CloseFile("uart", p)
    /\ UNCHANGED <<scenario, cliVars, fileVars, sock, stray, mstate, loading, todo,
                   have, busVars, prngVars>>

\* A pid nobody uses is given to another process, between two commands.
PidReused(p) ==
    /\ proc[p] = "free" /\ p = pidfile /\ cmd = "none"
    /\ proc' = [proc EXCEPT ![p] = "other"]
    /\ UNCHANGED <<scenario, cliVars, fileVars, sock, sig, stray, kernVars>>

OtherExits(p) ==
    /\ proc[p] = "other"
    /\ Free(p)
    /\ UNCHANGED <<scenario, cliVars, fileVars, sock, stray, kernVars>>

Process(p) == \/ DaemonReady(p) \/ DaemonFails(p) \/ DaemonTerm(p)
              \/ DaemonDies(p) \/ PidReused(p) \/ OtherExits(p)

-----------------------------------------------------------------------------

\* Around the modules, in the scenarios without virtrtlabctl.
Loading ==
    /\ scenario # "cli"
    /\ \E m \in Mods : Insmod(m) \/ Rmmod(m)
    /\ UNCHANGED <<scenario, cliVars, fileVars, procVars>>

StoreBegins ==
    /\ scenario = "bus" /\ AttrsWritable
    /\ \E w \in Storers : StateStore(w)
    /\ UNCHANGED <<scenario, cliVars, fileVars, procVars, modVars, prngVars>>

Stores(w) ==
    /\ Store(w)
    /\ UNCHANGED <<scenario, cliVars, fileVars, procVars, modVars, prngVars>>

\* A device draws a random number, the harness writes a seed.
Draws ==
    /\ scenario = "prng"
    /\ \/ (mstate["uart"] = "live" \/ mstate["gpio"] = "live") /\ NextPrng
       \/ AttrsWritable /\ \E v \in Seeds : SeedStore(v)
    /\ UNCHANGED <<scenario, cliVars, fileVars, procVars, modVars, busVars>>

ModuleStep ==
    /\ Acquire \/ (scenario # "prng" /\ AcquireFails) \/ Release \/ Returned
    /\ UNCHANGED <<scenario, cliVars, fileVars, procVars>>

AutFiles ==
    /\ scenario # "prng"
    /\ \E m \in Mods :
          \/ Aut \notin users[m] /\ OpenFile(m, Aut)
          \/ CloseFile(m, Aut)
    /\ UNCHANGED <<scenario, cliVars, fileVars, procVars, mstate, loading, todo,
                   have, busVars, prngVars>>

LabNext ==
    \/ Up \/ Down \/ Abandon
    \/ \E p \in Pids : Process(p)
    \/ Loading \/ StoreBegins \/ (\E w \in Storers : Stores(w)) \/ Draws
    \/ ModuleStep \/ AutFiles

LabSpec == LabInit /\ [][LabNext]_labVars

-----------------------------------------------------------------------------
(* Properties *)

\* An `up' whose insmod fails half way leaves loaded exactly what was loaded
\* before it, whichever module fails at whichever step, unless the AUT already
\* holds one of them open.
RollbackRestores ==
    (At({"up"}, "unload") /\ queue = <<>> /\ ~refused) => Loaded = before

\* A `down' that finds no modules.list leaves no module loaded, whatever state
\* earlier commands, failures, kills and crashes left the lab in, unless somebody
\* holds a module open; and the daemon it found is gone or about to be.  So two
\* `down' in a row always clean up.
DownRecovers ==
    /\ (At({"down"}, "unload") /\ queue = <<>> /\ modlist = NoList /\ ~refused)
           => Loaded = {}
    /\ (At({"down", "stop"}, "unload") /\ target # 0)
           => proc[target] = "free" \/ sig[target] = "kill"

\* _daemon_pid: "Validates /proc/<pid>/comm to avoid signalling a PID-recycled
\* process".  A stale daemon.pid makes no command signal somebody else.
SignalsOnlyDaemon == ~stray

-----------------------------------------------------------------------------
(* Strengthenings of the invariants, used by the proofs *)

CliTypes ==
    /\ scenario \in {"bus", "prng", "cli"}
    /\ cmd \in {"none", "up", "start", "down", "stop"}
    /\ cmd # "none" => scenario = "cli"
    /\ profile \in Profiles \cup {<<>>}
    /\ queue \in Seq(Mods) /\ mine \in Seq(Mods)
    /\ cmd = "up" /\ pc = "insmod" => queue # <<>>
    /\ target \in Pids \cup {0} /\ pidfile \in Pids \cup {0}
    /\ modlist \in Seq(Mods) \cup {NoList}
    /\ proc \in [Pids -> {"free", "other"} \cup Daemons]
    /\ sig \in [Pids -> {"none", "term", "kill"}]
    /\ before \subseteq Mods /\ refused \in BOOLEAN /\ stray \in BOOLEAN

\* A command that stops the daemon signals the process it found, which stays a
\* virtrtlabd, or free, while the command runs.
StopInv ==
    /\ ~stray
    /\ pc \in {"term", "wait"} =>
          /\ cmd \in {"down", "stop"} /\ target \in Pids
          /\ proc[target] \in Daemons \cup {"free"}
    /\ (cmd \in {"down", "stop"} /\ pc \in {"unpid", "unload"} /\ target # 0)
          => proc[target] = "free" \/ sig[target] = "kill"

CoreLast(s)  == \A i \in 1..Len(s) : s[i] = "core" => i = Len(s)
CoreFirst(s) == \A i \in 1..Len(s) : s[i] = "core" => i = 1

\* A `down' without modules.list has in its queue every module that is loaded
\* and not already going, unless an rmmod met an open file.
DownInv ==
    cmd = "down" =>
        /\ pc \in {"find", "term", "wait", "unpid", "unload"}
        /\ loading # "none" => mstate[loading] = "going"
        /\ modlist = NoList => CoreLast(queue)
        /\ (modlist = NoList /\ ~refused) =>
               \A m \in Loaded : m \in SeqSet(queue) \/ m = loading

\* An `up' keeps what was loaded before it, and knows what it has loaded itself;
\* its rollback has the rest of that in its queue.
UpInv ==
    cmd = "up" =>
        /\ \A m \in before : "core" \in before
        /\ pc \in {"load", "insmod"} =>
              /\ CoreFirst(queue) /\ CoreFirst(mine)
              /\ "core" \in SeqSet(queue) => mine = <<>>
              /\ before \cap SeqSet(mine) = {}
        /\ pc = "load" => loading = "none" /\ Loaded = before \cup SeqSet(mine)
        /\ pc = "insmod" =>
              /\ loading \in {"none", Head(queue)}
              /\ Head(queue) \notin before \cup SeqSet(mine)
              /\ Loaded \ {Head(queue)} = before \cup SeqSet(mine)
        /\ pc = "unload" =>
              /\ before \subseteq Loaded /\ before \cap SeqSet(queue) = {}
              /\ CoreLast(queue) /\ loading \notin before
              /\ loading # "none" => mstate[loading] = "going"
              /\ ~refused => \A m \in Loaded : m \in before \cup SeqSet(queue) \cup {loading}

=============================================================================
