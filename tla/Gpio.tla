-------------------------------- MODULE Gpio --------------------------------
(***************************************************************************)
(* One line of a virtual GPIO bank of kernel/virtrtlab_gpio.c, with every  *)
(* thread that touches it:                                                 *)
(*                                                                         *)
(*   Injectors   harness threads inside a sysfs write to "inject"          *)
(*   Worker      apply_work, queued by the line's delay_timer              *)
(*   ctl         virtrtlab_bus_reset() inside this driver's notifier       *)
(*   the AUT     gpiolib callbacks, one critical section each              *)
(*   exit        rmmod inside virtrtlab_gpio_exit(), which takes the bank  *)
(*               apart while the others may still be on their way          *)
(*                                                                         *)
(* inject_store() snapshots the request under gdev->lock and stamps it     *)
(* with a generation; line_apply() commits it later, in two critical       *)
(* sections with the bit-flip draw between them.  The lines of a bank      *)
(* share nothing but gdev->lock, the attributes and the counters, so one   *)
(* line shows every interleaving.  There is no clock: "delayed" stands for *)
(* any latency_ns + jitter_ns > 0, and an armed timer expires at any time; *)
(* a rate is "zero" or "some", and "some" may or may not fire.             *)
(***************************************************************************)
EXTENDS Integers

CONSTANTS
    Injectors,   \* threads that write the inject attribute
    Worker,      \* the workqueue thread
    Env,         \* which of EnvOps the environment of this instance does
    MaxInjects,  \* bound: no inject write begins once so many are accepted
    MaxDrops     \* bound: ... or once stats/drops shows so many drops

EnvOps == {"down", "reset", "delay", "drop", "flip", "disable", "aut", "stats",
           "rmmod"}

ASSUME ThreadAssumption == Worker \notin Injectors
ASSUME EnvAssumption    == Env \subseteq EnvOps
ASSUME BoundAssumption  == MaxInjects \in Nat /\ MaxDrops \in Nat

VARIABLES
    bus_state,
    ctl,                                    \* pc of the RESET notifier
    exit,        \* pc of virtrtlab_gpio_exit(): "live" before it, "freed" after
    late,        \* history: an inject armed delay_timer after it was cancelled
    enabled, delayed, drop_rate, flip_rate, \* sysfs attributes
    value, is_output,                       \* line->value, line->is_output
    timer, pending,                         \* delay_timer armed, work queued
    snap_value, snap_flip,                  \* snapshot of the newest request
    snap_gen, apply_gen,                    \* generations
    pc,                                     \* next step of each thread
    local,       \* its locals: value asked for or read, new value, generation
    stat,        \* stats/: value_changes, drops, bitflips
    reset_gen    \* history: newest generation discarded by a RESET

Threads == Injectors \cup {Worker}
Values  == {0, 1}

attrVars == <<enabled, delayed, drop_rate, flip_rate>>
lineVars == <<value, is_output>>
snapVars == <<snap_value, snap_flip, snap_gen>>
busVars  == <<bus_state, ctl, exit, late>>
vars == <<busVars, attrVars, lineVars, timer, pending, snapVars, apply_gen, pc,
          local, stat, reset_gen>>

NoLocal == [val |-> 0, new |-> 0, gen |-> 0]
NoStats == [value_changes |-> 0, drops |-> 0, bitflips |-> 0]

Init ==
    /\ bus_state = "up" /\ ctl = "idle" /\ exit = "live" /\ late = FALSE
    /\ enabled = TRUE /\ delayed = FALSE
    /\ drop_rate = "zero" /\ flip_rate = "zero"
    /\ value = 0 /\ is_output = FALSE
    /\ timer = FALSE /\ pending = FALSE
    /\ snap_value = 0 /\ snap_flip = "zero" /\ snap_gen = 0 /\ apply_gen = 0
    /\ pc = [t \in Threads |-> "idle"]
    /\ local = [t \in Threads |-> NoLocal]
    /\ stat = NoStats
    /\ reset_gen = 0

\* A cancel_work_sync() is in progress: queueing apply_work has no effect.
Cancelling == ctl = "wait" \/ exit = "wait"

\* The bank is in the bus's notifier chain.
Notified == exit \in {"live", "work", "wait", "notifier"}

Goto(t, l) == pc' = [pc EXCEPT ![t] = l]

\* The thread leaves the driver.
Return(t) ==
    /\ Goto(t, "idle")
    /\ local' = [local EXCEPT ![t] = NoLocal]

-----------------------------------------------------------------------------
(* inject_store() *)

\* Parsed, and the bus gate passed (-EIO otherwise).
InjectBegin(i) ==
    /\ pc[i] = "idle" /\ exit # "freed"
    /\ bus_state = "up"
    /\ snap_gen < MaxInjects /\ stat.drops < MaxDrops
    /\ Goto(i, "gate")
    /\ \E v \in Values :
          local' = [local EXCEPT ![i] = [val |-> v, new |-> 0, gen |-> 0]]
    /\ UNCHANGED <<busVars, attrVars, lineVars, timer, pending, snapVars,
                   apply_gen, stat, reset_gen>>

\* enabled gate: the write is silently discarded.
InjectDiscard(i) ==
    /\ pc[i] = "gate" /\ ~enabled
    /\ Return(i)
    /\ UNCHANGED <<busVars, attrVars, lineVars, timer, pending, snapVars,
                   apply_gen, stat, reset_gen>>

InjectDrop(i) ==
    /\ pc[i] = "gate" /\ enabled /\ drop_rate # "zero"
    /\ stat' = [stat EXCEPT !.drops = stat.drops + 1]
    /\ Return(i)
    /\ UNCHANGED <<busVars, attrVars, lineVars, timer, pending, snapVars,
                   apply_gen, reset_gen>>

\* Mutant: a request that supersedes an uncommitted one keeps its generation.
InjectAcceptSameGen(i) ==
    LET g == IF snap_gen = apply_gen THEN snap_gen + 1 ELSE snap_gen IN
    /\ pc[i] = "gate" /\ enabled
    /\ snap_value' = local[i].val
    /\ snap_flip' = flip_rate
    /\ snap_gen' = g
    /\ Goto(i, IF delayed THEN "start" ELSE "apply")
    /\ local' = [local EXCEPT ![i] = [val |-> local[i].val, new |-> 0, gen |-> g]]
    /\ UNCHANGED <<busVars, attrVars, lineVars, timer, pending, apply_gen,
                   stat, reset_gen>>

\* Snapshot, still under gdev->lock.
InjectAccept(i) ==
    /\ pc[i] = "gate" /\ enabled
    /\ snap_value' = local[i].val
    /\ snap_flip' = flip_rate
    /\ snap_gen' = snap_gen + 1
    /\ Goto(i, IF delayed THEN "start" ELSE "apply")
    /\ local' = [local EXCEPT ![i] = [val |-> local[i].val, new |-> 0,
                                       gen |-> snap_gen + 1]]
    /\ UNCHANGED <<busVars, attrVars, lineVars, timer, pending, apply_gen,
                   stat, reset_gen>>

\* Mutant: no timer is started while apply_work runs.
InjectStartUnlessBusy(i) ==
    /\ pc[i] = "start"
    /\ timer' = (timer \/ pc[Worker] = "idle")
    /\ late' = (late \/ exit # "live")
    /\ Return(i)
    /\ UNCHANGED <<bus_state, ctl, exit, attrVars, lineVars, pending, snapVars,
                   apply_gen, stat, reset_gen>>

\* hrtimer_start(): a timer already armed is moved.
InjectStart(i) ==
    /\ pc[i] = "start"
    /\ timer' = TRUE
    /\ late' = (late \/ exit # "live")
    /\ Return(i)
    /\ UNCHANGED <<bus_state, ctl, exit, attrVars, lineVars, pending, snapVars,
                   apply_gen, stat, reset_gen>>

-----------------------------------------------------------------------------
(* delay_timer, apply_work and virtrtlab_gpio_line_apply() *)

\* Mutant: the callback queues apply_work only when it is not running.
TimerExpireUnlessBusy ==
    /\ timer
    /\ timer' = FALSE
    /\ pending' = (pending \/ (~Cancelling /\ pc[Worker] = "idle"))
    /\ UNCHANGED <<busVars, attrVars, lineVars, snapVars, apply_gen, pc, local,
                   stat, reset_gen>>

TimerExpire ==
    /\ timer
    /\ timer' = FALSE
    /\ pending' = (pending \/ ~Cancelling)
    /\ UNCHANGED <<busVars, attrVars, lineVars, snapVars, apply_gen, pc, local,
                   stat, reset_gen>>

WorkBegin ==
    /\ pending /\ pc[Worker] = "idle"
    /\ pending' = FALSE
    /\ Goto(Worker, "apply")
    /\ UNCHANGED <<busVars, attrVars, lineVars, timer, snapVars, apply_gen,
                   local, stat, reset_gen>>

\* First critical section: nothing left to commit.
ApplyStale(t) ==
    /\ pc[t] = "apply" /\ snap_gen = apply_gen
    /\ Return(t)
    /\ UNCHANGED <<busVars, attrVars, lineVars, timer, pending, snapVars,
                   apply_gen, stat, reset_gen>>

\* First critical section and the bit-flip draw.
ApplyRead(t) ==
    /\ pc[t] = "apply" /\ snap_gen # apply_gen
    /\ \E new \in Values :
          /\ new # snap_value => snap_flip # "zero"
          /\ local' = [local EXCEPT ![t] =
                         [val |-> snap_value, new |-> new, gen |-> snap_gen]]
    /\ Goto(t, "commit")
    /\ UNCHANGED <<busVars, attrVars, lineVars, timer, pending, snapVars,
                   apply_gen, stat, reset_gen>>

\* Second critical section: a newer snapshot has arrived meanwhile.
CommitStale(t) ==
    /\ pc[t] = "commit" /\ snap_gen # local[t].gen
    /\ Return(t)
    /\ UNCHANGED <<busVars, attrVars, lineVars, timer, pending, snapVars,
                   apply_gen, stat, reset_gen>>

One(b) == IF b THEN 1 ELSE 0

\* Mutant: the generation is not tested again in the second critical section.
CommitUnchecked(t) ==
    /\ pc[t] = "commit"
    /\ apply_gen' = local[t].gen
    /\ value' = IF is_output THEN value ELSE local[t].new
    /\ stat' = [drops |-> stat.drops,
                bitflips |-> stat.bitflips + One(local[t].new # local[t].val),
                value_changes |-> stat.value_changes + One(value' # value)]
    /\ Return(t)
    /\ UNCHANGED <<busVars, attrVars, is_output, timer, pending, snapVars,
                   reset_gen>>

\* Mutant: the commit overrides a line the AUT drives.
CommitOnOutput(t) ==
    /\ pc[t] = "commit" /\ snap_gen = local[t].gen
    /\ apply_gen' = local[t].gen
    /\ value' = local[t].new
    /\ stat' = [drops |-> stat.drops,
                bitflips |-> stat.bitflips + One(local[t].new # local[t].val),
                value_changes |-> stat.value_changes + One(value' # value)]
    /\ Return(t)
    /\ UNCHANGED <<busVars, attrVars, is_output, timer, pending, snapVars,
                   reset_gen>>

\* Second critical section: commit, unless the AUT drives the line.
Commit(t) ==
    /\ pc[t] = "commit" /\ snap_gen = local[t].gen
    /\ apply_gen' = local[t].gen
    /\ value' = IF is_output THEN value ELSE local[t].new
    /\ stat' = [drops |-> stat.drops,
                bitflips |-> stat.bitflips + One(local[t].new # local[t].val),
                value_changes |-> stat.value_changes + One(value' # value)]
    /\ Return(t)
    /\ UNCHANGED <<busVars, attrVars, is_output, timer, pending, snapVars,
                   reset_gen>>

Inject(i) == \/ InjectBegin(i) \/ InjectDiscard(i) \/ InjectDrop(i)
             \/ InjectAccept(i) \/ InjectStart(i)
Apply(t)  == ApplyStale(t) \/ ApplyRead(t) \/ CommitStale(t) \/ Commit(t)

-----------------------------------------------------------------------------
(* gpio_chip callbacks: the AUT *)

DirectionInput ==
    /\ "aut" \in Env /\ exit = "live"
    /\ is_output' = FALSE
    /\ UNCHANGED <<busVars, attrVars, value, timer, pending, snapVars,
                   apply_gen, pc, local, stat, reset_gen>>

DirectionOutput ==
    /\ "aut" \in Env /\ exit = "live"
    /\ is_output' = TRUE
    /\ value' \in Values
    /\ UNCHANGED <<busVars, attrVars, timer, pending, snapVars, apply_gen, pc,
                   local, stat, reset_gen>>

\* set / set_multiple: ignored on an input line.
SetValue ==
    /\ "aut" \in Env /\ exit = "live" /\ is_output
    /\ value' \in Values
    /\ UNCHANGED <<busVars, attrVars, is_output, timer, pending, snapVars,
                   apply_gen, pc, local, stat, reset_gen>>

Aut == DirectionInput \/ DirectionOutput \/ SetValue

-----------------------------------------------------------------------------
(* The bus.  DOWN and UP events change nothing in this driver. *)

BusSetState ==
    /\ "down" \in Env /\ ctl = "idle"
    /\ bus_state' = IF bus_state = "up" THEN "down" ELSE "up"
    /\ UNCHANGED <<ctl, exit, late, attrVars, lineVars, timer, pending,
                   snapVars, apply_gen, pc, local, stat, reset_gen>>

\* RESET: hrtimer_cancel ...
ResetTimer ==
    /\ "reset" \in Env /\ ctl = "idle" /\ Notified
    /\ timer' = FALSE
    /\ ctl' = "work"
    /\ UNCHANGED <<bus_state, exit, late, attrVars, lineVars, pending,
                   snapVars, apply_gen, pc, local, stat, reset_gen>>

\* ... cancel_work_sync: unqueue ...
ResetWork ==
    /\ ctl = "work"
    /\ pending' = FALSE
    /\ ctl' = "wait"
    /\ UNCHANGED <<bus_state, exit, late, attrVars, lineVars, timer, snapVars,
                   apply_gen, pc, local, stat, reset_gen>>

\* ... and wait ...
ResetWait ==
    /\ ctl = "wait" /\ pc[Worker] = "idle"
    /\ ctl' = "mark"
    /\ UNCHANGED <<bus_state, exit, late, attrVars, lineVars, timer, pending,
                   snapVars, apply_gen, pc, local, stat, reset_gen>>

\* Mutant: RESET marks the next generation instead of the newest one.
ResetMarkNext ==
    /\ ctl = "mark"
    /\ enabled' = TRUE /\ delayed' = FALSE
    /\ drop_rate' = "zero" /\ flip_rate' = "zero"
    /\ stat' = NoStats
    /\ apply_gen' = snap_gen + 1
    /\ reset_gen' = snap_gen
    /\ ctl' = "idle" /\ bus_state' = "up"
    /\ UNCHANGED <<exit, late, lineVars, timer, pending, snapVars, pc, local>>

\* ... then, under gdev->lock, clear attributes and counters and mark the
\* newest request as committed.  Back in the core, the bus is set up.
ResetMark ==
    /\ ctl = "mark"
    /\ enabled' = TRUE /\ delayed' = FALSE
    /\ drop_rate' = "zero" /\ flip_rate' = "zero"
    /\ stat' = NoStats
    /\ apply_gen' = snap_gen
    /\ reset_gen' = snap_gen
    /\ ctl' = "idle" /\ bus_state' = "up"
    /\ UNCHANGED <<exit, late, lineVars, timer, pending, snapVars, pc, local>>

Reset == ResetTimer \/ ResetWork \/ ResetWait \/ ResetMark

-----------------------------------------------------------------------------
(* sysfs stores *)

AttrStore ==
    /\ exit # "freed"
    /\ \/ "disable" \in Env /\ enabled' = ~enabled
          /\ UNCHANGED <<delayed, drop_rate, flip_rate>>
       \/ "delay" \in Env /\ delayed' = ~delayed
          /\ UNCHANGED <<enabled, drop_rate, flip_rate>>
       \/ "drop" \in Env /\ drop_rate' \in {"zero", "some"}
          /\ UNCHANGED <<enabled, delayed, flip_rate>>
       \/ "flip" \in Env /\ flip_rate' \in {"zero", "some"}
          /\ UNCHANGED <<enabled, delayed, drop_rate>>
    /\ UNCHANGED <<busVars, lineVars, timer, pending, snapVars, apply_gen, pc,
                   local, stat, reset_gen>>

StatsReset ==
    /\ "stats" \in Env /\ exit # "freed"
    /\ stat' = NoStats
    /\ UNCHANGED <<busVars, attrVars, lineVars, timer, pending, snapVars,
                   apply_gen, pc, local, reset_gen>>

-----------------------------------------------------------------------------
(* virtrtlab_gpio_exit(), for one bank.  The kernel starts it only while   *)
(* the AUT has no line requested.  The attributes, "inject" among them,    *)
(* stay until device_unregister().                                         *)

\* Mutant: delay_timer is not cancelled.
ExitTimerMissing ==
    /\ "rmmod" \in Env /\ exit = "live"
    /\ exit' = "work"
    /\ UNCHANGED <<bus_state, ctl, late, attrVars, lineVars, timer, pending,
                   snapVars, apply_gen, pc, local, stat, reset_gen>>

\* hrtimer_cancel() of the line
ExitTimer ==
    /\ "rmmod" \in Env /\ exit = "live"
    /\ timer' = FALSE
    /\ exit' = "work"
    /\ UNCHANGED <<bus_state, ctl, late, attrVars, lineVars, pending, snapVars,
                   apply_gen, pc, local, stat, reset_gen>>

\* cancel_work_sync(): unqueue apply_work ...
ExitWork ==
    /\ exit = "work"
    /\ pending' = FALSE
    /\ exit' = "wait"
    /\ UNCHANGED <<bus_state, ctl, late, attrVars, lineVars, timer, snapVars,
                   apply_gen, pc, local, stat, reset_gen>>

\* ... and wait for a run in progress.
ExitWait ==
    /\ exit = "wait" /\ pc[Worker] = "idle"
    /\ exit' = "notifier"
    /\ UNCHANGED <<bus_state, ctl, late, attrVars, lineVars, timer, pending,
                   snapVars, apply_gen, pc, local, stat, reset_gen>>

\* virtrtlab_bus_unregister_notifier(): waits for a broadcast in progress.
ExitNotifier ==
    /\ exit = "notifier" /\ ctl = "idle"
    /\ exit' = "device"
    /\ UNCHANGED <<bus_state, ctl, late, attrVars, lineVars, timer, pending,
                   snapVars, apply_gen, pc, local, stat, reset_gen>>

\* gpiochip_remove(), then device_unregister(): waits for the stores, and
\* virtrtlab_gpio_dev_release() frees the bank.
ExitDevice ==
    /\ exit = "device" /\ \A i \in Injectors : pc[i] = "idle"
    /\ exit' = "freed"
    /\ UNCHANGED <<bus_state, ctl, late, attrVars, lineVars, timer, pending,
                   snapVars, apply_gen, pc, local, stat, reset_gen>>

Exit == ExitTimer \/ ExitWork \/ ExitWait \/ ExitNotifier \/ ExitDevice

-----------------------------------------------------------------------------

Next ==
    \/ \E i \in Injectors : Inject(i)
    \/ \E t \in Threads : Apply(t)
    \/ TimerExpire \/ WorkBegin
    \/ Aut \/ BusSetState \/ Reset \/ AttrStore \/ StatsReset \/ Exit

\* A thread inside the driver goes on, an armed timer expires, a queued work
\* item runs; nobody is obliged to start an operation.
Fairness ==
    /\ \A i \in Injectors : WF_vars(InjectDiscard(i) \/ InjectDrop(i)
                                    \/ InjectAccept(i) \/ InjectStart(i))
    /\ \A t \in Threads : WF_vars(Apply(t))
    /\ WF_vars(TimerExpire) /\ WF_vars(WorkBegin)
    /\ WF_vars(ResetWork \/ ResetWait \/ ResetMark)

Spec == Init /\ [][Next]_vars /\ Fairness

-----------------------------------------------------------------------------
(* Properties *)

\* The flags, and the rest.
FlagsOK ==
    /\ enabled \in BOOLEAN /\ delayed \in BOOLEAN /\ is_output \in BOOLEAN
    /\ timer \in BOOLEAN /\ pending \in BOOLEAN /\ late \in BOOLEAN

DataOK ==
    /\ bus_state \in {"up", "down"} /\ ctl \in {"idle", "work", "wait", "mark"}
    /\ exit \in {"live", "work", "wait", "notifier", "device", "freed"}
    /\ drop_rate \in {"zero", "some"} /\ flip_rate \in {"zero", "some"}
    /\ value \in Values
    /\ snap_value \in Values /\ snap_flip \in {"zero", "some"}
    /\ snap_gen \in Nat /\ apply_gen \in 0..snap_gen
    /\ reset_gen \in 0..snap_gen
    /\ pc \in [Threads -> {"idle", "gate", "start", "apply", "commit"}]
    /\ pc[Worker] \in {"idle", "apply", "commit"}
    /\ local \in [Threads -> [val : Values, new : Values, gen : Nat]]
    /\ \A t \in Threads : local[t].gen <= snap_gen
    /\ stat \in [value_changes : Nat, drops : Nat, bitflips : Nat]

\* Every variable keeps its type, and neither a thread nor the line ever knows
\* a generation that inject_store() has not issued yet.
TypeOK == FlagsOK /\ DataOK

\* No accepted inject is forgotten: while the newest request is uncommitted, a
\* thread that will commit it is on its way -- an injector that is about to
\* start the timer or to apply, the timer, the work item, or line_apply() past
\* its first critical section with this very generation -- or a RESET is about
\* to discard it, or rmmod has begun to.
NoForgottenInject ==
    snap_gen # apply_gen =>
        \/ timer \/ pending \/ ctl # "idle" \/ exit # "live"
        \/ \E i \in Injectors : pc[i] = "start"
        \/ \E t \in Threads : pc[t] = "apply"
        \/ \E t \in Threads : pc[t] = "commit" /\ local[t].gen = snap_gen

\* What line_apply() commits is the newest request, however long the thread
\* slept between reading the snapshot and committing it.
CommitsNewest ==
    \A t \in Threads :
        (pc[t] = "commit" /\ local[t].gen = snap_gen) =>
            /\ local[t].val = snap_value
            /\ local[t].new # snap_value => snap_flip # "zero"

\* The committed generation never goes back: an older inject never overwrites
\* a newer one, and a RESET's mark is not undone.
NeverRegress == [][apply_gen' >= apply_gen]_vars

\* While the AUT drives the line, only the AUT changes its value, through every
\* inject, late timer, RESET and rmmod, and nothing is counted in value_changes.
AutOwnsOutput ==
    [][is_output => /\ value' # value => Aut
                    /\ stat'.value_changes <= stat.value_changes]_vars

\* Nothing runs on a freed bank -- no inject, no broadcast, no armed timer, no
\* queued or running apply_work -- unless a delayed inject armed its timer after
\* virtrtlab_gpio_exit() had cancelled it: the attribute is removed last, so this
\* is the one thing that a harness has to keep from happening during rmmod.
FreedUnlessLate ==
    exit = "freed" =>
        /\ ctl = "idle" /\ \A i \in Injectors : pc[i] = "idle"
        /\ ~late => ~timer /\ ~pending /\ pc[Worker] = "idle"

\* Its strengthening, used by the proofs in GpioProofs: what each call of
\* virtrtlab_gpio_exit() has put an end to stays ended, but for a late inject.
ExitInv ==
    /\ ~Notified => ctl = "idle"
    /\ exit = "freed" => \A i \in Injectors : pc[i] = "idle"
    /\ exit # "live" /\ late = FALSE => timer = FALSE
    /\ exit \notin {"live", "work"} /\ late = FALSE => pending = FALSE
    /\ exit \in {"notifier", "device", "freed"} /\ late = FALSE
          => pc[Worker] = "idle"

\* Every accepted inject is eventually committed, superseded by a newer one or
\* discarded by a RESET.
InjectSettles ==
    \A g \in 1..MaxInjects :
        (snap_gen = g /\ apply_gen # g) ~> (snap_gen # g \/ apply_gen = g)

-----------------------------------------------------------------------------
(* What the docs and comments say, and the code does not do. *)

\* virtrtlab_gpio.c, RESET: "any apply() instance that squeezed past
\* cancel_work_sync() sees a stale-dispatch and exits without corrupting the
\* reset state": a request a RESET has discarded is not committed after it.
ResetDiscards ==
    [][\A t \in Threads : Commit(t) => local[t].gen > reset_gen]_vars

=============================================================================
