--------------------------------- MODULE Bus ---------------------------------
(***************************************************************************)
(* The virtual bus of kernel/virtrtlab_core.c: its state, the threads that *)
(* write it through sysfs, and the blocking notifier chain through which   *)
(* every device hears of a change.                                         *)
(*                                                                         *)
(* A store holds virtrtlab_bus_state_mutex from the change of the state to *)
(* the end of its last broadcast.  A broadcast walks the chain with the    *)
(* chain's rwsem held for reading; registering and unregistering a device  *)
(* hold it for writing, and so exclude a walk.                             *)
(***************************************************************************)
EXTENDS Integers, Sequences

CONSTANTS
    Devs,     \* the devices that may be in the chain
    Storers   \* the threads that write `state'

VARIABLES
    bus_state, \* virtrtlab_bus_state: "up" or "down"
    chain,     \* the notifier chain, in the order of registration
    seen,      \* the last event each device was notified of, or "none"
    store      \* per thread: its pc, its event, and the devices left to notify

busVars == <<bus_state, chain, seen, store>>

Idle == [pc |-> "idle", ev |-> "none", left |-> <<>>]

BusInit ==
    /\ bus_state = "up" /\ chain = <<>>
    /\ seen = [d \in Devs |-> "none"]
    /\ store = [w \in Storers |-> Idle]

\* The mutex is taken from "call" on; the rwsem is held during "walk".
MutexFree == \A w \in Storers : store[w].pc \in {"idle", "lock"}
Walking   == \E w \in Storers : store[w].pc = "walk"

Goto(w, pc, ev, left) ==
    store' = [store EXCEPT ![w] = [pc |-> pc, ev |-> ev, left |-> left]]

-----------------------------------------------------------------------------
(* state_store() *)

\* write(2) of "up", "down" or "reset"; anything else is -EINVAL.
StateStore(w) ==
    /\ store[w].pc = "idle"
    /\ \E ev \in {"up", "down", "reset"} : Goto(w, "lock", ev, <<>>)
    /\ UNCHANGED <<bus_state, chain, seen>>

\* Mutant: the state is written and broadcast without the mutex.
SetStateUnlocked(w) ==
    /\ store[w].pc = "lock" /\ store[w].ev \in {"up", "down"}
    /\ bus_state' = store[w].ev
    /\ IF bus_state = store[w].ev THEN Goto(w, "idle", "none", <<>>)
                                  ELSE Goto(w, "call", store[w].ev, <<>>)
    /\ UNCHANGED <<chain, seen>>

\* virtrtlab_bus_set_state(): lock, write the state, and broadcast a change.
SetState(w) ==
    /\ store[w].pc = "lock" /\ store[w].ev \in {"up", "down"} /\ MutexFree
    /\ bus_state' = store[w].ev
    /\ IF bus_state = store[w].ev THEN Goto(w, "idle", "none", <<>>)
                                  ELSE Goto(w, "call", store[w].ev, <<>>)
    /\ UNCHANGED <<chain, seen>>

\* virtrtlab_bus_reset(): lock, and broadcast RESET before the state changes.
BusReset(w) ==
    /\ store[w].pc = "lock" /\ store[w].ev = "reset" /\ MutexFree
    /\ Goto(w, "call", "reset", <<>>)
    /\ UNCHANGED <<bus_state, chain, seen>>

\* virtrtlab_bus_notifier_call(): take the rwsem for reading.
CallChain(w) ==
    /\ store[w].pc = "call"
    /\ Goto(w, "walk", store[w].ev, chain)
    /\ UNCHANGED <<bus_state, chain, seen>>

\* The next device's notifier runs.
Notify(w) ==
    /\ store[w].pc = "walk" /\ store[w].left # <<>>
    /\ seen' = [seen EXCEPT ![Head(store[w].left)] = store[w].ev]
    /\ Goto(w, "walk", store[w].ev, Tail(store[w].left))
    /\ UNCHANGED <<bus_state, chain>>

\* The end of a broadcast of UP or DOWN: unlock.
StoreDone(w) ==
    /\ store[w].pc = "walk" /\ store[w].left = <<>> /\ store[w].ev # "reset"
    /\ Goto(w, "idle", "none", <<>>)
    /\ UNCHANGED <<bus_state, chain, seen>>

\* Mutant: after RESET the devices are told the state the bus was in.
ResetUpKeeps(w) ==
    /\ store[w].pc = "walk" /\ store[w].left = <<>> /\ store[w].ev = "reset"
    /\ Goto(w, "call", bus_state, <<>>)
    /\ UNCHANGED <<bus_state, chain, seen>>

\* The end of the broadcast of RESET: the state becomes UP, and UP follows.
ResetUp(w) ==
    /\ store[w].pc = "walk" /\ store[w].left = <<>> /\ store[w].ev = "reset"
    /\ bus_state' = "up"
    /\ Goto(w, "call", "up", <<>>)
    /\ UNCHANGED <<chain, seen>>

Store(w) == \/ SetState(w) \/ BusReset(w) \/ CallChain(w) \/ Notify(w)
            \/ StoreDone(w) \/ ResetUp(w)

-----------------------------------------------------------------------------
(* virtrtlab_bus_register_notifier(), virtrtlab_bus_unregister_notifier() *)

Register(d) ==
    /\ ~Walking
    /\ chain' = Append(chain, d)
    /\ seen' = [seen EXCEPT ![d] = "none"]
    /\ UNCHANGED <<bus_state, store>>

InChain(d) == \E i \in 1..Len(chain) : chain[i] = d

\* The chain without its first entry for d, if it has one.
Unlink(d) ==
    IF InChain(d)
    THEN \E i \in 1..Len(chain) :
            /\ chain[i] = d /\ \A j \in 1..(i - 1) : chain[j] # d
            /\ chain' = SubSeq(chain, 1, i - 1) \o SubSeq(chain, i + 1, Len(chain))
    ELSE UNCHANGED chain

\* Mutant: the chain is edited under a walk.
UnregisterUnderWalk(d) ==
    /\ Unlink(d)
    /\ UNCHANGED <<bus_state, seen, store>>

Unregister(d) ==
    /\ ~Walking
    /\ Unlink(d)
    /\ UNCHANGED <<bus_state, seen, store>>

-----------------------------------------------------------------------------

\* Whoever writes the state and in whatever order, once the stores are done
\* the last event a device heard of agrees with the state of the bus; and a
\* device hears UP only when the bus is up, DOWN only when it is down.  A
\* device that registered since the last change has heard nothing yet.
EventsAgree ==
    /\ MutexFree => \A d \in Devs : InChain(d) => seen[d] \in {"none", bus_state}
    /\ \A w \in Storers :
          (store[w].pc = "walk" /\ store[w].ev # "reset")
              => bus_state = store[w].ev

\* The contract of virtrtlab_core.h: after RESET the next event of a device is
\* the UP that completes it, and only unregistering comes in between.
ResetThenUp ==
    [][\A d \in Devs : (seen[d] = "reset" /\ seen'[d] # "reset")
                           => seen'[d] = "up" \/ ~InChain(d)]_busVars

-----------------------------------------------------------------------------
(* Strengthenings of the invariants, used by the proofs *)

Busy(w) == store[w].pc \in {"call", "walk"}

\* What a store holds at each of its steps: `left' is a part of the chain during
\* a walk and empty otherwise.
StoreOK ==
    /\ chain \in Seq(Devs)
    /\ \A i, j \in 1..Len(chain) : chain[i] = chain[j] => i = j
    /\ store \in [Storers -> [pc : {"idle", "lock", "call", "walk"},
                              ev : {"none", "up", "down", "reset"}, left : Seq(Devs)]]
    /\ \A w \in Storers :
          /\ store[w].pc = "idle" => store[w] = Idle
          /\ store[w].pc # "idle" => store[w].ev # "none"
          /\ store[w].pc # "walk" => store[w].left = <<>>
          /\ store[w].pc = "walk" =>
                \A i \in 1..Len(store[w].left) : InChain(store[w].left[i])

\* While a store broadcasts UP or DOWN the bus is in that state, and the devices
\* it has passed have heard so; RESET is heard by no device that is to hear DOWN
\* next.
Broadcasts(w) ==
    /\ store[w].ev # "reset" => bus_state = store[w].ev
    /\ store[w].ev = "down" => \A d \in Devs : InChain(d) => seen[d] # "reset"
    /\ (store[w].pc = "walk" /\ store[w].ev # "reset") =>
          \A d \in Devs : InChain(d) =>
             \/ seen[d] = store[w].ev
             \/ \E i \in 1..Len(store[w].left) : store[w].left[i] = d
    /\ (store[w].pc = "call" /\ store[w].ev = "reset") =>
          \A d \in Devs : InChain(d) => seen[d] \in {"none", bus_state}

\* One store at a time has the mutex.
EventsInv ==
    /\ bus_state \in {"up", "down"}
    /\ seen \in [Devs -> {"none", "up", "down", "reset"}]
    /\ \A v, w \in Storers : Busy(v) /\ Busy(w) => v = w
    /\ MutexFree => \A d \in Devs : InChain(d) => seen[d] \in {"none", bus_state}
    /\ \A w \in Storers : Busy(w) => Broadcasts(w)

=============================================================================
