------------------------------- MODULE Modules -------------------------------
(***************************************************************************)
(* Loading and unloading virtrtlab_core, virtrtlab_uart and virtrtlab_gpio *)
(* beside a bus in use: each module's init function step by step, the      *)
(* goto ladder it takes when a step fails, and its exit function.          *)
(*                                                                         *)
(* `have' is everything the modules have registered with the kernel, as    *)
(* pairs <<kind, owner>>; the owner is a device, or the module itself.     *)
(* `todo' is what is left of the function that runs: steps that acquire    *)
(* ("get") and may fail, steps that release ("put") and cannot.  One       *)
(* insmod or rmmod runs at a time.  The kernel refuses rmmod of a module   *)
(* that is in use, by an open file or by a module that links to it.        *)
(***************************************************************************)
EXTENDS Bus, Prng

CONSTANTS
    Uarts,  \* the devices of virtrtlab_uart, in the order of uart_devs[]
    Gpios   \* the devices of virtrtlab_gpio, in the order of gpio_devs[]

VARIABLES
    mstate,  \* of each module: "absent", "coming", "live" or "going"
    loading, \* the module whose init or exit function runs, or "none"
    todo,    \* the rest of that function
    have,    \* what is registered or allocated
    users    \* of each module: who holds a file of it open

modVars == <<mstate, loading, todo, have, users>>

Mods == {"core", "uart", "gpio"}

SeqSet(s) == {s[i] : i \in 1..Len(s)}

Distinct(s) == \A i, j \in 1..Len(s) : s[i] = s[j] => i = j

ASSUME DevAssumption ==
    /\ Uarts \in Seq(Devs) /\ Distinct(Uarts)
    /\ Gpios \in Seq(Devs) /\ Distinct(Gpios)
    /\ Devs = SeqSet(Uarts) \cup SeqSet(Gpios)
    /\ SeqSet(Uarts) \cap SeqSet(Gpios) = {}

-----------------------------------------------------------------------------
(* The functions, as sequences of steps *)

Step(act, kind, owner) == [act |-> act, res |-> <<kind, owner>>]
Get(kind, owner) == Step("get", kind, owner)
Put(kind, owner) == Step("put", kind, owner)

\* The steps of `owner' for every kind of `kinds' in turn; the same device after
\* device; and the same from the last device back to the first.
All(act, kinds, owner) == [k \in 1..Len(kinds) |-> Step(act, kinds[k], owner)]
Each(act, kinds, devs) ==
    LET n == Len(kinds) IN
    [k \in 1..(n * Len(devs)) |->
        Step(act, kinds[((k - 1) % n) + 1], devs[((k - 1) \div n) + 1])]
Backwards(act, kinds, devs) ==
    Each(act, kinds, [i \in 1..Len(devs) |-> devs[Len(devs) + 1 - i]])

\* virtrtlab_core_init(), its ladder err_devices .. err_bus_register, and where
\* each failing step enters the ladder.
CoreKinds  == <<"bus", "root", "root_attrs", "buses", "bus0", "bus_attrs", "devices">>
CoreLadder == <<"bus_attrs", "bus0", "buses", "root_attrs", "root", "bus">>

\* Mutant: a failure to create the root kobject returns at once.
CoreLabelPast ==
    [bus |-> 7, root |-> 7, root_attrs |-> 5, buses |-> 4, bus0 |-> 3,
     bus_attrs |-> 2, devices |-> 1]

CoreLabel ==
    [bus |-> 7, root |-> 6, root_attrs |-> 5, buses |-> 4, bus0 |-> 3,
     bus_attrs |-> 2, devices |-> 1]

CoreLoad == All("get", CoreKinds, "core")
CoreFail(kind) ==
    All("put", SubSeq(CoreLadder, CoreLabel[kind], Len(CoreLadder)), "core")
CoreUnload == All("put", <<"devices">> \o CoreLadder, "core")

\* virtrtlab_uart_init(): tty_alloc_driver(); for each device device_add(), the
\* notifier, misc_register(); then tty_register_driver().
UartKinds == <<"dev", "nb", "wire">>
UartLoad ==
    <<Get("tty", "uart")>> \o Each("get", UartKinds, Uarts)
        \o <<Get("tty_reg", "uart")>>

\* What a failing step of device i undoes itself, before err_unwind.
UartUndo == [dev |-> <<>>, nb |-> <<"dev">>, wire |-> <<"nb", "dev">>]

\* err_unwind for the first n devices, then tty_driver_kref_put().
UartUnwind(n) ==
    Backwards("put", <<"wire", "nb", "dev">>, SubSeq(Uarts, 1, n))
        \o <<Put("tty", "uart")>>

UartFail(kind, owner) ==
    CASE kind = "tty"     -> <<>>
      [] kind = "tty_reg" -> UartUnwind(Len(Uarts))
      [] OTHER ->
           LET i == CHOOSE i \in 1..Len(Uarts) : Uarts[i] = owner
           IN  All("put", UartUndo[kind], owner) \o UartUnwind(i - 1)

UartUnload == <<Put("tty_reg", "uart")>> \o UartUnwind(Len(Uarts))

\* virtrtlab_gpio_init(): gpio_devs[]; for each device device_add(),
\* gpiochip_add_data(), the notifier.
GpioKinds == <<"dev", "chip", "nb">>
GpioLoad ==
    <<Get("array", "gpio")>> \o Each("get", GpioKinds, Gpios)

GpioUndo == [dev |-> <<>>, chip |-> <<"dev">>, nb |-> <<"chip", "dev">>]

GpioUnwind(n) ==
    Backwards("put", <<"nb", "chip", "dev">>, SubSeq(Gpios, 1, n))
        \o <<Put("array", "gpio")>>

GpioFail(kind, owner) ==
    IF kind = "array" THEN <<>>
    ELSE LET i == CHOOSE i \in 1..Len(Gpios) : Gpios[i] = owner
         IN  All("put", GpioUndo[kind], owner) \o GpioUnwind(i - 1)

GpioUnload == GpioUnwind(Len(Gpios))

LoadOf(m) == CASE m = "core" -> CoreLoad
               [] m = "uart" -> UartLoad
               [] m = "gpio" -> GpioLoad
UnloadOf(m) == CASE m = "core" -> CoreUnload
               [] m = "uart" -> UartUnload
               [] m = "gpio" -> GpioUnload
FailOf(m, r) == CASE m = "core" -> CoreFail(r[1])
                  [] m = "uart" -> UartFail(r[1], r[2])
                  [] m = "gpio" -> GpioFail(r[1], r[2])

-----------------------------------------------------------------------------

ModInit ==
    /\ BusInit /\ PrngInit
    /\ mstate = [m \in Mods |-> "absent"]
    /\ loading = "none" /\ todo = <<>> /\ have = {}
    /\ users = [m \in Mods |-> {}]

\* Both device modules use symbols of virtrtlab_core.
Linked(m) == m # "core" => mstate["core"] = "live"
Needed(m) == m = "core" /\ \E n \in Mods \ {"core"} : mstate[n] # "absent"

\* insmod: the kernel links the module and calls its init function.  The static
\* data of virtrtlab_core starts afresh with every load.
Insmod(m) ==
    /\ loading = "none" /\ mstate[m] = "absent" /\ Linked(m)
    /\ mstate' = [mstate EXCEPT ![m] = "coming"]
    /\ loading' = m /\ todo' = LoadOf(m)
    /\ IF m = "core"
       THEN /\ bus_state' = "up" /\ prng' = DefaultSeed /\ draws' = 0
            /\ UNCHANGED <<chain, seen, store>>
       ELSE UNCHANGED <<busVars, prngVars>>
    /\ UNCHANGED <<have, users>>

\* rmmod of a module that nobody uses: its exit function.
Rmmod(m) ==
    /\ loading = "none" /\ mstate[m] = "live"
    /\ users[m] = {} /\ ~Needed(m)
    /\ mstate' = [mstate EXCEPT ![m] = "going"]
    /\ loading' = m /\ todo' = UnloadOf(m)
    /\ UNCHANGED <<have, users, busVars, prngVars>>

Now == Head(todo)
Running(act) == todo # <<>> /\ Now.act = act

\* A step acquires its resource.
Acquire ==
    /\ Running("get")
    /\ have' = have \cup {Now.res}
    /\ todo' = Tail(todo)
    /\ IF Now.res[1] = "nb" THEN Register(Now.res[2]) ELSE UNCHANGED busVars
    /\ UNCHANGED <<mstate, loading, users, prngVars>>

\* A step fails, and the function takes its error path.
AcquireFails ==
    /\ Running("get")
    /\ todo' = FailOf(loading, Now.res)
    /\ mstate' = [mstate EXCEPT ![loading] = "going"]
    /\ UNCHANGED <<loading, have, users, busVars, prngVars>>

\* A step releases its resource.  Removing the attributes of the bus waits for
\* the stores in progress, unregistering a notifier for a walk in progress.
Release ==
    /\ Running("put")
    /\ Now.res[1] = "bus_attrs" => \A w \in Storers : store[w] = Idle
    /\ have' = have \ {Now.res}
    /\ todo' = Tail(todo)
    /\ IF Now.res[1] = "nb" THEN Unregister(Now.res[2]) ELSE UNCHANGED busVars
    /\ UNCHANGED <<mstate, loading, users, prngVars>>

\* The init or exit function returns.
Returned ==
    /\ loading # "none" /\ todo = <<>>
    /\ mstate' = [mstate EXCEPT ![loading] =
                     IF @ = "coming" THEN "live" ELSE "absent"]
    /\ loading' = "none"
    /\ UNCHANGED <<todo, have, users, busVars, prngVars>>

\* A process opens or closes a tty, a wire or a gpio line.
OpenFile(m, u) ==
    /\ m # "core" /\ mstate[m] = "live"
    /\ users' = [users EXCEPT ![m] = @ \cup {u}]

CloseFile(m, u) ==
    /\ u \in users[m]
    /\ users' = [users EXCEPT ![m] = @ \ {u}]

\* A write(2) to `state' begins: the attribute is there, and not being removed.
AttrsWritable ==
    /\ <<"bus_attrs", "core">> \in have
    /\ ~(Running("put") /\ Now.res[1] = "bus_attrs")

-----------------------------------------------------------------------------
(* Properties *)

\* What each resource hangs from.
Under(r) ==
    LET k == r[1] IN
    CASE k \in {"root_attrs", "buses", "devices"} -> {<<"root", "core">>}
      [] k = "bus0"      -> {<<"buses", "core">>}
      [] k = "bus_attrs" -> {<<"bus0", "core">>}
      [] k \in {"bus", "root", "tty", "array"} -> {}
      [] k = "dev" -> {<<"bus", "core">>, <<"devices", "core">>}
      [] k \in {"nb", "wire", "chip"} -> {<<"dev", r[2]>>}
      [] k = "tty_reg" ->
            {<<"tty", "uart">>} \cup {<<"dev", d>> : d \in SeqSet(Uarts)}

\* No user of a resource outlives it: a device never outlives the kobjects it
\* hangs from, a notifier, a wire or a gpio_chip never outlives its device, the
\* tty driver is registered only over complete devices; a store that runs has
\* its attribute, a walk visits only devices that exist, an open file belongs
\* to a live module; and nothing is released twice.  At every step of every
\* init, error and exit path, whatever the bus does meanwhile.
NoDangling ==
    /\ \A r \in have : Under(r) \subseteq have
    /\ \A w \in Storers :
          /\ store[w] # Idle => <<"bus_attrs", "core">> \in have
          /\ \A d \in SeqSet(store[w].left) : <<"dev", d>> \in have
    /\ \A m \in Mods : users[m] # {} => mstate[m] = "live"
    /\ Running("put") => Now.res \in have

Owned(m) == {s.res : s \in SeqSet(LoadOf(m))}

\* insmod is all or nothing: a module that is live has everything its init
\* function acquires, and one that is absent, because its init failed at
\* whatever step or because it was unloaded, has left nothing behind.
AllOrNothing ==
    \A m \in Mods :
        /\ mstate[m] = "live" => Owned(m) \subseteq have
        /\ mstate[m] = "absent" => Owned(m) \cap have = {}

-----------------------------------------------------------------------------
(* Strengthenings of the invariants, used by the proofs *)

Kinds  == {"bus", "root", "root_attrs", "buses", "bus0", "bus_attrs", "devices",
           "tty", "tty_reg", "array", "dev", "nb", "wire", "chip"}
Steps  == [act : {"get", "put"}, res : Kinds \X (Devs \cup Mods)]

\* What the init function of m has acquired after k steps.
Acquired(m, k) == {LoadOf(m)[j].res : j \in 1..k}

\* s releases exactly R, and nothing before what hangs from it.
Undoes(s, R) ==
    /\ \A i \in 1..Len(s) : s[i].act = "put" /\ s[i].res \in R
    /\ \A r \in R : \E i \in 1..Len(s) : s[i].res = r
    /\ \A i, j \in 1..Len(s) :
          i < j => s[i].res # s[j].res /\ s[i].res \notin Under(s[j].res)

\* The functions of m fit together: the init function acquires nothing twice and
\* nothing before what it hangs from, and the error path of each of its steps
\* releases what the steps before it acquired, the exit function all of it.
Orderly(m) ==
    LET L == LoadOf(m) IN
    /\ L \in Seq(Steps)
    /\ \A k \in 1..Len(L) :
          /\ L[k].act = "get"
          /\ \A j \in 1..Len(L) : L[j].res = L[k].res => j = k
          /\ Under(L[k].res) \subseteq
                Acquired(m, k - 1) \cup (IF m = "core" THEN {} ELSE Owned("core"))
          /\ FailOf(m, L[k].res) \in Seq(Steps)
          /\ Undoes(FailOf(m, L[k].res), Acquired(m, k - 1))
    /\ UnloadOf(m) \in Seq(Steps) /\ Undoes(UnloadOf(m), Owned(m))

\* One module at a time comes or goes, and virtrtlab_core only while it is alone.
ModStates ==
    /\ mstate \in [Mods -> {"absent", "coming", "live", "going"}]
    /\ loading \in Mods \cup {"none"}
    /\ \A m \in Mods : m = loading <=> mstate[m] \in {"coming", "going"}
    /\ \A m \in Mods \ {"core"} : mstate[m] # "absent" => mstate["core"] = "live"
    /\ loading = "none" => todo = <<>>

\* What a module has, in each of its states: while it comes, what the steps
\* done so far have acquired; while it goes, what the steps left will release.
Has(m) ==
    /\ mstate[m] = "absent" => Owned(m) \cap have = {}
    /\ mstate[m] = "live" => Owned(m) \subseteq have
    /\ mstate[m] = "coming" =>
          LET n == Len(LoadOf(m)) - Len(todo) IN
          /\ n \in Nat /\ Owned(m) \cap have = Acquired(m, n)
          /\ \A j \in 1..Len(todo) : todo[j] = LoadOf(m)[n + j]
    /\ mstate[m] = "going" => Undoes(todo, Owned(m) \cap have)

HaveInv ==
    /\ todo \in Seq(Steps)
    /\ \A r \in have : \E m \in Mods : r \in Owned(m)
    /\ \A m \in Mods : Has(m)

\* The resources and who uses them: nothing hangs in the air, the chain has the
\* devices whose notifier is registered, a store has its attribute, and an open
\* file its module.
UseInv ==
    /\ \A r \in have : Under(r) \subseteq have
    /\ \A d \in Devs : InChain(d) <=> <<"nb", d>> \in have
    /\ \A w \in Storers : store[w] # Idle => <<"bus_attrs", "core">> \in have
    /\ DOMAIN users = Mods /\ users = [m \in Mods |-> users[m]]
    /\ \A m \in Mods : users[m] # {} => mstate[m] = "live"

=============================================================================
