------------------------------- MODULE Hooks --------------------------------
(***************************************************************************)
(* Three modules that are no more than callbacks handed to the kernel:     *)
(*   NetF    the netfilter hook of src/NetF/NetF.c                         *)
(*   Task05  the USB keyboard driver of eudyptula Task05/Solution2/Task05.c*)
(*   Task06  the misc device of eudyptula Task06/misc.c                    *)
(* Each registers a structure when it is loaded and takes it back when it  *)
(* is unloaded; in between the kernel calls into it when it pleases.  They *)
(* differ in when the structure is filled in, in what becomes of a failed  *)
(* registration, and in what an unload has to wait for.                    *)
(*                                                                         *)
(* The kernel is external: an open misc file pins its module (fops.owner); *)
(* nf_unregister_hook and usb_deregister return when no callback is left,  *)
(* the latter having disconnected every bound interface; taking a hook off *)
(* a list it was never put on brings the caller down.                      *)
(* The bytes misc_read and misc_write handle are in module IdFile.         *)
(***************************************************************************)
EXTENDS Naturals

CONSTANTS
  Units,      \* packets, USB interfaces, or open files
  Keyboards   \* the interfaces of boot protocol keyboards

ASSUME HooksConstants == Keyboards \subseteq Units

VARIABLES
  driver,  \* which of the three; it never changes
  mod,     \* "out", "init", "in", "exit", or "dead" inside the exit function
  reg,     \* is the structure registered
  parham,  \* NetF: the static struct netF
  use      \* what the kernel is doing with the module, for each unit

vars == <<driver, mod, reg, parham, use>>

Is(d) == driver = d /\ UNCHANGED driver
Uses(u, x) == use' = [use EXCEPT ![u] = x]

\* A static structure is zero when the module has just been loaded.
Zero == [lucky_number |-> 0, hook |-> "NULL", hooknum |-> 0]
Filled == [lucky_number |-> 3, hook |-> "filter", hooknum |-> 3]

\* Netfilter hooks that have a device to send on: FORWARD, LOCAL_OUT and POST_ROUTING
HasOut == {2, 3, 4}

Init ==
  /\ driver \in {"NetF", "Task05", "Task06"}
  /\ mod = "out" /\ reg = FALSE /\ parham = Zero
  /\ use = [u \in Units |-> "rest"]

-----------------------------------------------------------------------------
\* A plausible slip: the hook is registered before it is filled in.
NetF_initLate ==
  /\ Is("NetF") /\ mod = "out"
  /\ mod' = "init" /\ reg' = TRUE
  /\ UNCHANGED <<parham, use>>

\* NetF_init up to nf_register_hook ...
NetF_init ==
  /\ Is("NetF") /\ mod = "out"
  /\ mod' = "init" /\ parham' = Filled
  /\ UNCHANGED <<reg, use>>

\* ... whose result is not looked at
NetF_register ==
  /\ Is("NetF") /\ mod = "init"
  /\ mod' = "in" /\ reg' \in BOOLEAN
  /\ UNCHANGED <<parham, use>>

\* The other two return the result: without a registration, no module.
hello_init ==
  /\ Is("Task05") /\ mod = "out"
  /\ reg' \in BOOLEAN
  /\ mod' = IF reg' THEN "in" ELSE "out"
  /\ UNCHANGED <<parham, use>>

\* A plausible slip: the result of the registration is dropped.
misc_init_moduleIgnores ==
  /\ Is("Task06") /\ mod = "out"
  /\ reg' \in BOOLEAN /\ mod' = "in"
  /\ UNCHANGED <<parham, use>>

misc_init_module ==
  /\ Is("Task06") /\ mod = "out"
  /\ reg' \in BOOLEAN
  /\ mod' = IF reg' THEN "in" ELSE "out"
  /\ UNCHANGED <<parham, use>>

-----------------------------------------------------------------------------
\* A packet meets the hook, and is accepted whatever it is.
Packet(u) ==
  /\ Is("NetF") /\ reg /\ use[u] = "rest"
  /\ Uses(u, "filter")
  /\ UNCHANGED <<mod, reg, parham>>

\* A plausible slip: NF_REPEAT, and netfilter calls the hook again.
filterRepeat(u) ==
  /\ Is("NetF") /\ use[u] = "filter"
  /\ UNCHANGED <<mod, reg, parham, use>>

filter(u) ==
  /\ Is("NetF") /\ use[u] = "filter"
  /\ Uses(u, "rest")
  /\ UNCHANGED <<mod, reg, parham>>

\* An interface comes and goes; a bound one is disconnected first.
Plug(u) ==
  /\ Is("Task05") /\ use[u] = "rest"
  /\ Uses(u, "plugged")
  /\ UNCHANGED <<mod, reg, parham>>

Unplug(u) ==
  /\ Is("Task05") /\ use[u] \in {"plugged", "bound"}
  /\ Uses(u, IF use[u] = "bound" THEN "disconnect" ELSE "rest")
  /\ UNCHANGED <<mod, reg, parham>>

\* A plausible slip: the table matches every interface.
hello_id_tableAny == Units

hello_id_table == Keyboards

Probe(u) ==
  /\ Is("Task05") /\ reg /\ use[u] = "plugged" /\ u \in hello_id_table
  /\ Uses(u, "probe")
  /\ UNCHANGED <<mod, reg, parham>>

\* hello_probe takes every interface it is offered.
hello_probe(u) ==
  /\ Is("Task05") /\ use[u] = "probe"
  /\ Uses(u, "bound")
  /\ UNCHANGED <<mod, reg, parham>>

\* usb_deregister disconnects what is bound
Unbind(u) ==
  /\ Is("Task05") /\ ~reg /\ use[u] = "bound"
  /\ Uses(u, "disconnect")
  /\ UNCHANGED <<mod, reg, parham>>

hello_disconnect(u) ==
  /\ Is("Task05") /\ use[u] = "disconnect"
  /\ Uses(u, IF reg THEN "rest" ELSE "plugged")
  /\ UNCHANGED <<mod, reg, parham>>

\* The misc device is opened, read or written, and closed
Open(u) ==
  /\ Is("Task06") /\ reg /\ mod = "in" /\ use[u] = "rest"
  /\ Uses(u, "open")
  /\ UNCHANGED <<mod, reg, parham>>

Call(u) ==
  /\ Is("Task06") /\ use[u] = "open"
  /\ Uses(u, "call")
  /\ UNCHANGED <<mod, reg, parham>>

Return(u) ==
  /\ Is("Task06") /\ use[u] = "call"
  /\ Uses(u, "open")
  /\ UNCHANGED <<mod, reg, parham>>

Close(u) ==
  /\ Is("Task06") /\ use[u] = "open"
  /\ Uses(u, "rest")
  /\ UNCHANGED <<mod, reg, parham>>

-----------------------------------------------------------------------------
\* NetF_exit unregisters the hook, whether or not it was registered.
NetF_exit ==
  /\ Is("NetF") /\ mod = "in"
  /\ mod' = IF reg THEN "exit" ELSE "dead"
  /\ reg' = FALSE
  /\ UNCHANGED <<parham, use>>

\* A plausible slip: the driver is not deregistered.
hello_exitEmpty ==
  /\ Is("Task05") /\ mod = "in"
  /\ mod' = "exit"
  /\ UNCHANGED <<reg, parham, use>>

hello_exit ==
  /\ Is("Task05") /\ mod = "in"
  /\ mod' = "exit" /\ reg' = FALSE
  /\ UNCHANGED <<parham, use>>

\* rmmod calls this one when no file is open: misc_fops.owner
misc_cleanup_module ==
  /\ Is("Task06") /\ mod = "in" /\ \A u \in Units : use[u] = "rest"
  /\ mod' = "exit" /\ reg' = FALSE
  /\ UNCHANGED <<parham, use>>

\* What is waited for inside nf_unregister_hook and usb_deregister
Waited(u) == use[u] \in {"filter", "probe", "bound", "disconnect"}

\* The exit function returns, and the module is freed.
Gone ==
  /\ mod = "exit" /\ \A u \in Units : ~Waited(u)
  /\ mod' = "out" /\ parham' = Zero
  /\ UNCHANGED <<driver, reg, use>>

Finish(u) ==
  filter(u) \/ hello_probe(u) \/ Unbind(u) \/ hello_disconnect(u)

Next ==
  \/ NetF_init \/ NetF_register \/ hello_init \/ misc_init_module
  \/ NetF_exit \/ hello_exit \/ misc_cleanup_module \/ Gone
  \/ \E u \in Units :
       \/ Packet(u) \/ Plug(u) \/ Unplug(u) \/ Probe(u) \/ Finish(u)
       \/ Open(u) \/ Call(u) \/ Return(u) \/ Close(u)

Spec == Init /\ [][Next]_vars

\* Fairness: callbacks run to their end, and so does an unload.
FairSpec == Spec /\ WF_vars(Gone) /\ \A u \in Units : WF_vars(Finish(u))

-----------------------------------------------------------------------------
\* What the kernel can be doing with a unit, for each driver
Doings == CASE driver = "NetF" -> {"rest", "filter"}
            [] driver = "Task05" -> {"rest", "plugged", "probe", "bound", "disconnect"}
            [] driver = "Task06" -> {"rest", "open", "call"}

\* Types; each driver has its own kind of unit, and only keyboards are probed.
TypeOK ==
  /\ driver \in {"NetF", "Task05", "Task06"}
  /\ mod \in {"out", "init", "in", "exit", "dead"}
  /\ reg \in BOOLEAN /\ parham \in {Zero, Filled}
  /\ use \in [Units -> Doings]
  /\ \A u \in Units : use[u] \in {"probe", "bound", "disconnect"} => u \in Keyboards

(***************************************************************************)
(* The kernel never has anything to do with a module that is gone: no hook *)
(* runs, no interface is bound and no file is open once it is out, and     *)
(* nothing leads back to it.                                               *)
(***************************************************************************)
GoneUnused ==
  mod = "out" => ~reg /\ \A u \in Units : use[u] \in {"rest", "plugged"}

(***************************************************************************)
(* filter follows out->name and its own structure without a test: while it *)
(* runs, the structure is filled in, and the hook has a device to send on. *)
(***************************************************************************)
FilterReady ==
  \A u \in Units : use[u] = "filter" => parham = Filled /\ parham.hooknum \in HasOut

(***************************************************************************)
(* A module that is in and cannot be called is NetF after a registration   *)
(* that failed, and only that module does not survive its own exit.        *)
(***************************************************************************)
OnlyNetFUnregistered ==
  (mod = "in" /\ ~reg) \/ mod = "dead" => driver = "NetF"

(***************************************************************************)
(* What keeps the first two true: the structure is registered only         *)
(* while the module is in, and what keeps the module there ties each use   *)
(* to it.  A hook or a driver callback outlives the registration until the *)
(* exit function has waited for it; an open file outlives nothing.         *)
(***************************************************************************)
Registered ==
  /\ reg => mod = "in"
  /\ mod = "init" => driver = "NetF"
  /\ driver = "NetF" /\ mod \in {"init", "in"} => parham = Filled

Tied ==
  \A u \in Units :
    /\ use[u] = "filter" => parham = Filled /\ (reg \/ mod = "exit")
    /\ use[u] \in {"probe", "bound", "disconnect"} => reg \/ mod = "exit"
    /\ use[u] \in {"open", "call"} => reg

HooksInv == TypeOK /\ Registered /\ Tied

(***************************************************************************)
(* An unload ends, whatever packets or interfaces come meanwhile: each of  *)
(* the exit functions returns once the callbacks under way have.           *)
(***************************************************************************)
UnloadEnds == mod = "exit" ~> mod = "out"
=============================================================================
