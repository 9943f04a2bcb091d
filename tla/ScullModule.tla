---------------------------- MODULE ScullModule -----------------------------
(***************************************************************************)
(* The life of the scull module (src/Scull/main.c): scull_init_module,     *)
(* scull_cleanup_module and what users may do to the devices meanwhile.    *)
(* A device is open to users from cdev_add on, while the module is still   *)
(* initialising the others; and the cleanup calls scull_trim without the   *)
(* semaphore, and before cdev_del.  What keeps users out then is the       *)
(* module's reference count, which cdev.owner makes open and close keep.   *)
(*                                                                         *)
(* A call on a device is reduced to its critical section, which may leave  *)
(* memory behind; module Scull has the rest.  A load may be of a build     *)
(* with SCULL_DEBUG, which has the proc files of module ScullProc.         *)
(***************************************************************************)
EXTENDS ScullProc

CONSTANTS
  MaxUsers, \* BOUND: open files of a device
  Faulty    \* TRUE when registrations and allocations may fail

ASSUME ModuleConstants ==
  /\ MaxUsers \in Nat
  /\ Faulty \in BOOLEAN

VARIABLES
  mod,     \* "out", "init", "in", "exit"
  next,    \* the device the loop of init or cleanup has reached
  region,  \* is the range of device numbers registered
  debug    \* was the module that is loaded built with SCULL_DEBUG

life == <<mod, next, region, debug>>
vars == <<life, devices, dev, procVars>>

(***************************************************************************)
(* ready: quantum, qset and sem are initialised.  live: cdev_add has been  *)
(* done.  in: "none", a call in its critical section ("call"), one that is *)
(* trimming ("trim"), or the cleanup trimming ("cleanup").  sem: the       *)
(* counter.  kept: a user died without giving it back.  mem: the device    *)
(* holds allocated memory (data is not NULL).                              *)
(***************************************************************************)
Blank == [ready |-> FALSE, live |-> FALSE, users |-> 0, in |-> "none",
          sem |-> 0, kept |-> FALSE, mem |-> FALSE]

Init ==
  /\ mod = "out" /\ next = 0 /\ region = FALSE /\ devices = FALSE
  /\ dev = [i \in Devs |-> Blank]
  /\ debug = FALSE /\ entry = {} /\ rd = [r \in Readers |-> NoRead]

-----------------------------------------------------------------------------
\* A region of device numbers; without one the load fails and nothing stays.
InitRegion ==
  /\ mod = "out"
  /\ mod' = "init" /\ next' = 0 /\ region' = TRUE /\ debug' \in BOOLEAN
  /\ UNCHANGED <<devices, dev, procVars>>

\* kmalloc and memset of scull_devices
InitAlloc ==
  /\ mod = "init" /\ ~devices
  /\ devices' = TRUE
  /\ dev' = [i \in Devs |-> Blank]
  /\ UNCHANGED <<life, procVars>>

\* ... or no memory: the cleanup finds scull_devices NULL
InitNoMem ==
  /\ Faulty /\ mod = "init" /\ ~devices
  /\ mod' = "out" /\ region' = FALSE
  /\ UNCHANGED <<next, debug, devices, dev, procVars>>

\* A plausible slip: the device is added before its fields are set.
InitFieldsLate ==
  /\ mod = "init" /\ devices /\ next < NrDevs
  /\ IF dev[next].live
     THEN /\ dev' = [dev EXCEPT ![next].ready = TRUE, ![next].sem = 1]
          /\ next' = next + 1
     ELSE dev' = [dev EXCEPT ![next].live = TRUE] /\ UNCHANGED next
  /\ UNCHANGED <<mod, region, debug, devices, procVars>>

\* The body of the loop up to scull_setup_cdev
InitFields ==
  /\ mod = "init" /\ devices /\ next < NrDevs /\ ~dev[next].ready
  /\ dev' = [dev EXCEPT ![next].ready = TRUE, ![next].sem = 1]
  /\ UNCHANGED <<life, devices, procVars>>

\* scull_setup_cdev: a failing cdev_add is logged and the loop goes on
InitCdev ==
  /\ mod = "init" /\ devices /\ next < NrDevs /\ dev[next].ready
  /\ \E ok \in {TRUE} \cup (IF Faulty THEN {FALSE} ELSE {}) :
       dev' = [dev EXCEPT ![next].live = ok]
  /\ next' = next + 1
  /\ UNCHANGED <<mod, region, debug, devices, procVars>>

\* The end of init: with SCULL_DEBUG, scull_create_proc, whose failures pass
InitDone ==
  /\ mod = "init" /\ devices /\ next = NrDevs
  /\ mod' = "in"
  /\ entry' \in IF ~debug THEN {{}} ELSE IF Faulty THEN SUBSET ProcFiles ELSE {ProcFiles}
  /\ UNCHANGED <<next, region, debug, devices, dev, rd>>

-----------------------------------------------------------------------------
\* A plausible slip: no cdev.owner, so that a module on its way out can be
\* opened and a module in use can be unloaded.
PinnedNot == TRUE

\* With cdev.owner set, chrdev_open refuses a module that is going.
Pinned == mod \in {"init", "in"}

Open(i) ==
  /\ dev[i].live /\ Pinned /\ dev[i].users < MaxUsers
  /\ dev' = [dev EXCEPT ![i].users = @ + 1]
  /\ UNCHANGED <<life, devices, procVars>>

Close(i) ==
  /\ dev[i].users > (IF dev[i].in \in {"call", "trim"} THEN 1 ELSE 0)
  /\ dev' = [dev EXCEPT ![i].users = @ - 1]
  /\ UNCHANGED <<life, devices, procVars>>

\* A plausible slip: the semaphore is taken whether or not it is free.
EnterUnchecked(i, how) ==
  /\ dev[i].users > 0
  /\ dev' = [dev EXCEPT ![i].sem = @ - 1, ![i].in = how]
  /\ UNCHANGED <<life, devices, procVars>>

\* A read or a write between down_interruptible and up, or a write-only open
Enter(i, how) ==
  /\ dev[i].users > 0 /\ dev[i].sem > 0
  /\ dev' = [dev EXCEPT ![i].sem = @ - 1, ![i].in = how]
  /\ UNCHANGED <<life, devices, procVars>>

Leave(i) ==
  /\ dev[i].in \in {"call", "trim"}
  /\ \E m \in (IF dev[i].in = "trim" THEN {FALSE} ELSE {dev[i].mem, TRUE}) :
       dev' = [dev EXCEPT ![i].sem = @ + 1, ![i].in = "none", ![i].mem = m]
  /\ IF dev[i].in = "trim" THEN Invalidate(i) ELSE UNCHANGED rd
  /\ UNCHANGED <<life, devices, entry>>

(***************************************************************************)
(* Or the user dies there (Oops of module Scull: itemsize is 0, or the     *)
(* geometry is stale): its file can be closed, but nobody ever gives back  *)
(* the semaphore.  A trim may have freed some of the list by then.         *)
(***************************************************************************)
Die(i) ==
  /\ dev[i].in \in {"call", "trim"}
  /\ \E m \in {dev[i].mem} \cup (IF dev[i].in = "call" THEN {TRUE} ELSE {}) :
       dev' = [dev EXCEPT ![i].kept = TRUE, ![i].in = "none", ![i].mem = m]
  /\ UNCHANGED rd \/ (dev[i].in = "trim" /\ Invalidate(i))
  /\ UNCHANGED <<life, devices, entry>>

-----------------------------------------------------------------------------
\* rmmod calls scull_cleanup_module once the reference count is zero
Rmmod ==
  /\ mod = "in" /\ \A i \in Devs : dev[i].users = 0
  /\ mod' = "exit" /\ next' = 0
  /\ UNCHANGED <<region, debug, devices, dev, procVars>>

\* scull_trim of the cleanup, without down ...
CleanupTrim ==
  /\ mod = "exit" /\ devices /\ next < NrDevs /\ dev[next].in # "cleanup"
  /\ dev' = [dev EXCEPT ![next].in = "cleanup"]
  /\ UNCHANGED <<life, devices, procVars>>

\* ... and cdev_del
CleanupDel ==
  /\ mod = "exit" /\ devices /\ next < NrDevs /\ dev[next].in = "cleanup"
  /\ dev' = [dev EXCEPT ![next].in = "none", ![next].live = FALSE,
                        ![next].mem = FALSE]
  /\ Invalidate(next)
  /\ next' = next + 1
  /\ UNCHANGED <<mod, region, debug, devices, entry>>

CleanupFree ==
  /\ mod = "exit" /\ devices /\ next = NrDevs
  /\ devices' = FALSE
  /\ UNCHANGED <<life, dev, procVars>>

\* scull_remove_proc: scullmem, then scullseq, each once nobody reads in it.
\* An open scullseq is of no more use.
CleanupProc(f) ==
  /\ mod = "exit" /\ ~devices /\ f \in entry
  /\ f = "scullseq" => "scullmem" \notin entry /\ ~InFile("scullmem")
  /\ entry' = entry \ {f}
  /\ rd' = [r \in Readers |-> IF rd[r].file = f /\ rd[r].pc = "idle"
                              THEN NoRead ELSE rd[r]]
  /\ UNCHANGED <<life, devices, dev>>

\* A plausible slip: the proc entries are not removed.
CleanupRegionOnly ==
  /\ mod = "exit" /\ ~devices
  /\ mod' = "out" /\ region' = FALSE
  /\ UNCHANGED <<next, debug, devices, dev, procVars>>

CleanupRegion ==
  /\ mod = "exit" /\ ~devices
  /\ entry = {} /\ \A f \in ProcFiles : ~InFile(f)
  /\ mod' = "out" /\ region' = FALSE
  /\ UNCHANGED <<next, debug, devices, dev, procVars>>

User(i) ==
  \/ Open(i) \/ Close(i) \/ Leave(i) \/ Die(i)
  \/ \E how \in {"call", "trim"} : Enter(i, how)

Cleanup ==
  \/ CleanupTrim \/ CleanupDel \/ CleanupFree \/ CleanupRegion
  \/ \E f \in ProcFiles : CleanupProc(f)

Next ==
  \/ InitRegion \/ InitAlloc \/ InitNoMem \/ InitFields \/ InitCdev \/ InitDone
  \/ Rmmod \/ Cleanup
  \/ \E i \in Devs : User(i)
  \/ \E r \in Readers : Reader(r) /\ UNCHANGED life

Spec == Init /\ [][Next]_vars

(***************************************************************************)
(* Fairness: a call in its critical section runs on until it gives the     *)
(* semaphore back or dies, a reader inside a read keeps running, and a     *)
(* semaphore serves its waiters in the order they came.                    *)
(***************************************************************************)
FairSpec ==
  /\ Spec
  /\ \A i \in Devs : WF_vars(Leave(i) \/ Die(i))
  /\ \A r \in Readers : WF_vars(Reading(r) /\ UNCHANGED life)
                      /\ SF_vars(Down(r) /\ UNCHANGED life)

-----------------------------------------------------------------------------
DevType == [ready : BOOLEAN, live : BOOLEAN, users : 0 .. MaxUsers,
            in : {"none", "call", "trim", "cleanup"}, sem : {0, 1},
            kept : BOOLEAN, mem : BOOLEAN]
RdType == [pc : {"idle", "loop", "down", "walk"}, file : ProcFiles \cup {"none"},
           pos : 0 .. NrDevs, list : {"null", "list", "freed", "oops"}, len : Nat]

\* Types; the semaphore is a mutex in every initialised device.
ModuleTypeOK ==
  /\ mod \in {"out", "init", "in", "exit"} /\ next \in 0 .. NrDevs
  /\ region \in BOOLEAN /\ devices \in BOOLEAN /\ debug \in BOOLEAN
  /\ dev \in [Devs -> DevType] /\ rd \in [Readers -> RdType]
  /\ entry \subseteq ProcFiles

(***************************************************************************)
(* No user is ever in a device whose fields are not set, or after the      *)
(* devices were freed: a device becomes reachable only when it is ready.   *)
(***************************************************************************)
UsersNeedDevice ==
  \A i \in Devs : dev[i].users > 0 \/ dev[i].live => devices /\ dev[i].ready

(***************************************************************************)
(* The cleanup's trim, which takes no semaphore, is alone all the same: no *)
(* file of the device is open and, unless the build has the proc files,    *)
(* nobody is in a critical section, though one may have died there.        *)
(***************************************************************************)
TrimAlone ==
  \A i \in Devs :
    dev[i].in = "cleanup" =>
      dev[i].users = 0 /\ (debug \/ dev[i].kept \/ dev[i].sem = 1)

\* After rmmod, or a load that failed, nothing of the module is left, and
\* nobody is still running the code of its proc files.
NothingLeft ==
  mod = "out" =>
    /\ ~region /\ ~devices /\ entry = {}
    /\ \A i \in Devs : ~dev[i].live /\ ~dev[i].mem /\ dev[i].users = 0
    /\ \A r \in Readers : rd[r].pc = "idle"

(***************************************************************************)
(* scullseq shows only lists that are there, however the devices are       *)
(* trimmed meanwhile: only a read that rmmod overtakes meets freed memory  *)
(* (the cleanup frees lists and devices before it removes the proc files). *)
(***************************************************************************)
SeqSafeUntilUnload ==
  \A r \in Readers :
    rd[r].file = "scullseq" /\ rd[r].list \in {"freed", "oops"} => mod = "exit"

(***************************************************************************)
(* A list is never freed under a reader that holds the semaphore, unless   *)
(* by rmmod: what scullmem walks was stale, if it was, when the semaphore  *)
(* was taken, because the pointer was loaded before.                       *)
(***************************************************************************)
HeldListStays ==
  [][\A r \in Readers :
       rd[r].list = "list" /\ rd'[r].list = "freed"
         => rd[r].pc = "down" \/ mod = "exit"]_vars

(***************************************************************************)
(* scull_read_procmem stops one line past its limit, but for the quanta of *)
(* the last item it prints, which nothing limits.                          *)
(***************************************************************************)
ProcmemBounded == \A r \in Readers : rd[r].len <= Limit + 1 + Slots

(***************************************************************************)
(* Every read of a proc file ends, however users, readers and rmmod come   *)
(* between, unless the reader itself dies in freed memory, or waits for a  *)
(* semaphore that a dead task keeps: a user of that device who died in a   *)
(* call, or another reader who died walking its list.                      *)
(***************************************************************************)
Walks(r, i) == rd[r].pc = "walk" /\ rd[r].pos = i
KeptByDead(i) == dev[i].kept \/ \E q \in Readers : Walks(q, i) /\ ~Alive(q)
Stuck(r) == rd[r].pc = "down" /\ KeptByDead(rd[r].pos)

ReadsEnd ==
  \A r \in Readers :
    rd[r].pc # "idle" ~> rd[r].pc = "idle" \/ ~Alive(r) \/ Stuck(r)

(***************************************************************************)
(* What the safety properties need to be inductive: how far init and       *)
(* cleanup have come tells which devices are ready, an open file pins the  *)
(* module, the semaphore of a ready device is free unless someone holds it *)
(* or died with it, and a reader is in a proc file that a debug build has  *)
(* made.                                                                   *)
(***************************************************************************)
Progress ==
  /\ mod = "out" => ~region /\ ~devices
  /\ mod = "in" => devices
  /\ mod = "init" /\ ~devices => next = 0
  /\ mod \in {"in", "exit"} /\ devices => \A i \in Devs : dev[i].ready
  /\ mod = "init" /\ devices => \A i \in Devs : i < next => dev[i].ready

NobodyLeft ==
  \A i \in Devs :
    /\ mod \in {"out", "exit"} => dev[i].users = 0
    /\ mod = "out" \/ ~devices \/ (mod = "exit" /\ i < next)
         => ~dev[i].live /\ ~dev[i].mem

Held(i) ==
  \/ dev[i].in \in {"call", "trim"} \/ dev[i].kept
  \/ \E r \in Readers : Walks(r, i)

Inside ==
  \A i \in Devs :
    /\ dev[i].in \in {"call", "trim"} => dev[i].users > 0 /\ ~dev[i].kept
    /\ dev[i].in \in {"call", "trim"} \/ dev[i].kept =>
         dev[i].ready /\ \A r \in Readers : ~Walks(r, i)
    /\ dev[i].in = "cleanup" => mod = "exit" /\ devices /\ next = i
    /\ dev[i].ready => dev[i].sem = IF Held(i) THEN 0 ELSE 1
    /\ \A r, q \in Readers : Walks(r, i) /\ Walks(q, i) => r = q

InProc ==
  /\ entry # {} => debug /\ mod \in {"in", "exit"}
  /\ \A r \in Readers :
       /\ rd[r].pc = "idle" => rd[r].list = "null"
       /\ rd[r].pc # "idle" =>
            debug /\ mod \in {"in", "exit"} /\ rd[r].file \in ProcFiles
       /\ rd[r].pc \in {"down", "walk"} \/ rd[r].list = "list" => rd[r].pos < NrDevs
       /\ rd[r].list = "list" /\ devices => dev[rd[r].pos].mem

ModuleInv ==
  ModuleTypeOK /\ Progress /\ NobodyLeft /\ Inside /\ InProc

(***************************************************************************)
(* And what the readers hold: scullseq has a list only while it has the    *)
(* semaphore, scullmem from the load on; the limit of scull_read_procmem   *)
(* is tested before every list.                                            *)
(***************************************************************************)
Settled(x) ==
  /\ x.pc = "loop" => x.file = "scullmem"
  /\ x.list = "list" => x.pc \in {"down", "walk"}
  /\ x.file = "scullseq" =>
       /\ x.len = 0
       /\ x.list = "list" => x.pc = "walk"
  /\ x.pc \in {"down", "walk"} => x.len <= Limit

ReadsSound == \A r \in Readers : Settled(rd[r])

ProcInv == ModuleInv /\ ReadsSound
=============================================================================
