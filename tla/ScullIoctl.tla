----------------------------- MODULE ScullIoctl -----------------------------
(***************************************************************************)
(* scull_ioctl (src/Scull/main.c): the handler through which user tasks    *)
(* read and change the two globals scull_quantum and scull_qset.  The      *)
(* handler takes no lock, so every load and every store of a global is a   *)
(* step of its own and the steps of two tasks interleave.                  *)
(*                                                                         *)
(* A command is a verb (the letter after SCULL_IOC in scull.h) and the     *)
(* parameter it is about: verb "X" and parameter "qset" is SCULL_IOCXQSET. *)
(***************************************************************************)
EXTENDS Integers

CONSTANTS
  Tasks,          \* user tasks that make system calls
  Admins,         \* the tasks for which capable(CAP_SYS_ADMIN) holds
  SCULL_QUANTUM,  \* compile-time default of scull_quantum
  SCULL_QSET,     \* compile-time default of scull_qset
  LoadQuantum,    \* module_param value of scull_quantum
  LoadQset,       \* module_param value of scull_qset
  INT_MAX,        \* BOUND: the largest int
  Args,           \* BOUND: what a task passes as (or behind) arg, seen unsigned
  Verbs,          \* the verbs the tasks issue
  Faulty          \* TRUE when a user pointer may be bad

AllVerbs   == {"bad", "reset", "S", "T", "G", "Q", "X", "H"}
Params     == {"quantum", "qset"}
Pointer    == {"S", "G", "X"}          \* _IOC_DIR is not _IOC_NONE
Privileged == {"S", "T", "X", "H"}     \* guarded by capable(CAP_SYS_ADMIN)

EPERM  == 1
EFAULT == 14
ENOTTY == 25

ASSUME IoctlConstants ==
  /\ Admins \subseteq Tasks
  /\ Verbs \subseteq AllVerbs
  /\ INT_MAX \in Nat
  /\ {SCULL_QUANTUM, SCULL_QSET} \subseteq 0 .. INT_MAX
  /\ {LoadQuantum, LoadQset} \subseteq -INT_MAX - 1 .. INT_MAX
  /\ Args \subseteq 0 .. 2 * INT_MAX + 1
  /\ Faulty \in BOOLEAN

(***************************************************************************)
(* The int that the low half of the unsigned long arg is, and as which a   *)
(* pointer's target is read: its upper values are negative.                *)
(***************************************************************************)
AsInt(a) == IF a <= INT_MAX THEN a ELSE a - 2 * (INT_MAX + 1)

\* What a parameter can hold: 0 is what a fault leaves in it.
Values == {0, SCULL_QUANTUM, SCULL_QSET, LoadQuantum, LoadQset}
            \cup {AsInt(a) : a \in Args}

Default == [quantum |-> SCULL_QUANTUM, qset |-> SCULL_QSET]

VARIABLES
  param,  \* [quantum, qset]: the globals scull_quantum and scull_qset
  ioc     \* the ioctl call each task is in

ioctlVars == <<param, ioc>>

(***************************************************************************)
(* A call: where it stands, its command and arg, the local tmp, the value  *)
(* its store of the global replaced (history, for the properties), and     *)
(* the return value (a negative errno on failure).                         *)
(***************************************************************************)
IocPc == {"idle", "run", "store", "put", "reset", "ret"}
IocCall == [pc : IocPc, verb : AllVerbs, par : Params,
            arg : Args \cup {0}, tmp : Values, replaced : Values, ret : Int]
NoIoctl == [pc |-> "idle", verb |-> "bad", par |-> "quantum",
            arg |-> 0, tmp |-> 0, replaced |-> 0, ret |-> 0]

IoctlInit ==
  /\ param = [quantum |-> LoadQuantum, qset |-> LoadQset]
  /\ ioc = [t \in Tasks |-> NoIoctl]

IocBecomes(t, c) == ioc' = [ioc EXCEPT ![t] = c]

Reply(t, r) == IocBecomes(t, [ioc[t] EXCEPT !.pc = "ret", !.ret = r])

Store(p, v) == param' = [param EXCEPT ![p] = v]

\* A plausible slip: one privileged verb without its capable() test.
CapableUnchecked(t, v) == v \in Privileged \ {"H"} => t \in Admins

Capable(t, v) == v \in Privileged => t \in Admins

-----------------------------------------------------------------------------
(***************************************************************************)
(* The tests in front of the switch and the capable() test of the case:    *)
(* a wrong command, a pointer access_ok refuses, a missing capability.     *)
(***************************************************************************)
IoctlEnter(t, v, p, a) ==
  /\ ioc[t].pc = "idle"
  /\ \E verdict \in {"run", "ret"}, r \in {0, -ENOTTY, -EFAULT, -EPERM} :
       /\ \/ verdict = "ret" /\ v = "bad" /\ r = -ENOTTY
          \/ verdict = "ret" /\ v \in Pointer /\ Faulty /\ r = -EFAULT
          \/ verdict = "ret" /\ v # "bad" /\ ~Capable(t, v) /\ r = -EPERM
          \/ verdict = "run" /\ v # "bad" /\ Capable(t, v) /\ r = 0
       /\ IocBecomes(t, [NoIoctl EXCEPT !.pc = verdict, !.verb = v, !.par = p,
                                         !.arg = a, !.ret = r])
  /\ UNCHANGED param

At(t, pc, v) == ioc[t].pc = pc /\ ioc[t].verb = v

\* SCULL_IOCRESET: two stores, open to any task.
ResetQuantum(t) ==
  /\ At(t, "run", "reset")
  /\ Store("quantum", SCULL_QUANTUM)
  /\ IocBecomes(t, [ioc[t] EXCEPT !.pc = "reset"])

ResetQset(t) ==
  /\ At(t, "reset", "reset")
  /\ Store("qset", SCULL_QSET)
  /\ Reply(t, 0)

\* A plausible slip: the status of __get_user ends up in the global.
GetUserSwapped(p, v, r) ==
  \/ r = 0 /\ Store(p, v)
  \/ Faulty /\ r = -EFAULT /\ Store(p, r)

(***************************************************************************)
(* __get_user(x, ptr): stores the value behind the pointer in x; when the  *)
(* page faults it stores 0 in x and returns -EFAULT.                       *)
(***************************************************************************)
GetUser(p, v, r) ==
  \/ r = 0 /\ Store(p, v)
  \/ Faulty /\ r = -EFAULT /\ Store(p, 0)

\* __put_user(v, ptr): the only visible outcome is its return value.
PutUser(r) == r = 0 \/ (Faulty /\ r = -EFAULT)

\* SCULL_IOCSQUANTUM, SCULL_IOCSQSET
SetParam(t) ==
  /\ At(t, "run", "S")
  /\ \E r \in {0, -EFAULT} :
       GetUser(ioc[t].par, AsInt(ioc[t].arg), r) /\ Reply(t, r)

\* SCULL_IOCTQUANTUM, SCULL_IOCTQSET: the unsigned long goes into an int.
Tell(t) ==
  /\ At(t, "run", "T")
  /\ Store(ioc[t].par, AsInt(ioc[t].arg))
  /\ Reply(t, 0)

\* SCULL_IOCGQUANTUM, SCULL_IOCGQSET
Get(t) ==
  /\ At(t, "run", "G")
  /\ \E r \in {0, -EFAULT} : PutUser(r) /\ Reply(t, r)
  /\ UNCHANGED param

\* SCULL_IOCQQUANTUM, SCULL_IOCQQSET; a negative parameter reads as an error.
Query(t) ==
  /\ At(t, "run", "Q")
  /\ Reply(t, param[ioc[t].par])
  /\ UNCHANGED param

\* tmp = scull_quantum, the first statement of eXchange and sHift
LoadTmp(t) ==
  /\ ioc[t].pc = "run" /\ ioc[t].verb \in {"X", "H"}
  /\ IocBecomes(t, [ioc[t] EXCEPT !.pc = "store", !.tmp = param[ioc[t].par]])
  /\ UNCHANGED param

\* SCULL_IOCXQUANTUM, SCULL_IOCXQSET: __get_user, then __put_user of tmp
ExchangeStore(t) ==
  /\ At(t, "store", "X")
  /\ \E r \in {0, -EFAULT} :
       /\ GetUser(ioc[t].par, AsInt(ioc[t].arg), r)
       /\ IocBecomes(t, [ioc[t] EXCEPT !.pc = IF r = 0 THEN "put" ELSE "ret",
                                       !.ret = r,
                                       !.replaced = param[ioc[t].par]])

ExchangePut(t) ==
  /\ At(t, "put", "X")
  /\ \E r \in {0, -EFAULT} : PutUser(r) /\ Reply(t, r)
  /\ UNCHANGED param

\* SCULL_IOCHQUANTUM, SCULL_IOCHQSET: store arg, return tmp
ShiftStore(t) ==
  /\ At(t, "store", "H")
  /\ Store(ioc[t].par, AsInt(ioc[t].arg))
  /\ IocBecomes(t, [ioc[t] EXCEPT !.pc = "ret", !.ret = ioc[t].tmp,
                                  !.replaced = param[ioc[t].par]])

IoctlReturn(t) ==
  /\ ioc[t].pc = "ret"
  /\ IocBecomes(t, NoIoctl)
  /\ UNCHANGED param

\* The steps of a call that has passed the tests of IoctlEnter.
IoctlStep(t) ==
  \/ ResetQuantum(t) \/ ResetQset(t)
  \/ SetParam(t) \/ Tell(t) \/ Get(t) \/ Query(t)
  \/ LoadTmp(t) \/ ExchangeStore(t) \/ ExchangePut(t) \/ ShiftStore(t)
  \/ IoctlReturn(t)

IoctlNext ==
  \E t \in Tasks :
    \/ \E v \in Verbs, p \in Params, a \in Args : IoctlEnter(t, v, p, a)
    \/ IoctlStep(t)

IoctlSpec == IoctlInit /\ [][IoctlNext]_ioctlVars

-----------------------------------------------------------------------------
(***************************************************************************)
(* Types: a global holds an int that was its default, its module parameter *)
(* or some caller's argument, or 0, and never the status of a user copy.   *)
(***************************************************************************)
IoctlTypeOK ==
  /\ param \in [Params -> Values]
  /\ ioc \in [Tasks -> IocCall]

(***************************************************************************)
(* eXchange and sHift are atomic: the old value a completed call hands to  *)
(* its caller is the value its own store replaced (scull.h: "switch G and  *)
(* S atomically", "switch T and Q atomically").                            *)
(***************************************************************************)
ExchangeAtomic ==
  \A t \in Tasks :
    ioc[t].pc = "ret" /\ ioc[t].verb \in {"X", "H"} /\ ioc[t].ret >= 0
      => ioc[t].tmp = ioc[t].replaced

(***************************************************************************)
(* A task without CAP_SYS_ADMIN can bring a parameter to its compile-time  *)
(* default (RESET is open to all) and to no other value: every other       *)
(* change is a step of a task in Admins.                                   *)
(***************************************************************************)
OnlyAdminsTune ==
  [][\A p \in Params :
       param'[p] # param[p] =>
         param'[p] = Default[p] \/ \E t \in Admins : ioc'[t] # ioc[t]]_ioctlVars
=============================================================================
