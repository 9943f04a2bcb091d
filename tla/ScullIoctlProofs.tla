-------------------------- MODULE ScullIoctlProofs --------------------------
(***************************************************************************)
(* Theorems about scull_ioctl for any number of tasks, any set of          *)
(* administrators and any arguments.                                       *)
(***************************************************************************)
EXTENDS ScullIoctl, TLAPS

\* One step of one task, as the case split of every proof below.
LEMMA IoctlCases ==
  ASSUME IoctlNext
  PROVE  \E t \in Tasks :
           \/ \E v \in Verbs, p \in Params, a \in Args : IoctlEnter(t, v, p, a)
           \/ ResetQuantum(t) \/ ResetQset(t)
           \/ SetParam(t) \/ Tell(t) \/ Get(t) \/ Query(t)
           \/ LoadTmp(t) \/ ExchangeStore(t) \/ ExchangePut(t) \/ ShiftStore(t)
           \/ IoctlReturn(t)
BY DEF IoctlNext, IoctlStep

\* Every argument is stored as a value, and a value is an int.
LEMMA AsIntValue == \A a \in Args \cup {0} : AsInt(a) \in Values
BY IoctlConstants DEF AsInt, Values

LEMMA ValuesAreInts == Values \subseteq Int
<1>1. \A a \in Args : AsInt(a) \in Int
  BY IoctlConstants DEF AsInt
<1> QED BY <1>1, IoctlConstants DEF Values

\* A store in a parameter keeps the pair of parameters well typed.
LEMMA StoreType ==
  ASSUME NEW p \in Params, NEW v \in Values, param \in [Params -> Values], Store(p, v)
  PROVE  /\ param' \in [Params -> Values]
         /\ param'[p] = v
         /\ \A q \in Params \ {p} : param'[q] = param[q]
BY DEF Store

LEMMA GetUserType ==
  ASSUME NEW p \in Params, NEW v \in Values, NEW r, param \in [Params -> Values],
         GetUser(p, v, r)
  PROVE  /\ param' \in [Params -> Values]
         /\ r \in {0, -EFAULT}
         /\ \A q \in Params \ {p} : param'[q] = param[q]
BY DEF GetUser, Store, Values

\* The updates of a call that the actions make keep its type.
LEMMA IocCallUpdates ==
  ASSUME NEW c \in IocCall, NEW pc \in IocPc, NEW r \in Int, NEW n \in Values
  PROVE  /\ [c EXCEPT !.pc = pc] \in IocCall
         /\ [c EXCEPT !.pc = pc, !.ret = r] \in IocCall
         /\ [c EXCEPT !.pc = pc, !.tmp = n] \in IocCall
BY DEF IocCall

LEMMA StoredType ==
  ASSUME NEW c \in IocCall, NEW pc \in IocPc, NEW r \in Int, NEW n \in Values
  PROVE  [c EXCEPT !.pc = pc, !.ret = r, !.replaced = n] \in IocCall
BY DEF IocCall

(***************************************************************************)
(* scull_ioctl leaves in scull_quantum and scull_qset nothing but their    *)
(* defaults, their module parameters, callers' arguments cut to an int, or *)
(* the 0 of a faulting __get_user; every call keeps its types.             *)
(***************************************************************************)
THEOREM IoctlTypeCorrect == IoctlSpec => []IoctlTypeOK
<1>1. IoctlInit => IoctlTypeOK
  BY IoctlConstants DEF IoctlInit, IoctlTypeOK, IocCall, NoIoctl, IocPc,
     AllVerbs, Params, Values
<1>2. IoctlTypeOK /\ [IoctlNext]_ioctlVars => IoctlTypeOK'
  <2> SUFFICES ASSUME IoctlTypeOK, [IoctlNext]_ioctlVars
               PROVE  IoctlTypeOK'
    OBVIOUS
  <2>1. CASE UNCHANGED ioctlVars
    BY <2>1 DEF IoctlTypeOK, ioctlVars
  <2>2. CASE IoctlNext
    <3>1. PICK t \in Tasks :
           \/ \E v \in Verbs, p \in Params, a \in Args : IoctlEnter(t, v, p, a)
           \/ ResetQuantum(t) \/ ResetQset(t)
           \/ SetParam(t) \/ Tell(t) \/ Get(t) \/ Query(t)
           \/ LoadTmp(t) \/ ExchangeStore(t) \/ ExchangePut(t) \/ ShiftStore(t)
           \/ IoctlReturn(t)
      BY <2>2, IoctlCases
    <3> USE DEF IoctlTypeOK
    <3>t. /\ ioc[t] \in IocCall /\ ioc[t].par \in Params
          /\ AsInt(ioc[t].arg) \in Values /\ ioc[t].tmp \in Values
          /\ param[ioc[t].par] \in Values
          /\ ioc[t].tmp \in Int /\ param[ioc[t].par] \in Int
      BY AsIntValue, ValuesAreInts DEF IocCall
    <3>e. /\ -EFAULT \in Int /\ -EPERM \in Int /\ -ENOTTY \in Int
          /\ {SCULL_QUANTUM, SCULL_QSET} \subseteq Values
          /\ "quantum" \in Params /\ "qset" \in Params
      BY IoctlConstants DEF EFAULT, EPERM, ENOTTY, Params, Values
    <3>p. /\ "ret" \in IocPc /\ "reset" \in IocPc /\ "store" \in IocPc
          /\ "put" \in IocPc /\ "run" \in IocPc
      BY DEF IocPc
    <3>b. ASSUME NEW c \in IocCall, IocBecomes(t, c)
          PROVE  ioc' \in [Tasks -> IocCall]
      BY <3>b DEF IocBecomes
    <3>r. ASSUME NEW r \in Int, Reply(t, r)
          PROVE  ioc' \in [Tasks -> IocCall]
      BY <3>r, <3>b, <3>t, <3>p, IocCallUpdates DEF Reply
    <3>2. CASE \E v \in Verbs, p \in Params, a \in Args : IoctlEnter(t, v, p, a)
      <4>1. PICK v \in Verbs, p \in Params, a \in Args : IoctlEnter(t, v, p, a)
        BY <3>2
      <4>2. PICK verdict \in {"run", "ret"}, r \in {0, -ENOTTY, -EFAULT, -EPERM} :
              IocBecomes(t, [NoIoctl EXCEPT !.pc = verdict, !.verb = v, !.par = p,
                                            !.arg = a, !.ret = r])
        BY <4>1 DEF IoctlEnter
      <4>3. [NoIoctl EXCEPT !.pc = verdict, !.verb = v, !.par = p,
                            !.arg = a, !.ret = r] \in IocCall
        <5>1. verdict \in IocPc /\ v \in AllVerbs /\ a \in Args /\ r \in Int
          BY <3>p, <3>e, IoctlConstants
        <5> QED BY <5>1 DEF NoIoctl, IocCall, Values
      <4> QED BY <4>1, <4>2, <4>3, <3>b DEF IoctlEnter
    <3>3. CASE ResetQuantum(t)
      BY <3>3, <3>t, <3>e, <3>p, <3>b, StoreType, IocCallUpdates
         DEF ResetQuantum
    <3>4. CASE ResetQset(t)
      BY <3>4, <3>e, <3>r, StoreType DEF ResetQset
    <3>5. CASE SetParam(t)
      BY <3>5, <3>t, <3>e, <3>r, GetUserType DEF SetParam
    <3>6. CASE Tell(t)
      BY <3>6, <3>t, <3>r, StoreType DEF Tell
    <3>7. CASE Get(t)
      BY <3>7, <3>e, <3>r DEF Get
    <3>8. CASE Query(t)
      BY <3>8, <3>t, <3>r DEF Query
    <3>9. CASE LoadTmp(t)
      <4>1. [ioc[t] EXCEPT !.pc = "store", !.tmp = param[ioc[t].par]] \in IocCall
        BY <3>t, <3>p DEF IocCall
      <4> QED BY <3>9, <4>1, <3>b DEF LoadTmp
    <3>10. CASE ExchangeStore(t)
      <4>1. PICK r \in {0, -EFAULT} :
              /\ GetUser(ioc[t].par, AsInt(ioc[t].arg), r)
              /\ IocBecomes(t, [ioc[t] EXCEPT
                                  !.pc = IF r = 0 THEN "put" ELSE "ret",
                                  !.ret = r, !.replaced = param[ioc[t].par]])
        BY <3>10 DEF ExchangeStore
      <4>2. [ioc[t] EXCEPT !.pc = IF r = 0 THEN "put" ELSE "ret",
                           !.ret = r, !.replaced = param[ioc[t].par]] \in IocCall
        <5>1. (IF r = 0 THEN "put" ELSE "ret") \in IocPc /\ r \in Int
          BY <3>e, <3>p
        <5> QED BY <3>t, <5>1, StoredType
      <4> QED BY <4>1, <4>2, <3>t, <3>b, GetUserType
    <3>11. CASE ExchangePut(t)
      BY <3>11, <3>e, <3>r DEF ExchangePut
    <3>12. CASE ShiftStore(t)
      <4>1. [ioc[t] EXCEPT !.pc = "ret", !.ret = ioc[t].tmp,
                           !.replaced = param[ioc[t].par]] \in IocCall
        <5>1. ioc[t].tmp \in Int
          BY <3>t
        <5> QED BY <3>t, <3>p, <5>1, StoredType
      <4> QED BY <3>12, <4>1, <3>t, <3>b, StoreType DEF ShiftStore
    <3>13. CASE IoctlReturn(t)
      <4>1. NoIoctl \in IocCall
        BY DEF NoIoctl, IocCall, IocPc, AllVerbs, Params, Values
      <4> QED BY <3>13, <4>1, <3>b DEF IoctlReturn
    <3> QED
      BY <3>1, <3>2, <3>3, <3>4, <3>5, <3>6, <3>7, <3>8, <3>9, <3>10, <3>11,
         <3>12, <3>13
  <2> QED BY <2>1, <2>2
<1> QED BY <1>1, <1>2, PTL DEF IoctlSpec

-----------------------------------------------------------------------------
\* A privileged command that is past the tests of IoctlEnter is an
\* administrator's.
Authorised ==
  \A t \in Tasks :
    ioc[t].pc \notin {"idle", "ret"} /\ ioc[t].verb \in Privileged => t \in Admins

\* A step of a call in flight keeps its command and never starts one.
LEMMA StepKeepsCommand ==
  ASSUME IoctlTypeOK, NEW t \in Tasks, IoctlStep(t)
  PROVE  /\ ioc[t].pc # "idle"
         /\ ioc[t].pc # "ret" => ioc'[t].verb = ioc[t].verb
         /\ ioc[t].pc = "ret" => ioc'[t].pc = "idle"
         /\ ioc'[t].pc # ioc[t].pc
         /\ \A u \in Tasks \ {t} : ioc'[u] = ioc[u]
<1>1. ioc \in [Tasks -> IocCall] /\ ioc[t] \in IocCall
  BY DEF IoctlTypeOK
<1>2. CASE IoctlReturn(t)
  BY <1>1, <1>2 DEF IoctlReturn, IocBecomes, NoIoctl
<1>3. CASE ResetQset(t) \/ SetParam(t) \/ Tell(t) \/ Get(t) \/ Query(t)
           \/ ExchangePut(t)
  <2>1. PICK r : Reply(t, r)
    BY <1>3 DEF ResetQset, SetParam, Tell, Get, Query, ExchangePut
  <2>2. ioc[t].pc \notin {"idle", "ret"}
    BY <1>3 DEF ResetQset, SetParam, Tell, Get, Query, ExchangePut, At
  <2> QED BY <1>1, <2>1, <2>2 DEF Reply, IocBecomes, IocCall
<1>4. CASE ResetQuantum(t)
  BY <1>1, <1>4 DEF ResetQuantum, At, IocBecomes, IocCall
<1>5. CASE LoadTmp(t)
  BY <1>1, <1>5 DEF LoadTmp, IocBecomes, IocCall
<1>6. CASE ExchangeStore(t)
  <2>1. PICK r \in {0, -EFAULT} :
          IocBecomes(t, [ioc[t] EXCEPT
                           !.pc = IF r = 0 THEN "put" ELSE "ret",
                           !.ret = r, !.replaced = param[ioc[t].par]])
    BY <1>6 DEF ExchangeStore
  <2>2. ioc'[t] = [ioc[t] EXCEPT !.pc = IF r = 0 THEN "put" ELSE "ret",
                                 !.ret = r, !.replaced = param[ioc[t].par]]
    BY <1>1, <2>1 DEF IocBecomes
  <2>3. ioc'[t].verb = ioc[t].verb /\ ioc'[t].pc \in {"put", "ret"}
    BY <1>1, <2>2 DEF IocCall
  <2> QED BY <1>1, <1>6, <2>1, <2>3 DEF ExchangeStore, At, IocBecomes
<1>7. CASE ShiftStore(t)
  BY <1>1, <1>7 DEF ShiftStore, At, IocBecomes, IocCall
<1> QED
  BY <1>2, <1>3, <1>4, <1>5, <1>6, <1>7 DEF IoctlStep

LEMMA AuthorisedInvariant == IoctlSpec => []Authorised
<1>1. IoctlInit => Authorised
  BY DEF IoctlInit, NoIoctl, Authorised
<1>2. ASSUME Authorised, IoctlTypeOK, [IoctlNext]_ioctlVars
      PROVE  Authorised'
  <2>1. CASE UNCHANGED ioctlVars
    BY <1>2, <2>1 DEF Authorised, ioctlVars
  <2>2. CASE \E t \in Tasks : IoctlStep(t)
    <3>1. PICK t \in Tasks : IoctlStep(t)
      BY <2>2
    <3> QED BY <1>2, <3>1, StepKeepsCommand DEF Authorised
  <2>3. CASE \E t \in Tasks, v \in Verbs, p \in Params, a \in Args :
               IoctlEnter(t, v, p, a)
    <3>1. PICK t \in Tasks, v \in Verbs, p \in Params, a \in Args :
            IoctlEnter(t, v, p, a)
      BY <2>3
    <3>2. PICK verdict \in {"run", "ret"}, r \in {0, -ENOTTY, -EFAULT, -EPERM} :
            /\ verdict = "ret" \/ Capable(t, v)
            /\ IocBecomes(t, [NoIoctl EXCEPT !.pc = verdict, !.verb = v,
                                            !.par = p, !.arg = a, !.ret = r])
      BY <3>1 DEF IoctlEnter
    <3>3. ioc'[t].pc = verdict /\ ioc'[t].verb = v
      BY <1>2, <3>2 DEF IocBecomes, IoctlTypeOK, NoIoctl
    <3>4. \A u \in Tasks \ {t} : ioc'[u] = ioc[u]
      BY <1>2, <3>2 DEF IocBecomes, IoctlTypeOK
    <3> QED BY <1>2, <3>2, <3>3, <3>4 DEF Authorised, Capable
  <2> QED BY <1>2, <2>1, <2>2, <2>3 DEF IoctlNext
<1> QED BY <1>1, <1>2, IoctlTypeCorrect, PTL DEF IoctlSpec

\* Whatever the tasks do, a parameter of the driver leaves its compile-time
\* default only through a call of an administrator.
THEOREM OnlyAdminsTuneHolds == IoctlSpec => OnlyAdminsTune
<1> DEFINE Guarded ==
      \A p \in Params :
        param'[p] # param[p] =>
          param'[p] = Default[p] \/ \E t \in Admins : ioc'[t] # ioc[t]
<1>1. ASSUME Authorised, IoctlTypeOK, IoctlNext
      PROVE  Guarded
  <2>1. CASE \E t \in Tasks, v \in Verbs, p \in Params, a \in Args :
               IoctlEnter(t, v, p, a)
    BY <2>1 DEF IoctlEnter
  <2>2. CASE \E t \in Tasks : IoctlStep(t)
    <3>1. PICK t \in Tasks : IoctlStep(t)
      BY <2>2
    <3>2. ioc'[t] # ioc[t]
      BY <1>1, <3>1, StepKeepsCommand
    <3>3. CASE t \in Admins
      BY <3>2, <3>3
    <3>4. CASE t \notin Admins
      <4>1. ioc[t].pc = "ret" \/ ioc[t].verb \notin Privileged
        BY <1>1, <3>1, <3>4, StepKeepsCommand DEF Authorised
      <4>2. ResetQuantum(t) \/ ResetQset(t) \/ UNCHANGED param
        BY <3>1, <4>1 DEF IoctlStep, SetParam, Tell, Get, Query, LoadTmp,
           ExchangeStore, ExchangePut, ShiftStore, IoctlReturn, At, Privileged
      <4>3. ASSUME ResetQuantum(t) \/ ResetQset(t)
            PROVE  Guarded
        BY <1>1, <4>3 DEF ResetQuantum, ResetQset, Store, Default, Params,
           IoctlTypeOK
      <4> QED BY <4>2, <4>3
    <3> QED BY <3>3, <3>4
  <2> QED BY <1>1, <2>1, <2>2 DEF IoctlNext
<1>2. Authorised /\ IoctlTypeOK /\ [IoctlNext]_ioctlVars => [Guarded]_ioctlVars
  BY <1>1
<1> QED
  BY <1>2, AuthorisedInvariant, IoctlTypeCorrect, PTL
     DEF IoctlSpec, OnlyAdminsTune

-----------------------------------------------------------------------------
(***************************************************************************)
(* eXchange and sHift are atomic when a single administrator tunes the     *)
(* driver and nobody resets it.  ExchangeAtomic speaks of finished calls   *)
(* only; what a call in flight relies on is that its tmp is still the      *)
(* value of the parameter when it stores, and that holds because every     *)
(* store is made by the one administrator.                                 *)
(***************************************************************************)
Tuning(t) ==
  /\ ioc[t].pc # "idle" => ioc[t].verb # "reset"
  /\ ioc[t].pc \notin {"idle", "ret"} /\ ioc[t].verb \in Privileged => t \in Admins

Exchanging(t) ==
  /\ ioc[t].pc = "store" => ioc[t].verb \in {"X", "H"}
                            /\ ioc[t].tmp = param[ioc[t].par]
  /\ ioc[t].pc = "put" => ioc[t].tmp = ioc[t].replaced
  /\ ioc[t].pc = "ret" /\ ioc[t].verb \in {"X", "H"} /\ ioc[t].ret >= 0
       => ioc[t].tmp = ioc[t].replaced

OneTunerInv == IoctlTypeOK /\ \A t \in Tasks : Tuning(t) /\ Exchanging(t)

\* A step of t leaves the calls of the others as they are, so they keep the
\* invariant as long as no one but the administrator stores.
LEMMA OthersKeep ==
  ASSUME \A a, b \in Admins : a = b,
         OneTunerInv, NEW t \in Tasks, NEW c, IocBecomes(t, c),
         UNCHANGED param \/ t \in Admins,
         NEW u \in Tasks, u # t
  PROVE  (Tuning(u) /\ Exchanging(u))'
<1>1. ioc'[u] = ioc[u]
  BY DEF IocBecomes, OneTunerInv, IoctlTypeOK
<1>2. ioc[u].pc = "store" => u \in Admins
  BY DEF OneTunerInv, Tuning, Exchanging, Privileged
<1>3. ioc[u].pc = "store" => UNCHANGED param
  BY <1>2
<1> QED BY <1>1, <1>3 DEF OneTunerInv, Tuning, Exchanging

\* eXchange and sHift return the value they replaced, in scull_ioctl with
\* one administrator and no SCULL_IOCRESET.
THEOREM ExchangeAtomicWithOneTuner ==
  ASSUME \A a, b \in Admins : a = b, "reset" \notin Verbs
  PROVE  IoctlSpec => []ExchangeAtomic
<1>1. IoctlInit => \A t \in Tasks : Tuning(t) /\ Exchanging(t)
  <2> SUFFICES ASSUME IoctlInit, NEW t \in Tasks
               PROVE  Tuning(t) /\ Exchanging(t)
    OBVIOUS
  <2>1. ioc[t].pc = "idle"
    BY DEF IoctlInit, NoIoctl
  <2> QED BY <2>1 DEF Tuning, Exchanging
<1>2. ASSUME OneTunerInv, IoctlTypeOK', [IoctlNext]_ioctlVars
      PROVE  (\A t \in Tasks : Tuning(t) /\ Exchanging(t))'
  <2>1. CASE UNCHANGED ioctlVars
    BY <1>2, <2>1 DEF OneTunerInv, Tuning, Exchanging, ioctlVars
  <2>2. CASE IoctlNext
    <3>1. PICK t \in Tasks :
           \/ \E v \in Verbs, p \in Params, a \in Args : IoctlEnter(t, v, p, a)
           \/ ResetQuantum(t) \/ ResetQset(t)
           \/ SetParam(t) \/ Tell(t) \/ Get(t) \/ Query(t)
           \/ LoadTmp(t) \/ ExchangeStore(t) \/ ExchangePut(t) \/ ShiftStore(t)
           \/ IoctlReturn(t)
      BY <2>2, IoctlCases
    <3> DEFINE Kept == (Tuning(t) /\ Exchanging(t))'
    <3>t. /\ ioc[t] \in IocCall /\ param \in [Params -> Values]
          /\ ioc \in [Tasks -> IocCall] /\ Tuning(t) /\ Exchanging(t)
      BY <1>2 DEF OneTunerInv, IoctlTypeOK
    <3>b. ASSUME NEW c, IocBecomes(t, c), UNCHANGED param \/ t \in Admins, Kept
          PROVE  (\A u \in Tasks : Tuning(u) /\ Exchanging(u))'
      BY <3>b, <1>2, OthersKeep
    <3>c. ASSUME NEW c, IocBecomes(t, c) PROVE ioc'[t] = c
      BY <3>c, <3>t DEF IocBecomes
    <3>r. ASSUME NEW r, Reply(t, r)
          PROVE  ioc'[t] = [ioc[t] EXCEPT !.pc = "ret", !.ret = r]
      BY <3>r, <3>c DEF Reply
    <3>2. CASE \E v \in Verbs, p \in Params, a \in Args : IoctlEnter(t, v, p, a)
      <4>1. PICK v \in Verbs, p \in Params, a \in Args : IoctlEnter(t, v, p, a)
        BY <3>2
      <4>2. PICK verdict \in {"run", "ret"}, r \in {0, -ENOTTY, -EFAULT, -EPERM} :
              /\ \/ verdict = "ret" /\ v = "bad" /\ r = -ENOTTY
                 \/ verdict = "ret" /\ v \in Pointer /\ Faulty /\ r = -EFAULT
                 \/ verdict = "ret" /\ v # "bad" /\ ~Capable(t, v) /\ r = -EPERM
                 \/ verdict = "run" /\ v # "bad" /\ Capable(t, v) /\ r = 0
              /\ IocBecomes(t, [NoIoctl EXCEPT !.pc = verdict, !.verb = v,
                                              !.par = p, !.arg = a, !.ret = r])
        BY <4>1 DEF IoctlEnter
      <4>3. /\ ioc'[t].pc = verdict /\ ioc'[t].verb = v /\ ioc'[t].ret = r
        BY <4>2, <3>c DEF NoIoctl
      <4>4. Kept
        BY <4>2, <4>3 DEF Tuning, Exchanging, Capable, ENOTTY, EFAULT, EPERM
      <4> QED BY <4>1, <4>2, <4>4, <3>b DEF IoctlEnter
    <3>3. CASE ResetQuantum(t) \/ ResetQset(t)
      BY <3>3, <3>t DEF ResetQuantum, ResetQset, At, Tuning
    <3>4. CASE SetParam(t) \/ Tell(t)
      <4>1. PICK r : Reply(t, r)
        BY <3>4 DEF SetParam, Tell
      <4>2. t \in Admins
        BY <3>4, <3>t DEF SetParam, Tell, At, Tuning, Privileged
      <4>3. ioc[t].verb \in {"S", "T"}
        BY <3>4 DEF SetParam, Tell, At
      <4>4. Kept
        BY <4>1, <4>3, <3>r, <3>t DEF Tuning, Exchanging, IocCall
      <4> QED BY <4>1, <4>2, <4>4, <3>b DEF Reply
    <3>5. CASE Get(t) \/ Query(t)
      <4>1. PICK r : Reply(t, r)
        BY <3>5 DEF Get, Query
      <4>2. ioc[t].verb \in {"G", "Q"} /\ UNCHANGED param
        BY <3>5 DEF Get, Query, At
      <4>3. Kept
        BY <4>1, <4>2, <3>r, <3>t DEF Tuning, Exchanging, IocCall
      <4> QED BY <4>1, <4>2, <4>3, <3>b DEF Reply
    <3>6. CASE LoadTmp(t)
      <4>1. ioc'[t] = [ioc[t] EXCEPT !.pc = "store", !.tmp = param[ioc[t].par]]
        BY <3>6, <3>c DEF LoadTmp
      <4>2. Kept
        BY <4>1, <3>6, <3>t DEF LoadTmp, Tuning, Exchanging, IocCall
      <4> QED BY <4>2, <3>6, <3>b DEF LoadTmp
    <3>7. CASE ExchangeStore(t)
      <4>1. PICK r \in {0, -EFAULT} :
              IocBecomes(t, [ioc[t] EXCEPT
                               !.pc = IF r = 0 THEN "put" ELSE "ret",
                               !.ret = r, !.replaced = param[ioc[t].par]])
        BY <3>7 DEF ExchangeStore
      <4>2. /\ ioc'[t].pc = IF r = 0 THEN "put" ELSE "ret"
            /\ ioc'[t].ret = r /\ ioc'[t].replaced = param[ioc[t].par]
            /\ ioc'[t].tmp = ioc[t].tmp /\ ioc'[t].verb = ioc[t].verb
        BY <4>1, <3>c, <3>t DEF IocCall
      <4>3. t \in Admins /\ ioc[t].tmp = param[ioc[t].par] /\ ioc[t].verb = "X"
        BY <3>7, <3>t DEF ExchangeStore, At, Tuning, Exchanging, Privileged
      <4>4. Kept
        BY <4>2, <4>3 DEF Tuning, Exchanging, EFAULT
      <4> QED BY <4>1, <4>3, <4>4, <3>b
    <3>8. CASE ExchangePut(t)
      <4>1. PICK r : Reply(t, r)
        BY <3>8 DEF ExchangePut
      <4>2. ioc[t].pc = "put" /\ ioc[t].verb = "X" /\ UNCHANGED param
        BY <3>8 DEF ExchangePut, At
      <4>3. Kept
        BY <4>1, <4>2, <3>r, <3>t DEF Tuning, Exchanging, IocCall
      <4> QED BY <4>1, <4>2, <4>3, <3>b DEF Reply
    <3>9. CASE ShiftStore(t)
      <4>1. IocBecomes(t, [ioc[t] EXCEPT !.pc = "ret", !.ret = ioc[t].tmp,
                                         !.replaced = param[ioc[t].par]])
        BY <3>9 DEF ShiftStore
      <4>2. /\ ioc'[t].pc = "ret" /\ ioc'[t].replaced = param[ioc[t].par]
            /\ ioc'[t].tmp = ioc[t].tmp /\ ioc'[t].verb = ioc[t].verb
        BY <4>1, <3>c, <3>t DEF IocCall
      <4>3. t \in Admins /\ ioc[t].tmp = param[ioc[t].par] /\ ioc[t].verb = "H"
        BY <3>9, <3>t DEF ShiftStore, At, Tuning, Exchanging, Privileged
      <4>4. Kept
        BY <4>2, <4>3 DEF Tuning, Exchanging
      <4> QED BY <4>1, <4>3, <4>4, <3>b
    <3>10. CASE IoctlReturn(t)
      <4>1. ioc'[t] = NoIoctl
        BY <3>10, <3>c DEF IoctlReturn
      <4>2. Kept
        BY <4>1 DEF NoIoctl, Tuning, Exchanging
      <4> QED BY <4>2, <3>10, <3>b DEF IoctlReturn
    <3> QED
      BY <3>1, <3>2, <3>3, <3>4, <3>5, <3>6, <3>7, <3>8, <3>9, <3>10
  <2> QED BY <1>2, <2>1, <2>2
<1>3. OneTunerInv => ExchangeAtomic
  BY DEF OneTunerInv, Exchanging, ExchangeAtomic
<1> QED
  BY <1>1, <1>2, <1>3, IoctlTypeCorrect, PTL DEF IoctlSpec, OneTunerInv
=============================================================================
