---------------------------- MODULE ScullProofs -----------------------------
(***************************************************************************)
(* Theorems about the scull device for any number of tasks and files, any  *)
(* geometry, any bounds and any sequence of ioctl commands.                *)
(***************************************************************************)
EXTENDS Scull, ScullIoctlProofs

-----------------------------------------------------------------------------
(* Arithmetic of positions.                                                *)

LEMMA DivMod ==
  ASSUME NEW a \in Nat, NEW b \in Nat, b # 0
  PROVE  /\ a \div b \in Nat /\ a % b \in Nat /\ a % b < b
         /\ a = b * (a \div b) + (a % b)
<1>1. b > 0
  OBVIOUS
<1>2. a \div b \in Int /\ a % b \in 0 .. b - 1
  BY <1>1
<1>3. a = b * (a \div b) + (a % b)
  BY <1>1
<1>4. a \div b >= 0
  BY <1>1
<1> QED BY <1>1, <1>2, <1>3, <1>4

LEMMA MulMono ==
  ASSUME NEW a \in Nat, NEW b \in Nat, NEW k \in Nat, a <= b
  PROVE  a * k <= b * k /\ a * k \in Nat
<1>1. PICK d \in Nat : b = a + d
  BY b - a \in Nat
<1>2. b * k = a * k + d * k /\ d * k >= 0
  BY <1>1
<1> QED BY <1>2

LEMMA ProductType ==
  ASSUME NEW a \in Nat, NEW b \in Nat
  PROVE  a * b \in Nat
OBVIOUS

LEMMA ZeroTimes ==
  ASSUME NEW k \in Nat
  PROVE  0 <= 0 * k
OBVIOUS

\* A position lies inside the array and inside the quantum that
\* scull_read and scull_write compute for it.
LEMMA PlaceOfPosition ==
  ASSUME NEW g, g.quantum \in Nat, g.qset \in Nat, Itemsize(g) # 0,
         NEW p \in Nat
  PROVE  /\ Itemsize(g) \in Nat /\ g.quantum > 0
         /\ Item(g, p) \in Nat
         /\ SPos(g, p) \in Nat /\ SPos(g, p) < g.qset
         /\ QPos(g, p) \in Nat /\ QPos(g, p) < g.quantum
         /\ p + (g.quantum - QPos(g, p)) <= (Item(g, p) + 1) * Itemsize(g)
<1> DEFINE q == g.quantum
           s == g.qset
           n == Itemsize(g)
           r == Rest(g, p)
<1>1. n = q * s /\ n \in Nat /\ q > 0 /\ s > 0
  BY DEF Itemsize
<1>2. /\ Item(g, p) \in Nat /\ r \in Nat /\ r < n
      /\ p = n * Item(g, p) + r
  BY <1>1, DivMod DEF Item, Rest
<1>3. /\ SPos(g, p) \in Nat /\ QPos(g, p) \in Nat /\ QPos(g, p) < q
      /\ r = q * SPos(g, p) + QPos(g, p)
  <2>1. SPos(g, p) = r \div q /\ QPos(g, p) = r % q
    BY DEF SPos, QPos
  <2>2. r \in Nat /\ q \in Nat /\ q # 0
    BY <1>1, <1>2
  <2> HIDE DEF r, q
  <2> QED BY <2>1, <2>2, DivMod
<1>4. SPos(g, p) < s
  <2> SUFFICES ASSUME s <= SPos(g, p) PROVE FALSE
    BY <1>1, <1>3
  <2>1. s * q <= SPos(g, p) * q
    BY <1>1, <1>3, MulMono
  <2> QED BY <2>1, <1>1, <1>2, <1>3
<1>5. (SPos(g, p) + 1) * q <= s * q
  BY <1>1, <1>3, <1>4, MulMono
<1>6. r + (q - QPos(g, p)) <= n
  BY <1>1, <1>3, <1>5
<1>7. (Item(g, p) + 1) * n = n * Item(g, p) + n
  BY <1>1, <1>2
<1> QED BY <1>1, <1>2, <1>3, <1>4, <1>6, <1>7

\* A transfer stays within the quantum.
LEMMA SpanBound ==
  ASSUME NEW g, g.quantum \in Nat, g.qset \in Nat, Itemsize(g) # 0,
         NEW p \in Nat, NEW count \in Nat
  PROVE  /\ Span(g, p, count) \in Nat
         /\ Span(g, p, count) <= count
         /\ QPos(g, p) + Span(g, p, count) <= g.quantum
BY PlaceOfPosition DEF Span

\* scull_follow never shortens the list.
LEMMA FollowGrows ==
  ASSUME items \in Nat, NEW n \in Nat, NEW m \in Follow(n)
  PROVE  m \in Nat /\ items <= m
BY DEF Follow

-----------------------------------------------------------------------------
(* The ioctl part of the device is ScullIoctl: its theorems carry over.    *)

\* A step of the device is a step of scull_ioctl or leaves it alone.
LEMMA DeviceStepIsIoctlStep == Next => [IoctlNext]_ioctlVars
<1> SUFFICES ASSUME Next PROVE [IoctlNext]_ioctlVars
  OBVIOUS
<1>1. CASE \E t \in Tasks : IoctlBegin(t) \/ IoctlStep(t)
  BY <1>1 DEF IoctlBegin, IoctlNext
<1>2. CASE \E t \in Tasks : Begin(t)
  <2>1. ASSUME NEW t \in Tasks, NEW f \in Files, NEW m, Open(t, f, m)
        PROVE  UNCHANGED ioctlVars
    BY <2>1 DEF Open
  <2>2. ASSUME NEW t \in Tasks, NEW f \in Files, NEW op, LoadGeometry(t, op, f)
        PROVE  UNCHANGED ioctlVars
    BY <2>2 DEF LoadGeometry
  <2>3. ASSUME NEW t \in Tasks, NEW f \in Files, NEW whence, NEW off,
               Llseek(t, f, whence, off)
        PROVE  UNCHANGED ioctlVars
    BY <2>3 DEF Llseek
  <2> QED BY <1>2, <2>1, <2>2, <2>3 DEF Begin
<1>3. CASE \E t \in Tasks : Continue(t)
  <2>1. PICK t \in Tasks : Continue(t)
    BY <1>3
  <2>2. CASE LoadGeometry2(t) \/ Acquire(t) \/ Interrupted(t) \/ Return(t)
    BY <2>2 DEF LoadGeometry2, Acquire, Interrupted, Return, ioctlVars
  <2>3. CASE TrimFree(t) \/ TrimQset(t) \/ Oops(t)
    BY <2>3 DEF TrimFree, TrimQset, Oops, ioctlVars
  <2>4. CASE ReadPastEnd(t) \/ ReadHole(t) \/ ReadBytes(t)
    BY <2>4 DEF ReadPastEnd, ReadHole, ReadBytes, ioctlVars
  <2>5. CASE WriteNoMem(t) \/ WriteBytes(t)
    BY <2>5 DEF WriteNoMem, WriteBytes, ioctlVars
  <2> QED BY <2>1, <2>2, <2>3, <2>4, <2>5 DEF Continue, Section
<1>4. CASE \E f \in Files : Release(f)
  BY <1>4 DEF Release, ioctlVars
<1> QED BY <1>1, <1>2, <1>3, <1>4 DEF Next

\* The device with its file operations implements the ioctl handler alone.
THEOREM DeviceImplementsIoctl == Spec => IoctlSpec
<1>1. Init => IoctlInit
  BY DEF Init
<1>2. [Next]_vars => [IoctlNext]_ioctlVars
  BY DeviceStepIsIoctlStep DEF vars, ioctlVars
<1> QED BY <1>1, <1>2, PTL DEF Spec, IoctlSpec

-----------------------------------------------------------------------------
(* Type correctness, one lemma for each kind of step.                      *)

\* Case split of Next used by every invariance proof.
LEMMA DeviceCases ==
  ASSUME Next
  PROVE  \/ \E t \in Tasks, f \in Files, m \in {"rdonly", "wronly", "rdwr"} :
              Open(t, f, m)
         \/ \E t \in Tasks, op \in {"read", "write"}, f \in Files :
              LoadGeometry(t, op, f)
         \/ \E t \in Tasks, f \in Files, whence \in {"set", "cur", "end"},
                off \in Offsets : Llseek(t, f, whence, off)
         \/ \E t \in Tasks : \/ LoadGeometry2(t) \/ Acquire(t) \/ Interrupted(t)
                               \/ TrimFree(t) \/ TrimQset(t)
                               \/ ReadPastEnd(t) \/ ReadHole(t) \/ ReadBytes(t)
                               \/ WriteNoMem(t) \/ WriteBytes(t)
                               \/ Oops(t) \/ Return(t)
         \/ \E f \in Files : Release(f)
         \/ UNCHANGED devVars
BY DEF Next, Begin, Continue, Section

\* What a new call record needs to be well typed.
LEMMA BecomesType ==
  ASSUME call \in [Tasks -> CallType], NEW t \in Tasks, NEW c \in CallType,
         Becomes(t, c)
  PROVE  /\ call' \in [Tasks -> CallType]
         /\ call'[t] = c
         /\ \A u \in Tasks \ {t} : call'[u] = call[u]
BY DEF Becomes

LEMMA CallUpdates ==
  ASSUME NEW c \in CallType, NEW pc \in CallPc
  PROVE  /\ [c EXCEPT !.pc = pc] \in CallType
         /\ \A v \in Int : [c EXCEPT !.pc = pc, !.val = v] \in CallType
         /\ \A n \in Nat : [c EXCEPT !.pc = pc, !.qset = n] \in CallType
BY DEF CallType

LEMMA FinishUpdate ==
  ASSUME NEW c \in CallType, NEW v \in Int, NEW p \in Nat, NEW b \in Seq(Byte)
  PROVE  /\ [c EXCEPT !.pc = "ret", !.val = v, !.buf = b, !.pos = p] \in CallType
         /\ [c EXCEPT !.pc = "ret", !.val = v, !.buf = b, !.pos = p].pc = "ret"
<1> DEFINE c1 == [c EXCEPT !.pc = "ret"]
           c2 == [c1 EXCEPT !.val = v]
           c3 == [c2 EXCEPT !.buf = b]
           c4 == [c3 EXCEPT !.pos = p]
<1>1. c1 \in CallType /\ c1.pc = "ret"
  BY DEF CallType, CallPc
<1> HIDE DEF c1
<1>2. c2 \in CallType /\ c2.pc = "ret"
  BY <1>1 DEF CallType
<1> HIDE DEF c2
<1>3. c3 \in CallType /\ c3.pc = "ret"
  BY <1>2 DEF CallType
<1> HIDE DEF c3
<1>4. c4 \in CallType /\ c4.pc = "ret"
  BY <1>3 DEF CallType
<1>5. c4 = [c EXCEPT !.pc = "ret", !.val = v, !.buf = b, !.pos = p]
  BY Zenon DEF c1, c2, c3
<1> QED BY <1>4, <1>5

\* The end of a critical section: the call returns, the semaphore goes up.
LEMMA FinishType ==
  ASSUME TypeOK, NEW t \in Tasks, NEW v \in Int, NEW n \in Nat,
         NEW b \in Seq(Byte), Finish(t, v, n, b)
  PROVE  /\ call' \in [Tasks -> CallType]
         /\ call'[t].pc = "ret"
         /\ \A u \in Tasks \ {t} : call'[u] = call[u]
         /\ sem' = sem + 1
<1>1. call[t] \in CallType /\ call \in [Tasks -> CallType]
  BY DEF TypeOK
<1> DEFINE c == [call[t] EXCEPT !.pc = "ret", !.val = v, !.buf = b,
                                !.pos = call[t].pos + n]
<1>2. c \in CallType /\ c.pc = "ret"
  <2>1. call[t].pos + n \in Nat
    BY <1>1 DEF CallType
  <2> QED BY <1>1, <2>1, FinishUpdate
<1>3. Becomes(t, c)
  BY DEF Finish
<1> HIDE DEF c
<1>4. sem' = sem + 1
  BY DEF Finish, Up
<1> QED BY <1>1, <1>2, <1>3, <1>4, BecomesType

LEMMA EmptyBuffer == <<>> \in Seq(Byte)
OBVIOUS

LEMMA NoCallType == NoCall \in CallType /\ NoCall.pc = "idle"
BY EmptyBuffer DEF NoCall, CallType, CallPc

\* Steps that start or end a call, or move it, and leave the device alone.
LEMMA TypeOutside ==
  ASSUME TypeOK,
         \/ \E t \in Tasks, f \in Files, m \in {"rdonly", "wronly", "rdwr"} :
              Open(t, f, m)
         \/ \E t \in Tasks, op \in {"read", "write"}, f \in Files :
              LoadGeometry(t, op, f)
         \/ \E t \in Tasks, f \in Files, whence \in {"set", "cur", "end"},
                off \in Offsets : Llseek(t, f, whence, off)
         \/ \E t \in Tasks : \/ LoadGeometry2(t) \/ Acquire(t) \/ Interrupted(t)
                               \/ Oops(t) \/ Return(t)
         \/ \E f \in Files : Release(f)
         \/ UNCHANGED devVars
  PROVE  TypeOK'
<1>t. /\ call \in [Tasks -> CallType] /\ file \in [Files -> [mode : Modes, pos : Nat]]
      /\ hist \in [raced : BOOLEAN, overrun : BOOLEAN, leak : BOOLEAN]
      /\ sem \in Nat
  BY DEF TypeOK
<1>d. ASSUME UNCHANGED <<storage, geometry, size>>,
             sem' \in Nat, call' \in [Tasks -> CallType],
             file' \in [Files -> [mode : Modes, pos : Nat]],
             hist' \in [raced : BOOLEAN, overrun : BOOLEAN, leak : BOOLEAN]
      PROVE  TypeOK'
  BY <1>d DEF TypeOK, storage, geometry
<1>1. ASSUME NEW t \in Tasks, NEW f \in Files, NEW m \in {"rdonly", "wronly", "rdwr"},
             Open(t, f, m)
      PROVE  TypeOK'
  <2>1. file' \in [Files -> [mode : Modes, pos : Nat]]
    <3>1. m \in Modes /\ "opening" \in Modes
      BY DEF Modes
    <3>2. \E md \in Modes : file' = [file EXCEPT ![f] = [mode |-> md, pos |-> 0]]
      BY <1>1, <3>1 DEF Open
    <3> QED BY <1>t, <3>2
  <2>2. [NoCall EXCEPT !.pc = "down", !.op = "open", !.file = f] \in CallType
    BY NoCallType DEF CallType, CallPc
  <2>3. call' \in [Tasks -> CallType]
    BY <1>1, <1>t, <2>2, BecomesType DEF Open
  <2> QED BY <1>1, <1>t, <1>d, <2>1, <2>3 DEF Open
<1>2. ASSUME NEW t \in Tasks, NEW f \in Files, NEW op \in {"read", "write"},
             LoadGeometry(t, op, f)
      PROVE  TypeOK'
  <2>1. quantum \in Nat /\ file[f].pos \in Nat
    BY <1>t DEF TypeOK
  <2>2. [NoCall EXCEPT !.pc = "qset", !.op = op, !.file = f,
                       !.quantum = quantum, !.pos = file[f].pos] \in CallType
    <3>1. ASSUME NEW p \in Nat, NEW q \in Nat
          PROVE  [NoCall EXCEPT !.pc = "qset", !.op = op, !.file = f,
                                !.quantum = q, !.pos = p] \in CallType
      <4>1. op \in {"none", "open", "read", "write", "llseek"} /\ "qset" \in CallPc
        BY DEF CallPc
      <4> DEFINE d == [NoCall EXCEPT !.pc = "qset", !.op = op, !.file = f]
      <4>2. d \in CallType
        BY <4>1, NoCallType DEF CallType
      <4> HIDE DEF d
      <4>3. [d EXCEPT !.quantum = q, !.pos = p] \in CallType
        BY <4>2 DEF CallType
      <4> QED BY <4>3, Zenon DEF d
    <3> QED BY <2>1, <3>1
  <2>3. call' \in [Tasks -> CallType]
    BY <1>2, <1>t, <2>2, BecomesType DEF LoadGeometry
  <2> QED BY <1>2, <1>t, <1>d, <2>3 DEF LoadGeometry
<1>3. ASSUME NEW t \in Tasks, NEW f \in Files, NEW whence \in {"set", "cur", "end"},
             NEW off \in Offsets, Llseek(t, f, whence, off)
      PROVE  TypeOK'
  <2> DEFINE newpos == off + (CASE whence = "set" -> 0
                                [] whence = "cur" -> file[f].pos
                                [] whence = "end" -> size)
  <2>1. newpos \in Int
    BY <1>t, DeviceConstants DEF TypeOK
  <2>2. /\ Becomes(t, [NoCall EXCEPT !.pc = "ret", !.op = "llseek", !.file = f,
                          !.val = IF newpos < 0 THEN -EINVAL ELSE newpos,
                          !.pos = IF newpos < 0 THEN 0 ELSE newpos])
        /\ UNCHANGED <<storage, geometry, size, sem, file, hist>>
    BY <1>3 DEF Llseek
  <2> HIDE DEF newpos
  <2>3. /\ (IF newpos < 0 THEN -EINVAL ELSE newpos) \in Int
        /\ (IF newpos < 0 THEN 0 ELSE newpos) \in Nat
    BY <2>1 DEF EINVAL
  <2>4. [NoCall EXCEPT !.pc = "ret", !.op = "llseek", !.file = f,
           !.val = IF newpos < 0 THEN -EINVAL ELSE newpos,
           !.pos = IF newpos < 0 THEN 0 ELSE newpos] \in CallType
    BY <2>3, EmptyBuffer DEF NoCall, CallType, CallPc
  <2>5. call' \in [Tasks -> CallType]
    BY <1>t, <2>2, <2>4, BecomesType
  <2> QED BY <1>t, <1>d, <2>2, <2>5
<1>4. ASSUME NEW t \in Tasks, LoadGeometry2(t) PROVE TypeOK'
  <2>1. qset \in Nat /\ call[t] \in CallType /\ "down" \in CallPc
    BY <1>t DEF TypeOK, CallPc
  <2>2. [call[t] EXCEPT !.pc = "down", !.qset = qset] \in CallType
    BY <2>1, CallUpdates
  <2>3. call' \in [Tasks -> CallType]
    BY <1>4, <1>t, <2>2, BecomesType DEF LoadGeometry2
  <2> QED BY <1>4, <1>t, <1>d, <2>3 DEF LoadGeometry2
<1>5. ASSUME NEW t \in Tasks, Acquire(t) PROVE TypeOK'
  <2>1. [call[t] EXCEPT !.pc = "body"] \in CallType
    BY <1>t, CallUpdates DEF CallPc
  <2>2. call' \in [Tasks -> CallType]
    BY <1>5, <1>t, <2>1, BecomesType DEF Acquire
  <2>3. sem' \in Nat
    BY <1>5, <1>t DEF Acquire, Down
  <2> QED BY <1>5, <1>t, <1>d, <2>2, <2>3 DEF Acquire
<1>6. ASSUME NEW t \in Tasks, Interrupted(t) PROVE TypeOK'
  <2>1. call[t] \in CallType /\ "ret" \in CallPc /\ -ERESTARTSYS \in Int
    BY <1>t DEF CallPc, ERESTARTSYS
  <2>2. [call[t] EXCEPT !.pc = "ret", !.val = -ERESTARTSYS] \in CallType
    BY <2>1, CallUpdates
  <2>3. call' \in [Tasks -> CallType]
    BY <1>6, <1>t, <2>2, BecomesType DEF Interrupted
  <2> QED BY <1>6, <1>t, <1>d, <2>3 DEF Interrupted
<1>7. ASSUME NEW t \in Tasks, Oops(t) PROVE TypeOK'
  <2>1. [call[t] EXCEPT !.pc = "dead"] \in CallType
    BY <1>t, CallUpdates DEF CallPc
  <2>2. call' \in [Tasks -> CallType]
    BY <1>7, <1>t, <2>1, BecomesType DEF Oops
  <2>3. hist' \in [raced : BOOLEAN, overrun : BOOLEAN, leak : BOOLEAN]
    BY <1>7, <1>t DEF Oops, Note
  <2> QED BY <1>7, <1>t, <1>d, <2>2, <2>3 DEF Oops
<1>8. ASSUME NEW t \in Tasks, Return(t) PROVE TypeOK'
  <2>1. call' \in [Tasks -> CallType]
    BY <1>8, <1>t, NoCallType, BecomesType DEF Return
  <2>2. call[t].pos \in Nat
    BY <1>t DEF CallType
  <2>3. file' \in [Files -> [mode : Modes, pos : Nat]]
    BY <1>8, <1>t, <2>2 DEF Return, Modes
  <2> QED BY <1>8, <1>t, <1>d, <2>1, <2>3 DEF Return
<1>9. ASSUME NEW f \in Files, Release(f) PROVE TypeOK'
  <2>1. file' \in [Files -> [mode : Modes, pos : Nat]]
    BY <1>9, <1>t DEF Release, Modes
  <2> QED BY <1>9, <1>t, <1>d, <2>1 DEF Release
<1>10. ASSUME UNCHANGED devVars PROVE TypeOK'
  BY <1>10, <1>t, <1>d DEF devVars
<1> QED
  BY <1>1, <1>2, <1>3, <1>4, <1>5, <1>6, <1>7, <1>8, <1>9, <1>10

\* The locals of a call are numbers.
LEMMA CallLocals ==
  ASSUME TypeOK, NEW t \in Tasks
  PROVE  /\ call[t] \in CallType
         /\ call[t].quantum \in Nat /\ call[t].qset \in Nat
         /\ call[t].pos \in Nat
BY DEF TypeOK, CallType

LEMMA NoteType ==
  ASSUME TypeOK, NEW c, NEW over \in BOOLEAN, Note(c, over)
  PROVE  hist' \in [raced : BOOLEAN, overrun : BOOLEAN, leak : BOOLEAN]
BY DEF TypeOK, Note, Stale

\* A longer list, perhaps with one more array and one more quantum, keeps
\* the shape of the linked structure.
LEMMA StorageType ==
  ASSUME TypeOK, items' \in Nat, items <= items',
         NEW i \in Nat, i < items', NEW n \in Nat,
         arr' = arr \/ (i \notin DOMAIN arr /\ arr' = Put(arr, i, n))
  PROVE  /\ arr' \in [DOMAIN arr' -> Nat]
         /\ DOMAIN arr' \subseteq 0 .. items' - 1
         /\ DOMAIN arr \subseteq DOMAIN arr'
<1>t. /\ arr \in [DOMAIN arr -> Nat] /\ DOMAIN arr \subseteq 0 .. items - 1
      /\ items \in Nat
  BY DEF TypeOK
<1>1. CASE arr' = arr
  BY <1>t, <1>1
<1>2. CASE i \notin DOMAIN arr /\ arr' = Put(arr, i, n)
  <2>1. /\ DOMAIN arr' = DOMAIN arr \cup {i}
        /\ arr' = [x \in DOMAIN arr \cup {i} |-> IF x = i THEN n ELSE arr[x]]
    BY <1>2 DEF Put
  <2>2. arr' \in [DOMAIN arr \cup {i} -> Nat]
    BY <1>t, <2>1
  <2> QED BY <1>t, <2>1, <2>2
<1> QED BY <1>1, <1>2

\* What DeviceConstants leaves of the ints a parameter can hold.
LEMMA NaturalGeometry == Values \subseteq Nat
<1>1. \A a \in Args : AsInt(a) \in Nat
  BY DeviceConstants, IoctlConstants DEF AsInt
<1> QED BY <1>1, DeviceConstants, IoctlConstants DEF Values

\* The critical sections keep the types.
LEMMA TypeInside ==
  ASSUME TypeOK, IoctlTypeOK, NEW t \in Tasks,
         \/ TrimFree(t) \/ TrimQset(t)
         \/ ReadPastEnd(t) \/ ReadHole(t) \/ ReadBytes(t)
         \/ WriteNoMem(t) \/ WriteBytes(t)
  PROVE  TypeOK'
<1> DEFINE c == call[t]
           item == Item(c, c.pos)
           cell == Cell(c, c.pos)
<1>t. /\ call \in [Tasks -> CallType] /\ file \in [Files -> [mode : Modes, pos : Nat]]
      /\ hist \in [raced : BOOLEAN, overrun : BOOLEAN, leak : BOOLEAN]
      /\ sem \in Nat /\ items \in Nat /\ size \in Nat /\ quantum \in Nat
      /\ qset \in Nat /\ arr \in [DOMAIN arr -> Nat]
      /\ DOMAIN arr \subseteq 0 .. items - 1
      /\ \A x \in DOMAIN quanta : quanta[x] \in [DOMAIN quanta[x] -> Byte]
      /\ DOMAIN quanta \subseteq (DOMAIN arr) \X Nat
  BY DEF TypeOK
<1>p. param["quantum"] \in Nat /\ param["qset"] \in Nat
  BY NaturalGeometry DEF IoctlTypeOK, Params
<1>c. c \in CallType /\ c.quantum \in Nat /\ c.qset \in Nat /\ c.pos \in Nat
  BY CallLocals
<1>g. Itemsize(c) # 0 =>
        /\ item \in Nat /\ SPos(c, c.pos) \in Nat /\ QPos(c, c.pos) \in Nat
        /\ cell = <<item, SPos(c, c.pos)>>
  BY <1>c, PlaceOfPosition DEF Cell
<1>h. \A n : Overruns(c, n) \in BOOLEAN
  BY DEF Overruns
<1>i. -EFAULT \in Int /\ -ENOMEM \in Int
  BY DEF EFAULT, ENOMEM
<1>f. ASSUME NEW v \in Int, NEW n \in Nat, NEW b \in Seq(Byte), Finish(t, v, n, b)
      PROVE  call' \in [Tasks -> CallType] /\ sem' \in Nat
  BY <1>f, <1>t, FinishType
<1>z. Finish(t, 0, 0, <<>>) => call' \in [Tasks -> CallType] /\ sem' \in Nat
  <2>1. 0 \in Int /\ 0 \in Nat
    OBVIOUS
  <2> QED BY <1>f, <2>1, EmptyBuffer, Zenon
<1>e. Finish(t, -EFAULT, 0, <<>>) => call' \in [Tasks -> CallType] /\ sem' \in Nat
  <2>1. 0 \in Nat
    OBVIOUS
  <2> QED BY <1>f, <1>i, <2>1, EmptyBuffer, Zenon
<1>1. CASE TrimFree(t)
  <2>1. call' \in [Tasks -> CallType]
    <3>1. [call[t] EXCEPT !.pc = "trim"] \in CallType
      BY <1>c, CallUpdates DEF CallPc
    <3> QED BY <1>1, <1>t, <3>1, BecomesType DEF TrimFree
  <2>2. hist' \in [raced : BOOLEAN, overrun : BOOLEAN, leak : BOOLEAN]
    BY <1>1, <1>t DEF TrimFree
  <2> QED BY <1>1, <1>t, <1>p, <2>1, <2>2 DEF TrimFree, TypeOK
<1>2. CASE TrimQset(t)
  BY <1>2, <1>t, <1>p, <1>z DEF TrimQset, TypeOK, storage
<1>3. CASE ReadPastEnd(t)
  BY <1>3, <1>t, <1>z DEF ReadPastEnd, TypeOK, storage, geometry
<1>4. CASE ReadHole(t)
  <2>1. items' \in Nat /\ items <= items'
    BY <1>4, <1>t, <1>g, FollowGrows DEF ReadHole
  <2>2. hist' \in [raced : BOOLEAN, overrun : BOOLEAN, leak : BOOLEAN]
    BY <1>4, <1>h, NoteType DEF ReadHole
  <2>3. call' \in [Tasks -> CallType] /\ sem' \in Nat
    BY <1>4, <1>z DEF ReadHole
  <2> QED BY <1>4, <1>t, <2>1, <2>2, <2>3 DEF ReadHole, TypeOK, geometry
<1>5. CASE ReadBytes(t)
  <2>1. items' \in Nat /\ items <= items'
    BY <1>5, <1>t, <1>g, FollowGrows DEF ReadBytes
  <2>2. PICK count \in Counts :
          LET left == IF c.pos + count > size THEN size - c.pos ELSE count
              n == Span(c, c.pos, left) IN
          /\ Note(c, Overruns(c, n))
          /\ \/ Finish(t, n, n, [i \in 1 .. n |->
                                   ByteAt(quanta[cell], QPos(c, c.pos) + i - 1)])
             \/ Faulty /\ n > 0 /\ Finish(t, -EFAULT, 0, <<>>)
    BY <1>5 DEF ReadBytes
  <2> DEFINE left == IF c.pos + count > size THEN size - c.pos ELSE count
             n == Span(c, c.pos, left)
             bytes == [i \in 1 .. n |-> ByteAt(quanta[cell], QPos(c, c.pos) + i - 1)]
  <2>3. left \in Nat
    <3>1. count \in Nat /\ c.pos < size
      BY <1>5, DeviceConstants DEF ReadBytes
    <3> HIDE DEF c
    <3> QED BY <3>1, <1>t, <1>c
  <2>4. n \in Nat
    BY <1>5, <1>c, <2>3, SpanBound DEF ReadBytes
  <2>5. cell \in DOMAIN quanta
    BY <1>5 DEF ReadBytes
  <2>6. bytes \in Seq(Byte)
    <3>1. \A i : ByteAt(quanta[cell], i) \in Byte
      BY <1>t, <2>5 DEF ByteAt, Byte
    <3> HIDE DEF n
    <3> QED BY <2>4, <3>1
  <2>7. hist' \in [raced : BOOLEAN, overrun : BOOLEAN, leak : BOOLEAN]
    BY <2>2, <1>h, NoteType
  <2>8. call' \in [Tasks -> CallType] /\ sem' \in Nat
    <3>1. n \in Int /\ (Finish(t, n, n, bytes) \/ Finish(t, -EFAULT, 0, <<>>))
      BY <2>2, <2>4
    <3> HIDE DEF n, bytes
    <3> QED BY <3>1, <2>4, <2>6, <1>e, <1>f, Zenon
  <2> QED BY <1>5, <1>t, <2>1, <2>7, <2>8 DEF ReadBytes, TypeOK, geometry
<1>6. CASE WriteNoMem(t)
  <2>1. items' \in Nat /\ items <= items'
    BY <1>6, <1>t, <1>g, FollowGrows DEF WriteNoMem
  <2>2. hist' \in [raced : BOOLEAN, overrun : BOOLEAN, leak : BOOLEAN]
    BY <1>6, <1>h, NoteType DEF WriteNoMem
  <2>3. call' \in [Tasks -> CallType] /\ sem' \in Nat
    BY <1>6, <1>f, <1>i, EmptyBuffer DEF WriteNoMem
  <2>4. \/ UNCHANGED arr
        \/ items' > item /\ item \notin DOMAIN arr /\ arr' = Put(arr, item, c.qset)
    BY <1>6 DEF WriteNoMem
  <2>5. /\ arr' \in [DOMAIN arr' -> Nat]
        /\ DOMAIN arr' \subseteq 0 .. items' - 1
        /\ DOMAIN arr \subseteq DOMAIN arr'
    <3>1. CASE UNCHANGED arr
      BY <1>t, <2>1, <3>1
    <3>2. CASE items' > item /\ item \notin DOMAIN arr /\ arr' = Put(arr, item, c.qset)
      <4>1. item \in Nat /\ item < items'
        BY <1>6, <1>g, <2>1, <3>2 DEF WriteNoMem
      <4> QED BY <1>c, <2>1, <3>2, <4>1, StorageType
    <3> QED BY <2>4, <3>1, <3>2
  <2> QED BY <1>6, <1>t, <2>1, <2>2, <2>3, <2>5 DEF WriteNoMem, TypeOK, geometry
<1>7. CASE WriteBytes(t)
  <2>1. items' \in Nat /\ items <= items' /\ item \in Nat /\ item < items'
    BY <1>7, <1>t, <1>g, FollowGrows DEF WriteBytes
  <2>2. PICK count \in Counts, b \in Bytes, m \in Nat :
          LET n == Span(c, c.pos, count) IN
          /\ Note(c, Overruns(c, n))
          /\ quanta' = Put(quanta, cell, CopyIn(QuantumFor(c), QPos(c, c.pos), n, m, b))
          /\ \/ Grow(c.pos + n) /\ Finish(t, n, n, <<>>)
             \/ UNCHANGED size /\ Finish(t, -EFAULT, 0, <<>>)
    <3>1. PICK count \in Counts, b \in Bytes :
            LET n == Span(c, c.pos, count) IN
            /\ Note(c, Overruns(c, n))
            /\ \E m \in 0 .. n :
                 /\ quanta' = Put(quanta, cell,
                                  CopyIn(QuantumFor(c), QPos(c, c.pos), n, m, b))
                 /\ \/ m = n /\ Grow(c.pos + n) /\ Finish(t, n, n, <<>>)
                    \/ m < n /\ Faulty /\ UNCHANGED size
                       /\ Finish(t, -EFAULT, 0, <<>>)
      BY <1>7 DEF WriteBytes
    <3>2. Span(c, c.pos, count) \in Nat
      BY <1>7, <1>c, DeviceConstants, SpanBound DEF WriteBytes
    <3> QED BY <3>1, <3>2
  <2> DEFINE n == Span(c, c.pos, count)
  <2>3. n \in Nat
    BY <1>7, <1>c, DeviceConstants, SpanBound DEF WriteBytes
  <2>4. hist' \in [raced : BOOLEAN, overrun : BOOLEAN, leak : BOOLEAN]
    BY <2>2, <1>h, NoteType
  <2>5. call' \in [Tasks -> CallType] /\ sem' \in Nat
    <3>1. n \in Int /\ (Finish(t, n, n, <<>>) \/ Finish(t, -EFAULT, 0, <<>>))
      BY <2>2, <2>3
    <3> HIDE DEF n
    <3> QED BY <3>1, <2>3, <1>e, <1>f, EmptyBuffer, Zenon
  <2>6. size' \in Nat
    BY <2>2, <2>3, <1>t, <1>c DEF Grow
  <2>7. /\ arr' \in [DOMAIN arr' -> Nat]
        /\ DOMAIN arr' \subseteq 0 .. items' - 1
        /\ DOMAIN arr \subseteq DOMAIN arr'
        /\ item \in DOMAIN arr'
    <3>1. arr' = arr \/ (item \notin DOMAIN arr /\ arr' = Put(arr, item, c.qset))
      BY <1>7 DEF WriteBytes, ArrayFor
    <3>2. item \in DOMAIN arr'
      <4>1. CASE item \in DOMAIN arr
        BY <1>7, <4>1 DEF WriteBytes, ArrayFor
      <4>2. CASE arr' = Put(arr, item, c.qset)
        BY <4>2 DEF Put
      <4> QED BY <1>7, <4>1, <4>2 DEF WriteBytes, ArrayFor
    <3> QED BY <1>c, <2>1, <3>1, <3>2, StorageType
  <2>8. DOMAIN quanta' = DOMAIN quanta \cup {cell}
    BY <2>2 DEF Put
  <2>9. DOMAIN quanta' \subseteq (DOMAIN arr') \X Nat
    <3>1. cell \in (DOMAIN arr') \X Nat
      BY <1>7, <1>g, <2>7 DEF WriteBytes
    <3> QED BY <1>t, <2>7, <2>8, <3>1
  <2>10. \A x \in DOMAIN quanta' : quanta'[x] \in [DOMAIN quanta'[x] -> Byte]
    <3> DEFINE q == QuantumFor(c)
               new == CopyIn(q, QPos(c, c.pos), n, m, b)
    <3>1. q \in [DOMAIN q -> Byte]
      BY <1>t DEF QuantumFor, Byte
    <3>2. \A i \in DOMAIN q : new[i] \in Byte
      BY <3>1, <2>2, DeviceConstants DEF CopyIn, Byte
    <3>3. new \in [DOMAIN new -> Byte]
      BY <3>2 DEF CopyIn
    <3> HIDE DEF new
    <3>4. quanta' = Put(quanta, cell, new)
      BY <2>2 DEF new
    <3>5. quanta'[cell] = new
      BY <3>4 DEF Put
    <3>6. \A x \in DOMAIN quanta : x # cell => quanta'[x] = quanta[x]
      BY <3>4 DEF Put
    <3> QED BY <1>t, <3>3, <3>5, <3>6, <2>8
  <2> QED
    BY <1>7, <1>t, <2>1, <2>4, <2>5, <2>6, <2>7, <2>9, <2>10
       DEF WriteBytes, TypeOK, geometry
<1> QED BY <1>1, <1>2, <1>3, <1>4, <1>5, <1>6, <1>7

\* Init establishes the types.
LEMMA TypeInit == Init => TypeOK
<1> SUFFICES ASSUME Init PROVE TypeOK
  OBVIOUS
<1>1. call \in [Tasks -> CallType]
  BY NoCallType DEF Init, DevInit
<1>2. file \in [Files -> [mode : Modes, pos : Nat]]
  BY DEF Init, DevInit, Modes
<1> QED BY <1>1, <1>2, DeviceConstants DEF Init, DevInit, TypeOK

LEMMA TypeStep == TypeOK /\ IoctlTypeOK /\ [Next]_vars => TypeOK'
<1> SUFFICES ASSUME TypeOK, IoctlTypeOK, [Next]_vars PROVE TypeOK'
  OBVIOUS
<1>1. CASE Next
  BY <1>1, DeviceCases, TypeInside, TypeOutside
<1>2. CASE UNCHANGED vars
  BY <1>2, TypeOutside DEF vars
<1> QED BY <1>1, <1>2

\* Every reachable state of the device is well typed and well shaped: an
\* array belongs to an item of the list, a quantum to an array.
THEOREM TypeCorrect == Spec => []TypeOK
BY TypeInit, TypeStep, DeviceImplementsIoctl, IoctlTypeCorrect, PTL DEF Spec

-----------------------------------------------------------------------------
(* Mutual exclusion.                                                       *)

LEMMA Moves ==
  ASSUME TypeOK, NEW t \in Tasks, NEW c, Becomes(t, c)
  PROVE  call'[t] = c /\ \A u \in Tasks \ {t} : call'[u] = call[u]
BY DEF TypeOK, Becomes

\* A step that moves no task into or out of the critical section.
LEMMA NeutralKeepsExclusive ==
  ASSUME Exclusive, UNCHANGED sem, NEW t,
         \A u \in Tasks \ {t} : call'[u] = call[u],
         t \in Tasks => (Holds(t)' <=> Holds(t))
  PROVE  Exclusive'
<1>1. \A u \in Tasks : Holds(u)' <=> Holds(u)
  BY DEF Holds
<1> QED BY <1>1 DEF Exclusive

\* Steps outside the critical section, and those that stay inside it.
LEMMA ExclusiveOutside ==
  ASSUME TypeOK, Exclusive,
         \/ \E t \in Tasks, f \in Files, m \in {"rdonly", "wronly", "rdwr"} :
              Open(t, f, m)
         \/ \E t \in Tasks, op \in {"read", "write"}, f \in Files :
              LoadGeometry(t, op, f)
         \/ \E t \in Tasks, f \in Files, whence \in {"set", "cur", "end"},
                off \in Offsets : Llseek(t, f, whence, off)
         \/ \E t \in Tasks : \/ LoadGeometry2(t) \/ Interrupted(t)
                               \/ TrimFree(t) \/ Oops(t) \/ Return(t)
         \/ \E f \in Files : Release(f)
         \/ UNCHANGED devVars
  PROVE  Exclusive'
<1>k. ASSUME NEW t \in Tasks, NEW c, Becomes(t, c), UNCHANGED sem,
             c.pc \in {"body", "trim", "dead"} <=> call[t].pc \in {"body", "trim", "dead"}
      PROVE  Exclusive'
  BY <1>k, Moves, NeutralKeepsExclusive DEF Holds
<1>u. ASSUME UNCHANGED <<sem, call>> PROVE Exclusive'
  BY <1>u DEF Exclusive, Holds
<1>t. \A t \in Tasks : call[t] \in CallType
  BY DEF TypeOK
<1>1. ASSUME NEW t \in Tasks, NEW f \in Files, NEW m, Open(t, f, m)
      PROVE  Exclusive'
  <2>1. CASE m = "wronly"
    <3>1. [NoCall EXCEPT !.pc = "down", !.op = "open", !.file = f].pc = "down"
      BY DEF NoCall
    <3> QED BY <1>1, <1>k, <2>1, <3>1 DEF Open, Free
  <2>2. CASE m # "wronly"
    BY <1>1, <1>u, <2>2 DEF Open
  <2> QED BY <2>1, <2>2
<1>2. ASSUME NEW t \in Tasks, NEW f \in Files, NEW op, LoadGeometry(t, op, f)
      PROVE  Exclusive'
  <2>1. [NoCall EXCEPT !.pc = "qset", !.op = op, !.file = f,
                       !.quantum = quantum, !.pos = file[f].pos].pc = "qset"
    BY DEF NoCall
  <2> QED BY <1>2, <1>k, <2>1 DEF LoadGeometry, Free
<1>3. ASSUME NEW t \in Tasks, NEW f \in Files, NEW whence, NEW off,
             Llseek(t, f, whence, off)
      PROVE  Exclusive'
  <2>1. PICK v, p : Becomes(t, [NoCall EXCEPT !.pc = "ret", !.op = "llseek",
                                              !.file = f, !.val = v, !.pos = p])
    BY <1>3 DEF Llseek
  <2>2. [NoCall EXCEPT !.pc = "ret", !.op = "llseek",
                       !.file = f, !.val = v, !.pos = p].pc = "ret"
    BY DEF NoCall
  <2> QED BY <1>3, <1>k, <2>1, <2>2 DEF Llseek, Free
<1>4. ASSUME NEW t \in Tasks, LoadGeometry2(t) PROVE Exclusive'
  <2>1. [call[t] EXCEPT !.pc = "down", !.qset = qset].pc = "down"
    BY <1>t DEF CallType
  <2> QED BY <1>4, <1>k, <2>1 DEF LoadGeometry2
<1>5. ASSUME NEW t \in Tasks, Interrupted(t) PROVE Exclusive'
  <2>1. [call[t] EXCEPT !.pc = "ret", !.val = -ERESTARTSYS].pc = "ret"
    BY <1>t DEF CallType
  <2> QED BY <1>5, <1>k, <2>1 DEF Interrupted
<1>6. ASSUME NEW t \in Tasks, TrimFree(t) PROVE Exclusive'
  <2>1. [call[t] EXCEPT !.pc = "trim"].pc = "trim"
    BY <1>t DEF CallType
  <2> QED BY <1>6, <1>k, <2>1 DEF TrimFree, InSection
<1>7. ASSUME NEW t \in Tasks, Oops(t) PROVE Exclusive'
  <2>1. [call[t] EXCEPT !.pc = "dead"].pc = "dead"
    BY <1>t DEF CallType
  <2> QED BY <1>7, <1>k, <2>1 DEF Oops
<1>8. ASSUME NEW t \in Tasks, Return(t) PROVE Exclusive'
  BY <1>8, <1>k, NoCallType DEF Return
<1>9. ASSUME NEW f \in Files, Release(f) PROVE Exclusive'
  BY <1>9, <1>u DEF Release
<1>10. ASSUME UNCHANGED devVars PROVE Exclusive'
  BY <1>10, <1>u DEF devVars
<1> QED
  BY <1>1, <1>2, <1>3, <1>4, <1>5, <1>6, <1>7, <1>8, <1>9, <1>10

\* down_interruptible succeeds only when no task holds the semaphore.
LEMMA ExclusiveAcquire ==
  ASSUME TypeOK, Exclusive, NEW t \in Tasks, Acquire(t)
  PROVE  Exclusive'
<1>1. sem = 1 /\ sem' = 0 /\ \A u \in Tasks : ~Holds(u)
  BY DEF Exclusive, Acquire, Down
<1>2. call'[t].pc = "body" /\ \A u \in Tasks \ {t} : call'[u] = call[u]
  <2>1. [call[t] EXCEPT !.pc = "body"].pc = "body"
    BY DEF TypeOK, CallType
  <2> QED BY <2>1, Moves DEF Acquire
<1> QED BY <1>1, <1>2 DEF Exclusive, Holds

\* A critical section ends with the call on its way out and the semaphore up.
LEMMA SectionEnds ==
  ASSUME TypeOK, NEW t \in Tasks,
         \/ TrimQset(t) \/ ReadPastEnd(t) \/ ReadHole(t) \/ ReadBytes(t)
         \/ WriteNoMem(t) \/ WriteBytes(t)
  PROVE  /\ call[t].pc \in {"body", "trim"}
         /\ call'[t].pc = "ret"
         /\ \A u \in Tasks \ {t} : call'[u] = call[u]
         /\ sem' = sem + 1
<1>1. PICK v, n, b : Finish(t, v, n, b)
  BY DEF TrimQset, ReadPastEnd, ReadHole, ReadBytes, WriteNoMem, WriteBytes
<1>2. call[t].pc \in {"body", "trim"}
  BY DEF TrimQset, ReadPastEnd, ReadHole, ReadBytes, WriteNoMem, WriteBytes,
     InSection
<1>3. [call[t] EXCEPT !.pc = "ret", !.val = v, !.buf = b,
                      !.pos = call[t].pos + n].pc = "ret"
  BY DEF TypeOK, CallType
<1> QED BY <1>1, <1>2, <1>3, Moves DEF Finish, Up

LEMMA ExclusiveRelease ==
  ASSUME TypeOK, Exclusive, NEW t \in Tasks,
         call[t].pc \in {"body", "trim"}, call'[t].pc = "ret",
         \A u \in Tasks \ {t} : call'[u] = call[u],
         sem' = sem + 1
  PROVE  Exclusive'
<1>1. sem = 0 /\ \A u \in Tasks : Holds(u) => u = t
  BY DEF Exclusive, Holds
<1>2. \A u \in Tasks : ~Holds(u)'
  BY <1>1 DEF Holds
<1> QED BY <1>1, <1>2 DEF Exclusive

LEMMA ExclusiveStep == TypeOK /\ Exclusive /\ [Next]_vars => Exclusive'
<1> SUFFICES ASSUME TypeOK, Exclusive, [Next]_vars PROVE Exclusive'
  OBVIOUS
<1>1. CASE Next
  BY <1>1, DeviceCases, ExclusiveOutside, ExclusiveAcquire, SectionEnds,
     ExclusiveRelease
<1>2. CASE UNCHANGED vars
  BY <1>2, ExclusiveOutside DEF vars
<1> QED BY <1>1, <1>2

\* The semaphore of the device excludes: at most one call is in a critical
\* section, and the semaphore is free exactly when none is.
THEOREM MutualExclusion == Spec => []Exclusive
<1>1. Init => Exclusive
  BY DEF Init, DevInit, NoCall, Exclusive, Holds
<1> QED BY <1>1, ExclusiveStep, TypeCorrect, PTL DEF Spec

-----------------------------------------------------------------------------
(***************************************************************************)
(* The device's memory.  SoundUnlessRaced is inductive together with the   *)
(* types, mutual exclusion and the fact that the list stays empty between  *)
(* the two stores of scull_trim (TrimEmpty): the second store changes the  *)
(* array size the layout is described with.                                *)
(***************************************************************************)
Sound == LayoutCurrent /\ SizeBacked /\ HeapSafe

LEMMA GeometryType ==
  ASSUME TypeOK
  PROVE  Itemsize(Geometry) = quantum * qset /\ Itemsize(Geometry) \in Nat
BY DEF TypeOK, Itemsize, Geometry

\* With the device's own geometry no access leaves its array or quantum.
LEMMA NoOverrun ==
  ASSUME TypeOK, LayoutCurrent, NEW t \in Tasks, ~Stale(call[t]),
         Itemsize(call[t]) # 0, NEW n \in Nat,
         QPos(call[t], call[t].pos) + n <= call[t].quantum
  PROVE  ~Overruns(call[t], n)
<1> DEFINE c == call[t]
<1>1. c.quantum \in Nat /\ c.qset \in Nat /\ c.pos \in Nat
  BY CallLocals
<1>2. /\ SPos(c, c.pos) \in Nat /\ SPos(c, c.pos) < c.qset
      /\ QPos(c, c.pos) \in Nat /\ Item(c, c.pos) \in Nat
  BY <1>1, PlaceOfPosition
<1>3. c.quantum = quantum /\ c.qset = qset
  BY DEF Stale
<1>4. Item(c, c.pos) \in DOMAIN arr => arr[Item(c, c.pos)] > SPos(c, c.pos)
  BY <1>1, <1>2, <1>3 DEF LayoutCurrent
<1>5. Cell(c, c.pos) \in DOMAIN quanta =>
        DOMAIN quanta[Cell(c, c.pos)] = 0 .. c.quantum - 1
  BY <1>3 DEF LayoutCurrent
<1>6. \A i \in 0 .. n - 1 : QPos(c, c.pos) + i \in 0 .. c.quantum - 1
  BY <1>1, <1>2
<1>7. ~(Item(c, c.pos) \in DOMAIN arr /\ arr[Item(c, c.pos)] <= SPos(c, c.pos))
  <2> SUFFICES ASSUME Item(c, c.pos) \in DOMAIN arr
               PROVE  ~(arr[Item(c, c.pos)] <= SPos(c, c.pos))
    OBVIOUS
  <2>1. arr[Item(c, c.pos)] \in Nat
    BY DEF TypeOK
  <2> QED BY <1>2, <1>4, <2>1
<1> QED BY <1>5, <1>6, <1>7 DEF Overruns

\* A longer list backs a size that the shorter one backed.
LEMMA LongerListBacks ==
  ASSUME TypeOK, SizeBacked, UNCHANGED geometry, UNCHANGED size,
         items' \in Nat, items <= items'
  PROVE  SizeBacked'
<1>1. items \in Nat /\ size \in Nat
  BY DEF TypeOK
<1>2. Itemsize(Geometry) \in Nat /\ Itemsize(Geometry)' = Itemsize(Geometry)
  BY GeometryType DEF Itemsize, Geometry, geometry
<1>3. items * Itemsize(Geometry) <= items' * Itemsize(Geometry)
      /\ items * Itemsize(Geometry) \in Nat
  BY <1>1, <1>2, MulMono
<1>4. items' * Itemsize(Geometry) \in Nat
  BY <1>2
<1>5. size <= items * Itemsize(Geometry)
  BY DEF SizeBacked
<1>6. size <= items' * Itemsize(Geometry)
  BY <1>1, <1>3, <1>4, <1>5
<1> QED BY <1>2, <1>6 DEF SizeBacked

\* What Note records: a section that leaves the history clean worked with
\* the device's own geometry.
LEMMA NoteMeaning ==
  ASSUME TypeOK, NEW c, NEW over \in BOOLEAN, Note(c, over)
  PROVE  /\ hist'.raced = (hist.raced \/ Stale(c))
         /\ hist'.overrun = (hist.overrun \/ over)
         /\ hist'.leak = hist.leak
BY DEF TypeOK, Note, Stale

LEMMA SoundTrim ==
  ASSUME TypeOK, IoctlTypeOK, TrimEmpty, SoundUnlessRaced, NEW t \in Tasks,
         TrimFree(t) \/ TrimQset(t)
  PROVE  SoundUnlessRaced'
<1>t. /\ items \in Nat /\ size \in Nat /\ quantum \in Nat /\ qset \in Nat
      /\ hist \in [raced : BOOLEAN, overrun : BOOLEAN, leak : BOOLEAN]
      /\ arr \in [DOMAIN arr -> Nat]
  BY DEF TypeOK
<1>p. param["quantum"] \in Nat /\ param["qset"] \in Nat
  BY NaturalGeometry DEF IoctlTypeOK, Params
<1>1. CASE TrimFree(t)
  <2> SUFFICES ASSUME ~hist'.raced PROVE Sound'
    BY DEF SoundUnlessRaced, Sound
  <2>1. hist'.raced = hist.raced
    BY <1>1, <1>t DEF TrimFree
  <2>2. LayoutCurrent /\ HeapSafe
    BY <2>1 DEF SoundUnlessRaced
  <2>3. /\ ~\E i \in DOMAIN arr : arr[i] < qset
        /\ ~\E x \in DOMAIN quanta : x[2] >= qset
    <3>1. \A x \in DOMAIN quanta : x[2] \in Nat
      BY DEF TypeOK
    <3> QED BY <1>t, <2>2, <3>1 DEF LayoutCurrent
  <2>4. HeapSafe'
    BY <1>1, <1>t, <2>2, <2>3 DEF TrimFree, HeapSafe
  <2>5. LayoutCurrent'
    BY <1>1 DEF TrimFree, LayoutCurrent
  <2>6. SizeBacked'
    <3>1. Itemsize(Geometry)' = quantum' * qset' /\ quantum' \in Nat /\ qset' \in Nat
      BY <1>1, <1>p, <1>t DEF TrimFree, Itemsize, Geometry
    <3>2. size' = 0 /\ items' = 0
      BY <1>1 DEF TrimFree
    <3>3. Itemsize(Geometry)' \in Nat
      BY <3>1, ProductType
    <3> QED BY <3>2, <3>3, ZeroTimes DEF SizeBacked
  <2> QED BY <2>4, <2>5, <2>6 DEF Sound
<1>2. CASE TrimQset(t)
  <2>1. /\ items = 0 /\ size = 0 /\ DOMAIN arr = {} /\ DOMAIN quanta = {}
        /\ UNCHANGED <<items, arr, quanta, quantum, size, hist>>
    BY <1>2 DEF TrimQset, TrimEmpty, storage
  <2>2. LayoutCurrent'
    BY <2>1 DEF LayoutCurrent
  <2>3. SizeBacked'
    <3>1. Itemsize(Geometry)' = quantum' * qset' /\ quantum' \in Nat /\ qset' \in Nat
      BY <1>2, <1>p, <1>t, <2>1 DEF TrimQset, Itemsize, Geometry
    <3>2. Itemsize(Geometry)' \in Nat
      BY <3>1, ProductType
    <3> QED BY <2>1, <3>2, ZeroTimes DEF SizeBacked
  <2> QED BY <2>1, <2>2, <2>3 DEF SoundUnlessRaced, HeapSafe
<1> QED BY <1>1, <1>2

LEMMA SoundOops ==
  ASSUME TypeOK, SoundUnlessRaced, NEW t \in Tasks, Oops(t)
  PROVE  SoundUnlessRaced'
<1> DEFINE c == call[t]
<1>t. /\ qset \in Nat /\ arr \in [DOMAIN arr -> Nat]
      /\ hist \in [raced : BOOLEAN, overrun : BOOLEAN, leak : BOOLEAN]
      /\ c.quantum \in Nat /\ c.qset \in Nat /\ c.pos \in Nat
  BY CallLocals DEF TypeOK
<1>s. UNCHANGED <<storage, geometry, size>>
  BY DEF Oops
<1>1. CASE UNCHANGED hist
  BY <1>1, <1>s DEF SoundUnlessRaced, LayoutCurrent, SizeBacked, HeapSafe,
     Itemsize, Geometry, storage, geometry
<1>2. CASE /\ Itemsize(c) # 0
           /\ \E count \in Counts : Overruns(c, Span(c, c.pos, count)) /\ Note(c, TRUE)
  <2>1. PICK count \in Counts : Overruns(c, Span(c, c.pos, count)) /\ Note(c, TRUE)
    BY <1>2
  <2>2. /\ Span(c, c.pos, count) \in Nat
        /\ QPos(c, c.pos) + Span(c, c.pos, count) <= c.quantum
    BY <1>2, <1>t, SpanBound, DeviceConstants
  <2>3. LayoutCurrent => Stale(c)
    BY <1>2, <2>1, <2>2, NoOverrun
  <2>4. hist'.raced
    BY <2>1, <2>3, NoteMeaning DEF SoundUnlessRaced
  <2> QED BY <2>4 DEF SoundUnlessRaced
<1>3. CASE /\ \E i \in DOMAIN arr : arr[i] < qset
           /\ hist' = [hist EXCEPT !.overrun = TRUE]
  <2>1. ~LayoutCurrent
    BY <1>3, <1>t DEF LayoutCurrent
  <2>2. hist.raced /\ hist'.raced = hist.raced
    BY <1>3, <1>t, <2>1 DEF SoundUnlessRaced
  <2> QED BY <2>2 DEF SoundUnlessRaced
<1> QED BY <1>1, <1>2, <1>3 DEF Oops

\* The reads: at most the list grows.
LEMMA SoundRead ==
  ASSUME TypeOK, SoundUnlessRaced, NEW t \in Tasks,
         ReadHole(t) \/ ReadBytes(t)
  PROVE  SoundUnlessRaced'
<1> DEFINE c == call[t]
<1>t. /\ items \in Nat /\ size \in Nat
      /\ c.quantum \in Nat /\ c.qset \in Nat /\ c.pos \in Nat
  BY CallLocals DEF TypeOK
<1>u. Itemsize(c) # 0 /\ UNCHANGED <<arr, quanta, geometry, size>>
  BY DEF ReadHole, ReadBytes
<1>g. Item(c, c.pos) \in Nat /\ QPos(c, c.pos) \in Nat /\ QPos(c, c.pos) < c.quantum
  BY <1>t, <1>u, PlaceOfPosition
<1>1. items' \in Nat /\ items <= items'
  BY <1>t, <1>g, FollowGrows DEF ReadHole, ReadBytes
<1>2. \E n \in Nat : /\ QPos(c, c.pos) + n <= c.quantum
                     /\ Note(c, Overruns(c, n))
  <2>1. CASE ReadHole(t)
    <3>1. QPos(c, c.pos) + 0 <= c.quantum /\ 0 \in Nat
      BY <1>t, <1>g
    <3> QED BY <2>1, <3>1 DEF ReadHole
  <2>2. CASE ReadBytes(t)
    <3>1. PICK count \in Counts :
            Note(c, Overruns(c, Span(c, c.pos,
                       IF c.pos + count > size THEN size - c.pos ELSE count)))
      BY <2>2 DEF ReadBytes
    <3> DEFINE left == IF c.pos + count > size THEN size - c.pos ELSE count
    <3>2. left \in Nat
      <4>1. count \in Nat /\ c.pos < size
        BY <2>2, DeviceConstants DEF ReadBytes
      <4> HIDE DEF c
      <4> QED BY <4>1, <1>t
    <3>3. Note(c, Overruns(c, Span(c, c.pos, left)))
      BY <3>1
    <3> HIDE DEF left
    <3>4. /\ Span(c, c.pos, left) \in Nat
          /\ QPos(c, c.pos) + Span(c, c.pos, left) <= c.quantum
      BY <1>t, <1>u, <3>2, SpanBound
    <3> QED BY <3>3, <3>4
  <2> QED BY <2>1, <2>2
<1>3. PICK n \in Nat : /\ QPos(c, c.pos) + n <= c.quantum
                      /\ Note(c, Overruns(c, n))
  BY <1>2
<1>4. SUFFICES ASSUME ~hist'.raced PROVE Sound'
  BY DEF SoundUnlessRaced, Sound
<1>5. Overruns(c, n) \in BOOLEAN
  BY DEF Overruns
<1>6. ~hist.raced /\ ~Stale(c)
  BY <1>3, <1>4, <1>5, NoteMeaning
<1>7. LayoutCurrent /\ SizeBacked /\ HeapSafe
  BY <1>6 DEF SoundUnlessRaced
<1>8. ~Overruns(c, n)
  BY <1>3, <1>6, <1>7, <1>u, NoOverrun
<1>9. HeapSafe'
  BY <1>3, <1>5, <1>7, <1>8, NoteMeaning DEF HeapSafe
<1>10. LayoutCurrent'
  BY <1>7, <1>u DEF LayoutCurrent, geometry
<1>11. SizeBacked'
  BY <1>1, <1>7, <1>u, LongerListBacks
<1> QED BY <1>9, <1>10, <1>11 DEF Sound

\* The writes: what they allocate has the geometry of the call, which is
\* the device's unless the history says otherwise.
LEMMA SoundWrite ==
  ASSUME TypeOK, SoundUnlessRaced, NEW t \in Tasks,
         WriteNoMem(t) \/ WriteBytes(t)
  PROVE  SoundUnlessRaced'
<1> DEFINE c == call[t]
           item == Item(c, c.pos)
           cell == Cell(c, c.pos)
<1>t. /\ items \in Nat /\ size \in Nat /\ quantum \in Nat /\ qset \in Nat
      /\ c.quantum \in Nat /\ c.qset \in Nat /\ c.pos \in Nat
  BY CallLocals DEF TypeOK
<1>u. Itemsize(c) # 0 /\ UNCHANGED geometry
  BY DEF WriteNoMem, WriteBytes
<1>g. /\ item \in Nat /\ Itemsize(c) \in Nat
      /\ SPos(c, c.pos) \in Nat /\ SPos(c, c.pos) < c.qset
      /\ QPos(c, c.pos) \in Nat /\ QPos(c, c.pos) < c.quantum
      /\ c.pos + (c.quantum - QPos(c, c.pos)) <= (item + 1) * Itemsize(c)
  BY <1>t, <1>u, PlaceOfPosition
<1>1. items' \in Nat /\ items <= items'
  BY <1>t, <1>g, FollowGrows DEF WriteNoMem, WriteBytes
<1>a. arr' = arr \/ (item \notin DOMAIN arr /\ arr' = Put(arr, item, c.qset))
  BY DEF WriteNoMem, WriteBytes, ArrayFor
<1>2. \E n \in Nat :
        /\ QPos(c, c.pos) + n <= c.quantum
        /\ Note(c, Overruns(c, n))
        /\ \/ UNCHANGED <<quanta, size>>
           \/ /\ \E q : /\ DOMAIN q = DOMAIN QuantumFor(c)
                         /\ quanta' = Put(quanta, cell, q)
              /\ UNCHANGED size \/ (Grow(c.pos + n) /\ item < items')
  <2>1. CASE WriteNoMem(t)
    <3>1. QPos(c, c.pos) + 0 <= c.quantum /\ 0 \in Nat
      BY <1>t, <1>g
    <3> QED BY <2>1, <3>1 DEF WriteNoMem
  <2>2. CASE WriteBytes(t)
    <3>1. PICK count \in Counts, b \in Bytes :
            LET n == Span(c, c.pos, count) IN
            /\ Note(c, Overruns(c, n))
            /\ \E m \in 0 .. n :
                 /\ quanta' = Put(quanta, cell,
                                  CopyIn(QuantumFor(c), QPos(c, c.pos), n, m, b))
                 /\ \/ m = n /\ Grow(c.pos + n) /\ Finish(t, n, n, <<>>)
                    \/ m < n /\ Faulty /\ UNCHANGED size
                       /\ Finish(t, -EFAULT, 0, <<>>)
      BY <2>2 DEF WriteBytes
    <3> DEFINE n == Span(c, c.pos, count)
    <3>2. n \in Nat /\ QPos(c, c.pos) + n <= c.quantum
      BY <1>t, <1>u, DeviceConstants, SpanBound
    <3>3. item < items'
      BY <2>2, <1>g, <1>1 DEF WriteBytes
    <3>4. \E q : /\ DOMAIN q = DOMAIN QuantumFor(c)
                 /\ quanta' = Put(quanta, cell, q)
      <4>1. PICK m : quanta' = Put(quanta, cell,
                                   CopyIn(QuantumFor(c), QPos(c, c.pos), n, m, b))
        BY <3>1
      <4>2. DOMAIN CopyIn(QuantumFor(c), QPos(c, c.pos), n, m, b)
              = DOMAIN QuantumFor(c)
        BY DEF CopyIn
      <4> QED BY <4>1, <4>2
    <3>5. Note(c, Overruns(c, n)) /\ (UNCHANGED size \/ Grow(c.pos + n))
      BY <3>1
    <3> HIDE DEF n
    <3> QED BY <3>2, <3>3, <3>4, <3>5
  <2> QED BY <2>1, <2>2
<1>3. PICK n \in Nat :
        /\ QPos(c, c.pos) + n <= c.quantum
        /\ Note(c, Overruns(c, n))
        /\ \/ UNCHANGED <<quanta, size>>
           \/ /\ \E q : /\ DOMAIN q = DOMAIN QuantumFor(c)
                         /\ quanta' = Put(quanta, cell, q)
              /\ UNCHANGED size \/ (Grow(c.pos + n) /\ item < items')
  BY <1>2
<1>4. SUFFICES ASSUME ~hist'.raced PROVE Sound'
  BY DEF SoundUnlessRaced, Sound
<1>5. Overruns(c, n) \in BOOLEAN
  BY DEF Overruns
<1>6. ~hist.raced /\ ~Stale(c)
  BY <1>3, <1>4, <1>5, NoteMeaning
<1>7. LayoutCurrent /\ SizeBacked /\ HeapSafe
  BY <1>6 DEF SoundUnlessRaced
<1>8. c.quantum = quantum /\ c.qset = qset
  BY <1>6 DEF Stale
<1>9. ~Overruns(c, n)
  BY <1>3, <1>6, <1>7, <1>u, NoOverrun
<1>10. HeapSafe'
  BY <1>3, <1>5, <1>7, <1>9, NoteMeaning DEF HeapSafe
<1>11. LayoutCurrent'
  <2>1. quantum' = quantum /\ qset' = qset
    BY <1>u DEF geometry
  <2>2. \A i \in DOMAIN arr' : arr'[i] = qset
    BY <1>a, <1>7, <1>8 DEF LayoutCurrent, Put
  <2>3. DOMAIN QuantumFor(c) = 0 .. quantum - 1
    BY <1>7, <1>8 DEF QuantumFor, LayoutCurrent
  <2>4. cell[2] < qset
    BY <1>g, <1>8 DEF Cell
  <2>5. \A x \in DOMAIN quanta' : x[2] < qset /\ DOMAIN quanta'[x] = 0 .. quantum - 1
    <3>1. CASE UNCHANGED quanta
      BY <3>1, <1>7 DEF LayoutCurrent
    <3>2. CASE \E q : /\ DOMAIN q = DOMAIN QuantumFor(c)
                      /\ quanta' = Put(quanta, cell, q)
      <4>1. PICK q : /\ DOMAIN q = DOMAIN QuantumFor(c)
                     /\ quanta' = Put(quanta, cell, q)
        BY <3>2
      <4>2. /\ DOMAIN quanta' = DOMAIN quanta \cup {cell}
            /\ quanta'[cell] = q
            /\ \A x \in DOMAIN quanta : x # cell => quanta'[x] = quanta[x]
        BY <4>1 DEF Put
      <4> HIDE DEF cell
      <4> QED BY <4>1, <4>2, <2>3, <2>4, <1>7 DEF LayoutCurrent
    <3> QED BY <1>3, <3>1, <3>2
  <2> QED BY <2>1, <2>2, <2>5 DEF LayoutCurrent
<1>12. SizeBacked'
  <2>1. CASE UNCHANGED size
    BY <1>1, <1>7, <1>u, <2>1, LongerListBacks
  <2>2. CASE Grow(c.pos + n) /\ item < items'
    <3>1. Itemsize(Geometry)' = Itemsize(c) /\ Itemsize(Geometry) = Itemsize(c)
      BY <1>u, <1>8 DEF Itemsize, Geometry, geometry
    <3>2. (item + 1) * Itemsize(c) <= items' * Itemsize(c)
      BY <1>g, <1>1, <2>2, MulMono
    <3>3. items * Itemsize(c) <= items' * Itemsize(c)
      BY <1>t, <1>g, <1>1, MulMono
    <3>4. /\ (item + 1) * Itemsize(c) \in Nat
          /\ items' * Itemsize(c) \in Nat /\ items * Itemsize(c) \in Nat
      BY <1>t, <1>g, <1>1, ProductType
    <3>5. c.pos + n <= c.pos + (c.quantum - QPos(c, c.pos))
      BY <1>3, <1>t, <1>g
    <3>6. c.pos + n <= items' * Itemsize(c)
      BY <1>t, <1>g, <1>3, <3>2, <3>4, <3>5
    <3>7. size <= items' * Itemsize(c)
      BY <1>7, <1>t, <3>1, <3>3, <3>4 DEF SizeBacked
    <3>8. size' <= items' * Itemsize(c)
      BY <2>2, <3>6, <3>7 DEF Grow
    <3> QED BY <3>1, <3>8 DEF SizeBacked
  <2> QED BY <1>3, <2>1, <2>2
<1> QED BY <1>10, <1>11, <1>12 DEF Sound

LEMMA SoundStep ==
  TypeOK /\ IoctlTypeOK /\ TrimEmpty /\ SoundUnlessRaced /\ [Next]_vars
    => SoundUnlessRaced'
<1> SUFFICES ASSUME TypeOK, IoctlTypeOK, TrimEmpty, SoundUnlessRaced, [Next]_vars
             PROVE  SoundUnlessRaced'
  OBVIOUS
<1>u. ASSUME UNCHANGED <<storage, geometry, size, hist>>
      PROVE  SoundUnlessRaced'
  BY <1>u DEF SoundUnlessRaced, LayoutCurrent, SizeBacked, HeapSafe,
     Itemsize, Geometry, storage, geometry
<1>1. CASE UNCHANGED vars
  BY <1>1, <1>u DEF vars, devVars
<1>2. CASE Next
  <2>1. ASSUME NEW t \in Tasks, NEW f \in Files,
               \/ \E m : Open(t, f, m)
               \/ \E op : LoadGeometry(t, op, f)
        PROVE  SoundUnlessRaced'
    BY <2>1, <1>u DEF Open, LoadGeometry
  <2>2. ASSUME NEW t \in Tasks, NEW f \in Files, NEW whence, NEW off,
               Llseek(t, f, whence, off)
        PROVE  SoundUnlessRaced'
    BY <2>2, <1>u DEF Llseek
  <2>3. ASSUME NEW t \in Tasks,
               LoadGeometry2(t) \/ Acquire(t) \/ Interrupted(t)
               \/ ReadPastEnd(t) \/ Return(t)
        PROVE  SoundUnlessRaced'
    BY <2>3, <1>u DEF LoadGeometry2, Acquire, Interrupted, ReadPastEnd, Return
  <2>4. ASSUME NEW f \in Files, Release(f) PROVE SoundUnlessRaced'
    BY <2>4, <1>u DEF Release
  <2>5. ASSUME UNCHANGED devVars PROVE SoundUnlessRaced'
    BY <2>5, <1>u DEF devVars
  <2> QED
    BY <1>2, <2>1, <2>2, <2>3, <2>4, <2>5, DeviceCases, SoundTrim, SoundOops,
       SoundRead, SoundWrite
<1> QED BY <1>1, <1>2

LEMMA TrimEmptyStep ==
  TypeOK /\ Exclusive /\ TrimEmpty /\ [Next]_vars => TrimEmpty'
<1> SUFFICES ASSUME TypeOK, Exclusive, TrimEmpty, [Next]_vars,
                    NEW u \in Tasks, call'[u].pc = "trim"
             PROVE  (items = 0 /\ size = 0 /\ DOMAIN arr = {} /\ DOMAIN quanta = {})'
  BY DEF TrimEmpty
<1> DEFINE Empty == items = 0 /\ size = 0 /\ DOMAIN arr = {} /\ DOMAIN quanta = {}
<1>k. ASSUME UNCHANGED <<storage, size>>, call[u].pc = "trim" PROVE Empty'
  BY <1>k DEF TrimEmpty, storage
<1>m. ASSUME NEW t \in Tasks, NEW c, Becomes(t, c), c.pc # "trim",
             UNCHANGED <<storage, size>>
      PROVE  Empty'
  BY <1>m, <1>k, Moves
<1>t. \A t \in Tasks : call[t] \in CallType
  BY DEF TypeOK
<1>1. CASE UNCHANGED vars
  BY <1>1, <1>k DEF vars, devVars
<1>2. CASE Next
  <2>1. ASSUME NEW t \in Tasks, NEW f \in Files, NEW m, Open(t, f, m)
        PROVE  Empty'
    <3>1. [NoCall EXCEPT !.pc = "down", !.op = "open", !.file = f].pc # "trim"
      BY DEF NoCall
    <3> QED BY <2>1, <1>k, <1>m, <3>1 DEF Open
  <2>2. ASSUME NEW t \in Tasks, NEW f \in Files, NEW op, LoadGeometry(t, op, f)
        PROVE  Empty'
    <3>1. [NoCall EXCEPT !.pc = "qset", !.op = op, !.file = f,
                         !.quantum = quantum, !.pos = file[f].pos].pc # "trim"
      BY DEF NoCall
    <3> QED BY <2>2, <1>m, <3>1 DEF LoadGeometry
  <2>3. ASSUME NEW t \in Tasks, NEW f \in Files, NEW whence, NEW off,
               Llseek(t, f, whence, off)
        PROVE  Empty'
    <3>1. PICK v, p : Becomes(t, [NoCall EXCEPT !.pc = "ret", !.op = "llseek",
                                                !.file = f, !.val = v, !.pos = p])
      BY <2>3 DEF Llseek
    <3>2. [NoCall EXCEPT !.pc = "ret", !.op = "llseek",
                         !.file = f, !.val = v, !.pos = p].pc # "trim"
      BY DEF NoCall
    <3> QED BY <2>3, <1>m, <3>1, <3>2 DEF Llseek
  <2>4. ASSUME NEW t \in Tasks, LoadGeometry2(t) PROVE Empty'
    <3>1. [call[t] EXCEPT !.pc = "down", !.qset = qset].pc # "trim"
      BY <1>t DEF CallType
    <3> QED BY <2>4, <1>m, <3>1 DEF LoadGeometry2
  <2>5. ASSUME NEW t \in Tasks, Acquire(t) PROVE Empty'
    <3>1. [call[t] EXCEPT !.pc = "body"].pc # "trim"
      BY <1>t DEF CallType
    <3> QED BY <2>5, <1>m, <3>1 DEF Acquire
  <2>6. ASSUME NEW t \in Tasks, Interrupted(t) PROVE Empty'
    <3>1. [call[t] EXCEPT !.pc = "ret", !.val = -ERESTARTSYS].pc # "trim"
      BY <1>t DEF CallType
    <3> QED BY <2>6, <1>m, <3>1 DEF Interrupted
  <2>7. ASSUME NEW t \in Tasks, Oops(t) PROVE Empty'
    <3>1. [call[t] EXCEPT !.pc = "dead"].pc # "trim"
      BY <1>t DEF CallType
    <3> QED BY <2>7, <1>m, <3>1 DEF Oops
  <2>8. ASSUME NEW t \in Tasks, Return(t) PROVE Empty'
    BY <2>8, <1>m, NoCallType DEF Return
  <2>9. ASSUME NEW f \in Files, Release(f) PROVE Empty'
    BY <2>9, <1>k DEF Release
  <2>10. ASSUME UNCHANGED devVars PROVE Empty'
    BY <2>10, <1>k DEF devVars
  <2>11. ASSUME NEW t \in Tasks, TrimFree(t) PROVE Empty'
    BY <2>11 DEF TrimFree
  <2>12. ASSUME NEW t \in Tasks,
                \/ TrimQset(t) \/ ReadPastEnd(t) \/ ReadHole(t) \/ ReadBytes(t)
                \/ WriteNoMem(t) \/ WriteBytes(t)
         PROVE  Empty'
    <3>1. /\ call[t].pc \in {"body", "trim"} /\ call'[t].pc = "ret"
          /\ \A w \in Tasks \ {t} : call'[w] = call[w]
      BY <2>12, SectionEnds
    <3>2. u # t /\ call[u].pc = "trim"
      BY <3>1
    <3>3. Holds(u) /\ Holds(t)
      BY <3>1, <3>2 DEF Holds
    <3> QED BY <3>2, <3>3 DEF Exclusive
  <2> QED
    BY <1>2, DeviceCases, <2>1, <2>2, <2>3, <2>4, <2>5, <2>6, <2>7, <2>8, <2>9,
       <2>10, <2>11, <2>12
<1> QED BY <1>1, <1>2

\* For every geometry, every set of tasks and every interleaving: unless a
\* critical section has run with a geometry read before a trim changed it,
\* the arrays and quanta of the device have the sizes its fields say, the
\* list reaches the end of the file, and no access left its allocation.
THEOREM SoundUnlessRacedHolds == Spec => []SoundUnlessRaced
<1>1. Init => TrimEmpty
  <2> SUFFICES ASSUME Init, NEW t \in Tasks PROVE call[t].pc # "trim"
    BY DEF TrimEmpty
  <2> QED BY DEF Init, DevInit, NoCall
<1>2. Init => SoundUnlessRaced
  <2> SUFFICES ASSUME Init PROVE Sound
    BY DEF SoundUnlessRaced, Sound
  <2>1. HeapSafe /\ LayoutCurrent
    BY DEF Init, DevInit, HeapSafe, LayoutCurrent
  <2>2. Itemsize(Geometry) \in Nat
    BY TypeInit, GeometryType
  <2>3. SizeBacked
    BY <2>2, ZeroTimes DEF Init, DevInit, SizeBacked
  <2> QED BY <2>1, <2>3 DEF Sound
<1> QED
  BY <1>1, <1>2, SoundStep, TrimEmptyStep, TypeCorrect, MutualExclusion,
     DeviceImplementsIoctl, IoctlTypeCorrect, PTL DEF Spec

-----------------------------------------------------------------------------
(* What a task dies of.                                                    *)

\* The race is not forgotten, and a task dies of it or of a zero itemsize.
LEMMA DyingStep ==
  ASSUME TypeOK, SoundUnlessRaced, NEW t \in Tasks, Oops(t)
  PROVE  /\ hist.raced => hist'.raced
         /\ \A u \in Tasks \ {t} : call'[u] = call[u]
         /\ \/ hist'.raced
            \/ call'[t].op \in {"read", "write"} /\ Itemsize(call'[t]) = 0
<1>t. /\ call[t] \in CallType
      /\ hist \in [raced : BOOLEAN, overrun : BOOLEAN, leak : BOOLEAN]
  BY DEF TypeOK
<1>1. /\ call'[t] = [call[t] EXCEPT !.pc = "dead"]
      /\ \A u \in Tasks \ {t} : call'[u] = call[u]
  BY Moves DEF Oops
<1>2. CASE UNCHANGED hist /\ call[t].op \in {"read", "write"} /\ Itemsize(call[t]) = 0
  BY <1>1, <1>2, <1>t DEF Itemsize, CallType
<1>3. CASE hist'.overrun
  <2>1. hist'.raced
    BY <1>3, SoundOops DEF SoundUnlessRaced, HeapSafe
  <2> QED BY <1>1, <2>1
<1>4. (UNCHANGED hist /\ call[t].op \in {"read", "write"} /\ Itemsize(call[t]) = 0)
      \/ hist'.overrun
  <2>1. ASSUME Note(call[t], TRUE) PROVE hist'.overrun
    BY <2>1, NoteMeaning
  <2>2. ASSUME hist' = [hist EXCEPT !.overrun = TRUE] PROVE hist'.overrun
    BY <2>2, <1>t
  <2> QED BY <2>1, <2>2 DEF Oops
<1> QED BY <1>2, <1>3, <1>4

LEMMA DeadStep ==
  TypeOK /\ SoundUnlessRaced /\ DeadOnlyOfZero /\ [Next]_vars => DeadOnlyOfZero'
<1> SUFFICES ASSUME TypeOK, SoundUnlessRaced, DeadOnlyOfZero, [Next]_vars,
                    NEW u \in Tasks, call'[u].pc = "dead", ~hist'.raced
             PROVE  call'[u].op \in {"read", "write"} /\ Itemsize(call'[u]) = 0
  BY DEF DeadOnlyOfZero
<1> DEFINE Zeroed == call'[u].op \in {"read", "write"} /\ Itemsize(call'[u]) = 0
<1>t. /\ \A t \in Tasks : call[t] \in CallType
      /\ hist \in [raced : BOOLEAN, overrun : BOOLEAN, leak : BOOLEAN]
  BY DEF TypeOK
<1>k. ASSUME call'[u] = call[u], hist.raced => hist'.raced PROVE Zeroed
  BY <1>k DEF DeadOnlyOfZero
<1>m. ASSUME NEW t \in Tasks, NEW c, Becomes(t, c), c.pc # "dead",
             hist.raced => hist'.raced
      PROVE  Zeroed
  BY <1>m, <1>k, Moves
<1>n. ASSUME NEW c, NEW over, Note(c, over) PROVE hist.raced => hist'.raced
  BY <1>n, <1>t DEF Note
<1>1. CASE UNCHANGED vars
  BY <1>1, <1>k DEF vars, devVars
<1>2. CASE Next
  <2>1. ASSUME NEW t \in Tasks, NEW f \in Files, NEW m, Open(t, f, m)
        PROVE  Zeroed
    <3>1. [NoCall EXCEPT !.pc = "down", !.op = "open", !.file = f].pc # "dead"
      BY DEF NoCall
    <3> QED BY <2>1, <1>k, <1>m, <3>1 DEF Open
  <2>2. ASSUME NEW t \in Tasks, NEW f \in Files, NEW op, LoadGeometry(t, op, f)
        PROVE  Zeroed
    <3>1. [NoCall EXCEPT !.pc = "qset", !.op = op, !.file = f,
                         !.quantum = quantum, !.pos = file[f].pos].pc # "dead"
      BY DEF NoCall
    <3> QED BY <2>2, <1>m, <3>1 DEF LoadGeometry
  <2>3. ASSUME NEW t \in Tasks, NEW f \in Files, NEW whence, NEW off,
               Llseek(t, f, whence, off)
        PROVE  Zeroed
    <3>1. PICK v, p : Becomes(t, [NoCall EXCEPT !.pc = "ret", !.op = "llseek",
                                                !.file = f, !.val = v, !.pos = p])
      BY <2>3 DEF Llseek
    <3>2. [NoCall EXCEPT !.pc = "ret", !.op = "llseek",
                         !.file = f, !.val = v, !.pos = p].pc # "dead"
      BY DEF NoCall
    <3> QED BY <2>3, <1>m, <3>1, <3>2 DEF Llseek
  <2>4. ASSUME NEW t \in Tasks, LoadGeometry2(t) PROVE Zeroed
    <3>1. [call[t] EXCEPT !.pc = "down", !.qset = qset].pc # "dead"
      BY <1>t DEF CallType
    <3> QED BY <2>4, <1>m, <3>1 DEF LoadGeometry2
  <2>5. ASSUME NEW t \in Tasks, Acquire(t) PROVE Zeroed
    <3>1. [call[t] EXCEPT !.pc = "body"].pc # "dead"
      BY <1>t DEF CallType
    <3> QED BY <2>5, <1>m, <3>1 DEF Acquire
  <2>6. ASSUME NEW t \in Tasks, Interrupted(t) PROVE Zeroed
    <3>1. [call[t] EXCEPT !.pc = "ret", !.val = -ERESTARTSYS].pc # "dead"
      BY <1>t DEF CallType
    <3> QED BY <2>6, <1>m, <3>1 DEF Interrupted
  <2>7. ASSUME NEW t \in Tasks, Oops(t) PROVE Zeroed
    BY <2>7, <1>k, DyingStep
  <2>8. ASSUME NEW t \in Tasks, Return(t) PROVE Zeroed
    BY <2>8, <1>m, NoCallType DEF Return
  <2>9. ASSUME NEW f \in Files, Release(f) PROVE Zeroed
    BY <2>9, <1>k DEF Release
  <2>10. ASSUME UNCHANGED devVars PROVE Zeroed
    BY <2>10, <1>k DEF devVars
  <2>11. ASSUME NEW t \in Tasks, TrimFree(t) PROVE Zeroed
    <3>1. [call[t] EXCEPT !.pc = "trim"].pc # "dead"
      BY <1>t DEF CallType
    <3>2. hist.raced => hist'.raced
      BY <2>11, <1>t DEF TrimFree
    <3> QED BY <2>11, <1>m, <3>1, <3>2 DEF TrimFree
  <2>12. ASSUME NEW t \in Tasks,
                \/ TrimQset(t) \/ ReadPastEnd(t) \/ ReadHole(t) \/ ReadBytes(t)
                \/ WriteNoMem(t) \/ WriteBytes(t)
         PROVE  Zeroed
    <3>1. /\ call'[t].pc = "ret"
          /\ \A w \in Tasks \ {t} : call'[w] = call[w]
      BY <2>12, SectionEnds
    <3>2. hist.raced => hist'.raced
      BY <2>12, <1>n DEF TrimQset, ReadPastEnd, ReadHole, ReadBytes, WriteNoMem,
         WriteBytes
    <3> QED BY <3>1, <3>2, <1>k
  <2> QED
    BY <1>2, DeviceCases, <2>1, <2>2, <2>3, <2>4, <2>5, <2>6, <2>7, <2>8, <2>9,
       <2>10, <2>11, <2>12
<1> QED BY <1>1, <1>2

(***************************************************************************)
(* Until the race on the geometry, a task dies in scull_read or            *)
(* scull_write only, and of the zero quantum or qset that its call loaded, *)
(* for any number of tasks and any geometry.                               *)
(***************************************************************************)
THEOREM DeadOnlyOfZeroHolds == Spec => []DeadOnlyOfZero
<1>1. Init => DeadOnlyOfZero
  BY DEF Init, DevInit, NoCall, DeadOnlyOfZero
<1> QED
  BY <1>1, DeadStep, SoundUnlessRacedHolds, TypeCorrect, PTL DEF Spec
=============================================================================
