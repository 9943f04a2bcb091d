------------------------- MODULE ScullModuleProofs --------------------------
(***************************************************************************)
(* Proofs about ScullModule, for any number of devices and of open files.  *)
(* The argument: a user holds an open file, an open file keeps the module  *)
(* from going, and init and cleanup visit the devices in order; so when    *)
(* the cleanup trims a device, nobody is there.  In a build with the proc  *)
(* files a reader may be, but never outside the life of those files.       *)
(***************************************************************************)
EXTENDS ScullModule, TLAPS

(***************************************************************************)
(* The inductive invariant: the module's own (ModuleInv, ReadsSound) with  *)
(* the safety properties that are needed to carry it from step to step.    *)
(***************************************************************************)
LifeInv == ModuleInv /\ UsersNeedDevice

ReaderSound(x) ==
  /\ Settled(x)
  /\ x.file = "scullseq" /\ x.list \in {"freed", "oops"} => mod = "exit"
  /\ x.len <= Limit + 1 + Slots

AllSound == \A r \in Readers : ReaderSound(rd[r])

IInv == LifeInv /\ AllSound

\* The start: nothing is loaded.
LEMMA LifeInvInit == Init => LifeInv
<1> SUFFICES ASSUME Init PROVE LifeInv
    OBVIOUS
<1>1. ModuleTypeOK
  <2>1. Blank \in DevType
        BY ModuleConstants DEF Blank, DevType
  <2>2. dev \in [Devs -> DevType]
        BY <2>1 DEF Init
  <2>3. next \in 0 .. NrDevs
        BY ProcConstants DEF Init
  <2>5. rd \in [Readers -> RdType] /\ entry \subseteq ProcFiles
        BY ProcConstants DEF Init, NoRead, RdType
  <2>4. region \in BOOLEAN /\ devices \in BOOLEAN /\ debug \in BOOLEAN
        BY DEF Init
  <2> QED BY <2>2, <2>3, <2>4, <2>5 DEF Init, ModuleTypeOK, DevType, RdType
<1>2. UsersNeedDevice /\ Progress /\ NobodyLeft /\ Inside /\ InProc
      BY ProcConstants, ModuleConstants
      DEF Init, UsersNeedDevice, Progress, NobodyLeft, Inside, InProc, Walks, Held,
          Blank, NoRead, Devs
<1> QED BY <1>1, <1>2 DEF LifeInv, ModuleInv

(***************************************************************************)
(* What a reader may become (x) so that it fits the state it is in.        *)
(***************************************************************************)
Fits(x) ==
  /\ x \in RdType
  /\ x.pc = "idle" => x.list = "null"
  /\ x.pc # "idle" => debug /\ mod \in {"in", "exit"} /\ x.file \in ProcFiles
  /\ x.pc \in {"down", "walk"} \/ x.list = "list" => x.pos < NrDevs
  /\ x.list = "list" /\ devices => dev[x.pos].mem

\* What the readers have of a list that is freed.
LEMMA Freed ==
  ASSUME ModuleTypeOK, NEW i \in Devs, Invalidate(i)
  PROVE  /\ rd' \in [Readers -> RdType]
         /\ \A r \in Readers :
              /\ rd'[r].pc = rd[r].pc /\ rd'[r].pos = rd[r].pos
              /\ rd'[r].file = rd[r].file
              /\ rd[r].list = "null" => rd'[r].list = "null"
              /\ rd'[r].list = "list" => rd[r].list = "list" /\ rd[r].pos # i
<1>1. \A r \in Readers : rd[r] \in RdType
      BY DEF ModuleTypeOK
<1>2. \A r \in Readers : [rd[r] EXCEPT !.list = "freed"] \in RdType
      BY <1>1 DEF RdType
<1> QED BY <1>1, <1>2 DEF Invalidate, RdType

\* A device with a new record, nothing else of the types being at stake.
LEMMA DevTyped ==
  ASSUME ModuleTypeOK, NEW i \in Devs, NEW d \in DevType,
         dev' = [dev EXCEPT ![i] = d]
  PROVE  dev' \in [Devs -> DevType]
  BY DEF ModuleTypeOK

\* A reader that takes or gives no semaphore keeps the invariant.
LEMMA ReaderMoves ==
  ASSUME LifeInv, NEW r \in Readers, NEW x, Fits(x),
         x.pc = "walk" <=> rd[r].pc = "walk", x.pc = "walk" => x.pos = rd[r].pos,
         Reads(r, x), UNCHANGED <<life, devices, dev, entry>>
  PROVE  LifeInv'
<1> USE ProcConstants, ModuleConstants DEF Devs, LifeInv, ModuleInv, Fits, Reads
<1>1. ModuleTypeOK'
      BY DEF life, ModuleTypeOK
<1>2. UsersNeedDevice' /\ Progress' /\ NobodyLeft'
      BY DEF life, UsersNeedDevice, Progress, NobodyLeft
<1>3. \A q \in Readers, i \in Devs : Walks(q, i)' <=> Walks(q, i)
      BY DEF ModuleTypeOK, Walks
<1>4. Inside'
      BY <1>3 DEF life, Inside, Held
<1>5. InProc'
      BY DEF life, InProc, ModuleTypeOK
<1> QED BY <1>1, <1>2, <1>4, <1>5

\* A reader takes the semaphore of its device.
LEMMA ReaderTakes ==
  ASSUME LifeInv, NEW r \in Readers, NEW x, Fits(x), rd[r].pc = "down",
         x.pc = "walk", x.pos = rd[r].pos, devices, dev[x.pos].ready,
         Take(x.pos), Reads(r, x), UNCHANGED <<life, devices, entry>>
  PROVE  LifeInv'
<1> USE ProcConstants, ModuleConstants DEF Devs, LifeInv, ModuleInv, Fits, Reads
<1> DEFINE i == x.pos
<1>1. i \in Devs /\ dev \in [Devs -> DevType] /\ dev[i].sem = 1
      BY DEF Take, ModuleTypeOK, RdType, DevType
<1>2. dev' = [dev EXCEPT ![i].sem = 0]
      BY <1>1 DEF Take
<1> HIDE DEF i
<1>3. ModuleTypeOK'
  <2>0. dev[i] \in DevType
        BY <1>1
  <2>1. [dev[i] EXCEPT !.sem = 0] \in DevType
        BY <2>0 DEF DevType
  <2>2. dev' \in [Devs -> DevType]
        BY <1>1, <1>2, <2>1
  <2> QED BY <2>2 DEF life, ModuleTypeOK
<1>4. UsersNeedDevice' /\ Progress' /\ NobodyLeft'
      BY <1>1, <1>2 DEF life, UsersNeedDevice, Progress, NobodyLeft, DevType
<1>5. ~Held(i)
      BY <1>1 DEF Inside, i
<1>6. \A q \in Readers, j \in Devs : Walks(q, j)' <=> Walks(q, j) \/ (q = r /\ j = i)
      BY DEF ModuleTypeOK, Walks, i
<1>7. Inside'
      BY <1>1, <1>2, <1>5, <1>6 DEF life, Inside, Held, DevType
<1>8. InProc'
      BY <1>1, <1>2 DEF life, InProc, ModuleTypeOK, DevType
<1> QED BY <1>3, <1>4, <1>7, <1>8

\* A reader gives the semaphore of its device back.
LEMMA ReaderGives ==
  ASSUME LifeInv, NEW r \in Readers, NEW x, Fits(x), rd[r].pc = "walk",
         x.pc # "walk", devices, dev[rd[r].pos].ready,
         Up(rd[r].pos), Reads(r, x), UNCHANGED <<life, devices, entry>>
  PROVE  LifeInv'
<1> USE ProcConstants, ModuleConstants DEF Devs, LifeInv, ModuleInv, Fits, Reads
<1> DEFINE i == rd[r].pos
<1>1. i \in Devs /\ dev \in [Devs -> DevType] /\ Walks(r, i)
      BY DEF InProc, ModuleTypeOK, RdType, Walks
<1>2. dev[i].sem = 0
      BY <1>1 DEF Inside, Held
<1>3. dev' = [dev EXCEPT ![i].sem = 1]
      BY <1>1, <1>2 DEF Up
<1>4. \A q \in Readers, j \in Devs : Walks(q, j)' <=> Walks(q, j) /\ q # r
      BY DEF ModuleTypeOK, Walks
<1>5. \A q \in Readers : Walks(q, i) => q = r
      BY <1>1 DEF Inside
<1>6. \A j \in Devs : Walks(r, j) => j = i
      BY DEF Walks
<1>7. dev[i].in \notin {"call", "trim"}
      BY <1>1 DEF Inside
<1>8. ModuleTypeOK'
  <2>1. [dev[i] EXCEPT !.sem = 1] \in DevType
        BY <1>1 DEF DevType
  <2>2. dev' \in [Devs -> DevType]
        BY <1>1, <1>3, <2>1
  <2> QED BY <2>2 DEF life, ModuleTypeOK
<1>9. UsersNeedDevice' /\ Progress' /\ NobodyLeft'
      BY <1>1, <1>3 DEF life, UsersNeedDevice, Progress, NobodyLeft, DevType
<1>10. InProc'
      BY <1>1, <1>3 DEF life, InProc, ModuleTypeOK, DevType
<1> HIDE DEF i
<1>11. Inside'
      BY <1>1, <1>3, <1>4, <1>5, <1>6, <1>7 DEF life, Inside, Held, DevType
<1> QED BY <1>8, <1>9, <1>10, <1>11

\* Every step of a reader of the proc files keeps the invariant.
LEMMA ReaderStep ==
  ASSUME LifeInv, NEW r \in Readers, Reader(r), UNCHANGED life
  PROVE  LifeInv'
<1> USE ProcConstants, ModuleConstants DEF Devs, LifeInv, ModuleInv
<1>0. rd[r] \in RdType /\ NoRead \in RdType
      BY DEF ModuleTypeOK, RdType, NoRead
<1>1. CASE ReadMem(r)
  <2>1. Fits([NoRead EXCEPT !.pc = "loop", !.file = "scullmem"])
        BY <1>0, <1>1 DEF ReadMem, Fits, RdType, NoRead, InProc, ProcFiles
  <2>2. rd[r].pc = "idle"
        BY <1>1 DEF ReadMem, NoRead
  <2> DEFINE x == [NoRead EXCEPT !.pc = "loop", !.file = "scullmem"]
  <2>3. x.pc = "loop" /\ Reads(r, x)
        BY <1>1 DEF ReadMem, NoRead
  <2> HIDE DEF x
  <2> QED BY <1>1, <2>1, <2>2, <2>3, ReaderMoves DEF ReadMem, x
<1>2. CASE OpenSeq(r)
  <2>1. Fits([NoRead EXCEPT !.file = "scullseq"])
        BY <1>0, <1>2 DEF OpenSeq, Fits, RdType, NoRead, ProcFiles
  <2> QED BY <1>2, <2>1, ReaderMoves DEF OpenSeq, NoRead
<1>3. CASE CloseSeq(r)
  <2>1. Fits(NoRead)
        BY <1>0 DEF Fits, NoRead
  <2> QED BY <1>3, <2>1, ReaderMoves DEF CloseSeq, NoRead
<1>4. CASE SeqStart(r)
  <2>1. Fits([rd[r] EXCEPT !.pc = "down"])
        BY <1>0, <1>4 DEF SeqStart, Fits, RdType, InProc
  <2> QED BY <1>4, <2>1, <1>0, ReaderMoves DEF SeqStart, RdType
<1>5. CASE LoadList(r)
  <2>1. Fits([rd[r] EXCEPT !.pc = "down", !.list = ListOf(rd[r].pos)])
        BY <1>0, <1>5 DEF LoadList, MoreMem, ListOf, Fits, RdType, InProc
  <2> QED BY <1>5, <2>1, <1>0, ReaderMoves DEF LoadList, RdType
<1>6. \A pos \in 0 .. NrDevs : Stop(r, pos) =>
        \E x : Reads(r, x) /\ Fits(x) /\ x.pc = "idle"
  <2> TAKE pos \in 0 .. NrDevs
  <2> DEFINE y == [NoRead EXCEPT !.file = "scullseq", !.pos = pos]
  <2>1. Fits(NoRead) /\ NoRead.pc = "idle"
        BY <1>0 DEF Fits, NoRead
  <2>2. Fits(y) /\ y.pc = "idle"
        BY <1>0 DEF Fits, NoRead, RdType, ProcFiles
  <2> HIDE DEF y
  <2>3. Stop(r, pos) => Reads(r, y) \/ Reads(r, NoRead)
        BY DEF Stop, Reads, y
  <2> QED BY <2>1, <2>2, <2>3
<1>7. CASE MemDone(r)
  <2>1. PICK x : Reads(r, x) /\ Fits(x) /\ x.pc = "idle"
        BY <1>6, <1>7 DEF MemDone
  <2> QED BY <1>7, <2>1, ReaderMoves DEF MemDone
<1>8. CASE Interrupted(r)
  <2>1. PICK x : Reads(r, x) /\ Fits(x) /\ x.pc = "idle"
        BY <1>0, <1>6, <1>8 DEF Interrupted, RdType
  <2> QED BY <1>8, <2>1, ReaderMoves DEF Interrupted
<1>9. CASE Touch(r)
  <2>1. Fits([rd[r] EXCEPT !.list = "oops"])
        BY <1>0, <1>9 DEF Touch, Fits, RdType, InProc
  <2> QED BY <1>9, <2>1, <1>0, ReaderMoves DEF Touch, RdType
<1>10. rd[r].pc \in {"down", "walk"} /\ devices => dev[rd[r].pos].ready
      BY <1>0 DEF InProc, Progress, RdType
<1>11. CASE Down(r)
  <2> DEFINE x == [rd[r] EXCEPT !.pc = "walk", !.list =
                     IF rd[r].file = "scullseq" THEN ListOf(rd[r].pos) ELSE @]
  <2>1. Fits(x) /\ x.pc = "walk" /\ x.pos = rd[r].pos
        BY <1>0, <1>11 DEF Down, ListOf, Fits, RdType, InProc
  <2>2. Reads(r, x)
        BY <1>11 DEF Down
  <2> HIDE DEF x
  <2> QED BY <1>10, <1>11, <2>1, <2>2, ReaderTakes DEF Down
<1>12. CASE MemWalk(r)
  <2>1. PICK n \in Nat, d \in Nat :
          Reads(r, [rd[r] EXCEPT !.pc = "loop", !.pos = rd[r].pos + 1,
                                 !.list = "null", !.len = Lines(@, n, d)])
    <3>1. PICK n \in IF rd[r].list = "null" THEN {0} ELSE 1 .. MaxItems,
               d \in 0 .. Slots :
            Reads(r, [rd[r] EXCEPT !.pc = "loop", !.pos = rd[r].pos + 1,
                                   !.list = "null", !.len = Lines(@, n, d)])
          BY <1>12 DEF MemWalk
    <3>2. n \in Nat /\ d \in Nat
          OBVIOUS
    <3> QED BY <3>1, <3>2
  <2>2. rd[r].pos + 1 \in 0 .. NrDevs
        BY <1>0, <1>12 DEF MemWalk, InProc, RdType
  <2>3. rd[r].len \in Nat /\ Limit \in Nat
        BY <1>0 DEF RdType
  <2>4. Lines(rd[r].len, n, d) \in Nat
        BY <2>3 DEF Lines
  <2> DEFINE x == [rd[r] EXCEPT !.pc = "loop", !.pos = rd[r].pos + 1,
                                !.list = "null", !.len = Lines(@, n, d)]
  <2>5. Fits(x) /\ x.pc = "loop"
        BY <1>0, <1>12, <2>2, <2>4 DEF MemWalk, Fits, RdType, InProc
  <2> HIDE DEF x
  <2> QED BY <1>10, <1>12, <2>1, <2>5, ReaderGives DEF MemWalk, x
<1>13. CASE SeqWalk(r)
  <2>1. rd[r].pos + 1 \in 0 .. NrDevs
        BY <1>0, <1>13 DEF SeqWalk, InProc, RdType
  <2> DEFINE y == [rd[r] EXCEPT !.pc = "down", !.pos = rd[r].pos + 1, !.list = "null"]
  <2>2. rd[r].pos + 1 < NrDevs => Fits(y) /\ y.pc = "down"
        BY <1>0, <1>13, <2>1 DEF SeqWalk, Fits, RdType, InProc
  <2> HIDE DEF y
  <2>3. PICK x : Reads(r, x) /\ Fits(x) /\ x.pc # "walk"
        BY <1>6, <1>13, <2>1, <2>2 DEF SeqWalk, y
  <2> QED BY <1>10, <1>13, <2>3, ReaderGives DEF SeqWalk
<1> QED BY <1>1, <1>2, <1>3, <1>4, <1>5, <1>7, <1>8, <1>9, <1>11, <1>12, <1>13
        DEF Reader, Reading

\* Every step of init, of cleanup and of a user keeps the invariant.
LEMMA LifeInvStep == LifeInv /\ [Next]_vars => LifeInv'
<1> SUFFICES ASSUME LifeInv, [Next]_vars PROVE LifeInv'
    OBVIOUS
<1> USE ProcConstants, ModuleConstants DEF Devs, LifeInv, ModuleInv
<1>0. /\ dev \in [Devs -> DevType] /\ \A j \in Devs : dev[j] \in DevType
      /\ rd \in [Readers -> RdType] /\ \A r \in Readers : rd[r] \in RdType
      BY DEF ModuleTypeOK
<1>1. CASE InitRegion
  <2>1. ModuleTypeOK'
        BY <1>1 DEF InitRegion, procVars, ModuleTypeOK
  <2>2. UsersNeedDevice'
        BY <1>1 DEF InitRegion, UsersNeedDevice
  <2>3. Progress'
        BY <1>1 DEF InitRegion, Progress
  <2>4. NobodyLeft'
        BY <1>1 DEF InitRegion, NobodyLeft
  <2>5. Inside'
        BY <1>1 DEF InitRegion, procVars, Inside, Walks, Held
  <2>6. InProc'
        BY <1>1 DEF InitRegion, procVars, InProc
  <2> QED BY <2>1, <2>2, <2>3, <2>4, <2>5, <2>6
<1>2. CASE InitAlloc
  <2>1. ModuleTypeOK'
        BY <1>2 DEF InitAlloc, life, procVars, Blank, ModuleTypeOK, DevType
  <2>2. UsersNeedDevice'
        BY <1>2 DEF InitAlloc, Blank, UsersNeedDevice
  <2>3. Progress'
        BY <1>2 DEF InitAlloc, life, procVars, Progress
  <2>4. NobodyLeft'
        BY <1>2 DEF InitAlloc, life, procVars, NobodyLeft
  <2>5. Inside'
        BY <1>2 DEF InitAlloc, procVars, Blank, Inside, Walks
  <2>6. InProc'
        BY <1>2 DEF InitAlloc, life, procVars, InProc
  <2> QED BY <2>1, <2>2, <2>3, <2>4, <2>5, <2>6
<1>3. CASE InitNoMem
  <2>1. ModuleTypeOK'
        BY <1>3 DEF InitNoMem, life, procVars, ModuleTypeOK
  <2>2. UsersNeedDevice'
        BY <1>3 DEF InitNoMem, life, procVars, UsersNeedDevice
  <2>3. Progress'
        BY <1>3 DEF InitNoMem, life, procVars, Progress
  <2>4. NobodyLeft'
        BY <1>0, <1>3 DEF InitNoMem, UsersNeedDevice, DevType, NobodyLeft
  <2>5. Inside'
        BY <1>3 DEF InitNoMem, procVars, Inside, Walks, Held
  <2>6. InProc'
        BY <1>3 DEF InitNoMem, procVars, InProc
  <2> QED BY <2>1, <2>2, <2>3, <2>4, <2>5, <2>6
<1>4. CASE InitFields
  <2>1. ModuleTypeOK'
    <3>1. next \in Devs /\ dev \in [Devs -> DevType]
          BY <1>4 DEF InitFields, ModuleTypeOK
    <3>2. dev[next] \in DevType
          BY <3>1
    <3>3. dev' \in [Devs -> DevType]
      <4>1. PICK d \in DevType : dev' = [dev EXCEPT ![next] = d]
            <5>1. [dev[next] EXCEPT !.ready = TRUE, !.sem = 1] \in DevType
                  BY <3>2 DEF DevType
            <5> QED BY <5>1, <1>4 DEF InitFields, life, procVars
      <4> QED BY <3>1, <4>1
    <3> QED BY <3>3, <1>4 DEF InitFields, life, procVars, ModuleTypeOK, DevType
  <2>2. UsersNeedDevice'
        BY <1>4 DEF InitFields, ModuleTypeOK, UsersNeedDevice
  <2>3. Progress'
        BY <1>4 DEF InitFields, life, ModuleTypeOK, Progress
  <2>4. NobodyLeft'
        BY <1>4 DEF InitFields, life, procVars, NobodyLeft
  <2>5. Inside'
    <3>2. \A q \in Readers, j \in Devs : Walks(q, j)' <=> Walks(q, j)
          BY <1>4 DEF InitFields, procVars, Walks
    <3>1. /\ next \in Devs
          /\ dev'[next].in = dev[next].in /\ dev'[next].sem = 1
          /\ dev'[next].users = dev[next].users
          /\ dev'[next].kept = dev[next].kept
          /\ \A j \in Devs : j # next => dev'[j] = dev[j]
          BY <1>0, <1>4 DEF InitFields, ModuleTypeOK, DevType
    <3>3. dev[next].in = "none" /\ ~dev[next].kept
          BY <1>0, <1>4, <3>1 DEF InitFields, UsersNeedDevice, Inside, DevType
    <3>4. \A q \in Readers : ~Walks(q, next)
          BY <1>4 DEF InitFields, InProc, Walks
    <3> QED BY <3>1, <3>2, <3>3, <3>4, <1>4 DEF InitFields, life, Inside, Held
  <2>6. InProc'
        BY <1>4 DEF InitFields, procVars, InProc
  <2> QED BY <2>1, <2>2, <2>3, <2>4, <2>5, <2>6
<1>5. CASE InitCdev
  <2>1. ModuleTypeOK'
    <3>1. next \in Devs /\ dev \in [Devs -> DevType]
          BY <1>5 DEF InitCdev, ModuleTypeOK
    <3>2. dev[next] \in DevType
          BY <3>1
    <3>3. dev' \in [Devs -> DevType]
      <4>1. PICK d \in DevType : dev' = [dev EXCEPT ![next] = d]
            <5>1. \A ok \in BOOLEAN : [dev[next] EXCEPT !.live = ok] \in DevType
                  BY <3>2 DEF DevType
            <5> QED BY <5>1, <1>5 DEF InitCdev, life, procVars
      <4> QED BY <3>1, <4>1
    <3> QED BY <3>3, <1>5 DEF InitCdev, life, procVars, ModuleTypeOK, DevType
  <2>2. UsersNeedDevice'
        BY <1>5 DEF InitCdev, life, procVars, UsersNeedDevice
  <2>3. Progress'
        BY <1>5 DEF InitCdev, ModuleTypeOK, Progress
  <2>4. NobodyLeft'
        BY <1>5 DEF InitCdev, life, procVars, NobodyLeft
  <2>5. Inside'
        BY <1>5 DEF InitCdev, procVars, Inside, Walks, Held
  <2>6. InProc'
        BY <1>5 DEF InitCdev, procVars, InProc
  <2> QED BY <2>1, <2>2, <2>3, <2>4, <2>5, <2>6
<1>6. CASE InitDone
  <2>1. ModuleTypeOK'
        BY <1>6 DEF InitDone, ModuleTypeOK
  <2>2. UsersNeedDevice'
        BY <1>6 DEF InitDone, UsersNeedDevice
  <2>3. Progress'
        BY <1>6 DEF InitDone, Progress
  <2>4. NobodyLeft'
        BY <1>6 DEF InitDone, NobodyLeft
  <2>5. Inside'
        BY <1>6 DEF InitDone, Inside, Walks, Held
  <2>6. InProc'
        BY <1>6 DEF InitDone, InProc
  <2> QED BY <2>1, <2>2, <2>3, <2>4, <2>5, <2>6
<1>7. CASE Rmmod
  <2>1. ModuleTypeOK'
        BY <1>7 DEF Rmmod, procVars, ModuleTypeOK
  <2>2. UsersNeedDevice'
        BY <1>7 DEF Rmmod, UsersNeedDevice
  <2>3. Progress'
        BY <1>7 DEF Rmmod, Progress
  <2>4. NobodyLeft'
        BY <1>7 DEF Rmmod, NobodyLeft
  <2>5. Inside'
        BY <1>7 DEF Rmmod, procVars, Inside, Walks, Held
  <2>6. InProc'
        BY <1>7 DEF Rmmod, procVars, InProc
  <2> QED BY <2>1, <2>2, <2>3, <2>4, <2>5, <2>6
<1>8. CASE CleanupTrim
  <2>1. ModuleTypeOK'
        BY <1>0, <1>8 DEF CleanupTrim, life, procVars, ModuleTypeOK, DevType
  <2>2. UsersNeedDevice'
        BY <1>8 DEF CleanupTrim, UsersNeedDevice
  <2>3. Progress'
        BY <1>8 DEF CleanupTrim, life, Progress
  <2>4. NobodyLeft'
        BY <1>8 DEF CleanupTrim, life, NobodyLeft
  <2>5. Inside'
    <3>2. \A q \in Readers, j \in Devs : Walks(q, j)' <=> Walks(q, j)
          BY <1>8 DEF CleanupTrim, procVars, Walks
    <3>1. /\ next \in Devs
          /\ dev'[next].in = "cleanup" /\ dev'[next].sem = dev[next].sem
          /\ dev'[next].ready = dev[next].ready
          /\ \A j \in Devs : j # next => dev'[j] = dev[j]
          BY <1>0, <1>8 DEF CleanupTrim, ModuleTypeOK, DevType
    <3>3. dev[next].in \notin {"call", "trim"}
          BY <1>0, <1>8, <3>1 DEF CleanupTrim, Inside, NobodyLeft, DevType
    <3> QED BY <3>1, <3>2, <3>3, <1>8 DEF CleanupTrim, life, Inside, Held
  <2>6. InProc'
        BY <1>8 DEF CleanupTrim, life, procVars, InProc
  <2> QED BY <2>1, <2>2, <2>3, <2>4, <2>5, <2>6
<1>9. CASE CleanupDel
  <2>1. ModuleTypeOK'
    <3>1. next \in Devs /\ dev \in [Devs -> DevType]
          BY <1>9 DEF CleanupDel, ModuleTypeOK
    <3>2. dev[next] \in DevType
          BY <3>1
    <3>3. dev' \in [Devs -> DevType]
      <4>1. PICK d \in DevType : dev' = [dev EXCEPT ![next] = d]
            <5>1. [dev[next] EXCEPT !.in = "none", !.live = FALSE, !.mem = FALSE]
                    \in DevType
                  BY <3>2 DEF DevType
            <5> QED BY <5>1, <1>9 DEF CleanupDel, life, procVars
      <4> QED BY <3>1, <4>1
    <3> QED BY <3>1, <3>3, <1>9, Freed DEF CleanupDel, ModuleTypeOK
  <2>2. UsersNeedDevice'
        BY <1>9 DEF CleanupDel, ModuleTypeOK, UsersNeedDevice
  <2>3. Progress'
        BY <1>9 DEF CleanupDel, ModuleTypeOK, Progress
  <2>4. NobodyLeft'
        BY <1>9 DEF CleanupDel, ModuleTypeOK, NobodyLeft
  <2>5. Inside'
    <3>1. next \in Devs
          BY <1>9 DEF CleanupDel, ModuleTypeOK
    <3>2. \A q \in Readers, j \in Devs : Walks(q, j)' <=> Walks(q, j)
          BY <3>1, <1>9, Freed DEF CleanupDel, Walks
    <3> QED BY <3>2, <1>9 DEF CleanupDel, ModuleTypeOK, DevType, Inside, Held
  <2>6. InProc'
    <3>1. next \in Devs
          BY <1>9 DEF CleanupDel, ModuleTypeOK
    <3>2. \A j \in Devs : j # next => dev'[j] = dev[j]
          BY <1>9 DEF CleanupDel, ModuleTypeOK
    <3>3. \A r \in Readers : rd[r].list = "list" => rd[r].pos \in Devs
          BY <1>0 DEF InProc, RdType
    <3>5. \A r \in Readers :
            /\ rd'[r].pc = rd[r].pc /\ rd'[r].pos = rd[r].pos
            /\ rd'[r].file = rd[r].file
            /\ rd[r].list = "null" => rd'[r].list = "null"
            /\ rd'[r].list = "list" => rd[r].list = "list" /\ rd[r].pos # next
          BY <3>1, <1>9, Freed DEF CleanupDel
    <3>4. ASSUME NEW r \in Readers, rd'[r].list = "list", devices
          PROVE  dev'[rd'[r].pos].mem
          BY <3>2, <3>3, <3>4, <3>5 DEF InProc
    <3> QED BY <3>4, <3>5, <1>9 DEF CleanupDel, InProc
  <2> QED BY <2>1, <2>2, <2>3, <2>4, <2>5, <2>6
<1>10. CASE CleanupFree
  <2>1. ModuleTypeOK'
        BY <1>10 DEF CleanupFree, life, procVars, ModuleTypeOK
  <2>2. UsersNeedDevice'
        BY <1>10 DEF CleanupFree, UsersNeedDevice, NobodyLeft
  <2>3. Progress'
        BY <1>10 DEF CleanupFree, life, procVars, Progress
  <2>4. NobodyLeft'
        BY <1>10 DEF CleanupFree, life, procVars, NobodyLeft
  <2>5. Inside'
        BY <1>10 DEF CleanupFree, procVars, Inside, Walks, Held
  <2>6. InProc'
        BY <1>10 DEF CleanupFree, life, procVars, InProc
  <2> QED BY <2>1, <2>2, <2>3, <2>4, <2>5, <2>6
<1>11. CASE CleanupRegion
  <2>1. ModuleTypeOK'
        BY <1>11 DEF CleanupRegion, procVars, ModuleTypeOK
  <2>2. UsersNeedDevice'
        BY <1>11 DEF CleanupRegion, UsersNeedDevice
  <2>3. Progress'
        BY <1>11 DEF CleanupRegion, Progress
  <2>4. NobodyLeft'
        BY <1>11 DEF CleanupRegion, NobodyLeft
  <2>5. Inside'
        BY <1>11 DEF CleanupRegion, procVars, Inside, Walks, Held
  <2>6. InProc'
        BY <1>11 DEF CleanupRegion, procVars, InProc, InFile
  <2> QED BY <2>1, <2>2, <2>3, <2>4, <2>5, <2>6
<1>12. ASSUME NEW i \in Devs, Open(i)
      PROVE  LifeInv'
  <2>1. ModuleTypeOK'
    <3>3. dev[i].users + 1 \in 0 .. MaxUsers
          BY <1>0, <1>12 DEF Open, DevType
    <3>1. [dev[i] EXCEPT !.users = @ + 1] \in DevType
          BY <1>0, <3>3 DEF DevType
    <3>2. dev' \in [Devs -> DevType]
          BY <3>1, <1>12, DevTyped DEF Open
    <3> QED BY <3>2, <1>12 DEF Open, life, procVars, ModuleTypeOK
  <2>2. UsersNeedDevice'
        BY <1>12 DEF Open, UsersNeedDevice
  <2>3. Progress'
        BY <1>12 DEF Open, life, Progress
  <2>4. NobodyLeft'
        BY <1>12 DEF Open, life, NobodyLeft, Pinned
  <2>5. Inside'
    <3>2. \A q \in Readers, j \in Devs : Walks(q, j)' <=> Walks(q, j)
          BY <1>12 DEF Open, procVars, Walks
    <3>1. /\ dev'[i].users = dev[i].users + 1 /\ dev[i].users \in Nat
          /\ dev'[i].in = dev[i].in /\ dev'[i].sem = dev[i].sem
          /\ dev'[i].ready = dev[i].ready
          /\ \A j \in Devs : j # i => dev'[j] = dev[j]
          BY <1>0, <1>12 DEF Open, DevType
    <3> QED BY <3>1, <3>2, <1>12 DEF Open, life, Inside, Held
  <2>6. InProc'
        BY <1>12 DEF Open, life, procVars, InProc
  <2> QED BY <2>1, <2>2, <2>3, <2>4, <2>5, <2>6
<1>13. ASSUME NEW i \in Devs, Close(i)
      PROVE  LifeInv'
  <2>1. ModuleTypeOK'
    <3>3. dev[i].users - 1 \in 0 .. MaxUsers
          BY <1>0, <1>13 DEF Close, DevType
    <3>1. [dev[i] EXCEPT !.users = @ - 1] \in DevType
          BY <1>0, <3>3 DEF DevType
    <3>2. dev' \in [Devs -> DevType]
          BY <3>1, <1>13, DevTyped DEF Close
    <3> QED BY <3>2, <1>13 DEF Close, life, procVars, ModuleTypeOK
  <2>2. UsersNeedDevice'
        BY <1>0, <1>13 DEF Close, DevType, UsersNeedDevice
  <2>3. Progress'
        BY <1>13 DEF Close, life, procVars, Progress
  <2>4. NobodyLeft'
        BY <1>13 DEF Close, life, procVars, NobodyLeft
  <2>5. Inside'
    <3>1. \A q \in Readers, j \in Devs : Walks(q, j)' <=> Walks(q, j)
          BY <1>13 DEF Close, procVars, Walks
    <3>2. /\ dev'[i].users = dev[i].users - 1 /\ dev[i].users \in Nat
          /\ dev'[i].in = dev[i].in /\ dev'[i].sem = dev[i].sem
          /\ dev'[i].ready = dev[i].ready /\ dev'[i].kept = dev[i].kept
          /\ dev[i].in \in {"call", "trim"} => dev'[i].users > 0
          /\ \A j \in Devs : j # i => dev'[j] = dev[j]
          BY <1>0, <1>13 DEF Close, DevType
    <3> QED BY <3>1, <3>2, <1>13 DEF Close, life, Inside, Held
  <2>6. InProc'
        BY <1>13 DEF Close, life, procVars, InProc
  <2> QED BY <2>1, <2>2, <2>3, <2>4, <2>5, <2>6
<1>14. ASSUME NEW i \in Devs, Leave(i)
      PROVE  LifeInv'
  <2>0. /\ rd' \in [Readers -> RdType]
        /\ \A r \in Readers :
             /\ rd'[r].pc = rd[r].pc /\ rd'[r].pos = rd[r].pos
             /\ rd'[r].file = rd[r].file
             /\ rd[r].list = "null" => rd'[r].list = "null"
             /\ rd'[r].list = "list" =>
                  rd[r].list = "list" /\ (dev[i].in = "trim" => rd[r].pos # i)
        BY <1>0, <1>14, Freed DEF Leave
  <2>7. PICK m \in BOOLEAN :
          /\ dev' = [dev EXCEPT ![i] = [dev[i] EXCEPT !.sem = 1, !.in = "none", !.mem = m]]
          /\ dev[i].in = "call" => m \in {dev[i].mem, TRUE}
    <3>1. dev[i].sem = 0
          BY <1>0, <1>14 DEF Leave, UsersNeedDevice, Inside, DevType
    <3>2. PICK m \in (IF dev[i].in = "trim" THEN {FALSE} ELSE {dev[i].mem, TRUE}) :
            dev' = [dev EXCEPT ![i].sem = @ + 1, ![i].in = "none", ![i].mem = m]
          BY <1>14 DEF Leave
    <3>3. m \in BOOLEAN /\ (dev[i].in = "call" => m \in {dev[i].mem, TRUE})
          BY <1>0, <3>2 DEF DevType
    <3>5. dev' = [dev EXCEPT ![i] = [dev[i] EXCEPT !.sem = dev[i].sem + 1,
                                                   !.in = "none", !.mem = m]]
          BY <1>0, <3>2 DEF DevType
    <3>4. dev' = [dev EXCEPT ![i] = [dev[i] EXCEPT !.sem = 1, !.in = "none", !.mem = m]]
          BY <3>1, <3>5
    <3> QED BY <3>3, <3>4
  <2>8. /\ dev'[i].sem = 1 /\ dev'[i].in = "none" /\ dev'[i].mem = m
        /\ dev'[i].users = dev[i].users /\ dev'[i].ready = dev[i].ready
        /\ dev'[i].live = dev[i].live /\ dev'[i].kept = dev[i].kept
        /\ \A j \in Devs : j # i => dev'[j] = dev[j]
        BY <1>0, <2>7 DEF DevType
  <2>1. ModuleTypeOK'
    <3>1. [dev[i] EXCEPT !.sem = 1, !.in = "none", !.mem = m] \in DevType
          BY <1>0 DEF DevType
    <3>2. dev' \in [Devs -> DevType]
          BY <3>1, <2>7, DevTyped
    <3> QED BY <2>0, <3>2, <1>14 DEF Leave, life, ModuleTypeOK
  <2>2. UsersNeedDevice'
        BY <2>8, <1>14 DEF Leave, life, UsersNeedDevice
  <2>3. Progress'
        BY <2>8, <1>14 DEF Leave, life, Progress
  <2>4. NobodyLeft'
        BY <2>8, <1>14 DEF Leave, life, UsersNeedDevice, Inside, NobodyLeft
  <2>5. Inside'
    <3>1. \A q \in Readers, j \in Devs : Walks(q, j)' <=> Walks(q, j)
          BY <2>0 DEF Walks
    <3>2. ~dev[i].kept /\ \A q \in Readers : ~Walks(q, i)
          BY <1>14 DEF Leave, Inside
    <3> QED BY <2>8, <3>1, <3>2, <1>14 DEF Leave, life, Inside, Held
  <2>6. InProc'
    <3>1. ASSUME NEW r \in Readers, rd'[r].list = "list", devices
          PROVE  dev'[rd[r].pos].mem
      <4>1. rd[r].pos \in Devs /\ dev[rd[r].pos].mem
            BY <1>0, <2>0, <3>1 DEF InProc, RdType
      <4> QED BY <1>14, <2>0, <2>7, <2>8, <3>1, <4>1 DEF Leave
    <3> QED BY <2>0, <3>1, <1>14 DEF Leave, life, InProc
  <2> QED BY <2>1, <2>2, <2>3, <2>4, <2>5, <2>6
<1>19. ASSUME NEW i \in Devs, Die(i)
      PROVE  LifeInv'
  <2>0. /\ rd' \in [Readers -> RdType]
        /\ \A r \in Readers :
             /\ rd'[r].pc = rd[r].pc /\ rd'[r].pos = rd[r].pos
             /\ rd'[r].file = rd[r].file
             /\ rd[r].list = "null" => rd'[r].list = "null"
             /\ rd'[r].list = "list" => rd[r].list = "list"
        BY <1>0, <1>19, Freed DEF Die
  <2>7. PICK m \in BOOLEAN :
          /\ dev' = [dev EXCEPT ![i] = [dev[i] EXCEPT !.kept = TRUE, !.in = "none",
                                                      !.mem = m]]
          /\ m \in {dev[i].mem, TRUE}
        BY <1>0, <1>19 DEF Die, DevType
  <2>8. /\ dev'[i].sem = dev[i].sem /\ dev'[i].in = "none" /\ dev'[i].mem = m
        /\ dev'[i].users = dev[i].users /\ dev'[i].ready = dev[i].ready
        /\ dev'[i].live = dev[i].live /\ dev'[i].kept
        /\ \A j \in Devs : j # i => dev'[j] = dev[j]
        BY <1>0, <2>7 DEF DevType
  <2>1. ModuleTypeOK'
    <3>1. [dev[i] EXCEPT !.kept = TRUE, !.in = "none", !.mem = m] \in DevType
          BY <1>0 DEF DevType
    <3>2. dev' \in [Devs -> DevType]
          BY <3>1, <2>7, DevTyped
    <3> QED BY <2>0, <3>2, <1>19 DEF Die, life, ModuleTypeOK
  <2>2. UsersNeedDevice'
        BY <2>8, <1>19 DEF Die, life, UsersNeedDevice
  <2>3. Progress'
        BY <2>8, <1>19 DEF Die, life, Progress
  <2>4. NobodyLeft'
        BY <2>8, <1>19 DEF Die, life, UsersNeedDevice, Inside, NobodyLeft
  <2>5. Inside'
    <3>1. \A q \in Readers, j \in Devs : Walks(q, j)' <=> Walks(q, j)
          BY <2>0 DEF Walks
    <3> QED BY <2>8, <3>1, <1>19 DEF Die, life, Inside, Held
  <2>6. InProc'
    <3>1. ASSUME NEW r \in Readers, rd'[r].list = "list", devices
          PROVE  dev'[rd[r].pos].mem
      <4>1. rd[r].pos \in Devs /\ dev[rd[r].pos].mem
            BY <1>0, <2>0, <3>1 DEF InProc, RdType
      <4> QED BY <2>7, <2>8, <4>1
    <3> QED BY <2>0, <3>1, <1>19 DEF Die, life, InProc
  <2> QED BY <2>1, <2>2, <2>3, <2>4, <2>5, <2>6
<1>15. ASSUME NEW i \in Devs, NEW how \in {"call", "trim"}, Enter(i, how)
      PROVE  LifeInv'
  <2>1. ModuleTypeOK'
    <3>3. dev[i].sem - 1 = 0
          BY <1>0, <1>15 DEF Enter, DevType
    <3>1. [dev[i] EXCEPT !.sem = @ - 1, !.in = how] \in DevType
          BY <1>0, <3>3 DEF DevType
    <3>2. dev' \in [Devs -> DevType]
          BY <3>1, <1>15, DevTyped DEF Enter
    <3> QED BY <3>2, <1>15 DEF Enter, life, procVars, ModuleTypeOK
  <2>2. UsersNeedDevice'
        BY <1>15 DEF Enter, ModuleTypeOK, UsersNeedDevice
  <2>3. Progress'
        BY <1>15 DEF Enter, life, ModuleTypeOK, Progress
  <2>4. NobodyLeft'
        BY <1>15 DEF Enter, life, UsersNeedDevice, NobodyLeft
  <2>5. Inside'
    <3>1. ~Held(i) /\ dev[i].ready /\ dev[i].in # "cleanup" /\ ~dev[i].kept
          BY <1>0, <1>15 DEF Enter, UsersNeedDevice, NobodyLeft, Inside, Held
    <3>2. \A q \in Readers, j \in Devs : Walks(q, j)' <=> Walks(q, j)
          BY <1>15 DEF Enter, procVars, Walks
    <3>3. /\ dev'[i].sem = 0 /\ dev'[i].in = how /\ dev'[i].users = dev[i].users
          /\ dev'[i].ready = dev[i].ready /\ dev'[i].kept = dev[i].kept
          BY <1>0, <1>15 DEF Enter, DevType
    <3>4. \A j \in Devs : j # i => dev'[j] = dev[j]
          BY <1>0, <1>15 DEF Enter
    <3>5. \A j \in Devs : Held(j)' <=> Held(j) \/ j = i
          BY <3>2, <3>3, <3>4 DEF Held
    <3>6. \A q \in Readers : ~Walks(q, i)
          BY <3>1 DEF Held
    <3>7. ASSUME NEW j \in Devs, j # i
          PROVE  /\ dev'[j].in \in {"call", "trim"} =>
                      dev'[j].users > 0 /\ ~dev'[j].kept
                 /\ dev'[j].in \in {"call", "trim"} \/ dev'[j].kept =>
                      dev'[j].ready /\ \A q \in Readers : ~Walks(q, j)'
                 /\ dev'[j].in = "cleanup" => mod = "exit" /\ devices /\ next = j
                 /\ dev'[j].ready => dev'[j].sem = IF Held(j)' THEN 0 ELSE 1
          BY <3>2, <3>4, <3>5, <3>7 DEF Inside
    <3>8. /\ dev'[i].users > 0 /\ \A q \in Readers : ~Walks(q, i)'
          /\ dev'[i].in # "cleanup" /\ Held(i)'
          /\ dev'[i].ready /\ ~dev'[i].kept
          BY <3>1, <3>2, <3>3, <3>5, <3>6, <1>15 DEF Enter
    <3>9. \A j \in Devs : \A r, q \in Readers : Walks(r, j)' /\ Walks(q, j)' => r = q
          BY <3>2 DEF Inside
    <3> QED BY <3>3, <3>7, <3>8, <3>9, <1>15 DEF Enter, life, Inside
  <2>6. InProc'
    <3>1. \A j \in Devs : dev'[j].mem = dev[j].mem
          BY <1>0, <1>15 DEF Enter, DevType
    <3> QED BY <1>0, <3>1, <1>15 DEF Enter, life, procVars, InProc, RdType
  <2> QED BY <2>1, <2>2, <2>3, <2>4, <2>5, <2>6
<1>16. CASE UNCHANGED vars
  <2>1. ModuleTypeOK'
        BY <1>16 DEF vars, life, procVars, ModuleTypeOK
  <2>2. UsersNeedDevice'
        BY <1>16 DEF vars, UsersNeedDevice
  <2>3. Progress'
        BY <1>16 DEF vars, life, Progress
  <2>4. NobodyLeft'
        BY <1>16 DEF vars, life, NobodyLeft
  <2>5. Inside'
        BY <1>16 DEF vars, life, procVars, Inside, Walks, Held
  <2>6. InProc'
        BY <1>16 DEF vars, life, procVars, InProc
  <2> QED BY <2>1, <2>2, <2>3, <2>4, <2>5, <2>6
<1>17. ASSUME NEW f \in ProcFiles, CleanupProc(f)
       PROVE  LifeInv'
  <2>1. ModuleTypeOK'
        BY <1>17 DEF CleanupProc, life, ModuleTypeOK, NoRead, RdType
  <2>2. UsersNeedDevice'
        BY <1>17 DEF CleanupProc, life, UsersNeedDevice
  <2>3. Progress'
        BY <1>17 DEF CleanupProc, life, Progress
  <2>4. NobodyLeft'
        BY <1>17 DEF CleanupProc, life, NobodyLeft
  <2>5. Inside'
        BY <1>17 DEF CleanupProc, Inside, Walks, Held, NoRead
  <2>6. InProc'
        BY <1>17 DEF CleanupProc, life, InProc, NoRead
  <2> QED BY <2>1, <2>2, <2>3, <2>4, <2>5, <2>6
<1>18. ASSUME NEW r \in Readers, Reader(r), UNCHANGED life
       PROVE  LifeInv'
       BY <1>18, ReaderStep
<1> QED
  BY <1>17, <1>18, <1>19, <1>1, <1>2, <1>3, <1>4, <1>5, <1>6, <1>7, <1>8, <1>9,
     <1>10,
     <1>11, <1>12, <1>13, <1>14, <1>15, <1>16
  DEF Next, Cleanup, User

\* The invariant holds throughout.
LEMMA LifeInvariant == Spec => []LifeInv
  BY LifeInvInit, LifeInvStep, PTL DEF Spec

(***************************************************************************)
(* scull_init_module adds a device only when it is initialised, and the    *)
(* devices are freed only when no file is open.                            *)
(***************************************************************************)
THEOREM UsersNeedDeviceHolds == Spec => []UsersNeedDevice
<1>1. LifeInv => UsersNeedDevice
      BY DEF LifeInv, ModuleInv
<1> QED BY <1>1, LifeInvariant, PTL

(***************************************************************************)
(* The trim of scull_cleanup_module runs alone, for any number of devices, *)
(* although it takes no semaphore.                                         *)
(***************************************************************************)
THEOREM TrimAloneHolds == Spec => []TrimAlone
<1>1. LifeInv => TrimAlone
      BY DEF LifeInv, ModuleInv, Progress, NobodyLeft, Inside, InProc, Held,
         Walks,
         TrimAlone
<1> QED BY <1>1, LifeInvariant, PTL

(***************************************************************************)
(* Whatever fails in scull_init_module, and after every rmmod, the module  *)
(* leaves no memory, device or region behind.                              *)
(***************************************************************************)
THEOREM NothingLeftHolds == Spec => []NothingLeft
<1>1. LifeInv => NothingLeft
      BY DEF LifeInv, ModuleInv, ModuleTypeOK, Progress, NobodyLeft, InProc,
         NothingLeft
<1> QED BY <1>1, LifeInvariant, PTL

-----------------------------------------------------------------------------
(***************************************************************************)
(* The line that scull_read_procmem prints of a device, the items up to    *)
(* its limit, and the quanta of the last of them: never more than one line *)
(* and those quanta past the limit, when the device was begun below it.    *)
(***************************************************************************)
LEMMA LinesBounded ==
  ASSUME NEW len \in Nat, len <= Limit, NEW n \in Nat, NEW d \in 0 .. Slots
  PROVE  Lines(len, n, d) \in Nat /\ Lines(len, n, d) <= Limit + 1 + Slots
  BY ProcConstants DEF Lines

\* The proc files before the first load: nobody reads.
LEMMA AllSoundInit == Init => AllSound
  BY ProcConstants DEF Init, AllSound, ReaderSound, Settled, NoRead

\* What is left of a read that ends is sound.
LEMMA StopSettles ==
  ASSUME NEW r \in Readers, NEW pos, Stop(r, pos)
  PROVE  \E x : Reads(r, x) /\ ReaderSound(x)
<1> USE ProcConstants
<1> DEFINE y == [NoRead EXCEPT !.file = "scullseq", !.pos = pos]
<1>1. ReaderSound(NoRead) /\ ReaderSound(y)
      BY DEF ReaderSound, Settled, NoRead
<1> HIDE DEF y
<1>2. Reads(r, y) \/ Reads(r, NoRead)
      BY DEF Stop, Reads, y
<1> QED BY <1>1, <1>2

\* Every step of a reader of the proc files leaves it sound.
LEMMA ReaderSettles ==
  ASSUME IInv, NEW r \in Readers, Reader(r), UNCHANGED life
  PROVE  AllSound'
<1> USE ProcConstants
<1>0. /\ rd \in [Readers -> RdType] /\ rd[r] \in RdType /\ ReaderSound(rd[r])
      /\ mod' = mod
      BY DEF IInv, LifeInv, ModuleInv, ModuleTypeOK, AllSound, life
<1>1. SUFFICES \E x : Reads(r, x) /\ ReaderSound(x)
  <2>1. ASSUME NEW x, Reads(r, x), ReaderSound(x) PROVE AllSound'
        BY <1>0, <2>1 DEF IInv, AllSound, Reads, ReaderSound, Settled
  <2> QED BY <2>1
<1>2. CASE ReadMem(r)
  <2>1. ReaderSound([NoRead EXCEPT !.pc = "loop", !.file = "scullmem"])
        BY DEF ReaderSound, Settled, NoRead
  <2> QED BY <1>2, <2>1 DEF ReadMem
<1>3. CASE OpenSeq(r)
      BY <1>3 DEF OpenSeq, ReaderSound, Settled, NoRead
<1>4. CASE CloseSeq(r)
      BY <1>4 DEF CloseSeq, ReaderSound, Settled, NoRead
<1>5. CASE SeqStart(r)
  <2>1. rd[r].list = "null"
        BY <1>5 DEF SeqStart, IInv, LifeInv, ModuleInv, InProc
  <2> QED BY <1>0, <1>5, <2>1 DEF SeqStart, ReaderSound, Settled, RdType
<1>6. CASE Down(r)
  <2> DEFINE x == [rd[r] EXCEPT !.pc = "walk", !.list =
                     IF rd[r].file = "scullseq" THEN ListOf(rd[r].pos) ELSE @]
  <2>1. ReaderSound(x)
        BY <1>0, <1>6 DEF Down, ListOf, ReaderSound, Settled, RdType
  <2>2. Reads(r, x)
        BY <1>6 DEF Down
  <2> QED BY <2>1, <2>2
<1>7. CASE Interrupted(r)
      BY <1>7, StopSettles DEF Interrupted
<1>8. CASE LoadList(r)
  <2>1. ReaderSound([rd[r] EXCEPT !.pc = "down", !.list = ListOf(rd[r].pos)])
        BY <1>0, <1>8 DEF LoadList, MoreMem, ListOf, ReaderSound, Settled,
           RdType
  <2> QED BY <1>8, <2>1 DEF LoadList
<1>9. CASE MemDone(r)
      BY <1>9, StopSettles DEF MemDone
<1>10. CASE MemWalk(r)
  <2>1. rd[r].len \in Nat /\ rd[r].len <= Limit /\ rd[r].file = "scullmem"
        BY <1>0, <1>10 DEF MemWalk, ReaderSound, Settled, RdType
  <2>2. PICK n \in Nat, d \in 0 .. Slots :
          Reads(r, [rd[r] EXCEPT !.pc = "loop", !.pos = rd[r].pos + 1,
                                 !.list = "null", !.len = Lines(@, n, d)])
    <3>1. PICK n \in IF rd[r].list = "null" THEN {0} ELSE 1 .. MaxItems,
               d \in 0 .. Slots :
            Reads(r, [rd[r] EXCEPT !.pc = "loop", !.pos = rd[r].pos + 1,
                                   !.list = "null", !.len = Lines(@, n, d)])
          BY <1>10 DEF MemWalk
    <3>2. n \in Nat
          OBVIOUS
    <3> QED BY <3>1, <3>2
  <2>3. Lines(rd[r].len, n, d) <= Limit + 1 + Slots
        BY <2>1, LinesBounded
  <2> DEFINE x == [rd[r] EXCEPT !.pc = "loop", !.pos = rd[r].pos + 1,
                                !.list = "null", !.len = Lines(@, n, d)]
  <2>4. ReaderSound(x)
        BY <1>0, <2>1, <2>3 DEF ReaderSound, Settled, RdType
  <2> QED BY <2>2, <2>4
<1>11. CASE SeqWalk(r)
  <2>1. CASE Stop(r, rd[r].pos + 1)
        BY <2>1, StopSettles
  <2>2. CASE Reads(r, [rd[r] EXCEPT !.pc = "down", !.pos = rd[r].pos + 1,
                                    !.list = "null"])
    <3>1. ReaderSound([rd[r] EXCEPT !.pc = "down", !.pos = rd[r].pos + 1,
                                !.list = "null"])
          BY <1>0, <1>11 DEF SeqWalk, ReaderSound, Settled, RdType
    <3> QED BY <2>2, <3>1
  <2> QED BY <1>11, <2>1, <2>2 DEF SeqWalk
<1>12. CASE Touch(r)
  <2>1. rd[r].file = "scullseq" => mod = "exit"
    <3>1. CASE ~devices
          BY <1>0, <1>12, <3>1 DEF Touch, IInv, LifeInv, ModuleInv, Progress,
             InProc,
             ReaderSound, Settled
    <3>2. CASE devices
          BY <1>0, <1>12, <3>2 DEF Touch, ReaderSound, Settled
    <3> QED BY <3>1, <3>2
  <2>2. ReaderSound([rd[r] EXCEPT !.list = "oops"])
        BY <1>0, <1>12, <2>1 DEF Touch, ReaderSound, Settled, RdType
  <2> QED BY <1>12, <2>2 DEF Touch
<1> QED BY <1>2, <1>3, <1>4, <1>5, <1>6, <1>7, <1>8, <1>9, <1>10, <1>11, <1>12
        DEF Reader, Reading

(***************************************************************************)
(* A list that is freed: by a trim nobody walks it, for the semaphore is   *)
(* the trim's; by the cleanup, a reader of scullseq may.                   *)
(***************************************************************************)
LEMMA FreedSettles ==
  ASSUME IInv, NEW i \in Devs, Invalidate(i), mod' = mod,
         mod # "exit" => \A r \in Readers : ~Walks(r, i)
  PROVE  AllSound'
<1> SUFFICES ASSUME NEW r \in Readers PROVE ReaderSound(rd[r])'
    BY DEF AllSound
<1>1. rd[r] \in RdType /\ ReaderSound(rd[r])
      BY DEF IInv, LifeInv, ModuleInv, ModuleTypeOK, AllSound
<1>2. CASE rd[r].pos = i /\ rd[r].list = "list"
  <2>1. rd'[r] = [rd[r] EXCEPT !.list = "freed"]
        BY <1>2 DEF Invalidate
  <2>2. rd[r].file = "scullseq" => mod = "exit"
        BY <1>1, <1>2 DEF ReaderSound, Settled, Walks
  <2> QED BY <1>1, <2>1, <2>2 DEF ReaderSound, Settled, RdType
<1>3. CASE ~(rd[r].pos = i /\ rd[r].list = "list")
  <2>1. rd'[r] = rd[r]
        BY <1>3 DEF Invalidate
  <2> QED BY <1>1, <2>1 DEF ReaderSound, Settled
<1> QED BY <1>2, <1>3

\* Every step keeps what the readers hold sound.
LEMMA AllSoundStep == IInv /\ [Next]_vars => AllSound'
<1> SUFFICES ASSUME IInv, [Next]_vars PROVE AllSound'
    OBVIOUS
<1> USE ProcConstants
<1>1. ASSUME UNCHANGED rd, mod = "exit" => mod' = "exit" PROVE AllSound'
      BY <1>1 DEF IInv, AllSound, ReaderSound, Settled
<1>2. CASE InitRegion
      BY <1>1, <1>2 DEF InitRegion, procVars
<1>3. CASE InitAlloc \/ InitNoMem \/ InitFields \/ InitCdev \/ InitDone
      BY <1>1, <1>3 DEF InitAlloc, InitNoMem, InitFields, InitCdev, InitDone,
                        procVars, life
<1>4. CASE Rmmod \/ CleanupTrim \/ CleanupFree \/ UNCHANGED vars
      BY <1>1, <1>4 DEF Rmmod, CleanupTrim, CleanupFree, vars, procVars, life
<1>5. CASE CleanupDel
  <2>1. next \in Devs
        BY <1>5 DEF CleanupDel, IInv, LifeInv, ModuleInv, ModuleTypeOK, Devs
  <2> QED BY <1>5, <2>1, FreedSettles DEF CleanupDel
<1>6. CASE CleanupRegion
  <2>1. ASSUME NEW r \in Readers PROVE rd[r].list = "null"
        BY <1>6, <2>1 DEF CleanupRegion, InFile, IInv, LifeInv, ModuleInv,
           InProc
  <2> QED BY <1>6, <2>1 DEF CleanupRegion, procVars, IInv, AllSound,
     ReaderSound, Settled
<1>7. ASSUME NEW f \in ProcFiles, CleanupProc(f) PROVE AllSound'
      BY <1>7 DEF CleanupProc, life, IInv, AllSound, ReaderSound, Settled,
         NoRead
<1>8. ASSUME NEW i \in Devs, User(i) PROVE AllSound'
  <2>1. CASE Leave(i) /\ dev[i].in = "trim"
        BY <2>1, FreedSettles DEF Leave, life, IInv, LifeInv, ModuleInv, Inside
  <2>2. CASE Leave(i) /\ dev[i].in # "trim"
        BY <1>1, <2>2 DEF Leave, life
  <2>3. CASE Open(i) \/ Close(i) \/ \E how \in {"call", "trim"} : Enter(i, how)
        BY <1>1, <2>3 DEF Open, Close, Enter, procVars, life
  <2>4. CASE Die(i) /\ UNCHANGED rd
        BY <1>1, <2>4 DEF Die, life
  <2>5. CASE Die(i) /\ ~UNCHANGED rd
        BY <2>5, FreedSettles DEF Die, life, IInv, LifeInv, ModuleInv, Inside
  <2> QED BY <1>8, <2>1, <2>2, <2>3, <2>4, <2>5 DEF User
<1>9. ASSUME NEW r \in Readers, Reader(r), UNCHANGED life PROVE AllSound'
      BY <1>9, ReaderSettles
<1> QED BY <1>2, <1>3, <1>4, <1>5, <1>6, <1>7, <1>8, <1>9 DEF Next, Cleanup

(***************************************************************************)
(* The inductive invariant holds throughout.                               *)
(***************************************************************************)
LEMMA IInvHolds == Spec => []IInv
<1>1. Init => IInv
      BY LifeInvInit, AllSoundInit DEF IInv
<1>2. IInv /\ [Next]_vars => IInv'
      BY LifeInvStep, AllSoundStep DEF IInv
<1> QED BY <1>1, <1>2, PTL DEF Spec

(***************************************************************************)
(* How far scull_init_module and scull_cleanup_module have come tells      *)
(* which devices can be in use; the semaphore of an initialised device is  *)
(* free unless one call or one reader of the proc files has it, or someone *)
(* died with it; a reader of scullseq that has a list has the semaphore.   *)
(***************************************************************************)
THEOREM ProcInvHolds == Spec => []ProcInv
<1>1. IInv => ProcInv
      BY DEF IInv, LifeInv, AllSound, ReaderSound, ProcInv, ReadsSound
<1> QED BY <1>1, IInvHolds, PTL

(***************************************************************************)
(* scull_seq_show loads the list once it has the semaphore, and a trim     *)
(* needs that too: until rmmod, what scullseq shows is there.              *)
(***************************************************************************)
THEOREM SeqSafeHolds == Spec => []SeqSafeUntilUnload
<1>1. IInv => SeqSafeUntilUnload
      BY DEF IInv, AllSound, ReaderSound, Settled, SeqSafeUntilUnload
<1> QED BY <1>1, IInvHolds, PTL

(***************************************************************************)
(* scull_read_procmem tests its limit before every device, so that no read *)
(* passes it by more than a line and the quanta of one item, for any limit *)
(* and any lists.                                                          *)
(***************************************************************************)
THEOREM ProcmemBoundedHolds == Spec => []ProcmemBounded
<1>1. IInv => ProcmemBounded
      BY DEF IInv, AllSound, ReaderSound, Settled, ProcmemBounded
<1> QED BY <1>1, IInvHolds, PTL

(***************************************************************************)
(* A list that a reader holds the semaphore for is not freed, whatever     *)
(* trims come meanwhile: only scull_cleanup_module does that.              *)
(***************************************************************************)
THEOREM HeldListStaysHolds == Spec => HeldListStays
<1> DEFINE Stays == \A r \in Readers :
                      rd[r].list = "list" /\ rd'[r].list = "freed"
                        => rd[r].pc = "down" \/ mod = "exit"
<1>1. ASSUME IInv, [Next]_vars PROVE [Stays]_vars
  <2> SUFFICES ASSUME NEW r \in Readers, rd[r].list = "list",
                      rd'[r].list = "freed", Next
               PROVE  rd[r].pc = "down" \/ mod = "exit"
      BY <1>1
  <2>1. rd \in [Readers -> RdType] /\ rd[r].pc \in {"down", "walk"}
        BY <1>1 DEF IInv, LifeInv, ModuleInv, ModuleTypeOK, AllSound,
           ReaderSound, Settled
  <2>2. rd' # rd
        OBVIOUS
  <2>3. ASSUME NEW i \in Devs, User(i) PROVE rd[r].pc = "down" \/ mod = "exit"
    <3>1. dev[i].in = "trim" /\ Invalidate(i)
          BY <2>2, <2>3 DEF User, Open, Close, Enter, Leave, Die, procVars
    <3>2. rd[r].pos = i
          BY <3>1 DEF Invalidate
    <3> QED BY <1>1, <2>1, <3>1, <3>2 DEF IInv, LifeInv, ModuleInv, Inside,
       Walks
  <2>4. ASSUME NEW q \in Readers, Reader(q) PROVE FALSE
    <3>1. ASSUME NEW pos, Stop(q, pos) PROVE FALSE
          BY <2>1, <3>1 DEF Stop, Reads, NoRead
    <3>2. PICK x : Reads(q, x)
          BY <2>4, <3>1
          DEF Reader, Reading, ReadMem, OpenSeq, CloseSeq, SeqStart, Down,
              Interrupted, LoadList, MemDone, MemWalk, SeqWalk, Touch
    <3>3. q = r /\ x.list = "freed"
          BY <2>1, <3>2 DEF Reads
    <3>4. NoRead.list = "null" /\ rd[r] \in RdType
          BY <2>1 DEF NoRead
    <3>5. CASE ReadMem(r) \/ OpenSeq(r) \/ CloseSeq(r) \/ SeqStart(r)
          BY <2>1, <3>4, <3>5 DEF ReadMem, OpenSeq, CloseSeq, SeqStart, Reads,
             NoRead
    <3>6. CASE Down(r) \/ LoadList(r)
      <4>1. \A i : ListOf(i) # "freed"
            BY DEF ListOf
      <4>2. CASE Down(r)
        <5>1. rd'[r].list = IF rd[r].file = "scullseq" THEN ListOf(rd[r].pos)
                            ELSE rd[r].list
              BY <2>1, <3>4, <4>2 DEF Down, Reads, RdType
        <5> QED BY <4>1, <5>1
      <4>3. CASE LoadList(r)
        <5>1. rd'[r].list = ListOf(rd[r].pos)
              BY <2>1, <3>4, <4>3 DEF LoadList, Reads, RdType
        <5> QED BY <4>1, <5>1
      <4> QED BY <3>6, <4>2, <4>3
    <3>7. CASE Touch(r)
          BY <2>1, <3>4, <3>7 DEF Touch, Reads, RdType
    <3>8. CASE MemWalk(r)
          BY <2>1, <3>4, <3>8 DEF MemWalk, Reads, RdType
    <3>9. CASE SeqWalk(r)
          BY <2>1, <3>1, <3>3, <3>4, <3>9 DEF SeqWalk, Reads, RdType
    <3>10. CASE Interrupted(r) \/ MemDone(r)
           BY <3>1, <3>3, <3>10 DEF Interrupted, MemDone
    <3> QED BY <2>4, <3>3, <3>5, <3>6, <3>7, <3>8, <3>9, <3>10 DEF Reader,
       Reading
  <2>5. mod = "exit" \/ UNCHANGED rd \/ (\E i \in Devs : User(i))
          \/ (\E q \in Readers : Reader(q))
        BY DEF Next, Cleanup, InitRegion, InitAlloc, InitNoMem, InitFields,
           InitCdev,
               InitDone, Rmmod, CleanupTrim, CleanupDel, CleanupFree, CleanupRegion,
               CleanupProc, procVars
  <2> QED BY <2>2, <2>3, <2>4, <2>5
<1> QED BY <1>1, IInvHolds, PTL DEF Spec, HeldListStays
=============================================================================
