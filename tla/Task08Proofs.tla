---------------------------- MODULE Task08Proofs ------------------------------
(***************************************************************************)
(* Proofs about Task08, for any number of tasks and open files, any page,  *)
(* any id and any texts.  The argument about foo: the semaphore is never   *)
(* given back, so once a write has taken it, and may leave its error in    *)
(* size, no read copies until the module is loaded again; and then nobody  *)
(* is in a call on foo, for an open foo keeps the module.                  *)
(***************************************************************************)
EXTENDS Task08, TLAPS, FiniteSetTheorems, SequenceTheorems, WellFoundedInduction

-----------------------------------------------------------------------------
(* The id check.                                                           *)

\* A set of positions that is not empty has a first one.
LEMMA FirstIsMin ==
  ASSUME NEW I \in SUBSET Nat, I # {}
  PROVE  Min(I) \in I /\ \A i \in I : Min(I) <= i
<1> DEFINE Less == OpToRel(<, Nat)
<1>1. PICK i \in I : \A j \in I : <<j, i>> \notin Less
      BY NatLessThanWellFounded, WFMin
<1>2. \A j \in I : j < i => <<j, i>> \in Less
  <2> TAKE j \in I
  <2>1. <<j, i>>[1] = j /\ <<j, i>>[2] = i /\ <<j, i>> \in Nat \X Nat
        OBVIOUS
  <2> QED BY <2>1 DEF OpToRel
<1> HIDE DEF Less
<1>3. ASSUME NEW j \in I PROVE i <= j
  <2>1. ~(j < i)
        BY <1>1, <1>2
  <2>2. i \in Nat /\ j \in Nat
        OBVIOUS
  <2> QED BY <2>1, <2>2
<1> QED BY <1>3 DEF Min

\* What strcmp sees of a buffer: all of it, or what is before the first NUL.
LEMMA CStringEnds ==
  ASSUME NEW b \in Seq(Byte), CString(b) = idstr, Len(b) = IdBufferLen
  PROVE  b[IdBufferLen] = NUL /\ \A i \in 1 .. Len(idstr) : b[i] = idstr[i]
<1> DEFINE I == {i \in 1 .. Len(b) : b[i] = NUL}
           k == Min(I)
<1>1. idstr \in Seq(Byte) /\ Len(idstr) \in Nat /\ IdBufferLen = Len(idstr) + 1
      BY IdConstants DEF IdBufferLen
<1>2. I # {}
      BY <1>1 DEF CString, SelectInSeq
<1>3. k \in I
  <2>1. I \in SUBSET Nat
        OBVIOUS
  <2> HIDE DEF I
  <2> QED BY <1>2, <2>1, FirstIsMin
<1>4. idstr = SubSeq(b, 1, k - 1)
      BY <1>2, <1>3 DEF CString, SelectInSeq
<1> HIDE DEF k
<1>5. k \in 1 .. Len(b) /\ b[k] = NUL
      BY <1>3
<1>6. Len(idstr) = k - 1 /\ \A i \in 1 .. k - 1 : idstr[i] = b[i]
      BY <1>4, <1>5, SubSeqProperties
<1> QED BY <1>1, <1>5, <1>6

(***************************************************************************)
(* misc_write accepts n bytes of a text, with any stack before them, only  *)
(* when they are the id, or the id and a NUL.                              *)
(***************************************************************************)
LEMMA VerdictSound ==
  ASSUME NEW s \in Seq(Byte), NEW junk \in Stacks, NEW n \in Int,
         n <= IdBufferLen, n <= Len(s), IdVerdict(s, n, junk) >= 0
  PROVE  IsId(s, n)
<1> DEFINE L == Len(idstr)
           b == InputId(s, n, junk)
<1>1. /\ idstr \in Seq(Byte) /\ L \in Nat /\ IdBufferLen = L + 1 /\ NUL \in Byte
      /\ \A i \in 1 .. L : idstr[i] # NUL
      BY IdConstants DEF IdBufferLen
<1>2. n >= 0 /\ CString(b) = idstr
      BY DEF IdVerdict, EINVAL
<1>3. b \in Seq(Byte) /\ Len(b) = IdBufferLen
  <2>1. ASSUME NEW i \in 1 .. IdBufferLen PROVE b[i] \in Byte
        BY <1>1, <1>2, <2>1 DEF InputId, Stacks
  <2>2. b = [i \in 1 .. IdBufferLen |-> b[i]]
        BY DEF InputId
  <2> HIDE DEF b
  <2>3. IdBufferLen \in Nat
        BY <1>1
  <2>4. b \in [1 .. IdBufferLen -> Byte]
        BY <2>1, <2>2
  <2> QED BY <2>3, <2>4, SeqDef, LenProperties
<1>4. \A i \in 1 .. IdBufferLen :
        b[i] = IF i <= n THEN s[i] ELSE IF i = n + 1 THEN NUL ELSE junk[i]
      BY DEF InputId
<1> HIDE DEF b, L
<1>5. b[L + 1] = NUL /\ \A i \in 1 .. L : b[i] = idstr[i]
      BY <1>1, <1>2, <1>3, CStringEnds DEF L
<1>6. n >= L
  <2>1. n < L => n + 1 \in 1 .. L /\ b[n + 1] = NUL
        BY <1>1, <1>2, <1>4
  <2> QED BY <1>1, <1>2, <1>5, <2>1
<1>7. \A i \in 1 .. L : s[i] = idstr[i]
      BY <1>1, <1>4, <1>5, <1>6
<1>8. CASE n = L
  <2>1. SubSeq(s, 1, n) = idstr
        BY <1>1, <1>7, <1>8, SubSeqProperties, SeqEqual DEF L
  <2> QED BY <2>1 DEF IsId
<1>9. CASE n = L + 1
  <2>1. s[L + 1] = NUL
        BY <1>1, <1>4, <1>5, <1>9
  <2>2. SubSeq(s, 1, n) = idstr \o <<NUL>>
        BY <1>1, <1>7, <1>9, <2>1, SubSeqProperties, SeqEqual, ConcatProperties
           DEF L
  <2> QED BY <2>2 DEF IsId
<1> QED BY <1>1, <1>6, <1>8, <1>9

-----------------------------------------------------------------------------
(* The operators the actions are built from.                               *)

\* foo is the last entry that init makes, and the only one of its name.
LEMMA EntriesShape ==
  ASSUME patch \in {"02", "12", "22"}
  PROVE  /\ Len(Entries) \in Nat /\ Len(Entries) > 1
         /\ \A i \in 1 .. Len(Entries) : Entries[i] = "foo" => i = Len(Entries)
  BY DEF Entries, Patch02, Patch12, Patch22

\* A transfer is cut to what is there.
LEMMA CutBounds ==
  ASSUME NEW from \in Nat, NEW count \in Nat, NEW n \in Nat
  PROVE  /\ Cut(from, count, n) \in Nat /\ Cut(from, count, n) <= n
         /\ Cut(from, count, n) > 0 => from + Cut(from, count, n) <= n
  BY DEF Cut

\* A copy of m bytes delivers at most these, or an error.
LEMMA ResultsBounds ==
  ASSUME NEW m \in Nat, NEW r \in Results(m)
  PROVE  r \in Int /\ -EFAULT <= r /\ r <= m
  BY DEF Results, EFAULT

\* Who waits to read, after one task has gone on.
LEMMA WaitsAfter ==
  ASSUME NEW t \in Tasks, NEW c, call \in [Tasks -> CallType], Becomes(t, c)
  PROVE  WaitingReads' = IF c.pc = "down" /\ c.op = "read"
                         THEN WaitingReads \cup {t} ELSE WaitingReads \ {t}
  BY DEF Becomes, WaitingReads, Waits

\* The waiting readers can be counted.
LEMMA WaitsFinite == IsFiniteSet(WaitingReads) /\ Cardinality(WaitingReads) \in Nat
<1>1. WaitingReads \in SUBSET Tasks
      BY DEF WaitingReads
<1> QED BY <1>1, Task08Constants, FS_Subset, FS_CardinalityType

(***************************************************************************)
(* What every step keeps: the module's invariant, and the properties about *)
(* single reads and writes, each of which needs it.                        *)
(***************************************************************************)
IInv == Task08Inv /\ ReadInPage /\ IdChecked

\* While foo is not made, or no file is open, nobody is in a call on it.
LEMMA NobodyInFoo ==
  ASSUME IInv,
         made < Len(Entries) \/ \A f \in Files : file[f].live => file[f] = Closed
  PROVE  \A t \in Tasks : call[t].pc \notin {"down", "copy", "ret"}
<1> SUFFICES ASSUME NEW t \in Tasks, call[t].pc \in {"down", "copy", "ret"}
             PROVE  FALSE
    OBVIOUS
<1> DEFINE f == call[t].file
<1>1. f \in Files /\ file[f].name = "foo" /\ file[f].live
      BY DEF IInv, Task08Inv, InFoo
<1>2. file[f] # Closed
      BY <1>1 DEF Closed
<1>3. PICK i \in 1 .. made : Entries[i] = "foo"
      BY <1>1 DEF IInv, Task08Inv, Opened
<1>4. made \in 0 .. Len(Entries) /\ patch \in {"02", "12", "22"}
      BY DEF IInv, Task08Inv, TypeOK
<1> QED BY <1>1, <1>2, <1>3, <1>4, EntriesShape

(***************************************************************************)
(* A step of a task in foo (t, to c), which leaves the module and the      *)
(* names of the files alone, keeps what init and the files have to do with *)
(* each other.                                                             *)
(***************************************************************************)
Fitting(c) ==
  /\ c \in CallType
  /\ c.pc \in {"down", "copy", "ret"} =>
       /\ c.file \in Files /\ c.op \in {"read", "write"}
       /\ file[c.file].name = "foo" /\ file[c.file].live
       /\ c.val > 0 => c.from + c.val <= PAGE_SIZE

LEMMA CallFits ==
  ASSUME IInv, NEW t \in Tasks, NEW c, Fitting(c), Becomes(t, c), UNCHANGED file
  PROVE  call' \in [Tasks -> CallType] /\ InFoo'
  BY DEF IInv, Task08Inv, TypeOK, InFoo, Becomes, Fitting

-----------------------------------------------------------------------------
\* The start: nothing is loaded and no file is open.
LEMMA IInvInit == Init => IInv
<1> SUFFICES ASSUME Init PROVE IInv
    OBVIOUS
<1> USE Task08Constants
<1>1. Closed \in FileType /\ NoCall \in CallType /\ Closed.name = "none"
      BY DEF Closed, FileType, NoCall, CallType, EFAULT
<1>2. file \in [Files -> FileType] /\ \A f \in Files : file[f].name = "none"
      BY <1>1 DEF Init
<1>3. TypeOK
  <2>1. /\ patch \in {"02", "12", "22"} /\ mod \in {"out", "init", "in"}
        /\ page \in BOOLEAN /\ beyond \in BOOLEAN /\ fooled \in BOOLEAN
        BY DEF Init
  <2>2. made \in 0 .. Len(Entries) /\ size \in -EFAULT .. PAGE_SIZE
        BY <2>1, EntriesShape DEF Init, EFAULT
  <2>3. sem \in [readers : 0 .. MaxReads, writer : BOOLEAN]
        BY DEF Init, Unheld
  <2>4. call \in [Tasks -> CallType]
        BY <1>1 DEF Init
  <2> QED BY <1>2, <2>1, <2>2, <2>3, <2>4 DEF TypeOK
<1>4. Reached /\ Opened /\ InFoo
      BY <1>2 DEF Init, Reached, Opened, InFoo, NoCall
<1>5. WaitingReads = {}
      BY DEF Init, WaitingReads, Waits, NoCall
<1>6. Guarded
      BY <1>5, FS_EmptySet DEF Init, Guarded, Inside, NoCall, Unheld
<1> QED BY <1>3, <1>4, <1>6 DEF Init, IInv, Task08Inv, ReadInPage, IdChecked

\* Files that lose their module keep their names; those open are not live.
LEMMA OrphansLeft ==
  ASSUME IInv, Orphans
  PROVE  /\ file' \in [Files -> FileType]
         /\ \A f \in Files : file'[f].name = file[f].name /\ file'[f].pos = file[f].pos
         /\ \A f \in Files : file'[f].live => file'[f] = Closed
         /\ \A f \in Files : file[f] = Closed => file'[f] = Closed
<1>1. file \in [Files -> FileType] /\ Closed \in FileType
      BY DEF IInv, Task08Inv, TypeOK, FileType, Closed
<1> QED BY <1>1 DEF Orphans, FileType

\* What init and cleanup do keeps the invariant.
LEMMA LoadStep ==
  ASSUME IInv,
         InitAlloc \/ InitMake \/ InitNoRoot \/ InitSubError \/ InitDone \/ Cleanup
  PROVE  IInv'
<1> USE Task08Constants
<1>0. /\ patch \in {"02", "12", "22"} /\ made \in 0 .. Len(Entries)
      /\ Len(Entries) \in Nat /\ Len(Entries) > 1
      BY EntriesShape DEF IInv, Task08Inv, TypeOK
<1>1. patch' = patch /\ Entries' = Entries
      BY DEF InitAlloc, InitMake, InitNoRoot, InitSubError, InitDone, Cleanup,
         Entries
<1>2. UNCHANGED <<call, beyond, fooled>>
      BY DEF InitAlloc, InitMake, InitNoRoot, InitSubError, InitDone, Cleanup
<1>3. ReadInPage' /\ IdChecked'
      BY <1>2 DEF IInv, Task08Inv, ReadInPage, IdChecked
<1>4. WaitingReads' = WaitingReads /\ \A t \in Tasks, op \in {"read", "write"} :
                                      Inside(t, op)' <=> Inside(t, op)
      BY <1>2 DEF WaitingReads, Waits, Inside
<1>5. CASE InitAlloc
  <2>1. made = 0 /\ \A t \in Tasks : call[t].pc \notin {"down", "copy", "ret"}
        BY <1>0, <1>5, NobodyInFoo DEF InitAlloc, IInv, Task08Inv, Reached
  <2>2. TypeOK'
    <3>4. page' \in BOOLEAN
          BY <1>5 DEF InitAlloc
    <3>1. size' \in -EFAULT .. PAGE_SIZE /\ file' = file
          BY <1>5 DEF InitAlloc, EFAULT
    <3>2. sem' \in [readers : 0 .. MaxReads, writer : BOOLEAN]
          BY <1>5 DEF InitAlloc, Unheld
    <3>3. made' = made /\ mod' = "init"
          BY <1>5 DEF InitAlloc
    <3> QED BY <1>1, <1>2, <3>1, <3>2, <3>3, <3>4 DEF IInv, Task08Inv, TypeOK
  <2>3. Reached' /\ Opened' /\ InFoo'
        BY <1>1, <1>2, <1>5, <2>1 DEF InitAlloc, IInv, Task08Inv, Reached,
           Opened,
           InFoo
  <2>4. WaitingReads' = {}
        BY <1>4, <2>1 DEF WaitingReads, Waits
  <2>5. Guarded'
        BY <1>4, <1>5, <2>1, <2>4, FS_EmptySet DEF InitAlloc, Guarded, Unheld,
           Inside
  <2> QED BY <1>3, <2>2, <2>3, <2>5 DEF IInv, Task08Inv
<1>6. CASE InitMake \/ InitNoRoot \/ InitDone
  <2>1. TypeOK'
        BY <1>0, <1>1, <1>2, <1>6
        DEF InitMake, InitNoRoot, InitDone, IInv, Task08Inv, TypeOK
  <2>2. Reached' /\ InFoo'
        BY <1>0, <1>1, <1>2, <1>6
        DEF InitMake, InitNoRoot, InitDone, IInv, Task08Inv, Reached, InFoo
  <2>3. Opened'
    <3>1. made' \in Nat /\ made <= made' /\ file' = file
          BY <1>0, <1>6 DEF InitMake, InitNoRoot, InitDone
    <3>2. \A i \in 1 .. made : i \in 1 .. made'
          BY <1>0, <3>1
    <3> QED BY <1>1, <3>1, <3>2 DEF IInv, Task08Inv, Opened
  <2>4. Guarded'
        BY <1>4, <1>6 DEF InitMake, InitNoRoot, InitDone, IInv, Task08Inv,
           Guarded
  <2> QED BY <1>3, <2>1, <2>2, <2>3, <2>4 DEF IInv, Task08Inv
<1>7. CASE InitSubError \/ Cleanup
  <2>1. \A t \in Tasks : call[t].pc \notin {"down", "copy", "ret"}
        BY <1>0, <1>7, NobodyInFoo DEF InitSubError, Cleanup
  <2>2. Orphans /\ made' = 0 /\ mod' = "out" /\ page' = FALSE /\ UNCHANGED <<size, sem>>
        BY <1>7 DEF InitSubError, Cleanup
  <2>3. TypeOK'
    <3>1. /\ file' \in [Files -> FileType]
          /\ \A f \in Files : file'[f].name = file[f].name /\ file'[f].pos = file[f].pos
          BY <2>2, OrphansLeft
    <3>2. \A f \in Files : /\ file'[f].name = "foo" => file'[f].pos <= PAGE_SIZE
                           /\ file'[f].name = "id" => file'[f].pos <= IdTextLen
          BY <3>1 DEF IInv, Task08Inv, TypeOK
    <3>6. page' \in BOOLEAN /\ mod' \in {"out", "init", "in"}
          BY <2>2
    <3>3. patch' \in {"02", "12", "22"} /\ made' \in 0 .. Len(Entries')
      <4>1. Len(Entries') = Len(Entries)
            BY <1>1
      <4>2. made' \in 0 .. Len(Entries)
            BY <1>0, <2>2
      <4>3. patch' \in {"02", "12", "22"}
            BY <1>0, <1>1
      <4> QED BY <4>1, <4>2, <4>3
    <3>4. /\ size' \in -EFAULT .. PAGE_SIZE
          /\ sem' \in [readers : 0 .. MaxReads, writer : BOOLEAN]
          BY <2>2 DEF IInv, Task08Inv, TypeOK
    <3>5. call' \in [Tasks -> CallType] /\ beyond' \in BOOLEAN /\ fooled' \in BOOLEAN
          BY <1>2 DEF IInv, Task08Inv, TypeOK
    <3> QED BY <3>1, <3>2, <3>3, <3>4, <3>5, <3>6 DEF TypeOK
  <2>4. Reached' /\ InFoo'
        BY <1>2, <2>1, <2>2 DEF Reached, InFoo
  <2>5. Opened'
        BY <2>2, OrphansLeft DEF IInv, Task08Inv, Opened, Closed
  <2>6. Guarded'
        BY <1>4, <2>2 DEF IInv, Task08Inv, Guarded
  <2> QED BY <1>3, <2>3, <2>4, <2>5, <2>6 DEF IInv, Task08Inv
<1> QED BY <1>5, <1>6, <1>7

(***************************************************************************)
(* A step that opens or closes a file, or moves its position, and changes  *)
(* nothing else that the invariant is about, keeps it.                     *)
(***************************************************************************)
LEMMA FileStep ==
  ASSUME IInv, NEW f \in Files, NEW x \in FileType,
         file' = [file EXCEPT ![f] = x], UNCHANGED <<module, size, sem, call, beyond>>,
         fooled' = FALSE,
         x.name = "foo" => x.pos <= PAGE_SIZE, x.name = "id" => x.pos <= IdTextLen,
         x.name = "none" => x = Closed,
         x.live /\ x.name # "none" => \E i \in 1 .. made : Entries[i] = x.name,
         \A t \in Tasks : call[t].pc \in {"down", "copy", "ret"} /\ call[t].file = f
                            => x.name = "foo" /\ x.live
  PROVE  IInv'
<1>1. Entries' = Entries /\ UNCHANGED <<patch, mod, made, page>>
      BY DEF module, Entries
<1>2. file \in [Files -> FileType]
      BY DEF IInv, Task08Inv, TypeOK
<1>3. TypeOK'
      BY <1>1, <1>2 DEF IInv, Task08Inv, TypeOK
<1>4. Reached' /\ ReadInPage' /\ IdChecked'
      BY <1>1 DEF IInv, Task08Inv, Reached, ReadInPage, IdChecked
<1>5. Opened'
      BY <1>1, <1>2 DEF IInv, Task08Inv, Opened
<1>6. InFoo'
      BY <1>2 DEF IInv, Task08Inv, InFoo
<1>7. Guarded'
      BY DEF IInv, Task08Inv, Guarded, WaitingReads, Waits, Inside
<1> QED BY <1>3, <1>4, <1>5, <1>6, <1>7 DEF IInv, Task08Inv

\* Every call on id and jiffies, every open and every close keeps it.
LEMMA FileSteps ==
  ASSUME IInv, NEW f \in Files,
         \/ Close(f)
         \/ \E name \in {"id", "jiffies", "foo"} : Open(f, name)
         \/ \E t \in Tasks : ReadText(t, f) \/ WriteId(t, f)
  PROVE  IInv'
<1> USE Task08Constants, IdConstants
<1>0. /\ file \in [Files -> FileType] /\ file[f] \in FileType /\ fooled = FALSE
      /\ IdTextLen \in Nat /\ IdBufferLen = IdTextLen
      BY DEF IInv, Task08Inv, TypeOK, IdChecked, IdTextLen, IdBufferLen
<1>1. CASE Close(f)
  <2>1. Closed \in FileType /\ Closed.name = "none"
        BY DEF Closed, FileType
  <2>2. \A t \in Tasks : ~(call[t].pc \in {"down", "copy", "ret"} /\ call[t].file = f)
        BY <1>1 DEF Close, InUse
  <2>3. /\ file' = [file EXCEPT ![f] = Closed]
        /\ UNCHANGED <<module, size, sem, call, beyond>> /\ fooled' = FALSE
        BY <1>0, <1>1 DEF Close
  <2> QED BY <2>1, <2>2, <2>3, FileStep
<1>2. ASSUME NEW name \in {"id", "jiffies", "foo"}, Open(f, name) PROVE IInv'
  <2> DEFINE x == [Closed EXCEPT !.name = name]
  <2>1. x \in FileType /\ x.name = name /\ x.pos = 0
        BY DEF Closed, FileType
  <2>2. file' = [file EXCEPT ![f] = x]
        BY <1>0, <1>2 DEF Open
  <2>3. \A t \in Tasks : ~(call[t].pc \in {"down", "copy", "ret"} /\ call[t].file = f)
        BY <1>2 DEF Open, IInv, Task08Inv, InFoo, Closed
  <2>4. \E i \in 1 .. made : Entries[i] = name
        BY <1>2 DEF Open
  <2> HIDE DEF x
  <2>5. /\ x.name = "foo" => x.pos <= PAGE_SIZE
        /\ x.name = "id" => x.pos <= IdTextLen
        /\ x.name # "none"
        BY <1>0, <2>1
  <2>6. UNCHANGED <<module, size, sem, call, beyond>> /\ fooled' = FALSE
        BY <1>0, <1>2 DEF Open
  <2> QED BY <2>1, <2>2, <2>3, <2>4, <2>5, <2>6, FileStep
<1>3. ASSUME NEW pos \in Nat, file' = [file EXCEPT ![f] = [file[f] EXCEPT !.pos = pos]],
             file[f].name \in {"id", "jiffies"}, file[f].live, ~InUse(f),
             file[f].name = "id" => pos <= IdTextLen,
             UNCHANGED <<module, size, sem, call, beyond>>, fooled' = FALSE
      PROVE  IInv'
  <2> DEFINE x == [file[f] EXCEPT !.pos = pos]
  <2>1. x \in FileType /\ x.name = file[f].name /\ x.pos = pos /\ x.live
        BY <1>0, <1>3 DEF FileType
  <2>2. \A t \in Tasks : ~(call[t].pc \in {"down", "copy", "ret"} /\ call[t].file = f)
        BY <1>3 DEF InUse
  <2>3. \E i \in 1 .. made : Entries[i] = file[f].name
        BY <1>3 DEF IInv, Task08Inv, Opened
  <2>4. file' = [file EXCEPT ![f] = x]
        BY <1>3
  <2> HIDE DEF x
  <2>5. /\ x.name = "foo" => x.pos <= PAGE_SIZE
        /\ x.name = "id" => x.pos <= IdTextLen
        /\ x.name # "none"
        BY <1>3, <2>1
  <2>6. \E i \in 1 .. made : Entries[i] = x.name
        BY <2>1, <2>3
  <2>7. UNCHANGED <<module, size, sem, call, beyond>> /\ fooled' = FALSE
        BY <1>3
  <2> QED BY <2>1, <2>2, <2>4, <2>5, <2>6, <2>7, FileStep
<1>4. ASSUME NEW t \in Tasks, ReadText(t, f) PROVE IInv'
  <2>1. PICK count \in Counts, len \in TextLens(file[f].name) :
          \E r \in Results(Cut(file[f].pos, count, len)) :
            file' = [file EXCEPT ![f].pos = IF r > 0 THEN @ + r ELSE @]
        BY <1>4 DEF ReadText
  <2>2. count \in Nat /\ len \in Nat /\ file[f].pos \in Nat
        BY <1>0 DEF TextLens, FileType
  <2>3. PICK r \in Results(Cut(file[f].pos, count, len)) :
          file' = [file EXCEPT ![f].pos = IF r > 0 THEN @ + r ELSE @]
        BY <2>1
  <2>4. r \in Int /\ (r > 0 => file[f].pos + r <= len)
    <3>1. /\ Cut(file[f].pos, count, len) \in Nat
          /\ Cut(file[f].pos, count, len) > 0
               => file[f].pos + Cut(file[f].pos, count, len) <= len
          BY <2>2, CutBounds
    <3>2. r \in Int /\ r <= Cut(file[f].pos, count, len)
          BY <3>1, ResultsBounds
    <3> QED BY <2>2, <3>1, <3>2
  <2> DEFINE pos == IF r > 0 THEN file[f].pos + r ELSE file[f].pos
  <2>5. pos \in Nat /\ file' = [file EXCEPT ![f] = [file[f] EXCEPT !.pos = pos]]
        BY <1>0, <2>2, <2>3, <2>4
  <2>6. file[f].name = "id" => pos <= IdTextLen
        BY <2>2, <2>4 DEF TextLens, IInv, Task08Inv, TypeOK
  <2> HIDE DEF pos
  <2>7. /\ file[f].name \in {"id", "jiffies"} /\ file[f].live /\ ~InUse(f)
        /\ UNCHANGED <<module, size, sem, call, beyond>> /\ fooled' = FALSE
        BY <1>0, <1>4 DEF ReadText, CanCall
  <2> QED BY <1>3, <2>5, <2>6, <2>7
<1>5. ASSUME NEW t \in Tasks, WriteId(t, f) PROVE IInv'
  <2>0. PICK s \in Texts, junk \in Stacks :
          \E n \in Results(Cut(0, Len(s), IdBufferLen)) :
            LET r == IdVerdict(s, n, junk) IN
            /\ file' = [file EXCEPT ![f].pos = IF r >= 0 THEN r ELSE @]
            /\ fooled' = (fooled \/ (r >= 0 /\ ~IsId(s, n)))
        BY <1>5 DEF WriteId
  <2>1. PICK n \in Results(Cut(0, Len(s), IdBufferLen)) :
          LET r == IdVerdict(s, n, junk) IN
          /\ file' = [file EXCEPT ![f].pos = IF r >= 0 THEN r ELSE @]
          /\ fooled' = (fooled \/ (r >= 0 /\ ~IsId(s, n)))
        BY <2>0
  <2> DEFINE r == IdVerdict(s, n, junk)
  <2>2. s \in Seq(Byte) /\ Len(s) \in Nat
        OBVIOUS
  <2>3. n \in Int /\ n <= IdBufferLen /\ n <= Len(s)
    <3>1. Cut(0, Len(s), IdBufferLen) \in Nat /\ Cut(0, Len(s), IdBufferLen) <= IdBufferLen
          BY <1>0, <2>2, CutBounds
    <3>2. Cut(0, Len(s), IdBufferLen) <= Len(s)
          BY <1>0, <2>2 DEF Cut
    <3>3. n \in Int /\ n <= Cut(0, Len(s), IdBufferLen)
          BY <3>1, ResultsBounds
    <3> QED BY <1>0, <2>2, <3>1, <3>2, <3>3
  <2>4. r \in Int /\ (r >= 0 => r = n)
        BY <2>3 DEF IdVerdict, EINVAL
  <2>5. fooled' = FALSE
        BY <1>0, <2>1, <2>2, <2>3, VerdictSound
  <2> DEFINE pos == IF r >= 0 THEN r ELSE file[f].pos
  <2>6. file' = [file EXCEPT ![f] = [file[f] EXCEPT !.pos = pos]]
        BY <1>0, <2>1
  <2> HIDE DEF r
  <2>7. file[f].name = "id" /\ file[f].pos \in Nat /\ file[f].pos <= IdTextLen
        BY <1>0, <1>5 DEF WriteId, CanCall, IInv, Task08Inv, TypeOK, FileType
  <2>8. pos \in Nat /\ pos <= IdTextLen
        BY <1>0, <2>3, <2>4, <2>7
  <2> HIDE DEF pos
  <2> QED BY <1>3, <1>5, <2>5, <2>6, <2>7, <2>8 DEF WriteId, CanCall
<1> QED BY <1>1, <1>2, <1>4, <1>5

(***************************************************************************)
(* What a step of a task to c leaves of the invariant to prove: what the   *)
(* semaphore guards.                                                       *)
(***************************************************************************)
LEMMA CallStep ==
  ASSUME IInv, NEW t \in Tasks, NEW c, Fitting(c), Becomes(t, c),
         UNCHANGED <<module, file, fooled>>, beyond' = FALSE,
         size' \in -EFAULT .. PAGE_SIZE,
         sem' \in [readers : 0 .. MaxReads, writer : BOOLEAN], Guarded'
  PROVE  IInv'
<1>1. Entries' = Entries /\ UNCHANGED <<patch, mod, made, page>>
      BY DEF module, Entries
<1>2. call' \in [Tasks -> CallType] /\ InFoo'
      BY CallFits
<1>3. TypeOK'
      BY <1>1, <1>2 DEF IInv, Task08Inv, TypeOK
<1>4. Reached' /\ Opened' /\ ReadInPage' /\ IdChecked'
      BY <1>1 DEF IInv, Task08Inv, Reached, Opened, ReadInPage, IdChecked
<1> QED BY <1>2, <1>3, <1>4 DEF IInv, Task08Inv

(***************************************************************************)
(* A task that neither comes to wait nor to copy leaves what the semaphore *)
(* guards as it is.                                                        *)
(***************************************************************************)
LEMMA GuardedStays ==
  ASSUME IInv, NEW t \in Tasks, NEW c, c.pc \notin {"down", "copy"},
         c.pc = "ret" => Inside(t, c.op),
         Becomes(t, c), UNCHANGED sem, size' # 0 => sem.writer
  PROVE  Guarded'
<1>1. call \in [Tasks -> CallType] /\ Guarded /\ sem.readers \in Nat /\ MaxReads \in Nat
      BY Task08Constants DEF IInv, Task08Inv, TypeOK
<1>2. WaitingReads' = WaitingReads \ {t}
      BY <1>1, WaitsAfter
<1>3. Cardinality(WaitingReads') <= Cardinality(WaitingReads)
      /\ Cardinality(WaitingReads') \in Nat /\ Cardinality(WaitingReads) \in Nat
  <2>1. /\ IsFiniteSet(WaitingReads \ {t})
        /\ Cardinality(WaitingReads \ {t}) = IF t \in WaitingReads
             THEN Cardinality(WaitingReads) - 1 ELSE Cardinality(WaitingReads)
        BY WaitsFinite, FS_RemoveElement
  <2>2. Cardinality(WaitingReads \ {t}) \in Nat
        BY <2>1, FS_CardinalityType
  <2> QED BY <1>2, <2>1, <2>2, WaitsFinite
<1>4. sem'.readers + Cardinality(WaitingReads') <= MaxReads
      BY <1>1, <1>3 DEF Guarded
<1>5. \A u \in Tasks, op \in {"read", "write"} : Inside(u, op)' => Inside(u, op)
      BY <1>1 DEF Inside, Becomes
<1> QED BY <1>1, <1>4, <1>5 DEF Guarded

\* Every step of a task in a call keeps the invariant.
LEMMA CallSteps ==
  ASSUME IInv, NEW t \in Tasks,
         \/ Step(t)
         \/ \E f \in Files :
              \/ \E op \in {"read", "write"} : Enter(t, f, op)
              \/ WriteIdOops(t, f) \/ GoneOops(t, f)
  PROVE  IInv'
<1> USE Task08Constants
<1>0. /\ call \in [Tasks -> CallType] /\ call[t] \in CallType
      /\ file \in [Files -> FileType] /\ beyond = FALSE
      /\ size \in -EFAULT .. PAGE_SIZE
      /\ sem \in [readers : 0 .. MaxReads, writer : BOOLEAN] /\ Guarded
      BY DEF IInv, Task08Inv, TypeOK, ReadInPage
<1>11. /\ NoCall \in CallType /\ NoCall.pc = "idle" /\ NoCall.val = 0
       BY DEF NoCall, CallType, EFAULT
<1>1. ASSUME NEW f \in Files, NEW op \in {"read", "write"}, Enter(t, f, op)
      PROVE  IInv'
  <2> DEFINE c == [NoCall EXCEPT !.pc = "down", !.op = op, !.file = f,
                                 !.from = file[f].pos]
  <2>1. /\ file[f].name = "foo" /\ file[f].live /\ call[t].pc = "idle"
        /\ file[f].pos \in 0 .. PAGE_SIZE
    <3>1. file[f].name = "foo" /\ file[f].live /\ call[t].pc = "idle"
          BY <1>1 DEF Enter, CanCall
    <3>2. file[f].pos \in Nat /\ file[f].pos <= PAGE_SIZE
          BY <1>0, <3>1 DEF IInv, Task08Inv, TypeOK, FileType
    <3> QED BY <3>1, <3>2
  <2>2. c.pc = "down" /\ c.op = op /\ Fitting(c) /\ Becomes(t, c)
    <3>1. c \in CallType /\ c.pc = "down" /\ c.op = op /\ c.file = f /\ c.val = 0
          BY <1>11, <2>1 DEF CallType
    <3>2. Becomes(t, c)
          BY <1>1 DEF Enter
    <3> HIDE DEF c
    <3> QED BY <2>1, <3>1, <3>2 DEF Fitting
  <2>3. UNCHANGED <<module, size, sem, file, beyond, fooled>>
        BY <1>1 DEF Enter
  <2> HIDE DEF c
  <2>4. \A u \in Tasks, o \in {"read", "write"} : Inside(u, o)' <=> Inside(u, o)
        BY <1>0, <2>1, <2>2 DEF Inside, Becomes
  <2>5. t \notin WaitingReads
        BY <2>1 DEF WaitingReads, Waits
  <2>6. sem.readers + Cardinality(WaitingReads') <= MaxReads
    <3>1. CASE op = "read"
      <4>1. Cardinality(WaitingReads') = Cardinality(WaitingReads) + 1
            BY <1>0, <2>2, <2>5, <3>1, WaitsAfter, WaitsFinite, FS_AddElement
      <4>2. sem.readers + Cardinality(WaitingReads) < MaxReads /\ sem.readers \in Nat
        <5>1. sem.readers + Cardinality(WaitingReads) < MaxReads
              BY <1>1, <3>1 DEF Enter
        <5>2. sem.readers \in Nat
              BY <1>0
        <5> QED BY <5>1, <5>2
      <4> QED BY <4>1, <4>2, WaitsFinite
    <3>2. CASE op = "write"
      <4>1. WaitingReads' = WaitingReads
        <5>1. WaitingReads' = WaitingReads \ {t}
              BY <1>0, <2>2, <3>2, WaitsAfter
        <5> QED BY <2>5, <5>1
      <4> QED BY <1>0, <4>1 DEF Guarded
    <3> QED BY <3>1, <3>2
  <2>7. Guarded'
        BY <1>0, <2>3, <2>4, <2>6 DEF Guarded
  <2> QED BY <1>0, <2>2, <2>3, <2>7, CallStep
<1>2. CASE DownRead(t)
  <2> DEFINE c == [call[t] EXCEPT !.pc = "copy"]
  <2>1. call[t].pc = "down" /\ call[t].op = "read" /\ ~sem.writer
        BY <1>2 DEF DownRead, Waits
  <2>2. c.pc = "copy" /\ c.op = "read" /\ Fitting(c) /\ Becomes(t, c)
        BY <1>0, <1>2, <2>1 DEF DownRead, CallType, Fitting, IInv, Task08Inv,
           InFoo
  <2>3. /\ UNCHANGED <<module, size, file, beyond, fooled>>
        /\ sem' = [sem EXCEPT !.readers = sem.readers + 1]
        BY <1>2 DEF DownRead
  <2> HIDE DEF c
  <2>4. t \in WaitingReads
        BY <2>1 DEF WaitingReads, Waits
  <2>5. Cardinality(WaitingReads') = Cardinality(WaitingReads) - 1
        BY <1>0, <2>2, <2>4, WaitsAfter, WaitsFinite, FS_RemoveElement
  <2>6. Cardinality(WaitingReads') \in Nat
    <3>1. WaitingReads' = WaitingReads \ {t}
          BY <1>0, <2>2, WaitsAfter
    <3> QED BY <3>1, WaitsFinite, FS_RemoveElement, FS_CardinalityType
  <2>7. /\ sem.readers \in Nat /\ sem'.readers = sem.readers + 1
        /\ sem'.writer = sem.writer
        BY <1>0, <2>3
  <2>8. sem'.readers + Cardinality(WaitingReads') <= MaxReads
        BY <1>0, <2>5, <2>7, WaitsFinite DEF Guarded
  <2>9. sem' \in [readers : 0 .. MaxReads, writer : BOOLEAN]
    <3>1. sem.readers + 1 \in 0 .. MaxReads
          BY <2>6, <2>7, <2>8
    <3> QED BY <1>0, <2>3, <3>1
  <2>10. \A u \in Tasks : Inside(u, "write")' => Inside(u, "write")
         BY <1>0, <2>2 DEF Inside, Becomes
  <2>11. Guarded'
         BY <1>0, <2>1, <2>3, <2>7, <2>8, <2>10 DEF Guarded
  <2> QED BY <1>0, <2>2, <2>3, <2>9, <2>11, CallStep
<1>3. CASE DownWrite(t)
  <2> DEFINE c == [call[t] EXCEPT !.pc = "copy"]
  <2>1. /\ call[t].pc = "down" /\ call[t].op = "write"
        /\ ~sem.writer /\ sem.readers = 0
        BY <1>3 DEF DownWrite, Waits
  <2>2. c.pc = "copy" /\ c.op = "write" /\ Fitting(c) /\ Becomes(t, c)
        BY <1>0, <1>3, <2>1 DEF DownWrite, CallType, Fitting, IInv, Task08Inv,
           InFoo
  <2>3. /\ UNCHANGED <<module, size, file, beyond, fooled>>
        /\ sem' = [sem EXCEPT !.writer = TRUE]
        BY <1>3 DEF DownWrite
  <2>4. sem' \in [readers : 0 .. MaxReads, writer : BOOLEAN]
        BY <1>0, <2>3
  <2>5. sem'.writer = TRUE /\ sem'.readers = sem.readers
        BY <1>0, <2>3
  <2> HIDE DEF c
  <2>6. WaitingReads' = WaitingReads
    <3>1. t \notin WaitingReads
          BY <2>1 DEF WaitingReads, Waits
    <3>2. WaitingReads' = WaitingReads \ {t}
          BY <1>0, <2>2, WaitsAfter
    <3> QED BY <3>1, <3>2
  <2>7. \A u \in Tasks : Inside(u, "read")' => Inside(u, "read")
        BY <1>0, <2>2 DEF Inside, Becomes
  <2>8. Guarded'
        BY <1>0, <2>1, <2>5, <2>6, <2>7 DEF Guarded
  <2> QED BY <1>0, <2>2, <2>3, <2>4, <2>8, CallStep
<1>4. CASE Read(t)
  <2>1. PICK count \in Counts :
          LET c == call[t]
              m == IF size < 0 THEN count ELSE Cut(c.from, count, size) IN
          /\ beyond' = (beyond \/ c.from + m > PAGE_SIZE)
          /\ \E r \in Results(m) : Becomes(t, [c EXCEPT !.pc = "ret", !.val = r])
        BY <1>4 DEF Read
  <2>2. /\ call[t].pc = "copy" /\ call[t].op = "read"
        /\ UNCHANGED <<module, size, sem, file, fooled>>
        BY <1>4 DEF Read, Copies
  <2>3. size \in 0 .. PAGE_SIZE
    <3>1. ~(size < 0)
          BY <1>0, <2>2 DEF Guarded, Copies, Inside
    <3> QED BY <1>0, <3>1 DEF EFAULT
  <2> DEFINE m == Cut(call[t].from, count, size)
  <2>4. call[t].from \in 0 .. PAGE_SIZE /\ count \in Nat
        BY <1>0 DEF CallType
  <2>5. m \in Nat /\ m <= size /\ (m > 0 => call[t].from + m <= size)
    <3>1. call[t].from \in Nat /\ size \in Nat
          BY <2>3, <2>4
    <3> QED BY <2>4, <3>1, CutBounds
  <2>12. ~(size < 0)
         BY <2>3
  <2>6. PICK r \in Results(m) : Becomes(t, [call[t] EXCEPT !.pc = "ret", !.val = r])
        BY <2>1, <2>12
  <2>7. beyond' = (beyond \/ call[t].from + m > PAGE_SIZE)
        BY <2>1, <2>12
  <2> HIDE DEF m
  <2>8. beyond' = FALSE
    <3>1. ~(call[t].from + m > PAGE_SIZE)
          BY <2>3, <2>4, <2>5
    <3> QED BY <1>0, <2>7, <3>1
  <2>9. r \in -EFAULT .. PAGE_SIZE /\ (r > 0 => call[t].from + r <= PAGE_SIZE)
        BY <2>3, <2>4, <2>5, ResultsBounds DEF EFAULT
  <2> DEFINE c == [call[t] EXCEPT !.pc = "ret", !.val = r]
  <2>10. c.pc = "ret" /\ c.op = "read" /\ Fitting(c)
         BY <1>0, <2>2, <2>9 DEF CallType, Fitting, IInv, Task08Inv, InFoo
  <2> HIDE DEF c
  <2>11. Guarded'
    <3>1. Inside(t, c.op) /\ Becomes(t, c)
          BY <2>2, <2>6, <2>10 DEF c, Inside
    <3> QED BY <1>0, <2>2, <2>10, <3>1, GuardedStays DEF Guarded
  <2> QED BY <1>0, <2>2, <2>6, <2>8, <2>10, <2>11, CallStep DEF c
<1>5. CASE Write(t)
  <2>1. PICK count \in Counts :
          \E r \in Results(Cut(call[t].from, count, PAGE_SIZE)) :
            size' = r /\ Becomes(t, [call[t] EXCEPT !.pc = "ret", !.val = r])
        BY <1>5 DEF Write
  <2> DEFINE m == Cut(call[t].from, count, PAGE_SIZE)
  <2>2. PICK r \in Results(m) :
          size' = r /\ Becomes(t, [call[t] EXCEPT !.pc = "ret", !.val = r])
        BY <2>1
  <2>3. /\ call[t].pc = "copy" /\ call[t].op = "write" /\ sem.writer
        /\ UNCHANGED <<module, sem, file, beyond, fooled>>
        BY <1>0, <1>5 DEF Write, Copies, Inside, Guarded
  <2>4. call[t].from \in 0 .. PAGE_SIZE /\ count \in Nat
        BY <1>0 DEF CallType
  <2>5. m \in Nat /\ m <= PAGE_SIZE /\ (m > 0 => call[t].from + m <= PAGE_SIZE)
    <3>1. call[t].from \in Nat /\ PAGE_SIZE \in Nat
          BY <2>4
    <3> QED BY <2>4, <3>1, CutBounds
  <2> HIDE DEF m
  <2>6. r \in -EFAULT .. PAGE_SIZE /\ (r > 0 => call[t].from + r <= PAGE_SIZE)
        BY <2>4, <2>5, ResultsBounds DEF EFAULT
  <2> DEFINE c == [call[t] EXCEPT !.pc = "ret", !.val = r]
  <2>7. c.pc = "ret" /\ c.op = "write" /\ Fitting(c)
        BY <1>0, <2>3, <2>6 DEF CallType, Fitting, IInv, Task08Inv, InFoo
  <2> HIDE DEF c
  <2>8. Guarded'
    <3>1. Inside(t, c.op) /\ Becomes(t, c)
          BY <2>2, <2>3, <2>7 DEF c, Inside
    <3> QED BY <2>2, <2>3, <2>7, <3>1, GuardedStays
  <2> QED BY <1>0, <2>2, <2>3, <2>6, <2>7, <2>8, CallStep DEF c
<1>6. ASSUME NEW c, c.pc = "dead", Fitting(c), Becomes(t, c),
             UNCHANGED <<module, size, sem, file, beyond, fooled>>
      PROVE  IInv'
  <2>1. Guarded'
        BY <1>0, <1>6, GuardedStays DEF Guarded
  <2> QED BY <1>0, <1>6, <2>1, CallStep
<1>7. CASE WriteOops(t)
  <2> DEFINE c == [call[t] EXCEPT !.pc = "dead"]
  <2>1. c.pc = "dead" /\ Fitting(c)
        BY <1>0 DEF CallType, Fitting
  <2>2. Becomes(t, c) /\ UNCHANGED <<module, size, sem, file, beyond, fooled>>
        BY <1>7 DEF WriteOops
  <2> HIDE DEF c
  <2> QED BY <1>6, <2>1, <2>2
<1>8. ASSUME NEW f \in Files, WriteIdOops(t, f) PROVE IInv'
  <2> DEFINE c == [NoCall EXCEPT !.pc = "dead", !.op = "write", !.file = f]
  <2>1. c.pc = "dead" /\ Fitting(c)
        BY <1>11 DEF CallType, Fitting
  <2>2. Becomes(t, c) /\ UNCHANGED <<module, size, sem, file, beyond, fooled>>
        BY <1>8 DEF WriteIdOops
  <2> HIDE DEF c
  <2> QED BY <1>6, <2>1, <2>2
<1>9. ASSUME NEW f \in Files, GoneOops(t, f) PROVE IInv'
  <2> DEFINE c == [NoCall EXCEPT !.pc = "dead", !.file = f]
  <2>1. c.pc = "dead" /\ Fitting(c)
        BY <1>11 DEF CallType, Fitting
  <2>2. Becomes(t, c) /\ UNCHANGED <<module, size, sem, file, beyond, fooled>>
        BY <1>9 DEF GoneOops
  <2> HIDE DEF c
  <2> QED BY <1>6, <2>1, <2>2
<1>10. CASE Return(t)
  <2> DEFINE f == call[t].file
             pos == IF call[t].val > 0 THEN call[t].from + call[t].val ELSE file[f].pos
  <2>1. /\ f \in Files /\ file[f].name = "foo" /\ file[f].live
        /\ call[t].val > 0 => call[t].from + call[t].val <= PAGE_SIZE
        BY <1>10 DEF Return, IInv, Task08Inv, InFoo
  <2>2. /\ file' = [file EXCEPT ![f] = [file[f] EXCEPT !.pos = pos]]
        /\ Becomes(t, NoCall) /\ UNCHANGED <<module, size, sem, beyond, fooled>>
        BY <1>0, <1>10, <2>1 DEF Return
  <2>3. pos \in Nat /\ pos <= PAGE_SIZE
    <3>1. file[f].pos \in Nat /\ file[f].pos <= PAGE_SIZE
          BY <1>0, <2>1 DEF IInv, Task08Inv, TypeOK, FileType
    <3>2. call[t].from \in Nat /\ call[t].val \in Int
          BY <1>0 DEF CallType
    <3> QED BY <2>1, <3>1, <3>2
  <2> HIDE DEF f, pos
  <2>4. /\ file' \in [Files -> FileType]
        /\ \A g \in Files : file'[g].name = file[g].name /\ file'[g].live = file[g].live
        /\ file'[f].pos = pos /\ \A g \in Files : g # f => file'[g] = file[g]
        BY <1>0, <2>1, <2>2, <2>3 DEF FileType
  <2>5. /\ call' \in [Tasks -> CallType]
        /\ call'[t].pc = "idle" /\ \A u \in Tasks : u # t => call'[u] = call[u]
        BY <1>0, <1>11, <2>2 DEF Becomes
  <2>6. Entries' = Entries /\ UNCHANGED <<patch, mod, made, page>>
        BY <2>2 DEF module, Entries
  <2>7. TypeOK'
    <3>1. \A g \in Files : /\ file'[g].name = "foo" => file'[g].pos <= PAGE_SIZE
                           /\ file'[g].name = "id" => file'[g].pos <= IdTextLen
          BY <2>1, <2>3, <2>4 DEF IInv, Task08Inv, TypeOK
    <3> QED BY <2>2, <2>4, <2>5, <2>6, <3>1 DEF IInv, Task08Inv, TypeOK
  <2>8. Reached' /\ Opened'
    <3>1. file[f].name # "none" /\ \A g \in Files : file'[g].name = "none" => g # f
          BY <2>1, <2>4
    <3> QED BY <2>4, <2>6, <3>1 DEF IInv, Task08Inv, Reached, Opened
  <2>9. InFoo'
        BY <2>4, <2>5 DEF IInv, Task08Inv, InFoo
  <2>10. Guarded'
         BY <1>0, <1>11, <2>2, GuardedStays DEF Guarded
  <2>11. ReadInPage' /\ IdChecked'
         BY <2>2 DEF IInv, Task08Inv, ReadInPage, IdChecked
  <2> QED BY <2>7, <2>8, <2>9, <2>10, <2>11 DEF IInv, Task08Inv
<1> QED BY <1>1, <1>2, <1>3, <1>4, <1>5, <1>7, <1>8, <1>9, <1>10 DEF Step

-----------------------------------------------------------------------------
\* Every step of Task08 keeps the invariant.
LEMMA IInvStep == IInv /\ [Next]_vars => IInv'
<1> SUFFICES ASSUME IInv, [Next]_vars PROVE IInv'
    OBVIOUS
<1>1. CASE UNCHANGED vars
  <2>1. Entries' = Entries
        BY <1>1 DEF vars, module, Entries
  <2> QED BY <1>1, <2>1
          DEF vars, module, IInv, Task08Inv, TypeOK, Reached, Opened, InFoo, Guarded,
              ReadInPage, IdChecked, Inside, WaitingReads, Waits
<1> QED BY <1>1, LoadStep, FileSteps, CallSteps DEF Next

\* The inductive invariant holds throughout.
LEMMA IInvHolds == Spec => []IInv
  BY IInvInit, IInvStep, PTL DEF Spec

(***************************************************************************)
(* Types; only what init has made can be open, and a call on foo keeps its *)
(* module.  Who has got past down_read or down_write of foo holds the      *)
(* semaphore to the end of its call, and a size that is not 0 is that of a *)
(* writer that still holds it.  For any page, id, texts, tasks and files,  *)
(* and whatever fails.                                                     *)
(***************************************************************************)
THEOREM Task08InvHolds == Spec => []Task08Inv
<1>1. IInv => Task08Inv
      BY DEF IInv
<1> QED BY <1>1, IInvHolds, PTL

(***************************************************************************)
(* task08_write_foo never gives the semaphore back: the -EFAULT it may     *)
(* leave in size is never the size of a read.                              *)
(***************************************************************************)
THEOREM ReadInPageHolds == Spec => []ReadInPage
<1>1. IInv => ReadInPage
      BY DEF IInv
<1> QED BY <1>1, IInvHolds, PTL

(***************************************************************************)
(* task08_write_id, and misc_write, accept nothing but the id, for any id, *)
(* any text and any content of the stack under input_id.                   *)
(***************************************************************************)
THEOREM IdCheckedHolds == Spec => []IdChecked
<1>1. IInv => IdChecked
      BY DEF IInv
<1> QED BY <1>1, IInvHolds, PTL

(***************************************************************************)
(* task08_cleanup_module and sub_error leave no entry and no page; only    *)
(* the return before sub_error leaves the page.                            *)
(***************************************************************************)
THEOREM GoesCleanHolds == Spec => GoesClean
<1> DEFINE Clean == mod # "out" /\ mod' = "out" => made' = 0 /\ (page' => made = 0)
<1>1. [Next]_vars => [Clean]_vars
  <2> SUFFICES ASSUME Next, mod # "out", mod' = "out"
               PROVE  made' = 0 /\ (page' => made = 0)
      OBVIOUS
  <2>1. CASE InitNoRoot \/ InitSubError \/ Cleanup
        BY <2>1 DEF InitNoRoot, InitSubError, Cleanup
  <2>2. CASE InitAlloc \/ InitMake \/ InitDone
        BY <2>2 DEF InitAlloc, InitMake, InitDone
  <2>3. ASSUME NEW f \in Files,
               \/ Close(f)
               \/ \E name \in {"id", "jiffies", "foo"} : Open(f, name)
               \/ \E t \in Tasks :
                    \/ \E op \in {"read", "write"} : Enter(t, f, op)
                    \/ ReadText(t, f) \/ WriteId(t, f) \/ WriteIdOops(t, f)
                    \/ GoneOops(t, f)
        PROVE  FALSE
        BY <2>3 DEF Close, Open, Enter, ReadText, WriteId, WriteIdOops,
           GoneOops, module
  <2>4. ASSUME NEW t \in Tasks, Step(t) PROVE FALSE
        BY <2>4 DEF Step, DownRead, DownWrite, Read, Write, WriteOops, Return,
           module
  <2> QED BY <2>1, <2>2, <2>3, <2>4 DEF Next
<1> QED BY <1>1, PTL DEF Spec, GoesClean

(***************************************************************************)
(* An open file outlives its module only when task08_init_module fails     *)
(* after it has made the file, and foo is the last file it makes.          *)
(***************************************************************************)
THEOREM OrphansOfFailedInitHolds == Spec => OrphansOfFailedInit
<1> DEFINE Failed == \A f \in Files :
      file[f].live /\ ~file'[f].live => mod = "init" /\ file[f].name # "foo"
<1>1. IInv /\ [Next]_vars => [Failed]_vars
  <2> SUFFICES ASSUME IInv, Next, NEW f \in Files,
                      file[f].live, ~file'[f].live
               PROVE  mod = "init" /\ file[f].name # "foo"
      OBVIOUS
  <2>1. file \in [Files -> FileType] /\ Closed.live = TRUE /\ Closed \in FileType
        BY DEF IInv, Task08Inv, TypeOK, FileType, Closed
  <2>2. CASE Cleanup
    <3>1. file[f] = Closed /\ file'[f] = Closed
          BY <2>2 DEF Cleanup, Orphans
    <3> QED BY <2>1, <3>1
  <2>3. CASE InitSubError
    <3>1. mod = "init" /\ made < Len(Entries)
          BY <2>3, EntriesShape DEF InitSubError, IInv, Task08Inv, TypeOK
    <3>2. file[f].name = "foo" => \E i \in 1 .. made : Entries[i] = "foo"
          BY DEF IInv, Task08Inv, Opened
    <3>3. \A i \in 1 .. made : Entries[i] # "foo"
          BY <3>1, EntriesShape DEF IInv, Task08Inv, TypeOK
    <3> QED BY <3>1, <3>2, <3>3
  <2>4. CASE InitAlloc \/ InitMake \/ InitDone \/ InitNoRoot
        BY <2>4 DEF InitAlloc, InitMake, InitDone, InitNoRoot
  <2>5. ASSUME NEW g \in Files, NEW x, file' = [file EXCEPT ![g] = x], x.live \/ x.live = file[g].live
        PROVE  FALSE
        BY <2>1, <2>5
  <2>6. ASSUME NEW g \in Files, Close(g) \/ \E name \in {"id", "jiffies", "foo"} : Open(g, name)
        PROVE  FALSE
    <3>1. CASE Close(g)
          BY <2>1, <2>5, <3>1 DEF Close
    <3>2. CASE \E name \in {"id", "jiffies", "foo"} : Open(g, name)
          BY <2>1, <3>2 DEF Open, FileType
    <3> QED BY <2>6, <3>1, <3>2
  <2>7. ASSUME NEW g \in Files, NEW t \in Tasks,
               \/ \E op \in {"read", "write"} : Enter(t, g, op)
               \/ ReadText(t, g) \/ WriteId(t, g) \/ WriteIdOops(t, g) \/ GoneOops(t, g)
        PROVE  FALSE
        BY <2>1, <2>7 DEF Enter, ReadText, WriteId, WriteIdOops, GoneOops,
           FileType
  <2>8. ASSUME NEW t \in Tasks, Step(t) PROVE FALSE
    <3>1. CASE Return(t)
          BY <2>1, <3>1 DEF Return, FileType
    <3> QED BY <2>8, <3>1 DEF Step, DownRead, DownWrite, Read, Write, WriteOops
  <2> QED BY <2>2, <2>3, <2>4, <2>6, <2>7, <2>8 DEF Next
<1> QED BY <1>1, IInvHolds, PTL DEF Spec, OrphansOfFailedInit
=============================================================================
