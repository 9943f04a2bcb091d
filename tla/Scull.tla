------------------------------- MODULE Scull --------------------------------
(***************************************************************************)
(* One scull device (src/Scull/main.c) under concurrent system calls:      *)
(* open, release, read, write, llseek and ioctl.                           *)
(*                                                                         *)
(* The device keeps its bytes in a linked list of items; an item may have  *)
(* an array of qset pointers, and a pointer may lead to a quantum of       *)
(* bytes.  The list is modelled by its length (items), by the arrays that  *)
(* exist (arr: item -> length allocated) and by the quanta that exist      *)
(* (quanta: <<item, index>> -> the bytes).  Lengths are kept because the   *)
(* C code indexes with a geometry that it read before taking the           *)
(* semaphore and that may since have changed.                              *)
(*                                                                         *)
(* A critical section of read or write is one step: of what it changes,    *)
(* only dev->size is read without the semaphore (by llseek), in one load.  *)
(***************************************************************************)
EXTENDS ScullIoctl, Sequences

CONSTANTS
  Files,      \* struct file objects open on the device
  Bytes,      \* byte values
  Zero,       \* the byte copy_from_user pads with after a fault
  Unwritten,  \* a byte of memory nobody initialised
  Counts,     \* BOUND: transfer sizes callers ask for
  Offsets,    \* BOUND: offsets callers seek by
  MaxPos      \* BOUND: largest file position

\* Negative geometries are left out (README, "Bounds").
ASSUME DeviceConstants ==
  /\ {LoadQuantum, LoadQset} \subseteq Nat
  /\ Args \subseteq 0 .. INT_MAX
  /\ Zero \in Bytes
  /\ Unwritten \notin Bytes
  /\ Counts \subseteq Nat /\ Counts # {}
  /\ Offsets \subseteq Int
  /\ MaxPos \in Nat

VARIABLES
  items, arr, quanta,   \* dev->data: the list, its arrays and its quanta
  quantum, qset, size,  \* the fields of struct scull_dev
  sem,                  \* the counter of dev->sem
  file,                 \* f_mode and f_pos of each struct file
  call,                 \* the read, write, open or llseek each task is in
  hist                  \* history: what went wrong so far, see Note

storage == <<items, arr, quanta>>
geometry == <<quantum, qset>>
devVars == <<storage, geometry, size, sem, file, call, hist>>
vars == <<devVars, ioctlVars>>

EINVAL      == 22
ENOMEM      == 12
ERESTARTSYS == 512

Modes == {"closed", "opening", "rdonly", "wronly", "rdwr"}
Byte == Bytes \cup {Unwritten}

(***************************************************************************)
(* A call: the locals quantum and qset of read and write, the copy of      *)
(* f_pos the kernel passes by pointer, the return value and the bytes      *)
(* delivered to the user.  A task that oopses is "dead" for good.          *)
(***************************************************************************)
NoFile == "none"
NoCall == [pc |-> "idle", op |-> "none", file |-> NoFile, quantum |-> 0,
           qset |-> 0, pos |-> 0, val |-> 0, buf |-> <<>>]

DevInit ==
  /\ items = 0 /\ arr = <<>> /\ quanta = <<>>
  /\ quantum = LoadQuantum /\ qset = LoadQset /\ size = 0
  /\ sem = 1
  /\ file = [f \in Files |-> [mode |-> "closed", pos |-> 0]]
  /\ call = [t \in Tasks |-> NoCall]
  /\ hist = [raced |-> FALSE, overrun |-> FALSE, leak |-> FALSE]

Init == IoctlInit /\ DevInit

-----------------------------------------------------------------------------
(* Where a position lies, in the geometry g the caller read.               *)

Itemsize(g) == g.quantum * g.qset
Item(g, p) == p \div Itemsize(g)
Rest(g, p) == p % Itemsize(g)
SPos(g, p) == Rest(g, p) \div g.quantum
QPos(g, p) == Rest(g, p) % g.quantum
Cell(g, p) == <<Item(g, p), SPos(g, p)>>

\* A plausible slip: the offset inside the quantum is forgotten.
SpanWhole(g, p, count) == IF count > g.quantum THEN g.quantum ELSE count

\* "only up to the end of this quantum"
Span(g, p, count) ==
  IF count > g.quantum - QPos(g, p) THEN g.quantum - QPos(g, p) ELSE count

\* f with f[k] = v
Put(f, k, v) == [x \in DOMAIN f \cup {k} |-> IF x = k THEN v ELSE f[x]]

(***************************************************************************)
(* scull_follow(dev, n): the lengths the list may have afterwards.  A      *)
(* missing item is allocated; when that fails the items added so far stay  *)
(* and the result is NULL, which shows as a length of at most n.           *)
(***************************************************************************)
Follow(n) == IF n < items THEN {items} ELSE items .. n + 1

(***************************************************************************)
(* History.  raced: a critical section worked with a geometry that was no  *)
(* longer the device's.  overrun: an access reached outside an array or a  *)
(* quantum.  leak: quanta were dropped without kfree.                      *)
(***************************************************************************)
Stale(c) == c.quantum # quantum \/ c.qset # qset

Overruns(c, n) ==
  \/ Item(c, c.pos) \in DOMAIN arr /\ arr[Item(c, c.pos)] <= SPos(c, c.pos)
  \/ /\ Cell(c, c.pos) \in DOMAIN quanta
     /\ \E i \in 0 .. n - 1 : QPos(c, c.pos) + i \notin DOMAIN quanta[Cell(c, c.pos)]

Note(c, over) ==
  hist' = [hist EXCEPT !.raced = @ \/ Stale(c), !.overrun = @ \/ over]

-----------------------------------------------------------------------------
Free(t) == call[t].pc = "idle" /\ ioc[t].pc = "idle"

Becomes(t, c) == call' = [call EXCEPT ![t] = c]

InUse(f) == \E t \in Tasks : call[t].pc # "idle" /\ call[t].file = f

\* A plausible slip: a path out of the section without up().
UpMissing == sem' = sem

\* A plausible slip: the semaphore is taken whether or not it is free.
DownUnchecked == sem' = sem - 1

\* down_interruptible(&dev->sem) and up(&dev->sem)
Down == sem > 0 /\ sem' = sem - 1
Up == sem' = sem + 1

\* The end of a critical section: n bytes further, result v.
Finish(t, v, n, bytes) ==
  /\ Becomes(t, [call[t] EXCEPT !.pc = "ret", !.val = v, !.buf = bytes,
                                !.pos = call[t].pos + n])
  /\ Up

InSection(t, op) == call[t].pc = "body" /\ call[t].op = op

(***************************************************************************)
(* scull_open: a write-only open takes the semaphore and trims; any other  *)
(* open only sets private_data.                                            *)
(***************************************************************************)
Open(t, f, m) ==
  /\ Free(t) /\ file[f].mode = "closed"
  /\ IF m = "wronly"
     THEN /\ file' = [file EXCEPT ![f] = [mode |-> "opening", pos |-> 0]]
          /\ Becomes(t, [NoCall EXCEPT !.pc = "down", !.op = "open", !.file = f])
     ELSE /\ file' = [file EXCEPT ![f] = [mode |-> m, pos |-> 0]]
          /\ UNCHANGED call
  /\ UNCHANGED <<storage, geometry, size, sem, hist, ioctlVars>>

\* scull_release, once no call is using the file
Release(f) ==
  /\ file[f].mode \in {"rdonly", "wronly", "rdwr"}
  /\ ~InUse(f)
  /\ file' = [file EXCEPT ![f] = [mode |-> "closed", pos |-> 0]]
  /\ UNCHANGED <<storage, geometry, size, sem, call, hist, ioctlVars>>

\* scull_read and scull_write load dev->quantum and dev->qset first ...
LoadGeometry(t, op, f) ==
  /\ Free(t)
  /\ \/ op = "read" /\ file[f].mode \in {"rdonly", "rdwr"}
     \/ /\ op = "write" /\ file[f].mode \in {"wronly", "rdwr"}
        /\ \E count \in Counts : file[f].pos + count <= MaxPos
  /\ Becomes(t, [NoCall EXCEPT !.pc = "qset", !.op = op, !.file = f,
                                !.quantum = quantum, !.pos = file[f].pos])
  /\ UNCHANGED <<storage, geometry, size, sem, file, hist, ioctlVars>>

\* A plausible slip: the parameter is loaded in place of the device's field.
LoadGeometry2Param(t) ==
  /\ call[t].pc = "qset"
  /\ Becomes(t, [call[t] EXCEPT !.pc = "down", !.qset = param["qset"]])
  /\ UNCHANGED <<storage, geometry, size, sem, file, hist, ioctlVars>>

LoadGeometry2(t) ==
  /\ call[t].pc = "qset"
  /\ Becomes(t, [call[t] EXCEPT !.pc = "down", !.qset = qset])
  /\ UNCHANGED <<storage, geometry, size, sem, file, hist, ioctlVars>>

\* ... and only then take the semaphore,
Acquire(t) ==
  /\ call[t].pc = "down"
  /\ Down
  /\ Becomes(t, [call[t] EXCEPT !.pc = "body"])
  /\ UNCHANGED <<storage, geometry, size, file, hist, ioctlVars>>

\* A plausible slip: the result of down_interruptible is not tested.
InterruptedIgnored(t) ==
  /\ call[t].pc = "down"
  /\ Becomes(t, [call[t] EXCEPT !.pc = "body"])
  /\ UNCHANGED <<storage, geometry, size, sem, file, hist, ioctlVars>>

\* or are interrupted while waiting for it.
Interrupted(t) ==
  /\ call[t].pc = "down"
  /\ Becomes(t, [call[t] EXCEPT !.pc = "ret", !.val = -ERESTARTSYS])
  /\ UNCHANGED <<storage, geometry, size, sem, file, hist, ioctlVars>>

\* A plausible slip: the list is freed and dev->size keeps its value.
TrimKeepsSize(t) ==
  /\ InSection(t, "open")
  /\ items' = 0 /\ arr' = <<>> /\ quanta' = <<>>
  /\ quantum' = param["quantum"]
  /\ Becomes(t, [call[t] EXCEPT !.pc = "trim"])
  /\ UNCHANGED <<qset, size, sem, file, hist, ioctlVars>>

\* A plausible slip: the parameters are stored without freeing the list.
TrimKeepsList(t) ==
  /\ InSection(t, "open")
  /\ size' = 0
  /\ quantum' = param["quantum"]
  /\ Becomes(t, [call[t] EXCEPT !.pc = "trim"])
  /\ UNCHANGED <<storage, qset, sem, file, hist, ioctlVars>>

(***************************************************************************)
(* scull_trim, called by open: free everything, then store the parameters  *)
(* in the device, one after the other.  Arrays are walked up to dev->qset. *)
(***************************************************************************)
TrimFree(t) ==
  /\ InSection(t, "open")
  /\ items' = 0 /\ arr' = <<>> /\ quanta' = <<>> /\ size' = 0
  /\ quantum' = param["quantum"]
  /\ hist' = [hist EXCEPT
                !.overrun = @ \/ \E i \in DOMAIN arr : arr[i] < qset,
                !.leak = @ \/ \E x \in DOMAIN quanta : x[2] >= qset]
  /\ Becomes(t, [call[t] EXCEPT !.pc = "trim"])
  /\ UNCHANGED <<qset, sem, file, ioctlVars>>

TrimQset(t) ==
  /\ call[t].pc = "trim"
  /\ qset' = param["qset"]
  /\ Finish(t, 0, 0, <<>>)
  /\ UNCHANGED <<storage, quantum, size, file, hist, ioctlVars>>

-----------------------------------------------------------------------------
(***************************************************************************)
(* The critical section of scull_read: nothing at or after the end, at a   *)
(* hole, or when scull_follow fails; otherwise the rest of the quantum at  *)
(* most, unless copy_to_user faults.                                       *)
(***************************************************************************)
ReadPastEnd(t) ==
  /\ InSection(t, "read")
  /\ call[t].pos >= size
  /\ Finish(t, 0, 0, <<>>)
  /\ UNCHANGED <<storage, geometry, size, file, hist, ioctlVars>>

ReadHole(t) ==
  LET c == call[t] IN
  /\ InSection(t, "read")
  /\ c.pos < size /\ Itemsize(c) # 0
  /\ items' \in Follow(Item(c, c.pos))
  /\ Cell(c, c.pos) \notin DOMAIN quanta \/ items' <= Item(c, c.pos)
  /\ Note(c, Overruns(c, 0))
  /\ Finish(t, 0, 0, <<>>)
  /\ UNCHANGED <<arr, quanta, geometry, size, file, ioctlVars>>

\* The byte at offset i of a quantum; past its end, whatever is there.
ByteAt(q, i) == IF i \in DOMAIN q THEN q[i] ELSE Unwritten

ReadBytes(t) ==
  LET c == call[t]
      cell == Cell(c, c.pos) IN
  /\ InSection(t, "read")
  /\ c.pos < size /\ Itemsize(c) # 0
  /\ items' \in Follow(Item(c, c.pos)) /\ items' > Item(c, c.pos)
  /\ cell \in DOMAIN quanta
  /\ \E count \in Counts :
       LET left == IF c.pos + count > size THEN size - c.pos ELSE count
           n == Span(c, c.pos, left) IN
       /\ Note(c, Overruns(c, n))
       /\ \/ Finish(t, n, n, [i \in 1 .. n |->
                                ByteAt(quanta[cell], QPos(c, c.pos) + i - 1)])
          \/ Faulty /\ n > 0 /\ Finish(t, -EFAULT, 0, <<>>)
  /\ UNCHANGED <<arr, quanta, geometry, size, file, ioctlVars>>

(***************************************************************************)
(* The critical section of scull_write: follow the list, allocate the      *)
(* array and the quantum where missing, copy, advance, grow the size.      *)
(* Each kmalloc may fail, and what was allocated before it stays.          *)
(***************************************************************************)
WriteNoMem(t) ==
  LET c == call[t]
      item == Item(c, c.pos) IN
  /\ InSection(t, "write") /\ Itemsize(c) # 0
  /\ items' \in Follow(item)
  /\ \/ items' <= item /\ UNCHANGED arr
     \/ items' > item /\ item \notin DOMAIN arr /\ UNCHANGED arr
     \/ /\ items' > item /\ Cell(c, c.pos) \notin DOMAIN quanta
        /\ arr' = IF item \in DOMAIN arr THEN arr ELSE Put(arr, item, c.qset)
  /\ Note(c, Overruns(c, 0))
  /\ Finish(t, -ENOMEM, 0, <<>>)
  /\ UNCHANGED <<quanta, geometry, size, file, ioctlVars>>

\* A plausible slip: the size follows the last write instead of the furthest.
GrowAlways(end) == size' = end

\* if (dev->size < *f_pos) dev->size = *f_pos
Grow(end) == size' = IF size < end THEN end ELSE size

\* A plausible slip: the quantum is allocated with the length of the array.
QuantumForQset(c) ==
  IF Cell(c, c.pos) \in DOMAIN quanta
  THEN quanta[Cell(c, c.pos)]
  ELSE [i \in 0 .. c.qset - 1 |-> Unwritten]

\* The array and the quantum a write uses, allocated (not cleared) if missing.
ArrayFor(c) ==
  IF Item(c, c.pos) \in DOMAIN arr THEN arr ELSE Put(arr, Item(c, c.pos), c.qset)
QuantumFor(c) ==
  IF Cell(c, c.pos) \in DOMAIN quanta
  THEN quanta[Cell(c, c.pos)]
  ELSE [i \in 0 .. c.quantum - 1 |-> Unwritten]

\* copy_from_user of n bytes b, of which m arrive before a fault (m = n: none)
CopyIn(q, at, n, m, b) ==
  [i \in DOMAIN q |-> CASE i \in at .. at + m - 1 -> b
                       [] i \in at + m .. at + n - 1 -> Zero
                       [] OTHER -> q[i]]

WriteBytes(t) ==
  LET c == call[t]
      item == Item(c, c.pos) IN
  /\ InSection(t, "write") /\ Itemsize(c) # 0
  /\ items' \in Follow(item) /\ items' > item
  /\ arr' = ArrayFor(c)
  /\ \E count \in Counts, b \in Bytes :
       LET n == Span(c, c.pos, count) IN
       /\ c.pos + count <= MaxPos
       /\ Note(c, Overruns(c, n))
       /\ \E m \in 0 .. n :
            /\ quanta' = Put(quanta, Cell(c, c.pos),
                             CopyIn(QuantumFor(c), QPos(c, c.pos), n, m, b))
            /\ \/ m = n /\ Grow(c.pos + n) /\ Finish(t, n, n, <<>>)
               \/ m < n /\ Faulty /\ UNCHANGED size /\ Finish(t, -EFAULT, 0, <<>>)
  /\ UNCHANGED <<geometry, file, ioctlVars>>

(***************************************************************************)
(* The kernel oopses on a division by a zero itemsize, and may oops on an  *)
(* access outside an allocation.  The task dies and the semaphore stays    *)
(* taken.                                                                  *)
(***************************************************************************)
Oops(t) ==
  LET c == call[t] IN
  /\ c.pc = "body"
  /\ \/ /\ c.op = "write" \/ (c.op = "read" /\ c.pos < size)
        /\ \/ Itemsize(c) = 0 /\ UNCHANGED hist
           \/ /\ Itemsize(c) # 0
              /\ \E count \in Counts :
                   /\ Overruns(c, Span(c, c.pos, count))
                   /\ Note(c, TRUE)
     \/ /\ c.op = "open" /\ \E i \in DOMAIN arr : arr[i] < qset
        /\ hist' = [hist EXCEPT !.overrun = TRUE]
  /\ Becomes(t, [call[t] EXCEPT !.pc = "dead"])
  /\ UNCHANGED <<storage, geometry, size, sem, file, ioctlVars>>

-----------------------------------------------------------------------------
(***************************************************************************)
(* scull_llseek takes no lock: it computes the new position from f_pos or  *)
(* dev->size, and f_pos is assigned when the call returns.                 *)
(***************************************************************************)
Llseek(t, f, whence, off) ==
  /\ Free(t) /\ file[f].mode \in {"rdonly", "wronly", "rdwr"}
  /\ LET newpos == off + (CASE whence = "set" -> 0
                            [] whence = "cur" -> file[f].pos
                            [] whence = "end" -> size) IN
     /\ newpos <= MaxPos
     /\ Becomes(t, [NoCall EXCEPT !.pc = "ret", !.op = "llseek", !.file = f,
                       !.val = IF newpos < 0 THEN -EINVAL ELSE newpos,
                       !.pos = IF newpos < 0 THEN 0 ELSE newpos])
  /\ UNCHANGED <<storage, geometry, size, sem, file, hist, ioctlVars>>

(***************************************************************************)
(* Back in the kernel's system call: the position copy goes to f_pos       *)
(* unless the call failed; a failed open leaves no open file.              *)
(***************************************************************************)
Return(t) ==
  LET c == call[t] IN
  /\ c.pc = "ret"
  /\ file' = [file EXCEPT ![c.file] =
       CASE c.op = "open" /\ c.val = 0 -> [mode |-> "wronly", pos |-> 0]
         [] c.op = "open" /\ c.val # 0 -> [mode |-> "closed", pos |-> 0]
         [] c.op # "open" /\ c.val >= 0 -> [@ EXCEPT !.pos = c.pos]
         [] OTHER -> @]
  /\ Becomes(t, NoCall)
  /\ UNCHANGED <<storage, geometry, size, sem, hist, ioctlVars>>

\* The steps a call in flight takes, whoever made it.
Section(t) ==
  \/ TrimFree(t) \/ TrimQset(t)
  \/ ReadPastEnd(t) \/ ReadHole(t) \/ ReadBytes(t)
  \/ WriteNoMem(t) \/ WriteBytes(t)
  \/ Oops(t)

Begin(t) ==
  \E f \in Files :
    \/ \E m \in {"rdonly", "wronly", "rdwr"} : Open(t, f, m)
    \/ \E op \in {"read", "write"} : LoadGeometry(t, op, f)
    \/ \E whence \in {"set", "cur", "end"}, off \in Offsets :
         Llseek(t, f, whence, off)

Continue(t) ==
  LoadGeometry2(t) \/ Acquire(t) \/ Interrupted(t) \/ Section(t) \/ Return(t)

\* An ioctl is made through an open file.
IoctlBegin(t) ==
  /\ Free(t)
  /\ \E f \in Files : file[f].mode \in {"rdonly", "wronly", "rdwr"}
  /\ \E v \in Verbs, p \in Params, a \in Args : IoctlEnter(t, v, p, a)

Next ==
  \/ \E t \in Tasks : Begin(t) \/ Continue(t)
  \/ \E f \in Files : Release(f)
  \/ \E t \in Tasks : (IoctlBegin(t) \/ IoctlStep(t)) /\ UNCHANGED devVars

Spec == Init /\ [][Next]_vars

(***************************************************************************)
(* Fairness: a running task keeps running (its next step is enabled until  *)
(* it is taken), and a semaphore serves its waiters first come, first      *)
(* served, so a waiter that finds it free again and again gets it.         *)
(***************************************************************************)
FairSpec ==
  /\ Spec
  /\ \A t \in Tasks :
       /\ WF_vars(LoadGeometry2(t) \/ Section(t) \/ Return(t))
       /\ SF_vars(Acquire(t))

-----------------------------------------------------------------------------
CallPc == {"idle", "qset", "down", "body", "trim", "ret", "dead"}
CallType == [pc : CallPc, op : {"none", "open", "read", "write", "llseek"},
             file : Files \cup {NoFile}, quantum : Nat, qset : Nat,
             pos : Nat, val : Int, buf : Seq(Byte)]

(***************************************************************************)
(* Types, and the shape of the linked structure: an array belongs to an    *)
(* item of the list and a quantum to an array.                             *)
(***************************************************************************)
TypeOK ==
  /\ items \in Nat /\ quantum \in Nat /\ qset \in Nat /\ size \in Nat
  /\ sem \in Nat
  /\ arr \in [DOMAIN arr -> Nat] /\ DOMAIN arr \subseteq 0 .. items - 1
  /\ \A x \in DOMAIN quanta : quanta[x] \in [DOMAIN quanta[x] -> Byte]
  /\ DOMAIN quanta \subseteq (DOMAIN arr) \X Nat
  /\ file \in [Files -> [mode : Modes, pos : Nat]]
  /\ call \in [Tasks -> CallType]
  /\ hist \in [raced : BOOLEAN, overrun : BOOLEAN, leak : BOOLEAN]

(***************************************************************************)
(* At most one task is between down_interruptible and up, and the          *)
(* semaphore is free exactly when none is: no path of open, read or write, *)
(* interrupted or failed, leaves it taken or releases it twice.            *)
(***************************************************************************)
Holds(t) == call[t].pc \in {"body", "trim", "dead"}
Exclusive ==
  /\ sem = IF \E t \in Tasks : Holds(t) THEN 0 ELSE 1
  /\ \A t, u \in Tasks : Holds(t) /\ Holds(u) => t = u

(***************************************************************************)
(* The device's own description of its memory is true (scull.h: quantum is *)
(* "the current quantum size", qset "the current array size"): every array *)
(* has qset entries and every quantum has quantum bytes.                   *)
(***************************************************************************)
LayoutCurrent ==
  /\ \A i \in DOMAIN arr : arr[i] = qset
  /\ \A x \in DOMAIN quanta :
       x[2] < qset /\ DOMAIN quanta[x] = 0 .. quantum - 1

(***************************************************************************)
(* The list reaches the end of the file: every position before dev->size   *)
(* lies in an item that exists.                                            *)
(***************************************************************************)
Geometry == [quantum |-> quantum, qset |-> qset]
SizeBacked == size <= items * Itemsize(Geometry)

\* No access ever reached outside an allocation and trim freed every quantum.
HeapSafe == ~hist.overrun /\ ~hist.leak

(***************************************************************************)
(* The three hold together for as long as no critical section has run with *)
(* a geometry loaded before a trim that changed it: that race is the only  *)
(* way to break the device's memory.                                       *)
(***************************************************************************)
SoundUnlessRaced ==
  ~hist.raced => LayoutCurrent /\ SizeBacked /\ HeapSafe

(***************************************************************************)
(* A task that dies in the device leaves its semaphore taken for good      *)
(* (scull_read and scull_write divide by itemsize after the down).  Only a *)
(* zero parameter that the call itself has loaded can do that, and neither *)
(* a failed allocation nor a fault in the user's buffer, until the race.   *)
(***************************************************************************)
DeadOnlyOfZero ==
  \A t \in Tasks :
    call[t].pc = "dead" =>
      hist.raced \/ (call[t].op \in {"read", "write"} /\ Itemsize(call[t]) = 0)

(***************************************************************************)
(* What is true of a call in flight.  Of its answer nothing is there yet;  *)
(* only read and write load a geometry and only open trims.                *)
(***************************************************************************)
InFlight(c) ==
  /\ c.pc \in {"qset", "down", "body", "trim"} => c.val = 0 /\ c.buf = <<>>
  /\ c.pc = "qset" => c.op \in {"read", "write"}
  /\ c.pc \in {"down", "body"} => c.op \in {"open", "read", "write"}
  /\ c.pc = "trim" => c.op = "open"

Unanswered == \A t \in Tasks : InFlight(call[t])

\* No position lies beyond the largest one.
Within ==
  /\ size <= MaxPos
  /\ \A f \in Files : file[f].pos <= MaxPos
  /\ \A t \in Tasks : call[t].pos <= MaxPos

\* The list stays empty between the two stores of scull_trim.
TrimEmpty ==
  \A t \in Tasks :
    call[t].pc = "trim" =>
      items = 0 /\ size = 0 /\ DOMAIN arr = {} /\ DOMAIN quanta = {}

\* What a read or write has loaded of the geometry is the device's.
Loaded(c) ==
  c.op \in {"read", "write"} =>
    /\ c.pc \in {"qset", "down", "body"} => c.quantum = quantum
    /\ c.pc \in {"down", "body"} => c.qset = qset

Fresh == \A t \in Tasks : Loaded(call[t])

(***************************************************************************)
(* As long as a single task uses the device, or the parameters keep their  *)
(* defaults, no critical section works with a stale geometry.              *)
(***************************************************************************)
StoreInv == Unanswered /\ Within /\ TrimEmpty /\ Fresh /\ ~hist.raced

\* A read never allocates a list item, although it calls scull_follow.
ReadNeverAllocates ==
  [][\A t \in Tasks : InSection(t, "read") /\ call'[t] # call[t]
       => items' = items]_vars

\* Every open, read, write and llseek returns.
CallsReturn ==
  \A t \in Tasks : call[t].pc # "idle" ~> call[t].pc = "idle"

(***************************************************************************)
(* Refinement: the byte at a position is found through the device's        *)
(* geometry; a call is answered when its critical section ends (for a      *)
(* trim, when the list is freed).  llseek does not touch the store.        *)
(***************************************************************************)
Content ==
  [p \in 0 .. MaxPos |->
     IF Itemsize(Geometry) # 0 /\ Cell(Geometry, p) \in DOMAIN quanta
     THEN ByteAt(quanta[Cell(Geometry, p)], QPos(Geometry, p))
     ELSE Unwritten]

AskedBy(c) ==
  IF c.pc = "idle" \/ c.op = "llseek"
  THEN [st |-> "idle", op |-> "none", pos |-> 0, val |-> 0, buf |-> <<>>]
  ELSE [st |-> IF c.pc \in {"trim", "ret"} THEN "ret" ELSE "busy",
        op |-> c.op, pos |-> c.pos, val |-> c.val, buf |-> c.buf]

Request == [t \in Tasks |-> AskedBy(call[t])]

Abstract == INSTANCE ByteStore WITH content <- Content, req <- Request

\* The device implements a linearizable store of bytes.
Linearizable == Abstract!StoreSpec

(***************************************************************************)
(* Whatever the parameters do, the device is that store until a critical   *)
(* section runs with a stale geometry.                                     *)
(***************************************************************************)
LinearUntilRaced ==
  [][~hist'.raced => [Abstract!StoreNext]_<<Content, size, Request>>]_vars
=============================================================================
