----------------------------- MODULE ScullProc ------------------------------
(***************************************************************************)
(* The proc files of a scull built with SCULL_DEBUG (src/Scull/main.c):    *)
(* scullmem, whose every read runs scull_read_procmem over all devices,    *)
(* and scullseq, a seq_file that shows one device after the other.  Both   *)
(* walk the list of a device under its semaphore; scullmem loads the       *)
(* pointer to the list before it takes the semaphore, scullseq after.      *)
(*                                                                         *)
(* Of the list, a reader has what its pointer is worth: "null", "list",    *)
(* or "freed" when what it leads to has been freed since it was loaded.    *)
(* A reader that touches freed memory goes no further ("oops"), and the    *)
(* file it reads stays in use.                                             *)
(*                                                                         *)
(* procfs (external) counts the reads under way in each file, and          *)
(* remove_proc_entry waits for them; an open file does not keep the module *)
(* from being unloaded.                                                    *)
(***************************************************************************)
EXTENDS Integers

CONSTANTS
  NrDevs,   \* scull_nr_devs
  Readers,  \* tasks that read the proc files
  Limit,    \* lines scull_read_procmem means to print: count - 80 bytes
  MaxItems, \* BOUND: items of a list
  Slots     \* BOUND: quanta of the last item

ASSUME ProcConstants ==
  NrDevs \in Nat /\ Limit \in Nat /\ MaxItems \in Nat /\ Slots \in Nat

Devs == 0 .. NrDevs - 1

VARIABLES
  devices,  \* is scull_devices allocated
  dev,      \* the devices, see ScullModule
  entry,    \* the proc files that exist
  rd        \* what each reader is doing

procVars == <<entry, rd>>

ProcFiles == {"scullmem", "scullseq"}

(***************************************************************************)
(* pos: the device number reached (for scullseq, it stays between reads).  *)
(* list: the local qs or d.  len: lines printed by scull_read_procmem.     *)
(***************************************************************************)
NoRead == [pc |-> "idle", file |-> "none", pos |-> 0, list |-> "null", len |-> 0]

Reads(r, x) == rd' = [rd EXCEPT ![r] = x]
Alive(r) == rd[r].list # "oops"
InFile(f) == \E r \in Readers : rd[r].pc # "idle" /\ rd[r].file = f

\* dev->data, as a reader loads it
ListOf(i) == IF dev[i].mem THEN "list" ELSE "null"

\* A plausible slip: the semaphore is not waited for, or not given back.
TakeUnchecked(i) == dev' = [dev EXCEPT ![i].sem = 0]
UpMissing(i) == UNCHANGED dev

\* down_interruptible(&dev->sem) and up(&dev->sem)
Take(i) == dev[i].sem > 0 /\ dev' = [dev EXCEPT ![i].sem = @ - 1]
Up(i) == dev' = [dev EXCEPT ![i].sem = @ + 1]

\* The list of device i is freed.
Invalidate(i) ==
  rd' = [r \in Readers |-> IF rd[r].pos = i /\ rd[r].list = "list"
                           THEN [rd[r] EXCEPT !.list = "freed"] ELSE rd[r]]

\* The end of a read; a scullseq that is still there stays open at pos.
Stop(r, pos) ==
  Reads(r, IF rd[r].file = "scullseq" /\ "scullseq" \in entry
           THEN [NoRead EXCEPT !.file = "scullseq", !.pos = pos] ELSE NoRead)

-----------------------------------------------------------------------------
\* A read of scullmem; scull_proc_open and seq_release
ReadMem(r) ==
  /\ rd[r] = NoRead /\ "scullmem" \in entry
  /\ Reads(r, [NoRead EXCEPT !.pc = "loop", !.file = "scullmem"])
  /\ UNCHANGED <<devices, dev, entry>>

OpenSeq(r) ==
  /\ rd[r] = NoRead /\ "scullseq" \in entry
  /\ Reads(r, [NoRead EXCEPT !.file = "scullseq"])
  /\ UNCHANGED <<devices, dev, entry>>

CloseSeq(r) ==
  /\ rd[r].file = "scullseq" /\ rd[r].pc = "idle"
  /\ Reads(r, NoRead)
  /\ UNCHANGED <<devices, dev, entry>>

\* The loop of scull_read_procmem: the next device, and its list ...
MoreMem(r) == rd[r].pos < NrDevs /\ rd[r].len <= Limit

LoadList(r) ==
  /\ rd[r].pc = "loop" /\ Alive(r) /\ MoreMem(r) /\ devices
  /\ Reads(r, [rd[r] EXCEPT !.pc = "down", !.list = ListOf(rd[r].pos)])
  /\ UNCHANGED <<devices, dev, entry>>

\* ... or its end
MemDone(r) ==
  /\ rd[r].pc = "loop" /\ Alive(r) /\ ~MoreMem(r)
  /\ Stop(r, 0)
  /\ UNCHANGED <<devices, dev, entry>>

\* A read of scullseq: scull_seq_start, which is NULL behind the last device
SeqStart(r) ==
  /\ rd[r].file = "scullseq" /\ rd[r].pc = "idle" /\ "scullseq" \in entry
  /\ rd[r].pos < NrDevs
  /\ Reads(r, [rd[r] EXCEPT !.pc = "down"])
  /\ UNCHANGED <<devices, dev, entry>>

\* down_interruptible; scull_seq_show then loads dev->data
Down(r) ==
  /\ rd[r].pc = "down" /\ Alive(r) /\ devices
  /\ Take(rd[r].pos)
  /\ Reads(r, [rd[r] EXCEPT !.pc = "walk", !.list =
                 IF rd[r].file = "scullseq" THEN ListOf(rd[r].pos) ELSE @])
  /\ UNCHANGED <<devices, entry>>

\* ... or -ERESTARTSYS
Interrupted(r) ==
  /\ rd[r].pc = "down" /\ Alive(r)
  /\ Stop(r, rd[r].pos)
  /\ UNCHANGED <<devices, dev, entry>>

\* A plausible slip: the list is printed whatever its length.
LinesUnlimited(len, n, d) == len + 1 + n + d

(***************************************************************************)
(* The lines scull_read_procmem has printed after a device with n items of *)
(* which the last has d quanta: the items only up to Limit, but all of the *)
(* last item's quanta once that item is printed.                           *)
(***************************************************************************)
Lines(len, n, d) ==
  LET room == Limit - len
      shown == IF room < n THEN room ELSE n
  IN len + 1 + shown + (IF shown = n /\ n > 0 THEN d ELSE 0)

\* The walk through a sound list, and up(): scull_read_procmem goes on ...
MemWalk(r) ==
  LET i == rd[r].pos IN
  /\ rd[r].pc = "walk" /\ rd[r].file = "scullmem"
  /\ devices /\ rd[r].list \in {"null", "list"}
  /\ \E n \in IF rd[r].list = "null" THEN {0} ELSE 1 .. MaxItems, d \in 0 .. Slots :
       Reads(r, [rd[r] EXCEPT !.pc = "loop", !.pos = i + 1, !.list = "null",
                              !.len = Lines(@, n, d)])
  /\ Up(i)
  /\ UNCHANGED <<devices, entry>>

\* ... and seq_read calls scull_seq_next, until its buffer is full
SeqWalk(r) ==
  LET i == rd[r].pos IN
  /\ rd[r].pc = "walk" /\ rd[r].file = "scullseq"
  /\ devices /\ rd[r].list \in {"null", "list"}
  /\ \/ Stop(r, i + 1)
     \/ /\ i + 1 < NrDevs
        /\ Reads(r, [rd[r] EXCEPT !.pc = "down", !.pos = i + 1, !.list = "null"])
  /\ Up(i)
  /\ UNCHANGED <<devices, entry>>

\* The list, or the device itself, has been freed.
Touch(r) ==
  /\ Alive(r)
  /\ \/ rd[r].pc = "loop" /\ MoreMem(r) /\ ~devices
     \/ rd[r].pc = "down" /\ ~devices
     \/ rd[r].pc = "walk" /\ (~devices \/ rd[r].list = "freed")
  /\ Reads(r, [rd[r] EXCEPT !.list = "oops"])
  /\ UNCHANGED <<devices, dev, entry>>

\* The steps of a read that is under way, but for the wait
Reading(r) == LoadList(r) \/ MemDone(r) \/ MemWalk(r) \/ SeqWalk(r) \/ Touch(r)

Reader(r) ==
  \/ ReadMem(r) \/ OpenSeq(r) \/ CloseSeq(r) \/ SeqStart(r)
  \/ Down(r) \/ Interrupted(r) \/ Reading(r)
=============================================================================
