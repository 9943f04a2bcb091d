------------------------------- MODULE Task08 -------------------------------
(***************************************************************************)
(* The debugfs module of the eudyptula challenge                           *)
(* (src/eudyptula-challenge/Task08/Patch-22/Task08.c): its files id,       *)
(* jiffies and foo, and its life.  Patch-02 and Patch-12 are the module    *)
(* with the first one and the first two of these files.                    *)
(*                                                                         *)
(* foo keeps a page of data, the int size, and a reader-writer semaphore   *)
(* that read and write take and never release.  Its bytes, and the digits  *)
(* of jiffies, are left out: the properties are about how many there are.  *)
(***************************************************************************)
EXTENDS IdFile, FiniteSets

CONSTANTS
  Tasks,      \* tasks that make system calls
  Files,      \* struct file objects
  PAGE_SIZE,  \* BOUND: bytes in a page
  Counts,     \* BOUND: transfer sizes callers ask for
  Texts,      \* BOUND: what callers write to id, sequences of bytes
  Lengths,    \* BOUND: lengths of the text of jiffies
  Faulty,     \* TRUE when user copies and allocations may fail
  MaxReads    \* BOUND: reads between two loads of the module

ASSUME Task08Constants ==
  /\ IsFiniteSet(Tasks)
  /\ PAGE_SIZE \in Nat \ {0}
  /\ Counts \subseteq Nat
  /\ Texts \subseteq Seq(Byte)
  /\ Lengths \subseteq Nat
  /\ Faulty \in BOOLEAN
  /\ MaxReads \in Nat

VARIABLES
  patch,  \* which of the three modules is loaded; it never changes
  mod,    \* "out", "init" (inside task08_init_module), "in"
  made,   \* how many of the Entries exist in debugfs
  page,   \* is the page that data points to allocated
  size,   \* the static int size
  sem,    \* the semaphore: how many readers hold it, and does a writer
  file,   \* what a struct file is open on, its f_pos, and whether the code
          \* behind it is still there
  call,   \* the call each task is in
  beyond, \* history: did a read reach outside the page
  fooled  \* history: was something else than the id taken for it

module == <<patch, mod, made, page>>
vars == <<module, size, sem, file, call, beyond, fooled>>

EFAULT == 14
Unheld == [readers |-> 0, writer |-> FALSE]
Closed == [name |-> "none", pos |-> 0, live |-> TRUE]
NoCall == [pc |-> "idle", op |-> "none", file |-> "none", from |-> 0, val |-> 0]

\* A plausible slip: foo is made before the files that may fail after it.
Patch22FooFirst == <<"root", "foo", "id", "jiffies">>

\* What task08_init_module of each patch makes, in this order
Patch02 == <<"root", "id">>
Patch12 == <<"root", "id", "jiffies">>
Patch22 == <<"root", "id", "jiffies", "foo">>

Entries == CASE patch = "02" -> Patch02 [] patch = "12" -> Patch12
             [] patch = "22" -> Patch22

Init ==
  /\ patch \in {"02", "12", "22"}
  /\ mod = "out" /\ made = 0 /\ page = FALSE /\ size = 0 /\ sem = Unheld
  /\ file = [f \in Files |-> Closed]
  /\ call = [t \in Tasks |-> NoCall]
  /\ beyond = FALSE /\ fooled = FALSE

-----------------------------------------------------------------------------
(* task08_init_module and task08_cleanup_module.                           *)

\* Patch-22: kmalloc, whose result is not tested, and init_rwsem
InitAlloc ==
  /\ mod = "out"
  /\ mod' = "init"
  /\ page' \in IF patch # "22" THEN {FALSE} ELSE IF Faulty THEN BOOLEAN ELSE {TRUE}
  /\ size' = 0 /\ sem' = Unheld
  /\ UNCHANGED <<patch, made, file, call, beyond, fooled>>

\* debugfs_create_dir or debugfs_create_file; users may open the file at once
InitMake ==
  /\ mod = "init" /\ made < Len(Entries)
  /\ made' = made + 1
  /\ UNCHANGED <<patch, mod, page, size, sem, file, call, beyond, fooled>>

\* The directory cannot be made: a return that forgets the page
InitNoRoot ==
  /\ Faulty /\ mod = "init" /\ made = 0
  /\ mod' = "out"
  /\ UNCHANGED <<patch, made, page, size, sem, file, call, beyond, fooled>>

\* The module's code goes away: an open file has nothing behind it any more.
Orphans ==
  file' = [f \in Files |-> IF file[f] = Closed THEN Closed
                           ELSE [file[f] EXCEPT !.live = FALSE]]

\* A plausible slip: the page is freed only by rmmod.
InitSubErrorKeepsPage ==
  /\ Faulty /\ mod = "init" /\ made \in 1 .. Len(Entries) - 1
  /\ mod' = "out" /\ made' = 0 /\ Orphans
  /\ UNCHANGED <<patch, page, size, sem, call, beyond, fooled>>

(***************************************************************************)
(* sub_error: a file cannot be made, and the cleanup runs.  A module whose *)
(* init fails is freed whoever has its files open.                         *)
(***************************************************************************)
InitSubError ==
  /\ Faulty /\ mod = "init" /\ made \in 1 .. Len(Entries) - 1
  /\ mod' = "out" /\ made' = 0 /\ page' = FALSE /\ Orphans
  /\ UNCHANGED <<patch, size, sem, call, beyond, fooled>>

InitDone ==
  /\ mod = "init" /\ made = Len(Entries)
  /\ mod' = "in"
  /\ UNCHANGED <<patch, made, page, size, sem, file, call, beyond, fooled>>

\* rmmod, possible once every file of this load is closed: fops.owner
Cleanup ==
  /\ mod = "in" /\ \A f \in Files : file[f].live => file[f] = Closed
  /\ mod' = "out" /\ made' = 0 /\ page' = FALSE /\ Orphans
  /\ UNCHANGED <<patch, size, sem, call, beyond, fooled>>

-----------------------------------------------------------------------------
Becomes(t, c) == call' = [call EXCEPT ![t] = c]
Waits(t, op) == call[t].pc = "down" /\ call[t].op = op
WaitingReads == {t \in Tasks : Waits(t, "read")}
Copies(t, op) == call[t].pc = "copy" /\ call[t].op = op
InUse(f) == \E t \in Tasks : call[t].pc # "idle" /\ call[t].file = f

CanCall(t, f, names) ==
  call[t].pc = "idle" /\ ~InUse(f) /\ file[f].live /\ file[f].name \in names

\* Files can be opened while init still runs.
Open(f, name) ==
  /\ \E i \in 1 .. made : Entries[i] = name
  /\ file[f] = Closed
  /\ file' = [file EXCEPT ![f].name = name]
  /\ UNCHANGED <<module, size, sem, call, beyond, fooled>>

Close(f) ==
  /\ file[f] # Closed /\ file[f].live /\ ~InUse(f)
  /\ file' = [file EXCEPT ![f] = Closed]
  /\ UNCHANGED <<module, size, sem, call, beyond, fooled>>

\* A task enters read or write of foo; the kernel runs one call per open file.
Enter(t, f, op) ==
  /\ CanCall(t, f, {"foo"})
  /\ op = "read" => sem.readers + Cardinality(WaitingReads) < MaxReads
  /\ Becomes(t, [NoCall EXCEPT !.pc = "down", !.op = op, !.file = f,
                               !.from = file[f].pos])
  /\ UNCHANGED <<module, size, sem, file, beyond, fooled>>

\* down_read(&sem) and down_write(&sem)
DownRead(t) ==
  /\ Waits(t, "read") /\ ~sem.writer
  /\ sem' = [sem EXCEPT !.readers = @ + 1]
  /\ Becomes(t, [call[t] EXCEPT !.pc = "copy"])
  /\ UNCHANGED <<module, size, file, beyond, fooled>>

DownWrite(t) ==
  /\ Waits(t, "write") /\ ~sem.writer /\ sem.readers = 0
  /\ sem' = [sem EXCEPT !.writer = TRUE]
  /\ Becomes(t, [call[t] EXCEPT !.pc = "copy"])
  /\ UNCHANGED <<module, size, file, beyond, fooled>>

\* A plausible slip: the count is not cut to what is there.
CutNot(from, count, n) == count

(***************************************************************************)
(* What simple_read_from_buffer and simple_write_to_buffer make of a count *)
(* when n bytes are there (none at or after the end), and the results a    *)
(* copy of m bytes may have: a fault may leave some of them, or none.      *)
(***************************************************************************)
Cut(from, count, n) ==
  IF from >= n THEN 0 ELSE IF count > n - from THEN n - from ELSE count

Results(m) == {m} \cup (IF Faulty /\ m > 0 THEN 1 .. m - 1 \cup {-EFAULT} ELSE {})

(***************************************************************************)
(* The rest of task08_read_foo.  size reaches simple_read_from_buffer as a *)
(* size_t: a negative int is huge there, and no read is cut short.         *)
(* Nothing releases the semaphore.                                         *)
(***************************************************************************)
Read(t) ==
  LET c == call[t] IN
  /\ Copies(t, "read")
  /\ \E count \in Counts :
       LET m == IF size < 0 THEN count ELSE Cut(c.from, count, size) IN
       /\ beyond' = (beyond \/ c.from + m > PAGE_SIZE)
       /\ \E r \in Results(m) : Becomes(t, [c EXCEPT !.pc = "ret", !.val = r])
  /\ UNCHANGED <<module, size, sem, file, fooled>>

\* A plausible repair of the write alone: up_write at its end.
WriteUp(t) ==
  LET c == call[t] IN
  /\ Copies(t, "write")
  /\ \E count \in Counts :
       LET m == Cut(c.from, count, PAGE_SIZE) IN
       /\ page \/ m = 0
       /\ \E r \in Results(m) :
            size' = r /\ Becomes(t, [c EXCEPT !.pc = "ret", !.val = r])
  /\ sem' = [sem EXCEPT !.writer = FALSE]
  /\ UNCHANGED <<module, file, beyond, fooled>>

(***************************************************************************)
(* The rest of task08_write_foo: the result, negative or not, is stored in *)
(* size.  Nothing releases the semaphore.                                  *)
(***************************************************************************)
Write(t) ==
  LET c == call[t] IN
  /\ Copies(t, "write")
  /\ \E count \in Counts :
       LET m == Cut(c.from, count, PAGE_SIZE) IN
       /\ page \/ m = 0
       /\ \E r \in Results(m) :
            size' = r /\ Becomes(t, [c EXCEPT !.pc = "ret", !.val = r])
  /\ UNCHANGED <<module, sem, file, beyond, fooled>>

\* data is NULL: a copy of at least one byte oopses and the task is gone.
WriteOops(t) ==
  /\ Copies(t, "write") /\ ~page
  /\ \E count \in Counts : Cut(call[t].from, count, PAGE_SIZE) > 0
  /\ Becomes(t, [call[t] EXCEPT !.pc = "dead"])
  /\ UNCHANGED <<module, size, sem, file, beyond, fooled>>

Return(t) ==
  LET c == call[t] IN
  /\ c.pc = "ret"
  /\ file' = [file EXCEPT ![c.file].pos =
                IF c.val > 0 THEN c.from + c.val ELSE @]
  /\ Becomes(t, NoCall)
  /\ UNCHANGED <<module, size, sem, beyond, fooled>>

-----------------------------------------------------------------------------
(* The files id and jiffies: a call is one step, for it shares no more     *)
(* than f_pos, and the kernel runs one call per open file.                 *)

\* The text of jiffies is made anew for each read: it has any of its lengths.
TextLens(name) == IF name = "id" THEN {IdTextLen} ELSE Lengths

\* task08_read_id and task08_read_jiffies
ReadText(t, f) ==
  /\ CanCall(t, f, {"id", "jiffies"})
  /\ \E count \in Counts, len \in TextLens(file[f].name) :
       \E r \in Results(Cut(file[f].pos, count, len)) :
         file' = [file EXCEPT ![f].pos = IF r > 0 THEN @ + r ELSE @]
  /\ UNCHANGED <<module, size, sem, call, beyond, fooled>>

\* task08_write_id, from *f_pos = 0 on; an error leaves f_pos as it was.
WriteId(t, f) ==
  /\ CanCall(t, f, {"id"})
  /\ \E s \in Texts, junk \in Stacks :
       \E n \in Results(Cut(0, Len(s), IdBufferLen)) :
         LET r == IdVerdict(s, n, junk) IN
         /\ file' = [file EXCEPT ![f].pos = IF r >= 0 THEN r ELSE @]
         /\ fooled' = (fooled \/ (r >= 0 /\ ~IsId(s, n)))
  /\ UNCHANGED <<module, size, sem, call, beyond>>

\* The zero that goes to the byte after input_id may also bring the task down.
WriteIdOops(t, f) ==
  /\ CanCall(t, f, {"id"})
  /\ \E s \in Texts : ZeroOutside(Cut(0, Len(s), IdBufferLen))
  /\ Becomes(t, [NoCall EXCEPT !.pc = "dead", !.op = "write", !.file = f])
  /\ UNCHANGED <<module, size, sem, file, beyond, fooled>>

\* Any call on a file whose module is gone runs into freed memory.
GoneOops(t, f) ==
  /\ call[t].pc = "idle" /\ ~file[f].live
  /\ Becomes(t, [NoCall EXCEPT !.pc = "dead", !.file = f])
  /\ UNCHANGED <<module, size, sem, file, beyond, fooled>>

Step(t) ==
  \/ DownRead(t) \/ DownWrite(t)
  \/ Read(t) \/ Write(t) \/ WriteOops(t) \/ Return(t)

Next ==
  \/ InitAlloc \/ InitMake \/ InitNoRoot \/ InitSubError \/ InitDone \/ Cleanup
  \/ \E f \in Files :
       \/ Close(f)
       \/ \E name \in {"id", "jiffies", "foo"} : Open(f, name)
       \/ \E t \in Tasks :
            \/ \E op \in {"read", "write"} : Enter(t, f, op)
            \/ ReadText(t, f) \/ WriteId(t, f) \/ WriteIdOops(t, f)
            \/ GoneOops(t, f)
  \/ \E t \in Tasks : Step(t)

Spec == Init /\ [][Next]_vars

(***************************************************************************)
(* Fairness: a task inside the module keeps running, and the semaphore,    *)
(* whenever it is free again and again, is granted to a waiter.            *)
(***************************************************************************)
FairSpec == Spec /\ \A t \in Tasks : SF_vars(Step(t))

-----------------------------------------------------------------------------
FileType ==
  [name : {"none", "id", "jiffies", "foo"}, pos : Nat, live : BOOLEAN]
CallType ==
  [pc : {"idle", "down", "copy", "ret", "dead"}, op : {"none", "read", "write"},
   file : Files \cup {"none"}, from : 0 .. PAGE_SIZE, val : -EFAULT .. PAGE_SIZE]

\* Types; a position is never behind the page, or the id, of its file.
TypeOK ==
  /\ patch \in {"02", "12", "22"} /\ mod \in {"out", "init", "in"}
  /\ made \in 0 .. Len(Entries) /\ page \in BOOLEAN
  /\ size \in -EFAULT .. PAGE_SIZE
  /\ sem \in [readers : 0 .. MaxReads, writer : BOOLEAN]
  /\ file \in [Files -> FileType]
  /\ \A f \in Files :
       /\ file[f].name = "foo" => file[f].pos <= PAGE_SIZE
       /\ file[f].name = "id" => file[f].pos <= IdTextLen
  /\ call \in [Tasks -> CallType]
  /\ beyond \in BOOLEAN /\ fooled \in BOOLEAN

(***************************************************************************)
(* No read reaches outside the page, although a write that failed leaves   *)
(* -EFAULT in size and a read takes that for a huge number: the write      *)
(* still holds the semaphore, so the read never gets that far.             *)
(***************************************************************************)
ReadInPage == ~beyond

(***************************************************************************)
(* Task06.txt: "If the value does not match your assigned id, return the   *)
(* "invalid value" error value".  A write to id succeeds only when the     *)
(* bytes that arrived are the id, whatever an earlier call left on the     *)
(* stack, however many bytes the caller sends and wherever the copy stops. *)
(***************************************************************************)
IdChecked == ~fooled

(***************************************************************************)
(* A module that goes, by rmmod or by a failing init, leaves no entry in   *)
(* debugfs, and its page only when it could not make its directory.        *)
(***************************************************************************)
GoesClean ==
  [][mod # "out" /\ mod' = "out" => made' = 0 /\ (page' => made = 0)]_vars

(***************************************************************************)
(* A file is left without its module only by an init that fails, after the *)
(* file was made and opened, never by rmmod; and it is not foo, so that no *)
(* task is ever in the semaphore or the page of a module that is gone.     *)
(***************************************************************************)
OrphansOfFailedInit ==
  [][\A f \in Files :
       file[f].live /\ ~file'[f].live => mod = "init" /\ file[f].name # "foo"]_vars

(***************************************************************************)
(* What keeps these true.  Reached: how far init has come.  Opened: a file *)
(* is open on what has been made, foo the last of all.  InFoo: a call on   *)
(* foo keeps its file, and with it the module.  Guarded: who copies or has *)
(* copied holds the semaphore, and a size other than 0 goes with a writer  *)
(* that has not given it back: no reader meets what a write has left.      *)
(***************************************************************************)
Reached ==
  /\ mod = "out" => made = 0
  /\ mod = "in" => made = Len(Entries)

Opened ==
  \A f \in Files :
    /\ file[f].name = "none" => file[f] = Closed
    /\ file[f].live /\ file[f].name # "none" =>
         \E i \in 1 .. made : Entries[i] = file[f].name

InFoo ==
  \A t \in Tasks :
    call[t].pc \in {"down", "copy", "ret"} =>
      /\ call[t].file \in Files /\ call[t].op \in {"read", "write"}
      /\ file[call[t].file].name = "foo" /\ file[call[t].file].live
      /\ call[t].val > 0 => call[t].from + call[t].val <= PAGE_SIZE

\* The task is past its down_read or down_write.
Inside(t, op) == call[t].pc \in {"copy", "ret"} /\ call[t].op = op

Guarded ==
  /\ sem.writer => sem.readers = 0
  /\ \A t \in Tasks :
       /\ Inside(t, "read") => sem.readers > 0
       /\ Inside(t, "write") => sem.writer
  /\ size # 0 => sem.writer
  /\ sem.readers + Cardinality(WaitingReads) <= MaxReads

Task08Inv == TypeOK /\ Reached /\ Opened /\ InFoo /\ Guarded

(***************************************************************************)
(* Task08.txt: "Properly handle the fact that someone could be reading     *)
(* from the file while someone else is writing to it".  A call on foo that *)
(* is made returns.                                                        *)
(***************************************************************************)
CallsReturn ==
  \A t \in Tasks : call[t].pc = "down" ~> call[t].pc \in {"idle", "dead"}
=============================================================================
