# A verification project for kernel-training

TLA+ models, TLC runs and TLAPS proofs for the repository's kernel modules. The
models are translated from the C source; `PROJECT.json` maps every definition to
the lines it stands for.

## 1. Inventory

| Component | State | Operations | What is hard |
|---|---|---|---|
| **scull device** (`Scull/main.c`, `scull.h`) | `dev->data` (a list of items, each with an array of pointers to quanta), `quantum`, `qset`, `size`, `sem`; `f_pos` of every file | open (trims when write-only), release, read, write, llseek, `scull_follow`, `scull_trim` | `quantum` and `qset` are loaded before the semaphore is taken; waits are interruptible; five allocations may fail and leave a partial structure; user copies may fault; llseek takes no lock |
| **scull ioctl** | the globals `scull_quantum`, `scull_qset` | RESET and Set, Tell, Get, Query, eXchange, sHift for each | no lock at all; `__get_user` writes straight into the global; the device picks the globals up when it trims |
| **scull module** | the registered region, `scull_devices`, the cdevs | init, setup of each cdev, cleanup | devices are reachable while init goes on; cleanup also serves failed loads; it trims without the semaphore |
| **scull proc files** (`SCULL_DEBUG`) | the entries scullmem and scullseq; the position of an open scullseq | seq start, next, show; read_procmem; create, remove | scullmem loads the list pointer before it takes the semaphore; lists and devices are freed before the entries are removed, and an open proc file does not keep the module; the print limit is not tested everywhere |
| **lifo device** (`LIFO/main.c`, `lifo.h`) | `dev->data` (a linked list), `fset` | open (trims when write-only), read, write, trim, init, cleanup | no lock; `data` dangles after a trim; errors leave before `data` is stored; `kmalloc` unchecked |
| **Task08** (`eudyptula-challenge/Task08/Patch-22`) | a page `data`, `size`, an rw-semaphore, the debugfs tree | read and write of `id`, `jiffies`, `foo`; init, cleanup | the semaphore is never released; `size` may become negative; an early return leaks the page; files can be opened while init may still fail |
| **Task08 Patch-02, Patch-12** | the debugfs tree | the same with `id` only, and with `id` and `jiffies` | a failing init frees the module under an open file |
| **Task06** (`misc.c`) | a registered misc device | read and write of the id; init, cleanup | one byte past the end of a stack buffer |
| **NetF** | a static `struct netF`, a registered hook | init, exit, filter | the result of the registration is ignored; packets are in the hook at any time |
| **Task05** (`Solution2`) | a registered USB driver | init, exit, probe, disconnect | interfaces come and go, bound ones too, around load and unload |
| **RawIP** | a packet | the IP header and its checksum | carries of 16-bit sums, byte order |
| **Eth0** | none kept | a loop of recvfrom and sendto | nothing that lasts from one packet to the next |
| Task05 Solution1 and 3, hello, memmod, Task01, Task04 | none | log at load and unload | nothing |

How they interact: the ioctl interface and every scull device share the two
globals (`scull_trim` reads them, `scull_ioctl` writes them); the calls on one
device share `struct scull_dev` under `dev->sem`; the module's init and cleanup
share the devices with their users under the module's reference count, and with the
readers of the proc files under each device's semaphore. The other modules are
independent programs; the kernel calls into them from open files, packets and USB
interfaces.

What makes each component correct: scull is a store of bytes in which each call is
atomic, its memory is what its own fields say, no path loses the semaphore and
every call returns; the parameters are changed only by those allowed to and an
exchange is atomic; a device is reachable only while it is initialised and nothing
is left after unload; a reader of a proc file comes to its end, unless it meets freed
memory or a semaphore whose holder has died; lifo is a stack of bytes whose counter is its length; foo
returns what was written and never wedges its callers; no callback reaches a module
that is not ready or that is gone; the checksum is the one a receiver expects.

The hazards, each with its line and the properties that would catch it, are in
`PROJECT.json` under `hazards`.

## 2. Modules

| Module | Models |
|---|---|
| `ScullIoctl` | `scull_ioctl`: one step per load or store of a global |
| `Scull` | one device under concurrent calls; EXTENDS `ScullIoctl`, so that the parameters the device trims to are the ones the ioctl calls change |
| `ByteStore` | abstract: a linearizable store of bytes, implemented by `Scull` |
| `ScullProc` | the readers of the proc files of a `SCULL_DEBUG` build |
| `ScullModule` | init and cleanup of the module, with the users of its devices; EXTENDS `ScullProc`, whose readers share the devices with them |
| `Lifo` | the lifo device and its module, one loop iteration per step |
| `Stack` | abstract: a stack of bytes, implemented by `Lifo` |
| `IdFile` | the id check of Task06 and Task08: the buffer on the stack and the verdict |
| `Task08` | the debugfs module of all three patches, with its files id, jiffies and foo; EXTENDS `IdFile` |
| `Hooks` | NetF, the USB driver of Task05 and the misc device of Task06: modules that are no more than callbacks |
| `Checksum` | `ip_checksum` of RawIP and the header it is for, with theorems |
| `MCScull`, `MCScullIoctl`, `MCLifo`, `MCTask08` | model values, symmetry and small sets for TLC (`ScullModule` and `Hooks` need none) |
| `ScullIoctlProofs`, `ScullProofs`, `ScullStoreProofs`, `ScullModuleProofs`, `LifoProofs`, `Task08Proofs`, `HooksProofs` | theorems |

Definitions named after a slip ("A plausible slip: ...") are wrong versions of the
definition that follows them. `PROJECT.json` lists, for each property of each
passing run, one that makes the property fail.

### State and actions

**`Scull`.** `items`, `arr` and `quanta` are `dev->data`: the number of list items,
the array of each item (by the length it was allocated with) and the bytes of each
quantum. `call[t]` holds the locals of the call a task is in. A call goes
`LoadGeometry` -> `LoadGeometry2` (the two loads of line 249 or 292) -> `Acquire`
or `Interrupted` -> its critical section -> `Return`. The critical sections of read
and write are one step each, because what they change is read elsewhere only under
the semaphore, except `dev->size`, which llseek loads once. `scull_trim` is two
steps, because readers load `quantum` and `qset` without the semaphore. A critical
section that ran with a stale geometry is still executed, with the geometry it
holds: an access outside an allocation is recorded in `hist.overrun`, and either
kills the task (`Oops`) or goes on with unknown bytes read and out-of-bounds bytes
dropped. `hist.leak` records quanta that a trim did not free.

The kernel's part: `Return` copies the position back to `f_pos` unless the call
failed, which is also where the model lets llseek's assignment of `f_pos` take
effect; `Down` and `Up` are the counting semaphore.

**`ScullIoctl`.** A command is a verb and a parameter, so that one action stands
for the quantum case and for its qset twin. An argument is the unsigned long it is in the
code, and `AsInt` what its store in an `int` (or the read through it) makes of it, with
INT_MAX = 7 for TLC. `replaced` is a history field: the value a store overwrote.

**`ScullModule`.** The loops of init and cleanup advance `next`. A device's critical
section is abstracted to who is inside and whether memory is left. Its end is `Leave`, or
`Die`: the user dies there (what `Oops` of `Scull` is in detail), its file can be closed,
and the semaphore is `kept` for good. `Pinned` is what
`cdev.owner = THIS_MODULE` gives: a module that is going cannot be opened, and one
that is open cannot go. `InitRegion` chooses whether this load is of a debug build,
and with one `InitDone` makes the proc files.

**`ScullProc`.** Of a list, a reader holds what its pointer is worth: `null`, `list`, or
`freed` once the list has been freed (`Invalidate`, part of every step that frees one).
scullmem loads the pointer in `LoadList` and takes the semaphore in `Down`; scullseq
loads it in `Down`. A reader that touches freed memory dies where it is (`Touch`), with
the semaphore if it has it, and its file stays in use. What is printed is reduced to
the number of lines (`Lines`). procfs is external: `remove_proc_entry` waits for the
reads under way (`InFile`), and an open proc file does not pin the module.

**`Lifo`.** `node` is the heap. Freed nodes keep their contents, as freed memory
does, until they are allocated again. At the first access to a node that is not
allocated the model stops following that task (`bad`), so the properties speak of
what comes before it. `hurt` is a history variable: whether, since the load, a trim has
left `data` dangling ("trim"), a transfer ended in an error after it had moved some
bytes ("cut"), or a node was lost ("leak", which a reload does not mend). Return values and the device numbers are left out; a load
that fails leaves nothing behind and is no step (`main_device` itself, which the
cleanup never frees, is not counted).

**`Task08`, `IdFile`.** The bytes of foo are left out: after a write the semaphore is
never free again, so no read ever returns one. `Cut` and `Results` are
`simple_read_from_buffer` and `simple_write_to_buffer`. A write to id is one step; the
buffer `input_id` starts with anything (`Stacks`), and the zero that a write of more
than the id's length puts after its end either does nothing or brings the task down
(`WriteIdOops`). `patch`, chosen at the start, says which patch is modelled; `made` counts
the entries init has made, and a file can be opened as soon as it is made. When init fails
the module is freed whoever has its files open: such a file is no longer `live`, and the
next call on it dies (`GoneOops`). A file in `Files` that is not live stays so.

**`Hooks`.** `driver`, chosen at the start, says which of the three modules is modelled.
`reg` is whether its structure is known to the kernel, `use` what the kernel does with the
module for each packet, interface or open file. That `nf_unregister_hook` and
`usb_deregister` wait for callbacks (`Waited`), that an open misc file pins its module and
that taking an unregistered hook off its list kills the caller (`dead`) is external.

**`Checksum`.** The loop over the header, the two folds and the complement are one
operator each, modulo 2^32 and 2^16 as in the code. `SenderSum` is the sum of the words
of the sender's header as a little-endian machine has them in memory.

## 3. Runs

| Run | Checks | Shows |
|---|---|---|
| `scull_linear` | LayoutCurrent, SizeBacked, HeapSafe, Linearizable, ReadNeverAllocates, CallsReturn | two tasks sharing a file, fixed parameters: the device implements `ByteStore`, its memory is what the fields say, `scull_follow` allocates nothing on behalf of a read, and every call returns |
| `scull_alone` | LayoutCurrent, SizeBacked, StoreInv, DeadOnlyOfZero, Linearizable | one task that also tunes, with faulting copies: changes of geometry alone do no harm, because the one task always has the device's geometry; it dies in the device only of a zero parameter that the call has loaded |
| `scull_tuned` | TypeOK, Exclusive, SoundUnlessRaced, LinearUntilRaced | two tasks on two files, and resets that change both parameters: no path loses or doubles the semaphore; a stale geometry is the only way to corrupt the device, and until one is used (which happens here) every step is one of the atomic store, or none |
| `scull_stale` | LayoutCurrent, **violated** | the stale geometry of lines 249 and 292 |
| `ioctl_tuning` | IoctlTypeOK, OnlyAdminsTune | a parameter holds a default, its load value, an argument cut to an int, or the 0 of a fault; a user can at most restore a default |
| `ioctl_exchange_race` | ExchangeAtomic, **violated** | two administrators: not "atomically" (`scull.h:149`) |
| `module_life` | ProcInv, UsersNeedDevice, TrimAlone, NothingLeft, SeqSafeUntilUnload, HeldListStays, ProcmemBounded, ReadsEnd | init, users and cleanup do not meet; scullseq meets freed memory only when rmmod overtakes it; no list is freed under a reader that holds the semaphore, but by rmmod; scullmem prints at most one line and the quanta of one item past its limit; a read ends unless its reader dies or waits for a semaphore that a dead user or reader keeps |
| `lifo_alone` | AloneInv, SoundUnlessHurt, DanglingOnlyAfterHurt, LastInFirstOut | one task, every open mode, failing allocations and copies: what remains true after a trim or a failed transfer, and that nothing else does harm |
| `lifo_race` | FsetIsSize, **violated** | unlocked calls overwrite each other |
| `task08_safe` | Task08Inv, ReadInPage, IdChecked, GoesClean, OrphansOfFailedInit | only the id is taken for it; the page is lost only without a directory; only a failing init leaves an open file without its module, and never foo; the negative size of foo is never used, because the semaphore is never released (a repair of the locking alone would expose it) |
| `task08_wedged` | CallsReturn, **violated** | the semaphore that is never released |
| `hooks_life` | HooksInv, GoneUnused, FilterReady, OnlyNetFUnregistered, UnloadEnds | no callback reaches a module that is gone or not filled in; NetF alone outlives a failed registration; unloads end |

Facts about the code met while modelling, which no run is spent on:

- `lifo_trim` leaves `dev->data` at the freed first node (`LIFO/main.c:49`), so DataIsFirst
  fails with write-only opens; a fault in a multi-byte transfer leaves `fset` and the
  list in disagreement (`LIFO/main.c:130`), so FsetIsSize fails with them.
- `scull_ioctl`'s Set through a pointer that faults leaves 0 in the global
  (`Scull/main.c:378`), and Tell makes a negative int of a large argument (line 384); Query,
  "it's positive" (line 391), then returns 0, or what looks like an error. A device trimmed
  to the 0 kills the next reader or writer, which keeps the semaphore (DeadOnlyOfZero), and
  the readers of the proc files wait for it for ever (ReadsEnd).
- `scull_cleanup_module` trims without the semaphore that the comment on `scull_trim`
  requires (`Scull/main.c:41`); TrimAlone shows that nobody else is there, unless a build
  with `SCULL_DEBUG` has a reader in a proc file.
- `scull_read_procmem` loads the list before it takes the semaphore (`Scull/main.c:76`): it
  walks freed memory when a write-only open trims the device while it waits. SeqSafeUntilUnload
  is therefore about scullseq only. Its limit, "Don't print more than this" (line 72), is passed.
- NetF's init reports a hook that may not be registered (`NetF.c:66`), and its exit then
  takes it off a list it is not on.
- The sender swaps the bytes of a checksum that is right as it is (`RawIP/src/main.c:86`);
  the kernel replaces it, for a socket with `IP_HDRINCL`.
- Task08's init forgets its page when the directory cannot be made (line 139), and a
  write to id of more than twelve bytes puts a zero after the buffer (line 58).

### Bounds

Every bound is a CONSTANT with BOUND in its comment.

- Scull: two tasks are enough for every pair of steps of two calls to interleave;
  two files let a trim run while another file is in use. A quantum of 2 bytes with a
  qset of 1, or 1 with 2, and positions up to 3, cover two items, both ends of a
  quantum, a short transfer, a hole and a position past the end. `scull_linear` has
  one file and two byte values (an order of writes shows), `scull_tuned` two of each
  and transfers of two bytes only: the quantum of 1 that the module is loaded with cuts
  them short, until a reset has made it 2 (and qset 1 instead of 2, in a step of its own).
- Ioctl: a user and one or two administrators, all commands, two argument values
  that differ from the defaults; in `ioctl_tuning` one of them is beyond INT_MAX.
- Lifo: three nodes and writes of up to two bytes, so that nodes are reused; counts
  larger than the list.
- Task08: a page of two bytes and counts 0, 1, 3 (nothing, part, more than a page); an
  id of two bytes, texts shorter, equal, terminated, longer and wrong.
- Module: two devices (one behind the loop, one ahead of it), two users each; two readers,
  so that one may wait for the other; lists of up to two items with a limit of one line, so
  that it is reached inside a list, between devices and by the quanta of a last item.
- Hooks: three units, two of them keyboards: callbacks overlap, and an interface of the
  wrong kind is there.

Left out: in `Scull`, negative parameters (`ScullIoctl` has them; `DeviceConstants` keeps
them from the device), the overflow of `quantum * qset` and the truncation of `item` to int
(its numbers are unbounded naturals); positions other than
0 in lifo, which are refused before anything happens; pread and pwrite on the Task08
files.

Deadlock is checked everywhere except where the only task may die of an oops
(`scull_alone`, `lifo_alone`), in the Task08 runs, whose subject is that everybody ends up
waiting, in `module_life`, where a reader that died in freed memory, or that waits for a
semaphore whose holder died, keeps rmmod waiting for ever, and in `hooks_life`, where NetF's exit may die.

### Fairness

`CallsReturn` of `Scull` assumes that a task inside the kernel keeps running (weak
fairness of its own steps, which stay enabled until taken) and that a semaphore
which is free again and again is granted to a waiter (strong fairness of
`Acquire`): Linux semaphores serve waiters first come, first served. Nothing is
assumed about callers. `ReadsEnd` of `ScullModule` assumes the same of the readers of the
proc files (weak fairness of `Reading`, strong of `Down`) and weak fairness of
`Leave \/ Die`: a user in a critical section leaves it or dies in it, and nothing says which.
So the property excepts a reader that waits for a semaphore whose holder is dead (`Stuck`),
besides one that dies itself. `UnloadEnds` of `Hooks` assumes that callbacks return and
that the exit function goes on when the last one has. `Task08` assumes the same; its counterexample does not depend
on it, since the semaphore is never free again.

## 4. Proofs

Every theorem is for arbitrary constants that satisfy the named assumptions of its
module: `IoctlConstants`, `DeviceConstants`, `ProcConstants`, `ModuleConstants`,
`LifoConstants`, `IdConstants`, `Task08Constants` and `HooksConstants`. They say what kind
of thing each constant is and that a byte is told apart from the marks for "unset" and
"nothing"; `DeviceConstants` asks for some transfer size, and `Task08Constants` for
finitely many tasks. Theorems that hold only in a special case say it in an ASSUME.

| Module | Theorems (the property where a run checks it) |
|---|---|
| `ScullIoctlProofs` | `IoctlTypeCorrect` (IoctlTypeOK), `OnlyAdminsTuneHolds` (OnlyAdminsTune), `ExchangeAtomicWithOneTuner` |
| `ScullProofs` | `TypeCorrect` (TypeOK), `MutualExclusion` (Exclusive), `SoundUnlessRacedHolds` (SoundUnlessRaced), `DeadOnlyOfZeroHolds` (DeadOnlyOfZero), `DeviceImplementsIoctl` |
| `ScullStoreProofs` | `LinearUntilRacedHolds` (LinearUntilRaced); with `Steady`: `StoreInvHolds`, `LayoutCurrentHolds`, `SizeBackedHolds`, `HeapSafeHolds`, `ReadNeverAllocatesHolds`, `LinearizableHolds` (the properties so named) |
| `ScullModuleProofs` | `UsersNeedDeviceHolds`, `TrimAloneHolds`, `NothingLeftHolds`, `ProcInvHolds`, `SeqSafeHolds` (SeqSafeUntilUnload), `ProcmemBoundedHolds`, `HeldListStaysHolds` |
| `LifoProofs` | `LifoInvHolds`; for one task: `AloneInvHolds`, `DanglingOnlyAfterHurtHolds`, `SoundUnlessHurtHolds`, `LastInFirstOutHolds` |
| `Task08Proofs` | `Task08InvHolds`, `ReadInPageHolds`, `IdCheckedHolds`, `GoesCleanHolds`, `OrphansOfFailedInitHolds` |
| `HooksProofs` | `HooksInvHolds`, `GoneUnusedHolds`, `FilterReadyHolds`, `OnlyNetFUnregisteredHolds` |
| `Checksum` | `FoldsSuffice`, `CheckNeedsNoSwap` |

A run's inductive invariant names what the properties need and not the properties
themselves: where one of them is needed for the induction as well, the proof module's `IInv`
adds it (`ScullModuleProofs`, `Task08Proofs`, `HooksProofs`).

**Ioctl.** `IoctlTypeCorrect` says of the parameters where their values come from (`Values`).
`OnlyAdminsTuneHolds` rests on the invariant that a call past `IoctlEnter` with
a privileged verb belongs to an administrator. `ExchangeAtomicWithOneTuner` is for one
administrator and no reset: between the load of `tmp` and the store nobody else may store.

**Scull's memory.** `DeviceImplementsIoctl` (each step of the composition is a step of the
ioctl specification or leaves its variables alone) carries the ioctl theorems over to
the device. `DeadOnlyOfZeroHolds` rests on the same invariant: while
the device's memory is what its fields say, no access fails, and the division is left as the
one cause of death. `SoundUnlessRaced` is not inductive alone: it needs the types, mutual exclusion
(nobody else is in a critical section when one ends) and the fact that between the two
steps of a trim the list is empty, so that changing the geometry there leaves no array or
quantum of the old one. The arithmetic it rests on is in lemmas: where a position lies in
item, array and quantum, and that a transfer cut by `Span` stays in its quantum.

**Scull as a store of bytes.** `LinearUntilRacedHolds` is the refinement of `ByteStore`
step by step, for any tasks, files, parameters and interleaving, as long as no critical
section has run with a stale geometry. It needs three invariants besides
`SoundUnlessRaced`: a call in flight has no answer yet (`Unanswered`), no position lies
beyond the bound (`Within`), and the list is empty inside a trim (`TrimEmpty`). Its core is
arithmetic again. A position and its coordinates (item, array index, offset)
determine each other, so two positions share a quantum exactly when `Cell` says so, and
the n bytes that follow a position lie in one quantum if `Span` allowed them. Hence
`CopyIn` on one quantum is a write of n bytes in the store and nothing else, a read of
one quantum is a read of n bytes, and the store of `qset`, while the list is empty,
changes no byte.

When is nothing ever stale? `Steady` names two cases: a single task, which may also tune
and reset, and any number of tasks when nobody may change the parameters and the module is
loaded with the defaults, so that a reset changes nothing. In both, what a read or write
has loaded of the geometry is the device's from the load to the end of the call (`Fresh`),
so `hist.raced` stays false and everything proved "until raced" holds for good:
`Linearizable`, the memory invariants, and that a read allocates nothing. Without `Steady`
this is false; `scull_stale` shows the counterexample.

**Module and proc files.** `ModuleInv`: how far the loops have come tells which devices are
ready, an open file pins the module, the semaphore is taken exactly when a user or a reader of a
proc file is inside or a user has died there, there is never more than one, and readers run only
between the making and the removal of the proc files of a debug build. The readers' steps
are three kinds (`ReaderMoves`, `ReaderTakes`, `ReaderGives`) and each has its lemma.
`ProcInv` adds what each reader knows (`ReadsSound`): a scullseq reader has a list only
while it holds the semaphore, and scullmem comes to a list only below its limit. With
UsersNeedDevice, SeqSafeUntilUnload and ProcmemBounded, which the induction needs too, it is
`IInv`. The step in which a list is freed under a reader separates the two files: scullmem loads its pointer
before it has the semaphore, and nothing of the kind is true of it.

**Lifo.** `LifoInv` holds for any number of tasks without a lock: every pointer is null or
leads to a node that a write has filled, and the opens, those under way included, stay
within their bound. The rest is for one task, and is
false for two (`lifo_race`). The invariant `AloneInv` says that fset nodes hang from the
head of the list (from the task's own pointer during a read or a write, which store
`dev->data` only at their end): there is a walk through the heap, given as a
function from 0 .. fset, without a repetition, whose nodes are allocated, and unless a node
was lost no other node is. Each action shifts, extends or cuts that walk, and lemmas
of their own say how. A trim leaves the nodes freed and `data` dangling; a transfer cut
short breaks the tie to `fset`; `hurt` records both, and `fset` stays at or above 0 even then
(`Clamped`), which the comparison of an int with a size_t in lifo_read depends on. The
refinement of `Stack` then holds for each step: `Content` is the walk's bytes, and the iteration of the loop that
moves a byte pushes or pops one.

**Task08.** `Task08Inv` ties the entries made so far to the files that may be open, the
calls on foo, up to their end, to the semaphore, and a `size` other than 0 to a writer
that has it and does not give it back.
`IdChecked` is about the bytes: for every id, text and earlier content of the stack, a
write whose verdict is success carried the id, perhaps with a NUL after it. The buffer
starts with anything; the zero the code stores behind the copied bytes makes the comparison
stop, and where that zero falls outside the buffer the text is longer than the id.

**Hooks.** `HooksInv` ties registration to the stage of the module and every use the kernel
makes of it to the registration, or to an exit that waits for it.

**Checksum.** `FoldsSuffice`: the sum of at most 30 words leaves at most 29 carries, so one
fold leaves at most one and the second none. That the loop's sum is within 30 * 65535 is
an induction over the words and is not proved. `CheckNeedsNoSwap`: a word makes the whole
sum congruent to 0 modulo 65535 only if it is the complement, and the two orders of two
bytes differ by 255 times their difference, which is no multiple of 65535 unless it is 0.

Only model-checked: liveness (`CallsReturn`, `ReadsEnd`, `UnloadEnds`), since fairness and
ENABLED are outside the prover's reach. Every invariant, action property and refinement
that a passing run checks is also proved, in the generality said above. Only proved:
`Checksum` (TLC's integers are too narrow for it), `LifoInvHolds` as such (for several tasks;
`lifo_alone` checks it within `AloneInv`), `DeviceImplementsIoctl` and
`ExchangeAtomicWithOneTuner`.

## 5. Plan

1. Done: the scull device with its ioctl interface and abstract store; the module's
   life with its proc files; lifo with its abstract stack; Task08 in its three patches;
   the modules made of callbacks; the checksum and its sender; the theorems above.
2. Next proofs: what of the store of bytes remains after a race (the size and the bytes
   outside the item written with the old geometry); `Fixed` for parameters loaded at other
   values than the defaults when no reset is issued; the sum of the checksum's loop for the
   five words of a header without options, written out.

### Not modelled

- Eth0's listener: each packet is received and sent back in a loop that keeps nothing.
- The hello modules, memmod, Task01, Task04 and Task05's Solution1 and Solution3: they
  log at load and unload.
- RawIP's socket calls, one after the other, each followed by an exit if it fails; the
  headers under `RawIP/doc`, which are copies of system headers for reading.
- The build files and the scripts.
- Overflow of `int` in scull's position arithmetic, the digits of jiffies, pread and
  pwrite on the Task08 files.
