-------------------------------- MODULE Lifo --------------------------------
(***************************************************************************)
(* The lifo character device (src/LIFO/main.c): a stack of bytes kept in a *)
(* linked list of kmalloc'ed nodes, with the pointer dev->data and the     *)
(* counter dev->fset, and no lock.                                         *)
(*                                                                         *)
(* A call loads its local ptr from dev->data, works node by node through   *)
(* ptr, and stores ptr back at the end; an error leaves it before that     *)
(* store.  One iteration of a loop is one step.  After an access to memory *)
(* that is not allocated (a freed node, NULL) anything may happen: the     *)
(* step records the call in bad and the task goes no further, so that the  *)
(* properties speak of what comes before the first such access.            *)
(***************************************************************************)
EXTENDS Integers, Sequences, FiniteSets

CONSTANTS
  Tasks,      \* tasks that make system calls
  Nodes,      \* BOUND: addresses of struct lifo_node
  NULL,       \* the null pointer
  Bytes,      \* byte values
  Unset,      \* what a fresh node holds
  Nothing,    \* no byte delivered yet
  Writes,     \* BOUND: the buffers callers write, sequences of bytes
  Counts,     \* BOUND: the counts callers read
  OpenModes,  \* the modes callers open with
  Faulty,     \* TRUE when kmalloc or a user copy may fail
  MaxOpens    \* BOUND: open files

ASSUME LifoConstants ==
  /\ NULL \notin Nodes
  /\ Unset \notin Bytes /\ Nothing \notin Bytes /\ Unset # Nothing
  /\ Writes \subseteq Seq(Bytes)
  /\ Counts \subseteq Nat
  /\ OpenModes \subseteq {"rdonly", "wronly", "rdwr"}
  /\ Faulty \in BOOLEAN
  /\ MaxOpens \in Nat

VARIABLES
  mod,     \* the module: "out", "in", "nodev" (cdev_add failed), "going"
  opens,   \* open files (they keep no state of their own)
  data,    \* dev->data
  fset,    \* dev->fset
  node,    \* the heap: is a node allocated, its next, its value
  call,    \* the call each task is in
  last,    \* history: the last byte delivered to a reader
  bad,     \* history: the op of the first access to unallocated memory
  hurt     \* history: what has happened to the list, see Hurts

vars == <<mod, opens, data, fset, node, call, last, bad, hurt>>

Ptr == Nodes \cup {NULL}
NoCall == [op |-> "none", ptr |-> NULL, left |-> 0, todo |-> <<>>]

Init ==
  /\ mod = "out" /\ opens = 0
  /\ data = NULL /\ fset = 0
  /\ node = [n \in Nodes |-> [live |-> FALSE, next |-> NULL, value |-> Unset]]
  /\ call = [t \in Tasks |-> NoCall]
  /\ last = Nothing /\ bad = "none" /\ hurt = {}

Live == {n \in Nodes : node[n].live}
Idle(t) == call[t].op = "none"
Using == {t \in Tasks : call[t].op \in {"read", "write"}}
Opening == {t \in Tasks : call[t].op = "open"}

Goes(t, c) == call' = [call EXCEPT ![t] = c]
Leave(t) == Goes(t, NoCall)

\* The pointer does not lead to an allocated node.
Dangling(p) == p \notin Live

Oops(t) ==
  /\ bad' = IF bad = "none" THEN call[t].op ELSE bad
  /\ Goes(t, [call[t] EXCEPT !.op = "dead"])
  /\ UNCHANGED <<mod, opens, data, fset, node, last>>

(***************************************************************************)
(* History.  "trim": a list was freed and dev->data still leads to it.     *)
(* "cut": a call was left after some of its bytes, with fset counted and   *)
(* dev->data not moved.  "leak": a node was lost.  Only a leak outlives    *)
(* the device.                                                             *)
(***************************************************************************)
Hurts(kinds) == hurt' = hurt \cup kinds

CutShort(t) == IF call[t].ptr = data THEN {} ELSE {"cut", "leak"}

kfree(n) == node' = [node EXCEPT ![n].live = FALSE]

-----------------------------------------------------------------------------
(***************************************************************************)
(* lifo_init_module: without a region or memory for the device the load    *)
(* fails and leaves nothing behind, which is no step here.  The device     *)
(* starts cleared; when cdev_add fails the module stays, unreachable.      *)
(***************************************************************************)
Load ==
  /\ mod = "out"
  /\ mod' \in {"in"} \cup (IF Faulty THEN {"nodev"} ELSE {})
  /\ data' = NULL /\ fset' = 0
  /\ hurt' = hurt \cap {"leak"}
  /\ UNCHANGED <<opens, node, call, last, bad>>

\* lifo_cleanup_module, possible once nobody uses the device: cdev_del, trim.
Unload(t) ==
  /\ mod \in {"in", "nodev"} /\ opens = 0 /\ Opening = {} /\ Idle(t)
  /\ mod' = "going"
  /\ Goes(t, [NoCall EXCEPT !.op = "unload", !.ptr = data])
  /\ UNCHANGED <<opens, data, fset, node, last, bad, hurt>>

\* lifo_open: write-only starts a trim
Open(t, m) ==
  /\ mod = "in" /\ Idle(t) /\ opens + Cardinality(Opening) < MaxOpens
  /\ IF m = "wronly"
     THEN /\ Goes(t, [NoCall EXCEPT !.op = "open", !.ptr = data])
          /\ UNCHANGED opens
     ELSE opens' = opens + 1 /\ UNCHANGED call
  /\ UNCHANGED <<mod, data, fset, node, last, bad, hurt>>

\* lifo_trim, one node at a time: dev->data is left as it is.
TrimNode(t) ==
  /\ call[t].op \in {"open", "unload"} /\ ~Dangling(call[t].ptr)
  /\ kfree(call[t].ptr)
  /\ Goes(t, [call[t] EXCEPT !.ptr = node[call[t].ptr].next])
  /\ UNCHANGED <<mod, opens, data, fset, last, bad, hurt>>

\* The end of lifo_trim, and of the open or the unload around it.
TrimEnd(t) ==
  /\ call[t].op \in {"open", "unload"} /\ call[t].ptr = NULL
  /\ fset' = 0
  /\ IF call[t].op = "open"
     THEN opens' = opens + 1 /\ UNCHANGED mod
     ELSE mod' = "out" /\ UNCHANGED opens
  /\ Hurts(IF data = NULL THEN {} ELSE {"trim"})
  /\ Leave(t)
  /\ UNCHANGED <<data, node, last, bad>>

\* lifo_release
Release ==
  /\ opens > (IF Using = {} THEN 0 ELSE 1)
  /\ opens' = opens - 1
  /\ UNCHANGED <<mod, data, fset, node, call, last, bad, hurt>>

-----------------------------------------------------------------------------
\* A plausible slip: the count is not cut to what is there.
ClampNot(count) == count

(***************************************************************************)
(* lifo_read.  f_pos is 0 (the device has no llseek and never moves it;    *)
(* any other position is refused and changes nothing).  dev->fset < count  *)
(* compares an int with a size_t: a negative fset is a huge number.        *)
(***************************************************************************)
Clamp(count) == IF fset >= 0 /\ fset < count THEN fset ELSE count

ReadBegin(t, count) ==
  /\ mod = "in" /\ Idle(t) /\ opens > 0
  /\ Goes(t, [NoCall EXCEPT !.op = "read", !.ptr = data,
                             !.left = Clamp(count)])
  /\ UNCHANGED <<mod, opens, data, fset, node, last, bad, hurt>>

\* One byte: copy_to_user, count down, free the node.
ReadByte(t) ==
  LET c == call[t] IN
  /\ c.op = "read" /\ c.left > 0 /\ ~Dangling(c.ptr)
  /\ last' = node[c.ptr].value
  /\ fset' = fset - 1
  /\ kfree(c.ptr)
  /\ Goes(t, [c EXCEPT !.ptr = node[c.ptr].next, !.left = c.left - 1])
  /\ UNCHANGED <<mod, opens, data, bad, hurt>>

\* A fault leaves the call, with dev->data still at the node it started from.
ReadFault(t) ==
  /\ Faulty /\ call[t].op = "read" /\ call[t].left > 0
  /\ ~Dangling(call[t].ptr)
  /\ Hurts(CutShort(t))
  /\ Leave(t)
  /\ UNCHANGED <<mod, opens, data, fset, node, last, bad>>

\* A plausible slip: dev->data is not moved past the nodes just freed.
ReadEndKeepsData(t) ==
  /\ call[t].op = "read" /\ call[t].left = 0
  /\ Leave(t)
  /\ UNCHANGED <<mod, opens, data, fset, node, last, bad, hurt>>

ReadEnd(t) ==
  /\ call[t].op = "read" /\ call[t].left = 0
  /\ data' = call[t].ptr
  /\ Leave(t)
  /\ UNCHANGED <<mod, opens, fset, node, last, bad, hurt>>

-----------------------------------------------------------------------------
(* lifo_write.                                                             *)

WriteBegin(t, s) ==
  /\ mod = "in" /\ Idle(t) /\ opens > 0
  /\ Cardinality(Live) + Len(s) <= Cardinality(Nodes)
  /\ Goes(t, [NoCall EXCEPT !.op = "write", !.ptr = data, !.todo = s])
  /\ UNCHANGED <<mod, opens, data, fset, node, last, bad, hurt>>

\* A plausible slip: every byte is linked to the old top of the stack.
WriteByteToData(t) ==
  LET c == call[t] IN
  /\ c.op = "write" /\ c.todo # <<>>
  /\ \E n \in Nodes \ Live :
       /\ node' = [node EXCEPT ![n] = [live |-> TRUE, next |-> data,
                                       value |-> Head(c.todo)]]
       /\ Goes(t, [c EXCEPT !.ptr = n, !.todo = Tail(c.todo)])
  /\ fset' = fset + 1
  /\ UNCHANGED <<mod, opens, data, last, bad, hurt>>

\* One byte: allocate a node, fill it, count up, link it before ptr.
WriteByte(t) ==
  LET c == call[t] IN
  /\ c.op = "write" /\ c.todo # <<>>
  /\ \E n \in Nodes \ Live :
       /\ node' = [node EXCEPT ![n] = [live |-> TRUE, next |-> c.ptr,
                                       value |-> Head(c.todo)]]
       /\ Goes(t, [c EXCEPT !.ptr = n, !.todo = Tail(c.todo)])
  /\ fset' = fset + 1
  /\ UNCHANGED <<mod, opens, data, last, bad, hurt>>

\* kmalloc returns NULL and the result is not tested.
WriteNoMem(t) ==
  /\ Faulty /\ call[t].op = "write" /\ call[t].todo # <<>>
  /\ Hurts(CutShort(t))
  /\ Oops(t)

\* A fault leaves the call: the new node and those linked before it are lost.
WriteFault(t) ==
  /\ Faulty /\ call[t].op = "write" /\ call[t].todo # <<>>
  /\ \E n \in Nodes \ Live : node' = [node EXCEPT ![n].live = TRUE]
  /\ Hurts(CutShort(t) \cup {"leak"})
  /\ Leave(t)
  /\ UNCHANGED <<mod, opens, data, fset, last, bad>>

WriteEnd(t) ==
  /\ call[t].op = "write" /\ call[t].todo = <<>>
  /\ data' = call[t].ptr
  /\ Leave(t)
  /\ UNCHANGED <<mod, opens, fset, node, last, bad, hurt>>

(***************************************************************************)
(* ptr->next of a trim, ptr->value of a read: the loop of a trim ends at   *)
(* NULL, that of a read only when its count is used up.                    *)
(***************************************************************************)
Crash(t) ==
  /\ \/ call[t].op \in {"open", "unload"} /\ call[t].ptr # NULL
     \/ call[t].op = "read" /\ call[t].left > 0
  /\ Dangling(call[t].ptr)
  /\ Oops(t) /\ UNCHANGED hurt

Step(t) ==
  \/ Crash(t)
  \/ TrimNode(t) \/ TrimEnd(t)
  \/ ReadByte(t) \/ ReadFault(t) \/ ReadEnd(t)
  \/ WriteByte(t) \/ WriteNoMem(t) \/ WriteFault(t) \/ WriteEnd(t)

Next ==
  \/ Load \/ Release
  \/ \E t \in Tasks :
       \/ Unload(t) \/ Step(t)
       \/ \E m \in OpenModes : Open(t, m)
       \/ \E k \in Counts : ReadBegin(t, k)
       \/ \E s \in Writes : WriteBegin(t, s)

Spec == Init /\ [][Next]_vars

-----------------------------------------------------------------------------
\* Types; a reader is only ever given a byte that a caller wrote.
CallType ==
  [op : {"none", "open", "unload", "read", "write", "dead"},
   ptr : Ptr, left : Nat, todo : Seq(Bytes)]

TypeOK ==
  /\ mod \in {"out", "in", "nodev", "going"}
  /\ opens \in 0 .. MaxOpens
  /\ data \in Ptr /\ fset \in Int
  /\ node \in [Nodes -> [live : BOOLEAN, next : Ptr,
                        value : Bytes \cup {Unset}]]
  /\ call \in [Tasks -> CallType]
  /\ last \in Bytes \cup {Nothing}
  /\ bad \in {"none", "open", "unload", "read", "write"}
  /\ hurt \subseteq {"trim", "cut", "leak"}

Quiet == \A t \in Tasks : Idle(t)

\* lifo.h: "data: pointer to first fifo_node".  Between calls it is NULL or
\* leads to an allocated node.
DataIsFirst == Quiet /\ mod = "in" => data = NULL \/ ~Dangling(data)

(***************************************************************************)
(* lifo.h: "fset: the current fifo size".  Between calls the list from     *)
(* dev->data has exactly fset nodes, all allocated.                        *)
(***************************************************************************)
Chain(p, n) ==
  LET at[k \in 0 .. n] ==
        IF k = 0 THEN p
        ELSE IF at[k - 1] = NULL THEN NULL ELSE node[at[k - 1]].next
  IN [k \in 0 .. n |-> at[k]]

Listed == {Chain(data, fset)[k] : k \in 0 .. fset - 1}

FsetIsSize ==
  Quiet /\ mod = "in" =>
    /\ fset >= 0 /\ Listed \subseteq Live /\ Cardinality(Listed) = fset
    /\ Chain(data, fset)[fset] = NULL

\* Every allocated node is in the list, and after rmmod none is left.
NoNodeLost ==
  Quiet => Live \subseteq (IF mod = "in" THEN Listed ELSE {})

(***************************************************************************)
(* What lifo.h says of data and fset stays true, and no node is lost, over *)
(* any sequence of calls of one task and failures of them, until a trim    *)
(* leaves dev->data behind or a call is left after some of its bytes: a    *)
(* failure at the first byte, or of kmalloc, does no more than lose the    *)
(* node it was about.                                                      *)
(***************************************************************************)
SoundUnlessHurt ==
  /\ hurt \cap {"trim", "cut"} = {} => DataIsFirst /\ FsetIsSize
  /\ "leak" \notin hurt => NoNodeLost

(***************************************************************************)
(* When one task meets memory that is freed, or NULL, something has left   *)
(* dev->data behind before: for a read a call that was cut short, and then *)
(* only, since it goes no further than fset; for the trim of an open or of *)
(* rmmod, which follows the list to its end, such a call or a trim.        *)
(***************************************************************************)
DanglingOnlyAfterHurt ==
  /\ bad = "read" => "cut" \in hurt
  /\ bad \in {"open", "unload"} => hurt \cap {"trim", "cut"} # {}

(***************************************************************************)
(* Refinement: the stack is the fset nodes from the ptr of the call that   *)
(* is at work on the list, or from dev->data when there is none.           *)
(***************************************************************************)
Top == IF Using = {} THEN data ELSE call[CHOOSE t \in Using : TRUE].ptr

Content ==
  [k \in 1 .. fset |->
     LET n == Chain(Top, fset)[k - 1] IN IF n = NULL THEN Unset ELSE node[n].value]

StackOf == INSTANCE Stack WITH content <- Content

\* The device is a stack of bytes, last in, first out, until a call is cut
\* short, and from the next load on again.
stack == <<Content, last>>
LastInFirstOut ==
  /\ StackOf!StackInit
  /\ [][StackOf!StackNext \/ "cut" \in hurt \cup hurt']_stack

-----------------------------------------------------------------------------
(***************************************************************************)
(* The inductive invariant.  For any number of tasks: no pointer leads to  *)
(* a node that no byte was ever written to, and the calls that are opening *)
(* the device are counted.                                                 *)
(***************************************************************************)
Filled == {NULL} \cup {n \in Nodes : node[n].value \in Bytes}

PtrsFilled ==
  /\ data \in Filled
  /\ \A t \in Tasks : call[t].ptr \in Filled
  /\ \A n \in Nodes : node[n].next \in Filled

OpensCounted ==
  IsFiniteSet(Opening) /\ opens + Cardinality(Opening) <= MaxOpens

LifoInv == TypeOK /\ PtrsFilled /\ OpensCounted

(***************************************************************************)
(* For one task: where it can be (Stages); that a call cut short loses a   *)
(* node (Harms); that fset is never negative, not even then, so that the   *)
(* comparison of an int with a size_t is one of numbers, and a read asks   *)
(* for fset bytes at most (Clamped); that fset nodes, freed ones during a  *)
(* trim, hang from Top (Hanging); and that the nodes from the task's       *)
(* pointer on are those that are allocated (Holding).                      *)
(***************************************************************************)
Walk(heap, x, p, k) ==
  /\ x[0] = p
  /\ \A i \in 0 .. k - 1 : x[i] \in Nodes /\ x[i + 1] = heap[x[i]].next

Whole(heap, harm, x, k) ==
  /\ \A i \in 0 .. k - 1 : heap[x[i]].live
  /\ \A i, j \in 0 .. k - 1 : x[i] = x[j] => i = j
  /\ "trim" \notin harm => x[k] = NULL
  /\ "leak" \notin harm =>
       \A n \in Nodes : heap[n].live => \E i \in 0 .. k - 1 : x[i] = n

\* k nodes hang from p; they are those that are allocated.
Hangs(heap, p, k) == \E x \in [0 .. k -> Ptr] : Walk(heap, x, p, k)
Holds(heap, harm, p, k) ==
  \E x \in [0 .. k -> Ptr] : Walk(heap, x, p, k) /\ Whole(heap, harm, x, k)

Stages ==
  \A t \in Tasks :
    /\ bad # "none" => call[t].op = "dead"
    /\ mod \in {"out", "nodev"} => Idle(t) /\ fset = 0
    /\ mod = "going" => call[t].op \in {"unload", "dead"}
    /\ call[t].op = "unload" => mod = "going"

Harms == "cut" \in hurt => "leak" \in hurt

Clamped ==
  /\ fset >= 0
  /\ \A t \in Tasks : call[t].op = "read" => call[t].left <= fset

Hanging == "cut" \notin hurt => Hangs(node, Top, fset)

Holding ==
  "cut" \notin hurt =>
    \A t \in Tasks : call[t].op # "dead" =>
      \E k \in 0 .. fset :
        /\ call[t].op \in {"none", "read", "write"} => k = fset
        /\ Holds(node, hurt, IF Idle(t) THEN data ELSE call[t].ptr, k)

AloneInv == LifoInv /\ Stages /\ Harms /\ Clamped /\ Hanging /\ Holding
=============================================================================
