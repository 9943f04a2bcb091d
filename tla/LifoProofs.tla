----------------------------- MODULE LifoProofs -----------------------------
(***************************************************************************)
(* Theorems about the lifo device: what a reader is given, for any number  *)
(* of tasks, and what remains of the list, its counter and the stack they  *)
(* stand for when there is one.                                            *)
(***************************************************************************)
EXTENDS Lifo, TLAPS, FiniteSetTheorems, SequenceTheorems, WellFoundedInduction

NodeType == [live : BOOLEAN, next : Ptr, value : Bytes \cup {Unset}]

\* The call that Goes stores is the one a task is in, and the others stay.
LEMMA GoesType ==
  ASSUME NEW t \in Tasks, NEW c \in CallType, call \in [Tasks -> CallType],
         Goes(t, c)
  PROVE  /\ call' \in [Tasks -> CallType]
         /\ call'[t] = c
         /\ \A u \in Tasks : u # t => call'[u] = call[u]
BY DEF Goes

\* A task that is in no call has no local variables.
LEMMA NoCallType == NoCall \in CallType
<1>1. <<>> \in Seq(Bytes)
  OBVIOUS
<1>2. QED
  BY <1>1 DEF NoCall, CallType, Ptr

\* The call that Oops leaves a task in.
LEMMA DeadType ==
  ASSUME NEW c \in CallType
  PROVE  [c EXCEPT !.op = "dead"] \in CallType
BY DEF CallType

-----------------------------------------------------------------------------
(* The invariant for any number of tasks.                                  *)

LEMMA LifoInvInit == Init => LifoInv
<1> SUFFICES ASSUME Init PROVE LifoInv
  OBVIOUS
<1>1. TypeOK
  <2>1. call \in [Tasks -> CallType]
    BY NoCallType DEF Init
  <2>2. opens \in 0 .. MaxOpens
    BY LifoConstants DEF Init
  <2>3. QED
    BY <2>1, <2>2 DEF Init, TypeOK, Ptr
<1>2. PtrsFilled
  BY DEF Init, PtrsFilled, Filled, NoCall
<1>3. Opening = {}
  BY DEF Init, Opening, NoCall
<1>4. OpensCounted
  BY <1>3, FS_EmptySet, LifoConstants DEF Init, OpensCounted
<1>5. QED
  BY <1>1, <1>2, <1>4 DEF LifoInv

\* A node that holds a byte keeps one: pointers that lead to bytes still do.
LEMMA FilledGrows ==
  ASSUME \A n \in Nodes : node[n].value \in Bytes => node'[n].value \in Bytes
  PROVE  Filled \subseteq Filled'
BY DEF Filled

\* A step that opens nothing and ends no open keeps the count.
LEMMA OpeningStays ==
  ASSUME OpensCounted, UNCHANGED opens,
         \A u \in Tasks : call'[u].op = "open" <=> call[u].op = "open"
  PROVE  OpensCounted'
<1>1. Opening' = Opening
  BY DEF Opening
<1>2. QED
  BY <1>1 DEF OpensCounted

\* An open that ends, or dies, is one opening call less.
LEMMA OpeningEnds ==
  ASSUME NEW t \in Tasks, TypeOK, OpensCounted,
         call[t].op = "open", call'[t].op # "open",
         \A u \in Tasks : u # t => call'[u] = call[u],
         opens' \in {opens, opens + 1}
  PROVE  OpensCounted' /\ opens' \in 0 .. MaxOpens
<1>1. Opening' = Opening \ {t}
  BY DEF Opening
<1>2. t \in Opening
  BY DEF Opening
<1> DEFINE O == Opening
<1>3. IsFiniteSet(O) /\ opens + Cardinality(O) <= MaxOpens
  BY DEF OpensCounted
<1> HIDE DEF O
<1>4. /\ IsFiniteSet(O \ {t}) /\ Cardinality(O \ {t}) = Cardinality(O) - 1
      /\ Cardinality(O) \in Nat /\ Cardinality(O \ {t}) \in Nat
  BY <1>2, <1>3, FS_RemoveElement, FS_CardinalityType DEF O
<1>5. /\ opens \in Nat /\ MaxOpens \in Nat
  BY LifoConstants DEF TypeOK
<1>6. /\ opens' + Cardinality(O \ {t}) <= MaxOpens /\ opens' \in 0 .. MaxOpens
  BY <1>3, <1>4, <1>5
<1>7. QED
  BY <1>1, <1>4, <1>6 DEF O, OpensCounted

\* The new open file, or the new opening call, still fits.
LEMMA OpenStep ==
  ASSUME NEW t \in Tasks, NEW m, LifoInv, Open(t, m)
  PROVE  LifoInv'
<1>1. TypeOK /\ PtrsFilled /\ OpensCounted
  BY DEF LifoInv
<1> DEFINE O == Opening
<1>2. /\ IsFiniteSet(O) /\ Cardinality(O) \in Nat
      /\ opens + Cardinality(O) < MaxOpens
  BY <1>1, FS_CardinalityType DEF OpensCounted, Open
<1>3. opens \in Nat /\ MaxOpens \in Nat
  BY <1>1, LifoConstants DEF TypeOK
<1>4. Filled' = Filled
  BY DEF Open, Filled
<1>5. CASE m = "wronly"
  <2> DEFINE c == [NoCall EXCEPT !.op = "open", !.ptr = data]
  <2>1. c \in CallType /\ c.op = "open" /\ c.ptr = data
    BY NoCallType, <1>1 DEF CallType, TypeOK, NoCall
  <2>2. Goes(t, c) /\ opens' = opens
    BY <1>5 DEF Open
  <2> HIDE DEF c
  <2>3. /\ call' \in [Tasks -> CallType] /\ call'[t] = c
        /\ \A u \in Tasks : u # t => call'[u] = call[u]
    BY <2>1, <2>2, <1>1, GoesType DEF TypeOK
  <2>4. Opening' = O \cup {t}
    BY <2>1, <2>3 DEF Opening
  <2>5. t \notin O
    BY DEF Open, Idle, Opening
  <2> HIDE DEF O
  <2>6. /\ IsFiniteSet(O \cup {t})
        /\ Cardinality(O \cup {t}) = Cardinality(O) + 1
    BY <1>2, <2>5, FS_AddElement
  <2>7. OpensCounted'
    BY <1>2, <1>3, <2>2, <2>4, <2>6 DEF OpensCounted
  <2>8. TypeOK'
    BY <1>1, <2>2, <2>3 DEF Open, TypeOK
  <2>9. PtrsFilled'
    BY <1>1, <1>4, <2>1, <2>3 DEF Open, PtrsFilled
  <2>10. QED
    BY <2>7, <2>8, <2>9 DEF LifoInv
<1>6. CASE m # "wronly"
  <2>1. opens' = opens + 1 /\ call' = call
    BY <1>6 DEF Open
  <2>2. Opening' = O
    BY <2>1 DEF Opening
  <2> HIDE DEF O
  <2>3. OpensCounted'
    BY <1>2, <1>3, <2>1, <2>2 DEF OpensCounted
  <2>4. opens' \in 0 .. MaxOpens
    BY <1>2, <1>3, <2>1
  <2>5. TypeOK'
    BY <1>1, <2>1, <2>4 DEF Open, TypeOK
  <2>6. PtrsFilled'
    BY <1>1, <1>4, <2>1 DEF Open, PtrsFilled
  <2>7. QED
    BY <2>3, <2>5, <2>6 DEF LifoInv
<1>7. QED
  BY <1>5, <1>6

\* What a step of a call has to keep for the invariant to hold after it.
LEMMA CallStep ==
  ASSUME NEW t \in Tasks, NEW c \in CallType, LifoInv, Goes(t, c),
         Filled \subseteq Filled', c.ptr \in Filled', data' \in Filled',
         node' \in [Nodes -> NodeType], \A n \in Nodes : node'[n].next \in Filled',
         mod' \in {"out", "in", "nodev", "going"}, fset' \in Int,
         last' \in Bytes \cup {Nothing},
         bad' \in {"none", "open", "unload", "read", "write"},
         hurt' \subseteq {"trim", "cut", "leak"},
         \/ opens' = opens /\ (c.op = "open" <=> call[t].op = "open")
         \/ opens' \in {opens, opens + 1} /\ c.op # "open" /\ call[t].op = "open"
  PROVE  LifoInv'
<1>1. TypeOK /\ PtrsFilled /\ OpensCounted
  BY DEF LifoInv
<1>2. /\ call' \in [Tasks -> CallType] /\ call'[t] = c
      /\ \A u \in Tasks : u # t => call'[u] = call[u]
  BY <1>1, GoesType DEF TypeOK
<1>3. OpensCounted' /\ opens' \in 0 .. MaxOpens
  <2>1. CASE opens' = opens /\ (c.op = "open" <=> call[t].op = "open")
    <3>1. \A u \in Tasks : call'[u].op = "open" <=> call[u].op = "open"
      BY <1>2, <2>1
    <3>2. QED
      BY <1>1, <2>1, <3>1, OpeningStays DEF TypeOK
  <2>2. CASE opens' \in {opens, opens + 1} /\ c.op # "open" /\ call[t].op = "open"
    BY <1>1, <1>2, <2>2, OpeningEnds
  <2>3. QED
    BY <2>1, <2>2
<1>4. data' \in Ptr
  BY DEF Filled, Ptr
<1>5. TypeOK'
  BY <1>2, <1>3, <1>4 DEF TypeOK, NodeType
<1>6. PtrsFilled'
  <2>1. \A u \in Tasks : call'[u].ptr \in Filled'
    BY <1>1, <1>2 DEF PtrsFilled
  <2>2. QED
    BY <2>1 DEF PtrsFilled
<1>7. QED
  BY <1>3, <1>5, <1>6 DEF LifoInv

\* The steps that start a call: of unload, read and write.
LEMMA BeginStep ==
  ASSUME NEW t \in Tasks, LifoInv,
         \/ Unload(t)
         \/ \E k \in Counts : ReadBegin(t, k)
         \/ \E s \in Writes : WriteBegin(t, s)
  PROVE  LifoInv'
<1>1. TypeOK /\ PtrsFilled
  BY DEF LifoInv
<1>2. PICK c \in CallType :
        Goes(t, c) /\ c.ptr = data /\ c.op \in {"unload", "read", "write"}
  <2>1. CASE Unload(t)
    <3>1. [NoCall EXCEPT !.op = "unload", !.ptr = data] \in CallType
      BY <1>1, NoCallType DEF CallType, TypeOK
    <3>2. QED
      BY <2>1, <3>1 DEF Unload, NoCall
  <2>2. ASSUME NEW k \in Counts, ReadBegin(t, k)
        PROVE  \E c \in CallType :
                 Goes(t, c) /\ c.ptr = data /\ c.op \in {"unload", "read", "write"}
    <3>1. Clamp(k) \in Nat
      BY <1>1, LifoConstants DEF Clamp, TypeOK
    <3> DEFINE c == [NoCall EXCEPT !.op = "read", !.ptr = data,
                                   !.left = Clamp(k)]
    <3>2. c \in CallType /\ c.ptr = data /\ c.op = "read"
      BY <1>1, <3>1, NoCallType DEF CallType, TypeOK, NoCall
    <3>3. Goes(t, c)
      BY <2>2 DEF ReadBegin
    <3>4. QED
      BY <3>2, <3>3
  <2>3. ASSUME NEW s \in Writes, WriteBegin(t, s)
        PROVE  \E c \in CallType :
                 Goes(t, c) /\ c.ptr = data /\ c.op \in {"unload", "read", "write"}
    <3>1. s \in Seq(Bytes)
      BY LifoConstants
    <3> DEFINE c == [NoCall EXCEPT !.op = "write", !.ptr = data, !.todo = s]
    <3>2. c \in CallType /\ c.ptr = data /\ c.op = "write"
      BY <1>1, <3>1, NoCallType DEF CallType, TypeOK, NoCall
    <3>3. Goes(t, c)
      BY <2>3 DEF WriteBegin
    <3>4. QED
      BY <3>2, <3>3
  <2>4. QED
    BY <2>1, <2>2, <2>3
<1>3. /\ call[t].op = "none" /\ mod' \in {"in", "going"}
      /\ UNCHANGED <<opens, data, fset, node, last, bad, hurt>>
  BY <1>1 DEF Unload, ReadBegin, WriteBegin, Idle
<1>4. Filled' = Filled
  BY <1>3 DEF Filled
<1>5. /\ data' \in Filled' /\ c.ptr \in Filled' /\ Filled \subseteq Filled'
      /\ \A n \in Nodes : node'[n].next \in Filled'
  BY <1>1, <1>2, <1>3, <1>4 DEF PtrsFilled
<1>6. /\ node' \in [Nodes -> NodeType] /\ fset' \in Int
      /\ last' \in Bytes \cup {Nothing}
      /\ bad' \in {"none", "open", "unload", "read", "write"}
      /\ hurt' \subseteq {"trim", "cut", "leak"}
  BY <1>1, <1>3 DEF TypeOK, NodeType
<1>7. /\ opens' = opens /\ (c.op = "open" <=> call[t].op = "open")
      /\ mod' \in {"out", "in", "nodev", "going"}
  BY <1>2, <1>3
<1>8. QED
  BY <1>2, <1>5, <1>6, <1>7, CallStep

\* A node freed, or marked as allocated, keeps its byte and its next.
LEMMA LiveOnly ==
  ASSUME TypeOK, PtrsFilled, NEW n \in Nodes, NEW b \in BOOLEAN,
         node' = [node EXCEPT ![n].live = b]
  PROVE  /\ node' \in [Nodes -> NodeType]
         /\ \A m \in Nodes : /\ node'[m].next = node[m].next
                            /\ node'[m].value = node[m].value
         /\ \A m \in Nodes \ {n} : node'[m] = node[m]
         /\ node'[n].live = b
         /\ Filled' = Filled
         /\ \A m \in Nodes : node'[m].next \in Filled'
<1>1. node \in [Nodes -> NodeType]
  BY DEF TypeOK, NodeType
<1>2. \A m \in Nodes : node'[m] = IF m = n THEN [node[n] EXCEPT !.live = b] ELSE node[m]
  BY <1>1
<1>3. /\ \A m \in Nodes : /\ node'[m].next = node[m].next
                         /\ node'[m].value = node[m].value
      /\ \A m \in Nodes \ {n} : node'[m] = node[m]
      /\ node'[n].live = b
  BY <1>1, <1>2 DEF NodeType
<1>4. node' \in [Nodes -> NodeType]
  <2>1. [node[n] EXCEPT !.live = b] \in NodeType
    BY <1>1 DEF NodeType
  <2>2. QED
    BY <1>1, <2>1
<1>5. Filled' = Filled
  BY <1>3 DEF Filled
<1>6. QED
  BY <1>3, <1>4, <1>5 DEF PtrsFilled

\* A node that a write fills leads to bytes, and what led to bytes still does.
LEMMA FillNode ==
  ASSUME TypeOK, PtrsFilled, NEW n \in Nodes, NEW p \in Filled, NEW b \in Bytes,
         node' = [node EXCEPT ![n] = [live |-> TRUE, next |-> p, value |-> b]]
  PROVE  /\ node' \in [Nodes -> NodeType]
         /\ node'[n] = [live |-> TRUE, next |-> p, value |-> b]
         /\ \A m \in Nodes \ {n} : node'[m] = node[m]
         /\ Filled \subseteq Filled' /\ n \in Filled'
         /\ \A m \in Nodes : node'[m].next \in Filled'
<1>1. node \in [Nodes -> NodeType]
  BY DEF TypeOK, NodeType
<1>2. /\ node'[n] = [live |-> TRUE, next |-> p, value |-> b]
      /\ \A m \in Nodes \ {n} : node'[m] = node[m]
  BY <1>1
<1>3. node' \in [Nodes -> NodeType]
  <2>1. [live |-> TRUE, next |-> p, value |-> b] \in NodeType
    BY DEF NodeType, Filled, Ptr
  <2>2. QED
    BY <1>1, <2>1
<1>4. Filled \subseteq Filled' /\ n \in Filled'
  BY <1>2 DEF Filled
<1>5. \A m \in Nodes : node'[m].next \in Filled'
  BY <1>2, <1>4 DEF PtrsFilled
<1>6. QED
  BY <1>2, <1>3, <1>4, <1>5

\* A pointer to an allocated node leads to a byte.
LEMMA Live1 ==
  ASSUME TypeOK, PtrsFilled, NEW t \in Tasks, ~Dangling(call[t].ptr)
  PROVE  /\ call[t].ptr \in Nodes /\ node[call[t].ptr].live
         /\ node[call[t].ptr].value \in Bytes
         /\ node[call[t].ptr].next \in Filled
<1>1. call[t].ptr \in Nodes /\ node[call[t].ptr].live
  BY DEF Dangling, Live
<1>2. call[t].ptr # NULL
  BY <1>1, LifoConstants
<1>3. QED
  BY <1>1, <1>2 DEF PtrsFilled, Filled

\* lifo_trim and lifo_read free the node they are at and go on.
LEMMA FreeSteps ==
  ASSUME NEW t \in Tasks, LifoInv, TrimNode(t) \/ ReadByte(t)
  PROVE  LifoInv'
<1>1. TypeOK /\ PtrsFilled
  BY DEF LifoInv
<1>2. ~Dangling(call[t].ptr) /\ kfree(call[t].ptr)
  BY DEF TrimNode, ReadByte
<1> DEFINE p == call[t].ptr
           q == node[p].next
<1>3. /\ p \in Nodes /\ node[p].value \in Bytes /\ q \in Filled
  BY <1>1, <1>2, Live1
<1>4. /\ node' \in [Nodes -> NodeType] /\ Filled' = Filled
      /\ \A m \in Nodes : node'[m].next \in Filled'
  BY <1>1, <1>2, <1>3, LiveOnly DEF kfree
<1>5. call[t] \in CallType
  BY <1>1 DEF TypeOK
<1>6. PICK c \in CallType : Goes(t, c) /\ c.ptr = q /\ c.op = call[t].op
  <2>1. CASE TrimNode(t)
    <3> DEFINE c == [call[t] EXCEPT !.ptr = q]
    <3>1. c \in CallType /\ c.ptr = q /\ c.op = call[t].op
      BY <1>3, <1>5 DEF CallType, Filled, Ptr
    <3>2. Goes(t, c)
      BY <2>1 DEF TrimNode
    <3>3. QED
      BY <3>1, <3>2
  <2>2. CASE ReadByte(t)
    <3> DEFINE c == [call[t] EXCEPT !.ptr = q, !.left = call[t].left - 1]
    <3>1. call[t].left - 1 \in Nat
      BY <1>5, <2>2 DEF ReadByte, CallType
    <3>2. c \in CallType /\ c.ptr = q /\ c.op = call[t].op
      BY <1>3, <1>5, <3>1 DEF CallType, Filled, Ptr
    <3>3. Goes(t, c)
      BY <2>2 DEF ReadByte
    <3>4. QED
      BY <3>2, <3>3
  <2>3. QED
    BY <2>1, <2>2
<1>7. UNCHANGED <<mod, opens, data, bad, hurt>>
  BY DEF TrimNode, ReadByte
<1>8. fset' \in Int
  BY <1>1 DEF TrimNode, ReadByte, TypeOK
<1>9. last' \in Bytes \cup {Nothing}
  BY <1>1, <1>3 DEF TrimNode, ReadByte, TypeOK
<1>10. /\ data' \in Filled' /\ c.ptr \in Filled' /\ Filled \subseteq Filled'
  BY <1>1, <1>3, <1>4, <1>6, <1>7 DEF PtrsFilled
<1>11. /\ mod' \in {"out", "in", "nodev", "going"}
       /\ bad' \in {"none", "open", "unload", "read", "write"}
       /\ hurt' \subseteq {"trim", "cut", "leak"}
  BY <1>1, <1>7 DEF TypeOK
<1>12. opens' = opens /\ (c.op = "open" <=> call[t].op = "open")
  BY <1>6, <1>7
<1>13. QED
  BY <1>4, <1>6, <1>8, <1>9, <1>10, <1>11, <1>12, CallStep

\* The steps that leave a call: its end, or a fault of a user copy.
LEMMA LeaveSteps ==
  ASSUME NEW t \in Tasks, LifoInv,
         \/ TrimEnd(t) \/ ReadFault(t) \/ ReadEnd(t) \/ WriteFault(t) \/ WriteEnd(t)
  PROVE  LifoInv'
<1>1. TypeOK /\ PtrsFilled
  BY DEF LifoInv
<1>2. /\ Goes(t, NoCall) /\ NoCall \in CallType
      /\ NoCall.op = "none" /\ NoCall.ptr = NULL
  BY NoCallType DEF TrimEnd, ReadFault, ReadEnd, WriteFault, WriteEnd, Leave,
     NoCall
<1>3. UNCHANGED <<last, bad>>
  BY DEF TrimEnd, ReadFault, ReadEnd, WriteFault, WriteEnd
<1>4. /\ node' \in [Nodes -> NodeType] /\ Filled' = Filled
      /\ \A m \in Nodes : node'[m].next \in Filled'
  <2>1. CASE WriteFault(t)
    <3>1. PICK n \in Nodes : node' = [node EXCEPT ![n].live = TRUE]
      BY <2>1 DEF WriteFault
    <3>2. QED
      BY <1>1, <3>1, LiveOnly
  <2>2. CASE ~WriteFault(t)
    <3>1. node' = node
      BY <2>2 DEF TrimEnd, ReadFault, ReadEnd, WriteEnd
    <3>2. Filled' = Filled
      BY <3>1 DEF Filled
    <3>3. QED
      BY <1>1, <3>1, <3>2 DEF TypeOK, NodeType, PtrsFilled
  <2>3. QED
    BY <2>1, <2>2
<1>5. data' \in {data, call[t].ptr}
  BY DEF TrimEnd, ReadFault, ReadEnd, WriteFault, WriteEnd
<1>6. data' \in Filled' /\ NULL \in Filled' /\ Filled \subseteq Filled'
  <2>1. data \in Filled /\ call[t].ptr \in Filled
    BY <1>1 DEF PtrsFilled
  <2>2. NULL \in Filled
    BY DEF Filled
  <2>3. QED
    BY <1>4, <1>5, <2>1, <2>2
<1>7. mod' \in {"out", "in", "nodev", "going"} /\ fset' \in Int
  <2>1. fset' \in {fset, 0} /\ mod' \in {mod, "out"}
    BY DEF TrimEnd, ReadFault, ReadEnd, WriteFault, WriteEnd
  <2>2. QED
    BY <1>1, <2>1 DEF TypeOK
<1>8. hurt' \subseteq {"trim", "cut", "leak"}
  <2>1. hurt' \subseteq hurt \cup {"trim", "cut", "leak"}
    BY DEF TrimEnd, ReadFault, ReadEnd, WriteFault, WriteEnd, Hurts, CutShort
  <2>2. QED
    BY <1>1, <2>1 DEF TypeOK
<1>9. \/ opens' = opens /\ (NoCall.op = "open" <=> call[t].op = "open")
      \/ opens' \in {opens, opens + 1} /\ NoCall.op # "open" /\ call[t].op = "open"
  <2>1. CASE TrimEnd(t)
    BY <1>2, <2>1 DEF TrimEnd
  <2>2. CASE ReadFault(t) \/ ReadEnd(t) \/ WriteFault(t) \/ WriteEnd(t)
    BY <1>2, <2>2 DEF ReadFault, ReadEnd, WriteFault, WriteEnd
  <2>3. QED
    BY <2>1, <2>2
<1>10. last' \in Bytes \cup {Nothing} /\ bad' \in {"none", "open", "unload", "read", "write"}
  BY <1>1, <1>3 DEF TypeOK
<1> DEFINE c == NoCall
<1>11. /\ c \in CallType /\ Goes(t, c) /\ c.ptr \in Filled'
       /\ \/ opens' = opens /\ (c.op = "open" <=> call[t].op = "open")
          \/ opens' \in {opens, opens + 1} /\ c.op # "open" /\ call[t].op = "open"
  BY <1>2, <1>6, <1>9
<1> HIDE DEF c
<1>12. QED
  BY <1>4, <1>6, <1>7, <1>8, <1>10, <1>11, CallStep

\* lifo_write links a node that holds the next byte.
LEMMA WriteByteStep ==
  ASSUME NEW t \in Tasks, LifoInv, WriteByte(t)
  PROVE  LifoInv'
<1>1. TypeOK /\ PtrsFilled
  BY DEF LifoInv
<1>2. call[t] \in CallType /\ call[t].ptr \in Filled
  BY <1>1 DEF TypeOK, PtrsFilled
<1> DEFINE b == Head(call[t].todo)
           s == Tail(call[t].todo)
<1>3. b \in Bytes /\ s \in Seq(Bytes)
  <2>1. call[t].todo \in Seq(Bytes) /\ call[t].todo # <<>>
    BY <1>2 DEF WriteByte, CallType
  <2>2. QED
    BY <2>1
<1>4. PICK n \in Nodes :
        /\ node' = [node EXCEPT ![n] = [live |-> TRUE, next |-> call[t].ptr,
                                        value |-> b]]
        /\ Goes(t, [call[t] EXCEPT !.ptr = n, !.todo = s])
  BY DEF WriteByte
<1>5. /\ node' \in [Nodes -> NodeType]
      /\ Filled \subseteq Filled' /\ n \in Filled'
      /\ \A m \in Nodes : node'[m].next \in Filled'
  BY <1>1, <1>2, <1>3, <1>4, FillNode
<1> DEFINE c == [call[t] EXCEPT !.ptr = n, !.todo = s]
<1>6. c \in CallType /\ c.ptr = n /\ c.op = call[t].op
  BY <1>2, <1>3 DEF CallType, Ptr
<1>7. Goes(t, c)
  BY <1>4
<1> HIDE DEF c
<1>8. UNCHANGED <<mod, opens, data, last, bad, hurt>> /\ fset' = fset + 1
  BY DEF WriteByte
<1>9. /\ mod' \in {"out", "in", "nodev", "going"} /\ fset' \in Int
      /\ last' \in Bytes \cup {Nothing}
      /\ bad' \in {"none", "open", "unload", "read", "write"}
      /\ hurt' \subseteq {"trim", "cut", "leak"}
  BY <1>1, <1>8 DEF TypeOK
<1>10. data' \in Filled' /\ c.ptr \in Filled'
  BY <1>1, <1>5, <1>6, <1>8 DEF PtrsFilled
<1>11. opens' = opens /\ (c.op = "open" <=> call[t].op = "open")
  BY <1>6, <1>8
<1>12. QED
  BY <1>5, <1>6, <1>7, <1>9, <1>10, <1>11, CallStep

\* A task dies at memory that is not allocated.
LEMMA OopsSteps ==
  ASSUME NEW t \in Tasks, LifoInv, Crash(t) \/ WriteNoMem(t)
  PROVE  LifoInv'
<1>1. TypeOK /\ PtrsFilled
  BY DEF LifoInv
<1>2. Oops(t) /\ call[t].op \in {"open", "unload", "read", "write"}
  BY DEF Crash, WriteNoMem
<1> DEFINE c == [call[t] EXCEPT !.op = "dead"]
<1>3. call[t] \in CallType
  BY <1>1 DEF TypeOK
<1>4. c \in CallType /\ c.op = "dead" /\ c.ptr = call[t].ptr
  BY <1>3, DeadType DEF CallType
<1>5. Goes(t, c) /\ UNCHANGED <<mod, opens, data, fset, node, last>>
  BY <1>2 DEF Oops
<1>6. bad' \in {"none", "open", "unload", "read", "write"}
  BY <1>1, <1>2 DEF Oops, TypeOK
<1>7. hurt' \subseteq {"trim", "cut", "leak"}
  <2>1. hurt' \subseteq hurt \cup {"trim", "cut", "leak"}
    BY DEF Crash, WriteNoMem, Hurts, CutShort
  <2>2. QED
    BY <1>1, <2>1 DEF TypeOK
<1> HIDE DEF c
<1>8. Filled' = Filled
  BY <1>5 DEF Filled
<1>9. /\ Filled \subseteq Filled' /\ data' \in Filled' /\ c.ptr \in Filled'
      /\ \A m \in Nodes : node'[m].next \in Filled'
  BY <1>1, <1>4, <1>5, <1>8 DEF PtrsFilled
<1>10. /\ mod' \in {"out", "in", "nodev", "going"} /\ fset' \in Int
       /\ last' \in Bytes \cup {Nothing} /\ node' \in [Nodes -> NodeType]
  BY <1>1, <1>5 DEF TypeOK, NodeType
<1>11. \/ opens' = opens /\ (c.op = "open" <=> call[t].op = "open")
       \/ opens' \in {opens, opens + 1} /\ c.op # "open" /\ call[t].op = "open"
  BY <1>2, <1>4, <1>5
<1>12. QED
  BY <1>4, <1>5, <1>6, <1>7, <1>9, <1>10, <1>11, CallStep

\* The module is loaded, or an open file is closed.
LEMMA LoadRelease ==
  ASSUME LifoInv, Load \/ Release
  PROVE  LifoInv'
<1>1. TypeOK /\ PtrsFilled /\ OpensCounted
  BY DEF LifoInv
<1>2. call' = call /\ node' = node /\ last' = last /\ bad' = bad
  BY DEF Load, Release
<1>3. Opening' = Opening
  BY <1>2 DEF Opening
<1> DEFINE O == Opening
<1>4. IsFiniteSet(O) /\ Cardinality(O) \in Nat /\ opens + Cardinality(O) <= MaxOpens
  BY <1>1, FS_CardinalityType DEF OpensCounted
<1> HIDE DEF O
<1>5. opens \in 0 .. MaxOpens /\ MaxOpens \in Nat
  BY <1>1, LifoConstants DEF TypeOK
<1>6. opens' = opens \/ (opens > 0 /\ opens' = opens - 1)
  BY <1>5 DEF Load, Release
<1>7. opens' \in 0 .. MaxOpens /\ opens' + Cardinality(O) <= MaxOpens
  BY <1>4, <1>5, <1>6
<1>8. OpensCounted'
  BY <1>3, <1>4, <1>7 DEF O, OpensCounted
<1>9. /\ mod' \in {"out", "in", "nodev", "going"} /\ fset' \in Int
      /\ data' \in {data, NULL} /\ hurt' \subseteq hurt
  BY <1>1 DEF Load, Release, TypeOK
<1>10. TypeOK'
  BY <1>1, <1>2, <1>7, <1>9 DEF TypeOK, Ptr
<1>11. PtrsFilled'
  <2>1. Filled' = Filled /\ NULL \in Filled
    BY <1>2 DEF Filled
  <2>2. QED
    BY <1>1, <1>2, <1>9, <2>1 DEF PtrsFilled
<1>12. QED
  BY <1>8, <1>10, <1>11 DEF LifoInv

\* Every step keeps the invariant, for any number of tasks.
LEMMA LifoInvStep == LifoInv /\ [Next]_vars => LifoInv'
<1> SUFFICES ASSUME LifoInv, [Next]_vars PROVE LifoInv'
  OBVIOUS
<1>1. CASE Load \/ Release
  BY <1>1, LoadRelease
<1>2. ASSUME NEW t \in Tasks, Unload(t) PROVE LifoInv'
  BY <1>2, BeginStep
<1>3. ASSUME NEW t \in Tasks, NEW m \in OpenModes, Open(t, m) PROVE LifoInv'
  BY <1>3, OpenStep
<1>4. ASSUME NEW t \in Tasks, NEW k \in Counts, ReadBegin(t, k) PROVE LifoInv'
  BY <1>4, BeginStep
<1>5. ASSUME NEW t \in Tasks, NEW s \in Writes, WriteBegin(t, s) PROVE LifoInv'
  BY <1>5, BeginStep
<1>6. ASSUME NEW t \in Tasks, Step(t) PROVE LifoInv'
  BY <1>6, FreeSteps, LeaveSteps, WriteByteStep, OopsSteps DEF Step
<1>7. CASE UNCHANGED vars
  <2>1. Filled' = Filled /\ Opening' = Opening
    BY <1>7 DEF vars, Filled, Opening
  <2>2. TypeOK' /\ PtrsFilled' /\ OpensCounted'
    BY <1>7, <2>1 DEF LifoInv, vars, TypeOK, PtrsFilled, OpensCounted
  <2>3. QED
    BY <2>2 DEF LifoInv
<1>8. QED
  BY <1>1, <1>2, <1>3, <1>4, <1>5, <1>6, <1>7 DEF Next

(***************************************************************************)
(* For any number of tasks, which lifo does nothing to keep apart: a       *)
(* pointer leads to nodes that lifo_write has filled, so that lifo_read    *)
(* delivers only bytes that a caller wrote, whatever the calls do to the   *)
(* order of the list; and the device is never opened too often.            *)
(***************************************************************************)
THEOREM LifoInvHolds == Spec => []LifoInv
BY LifoInvInit, LifoInvStep, PTL DEF Spec

-----------------------------------------------------------------------------
(* Lists in a heap.                                                        *)

\* Whether a list hangs from p depends on the next pointers alone.
LEMMA HangsSame ==
  ASSUME NEW h, NEW g, NEW p, NEW k, Hangs(h, p, k),
         \A n \in Nodes : g[n].next = h[n].next
  PROVE  Hangs(g, p, k)
<1>1. PICK x \in [0 .. k -> Ptr] : Walk(h, x, p, k)
  BY DEF Hangs
<1>2. Walk(g, x, p, k)
  BY <1>1 DEF Walk
<1>3. QED
  BY <1>2 DEF Hangs

\* The allocated nodes hang from where they are held.
LEMMA HoldsHangs ==
  ASSUME NEW h, NEW r, NEW p, NEW k, Holds(h, r, p, k)
  PROVE  Hangs(h, p, k)
BY DEF Holds, Hangs

\* An empty list: p may be anything once a trim has left a pointer behind.
LEMMA HoldsNone ==
  ASSUME NEW h, NEW r, NEW p
  PROVE  Holds(h, r, p, 0) <=>
           /\ p \in Ptr
           /\ "trim" \notin r => p = NULL
           /\ "leak" \notin r => \A n \in Nodes : ~h[n].live
<1>1. ASSUME Holds(h, r, p, 0)
      PROVE  /\ p \in Ptr
             /\ "trim" \notin r => p = NULL
             /\ "leak" \notin r => \A n \in Nodes : ~h[n].live
  <2>1. PICK x \in [0 .. 0 -> Ptr] : Walk(h, x, p, 0) /\ Whole(h, r, x, 0)
    BY <1>1 DEF Holds
  <2>2. x[0] = p /\ x[0] \in Ptr /\ 0 .. 0 - 1 = {}
    BY <2>1 DEF Walk
  <2>3. QED
    BY <2>1, <2>2 DEF Whole
<1>2. ASSUME p \in Ptr, "trim" \notin r => p = NULL,
             "leak" \notin r => \A n \in Nodes : ~h[n].live
      PROVE  Holds(h, r, p, 0)
  <2> DEFINE x == [i \in 0 .. 0 |-> p]
  <2>1. x \in [0 .. 0 -> Ptr] /\ x[0] = p
    BY <1>2
  <2> HIDE DEF x
  <2>2. Walk(h, x, p, 0)
    BY <2>1 DEF Walk
  <2>3. Whole(h, r, x, 0)
    BY <1>2, <2>1 DEF Whole
  <2>4. QED
    BY <2>1, <2>2, <2>3 DEF Holds
<1>3. QED
  BY <1>1, <1>2

\* The first node of a list that is held is allocated, and is what p leads to.
LEMMA HoldsFirst ==
  ASSUME NEW h, NEW r, NEW p, NEW k \in Nat \ {0}, Holds(h, r, p, k)
  PROVE  p \in Nodes /\ p # NULL /\ h[p].live
<1>1. PICK x \in [0 .. k -> Ptr] : Walk(h, x, p, k) /\ Whole(h, r, x, k)
  BY DEF Holds
<1>2. 0 \in 0 .. k - 1
  OBVIOUS
<1>3. x[0] = p /\ x[0] \in Nodes /\ h[x[0]].live
  BY <1>1, <1>2 DEF Walk, Whole
<1>4. QED
  BY <1>3, LifoConstants

\* A node is put before the list (lifo_write).
LEMMA HoldsPush ==
  ASSUME NEW h \in [Nodes -> NodeType], NEW g \in [Nodes -> NodeType],
         NEW r, NEW p, NEW k \in Nat, NEW n \in Nodes, Holds(h, r, p, k),
         ~h[n].live, g[n].live, g[n].next = p,
         \A m \in Nodes \ {n} : g[m] = h[m]
  PROVE  Holds(g, r, n, k + 1)
<1>1. PICK x \in [0 .. k -> Ptr] : Walk(h, x, p, k) /\ Whole(h, r, x, k)
  BY DEF Holds
<1> DEFINE y == [i \in 0 .. k + 1 |-> IF i = 0 THEN n ELSE x[i - 1]]
<1>2. /\ y[0] = n /\ \A i \in 1 .. k + 1 : y[i] = x[i - 1]
      /\ y \in [0 .. k + 1 -> Ptr]
  BY DEF Ptr
<1> HIDE DEF y
<1>3. \A i \in 0 .. k - 1 : x[i] \in Nodes /\ x[i] # n /\ h[x[i]].live
  BY <1>1 DEF Walk, Whole
<1>4. ASSUME NEW i \in 0 .. (k + 1) - 1
      PROVE  y[i] \in Nodes /\ y[i + 1] = g[y[i]].next /\ g[y[i]].live
  <2>1. CASE i = 0
    BY <1>1, <1>2, <2>1 DEF Walk
  <2>2. CASE i # 0
    <3>1. i - 1 \in 0 .. k - 1 /\ i \in 1 .. k + 1 /\ i + 1 \in 1 .. k + 1
      BY <2>2
    <3> DEFINE j == i - 1
    <3>2. y[i] = x[j] /\ y[i + 1] = x[j + 1] /\ j \in 0 .. k - 1
      BY <1>2, <3>1
    <3> HIDE DEF j
    <3>3. x[j] \in Nodes /\ x[j] # n /\ h[x[j]].live /\ x[j + 1] = h[x[j]].next
      BY <1>1, <1>3, <3>2 DEF Walk
    <3>4. g[x[j]] = h[x[j]]
      BY <3>3
    <3>5. QED
      BY <3>2, <3>3, <3>4
  <2>3. QED
    BY <2>1, <2>2
<1>5. Walk(g, y, n, k + 1)
  BY <1>2, <1>4 DEF Walk
<1>6. ASSUME NEW i \in 0 .. (k + 1) - 1, NEW j \in 0 .. (k + 1) - 1, y[i] = y[j]
      PROVE  i = j
  <2>1. \A l \in 1 .. (k + 1) - 1 : l - 1 \in 0 .. k - 1 /\ y[l] = x[l - 1] /\ y[l] # n
    BY <1>2, <1>3
  <2>2. CASE i = 0 \/ j = 0
    BY <1>2, <1>6, <2>1, <2>2
  <2>3. CASE i # 0 /\ j # 0
    <3>1. i - 1 \in 0 .. k - 1 /\ j - 1 \in 0 .. k - 1 /\ x[i - 1] = x[j - 1]
      BY <1>6, <2>1, <2>3
    <3>2. i - 1 = j - 1
      BY <1>1, <3>1 DEF Whole
    <3>3. QED
      BY <3>2
  <2>4. QED
    BY <2>2, <2>3
<1>7. "trim" \notin r => y[k + 1] = NULL
  <2>1. y[k + 1] = x[k]
    BY <1>2
  <2>2. QED
    BY <1>1, <2>1 DEF Whole
<1>8. ASSUME "leak" \notin r, NEW m \in Nodes, g[m].live
      PROVE  \E i \in 0 .. (k + 1) - 1 : y[i] = m
  <2>1. CASE m = n
    <3>1. 0 \in 0 .. (k + 1) - 1
      OBVIOUS
    <3>2. QED
      BY <1>2, <2>1, <3>1
  <2>2. CASE m # n
    <3>1. PICK i \in 0 .. k - 1 : x[i] = m
      BY <1>1, <1>8, <2>2 DEF Whole
    <3>2. i + 1 \in 0 .. (k + 1) - 1 /\ y[i + 1] = m
      BY <1>2, <3>1
    <3>3. QED
      BY <3>2
  <2>3. QED
    BY <2>1, <2>2
<1>9. Whole(g, r, y, k + 1)
  BY <1>4, <1>6, <1>7, <1>8 DEF Whole
<1>10. QED
  BY <1>2, <1>5, <1>9 DEF Holds

\* The first node of the list is freed (lifo_read, lifo_trim).
LEMMA HoldsPop ==
  ASSUME NEW h \in [Nodes -> NodeType], NEW g \in [Nodes -> NodeType],
         NEW r, NEW p \in Nodes, NEW k \in Nat \ {0}, Holds(h, r, p, k),
         ~g[p].live, \A m \in Nodes : g[m].next = h[m].next,
         \A m \in Nodes \ {p} : g[m] = h[m]
  PROVE  Holds(g, r, h[p].next, k - 1)
<1>1. PICK x \in [0 .. k -> Ptr] : Walk(h, x, p, k) /\ Whole(h, r, x, k)
  BY DEF Holds
<1> DEFINE y == [i \in 0 .. k - 1 |-> x[i + 1]]
           q == h[p].next
<1>2. y \in [0 .. k - 1 -> Ptr] /\ \A i \in 0 .. k - 1 : y[i] = x[i + 1]
  OBVIOUS
<1> HIDE DEF y
<1>3. x[0] = p /\ x[1] = q /\ y[0] = q /\ 0 \in 0 .. k - 1
  BY <1>1, <1>2 DEF Walk
<1> HIDE DEF q
<1>4. ASSUME NEW i \in 0 .. (k - 1) - 1
      PROVE  y[i] \in Nodes /\ y[i + 1] = g[y[i]].next /\ g[y[i]].live /\ y[i] # p
  <2> DEFINE j == i + 1
  <2>1. j \in 0 .. k - 1 /\ j # 0 /\ i \in 0 .. k - 1
    OBVIOUS
  <2>2. y[i] = x[j] /\ y[j] = x[j + 1]
    BY <1>2, <2>1
  <2>3. y[i + 1] = y[j]
    OBVIOUS
  <2> HIDE DEF j
  <2>4. /\ x[j] \in Nodes /\ x[j + 1] = h[x[j]].next /\ h[x[j]].live
    BY <1>1, <2>1 DEF Walk, Whole
  <2>5. x[j] # p
    BY <1>1, <1>3, <2>1 DEF Whole
  <2>6. g[x[j]] = h[x[j]]
    BY <2>4, <2>5
  <2>7. QED
    BY <2>2, <2>3, <2>4, <2>5, <2>6
<1>5. Walk(g, y, q, k - 1)
  BY <1>3, <1>4 DEF Walk
<1>6. ASSUME NEW i \in 0 .. (k - 1) - 1, NEW j \in 0 .. (k - 1) - 1, y[i] = y[j]
      PROVE  i = j
  <2>1. i + 1 \in 0 .. k - 1 /\ j + 1 \in 0 .. k - 1 /\ x[i + 1] = x[j + 1]
    BY <1>2, <1>6
  <2>2. i + 1 = j + 1
    BY <1>1, <2>1 DEF Whole
  <2>3. QED
    BY <2>2
<1>7. "trim" \notin r => y[k - 1] = NULL
  <2>1. y[k - 1] = x[k]
    BY <1>2
  <2>2. QED
    BY <1>1, <2>1 DEF Whole
<1>8. ASSUME "leak" \notin r, NEW m \in Nodes, g[m].live
      PROVE  \E i \in 0 .. (k - 1) - 1 : y[i] = m
  <2>1. m # p /\ h[m].live
    BY <1>8
  <2>2. PICK i \in 0 .. k - 1 : x[i] = m
    BY <1>1, <1>8, <2>1 DEF Whole
  <2>3. i # 0
    BY <1>3, <2>1, <2>2
  <2>4. i - 1 \in 0 .. (k - 1) - 1 /\ i - 1 \in 0 .. k - 1 /\ (i - 1) + 1 = i
    BY <2>3
  <2>5. y[i - 1] = m
    BY <1>2, <2>2, <2>4
  <2>6. QED
    BY <2>4, <2>5
<1>9. Whole(g, r, y, k - 1)
  BY <1>4, <1>6, <1>7, <1>8 DEF Whole
<1>10. Holds(g, r, q, k - 1)
  BY <1>2, <1>5, <1>9 DEF Holds
<1>11. QED
  BY <1>10 DEF q

\* A node that is allocated and lost leaves the list what it is.
LEMMA HoldsLeak ==
  ASSUME NEW h \in [Nodes -> NodeType], NEW g \in [Nodes -> NodeType],
         NEW r, NEW p, NEW k \in Nat, NEW n \in Nodes, Holds(h, r, p, k),
         g[n].live, \A m \in Nodes : g[m].next = h[m].next,
         \A m \in Nodes \ {n} : g[m] = h[m]
  PROVE  Holds(g, r \cup {"leak"}, p, k)
<1>1. PICK x \in [0 .. k -> Ptr] : Walk(h, x, p, k) /\ Whole(h, r, x, k)
  BY DEF Holds
<1>2. \A i \in 0 .. k - 1 : x[i] \in Nodes
  BY <1>1 DEF Walk
<1>3. Walk(g, x, p, k)
  BY <1>1 DEF Walk
<1>4. \A i \in 0 .. k - 1 : g[x[i]].live
  BY <1>1, <1>2 DEF Whole
<1>5. Whole(g, r \cup {"leak"}, x, k)
  BY <1>1, <1>4 DEF Whole
<1>6. QED
  BY <1>3, <1>5 DEF Holds

-----------------------------------------------------------------------------
(* The invariant for one task.                                             *)

Hurt == Harms /\ DanglingOnlyAfterHurt
Alone == Stages /\ Hurt /\ Clamped /\ Hanging /\ Holding

\* With one task, Top is its pointer while it reads or writes.
LEMMA TopAlone ==
  ASSUME NEW self, Tasks = {self}
  PROVE  Top = IF call[self].op \in {"read", "write"} THEN call[self].ptr ELSE data
<1>1. CASE call[self].op \in {"read", "write"}
  <2>1. Using = {self}
    BY <1>1 DEF Using
  <2>2. QED
    BY <1>1, <2>1 DEF Top
<1>2. CASE call[self].op \notin {"read", "write"}
  <2>1. Using = {}
    BY <1>2 DEF Using
  <2>2. QED
    BY <1>2, <2>1 DEF Top
<1>3. QED
  BY <1>1, <1>2

\* The same of the state after a step.
LEMMA TopAloneNext ==
  ASSUME NEW self, Tasks = {self}
  PROVE  Top' = IF call'[self].op \in {"read", "write"}
                THEN call'[self].ptr ELSE data'
<1>1. CASE call'[self].op \in {"read", "write"}
  <2>1. Using' = {self}
    BY <1>1 DEF Using
  <2>2. QED
    BY <1>1, <2>1 DEF Top
<1>2. CASE call'[self].op \notin {"read", "write"}
  <2>1. Using' = {}
    BY <1>2 DEF Using
  <2>2. QED
    BY <1>2, <2>1 DEF Top
<1>3. QED
  BY <1>1, <1>2

\* What the invariant says of the one task, in a list that was not cut.
LEMMA AloneFacts ==
  ASSUME NEW self, Tasks = {self}, LifoInv, Alone, "cut" \notin hurt,
         call[self].op # "dead"
  PROVE  /\ fset \in Nat
         /\ call[self].op = "read" => call[self].left <= fset
         /\ \E k \in 0 .. fset :
              /\ call[self].op \in {"none", "read", "write"} => k = fset
              /\ Holds(node, hurt,
                       IF Idle(self) THEN data ELSE call[self].ptr, k)
<1>1. fset \in Int /\ fset >= 0
  BY DEF LifoInv, TypeOK, Alone, Clamped
<1>2. QED
  BY <1>1 DEF Alone, Clamped, Holding

\* What remains to be shown of a step when the list is not harmed.
LEMMA AloneAgain ==
  ASSUME NEW self, Tasks = {self}, Stages', Hurt', Clamped',
         "cut" \notin hurt' =>
           /\ fset' \in Nat
           /\ \/ call'[self].op \in {"none", "read", "write"}
              \/ Hangs(node', data', fset')
           /\ call'[self].op # "dead" =>
                \E k \in 0 .. fset' :
                  /\ call'[self].op \in {"none", "read", "write"} => k = fset'
                  /\ Holds(node', hurt',
                           IF call'[self].op = "none" THEN data' ELSE call'[self].ptr, k)
  PROVE  Alone'
<1>2. Holding'
  BY DEF Holding, Idle
<1>3. Hanging'
  <2> SUFFICES ASSUME "cut" \notin hurt' PROVE Hangs(node', Top', fset')
    BY DEF Hanging
  <2>1. Top' = IF call'[self].op \in {"read", "write"} THEN call'[self].ptr ELSE data'
    BY TopAloneNext
  <2>2. CASE call'[self].op \in {"none", "read", "write"}
    <3>1. Holds(node', hurt',
                IF call'[self].op = "none" THEN data' ELSE call'[self].ptr, fset')
      BY <2>2
    <3>2. Holds(node', hurt', Top', fset')
      BY <2>1, <2>2, <3>1
    <3>3. QED
      BY <3>2, HoldsHangs
  <2>3. CASE call'[self].op \notin {"none", "read", "write"}
    BY <2>1, <2>3
  <2>4. QED
    BY <2>2, <2>3
<1>4. QED
  BY <1>2, <1>3 DEF Alone

\* After Goes, a task is in the call it goes on with.
LEMMA GoesTo ==
  ASSUME LifoInv, NEW t \in Tasks, NEW c, Goes(t, c)
  PROVE  call'[t] = c
BY DEF LifoInv, TypeOK, Goes

\* A task that Oops stops is dead.
LEMMA DiesAs ==
  ASSUME LifoInv, NEW t \in Tasks, Oops(t)
  PROVE  call'[t].op = "dead"
<1>1. call'[t] = [call[t] EXCEPT !.op = "dead"]
  BY GoesTo DEF Oops
<1>2. call[t] \in CallType
  BY DEF LifoInv, TypeOK
<1>3. QED
  BY <1>1, <1>2 DEF CallType

\* A call starts from dev->data.
LEMMA BeginsAtData ==
  ASSUME LifoInv, NEW t \in Tasks,
         \/ Unload(t)
         \/ \E m \in OpenModes : Open(t, m)
         \/ \E k \in Counts : ReadBegin(t, k)
         \/ \E s \in Writes : WriteBegin(t, s)
  PROVE  call'[t].op # "none" => call'[t].ptr = data
<1>1. CASE Unload(t)
  <2>1. call'[t] = [NoCall EXCEPT !.op = "unload", !.ptr = data]
    BY <1>1, GoesTo DEF Unload
  <2>2. QED
    BY <2>1 DEF NoCall
<1>2. CASE \E m \in OpenModes : Open(t, m)
  <2>1. PICK m \in OpenModes : Open(t, m)
    BY <1>2
  <2>2. CASE m = "wronly"
    <3>1. call'[t] = [NoCall EXCEPT !.op = "open", !.ptr = data]
      BY <2>1, <2>2, GoesTo DEF Open
    <3>2. QED
      BY <3>1 DEF NoCall
  <2>3. CASE m # "wronly"
    BY <2>1, <2>3 DEF Open, Idle
  <2>4. QED
    BY <2>2, <2>3
<1>3. CASE \E k \in Counts : ReadBegin(t, k)
  <2>1. PICK k \in Counts : ReadBegin(t, k)
    BY <1>3
  <2>2. call'[t] = [NoCall EXCEPT !.op = "read", !.ptr = data, !.left = Clamp(k)]
    BY <2>1, GoesTo DEF ReadBegin
  <2>3. QED
    BY <2>2 DEF NoCall
<1>4. CASE \E s \in Writes : WriteBegin(t, s)
  <2>1. PICK s \in Writes : WriteBegin(t, s)
    BY <1>4
  <2>2. call'[t] = [NoCall EXCEPT !.op = "write", !.ptr = data, !.todo = s]
    BY <2>1, GoesTo DEF WriteBegin
  <2>3. QED
    BY <2>2 DEF NoCall
<1>5. QED
  BY <1>1, <1>2, <1>3, <1>4

\* A read that has bytes left stands at an allocated node.
LEMMA ReadsAllocated ==
  ASSUME NEW self, Tasks = {self}, LifoInv, Alone, "cut" \notin hurt,
         call[self].op = "read", call[self].left > 0
  PROVE  ~Dangling(call[self].ptr)
<1>1. /\ fset \in Nat /\ call[self].left <= fset
      /\ Holds(node, hurt, call[self].ptr, fset)
  BY AloneFacts DEF Idle
<1>2. call[self].left \in Nat
  BY DEF LifoInv, TypeOK, CallType
<1>3. fset \in Nat \ {0}
  BY <1>1, <1>2
<1>4. call[self].ptr \in Live
  BY <1>1, <1>3, HoldsFirst DEF Live
<1>5. QED
  BY <1>4 DEF Dangling

\* A trim of a list that nothing has harmed ends before it meets freed memory.
LEMMA TrimsAllocated ==
  ASSUME NEW self, Tasks = {self}, LifoInv, Alone, hurt \cap {"trim", "cut"} = {},
         call[self].op \in {"open", "unload"}, call[self].ptr # NULL
  PROVE  ~Dangling(call[self].ptr)
<1>1. PICK k \in 0 .. fset : Holds(node, hurt, call[self].ptr, k)
  BY AloneFacts DEF Idle
<1>2. k # 0
  BY <1>1, HoldsNone
<1>3. k \in Nat \ {0}
  <2>1. fset \in Nat
    BY AloneFacts
  <2>2. QED
    BY <1>2, <2>1
<1>4. call[self].ptr \in Live
  BY <1>1, <1>3, HoldsFirst DEF Live
<1>5. QED
  BY <1>4 DEF Dangling

\* The first states: nothing hangs from a device that is not there.
LEMMA AloneInit ==
  ASSUME NEW self, Tasks = {self}, Init
  PROVE  Alone
<1>1. /\ fset = 0 /\ data = NULL /\ hurt = {} /\ bad = "none" /\ mod = "out"
      /\ call[self] = NoCall /\ \A n \in Nodes : ~node[n].live
  BY DEF Init
<1>2. Stages /\ Hurt /\ Clamped
  BY <1>1 DEF Stages, Hurt, Harms, DanglingOnlyAfterHurt, Clamped, NoCall, Idle
<1>3. Holds(node, hurt, NULL, 0)
  BY <1>1, HoldsNone DEF Ptr
<1>4. Hanging
  <2>1. Top = data
    BY <1>1, TopAlone DEF NoCall
  <2>2. Hangs(node, data, fset)
    BY <1>1, <1>3, HoldsHangs
  <2>3. QED
    BY <2>1, <2>2 DEF Hanging
<1>5. Holding
  <2>1. 0 \in 0 .. fset
    BY <1>1
  <2>2. Holds(node, hurt, IF Idle(self) THEN data ELSE call[self].ptr, 0)
    BY <1>1, <1>3 DEF Idle, NoCall
  <2>3. QED
    BY <1>1, <2>1, <2>2 DEF Holding
<1>6. QED
  BY <1>2, <1>4, <1>5 DEF Alone

\* A load forgets all harm but the nodes that are lost.
LEMMA AloneLoad ==
  ASSUME NEW self, Tasks = {self}, LifoInv, Alone, Load
  PROVE  Alone'
<1>1. mod = "out" /\ call[self].op = "none" /\ fset = 0 /\ bad = "none"
  BY DEF Load, Alone, Stages, Idle
<1>2. /\ mod' \in {"in", "nodev"} /\ call' = call /\ node' = node
      /\ data' = NULL /\ fset' = 0 /\ hurt' = hurt \cap {"leak"} /\ bad' = bad
  BY DEF Load
<1>3. Stages' /\ Hurt' /\ Clamped'
  BY <1>1, <1>2 DEF Stages, Hurt, Harms, DanglingOnlyAfterHurt, Idle, Clamped
<1>4. "leak" \notin hurt => \A n \in Nodes : ~node[n].live
  <2> SUFFICES ASSUME "leak" \notin hurt PROVE \A n \in Nodes : ~node[n].live
    OBVIOUS
  <2>1. "cut" \notin hurt
    BY DEF Alone, Hurt, Harms, DanglingOnlyAfterHurt
  <2>2. Holds(node, hurt, data, 0)
    BY <1>1, <2>1, AloneFacts DEF Idle
  <2>3. QED
    BY <2>2, HoldsNone
<1>5. Holds(node, hurt', NULL, 0)
  BY <1>2, <1>4, HoldsNone DEF Ptr
<1>6. 0 \in 0 .. fset' /\ fset' \in Nat /\ fset' = 0 /\ call'[self].op = "none"
  BY <1>1, <1>2
<1>7. Holds(node', hurt', IF call'[self].op = "none" THEN data' ELSE call'[self].ptr, 0)
  BY <1>2, <1>5, <1>6
<1>8. QED
  BY <1>3, <1>6, <1>7, AloneAgain

\* The steps that start a call take the list as it is.
LEMMA AloneBegin ==
  ASSUME NEW self, Tasks = {self}, LifoInv, Alone,
         \/ Unload(self)
         \/ \E m \in OpenModes : Open(self, m)
         \/ \E k \in Counts : ReadBegin(self, k)
         \/ \E s \in Writes : WriteBegin(self, s)
  PROVE  Alone'
<1>1. /\ call[self].op = "none" /\ mod \in {"in", "nodev"}
      /\ mod = "nodev" => Unload(self)
      /\ UNCHANGED <<data, fset, node, bad, hurt>>
  BY DEF Unload, Open, ReadBegin, WriteBegin, Idle
<1>2. bad = "none"
  BY <1>1 DEF Alone, Stages
<1>3. /\ call'[self].op \in {"none", "open", "unload", "read", "write"}
      /\ call'[self].op # "none" => call'[self].ptr = data
      /\ call'[self].op = "unload" <=> mod' = "going"
      /\ mod' \in {"in", "going"}
      /\ call'[self].op = "read" => fset < 0 \/ call'[self].left <= fset
  <2>1. CASE Unload(self)
    <3>1. call'[self] = [NoCall EXCEPT !.op = "unload", !.ptr = data]
      BY <2>1, GoesTo DEF Unload
    <3>2. QED
      BY <2>1, <3>1 DEF Unload, NoCall
  <2>2. ASSUME NEW m \in OpenModes, Open(self, m)
        PROVE  <1>3!:
    <3>1. CASE m = "wronly"
      <4>1. call'[self] = [NoCall EXCEPT !.op = "open", !.ptr = data]
        BY <2>2, <3>1, GoesTo DEF Open
      <4>2. QED
        BY <2>2, <4>1 DEF Open, NoCall
    <3>2. CASE m # "wronly"
      BY <1>1, <2>2, <3>2 DEF Open
    <3>3. QED
      BY <3>1, <3>2
  <2>3. ASSUME NEW k \in Counts, ReadBegin(self, k)
        PROVE  <1>3!:
    <3>1. call'[self] = [NoCall EXCEPT !.op = "read", !.ptr = data, !.left = Clamp(k)]
      BY <2>3, GoesTo DEF ReadBegin
    <3>2. fset < 0 \/ Clamp(k) <= fset
      <4>1. fset \in Int /\ k \in Nat
        BY LifoConstants DEF LifoInv, TypeOK
      <4>2. QED
        BY <4>1 DEF Clamp
    <3>3. QED
      BY <2>3, <3>1, <3>2 DEF ReadBegin, NoCall
  <2>4. ASSUME NEW s \in Writes, WriteBegin(self, s)
        PROVE  <1>3!:
    <3>1. call'[self] = [NoCall EXCEPT !.op = "write", !.ptr = data, !.todo = s]
      BY <2>4, GoesTo DEF WriteBegin
    <3>2. QED
      BY <2>4, <3>1 DEF WriteBegin, NoCall
  <2>5. QED
    BY <2>1, <2>2, <2>3, <2>4
<1>4. Stages' /\ Hurt' /\ Clamped'
  <2>1. Stages' /\ Hurt'
    BY <1>1, <1>2, <1>3 DEF Alone, Stages, Hurt, Harms, DanglingOnlyAfterHurt,
       Idle
  <2>2. fset \in Int /\ fset >= 0
    BY DEF LifoInv, TypeOK, Alone, Clamped
  <2>3. fset' >= 0 /\ (call'[self].op = "read" => call'[self].left <= fset')
    BY <1>1, <1>3, <2>2
  <2>4. QED
    BY <2>1, <2>3 DEF Clamped
<1>5. ASSUME "cut" \notin hurt
      PROVE  fset \in Nat /\ Holds(node, hurt, data, fset)
  BY <1>1, <1>5, AloneFacts DEF Idle
<1>6. ASSUME "cut" \notin hurt'
      PROVE  /\ fset' \in Nat /\ fset' \in 0 .. fset'
             /\ call'[self].op = "read" => call'[self].left <= fset'
             /\ Hangs(node', data', fset')
             /\ Holds(node', hurt',
                     IF call'[self].op = "none" THEN data' ELSE call'[self].ptr, fset')
  <2>1. fset \in Nat /\ Holds(node, hurt, data, fset) /\ Hangs(node, data, fset)
    BY <1>1, <1>5, <1>6, HoldsHangs
  <2>2. fset \in 0 .. fset
    BY <2>1
  <2>3. call'[self].op = "read" => call'[self].left <= fset'
    BY <1>1, <1>3, <2>1
  <2>4. QED
    BY <1>1, <1>3, <2>1, <2>2, <2>3
<1>7. QED
  BY <1>4, <1>6, AloneAgain

\* One node of a trim is freed.
LEMMA AloneTrimNode ==
  ASSUME NEW self, Tasks = {self}, LifoInv, Alone, TrimNode(self)
  PROVE  Alone'
<1> DEFINE p == call[self].ptr
           q == node[p].next
<1>1. TypeOK /\ PtrsFilled
  BY DEF LifoInv
<1>2. /\ call[self].op \in {"open", "unload"} /\ ~Dangling(p)
      /\ node' = [node EXCEPT ![p].live = FALSE]
      /\ Goes(self, [call[self] EXCEPT !.ptr = q])
      /\ UNCHANGED <<mod, data, fset, bad, hurt>>
  BY DEF TrimNode, kfree
<1>3. p \in Nodes /\ node[p].live /\ q \in Ptr
  BY <1>1, <1>2, Live1 DEF Filled, Ptr
<1>4. /\ node \in [Nodes -> NodeType] /\ node' \in [Nodes -> NodeType]
      /\ \A m \in Nodes : node'[m].next = node[m].next
      /\ \A m \in Nodes \ {p} : node'[m] = node[m]
      /\ ~node'[p].live
  BY <1>1, <1>2, <1>3, LiveOnly DEF TypeOK, NodeType
<1>5. call'[self].op = call[self].op /\ call'[self].ptr = q
  <2>1. call'[self] = [call[self] EXCEPT !.ptr = q]
    BY <1>2, GoesTo
  <2>2. call[self] \in CallType
    BY <1>1 DEF TypeOK
  <2>3. QED
    BY <2>1, <2>2 DEF CallType
<1>6. Stages' /\ Hurt' /\ Clamped'
  BY <1>2, <1>5 DEF Alone, Stages, Hurt, Harms, DanglingOnlyAfterHurt, Idle,
     Clamped
<1> HIDE DEF q
<1>7. ASSUME "cut" \notin hurt
      PROVE  /\ fset \in Nat /\ Hangs(node', data, fset)
             /\ \E k \in 0 .. fset : Holds(node', hurt, q, k)
  <2>1. fset \in Nat
    BY <1>2, <1>7, AloneFacts
  <2>2. PICK k \in 0 .. fset : Holds(node, hurt, p, k)
    BY <1>2, <1>7, AloneFacts DEF Idle
  <2>3. Hangs(node', data, fset)
    <3>1. Hangs(node, data, fset)
      BY <1>2, <1>7, TopAlone DEF Alone, Hanging
    <3>2. QED
      BY <1>4, <3>1, HangsSame
  <2>4. CASE k = 0
    <3>1. Holds(node, hurt, p, 0)
      BY <2>2, <2>4
    <3>2. "trim" \in hurt /\ "leak" \in hurt
      BY <1>3, <3>1, HoldsNone, LifoConstants
    <3>3. Holds(node', hurt, q, 0)
      BY <1>3, <3>2, HoldsNone
    <3>4. QED
      BY <2>1, <2>3, <2>2, <2>4, <3>3
  <2>5. CASE k # 0
    <3>1. k \in Nat \ {0} /\ k - 1 \in 0 .. fset
      BY <2>1, <2>5
    <3>2. Holds(node', hurt, q, k - 1)
      BY <1>3, <1>4, <2>2, <3>1, HoldsPop DEF q
    <3>3. QED
      BY <2>1, <2>3, <3>1, <3>2
  <2>6. QED
    BY <2>4, <2>5
<1>8. QED
  BY <1>2, <1>5, <1>6, <1>7, AloneAgain

\* A trim ends when it has freed the last node: nothing is left.
LEMMA AloneTrimEnd ==
  ASSUME NEW self, Tasks = {self}, LifoInv, Alone, TrimEnd(self)
  PROVE  Alone'
<1>1. /\ call[self].op \in {"open", "unload"} /\ call[self].ptr = NULL
      /\ fset' = 0 /\ Goes(self, NoCall) /\ UNCHANGED <<data, node, bad>>
      /\ hurt' = hurt \cup (IF data = NULL THEN {} ELSE {"trim"})
      /\ mod' \in {mod, "out"}
      /\ call[self].op = "unload" => mod' = "out"
  BY DEF TrimEnd, Hurts, Leave
<1>2. call'[self] = NoCall /\ call'[self].op = "none"
  BY <1>1, GoesTo DEF NoCall
<1>3. bad = "none" /\ mod' # "going"
  BY <1>1 DEF Alone, Stages
<1>4. Stages' /\ Hurt' /\ Clamped'
  BY <1>1, <1>2, <1>3 DEF Alone, Stages, Hurt, Harms, DanglingOnlyAfterHurt,
     Idle, Clamped
<1>5. data \in Ptr
  BY DEF LifoInv, TypeOK
<1>6. ASSUME "cut" \notin hurt' PROVE Holds(node, hurt', data, 0)
  <2>1. "cut" \notin hurt
    BY <1>1, <1>6
  <2>2. PICK k \in 0 .. fset : Holds(node, hurt, NULL, k)
    BY <1>1, <2>1, AloneFacts DEF Idle
  <2>3. k = 0
    <3>1. fset \in Nat
      BY <1>1, <2>1, AloneFacts
    <3>2. k \in Nat
      BY <3>1
    <3>3. QED
      BY <2>2, <3>2, HoldsFirst
  <2>4. Holds(node, hurt, NULL, 0)
    BY <2>2, <2>3
  <2>5. "leak" \notin hurt' => \A n \in Nodes : ~node[n].live
    BY <1>1, <2>4, HoldsNone
  <2>6. "trim" \notin hurt' => data = NULL
    BY <1>1
  <2>7. QED
    BY <1>5, <2>5, <2>6, HoldsNone
<1>7. fset' \in Nat /\ 0 \in 0 .. fset'
  BY <1>1
<1>8. ASSUME "cut" \notin hurt'
      PROVE  Holds(node', hurt',
                   IF call'[self].op = "none" THEN data' ELSE call'[self].ptr, 0)
  BY <1>1, <1>2, <1>6, <1>8
<1>9. QED
  BY <1>1, <1>2, <1>4, <1>7, <1>8, AloneAgain

\* A byte is read: the first node of the list goes, and the counter with it.
LEMMA AloneReadByte ==
  ASSUME NEW self, Tasks = {self}, LifoInv, Alone, ReadByte(self)
  PROVE  Alone'
<1> DEFINE p == call[self].ptr
           q == node[p].next
<1>1. TypeOK /\ PtrsFilled
  BY DEF LifoInv
<1>2. /\ call[self].op = "read" /\ call[self].left > 0 /\ ~Dangling(p)
      /\ node' = [node EXCEPT ![p].live = FALSE] /\ fset' = fset - 1
      /\ Goes(self, [call[self] EXCEPT !.ptr = q, !.left = call[self].left - 1])
      /\ UNCHANGED <<mod, data, bad, hurt>>
  BY DEF ReadByte, kfree
<1>3. p \in Nodes /\ q \in Ptr
  BY <1>1, <1>2, Live1 DEF Filled, Ptr
<1>4. /\ node \in [Nodes -> NodeType] /\ node' \in [Nodes -> NodeType]
      /\ \A m \in Nodes : node'[m].next = node[m].next
      /\ \A m \in Nodes \ {p} : node'[m] = node[m]
      /\ ~node'[p].live
  BY <1>1, <1>2, <1>3, LiveOnly DEF TypeOK, NodeType
<1>5. /\ call'[self].op = "read" /\ call'[self].ptr = q
      /\ call'[self].left = call[self].left - 1 /\ call[self].left \in Nat
  <2>1. call'[self] = [call[self] EXCEPT !.ptr = q, !.left = call[self].left - 1]
    BY <1>2, GoesTo
  <2>2. call[self] \in CallType
    BY <1>1 DEF TypeOK
  <2>3. QED
    BY <1>2, <2>1, <2>2 DEF CallType
<1>6. Stages' /\ Hurt' /\ Clamped'
  <2>1. Stages' /\ Hurt'
    BY <1>2, <1>5 DEF Alone, Stages, Hurt, Harms, DanglingOnlyAfterHurt, Idle
  <2>2. fset \in Int /\ call[self].left <= fset
    BY <1>1, <1>2 DEF TypeOK, Alone, Clamped
  <2>3. fset' >= 0 /\ call'[self].left <= fset'
    BY <1>2, <1>5, <2>2
  <2>4. QED
    BY <2>1, <2>3 DEF Clamped
<1> HIDE DEF q
<1>7. ASSUME "cut" \notin hurt
      PROVE  /\ fset' \in Nat /\ fset' \in 0 .. fset'
             /\ call'[self].left <= fset' /\ Holds(node', hurt, q, fset')
  <2>1. fset \in Nat /\ call[self].left <= fset /\ Holds(node, hurt, p, fset)
    BY <1>2, <1>7, AloneFacts DEF Idle
  <2>2. fset \in Nat \ {0}
    BY <1>2, <1>5, <2>1
  <2>3. Holds(node', hurt, q, fset - 1)
    BY <1>3, <1>4, <2>1, <2>2, HoldsPop DEF q
  <2>4. fset' \in Nat /\ fset' \in 0 .. fset' /\ call'[self].left <= fset'
    BY <1>2, <1>5, <2>1, <2>2
  <2>5. QED
    BY <1>2, <2>3, <2>4
<1>8. QED
  BY <1>2, <1>5, <1>6, <1>7, AloneAgain

\* A byte is written: a node is put before the list, and counted.
LEMMA AloneWriteByte ==
  ASSUME NEW self, Tasks = {self}, LifoInv, Alone, WriteByte(self)
  PROVE  Alone'
<1> DEFINE p == call[self].ptr
           b == Head(call[self].todo)
           s == Tail(call[self].todo)
<1>1. TypeOK /\ PtrsFilled
  BY DEF LifoInv
<1>2. /\ call[self].op = "write" /\ fset' = fset + 1
      /\ UNCHANGED <<mod, data, bad, hurt>>
  BY DEF WriteByte
<1>3. PICK n \in Nodes \ Live :
        /\ node' = [node EXCEPT ![n] = [live |-> TRUE, next |-> p, value |-> b]]
        /\ Goes(self, [call[self] EXCEPT !.ptr = n, !.todo = s])
  BY DEF WriteByte
<1>4. call[self] \in CallType /\ node \in [Nodes -> NodeType]
  BY <1>1 DEF TypeOK, NodeType
<1>5. p \in Filled /\ b \in Bytes
  <2>1. call[self].todo \in Seq(Bytes) /\ call[self].todo # <<>>
    BY <1>4 DEF WriteByte, CallType
  <2>2. QED
    BY <1>1, <2>1 DEF PtrsFilled
<1>6. /\ node' \in [Nodes -> NodeType] /\ node'[n].live /\ node'[n].next = p
      /\ \A m \in Nodes \ {n} : node'[m] = node[m] /\ ~node[n].live
  BY <1>1, <1>3, <1>5, FillNode DEF Live
<1>7. call'[self].op = "write" /\ call'[self].ptr = n
  <2>1. call'[self] = [call[self] EXCEPT !.ptr = n, !.todo = s]
    BY <1>3, GoesTo
  <2>2. QED
    BY <1>2, <1>4, <2>1 DEF CallType
<1>8. Stages' /\ Hurt' /\ Clamped'
  <2>1. Stages' /\ Hurt'
    BY <1>2, <1>7 DEF Alone, Stages, Hurt, Harms, DanglingOnlyAfterHurt, Idle
  <2>2. fset \in Int /\ fset >= 0
    BY <1>1 DEF TypeOK, Alone, Clamped
  <2>3. QED
    BY <1>2, <1>7, <2>1, <2>2 DEF Clamped
<1>9. ~node[n].live
  BY <1>3 DEF Live
<1>10. ASSUME "cut" \notin hurt
       PROVE  fset' \in Nat /\ fset' \in 0 .. fset' /\ Holds(node', hurt, n, fset')
  <2>1. fset \in Nat /\ Holds(node, hurt, p, fset)
    BY <1>2, <1>10, AloneFacts DEF Idle
  <2>2. Holds(node', hurt, n, fset + 1)
    BY <1>4, <1>6, <1>9, <2>1, HoldsPush
  <2>3. QED
    BY <1>2, <2>1, <2>2
<1>11. QED
  BY <1>2, <1>7, <1>8, <1>10, AloneAgain

\* A read or a write ends: the list hangs from dev->data again.
LEMMA AloneEnd ==
  ASSUME NEW self, Tasks = {self}, LifoInv, Alone, ReadEnd(self) \/ WriteEnd(self)
  PROVE  Alone'
<1>1. /\ call[self].op \in {"read", "write"} /\ data' = call[self].ptr
      /\ Goes(self, NoCall) /\ UNCHANGED <<mod, fset, node, bad, hurt>>
  BY DEF ReadEnd, WriteEnd, Leave
<1>2. call'[self].op = "none"
  BY <1>1, GoesTo DEF NoCall
<1>3. Stages' /\ Hurt' /\ Clamped'
  BY <1>1, <1>2 DEF Alone, Stages, Hurt, Harms, DanglingOnlyAfterHurt, Idle,
     Clamped
<1>4. ASSUME "cut" \notin hurt
      PROVE  fset' \in Nat /\ fset' \in 0 .. fset' /\ Holds(node', hurt', data', fset')
  <2>1. fset \in Nat /\ Holds(node, hurt, call[self].ptr, fset)
    BY <1>1, <1>4, AloneFacts DEF Idle
  <2>2. QED
    BY <1>1, <2>1
<1>5. QED
  BY <1>1, <1>2, <1>3, <1>4, AloneAgain

\* A fault at the first byte leaves the list, but for the node it was about.
LEMMA AloneFault ==
  ASSUME NEW self, Tasks = {self}, LifoInv, Alone,
         ReadFault(self) \/ WriteFault(self)
  PROVE  Alone'
<1>1. /\ call[self].op \in {"read", "write"} /\ Goes(self, NoCall)
      /\ UNCHANGED <<mod, data, fset, bad>>
      /\ hurt' = hurt \cup CutShort(self) \cup
                 (IF ReadFault(self) THEN {} ELSE {"leak"})
  <2>1. CASE ReadFault(self)
    BY <2>1 DEF ReadFault, Leave, Hurts
  <2>2. CASE ~ReadFault(self)
    BY <2>2 DEF WriteFault, Leave, Hurts
  <2>3. QED
    BY <2>1, <2>2
<1>2. call'[self].op = "none"
  BY <1>1, GoesTo DEF NoCall
<1>3. Stages' /\ Hurt' /\ Clamped'
  BY <1>1, <1>2 DEF Alone, Stages, Hurt, Harms, DanglingOnlyAfterHurt, Idle,
     CutShort, Clamped
<1>4. ASSUME "cut" \notin hurt'
      PROVE  fset' \in Nat /\ fset' \in 0 .. fset' /\ Holds(node', hurt', data', fset')
  <2>1. "cut" \notin hurt /\ call[self].ptr = data /\ CutShort(self) = {}
    BY <1>1, <1>4 DEF CutShort
  <2>2. fset \in Nat /\ Holds(node, hurt, data, fset)
    BY <1>1, <2>1, AloneFacts DEF Idle
  <2>3. CASE ReadFault(self)
    <3>1. node' = node /\ hurt' = hurt
      BY <1>1, <2>1, <2>3 DEF ReadFault
    <3>2. data' = data /\ fset' = fset /\ fset \in 0 .. fset
      BY <1>1, <2>2
    <3>3. QED
      BY <2>2, <3>1, <3>2
  <2>4. CASE ~ReadFault(self)
    <3>1. PICK n \in Nodes : node' = [node EXCEPT ![n].live = TRUE]
      BY <2>4 DEF WriteFault
    <3>2. hurt' = hurt \cup {"leak"}
      BY <1>1, <2>1, <2>4
    <3>3. /\ node \in [Nodes -> NodeType] /\ node' \in [Nodes -> NodeType]
          /\ \A m \in Nodes : node'[m].next = node[m].next
          /\ \A m \in Nodes \ {n} : node'[m] = node[m] /\ node'[n].live
      BY <3>1, LiveOnly DEF LifoInv, TypeOK, NodeType
    <3>4. node'[n].live
      BY <3>1, LiveOnly DEF LifoInv
    <3>5. Holds(node', hurt', data, fset)
      BY <2>2, <3>2, <3>3, <3>4, HoldsLeak
    <3>6. QED
      BY <1>1, <2>2, <3>5
  <2>5. QED
    BY <2>3, <2>4
<1>5. QED
  BY <1>1, <1>2, <1>3, <1>4, AloneAgain

\* The task dies; a read only of a list that was cut.
LEMMA AloneOops ==
  ASSUME NEW self, Tasks = {self}, LifoInv, Alone, Crash(self) \/ WriteNoMem(self)
  PROVE  Alone'
<1>1. /\ call[self].op \in {"open", "unload", "read", "write"}
      /\ call[self].op = "write" <=> WriteNoMem(self)
      /\ hurt' = IF call[self].op = "write" THEN hurt \cup CutShort(self) ELSE hurt
      /\ call[self].op = "read" => call[self].left > 0 /\ Dangling(call[self].ptr)
  <2>1. CASE WriteNoMem(self)
    BY <2>1 DEF WriteNoMem, Hurts
  <2>2. CASE Crash(self) /\ ~WriteNoMem(self)
    BY <2>2 DEF Crash
  <2>3. QED
    BY <2>1, <2>2
<1>2. Oops(self)
  BY DEF Crash, WriteNoMem
<1>3. bad = "none"
  BY <1>1 DEF Alone, Stages
<1>4. /\ UNCHANGED <<mod, data, fset, node>> /\ bad' = call[self].op
      /\ Goes(self, [call[self] EXCEPT !.op = "dead"])
  BY <1>2, <1>3 DEF Oops
<1>5. call'[self].op = "dead"
  BY <1>2, DiesAs
<1>6. /\ call[self].op = "read" => "cut" \in hurt
      /\ call[self].op \in {"open", "unload"} => hurt \cap {"trim", "cut"} # {}
  BY <1>1, ReadsAllocated, TrimsAllocated DEF Crash
<1>7. Stages'
  BY <1>1, <1>4, <1>5 DEF Alone, Stages, Idle
<1>8. Hurt' /\ Clamped'
  <2>1. Hurt'
    BY <1>1, <1>4, <1>6 DEF Alone, Hurt, Harms, DanglingOnlyAfterHurt, CutShort
  <2>2. QED
    BY <1>4, <1>5, <2>1 DEF Alone, Clamped
<1>9. ASSUME "cut" \notin hurt'
      PROVE  fset' \in Nat /\ Hangs(node', data', fset')
  <2>1. "cut" \notin hurt /\ (call[self].op = "write" => call[self].ptr = data)
    BY <1>1, <1>9 DEF CutShort
  <2>2. fset \in Nat /\ Hangs(node, Top, fset)
    BY <1>1, <2>1, AloneFacts DEF Alone, Hanging
  <2>3. Top = data
    BY <1>1, <1>6, <2>1, TopAlone
  <2>4. QED
    BY <1>4, <2>2, <2>3
<1>10. QED
  BY <1>5, <1>7, <1>8, <1>9, AloneAgain

\* Every step of the one task, of a load and of a release.
LEMMA AloneStep ==
  ASSUME NEW self, Tasks = {self}
  PROVE  LifoInv /\ Alone /\ [Next]_vars => Alone'
<1> SUFFICES ASSUME LifoInv, Alone, [Next]_vars PROVE Alone'
  OBVIOUS
<1>1. CASE Load
  BY <1>1, AloneLoad
<1>2. CASE Release \/ UNCHANGED vars
  <2>1. UNCHANGED <<mod, data, fset, node, call, bad, hurt>>
    BY <1>2 DEF Release, vars
  <2>2. Top' = Top
    BY <2>1 DEF Top, Using
  <2>3. Stages' /\ Hurt' /\ Clamped'
    BY <2>1 DEF Alone, Stages, Hurt, Harms, DanglingOnlyAfterHurt, Clamped, Idle
  <2>4. Hanging'
    BY <2>1, <2>2 DEF Alone, Hanging
  <2>5. Holding'
    BY <2>1 DEF Alone, Holding, Idle
  <2>6. QED
    BY <2>3, <2>4, <2>5 DEF Alone
<1>3. CASE \/ Unload(self)
           \/ \E m \in OpenModes : Open(self, m)
           \/ \E k \in Counts : ReadBegin(self, k)
           \/ \E s \in Writes : WriteBegin(self, s)
  BY <1>3, AloneBegin
<1>4. CASE Step(self)
  BY <1>4, AloneTrimNode, AloneTrimEnd, AloneReadByte, AloneWriteByte, AloneEnd,
     AloneFault, AloneOops DEF Step
<1>5. QED
  BY <1>1, <1>2, <1>3, <1>4 DEF Next

\* The invariant for one task, with what it says of accesses to freed memory.
LEMMA AloneHolds ==
  ASSUME NEW self, Tasks = {self}
  PROVE  Spec => [](LifoInv /\ Alone)
<1>1. Init => LifoInv /\ Alone
  BY LifoInvInit, AloneInit
<1>2. LifoInv /\ Alone /\ [Next]_vars => (LifoInv /\ Alone)'
  BY LifoInvStep, AloneStep
<1>3. QED
  BY <1>1, <1>2, PTL DEF Spec

(***************************************************************************)
(* One task, and any nodes, writes, counts and modes of open: the list of  *)
(* fset nodes and the heap agree until a trim or a call cut short.         *)
(***************************************************************************)
THEOREM AloneInvHolds ==
  ASSUME NEW self, Tasks = {self}
  PROVE  Spec => []AloneInv
<1>1. LifoInv /\ Alone => AloneInv
  BY DEF Alone, Hurt, AloneInv
<1>2. QED
  BY <1>1, AloneHolds, PTL

(***************************************************************************)
(* With one task, lifo_read meets freed memory or NULL only after a call   *)
(* was cut short, since it stays within fset, and the loop of lifo_trim    *)
(* only after such a call or after a trim, which leaves dev->data behind.  *)
(***************************************************************************)
THEOREM DanglingOnlyAfterHurtHolds ==
  ASSUME NEW self, Tasks = {self}
  PROVE  Spec => []DanglingOnlyAfterHurt
<1>1. Alone => DanglingOnlyAfterHurt
  BY DEF Alone, Hurt
<1>2. QED
  BY <1>1, AloneHolds, PTL

-----------------------------------------------------------------------------
(* The list, as lifo.h describes it, and the stack it stands for.          *)

\* A set of natural numbers that is not empty has a least one.
LEMMA LeastNat ==
  ASSUME NEW D \in SUBSET Nat, D # {}
  PROVE  \E i \in D : \A j \in D : i <= j
<1>1. PICK i \in D : \A j \in D : <<j, i>> \notin OpToRel(<, Nat)
  BY WFMin, NatLessThanWellFounded
<1>2. \A j \in D : ~(j < i)
  BY <1>1 DEF OpToRel
<1>3. QED
  BY <1>2

\* Chain follows the next pointers, as the walk of the invariant does.
LEMMA ChainIsWalk ==
  ASSUME NEW p, NEW k \in Nat, NEW x \in [0 .. k -> Ptr], Walk(node, x, p, k)
  PROVE  Chain(p, k) = x
<1> DEFINE Follows(f) ==
      f = [i \in 0 .. k |-> IF i = 0 THEN p
                            ELSE IF f[i - 1] = NULL THEN NULL
                                 ELSE node[f[i - 1]].next]
<1>1. Follows(x)
  <2>1. ASSUME NEW i \in 0 .. k
        PROVE  x[i] = IF i = 0 THEN p
                      ELSE IF x[i - 1] = NULL THEN NULL ELSE node[x[i - 1]].next
    <3>1. CASE i = 0
      BY <3>1 DEF Walk
    <3>2. CASE i # 0
      <4>1. i - 1 \in 0 .. k - 1 /\ (i - 1) + 1 = i
        BY <3>2
      <4>2. x[i - 1] \in Nodes /\ x[i] = node[x[i - 1]].next
        BY <4>1 DEF Walk
      <4>3. QED
        BY <3>2, <4>2, LifoConstants
    <3>3. QED
      BY <3>1, <3>2
  <2>2. QED
    BY <2>1
<1>2. PICK y : Follows(y) /\ Chain(p, k) = [i \in 0 .. k |-> y[i]]
  BY <1>1 DEF Chain
<1>3. ASSUME NEW i \in 0 .. k PROVE y[i] = x[i]
  <2> SUFFICES ASSUME y[i] # x[i] PROVE FALSE
    OBVIOUS
  <2> DEFINE D == {j \in 0 .. k : y[j] # x[j]}
  <2>1. D \in SUBSET Nat /\ D # {}
    OBVIOUS
  <2> HIDE DEF D
  <2>2. PICK j \in D : \A l \in D : j <= l
    BY <2>1, LeastNat
  <2>3. j \in 0 .. k /\ y[j] # x[j]
    BY DEF D
  <2>4. j # 0
    BY <1>1, <1>2, <2>3
  <2>5. j - 1 \in 0 .. k /\ j - 1 < j
    BY <2>3, <2>4
  <2>6. y[j - 1] = x[j - 1]
    <3>1. j - 1 \notin D
      <4>1. ~(j <= j - 1)
        BY <2>3
      <4>2. QED
        BY <2>2, <4>1
    <3>2. QED
      BY <2>5, <3>1 DEF D
  <2>7. y[j] = x[j]
    <3>1. y[j] = IF y[j - 1] = NULL THEN NULL ELSE node[y[j - 1]].next
      BY <1>2, <2>3, <2>4
    <3>2. x[j] = IF x[j - 1] = NULL THEN NULL ELSE node[x[j - 1]].next
      BY <1>1, <2>3, <2>4
    <3>3. QED
      BY <2>6, <3>1, <3>2
  <2>8. QED
    BY <2>3, <2>7
<1>4. QED
  BY <1>2, <1>3

\* A walk over different nodes meets as many nodes as it has steps.
LEMMA WalkCount ==
  ASSUME NEW k \in Nat, NEW x \in [0 .. k -> Ptr],
         \A i, j \in 0 .. k - 1 : x[i] = x[j] => i = j
  PROVE  Cardinality({x[i] : i \in 0 .. k - 1}) = k
<1> DEFINE I == 0 .. k - 1
           R == {x[i] : i \in I}
           f == [i \in I |-> x[i]]
<1>1. IsFiniteSet(I) /\ Cardinality(I) = k
  BY FS_Interval
<1>2. f \in [I -> R] /\ \A i \in I : f[i] = x[i]
  OBVIOUS
<1> HIDE DEF f
<1>3. f \in Bijection(I, R)
  <2>1. f \in Injection(I, R)
    BY <1>2 DEF Injection, IsInjective
  <2>2. f \in Surjection(I, R)
    BY <1>2 DEF Surjection
  <2>3. QED
    BY <2>1, <2>2 DEF Bijection
<1>4. ExistsBijection(I, R)
  BY <1>3 DEF ExistsBijection
<1> HIDE DEF I, R
<1>5. Cardinality(R) = Cardinality(I)
  BY <1>1, <1>4, FS_Bijection
<1>6. QED
  BY <1>1, <1>5 DEF I, R

(***************************************************************************)
(* What lifo.h says of data and fset, for one task and whatever fails,     *)
(* until a trim or a call cut short; and no node is lost but by those.     *)
(***************************************************************************)
THEOREM SoundUnlessHurtHolds ==
  ASSUME NEW self, Tasks = {self}
  PROVE  Spec => []SoundUnlessHurt
<1>1. LifoInv /\ Alone => SoundUnlessHurt
  <2> SUFFICES ASSUME LifoInv, Alone PROVE SoundUnlessHurt
    OBVIOUS
  <2>1. LifoInv /\ Alone
    OBVIOUS
  <2>2. CASE "cut" \in hurt
    BY <2>1, <2>2 DEF Alone, Hurt, Harms, DanglingOnlyAfterHurt, SoundUnlessHurt
  <2>3. CASE ~Quiet
    BY <2>3 DEF SoundUnlessHurt, DataIsFirst, FsetIsSize, NoNodeLost
  <2>4. CASE "cut" \notin hurt /\ Quiet
    <3>1. call[self].op = "none"
      BY <2>4 DEF Quiet, Idle
    <3>2. fset \in Nat /\ Holds(node, hurt, data, fset)
      BY <2>1, <2>4, <3>1, AloneFacts DEF Idle
    <3>3. PICK x \in [0 .. fset -> Ptr] :
            Walk(node, x, data, fset) /\ Whole(node, hurt, x, fset)
      BY <3>2 DEF Holds
    <3>4. Chain(data, fset) = x
      BY <3>2, <3>3, ChainIsWalk
    <3>5. Listed = {x[i] : i \in 0 .. fset - 1}
      BY <3>4 DEF Listed
    <3>6. Listed \subseteq Live
      BY <3>3, <3>5 DEF Walk, Whole, Live
    <3>7. Cardinality(Listed) = fset
      BY <3>2, <3>3, <3>5, WalkCount DEF Whole
    <3>8. "trim" \notin hurt => DataIsFirst /\ FsetIsSize
      <4> SUFFICES ASSUME "trim" \notin hurt PROVE DataIsFirst /\ FsetIsSize
        OBVIOUS
      <4>1. x[fset] = NULL
        BY <3>3 DEF Whole
      <4>2. FsetIsSize
        BY <3>2, <3>4, <3>6, <3>7, <4>1 DEF FsetIsSize
      <4>3. CASE fset = 0
        BY <3>3, <4>1, <4>2, <4>3 DEF Walk, DataIsFirst
      <4>4. CASE fset # 0
        <5>1. fset \in Nat \ {0}
          BY <3>2, <4>4
        <5>2. data \in Live
          BY <3>2, <5>1, HoldsFirst DEF Live
        <5>3. QED
          BY <4>2, <5>2 DEF DataIsFirst, Dangling
      <4>5. QED
        BY <4>3, <4>4
    <3>9. "leak" \notin hurt => NoNodeLost
      <4> SUFFICES ASSUME "leak" \notin hurt PROVE NoNodeLost
        OBVIOUS
      <4>1. Live \subseteq Listed
        BY <3>3, <3>5 DEF Whole, Live
      <4>2. CASE mod = "in"
        BY <4>1, <4>2 DEF NoNodeLost
      <4>3. CASE mod # "in"
        <5>1. mod \in {"out", "nodev"}
          BY <2>1, <3>1, <4>3 DEF LifoInv, TypeOK, Alone, Stages
        <5>2. fset = 0
          BY <2>1, <5>1 DEF Alone, Stages
        <5>3. Listed = {}
          BY <3>5, <5>2
        <5>4. QED
          BY <4>1, <5>3 DEF NoNodeLost
      <4>4. QED
        BY <4>2, <4>3
    <3>10. QED
      BY <3>8, <3>9 DEF SoundUnlessHurt
  <2>5. QED
    BY <2>2, <2>3, <2>4
<1>2. QED
  BY <1>1, AloneHolds, PTL

-----------------------------------------------------------------------------
(* The device implements the stack.                                        *)

\* The values along a walk from Top are the bytes of the stack.
LEMMA ContentIs ==
  fset \in Nat =>
    \A x \in [0 .. fset -> Ptr] :
      Walk(node, x, Top, fset) =>
        Content = [k \in 1 .. fset |-> node[x[k - 1]].value]
<1> SUFFICES ASSUME fset \in Nat, NEW x \in [0 .. fset -> Ptr],
                    Walk(node, x, Top, fset)
             PROVE  Content = [k \in 1 .. fset |-> node[x[k - 1]].value]
  OBVIOUS
<1>1. Chain(Top, fset) = x
  BY ChainIsWalk
<1>2. ASSUME NEW k \in 1 .. fset PROVE x[k - 1] \in Nodes /\ x[k - 1] # NULL
  <2>1. k - 1 \in 0 .. fset - 1
    OBVIOUS
  <2>2. QED
    BY <2>1, LifoConstants DEF Walk
<1>3. Content =
        [k \in 1 .. fset |-> IF x[k - 1] = NULL THEN Unset ELSE node[x[k - 1]].value]
  BY <1>1 DEF Content
<1>4. QED
  BY <1>2, <1>3

\* The same of the state after a step.
LEMMA ContentIsNext ==
  fset' \in Nat =>
    \A x \in [0 .. fset' -> Ptr] :
      Walk(node', x, Top', fset') =>
        Content' = [k \in 1 .. fset' |-> node'[x[k - 1]].value]
<1>1. (fset \in Nat =>
        \A x \in [0 .. fset -> Ptr] :
          Walk(node, x, Top, fset) =>
            Content = [k \in 1 .. fset |-> node[x[k - 1]].value])'
  BY ContentIs, PTL
<1>2. QED
  BY <1>1

\* The stack is the same when the bytes and the pointers are.
LEMMA ContentStays ==
  ASSUME LifoInv, Alone, "cut" \notin hurt, Top' = Top, fset' = fset,
         \A n \in Nodes : /\ node'[n].next = node[n].next
                          /\ node'[n].value = node[n].value
  PROVE  Content' = Content
<1>1. fset \in Nat
  BY DEF LifoInv, TypeOK, Alone, Clamped
<1>2. PICK x \in [0 .. fset -> Ptr] : Walk(node, x, Top, fset)
  BY DEF Alone, Hanging, Hangs
<1>3. \A k \in 1 .. fset : x[k - 1] \in Nodes
  <2>1. ASSUME NEW k \in 1 .. fset PROVE k - 1 \in 0 .. fset - 1
    BY <1>1
  <2>2. QED
    BY <1>2, <2>1 DEF Walk
<1>4. Walk(node', x, Top', fset')
  BY <1>2 DEF Walk
<1>5. Content = [k \in 1 .. fset |-> node[x[k - 1]].value]
  BY <1>1, <1>2, ContentIs
<1>6. Content' = [k \in 1 .. fset |-> node'[x[k - 1]].value]
  BY <1>1, <1>4, ContentIsNext
<1>7. QED
  BY <1>3, <1>5, <1>6

\* With no node left the stack is empty.
LEMMA ContentEmpty ==
  ASSUME fset' = 0
  PROVE  Content' = <<>>
BY DEF Content

\* lifo_read pops.
LEMMA ReadPops ==
  ASSUME NEW self, Tasks = {self}, LifoInv, Alone, "cut" \notin hurt, ReadByte(self)
  PROVE  StackOf!Pop
<1> DEFINE p == call[self].ptr
           q == node[p].next
<1>1. TypeOK /\ PtrsFilled
  BY DEF LifoInv
<1>2. /\ call[self].op = "read" /\ call[self].left > 0 /\ ~Dangling(p)
      /\ node' = [node EXCEPT ![p].live = FALSE] /\ fset' = fset - 1
      /\ last' = node[p].value
      /\ Goes(self, [call[self] EXCEPT !.ptr = q, !.left = call[self].left - 1])
  BY DEF ReadByte, kfree
<1>3. /\ fset \in Nat /\ call[self].left <= fset /\ call[self].left \in Nat
  BY <1>1, <1>2, AloneFacts DEF TypeOK, CallType
<1>4. fset \in Nat \ {0} /\ fset' \in Nat
  BY <1>2, <1>3
<1>5. p \in Nodes
  BY <1>1, <1>2, Live1
<1>6. \A m \in Nodes : /\ node'[m].next = node[m].next
                       /\ node'[m].value = node[m].value
  BY <1>1, <1>2, <1>5, LiveOnly
<1>7. call'[self].op = "read" /\ call'[self].ptr = q
  <2>1. call'[self] = [call[self] EXCEPT !.ptr = q, !.left = call[self].left - 1]
    BY <1>2, GoesTo
  <2>2. call[self] \in CallType
    BY <1>1 DEF TypeOK
  <2>3. QED
    BY <1>2, <2>1, <2>2 DEF CallType
<1>8. Top = p
  BY <1>2, TopAlone
<1>9. Top' = q
  <2>1. Using' = {self}
    BY <1>7 DEF Using
  <2>2. QED
    BY <1>7, <2>1 DEF Top
<1>10. PICK x \in [0 .. fset -> Ptr] : Walk(node, x, p, fset)
  BY <1>8 DEF Alone, Hanging, Hangs
<1> DEFINE n == fset - 1
           y == [i \in 0 .. n |-> x[i + 1]]
<1>11. y \in [0 .. n -> Ptr] /\ \A i \in 0 .. n : y[i] = x[i + 1]
  BY <1>4
<1> HIDE DEF y, q
<1>12. /\ x[0] = p /\ y[0] = q /\ n \in Nat /\ 0 \in 0 .. n
       /\ \A i \in 0 .. n : x[i] \in Nodes /\ x[i + 1] = node[x[i]].next
  <2>1. n \in Nat /\ 0 \in 0 .. n
    BY <1>4
  <2>2. x[0] = p /\ \A i \in 0 .. n : x[i] \in Nodes /\ x[i + 1] = node[x[i]].next
    BY <1>10 DEF Walk
  <2>3. y[0] = x[1] /\ x[1] = node[p].next
    BY <1>11, <2>1, <2>2
  <2>4. QED
    BY <2>1, <2>2, <2>3 DEF q
<1>13. Walk(node', y, q, n)
  <2>1. ASSUME NEW i \in 0 .. n - 1
        PROVE  y[i] \in Nodes /\ y[i + 1] = node'[y[i]].next
    <3> DEFINE j == i + 1
    <3>1. i \in 0 .. n /\ j \in 0 .. n
      BY <1>12
    <3>2. y[i] = x[j] /\ y[j] = x[j + 1] /\ y[i + 1] = y[j]
      BY <1>11, <3>1
    <3> HIDE DEF j
    <3>3. x[j] \in Nodes /\ x[j + 1] = node[x[j]].next
      BY <1>12, <3>1
    <3>4. QED
      BY <1>6, <3>2, <3>3
  <2>2. QED
    BY <1>12, <2>1 DEF Walk
<1>14. Content = [k \in 1 .. fset |-> node[x[k - 1]].value]
  BY <1>3, <1>8, <1>10, ContentIs
<1>15. Content' = [k \in 1 .. n |-> node'[y[k - 1]].value]
  <2>1. fset' = n
    BY <1>2
  <2>2. y \in [0 .. fset' -> Ptr] /\ Walk(node', y, Top', fset')
    BY <1>9, <1>11, <1>13, <2>1
  <2>3. QED
    BY <1>4, <2>1, <2>2, ContentIsNext
<1>16. /\ Len(Content) = fset /\ Content \in Seq(Bytes \cup {Unset})
  <2>1. ASSUME NEW k \in 1 .. fset PROVE node[x[k - 1]].value \in Bytes \cup {Unset}
    <3>1. k - 1 \in 0 .. n
      BY <1>4
    <3>2. x[k - 1] \in Nodes
      BY <1>12, <3>1
    <3>3. QED
      BY <1>1, <3>2 DEF TypeOK
  <2>2. QED
    BY <1>4, <1>14, <2>1
<1>17. Content # <<>> /\ Head(Content) = last'
  <2>1. Content # <<>> /\ Head(Content) = Content[1]
    BY <1>4, <1>16
  <2>2. Content[1] = node[x[0]].value
    <3>1. 1 \in 1 .. fset /\ 1 - 1 = 0
      BY <1>4
    <3>2. Content[1] = node[x[1 - 1]].value
      BY <1>14, <3>1
    <3>3. QED
      BY <3>1, <3>2
  <2>3. QED
    BY <1>2, <1>12, <2>1, <2>2
<1>18. Content' = Tail(Content)
  <2>1. Tail(Content) = [k \in 1 .. n |-> Content[k + 1]]
    BY <1>4, <1>16
  <2>2. ASSUME NEW k \in 1 .. n
        PROVE  node'[y[k - 1]].value = Content[k + 1]
    <3>1. k + 1 \in 1 .. fset /\ k - 1 \in 0 .. n /\ k \in 0 .. n
          /\ (k + 1) - 1 = k /\ (k - 1) + 1 = k
      BY <1>4
    <3>2. Content[k + 1] = node[x[(k + 1) - 1]].value
      BY <1>14, <3>1
    <3>3. y[k - 1] = x[(k - 1) + 1]
      BY <1>11, <3>1
    <3>4. y[k - 1] = x[k] /\ Content[k + 1] = node[x[k]].value
      BY <3>1, <3>2, <3>3
    <3>5. x[k] \in Nodes
      BY <1>12, <3>1
    <3>6. QED
      BY <1>6, <3>4, <3>5
  <2>3. QED
    BY <1>15, <2>1, <2>2
<1>19. QED
  BY <1>17, <1>18 DEF StackOf!Pop

\* lifo_write pushes.
LEMMA WritePushes ==
  ASSUME NEW self, Tasks = {self}, LifoInv, Alone, "cut" \notin hurt,
         WriteByte(self)
  PROVE  StackOf!Push
<1> DEFINE p == call[self].ptr
           b == Head(call[self].todo)
           s == Tail(call[self].todo)
<1>1. TypeOK /\ PtrsFilled
  BY DEF LifoInv
<1>2. call[self].op = "write" /\ fset' = fset + 1 /\ last' = last
  BY DEF WriteByte
<1>3. PICK n \in Nodes \ Live :
        /\ node' = [node EXCEPT ![n] = [live |-> TRUE, next |-> p, value |-> b]]
        /\ Goes(self, [call[self] EXCEPT !.ptr = n, !.todo = s])
  BY DEF WriteByte
<1>4. call[self] \in CallType /\ node \in [Nodes -> NodeType]
  BY <1>1 DEF TypeOK, NodeType
<1>5. p \in Filled /\ b \in Bytes
  <2>1. call[self].todo \in Seq(Bytes) /\ call[self].todo # <<>>
    BY <1>4 DEF WriteByte, CallType
  <2>2. QED
    BY <1>1, <2>1 DEF PtrsFilled
<1>6. node'[n] = [live |-> TRUE, next |-> p, value |-> b]
  BY <1>1, <1>3, <1>5, FillNode
<1>7. \A m \in Nodes \ {n} : node'[m] = node[m]
  BY <1>1, <1>3, <1>5, FillNode
<1>8. call'[self].op = "write" /\ call'[self].ptr = n
  <2>1. call'[self] = [call[self] EXCEPT !.ptr = n, !.todo = s]
    BY <1>3, GoesTo
  <2>2. QED
    BY <1>2, <1>4, <2>1 DEF CallType
<1> HIDE DEF p, b
<1>9. fset \in Nat /\ Holds(node, hurt, p, fset)
  BY <1>2, AloneFacts DEF Idle, p
<1>10. Top = p
  BY <1>2, TopAlone DEF p
<1>11. Top' = n
  <2>1. Using' = {self}
    BY <1>8 DEF Using
  <2>2. QED
    BY <1>8, <2>1 DEF Top
<1>12. PICK x \in [0 .. fset -> Ptr] :
         Walk(node, x, p, fset) /\ Whole(node, hurt, x, fset)
  BY <1>9 DEF Holds
<1> DEFINE y == [i \in 0 .. fset + 1 |-> IF i = 0 THEN n ELSE x[i - 1]]
<1>13. /\ y[0] = n /\ \A i \in 1 .. fset + 1 : y[i] = x[i - 1]
       /\ y \in [0 .. fset + 1 -> Ptr]
  BY <1>9 DEF Ptr
<1> HIDE DEF y
<1>14. \A i \in 0 .. fset - 1 :
         x[i] \in Nodes /\ x[i] # n /\ x[i + 1] = node[x[i]].next
  BY <1>12 DEF Walk, Whole, Live
<1>15. Walk(node', y, n, fset + 1)
  <2>1. ASSUME NEW i \in 0 .. (fset + 1) - 1
        PROVE  y[i] \in Nodes /\ y[i + 1] = node'[y[i]].next
    <3>1. CASE i = 0
      <4>1. y[0 + 1] = x[0] /\ x[0] = p
        BY <1>9, <1>12, <1>13 DEF Walk
      <4>2. QED
        BY <1>6, <1>13, <3>1, <4>1
    <3>2. CASE i # 0
      <4> DEFINE j == i - 1
      <4>1. j \in 0 .. fset - 1 /\ i \in 1 .. fset + 1 /\ i + 1 \in 1 .. fset + 1
            /\ (i + 1) - 1 = j + 1
        BY <1>9, <3>2
      <4>2. y[i] = x[j] /\ y[i + 1] = x[j + 1]
        BY <1>13, <4>1
      <4> HIDE DEF j
      <4>3. x[j] \in Nodes /\ x[j + 1] = node[x[j]].next /\ node'[x[j]] = node[x[j]]
        BY <1>7, <1>14, <4>1
      <4>4. QED
        BY <4>2, <4>3
    <3>3. QED
      BY <3>1, <3>2
  <2>2. QED
    BY <1>13, <2>1 DEF Walk
<1>16. Content = [k \in 1 .. fset |-> node[x[k - 1]].value]
  BY <1>9, <1>10, <1>12, ContentIs
<1>17. Content' = [k \in 1 .. fset + 1 |-> node'[y[k - 1]].value]
  <2>1. fset' = fset + 1 /\ fset' \in Nat
    BY <1>2, <1>9
  <2>2. y \in [0 .. fset' -> Ptr] /\ Walk(node', y, Top', fset')
    BY <1>11, <1>13, <1>15, <2>1
  <2>3. QED
    BY <2>1, <2>2, ContentIsNext
<1>18. Len(Content) = fset /\ Content \in Seq(Bytes \cup {Unset})
  <2>1. ASSUME NEW k \in 1 .. fset PROVE node[x[k - 1]].value \in Bytes \cup {Unset}
    <3>1. k - 1 \in 0 .. fset - 1
      BY <1>9
    <3>2. x[k - 1] \in Nodes
      BY <1>14, <3>1
    <3>3. QED
      BY <1>1, <3>2 DEF TypeOK
  <2>2. QED
    BY <1>9, <1>16, <2>1
<1>19. Content' = <<b>> \o Content
  <2>1. <<b>> \o Content =
          [k \in 1 .. fset + 1 |-> IF k = 1 THEN b ELSE Content[k - 1]]
    BY <1>9, <1>18
  <2>2. ASSUME NEW k \in 1 .. fset + 1
        PROVE  node'[y[k - 1]].value = IF k = 1 THEN b ELSE Content[k - 1]
    <3>1. CASE k = 1
      BY <1>6, <1>13, <3>1
    <3>2. CASE k # 1
      <4> DEFINE j == k - 1
      <4>1. j \in 1 .. fset /\ j \in 1 .. fset + 1 /\ j - 1 \in 0 .. fset - 1
        BY <1>9, <3>2
      <4> HIDE DEF j
      <4>2. y[j] = x[j - 1] /\ Content[j] = node[x[j - 1]].value
        BY <1>13, <1>16, <4>1
      <4>3. node'[x[j - 1]] = node[x[j - 1]]
        BY <1>7, <1>14, <4>1
      <4>4. QED
        BY <3>2, <4>2, <4>3 DEF j
    <3>3. QED
      BY <3>1, <3>2
  <2>3. QED
    BY <1>17, <2>1, <2>2
<1>20. QED
  BY <1>2, <1>5, <1>19 DEF StackOf!Push

\* The steps that move no byte leave the stack alone, or empty it.
LEMMA StackQuiet ==
  ASSUME NEW self, Tasks = {self}, LifoInv, Alone, "cut" \notin hurt \cup hurt',
         Next, ~ReadByte(self), ~WriteByte(self)
  PROVE  StackOf!Clear \/ UNCHANGED stack
<1>1. "cut" \notin hurt /\ "cut" \notin hurt'
  OBVIOUS
<1>2. TypeOK /\ PtrsFilled
  BY DEF LifoInv
<1>3. CASE Load \/ TrimEnd(self)
  <2>1. fset' = 0 /\ last' = last
    BY <1>3 DEF Load, TrimEnd
  <2>2. QED
    BY <2>1, ContentEmpty DEF StackOf!Clear
<1>4. CASE ~Load /\ ~TrimEnd(self)
  <2>1. fset' = fset /\ last' = last
    BY <1>4 DEF Next, Release, Unload, Open, ReadBegin, WriteBegin, Step,
       Crash, Oops,
       TrimNode, ReadFault, ReadEnd, WriteNoMem, WriteFault, WriteEnd
  <2>2. \A n \in Nodes : /\ node'[n].next = node[n].next
                         /\ node'[n].value = node[n].value
    <3>1. CASE TrimNode(self)
      <4>1. node' = [node EXCEPT ![call[self].ptr].live = FALSE]
        BY <3>1 DEF TrimNode, kfree
      <4>2. call[self].ptr \in Nodes
        BY <1>2, <3>1, Live1 DEF TrimNode
      <4>3. QED
        BY <1>2, <4>1, <4>2, LiveOnly
    <3>2. CASE WriteFault(self)
      <4>1. PICK n \in Nodes : node' = [node EXCEPT ![n].live = TRUE]
        BY <3>2 DEF WriteFault
      <4>2. QED
        BY <1>2, <4>1, LiveOnly
    <3>3. CASE ~TrimNode(self) /\ ~WriteFault(self)
      <4>1. node' = node
        BY <1>4, <3>3 DEF Next, Release, Unload, Open, ReadBegin, WriteBegin,
           Step,
           Crash, Oops, ReadFault, ReadEnd, WriteNoMem, WriteEnd
      <4>2. QED
        BY <4>1
    <3>4. QED
      BY <3>1, <3>2, <3>3
  <2>3. Top' = Top
    <3>1. Top = IF call[self].op \in {"read", "write"} THEN call[self].ptr ELSE data
      BY TopAlone
    <3>2. Top' = IF call'[self].op \in {"read", "write"}
                 THEN call'[self].ptr ELSE data'
      BY TopAloneNext
    <3>3. CASE Release
      BY <3>1, <3>2, <3>3 DEF Release
    <3>4. CASE \/ Unload(self)
               \/ \E m \in OpenModes : Open(self, m)
               \/ \E k \in Counts : ReadBegin(self, k)
               \/ \E s \in Writes : WriteBegin(self, s)
      <4>1. call[self].op = "none" /\ data' = data
        BY <3>4 DEF Unload, Open, ReadBegin, WriteBegin, Idle
      <4>2. call'[self].op \in {"read", "write"} => call'[self].ptr = data
        BY <3>4, BeginsAtData
      <4>3. QED
        BY <3>1, <3>2, <4>1, <4>2
    <3>5. CASE TrimNode(self)
      <4>1. call[self].op \in {"open", "unload"} /\ data' = data
        BY <3>5 DEF TrimNode
      <4>2. call'[self].op = call[self].op
        <5>1. call'[self] = [call[self] EXCEPT !.ptr = node[call[self].ptr].next]
          BY <3>5, GoesTo DEF TrimNode
        <5>2. call[self] \in CallType
          BY <1>2 DEF TypeOK
        <5>3. QED
          BY <5>1, <5>2 DEF CallType
      <4>3. QED
        BY <3>1, <3>2, <4>1, <4>2
    <3>6. CASE ReadEnd(self) \/ WriteEnd(self)
      <4>1. call[self].op \in {"read", "write"} /\ data' = call[self].ptr
        BY <3>6 DEF ReadEnd, WriteEnd
      <4>2. call'[self].op = "none"
        BY <3>6, GoesTo DEF ReadEnd, WriteEnd, Leave, NoCall
      <4>3. QED
        BY <3>1, <3>2, <4>1, <4>2
    <3>7. CASE ReadFault(self) \/ WriteFault(self)
      <4>1. call[self].op \in {"read", "write"} /\ data' = data
        BY <3>7 DEF ReadFault, WriteFault
      <4>2. call[self].ptr = data
        BY <1>1, <3>7 DEF ReadFault, WriteFault, Hurts, CutShort
      <4>3. call'[self].op = "none"
        BY <3>7, GoesTo DEF ReadFault, WriteFault, Leave, NoCall
      <4>4. QED
        BY <3>1, <3>2, <4>1, <4>2, <4>3
    <3>8. CASE WriteNoMem(self)
      <4>1. call[self].op = "write" /\ data' = data /\ call[self].ptr = data
        BY <1>1, <3>8 DEF WriteNoMem, Oops, Hurts, CutShort
      <4>2. call'[self].op = "dead"
        BY <3>8, DiesAs DEF WriteNoMem
      <4>3. QED
        BY <3>1, <3>2, <4>1, <4>2
    <3>9. CASE Crash(self)
      <4>1. call'[self].op = "dead" /\ data' = data
        BY <3>9, DiesAs DEF Crash, Oops
      <4>2. call[self].op \in {"open", "unload"}
        BY <1>1, <3>9, ReadsAllocated DEF Crash
      <4>3. QED
        BY <3>1, <3>2, <4>1, <4>2
    <3>10. QED
      BY <1>4, <3>3, <3>4, <3>5, <3>6, <3>7, <3>8, <3>9 DEF Next, Step
  <2>4. Content' = Content
    BY <1>1, <2>1, <2>2, <2>3, ContentStays
  <2>5. QED
    BY <2>1, <2>4 DEF stack
<1>5. QED
  BY <1>3, <1>4

(***************************************************************************)
(* Refinement, for one task: lifo_write pushes, lifo_read pops and opening *)
(* write-only empties a stack of bytes, whatever fails, until a call is    *)
(* cut short; and again from the next load on.                             *)
(***************************************************************************)
THEOREM LastInFirstOutHolds ==
  ASSUME NEW self, Tasks = {self}
  PROVE  Spec => LastInFirstOut
<1>1. Init => StackOf!StackInit
  BY DEF Init, StackOf!StackInit, Content
<1>2. LifoInv /\ Alone /\ [Next]_vars =>
        [StackOf!StackNext \/ "cut" \in hurt \cup hurt']_stack
  <2> SUFFICES ASSUME LifoInv, Alone, [Next]_vars, "cut" \notin hurt \cup hurt'
               PROVE  StackOf!StackNext \/ UNCHANGED stack
    OBVIOUS
  <2>1. LifoInv /\ Alone /\ "cut" \notin hurt
    OBVIOUS
  <2>2. CASE UNCHANGED vars
    <3>1. Content' = Content
      BY <2>2 DEF vars, Content, Chain, Top, Using
    <3>2. QED
      BY <2>2, <3>1 DEF vars, stack
  <2>3. CASE ReadByte(self)
    BY <2>1, <2>3, ReadPops DEF StackOf!StackNext
  <2>4. CASE WriteByte(self)
    BY <2>1, <2>4, WritePushes DEF StackOf!StackNext
  <2>5. CASE Next /\ ~ReadByte(self) /\ ~WriteByte(self)
    BY <2>1, <2>5, StackQuiet DEF StackOf!StackNext
  <2>6. QED
    BY <2>2, <2>3, <2>4, <2>5
<1>3. QED
  BY <1>1, <1>2, AloneHolds, PTL DEF Spec, LastInFirstOut
=============================================================================
