-------------------------- MODULE ScullStoreProofs ---------------------------
(***************************************************************************)
(* The scull device implements the store of bytes: for any constants until *)
(* a critical section runs with a stale geometry, and for good where that  *)
(* cannot happen, which is the case when the parameters keep their         *)
(* defaults and when a single task uses the device.                        *)
(***************************************************************************)
EXTENDS ScullProofs

-----------------------------------------------------------------------------
(* Where a position lies, and which positions share a quantum.             *)

\* Quotient and remainder are determined by the equation they satisfy.
LEMMA DivModUnique ==
  ASSUME NEW b \in Nat, b # 0, NEW k \in Nat, NEW j \in Nat,
         NEW r \in 0 .. b - 1, NEW s \in 0 .. b - 1, b * k + r = b * j + s
  PROVE  k = j /\ r = s
<1>1. ASSUME NEW x \in Nat, NEW y \in Nat, NEW u \in 0 .. b - 1,
             NEW v \in 0 .. b - 1, b * x + u = b * y + v, x < y
      PROVE  FALSE
  <2>1. (x + 1) * b <= y * b
    BY <1>1, MulMono
  <2>2. (x + 1) * b = b * x + b /\ y * b = b * y
    BY <1>1
  <2>3. b * x \in Nat /\ b * y \in Nat
    BY <1>1
  <2> QED BY <1>1, <2>1, <2>2, <2>3
<1>2. ~(k < j)
  BY <1>1, Zenon
<1>3. ~(j < k)
  <2>1. b * j + s = b * k + r
    OBVIOUS
  <2> QED BY <1>1, <2>1, Zenon
<1>4. k = j
  BY <1>2, <1>3
<1>5. b * k \in Nat /\ b * j = b * k
  BY <1>4
<1> QED BY <1>4, <1>5

LEMMA DivModIs ==
  ASSUME NEW b \in Nat, b # 0, NEW k \in Nat, NEW r \in 0 .. b - 1
  PROVE  (b * k + r) \div b = k /\ (b * k + r) % b = r
<1> DEFINE a == b * k + r
<1>1. a \in Nat
  OBVIOUS
<1>2. a = b * k + r
  OBVIOUS
<1> HIDE DEF a
<1>3. /\ a \div b \in Nat /\ a % b \in Nat /\ a % b < b
      /\ a = b * (a \div b) + (a % b)
  BY <1>1, DivMod
<1>4. b * k + r = b * (a \div b) + (a % b) /\ a % b \in 0 .. b - 1
  BY <1>2, <1>3
<1>5. k = a \div b /\ r = a % b
  BY <1>3, <1>4, DivModUnique
<1> QED BY <1>5 DEF a

\* A position is its item, its array index and its offset put together.
LEMMA Coordinates ==
  ASSUME NEW g, g.quantum \in Nat, g.qset \in Nat, Itemsize(g) # 0,
         NEW p \in Nat
  PROVE  /\ Item(g, p) \in Nat /\ SPos(g, p) \in Nat /\ QPos(g, p) \in Nat
         /\ QPos(g, p) < g.quantum /\ SPos(g, p) < g.qset
         /\ Itemsize(g) \in Nat
         /\ g.quantum * SPos(g, p) + QPos(g, p) < Itemsize(g)
         /\ p = Itemsize(g) * Item(g, p) + (g.quantum * SPos(g, p) + QPos(g, p))
<1> DEFINE q == g.quantum
           n == Itemsize(g)
           r == Rest(g, p)
<1>1. n = q * g.qset /\ n \in Nat /\ q > 0
  BY DEF Itemsize
<1>2. p \div n \in Nat /\ p % n \in Nat /\ p % n < n /\ p = n * (p \div n) + (p % n)
  BY <1>1, DivMod
<1>3. r \in Nat /\ r < n /\ p = n * Item(g, p) + r /\ Item(g, p) \in Nat
  BY <1>2 DEF Item, Rest
<1>4. r = q * SPos(g, p) + QPos(g, p)
  <2>1. SPos(g, p) = r \div q /\ QPos(g, p) = r % q
    BY DEF SPos, QPos
  <2>2. q \in Nat /\ q # 0
    BY <1>1
  <2> HIDE DEF r, q
  <2> QED BY <1>3, <2>1, <2>2, DivMod
<1>5. /\ SPos(g, p) \in Nat /\ SPos(g, p) < g.qset
      /\ QPos(g, p) \in Nat /\ QPos(g, p) < g.quantum
  BY PlaceOfPosition
<1> QED BY <1>1, <1>3, <1>4, <1>5

\* The positions that follow p up to the end of its quantum lie in it, ...
LEMMA SameCell ==
  ASSUME NEW g, g.quantum \in Nat, g.qset \in Nat, Itemsize(g) # 0,
         NEW p \in Nat, NEW x \in Nat, NEW i \in 0 .. g.quantum - 1,
         x = Itemsize(g) * Item(g, p) + (g.quantum * SPos(g, p) + i)
  PROVE  Cell(g, x) = Cell(g, p) /\ QPos(g, x) = i
<1> DEFINE q == g.quantum
           n == Itemsize(g)
           s == SPos(g, p)
           r == q * s + i
<1>1. /\ Item(g, p) \in Nat /\ s \in Nat /\ s < g.qset /\ n \in Nat /\ q \in Nat
      /\ n = q * g.qset /\ q # 0 /\ n # 0
  BY Coordinates DEF Itemsize
<1>2. r \in 0 .. n - 1
  <2>1. (s + 1) * q <= g.qset * q
    BY <1>1, MulMono
  <2>2. (s + 1) * q = q * s + q /\ g.qset * q = n /\ q * s \in Nat
    BY <1>1
  <2> QED BY <2>1, <2>2, <1>1
<1>3. x \div n = Item(g, p) /\ x % n = r
  <2>1. x = n * Item(g, p) + r
    OBVIOUS
  <2>2. n \in Nat /\ n # 0 /\ Item(g, p) \in Nat /\ r \in 0 .. n - 1
    BY <1>1, <1>2
  <2> HIDE DEF r, n
  <2>3. (n * Item(g, p) + r) \div n = Item(g, p) /\ (n * Item(g, p) + r) % n = r
    BY <2>2, DivModIs
  <2> QED BY <2>1, <2>3
<1>4. r \div q = s /\ r % q = i
  BY <1>1, DivModIs
<1>5. Item(g, x) = Item(g, p) /\ Rest(g, x) = r
  BY <1>3 DEF Item, Rest
<1> HIDE DEF r
<1>6. SPos(g, x) = s /\ QPos(g, x) = i
  BY <1>4, <1>5 DEF SPos, QPos
<1> QED BY <1>5, <1>6 DEF Cell

LEMMA NextInCell ==
  ASSUME NEW g, g.quantum \in Nat, g.qset \in Nat, Itemsize(g) # 0,
         NEW p \in Nat, NEW i \in Nat, QPos(g, p) + i < g.quantum
  PROVE  Cell(g, p + i) = Cell(g, p) /\ QPos(g, p + i) = QPos(g, p) + i
<1>1. /\ Item(g, p) \in Nat /\ SPos(g, p) \in Nat /\ QPos(g, p) \in Nat
      /\ Itemsize(g) \in Nat
      /\ p = Itemsize(g) * Item(g, p) + (g.quantum * SPos(g, p) + QPos(g, p))
  BY Coordinates
<1>2. Itemsize(g) * Item(g, p) \in Nat /\ g.quantum * SPos(g, p) \in Nat
  BY <1>1
<1>3. p + i = Itemsize(g) * Item(g, p) + (g.quantum * SPos(g, p) + (QPos(g, p) + i))
  <2> DEFINE a == Itemsize(g) * Item(g, p)
             b == g.quantum * SPos(g, p)
  <2>1. a \in Nat /\ b \in Nat /\ p = a + (b + QPos(g, p)) /\ QPos(g, p) \in Nat
    BY <1>1, <1>2
  <2> HIDE DEF a, b
  <2>2. p + i = a + (b + (QPos(g, p) + i))
    BY <2>1
  <2> QED BY <2>2 DEF a, b
<1>4. QPos(g, p) + i \in 0 .. g.quantum - 1 /\ p + i \in Nat
  BY <1>1
<1> QED BY <1>3, <1>4, SameCell

\* ... and two positions of one quantum are as far apart as their offsets.
LEMMA CellDistance ==
  ASSUME NEW g, g.quantum \in Nat, g.qset \in Nat, Itemsize(g) # 0,
         NEW p \in Nat, NEW x \in Nat, Cell(g, x) = Cell(g, p)
  PROVE  x - p = QPos(g, x) - QPos(g, p)
<1>1. /\ Item(g, p) \in Nat /\ SPos(g, p) \in Nat /\ QPos(g, p) \in Nat
      /\ Itemsize(g) \in Nat
      /\ p = Itemsize(g) * Item(g, p) + (g.quantum * SPos(g, p) + QPos(g, p))
  BY Coordinates
<1>2. /\ QPos(g, x) \in Nat
      /\ x = Itemsize(g) * Item(g, x) + (g.quantum * SPos(g, x) + QPos(g, x))
  BY Coordinates
<1>3. Item(g, x) = Item(g, p) /\ SPos(g, x) = SPos(g, p)
  BY DEF Cell
<1> DEFINE a == Itemsize(g) * Item(g, p)
           b == g.quantum * SPos(g, p)
<1>4. a \in Nat /\ b \in Nat
  BY <1>1
<1>5. p = a + (b + QPos(g, p)) /\ x = a + (b + QPos(g, x))
  BY <1>1, <1>2, <1>3
<1>6. QPos(g, p) \in Nat /\ QPos(g, x) \in Nat
  BY <1>1, <1>2
<1> DEFINE u == QPos(g, p)
           v == QPos(g, x)
<1>7. p = a + (b + u) /\ x = a + (b + v) /\ u \in Nat /\ v \in Nat
  BY <1>5, <1>6
<1> HIDE DEF a, b, u, v
<1>8. x - p = v - u
  BY <1>4, <1>7
<1> QED BY <1>8 DEF u, v

\* A transfer moves nothing only when nothing is asked for.
LEMMA SpanMoves ==
  ASSUME NEW g, g.quantum \in Nat, g.qset \in Nat, Itemsize(g) # 0,
         NEW p \in Nat, NEW count \in Nat, Span(g, p, count) = 0
  PROVE  count = 0
BY PlaceOfPosition DEF Span

-----------------------------------------------------------------------------
(* The calls in flight and the positions.                                  *)

\* The call at the end of a critical section.
LEMMA FinishFields ==
  ASSUME TypeOK, NEW t \in Tasks, NEW v, NEW n, NEW b, Finish(t, v, n, b)
  PROVE  /\ call'[t].pc = "ret" /\ call'[t].op = call[t].op
         /\ call'[t].val = v /\ call'[t].buf = b /\ call'[t].pos = call[t].pos + n
         /\ \A u \in Tasks \ {t} : call'[u] = call[u]
<1> DEFINE c == call[t]
           d == [c EXCEPT !.pc = "ret", !.val = v, !.buf = b, !.pos = c.pos + n]
<1>1. call'[t] = d /\ \A u \in Tasks \ {t} : call'[u] = call[u]
  BY Moves DEF Finish
<1>2. c \in CallType
  BY DEF TypeOK
<1>3. d.pc = "ret" /\ d.op = c.op /\ d.val = v /\ d.buf = b /\ d.pos = c.pos + n
  BY <1>2 DEF CallType
<1> QED BY <1>1, <1>3

\* The end of any critical section answers the call.
LEMMA SectionAnswers ==
  ASSUME TypeOK, NEW t \in Tasks,
         \/ TrimQset(t) \/ ReadPastEnd(t) \/ ReadHole(t) \/ ReadBytes(t)
         \/ WriteNoMem(t) \/ WriteBytes(t)
  PROVE  \E v, n, b : Finish(t, v, n, b)
BY DEF TrimQset, ReadPastEnd, ReadHole, ReadBytes, WriteNoMem, WriteBytes

LEMMA UnansweredStep ==
  ASSUME TypeOK, Unanswered, [Next]_vars
  PROVE  Unanswered'
<1>t. \A t \in Tasks : call[t] \in CallType /\ InFlight(call[t])
  BY DEF TypeOK, Unanswered
<1>m. ASSUME NEW t \in Tasks, NEW c, Becomes(t, c), InFlight(c)
      PROVE  Unanswered'
  <2>1. \A u \in Tasks : InFlight(call'[u])
    BY <1>m, <1>t, Moves
  <2> QED BY <2>1 DEF Unanswered, InFlight
<1>k. ASSUME UNCHANGED call PROVE Unanswered'
  BY <1>k DEF Unanswered, InFlight
<1>1. CASE UNCHANGED vars
  BY <1>1, <1>k DEF vars, devVars
<1>2. CASE Next
  <2>1. ASSUME NEW t \in Tasks, NEW f \in Files, NEW m, Open(t, f, m)
        PROVE  Unanswered'
    <3>1. InFlight([NoCall EXCEPT !.pc = "down", !.op = "open", !.file = f])
      BY DEF NoCall, InFlight
    <3> QED BY <2>1, <1>k, <1>m, <3>1 DEF Open
  <2>2. ASSUME NEW t \in Tasks, NEW f \in Files, NEW op \in {"read", "write"},
               LoadGeometry(t, op, f)
        PROVE  Unanswered'
    <3>1. InFlight([NoCall EXCEPT !.pc = "qset", !.op = op, !.file = f,
                                  !.quantum = quantum, !.pos = file[f].pos])
      BY DEF NoCall, InFlight
    <3> QED BY <2>2, <1>m, <3>1 DEF LoadGeometry
  <2>3. ASSUME NEW t \in Tasks, NEW f \in Files, NEW whence, NEW off,
               Llseek(t, f, whence, off)
        PROVE  Unanswered'
    <3>1. PICK v, p : Becomes(t, [NoCall EXCEPT !.pc = "ret", !.op = "llseek",
                                                !.file = f, !.val = v, !.pos = p])
      BY <2>3 DEF Llseek
    <3>2. InFlight([NoCall EXCEPT !.pc = "ret", !.op = "llseek",
                                  !.file = f, !.val = v, !.pos = p])
      BY DEF NoCall, InFlight
    <3> QED BY <1>m, <3>1, <3>2
  <2>4. ASSUME NEW t \in Tasks, LoadGeometry2(t) PROVE Unanswered'
    <3>1. InFlight([call[t] EXCEPT !.pc = "down", !.qset = qset])
      BY <2>4, <1>t DEF CallType, InFlight, LoadGeometry2
    <3> QED BY <2>4, <1>m, <3>1 DEF LoadGeometry2
  <2>5. ASSUME NEW t \in Tasks, Acquire(t) PROVE Unanswered'
    <3>1. InFlight([call[t] EXCEPT !.pc = "body"])
      BY <2>5, <1>t DEF CallType, InFlight, Acquire
    <3> QED BY <2>5, <1>m, <3>1 DEF Acquire
  <2>6. ASSUME NEW t \in Tasks, Interrupted(t) PROVE Unanswered'
    <3>1. InFlight([call[t] EXCEPT !.pc = "ret", !.val = -ERESTARTSYS])
      BY <1>t DEF CallType, InFlight
    <3> QED BY <2>6, <1>m, <3>1 DEF Interrupted
  <2>7. ASSUME NEW t \in Tasks, Oops(t) PROVE Unanswered'
    <3>1. InFlight([call[t] EXCEPT !.pc = "dead"])
      BY <1>t DEF CallType, InFlight
    <3> QED BY <2>7, <1>m, <3>1 DEF Oops
  <2>8. ASSUME NEW t \in Tasks, Return(t) PROVE Unanswered'
    <3>1. InFlight(NoCall)
      BY DEF NoCall, InFlight
    <3> QED BY <2>8, <1>m, <3>1 DEF Return
  <2>9. ASSUME NEW f \in Files, Release(f) PROVE Unanswered'
    BY <2>9, <1>k DEF Release
  <2>10. ASSUME UNCHANGED devVars PROVE Unanswered'
    BY <2>10, <1>k DEF devVars
  <2>11. ASSUME NEW t \in Tasks, TrimFree(t) PROVE Unanswered'
    <3>1. InFlight([call[t] EXCEPT !.pc = "trim"])
      BY <2>11, <1>t DEF CallType, InFlight, TrimFree, InSection
    <3> QED BY <2>11, <1>m, <3>1 DEF TrimFree
  <2>12. ASSUME NEW t \in Tasks,
                \/ TrimQset(t) \/ ReadPastEnd(t) \/ ReadHole(t) \/ ReadBytes(t)
                \/ WriteNoMem(t) \/ WriteBytes(t)
         PROVE  Unanswered'
    <3>1. call'[t].pc = "ret" /\ \A u \in Tasks \ {t} : call'[u] = call[u]
      BY <2>12, SectionEnds
    <3>2. \A u \in Tasks : InFlight(call'[u])
      BY <3>1, <1>t DEF InFlight
    <3> QED BY <3>2 DEF Unanswered, InFlight
  <2> QED
    BY <1>2, DeviceCases, <2>1, <2>2, <2>3, <2>4, <2>5, <2>6, <2>7, <2>8, <2>9,
       <2>10, <2>11, <2>12
<1> QED BY <1>1, <1>2

\* How far a read or write moves its position, and what it does to the size.
LEMMA ReadStays ==
  ASSUME TypeOK, NEW t \in Tasks, NEW count \in Counts,
         call[t].pos < size, Itemsize(call[t]) # 0,
         NEW left,
         left = IF call[t].pos + count > size THEN size - call[t].pos ELSE count
  PROVE  /\ left \in Nat /\ left <= count
         /\ left = 0 => count = 0
         /\ Span(call[t], call[t].pos, left) \in Nat
         /\ Span(call[t], call[t].pos, left) <= left
         /\ call[t].pos + Span(call[t], call[t].pos, left) <= size
<1> DEFINE c == call[t]
           p == c.pos
<1>1. c.quantum \in Nat /\ c.qset \in Nat /\ p \in Nat /\ size \in Nat
  BY CallLocals DEF TypeOK
<1>2. count \in Nat
  BY DeviceConstants
<1>3. /\ left \in Nat /\ left <= count /\ p + left <= size
      /\ left = 0 => count = 0
  <2>1. p < size /\ left = IF p + count > size THEN size - p ELSE count
    OBVIOUS
  <2> HIDE DEF p
  <2> QED BY <2>1, <1>1, <1>2
<1>4. Span(c, p, left) \in Nat /\ Span(c, p, left) <= left
  BY <1>1, <1>3, SpanBound
<1> HIDE DEF p
<1>5. p + Span(c, p, left) <= size
  BY <1>1, <1>3, <1>4
<1> QED BY <1>3, <1>4, <1>5 DEF p

\* What the critical section of a read does, in terms of its device.
LEMMA ReadSteps ==
  ASSUME TypeOK, NEW t \in Tasks, ReadBytes(t)
  PROVE  \E count \in Counts, left \in Nat, n \in Nat :
           /\ left <= count /\ (left = 0 => count = 0)
           /\ n = Span(call[t], call[t].pos, left)
           /\ n <= left /\ call[t].pos + n <= size
           /\ Note(call[t], Overruns(call[t], n))
           /\ \/ Finish(t, n, n, [i \in 1 .. n |->
                   ByteAt(quanta[Cell(call[t], call[t].pos)],
                          QPos(call[t], call[t].pos) + i - 1)])
              \/ Finish(t, -EFAULT, 0, <<>>)
<1> DEFINE c == call[t]
<1>1. c.pos < size /\ Itemsize(c) # 0
  BY DEF ReadBytes
<1>2. PICK count \in Counts :
        LET left == IF c.pos + count > size THEN size - c.pos ELSE count
            n == Span(c, c.pos, left) IN
        /\ Note(c, Overruns(c, n))
        /\ \/ Finish(t, n, n, [i \in 1 .. n |->
                 ByteAt(quanta[Cell(c, c.pos)], QPos(c, c.pos) + i - 1)])
           \/ Faulty /\ n > 0 /\ Finish(t, -EFAULT, 0, <<>>)
  BY DEF ReadBytes
<1> DEFINE left == IF c.pos + count > size THEN size - c.pos ELSE count
           n == Span(c, c.pos, left)
<1>3. left = IF c.pos + count > size THEN size - c.pos ELSE count
  OBVIOUS
<1>4. /\ Note(c, Overruns(c, n))
      /\ \/ Finish(t, n, n, [i \in 1 .. n |->
               ByteAt(quanta[Cell(c, c.pos)], QPos(c, c.pos) + i - 1)])
         \/ Finish(t, -EFAULT, 0, <<>>)
  BY <1>2
<1>5. n = Span(c, c.pos, left)
  OBVIOUS
<1> HIDE DEF left, n
<1>6. /\ left \in Nat /\ left <= count /\ (left = 0 => count = 0)
      /\ n \in Nat /\ n <= left /\ c.pos + n <= size
  BY <1>1, <1>3, <1>5, ReadStays
<1> QED BY <1>4, <1>5, <1>6

\* The same for a write.
LEMMA WriteSteps ==
  ASSUME TypeOK, NEW t \in Tasks, WriteBytes(t)
  PROVE  \E count \in Counts, b \in Bytes, n \in Nat, m \in Nat :
           /\ n = Span(call[t], call[t].pos, count)
           /\ n <= count /\ call[t].pos + n <= MaxPos
           /\ Note(call[t], Overruns(call[t], n))
           /\ m \in 0 .. n
           /\ quanta' = Put(quanta, Cell(call[t], call[t].pos),
                            CopyIn(QuantumFor(call[t]),
                                   QPos(call[t], call[t].pos), n, m, b))
           /\ \/ m = n /\ Grow(call[t].pos + n) /\ Finish(t, n, n, <<>>)
              \/ UNCHANGED size /\ Finish(t, -EFAULT, 0, <<>>)
<1> DEFINE c == call[t]
<1>1. PICK count \in Counts, b \in Bytes :
        LET n == Span(c, c.pos, count) IN
        /\ c.pos + count <= MaxPos
        /\ Note(c, Overruns(c, n))
        /\ \E m \in 0 .. n :
             /\ quanta' = Put(quanta, Cell(c, c.pos),
                              CopyIn(QuantumFor(c), QPos(c, c.pos), n, m, b))
             /\ \/ m = n /\ Grow(c.pos + n) /\ Finish(t, n, n, <<>>)
                \/ m < n /\ Faulty /\ UNCHANGED size /\ Finish(t, -EFAULT, 0, <<>>)
  BY DEF WriteBytes
<1> DEFINE n == Span(c, c.pos, count)
<1>2. PICK m \in 0 .. n :
        /\ quanta' = Put(quanta, Cell(c, c.pos),
                         CopyIn(QuantumFor(c), QPos(c, c.pos), n, m, b))
        /\ \/ m = n /\ Grow(c.pos + n) /\ Finish(t, n, n, <<>>)
           \/ m < n /\ Faulty /\ UNCHANGED size /\ Finish(t, -EFAULT, 0, <<>>)
  BY <1>1
<1>3. c.pos + count <= MaxPos /\ Note(c, Overruns(c, n))
  BY <1>1
<1>4. /\ c.quantum \in Nat /\ c.qset \in Nat /\ c.pos \in Nat /\ count \in Nat
      /\ Itemsize(c) # 0 /\ MaxPos \in Nat
  BY CallLocals, DeviceConstants DEF WriteBytes
<1>5. n \in Nat /\ n <= count
  BY <1>4, SpanBound
<1>6. n = Span(c, c.pos, count)
  OBVIOUS
<1> HIDE DEF n
<1>7. c.pos + n <= MaxPos
  <2> DEFINE p == c.pos
  <2>1. p + count <= MaxPos /\ p \in Nat /\ count \in Nat /\ MaxPos \in Nat
    BY <1>3, <1>4
  <2> HIDE DEF p
  <2>2. p + n <= MaxPos
    BY <2>1, <1>5
  <2> QED BY <2>2 DEF p
<1>8. m \in Nat /\ m \in 0 .. n
  BY <1>2, <1>5
<1> QED BY <1>2, <1>3, <1>5, <1>6, <1>7, <1>8

LEMMA WithinStep ==
  ASSUME TypeOK, Within, [Next]_vars
  PROVE  Within'
<1>t. /\ size \in Nat /\ size <= MaxPos /\ MaxPos \in Nat
      /\ \A t \in Tasks : call[t] \in CallType /\ call[t].pos \in Nat
                          /\ call[t].pos <= MaxPos
      /\ \A f \in Files : file[f].pos <= MaxPos
      /\ file \in [Files -> [mode : Modes, pos : Nat]]
  BY CallLocals, DeviceConstants DEF TypeOK, Within
<1>m. ASSUME NEW t \in Tasks, NEW c, Becomes(t, c), c.pos <= MaxPos,
             size' <= MaxPos, \A f \in Files : file'[f].pos <= MaxPos
      PROVE  Within'
  <2>1. \A u \in Tasks : call'[u].pos <= MaxPos
    BY <1>m, <1>t, Moves
  <2> QED BY <2>1, <1>m DEF Within
<1>k. ASSUME UNCHANGED <<size, file>>, NEW t \in Tasks, call'[t].pos <= MaxPos,
             \A u \in Tasks \ {t} : call'[u] = call[u]
      PROVE  Within'
  BY <1>k, <1>t DEF Within
<1>1. CASE UNCHANGED vars
  BY <1>1, <1>t DEF vars, devVars, Within
<1>2. CASE Next
  <2>1. ASSUME NEW t \in Tasks, NEW f \in Files, NEW m, Open(t, f, m)
        PROVE  Within'
    <3>1. [NoCall EXCEPT !.pc = "down", !.op = "open", !.file = f].pos <= MaxPos
      BY <1>t DEF NoCall
    <3>2. \A g \in Files : file'[g].pos <= MaxPos
      BY <2>1, <1>t DEF Open
    <3>3. size' <= MaxPos
      BY <2>1, <1>t DEF Open
    <3> QED BY <2>1, <1>t, <1>m, <3>1, <3>2, <3>3 DEF Open, Within
  <2>2. ASSUME NEW t \in Tasks, NEW f \in Files, NEW op \in {"read", "write"},
               LoadGeometry(t, op, f)
        PROVE  Within'
    <3>1. [NoCall EXCEPT !.pc = "qset", !.op = op, !.file = f,
                         !.quantum = quantum, !.pos = file[f].pos].pos <= MaxPos
      BY <1>t DEF NoCall
    <3> QED BY <2>2, <1>t, <1>m, <3>1 DEF LoadGeometry
  <2>3. ASSUME NEW t \in Tasks, NEW f \in Files, NEW whence, NEW off \in Offsets,
               Llseek(t, f, whence, off)
        PROVE  Within'
    <3>1. PICK v, p : /\ Becomes(t, [NoCall EXCEPT !.pc = "ret", !.op = "llseek",
                                             !.file = f, !.val = v, !.pos = p])
                      /\ p <= MaxPos
      <4> DEFINE w == off + (CASE whence = "set" -> 0
                               [] whence = "cur" -> file[f].pos
                               [] whence = "end" -> size)
      <4>1. /\ w <= MaxPos
            /\ Becomes(t, [NoCall EXCEPT !.pc = "ret", !.op = "llseek", !.file = f,
                             !.val = IF w < 0 THEN -EINVAL ELSE w,
                             !.pos = IF w < 0 THEN 0 ELSE w])
        BY <2>3 DEF Llseek
      <4> HIDE DEF w
      <4>2. (IF w < 0 THEN 0 ELSE w) <= MaxPos
        BY <4>1, <1>t
      <4> QED BY <4>1, <4>2
    <3>2. [NoCall EXCEPT !.pc = "ret", !.op = "llseek",
                         !.file = f, !.val = v, !.pos = p].pos = p
      BY DEF NoCall
    <3> QED BY <2>3, <1>t, <1>m, <3>1, <3>2 DEF Llseek
  <2>4. ASSUME NEW t \in Tasks, LoadGeometry2(t) PROVE Within'
    <3>1. [call[t] EXCEPT !.pc = "down", !.qset = qset].pos <= MaxPos
      BY <1>t DEF CallType
    <3> QED BY <2>4, <1>t, <1>m, <3>1 DEF LoadGeometry2
  <2>5. ASSUME NEW t \in Tasks, Acquire(t) PROVE Within'
    <3>1. [call[t] EXCEPT !.pc = "body"].pos <= MaxPos
      BY <1>t DEF CallType
    <3> QED BY <2>5, <1>t, <1>m, <3>1 DEF Acquire
  <2>6. ASSUME NEW t \in Tasks, Interrupted(t) PROVE Within'
    <3>1. [call[t] EXCEPT !.pc = "ret", !.val = -ERESTARTSYS].pos <= MaxPos
      BY <1>t DEF CallType
    <3> QED BY <2>6, <1>t, <1>m, <3>1 DEF Interrupted
  <2>7. ASSUME NEW t \in Tasks, Oops(t) PROVE Within'
    <3>1. [call[t] EXCEPT !.pc = "dead"].pos <= MaxPos
      BY <1>t DEF CallType
    <3> QED BY <2>7, <1>t, <1>m, <3>1 DEF Oops
  <2>8. ASSUME NEW t \in Tasks, Return(t) PROVE Within'
    <3>1. NoCall.pos <= MaxPos
      BY <1>t DEF NoCall
    <3>2. \A f \in Files : file'[f].pos <= MaxPos
      <4>1. 0 <= MaxPos /\ call[t].pos <= MaxPos
        BY <1>t
      <4> QED BY <2>8, <1>t, <4>1 DEF Return
    <3>3. size' <= MaxPos
      BY <2>8, <1>t DEF Return
    <3> QED BY <2>8, <1>m, <3>1, <3>2, <3>3 DEF Return
  <2>9. ASSUME NEW f \in Files, Release(f) PROVE Within'
    <3>1. \A g \in Files : file'[g].pos <= MaxPos
      BY <2>9, <1>t DEF Release
    <3> QED BY <2>9, <1>t, <3>1 DEF Release, Within
  <2>10. ASSUME UNCHANGED devVars PROVE Within'
    BY <2>10, <1>t DEF devVars, Within
  <2>11. ASSUME NEW t \in Tasks, TrimFree(t) PROVE Within'
    <3>1. [call[t] EXCEPT !.pc = "trim"].pos <= MaxPos
      BY <1>t DEF CallType
    <3>2. Becomes(t, [call[t] EXCEPT !.pc = "trim"]) /\ UNCHANGED file
      BY <2>11 DEF TrimFree
    <3>3. size' <= MaxPos
      BY <2>11, <1>t DEF TrimFree
    <3> QED BY <1>t, <1>m, <3>1, <3>2, <3>3
  <2>12. ASSUME NEW t \in Tasks,
                TrimQset(t) \/ ReadPastEnd(t) \/ ReadHole(t) \/ WriteNoMem(t)
         PROVE  Within'
    <3>1. PICK v, b : Finish(t, v, 0, b)
      BY <2>12 DEF TrimQset, ReadPastEnd, ReadHole, WriteNoMem
    <3>2. call'[t].pos = call[t].pos /\ \A u \in Tasks \ {t} : call'[u] = call[u]
      BY <3>1, <1>t, FinishFields
    <3>3. UNCHANGED <<size, file>>
      BY <2>12 DEF TrimQset, ReadPastEnd, ReadHole, WriteNoMem
    <3> QED BY <3>2, <3>3, <1>t, <1>k
  <2>13. ASSUME NEW t \in Tasks, ReadBytes(t) PROVE Within'
    <3>1. PICK n \in Nat : /\ call[t].pos + n <= size
                           /\ (\E v, b : Finish(t, v, n, b)) \/ (\E v, b : Finish(t, v, 0, b))
      BY <2>13, ReadSteps
    <3>2. /\ call'[t].pos = call[t].pos + n \/ call'[t].pos = call[t].pos + 0
          /\ \A u \in Tasks \ {t} : call'[u] = call[u]
      BY <3>1, FinishFields
    <3>3. call'[t].pos <= MaxPos
      BY <3>1, <3>2, <1>t
    <3>4. UNCHANGED <<size, file>>
      BY <2>13 DEF ReadBytes
    <3> QED BY <3>2, <3>3, <3>4, <1>k
  <2>14. ASSUME NEW t \in Tasks, WriteBytes(t) PROVE Within'
    <3>1. PICK n \in Nat : /\ call[t].pos + n <= MaxPos
                           /\ Grow(call[t].pos + n) \/ UNCHANGED size
                           /\ (\E v, b : Finish(t, v, n, b)) \/ (\E v, b : Finish(t, v, 0, b))
      BY <2>14, WriteSteps
    <3>2. /\ call'[t].pos = call[t].pos + n \/ call'[t].pos = call[t].pos + 0
          /\ \A u \in Tasks \ {t} : call'[u] = call[u]
      BY <3>1, FinishFields
    <3>3. call'[t].pos <= MaxPos
      BY <3>1, <3>2, <1>t
    <3>4. size' <= MaxPos /\ UNCHANGED file
      BY <2>14, <3>1, <1>t DEF WriteBytes, Grow
    <3> QED BY <3>2, <3>3, <3>4, <1>t DEF Within
  <2> QED
    BY <1>2, DeviceCases, <2>1, <2>2, <2>3, <2>4, <2>5, <2>6, <2>7, <2>8, <2>9,
       <2>10, <2>11, <2>12, <2>13, <2>14
<1> QED BY <1>1, <1>2

-----------------------------------------------------------------------------
(* The device as a store, one lemma for each kind of step.                 *)

\* An access at c's position with the device's geometry is at the place the
\* store finds it.
LEMMA SameGeometry ==
  ASSUME NEW t, ~Stale(call[t]), NEW p
  PROVE  /\ Itemsize(call[t]) = Itemsize(Geometry)
         /\ Item(call[t], p) = Item(Geometry, p)
         /\ SPos(call[t], p) = SPos(Geometry, p)
         /\ QPos(call[t], p) = QPos(Geometry, p)
         /\ Cell(call[t], p) = Cell(Geometry, p)
<1>1. call[t].quantum = quantum /\ call[t].qset = qset
  BY DEF Stale
<1>2. Geometry.quantum = quantum /\ Geometry.qset = qset
  BY DEF Geometry
<1>3. Itemsize(call[t]) = Itemsize(Geometry)
  BY <1>1, <1>2 DEF Itemsize
<1> QED BY <1>1, <1>2, <1>3 DEF Item, Rest, SPos, QPos, Cell

\* A call that gets its result answers the request of the store.
LEMMA ResultAnswers ==
  ASSUME TypeOK, NEW t \in Tasks, call[t].pc \in {"down", "body"},
         call[t].op # "llseek", NEW v, NEW n, NEW b,
         call'[t].pc \in {"trim", "ret"}, call'[t].op = call[t].op,
         call'[t].val = v, call'[t].buf = b, call'[t].pos = call[t].pos + n,
         \A u \in Tasks \ {t} : call'[u] = call[u]
  PROVE  Abstract!Answer(t, v, n, b)
<1> DEFINE c == call[t]
<1>1. Request = [u \in Tasks |-> AskedBy(call[u])]
  BY DEF Request
<1>2. Request' = [u \in Tasks |-> AskedBy(call'[u])]
  BY DEF Request, AskedBy
<1>3. AskedBy(c) = [st |-> "busy", op |-> c.op, pos |-> c.pos, val |-> c.val,
                    buf |-> c.buf]
  BY DEF AskedBy
<1>4. AskedBy(call'[t]) = [st |-> "ret", op |-> c.op, pos |-> c.pos + n,
                           val |-> v, buf |-> b]
  BY DEF AskedBy
<1>5. Request' = [Request EXCEPT ![t].st = "ret", ![t].val = v, ![t].pos = @ + n,
                                 ![t].buf = b]
  <2>1. PICK r : r = Request[t]
    OBVIOUS
  <2>2. r = [st |-> "busy", op |-> c.op, pos |-> c.pos, val |-> c.val, buf |-> c.buf]
    BY <1>1, <1>3, <2>1
  <2>3. [r EXCEPT !.st = "ret", !.val = v, !.pos = @ + n, !.buf = b]
          = [st |-> "ret", op |-> c.op, pos |-> c.pos + n, val |-> v, buf |-> b]
    <3> DEFINE q1 == [r EXCEPT !.st = "ret"]
               q2 == [q1 EXCEPT !.val = v]
               q3 == [q2 EXCEPT !.pos = @ + n]
               q4 == [q3 EXCEPT !.buf = b]
    <3>1. q1 = [st |-> "ret", op |-> c.op, pos |-> c.pos, val |-> c.val,
                buf |-> c.buf]
      BY <2>2
    <3> HIDE DEF q1
    <3>2. q2 = [st |-> "ret", op |-> c.op, pos |-> c.pos, val |-> v, buf |-> c.buf]
      BY <3>1
    <3> HIDE DEF q2
    <3>3. q3 = [st |-> "ret", op |-> c.op, pos |-> c.pos + n, val |-> v,
                buf |-> c.buf]
      BY <3>2
    <3> HIDE DEF q3
    <3>4. q4 = [st |-> "ret", op |-> c.op, pos |-> c.pos + n, val |-> v, buf |-> b]
      BY <3>3
    <3>5. q2.pos = c.pos /\ q1.pos = c.pos /\ r.pos = c.pos
      BY <3>1, <3>2, <2>2
    <3>6. [r EXCEPT !.st = "ret", !.val = v, !.pos = @ + n, !.buf = b] = q4
      BY <3>5, Zenon DEF q1, q2, q3
    <3> QED BY <3>4, <3>6
  <2>4. [Request EXCEPT ![t].st = "ret", ![t].val = v, ![t].pos = @ + n,
                        ![t].buf = b]
          = [Request EXCEPT ![t] = [r EXCEPT !.st = "ret", !.val = v,
                                             !.pos = @ + n, !.buf = b]]
    BY <1>1, <2>1
  <2> QED BY <1>1, <1>2, <1>4, <2>3, <2>4
<1> QED BY <1>5 DEF Abstract!Answer

\* So does the end of a critical section.
LEMMA FinishAnswers ==
  ASSUME TypeOK, Unanswered, NEW t \in Tasks, call[t].pc = "body",
         NEW v, NEW n, NEW b, Finish(t, v, n, b)
  PROVE  Abstract!Answer(t, v, n, b)
<1>1. call[t].op # "llseek"
  BY DEF Unanswered, InFlight
<1> QED BY <1>1, FinishFields, ResultAnswers

\* The bytes of the store are where the geometry says.
LEMMA ContentKept ==
  ASSUME UNCHANGED <<quanta, geometry>>
  PROVE  Content' = Content
BY DEF Content, geometry, Geometry, Cell, Item, Rest, SPos, QPos, Itemsize,
   ByteAt

LEMMA EmptyContent ==
  ASSUME DOMAIN quanta = {}
  PROVE  Content = [p \in 0 .. MaxPos |-> Unwritten]
BY DEF Content

\* A step that answers nothing and moves no byte is none of the store's.
LEMMA RequestMoves ==
  ASSUME TypeOK, NEW t \in Tasks, NEW c, Becomes(t, c)
  PROVE  /\ Request[t] = AskedBy(call[t])
         /\ Request' = [Request EXCEPT ![t] = AskedBy(c)]
         /\ AskedBy(c) = AskedBy(call[t]) => Request' = Request
<1>1. call'[t] = c /\ \A u \in Tasks \ {t} : call'[u] = call[u]
  BY Moves
<1>2. Request = [u \in Tasks |-> AskedBy(call[u])]
  BY DEF Request
<1>3. Request' = [u \in Tasks |-> AskedBy(call'[u])]
  BY DEF Request, AskedBy
<1> QED BY <1>1, <1>2, <1>3

StoreStepOrNone == [Abstract!StoreNext]_<<Content, size, Request>>

\* Steps outside the critical section, and the death of a task in it: calls
\* are invoked, interrupted and return.
LEMMA StoreOutside ==
  ASSUME TypeOK, Within, Unanswered,
         \/ \E t \in Tasks, f \in Files, m \in {"rdonly", "wronly", "rdwr"} :
              Open(t, f, m)
         \/ \E t \in Tasks, op \in {"read", "write"}, f \in Files :
              LoadGeometry(t, op, f)
         \/ \E t \in Tasks, f \in Files, whence \in {"set", "cur", "end"},
                off \in Offsets : Llseek(t, f, whence, off)
         \/ \E t \in Tasks : \/ LoadGeometry2(t) \/ Acquire(t) \/ Interrupted(t)
                               \/ Oops(t) \/ Return(t)
         \/ \E f \in Files : Release(f)
         \/ UNCHANGED devVars
  PROVE  StoreStepOrNone
<1>t. \A t \in Tasks : call[t] \in CallType /\ InFlight(call[t])
  BY DEF TypeOK, Unanswered
<1>n. NoCall = [pc |-> "idle", op |-> "none", file |-> NoFile, quantum |-> 0,
                qset |-> 0, pos |-> 0, val |-> 0, buf |-> <<>>]
  BY DEF NoCall
<1>q. Abstract!NoReq = [st |-> "idle", op |-> "none", pos |-> 0, val |-> 0,
                        buf |-> <<>>]
  BY DEF Abstract!NoReq
<1>k. ASSUME UNCHANGED <<storage, geometry, size, call>> PROVE StoreStepOrNone
  <2>1. Request' = Request
    BY <1>k DEF Request, AskedBy
  <2> QED BY <1>k, <2>1, ContentKept DEF storage, StoreStepOrNone
<1>s. ASSUME NEW t \in Tasks, NEW c, Becomes(t, c),
             AskedBy(c) = AskedBy(call[t]), UNCHANGED <<storage, geometry, size>>
      PROVE  StoreStepOrNone
  BY <1>s, RequestMoves, ContentKept DEF storage, StoreStepOrNone
<1>i. ASSUME NEW t \in Tasks, NEW c, Becomes(t, c), call[t].pc = "idle",
             NEW op \in {"read", "write", "open"}, NEW p \in 0 .. MaxPos,
             AskedBy(c) = [st |-> "busy", op |-> op, pos |-> p, val |-> 0,
                           buf |-> <<>>],
             UNCHANGED <<storage, geometry, size>>
      PROVE  StoreStepOrNone
  <2>1. /\ Request[t] = AskedBy(call[t])
        /\ Request' = [Request EXCEPT ![t] = AskedBy(c)]
    BY <1>i, RequestMoves
  <2>2. Request[t].st = "idle"
    BY <1>i, <2>1 DEF AskedBy
  <2>3. Request' = [Request EXCEPT ![t] = [Abstract!NoReq EXCEPT !.st = "busy",
                                                       !.op = op, !.pos = p]]
    <3>1. [Abstract!NoReq EXCEPT !.st = "busy", !.op = op, !.pos = p]
            = [st |-> "busy", op |-> op, pos |-> p, val |-> 0, buf |-> <<>>]
      <4> DEFINE r1 == [Abstract!NoReq EXCEPT !.st = "busy"]
                 r2 == [r1 EXCEPT !.op = op]
                 r3 == [r2 EXCEPT !.pos = p]
      <4>1. r1 = [st |-> "busy", op |-> "none", pos |-> 0, val |-> 0, buf |-> <<>>]
        BY <1>q
      <4> HIDE DEF r1
      <4>2. r2 = [st |-> "busy", op |-> op, pos |-> 0, val |-> 0, buf |-> <<>>]
        BY <4>1
      <4> HIDE DEF r2
      <4>3. r3 = [st |-> "busy", op |-> op, pos |-> p, val |-> 0, buf |-> <<>>]
        BY <4>2
      <4>4. r3 = [Abstract!NoReq EXCEPT !.st = "busy", !.op = op, !.pos = p]
        BY Zenon DEF r1, r2
      <4> QED BY <4>3, <4>4
    <3> QED BY <2>1, <3>1, <1>i
  <2>4. Content' = Content /\ size' = size
    BY <1>i, ContentKept DEF storage
  <2>5. Abstract!Invoke(t)
    BY <2>2, <2>3, <2>4 DEF Abstract!Invoke, Abstract!Positions
  <2> QED BY <2>5 DEF StoreStepOrNone, Abstract!StoreNext
<1>1. ASSUME NEW t \in Tasks, NEW f \in Files, NEW m, Open(t, f, m)
      PROVE  StoreStepOrNone
  <2>1. CASE m = "wronly"
    <3> DEFINE c == [NoCall EXCEPT !.pc = "down", !.op = "open", !.file = f]
    <3>1. AskedBy(c) = [st |-> "busy", op |-> "open", pos |-> 0, val |-> 0,
                        buf |-> <<>>]
      BY <1>n DEF AskedBy
    <3>2. Becomes(t, c) /\ call[t].pc = "idle" /\ UNCHANGED <<storage, geometry, size>>
      BY <1>1, <2>1 DEF Open, Free
    <3>3. 0 \in 0 .. MaxPos
      BY DeviceConstants
    <3> HIDE DEF c
    <3> QED BY <3>1, <3>2, <3>3, <1>i
  <2>2. CASE m # "wronly"
    BY <1>1, <1>k, <2>2 DEF Open
  <2> QED BY <2>1, <2>2
<1>2. ASSUME NEW t \in Tasks, NEW f \in Files, NEW op \in {"read", "write"},
             LoadGeometry(t, op, f)
      PROVE  StoreStepOrNone
  <2> DEFINE c == [NoCall EXCEPT !.pc = "qset", !.op = op, !.file = f,
                                 !.quantum = quantum, !.pos = file[f].pos]
             p == file[f].pos
  <2>1. AskedBy(c) = [st |-> "busy", op |-> op, pos |-> p, val |-> 0, buf |-> <<>>]
    BY <1>n DEF AskedBy
  <2>2. Becomes(t, c) /\ call[t].pc = "idle" /\ UNCHANGED <<storage, geometry, size>>
    BY <1>2 DEF LoadGeometry, Free
  <2>3. p \in 0 .. MaxPos
    <3>1. p \in Nat /\ p <= MaxPos /\ MaxPos \in Nat
      BY DeviceConstants DEF TypeOK, Within
    <3> QED BY <3>1
  <2> HIDE DEF c, p
  <2> QED BY <2>1, <2>2, <2>3, <1>i
<1>3. ASSUME NEW t \in Tasks, NEW f \in Files, NEW whence, NEW off,
             Llseek(t, f, whence, off)
      PROVE  StoreStepOrNone
  <2>1. PICK v, p : Becomes(t, [NoCall EXCEPT !.pc = "ret", !.op = "llseek",
                                              !.file = f, !.val = v, !.pos = p])
    BY <1>3 DEF Llseek
  <2>2. AskedBy([NoCall EXCEPT !.pc = "ret", !.op = "llseek", !.file = f,
                               !.val = v, !.pos = p]) = AskedBy(call[t])
    <3>1. call[t].pc = "idle"
      BY <1>3 DEF Llseek, Free
    <3> QED BY <3>1, <1>n DEF AskedBy
  <2> QED BY <1>3, <2>1, <2>2, <1>s DEF Llseek
<1>4. ASSUME NEW t \in Tasks, LoadGeometry2(t) PROVE StoreStepOrNone
  <2>1. AskedBy([call[t] EXCEPT !.pc = "down", !.qset = qset]) = AskedBy(call[t])
    BY <1>4, <1>t DEF AskedBy, CallType, LoadGeometry2
  <2> QED BY <1>4, <2>1, <1>s DEF LoadGeometry2
<1>5. ASSUME NEW t \in Tasks, Acquire(t) PROVE StoreStepOrNone
  <2>1. AskedBy([call[t] EXCEPT !.pc = "body"]) = AskedBy(call[t])
    BY <1>5, <1>t DEF AskedBy, CallType, Acquire
  <2> QED BY <1>5, <2>1, <1>s DEF Acquire
<1>6. ASSUME NEW t \in Tasks, Interrupted(t) PROVE StoreStepOrNone
  <2> DEFINE c == call[t]
             d == [c EXCEPT !.pc = "ret", !.val = -ERESTARTSYS]
  <2>1. c.pc = "down" /\ c.op # "llseek" /\ c.buf = <<>> /\ c.pos \in Nat
    BY <1>6, <1>t, CallLocals DEF InFlight, Interrupted
  <2>2. call'[t] = d /\ \A u \in Tasks \ {t} : call'[u] = call[u]
    BY <1>6, Moves DEF Interrupted
  <2>3. d.pc = "ret" /\ d.op = c.op /\ d.val = -512 /\ d.buf = <<>> /\ d.pos = c.pos + 0
    BY <2>1, <1>t DEF CallType, ERESTARTSYS
  <2> HIDE DEF d
  <2>4. Abstract!Answer(t, -512, 0, <<>>)
    BY <2>1, <2>2, <2>3, ResultAnswers
  <2>5. Request[t].st = "busy"
    BY <2>1 DEF Request, AskedBy
  <2>6. Content' = Content /\ size' = size
    BY <1>6, ContentKept DEF Interrupted, storage
  <2>7. Abstract!Interrupt(t)
    BY <2>4, <2>5, <2>6 DEF Abstract!Interrupt, Abstract!Fail,
       Abstract!ERESTARTSYS
  <2> QED BY <2>7 DEF StoreStepOrNone, Abstract!StoreNext
<1>7. ASSUME NEW t \in Tasks, Oops(t) PROVE StoreStepOrNone
  <2>1. AskedBy([call[t] EXCEPT !.pc = "dead"]) = AskedBy(call[t])
    BY <1>7, <1>t DEF AskedBy, CallType, Oops
  <2> QED BY <1>7, <2>1, <1>s DEF Oops
<1>8. ASSUME NEW t \in Tasks, Return(t) PROVE StoreStepOrNone
  <2>1. /\ Becomes(t, NoCall) /\ call[t].pc = "ret"
        /\ UNCHANGED <<storage, geometry, size>>
    BY <1>8 DEF Return
  <2>2. AskedBy(NoCall) = Abstract!NoReq
    BY <1>n, <1>q DEF AskedBy
  <2>3. CASE call[t].op = "llseek"
    <3>1. AskedBy(NoCall) = AskedBy(call[t])
      BY <2>2, <2>3, <1>q DEF AskedBy
    <3> QED BY <2>1, <3>1, <1>s
  <2>4. CASE call[t].op # "llseek"
    <3>1. /\ Request[t] = AskedBy(call[t])
          /\ Request' = [Request EXCEPT ![t] = Abstract!NoReq]
      BY <2>1, <2>2, RequestMoves
    <3>2. Request[t].st = "ret"
      BY <3>1, <2>1, <2>4 DEF AskedBy
    <3>3. Content' = Content /\ size' = size
      BY <2>1, ContentKept DEF storage
    <3>4. Abstract!Return(t)
      BY <3>1, <3>2, <3>3 DEF Abstract!Return
    <3> QED BY <3>4 DEF StoreStepOrNone, Abstract!StoreNext
  <2> QED BY <2>3, <2>4
<1>9. ASSUME NEW f \in Files, Release(f) PROVE StoreStepOrNone
  BY <1>9, <1>k DEF Release
<1>10. ASSUME UNCHANGED devVars PROVE StoreStepOrNone
  BY <1>10, <1>k DEF devVars
<1> QED
  BY <1>1, <1>2, <1>3, <1>4, <1>5, <1>6, <1>7, <1>8, <1>9, <1>10

\* scull_trim empties the store with its first step; the second shows nowhere.
LEMMA StoreTrim ==
  ASSUME TypeOK, Unanswered, TrimEmpty, NEW t \in Tasks, TrimFree(t) \/ TrimQset(t)
  PROVE  StoreStepOrNone
<1> DEFINE c == call[t]
<1>t. c \in CallType /\ InFlight(c) /\ c.pos \in Nat
  BY CallLocals DEF Unanswered
<1>1. CASE TrimFree(t)
  <2> DEFINE d == [c EXCEPT !.pc = "trim"]
  <2>1. c.pc = "body" /\ c.op = "open" /\ c.val = 0 /\ c.buf = <<>>
    BY <1>1, <1>t DEF TrimFree, InSection, InFlight
  <2>2. call'[t] = d /\ \A u \in Tasks \ {t} : call'[u] = call[u]
    BY <1>1, Moves DEF TrimFree
  <2>3. /\ d.pc = "trim" /\ d.op = c.op /\ d.val = 0 /\ d.buf = <<>>
        /\ d.pos = c.pos + 0
    BY <2>1, <1>t DEF CallType
  <2> HIDE DEF d
  <2>4. Abstract!Answer(t, 0, 0, <<>>)
    BY <2>1, <2>2, <2>3, ResultAnswers
  <2>5. Abstract!Busy(t, "open")
    BY <2>1 DEF Request, AskedBy, Abstract!Busy
  <2>6. DOMAIN quanta' = {} /\ size' = 0
    BY <1>1 DEF TrimFree
  <2>7. Content' = [p \in 0 .. MaxPos |-> Unwritten]
    BY <2>6 DEF Content
  <2>8. Abstract!Truncate(t)
    BY <2>4, <2>5, <2>6, <2>7 DEF Abstract!Truncate, Abstract!Positions
  <2> QED BY <2>8 DEF StoreStepOrNone, Abstract!StoreNext
<1>2. CASE TrimQset(t)
  <2> DEFINE d == [c EXCEPT !.pc = "ret", !.val = 0, !.buf = <<>>, !.pos = c.pos + 0]
  <2>1. c.pc = "trim" /\ c.op = "open" /\ c.val = 0 /\ c.buf = <<>>
    BY <1>2, <1>t DEF TrimQset, InFlight
  <2>2. /\ call'[t].pc = "ret" /\ call'[t].op = c.op /\ call'[t].val = 0
        /\ call'[t].buf = <<>> /\ call'[t].pos = c.pos + 0
    BY <1>2, FinishFields DEF TrimQset
  <2>3. AskedBy(call'[t]) = AskedBy(c)
    BY <2>1, <2>2, <1>t DEF AskedBy
  <2>4. \A u \in Tasks \ {t} : call'[u] = call[u]
    BY <1>2, FinishFields DEF TrimQset
  <2>5. Request' = Request
    <3>1. \A u \in Tasks : AskedBy(call'[u]) = AskedBy(call[u])
      BY <2>3, <2>4
    <3>2. Request' = [u \in Tasks |-> AskedBy(call'[u])]
      BY DEF Request, AskedBy
    <3> QED BY <3>1, <3>2 DEF Request
  <2>6. DOMAIN quanta = {} /\ quanta' = quanta /\ size' = size
    BY <1>2, <2>1 DEF TrimEmpty, TrimQset, storage
  <2>7. Content' = Content
    <3>1. Content' = [p \in 0 .. MaxPos |-> Unwritten]
      BY <2>6 DEF Content
    <3> QED BY <3>1, <2>6, EmptyContent
  <2> QED BY <2>5, <2>6, <2>7 DEF StoreStepOrNone
<1> QED BY <1>1, <1>2

\* A position before the end of the file lies in an item of the list.
LEMMA SizeReached ==
  ASSUME TypeOK, SizeBacked, NEW p \in Nat, p < size, Itemsize(Geometry) # 0
  PROVE  Item(Geometry, p) < items
<1> DEFINE n == Itemsize(Geometry)
           k == Item(Geometry, p)
<1>1. /\ Geometry.quantum \in Nat /\ Geometry.qset \in Nat
      /\ size \in Nat /\ items \in Nat /\ n \in Nat
  BY GeometryType DEF TypeOK, Geometry
<1>2. /\ k \in Nat /\ n * k <= p
  <2>1. /\ k \in Nat
        /\ \E r \in Nat : p = n * k + r
    <3>1. PICK r : /\ r = Geometry.quantum * SPos(Geometry, p) + QPos(Geometry, p)
                   /\ p = n * k + r /\ k \in Nat
                   /\ SPos(Geometry, p) \in Nat /\ QPos(Geometry, p) \in Nat
      BY <1>1, Coordinates
    <3>2. r \in Nat
      BY <3>1, <1>1, ProductType
    <3> QED BY <3>1, <3>2
  <2>2. n * k \in Nat
    BY <2>1, <1>1
  <2> HIDE DEF n, k
  <2> QED BY <2>1, <2>2
<1>3. size <= items * n
  BY DEF SizeBacked
<1> HIDE DEF n, k
<1> SUFFICES ASSUME ~(k < items) PROVE FALSE
  BY DEF k
<1>4. items * n <= k * n
  BY <1>1, <1>2, MulMono
<1>5. k * n = n * k /\ items * n \in Nat /\ n * k \in Nat
  BY <1>1, <1>2
<1> QED BY <1>1, <1>2, <1>3, <1>4, <1>5

\* What the history says of a section that leaves it without a race.
LEMMA UnracedSection ==
  ASSUME TypeOK, SoundUnlessRaced, NEW c, NEW n, Note(c, Overruns(c, n)), ~hist'.raced
  PROVE  ~Stale(c) /\ LayoutCurrent /\ SizeBacked /\ ~hist.raced
<1>1. Overruns(c, n) \in BOOLEAN
  BY DEF Overruns
<1>2. hist'.raced = (hist.raced \/ Stale(c))
  BY <1>1, NoteMeaning
<1> QED BY <1>2 DEF SoundUnlessRaced

\* A read of a device whose fields are true finds its item, if there is
\* anything to read, and so adds none to the list.
LEMMA ReadFindsItem ==
  ASSUME TypeOK, SizeBacked, NEW t \in Tasks, ~Stale(call[t]),
         ReadHole(t) \/ ReadBytes(t)
  PROVE  /\ Itemsize(Geometry) # 0 /\ call[t].pos < size
         /\ Item(call[t], call[t].pos) < items
         /\ items' = items
<1> DEFINE c == call[t]
<1>1. /\ c.pos < size /\ Itemsize(c) # 0
      /\ items' \in Follow(Item(c, c.pos))
  BY DEF ReadHole, ReadBytes
<1>2. Itemsize(Geometry) # 0
  BY <1>1, SameGeometry
<1>3. c.pos \in Nat
  BY CallLocals
<1>4. Item(Geometry, c.pos) < items
  BY <1>1, <1>2, <1>3, SizeReached
<1>5. Item(c, c.pos) < items
  BY <1>4, SameGeometry
<1> QED BY <1>1, <1>2, <1>5 DEF Follow

\* Where scull_read finds a byte, the store has it.
LEMMA ContentAt ==
  ASSUME TypeOK, NEW p \in 0 .. MaxPos, Itemsize(Geometry) # 0
  PROVE  Content[p] = IF Cell(Geometry, p) \in DOMAIN quanta
                      THEN ByteAt(quanta[Cell(Geometry, p)], QPos(Geometry, p))
                      ELSE Unwritten
BY DEF Content

LEMMA StoreRead ==
  ASSUME TypeOK, Within, Unanswered, SoundUnlessRaced, ~hist'.raced,
         NEW t \in Tasks, ReadPastEnd(t) \/ ReadHole(t) \/ ReadBytes(t)
  PROVE  StoreStepOrNone
<1> DEFINE c == call[t]
           p == c.pos
<1>t. /\ c \in CallType /\ InFlight(c) /\ p \in Nat /\ size \in Nat
      /\ c.quantum \in Nat /\ c.qset \in Nat
      /\ MaxPos \in Nat /\ size <= MaxPos /\ p <= MaxPos
      /\ Geometry.quantum \in Nat /\ Geometry.qset \in Nat
  BY CallLocals, DeviceConstants DEF Unanswered, TypeOK, Within, Geometry
<1>b. c.pc = "body" /\ c.op = "read"
  BY DEF ReadPastEnd, ReadHole, ReadBytes, InSection
<1>r. Abstract!Busy(t, "read") /\ Request[t].pos = p
  BY <1>b DEF Request, AskedBy, Abstract!Busy
<1>k. Content' = Content /\ size' = size
  <2>1. UNCHANGED <<quanta, geometry, size>>
    BY DEF ReadPastEnd, ReadHole, ReadBytes, storage
  <2> QED BY <2>1, ContentKept
<1>d. ASSUME NEW count \in Counts, NEW n \in 0 .. count,
             n = 0 => count = 0 \/ p >= size \/ Content[p] = Unwritten,
             n > 0 => p + n <= size,
             Abstract!Answer(t, n, n, [i \in 1 .. n |-> Content[p + i - 1]])
      PROVE  StoreStepOrNone
  <2>1. Abstract!Read(t)
    BY <1>d, <1>r, <1>k DEF Abstract!Read
  <2> QED BY <2>1 DEF StoreStepOrNone, Abstract!StoreNext
<1>z. ASSUME p >= size \/ Content[p] = Unwritten, Finish(t, 0, 0, <<>>)
      PROVE  StoreStepOrNone
  <2>1. PICK count : count \in Counts /\ count \in Nat
    BY DeviceConstants
  <2>2. [i \in 1 .. 0 |-> Content[p + i - 1]] = <<>>
    OBVIOUS
  <2>3. Abstract!Answer(t, 0, 0, <<>>)
    BY <1>z, <1>b, FinishAnswers
  <2>4. 0 \in 0 .. count /\ count \in Counts
    BY <2>1
  <2>5. Abstract!Answer(t, 0, 0, [i \in 1 .. 0 |-> Content[p + i - 1]])
    BY <2>2, <2>3
  <2>6. (0 = 0 => count = 0 \/ p >= size \/ Content[p] = Unwritten)
        /\ (0 > 0 => p + 0 <= size)
    BY <1>z
  <2> HIDE DEF p
  <2> QED BY <2>4, <2>5, <2>6, <1>d, Zenon
<1>1. CASE ReadPastEnd(t)
  BY <1>1, <1>z DEF ReadPastEnd
<1>2. CASE ReadHole(t)
  <2>1. /\ Finish(t, 0, 0, <<>>) /\ Note(c, Overruns(c, 0))
        /\ Cell(c, p) \notin DOMAIN quanta \/ items' <= Item(c, p)
    BY <1>2 DEF ReadHole
  <2>2. ~Stale(c) /\ SizeBacked
    BY <2>1, UnracedSection
  <2>3. /\ Itemsize(Geometry) # 0 /\ Item(c, p) < items /\ items' = items
        /\ items \in Nat /\ Item(c, p) \in Nat
    BY <1>2, <1>t, <2>2, ReadFindsItem, PlaceOfPosition DEF TypeOK, ReadHole
  <2>4. Cell(c, p) \notin DOMAIN quanta
    <3> DEFINE k == Item(c, p)
    <3>1. k < items /\ items' = items /\ items \in Nat /\ k \in Nat
      BY <2>3
    <3> HIDE DEF k
    <3>2. ~(items' <= k)
      BY <3>1
    <3> QED BY <2>1, <3>2 DEF k
  <2>5. Content[p] = Unwritten
    <3>1. p \in 0 .. MaxPos
      BY <1>t
    <3>2. Cell(Geometry, p) = Cell(c, p)
      BY <2>2, SameGeometry
    <3> HIDE DEF p
    <3> QED BY <2>3, <2>4, <3>1, <3>2, ContentAt
  <2> QED BY <2>1, <2>5, <1>z
<1>3. CASE ReadBytes(t)
  <2>1. PICK count \in Counts, left \in Nat, n \in Nat :
           /\ left <= count /\ (left = 0 => count = 0)
           /\ n = Span(c, p, left)
           /\ n <= left /\ p + n <= size
           /\ Note(c, Overruns(c, n))
           /\ \/ Finish(t, n, n, [i \in 1 .. n |->
                   ByteAt(quanta[Cell(c, p)], QPos(c, p) + i - 1)])
              \/ Finish(t, -EFAULT, 0, <<>>)
    BY <1>3, ReadSteps
  <2>2. ~Stale(c) /\ SizeBacked
    BY <2>1, UnracedSection
  <2>3. Itemsize(Geometry) # 0 /\ Itemsize(c) # 0 /\ Cell(c, p) \in DOMAIN quanta
    BY <1>3, <2>2, ReadFindsItem DEF ReadBytes
  <2>4. CASE Finish(t, -EFAULT, 0, <<>>)
    <3>1. Abstract!Answer(t, -14, 0, <<>>)
      <4>1. -EFAULT = -14
        BY DEF EFAULT
      <4> QED BY <2>4, <4>1, <1>b, FinishAnswers
    <3>2. Abstract!Read(t)
      BY <3>1, <1>r, <1>k DEF Abstract!Read, Abstract!Fail, Abstract!EFAULT
    <3> QED BY <3>2 DEF StoreStepOrNone, Abstract!StoreNext
  <2>5. CASE Finish(t, n, n, [i \in 1 .. n |->
                   ByteAt(quanta[Cell(c, p)], QPos(c, p) + i - 1)])
    <3>1. QPos(c, p) \in Nat /\ QPos(c, p) + n <= c.quantum
      BY <2>1, <2>3, <1>t, SpanBound, PlaceOfPosition
    <3>2. \A i \in 1 .. n : Content[p + i - 1]
                              = ByteAt(quanta[Cell(c, p)], QPos(c, p) + i - 1)
      <4> TAKE i \in 1 .. n
      <4>1. PICK j \in Nat : j = i - 1 /\ j < n
        BY <2>1
      <4>2. QPos(c, p) + j < c.quantum
        BY <3>1, <4>1, <1>t
      <4>3. Cell(c, p + j) = Cell(c, p) /\ QPos(c, p + j) = QPos(c, p) + j
        BY <4>2, <1>t, <2>3, NextInCell
      <4>4. /\ Cell(Geometry, p + j) = Cell(c, p)
            /\ QPos(Geometry, p + j) = QPos(c, p) + j
        BY <4>3, <2>2, SameGeometry
      <4>5. p + j \in 0 .. MaxPos
        BY <1>t, <2>1, <4>1
      <4>6. Content[p + j] = ByteAt(quanta[Cell(c, p)], QPos(c, p) + j)
        <5> DEFINE x == p + j
        <5> HIDE DEF x
        <5>1. Content[x] = ByteAt(quanta[Cell(Geometry, x)], QPos(Geometry, x))
          BY <4>4, <4>5, <2>3, ContentAt DEF x
        <5> QED BY <5>1, <4>4 DEF x
      <4>7. p + i - 1 = p + j /\ QPos(c, p) + i - 1 = QPos(c, p) + j
        BY <4>1, <1>t, <3>1
      <4> QED BY <4>6, <4>7
    <3>3. [i \in 1 .. n |-> ByteAt(quanta[Cell(c, p)], QPos(c, p) + i - 1)]
            = [i \in 1 .. n |-> Content[p + i - 1]]
      BY <3>2
    <3>4. Abstract!Answer(t, n, n, [i \in 1 .. n |-> Content[p + i - 1]])
      BY <2>5, <3>3, <1>b, FinishAnswers
    <3>5. n \in 0 .. count /\ (n = 0 => count = 0)
      <4>1. count \in Nat
        BY DeviceConstants
      <4>2. n = 0 => left = 0
        BY <2>1, <2>3, <1>t, SpanMoves
      <4> QED BY <4>1, <4>2, <2>1
    <3> QED BY <3>4, <3>5, <2>1, <1>d
  <2> QED BY <2>1, <2>4, <2>5
<1> QED BY <1>1, <1>2, <1>3

\* The byte at x after a write at p of n bytes b, of which m arrived.
Written(x, p, n, m, b) ==
  IF x \in p .. p + m - 1 THEN b
  ELSE IF x \in p + m .. p + n - 1 THEN Zero ELSE Content[x]

\* copy_from_user into a quantum moves the bytes of the positions written and
\* no others: m of them arrived, up to the n-th the rest is padded.
LEMMA WriteContent ==
  ASSUME TypeOK, LayoutCurrent, NEW t \in Tasks, ~Stale(call[t]),
         Itemsize(call[t]) # 0, UNCHANGED geometry,
         NEW n \in Nat, NEW m \in 0 .. n, NEW b,
         QPos(call[t], call[t].pos) + n <= call[t].quantum,
         quanta' = Put(quanta, Cell(call[t], call[t].pos),
                       CopyIn(QuantumFor(call[t]), QPos(call[t], call[t].pos),
                              n, m, b))
  PROVE  \A x \in 0 .. MaxPos : Content'[x] = Written(x, call[t].pos, n, m, b)
<1> DEFINE c == call[t]
           p == c.pos
           cell == Cell(c, p)
           at == QPos(c, p)
           old == QuantumFor(c)
           new == CopyIn(old, at, n, m, b)
<1>1. /\ p \in Nat /\ c.quantum \in Nat /\ c.qset \in Nat
      /\ c.quantum = quantum /\ c.qset = qset /\ MaxPos \in Nat
  BY CallLocals, DeviceConstants DEF Stale
<1>2. at \in Nat /\ at + n <= c.quantum
  BY <1>1, PlaceOfPosition
<1>3. DOMAIN old = 0 .. c.quantum - 1
  BY <1>1 DEF LayoutCurrent, QuantumFor
<1>4. /\ DOMAIN new = 0 .. c.quantum - 1
      /\ \A o \in 0 .. c.quantum - 1 :
           new[o] = IF o \in at .. at + m - 1 THEN b
                    ELSE IF o \in at + m .. at + n - 1 THEN Zero ELSE old[o]
  <2>1. DOMAIN new = 0 .. c.quantum - 1
    BY <1>3 DEF CopyIn
  <2>2. ASSUME NEW o \in 0 .. c.quantum - 1
        PROVE  new[o] = CASE o \in at .. at + m - 1 -> b
                          [] o \in at + m .. at + n - 1 -> Zero
                          [] OTHER -> old[o]
    BY <1>3, Zenon DEF CopyIn
  <2> HIDE DEF new, old, at
  <2>3. ASSUME NEW o \in 0 .. c.quantum - 1
        PROVE  ~(o \in at .. at + m - 1 /\ o \in at + m .. at + n - 1)
    BY <1>2
  <2> QED BY <2>1, <2>2, <2>3
<1>5. /\ DOMAIN quanta' = DOMAIN quanta \cup {cell}
      /\ quanta'[cell] = new
      /\ \A y \in DOMAIN quanta : y # cell => quanta'[y] = quanta[y]
  BY DEF Put
<1>6. \A x \in 0 .. MaxPos :
        /\ Content[x] = IF Cell(c, x) \in DOMAIN quanta
                        THEN ByteAt(quanta[Cell(c, x)], QPos(c, x)) ELSE Unwritten
        /\ Content'[x] = IF Cell(c, x) \in DOMAIN quanta'
                         THEN ByteAt(quanta'[Cell(c, x)], QPos(c, x)) ELSE Unwritten
  <2>1. Geometry' = Geometry
    BY DEF Geometry, geometry
  <2>2. Itemsize(Geometry) # 0
    BY SameGeometry
  <2>3. Content' = [x \in 0 .. MaxPos |->
           IF Itemsize(Geometry) # 0 /\ Cell(Geometry, x) \in DOMAIN quanta'
           THEN ByteAt(quanta'[Cell(Geometry, x)], QPos(Geometry, x))
           ELSE Unwritten]
    BY <2>1 DEF Content, ByteAt
  <2> TAKE x \in 0 .. MaxPos
  <2>4. Cell(Geometry, x) = Cell(c, x) /\ QPos(Geometry, x) = QPos(c, x)
    BY SameGeometry
  <2> QED BY <2>2, <2>3, <2>4 DEF Content
<1>7. old = IF cell \in DOMAIN quanta THEN quanta[cell]
            ELSE [i \in 0 .. c.quantum - 1 |-> Unwritten]
  BY DEF QuantumFor
<1> HIDE DEF new, old
<1>8. ASSUME NEW x \in 0 .. MaxPos, Cell(c, x) # cell
      PROVE  Content'[x] = Content[x] /\ x \notin p .. p + n - 1
  <2>1. Content'[x] = Content[x]
    BY <1>5, <1>6, <1>8
  <2>2. ASSUME x \in p .. p + n - 1 PROVE FALSE
    <3>1. PICK i \in Nat : x = p + i /\ i < n
      <4>1. x - p \in Nat /\ x = p + (x - p) /\ x - p < n
        BY <2>2, <1>1
      <4> QED BY <4>1
    <3>2. at + i < c.quantum
      BY <3>1, <1>1, <1>2
    <3> QED BY <3>1, <3>2, <1>1, <1>8, NextInCell
  <2> QED BY <2>1, <2>2
<1>9. ASSUME NEW x \in 0 .. MaxPos, Cell(c, x) = cell
      PROVE  Content'[x] = Written(x, p, n, m, b)
  <2> DEFINE o == QPos(c, x)
  <2>1. x \in Nat
    BY <1>1
  <2>2. o \in Nat /\ o < c.quantum
    BY <1>1, <2>1, PlaceOfPosition
  <2>3. x - p = o - at
    BY <1>1, <1>9, <2>1, CellDistance
  <2>4. o \in 0 .. c.quantum - 1
    BY <1>1, <2>2
  <2>5. Content'[x] = new[o]
    BY <1>4, <1>5, <1>6, <1>9, <2>4 DEF ByteAt
  <2>6. Content[x] = old[o]
    BY <1>3, <1>6, <1>7, <1>9, <2>4 DEF ByteAt
  <2> HIDE DEF o, at, p
  <2>7. /\ x \in p .. p + m - 1 <=> o \in at .. at + m - 1
        /\ x \in p + m .. p + n - 1 <=> o \in at + m .. at + n - 1
    BY <1>1, <1>2, <2>1, <2>2, <2>3
  <2> QED BY <1>4, <2>4, <2>5, <2>6, <2>7 DEF Written
<1> QED
  <2> TAKE x \in 0 .. MaxPos
  <2>1. CASE Cell(c, x) = cell
    BY <2>1, <1>9
  <2>2. CASE Cell(c, x) # cell
    <3>1. Content'[x] = Content[x] /\ x \notin p .. p + n - 1
      BY <2>2, <1>8
    <3>2. x \notin p .. p + m - 1 /\ x \notin p + m .. p + n - 1
      <4> HIDE DEF p
      <4> QED BY <3>1, <1>1
    <3> QED BY <3>1, <3>2 DEF Written
  <2> QED BY <2>1, <2>2

LEMMA StoreWrite ==
  ASSUME TypeOK, Unanswered, SoundUnlessRaced, ~hist'.raced,
         NEW t \in Tasks, WriteNoMem(t) \/ WriteBytes(t)
  PROVE  StoreStepOrNone
<1> DEFINE c == call[t]
           p == c.pos
<1>t. /\ p \in Nat /\ size \in Nat /\ MaxPos \in Nat
      /\ c.quantum \in Nat /\ c.qset \in Nat
  BY CallLocals, DeviceConstants DEF TypeOK
<1>b. c.pc = "body" /\ c.op = "write" /\ Itemsize(c) # 0
  BY DEF WriteNoMem, WriteBytes, InSection
<1>r. Abstract!Busy(t, "write") /\ Request[t].pos = p
  BY <1>b DEF Request, AskedBy, Abstract!Busy
<1>1. CASE WriteNoMem(t)
  <2>1. UNCHANGED <<quanta, geometry, size>> /\ Finish(t, -12, 0, <<>>)
    <3>1. -ENOMEM = -12
      BY DEF ENOMEM
    <3> QED BY <1>1, <3>1 DEF WriteNoMem
  <2>2. Abstract!Fail(t, Abstract!ENOMEM)
    BY <2>1, <1>b, FinishAnswers DEF Abstract!Fail, Abstract!ENOMEM
  <2>3. Content' = Content /\ size' = size
    BY <2>1, ContentKept
  <2>4. Abstract!Write(t)
    BY <1>r, <2>2, <2>3 DEF Abstract!Write
  <2> QED BY <2>4 DEF StoreStepOrNone, Abstract!StoreNext
<1>2. CASE WriteBytes(t)
  <2>1. PICK count \in Counts, b \in Bytes, n \in Nat, m \in Nat :
           /\ n = Span(c, p, count)
           /\ n <= count
           /\ Note(c, Overruns(c, n))
           /\ m \in 0 .. n
           /\ quanta' = Put(quanta, Cell(c, p),
                            CopyIn(QuantumFor(c), QPos(c, p), n, m, b))
           /\ \/ m = n /\ Grow(p + n) /\ Finish(t, n, n, <<>>)
              \/ UNCHANGED size /\ Finish(t, -EFAULT, 0, <<>>)
    BY <1>2, WriteSteps
  <2>2. ~Stale(c) /\ LayoutCurrent
    BY <2>1, UnracedSection
  <2>3. count \in Nat
    BY DeviceConstants
  <2>4. UNCHANGED geometry
    BY <1>2 DEF WriteBytes
  <2>5. QPos(c, p) + n <= c.quantum
    BY <2>1, <2>3, <1>b, <1>t, SpanBound
  <2>6. \A x \in 0 .. MaxPos : Content'[x] = Written(x, p, n, m, b)
    <3>1. quanta' = Put(quanta, Cell(c, p),
                        CopyIn(QuantumFor(c), QPos(c, p), n, m, b))
      BY <2>1
    <3>2. m \in 0 .. n /\ ~Stale(c) /\ Itemsize(c) # 0
      BY <2>1, <2>2, <1>b
    <3> QED BY <3>1, <3>2, <2>2, <2>4, <2>5, WriteContent
  <2>7. CASE m = n /\ Grow(p + n) /\ Finish(t, n, n, <<>>)
    <3>1. Content' = [x \in 0 .. MaxPos |-> IF x \in p .. p + n - 1 THEN b
                                            ELSE Content[x]]
      <4>1. \A x \in 0 .. MaxPos :
              Content'[x] = IF x \in p .. p + n - 1 THEN b ELSE Content[x]
        <5> HIDE DEF p
        <5>1. \A x : x \notin p + n .. p + n - 1
          BY <1>t, <2>1
        <5> QED BY <2>6, <2>7, <5>1 DEF Written
      <4>2. Content' = [x \in 0 .. MaxPos |-> Content'[x]]
        BY DEF Content
      <4> HIDE DEF p
      <4> QED BY <4>1, <4>2
    <3>2. size' = IF size < p + n THEN p + n ELSE size
      BY <2>7 DEF Grow
    <3>3. Abstract!Answer(t, n, n, <<>>)
      BY <2>7, <1>b, FinishAnswers
    <3>4. n = 0 => count = 0
      BY <2>1, <2>3, <1>b, <1>t, SpanMoves
    <3>5. n \in 0 .. count
      BY <2>1, <2>3
    <3>6. Abstract!Write(t)
      <4> HIDE DEF p
      <4> QED BY <3>1, <3>2, <3>3, <3>4, <3>5, <1>r
            DEF Abstract!Write, Abstract!Positions
    <3> QED BY <3>6 DEF StoreStepOrNone, Abstract!StoreNext
  <2>8. CASE UNCHANGED size /\ Finish(t, -EFAULT, 0, <<>>)
    <3>1. Abstract!Fail(t, Abstract!EFAULT)
      <4>1. -EFAULT = -14
        BY DEF EFAULT
      <4> QED BY <2>8, <4>1, <1>b, FinishAnswers DEF Abstract!Fail,
         Abstract!EFAULT
    <3>2. \A x \in (0 .. MaxPos) \ (p .. p + count - 1) : Content'[x] = Content[x]
      <4> HIDE DEF p
      <4> TAKE x \in (0 .. MaxPos) \ (p .. p + count - 1)
      <4>1. x \notin p .. p + m - 1 /\ x \notin p + m .. p + n - 1
        BY <1>t, <2>1, <2>3
      <4> QED BY <4>1, <2>6 DEF Written
    <3>3. Abstract!Write(t)
      <4> HIDE DEF p
      <4> QED BY <3>1, <3>2, <2>8, <1>r DEF Abstract!Write, Abstract!Positions
    <3> QED BY <3>3 DEF StoreStepOrNone, Abstract!StoreNext
  <2> QED BY <2>1, <2>7, <2>8
<1> QED BY <1>1, <1>2

LEMMA StoreStep ==
  ASSUME TypeOK, Within, Unanswered, TrimEmpty, SoundUnlessRaced, ~hist'.raced,
         [Next]_vars
  PROVE  StoreStepOrNone
<1>1. CASE Next
  BY <1>1, DeviceCases, StoreOutside, StoreTrim, StoreRead, StoreWrite
<1>2. CASE UNCHANGED vars
  BY <1>2, StoreOutside DEF vars
<1> QED BY <1>1, <1>2

LEMMA CallsInit == Init => TrimEmpty /\ Unanswered /\ Within
<1> SUFFICES ASSUME Init PROVE TrimEmpty /\ Unanswered /\ Within
  OBVIOUS
<1>1. \A t \in Tasks : call[t] = NoCall
  BY DEF Init, DevInit
<1>2. NoCall.pc = "idle" /\ NoCall.pos = 0
  BY DEF NoCall
<1>3. TrimEmpty /\ Unanswered
  BY <1>1, <1>2 DEF TrimEmpty, Unanswered, InFlight
<1>4. size = 0 /\ \A f \in Files : file[f].pos = 0
  BY DEF Init, DevInit
<1>5. 0 <= MaxPos
  BY DeviceConstants
<1> QED BY <1>1, <1>2, <1>3, <1>4, <1>5 DEF Within

\* Calls in flight are unanswered, positions are bounded, and the list is
\* empty while scull_trim stores the new geometry.
LEMMA CallsInvariant == Spec => [](TrimEmpty /\ Unanswered /\ Within)
<1>1. TypeOK /\ Exclusive /\ TrimEmpty /\ Unanswered /\ Within /\ [Next]_vars
        => (TrimEmpty /\ Unanswered /\ Within)'
  BY TrimEmptyStep, UnansweredStep, WithinStep
<1> QED BY <1>1, CallsInit, TypeCorrect, MutualExclusion, PTL DEF Spec

\* Whatever the constants, the tasks and their ioctl calls: until a critical
\* section of scull_read or scull_write runs with a stale geometry, each step
\* of the device is a step of the store of bytes or shows nowhere in it.
THEOREM LinearUntilRacedHolds == Spec => LinearUntilRaced
<1>1. ASSUME TypeOK, SoundUnlessRaced, TrimEmpty, Unanswered, Within, [Next]_vars
      PROVE  [~hist'.raced => [Abstract!StoreNext]_<<Content, size, Request>>]_vars
  <2>1. ASSUME ~hist'.raced
        PROVE  [Abstract!StoreNext]_<<Content, size, Request>>
    <3>1. StoreStepOrNone
      BY <1>1, <2>1, StoreStep
    <3> QED BY <3>1 DEF StoreStepOrNone
  <2> QED BY <2>1
<1> QED
  BY <1>1, TypeCorrect, SoundUnlessRacedHolds, CallsInvariant, PTL
     DEF Spec, LinearUntilRaced

-----------------------------------------------------------------------------
(***************************************************************************)
(* Where no geometry can go stale: one task, which is in one call at a     *)
(* time, or parameters that nobody may change and that start out as what   *)
(* RESET restores.                                                         *)
(***************************************************************************)
Alone == \E t : Tasks = {t}
Fixed == Admins = {} /\ LoadQuantum = SCULL_QUANTUM /\ LoadQset = SCULL_QSET
Steady == Alone \/ Fixed

\* The parameters and the device keep their defaults.
AtDefault ==
  /\ param["quantum"] = SCULL_QUANTUM /\ param["qset"] = SCULL_QSET
  /\ quantum = SCULL_QUANTUM /\ qset = SCULL_QSET

LEMMA GeometryMoves ==
  ASSUME [Next]_vars
  PROVE  \/ UNCHANGED geometry
         \/ \E t \in Tasks :
              \/ TrimFree(t) /\ quantum' = param["quantum"] /\ qset' = qset
              \/ TrimQset(t) /\ quantum' = quantum /\ qset' = param["qset"]
<1>1. CASE UNCHANGED vars
  BY <1>1 DEF vars, devVars
<1>2. CASE Next
  <2>1. ASSUME NEW t \in Tasks, NEW f \in Files,
               \/ \E m : Open(t, f, m)
               \/ \E op : LoadGeometry(t, op, f)
               \/ \E whence, off : Llseek(t, f, whence, off)
        PROVE  UNCHANGED geometry
    BY <2>1 DEF Open, LoadGeometry, Llseek
  <2>2. ASSUME NEW t \in Tasks,
               LoadGeometry2(t) \/ Acquire(t) \/ Interrupted(t) \/ Return(t)
        PROVE  UNCHANGED geometry
    BY <2>2 DEF LoadGeometry2, Acquire, Interrupted, Return
  <2>3. ASSUME NEW t \in Tasks,
               \/ ReadPastEnd(t) \/ ReadHole(t) \/ ReadBytes(t)
               \/ WriteNoMem(t) \/ WriteBytes(t) \/ Oops(t)
        PROVE  UNCHANGED geometry
    BY <2>3 DEF ReadPastEnd, ReadHole, ReadBytes, WriteNoMem, WriteBytes, Oops
  <2>4. ASSUME NEW f \in Files, Release(f) PROVE UNCHANGED geometry
    BY <2>4 DEF Release
  <2>5. ASSUME UNCHANGED devVars PROVE UNCHANGED geometry
    BY <2>5 DEF devVars
  <2>6. ASSUME NEW t \in Tasks, TrimFree(t)
        PROVE  quantum' = param["quantum"] /\ qset' = qset
    BY <2>6 DEF TrimFree
  <2>7. ASSUME NEW t \in Tasks, TrimQset(t)
        PROVE  quantum' = quantum /\ qset' = param["qset"]
    BY <2>7 DEF TrimQset
  <2> QED BY <1>2, DeviceCases, <2>1, <2>2, <2>3, <2>4, <2>5, <2>6, <2>7
<1> QED BY <1>1, <1>2

LEMMA DefaultInvariant ==
  ASSUME Fixed
  PROVE  Spec => [](AtDefault /\ IoctlTypeOK)
<1>1. Init => AtDefault
  BY DEF Init, DevInit, IoctlInit, AtDefault, Fixed
<1>2. AtDefault /\ [Next]_vars
      /\ [\A p \in Params :
            param'[p] # param[p] =>
              param'[p] = Default[p] \/ \E t \in Admins : ioc'[t] # ioc[t]]_ioctlVars
        => AtDefault'
  <2> SUFFICES ASSUME AtDefault, [Next]_vars,
                 [\A p \in Params :
                    param'[p] # param[p] =>
                      param'[p] = Default[p]
                      \/ \E t \in Admins : ioc'[t] # ioc[t]]_ioctlVars
               PROVE  AtDefault'
    OBVIOUS
  <2>1. param'["quantum"] = SCULL_QUANTUM /\ param'["qset"] = SCULL_QSET
    <3>1. "quantum" \in Params /\ "qset" \in Params
      BY DEF Params
    <3>2. Default["quantum"] = SCULL_QUANTUM /\ Default["qset"] = SCULL_QSET
      BY DEF Default
    <3> QED BY <3>1, <3>2 DEF AtDefault, Fixed, ioctlVars
  <2>2. quantum' = quantum /\ qset' = qset
    BY GeometryMoves DEF AtDefault, geometry
  <2> QED BY <2>1, <2>2 DEF AtDefault
<1> QED
  BY <1>1, <1>2, DeviceImplementsIoctl, IoctlTypeCorrect, OnlyAdminsTuneHolds,
     PTL
     DEF Spec, OnlyAdminsTune

\* A step between whose ends no geometry goes stale leaves every geometry that
\* was loaded the device's.
LEMMA FreshStep ==
  ASSUME TypeOK, Unanswered, Fresh, ~hist.raced, [Next]_vars,
         Alone \/ UNCHANGED geometry
  PROVE  Fresh' /\ ~hist'.raced
<1>t. \A t \in Tasks : call[t] \in CallType /\ Loaded(call[t]) /\ InFlight(call[t])
  BY DEF TypeOK, Fresh, Unanswered
<1>g. UNCHANGED geometry => quantum' = quantum /\ qset' = qset
  BY DEF geometry
<1>h. hist \in [raced : BOOLEAN, overrun : BOOLEAN, leak : BOOLEAN]
  BY DEF TypeOK
<1>f. ASSUME \A u \in Tasks :
               call'[u].op \in {"read", "write"} =>
                 /\ call'[u].pc \in {"qset", "down", "body"} => call'[u].quantum = quantum'
                 /\ call'[u].pc \in {"down", "body"} => call'[u].qset = qset'
      PROVE  Fresh'
  BY <1>f DEF Fresh, Loaded
<1>m. ASSUME NEW t \in Tasks, NEW c, Becomes(t, c), Loaded(c), UNCHANGED geometry
      PROVE  Fresh'
  <2>1. \A u \in Tasks : Loaded(call'[u])
    BY <1>m, <1>t, Moves
  <2> QED BY <2>1, <1>m, <1>g, <1>f DEF Loaded
<1>e. ASSUME NEW t \in Tasks, call'[t].pc = "ret" \/ call'[t].op = "open",
             \A u \in Tasks \ {t} : call'[u] = call[u]
      PROVE  Fresh'
  <2>1. CASE UNCHANGED geometry
    BY <1>e, <1>t, <2>1, <1>g, <1>f DEF Loaded
  <2>2. CASE Alone
    <3>1. \A u \in Tasks : u = t
      BY <2>2 DEF Alone
    <3> QED BY <1>e, <3>1, <1>f
  <2> QED BY <2>1, <2>2
<1>k. ASSUME UNCHANGED <<call, geometry>> PROVE Fresh'
  BY <1>k, <1>t, <1>g, <1>f DEF Loaded
<1>n. ASSUME NEW t \in Tasks, call[t].pc = "body", call[t].op \in {"read", "write"},
             NEW over \in BOOLEAN, Note(call[t], over)
      PROVE  ~hist'.raced
  <2>1. ~Stale(call[t])
    BY <1>n, <1>t DEF Stale, Loaded
  <2> QED BY <1>n, <2>1, NoteMeaning
<1>o. \A c, n : Overruns(c, n) \in BOOLEAN
  BY DEF Overruns
<1>1. CASE UNCHANGED vars
  BY <1>1, <1>k DEF vars, devVars
<1>2. CASE Next
  <2>1. ASSUME NEW t \in Tasks, NEW f \in Files, NEW m, Open(t, f, m)
        PROVE  Fresh' /\ ~hist'.raced
    <3>1. Loaded([NoCall EXCEPT !.pc = "down", !.op = "open", !.file = f])
      BY DEF NoCall, Loaded
    <3> QED BY <2>1, <3>1, <1>k, <1>m DEF Open
  <2>2. ASSUME NEW t \in Tasks, NEW f \in Files, NEW op, LoadGeometry(t, op, f)
        PROVE  Fresh' /\ ~hist'.raced
    <3>1. Loaded([NoCall EXCEPT !.pc = "qset", !.op = op, !.file = f,
                                !.quantum = quantum, !.pos = file[f].pos])
      BY DEF NoCall, Loaded
    <3> QED BY <2>2, <3>1, <1>m DEF LoadGeometry
  <2>3. ASSUME NEW t \in Tasks, NEW f \in Files, NEW whence, NEW off,
               Llseek(t, f, whence, off)
        PROVE  Fresh' /\ ~hist'.raced
    <3>1. PICK v, p : Becomes(t, [NoCall EXCEPT !.pc = "ret", !.op = "llseek",
                                                !.file = f, !.val = v, !.pos = p])
      BY <2>3 DEF Llseek
    <3>2. Loaded([NoCall EXCEPT !.pc = "ret", !.op = "llseek",
                                !.file = f, !.val = v, !.pos = p])
      BY DEF NoCall, Loaded
    <3> QED BY <2>3, <3>1, <3>2, <1>m DEF Llseek
  <2>4. ASSUME NEW t \in Tasks, LoadGeometry2(t) PROVE Fresh' /\ ~hist'.raced
    <3>1. Loaded([call[t] EXCEPT !.pc = "down", !.qset = qset])
      BY <2>4, <1>t DEF Loaded, CallType, LoadGeometry2
    <3> QED BY <2>4, <3>1, <1>m DEF LoadGeometry2
  <2>5. ASSUME NEW t \in Tasks, Acquire(t) PROVE Fresh' /\ ~hist'.raced
    <3>1. Loaded([call[t] EXCEPT !.pc = "body"])
      BY <2>5, <1>t DEF Loaded, CallType, Acquire
    <3> QED BY <2>5, <3>1, <1>m DEF Acquire
  <2>6. ASSUME NEW t \in Tasks, Interrupted(t) PROVE Fresh' /\ ~hist'.raced
    <3>1. Loaded([call[t] EXCEPT !.pc = "ret", !.val = -ERESTARTSYS])
      BY <1>t DEF Loaded, CallType
    <3> QED BY <2>6, <3>1, <1>m DEF Interrupted
  <2>7. ASSUME NEW t \in Tasks, Oops(t) PROVE Fresh' /\ ~hist'.raced
    <3>1. Loaded([call[t] EXCEPT !.pc = "dead"])
      BY <1>t DEF Loaded, CallType
    <3>2. Fresh'
      BY <2>7, <3>1, <1>m DEF Oops
    <3>3. \/ UNCHANGED hist
          \/ call[t].op \in {"read", "write"} /\ Note(call[t], TRUE)
          \/ hist' = [hist EXCEPT !.overrun = TRUE]
      BY <2>7 DEF Oops
    <3>4. ~hist'.raced
      BY <2>7, <3>3, <1>h, <1>n DEF Oops
    <3> QED BY <3>2, <3>4
  <2>8. ASSUME NEW t \in Tasks, Return(t) PROVE Fresh' /\ ~hist'.raced
    <3>1. Loaded(NoCall)
      BY DEF NoCall, Loaded
    <3> QED BY <2>8, <3>1, <1>m DEF Return
  <2>9. ASSUME NEW f \in Files, Release(f) PROVE Fresh' /\ ~hist'.raced
    BY <2>9, <1>k DEF Release
  <2>10. ASSUME UNCHANGED devVars PROVE Fresh' /\ ~hist'.raced
    BY <2>10, <1>k DEF devVars
  <2>11. ASSUME NEW t \in Tasks, TrimFree(t) PROVE Fresh' /\ ~hist'.raced
    <3>1. call'[t] = [call[t] EXCEPT !.pc = "trim"]
          /\ \A u \in Tasks \ {t} : call'[u] = call[u]
      BY <2>11, Moves DEF TrimFree
    <3>2. call'[t].op = "open"
      BY <3>1, <2>11, <1>t DEF CallType, TrimFree, InSection
    <3>3. ~hist'.raced
      BY <2>11, <1>h DEF TrimFree
    <3> QED BY <3>1, <3>2, <3>3, <1>e
  <2>12. ASSUME NEW t \in Tasks,
                \/ TrimQset(t) \/ ReadPastEnd(t) \/ ReadHole(t) \/ ReadBytes(t)
                \/ WriteNoMem(t) \/ WriteBytes(t)
         PROVE  Fresh' /\ ~hist'.raced
    <3>1. Fresh'
      BY <2>12, SectionEnds, <1>e
    <3>2. \/ UNCHANGED hist
          \/ /\ call[t].pc = "body" /\ call[t].op \in {"read", "write"}
             /\ \E n : Note(call[t], Overruns(call[t], n))
      <4>1. CASE TrimQset(t) \/ ReadPastEnd(t)
        BY <4>1 DEF TrimQset, ReadPastEnd
      <4>2. CASE ReadHole(t) \/ WriteNoMem(t)
        BY <4>2 DEF ReadHole, WriteNoMem, InSection
      <4>3. CASE ReadBytes(t)
        <5>1. \E n : Note(call[t], Overruns(call[t], n))
          BY <4>3, ReadSteps
        <5> QED BY <4>3, <5>1 DEF ReadBytes, InSection
      <4>4. CASE WriteBytes(t)
        <5>1. \E n : Note(call[t], Overruns(call[t], n))
          BY <4>4, WriteSteps
        <5> QED BY <4>4, <5>1 DEF WriteBytes, InSection
      <4> QED BY <2>12, <4>1, <4>2, <4>3, <4>4
    <3>3. ~hist'.raced
      BY <3>2, <1>n, <1>o
    <3> QED BY <3>1, <3>3
  <2> QED
    BY <1>2, DeviceCases, <2>1, <2>2, <2>3, <2>4, <2>5, <2>6, <2>7, <2>8, <2>9,
       <2>10, <2>11, <2>12
<1> QED BY <1>1, <1>2

\* One task, or parameters that keep their defaults: every critical section of
\* scull_read and scull_write runs with the geometry the device has then.
THEOREM StoreInvHolds ==
  ASSUME Steady
  PROVE  Spec => []StoreInv
<1>1. Init => Fresh /\ ~hist.raced
  BY DEF Init, DevInit, NoCall, Fresh, Loaded
<1>2. ASSUME TypeOK, Unanswered, Fresh, ~hist.raced, [Next]_vars,
             Alone \/ (AtDefault /\ AtDefault')
      PROVE  Fresh' /\ ~hist'.raced
  <2>1. AtDefault /\ AtDefault' => UNCHANGED geometry
    BY DEF AtDefault, geometry
  <2> QED BY <1>2, <2>1, FreshStep
<1>3. CASE Alone
  <2>1. TypeOK /\ Unanswered /\ Fresh /\ ~hist.raced /\ [Next]_vars
          => (Fresh /\ ~hist.raced)'
    BY <1>2, <1>3
  <2> QED BY <1>1, <2>1, TypeCorrect, CallsInvariant, PTL DEF Spec, StoreInv
<1>4. CASE Fixed
  <2>1. TypeOK /\ Unanswered /\ Fresh /\ ~hist.raced /\ [Next]_vars
        /\ AtDefault /\ AtDefault'
          => (Fresh /\ ~hist.raced)'
    BY <1>2
  <2>2. Spec => []AtDefault
    BY <1>4, DefaultInvariant, PTL
  <2> QED BY <1>1, <2>1, <2>2, TypeCorrect, CallsInvariant, PTL DEF Spec,
     StoreInv
<1> QED BY <1>3, <1>4 DEF Steady

\* Then the arrays and quanta always have the sizes the device's fields say, ...
THEOREM LayoutCurrentHolds ==
  ASSUME Steady
  PROVE  Spec => []LayoutCurrent
BY StoreInvHolds, SoundUnlessRacedHolds, PTL DEF StoreInv, SoundUnlessRaced

\* ... the list reaches the end of the file, ...
THEOREM SizeBackedHolds ==
  ASSUME Steady
  PROVE  Spec => []SizeBacked
BY StoreInvHolds, SoundUnlessRacedHolds, PTL DEF StoreInv, SoundUnlessRaced

\* ... no access leaves its allocation and scull_trim frees every quantum, ...
THEOREM HeapSafeHolds ==
  ASSUME Steady
  PROVE  Spec => []HeapSafe
BY StoreInvHolds, SoundUnlessRacedHolds, PTL DEF StoreInv, SoundUnlessRaced

\* ... a read that calls scull_follow adds no item to the list, ...
THEOREM ReadNeverAllocatesHolds ==
  ASSUME Steady
  PROVE  Spec => ReadNeverAllocates
<1> DEFINE Kept == \A t \in Tasks : InSection(t, "read") /\ call'[t] # call[t]
                                      => items' = items
<1>1. ASSUME TypeOK, StoreInv, SizeBacked, [Next]_vars PROVE [Kept]_vars
  <2> SUFFICES ASSUME NEW t \in Tasks, InSection(t, "read"), call'[t] # call[t], Next
               PROVE  items' = items
    BY <1>1
  <2>1. call[t].pc = "body" /\ call[t].op = "read"
    BY DEF InSection
  <2>2. ~Stale(call[t])
    BY <1>1, <2>1 DEF StoreInv, Fresh, Loaded, Stale
  <2>3. ASSUME NEW u \in Tasks, NEW c, Becomes(u, c) PROVE u = t
    BY <2>3, <1>1, Moves
  <2>4. ASSUME NEW u \in Tasks, \/ TrimFree(u) \/ TrimQset(u)
                                \/ WriteNoMem(u) \/ WriteBytes(u)
        PROVE  FALSE
    <3>1. u = t
      BY <2>4, <2>3 DEF TrimFree, TrimQset, WriteNoMem, WriteBytes, Finish
    <3> QED BY <2>1, <2>4, <3>1
          DEF TrimFree, TrimQset, WriteNoMem, WriteBytes, InSection
  <2>5. ASSUME NEW u \in Tasks, ReadHole(u) \/ ReadBytes(u) PROVE items' = items
    <3>1. u = t
      BY <2>5, <2>3 DEF ReadHole, ReadBytes, Finish
    <3> QED BY <1>1, <2>2, <2>5, <3>1, ReadFindsItem
  <2>6. ASSUME NEW u \in Tasks, NEW f \in Files,
               \/ \E m : Open(u, f, m)
               \/ \E op : LoadGeometry(u, op, f)
               \/ \E whence, off : Llseek(u, f, whence, off)
        PROVE  items' = items
    BY <2>6 DEF Open, LoadGeometry, Llseek, storage
  <2>7. ASSUME NEW u \in Tasks,
               \/ LoadGeometry2(u) \/ Acquire(u) \/ Interrupted(u)
               \/ ReadPastEnd(u) \/ Oops(u) \/ Return(u)
        PROVE  items' = items
    BY <2>7 DEF LoadGeometry2, Acquire, Interrupted, ReadPastEnd, Oops, Return,
       storage
  <2>8. ASSUME NEW f \in Files, Release(f) PROVE items' = items
    BY <2>8 DEF Release, storage
  <2>9. ASSUME UNCHANGED devVars PROVE items' = items
    BY <2>9 DEF devVars, storage
  <2> QED BY DeviceCases, <2>4, <2>5, <2>6, <2>7, <2>8, <2>9
<1> QED
  BY <1>1, TypeCorrect, StoreInvHolds, SizeBackedHolds, PTL
     DEF Spec, ReadNeverAllocates

\* ... and the device implements the store of bytes: every call takes effect
\* in one step between its invocation and its return.
THEOREM LinearizableHolds ==
  ASSUME Steady
  PROVE  Spec => Linearizable
<1>1. Init => Abstract!StoreInit
  <2> SUFFICES ASSUME Init PROVE Abstract!StoreInit
    OBVIOUS
  <2>1. DOMAIN quanta = {} /\ size = 0
    BY DEF Init, DevInit
  <2>2. Content = [p \in 0 .. MaxPos |-> Unwritten]
    BY <2>1, EmptyContent
  <2>3. Request = [t \in Tasks |-> Abstract!NoReq]
    <3>1. AskedBy(NoCall) = Abstract!NoReq
      BY DEF AskedBy, NoCall, Abstract!NoReq
    <3>2. \A t \in Tasks : call[t] = NoCall
      BY DEF Init, DevInit
    <3> QED BY <3>1, <3>2 DEF Request
  <2> QED BY <2>1, <2>2, <2>3 DEF Abstract!StoreInit, Abstract!Positions
<1>2. ASSUME TypeOK, SoundUnlessRaced, TrimEmpty, Unanswered, Within,
             ~hist.raced', [Next]_vars
      PROVE  [Abstract!StoreNext]_(Abstract!storeVars)
  <2>1. ~hist'.raced
    BY <1>2
  <2>2. StoreStepOrNone
    BY <1>2, <2>1, StoreStep
  <2> QED BY <2>2 DEF StoreStepOrNone, Abstract!storeVars
<1> QED
  BY <1>1, <1>2, TypeCorrect, SoundUnlessRacedHolds, CallsInvariant,
     StoreInvHolds,
     PTL DEF Spec, Linearizable, Abstract!StoreSpec, StoreInv
=============================================================================
