----------------------------- MODULE ByteStore ------------------------------
(***************************************************************************)
(* What a scull device promises its callers: a store of bytes with a       *)
(* size.  Every call takes effect in one atomic step between its           *)
(* invocation and its return (linearizability).  Transfers may be short,   *)
(* a position nobody wrote may read as end of file, and a write that       *)
(* returns -EFAULT may have spoilt the bytes it was about to write, and    *)
(* no others.                                                              *)
(***************************************************************************)
EXTENDS Integers

CONSTANTS
  Tasks,      \* callers
  Bytes,      \* byte values
  Unwritten,  \* stands for the content of a position nobody wrote
  Counts,     \* transfer sizes callers ask for
  MaxPos      \* BOUND: positions are 0..MaxPos

VARIABLES
  content,    \* the byte at each position
  size,       \* end of file
  req         \* the call each task is in

storeVars == <<content, size, req>>

Positions == 0 .. MaxPos
NoReq == [st |-> "idle", op |-> "none", pos |-> 0, val |-> 0, buf |-> <<>>]

\* errno values a call may return
ENOMEM      == 12
EFAULT      == 14
ERESTARTSYS == 512

StoreInit ==
  /\ content = [p \in Positions |-> Unwritten]
  /\ size = 0
  /\ req = [t \in Tasks |-> NoReq]

Invoke(t) ==
  /\ req[t].st = "idle"
  /\ \E op \in {"read", "write", "open"}, p \in Positions :
       req' = [req EXCEPT ![t] = [NoReq EXCEPT !.st = "busy", !.op = op,
                                                !.pos = p]]
  /\ UNCHANGED <<content, size>>

Busy(t, op) == req[t].st = "busy" /\ req[t].op = op

Answer(t, v, n, bytes) ==
  req' = [req EXCEPT ![t].st = "ret", ![t].val = v, ![t].pos = @ + n,
                     ![t].buf = bytes]

Fail(t, e) == Answer(t, -e, 0, <<>>)

\* A read before the end of file returns nothing only where nobody wrote.
Read(t) ==
  /\ Busy(t, "read")
  /\ LET p == req[t].pos IN
     \/ \E count \in Counts : \E n \in 0 .. count :
          /\ n = 0 => count = 0 \/ p >= size \/ content[p] = Unwritten
          /\ n > 0 => p + n <= size
          /\ Answer(t, n, n, [i \in 1 .. n |-> content[p + i - 1]])
     \/ Fail(t, EFAULT)
  /\ UNCHANGED <<content, size>>

Write(t) ==
  /\ Busy(t, "write")
  /\ LET p == req[t].pos IN
     \/ \E count \in Counts, b \in Bytes : \E n \in 0 .. count :
          /\ n = 0 => count = 0
          /\ content' = [x \in Positions |->
                           IF x \in p .. p + n - 1 THEN b ELSE content[x]]
          /\ size' = IF size < p + n THEN p + n ELSE size
          /\ Answer(t, n, n, <<>>)
     \/ /\ Fail(t, ENOMEM)
        /\ UNCHANGED <<content, size>>
     \/ \E count \in Counts :
          /\ \A x \in Positions \ (p .. p + count - 1) :
               content'[x] = content[x]
          /\ Fail(t, EFAULT)
          /\ UNCHANGED size

\* Opening write-only empties the store.
Truncate(t) ==
  /\ Busy(t, "open")
  /\ content' = [p \in Positions |-> Unwritten]
  /\ size' = 0
  /\ Answer(t, 0, 0, <<>>)

Interrupt(t) ==
  /\ req[t].st = "busy"
  /\ Fail(t, ERESTARTSYS)
  /\ UNCHANGED <<content, size>>

Return(t) ==
  /\ req[t].st = "ret"
  /\ req' = [req EXCEPT ![t] = NoReq]
  /\ UNCHANGED <<content, size>>

StoreNext ==
  \E t \in Tasks : \/ Invoke(t) \/ Read(t) \/ Write(t) \/ Truncate(t)
                   \/ Interrupt(t) \/ Return(t)

StoreSpec == StoreInit /\ [][StoreNext]_storeVars
=============================================================================
