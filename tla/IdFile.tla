------------------------------- MODULE IdFile -------------------------------
(***************************************************************************)
(* The id check of the eudyptula modules (misc_read and misc_write of      *)
(* src/eudyptula-challenge/Task06/misc.c, the same code as the id file of  *)
(* Task08): what a write of some bytes makes of the buffer input_id on the *)
(* stack, and what it returns.                                             *)
(***************************************************************************)
EXTENDS Integers, Sequences, SequencesExt

CONSTANTS
  idstr,   \* the id, a sequence of bytes
  Byte,    \* BOUND: byte values
  NUL      \* the byte that ends a C string

ASSUME IdConstants ==
  /\ NUL \in Byte
  /\ idstr \in Seq(Byte \ {NUL}) /\ idstr # <<>>

EINVAL == 22

\* The text a reader is given is the id and a newline.
IdTextLen == Len(idstr) + 1

\* sizeof(input_id)
IdBufferLen == Len(idstr) + 1

\* What the stack may hold where input_id lies: anything.
Stacks == [1 .. IdBufferLen -> Byte]

\* A plausible slip: the bytes that were copied are not terminated.
InputIdOpen(s, n, junk) ==
  [i \in 1 .. IdBufferLen |-> IF i <= n THEN s[i] ELSE junk[i]]

(***************************************************************************)
(* input_id after simple_write_to_buffer has copied n bytes of s and       *)
(* input_id[retval] = 0.  When n is the whole buffer, the zero goes to the *)
(* byte after it, and input_id itself holds the n bytes.                   *)
(***************************************************************************)
InputId(s, n, junk) ==
  [i \in 1 .. IdBufferLen |->
     IF i <= n THEN s[i] ELSE IF i = n + 1 THEN NUL ELSE junk[i]]

ZeroOutside(n) == n = IdBufferLen

\* The C string at the start of b, or all of b when no byte of it is NUL.
CString(b) ==
  LET k == SelectInSeq(b, LAMBDA x : x = NUL)
  IN IF k = 0 THEN b ELSE SubSeq(b, 1, k - 1)

(***************************************************************************)
(* The result of misc_write when the copy returned n: its error, -EINVAL   *)
(* when strcmp tells a difference (which it does within the buffer: no     *)
(* byte of the id is NUL, and the buffer is longer than the id), or n.     *)
(***************************************************************************)
IdVerdict(s, n, junk) ==
  IF n < 0 THEN n
  ELSE IF CString(InputId(s, n, junk)) = idstr THEN n ELSE -EINVAL

\* Reference: the first n bytes of s are the id, perhaps with a NUL after it.
IsId(s, n) == SubSeq(s, 1, n) \in {idstr, idstr \o <<NUL>>}
=============================================================================
