------------------------------- MODULE Stack --------------------------------
(***************************************************************************)
(* What the lifo device promises its callers: a stack of bytes.  A write   *)
(* pushes its bytes one after the other, a read pops, and opening the      *)
(* device write-only empties it.                                           *)
(***************************************************************************)
EXTENDS Sequences

CONSTANTS
  Bytes,    \* byte values
  Nothing   \* the value of last before the first pop

VARIABLES
  content,  \* the bytes on the stack, the top one first
  last      \* the byte popped last

stackVars == <<content, last>>

StackInit == content = <<>> /\ last = Nothing

Push ==
  /\ \E b \in Bytes : content' = <<b>> \o content
  /\ UNCHANGED last

Pop ==
  /\ content # <<>>
  /\ content' = Tail(content)
  /\ last' = Head(content)

Clear ==
  /\ content' = <<>>
  /\ UNCHANGED last

StackNext == Push \/ Pop \/ Clear

StackSpec == StackInit /\ [][StackNext]_stackVars
=============================================================================
