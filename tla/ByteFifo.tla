------------------------------- MODULE ByteFifo -------------------------------
(***************************************************************************)
(* What a stream promises (src/src/stream.rs): the bytes that were         *)
(* accepted are read in their order, each of them once, until the end; the *)
(* end may come early, but nothing is read after it.                       *)
(***************************************************************************)
EXTENDS Naturals

VARIABLES
  written,  \* how many bytes were accepted
  last,     \* the bytes the last read returned: their position and number
  ended     \* has the reader seen the end?

vars == <<written, last, ended>>

Read == last.at + last.len      \* how many bytes were read

Init ==
  /\ written = 0
  /\ last = [at |-> 0, len |-> 0]
  /\ ended = FALSE

Accept ==
  /\ written' \in Nat /\ written' > written
  /\ UNCHANGED <<last, ended>>

\* A read returns the bytes that follow those read before.
Return ==
  /\ ~ ended
  /\ last'.at = Read
  /\ last'.len \in Nat
  /\ last'.at + last'.len <= written
  /\ UNCHANGED <<written, ended>>

End ==
  /\ ended' = TRUE
  /\ UNCHANGED <<written, last>>

Next == Accept \/ Return \/ End

Spec == Init /\ [][Next]_vars

=============================================================================
