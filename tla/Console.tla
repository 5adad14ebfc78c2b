------------------------------ MODULE Console ------------------------------
(***************************************************************************)
(* What the simulated console promises its guest and its user: each read   *)
(* the host has accepted is answered with the next byte of the input, one  *)
(* byte at a time through a mailbox the guest empties.                     *)
(***************************************************************************)
EXTENDS Naturals, Sequences

CONSTANTS
  Bytes,
  Input,   \* the bytes the user types
  NoByte

VARIABLES
  input,     \* bytes not yet delivered
  reads,     \* reads accepted and not answered
  mailbox,   \* the byte the guest is to take
  taken,     \* bytes it has taken
  output,    \* bytes it has printed
  over       \* the run has ended

vars == <<input, reads, mailbox, taken, output, over>>

Init ==
  /\ input = Input
  /\ reads = 0
  /\ mailbox = NoByte
  /\ taken = <<>> /\ output = <<>>
  /\ over = FALSE

Accept ==
  /\ reads' = reads + 1
  /\ UNCHANGED <<input, mailbox, taken, output, over>>

Put(byte) ==
  /\ output' = Append(output, byte)
  /\ UNCHANGED <<input, reads, mailbox, taken, over>>

Deliver ==
  /\ reads > 0 /\ mailbox = NoByte /\ input # <<>>
  /\ mailbox' = Head(input)
  /\ input' = Tail(input)
  /\ reads' = reads - 1
  /\ UNCHANGED <<taken, output, over>>

Take ==
  /\ mailbox # NoByte
  /\ taken' = Append(taken, mailbox)
  /\ mailbox' = NoByte
  /\ UNCHANGED <<input, reads, output, over>>

End ==
  /\ over' = TRUE
  /\ UNCHANGED <<input, reads, mailbox, taken, output>>

Next ==
  /\ ~ over
  /\ Accept \/ (\E byte \in Bytes : Put(byte)) \/ Deliver \/ Take \/ End

\* A read is answered once there is input for it and room in the mailbox.
Spec == Init /\ [][Next]_vars /\ WF_vars(~ over /\ Deliver)
=============================================================================
