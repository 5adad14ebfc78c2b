------------------------------- MODULE MCLoop -------------------------------
(* A guest that arms the timer, raises its own software interrupt and one it  *)
(* delegates, and moves between the three modes, in every order.  The timer   *)
(* registers are two digits that are stored together or apart.                *)
EXTENDS Loop

GuestWrites ==
  [reg \in Regs |->
     CASE reg = "mstatus" -> {{MIE, MPIE, 11}}
       [] reg = "sstatus" -> {{SIE, SPIE}}
       [] reg = "mie" -> {{MSI, MTI, SEI}}
       [] reg = "mip" -> {{SEI}}
       [] reg = "mideleg" -> {{SEI}}
       [] reg = "mtvec" -> {[base |-> 0, mode |-> 1]}
       [] OTHER -> {}]
TwoDigits == {<<0, 2>>, <<0, 1>>, <<1, 1>>, <<1, 2>>}
=============================================================================
