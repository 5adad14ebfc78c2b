------------------------------- MODULE MCHart -------------------------------
(* An instance of Hart for TLC: what the guest writes to each register. With *)
(* the set and clear forms of the CSR instructions every operand also adds   *)
(* its bits to a register and removes them.                                  *)
EXTENDS Hart

NoWrites == [reg \in Regs |-> {}]

\* Nesting traps of two modes, their vectors and saved addresses, and the bits
\* of mstatus that supervisor software must not reach.
TrapWrites ==
  [NoWrites EXCEPT !["mstatus"] = {{SIE, 11, MPRV}, {MIE, TW, TSR}},
                   !["sstatus"] = {{SIE, MIE, TW}, {SPP, SPIE, MPRV}},
                   !["mie"] = {{SSI}}, !["sie"] = {{SSI, STI}},
                   !["mip"] = {{SSI}}, !["sip"] = {{SSI, SEI}},
                   !["mideleg"] = {{SSI}},
                   !["medeleg"] = {{2, 8, 10}},
                   !["mepc"] = {1}, !["sepc"] = {0},
                   !["stvec"] = {[base |-> 0, mode |-> 1]}]

=============================================================================
