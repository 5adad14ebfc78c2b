----------------------------- MODULE MCCapture ------------------------------
(* The three scripts over the two init scripts of the guest and the ways a      *)
(* workload goes wrong: without its shell marker, run twice, with wrong sums,   *)
(* an error, a failing exit or no power-down.                                   *)
EXTENDS Capture

ScriptPlans == {
  BootRun,
  WorkloadRun,
  <<"START", "END", "INSTRET", "GOOD", "EXIT0", "DOWN">>,
  <<"READY", "START", "END", "START", "END", "INSTRET", "GOOD", "EXIT0", "DOWN">>,
  <<"READY", "START", "END", "INSTRET", "WRONG", "EXIT0", "DOWN">>,
  <<"READY", "START", "END", "INSTRET", "GOOD", "ERROR", "EXIT0", "DOWN">>,
  <<"READY", "START", "END", "INSTRET", "GOOD", "DOWN">>,
  <<"READY", "START", "END", "INSTRET", "GOOD", "EXIT0">>
}
=============================================================================
