------------------------------- MODULE MCHtif -------------------------------
(* Three bytes typed through a channel of one, so that the thread has to wait,  *)
(* and a tick every other attempt.                                             *)
EXTENDS Htif

Typed == <<10, 11, 12>>
AllRequests == {<<"write", 20>>, <<"write", 21>>, <<"read", 0>>, <<"exit", 0>>, <<"unsupported", 0>>}
=============================================================================
