------------------------------ MODULE MCBreach ------------------------------
(***************************************************************************)
(* One plain source followed by HIBP, run after run.  A tick is 300 ms: a  *)
(* one-second delay with its jitter is two to four ticks, and hibpMinDelay *)
(* (1.5 s) is five.                                                        *)
(***************************************************************************)
EXTENDS Breach
=============================================================================
