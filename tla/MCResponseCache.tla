--------------------------- MODULE MCResponseCache --------------------------
(***************************************************************************)
(* Three goroutines (carrier, voip, a correlator source) on one URL whose  *)
(* upstream does not always answer alike; keys do not interact.            *)
(***************************************************************************)
EXTENDS ResponseCache
=============================================================================
