------------------------- MODULE MCSessionControler -------------------------
(* SessionControler with a small clock: times 0..MaxTime are enough for a  *)
(* session to be younger, exactly as old and older than Ttl at a wake-up.  *)
EXTENDS SessionControler
=============================================================================
