----------------------------- MODULE MCFraming -----------------------------
(***************************************************************************)
(* Framing with a buffer of 6 bytes and records of two buffers, as in the  *)
(* code (8192 and 16384): bodies up to 24 bytes fill several buffers and   *)
(* several records and end on, before and after every boundary.            *)
(***************************************************************************)
EXTENDS Framing

MCRequests ==
    {[len |-> n, body |-> n, wellFormed |-> b] : n \in 1 .. 24, b \in BOOLEAN}
    \cup {[len |-> n, body |-> m, wellFormed |-> FALSE] : n, m \in {2, 6, 9}}

MCReplySizes == 1 .. 24
=============================================================================
