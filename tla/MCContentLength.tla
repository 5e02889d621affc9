--------------------------- MODULE MCContentLength ---------------------------
(* Values for the constants of ContentLength. *)
EXTENDS ContentLength

\* Every page of at most ten characters.
SmallPages == UNION {[1 .. n -> {"x", "H", "n"}] : n \in 0 .. 10}
=============================================================================
