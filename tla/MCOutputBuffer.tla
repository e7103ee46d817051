--------------------------- MODULE MCOutputBuffer ---------------------------
(* A small instance of OutputBuffer: see MCOutputBuffer.cfg.               *)
EXTENDS OutputBuffer

\* No limit, and the limit that leaves output behind a drain.
MCLimits == {0, 1}
=============================================================================
