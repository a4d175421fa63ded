--------------------------- MODULE MCOutboundHttp ---------------------------
(* OutboundHttp for TLC. *)
EXTENDS OutboundHttp, TLC

CONSTANTS q1, h1

\* One statement, with a chunk of two rows to the same host: what one call
\* returns to the pool the other may take.
MCWidth == q1 :> 2
MCOrigins == <<{h1}, {h1}>>
=============================================================================
