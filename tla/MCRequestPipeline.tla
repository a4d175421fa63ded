-------------------------- MODULE MCRequestPipeline --------------------------
\* Small instances of RequestPipeline for TLC.
EXTENDS RequestPipeline
=============================================================================
