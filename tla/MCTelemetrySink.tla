--------------------------- MODULE MCTelemetrySink ---------------------------
\* Small instances of TelemetrySink for TLC.
EXTENDS TelemetrySink, TLC

MCSymmetry == Permutations(Handlers) \cup Permutations(Flushers)
=============================================================================
