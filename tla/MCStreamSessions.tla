-------------------------- MODULE MCStreamSessions --------------------------
(* Workers are interchangeable.                                            *)
EXTENDS StreamSessions, TLC

MCSymmetry == Permutations(Workers)
=============================================================================
