---------------------------- MODULE MCRtpBuffer ----------------------------
(* Small instances of RtpBuffer: a ring of 4 slots, sequence numbers       *)
(* modulo 8 that wrap during the run.                                      *)
EXTENDS RtpBuffer

=============================================================================
