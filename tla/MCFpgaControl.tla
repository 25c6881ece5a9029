--------------------------- MODULE MCFpgaControl ---------------------------
(* Small instances of FpgaControl: the tightest ring (SLOTS = PERMITS + 1), *)
(* counters that wrap during the run, a poll budget small enough to expire. *)
EXTENDS FpgaControl

MCStartRegs == {5}

=============================================================================
