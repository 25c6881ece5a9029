-------------------------- MODULE MCFramePipeline --------------------------
(* Small instances of FramePipeline: a parameter set every fourth unit, up *)
(* to three clients.                                                       *)
EXTENDS FramePipeline

=============================================================================
