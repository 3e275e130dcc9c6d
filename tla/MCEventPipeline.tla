-------------------------- MODULE MCEventPipeline --------------------------
(* Instances of EventPipeline: a supervisor and a preview over one or two   *)
(* cards.                                                                   *)
EXTENDS EventPipeline, TLC

CONSTANTS leader, preview, t1, t2

=============================================================================
