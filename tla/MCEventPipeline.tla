----------------------------- MODULE MCEventPipeline -----------------------------
(* EventPipeline on small queues; every constant is given in the .cfg files. *)
EXTENDS EventPipeline
=============================================================================
