------------------------------ MODULE MCBpfPrograms ------------------------------
(* Four requests: two of one sector, one of another and one of sector 0. *)
EXTENDS BpfPrograms

MCSector == <<1, 1, 2, 0>>
=============================================================================
