---------------------------- MODULE MCScheduler ----------------------------
(***************************************************************************)
(* An instance of UniformFillScheduler for TLC.  All its constants are     *)
(* given by the configuration; since any of the VPUs may be missing when   *)
(* the runtime has started, the behaviours of fewer members are included.  *)
(***************************************************************************)
EXTENDS UniformFillScheduler
=============================================================================
