------------------------------- MODULE MCHook -------------------------------
(* The hook module on three CPUs: the constants are in the configuration. *)
EXTENDS Hook
=============================================================================
