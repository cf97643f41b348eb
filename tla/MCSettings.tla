---------------------------- MODULE MCSettings ----------------------------
(* Every kind of setting, any pair of its attributes, and any first         *)
(* configuration.                                                           *)
EXTENDS Settings
=============================================================================
