----------------------------- MODULE MCSettings -----------------------------
(***************************************************************************)
(* Settings with one server and one port beside the defaults.              *)
(***************************************************************************)
EXTENDS Settings

-----------------------------------------------------------------------------
(* What the code's own words say, and the code does not do *)

\* config.c:68: when there is no configuration to be found, the hardcoded defaults
\* are used.
DefaultsWithoutServer ==
  main_pc \in {"tasks", "wifi"} /\ nvs.server = Unset => dsc_config = DefaultConfig
=============================================================================
