------------------------------- MODULE MCRead -------------------------------
(* Small devices for M70Read.                                              *)
EXTENDS M70Read
\* One function of each kind: the others differ in the register only.
MCFns == {"status", "system_count", "nc_version", "nc_type", "svo_load",
          "axis_position", "is_alarm", "sub_program_path"}
            \union Overrides \union Pairs \union Lists
\* The functions with a register branch of their own.
ShadowedFns == Overrides
=============================================================================
