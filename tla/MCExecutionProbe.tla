-------------------------- MODULE MCExecutionProbe --------------------------
(* Two commands, two URLs, both tools in both modes.                   *)
EXTENDS ExecutionProbe
=============================================================================
