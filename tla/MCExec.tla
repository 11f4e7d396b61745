------------------------------- MODULE MCExec -------------------------------
(* Two commands of up to three host processes, on the host and in docker.   *)
EXTENDS Exec
=============================================================================
