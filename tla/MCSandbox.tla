----------------------------- MODULE MCSandbox -----------------------------
(* Small instances of Sandbox: enough remote sandboxes for one call to     *)
(* lose two, and enough writes to lose one and keep another.               *)
EXTENDS Sandbox
=============================================================================
