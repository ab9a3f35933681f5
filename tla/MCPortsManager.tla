--------------------------- MODULE MCPortsManager ---------------------------
(* Small instances of PortsManager, and the mutated forms of its actions.  *)
EXTENDS PortsManager
=============================================================================
