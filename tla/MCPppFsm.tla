------------------------------- MODULE MCPppFsm -------------------------------
(***************************************************************************)
(* Instance of PppFsm: A accepts whatever B wants, B accepts nothing but   *)
(* "none"; A restarts when it is opened twice, B waits to be spoken to.    *)
(***************************************************************************)
EXTENDS PppFsm

CONSTANTS A, B

MCPeers == {A, B}
MCAccepts == [p \in MCPeers |-> IF p = A THEN {"ask", "less", "none"} ELSE {"none"}]
MCFlags == [p \in MCPeers |-> IF p = A THEN {"RESTART"} ELSE {"SILENT"}]
=============================================================================
