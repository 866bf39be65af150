------------------------ MODULE MCWorkspaceDocument ------------------------
(* Two tabs; two edits, undos or redos; a fault or a reset.             *)
EXTENDS WorkspaceDocument

Some == [edit |-> 2, fault |-> 1]
=============================================================================
