----------------------------- MODULE MCProcess -----------------------------
(* The process with the three default search paths. *)
EXTENDS Process

MCPaths == <<"etc", "home", "cwd">>
============================================================================
