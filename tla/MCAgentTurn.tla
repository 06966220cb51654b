---------------------------- MODULE MCAgentTurn ----------------------------
(***************************************************************************)
(* Instances of AgentTurn for TLC.  "send" is a response tool (required    *)
(* and allowed by default), "admin" one that must be granted, "ghost" a    *)
(* name the model makes up.                                                *)
(***************************************************************************)
EXTENDS AgentTurn

MCTools == {"send", "admin"}
MCRequired == {"send"}
MCDefaultAllowed == {"send"}
MCCallNames == {"send", "admin", "ghost"}
MCRegisteredNames == {"send", "admin"}

=============================================================================
