---------------------------- MODULE MCServerModes ----------------------------
(* ServerModes for TLC: a client with a message and one that a read may cut *)
(* in two, found one by one or run together, and a client that sends a part *)
(* of a message.                                                            *)
EXTENDS ServerModes, TLC

CONSTANTS c1, c2

Streams == (c1 :> <<"message", "head", "tail">>) @@ (c2 :> <<"head">>)
================================================================================
