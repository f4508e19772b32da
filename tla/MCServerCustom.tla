---------------------------- MODULE MCServerCustom ----------------------------
(* ServerCustom for TLC; the constants are given in the .cfg files. *)
EXTENDS ServerCustom
================================================================================
