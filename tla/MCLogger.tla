------------------------------- MODULE MCLogger -------------------------------
(* Logger for TLC; the earlier version of the server left a file three days *)
(* before the first start.                                                  *)
EXTENDS Logger

ThreeDaysAgo == -3
================================================================================
