----------------------------- MODULE SessionStore -----------------------------
(***************************************************************************)
(* What the credentials of a device promise, without the threads that      *)
(* refresh them: four cells, each of them written in one step.             *)
(*                                                                         *)
(*   granted     the number of the last session the backend granted        *)
(*   published   the access token that requests carry                      *)
(*   stored      the access token that a restarted service resumes with    *)
(*   saved       the parameters that the next refresh starts from          *)
(*                                                                         *)
(* A token is only published while it is the latest one of its device,     *)
(* only the published token is stored, and only the number of the latest   *)
(* session is saved.  A stop or a failure may empty a cell; no cell goes   *)
(* back to an older session, except that a restart resumes with what was   *)
(* stored.                                                                 *)
(***************************************************************************)
EXTENDS Naturals

CONSTANTS
  Device,   \* the devices the backend may register
  None      \* absence of a device

VARIABLES granted, published, stored, saved

cells == <<granted, published, stored, saved>>

NoToken  == [id |-> None, hash |-> 0]
NoParams == [id |-> None, seq |-> 0]

Latest(d) == [id |-> d, hash |-> granted[d]]

(* calculateHash adds one to the sequence number it is given, and an       *)
(* activation saves the number 0 before its first session.                 *)
Origin(d) == [id |-> d, seq |-> IF granted[d] = 0 THEN 0 ELSE granted[d] - 1]

Init ==
  /\ granted   = [d \in Device |-> 0]
  /\ published = NoToken
  /\ stored    = NoToken
  /\ saved     = NoParams

(* The backend grants a session; the process may end before it learns so.  *)
(* Number 1 is skipped when the activation was saved and its own session   *)
(* request never reached the backend.                                      *)
Grant(d) ==
  /\ \E n \in {granted[d] + 1, 2} :
       n > granted[d] /\ granted' = [granted EXCEPT ![d] = n]
  /\ published' \in {published, NoToken}
  /\ UNCHANGED <<stored, saved>>

Publish(d) ==
  /\ granted[d] > 0
  /\ published' = Latest(d)
  /\ UNCHANGED <<granted, stored, saved>>

Store ==
  /\ stored' \in {published, NoToken}
  /\ UNCHANGED <<granted, published, saved>>

Save(d) ==
  /\ saved' \in {Origin(d), NoParams}
  /\ UNCHANGED <<granted, published, stored>>

Stop ==
  /\ published' = NoToken
  /\ UNCHANGED <<granted, stored, saved>>

Resume ==
  /\ published = NoToken
  /\ published' = stored
  /\ UNCHANGED <<granted, stored, saved>>

Next ==
  \/ \E d \in Device : Grant(d) \/ Publish(d) \/ Save(d)
  \/ Store \/ Stop \/ Resume

Spec == Init /\ [][Next]_cells
================================================================================
