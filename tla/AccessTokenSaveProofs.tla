------------------------ MODULE AccessTokenSaveProofs ------------------------
(***************************************************************************)
(* What the refreshes leave behind, for any number of threads and secrets, *)
(* any bound and any set of failures: the number that is saved is the last *)
(* one the backend accepted, the token in the process never goes back, and *)
(* both environment variables are set while the server serves.             *)
(*                                                                         *)
(* The first part says, one variable at a time, what a step can do to it;  *)
(* PublishInv and the three properties follow from that and from IndInv.   *)
(***************************************************************************)
EXTENDS AccessTokenProofs

USE DEF Thread

-----------------------------------------------------------------------------
(* One variable at a time. *)

(* The backend's numbers change when a session request is accepted. *)
LEMMA HashStep ==
  ASSUME [Next]_vars
  PROVE  \/ lastHash' = lastHash
         \/ \E t \in Thread : pc[t] = "session" /\ Accept(params[t])
<1>1. CASE SetTokenTool \/ Start \/ Stop \/ Crash \/ UNCHANGED vars
  BY <1>1
  DEF SetTokenTool, ClearEnvFile, RemoveTokenIfExists, SaveSecretToken, Start,
      Stop, Crash, vars, backend
<1>2. CASE Setup
  BY <1>2
  DEF Setup, SetupFoundValid, SetupFoundExpired, SetupNotFound, ActivateDevice,
      ActivationFails, OpenActivationFile, WriteActivationFile, backend
<1>3. ASSUME NEW w \in Worker, NEW site \in {"noTry", "inTry"}, BeginRefresh(w, site)
      PROVE  lastHash' = lastHash
  BY <1>3 DEF BeginRefresh, backend
<1>4. ASSUME NEW t \in Thread, Refresh(t) \/ Commit(t)
      PROVE  lastHash' = lastHash
  BY <1>4
  DEF Refresh, ReadDeviceFile, ReadDeviceFileFails, Commit, SetToken, SetExpiry,
      OpenEnvFile, WriteEnvToken, WriteEnvExpiry, UnlinkSecret, OpenDeviceFile,
      WriteDeviceFile, backend
<1>5. ASSUME NEW t \in Thread, Session(t)
      PROVE  lastHash' = lastHash \/ (pc[t] = "session" /\ Accept(params[t]))
  BY <1>5
  DEF Session, SessionGranted, SessionReplyLost, SessionUnreachable,
      SessionRefused, SessionEmpty, backend
<1> QED
  BY <1>1, <1>2, <1>3, <1>4, <1>5 DEF Next

(* The backend's numbers never decrease. *)
LEMMA HashGrows ==
  ASSUME TypeOK, [Next]_vars
  PROVE  Grows
BY HashStep, AcceptGrows DEF Grows, TypeOK

(* The token of the process changes at a start, at its end, and when a     *)
(* granted session is published.                                           *)
LEMMA EnvStep ==
  ASSUME TypeOK, [Next]_vars
  PROVE  \/ env'.token = env.token
         \/ env' = NoEnv
         \/ pc[Main] = "off" /\ env' = envFile
         \/ \E t \in Thread : pc[t] = "setToken" /\ env'.token = token[t]
<1>1. CASE SetTokenTool \/ Start \/ Stop \/ Crash \/ UNCHANGED vars
  BY <1>1
  DEF SetTokenTool, ClearEnvFile, RemoveTokenIfExists, SaveSecretToken, Start,
      Stop, Crash, ProcessExit, vars, process
<1>2. CASE Setup
  BY <1>2
  DEF Setup, SetupFoundValid, SetupFoundExpired, SetupNotFound, ActivateDevice,
      ActivationFails, OpenActivationFile, WriteActivationFile, ReturnFailure,
      ProcessExit, Abandon
<1>3. ASSUME NEW w \in Worker, NEW site \in {"noTry", "inTry"}, BeginRefresh(w, site)
      PROVE  env' = env
  BY <1>3 DEF BeginRefresh
<1>4. ASSUME NEW t \in Thread, Refresh(t) \/ Session(t)
      PROVE  env' = env \/ env' = NoEnv
  BY <1>4
  DEF Refresh, ReadDeviceFile, ReadDeviceFileFails, Session, SessionGranted,
      SessionReplyLost, SessionUnreachable, SessionRefused, SessionEmpty, Throw,
      ReturnFailure, ProcessExit, Abandon
<1>5. ASSUME NEW t \in Thread, Commit(t)
      PROVE  \/ env'.token = env.token
             \/ env' = NoEnv
             \/ pc[t] = "setToken" /\ env'.token = token[t]
  BY <1>5
  DEF Commit, SetToken, SetExpiry, OpenEnvFile, WriteEnvToken, WriteEnvExpiry,
      UnlinkSecret, OpenDeviceFile, WriteDeviceFile, ReturnFailure, ProcessExit,
      Abandon, TypeOK, Env
<1> QED
  BY <1>1, <1>2, <1>3, <1>4, <1>5 DEF Next

(* The token in the environment file is that of a granted session. *)
LEMMA EnvFileStep ==
  ASSUME TypeOK, [Next]_vars
  PROVE  \/ envFile'.token = envFile.token
         \/ envFile' = NoEnv
         \/ \E t \in Thread : pc[t] = "writeEnvToken" /\ envFile'.token = token[t]
<1>1. CASE SetTokenTool \/ Start \/ Stop \/ Crash \/ UNCHANGED vars
  BY <1>1
  DEF SetTokenTool, ClearEnvFile, RemoveTokenIfExists, SaveSecretToken, Start,
      Stop, Crash, vars, disk
<1>2. CASE Setup
  BY <1>2
  DEF Setup, SetupFoundValid, SetupFoundExpired, SetupNotFound, ActivateDevice,
      ActivationFails, OpenActivationFile, WriteActivationFile, disk
<1>3. ASSUME NEW w \in Worker, NEW site \in {"noTry", "inTry"}, BeginRefresh(w, site)
      PROVE  envFile' = envFile
  BY <1>3 DEF BeginRefresh, disk
<1>4. ASSUME NEW t \in Thread, Refresh(t) \/ Session(t)
      PROVE  envFile' = envFile
  BY <1>4
  DEF Refresh, ReadDeviceFile, ReadDeviceFileFails, Session, SessionGranted,
      SessionReplyLost, SessionUnreachable, SessionRefused, SessionEmpty, disk
<1>5. ASSUME NEW t \in Thread, Commit(t)
      PROVE  \/ envFile'.token = envFile.token
             \/ envFile' = NoEnv
             \/ pc[t] = "writeEnvToken" /\ envFile'.token = token[t]
  BY <1>5
  DEF Commit, SetToken, SetExpiry, OpenEnvFile, WriteEnvToken, WriteEnvExpiry,
      UnlinkSecret, OpenDeviceFile, WriteDeviceFile, TypeOK, Env, disk
<1> QED
  BY <1>1, <1>2, <1>3, <1>4, <1>5 DEF Next

(* The device file is emptied, or written by an activation or a refresh.   *)
LEMMA DeviceFileStep ==
  ASSUME [Next]_vars
  PROVE  \/ deviceFile' \in {deviceFile, NoParams}
         \/ pc[Main] = "writeActivation" /\ deviceFile' = params[Main]
         \/ \E t \in Thread : pc[t] = "writeDevice" /\ deviceFile' = params[t]
<1>1. CASE SetTokenTool \/ Start \/ Stop \/ Crash \/ UNCHANGED vars
  BY <1>1
  DEF SetTokenTool, ClearEnvFile, RemoveTokenIfExists, SaveSecretToken, Start,
      Stop, Crash, vars, disk
<1>2. CASE Setup
  BY <1>2
  DEF Setup, SetupFoundValid, SetupFoundExpired, SetupNotFound, ActivateDevice,
      ActivationFails, OpenActivationFile, WriteActivationFile, disk
<1>3. ASSUME NEW w \in Worker, NEW site \in {"noTry", "inTry"}, BeginRefresh(w, site)
      PROVE  deviceFile' = deviceFile
  BY <1>3 DEF BeginRefresh, disk
<1>4. ASSUME NEW t \in Thread, Refresh(t) \/ Session(t)
      PROVE  deviceFile' = deviceFile
  BY <1>4
  DEF Refresh, ReadDeviceFile, ReadDeviceFileFails, Session, SessionGranted,
      SessionReplyLost, SessionUnreachable, SessionRefused, SessionEmpty, disk
<1>5. ASSUME NEW t \in Thread, Commit(t)
      PROVE  \/ deviceFile' \in {deviceFile, NoParams}
             \/ pc[t] = "writeDevice" /\ deviceFile' = params[t]
  BY <1>5
  DEF Commit, SetToken, SetExpiry, OpenEnvFile, WriteEnvToken, WriteEnvExpiry,
      UnlinkSecret, OpenDeviceFile, WriteDeviceFile, disk
<1> QED
  BY <1>1, <1>2, <1>3, <1>4, <1>5 DEF Next

(* Who is committing after a step was so before it, with the same session, *)
(* or was just granted one.                                                *)
LEMMA CommitStep ==
  ASSUME TypeOK, [Next]_vars, NEW u \in Thread, Committing(u)'
  PROVE  \/ Committing(u) /\ token'[u] = token[u] /\ params'[u] = params[u]
         \/ SessionGranted(u)
<1> USE DEF Committing, CommitLabel
<1>1. CASE SetTokenTool \/ Start \/ Stop \/ Crash \/ UNCHANGED vars
  BY <1>1
  DEF SetTokenTool, ClearEnvFile, RemoveTokenIfExists, SaveSecretToken, Start,
      Stop, Crash, ProcessExit, Goto, vars, process, TypeOK
<1>2. CASE Setup
  <2>1. CASE SetupFoundValid
    BY <1>2, <2>1 DEF SetupFoundValid, ReturnToken
  <2>2. CASE SetupFoundExpired \/ OpenActivationFile \/ WriteActivationFile
    BY <1>2, <2>2
    DEF SetupFoundExpired, OpenActivationFile, WriteActivationFile, Goto, TypeOK
  <2>3. CASE SetupNotFound \/ ActivateDevice \/ ActivationFails
    <3>1. CASE ProcessExit
      BY <3>1 DEF ProcessExit
    <3>2. CASE ~ProcessExit
      BY <2>3, <3>2
      DEF SetupNotFound, ActivateDevice, ActivationFails, ReturnFailure, Goto, TypeOK
    <3> QED
      BY <3>1, <3>2
  <2> QED
    BY <1>2, <2>1, <2>2, <2>3 DEF Setup
<1>3. ASSUME NEW w \in Worker, NEW site \in {"noTry", "inTry"}, BeginRefresh(w, site)
      PROVE  Committing(u) /\ token'[u] = token[u] /\ params'[u] = params[u]
  BY <1>3 DEF BeginRefresh, Goto, TypeOK
<1>4. ASSUME NEW t \in Thread, Refresh(t) \/ Session(t), ~SessionGranted(u)
      PROVE  Committing(u) /\ token'[u] = token[u] /\ params'[u] = params[u]
  <2>1. CASE ReadDeviceFile(t)
    BY <2>1 DEF ReadDeviceFile, Goto, TypeOK
  <2>2. CASE SessionGranted(t)
    BY <1>4, <2>2 DEF SessionGranted, Goto, TypeOK
  <2>3. CASE ~ReadDeviceFile(t) /\ ~SessionGranted(t)
    <3>1. ProcessExit \/ Abandon(t)
      BY <1>4, <2>3
      DEF Refresh, Session, ReadDeviceFileFails, SessionReplyLost,
          SessionUnreachable, SessionRefused, SessionEmpty, Throw, ReturnFailure
    <3> QED
      BY <3>1 DEF ProcessExit, Abandon, Forget, Goto, TypeOK
  <2> QED
    BY <2>1, <2>2, <2>3
<1>5. ASSUME NEW t \in Thread, Commit(t)
      PROVE  Committing(u) /\ token'[u] = token[u] /\ params'[u] = params[u]
  <2>1. Committing(t)
    BY <1>5
    DEF Commit, SetToken, SetExpiry, OpenEnvFile, WriteEnvToken, WriteEnvExpiry,
        UnlinkSecret, OpenDeviceFile, WriteDeviceFile
  <2>2. \/ ReturnFailure(t) \/ ReturnToken(t)
        \/ (\E l \in CommitLabel : Goto(t, l)) /\ UNCHANGED <<params, token>>
    BY <1>5
    DEF Commit, SetToken, SetExpiry, OpenEnvFile, WriteEnvToken, WriteEnvExpiry,
        UnlinkSecret, OpenDeviceFile, WriteDeviceFile
  <2>3. CASE ReturnFailure(t)
    BY <2>3 DEF ReturnFailure, ProcessExit, Abandon, Forget, Goto, TypeOK
  <2>4. CASE ReturnToken(t)
    BY <2>4 DEF ReturnToken, Forget, TypeOK
  <2>5. CASE (\E l \in CommitLabel : Goto(t, l)) /\ UNCHANGED <<params, token>>
    BY <2>1, <2>5 DEF Goto, TypeOK
  <2> QED
    BY <2>2, <2>3, <2>4, <2>5
<1> QED
  BY <1>1, <1>2, <1>3, <1>4, <1>5 DEF Next

(* Saving an activation begins with the activation, of a fresh secret, and *)
(* goes on with the same parameters.                                       *)
ActivationLabel == {"openActivation", "writeActivation"}

(* A step into or within the saving of an activation grants nothing; it    *)
(* begins with an unspent secret, or keeps its parameters.                 *)
LEMMA ActivationStep ==
  ASSUME TypeOK, BootAlone, [Next]_vars, pc'[Main] \in ActivationLabel
  PROVE  /\ lastHash' = lastHash
         /\ \/ pc[Main] \in ActivationLabel /\ params'[Main] = params[Main]
            \/ secretFile \in Secret \ registered /\ params'[Main].id = secretFile
<1> USE DEF ActivationLabel
<1>1. CASE SetTokenTool \/ Start \/ Stop \/ Crash \/ UNCHANGED vars
  BY <1>1
  DEF SetTokenTool, ClearEnvFile, RemoveTokenIfExists, SaveSecretToken, Start,
      Stop, Crash, ProcessExit, Goto, vars, process, backend, TypeOK
<1>2. CASE Setup
  <2>1. CASE SetupFoundValid
    BY <2>1 DEF SetupFoundValid, ReturnToken
  <2>2. CASE SetupFoundExpired \/ OpenActivationFile \/ WriteActivationFile
    BY <2>2
    DEF SetupFoundExpired, OpenActivationFile, WriteActivationFile, Goto, TypeOK, backend
  <2>3. CASE SetupNotFound \/ ActivateDevice \/ ActivationFails
    <3>1. CASE ProcessExit
      BY <3>1 DEF ProcessExit
    <3>2. CASE ~ProcessExit
      BY <2>3, <3>2
      DEF SetupNotFound, ActivateDevice, ActivationFails, ReturnFailure, Goto, TypeOK
    <3> QED
      BY <3>1, <3>2
  <2> QED
    BY <1>2, <2>1, <2>2, <2>3 DEF Setup
<1>3. \A w \in Worker : pc'[Main] = pc[Main] => pc[w] = "off"
  BY DEF BootAlone
<1>4. ASSUME NEW w \in Worker, NEW site \in {"noTry", "inTry"}, BeginRefresh(w, site)
      PROVE  FALSE
  BY <1>3, <1>4, ThreadAssumption DEF BeginRefresh, Goto, TypeOK
<1>5. ASSUME NEW t \in Thread, Refresh(t) \/ Session(t) \/ Commit(t)
      PROVE  FALSE
  <2>1. pc[t] \in CommitLabel \cup {"read", "session"}
    BY <1>5
    DEF Refresh, ReadDeviceFile, ReadDeviceFileFails, Session, SessionGranted,
        SessionReplyLost, SessionUnreachable, SessionRefused, SessionEmpty, Commit,
        SetToken, SetExpiry, OpenEnvFile, WriteEnvToken, WriteEnvExpiry,
        UnlinkSecret, OpenDeviceFile, WriteDeviceFile, CommitLabel
  <2>2. CASE t = Main
    <3>1. \/ ProcessExit \/ Abandon(t) \/ ReturnToken(t)
          \/ \E l \in CommitLabel \cup {"session"} : Goto(t, l)
      BY <1>5
      DEF Refresh, ReadDeviceFile, ReadDeviceFileFails, Session, SessionGranted,
          SessionReplyLost, SessionUnreachable, SessionRefused, SessionEmpty, Commit,
          SetToken, SetExpiry, OpenEnvFile, WriteEnvToken, WriteEnvExpiry,
          UnlinkSecret, OpenDeviceFile, WriteDeviceFile, CommitLabel, Throw,
          ReturnFailure
    <3> QED
      BY <2>2, <3>1
      DEF ProcessExit, Abandon, ReturnToken, Goto, CommitLabel, TypeOK
  <2>3. CASE t # Main
    <3>1. pc[Main] = "serve"
      BY <2>1, <2>3 DEF BootAlone, CommitLabel
    <3>2. \/ ProcessExit \/ Abandon(t) \/ ReturnToken(t)
          \/ \E l \in CommitLabel \cup {"session"} : Goto(t, l)
      BY <1>5
      DEF Refresh, ReadDeviceFile, ReadDeviceFileFails, Session, SessionGranted,
          SessionReplyLost, SessionUnreachable, SessionRefused, SessionEmpty, Commit,
          SetToken, SetExpiry, OpenEnvFile, WriteEnvToken, WriteEnvExpiry,
          UnlinkSecret, OpenDeviceFile, WriteDeviceFile, CommitLabel, Throw,
          ReturnFailure
    <3> QED
      BY <2>3, <3>1, <3>2
      DEF ProcessExit, Abandon, ReturnToken, Goto, CommitLabel, TypeOK
  <2> QED
    BY <2>2, <2>3
<1> QED
  BY <1>1, <1>2, <1>4, <1>5 DEF Next

(* A secret that was used stays so. *)
LEMMA RegisteredGrows ==
  ASSUME [Next]_vars
  PROVE  registered \subseteq registered'
<1>1. CASE SetTokenTool \/ Start \/ Stop \/ Crash \/ Setup \/ UNCHANGED vars
  BY <1>1
  DEF SetTokenTool, ClearEnvFile, RemoveTokenIfExists, SaveSecretToken, Start,
      Stop, Crash, Setup, SetupFoundValid, SetupFoundExpired, SetupNotFound,
      ActivateDevice, ActivationFails, OpenActivationFile, WriteActivationFile,
      vars, backend
<1>2. ASSUME NEW w \in Worker, NEW site \in {"noTry", "inTry"}, BeginRefresh(w, site)
      PROVE  registered' = registered
  BY <1>2 DEF BeginRefresh, backend
<1>3. ASSUME NEW t \in Thread, Refresh(t) \/ Session(t) \/ Commit(t)
      PROVE  registered' = registered
  BY <1>3
  DEF Refresh, ReadDeviceFile, ReadDeviceFileFails, Session, SessionGranted,
      SessionReplyLost, SessionUnreachable, SessionRefused, SessionEmpty, Commit,
      SetToken, SetExpiry, OpenEnvFile, WriteEnvToken, WriteEnvExpiry,
      UnlinkSecret, OpenDeviceFile, WriteDeviceFile, backend
<1> QED
  BY <1>1, <1>2, <1>3 DEF Next
-----------------------------------------------------------------------------
(* PublishInv. *)

(* TokenOfSession: by what a step does to the sessions being published. *)
LEMMA TokenOfSessionNext ==
  ASSUME IndInv, TokenOfSession, [Next]_vars
  PROVE  TokenOfSession'
<1> SUFFICES ASSUME NEW u \in Thread, Committing(u)'
             PROVE  token'[u] = [id |-> params'[u].id, hash |-> HashNumber(params'[u])]
  BY DEF TokenOfSession, HashNumber
<1>1. CASE Committing(u) /\ token'[u] = token[u] /\ params'[u] = params[u]
  BY <1>1 DEF TokenOfSession
<1>2. CASE SessionGranted(u)
  BY <1>2 DEF SessionGranted, IndInv, TypeOK
<1> QED
  BY <1>1, <1>2, CommitStep DEF IndInv

(* The token that a thread publishes carries the last number accepted. *)
LEMMA PublishedIsLast ==
  ASSUME IndInv, TokenOfSession, NEW t \in Thread, Committing(t)
  PROVE  /\ token[t].id = params[t].id /\ token[t].id \in Secret
         /\ token[t].hash = lastHash[token[t].id]
<1>1. params[t].id \in Secret
  BY DEF IndInv, CallerSeq, Committing, Busy, TypeOK, Params
<1>2. token[t] = [id |-> params[t].id, hash |-> HashNumber(params[t])]
  BY DEF TokenOfSession
<1>3. lastHash[params[t].id] = HashNumber(params[t])
  BY DEF IndInv, CommitAhead
<1> QED
  BY <1>1, <1>2, <1>3

(* TokenBehind: by what a step does to the two places that hold a token.   *)
LEMMA TokenBehindNext ==
  ASSUME IndInv, IndInv', TokenOfSession, TokenBehind, [Next]_vars
  PROVE  TokenBehind'
<1>1. Grows /\ TypeOK /\ TypeOK'
  BY HashGrows DEF IndInv
<1>2. ASSUME NEW k \in Token,
             \/ k \in {env.token, envFile.token, NoToken}
             \/ \E t \in Thread : Committing(t) /\ k = token[t],
             k.id # None
      PROVE  k.hash <= lastHash'[k.id]
  <2>1. k.id \in Secret /\ k.hash \in Nat
    BY <1>2 DEF Token
  <2>2. k.hash <= lastHash[k.id]
    <3>1. CASE k \in {env.token, envFile.token}
      BY <1>2, <3>1 DEF TokenBehind
    <3>2. CASE k = NoToken
      BY <1>2, <3>2 DEF NoToken
    <3>3. ASSUME NEW t \in Thread, Committing(t), k = token[t]
          PROVE  k.hash <= lastHash[k.id]
      BY <2>1, <3>3, PublishedIsLast
    <3> QED
      BY <1>2, <3>1, <3>2, <3>3
  <2> QED
    BY <1>1, <2>1, <2>2 DEF Grows, TypeOK
<1>3. /\ env.token \in Token /\ envFile.token \in Token
      /\ env'.token \in Token /\ envFile'.token \in Token
  BY <1>1 DEF TypeOK, Env
<1>4. NoEnv.token = NoToken
  BY DEF NoEnv
<1>5. env'.token.id # None => env'.token.hash <= lastHash'[env'.token.id]
  BY <1>1, <1>2, <1>3, <1>4, EnvStep DEF Committing, CommitLabel
<1>6. envFile'.token.id # None => envFile'.token.hash <= lastHash'[envFile'.token.id]
  BY <1>1, <1>2, <1>3, <1>4, EnvFileStep DEF Committing, CommitLabel
<1> QED
  BY <1>5, <1>6 DEF TokenBehind

(* FreshDevice: only a registered device is granted a session. *)
LEMMA FreshDeviceNext ==
  ASSUME IndInv, IndInv', FreshDevice, [Next]_vars
  PROVE  FreshDevice'
<1>1. TypeOK /\ BootAlone
  BY DEF IndInv
<1>2. ASSUME NEW s \in Secret, s \notin registered'
      PROVE  lastHash'[s] = 0
  <2>1. s \notin registered /\ lastHash[s] = 0
    BY <1>2, RegisteredGrows DEF FreshDevice
  <2> QED
    BY <1>1, <2>1, HashStep DEF Accept, Accepts, TypeOK
<1>3. ASSUME pc'[Main] \in ActivationLabel
      PROVE  lastHash'[params'[Main].id] = 0
  BY <1>1, <1>3, ActivationStep DEF FreshDevice, ActivationLabel
<1> QED
  BY <1>2, <1>3 DEF FreshDevice, ActivationLabel

(* The labels at which main() has set one of the variables, or both. *)
TokenSetLabel  == {"serve"} \cup (CommitLabel \ {"setToken"})
ExpirySetLabel == {"serve"} \cup (CommitLabel \ {"setToken", "setExpiry"})

(* A variable that is set stays so while the process lives: what replaces  *)
(* it is the token of a granted session.                                   *)
LEMMA EnvStaysSet ==
  ASSUME IndInv, TokenOfSession, [Next]_vars, pc[Main] # "off", pc'[Main] # "off"
  PROVE  /\ HasToken(env) => HasToken(env')
         /\ HasExpiry(env) => HasExpiry(env')
<1>0. TypeOK /\ \A t \in Thread : Committing(t) => token[t].id # None
  BY PublishedIsLast, NoneAssumption DEF IndInv
<1>1. CASE SetTokenTool \/ Start \/ Stop \/ Crash \/ UNCHANGED vars
  BY <1>1
  DEF SetTokenTool, ClearEnvFile, RemoveTokenIfExists, SaveSecretToken, Start,
      Stop, Crash, ProcessExit, vars, process
<1>2. CASE Setup
  BY <1>2
  DEF Setup, SetupFoundValid, SetupFoundExpired, SetupNotFound, ActivateDevice,
      ActivationFails, OpenActivationFile, WriteActivationFile, ReturnFailure,
      ProcessExit
<1>3. ASSUME NEW w \in Worker, NEW site \in {"noTry", "inTry"}, BeginRefresh(w, site)
      PROVE  env' = env
  BY <1>3 DEF BeginRefresh
<1>4. ASSUME NEW t \in Thread, Refresh(t) \/ Session(t)
      PROVE  env' = env
  BY <1>4
  DEF Refresh, ReadDeviceFile, ReadDeviceFileFails, Session, SessionGranted,
      SessionReplyLost, SessionUnreachable, SessionRefused, SessionEmpty, Throw,
      ReturnFailure, ProcessExit, Abandon
<1>5. ASSUME NEW t \in Thread, Commit(t)
      PROVE  \/ env' = env
             \/ Committing(t) /\ env' = [env EXCEPT !.token = token[t]]
             \/ Committing(t) /\ env' = [env EXCEPT !.expiry = token[t]]
  BY <1>5
  DEF Commit, SetToken, SetExpiry, OpenEnvFile, WriteEnvToken, WriteEnvExpiry,
      UnlinkSecret, OpenDeviceFile, WriteDeviceFile, ReturnFailure, ProcessExit,
      Abandon, Committing, CommitLabel
<1>6. ASSUME NEW t \in Thread, Commit(t)
      PROVE  /\ HasToken(env) => HasToken(env')
             /\ HasExpiry(env) => HasExpiry(env')
  BY <1>0, <1>5, <1>6 DEF HasToken, HasExpiry, TypeOK, Env
<1> QED
  BY <1>1, <1>2, <1>3, <1>4, <1>6 DEF Next

(* main() gets to these labels from each other, from a valid session found *)
(* by setup(), or by setting the variable.                                 *)
LEMMA MainStep ==
  ASSUME TypeOK, BootAlone, [Next]_vars
  PROVE  /\ pc'[Main] \in TokenSetLabel =>
              \/ pc[Main] \in TokenSetLabel
              \/ pc[Main] # "off" /\ SetupFoundValid
              \/ pc[Main] = "setToken" /\ env' = [env EXCEPT !.token = token[Main]]
         /\ pc'[Main] \in ExpirySetLabel =>
              \/ pc[Main] \in ExpirySetLabel
              \/ pc[Main] # "off" /\ SetupFoundValid
              \/ pc[Main] = "setExpiry" /\ env' = [env EXCEPT !.expiry = token[Main]]
         /\ pc'[Main] = "off" => (pc[Main] = "off" /\ env' = env) \/ env' = NoEnv
<1> USE DEF TokenSetLabel, ExpirySetLabel, CommitLabel
<1>1. CASE SetTokenTool \/ Start \/ Stop \/ Crash \/ UNCHANGED vars
  BY <1>1
  DEF SetTokenTool, ClearEnvFile, RemoveTokenIfExists, SaveSecretToken, Start,
      Stop, Crash, ProcessExit, Goto, vars, process, TypeOK
<1>2. CASE Setup
  BY <1>2
  DEF Setup, SetupFoundValid, SetupFoundExpired, SetupNotFound, ActivateDevice,
      ActivationFails, OpenActivationFile, WriteActivationFile, ReturnFailure,
      ProcessExit, ReturnToken, Goto, TypeOK
<1>3. ASSUME NEW w \in Worker, NEW site \in {"noTry", "inTry"}, BeginRefresh(w, site)
      PROVE  pc'[Main] = pc[Main] /\ env' = env
  BY <1>3, ThreadAssumption DEF BeginRefresh, Goto, TypeOK
<1>4. ASSUME NEW t \in Thread, Refresh(t) \/ Session(t)
      PROVE  \/ ProcessExit
             \/ /\ pc'[Main] \in {pc[Main], "idle", "session", "setToken"}
                /\ env' = env
  BY <1>4
  DEF Refresh, ReadDeviceFile, ReadDeviceFileFails, Session, SessionGranted,
      SessionReplyLost, SessionUnreachable, SessionRefused, SessionEmpty, Throw,
      ReturnFailure, Abandon, Goto, TypeOK
<1>5. ASSUME NEW t \in Thread, Commit(t), t # Main
      PROVE  ProcessExit \/ (pc'[Main] = pc[Main] /\ pc[Main] # "off")
  <2>1. ProcessExit \/ Abandon(t) \/ ReturnToken(t) \/ \E l \in CommitLabel : Goto(t, l)
    BY <1>5
    DEF Commit, SetToken, SetExpiry, OpenEnvFile, WriteEnvToken, WriteEnvExpiry,
        UnlinkSecret, OpenDeviceFile, WriteDeviceFile, ReturnFailure
  <2>2. pc[t] # "off"
    BY <1>5
    DEF Commit, SetToken, SetExpiry, OpenEnvFile, WriteEnvToken, WriteEnvExpiry,
        UnlinkSecret, OpenDeviceFile, WriteDeviceFile
  <2>3. pc[Main] # "off"
    BY <1>5, <2>2 DEF BootAlone
  <2> QED
    BY <1>5, <2>1, <2>3 DEF Abandon, ReturnToken, Goto, TypeOK
<1>6. ASSUME Commit(Main)
      PROVE  \/ ProcessExit
             \/ pc[Main] = "setToken" /\ pc'[Main] = "setExpiry"
                /\ env' = [env EXCEPT !.token = token[Main]]
             \/ pc[Main] = "setExpiry" /\ pc'[Main] = "openEnv"
                /\ env' = [env EXCEPT !.expiry = token[Main]]
             \/ pc[Main] \in ExpirySetLabel /\ pc'[Main] # "off"
  BY <1>6
  DEF Commit, SetToken, SetExpiry, OpenEnvFile, WriteEnvToken, WriteEnvExpiry,
      UnlinkSecret, OpenDeviceFile, WriteDeviceFile, ReturnFailure, ReturnToken,
      Goto, TypeOK
<1>7. CASE ProcessExit
  BY <1>7 DEF ProcessExit
<1> QED
  BY <1>1, <1>2, <1>3, <1>4, <1>5, <1>6, <1>7 DEF Next

(* EnvSet: what is set stays set, and main() passes through the steps that *)
(* set the variables.                                                      *)
LEMMA EnvSetNext ==
  ASSUME IndInv, IndInv', TokenOfSession, EnvSet, [Next]_vars
  PROVE  EnvSet'
<1>0. TypeOK /\ BootAlone /\ env \in Env
  BY DEF IndInv, TypeOK
<1>1. /\ pc[Main] \in TokenSetLabel  => HasToken(env)
      /\ pc[Main] \in ExpirySetLabel => HasExpiry(env)
      /\ pc[Main] = "off" => env = NoEnv
  BY DEF EnvSet, TokenSetLabel, ExpirySetLabel
<1>2. /\ "off" \notin TokenSetLabel /\ "off" \notin ExpirySetLabel
      /\ "setToken" \in CommitLabel /\ "setExpiry" \in CommitLabel
  BY DEF TokenSetLabel, ExpirySetLabel, CommitLabel
<1>3. SetupFoundValid => HasToken(env') /\ HasExpiry(env')
  BY DEF SetupFoundValid, HasToken, HasExpiry
<1>4. Committing(Main) => token[Main].id # None
  BY PublishedIsLast, NoneAssumption
<1>5. ASSUME pc'[Main] \in TokenSetLabel
      PROVE  HasToken(env')
  <2>1. CASE pc[Main] \in TokenSetLabel
    BY <1>1, <1>2, <1>5, <2>1, EnvStaysSet
  <2>2. CASE pc[Main] = "setToken" /\ env' = [env EXCEPT !.token = token[Main]]
    BY <1>0, <1>2, <1>4, <2>2 DEF Committing, HasToken, Env
  <2> QED
    BY <1>0, <1>3, <1>5, <2>1, <2>2, MainStep
<1>6. ASSUME pc'[Main] \in ExpirySetLabel
      PROVE  HasExpiry(env')
  <2>1. CASE pc[Main] \in ExpirySetLabel
    BY <1>1, <1>2, <1>6, <2>1, EnvStaysSet
  <2>2. CASE pc[Main] = "setExpiry" /\ env' = [env EXCEPT !.expiry = token[Main]]
    BY <1>0, <1>2, <1>4, <2>2 DEF Committing, HasExpiry, Env
  <2> QED
    BY <1>0, <1>3, <1>6, <2>1, <2>2, MainStep
<1>7. pc'[Main] = "off" => env' = NoEnv
  BY <1>0, <1>1, MainStep
<1> QED
  BY <1>5, <1>6, <1>7 DEF EnvSet, TokenSetLabel, ExpirySetLabel

(* The four parts on a new machine. *)
LEMMA PublishInit == Init => PublishInv
BY DEF Init, PublishInv, TokenOfSession, TokenBehind, FreshDevice, EnvSet,
       Committing, CommitLabel, NoEnv, NoToken

(* PublishInv is inductive relative to IndInv. *)
THEOREM Published == Spec => [](IndInv /\ PublishInv)
<1>1. IndInv /\ PublishInv /\ [Next]_vars => IndInv' /\ PublishInv'
  BY IndNext, TokenOfSessionNext, TokenBehindNext, FreshDeviceNext, EnvSetNext
  DEF PublishInv
<1> QED
  BY <1>1, IndInit, PublishInit, PTL DEF Spec
-----------------------------------------------------------------------------
(* What follows. *)

(* Neither a client handler nor the periodic thread ever builds a string   *)
(* from a variable that is not set.                                        *)
THEOREM Complete == Spec => []EnvComplete
<1>1. PublishInv => EnvComplete
  BY DEF PublishInv, EnvSet, EnvComplete
<1> QED
  BY <1>1, Published, PTL

(* The access token of a device never goes back in the environment of the  *)
(* process, whichever threads refresh it and in whatever order.            *)
THEOREM NoRegress == Spec => TokenNeverRegresses
<1>1. IndInv /\ PublishInv /\ IndInv' /\ [Next]_vars =>
        [ env.token.id # None /\ env'.token.id = env.token.id
            => env'.token.hash >= env.token.hash ]_env
  <2> SUFFICES ASSUME IndInv, PublishInv, IndInv', [Next]_vars,
                      env.token.id # None, env'.token.id = env.token.id
               PROVE  env'.token.hash >= env.token.hash
    OBVIOUS
  <2>1. TypeOK /\ TokenOfSession /\ TokenBehind
    BY DEF IndInv, PublishInv
  <2>2. env.token.hash \in Nat /\ env.token.id \in Secret
    BY <2>1 DEF TypeOK, Env, Token
  <2>3. CASE env'.token = env.token
    BY <2>2, <2>3
  <2>4. CASE env' = NoEnv
    BY <2>4 DEF NoEnv, NoToken
  <2>5. CASE pc[Main] = "off"
    BY <2>5 DEF PublishInv, EnvSet, NoEnv, NoToken
  <2>6. ASSUME NEW t \in Thread, pc[t] = "setToken", env'.token = token[t]
        PROVE  env'.token.hash >= env.token.hash
    <3>1. env'.token.hash = lastHash[env.token.id]
      BY <2>1, <2>6, PublishedIsLast DEF Committing, CommitLabel
    <3>2. env.token.hash <= lastHash[env.token.id] /\ lastHash[env.token.id] \in Nat
      BY <2>1, <2>2 DEF TokenBehind, TypeOK
    <3> QED
      BY <2>2, <3>1, <3>2
  <2> QED
    BY <2>1, <2>3, <2>4, <2>5, <2>6, EnvStep
<1> QED
  BY <1>1, Published, PTL DEF Spec, TokenNeverRegresses

(* No refresh overwrites the sequence number of a later one: what is saved *)
(* is the last number that the backend accepted.                           *)
THEOREM SavedLatest == Spec => SaveIsLatest
<1>1. IndInv /\ PublishInv /\ [Next]_vars =>
        [ deviceFile'.id # None
            => deviceFile'.seq = IF lastHash[deviceFile'.id] = 0
                                   THEN 0
                                   ELSE lastHash[deviceFile'.id] - 1 ]_deviceFile
  <2> SUFFICES ASSUME IndInv, PublishInv, [Next]_vars,
                      deviceFile' # deviceFile, deviceFile'.id # None
               PROVE  deviceFile'.seq = IF lastHash[deviceFile'.id] = 0
                                          THEN 0
                                          ELSE lastHash[deviceFile'.id] - 1
    OBVIOUS
  <2>1. deviceFile' # NoParams
    BY DEF NoParams
  <2>2. CASE pc[Main] = "writeActivation" /\ deviceFile' = params[Main]
    BY <2>2 DEF IndInv, CallerSeq, PublishInv, FreshDevice
  <2>3. ASSUME NEW t \in Thread, pc[t] = "writeDevice", deviceFile' = params[t]
        PROVE  /\ lastHash[deviceFile'.id] # 0
               /\ deviceFile'.seq = lastHash[deviceFile'.id] - 1
    <3>1. lastHash[params[t].id] = params[t].seq + 1
      BY <2>3 DEF IndInv, CommitAhead, Committing, CommitLabel, HashNumber
    <3>2. params[t].seq \in Nat
      BY DEF IndInv, TypeOK, Params
    <3> QED
      BY <2>3, <3>1, <3>2
  <2> QED
    BY <2>1, <2>2, <2>3, DeviceFileStep
<1> QED
  BY <1>1, Published, PTL DEF Spec, SaveIsLatest
================================================================================
