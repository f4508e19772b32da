------------------------ MODULE AccessTokenStoreProofs ------------------------
(***************************************************************************)
(* The two halves of a session stay together, and AccessToken implements   *)
(* SessionStore, for any number of threads and secrets, any bound and any  *)
(* set of failures.  The last four sections prove what in addition holds   *)
(* of a server that is spared some failures, or that has one refreshing    *)
(* thread: each theorem names what it is spared.                           *)
(*                                                                         *)
(* PairInv says where in its commit the one committing thread is, in terms *)
(* of the two variables and of the file; it is inductive relative to       *)
(* IndInv and PublishInv.  With it every step of AccessToken is one step   *)
(* of SessionStore on the four cells, or none.                             *)
(***************************************************************************)
EXTENDS AccessTokenSaveProofs

USE DEF Thread

-----------------------------------------------------------------------------
(* Numbers are not skipped. *)

(* What a request carries is the next number of its device, at most,       *)
(* however old the file is that it was read from; number 1 may be skipped. *)
THEOREM NoSkip == Spec => []HashNeverSkips
<1>1. IndInv => HashNeverSkips
  <2> SUFFICES ASSUME IndInv, NEW t \in Thread, pc[t] = "session"
               PROVE  \/ HashNumber(params[t]) <= lastHash[params[t].id] + 1
                      \/ lastHash[params[t].id] = 0 /\ HashNumber(params[t]) = 2
    BY DEF HashNeverSkips
  <2>1. params[t].id \in Secret /\ params[t].seq \in Nat
    BY DEF IndInv, CallerSeq, Busy, TypeOK, Params
  <2>2. lastHash[params[t].id] \in Nat
    BY <2>1 DEF IndInv, TypeOK
  <2>3. params[t].seq <= 1 \/ params[t].seq <= lastHash[params[t].id]
    BY DEF IndInv, SessionBehind
  <2> QED
    BY <2>1, <2>2, <2>3 DEF HashNumber
<1> QED
  BY <1>1, Inductive, PTL
-----------------------------------------------------------------------------
(* The whole of the environment and of its file, one step at a time. *)

(* The environment is replaced at a start and at the end of the process,   *)
(* and one variable of it is set by a thread that publishes.               *)
LEMMA EnvWholeStep ==
  ASSUME TypeOK, [Next]_vars
  PROVE  \/ env' = env
         \/ env' = NoEnv
         \/ pc[Main] = "off" /\ env' = envFile
         \/ \E t \in Thread : /\ pc[t] = "setToken" /\ pc'[t] = "setExpiry"
                              /\ env' = [env EXCEPT !.token = token[t]]
         \/ \E t \in Thread : /\ pc[t] = "setExpiry"
                              /\ env' = [env EXCEPT !.expiry = token[t]]
<1>1. CASE SetTokenTool \/ Start \/ Stop \/ Crash \/ UNCHANGED vars
  BY <1>1
  DEF SetTokenTool, ClearEnvFile, RemoveTokenIfExists, SaveSecretToken, Start,
      Stop, Crash, ProcessExit, vars, process
<1>2. CASE Setup
  BY <1>2
  DEF Setup, SetupFoundValid, SetupFoundExpired, SetupNotFound, ActivateDevice,
      ActivationFails, OpenActivationFile, WriteActivationFile, ReturnFailure,
      ProcessExit, Abandon
<1>3. ASSUME NEW w \in Worker, NEW site \in {"noTry", "inTry"}, BeginRefresh(w, site)
      PROVE  env' = env
  BY <1>3 DEF BeginRefresh
<1>4. ASSUME NEW t \in Thread, Refresh(t) \/ Session(t)
      PROVE  env' = env \/ env' = NoEnv
  BY <1>4
  DEF Refresh, ReadDeviceFile, ReadDeviceFileFails, Session, SessionGranted,
      SessionReplyLost, SessionUnreachable, SessionRefused, SessionEmpty, Throw,
      ReturnFailure, ProcessExit, Abandon
<1>5. ASSUME NEW t \in Thread, Commit(t)
      PROVE  \/ env' = env
             \/ env' = NoEnv
             \/ /\ pc[t] = "setToken" /\ pc'[t] = "setExpiry"
                /\ env' = [env EXCEPT !.token = token[t]]
             \/ /\ pc[t] = "setExpiry"
                /\ env' = [env EXCEPT !.expiry = token[t]]
  BY <1>5
  DEF Commit, SetToken, SetExpiry, OpenEnvFile, WriteEnvToken, WriteEnvExpiry,
      UnlinkSecret, OpenDeviceFile, WriteDeviceFile, ReturnFailure, ProcessExit,
      Abandon, Goto, TypeOK
<1> QED
  BY <1>1, <1>2, <1>3, <1>4, <1>5 DEF Next

(* The environment file is emptied, or gets one line from a thread that    *)
(* stores the session it has published.                                    *)
LEMMA EnvFileWholeStep ==
  ASSUME [Next]_vars
  PROVE  \/ envFile' \in {envFile, NoEnv}
         \/ \E t \in Thread : /\ pc[t] = "writeEnvToken"
                              /\ envFile' = [envFile EXCEPT !.token = token[t]]
         \/ \E t \in Thread : /\ pc[t] = "writeEnvExpiry"
                              /\ envFile' = [envFile EXCEPT !.expiry = token[t]]
<1>1. CASE SetTokenTool \/ Start \/ Stop \/ Crash \/ UNCHANGED vars
  BY <1>1
  DEF SetTokenTool, ClearEnvFile, RemoveTokenIfExists, SaveSecretToken, Start,
      Stop, Crash, vars, disk
<1>2. CASE Setup
  BY <1>2
  DEF Setup, SetupFoundValid, SetupFoundExpired, SetupNotFound, ActivateDevice,
      ActivationFails, OpenActivationFile, WriteActivationFile, disk
<1>3. ASSUME NEW w \in Worker, NEW site \in {"noTry", "inTry"}, BeginRefresh(w, site)
      PROVE  envFile' = envFile
  BY <1>3 DEF BeginRefresh, disk
<1>4. ASSUME NEW t \in Thread, Refresh(t) \/ Session(t)
      PROVE  envFile' = envFile
  BY <1>4
  DEF Refresh, ReadDeviceFile, ReadDeviceFileFails, Session, SessionGranted,
      SessionReplyLost, SessionUnreachable, SessionRefused, SessionEmpty, disk
<1>5. ASSUME NEW t \in Thread, Commit(t)
      PROVE  \/ envFile' \in {envFile, NoEnv}
             \/ /\ pc[t] = "writeEnvToken"
                /\ envFile' = [envFile EXCEPT !.token = token[t]]
             \/ /\ pc[t] = "writeEnvExpiry"
                /\ envFile' = [envFile EXCEPT !.expiry = token[t]]
  BY <1>5
  DEF Commit, SetToken, SetExpiry, OpenEnvFile, WriteEnvToken, WriteEnvExpiry,
      UnlinkSecret, OpenDeviceFile, WriteDeviceFile, disk
<1> QED
  BY <1>1, <1>2, <1>3, <1>4, <1>5 DEF Next

(* While a thread commits, the others leave it, the environment and what   *)
(* it has written of the file alone; set_token may empty the file.         *)
LEMMA OthersKeepOut ==
  ASSUME IndInv, [Next]_vars, NEW u \in Thread, Committing(u), Committing(u)'
  PROVE  \/ Commit(u)
         \/ pc'[u] = pc[u] /\ env' = env /\ envFile' \in {envFile, NoEnv}
<1>0. /\ TypeOK
      /\ pc[Main] # "serve" => u = Main
      /\ \A t \in Thread : Committing(t) => t = u
  BY DEF IndInv, BootAlone, RefreshExclusive, Committing, CommitLabel
<1>1. CASE SetTokenTool \/ UNCHANGED vars
  BY <1>1
  DEF SetTokenTool, ClearEnvFile, RemoveTokenIfExists, SaveSecretToken, vars,
      process, disk
<1>2. CASE Start \/ Setup
  BY <1>0, <1>2
  DEF Start, Setup, SetupFoundValid, SetupFoundExpired, SetupNotFound,
      ActivateDevice, ActivationFails, OpenActivationFile, WriteActivationFile,
      Committing, CommitLabel
<1>3. CASE ProcessExit
  BY <1>3 DEF ProcessExit, Committing, CommitLabel
<1>4. ASSUME NEW w \in Worker, NEW site \in {"noTry", "inTry"}, BeginRefresh(w, site)
      PROVE  pc'[u] = pc[u] /\ env' = env /\ envFile' = envFile
  BY <1>0, <1>4 DEF BeginRefresh, Goto, disk, Committing, CommitLabel, TypeOK
<1>5. ASSUME NEW t \in Thread, Refresh(t) \/ Session(t), ~ProcessExit
      PROVE  pc'[u] = pc[u] /\ env' = env /\ envFile' = envFile
  <2>1. pc[t] \in {"read", "session"} /\ envFile' = envFile /\ env' = env
    BY <1>5
    DEF Refresh, ReadDeviceFile, ReadDeviceFileFails, Session, SessionGranted,
        SessionReplyLost, SessionUnreachable, SessionRefused, SessionEmpty, disk,
        Throw, ReturnFailure, Abandon
  <2>2. t # u
    BY <2>1 DEF Committing, CommitLabel
  <2>3. \E l \in Label : Goto(t, l)
    BY <1>5
    DEF Refresh, ReadDeviceFile, ReadDeviceFileFails, Session, SessionGranted,
        SessionReplyLost, SessionUnreachable, SessionRefused, SessionEmpty,
        Throw, ReturnFailure, Abandon, Label, CommitLabel
  <2> QED
    BY <1>0, <2>1, <2>2, <2>3 DEF Goto, TypeOK
<1>6. ASSUME NEW t \in Thread, Commit(t)
      PROVE  t = u
  BY <1>0, <1>6
  DEF Commit, SetToken, SetExpiry, OpenEnvFile, WriteEnvToken, WriteEnvExpiry,
      UnlinkSecret, OpenDeviceFile, WriteDeviceFile, Committing, CommitLabel
<1> QED
  BY <1>1, <1>2, <1>3, <1>4, <1>5, <1>6 DEF Next, Stop, Crash
-----------------------------------------------------------------------------
(* PairInv. *)

(* A thread that commits has published a typed token, and the others are   *)
(* not committing.                                                         *)
LEMMA CommitFacts ==
  ASSUME IndInv, TokenOfSession, NEW t \in Thread, Committing(t)
  PROVE  /\ token[t] \in Token /\ token[t].id \in Secret /\ token[t].hash \in Nat
         /\ token[t].hash = lastHash[token[t].id]
         /\ \A u \in Thread : Committing(u) => u = t
BY PublishedIsLast DEF IndInv, RefreshExclusive, TypeOK, Token

(* EnvOfSession: what the committing thread has set so far. *)
LEMMA EnvOfSessionNext ==
  ASSUME IndInv, IndInv', TokenOfSession, PairInv, [Next]_vars
  PROVE  EnvOfSession'
<1> USE DEF Committing, CommitLabel
<1>0. TypeOK /\ env \in Env
  BY DEF IndInv, TypeOK
<1> SUFFICES ASSUME NEW t \in Thread, Committing(t)'
             PROVE  /\ pc'[t] # "setToken" => env'.token = token'[t]
                    /\ pc'[t] \notin {"setToken", "setExpiry"} =>
                         env'.expiry = token'[t]
                    /\ pc'[t] \in {"setToken", "setExpiry"} =>
                         ExpiryOlder(env', token'[t])
  BY DEF EnvOfSession, ExpiryOlder
<1>1. CASE SessionGranted(t)
  <2>1. /\ pc'[t] = "setToken" /\ env' = env
        /\ token'[t] = [id |-> params[t].id, hash |-> HashNumber(params[t])]
        /\ params[t].id \in registered
        /\ HashNumber(params[t]) > lastHash[params[t].id]
    BY <1>0, <1>1 DEF SessionGranted, Accept, Accepts, Goto, TypeOK
  <2>2. /\ lastHash[params[t].id] \in Nat /\ HashNumber(params[t]) \in Nat
        /\ params[t].id # None /\ env.expiry.hash \in Nat
    BY <1>0, <2>1, NoneAssumption DEF TypeOK, Params, HashNumber, Env, Token
  <2>3. env.expiry.id = params[t].id => env.expiry.hash <= lastHash[params[t].id]
    BY <2>2 DEF PairInv, ExpiryBehind
  <2> QED
    BY <2>1, <2>2, <2>3 DEF ExpiryOlder
<1>2. CASE Committing(t) /\ token'[t] = token[t]
  <2>1. CASE pc'[t] = pc[t] /\ env' = env
    BY <1>2, <2>1 DEF PairInv, EnvOfSession
  <2>2. CASE Commit(t)
    <3>1. CASE SetToken(t)
      BY <1>0, <1>2, <3>1
      DEF SetToken, ReturnFailure, ProcessExit, Abandon, Goto, TypeOK, Env,
          PairInv, EnvOfSession, ExpiryOlder
    <3>2. CASE SetExpiry(t)
      BY <1>0, <1>2, <3>2
      DEF SetExpiry, ReturnFailure, ProcessExit, Abandon, Goto, TypeOK, Env,
          PairInv, EnvOfSession
    <3>3. CASE ~SetToken(t) /\ ~SetExpiry(t)
      <4>1. /\ env' = env /\ pc[t] \notin {"setToken", "setExpiry"}
            /\ \/ ReturnToken(t)
               \/ \E l \in CommitLabel \ {"setToken", "setExpiry"} : Goto(t, l)
        BY <2>2, <3>3
        DEF Commit, OpenEnvFile, WriteEnvToken, WriteEnvExpiry, UnlinkSecret,
            OpenDeviceFile, WriteDeviceFile
      <4>2. pc'[t] \notin {"setToken", "setExpiry"}
        BY <1>0, <4>1 DEF ReturnToken, Goto, TypeOK
      <4> QED
        BY <1>2, <4>1, <4>2 DEF PairInv, EnvOfSession
    <3> QED
      BY <3>1, <3>2, <3>3
  <2> QED
    BY <1>2, <2>1, <2>2, OthersKeepOut
<1> QED
  BY <1>0, <1>1, <1>2, CommitStep

(* FileOfSession: what it has written so far. *)
LEMMA FileOfSessionNext ==
  ASSUME IndInv, IndInv', TokenOfSession, PairInv, [Next]_vars
  PROVE  FileOfSession'
<1> USE DEF Committing, CommitLabel
<1>0. TypeOK /\ envFile \in Env
  BY DEF IndInv, TypeOK
<1> SUFFICES ASSUME NEW t \in Thread, pc'[t] \in {"writeEnvToken", "writeEnvExpiry"}
             PROVE  /\ pc'[t] = "writeEnvToken" => envFile' = NoEnv
                    /\ pc'[t] = "writeEnvExpiry" =>
                         /\ envFile'.token \in {token'[t], NoToken}
                         /\ envFile'.expiry = NoToken
  BY DEF FileOfSession
<1>1. ~SessionGranted(t)
  BY <1>0 DEF SessionGranted, Goto, TypeOK
<1>2. Committing(t) /\ token'[t] = token[t]
  BY <1>0, <1>1, CommitStep
<1>3. CASE pc'[t] = pc[t] /\ envFile' \in {envFile, NoEnv}
  BY <1>2, <1>3 DEF PairInv, FileOfSession, NoEnv
<1>4. CASE Commit(t)
  <2>1. \/ pc'[t] = "writeEnvToken" /\ envFile' = NoEnv
        \/ /\ pc[t] = "writeEnvToken" /\ pc'[t] = "writeEnvExpiry"
           /\ envFile' = [envFile EXCEPT !.token = token[t]]
    BY <1>0, <1>4
    DEF Commit, SetToken, SetExpiry, OpenEnvFile, WriteEnvToken, WriteEnvExpiry,
        UnlinkSecret, OpenDeviceFile, WriteDeviceFile, ReturnFailure, ReturnToken,
        ProcessExit, Abandon, Goto, TypeOK
  <2>2. pc[t] = "writeEnvToken" => envFile = NoEnv
    BY DEF PairInv, FileOfSession
  <2> QED
    BY <1>0, <1>2, <2>1, <2>2 DEF NoEnv, Env
<1> QED
  BY <1>2, <1>3, <1>4, OthersKeepOut

(* ExpiryBehind: by what a step does to the two places that hold one. *)
LEMMA ExpiryBehindNext ==
  ASSUME IndInv, IndInv', TokenOfSession, PairInv, [Next]_vars
  PROVE  ExpiryBehind'
<1>1. Grows /\ TypeOK /\ TypeOK' /\ env \in Env /\ envFile \in Env
  BY HashGrows DEF IndInv, TypeOK
<1>2. ASSUME NEW k \in Token,
             \/ k \in {env.expiry, envFile.expiry, NoToken}
             \/ \E t \in Thread : Committing(t) /\ k = token[t],
             k.id # None
      PROVE  k.hash <= lastHash'[k.id]
  <2>1. k.id \in Secret /\ k.hash \in Nat
    BY <1>2 DEF Token
  <2>2. k.hash <= lastHash[k.id]
    <3>1. CASE k \in {env.expiry, envFile.expiry}
      BY <1>2, <3>1 DEF PairInv, ExpiryBehind
    <3>2. CASE k = NoToken
      BY <1>2, <3>2 DEF NoToken
    <3>3. ASSUME NEW t \in Thread, Committing(t), k = token[t]
          PROVE  k.hash <= lastHash[k.id]
      BY <2>1, <3>3, PublishedIsLast
    <3> QED
      BY <1>2, <3>1, <3>2, <3>3
  <2> QED
    BY <1>1, <2>1, <2>2 DEF Grows, TypeOK
<1>3. /\ env'.expiry \in Token /\ envFile'.expiry \in Token
      /\ NoEnv.expiry = NoToken
  BY <1>1 DEF TypeOK, Env, NoEnv
<1>4. \/ env'.expiry \in {env.expiry, envFile.expiry, NoToken}
      \/ \E t \in Thread : Committing(t) /\ env'.expiry = token[t]
  BY <1>1, <1>3, EnvWholeStep DEF Env, Committing, CommitLabel
<1>5. \/ envFile'.expiry \in {env.expiry, envFile.expiry, NoToken}
      \/ \E t \in Thread : Committing(t) /\ envFile'.expiry = token[t]
  BY <1>1, <1>3, EnvFileWholeStep DEF Env, Committing, CommitLabel
<1>6. env'.expiry.id # None => env'.expiry.hash <= lastHash'[env'.expiry.id]
  BY <1>2, <1>3, <1>4
<1>7. envFile'.expiry.id # None =>
        envFile'.expiry.hash <= lastHash'[envFile'.expiry.id]
  BY <1>2, <1>3, <1>5
<1> QED
  BY <1>6, <1>7 DEF ExpiryBehind

(* An empty environment has no halves. *)
LEMMA EmptyPaired == Paired(NoEnv)
BY DEF Paired, NoEnv, NoToken, HasToken

(* EnvPaired, the half about the file. *)
LEMMA FilePairedNext ==
  ASSUME IndInv, TokenOfSession, PairInv, [Next]_vars
  PROVE  Paired(envFile')
<1>0. envFile \in Env
  BY DEF IndInv, TypeOK
<1>1. CASE envFile' \in {envFile, NoEnv}
  BY <1>1, EmptyPaired DEF PairInv, EnvPaired
<1>2. ASSUME NEW t \in Thread, pc[t] = "writeEnvToken",
             envFile' = [envFile EXCEPT !.token = token[t]]
      PROVE  Paired(envFile')
  <2>1. envFile'.expiry = NoToken
    BY <1>0, <1>2 DEF PairInv, FileOfSession, NoEnv, Env
  <2> QED
    BY <2>1 DEF Paired, HasExpiry, NoToken
<1>3. ASSUME NEW t \in Thread, pc[t] = "writeEnvExpiry",
             envFile' = [envFile EXCEPT !.expiry = token[t]]
      PROVE  Paired(envFile')
  <2>1. envFile'.token \in {token[t], NoToken} /\ envFile'.expiry = token[t]
    BY <1>0, <1>3 DEF PairInv, FileOfSession, Env
  <2> QED
    BY <2>1 DEF Paired, HasToken, NoToken
<1> QED
  BY <1>1, <1>2, <1>3, EnvFileWholeStep

(* A thread stops committing between the two variables only when setenv    *)
(* fails, or with the process.                                             *)
LEMMA SetExpiryLeft ==
  ASSUME IndInv, [Next]_vars, NEW t \in Thread,
         pc[t] = "setExpiry", ~Committing(t)', ~ProcessExit
  PROVE  "setenv" \in Faults
<1> USE DEF Committing, CommitLabel
<1>0. /\ TypeOK
      /\ pc[Main] # "serve" => t = Main
      /\ \A u \in Thread : Committing(u) => u = t
  BY DEF IndInv, BootAlone, RefreshExclusive
<1>1. CASE SetTokenTool \/ UNCHANGED vars
  BY <1>1
  DEF SetTokenTool, ClearEnvFile, RemoveTokenIfExists, SaveSecretToken, vars,
      process
<1>2. CASE Start \/ Setup
  BY <1>0, <1>2
  DEF Start, Setup, SetupFoundValid, SetupFoundExpired, SetupNotFound,
      ActivateDevice, ActivationFails, OpenActivationFile, WriteActivationFile
<1>3. ASSUME NEW w \in Worker, NEW site \in {"noTry", "inTry"}, BeginRefresh(w, site)
      PROVE  FALSE
  BY <1>0, <1>3 DEF BeginRefresh, Goto, TypeOK
<1>4. ASSUME NEW u \in Thread, Refresh(u) \/ Session(u)
      PROVE  FALSE
  <2>1. pc[u] \in {"read", "session"}
    BY <1>4
    DEF Refresh, ReadDeviceFile, ReadDeviceFileFails, Session, SessionGranted,
        SessionReplyLost, SessionUnreachable, SessionRefused, SessionEmpty
  <2>2. \E l \in Label : Goto(u, l)
    BY <1>4
    DEF Refresh, ReadDeviceFile, ReadDeviceFileFails, Session, SessionGranted,
        SessionReplyLost, SessionUnreachable, SessionRefused, SessionEmpty,
        Throw, ReturnFailure, Abandon, Label
  <2> QED
    BY <1>0, <2>1, <2>2 DEF Goto, TypeOK
<1>5. ASSUME NEW u \in Thread, Commit(u)
      PROVE  "setenv" \in Faults
  <2>1. u = t
    BY <1>0, <1>5
    DEF Commit, SetToken, SetExpiry, OpenEnvFile, WriteEnvToken, WriteEnvExpiry,
        UnlinkSecret, OpenDeviceFile, WriteDeviceFile
  <2>2. SetExpiry(t)
    BY <1>5, <2>1
    DEF Commit, SetToken, OpenEnvFile, WriteEnvToken, WriteEnvExpiry,
        UnlinkSecret, OpenDeviceFile, WriteDeviceFile
  <2> QED
    BY <1>0, <2>2 DEF SetExpiry, Goto, TypeOK
<1> QED
  BY <1>1, <1>2, <1>3, <1>4, <1>5 DEF Next, Stop, Crash

(* EnvPaired, the half about the process. *)
LEMMA ProcessPairedNext ==
  ASSUME IndInv, IndInv', TokenOfSession, PairInv, [Next]_vars
  PROVE  \/ \E t \in Thread : pc'[t] = "setExpiry"
         \/ Paired(env')
         \/ "setenv" \in Faults /\ ExpiryOlder(env', env'.token)
<1> USE DEF Committing, CommitLabel
<1>0. TypeOK /\ env \in Env /\ EnvPaired
  BY DEF IndInv, TypeOK, PairInv
<1>1. CASE env' = env
  <2>1. ASSUME NEW t \in Thread, pc[t] = "setExpiry"
        PROVE  \/ pc'[t] = "setExpiry"
               \/ Paired(env')
               \/ "setenv" \in Faults /\ ExpiryOlder(env', env'.token)
    <3>1. env.token = token[t] /\ ExpiryOlder(env, token[t])
      BY <2>1 DEF PairInv, EnvOfSession
    <3>2. CASE Committing(t)'
      <4>1. CASE Commit(t)
        <5>1. SetExpiry(t)
          BY <2>1, <4>1
          DEF Commit, SetToken, OpenEnvFile, WriteEnvToken, WriteEnvExpiry,
              UnlinkSecret, OpenDeviceFile, WriteDeviceFile
        <5> QED
          BY <1>0, <1>1, <3>1, <5>1 DEF SetExpiry, Paired, Env
      <4> QED
        BY <2>1, <3>2, <4>1, OthersKeepOut
    <3>3. CASE ~Committing(t)'
      <4>1. CASE ProcessExit
        BY <4>1, EmptyPaired DEF ProcessExit
      <4>2. CASE ~ProcessExit
        <5>1. "setenv" \in Faults
          BY <2>1, <3>3, <4>2, <1>0, SetExpiryLeft
        <5> QED
          BY <1>1, <3>1, <5>1
      <4> QED
        BY <4>1, <4>2
    <3> QED
      BY <3>2, <3>3
  <2> QED
    BY <1>0, <1>1, <2>1 DEF EnvPaired
<1>2. CASE env' = NoEnv
  BY <1>2, EmptyPaired
<1>3. CASE env' = envFile
  BY <1>0, <1>3 DEF EnvPaired
<1>4. ASSUME NEW t \in Thread, pc[t] = "setExpiry",
             env' = [env EXCEPT !.expiry = token[t]]
      PROVE  Paired(env')
  BY <1>0, <1>4 DEF PairInv, EnvOfSession, Paired, Env
<1> QED
  BY <1>0, <1>1, <1>2, <1>3, <1>4, EnvWholeStep

(* The four parts on a new machine. *)
LEMMA PairInit == Init => PairInv
BY DEF Init, PairInv, EnvOfSession, FileOfSession, ExpiryBehind, EnvPaired, Paired,
       HasToken, Committing, CommitLabel, NoEnv, NoToken

(* The three invariants are inductive together. *)
CommitInv == IndInv /\ PublishInv /\ PairInv

(* Every step keeps the three invariants together. *)
LEMMA CommitInvNext == CommitInv /\ [Next]_vars => CommitInv'
<1> SUFFICES ASSUME CommitInv, [Next]_vars
             PROVE  CommitInv'
  OBVIOUS
<1>1. IndInv /\ TokenOfSession /\ PairInv /\ IndInv'
  BY IndNext DEF CommitInv, PublishInv
<1>2. PublishInv'
  BY <1>1, TokenOfSessionNext, TokenBehindNext, FreshDeviceNext, EnvSetNext
  DEF CommitInv, PublishInv
<1>3. EnvPaired'
  BY <1>1, FilePairedNext, ProcessPairedNext DEF EnvPaired, Paired, ExpiryOlder,
     HasToken, HasExpiry
<1> QED
  BY <1>1, <1>2, <1>3, EnvOfSessionNext, FileOfSessionNext, ExpiryBehindNext
  DEF CommitInv, PairInv

(* Whatever crashes or is lost, one thread at a time commits, and what it  *)
(* has set and written belongs to the session that the backend granted     *)
(* last.                                                                   *)
THEOREM Committed == Spec => []CommitInv
<1>1. Init => CommitInv
  BY IndInit, PublishInit, PairInit DEF CommitInv
<1> QED
  BY <1>1, CommitInvNext, PTL DEF Spec

(* What the committing thread has set and written is what PairInv says.    *)
THEOREM PairsHold == Spec => []PairInv
<1>1. CommitInv => PairInv
  BY DEF CommitInv
<1> QED
  BY <1>1, Committed, PTL

(* The expiry time that a handler or the periodic thread reads belongs to  *)
(* the token that is sent, or to an earlier one when setenv has failed;    *)
(* and no crash leaves the file with two halves of different sessions.     *)
THEOREM Pairs == Spec => []EnvPaired
<1>1. CommitInv => EnvPaired
  BY DEF CommitInv, PairInv
<1> QED
  BY <1>1, Committed, PTL
-----------------------------------------------------------------------------
(* The refinement, action by action.  A step that moves none of the four   *)
(* cells is a stuttering step; one that empties the environment is a Stop. *)

Stays == UNCHANGED Store!cells

(* A step that leaves the tokens, the numbers and the device file alone is *)
(* a stuttering step of the store.                                         *)
LEMMA StaysCells ==
  ASSUME UNCHANGED <<lastHash, deviceFile>>,
         env'.token = env.token, envFile'.token = envFile.token
  PROVE  Stays
BY DEF Stays, Store!cells

(* A step that ends the process, and changes nothing on disk, is a Stop of *)
(* the store or a stuttering step.                                         *)
LEMMA StopCells ==
  ASSUME UNCHANGED <<lastHash, deviceFile, envFile>>, env' \in {env, NoEnv}
  PROVE  [Store!Next]_(Store!cells)
BY DEF Store!cells, Store!Next, Store!Stop, Store!NoToken, NoEnv, NoToken

(* set_token empties the file or cannot, and does nothing else that shows. *)
LEMMA StoreSetTokenTool ==
  ASSUME SetTokenTool
  PROVE  [Store!Next]_(Store!cells)
<1>1. CASE ClearEnvFile
  <2>1. UNCHANGED <<lastHash, deviceFile, env>> /\ envFile' \in {envFile, NoEnv}
    BY <1>1 DEF ClearEnvFile, process, backend
  <2>2. CASE envFile' = NoEnv
    BY <2>1, <2>2 DEF Store!Next, Store!Store, Store!NoToken, NoEnv, NoToken
  <2>3. CASE envFile' = envFile
    BY <2>1, <2>3 DEF Store!cells
  <2> QED
    BY <2>1, <2>2, <2>3
<1>2. CASE RemoveTokenIfExists \/ \E s \in Secret : SaveSecretToken(s)
  BY <1>2, StaysCells
  DEF RemoveTokenIfExists, SaveSecretToken, process, backend, Stays
<1> QED
  BY <1>1, <1>2 DEF SetTokenTool

(* A start resumes with the file, or with nothing. *)
LEMMA StoreStart ==
  ASSUME CommitInv, Start
  PROVE  [Store!Next]_(Store!cells)
<1>1. env = NoEnv
  BY DEF Start, CommitInv, PublishInv, EnvSet
<1>2. UNCHANGED <<lastHash, deviceFile, envFile>> /\ env' \in {envFile, NoEnv}
  BY DEF Start, disk, backend
<1> QED
  BY <1>1, <1>2
  DEF Store!cells, Store!Next, Store!Resume, Store!NoToken, NoEnv, NoToken

(* setup() saves the parameters of an activation. *)
LEMMA StoreSetup ==
  ASSUME CommitInv, Setup
  PROVE  [Store!Next]_(Store!cells)
<1>1. ASSUME ~OpenActivationFile, ~WriteActivationFile
      PROVE  [Store!Next]_(Store!cells)
  BY <1>1, StopCells
  DEF Setup, SetupFoundValid, SetupFoundExpired, SetupNotFound, ActivateDevice,
      ActivationFails, ReturnFailure, ProcessExit, Abandon, disk, backend
<1>2. ASSUME OpenActivationFile \/ WriteActivationFile
      PROVE  [Store!Next]_(Store!cells)
  <2>1. /\ params[Main].id \in Secret /\ params[Main].seq = 0
        /\ params[Main] \in Params
        /\ lastHash[params[Main].id] = 0 \/ OpenActivationFile
    BY <1>2
    DEF OpenActivationFile, WriteActivationFile, CommitInv, IndInv, CallerSeq,
        TypeOK, Params, PublishInv, FreshDevice
  <2>2. params[Main] = [id |-> params[Main].id, seq |-> 0]
    BY <2>1 DEF Params
  <2>3. /\ UNCHANGED <<lastHash, env, envFile>>
        /\ \/ deviceFile' \in {deviceFile, NoParams}
           \/ lastHash[params[Main].id] = 0 /\ deviceFile' = params[Main]
    BY <1>2, <2>1 DEF OpenActivationFile, WriteActivationFile, backend
  <2>4. CASE deviceFile' = deviceFile
    BY <2>3, <2>4, StaysCells DEF Stays
  <2>5. CASE deviceFile' # deviceFile
    <3>1. Store!Save(params[Main].id)
      BY <2>2, <2>3, <2>5 DEF Store!Save, Store!Origin, Store!NoParams, NoParams
    <3> QED
      BY <2>1, <3>1 DEF Store!Next
  <2> QED
    BY <2>4, <2>5
<1> QED
  BY <1>1, <1>2

(* A grant is the next number of the device, or the second one. *)
LEMMA StoreGrant ==
  ASSUME CommitInv, NEW t \in Thread, SessionGranted(t) \/ SessionReplyLost(t)
  PROVE  [Store!Next]_(Store!cells)
<1> DEFINE d == params[t].id
           n == HashNumber(params[t])
<1>1. /\ pc[t] = "session" /\ Accept(params[t])
      /\ UNCHANGED <<deviceFile, envFile>> /\ env' \in {env, NoEnv}
  BY DEF SessionGranted, SessionReplyLost, Throw, ProcessExit, Abandon, disk
<1>2. d \in Secret /\ params[t].seq \in Nat
  BY <1>1 DEF CommitInv, IndInv, CallerSeq, Busy, TypeOK, Params
<1>3. lastHash[d] \in Nat
  BY <1>2 DEF CommitInv, IndInv, TypeOK
<1>4. n > lastHash[d] /\ lastHash' = [lastHash EXCEPT ![d] = n]
  BY <1>1 DEF Accept, Accepts
<1>5. params[t].seq <= 1 \/ params[t].seq <= lastHash[d]
  BY <1>1 DEF CommitInv, IndInv, SessionBehind
<1>6. n \in {lastHash[d] + 1, 2}
  BY <1>2, <1>3, <1>4, <1>5 DEF HashNumber
<1>7. env'.token \in {env.token, Store!NoToken}
  BY <1>1 DEF Store!NoToken, NoEnv, NoToken
<1>8. Store!Grant(d)
  BY <1>1, <1>4, <1>6, <1>7 DEF Store!Grant
<1> QED
  BY <1>2, <1>8 DEF Store!Next

(* Every other answer changes nothing, or ends the process. *)
LEMMA StoreSession ==
  ASSUME CommitInv, NEW t \in Thread, Refresh(t) \/ Session(t)
  PROVE  [Store!Next]_(Store!cells)
<1>1. CASE SessionGranted(t) \/ SessionReplyLost(t)
  BY <1>1, StoreGrant
<1>2. CASE ~SessionGranted(t) /\ ~SessionReplyLost(t)
  BY <1>2, StopCells
  DEF Refresh, ReadDeviceFile, ReadDeviceFileFails, Session, SessionUnreachable,
      SessionRefused, SessionEmpty, Throw, ReturnFailure, ProcessExit, Abandon,
      disk, backend
<1> QED
  BY <1>1, <1>2

(* The commit publishes, stores and saves the session just granted. *)
LEMMA StoreCommit ==
  ASSUME CommitInv, NEW t \in Thread, Commit(t)
  PROVE  [Store!Next]_(Store!cells)
<1>0. TypeOK /\ env \in Env /\ envFile \in Env /\ Committing(t)
  BY DEF CommitInv, IndInv, TypeOK, Committing, CommitLabel, Commit, SetToken,
     SetExpiry, OpenEnvFile, WriteEnvToken, WriteEnvExpiry, UnlinkSecret,
     OpenDeviceFile, WriteDeviceFile
<1>1. /\ token[t] = [id |-> params[t].id, hash |-> HashNumber(params[t])]
      /\ params[t] \in Params /\ params[t].id \in Secret
      /\ lastHash[params[t].id] = HashNumber(params[t])
  BY <1>0
  DEF CommitInv, PublishInv, TokenOfSession, IndInv, CallerSeq, CommitAhead,
      Committing, Busy, TypeOK, Params
<1>2. lastHash[params[t].id] = params[t].seq + 1 /\ params[t].seq \in Nat
  BY <1>1 DEF HashNumber, Params
<1>3. CASE SetToken(t)
  <2>1. CASE env' \in {env, NoEnv}
    BY <1>3, <2>1, StopCells DEF SetToken, disk, backend
  <2>2. CASE env' \notin {env, NoEnv}
    <3>1. /\ env' = [env EXCEPT !.token = token[t]]
          /\ UNCHANGED <<lastHash, envFile, deviceFile>>
      BY <1>3, <2>2
      DEF SetToken, ReturnFailure, ProcessExit, Abandon, disk, backend
    <3>2. env'.token = [id |-> params[t].id, hash |-> lastHash[params[t].id]]
      BY <1>0, <1>1, <3>1 DEF Env
    <3>3. Store!Publish(params[t].id)
      BY <1>2, <3>1, <3>2 DEF Store!Publish, Store!Latest
    <3> QED
      BY <1>1, <3>3 DEF Store!Next
  <2> QED
    BY <2>1, <2>2
<1>4. CASE SetExpiry(t)
  <2>1. /\ UNCHANGED <<lastHash, envFile, deviceFile>>
        /\ env'.token = env.token \/ env' = NoEnv
    BY <1>0, <1>4
    DEF SetExpiry, ReturnFailure, ProcessExit, Abandon, disk, backend, Env
  <2> QED
    BY <2>1 DEF Store!cells, Store!Next, Store!Stop, Store!NoToken, NoEnv, NoToken
<1>5. CASE OpenEnvFile(t) \/ WriteEnvToken(t)
  <2>1. WriteEnvToken(t) => env.token = token[t]
    BY <1>0 DEF WriteEnvToken, CommitInv, PairInv, EnvOfSession
  <2>2. /\ UNCHANGED <<lastHash, env, deviceFile>>
        /\ envFile'.token \in {envFile.token, env.token, NoToken}
    BY <1>0, <1>5, <2>1 DEF OpenEnvFile, WriteEnvToken, backend, NoEnv, Env
  <2> QED
    BY <2>2 DEF Store!cells, Store!Next, Store!Store, Store!NoToken, NoToken
<1>6. CASE WriteEnvExpiry(t)
  <2>1. UNCHANGED <<lastHash, env, deviceFile>> /\ envFile'.token = envFile.token
    BY <1>0, <1>6 DEF WriteEnvExpiry, backend, Env
  <2> QED
    BY <2>1, StaysCells DEF Stays
<1>7. CASE UnlinkSecret(t)
  BY <1>7, StaysCells DEF UnlinkSecret, backend, Stays
<1>8. CASE OpenDeviceFile(t) \/ WriteDeviceFile(t)
  <2>1. /\ UNCHANGED <<lastHash, env, envFile>>
        /\ deviceFile' \in {deviceFile, NoParams, params[t]}
    BY <1>8 DEF OpenDeviceFile, WriteDeviceFile, backend
  <2>2. params[t] = [id |-> params[t].id, seq |-> lastHash[params[t].id] - 1]
    <3>1. params[t] = [id |-> params[t].id, seq |-> params[t].seq]
      BY <1>1 DEF Params
    <3>2. params[t].seq = lastHash[params[t].id] - 1
      BY <1>2
    <3> QED
      BY <3>1, <3>2
  <2>3. CASE deviceFile' = deviceFile
    BY <2>1, <2>3, StaysCells DEF Stays
  <2>4. CASE deviceFile' # deviceFile
    <3>1. Store!Save(params[t].id)
      BY <1>2, <2>1, <2>2, <2>4 DEF Store!Save, Store!Origin, Store!NoParams, NoParams
    <3> QED
      BY <1>1, <3>1 DEF Store!Next
  <2> QED
    BY <2>3, <2>4
<1> QED
  BY <1>3, <1>4, <1>5, <1>6, <1>7, <1>8 DEF Commit

(* However many threads refresh, and wherever they fail, each step writes  *)
(* at most one of the four cells, in the order of the sessions.            *)
THEOREM Refines == Spec => ImplementsStore
<1>1. Init => Store!Init
  BY DEF Init, Store!Init, Store!NoToken, Store!NoParams, NoEnv, NoToken, NoParams
<1>2. CommitInv /\ [Next]_vars => [Store!Next]_(Store!cells)
  <2> SUFFICES ASSUME CommitInv, [Next]_vars
               PROVE  [Store!Next]_(Store!cells)
    OBVIOUS
  <2>1. CASE Stop \/ Crash
    BY <2>1, StopCells DEF Stop, Crash, ProcessExit, disk, backend
  <2>2. ASSUME NEW w \in Worker, NEW site \in {"noTry", "inTry"}, BeginRefresh(w, site)
        PROVE  [Store!Next]_(Store!cells)
    BY <2>2, StopCells DEF BeginRefresh, disk, backend
  <2>3. CASE UNCHANGED vars
    BY <2>3, StopCells DEF vars, process, disk, backend
  <2> QED
    BY <2>1, <2>2, <2>3, StoreSetTokenTool, StoreStart, StoreSetup, StoreSession,
       StoreCommit
    DEF Next
<1> QED
  BY <1>1, <1>2, Committed, PTL DEF Spec, ImplementsStore, Store!Spec
-----------------------------------------------------------------------------
(* A server that set_token leaves alone: which thread does what. *)

(* A refresh, a session request and a commit are under way in the thread   *)
(* that takes a step of them, and while main() has not got that far there  *)
(* is none.                                                                *)
LEMMA CallUnderWay ==
  ASSUME NEW t \in Thread, Refresh(t) \/ Session(t) \/ Commit(t)
  PROVE  /\ Refresh(t) => pc[t] = "read"
         /\ Session(t) => pc[t] = "session"
         /\ Commit(t)  => Committing(t)
         /\ pc[t] \in Busy \cup {"read"}
BY DEF Refresh, ReadDeviceFile, ReadDeviceFileFails, Session, SessionGranted,
       SessionReplyLost, SessionUnreachable, SessionRefused, SessionEmpty,
       Commit, SetToken, SetExpiry, OpenEnvFile, WriteEnvToken, WriteEnvExpiry,
       UnlinkSecret, OpenDeviceFile, WriteDeviceFile, Committing, CommitLabel, Busy

(* main() has not activated the device yet. *)
BeforeCallLabel == {"off", "check", "activate"}

(* Then no thread refreshes. *)
LEMMA NoCallYet ==
  ASSUME BootAlone, pc[Main] \in BeforeCallLabel
  PROVE  \A t \in Thread : pc[t] \notin Busy \cup {"read", "idle"}
BY DEF BootAlone, BeforeCallLabel, Busy, CommitLabel

(* The secret is removed by set_token or by a commit. *)
LEMMA SecretFileStep ==
  ASSUME [Next]_vars
  PROVE  \/ secretFile' = secretFile
         \/ UNCHANGED <<pc, envFile>> /\ admin # "done" /\ secretFile' \in Secret \cup {None}
         \/ \E t \in Thread : /\ pc[t] = "unlinkSecret" /\ UnlinkSecret(t)
                              /\ secretFile' = None
<1>1. CASE SetTokenTool \/ Start \/ Stop \/ Crash \/ UNCHANGED vars
  BY <1>1
  DEF SetTokenTool, ClearEnvFile, RemoveTokenIfExists, SaveSecretToken, Start,
      Stop, Crash, vars, process, disk
<1>2. CASE Setup
  BY <1>2
  DEF Setup, SetupFoundValid, SetupFoundExpired, SetupNotFound, ActivateDevice,
      ActivationFails, OpenActivationFile, WriteActivationFile, disk
<1>3. ASSUME NEW w \in Worker, NEW site \in {"noTry", "inTry"}, BeginRefresh(w, site)
      PROVE  secretFile' = secretFile
  BY <1>3 DEF BeginRefresh, disk
<1>4. ASSUME NEW t \in Thread, Refresh(t) \/ Session(t)
      PROVE  secretFile' = secretFile
  BY <1>4
  DEF Refresh, ReadDeviceFile, ReadDeviceFileFails, Session, SessionGranted,
      SessionReplyLost, SessionUnreachable, SessionRefused, SessionEmpty, disk
<1>5. ASSUME NEW t \in Thread, Commit(t)
      PROVE  \/ secretFile' = secretFile
             \/ pc[t] = "unlinkSecret" /\ UnlinkSecret(t) /\ secretFile' = None
  BY <1>5
  DEF Commit, SetToken, SetExpiry, OpenEnvFile, WriteEnvToken, WriteEnvExpiry,
      UnlinkSecret, OpenDeviceFile, WriteDeviceFile, disk
<1> QED
  BY <1>1, <1>2, <1>3, <1>4, <1>5 DEF Next

-----------------------------------------------------------------------------
(* No secret is spent twice, none is lost: ProvisionAlone. *)

(* At first there is nothing. *)
LEMMA ProvisionInit == Init => ProvisionAlone
BY NoneAssumption DEF Init, ProvisionAlone

(* The secret is registered by the very step that leaves the labels before  *)
(* the first call, and set_token puts a new one on disk before a start.    *)
LEMMA ProvisionNext ==
  ASSUME LiveReprovision = FALSE, "disk" \notin Faults,
         IndInv, PublishInv, ProvisionAlone, [Next]_vars
  PROVE  ProvisionAlone'
<1>0. /\ TypeOK /\ BootAlone
      /\ pc[Main] = "off" => env = NoEnv
      /\ ~HasToken(NoEnv)
  BY DEF IndInv, PublishInv, EnvSet, HasToken, NoEnv, NoToken
<1>1. CASE SetTokenTool
  BY <1>0, <1>1, NoneAssumption
  DEF SetTokenTool, ClearEnvFile, RemoveTokenIfExists, SaveSecretToken,
      SetTokenMayRun, ProvisionAlone, process, disk, backend
<1>2. CASE Start
  BY <1>0, <1>2
  DEF Start, Goto, ProvisionAlone, disk, backend, setTool, TypeOK
<1>3. CASE (Stop \/ Crash) \/ UNCHANGED vars
  BY <1>3
  DEF Stop, Crash, ProcessExit, ProvisionAlone, process, disk, backend, setTool, vars
<1>4. CASE Setup
  <2>1. pc[Main] # "off" /\ admin = "done" /\ UNCHANGED <<setTool, envFile, secretFile>>
    BY <1>4
    DEF Setup, SetupFoundValid, SetupFoundExpired, SetupNotFound, ActivateDevice,
        ActivationFails, OpenActivationFile, WriteActivationFile, disk,
        ProvisionAlone
  <2>2. ASSUME secretFile \in Secret \ registered'
        PROVE  env' = NoEnv /\ pc'[Main] \in BeforeCallLabel /\ envFile = NoEnv
    <3>1. registered \subseteq registered'
      BY RegisteredGrows
    <3>2. envFile = NoEnv /\ env = NoEnv /\ pc[Main] \in BeforeCallLabel
      BY <2>2, <3>1 DEF ProvisionAlone, BeforeCallLabel
    <3>3. ~SetupFoundValid /\ ~SetupFoundExpired /\ ~OpenActivationFile /\ ~WriteActivationFile
      BY <1>0, <3>2
      DEF SetupFoundValid, SetupFoundExpired, OpenActivationFile,
          WriteActivationFile, BeforeCallLabel
    <3>4. ~ActivateDevice
      BY <2>2 DEF ActivateDevice
    <3> QED
      BY <1>0, <1>4, <3>2, <3>3, <3>4
      DEF Setup, SetupNotFound, ActivationFails, ReturnFailure, ProcessExit, Goto,
          BeforeCallLabel, TypeOK
  <2> QED
    BY <2>1, <2>2 DEF ProvisionAlone, setTool, BeforeCallLabel
<1>5. CASE \/ \E w \in Worker : \E site \in {"noTry", "inTry"} : BeginRefresh(w, site)
           \/ \E t \in Thread : Refresh(t) \/ Session(t) \/ Commit(t)
  <2>1. \E t \in Thread : pc[t] \in Busy \cup {"read", "idle"}
    BY <1>5, CallUnderWay DEF BeginRefresh
  <2>2. pc[Main] \notin BeforeCallLabel
    BY <1>0, <2>1, NoCallYet
  <2>3. admin = "done" /\ secretFile \notin Secret \ registered
    BY <2>2 DEF ProvisionAlone, BeforeCallLabel
  <2>4. admin' = "done"
    BY <1>5, <2>3
    DEF BeginRefresh, Refresh, ReadDeviceFile, ReadDeviceFileFails, Session,
        SessionGranted, SessionReplyLost, SessionUnreachable, SessionRefused,
        SessionEmpty, Commit, SetToken, SetExpiry, OpenEnvFile, WriteEnvToken,
        WriteEnvExpiry, UnlinkSecret, OpenDeviceFile, WriteDeviceFile, setTool
  <2>5. secretFile' \notin Secret \ registered'
    BY <2>3, SecretFileStep, RegisteredGrows, NoneAssumption
  <2> QED
    BY <2>4, <2>5 DEF ProvisionAlone
<1> QED
  BY <1>1, <1>2, <1>3, <1>4, <1>5 DEF Next

(* "delete secret token on success": what a thread of the server deletes   *)
(* was spent.  set_token must not run beside the server, and must have     *)
(* been able to empty the environment file: it goes on if it was not.  The *)
(* threads may be many and all but the disk may fail.                      *)
THEOREM SecretSpent ==
  ASSUME LiveReprovision = FALSE, "disk" \notin Faults
  PROVE  Spec => SecretSpentBeforeDeleted
<1>1. IndInv /\ PublishInv /\ ProvisionAlone /\ [Next]_vars => ProvisionAlone'
  BY ProvisionNext
<1>2. IndInv /\ ProvisionAlone /\ [Next]_vars =>
        [ secretFile # None /\ secretFile' = None /\ pc # pc'
            => secretFile \in registered ]_secretFile
  <2> SUFFICES ASSUME IndInv, ProvisionAlone, [Next]_vars,
                      secretFile # None, secretFile' = None, pc # pc'
               PROVE  secretFile \in registered
    OBVIOUS
  <2>1. PICK t \in Thread : pc[t] = "unlinkSecret"
    BY SecretFileStep
  <2>2. pc[Main] \notin BeforeCallLabel
    BY <2>1, NoCallYet DEF IndInv, Busy, CommitLabel
  <2> QED
    BY <2>2 DEF ProvisionAlone, BeforeCallLabel, IndInv, TypeOK
<1> QED
  BY <1>1, <1>2, ProvisionInit, Published, PTL DEF Spec, SecretSpentBeforeDeleted
-----------------------------------------------------------------------------
(* The environment file follows the environment: FileFollowsEnv. *)

(* A refresh that is read or asked for: the caller of the thread that moves *)
(* aside, nothing is published.                                            *)
LEMMA RequestStep ==
  ASSUME TypeOK, NEW t \in Thread, Refresh(t) \/ Session(t), ~ProcessExit
  PROVE  /\ env' = env /\ envFile' = envFile
         /\ pc[t] \in {"read", "session"}
         /\ pc'[t] \in {"idle", "session", "setToken"}
         /\ pc'[t] = "setToken" => SessionGranted(t)
         /\ pc'[t] = "session"  => ReadDeviceFile(t)
         /\ \A u \in Thread : u # t => pc'[u] = pc[u] /\ token'[u] = token[u]
         /\ \A u \in Thread : u # t => params'[u] = params[u] /\ caller'[u] = caller[u]
<1>1. CASE Refresh(t)
  BY <1>1
  DEF Refresh, ReadDeviceFile, ReadDeviceFileFails, Throw, Abandon, Forget, Goto,
      disk, TypeOK
<1>2. CASE Session(t)
  <2>1. CASE SessionGranted(t)
    BY <2>1 DEF SessionGranted, Goto, disk, TypeOK
  <2>2. CASE ~SessionGranted(t)
    <3>1. Abandon(t) /\ envFile' = envFile /\ pc[t] = "session"
      BY <1>2, <2>2
      DEF Session, SessionReplyLost, SessionUnreachable, SessionRefused,
          SessionEmpty, Throw, ReturnFailure, disk
    <3> QED
      BY <3>1 DEF Abandon, Forget, Goto, TypeOK
  <2> QED
    BY <2>1, <2>2
<1> QED
  BY <1>1, <1>2

(* The end of a commit. *)
LEMMA ReturnTokenStep ==
  ASSUME IndInv, NEW t \in Thread, Committing(t), ReturnToken(t)
  PROVE  /\ \A u \in Thread : pc'[u] \in {"idle", "serve"} \/ (pc'[u] = pc[u] /\ u # t)
         /\ \A u \in Thread : ~Committing(u)'
         /\ pc'[t] \in {"idle", "serve"}
<1>1. \A u \in Thread : Committing(u) => u = t
  BY DEF IndInv, RefreshExclusive
<1> QED
  BY <1>1 DEF ReturnToken, IndInv, TypeOK, Committing, CommitLabel

(* At first neither has a token. *)
LEMMA FollowsInit == Init => FileFollowsEnv
BY DEF Init, FileFollowsEnv, NoEnv, NoToken, HasToken

(* A commit publishes both halves, then writes the file from them: while it *)
(* has not, the file is behind and the committing thread is the one to say *)
(* so.                                                                     *)
LEMMA FollowsCommit ==
  ASSUME {"disk", "setenv"} \cap Faults = {}, CommitInv, FileFollowsEnv,
         NEW t \in Thread, Commit(t)
  PROVE  FileFollowsEnv'
<1>0. /\ IndInv /\ TypeOK /\ env \in Env /\ envFile \in Env
      /\ \A u \in Thread : Committing(u) => u = t
      /\ Committing(t)
      /\ "disk" \notin Faults /\ "setenv" \notin Faults
  BY CallUnderWay DEF CommitInv, IndInv, TypeOK, RefreshExclusive
<1>1. ASSUME NEW l \in CommitLabel, Goto(t, l), token' = token,
             l = "writeEnvExpiry" => envFile'.token = token[t],
             l \in {"unlinkSecret", "openDevice", "writeDevice"} => envFile' = env'
      PROVE  FileFollowsEnv'
  <2>1. /\ pc'[t] = l /\ Committing(t)'
        /\ \A u \in Thread : u # t => pc'[u] = pc[u] /\ pc[u] \notin CommitLabel
    BY <1>0, <1>1 DEF Goto, TypeOK, Committing
  <2> QED
    BY <1>1, <2>1 DEF FileFollowsEnv, CommitLabel
<1>2. CASE SetToken(t) \/ SetExpiry(t)
  BY <1>0, <1>1, <1>2 DEF SetToken, SetExpiry, CommitLabel
<1>3. CASE OpenEnvFile(t) \/ WriteEnvToken(t)
  BY <1>0, <1>1, <1>3 DEF OpenEnvFile, WriteEnvToken, CommitLabel, Env
<1>4. CASE WriteEnvExpiry(t)
  <2>1. env.token = token[t] /\ env.expiry = token[t] /\ envFile.token = token[t]
    BY <1>0, <1>4
    DEF WriteEnvExpiry, CommitInv, PairInv, EnvOfSession, FileFollowsEnv, Committing
  <2>2. envFile' = [envFile EXCEPT !.expiry = token[t]] /\ env' = env
    BY <1>0, <1>4 DEF WriteEnvExpiry
  <2>3. envFile' = env'
    BY <1>0, <2>1, <2>2 DEF Env
  <2> QED
    BY <1>1, <1>4, <2>3 DEF WriteEnvExpiry, CommitLabel
<1>5. CASE UnlinkSecret(t) \/ OpenDeviceFile(t) \/ WriteDeviceFile(t)
  <2>1. envFile = env /\ UNCHANGED <<env, envFile>>
    BY <1>5
    DEF UnlinkSecret, OpenDeviceFile, WriteDeviceFile, FileFollowsEnv
  <2>2. CASE ReturnToken(t)
    <3>1. \A u \in Thread : pc'[u] \notin CommitLabel
      BY <1>0, <2>2, ReturnTokenStep DEF Committing
    <3> QED
      BY <2>1, <3>1 DEF FileFollowsEnv, CommitLabel
  <2>3. CASE ~ReturnToken(t)
    BY <1>1, <1>5, <2>1, <2>3
    DEF UnlinkSecret, OpenDeviceFile, WriteDeviceFile, CommitLabel
  <2> QED
    BY <2>2, <2>3
<1> QED
  BY <1>2, <1>3, <1>4, <1>5 DEF Commit

(* Any other step leaves both, or empties the environment.                 *)
LEMMA FollowsNext ==
  ASSUME LiveReprovision = FALSE, {"disk", "setenv"} \cap Faults = {},
         CommitInv, FileFollowsEnv, [Next]_vars
  PROVE  FileFollowsEnv'
<1>0. /\ TypeOK /\ BootAlone
      /\ pc[Main] = "off" => env = NoEnv
      /\ ~HasToken(NoEnv)
  BY DEF CommitInv, IndInv, PublishInv, EnvSet, HasToken, NoEnv, NoToken
<1>1. CASE ClearEnvFile
  <2>1. pc[Main] = "off" /\ pc' = pc /\ env' = env
    BY <1>1 DEF ClearEnvFile, SetTokenMayRun, process
  <2>2. \A t \in Thread : pc'[t] \notin Busy
    BY <1>0, <2>1, NoCallYet DEF BeforeCallLabel
  <2> QED
    BY <1>0, <2>1, <2>2 DEF FileFollowsEnv, Busy, CommitLabel
<1>2. CASE \/ RemoveTokenIfExists \/ \E s \in Secret : SaveSecretToken(s)
           \/ UNCHANGED vars
  BY <1>2
  DEF RemoveTokenIfExists, SaveSecretToken, vars, process, disk, FileFollowsEnv,
      Committing
<1>3. CASE Start
  <2>1. \A t \in Thread : pc'[t] \notin CommitLabel
    BY <1>0, <1>3 DEF Start, Goto, BootAlone, TypeOK, CommitLabel
  <2> QED
    BY <1>0, <1>3, <2>1 DEF Start, disk, FileFollowsEnv, CommitLabel
<1>4. CASE ProcessExit
  BY <1>0, <1>4 DEF ProcessExit, FileFollowsEnv
<1>5. ASSUME Setup, ~ProcessExit
      PROVE  FileFollowsEnv'
  <2>1. /\ env' = env /\ envFile' = envFile
        /\ pc[Main] \in {"check", "activate", "openActivation", "writeActivation"}
        /\ SetupFoundValid \/ \E l \in Label \ CommitLabel : Goto(Main, l)
    BY <1>5
    DEF Setup, SetupFoundValid, SetupFoundExpired, SetupNotFound, ActivateDevice,
        ActivationFails, OpenActivationFile, WriteActivationFile, disk,
        ReturnFailure, Label, CommitLabel
  <2>2. \A t \in Thread : pc[t] \notin CommitLabel /\ pc'[t] \notin CommitLabel
    BY <1>0, <2>1 DEF SetupFoundValid, ReturnToken, Goto, BootAlone, CommitLabel, TypeOK
  <2> QED
    BY <2>1, <2>2 DEF FileFollowsEnv, Committing, CommitLabel
<1>6. ASSUME NEW w \in Worker, NEW site \in {"noTry", "inTry"}, BeginRefresh(w, site)
      PROVE  FileFollowsEnv'
  <2>1. /\ UNCHANGED <<env, envFile, token>>
        /\ \A t \in Thread : pc'[t] = pc[t] \/ (pc[t] = "idle" /\ pc'[t] = "read")
    BY <1>0, <1>6 DEF BeginRefresh, Goto, disk, TypeOK
  <2> QED
    BY <2>1 DEF FileFollowsEnv, Committing, CommitLabel
<1>7. ASSUME NEW t \in Thread, Refresh(t) \/ Session(t), ~ProcessExit
      PROVE  FileFollowsEnv'
  <2>1. \A u \in Thread : Committing(u) => Committing(u)'
    BY <1>0, <1>7, RequestStep DEF Committing, CommitLabel
  <2>2. \A u \in Thread : pc'[u] \in CommitLabel \ {"setToken"} =>
          pc'[u] = pc[u] /\ token'[u] = token[u]
    BY <1>0, <1>7, RequestStep DEF CommitLabel
  <2>3. UNCHANGED <<env, envFile>>
    BY <1>0, <1>7, RequestStep
  <2> QED
    BY <2>1, <2>2, <2>3 DEF FileFollowsEnv, CommitLabel
<1> QED
  BY <1>1, <1>2, <1>3, <1>4, <1>5, <1>6, <1>7, FollowsCommit
  DEF Next, SetTokenTool, Stop, Crash

(* A restart resumes with the latest session: outside of a commit the file  *)
(* holds what the environment holds, for any number of threads, as long as *)
(* neither the disk nor setenv() fails and set_token does not run beside   *)
(* the server.                                                             *)
THEOREM Persisted ==
  ASSUME LiveReprovision = FALSE, {"disk", "setenv"} \cap Faults = {}
  PROVE  Spec => []EnvPersisted
<1>1. CommitInv /\ FileFollowsEnv /\ [Next]_vars => FileFollowsEnv'
  BY FollowsNext
<1>2. CommitInv /\ FileFollowsEnv => EnvPersisted
  BY DEF CommitInv, PublishInv, EnvSet, FileFollowsEnv, EnvPersisted
<1> QED
  BY <1>1, <1>2, FollowsInit, Committed, PTL DEF Spec
-----------------------------------------------------------------------------
(* The device keeps a credential: ParamsOnFile, CredentialKept. *)

(* Beside main() at most one thread refreshes.                              *)
OneWorker == \A v, w \in Worker : v = w

(* With one refreshing thread at most one thread is inside a call. *)
LEMMA OneCall ==
  ASSUME OneWorker, BootAlone, NEW t \in Thread, NEW u \in Thread, t # u,
         pc[t] \notin {"off", "idle", "serve"}
  PROVE  pc[u] \in {"off", "serve"}
BY DEF OneWorker, BootAlone

(* What must not fail for a credential to be on disk.                       *)
KeptFaults == {"reply", "crash", "disk"} \cap Faults = {}

(* At first there is nothing on disk to be wrong. *)
LEMMA KeptInit == Init => ParamsOnFile /\ CredentialKept
BY DEF Init, ParamsOnFile, CredentialKept, Busy, CommitLabel

(* A step that moves nobody into a session request or through a commit,    *)
(* and touches none of the files.                                          *)
LEMMA ParamsStay ==
  ASSUME ParamsOnFile, UNCHANGED <<deviceFile, registered>>, issued \subseteq issued',
         secretFile' \in issued' \cup {None},
         \A t \in Thread : pc'[t] \in Busy \ {"writeDevice"} =>
            pc[t] \in Busy \ {"writeDevice"} \/ deviceFile.id # None
  PROVE  ParamsOnFile'
BY DEF ParamsOnFile

(* Where the device file is being written. *)
WritingLabel == {"openActivation", "writeActivation", "writeDevice"}

(* A step that leaves the files, the backend and set_token alone, and ends  *)
(* no write.                                                               *)
LEMMA CredentialStays ==
  ASSUME CredentialKept, UNCHANGED <<deviceFile, secretFile, registered, admin, issued>>,
         \A t \in Thread : pc[t] \in WritingLabel => pc'[t] \in WritingLabel
  PROVE  CredentialKept'
BY DEF CredentialKept, WritingLabel

(* set_token leaves a secret that no one has used. *)
LEMMA KeptSetTokenTool ==
  ASSUME KeptFaults, TypeOK, ParamsOnFile, CredentialKept, SetTokenTool
  PROVE  ParamsOnFile' /\ CredentialKept'
<1>0. "disk" \notin Faults /\ UNCHANGED <<pc, deviceFile, registered>>
  BY DEF KeptFaults, SetTokenTool, ClearEnvFile, RemoveTokenIfExists,
         SaveSecretToken, process, backend
<1>1. ParamsOnFile'
  BY <1>0, ParamsStay
  DEF SetTokenTool, ClearEnvFile, RemoveTokenIfExists, SaveSecretToken, ParamsOnFile
<1>2. admin' = "done" => secretFile' \in Secret \ registered'
  BY <1>0 DEF SetTokenTool, ClearEnvFile, RemoveTokenIfExists, SaveSecretToken, ParamsOnFile
<1> QED
  BY <1>1, <1>2 DEF CredentialKept

(* The process ends, and nobody was writing. *)
LEMMA KeptExit ==
  ASSUME ParamsOnFile, CredentialKept, ProcessExit,
         UNCHANGED <<disk, registered, setTool>>,
         \A t \in Thread : pc[t] \notin WritingLabel
  PROVE  ParamsOnFile' /\ CredentialKept'
<1>1. \A t \in Thread : pc'[t] = "off"
  BY DEF ProcessExit
<1>2. ParamsOnFile'
  BY <1>1, ParamsStay DEF Busy, CommitLabel, disk, setTool, ParamsOnFile
<1> QED
  BY <1>2, CredentialStays DEF disk, setTool

(* The steps of main() before the server listens. *)
LEMMA KeptSetup ==
  ASSUME KeptFaults, OneWorker, IndInv, ParamsOnFile, CredentialKept, Setup
  PROVE  ParamsOnFile' /\ CredentialKept'
<1>0. /\ TypeOK /\ BootAlone
      /\ "disk" \notin Faults /\ "reply" \notin Faults
      /\ pc[Main] \in {"check", "activate", "openActivation", "writeActivation"}
      /\ \A w \in Worker : pc[w] = "off"
  BY DEF KeptFaults, IndInv, BootAlone, Setup, SetupFoundValid, SetupFoundExpired,
         SetupNotFound, ActivateDevice, ActivationFails, OpenActivationFile,
         WriteActivationFile
<1>1. CASE ProcessExit
  <2>1. SetupNotFound \/ ActivationFails
    BY <1>0, <1>1, ThreadAssumption
    DEF Setup, SetupFoundValid, SetupFoundExpired, ActivateDevice,
        OpenActivationFile, WriteActivationFile, ProcessExit, ReturnToken, Goto, TypeOK
  <2> QED
    BY <1>0, <1>1, <2>1, KeptExit
    DEF SetupNotFound, ActivationFails, backend, WritingLabel
<1>2. ASSUME SetupFoundValid \/ SetupFoundExpired \/ SetupNotFound, ~ProcessExit
      PROVE  ParamsOnFile' /\ CredentialKept'
  <2>1. /\ UNCHANGED <<disk, backend, setTool>> /\ pc[Main] = "check"
        /\ \A t \in Thread : pc'[t] \in {"serve", "idle", "read", "activate", "off"}
    BY <1>0, <1>2
    DEF SetupFoundValid, SetupFoundExpired, SetupNotFound, ReturnToken, Goto, TypeOK
  <2>2. ParamsOnFile'
    BY <2>1, ParamsStay DEF Busy, CommitLabel, disk, backend, setTool, ParamsOnFile
  <2>3. \A t \in Thread : pc[t] \notin WritingLabel
    BY <1>0, <2>1 DEF WritingLabel
  <2> QED
    BY <2>1, <2>2, <2>3, CredentialStays DEF disk, backend, setTool
<1>3. ASSUME NEW l \in WritingLabel \cup {"session"}, pc' = [pc EXCEPT ![Main] = l],
             registered' \subseteq issued', secretFile' \in issued' \cup {None},
             l \notin WritingLabel => deviceFile'.id # None
      PROVE  ParamsOnFile' /\ CredentialKept'
  <2>1. pc'[Main] = l /\ \A w \in Worker : pc'[w] = "off"
    BY <1>0, <1>3, ThreadAssumption DEF TypeOK
  <2>2. ParamsOnFile'
    BY <1>3, <2>1 DEF ParamsOnFile, Busy, CommitLabel, WritingLabel
  <2> QED
    BY <1>3, <2>1, <2>2 DEF CredentialKept, WritingLabel
<1>4. ASSUME ActivateDevice \/ ActivationFails, ~ProcessExit
      PROVE  ParamsOnFile' /\ CredentialKept'
  <2>1. /\ pc' = [pc EXCEPT ![Main] = "openActivation"]
        /\ registered' = registered \cup {secretFile} /\ secretFile \in Secret
        /\ UNCHANGED <<disk, setTool>>
    BY <1>0, <1>4 DEF ActivateDevice, ActivationFails, ReturnFailure, Goto
  <2> QED
    BY <1>3, <2>1, NoneAssumption DEF ParamsOnFile, disk, setTool, WritingLabel
<1>5. CASE OpenActivationFile
  <2>1. /\ pc' = [pc EXCEPT ![Main] = "writeActivation"]
        /\ UNCHANGED <<secretFile, registered, issued>>
    BY <1>0, <1>5 DEF OpenActivationFile, Goto, backend, setTool
  <2> QED
    BY <1>3, <2>1 DEF ParamsOnFile, WritingLabel
<1>6. CASE WriteActivationFile
  <2>1. /\ pc' = [pc EXCEPT ![Main] = "session"]
        /\ UNCHANGED <<secretFile, registered, issued>>
        /\ deviceFile' = params[Main]
    BY <1>0, <1>6 DEF WriteActivationFile, Goto, backend, setTool
  <2>2. params[Main].id # None
    BY <1>6 DEF WriteActivationFile, IndInv, CallerSeq
  <2> QED
    BY <1>3, <2>1, <2>2 DEF ParamsOnFile, WritingLabel
<1> QED
  BY <1>1, <1>2, <1>4, <1>5, <1>6 DEF Setup

(* A refresh up to the backend's answer. *)
LEMMA KeptRequest ==
  ASSUME KeptFaults, OneWorker, IndInv, ParamsOnFile, CredentialKept,
         NEW t \in Thread, Refresh(t) \/ Session(t)
  PROVE  ParamsOnFile' /\ CredentialKept'
<1>0. /\ TypeOK /\ BootAlone /\ pc[t] \in {"read", "session"}
      /\ UNCHANGED <<disk, registered, setTool>>
  BY CallUnderWay
  DEF IndInv, Refresh, ReadDeviceFile, ReadDeviceFileFails, Session, SessionGranted,
      SessionReplyLost, SessionUnreachable, SessionRefused, SessionEmpty, backend
<1>1. \A u \in Thread : pc[u] \notin WritingLabel
  BY <1>0, OneCall DEF WritingLabel
<1>2. CASE ProcessExit
  BY <1>0, <1>1, <1>2, KeptExit
<1>3. CASE ~ProcessExit
  <2>1. /\ \A u \in Thread : u # t => pc'[u] = pc[u]
        /\ pc'[t] \in {"idle", "session", "setToken"}
        /\ pc'[t] = "setToken" => pc[t] = "session"
        /\ pc'[t] = "session" => deviceFile.id # None
    BY <1>0, <1>3, RequestStep DEF SessionGranted, ReadDeviceFile
  <2>2. ParamsOnFile'
    BY <1>0, <2>1, ParamsStay DEF disk, setTool, ParamsOnFile, Busy, CommitLabel
  <2> QED
    BY <1>0, <1>1, <2>2, CredentialStays DEF disk, setTool
<1> QED
  BY <1>2, <1>3

(* A commit writes what the backend expects next. *)
LEMMA KeptCommit ==
  ASSUME KeptFaults, OneWorker, IndInv, ParamsOnFile, CredentialKept,
         NEW t \in Thread, Commit(t)
  PROVE  ParamsOnFile' /\ CredentialKept'
<1>0. /\ TypeOK /\ BootAlone /\ Committing(t) /\ "disk" \notin Faults
      /\ registered' = registered /\ UNCHANGED setTool
      /\ secretFile' \in {secretFile, None}
  BY CallUnderWay
  DEF KeptFaults, IndInv, Commit, SetToken, SetExpiry, OpenEnvFile, WriteEnvToken,
      WriteEnvExpiry, UnlinkSecret, OpenDeviceFile, WriteDeviceFile, disk, backend
<1>1. \A u \in Thread : u # t => pc[u] \in {"off", "serve"}
  BY <1>0, OneCall DEF Committing, CommitLabel
<1>2. CASE deviceFile'.id # None
  BY <1>0, <1>2 DEF ParamsOnFile, CredentialKept, setTool
<1>3. CASE OpenDeviceFile(t)
  <2>1. pc'[t] = "writeDevice" /\ \A u \in Thread : u # t => pc'[u] = pc[u]
    BY <1>0, <1>3 DEF OpenDeviceFile, Goto, TypeOK
  <2> QED
    BY <1>0, <1>1, <2>1 DEF ParamsOnFile, CredentialKept, setTool, Busy, CommitLabel
<1>4. CASE WriteDeviceFile(t)
  <2>1. deviceFile' = params[t] /\ params[t].id # None
    BY <1>0, <1>4 DEF WriteDeviceFile, IndInv, CallerSeq, Committing, Busy
  <2> QED
    BY <1>2, <2>1
<1>5. CASE ~OpenDeviceFile(t) /\ ~WriteDeviceFile(t)
  <2>1. deviceFile' = deviceFile /\ pc[t] \in Busy \ {"writeDevice"}
    BY <1>5
    DEF Commit, SetToken, SetExpiry, OpenEnvFile, WriteEnvToken, WriteEnvExpiry,
        UnlinkSecret, disk, Busy, CommitLabel
  <2> QED
    BY <1>2, <2>1 DEF ParamsOnFile
<1> QED
  BY <1>3, <1>4, <1>5

(* Every step. *)
LEMMA KeptNext ==
  ASSUME KeptFaults, OneWorker, IndInv, ParamsOnFile, CredentialKept, [Next]_vars
  PROVE  ParamsOnFile' /\ CredentialKept'
<1>0. TypeOK /\ BootAlone /\ "crash" \notin Faults
  BY DEF IndInv, KeptFaults
<1>1. CASE Start
  <2>1. /\ UNCHANGED <<disk, backend, setTool>> /\ \A t \in Thread : pc[t] \notin WritingLabel
        /\ \A t \in Thread : pc'[t] \notin Busy
    BY <1>0, <1>1 DEF Start, Goto, BootAlone, WritingLabel, Busy, CommitLabel, TypeOK
  <2>2. ParamsOnFile'
    BY <2>1, ParamsStay DEF disk, backend, setTool, ParamsOnFile
  <2> QED
    BY <2>1, <2>2, CredentialStays DEF disk, backend, setTool
<1>2. CASE Stop \/ Crash
  <2>1. \A t \in Thread : pc[t] \notin WritingLabel
    BY <1>0, <1>2 DEF Stop, Crash, WritingLabel
  <2> QED
    BY <1>0, <1>2, <2>1, KeptExit DEF Stop, Crash, backend
<1>3. ASSUME NEW w \in Worker, NEW site \in {"noTry", "inTry"}, BeginRefresh(w, site)
      PROVE  ParamsOnFile' /\ CredentialKept'
  <2>1. /\ UNCHANGED <<disk, backend, setTool>>
        /\ \A t \in Thread : pc'[t] = pc[t] \/ (pc[t] = "idle" /\ pc'[t] = "read")
    BY <1>0, <1>3 DEF BeginRefresh, Goto, TypeOK
  <2>2. ParamsOnFile'
    BY <2>1, ParamsStay DEF disk, backend, setTool, ParamsOnFile, Busy, CommitLabel
  <2> QED
    BY <2>1, <2>2, CredentialStays DEF disk, backend, setTool, WritingLabel
<1>4. CASE UNCHANGED vars
  <2>1. UNCHANGED <<pc, disk, backend, setTool>>
    BY <1>4 DEF vars, process
  <2>2. ParamsOnFile'
    BY <2>1, ParamsStay DEF disk, backend, setTool, ParamsOnFile
  <2> QED
    BY <2>1, <2>2, CredentialStays DEF disk, backend, setTool
<1> QED
  BY <1>0, <1>1, <1>2, <1>3, <1>4, KeptSetTokenTool, KeptSetup, KeptRequest, KeptCommit
  DEF Next

(* The device is never locked out: there is an unspent secret, a device     *)
(* file, or a thread about to write one.  One refreshing thread, and       *)
(* neither a reply, nor the process in the middle of a write, nor the disk *)
(* fails; set_token may run beside the server, and setenv() may fail.      *)
THEOREM Kept ==
  ASSUME OneWorker, {"reply", "crash", "disk"} \cap Faults = {}
  PROVE  Spec => []CredentialKept
<1>1. IndInv /\ ParamsOnFile /\ CredentialKept /\ [Next]_vars
        => ParamsOnFile' /\ CredentialKept'
  BY KeptNext DEF KeptFaults
<1> QED
  BY <1>1, KeptInit, Inductive, PTL DEF Spec
-----------------------------------------------------------------------------
(* Every request is accepted: ActivationFirst, FileInStep. *)

(* What is needed for every request to be in step with the backend. *)
AcceptAssumption ==
  /\ OneWorker /\ LiveReprovision = FALSE
  /\ {"reply", "crash", "disk", "setenv"} \cap Faults = {}

(* The inductive invariant, on top of IndInv and its companions. *)
AcceptInv ==
  /\ CommitInv
  /\ ProvisionAlone
  /\ ActivationFirst
  /\ FileInStep

(* At first nobody is in a call and no token is out. *)
LEMMA AcceptInit == Init => ActivationFirst /\ FileInStep
BY DEF Init, ActivationFirst, FileInStep, Busy, CommitLabel, NoParams

(* Nobody is inside a call after the step, or nobody has moved into one;   *)
(* what the two parts speak of stays, or tokens go.                        *)
LEMMA AcceptStay ==
  ASSUME ActivationFirst, FileInStep, UNCHANGED <<deviceFile, lastHash>>,
         registered \subseteq registered',
         HasToken(env') => HasToken(env) \/ HasToken(envFile),
         HasToken(envFile') => HasToken(envFile),
         \A t \in Thread : Committing(t) => Committing(t)',
         \A t \in Thread :
            \/ pc'[t] \notin Busy \cup {"openActivation", "writeActivation", "read"}
            \/ /\ pc'[t] = pc[t] /\ caller'[t] = caller[t] /\ params'[t] = params[t]
               /\ HasToken(env') = HasToken(env)
            \/ pc'[t] = "read" /\ HasToken(env')
  PROVE  ActivationFirst' /\ FileInStep'
<1>1. ASSUME NEW t \in Thread, pc'[t] \in Busy \cup {"openActivation", "writeActivation"}
      PROVE  /\ pc'[t] = pc[t] /\ caller'[t] = caller[t] /\ params'[t] = params[t]
             /\ HasToken(env') = HasToken(env)
  BY <1>1 DEF Busy, CommitLabel
<1>2. ActivationFirst'
  BY <1>1 DEF ActivationFirst, Busy
<1>3. FileInStep'
  <2>1. deviceFile'.id # None => deviceFile'.id \in registered'
    BY DEF FileInStep
  <2>2. ASSUME deviceFile'.id # None, HasToken(env') \/ HasToken(envFile'),
               \A t \in Thread : ~Committing(t)'
        PROVE  HashNumber(deviceFile') = lastHash'[deviceFile'.id]
    BY <2>2 DEF FileInStep
  <2>3. ASSUME NEW t \in Thread
        PROVE  /\ pc'[t] \in Busy \cup {"openActivation", "writeActivation"} =>
                    params'[t].id \in registered'
               /\ pc'[t] = "read" => HasToken(env')
               /\ pc'[t] = "session" /\ caller'[t] # "activation" =>
                    params'[t].seq = lastHash'[params'[t].id]
    BY <1>1 DEF FileInStep, Busy
  <2> QED
    BY <2>1, <2>2, <2>3 DEF FileInStep, HashNumber
<1> QED
  BY <1>2, <1>3

(* The process ends, and nobody was committing. *)
LEMMA AcceptExit ==
  ASSUME ActivationFirst, FileInStep, ProcessExit, UNCHANGED <<disk, backend>>,
         \A t \in Thread : ~Committing(t)
  PROVE  ActivationFirst' /\ FileInStep'
<1>1. ~HasToken(env') /\ \A t \in Thread : pc'[t] = "off"
  BY DEF ProcessExit, HasToken, NoEnv, NoToken
<1> QED
  BY <1>1, AcceptStay DEF disk, backend, Busy, CommitLabel

(* The steps of main() before the server listens. *)
LEMMA AcceptSetup ==
  ASSUME AcceptAssumption, AcceptInv, Setup
  PROVE  ActivationFirst' /\ FileInStep'
<1>0. /\ TypeOK /\ BootAlone /\ FreshDevice /\ CallerSeq
      /\ "disk" \notin Faults /\ "reply" \notin Faults
      /\ pc[Main] \in {"check", "activate", "openActivation", "writeActivation"}
      /\ \A w \in Worker : pc[w] = "off"
      /\ \A t \in Thread : ~Committing(t)
  BY DEF AcceptAssumption, AcceptInv, CommitInv, PublishInv, IndInv, BootAlone, Setup,
         SetupFoundValid, SetupFoundExpired, SetupNotFound, ActivateDevice,
         ActivationFails, OpenActivationFile, WriteActivationFile, Committing,
         CommitLabel
<1>1. CASE ProcessExit
  <2>1. SetupNotFound \/ ActivationFails
    BY <1>0, <1>1, ThreadAssumption
    DEF Setup, SetupFoundValid, SetupFoundExpired, ActivateDevice,
        OpenActivationFile, WriteActivationFile, ProcessExit, ReturnToken, Goto, TypeOK
  <2> QED
    BY <1>0, <1>1, <2>1, AcceptExit DEF SetupNotFound, ActivationFails, AcceptInv
<1>2. ASSUME SetupFoundValid \/ SetupFoundExpired \/ SetupNotFound, ~ProcessExit
      PROVE  ActivationFirst' /\ FileInStep'
  <2>1. /\ UNCHANGED <<disk, backend, env>>
        /\ \A t \in Thread : pc'[t] \in {"serve", "idle", "read", "activate", "off"}
        /\ \A t \in Thread : pc'[t] = "read" => HasToken(env)
    BY <1>0, <1>2
    DEF SetupFoundValid, SetupFoundExpired, SetupNotFound, ReturnToken, Goto, TypeOK
  <2>2. \A t \in Thread :
          pc'[t] \notin Busy \cup {"openActivation", "writeActivation"}
    BY <2>1 DEF Busy, CommitLabel
  <2> QED
    BY <1>0, <2>1, <2>2, AcceptStay DEF disk, backend, AcceptInv
<1>3. ASSUME NEW l \in {"openActivation", "writeActivation", "session"},
             pc' = [pc EXCEPT ![Main] = l], caller'[Main] = "activation",
             ~HasToken(env'), ~HasToken(envFile'), lastHash'[params'[Main].id] = 0,
             params'[Main].id \in registered',
             l = "session" => deviceFile' = params'[Main],
             deviceFile'.id # None => deviceFile'.id \in registered'
      PROVE  ActivationFirst' /\ FileInStep'
  <2>1. pc'[Main] = l /\ \A w \in Worker : pc'[w] = "off"
    BY <1>0, <1>3, ThreadAssumption DEF TypeOK
  <2> QED
    BY <1>3, <2>1 DEF ActivationFirst, FileInStep, Busy, CommitLabel
<1>4. ASSUME ActivateDevice \/ ActivationFails, ~ProcessExit
      PROVE  ActivationFirst' /\ FileInStep'
  <2>1. /\ pc' = [pc EXCEPT ![Main] = "openActivation"]
        /\ caller'[Main] = "activation" /\ params'[Main].id = secretFile
        /\ registered' = registered \cup {secretFile}
        /\ secretFile \in Secret \ registered
        /\ UNCHANGED <<disk, env, lastHash>>
    BY <1>0, <1>4 DEF ActivateDevice, ActivationFails, ReturnFailure, Goto, TypeOK
  <2>2. ~HasToken(env) /\ ~HasToken(envFile)
    BY <2>1 DEF AcceptInv, ProvisionAlone, HasToken, NoEnv, NoToken
  <2>3. lastHash[secretFile] = 0
    BY <1>0, <2>1 DEF FreshDevice
  <2> QED
    BY <1>3, <2>1, <2>2, <2>3 DEF disk, AcceptInv, FileInStep
<1>5. ASSUME OpenActivationFile \/ WriteActivationFile
      PROVE  ActivationFirst' /\ FileInStep'
  <2>1. /\ pc[Main] \in {"openActivation", "writeActivation"}
        /\ UNCHANGED <<caller, params, env, envFile, backend>>
    BY <1>5 DEF OpenActivationFile, WriteActivationFile
  <2>2. /\ caller[Main] = "activation" /\ ~HasToken(env) /\ ~HasToken(envFile)
        /\ lastHash[params[Main].id] = 0 /\ params[Main].id \in registered
    BY <1>0, <2>1 DEF CallerSeq, AcceptInv, ActivationFirst, FileInStep
  <2>3. \/ /\ pc' = [pc EXCEPT ![Main] = "writeActivation"]
           /\ deviceFile'.id = None
        \/ /\ pc' = [pc EXCEPT ![Main] = "session"]
           /\ deviceFile' = params[Main]
    BY <1>0, <1>5 DEF OpenActivationFile, WriteActivationFile, Goto, NoParams
  <2> QED
    BY <1>3, <2>1, <2>2, <2>3 DEF backend
<1> QED
  BY <1>1, <1>2, <1>4, <1>5 DEF Setup

(* A refresh up to the backend's answer. *)
LEMMA AcceptRequest ==
  ASSUME AcceptAssumption, AcceptInv, NEW t \in Thread, Refresh(t) \/ Session(t)
  PROVE  ActivationFirst' /\ FileInStep'
<1>0. /\ TypeOK /\ BootAlone /\ CallerSeq /\ OneWorker /\ "reply" \notin Faults
      /\ pc[t] \in {"read", "session"}
      /\ UNCHANGED <<disk, registered, setTool>>
  BY CallUnderWay
  DEF AcceptAssumption, AcceptInv, CommitInv, IndInv, Refresh, ReadDeviceFile,
      ReadDeviceFileFails, Session, SessionGranted, SessionReplyLost,
      SessionUnreachable, SessionRefused, SessionEmpty, backend
<1>1. \A u \in Thread : u # t => pc[u] \in {"off", "serve"}
  BY <1>0, OneCall
<1>2. \A u \in Thread : ~Committing(u)
  BY <1>0, <1>1 DEF Committing, CommitLabel
<1>3. CASE ProcessExit
  <2>1. ~ReadDeviceFile(t) /\ ~SessionGranted(t)
    BY <1>0, <1>3 DEF ReadDeviceFile, SessionGranted, Goto, ProcessExit, TypeOK
  <2>2. lastHash' = lastHash
    BY <1>0, <2>1
    DEF Refresh, ReadDeviceFileFails, Session, SessionReplyLost, SessionUnreachable,
        SessionRefused, SessionEmpty, backend
  <2> QED
    BY <1>0, <1>2, <1>3, <2>2, AcceptExit DEF AcceptInv, backend
<1>4. CASE ReadDeviceFile(t)
  <2>1. /\ pc[t] = "read" /\ pc'[t] = "session"
        /\ \A u \in Thread : u # t => pc'[u] = pc[u]
        /\ params'[t] = NextParams(deviceFile) /\ deviceFile.id # None
        /\ UNCHANGED <<caller, env, disk, backend>>
    BY <1>0, <1>4 DEF ReadDeviceFile, Goto, TypeOK
  <2>2. HashNumber(deviceFile) = lastHash[deviceFile.id] /\ deviceFile.id \in registered
    BY <1>2, <2>1 DEF AcceptInv, FileInStep
  <2>3. params'[t].id = deviceFile.id /\ params'[t].seq = lastHash[deviceFile.id]
    BY <1>0, <2>1, <2>2 DEF NextParams, HashNumber, TypeOK, Params
  <2>4. caller[t] # "activation"
    BY <1>0, <2>1 DEF CallerSeq
  <2>5. \A u \in Thread : u # t => pc'[u] \in {"off", "serve"}
    BY <1>1, <2>1
  <2>6. ActivationFirst'
    BY <2>1, <2>4, <2>5 DEF ActivationFirst, Busy, CommitLabel
  <2>7. FileInStep'
    BY <2>1, <2>2, <2>3, <2>5 DEF FileInStep, Busy, CommitLabel, disk, backend
  <2> QED
    BY <2>6, <2>7
<1>5. CASE SessionGranted(t)
  <2>1. /\ pc[t] = "session" /\ pc'[t] = "setToken"
        /\ \A u \in Thread : u # t => pc'[u] = pc[u]
        /\ UNCHANGED <<caller, params, env, disk, registered>>
    BY <1>0, <1>5 DEF SessionGranted, Goto, TypeOK
  <2>2. \A u \in Thread : u # t => pc'[u] \in {"off", "serve"}
    BY <1>1, <2>1
  <2>3. Committing(t)'
    BY <2>1 DEF Committing, CommitLabel
  <2>4. ActivationFirst'
    BY <2>1, <2>2 DEF AcceptInv, ActivationFirst, Busy, CommitLabel, disk
  <2>5. FileInStep'
    BY <2>1, <2>2, <2>3 DEF AcceptInv, FileInStep, Busy, CommitLabel, disk
  <2> QED
    BY <2>4, <2>5
<1>6. ASSUME ~ProcessExit, ~ReadDeviceFile(t), ~SessionGranted(t)
      PROVE  ActivationFirst' /\ FileInStep'
  <2>1. /\ pc'[t] = "idle" /\ env' = env
        /\ \A u \in Thread : u # t => pc'[u] = pc[u]
    BY <1>0, <1>6, RequestStep
  <2>2. lastHash' = lastHash
    BY <1>0, <1>6
    DEF Refresh, ReadDeviceFileFails, Session, SessionReplyLost, SessionUnreachable,
        SessionRefused, SessionEmpty, backend
  <2>3. \A u \in Thread : pc'[u] \in {"off", "serve", "idle"}
    BY <1>1, <2>1
  <2> QED
    BY <1>0, <1>2, <2>1, <2>2, <2>3, AcceptStay DEF AcceptInv, Busy, CommitLabel, disk
<1> QED
  BY <1>3, <1>4, <1>5, <1>6

(* A commit ends with the number of the granted session in the file. *)
LEMMA AcceptCommit ==
  ASSUME AcceptAssumption, AcceptInv, NEW t \in Thread, Commit(t)
  PROVE  ActivationFirst' /\ FileInStep'
<1>0. /\ IndInv /\ TypeOK /\ BootAlone /\ Committing(t) /\ OneWorker
      /\ "disk" \notin Faults /\ "setenv" \notin Faults
      /\ lastHash[params[t].id] = HashNumber(params[t])
      /\ params[t].id \in registered
      /\ UNCHANGED backend
  BY CallUnderWay
  DEF AcceptAssumption, AcceptInv, CommitInv, IndInv, CommitAhead, FileInStep,
      Committing, Busy, Commit, SetToken, SetExpiry, OpenEnvFile, WriteEnvToken,
      WriteEnvExpiry, UnlinkSecret, OpenDeviceFile, WriteDeviceFile
<1>1. \A u \in Thread : u # t => pc[u] \in {"off", "serve"}
  BY <1>0, OneCall DEF Committing, CommitLabel
<1>2. ASSUME ReturnToken(t), deviceFile' = params[t]
      PROVE  ActivationFirst' /\ FileInStep'
  <2>1. \A u \in Thread : pc'[u] \in {"off", "serve", "idle"}
    BY <1>0, <1>1, <1>2, ReturnTokenStep
  <2>2. ActivationFirst'
    BY <2>1 DEF ActivationFirst, Busy, CommitLabel
  <2> QED
    BY <1>0, <1>2, <2>1, <2>2 DEF FileInStep, Busy, CommitLabel, backend, HashNumber
<1>3. ASSUME NEW l \in CommitLabel, Goto(t, l), UNCHANGED <<caller, params>>,
             deviceFile'.id # None => deviceFile' = deviceFile,
             caller[t] = "activation" =>
               deviceFile' = deviceFile /\ l \notin {"openDevice", "writeDevice"}
      PROVE  ActivationFirst' /\ FileInStep'
  <2>1. /\ pc'[t] = l /\ Committing(t)'
        /\ \A u \in Thread : u # t => pc'[u] \in {"off", "serve"}
    BY <1>0, <1>1, <1>3 DEF Goto, TypeOK, Committing
  <2>2. ActivationFirst'
    BY <1>0, <1>3, <2>1
    DEF AcceptInv, ActivationFirst, Busy, CommitLabel, Committing
  <2>3. FileInStep'
    BY <1>0, <1>3, <2>1
    DEF AcceptInv, FileInStep, Busy, CommitLabel, Committing, backend
  <2> QED
    BY <2>2, <2>3
<1>4. CASE \/ SetToken(t) \/ SetExpiry(t) \/ OpenEnvFile(t)
           \/ WriteEnvToken(t) \/ WriteEnvExpiry(t)
  BY <1>0, <1>3, <1>4
  DEF SetToken, SetExpiry, OpenEnvFile, WriteEnvToken, WriteEnvExpiry, CommitLabel, disk
<1>5. CASE UnlinkSecret(t)
  <2>1. CASE caller[t] = "activation"
    <3>1. ReturnToken(t) /\ deviceFile' = params[t]
      BY <1>0, <1>5, <2>1
      DEF UnlinkSecret, AcceptInv, ActivationFirst, Committing, Busy
    <3> QED
      BY <1>2, <3>1
  <2>2. CASE caller[t] # "activation"
    BY <1>3, <1>5, <2>2 DEF UnlinkSecret, CommitLabel
  <2> QED
    BY <2>1, <2>2
<1>6. CASE OpenDeviceFile(t)
  <2>1. caller[t] # "activation"
    BY <1>0, <1>6
    DEF OpenDeviceFile, AcceptInv, ActivationFirst, Committing, Busy
  <2> QED
    BY <1>0, <1>3, <1>6, <2>1 DEF OpenDeviceFile, CommitLabel, NoParams
<1>7. CASE WriteDeviceFile(t)
  BY <1>0, <1>2, <1>7 DEF WriteDeviceFile
<1> QED
  BY <1>4, <1>5, <1>6, <1>7 DEF Commit

(* Every step. *)
LEMMA AcceptNext ==
  ASSUME AcceptAssumption, AcceptInv, [Next]_vars
  PROVE  ActivationFirst' /\ FileInStep'
<1>0. /\ TypeOK /\ BootAlone /\ ActivationFirst /\ FileInStep
      /\ LiveReprovision = FALSE /\ "crash" \notin Faults
      /\ pc[Main] = "serve" => HasToken(env)
      /\ ~HasToken(NoEnv)
  BY DEF AcceptAssumption, AcceptInv, CommitInv, IndInv, PublishInv, EnvSet, HasToken,
         NoEnv, NoToken
<1>1. CASE SetTokenTool \/ UNCHANGED vars
  <2>1. /\ UNCHANGED <<pc, caller, params, env, deviceFile, backend>>
        /\ envFile' \in {envFile, NoEnv}
    BY <1>1
    DEF SetTokenTool, ClearEnvFile, RemoveTokenIfExists, SaveSecretToken, vars,
        process, disk
  <2> QED
    BY <1>0, <2>1, AcceptStay DEF Committing, backend
<1>2. CASE Start
  <2>1. /\ UNCHANGED <<disk, backend>> /\ env' \in {envFile, NoEnv}
        /\ \A t \in Thread : pc'[t] \in {"off", "check"} /\ pc[t] = "off"
    BY <1>0, <1>2 DEF Start, Goto, BootAlone, TypeOK
  <2> QED
    BY <1>0, <2>1, AcceptStay DEF Busy, CommitLabel, Committing, disk, backend
<1>3. CASE Stop \/ Crash
  <2>1. \A t \in Thread : ~Committing(t)
    BY <1>0, <1>3 DEF Stop, Crash, Committing, CommitLabel
  <2> QED
    BY <1>0, <1>3, <2>1, AcceptExit DEF Stop, Crash
<1>4. ASSUME NEW w \in Worker, NEW site \in {"noTry", "inTry"}, BeginRefresh(w, site)
      PROVE  ActivationFirst' /\ FileInStep'
  <2>1. /\ pc[w] = "idle" /\ pc'[w] = "read"
        /\ \A t \in Thread : t # w => pc'[t] = pc[t] /\ caller'[t] = caller[t]
        /\ UNCHANGED <<params, env, disk, backend>>
    BY <1>0, <1>4 DEF BeginRefresh, Goto, TypeOK
  <2>2. HasToken(env)
    BY <1>0, <2>1 DEF BootAlone
  <2>3. \A t \in Thread : Committing(t) => Committing(t)'
    BY <2>1 DEF Committing, CommitLabel
  <2> QED
    BY <1>0, <2>1, <2>2, <2>3, AcceptStay DEF disk, backend
<1> QED
  BY <1>1, <1>2, <1>3, <1>4, AcceptSetup, AcceptRequest, AcceptCommit DEF Next

(* Every session request is one that the backend accepts, with the number   *)
(* that comes next: with one refreshing thread, when no reply, commit,     *)
(* write or setenv() is lost and set_token does not run beside the server. *)
(* Each of these is needed: without it TLC finds a request that is refused *)
(* or a number that is skipped.                                            *)
THEOREM Accepted ==
  ASSUME OneWorker, LiveReprovision = FALSE,
         {"reply", "crash", "disk", "setenv"} \cap Faults = {}
  PROVE  Spec => []SessionAccepted
<1>1. AcceptInv /\ [Next]_vars => AcceptInv'
  BY AcceptNext, CommitInvNext, ProvisionNext DEF AcceptInv, AcceptAssumption, CommitInv
<1>2. Init => AcceptInv
  BY AcceptInit, ProvisionInit, IndInit, PublishInit, PairInit DEF AcceptInv, CommitInv
<1>3. AcceptInv => SessionAccepted
  <2> SUFFICES ASSUME AcceptInv, NEW t \in Thread, pc[t] = "session"
               PROVE  /\ Accepts(params[t])
                      /\ HashNumber(params[t]) = lastHash[params[t].id] + 1
    BY DEF SessionAccepted
  <2>1. /\ params[t].id \in registered
        /\ params[t].seq = lastHash[params[t].id] /\ params[t].seq \in Nat
    BY DEF AcceptInv, CommitInv, IndInv, CallerSeq, ActivationFirst, FileInStep,
           Busy, TypeOK, Params
  <2> QED
    BY <2>1 DEF Accepts, HashNumber
<1> QED
  BY <1>1, <1>2, <1>3, PTL DEF Spec
================================================================================
