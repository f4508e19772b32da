--------------------------- MODULE AccessTokenProofs ---------------------------
(***************************************************************************)
(* What AccessToken guarantees for any number of threads and secrets, any  *)
(* bound and any set of failures.  The argument is in three parts: the     *)
(* type invariant; the inductive invariant IndInv, whose heart is that a   *)
(* granted session is ahead of the file and of every other request         *)
(* (CommitAhead), so that the backend refuses the others; and the          *)
(* properties that follow from it.                                         *)
(***************************************************************************)
EXTENDS AccessToken, TLAPS

USE DEF Thread

(* The constants that stand for an absence have the type of a presence. *)
LEMMA AbsenceType ==
  NoParams \in Params /\ NoToken \in Token /\ NoEnv \in Env
BY DEF NoParams, NoToken, NoEnv, Params, Token, Env

-----------------------------------------------------------------------------
(* How a call ends, and the types it keeps. *)

ProcessType ==
  /\ pc     \in [Thread -> Label]
  /\ caller \in [Thread -> CallSite \cup {None}]
  /\ params \in [Thread -> Params]
  /\ token  \in [Thread -> Token]
  /\ env    \in Env

(* The end of the process: no thread runs and the environment is gone. *)
LEMMA ProcessExitType == ProcessExit => ProcessType'
BY AbsenceType DEF ProcessExit, ProcessType, Label

(* A call that ends drops its objects. *)
LEMMA ForgetType ==
  ASSUME NEW t \in Thread, ProcessType, Forget(t)
  PROVE  /\ caller' \in [Thread -> CallSite \cup {None}]
         /\ params' \in [Thread -> Params]
         /\ token'  \in [Thread -> Token]
BY AbsenceType DEF ProcessType, Forget

(* A worker's failed call. *)
LEMMA AbandonType ==
  ASSUME NEW t \in Thread, ProcessType, Abandon(t)
  PROVE  ProcessType'
<1>1. "idle" \in Label
  BY DEF Label
<1>2. pc' \in [Thread -> Label]
  BY <1>1 DEF ProcessType, Abandon, Goto
<1> QED
  BY <1>2, ForgetType DEF ProcessType, Abandon

(* A call that returns {0, accessToken}. *)
LEMMA ReturnTokenType ==
  ASSUME NEW t \in Thread, ProcessType, ReturnToken(t), env' = env
  PROVE  ProcessType'
<1>1. {"idle", "serve"} \subseteq Label
  BY DEF Label
<1>2. pc' \in [Thread -> Label]
  BY <1>1 DEF ProcessType, ReturnToken
<1> QED
  BY <1>2, ForgetType DEF ProcessType, ReturnToken

(* A call that returns {1, ""}. *)
LEMMA ReturnFailureType ==
  ASSUME NEW t \in Thread, ProcessType, ReturnFailure(t)
  PROVE  ProcessType'
BY ProcessExitType, AbandonType DEF ReturnFailure

(* A call that an exception leaves. *)
LEMMA ThrowType ==
  ASSUME NEW t \in Thread, ProcessType, Throw(t)
  PROVE  ProcessType'
BY ProcessExitType, AbandonType DEF Throw
-----------------------------------------------------------------------------
(* Types. *)

(* Types on a new machine. *)
LEMMA TypeInit == Init => TypeOK
BY AbsenceType DEF Init, TypeOK, Label

(* The sequence number and the hash of typed parameters are typed. *)
LEMMA FieldType ==
  \A p \in Params : NextParams(p) \in Params /\ HashNumber(p) \in Nat
BY DEF Params, NextParams, HashNumber

RestType ==
  /\ deviceFile \in Params
  /\ envFile    \in Env
  /\ secretFile \in Secret \cup {None}
  /\ registered \in SUBSET Secret
  /\ lastHash   \in [Secret -> Nat]
  /\ admin      \in {"done", "cleared", "asking"}
  /\ issued     \in SUBSET Secret

(* The process keeps its types apart from the disk and the backend. *)
LEMMA TypeSplit ==
  /\ TypeOK  <=> ProcessType  /\ RestType
  /\ TypeOK' <=> ProcessType' /\ RestType'
BY DEF TypeOK, ProcessType, RestType

(* Types through every step of set_token. *)
LEMMA TypeSetTokenTool ==
  ASSUME TypeOK, SetTokenTool
  PROVE  TypeOK'
<1>1. CASE ClearEnvFile
  BY <1>1, AbsenceType DEF TypeOK, ClearEnvFile, process, backend
<1>2. CASE RemoveTokenIfExists
  BY <1>2 DEF TypeOK, RemoveTokenIfExists, process, backend
<1>3. ASSUME NEW s \in Secret, SaveSecretToken(s)
      PROVE  TypeOK'
  BY <1>3 DEF TypeOK, SaveSecretToken, process, backend
<1> QED
  BY <1>1, <1>2, <1>3 DEF SetTokenTool

(* Types through every step of setup() and of an activation. *)
LEMMA TypeSetup ==
  ASSUME TypeOK, Setup
  PROVE  TypeOK'
<1> USE TypeSplit
<1>1. CASE SetupFoundValid
  BY <1>1, ReturnTokenType DEF SetupFoundValid, RestType, disk, backend, setTool
<1>2. CASE SetupFoundExpired
  BY <1>2 DEF SetupFoundExpired, Goto, ProcessType, Label, CallSite, RestType, disk, backend, setTool
<1>3. CASE SetupNotFound
  <2>1. ProcessType'
    BY <1>3, ProcessExitType DEF SetupNotFound, Goto, ProcessType, Label
  <2> QED
    BY <1>3, <2>1 DEF SetupNotFound, RestType, disk, backend, setTool
<1>4. CASE ActivateDevice
  <2>1. ProcessType'
    <3>1. CASE ReturnFailure(Main)
      BY <3>1, ReturnFailureType
    <3>2. CASE ~ReturnFailure(Main)
      <4>1. [id |-> secretFile, seq |-> 0] \in Params
        BY <1>4 DEF ActivateDevice, Params
      <4> QED
        BY <1>4, <3>2, <4>1 DEF ActivateDevice, Goto, ProcessType, Label, CallSite
    <3> QED
      BY <3>1, <3>2
  <2> QED
    BY <1>4, <2>1 DEF ActivateDevice, RestType, disk, setTool
<1>5. CASE ActivationFails
  BY <1>5, ReturnFailureType DEF ActivationFails, RestType, disk, backend, setTool
<1>6. CASE OpenActivationFile
  BY <1>6, AbsenceType DEF OpenActivationFile, Goto, ProcessType, Label, RestType, backend, setTool
<1>7. CASE WriteActivationFile
  BY <1>7 DEF WriteActivationFile, Goto, ProcessType, Label, RestType, backend, setTool
<1> QED
  BY <1>1, <1>2, <1>3, <1>4, <1>5, <1>6, <1>7 DEF Setup

(* Types through the read of the device file. *)
LEMMA TypeRefresh ==
  ASSUME NEW t \in Thread, TypeOK, Refresh(t)
  PROVE  TypeOK'
<1> USE TypeSplit
<1>1. CASE ReadDeviceFile(t)
  BY <1>1, FieldType
  DEF ReadDeviceFile, Goto, ProcessType, Label, RestType, disk, backend, setTool
<1>2. CASE ReadDeviceFileFails(t)
  BY <1>2, ThrowType DEF ReadDeviceFileFails, RestType, disk, backend, setTool
<1> QED
  BY <1>1, <1>2 DEF Refresh

(* Types through every outcome of a session request. *)
LEMMA TypeSession ==
  ASSUME NEW t \in Thread, TypeOK, Session(t)
  PROVE  TypeOK'
<1> USE TypeSplit
<1>1. ASSUME Accept(params[t])
      PROVE  params[t].id \in Secret /\ lastHash' \in [Secret -> Nat]
  <2>1. HashNumber(params[t]) \in Nat
    BY FieldType DEF ProcessType
  <2> QED
    BY <1>1, <2>1 DEF Accept, Accepts, RestType
<1>2. CASE SessionGranted(t)
  <2>1. [id |-> params[t].id, hash |-> HashNumber(params[t])] \in Token
    BY <1>1, <1>2, FieldType DEF SessionGranted, ProcessType, Token
  <2> QED
    BY <1>1, <1>2, <2>1
    DEF SessionGranted, Goto, ProcessType, Label, CommitLabel, RestType, disk, setTool
<1>3. CASE SessionReplyLost(t)
  BY <1>1, <1>3, ThrowType DEF SessionReplyLost, RestType, disk, setTool
<1>4. CASE SessionUnreachable(t)
  BY <1>4, ThrowType DEF SessionUnreachable, RestType, disk, backend, setTool
<1>5. CASE SessionRefused(t)
  BY <1>5, ProcessExitType DEF SessionRefused, RestType, disk, backend, setTool
<1>6. CASE SessionEmpty(t)
  BY <1>6, ReturnFailureType DEF SessionEmpty, RestType, disk, backend, setTool
<1> QED
  BY <1>2, <1>3, <1>4, <1>5, <1>6 DEF Session

(* Types through the publication and the saves of a granted session. *)
LEMMA TypeCommit ==
  ASSUME NEW t \in Thread, TypeOK, Commit(t)
  PROVE  TypeOK'
<1> USE TypeSplit
<1>0. token[t] \in Token /\ params[t] \in Params
  BY DEF ProcessType
<1>1. CASE SetToken(t)
  <2>1. ProcessType'
    <3>1. CASE ReturnFailure(t)
      BY <3>1, ReturnFailureType
    <3>2. CASE ~ReturnFailure(t)
      <4>1. [env EXCEPT !.token = token[t]] \in Env
        BY <1>0 DEF ProcessType, Env
      <4> QED
        BY <1>1, <3>2, <4>1 DEF SetToken, Goto, ProcessType, Label, CommitLabel
    <3> QED
      BY <3>1, <3>2
  <2> QED
    BY <1>1, <2>1 DEF SetToken, RestType, disk, backend, setTool
<1>2. CASE SetExpiry(t)
  <2>1. ProcessType'
    <3>1. CASE ReturnFailure(t)
      BY <3>1, ReturnFailureType
    <3>2. CASE ~ReturnFailure(t)
      <4>1. [env EXCEPT !.expiry = token[t]] \in Env
        BY <1>0 DEF ProcessType, Env
      <4> QED
        BY <1>2, <3>2, <4>1 DEF SetExpiry, Goto, ProcessType, Label, CommitLabel
    <3> QED
      BY <3>1, <3>2
  <2> QED
    BY <1>2, <2>1 DEF SetExpiry, RestType, disk, backend, setTool
<1>3. CASE OpenEnvFile(t)
  BY <1>3, AbsenceType
  DEF OpenEnvFile, Goto, ProcessType, Label, CommitLabel, RestType, backend, setTool
<1>4. CASE WriteEnvToken(t)
  <2>1. [envFile EXCEPT !.token = token[t]] \in Env
    BY <1>0 DEF RestType, Env
  <2> QED
    BY <1>4, <2>1
  DEF WriteEnvToken, Goto, ProcessType, Label, CommitLabel, RestType, backend, setTool
<1>5. CASE WriteEnvExpiry(t)
  <2>1. [envFile EXCEPT !.expiry = token[t]] \in Env
    BY <1>0 DEF RestType, Env
  <2> QED
    BY <1>5, <2>1
  DEF WriteEnvExpiry, Goto, ProcessType, Label, CommitLabel, RestType, backend, setTool
<1>6. CASE UnlinkSecret(t)
  <2>1. ProcessType'
    BY <1>6, ReturnTokenType DEF UnlinkSecret, Goto, ProcessType, Label, CommitLabel
  <2> QED
    BY <1>6, <2>1 DEF UnlinkSecret, RestType, backend, setTool
<1>7. CASE OpenDeviceFile(t)
  <2>1. ProcessType'
    BY <1>7, ReturnTokenType DEF OpenDeviceFile, Goto, ProcessType, Label, CommitLabel
  <2> QED
    BY <1>7, <2>1, AbsenceType DEF OpenDeviceFile, RestType, backend, setTool
<1>8. CASE WriteDeviceFile(t)
  BY <1>0, <1>8, ReturnTokenType DEF WriteDeviceFile, RestType, backend, setTool
<1> QED
  BY <1>1, <1>2, <1>3, <1>4, <1>5, <1>6, <1>7, <1>8 DEF Commit

(* Types through every step, a stuttering one included. *)
LEMMA TypeNext == TypeOK /\ [Next]_vars => TypeOK'
<1> SUFFICES ASSUME TypeOK, [Next]_vars
             PROVE  TypeOK'
  OBVIOUS
<1>1. CASE Start
  BY <1>1, AbsenceType DEF Start, Goto, TypeOK, Label, disk, backend, setTool
<1>2. CASE Stop \/ Crash
  BY <1>2, ProcessExitType, TypeSplit DEF Stop, Crash, RestType, disk, backend, setTool
<1>3. ASSUME NEW w \in Worker, NEW site \in {"noTry", "inTry"}, BeginRefresh(w, site)
      PROVE  TypeOK'
  BY <1>3 DEF BeginRefresh, Goto, TypeOK, Label, CallSite, disk, backend, setTool
<1>4. CASE UNCHANGED vars
  BY <1>4 DEF TypeOK, vars, process, disk, backend, setTool
<1> QED
  BY <1>1, <1>2, <1>3, <1>4, TypeSetTokenTool, TypeSetup, TypeRefresh,
     TypeSession, TypeCommit
  DEF Next

(* Every variable keeps its type: in particular the sequence numbers stay  *)
(* natural numbers through every refresh, activation and failure.          *)
THEOREM TypeCorrect == Spec => []TypeOK
BY TypeInit, TypeNext, PTL DEF Spec
-----------------------------------------------------------------------------
(* The inductive invariant.  The actions are grouped by what they do to    *)
(* the part of the state that IndInv speaks of: the threads, the device    *)
(* file and the backend's numbers.                                         *)

(* IndInv on a new machine. *)
LEMMA IndInit == Init => IndInv
BY TypeInit, NoneAssumption
DEF IndInv, Init, BootAlone, CallerSeq, FileBehind, SessionBehind, SameDevice,
    CommitAhead, RefreshExclusive, Committing, CommitLabel, Busy, NoParams, CallSite

(* Nothing that matters here changes. *)
LEMMA IndStutter ==
  ASSUME IndInv, TypeOK', UNCHANGED <<pc, caller, params, deviceFile, lastHash>>
  PROVE  IndInv'
BY DEF IndInv, BootAlone, CallerSeq, FileBehind, SessionBehind, SameDevice,
       CommitAhead, RefreshExclusive, Committing, Busy, HashNumber

(* A session request is granted or lost: the backend's numbers grow. *)
Grows == \A s \in Secret : lastHash'[s] >= lastHash[s]

(* The backend's number of a device only grows. *)
LEMMA AcceptGrows ==
  ASSUME NEW t \in Thread, TypeOK, Accept(params[t])
  PROVE  Grows
BY DEF Accept, Accepts, Grows, TypeOK, Params, HashNumber

(* A device file that is not written, or is emptied, stays behind. *)
LEMMA FileStaysBehind ==
  ASSUME TypeOK, TypeOK', FileBehind, Grows, deviceFile' = deviceFile
  PROVE  FileBehind'
BY NoneAssumption DEF FileBehind, Grows, TypeOK, Params

(* The process ends. *)
LEMMA IndExit ==
  ASSUME IndInv, TypeOK', ProcessExit, deviceFile' = deviceFile, Grows
  PROVE  IndInv'
<1>1. \A t \in Thread : pc'[t] = "off" /\ caller'[t] = None
  BY DEF ProcessExit
<1>2. FileBehind'
  BY FileStaysBehind DEF IndInv
<1> QED
  BY <1>1, <1>2, NoneAssumption
  DEF IndInv, BootAlone, CallerSeq, SessionBehind, SameDevice, CommitAhead,
      RefreshExclusive, Committing, CommitLabel, Busy, CallSite

(* While one thread commits, the backend accepts nothing from the others:  *)
(* what they ask for is not beyond what it granted.                        *)
LEMMA OnlyCommitter ==
  ASSUME IndInv, NEW t \in Thread, pc[t] = "session", Accepts(params[t]),
         NEW u \in Thread
  PROVE  ~Committing(u)
<1> SUFFICES ASSUME Committing(u)
             PROVE  FALSE
  OBVIOUS
<1>1. caller[t] # "activation"
  BY DEF IndInv, BootAlone, Committing, CommitLabel
<1>2. params[u].id = params[t].id /\ params[t].seq <= params[u].seq
  BY <1>1 DEF IndInv, SameDevice, CommitAhead, Committing, Busy
<1>3. lastHash[params[t].id] = HashNumber(params[u])
  BY <1>2 DEF IndInv, CommitAhead
<1>4. params[t].seq \in Nat /\ params[u].seq \in Nat
  BY DEF IndInv, TypeOK, Params
<1> QED
  BY <1>2, <1>3, <1>4 DEF Accepts, HashNumber

(* A worker's call ends.  A thread that was committing may have emptied    *)
(* the device file or saved its parameters in it; one that lost the answer *)
(* to its request leaves the backend ahead.                                *)
LEMMA IndLeave ==
  ASSUME IndInv, TypeOK', NEW t \in Worker,
         pc' = [pc EXCEPT ![t] = "idle"], Forget(t), pc[Main] = "serve",
         \/ deviceFile' = deviceFile
         \/ Committing(t) /\ deviceFile' \in {NoParams, params[t]},
         \/ lastHash' = lastHash
         \/ Grows /\ \A u \in Thread : ~Committing(u)
  PROVE  IndInv'
<1>1. \A u \in Thread \ {t} :
        pc'[u] = pc[u] /\ caller'[u] = caller[u] /\ params'[u] = params[u]
  BY DEF Forget, IndInv, TypeOK
<1>2. pc'[t] = "idle" /\ caller'[t] = None
  BY DEF Forget, IndInv, TypeOK
<1>3. t # Main
  BY ThreadAssumption
<1>4. Grows
  BY DEF IndInv, TypeOK, Grows
<1>5. FileBehind'
  <2>1. CASE deviceFile' = deviceFile
    BY <2>1, <1>4, FileStaysBehind DEF IndInv
  <2>2. CASE deviceFile' = NoParams
    BY <2>2 DEF FileBehind, NoParams
  <2>3. CASE Committing(t) /\ deviceFile' = params[t]
    <3>1. lastHash[params[t].id] = params[t].seq + 1 /\ lastHash' = lastHash
      BY <2>3 DEF IndInv, CommitAhead, HashNumber
    <3>2. params[t].seq \in Nat
      BY DEF IndInv, TypeOK, Params
    <3> QED
      BY <2>3, <3>1, <3>2 DEF FileBehind
  <2> QED
    BY <2>1, <2>2, <2>3
<1>6. BootAlone'
  BY <1>1, <1>2, <1>3, NoneAssumption DEF IndInv, BootAlone, CallSite
<1>7. CallerSeq'
  BY <1>1, <1>2 DEF IndInv, CallerSeq, Busy, CommitLabel
<1>8. SessionBehind'
  BY <1>1, <1>2, <1>4, NoneAssumption
  DEF IndInv, SessionBehind, CallerSeq, Busy, Grows, TypeOK, Params
<1>9. SameDevice'
  BY <1>1, <1>2, <1>3, NoneAssumption
  DEF IndInv, SameDevice, Busy, CommitLabel, Committing, NoParams
<1>10. CommitAhead'
  <2>1. \A u \in Thread \ {t} : Committing(u) =>
           lastHash' = lastHash /\ deviceFile' = deviceFile
    BY DEF IndInv, RefreshExclusive
  <2>2. \A u \in Thread : Committing(u)' => u # t /\ Committing(u)
    BY <1>1, <1>2 DEF Committing, CommitLabel
  <2> QED
    BY <1>1, <1>2, <2>1, <2>2 DEF IndInv, CommitAhead, HashNumber
<1>11. RefreshExclusive'
  BY <1>1, <1>2 DEF IndInv, RefreshExclusive, Committing, CommitLabel
<1> QED
  BY <1>5, <1>6, <1>7, <1>8, <1>9, <1>10, <1>11 DEF IndInv

(* A committing thread takes its next step, and may empty the device file. *)
LEMMA IndCommitMove ==
  ASSUME IndInv, TypeOK', NEW t \in Thread, Committing(t),
         NEW l \in CommitLabel, pc' = [pc EXCEPT ![t] = l],
         UNCHANGED <<caller, params, lastHash>>,
         deviceFile' \in {deviceFile, NoParams}
  PROVE  IndInv'
<1>1. /\ \A u \in Thread : u # t => pc'[u] = pc[u]
      /\ pc'[t] = l
  BY DEF IndInv, TypeOK
<1>2. /\ \A u \in Thread : Committing(u)' <=> Committing(u)
      /\ \A u \in Thread : (pc'[u] \in Busy) <=> (pc[u] \in Busy)
      /\ \A u \in Thread : (pc'[u] = "session") <=> (pc[u] = "session")
  BY <1>1 DEF Committing, Busy, CommitLabel
<1>3. deviceFile'.id # None => deviceFile' = deviceFile
  BY DEF NoParams
<1>4. BootAlone'
  BY <1>1 DEF IndInv, BootAlone, Committing, CommitLabel
<1>5. CallerSeq'
  BY <1>1, <1>2 DEF IndInv, CallerSeq, Busy, CommitLabel
<1>6. FileBehind' /\ SessionBehind'
  BY <1>2, <1>3 DEF IndInv, FileBehind, SessionBehind
<1>7. SameDevice'
  BY <1>2, <1>3 DEF IndInv, SameDevice
<1>8. CommitAhead'
  BY <1>2, <1>3 DEF IndInv, CommitAhead, HashNumber
<1>9. RefreshExclusive'
  BY <1>2 DEF IndInv, RefreshExclusive
<1> QED
  BY <1>4, <1>5, <1>6, <1>7, <1>8, <1>9 DEF IndInv

(* main() takes a step of setup() that grants no session; no worker runs.  *)
LEMMA IndSetupMove ==
  ASSUME IndInv, TypeOK', pc[Main] # "serve",
         NEW l \in Label \ (CommitLabel \cup {"serve", "idle"}),
         pc' = [pc EXCEPT ![Main] = l],
         caller'[Main] \notin {"noTry", "inTry"},
         \A w \in Worker : caller'[w] = caller[w],
         l = "read" => caller'[Main] # "activation",
         l \in {"openActivation", "writeActivation", "session"} =>
           /\ caller'[Main] = "activation"
           /\ params'[Main].id # None /\ params'[Main].seq = 0,
         UNCHANGED lastHash, FileBehind'
  PROVE  IndInv'
<1>1. pc'[Main] = l /\ \A w \in Worker : pc'[w] = "off"
  BY ThreadAssumption DEF IndInv, BootAlone, TypeOK
<1>2. BootAlone'
  BY <1>1 DEF IndInv, BootAlone
<1>3. CallerSeq'
  BY <1>1 DEF CallerSeq, Busy, CommitLabel
<1>4. SessionBehind' /\ SameDevice' /\ CommitAhead' /\ RefreshExclusive'
  BY <1>1
  DEF SessionBehind, SameDevice, CommitAhead, RefreshExclusive, Committing, Busy,
      CommitLabel
<1> QED
  BY <1>2, <1>3, <1>4 DEF IndInv

(* setup() returns a token, and the workers start. *)
LEMMA IndServe ==
  ASSUME IndInv, TypeOK', ReturnToken(Main), UNCHANGED lastHash,
         pc[Main] \notin {"serve", "off"},
         \/ deviceFile' = deviceFile
         \/ Committing(Main) /\ deviceFile' \in {NoParams, params[Main]}
  PROVE  IndInv'
<1>1. pc'[Main] = "serve" /\ caller'[Main] = None
  BY DEF ReturnToken, Forget, IndInv, TypeOK
<1>2. \A w \in Worker : pc'[w] = "idle" /\ caller'[w] = caller[w]
  BY ThreadAssumption DEF ReturnToken, Forget, IndInv, TypeOK
<1>3. BootAlone'
  BY <1>1, <1>2, NoneAssumption DEF IndInv, BootAlone, CallSite
<1>4. FileBehind'
  <2>1. CASE deviceFile' = deviceFile
    BY <2>1 DEF IndInv, FileBehind
  <2>2. CASE deviceFile' = NoParams
    BY <2>2 DEF FileBehind, NoParams
  <2>3. CASE Committing(Main) /\ deviceFile' = params[Main]
    <3>1. lastHash[params[Main].id] = params[Main].seq + 1
      BY <2>3 DEF IndInv, CommitAhead, HashNumber
    <3>2. params[Main].seq \in Nat
      BY DEF IndInv, TypeOK, Params
    <3> QED
      BY <2>3, <3>1, <3>2 DEF FileBehind
  <2> QED
    BY <2>1, <2>2, <2>3
<1>5. CallerSeq' /\ SessionBehind' /\ SameDevice' /\ CommitAhead' /\ RefreshExclusive'
  BY <1>1, <1>2
  DEF CallerSeq, SessionBehind, SameDevice, CommitAhead, RefreshExclusive,
      Committing, Busy, CommitLabel
<1> QED
  BY <1>3, <1>4, <1>5 DEF IndInv

(* The two ways in which a commit returns its token. *)
LEMMA IndReturnToken ==
  ASSUME IndInv, TypeOK', NEW t \in Thread, Committing(t), ReturnToken(t),
         UNCHANGED lastHash, deviceFile' \in {deviceFile, NoParams, params[t]}
  PROVE  IndInv'
<1>1. CASE t = Main
  <2>1. pc[Main] \notin {"serve", "off"}
    BY <1>1 DEF Committing, CommitLabel
  <2> QED
    BY <1>1, <2>1, IndServe
<1>2. CASE t # Main
  <2>1. pc[Main] = "serve"
    BY <1>2 DEF IndInv, BootAlone, Committing, CommitLabel
  <2>2. t \in Worker /\ pc' = [pc EXCEPT ![t] = "idle"] /\ Forget(t)
    BY <1>2 DEF ReturnToken
  <2> QED
    BY <2>1, <2>2, IndLeave
<1> QED
  BY <1>1, <1>2

(* A call that fails or throws, without having touched the device file. *)
LEMMA IndFail ==
  ASSUME IndInv, TypeOK', NEW t \in Thread, pc[t] \in Busy \cup {"read"},
         ReturnFailure(t) \/ Throw(t), deviceFile' = deviceFile,
         \/ lastHash' = lastHash
         \/ Grows /\ \A u \in Thread : ~Committing(u)
  PROVE  IndInv'
<1>1. Grows
  BY DEF IndInv, TypeOK, Grows
<1>2. CASE ProcessExit
  BY <1>1, <1>2, IndExit
<1>3. CASE ~ProcessExit
  <2>1. Abandon(t) /\ t \in Worker
    BY <1>3 DEF ReturnFailure, Throw, IndInv, BootAlone
  <2>2. pc[Main] = "serve"
    BY <2>1 DEF IndInv, BootAlone, Busy, CommitLabel
  <2> QED
    BY <2>1, <2>2, IndLeave DEF Abandon, Goto
<1> QED
  BY <1>2, <1>3

(* A refresh reads the device file and increments its number. *)
LEMMA IndRead ==
  ASSUME IndInv, TypeOK', NEW t \in Thread, ReadDeviceFile(t)
  PROVE  IndInv'
<1>1. /\ \A u \in Thread : u # t => pc'[u] = pc[u] /\ params'[u] = params[u]
      /\ pc[t] = "read" /\ pc'[t] = "session"
      /\ params'[t] = NextParams(deviceFile)
      /\ UNCHANGED <<caller, deviceFile, lastHash>>
  BY DEF ReadDeviceFile, Goto, IndInv, TypeOK, disk, backend
<1>2. /\ deviceFile.id # None /\ deviceFile.seq \in Nat
      /\ lastHash[deviceFile.id] \in Nat
      /\ params'[t].id = deviceFile.id /\ params'[t].seq = deviceFile.seq + 1
  BY <1>1 DEF ReadDeviceFile, IndInv, TypeOK, Params, NextParams
<1>3. caller[t] # "activation"
  BY <1>1 DEF IndInv, CallerSeq
<1>4. \A u \in Thread : pc[u] \in Busy =>
        caller[u] # "activation" /\ params[u].id = deviceFile.id
  <2>1. ASSUME NEW u \in Thread, pc[u] \in Busy
        PROVE  caller[u] # "activation"
    BY <1>1, <1>3, <2>1 DEF IndInv, BootAlone, Busy, CommitLabel
  <2> QED
    BY <1>2, <2>1 DEF IndInv, SameDevice
<1>5. \A u \in Thread : Committing(u)' <=> Committing(u)
  BY <1>1 DEF Committing, CommitLabel
<1>6. BootAlone'
  BY <1>1 DEF IndInv, BootAlone
<1>7. CallerSeq'
  BY <1>1, <1>2, <1>3 DEF IndInv, CallerSeq, Busy, CommitLabel
<1>8. FileBehind'
  BY <1>1 DEF IndInv, FileBehind
<1>9. SessionBehind'
  BY <1>1, <1>2 DEF IndInv, FileBehind, SessionBehind
<1>10. SameDevice'
  BY <1>1, <1>2, <1>3, <1>4 DEF SameDevice
<1>11. CommitAhead'
  <2>1. ASSUME NEW u \in Thread, Committing(u)
        PROVE  params'[t].seq <= params[u].seq /\ u # t
    <3>1. pc[u] \in Busy /\ params[u].seq \in Nat
      BY <2>1 DEF Committing, Busy, IndInv, TypeOK, Params
    <3>2. deviceFile.seq < params[u].seq
      BY <1>2, <1>4, <2>1, <3>1 DEF IndInv, CommitAhead
    <3> QED
      BY <1>1, <1>2, <2>1, <3>1, <3>2 DEF Committing, CommitLabel
  <2> QED
    BY <1>1, <1>5, <2>1 DEF IndInv, CommitAhead, HashNumber
<1>12. RefreshExclusive'
  BY <1>5 DEF IndInv, RefreshExclusive
<1> QED
  BY <1>6, <1>7, <1>8, <1>9, <1>10, <1>11, <1>12 DEF IndInv

(* The grant: nobody else is committing, and the new number is ahead of    *)
(* the file and of every other request.                                    *)
LEMMA IndGranted ==
  ASSUME IndInv, TypeOK', NEW t \in Thread, SessionGranted(t)
  PROVE  IndInv'
<1>1. /\ \A u \in Thread : u # t => pc'[u] = pc[u]
      /\ pc[t] = "session" /\ pc'[t] = "setToken"
      /\ UNCHANGED <<caller, params, deviceFile>>
      /\ Accepts(params[t])
      /\ lastHash' = [lastHash EXCEPT ![params[t].id] = HashNumber(params[t])]
  BY DEF SessionGranted, Accept, Goto, IndInv, TypeOK, disk
<1>2. \A u \in Thread : ~Committing(u)
  BY <1>1, OnlyCommitter
<1>3. \A u \in Thread : Committing(u)' <=> u = t
  BY <1>1, <1>2 DEF Committing, CommitLabel
<1>4. Grows
  BY AcceptGrows DEF SessionGranted, IndInv
<1>5. params[t].id \in Secret /\ params[t].seq \in Nat
  BY <1>1 DEF Accepts, IndInv, TypeOK, Params
<1>6. /\ lastHash'[params[t].id] = HashNumber(params[t])
      /\ lastHash[params[t].id] \in Nat
      /\ lastHash[params[t].id] <= params[t].seq
  BY <1>1, <1>5 DEF Accepts, HashNumber, IndInv, TypeOK
<1>7. BootAlone'
  BY <1>1 DEF IndInv, BootAlone, CommitLabel
<1>8. CallerSeq'
  BY <1>1 DEF IndInv, CallerSeq, Busy, CommitLabel
<1>9. FileBehind'
  BY <1>1, <1>4, FileStaysBehind DEF IndInv
<1>10. SessionBehind'
  BY <1>1, <1>4, NoneAssumption
  DEF IndInv, SessionBehind, CallerSeq, Busy, Grows, TypeOK, Params
<1>11. SameDevice'
  BY <1>1 DEF IndInv, SameDevice, Busy, CommitLabel
<1>12. CommitAhead'
  <2>1. ASSUME caller[t] # "activation", deviceFile.id # None
        PROVE  deviceFile.seq < params[t].seq
    <3>1. params[t].seq # 0
      BY <1>1, <2>1 DEF IndInv, CallerSeq, Busy
    <3>2. deviceFile.id = params[t].id /\ deviceFile.seq \in Nat
      BY <1>1, <2>1 DEF IndInv, SameDevice, Busy, TypeOK, Params
    <3> QED
      BY <1>5, <1>6, <2>1, <3>1, <3>2 DEF IndInv, FileBehind
  <2>2. ASSUME NEW u \in Thread, u # t, pc[u] = "session"
        PROVE  params[u].seq <= params[t].seq
    <3>1. caller[t] # "activation"
      BY <1>1, <2>2 DEF IndInv, BootAlone
    <3>2. params[u].id = params[t].id /\ params[u].seq \in Nat
      BY <1>1, <2>2, <3>1 DEF IndInv, SameDevice, Busy, TypeOK, Params
    <3>3. params[t].seq # 0
      BY <1>1, <3>1 DEF IndInv, CallerSeq, Busy
    <3> QED
      BY <1>5, <1>6, <2>2, <3>2, <3>3 DEF IndInv, SessionBehind
  <2> QED
    BY <1>1, <1>3, <1>6, <2>1, <2>2 DEF CommitAhead, HashNumber
<1>13. RefreshExclusive'
  BY <1>3 DEF RefreshExclusive
<1> QED
  BY <1>7, <1>8, <1>9, <1>10, <1>11, <1>12, <1>13 DEF IndInv

(* Every outcome of a session request. *)
LEMMA IndSession ==
  ASSUME IndInv, TypeOK', NEW t \in Thread, Session(t)
  PROVE  IndInv'
<1>1. CASE SessionGranted(t)
  BY <1>1, IndGranted
<1>2. CASE SessionReplyLost(t)
  <2>1. Grows /\ \A u \in Thread : ~Committing(u)
    BY <1>2, AcceptGrows, OnlyCommitter DEF SessionReplyLost, Accept, IndInv
  <2> QED
    BY <1>2, <2>1, IndFail DEF SessionReplyLost, Busy, disk
<1>3. CASE SessionUnreachable(t) \/ SessionEmpty(t)
  BY <1>3, IndFail DEF SessionUnreachable, SessionEmpty, Busy, disk, backend
<1>4. CASE SessionRefused(t)
  BY <1>4, IndExit DEF SessionRefused, Grows, IndInv, TypeOK, disk, backend
<1> QED
  BY <1>1, <1>2, <1>3, <1>4 DEF Session

(* Every step of a granted session. *)
LEMMA IndCommit ==
  ASSUME IndInv, TypeOK', NEW t \in Thread, Commit(t)
  PROVE  IndInv'
<1>1. CASE SetToken(t) \/ SetExpiry(t)
  <2>1. Committing(t) /\ pc[t] \in Busy /\ UNCHANGED <<deviceFile, lastHash>>
    BY <1>1 DEF SetToken, SetExpiry, Committing, CommitLabel, Busy, disk, backend
  <2>2. CASE ReturnFailure(t)
    BY <2>1, <2>2, IndFail
  <2>3. CASE ~ReturnFailure(t)
    BY <1>1, <2>1, <2>3, IndCommitMove DEF SetToken, SetExpiry, Goto, CommitLabel
  <2> QED
    BY <2>2, <2>3
<1>2. CASE OpenEnvFile(t) \/ WriteEnvToken(t) \/ WriteEnvExpiry(t)
  <2>1. /\ Committing(t) /\ UNCHANGED <<caller, params, deviceFile, lastHash>>
        /\ \E l \in CommitLabel : pc' = [pc EXCEPT ![t] = l]
    BY <1>2
    DEF OpenEnvFile, WriteEnvToken, WriteEnvExpiry, Committing, CommitLabel, Goto, backend
  <2> QED
    BY <2>1, IndCommitMove
<1>3. CASE UnlinkSecret(t)
  <2>1. Committing(t) /\ UNCHANGED <<deviceFile, lastHash>>
    BY <1>3 DEF UnlinkSecret, Committing, CommitLabel, backend
  <2> QED
    BY <1>3, <2>1, IndReturnToken, IndCommitMove DEF UnlinkSecret, Goto, CommitLabel
<1>4. CASE OpenDeviceFile(t)
  <2>1. Committing(t) /\ UNCHANGED lastHash
    BY <1>4 DEF OpenDeviceFile, Committing, CommitLabel, backend
  <2> QED
    BY <1>4, <2>1, IndReturnToken, IndCommitMove DEF OpenDeviceFile, Goto, CommitLabel
<1>5. CASE WriteDeviceFile(t)
  <2>1. Committing(t) /\ UNCHANGED lastHash
    BY <1>5 DEF WriteDeviceFile, Committing, CommitLabel, backend
  <2> QED
    BY <1>5, <2>1, IndReturnToken DEF WriteDeviceFile
<1> QED
  BY <1>1, <1>2, <1>3, <1>4, <1>5 DEF Commit

(* Every step of setup() and of an activation. *)
LEMMA IndSetup ==
  ASSUME IndInv, TypeOK', Setup
  PROVE  IndInv'
<1>0. FileBehind /\ caller[Main] \notin {"noTry", "inTry"} /\ TypeOK
  BY DEF IndInv, BootAlone
<1>1. CASE SetupFoundValid
  <2>1. pc[Main] \notin {"serve", "off"} /\ UNCHANGED <<deviceFile, lastHash>>
    BY <1>1 DEF SetupFoundValid, disk, backend
  <2> QED
    BY <1>1, <2>1, IndServe DEF SetupFoundValid
<1>2. CASE SetupFoundExpired
  <2>1. /\ pc[Main] # "serve" /\ pc' = [pc EXCEPT ![Main] = "read"]
        /\ caller'[Main] = "setup" /\ \A w \in Worker : caller'[w] = caller[w]
        /\ UNCHANGED <<deviceFile, lastHash>>
    BY <1>0, <1>2, ThreadAssumption
    DEF SetupFoundExpired, Goto, TypeOK, disk, backend
  <2>2. FileBehind'
    BY <1>0, <2>1 DEF FileBehind
  <2> QED
    BY <2>1, <2>2, IndSetupMove DEF Label, CommitLabel
<1>3. CASE SetupNotFound
  <2>1. UNCHANGED <<deviceFile, lastHash>> /\ Grows
    BY <1>0, <1>3 DEF SetupNotFound, Grows, TypeOK, disk, backend
  <2>2. CASE ProcessExit
    BY <2>1, <2>2, IndExit
  <2>3. CASE ~ProcessExit
    <3>1. FileBehind'
      BY <1>0, <2>1 DEF FileBehind
    <3> QED
      BY <1>0, <1>3, <2>1, <2>3, <3>1, IndSetupMove
      DEF SetupNotFound, Goto, Label, CommitLabel
  <2> QED
    BY <2>2, <2>3
<1>4. CASE ActivateDevice
  <2>1. UNCHANGED <<deviceFile, lastHash>> /\ Grows
    BY <1>0, <1>4 DEF ActivateDevice, Grows, TypeOK, disk
  <2>2. CASE ReturnFailure(Main)
    BY <2>1, <2>2, IndExit DEF ReturnFailure
  <2>3. CASE ~ReturnFailure(Main)
    <3>1. /\ pc[Main] # "serve" /\ pc' = [pc EXCEPT ![Main] = "openActivation"]
          /\ caller'[Main] = "activation" /\ \A w \in Worker : caller'[w] = caller[w]
          /\ params'[Main].id # None /\ params'[Main].seq = 0
      BY <1>0, <1>4, <2>3, ThreadAssumption, NoneAssumption
      DEF ActivateDevice, Goto, TypeOK
    <3>2. FileBehind'
      BY <1>0, <2>1 DEF FileBehind
    <3> QED
      BY <2>1, <3>1, <3>2, IndSetupMove DEF Label, CommitLabel, CallSite
  <2> QED
    BY <2>2, <2>3
<1>5. CASE ActivationFails
  <2>1. UNCHANGED <<deviceFile, lastHash>> /\ Grows /\ ProcessExit
    BY <1>0, <1>5 DEF ActivationFails, ReturnFailure, Grows, TypeOK, disk, backend
  <2> QED
    BY <2>1, IndExit
<1>6. CASE OpenActivationFile \/ WriteActivationFile
  <2>1. /\ pc[Main] \in {"openActivation", "writeActivation"}
        /\ UNCHANGED <<caller, params, lastHash>>
        /\ deviceFile' \in {deviceFile, NoParams, params[Main]}
        /\ \E l \in {"writeActivation", "session"} : pc' = [pc EXCEPT ![Main] = l]
    BY <1>6 DEF OpenActivationFile, WriteActivationFile, Goto, backend
  <2>2. caller[Main] = "activation" /\ params[Main].id # None /\ params[Main].seq = 0
    BY <2>1 DEF IndInv, CallerSeq
  <2>3. FileBehind'
    BY <1>0, <2>1, <2>2 DEF FileBehind, NoParams
  <2> QED
    BY <1>0, <2>1, <2>2, <2>3, IndSetupMove DEF Label, CommitLabel
<1> QED
  BY <1>1, <1>2, <1>3, <1>4, <1>5, <1>6 DEF Setup

(* Every step, a stuttering one included. *)
LEMMA IndNext ==
  ASSUME IndInv, [Next]_vars
  PROVE  IndInv'
<1>1. TypeOK' /\ TypeOK
  BY TypeNext DEF IndInv
<1>2. Grows \/ lastHash' # lastHash
  BY <1>1 DEF Grows, TypeOK
<1>3. CASE SetTokenTool \/ UNCHANGED vars
  BY <1>1, <1>3, IndStutter
  DEF SetTokenTool, ClearEnvFile, RemoveTokenIfExists, SaveSecretToken, vars,
      process, disk, backend
<1>4. CASE Start
  <2>1. /\ pc[Main] = "off" /\ pc' = [pc EXCEPT ![Main] = "check"]
        /\ UNCHANGED <<caller, params, deviceFile, lastHash>>
    BY <1>4 DEF Start, Goto, disk, backend
  <2>2. FileBehind' /\ caller'[Main] \notin {"noTry", "inTry"}
    BY <2>1 DEF IndInv, FileBehind, BootAlone
  <2> QED
    BY <1>1, <2>1, <2>2, IndSetupMove DEF Label, CommitLabel
<1>5. CASE Stop \/ Crash
  BY <1>1, <1>2, <1>5, IndExit DEF Stop, Crash, disk, backend
<1>6. ASSUME NEW w \in Worker, NEW site \in {"noTry", "inTry"}, BeginRefresh(w, site)
      PROVE  IndInv'
  <2>1. /\ pc[w] = "idle" /\ pc'[w] = "read" /\ caller'[w] = site
        /\ \A u \in Thread : u # w => pc'[u] = pc[u] /\ caller'[u] = caller[u]
        /\ UNCHANGED <<params, deviceFile, lastHash>>
    BY <1>1, <1>6 DEF BeginRefresh, Goto, TypeOK, disk, backend
  <2>2. /\ w # Main
        /\ \A u \in Thread : Committing(u)' <=> Committing(u)
        /\ \A u \in Thread : pc'[u] \in Busy => u # w
    BY <2>1, ThreadAssumption DEF Committing, Busy, CommitLabel
  <2>3. BootAlone'
    BY <2>1, <2>2 DEF IndInv, BootAlone
  <2>4. CallerSeq'
    BY <2>1, <2>2 DEF IndInv, CallerSeq, Busy
  <2>5. FileBehind' /\ SessionBehind'
    BY <2>1 DEF IndInv, FileBehind, SessionBehind
  <2>6. SameDevice' /\ CommitAhead' /\ RefreshExclusive'
    BY <2>1, <2>2
    DEF IndInv, SameDevice, CommitAhead, RefreshExclusive, Committing, Busy, HashNumber
  <2> QED
    BY <1>1, <2>3, <2>4, <2>5, <2>6 DEF IndInv
<1>7. ASSUME NEW t \in Thread, Refresh(t)
      PROVE  IndInv'
  <2>1. CASE ReadDeviceFile(t)
    BY <1>1, <2>1, IndRead
  <2>2. CASE ReadDeviceFileFails(t)
    BY <1>1, <2>2, IndFail DEF ReadDeviceFileFails, disk, backend
  <2> QED
    BY <1>7, <2>1, <2>2 DEF Refresh
<1> QED
  BY <1>1, <1>3, <1>4, <1>5, <1>6, <1>7, IndSetup, IndSession, IndCommit DEF Next

(* The protocol that holds the refreshing threads together is inductive:
   the file behind the backend, requests at most one ahead of what was
   granted, and a single committer ahead of all. *)
THEOREM Inductive == Spec => []IndInv
<1>1. IndInv /\ [Next]_vars => IndInv'
  BY IndNext
<1> QED
  BY <1>1, IndInit, PTL DEF Spec
-----------------------------------------------------------------------------
(* What follows. *)

(* However many threads refresh at once, at most one of them is between    *)
(* the grant of its session and the end of processActivateResponseOK and   *)
(* its save, although the code has no lock around them.                    *)
THEOREM Exclusive == Spec => []RefreshExclusive
<1>1. IndInv => RefreshExclusive
  BY DEF IndInv
<1> QED
  BY <1>1, Inductive, PTL
================================================================================
