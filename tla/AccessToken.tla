------------------------------ MODULE AccessToken ------------------------------
(***************************************************************************)
(* The life of the device's credentials: the one-time secret token that    *)
(* set_token installs, the device parameters that activation returns, and  *)
(* the access token that a session returns.                                *)
(*                                                                         *)
(*   set_token        installs a secret and empties the environment file   *)
(*   setup()          runs on the main thread each time the server starts  *)
(*   requestRefreshExpiredToken()                                          *)
(*                    runs on any thread of the running server: the        *)
(*                    periodic thread and every client handler call it,    *)
(*                    and nothing in the code makes them take turns        *)
(*   the backend      registers a device and grants it sessions; each      *)
(*                    session request carries a hash of the device key     *)
(*                    and a sequence number                                *)
(*                                                                         *)
(* A step is what one thread does between two points where another thread, *)
(* set_token, the backend or a crash can be observed: one call of getenv   *)
(* or setenv, one open (which truncates) or one flushed write of a file,   *)
(* one exchange with the backend.  A caller that starts a thread for the   *)
(* refresh joins it at once, so the two are one thread here.               *)
(***************************************************************************)
EXTENDS Integers, FiniteSets

CONSTANTS
  Worker,           \* threads of the running server that may refresh the token
  Main,             \* the thread of main(): setup, then the accept loop
  Secret,           \* one-time secret tokens; each one registers one device
  None,             \* absence of a secret, of parameters, of a token
  Faults,           \* the failures that may happen, a subset of FaultKind
  LiveReprovision,  \* may set_token run while the server is up?
  MaxHash           \* bound: no refresh or start begins past this sequence number

FaultKind ==
  { "request",   \* a session or activation request never reaches the backend
    "reply",     \* the backend acts on a request and its answer is lost
    "backend",   \* the backend answers with an error of its own
    "disk",      \* a file cannot be opened or written
    "setenv",    \* setenv fails
    "crash" }    \* the process is killed at an arbitrary point

ASSUME ThreadAssumption == Main \notin Worker
ASSUME FaultAssumption  == Faults \subseteq FaultKind
ASSUME BoundAssumption  == MaxHash \in Nat /\ LiveReprovision \in BOOLEAN

VARIABLES
  pc,          \* where each thread is
  caller,      \* who called the session request each thread is in
  params,      \* each thread's ActivateDeviceAPIResponse object
  token,       \* each thread's access token, once the backend granted it
  env,         \* ACCESS_TOKEN and TOKEN_EXPIRY_TIME of the process
  deviceFile,  \* device_security_parameters.json
  envFile,     \* ENVFILE_PATH, the EnvironmentFile of the service
  secretFile,  \* secrettoken.txt
  registered,  \* backend: the secrets that were used, each one now a device
  lastHash,    \* backend: the highest sequence number accepted per device
  admin,       \* where set_token is
  issued       \* the secrets that set_token has been given

process == <<pc, caller, params, token, env>>
disk    == <<deviceFile, envFile, secretFile>>
backend == <<registered, lastHash>>
setTool == <<admin, issued>>
vars    == <<process, disk, backend, setTool>>

Thread == Worker \cup {Main}

(* Where a thread is between a granted session and the end of the call:    *)
(* everything processActivateResponseOK and its refreshing caller still    *)
(* have to publish and save.                                               *)
CommitLabel ==
  { "setToken", "setExpiry", "openEnv", "writeEnvToken", "writeEnvExpiry",
    "unlinkSecret", "openDevice", "writeDevice" }

Label ==
  { "off", "idle", "serve", "check", "activate", "openActivation",
    "writeActivation", "read", "session" } \cup CommitLabel

(* Where the session request was made: by activation, by setup() for an    *)
(* expired token, by a refresh outside any try block (askRefreshToken, and *)
(* the "Access token expired" branch of sendPlainTextAttempt) or by one    *)
(* inside a try block (the field 32 branch, and all that it calls).        *)
CallSite == { "activation", "setup", "noTry", "inTry" }

ASSUME NoneAssumption == None \notin Secret \cup CallSite

Params == [id : Secret \cup {None}, seq : Nat]
Token  == [id : Secret \cup {None}, hash : Nat]
Env    == [token : Token, expiry : Token]

NoParams == [id |-> None, seq |-> 0]    \* a file that is missing or empty, too
NoToken  == [id |-> None, hash |-> 0]
NoEnv    == [token |-> NoToken, expiry |-> NoToken]

TypeOK ==
  /\ pc         \in [Thread -> Label]
  /\ caller     \in [Thread -> CallSite \cup {None}]
  /\ params     \in [Thread -> Params]
  /\ token      \in [Thread -> Token]
  /\ env        \in Env
  /\ deviceFile \in Params
  /\ envFile    \in Env
  /\ secretFile \in Secret \cup {None}
  /\ registered \in SUBSET Secret
  /\ lastHash   \in [Secret -> Nat]
  /\ admin      \in {"done", "cleared", "asking"}
  /\ issued     \in SUBSET Secret

(* A machine on which neither set_token nor the server has run yet. *)
Init ==
  /\ pc         = [t \in Thread |-> "off"]
  /\ caller     = [t \in Thread |-> None]
  /\ params     = [t \in Thread |-> NoParams]
  /\ token      = [t \in Thread |-> NoToken]
  /\ env        = NoEnv
  /\ deviceFile = NoParams
  /\ envFile    = NoEnv
  /\ secretFile = None
  /\ registered = {}
  /\ lastHash   = [s \in Secret |-> 0]
  /\ admin      = "done"
  /\ issued     = {}
-----------------------------------------------------------------------------
(* How a call ends. *)

Goto(t, label) ==
  /\ pc' = [pc EXCEPT ![t] = label]

(* The process ends: std::exit, std::terminate, a return from main() or a  *)
(* kill.  Its threads and its environment are gone, the files remain.      *)
ProcessExit ==
  /\ pc'     = [t \in Thread |-> "off"]
  /\ caller' = [t \in Thread |-> None]
  /\ params' = [t \in Thread |-> NoParams]
  /\ token'  = [t \in Thread |-> NoToken]
  /\ env'    = NoEnv

Forget(t) ==
  /\ caller' = [caller EXCEPT ![t] = None]
  /\ params' = [params EXCEPT ![t] = NoParams]
  /\ token'  = [token  EXCEPT ![t] = NoToken]

(* {0, accessToken}: main() starts the periodic thread and the server; a   *)
(* worker goes back to what it was doing.                                  *)
ReturnToken(t) ==
  /\ pc' = IF t = Main
             THEN [u \in Thread |-> IF u = Main THEN "serve" ELSE "idle"]
             ELSE [pc EXCEPT ![t] = "idle"]
  /\ Forget(t)

Abandon(t) ==
  /\ Goto(t, "idle")
  /\ Forget(t)
  /\ UNCHANGED env

(* {1, ""}: main() exits "as setup failed"; a worker carries on. *)
ReturnFailure(t) ==
  IF t = Main THEN ProcessExit ELSE Abandon(t)

(* An exception leaves the call.  future.get() rethrows it in the caller:  *)
(* main() catches it and ends, the field 32 branch catches it and carries  *)
(* on, anywhere else it leaves a detached thread and ends the process.     *)
Throw(t) ==
  IF caller[t] = "inTry" THEN Abandon(t) ELSE ProcessExit
-----------------------------------------------------------------------------
(* set_token: empty the environment file, remove the old secret, ask for   *)
(* the new one and save it.                                                *)

SetTokenMayRun == LiveReprovision \/ pc[Main] = "off"

(* Mutant: set_token leaves the environment file alone. *)
ClearEnvFileKept ==
  /\ admin = "done"
  /\ SetTokenMayRun
  /\ issued # Secret
  /\ admin' = "cleared"
  /\ UNCHANGED <<process, disk, backend, issued>>

(* That the file could not be opened is ignored. *)
ClearEnvFile ==
  /\ admin = "done"
  /\ SetTokenMayRun
  /\ issued # Secret
  /\ admin' = "cleared"
  /\ \/ envFile' = NoEnv
     \/ "disk" \in Faults /\ UNCHANGED envFile
  /\ UNCHANGED <<process, deviceFile, secretFile, backend, issued>>

(* fs::remove throws when it fails, and set_token ends. *)
RemoveTokenIfExists ==
  /\ admin = "cleared"
  /\ \/ admin' = "asking" /\ secretFile' = None
     \/ /\ "disk" \in Faults /\ secretFile # None
        /\ admin' = "done" /\ UNCHANGED secretFile
  /\ UNCHANGED <<process, deviceFile, envFile, backend, issued>>

SaveSecretToken(s) ==
  /\ admin = "asking"
  /\ s \notin issued
  /\ admin'  = "done"
  /\ issued' = issued \cup {s}
  /\ \/ secretFile' = s
     \/ "disk" \in Faults /\ UNCHANGED secretFile
  /\ UNCHANGED <<process, deviceFile, envFile, backend>>
-----------------------------------------------------------------------------
(* setup(), on the main thread. *)

WithinBound == \A s \in Secret : lastHash[s] < MaxHash

(* The service manager starts the process with the variables of the        *)
(* environment file; a start by hand has neither variable.                 *)
Start ==
  /\ pc[Main] = "off"
  /\ WithinBound
  /\ LiveReprovision \/ admin = "done"
  /\ Goto(Main, "check")
  /\ env' \in {envFile, NoEnv}
  /\ UNCHANGED <<caller, params, token, disk, backend, setTool>>

HasToken(e)  == e.token.id # None
HasExpiry(e) == e.expiry.id # None

(* Mutant: a token without an expiry time is taken for valid. *)
SetupFoundToken ==
  /\ pc[Main] = "check"
  /\ HasToken(env)
  /\ ReturnToken(Main)
  /\ UNCHANGED <<env, disk, backend, setTool>>

(* SESSIONTOKENCHECK_FOUND_VALID: both variables are set and the expiry    *)
(* time is still to come (the clock is not modelled: it may be).           *)
SetupFoundValid ==
  /\ pc[Main] = "check"
  /\ HasToken(env) /\ HasExpiry(env)
  /\ ReturnToken(Main)
  /\ UNCHANGED <<env, disk, backend, setTool>>

(* SESSIONTOKENCHECK_FOUND_EXPIRED: no expiry time, or one that is past. *)
SetupFoundExpired ==
  /\ pc[Main] = "check"
  /\ HasToken(env)
  /\ Goto(Main, "read")
  /\ caller' = [caller EXCEPT ![Main] = "setup"]
  /\ UNCHANGED <<params, token, env, disk, backend, setTool>>

(* SESSIONTOKENCHECK_NOT_FOUND: the secret decides. *)
SetupNotFound ==
  /\ pc[Main] = "check"
  /\ ~HasToken(env)
  /\ \/ /\ secretFile # None
        /\ Goto(Main, "activate")
        /\ UNCHANGED <<caller, params, token, env>>
     \/ /\ secretFile = None \/ "disk" \in Faults
        /\ ProcessExit
  /\ UNCHANGED <<disk, backend, setTool>>

(* requestAccessTokenFromSecretToken reads the secret again and spends it. *)
ActivateDevice ==
  /\ pc[Main] = "activate"
  /\ secretFile \in Secret \ registered
  /\ registered' = registered \cup {secretFile}
  /\ \/ /\ Goto(Main, "openActivation")
        /\ params' = [params EXCEPT ![Main] = [id |-> secretFile, seq |-> 0]]
        /\ caller' = [caller EXCEPT ![Main] = "activation"]
        /\ UNCHANGED <<token, env>>
     \/ /\ "reply" \in Faults
        /\ ReturnFailure(Main)
  /\ UNCHANGED <<disk, lastHash, setTool>>

(* A secret that is gone or was used already is refused, an activation     *)
(* that fails in any other way returns {1, ""}: both end the process.      *)
ActivationFails ==
  /\ pc[Main] = "activate"
  /\ secretFile \notin Secret \ registered \/ {"request", "backend"} \cap Faults # {}
  /\ ReturnFailure(Main)
  /\ UNCHANGED <<disk, backend, setTool>>

(* Mutant: the activation is not saved. *)
OpenActivationFileSkipped ==
  /\ pc[Main] = "openActivation"
  /\ Goto(Main, "session")
  /\ UNCHANGED <<caller, params, token, env, disk, backend, setTool>>

(* saveJsonToFile: an error is logged, and the session is requested anyway. *)
OpenActivationFile ==
  /\ pc[Main] = "openActivation"
  /\ \/ Goto(Main, "writeActivation") /\ deviceFile' = NoParams
     \/ "disk" \in Faults /\ Goto(Main, "session") /\ UNCHANGED deviceFile
  /\ UNCHANGED <<caller, params, token, env, envFile, secretFile, backend, setTool>>

WriteActivationFile ==
  /\ pc[Main] = "writeActivation"
  /\ Goto(Main, "session")
  /\ \/ deviceFile' = params[Main]
     \/ "disk" \in Faults /\ UNCHANGED deviceFile
  /\ UNCHANGED <<caller, params, token, env, envFile, secretFile, backend, setTool>>
-----------------------------------------------------------------------------
(* requestRefreshExpiredToken *)

BeginRefresh(w, site) ==
  /\ pc[w] = "idle"
  /\ WithinBound
  /\ Goto(w, "read")
  /\ caller' = [caller EXCEPT ![w] = site]
  /\ UNCHANGED <<params, token, env, disk, backend, setTool>>

(* Mutants: the sequence number is not incremented, or decremented. *)
SameParams(p)     == p
PreviousParams(p) == [p EXCEPT !.seq = @ - 1]

NextParams(p) == [p EXCEPT !.seq = @ + 1]    \* incrementDeviceSequence

ReadDeviceFile(t) ==
  /\ pc[t] = "read"
  /\ deviceFile.id # None
  /\ Goto(t, "session")
  /\ params' = [params EXCEPT ![t] = NextParams(deviceFile)]
  /\ UNCHANGED <<caller, token, env, disk, backend, setTool>>

(* A missing file makes readFileContents throw; an empty or half-written   *)
(* one parses to null, and the conversion of its missing fields throws.    *)
ReadDeviceFileFails(t) ==
  /\ pc[t] = "read"
  /\ deviceFile.id = None \/ "disk" \in Faults
  /\ Throw(t)
  /\ UNCHANGED <<disk, backend, setTool>>
-----------------------------------------------------------------------------
(* processActivateResponseOK: the session request and its answers. *)

HashNumber(p) == p.seq + 1    \* calculateHash increments once more

(* The backend refuses a hash it has seen, or one from before it. *)
Accepts(p) == p.id \in registered /\ HashNumber(p) > lastHash[p.id]

Accept(p) ==
  /\ Accepts(p)
  /\ lastHash' = [lastHash EXCEPT ![p.id] = HashNumber(p)]

(* Mutant: the parameters are saved as soon as the session is granted. *)
SessionGrantedSavedFirst(t) ==
  /\ pc[t] = "session"
  /\ Accept(params[t])
  /\ Goto(t, "setToken")
  /\ token' = [token EXCEPT ![t] =
                 [id |-> params[t].id, hash |-> HashNumber(params[t])]]
  /\ deviceFile' = params[t]
  /\ UNCHANGED <<caller, params, env, envFile, secretFile, registered, setTool>>

SessionGranted(t) ==
  /\ pc[t] = "session"
  /\ Accept(params[t])
  /\ Goto(t, "setToken")
  /\ token' = [token EXCEPT ![t] =
                 [id |-> params[t].id, hash |-> HashNumber(params[t])]]
  /\ UNCHANGED <<caller, params, env, disk, registered, setTool>>

(* Granted, but the answer is lost: json::parse("") throws. *)
SessionReplyLost(t) ==
  /\ pc[t] = "session"
  /\ "reply" \in Faults
  /\ Accept(params[t])
  /\ Throw(t)
  /\ UNCHANGED <<disk, registered, setTool>>

(* The request or a refusal is lost, or the answer is an error page and    *)
(* not JSON: the same exception.                                           *)
SessionUnreachable(t) ==
  /\ pc[t] = "session"
  /\ \/ {"request", "backend"} \cap Faults # {}
     \/ "reply" \in Faults /\ ~Accepts(params[t])
  /\ Throw(t)
  /\ UNCHANGED <<disk, backend, setTool>>

(* Any message in the answer: processSessionResponseErrorMessage calls     *)
(* std::exit on whatever thread it runs.                                   *)
SessionRefused(t) ==
  /\ pc[t] = "session"
  /\ ~Accepts(params[t]) \/ "backend" \in Faults
  /\ ProcessExit
  /\ UNCHANGED <<disk, backend, setTool>>

(* Neither a message nor an access token: {1, ""}. *)
SessionEmpty(t) ==
  /\ pc[t] = "session"
  /\ "backend" \in Faults
  /\ ReturnFailure(t)
  /\ UNCHANGED <<disk, backend, setTool>>
-----------------------------------------------------------------------------
(* processActivateResponseOK after a granted session, and the save of the  *)
(* device parameters by requestRefreshExpiredToken.                        *)

SetToken(t) ==
  /\ pc[t] = "setToken"
  /\ \/ /\ Goto(t, "setExpiry")
        /\ env' = [env EXCEPT !.token = token[t]]
        /\ UNCHANGED <<caller, params, token>>
     \/ "setenv" \in Faults /\ ReturnFailure(t)
  /\ UNCHANGED <<disk, backend, setTool>>

SetExpiry(t) ==
  /\ pc[t] = "setExpiry"
  /\ \/ /\ Goto(t, "openEnv")
        /\ env' = [env EXCEPT !.expiry = token[t]]
        /\ UNCHANGED <<caller, params, token>>
     \/ "setenv" \in Faults /\ ReturnFailure(t)
  /\ UNCHANGED <<disk, backend, setTool>>

(* Mutants: the file is opened without trunc; a refresh does not store. *)
OpenEnvFileKept(t) ==
  /\ pc[t] = "openEnv"
  /\ Goto(t, "writeEnvToken")
  /\ UNCHANGED <<caller, params, token, env, disk, backend, setTool>>

OpenEnvFileOnActivation(t) ==
  /\ pc[t] = "openEnv"
  /\ \/ /\ caller[t] = "activation"
        /\ Goto(t, "writeEnvToken")
        /\ envFile' = NoEnv
     \/ /\ caller[t] # "activation"
        /\ Goto(t, "unlinkSecret")
        /\ UNCHANGED envFile
  /\ UNCHANGED <<caller, params, token, env, deviceFile, secretFile, backend, setTool>>

(* storeEnvironmentVariables: opened with trunc, then two flushed lines;   *)
(* its result is ignored.                                                  *)
OpenEnvFile(t) ==
  /\ pc[t] = "openEnv"
  /\ \/ Goto(t, "writeEnvToken") /\ envFile' = NoEnv
     \/ "disk" \in Faults /\ Goto(t, "unlinkSecret") /\ UNCHANGED envFile
  /\ UNCHANGED <<caller, params, token, env, deviceFile, secretFile, backend, setTool>>

WriteEnvToken(t) ==
  /\ pc[t] = "writeEnvToken"
  /\ \/ Goto(t, "writeEnvExpiry") /\ envFile' = [envFile EXCEPT !.token = token[t]]
     \/ "disk" \in Faults /\ Goto(t, "unlinkSecret") /\ UNCHANGED envFile
  /\ UNCHANGED <<caller, params, token, env, deviceFile, secretFile, backend, setTool>>

WriteEnvExpiry(t) ==
  /\ pc[t] = "writeEnvExpiry"
  /\ Goto(t, "unlinkSecret")
  /\ \/ envFile' = [envFile EXCEPT !.expiry = token[t]]
     \/ "disk" \in Faults /\ UNCHANGED envFile
  /\ UNCHANGED <<caller, params, token, env, deviceFile, secretFile, backend, setTool>>

(* deleteFile(getSecretTokenPath()): whatever secret is there now.  This   *)
(* ends an activation; a refresh goes on to save the parameters.           *)
UnlinkSecret(t) ==
  /\ pc[t] = "unlinkSecret"
  /\ secretFile' = None \/ ("disk" \in Faults /\ UNCHANGED secretFile)
  /\ \/ caller[t] = "activation" /\ ReturnToken(t)
     \/ /\ caller[t] # "activation"
        /\ Goto(t, "openDevice")
        /\ UNCHANGED <<caller, params, token>>
  /\ UNCHANGED <<env, deviceFile, envFile, backend, setTool>>

(* saveStringToFile: errors only reach stderr. *)
OpenDeviceFile(t) ==
  /\ pc[t] = "openDevice"
  /\ \/ /\ Goto(t, "writeDevice")
        /\ deviceFile' = NoParams
        /\ UNCHANGED <<caller, params, token>>
     \/ "disk" \in Faults /\ ReturnToken(t) /\ UNCHANGED deviceFile
  /\ UNCHANGED <<env, envFile, secretFile, backend, setTool>>

(* Mutants: the sequence number is incremented once more before it is      *)
(* saved; the parameters as they were before the refresh are saved.        *)
WriteDeviceFileAhead(t) ==
  /\ pc[t] = "writeDevice"
  /\ deviceFile' = NextParams(params[t])
  /\ ReturnToken(t)
  /\ UNCHANGED <<env, envFile, secretFile, backend, setTool>>

WriteDeviceFileStale(t) ==
  /\ pc[t] = "writeDevice"
  /\ deviceFile' = [params[t] EXCEPT !.seq = @ - 1]
  /\ ReturnToken(t)
  /\ UNCHANGED <<env, envFile, secretFile, backend, setTool>>

WriteDeviceFile(t) ==
  /\ pc[t] = "writeDevice"
  /\ deviceFile' = params[t] \/ ("disk" \in Faults /\ UNCHANGED deviceFile)
  /\ ReturnToken(t)
  /\ UNCHANGED <<env, envFile, secretFile, backend, setTool>>
-----------------------------------------------------------------------------
(* The operator stops the service while no refresh is under way, or the    *)
(* process is killed wherever its threads are.                             *)

Stop ==
  /\ pc[Main] = "serve"
  /\ \A w \in Worker : pc[w] = "idle"
  /\ ProcessExit
  /\ UNCHANGED <<disk, backend, setTool>>

Crash ==
  /\ "crash" \in Faults
  /\ pc[Main] # "off"
  /\ ProcessExit
  /\ UNCHANGED <<disk, backend, setTool>>
-----------------------------------------------------------------------------
SetTokenTool ==
  \/ ClearEnvFile
  \/ RemoveTokenIfExists
  \/ \E s \in Secret : SaveSecretToken(s)

Setup ==
  \/ SetupFoundValid \/ SetupFoundExpired \/ SetupNotFound
  \/ ActivateDevice  \/ ActivationFails
  \/ OpenActivationFile \/ WriteActivationFile

Refresh(t) ==
  \/ ReadDeviceFile(t) \/ ReadDeviceFileFails(t)

Session(t) ==
  \/ SessionGranted(t) \/ SessionReplyLost(t) \/ SessionUnreachable(t)
  \/ SessionRefused(t) \/ SessionEmpty(t)

Commit(t) ==
  \/ SetToken(t)     \/ SetExpiry(t)
  \/ OpenEnvFile(t)  \/ WriteEnvToken(t) \/ WriteEnvExpiry(t)
  \/ UnlinkSecret(t) \/ OpenDeviceFile(t) \/ WriteDeviceFile(t)

Next ==
  \/ SetTokenTool
  \/ Start \/ Stop \/ Crash
  \/ Setup
  \/ \E w \in Worker : \E site \in {"noTry", "inTry"} : BeginRefresh(w, site)
  \/ \E t \in Thread : Refresh(t) \/ Session(t) \/ Commit(t)

Spec == Init /\ [][Next]_vars
-----------------------------------------------------------------------------
(* Safety.  Nothing in the server makes the refreshing threads take turns: *)
(* what protects them from each other is that they all start from the same *)
(* file, that the file is written last, and that the backend accepts each  *)
(* sequence number once.                                                   *)

Committing(t) == pc[t] \in CommitLabel

(* At most one thread is between the grant of a session and the end of its *)
(* call, so that the two environment variables, the environment file and   *)
(* the device file are written by one refresh at a time.                   *)
RefreshExclusive ==
  \A t, u \in Thread : Committing(t) /\ Committing(u) => t = u

(* No session request skips a number of the backend, though the file may   *)
(* be several refreshes and crashes old.  The one exception is number 1 of *)
(* a device whose parameters were saved by an activation that lost its own *)
(* session request.                                                        *)
HashNeverSkips ==
  \A t \in Thread :
    pc[t] = "session" =>
      \/ HashNumber(params[t]) <= lastHash[params[t].id] + 1
      \/ lastHash[params[t].id] = 0 /\ HashNumber(params[t]) = 2

(* The access token of a device is never replaced by an older one, in      *)
(* whatever order the refreshing threads reach setenv.                     *)
TokenNeverRegresses ==
  [][ env.token.id # None /\ env'.token.id = env.token.id
        => env'.token.hash >= env.token.hash ]_env

(* What a refresh saves is what the backend accepted last: no refresh      *)
(* overwrites the sequence number of a later one.  An activation saves the *)
(* number 0 of a device that has no session yet.                           *)
SaveIsLatest ==
  [][ deviceFile'.id # None
        => deviceFile'.seq = IF lastHash[deviceFile'.id] = 0
                               THEN 0
                               ELSE lastHash[deviceFile'.id] - 1 ]_deviceFile

(* The expiry time that is_valid_access_token and the periodic thread read *)
(* belongs to the token that is sent, except between the two setenv calls; *)
(* where setenv may fail, it may be that of an earlier token, never of a   *)
(* later one.  A crash cannot leave the environment file with two halves   *)
(* of different sessions.                                                  *)
Paired(e) == HasToken(e) /\ HasExpiry(e) => e.token = e.expiry

ExpiryOlder(e, tok) == e.expiry.id = tok.id => e.expiry.hash < tok.hash

EnvPaired ==
  /\ \/ \E t \in Thread : pc[t] = "setExpiry"
     \/ Paired(env)
     \/ "setenv" \in Faults /\ ExpiryOlder(env, env.token)
  /\ Paired(envFile)

(* While the server serves, both variables are set: the client handlers    *)
(* and the periodic thread build a string from what getenv returns without *)
(* a look at it.                                                           *)
EnvComplete == pc[Main] = "serve" => HasToken(env) /\ HasExpiry(env)

(* With one refreshing thread, no crash and no lost answer, every session  *)
(* request carries exactly the number the backend expects, so that no      *)
(* sequence of refreshes, refusals, restarts and re-provisionings locks    *)
(* the device out.                                                         *)
SessionAccepted ==
  \A t \in Thread :
    pc[t] = "session" =>
      /\ Accepts(params[t])
      /\ HashNumber(params[t]) = lastHash[params[t].id] + 1

(* Under the same conditions a device whose secret is spent keeps its      *)
(* parameters on disk, or a thread of the server is about to write them.   *)
CredentialKept ==
  admin = "done" /\ issued # {} =>
    \/ secretFile \in Secret \ registered
    \/ deviceFile.id # None
    \/ \E t \in Thread :
         pc[t] \in {"openActivation", "writeActivation", "writeDevice"}

(* While the server serves and no refresh is publishing a token, the       *)
(* environment file holds what the process has: a restart by the service   *)
(* manager resumes with the latest session.                                *)
EnvPersisted ==
  pc[Main] = "serve" /\ (\A t \in Thread : ~Committing(t)) => envFile = env

(* "delete secret token on success": as long as set_token runs while the   *)
(* server is down and has emptied the environment file, the server only    *)
(* deletes a secret that the backend has turned into a device.             *)
SecretSpentBeforeDeleted ==
  [][ secretFile # None /\ secretFile' = None /\ pc # pc'
        => secretFile \in registered ]_secretFile

(* "return {0,accesstoken} if success and has a token, return {1,""}       *)
(* otherwise": a thread of the running server leaves a refresh by          *)
(* returning from it, not by ending the process.                           *)
RefreshReturns ==
  [][ \A w \in Worker :
        (pc[w] \in CommitLabel \cup {"read", "session"} /\ pc'[w] # pc[w])
          => pc'[w] # "off" ]_pc

(* "one time config": once set_token was run, a start of the server finds  *)
(* an access token, or a secret that it can still spend.                   *)
OneTimeConfig ==
  pc[Main] = "check" /\ issued # {} =>
    HasToken(env) \/ secretFile \in Secret \ registered
-----------------------------------------------------------------------------
(* The inductive invariant behind RefreshExclusive, in named parts. *)

Busy == CommitLabel \cup {"session"}

(* While main() is in setup() or the process is down there is no worker,   *)
(* and only main() activates.                                              *)
BootAlone ==
  /\ pc[Main] # "serve" => \A w \in Worker : pc[w] = "off"
  /\ pc[Main] # "idle" /\ caller[Main] \notin {"noTry", "inTry"}
  /\ \A w \in Worker :
       /\ pc[w] \in CommitLabel \cup {"off", "idle", "read", "session"}
       /\ caller[w] # "activation"

(* An activation works with sequence number 0, a refresh with a later one. *)
CallerSeq ==
  \A t \in Thread :
    /\ pc[t] = "read" => caller[t] # "activation"
    /\ pc[t] \in {"openActivation", "writeActivation"} => caller[t] = "activation"
    /\ pc[t] \in Busy \cup {"openActivation", "writeActivation"} =>
         /\ params[t].id # None
         /\ (caller[t] = "activation") <=> (params[t].seq = 0)

(* The file is behind the backend, and what was read from it is at most    *)
(* the number the backend expects next.                                    *)
FileBehind ==
  deviceFile.id # None =>
    deviceFile.seq = 0 \/ deviceFile.seq < lastHash[deviceFile.id]

SessionBehind ==
  \A t \in Thread :
    pc[t] = "session" =>
      params[t].seq <= 1 \/ params[t].seq <= lastHash[params[t].id]

(* All refreshes work on one device, the one in the file. *)
SameDevice ==
  \A t \in Thread :
    pc[t] \in Busy /\ caller[t] # "activation" =>
      /\ deviceFile.id # None => deviceFile.id = params[t].id
      /\ \A u \in Thread : pc[u] \in Busy => params[u].id = params[t].id

(* A granted session carries the last number the backend accepted, beyond  *)
(* everything on file and everything other threads are asking for.         *)
CommitAhead ==
  \A u \in Thread :
    Committing(u) =>
      /\ lastHash[params[u].id] = HashNumber(params[u])
      /\ caller[u] # "activation" /\ deviceFile.id # None =>
           deviceFile.seq < params[u].seq
      /\ \A t \in Thread : pc[t] = "session" => params[t].seq <= params[u].seq

IndInv ==
  /\ TypeOK
  /\ BootAlone
  /\ CallerSeq
  /\ FileBehind
  /\ SessionBehind
  /\ SameDevice
  /\ CommitAhead
  /\ RefreshExclusive
-----------------------------------------------------------------------------
(* What is needed on top of IndInv for SaveIsLatest, TokenNeverRegresses   *)
(* and EnvComplete.                                                        *)

(* The token that is being published is that of the session just granted. *)
TokenOfSession ==
  \A t \in Thread :
    Committing(t) =>
      token[t] = [id |-> params[t].id, hash |-> HashNumber(params[t])]

(* A token in the process or in its file is none of the future. *)
TokenBehind ==
  \A e \in {env, envFile} :
    e.token.id # None => e.token.hash <= lastHash[e.token.id]

(* A device has no session before it is activated and its parameters are   *)
(* saved.                                                                  *)
FreshDevice ==
  /\ \A s \in Secret \ registered : lastHash[s] = 0
  /\ pc[Main] \in {"openActivation", "writeActivation"} =>
       lastHash[params[Main].id] = 0

(* setup() sets the two variables, and nothing unsets them. *)
EnvSet ==
  /\ pc[Main] = "off" => env = NoEnv
  /\ pc[Main] \in {"serve"} \cup (CommitLabel \ {"setToken"}) => HasToken(env)
  /\ pc[Main] \in {"serve"} \cup (CommitLabel \ {"setToken", "setExpiry"}) =>
       HasExpiry(env)

PublishInv ==
  /\ TokenOfSession
  /\ TokenBehind
  /\ FreshDevice
  /\ EnvSet
-----------------------------------------------------------------------------
(* What is needed on top of both for EnvPaired and the refinement below.   *)

(* From the first setenv on the process has the token that is being        *)
(* published, and from the second one on its expiry time; before that, the *)
(* expiry time of an earlier token.                                        *)
EnvOfSession ==
  \A t \in Thread :
    /\ Committing(t) /\ pc[t] # "setToken" => env.token = token[t]
    /\ Committing(t) /\ pc[t] \notin {"setToken", "setExpiry"} =>
         env.expiry = token[t]
    /\ pc[t] \in {"setToken", "setExpiry"} => ExpiryOlder(env, token[t])

(* The file is empty when the token is written, and has that token or none *)
(* (set_token may have emptied it again) when the expiry time is written.  *)
FileOfSession ==
  \A t \in Thread :
    /\ pc[t] = "writeEnvToken" => envFile = NoEnv
    /\ pc[t] = "writeEnvExpiry" =>
         envFile.token \in {token[t], NoToken} /\ envFile.expiry = NoToken

ExpiryBehind ==
  \A e \in {env, envFile} :
    e.expiry.id # None => e.expiry.hash <= lastHash[e.expiry.id]

PairInv ==
  /\ EnvOfSession
  /\ FileOfSession
  /\ ExpiryBehind
  /\ EnvPaired
-----------------------------------------------------------------------------
(* What is needed on top of the three for the properties of a server that  *)
(* set_token leaves alone while it runs, in the order of the assumptions   *)
(* that each part takes.                                                   *)

(* Any failure but the disk's, any number of threads: set_token finishes   *)
(* while the server is down, and a secret that is not spent is found by a  *)
(* server that has no token, or by none.                                   *)
ProvisionAlone ==
  /\ admin # "done" => pc[Main] = "off" /\ envFile = NoEnv
  /\ secretFile \in Secret \ registered =>
       /\ envFile = NoEnv /\ env = NoEnv
       /\ pc[Main] \in {"off", "check", "activate"}

(* The disk and setenv do not fail: the file follows the environment, one  *)
(* commit at a time.                                                       *)
FileFollowsEnv ==
  /\ HasToken(env) /\ (\A t \in Thread : ~Committing(t)) => envFile = env
  /\ \A t \in Thread :
       /\ pc[t] = "writeEnvExpiry" => envFile.token = token[t]
       /\ pc[t] \in {"unlinkSecret", "openDevice", "writeDevice"} =>
            envFile = env

(* One refreshing thread, neither a crash nor a lost answer nor a failing  *)
(* disk: the secrets that are used were installed, and the parameters that *)
(* a thread works with are on disk until it rewrites them.                 *)
ParamsOnFile ==
  /\ registered \subseteq issued /\ secretFile \in issued \cup {None}
  /\ \A t \in Thread :
       pc[t] \in Busy \ {"writeDevice"} => deviceFile.id # None

(* In addition setenv does not fail and set_token waits.  An activation    *)
(* begins without a token, with a device that has had no session, and has  *)
(* saved its parameters when it asks for one; it does not save them again. *)
ActivationFirst ==
  \A t \in Thread :
    /\ \/ pc[t] \in {"openActivation", "writeActivation"}
       \/ pc[t] = "session" /\ caller[t] = "activation"
       => ~HasToken(env) /\ ~HasToken(envFile) /\ lastHash[params[t].id] = 0
    /\ pc[t] \in Busy /\ caller[t] = "activation" =>
         deviceFile = params[t] /\ pc[t] \notin {"openDevice", "writeDevice"}

(* Between two commits the file holds the number that the backend accepted *)
(* last, less one, once there was a session; and the request that reads it *)
(* carries the next one.                                                   *)
FileInStep ==
  /\ deviceFile.id # None => deviceFile.id \in registered
  /\ /\ deviceFile.id # None
     /\ HasToken(env) \/ HasToken(envFile)
     /\ \A t \in Thread : ~Committing(t)
     => HashNumber(deviceFile) = lastHash[deviceFile.id]
  /\ \A t \in Thread :
       /\ pc[t] \in Busy \cup {"openActivation", "writeActivation"} =>
            params[t].id \in registered
       /\ pc[t] = "read" => HasToken(env)
       /\ pc[t] = "session" /\ caller[t] # "activation" =>
            params[t].seq = lastHash[params[t].id]

-----------------------------------------------------------------------------
(* The refinement: however many threads refresh, and wherever they fail,   *)
(* the four cells are written as SessionStore says, in single steps and in *)
(* the order of the sessions.                                              *)
Store == INSTANCE SessionStore
           WITH Device    <- Secret,
                granted   <- lastHash,
                published <- env.token,
                stored    <- envFile.token,
                saved     <- deviceFile

ImplementsStore == Store!Spec
================================================================================
