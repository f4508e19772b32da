----------------------------- MODULE SendPlainText -----------------------------
(***************************************************************************)
(* The execution of requests by the client handlers of the custom server,  *)
(* on top of AccessToken: a handler takes the token from the environment,  *)
(* posts its payload, and when the backend says that the token is expired, *)
(* refreshes it and posts the payload again with the token it got.         *)
(*                                                                         *)
(* The backend says so in two ways, a bare text and field 32 of an ISO8583 *)
(* response, and the code has a branch for each: only in the second one is *)
(* the refresh, and all that follows it, inside a try block.               *)
(*                                                                         *)
(* A handler is one thread of Worker and executes one request at a time;   *)
(* the periodic thread is another.  The stream the requests come from is   *)
(* the subject of ServerCustom.                                            *)
(***************************************************************************)
EXTENDS AccessToken, Sequences

CONSTANTS
  Periodic,     \* the worker that is the periodic thread
  Length,       \* lengths of the payloads that are sent, a subset of LengthKind
  MaxExpired    \* bound: no token with a later sequence number expires

(* The second substr in modifyISO8583MessageForExpiredTokenAlert, from the *)
(* character 137 on, throws for a payload that is shorter.                 *)
LengthKind == { "short", "long" }

(* An exception of a handler ends the process, which is a crash to the     *)
(* threads in AccessToken.                                                 *)
ASSUME PeriodicAssumption == Periodic \in Worker
ASSUME LengthAssumption ==
  /\ Length \subseteq LengthKind
  /\ "short" \in Length => "crash" \in Faults
ASSUME MaxExpiredAssumption == MaxExpired \in Nat

VARIABLES
  request,   \* the request each handler executes, or executed last
  expired    \* backend: the last sequence number that is expired, per device

sendVars == <<vars, request, expired>>

Handler == Worker \ {Periodic}

(* inTry: is the call inside the try block of a field 32 branch?           *)
(* executed, sent: history, how often the backend executed the payload and *)
(* what the requestor was sent.                                            *)
Request ==
  [ at       : { "none", "post", "refresh", "alert" },
    token    : Token,
    length   : LengthKind \cup {None},
    inTry    : BOOLEAN,
    executed : Nat,
    sent     : Seq({ "response", "other", "alert" }) ]

NoRequest ==
  [ at |-> "none", token |-> NoToken, length |-> None, inTry |-> FALSE,
    executed |-> 0, sent |-> <<>> ]

RequestTypeOK ==
  /\ request \in [Handler -> Request]
  /\ expired \in [Secret -> Nat]

SendInit ==
  /\ Init
  /\ request = [h \in Handler |-> NoRequest]
  /\ expired = [s \in Secret |-> 0]
-----------------------------------------------------------------------------
(* Mutant: a request outlives its process. *)
KeepAll(requests) == request' = requests

(* The requests of a process end with it. *)
Keep(requests) ==
  request' = IF pc'[Main] = "off" THEN [h \in Handler |-> NoRequest] ELSE requests

Finish(h, executed, sent) ==
  request' = [request EXCEPT ![h] = [NoRequest EXCEPT
                !.executed = request[h].executed + executed,
                !.sent     = request[h].sent \o sent]]

(* handleClientCustom takes a message from its buffer and the token from   *)
(* the environment, which always has one (EnvComplete).                    *)
Receive(h, length) ==
  /\ pc[Main] = "serve" /\ request[h].at = "none"
  /\ request' = [request EXCEPT ![h] = [NoRequest EXCEPT !.at     = "post",
                                                         !.token  = env.token,
                                                         !.length = length]]
  /\ UNCHANGED <<vars, expired>>

(* Backend: a token of the sequence numbers that expired is refused. *)
Valid(t) == t.hash > expired[t.id]

(* The response has no "TOKEN EXPIRY" in field 32: it is returned to the   *)
(* requestor unmodified.                                                   *)
Respond(h) ==
  /\ request[h].at = "post"
  /\ Valid(request[h].token)
  /\ Finish(h, 1, <<"response">>)
  /\ UNCHANGED <<vars, expired>>

(* Mutant: an empty response is taken for an expired token. *)
PostFailsRefreshed(h) ==
  /\ request[h].at = "post"
  /\ "reply" \in Faults
  /\ Valid(request[h].token)
  /\ BeginRefresh(h, "noTry")
  /\ request' = [request EXCEPT ![h].at = "refresh", ![h].executed = @ + 1]
  /\ UNCHANGED expired

(* curl fails: a response that is empty, or cut, has no field 32 and is    *)
(* forwarded as it is; what cannot be parsed throws and is not.            *)
PostFails(h) ==
  /\ request[h].at = "post"
  /\ \/ "reply" \in Faults /\ Valid(request[h].token)
        /\ \E sent \in {<<>>, <<"other">>} : Finish(h, 1, sent)
     \/ {"request", "backend"} \cap Faults # {}
        /\ \E sent \in {<<>>, <<"other">>} : Finish(h, 0, sent)
  /\ UNCHANGED <<vars, expired>>

Site(r) == IF r.inTry THEN "inTry" ELSE "noTry"

(* "Access token expired", as a text of its own. *)
ExpirationWarning(h) ==
  /\ request[h].at = "post"
  /\ ~Valid(request[h].token)
  /\ BeginRefresh(h, Site(request[h]))
  /\ request' = [request EXCEPT ![h].at = "refresh"]
  /\ UNCHANGED expired

(* Mutant: the response with "TOKEN EXPIRY" is returned as well. *)
TokenExpiryForwarded(h) ==
  /\ request[h].at = "post"
  /\ ~Valid(request[h].token)
  /\ BeginRefresh(h, "inTry")
  /\ request' = [request EXCEPT ![h].at = "refresh", ![h].inTry = TRUE,
                                ![h].sent = Append(@, "other")]
  /\ UNCHANGED expired

(* "TOKEN EXPIRY", in field 32 of the response. *)
TokenExpiry(h) ==
  /\ request[h].at = "post"
  /\ ~Valid(request[h].token)
  /\ BeginRefresh(h, "inTry")
  /\ request' = [request EXCEPT ![h].at = "refresh", ![h].inTry = TRUE]
  /\ UNCHANGED expired
-----------------------------------------------------------------------------
(* The three ways in which requestRefreshExpiredToken comes back to a      *)
(* handler; the fourth is the end of the process.                          *)

(* Mutant: the payload is posted again with the token that was refused.    *)
RepostSameToken(h) ==
  /\ OpenDeviceFile(h) \/ WriteDeviceFile(h)
  /\ pc'[h] = "idle"
  /\ request' = [request EXCEPT ![h].at = "post"]
  /\ UNCHANGED expired

(* {0, newAccessToken}: the next attempt. *)
RefreshSucceeds(h) ==
  /\ OpenDeviceFile(h) \/ WriteDeviceFile(h)
  /\ pc'[h] = "idle"
  /\ request' = [request EXCEPT ![h].at = "post", ![h].token = token[h]]
  /\ UNCHANGED expired

(* {1, ""} *)
RefreshFails(h) ==
  /\ SessionEmpty(h) \/ SetToken(h) \/ SetExpiry(h)
  /\ pc'[h] = "idle"
  /\ request' = [request EXCEPT ![h].at = "alert"]
  /\ UNCHANGED expired

(* An exception, which the try block of the field 32 branch catches: the   *)
(* requestor is sent nothing.                                              *)
RefreshThrows(h) ==
  /\ ReadDeviceFileFails(h) \/ SessionReplyLost(h) \/ SessionUnreachable(h)
  /\ pc'[h] = "idle"
  /\ Finish(h, 0, <<>>)
  /\ UNCHANGED expired

(* Mutant: an alert that could not be built is tried again. *)
AlertRetried(h) ==
  /\ request[h].at = "alert"
  /\ \/ request[h].length = "long" /\ Finish(h, 0, <<"alert">>)
     \/ request[h].length = "short" /\ UNCHANGED request
  /\ UNCHANGED <<vars, expired>>

(* modifyISO8583MessageForExpiredTokenAlert and resendToRequestor *)
Alert(h) ==
  /\ request[h].at = "alert"
  /\ \/ /\ request[h].length = "long"
        /\ Finish(h, 0, <<"alert">>)
        /\ UNCHANGED vars
     \/ /\ request[h].length = "short" /\ request[h].inTry
        /\ Finish(h, 0, <<>>)
        /\ UNCHANGED vars
     \/ /\ request[h].length = "short" /\ ~request[h].inTry
        /\ ProcessExit
        /\ Keep(request)
        /\ UNCHANGED <<disk, backend, setTool>>
  /\ UNCHANGED expired
-----------------------------------------------------------------------------
(* Everything else that AccessToken describes. *)

RefreshStep(t) == Refresh(t) \/ Session(t) \/ Commit(t)

MayExpire == \A s \in Secret : lastHash[s] <= MaxExpired

Elsewhere ==
  /\ \/ SetTokenTool \/ Stop \/ Crash \/ Setup
     \/ MayExpire /\ (Start \/ BeginRefresh(Periodic, "noTry"))
     \/ \E t \in {Main, Periodic} : RefreshStep(t)
     \/ \E h \in Handler : RefreshStep(h) /\ pc'[h] # "idle"
  /\ Keep(request)
  /\ UNCHANGED expired

(* Backend: tokens expire in the order in which they were granted. *)
Expire(s) ==
  /\ expired[s] < lastHash[s] /\ expired[s] < MaxExpired
  /\ expired' = [expired EXCEPT ![s] = @ + 1]
  /\ UNCHANGED <<vars, request>>

SendPlainText(h) ==
  \/ Respond(h) \/ PostFails(h)
  \/ ExpirationWarning(h) \/ TokenExpiry(h)
  \/ RefreshSucceeds(h) \/ RefreshFails(h) \/ RefreshThrows(h)
  \/ Alert(h)

SendNext ==
  \/ \E h \in Handler : (\E n \in Length : Receive(h, n)) \/ SendPlainText(h)
  \/ \E s \in Secret : Expire(s)
  \/ Elsewhere

SendSpec == SendInit /\ [][SendNext]_sendVars

(* A handler's thread is scheduled, in a refresh too, and the backend      *)
(* answers it or its call fails; nobody else owes it anything.             *)
Progress(h) ==
  SendPlainText(h) \/ (RefreshStep(h) /\ pc'[h] # "idle" /\ Keep(request) /\ UNCHANGED expired)

FairSendSpec == SendSpec /\ \A h \in Handler : WF_sendVars(Progress(h))
-----------------------------------------------------------------------------
(* No payload is executed twice by the backend, however often it is        *)
(* posted: only a refusal is followed by another attempt.                  *)
ExecutedOnce == \A h \in Handler : request[h].executed <= 1

(* What a requestor is told is what happened: one answer at most, the      *)
(* response of a payload that was executed, or the alert "DECLINED" of one *)
(* that was not.                                                           *)
AnswerTruthful ==
  \A h \in Handler :
    LET r == request[h]
    IN  /\ Len(r.sent) <= 1
        /\ r.sent = <<"response">> => r.executed = 1
        /\ r.sent = <<"alert">>    => r.executed = 0

(* The next attempt carries a later token than the one that was refused,   *)
(* or that of another device, whatever other threads have refreshed since. *)
RetryCarriesNewerToken ==
  [][ \A h \in Handler :
        request[h].at = "refresh" /\ request'[h].at = "post" =>
          \/ request'[h].token.id # request[h].token.id
          \/ request'[h].token.hash > request[h].token.hash ]_request

(* Though the number of attempts has no limit, every request ends: with an *)
(* answer, in silence, or with the process.                                *)
RequestEnds == \A h \in Handler : request[h].at # "none" ~> request[h].at = "none"
-----------------------------------------------------------------------------
(* The inductive invariant behind these properties, in named parts.  It is *)
(* relative to IndInv and PublishInv of AccessToken.                       *)

(* A handler is in a refresh exactly when its request is, and the refresh  *)
(* knows whether a try block encloses it.                                  *)
RefreshOfRequest ==
  \A h \in Handler :
    /\ request[h].at = "refresh" <=> pc[h] \notin {"off", "idle"}
    /\ request[h].at = "refresh" => caller[h] = Site(request[h])

(* Only a server that serves has requests; one that is under way is of an  *)
(* allowed length, and nothing was executed for it or sent yet.            *)
RequestUnderWay ==
  \A h \in Handler :
    request[h].at # "none" =>
      /\ pc[Main] = "serve"
      /\ request[h].length \in Length
      /\ request[h].executed = 0 /\ request[h].sent = <<>>

(* The token of a request is not of the future, and the session that its   *)
(* refresh is granted is later.                                            *)
TokenOfRequest ==
  \A h \in Handler :
    request[h].at # "none" =>
      /\ request[h].token.id \in Secret
      /\ request[h].token.hash <= lastHash[request[h].token.id]
      /\ Committing(h) =>
           \/ params[h].id # request[h].token.id
           \/ HashNumber(params[h]) > request[h].token.hash

RequestInv ==
  /\ RequestTypeOK
  /\ RefreshOfRequest
  /\ RequestUnderWay
  /\ TokenOfRequest
  /\ ExecutedOnce
  /\ AnswerTruthful
================================================================================
