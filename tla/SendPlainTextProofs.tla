------------------------- MODULE SendPlainTextProofs -------------------------
(***************************************************************************)
(* What SendPlainText guarantees for any number of handlers and secrets,   *)
(* any bound and any set of failures: it is a use of AccessToken, so that  *)
(* all that is proved there holds here, and no payload is executed twice   *)
(* or answered with something that did not happen.                         *)
(***************************************************************************)
EXTENDS SendPlainText, AccessTokenSaveProofs

USE DEF Thread

(* What RequestInv says of one handler. *)
HandlerInv(h) ==
  /\ request[h].at = "refresh" <=> pc[h] \notin {"off", "idle"}
  /\ request[h].at = "refresh" => caller[h] = Site(request[h])
  /\ request[h].at # "none" =>
       /\ pc[Main] = "serve"
       /\ request[h].length \in Length
       /\ request[h].executed = 0 /\ request[h].sent = <<>>
       /\ request[h].token.id \in Secret
       /\ request[h].token.hash <= lastHash[request[h].token.id]
       /\ Committing(h) =>
            \/ params[h].id # request[h].token.id
            \/ HashNumber(params[h]) > request[h].token.hash
  /\ request[h].executed <= 1
  /\ Len(request[h].sent) <= 1
  /\ request[h].sent = <<"response">> => request[h].executed = 1
  /\ request[h].sent = <<"alert">>    => request[h].executed = 0

(* RequestInv, one handler at a time. *)
LEMMA RequestSplit ==
  /\ RequestInv  <=> RequestTypeOK  /\ \A h \in Handler : HandlerInv(h)
  /\ RequestInv' <=> RequestTypeOK' /\ \A h \in Handler : HandlerInv(h)'
BY DEF RequestInv, RefreshOfRequest, RequestUnderWay, TokenOfRequest, ExecutedOnce,
       AnswerTruthful, HandlerInv

(* A handler is a worker. *)
LEMMA HandlerFacts ==
  ASSUME NEW h \in Handler
  PROVE  h \in Worker /\ h \in Thread /\ h # Main /\ h # Periodic
BY ThreadAssumption DEF Handler

(* The request of a new process. *)
LEMMA NoRequestType == NoRequest \in Request
<1>1. <<>> \in Seq({"response", "other", "alert"})
  OBVIOUS
<1> QED
  BY <1>1, AbsenceType DEF NoRequest, Request

(* What a requestor may be sent. *)
LEMMA SentFacts ==
  /\ \A sent \in {<<>>, <<"other">>, <<"response">>, <<"alert">>} :
       sent \in Seq({"response", "other", "alert"}) /\ Len(sent) <= 1
  /\ <<>> \notin {<<"response">>, <<"alert">>}
  /\ <<"other">> \notin {<<"response">>, <<"alert">>}
  /\ <<"response">> # <<"alert">>
<1>1. Len(<<>>) = 0 /\ Len(<<"response">>) = 1 /\ Len(<<"alert">>) = 1
  OBVIOUS
<1>2. <<"other">>[1] = "other" /\ <<"response">>[1] = "response" /\ <<"alert">>[1] = "alert"
  OBVIOUS
<1>3. <<>> \notin {<<"response">>, <<"alert">>}
  BY <1>1
<1>4. /\ <<>> \in Seq({"response", "other", "alert"}) /\ Len(<<>>) <= 1
      /\ <<"other">> \in Seq({"response", "other", "alert"}) /\ Len(<<"other">>) <= 1
  OBVIOUS
<1>5. /\ <<"response">> \in Seq({"response", "other", "alert"}) /\ Len(<<"response">>) <= 1
      /\ <<"alert">> \in Seq({"response", "other", "alert"}) /\ Len(<<"alert">>) <= 1
  OBVIOUS
<1> QED
  BY <1>2, <1>3, <1>4, <1>5
-----------------------------------------------------------------------------
(* The composition: every step is one of AccessToken, or leaves its state  *)
(* alone.                                                                  *)

(* An alert that throws is a crash to the other threads. *)
LEMMA AlertStep ==
  ASSUME RequestInv, NEW h \in Handler, Alert(h)
  PROVE  Crash \/ UNCHANGED vars
<1>1. request[h].at # "none" /\ pc[Main] # "off" /\ request[h].length \in Length
  BY DEF Alert, RequestInv, RequestUnderWay
<1> QED
  BY <1>1, LengthAssumption DEF Alert, Crash

(* A handler's step, in or around a refresh. *)
LEMMA HandlerStep ==
  ASSUME RequestInv, NEW h \in Handler, SendPlainText(h)
  PROVE  [Next]_vars
<1>1. h \in Worker /\ h \in Thread
  BY HandlerFacts
<1>2. CASE Respond(h) \/ PostFails(h)
  BY <1>2 DEF Respond, PostFails
<1>3. CASE ExpirationWarning(h) \/ TokenExpiry(h)
  BY <1>1, <1>3 DEF ExpirationWarning, TokenExpiry, Site, Next
<1>4. CASE RefreshSucceeds(h) \/ RefreshFails(h) \/ RefreshThrows(h)
  <2>1. Refresh(h) \/ Session(h) \/ Commit(h)
    BY <1>4
    DEF RefreshSucceeds, RefreshFails, RefreshThrows, Refresh, Session, Commit
  <2> QED
    BY <1>1, <2>1 DEF Next
<1>5. CASE Alert(h)
  BY <1>5, AlertStep DEF Next
<1> QED
  BY <1>2, <1>3, <1>4, <1>5 DEF SendPlainText

(* Every step, a stuttering one included. *)
LEMMA SendStep ==
  ASSUME RequestInv, [SendNext]_sendVars
  PROVE  [Next]_vars
<1>1. CASE UNCHANGED sendVars \/ \E s \in Secret : Expire(s)
  BY <1>1 DEF sendVars, Expire
<1>2. ASSUME NEW h \in Handler, NEW n \in Length, Receive(h, n)
      PROVE  [Next]_vars
  BY <1>2 DEF Receive
<1>3. ASSUME NEW h \in Handler, SendPlainText(h)
      PROVE  [Next]_vars
  BY <1>3, HandlerStep
<1>4. CASE Elsewhere
  BY <1>4, PeriodicAssumption, HandlerFacts DEF Elsewhere, RefreshStep, Next
<1> QED
  BY <1>1, <1>2, <1>3, <1>4 DEF SendNext
-----------------------------------------------------------------------------
(* Frames. *)

(* Where a refresh is, and where its step can take it. *)
LEMMA RefreshFrame ==
  ASSUME NEW t \in Thread, RefreshStep(t)
  PROVE  /\ pc[t] \in CommitLabel \cup {"read", "session"}
         /\ \/ ProcessExit \/ Abandon(t) \/ ReturnToken(t)
            \/ /\ \E l \in CommitLabel \cup {"session"} : Goto(t, l)
               /\ UNCHANGED caller
<1>1. CASE Refresh(t) \/ Session(t)
  BY <1>1
  DEF Refresh, ReadDeviceFile, ReadDeviceFileFails, Session, SessionGranted,
      SessionReplyLost, SessionUnreachable, SessionRefused, SessionEmpty,
      Throw, ReturnFailure, CommitLabel
<1>2. CASE Commit(t)
  BY <1>2
  DEF Commit, SetToken, SetExpiry, OpenEnvFile, WriteEnvToken, WriteEnvExpiry,
      UnlinkSecret, OpenDeviceFile, WriteDeviceFile, ReturnFailure, CommitLabel
<1> QED
  BY <1>1, <1>2 DEF RefreshStep

(* A worker's refresh moves no other thread, unless it ends the process.   *)
LEMMA OthersKept ==
  ASSUME TypeOK, NEW t \in Worker, RefreshStep(t), ~ProcessExit,
         NEW g \in Thread, g # t
  PROVE  pc'[g] = pc[g] /\ caller'[g] = caller[g]
<1>1. t \in Thread /\ t # Main
  BY ThreadAssumption
<1> QED
  BY <1>1, RefreshFrame DEF Abandon, ReturnToken, Forget, Goto, TypeOK

(* A handler whose request is not touched. *)
LEMMA HandlerKept ==
  ASSUME IndInv, IndInv', RequestTypeOK, [Next]_vars, NEW g \in Handler, HandlerInv(g),
         request'[g] = request[g],
         request[g].at = "none" \/ pc'[Main] = "serve",
         pc'[g] \in {"off", "idle"} <=> pc[g] \in {"off", "idle"},
         request[g].at = "refresh" => caller'[g] = caller[g]
  PROVE  HandlerInv(g)'
<1>0. g \in Thread /\ TypeOK /\ TypeOK' /\ Grows
  BY HandlerFacts, HashGrows DEF IndInv
<1>1. ASSUME request[g].at # "none"
      PROVE  request[g].token.hash <= lastHash'[request[g].token.id]
  <2>1. request[g].token.hash \in Nat
    BY DEF RequestTypeOK, Request, Token
  <2> QED
    BY <1>0, <1>1, <2>1 DEF HandlerInv, Grows, TypeOK
<1>2. ASSUME request[g].at # "none", Committing(g)', params'[g].id = request[g].token.id
      PROVE  HashNumber(params'[g]) > request[g].token.hash
  <2>1. CASE Committing(g) /\ params'[g] = params[g]
    BY <1>2, <2>1 DEF HandlerInv
  <2>2. CASE SessionGranted(g)
    <3>1. params'[g] = params[g] /\ Accepts(params[g])
      BY <2>2 DEF SessionGranted, Accept
    <3>2. /\ HashNumber(params[g]) > lastHash[request[g].token.id]
          /\ lastHash[request[g].token.id] >= request[g].token.hash
      BY <1>2, <3>1 DEF Accepts, HandlerInv
    <3>3. /\ HashNumber(params[g]) \in Nat /\ request[g].token.hash \in Nat
          /\ lastHash[request[g].token.id] \in Nat
      BY <1>0, <1>2, FieldType DEF TypeOK, RequestTypeOK, Request, Token, HandlerInv
    <3> QED
      BY <3>1, <3>2, <3>3
  <2> QED
    BY <1>0, <1>2, <2>1, <2>2, CommitStep
<1> QED
  BY <1>1, <1>2 DEF HandlerInv, Site, HashNumber

(* One handler's request changes and no other thread moves. *)
LEMMA OneRequest ==
  ASSUME IndInv, IndInv', RequestInv, [Next]_vars, NEW h \in Handler, NEW r \in Request,
         request' = [request EXCEPT ![h] = r], expired' = expired,
         HandlerInv(h)',
         pc'[Main] = pc[Main],
         \A g \in Handler : g # h => pc'[g] = pc[g] /\ caller'[g] = caller[g]
  PROVE  RequestInv'
<1>1. RequestTypeOK'
  BY DEF RequestInv, RequestTypeOK
<1>2. ASSUME NEW g \in Handler, g # h
      PROVE  HandlerInv(g)'
  <2>1. request'[g] = request[g] /\ HandlerInv(g)
    BY <1>2, RequestSplit DEF RequestInv, RequestTypeOK
  <2> QED
    BY <1>2, <2>1, HandlerKept DEF RequestInv, RequestUnderWay
<1> QED
  BY <1>1, <1>2, RequestSplit
-----------------------------------------------------------------------------
(* RequestInv, one action at a time. *)

(* A request begins with the token of the environment. *)
LEMMA ReceiveInv ==
  ASSUME IndInv, IndInv', PublishInv, RequestInv, NEW h \in Handler, NEW n \in Length,
         Receive(h, n)
  PROVE  RequestInv'
<1> DEFINE r == [NoRequest EXCEPT !.at = "post", !.token = env.token, !.length = n]
<1>1. /\ request' = [request EXCEPT ![h] = r] /\ UNCHANGED <<vars, expired>>
      /\ pc[Main] = "serve" /\ request[h].at = "none"
  BY DEF Receive
<1>2. UNCHANGED <<pc, caller, params, token, lastHash>>
  BY <1>1 DEF vars, process, backend
<1>3. env.token \in Token /\ n \in LengthKind /\ n \in LengthKind \cup {None}
  BY LengthAssumption DEF IndInv, TypeOK, Env
<1>4. r \in Request /\ r.at = "post" /\ r.token = env.token /\ r.length = n
      /\ r.executed = 0 /\ r.sent = <<>> /\ r.inTry = FALSE
  BY <1>3, NoRequestType DEF NoRequest, Request
<1>5. request'[h] = r
  BY <1>1, <1>4 DEF RequestInv, RequestTypeOK
<1>6. env.token.id \in Secret /\ env.token.hash <= lastHash[env.token.id]
  BY <1>1, <1>3 DEF PublishInv, EnvSet, TokenBehind, HasToken, Token
<1>7. pc[h] \in {"off", "idle"}
  BY <1>1 DEF RequestInv, RefreshOfRequest
<1>8. ~Committing(h)'
  BY <1>2, <1>7 DEF Committing, CommitLabel
<1> HIDE DEF r
<1>9. HandlerInv(h)'
  <2>1. /\ request'[h].at = "post" /\ request'[h].token = env.token
        /\ request'[h].length = n /\ request'[h].executed = 0
        /\ request'[h].sent = <<>>
    BY <1>4, <1>5
  <2>2. Len(request'[h].sent) <= 1 /\ request'[h].sent \notin {<<"response">>, <<"alert">>}
    BY <2>1, SentFacts
  <2>3. pc'[h] \in {"off", "idle"} /\ pc'[Main] = "serve" /\ lastHash' = lastHash
    BY <1>1, <1>2, <1>7
  <2> QED
    BY <1>6, <1>8, <2>1, <2>2, <2>3 DEF HandlerInv
<1> QED
  BY <1>1, <1>2, <1>4, <1>9, OneRequest

(* A request ends, and its handler is not in a refresh. *)
LEMMA FinishInv ==
  ASSUME IndInv, IndInv', RequestInv, [Next]_vars, NEW h \in Handler,
         request[h].at # "none",
         NEW executed \in {0, 1}, NEW sent \in Seq({"response", "other", "alert"}),
         Len(sent) <= 1,
         sent = <<"response">> => executed = 1, sent = <<"alert">> => executed = 0,
         Finish(h, executed, sent), expired' = expired,
         pc'[h] \in {"off", "idle"}, pc'[Main] = pc[Main],
         \A g \in Handler : g # h => pc'[g] = pc[g] /\ caller'[g] = caller[g]
  PROVE  RequestInv'
<1> DEFINE r == [NoRequest EXCEPT !.executed = executed, !.sent = sent]
<1>1. request[h].executed = 0 /\ request[h].sent = <<>>
  BY DEF RequestInv, RequestUnderWay
<1>2. request[h].executed + executed = executed /\ request[h].sent \o sent = sent
  BY <1>1
<1>3. request' = [request EXCEPT ![h] = r]
  BY <1>2 DEF Finish
<1>4. r.at = "none" /\ r.executed = executed /\ r.sent = sent
  BY DEF NoRequest
<1>a. executed \in Nat
  OBVIOUS
<1>b. r \in Request
  BY <1>a, NoRequestType DEF Request
<1>5. request'[h] = r
  BY <1>3, <1>b DEF RequestInv, RequestTypeOK
<1> HIDE DEF r
<1>6. HandlerInv(h)'
  <2>1. request'[h].at = "none" /\ request'[h].executed = executed /\ request'[h].sent = sent
    BY <1>4, <1>5
  <2>2. executed <= 1
    OBVIOUS
  <2> QED
    BY <2>1, <2>2 DEF HandlerInv
<1> QED
  BY <1>3, <1>b, <1>6, OneRequest

(* The posts that end the request. *)
LEMMA PostInv ==
  ASSUME IndInv, IndInv', RequestInv, NEW h \in Handler, Respond(h) \/ PostFails(h)
  PROVE  RequestInv'
<1>1. request[h].at = "post" /\ UNCHANGED <<vars, expired>>
  BY DEF Respond, PostFails
<1>2. UNCHANGED <<pc, caller>>
  BY <1>1 DEF vars, process
<1>3. pc[h] \in {"off", "idle"}
  BY <1>1 DEF RequestInv, RefreshOfRequest
<1>4. \E executed \in {0, 1}, sent \in {<<>>, <<"other">>, <<"response">>} :
        Finish(h, executed, sent) /\ (sent = <<"response">> => executed = 1)
  BY DEF Respond, PostFails
<1>5. PICK executed \in {0, 1}, sent \in {<<>>, <<"other">>, <<"response">>} :
        Finish(h, executed, sent) /\ (sent = <<"response">> => executed = 1)
  BY <1>4
<1> QED
  BY <1>1, <1>2, <1>3, <1>5, FinishInv, SentFacts

(* A post that was refused begins a refresh. *)
LEMMA BeginRefreshInv ==
  ASSUME IndInv, IndInv', RequestInv, [Next]_vars, NEW h \in Handler, NEW r \in Request,
         request[h].at = "post", BeginRefresh(h, Site(r)),
         request' = [request EXCEPT ![h] = r], expired' = expired,
         r.at = "refresh", r.token = request[h].token, r.length = request[h].length,
         r.executed = request[h].executed, r.sent = request[h].sent
  PROVE  RequestInv'
<1>1. h \in Thread /\ h # Main /\ TypeOK /\ RequestTypeOK
  BY HandlerFacts DEF IndInv, RequestInv
<1>2. request'[h] = r
  BY <1>1 DEF RequestTypeOK
<1>3. /\ pc'[h] = "read" /\ caller'[h] = Site(r)
      /\ \A g \in Thread : g # h => pc'[g] = pc[g] /\ caller'[g] = caller[g]
      /\ lastHash' = lastHash
  BY <1>1 DEF BeginRefresh, Goto, TypeOK, backend
<1>4. ~Committing(h)'
  BY <1>3 DEF Committing, CommitLabel
<1>5. HandlerInv(h)'
  <2>1. HandlerInv(h)
    BY RequestSplit
  <2> QED
    BY <1>1, <1>2, <1>3, <1>4, <2>1 DEF HandlerInv, Site
<1> QED
  BY <1>1, <1>3, <1>5, OneRequest, HandlerFacts

(* The two ways in which the backend refuses a token. *)
LEMMA BeginInv ==
  ASSUME IndInv, IndInv', RequestInv, [Next]_vars, NEW h \in Handler,
         ExpirationWarning(h) \/ TokenExpiry(h)
  PROVE  RequestInv'
<1>1. RequestTypeOK
  BY DEF RequestInv
<1>2. CASE ExpirationWarning(h)
  <2> DEFINE r == [request[h] EXCEPT !.at = "refresh"]
  <2>1. /\ r \in Request
        /\ r.at = "refresh" /\ r.token = request[h].token /\ r.length = request[h].length
        /\ r.executed = request[h].executed /\ r.sent = request[h].sent
        /\ r.inTry = request[h].inTry
    BY <1>1 DEF RequestTypeOK, Request
  <2>2. request' = [request EXCEPT ![h] = r] /\ expired' = expired
    BY <1>2 DEF ExpirationWarning
  <2>3. request[h].at = "post" /\ BeginRefresh(h, Site(request[h]))
    BY <1>2 DEF ExpirationWarning
  <2>4. Site(r) = Site(request[h])
    BY <2>1 DEF Site
  <2> HIDE DEF r
  <2>5. BeginRefresh(h, Site(r))
    BY <2>3, <2>4
  <2> QED
    BY <2>1, <2>2, <2>3, <2>5, BeginRefreshInv
<1>3. CASE TokenExpiry(h)
  <2> DEFINE r == [request[h] EXCEPT !.at = "refresh", !.inTry = TRUE]
  <2>1. /\ r \in Request
        /\ r.at = "refresh" /\ r.token = request[h].token /\ r.length = request[h].length
        /\ r.executed = request[h].executed /\ r.sent = request[h].sent
        /\ r.inTry = TRUE
    BY <1>1 DEF RequestTypeOK, Request
  <2>2. request' = [request EXCEPT ![h] = r] /\ expired' = expired
    BY <1>1, <1>3 DEF TokenExpiry, RequestTypeOK
  <2>3. request[h].at = "post" /\ BeginRefresh(h, "inTry")
    BY <1>3 DEF TokenExpiry
  <2>4. Site(r) = "inTry"
    BY <2>1 DEF Site
  <2> HIDE DEF r
  <2>5. BeginRefresh(h, Site(r))
    BY <2>3, <2>4
  <2> QED
    BY <2>1, <2>2, <2>3, <2>5, BeginRefreshInv
<1> QED
  BY <1>2, <1>3

(* A refresh comes back, and its request goes on. *)
LEMMA ReturnInv ==
  ASSUME IndInv, IndInv', RequestInv, [Next]_vars, NEW h \in Handler,
         RefreshStep(h), pc'[h] = "idle", NEW r \in Request,
         request' = [request EXCEPT ![h] = r], expired' = expired,
         r.at \in {"post", "alert"}, r.length = request[h].length,
         r.executed = 0, r.sent = <<>>,
         r.token.id \in Secret, r.token.hash <= lastHash'[r.token.id]
  PROVE  RequestInv'
<1>1. h \in Thread /\ h # Main /\ h \in Worker /\ TypeOK /\ RequestTypeOK
  BY HandlerFacts DEF IndInv, RequestInv
<1>2. ~ProcessExit
  BY <1>1 DEF ProcessExit
<1>3. \A g \in Thread : g # h => pc'[g] = pc[g] /\ caller'[g] = caller[g]
  BY <1>1, <1>2, OthersKept
<1>4. request'[h] = r
  BY <1>1 DEF RequestTypeOK
<1>5. HandlerInv(h) /\ request[h].at # "none"
  <2>1. pc[h] \notin {"off", "idle"}
    BY <1>1, RefreshFrame DEF CommitLabel
  <2> QED
    BY <2>1, RequestSplit DEF HandlerInv
<1>6. ~Committing(h)'
  BY DEF Committing, CommitLabel
<1>7. pc'[Main] = pc[Main]
  BY <1>1, <1>3
<1>8. HandlerInv(h)'
  <2>1. Len(request'[h].sent) <= 1 /\ request'[h].sent \notin {<<"response">>, <<"alert">>}
    BY <1>4, SentFacts
  <2> QED
    BY <1>4, <1>5, <1>6, <1>7, <2>1 DEF HandlerInv
<1> QED
  BY <1>3, <1>7, <1>8, OneRequest, HandlerFacts

(* The new token is that of a session which the backend granted. *)
LEMMA SucceedsInv ==
  ASSUME IndInv, IndInv', PublishInv, RequestInv, [Next]_vars, NEW h \in Handler,
         RefreshSucceeds(h)
  PROVE  RequestInv'
<1> DEFINE r == [request[h] EXCEPT !.at = "post", !.token = token[h]]
<1>1. h \in Thread /\ TypeOK /\ RequestTypeOK /\ TokenOfSession
  BY HandlerFacts DEF IndInv, RequestInv, PublishInv
<1>2. Committing(h) /\ RefreshStep(h) /\ lastHash' = lastHash
  BY DEF RefreshSucceeds, OpenDeviceFile, WriteDeviceFile, Committing, CommitLabel,
         RefreshStep, Commit, backend
<1>3. /\ token[h] \in Token /\ token[h].id \in Secret
      /\ token[h].hash = lastHash[token[h].id] /\ token[h].hash \in Nat
  BY <1>1, <1>2, PublishedIsLast DEF TypeOK, Token
<1>4. pc'[h] = "idle" /\ expired' = expired /\ request' = [request EXCEPT ![h] = r]
  BY <1>1 DEF RefreshSucceeds, RequestTypeOK
<1>5. HandlerInv(h) /\ request[h].at = "refresh"
  BY <1>2, RequestSplit DEF HandlerInv, Committing, CommitLabel
<1>6. /\ r \in Request /\ r.at = "post" /\ r.token = token[h]
      /\ r.length = request[h].length
      /\ r.executed = request[h].executed /\ r.sent = request[h].sent
  BY <1>1, <1>3 DEF RequestTypeOK, Request
<1>7. r.executed = 0 /\ r.sent = <<>>
  BY <1>5, <1>6 DEF HandlerInv
<1>8. r.token.id \in Secret /\ r.token.hash <= lastHash'[r.token.id]
  BY <1>2, <1>3, <1>6
<1> HIDE DEF r
<1> QED
  BY <1>2, <1>4, <1>6, <1>7, <1>8, ReturnInv

(* A refresh that fails leaves the request with its token. *)
LEMMA FailsInv ==
  ASSUME IndInv, IndInv', RequestInv, [Next]_vars, NEW h \in Handler,
         RefreshFails(h)
  PROVE  RequestInv'
<1> DEFINE r == [request[h] EXCEPT !.at = "alert"]
<1>1. h \in Thread /\ TypeOK /\ RequestTypeOK
  BY HandlerFacts DEF IndInv, RequestInv
<1>2. /\ pc[h] \in {"session", "setToken", "setExpiry"}
      /\ RefreshStep(h) /\ lastHash' = lastHash
  BY DEF RefreshFails, SessionEmpty, SetToken, SetExpiry, RefreshStep, Session,
         Commit, backend
<1>3. pc'[h] = "idle" /\ expired' = expired /\ request' = [request EXCEPT ![h] = r]
  BY DEF RefreshFails
<1>4. HandlerInv(h) /\ request[h].at = "refresh"
  BY <1>2, RequestSplit DEF HandlerInv
<1>5. /\ r \in Request /\ r.at = "alert" /\ r.token = request[h].token
      /\ r.length = request[h].length
      /\ r.executed = request[h].executed /\ r.sent = request[h].sent
  BY <1>1 DEF RequestTypeOK, Request
<1>6. /\ r.executed = 0 /\ r.sent = <<>>
      /\ r.token.id \in Secret /\ r.token.hash <= lastHash'[r.token.id]
  BY <1>2, <1>4, <1>5 DEF HandlerInv
<1> HIDE DEF r
<1> QED
  BY <1>2, <1>3, <1>5, <1>6, ReturnInv

(* A refresh that throws into a try block ends the request in silence. *)
LEMMA ThrowsInv ==
  ASSUME IndInv, IndInv', RequestInv, [Next]_vars, NEW h \in Handler,
         RefreshThrows(h)
  PROVE  RequestInv'
<1>1. h \in Thread /\ h \in Worker /\ h # Main /\ TypeOK
  BY HandlerFacts DEF IndInv
<1>2. /\ pc[h] \in {"read", "session"} /\ RefreshStep(h)
      /\ pc'[h] = "idle" /\ expired' = expired /\ Finish(h, 0, <<>>)
  BY DEF RefreshThrows, ReadDeviceFileFails, SessionReplyLost, SessionUnreachable,
         RefreshStep, Refresh, Session
<1>3. request[h].at # "none"
  BY <1>2 DEF RequestInv, RefreshOfRequest
<1>4. ~ProcessExit
  BY <1>1, <1>2 DEF ProcessExit
<1>5. \A g \in Thread : g # h => pc'[g] = pc[g] /\ caller'[g] = caller[g]
  BY <1>1, <1>2, <1>4, OthersKept
<1>6. pc'[Main] = pc[Main]
  BY <1>1, <1>5
<1>7. <<>> \in Seq({"response", "other", "alert"}) /\ Len(<<>>) <= 1
      /\ <<>> \notin {<<"response">>, <<"alert">>}
  BY SentFacts
<1> QED
  BY <1>2, <1>3, <1>5, <1>6, <1>7, FinishInv, HandlerFacts

(* No process, no requests. *)
LEMMA OffInv ==
  ASSUME IndInv', RequestInv, pc'[Main] = "off", Keep(request), expired' = expired
  PROVE  RequestInv'
<1>1. request' = [h \in Handler |-> NoRequest]
  BY DEF Keep
<1>2. RequestTypeOK'
  BY <1>1, NoRequestType DEF RequestInv, RequestTypeOK
<1>3. ASSUME NEW g \in Handler
      PROVE  HandlerInv(g)'
  <2>1. pc'[g] = "off"
    BY <1>3, HandlerFacts DEF IndInv, BootAlone
  <2>2. request'[g].at = "none" /\ request'[g].executed = 0 /\ request'[g].sent = <<>>
    BY <1>1 DEF NoRequest
  <2>3. Len(request'[g].sent) <= 1 /\ request'[g].sent \notin {<<"response">>, <<"alert">>}
    BY <2>2, SentFacts
  <2> QED
    BY <2>1, <2>2, <2>3 DEF HandlerInv
<1> QED
  BY <1>2, <1>3, RequestSplit

(* The alert, of a payload that was not executed. *)
LEMMA AlertInv ==
  ASSUME IndInv, IndInv', RequestInv, [Next]_vars, NEW h \in Handler, Alert(h)
  PROVE  RequestInv'
<1>1. request[h].at = "alert" /\ expired' = expired
  BY DEF Alert
<1>2. CASE UNCHANGED vars /\ \E sent \in {<<>>, <<"alert">>} : Finish(h, 0, sent)
  <2>1. PICK sent \in {<<>>, <<"alert">>} : Finish(h, 0, sent)
    BY <1>2
  <2>2. UNCHANGED <<pc, caller>>
    BY <1>2 DEF vars, process
  <2>3. pc[h] \in {"off", "idle"}
    BY <1>1 DEF RequestInv, RefreshOfRequest
  <2> QED
    BY <1>1, <2>1, <2>2, <2>3, FinishInv, SentFacts
<1>3. CASE ProcessExit /\ Keep(request)
  <2>1. pc'[Main] = "off"
    BY <1>3 DEF ProcessExit
  <2> QED
    BY <1>1, <1>3, <2>1, OffInv
<1> QED
  BY <1>2, <1>3 DEF Alert

(* The backend lets a token expire, or nothing happens. *)
LEMMA ExpireInv ==
  ASSUME RequestInv, UNCHANGED <<vars, request>>, expired' \in [Secret -> Nat]
  PROVE  RequestInv'
<1>1. UNCHANGED <<pc, caller, params, lastHash>>
  BY DEF vars, process, backend
<1> QED
  BY <1>1
  DEF RequestInv, RequestTypeOK, RefreshOfRequest, RequestUnderWay, TokenOfRequest,
      Committing, HashNumber, ExecutedOnce, AnswerTruthful

(* While main() is in setup() there are no requests, and no step of it     *)
(* makes a handler refresh.                                                *)
LEMMA SetupFrame ==
  ASSUME IndInv, Setup \/ Start \/ RefreshStep(Main), NEW g \in Handler
  PROVE  pc[Main] # "serve" /\ pc'[g] \in {"off", "idle"}
<1>1. g \in Thread /\ g \in Worker /\ g # Main /\ TypeOK /\ BootAlone
  BY HandlerFacts DEF IndInv
<1>2. CASE Setup
  <2>1. pc[Main] # "serve"
    BY <1>2
    DEF Setup, SetupFoundValid, SetupFoundExpired, SetupNotFound, ActivateDevice,
        ActivationFails, OpenActivationFile, WriteActivationFile
  <2>2. pc[g] = "off"
    BY <1>1, <2>1 DEF BootAlone
  <2>3. ProcessExit \/ ReturnToken(Main) \/ \E l \in Label : Goto(Main, l)
    BY <1>2
    DEF Setup, SetupFoundValid, SetupFoundExpired, SetupNotFound, ActivateDevice,
        ActivationFails, OpenActivationFile, WriteActivationFile, ReturnFailure, Label
  <2> QED
    BY <1>1, <2>1, <2>2, <2>3 DEF ProcessExit, ReturnToken, Goto, TypeOK
<1>3. CASE Start
  <2>1. pc[Main] = "off" /\ pc[g] = "off"
    BY <1>1, <1>3 DEF Start, BootAlone
  <2> QED
    BY <1>1, <1>3, <2>1 DEF Start, Goto, TypeOK
<1>4. CASE RefreshStep(Main)
  <2>1. pc[Main] # "serve"
    BY <1>4, RefreshFrame DEF CommitLabel
  <2>2. pc[g] = "off"
    BY <1>1, <2>1 DEF BootAlone
  <2> QED
    BY <1>1, <1>4, <2>1, <2>2, RefreshFrame
    DEF ProcessExit, Abandon, ReturnToken, Goto, TypeOK
<1> QED
  BY <1>2, <1>3, <1>4

(* What the other steps leave of a handler, while the process runs.        *)
LEMMA ElsewhereFrame ==
  ASSUME IndInv, IndInv', RequestInv, Elsewhere, pc'[Main] # "off", NEW g \in Handler
  PROVE  /\ request[g].at = "none" \/ pc'[Main] = "serve"
         /\ pc'[g] \in {"off", "idle"} <=> pc[g] \in {"off", "idle"}
         /\ request[g].at = "refresh" => caller'[g] = caller[g]
<1>0. /\ g \in Thread /\ g \in Worker /\ g # Main /\ g # Periodic
      /\ Periodic \in Worker /\ Periodic # Main /\ TypeOK /\ BootAlone
  BY HandlerFacts, PeriodicAssumption, ThreadAssumption DEF IndInv
<1>1. request[g].at # "none" => pc[Main] = "serve"
  BY DEF RequestInv, RequestUnderWay
<1>2. ~ProcessExit
  BY DEF ProcessExit
<1>3. CASE Setup \/ Start \/ RefreshStep(Main)
  <2>1. pc[Main] # "serve" /\ pc'[g] \in {"off", "idle"}
    BY <1>3, SetupFrame
  <2> QED
    BY <1>0, <1>1, <2>1 DEF BootAlone
<1>4. CASE SetTokenTool
  <2>1. UNCHANGED <<pc, caller>>
    BY <1>4
    DEF SetTokenTool, ClearEnvFile, RemoveTokenIfExists, SaveSecretToken, process
  <2> QED
    BY <1>1, <2>1
<1>5. CASE Stop \/ Crash
  BY <1>2, <1>5 DEF Stop, Crash
<1>6. CASE BeginRefresh(Periodic, "noTry")
  BY <1>0, <1>1, <1>6 DEF BeginRefresh, Goto, TypeOK
<1>7. ASSUME NEW t \in Worker, RefreshStep(t), t # g
      PROVE  pc'[Main] = pc[Main] /\ pc'[g] = pc[g] /\ caller'[g] = caller[g]
  <2>1. pc'[g] = pc[g] /\ caller'[g] = caller[g]
    BY <1>0, <1>2, <1>7, OthersKept
  <2>2. Main \in Thread /\ Main # t
    BY <1>7, ThreadAssumption
  <2>3. pc'[Main] = pc[Main]
    BY <1>0, <1>2, <1>7, <2>2, OthersKept
  <2> QED
    BY <2>1, <2>3
<1>8. CASE RefreshStep(g) /\ pc'[g] # "idle"
  <2>1. /\ pc[g] \in CommitLabel \cup {"read", "session"}
        /\ \/ Abandon(g) \/ ReturnToken(g)
           \/ (\E l \in CommitLabel \cup {"session"} : Goto(g, l)) /\ UNCHANGED caller
    BY <1>0, <1>2, <1>8, RefreshFrame
  <2>2. PICK l \in CommitLabel \cup {"session"} : Goto(g, l) /\ UNCHANGED caller
    BY <1>0, <1>8, <2>1 DEF Abandon, ReturnToken, Goto, TypeOK
  <2>3. pc'[g] = l /\ pc'[Main] = pc[Main]
    BY <1>0, <2>2 DEF Goto, TypeOK
  <2> QED
    BY <1>1, <2>1, <2>2, <2>3 DEF CommitLabel
<1> QED
  BY <1>0, <1>1, <1>3, <1>4, <1>5, <1>6, <1>7, <1>8, HandlerFacts DEF Elsewhere

(* The steps of set_token, of setup(), of the periodic thread and inside a *)
(* refresh.                                                                *)
LEMMA ElsewhereInv ==
  ASSUME IndInv, IndInv', RequestInv, [Next]_vars, Elsewhere
  PROVE  RequestInv'
<1>1. Keep(request) /\ expired' = expired
  BY DEF Elsewhere
<1>2. CASE pc'[Main] = "off"
  BY <1>1, <1>2, OffInv
<1>3. CASE pc'[Main] # "off"
  <2>1. request' = request
    BY <1>1, <1>3 DEF Keep
  <2>2. RequestTypeOK'
    BY <1>1, <2>1 DEF RequestInv, RequestTypeOK
  <2>3. ASSUME NEW g \in Handler
        PROVE  HandlerInv(g)'
    BY <1>3, <2>1, <2>3, ElsewhereFrame, HandlerKept, RequestSplit
  <2> QED
    BY <2>2, <2>3, RequestSplit
<1> QED
  BY <1>2, <1>3

(* Every step, a stuttering one included. *)
LEMMA RequestNext ==
  ASSUME IndInv, IndInv', PublishInv, RequestInv, [SendNext]_sendVars
  PROVE  RequestInv'
<1>1. [Next]_vars
  BY SendStep
<1>2. CASE UNCHANGED sendVars
  BY <1>2, ExpireInv DEF sendVars, RequestInv, RequestTypeOK
<1>3. ASSUME NEW s \in Secret, Expire(s)
      PROVE  RequestInv'
  BY <1>3, ExpireInv DEF Expire, RequestInv, RequestTypeOK
<1>4. ASSUME NEW h \in Handler, NEW n \in Length, Receive(h, n)
      PROVE  RequestInv'
  BY <1>4, ReceiveInv
<1>5. ASSUME NEW h \in Handler, SendPlainText(h)
      PROVE  RequestInv'
  BY <1>1, <1>5, PostInv, BeginInv, SucceedsInv, FailsInv, ThrowsInv, AlertInv
  DEF SendPlainText
<1>6. CASE Elsewhere
  BY <1>1, <1>6, ElsewhereInv
<1> QED
  BY <1>2, <1>3, <1>4, <1>5, <1>6 DEF SendNext
-----------------------------------------------------------------------------
(* The theorems. *)

(* Nothing was received before the first start. *)
LEMMA RequestInit == SendInit => RequestInv
<1> SUFFICES ASSUME SendInit
             PROVE  RequestInv
  OBVIOUS
<1>1. RequestTypeOK
  BY NoRequestType DEF SendInit, RequestTypeOK
<1>2. ASSUME NEW h \in Handler
      PROVE  HandlerInv(h)
  <2>1. request[h].at = "none" /\ request[h].executed = 0 /\ request[h].sent = <<>>
    BY <1>2 DEF SendInit, NoRequest
  <2>2. pc[h] = "off"
    BY <1>2, HandlerFacts DEF SendInit, Init
  <2>3. Len(request[h].sent) <= 1 /\ request[h].sent \notin {<<"response">>, <<"alert">>}
    BY <2>1, SentFacts
  <2> QED
    BY <2>1, <2>2, <2>3 DEF HandlerInv
<1> QED
  BY <1>1, <1>2, RequestSplit

(* The inductive invariant of the composition. *)
THEOREM RequestsInductive == SendSpec => [](IndInv /\ PublishInv /\ RequestInv)
<1>1. IndInv /\ PublishInv /\ RequestInv /\ [SendNext]_sendVars =>
        IndInv' /\ PublishInv' /\ RequestInv'
  <2> SUFFICES ASSUME IndInv, PublishInv, RequestInv, [SendNext]_sendVars
               PROVE  IndInv' /\ PublishInv' /\ RequestInv'
    OBVIOUS
  <2>1. [Next]_vars
    BY SendStep
  <2>2. IndInv' /\ PublishInv'
    BY <2>1, IndNext, TokenOfSessionNext, TokenBehindNext, FreshDeviceNext, EnvSetNext
    DEF PublishInv
  <2> QED
    BY <2>2, RequestNext
<1>2. SendInit => IndInv /\ PublishInv /\ RequestInv
  BY IndInit, PublishInit, RequestInit DEF SendInit
<1> QED
  BY <1>1, <1>2, PTL DEF SendSpec

(* The handlers use the refresh as AccessToken describes it: every step of *)
(* the composition is a step of AccessToken or leaves its state alone, so  *)
(* that Exclusive, NoRegress, SavedLatest and Complete hold of it too.     *)
THEOREM Composition == SendSpec => Spec
<1>1. SendInit => Init
  BY DEF SendInit
<1>2. RequestInv /\ [SendNext]_sendVars => [Next]_vars
  BY SendStep
<1> QED
  BY <1>1, <1>2, RequestsInductive, PTL DEF SendSpec, Spec

(* The backend executes no payload twice. *)
THEOREM ExecutedAtMostOnce == SendSpec => []ExecutedOnce
<1>1. RequestInv => ExecutedOnce
  BY DEF RequestInv
<1> QED
  BY <1>1, RequestsInductive, PTL

(* No requestor is told what did not happen. *)
THEOREM Truthful == SendSpec => []AnswerTruthful
<1>1. RequestInv => AnswerTruthful
  BY DEF RequestInv
<1> QED
  BY <1>1, RequestsInductive, PTL

(* Only RefreshSucceeds takes a request from a refresh to another attempt. *)
LEMMA AttemptStep ==
  ASSUME IndInv, RequestInv, [SendNext]_sendVars, NEW h \in Handler,
         request[h].at = "refresh", request'[h].at = "post"
  PROVE  RefreshSucceeds(h)
<1>0. RequestTypeOK /\ request'[h] # request[h] /\ NoRequest.at = "none"
  BY DEF RequestInv, NoRequest
<1>1. CASE UNCHANGED sendVars \/ \E s \in Secret : Expire(s)
  BY <1>0, <1>1 DEF sendVars, Expire
<1>2. ASSUME Keep(request)
      PROVE  FALSE
  BY <1>0, <1>2 DEF Keep
<1>3. CASE Elsewhere
  BY <1>2, <1>3 DEF Elsewhere
<1>4. ASSUME NEW g \in Handler, NEW n \in Length, Receive(g, n)
      PROVE  g # h /\ request'[h] = request[h]
  BY <1>0, <1>4 DEF Receive, RequestTypeOK
<1>5. ASSUME NEW g \in Handler, SendPlainText(g), ~RefreshSucceeds(h)
      PROVE  FALSE
  <2>1. CASE g # h
    BY <1>0, <1>2, <1>5, <2>1
    DEF SendPlainText, Respond, PostFails, ExpirationWarning, TokenExpiry,
        RefreshSucceeds, RefreshFails, RefreshThrows, Alert, Finish, RequestTypeOK
  <2>2. CASE g = h
    <3>1. \A executed, sent : Finish(h, executed, sent) => request'[h].at = "none"
      BY <1>0 DEF Finish, RequestTypeOK, NoRequest
    <3>2. ~Respond(h) /\ ~PostFails(h) /\ ~ExpirationWarning(h) /\ ~TokenExpiry(h)
          /\ ~Alert(h)
      BY DEF Respond, PostFails, ExpirationWarning, TokenExpiry, Alert
    <3>3. ~RefreshThrows(h)
      BY <3>1 DEF RefreshThrows
    <3>4. ~RefreshFails(h)
      BY <1>0 DEF RefreshFails, RequestTypeOK, Request
    <3> QED
      BY <1>5, <2>2, <3>2, <3>3, <3>4 DEF SendPlainText
  <2> QED
    BY <2>1, <2>2
<1> QED
  BY <1>0, <1>1, <1>3, <1>4, <1>5 DEF SendNext

(* Whatever other threads refreshed meanwhile, the next attempt carries a  *)
(* later token than the one that was refused, or that of another device.   *)
THEOREM RetryIsNewer == SendSpec => RetryCarriesNewerToken
<1>1. IndInv /\ PublishInv /\ RequestInv /\ [SendNext]_sendVars =>
        [ \A h \in Handler :
            request[h].at = "refresh" /\ request'[h].at = "post" =>
              \/ request'[h].token.id # request[h].token.id
              \/ request'[h].token.hash > request[h].token.hash ]_request
  <2> SUFFICES ASSUME IndInv, PublishInv, RequestInv, [SendNext]_sendVars,
                      NEW h \in Handler,
                      request[h].at = "refresh", request'[h].at = "post",
                      request'[h].token.id = request[h].token.id
               PROVE  request'[h].token.hash > request[h].token.hash
    OBVIOUS
  <2>1. RefreshSucceeds(h)
    BY AttemptStep
  <2>2. request'[h].token = token[h] /\ Committing(h)
    BY <2>1
    DEF RefreshSucceeds, OpenDeviceFile, WriteDeviceFile, Committing, CommitLabel,
        RequestInv, RequestTypeOK, Request
  <2>3. token[h] = [id |-> params[h].id, hash |-> HashNumber(params[h])]
    BY <2>2, HandlerFacts DEF PublishInv, TokenOfSession
  <2>4. \/ params[h].id # request[h].token.id
        \/ HashNumber(params[h]) > request[h].token.hash
    BY <2>2 DEF RequestInv, TokenOfRequest
  <2> QED
    BY <2>2, <2>3, <2>4
<1> QED
  BY <1>1, RequestsInductive, PTL DEF SendSpec, RetryCarriesNewerToken
================================================================================
