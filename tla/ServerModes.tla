------------------------------ MODULE ServerModes ------------------------------
(***************************************************************************)
(* The accept loops and the connections of the four dispatch modes.        *)
(*                                                                         *)
(*   original   one connection at a time, on the main thread, read to its  *)
(*              end; one request per connection                            *)
(*   threads    the same handler on a thread per connection; no connection *)
(*              is ever closed; the only loop that looks at the stop flag  *)
(*   libevent   one event loop; whatever a read finds is one request       *)
(*   custom     a thread per connection; what it does with the stream is   *)
(*              ServerCustom, here it holds its socket until the client    *)
(*              ends                                                       *)
(*                                                                         *)
(* The first three give each request the access token of the start of the  *)
(* server, while the periodic thread and the requests renew it.  Tokens    *)
(* are numbered by their sessions; how a session is got is AccessToken,    *)
(* how a request is retried SendPlainText.                                 *)
(***************************************************************************)
EXTENDS Naturals, Sequences, FiniteSets

CONSTANTS
  Client,      \* the clients, each one connects at most once
  Stream,      \* what each client has to send
  MaxFd,       \* the limits on open connections that a process may have
  MaxSession   \* bound: the number of the last session

Mode == {"original", "threads", "libevent", "custom"}

(* A message, or the two parts of one that is cut by a read. *)
Symbol == {"message", "head", "tail"}

ASSUME StreamAssumption == Stream \in [Client -> Seq(Symbol)]
ASSUME BoundAssumption  == MaxFd \subseteq Nat \ {0} /\ MaxSession \in Nat

VARIABLES
  mode,      \* serverDispatchMode
  limit,     \* how many connections this process can have open
  main,      \* the accept loop: "accept", "test" (while (!flag)), "leaving"
             \* (back in main()) or "down" (there is no process)
  stop,      \* stop_thread_flag
  late,      \* history: the clients that threads accepted after SIGINT
  sent,      \* how much each client has sent
  client,    \* the client's end of its connection
  order,     \* the clients in the order they connected
  handler,   \* the server's end
  taken,     \* how much of that was read
  data,      \* the payload that is being executed
  executed,  \* the payloads the backend executed for each client
  answers,   \* the kinds of answers the client got
  session,   \* the number of the last session, whose token the process has
  valid      \* backend: the first token that is not expired

loop    == <<mode, limit, main, stop, late>>
clients == <<sent, client, order>>
tokens  == <<session, valid>>
vars    == <<loop, clients, handler, taken, data, executed, answers, tokens>>

StartToken == 1    \* the token setup() returned, passed on by value

TypeOK ==
  /\ mode \in Mode /\ limit \in MaxFd
  /\ main \in {"accept", "test", "leaving", "down"}
  /\ stop \in BOOLEAN /\ late \subseteq Client
  /\ sent \in [Client -> Nat] /\ \A c \in Client : sent[c] <= Len(Stream[c])
  /\ client \in [Client -> {"away", "open", "half", "gone", "reset"}]
  /\ order \in Seq(Client)
  /\ handler \in [Client -> {"none", "read", "execute", "closed", "leaked"}]
  /\ taken \in [Client -> Nat] /\ \A c \in Client : taken[c] <= sent[c]
  /\ data \in [Client -> Seq(Symbol)]
  /\ executed \in [Client -> Seq(Seq(Symbol))]
  /\ answers \in [Client -> Seq({"response", "echo", "alert"})]
  /\ session \in Nat /\ valid \in 1 .. (session + 1)

(* setup() has succeeded; startServer dispatches on the ini file's mode    *)
(* (any other string ends the process).                                    *)
Init ==
  /\ mode \in Mode /\ limit \in MaxFd
  /\ main = IF mode = "threads" THEN "test" ELSE "accept"
  /\ stop = FALSE /\ late = {}
  /\ sent = [c \in Client |-> 0] /\ taken = [c \in Client |-> 0]
  /\ client = [c \in Client |-> "away"]
  /\ order = <<>>
  /\ handler  = [c \in Client |-> "none"]
  /\ data     = [c \in Client |-> <<>>]
  /\ executed = [c \in Client |-> <<>>]
  /\ answers  = [c \in Client |-> <<>>]
  /\ session = StartToken /\ valid = StartToken
-----------------------------------------------------------------------------
(* The clients.  A connection that is not accepted yet waits in the        *)
(* backlog of the listening socket, and can be used by its client.         *)

(* What the custom mode does with streams and tokens: ServerCustom and     *)
(* SendPlainText have it.                                                  *)
Elsewhere == mode = "custom"

server == <<handler, taken, data, executed, answers, tokens>>

Connect(c) ==
  /\ main # "down" /\ client[c] = "away"
  /\ client' = [client EXCEPT ![c] = "open"]
  /\ order' = Append(order, c)
  /\ UNCHANGED <<loop, sent, server>>

SendNext(c) ==
  /\ ~Elsewhere
  /\ client[c] = "open" /\ sent[c] < Len(Stream[c])
  /\ sent' = [sent EXCEPT ![c] = @ + 1]
  /\ UNCHANGED <<loop, client, order, server>>

(* shutdown(SHUT_WR): the client still reads; close(); or an abort (RST).  *)
EndStream(c) ==
  /\ \/ client[c] = "open" /\ client' \in
          {[client EXCEPT ![c] = e] : e \in {"half", "gone", "reset"}}
     \/ client[c] = "half" /\ client' \in
          {[client EXCEPT ![c] = e] : e \in {"gone", "reset"}}
  /\ UNCHANGED <<loop, sent, order, server>>
-----------------------------------------------------------------------------
(* The accept loops. *)

OpenSockets == {c \in Client : handler[c] \in {"read", "execute", "leaked"}}
Backlog     == {c \in Client : client[c] # "away" /\ handler[c] = "none"}

(* accept() returns the connection that has waited longest. *)
First(i) == order[i] \in Backlog /\ \A j \in 1 .. (i - 1) : order[j] \notin Backlog

(* exit(), a return from main() or a signal: the sockets are closed. *)
ProcessEnd ==
  /\ main' = "down"
  /\ handler' = [c \in Client |-> IF c \in OpenSockets THEN "closed" ELSE handler[c]]
  /\ UNCHANGED <<mode, limit, stop, late>>

(* Mutant: the loop accepts while it handles a connection. *)
ReadyAlways == TRUE

(* The callbacks of libevent run one at a time, to their end. *)
LoopFree == mode = "libevent" => \A c \in Client : handler[c] # "execute"

(* Is the thread of the accept loop at accept(), or in the event loop?     *)
Ready ==
  /\ LoopFree
  /\ mode = "original" => \A c \in Client : handler[c] \notin {"read", "execute"}

(* accept_conn_cb casts the CallbackData it is given to a Logger and calls *)
(* it: nothing happens, or the process crashes.                            *)
Accept ==
  /\ main = "accept" /\ Ready /\ Backlog # {}
  /\ Cardinality(OpenSockets) < limit
  /\ \/ \E i \in DOMAIN order :
          /\ First(i)
          /\ handler' = [handler EXCEPT ![order[i]] = "read"]
          /\ late' = IF stop /\ mode = "threads" THEN late \cup {order[i]} ELSE late
          /\ main' = IF mode = "threads" THEN "test" ELSE main
          /\ UNCHANGED <<mode, limit, stop>>
     \/ mode = "libevent" /\ ProcessEnd
  /\ UNCHANGED <<clients, taken, data, executed, answers, tokens>>

(* No descriptor is left.  threads goes round its loop; original and       *)
(* custom exit, custom as soon as it is back at accept(); libevent, which  *)
(* only accepts when there is a connection, leaves its event loop.         *)
AcceptFails ==
  /\ main = "accept" /\ Ready
  /\ Cardinality(OpenSockets) >= limit
  /\ \/ /\ mode = "threads"
        /\ main' = "test"
        /\ UNCHANGED <<mode, limit, stop, late, handler>>
     \/ mode \in {"original", "custom"} /\ ProcessEnd
     \/ /\ mode = "libevent" /\ Backlog # {}
        /\ main' = "leaving"
        /\ UNCHANGED <<mode, limit, stop, late, handler>>
  /\ UNCHANGED <<clients, taken, data, executed, answers, tokens>>

(* Mutant: while (true). *)
TestFlagIgnored ==
  /\ main = "test"
  /\ main' = "accept"
  /\ UNCHANGED <<mode, limit, stop, late, clients, server>>

(* while (!stop_thread_flag.load()) *)
TestFlag ==
  /\ main = "test"
  /\ main' = IF stop THEN "leaving" ELSE "accept"
  /\ UNCHANGED <<mode, limit, stop, late, clients, server>>

(* SIGINT: the handler sets the flag, and accept() is restarted.  In the   *)
(* other modes only the periodic thread reads the flag.                    *)
Signal ==
  /\ main # "down" /\ ~stop /\ mode = "threads"
  /\ stop' = TRUE
  /\ UNCHANGED <<mode, limit, main, late, clients, server>>

(* main() deletes the logger, while handlers may still use it, and returns. *)
LeaveMain ==
  /\ main = "leaving"
  /\ ProcessEnd
  /\ UNCHANGED <<clients, taken, data, executed, answers, tokens>>
-----------------------------------------------------------------------------
(* The handlers. *)

Running(c, label) == main # "down" /\ handler[c] = label

ReadsToEnd == mode \in {"original", "threads"}

(* ^<isomsg>.*</isomsg>$, after newlines are removed. *)
IsISO8583(s) ==
  s # <<>> /\ s[1] \in {"message", "head"} /\ s[Len(s)] \in {"message", "tail"}

(* After the handler original closes the socket and threads does not;      *)
(* libevent waits for the next event of the connection.                    *)
Done(c) ==
  CASE mode = "original" -> "closed"
    [] mode = "threads"  -> "leaked"
    [] OTHER             -> "read"

(* The answer reaches a client that reads; libevent writes it later and    *)
(* may drop it with the connection when the client has ended its stream.   *)
(* A send after a RST may raise SIGPIPE, whose default ends the process.   *)
Reply(c, kind) ==
  /\ data' = [data EXCEPT ![c] = <<>>]
  /\ \/ /\ client[c] \in {"open", "half"}
        /\ \/ answers' = [answers EXCEPT ![c] = Append(@, kind)]
           \/ mode = "libevent" /\ client[c] = "half" /\ UNCHANGED answers
        /\ handler' = [handler EXCEPT ![c] = Done(c)]
        /\ UNCHANGED <<loop, client>>
     \/ /\ client[c] \in {"gone", "reset"}
        /\ client' \in {client, [client EXCEPT ![c] = "reset"]}
        /\ handler' = [handler EXCEPT ![c] = Done(c)]
        /\ UNCHANGED <<loop, answers>>
     \/ /\ client[c] = "reset"
        /\ ProcessEnd
        /\ UNCHANGED <<client, answers>>

NoReply(c) ==
  /\ data' = [data EXCEPT ![c] = <<>>]
  /\ handler' = [handler EXCEPT ![c] = Done(c)]
  /\ UNCHANGED <<loop, client, answers>>

(* What is done with a string that was read. *)
Process(c, string) ==
  /\ \/ string = <<>> /\ NoReply(c)
     \/ /\ IsISO8583(string)
        /\ handler' = [handler EXCEPT ![c] = "execute"]
        /\ data' = [data EXCEPT ![c] = string]
        /\ UNCHANGED <<loop, client, answers>>
     \/ string # <<>> /\ ~IsISO8583(string) /\ Reply(c, "echo")
  /\ UNCHANGED <<sent, order, executed, tokens>>

(* Mutants: the string is as long as the buffer; the first read that finds *)
(* data ends the loop.                                                     *)
ReadToEndBuffer(c) ==
  /\ ReadsToEnd /\ Running(c, "read")
  /\ client[c] \in {"half", "gone"}
  /\ taken' = [taken EXCEPT ![c] = Len(Stream[c])]
  /\ Process(c, Stream[c])

ReadToEndOnce(c) ==
  /\ ReadsToEnd /\ Running(c, "read")
  /\ client[c] \in {"open", "half", "gone"} /\ sent[c] > 0
  /\ taken' = [taken EXCEPT ![c] = sent[c]]
  /\ Process(c, SubSeq(Stream[c], 1, sent[c]))

(* handleClientOriginal, handleClientThreads: read until end of file. *)
ReadToEnd(c) ==
  /\ ReadsToEnd /\ Running(c, "read")
  /\ client[c] \in {"half", "gone"}
  /\ taken' = [taken EXCEPT ![c] = sent[c]]
  /\ Process(c, SubSeq(Stream[c], 1, sent[c]))

(* Mutant: what arrived is looked at and left where it is. *)
ReadArrivedKept(c) ==
  /\ mode = "libevent" /\ Running(c, "read") /\ LoopFree
  /\ client[c] # "reset"
  /\ \E n \in (taken[c] + 1) .. sent[c] :
       /\ taken' = [taken EXCEPT ![c] = n]
       /\ Process(c, SubSeq(Stream[c], 1, n))

(* read_cb: what has arrived. *)
ReadArrived(c) ==
  /\ mode = "libevent" /\ Running(c, "read") /\ LoopFree
  /\ client[c] # "reset"
  /\ \E n \in (taken[c] + 1) .. sent[c] :
       /\ taken' = [taken EXCEPT ![c] = n]
       /\ Process(c, SubSeq(Stream[c], taken[c] + 1, n))

(* Mutant: event_cb frees the connection on an error only. *)
EndOfConnectionOnError(c) ==
  /\ Running(c, "read") /\ LoopFree
  /\ client[c] = "reset"
  /\ handler' = [handler EXCEPT ![c] = IF ReadsToEnd THEN Done(c) ELSE "closed"]
  /\ UNCHANGED <<loop, clients, taken, data, executed, answers, tokens>>

(* A read error returns from the handler; event_cb frees the connection at *)
(* its end; the custom handler closes it.                                  *)
EndOfConnection(c) ==
  /\ Running(c, "read") /\ LoopFree
  /\ \/ client[c] = "reset"
     \/ /\ ~ReadsToEnd /\ client[c] \in {"half", "gone"}
        /\ mode = "libevent" => taken[c] = sent[c]
  /\ handler' = [handler EXCEPT ![c] = IF ReadsToEnd THEN Done(c) ELSE "closed"]
  /\ UNCHANGED <<loop, clients, taken, data, executed, answers, tokens>>
-----------------------------------------------------------------------------
(* checkTokenAndExecute and checkTokenAndExecuteLibevent. *)

Payload(c) == executed' = [executed EXCEPT ![c] = Append(@, data[c])]

NextSession ==
  /\ session < MaxSession
  /\ session' = session + 1

rest == <<sent, order, taken, valid>>

(* sendPlainText posts with the token of the start, and if that is expired *)
(* refreshes and posts again: the response is sent, or lost on its way.    *)
PostSucceeds(c) ==
  /\ ReadsToEnd /\ Running(c, "execute")
  /\ \/ StartToken >= valid /\ UNCHANGED session
     \/ StartToken < valid /\ NextSession
  /\ Payload(c)
  /\ Reply(c, "response") \/ NoReply(c)
  /\ UNCHANGED rest

(* The backend is not reached: an empty string is sent, or nothing; what   *)
(* it answers instead of executing the payload is passed on.  The token is *)
(* expired and the refresh fails: the alert is sent, or the process ends   *)
(* (SendPlainText has the details).                                        *)
PostFails(c) ==
  /\ ReadsToEnd /\ Running(c, "execute")
  /\ \/ NoReply(c) \/ Reply(c, "response")
     \/ StartToken < valid /\ Reply(c, "alert")
     \/ StartToken < valid /\ ProcessEnd /\ UNCHANGED <<client, answers, data>>
  /\ UNCHANGED <<session, executed, rest>>

(* is_valid_access_token, of the token of the environment. *)
EnvTokenValid == session >= valid

(* The payload is posted with the token of the start.  When the backend    *)
(* executes it, or is not reached, the payload is sent back in place of    *)
(* the response, or nothing is; when it refuses the token, the alert.      *)
PostLibevent(c) ==
  /\ mode = "libevent" /\ Running(c, "execute") /\ EnvTokenValid
  /\ \/ /\ StartToken >= valid /\ Payload(c)
        /\ Reply(c, "echo") \/ NoReply(c)
     \/ UNCHANGED executed /\ (Reply(c, "echo") \/ NoReply(c))
     \/ StartToken < valid /\ Reply(c, "alert") /\ UNCHANGED executed
  /\ UNCHANGED <<session, rest>>

(* setup() returns 0 for success and the test is for a true value: with    *)
(* the new token the payload is sent back, without one it is posted with   *)
(* an empty token, which the backend refuses in one way or another.        *)
(* setup() may also exit.                                                  *)
SetupLibevent(c) ==
  /\ mode = "libevent" /\ Running(c, "execute") /\ ~EnvTokenValid
  /\ \/ NextSession /\ Reply(c, "echo")
     \/ /\ UNCHANGED session
        /\ Reply(c, "alert") \/ Reply(c, "echo") \/ NoReply(c)
     \/ UNCHANGED session /\ ProcessEnd /\ UNCHANGED <<client, answers, data>>
  /\ UNCHANGED <<executed, rest>>

(* The periodic thread renews the token in time; or it expires. *)
Renew ==
  /\ main # "down" /\ ~Elsewhere
  /\ NextSession
  /\ UNCHANGED <<loop, clients, handler, taken, data, executed, answers, valid>>

Expire ==
  /\ valid <= session /\ ~Elsewhere
  /\ valid' = valid + 1
  /\ UNCHANGED <<loop, clients, handler, taken, data, executed, answers, session>>
-----------------------------------------------------------------------------
Clients == \E c \in Client : Connect(c) \/ SendNext(c) \/ EndStream(c)

Server == Accept \/ AcceptFails \/ TestFlag \/ LeaveMain

Handler(c) ==
  \/ ReadToEnd(c) \/ ReadArrived(c) \/ EndOfConnection(c)
  \/ PostSucceeds(c) \/ PostFails(c) \/ PostLibevent(c) \/ SetupLibevent(c)

Next ==
  \/ Clients
  \/ Server \/ Signal
  \/ \E c \in Client : Handler(c)
  \/ Renew \/ Expire

Spec == Init /\ [][Next]_vars

(* The threads of the server are scheduled, and the backend answers; the   *)
(* clients owe the server nothing.                                         *)
FairSpec ==
  /\ Spec
  /\ WF_vars(Server)
  /\ \A c \in Client : WF_vars(Handler(c))
-----------------------------------------------------------------------------
(* Where the stream is read to its end, a connection is one request: the   *)
(* payload that is executed is all that the client ever sent, messages run *)
(* together included; it is executed once at most and answered once at     *)
(* most, and what is echoed is not executed.                               *)
WholeStream ==
  ReadsToEnd => \A c \in Client :
    /\ executed[c] \in {<<>>, <<SubSeq(Stream[c], 1, sent[c])>>}
    /\ Len(answers[c]) <= 1
    /\ answers[c] = <<"echo">> => executed[c] = <<>>

(* "The server handles one connection at a time": clients are answered in  *)
(* the order they connected, each after all before it are closed.          *)
AnsweredInTurn ==
  [][ mode = "original" =>
        \A i, j \in DOMAIN order :
          i < j /\ answers'[order[j]] # answers[order[j]]
            => handler[order[i]] = "closed" ]_answers

(* Strings that are pieces of the first symbols of a stream, one behind    *)
(* the other.                                                              *)
Pieces(strings, stream, bound) ==
  \E from, to \in [1 .. Len(strings) -> 0 .. bound] :
    /\ \A i \in 1 .. Len(strings) : strings[i] = SubSeq(stream, from[i] + 1, to[i])
    /\ \A i, j \in 1 .. Len(strings) : i < j => to[i] <= from[j]

(* Where a payload is what a read has found, what is executed are pieces   *)
(* of what the client sent, one behind the other: however the reads cut    *)
(* the stream, and whatever becomes of the token between two of them, no   *)
(* part of it is executed twice or out of turn.                            *)
ReadOnce ==
  mode = "libevent" =>
    \A c \in Client : Pieces(executed[c], Stream[c], sent[c])

(* In threads mode one more client at most is accepted after SIGINT. *)
OneMoreAfterStop == Cardinality(late) <= 1

(* ... and the next one that connects, or a lack of descriptors, ends the  *)
(* process.  The other modes go on.                                        *)
StopNoticed ==
  (mode = "threads" /\ stop /\ Backlog # {}) ~> main = "down"

(* A client that ends its stream is done with in the end, if in original   *)
(* mode all those before it end theirs; if not, it waits for ever, as a    *)
(* client does that keeps its own stream open until it is answered.  In    *)
(* threads mode only the first few clients are served.                   *)
Ended(c) == client[c] \in {"half", "gone", "reset"}

HeldUp(c) ==
  mode = "original" /\
    \E i, j \in DOMAIN order : i < j /\ order[j] = c /\ ~Ended(order[i])

EndServed ==
  \A c \in Client :
    Ended(c) /\ ~HeldUp(c) ~>
      \/ handler[c] \in {"closed", "leaked"}
      \/ main = "down"
      \/ mode = "threads" /\ Cardinality(OpenSockets) >= limit
-----------------------------------------------------------------------------
(* What the safety properties rest on, in named parts. *)

(* Behind WholeStream: until its connection is over a client has nothing   *)
(* executed and no answer, and what is executed or executing is all that a *)
(* client sent that has ended its stream, so that it can send no more.     *)
Served(c) ==
  /\ handler[c] \in {"none", "read", "execute"} =>
       executed[c] = <<>> /\ answers[c] = <<>>
  /\ handler[c] = "execute" =>
       data[c] = SubSeq(Stream[c], 1, sent[c]) /\ Ended(c)
  /\ executed[c] \in {<<>>, <<SubSeq(Stream[c], 1, sent[c])>>}
  /\ executed[c] # <<>> => Ended(c)
  /\ Len(answers[c]) <= 1
  /\ answers[c] = <<"echo">> => executed[c] = <<>>

WholeInv == ReadsToEnd => \A c \in Client : Served(c)

(* Behind ReadOnce: what is executing was read last, and the pieces that   *)
(* were executed are of what was read before.                              *)
ReadSoFar(c) ==
  /\ Len(data[c]) <= taken[c]
  /\ Pieces(executed[c], Stream[c], taken[c] - Len(data[c]))
  /\ handler[c] = "execute" =>
       data[c] = SubSeq(Stream[c], taken[c] - Len(data[c]) + 1, taken[c])

ReadInv == mode = "libevent" => \A c \in Client : ReadSoFar(c)

(* Behind AnsweredInTurn: a client that is being served, or was, has only  *)
(* clients before it that are done with.                                   *)
TurnInv ==
  /\ \A c \in Client : client[c] = "away" => handler[c] = "none"
  /\ \A i \in DOMAIN order : client[order[i]] # "away"
  /\ \A i, j \in DOMAIN order : order[i] = order[j] => i = j
  /\ mode = "original" =>
       /\ \A c \in Client : handler[c] # "leaked"
       /\ \A i, j \in DOMAIN order :
            i < j /\ handler[order[j]] # "none" => handler[order[i]] = "closed"

(* Behind OneMoreAfterStop: the loop tests the flag before it accepts.     *)
LateInv ==
  \/ late = {}
  \/ stop /\ main # "accept" /\ \E c \in Client : late = {c}

IInv == TypeOK /\ WholeInv /\ ReadInv /\ TurnInv /\ LateInv
================================================================================
