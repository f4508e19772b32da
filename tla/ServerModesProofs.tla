--------------------------- MODULE ServerModesProofs ---------------------------
(***************************************************************************)
(* The safety of the four accept loops, for any number of clients, any     *)
(* streams, descriptor limits and sessions.  The argument is about one     *)
(* client at a time: a handler only changes what belongs to its own        *)
(* client, and the end of the process only closes the sockets.             *)
(***************************************************************************)
EXTENDS ServerModes, SequenceTheorems, FiniteSetTheorems, TLAPS

HandlerState == {"none", "read", "execute", "closed", "leaked"}
ClientState  == {"away", "open", "half", "gone", "reset"}
Answer       == {"response", "echo", "alert"}

(* Where the end of a handler leaves its socket. *)
LEMMA DoneState ==
  ASSUME NEW c
  PROVE  /\ Done(c) \in {"closed", "leaked", "read"}
         /\ ReadsToEnd => Done(c) \in {"closed", "leaked"}
         /\ mode = "original" => Done(c) = "closed"
BY DEF Done, ReadsToEnd

(* The end of the process closes the open sockets. *)
LEMMA EndState ==
  ASSUME TypeOK, ProcessEnd
  PROVE  /\ handler' \in [Client -> HandlerState]
         /\ \A d \in Client :
              \/ handler'[d] = handler[d]
              \/ handler[d] \in {"read", "execute", "leaked"} /\ handler'[d] = "closed"
         /\ main' = "down" /\ UNCHANGED <<mode, limit, stop, late>>
BY DEF ProcessEnd, TypeOK, OpenSockets, HandlerState

(* A part of a stream is a sequence of symbols. *)
LEMMA PartType ==
  ASSUME TypeOK, NEW c \in Client, NEW m \in Nat, NEW n \in Nat,
         m >= 1, n <= sent[c]
  PROVE  SubSeq(Stream[c], m, n) \in Seq(Symbol)
<1>1. Stream[c] \in Seq(Symbol) /\ sent[c] <= Len(Stream[c]) /\ sent[c] \in Nat
  BY StreamAssumption DEF TypeOK
<1>2. \A i \in m .. n : Stream[c][i] \in Symbol
  BY <1>1
<1> QED
  BY <1>2, SubSeqProperties
-----------------------------------------------------------------------------
(* What a handler step does, to its own client and to the others. *)

(* A handler step of client c leaves the other clients alone, except that  *)
(* it may end the process.                                                 *)
Frame(c) ==
  /\ UNCHANGED <<mode, limit, stop, late>>
  /\ main' \in {main, "down"}
  /\ handler' \in [Client -> HandlerState]
  /\ client'  \in [Client -> ClientState]
  /\ answers' \in [Client -> Seq(Answer)]
  /\ data'    \in [Client -> Seq(Symbol)]
  /\ \A d \in Client \ {c} :
       /\ \/ handler'[d] = handler[d]
          \/ handler[d] \in {"read", "execute", "leaked"} /\ handler'[d] = "closed"
       /\ client'[d] = client[d] /\ answers'[d] = answers[d] /\ data'[d] = data[d]
  /\ client'[c] = client[c] \/ (Ended(c) /\ client'[c] = "reset")

(* It ends with at most one answer; or it goes on to execute a string.     *)
Finishes(c, kind) ==
  /\ Frame(c)
  /\ handler'[c] \in {Done(c), "closed"}
  /\ answers'[c] \in {answers[c], Append(answers[c], kind)}

GoesOn(c, string) ==
  /\ Frame(c)
  /\ handler'[c] = "execute"
  /\ data'[c] = string
  /\ answers'[c] = answers[c] /\ client'[c] = client[c]

(* The end of the process finishes every handler. *)
LEMMA EndFinishes ==
  ASSUME TypeOK, NEW c \in Client, NEW kind, handler[c] \in {"read", "execute"},
         ProcessEnd, UNCHANGED <<client, answers, data>>
  PROVE  Finishes(c, kind)
<1>1. handler'[c] = "closed"
  BY DEF ProcessEnd, OpenSockets
<1> QED
  BY <1>1, EndState DEF Finishes, Frame, TypeOK, ClientState, Answer

(* Without an answer. *)
LEMMA NoReplyFinishes ==
  ASSUME TypeOK, NEW c \in Client, NEW kind, NoReply(c)
  PROVE  Finishes(c, kind)
<1>1. Done(c) \in HandlerState /\ <<>> \in Seq(Symbol)
  BY DoneState DEF HandlerState
<1> QED
  BY <1>1 DEF NoReply, loop, Finishes, Frame, TypeOK, HandlerState, ClientState, Answer

(* With one, which may be lost. *)
LEMMA ReplyFinishes ==
  ASSUME TypeOK, NEW c \in Client, NEW kind \in Answer, handler[c] \in {"read", "execute"},
         Reply(c, kind)
  PROVE  Finishes(c, kind)
<1>1. Done(c) \in HandlerState /\ <<>> \in Seq(Symbol)
  BY DoneState DEF HandlerState
<1>2. answers[c] \in Seq(Answer) /\ Append(answers[c], kind) \in Seq(Answer)
  BY DEF TypeOK, Answer
<1>3. data' \in [Client -> Seq(Symbol)] /\ \A d \in Client \ {c} : data'[d] = data[d]
  BY <1>1 DEF Reply, TypeOK
<1>4. CASE /\ answers' \in {answers, [answers EXCEPT ![c] = Append(@, kind)]}
           /\ handler' = [handler EXCEPT ![c] = Done(c)]
           /\ UNCHANGED <<loop, client>>
  BY <1>1, <1>2, <1>3, <1>4
  DEF loop, Finishes, Frame, TypeOK, HandlerState, ClientState, Answer
<1>5. CASE /\ client[c] \in {"gone", "reset"}
           /\ client' \in {client, [client EXCEPT ![c] = "reset"]}
           /\ handler' = [handler EXCEPT ![c] = Done(c)]
           /\ UNCHANGED <<loop, answers>>
  BY <1>1, <1>3, <1>5
  DEF loop, Finishes, Frame, TypeOK, HandlerState, ClientState, Answer, Ended
<1>6. CASE ProcessEnd /\ UNCHANGED <<client, answers>>
  <2>1. handler'[c] = "closed"
    BY <1>6 DEF ProcessEnd, OpenSockets
  <2> QED
    BY <1>3, <1>6, <2>1, EndState DEF Finishes, Frame, TypeOK, ClientState, Answer
<1> QED
  BY <1>4, <1>5, <1>6 DEF Reply

(* A string that was read is executed, echoed or ignored. *)
LEMMA ProcessEffect ==
  ASSUME TypeOK, NEW c \in Client, NEW string \in Seq(Symbol),
         handler[c] = "read", Process(c, string)
  PROVE  /\ Finishes(c, "echo") \/ GoesOn(c, string)
         /\ UNCHANGED <<sent, order, executed, tokens>>
<1>1. CASE NoReply(c)
  BY <1>1, NoReplyFinishes DEF Process
<1>2. CASE Reply(c, "echo")
  BY <1>2, ReplyFinishes DEF Process, Answer
<1>3. CASE ~NoReply(c) /\ ~Reply(c, "echo")
  BY <1>3
  DEF Process, GoesOn, Frame, loop, TypeOK, HandlerState, ClientState, Answer
<1> QED
  BY <1>1, <1>2, <1>3 DEF Process

(* Every handler step: a read that finishes or goes on to execute what was *)
(* read, or an execution that finishes.                                    *)
ReadStep(c) ==
  /\ handler[c] = "read" /\ UNCHANGED executed
  /\ \/ Finishes(c, "echo")
     \/ \E string \in Seq(Symbol) :
          /\ GoesOn(c, string)
          /\ ReadsToEnd => string = SubSeq(Stream[c], 1, sent[c]) /\ Ended(c)

ExecuteStep(c) ==
  /\ handler[c] = "execute"
  /\ \E kind \in Answer :
       /\ Finishes(c, kind)
       /\ ReadsToEnd => kind # "echo"
  /\ executed' \in {executed, [executed EXCEPT ![c] = Append(@, data[c])]}

(* A step of a handler reads or executes for its own client, and changes   *)
(* nothing that belongs to others.                                         *)
LEMMA HandlerStep ==
  ASSUME TypeOK, NEW c \in Client, Handler(c)
  PROVE  /\ main # "down"
         /\ ReadStep(c) \/ ExecuteStep(c)
         /\ UNCHANGED <<sent, order, valid>>
         /\ session' \in {session, session + 1}
         /\ taken' \in [Client -> Nat] /\ \A d \in Client : taken'[d] <= sent[d]
<1> USE DEF Running, tokens
<1>0. /\ sent[c] \in Nat /\ taken[c] \in Nat /\ taken[c] <= sent[c]
      /\ taken \in [Client -> Nat] /\ \A d \in Client : taken[d] <= sent[d]
      /\ sent \in [Client -> Nat]
  BY DEF TypeOK
<1>1. CASE ReadToEnd(c)
  <2>1. SubSeq(Stream[c], 1, sent[c]) \in Seq(Symbol)
    BY <1>0, PartType
  <2>2. Process(c, SubSeq(Stream[c], 1, sent[c])) /\ handler[c] = "read" /\ main # "down"
    BY <1>1 DEF ReadToEnd
  <2>3. /\ Finishes(c, "echo") \/ GoesOn(c, SubSeq(Stream[c], 1, sent[c]))
        /\ UNCHANGED <<sent, order, executed, tokens>>
    BY <2>1, <2>2, ProcessEffect
  <2>4. Ended(c) /\ taken' = [taken EXCEPT ![c] = sent[c]]
    BY <1>1 DEF ReadToEnd, Ended
  <2>5. ReadStep(c)
    <3>1. UNCHANGED executed
      BY <2>3
    <3> QED
      BY <2>1, <2>2, <2>3, <2>4, <3>1, Zenon DEF ReadStep
  <2>6. taken' \in [Client -> Nat] /\ \A d \in Client : taken'[d] <= sent[d]
    BY <1>0, <2>4
  <2> QED
    BY <2>2, <2>3, <2>5, <2>6
<1>2. CASE ReadArrived(c)
  <2>1. PICK n \in (taken[c] + 1) .. sent[c] :
          /\ taken' = [taken EXCEPT ![c] = n]
          /\ Process(c, SubSeq(Stream[c], taken[c] + 1, n))
    BY <1>2 DEF ReadArrived
  <2>2. SubSeq(Stream[c], taken[c] + 1, n) \in Seq(Symbol)
    <3>1. taken[c] + 1 \in Nat /\ n \in Nat /\ taken[c] + 1 >= 1 /\ n <= sent[c]
      BY <1>0
    <3> QED
      BY <3>1, PartType
  <2>3. /\ Finishes(c, "echo") \/ GoesOn(c, SubSeq(Stream[c], taken[c] + 1, n))
        /\ UNCHANGED <<sent, order, executed, tokens>>
    BY <1>2, <2>1, <2>2, ProcessEffect DEF ReadArrived
  <2>4. ~ReadsToEnd /\ handler[c] = "read" /\ main # "down"
    BY <1>2 DEF ReadArrived, ReadsToEnd
  <2>5. n \in Nat /\ n <= sent[c]
    BY <1>0
  <2> QED
    BY <1>0, <2>1, <2>2, <2>3, <2>4, <2>5 DEF ReadStep
<1>3. CASE EndOfConnection(c)
  <2>1. /\ handler[c] = "read" /\ main # "down"
        /\ handler' = [handler EXCEPT ![c] = IF ReadsToEnd THEN Done(c) ELSE "closed"]
        /\ UNCHANGED <<loop, clients, taken, data, executed, answers, tokens>>
    BY <1>3 DEF EndOfConnection
  <2>2. Done(c) \in HandlerState
    BY DoneState DEF HandlerState
  <2>3. Finishes(c, "echo")
    BY <2>1, <2>2
    DEF Finishes, Frame, loop, clients, TypeOK, HandlerState, ClientState, Answer
  <2> QED
    BY <1>0, <2>1, <2>3 DEF ReadStep, clients
<1>4. CASE PostSucceeds(c)
  <2>1. Finishes(c, "response")
    BY <1>4, ReplyFinishes, NoReplyFinishes DEF PostSucceeds, Answer
  <2>2. session' \in {session, session + 1} /\ UNCHANGED rest /\ Payload(c)
        /\ handler[c] = "execute" /\ main # "down"
    BY <1>4 DEF PostSucceeds, NextSession
  <2> QED
    BY <1>0, <2>1, <2>2 DEF ExecuteStep, Payload, rest, Answer
<1>5. CASE PostFails(c)
  <2>1. \E kind \in {"alert", "response"} : Finishes(c, kind)
    BY <1>5, ReplyFinishes, NoReplyFinishes, EndFinishes DEF PostFails, Answer
  <2> QED
    BY <1>0, <1>5, <2>1 DEF PostFails, ExecuteStep, rest, Answer
<1>6. CASE PostLibevent(c)
  <2>1. \E kind \in Answer : Finishes(c, kind)
    BY <1>6, ReplyFinishes, NoReplyFinishes DEF PostLibevent, Answer
  <2>2. ~ReadsToEnd
    BY <1>6 DEF PostLibevent, ReadsToEnd
  <2> QED
    BY <1>0, <1>6, <2>1, <2>2 DEF PostLibevent, ExecuteStep, Payload, rest
<1>7. CASE SetupLibevent(c)
  <2>1. \E kind \in Answer : Finishes(c, kind)
    BY <1>7, ReplyFinishes, NoReplyFinishes, EndFinishes DEF SetupLibevent, Answer
  <2>2. ~ReadsToEnd
    BY <1>7 DEF SetupLibevent, ReadsToEnd
  <2> QED
    BY <1>0, <1>7, <2>1, <2>2 DEF SetupLibevent, ExecuteStep, NextSession, rest
<1> QED
  BY <1>1, <1>2, <1>3, <1>4, <1>5, <1>6, <1>7 DEF Handler
-----------------------------------------------------------------------------
(* Type correctness. *)

(* The server starts with the right types. *)
LEMMA TypeInit == Init => TypeOK
<1> SUFFICES ASSUME Init PROVE TypeOK
  OBVIOUS
<1>1. \A c \in Client : Len(Stream[c]) \in Nat
  BY StreamAssumption
<1>2. <<>> \in Seq(Client) /\ <<>> \in Seq(Symbol) /\ <<>> \in Seq(Seq(Symbol))
      /\ <<>> \in Seq(Answer)
  OBVIOUS
<1>3. /\ mode \in Mode /\ limit \in MaxFd
      /\ main \in {"accept", "test", "leaving", "down"}
      /\ stop \in BOOLEAN /\ late \subseteq Client
      /\ order \in Seq(Client)
  BY <1>2 DEF Init
<1>6. session \in Nat /\ valid \in 1 .. (session + 1)
  BY DEF Init, StartToken
<1>4. /\ sent \in [Client -> Nat] /\ \A c \in Client : sent[c] <= Len(Stream[c])
      /\ taken \in [Client -> Nat] /\ \A c \in Client : taken[c] <= sent[c]
  BY <1>1 DEF Init
<1>5. /\ client \in [Client -> {"away", "open", "half", "gone", "reset"}]
      /\ handler \in [Client -> {"none", "read", "execute", "closed", "leaked"}]
      /\ data \in [Client -> Seq(Symbol)]
      /\ executed \in [Client -> Seq(Seq(Symbol))]
      /\ answers \in [Client -> Seq({"response", "echo", "alert"})]
  BY <1>2 DEF Init, Answer
<1> QED
  BY <1>3, <1>4, <1>5, <1>6 DEF TypeOK

(* A step of the accept loop: it accepts the client that has waited        *)
(* longest, ends the process or moves on.                                  *)
Accepts(i) ==
  /\ First(i)
  /\ main = "accept" /\ Ready
  /\ handler' = [handler EXCEPT ![order[i]] = "read"]
  /\ late' = IF stop /\ mode = "threads" THEN late \cup {order[i]} ELSE late
  /\ main' = IF mode = "threads" THEN "test" ELSE main

(* A step of the accept loop takes a connection, ends the process, or      *)
(* moves on to its next test of the stop flag.                             *)
LEMMA ServerStep ==
  ASSUME Server
  PROVE  /\ UNCHANGED <<mode, limit, stop, clients, taken, data, executed, answers, tokens>>
         /\ \/ \E i \in DOMAIN order : Accepts(i)
            \/ ProcessEnd
            \/ /\ main' \in {"test", "leaving", "accept"} /\ UNCHANGED <<late, handler>>
               /\ main' = "accept" => ~stop
               /\ main' = "test" => main = "accept"
<1>1. CASE Accept
  BY <1>1 DEF Accept, Accepts, ProcessEnd
<1>2. CASE AcceptFails
  BY <1>2 DEF AcceptFails, ProcessEnd
<1>3. CASE TestFlag
  BY <1>3 DEF TestFlag, server
<1>4. CASE LeaveMain
  BY <1>4 DEF LeaveMain, ProcessEnd
<1> QED
  BY <1>1, <1>2, <1>3, <1>4 DEF Server

(* The accept loop keeps the types. *)
LEMMA TypeServer ==
  ASSUME TypeOK, Server
  PROVE  TypeOK'
<1> USE DEF TypeOK, clients, tokens
<1>1. CASE \E i \in DOMAIN order : Accepts(i)
  <2>1. PICK i \in DOMAIN order : Accepts(i)
    BY <1>1
  <2>2. order[i] \in Client
    OBVIOUS
  <2> QED
    BY <2>1, <2>2, ServerStep DEF Accepts
<1>2. CASE ProcessEnd
  BY <1>2, EndState, ServerStep DEF HandlerState
<1>3. CASE main' \in {"test", "leaving", "accept"} /\ UNCHANGED <<late, handler>>
  BY <1>3, ServerStep
<1> QED
  BY <1>1, <1>2, <1>3, ServerStep

(* A handler keeps the types. *)
LEMMA TypeHandler ==
  ASSUME TypeOK, NEW c \in Client, Handler(c)
  PROVE  TypeOK'
<1>1. Frame(c)
  BY HandlerStep DEF ReadStep, ExecuteStep, Finishes, GoesOn
<1>2. executed' \in [Client -> Seq(Seq(Symbol))]
  <2>1. executed[c] \in Seq(Seq(Symbol)) /\ data[c] \in Seq(Symbol)
    BY DEF TypeOK
  <2>2. Append(executed[c], data[c]) \in Seq(Seq(Symbol))
    BY <2>1
  <2> QED
    BY <2>2, HandlerStep DEF ReadStep, ExecuteStep, TypeOK
<1>3. UNCHANGED <<sent, order, valid>> /\ session' \in Nat /\ valid' \in 1 .. (session' + 1)
      /\ taken' \in [Client -> Nat] /\ \A d \in Client : taken'[d] <= sent[d]
  <2>1. session \in Nat /\ valid \in 1 .. (session + 1)
    BY DEF TypeOK
  <2>2. UNCHANGED <<sent, order, valid>> /\ session' \in {session, session + 1}
        /\ taken' \in [Client -> Nat] /\ \A d \in Client : taken'[d] <= sent[d]
    BY HandlerStep
  <2>3. valid' = valid
    BY <2>2
  <2>4. CASE session' = session
    BY <2>1, <2>2, <2>3, <2>4
  <2>5. CASE session' = session + 1
    BY <2>1, <2>2, <2>3, <2>5
  <2> QED
    BY <2>2, <2>4, <2>5
<1>4. main' \in {"accept", "test", "leaving", "down"}
  BY <1>1 DEF Frame, TypeOK
<1> QED
  BY <1>1, <1>2, <1>3, <1>4 DEF Frame, TypeOK, HandlerState, ClientState, Answer

(* Every step of the clients, the loop and the handlers keeps the types. *)
LEMMA TypeNext == TypeOK /\ [Next]_vars => TypeOK'
<1> SUFFICES ASSUME TypeOK, [Next]_vars PROVE TypeOK'
  OBVIOUS
<1>1. ASSUME NEW c \in Client, Connect(c) \/ SendNext(c) \/ EndStream(c)
      PROVE  TypeOK'
  <2>1. Len(Stream[c]) \in Nat /\ \A d \in Client : Len(Stream[d]) \in Nat
    BY StreamAssumption
  <2>2. CASE Connect(c)
    <3>1. order' \in Seq(Client)
      BY <2>2 DEF Connect, TypeOK
    <3> QED
      BY <2>2, <3>1 DEF Connect, TypeOK, loop, server, tokens
  <2>3. CASE SendNext(c)
    BY <2>1, <2>3 DEF SendNext, TypeOK, loop, server, tokens
  <2>4. CASE EndStream(c)
    BY <2>4 DEF EndStream, TypeOK, loop, server, tokens
  <2> QED
    BY <1>1, <2>2, <2>3, <2>4
<1>2. CASE Server
  BY <1>2, TypeServer
<1>3. CASE Signal
  BY <1>3 DEF Signal, TypeOK, clients, server, tokens
<1>4. ASSUME NEW c \in Client, Handler(c)
      PROVE  TypeOK'
  BY <1>4, TypeHandler
<1>5. CASE Renew \/ Expire
  BY <1>5 DEF Renew, Expire, NextSession, TypeOK, loop, clients
<1>6. CASE UNCHANGED vars
  BY <1>6 DEF vars, loop, clients, tokens, TypeOK
<1> QED
  BY <1>1, <1>2, <1>3, <1>4, <1>5, <1>6 DEF Next, Clients

(* Every variable of the four modes has its type, descriptors and sessions *)
(* included.                                                               *)
THEOREM TypeCorrect == Spec => []TypeOK
BY TypeInit, TypeNext, PTL DEF Spec
-----------------------------------------------------------------------------
(* Whole streams. *)

(* What is true of a client stays true when its connection is left alone   *)
(* or closed under it.                                                     *)
LEMMA ServedKept ==
  ASSUME NEW d \in Client, Served(d),
         \/ handler'[d] = handler[d]
         \/ handler'[d] = "closed"
         \/ handler[d] = "none" /\ handler'[d] = "read",
         executed'[d] = executed[d], answers'[d] = answers[d], data'[d] = data[d],
         sent'[d] = sent[d], Ended(d) => Ended(d)'
  PROVE  Served(d)'
BY DEF Served

(* A string that is read to its end is all that its client sent.           *)
LEMMA ServedByHandler ==
  ASSUME TypeOK, NEW c \in Client, Handler(c), ReadsToEnd, Served(c)
  PROVE  Served(c)'
<1>1. /\ ReadStep(c) \/ ExecuteStep(c)
      /\ sent'[c] = sent[c]
  BY HandlerStep
<1>2. executed[c] = <<>> /\ answers[c] = <<>>
  BY <1>1 DEF ReadStep, ExecuteStep, Served
<1>3. ASSUME NEW kind \in Answer, answers'[c] \in {answers[c], Append(answers[c], kind)}
      PROVE  /\ answers'[c] \in {<<>>, <<kind>>}
             /\ Len(answers'[c]) <= 1
  <2>1. Append(<<>>, kind) = <<kind>> /\ Len(<<kind>>) = 1 /\ Len(<<>>) = 0
    OBVIOUS
  <2>2. answers'[c] \in {<<>>, <<kind>>}
    <3>1. answers[c] = <<>>
      BY <1>2
    <3>2. answers'[c] \in {<<>>, Append(<<>>, kind)}
      BY <1>3, <3>1, Zenon
    <3> QED
      BY <2>1, <3>2, Zenon
  <2>3. Len(answers'[c]) <= 1
    <3>1. CASE answers'[c] = <<>>
      BY <3>1
    <3>2. CASE answers'[c] = <<kind>>
      BY <3>2
    <3> QED
      BY <2>2, <3>1, <3>2
  <2> QED
    BY <2>2, <2>3
<1>4. CASE ReadStep(c)
  <2>1. executed'[c] = <<>>
    BY <1>2, <1>4 DEF ReadStep
  <2>2. CASE Finishes(c, "echo")
    <3>1. handler'[c] \in {"closed", "leaked"} /\ answers'[c] \in {answers[c], Append(answers[c], "echo")}
      BY <2>2, DoneState DEF Finishes
    <3>2. Len(answers'[c]) <= 1
      BY <3>1, <1>3 DEF Answer
    <3> QED
      BY <2>1, <3>1, <3>2 DEF Served
  <2>3. CASE ~Finishes(c, "echo")
    <3>1. PICK string \in Seq(Symbol) :
            GoesOn(c, string) /\ string = SubSeq(Stream[c], 1, sent[c]) /\ Ended(c)
      BY <1>4, <2>3 DEF ReadStep
    <3>2. /\ handler'[c] = "execute" /\ data'[c] = SubSeq(Stream[c], 1, sent[c])
          /\ answers'[c] = <<>> /\ client'[c] = client[c] /\ Ended(c)
      BY <1>2, <3>1 DEF GoesOn
    <3>3. Ended(c)' /\ Len(answers'[c]) <= 1
      BY <3>2 DEF Ended
    <3> QED
      BY <1>1, <2>1, <3>2, <3>3 DEF Served
  <2> QED
    BY <2>2, <2>3
<1>5. CASE ExecuteStep(c)
  <2>1. PICK kind \in Answer : Finishes(c, kind) /\ kind # "echo"
    BY <1>5 DEF ExecuteStep
  <2>2. /\ handler'[c] \in {"closed", "leaked"}
        /\ answers'[c] \in {answers[c], Append(answers[c], kind)}
        /\ client'[c] = client[c] \/ client'[c] = "reset"
    BY <2>1, DoneState DEF Finishes, Frame
  <2>3. data[c] = SubSeq(Stream[c], 1, sent[c]) /\ Ended(c)
    BY <1>5 DEF ExecuteStep, Served
  <2>4. executed'[c] \in {<<>>, <<SubSeq(Stream[c], 1, sent[c])>>}
    <3>1. executed'[c] \in {executed[c], Append(executed[c], data[c])}
      BY <1>5 DEF ExecuteStep, TypeOK
    <3> QED
      BY <1>2, <2>3, <3>1
  <2>5. answers'[c] \in {<<>>, <<kind>>} /\ Len(answers'[c]) <= 1
    BY <1>3, <2>2
  <2>6. answers'[c] # <<"echo">>
    <3>1. <<kind>>[1] = kind /\ <<"echo">>[1] = "echo" /\ <<>> # <<"echo">>
      OBVIOUS
    <3> QED
      BY <2>1, <2>5, <3>1
  <2>7. Ended(c)'
    BY <2>2, <2>3 DEF Ended
  <2> QED
    BY <1>1, <2>2, <2>4, <2>5, <2>6, <2>7 DEF Served
<1> QED
  BY <1>1, <1>4, <1>5

(* Every step keeps what executes or was executed all that its client has  *)
(* sent, in the modes that read to the end of the stream.                  *)
LEMMA WholeNext ==
  ASSUME TypeOK, WholeInv, [Next]_vars
  PROVE  WholeInv'
<1> SUFFICES ASSUME ReadsToEnd', NEW d \in Client
             PROVE  Served(d)'
  BY DEF WholeInv
<1>1. mode' = mode
  <2>1. CASE \E c \in Client : Handler(c)
    BY <2>1, HandlerStep DEF ReadStep, ExecuteStep, Finishes, GoesOn, Frame
  <2>2. CASE Server
    BY <2>2, ServerStep
  <2> QED
    BY <2>1, <2>2 DEF Next, Clients, Connect, SendNext, EndStream, Signal, Renew, Expire,
                     loop, vars
<1>2. ReadsToEnd /\ Served(d)
  BY <1>1 DEF ReadsToEnd, WholeInv
<1>3. ASSUME NEW c \in Client, Connect(c) \/ EndStream(c)
      PROVE  Served(d)'
  <2>1. /\ UNCHANGED <<handler, executed, answers, data, sent>>
        /\ Ended(d) => Ended(d)'
    BY <1>3 DEF Connect, EndStream, server, Ended, TypeOK
  <2> QED
    BY <1>2, <2>1, ServedKept
<1>4. ASSUME NEW c \in Client, SendNext(c)
      PROVE  Served(d)'
  <2>1. UNCHANGED <<handler, executed, answers, data, client>>
    BY <1>4 DEF SendNext, server
  <2>2. CASE d = c
    <3>1. ~Ended(d)
      BY <1>4, <2>2 DEF SendNext, Ended
    <3>2. handler[d] # "execute" /\ executed[d] = <<>>
      BY <1>2, <3>1 DEF Served
    <3> QED
      BY <1>2, <2>1, <3>2 DEF Served
  <2>3. CASE d # c
    <3>1. sent'[d] = sent[d] /\ (Ended(d) => Ended(d)')
      BY <1>4, <2>1, <2>3 DEF SendNext, TypeOK, Ended
    <3> QED
      BY <1>2, <2>1, <3>1, ServedKept
  <2> QED
    BY <2>2, <2>3
<1>5. CASE Server
  <2>1. UNCHANGED <<executed, answers, data, sent, client>>
    BY <1>5, ServerStep DEF clients
  <2>2. \/ handler'[d] = handler[d]
        \/ handler'[d] = "closed"
        \/ handler[d] = "none" /\ handler'[d] = "read"
    <3>1. CASE ProcessEnd
      BY <3>1, EndState
    <3>2. CASE \E i \in DOMAIN order : Accepts(i)
      BY <3>2 DEF Accepts, First, Backlog, TypeOK
    <3>3. CASE UNCHANGED handler
      BY <3>3
    <3> QED
      BY <1>5, <3>1, <3>2, <3>3, ServerStep
  <2> QED
    BY <1>2, <2>1, <2>2, ServedKept DEF Ended
<1>6. ASSUME NEW c \in Client, Handler(c)
      PROVE  Served(d)'
  <2>1. CASE d = c
    BY <1>2, <1>6, <2>1, ServedByHandler
  <2>2. CASE d # c
    <3>1. Frame(c) /\ executed'[d] = executed[d] /\ sent'[d] = sent[d]
      BY <1>6, <2>2, HandlerStep
      DEF ReadStep, ExecuteStep, Finishes, GoesOn, TypeOK
    <3> QED
      BY <1>2, <2>2, <3>1, ServedKept DEF Frame, Ended
  <2> QED
    BY <2>1, <2>2
<1>7. CASE Signal \/ Renew \/ Expire \/ UNCHANGED vars
  <2>1. UNCHANGED <<handler, executed, answers, data, sent, client>>
    BY <1>7 DEF Signal, Renew, Expire, vars, clients, server
  <2> QED
    BY <1>2, <2>1, ServedKept DEF Ended
<1> QED
  BY <1>3, <1>4, <1>5, <1>6, <1>7 DEF Next, Clients
-----------------------------------------------------------------------------
(* Pieces of a stream. *)

(* At first there are none. *)
LEMMA NoPieces ==
  ASSUME NEW stream
  PROVE  Pieces(<<>>, stream, 0)
<1> DEFINE none == [i \in 1 .. 0 |-> 0]
<1>1. Len(<<>>) = 0 /\ 1 .. 0 = {} /\ none \in [1 .. 0 -> 0 .. 0]
  OBVIOUS
<1> HIDE DEF none
<1> QED
  BY <1>1 DEF Pieces

(* Pieces of the front of a stream are pieces of a longer front. *)
LEMMA PiecesGrow ==
  ASSUME NEW strings \in Seq(Seq(Symbol)), NEW stream,
         NEW m \in Nat, NEW n \in Nat, m <= n, Pieces(strings, stream, m)
  PROVE  Pieces(strings, stream, n)
<1>1. PICK from \in [1 .. Len(strings) -> 0 .. m], to \in [1 .. Len(strings) -> 0 .. m] :
        /\ \A i \in 1 .. Len(strings) : strings[i] = SubSeq(stream, from[i] + 1, to[i])
        /\ \A i, j \in 1 .. Len(strings) : i < j => to[i] <= from[j]
  BY DEF Pieces
<1>2. 0 .. m \subseteq 0 .. n
  OBVIOUS
<1>3. from \in [1 .. Len(strings) -> 0 .. n] /\ to \in [1 .. Len(strings) -> 0 .. n]
  BY <1>2
<1> QED
  BY <1>1, <1>3, Zenon DEF Pieces

(* One more piece, of what comes behind the front that the others are of.  *)
LEMMA PiecesMore ==
  ASSUME NEW strings \in Seq(Seq(Symbol)), NEW stream,
         NEW m \in Nat, NEW n \in Nat, m <= n,
         SubSeq(stream, m + 1, n) \in Seq(Symbol), Pieces(strings, stream, m)
  PROVE  Pieces(Append(strings, SubSeq(stream, m + 1, n)), stream, n)
<1> DEFINE piece == SubSeq(stream, m + 1, n)
           more  == Append(strings, piece)
           k     == Len(strings)
<1>1. PICK from \in [1 .. k -> 0 .. m], to \in [1 .. k -> 0 .. m] :
        /\ \A i \in 1 .. k : strings[i] = SubSeq(stream, from[i] + 1, to[i])
        /\ \A i, j \in 1 .. k : i < j => to[i] <= from[j]
  BY DEF Pieces
<1>2. /\ k \in Nat /\ Len(more) = k + 1 /\ more[k + 1] = piece
      /\ \A i \in 1 .. k : more[i] = strings[i]
  <2> DEFINE S == Seq(Symbol)
  <2>1. strings \in Seq(S) /\ piece \in S
    OBVIOUS
  <2> HIDE DEF S, piece
  <2> QED
    BY <2>1, AppendProperties
<1> DEFINE f == [i \in 1 .. k + 1 |-> IF i \in 1 .. k THEN from[i] ELSE m]
           t == [i \in 1 .. k + 1 |-> IF i \in 1 .. k THEN to[i] ELSE n]
<1>3. /\ f \in [1 .. k + 1 -> 0 .. n] /\ t \in [1 .. k + 1 -> 0 .. n]
      /\ \A i \in 1 .. k : /\ f[i] = from[i] /\ t[i] = to[i]
                           /\ from[i] \in 0 .. m /\ to[i] \in 0 .. m
      /\ f[k + 1] = m /\ t[k + 1] = n
  <2> HIDE DEF k
  <2>1. \A i \in 1 .. k : from[i] \in 0 .. m /\ to[i] \in 0 .. m
    BY <1>1
  <2>2. 0 .. m \subseteq 0 .. n /\ m \in 0 .. n /\ n \in 0 .. n
    OBVIOUS
  <2>3. k + 1 \in 1 .. k + 1 /\ k + 1 \notin 1 .. k /\ 1 .. k \subseteq 1 .. k + 1
    BY <1>2
  <2> QED
    BY <2>1, <2>2, <2>3
<1> HIDE DEF f, t, k, more, piece
<1>4. \A i \in 1 .. k + 1 : i \in 1 .. k \/ i = k + 1
  BY <1>2
<1>5. ASSUME NEW i \in 1 .. k + 1
      PROVE  more[i] = SubSeq(stream, f[i] + 1, t[i])
  <2>1. CASE i \in 1 .. k
    BY <1>1, <1>2, <1>3, <2>1
  <2>2. CASE i = k + 1
    BY <1>2, <1>3, <2>2 DEF piece
  <2> QED
    BY <1>4, <2>1, <2>2
<1>6. ASSUME NEW i \in 1 .. k + 1, NEW j \in 1 .. k + 1, i < j
      PROVE  t[i] <= f[j]
  <2>1. i \in 1 .. k
    BY <1>2, <1>6
  <2>2. CASE j \in 1 .. k
    BY <1>1, <1>3, <1>6, <2>1, <2>2
  <2>3. CASE j = k + 1
    BY <1>3, <2>1, <2>3
  <2> QED
    BY <1>4, <2>2, <2>3
<1>7. Pieces(more, stream, n)
  <2>1. /\ \A i \in 1 .. Len(more) : more[i] = SubSeq(stream, f[i] + 1, t[i])
        /\ \A i, j \in 1 .. Len(more) : i < j => t[i] <= f[j]
    BY <1>2, <1>5, <1>6
  <2>2. f \in [1 .. Len(more) -> 0 .. n] /\ t \in [1 .. Len(more) -> 0 .. n]
    BY <1>2, <1>3
  <2> QED
    BY <2>1, <2>2, Zenon DEF Pieces
<1> QED
  BY <1>7 DEF more, piece
-----------------------------------------------------------------------------
(* What libevent has read. *)

(* What is true of a client stays true when nothing more is executed and   *)
(* nothing is taken back.                                                  *)
LEMMA SoFarKept ==
  ASSUME TypeOK, TypeOK', NEW d \in Client, ReadSoFar(d),
         executed'[d] = executed[d], taken'[d] >= taken[d],
         data'[d] \in {data[d], <<>>},
         handler'[d] = "execute" =>
           handler[d] = "execute" /\ data'[d] = data[d] /\ taken'[d] = taken[d]
  PROVE  ReadSoFar(d)'
<1>1. /\ taken[d] \in Nat /\ taken'[d] \in Nat /\ Len(data[d]) \in Nat
      /\ Len(data'[d]) \in {Len(data[d]), 0} /\ executed[d] \in Seq(Seq(Symbol))
  BY DEF TypeOK
<1>2. Len(data[d]) <= taken[d] /\ Pieces(executed[d], Stream[d], taken[d] - Len(data[d]))
  BY DEF ReadSoFar
<1> DEFINE m == taken[d] - Len(data[d])
           n == taken'[d] - Len(data'[d])
<1>3. m \in Nat /\ n \in Nat /\ m <= n /\ Len(data'[d]) <= taken'[d]
  BY <1>1, <1>2
<1>4. Pieces(executed[d], Stream[d], m)
  BY <1>2
<1> HIDE DEF m, n
<1>5. Pieces(executed'[d], Stream[d], n)
  BY <1>1, <1>3, <1>4, PiecesGrow
<1> QED
  BY <1>3, <1>5 DEF ReadSoFar, n

(* A step of a handler moves what was read of its own client's stream.     *)
LEMMA TakenStep ==
  ASSUME TypeOK, NEW c \in Client, Handler(c), mode = "libevent"
  PROVE  /\ \A d \in Client \ {c} : taken'[d] = taken[d]
         /\ ReadArrived(c) \/ UNCHANGED taken
BY DEF Handler, ReadToEnd, ReadArrived, EndOfConnection, PostSucceeds, PostFails,
       PostLibevent, SetupLibevent, ReadsToEnd, rest, TypeOK

(* What is read is executed once, and what was executed is behind it.      *)
LEMMA ReadByHandler ==
  ASSUME TypeOK, TypeOK', NEW c \in Client, Handler(c), mode = "libevent", ReadSoFar(c)
  PROVE  ReadSoFar(c)'
<1>0. /\ taken[c] \in Nat /\ sent[c] \in Nat /\ taken[c] <= sent[c] /\ ~ReadsToEnd
      /\ Done(c) # "execute" /\ Len(data[c]) \in Nat /\ executed[c] \in Seq(Seq(Symbol))
      /\ Stream[c] \in Seq(Symbol) /\ sent[c] <= Len(Stream[c])
  <2>1. Stream[c] \in Seq(Symbol)
    BY StreamAssumption
  <2>2. Done(c) # "execute" /\ ~ReadsToEnd
    BY DoneState DEF ReadsToEnd
  <2>3. Len(data[c]) \in Nat
    <3>1. data[c] \in Seq(Symbol)
      BY DEF TypeOK
    <3> QED
      BY <3>1
  <2> QED
    BY <2>1, <2>2, <2>3 DEF TypeOK
<1>1. \A kind \in Answer : Reply(c, kind) \/ NoReply(c) =>
        data'[c] = <<>> /\ (handler[c] \in {"read", "execute"} => handler'[c] # "execute")
  <2>1. \A kind \in Answer : Reply(c, kind) \/ NoReply(c) => data'[c] = <<>>
    BY DEF Reply, NoReply, TypeOK
  <2>2. ASSUME NEW kind \in Answer, Reply(c, kind) \/ NoReply(c),
               handler[c] \in {"read", "execute"}
        PROVE  handler'[c] # "execute"
    BY <1>0, <2>2, ReplyFinishes, NoReplyFinishes DEF Finishes
  <2> QED
    BY <2>1, <2>2
<1>2. CASE ReadArrived(c)
  <2>1. PICK n \in (taken[c] + 1) .. sent[c] :
          /\ taken' = [taken EXCEPT ![c] = n]
          /\ Process(c, SubSeq(Stream[c], taken[c] + 1, n))
    BY <1>2 DEF ReadArrived
  <2>2. /\ handler[c] = "read" /\ executed'[c] = executed[c]
        /\ n \in Nat /\ taken'[c] = n /\ taken[c] + 1 <= n /\ n <= Len(Stream[c])
    BY <1>0, <1>2, <2>1 DEF ReadArrived, Running, Process, TypeOK
  <2> DEFINE string == SubSeq(Stream[c], taken[c] + 1, n)
  <2>3. CASE NoReply(c) \/ Reply(c, "echo")
    <3>1. data'[c] = <<>> /\ handler'[c] # "execute"
      BY <1>1, <2>2, <2>3 DEF Answer
    <3> QED
      BY <1>0, <2>2, <3>1, SoFarKept
  <2>4. CASE data' = [data EXCEPT ![c] = string]
    <3>1. data'[c] = string
      BY <2>4 DEF TypeOK
    <3>2. Len(string) = n - taken[c]
      <4>1. \A i \in taken[c] + 1 .. n : Stream[c][i] \in Symbol
        BY <1>0, <2>2
      <4> QED
        BY <1>0, <2>2, <4>1, SubSeqProperties
    <3>3. /\ Len(data'[c]) = n - taken[c] /\ n - (n - taken[c]) = taken[c]
          /\ n - taken[c] <= n
      BY <1>0, <2>2, <3>1, <3>2
    <3>4. Pieces(executed[c], Stream[c], taken[c])
      <4> DEFINE m == taken[c] - Len(data[c])
      <4>1. Pieces(executed[c], Stream[c], m) /\ Len(data[c]) <= taken[c]
        BY DEF ReadSoFar
      <4>2. m \in Nat /\ m <= taken[c]
        BY <1>0, <4>1
      <4> HIDE DEF m
      <4> QED
        BY <1>0, <4>1, <4>2, PiecesGrow
    <3> HIDE DEF string
    <3>5. data'[c] = SubSeq(Stream[c], taken[c] + 1, n)
      BY <3>1 DEF string
    <3> QED
      BY <2>2, <3>3, <3>4, <3>5 DEF ReadSoFar
  <2> QED
    BY <2>1, <2>3, <2>4 DEF Process
<1>3. CASE UNCHANGED executed /\ ~ReadArrived(c)
  <2>1. UNCHANGED taken /\ handler[c] \in {"read", "execute"}
    BY <1>3, TakenStep, HandlerStep DEF ReadStep, ExecuteStep
  <2>2. data'[c] \in {data[c], <<>>} /\ handler'[c] # "execute"
    <3>1. CASE NoReply(c) \/ \E kind \in Answer : Reply(c, kind)
      BY <1>1, <2>1, <3>1 DEF Answer
    <3>2. CASE ProcessEnd /\ UNCHANGED data
      BY <2>1, <3>2 DEF ProcessEnd, OpenSockets
    <3>3. CASE EndOfConnection(c)
      BY <1>0, <3>3 DEF EndOfConnection, TypeOK
    <3> QED
      BY <1>0, <1>3, <3>1, <3>2, <3>3
      DEF Handler, ReadToEnd, PostSucceeds, PostFails, PostLibevent, SetupLibevent, Answer
  <2> QED
    BY <1>0, <1>3, <2>1, <2>2, SoFarKept
<1>4. CASE executed' # executed
  <2>1. PostLibevent(c) /\ Payload(c)
    BY <1>0, <1>4
    DEF Handler, ReadToEnd, ReadArrived, Process, EndOfConnection, PostSucceeds, PostFails,
        PostLibevent, SetupLibevent
  <2>2. /\ handler[c] = "execute" /\ taken' = taken /\ executed'[c] = Append(executed[c], data[c])
        /\ data'[c] = <<>> /\ handler'[c] # "execute"
    <3>1. handler[c] = "execute" /\ taken' = taken
      BY <2>1 DEF PostLibevent, Running, rest
    <3>2. executed'[c] = Append(executed[c], data[c])
      BY <2>1 DEF Payload, TypeOK
    <3>3. NoReply(c) \/ Reply(c, "echo") \/ Reply(c, "alert")
      BY <2>1 DEF PostLibevent
    <3> QED
      BY <1>1, <3>1, <3>2, <3>3 DEF Answer
  <2> DEFINE m == taken[c] - Len(data[c])
  <2>3. /\ Pieces(executed[c], Stream[c], m) /\ Len(data[c]) <= taken[c]
        /\ data[c] = SubSeq(Stream[c], m + 1, taken[c]) /\ data[c] \in Seq(Symbol)
    BY <2>2 DEF ReadSoFar, TypeOK
  <2>4. m \in Nat /\ m <= taken[c]
    BY <1>0, <2>3
  <2> HIDE DEF m
  <2>5. Pieces(Append(executed[c], data[c]), Stream[c], taken[c])
    <3>1. SubSeq(Stream[c], m + 1, taken[c]) \in Seq(Symbol)
      BY <2>3
    <3>2. Pieces(Append(executed[c], SubSeq(Stream[c], m + 1, taken[c])), Stream[c], taken[c])
      BY <1>0, <2>3, <2>4, <3>1, PiecesMore
    <3> QED
      BY <2>3, <3>2
  <2>6. Len(<<>>) = 0 /\ taken[c] - 0 = taken[c] /\ 0 <= taken[c]
    BY <1>0
  <2> QED
    BY <2>2, <2>5, <2>6 DEF ReadSoFar
<1> QED
  BY <1>2, <1>3, <1>4

(* Every step keeps what was executed pieces of what was read, in the mode *)
(* that takes what a read has found for a payload.                         *)
LEMMA ReadNext ==
  ASSUME TypeOK, ReadInv, [Next]_vars
  PROVE  ReadInv'
<1> SUFFICES ASSUME mode' = "libevent", NEW d \in Client
             PROVE  ReadSoFar(d)'
  BY DEF ReadInv
<1>0. TypeOK' /\ taken[d] \in Nat
  BY TypeNext DEF TypeOK
<1>1. mode' = mode
  <2>1. CASE \E c \in Client : Handler(c)
    BY <2>1, HandlerStep DEF ReadStep, ExecuteStep, Finishes, GoesOn, Frame
  <2>2. CASE Server
    BY <2>2, ServerStep
  <2> QED
    BY <2>1, <2>2 DEF Next, Clients, Connect, SendNext, EndStream, Signal, Renew, Expire,
                     loop, vars
<1>2. mode = "libevent" /\ ReadSoFar(d)
  BY <1>1 DEF ReadInv
<1>3. CASE \/ \E c \in Client : Connect(c) \/ SendNext(c) \/ EndStream(c)
           \/ Signal \/ Renew \/ Expire \/ UNCHANGED vars
  <2>1. UNCHANGED <<handler, taken, data, executed>>
    BY <1>3 DEF Connect, SendNext, EndStream, Signal, Renew, Expire, vars, server
  <2> QED
    BY <1>0, <1>2, <2>1, SoFarKept
<1>4. CASE Server
  <2>1. UNCHANGED <<taken, data, executed>>
    BY <1>4, ServerStep
  <2>2. handler'[d] = "execute" => handler[d] = "execute"
    <3>1. CASE \E i \in DOMAIN order : Accepts(i)
      BY <3>1 DEF Accepts, TypeOK
    <3>2. CASE ProcessEnd
      BY <3>2, EndState
    <3> QED
      BY <1>4, <3>1, <3>2, ServerStep
  <2> QED
    BY <1>0, <1>2, <2>1, <2>2, SoFarKept
<1>5. ASSUME NEW c \in Client, Handler(c)
      PROVE  ReadSoFar(d)'
  <2>1. CASE d = c
    BY <1>0, <1>2, <1>5, <2>1, ReadByHandler
  <2>2. CASE d # c
    <3>1. /\ taken'[d] = taken[d] /\ data'[d] = data[d] /\ executed'[d] = executed[d]
          /\ handler'[d] = "execute" => handler[d] = "execute"
      <4>1. Frame(c) /\ executed' \in {executed, [executed EXCEPT ![c] = Append(@, data[c])]}
        BY <1>5, HandlerStep DEF ReadStep, ExecuteStep, Finishes, GoesOn
      <4> QED
        BY <1>2, <1>5, <2>2, <4>1, TakenStep DEF Frame, TypeOK
    <3> QED
      BY <1>0, <1>2, <3>1, SoFarKept
  <2> QED
    BY <2>1, <2>2
<1> QED
  BY <1>3, <1>4, <1>5 DEF Next, Clients
-----------------------------------------------------------------------------
(* One connection at a time, and one more client after SIGINT. *)

(* Every step keeps the clients before the one being served in original    *)
(* mode closed.                                                            *)
LEMMA TurnNext ==
  ASSUME TypeOK, TurnInv, [Next]_vars
  PROVE  TurnInv'
<1> USE DEF TurnInv
<1>0. \A i \in DOMAIN order : order[i] \in Client
  BY DEF TypeOK
<1>1. ASSUME NEW c \in Client, Connect(c)
      PROVE  TurnInv'
  <2>1. /\ client[c] = "away" /\ client' = [client EXCEPT ![c] = "open"]
        /\ order' = Append(order, c) /\ UNCHANGED <<mode, handler>>
    BY <1>1 DEF Connect, loop, server
  <2>2. order \in Seq(Client) /\ handler[c] = "none"
    BY <2>1 DEF TypeOK
  <2>3. \A i \in DOMAIN order' : IF i \in DOMAIN order THEN order'[i] = order[i]
                                 ELSE i = Len(order) + 1 /\ order'[i] = c
    BY <2>1, <2>2
  <2>4. \A i, j \in DOMAIN order' : i < j => i \in DOMAIN order
    BY <2>1, <2>2
  <2>5. \A d \in Client : client'[d] = "away" => handler'[d] = "none"
    BY <2>1 DEF TypeOK
  <2>6. \A i \in DOMAIN order' : client'[order'[i]] # "away"
    BY <1>0, <2>1, <2>3 DEF TypeOK
  <2>8. \A i, j \in DOMAIN order' : order'[i] = order'[j] => i = j
    <3>1. \A i \in DOMAIN order : order[i] # c
      BY <2>1
    <3>2. SUFFICES ASSUME NEW i \in DOMAIN order', NEW j \in DOMAIN order',
                          order'[i] = order'[j]
                   PROVE  i = j
      OBVIOUS
    <3>3. CASE i \in DOMAIN order /\ j \in DOMAIN order
      <4>1. order'[i] = order[i] /\ order'[j] = order[j]
        BY <2>3, <3>3
      <4> QED
        BY <3>2, <3>3, <4>1
    <3>4. CASE ~(i \in DOMAIN order /\ j \in DOMAIN order)
      BY <2>3, <3>1, <3>2, <3>4
    <3> QED
      BY <3>3, <3>4
  <2>7. ASSUME mode' = "original"
        PROVE  /\ \A d \in Client : handler'[d] # "leaked"
               /\ \A i, j \in DOMAIN order' :
                    i < j /\ handler'[order'[j]] # "none" => handler'[order'[i]] = "closed"
    BY <2>1, <2>2, <2>3, <2>4, <2>7
  <2> QED
    BY <2>5, <2>6, <2>7, <2>8
<1>2. ASSUME UNCHANGED <<mode, order, handler>>,
             \A d \in Client : client[d] # "away" <=> client'[d] # "away"
      PROVE  TurnInv'
  BY <1>0, <1>2
<1>3. ASSUME UNCHANGED <<mode, order>>, TypeOK',
             \A d \in Client : client[d] # "away" <=> client'[d] # "away",
             \A d \in Client : handler[d] = "none" <=> handler'[d] = "none",
             \A d \in Client : handler[d] = "closed" => handler'[d] = "closed",
             mode = "original" => \A d \in Client : handler'[d] # "leaked"
      PROVE  TurnInv'
  BY <1>0, <1>3
<1>4. ASSUME NEW c \in Client, SendNext(c) \/ EndStream(c)
      PROVE  TurnInv'
  <2>1. /\ UNCHANGED <<mode, order, handler>>
        /\ \A d \in Client : client[d] # "away" <=> client'[d] # "away"
    BY <1>4 DEF SendNext, EndStream, loop, server, TypeOK
  <2> QED
    BY <1>2, <2>1
<1>5. CASE Server
  <2>1. UNCHANGED <<mode, order, client>>
    BY <1>5, ServerStep DEF clients
  <2>2. CASE ProcessEnd
    <3>1. /\ \A d \in Client : handler[d] = "none" <=> handler'[d] = "none"
          /\ \A d \in Client : handler[d] = "closed" => handler'[d] = "closed"
          /\ mode = "original" => \A d \in Client : handler'[d] # "leaked"
      BY <2>2, EndState
    <3> QED
      BY <1>3, <1>5, <2>1, <3>1, TypeServer
  <2>3. CASE \E i \in DOMAIN order : Accepts(i)
    <3>1. PICK i \in DOMAIN order : Accepts(i)
      BY <2>3
    <3>0. \A j \in 1 .. (i - 1) : j \in DOMAIN order
      <4>1. i \in Nat /\ i <= Len(order) /\ DOMAIN order = 1 .. Len(order) /\ Len(order) \in Nat
        BY DEF TypeOK
      <4> QED
        BY <4>1
    <3>2. /\ order[i] \in Client /\ client[order[i]] # "away" /\ handler[order[i]] = "none"
          /\ \A j \in 1 .. (i - 1) : order[j] \in Client /\ handler[order[j]] # "none"
      BY <1>0, <3>0, <3>1 DEF Accepts, First, Backlog
    <3>3. handler' = [handler EXCEPT ![order[i]] = "read"]
      BY <3>1 DEF Accepts
    <3>4. \A d \in Client : client'[d] = "away" => handler'[d] = "none"
      BY <2>1, <3>2, <3>3 DEF TypeOK
    <3>5. ASSUME mode = "original"
          PROVE  /\ \A d \in Client : handler'[d] # "leaked"
                 /\ \A j, k \in DOMAIN order :
                      j < k /\ handler'[order[k]] # "none" => handler'[order[j]] = "closed"
      <4>1. \A d \in Client : handler[d] \in {"none", "closed"}
        BY <3>1, <3>5 DEF Accepts, Ready, TypeOK
      <4>2. SUFFICES ASSUME NEW j \in DOMAIN order, NEW k \in DOMAIN order,
                            j < k, handler'[order[k]] # "none"
                     PROVE  handler'[order[j]] = "closed"
        BY <3>3, <4>1 DEF TypeOK
      <4>3. CASE order[k] = order[i]
        <5>1. k = i
          BY <4>3
        <5>2. i \in Nat /\ j \in Nat /\ j >= 1
          <6>1. DOMAIN order = 1 .. Len(order) /\ Len(order) \in Nat
            BY DEF TypeOK
          <6> QED
            BY <6>1
        <5>3. j \in 1 .. (i - 1)
          BY <4>2, <5>1, <5>2
        <5>4. handler[order[j]] = "closed" /\ order[j] # order[i] /\ order[j] \in Client
          BY <3>2, <4>1, <5>3
        <5> QED
          BY <3>3, <5>4 DEF TypeOK
      <4>4. CASE order[k] # order[i]
        <5>1. handler[order[j]] = "closed"
          BY <1>0, <3>2, <3>3, <3>5, <4>2, <4>4 DEF TypeOK
        <5> QED
          BY <1>0, <3>2, <3>3, <5>1 DEF TypeOK
      <4> QED
        BY <4>3, <4>4
    <3> QED
      BY <2>1, <3>4, <3>5
  <2>4. CASE UNCHANGED handler
    BY <1>2, <2>1, <2>4
  <2> QED
    BY <1>5, <2>2, <2>3, <2>4, ServerStep
<1>6. ASSUME NEW c \in Client, Handler(c)
      PROVE  TurnInv'
  <2>1. Frame(c) /\ handler[c] \in {"read", "execute"} /\ UNCHANGED order
        /\ (handler'[c] \in {Done(c), "closed"} \/ handler'[c] = "execute")
    BY <1>6, HandlerStep DEF ReadStep, ExecuteStep, Finishes, GoesOn
  <2>0. \A d \in Client \ {c} : /\ client'[d] = client[d]
                               /\ \/ handler'[d] = handler[d]
                                  \/ /\ handler[d] \in {"read", "execute", "leaked"}
                                     /\ handler'[d] = "closed"
    BY <2>1 DEF Frame
  <2>4. /\ client'[c] # "away" /\ client[c] # "away"
        /\ handler'[c] \in {"closed", "leaked", "read", "execute"}
        /\ mode = "original" => handler'[c] # "leaked"
    BY <2>1, DoneState DEF Frame, Ended
  <2>2. /\ \A d \in Client : client[d] # "away" <=> client'[d] # "away"
        /\ \A d \in Client : handler[d] = "none" <=> handler'[d] = "none"
        /\ \A d \in Client : handler[d] = "closed" => handler'[d] = "closed"
        /\ mode = "original" => \A d \in Client : handler'[d] # "leaked"
    BY <2>0, <2>1, <2>4
  <2>3. mode' = mode /\ TypeOK'
    BY <1>6, <2>1, TypeHandler DEF Frame
  <2> QED
    BY <1>3, <2>1, <2>2, <2>3
<1>7. CASE Signal \/ Renew \/ Expire \/ UNCHANGED vars
  <2>1. UNCHANGED <<mode, order, handler, client>>
    BY <1>7 DEF Signal, Renew, Expire, vars, clients, server, loop
  <2> QED
    BY <1>2, <2>1
<1> QED
  BY <1>1, <1>4, <1>5, <1>6, <1>7 DEF Next, Clients

(* Every step keeps the clients that were accepted after the signal to the *)
(* one that the loop was waiting for.                                      *)
LEMMA LateNext ==
  ASSUME TypeOK, LateInv, [Next]_vars
  PROVE  LateInv'
<1> USE DEF LateInv
<1>1. CASE Server
  <2>1. CASE \E i \in DOMAIN order : Accepts(i)
    <3>1. PICK i \in DOMAIN order : Accepts(i)
      BY <2>1
    <3>2. order[i] \in Client /\ late = {}
      BY <3>1 DEF Accepts, TypeOK
    <3> QED
      BY <1>1, <3>1, <3>2, ServerStep DEF Accepts
  <2>2. CASE ProcessEnd
    BY <2>2, EndState
  <2>3. CASE /\ main' \in {"test", "leaving", "accept"} /\ UNCHANGED late
             /\ main' = "accept" => ~stop
             /\ main' = "test" => main = "accept"
    BY <1>1, <2>3, ServerStep
  <2> QED
    BY <1>1, <2>1, <2>2, <2>3, ServerStep
<1>2. ASSUME NEW c \in Client, Handler(c)
      PROVE  LateInv'
  BY <1>2, HandlerStep DEF ReadStep, ExecuteStep, Finishes, GoesOn, Frame
<1>3. CASE \/ \E c \in Client : Connect(c) \/ SendNext(c) \/ EndStream(c)
           \/ Signal \/ Renew \/ Expire \/ UNCHANGED vars
  BY <1>3 DEF Connect, SendNext, EndStream, Signal, Renew, Expire, vars, loop
<1> QED
  BY <1>1, <1>2, <1>3 DEF Next, Clients

(* The inductive invariant holds when the server starts. *)
LEMMA InvInit == Init => IInv
<1> SUFFICES ASSUME Init PROVE IInv
  OBVIOUS
<1>1. TypeOK
  BY TypeInit
<1>2. WholeInv
  BY DEF Init, WholeInv, Served
<1>3. TurnInv /\ LateInv
  BY DEF Init, TurnInv, LateInv
<1>4. ASSUME NEW c \in Client
      PROVE  ReadSoFar(c)
  <2>1. /\ data[c] = <<>> /\ executed[c] = <<>> /\ taken[c] = 0 /\ handler[c] = "none"
        /\ Len(<<>>) = 0
    BY DEF Init
  <2>2. Pieces(<<>>, Stream[c], 0)
    BY NoPieces
  <2> QED
    BY <2>1, <2>2 DEF ReadSoFar
<1> QED
  BY <1>1, <1>2, <1>3, <1>4 DEF IInv, ReadInv

(* The inductive invariant: the types, what was executed and answered for  *)
(* each client, the order of service and the loop after the signal.        *)
THEOREM Inductive == Spec => []IInv
<1>1. IInv /\ [Next]_vars => IInv'
  BY TypeNext, WholeNext, ReadNext, TurnNext, LateNext DEF IInv
<1> QED
  BY <1>1, InvInit, PTL DEF Spec

(* A connection that is read to its end is executed as one payload, once   *)
(* at most, is answered once at most, and is not echoed and executed both. *)
THEOREM Whole == Spec => []WholeStream
<1>1. IInv => WholeStream
  BY DEF IInv, WholeInv, Served, WholeStream
<1> QED
  BY <1>1, Inductive, PTL

(* One more client at most is accepted after SIGINT. *)
THEOREM OneMore == Spec => []OneMoreAfterStop
<1>1. IInv => OneMoreAfterStop
  <2>1. Cardinality({}) = 0 /\ \A c : Cardinality({c}) = 1
    BY FS_EmptySet, FS_Singleton
  <2> QED
    <3>1. ASSUME LateInv PROVE Cardinality(late) \in {0, 1}
      BY <2>1, <3>1 DEF LateInv
    <3> QED
      BY <3>1 DEF IInv, OneMoreAfterStop
<1> QED
  BY <1>1, Inductive, PTL

(* In original mode an answer is only sent when every client that          *)
(* connected before has been closed.                                       *)
THEOREM InTurn == Spec => AnsweredInTurn
<1>1. ASSUME IInv, [Next]_vars, mode = "original",
             NEW i \in DOMAIN order, NEW j \in DOMAIN order,
             i < j, answers'[order[j]] # answers[order[j]]
      PROVE  handler[order[i]] = "closed"
  <2>1. PICK c \in Client : Handler(c)
    BY <1>1 DEF Next, Clients, Connect, SendNext, EndStream, Server, Accept, AcceptFails,
       TestFlag, LeaveMain, Signal, Renew, Expire, vars, server
  <2>2. order[j] \in Client
    BY <1>1 DEF IInv, TypeOK
  <2>3. order[j] = c /\ handler[c] \in {"read", "execute"}
    BY <1>1, <2>1, <2>2, HandlerStep
    DEF IInv, ReadStep, ExecuteStep, Finishes, GoesOn, Frame
  <2> QED
    BY <1>1, <2>3 DEF IInv, TurnInv
<1>2. IInv /\ [Next]_vars =>
        [ mode = "original" =>
            \A i, j \in DOMAIN order :
              i < j /\ answers'[order[j]] # answers[order[j]]
                => handler[order[i]] = "closed" ]_answers
  BY <1>1
<1> QED
  BY <1>2, Inductive, PTL DEF Spec, AnsweredInTurn

(* In libevent mode nothing that a client sent is executed twice or out of *)
(* turn: what is executed are pieces of it, one behind the other.          *)
THEOREM Once == Spec => []ReadOnce
<1>1. IInv => ReadOnce
  <2> SUFFICES ASSUME IInv, mode = "libevent", NEW c \in Client
               PROVE  Pieces(executed[c], Stream[c], sent[c])
    BY DEF ReadOnce
  <2>1. /\ executed[c] \in Seq(Seq(Symbol)) /\ sent[c] \in Nat /\ taken[c] \in Nat
        /\ Len(data[c]) \in Nat /\ taken[c] <= sent[c]
    BY DEF IInv, TypeOK
  <2>2. ReadSoFar(c)
    BY DEF IInv, ReadInv
  <2>3. Pieces(executed[c], Stream[c], taken[c] - Len(data[c])) /\ Len(data[c]) <= taken[c]
    BY <2>2 DEF ReadSoFar
  <2>4. taken[c] - Len(data[c]) \in Nat /\ taken[c] - Len(data[c]) <= sent[c]
    BY <2>1, <2>3
  <2> QED
    BY <2>1, <2>3, <2>4, PiecesGrow
<1> QED
  BY <1>1, Inductive, PTL
================================================================================
