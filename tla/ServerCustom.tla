------------------------------ MODULE ServerCustom ------------------------------
(***************************************************************************)
(* One connection of the "custom" server mode: a client that writes        *)
(* messages and anything else on a TCP stream, and handleClientCustom,     *)
(* which cuts the stream into messages, has each one executed by the       *)
(* backend and echoes what it does not take for a message.                 *)
(*                                                                         *)
(* The stream is a sequence of symbols.  A tag is two symbols, so that a   *)
(* read() can end inside a tag; all that lies between the tags of a        *)
(* message is one symbol, the name of the message, and so is a newline or  *)
(* any other text between messages.  Offsets start at 0, as in the code,   *)
(* and the length 9 of "</isomsg>" becomes 2.                              *)
(***************************************************************************)
EXTENDS Integers, Sequences, SequencesExt

CONSTANTS
  Message,   \* the messages the client may send, each one at most once
  MaxSent,   \* bound: the number of units the client sends
  SizeT      \* bound: 2^64 in the code; beyond every length that occurs

OpenTag  == <<"<iso", "msg>">>
CloseTag == <<"</iso", "msg>">>
NewLine  == "newline"
Text     == "text"
Tags     == {"<iso", "</iso", "msg>"}

Unit   == Message \cup {NewLine, Text}
Symbol == Unit \cup Tags

ASSUME MessageAssumption == Message \cap (Tags \cup {NewLine, Text}) = {}
ASSUME BoundAssumption   == MaxSent \in Nat /\ SizeT \in Nat /\ SizeT > 5 * MaxSent

VARIABLES
  waits,     \* does the client wait for an answer before it sends again?
  sent,      \* client: the units it has sent
  wire,      \* sent and not yet read by the server
  peer,      \* the client's end: "open", "closed", or "reset" (it sent a RST)
  pc,        \* where handleClientCustom is: "closed" when the client has ended
             \* the stream, "killed" by SIGPIPE, "ended" by any other failure
  buffer,    \* message_buffer
  executed,  \* the payloads given to checkTokenAndExecute, in order
  answers,   \* what the client has been answered, in order
  cut        \* history: a read() has ended inside an opening tag

vars == <<waits, sent, wire, peer, pc, buffer, executed, answers, cut>>

Answer == [kind : {"response", "echo"}, data : Seq(Symbol)]

TypeOK ==
  /\ waits    \in BOOLEAN
  /\ sent     \in Seq(Unit)
  /\ wire     \in Seq(Symbol)
  /\ peer     \in {"open", "closed", "reset"}
  /\ pc       \in {"read", "frame", "execute", "closed", "killed", "ended"}
  /\ buffer   \in Seq(Symbol)
  /\ executed \in Seq(Seq(Symbol))
  /\ answers  \in Seq(Answer)
  /\ cut      \in BOOLEAN
  /\ pc = "execute" => executed # <<>> /\ Len(buffer) > 0

Init ==
  /\ waits \in BOOLEAN
  /\ sent = <<>> /\ wire = <<>> /\ buffer = <<>>
  /\ executed = <<>> /\ answers = <<>>
  /\ peer = "open"
  /\ pc = "read"
  /\ cut = FALSE
-----------------------------------------------------------------------------
(* Strings. *)

NPos == -1    \* std::string::npos

Find(s, tag) ==
  LET at == { i \in 0 .. Len(s) - Len(tag) : SubSeq(s, i + 1, i + Len(tag)) = tag }
  IN  IF at = {} THEN NPos ELSE CHOOSE i \in at : \A j \in at : i <= j

SubStr(s, pos, count) ==
  SubSeq(s, pos + 1, IF pos + count < Len(s) THEN pos + count ELSE Len(s))

(* Mutant: substr(start_pos), without a length. *)
MessageLengthOfRest(start, end) == SizeT - 1

(* end_pos - start_pos + 9 is computed in size_t: a closing tag in front of *)
(* the opening one makes it 0, when they touch, or huge.                   *)
MessageLength(start, end) == (end - start + Len(CloseTag)) % SizeT

CompleteMessage(s) ==
  LET start == Find(s, OpenTag)
      end   == Find(s, CloseTag)
  IN  SubStr(s, start, MessageLength(start, end))

(* Mutant: clear() instead of erase(). *)
AfterMessageCleared(s) == <<>>

(* erase(0, end_pos + 9) *)
AfterMessage(s) ==
  SubStr(s, Find(s, CloseTag) + Len(CloseTag), Len(s))

(* Mutant: a message that is not complete yet is not kept. *)
ResumableIfEmpty(s) == s = <<>>

(* empty(), or find("<isomsg>") == 0 *)
Resumable(s) == s = <<>> \/ Find(s, OpenTag) = 0

HasMessage(s) == Find(s, OpenTag) # NPos /\ Find(s, CloseTag) # NPos

RemoveNewLines(s) ==
  LET kept[i \in 0 .. Len(s)] ==
        IF i = 0 THEN <<>>
        ELSE IF s[i] = NewLine THEN kept[i - 1] ELSE Append(kept[i - 1], s[i])
  IN  kept[Len(s)]

(* ^<isomsg>.*</isomsg>$ *)
IsISO8583(s) ==
  /\ Len(s) >= Len(OpenTag) + Len(CloseTag)
  /\ IsPrefix(OpenTag, s)
  /\ IsSuffix(CloseTag, s)
-----------------------------------------------------------------------------
(* The client.  What it does when the handler is gone has no effect. *)

Handled == pc \in {"read", "frame", "execute"}

Encode(unit) ==
  IF unit \in Message THEN OpenTag \o <<unit>> \o CloseTag ELSE <<unit>>

Send(unit) ==
  /\ peer = "open" /\ Handled
  /\ Len(sent) < MaxSent
  /\ waits => Len(answers) >= Len(sent)
  /\ sent' = Append(sent, unit)
  /\ wire' = wire \o Encode(unit)
  /\ UNCHANGED <<waits, peer, pc, buffer, executed, answers, cut>>

(* The messages are alike: the client sends them in one order. *)
SendMessage ==
  /\ ~ Message \subseteq ToSet(sent)
  /\ Send(CHOOSE m \in Message \ ToSet(sent) : TRUE)

SendOther == Send(NewLine) \/ Send(Text)

Close ==
  /\ peer = "open" /\ Handled
  /\ peer' = "closed"
  /\ UNCHANGED <<waits, sent, wire, pc, buffer, executed, answers, cut>>
-----------------------------------------------------------------------------
(* handleClientCustom *)

(* send(): the client's kernel answers data for a closed socket with a     *)
(* RST, at once or later, and a send() after it raises SIGPIPE, whose      *)
(* default action ends the process.                                        *)
Reply(kind, data, next) ==
  \/ /\ peer = "open"
     /\ answers' = IF data = <<>> THEN answers
                   ELSE Append(answers, [kind |-> kind, data |-> data])
     /\ pc' = next
     /\ UNCHANGED peer
  \/ /\ peer = "closed"
     /\ peer' \in {"closed", "reset"}
     /\ pc' = next
     /\ UNCHANGED answers
  \/ /\ peer = "reset"
     /\ pc' = "killed"
     /\ UNCHANGED <<peer, answers>>

Read(n) ==
  /\ pc = "read"
  /\ peer # "reset"
  /\ n \in 1 .. Len(wire)
  /\ buffer' = buffer \o SubSeq(wire, 1, n)
  /\ wire'   = SubSeq(wire, n + 1, Len(wire))
  /\ cut'    = (cut \/ wire[n] = OpenTag[1])
  /\ pc' = "frame"
  /\ UNCHANGED <<waits, sent, peer, executed, answers>>

(* read() returns 0, or ECONNRESET after a RST: close(new_socket). *)
EndOfStream ==
  /\ pc = "read"
  /\ peer = "reset" \/ (peer = "closed" /\ wire = <<>>)
  /\ pc' = "closed"
  /\ UNCHANGED <<waits, sent, wire, peer, buffer, executed, answers, cut>>

(* The handler is over, and what it has not dealt with is gone: select()   *)
(* fails, with EINTR on the SIGINT that only sets a flag, or read() does,  *)
(* and the loop breaks; or the process ends, by exit() or an exception in  *)
(* checkTokenAndExecute or in log(), or in another thread.                 *)
HandlerEnds ==
  /\ Handled
  /\ pc' = "ended"
  /\ wire' = <<>> /\ buffer' = <<>>
  /\ UNCHANGED <<waits, sent, peer, executed, answers, cut>>

(* Mutant: the payload is not passed on. *)
ExecuteDropped ==
  /\ pc = "frame"
  /\ HasMessage(buffer)
  /\ IsISO8583(RemoveNewLines(CompleteMessage(buffer)))
  /\ pc' = "execute"
  /\ UNCHANGED <<waits, sent, wire, peer, buffer, executed, answers, cut>>

(* A round of the loop over complete messages that finds a valid one.      *)
Execute ==
  /\ pc = "frame"
  /\ HasMessage(buffer)
  /\ IsISO8583(RemoveNewLines(CompleteMessage(buffer)))
  /\ executed' = Append(executed, RemoveNewLines(CompleteMessage(buffer)))
  /\ pc' = "execute"
  /\ UNCHANGED <<waits, sent, wire, peer, buffer, answers, cut>>

(* checkTokenAndExecute has sent the backend's response, or nothing: what  *)
(* it does is another module's, here it takes time and ends (with the      *)
(* process, when HandlerEnds happens in it).                               *)
Executed ==
  /\ pc = "execute"
  /\ \/ Reply("response", Last(executed), "frame")
     \/ pc' = "frame" /\ UNCHANGED <<peer, answers>>
  /\ buffer' = AfterMessage(buffer)
  /\ UNCHANGED <<waits, sent, wire, executed, cut>>

(* A round that finds something else between the tags: it is rejected.     *)
Reject ==
  /\ pc = "frame"
  /\ HasMessage(buffer)
  /\ ~IsISO8583(RemoveNewLines(CompleteMessage(buffer)))
  /\ Reply("echo", CompleteMessage(buffer), "frame")
  /\ buffer' = AfterMessage(buffer)
  /\ UNCHANGED <<waits, sent, wire, executed, cut>>

(* After the loop: what is left stays if it begins with an opening tag,    *)
(* and is echoed and forgotten if it does not.                             *)
KeepRest ==
  /\ pc = "frame"
  /\ ~HasMessage(buffer)
  /\ Resumable(buffer)
  /\ pc' = "read"
  /\ UNCHANGED <<waits, sent, wire, peer, buffer, executed, answers, cut>>

(* Mutant: no clear() after the echo. *)
EchoRestKept ==
  /\ pc = "frame"
  /\ ~HasMessage(buffer)
  /\ ~Resumable(buffer)
  /\ Reply("echo", buffer, "read")
  /\ UNCHANGED <<waits, sent, wire, buffer, executed, cut>>

EchoRest ==
  /\ pc = "frame"
  /\ ~HasMessage(buffer)
  /\ ~Resumable(buffer)
  /\ Reply("echo", buffer, "read")
  /\ buffer' = <<>>
  /\ UNCHANGED <<waits, sent, wire, executed, cut>>

Client == SendMessage \/ SendOther \/ Close

HandleClientCustom ==
  \/ \E n \in 1 .. Len(wire) : Read(n)
  \/ EndOfStream
  \/ Execute \/ Executed \/ Reject
  \/ KeepRest \/ EchoRest

Next == Client \/ HandleClientCustom \/ HandlerEnds

Spec == Init /\ [][Next]_vars

(* The thread of the connection is scheduled and the backend answers it;   *)
(* the client owes the server nothing, and HandlerEnds need not happen.    *)
FairSpec == Spec /\ WF_vars(HandleClientCustom)
-----------------------------------------------------------------------------
(* The streams that the loop is written for: messages one right after the  *)
(* other.                                                                  *)
OnlyMessages == ToSet(sent) \subseteq Message

(* As long as no read() ends inside an opening tag, such a stream is never *)
(* lost, reordered or doubled, until a failure ends the handler: it is     *)
(* what was executed, what is being framed and what is still on the wire.  *)
StreamConserved ==
  OnlyMessages /\ ~cut /\ pc # "ended" =>
    FlattenSeq([i \in 1 .. Len(sent) |-> Encode(sent[i])]) =
      FlattenSeq(executed)
        \o (IF pc = "execute" THEN AfterMessage(buffer) ELSE buffer)
        \o wire

(* Wherever the reads end, the payloads that are executed from such a      *)
(* stream are messages of it, each one whole and by itself, in the order   *)
(* they were sent and none of them twice.                                  *)
ExecutedInOrder ==
  OnlyMessages =>
    \E pick \in [1 .. Len(executed) -> 1 .. Len(sent)] :
      /\ \A i, j \in 1 .. Len(executed) : i < j => pick[i] < pick[j]
      /\ \A i \in 1 .. Len(executed) : executed[i] = Encode(sent[pick[i]])

(* A client that waits for an answer before it sends again is answered in  *)
(* kind: the response for a message, the echo of anything else.            *)
AnsweredInKind ==
  waits /\ ~cut =>
    /\ Len(answers) <= Len(sent)
    /\ \A i \in 1 .. Len(answers) :
         answers[i] = [kind |-> IF sent[i] \in Message THEN "response" ELSE "echo",
                       data |-> Encode(sent[i])]

-----------------------------------------------------------------------------
(* What makes the three inductive. *)

(* The k-th symbol of the stream of messages s, each five symbols long.    *)
StreamAt(s, k) == Encode(s[(k - 1) \div 5 + 1])[((k - 1) % 5) + 1]

(* How much of it has left the buffer, and how much has been dealt with:   *)
(* a message that is being executed is still in the buffer.                *)
Taken == 5 * Len(sent) - Len(buffer) - Len(wire)
Done  == IF pc = "execute" THEN Taken + Find(buffer, CloseTag) + Len(CloseTag)
                           ELSE Taken

(* What is cut from the buffer is cut from its front: the buffer and the   *)
(* wire are the end of the stream.                                         *)
StreamTail ==
  /\ Len(sent) <= MaxSent
  /\ OnlyMessages =>
       /\ Taken >= 0
       /\ \A k \in 1 .. Len(buffer) : buffer[k] = StreamAt(sent, Taken + k)
       /\ \A k \in 1 .. Len(wire)   : wire[k] = StreamAt(sent, Taken + Len(buffer) + k)

(* Uncut, the buffer never ends with the first half of an opening tag.     *)
UncutEnd ==
  /\ ~cut /\ buffer # <<>> => Last(buffer) # OpenTag[1]
  /\ pc = "execute" => HasMessage(buffer)

(* The messages executed are behind what has been dealt with.              *)
PicksDone ==
  OnlyMessages =>
    \E pick \in [1 .. Len(executed) -> 1 .. Len(sent)] :
      /\ \A i, j \in 1 .. Len(executed) : i < j => pick[i] < pick[j]
      /\ \A i \in 1 .. Len(executed) :
           executed[i] = Encode(sent[pick[i]]) /\ 5 * pick[i] <= Done

(* Uncut, they are all that has been dealt with.                           *)
NoneSkipped ==
  OnlyMessages /\ ~cut /\ pc # "ended" =>
    /\ Done = 5 * Len(executed)
    /\ \A i \in 1 .. Len(executed) : executed[i] = Encode(sent[i])

(* A client that waits has at most one unit under way, the last it sent.   *)
OneUnderWay ==
  waits /\ ~cut =>
    \/ /\ Len(answers) = Len(sent)
       /\ pc # "execute" /\ buffer = <<>> /\ wire = <<>>
    \/ /\ Len(answers) + 1 = Len(sent)
       /\ \/ pc # "execute" /\ buffer = <<>> /\ wire = <<>>
          \/ buffer \o wire = Encode(Last(sent))
       /\ pc = "execute" =>
            /\ wire = <<>> /\ Last(sent) \in Message
            /\ Last(executed) = Encode(Last(sent))

(* Every message of a well-formed stream is executed in the end, however   *)
(* the reads cut the stream outside opening tags, unless the client goes   *)
(* away or a failure of select() or read(), or the end of the process, is  *)
(* the end of the handler: no message stays in the buffer of a handler     *)
(* that goes on.  (Messages stay sent, so that one which is never executed *)
(* refutes this.)                                                          *)
EveryMessageExecuted ==
  []<>( \/ \A m \in ToSet(sent) \cap Message :
             \E i \in 1 .. Len(executed) : executed[i] = Encode(m)
        \/ ~OnlyMessages \/ cut
        \/ peer # "open" \/ pc = "ended" )

(* "The server runs indefinitely until it encounters a failure in socket   *)
(* operations like bind, listen, or accept": no client stops it.           *)
RunsIndefinitely == pc # "killed"

(* "Reject if not valid": what is sent back unexecuted is no part of a     *)
(* valid message.                                                          *)
RejectsOnlyInvalid ==
  OnlyMessages => \A i \in 1 .. Len(answers) : answers[i].kind # "echo"
================================================================================
