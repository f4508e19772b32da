-------------------------- MODULE ServerCustomProofs --------------------------
(***************************************************************************)
(* What handleClientCustom makes of a stream, for any messages, any number *)
(* of them and any cut of the stream into reads.                           *)
(*                                                                         *)
(* The inductive invariant is CustomInv.  StreamTail is its core: the      *)
(* buffer and the wire are always the end of the stream, because every     *)
(* step cuts from the front only, so that a position in the buffer is a    *)
(* position in a message, and a tag in the buffer a tag of a message.      *)
(* PicksDone says that what was executed is behind that end, NoneSkipped   *)
(* that on an uncut stream it is all that is behind it, and OneUnderWay    *)
(* where the one unit is that a waiting client has sent.                   *)
(*                                                                         *)
(* The two recursive functions are handled by induction over a set of      *)
(* numbers, which the least element of a set of numbers gives.             *)
(***************************************************************************)
EXTENDS ServerCustom, WellFoundedInduction, SequenceTheorems, TLAPS

-----------------------------------------------------------------------------
(* Induction over numbers, and RemoveNewLines. *)

(* A set of natural numbers has a least one. *)
LEMMA NatMin ==
  ASSUME NEW T, T \subseteq Nat, T # {}
  PROVE  \E x \in T : \A y \in T : x <= y
<1>1. PICK x \in T : \A y \in T : <<y, x>> \notin OpToRel(<, Nat)
  BY NatLessThanWellFounded, WFMin
<1>2. ASSUME NEW y \in T
      PROVE  x <= y
  <2>1. ~(y < x)
    BY <1>1 DEF OpToRel
  <2> QED
    BY <2>1
<1> QED
  BY <1>2

(* Induction over the natural numbers, for a set instead of a predicate. *)
LEMMA NatSetInduction ==
  ASSUME NEW P, 0 \in P, \A k \in Nat : k \in P => k + 1 \in P
  PROVE  \A k \in Nat : k \in P
<1> DEFINE Bad == {k \in Nat : k \notin P}
<1>1. ASSUME Bad # {}
      PROVE  FALSE
  <2>1. PICK x \in Bad : \A y \in Bad : x <= y
    <3> HIDE DEF Bad
    <3> Bad \subseteq Nat
      BY DEF Bad
    <3> QED
      BY <1>1, NatMin
  <2>2. x - 1 \in Nat /\ x - 1 + 1 = x
    OBVIOUS
  <2>3. x - 1 \in P
    BY <2>1, <2>2
  <2> QED
    BY <2>2, <2>3
<1> QED
  BY <1>1

(* The function inside RemoveNewLines: what is kept of the first i         *)
(* symbols.                                                                *)
Kept(s) ==
  CHOOSE g : g = [i \in 0 .. Len(s) |->
                    IF i = 0 THEN <<>>
                    ELSE IF s[i] = NewLine THEN g[i - 1] ELSE Append(g[i - 1], s[i])]

KeptStep(s, g, i) ==
  IF i = 0 THEN <<>>
  ELSE IF s[i] = NewLine THEN g[i - 1] ELSE Append(g[i - 1], s[i])

(* A function that satisfies the recursion exists: by induction on the     *)
(* length of its domain.                                                   *)
LEMMA KeptExists ==
  ASSUME NEW s
  PROVE  \A n \in Nat : \E g : g = [i \in 0 .. n |-> KeptStep(s, g, i)]
<1> DEFINE P == {n \in Nat : \E g : g = [i \in 0 .. n |-> KeptStep(s, g, i)]}
<1>1. 0 \in P
  <2> DEFINE z == [i \in 0 .. 0 |-> <<>>]
  <2>1. z = [i \in 0 .. 0 |-> KeptStep(s, z, i)]
    BY DEF KeptStep
  <2> QED
    BY <2>1
<1>2. ASSUME NEW k \in Nat, k \in P
      PROVE  k + 1 \in P
  <2>1. PICK g : g = [i \in 0 .. k |-> KeptStep(s, g, i)]
    BY <1>2
  <2> DEFINE h == [i \in 0 .. k + 1 |-> KeptStep(s, g, i)]
  <2>2. \A i \in 0 .. k : h[i] = g[i]
    BY <2>1
  <2>3. ASSUME NEW i \in 0 .. k + 1
        PROVE  KeptStep(s, h, i) = KeptStep(s, g, i)
    <3> HIDE DEF h
    <3>1. i # 0 => i - 1 \in 0 .. k
      OBVIOUS
    <3> QED
      BY <2>2, <3>1 DEF KeptStep
  <2>4. h = [i \in 0 .. k + 1 |-> KeptStep(s, h, i)]
    BY <2>3
  <2> HIDE DEF h
  <2> QED
    BY <2>4
<1>3. \A k \in Nat : k \in P
  <2> HIDE DEF P
  <2> QED
    BY <1>1, <1>2, NatSetInduction
<1> QED
  BY <1>3

(* RemoveNewLines, one symbol at a time. *)
LEMMA KeptRecursion ==
  ASSUME NEW s, Len(s) \in Nat
  PROVE  /\ RemoveNewLines(s) = Kept(s)[Len(s)]
         /\ \A i \in 0 .. Len(s) : Kept(s)[i] = KeptStep(s, Kept(s), i)
<1>1. RemoveNewLines(s) = Kept(s)[Len(s)]
  BY DEF RemoveNewLines, Kept
<1>2. Kept(s) = [i \in 0 .. Len(s) |-> KeptStep(s, Kept(s), i)]
  BY KeptExists DEF Kept, KeptStep
<1> QED
  BY <1>1, <1>2

(* std::remove of the newlines yields a string again, and leaves one       *)
(* without newlines as it is.                                              *)
LEMMA KeptSymbols ==
  ASSUME NEW s \in Seq(Symbol)
  PROVE  /\ RemoveNewLines(s) \in Seq(Symbol)
         /\ (\A i \in 1 .. Len(s) : s[i] # NewLine) => RemoveNewLines(s) = s
<1> DEFINE P == {n \in Nat : n <= Len(s) =>
                   /\ Kept(s)[n] \in Seq(Symbol)
                   /\ (\A i \in 1 .. n : s[i] # NewLine) => Kept(s)[n] = SubSeq(s, 1, n)}
<1>1. 0 \in P
  <2>1. SubSeq(s, 1, 0) = <<>> /\ <<>> \in Seq(Symbol)
    OBVIOUS
  <2>2. Kept(s)[0] = <<>>
    BY KeptRecursion DEF KeptStep
  <2> QED
    BY <2>1, <2>2
<1>2. ASSUME NEW k \in Nat, k \in P
      PROVE  k + 1 \in P
  <2> SUFFICES ASSUME k + 1 <= Len(s)
               PROVE  /\ Kept(s)[k + 1] \in Seq(Symbol)
                      /\ (\A i \in 1 .. k + 1 : s[i] # NewLine) =>
                            Kept(s)[k + 1] = SubSeq(s, 1, k + 1)
    OBVIOUS
  <2>1. Kept(s)[k + 1] = IF s[k + 1] = NewLine THEN Kept(s)[k] ELSE Append(Kept(s)[k], s[k + 1])
    BY KeptRecursion DEF KeptStep
  <2>2. s[k + 1] \in Symbol /\ Append(SubSeq(s, 1, k), s[k + 1]) = SubSeq(s, 1, k + 1)
    OBVIOUS
  <2> QED
    BY <1>2, <2>1, <2>2
<1>3. \A k \in Nat : k \in P
  <2> HIDE DEF P
  <2> QED
    BY <1>1, <1>2, NatSetInduction
<1>4. Len(s) \in Nat /\ SubSeq(s, 1, Len(s)) = s
  OBVIOUS
<1>5. Len(s) \in P
  BY <1>3, <1>4
<1> QED
  BY <1>4, <1>5, KeptRecursion

-----------------------------------------------------------------------------
(* The least of a set of offsets, as Find takes it. *)
First(at) == IF at = {} THEN NPos ELSE CHOOSE i \in at : \A j \in at : i <= j

(* The tag is in s at offset i. *)
At(s, tag, i) == s[i + 1] = tag[1] /\ s[i + 2] = tag[2]

(* find() returns npos when the tag is nowhere in the string, and its      *)
(* first offset when it is somewhere.                                      *)
LEMMA FindFirst ==
  ASSUME NEW s \in Seq(Symbol), NEW tag \in {OpenTag, CloseTag}
  PROVE  \/ /\ Find(s, tag) = NPos
            /\ \A i \in 0 .. Len(s) - 2 : ~At(s, tag, i)
         \/ /\ Find(s, tag) \in 0 .. Len(s) - 2
            /\ At(s, tag, Find(s, tag))
            /\ \A i \in 0 .. Len(s) - 2 : At(s, tag, i) => Find(s, tag) <= i
<1> DEFINE at == { i \in 0 .. Len(s) - 2 : At(s, tag, i) }
<1>1. Len(tag) = 2 /\ Len(s) \in Nat
  BY DEF OpenTag, CloseTag
<1>2. ASSUME NEW i \in 0 .. Len(s) - 2
      PROVE  SubSeq(s, i + 1, i + 2) = tag <=> At(s, tag, i)
  <2>1. /\ SubSeq(s, i + 1, i + 2) \in Seq(Symbol) /\ Len(SubSeq(s, i + 1, i + 2)) = 2
        /\ SubSeq(s, i + 1, i + 2)[1] = s[i + 1] /\ SubSeq(s, i + 1, i + 2)[2] = s[i + 2]
    OBVIOUS
  <2> QED
    BY <2>1 DEF OpenTag, CloseTag, At
<1>3. at = { i \in 0 .. Len(s) - Len(tag) : SubSeq(s, i + 1, i + Len(tag)) = tag }
  BY <1>1, <1>2
<1>4. Find(s, tag) = First(at)
  <2>1. Find(s, tag) =
          First({ i \in 0 .. Len(s) - Len(tag) : SubSeq(s, i + 1, i + Len(tag)) = tag })
    BY DEF Find, First
  <2> QED
    BY <1>3, <2>1
<1>5. CASE at = {}
  BY <1>4, <1>5 DEF First
<1>6. CASE at # {}
  <2>1. \E i \in at : \A j \in at : i <= j
    <3>1. at \subseteq Nat
      OBVIOUS
    <3> HIDE DEF at
    <3> QED
      BY <1>6, <3>1, NatMin
  <2>2. Find(s, tag) \in at /\ \A j \in at : Find(s, tag) <= j
    <3> HIDE DEF at
    <3> QED
      BY <1>4, <1>6, <2>1 DEF First
  <2> QED
    BY <2>2
<1> QED
  BY <1>5, <1>6
-----------------------------------------------------------------------------
(* Strings: what the operations on the buffer return. *)

(* substr(pos, count) is the count symbols from pos on, or all there are. *)
LEMMA SubStrIs ==
  ASSUME NEW s \in Seq(Symbol), NEW pos \in Nat, NEW count \in Nat, pos <= Len(s)
  PROVE  /\ SubStr(s, pos, count) \in Seq(Symbol)
         /\ Len(SubStr(s, pos, count)) = IF pos + count < Len(s) THEN count ELSE Len(s) - pos
         /\ \A i \in 1 .. Len(SubStr(s, pos, count)) : SubStr(s, pos, count)[i] = s[pos + i]
<1> DEFINE m == IF pos + count < Len(s) THEN pos + count ELSE Len(s)
<1>1. Len(s) \in Nat /\ \A i \in 1 .. Len(s) : s[i] \in Symbol
  OBVIOUS
<1>2. /\ m \in Nat /\ pos <= m /\ m <= Len(s)
      /\ m - pos = IF pos + count < Len(s) THEN count ELSE Len(s) - pos
  BY <1>1
<1>3. SubStr(s, pos, count) = SubSeq(s, pos + 1, m)
  BY DEF SubStr
<1> HIDE DEF m
<1>4. pos + 1 \in Int /\ m \in Int /\ \A i \in pos + 1 .. m : s[i] \in Symbol
  BY <1>1, <1>2
<1> DEFINE sub == SubSeq(s, pos + 1, m)
<1>5. /\ sub \in Seq(Symbol)
      /\ Len(sub) = IF pos + 1 <= m THEN m - (pos + 1) + 1 ELSE 0
      /\ \A i \in 1 .. m - (pos + 1) + 1 : sub[i] = s[pos + 1 + i - 1]
  BY <1>4, SubSeqProperties
<1> HIDE DEF sub
<1>6. Len(sub) = m - pos
  BY <1>2, <1>5
<1>7. \A i \in 1 .. Len(sub) : sub[i] = s[pos + i]
  <2>1. ASSUME NEW i \in 1 .. Len(sub)
        PROVE  sub[i] = s[pos + i]
    <3>1. i \in 1 .. m - (pos + 1) + 1 /\ pos + 1 + i - 1 = pos + i
      BY <1>2, <1>6
    <3> QED
      BY <1>5, <3>1
  <2> QED
    BY <2>1
<1> QED
  BY <1>2, <1>3, <1>5, <1>6, <1>7 DEF sub

(* What is appended to a string follows it, and leaves it as it is. *)
LEMMA ConcatParts ==
  ASSUME NEW s \in Seq(Symbol), NEW w \in Seq(Symbol)
  PROVE  /\ Len(s \o w) = Len(s) + Len(w)
         /\ \A k \in 1 .. Len(s) : (s \o w)[k] = s[k]
         /\ \A k \in 1 .. Len(w) : (s \o w)[Len(s) + k] = w[k]
<1> DEFINE S == Symbol
           m == Len(s)
           n == Len(w)
           c == s \o w
<1>1. s \in Seq(S) /\ w \in Seq(S) /\ m \in Nat /\ n \in Nat
  OBVIOUS
<1> HIDE DEF S
<1>2. /\ Len(c) = m + n
      /\ \A i \in 1 .. m + n : c[i] = IF i <= m THEN s[i] ELSE w[i - m]
  BY <1>1, ConcatProperties
<1> HIDE DEF m, n, c
<1>3. \A k \in 1 .. m : c[k] = s[k]
  BY <1>1, <1>2
<1>4. ASSUME NEW k \in 1 .. n
      PROVE  c[m + k] = w[k]
  <2>1. m + k \in 1 .. m + n /\ ~(m + k <= m) /\ (m + k) - m = k
    BY <1>1
  <2> QED
    BY <1>2, <2>1
<1> QED
  BY <1>2, <1>3, <1>4 DEF m, n, c

(* Both tags are two symbols. *)
LEMMA CloseTagLength == Len(CloseTag) = 2 /\ Len(OpenTag) = 2
BY DEF CloseTag, OpenTag

(* erase(0, end_pos + 9) leaves what is behind the first closing tag,      *)
(* also when there is none and end_pos is npos.                            *)
LEMMA AfterMessageIs ==
  ASSUME NEW s \in Seq(Symbol), Len(s) > 0
  PROVE  /\ AfterMessage(s) \in Seq(Symbol)
         /\ Len(AfterMessage(s)) = Len(s) - (Find(s, CloseTag) + 2)
         /\ \A i \in 1 .. Len(AfterMessage(s)) :
              AfterMessage(s)[i] = s[Find(s, CloseTag) + 2 + i]
<1>1. Find(s, CloseTag) \in -1 .. Len(s) - 2 /\ Len(s) \in Nat
  BY FindFirst DEF NPos
<1>2. Find(s, CloseTag) + 2 \in Nat /\ Find(s, CloseTag) + 2 <= Len(s)
  BY <1>1
<1>3. AfterMessage(s) = SubStr(s, Find(s, CloseTag) + 2, Len(s))
  BY CloseTagLength DEF AfterMessage
<1> DEFINE p == Find(s, CloseTag) + 2
<1>4. /\ SubStr(s, p, Len(s)) \in Seq(Symbol)
      /\ Len(SubStr(s, p, Len(s))) = IF p + Len(s) < Len(s) THEN Len(s) ELSE Len(s) - p
      /\ \A i \in 1 .. Len(SubStr(s, p, Len(s))) : SubStr(s, p, Len(s))[i] = s[p + i]
  <2> HIDE DEF p
  <2> QED
    BY <1>1, <1>2, SubStrIs DEF p
<1>5. ~(p + Len(s) < Len(s))
  BY <1>1
<1> QED
  BY <1>3, <1>4, <1>5

(* The length of complete_message, computed in size_t: five symbols for a  *)
(* message, and none when a closing tag is right in front of the opening   *)
(* one.                                                                    *)
LEMMA MessageLengthIs ==
  ASSUME NEW start \in Nat, NEW end \in Nat
  PROVE  /\ MessageLength(start, end) \in Nat
         /\ end = start + 3 /\ 5 < SizeT => MessageLength(start, end) = 5
         /\ start = end + 2 => MessageLength(start, end) = 0
<1>1. MessageLength(start, end) = (end - start + 2) % SizeT /\ SizeT \in Nat \ {0}
  BY BoundAssumption, CloseTagLength DEF MessageLength
<1>2. MessageLength(start, end) \in Nat
  BY <1>1
<1>3. ASSUME end = start + 3, 5 < SizeT
      PROVE  MessageLength(start, end) = 5
  <2>1. end - start + 2 = 5
    BY <1>3
  <2> QED
    BY <1>1, <1>3, <2>1
<1>4. ASSUME start = end + 2
      PROVE  MessageLength(start, end) = 0
  <2>1. end - start + 2 = 0
    BY <1>4
  <2> QED
    BY <1>1, <2>1
<1> QED
  BY <1>2, <1>3, <1>4

(* complete_message is a part of the buffer that begins at its first       *)
(* opening tag.                                                            *)
LEMMA CompleteMessageIs ==
  ASSUME NEW s \in Seq(Symbol), HasMessage(s)
  PROVE  /\ CompleteMessage(s) \in Seq(Symbol)
         /\ CompleteMessage(s) = SubStr(s, Find(s, OpenTag),
                                   MessageLength(Find(s, OpenTag), Find(s, CloseTag)))
         /\ Find(s, OpenTag) \in 0 .. Len(s) - 2
         /\ Find(s, CloseTag) \in 0 .. Len(s) - 2
         /\ Len(s) \in Nat
<1>1. Find(s, CloseTag) \in 0 .. Len(s) - 2 /\ Find(s, OpenTag) \in 0 .. Len(s) - 2
  BY FindFirst DEF HasMessage
<1>2. Len(s) \in Nat /\ Find(s, CloseTag) \in Nat /\ Find(s, OpenTag) \in Nat /\ Find(s, OpenTag) <= Len(s)
  BY <1>1
<1>3. MessageLength(Find(s, OpenTag), Find(s, CloseTag)) \in Nat
  BY <1>2, MessageLengthIs
<1>4. CompleteMessage(s) = SubStr(s, Find(s, OpenTag),
                                   MessageLength(Find(s, OpenTag), Find(s, CloseTag)))
  BY DEF CompleteMessage
<1> QED
  BY <1>1, <1>2, <1>3, <1>4, SubStrIs

(* What a unit of the client is on the stream, symbol by symbol. *)
LEMMA EncodeIs ==
  ASSUME NEW u \in Unit
  PROVE  /\ Encode(u) \in Seq(Symbol)
         /\ u \in Message =>
              /\ Len(Encode(u)) = 5
              /\ Encode(u)[1] = "<iso" /\ Encode(u)[2] = "msg>" /\ Encode(u)[3] = u
              /\ Encode(u)[4] = "</iso" /\ Encode(u)[5] = "msg>"
         /\ u \notin Message => Encode(u) = <<u>>
<1>1. CASE u \in Message
  <2> DEFINE a == OpenTag \o <<u>>
  <2>1. /\ a \in Seq(Symbol) /\ Len(a) = 3
        /\ a[1] = "<iso" /\ a[2] = "msg>" /\ a[3] = u
    BY DEF OpenTag, Unit, Symbol, Tags
  <2> HIDE DEF a
  <2>2. /\ a \o CloseTag \in Seq(Symbol) /\ Len(a \o CloseTag) = 5
        /\ (a \o CloseTag)[1] = "<iso" /\ (a \o CloseTag)[2] = "msg>"
        /\ (a \o CloseTag)[3] = u
        /\ (a \o CloseTag)[4] = "</iso" /\ (a \o CloseTag)[5] = "msg>"
    <3>1. /\ CloseTag \in Seq(Symbol) /\ Len(CloseTag) = 2
          /\ CloseTag[1] = "</iso" /\ CloseTag[2] = "msg>"
      BY DEF CloseTag, Symbol, Tags
    <3>2. /\ a \o CloseTag \in Seq(Symbol)
          /\ Len(a \o CloseTag) = Len(a) + Len(CloseTag)
          /\ \A i \in 1 .. Len(a) + Len(CloseTag) :
               (a \o CloseTag)[i] = IF i <= Len(a) THEN a[i] ELSE CloseTag[i - Len(a)]
      BY <2>1, <3>1, ConcatProperties, Zenon
    <3> QED
      BY <2>1, <3>1, <3>2
  <2>3. Encode(u) = a \o CloseTag
    BY <1>1 DEF Encode, a
  <2> QED
    BY <1>1, <2>2, <2>3
<1>2. CASE u \notin Message
  BY <1>2 DEF Encode, Symbol
<1> QED
  BY <1>1, <1>2
-----------------------------------------------------------------------------
(* Types. *)

(* What the client sends is a unit. *)
LEMMA ClientSends ==
  ASSUME Client
  PROVE  Close \/ \E u \in Unit : Send(u)
<1>1. CASE SendMessage
  <2>1. (CHOOSE m \in Message \ ToSet(sent) : TRUE) \in Message
    BY <1>1 DEF SendMessage
  <2> QED
    BY <1>1, <2>1 DEF SendMessage, Unit
<1>2. CASE SendOther \/ Close
  BY <1>2 DEF SendOther, Unit
<1> QED
  BY <1>1, <1>2 DEF Client

(* What a send() of handleClientCustom can do to the client and to the     *)
(* thread.                                                                 *)
LEMMA ReplyIs ==
  ASSUME TypeOK, NEW kind \in {"response", "echo"}, NEW data \in Seq(Symbol), NEW next,
         Reply(kind, data, next)
  PROVE  /\ peer' \in {"open", "closed", "reset"} /\ answers' \in Seq(Answer)
         /\ pc' \in {next, "killed"}
         /\ peer = "open" =>
              /\ peer' = "open" /\ pc' = next
              /\ answers' = IF data = <<>> THEN answers
                            ELSE Append(answers, [kind |-> kind, data |-> data])
         /\ peer # "open" => answers' = answers /\ peer' # "open"
<1>1. [kind |-> kind, data |-> data] \in Answer
  BY DEF Answer
<1>2. Append(answers, [kind |-> kind, data |-> data]) \in Seq(Answer)
  BY <1>1, AppendProperties DEF TypeOK
<1>3. peer \in {"open", "closed", "reset"} /\ answers \in Seq(Answer)
  BY DEF TypeOK
<1> QED
  BY <1>2, <1>3 DEF Reply

(* The first state has the right types. *)
LEMMA TypesInit == Init => TypeOK
<1>1. /\ <<>> \in Seq(Unit) /\ <<>> \in Seq(Symbol)
      /\ <<>> \in Seq(Seq(Symbol)) /\ <<>> \in Seq(Answer)
  BY EmptySeq
<1> QED
  BY <1>1 DEF Init, TypeOK

(* Every step of the client and of handleClientCustom keeps the types; a   *)
(* message that is being executed has been recorded, and is still in the   *)
(* buffer.                                                                 *)
LEMMA TypesNext == TypeOK /\ [Next]_vars => TypeOK'
<1> SUFFICES ASSUME TypeOK, [Next]_vars
             PROVE  TypeOK'
  OBVIOUS
<1>1. CASE Client
  <2>1. ASSUME NEW u \in Unit, Send(u)
        PROVE  TypeOK'
    <3>1. wire \o Encode(u) \in Seq(Symbol) /\ Append(sent, u) \in Seq(Unit)
      BY EncodeIs DEF TypeOK
    <3> QED
      BY <2>1, <3>1 DEF Send, TypeOK
  <2>2. CASE Close
    BY <2>2 DEF Close, TypeOK
  <2> QED
    BY <1>1, <2>1, <2>2, ClientSends
<1>2. ASSUME NEW n \in 1 .. Len(wire), Read(n)
      PROVE  TypeOK'
  <2>1. /\ SubSeq(wire, 1, n) \in Seq(Symbol)
        /\ SubSeq(wire, n + 1, Len(wire)) \in Seq(Symbol)
    BY DEF TypeOK
  <2>2. buffer \o SubSeq(wire, 1, n) \in Seq(Symbol)
    BY <2>1 DEF TypeOK
  <2> QED
    BY <1>2, <2>1, <2>2 DEF Read, TypeOK
<1>3. CASE EndOfStream \/ KeepRest
  BY <1>3 DEF EndOfStream, KeepRest, TypeOK
<1>4. CASE Execute
  <2>1. HasMessage(buffer) /\ buffer \in Seq(Symbol)
    BY <1>4 DEF Execute, TypeOK
  <2>2. Len(buffer) > 0 /\ CompleteMessage(buffer) \in Seq(Symbol)
    BY <2>1, CompleteMessageIs
  <2>3. RemoveNewLines(CompleteMessage(buffer)) \in Seq(Symbol)
    BY <2>2, KeptSymbols
  <2> DEFINE p == RemoveNewLines(CompleteMessage(buffer))
  <2>4. Append(executed, p) \in Seq(Seq(Symbol)) /\ Append(executed, p) # <<>>
    <3> HIDE DEF p
    <3> DEFINE S == Seq(Symbol)
    <3>1. executed \in Seq(S) /\ p \in S
      BY <2>3 DEF TypeOK, p
    <3> HIDE DEF S
    <3>2. /\ Append(executed, p) \in Seq(S)
          /\ Append(executed, p) # <<>>
      BY <3>1, AppendProperties
    <3> QED
      BY <3>2 DEF S
  <2> QED
    BY <1>4, <2>2, <2>4 DEF Execute, TypeOK
<1>5. CASE Executed
  <2>1. Last(executed) \in Seq(Symbol)
    BY <1>5 DEF Executed, TypeOK, Last
  <2>2. AfterMessage(buffer) \in Seq(Symbol)
    BY <1>5, AfterMessageIs DEF Executed, TypeOK
  <2>3. pc' \in {"frame", "killed"} /\ answers' \in Seq(Answer) /\ peer' \in {"open", "closed", "reset"}
    <3>1. CASE Reply("response", Last(executed), "frame")
      BY <2>1, <3>1, ReplyIs
    <3>2. CASE pc' = "frame" /\ UNCHANGED <<peer, answers>>
      BY <3>2 DEF TypeOK
    <3> QED
      BY <1>5, <3>1, <3>2 DEF Executed
  <2> QED
    BY <1>5, <2>2, <2>3 DEF Executed, TypeOK
<1>6. CASE Reject
  <2>1. HasMessage(buffer) /\ buffer \in Seq(Symbol)
    BY <1>6 DEF Reject, TypeOK
  <2>2. CompleteMessage(buffer) \in Seq(Symbol) /\ Len(buffer) > 0
    BY <2>1, CompleteMessageIs
  <2>3. AfterMessage(buffer) \in Seq(Symbol)
    BY <2>1, <2>2, AfterMessageIs
  <2>4. pc' \in {"frame", "killed"} /\ answers' \in Seq(Answer) /\ peer' \in {"open", "closed", "reset"}
    BY <1>6, <2>2, ReplyIs DEF Reject
  <2> QED
    BY <1>6, <2>3, <2>4 DEF Reject, TypeOK
<1>7. CASE EchoRest
  <2>1. buffer \in Seq(Symbol) /\ <<>> \in Seq(Symbol)
    BY EmptySeq DEF TypeOK
  <2>2. pc' \in {"read", "killed"} /\ answers' \in Seq(Answer) /\ peer' \in {"open", "closed", "reset"}
    BY <1>7, <2>1, ReplyIs DEF EchoRest
  <2> QED
    BY <1>7, <2>1, <2>2 DEF EchoRest, TypeOK
<1>8. CASE UNCHANGED vars
  BY <1>8 DEF vars, TypeOK
<1>9. CASE HandlerEnds
  <2>1. <<>> \in Seq(Symbol)
    BY EmptySeq
  <2> QED
    BY <1>9, <2>1 DEF HandlerEnds, TypeOK
<1> QED
  BY <1>1, <1>2, <1>3, <1>4, <1>5, <1>6, <1>7, <1>8, <1>9 DEF Next, HandleClientCustom

(* The state of a connection stays in its types, for any messages and any  *)
(* number of units sent.                                                   *)
THEOREM Types == Spec => []TypeOK
<1> QED
  BY TypesInit, TypesNext, PTL DEF Spec
-----------------------------------------------------------------------------
(* Where the tags are in a stream of messages. *)

(* The stream of messages, symbol by symbol: the position in a message     *)
(* tells which symbol it is.                                               *)
LEMMA StreamSymbols ==
  ASSUME TypeOK, OnlyMessages, NEW k \in 1 .. 5 * Len(sent)
  PROVE  /\ (k - 1) \div 5 + 1 \in 1 .. Len(sent)
         /\ sent[(k - 1) \div 5 + 1] \in Message
         /\ StreamAt(sent, k) =
              IF (k - 1) % 5 = 0 THEN "<iso"
              ELSE IF (k - 1) % 5 = 2 THEN sent[(k - 1) \div 5 + 1]
              ELSE IF (k - 1) % 5 = 3 THEN "</iso"
              ELSE "msg>"
<1> DEFINE i == (k - 1) \div 5 + 1
           r == (k - 1) % 5
<1>1. Len(sent) \in Nat
  BY DEF TypeOK
<1>2. i \in 1 .. Len(sent) /\ r \in 0 .. 4
  BY <1>1
<1>3. StreamAt(sent, k) = Encode(sent[i])[r + 1]
  BY DEF StreamAt
<1> HIDE DEF i, r
<1>4. sent[i] \in Message
  BY <1>2 DEF OnlyMessages, ToSet, TypeOK
<1>5. /\ Encode(sent[i])[1] = "<iso" /\ Encode(sent[i])[2] = "msg>"
      /\ Encode(sent[i])[3] = sent[i]
      /\ Encode(sent[i])[4] = "</iso" /\ Encode(sent[i])[5] = "msg>"
  BY <1>4, EncodeIs DEF Unit
<1>6. StreamAt(sent, k) = IF r = 0 THEN "<iso" ELSE IF r = 2 THEN sent[i]
                    ELSE IF r = 3 THEN "</iso" ELSE "msg>"
  BY <1>2, <1>3, <1>5
<1> QED
  BY <1>2, <1>4, <1>6 DEF i, r

(* In a stream of messages the tags are where they belong. *)
LEMMA TagsAt ==
  ASSUME TypeOK, OnlyMessages, StreamTail, NEW i \in 0 .. Len(buffer) - 2
  PROVE  /\ Taken + i \in Nat /\ Taken + i + 2 <= 5 * Len(sent)
         /\ At(buffer, OpenTag, i) <=> (Taken + i) % 5 = 0
         /\ At(buffer, CloseTag, i) <=> (Taken + i) % 5 = 3
<1>1. /\ Len(buffer) \in Nat /\ Len(wire) \in Nat /\ Len(sent) \in Nat /\ Taken \in Nat
      /\ Taken + Len(buffer) <= 5 * Len(sent)
  BY DEF TypeOK, StreamTail, Taken
<1>2. buffer[i + 1] = StreamAt(sent, Taken + i + 1) /\ buffer[i + 2] = StreamAt(sent, Taken + i + 2)
  <2>1. /\ i + 1 \in 1 .. Len(buffer) /\ i + 2 \in 1 .. Len(buffer)
        /\ Taken + (i + 1) = Taken + i + 1 /\ Taken + (i + 2) = Taken + i + 2
    BY <1>1
  <2>2. \A k \in 1 .. Len(buffer) : buffer[k] = StreamAt(sent, Taken + k)
    BY DEF StreamTail
  <2> QED
    BY <2>1, <2>2
<1> DEFINE p == Taken + i
<1>3. p \in Nat /\ p + 2 <= 5 * Len(sent) /\ p + 1 \in 1 .. 5 * Len(sent) /\ p + 2 \in 1 .. 5 * Len(sent)
  BY <1>1
<1> HIDE DEF p
<1>4. \A m \in Message : m \notin {"<iso", "</iso", "msg>"}
  BY MessageAssumption DEF Tags
<1>5. /\ StreamAt(sent, p + 1) = "<iso" <=> p % 5 = 0
      /\ StreamAt(sent, p + 1) = "</iso" <=> p % 5 = 3
  <2>1. p + 1 - 1 = p
    BY <1>3
  <2> QED
    BY <1>3, <1>4, <2>1, StreamSymbols
<1>6. StreamAt(sent, p + 2) = "msg>" <=> p % 5 = 0 \/ p % 5 = 3
  <2>1. p + 2 - 1 = p + 1
    BY <1>3
  <2>2. (p + 1) % 5 \notin {0, 2, 3} <=> p % 5 = 0 \/ p % 5 = 3
    BY <1>3
  <2> QED
    BY <1>3, <1>4, <2>1, <2>2, StreamSymbols
<1> QED
  BY <1>2, <1>3, <1>5, <1>6 DEF At, OpenTag, CloseTag, p

(* The first tags of the buffer, and what handleClientCustom cuts out.     *)
LEMMA FirstMessage ==
  ASSUME TypeOK, OnlyMessages, StreamTail, HasMessage(buffer)
  PROVE  LET start == Find(buffer, OpenTag)
             end   == Find(buffer, CloseTag)
         IN  /\ start \in 0 .. Len(buffer) - 2 /\ end \in 0 .. Len(buffer) - 2
             /\ (Taken + end) % 5 = 3
             /\ \/ /\ end < start
                   /\ CompleteMessage(buffer) = <<>>
                \/ /\ end = start + 3 /\ (Taken + start) % 5 = 0
                   /\ CompleteMessage(buffer) = Encode(sent[(Taken + start) \div 5 + 1])
                   /\ (Taken + start) \div 5 + 1 \in 1 .. Len(sent)
<1> DEFINE start == Find(buffer, OpenTag)
           end   == Find(buffer, CloseTag)
<1>0. buffer \in Seq(Symbol) /\ Len(buffer) \in Nat /\ Len(sent) \in Nat /\ Taken \in Int
  BY DEF TypeOK, Taken
<1>1. /\ start \in 0 .. Len(buffer) - 2 /\ end \in 0 .. Len(buffer) - 2
      /\ At(buffer, OpenTag, start) /\ At(buffer, CloseTag, end)
      /\ \A i \in 0 .. Len(buffer) - 2 : At(buffer, OpenTag, i) => start <= i
      /\ \A i \in 0 .. Len(buffer) - 2 : At(buffer, CloseTag, i) => end <= i
  BY <1>0, FindFirst DEF HasMessage
<1>2. CompleteMessage(buffer) = SubStr(buffer, start, MessageLength(start, end))
  BY <1>0, CompleteMessageIs
<1> HIDE DEF start, end
<1>3. /\ (Taken + start) % 5 = 0 /\ (Taken + end) % 5 = 3
      /\ Taken + start \in Nat /\ Taken + start + 2 <= 5 * Len(sent)
  BY <1>1, TagsAt
<1>4. start \in Nat /\ end \in Nat /\ start <= Len(buffer)
  BY <1>0, <1>1
<1>5. CASE end < start
  <2>1. end + 2 \in 0 .. Len(buffer) - 2 /\ (Taken + (end + 2)) % 5 = 0
    BY <1>0, <1>1, <1>3, <1>4, <1>5
  <2>2. start = end + 2
    <3>1. start <= end + 2
      BY <1>1, <2>1, TagsAt
    <3> QED
      BY <1>0, <1>3, <1>4, <1>5, <3>1
  <2>3. MessageLength(start, end) = 0
    BY <1>4, <2>2, MessageLengthIs
  <2>4. SubStr(buffer, start, 0) \in Seq(Symbol) /\ Len(SubStr(buffer, start, 0)) = 0
    <3>1. /\ SubStr(buffer, start, 0) \in Seq(Symbol)
          /\ Len(SubStr(buffer, start, 0)) =
               IF start + 0 < Len(buffer) THEN 0 ELSE Len(buffer) - start
      BY <1>0, <1>4, SubStrIs
    <3> QED
      BY <1>0, <1>1, <1>4, <3>1
  <2>5. CompleteMessage(buffer) = <<>>
    BY <1>2, <2>3, <2>4
  <2> QED
    BY <1>1, <1>3, <1>5, <2>5 DEF start, end
<1>6. CASE ~(end < start)
  <2>1. start + 3 <= end
    BY <1>0, <1>3, <1>4, <1>6
  <2>2. start + 3 \in 0 .. Len(buffer) - 2 /\ (Taken + (start + 3)) % 5 = 3
    BY <1>0, <1>1, <1>3, <1>4, <2>1
  <2>3. end = start + 3
    BY <1>1, <1>4, <2>1, <2>2, TagsAt
  <2> DEFINE q == (Taken + start) \div 5 + 1
  <2>4. /\ q \in Nat /\ 5 * (q - 1) = Taken + start /\ q \in 1 .. Len(sent) /\ Len(sent) > 0
    BY <1>0, <1>3
  <2>5. MessageLength(start, end) = 5
    <3>1. 5 < SizeT
      BY <2>4, <1>0, BoundAssumption DEF StreamTail
    <3> QED
      BY <1>4, <2>3, <3>1, MessageLengthIs
  <2>6. /\ SubStr(buffer, start, 5) \in Seq(Symbol)
        /\ Len(SubStr(buffer, start, 5)) = 5
        /\ \A j \in 1 .. 5 : SubStr(buffer, start, 5)[j] = buffer[start + j]
    <3>1. start + 5 <= Len(buffer)
      BY <1>0, <1>1, <1>4, <2>3
    <3> DEFINE sub == SubStr(buffer, start, 5)
    <3>2. /\ sub \in Seq(Symbol)
          /\ Len(sub) = IF start + 5 < Len(buffer) THEN 5 ELSE Len(buffer) - start
          /\ \A j \in 1 .. Len(sub) : sub[j] = buffer[start + j]
      BY <1>0, <1>4, 5 \in Nat, SubStrIs, Zenon
    <3> HIDE DEF sub
    <3>3. Len(sub) = 5
      BY <1>0, <1>4, <3>1, <3>2
    <3>4. sub \in Seq(Symbol) /\ Len(sub) = 5 /\ \A j \in 1 .. 5 : sub[j] = buffer[start + j]
      BY <3>2, <3>3
    <3> QED
      BY <3>4 DEF sub
  <2> HIDE DEF q
  <2>7. ASSUME NEW j \in 1 .. 5
        PROVE  buffer[start + j] = Encode(sent[q])[j]
    <3>1. buffer[start + j] = StreamAt(sent, Taken + (start + j))
      BY <1>0, <1>1, <1>4, <2>3 DEF StreamTail
    <3>2. /\ ((Taken + (start + j)) - 1) \div 5 + 1 = q
          /\ (((Taken + (start + j)) - 1) % 5) + 1 = j
      BY <1>0, <1>3, <1>4, <2>4
    <3>3. StreamAt(sent, Taken + (start + j)) =
            Encode(sent[((Taken + (start + j)) - 1) \div 5 + 1])
              [(((Taken + (start + j)) - 1) % 5) + 1]
      BY DEF StreamAt
    <3> QED
      BY <3>1, <3>2, <3>3, Zenon
  <2>8. sent[q] \in Message /\ Encode(sent[q]) \in Seq(Symbol) /\ Len(Encode(sent[q])) = 5
    <3>1. sent[q] \in Message
      BY <2>4 DEF OnlyMessages, ToSet, TypeOK
    <3> QED
      BY <3>1, EncodeIs DEF Unit
  <2>9. CompleteMessage(buffer) = Encode(sent[q])
    BY <1>2, <2>5, <2>6, <2>7, <2>8
  <2> QED
    BY <1>1, <1>3, <2>3, <2>4, <2>9 DEF start, end, q
<1> QED
  BY <1>5, <1>6
-----------------------------------------------------------------------------
(* Messages are valid; sending and reading. *)

(* A message is taken for one, an empty payload is not. *)
LEMMA MessageValid ==
  ASSUME NEW m \in Message
  PROVE  /\ RemoveNewLines(Encode(m)) = Encode(m) /\ IsISO8583(Encode(m))
         /\ Encode(m) # <<>>
<1> DEFINE e == Encode(m)
<1>1. /\ e \in Seq(Symbol) /\ Len(e) = 5
      /\ e[1] = "<iso" /\ e[2] = "msg>" /\ e[3] = m /\ e[4] = "</iso" /\ e[5] = "msg>"
  BY EncodeIs DEF Unit
<1> HIDE DEF e
<1>2. RemoveNewLines(e) = e
  <2>1. m # NewLine
    BY MessageAssumption
  <2>2. \A i \in 1 .. Len(e) : e[i] # NewLine
    BY <1>1, <2>1 DEF NewLine
  <2> QED
    BY <1>1, <2>2, KeptSymbols
<1>3. IsPrefix(OpenTag, e)
  <2> DEFINE o == OpenTag
  <2>1. Len(o) = 2 /\ o[1] = "<iso" /\ o[2] = "msg>" /\ o \in Seq(Symbol)
    BY DEF OpenTag, Symbol, Tags
  <2> HIDE DEF o
  <2>2. SubSeq(o, 1, 2) = SubSeq(e, 1, 2)
    BY <1>1, <2>1
  <2>3. IsPrefix(o, e)
    BY <1>1, <2>1, <2>2 DEF IsPrefix
  <2> QED
    BY <2>3 DEF o
<1>4. IsSuffix(CloseTag, e)
  <2> DEFINE c == Reverse(CloseTag)
             r == Reverse(e)
  <2>1. Len(c) = 2 /\ c[1] = "msg>" /\ c[2] = "</iso" /\ c \in Seq(Symbol)
    BY CloseTagLength DEF Reverse, CloseTag, Symbol, Tags
  <2>2. Len(r) = 5 /\ r[1] = "msg>" /\ r[2] = "</iso" /\ r \in Seq(Symbol)
    BY <1>1 DEF Reverse
  <2> HIDE DEF c, r
  <2>3. SubSeq(c, 1, 2) = SubSeq(r, 1, 2)
    BY <2>1, <2>2
  <2>4. IsPrefix(c, r)
    BY <2>1, <2>2, <2>3 DEF IsPrefix
  <2> QED
    BY <2>4 DEF IsSuffix, c, r
<1>5. e # <<>>
  BY <1>1, EmptySeq
<1> QED
  BY <1>1, <1>2, <1>3, <1>4, <1>5, CloseTagLength DEF IsISO8583, e

(* isISO8583 rejects the empty payload. *)
LEMMA EmptyInvalid == ~IsISO8583(RemoveNewLines(<<>>))
<1>1. RemoveNewLines(<<>>) = <<>>
  <2>1. <<>> \in Seq(Symbol) /\ \A i \in 1 .. Len(<<>>) : <<>>[i] # NewLine
    OBVIOUS
  <2> QED
    BY <2>1, KeptSymbols
<1> QED
  BY <1>1, CloseTagLength DEF IsISO8583

(* Sending leaves the stream so far as it is. *)
LEMMA StreamGrows ==
  ASSUME TypeOK, NEW u \in Unit, Send(u)
  PROVE  /\ \A i \in 1 .. Len(sent) : sent'[i] = sent[i]
         /\ Len(sent') = Len(sent) + 1 /\ Last(sent') = u /\ sent'[Len(sent) + 1] = u
         /\ OnlyMessages' => OnlyMessages /\ u \in Message
         /\ \A k \in 1 .. 5 * Len(sent) : StreamAt(sent', k) = StreamAt(sent, k)
         /\ \A j \in 1 .. 5 : StreamAt(sent', 5 * Len(sent) + j) = Encode(u)[j]
<1>1. /\ Len(sent) \in Nat /\ Len(sent') = Len(sent) + 1
      /\ sent'[Len(sent) + 1] = u
      /\ \A i \in 1 .. Len(sent) : sent'[i] = sent[i]
      /\ DOMAIN sent' = 1 .. Len(sent) + 1 /\ DOMAIN sent = 1 .. Len(sent)
  BY DEF Send, TypeOK
<1>2. OnlyMessages' => OnlyMessages /\ u \in Message
  BY <1>1 DEF OnlyMessages, ToSet
<1>3. ASSUME NEW k \in 1 .. 5 * Len(sent)
      PROVE  StreamAt(sent', k) = StreamAt(sent, k)
  <2>1. (k - 1) \div 5 + 1 \in 1 .. Len(sent)
    BY <1>1
  <2>2. sent'[(k - 1) \div 5 + 1] = sent[(k - 1) \div 5 + 1]
    BY <1>1, <2>1
  <2> QED
    BY <2>2 DEF StreamAt, Encode
<1>4. ASSUME NEW j \in 1 .. 5
      PROVE  StreamAt(sent', 5 * Len(sent) + j) = Encode(u)[j]
  <2> DEFINE k == 5 * Len(sent) + j
  <2>1. (k - 1) \div 5 + 1 = Len(sent) + 1 /\ ((k - 1) % 5) + 1 = j
    BY <1>1
  <2> HIDE DEF k
  <2>2. StreamAt(sent', k) = Encode(sent'[(k - 1) \div 5 + 1])[((k - 1) % 5) + 1]
    BY DEF StreamAt
  <2>3. StreamAt(sent', k) = Encode(u)[j]
    BY <1>1, <2>1, <2>2
  <2> QED
    BY <2>3 DEF k
<1> QED
  BY <1>1, <1>2, <1>3, <1>4 DEF Last

(* Sending appends to the wire what it appends to the stream. *)
LEMMA TailSend ==
  ASSUME TypeOK, StreamTail, NEW u \in Unit, Send(u)
  PROVE  /\ StreamTail'
         /\ OnlyMessages' => Taken' = Taken
<1>0. /\ Len(buffer) \in Nat /\ Len(wire) \in Nat /\ Len(sent) \in Nat /\ Taken \in Int
      /\ Len(sent') = Len(sent) + 1 /\ Len(sent) < MaxSent /\ buffer' = buffer
      /\ wire' = wire \o Encode(u) /\ MaxSent \in Nat
  <2>1. Len(buffer) \in Nat /\ Len(wire) \in Nat /\ Len(sent) \in Nat
    BY DEF TypeOK
  <2>2. Taken \in Int
    BY <2>1 DEF Taken
  <2>3. Len(sent') = Len(sent) + 1
    BY StreamGrows
  <2>4. Len(sent) < MaxSent /\ buffer' = buffer /\ wire' = wire \o Encode(u)
    BY Zenon DEF Send
  <2> QED
    BY <2>1, <2>2, <2>3, <2>4, BoundAssumption
<1>a. Len(sent') <= MaxSent
  BY <1>0
<1> SUFFICES ASSUME OnlyMessages'
             PROVE  /\ Taken' = Taken /\ Taken' >= 0
                    /\ \A k \in 1 .. Len(buffer') : buffer'[k] = StreamAt(sent', Taken' + k)
                    /\ \A k \in 1 .. Len(wire') :
                         wire'[k] = StreamAt(sent', Taken' + Len(buffer') + k)
  BY <1>a, Zenon DEF StreamTail
<1>1. OnlyMessages /\ u \in Message /\ Encode(u) \in Seq(Symbol) /\ Len(Encode(u)) = 5
  BY StreamGrows, EncodeIs
<1>2. /\ Len(wire') = Len(wire) + 5
      /\ \A k \in 1 .. Len(wire) : wire'[k] = wire[k]
      /\ \A j \in 1 .. 5 : wire'[Len(wire) + j] = Encode(u)[j]
  <2> DEFINE e == Encode(u)
  <2>1. wire' = wire \o e /\ wire \in Seq(Symbol) /\ e \in Seq(Symbol) /\ Len(e) = 5
    BY <1>0, <1>1 DEF TypeOK
  <2> HIDE DEF e
  <2>2. /\ Len(wire') = Len(wire) + 5
        /\ \A k \in 1 .. Len(wire) : wire'[k] = wire[k]
        /\ \A j \in 1 .. 5 : wire'[Len(wire) + j] = e[j]
    <3>1. /\ Len(wire \o e) = Len(wire) + Len(e)
          /\ \A i \in 1 .. Len(wire) + Len(e) :
               (wire \o e)[i] = IF i <= Len(wire) THEN wire[i] ELSE e[i - Len(wire)]
      BY <2>1, ConcatProperties, Zenon
    <3>2. ASSUME NEW j \in 1 .. 5
          PROVE  wire'[Len(wire) + j] = e[j]
      <4>1. /\ Len(wire) + j \in 1 .. Len(wire) + Len(e)
            /\ ~(Len(wire) + j <= Len(wire)) /\ (Len(wire) + j) - Len(wire) = j
        BY <1>0, <2>1
      <4> QED
        BY <2>1, <3>1, <4>1
    <3> QED
      BY <1>0, <2>1, <3>1, <3>2
  <2> QED
    BY <2>2 DEF e
<1>3. Taken' = Taken /\ Taken >= 0 /\ Taken + Len(buffer) + Len(wire) = 5 * Len(sent)
  BY <1>0, <1>1, <1>2 DEF Taken, StreamTail
<1>4. ASSUME NEW k \in 1 .. Len(buffer)
      PROVE  buffer[k] = StreamAt(sent', Taken + k)
  <2>1. Taken + k \in 1 .. 5 * Len(sent)
    BY <1>0, <1>3
  <2> QED
    BY <1>1, <2>1, StreamGrows DEF StreamTail
<1>5. ASSUME NEW k \in 1 .. Len(wire')
      PROVE  wire'[k] = StreamAt(sent', Taken + Len(buffer) + k)
  <2>1. CASE k <= Len(wire)
    <3>1. Taken + Len(buffer) + k \in 1 .. 5 * Len(sent) /\ k \in 1 .. Len(wire)
      BY <1>0, <1>3, <2>1
    <3> QED
      BY <1>1, <1>2, <3>1, StreamGrows DEF StreamTail
  <2>2. CASE ~(k <= Len(wire))
    <3> DEFINE j == k - Len(wire)
    <3>1. j \in 1 .. 5 /\ k = Len(wire) + j /\ Taken + Len(buffer) + k = 5 * Len(sent) + j
      <4>1. k \in Int /\ k <= Len(wire) + 5
        BY <1>2
      <4>2. j \in 1 .. 5 /\ k = Len(wire) + j
        BY <1>0, <2>2, <4>1
      <4>3. Taken + Len(buffer) + Len(wire) = 5 * Len(sent)
        BY <1>3
      <4> HIDE DEF j
      <4>4. Taken + Len(buffer) + (Len(wire) + j) = 5 * Len(sent) + j
        BY <1>0, <4>2, <4>3
      <4> QED
        BY <4>2, <4>4
    <3> HIDE DEF j
    <3>2. wire'[Len(wire) + j] = Encode(u)[j]
      BY <1>2, <3>1
    <3>3. StreamAt(sent', 5 * Len(sent) + j) = Encode(u)[j]
      BY <3>1, StreamGrows
    <3> QED
      BY <3>1, <3>2, <3>3
  <2> QED
    BY <2>1, <2>2
<1>6. \A k \in 1 .. Len(buffer') : buffer'[k] = StreamAt(sent', Taken' + k)
  <2>1. \A k \in 1 .. Len(buffer) : buffer[k] = StreamAt(sent', Taken + k)
    BY <1>4
  <2> QED
    BY <1>0, <1>3, <2>1, Zenon
<1>7. \A k \in 1 .. Len(wire') : wire'[k] = StreamAt(sent', Taken' + Len(buffer') + k)
  <2>1. \A k \in 1 .. Len(wire') : wire'[k] = StreamAt(sent', Taken + Len(buffer) + k)
    BY <1>5
  <2> QED
    BY <1>0, <1>3, <2>1, Zenon
<1>8. Taken' >= 0
  BY <1>3
<1> QED
  BY <1>3, <1>6, <1>7, <1>8

(* A read moves the front of the wire to the end of the buffer, so that    *)
(* the two remain the end of the stream.                                   *)
LEMMA TailRead ==
  ASSUME TypeOK, StreamTail, NEW n \in 1 .. Len(wire), Read(n)
  PROVE  /\ StreamTail'
         /\ Taken' = Taken
         /\ Len(buffer') = Len(buffer) + n /\ Last(buffer') = wire[n]
<1>0. Len(buffer) \in Nat /\ Len(wire) \in Nat /\ Len(sent) \in Nat /\ n \in Nat
  BY DEF TypeOK
<1>1. /\ SubSeq(wire, 1, n) \in Seq(Symbol) /\ Len(SubSeq(wire, 1, n)) = n
      /\ \A k \in 1 .. n : SubSeq(wire, 1, n)[k] = wire[k]
  BY <1>0 DEF TypeOK
<1>2. /\ Len(wire') = Len(wire) - n
      /\ \A k \in 1 .. Len(wire') : wire'[k] = wire[n + k]
  <2> DEFINE v == SubSeq(wire, n + 1, Len(wire))
  <2>1. /\ n + 1 \in Int /\ Len(wire) \in Int /\ n <= Len(wire)
        /\ \A i \in n + 1 .. Len(wire) : wire[i] \in Symbol
    BY <1>0 DEF TypeOK
  <2>2. /\ Len(v) = IF n + 1 <= Len(wire) THEN Len(wire) - (n + 1) + 1 ELSE 0
        /\ \A i \in 1 .. Len(wire) - (n + 1) + 1 : v[i] = wire[n + 1 + i - 1]
    BY <2>1, SubSeqProperties
  <2>3. wire' = v
    BY DEF Read
  <2> HIDE DEF v
  <2>4. Len(v) = Len(wire) - n
    BY <1>0, <2>1, <2>2
  <2>5. ASSUME NEW k \in 1 .. Len(v)
        PROVE  v[k] = wire[n + k]
    <3>1. k \in 1 .. Len(wire) - (n + 1) + 1 /\ n + 1 + k - 1 = n + k
      BY <1>0, <2>4
    <3> QED
      BY <2>2, <3>1
  <2> QED
    BY <2>3, <2>4, <2>5
<1> DEFINE w == SubSeq(wire, 1, n)
<1>3. /\ Len(buffer') = Len(buffer) + n
      /\ \A k \in 1 .. Len(buffer) : buffer'[k] = buffer[k]
      /\ \A k \in 1 .. n : buffer'[Len(buffer) + k] = wire[k]
  <2>1. buffer' = buffer \o w /\ buffer \in Seq(Symbol)
    BY DEF Read, TypeOK
  <2> HIDE DEF w
  <2>2. w \in Seq(Symbol) /\ Len(w) = n /\ \A k \in 1 .. n : w[k] = wire[k]
    BY <1>1 DEF w
  <2>3. /\ Len(buffer \o w) = Len(buffer) + Len(w)
        /\ \A k \in 1 .. Len(buffer) : (buffer \o w)[k] = buffer[k]
        /\ \A k \in 1 .. Len(w) : (buffer \o w)[Len(buffer) + k] = w[k]
    BY <2>1, <2>2, ConcatParts
  <2> QED
    BY <2>1, <2>2, <2>3
<1>4. sent' = sent /\ OnlyMessages' = OnlyMessages /\ Taken' = Taken
  <2>1. sent' = sent
    BY DEF Read
  <2>2. Len(buffer') = Len(buffer) + n /\ Len(wire') = Len(wire) - n
    BY <1>2, <1>3
  <2>3. Taken' = Taken
    BY <1>0, <2>1, <2>2 DEF Taken
  <2> QED
    BY <2>1, <2>3 DEF OnlyMessages
<1>5. Last(buffer') = wire[n]
  BY <1>0, <1>3 DEF Last
<1>6. ASSUME OnlyMessages
      PROVE  /\ \A k \in 1 .. Len(buffer') : buffer'[k] = StreamAt(sent, Taken + k)
             /\ \A k \in 1 .. Len(wire') : wire'[k] = StreamAt(sent, Taken + Len(buffer') + k)
  <2>0. Taken \in Nat
    BY <1>0, <1>6 DEF StreamTail, Taken
  <2>1. ASSUME NEW k \in 1 .. Len(buffer')
        PROVE  buffer'[k] = StreamAt(sent, Taken + k)
    <3>1. CASE k <= Len(buffer)
      BY <1>0, <1>3, <1>6, <3>1 DEF StreamTail
    <3>2. CASE ~(k <= Len(buffer))
      <4> DEFINE j == k - Len(buffer)
      <4>1. /\ j \in 1 .. n /\ j \in 1 .. Len(wire) /\ k = Len(buffer) + j
            /\ Taken + Len(buffer) + j = Taken + k
        BY <1>0, <1>3, <2>0, <3>2
      <4> HIDE DEF j
      <4> QED
        BY <1>3, <1>6, <4>1 DEF StreamTail
    <3> QED
      BY <3>1, <3>2
  <2>2. ASSUME NEW k \in 1 .. Len(wire')
        PROVE  wire'[k] = StreamAt(sent, Taken + Len(buffer') + k)
    <3>1. n + k \in 1 .. Len(wire) /\ Taken + Len(buffer) + (n + k) = Taken + Len(buffer') + k
      BY <1>0, <1>2, <1>3, <2>0
    <3> QED
      BY <1>2, <1>6, <3>1 DEF StreamTail
  <2> QED
    BY <2>1, <2>2
<1> QED
  BY <1>3, <1>4, <1>5, <1>6 DEF StreamTail
-----------------------------------------------------------------------------
(* Cutting from the buffer. *)

(* A step that cuts d symbols from the front of the buffer, and reads and  *)
(* executes nothing.                                                       *)
Dropped(d) ==
  /\ d \in 0 .. Len(buffer)
  /\ Len(buffer') = Len(buffer) - d
  /\ \A k \in 1 .. Len(buffer') : buffer'[k] = buffer[d + k]
  /\ UNCHANGED <<waits, sent, wire, executed, cut>>
  /\ pc' # "execute"

(* After the execution the message is cut from the buffer, with all that   *)
(* was in front of its closing tag.                                        *)
LEMMA ExecutedDrops ==
  ASSUME TypeOK, UncutEnd, Executed
  PROVE  /\ Dropped(Find(buffer, CloseTag) + 2)
         /\ pc = "execute" /\ HasMessage(buffer)
<1>1. /\ buffer \in Seq(Symbol) /\ HasMessage(buffer) /\ buffer' = AfterMessage(buffer)
      /\ Len(buffer) > 0
  BY DEF Executed, UncutEnd, TypeOK
<1>2. /\ Len(buffer') = Len(buffer) - (Find(buffer, CloseTag) + 2)
      /\ \A k \in 1 .. Len(buffer') : buffer'[k] = buffer[Find(buffer, CloseTag) + 2 + k]
  BY <1>1, AfterMessageIs
<1>3. Find(buffer, CloseTag) + 2 \in 0 .. Len(buffer)
  BY <1>1, CompleteMessageIs
<1>4. pc = "execute" /\ pc' \in {"frame", "killed"}
  BY DEF Executed, Reply
<1> QED
  BY <1>1, <1>2, <1>3, <1>4 DEF Dropped, Executed

(* A rejected payload is cut from the buffer in the same way. *)
LEMMA RejectDrops ==
  ASSUME TypeOK, Reject
  PROVE  Dropped(Find(buffer, CloseTag) + 2) /\ pc = "frame"
<1>1. /\ buffer \in Seq(Symbol) /\ HasMessage(buffer) /\ buffer' = AfterMessage(buffer)
  BY DEF Reject, TypeOK
<1>2. Find(buffer, CloseTag) + 2 \in 0 .. Len(buffer) /\ Len(buffer) > 0
  BY <1>1, CompleteMessageIs
<1>3. /\ Len(buffer') = Len(buffer) - (Find(buffer, CloseTag) + 2)
      /\ \A k \in 1 .. Len(buffer') : buffer'[k] = buffer[Find(buffer, CloseTag) + 2 + k]
  BY <1>1, <1>2, AfterMessageIs
<1>4. pc = "frame" /\ pc' \in {"frame", "killed"}
  BY DEF Reject, Reply
<1> QED
  BY <1>2, <1>3, <1>4 DEF Dropped, Reject

(* An echoed rest is cut from the buffer as a whole. *)
LEMMA EchoRestDrops ==
  ASSUME TypeOK, EchoRest
  PROVE  Dropped(Len(buffer)) /\ pc = "frame"
<1>1. /\ buffer' = <<>> /\ Len(buffer) \in Nat
  BY DEF EchoRest, TypeOK
<1>2. Len(buffer') = 0
  BY <1>1
<1>3. pc = "frame" /\ pc' \in {"read", "killed"}
  BY DEF EchoRest, Reply
<1> QED
  BY <1>1, <1>2, <1>3 DEF Dropped, EchoRest

(* Cutting from the front leaves the end of the stream. *)
LEMMA TailDrop ==
  ASSUME TypeOK, StreamTail, NEW d, Dropped(d)
  PROVE  /\ StreamTail'
         /\ Taken' = Taken + d
<1>0. /\ Len(buffer) \in Nat /\ Len(wire) \in Nat /\ Len(sent) \in Nat /\ Taken \in Int
      /\ sent' = sent /\ wire' = wire /\ d \in 0 .. Len(buffer)
      /\ Len(buffer') = Len(buffer) - d
  BY DEF TypeOK, Dropped, Taken
<1>1. Taken' = Taken + d /\ OnlyMessages' = OnlyMessages
  BY <1>0 DEF Taken, OnlyMessages
<1>2. ASSUME OnlyMessages
      PROVE  /\ \A k \in 1 .. Len(buffer') : buffer'[k] = StreamAt(sent, Taken + d + k)
             /\ \A k \in 1 .. Len(wire) : wire[k] = StreamAt(sent, Taken + d + Len(buffer') + k)
             /\ Taken >= 0
  <2>1. ASSUME NEW k \in 1 .. Len(buffer')
        PROVE  buffer'[k] = StreamAt(sent, Taken + d + k)
    <3>1. d + k \in 1 .. Len(buffer) /\ Taken + (d + k) = Taken + d + k
      BY <1>0
    <3> QED
      BY <1>2, <3>1 DEF Dropped, StreamTail
  <2>2. Taken + d + Len(buffer') = Taken + Len(buffer)
    BY <1>0
  <2> QED
    BY <1>2, <2>1, <2>2 DEF StreamTail
<1>3. Len(sent) <= MaxSent
  BY DEF StreamTail
<1> QED
  BY <1>0, <1>1, <1>2, <1>3 DEF StreamTail

(* Cutting from the front leaves the end of the buffer. *)
LEMMA EndDrop ==
  ASSUME TypeOK, TypeOK', UncutEnd, NEW d, Dropped(d)
  PROVE  UncutEnd'
<1>0. /\ Len(buffer) \in Nat /\ d \in 0 .. Len(buffer) /\ Len(buffer') = Len(buffer) - d
      /\ \A k \in 1 .. Len(buffer') : buffer'[k] = buffer[d + k]
      /\ pc' # "execute" /\ cut' = cut
  <2>1. Len(buffer) \in Nat
    BY DEF TypeOK
  <2> QED
    BY <2>1 DEF Dropped
<1>1. ASSUME ~cut, buffer' # <<>>, buffer' \in Seq(Symbol)
      PROVE  Last(buffer') # OpenTag[1]
  <2>1. Len(buffer') \in 1 .. Len(buffer')
    BY <1>0, <1>1, EmptySeq
  <2>2. Last(buffer') = buffer[d + Len(buffer')] /\ d + Len(buffer') = Len(buffer)
    BY <1>0, <2>1 DEF Last
  <2>3. buffer # <<>>
    BY <1>0, <2>1
  <2> QED
    BY <1>1, <2>2, <2>3 DEF UncutEnd, Last
<1>2. buffer' \in Seq(Symbol)
  BY DEF TypeOK
<1> QED
  BY <1>0, <1>1, <1>2 DEF UncutEnd
-----------------------------------------------------------------------------
(* The stream and the executed messages, step by step. *)

(* A step that leaves the stream and what is done with it alone. *)
Still ==
  /\ UNCHANGED <<waits, sent, wire, buffer, executed, answers, cut>>
  /\ pc' = pc \/ (pc # "execute" /\ pc' # "execute")

(* What a step of the connection is, as far as the stream is concerned. *)
LEMMA StepKinds ==
  ASSUME [Next]_vars
  PROVE  \/ \E u \in Unit : Send(u)
         \/ \E n \in 1 .. Len(wire) : Read(n)
         \/ Execute \/ Executed \/ Reject \/ EchoRest
         \/ HandlerEnds
         \/ Still
<1>1. CASE Close \/ EndOfStream \/ KeepRest \/ UNCHANGED vars
  <2>1. UNCHANGED <<waits, sent, wire, buffer, executed, answers, cut>>
    BY <1>1 DEF Close, EndOfStream, KeepRest, vars
  <2>2. pc' = pc \/ (pc \in {"read", "frame"} /\ pc' \in {"closed", "read"})
    BY <1>1 DEF Close, EndOfStream, KeepRest, vars
  <2> QED
    BY <2>1, <2>2 DEF Still
<1> QED
  BY <1>1, ClientSends DEF Next, HandleClientCustom

(* When the handler ends, what it has not dealt with is gone. *)
HandlerGone ==
  /\ UNCHANGED <<waits, sent, executed, answers, cut>>
  /\ buffer' = <<>> /\ wire' = <<>>
  /\ Len(buffer') = 0 /\ Len(wire') = 0
  /\ Taken' = 5 * Len(sent) /\ Done' = 5 * Len(sent)
  /\ pc' = "ended"

LEMMA EndIs ==
  ASSUME TypeOK, HandlerEnds
  PROVE  HandlerGone
<1>1. /\ UNCHANGED <<waits, sent, executed, answers, cut>>
      /\ buffer' = <<>> /\ wire' = <<>> /\ pc' = "ended"
  BY DEF HandlerEnds
<1>2. Len(buffer') = 0 /\ Len(wire') = 0 /\ Len(sent) \in Nat /\ sent' = sent
  BY <1>1, EmptySeq DEF TypeOK
<1>3. Taken' = 5 * Len(sent)
  BY <1>2 DEF Taken
<1>4. Done' = Taken'
  BY <1>1 DEF Done
<1> QED
  BY <1>1, <1>2, <1>3, <1>4 DEF HandlerGone

(* It is over for good. *)
LEMMA EndStays ==
  ASSUME [Next]_vars, pc' # "ended"
  PROVE  pc # "ended" /\ ~HandlerEnds
<1>1. CASE UNCHANGED vars
  BY <1>1 DEF vars, HandlerEnds
<1>2. CASE Client
  BY <1>2 DEF Client, SendMessage, SendOther, Send, Close, Handled, HandlerEnds
<1>3. CASE HandleClientCustom
  BY <1>3 DEF HandleClientCustom, Read, EndOfStream, Execute, Executed, Reject,
              KeepRest, EchoRest, HandlerEnds
<1> QED
  BY <1>1, <1>2, <1>3 DEF Next, HandlerEnds

(* Every step keeps the buffer and the wire the end of the stream, and an  *)
(* uncut buffer free of half an opening tag at its end.                    *)
LEMMA TailNext ==
  ASSUME TypeOK, TypeOK', StreamTail, UncutEnd, [Next]_vars
  PROVE  StreamTail' /\ UncutEnd'
<1>1. ASSUME NEW u \in Unit, Send(u)
      PROVE  StreamTail' /\ UncutEnd'
  <2>1. UNCHANGED <<buffer, cut, pc>>
    BY <1>1 DEF Send
  <2> QED
    BY <1>1, <2>1, TailSend DEF UncutEnd, Last, HasMessage, Find
<1>2. ASSUME NEW n \in 1 .. Len(wire), Read(n)
      PROVE  StreamTail' /\ UncutEnd'
  <2>1. pc' = "frame" /\ (~cut' => wire[n] # OpenTag[1])
    BY <1>2 DEF Read
  <2> QED
    BY <1>2, <2>1, TailRead DEF UncutEnd
<1>3. CASE Execute \/ Still
  <2>1. UNCHANGED <<waits, sent, wire, buffer, cut>>
    BY <1>3 DEF Execute, Still
  <2>2. pc' = "execute" => HasMessage(buffer)
    BY <1>3 DEF Execute, Still, UncutEnd
  <2>3. Taken' = Taken /\ OnlyMessages' = OnlyMessages
    BY <2>1 DEF Taken, OnlyMessages
  <2> QED
    BY <2>1, <2>2, <2>3 DEF StreamTail, UncutEnd
<1>4. CASE Executed \/ Reject \/ EchoRest
  <2>1. PICK d : Dropped(d)
    BY <1>4, ExecutedDrops, RejectDrops, EchoRestDrops
  <2> QED
    BY <2>1, TailDrop, EndDrop
<1>5. CASE HandlerEnds
  <2>1. HandlerGone
    BY <1>5, EndIs
  <2>2. 5 * Len(sent) >= 0
    BY DEF TypeOK
  <2> QED
    BY <2>1, <2>2 DEF HandlerGone, StreamTail, UncutEnd, OnlyMessages
<1> QED
  BY <1>1, <1>2, <1>3, <1>4, <1>5, StepKinds

(* What is done with is a part of the stream. *)
LEMMA DoneBound ==
  ASSUME TypeOK, UncutEnd
  PROVE  Done \in Int /\ Done <= 5 * Len(sent)
<1>1. Len(wire) \in Nat /\ Len(buffer) \in Nat /\ Len(sent) \in Nat /\ buffer \in Seq(Symbol)
  BY DEF TypeOK
<1>2. pc = "execute" => Find(buffer, CloseTag) \in 0 .. Len(buffer) - 2
  BY <1>1, CompleteMessageIs DEF UncutEnd
<1> QED
  BY <1>1, <1>2, CloseTagLength DEF Done, Taken

(* A step that executes nothing never takes back what has been dealt       *)
(* with, and only a rejection, an echo or the end of the handler adds to   *)
(* it.                                                                     *)
LEMMA DoneStep ==
  ASSUME TypeOK, StreamTail, UncutEnd, [Next]_vars, ~Execute, OnlyMessages'
  PROVE  /\ OnlyMessages /\ Done \in Int /\ Done' \in Int /\ Done' >= Done
         /\ ~Reject /\ ~EchoRest /\ ~HandlerEnds => Done' = Done
         /\ executed' = executed /\ Len(sent') >= Len(sent)
         /\ \A i \in 1 .. Len(sent) : sent'[i] = sent[i]
<1>0. Taken \in Int /\ Done \in Int /\ Len(buffer) \in Nat /\ Len(sent) \in Nat
  <2>1. Taken \in Int /\ Len(buffer) \in Nat /\ Len(sent) \in Nat /\ buffer \in Seq(Symbol)
    BY DEF TypeOK, Taken
  <2>2. pc = "execute" => Find(buffer, CloseTag) \in Nat
    BY <2>1, CompleteMessageIs DEF UncutEnd
  <2> QED
    BY <2>1, <2>2, CloseTagLength DEF Done
<1>6. ASSUME UNCHANGED <<sent, executed>>
      PROVE  /\ OnlyMessages /\ executed' = executed /\ Len(sent') >= Len(sent)
             /\ \A i \in 1 .. Len(sent) : sent'[i] = sent[i]
  BY <1>0, <1>6 DEF OnlyMessages
<1>7. ASSUME Done' = Done PROVE Done' >= Done /\ Done' \in Int
  BY <1>0, <1>7
<1>1. ASSUME NEW u \in Unit, Send(u)
      PROVE  /\ OnlyMessages /\ Done' = Done /\ executed' = executed
             /\ Len(sent') >= Len(sent) /\ \A i \in 1 .. Len(sent) : sent'[i] = sent[i]
  <2>1. UNCHANGED <<buffer, pc, executed>>
    BY <1>1 DEF Send
  <2>2. Taken' = Taken
    BY <1>1, TailSend
  <2>3. Done' = Done
    BY <2>1, <2>2 DEF Done
  <2> QED
    BY <1>0, <1>1, <2>1, <2>3, StreamGrows
<1>2. ASSUME NEW n \in 1 .. Len(wire), Read(n)
      PROVE  Done' = Done /\ UNCHANGED <<sent, executed>>
  <2>1. pc = "read" /\ pc' = "frame" /\ UNCHANGED <<sent, executed>>
    BY <1>2 DEF Read
  <2>2. Taken' = Taken
    BY <1>2, TailRead
  <2> QED
    BY <2>1, <2>2 DEF Done
<1>3. CASE Still
  <2>1. UNCHANGED <<sent, wire, buffer, executed>> /\ (pc' = "execute" <=> pc = "execute")
    BY <1>3 DEF Still
  <2>2. Taken' = Taken
    BY <2>1 DEF Taken
  <2>3. Done' = Done
    BY <2>1, <2>2 DEF Done
  <2> QED
    BY <1>6, <1>7, <2>1, <2>3
<1>4. CASE Executed
  <2>1. /\ Dropped(Find(buffer, CloseTag) + 2) /\ pc = "execute" /\ pc' # "execute"
        /\ UNCHANGED <<sent, executed>>
    BY <1>4, ExecutedDrops DEF Dropped
  <2>2. Taken' = Taken + (Find(buffer, CloseTag) + 2)
    BY <2>1, TailDrop
  <2>3. Find(buffer, CloseTag) \in Nat
    BY <2>1, CompleteMessageIs DEF UncutEnd, TypeOK
  <2>4. Done' = Taken' /\ Done = Taken + Find(buffer, CloseTag) + 2
    BY <2>1, CloseTagLength DEF Done
  <2>5. Done' = Done
    BY <1>0, <2>2, <2>3, <2>4
  <2> QED
    BY <1>6, <1>7, <2>1, <2>5
<1>5. CASE Reject \/ EchoRest
  <2>0. pc = "frame"
    BY <1>5 DEF Reject, EchoRest
  <2>1. PICK d : Dropped(d)
    BY <1>5, RejectDrops, EchoRestDrops
  <2>2. pc # "execute" /\ pc' # "execute" /\ UNCHANGED <<sent, executed>>
    BY <2>0, <2>1 DEF Dropped
  <2>3. Taken' = Taken + d /\ d \in Nat
    <3>1. d \in 0 .. Len(buffer)
      BY <2>1 DEF Dropped
    <3>2. Taken' = Taken + d
      BY <2>1, TailDrop
    <3> QED
      BY <1>0, <3>1, <3>2
  <2>4. Done' = Taken' /\ Done = Taken
    BY <2>2 DEF Done
  <2> QED
    BY <1>0, <1>5, <1>6, <2>2, <2>3, <2>4
<1>8. CASE HandlerEnds
  <2>1. HandlerGone
    BY <1>8, EndIs
  <2>2. Done <= 5 * Len(sent)
    BY DoneBound
  <2>3. UNCHANGED <<sent, executed>> /\ Done' = 5 * Len(sent)
    BY <2>1 DEF HandlerGone
  <2>4. Done' >= Done /\ Done' \in Int
    BY <1>0, <2>2, <2>3
  <2> QED
    BY <1>0, <1>6, <1>8, <2>3, <2>4
<1> QED
  BY <1>1, <1>2, <1>3, <1>4, <1>5, <1>6, <1>7, <1>8, StepKinds

(* Every step keeps the executed payloads whole messages of the stream,    *)
(* in its order, behind what has been dealt with.  An execution picks the  *)
(* message that begins at the first opening tag, which no earlier one can  *)
(* have picked.                                                            *)
LEMMA PicksNext ==
  ASSUME TypeOK, StreamTail, UncutEnd, PicksDone, [Next]_vars
  PROVE  PicksDone'
<1> SUFFICES ASSUME OnlyMessages'
             PROVE  \E pick \in [1 .. Len(executed') -> 1 .. Len(sent')] :
                      /\ \A i, j \in 1 .. Len(executed') : i < j => pick[i] < pick[j]
                      /\ \A i \in 1 .. Len(executed') :
                           executed'[i] = Encode(sent'[pick[i]]) /\ 5 * pick[i] <= Done'
  BY DEF PicksDone
<1>0. /\ Len(executed) \in Nat /\ Len(sent) \in Nat /\ Len(buffer) \in Nat
      /\ Taken \in Int /\ executed \in Seq(Seq(Symbol)) /\ buffer \in Seq(Symbol)
  BY DEF TypeOK, Taken
<1>1. CASE Execute
  <2>1. /\ UNCHANGED <<sent, wire, buffer>> /\ OnlyMessages /\ HasMessage(buffer)
        /\ pc = "frame" /\ pc' = "execute"
        /\ IsISO8583(RemoveNewLines(CompleteMessage(buffer)))
        /\ executed' = Append(executed, RemoveNewLines(CompleteMessage(buffer)))
    BY <1>1 DEF Execute, OnlyMessages
  <2> DEFINE start == Find(buffer, OpenTag)
             end   == Find(buffer, CloseTag)
             q     == (Taken + start) \div 5 + 1
  <2>2. /\ start \in 0 .. Len(buffer) - 2 /\ end = start + 3 /\ (Taken + start) % 5 = 0
        /\ CompleteMessage(buffer) = Encode(sent[q]) /\ q \in 1 .. Len(sent)
    BY <2>1, FirstMessage, EmptyInvalid
  <2>3. sent[q] \in Message
    <3> HIDE DEF q
    <3> QED
      BY <2>1, <2>2 DEF OnlyMessages, ToSet, TypeOK
  <2>4. executed' = Append(executed, Encode(sent[q])) /\ Encode(sent[q]) \in Seq(Symbol)
    <3> HIDE DEF q
    <3> QED
      BY <2>1, <2>2, <2>3, MessageValid, EncodeIs DEF Unit
  <2>5. Taken' = Taken /\ Done = Taken /\ Done' = Taken + end + 2
    BY <2>1, CloseTagLength DEF Taken, Done
  <2>6. Taken + start \in Nat /\ 5 * q = Taken + start + 5 /\ 5 * q = Done' /\ Done < 5 * q
    <3>1. Taken >= 0
      BY <2>1 DEF StreamTail
    <3> HIDE DEF start, end
    <3>2. Taken + start \in Nat /\ 5 * q = Taken + start + 5
      BY <1>0, <2>2, <3>1
    <3>3. start \in Nat /\ Done' = Taken + start + 5 /\ Done < Taken + start + 5
      BY <1>0, <2>2, <2>5
    <3> QED
      BY <3>2, <3>3
  <2>7. PICK pick \in [1 .. Len(executed) -> 1 .. Len(sent)] :
          /\ \A i, j \in 1 .. Len(executed) : i < j => pick[i] < pick[j]
          /\ \A i \in 1 .. Len(executed) :
               executed[i] = Encode(sent[pick[i]]) /\ 5 * pick[i] <= Done
    BY <2>1 DEF PicksDone
  <2> HIDE DEF q, start, end
  <2> DEFINE n == Len(executed)
             more == [i \in 1 .. n + 1 |-> IF i <= n THEN pick[i] ELSE q]
  <2>8. /\ Len(executed') = n + 1 /\ executed'[n + 1] = Encode(sent[q])
        /\ \A i \in 1 .. n : executed'[i] = executed[i]
    <3> DEFINE e == Encode(sent[q])
    <3> HIDE DEF e
    <3>1. executed' = Append(executed, e) /\ e \in Seq(Symbol)
      BY <2>4 DEF e
    <3> DEFINE S == Seq(Symbol)
    <3>3. executed \in Seq(S) /\ e \in S
      BY <1>0, <3>1
    <3> HIDE DEF S
    <3>2. /\ Len(Append(executed, e)) = Len(executed) + 1
          /\ Append(executed, e)[Len(executed) + 1] = e
          /\ \A i \in 1 .. Len(executed) : Append(executed, e)[i] = executed[i]
      BY <3>3, AppendProperties
    <3> QED
      BY <3>1, <3>2 DEF e
  <2>9. /\ \A i \in 1 .. n : more[i] = pick[i] /\ pick[i] \in Nat /\ pick[i] < q
        /\ more[n + 1] = q
    <3>1. ASSUME NEW i \in 1 .. n
          PROVE  pick[i] \in Nat /\ pick[i] < q
      <4>1. pick[i] \in 1 .. Len(sent) /\ 5 * pick[i] <= Done
        BY <2>7
      <4>2. q \in Nat /\ Done < 5 * q /\ Done \in Int
        BY <1>0, <2>2, <2>5, <2>6
      <4> QED
        BY <4>1, <4>2
    <3> QED
      BY <1>0, <3>1
  <2>10. more \in [1 .. Len(executed') -> 1 .. Len(sent)]
    BY <1>0, <2>2, <2>7, <2>8
  <2> HIDE DEF more
  <2>11. \A i, j \in 1 .. n + 1 : i < j => more[i] < more[j]
    <3>1. ASSUME NEW i \in 1 .. n + 1, NEW j \in 1 .. n + 1, i < j
          PROVE  more[i] < more[j]
      <4>1. i \in 1 .. n /\ more[i] = pick[i]
        BY <1>0, <2>9, <3>1
      <4>2. CASE j = n + 1
        BY <2>9, <4>1, <4>2
      <4>3. CASE j \in 1 .. n
        BY <2>7, <2>9, <3>1, <4>1, <4>3
      <4> QED
        BY <1>0, <4>2, <4>3
    <3> QED
      BY <3>1
  <2>12. ASSUME NEW i \in 1 .. n + 1
         PROVE  executed'[i] = Encode(sent[more[i]]) /\ 5 * more[i] <= Done'
    <3>1. CASE i = n + 1
      <4>1. executed'[i] = Encode(sent[q]) /\ more[i] = q
        BY <2>8, <2>9, <3>1
      <4>2. 5 * q <= Done'
        <5>1. 5 * q = Done' /\ 5 * q \in Int
          BY <2>2, <2>6
        <5> QED
          BY <5>1
      <4> QED
        BY <4>1, <4>2
    <3>2. CASE i \in 1 .. n
      <4>1. executed'[i] = Encode(sent[pick[i]]) /\ more[i] = pick[i]
        BY <2>7, <2>8, <2>9, <3>2
      <4>2. 5 * pick[i] <= Done /\ pick[i] \in Nat
        BY <2>7, <2>9, <3>2
      <4>3. Done < 5 * q /\ 5 * q = Done' /\ Done \in Int /\ q \in Nat
        BY <1>0, <2>2, <2>5, <2>6
      <4>4. 5 * pick[i] <= Done'
        BY <4>2, <4>3
      <4> QED
        BY <4>1, <4>4
    <3> QED
      BY <1>0, <3>1, <3>2
  <2> QED
    BY <2>1, <2>8, <2>10, <2>11, <2>12
<1>2. CASE ~Execute
  <2>1. /\ OnlyMessages /\ Done \in Int /\ Done' \in Int /\ Done' >= Done
        /\ executed' = executed /\ Len(sent') >= Len(sent)
        /\ \A i \in 1 .. Len(sent) : sent'[i] = sent[i]
    BY <1>2, DoneStep
  <2>2. PICK pick \in [1 .. Len(executed) -> 1 .. Len(sent)] :
          /\ \A i, j \in 1 .. Len(executed) : i < j => pick[i] < pick[j]
          /\ \A i \in 1 .. Len(executed) :
               executed[i] = Encode(sent[pick[i]]) /\ 5 * pick[i] <= Done
    BY <2>1 DEF PicksDone
  <2>3. pick \in [1 .. Len(executed') -> 1 .. Len(sent')]
    BY <1>0, <2>1, <2>2
  <2>4. ASSUME NEW i \in 1 .. Len(executed)
        PROVE  executed'[i] = Encode(sent'[pick[i]]) /\ 5 * pick[i] <= Done'
    <3>1. pick[i] \in 1 .. Len(sent) /\ 5 * pick[i] <= Done /\ executed[i] = Encode(sent[pick[i]])
      BY <2>2
    <3> QED
      BY <2>1, <3>1
  <2> QED
    BY <2>1, <2>2, <2>3, <2>4
<1> QED
  BY <1>1, <1>2
-----------------------------------------------------------------------------
(* An uncut stream: nothing is skipped. *)

(* A cut is not forgotten. *)
LEMMA CutStays ==
  ASSUME TypeOK, UncutEnd, [Next]_vars, ~cut'
  PROVE  ~cut
<1>1. CASE Executed \/ Reject \/ EchoRest \/ Execute \/ HandlerEnds \/ Still
  BY <1>1 DEF Executed, Reject, EchoRest, Execute, HandlerEnds, Still
<1>2. ASSUME NEW u \in Unit, Send(u) PROVE ~cut
  BY <1>2 DEF Send
<1>3. ASSUME NEW n \in 1 .. Len(wire), Read(n) PROVE ~cut
  BY <1>3 DEF Read
<1> QED
  BY <1>1, <1>2, <1>3, StepKinds

(* As long as nothing was cut, the buffer begins where a message does.     *)
LEMMA UncutFront ==
  ASSUME TypeOK, StreamTail, UncutEnd, NoneSkipped, OnlyMessages, ~cut, pc = "frame"
  PROVE  /\ ~EchoRest /\ ~Reject
         /\ HasMessage(buffer) =>
              /\ CompleteMessage(buffer) = Encode(sent[Len(executed) + 1])
              /\ Find(buffer, CloseTag) = 3
              /\ Len(executed) + 1 \in 1 .. Len(sent)
<1>0. /\ Taken = 5 * Len(executed) /\ Len(executed) \in Nat /\ Len(buffer) \in Nat
      /\ buffer \in Seq(Symbol) /\ Taken + Len(buffer) <= 5 * Len(sent) /\ Len(sent) \in Nat
  <2>1. /\ Len(executed) \in Nat /\ Len(buffer) \in Nat /\ buffer \in Seq(Symbol)
        /\ Len(sent) \in Nat /\ Len(wire) \in Nat
    BY DEF TypeOK
  <2>2. Taken = 5 * Len(executed)
    BY DEF NoneSkipped, Done
  <2> QED
    BY <2>1, <2>2 DEF Taken
<1>1. ASSUME Len(buffer) >= 2
      PROVE  Find(buffer, OpenTag) = 0
  <2>1. 0 \in 0 .. Len(buffer) - 2 /\ (Taken + 0) % 5 = 0
    BY <1>0, <1>1
  <2>2. At(buffer, OpenTag, 0)
    BY <2>1, TagsAt
  <2>3. Find(buffer, OpenTag) \in 0 .. Len(buffer) - 2 /\ Find(buffer, OpenTag) <= 0
    BY <1>0, <2>1, <2>2, FindFirst
  <2> QED
    BY <1>0, <2>3
<1>2. ~EchoRest
  <2> SUFFICES ASSUME buffer # <<>>, Find(buffer, OpenTag) # 0
               PROVE  FALSE
    BY DEF EchoRest, Resumable
  <2>1. Len(buffer) = 1
    <3>1. Len(buffer) # 0
      BY <1>0, EmptySeq
    <3> DEFINE n == Len(buffer)
    <3>2. n \in Nat /\ n # 0 /\ ~(n >= 2)
      BY <1>0, <1>1, <3>1
    <3> HIDE DEF n
    <3>3. n = 1
      BY <3>2
    <3> QED
      BY <3>3 DEF n
  <2>2. buffer[1] = StreamAt(sent, Taken + 1)
    BY <2>1 DEF StreamTail
  <2>3. Taken + 1 \in 1 .. 5 * Len(sent) /\ ((Taken + 1) - 1) % 5 = 0
    BY <1>0, <2>1
  <2>4. StreamAt(sent, Taken + 1) = "<iso"
    BY <2>3, StreamSymbols
  <2> QED
    BY <2>1, <2>2, <2>4 DEF UncutEnd, Last, OpenTag
<1>3. ASSUME HasMessage(buffer)
      PROVE  /\ CompleteMessage(buffer) = Encode(sent[Len(executed) + 1])
             /\ Find(buffer, CloseTag) = 3
             /\ Len(executed) + 1 \in 1 .. Len(sent)
  <2> DEFINE start == Find(buffer, OpenTag)
             end   == Find(buffer, CloseTag)
  <2>1. start = 0 /\ end \in 0 .. Len(buffer) - 2
    BY <1>0, <1>1, <1>3, CompleteMessageIs
  <2>2. /\ end = start + 3
        /\ CompleteMessage(buffer) = Encode(sent[(Taken + start) \div 5 + 1])
        /\ (Taken + start) \div 5 + 1 \in 1 .. Len(sent)
    BY <1>3, <2>1, FirstMessage
  <2>3. (Taken + start) \div 5 + 1 = Len(executed) + 1
    <3> HIDE DEF start
    <3> QED
      BY <1>0, <2>1
  <2> QED
    BY <2>1, <2>2, <2>3
<1>4. ~Reject
  <2> SUFFICES ASSUME HasMessage(buffer), ~IsISO8583(RemoveNewLines(CompleteMessage(buffer)))
               PROVE  FALSE
    BY DEF Reject
  <2>1. sent[Len(executed) + 1] \in Message
    BY <1>3 DEF OnlyMessages, ToSet, TypeOK
  <2> QED
    BY <1>3, <2>1, MessageValid
<1> QED
  BY <1>2, <1>3, <1>4

(* Every step of an uncut stream keeps the executed messages all that has  *)
(* been dealt with: nothing is rejected, nothing is echoed.                *)
LEMMA SkippedNext ==
  ASSUME TypeOK, StreamTail, UncutEnd, NoneSkipped, [Next]_vars
  PROVE  NoneSkipped'
<1> SUFFICES ASSUME OnlyMessages', ~cut', pc' # "ended"
             PROVE  /\ Done' = 5 * Len(executed')
                    /\ \A i \in 1 .. Len(executed') : executed'[i] = Encode(sent'[i])
  BY DEF NoneSkipped
<1>0. /\ Len(executed) \in Nat /\ executed \in Seq(Seq(Symbol)) /\ Len(sent) \in Nat
      /\ buffer \in Seq(Symbol) /\ ~cut /\ pc # "ended" /\ ~HandlerEnds
  BY CutStays, EndStays DEF TypeOK
<1>1. CASE Execute
  <2>1. /\ UNCHANGED <<sent, wire, buffer>> /\ OnlyMessages /\ HasMessage(buffer)
        /\ pc = "frame" /\ pc' = "execute"
        /\ executed' = Append(executed, RemoveNewLines(CompleteMessage(buffer)))
    BY <1>1 DEF Execute, OnlyMessages
  <2> DEFINE n == Len(executed)
             e == Encode(sent[n + 1])
  <2>2. CompleteMessage(buffer) = e /\ Find(buffer, CloseTag) = 3 /\ n + 1 \in 1 .. Len(sent)
    BY <1>0, <2>1, UncutFront
  <2>3. sent[n + 1] \in Message
    BY <2>1, <2>2 DEF OnlyMessages, ToSet, TypeOK
  <2>4. RemoveNewLines(CompleteMessage(buffer)) = e /\ e \in Seq(Symbol)
    BY <2>2, <2>3, MessageValid, EncodeIs DEF Unit
  <2>5. Done = 5 * n /\ \A i \in 1 .. n : executed[i] = Encode(sent[i])
    BY <1>0, <2>1 DEF NoneSkipped
  <2>6. Taken' = Taken /\ Done = Taken /\ Done' = Taken + 3 + 2
    BY <2>1, <2>2, CloseTagLength DEF Taken, Done
  <2> HIDE DEF e
  <2>7. /\ Len(executed') = n + 1 /\ executed'[n + 1] = e
        /\ \A i \in 1 .. n : executed'[i] = executed[i]
    <3> DEFINE S == Seq(Symbol)
    <3>1. executed \in Seq(S) /\ e \in S
      BY <1>0, <2>4
    <3> HIDE DEF S
    <3>2. /\ Len(Append(executed, e)) = Len(executed) + 1
          /\ Append(executed, e)[Len(executed) + 1] = e
          /\ \A i \in 1 .. Len(executed) : Append(executed, e)[i] = executed[i]
      BY <3>1, AppendProperties
    <3> QED
      BY <2>1, <2>4, <3>2
  <2>8. Done' = 5 * Len(executed')
    <3>1. Done' = 5 * n + 3 + 2 /\ n \in Nat
      BY <1>0, <2>5, <2>6
    <3>2. Len(executed') = n + 1
      BY <2>7
    <3> HIDE DEF n
    <3> QED
      BY <3>1, <3>2
  <2>9. ASSUME NEW i \in 1 .. Len(executed')
        PROVE  executed'[i] = Encode(sent'[i])
    <3>1. CASE i = n + 1
      BY <2>1, <2>7, <3>1 DEF e
    <3>2. CASE i \in 1 .. n
      BY <2>1, <2>5, <2>7, <3>2
    <3> QED
      BY <1>0, <2>7, <3>1, <3>2
  <2> QED
    BY <2>8, <2>9
<1>2. CASE ~Execute
  <2>1. /\ OnlyMessages /\ executed' = executed
        /\ ~Reject /\ ~EchoRest /\ ~HandlerEnds => Done' = Done
        /\ \A i \in 1 .. Len(sent) : sent'[i] = sent[i]
    BY <1>2, DoneStep
  <2>2. ~Reject /\ ~EchoRest
    BY <1>0, <2>1, UncutFront DEF Reject, EchoRest
  <2>3. Done = 5 * Len(executed) /\ \A i \in 1 .. Len(executed) : executed[i] = Encode(sent[i])
    BY <1>0, <2>1 DEF NoneSkipped
  <2>4. Len(executed) <= Len(sent)
    BY <1>0, <2>3, DoneBound
  <2> QED
    BY <1>0, <2>1, <2>2, <2>3, <2>4
<1> QED
  BY <1>1, <1>2
-----------------------------------------------------------------------------
(* The pieces are the whole stream. *)

(* The function inside FlattenSeq: the first i payloads, one after the     *)
(* other.                                                                  *)
FlatStep(ss, g, i) == IF i = 1 THEN ss[i] ELSE g[i - 1] \o ss[i]

Flat(ss) == CHOOSE g : g = [i \in 1 .. Len(ss) |-> FlatStep(ss, g, i)]

(* A function that satisfies the recursion exists. *)
LEMMA FlatExists ==
  ASSUME NEW ss
  PROVE  \A n \in Nat : \E g : g = [i \in 1 .. n |-> FlatStep(ss, g, i)]
<1> DEFINE P == {n \in Nat : \E g : g = [i \in 1 .. n |-> FlatStep(ss, g, i)]}
<1>1. 0 \in P
  <2> DEFINE z == [i \in 1 .. 0 |-> <<>>]
  <2>1. z = [i \in 1 .. 0 |-> FlatStep(ss, z, i)]
    OBVIOUS
  <2> HIDE DEF z
  <2> QED
    BY <2>1
<1>2. ASSUME NEW k \in Nat, k \in P
      PROVE  k + 1 \in P
  <2>1. PICK g : g = [i \in 1 .. k |-> FlatStep(ss, g, i)]
    BY <1>2
  <2> DEFINE h == [i \in 1 .. k + 1 |-> FlatStep(ss, g, i)]
  <2>2. \A i \in 1 .. k : h[i] = g[i]
    BY <2>1
  <2>3. ASSUME NEW i \in 1 .. k + 1
        PROVE  FlatStep(ss, h, i) = FlatStep(ss, g, i)
    <3> HIDE DEF h
    <3>1. i # 1 => i - 1 \in 1 .. k
      OBVIOUS
    <3> QED
      BY <2>2, <3>1 DEF FlatStep
  <2>4. h = [i \in 1 .. k + 1 |-> FlatStep(ss, h, i)]
    BY <2>3
  <2> HIDE DEF h
  <2> QED
    BY <2>4
<1>3. \A k \in Nat : k \in P
  <2> HIDE DEF P
  <2> QED
    BY <1>1, <1>2, NatSetInduction
<1> QED
  BY <1>3

(* FlattenSeq, one payload at a time. *)
LEMMA FlatRecursion ==
  ASSUME NEW ss, Len(ss) \in Nat \ {0}
  PROVE  /\ FlattenSeq(ss) = Flat(ss)[Len(ss)]
         /\ \A i \in 1 .. Len(ss) : Flat(ss)[i] = FlatStep(ss, Flat(ss), i)
<1>1. FlattenSeq(ss) = Flat(ss)[Len(ss)]
  BY DEF FlattenSeq, Flat, FlatStep
<1>2. Flat(ss) = [i \in 1 .. Len(ss) |-> FlatStep(ss, Flat(ss), i)]
  BY FlatExists DEF Flat
<1> QED
  BY <1>1, <1>2

(* Payloads of five symbols each, one after the other. *)
LEMMA FlattenMessages ==
  ASSUME NEW ss \in Seq(Seq(Symbol)), \A i \in 1 .. Len(ss) : Len(ss[i]) = 5
  PROVE  /\ FlattenSeq(ss) \in Seq(Symbol) /\ Len(FlattenSeq(ss)) = 5 * Len(ss)
         /\ \A i \in 1 .. Len(ss), j \in 1 .. 5 : FlattenSeq(ss)[5 * (i - 1) + j] = ss[i][j]
<1>0. Len(ss) \in Nat /\ \A i \in 1 .. Len(ss) : ss[i] \in Seq(Symbol)
  OBVIOUS
<1>1. CASE Len(ss) = 0
  <2>1. ss = <<>> /\ FlattenSeq(ss) = ss
    BY <1>1, EmptySeq DEF FlattenSeq
  <2>2. FlattenSeq(ss) = <<>> /\ <<>> \in Seq(Symbol) /\ Len(FlattenSeq(ss)) = 0
    BY <1>1, <2>1, EmptySeq
  <2> QED
    BY <1>1, <2>2
<1>2. CASE Len(ss) # 0
  <2> DEFINE f == Flat(ss)
             IsFlat(n) == /\ f[n] \in Seq(Symbol) /\ Len(f[n]) = 5 * n
                          /\ \A i \in 1 .. n, j \in 1 .. 5 : f[n][5 * (i - 1) + j] = ss[i][j]
             P == {n \in Nat : n \in 1 .. Len(ss) => IsFlat(n)}
  <2>1. \A i \in 1 .. Len(ss) : f[i] = IF i = 1 THEN ss[i] ELSE f[i - 1] \o ss[i]
    BY <1>0, <1>2, FlatRecursion DEF FlatStep
  <2> HIDE DEF f
  <2>2. 0 \in P
    OBVIOUS
  <2>3. ASSUME NEW k \in Nat, k \in P
        PROVE  k + 1 \in P
    <3> SUFFICES ASSUME k + 1 \in 1 .. Len(ss)
                 PROVE  IsFlat(k + 1)
      OBVIOUS
    <3>0. ss[k + 1] \in Seq(Symbol) /\ Len(ss[k + 1]) = 5
      BY <1>0
    <3>1. CASE k = 0
      <4>1. f[1] = ss[1]
        BY <2>1, <3>1
      <4> QED
        BY <3>0, <3>1, <4>1
    <3>2. CASE k # 0
      <4>1. f[k + 1] = f[k] \o ss[k + 1] /\ IsFlat(k)
        <5>1. k \in 1 .. Len(ss) /\ k + 1 # 1 /\ (k + 1) - 1 = k
          BY <1>0, <3>2
        <5> QED
          BY <2>1, <2>3, <5>1
      <4> DEFINE a == f[k]
                 b == ss[k + 1]
      <4>2. a \in Seq(Symbol) /\ b \in Seq(Symbol) /\ Len(a) = 5 * k /\ Len(b) = 5
        BY <3>0, <4>1
      <4>3. \A i \in 1 .. k, j \in 1 .. 5 : a[5 * (i - 1) + j] = ss[i][j]
        BY <4>1
      <4> HIDE DEF a, b
      <4>4. /\ a \o b \in Seq(Symbol) /\ Len(a \o b) = Len(a) + Len(b)
            /\ \A i \in 1 .. Len(a) + Len(b) :
                 (a \o b)[i] = IF i <= Len(a) THEN a[i] ELSE b[i - Len(a)]
        BY <4>2, ConcatProperties, Zenon
      <4>5. Len(a \o b) = 5 * (k + 1)
        BY <4>2, <4>4
      <4>6. ASSUME NEW i \in 1 .. k + 1, NEW j \in 1 .. 5
            PROVE  (a \o b)[5 * (i - 1) + j] = ss[i][j]
        <5> DEFINE p == 5 * (i - 1) + j
        <5>1. CASE i \in 1 .. k
          <6>1. p \in 1 .. Len(a) + Len(b) /\ p <= Len(a)
            BY <4>2, <5>1
          <6> QED
            BY <4>3, <4>4, <5>1, <6>1
        <5>2. CASE i = k + 1
          <6>1. p \in 1 .. Len(a) + Len(b) /\ ~(p <= Len(a)) /\ p - Len(a) = j
            BY <4>2, <5>2
          <6>2. (a \o b)[p] = b[j]
            BY <4>4, <6>1
          <6> QED
            BY <5>2, <6>2 DEF b
        <5>3. i \in 1 .. k \/ i = k + 1
          OBVIOUS
        <5> QED
          BY <5>1, <5>2, <5>3
      <4> DEFINE c == a \o b
      <4>7. f[k + 1] = c
        BY <4>1 DEF a, b
      <4>8. c \in Seq(Symbol) /\ Len(c) = 5 * (k + 1)
        BY <4>4, <4>5
      <4>9. \A i \in 1 .. k + 1, j \in 1 .. 5 : c[5 * (i - 1) + j] = ss[i][j]
        BY <4>6
      <4> HIDE DEF c
      <4> QED
        BY <4>7, <4>8, <4>9
    <3> QED
      BY <3>1, <3>2
  <2>4. \A k \in Nat : k \in P
    <3> HIDE DEF P
    <3> QED
      BY <2>2, <2>3, NatSetInduction
  <2>5. IsFlat(Len(ss))
    BY <1>0, <1>2, <2>4
  <2>6. FlattenSeq(ss) = f[Len(ss)]
    BY <1>0, <1>2, FlatRecursion DEF f
  <2> QED
    BY <2>5, <2>6
<1> QED
  BY <1>1, <1>2

(* Where a symbol of the stream is: in which message, and where in it.     *)
LEMMA InMessage ==
  ASSUME NEW n \in Nat, NEW k \in 1 .. 5 * n
  PROVE  /\ (k - 1) \div 5 + 1 \in 1 .. n /\ ((k - 1) % 5) + 1 \in 1 .. 5
         /\ 5 * (((k - 1) \div 5 + 1) - 1) + (((k - 1) % 5) + 1) = k
<1>1. (k - 1) % 5 \in 0 .. 4 /\ (k - 1) \div 5 \in 0 .. n - 1
  OBVIOUS
<1>2. 5 * ((k - 1) \div 5) + ((k - 1) % 5) = k - 1
  OBVIOUS
<1> QED
  BY <1>1, <1>2

(* The payloads executed and what has not been dealt with are the stream.  *)
LEMMA ConservedInv ==
  ASSUME TypeOK, StreamTail, UncutEnd, NoneSkipped
  PROVE  StreamConserved
<1> DEFINE all  == [i \in 1 .. Len(sent) |-> Encode(sent[i])]
           rest == IF pc = "execute" THEN AfterMessage(buffer) ELSE buffer
<1> SUFFICES ASSUME OnlyMessages, ~cut, pc # "ended"
             PROVE  FlattenSeq(all) = FlattenSeq(executed) \o rest \o wire
  BY DEF StreamConserved
<1>0. /\ Len(sent) \in Nat /\ Len(buffer) \in Nat /\ Len(wire) \in Nat /\ Len(executed) \in Nat
      /\ buffer \in Seq(Symbol) /\ wire \in Seq(Symbol) /\ executed \in Seq(Seq(Symbol))
      /\ Taken \in Nat /\ \A i \in 1 .. Len(sent) : sent[i] \in Message
  BY DEF TypeOK, StreamTail, Taken, OnlyMessages, ToSet
<1>1. /\ Done = 5 * Len(executed) /\ Len(executed) <= Len(sent)
      /\ \A i \in 1 .. Len(executed) : executed[i] = Encode(sent[i])
  <2>1. Done = 5 * Len(executed) /\ \A i \in 1 .. Len(executed) : executed[i] = Encode(sent[i])
    BY DEF NoneSkipped
  <2> QED
    BY <1>0, <2>1, DoneBound
<1>2. \A i \in 1 .. Len(sent) : Encode(sent[i]) \in Seq(Symbol) /\ Len(Encode(sent[i])) = 5
  BY <1>0, EncodeIs DEF Unit
<1>3. /\ FlattenSeq(all) \in Seq(Symbol) /\ Len(FlattenSeq(all)) = 5 * Len(sent)
      /\ \A k \in 1 .. 5 * Len(sent) : FlattenSeq(all)[k] = StreamAt(sent, k)
  <2>1. /\ all \in Seq(Seq(Symbol)) /\ Len(all) = Len(sent)
        /\ \A i \in 1 .. Len(sent) : all[i] = Encode(sent[i])
    BY <1>0, <1>2, IsASeq
  <2> HIDE DEF all
  <2>2. /\ FlattenSeq(all) \in Seq(Symbol) /\ Len(FlattenSeq(all)) = 5 * Len(sent)
        /\ \A i \in 1 .. Len(sent), j \in 1 .. 5 :
             FlattenSeq(all)[5 * (i - 1) + j] = Encode(sent[i])[j]
    <3>1. \A i \in 1 .. Len(all) : Len(all[i]) = 5
      BY <1>2, <2>1
    <3>2. /\ FlattenSeq(all) \in Seq(Symbol) /\ Len(FlattenSeq(all)) = 5 * Len(all)
          /\ \A i \in 1 .. Len(all), j \in 1 .. 5 :
               FlattenSeq(all)[5 * (i - 1) + j] = all[i][j]
      BY <2>1, <3>1, FlattenMessages
    <3> QED
      BY <2>1, <3>2
  <2>3. ASSUME NEW k \in 1 .. 5 * Len(sent)
        PROVE  FlattenSeq(all)[k] = StreamAt(sent, k)
    <3> DEFINE i == (k - 1) \div 5 + 1
               j == ((k - 1) % 5) + 1
    <3>1. i \in 1 .. Len(sent) /\ j \in 1 .. 5 /\ 5 * (i - 1) + j = k
      BY <1>0, InMessage
    <3>2. StreamAt(sent, k) = Encode(sent[i])[j]
      BY DEF StreamAt
    <3> HIDE DEF i, j
    <3> QED
      BY <2>2, <3>1, <3>2
  <2> QED
    BY <2>2, <2>3
<1>4. /\ FlattenSeq(executed) \in Seq(Symbol) /\ Len(FlattenSeq(executed)) = Done
      /\ \A k \in 1 .. Done : FlattenSeq(executed)[k] = StreamAt(sent, k)
  <2>1. /\ FlattenSeq(executed) \in Seq(Symbol)
        /\ Len(FlattenSeq(executed)) = 5 * Len(executed)
        /\ \A i \in 1 .. Len(executed), j \in 1 .. 5 :
             FlattenSeq(executed)[5 * (i - 1) + j] = executed[i][j]
    <3>1. \A i \in 1 .. Len(executed) : Len(executed[i]) = 5
      BY <1>0, <1>1, <1>2
    <3> QED
      BY <1>0, <3>1, FlattenMessages
  <2>2. ASSUME NEW k \in 1 .. Done
        PROVE  FlattenSeq(executed)[k] = StreamAt(sent, k)
    <3> DEFINE i == (k - 1) \div 5 + 1
               j == ((k - 1) % 5) + 1
    <3>1. i \in 1 .. Len(executed) /\ j \in 1 .. 5 /\ 5 * (i - 1) + j = k
      BY <1>0, <1>1, InMessage
    <3>2. StreamAt(sent, k) = Encode(sent[i])[j]
      BY DEF StreamAt
    <3> HIDE DEF i, j
    <3> QED
      BY <1>1, <2>1, <3>1, <3>2
  <2> QED
    BY <1>1, <2>1, <2>2
<1>5. /\ rest \in Seq(Symbol) /\ Done + Len(rest) = Taken + Len(buffer) /\ Len(rest) \in Nat
      /\ \A k \in 1 .. Len(rest) : rest[k] = StreamAt(sent, Done + k)
  <2>1. CASE pc # "execute"
    <3>1. rest = buffer /\ Done = Taken
      BY <2>1 DEF Done
    <3> HIDE DEF rest
    <3> QED
      BY <1>0, <3>1 DEF StreamTail
  <2>2. CASE pc = "execute"
    <3> DEFINE d == Find(buffer, CloseTag) + 2
    <3>1. HasMessage(buffer) /\ rest = AfterMessage(buffer)
      BY <2>2 DEF UncutEnd
    <3>2. d \in 2 .. Len(buffer) /\ Len(buffer) > 0
      BY <1>0, <3>1, CompleteMessageIs
    <3>3. /\ rest \in Seq(Symbol) /\ Len(rest) = Len(buffer) - d
          /\ \A k \in 1 .. Len(rest) : rest[k] = buffer[d + k]
      BY <1>0, <3>1, <3>2, AfterMessageIs
    <3>4. Done = Taken + d
      <4>1. Done = Taken + Find(buffer, CloseTag) + 2
        BY <2>2, CloseTagLength DEF Done
      <4>2. Find(buffer, CloseTag) \in Nat
        BY <1>0, <3>1, CompleteMessageIs
      <4> QED
        BY <1>0, <4>1, <4>2
    <3> HIDE DEF rest, d
    <3>5. ASSUME NEW k \in 1 .. Len(rest)
          PROVE  rest[k] = StreamAt(sent, Done + k)
      <4>1. d + k \in 1 .. Len(buffer) /\ Taken + (d + k) = Done + k
        BY <1>0, <3>2, <3>3, <3>4
      <4> QED
        BY <3>3, <4>1 DEF StreamTail
    <3>6. Len(rest) \in Nat /\ Done + Len(rest) = Taken + Len(buffer)
      <4> DEFINE l == Len(buffer)
      <4>1. l \in Nat /\ d \in 2 .. l /\ Len(rest) = l - d /\ Taken \in Nat
        BY <1>0, <3>2, <3>3
      <4> HIDE DEF l
      <4>2. Len(rest) \in Nat /\ Done + Len(rest) = Taken + l
        BY <3>4, <4>1
      <4> QED
        BY <4>2 DEF l
    <3> QED
      BY <3>3, <3>5, <3>6
  <2> QED
    BY <2>1, <2>2
<1> DEFINE a == FlattenSeq(executed)
           c == a \o rest
           w == wire
<1>6. a \in Seq(Symbol) /\ rest \in Seq(Symbol) /\ w \in Seq(Symbol)
  BY <1>0, <1>4, <1>5
<1>7. /\ Len(a) = Done /\ Len(a) \in Nat /\ Len(rest) \in Nat /\ Len(w) \in Nat
      /\ Len(a) + Len(rest) + Len(w) = 5 * Len(sent)
  <2>1. Len(a) = Done /\ Done \in Nat /\ Len(rest) \in Nat /\ Len(wire) \in Nat
    BY <1>0, <1>1, <1>4, <1>5
  <2>2. Done + Len(rest) = Taken + Len(buffer)
    BY <1>5
  <2>3. Taken + Len(buffer) + Len(wire) = 5 * Len(sent)
    BY <1>0 DEF Taken
  <2> HIDE DEF a, rest
  <2> QED
    BY <2>1, <2>2, <2>3
<1>8. /\ \A k \in 1 .. Len(a) : a[k] = StreamAt(sent, k)
      /\ \A k \in 1 .. Len(rest) : rest[k] = StreamAt(sent, Len(a) + k)
  BY <1>4, <1>5
<1>9. \A k \in 1 .. Len(w) : w[k] = StreamAt(sent, Len(a) + Len(rest) + k)
  <2>1. Taken + Len(buffer) = Len(a) + Len(rest)
    BY <1>5, <1>7
  <2>2. \A k \in 1 .. Len(wire) : wire[k] = StreamAt(sent, Taken + Len(buffer) + k)
    BY DEF StreamTail
  <2> QED
    BY <2>1, <2>2
<1> HIDE DEF a, rest, w
<1>10. /\ c \in Seq(Symbol) /\ Len(c) = Len(a) + Len(rest)
       /\ \A k \in 1 .. Len(a) + Len(rest) :
            c[k] = IF k <= Len(a) THEN a[k] ELSE rest[k - Len(a)]
  BY <1>6, ConcatProperties, Zenon
<1>11. \A k \in 1 .. Len(c) : c[k] = StreamAt(sent, k)
  <2>1. ASSUME NEW k \in 1 .. Len(c)
        PROVE  c[k] = StreamAt(sent, k)
    <3> HIDE DEF c
    <3>1. CASE k <= Len(a)
      BY <1>7, <1>8, <1>10, <3>1
    <3>2. CASE ~(k <= Len(a))
      <4>1. k - Len(a) \in 1 .. Len(rest) /\ Len(a) + (k - Len(a)) = k
        BY <1>7, <1>10, <3>2
      <4>2. c[k] = rest[k - Len(a)]
        BY <1>7, <1>10, <3>2
      <4> QED
        BY <1>8, <4>1, <4>2
    <3> QED
      BY <3>1, <3>2
  <2> QED
    BY <2>1
<1> HIDE DEF c
<1>12. /\ c \o w \in Seq(Symbol) /\ Len(c \o w) = Len(c) + Len(w)
       /\ \A k \in 1 .. Len(c) + Len(w) :
            (c \o w)[k] = IF k <= Len(c) THEN c[k] ELSE w[k - Len(c)]
  <2>1. c \in Seq(Symbol) /\ w \in Seq(Symbol)
    BY <1>6, <1>10
  <2> QED
    BY <2>1, ConcatProperties, Zenon
<1>13. ASSUME NEW k \in 1 .. 5 * Len(sent)
       PROVE  (c \o w)[k] = StreamAt(sent, k)
  <2>0. k \in 1 .. Len(c) + Len(w) /\ Len(c) \in Nat
    BY <1>7, <1>10
  <2>1. CASE k <= Len(c)
    BY <1>11, <1>12, <2>0, <2>1
  <2>2. CASE ~(k <= Len(c))
    <3>1. k - Len(c) \in 1 .. Len(w) /\ Len(a) + Len(rest) + (k - Len(c)) = k
      BY <1>7, <1>10, <2>0, <2>2
    <3>2. (c \o w)[k] = w[k - Len(c)]
      BY <1>12, <2>0, <2>2
    <3> QED
      BY <1>9, <3>1, <3>2
  <2> QED
    BY <2>1, <2>2
<1>14. Len(c \o w) = 5 * Len(sent)
  BY <1>7, <1>10, <1>12
<1>15. FlattenSeq(all) = c \o w
  <2> DEFINE f == FlattenSeq(all)
             g == c \o w
  <2>1. /\ f \in Seq(Symbol) /\ g \in Seq(Symbol) /\ Len(f) = Len(g)
        /\ \A k \in 1 .. Len(f) : f[k] = g[k]
    BY <1>3, <1>12, <1>13, <1>14
  <2> HIDE DEF f, g
  <2>2. f = g
    BY <2>1, SeqEqual
  <2> QED
    BY <2>2 DEF f, g
<1> QED
  BY <1>15 DEF c, a, w
-----------------------------------------------------------------------------
(* A client that waits for its answers. *)

(* The front s of an encoded unit, and the rest w of it. *)
LEMMA FrontOfUnit ==
  ASSUME NEW s \in Seq(Symbol), NEW w \in Seq(Symbol), NEW u \in Unit, s \o w = Encode(u)
  PROVE  /\ Len(s) + Len(w) = Len(Encode(u))
         /\ \A k \in 1 .. Len(s) : s[k] = Encode(u)[k]
         /\ Len(s) = Len(Encode(u)) => s = Encode(u) /\ w = <<>>
<1> DEFINE e == Encode(u)
<1>1. e \in Seq(Symbol) /\ s \o w = e
  BY EncodeIs
<1> HIDE DEF e
<1>2. /\ Len(s \o w) = Len(s) + Len(w)
      /\ \A i \in 1 .. Len(s) + Len(w) : (s \o w)[i] = IF i <= Len(s) THEN s[i] ELSE w[i - Len(s)]
  BY ConcatProperties, Zenon
<1>3. Len(s) \in Nat /\ Len(w) \in Nat /\ Len(s) + Len(w) = Len(e)
  BY <1>1, <1>2
<1>4. \A k \in 1 .. Len(s) : s[k] = e[k]
  BY <1>1, <1>2, <1>3
<1>5. ASSUME Len(s) = Len(e)
      PROVE  s = e /\ w = <<>>
  <2>1. s = e
    BY <1>1, <1>4, <1>5, SeqEqual
  <2>2. Len(w) = 0
    BY <1>3, <1>5
  <2> QED
    BY <2>1, <2>2, EmptySeq
<1> QED
  BY <1>3, <1>4, <1>5 DEF e

(* The front of a message: it begins with its opening tag, and has the     *)
(* closing one when it is whole.                                           *)
LEMMA FrontOfMessage ==
  ASSUME NEW s \in Seq(Symbol), NEW w \in Seq(Symbol), NEW m \in Message,
         s \o w = Encode(m), 5 < SizeT
  PROVE  /\ s # <<>> => s[1] = "<iso"
         /\ Len(s) >= 2 => Find(s, OpenTag) = 0
         /\ HasMessage(s) => /\ s = Encode(m) /\ w = <<>>
                             /\ CompleteMessage(s) = Encode(m) /\ AfterMessage(s) = <<>>
<1>0. /\ Len(s) \in Nat /\ Len(w) \in Nat /\ m \in Unit
      /\ "<iso" # "</iso" /\ "msg>" # "</iso" /\ m # "</iso"
  BY MessageAssumption DEF Unit, Tags
<1>1. /\ Len(Encode(m)) = 5 /\ Encode(m) \in Seq(Symbol)
      /\ Encode(m)[1] = "<iso" /\ Encode(m)[2] = "msg>" /\ Encode(m)[3] = m
      /\ Encode(m)[4] = "</iso" /\ Encode(m)[5] = "msg>"
  BY <1>0, EncodeIs
<1>2. /\ Len(s) + Len(w) = 5
      /\ \A k \in 1 .. Len(s) : s[k] = Encode(m)[k]
      /\ Len(s) = 5 => s = Encode(m) /\ w = <<>>
  <2>1. /\ Len(s) + Len(w) = Len(Encode(m))
        /\ \A k \in 1 .. Len(s) : s[k] = Encode(m)[k]
        /\ Len(s) = Len(Encode(m)) => s = Encode(m) /\ w = <<>>
    BY <1>0, FrontOfUnit
  <2> QED
    BY <1>1, <2>1
<1>3. s # <<>> => s[1] = "<iso"
  <2>1. s # <<>> => 1 \in 1 .. Len(s)
    BY <1>0, EmptySeq
  <2> QED
    BY <1>1, <1>2, <2>1
<1>4. ASSUME Len(s) >= 2
      PROVE  Find(s, OpenTag) = 0
  <2>1. 0 \in 0 .. Len(s) - 2 /\ 1 \in 1 .. Len(s) /\ 2 \in 1 .. Len(s)
    BY <1>0, <1>4
  <2>2. s[0 + 1] = "<iso" /\ s[0 + 2] = "msg>"
    BY <1>1, <1>2, <2>1
  <2>3. At(s, OpenTag, 0)
    BY <2>2 DEF At, OpenTag
  <2>4. Find(s, OpenTag) \in 0 .. Len(s) - 2 /\ Find(s, OpenTag) <= 0
    BY <2>1, <2>3, FindFirst
  <2> QED
    BY <1>0, <2>4
<1>5. ASSUME HasMessage(s)
      PROVE  /\ s = Encode(m) /\ w = <<>>
             /\ CompleteMessage(s) = Encode(m) /\ AfterMessage(s) = <<>>
  <2> DEFINE end == Find(s, CloseTag)
  <2>1. end \in 0 .. Len(s) - 2 /\ At(s, CloseTag, end)
    BY <1>5, FindFirst DEF HasMessage
  <2> HIDE DEF end
  <2>2. s[end + 1] = "</iso" /\ end + 1 \in 1 .. Len(s) /\ end \in 0 .. 3
    BY <1>0, <1>2, <2>1 DEF At, CloseTag
  <2>3. end = 3
    <3>1. Encode(m)[end + 1] = "</iso"
      BY <1>2, <2>2
    <3>2. /\ Encode(m)[1] # "</iso" /\ Encode(m)[2] # "</iso"
          /\ Encode(m)[3] # "</iso"
      BY <1>0, <1>1
    <3>3. end + 1 # 1 /\ end + 1 # 2 /\ end + 1 # 3
      BY <3>1, <3>2
    <3> QED
      BY <2>2, <3>3
  <2>4. Len(s) = 5
    <3>1. 3 <= Len(s) - 2
      BY <2>1, <2>3
    <3>2. Len(s) + Len(w) = 5 /\ Len(s) \in Nat /\ Len(w) \in Nat
      BY <1>0, <1>2
    <3>3. \A i, j \in Nat : i + j = 5 /\ 3 <= i - 2 => i = 5
      OBVIOUS
    <3> QED
      BY <3>1, <3>2, <3>3, Zenon
  <2>5. MessageLength(0, end) = 5
    BY <2>3, MessageLengthIs
  <2>6. CompleteMessage(s) = SubStr(s, 0, 5)
    BY <1>4, <1>5, <2>4, <2>5, CompleteMessageIs DEF end
  <2>7. SubStr(s, 0, 5) = s
    <3> DEFINE sub == SubStr(s, 0, 5)
    <3>1. 0 \in Nat /\ 5 \in Nat /\ 0 <= Len(s)
      BY <1>0
    <3>2. /\ sub \in Seq(Symbol)
          /\ Len(sub) = IF 0 + 5 < Len(s) THEN 5 ELSE Len(s) - 0
          /\ \A i \in 1 .. Len(sub) : sub[i] = s[0 + i]
      BY <3>1, SubStrIs, Zenon
    <3> HIDE DEF sub
    <3>3. Len(sub) = Len(s)
      BY <2>4, <3>2
    <3>4. \A i \in 1 .. Len(s) : sub[i] = s[i]
      <4>1. ASSUME NEW i \in 1 .. Len(s)
            PROVE  sub[i] = s[i]
        <5>1. i \in 1 .. Len(sub) /\ 0 + i = i
          BY <3>3
        <5> QED
          BY <3>2, <5>1
      <4> QED
        BY <4>1
    <3>5. sub = s
      BY <3>2, <3>3, <3>4, SeqEqual
    <3> QED
      BY <3>5 DEF sub
  <2>8. AfterMessage(s) = <<>>
    <3>1. Find(s, CloseTag) = 3 /\ Len(s) > 0
      BY <2>3, <2>4 DEF end
    <3>2. /\ AfterMessage(s) \in Seq(Symbol)
          /\ Len(AfterMessage(s)) = Len(s) - (Find(s, CloseTag) + 2)
      BY <3>1, AfterMessageIs
    <3>3. Len(AfterMessage(s)) = 0
      BY <2>4, <3>1, <3>2
    <3> QED
      BY <3>2, <3>3, EmptySeq
  <2> QED
    BY <1>2, <2>4, <2>6, <2>7, <2>8
<1> QED
  BY <1>3, <1>4, <1>5

(* Anything else is one symbol that is no tag. *)
LEMMA FrontOfOther ==
  ASSUME NEW s \in Seq(Symbol), NEW w \in Seq(Symbol), NEW u \in Unit \ Message,
         s \o w = Encode(u)
  PROVE  /\ ~HasMessage(s)
         /\ s # <<>> => s = Encode(u) /\ w = <<>> /\ s # <<>>
<1>1. Len(Encode(u)) = 1 /\ Len(s) \in Nat /\ Len(w) \in Nat
  BY EncodeIs
<1>2. Len(s) + Len(w) = 1 /\ (Len(s) = 1 => s = Encode(u) /\ w = <<>>)
  BY <1>1, FrontOfUnit
<1>3. ~HasMessage(s)
  BY <1>1, <1>2, CompleteMessageIs
<1>4. s # <<>> => Len(s) # 0
  BY EmptySeq
<1> QED
  BY <1>1, <1>2, <1>3, <1>4

(* A message whole in the buffer, when the client waits for its answer.    *)
LEMMA WaitingFrame ==
  ASSUME TypeOK, StreamTail, OneUnderWay, waits, ~cut, HasMessage(buffer)
  PROVE  /\ Len(answers) + 1 = Len(sent) /\ Last(sent) \in Message
         /\ buffer = Encode(Last(sent)) /\ wire = <<>>
         /\ CompleteMessage(buffer) = Encode(Last(sent)) /\ AfterMessage(buffer) = <<>>
<1>0. /\ buffer \in Seq(Symbol) /\ wire \in Seq(Symbol) /\ Len(sent) \in Nat
      /\ Len(answers) \in Nat /\ buffer # <<>>
  <2>1. buffer \in Seq(Symbol) /\ wire \in Seq(Symbol) /\ Len(sent) \in Nat /\ Len(answers) \in Nat
    BY DEF TypeOK
  <2>2. Len(buffer) # 0
    BY <2>1, CompleteMessageIs
  <2> QED
    BY <2>1, <2>2, EmptySeq
<1>1. Len(answers) + 1 = Len(sent) /\ buffer \o wire = Encode(Last(sent))
  BY <1>0 DEF OneUnderWay
<1>2. Last(sent) \in Unit /\ 5 < SizeT
  <2>1. Len(sent) >= 1 /\ Len(sent) <= MaxSent
    BY <1>0, <1>1 DEF StreamTail
  <2>2. Last(sent) \in Unit
    BY <1>0, <2>1 DEF Last, TypeOK
  <2> QED
    BY <1>0, <2>1, <2>2, BoundAssumption
<1>3. Last(sent) \in Message
  BY <1>0, <1>1, <1>2, FrontOfOther
<1> QED
  BY <1>0, <1>1, <1>2, <1>3, FrontOfMessage

(* What the client is answered last. *)
LEMMA AnswerLast ==
  ASSUME TypeOK, AnsweredInKind, waits, ~cut, Len(answers) + 1 = Len(sent),
         NEW kind \in {"response", "echo"}, NEW next,
         kind = IF Last(sent) \in Message THEN "response" ELSE "echo",
         Reply(kind, Encode(Last(sent)), next), UNCHANGED <<waits, sent>>
  PROVE  /\ AnsweredInKind'
         /\ Len(answers') = Len(answers) \/ Len(answers') = Len(sent)
<1>0. Len(sent) \in Nat /\ Len(answers) \in Nat /\ Last(sent) \in Unit /\ Last(sent) = sent[Len(sent)]
  BY DEF TypeOK, Last
<1> DEFINE a == [kind |-> kind, data |-> Encode(Last(sent))]
<1>1. a \in Answer /\ Encode(Last(sent)) # <<>>
  <2>1. Encode(Last(sent)) \in Seq(Symbol) /\ Len(Encode(Last(sent))) # 0
    BY <1>0, EncodeIs
  <2> QED
    BY <2>1, EmptySeq DEF Answer
<1>2. answers' = answers \/ answers' = Append(answers, a)
  BY <1>1 DEF Reply
<1>3. /\ Len(answers) <= Len(sent)
      /\ \A i \in 1 .. Len(answers) :
           answers[i] = [kind |-> IF sent[i] \in Message THEN "response" ELSE "echo",
                         data |-> Encode(sent[i])]
  BY DEF AnsweredInKind
<1>4. CASE answers' = answers
  BY <1>3, <1>4 DEF AnsweredInKind
<1>5. CASE answers' = Append(answers, a)
  <2> DEFINE n == Len(answers)
  <2>1. a = [kind |-> IF sent[n + 1] \in Message THEN "response" ELSE "echo",
             data |-> Encode(sent[n + 1])]
    BY <1>0
  <2>2. /\ Len(answers') = n + 1 /\ answers'[n + 1] = a
        /\ \A i \in 1 .. n : answers'[i] = answers[i]
    <3> HIDE DEF a
    <3>1. answers \in Seq(Answer)
      BY DEF TypeOK
    <3> QED
      BY <1>1, <1>5, <3>1, AppendProperties
  <2> HIDE DEF a
  <2>3. ASSUME NEW i \in 1 .. Len(answers')
        PROVE  answers'[i] = [kind |-> IF sent[i] \in Message THEN "response" ELSE "echo",
                              data |-> Encode(sent[i])]
    <3>1. i \in 1 .. n \/ i = n + 1
      BY <1>0, <2>2
    <3> QED
      BY <1>3, <2>1, <2>2, <3>1
  <2>4. Len(answers') = Len(sent) /\ Len(answers') <= Len(sent)
    BY <1>0, <2>2
  <2> QED
    BY <2>3, <2>4 DEF AnsweredInKind
<1> QED
  BY <1>2, <1>4, <1>5

(* Concatenation is associative. *)
LEMMA ConcatSymbols ==
  ASSUME NEW s \in Seq(Symbol), NEW t \in Seq(Symbol), NEW u \in Seq(Symbol)
  PROVE  (s \o t) \o u = s \o (t \o u)
<1> DEFINE S == Symbol
<1>1. s \in Seq(S) /\ t \in Seq(S) /\ u \in Seq(S)
  OBVIOUS
<1> HIDE DEF S
<1> QED
  BY <1>1, ConcatAssociative

(* Every step of a connection whose client waits keeps at most one unit    *)
(* under way, and answers it in kind: the response when its message was    *)
(* executed, an echo when it is anything else.                             *)
LEMMA UnderWayNext ==
  ASSUME TypeOK, StreamTail, UncutEnd, OneUnderWay, AnsweredInKind, [Next]_vars
  PROVE  OneUnderWay' /\ AnsweredInKind'
<1>0. waits' = waits
  <2>1. CASE Execute \/ Executed \/ Reject \/ EchoRest \/ HandlerEnds \/ Still
    BY <2>1 DEF Execute, Executed, Reject, EchoRest, HandlerEnds, Still
  <2>2. ASSUME NEW u \in Unit, Send(u) PROVE waits' = waits
    BY <2>2 DEF Send
  <2>3. ASSUME NEW n \in 1 .. Len(wire), Read(n) PROVE waits' = waits
    BY <2>3 DEF Read
  <2> QED
    BY <2>1, <2>2, <2>3, StepKinds
<1> SUFFICES ASSUME waits, ~cut, ~cut'
             PROVE  OneUnderWay' /\ AnsweredInKind'
  BY <1>0, CutStays DEF OneUnderWay, AnsweredInKind
<1>1. /\ buffer \in Seq(Symbol) /\ wire \in Seq(Symbol) /\ Len(sent) \in Nat
      /\ Len(answers) \in Nat /\ sent \in Seq(Unit)
  BY DEF TypeOK
<1>2. ASSUME NEW u \in Unit, Send(u)
      PROVE  OneUnderWay' /\ AnsweredInKind'
  <2>1. /\ UNCHANGED <<waits, pc, buffer, executed, answers, cut>>
        /\ wire' = wire \o Encode(u) /\ Len(answers) >= Len(sent)
    BY <1>2 DEF Send
  <2>2. /\ Len(answers) = Len(sent) /\ pc # "execute" /\ buffer = <<>> /\ wire = <<>>
    BY <1>1, <2>1 DEF OneUnderWay
  <2>3. /\ Len(sent') = Len(sent) + 1 /\ Last(sent') = u
        /\ \A i \in 1 .. Len(sent) : sent'[i] = sent[i]
    BY <1>2, StreamGrows
  <2>4. buffer' \o wire' = Encode(u)
    <3> DEFINE e == Encode(u)
    <3>1. e \in Seq(Symbol)
      BY EncodeIs
    <3> HIDE DEF e
    <3>2. <<>> \o e = e
      BY <3>1, ConcatEmptySeq
    <3> QED
      BY <2>1, <2>2, <3>2 DEF e
  <2>5. OneUnderWay'
    BY <1>1, <2>1, <2>2, <2>3, <2>4 DEF OneUnderWay
  <2>6. AnsweredInKind'
    <3>1. /\ Len(answers) <= Len(sent')
      BY <1>1, <2>2, <2>3
    <3>2. ASSUME NEW i \in 1 .. Len(answers)
          PROVE  answers[i] = [kind |-> IF sent'[i] \in Message THEN "response" ELSE "echo",
                               data |-> Encode(sent'[i])]
      <4>1. sent'[i] = sent[i]
        BY <2>2, <2>3
      <4> QED
        BY <4>1 DEF AnsweredInKind
    <3> QED
      BY <2>1, <3>1, <3>2 DEF AnsweredInKind
  <2> QED
    BY <2>5, <2>6
<1>3. ASSUME NEW n \in 1 .. Len(wire), Read(n)
      PROVE  OneUnderWay' /\ AnsweredInKind'
  <2>1. /\ UNCHANGED <<waits, sent, executed, answers>> /\ pc' = "frame"
        /\ buffer' = buffer \o SubSeq(wire, 1, n)
        /\ wire' = SubSeq(wire, n + 1, Len(wire))
    BY <1>3 DEF Read
  <2>2. wire # <<>>
    BY <1>1, EmptySeq
  <2>3. Len(answers) + 1 = Len(sent) /\ buffer \o wire = Encode(Last(sent))
    BY <2>2 DEF OneUnderWay
  <2>4. buffer' \o wire' = buffer \o wire
    <3> DEFINE a == SubSeq(wire, 1, n)
               b == SubSeq(wire, n + 1, Len(wire))
    <3>1. a \in Seq(Symbol) /\ b \in Seq(Symbol)
      BY <1>1
    <3>2. a \o b = wire
      <4>1. 1 \in 1 .. Len(wire) + 1 /\ n \in 1 - 1 .. Len(wire) /\ Len(wire) \in n .. Len(wire)
        BY <1>1
      <4>2. a \o b = SubSeq(wire, 1, Len(wire))
        BY <1>1, <4>1, ConcatAdjacentSubSeq, Zenon
      <4> QED
        BY <1>1, <4>2, SubSeqFull
    <3> HIDE DEF a, b
    <3>3. (buffer \o a) \o b = buffer \o (a \o b)
      BY <1>1, <3>1, ConcatSymbols
    <3> QED
      BY <2>1, <3>2, <3>3 DEF a, b
  <2> QED
    BY <2>1, <2>3, <2>4 DEF OneUnderWay, AnsweredInKind
<1>4. CASE Execute
  <2>1. /\ UNCHANGED <<waits, sent, wire, buffer, answers>> /\ HasMessage(buffer)
        /\ executed' = Append(executed, RemoveNewLines(CompleteMessage(buffer)))
    BY <1>4 DEF Execute
  <2> DEFINE e == Encode(Last(sent))
  <2>2. /\ Len(answers) + 1 = Len(sent) /\ Last(sent) \in Message
        /\ buffer = e /\ wire = <<>> /\ CompleteMessage(buffer) = e
    BY <2>1, WaitingFrame
  <2>3. RemoveNewLines(CompleteMessage(buffer)) = e /\ e \in Seq(Symbol)
    BY <2>2, MessageValid, EncodeIs DEF Unit
  <2> HIDE DEF e
  <2>4. Last(executed') = e
    <3> DEFINE S == Seq(Symbol)
    <3>1. executed \in Seq(S) /\ e \in S /\ executed' = Append(executed, e)
      BY <2>1, <2>3 DEF TypeOK
    <3> HIDE DEF S
    <3>2. Len(Append(executed, e)) = Len(executed) + 1 /\ Append(executed, e)[Len(executed) + 1] = e
      BY <3>1, AppendProperties
    <3> QED
      BY <3>1, <3>2 DEF Last
  <2>5. buffer \o wire = e
    BY <2>2, <2>3, ConcatEmptySeq
  <2> QED
    BY <2>1, <2>2, <2>4, <2>5 DEF OneUnderWay, AnsweredInKind, e
<1>5. CASE Executed
  <2>1. /\ UNCHANGED <<waits, sent, wire, executed>> /\ HasMessage(buffer) /\ pc = "execute"
        /\ buffer' = AfterMessage(buffer) /\ pc' # "execute"
    BY <1>5, ExecutedDrops DEF Executed, Dropped
  <2>2. /\ Len(answers) + 1 = Len(sent) /\ Last(sent) \in Message
        /\ buffer' = <<>> /\ wire' = <<>> /\ Last(executed) = Encode(Last(sent))
    BY <2>1, WaitingFrame DEF OneUnderWay
  <2>3. AnsweredInKind' /\ (Len(answers') = Len(answers) \/ Len(answers') = Len(sent))
    <3>1. CASE Reply("response", Last(executed), "frame")
      BY <2>1, <2>2, <3>1, AnswerLast
    <3>2. CASE UNCHANGED answers
      BY <2>1, <3>2 DEF AnsweredInKind
    <3> QED
      BY <1>5, <3>1, <3>2 DEF Executed
  <2> QED
    BY <2>1, <2>2, <2>3 DEF OneUnderWay
<1>6. CASE Reject
  <2>1. HasMessage(buffer) /\ ~IsISO8583(RemoveNewLines(CompleteMessage(buffer)))
    BY <1>6 DEF Reject
  <2> QED
    BY <2>1, WaitingFrame, MessageValid
<1>7. CASE EchoRest
  <2>1. /\ UNCHANGED <<waits, sent, wire, executed>> /\ buffer # <<>> /\ Find(buffer, OpenTag) # 0
        /\ buffer' = <<>> /\ pc' # "execute" /\ pc # "execute"
        /\ Reply("echo", buffer, "read")
    BY <1>7, EchoRestDrops DEF EchoRest, Resumable, Dropped
  <2>2. Len(answers) + 1 = Len(sent) /\ buffer \o wire = Encode(Last(sent))
    BY <2>1 DEF OneUnderWay
  <2>3. Last(sent) \in Unit /\ 5 < SizeT
    <3>1. Len(sent) >= 1 /\ Len(sent) <= MaxSent
      BY <1>1, <2>2 DEF StreamTail
    <3>2. Last(sent) \in Unit
      BY <1>1, <3>1 DEF Last
    <3> QED
      BY <1>1, <3>1, <3>2, BoundAssumption
  <2>4. Last(sent) \notin Message
    <3> SUFFICES ASSUME Last(sent) \in Message
                 PROVE  FALSE
      OBVIOUS
    <3>1. ~(Len(buffer) >= 2) /\ buffer[1] = "<iso"
      BY <1>1, <2>1, <2>2, <2>3, FrontOfMessage
    <3>2. Len(buffer) # 0
      BY <1>1, <2>1, EmptySeq
    <3>3. Len(buffer) = 1
      <4> DEFINE n == Len(buffer)
      <4>1. n \in Nat /\ n # 0 /\ ~(n >= 2)
        BY <1>1, <3>1, <3>2
      <4> HIDE DEF n
      <4>2. n = 1
        BY <4>1
      <4> QED
        BY <4>2 DEF n
    <3> QED
      BY <2>1, <3>1, <3>3 DEF UncutEnd, Last, OpenTag
  <2>5. buffer = Encode(Last(sent)) /\ wire = <<>>
    BY <1>1, <2>1, <2>2, <2>3, <2>4, FrontOfOther
  <2>6. AnsweredInKind' /\ (Len(answers') = Len(answers) \/ Len(answers') = Len(sent))
    BY <2>1, <2>2, <2>4, <2>5, AnswerLast
  <2> QED
    BY <2>1, <2>2, <2>5, <2>6 DEF OneUnderWay
<1>8. CASE HandlerEnds
  <2>1. /\ UNCHANGED <<waits, sent, executed, answers, cut>>
        /\ buffer' = <<>> /\ wire' = <<>> /\ pc' = "ended"
    BY <1>8 DEF HandlerEnds
  <2> QED
    BY <2>1 DEF OneUnderWay, AnsweredInKind
<1>9. CASE Still
  BY <1>9 DEF Still, OneUnderWay, AnsweredInKind
<1> QED
  BY <1>2, <1>3, <1>4, <1>5, <1>6, <1>7, <1>8, <1>9, StepKinds

(* The inductive invariant. *)
CustomInv ==
  /\ TypeOK /\ StreamTail /\ UncutEnd
  /\ PicksDone /\ NoneSkipped
  /\ OneUnderWay /\ AnsweredInKind

(* It holds when the connection is accepted, *)
LEMMA CustomInit == Init => CustomInv
<1> SUFFICES ASSUME Init
             PROVE  CustomInv
  OBVIOUS
<1>1. TypeOK
  BY TypesInit
<1>2. /\ sent = <<>> /\ wire = <<>> /\ buffer = <<>> /\ executed = <<>> /\ answers = <<>>
      /\ pc = "read" /\ Len(<<>>) = 0 /\ MaxSent \in Nat
  BY BoundAssumption DEF Init
<1>3. StreamTail /\ UncutEnd /\ NoneSkipped /\ OneUnderWay /\ AnsweredInKind
  BY <1>2 DEF StreamTail, UncutEnd, NoneSkipped, OneUnderWay, AnsweredInKind, Taken, Done
<1>4. PicksDone
  <2> DEFINE none == [i \in 1 .. Len(executed) |-> 1]
  <2>1. Len(executed) = 0 /\ 1 .. Len(executed) = {}
    BY <1>2
  <2>2. none \in [1 .. Len(executed) -> 1 .. Len(sent)]
    BY <2>1
  <2>3. /\ \A i, j \in 1 .. Len(executed) : i < j => none[i] < none[j]
        /\ \A i \in 1 .. Len(executed) :
             executed[i] = Encode(sent[none[i]]) /\ 5 * none[i] <= Done
    BY <2>1
  <2> QED
    BY <2>2, <2>3, Zenon DEF PicksDone
<1> QED
  BY <1>1, <1>3, <1>4 DEF CustomInv

(* and every step of the client and of handleClientCustom keeps it. *)
LEMMA CustomNext == CustomInv /\ [Next]_vars => CustomInv'
<1> SUFFICES ASSUME CustomInv, [Next]_vars
             PROVE  CustomInv'
  OBVIOUS
<1>1. TypeOK'
  BY TypesNext DEF CustomInv
<1>2. StreamTail' /\ UncutEnd'
  BY <1>1, TailNext DEF CustomInv
<1>3. PicksDone' /\ NoneSkipped'
  BY PicksNext, SkippedNext DEF CustomInv
<1>4. OneUnderWay' /\ AnsweredInKind'
  BY UnderWayNext DEF CustomInv
<1> QED
  BY <1>1, <1>2, <1>3, <1>4 DEF CustomInv

(* In every state of a connection the buffer and the wire are the end of   *)
(* the stream, what was executed is in front of it, and a waiting client   *)
(* has at most one unit under way.                                         *)
THEOREM CustomAlways == Spec => []CustomInv
<1> QED
  BY CustomInit, CustomNext, PTL DEF Spec

(* As long as no read() ends inside an opening tag, handleClientCustom     *)
(* loses, reorders and doubles nothing of a stream of messages: what was   *)
(* executed, what is being framed and what is on the wire is what was      *)
(* sent, for any number of messages.                                       *)
THEOREM Conserved == Spec => []StreamConserved
<1>1. CustomInv => StreamConserved
  BY ConservedInv DEF CustomInv
<1> QED
  BY <1>1, CustomAlways, PTL

(* Wherever the reads end, what handleClientCustom has executed of a       *)
(* stream of messages is whole messages of it, in the order they were      *)
(* sent and none twice, for any number of messages.                        *)
THEOREM InOrder == Spec => []ExecutedInOrder
<1>1. CustomInv => ExecutedInOrder
  <2> SUFFICES ASSUME PicksDone, OnlyMessages
               PROVE  \E pick \in [1 .. Len(executed) -> 1 .. Len(sent)] :
                        /\ \A i, j \in 1 .. Len(executed) : i < j => pick[i] < pick[j]
                        /\ \A i \in 1 .. Len(executed) : executed[i] = Encode(sent[pick[i]])
    BY DEF CustomInv, ExecutedInOrder
  <2>1. PICK pick \in [1 .. Len(executed) -> 1 .. Len(sent)] :
          /\ \A i, j \in 1 .. Len(executed) : i < j => pick[i] < pick[j]
          /\ \A i \in 1 .. Len(executed) :
               executed[i] = Encode(sent[pick[i]]) /\ 5 * pick[i] <= Done
    BY DEF PicksDone
  <2> QED
    BY <2>1, Zenon
<1> QED
  BY <1>1, CustomAlways, PTL

(* A client that waits for the answer to a unit before it sends the next   *)
(* gets, for every unit, the response of a message or the echo of          *)
(* anything else, and never the answer to another one.                     *)
THEOREM InKind == Spec => []AnsweredInKind
<1>1. CustomInv => AnsweredInKind
  BY DEF CustomInv
<1> QED
  BY <1>1, CustomAlways, PTL
================================================================================
