------------------------- MODULE PeriodicRefreshProofs -------------------------
(***************************************************************************)
(* The timing of the periodic thread, for all life times, shifts and       *)
(* readings of an overwritten stack: the token is renewed before it        *)
(* expires, and no more often than needed.                                 *)
(***************************************************************************)
EXTENDS PeriodicRefresh, FiniteSetTheorems, TLAPS

USE DEF Minute

(* The wait is the time left, rounded down to minutes, less one: a thread  *)
(* that sleeps wakes between a minute and a minute and a half before the   *)
(* time it has read, and it sleeps if and only if that is not past.        *)
LEMMA WaitBounds ==
  ASSUME NEW d \in Int
  PROVE  /\ WaitTime(d) \in Int
         /\ WaitTime(d) > -1 <=> d >= Minute
         /\ d >= Minute =>
              /\ Minute * WaitTime(d) \in Nat
              /\ d - 3 <= Minute * WaitTime(d)
              /\ Minute * WaitTime(d) <= d - Minute
<1>1. CASE d >= 0
  <2> DEFINE q == d \div 2
  <2>1. q \in Int /\ 2 * q <= d /\ d <= 2 * q + 1
    BY <1>1
  <2>2. WaitTime(d) = q - 1
    BY <1>1 DEF WaitTime, Truncate
  <2> HIDE DEF q
  <2> QED
    BY <1>1, <2>1, <2>2
<1>2. CASE d < 0
  <2> DEFINE q == (-d) \div 2
  <2>1. q \in Int /\ q >= 0
    BY <1>2
  <2>2. WaitTime(d) = -q - 1
    BY <1>2 DEF WaitTime, Truncate
  <2> HIDE DEF q
  <2> QED
    BY <1>2, <2>1, <2>2
<1> QED
  BY <1>1, <1>2

(* The longest life time is one of them. *)
LEMMA LongestLife ==
  /\ Longest \in Life /\ Longest \in Nat
  /\ \A l \in Life : l \in Nat /\ l > 0 /\ l <= Longest
<1>1. \E l \in Life : \A m \in Life : m <= l
  BY LifeAssumption
<1>2. Longest \in Life /\ \A m \in Life : m <= Longest
  BY <1>1, Zenon DEF Longest
<1>3. Life \subseteq Nat \ {0}
  BY Zenon, LifeAssumption
<1>4. \A l \in Life : l \in Nat /\ l > 0
  BY <1>3
<1> QED
  BY <1>2, <1>4

(* Sessions that live equally long have one life time. *)
LEMMA OneLife ==
  ASSUME NEW lives \in SUBSET Life, Cardinality(lives) = 1,
         NEW l \in lives, NEW m \in lives
  PROVE  l = m
<1>1. lives \in SUBSET Nat /\ \A x \in lives : x <= Longest
  BY LongestLife
<1>2. IsFiniteSet(lives)
  BY <1>1, LongestLife, FS_BoundedSetOfNaturals
<1>3. PICK x : lives = {x}
  BY <1>2, FS_Singleton
<1> QED
  BY <1>3

(* What the constants and the world may be. *)
LEMMA WorldFacts ==
  ASSUME TypeOK
  PROVE  /\ world.lives \subseteq Life /\ world.lives # {}
         /\ world.summer \in BOOLEAN /\ world.intact \in BOOLEAN
         /\ world.reliable \in BOOLEAN
         /\ MktimeShift \in Nat /\ MktimeShift <= Shift
         /\ \A d \in Difference : d \in Int
         /\ world.intact => Difference = {left + MktimeShift}
         /\ ~world.summer => MktimeShift = 0
         /\ Floor \in Int /\ Floor <= -2 /\ MaxExchange \in Nat
         /\ \A l \in world.lives : l \in Nat /\ l > 0 /\ l <= Longest
<1>1. world.lives \subseteq Life
  BY DEF TypeOK, World
<1>2. \A l \in world.lives : l \in Nat /\ l > 0 /\ l <= Longest
  BY <1>1, LongestLife
<1> QED
  BY <1>1, <1>2, ShiftAssumption, ExchangeAssumption
  DEF TypeOK, World, MktimeShift, Difference, Floor

-----------------------------------------------------------------------------
(* Types on a machine without a process. *)
LEMMA TypeInit == Init => TypeOK
<1> SUFFICES ASSUME Init
             PROVE  TypeOK
  OBVIOUS
<1>1. left \in Int /\ left >= Floor
  BY LongestLife, ShiftAssumption DEF Init, World, Floor
<1>2. Longest \in Nat /\ 0 \in 0..MaxExchange
  BY LongestLife, ExchangeAssumption
<1> QED
  BY <1>1, <1>2 DEF Init, TypeOK

(* Types through every step; a wait that is slept is not negative. *)
LEMMA TypeNext == TypeOK /\ [Next]_vars => TypeOK'
<1> SUFFICES ASSUME TypeOK, [Next]_vars
             PROVE  TypeOK'
  OBVIOUS
<1>0. /\ \A l \in world.lives : l \in Int /\ l >= Floor
      /\ Floor \in Int /\ 0 \in 0..MaxExchange
  <2>1. Floor \in Int /\ Floor <= -2 /\ 0 \in 0..MaxExchange
    BY WorldFacts
  <2>2. \A l \in world.lives : l \in Nat
    BY WorldFacts
  <2> QED
    BY <2>1, <2>2
<1>1. CASE Start \/ AskGranted \/ HandlerRefreshes
  <2>1. left' \in Int /\ left' >= Floor
    BY <1>0, <1>1 DEF Start, AskGranted, HandlerRefreshes, TypeOK
  <2>2. punctual' \in BOOLEAN /\ stop' \in BOOLEAN
    <3>1. Start => punctual' \in BOOLEAN
      <4>1. (left >= Minute) \in BOOLEAN /\ (left' >= Minute) \in BOOLEAN
        OBVIOUS
      <4> QED
        BY <4>1, Zenon DEF Start
    <3>2. HandlerRefreshes => punctual' \in BOOLEAN
      BY Zenon DEF HandlerRefreshes
    <3>3. AskGranted => punctual' = punctual
      BY DEF AskGranted
    <3>4. stop' \in BOOLEAN
      BY <1>1 DEF Start, AskGranted, HandlerRefreshes, TypeOK
    <3> QED
      BY <1>1, <3>1, <3>2, <3>3, <3>4, Zenon DEF TypeOK
  <2>3. /\ pc' \in {"check", "sleep", "ask", "ended", "down"}
        /\ UNCHANGED <<world, nap, asking>>
        /\ since' \in Nat
    BY <1>1 DEF Start, AskGranted, HandlerRefreshes, TypeOK
  <2> QED
    BY <2>1, <2>2, <2>3 DEF TypeOK
<1>2. CASE Signal \/ LeaveLoop \/ Wake \/ AskFails \/ AskThrows
  <2>1. stop' \in BOOLEAN /\ UNCHANGED <<world, left, since, punctual>>
    BY <1>2, Zenon DEF Signal, LeaveLoop, Wake, AskFails, AskThrows, TypeOK
  <2>2. /\ pc' \in {"check", "sleep", "ask", "ended", "down"}
        /\ nap' \in Nat /\ asking' \in 0..MaxExchange
    BY <1>0, <1>2 DEF Signal, LeaveLoop, Wake, AskFails, AskThrows, TypeOK
  <2> QED
    BY <2>1, <2>2 DEF TypeOK
<1>3. CASE FallAsleep
  <2>1. nap' \in Nat
    <3>1. PICK d \in Difference : WaitTime(d) > -1 /\ nap' = Minute * WaitTime(d)
      BY <1>3 DEF FallAsleep
    <3> QED
      BY <3>1, WaitBounds, WorldFacts
  <2> QED
    BY <1>3, <2>1 DEF FallAsleep, TypeOK
<1>4. CASE Tick
  <2>1. left' \in Int /\ left' >= Floor
    BY <1>0, <1>4 DEF Tick, TypeOK
  <2>2. nap' \in Nat
    BY <1>4 DEF Tick, Spinning, TypeOK
  <2>3. asking' \in 0..MaxExchange /\ since' \in Nat
    BY <1>4, ExchangeAssumption, LongestLife DEF Tick, TypeOK
  <2> QED
    BY <1>4, <2>1, <2>2, <2>3 DEF Tick, TypeOK
<1>5. CASE UNCHANGED vars
  BY <1>5 DEF vars, TypeOK
<1> QED
  BY <1>1, <1>2, <1>3, <1>4, <1>5 DEF Next, PeriodicThread

(* Every variable keeps its type: no negative time is handed to sleep_for, *)
(* whatever mktime has read.                                               *)
THEOREM TypeCorrect == Spec => []TypeOK
BY TypeInit, TypeNext, PTL DEF Spec
-----------------------------------------------------------------------------
(* In a favourable world all lives are one, of a minute or more. *)
LEMMA FavourableFacts ==
  ASSUME TypeOK, Favourable
  PROVE  /\ \A l, m \in world.lives : l = m
         /\ \A l \in world.lives : l \in Int /\ l >= Minute
         /\ Difference = {left} /\ world.reliable
<1>1. \A l, m \in world.lives : l = m
  BY WorldFacts, OneLife DEF Favourable
<1>2. \A l \in world.lives : l \in Int /\ l >= Minute
  BY WorldFacts DEF Favourable
<1>3. Difference = {left} /\ world.reliable
  BY WorldFacts DEF Favourable, TypeOK
<1> QED
  BY <1>1, <1>2, <1>3

(* KeptInv, step by step. *)
LEMMA KeptNext == TypeOK /\ TypeOK' /\ KeptInv /\ [Next]_vars => KeptInv'
<1> SUFFICES ASSUME TypeOK, TypeOK', KeptInv, [Next]_vars, Favourable'
             PROVE  KeptInv'
  BY DEF KeptInv
<1>0. world' = world
  BY DEF Next, Start, Signal, PeriodicThread, FallAsleep, LeaveLoop, Wake,
     AskGranted, AskFails, AskThrows, HandlerRefreshes, Tick, vars
<1>1. Favourable
  BY <1>0 DEF Favourable
<1>2. /\ \A l, m \in world.lives : l = m
      /\ \A l \in world.lives : l \in Int /\ l >= Minute /\ left <= l
      /\ Difference = {left} /\ world.reliable /\ MktimeShift = 0
      /\ left \in Int /\ nap \in Nat /\ asking \in Nat /\ punctual \in BOOLEAN
  BY <1>1, FavourableFacts, WorldFacts DEF KeptInv, TypeOK, Favourable
<1>3. CASE Start
  <2>1. /\ left' \in Int /\ \A l \in world.lives : left' <= l
    BY <1>2, <1>3 DEF Start
  <2>2. pc' = "check" /\ (punctual' <=> left' >= Minute)
    BY <1>3, Zenon DEF Start
  <2> QED
    BY <1>0, <1>1, <2>1, <2>2 DEF KeptInv, Up
<1>4. CASE Signal \/ LeaveLoop \/ AskFails \/ AskThrows
  BY <1>0, <1>1, <1>2, <1>4 DEF Signal, LeaveLoop, AskFails, AskThrows, KeptInv, Up
<1>5. CASE FallAsleep
  <2>1. WaitTime(left) > -1 /\ nap' = Minute * WaitTime(left)
    BY <1>2, <1>5 DEF FallAsleep
  <2>2. left >= Minute /\ left >= nap' + Minute
    BY <1>2, <2>1, WaitBounds
  <2>3. pc = "check" /\ pc' = "sleep" /\ UNCHANGED <<left, asking, punctual>>
    BY <1>5 DEF FallAsleep
  <2> QED
    BY <1>0, <1>1, <1>2, <2>2, <2>3 DEF KeptInv, Up
<1>6. CASE Wake
  BY <1>0, <1>1, <1>2, <1>6 DEF Wake, KeptInv, Up
<1>7. CASE AskGranted
  BY <1>0, <1>1, <1>2, <1>7 DEF AskGranted, KeptInv, Up
<1>8. CASE HandlerRefreshes
  <2>1. left' \in world.lives /\ left' >= Minute /\ left <= left' /\ punctual'
    BY <1>2, <1>8 DEF HandlerRefreshes
  <2>2. ~punctual => pc \in {"check", "ended"}
    BY <1>1, <1>2, <1>8 DEF HandlerRefreshes, KeptInv, Up, TypeOK
  <2>3. UNCHANGED <<pc, nap, asking>>
    BY <1>8 DEF HandlerRefreshes
  <2> QED
    BY <1>0, <1>1, <1>2, <2>1, <2>2, <2>3 DEF KeptInv
<1>9. CASE Tick
  <2>1. /\ left' \in {left, left - 1} /\ UNCHANGED <<pc, punctual>>
        /\ pc = "sleep" => nap > 0 /\ nap' = nap - 1
        /\ pc = "ask" => asking' = asking + 1
        /\ pc = "check" => WaitTime(left) <= -1
    BY <1>2, <1>9, ExchangeAssumption DEF Tick, Spinning, TypeOK
  <2>2. pc = "check" => left < Minute
    BY <1>2, <2>1, WaitBounds
  <2> QED
    BY <1>0, <1>1, <1>2, <2>1, <2>2 DEF KeptInv, Up
<1>10. CASE UNCHANGED vars
  BY <1>0, <1>1, <1>10 DEF vars, KeptInv, Up
<1> QED
  BY <1>3, <1>4, <1>5, <1>6, <1>7, <1>8, <1>9, <1>10 DEF Next, PeriodicThread

(* SeldomInv, step by step. *)
LEMMA SeldomNext == TypeOK /\ TypeOK' /\ SeldomInv /\ [Next]_vars => SeldomInv'
<1> SUFFICES ASSUME TypeOK, TypeOK', SeldomInv, [Next]_vars,
                    world'.intact, Cardinality(world'.lives) = 1,
                    NEW l \in world'.lives
             PROVE  /\ left' + since' >= l \/ since' >= l
                    /\ pc' = "sleep" => since' + nap' >= l - 3
                    /\ pc' = "ask"   => since' >= l - 3
  BY DEF SeldomInv
<1>0. world' = world
  BY DEF Next, Start, Signal, PeriodicThread, FallAsleep, LeaveLoop, Wake,
     AskGranted, AskFails, AskThrows, HandlerRefreshes, Tick, vars
<1>1. /\ left + since >= l \/ since >= l
      /\ pc = "sleep" => since + nap >= l - 3
      /\ pc = "ask"   => since >= l - 3
      /\ \A m \in world.lives : m = l
      /\ l \in Nat /\ l <= Longest /\ Longest \in Nat
      /\ Difference = {left + MktimeShift} /\ MktimeShift \in Nat
      /\ left \in Int /\ nap \in Nat /\ since \in Nat
  BY <1>0, WorldFacts, OneLife, LongestLife DEF SeldomInv, TypeOK
<1>2. CASE Start \/ AskGranted \/ HandlerRefreshes
  BY <1>1, <1>2 DEF Start, AskGranted, HandlerRefreshes
<1>3. CASE Signal \/ LeaveLoop \/ Wake \/ AskFails \/ AskThrows
  BY <1>1, <1>3 DEF Signal, LeaveLoop, Wake, AskFails, AskThrows
<1>4. CASE FallAsleep
  <2> DEFINE d == left + MktimeShift
  <2>1. d \in Int /\ WaitTime(d) > -1 /\ nap' = Minute * WaitTime(d)
    BY <1>1, <1>4 DEF FallAsleep
  <2>2. nap' \in Nat /\ d - 3 <= nap'
    BY <2>1, WaitBounds
  <2>3. pc' = "sleep" /\ UNCHANGED <<left, since>>
    BY <1>4 DEF FallAsleep
  <2>4. since + nap' >= l - 3
    <3>1. d >= left
      BY <1>1
    <3> HIDE DEF d
    <3> QED
      BY <1>1, <2>1, <2>2, <3>1
  <2> QED
    BY <1>1, <2>3, <2>4
<1>5. CASE Tick
  <2>1. /\ left' \in {left, left - 1} /\ UNCHANGED pc
        /\ since' = IF since < Longest THEN since + 1 ELSE since
        /\ pc = "sleep" => nap' = nap - 1
    BY <1>5 DEF Tick
  <2>2. since' = since + 1 \/ (since' = since /\ since >= l)
    BY <1>1, <2>1
  <2>3. left' + since' >= l \/ since' >= l
    <3>1. left' \in Int /\ left' >= left - 1
      BY <1>1, <2>1
    <3>2. /\ since \in Nat /\ left \in Int /\ l \in Nat
          /\ left + since >= l \/ since >= l
      BY <1>1
    <3> QED
      BY <2>2, <3>1, <3>2
  <2>4. pc' = "sleep" => since' + nap' >= l - 3
    BY <1>1, <2>1, <2>2
  <2>5. pc' = "ask" => since' >= l - 3
    BY <1>1, <2>1, <2>2
  <2> QED
    BY <2>3, <2>4, <2>5
<1>6. CASE UNCHANGED vars
  BY <1>1, <1>6 DEF vars
<1> QED
  BY <1>2, <1>3, <1>4, <1>5, <1>6 DEF Next, PeriodicThread

(* The inductive invariant. *)
THEOREM Inductive == Spec => []IInv
<1>1. Init => IInv
  <2> SUFFICES ASSUME Init
               PROVE  IInv
    OBVIOUS
  <2>1. TypeOK
    BY TypeInit
  <2>2. KeptInv
    <3> SUFFICES ASSUME Favourable
                 PROVE  \A l \in world.lives : left <= l
      BY DEF Init, KeptInv, Up
    <3>1. PICK l \in world.lives : left \in Floor..l
      BY DEF Init
    <3>2. l \in Int /\ Floor \in Int
      BY <2>1, WorldFacts
    <3> QED
      BY <2>1, <3>1, <3>2, FavourableFacts
  <2>3. SeldomInv
    BY <2>1, WorldFacts, LongestLife DEF Init, SeldomInv
  <2> QED
    BY <2>1, <2>2, <2>3 DEF IInv
<1>2. IInv /\ [Next]_vars => IInv'
  BY TypeNext, KeptNext, SeldomNext DEF IInv
<1> QED
  BY <1>1, <1>2, PTL DEF Spec

(* Where every session lives equally long, for a minute at least, and the  *)
(* backend is reliable, the token of a serving process does not expire.    *)
THEOREM Kept == Spec => []TokenKept
<1>1. IInv => TokenKept
  <2> SUFFICES ASSUME IInv, Favourable, punctual, Up
               PROVE  left > 0
    BY DEF TokenKept
  <2>1. left \in Int /\ nap \in Nat /\ asking \in 0..1
    BY ExchangeAssumption DEF IInv, TypeOK
  <2>2. \/ left >= Minute
        \/ left >= nap + Minute
        \/ left >= Minute - asking
    BY DEF IInv, KeptInv, Up
  <2> QED
    BY <2>1, <2>2
<1> QED
  BY <1>1, Inductive, PTL

(* Nor is it renewed when more than a minute and a half of its life is     *)
(* left, however often the client handlers refresh it in between.          *)
THEOREM Seldom == Spec => []AsksSeldom
<1>1. IInv => AsksSeldom
  BY DEF IInv, SeldomInv, AsksSeldom
<1> QED
  BY <1>1, Inductive, PTL
================================================================================
