---------------------------- MODULE PeriodicRefresh ----------------------------
(***************************************************************************)
(* The periodic thread and the clock.  In a loop it reads the expiry time  *)
(* from the environment, sleeps until a minute or two before it, and       *)
(* refreshes; with less than a minute left, or past the expiry, it goes    *)
(* round the loop without a pause.  The client handlers refresh the same   *)
(* token at any time, and the thread sleeps on.                            *)
(*                                                                         *)
(* Time is counted in half minutes, relative to now: left is what remains  *)
(* of the token.  Computation takes no time; sleeping, the exchange with   *)
(* the backend and the empty rounds of the loop do.  What a refresh does   *)
(* besides (files, numbers, other threads) is the subject of AccessToken.  *)
(***************************************************************************)
EXTENDS Integers, FiniteSets

CONSTANTS
  Life,         \* how long the backend lets a session live
  Shift,        \* what mktime adds to an expiry time while summer time is on
  Garbage,      \* what a time read from a dead stack frame may look like
  MaxExchange   \* how long an exchange with a reliable backend may take

ASSUME LifeAssumption ==
  /\ Life \subseteq Nat \ {0}
  /\ \E l \in Life : \A m \in Life : m <= l
ASSUME ShiftAssumption == Shift \in Nat /\ Garbage \subseteq Int
ASSUME ExchangeAssumption == MaxExchange \in {0, 1}   \* less than a minute

VARIABLES
  world,      \* where the server was installed: backend, time zone and build
  pc,         \* where the periodic thread is; "down": there is no process
  left,       \* the time until the token of the process expires
  nap,        \* the time the thread still sleeps
  asking,     \* the time its exchange with the backend takes, so far
  since,      \* history: the time since the thread last renewed the token
  punctual,   \* history: had the token a minute left when the server started?
  stop        \* stop_thread_flag

vars == <<world, pc, left, nap, asking, since, punctual, stop>>

(* lives: the life times its sessions get.  summer: getFutureTime writes   *)
(* local time and the tm it is parsed into says that summer time is off.   *)
(* intact: the frame of get_expirytime_from_env, whose tm is returned by   *)
(* address, is not yet overwritten when mktime reads it.  reliable: every  *)
(* refresh is granted.                                                     *)
World ==
  [ lives : (SUBSET Life) \ {{}}, summer : BOOLEAN, intact : BOOLEAN,
    reliable : BOOLEAN ]

Up == pc \in {"check", "sleep", "ask"}

Longest == CHOOSE l \in Life : \A m \in Life : m <= l
MktimeShift == IF world.summer THEN Shift ELSE 0
Minute   == 2                              \* in half minutes
Floor    == -(Shift + Minute)              \* bound: left counts no further down

TypeOK ==
  /\ world \in World
  /\ pc \in {"check", "sleep", "ask", "ended", "down"}
  /\ left \in Int /\ left >= Floor
  /\ nap \in Nat
  /\ asking \in 0..MaxExchange
  /\ since \in Nat
  /\ punctual \in BOOLEAN /\ stop \in BOOLEAN

(* No process; the environment file has a token of some earlier session.   *)
Init ==
  /\ world \in World
  /\ pc = "down"
  /\ \E l \in world.lives : left \in Floor..l
  /\ nap = 0
  /\ asking = 0
  /\ since = Longest
  /\ punctual = FALSE
  /\ stop = FALSE
-----------------------------------------------------------------------------
(* int(difference/60): the conversion truncates towards zero. *)
Truncate(d) == IF d >= 0 THEN d \div Minute ELSE -((-d) \div Minute)

(* Mutant: the minute is not subtracted. *)
WaitUntilExpiry(d) == Truncate(d)

(* checkIfOneMinuteBeforeExpiry, in minutes *)
WaitTime(d) == Truncate(d) - 1

(* What difftime(targetTime, currentTime) may return. *)
Difference == {left + MktimeShift} \cup (IF world.intact THEN {} ELSE Garbage)
-----------------------------------------------------------------------------
(* is_valid_access_token parses the time as the thread does, in a frame of *)
(* its own; setup() refreshes a token that it finds expired.               *)
Start ==
  /\ pc = "down"
  /\ pc' = "check"
  /\ stop' = FALSE
  /\ \/ /\ left + MktimeShift > 0
        /\ punctual' = (left >= Minute)
        /\ UNCHANGED left
     \/ /\ left + MktimeShift <= 0
        /\ left' \in world.lives
        /\ punctual' = (left' >= Minute)
  /\ UNCHANGED <<world, nap, asking, since>>

(* SIGINT: the handler only sets the flag. *)
Signal ==
  /\ Up /\ ~stop
  /\ stop' = TRUE
  /\ UNCHANGED <<world, pc, left, nap, asking, since, punctual>>

(* Mutant: a wait of zero minutes is taken for no wait. *)
FallAsleepIfPositive ==
  /\ pc = "check" /\ ~stop
  /\ \E d \in Difference :
       /\ WaitTime(d) > 0
       /\ nap' = Minute * WaitTime(d)
  /\ pc' = "sleep"
  /\ UNCHANGED <<world, left, asking, since, punctual, stop>>

(* Mutants: the wait is taken for seconds, as the name waittime_sec says;  *)
(* a negative wait is slept, too.                                          *)
FallAsleepSeconds ==
  /\ pc = "check" /\ ~stop
  /\ \E d \in Difference : WaitTime(d) > -1
  /\ nap' = 0
  /\ pc' = "sleep"
  /\ UNCHANGED <<world, left, asking, since, punctual, stop>>

FallAsleepAlways ==
  /\ pc = "check" /\ ~stop
  /\ \E d \in Difference : nap' = Minute * WaitTime(d)
  /\ pc' = "sleep"
  /\ UNCHANGED <<world, left, asking, since, punctual, stop>>

FallAsleep ==
  /\ pc = "check" /\ ~stop
  /\ \E d \in Difference :
       /\ WaitTime(d) > -1
       /\ nap' = Minute * WaitTime(d)
  /\ pc' = "sleep"
  /\ UNCHANGED <<world, left, asking, since, punctual, stop>>

(* The loop goes round without a pause, and time passes. *)
Spinning == pc = "check" /\ ~stop /\ \E d \in Difference : WaitTime(d) <= -1

(* Mutant: the flag is not read. *)
LeaveLoopNever == FALSE /\ UNCHANGED vars

LeaveLoop ==
  /\ pc = "check" /\ stop
  /\ pc' = "ended"
  /\ UNCHANGED <<world, left, nap, asking, since, punctual, stop>>

Wake ==
  /\ pc = "sleep" /\ nap = 0
  /\ pc' = "ask"
  /\ asking' = 0
  /\ UNCHANGED <<world, left, nap, since, punctual, stop>>

(* askRefreshToken: the expiry time is set from the moment of the answer.  *)
AskGranted ==
  /\ pc = "ask"
  /\ pc' = "check"
  /\ left' \in world.lives
  /\ since' = 0
  /\ UNCHANGED <<world, nap, asking, punctual, stop>>

(* {1, ""} is logged, and the loop goes on. *)
AskFails ==
  /\ pc = "ask" /\ ~world.reliable
  /\ pc' = "check"
  /\ UNCHANGED <<world, left, nap, asking, since, punctual, stop>>

(* future.get() rethrows on the detached thread, or processing the refusal *)
(* exits: the process ends.                                                *)
AskThrows ==
  /\ pc = "ask" /\ ~world.reliable
  /\ pc' = "down"
  /\ nap' = 0
  /\ UNCHANGED <<world, left, asking, since, punctual, stop>>

(* A client handler whose request was refused refreshes the token. *)
HandlerRefreshes ==
  /\ pc # "down"
  /\ left' \in world.lives
  /\ punctual' = (punctual \/ left' >= Minute)
  /\ UNCHANGED <<world, pc, nap, asking, since, stop>>

Tick ==
  /\ \/ pc \in {"down", "ended"} \/ Spinning
     \/ pc = "sleep" /\ nap > 0
     \/ pc = "ask" /\ (asking < MaxExchange \/ ~world.reliable)
  /\ left'   = IF left > Floor THEN left - 1 ELSE left
  /\ nap'    = IF pc = "sleep" THEN nap - 1 ELSE nap
  /\ asking' = IF pc = "ask" /\ asking < MaxExchange THEN asking + 1 ELSE asking
  /\ since'  = IF since < Longest THEN since + 1 ELSE since
  /\ UNCHANGED <<world, pc, punctual, stop>>

PeriodicThread ==
  \/ FallAsleep \/ LeaveLoop \/ Wake \/ AskGranted \/ AskFails \/ AskThrows

Next == Start \/ Signal \/ PeriodicThread \/ HandlerRefreshes \/ Tick

Spec == Init /\ [][Next]_vars

(* The scheduler runs the thread, the clock advances, and an exchange with *)
(* the backend ends, which curl has no timeout to ensure.                  *)
FairSpec ==
  /\ Spec
  /\ WF_vars(FallAsleep) /\ WF_vars(LeaveLoop) /\ WF_vars(Wake)
  /\ WF_vars(AskGranted \/ AskFails \/ AskThrows)
  /\ WF_vars(Tick)
-----------------------------------------------------------------------------
(* Where every session lives equally long, for a minute at least, summer   *)
(* time is off, mktime reads what was parsed, and the backend grants every *)
(* refresh within a minute.                                                *)
Favourable ==
  /\ Cardinality(world.lives) = 1
  /\ \A l \in world.lives : l >= Minute
  /\ ~world.summer /\ world.intact /\ world.reliable

(* In that world the token of a serving process is renewed before it       *)
(* expires, whatever the handlers refresh while the thread sleeps, unless  *)
(* the server started with less than a minute left.                        *)
TokenKept == Favourable /\ punctual /\ Up => left > 0

(* The thread renews the token no more often than it must: where sessions  *)
(* live equally long, it asks for the next one when at most a minute and a *)
(* half of that life is left to the one it got, however often the handlers *)
(* refresh, and in summer, too.  (With a life below two minutes it asks in *)
(* every round of the loop, and a refresh that fails is repeated without a *)
(* pause.)                                                                 *)
AsksSeldom ==
  (pc = "ask" /\ world.intact /\ Cardinality(world.lives) = 1)
    => \A l \in world.lives : since >= l - 3

(* While a token seems to have a minute left the thread gets to asking for *)
(* the next one, also after failed refreshes, unless the process or the    *)
(* loop ends.  With less than that it waits for a handler to refresh.      *)
AsksAgain ==
  (Up /\ world.intact /\ left + MktimeShift >= Minute
      /\ \A l \in world.lives : l >= Minute)
    ~> (pc = "ask" \/ ~Up)

(* The flag of SIGINT ends the loop, after at most one more sleep and one  *)
(* more refresh; it is read at the head of the loop only.                  *)
StopEndsLoop == stop ~> (pc \in {"ended", "down"} \/ ~stop)
-----------------------------------------------------------------------------
(* The inductive invariant, in named parts.  Behind TokenKept: the thread  *)
(* looks at a token with at least a minute left and wakes with a minute    *)
(* left; where it looks at one with less, it does not fall asleep.         *)
KeptInv ==
  Favourable =>
    /\ \A l \in world.lives : left <= l
    /\ Up /\ ~punctual => pc = "check" /\ left < Minute
    /\ punctual =>
         /\ pc = "check" => left >= Minute
         /\ pc = "sleep" => left >= nap + Minute
         /\ pc = "ask"   => left >= Minute - asking

(* Behind AsksSeldom: the token is no older than the last renewal, or the  *)
(* last renewal is a whole life ago.                                       *)
SeldomInv ==
  world.intact /\ Cardinality(world.lives) = 1 =>
    \A l \in world.lives :
      /\ left + since >= l \/ since >= l
      /\ pc = "sleep" => since + nap >= l - 3
      /\ pc = "ask"   => since >= l - 3

IInv == TypeOK /\ KeptInv /\ SeldomInv
================================================================================
