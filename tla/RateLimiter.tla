---------------------------- MODULE RateLimiter ----------------------------
(***************************************************************************)
(* The HTTP API's token buckets (brain/src/ratelimit.ts).  Time is counted *)
(* in units of refill: a bucket gains one unit per unit of time, and a     *)
(* request costs Token units.  The clock is Date.now(), which may step     *)
(* back.                                                                   *)
(***************************************************************************)
EXTENDS Integers

CONSTANTS
  Keys,
  Capacity,   \* the burst size, in units
  Token,      \* what a request costs
  Jumps,      \* how far the clock steps between two requests
  MaxClock    \* bound: the clock, and how far it moves forward in all

ASSUME LimiterAssumption ==
  /\ Token \in Nat \ {0} /\ Capacity \in Nat /\ Capacity >= Token
  /\ Jumps \subseteq Int /\ MaxClock \in Nat

VARIABLES
  clock,
  buckets,   \* buckets[k]: [held, tokens, last]; held is FALSE for no entry
  spent,     \* spent[k]: what the granted requests of k cost
  forward    \* how far the clock has moved forward

limiterVars == <<clock, buckets, spent, forward>>

Fresh(now) == [held |-> FALSE, tokens |-> Capacity, last |-> now]

LimiterInit ==
  /\ clock = 0
  /\ buckets = [k \in Keys |-> Fresh(0)]
  /\ spent = [k \in Keys |-> 0]
  /\ forward = 0

Lesser(a, b) == IF a < b THEN a ELSE b
Elapsed(b) == IF clock > b.last THEN clock - b.last ELSE 0

\* What the bucket holds now; one without an entry is full.
Refilled(b) ==
  IF b.held THEN Lesser(Capacity, b.tokens + Elapsed(b)) ELSE Capacity

Allow_keeps_the_time_of_a_refusal(k) ==
  LET b == buckets[k]
      cost == IF Refilled(b) >= Token THEN Token ELSE 0 IN
  /\ spent' = [spent EXCEPT ![k] = @ + cost]
  /\ buckets' = [buckets EXCEPT ![k] =
       IF b.held /\ Refilled(b) >= Capacity THEN Fresh(0)
       ELSE [held |-> TRUE, tokens |-> Refilled(b) - cost,
             last |-> IF cost > 0 THEN clock ELSE b.last]]
  /\ UNCHANGED <<clock, forward>>

\* allow: an entry that has refilled is dropped, after the request was taken
\* from it: what it cost is forgotten.
Allow(k) ==
  LET b == buckets[k]
      cost == IF Refilled(b) >= Token THEN Token ELSE 0 IN
  /\ spent' = [spent EXCEPT ![k] = @ + cost]
  /\ buckets' = [buckets EXCEPT ![k] =
       IF b.held /\ Refilled(b) >= Capacity THEN Fresh(0)
       ELSE [held |-> TRUE, tokens |-> Refilled(b) - cost, last |-> clock]]
  /\ UNCHANGED <<clock, forward>>

Tick ==
  /\ \E j \in Jumps :
       /\ clock' = clock + j
       /\ forward' = IF j > 0 THEN forward + j ELSE forward
  /\ clock' \in 0 .. MaxClock /\ forward' <= MaxClock
  /\ UNCHANGED <<buckets, spent>>

LimiterNext == Tick \/ \E k \in Keys : Allow(k)

LimiterSpec == LimiterInit /\ [][LimiterNext]_limiterVars

LimiterTypeOK ==
  /\ clock \in Nat /\ forward \in Nat
  /\ buckets \in [Keys -> [held : BOOLEAN, tokens : 0 .. Capacity, last : Nat]]
  /\ spent \in [Keys -> Nat]

\* However the clock moves, a key gets no more than its burst and twice what
\* the time refills.  (Not once: a request that finds its bucket full again
\* is not counted, so that one more comes with each refill.)
RateBounded == \A k \in Keys : spent[k] <= Capacity + 2 * forward
=============================================================================
