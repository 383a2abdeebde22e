---------------------------- MODULE RateLimiter ----------------------------
(***************************************************************************)
(* The token bucket of src/src/backpressure/rate_limiter.rs, shared by     *)
(* threads.                                                                *)
(*                                                                         *)
(* The clock counts ticks since `created`.  The tokens are whole: the      *)
(* fixed-point word only ever holds multiples of its scale, far below      *)
(* where saturating_mul would tell.  A call is a sequence of accesses: the *)
(* clock, the swap of last_update_ns, the addition, the load of the tokens *)
(* with its compare-exchange, the counters.  Any other thread may come in  *)
(* between any two of them.                                                *)
(***************************************************************************)
EXTENDS Integers, FiniteSets

CONSTANTS
  Callers,         \* threads that share the limiter
  Capacity, InitialTokens,
  RefillNum, RefillDen,  \* refill_rate: RefillNum tokens in RefillDen ticks
  SleepTicks,      \* the pause of acquire between two attempts
  Demands,         \* the n of try_acquire_n
  Timeouts,        \* the timeouts given to acquire_timeout
  MaxTime,         \* bound: the last tick
  MaxCalls         \* bound: calls begun

ASSUME CapacityAssumption == Capacity \in Nat /\ InitialTokens \in Nat
ASSUME RateAssumption == RefillNum \in Nat /\ RefillDen \in Nat \ {0}
ASSUME CallAssumption == SleepTicks \in Nat /\ Demands \subseteq Nat /\ Timeouts \subseteq Nat
ASSUME LimiterBounds == MaxTime \in Nat /\ MaxCalls \in Nat

VARIABLES
  clock, tokens, last_update,
  acquired, rejected,  \* acquired_count, rejected_count
  call,                \* per thread: the call under way
  calls,               \* the number of calls begun
  granted,             \* history: the tokens handed out
  bursts,              \* history: where stretches without two refills at once began
  rewound,             \* history: the ticks last_update was set back
  refunded             \* history: the tokens that a reset put in

buckets == <<tokens, last_update, acquired, rejected>>
histories == <<granted, rewound, refunded>>
limiterVars == <<clock, buckets, call, calls, histories, bursts>>

\* kind: what to do with the answer; since: when an acquire began; until: the
\* deadline; now and saw: the time and the tokens this thread read (now is kept
\* only where it is read again).
NoCall == [pc |-> "idle", kind |-> "try", n |-> 0, now |-> 0, add |-> 0, saw |-> 0,
           since |-> 0, until |-> 0]

LimiterInit ==
  /\ clock = 0 /\ tokens = InitialTokens /\ last_update = 0
  /\ acquired = 0 /\ rejected = 0 /\ calls = 0
  /\ call = [t \in Callers |-> NoCall]
  /\ granted = 0 /\ rewound = 0 /\ refunded = 0 /\ bursts = {}

Tick == clock < MaxTime /\ clock' = clock + 1
        /\ UNCHANGED <<buckets, call, calls, histories, bursts>>

InCall(t, from) == call[t].pc = from
Ends(t) == call' = [call EXCEPT ![t] = NoCall]

---------------------------------------------------------------------------
(* refill, with which every call begins                                    *)

Busy(t, at) == \E u \in Callers \ {t} : call[u].pc \in at

\* History: a refill begins.  None of the stretches under way goes on when another one
\* is between its clock and its addition, and none begins where a call of another
\* thread is about to take tokens.
BeginsRefill(t) ==
  bursts' = IF Busy(t, {"swap", "add", "resetTime"}) THEN {}
            ELSE IF Busy(t, {"load", "cas"}) THEN bursts
            ELSE bursts \union {[at |-> clock, given |-> granted, held |-> tokens]}

\* try_acquire_n(n), acquire(), acquire_timeout(d) and available_tokens() read
\* the clock first.  Only try_acquire_n takes more than one token.
Call(t, kind, n, until) ==
  /\ InCall(t, "idle") /\ calls < MaxCalls
  /\ calls' = calls + 1
  /\ call' = [call EXCEPT ![t] =
       [NoCall EXCEPT !.pc = "swap", !.kind = kind, !.n = n, !.now = clock,
                      !.since = IF kind = "acquire" THEN clock ELSE 0, !.until = until]]
  /\ BeginsRefill(t)
  /\ UNCHANGED <<clock, buckets, histories>>

Earned(ticks) == (RefillNum * ticks) \div RefillDen

\* Mutant: last_update stays where it was, and the same time is credited again.
SwapNothing(t) ==
  /\ InCall(t, "swap")
  /\ LET c == call[t]
         add == IF c.now > last_update THEN Earned(c.now - last_update) ELSE 0
     IN  call' = [call EXCEPT ![t].pc = IF add = 0 THEN "load" ELSE "add", ![t].add = add,
                                      ![t].now = IF c.kind = "acquire" THEN @ ELSE 0]
  /\ UNCHANGED <<clock, buckets, calls, histories, bursts>>

\* last_update is set to what this thread read, an older time than another's too;
\* and it is set though the time elapsed may not be worth a token.
SwapLastUpdate(t) ==
  /\ InCall(t, "swap")
  /\ LET c == call[t]
         add == IF c.now > last_update THEN Earned(c.now - last_update) ELSE 0
     IN  /\ last_update' = c.now
         /\ rewound' = rewound + (IF c.now < last_update THEN last_update - c.now ELSE 0)
         /\ call' = [call EXCEPT ![t].pc = IF add = 0 THEN "load" ELSE "add", ![t].add = add,
                                      ![t].now = IF c.kind = "acquire" THEN @ ELSE 0]
  /\ UNCHANGED <<clock, tokens, acquired, rejected, calls, granted, refunded, bursts>>

\* Mutant: the clamp to the capacity is left out.
AddUnclamped(t) ==
  /\ InCall(t, "add")
  /\ tokens' = tokens + call[t].add
  /\ call' = [call EXCEPT ![t].pc = "load", ![t].add = 0]
  /\ UNCHANGED <<clock, last_update, acquired, rejected, calls, histories, bursts>>

\* The sum is clamped to the capacity, and lowered to it when it was above.
AddTokens(t) ==
  /\ InCall(t, "add")
  /\ LET sum == tokens + call[t].add
     IN  tokens' = IF sum < Capacity THEN sum ELSE Capacity
  /\ call' = [call EXCEPT ![t].pc = "load", ![t].add = 0]
  /\ UNCHANGED <<clock, last_update, acquired, rejected, calls, histories, bursts>>

---------------------------------------------------------------------------
(* try_acquire_n after its refill, and what acquire makes of the answer    *)

LoadTokens(t) ==
  /\ InCall(t, "load")
  /\ call[t].kind # "available"
  /\ call' = [call EXCEPT ![t].pc = IF tokens < call[t].n THEN "reject" ELSE "cas", ![t].saw = tokens]
  /\ UNCHANGED <<clock, buckets, calls, histories, bursts>>

\* available_tokens answers what it loads.
AnswerTokens(t) ==
  /\ InCall(t, "load") /\ call[t].kind = "available"
  /\ Ends(t)
  /\ UNCHANGED <<clock, buckets, calls, histories, bursts>>

\* Mutant: load and store, where the code compares and exchanges.
StoreTokens(t) ==
  /\ InCall(t, "cas")
  /\ tokens' = call[t].saw - call[t].n
  /\ granted' = granted + call[t].n
  /\ call' = [call EXCEPT ![t].pc = "count", ![t].saw = 0]
  /\ UNCHANGED <<clock, last_update, acquired, rejected, calls, rewound, refunded, bursts>>

TakeTokens(t) ==
  /\ InCall(t, "cas") /\ tokens = call[t].saw
  /\ tokens' = tokens - call[t].n
  /\ granted' = granted + call[t].n
  /\ call' = [call EXCEPT ![t].pc = "count", ![t].saw = 0]
  /\ UNCHANGED <<clock, last_update, acquired, rejected, calls, rewound, refunded, bursts>>

\* Another thread came first, or the weak exchange failed for no reason.
TakeFails(t) ==
  /\ InCall(t, "cas")
  /\ call' = [call EXCEPT ![t].pc = "load", ![t].saw = 0]
  /\ UNCHANGED <<clock, buckets, calls, histories, bursts>>

CountAcquired(t) ==
  /\ InCall(t, "count")
  /\ acquired' = acquired + 1
  /\ Ends(t)
  /\ UNCHANGED <<clock, tokens, last_update, rejected, calls, histories, bursts>>

\* try_acquire_n answers false; acquire and acquire_timeout sleep.
CountRejected(t) ==
  /\ InCall(t, "reject")
  /\ rejected' = rejected + 1
  /\ IF call[t].kind = "try" THEN Ends(t)
     ELSE call' = [call EXCEPT ![t].pc = "sleep", ![t].saw = clock]
  /\ UNCHANGED <<clock, tokens, last_update, acquired, calls, histories, bursts>>

\* saw holds when the sleep began.
Awake(t) == InCall(t, "sleep") /\ clock >= call[t].saw + SleepTicks

Retry(t) ==
  /\ Awake(t)
  /\ call[t].kind = "timeout" => clock < call[t].until
  /\ call' = [call EXCEPT ![t].pc = "swap", ![t].now = clock, ![t].saw = 0]
  /\ BeginsRefill(t)
  /\ UNCHANGED <<clock, buckets, calls, histories>>

GiveUp(t) ==
  /\ Awake(t)
  /\ call[t].kind = "timeout" /\ clock >= call[t].until
  /\ Ends(t)
  /\ UNCHANGED <<clock, buckets, calls, histories, bursts>>

---------------------------------------------------------------------------
(* reset: four stores                                                      *)

ResetTokens(t) ==
  /\ InCall(t, "idle") /\ calls < MaxCalls
  /\ tokens' = InitialTokens
  /\ refunded' = refunded + (IF tokens < InitialTokens THEN InitialTokens - tokens ELSE 0)
  /\ calls' = calls + 1
  /\ call' = [call EXCEPT ![t].pc = "resetTime"]
  /\ bursts' = {}
  /\ UNCHANGED <<clock, last_update, acquired, rejected, granted, rewound>>

\* Zero is the time of creation, not that of the reset.
ResetTime(t) ==
  /\ InCall(t, "resetTime")
  /\ last_update' = 0
  /\ rewound' = rewound + last_update
  /\ call' = [call EXCEPT ![t].pc = "resetCounts"]
  /\ UNCHANGED <<clock, tokens, acquired, rejected, calls, granted, refunded, bursts>>

\* acquired_count, then rejected_count.
ResetCounts(t) ==
  /\ \/ InCall(t, "resetCounts") /\ acquired' = 0 /\ UNCHANGED rejected
        /\ call' = [call EXCEPT ![t].pc = "resetRejected"]
     \/ InCall(t, "resetRejected") /\ rejected' = 0 /\ UNCHANGED acquired
        /\ Ends(t)
  /\ UNCHANGED <<clock, tokens, last_update, calls, histories, bursts>>

---------------------------------------------------------------------------
LimiterStep(t) ==
  \/ \E n \in Demands : Call(t, "try", n, 0)
  \/ Call(t, "acquire", 1, 0)
  \/ \E d \in Timeouts \ {0} : Call(t, "timeout", 1, clock + d)
  \/ Call(t, "available", 0, 0)
  \/ SwapLastUpdate(t) \/ AddTokens(t) \/ LoadTokens(t) \/ AnswerTokens(t)
  \/ TakeTokens(t) \/ TakeFails(t) \/ CountAcquired(t) \/ CountRejected(t)
  \/ Retry(t) \/ GiveUp(t)
  \/ ResetTokens(t) \/ ResetTime(t) \/ ResetCounts(t)

LimiterNext == Tick \/ \E t \in Callers : LimiterStep(t)

LimiterSpec == LimiterInit /\ [][LimiterNext]_limiterVars

---------------------------------------------------------------------------
(* Properties                                                              *)

\* The types of the variables; the unsigned tokens never go below zero.
LimiterTypeOK ==
  /\ clock \in 0..MaxTime /\ tokens \in Nat /\ last_update \in 0..clock
  /\ acquired \in Nat /\ rejected \in Nat /\ granted \in Nat
  /\ rewound \in Nat /\ refunded \in Nat /\ calls \in 0..MaxCalls
  /\ \A t \in Callers :
       /\ call[t].pc \in {"idle", "swap", "add", "load", "cas", "count", "reject", "sleep",
                          "resetTime", "resetCounts", "resetRejected"}
       /\ call[t].kind \in {"try", "acquire", "timeout", "available"}
       /\ call[t].now \in 0..clock /\ call[t].add \in Nat /\ call[t].n \in Nat

Larger(a, b) == IF a < b THEN b ELSE a

\* "Allows a burst of up to `capacity` items, then limits to `refill_rate`": what
\* was granted and what is in the bucket never exceeds the initial tokens and what
\* the time since creation earns, but for what resets put in and for the ticks
\* that are credited twice because last_update was set back, by a reset or by a
\* refill that another one overtook between its clock and its swap.  The bucket never
\* holds more than the capacity, or the initial tokens where they are more; and from
\* any call on, while no two refills overlap and nobody resets, what is granted and
\* left is at most the capacity (or what an overfull bucket held) and what the time
\* since has earned.  Two refills that overlap can put in the capacity once more.
RateHonoured ==
  /\ granted + tokens <= InitialTokens + refunded + Earned(clock + rewound)
  /\ tokens <= Larger(Capacity, InitialTokens)
  /\ \A b \in bursts : (granted - b.given) + tokens <= Larger(Capacity, b.held) + Earned(clock - b.at)

\* "Waits until a token is available (blocking)": a thread alone with the limiter
\* is not still refused once the time since it began to wait has earned a token
\* (and a sleep more).
WaitIsBounded ==
  \A t \in Callers : InCall(t, "sleep") /\ call[t].kind = "acquire" =>
    Earned(call[t].now - call[t].since) = 0
=============================================================================
