---------------------------- MODULE ItemPathProofs ----------------------------
(***************************************************************************)
(* Proofs about what a reading meets besides the queues.                   *)
(*                                                                         *)
(* RateLimiter, for every rate, every capacity and any number of threads:  *)
(* the token bucket never grants more than it was given.  The argument     *)
(* follows the tokens from the swap of last_update, where time turns into  *)
(* tokens, through the threads that hold them, to the bucket.  What the    *)
(* threads hold together is the size of the set Pending.  A burst is       *)
(* followed from its first refill, which leaves no more than the capacity. *)
(*                                                                         *)
(* MonotonicClock, for any number of threads and whatever raw times they   *)
(* bring: no answer is older than one that was given before its call       *)
(* began, and the stamps are numbered without a gap.                       *)
(*                                                                         *)
(* TimestampSync, for every capacity and tolerance and readings in any     *)
(* order: a primary is matched with the closest secondary reading there    *)
(* is.                                                                     *)
(*                                                                         *)
(* AdaptiveController, for any number of threads: a level that is moved    *)
(* stays on the scale.                                                     *)
(*                                                                         *)
(* StageChain, for any values of the sensor and any three stages: what the *)
(* chain is fed leaves it in its order, once, or is held by a stage.  The  *)
(* argument follows a reading through a call, from stage to stage.         *)
(*                                                                         *)
(* Filters, for every window, every alpha and any inputs: sums, medians    *)
(* and averages are those of the last inputs or of all, and the Kalman     *)
(* filter is a mean weighted by precision that keeps in range.             *)
(*                                                                         *)
(* Transforms, for readings of any integers: every rotation by quarter     *)
(* turns permutes the axes and changes their signs, without a mirror, and  *)
(* what such a one keeps is kept by any number of them.                    *)
(***************************************************************************)
EXTENDS MCItemPath, SumsProofs, FiniteSetTheorems

---------------------------------------------------------------------------
(* RateLimiter: tokens earned by time, where division rounds down          *)

LEMMA DivIs ==
  \A a \in Nat, d \in Nat \ {0} :
    /\ a \div d \in Nat
    /\ d * (a \div d) <= a
    /\ a < d * (a \div d) + d
  OBVIOUS

LEMMA DivCompare ==
  \A d \in Nat \ {0}, p \in Int, q \in Int : d * p < d * q + d => p <= q
<1> TAKE d \in Nat \ {0}, p \in Int, q \in Int
<1> SUFFICES ASSUME p > q PROVE d * p >= d * q + d
  OBVIOUS
<1>1. PICK k \in Nat : p = q + 1 + k
  <2>1. p - q - 1 \in Nat
    OBVIOUS
  <2> QED
    BY <2>1
<1>2. d * p = d * q + d + d * k /\ d * k \in Nat
  BY <1>1
<1> QED
  BY <1>2

LEMMA DivMonotonic ==
  \A a \in Nat, b \in Nat, d \in Nat \ {0} : a <= b => a \div d <= b \div d
<1> TAKE a \in Nat, b \in Nat, d \in Nat \ {0}
<1> HAVE a <= b
<1> DEFINE p == a \div d
           r == b \div d
<1>1. p \in Nat /\ r \in Nat /\ d * p <= a /\ b < d * r + d
  BY DivIs
<1> HIDE DEF p, r
<1>2. d * p \in Nat /\ d * r \in Nat
  BY <1>1
<1>3. p <= r
  BY <1>1, <1>2, DivCompare
<1> QED
  BY <1>3 DEF p, r

LEMMA DivSum ==
  \A a \in Nat, b \in Nat, d \in Nat \ {0} : (a \div d) + (b \div d) <= (a + b) \div d
<1> TAKE a \in Nat, b \in Nat, d \in Nat \ {0}
<1> DEFINE p == a \div d
           q == b \div d
           r == (a + b) \div d
<1>1. /\ p \in Nat /\ q \in Nat /\ r \in Nat
      /\ d * p <= a /\ d * q <= b /\ a + b < d * r + d
  BY DivIs
<1> HIDE DEF p, q, r
<1>2. d * (p + q) = d * p + d * q
  BY <1>1
<1>3. d * p \in Nat /\ d * q \in Nat /\ d * r \in Nat
  BY <1>1
<1>4. p + q <= r
  BY <1>1, <1>2, <1>3, DivCompare
<1> QED
  BY <1>4 DEF p, q, r

\* Two spans of time never earn more apart than they do together, and a longer one
\* earns no less.
LEMMA EarnedIs ==
  \A x \in Nat, y \in Nat :
    /\ Earned(x) \in Nat
    /\ Earned(x) + Earned(y) <= Earned(x + y)
    /\ x <= y => Earned(x) <= Earned(y)
<1> TAKE x \in Nat, y \in Nat
<1>1. /\ RefillNum * x \in Nat /\ RefillNum * y \in Nat
      /\ RefillNum * (x + y) = RefillNum * x + RefillNum * y
  BY RateAssumption
<1>2. x <= y => RefillNum * x <= RefillNum * y
  <2> HAVE x <= y
  <2>1. PICK k \in Nat : y = x + k
    <3>1. y - x \in Nat
      OBVIOUS
    <3> QED
      BY <3>1
  <2>2. RefillNum * y = RefillNum * x + RefillNum * k /\ RefillNum * k \in Nat
    BY <2>1, RateAssumption
  <2> QED
    BY <1>1, <2>2
<1> QED
  BY <1>1, <1>2, RateAssumption, DivIs, DivSum, DivMonotonic DEF Earned

LEMMA EarnedNat == \A x \in Nat : Earned(x) \in Nat
  BY EarnedIs

---------------------------------------------------------------------------
(* RateLimiter: the tokens in the hands of the threads                     *)

\* One pair for each token that a thread has computed and not added.
Pending == {p \in Callers \X (Nat \ {0}) : p[2] <= call[p[1]].add}
Share(t, k) == {t} \X (1..k)

LEMMA PendingMembers ==
  /\ \A p : p \in Pending <=> \E u \in Callers, i \in Nat \ {0} : p = <<u, i>> /\ i <= call[u].add
  /\ \A p : p \in Pending' <=> \E u \in Callers, i \in Nat \ {0} : p = <<u, i>> /\ i <= call'[u].add
  BY DEF Pending

LEMMA ShareMembers ==
  ASSUME NEW t, NEW k \in Nat
  PROVE  \A p : p \in Share(t, k) <=> \E i \in Nat \ {0} : p = <<t, i>> /\ i <= k
  BY DEF Share

LEMMA ShareIs ==
  ASSUME NEW t, NEW k \in Nat
  PROVE  IsFiniteSet(Share(t, k)) /\ Cardinality(Share(t, k)) = k
<1>1. IsFiniteSet({t}) /\ Cardinality({t}) = 1
  BY FS_Singleton
<1>2. IsFiniteSet(1..k) /\ Cardinality(1..k) = k
  BY FS_Interval
<1>3. /\ IsFiniteSet({t} \X (1..k))
      /\ Cardinality({t} \X (1..k)) = Cardinality({t}) * Cardinality(1..k)
  BY <1>1, <1>2, FS_Product
<1>4. Cardinality({t} \X (1..k)) = k
  BY <1>1, <1>2, <1>3
<1> QED
  BY <1>3, <1>4 DEF Share

Calls ==
  [pc : {"idle", "swap", "add", "load", "cas", "count", "reject", "sleep",
         "resetTime", "resetCounts", "resetRejected"},
   kind : {"try", "acquire", "timeout", "available"},
   n : Nat, now : Nat, add : Nat, saw : Nat, since : Nat, until : Nat]

\* A thread that adds what none held: its share joins the others'.
LEMMA PendingGrows ==
  ASSUME call \in [Callers -> Calls], NEW t \in Callers, NEW k \in Nat,
         IsFiniteSet(Pending), call[t].add = 0, call'[t].add = k,
         \A u \in Callers \ {t} : call'[u].add = call[u].add
  PROVE  IsFiniteSet(Pending') /\ Cardinality(Pending') = Cardinality(Pending) + k
<1>1. Pending' = Pending \cup Share(t, k) /\ Pending \cap Share(t, k) = {}
  BY PendingMembers, ShareMembers DEF Calls
<1>2. IsFiniteSet(Share(t, k)) /\ Cardinality(Share(t, k)) = k
  BY ShareIs
<1>3. /\ IsFiniteSet(Pending \cup Share(t, k))
      /\ Cardinality(Pending \cup Share(t, k))
           = Cardinality(Pending) + Cardinality(Share(t, k)) - Cardinality(Pending \cap Share(t, k))
  BY <1>2, FS_Union
<1>4. Cardinality(Pending \cap Share(t, k)) = 0 /\ Cardinality(Pending) \in Nat
  BY <1>1, FS_EmptySet, FS_CardinalityType
<1>5. Cardinality(Pending') = Cardinality(Pending \cup Share(t, k))
  BY <1>1
<1> QED
  BY <1>1, <1>2, <1>3, <1>4, <1>5

LEMMA PendingShrinks ==
  ASSUME call \in [Callers -> Calls], NEW t \in Callers,
         IsFiniteSet(Pending), call'[t].add = 0,
         \A u \in Callers \ {t} : call'[u].add = call[u].add
  PROVE  IsFiniteSet(Pending') /\ Cardinality(Pending) = Cardinality(Pending') + call[t].add
<1> DEFINE k == call[t].add
<1>1. k \in Nat
  BY DEF Calls
<1>2. Pending = Pending' \cup Share(t, k) /\ Pending' \cap Share(t, k) = {}
  BY <1>1, PendingMembers, ShareMembers DEF Calls
<1>3. IsFiniteSet(Share(t, k)) /\ Cardinality(Share(t, k)) = k
  BY <1>1, ShareIs
<1>4. IsFiniteSet(Pending')
  BY <1>2, FS_Subset
<1>5. Cardinality(Pending' \cup Share(t, k))
        = Cardinality(Pending') + Cardinality(Share(t, k)) - Cardinality(Pending' \cap Share(t, k))
  BY <1>3, <1>4, FS_Union
<1>6. Cardinality(Pending' \cap Share(t, k)) = 0 /\ Cardinality(Pending') \in Nat
  BY <1>2, <1>4, FS_EmptySet, FS_CardinalityType
<1>7. Cardinality(Pending) = Cardinality(Pending' \cup Share(t, k))
  BY <1>2
<1> HIDE DEF k
<1>8. Cardinality(Pending) = Cardinality(Pending') + k
  BY <1>1, <1>3, <1>5, <1>6, <1>7
<1> QED
  BY <1>4, <1>8 DEF k

LEMMA PendingStays ==
  (\A t \in Callers : call'[t].add = call[t].add) => Pending' = Pending
  BY PendingMembers

---------------------------------------------------------------------------
(* RateLimiter: the invariant                                              *)

\* The types, with the shape of a call; a thread holds tokens only between its swap
\* and its addition, and has seen enough of them before it exchanges.
Numbers ==
  /\ clock \in 0..MaxTime /\ tokens \in Nat /\ last_update \in 0..clock
  /\ acquired \in Nat /\ rejected \in Nat /\ granted \in Nat
  /\ rewound \in Nat /\ refunded \in Nat /\ calls \in 0..MaxCalls
CallsOK ==
  /\ call \in [Callers -> Calls]
  /\ \A t \in Callers :
       /\ call[t].now <= clock
       /\ call[t].pc # "add" => call[t].add = 0
       /\ call[t].pc = "cas" => call[t].n <= call[t].saw
Shape == Numbers /\ CallsOK

\* What was granted, what is in the bucket and what is on the way to it was there
\* at first, came by resets, or was earned by the time that was credited.
Funded ==
  /\ IsFiniteSet(Pending)
  /\ granted + tokens + Cardinality(Pending)
       <= InitialTokens + refunded + Earned(last_update + rewound)

\* A stretch in which no two refills overlap: its first one is under way and nobody can
\* take tokens, or it has been clamped, and since then time earned what came.
Most(b) == Larger(Capacity, b.held) + Earned(last_update - b.at)
Fresh(b) ==
  /\ granted = b.given /\ tokens = b.held
  /\ \A u \in Callers : call[u].pc \notin {"load", "cas"}
  /\ \E t \in Callers : \/ call[t].pc = "swap" /\ call[t].now = b.at
                        \/ call[t].pc = "add" /\ last_update = b.at
Settled(b) ==
  /\ b.at <= last_update
  /\ (granted - b.given) + tokens <= Most(b)
  /\ \A t \in Callers : (granted - b.given) + tokens + call[t].add <= Most(b)
Apart ==
  /\ \A t, u \in Callers :
       call[t].pc \in {"swap", "add"} /\ call[u].pc \in {"swap", "add"} => t = u
  /\ \A t \in Callers : call[t].pc # "resetTime"
  /\ \A t \in Callers : call[t].pc = "swap" => last_update <= call[t].now
Stretch(b) ==
  /\ b \in [at : Nat, given : Nat, held : Nat] /\ b.at <= clock
  /\ Apart /\ (Fresh(b) \/ Settled(b))
Bounded == tokens <= Larger(Capacity, InitialTokens)
Stretches == \A b \in bursts : Stretch(b)

LimiterInv == Shape /\ Funded /\ Bounded /\ Stretches

LEMMA LimiterInvInit == LimiterInit => LimiterInv
<1> SUFFICES ASSUME LimiterInit PROVE LimiterInv
  OBVIOUS
<1>1. NoCall \in Calls /\ NoCall.add = 0 /\ NoCall.pc = "idle" /\ NoCall.now = 0
  BY DEF NoCall, Calls
<1>2. Shape
  BY <1>1, CapacityAssumption, LimiterBounds DEF LimiterInit, Shape, Numbers, CallsOK
<1>3. Pending = {}
  BY <1>1 DEF LimiterInit, Pending
<1>4. Earned(0 + 0) \in Nat
  BY EarnedIs
<1>5. Funded
  BY <1>3, <1>4, CapacityAssumption, FS_EmptySet DEF LimiterInit, Funded
<1>6. Bounded /\ Stretches
  BY CapacityAssumption DEF LimiterInit, Bounded, Stretches, Larger
<1> QED
  BY <1>2, <1>5, <1>6 DEF LimiterInv

LEMMA ShapeNext == Shape /\ [LimiterNext]_limiterVars => Shape'
<1> SUFFICES ASSUME Shape, [LimiterNext]_limiterVars PROVE Shape'
  OBVIOUS
<1> USE DEF Shape, Numbers, CallsOK, Calls, buckets, histories, InCall, Ends
<1>1. /\ NoCall \in Calls /\ NoCall.add = 0 /\ NoCall.pc = "idle" /\ NoCall.now = 0
      /\ clock \in Nat /\ InitialTokens \in Nat /\ Capacity \in Nat
  BY LimiterBounds, CapacityAssumption DEF NoCall
<1>2. CASE Tick
  BY <1>2, LimiterBounds DEF Tick
<1>3. ASSUME NEW t \in Callers, NEW how \in {"try", "acquire", "timeout", "available"},
             NEW n \in Nat, NEW until \in Nat, Call(t, how, n, until)
      PROVE  Shape'
  <2> DEFINE new == [NoCall EXCEPT !.pc = "swap", !.kind = how, !.n = n, !.now = clock,
                                   !.since = IF how = "acquire" THEN clock ELSE 0,
                                   !.until = until]
  <2>1. call' = [call EXCEPT ![t] = new]
    BY <1>3 DEF Call
  <2>6. new \in Calls /\ new.pc = "swap" /\ new.add = 0 /\ new.now = clock
    BY <1>1 DEF NoCall
  <2> HIDE DEF new
  <2>2. UNCHANGED <<clock, buckets, histories>> /\ calls' = calls + 1 /\ calls < MaxCalls
    BY <1>3 DEF Call
  <2>3. CallsOK'
    BY <1>1, <2>1, <2>2, <2>6
  <2>4. Numbers'
    BY <2>2, LimiterBounds
  <2> QED
    BY <2>3, <2>4
<1>4. ASSUME NEW t \in Callers, SwapLastUpdate(t) PROVE Shape'
  <2> DEFINE c == call[t]
             add == IF c.now > last_update THEN Earned(c.now - last_update) ELSE 0
             back == IF c.now < last_update THEN last_update - c.now ELSE 0
             new == [c EXCEPT !.pc = IF add = 0 THEN "load" ELSE "add", !.add = add,
                              !.now = IF c.kind = "acquire" THEN c.now ELSE 0]
  <2>1. c \in Calls /\ c.now \in 0..clock
    OBVIOUS
  <2>2. add \in Nat /\ back \in Nat
    BY <1>1, <2>1, EarnedNat
  <2>3. call' = [call EXCEPT ![t] = new]
    BY <1>4 DEF SwapLastUpdate
  <2>4. /\ last_update' = c.now /\ rewound' = rewound + back
        /\ UNCHANGED <<clock, tokens, acquired, rejected, calls, granted, refunded>>
    BY <1>4 DEF SwapLastUpdate
  <2> HIDE DEF add, back
  <2>5. /\ new \in Calls /\ new.now <= clock /\ new.pc # "cas"
        /\ new.pc # "add" => new.add = 0
    <3> DEFINE step == IF add = 0 THEN "load" ELSE "add"
               now == IF c.kind = "acquire" THEN c.now ELSE 0
    <3>1. /\ step \in {"load", "add"} /\ step # "add" => add = 0
          /\ now \in Nat /\ now <= clock
      BY <1>1, <2>1
    <3>2. new = [c EXCEPT !.pc = step, !.add = add, !.now = now]
      OBVIOUS
    <3> HIDE DEF step, now, c
    <3> QED
      BY <2>1, <2>2, <3>1, <3>2
  <2> HIDE DEF new
  <2>6. CallsOK'
    BY <2>3, <2>4, <2>5
  <2>7. Numbers'
    BY <2>1, <2>2, <2>4
  <2> QED
    BY <2>6, <2>7
<1>5. ASSUME NEW t \in Callers, AddTokens(t) \/ LoadTokens(t) \/ AnswerTokens(t) PROVE Shape'
  BY <1>1, <1>5 DEF AddTokens, LoadTokens, AnswerTokens
<1>6. ASSUME NEW t \in Callers, TakeTokens(t) \/ TakeFails(t) PROVE Shape'
  <2> DEFINE c == call[t]
             new == [c EXCEPT !.pc = IF TakeTokens(t) THEN "count" ELSE "load", !.saw = 0]
  <2>0. /\ c \in Calls /\ c.now <= clock /\ c.n \in Nat /\ c.saw \in Nat
        /\ c.pc = "cas" => c.n <= c.saw /\ c.add = 0
    OBVIOUS
  <2>1. c.pc = "cas" /\ UNCHANGED clock
    BY <1>6 DEF TakeTokens, TakeFails
  <2>2. call' = [call EXCEPT ![t] = new]
    <3>1. CASE TakeTokens(t)
      BY <3>1 DEF TakeTokens
    <3>2. CASE TakeFails(t) /\ ~TakeTokens(t)
      BY <3>2 DEF TakeFails
    <3> QED
      BY <1>6, <3>1, <3>2
  <2>4. new \in Calls /\ new.now <= clock /\ new.pc # "cas" /\ new.add = 0
    <3> DEFINE step == IF TakeTokens(t) THEN "count" ELSE "load"
    <3>1. step \in {"count", "load"} /\ new = [c EXCEPT !.pc = step, !.saw = 0]
      OBVIOUS
    <3> HIDE DEF step, c
    <3> QED
      BY <2>0, <2>1, <3>1
  <2>3. Numbers'
    <3>1. CASE TakeTokens(t)
      <4>1. tokens' = tokens - c.n /\ granted' = granted + c.n /\ c.saw = tokens
            /\ UNCHANGED <<clock, last_update, acquired, rejected, calls, rewound, refunded>>
        BY <3>1 DEF TakeTokens
      <4>2. tokens' \in Nat /\ granted' \in Nat
        <5> HIDE DEF c, new
        <5> QED
          BY <2>0, <2>1, <4>1
      <4> QED
        BY <4>1, <4>2
    <3>2. CASE TakeFails(t)
      BY <3>2 DEF TakeFails
    <3> QED
      BY <1>6, <3>1, <3>2
  <2> HIDE DEF new
  <2>5. CallsOK'
    BY <2>1, <2>2, <2>4
  <2> QED
    BY <2>3, <2>5
<1>7. ASSUME NEW t \in Callers, CountAcquired(t) \/ CountRejected(t) PROVE Shape'
  BY <1>1, <1>7 DEF CountAcquired, CountRejected
<1>8. ASSUME NEW t \in Callers, Retry(t) \/ GiveUp(t) PROVE Shape'
  BY <1>1, <1>8 DEF Retry, GiveUp, Awake
<1>9. ASSUME NEW t \in Callers, ResetTokens(t) \/ ResetTime(t) \/ ResetCounts(t) PROVE Shape'
  BY <1>1, <1>9, LimiterBounds DEF ResetTokens, ResetTime, ResetCounts
<1>10. CASE UNCHANGED limiterVars
  BY <1>10 DEF limiterVars
<1>11. ASSUME NEW t \in Callers, LimiterStep(t) PROVE Shape'
  <2>1. ASSUME NEW n \in Demands, Call(t, "try", n, 0) PROVE Shape'
    BY <1>3, <2>1, CallAssumption
  <2>2. ASSUME NEW d \in Timeouts \ {0}, Call(t, "timeout", 1, clock + d) PROVE Shape'
    <3>1. clock + d \in Nat
      BY <1>1, CallAssumption
    <3> QED
      BY <1>3, <2>2, <3>1
  <2>3. CASE Call(t, "acquire", 1, 0) \/ Call(t, "available", 0, 0)
    BY <1>3, <2>3
  <2> QED
    BY <1>4, <1>5, <1>6, <1>7, <1>8, <1>9, <1>11, <2>1, <2>2, <2>3 DEF LimiterStep
<1> QED
  BY <1>2, <1>10, <1>11 DEF LimiterNext

\* The four steps that move tokens, and the rest, which move none.
LEMMA FundedNext == LimiterInv /\ [LimiterNext]_limiterVars => Funded'
<1> SUFFICES ASSUME Shape, Funded, [LimiterNext]_limiterVars PROVE Funded'
  BY DEF LimiterInv
<1> USE DEF buckets, histories, InCall, Ends
<1>1. /\ tokens \in Nat /\ granted \in Nat /\ refunded \in Nat /\ rewound \in Nat
      /\ last_update \in Nat /\ clock \in Nat /\ InitialTokens \in Nat /\ Capacity \in Nat
      /\ Cardinality(Pending) \in Nat
      /\ call \in [Callers -> Calls]
  BY CapacityAssumption, LimiterBounds, FS_CardinalityType DEF Shape, Numbers, CallsOK, Funded
<1>2. NoCall.add = 0
  BY DEF NoCall
<1>3. ASSUME \A t \in Callers : call'[t].add = call[t].add,
             granted' + tokens' - refunded' <= granted + tokens - refunded,
             last_update' + rewound' = last_update + rewound,
             tokens' \in Nat, granted' \in Nat, refunded' \in Nat
      PROVE  Funded'
  <2>1. Pending' = Pending
    BY <1>3, PendingStays
  <2>2. Earned(last_update + rewound)' = Earned(last_update + rewound)
    BY <1>3 DEF Earned
  <2>3. Earned(last_update + rewound) \in Nat
    BY <1>1, EarnedNat
  <2>4. PICK e \in Nat, p \in Nat : e = Earned(last_update + rewound) /\ p = Cardinality(Pending)
    BY <1>1, <2>3
  <2>5. granted + tokens + p <= InitialTokens + refunded + e
    BY <2>4 DEF Funded
  <2>6. granted' + tokens' + p <= InitialTokens + refunded' + e
    BY <1>1, <1>3, <2>5
  <2> QED
    BY <2>1, <2>2, <2>4, <2>6 DEF Funded
<1>4. CASE Tick \/ UNCHANGED limiterVars
  BY <1>1, <1>3, <1>4 DEF Tick, limiterVars
<1>5. ASSUME NEW t \in Callers, NEW how, NEW n, NEW until, Call(t, how, n, until)
      PROVE  Funded'
  <2>1. call'[t].add = 0 /\ \A u \in Callers \ {t} : call'[u] = call[u]
    BY <1>1, <1>2, <1>5 DEF Call, NoCall
  <2>2. call[t].add = 0
    BY <1>5 DEF Call, Shape, Numbers, CallsOK
  <2> QED
    BY <1>1, <1>3, <1>5, <2>1, <2>2 DEF Call
<1>6. ASSUME NEW t \in Callers, SwapLastUpdate(t) PROVE Funded'
  <2> DEFINE now == call[t].now
             add == IF now > last_update THEN Earned(now - last_update) ELSE 0
             back == IF now < last_update THEN last_update - now ELSE 0
  <2>1. now \in Nat /\ call[t].add = 0
    BY <1>1, <1>6 DEF SwapLastUpdate, Shape, Numbers, CallsOK, Calls
  <2>2. add \in Nat
    BY <1>1, <2>1, EarnedNat
  <2>3. /\ last_update' = now /\ rewound' = rewound + back
        /\ UNCHANGED <<tokens, granted, refunded>>
        /\ call'[t].add = add
        /\ \A u \in Callers \ {t} : call'[u].add = call[u].add
    BY <1>1, <1>6 DEF SwapLastUpdate, Calls
  <2>4. IsFiniteSet(Pending') /\ Cardinality(Pending') = Cardinality(Pending) + add
    BY <1>1, <2>1, <2>2, <2>3, PendingGrows DEF Funded
  <2>5. Earned(last_update + rewound) + add <= Earned(now + (rewound + back))
    <3>1. CASE now > last_update
      <4>1. /\ now - last_update \in Nat /\ last_update + rewound \in Nat
            /\ (last_update + rewound) + (now - last_update) = now + (rewound + back)
        BY <1>1, <2>1, <3>1
      <4> QED
        BY <3>1, <4>1, EarnedIs
    <3>2. CASE ~(now > last_update)
      <4>1. last_update + rewound = now + (rewound + back) /\ last_update + rewound \in Nat
        BY <1>1, <2>1, <3>2
      <4>2. Earned(last_update + rewound) \in Nat
        BY <4>1, EarnedIs
      <4> QED
        BY <3>2, <4>1, <4>2
    <3> QED
      BY <3>1, <3>2
  <2>6. /\ Earned(last_update + rewound) \in Nat
        /\ Earned(now + (rewound + back)) \in Nat
    <3>1. last_update + rewound \in Nat /\ now + (rewound + back) \in Nat
      BY <1>1, <2>1
    <3> QED
      BY <3>1, EarnedNat
  <2>7. Earned(last_update + rewound)' = Earned(now + (rewound + back))
    BY <2>3 DEF Earned
  <2> HIDE DEF now, add, back
  <2> QED
    BY <1>1, <2>2, <2>3, <2>4, <2>5, <2>6, <2>7 DEF Funded
<1>7. ASSUME NEW t \in Callers, AddTokens(t) PROVE Funded'
  <2>1. /\ call'[t].add = 0 /\ \A u \in Callers \ {t} : call'[u].add = call[u].add
        /\ call[t].add \in Nat
        /\ tokens' \in Nat /\ tokens' <= tokens + call[t].add
        /\ UNCHANGED <<last_update, rewound, granted, refunded>>
    BY <1>1, <1>7 DEF AddTokens, Calls
  <2>2. IsFiniteSet(Pending') /\ Cardinality(Pending) = Cardinality(Pending') + call[t].add
    BY <1>1, <2>1, PendingShrinks DEF Funded
  <2>3. Cardinality(Pending') \in Nat
    BY <2>2, FS_CardinalityType
  <2>4. Earned(last_update + rewound) \in Nat
    BY <1>1, EarnedNat
  <2>5. Earned(last_update + rewound)' = Earned(last_update + rewound)
    BY <2>1 DEF Earned
  <2> QED
    BY <1>1, <2>1, <2>2, <2>3, <2>4, <2>5 DEF Funded
<1>8. ASSUME NEW t \in Callers, TakeTokens(t) PROVE Funded'
  <2>1. /\ call[t].n \in Nat /\ call[t].n <= tokens
        /\ tokens' = tokens - call[t].n /\ granted' = granted + call[t].n
    BY <1>1, <1>8 DEF TakeTokens, Shape, Numbers, CallsOK, Calls
  <2>2. \A u \in Callers : call'[u].add = call[u].add
    BY <1>1, <1>8 DEF TakeTokens, Calls
  <2> QED
    BY <1>1, <1>3, <1>8, <2>1, <2>2 DEF TakeTokens
<1>9. ASSUME NEW t \in Callers,
             LoadTokens(t) \/ TakeFails(t) \/ Retry(t)
      PROVE  Funded'
  <2>1. \A u \in Callers : call'[u].add = call[u].add
    BY <1>1, <1>9 DEF LoadTokens, TakeFails, Retry, Calls
  <2> QED
    BY <1>1, <1>3, <1>9, <2>1 DEF LoadTokens, TakeFails, Retry
<1>10. ASSUME NEW t \in Callers,
              AnswerTokens(t) \/ CountAcquired(t) \/ CountRejected(t) \/ GiveUp(t)
       PROVE  Funded'
  <2>1. call[t].add = 0
    BY <1>10 DEF AnswerTokens, CountAcquired, CountRejected, GiveUp, Awake, Shape, Numbers, CallsOK
  <2>2. \A u \in Callers : call'[u].add = call[u].add
    BY <1>1, <1>2, <1>10, <2>1
       DEF AnswerTokens, CountAcquired, CountRejected, GiveUp, Calls
  <2> QED
    BY <1>1, <1>3, <1>10, <2>2 DEF AnswerTokens, CountAcquired, CountRejected, GiveUp
<1>11. ASSUME NEW t \in Callers, ResetTokens(t) PROVE Funded'
  <2>1. \A u \in Callers : call'[u].add = call[u].add
    BY <1>1, <1>11 DEF ResetTokens, Calls
  <2>2. /\ tokens' = InitialTokens
        /\ refunded' = refunded + (IF tokens < InitialTokens THEN InitialTokens - tokens ELSE 0)
        /\ UNCHANGED <<last_update, rewound, granted>>
    BY <1>11 DEF ResetTokens
  <2> QED
    BY <1>1, <1>3, <2>1, <2>2
<1>12. ASSUME NEW t \in Callers, ResetTime(t) \/ ResetCounts(t) PROVE Funded'
  <2>1. call[t].add = 0
    BY <1>12 DEF ResetTime, ResetCounts, Shape, Numbers, CallsOK
  <2>2. \A u \in Callers : call'[u].add = call[u].add
    BY <1>1, <1>2, <1>12, <2>1 DEF ResetTime, ResetCounts, Calls
  <2> QED
    BY <1>1, <1>3, <1>12, <2>2 DEF ResetTime, ResetCounts
<1> QED
  BY <1>4, <1>5, <1>6, <1>7, <1>8, <1>9, <1>10, <1>11, <1>12 DEF LimiterNext, LimiterStep

LEMMA LargerIs ==
  \A a \in Nat, b \in Nat : Larger(a, b) \in Nat /\ a <= Larger(a, b) /\ b <= Larger(a, b)
BY DEF Larger

\* Only the addition and a reset put tokens in the bucket.
LEMMA BoundedNext == LimiterInv /\ [LimiterNext]_limiterVars => Bounded'
<1> SUFFICES ASSUME Shape, Bounded, [LimiterNext]_limiterVars PROVE Bounded'
  BY DEF LimiterInv
<1> USE DEF buckets, histories, InCall, Ends
<1>1. PICK top \in Nat : top = Larger(Capacity, InitialTokens) /\ Capacity <= top
                         /\ InitialTokens <= top
  BY CapacityAssumption, LargerIs
<1>2. tokens \in Nat /\ tokens <= top /\ Capacity \in Nat /\ InitialTokens \in Nat
  BY <1>1, CapacityAssumption DEF Shape, Numbers, Bounded
<1>3. (tokens' <= top) => Bounded'
  BY <1>1 DEF Bounded, Larger
<1>4. CASE Tick \/ UNCHANGED limiterVars
  BY <1>2, <1>3, <1>4 DEF Tick, limiterVars
<1>5. ASSUME NEW t \in Callers, LimiterStep(t) PROVE Bounded'
  <2>1. CASE AddTokens(t)
    <3>1. call[t].add \in Nat
      BY DEF Shape, CallsOK, Calls
    <3>2. tokens' <= Capacity
      BY <1>2, <2>1, <3>1 DEF AddTokens
    <3> QED
      BY <1>1, <1>2, <1>3, <2>1, <3>1, <3>2 DEF AddTokens
  <2>2. CASE TakeTokens(t)
    <3>1. call[t].n \in Nat
      BY DEF Shape, CallsOK, Calls
    <3> QED
      BY <1>1, <1>2, <1>3, <2>2, <3>1 DEF TakeTokens
  <2>3. CASE ResetTokens(t)
    BY <1>1, <1>2, <1>3, <2>3 DEF ResetTokens
  <2>4. ASSUME NEW how, NEW n, NEW until, Call(t, how, n, until) PROVE tokens' = tokens
    BY <2>4 DEF Call
  <2>5. CASE SwapLastUpdate(t) \/ LoadTokens(t) \/ AnswerTokens(t) \/ TakeFails(t)
             \/ CountAcquired(t) \/ CountRejected(t) \/ Retry(t) \/ GiveUp(t)
             \/ ResetTime(t) \/ ResetCounts(t)
    BY <1>2, <1>3, <2>5
       DEF SwapLastUpdate, LoadTokens, AnswerTokens, TakeFails, CountAcquired, CountRejected,
           Retry, GiveUp, ResetTime, ResetCounts
  <2> QED
    BY <1>2, <1>3, <1>5, <2>1, <2>2, <2>3, <2>4, <2>5 DEF LimiterStep
<1> QED
  BY <1>4, <1>5 DEF LimiterNext

\* A step that neither credits time nor hands out tokens, and begins no refill.
LEMMA StretchStays ==
  ASSUME Shape, NEW b, Stretch(b),
         tokens' = tokens, granted' = granted, last_update' = last_update,
         clock' \in Nat, clock <= clock',
         \A t \in Callers :
           /\ call'[t].add = call[t].add
           /\ call'[t].pc \in {"swap", "add"} => call'[t].pc = call[t].pc /\ call'[t].now = call[t].now
           /\ call[t].pc \in {"swap", "add"} => call'[t].pc = call[t].pc
           /\ call'[t].pc \in {"load", "cas"} => call[t].pc \in {"load", "cas"}
           /\ call'[t].pc # "resetTime"
  PROVE  Stretch(b)'
<1>1. Apart'
  BY DEF Stretch, Apart
<1>2. Fresh(b) => Fresh(b)'
  BY DEF Fresh
<1>3. Settled(b) => Settled(b)'
  BY DEF Settled, Most, Earned
<1>4. b.at <= clock'
  BY LimiterBounds DEF Stretch, Shape, Numbers
<1> QED
  BY <1>1, <1>2, <1>3, <1>4 DEF Stretch

\* The first refill of a stretch makes last_update its beginning; a later one moves by
\* what it has earned at most.
LEMMA SwapStretches ==
  ASSUME Shape, NEW b, Stretch(b), NEW t \in Callers, SwapLastUpdate(t)
  PROVE  Stretch(b)'
<1> DEFINE now == call[t].now
           add == IF now > last_update THEN Earned(now - last_update) ELSE 0
<1>1. /\ now \in Nat /\ now <= clock /\ call \in [Callers -> Calls]
      /\ last_update \in Nat /\ tokens \in Nat /\ granted \in Nat /\ clock \in Nat
  BY LimiterBounds DEF Shape, Numbers, CallsOK, Calls
<1>2. add \in Nat
  BY <1>1, EarnedNat
<1>3. /\ call[t].pc = "swap" /\ call'[t].add = add
      /\ call'[t].pc = (IF add = 0 THEN "load" ELSE "add")
      /\ last_update' = now /\ tokens' = tokens /\ granted' = granted /\ clock' = clock
      /\ \A u \in Callers \ {t} : call'[u] = call[u]
  BY <1>1 DEF SwapLastUpdate, InCall, Calls
<1>4. /\ last_update <= now
      /\ \A u \in Callers \ {t} : call[u].pc \notin {"swap", "add", "resetTime"}
  BY <1>3 DEF Stretch, Apart
<1>5. \A u \in Callers \ {t} : call[u].add = 0
  BY <1>4 DEF Shape, CallsOK
<1> HIDE DEF add, now
<1>6. Apart'
  BY <1>3, <1>4 DEF Apart
<1>7. b \in [at : Nat, given : Nat, held : Nat] /\ b.at <= clock
  BY DEF Stretch
<1>8. PICK large \in Nat : large = Larger(Capacity, b.held) /\ b.held <= large
  BY <1>7, CapacityAssumption, LargerIs
<1>9. Most(b)' = large + Earned(now - b.at)
  BY <1>3, <1>8 DEF Most, Earned, Larger
<1>10. CASE Fresh(b)
  <2>1. now = b.at /\ granted = b.given /\ tokens = b.held
    BY <1>3, <1>4, <1>10 DEF Fresh, now
  <2>2. CASE add = 0
    <3>1. Earned(now - b.at) \in Nat
      <4>1. now - b.at \in Nat
        BY <1>1, <2>1
      <4> QED
        BY <4>1, EarnedNat
    <3>2. (granted' - b.given) + tokens' <= Most(b)'
      BY <1>1, <1>3, <1>7, <1>8, <1>9, <2>1, <3>1
    <3>3. \A u \in Callers : call'[u].add = 0
      BY <1>3, <1>5, <2>2
    <3>4. \A u \in Callers : (granted' - b.given) + tokens' + call'[u].add <= Most(b)'
      <4>1. PICK all \in Int : all = (granted' - b.given) + tokens'
        BY <1>1, <1>3, <1>7
      <4>2. all + 0 = all
        BY <4>1
      <4> QED
        BY <3>2, <3>3, <4>1, <4>2
    <3>5. Settled(b)'
      BY <1>1, <1>3, <2>1, <3>2, <3>4 DEF Settled
    <3> QED
      BY <1>3, <1>6, <1>7, <3>5 DEF Stretch
  <2>3. CASE add # 0
    <3>1. Fresh(b)'
      BY <1>3, <1>4, <1>10, <2>1, <2>3 DEF Fresh
    <3> QED
      BY <1>3, <1>6, <1>7, <3>1 DEF Stretch
  <2> QED
    BY <2>2, <2>3
<1>11. CASE Settled(b)
  <2>1. b.at <= last_update /\ (granted - b.given) + tokens <= Most(b)
    BY <1>11 DEF Settled
  <2>2. /\ last_update - b.at \in Nat /\ now - last_update \in Nat
        /\ (last_update - b.at) + (now - last_update) = now - b.at
    BY <1>1, <1>4, <1>7, <2>1
  <2>3. /\ Earned(last_update - b.at) \in Nat /\ Earned(now - last_update) \in Nat
        /\ Earned(now - b.at) \in Nat
        /\ Earned(last_update - b.at) + Earned(now - last_update) <= Earned(now - b.at)
    <3>1. PICK x \in Nat, y \in Nat : x = last_update - b.at /\ y = now - last_update
      BY <2>2
    <3>2. x + y = now - b.at /\ x + y \in Nat
      BY <2>2, <3>1
    <3>3. Earned(x) \in Nat /\ Earned(y) \in Nat /\ Earned(x + y) \in Nat
          /\ Earned(x) + Earned(y) <= Earned(x + y)
      BY <3>2, EarnedIs
    <3> QED
      BY <3>1, <3>2, <3>3
  <2>4. add <= Earned(now - last_update)
    <3>1. CASE now > last_update
      BY <2>3, <3>1 DEF add
    <3>2. CASE ~(now > last_update)
      BY <2>3, <3>2 DEF add
    <3> QED
      BY <3>1, <3>2
  <2>5. Most(b) = large + Earned(last_update - b.at)
    BY <1>8 DEF Most
  <2>6. PICK before \in Nat, more \in Nat, after \in Nat :
          before = Earned(last_update - b.at) /\ more = Earned(now - last_update)
          /\ after = Earned(now - b.at)
    BY <2>3
  <2>7. (granted - b.given) + tokens + add <= large + after
    BY <1>1, <1>2, <1>7, <2>1, <2>3, <2>4, <2>5, <2>6
  <2>8. (granted' - b.given) + tokens' <= Most(b)'
    BY <1>1, <1>2, <1>3, <1>7, <1>9, <2>6, <2>7
  <2>9. \A u \in Callers : (granted' - b.given) + tokens' + call'[u].add <= Most(b)'
    BY <1>1, <1>2, <1>3, <1>5, <1>7, <1>9, <2>6, <2>7
  <2>10. b.at <= last_update'
    BY <1>1, <1>3, <1>4, <1>7, <2>1
  <2>11. Settled(b)'
    BY <2>8, <2>9, <2>10 DEF Settled
  <2> QED
    BY <1>3, <1>6, <1>7, <2>11 DEF Stretch
<1> QED
  BY <1>10, <1>11 DEF Stretch

\* The clamp is what bounds a burst.
LEMMA AddStretches ==
  ASSUME Shape, NEW b, Stretch(b), NEW t \in Callers, AddTokens(t)
  PROVE  Stretch(b)'
<1>1. /\ call[t].add \in Nat /\ call \in [Callers -> Calls]
      /\ last_update \in Nat /\ tokens \in Nat /\ granted \in Nat /\ clock \in Nat
      /\ Capacity \in Nat
  BY LimiterBounds, CapacityAssumption DEF Shape, Numbers, CallsOK, Calls
<1>2. PICK add \in Nat : add = call[t].add
  BY <1>1
<1>3. /\ call[t].pc = "add" /\ call'[t].add = 0 /\ call'[t].pc = "load"
      /\ tokens' \in Nat /\ tokens' <= Capacity /\ tokens' <= tokens + add
      /\ last_update' = last_update /\ granted' = granted /\ clock' = clock
      /\ \A u \in Callers \ {t} : call'[u] = call[u]
  <2>1. tokens' = IF tokens + add < Capacity THEN tokens + add ELSE Capacity
    BY <1>2 DEF AddTokens
  <2>2. tokens' \in Nat /\ tokens' <= Capacity /\ tokens' <= tokens + add
    BY <1>1, <2>1
  <2> QED
    BY <1>1, <2>2 DEF AddTokens, InCall, Calls, histories
<1>4. \A u \in Callers \ {t} : call[u].pc \notin {"swap", "add", "resetTime"}
  BY <1>3 DEF Stretch, Apart
<1>5. \A u \in Callers : call'[u].add = 0
  BY <1>3, <1>4 DEF Shape, CallsOK
<1>6. Apart'
  BY <1>3, <1>4 DEF Apart
<1>7. b \in [at : Nat, given : Nat, held : Nat] /\ b.at <= clock
  BY DEF Stretch
<1>8. PICK large \in Nat : large = Larger(Capacity, b.held) /\ Capacity <= large
  BY <1>7, CapacityAssumption, LargerIs
<1>9. Most(b)' = large + Earned(last_update - b.at) /\ Most(b) = large + Earned(last_update - b.at)
  BY <1>3, <1>8 DEF Most, Earned, Larger
<1>10. b.at <= last_update
  BY <1>1, <1>3, <1>4, <1>7 DEF Stretch, Fresh, Settled
<1>11. Earned(last_update - b.at) \in Nat
  <2>1. last_update - b.at \in Nat
    BY <1>1, <1>7, <1>10
  <2> QED
    BY <2>1, EarnedNat
<1>12. PICK earned \in Nat : earned = Earned(last_update - b.at)
  BY <1>11
<1>13. (granted' - b.given) + tokens' <= large + earned
  <2>1. CASE Fresh(b)
    <3>1. granted = b.given
      BY <2>1 DEF Fresh
    <3> QED
      BY <1>1, <1>3, <1>7, <1>8, <3>1
  <2>2. CASE Settled(b)
    <3>1. (granted - b.given) + tokens + add <= large + earned
      BY <1>2, <1>9, <1>12, <2>2 DEF Settled
    <3> QED
      BY <1>1, <1>3, <1>7, <3>1
  <2> QED
    BY <2>1, <2>2 DEF Stretch
<1>14. \A u \in Callers : (granted' - b.given) + tokens' + call'[u].add <= large + earned
  BY <1>1, <1>3, <1>5, <1>7, <1>13
<1>15. Settled(b)'
  BY <1>3, <1>9, <1>10, <1>12, <1>13, <1>14 DEF Settled
<1> QED
  BY <1>3, <1>6, <1>7, <1>15 DEF Stretch

\* What is taken leaves the bucket.
LEMMA TakeStretches ==
  ASSUME Shape, NEW b, Stretch(b), NEW t \in Callers, TakeTokens(t)
  PROVE  Stretch(b)'
<1>1. /\ call[t].n \in Nat /\ call \in [Callers -> Calls] /\ call[t].n <= tokens
      /\ tokens \in Nat /\ granted \in Nat /\ call[t].pc = "cas"
  BY DEF TakeTokens, InCall, Shape, Numbers, CallsOK, Calls
<1>2. PICK n \in Nat : n = call[t].n /\ n <= tokens
  BY <1>1
<1>3. /\ tokens' = tokens - n /\ granted' = granted + n
      /\ last_update' = last_update /\ clock' = clock
      /\ call'[t].pc = "count" /\ call'[t].add = call[t].add
      /\ \A u \in Callers \ {t} : call'[u] = call[u]
  BY <1>1, <1>2 DEF TakeTokens, Calls
<1>4. Apart'
  BY <1>3 DEF Stretch, Apart
<1>5. b \in [at : Nat, given : Nat, held : Nat] /\ b.at <= clock
  BY DEF Stretch
<1>6. Settled(b)
  BY <1>1 DEF Stretch, Fresh
<1>7. Most(b)' = Most(b)
  BY <1>3 DEF Most, Earned, Larger
<1>8. (granted' - b.given) + tokens' = (granted - b.given) + tokens
  BY <1>1, <1>2, <1>3, <1>5
<1>9. \A u \in Callers : call'[u].add = call[u].add
  BY <1>3
<1>10. Settled(b)'
  BY <1>3, <1>6, <1>7, <1>8, <1>9 DEF Settled
<1> QED
  BY <1>3, <1>4, <1>5, <1>10 DEF Stretch

\* A stretch goes on under a refill that begins when nobody else's is under way, and one
\* begins with it where nobody is about to take tokens.
LEMMA BeginsStretches ==
  ASSUME Shape, Stretches, NEW t \in Callers, BeginsRefill(t),
         tokens' = tokens, granted' = granted, last_update' = last_update, clock' = clock,
         call[t].pc \notin {"swap", "add"}, call'[t].pc = "swap", call'[t].add = 0,
         call'[t].now = clock,
         \A u \in Callers \ {t} : call'[u] = call[u]
  PROVE  Stretches'
<1>1. /\ tokens \in Nat /\ granted \in Nat /\ last_update \in Nat /\ clock \in Nat
      /\ last_update <= clock
  BY LimiterBounds DEF Shape, Numbers
<1>2. CASE Busy(t, {"swap", "add", "resetTime"})
  BY <1>2 DEF BeginsRefill, Stretches
<1>3. CASE ~Busy(t, {"swap", "add", "resetTime"})
  <2>1. \A u \in Callers \ {t} : call[u].pc \notin {"swap", "add", "resetTime"}
    BY <1>3 DEF Busy
  <2>2. Apart'
    BY <1>1, <2>1 DEF Apart
  <2>3. call[t].add = 0
    BY DEF Shape, CallsOK
  <2>4. ASSUME NEW b \in bursts PROVE Stretch(b)'
    <3>1. Stretch(b)
      BY DEF Stretches
    <3>2. Settled(b)
      BY <2>1, <3>1 DEF Stretch, Fresh
    <3>3. Settled(b)'
      BY <2>3, <3>2 DEF Settled, Most, Earned, Larger
    <3> QED
      BY <2>2, <3>1, <3>3 DEF Stretch
  <2>5. CASE Busy(t, {"load", "cas"})
    BY <1>3, <2>4, <2>5 DEF BeginsRefill, Stretches
  <2>6. CASE ~Busy(t, {"load", "cas"})
    <3>1. PICK new \in [at : Nat, given : Nat, held : Nat] :
            new.at = clock /\ new.given = granted /\ new.held = tokens
            /\ bursts' = bursts \union {new}
      <4> DEFINE new == [at |-> clock, given |-> granted, held |-> tokens]
      <4>1. new \in [at : Nat, given : Nat, held : Nat]
        BY <1>1
      <4>2. bursts' = bursts \union {new}
        BY <1>3, <2>6 DEF BeginsRefill
      <4> QED
        BY <4>1, <4>2
    <3>2. Fresh(new)'
      BY <2>6, <3>1 DEF Fresh, Busy
    <3>3. Stretch(new)'
      BY <1>1, <2>2, <3>1, <3>2 DEF Stretch
    <3> QED
      BY <2>4, <3>1, <3>3 DEF Stretches
  <2> QED
    BY <2>5, <2>6
<1> QED
  BY <1>2, <1>3

LEMMA StretchesNext == LimiterInv /\ [LimiterNext]_limiterVars => Stretches'
<1> SUFFICES ASSUME Shape, Stretches, [LimiterNext]_limiterVars PROVE Stretches'
  BY DEF LimiterInv
<1> USE DEF buckets, histories, InCall, Ends
<1>1. /\ clock \in Nat /\ call \in [Callers -> Calls]
      /\ \A t \in Callers : call[t].pc # "add" => call[t].add = 0
  BY LimiterBounds DEF Shape, Numbers, CallsOK
<1>2. NoCall.add = 0 /\ NoCall.pc = "idle"
  BY DEF NoCall
<1>3. CASE Tick
  <2>1. ASSUME NEW b \in bursts PROVE Stretch(b)'
    <3>1. Stretch(b) /\ \A t \in Callers : call[t].pc # "resetTime"
      BY DEF Stretches, Stretch, Apart
    <3> QED
      BY <1>1, <1>3, <3>1, StretchStays DEF Tick
  <2> QED
    BY <1>3, <2>1 DEF Tick, Stretches
<1>4. CASE UNCHANGED limiterVars
  <2>1. ASSUME NEW b \in bursts PROVE Stretch(b)'
    <3>1. Stretch(b) /\ \A t \in Callers : call[t].pc # "resetTime"
      BY DEF Stretches, Stretch, Apart
    <3> QED
      BY <1>1, <1>4, <3>1, StretchStays DEF limiterVars
  <2> QED
    BY <1>4, <2>1 DEF limiterVars, Stretches
<1>5. ASSUME NEW t \in Callers, NEW how, NEW n, NEW until, Call(t, how, n, until)
      PROVE  Stretches'
  <2> DEFINE new == [NoCall EXCEPT !.pc = "swap", !.kind = how, !.n = n, !.now = clock,
                                   !.since = IF how = "acquire" THEN clock ELSE 0,
                                   !.until = until]
  <2>1. new.pc = "swap" /\ new.add = 0 /\ new.now = clock
    BY DEF NoCall
  <2>2. call' = [call EXCEPT ![t] = new]
    BY <1>5 DEF Call
  <2> HIDE DEF new
  <2>3. /\ call[t].pc = "idle" /\ BeginsRefill(t)
        /\ UNCHANGED <<clock, tokens, last_update, granted>>
    BY <1>5 DEF Call
  <2> QED
    BY <1>1, <2>1, <2>2, <2>3, BeginsStretches
<1>6. ASSUME NEW t \in Callers, Retry(t) PROVE Stretches'
  <2>1. /\ call[t].pc = "sleep" /\ BeginsRefill(t)
        /\ UNCHANGED <<clock, tokens, last_update, granted>>
        /\ call'[t].pc = "swap" /\ call'[t].now = clock /\ call'[t].add = 0
        /\ \A u \in Callers \ {t} : call'[u] = call[u]
    BY <1>1, <1>6 DEF Retry, Awake, Calls
  <2> QED
    BY <2>1, BeginsStretches
<1>7. ASSUME NEW t \in Callers, SwapLastUpdate(t) \/ AddTokens(t) \/ TakeTokens(t) PROVE Stretches'
  <2>1. bursts' = bursts
    BY <1>7 DEF SwapLastUpdate, AddTokens, TakeTokens
  <2> QED
    BY <1>7, <2>1, SwapStretches, AddStretches, TakeStretches DEF Stretches
<1>8. ASSUME NEW t \in Callers, ResetTokens(t) PROVE Stretches'
  BY <1>8 DEF ResetTokens, Stretches
<1>9. ASSUME NEW t \in Callers, ResetTime(t) PROVE Stretches'
  BY <1>9 DEF ResetTime, Stretches, Stretch, Apart
<1>10. ASSUME NEW t \in Callers, LoadTokens(t) \/ TakeFails(t) \/ CountRejected(t)
       PROVE  Stretches'
  <2>1. /\ UNCHANGED <<clock, tokens, last_update, granted, bursts>>
        /\ call[t].pc \in {"load", "cas", "reject"}
        /\ call'[t].pc \in {"load", "cas", "reject", "sleep", "idle"} /\ call'[t].add = 0
        /\ call'[t].pc \in {"load", "cas"} => call[t].pc \in {"load", "cas"}
        /\ \A u \in Callers \ {t} : call'[u] = call[u]
    BY <1>1, <1>2, <1>10 DEF LoadTokens, TakeFails, CountRejected, Calls
  <2>2. call[t].add = 0
    BY <1>1, <2>1
  <2>3. ASSUME NEW b \in bursts PROVE Stretch(b)'
    <3>1. Stretch(b) /\ \A u \in Callers : call[u].pc # "resetTime"
      BY DEF Stretches, Stretch, Apart
    <3> QED
      BY <1>1, <2>1, <2>2, <3>1, StretchStays
  <2> QED
    BY <2>1, <2>3 DEF Stretches
<1>11. ASSUME NEW t \in Callers,
              AnswerTokens(t) \/ CountAcquired(t) \/ GiveUp(t) \/ ResetCounts(t)
       PROVE  Stretches'
  <2>1. /\ UNCHANGED <<clock, tokens, last_update, granted, bursts>>
        /\ call[t].pc \in {"load", "count", "sleep", "resetCounts", "resetRejected"}
        /\ call'[t].pc \in {"idle", "resetRejected"} /\ call'[t].add = 0
        /\ \A u \in Callers \ {t} : call'[u] = call[u]
    BY <1>1, <1>2, <1>11 DEF AnswerTokens, CountAcquired, GiveUp, Awake, ResetCounts, Calls
  <2>2. call[t].add = 0
    BY <1>1, <2>1
  <2>3. ASSUME NEW b \in bursts PROVE Stretch(b)'
    <3>1. Stretch(b) /\ \A u \in Callers : call[u].pc # "resetTime"
      BY DEF Stretches, Stretch, Apart
    <3> QED
      BY <1>1, <2>1, <2>2, <3>1, StretchStays
  <2> QED
    BY <2>1, <2>3 DEF Stretches
<1> QED
  BY <1>3, <1>4, <1>5, <1>6, <1>7, <1>8, <1>9, <1>10, <1>11 DEF LimiterNext, LimiterStep

THEOREM LimiterInvariance == LimiterSpec => []LimiterInv
<1>1. LimiterInv /\ [LimiterNext]_limiterVars => LimiterInv'
  BY ShapeNext, FundedNext, BoundedNext, StretchesNext DEF LimiterInv
<1> QED
  BY <1>1, LimiterInvInit, PTL DEF LimiterSpec

---------------------------------------------------------------------------
(* RateLimiter: what follows                                               *)

LEMMA LimiterTyped == LimiterInv => LimiterTypeOK
  BY LimiterBounds DEF LimiterInv, Shape, Numbers, CallsOK, Calls, LimiterTypeOK

\* The types hold in every state; the word of tokens never wraps below zero.
THEOREM LimiterTypeCorrect == LimiterSpec => []LimiterTypeOK
  BY LimiterTyped, LimiterInvariance, PTL

\* Whatever the threads do to each other in between, the limiter grants no more than
\* its first tokens and what the time since its creation earns, but for what resets
\* and overtaken refills put in; its bucket is never above the capacity or its first
\* tokens; and a burst that no two refills overlap in is no larger than the capacity
\* and what time has earned since it began.
THEOREM RateIsHonoured == LimiterSpec => []RateHonoured
<1>1. LimiterInv => RateHonoured
  <2> SUFFICES ASSUME LimiterInv PROVE RateHonoured
    OBVIOUS
  <2>1. /\ last_update + rewound \in Nat /\ clock + rewound \in Nat
        /\ last_update + rewound <= clock + rewound
        /\ granted \in Nat /\ tokens \in Nat /\ refunded \in Nat
        /\ InitialTokens \in Nat /\ Cardinality(Pending) \in Nat
    BY LimiterBounds, CapacityAssumption, FS_CardinalityType DEF LimiterInv, Shape, Numbers, CallsOK, Funded
  <2>2. /\ Earned(last_update + rewound) <= Earned(clock + rewound)
        /\ Earned(last_update + rewound) \in Nat /\ Earned(clock + rewound) \in Nat
    BY <2>1, EarnedIs
  <2>3. granted + tokens <= InitialTokens + refunded + Earned(clock + rewound)
    BY <2>1, <2>2 DEF LimiterInv, Funded
  <2>4. ASSUME NEW b \in bursts
        PROVE  (granted - b.given) + tokens <= Larger(Capacity, b.held) + Earned(clock - b.at)
    <3>1. /\ b \in [at : Nat, given : Nat, held : Nat] /\ b.at <= clock
          /\ Fresh(b) \/ Settled(b)
      BY DEF LimiterInv, Stretches, Stretch
    <3>2. PICK large \in Nat : large = Larger(Capacity, b.held) /\ b.held <= large
      BY <3>1, CapacityAssumption, LargerIs
    <3>3. clock \in Nat /\ last_update \in Nat /\ last_update <= clock /\ clock - b.at \in Nat
      BY <3>1, LimiterBounds DEF LimiterInv, Shape, Numbers
    <3>4. PICK all \in Nat : all = Earned(clock - b.at)
      BY <3>3, EarnedNat
    <3>5. CASE Fresh(b)
      <4>1. granted = b.given /\ tokens = b.held
        BY <3>5 DEF Fresh
      <4> QED
        BY <2>1, <3>1, <3>2, <3>4, <4>1
    <3>6. CASE Settled(b)
      <4>1. /\ b.at <= last_update
            /\ (granted - b.given) + tokens <= large + Earned(last_update - b.at)
        BY <3>2, <3>6 DEF Settled, Most
      <4>2. last_update - b.at \in Nat /\ last_update - b.at <= clock - b.at
        BY <3>1, <3>3, <4>1
      <4>3. Earned(last_update - b.at) \in Nat /\ Earned(last_update - b.at) <= all
        BY <3>3, <3>4, <4>2, EarnedIs
      <4> QED
        BY <2>1, <3>1, <3>2, <3>4, <4>1, <4>3
    <3> QED
      BY <3>1, <3>5, <3>6
  <2> QED
    BY <2>3, <2>4 DEF LimiterInv, Bounded, RateHonoured
<1> QED
  BY <1>1, LimiterInvariance, PTL

---------------------------------------------------------------------------
(* MonotonicClock: the invariant                                           *)

ClockCalls == [pc : {"idle", "load", "cas", "count"}, raw : Nat, last : Nat,
             stamping : BOOLEAN, least : Nat]
Stamps == [seq : Nat \union {-1}, time : Nat, least : Nat, epoch : Nat]

ClockTypes ==
  /\ last_timestamp \in Nat /\ sequence \in Nat /\ answered \in Nat /\ epoch \in Nat
  /\ reading \in [Stampers -> ClockCalls]
  /\ stamps \subseteq Stamps

\* The clock is never behind an answer, nor behind what a call has to exceed; a
\* thread exchanges only for a later time, and its answer is in the clock before its
\* stamp is numbered.
InTime ==
  /\ answered <= last_timestamp
  /\ \A t \in Stampers :
       /\ reading[t].least <= last_timestamp
       /\ reading[t].pc = "cas" => reading[t].raw > reading[t].last
       /\ reading[t].pc = "count" => reading[t].last \in reading[t].least..last_timestamp
  /\ \A s \in stamps : s.time >= s.least

\* The stamps made since the last reset_seq have the numbers below the next one.
Numbered == {s \in stamps : s.seq >= 0}
InSequence ==
  /\ \A s \in stamps : s.epoch <= epoch /\ (s.epoch = epoch => s.seq < sequence)
  /\ \A n \in Nat : n < sequence => \E r \in stamps : r.seq = n /\ r.epoch = epoch
  /\ epoch = 0 => IsFiniteSet(Numbered) /\ Cardinality(Numbered) = sequence

ClockInv == ClockTypes /\ InTime /\ InSequence

LEMMA ClockInvInit == ClockInit => ClockInv
<1> SUFFICES ASSUME ClockInit PROVE ClockInv
  OBVIOUS
<1>1. NoReading \in ClockCalls /\ NoReading.least = 0 /\ NoReading.pc = "idle"
  BY DEF NoReading, ClockCalls
<1>2. ClockTypes
  BY <1>1 DEF ClockInit, ClockTypes
<1>3. InTime
  BY <1>1 DEF ClockInit, InTime
<1>4. Numbered = {}
  BY DEF ClockInit, Numbered
<1>5. InSequence
  BY <1>4, FS_EmptySet DEF ClockInit, InSequence
<1> QED
  BY <1>2, <1>3, <1>5 DEF ClockInv

---------------------------------------------------------------------------
(* MonotonicClock: steps without a stamp, and with one                     *)

\* A thread goes on with its call, and nobody is answered.
LEMMA CallGoesOn ==
  ASSUME ClockInv, NEW t \in Stampers, NEW r \in ClockCalls, reading' = [reading EXCEPT ![t] = r],
         last_timestamp' \in Nat, last_timestamp' >= last_timestamp,
         UNCHANGED <<sequence, answered, stamps, epoch>>,
         r.least <= last_timestamp',
         r.pc = "cas" => r.raw > r.last,
         r.pc = "count" => r.last \in r.least..last_timestamp'
  PROVE  ClockInv'
<1>1. reading'[t] = r /\ \A u \in Stampers \ {t} : reading'[u] = reading[u]
  BY DEF ClockInv, ClockTypes
<1>2. ClockTypes'
  BY DEF ClockInv, ClockTypes
<1>3. \A u \in Stampers : /\ reading[u].least \in Nat /\ reading[u].last \in Nat
                          /\ reading[u].raw \in Nat
  BY DEF ClockInv, ClockTypes, ClockCalls
<1>4. last_timestamp \in Nat /\ answered \in Nat
  BY DEF ClockInv, ClockTypes
<1>5. \A u \in Stampers :
        /\ reading'[u].least <= last_timestamp'
        /\ reading'[u].pc = "cas" => reading'[u].raw > reading'[u].last
        /\ reading'[u].pc = "count" => reading'[u].last \in reading'[u].least..last_timestamp'
  <2> TAKE u \in Stampers
  <2>1. CASE u = t
    BY <1>1, <2>1
  <2>2. CASE u # t
    BY <1>1, <1>3, <1>4, <2>2 DEF ClockInv, InTime
  <2> QED
    BY <2>1, <2>2
<1>6. InTime'
  BY <1>4, <1>5 DEF ClockInv, InTime
<1>7. InSequence'
  BY DEF ClockInv, InSequence, Numbered
<1> QED
  BY <1>2, <1>6, <1>7 DEF ClockInv

\* A call ends with the answer `time`, and with a stamp if it takes a number.
LEMMA CallEnds ==
  ASSUME ClockInv, NEW t \in Stampers, NEW time \in Nat, NEW seq \in {-1, sequence},
         reading' = [reading EXCEPT ![t] = NoReading],
         last_timestamp' \in Nat, last_timestamp' >= last_timestamp,
         time >= reading[t].least, time <= last_timestamp',
         answered' = IF time > answered THEN time ELSE answered,
         stamps' = stamps \union {[seq |-> seq, time |-> time, least |-> reading[t].least, epoch |-> epoch]},
         sequence' = IF seq = -1 THEN sequence ELSE sequence + 1,
         epoch' = epoch
  PROVE  ClockInv'
<1> DEFINE s == [seq |-> seq, time |-> time, least |-> reading[t].least, epoch |-> epoch]
<1>1. /\ last_timestamp \in Nat /\ answered \in Nat /\ sequence \in Nat /\ epoch \in Nat
      /\ stamps \subseteq Stamps /\ reading \in [Stampers -> ClockCalls]
  BY DEF ClockInv, ClockTypes
<1>2. \A u \in Stampers : /\ reading[u].least \in Nat /\ reading[u].last \in Nat
                          /\ reading[u].raw \in Nat
  BY <1>1 DEF ClockCalls
<1>3. s \in Stamps /\ s.time = time /\ s.least = reading[t].least /\ s.seq = seq /\ s.epoch = epoch
  BY <1>1, <1>2 DEF Stamps
<1>4. stamps' = stamps \union {s}
  OBVIOUS
<1> HIDE DEF s
<1>5. NoReading \in ClockCalls /\ NoReading.least = 0 /\ NoReading.pc = "idle"
  BY DEF NoReading, ClockCalls
<1>6. reading'[t] = NoReading /\ \A u \in Stampers \ {t} : reading'[u] = reading[u]
  BY <1>1
<1>7. ClockTypes'
  <2>1. sequence' \in Nat /\ answered' \in Nat
    BY <1>1
  <2>2. stamps' \subseteq Stamps
    BY <1>1, <1>3, <1>4
  <2>3. reading' \in [Stampers -> ClockCalls]
    BY <1>1, <1>5
  <2> QED
    BY <1>1, <2>1, <2>2, <2>3 DEF ClockTypes
<1>8. InTime'
  <2>1. answered' <= last_timestamp'
    BY <1>1 DEF ClockInv, InTime
  <2>2. \A u \in Stampers :
          /\ reading'[u].least <= last_timestamp'
          /\ reading'[u].pc = "cas" => reading'[u].raw > reading'[u].last
          /\ reading'[u].pc = "count" => reading'[u].last \in reading'[u].least..last_timestamp'
    <3> TAKE u \in Stampers
    <3>1. CASE u = t
      BY <1>1, <1>5, <1>6, <3>1
    <3>2. CASE u # t
      BY <1>1, <1>2, <1>6, <3>2 DEF ClockInv, InTime
    <3> QED
      BY <3>1, <3>2
  <2>3. \A r \in stamps' : r.time >= r.least
    BY <1>3, <1>4 DEF ClockInv, InTime
  <2> QED
    BY <2>1, <2>2, <2>3 DEF InTime
<1>9. \A r \in stamps' : r.epoch <= epoch' /\ (r.epoch = epoch' => r.seq < sequence')
  <2>1. \A r \in stamps : r.epoch \in Nat /\ r.seq \in Int
    BY <1>1 DEF Stamps
  <2>2. s.epoch <= epoch /\ s.seq < sequence'
    BY <1>1, <1>3
  <2>3. \A r \in stamps : r.epoch <= epoch /\ (r.epoch = epoch => r.seq < sequence')
    BY <1>1, <2>1 DEF ClockInv, InSequence
  <2> QED
    BY <1>4, <2>2, <2>3
<1>10. \A n \in Nat : n < sequence' => \E r \in stamps' : r.seq = n /\ r.epoch = epoch'
  <2>1. SUFFICES ASSUME NEW n \in Nat, n < sequence' PROVE \E r \in stamps' : r.seq = n /\ r.epoch = epoch
    OBVIOUS
  <2>2. CASE n < sequence
    BY <1>4, <2>2 DEF ClockInv, InSequence
  <2>3. CASE ~(n < sequence)
    <3>1. n = sequence /\ seq = sequence
      BY <1>1, <2>1, <2>3
    <3> QED
      BY <1>3, <1>4, <3>1
  <2> QED
    BY <2>2, <2>3
<1>11. epoch' = 0 => IsFiniteSet(Numbered') /\ Cardinality(Numbered') = sequence'
  <2> SUFFICES ASSUME epoch = 0
               PROVE  IsFiniteSet(Numbered') /\ Cardinality(Numbered') = sequence'
    OBVIOUS
  <2>1. IsFiniteSet(Numbered) /\ Cardinality(Numbered) = sequence
    BY DEF ClockInv, InSequence
  <2>2. CASE seq = -1
    <3>1. Numbered' = Numbered
      BY <1>3, <1>4, <2>2 DEF Numbered
    <3> QED
      BY <2>1, <2>2, <3>1
  <2>3. CASE seq # -1
    <3>1. seq = sequence /\ seq >= 0
      BY <1>1, <2>3
    <3>2. Numbered' = Numbered \union {s}
      BY <1>3, <1>4, <3>1 DEF Numbered
    <3>3. \A r \in stamps : r.seq # sequence
      <4>1. \A r \in stamps : r.epoch = epoch
        BY <1>1 DEF ClockInv, InSequence, Stamps
      <4> QED
        BY <1>1, <4>1 DEF ClockInv, InSequence, Stamps
    <3>4. s \notin Numbered
      BY <1>3, <3>1, <3>3 DEF Numbered
    <3> QED
      BY <1>1, <2>1, <2>3, <3>1, <3>2, <3>4, FS_AddElement
  <2> QED
    BY <2>2, <2>3
<1>12. InSequence'
  BY <1>9, <1>10, <1>11 DEF InSequence
<1> QED
  BY <1>7, <1>8, <1>12 DEF ClockInv

---------------------------------------------------------------------------
(* MonotonicClock: every step                                              *)

\* What LoadLast and SwapLast make of the time they found.
LEMMA AnswerKeeps ==
  ASSUME ClockInv, NEW t \in Stampers, NEW time \in Nat, Answers(t, time),
         last_timestamp' \in Nat, last_timestamp' >= last_timestamp,
         time >= reading[t].least, time <= last_timestamp',
         UNCHANGED <<sequence, epoch>>
  PROVE  ClockInv'
<1> DEFINE r == reading[t]
<1>1. r \in ClockCalls /\ r.least \in Nat /\ last_timestamp \in Nat /\ sequence \in Nat
  BY DEF ClockInv, ClockTypes, ClockCalls
<1>2. CASE r.stamping
  <2> DEFINE q == [r EXCEPT !.pc = "count", !.last = time]
  <2>1. reading' = [reading EXCEPT ![t] = q] /\ UNCHANGED <<answered, stamps>>
    BY <1>2 DEF Answers
  <2>2. q \in ClockCalls /\ q.least = r.least /\ q.pc = "count" /\ q.last = time
    BY <1>1 DEF ClockCalls
  <2>3. r.least <= last_timestamp'
    BY <1>1 DEF ClockInv, InTime
  <2>4. q.last \in q.least..last_timestamp'
    BY <1>1, <2>2
  <2> HIDE DEF q
  <2> QED
    BY <2>1, <2>2, <2>3, <2>4, CallGoesOn
<1>3. CASE ~r.stamping
  <2>1. /\ reading' = [reading EXCEPT ![t] = NoReading]
        /\ answered' = IF time > answered THEN time ELSE answered
        /\ stamps' = stamps \union {[seq |-> -1, time |-> time, least |-> reading[t].least, epoch |-> epoch]}
    BY <1>3 DEF Answers
  <2> QED
    BY <1>1, <2>1, CallEnds
<1> QED
  BY <1>2, <1>3

LEMMA ClockInvariance == ClockSpec => []ClockInv
<1>1. ClockInit => ClockInv
  BY ClockInvInit
<1>2. ClockInv /\ [ClockNext]_clockVars => ClockInv'
  <2> SUFFICES ASSUME ClockInv, [ClockNext]_clockVars PROVE ClockInv'
    OBVIOUS
  <2>1. /\ last_timestamp \in Nat /\ sequence \in Nat /\ answered \in Nat
        /\ answered <= last_timestamp
        /\ \A t \in Stampers : /\ reading[t] \in ClockCalls /\ reading[t].least \in Nat
                               /\ reading[t].raw \in Nat /\ reading[t].last \in Nat
                               /\ reading[t].least <= last_timestamp
    BY DEF ClockInv, ClockTypes, ClockCalls, InTime
  <2>2. ASSUME NEW t \in Stampers, NEW raw \in RawTimes, NEW stamping \in BOOLEAN,
               ReadRaw(t, raw, stamping)
        PROVE  ClockInv'
    <3> DEFINE q == [NoReading EXCEPT !.pc = "load", !.raw = raw, !.stamping = stamping,
                                      !.least = answered]
    <3>1. q \in ClockCalls /\ q.least = answered /\ q.pc = "load"
      BY <2>1, RawTimesAssumption DEF ClockCalls, NoReading
    <3>2. /\ reading' = [reading EXCEPT ![t] = q]
          /\ UNCHANGED <<last_timestamp, sequence, answered, stamps, epoch>>
      BY <2>2 DEF ReadRaw
    <3>3. /\ last_timestamp' \in Nat /\ last_timestamp' >= last_timestamp
          /\ q.least <= last_timestamp' /\ q.pc # "cas" /\ q.pc # "count"
      BY <2>1, <3>1, <3>2
    <3> HIDE DEF q
    <3> QED
      BY <3>1, <3>2, <3>3, CallGoesOn
  <2>3. ASSUME NEW t \in Stampers, LoadLast(t) PROVE ClockInv'
    <3>1. UNCHANGED <<last_timestamp, sequence, epoch>>
      BY <2>3 DEF LoadLast
    <3>2. CASE reading[t].raw > last_timestamp
      <4> DEFINE q == [reading[t] EXCEPT !.pc = "cas", !.last = last_timestamp]
      <4>1. q \in ClockCalls /\ q.least = reading[t].least /\ q.pc = "cas"
            /\ q.raw = reading[t].raw /\ q.last = last_timestamp
        BY <2>1 DEF ClockCalls
      <4>2. reading' = [reading EXCEPT ![t] = q] /\ UNCHANGED <<answered, stamps>>
        BY <2>3, <3>2 DEF LoadLast, ClockInv, ClockTypes
      <4>3. /\ last_timestamp' \in Nat /\ last_timestamp' >= last_timestamp
            /\ q.least <= last_timestamp' /\ q.raw > q.last /\ q.pc # "count"
        BY <2>1, <3>1, <3>2, <4>1
      <4> HIDE DEF q
      <4> QED
        BY <3>1, <4>1, <4>2, <4>3, CallGoesOn
    <3>3. CASE ~(reading[t].raw > last_timestamp)
      <4>1. Answers(t, last_timestamp)
        BY <2>3, <3>3 DEF LoadLast
      <4> QED
        BY <2>1, <3>1, <4>1, AnswerKeeps
    <3> QED
      BY <3>2, <3>3
  <2>4. ASSUME NEW t \in Stampers, SwapLast(t) PROVE ClockInv'
    <3>1. /\ Answers(t, reading[t].raw) /\ UNCHANGED <<sequence, epoch>>
          /\ last_timestamp' = reading[t].raw
      BY <2>4 DEF SwapLast
    <3>2. reading[t].raw > last_timestamp
      BY <2>4 DEF SwapLast, ClockInv, InTime
    <3> QED
      BY <2>1, <3>1, <3>2, AnswerKeeps
  <2>5. ASSUME NEW t \in Stampers, SwapLastFails(t) PROVE ClockInv'
    <3> DEFINE q == [reading[t] EXCEPT !.pc = "load", !.last = 0]
    <3>1. q \in ClockCalls /\ q.least = reading[t].least /\ q.pc = "load"
      BY <2>1 DEF ClockCalls
    <3>2. /\ reading' = [reading EXCEPT ![t] = q]
          /\ UNCHANGED <<last_timestamp, sequence, answered, stamps, epoch>>
      BY <2>5 DEF SwapLastFails, ClockInv, ClockTypes
    <3>3. /\ last_timestamp' \in Nat /\ last_timestamp' >= last_timestamp
          /\ q.least <= last_timestamp' /\ q.pc # "cas" /\ q.pc # "count"
      BY <2>1, <3>1, <3>2
    <3> HIDE DEF q
    <3> QED
      BY <3>1, <3>2, <3>3, CallGoesOn
  <2>6. ASSUME NEW t \in Stampers, TakeNumber(t) PROVE ClockInv'
    <3> DEFINE time == reading[t].last
    <3>1. /\ reading' = [reading EXCEPT ![t] = NoReading]
          /\ answered' = IF time > answered THEN time ELSE answered
          /\ stamps' = stamps \union {[seq |-> sequence, time |-> time,
                                       least |-> reading[t].least, epoch |-> epoch]}
          /\ sequence' = sequence + 1 /\ UNCHANGED <<last_timestamp, epoch>>
      BY <2>6 DEF TakeNumber
    <3>2. time \in Nat /\ time >= reading[t].least /\ time <= last_timestamp
      BY <2>1, <2>6 DEF TakeNumber, ClockInv, InTime
    <3>3. /\ sequence \in {-1, sequence} /\ epoch' = epoch
          /\ sequence' = IF sequence = -1 THEN sequence ELSE sequence + 1
          /\ last_timestamp' \in Nat /\ last_timestamp' >= last_timestamp
          /\ time <= last_timestamp'
      BY <2>1, <3>1, <3>2
    <3> HIDE DEF time
    <3> QED
      BY <3>1, <3>2, <3>3, CallEnds
  <2>7. CASE ResetSeq
    <3>1. /\ sequence' = 0 /\ epoch' = epoch + 1 /\ epoch \in Nat
          /\ UNCHANGED <<last_timestamp, reading, answered, stamps>>
      BY <2>7 DEF ResetSeq, ClockInv, ClockTypes
    <3>2. ClockTypes' /\ InTime'
      BY <3>1 DEF ClockInv, ClockTypes, InTime
    <3>3. \A s \in stamps : s.epoch \in Nat /\ s.epoch <= epoch
      BY DEF ClockInv, ClockTypes, Stamps, InSequence
    <3>4. InSequence'
      BY <3>1, <3>3 DEF InSequence
    <3> QED
      BY <3>2, <3>4 DEF ClockInv
  <2>8. CASE UNCHANGED clockVars
    BY <2>8 DEF clockVars, ClockInv, ClockTypes, InTime, InSequence, Numbered
  <2> QED
    BY <2>2, <2>3, <2>4, <2>5, <2>6, <2>7, <2>8 DEF ClockNext
<1> QED
  BY <1>1, <1>2, PTL DEF ClockSpec

\* timestamp.rs:117-119, whatever the threads and the raw times: a call answers a
\* time no less than any answered before it began, and the stamps since the last
\* reset_seq are numbered one by one, so that dropped_since counts what lies between.
THEOREM StampsInOrder == ClockSpec => []StampsAreSound
<1>1. ClockInv => StampsAreSound
  <2> SUFFICES ASSUME ClockInv PROVE StampsAreSound
    OBVIOUS
  <2>1. \A s \in stamps : s.seq >= 1 /\ epoch = s.epoch =>
          \E r \in stamps : r.seq = s.seq - 1 /\ r.epoch = s.epoch /\ DroppedSince(s.seq, r.seq + 1) = 0
    <3>1. SUFFICES ASSUME NEW s \in stamps, s.seq >= 1, epoch = s.epoch
                   PROVE  \E r \in stamps : /\ r.seq = s.seq - 1 /\ r.epoch = s.epoch
                                            /\ DroppedSince(s.seq, r.seq + 1) = 0
      OBVIOUS
    <3>2. s.seq \in Nat /\ s.seq < sequence /\ sequence \in Nat
      BY <3>1 DEF ClockInv, ClockTypes, Stamps, InSequence
    <3>3. s.seq - 1 \in Nat /\ s.seq - 1 < sequence
      BY <3>1, <3>2
    <3>4. PICK r \in stamps : r.seq = s.seq - 1 /\ r.epoch = epoch
      BY <3>3 DEF ClockInv, InSequence
    <3>5. DroppedSince(s.seq, r.seq + 1) = 0
      BY <3>2, <3>4 DEF DroppedSince
    <3> QED
      BY <3>1, <3>4, <3>5
  <2>2. /\ \A s \in stamps : s.time >= s.least
        /\ last_timestamp >= answered
        /\ \A t \in Stampers : reading[t].pc = "count" => reading[t].last \in reading[t].least..last_timestamp
    BY DEF ClockInv, ClockTypes, InTime
  <2>3. epoch = 0 => sequence = Cardinality({s \in stamps : s.seq >= 0})
    BY DEF ClockInv, InSequence, Numbered
  <2> QED
    BY <2>1, <2>2, <2>3 DEF StampsAreSound
<1> QED
  BY <1>1, ClockInvariance, PTL

---------------------------------------------------------------------------
(* TimestampSync: where the readings are                                   *)

\* The reading i was pushed so many readings before the last one, and lies as many
\* slots before the one that was written last.
Back(i) == Len(pushed) - i
Place(i) == IF Back(i) < write_idx THEN write_idx - 1 - Back(i)
                                   ELSE write_idx - 1 - Back(i) + SyncCap

SyncTypes ==
  /\ buffer \in [Slot -> [time : Nat, id : Nat]]
  /\ write_idx \in Slot /\ count \in 0..SyncCap
  /\ pushed \in Seq(Nat) /\ expired \subseteq 1..Len(pushed)

\* Each slot in use holds a reading of the window at its place, and each reading of
\* the window is there.
Holds(s, i) == buffer[s].id = i /\ buffer[s].time = pushed[i]
HeldInPlace ==
  /\ \A s \in Kept : buffer[s].id \in Window /\ Place(buffer[s].id) = s
  /\ \A i \in Window : Holds(Place(i), i)

\* The count errs upwards only, and not at all if the readings came in order: then
\* those a match has made too old are the first ones.
Counted ==
  /\ Cardinality(Kept) <= count
  /\ InOrder => /\ count = Cardinality(Kept)
                /\ \A i, j \in DOMAIN pushed : i < j /\ j \in expired => i \in expired

\* What MatchIsClosest says of the last answer.
Answered ==
  pair.primary >= 0 =>
    IF pair.secondary = NoItem
    THEN \A i \in pair.window : AbsDiff(pushed[i], pair.primary) > Tolerance
    ELSE /\ pair.secondary.id \in pair.window
         /\ AbsDiff(pair.secondary.time, pair.primary) <= Tolerance
         /\ \A i \in pair.window :
              AbsDiff(pushed[i], pair.primary) >= AbsDiff(pair.secondary.time, pair.primary)

SyncInv == SyncTypes /\ HeldInPlace /\ Counted /\ Answered

LEMMA SyncInvInit == SyncInit => SyncInv
<1> SUFFICES ASSUME SyncInit PROVE SyncInv
  OBVIOUS
<1>1. Kept = {} /\ DOMAIN pushed = {} /\ Window = {}
  BY DEF SyncInit, SyncFresh, Kept, InUse, Window, Recent
<1>2. SyncTypes
  BY SyncCapAssumption DEF SyncInit, SyncFresh, SyncTypes, Slot, NoItem
<1>3. HeldInPlace
  BY <1>1 DEF HeldInPlace
<1>4. Counted
  BY <1>1, FS_EmptySet DEF Counted, SyncInit, SyncFresh
<1>5. Answered
  BY DEF SyncInit, NoPair, Answered
<1> QED
  BY <1>2, <1>3, <1>4, <1>5 DEF SyncInv

\* The window and the slots, as numbers.
LEMMA SyncNumbers ==
  ASSUME SyncTypes
  PROVE  /\ SyncCap \in Nat \ {0} /\ Len(pushed) \in Nat /\ write_idx \in 0..SyncCap - 1
         /\ DOMAIN pushed = 1..Len(pushed)
         /\ \A i \in Recent : i \in 1..Len(pushed) /\ i > Len(pushed) - SyncCap
         /\ \A i \in 1..Len(pushed) : i > Len(pushed) - SyncCap => i \in Recent
         /\ Window \subseteq Recent
         /\ \A i \in 1..Len(pushed) : pushed[i] \in Nat
         /\ \A s \in Slot : /\ buffer[s].time \in Nat /\ buffer[s].id \in Nat
                            /\ buffer[s].id # 0 => InUse(s)
         /\ Kept \subseteq Slot
<1>1. SyncCap \in Nat \ {0} /\ Len(pushed) \in Nat /\ write_idx \in 0..SyncCap - 1
  BY SyncCapAssumption DEF SyncTypes, Slot
<1>2. DOMAIN pushed = 1..Len(pushed) /\ \A i \in 1..Len(pushed) : pushed[i] \in Nat
  BY DEF SyncTypes
<1>3. \A i : i \in Recent <=> i \in 1..Len(pushed) /\ i > Len(pushed) - SyncCap
  BY <1>2 DEF Recent
<1>4. Window \subseteq Recent /\ Kept \subseteq Slot
  BY DEF Window, Kept
<1>5. \A s \in Slot : /\ buffer[s].time \in Nat /\ buffer[s].id \in Nat
                      /\ buffer[s].id # 0 => InUse(s)
  BY DEF SyncTypes, InUse, NoItem
<1> QED
  BY <1>1, <1>2, <1>3, <1>4, <1>5

LEMMA SlotsAreFinite ==
  /\ IsFiniteSet(Slot) /\ Cardinality(Slot) = SyncCap
  /\ \A S \in SUBSET Slot : IsFiniteSet(S) /\ Cardinality(S) \in Nat /\ Cardinality(S) <= SyncCap
<1>1. IsFiniteSet(0..SyncCap - 1) /\ Cardinality(0..SyncCap - 1) = SyncCap
  BY SyncCapAssumption, FS_Interval
<1>2. IsFiniteSet(Slot) /\ Cardinality(Slot) = SyncCap
  BY <1>1 DEF Slot
<1>3. ASSUME NEW S \in SUBSET Slot
      PROVE  IsFiniteSet(S) /\ Cardinality(S) \in Nat /\ Cardinality(S) <= SyncCap
  BY <1>2, <1>3, FS_Subset, FS_CardinalityType
<1> QED
  BY <1>2, <1>3

\* Two recent readings have two places, every slot is the place of one once the
\* buffer has gone round, and the next reading takes the place of the oldest.
LEMMA PlacesOfReadings ==
  ASSUME SyncTypes
  PROVE  /\ \A i \in Recent : Place(i) \in Slot
         /\ \A i, j \in Recent : Place(i) = Place(j) => i = j
         /\ Len(pushed) >= SyncCap => \A s \in Slot : \E i \in Recent : Place(i) = s
         /\ \A i \in Recent : Place(i) = write_idx <=> i = Len(pushed) + 1 - SyncCap
<1>0. /\ SyncCap \in Nat \ {0} /\ Len(pushed) \in Nat /\ write_idx \in 0..SyncCap - 1
      /\ \A i \in Recent : i \in 1..Len(pushed) /\ i > Len(pushed) - SyncCap
      /\ \A i \in 1..Len(pushed) : i > Len(pushed) - SyncCap => i \in Recent
  BY SyncNumbers
<1> DEFINE n == Len(pushed)
<1>1. n \in Nat
  BY <1>0
<1> HIDE DEF n
<1>2. \A i : Place(i) = IF n - i < write_idx THEN write_idx - 1 - (n - i)
                                              ELSE write_idx - 1 - (n - i) + SyncCap
  BY DEF Place, Back, n
<1>3. \A i \in Recent : i \in 1..n /\ i > n - SyncCap
  BY <1>0 DEF n
<1>4. ASSUME NEW i \in Recent
      PROVE  Place(i) \in 0..SyncCap - 1 /\ (Place(i) = write_idx <=> i = n + 1 - SyncCap)
  <2>1. /\ i \in Int /\ i >= 1 /\ i <= n /\ i > n - SyncCap
        /\ SyncCap \in Int /\ write_idx \in Int /\ 0 <= write_idx /\ write_idx < SyncCap
    BY <1>0, <1>1, <1>3
  <2>2. CASE n - i < write_idx
    <3>1. Place(i) = write_idx - 1 - (n - i)
      BY <1>2, <2>2
    <3> QED
      BY <1>1, <2>1, <2>2, <3>1
  <2>3. CASE ~(n - i < write_idx)
    <3>1. Place(i) = write_idx - 1 - (n - i) + SyncCap
      BY <1>2, <2>3
    <3> QED
      BY <1>1, <2>1, <2>3, <3>1
  <2> QED
    BY <2>2, <2>3
<1>5. ASSUME NEW i \in Recent, NEW j \in Recent, Place(i) = Place(j)
      PROVE  i = j
  <2>1. /\ i \in Int /\ i <= n /\ i > n - SyncCap /\ j \in Int /\ j <= n /\ j > n - SyncCap
        /\ SyncCap \in Int /\ write_idx \in Int /\ 0 <= write_idx /\ write_idx < SyncCap
    BY <1>0, <1>1, <1>3
  <2>2. \/ Place(i) = write_idx - 1 - (n - i) /\ n - i < write_idx
        \/ Place(i) = write_idx - 1 - (n - i) + SyncCap /\ ~(n - i < write_idx)
    BY <1>2
  <2>3. \/ Place(j) = write_idx - 1 - (n - j) /\ n - j < write_idx
        \/ Place(j) = write_idx - 1 - (n - j) + SyncCap /\ ~(n - j < write_idx)
    BY <1>2
  <2> QED
    BY <1>1, <1>5, <2>1, <2>2, <2>3
<1>6. ASSUME n >= SyncCap, NEW s \in 0..SyncCap - 1
      PROVE  \E i \in Recent : Place(i) = s
  <2>1. CASE s < write_idx
    <3>1. n - (write_idx - 1 - s) \in 1..n /\ n - (write_idx - 1 - s) > n - SyncCap
      BY <1>0, <1>1, <1>6, <2>1
    <3>2. Place(n - (write_idx - 1 - s)) = s
      BY <1>0, <1>1, <1>2, <2>1
    <3> QED
      BY <1>0, <3>1, <3>2 DEF n
  <2>2. CASE s >= write_idx
    <3>1. n - (write_idx - 1 - s + SyncCap) \in 1..n /\ n - (write_idx - 1 - s + SyncCap) > n - SyncCap
      BY <1>0, <1>1, <1>6, <2>2
    <3>2. Place(n - (write_idx - 1 - s + SyncCap)) = s
      BY <1>0, <1>1, <1>2, <2>2
    <3> QED
      BY <1>0, <3>1, <3>2 DEF n
  <2> QED
    BY <1>0, <2>1, <2>2
<1> QED
  BY <1>4, <1>5, <1>6 DEF n, Slot

---------------------------------------------------------------------------
(* TimestampSync: the closest reading                                      *)

\* find_closest answers one of those that are near, and none of them is closer.
LEMMA ClosestIs ==
  ASSUME SyncTypes, NEW target \in Nat, Near(target) # {}
  PROVE  /\ FindClosest(target) \in Near(target)
         /\ \A r \in Near(target) :
              AbsDiff(target, buffer[FindClosest(target)].time) <= AbsDiff(target, buffer[r].time)
<1> DEFINE d(s) == AbsDiff(target, buffer[s].time)
           Best(s) == \A r \in Near(target) \ {s} : d(s) < d(r) \/ (d(s) = d(r) /\ s < r)
<1>0. \A s \in Near(target) : s \in Nat /\ d(s) \in Nat
  <2>1. ASSUME NEW s \in Near(target) PROVE s \in Slot /\ buffer[s].time \in Nat
    <3>1. s \in Slot
      BY DEF Near
    <3> QED
      BY <3>1, SyncNumbers
  <2>2. \A x \in Nat, y \in Nat : AbsDiff(x, y) \in Nat
    BY DEF AbsDiff
  <2>3. ASSUME NEW s \in Near(target) PROVE s \in Nat
    BY <2>1, SyncCapAssumption DEF Slot
  <2>4. ASSUME NEW s \in Near(target) PROVE d(s) \in Nat
    BY <2>1, <2>2
  <2> QED
    BY <2>3, <2>4
<1>1. PICK m \in {d(s) : s \in Near(target)} : \A n \in {d(s) : s \in Near(target)} : m <= n
  <2>1. {d(s) : s \in Near(target)} \subseteq Nat /\ {d(s) : s \in Near(target)} # {}
    BY <1>0
  <2> HIDE DEF d
  <2> QED
    BY <2>1, LeastOf
<1>2. PICK s \in {s \in Near(target) : d(s) = m} : \A r \in {r \in Near(target) : d(r) = m} : s <= r
  <2>1. {r \in Near(target) : d(r) = m} \subseteq Nat /\ {r \in Near(target) : d(r) = m} # {}
    BY <1>0, <1>1
  <2> HIDE DEF d
  <2> QED
    BY <2>1, LeastOf
<1> HIDE DEF d
<1>3. s \in Near(target) /\ Best(s)
  <2>1. s \in Near(target) /\ d(s) = m
    BY <1>2
  <2>2. ASSUME NEW r \in Near(target) \ {s} PROVE d(s) < d(r) \/ (d(s) = d(r) /\ s < r)
    <3>1. s \in Nat /\ r \in Nat /\ d(s) \in Nat /\ d(r) \in Nat /\ r # s /\ d(s) <= d(r)
      BY <1>0, <1>1, <2>1
    <3>2. d(r) = d(s) => s <= r
      BY <1>2, <2>1
    <3> QED
      BY <3>1, <3>2
  <2> QED
    BY <2>1, <2>2
<1>4. FindClosest(target) = CHOOSE t \in Near(target) : Best(t)
  BY DEF FindClosest, d
<1>5. FindClosest(target) \in Near(target) /\ Best(FindClosest(target))
  <2> HIDE DEF Best
  <2> QED
    BY <1>3, <1>4
<1>6. \A r \in Near(target) : d(FindClosest(target)) <= d(r)
  BY <1>0, <1>5
<1> QED
  BY <1>5, <1>6 DEF d

---------------------------------------------------------------------------
(* TimestampSync: one step                                                 *)

LEMMA PushKeeps ==
  ASSUME SyncInv, NEW time \in Times, PushSecondary(time)
  PROVE  SyncInv'
<1>n. PICK n : n = Len(pushed)
  OBVIOUS
<1> DEFINE new == [time |-> time, id |-> n + 1]
           oldest == n + 1 - SyncCap
<1>0. SyncTypes /\ HeldInPlace /\ Counted
  BY DEF SyncInv
<1>1. /\ SyncCap \in Nat \ {0} /\ n \in Nat /\ write_idx \in 0..SyncCap - 1 /\ write_idx \in Slot
      /\ count \in 0..SyncCap /\ time \in Nat
  BY <1>n, <1>0, SyncNumbers, SyncTimesAssumption DEF SyncTypes
<1>2. /\ buffer' = [buffer EXCEPT ![write_idx] = new] /\ pushed' = Append(pushed, time)
      /\ write_idx' = (write_idx + 1) % SyncCap
      /\ count' = IF count < SyncCap THEN count + 1 ELSE count
      /\ pair' = NoPair /\ expired' = expired
  BY <1>n DEF PushSecondary
<1>3. /\ Len(pushed') = n + 1 /\ pushed'[n+1] = time /\ \A i \in 1..n : pushed'[i] = pushed[i]
      /\ pushed' \in Seq(Nat)
  BY <1>n, <1>0, <1>1, <1>2 DEF SyncTypes
<1>4. write_idx' = (IF write_idx + 1 = SyncCap THEN 0 ELSE write_idx + 1)
  BY <1>1, <1>2
<1>5. /\ buffer'[write_idx] = new /\ new.id = n + 1 /\ new.time = time /\ new # NoItem
      /\ \A s \in Slot \ {write_idx} : buffer'[s] = buffer[s]
      /\ buffer' \in [Slot -> [time : Nat, id : Nat]]
  BY <1>0, <1>1, <1>2 DEF SyncTypes, NoItem
<1> HIDE DEF new
<1>6. SyncTypes'
  <2>1. write_idx' \in Slot /\ count' \in 0..SyncCap
    BY <1>1, <1>2, <1>4 DEF Slot
  <2>2. expired' \subseteq 1..Len(pushed')
    BY <1>n, <1>0, <1>1, <1>2, <1>3 DEF SyncTypes
  <2> QED
    BY <1>3, <1>5, <2>1, <2>2 DEF SyncTypes
<1>7. Kept' = Kept \union {write_idx}
  BY <1>1, <1>5 DEF Kept, InUse
<1>8. /\ \A i \in Window' : i = n + 1 \/ (i \in Window /\ i # oldest)
      /\ \A i \in Window : i # oldest => i \in Window'
      /\ n + 1 \in Window'
  <2>1. /\ \A i : i \in Recent' <=> i \in 1..n + 1 /\ i > n + 1 - SyncCap
        /\ \A i : i \in Recent <=> i \in 1..n /\ i > n - SyncCap
    BY <1>n, <1>0, <1>3, <1>6, SyncNumbers DEF Recent
  <2>2. n + 1 \notin expired
    BY <1>n, <1>0, <1>1 DEF SyncTypes
  <2>3. n + 1 \in Recent' /\ expired' = expired
    BY <1>1, <1>2, <2>1
  <2>4. ASSUME NEW i \in Window' PROVE i = n + 1 \/ (i \in Window /\ i # oldest)
    <3>1. i \in 1..n + 1 /\ i > n + 1 - SyncCap /\ i \notin expired
      BY <1>2, <2>1 DEF Window
    <3>2. i # n + 1 => i \in 1..n /\ i > n - SyncCap /\ i # n + 1 - SyncCap
      BY <1>1, <3>1
    <3> QED
      BY <2>1, <3>1, <3>2 DEF Window
  <2>5. ASSUME NEW i \in Window, i # oldest PROVE i \in Window'
    <3>1. i \in 1..n /\ i > n - SyncCap /\ i \notin expired
      BY <2>1 DEF Window
    <3>2. i \in 1..n + 1 /\ i > n + 1 - SyncCap
      BY <1>1, <2>5, <3>1
    <3> QED
      BY <1>2, <2>1, <3>1, <3>2 DEF Window
  <2> QED
    BY <2>2, <2>3, <2>4, <2>5 DEF Window
<1>9. /\ Place(n + 1)' = write_idx
      /\ \A i \in Window : i # oldest => Place(i)' = Place(i) /\ Place(i) \in Slot \ {write_idx}
  <2>0. PICK w, m : w = write_idx' /\ m = Len(pushed') /\ m = n + 1
    BY <1>3
  <2>1. ASSUME NEW i
        PROVE  Place(i)' = IF m - i < w THEN w - 1 - (m - i) ELSE w - 1 - (m - i) + SyncCap
    BY <2>0 DEF Place, Back
  <2>2. \A i : Place(i) = IF n - i < write_idx THEN write_idx - 1 - (n - i)
                                               ELSE write_idx - 1 - (n - i) + SyncCap
    BY <1>n DEF Place, Back
  <2>3. Place(n + 1)' = write_idx
    <3>1. n \in Nat /\ m = n + 1 /\ w = (IF write_idx + 1 = SyncCap THEN 0 ELSE write_idx + 1)
      BY <1>1, <1>4, <2>0
    <3>2. Place(n + 1)' = IF m - (n + 1) < w THEN w - 1 - (m - (n + 1)) ELSE w - 1 - (m - (n + 1)) + SyncCap
      BY <2>1
    <3> QED
      BY <1>1, <3>1, <3>2
  <2>4. ASSUME NEW i \in Window, i # oldest PROVE Place(i)' = Place(i) /\ Place(i) \in Slot \ {write_idx}
    <3>1. i \in 1..n /\ i > n - SyncCap /\ i # n + 1 - SyncCap /\ i \in Recent
      BY <1>n, <1>0, <2>4, SyncNumbers
    <3>2. Place(i) \in Slot /\ Place(i) # write_idx
      BY <1>n, <1>0, <3>1, PlacesOfReadings
    <3>3. Place(i)' = Place(i)
      <4>1. n \in Nat /\ m = n + 1 /\ w = (IF write_idx + 1 = SyncCap THEN 0 ELSE write_idx + 1)
        BY <1>1, <1>4, <2>0
      <4>2. Place(i)' = IF m - i < w THEN w - 1 - (m - i) ELSE w - 1 - (m - i) + SyncCap
        BY <2>1
      <4> QED
        BY <1>1, <2>2, <3>1, <4>1, <4>2
    <3> QED
      BY <3>2, <3>3
  <2> QED
    BY <2>3, <2>4
<1>10. HeldInPlace'
  <2>1. ASSUME NEW s \in Kept' PROVE buffer'[s].id \in Window' /\ Place(buffer[s].id)' = s
    <3>1. CASE s = write_idx
      BY <1>5, <1>8, <1>9, <3>1
    <3>2. CASE s # write_idx
      <4>1. s \in Kept /\ buffer'[s] = buffer[s]
        BY <1>5, <1>7, <2>1, <3>2 DEF Kept
      <4>2. buffer[s].id \in Window /\ Place(buffer[s].id) = s
        BY <1>0, <4>1 DEF HeldInPlace
      <4>3. buffer[s].id # oldest
        BY <1>n, <1>0, <4>2, <3>2, PlacesOfReadings, SyncNumbers
      <4> QED
        BY <1>8, <1>9, <4>1, <4>2, <4>3
    <3> QED
      BY <3>1, <3>2
  <2>2. ASSUME NEW i \in Window' PROVE Holds(Place(i), i)'
    <3>1. CASE i = n + 1
      BY <1>3, <1>5, <1>9, <3>1 DEF Holds
    <3>2. CASE i \in Window /\ i # oldest
      <4>1. Holds(Place(i), i) /\ i \in 1..n
        BY <1>n, <1>0, <3>2, SyncNumbers DEF HeldInPlace
      <4> QED
        BY <1>3, <1>5, <1>9, <3>2, <4>1 DEF Holds
    <3> QED
      BY <1>8, <3>1, <3>2
  <2> QED
    BY <2>1, <2>2 DEF HeldInPlace
<1>11. InOrder' => InOrder
  BY <1>n, <1>0, <1>1, <1>3, <1>6, SyncNumbers DEF InOrder
<1>12. ASSUME InOrder', NEW i \in DOMAIN pushed', NEW j \in DOMAIN pushed', i < j, j \in expired'
       PROVE  i \in expired'
  <2>1. j \in 1..n /\ i \in 1..n
    BY <1>n, <1>0, <1>2, <1>3, <1>6, <1>12, SyncNumbers DEF SyncTypes
  <2> QED
    BY <1>n, <1>0, <1>2, <1>11, <1>12, <2>1, SyncNumbers DEF Counted
<1>13. Cardinality(Kept') <= count' /\ (InOrder' => count' = Cardinality(Kept'))
  <2>0. /\ Cardinality(Kept) \in Nat /\ Cardinality(Kept) <= count
        /\ IsFiniteSet(Kept) /\ Kept' \subseteq Slot
    BY <1>0, <1>6, SlotsAreFinite DEF Counted, Kept
  <2>1. CASE write_idx \notin Kept
    <3>1. Cardinality(Kept') = Cardinality(Kept) + 1
      BY <1>7, <2>0, <2>1, FS_AddElement
    <3>2. Cardinality(Kept') <= SyncCap
      BY <2>0, SlotsAreFinite
    <3>3. InOrder' => count = Cardinality(Kept)
      BY <1>0, <1>11 DEF Counted
    <3> QED
      BY <1>1, <1>2, <2>0, <3>1, <3>2, <3>3
  <2>2. CASE write_idx \in Kept
    <3>1. Kept' = Kept
      BY <1>7, <2>2
    <3>2. InOrder' => Cardinality(Kept) = SyncCap
      <4>1. SUFFICES ASSUME InOrder' PROVE Kept = Slot
        BY SlotsAreFinite
      <4>2. oldest \in Window
        BY <1>n, <1>0, <2>2, PlacesOfReadings, SyncNumbers DEF HeldInPlace
      <4>3. n >= SyncCap
        BY <1>n, <1>0, <1>1, <4>2, SyncNumbers
      <4>4. ASSUME NEW i \in Recent PROVE i \in Window
        <5>1. i \in 1..n /\ oldest \in 1..n /\ i >= oldest
          BY <1>n, <1>0, <1>1, <4>2, SyncNumbers
        <5>2. i \in expired => oldest \in expired
          <6>1. \A k, j \in DOMAIN pushed : k < j /\ j \in expired => k \in expired
            BY <1>0, <1>11, <4>1 DEF Counted
          <6>2. i \in DOMAIN pushed /\ oldest \in DOMAIN pushed /\ (i = oldest \/ oldest < i)
            BY <1>n, <1>0, <1>1, <5>1, SyncNumbers
          <6> HIDE DEF oldest
          <6> QED
            BY <6>1, <6>2
        <5> QED
          BY <4>2, <5>2 DEF Window
      <4>5. ASSUME NEW s \in Slot PROVE s \in Kept
        <5>1. PICK i \in Recent : Place(i) = s
          BY <1>n, <1>0, <4>3, PlacesOfReadings
        <5>2. buffer[s].id = i /\ i # 0
          BY <1>0, <4>4, <5>1, SyncNumbers DEF HeldInPlace, Holds
        <5> QED
          BY <1>0, <5>2, SyncNumbers DEF Kept
      <4> QED
        BY <1>0, <4>5, SyncNumbers
    <3> QED
      BY <1>1, <1>2, <2>0, <3>1, <3>2
  <2> QED
    BY <2>1, <2>2
<1>14. Counted'
  BY <1>12, <1>13 DEF Counted
<1>15. Answered'
  BY <1>2 DEF Answered, NoPair
<1> QED
  BY <1>6, <1>10, <1>14, <1>15 DEF SyncInv

LEMMA MatchKeeps ==
  ASSUME SyncInv, NEW time \in Times, MatchPrimary(time)
  PROVE  SyncInv'
<1> DEFINE cutoff == IF time > Tolerance THEN time - Tolerance ELSE 0
           pruned == {s \in Slot : TooOld(s, cutoff)}
<1>0. SyncTypes /\ HeldInPlace /\ Counted
  BY DEF SyncInv
<1>1. /\ Near(time) # {}
      /\ pair' = [primary |-> time, secondary |-> buffer[FindClosest(time)], window |-> Window]
      /\ buffer' = [s \in Slot |-> IF s \in pruned THEN NoItem ELSE buffer[s]]
      /\ count' = IF count > Cardinality(pruned) THEN count - Cardinality(pruned) ELSE 0
      /\ expired' = expired \union {i \in DOMAIN pushed : pushed[i] < cutoff}
      /\ UNCHANGED <<write_idx, pushed>>
  BY DEF MatchPrimary
<1>2. time \in Nat /\ Tolerance \in Nat /\ cutoff \in Nat /\ count \in 0..SyncCap /\ SyncCap \in Nat \ {0}
  BY <1>0, SyncTimesAssumption, SyncCapAssumption DEF SyncTypes
<1> HIDE DEF cutoff
<1>3. \A s \in Slot : s \in pruned <=> s \in Kept /\ buffer[s].time < cutoff
  BY DEF TooOld, Kept
<1> HIDE DEF pruned
<1>4. Kept' = Kept \ pruned
  BY <1>1 DEF Kept, InUse
<1>5. \A i : i \in Window' <=> i \in Window /\ ~(pushed[i] < cutoff)
  BY <1>0, <1>1, SyncNumbers DEF Window, Recent
<1>6. SyncTypes'
  <2>1. buffer' \in [Slot -> [time : Nat, id : Nat]]
    BY <1>0, <1>1 DEF SyncTypes, NoItem
  <2>2. Cardinality(pruned) \in Nat
    BY SlotsAreFinite DEF pruned
  <2>3. count' \in 0..SyncCap
    BY <1>1, <1>2, <2>2
  <2>4. expired' \subseteq 1..Len(pushed')
    BY <1>0, <1>1, SyncNumbers DEF SyncTypes
  <2> QED
    BY <1>0, <1>1, <2>1, <2>3, <2>4 DEF SyncTypes
<1>7. HeldInPlace'
  <2>1. \A i : Place(i)' = Place(i)
    BY <1>1 DEF Place, Back
  <2>2. ASSUME NEW s \in Kept' PROVE buffer'[s].id \in Window' /\ Place(buffer[s].id)' = s
    <3>1. s \in Kept /\ s \in Slot /\ s \notin pruned /\ buffer'[s] = buffer[s]
      BY <1>1, <1>4, <2>2 DEF Kept
    <3>2. buffer[s].id \in Window /\ Place(buffer[s].id) = s /\ buffer[s].time = pushed[buffer[s].id]
      BY <1>0, <3>1 DEF HeldInPlace, Holds
    <3> QED
      BY <1>3, <1>5, <2>1, <3>1, <3>2
  <2>3. ASSUME NEW i \in Window' PROVE Holds(Place(i), i)'
    <3>1. i \in Window /\ ~(pushed[i] < cutoff)
      BY <1>5
    <3>2. Place(i) \in Slot /\ buffer[Place(i)].id = i /\ buffer[Place(i)].time = pushed[i]
      BY <1>0, <3>1, PlacesOfReadings, SyncNumbers DEF HeldInPlace, Holds
    <3>3. buffer'[Place(i)] = buffer[Place(i)]
      BY <1>1, <1>3, <3>1, <3>2
    <3> QED
      BY <1>1, <2>1, <3>2, <3>3 DEF Holds
  <2> QED
    BY <2>2, <2>3 DEF HeldInPlace
<1>8. Cardinality(Kept') <= count' /\ (InOrder' => count' = Cardinality(Kept'))
  <2>1. /\ pruned \subseteq Kept /\ Kept \subseteq Slot
        /\ IsFiniteSet(Kept) /\ IsFiniteSet(pruned)
        /\ Cardinality(Kept) \in Nat /\ Cardinality(pruned) \in Nat /\ Cardinality(Kept') \in Nat
    BY <1>3, <1>4, SlotsAreFinite DEF Kept, pruned
  <2>2. Cardinality(Kept') = Cardinality(Kept) - Cardinality(pruned)
    <3>1. Kept \intersect pruned = pruned
      BY <2>1
    <3>2. Cardinality(Kept \ pruned) = Cardinality(Kept) - Cardinality(Kept \intersect pruned)
      BY <2>1, FS_Difference
    <3> QED
      BY <1>4, <3>1, <3>2
  <2>3. Cardinality(Kept) <= count /\ (InOrder' => count = Cardinality(Kept))
    BY <1>0, <1>1 DEF Counted, InOrder
  <2> QED
    BY <1>1, <1>2, <2>1, <2>2, <2>3
<1>9. ASSUME InOrder', NEW i \in DOMAIN pushed', NEW j \in DOMAIN pushed', i < j, j \in expired'
      PROVE  i \in expired'
  <2>1. InOrder /\ i \in DOMAIN pushed /\ j \in DOMAIN pushed
    BY <1>1, <1>9 DEF InOrder
  <2>2. CASE j \in expired
    BY <1>0, <1>1, <1>9, <2>1, <2>2 DEF Counted
  <2>3. CASE pushed[j] < cutoff
    <3>1. pushed[i] \in Nat /\ pushed[j] \in Nat /\ pushed[i] <= pushed[j]
      BY <1>0, <1>9, <2>1, SyncNumbers DEF InOrder
    <3> QED
      BY <1>1, <1>2, <2>1, <2>3, <3>1
  <2> QED
    BY <1>1, <1>9, <2>2, <2>3
<1>10. Counted'
  BY <1>8, <1>9 DEF Counted
<1>11. Answered'
  <2> DEFINE c == FindClosest(time)
  <2>1. /\ c \in Near(time)
        /\ \A r \in Near(time) : AbsDiff(time, buffer[c].time) <= AbsDiff(time, buffer[r].time)
    BY <1>0, <1>1, <1>2, ClosestIs
  <2> HIDE DEF c
  <2>2. /\ pair'.primary = time /\ pair'.secondary = buffer[c] /\ pair'.window = Window
    BY <1>1 DEF c
  <2>3. /\ c \in Slot /\ c \in Kept /\ buffer[c] # NoItem /\ buffer[c].time \in Nat
        /\ AbsDiff(time, buffer[c].time) <= Tolerance
    BY <1>0, <2>1, SyncNumbers DEF Near, Kept, InUse
  <2>4. \A x \in Nat, y \in Nat : AbsDiff(x, y) = AbsDiff(y, x) /\ AbsDiff(x, y) \in Nat
    BY DEF AbsDiff
  <2>5. ASSUME NEW i \in Window PROVE AbsDiff(pushed[i], time) >= AbsDiff(buffer[c].time, time)
    <3>1. /\ Place(i) \in Slot /\ buffer[Place(i)].id = i /\ buffer[Place(i)].time = pushed[i]
          /\ i # 0 /\ pushed[i] \in Nat
      BY <1>0, PlacesOfReadings, SyncNumbers DEF HeldInPlace, Holds
    <3>2. InUse(Place(i))
      BY <1>0, <3>1, SyncNumbers
    <3>3. CASE Place(i) \in Near(time)
      BY <1>2, <2>1, <2>3, <2>4, <3>1, <3>3
    <3>4. CASE Place(i) \notin Near(time)
      <4>1. ~(AbsDiff(time, pushed[i]) <= Tolerance)
        BY <3>1, <3>2, <3>4 DEF Near
      <4>2. /\ AbsDiff(pushed[i], time) = AbsDiff(time, pushed[i]) /\ AbsDiff(time, pushed[i]) \in Nat
            /\ AbsDiff(buffer[c].time, time) = AbsDiff(time, buffer[c].time)
            /\ AbsDiff(time, buffer[c].time) \in Nat
        BY <1>2, <2>3, <2>4, <3>1
      <4> QED
        BY <1>2, <2>3, <4>1, <4>2
    <3> QED
      BY <3>3, <3>4
  <2>6. buffer[c].id \in Window /\ AbsDiff(buffer[c].time, time) <= Tolerance
    BY <1>0, <1>2, <2>3, <2>4 DEF HeldInPlace
  <2> QED
    BY <1>1, <2>2, <2>3, <2>5, <2>6 DEF Answered
<1> QED
  BY <1>6, <1>7, <1>10, <1>11 DEF SyncInv

LEMMA MissKeeps ==
  ASSUME SyncInv, NEW time \in Times, MissPrimary(time)
  PROVE  SyncInv'
<1>0. SyncTypes /\ HeldInPlace /\ Counted
  BY DEF SyncInv
<1>1. /\ Near(time) = {} /\ UNCHANGED <<buffer, write_idx, count, pushed, expired>>
      /\ pair'.primary = time /\ pair'.window = Window /\ pair'.secondary = NoItem
  BY DEF MissPrimary, NoPair
<1>2. time \in Nat
  BY SyncTimesAssumption
<1>3. ASSUME NEW i \in Window PROVE AbsDiff(pushed[i], time) > Tolerance
  <2>1. /\ Place(i) \in Slot /\ buffer[Place(i)].id = i /\ buffer[Place(i)].time = pushed[i]
        /\ i # 0 /\ pushed[i] \in Nat
    BY <1>0, PlacesOfReadings, SyncNumbers DEF HeldInPlace, Holds
  <2>2. ~(AbsDiff(time, pushed[i]) <= Tolerance)
    BY <1>0, <1>1, <2>1, SyncNumbers DEF Near
  <2> QED
    BY <1>2, <2>1, <2>2, SyncTimesAssumption DEF AbsDiff
<1>4. Answered'
  BY <1>1, <1>3 DEF Answered
<1>5. SyncTypes' /\ HeldInPlace' /\ Counted'
  BY <1>0, <1>1 DEF SyncTypes, HeldInPlace, Holds, Place, Back, Counted, Kept, InUse, Window, Recent, InOrder
<1> QED
  BY <1>4, <1>5 DEF SyncInv

LEMMA ResetKeeps ==
  ASSUME SyncInv, ResetSync
  PROVE  SyncInv'
<1>1. /\ buffer' = [s \in Slot |-> NoItem] /\ write_idx' = 0 /\ count' = 0
      /\ pushed' = <<>> /\ expired' = {} /\ pair' = NoPair
  BY DEF ResetSync
<1>2. Kept' = {} /\ DOMAIN pushed' = {} /\ Window' = {}
  BY <1>1 DEF Kept, InUse, Window, Recent
<1>3. SyncTypes'
  BY <1>1, SyncCapAssumption DEF SyncTypes, Slot, NoItem
<1>4. Counted'
  BY <1>1, <1>2, FS_EmptySet DEF Counted
<1>5. HeldInPlace' /\ Answered'
  BY <1>1, <1>2 DEF HeldInPlace, Answered, NoPair
<1> QED
  BY <1>3, <1>4, <1>5 DEF SyncInv

LEMMA SyncInvariance == SyncSpec => []SyncInv
<1>1. SyncInit => SyncInv
  BY SyncInvInit
<1>2. SyncInv /\ [SyncNext]_syncVars => SyncInv'
  <2>1. CASE UNCHANGED syncVars
    BY <2>1 DEF syncVars, SyncInv, SyncTypes, HeldInPlace, Holds, Place, Back, Counted, Answered,
                Kept, InUse, Window, Recent, InOrder
  <2> QED
    BY <2>1, PushKeeps, MatchKeeps, MissKeeps, ResetKeeps DEF SyncNext
<1> QED
  BY <1>1, <1>2, PTL DEF SyncSpec

\* fusion.rs:135-141, for every capacity, tolerance and order of the inputs: the
\* buffer holds the last secondary readings that no match has made too old, a primary
\* is matched with the closest of them, and the length errs upwards only.
THEOREM ClosestIsMatched == SyncSpec => []MatchIsClosest
<1>1. ASSUME SyncInv PROVE MatchIsClosest
  <2>0. SyncTypes /\ HeldInPlace /\ Counted /\ Answered
    BY <1>1 DEF SyncInv
  <2>1. {buffer[s].id : s \in Kept} = Window
    <3>1. ASSUME NEW i \in Window PROVE \E s \in Kept : buffer[s].id = i
      <4>1. Place(i) \in Slot /\ buffer[Place(i)].id = i /\ i # 0
        BY <2>0, PlacesOfReadings, SyncNumbers DEF HeldInPlace, Holds
      <4> QED
        BY <2>0, <4>1, SyncNumbers DEF Kept
    <3> QED
      BY <2>0, <3>1 DEF HeldInPlace
  <2>2. \A s \in Kept : buffer[s].time = pushed[buffer[s].id]
    BY <2>0 DEF HeldInPlace, Holds
  <2>3. Cardinality(Kept) <= count /\ count <= SyncCap /\ (InOrder => count = Cardinality(Kept))
    BY <2>0, SyncCapAssumption DEF SyncTypes, Counted
  <2> QED
    BY <2>0, <2>1, <2>2, <2>3 DEF MatchIsClosest, Answered
<1> QED
  BY <1>1, SyncInvariance, PTL
---------------------------------------------------------------------------
(* AdaptiveController: a level that is moved stays on the scale            *)

Bands == {"high", "mid", "low"}
Works == [pc : {"idle", "clear", "count", "move", "sample", "accept", "ask", "drop",
                "setting", "resetSamples", "resetHysteresis"},
          current : Levels, load : Bands]

ControllerInv ==
  /\ utilization \in Bands /\ level \in Levels
  /\ hysteresis \in 0..Threshold + 1 /\ samples \in 0..SampleRate(Minimal) - 1
  /\ sets \in 0..MaxSets
  /\ work \in [Workers -> Works]
  /\ \A w \in Workers : work[w].pc = "move" => MayMove(w)

LEMMA RestingIs == Resting \in Works /\ Full \in Levels /\ Resting.pc = "idle"
  BY LevelAssumption DEF Resting, Works, Bands, Levels, Full

LEMMA ControllerInvInit == ControllerInit => ControllerInv
<1> SUFFICES ASSUME ControllerInit PROVE ControllerInv
  OBVIOUS
<1>1. work = [w \in Workers |-> Resting] /\ level = Full /\ utilization \in Bands
  BY DEF ControllerInit, Bands
<1>2. hysteresis \in 0..Threshold + 1 /\ sets \in 0..MaxSets /\ samples \in 0..SampleRate(Minimal) - 1
  BY LevelAssumption, ControllerBounds, SampleRateAssumption DEF ControllerInit
<1> QED
  BY <1>1, <1>2, RestingIs DEF ControllerInv

\* One thread goes on; what it may have changed besides is in its type.
LEMMA WorkGoesOn ==
  ASSUME ControllerInv, NEW w \in Workers, NEW x \in Works, work' = [work EXCEPT ![w] = x],
         x.pc = "move" => IF x.load = "high" THEN x.current < Minimal ELSE x.current > Full,
         utilization' = utilization, level' \in Levels, hysteresis' \in 0..Threshold + 1,
         samples' \in 0..SampleRate(Minimal) - 1, sets' \in 0..MaxSets
  PROVE  ControllerInv'
<1>1. work \in [Workers -> Works]
  BY DEF ControllerInv
<1>2. work' \in [Workers -> Works] /\ work'[w] = x /\ \A v \in Workers \ {w} : work'[v] = work[v]
  BY <1>1
<1>3. ASSUME NEW v \in Workers, work'[v].pc = "move" PROVE MayMove(v)'
  <2>1. CASE v = w
    BY <1>2, <1>3, <2>1 DEF MayMove
  <2>2. CASE v # w
    BY <1>2, <1>3, <2>2 DEF MayMove, ControllerInv
  <2> QED
    BY <2>1, <2>2
<1> QED
  BY <1>2, <1>3 DEF ControllerInv

LEMMA ControllerKeeps == ControllerInv /\ [ControllerNext]_adaptiveVars => ControllerInv'
<1> SUFFICES ASSUME ControllerInv, [ControllerNext]_adaptiveVars PROVE ControllerInv'
  OBVIOUS
<1>1. /\ utilization \in Bands /\ level \in Levels /\ hysteresis \in 0..Threshold + 1
      /\ samples \in 0..SampleRate(Minimal) - 1 /\ sets \in 0..MaxSets
      /\ \A w \in Workers : work[w] \in Works
  BY DEF ControllerInv
<1>2. /\ Levels \subseteq Nat /\ Full \in Levels /\ Minimal \in Nat /\ Threshold \in Nat /\ MaxSets \in Nat
      /\ SampleRate(Minimal) \in Nat \ {0}
  BY LevelAssumption, ControllerBounds, SampleRateAssumption, RestingIs DEF Levels, Full
<1>3. 0 \in 0..Threshold + 1 /\ 0 \in 0..SampleRate(Minimal) - 1
  BY <1>2
<1>4. ASSUME NEW w \in Workers, ControllerStep(w) PROVE ControllerInv'
  <2> DEFINE at(p) == [work[w] EXCEPT !.pc = p]
  <2>1. \A p \in {"clear", "sample", "accept", "drop", "idle", "resetHysteresis"} :
          at(p) \in Works /\ at(p).pc # "move"
    BY <1>1 DEF Works
  <2>2. CASE LoadLevel(w)
    <3>1. PICK x : /\ x = [pc |-> IF utilization = "mid" THEN "clear" ELSE "count",
                           current |-> level, load |-> utilization]
                   /\ work' = [work EXCEPT ![w] = x]
      BY <2>2 DEF LoadLevel
    <3>2. x \in Works /\ x.pc # "move"
      BY <1>1, <3>1 DEF Works
    <3>3. UNCHANGED <<utilization, controls, sets>>
      BY <2>2 DEF LoadLevel
    <3> QED
      BY <1>1, <3>1, <3>2, <3>3, WorkGoesOn DEF controls
  <2>3. CASE CountHysteresis(w)
    <3>1. PICK x : /\ x = [work[w] EXCEPT !.pc = IF hysteresis >= Threshold /\ MayMove(w)
                                                 THEN "move" ELSE "sample"]
                   /\ work' = [work EXCEPT ![w] = x]
      BY <2>3 DEF CountHysteresis
    <3>2. x \in Works /\ x.current = work[w].current /\ x.load = work[w].load
      BY <1>1, <3>1 DEF Works
    <3>3. x.pc = "move" => MayMove(w)
      BY <1>1, <3>1 DEF Works
    <3>4. hysteresis' \in 0..Threshold + 1
      BY <1>1, <1>2, <2>3 DEF CountHysteresis, Capped
    <3>5. UNCHANGED <<utilization, level, samples, sets>>
      BY <2>3 DEF CountHysteresis
    <3> QED
      BY <1>1, <3>1, <3>2, <3>3, <3>4, <3>5, WorkGoesOn DEF MayMove
  <2>4. CASE MoveLevel(w)
    <3>1. work' = [work EXCEPT ![w] = at("clear")] /\ work[w].pc = "move"
      BY <2>4 DEF MoveLevel, WorkGoto
    <3>2. work[w].current \in Levels /\ MayMove(w)
      BY <1>1, <3>1 DEF ControllerInv, Works
    <3>3. level' \in Levels
      BY <1>2, <2>4, <3>2 DEF MoveLevel, MayMove, Levels, Full
    <3>4. UNCHANGED <<utilization, hysteresis, samples, sets>>
      BY <2>4 DEF MoveLevel
    <3> HIDE DEF at
    <3> QED
      BY <1>1, <2>1, <3>1, <3>3, <3>4, WorkGoesOn
  <2>5. CASE ClearHysteresis(w) \/ SetClears(w) \/ ResetSamples(w) \/ ResetHysteresis(w)
    <3>1. PICK p \in {"sample", "idle", "resetHysteresis"} : work' = [work EXCEPT ![w] = at(p)]
      BY <2>5 DEF ClearHysteresis, SetClears, ResetSamples, ResetHysteresis, WorkGoto
    <3>2. /\ utilization' = utilization /\ level' = level /\ sets' = sets
          /\ hysteresis' = hysteresis \/ hysteresis' = 0
          /\ samples' = samples \/ samples' = 0
      BY <2>5 DEF ClearHysteresis, SetClears, ResetSamples, ResetHysteresis
    <3> HIDE DEF at
    <3> QED
      BY <1>1, <1>3, <2>1, <3>1, <3>2, WorkGoesOn
  <2>6. CASE UpdateReturns(w) \/ RecordDecision(w)
    <3>1. work' = [work EXCEPT ![w] = Resting] /\ UNCHANGED <<utilization, controls, sets>>
      BY <2>6 DEF UpdateReturns, RecordDecision
    <3> QED
      BY <1>1, <3>1, RestingIs, WorkGoesOn DEF controls
  <2>7. CASE ReadQuality(w)
    <3>1. PICK x : /\ x = [Resting EXCEPT !.current = level, !.pc = IF level = Full THEN "accept" ELSE "ask"]
                   /\ work' = [work EXCEPT ![w] = x]
      BY <2>7 DEF ReadQuality
    <3>2. x \in Works /\ x.pc # "move"
      BY <1>1, <3>1 DEF Works, Resting, Bands
    <3>3. UNCHANGED <<utilization, controls, sets>>
      BY <2>7 DEF ReadQuality
    <3> QED
      BY <1>1, <3>1, <3>2, <3>3, WorkGoesOn DEF controls
  <2>8. CASE SampleItem(w)
    <3>1. PICK p \in {"accept", "drop"} : work' = [work EXCEPT ![w] = at(p)]
      BY <2>8 DEF SampleItem, WorkGoto
    <3>2. UNCHANGED <<utilization, level, hysteresis, sets>>
      BY <2>8 DEF SampleItem
    <3>3. PICK m \in Nat \ {0} : m = SampleRate(Minimal)
      BY <1>2
    <3>4. samples' \in 0..m - 1
      BY <1>1, <2>8, <3>3 DEF SampleItem
    <3> HIDE DEF at
    <3> QED
      BY <1>1, <2>1, <3>1, <3>2, <3>3, <3>4, WorkGoesOn
  <2> QED
    BY <1>4, <2>2, <2>3, <2>4, <2>5, <2>6, <2>7, <2>8 DEF ControllerStep
<1>5. ASSUME NEW w \in Workers, ResetQuality(w) \/ \E q \in Levels : SetQuality(w, q) PROVE ControllerInv'
  <2>1. PICK p \in {"setting", "resetSamples"} : work' = [work EXCEPT ![w].pc = p]
    BY <1>5 DEF ResetQuality, SetQuality, WorkGoto
  <2>2. PICK x : x = [work[w] EXCEPT !.pc = p] /\ work' = [work EXCEPT ![w] = x]
    BY <2>1
  <2>3. x \in Works /\ x.pc # "move"
    BY <1>1, <2>2 DEF Works
  <2>4. level' \in Levels /\ sets' \in 0..MaxSets
    BY <1>1, <1>2, <1>5 DEF ResetQuality, SetQuality
  <2>5. UNCHANGED <<utilization, hysteresis, samples>>
    BY <1>5 DEF ResetQuality, SetQuality
  <2> QED
    BY <1>1, <2>2, <2>3, <2>4, <2>5, WorkGoesOn
<1>6. CASE \E u \in {"high", "mid", "low"} : LoadChanges(u)
  BY <1>1, <1>6 DEF LoadChanges, ControllerInv, controls, MayMove, Bands
<1>7. CASE UNCHANGED adaptiveVars
  BY <1>7 DEF adaptiveVars, controls, ControllerInv, MayMove
<1> QED
  BY <1>4, <1>5, <1>6, <1>7 DEF ControllerNext

LEMMA ControllerTyped == ControllerInv => ControllerTypeOK
  BY DEF ControllerInv, ControllerTypeOK, Works, Bands
---------------------------------------------------------------------------
(* StageChain: a reading on its way through the stages                     *)

Item == [n : Nat \ {0}, seq : Nat, value : Nat]
SlotItem == Item \union {Nothing}
Kinds == [StageSlots -> {"pass", "match", "hold"}]

\* In the middle of a call, which has got past stage k: the stages hold h, the reading
\* out is on its way from stage k to the next, and I is what has entered.
Carried(h, out, k, I) ==
  /\ h \in [StageSlots -> SlotItem] /\ out \in SlotItem
  /\ \A i, j \in StageSlots : i < j => Ahead(h[j], h[i])
  /\ \A i \in StageSlots : IF i <= k THEN Ahead(out, h[i]) ELSE Ahead(h[i], out)
  /\ \A x \in ToSet(emitted) : Ahead(x, out) /\ \A i \in StageSlots : Ahead(x, h[i])
  /\ \A i \in StageSlots : h[i] # Nothing =>
       kind[i] = "hold" /\ h[i] \in I /\ \A j \in StageSlots : j < i /\ kind[j] = "match" => Matches(h[i])
  /\ out # Nothing => out \in I /\ \A j \in StageSlots : j <= k /\ kind[j] = "match" => Matches(out)
  /\ \A x \in I : Wanted(x) => x \in ToSet(emitted) \/ x = out \/ \E i \in StageSlots : h[i] = x

LEMMA SlotsAre == StageSlots = {1, 2, 3} /\ Nothing \notin Item
  BY DEF StageSlots, Item, Nothing

\* Nothing on its way is nowhere.
LEMMA NothingIsAnywhere ==
  ASSUME NEW h, NEW I, NEW k, NEW l, Carried(h, Nothing, k, I)
  PROVE  Carried(h, Nothing, l, I)
  BY DEF Carried, Ahead

LEMMA Through ==
  ASSUME kind \in Kinds, NEW h, NEW x, NEW I, NEW i \in StageSlots, Carried(h, x, i - 1, I), x # Nothing
  PROVE  LET p == ProcessAt(i, h, x) IN Carried(p.held, p.out, i, I)
<1> DEFINE p == ProcessAt(i, h, x)
<1>1. i \in {1, 2, 3} /\ \A j \in StageSlots : j \in Nat
  BY SlotsAre
<1>2. CASE kind[i] = "pass"
  <2>1. p.held = h /\ p.out = x /\ h[i] = Nothing
    BY <1>2 DEF ProcessAt, Mapped, Carried
  <2> HIDE DEF p
  <2>2. Carried(h, x, i, I)
    BY <1>1, <1>2, <2>1 DEF Carried, Ahead
  <2> QED
    BY <2>1, <2>2 DEF p
<1>3. CASE kind[i] = "match"
  <2>1. p.held = h /\ p.out = Filtered(x) /\ h[i] = Nothing
    BY <1>3 DEF ProcessAt, Carried
  <2> HIDE DEF p
  <2>2. CASE Matches(x)
    <3>1. p.out = x
      BY <2>1, <2>2 DEF Filtered
    <3>2. Carried(h, x, i, I)
      BY <1>1, <1>3, <2>1, <2>2 DEF Carried, Ahead
    <3> QED
      BY <2>1, <3>1, <3>2 DEF p
  <2>3. CASE ~Matches(x)
    <3>1. p.out = Nothing
      BY <2>1, <2>3 DEF Filtered
    <3>2. ~Wanted(x)
      BY <1>3, <2>3 DEF Wanted
    <3>3. Carried(h, Nothing, i, I)
      BY <3>2 DEF Carried, Ahead, SlotItem
    <3> QED
      BY <2>1, <3>1, <3>3 DEF p
  <2> QED
    BY <2>2, <2>3
<1>4. CASE kind[i] = "hold"
  <2>1. p.held = [h EXCEPT ![i] = x] /\ p.out = h[i]
    BY <1>4 DEF ProcessAt
  <2> HIDE DEF p
  <2>2. PICK g, y : g = [h EXCEPT ![i] = x] /\ y = h[i]
    OBVIOUS
  <2>3. /\ h \in [StageSlots -> SlotItem] /\ x \in SlotItem /\ y \in SlotItem /\ g \in [StageSlots -> SlotItem]
        /\ g[i] = x /\ \A j \in StageSlots : j # i => g[j] = h[j]
    BY <2>2 DEF Carried
  <2>4. \A j, k \in StageSlots : j < k => Ahead(g[k], g[j])
    BY <1>1, <2>3 DEF Carried
  <2>5. \A j \in StageSlots : IF j <= i THEN Ahead(y, g[j]) ELSE Ahead(g[j], y)
    BY <1>1, <2>2, <2>3 DEF Carried
  <2>6. \A z \in ToSet(emitted) : Ahead(z, y) /\ \A j \in StageSlots : Ahead(z, g[j])
    BY <2>2, <2>3 DEF Carried
  <2>7. \A j \in StageSlots : g[j] # Nothing =>
          kind[j] = "hold" /\ g[j] \in I /\ \A k \in StageSlots : k < j /\ kind[k] = "match" => Matches(g[j])
    BY <1>1, <1>4, <2>3 DEF Carried
  <2>8. y # Nothing => y \in I /\ \A j \in StageSlots : j <= i /\ kind[j] = "match" => Matches(y)
    BY <1>1, <1>4, <2>2 DEF Carried
  <2>9. ASSUME NEW z \in I, Wanted(z), z \notin ToSet(emitted), z # y PROVE \E j \in StageSlots : g[j] = z
    <3>1. z = x \/ \E j \in StageSlots : h[j] = z
      BY <2>9 DEF Carried
    <3> QED
      BY <2>2, <2>3, <2>9, <3>1
  <2>10. Carried(g, y, i, I)
    BY <2>3, <2>4, <2>5, <2>6, <2>7, <2>8, <2>9 DEF Carried
  <2> QED
    BY <2>1, <2>2, <2>10 DEF p
<1> QED
  BY <1>2, <1>3, <1>4 DEF Kinds

\* A stage that answers what it holds, if it does.
LEMMA TickAnswers ==
  ASSUME NEW h, NEW I, NEW k, NEW i \in StageSlots, NEW due, Carried(h, Nothing, k, I)
  PROVE  LET p == TickAt(i, h, due) IN Carried(p.held, p.out, i, I)
<1> DEFINE p == TickAt(i, h, due)
<1>1. i \in {1, 2, 3} /\ \A j \in StageSlots : j \in Nat
  BY SlotsAre
<1>2. CASE ~(kind[i] = "hold" /\ due)
  <2>1. p.held = h /\ p.out = Nothing
    BY <1>2 DEF TickAt
  <2> HIDE DEF p
  <2> QED
    BY <2>1, NothingIsAnywhere DEF p
<1>3. CASE kind[i] = "hold" /\ due
  <2>1. p.held = [h EXCEPT ![i] = Nothing] /\ p.out = h[i]
    BY <1>3 DEF TickAt
  <2> HIDE DEF p
  <2>2. PICK g, y : g = [h EXCEPT ![i] = Nothing] /\ y = h[i]
    OBVIOUS
  <2>3. /\ h \in [StageSlots -> SlotItem] /\ y \in SlotItem /\ g \in [StageSlots -> SlotItem]
        /\ g[i] = Nothing /\ \A j \in StageSlots : j # i => g[j] = h[j]
    BY <2>2 DEF Carried, SlotItem
  <2>4. \A j, l \in StageSlots : j < l => Ahead(g[l], g[j])
    BY <1>1, <2>3 DEF Carried, Ahead
  <2>5. \A j \in StageSlots : IF j <= i THEN Ahead(y, g[j]) ELSE Ahead(g[j], y)
    BY <1>1, <2>2, <2>3 DEF Carried, Ahead
  <2>6. \A z \in ToSet(emitted) : Ahead(z, y) /\ \A j \in StageSlots : Ahead(z, g[j])
    BY <2>2, <2>3 DEF Carried, Ahead
  <2>7. \A j \in StageSlots : g[j] # Nothing =>
          kind[j] = "hold" /\ g[j] \in I /\ \A l \in StageSlots : l < j /\ kind[l] = "match" => Matches(g[j])
    BY <1>1, <2>3 DEF Carried
  <2>8. y # Nothing => y \in I /\ \A j \in StageSlots : j <= i /\ kind[j] = "match" => Matches(y)
    BY <1>1, <1>3, <2>2 DEF Carried
  <2>9. ASSUME NEW z \in I, Wanted(z), z \notin ToSet(emitted), z # y PROVE \E j \in StageSlots : g[j] = z
    <3>1. z = Nothing \/ \E j \in StageSlots : h[j] = z
      BY <2>9 DEF Carried
    <3> QED
      BY <2>2, <2>3, <2>9, <3>1
  <2>10. Carried(g, y, i, I)
    BY <2>3, <2>4, <2>5, <2>6, <2>7, <2>8, <2>9 DEF Carried
  <2> QED
    BY <2>1, <2>2, <2>10 DEF p
<1> QED
  BY <1>2, <1>3

\* An answer r of the stages up to k.
Good(r, k, I) == Carried(r.held, r.out, k, I)

LEMMA ThenProcessGood ==
  ASSUME kind \in Kinds, NEW r, NEW I, NEW i \in StageSlots, Good(r, i - 1, I)
  PROVE  Good(ThenProcess(r, i), i, I)
<1>1. CASE r.out = Nothing
  BY <1>1, NothingIsAnywhere DEF ThenProcess, Good
<1>2. CASE r.out # Nothing
  BY <1>2, Through DEF ThenProcess, Good
<1> QED
  BY <1>1, <1>2

LEMMA TickGood ==
  ASSUME NEW h, NEW I, NEW k, NEW i \in StageSlots, NEW due, Carried(h, Nothing, k, I)
  PROVE  Good(TickAt(i, h, due), i, I)
  BY TickAnswers DEF Good

LEMMA ThenTickGood ==
  ASSUME kind \in Kinds, NEW r, NEW I, NEW i \in StageSlots, NEW due, Good(r, i - 1, I)
  PROVE  Good(ThenTick(r, i, due), i, I)
<1> DEFINE p == ThenProcess(r, i)
<1>1. Good(p, i, I)
  BY ThenProcessGood
<1> HIDE DEF p
<1>2. p.out = Nothing => Good(TickAt(i, p.held, due), i, I)
  BY <1>1, TickGood DEF Good
<1> QED
  BY <1>1, <1>2 DEF ThenTick, p

LEMMA ThenFlushGood ==
  ASSUME kind \in Kinds, NEW r, NEW I, NEW i \in StageSlots, Good(r, i - 1, I)
  PROVE  Good(ThenFlush(r, i), i, I)
<1> DEFINE p == ThenProcess(r, i)
<1>1. Good(p, i, I)
  BY ThenProcessGood
<1> HIDE DEF p
<1>2. p.out = Nothing => Good(FlushAt(i, p.held), i, I)
  BY <1>1, TickGood DEF Good, FlushAt
<1> QED
  BY <1>1, <1>2 DEF ThenFlush, p

---------------------------------------------------------------------------
(* StageChain: whole calls                                                 *)

LEMMA TicksGood ==
  ASSUME kind \in Kinds, NEW I, Carried(held, Nothing, 0, I), NEW due
  PROVE  Good(ChainTick(due), 3, I)
<1>1. 1 \in StageSlots /\ 2 \in StageSlots /\ 3 \in StageSlots /\ 2 - 1 = 1 /\ 3 - 1 = 2
  BY SlotsAre
<1>2. Good(TickAt(1, held, due[1]), 1, I)
  BY <1>1, TickGood
<1>3. Good(LeftTick(due), 3, I)
  BY <1>1, <1>2, ThenTickGood DEF LeftTick
<1>4. Good(RightTick(due), 3, I)
  <2> DEFINE p == ThenChain(TickAt(1, held, due[1]))
  <2>1. Good(p, 3, I)
    BY <1>1, <1>2, ThenProcessGood DEF ThenChain
  <2> HIDE DEF p
  <2>2. ASSUME p.out = Nothing PROVE Good(ThenTick(TickAt(2, p.held, due[2]), 3, due[3]), 3, I)
    <3>1. Good(TickAt(2, p.held, due[2]), 2, I)
      BY <1>1, <2>1, <2>2, TickGood DEF Good
    <3> QED
      BY <1>1, <3>1, ThenTickGood
  <2> QED
    BY <2>1, <2>2 DEF RightTick, p
<1> QED
  BY <1>3, <1>4 DEF ChainTick

LEMMA FlushesGood ==
  ASSUME kind \in Kinds, NEW I, Carried(held, Nothing, 0, I)
  PROVE  Good(ChainFlush, 3, I)
<1>1. 1 \in StageSlots /\ 2 \in StageSlots /\ 3 \in StageSlots /\ 2 - 1 = 1 /\ 3 - 1 = 2
  BY SlotsAre
<1>2. Good(FlushAt(1, held), 1, I)
  BY <1>1, TickGood DEF FlushAt
<1>3. Good(LeftFlush, 3, I)
  BY <1>1, <1>2, ThenFlushGood DEF LeftFlush
<1>4. Good(RightFlush, 3, I)
  <2> DEFINE p == ThenChain(FlushAt(1, held))
  <2>1. Good(p, 3, I)
    BY <1>1, <1>2, ThenProcessGood DEF ThenChain
  <2> HIDE DEF p
  <2>2. ASSUME p.out = Nothing PROVE Good(ThenFlush(FlushAt(2, p.held), 3), 3, I)
    <3>1. Good(FlushAt(2, p.held), 2, I)
      BY <1>1, <2>1, <2>2, TickGood DEF Good, FlushAt
    <3> QED
      BY <1>1, <3>1, ThenFlushGood
  <2> QED
    BY <2>1, <2>2 DEF RightFlush, p
<1> QED
  BY <1>3, <1>4 DEF ChainFlush

\* A new reading comes after all there are.
LEMMA ProcessGood ==
  ASSUME kind \in Kinds, NEW I, Carried(held, Nothing, 0, I), NEW x \in Item,
         I \subseteq Item,
         ToSet(emitted) \subseteq I, \A y \in I : y.n < x.n
  PROVE  Good(ChainProcess(x), 3, I \union {x})
<1>1. 1 \in StageSlots /\ 2 \in StageSlots /\ 3 \in StageSlots /\ 2 - 1 = 1 /\ 3 - 1 = 2 /\ 1 - 1 = 0
  BY SlotsAre
<1>2. x # Nothing /\ x \in SlotItem /\ \A i \in StageSlots : ~(i <= 0)
  BY SlotsAre DEF SlotItem
<1>3. PICK J : J = I \union {x}
  OBVIOUS
<1>4. \A i \in StageSlots : Ahead(held[i], x)
  BY DEF Carried, Ahead
<1>5. \A y \in ToSet(emitted) : Ahead(y, x)
  BY DEF Ahead
<1>6. \A y \in J : Wanted(y) => y \in ToSet(emitted) \/ y = x \/ \E i \in StageSlots : held[i] = y
  <2> SUFFICES ASSUME NEW y \in I, Wanted(y), y \notin ToSet(emitted)
               PROVE  y = x \/ \E i \in StageSlots : held[i] = y
    BY <1>3
  <2>1. y = Nothing \/ \E i \in StageSlots : held[i] = y
    BY DEF Carried
  <2>2. y # Nothing
    BY SlotsAre
  <2> QED
    BY <2>1, <2>2
<1>7. /\ \A y \in ToSet(emitted) : \A i \in StageSlots : Ahead(y, held[i])
      /\ \A i, j \in StageSlots : i < j => Ahead(held[j], held[i])
      /\ \A i \in StageSlots : held[i] # Nothing =>
           kind[i] = "hold" /\ held[i] \in J /\ \A j \in StageSlots : j < i /\ kind[j] = "match" => Matches(held[i])
  BY <1>3 DEF Carried
<1>8. Carried(held, x, 0, J)
  BY <1>2, <1>3, <1>4, <1>5, <1>6, <1>7 DEF Carried
<1>9. Good(ProcessAt(1, held, x), 1, J)
  BY <1>1, <1>2, <1>8, Through DEF Good
<1> QED
  BY <1>1, <1>3, <1>9, ThenProcessGood DEF ChainProcess, ThenChain

---------------------------------------------------------------------------
(* StageChain: what a flush that answers None has left                     *)

\* No filter comes after a buffering stage.
FiltersFirst == ~\E i, j \in StageSlots : i < j /\ kind[i] = "hold" /\ kind[j] = "match"

\* A flush that has got past stage k: it brings something, or they hold nothing;
\* and what it brings comes from a buffering stage.
Flushed(r, k) ==
  /\ r.held \in [StageSlots -> SlotItem] /\ r.out \in SlotItem
  /\ \A i \in StageSlots : r.held[i] # Nothing => kind[i] = "hold"
  /\ IF r.out = Nothing THEN \A i \in StageSlots : i <= k => r.held[i] = Nothing
                        ELSE \E i \in StageSlots : i <= k /\ kind[i] = "hold"

LEMMA FlushedFirst ==
  ASSUME kind \in Kinds, NEW h \in [StageSlots -> SlotItem], NEW i \in StageSlots,
         \A j \in StageSlots : h[j] # Nothing => kind[j] = "hold",
         \A j \in StageSlots : j < i => h[j] = Nothing
  PROVE  Flushed(FlushAt(i, h), i)
<1>1. i \in {1, 2, 3} /\ \A j \in StageSlots : j \in Nat
  BY SlotsAre
<1>2. CASE kind[i] = "hold"
  <2>1. PICK g, y : g = [h EXCEPT ![i] = Nothing] /\ y = h[i]
    OBVIOUS
  <2>2. FlushAt(i, h) = [held |-> g, out |-> y]
    BY <1>2, <2>1 DEF FlushAt, TickAt
  <2>3. /\ g \in [StageSlots -> SlotItem] /\ y \in SlotItem
        /\ g[i] = Nothing /\ \A j \in StageSlots : j # i => g[j] = h[j]
    BY <2>1 DEF SlotItem
  <2> QED
    BY <1>1, <1>2, <2>2, <2>3 DEF Flushed
<1>3. CASE kind[i] # "hold"
  <2>1. FlushAt(i, h) = [held |-> h, out |-> Nothing]
    BY <1>3 DEF FlushAt, TickAt
  <2> QED
    BY <1>1, <1>3, <2>1 DEF Flushed, SlotItem
<1> QED
  BY <1>2, <1>3

\* What a flush brings is not refused where filters come first.
LEMMA FlushedThen ==
  ASSUME kind \in Kinds, FiltersFirst, NEW r, NEW i \in StageSlots, Flushed(r, i - 1)
  PROVE  Flushed(ThenFlush(r, i), i)
<1>1. i \in {1, 2, 3} /\ \A j \in StageSlots : j \in Nat
  BY SlotsAre
<1>2. CASE r.out = Nothing
  <2>1. ThenFlush(r, i) = FlushAt(i, r.held)
    BY <1>2 DEF ThenFlush, ThenProcess
  <2>2. \A j \in StageSlots : j < i => r.held[j] = Nothing
    <3>1. \A j \in StageSlots : j <= i - 1 => r.held[j] = Nothing
      BY <1>2 DEF Flushed
    <3> QED
      BY <1>1, <3>1
  <2>3. /\ r.held \in [StageSlots -> SlotItem]
        /\ \A j \in StageSlots : r.held[j] # Nothing => kind[j] = "hold"
    BY DEF Flushed
  <2> QED
    BY <2>1, <2>2, <2>3, FlushedFirst
<1>3. CASE r.out # Nothing
  <2>1. PICK h, x : h = r.held /\ x = r.out
    OBVIOUS
  <2>2. /\ h \in [StageSlots -> SlotItem] /\ x \in SlotItem /\ x # Nothing
        /\ \A j \in StageSlots : h[j] # Nothing => kind[j] = "hold"
    BY <1>3, <2>1 DEF Flushed
  <2>3. PICK l \in StageSlots : l < i /\ kind[l] = "hold"
    BY <1>1, <1>3 DEF Flushed
  <2>4. ThenProcess(r, i) = ProcessAt(i, h, x)
    BY <1>3, <2>1 DEF ThenProcess
  <2>5. kind[i] = "pass" \/ kind[i] = "hold"
    BY <2>3 DEF FiltersFirst, Kinds
  <2>6. CASE kind[i] = "pass"
    <3>1. ProcessAt(i, h, x).held = r.held /\ ProcessAt(i, h, x).out = r.out
      BY <2>1, <2>6 DEF ProcessAt, Mapped
    <3>2. ThenFlush(r, i) = ProcessAt(i, h, x)
      BY <1>3, <2>4, <3>1 DEF ThenFlush
    <3> QED
      BY <1>1, <1>3, <2>1, <2>2, <2>3, <3>1, <3>2 DEF Flushed
  <2>7. CASE kind[i] = "hold"
    <3>1. PICK g, y : g = [h EXCEPT ![i] = x] /\ y = h[i]
      OBVIOUS
    <3>2. ProcessAt(i, h, x) = [held |-> g, out |-> y]
      BY <2>7, <3>1 DEF ProcessAt
    <3>3. /\ g \in [StageSlots -> SlotItem] /\ y \in SlotItem
          /\ g[i] = x /\ \A j \in StageSlots : j # i => g[j] = h[j]
      BY <2>2, <3>1
    <3>4. CASE y # Nothing
      <4>1. ThenFlush(r, i) = [held |-> g, out |-> y]
        BY <2>4, <3>2, <3>4 DEF ThenFlush
      <4> QED
        BY <1>1, <2>2, <2>3, <2>7, <3>3, <3>4, <4>1 DEF Flushed
    <3>5. CASE y = Nothing
      <4>1. ThenFlush(r, i) = FlushAt(i, g)
        BY <2>4, <3>2, <3>5 DEF ThenFlush
      <4>2. PICK f : f = [g EXCEPT ![i] = Nothing]
        OBVIOUS
      <4>3. FlushAt(i, g) = [held |-> f, out |-> x]
        BY <2>7, <3>3, <4>2 DEF FlushAt, TickAt
      <4>4. /\ f \in [StageSlots -> SlotItem] /\ f[i] = Nothing
            /\ \A j \in StageSlots : j # i => f[j] = h[j]
        BY <3>3, <4>2 DEF SlotItem
      <4> QED
        BY <1>1, <2>2, <2>3, <2>7, <4>1, <4>3, <4>4 DEF Flushed
    <3> QED
      BY <3>4, <3>5
  <2> QED
    BY <2>5, <2>6, <2>7
<1> QED
  BY <1>2, <1>3

\* The second and third parts let the first be.
LEMMA FirstIsLeft ==
  ASSUME kind \in Kinds, NEW r, r.held \in [StageSlots -> SlotItem], NEW i \in {2, 3}
  PROVE  ThenProcess(r, i).held \in [StageSlots -> SlotItem \union {r.out}] /\ ThenProcess(r, i).held[1] = r.held[1]
<1>1. 1 \in StageSlots /\ i \in StageSlots /\ i # 1
  BY SlotsAre
<1>2. PICK h, x : h = r.held /\ x = r.out
  OBVIOUS
<1>3. [h EXCEPT ![i] = x] \in [StageSlots -> SlotItem \union {x}] /\ [h EXCEPT ![i] = x][1] = h[1]
  BY <1>1, <1>2
<1>4. ThenProcess(r, i).held \in {h, [h EXCEPT ![i] = x]}
  BY <1>1, <1>2 DEF ThenProcess, ProcessAt, Kinds
<1> QED
  BY <1>2, <1>3, <1>4

LEMMA FlushLeavesNothing ==
  ASSUME kind \in Kinds, NEW I, Carried(held, Nothing, 0, I), FiltersFirst, ChainFlush.out = Nothing
  PROVE  ChainFlush.held = NoneHeld
<1>1. /\ 1 \in StageSlots /\ 2 \in StageSlots /\ 3 \in StageSlots /\ 2 - 1 = 1 /\ 3 - 1 = 2
      /\ \A i \in StageSlots : ~(i < 1) /\ (i < 2 => i = 1) /\ i <= 3
  BY SlotsAre
<1>2. /\ held \in [StageSlots -> SlotItem]
      /\ \A i \in StageSlots : held[i] # Nothing => kind[i] = "hold"
  BY DEF Carried
<1>3. Flushed(FlushAt(1, held), 1)
  BY <1>1, <1>2, FlushedFirst
<1>4. Flushed(LeftFlush, 3)
  BY <1>1, <1>3, FlushedThen DEF LeftFlush
<1>5. RightFlush.out = Nothing => Flushed(RightFlush, 3)
  <2> DEFINE r == FlushAt(1, held)
             p == ThenChain(r)
  <2>1. Good(r, 1, I)
    BY <1>1, TickGood DEF FlushAt
  <2>2. r.held[1] = Nothing
    BY <1>1, <1>2 DEF FlushAt, TickAt
  <2> HIDE DEF r
  <2> DEFINE q == ThenProcess(r, 2)
  <2>3. Good(q, 2, I)
    BY <1>1, <2>1, ThenProcessGood
  <2>4. q.held[1] = Nothing
    BY <2>1, <2>2, FirstIsLeft DEF Good, Carried
  <2> HIDE DEF q
  <2>5. Good(ThenProcess(q, 3), 3, I)
    BY <1>1, <2>3, ThenProcessGood
  <2>6. ThenProcess(q, 3).held[1] = Nothing
    BY <2>3, <2>4, FirstIsLeft DEF Good, Carried
  <2>7. p = ThenProcess(q, 3)
    BY DEF ThenChain, q
  <2> HIDE DEF p
  <2>8. Flushed(FlushAt(2, p.held), 2)
    BY <1>1, <2>5, <2>6, <2>7, FlushedFirst DEF Good, Carried
  <2>9. Flushed(ThenFlush(FlushAt(2, p.held), 3), 3)
    BY <1>1, <2>8, FlushedThen
  <2> QED
    BY <2>9 DEF RightFlush, p, r
<1>6. Flushed(ChainFlush, 3)
  BY <1>4, <1>5 DEF ChainFlush
<1> QED
  BY <1>1, <1>6 DEF Flushed, NoneHeld

---------------------------------------------------------------------------
(* StageChain: the sequence the sensor is at                               *)

\* Around the values, or on to the last one.
At(s) == IF repeat THEN s % Len(SensorValues)
         ELSE IF s < Len(SensorValues) THEN s ELSE Len(SensorValues) - 1

LEMMA ModIs ==
  ASSUME NEW a \in Nat, NEW d \in Nat \ {0}, NEW q \in Nat, NEW r \in 0..d - 1, a = d * q + r
  PROVE  a % d = r
<1>1. PICK p \in Nat : p = a \div d
  BY DivIs
<1>2. PICK m \in 0..d - 1 : m = a % d /\ a = d * p + m
  BY <1>1
<1>3. PICK dp \in Int, dq \in Int : dp = d * p /\ dq = d * q
  OBVIOUS
<1>4. dp < dq + d /\ dq < dp + d
  BY <1>2, <1>3
<1>5. p = q
  BY <1>3, <1>4, DivCompare
<1> QED
  BY <1>2, <1>3, <1>5

LEMMA ModNext ==
  ASSUME NEW s \in Nat, NEW d \in Nat \ {0}
  PROVE  (s + 1) % d = IF (s % d) + 1 < d THEN (s % d) + 1 ELSE 0
<1>1. PICK q \in Nat, r \in 0..d - 1 : r = s % d /\ s = d * q + r
  <2>1. s \div d \in Nat
    BY DivIs
  <2>2. s % d \in 0..d - 1 /\ s = d * (s \div d) + (s % d)
    OBVIOUS
  <2> QED
    BY <2>1, <2>2
<1>2. CASE r + 1 < d
  <2>1. PICK n \in Int : n = d * q
    OBVIOUS
  <2>2. s + 1 = n + (r + 1) /\ r + 1 \in 0..d - 1 /\ s + 1 \in Nat
    BY <1>1, <1>2, <2>1
  <2>3. (s + 1) % d = r + 1
    BY <2>1, <2>2, ModIs
  <2> QED
    BY <1>1, <1>2, <2>3
<1>3. CASE r + 1 = d
  <2>1. PICK n \in Int, m \in Int : n = d * q /\ m = d * (q + 1) /\ m = n + d
    OBVIOUS
  <2>2. s + 1 = m + 0 /\ q + 1 \in Nat /\ 0 \in 0..d - 1 /\ s + 1 \in Nat
    BY <1>1, <1>3, <2>1
  <2>3. (s + 1) % d = 0
    BY <2>1, <2>2, ModIs
  <2> QED
    BY <1>1, <1>3, <2>3
<1> QED
  BY <1>1, <1>2, <1>3

LEMMA AtIs ==
  ASSUME SensorValues # <<>>, NEW s \in Nat
  PROVE  /\ Len(SensorValues) \in Nat \ {0}
         /\ At(s) \in 0..Len(SensorValues) - 1
         /\ At(0) = 0
         /\ At(s + 1) = IF At(s) + 1 < Len(SensorValues) THEN At(s) + 1
                        ELSE IF repeat THEN 0 ELSE Len(SensorValues) - 1
<1>1. PICK len : len = Len(SensorValues)
  OBVIOUS
<1>2. len \in Nat \ {0}
  BY <1>1, SensorValuesAssumption
<1>3. CASE repeat
  <2>1. s % len \in 0..len - 1 /\ 0 % len = 0
    BY <1>2
  <2>2. (s + 1) % len = IF (s % len) + 1 < len THEN (s % len) + 1 ELSE 0
    BY <1>2, ModNext
  <2> QED
    BY <1>1, <1>2, <1>3, <2>1, <2>2 DEF At
<1>4. CASE ~repeat
  BY <1>1, <1>2, <1>4 DEF At
<1> QED
  BY <1>3, <1>4

SensorInv ==
  /\ next_seq \in Nat /\ sampled \in Nat
  /\ SensorValues # <<>> => index = At(next_seq)
  /\ sinceReset \in Seq(Item)
  /\ \A x \in ToSet(sinceReset) :
       x.n <= sampled /\ SensorValues # <<>> /\ x.value = SensorValues[At(x.seq) + 1]

\* What has left is what was wanted, in its order.
FlowInv ==
  /\ kind \in Kinds
  /\ emitted \in Seq(Item) /\ ToSet(emitted) \subseteq ToSet(sinceReset)
  /\ \A i, j \in DOMAIN emitted : i < j => emitted[i].n < emitted[j].n
  /\ \A x \in ToSet(emitted) : Wanted(x)
  /\ Carried(held, Nothing, 0, ToSet(sinceReset))

EmptyInv == flushEmpty /\ FiltersFirst => held = NoneHeld

ChainInv == SensorInv /\ FlowInv /\ EmptyInv

LEMMA Appended ==
  ASSUME NEW S, NEW s \in Seq(S), NEW x \in S
  PROVE  Append(s, x) \in Seq(S) /\ ToSet(Append(s, x)) = ToSet(s) \union {x} /\ ToSet(s) \subseteq S
<1>1. /\ Append(s, x) \in Seq(S) /\ Len(Append(s, x)) = Len(s) + 1 /\ DOMAIN s = 1..Len(s) /\ Len(s) \in Nat
      /\ DOMAIN Append(s, x) = 1..Len(s) + 1 /\ Append(s, x)[Len(s) + 1] = x
      /\ \A i \in 1..Len(s) : Append(s, x)[i] = s[i] /\ s[i] \in S
  OBVIOUS
<1> QED
  BY <1>1 DEF ToSet

LEMMA EmptyCarried ==
  ASSUME emitted = <<>>
  PROVE  Carried(NoneHeld, Nothing, 0, {}) /\ ToSet(<<>>) = {}
<1>1. ToSet(<<>>) = {}
  BY DEF ToSet
<1>2. NoneHeld \in [StageSlots -> SlotItem] /\ \A i \in StageSlots : NoneHeld[i] = Nothing
  BY DEF NoneHeld, SlotItem
<1>3. Carried(NoneHeld, Nothing, 0, {})
  BY <1>1, <1>2 DEF Carried, Ahead, SlotItem
<1> QED
  BY <1>1, <1>3

LEMMA ChainInvInit == ChainInit => ChainInv
<1> SUFFICES ASSUME ChainInit PROVE ChainInv
  OBVIOUS
<1>1. /\ emitted = <<>> /\ sinceReset = <<>> /\ held = NoneHeld /\ ToSet(<<>>) = {}
      /\ Carried(NoneHeld, Nothing, 0, {})
  BY EmptyCarried DEF ChainInit
<1>2. SensorInv
  <2>1. next_seq = 0 /\ sampled = 0 /\ index = 0
    BY DEF ChainInit
  <2>2. SensorValues # <<>> => At(0) = 0
    BY AtIs
  <2> QED
    BY <1>1, <2>1, <2>2 DEF SensorInv
<1>3. FlowInv
  BY <1>1 DEF ChainInit, FlowInv, Kinds
<1>4. EmptyInv
  BY <1>1 DEF EmptyInv
<1> QED
  BY <1>2, <1>3, <1>4 DEF ChainInv

\* What the last stage answers leaves the chain.
LEMMA AnswerKeepsFlow ==
  ASSUME FlowInv, NEW r, Good(r, 3, ToSet(sinceReset')), Answer(r), kind' = kind,
         ToSet(emitted) \subseteq ToSet(sinceReset')
  PROVE  FlowInv'
<1>1. kind' \in Kinds
  BY DEF FlowInv
<1>2. PICK h, y, I : h = r.held /\ y = r.out /\ I = ToSet(sinceReset')
  OBVIOUS
<1>3. Carried(h, y, 3, I) /\ h = held' /\ y \in SlotItem
  BY <1>2 DEF Good, Answer, Carried
<1>4. \A i \in StageSlots : i <= 3
  BY SlotsAre
<1>5. CASE y = Nothing
  <2>1. emitted' = emitted
    BY <1>2, <1>5 DEF Answer
  <2>2. Carried(h, Nothing, 0, I)
    BY <1>3, <1>5, NothingIsAnywhere
  <2>3. Carried(held, Nothing, 0, ToSet(sinceReset))'
    BY <1>2, <1>3, <2>1, <2>2 DEF Carried, Wanted
  <2> QED
    BY <1>1, <2>1, <2>3 DEF FlowInv, Wanted
<1>6. CASE y # Nothing
  <2>1. emitted' = Append(emitted, y) /\ y \in Item
    BY <1>2, <1>3, <1>6 DEF Answer, SlotItem
  <2>2. emitted' \in Seq(Item) /\ ToSet(emitted') = ToSet(emitted) \union {y}
    BY <2>1, Appended DEF FlowInv
  <2>3. ToSet(emitted') \subseteq I
    BY <1>2, <1>3, <1>6, <2>2 DEF Carried
  <2>4. ASSUME NEW i \in DOMAIN emitted', NEW j \in DOMAIN emitted', i < j
        PROVE  emitted'[i].n < emitted'[j].n
    <3>1. /\ emitted \in Seq(Item) /\ DOMAIN emitted = 1..Len(emitted) /\ Len(emitted) \in Nat
          /\ DOMAIN emitted' = 1..Len(emitted) + 1 /\ emitted'[Len(emitted) + 1] = y
          /\ \A k \in 1..Len(emitted) : emitted'[k] = emitted[k]
      BY <2>1 DEF FlowInv
    <3>2. i \in DOMAIN emitted
      BY <2>4, <3>1
    <3>3. CASE j \in DOMAIN emitted
      BY <2>4, <3>1, <3>2, <3>3 DEF FlowInv
    <3>4. CASE j = Len(emitted) + 1
      <4>1. emitted[i] \in ToSet(emitted) /\ emitted[i] \in Item
        BY <3>1, <3>2 DEF ToSet
      <4>2. Ahead(emitted[i], y) /\ emitted[i] # Nothing
        BY <1>3, <4>1, SlotsAre DEF Carried
      <4> QED
        BY <1>6, <3>1, <3>2, <3>4, <4>2 DEF Ahead
    <3> QED
      BY <3>1, <3>3, <3>4
  <2>5. \A x \in ToSet(emitted') : Wanted(x)
    <3>1. Wanted(y)
      BY <1>3, <1>4, <1>6 DEF Carried, Wanted
    <3> QED
      BY <2>2, <3>1 DEF FlowInv
  <2>6. PICK E : E = ToSet(emitted') /\ E = ToSet(emitted) \union {y}
    BY <2>2
  <2>7. \A x \in E : Ahead(x, Nothing) /\ \A i \in StageSlots : Ahead(x, h[i])
    BY <1>3, <1>4, <2>6 DEF Carried, Ahead
  <2>8. \A x \in I : Wanted(x) => x \in E \/ \E i \in StageSlots : h[i] = x
    BY <1>3, <2>6 DEF Carried
  <2>9. Carried(held, Nothing, 0, ToSet(sinceReset))'
    <3>1. \A i \in StageSlots : ~(i <= 0)
      BY SlotsAre
    <3>2. \A x \in E : Ahead(x, Nothing) /\ \A i \in StageSlots : Ahead(x, held'[i])
      BY <1>3, <2>7
    <3>3. \A x \in I : Wanted(x) => x \in E \/ \E i \in StageSlots : held'[i] = x
      BY <1>3, <2>8
    <3>4. /\ held' \in [StageSlots -> SlotItem] /\ Nothing \in SlotItem
          /\ \A i, j \in StageSlots : i < j => Ahead(held'[j], held'[i])
          /\ \A i \in StageSlots : held'[i] # Nothing =>
               kind'[i] = "hold" /\ held'[i] \in I /\ \A j \in StageSlots : j < i /\ kind'[j] = "match" => Matches(held'[i])
          /\ \A i \in StageSlots : Ahead(held'[i], Nothing)
      BY <1>3 DEF Carried, Ahead, SlotItem
    <3> QED
      BY <1>2, <2>6, <3>1, <3>2, <3>3, <3>4 DEF Carried, Wanted
  <2> QED
    BY <1>1, <1>2, <2>2, <2>3, <2>4, <2>5, <2>9 DEF FlowInv, Wanted
<1> QED
  BY <1>5, <1>6

---------------------------------------------------------------------------
(* StageChain: the owner's calls                                           *)

LEMMA SampleKeeps == ChainInv /\ SampleAndProcess => ChainInv'
<1> SUFFICES ASSUME ChainInv, SampleAndProcess PROVE ChainInv'
  OBVIOUS
<1> DEFINE x == [n |-> sampled + 1, seq |-> next_seq, value |-> SensorValues[index + 1]]
<1>1. /\ next_seq \in Nat /\ sampled \in Nat /\ index = At(next_seq) /\ SensorValues # <<>>
      /\ sinceReset \in Seq(Item)
      /\ next_seq' = next_seq + 1 /\ sampled' = sampled + 1 /\ repeat' = repeat
  BY DEF ChainInv, SensorInv, SampleAndProcess, sensorVars
<1>2. /\ Len(SensorValues) \in Nat \ {0} /\ index \in 0..Len(SensorValues) - 1
      /\ index' = At(next_seq + 1)
  BY <1>1, AtIs DEF SampleAndProcess
<1>3. SensorValues[index + 1] \in Nat
  BY <1>2, SensorValuesAssumption
<1>4. x \in Item
  BY <1>1, <1>3 DEF Item
<1>5. PICK y \in Item : y = x /\ y.n = sampled + 1 /\ y.value = SensorValues[At(y.seq) + 1]
  BY <1>1, <1>4
<1>6. sinceReset' = Append(sinceReset, y) /\ Answer(ChainProcess(y)) /\ ~flushEmpty' /\ kind' = kind
  BY <1>5 DEF SampleAndProcess
<1>7. /\ sinceReset' \in Seq(Item) /\ ToSet(sinceReset') = ToSet(sinceReset) \union {y}
      /\ ToSet(sinceReset) \subseteq Item
  BY <1>1, <1>5, <1>6, Appended
<1>8. \A s : At(s)' = At(s)
  BY <1>1 DEF At
<1>9. SensorInv'
  <2>1. ASSUME NEW z \in ToSet(sinceReset')
        PROVE  z.n <= sampled + 1 /\ z.value = SensorValues[At(z.seq) + 1]
    <3>1. CASE z = y
      BY <1>1, <1>5, <3>1
    <3>2. CASE z \in ToSet(sinceReset)
      <4>1. z.n <= sampled /\ z.value = SensorValues[At(z.seq) + 1] /\ z.n \in Nat
        BY <1>7, <3>2 DEF ChainInv, SensorInv, Item
      <4> QED
        BY <1>1, <4>1
    <3> QED
      BY <1>7, <2>1, <3>1, <3>2
  <2>2. \A z \in ToSet(sinceReset') : z \in Item
    BY <1>5, <1>7
  <2>3. \A z \in ToSet(sinceReset') :
          z.n <= sampled' /\ SensorValues # <<>> /\ z.value = SensorValues[At(z.seq)' + 1]
    BY <1>1, <1>8, <2>1, <2>2
  <2>4. index' = At(next_seq)'
    BY <1>1, <1>2 DEF At
  <2> QED
    BY <1>1, <1>7, <2>3, <2>4 DEF SensorInv
<1>10. Good(ChainProcess(y), 3, ToSet(sinceReset'))
  <2>1. \A z \in ToSet(sinceReset) : z.n < y.n
    <3> TAKE z \in ToSet(sinceReset)
    <3>1. z.n <= sampled /\ z.n \in Nat
      BY <1>7 DEF ChainInv, SensorInv, Item
    <3> QED
      BY <1>1, <1>5, <3>1
  <2> QED
    BY <1>7, <2>1, ProcessGood DEF ChainInv, FlowInv
<1>11. FlowInv'
  BY <1>6, <1>7, <1>10, AnswerKeepsFlow DEF ChainInv, FlowInv
<1>12. EmptyInv'
  BY <1>6 DEF EmptyInv
<1> QED
  BY <1>9, <1>11, <1>12 DEF ChainInv

LEMMA SensorSame ==
  ASSUME SensorInv, UNCHANGED <<sensorVars, sinceReset>> PROVE SensorInv'
  BY DEF SensorInv, sensorVars, At

LEMMA FlowSame ==
  ASSUME FlowInv, EmptyInv, UNCHANGED <<kind, held, sinceReset, emitted, flushEmpty>>
  PROVE  FlowInv' /\ EmptyInv'
<1>1. Carried(held, Nothing, 0, ToSet(sinceReset))'
  BY DEF FlowInv, Carried, Wanted
<1>2. FlowInv'
  BY <1>1 DEF FlowInv, Wanted
<1>3. EmptyInv'
  BY DEF EmptyInv, FiltersFirst
<1> QED
  BY <1>2, <1>3

LEMMA SensorResetKeeps == ChainInv /\ SensorReset => ChainInv'
<1> SUFFICES ASSUME ChainInv, SensorReset PROVE ChainInv'
  OBVIOUS
<1>1. FlowInv' /\ EmptyInv'
  BY FlowSame DEF ChainInv, SensorReset
<1>2. \A s : At(s)' = At(s)
  BY DEF SensorReset, At
<1>3. SensorValues # <<>> => index' = At(0)'
  BY <1>2, AtIs DEF SensorReset
<1>4. SensorInv'
  BY <1>2, <1>3 DEF ChainInv, SensorInv, SensorReset
<1> QED
  BY <1>1, <1>4 DEF ChainInv

LEMMA TickKeeps == ChainInv /\ TickChain => ChainInv'
<1> SUFFICES ASSUME ChainInv, TickChain PROVE ChainInv'
  OBVIOUS
<1>1. PICK due : Answer(ChainTick(due))
  BY DEF TickChain
<1>2. kind' = kind /\ ~flushEmpty' /\ UNCHANGED <<sensorVars, sinceReset>>
  BY DEF TickChain
<1>3. Good(ChainTick(due), 3, ToSet(sinceReset'))
  BY <1>2, TicksGood DEF ChainInv, FlowInv
<1>4. FlowInv'
  BY <1>1, <1>2, <1>3, AnswerKeepsFlow DEF ChainInv, FlowInv
<1> QED
  BY <1>2, <1>4, SensorSame DEF ChainInv, EmptyInv

LEMMA FlushKeeps == ChainInv /\ FlushChain => ChainInv'
<1> SUFFICES ASSUME ChainInv, FlushChain PROVE ChainInv'
  OBVIOUS
<1>1. /\ Answer(ChainFlush) /\ flushEmpty' = (ChainFlush.out = Nothing)
      /\ kind' = kind /\ UNCHANGED <<sensorVars, sinceReset>>
  BY DEF FlushChain
<1>2. Good(ChainFlush, 3, ToSet(sinceReset'))
  BY <1>1, FlushesGood DEF ChainInv, FlowInv
<1>3. FlowInv'
  BY <1>1, <1>2, AnswerKeepsFlow DEF ChainInv, FlowInv
<1>4. ASSUME flushEmpty', FiltersFirst' PROVE held' = NoneHeld
  <2>1. FiltersFirst /\ ChainFlush.out = Nothing
    BY <1>1, <1>4 DEF FiltersFirst
  <2>2. ChainFlush.held = NoneHeld
    BY <2>1, FlushLeavesNothing DEF ChainInv, FlowInv
  <2> QED
    BY <1>1, <2>2 DEF Answer
<1> QED
  BY <1>1, <1>3, <1>4, SensorSame DEF ChainInv, EmptyInv

LEMMA ResetKeepsChain == ChainInv /\ ResetChain => ChainInv'
<1> SUFFICES ASSUME ChainInv, ResetChain PROVE ChainInv'
  OBVIOUS
<1>1. /\ held' = NoneHeld /\ sinceReset' = <<>> /\ emitted' = <<>> /\ ~flushEmpty'
      /\ kind' = kind /\ UNCHANGED sensorVars
  BY DEF ResetChain
<1>2. Carried(NoneHeld, Nothing, 0, {})'
  <2>1. NoneHeld \in [StageSlots -> SlotItem] /\ \A i \in StageSlots : NoneHeld[i] = Nothing
    BY DEF NoneHeld, SlotItem
  <2>2. ToSet(emitted') = {}
    BY <1>1 DEF ToSet
  <2> QED
    BY <2>1, <2>2 DEF Carried, Ahead, SlotItem
<1>3. ToSet(<<>>) = {}
  BY DEF ToSet
<1>4. FlowInv'
  BY <1>1, <1>2, <1>3 DEF ChainInv, FlowInv, Carried, NoneHeld
<1>5. SensorInv'
  BY <1>1, <1>3 DEF ChainInv, SensorInv, sensorVars, At
<1> QED
  BY <1>1, <1>4, <1>5 DEF ChainInv, EmptyInv

LEMMA ChainKeeps == ChainInv /\ [ChainNext]_chainVars => ChainInv'
<1> SUFFICES ASSUME ChainInv, [ChainNext]_chainVars PROVE ChainInv'
  OBVIOUS
<1>1. CASE ChainNext
  BY <1>1, SampleKeeps, SensorResetKeeps, TickKeeps, FlushKeeps, ResetKeepsChain DEF ChainNext
<1>2. CASE UNCHANGED chainVars
  BY <1>2, SensorSame, FlowSame DEF ChainInv, chainVars
<1> QED
  BY <1>1, <1>2

LEMMA ChainFlows == ChainInv => ReadingsFlow
<1> SUFFICES ASSUME ChainInv PROVE ReadingsFlow
  OBVIOUS
<1>1. Carried(held, Nothing, 0, ToSet(sinceReset))
  BY DEF ChainInv, FlowInv
<1>2. FlowInOrder
  BY <1>1 DEF ChainInv, FlowInv, Carried, FlowInOrder
<1>3. InFlow \subseteq ToSet(sinceReset)
  BY <1>1 DEF ChainInv, FlowInv, Carried, InFlow
<1>4. ASSUME NEW x \in ToSet(sinceReset), Wanted(x) PROVE x \in InFlow
  <2>1. x \in Item
    BY DEF ChainInv, SensorInv, ToSet
  <2> QED
    BY <1>1, <1>4, <2>1, SlotsAre DEF Carried, InFlow
<1>5. \A x \in ToSet(emitted) : Wanted(x)
  BY DEF ChainInv, FlowInv
<1>6. flushEmpty => held = NoneHeld \/ \E i, j \in StageSlots :
                       i < j /\ kind[i] = "hold" /\ kind[j] = "match"
  BY DEF ChainInv, EmptyInv, FiltersFirst
<1>7. \A x \in ToSet(sinceReset) : x.value = SensorValues[At(x.seq) + 1]
  BY DEF ChainInv, SensorInv
<1> QED
  BY <1>2, <1>3, <1>4, <1>5, <1>6, <1>7 DEF ReadingsFlow, At

\* For any values of the sensor and any mixture of three stages, however they are
\* nested: no reading is lost, repeated or overtaken on its way through the chain, and
\* a flush that answers None has left nothing behind unless a filter refused what it brought.
THEOREM ReadingsFlowThrough == ChainSpec => []ReadingsFlow
<1>1. ChainSpec => []ChainInv
  BY ChainInvInit, ChainKeeps, PTL DEF ChainSpec
<1> QED
  BY <1>1, ChainFlows, PTL

---------------------------------------------------------------------------
(* Filters: what the windows hold, and the exponential average             *)

LEMMA WindowMod ==
  /\ \A x \in 0..WINDOW - 1 : x % WINDOW = x
  /\ WINDOW % WINDOW = 0
  /\ \A x \in -WINDOW .. -1 : x % WINDOW = x + WINDOW
<1>1. PICK w \in Nat \ {0} : w = WINDOW
  BY WindowAssumption
<1>2. \A x \in 0..w - 1 : x % w = x
  OBVIOUS
<1>3. w % w = 0
  OBVIOUS
<1>4. \A x \in -w .. -1 : x % w = x + w
  OBVIOUS
<1> QED
  BY <1>1, <1>2, <1>3, <1>4

\* What the average and the median have in common.
Windowed(f, s) ==
  /\ f.index \in 0..WINDOW - 1
  /\ f.count = IF Len(s) < WINDOW THEN Len(s) ELSE WINDOW
  /\ f.buffer \in [0..WINDOW - 1 -> Int]
  /\ \A k \in 1..f.count : f.buffer[(f.index - k) % WINDOW] = s[Len(s) + 1 - k]

FiltersInv ==
  /\ fed \in Seq(Int)
  /\ Windowed(avg, fed) /\ Windowed(med, fed)
  /\ ema.none = (fed = <<>>)
  /\ fed # <<>> => /\ ema.num \in Int /\ ema.den \in Nat \ {0}
                   /\ \E lo, hi \in ToSet(fed) : lo * ema.den <= ema.num /\ ema.num <= hi * ema.den

LEMMA NewWindow ==
  ASSUME NEW f, f.index = 0, f.count = 0, f.buffer = Zeros PROVE Windowed(f, <<>>)
<1>1. WINDOW \in Nat \ {0} /\ Zeros \in [0..WINDOW - 1 -> Int]
  BY WindowAssumption DEF Zeros
<1> QED
  BY <1>1 DEF Windowed

\* One more input, in the slot of the oldest.
LEMMA WindowMoves ==
  ASSUME NEW f, NEW g, NEW x \in Int, NEW s \in Seq(Int), Windowed(f, s),
         g.buffer = [f.buffer EXCEPT ![f.index] = x],
         g.index = (f.index + 1) % WINDOW,
         g.count = IF f.count < WINDOW THEN f.count + 1 ELSE f.count
  PROVE  Windowed(g, Append(s, x))
<1>1. PICK W, n, i, c : W = WINDOW /\ n = Len(s) /\ i = f.index /\ c = f.count
  OBVIOUS
<1>2. /\ W \in Nat \ {0} /\ n \in Nat /\ i \in 0..W - 1
      /\ c = (IF n < W THEN n ELSE W) /\ c \in 0..W
  BY <1>1, WindowAssumption DEF Windowed
<1>3. PICK b, d : b = f.buffer /\ d = [b EXCEPT ![i] = x] /\ d = g.buffer
  BY <1>1
<1>4. /\ b \in [0..W - 1 -> Int] /\ d \in [0..W - 1 -> Int] /\ d[i] = x
      /\ \A j \in 0..W - 1 : j # i => d[j] = b[j]
  BY <1>1, <1>2, <1>3 DEF Windowed
<1>5. PICK t : t = Append(s, x)
  OBVIOUS
<1>6. Len(t) = n + 1 /\ t[n + 1] = x /\ \A j \in 1..n : t[j] = s[j]
  BY <1>1, <1>5
<1>7. PICK l, e : l = g.index /\ e = g.count
  OBVIOUS
<1>8. l = (IF i + 1 < W THEN i + 1 ELSE 0) /\ l \in 0..W - 1
  <2>1. i + 1 < W => i + 1 \in 0..W - 1
    BY <1>2
  <2>2. ~(i + 1 < W) => i + 1 = W
    BY <1>2
  <2>3. (i + 1) % W = IF i + 1 < W THEN i + 1 ELSE 0
    BY <1>1, <2>1, <2>2, WindowMod
  <2> QED
    BY <1>1, <1>2, <1>7, <2>1, <2>3
<1>9. e = (IF n + 1 < W THEN n + 1 ELSE W) /\ e <= c + 1 /\ e \in 0..W
  <2>1. e = IF c < W THEN c + 1 ELSE c
    BY <1>1, <1>7
  <2> QED
    BY <1>2, <2>1
<1>10. \A j \in 0..W - 1, k \in 1..W : (j - k) % W = IF k <= j THEN j - k ELSE j - k + W
  <2> TAKE j \in 0..W - 1, k \in 1..W
  <2>1. k <= j => j - k \in 0..W - 1
    BY <1>2
  <2>2. ~(k <= j) => j - k \in -W .. -1
    BY <1>2
  <2> QED
    BY <1>1, <2>1, <2>2, WindowMod
<1>11. ASSUME NEW k \in 1..e PROVE d[(l - k) % W] = t[(n + 1) + 1 - k]
  <2>1. k \in 1..W /\ k <= c + 1 /\ k \in Nat
    BY <1>2, <1>9
  <2>2. PICK a : a = (l - k) % W
    OBVIOUS
  <2>3. a = IF k <= l THEN l - k ELSE l - k + W
    BY <1>8, <1>10, <2>1, <2>2
  <2>4. CASE k = 1
    <3>1. a = i
      BY <1>2, <1>8, <2>3, <2>4
    <3> QED
      BY <1>2, <1>4, <1>6, <2>2, <2>4, <3>1
  <2>5. CASE k # 1
    <3>1. PICK h \in Nat : h = k - 1 /\ h \in 1..W /\ h \in 1..c /\ h < W
      BY <1>2, <1>9, <2>1, <2>5
    <3>2. (i - h) % W = IF h <= i THEN i - h ELSE i - h + W
      BY <1>2, <1>10, <3>1
    <3>3. a = (i - h) % W /\ a \in 0..W - 1 /\ a # i
      BY <1>2, <1>8, <2>1, <2>3, <3>1, <3>2
    <3>4. b[(i - h) % W] = s[n + 1 - h]
      BY <1>1, <1>3, <3>1 DEF Windowed
    <3>5. n + 1 - h = (n + 1) + 1 - k /\ (n + 1) + 1 - k \in 1..n
      BY <1>2, <2>1, <3>1
    <3> QED
      BY <1>4, <1>6, <2>2, <3>3, <3>4, <3>5
  <2> QED
    BY <2>4, <2>5
<1>12. g.buffer \in [0..W - 1 -> Int] /\ e = (IF Len(t) < W THEN Len(t) ELSE W)
       /\ \A k \in 1..e : g.buffer[(l - k) % W] = t[Len(t) + 1 - k]
  BY <1>3, <1>4, <1>6, <1>9, <1>11
<1> QED
  BY <1>1, <1>5, <1>7, <1>8, <1>12 DEF Windowed

\* What is mixed of two values lies between the lower and the higher of them.
LEMMA MixLow ==
  ASSUME NEW A \in Nat, NEW D \in Nat, A <= D, NEW x \in Int, NEW l \in Int, NEW num \in Int,
         NEW den \in Nat, l <= x, l * den <= num
  PROVE  l * (den * D) <= A * x * den + (D - A) * num
<1>1. PICK B \in Nat : B = D - A /\ D = A + B
  <2>1. D - A \in Nat
    OBVIOUS
  <2> QED
    BY <2>1
<1>2. PICK y \in Nat : x = l + y
  <2>1. x - l \in Nat
    OBVIOUS
  <2> QED
    BY <2>1
<1>3. PICK z \in Nat : num = l * den + z
  <2>1. num - l * den \in Nat
    OBVIOUS
  <2> QED
    BY <2>1
<1>4. A * x * den + B * num = l * (den * D) + (A * y * den + B * z)
  BY <1>1, <1>2, <1>3
<1>5. A * y * den \in Nat /\ B * z \in Nat
  OBVIOUS
<1> QED
  BY <1>1, <1>4, <1>5

LEMMA MixHigh ==
  ASSUME NEW A \in Nat, NEW D \in Nat, A <= D, NEW x \in Int, NEW h \in Int, NEW num \in Int,
         NEW den \in Nat, x <= h, num <= h * den
  PROVE  A * x * den + (D - A) * num <= h * (den * D)
<1>1. PICK B \in Nat : B = D - A /\ D = A + B
  <2>1. D - A \in Nat
    OBVIOUS
  <2> QED
    BY <2>1
<1>2. PICK y \in Nat : h = x + y
  <2>1. h - x \in Nat
    OBVIOUS
  <2> QED
    BY <2>1
<1>3. PICK z \in Nat : h * den = num + z
  <2>1. h * den - num \in Nat
    OBVIOUS
  <2> QED
    BY <2>1
<1>4. h * (den * D) = A * x * den + B * num + (A * y * den + B * z)
  <2>1. h * (den * D) = A * (h * den) + B * (h * den)
    BY <1>1
  <2>2. A * (h * den) = A * x * den + A * y * den
    BY <1>2
  <2>3. B * (h * den) = B * num + B * z
    BY <1>3
  <2> QED
    BY <2>1, <2>2, <2>3
<1>5. A * y * den \in Nat /\ B * z \in Nat
  OBVIOUS
<1> QED
  BY <1>1, <1>4, <1>5

LEMMA FiltersInvInit == FiltersInit => FiltersInv
<1> SUFFICES ASSUME FiltersInit PROVE FiltersInv
  OBVIOUS
<1>1. /\ avg.index = 0 /\ avg.count = 0 /\ avg.buffer = Zeros
      /\ med.index = 0 /\ med.count = 0 /\ med.buffer = Zeros
      /\ ema.none = TRUE /\ fed = <<>>
  BY DEF FiltersInit, NewAverage, NewMedian, NoValue
<1>2. Windowed(avg, fed) /\ Windowed(med, fed) /\ fed \in Seq(Int)
  BY <1>1, NewWindow
<1>3. ema.none = (fed = <<>>)
  BY <1>1
<1> QED
  BY <1>1, <1>2, <1>3 DEF FiltersInv

LEMMA FeedKeeps ==
  ASSUME FiltersInv, NEW x \in Int, Feed(x) PROVE FiltersInv'
<1>1. /\ avg' = Average(avg, x) /\ med' = MedianOf(med, x) /\ ema' = Smoothed(ema, x)
      /\ fed' = Append(fed, x)
  BY DEF Feed
<1>2. fed \in Seq(Int) /\ Windowed(avg, fed) /\ Windowed(med, fed) /\ fed' \in Seq(Int)
  BY <1>1 DEF FiltersInv
<1>3. WINDOW \in Nat \ {0} /\ avg.count \in 0..WINDOW
  BY <1>2, WindowAssumption DEF Windowed
<1>4. Windowed(avg', fed')
  <2>1. /\ avg'.buffer = [avg.buffer EXCEPT ![avg.index] = x] /\ avg'.index = (avg.index + 1) % WINDOW
        /\ avg'.count = IF avg.count < WINDOW THEN avg.count + 1 ELSE avg.count
    BY <1>1, <1>3 DEF Average
  <2> QED
    BY <1>1, <1>2, <2>1, WindowMoves
<1>5. Windowed(med', fed')
  <2>1. /\ med'.buffer = [med.buffer EXCEPT ![med.index] = x] /\ med'.index = (med.index + 1) % WINDOW
        /\ med'.count = IF med.count < WINDOW THEN med.count + 1 ELSE med.count
    BY <1>1 DEF MedianOf
  <2> QED
    BY <1>1, <1>2, <2>1, WindowMoves
<1>6. /\ x \in ToSet(fed') /\ ToSet(fed) \subseteq ToSet(fed') /\ fed' # <<>>
      /\ ToSet(fed) \subseteq Int
  BY <1>1, <1>2, Appended DEF ToSet
<1>7. /\ ema'.none = FALSE /\ ema'.num \in Int /\ ema'.den \in Nat \ {0}
      /\ \E lo, hi \in ToSet(fed') : lo * ema'.den <= ema'.num /\ ema'.num <= hi * ema'.den
  <2>1. CASE fed = <<>>
    <3>1. ema' = [none |-> FALSE, num |-> x, den |-> 1]
      BY <1>1, <2>1 DEF FiltersInv, Smoothed, Exactly
    <3>2. x * 1 <= x
      OBVIOUS
    <3> QED
      BY <1>6, <3>1, <3>2
  <2>2. CASE fed # <<>>
    <3>1. PICK num \in Int, den \in Nat \ {0} : num = ema.num /\ den = ema.den
      BY <2>2 DEF FiltersInv
    <3>2. PICK lo \in ToSet(fed), hi \in ToSet(fed) : lo * den <= num /\ num <= hi * den
      BY <2>2, <3>1 DEF FiltersInv
    <3>3. PICK A \in Nat \ {0}, D \in Nat \ {0} : A = AlphaNum /\ D = AlphaDen /\ A <= D
      BY AlphaAssumption
    <3>4. PICK num2, den2 : num2 = A * x * den + (D - A) * num /\ den2 = den * D
      OBVIOUS
    <3>5. ema' = [none |-> FALSE, den |-> den2, num |-> num2]
      BY <1>1, <2>2, <3>1, <3>3, <3>4 DEF FiltersInv, Smoothed
    <3>6. num2 \in Int /\ den2 \in Nat \ {0}
      BY <3>4
    <3>7. lo \in Int /\ hi \in Int
      BY <1>6
    <3>8. \E l \in ToSet(fed') : l * den2 <= num2
      <4>1. CASE lo <= x
        BY <1>6, <3>2, <3>3, <3>4, <3>7, <4>1, MixLow
      <4>2. CASE ~(lo <= x)
        <5>1. x * den <= num
          <6>1. x * den <= lo * den
            <7>1. PICK y \in Nat : lo = x + y
              <8>1. lo - x \in Nat
                BY <3>7, <4>2
              <8> QED
                BY <3>7, <8>1
            <7>2. lo * den = x * den + y * den /\ y * den \in Nat
              BY <7>1
            <7> QED
              BY <7>2
          <6> QED
            BY <3>2, <3>7, <6>1
        <5> QED
          BY <1>6, <3>3, <3>4, <5>1, MixLow
      <4> QED
        BY <4>1, <4>2
    <3>9. \E h \in ToSet(fed') : num2 <= h * den2
      <4>1. CASE x <= hi
        BY <1>6, <3>2, <3>3, <3>4, <3>7, <4>1, MixHigh
      <4>2. CASE ~(x <= hi)
        <5>1. num <= x * den
          <6>1. hi * den <= x * den
            <7>1. PICK y \in Nat : x = hi + y
              <8>1. x - hi \in Nat
                BY <3>7, <4>2
              <8> QED
                BY <3>7, <8>1
            <7>2. x * den = hi * den + y * den /\ y * den \in Nat
              BY <3>7, <7>1
            <7> QED
              BY <3>7, <7>2
          <6> QED
            BY <3>2, <3>7, <6>1
        <5> QED
          BY <1>6, <3>3, <3>4, <5>1, MixHigh
      <4> QED
        BY <4>1, <4>2
    <3> QED
      BY <3>5, <3>6, <3>8, <3>9
  <2> QED
    BY <2>1, <2>2
<1> QED
  BY <1>2, <1>4, <1>5, <1>6, <1>7 DEF FiltersInv

LEMMA FiltersKeep == FiltersInv /\ [FiltersNext]_filterVars => FiltersInv'
<1> SUFFICES ASSUME FiltersInv, [FiltersNext]_filterVars PROVE FiltersInv'
  OBVIOUS
<1>1. ASSUME NEW x \in Readings, Feed(x) PROVE FiltersInv'
  BY <1>1, FeedKeeps, FilterBounds
<1>2. CASE ResetFilters
  <2>1. /\ avg'.index = 0 /\ avg'.count = 0 /\ avg'.buffer = Zeros
        /\ med'.index = 0 /\ med'.count = 0 /\ med'.buffer = Zeros
        /\ ema'.none = TRUE /\ fed' = <<>>
    BY <1>2 DEF ResetFilters, NewAverage, NoValue
  <2>2. Windowed(avg', fed') /\ Windowed(med', fed') /\ fed' \in Seq(Int)
    BY <2>1, NewWindow
  <2>3. ema'.none = (fed' = <<>>)
    BY <2>1
  <2> QED
    BY <2>1, <2>2, <2>3 DEF FiltersInv
<1>3. ASSUME NEW q, NEW r, SetNoise(q, r) PROVE FiltersInv'
  BY <1>3 DEF SetNoise, FiltersInv
<1>4. CASE UNCHANGED filterVars
  BY <1>4 DEF filterVars, FiltersInv
<1> QED
  BY <1>1, <1>2, <1>3, <1>4 DEF FiltersNext

LEMMA FiltersHold == FiltersInv => WindowsHoldLast /\ SmoothedBetween
<1>1. ASSUME FiltersInv PROVE WindowsHoldLast
  <2>1. PICK n : n = IF Len(fed) < WINDOW THEN Len(fed) ELSE WINDOW
    OBVIOUS
  <2>2. n \in Nat
    BY <1>1, <2>1, WindowAssumption DEF FiltersInv
  <2>3. Len(LastOnes) = n
    BY <2>1, <2>2 DEF LastOnes
  <2> QED
    BY <1>1, <2>1, <2>3 DEF FiltersInv, Windowed, WindowsHoldLast, HoldsLast
<1>2. ASSUME FiltersInv PROVE SmoothedBetween
  BY <1>2 DEF FiltersInv, SmoothedBetween
<1> QED
  BY <1>1, <1>2

---------------------------------------------------------------------------
(* Filters: the sum of a window                                            *)

LastOf(s) == LET n == IF Len(s) < WINDOW THEN Len(s) ELSE WINDOW
             IN  [i \in 1..n |-> s[Len(s) - n + i]]

LEMMA LastOfIs ==
  ASSUME NEW s \in Seq(Int), NEW n, n = IF Len(s) < WINDOW THEN Len(s) ELSE WINDOW
  PROVE  /\ LastOf(s) \in Seq(Int) /\ Len(LastOf(s)) = n /\ n \in Nat /\ n <= Len(s)
         /\ \A i \in 1..n : LastOf(s)[i] = s[Len(s) - n + i] /\ Len(s) - n + i \in 1..Len(s)
<1>1. n \in Nat /\ n <= Len(s) /\ Len(s) \in Nat
  BY WindowAssumption
<1>2. LastOf(s) = [i \in 1..n |-> s[Len(s) - n + i]]
  BY DEF LastOf
<1>3. \A i \in 1..n : Len(s) - n + i \in 1..Len(s)
  BY <1>1
<1>4. \A i \in 1..n : s[Len(s) - n + i] \in Int
  BY <1>3
<1>5. PICK l : l = LastOf(s) /\ l = [i \in 1..n |-> s[Len(s) - n + i]]
  BY <1>2
<1>6. l \in [1..n -> Int] /\ \A i \in 1..n : l[i] = s[Len(s) - n + i]
  BY <1>4, <1>5
<1>7. l \in Seq(Int) /\ Len(l) = n
  BY <1>1, <1>6, SequenceOf
<1> QED
  BY <1>1, <1>3, <1>5, <1>6, <1>7

\* A window that is not full grows; a full one gives up its oldest value.
LEMMA WindowGrows ==
  ASSUME NEW s \in Seq(Int), NEW x \in Int, Len(s) < WINDOW
  PROVE  SumOf(LastOf(Append(s, x))) = SumOf(LastOf(s)) + x
<1>1. PICK n, t : n = Len(s) /\ t = Append(s, x)
  OBVIOUS
<1>2. /\ n \in Nat /\ t \in Seq(Int) /\ Len(t) = n + 1 /\ t[n + 1] = x
      /\ \A i \in 1..n : t[i] = s[i]
  BY <1>1, AppendedIs
<1>3. n < WINDOW /\ n + 1 <= WINDOW /\ WINDOW \in Nat
  BY <1>1, <1>2, WindowAssumption
<1>4. n = (IF Len(s) < WINDOW THEN Len(s) ELSE WINDOW) /\ n + 1 = (IF Len(t) < WINDOW THEN Len(t) ELSE WINDOW)
  BY <1>1, <1>2, <1>3
<1>5. PICK l, m : l = LastOf(s) /\ m = LastOf(t)
  OBVIOUS
<1>6. l \in Seq(Int) /\ Len(l) = n /\ \A i \in 1..n : l[i] = s[n - n + i]
  BY <1>1, <1>4, <1>5, LastOfIs
<1>7. m \in Seq(Int) /\ Len(m) = n + 1 /\ \A i \in 1..n + 1 : m[i] = t[(n + 1) - (n + 1) + i]
  BY <1>2, <1>4, <1>5, LastOfIs
<1>8. PICK u : u = Append(l, x)
  OBVIOUS
<1>9. u \in Seq(Int) /\ Len(u) = n + 1 /\ u[n + 1] = x /\ \A i \in 1..n : u[i] = l[i]
  BY <1>6, <1>8, AppendedIs
<1>10. \A i \in 1..Len(m) : m[i] = u[i]
  <2>1. ASSUME NEW i \in 1..n PROVE m[i] = u[i]
    <3>1. n - n + i = i /\ (n + 1) - (n + 1) + i = i /\ i \in 1..n + 1
      BY <1>2
    <3>2. l[i] = s[i] /\ m[i] = t[i]
      BY <1>6, <1>7, <3>1
    <3> QED
      BY <1>2, <1>9, <3>2
  <2>2. m[n + 1] = u[n + 1]
    <3>1. (n + 1) - (n + 1) + (n + 1) = n + 1 /\ n + 1 \in 1..n + 1
      BY <1>2
    <3>2. m[n + 1] = t[n + 1]
      BY <1>7, <3>1
    <3> QED
      BY <1>2, <1>9, <3>2
  <2>3. \A i \in 1..Len(m) : i \in 1..n \/ i = n + 1
    BY <1>2, <1>7
  <2> QED
    BY <2>1, <2>2, <2>3
<1>11. m = u
  BY <1>7, <1>9, <1>10, SameSequence
<1>12. SumOf(u) = SumOf(l) + x
  BY <1>6, <1>8, SumOfAppend
<1> QED
  BY <1>1, <1>5, <1>11, <1>12

LEMMA WindowSlides ==
  ASSUME NEW s \in Seq(Int), NEW x \in Int, ~(Len(s) < WINDOW)
  PROVE  SumOf(LastOf(Append(s, x))) = SumOf(LastOf(s)) - s[Len(s) + 1 - WINDOW] + x
<1>1. PICK n, t, W : n = Len(s) /\ t = Append(s, x) /\ W = WINDOW
  OBVIOUS
<1>2. /\ n \in Nat /\ t \in Seq(Int) /\ Len(t) = n + 1 /\ t[n + 1] = x
      /\ \A i \in 1..n : t[i] = s[i]
  BY <1>1, AppendedIs
<1>3. W <= n /\ W \in Nat \ {0}
  BY <1>1, <1>2, WindowAssumption
<1>4. W = (IF Len(s) < WINDOW THEN Len(s) ELSE WINDOW) /\ W = (IF Len(t) < WINDOW THEN Len(t) ELSE WINDOW)
  BY <1>1, <1>2, <1>3
<1>5. PICK l, m : l = LastOf(s) /\ m = LastOf(t)
  OBVIOUS
<1>6. l \in Seq(Int) /\ Len(l) = W /\ \A i \in 1..W : l[i] = s[n - W + i]
  <2>1. s \in Seq(Int) /\ W = (IF Len(s) < WINDOW THEN Len(s) ELSE WINDOW)
    BY <1>4
  <2> QED
    BY <1>1, <1>5, <2>1, LastOfIs
<1>7. m \in Seq(Int) /\ Len(m) = W /\ \A i \in 1..W : m[i] = t[(n + 1) - W + i]
  <2>1. t \in Seq(Int) /\ W = (IF Len(t) < WINDOW THEN Len(t) ELSE WINDOW)
    BY <1>2, <1>4
  <2>2. Len(LastOf(t)) = W /\ LastOf(t) \in Seq(Int) /\ \A i \in 1..W : LastOf(t)[i] = t[Len(t) - W + i]
    BY ONLY <2>1, LastOfIs
  <2>3. Len(t) = n + 1 /\ m = LastOf(t)
    BY <1>2, <1>5
  <2> QED
    BY ONLY <2>2, <2>3
<1>8. PICK r : r = [i \in 1..W - 1 |-> l[i + 1]]
  OBVIOUS
<1>9. r \in Seq(Int) /\ Len(r) = W - 1 /\ \A i \in 1..W - 1 : r[i] = l[i + 1]
  <2>1. W - 1 \in Nat /\ \A i \in 1..W - 1 : i + 1 \in 1..W
    BY <1>3
  <2>2. \A i \in 1..W - 1 : l[i + 1] \in Int
    BY <1>6, <2>1
  <2>3. r \in [1..W - 1 -> Int] /\ \A i \in 1..W - 1 : r[i] = l[i + 1]
    BY <1>8, <2>2
  <2>4. r \in Seq(Int) /\ Len(r) = W - 1
    BY <2>1, <2>3, SequenceOf
  <2> QED
    BY <2>3, <2>4
<1>10. SumOf(r) = SumOf(l) - l[1]
  <2>1. Len(l) = Len(r) + 1
    BY <1>3, <1>6, <1>9
  <2>2. \A i \in 1..Len(r) : r[i] = l[i + 1]
    BY <1>9
  <2> QED
    BY <1>6, <1>9, <2>1, <2>2, SumOfRest
<1>11. l[1] = s[Len(s) + 1 - WINDOW]
  <2>1. 1 \in 1..W /\ n - W + 1 = n + 1 - W
    BY <1>2, <1>3
  <2> QED
    BY <1>1, <1>6, <2>1
<1>12. PICK u : u = Append(r, x)
  OBVIOUS
<1>13. u \in Seq(Int) /\ Len(u) = W /\ u[W] = x /\ \A i \in 1..W - 1 : u[i] = r[i]
  <2>1. u \in Seq(Int) /\ Len(u) = (W - 1) + 1 /\ u[(W - 1) + 1] = x /\ \A i \in 1..W - 1 : u[i] = r[i]
    BY <1>9, <1>12, AppendedIs
  <2>2. (W - 1) + 1 = W
    BY <1>3
  <2> QED
    BY <2>1, <2>2
<1>14. \A i \in 1..Len(m) : m[i] = u[i]
  <2>1. ASSUME NEW i \in 1..W - 1 PROVE m[i] = u[i]
    <3>1. /\ i \in 1..W /\ i + 1 \in 1..W /\ (n + 1) - W + i = n - W + (i + 1)
          /\ n - W + (i + 1) \in 1..n
      BY <1>2, <1>3
    <3>2. m[i] = t[n - W + (i + 1)]
      BY <1>7, <3>1
    <3>3. l[i + 1] = s[n - W + (i + 1)]
      BY <1>6, <3>1
    <3> QED
      BY <1>2, <1>9, <1>13, <3>1, <3>2, <3>3
  <2>2. m[W] = u[W]
    <3>1. W \in 1..W /\ (n + 1) - W + W = n + 1
      BY <1>2, <1>3
    <3>2. m[W] = t[n + 1]
      BY <1>7, <3>1
    <3> QED
      BY <1>2, <1>13, <3>2
  <2>3. \A i \in 1..Len(m) : i \in 1..W - 1 \/ i = W
    BY <1>3, <1>7
  <2> QED
    BY <2>1, <2>2, <2>3
<1>15. m = u
  BY <1>7, <1>13, <1>14, SameSequence
<1>16. SumOf(u) = SumOf(r) + x
  BY <1>9, <1>12, SumOfAppend
<1>17. SumOf(m) = SumOf(l) - s[Len(s) + 1 - WINDOW] + x
  BY <1>10, <1>11, <1>15, <1>16
<1> QED
  BY <1>1, <1>5, <1>17

---------------------------------------------------------------------------
(* Filters: every sequence can be put in order, and the middle of it       *)

\* p puts the first k numbers of s in order.
Orders(k, s, p) == /\ p \in [1..k -> 1..k]
                   /\ \A i, j \in 1..k : p[i] = p[j] => i = j
                   /\ \A y \in 1..k : \E i \in 1..k : p[i] = y
                   /\ \A i, j \in 1..k : i < j => s[p[i]] <= s[p[j]]

LEMMA LargestIn ==
  ASSUME NEW k \in Nat, NEW s \in [1..k + 1 -> Int]
  PROVE  \E m \in 1..k + 1 : \A i \in 1..k + 1 : s[i] <= s[m]
<1> DEFINE U == {n \in 0..k : \E m \in 1..n + 1 : \A i \in 1..n + 1 : s[i] <= s[m]}
<1>1. 0 \in U
  <2>1. 1 \in 1..0 + 1 /\ (\A i \in 1..0 + 1 : i = 1) /\ s[1] \in Int
    OBVIOUS
  <2> QED
    BY <2>1
<1>2. ASSUME NEW n \in 0..k - 1, n \in U
      PROVE  n + 1 \in U
  <2>1. PICK m \in 1..n + 1 : \A i \in 1..n + 1 : s[i] <= s[m]
    BY <1>2
  <2>2. PICK e : e = n + 2
    OBVIOUS
  <2>3. e \in 1..k + 1 /\ m \in 1..k + 1 /\ e \in 1..(n + 1) + 1 /\ m \in 1..(n + 1) + 1
    BY <2>2
  <2>4. s[e] \in Int /\ s[m] \in Int /\ \A i \in 1..n + 1 : s[i] \in Int
    BY <2>3
  <2>5. \A i \in 1..(n + 1) + 1 : i \in 1..n + 1 \/ i = e
    BY <2>2
  <2>6. n + 1 \in 0..k
    OBVIOUS
  <2>7. CASE s[m] <= s[e]
    <3>1. \A i \in 1..(n + 1) + 1 : s[i] <= s[e]
      BY <2>1, <2>4, <2>5, <2>7
    <3> QED
      BY <2>3, <2>6, <3>1
  <2>8. CASE s[e] <= s[m]
    <3>1. \A i \in 1..(n + 1) + 1 : s[i] <= s[m]
      BY <2>1, <2>4, <2>5, <2>8
    <3> QED
      BY <2>3, <2>6, <3>1
  <2> QED
    BY <2>4, <2>7, <2>8
<1> HIDE DEF U
<1>3. k \in U
  <2>1. 0..k \subseteq U
    BY <1>1, <1>2, UpTo
  <2> QED
    BY <2>1
<1> QED
  BY <1>3 DEF U

\* To order one more, put the largest at the end and order the others.
LEMMA OneMoreOrdered ==
  ASSUME NEW k \in Nat, \A s \in [1..k -> Int] : \E p : Orders(k, s, p), NEW s \in [1..k + 1 -> Int]
  PROVE  \E p : Orders(k + 1, s, p)
<1>1. PICK m \in 1..k + 1 : \A i \in 1..k + 1 : s[i] <= s[m]
  BY LargestIn
<1> DEFINE from(i) == IF i = m THEN k + 1 ELSE i
           t == [i \in 1..k |-> s[from(i)]]
<1>2. \A i \in 1..k : from(i) \in 1..k + 1 /\ from(i) # m
  OBVIOUS
<1>3. \A i, j \in 1..k : from(i) = from(j) => i = j
  OBVIOUS
<1>4. \A y \in 1..k + 1 : y # m => \E i \in 1..k : from(i) = y
  <2> TAKE y \in 1..k + 1
  <2> HAVE y # m
  <2>1. CASE y = k + 1
    <3>1. m \in 1..k /\ from(m) = y
      BY <2>1
    <3> QED
      BY <3>1
  <2>2. CASE y # k + 1
    <3>1. y \in 1..k /\ from(y) = y
      BY <2>2
    <3> QED
      BY <3>1
  <2> QED
    BY <2>1, <2>2
<1>5. t \in [1..k -> Int] /\ \A i \in 1..k : t[i] = s[from(i)]
  BY <1>2
<1> HIDE DEF from, t
<1>6. PICK p : Orders(k, t, p)
  BY <1>5
<1>7. /\ p \in [1..k -> 1..k] /\ \A i, j \in 1..k : p[i] = p[j] => i = j
      /\ \A y \in 1..k : \E i \in 1..k : p[i] = y
      /\ \A i, j \in 1..k : i < j => t[p[i]] <= t[p[j]]
  BY <1>6 DEF Orders
<1>8. PICK q : q = [i \in 1..k + 1 |-> IF i = k + 1 THEN m ELSE from(p[i])]
  OBVIOUS
<1>9. \A i \in 1..k : i \in 1..k + 1 /\ i # k + 1 /\ q[i] = from(p[i]) /\ p[i] \in 1..k
  BY <1>7, <1>8
<1>10. k + 1 \in 1..k + 1 /\ q[k + 1] = m /\ \A i \in 1..k + 1 : i # k + 1 => i \in 1..k
  BY <1>8
<1>11. q \in [1..k + 1 -> 1..k + 1]
  <2>1. \A i \in 1..k + 1 : (IF i = k + 1 THEN m ELSE from(p[i])) \in 1..k + 1
    BY <1>2, <1>9, <1>10
  <2> QED
    BY <1>8, <2>1
<1>12. ASSUME NEW i \in 1..k + 1, NEW j \in 1..k + 1, q[i] = q[j]
       PROVE  i = j
  <2>1. CASE i # k + 1 /\ j # k + 1
    <3>1. p[i] \in 1..k /\ p[j] \in 1..k /\ from(p[i]) = from(p[j]) /\ i \in 1..k /\ j \in 1..k
      BY <1>9, <1>10, <1>12, <2>1
    <3>2. p[i] = p[j]
      BY <1>3, <3>1
    <3> QED
      BY <1>7, <3>1, <3>2
  <2>2. CASE i = k + 1 /\ j # k + 1
    BY <1>2, <1>9, <1>10, <1>12, <2>2
  <2>3. CASE i # k + 1 /\ j = k + 1
    BY <1>2, <1>9, <1>10, <1>12, <2>3
  <2> QED
    BY <2>1, <2>2, <2>3
<1>13. ASSUME NEW y \in 1..k + 1
       PROVE  \E i \in 1..k + 1 : q[i] = y
  <2>1. CASE y = m
    BY <1>10, <2>1
  <2>2. CASE y # m
    <3>1. PICK x \in 1..k : from(x) = y
      BY <1>4, <2>2
    <3>2. PICK i \in 1..k : p[i] = x
      BY <1>7
    <3>3. q[i] = y /\ i \in 1..k + 1
      BY <1>9, <3>1, <3>2
    <3> QED
      BY <3>3
  <2> QED
    BY <2>1, <2>2
<1>14. ASSUME NEW i \in 1..k + 1, NEW j \in 1..k + 1, i < j
       PROVE  s[q[i]] <= s[q[j]]
  <2>1. i \in 1..k
    BY <1>14
  <2>2. CASE j = k + 1
    BY <1>1, <1>10, <1>11, <2>2
  <2>3. CASE j # k + 1
    <3>1. j \in 1..k
      BY <1>10, <2>3
    <3>2. t[p[i]] <= t[p[j]]
      BY <1>7, <1>14, <2>1, <3>1
    <3>3. t[p[i]] = s[q[i]] /\ t[p[j]] = s[q[j]]
      BY <1>5, <1>9, <2>1, <3>1
    <3> QED
      BY <3>2, <3>3
  <2> QED
    BY <2>2, <2>3
<1> QED
  BY <1>11, <1>12, <1>13, <1>14 DEF Orders

LEMMA EveryOrder ==
  ASSUME NEW n \in Nat, NEW s \in [1..n -> Int]
  PROVE  \E p : Orders(n, s, p)
<1> DEFINE U == {k \in Nat : \A r \in [1..k -> Int] : \E p : Orders(k, r, p)}
<1>1. 0 \in U
  <2>1. ASSUME NEW r \in [1..0 -> Int] PROVE \E p : Orders(0, r, p)
    <3>1. \A i \in 1..0 : FALSE
      OBVIOUS
    <3>2. [i \in 1..0 |-> 0] \in [1..0 -> 1..0]
      BY <3>1
    <3>3. Orders(0, r, [i \in 1..0 |-> 0])
      BY <3>1, <3>2 DEF Orders
    <3> QED
      BY <3>3
  <2> QED
    BY <2>1
<1>2. ASSUME NEW k \in 0..n - 1, k \in U
      PROVE  k + 1 \in U
  <2>1. k \in Nat /\ k + 1 \in Nat /\ \A r \in [1..k -> Int] : \E p : Orders(k, r, p)
    BY <1>2
  <2>2. ASSUME NEW r \in [1..k + 1 -> Int] PROVE \E p : Orders(k + 1, r, p)
    BY <2>1, OneMoreOrdered
  <2> QED
    BY <2>1, <2>2
<1> HIDE DEF U
<1>3. n \in U
  <2>1. 0..n \subseteq U
    BY <1>1, <1>2, UpTo
  <2> QED
    BY <2>1
<1> QED
  BY <1>3 DEF U

\* Of numbers in order, those before the middle and those after it.
LEMMA MiddleIs ==
  ASSUME NEW s \in Seq(Int), s # <<>>, NEW v, v = Ascending(s)[Len(s) \div 2 + 1]
  PROVE  \E p : /\ Orders(Len(s), s, p) /\ Len(s) \div 2 + 1 \in 1..Len(s)
                /\ v = s[p[Len(s) \div 2 + 1]]
<1>1. PICK n \in Nat : n = Len(s) /\ n > 0 /\ DOMAIN s = 1..n /\ s \in [1..n -> Int]
  OBVIOUS
<1>2. PICK p : Orders(n, s, p)
  BY <1>1, EveryOrder
<1> DEFINE Fits(q) == \A i, j \in DOMAIN s : i < j => s[q[i]] <= s[q[j]]
           order == CHOOSE q \in Injection(DOMAIN s, DOMAIN s) : Fits(q)
<1>3. p \in Injection(DOMAIN s, DOMAIN s) /\ Fits(p)
  BY <1>1, <1>2 DEF Orders, Injection, IsInjective
<1>4. order \in Injection(DOMAIN s, DOMAIN s) /\ Fits(order)
  BY <1>3
<1>5. Ascending(s) = [i \in DOMAIN s |-> s[order[i]]]
  BY DEF Ascending
<1>6. PICK q : q = order
  OBVIOUS
<1>7. /\ q \in [1..n -> 1..n] /\ \A i, j \in 1..n : q[i] = q[j] => i = j
      /\ \A i, j \in 1..n : i < j => s[q[i]] <= s[q[j]]
      /\ Ascending(s) = [i \in 1..n |-> s[q[i]]]
  <2> HIDE DEF order
  <2> QED
    BY <1>1, <1>4, <1>5, <1>6 DEF Injection, IsInjective
<1>8. \A y \in 1..n : \E i \in 1..n : q[i] = y
  <2>1. IsFiniteSet(1..n)
    BY FS_Interval
  <2>2. q \in Injection(1..n, 1..n)
    BY <1>7 DEF Injection, IsInjective
  <2>3. q \in Surjection(1..n, 1..n)
    BY <2>1, <2>2, FS_Injection
  <2> QED
    BY <2>3 DEF Surjection
<1>9. n \div 2 + 1 \in 1..n
  BY <1>1
<1>10. PICK m : m = n \div 2 + 1
  OBVIOUS
<1>11. m \in 1..n /\ v = s[q[m]]
  BY <1>1, <1>7, <1>9, <1>10
<1>12. Orders(n, s, q)
  BY <1>7, <1>8 DEF Orders
<1> QED
  BY <1>1, <1>10, <1>11, <1>12

---------------------------------------------------------------------------
(* Filters: the median of a window                                         *)

\* The counts that make v the upper median of s.
UpperMiddle(v, s) == /\ v \in ToSet(s)
                     /\ 2 * Below(s, v) <= Len(s)
                     /\ 2 * AtMost(s, v) > Len(s)

LEMMA OrderedMiddle ==
  ASSUME NEW s \in Seq(Int), NEW p, Orders(Len(s), s, p), Len(s) \div 2 + 1 \in 1..Len(s),
         NEW v, v = s[p[Len(s) \div 2 + 1]]
  PROVE  UpperMiddle(v, s)
<1>1. PICK n \in Nat : n = Len(s) /\ DOMAIN s = 1..n /\ s \in [1..n -> Int]
  OBVIOUS
<1>2. PICK m \in Nat : m = n \div 2 + 1 /\ m \in 1..n /\ 2 * (m - 1) <= n /\ 2 * m > n
  <2>1. n \div 2 + 1 \in Nat /\ 2 * (n \div 2) <= n /\ 2 * (n \div 2) + 1 >= n
    BY <1>1
  <2>2. 2 * ((n \div 2 + 1) - 1) <= n /\ 2 * (n \div 2 + 1) > n
    BY <2>1
  <2> QED
    BY <1>1, <2>1, <2>2
<1>3. /\ p \in [1..n -> 1..n]
      /\ \A i, j \in 1..n : p[i] = p[j] => i = j
      /\ \A y \in 1..n : \E i \in 1..n : p[i] = y
      /\ \A i, j \in 1..n : i < j => s[p[i]] <= s[p[j]]
  BY <1>1 DEF Orders
<1>4. v = s[p[m]] /\ p[m] \in 1..n /\ v \in Int
  BY <1>1, <1>2, <1>3
<1>5. v \in ToSet(s)
  BY <1>1, <1>4 DEF ToSet
<1>6. Below(s, v) \in Nat /\ Below(s, v) <= m - 1
  <2>1. PICK low : low = {i \in 1..n : s[i] < v}
    OBVIOUS
  <2>2. PICK at : at = {j \in 1..n : p[j] \in low}
    OBVIOUS
  <2>3. at \subseteq 1..m - 1
    <3>1. ASSUME NEW j \in 1..n, s[p[j]] < v PROVE j < m
      <4>1. p[j] \in 1..n /\ s[p[j]] \in Int
        BY <1>1, <1>3
      <4>2. CASE j = m
        BY <1>4, <3>1, <4>1, <4>2
      <4>3. CASE m < j
        <5>1. s[p[m]] <= s[p[j]]
          BY <1>2, <1>3, <4>3
        <5> QED
          BY <1>4, <3>1, <4>1, <5>1
      <4> QED
        BY <1>2, <4>2, <4>3
    <3> QED
      BY <1>2, <2>1, <2>2, <3>1
  <2>4. IsFiniteSet(1..m - 1) /\ Cardinality(1..m - 1) = m - 1
    <3>1. PICK h \in Nat : h = m - 1
      BY <1>2
    <3>2. 1 \in Int /\ h \in Int /\ ~(1 > h + 1) /\ h - 1 + 1 = h
      BY <3>1
    <3>3. IsFiniteSet(1..h) /\ Cardinality(1..h) = IF 1 > h THEN 0 ELSE h - 1 + 1
      BY <3>2, FS_Interval
    <3> QED
      BY <3>1, <3>3
  <2>5. IsFiniteSet(at) /\ Cardinality(at) <= m - 1 /\ Cardinality(at) \in Nat
    BY <2>3, <2>4, FS_Subset, FS_CardinalityType
  <2>6. PICK f : f = [j \in at |-> p[j]]
    OBVIOUS
  <2>7. f \in Surjection(at, low)
    <3>1. f \in [at -> low]
      BY <2>2, <2>6
    <3>2. \A y \in low : \E j \in at : f[j] = y
      BY <1>3, <2>1, <2>2, <2>6
    <3> QED
      BY <3>1, <3>2 DEF Surjection
  <2>8. IsFiniteSet(low) /\ Cardinality(low) <= Cardinality(at)
    BY <2>5, <2>7, FS_Surjection
  <2>9. Below(s, v) = Cardinality(low)
    BY <1>1, <2>1 DEF Below
  <2>10. Cardinality(low) \in Nat
    BY <2>8, FS_CardinalityType
  <2> QED
    BY <1>2, <2>5, <2>8, <2>9, <2>10
<1>7. AtMost(s, v) \in Nat /\ m <= AtMost(s, v)
  <2>1. PICK low : low = {i \in 1..n : s[i] <= v}
    OBVIOUS
  <2>2. IsFiniteSet(1..n) /\ low \subseteq 1..n
    BY <1>1, <2>1, FS_Interval
  <2>3. IsFiniteSet(low) /\ Cardinality(low) \in Nat
    BY <2>2, FS_Subset, FS_CardinalityType
  <2>4. PICK f : f = [j \in 1..m |-> p[j]]
    OBVIOUS
  <2>5. \A j \in 1..m : j \in 1..n /\ p[j] \in low
    <3>1. ASSUME NEW j \in 1..m PROVE j \in 1..n /\ p[j] \in low
      <4>1. j \in 1..n /\ p[j] \in 1..n
        BY <1>2, <1>3
      <4>2. CASE j = m
        <5>1. s[p[j]] = v
          BY <1>4, <4>2
        <5> QED
          BY <1>4, <2>1, <4>1, <5>1
      <4>3. CASE j < m
        <5>1. s[p[j]] <= s[p[m]]
          BY <1>2, <1>3, <4>1, <4>3
        <5> QED
          BY <1>4, <2>1, <4>1, <5>1
      <4> QED
        BY <1>2, <4>2, <4>3
    <3> QED
      BY <3>1
  <2>6. f \in Injection(1..m, low)
    <3>1. f \in [1..m -> low] /\ \A j \in 1..m : f[j] = p[j]
      BY <2>4, <2>5
    <3>2. \A i, j \in 1..m : f[i] = f[j] => i = j
      BY <1>3, <2>5, <3>1
    <3> QED
      BY <3>1, <3>2 DEF Injection, IsInjective
  <2>7. IsFiniteSet(1..m) /\ Cardinality(1..m) = m
    <3>1. m \in Nat /\ 1 \in Int /\ m \in Int /\ m - 1 + 1 = m
      BY <1>2
    <3>2. IsFiniteSet(1..m) /\ Cardinality(1..m) = IF 1 > m THEN 0 ELSE m - 1 + 1
      BY <3>1, FS_Interval
    <3> QED
      BY <3>1, <3>2
  <2>8. Cardinality(1..m) <= Cardinality(low)
    BY <2>3, <2>6, FS_Injection
  <2>9. AtMost(s, v) = Cardinality(low)
    BY <1>1, <2>1 DEF AtMost
  <2> QED
    BY <2>3, <2>7, <2>8, <2>9
<1>8. 2 * Below(s, v) <= n /\ 2 * AtMost(s, v) > n
  BY <1>2, <1>6, <1>7
<1> QED
  BY <1>1, <1>5, <1>8 DEF UpperMiddle

\* A sequence and another with its numbers in other places have the same order.
Rearranges(n, f, w, s) == /\ f \in [1..n -> 1..n]
                          /\ \A i, j \in 1..n : f[i] = f[j] => i = j
                          /\ \A y \in 1..n : \E i \in 1..n : f[i] = y
                          /\ \A i \in 1..n : w[i] = s[f[i]]

LEMMA OrderMoves ==
  ASSUME NEW n \in Nat, NEW w, NEW s, NEW f, Rearranges(n, f, w, s), NEW p, Orders(n, w, p)
  PROVE  \E r : Orders(n, s, r) /\ \A i \in 1..n : s[r[i]] = w[p[i]]
<1>1. PICK r : r = [i \in 1..n |-> f[p[i]]]
  OBVIOUS
<1>2. /\ f \in [1..n -> 1..n] /\ p \in [1..n -> 1..n]
      /\ \A i, j \in 1..n : f[i] = f[j] => i = j
      /\ \A i, j \in 1..n : p[i] = p[j] => i = j
  BY DEF Rearranges, Orders
<1>3. r \in [1..n -> 1..n] /\ \A i \in 1..n : r[i] = f[p[i]] /\ p[i] \in 1..n
  BY <1>1, <1>2
<1>4. \A i, j \in 1..n : r[i] = r[j] => i = j
  BY <1>2, <1>3
<1>5. ASSUME NEW y \in 1..n PROVE \E i \in 1..n : r[i] = y
  <2>1. PICK x \in 1..n : f[x] = y
    BY DEF Rearranges
  <2>2. PICK i \in 1..n : p[i] = x
    BY DEF Orders
  <2> QED
    BY <1>3, <2>1, <2>2
<1>6. \A i \in 1..n : s[r[i]] = w[p[i]]
  BY <1>3 DEF Rearranges
<1>7. \A i, j \in 1..n : i < j => w[p[i]] <= w[p[j]]
  BY DEF Orders
<1>8. \A i, j \in 1..n : i < j => s[r[i]] <= s[r[j]]
  BY <1>6, <1>7
<1> QED
  BY <1>3, <1>4, <1>5, <1>6, <1>8 DEF Orders

\* What fills a window from slot 0 on are the last inputs, from some of them on round.
LEMMA WindowTurned ==
  ASSUME NEW s \in Seq(Int), NEW f, Windowed(f, s), f.count < WINDOW => f.index = f.count,
         NEW w, w = [i \in 1..f.count |-> f.buffer[i - 1]]
  PROVE  /\ w \in Seq(Int) /\ Len(w) = f.count /\ Len(LastOf(s)) = f.count
         /\ \E t : Rearranges(f.count, t, w, LastOf(s))
<1>1. PICK W, n, c, g, b : W = WINDOW /\ n = Len(s) /\ c = f.count /\ g = f.index /\ b = f.buffer
  OBVIOUS
<1>2. /\ W \in Nat \ {0} /\ n \in Nat /\ g \in 0..W - 1 /\ c = (IF n < W THEN n ELSE W)
      /\ b \in [0..W - 1 -> Int] /\ c \in Nat /\ c <= n /\ c <= W /\ (c < W => g = c /\ c = n)
  BY <1>1, WindowAssumption DEF Windowed
<1>3. \A i \in 1..c : i - 1 \in 0..W - 1 /\ b[i - 1] \in Int
  BY <1>2
<1>4. w \in [1..c -> Int] /\ w \in Seq(Int) /\ Len(w) = c /\ \A i \in 1..c : w[i] = b[i - 1]
  BY <1>1, <1>2, <1>3
<1>5. PICK l : l = LastOf(s)
  OBVIOUS
<1>6. l \in Seq(Int) /\ Len(l) = c /\ \A i \in 1..c : l[i] = s[n - c + i]
  BY <1>1, <1>2, <1>5, LastOfIs
<1>7. \A k \in 1..c : b[(g - k) % W] = s[n + 1 - k]
  BY <1>1 DEF Windowed
<1>8. \A k \in 1..c : (g - k) % W = IF k <= g THEN g - k ELSE g - k + W
  <2> TAKE k \in 1..c
  <2>1. k <= g => g - k \in 0..W - 1
    BY <1>2
  <2>2. ~(k <= g) => g - k \in -W .. -1
    BY <1>2
  <2> QED
    BY <1>1, <2>1, <2>2, WindowMod
<1>9. PICK t : t = [i \in 1..c |-> IF i <= g THEN c - g + i ELSE i - g]
  OBVIOUS
<1>10. \A i \in 1..c : t[i] = (IF i <= g THEN c - g + i ELSE i - g) /\ t[i] \in 1..c
  BY <1>2, <1>9
<1>11. t \in [1..c -> 1..c]
  BY <1>9, <1>10
<1>16. c \in Nat /\ g \in Nat /\ W \in Nat /\ n \in Nat
  BY <1>2
<1>12. ASSUME NEW i \in 1..c, NEW j \in 1..c, t[i] = t[j] PROVE i = j
  <2>1. PICK x, y : x = t[i] /\ y = t[j]
    OBVIOUS
  <2>2. x = (IF i <= g THEN c - g + i ELSE i - g) /\ x \in 1..c
    BY <1>10, <2>1
  <2>3. y = (IF j <= g THEN c - g + j ELSE j - g) /\ y \in 1..c /\ x = y
    BY <1>10, <1>12, <2>1
  <2>4. i \in Nat /\ j \in Nat /\ i <= c /\ j <= c
    BY <1>16
  <2>5. CASE i <= g /\ ~(j <= g)
    BY ONLY <1>16, <2>2, <2>3, <2>4, <2>5
  <2>6. CASE ~(i <= g) /\ j <= g
    BY ONLY <1>16, <2>2, <2>3, <2>4, <2>6
  <2>7. CASE i <= g /\ j <= g
    BY ONLY <1>16, <2>2, <2>3, <2>4, <2>7
  <2>8. CASE ~(i <= g) /\ ~(j <= g)
    BY ONLY <1>16, <2>2, <2>3, <2>4, <2>8
  <2> QED
    BY <2>5, <2>6, <2>7, <2>8
<1>13. ASSUME NEW y \in 1..c PROVE \E i \in 1..c : t[i] = y
  <2>1. CASE y > c - g
    <3>1. PICK i : i = y - (c - g)
      OBVIOUS
    <3>2. i \in 1..c /\ i <= g /\ c - g + i = y
      BY <1>2, <2>1, <3>1
    <3> QED
      BY <1>10, <3>2
  <2>2. CASE ~(y > c - g)
    <3>1. PICK i : i = y + g
      OBVIOUS
    <3>2. i \in 1..c /\ ~(i <= g) /\ i - g = y
      BY <1>2, <2>2, <3>1
    <3> QED
      BY <1>10, <3>2
  <2> QED
    BY <1>2, <2>1, <2>2
<1>14. ASSUME NEW i \in 1..c PROVE w[i] = l[t[i]]
  <2>6. PICK y : y = t[i]
    OBVIOUS
  <2>7. y = (IF i <= g THEN c - g + i ELSE i - g) /\ y \in 1..c
    BY <1>10, <2>6
  <2>1. PICK k : k = c + 1 - y
    OBVIOUS
  <2>2. k \in 1..c
    BY ONLY <1>16, <2>1, <2>7
  <2>3. (g - k) % W = i - 1
    <3>1. (g - k) % W = IF k <= g THEN g - k ELSE g - k + W
      BY <1>8, <2>2
    <3>2. (c < W => g = c) /\ g < W /\ c <= W /\ i \in 1..c
      BY <1>2
    <3>3. CASE i <= g
      <4>1. k = g + 1 - i /\ k <= g
        BY ONLY <1>16, <2>1, <2>7, <3>2, <3>3
      <4> QED
        BY ONLY <1>16, <3>1, <3>2, <4>1
    <3>4. CASE ~(i <= g)
      <4>1. c = W /\ k = W + 1 - i + g
        BY ONLY <1>16, <2>1, <2>7, <3>2, <3>4
      <4>2. ~(k <= g) /\ k \in Nat
        BY ONLY <1>16, <3>2, <3>4, <4>1
      <4> QED
        BY ONLY <1>16, <3>1, <3>2, <4>1, <4>2
    <3> QED
      BY <3>3, <3>4
  <2>4. b[i - 1] = s[n + 1 - k]
    BY <1>7, <2>2, <2>3
  <2>5. n + 1 - k = n - c + y
    BY ONLY <1>16, <2>1, <2>7
  <2> QED
    BY <1>4, <1>6, <2>4, <2>5, <2>6, <2>7
<1>15. Rearranges(c, t, w, l)
  BY <1>11, <1>12, <1>13, <1>14 DEF Rearranges
<1> QED
  BY <1>1, <1>4, <1>5, <1>6, <1>15

LEMMA MedianIsMiddle ==
  ASSUME NEW s \in Seq(Int), s # <<>>, NEW f, Windowed(f, s), f.count < WINDOW => f.index = f.count
  PROVE  UpperMiddle(Median(f.buffer, f.count), LastOf(s))
<1>1. PICK w, n, l, v : /\ w = [i \in 1..f.count |-> f.buffer[i - 1]] /\ n = f.count
                        /\ l = LastOf(s) /\ v = Median(f.buffer, f.count)
  OBVIOUS
<1>2. w \in Seq(Int) /\ Len(w) = n /\ Len(l) = n /\ \E t : Rearranges(n, t, w, l)
  BY <1>1, WindowTurned
<1>3. l \in Seq(Int)
  BY <1>1, LastOfIs
<1>4. n \in Nat /\ n # 0
  <2>1. Len(s) \in Nat /\ Len(s) # 0
    OBVIOUS
  <2> QED
    BY <1>1, <2>1, WindowAssumption DEF Windowed
<1>5. w # <<>>
  BY <1>2, <1>4
<1>6. v = Ascending(w)[Len(w) \div 2 + 1]
  BY <1>1, <1>2 DEF Median
<1>7. PICK p : Orders(Len(w), w, p) /\ Len(w) \div 2 + 1 \in 1..Len(w) /\ v = w[p[Len(w) \div 2 + 1]]
  BY <1>2, <1>5, <1>6, MiddleIs
<1>8. PICK t : Rearranges(n, t, w, l)
  BY <1>2
<1>9. PICK r : Orders(n, l, r) /\ \A i \in 1..n : l[r[i]] = w[p[i]]
  <2>1. n \in Nat /\ Rearranges(n, t, w, l) /\ Orders(n, w, p)
    BY <1>2, <1>4, <1>7, <1>8
  <2> QED
    BY ONLY <2>1, OrderMoves
<1>10. n \div 2 + 1 \in 1..n /\ v = l[r[n \div 2 + 1]]
  BY <1>2, <1>7, <1>9
<1>11. Orders(Len(l), l, r) /\ Len(l) \div 2 + 1 \in 1..Len(l) /\ v = l[r[Len(l) \div 2 + 1]]
  BY <1>2, <1>9, <1>10
<1> QED
  BY <1>1, <1>3, <1>11, OrderedMiddle

---------------------------------------------------------------------------
(* Filters: the recursive filters unrolled                                 *)

\* Powers exist, and are what their definition says.
LEMMA PowersAre ==
  ASSUME NEW b \in Nat
  PROVE  /\ \A n \in 0..MaxFed : Powers(b)[n] \in Nat
         /\ Powers(b)[0] = 1
         /\ \A n \in 1..MaxFed : Powers(b)[n] = b * Powers(b)[n - 1]
<1> DEFINE T == {k \in 0..MaxFed : \E P \in [0..k -> Nat] :
                                     P[0] = 1 /\ \A i \in 1..k : P[i] = b * P[i - 1]}
<1>0. MaxFed \in Nat
  BY FilterBounds
<1>1. 0 \in T
  <2> DEFINE Z == [i \in 0..0 |-> 1]
  <2>1. Z \in [0..0 -> Nat] /\ Z[0] = 1 /\ \A i \in 1..0 : Z[i] = b * Z[i - 1]
    OBVIOUS
  <2> HIDE DEF Z
  <2>2. 0 \in 0..MaxFed
    BY <1>0
  <2> QED
    BY <2>1, <2>2
<1>2. ASSUME NEW k \in 0..MaxFed - 1, k \in T
      PROVE  k + 1 \in T
  <2>1. PICK P \in [0..k -> Nat] : P[0] = 1 /\ \A i \in 1..k : P[i] = b * P[i - 1]
    BY <1>2
  <2> DEFINE Q == [i \in 0..k + 1 |-> IF i <= k THEN P[i] ELSE b * P[k]]
  <2>2. k \in Nat /\ k + 1 \in 1..MaxFed /\ k + 1 \in 0..MaxFed
    BY <1>0
  <2>3. P[k] \in Nat /\ b * P[k] \in Nat
    BY <2>1, <2>2
  <2>4. Q \in [0..k + 1 -> Nat]
    BY <2>2, <2>3
  <2>5. Q[0] = 1
    BY <2>1, <2>2
  <2>6. ASSUME NEW i \in 1..k + 1
        PROVE  Q[i] = b * Q[i - 1]
    <3>1. CASE i = k + 1
      BY <2>2, <3>1
    <3>2. CASE i <= k
      BY <2>1, <2>2, <3>2
    <3> QED
      BY <2>2, <3>1, <3>2
  <2> HIDE DEF Q
  <2> QED
    BY <2>2, <2>4, <2>5, <2>6
<1>3. MaxFed \in T
  <2> HIDE DEF T
  <2>1. 0..MaxFed \subseteq T
    BY <1>0, <1>1, <1>2, UpTo
  <2> QED
    BY <1>0, <2>1
<1>4. PICK P \in [0..MaxFed -> Nat] : P[0] = 1 /\ \A i \in 1..MaxFed : P[i] = b * P[i - 1]
  BY <1>3
<1>5. P = [n \in 0..MaxFed |-> IF n = 0 THEN 1 ELSE b * P[n - 1]]
  BY <1>0, <1>4
<1>6. Powers(b) = [n \in 0..MaxFed |-> IF n = 0 THEN 1 ELSE b * Powers(b)[n - 1]]
  BY <1>5 DEF Powers
<1>7. \A n \in 0..MaxFed : Powers(b)[n] = IF n = 0 THEN 1 ELSE b * Powers(b)[n - 1]
  BY <1>6
<1>8. \A n \in 1..MaxFed : Powers(b)[n] = b * Powers(b)[n - 1]
  BY <1>0, <1>7
<1>9. Powers(b)[0] = 1
  BY <1>0, <1>7
<1>10. ASSUME NEW n \in 0..MaxFed
       PROVE  Powers(b)[n] \in Nat
  <2> DEFINE U == {k \in 0..MaxFed : Powers(b)[k] \in Nat}
  <2>1. 0 \in U
    BY <1>0, <1>9
  <2>2. ASSUME NEW k \in 0..MaxFed - 1, k \in U
        PROVE  k + 1 \in U
    <3>1. k + 1 \in 1..MaxFed /\ (k + 1) - 1 = k /\ k + 1 \in 0..MaxFed
      BY <1>0
    <3>2. Powers(b)[k + 1] = b * Powers(b)[k]
      BY <1>8, <3>1
    <3>3. PICK p \in Nat : p = Powers(b)[k]
      BY <2>2
    <3>4. b * p \in Nat
      OBVIOUS
    <3> QED
      BY <3>1, <3>2, <3>3, <3>4
  <2> HIDE DEF U
  <2>3. 0..MaxFed \subseteq U
    BY <1>0, <2>1, <2>2, UpTo
  <2> QED
    BY <2>3 DEF U
<1> QED
  BY <1>8, <1>9, <1>10

\* One more input: every part so far is multiplied by the same, and one part is new.
LEMMA OneMorePart ==
  ASSUME NEW n \in Nat, NEW p \in Seq(Int), NEW q \in Seq(Int), Len(p) = n, Len(q) = n + 1,
         NEW c \in Int, \A i \in 1..n : q[i] = c * p[i]
  PROVE  SumOf(q) = c * SumOf(p) + q[n + 1]
<1>1. PICK r : r = [i \in 1..n |-> q[i]]
  OBVIOUS
<1>2. \A i \in 1..n + 1 : q[i] \in Int
  OBVIOUS
<1>3. r \in [1..n -> Int] /\ \A i \in 1..n : r[i] = q[i]
  BY <1>1, <1>2
<1>4. r \in Seq(Int) /\ Len(r) = n
  BY <1>3, SequenceOf
<1>5. Scales(c, p, r)
  BY <1>3, <1>4 DEF Scales
<1>6. SumOf(r) = c * SumOf(p)
  BY <1>4, <1>5, SumScaled
<1>7. PICK x \in Int : x = q[n + 1]
  BY <1>2
<1>8. PICK u : u = Append(r, x)
  OBVIOUS
<1>9. u \in Seq(Int) /\ Len(u) = n + 1 /\ u[n + 1] = x /\ \A i \in 1..n : u[i] = r[i]
  BY <1>4, <1>8, AppendedIs
<1>10. \A i \in 1..n + 1 : u[i] = q[i]
  <2>1. \A i \in 1..n + 1 : i \in 1..n \/ i = n + 1
    OBVIOUS
  <2> QED
    BY <1>3, <1>7, <1>9, <2>1
<1>11. u = q
  BY <1>9, <1>10, SameSequence
<1>12. SumOf(u) = SumOf(r) + x
  BY <1>4, <1>8, SumOfAppend
<1> QED
  BY <1>6, <1>7, <1>11, <1>12

SmoothedParts(s) == [i \in DOMAIN s |-> SmoothedPart(s, i)]
HighParts(s) == [i \in DOMAIN s |-> HighPart(s, i)]

LEMMA PowerFacts ==
  ASSUME NEW b \in Nat, NEW k \in Nat, k <= MaxFed
  PROVE  Powers(b)[k] \in Nat /\ Powers(b)[0] = 1 /\ (k # 0 => Powers(b)[k] = b * Powers(b)[k - 1])
<1>1. k \in 0..MaxFed /\ (k # 0 => k \in 1..MaxFed)
  BY FilterBounds
<1> QED
  BY <1>1, PowersAre

LEMMA AlphaIs ==
  /\ AlphaNum \in Nat \ {0} /\ AlphaDen \in Nat \ {0} /\ AlphaDen - AlphaNum \in Nat
  /\ MaxFed \in Nat
BY AlphaAssumption, FilterBounds

LEMMA SmoothedPartIs ==
  ASSUME NEW s \in Seq(Int), Len(s) <= MaxFed, NEW i \in 1..Len(s)
  PROVE  SmoothedPart(s, i) \in Int
<1>1. PICK n, v : n = Len(s) /\ v = s[i]
  OBVIOUS
<1>2. n \in Nat /\ n <= MaxFed /\ i \in Nat /\ i >= 1 /\ i <= n /\ v \in Int /\ s[1] \in Int
  BY <1>1
<1>3. n - 1 \in Nat /\ n - 1 <= MaxFed /\ n - i \in Nat /\ n - i <= MaxFed
  BY <1>2, AlphaIs
<1>4. PICK B, A : B = AlphaDen - AlphaNum /\ A = AlphaNum
  OBVIOUS
<1>5. A \in Nat /\ B \in Nat
  BY <1>4, AlphaIs
<1>6. Powers(B)[n - 1] \in Nat /\ Powers(B)[n - i] \in Nat
  BY <1>3, <1>5, PowerFacts
<1>7. CASE i = 1
  <2>1. SmoothedPart(s, i) = Powers(B)[n - 1] * s[1]
    BY <1>1, <1>4, <1>7 DEF SmoothedPart
  <2> QED
    BY <1>2, <1>6, <2>1
<1>8. CASE i # 1
  <2>1. i - 2 \in Nat /\ i - 2 <= MaxFed
    BY <1>2, <1>8, AlphaIs
  <2>2. Powers(AlphaDen)[i - 2] \in Nat
    BY <2>1, AlphaIs, PowerFacts
  <2>3. PICK x \in Nat, y \in Nat : x = Powers(B)[n - i] /\ y = Powers(AlphaDen)[i - 2]
    BY <1>6, <2>2
  <2>4. SmoothedPart(s, i) = A * x * y * v
    BY <1>1, <1>4, <1>8, <2>3 DEF SmoothedPart
  <2>5. v \in Int /\ A \in Int /\ x \in Int /\ y \in Int
    BY <1>2, <1>5
  <2>6. A * x * y * v \in Int
    BY ONLY <2>5
  <2> QED
    BY <2>4, <2>6
<1> QED
  BY <1>7, <1>8

LEMMA HighPartIs ==
  ASSUME NEW s \in Seq(Int), Len(s) <= MaxFed, NEW i \in 1..Len(s)
  PROVE  HighPart(s, i) \in Int
<1>1. PICK n, v : n = Len(s) /\ v = s[i]
  OBVIOUS
<1>2. n \in Nat /\ n <= MaxFed /\ i \in Nat /\ i >= 1 /\ i <= n /\ v \in Int /\ s[1] \in Int
  BY <1>1
<1>3. n - 1 \in Nat /\ n - 1 <= MaxFed /\ n - i + 1 \in Nat /\ n - i + 1 <= MaxFed
  BY <1>2, AlphaIs
<1>6. Powers(AlphaNum)[n - 1] \in Nat /\ Powers(AlphaNum)[n - i + 1] \in Nat
  BY <1>3, AlphaIs, PowerFacts
<1>7. CASE i = 1
  <2>1. HighPart(s, i) = Powers(AlphaNum)[n - 1] * s[1]
    BY <1>1, <1>7 DEF HighPart
  <2> QED
    BY <1>2, <1>6, <2>1
<1>8. CASE i # 1
  <2>1. i - 2 \in Nat /\ i - 2 <= MaxFed /\ i - 1 \in 1..Len(s)
    BY <1>1, <1>2, <1>8, AlphaIs
  <2>2. Powers(AlphaDen)[i - 2] \in Nat
    BY <2>1, AlphaIs, PowerFacts
  <2>3. PICK x \in Nat, y \in Nat, w \in Int : x = Powers(AlphaNum)[n - i + 1] /\ y = Powers(AlphaDen)[i - 2]
                                              /\ w = s[i - 1]
    BY <1>6, <2>1, <2>2
  <2>4. HighPart(s, i) = x * y * (v - w)
    BY <1>1, <1>8, <2>3 DEF HighPart
  <2>5. v \in Int /\ w \in Int /\ x \in Int /\ y \in Int
    BY <1>2
  <2>6. x * y * (v - w) \in Int
    BY ONLY <2>5
  <2> QED
    BY <2>4, <2>6
<1> QED
  BY <1>7, <1>8

LEMMA PartsAre ==
  ASSUME NEW s \in Seq(Int), Len(s) <= MaxFed
  PROVE  /\ SmoothedParts(s) \in Seq(Int) /\ Len(SmoothedParts(s)) = Len(s)
         /\ HighParts(s) \in Seq(Int) /\ Len(HighParts(s)) = Len(s)
         /\ \A i \in 1..Len(s) : SmoothedParts(s)[i] = SmoothedPart(s, i) /\ HighParts(s)[i] = HighPart(s, i)
<1>1. PICK n \in Nat : n = Len(s) /\ DOMAIN s = 1..n
  OBVIOUS
<1>2. \A i \in 1..n : SmoothedPart(s, i) \in Int /\ HighPart(s, i) \in Int
  BY <1>1, SmoothedPartIs, HighPartIs
<1>3. PICK p, q : p = SmoothedParts(s) /\ q = HighParts(s)
  OBVIOUS
<1>4. p = [i \in 1..n |-> SmoothedPart(s, i)] /\ q = [i \in 1..n |-> HighPart(s, i)]
  BY <1>1, <1>3 DEF SmoothedParts, HighParts
<1>5. p \in [1..n -> Int] /\ q \in [1..n -> Int]
  BY <1>2, <1>4
<1>6. p \in Seq(Int) /\ Len(p) = n /\ q \in Seq(Int) /\ Len(q) = n
  BY <1>5, SequenceOf
<1> QED
  BY <1>1, <1>3, <1>4, <1>6

LEMMA SmoothedUnrolls ==
  ASSUME NEW s \in Seq(Int), s # <<>>, Len(s) < MaxFed, NEW x \in Int
  PROVE  SumOf(SmoothedParts(Append(s, x)))
           = AlphaNum * x * Powers(AlphaDen)[Len(s) - 1]
             + (AlphaDen - AlphaNum) * SumOf(SmoothedParts(s))
<1>1. PICK n, t, A, B, p, q : /\ n = Len(s) /\ t = Append(s, x) /\ A = AlphaNum /\ B = AlphaDen - AlphaNum
                              /\ p = SmoothedParts(s) /\ q = SmoothedParts(t)
  OBVIOUS
<1>2. n \in Nat /\ n # 0 /\ n + 1 <= MaxFed /\ A \in Nat /\ B \in Nat
  BY <1>1, AlphaIs
<1>3. t \in Seq(Int) /\ Len(t) = n + 1 /\ t[n + 1] = x /\ \A i \in 1..n : t[i] = s[i]
  BY <1>1, AppendedIs
<1>4. /\ p \in Seq(Int) /\ Len(p) = n /\ q \in Seq(Int) /\ Len(q) = n + 1
      /\ \A i \in 1..n : p[i] = SmoothedPart(s, i)
      /\ \A i \in 1..n + 1 : q[i] = SmoothedPart(t, i)
  <2>1. s \in Seq(Int) /\ Len(s) <= MaxFed /\ t \in Seq(Int) /\ Len(t) <= MaxFed
    BY <1>1, <1>2, <1>3, AlphaIs
  <2>2. /\ p \in Seq(Int) /\ Len(p) = Len(s) /\ q \in Seq(Int) /\ Len(q) = Len(t)
        /\ \A i \in 1..Len(s) : p[i] = SmoothedPart(s, i)
        /\ \A i \in 1..Len(t) : q[i] = SmoothedPart(t, i)
    BY ONLY <1>1, <2>1, PartsAre
  <2> QED
    BY <1>1, <1>3, <2>2
<1>5. ASSUME NEW i \in 1..n PROVE q[i] = B * p[i]
  <2>1. i \in Nat /\ i >= 1 /\ i <= n /\ i \in 1..n + 1 /\ s[i] \in Int /\ s[1] \in Int /\ 1 \in 1..n
    BY <1>1, <1>2
  <2>2. q[i] = SmoothedPart(t, i) /\ p[i] = SmoothedPart(s, i) /\ t[i] = s[i] /\ t[1] = s[1]
    BY <1>3, <1>4, <2>1
  <2>3. CASE i = 1
    <3>1. n \in Nat /\ n <= MaxFed /\ (n + 1) - 1 = n
      BY <1>2, AlphaIs
    <3>2. Powers(B)[n] = B * Powers(B)[n - 1] /\ n - 1 \in Nat /\ n - 1 <= MaxFed
      BY <1>2, <3>1, AlphaIs, PowerFacts
    <3>3. PICK y \in Nat : y = Powers(B)[n - 1]
      BY <1>2, <3>2, PowerFacts
    <3>4. q[i] = (B * y) * s[1]
      BY <1>1, <1>3, <2>2, <2>3, <3>1, <3>2, <3>3 DEF SmoothedPart
    <3>5. p[i] = y * s[1]
      BY <1>1, <2>2, <2>3, <3>3 DEF SmoothedPart
    <3>6. PICK v \in Int : v = s[1]
      BY <2>1
    <3>7. (B * y) * v = B * (y * v)
      BY <1>2
    <3> QED
      BY <3>4, <3>5, <3>6, <3>7
  <2>4. CASE i # 1
    <3>1. PICK k \in Nat : k = n - i /\ (n + 1) - i = k + 1 /\ k + 1 <= MaxFed /\ k <= MaxFed
      BY <1>2, <2>1, AlphaIs
    <3>2. k + 1 \in Nat /\ k + 1 # 0 /\ (k + 1) - 1 = k
      OBVIOUS
    <3>3. Powers(B)[k + 1] = B * Powers(B)[k]
      BY <1>2, <3>1, <3>2, PowerFacts
    <3>4. PICK y \in Nat : y = Powers(B)[k]
      BY <1>2, <3>1, PowerFacts
    <3>5. i - 2 \in Nat /\ i - 2 <= MaxFed
      BY <1>2, <2>1, <2>4, AlphaIs
    <3>6. PICK z \in Nat : z = Powers(AlphaDen)[i - 2]
      BY <3>5, AlphaIs, PowerFacts
    <3>7. q[i] = A * (B * y) * z * s[i]
      BY <1>1, <1>3, <2>2, <2>4, <3>1, <3>3, <3>4, <3>6 DEF SmoothedPart
    <3>8. p[i] = A * y * z * s[i]
      BY <1>1, <2>2, <2>4, <3>1, <3>4, <3>6 DEF SmoothedPart
    <3>9. PICK v \in Int : v = s[i]
      BY <2>1
    <3>10. A * (B * y) * z * v = B * (A * y * z * v)
      BY <1>2
    <3> QED
      BY <3>7, <3>8, <3>9, <3>10
  <2> QED
    BY <2>3, <2>4
<1>6. q[n + 1] = A * x * Powers(AlphaDen)[n - 1]
  <2>1. n + 1 \in 1..n + 1 /\ n + 1 # 1 /\ (n + 1) - (n + 1) = 0 /\ (n + 1) - 2 = n - 1
        /\ n - 1 \in Nat /\ n - 1 <= MaxFed
    BY <1>2, AlphaIs
  <2>2. Powers(B)[0] = 1
    BY <1>2, <2>1, PowerFacts
  <2>3. PICK z \in Nat : z = Powers(AlphaDen)[n - 1]
    BY <2>1, AlphaIs, PowerFacts
  <2>6. q[n + 1] = SmoothedPart(t, n + 1) /\ Len(t) = n + 1 /\ t[n + 1] = x
    BY <1>3, <1>4, <2>1
  <2>7. AlphaNum = A /\ AlphaDen - AlphaNum = B
    BY <1>1
  <2>4. q[n + 1] = A * 1 * z * x
    BY ONLY <2>1, <2>2, <2>3, <2>6, <2>7 DEF SmoothedPart
  <2>5. A * 1 * z * x = A * x * z
    BY <1>2
  <2> QED
    BY <2>3, <2>4, <2>5
<1>7. SumOf(q) = B * SumOf(p) + q[n + 1]
  <2>1. B \in Int
    BY <1>2
  <2> QED
    BY ONLY <1>2, <1>4, <1>5, <2>1, OneMorePart
<1>8. PICK a \in Int, e \in Int : a = SumOf(p) /\ e = q[n + 1]
  BY <1>2, <1>4, SumIsInt
<1>9. B * a + e = e + B * a
  BY <1>2
<1> QED
  BY <1>1, <1>6, <1>7, <1>8, <1>9

LEMMA HighUnrolls ==
  ASSUME NEW s \in Seq(Int), s # <<>>, Len(s) < MaxFed, NEW x \in Int
  PROVE  SumOf(HighParts(Append(s, x)))
           = AlphaNum * (SumOf(HighParts(s)) + (x - s[Len(s)]) * Powers(AlphaDen)[Len(s) - 1])
<1>1. PICK n, t, A, p, q : /\ n = Len(s) /\ t = Append(s, x) /\ A = AlphaNum
                           /\ p = HighParts(s) /\ q = HighParts(t)
  OBVIOUS
<1>2. n \in Nat /\ n # 0 /\ n + 1 <= MaxFed /\ A \in Nat
  BY <1>1, AlphaIs
<1>3. t \in Seq(Int) /\ Len(t) = n + 1 /\ t[n + 1] = x /\ \A i \in 1..n : t[i] = s[i]
  BY <1>1, AppendedIs
<1>4. /\ p \in Seq(Int) /\ Len(p) = n /\ q \in Seq(Int) /\ Len(q) = n + 1
      /\ \A i \in 1..n : p[i] = HighPart(s, i)
      /\ \A i \in 1..n + 1 : q[i] = HighPart(t, i)
  <2>1. s \in Seq(Int) /\ Len(s) <= MaxFed /\ t \in Seq(Int) /\ Len(t) <= MaxFed
    BY <1>1, <1>2, <1>3, AlphaIs
  <2>2. /\ p \in Seq(Int) /\ Len(p) = Len(s) /\ q \in Seq(Int) /\ Len(q) = Len(t)
        /\ \A i \in 1..Len(s) : p[i] = HighPart(s, i)
        /\ \A i \in 1..Len(t) : q[i] = HighPart(t, i)
    BY ONLY <1>1, <2>1, PartsAre
  <2> QED
    BY <1>1, <1>3, <2>2
<1>5. ASSUME NEW i \in 1..n PROVE q[i] = A * p[i]
  <2>1. i \in Nat /\ i >= 1 /\ i <= n /\ i \in 1..n + 1 /\ s[i] \in Int /\ s[1] \in Int /\ 1 \in 1..n
    BY <1>1, <1>2
  <2>2. q[i] = HighPart(t, i) /\ p[i] = HighPart(s, i) /\ t[i] = s[i] /\ t[1] = s[1]
    BY <1>3, <1>4, <2>1
  <2>3. CASE i = 1
    <3>1. n \in Nat /\ n <= MaxFed /\ (n + 1) - 1 = n
      BY <1>2, AlphaIs
    <3>2. Powers(A)[n] = A * Powers(A)[n - 1] /\ n - 1 \in Nat /\ n - 1 <= MaxFed
      BY <1>2, <3>1, AlphaIs, PowerFacts
    <3>3. PICK y \in Nat : y = Powers(A)[n - 1]
      BY <1>2, <3>2, PowerFacts
    <3>4. q[i] = (A * y) * s[1]
      BY <1>1, <1>3, <2>2, <2>3, <3>1, <3>2, <3>3 DEF HighPart
    <3>5. p[i] = y * s[1]
      BY <1>1, <2>2, <2>3, <3>3 DEF HighPart
    <3>6. PICK v \in Int : v = s[1]
      BY <2>1
    <3>7. (A * y) * v = A * (y * v)
      BY <1>2
    <3> QED
      BY <3>4, <3>5, <3>6, <3>7
  <2>4. CASE i # 1
    <3>1. PICK k \in Nat : k = n - i + 1 /\ (n + 1) - i + 1 = k + 1 /\ k + 1 <= MaxFed /\ k <= MaxFed
      BY <1>2, <2>1, <2>4, AlphaIs
    <3>2. k + 1 \in Nat /\ k + 1 # 0 /\ (k + 1) - 1 = k
      OBVIOUS
    <3>3. Powers(A)[k + 1] = A * Powers(A)[k]
      BY <1>2, <3>1, <3>2, PowerFacts
    <3>4. PICK y \in Nat : y = Powers(A)[k]
      BY <1>2, <3>1, PowerFacts
    <3>5. i - 2 \in Nat /\ i - 2 <= MaxFed /\ i - 1 \in 1..n
      BY <1>2, <2>1, <2>4, AlphaIs
    <3>6. PICK z \in Nat : z = Powers(AlphaDen)[i - 2]
      BY <3>5, AlphaIs, PowerFacts
    <3>11. t[i - 1] = s[i - 1] /\ s[i - 1] \in Int
      BY <1>1, <1>3, <3>5
    <3>7. q[i] = (A * y) * z * (s[i] - s[i - 1])
      BY <1>1, <1>3, <2>2, <2>4, <3>1, <3>3, <3>4, <3>6, <3>11 DEF HighPart
    <3>8. p[i] = y * z * (s[i] - s[i - 1])
      BY <1>1, <2>2, <2>4, <3>1, <3>4, <3>6 DEF HighPart
    <3>9. PICK v \in Int : v = s[i] - s[i - 1]
      BY <2>1, <3>11
    <3>10. (A * y) * z * v = A * (y * z * v)
      BY <1>2
    <3> QED
      BY <3>7, <3>8, <3>9, <3>10
  <2> QED
    BY <2>3, <2>4
<1>10. n \in 1..n /\ s[n] \in Int
  BY <1>1, <1>2
<1>11. PICK d \in Int : d = x - s[n]
  BY <1>10
<1>12. n - 1 \in Nat /\ n - 1 <= MaxFed
  BY <1>2, AlphaIs
<1>13. PICK z \in Nat : z = Powers(AlphaDen)[n - 1]
  BY <1>12, AlphaIs, PowerFacts
<1>6. q[n + 1] = A * z * d
  <2>1. n + 1 \in 1..n + 1 /\ n + 1 # 1 /\ (n + 1) - (n + 1) + 1 = 1 /\ (n + 1) - 2 = n - 1
        /\ (n + 1) - 1 = n
    BY <1>2
  <2>6. 1 \in Nat /\ 1 # 0 /\ 1 <= MaxFed /\ 1 - 1 = 0 /\ 0 \in Nat /\ 0 <= MaxFed
    BY <1>2, AlphaIs
  <2>7. Powers(A)[1] = A * Powers(A)[1 - 1]
    BY <1>2, <2>6, PowerFacts
  <2>8. Powers(A)[0] = 1
    BY <1>2, <2>6, PowerFacts
  <2>2. Powers(A)[1] = A * 1
    BY <2>6, <2>7, <2>8
  <2>9. q[n + 1] = HighPart(t, n + 1) /\ Len(t) = n + 1
    BY <1>3, <1>4, <2>1
  <2>10. AlphaNum = A
    BY <1>1
  <2>3. q[n + 1] = (A * 1) * z * (t[n + 1] - t[n])
    BY ONLY <1>13, <2>1, <2>2, <2>9, <2>10 DEF HighPart
  <2>4. t[n + 1] - t[n] = d
    BY <1>3, <1>10, <1>11
  <2>5. (A * 1) * z * d = A * z * d
    BY <1>2
  <2> QED
    BY <2>3, <2>4, <2>5
<1>7. SumOf(q) = A * SumOf(p) + q[n + 1]
  <2>1. A \in Int
    BY <1>2
  <2> QED
    BY ONLY <1>2, <1>4, <1>5, <2>1, OneMorePart
<1>8. PICK a \in Int : a = SumOf(p)
  BY <1>4, SumIsInt
<1>9. A * a + A * z * d = A * (a + d * z)
  BY <1>2
<1> QED
  BY <1>1, <1>6, <1>7, <1>8, <1>9, <1>11, <1>13

LEMMA FirstParts ==
  ASSUME NEW x \in Int, MaxFed # 0
  PROVE  /\ SumOf(SmoothedParts(<<x>>)) = x /\ SumOf(HighParts(<<x>>)) = x
         /\ Powers(AlphaDen)[0] = 1
<1>1. PICK s : s = <<x>>
  OBVIOUS
<1>2. s \in Seq(Int) /\ Len(s) = 1 /\ s[1] = x /\ 1 <= MaxFed /\ 1 \in 1..Len(s)
  BY <1>1, AlphaIs
<1>3. 0 \in Nat /\ 0 <= MaxFed /\ 1 - 1 = 0
  BY AlphaIs
<1>4. Powers(AlphaDen)[0] = 1 /\ Powers(AlphaNum)[0] = 1 /\ Powers(AlphaDen - AlphaNum)[0] = 1
  BY <1>3, AlphaIs, PowerFacts
<1>5. SmoothedPart(s, 1) = 1 * x /\ HighPart(s, 1) = 1 * x
  BY <1>2, <1>3, <1>4 DEF SmoothedPart, HighPart
<1>6. PICK p, q : p = SmoothedParts(s) /\ q = HighParts(s)
  OBVIOUS
<1>7. /\ p \in Seq(Int) /\ Len(p) = 1 /\ p[1] = x
      /\ q \in Seq(Int) /\ Len(q) = 1 /\ q[1] = x
  <2>1. s \in Seq(Int) /\ Len(s) <= MaxFed
    BY <1>2
  <2>2. /\ p \in Seq(Int) /\ Len(p) = Len(s) /\ q \in Seq(Int) /\ Len(q) = Len(s)
        /\ \A i \in 1..Len(s) : p[i] = SmoothedPart(s, i) /\ q[i] = HighPart(s, i)
    BY ONLY <1>6, <2>1, PartsAre
  <2>3. p[1] = 1 * x /\ q[1] = 1 * x
    BY <1>2, <1>5, <2>2
  <2> QED
    BY <1>2, <2>2, <2>3
<1>8. <<x>> \in Seq(Int) /\ Len(<<x>>) = 1 /\ <<x>>[1] = x
  OBVIOUS
<1>9. p = <<x>> /\ q = <<x>>
  BY <1>7, <1>8, SameSequence
<1>10. <<x>> = Append(<<>>, x) /\ <<>> \in Seq(Int)
  OBVIOUS
<1>11. SumOf(<<x>>) = 0 + x
  BY <1>10, SumOfNone, SumOfAppend
<1> QED
  BY <1>1, <1>4, <1>6, <1>9, <1>11

---------------------------------------------------------------------------
(* Filters: fractions in lowest terms                                      *)

Divides(d, n) == \E k \in Nat : n = d * k
CommonDivisors(a, b) == {d \in Nat : Divides(d, a) /\ Divides(d, b)}
BestOf(S) == CHOOSE d \in S : \A e \in S : Divides(e, d)

DividedInto(a, b, q, r) == q = a \div b /\ r = a % b

LEMMA DivisionIs ==
  ASSUME NEW a \in Nat, NEW b \in Nat \ {0}, NEW q \in Int, NEW r \in Int, DividedInto(a, b, q, r)
  PROVE  a = b * q + r
<1>1. q = a \div b /\ r = a % b
  BY DEF DividedInto
<1> QED
  BY <1>1

LEMMA Division ==
  ASSUME NEW a \in Nat, NEW b \in Nat \ {0}
  PROVE  a \div b \in Nat /\ a % b \in Nat /\ a % b < b /\ a = b * (a \div b) + (a % b)
<1>1. a \div b \in Nat /\ a % b \in Nat /\ a % b < b
  OBVIOUS
<1>2. PICK q \in Int, r \in Int : q = a \div b /\ r = a % b
  BY <1>1
<1>3. a = b * q + r
  <2>1. a \in Nat /\ b \in Nat \ {0} /\ q \in Int /\ r \in Int /\ DividedInto(a, b, q, r)
    BY <1>2 DEF DividedInto
  <2> QED
    BY ONLY <2>1, DivisionIs
<1> QED
  BY <1>1, <1>2, <1>3

LEMMA DividesSum ==
  ASSUME NEW d \in Nat, NEW m \in Nat, NEW n \in Nat, NEW q \in Nat, Divides(d, m), Divides(d, n)
  PROVE  Divides(d, m * q + n)
<1>1. PICK i \in Nat : m = d * i
  BY DEF Divides
<1>2. PICK j \in Nat : n = d * j
  BY DEF Divides
<1>3. PICK k \in Nat : k = i * q + j
  OBVIOUS
<1>4. d * k = (d * i) * q + d * j
  BY <1>3
<1>5. m * q + n = d * k
  BY <1>1, <1>2, <1>4
<1> QED
  BY <1>5 DEF Divides

LEMMA DividesRest ==
  ASSUME NEW d \in Nat, NEW m \in Nat, NEW n \in Nat, NEW q \in Nat, Divides(d, m),
         Divides(d, m * q + n)
  PROVE  Divides(d, n)
<1>1. PICK i \in Nat : m = d * i
  BY DEF Divides
<1>2. PICK j \in Nat : m * q + n = d * j
  BY DEF Divides
<1>3. CASE d = 0
  <2>1. m = 0
    BY <1>1, <1>3
  <2>2. m * q = 0
    BY <2>1
  <2>3. n = 0
    BY <1>2, <1>3, <2>2
  <2>4. n = d * 0 /\ 0 \in Nat
    BY <2>3
  <2> QED
    BY <2>4 DEF Divides
<1>4. CASE d # 0
  <2>1. PICK e \in Int : e = j - i * q
    OBVIOUS
  <2>2. d * e = d * j - (d * i) * q
    BY <2>1
  <2>3. n = d * e
    BY <1>1, <1>2, <2>2
  <2>4. e \in Nat
    <3>1. CASE e < 0
      <4>1. PICK f \in Nat : f = -1 - e
        BY <2>1, <3>1
      <4>2. d * e = -(d * f) - d
        BY <4>1
      <4>3. d * f \in Nat
        OBVIOUS
      <4> QED
        BY <1>4, <2>3, <4>2, <4>3
    <3> QED
      BY <2>1, <3>1
  <2> QED
    BY <2>3, <2>4 DEF Divides
<1> QED
  BY <1>3, <1>4

LEMMA DividesEachOther ==
  ASSUME NEW a \in Nat, NEW d \in Nat, Divides(a, d), Divides(d, a)
  PROVE  a = d
<1>1. PICK i \in Nat : d = a * i
  BY DEF Divides
<1>2. PICK j \in Nat : a = d * j
  BY DEF Divides
<1>3. CASE i = 0
  <2>1. d = 0
    BY <1>1, <1>3
  <2> QED
    BY <1>2, <2>1
<1>4. CASE j = 0
  <2>1. a = 0
    BY <1>2, <1>4
  <2> QED
    BY <1>1, <2>1
<1>5. CASE i # 0 /\ j # 0
  <2>1. PICK h \in Nat, k \in Nat : i = h + 1 /\ j = k + 1
    <3>1. i - 1 \in Nat /\ j - 1 \in Nat /\ i = (i - 1) + 1 /\ j = (j - 1) + 1
      BY <1>5
    <3> QED
      BY <3>1
  <2>2. d = a * h + a /\ a = d * k + d
    BY <1>1, <1>2, <2>1
  <2>3. a * h \in Nat /\ d * k \in Nat
    OBVIOUS
  <2> QED
    BY <2>2, <2>3
<1> QED
  BY <1>3, <1>4, <1>5

\* The remainder has the same common divisors.
LEMMA SameDivisors ==
  ASSUME NEW a \in Nat, NEW b \in Nat \ {0}
  PROVE  CommonDivisors(a, b) = CommonDivisors(b, a % b)
<1>1. PICK q \in Nat, r \in Nat : r = a % b /\ a = b * q + r
  BY Division
<1>2. ASSUME NEW d \in Nat, Divides(d, b) PROVE Divides(d, a) <=> Divides(d, r)
  <2>1. ASSUME Divides(d, r) PROVE Divides(d, a)
    BY <1>1, <1>2, <2>1, DividesSum
  <2>2. ASSUME Divides(d, a) PROVE Divides(d, r)
    BY <1>1, <1>2, <2>2, DividesRest
  <2> QED
    BY <2>1, <2>2
<1> QED
  BY <1>1, <1>2 DEF CommonDivisors

LEMMA BestOfOne ==
  ASSUME NEW a \in Nat
  PROVE  BestOf(CommonDivisors(a, 0)) = a
<1>1. a \in CommonDivisors(a, 0)
  <2>1. a = a * 1 /\ 1 \in Nat /\ 0 = a * 0 /\ 0 \in Nat
    OBVIOUS
  <2> QED
    BY <2>1 DEF CommonDivisors, Divides
<1>2. \A e \in CommonDivisors(a, 0) : Divides(e, a)
  BY DEF CommonDivisors
<1>3. PICK d : d = BestOf(CommonDivisors(a, 0))
  OBVIOUS
<1>4. d \in CommonDivisors(a, 0) /\ \A e \in CommonDivisors(a, 0) : Divides(e, d)
  BY <1>1, <1>2, <1>3 DEF BestOf
<1>5. d \in Nat /\ Divides(d, a) /\ Divides(a, d)
  BY <1>1, <1>4 DEF CommonDivisors
<1> QED
  BY <1>3, <1>5, DividesEachOther

\* gcd is what its definition says: there is such a function.
LEMMA GcdIs ==
  \A a, b \in Nat : gcd[<<a, b>>] = IF b = 0 THEN a ELSE gcd[<<b, a % b>>]
<1> DEFINE G == [p \in Nat \X Nat |-> BestOf(CommonDivisors(p[1], p[2]))]
<1>1. ASSUME NEW p \in Nat \X Nat
      PROVE  G[p] = IF p[2] = 0 THEN p[1] ELSE G[<<p[2], p[1] % p[2]>>]
  <2>1. PICK a \in Nat, b \in Nat : p = <<a, b>>
    OBVIOUS
  <2>2. G[p] = BestOf(CommonDivisors(a, b))
    BY <2>1
  <2>3. CASE b = 0
    BY <2>1, <2>2, <2>3, BestOfOne
  <2>4. CASE b # 0
    <3>1. PICK r \in Nat : r = a % b
      BY <2>4, Division
    <3>2. G[<<b, r>>] = BestOf(CommonDivisors(b, r))
      OBVIOUS
    <3>3. CommonDivisors(a, b) = CommonDivisors(b, r)
      BY <2>4, <3>1, SameDivisors
    <3> HIDE DEF G
    <3> QED
      BY <2>1, <2>2, <2>4, <3>1, <3>2, <3>3
  <2> HIDE DEF G
  <2> QED
    BY <2>3, <2>4
<1>2. G = [p \in Nat \X Nat |-> IF p[2] = 0 THEN p[1] ELSE G[<<p[2], p[1] % p[2]>>]]
  <2>1. G = [p \in Nat \X Nat |-> G[p]]
    OBVIOUS
  <2> HIDE DEF G
  <2> QED
    BY <1>1, <2>1
<1> HIDE DEF G
<1>3. gcd = [p \in Nat \X Nat |-> IF p[2] = 0 THEN p[1] ELSE gcd[<<p[2], p[1] % p[2]>>]]
  BY <1>2 DEF gcd
<1>4. ASSUME NEW a \in Nat, NEW b \in Nat
      PROVE  gcd[<<a, b>>] = IF b = 0 THEN a ELSE gcd[<<b, a % b>>]
  <2>1. PICK p : p = <<a, b>>
    OBVIOUS
  <2>3. p \in Nat \X Nat /\ p[1] = a /\ p[2] = b
    BY <2>1
  <2>2. gcd[p] = IF p[2] = 0 THEN p[1] ELSE gcd[<<p[2], p[1] % p[2]>>]
    BY <1>3, <2>3
  <2> QED
    BY <2>1, <2>2, <2>3
<1> QED
  BY <1>4

\* It divides both.
LEMMA GcdDivides ==
  ASSUME NEW b \in Nat
  PROVE  \A a \in Nat : /\ gcd[<<a, b>>] \in Nat
                        /\ Divides(gcd[<<a, b>>], a) /\ Divides(gcd[<<a, b>>], b)
<1> DEFINE DividesBoth(n) == \A a \in Nat : /\ gcd[<<a, n>>] \in Nat
                                     /\ Divides(gcd[<<a, n>>], a) /\ Divides(gcd[<<a, n>>], n)
           Failing == {n \in Nat : ~DividesBoth(n)}
<1>1. ASSUME NEW n \in Nat, \A m \in Nat : m < n => DividesBoth(m)
      PROVE  DividesBoth(n)
  <2>1. ASSUME NEW a \in Nat
        PROVE  gcd[<<a, n>>] \in Nat /\ Divides(gcd[<<a, n>>], a) /\ Divides(gcd[<<a, n>>], n)
    <3>1. CASE n = 0
      <4>1. gcd[<<a, n>>] = a
        BY <3>1, GcdIs
      <4>2. a = a * 1 /\ n = a * 0 /\ 0 \in Nat /\ 1 \in Nat
        BY <3>1
      <4> QED
        BY <4>1, <4>2 DEF Divides
    <3>2. CASE n # 0
      <4>1. PICK q \in Nat, r \in Nat : r = a % n /\ r < n /\ a = n * q + r
        BY <3>2, Division
      <4>2. PICK g : g = gcd[<<n, r>>]
        OBVIOUS
      <4>3. gcd[<<a, n>>] = g
        BY <3>2, <4>1, <4>2, GcdIs
      <4>4. g \in Nat /\ Divides(g, n) /\ Divides(g, r)
        BY <1>1, <4>1, <4>2
      <4>5. Divides(g, a)
        BY <4>1, <4>4, DividesSum
      <4> QED
        BY <4>3, <4>4, <4>5
    <3> QED
      BY <3>1, <3>2
  <2> QED
    BY <2>1
<1> HIDE DEF DividesBoth
<1>2. Failing = {}
  <2> SUFFICES ASSUME Failing # {} PROVE FALSE
    OBVIOUS
  <2>1. Failing \subseteq Nat
    OBVIOUS
  <2>2. PICK n \in Failing : \A m \in Failing : n <= m
    BY ONLY Failing # {}, <2>1, LeastOf
  <2>3. \A m \in Nat : m < n => DividesBoth(m)
    BY <2>2
  <2> QED
    BY <1>1, <2>2, <2>3
<1>3. DividesBoth(b)
  BY <1>2
<1> QED
  BY <1>3 DEF DividesBoth

\* What is left when both are divided by it is the same fraction.
LEMMA LowestIs ==
  ASSUME NEW n \in Int, NEW d \in Nat \ {0}
  PROVE  /\ Lowest(n, d)[1] \in Int /\ Lowest(n, d)[2] \in Nat \ {0}
         /\ Lowest(n, d)[1] * d = n * Lowest(n, d)[2]
<1>1. PICK a \in Nat : a = Abs(n) /\ (n = a \/ n = -a)
  <2>1. Abs(n) \in Nat /\ (n = Abs(n) \/ n = -Abs(n))
    BY DEF Abs
  <2> QED
    BY <2>1
<1>2. PICK g \in Nat : g = gcd[<<a, d>>] /\ Divides(g, a) /\ Divides(g, d)
  BY GcdDivides
<1>3. PICK k \in Nat : a = g * k
  BY <1>2 DEF Divides
<1>4. PICK l \in Nat : d = g * l
  BY <1>2 DEF Divides
<1>5. g # 0 /\ l # 0
  BY <1>4
<1>6. d \div g = l
  BY <1>4, <1>5
<1>7. PICK m \in Int : n = g * m
  <2>1. a = g * k /\ -a = g * (-k)
    BY <1>3
  <2>2. k \in Int /\ -k \in Int
    OBVIOUS
  <2> QED
    BY <1>1, <2>1, <2>2
<1>8. n \div g = m
  BY <1>5, <1>7
<1>9. Lowest(n, d) = <<m, l>>
  BY <1>1, <1>2, <1>6, <1>8 DEF Lowest
<1>10. m * d = n * l
  <2>1. m * (g * l) = (g * m) * l
    OBVIOUS
  <2> QED
    BY <1>4, <1>7, <2>1
<1> QED
  BY <1>5, <1>9, <1>10

---------------------------------------------------------------------------
(* Filters: what the operations on fractions yield                         *)

\* The fraction f equals n / d.
Is(f, n, d) == f[1] \in Int /\ f[2] \in Nat \ {0} /\ f[1] * d = n * f[2]

LEMMA TimesPositive ==
  ASSUME NEW x \in Nat \ {0}, NEW y \in Nat \ {0} PROVE x * y \in Nat \ {0}
OBVIOUS

LEMMA SameFactor ==
  ASSUME NEW x \in Int, NEW y \in Int, NEW d \in Nat \ {0}, x * d = y * d
  PROVE  x = y
<1>1. PICK e \in Int : e = x - y
  OBVIOUS
<1>2. e * d = x * d - y * d
  BY <1>1
<1>3. e * d = 0
  BY <1>2
<1>4. CASE e > 0
  <2>1. PICK h \in Nat : e = h + 1
    <3>1. e - 1 \in Nat /\ e = (e - 1) + 1
      BY <1>4
    <3> QED
      BY <3>1
  <2>2. e * d = h * d + d /\ h * d \in Nat
    BY <2>1
  <2> QED
    BY <1>3, <2>2
<1>5. CASE e < 0
  <2>1. PICK h \in Nat : e = -(h + 1)
    <3>1. -e - 1 \in Nat /\ e = -((-e - 1) + 1)
      BY <1>5
    <3> QED
      BY <3>1
  <2>2. e * d = -(h * d) - d /\ h * d \in Nat
    BY <2>1
  <2> QED
    BY <1>3, <2>2
<1> QED
  BY <1>1, <1>4, <1>5

LEMMA FactorKeepsOrder ==
  ASSUME NEW x \in Int, NEW y \in Int, NEW d \in Nat \ {0}
  PROVE  (x <= y <=> x * d <= y * d) /\ (x < y <=> x * d < y * d)
<1>1. ASSUME x <= y PROVE x * d <= y * d
  <2>1. PICK h \in Nat : y = x + h
    <3>1. y - x \in Nat /\ y = x + (y - x)
      BY <1>1
    <3> QED
      BY <3>1
  <2>2. y * d = x * d + h * d /\ h * d \in Nat
    BY <2>1
  <2>3. x * d \in Int
    OBVIOUS
  <2> QED
    BY <2>2, <2>3
<1>2. ASSUME y < x PROVE y * d < x * d
  <2>1. PICK h \in Nat : x = y + h + 1
    <3>1. x - y - 1 \in Nat /\ x = y + (x - y - 1) + 1
      BY <1>2
    <3> QED
      BY <3>1
  <2>2. x * d = y * d + h * d + d /\ h * d \in Nat
    BY <2>1
  <2>3. y * d \in Int
    OBVIOUS
  <2> QED
    BY <2>2, <2>3
<1>3. ASSUME x < y PROVE x * d < y * d
  <2>1. PICK h \in Nat : y = x + h + 1
    <3>1. y - x - 1 \in Nat /\ y = x + (y - x - 1) + 1
      BY <1>3
    <3> QED
      BY <3>1
  <2>2. y * d = x * d + h * d + d /\ h * d \in Nat
    BY <2>1
  <2>3. x * d \in Int
    OBVIOUS
  <2> QED
    BY <2>2, <2>3
<1>4. x * d \in Int /\ y * d \in Int
  OBVIOUS
<1>5. x < y \/ x = y \/ y < x
  OBVIOUS
<1>6. CASE x < y
  BY <1>1, <1>3, <1>4, <1>6
<1>7. CASE x = y
  BY <1>4, <1>7
<1>8. CASE y < x
  BY <1>2, <1>4, <1>8
<1> QED
  BY <1>5, <1>6, <1>7, <1>8

LEMMA IsWhole ==
  ASSUME NEW x \in Int PROVE Is(<<x, 1>>, x, 1)
BY DEF Is

\* The same value over another denominator.
LEMMA IsScaled ==
  ASSUME NEW f, NEW n \in Int, NEW d \in Nat \ {0}, NEW m \in Int, NEW e \in Nat \ {0},
         Is(f, n, d), n * e = m * d
  PROVE  Is(f, m, e)
<1>1. PICK a \in Int, b \in Nat \ {0} : a = f[1] /\ b = f[2] /\ a * d = n * b
  BY DEF Is
<1>2. (a * e) * d = (a * d) * e
  OBVIOUS
<1>3. (n * b) * e = (n * e) * b
  OBVIOUS
<1>4. (m * d) * b = (m * b) * d
  OBVIOUS
<1>5. (a * e) * d = (m * b) * d
  BY <1>1, <1>2, <1>3, <1>4
<1>6. a * e \in Int /\ m * b \in Int
  OBVIOUS
<1>7. a * e = m * b
  BY <1>5, <1>6, SameFactor
<1> QED
  BY <1>1, <1>7 DEF Is

LEMMA IsLowest ==
  ASSUME NEW n \in Int, NEW d \in Nat \ {0} PROVE Is(Lowest(n, d), n, d)
BY LowestIs DEF Is

LEMMA IsPlus ==
  ASSUME NEW a, NEW b, NEW n \in Int, NEW d \in Nat \ {0}, NEW m \in Int, NEW e \in Nat \ {0},
         Is(a, n, d), Is(b, m, e)
  PROVE  Is(Plus(a, b), n * e + m * d, d * e)
<1>1. PICK a1 \in Int, a2 \in Nat \ {0} : a1 = a[1] /\ a2 = a[2] /\ a1 * d = n * a2
  BY DEF Is
<1>2. PICK b1 \in Int, b2 \in Nat \ {0} : b1 = b[1] /\ b2 = b[2] /\ b1 * e = m * b2
  BY DEF Is
<1>3. PICK x, y : x = a1 * b2 + b1 * a2 /\ y = a2 * b2
  OBVIOUS
<1>4. x \in Int /\ y \in Nat \ {0}
  BY <1>3, TimesPositive
<1>5. Plus(a, b) = Lowest(x, y)
  BY <1>1, <1>2, <1>3 DEF Plus
<1>6. Is(Plus(a, b), x, y)
  BY <1>4, <1>5, IsLowest
<1>7. PICK v, w : v = n * e + m * d /\ w = d * e
  OBVIOUS
<1>8. v \in Int /\ w \in Nat \ {0}
  BY <1>7, TimesPositive
<1>9. x * w = v * y
  <2>1. x * w = (a1 * d) * (b2 * e) + (b1 * e) * (a2 * d)
    BY <1>3, <1>7
  <2>2. v * y = (n * a2) * (b2 * e) + (m * b2) * (a2 * d)
    BY <1>3, <1>7
  <2> QED
    BY <1>1, <1>2, <2>1, <2>2
<1>10. Is(Plus(a, b), v, w)
  BY <1>4, <1>6, <1>8, <1>9, IsScaled
<1> QED
  BY <1>7, <1>10

LEMMA IsLess ==
  ASSUME NEW a, NEW b, NEW n \in Int, NEW d \in Nat \ {0}, NEW m \in Int, NEW e \in Nat \ {0},
         Is(a, n, d), Is(b, m, e)
  PROVE  Is(Less(a, b), n * e - m * d, d * e)
<1>1. PICK a1 \in Int, a2 \in Nat \ {0} : a1 = a[1] /\ a2 = a[2] /\ a1 * d = n * a2
  BY DEF Is
<1>2. PICK b1 \in Int, b2 \in Nat \ {0} : b1 = b[1] /\ b2 = b[2] /\ b1 * e = m * b2
  BY DEF Is
<1>3. PICK x, y : x = a1 * b2 - b1 * a2 /\ y = a2 * b2
  OBVIOUS
<1>4. x \in Int /\ y \in Nat \ {0}
  BY <1>3, TimesPositive
<1>5. Less(a, b) = Lowest(x, y)
  BY <1>1, <1>2, <1>3 DEF Less
<1>6. Is(Less(a, b), x, y)
  BY <1>4, <1>5, IsLowest
<1>7. PICK v, w : v = n * e - m * d /\ w = d * e
  OBVIOUS
<1>8. v \in Int /\ w \in Nat \ {0}
  BY <1>7, TimesPositive
<1>9. x * w = v * y
  <2>1. x * w = (a1 * d) * (b2 * e) - (b1 * e) * (a2 * d)
    BY <1>3, <1>7
  <2>2. v * y = (n * a2) * (b2 * e) - (m * b2) * (a2 * d)
    BY <1>3, <1>7
  <2> QED
    BY <1>1, <1>2, <2>1, <2>2
<1>10. Is(Less(a, b), v, w)
  BY <1>4, <1>6, <1>8, <1>9, IsScaled
<1> QED
  BY <1>7, <1>10

LEMMA IsProduct ==
  ASSUME NEW a, NEW b, NEW n \in Int, NEW d \in Nat \ {0}, NEW m \in Int, NEW e \in Nat \ {0},
         Is(a, n, d), Is(b, m, e)
  PROVE  Is(Product(a, b), n * m, d * e)
<1>1. PICK a1 \in Int, a2 \in Nat \ {0} : a1 = a[1] /\ a2 = a[2] /\ a1 * d = n * a2
  BY DEF Is
<1>2. PICK b1 \in Int, b2 \in Nat \ {0} : b1 = b[1] /\ b2 = b[2] /\ b1 * e = m * b2
  BY DEF Is
<1>3. PICK x, y : x = a1 * b1 /\ y = a2 * b2
  OBVIOUS
<1>4. x \in Int /\ y \in Nat \ {0}
  BY <1>3, TimesPositive
<1>5. Product(a, b) = Lowest(x, y)
  BY <1>1, <1>2, <1>3 DEF Product
<1>6. Is(Product(a, b), x, y)
  BY <1>4, <1>5, IsLowest
<1>7. PICK v, w : v = n * m /\ w = d * e
  OBVIOUS
<1>8. v \in Int /\ w \in Nat \ {0}
  BY <1>7, TimesPositive
<1>9. x * w = v * y
  <2>1. x * w = (a1 * d) * (b1 * e)
    BY <1>3, <1>7
  <2>2. v * y = (n * a2) * (m * b2)
    BY <1>3, <1>7
  <2> QED
    BY <1>1, <1>2, <2>1, <2>2
<1>10. Is(Product(a, b), v, w)
  BY <1>4, <1>6, <1>8, <1>9, IsScaled
<1> QED
  BY <1>7, <1>10

LEMMA IsPositive ==
  ASSUME NEW f, NEW n \in Int, NEW d \in Nat \ {0}, Is(f, n, d), n > 0
  PROVE  f[1] \in Nat \ {0}
<1>1. PICK a \in Int, b \in Nat \ {0} : a = f[1] /\ b = f[2] /\ a * d = n * b
  BY DEF Is
<1>2. n \in Nat \ {0}
  OBVIOUS
<1>3. n * b \in Nat \ {0}
  BY <1>2, TimesPositive
<1>4. a * d > 0 * d
  BY <1>1, <1>3
<1>5. a > 0
  BY <1>4, FactorKeepsOrder
<1> QED
  BY <1>1, <1>5

LEMMA IsOver ==
  ASSUME NEW a, NEW b, NEW n \in Int, NEW d \in Nat \ {0}, NEW m \in Nat \ {0}, NEW e \in Nat \ {0},
         Is(a, n, d), Is(b, m, e)
  PROVE  Is(Over(a, b), n * e, d * m)
<1>1. PICK a1 \in Int, a2 \in Nat \ {0} : a1 = a[1] /\ a2 = a[2] /\ a1 * d = n * a2
  BY DEF Is
<1>2. PICK b1 \in Nat \ {0}, b2 \in Nat \ {0} : b1 = b[1] /\ b2 = b[2] /\ b1 * e = m * b2
  <2>1. b[1] \in Nat \ {0}
    BY IsPositive
  <2> QED
    BY <2>1 DEF Is
<1>3. PICK x, y : x = a1 * b2 /\ y = a2 * b1
  OBVIOUS
<1>4. x \in Int /\ y \in Nat \ {0}
  BY <1>3, TimesPositive
<1>5. Over(a, b) = Lowest(x, y)
  BY <1>1, <1>2, <1>3 DEF Over
<1>6. Is(Over(a, b), x, y)
  BY <1>4, <1>5, IsLowest
<1>7. PICK v, w : v = n * e /\ w = d * m
  OBVIOUS
<1>8. v \in Int /\ w \in Nat \ {0}
  BY <1>7, TimesPositive
<1>9. x * w = v * y
  <2>1. x * w = (a1 * d) * (b2 * m)
    BY <1>3, <1>7
  <2>2. v * y = (n * a2) * (b1 * e)
    BY <1>3, <1>7
  <2>3. b2 * m = m * b2
    OBVIOUS
  <2> QED
    BY <1>1, <1>2, <2>1, <2>2, <2>3
<1>10. Is(Over(a, b), v, w)
  BY <1>4, <1>6, <1>8, <1>9, IsScaled
<1> QED
  BY <1>7, <1>10

LEMMA IsSame ==
  ASSUME NEW a, NEW b, NEW n \in Int, NEW d \in Nat \ {0}, Is(a, n, d), Is(b, n, d)
  PROVE  Same(a, b)
<1>1. PICK a1 \in Int, a2 \in Nat \ {0} : a1 = a[1] /\ a2 = a[2] /\ a1 * d = n * a2
  BY DEF Is
<1>2. PICK b1 \in Int, b2 \in Nat \ {0} : b1 = b[1] /\ b2 = b[2] /\ b1 * d = n * b2
  BY DEF Is
<1>3. (a1 * b2) * d = (a1 * d) * b2 /\ (b1 * a2) * d = (b1 * d) * a2
  OBVIOUS
<1>4. (n * a2) * b2 = (n * b2) * a2
  OBVIOUS
<1>5. (a1 * b2) * d = (b1 * a2) * d
  BY <1>1, <1>2, <1>3, <1>4
<1>6. a1 * b2 \in Int /\ b1 * a2 \in Int
  OBVIOUS
<1>7. a1 * b2 = b1 * a2
  BY <1>5, <1>6, SameFactor
<1> QED
  BY <1>1, <1>2, <1>7 DEF Same

\* A whole number compared with n / d compares the same with the fraction.
LEMMA IsOrdered ==
  ASSUME NEW f, NEW n \in Int, NEW d \in Nat \ {0}, NEW l \in Int, Is(f, n, d)
  PROVE  /\ l * d <= n => l * f[2] <= f[1]
         /\ n <= l * d => f[1] <= l * f[2]
         /\ n < l * d => f[1] < l * f[2]
<1>1. PICK a \in Int, b \in Nat \ {0} : a = f[1] /\ b = f[2] /\ a * d = n * b
  BY DEF Is
<1>2. PICK x \in Int, y \in Int : x = l * d /\ y = l * b
  OBVIOUS
<1>3. y * d = x * b
  <2>1. (l * b) * d = (l * d) * b
    OBVIOUS
  <2> QED
    BY <1>2, <2>1
<1>4. (x <= n <=> x * b <= n * b) /\ (n <= x <=> n * b <= x * b) /\ (n < x <=> n * b < x * b)
  BY <1>2, FactorKeepsOrder
<1>5. (y <= a <=> y * d <= a * d) /\ (a <= y <=> a * d <= y * d) /\ (a < y <=> a * d < y * d)
  BY <1>2, FactorKeepsOrder
<1>6. (x <= n <=> y <= a) /\ (n <= x <=> a <= y) /\ (n < x <=> a < y)
  BY <1>1, <1>3, <1>4, <1>5
<1> QED
  BY <1>1, <1>2, <1>6

---------------------------------------------------------------------------
(* Filters: a step of the Kalman filter                                    *)

KalmanIs(f, est, cov, q, r) == f = [estimate |-> est, covariance |-> cov, q |-> q, r |-> r]

\* The covariance c / d is predicted to be P / d, and that of the difference K / d.
Predicted(c, d, q, r, P, K) == P = c + q * d /\ K = P + r * d

\* What measuring z makes of the estimate e / g.
Measured(f, z, q, r, e, g, P, K) ==
  \E est, cov : /\ KalmanIs(Updated(f, z), est, cov, q, r)
                /\ Is(cov, r * P, K)
                /\ Is(est, P * z * g + (K - P) * e, g * K)

\* Measuring z with the estimate e / g and the covariance c / d.
LEMMA KalmanStep ==
  ASSUME NEW f, NEW est, NEW cov, NEW q \in Nat, NEW r \in Nat \ {0}, NEW z \in Int,
         KalmanIs(f, est, cov, q, r),
         NEW c \in Nat, NEW d \in Nat \ {0}, Is(cov, c, d),
         NEW e \in Int, NEW g \in Nat \ {0}, Is(est, e, g),
         NEW P, NEW K, Predicted(c, d, q, r, P, K)
  PROVE  /\ P \in Nat /\ (c > 0 => P > 0) /\ K \in Nat \ {0} /\ P <= K
         /\ Measured(f, z, q, r, e, g, P, K)
<1>0. P = c + q * d /\ K = P + r * d /\ f = [estimate |-> est, covariance |-> cov, q |-> q, r |-> r]
  BY DEF Predicted, KalmanIs
<1>2. P \in Nat /\ (c > 0 => P > 0)
  <2>1. q * d \in Nat
    OBVIOUS
  <2> QED
    BY <1>0, <2>1
<1>3. r * d \in Nat \ {0}
  BY TimesPositive
<1>4. K \in Nat \ {0} /\ K = P + r * d /\ P <= K
  BY <1>0, <1>2, <1>3
<1>5. PICK predicted : predicted = Plus(cov, <<q, 1>>)
  OBVIOUS
<1>6. Is(predicted, P, d)
  <2>1. Is(<<q, 1>>, q, 1) /\ q \in Int /\ c \in Int /\ 1 \in Nat \ {0}
    BY IsWhole
  <2>2. Is(predicted, c * 1 + q * d, d * 1)
    BY ONLY <1>5, <2>1, Is(cov, c, d), d \in Nat \ {0}, IsPlus
  <2>3. c * 1 + q * d = P /\ d * 1 = d
    BY <1>0
  <2> QED
    BY <2>2, <2>3
<1>7. PICK total : total = Plus(predicted, <<r, 1>>)
  OBVIOUS
<1>8. Is(total, K, d)
  <2>1. Is(<<r, 1>>, r, 1) /\ r \in Int /\ P \in Int /\ 1 \in Nat \ {0}
    BY <1>2, IsWhole
  <2>2. Is(total, P * 1 + r * d, d * 1)
    BY ONLY <1>6, <1>7, <2>1, d \in Nat \ {0}, IsPlus
  <2>3. P * 1 + r * d = K /\ d * 1 = d
    BY <1>2, <1>4
  <2> QED
    BY <2>2, <2>3
<1>9. PICK gain : gain = Over(predicted, total)
  OBVIOUS
<1>10. Is(gain, P, K)
  <2>1. P \in Int /\ d * K \in Nat \ {0} /\ P * d \in Int
    BY <1>2, <1>4, TimesPositive
  <2>2. Is(gain, P * d, d * K)
    BY ONLY <1>4, <1>6, <1>8, <1>9, <2>1, d \in Nat \ {0}, IsOver
  <2>3. (P * d) * K = P * (d * K)
    BY <1>2, <1>4
  <2> QED
    BY ONLY <1>4, <2>1, <2>2, <2>3, IsScaled
<1>11. PICK rest : rest = Less(<<1, 1>>, gain)
  OBVIOUS
<1>12. Is(rest, K - P, K)
  <2>1. Is(<<1, 1>>, 1, 1) /\ 1 \in Int /\ 1 \in Nat \ {0} /\ P \in Int
    BY <1>2, IsWhole
  <2>2. Is(rest, 1 * K - P * 1, 1 * K)
    BY ONLY <1>4, <1>10, <1>11, <2>1, IsLess
  <2>3. 1 * K - P * 1 = K - P /\ 1 * K = K
    BY <1>2, <1>4
  <2> QED
    BY <2>2, <2>3
<1>13. PICK cov2 : cov2 = Product(rest, predicted)
  OBVIOUS
<1>14. Is(cov2, r * P, K)
  <2>1. P \in Int /\ K - P \in Int /\ K * d \in Nat \ {0} /\ (K - P) * P \in Int /\ r * P \in Int
    BY <1>2, <1>4, TimesPositive
  <2>2. Is(cov2, (K - P) * P, K * d)
    BY ONLY <1>4, <1>6, <1>12, <1>13, <2>1, d \in Nat \ {0}, IsProduct
  <2>3. ((K - P) * P) * K = (r * P) * (K * d)
    <3>1. K - P = r * d
      BY <1>2, <1>3, <1>4
    <3>2. ((r * d) * P) * K = (r * P) * (K * d)
      BY <1>2, <1>4
    <3> QED
      BY <3>1, <3>2
  <2> QED
    BY ONLY <1>4, <2>1, <2>2, <2>3, IsScaled
<1>15. PICK off : off = Less(<<z, 1>>, est)
  OBVIOUS
<1>16. Is(off, z * g - e, g)
  <2>1. Is(<<z, 1>>, z, 1) /\ z \in Int /\ e \in Int /\ 1 \in Nat \ {0}
    BY IsWhole
  <2>2. Is(off, z * g - e * 1, 1 * g)
    BY ONLY <1>15, <2>1, Is(est, e, g), g \in Nat \ {0}, IsLess
  <2>3. z * g - e * 1 = z * g - e /\ 1 * g = g
    OBVIOUS
  <2> QED
    BY <2>2, <2>3
<1>17. PICK shift : shift = Product(gain, off)
  OBVIOUS
<1>18. PICK w \in Int : w = z * g - e
  OBVIOUS
<1>19. Is(shift, P * w, K * g)
  <2>1. P \in Int /\ Is(off, w, g)
    BY <1>2, <1>16, <1>18
  <2> QED
    BY ONLY <1>4, <1>10, <1>17, <2>1, w \in Int, g \in Nat \ {0}, IsProduct
<1>20. PICK est2 : est2 = Plus(est, shift)
  OBVIOUS
<1>21. Is(est2, P * z * g + (K - P) * e, g * K)
  <2>1. PICK G \in Nat \ {0}, m \in Int : G = K * g /\ m = P * w
    BY <1>2, <1>4, TimesPositive
  <2>2. Is(shift, m, G)
    BY <1>19, <2>1
  <2>3. Is(est2, e * G + m * g, g * G)
    BY ONLY <1>20, <2>1, <2>2, Is(est, e, g), g \in Nat \ {0}, e \in Int, IsPlus
  <2>4. PICK x \in Int, y \in Nat \ {0} : x = P * z * g + (K - P) * e /\ y = g * K
    <3>1. P * z * g + (K - P) * e \in Int
      BY <1>2, <1>4
    <3> QED
      BY <1>4, <3>1, TimesPositive
  <2>5. e * G + m * g \in Int /\ g * G \in Nat \ {0}
    BY TimesPositive
  <2>6. e * G + m * g = g * x
    <3>1. e * G = g * (e * K)
      BY <1>4, <2>1
    <3>7. P \in Int /\ K \in Int /\ m = P * w
      BY <1>2, <1>4, <2>1
    <3>8. PICK v \in Int : v = z * g
      OBVIOUS
    <3>2. m = P * z * g - P * e
      <4>1. P * z * g = P * v
        BY <3>7, <3>8
      <4>2. P * (v - e) = P * v - P * e
        BY <3>7
      <4> QED
        BY <1>18, <3>7, <3>8, <4>1, <4>2
    <3>3. x = P * z * g + K * e - P * e
      <4>1. (K - P) * e = K * e - P * e
        BY <3>7
      <4>2. P * z * g \in Int /\ K * e \in Int /\ P * e \in Int
        BY <3>7
      <4>3. x = P * z * g + (K - P) * e
        BY <2>4
      <4> QED
        BY ONLY <4>1, <4>2, <4>3
    <3>4. PICK a \in Int, b \in Int, h \in Int : a = P * z * g /\ b = P * e /\ h = K * e
      BY <1>2, <1>4
    <3>9. m = a - b /\ x = a + h - b
      BY <3>2, <3>3, <3>4
    <3>10. e * K = h
      BY <3>4, <3>7
    <3>11. m * g = g * (a - b)
      BY <3>9
    <3>5. m * g = g * (a - b) /\ e * K = h /\ x = a + h - b
      BY <3>9, <3>10, <3>11
    <3>6. g * h + g * (a - b) = g * (a + h - b)
      OBVIOUS
    <3> QED
      BY <3>1, <3>5, <3>6
  <2>7. (e * G + m * g) * y = x * (g * G)
    <3>5. x \in Int /\ g \in Int
      OBVIOUS
    <3>6. K \in Int
      BY <1>4
    <3>7. y = g * K
      BY <2>4
    <3>3. x \in Int /\ g \in Int /\ K \in Int /\ y = g * K
      BY <3>5, <3>6, <3>7
    <3>4. (g * x) * (g * K) = x * (g * (g * K))
      BY ONLY <3>3
    <3>1. (g * x) * y = x * (g * (g * K))
      BY <3>3, <3>4
    <3>2. g * (g * K) = g * G
      BY <1>4, <2>1
    <3> QED
      BY <2>6, <3>1, <3>2
  <2>8. Is(est2, x, y)
    BY ONLY <2>3, <2>4, <2>5, <2>7, IsScaled
  <2> QED
    BY <2>4, <2>8
<1>22. Updated(f, z) = [estimate |-> est2, covariance |-> cov2, q |-> q, r |-> r]
  <2>1. f.estimate = est /\ f.covariance = cov /\ f.q = q /\ f.r = r
    BY <1>0
  <2>2. Updated(f, z) = [f EXCEPT !.estimate = est2, !.covariance = cov2]
    BY <1>5, <1>7, <1>9, <1>11, <1>13, <1>15, <1>17, <1>20, <2>1 DEF Updated
  <2> QED
    BY <1>0, <2>2
<1>23. Measured(f, z, q, r, e, g, P, K)
  BY <1>14, <1>21, <1>22 DEF Measured, KalmanIs
<1> QED
  BY <1>2, <1>4, <1>23

Between(f, T) == \E lo, hi \in T : lo * f[2] <= f[1] /\ f[1] <= hi * f[2]

\* Without process noise, from the estimate e / g with the covariance c / d: n more
\* measurements with the sum S are weighed in.
Weighed(est, cov, e, g, c, d, r, n, S) ==
  /\ Is(cov, c * r, r * d + n * c)
  /\ Is(est, e * (r * d) + g * (c * S), g * (r * d + n * c))

\* The filter's state after the inputs s since it had the estimate a, of which m came
\* since it had e / g and c / d.
KalmanState(est, cov, q, r, a, s) ==
  /\ est[1] \in Int /\ est[2] \in Nat \ {0} /\ cov[1] \in Nat /\ cov[2] \in Nat \ {0}
  /\ Between(est, {a} \union ToSet(s))
KalmanSince(est, cov, q, r, e, g, c, d, m) ==
  /\ c > 0 => cov[1] > 0
  /\ m # <<>> => cov[1] < r * cov[2]
  /\ q = 0 => Weighed(est, cov, e, g, c, d, r, Len(m), SumOf(m))

LEMMA KalmanStarts ==
  ASSUME NEW est, NEW cov, NEW q, NEW r \in Nat \ {0},
         NEW e \in Int, NEW g \in Nat \ {0}, NEW c \in Nat, NEW d \in Nat \ {0},
         e = est[1], g = est[2], c = cov[1], d = cov[2]
  PROVE  KalmanSince(est, cov, q, r, e, g, c, d, <<>>)
<1>1. Len(<<>>) = 0 /\ SumOf(<<>>) = 0
  BY SumOfNone
<1>2. PICK w \in Nat \ {0} : w = r * d
  BY TimesPositive
<1>3. r * d + 0 * c = w /\ e * (r * d) + g * (c * 0) = e * w
  <2>1. 0 * c = 0 /\ c * 0 = 0 /\ g * 0 = 0 /\ e * w \in Int
    OBVIOUS
  <2> QED
    BY <1>2, <2>1
<1>4. Is(cov, c * r, w)
  <2>1. c * (r * d) = (c * r) * d
    OBVIOUS
  <2> QED
    BY <1>2, <2>1 DEF Is
<1>5. Is(est, e * w, g * w)
  <2>1. e * (g * w) = (e * w) * g
    OBVIOUS
  <2> QED
    BY <2>1 DEF Is
<1>6. Weighed(est, cov, e, g, c, d, r, 0, 0)
  BY <1>3, <1>4, <1>5 DEF Weighed
<1> QED
  BY <1>1, <1>6 DEF KalmanSince

\* What is mixed of a value and of z lies between them.
LEMMA BetweenMixed ==
  ASSUME NEW T, T \subseteq Int, NEW z \in Int, NEW e \in Int, NEW g \in Nat \ {0},
         \E lo, hi \in T : lo * g <= e /\ e <= hi * g,
         NEW P \in Nat, NEW K \in Nat, P <= K
  PROVE  \E lo, hi \in T \union {z} :
           lo * (g * K) <= P * z * g + (K - P) * e /\ P * z * g + (K - P) * e <= hi * (g * K)
<1>1. PICK lo \in T, hi \in T : lo * g <= e /\ e <= hi * g
  OBVIOUS
<1>2. lo \in Int /\ hi \in Int
  OBVIOUS
<1>3. PICK x : x = P * z * g + (K - P) * e
  OBVIOUS
<1>4. \E l \in T \union {z} : l * (g * K) <= x
  <2>1. CASE lo <= z
    BY <1>1, <1>2, <1>3, <2>1, MixLow
  <2>2. CASE ~(lo <= z)
    <3>1. z * g <= lo * g
      BY <1>2, <2>2, FactorKeepsOrder
    <3>2. z * g <= e
      BY <1>1, <1>2, <3>1
    <3>3. z * (g * K) <= x
      BY <1>3, <3>2, MixLow
    <3> QED
      BY <3>3
  <2> QED
    BY <2>1, <2>2
<1>5. \E h \in T \union {z} : x <= h * (g * K)
  <2>1. CASE z <= hi
    BY <1>1, <1>2, <1>3, <2>1, MixHigh
  <2>2. CASE ~(z <= hi)
    <3>1. hi * g <= z * g
      BY <1>2, <2>2, FactorKeepsOrder
    <3>2. e <= z * g
      BY <1>1, <1>2, <3>1
    <3>3. x <= z * (g * K)
      BY <1>3, <3>2, MixHigh
    <3> QED
      BY <3>3
  <2> QED
    BY <2>1, <2>2
<1> QED
  BY <1>3, <1>4, <1>5

LEMMA BetweenIs ==
  ASSUME NEW f, NEW n \in Int, NEW d \in Nat \ {0}, Is(f, n, d), NEW T, T \subseteq Int,
         \E lo, hi \in T : lo * d <= n /\ n <= hi * d
  PROVE  Between(f, T)
<1>1. PICK lo \in T, hi \in T : lo * d <= n /\ n <= hi * d
  OBVIOUS
<1>2. lo \in Int /\ hi \in Int
  OBVIOUS
<1>3. lo * f[2] <= f[1] /\ f[1] <= hi * f[2]
  BY <1>1, <1>2, IsOrdered
<1> QED
  BY <1>3 DEF Between

LEMMA WeighedMoves ==
  ASSUME NEW e \in Int, NEW g \in Nat \ {0}, NEW c \in Nat, NEW d \in Nat \ {0}, NEW r \in Nat \ {0},
         NEW n \in Nat, NEW S \in Int, NEW z \in Int,
         NEW est, NEW cov, NEW f, KalmanIs(f, est, cov, 0, r), Weighed(est, cov, e, g, c, d, r, n, S)
  PROVE  \E est2, cov2 : /\ KalmanIs(Updated(f, z), est2, cov2, 0, r)
                         /\ Weighed(est2, cov2, e, g, c, d, r, n + 1, S + z)
<1>1. PICK w \in Nat \ {0} : w = r * d
  BY TimesPositive
<1>2. PICK W, V : W = w + n * c /\ V = w + (n + 1) * c
  OBVIOUS
<1>3. W \in Nat \ {0} /\ V \in Nat \ {0} /\ V = W + c
  <2>1. n * c \in Nat /\ (n + 1) * c = n * c + c
    OBVIOUS
  <2> QED
    BY <1>2, <2>1
<1>4. PICK k \in Nat : k = c * r
  OBVIOUS
<1>5. PICK E \in Int : E = e * w + g * (c * S)
  OBVIOUS
<1>6. PICK G \in Nat \ {0} : G = g * W
  BY <1>3, TimesPositive
<1>7. Is(cov, k, W) /\ Is(est, E, G)
  BY <1>1, <1>2, <1>4, <1>5, <1>6 DEF Weighed
<1>8. PICK P, K : P = k + 0 * W /\ K = P + r * W
  OBVIOUS
<1>9. PICK est2, cov2 : /\ KalmanIs(Updated(f, z), est2, cov2, 0, r)
                        /\ Is(cov2, r * P, K)
                        /\ Is(est2, P * z * G + (K - P) * E, G * K)
  <2>1. 0 \in Nat /\ k \in Nat /\ E \in Int /\ G \in Nat \ {0} /\ z \in Int /\ r \in Nat \ {0}
        /\ KalmanIs(f, est, cov, 0, r)
    OBVIOUS
  <2>2. Predicted(k, W, 0, r, P, K)
    BY <1>8 DEF Predicted
  <2>3. Measured(f, z, 0, r, E, G, P, K)
    BY ONLY <1>3, <1>7, <2>1, <2>2, KalmanStep
  <2> QED
    BY <2>3 DEF Measured
<1>10. P = k /\ K = r * V /\ K - P = r * W
  <2>1. P = k
    BY <1>3, <1>8
  <2>2. K = k + r * W
    BY <1>8, <2>1
  <2>3. r * V = r * W + r * c
    BY <1>3
  <2>4. r * c = k
    BY <1>4
  <2>5. r * W \in Nat
    BY <1>3
  <2> QED
    BY <2>1, <2>2, <2>3, <2>4, <2>5
<1>11. Is(cov2, k, V)
  <2>1. r * k \in Int /\ r * V \in Nat \ {0} /\ k \in Int
    BY <1>3, TimesPositive
  <2>2. Is(cov2, r * k, r * V)
    BY <1>9, <1>10
  <2>3. (r * k) * V = k * (r * V)
    BY <1>3
  <2> QED
    BY ONLY <1>3, <2>1, <2>2, <2>3, IsScaled
<1>12. PICK h \in Int : h = E + g * (c * z)
  OBVIOUS
<1>13. PICK H \in Nat \ {0} : H = g * V
  BY <1>3, TimesPositive
<1>14. Is(est2, h, H)
  <2>1. PICK x \in Int, y \in Nat \ {0} : x = k * z * G + (r * W) * E /\ y = G * (r * V)
    <3>1. k * z * G + (r * W) * E \in Int
      BY <1>3
    <3>2. G * (r * V) \in Nat \ {0}
      BY <1>3, TimesPositive
    <3> QED
      BY <3>1, <3>2
  <2>2. Is(est2, x, y)
    BY <1>9, <1>10, <2>1
  <2>3. PICK rW \in Int : rW = r * W
    BY <1>3
  <2>4. x = rW * h
    <3>1. k * z * G = (c * r) * z * (g * W)
      BY <1>4, <1>6
    <3>2. PICK m \in Int : m = c * z
      OBVIOUS
    <3>3. (c * r) * z * (g * W) = (r * W) * (g * (c * z))
      BY <1>3
    <3>4. k * z * G = rW * (g * m)
      BY <2>3, <3>1, <3>2, <3>3
    <3>5. PICK y1 \in Int : y1 = g * m
      OBVIOUS
    <3>6. h = E + y1
      BY <1>12, <3>2, <3>5
    <3>7. x = rW * y1 + rW * E
      BY <2>1, <2>3, <3>4, <3>5
    <3>8. rW * (E + y1) = rW * E + rW * y1 /\ rW * E \in Int /\ rW * y1 \in Int
      OBVIOUS
    <3> QED
      BY <3>6, <3>7, <3>8
  <2>5. y = rW * H
    <3>1. G * (r * V) = (r * W) * (g * V)
      <4>1. (g * W) * (r * V) = (r * W) * (g * V)
        BY <1>3
      <4> QED
        BY <1>6, <4>1
    <3> QED
      BY <1>13, <2>1, <2>3, <3>1
  <2>6. x * H = h * y
    <3>1. (rW * h) * H = h * (rW * H)
      OBVIOUS
    <3> QED
      BY <2>4, <2>5, <3>1
  <2> QED
    BY ONLY <2>2, <2>6, h \in Int, H \in Nat \ {0}, x \in Int, y \in Nat \ {0}, IsScaled
<1>15. h = e * w + g * (c * (S + z))
  <2>1. PICK cs \in Int, cz \in Int : cs = c * S /\ cz = c * z
    OBVIOUS
  <2>2. c * (S + z) = cs + cz
    BY <2>1
  <2>3. g * (cs + cz) = g * cs + g * cz /\ e * w \in Int /\ g * cs \in Int /\ g * cz \in Int
    OBVIOUS
  <2> QED
    BY <1>5, <1>12, <2>1, <2>2, <2>3
<1>16. Weighed(est2, cov2, e, g, c, d, r, n + 1, S + z)
  BY <1>1, <1>2, <1>4, <1>11, <1>13, <1>14, <1>15 DEF Weighed
<1> QED
  BY <1>9, <1>16

\* A measurement keeps the estimate in range and the covariance below the noise.
LEMMA KalmanMoves ==
  ASSUME NEW s \in Seq(Int), NEW z \in Int, NEW a \in Int, NEW q \in Nat, NEW r \in Nat \ {0},
         NEW est, NEW cov, NEW f, KalmanIs(f, est, cov, q, r), KalmanState(est, cov, q, r, a, s)
  PROVE  \E est2, cov2 : /\ KalmanIs(Updated(f, z), est2, cov2, q, r)
                         /\ KalmanState(est2, cov2, q, r, a, Append(s, z))
                         /\ cov2[1] < r * cov2[2] /\ (cov[1] > 0 => cov2[1] > 0)
<1>1. PICK t : t = Append(s, z)
  OBVIOUS
<1>2. ToSet(t) = ToSet(s) \union {z} /\ ToSet(s) \subseteq Int
  BY <1>1, Appended
<1>3. PICK e \in Int, g \in Nat \ {0}, c \in Nat, d \in Nat \ {0} :
        e = est[1] /\ g = est[2] /\ c = cov[1] /\ d = cov[2]
  BY DEF KalmanState
<1>4. Is(cov, c, d) /\ Is(est, e, g)
  BY <1>3 DEF Is
<1>5. PICK P, K : P = c + q * d /\ K = P + r * d
  OBVIOUS
<1>6. /\ P \in Nat /\ (c > 0 => P > 0) /\ K \in Nat \ {0} /\ P <= K
      /\ Measured(f, z, q, r, e, g, P, K)
  <2>1. Predicted(c, d, q, r, P, K)
    BY <1>5 DEF Predicted
  <2> QED
    BY <1>4, <2>1, KalmanStep
<1>7. PICK est2, cov2 : /\ KalmanIs(Updated(f, z), est2, cov2, q, r)
                        /\ Is(cov2, r * P, K)
                        /\ Is(est2, P * z * g + (K - P) * e, g * K)
  BY <1>6 DEF Measured
<1>8. PICK p \in Nat : p = r * P
  BY <1>6
<1>9. r * d \in Nat \ {0} /\ K = P + r * d
  BY <1>5, TimesPositive
<1>10. cov2[1] \in Nat /\ cov2[2] \in Nat \ {0} /\ cov2[1] < r * cov2[2]
  <2>1. Is(cov2, p, K) /\ p \in Int /\ K \in Nat \ {0} /\ r \in Int /\ 0 \in Int
    BY <1>6, <1>7, <1>8
  <2>2. p < r * K
    <3>1. r * K = r * P + r * (r * d)
      BY <1>6, <1>9
    <3>2. r * (r * d) \in Nat \ {0}
      BY <1>9, TimesPositive
    <3> QED
      BY <1>8, <3>1, <3>2
  <2>3. cov2[1] < r * cov2[2]
    BY ONLY <2>1, <2>2, IsOrdered
  <2>4. 0 * K <= p
    BY <1>6, <1>8
  <2>5. 0 * cov2[2] <= cov2[1]
    BY ONLY <2>1, <2>4, IsOrdered
  <2>6. cov2[1] \in Int /\ cov2[2] \in Nat \ {0}
    BY <2>1 DEF Is
  <2> QED
    BY <2>3, <2>5, <2>6
<1>11. cov[1] > 0 => cov2[1] > 0
  <2> HAVE cov[1] > 0
  <2>1. P \in Nat \ {0}
    BY <1>3, <1>6
  <2>2. p > 0 /\ p \in Int
    BY <1>8, <2>1, TimesPositive
  <2>3. Is(cov2, p, K) /\ K \in Nat \ {0}
    BY <1>6, <1>7, <1>8
  <2>4. cov2[1] \in Nat \ {0}
    BY ONLY <2>2, <2>3, IsPositive
  <2> QED
    BY <2>4
<1>12. PICK x \in Int, y \in Nat \ {0} : x = P * z * g + (K - P) * e /\ y = g * K
  <2>1. P * z * g + (K - P) * e \in Int
    BY <1>6
  <2> QED
    BY <1>6, <2>1, TimesPositive
<1>13. Is(est2, x, y)
  BY <1>7, <1>12
<1>14. Between(est2, {a} \union ToSet(t))
  <2>1. PICK T : T = {a} \union ToSet(s)
    OBVIOUS
  <2>2. T \subseteq Int /\ T \union {z} = {a} \union ToSet(t) /\ T \union {z} \subseteq Int
    BY <1>2, <2>1
  <2>3. \E lo, hi \in T : lo * g <= e /\ e <= hi * g
    BY <1>3, <2>1 DEF KalmanState, Between
  <2>4. P \in Nat /\ K \in Nat /\ P <= K
    BY <1>6
  <2>5. \E lo, hi \in T \union {z} :
          lo * (g * K) <= P * z * g + (K - P) * e /\ P * z * g + (K - P) * e <= hi * (g * K)
    BY ONLY <2>2, <2>3, <2>4, z \in Int, e \in Int, g \in Nat \ {0}, BetweenMixed
  <2>6. \E lo, hi \in T \union {z} : lo * y <= x /\ x <= hi * y
    BY <1>12, <2>5
  <2>7. Between(est2, T \union {z})
    BY ONLY <1>13, <2>2, <2>6, x \in Int, y \in Nat \ {0}, BetweenIs
  <2> QED
    BY <2>2, <2>7
<1>15. est2[1] \in Int /\ est2[2] \in Nat \ {0}
  BY <1>13 DEF Is
<1>16. KalmanState(est2, cov2, q, r, a, t)
  BY <1>10, <1>14, <1>15 DEF KalmanState
<1> QED
  BY <1>1, <1>7, <1>10, <1>11, <1>16

\* And so it goes on weighing what it knew against what it measured since.
LEMMA KalmanWeighs ==
  ASSUME NEW m \in Seq(Int), NEW z \in Int, NEW q \in Nat, NEW r \in Nat \ {0},
         NEW e \in Int, NEW g \in Nat \ {0}, NEW c \in Nat, NEW d \in Nat \ {0},
         NEW est, NEW cov, NEW f, KalmanIs(f, est, cov, q, r),
         KalmanSince(est, cov, q, r, e, g, c, d, m),
         NEW est2, NEW cov2, KalmanIs(Updated(f, z), est2, cov2, q, r),
         cov2[1] < r * cov2[2], cov[1] > 0 => cov2[1] > 0
  PROVE  KalmanSince(est2, cov2, q, r, e, g, c, d, Append(m, z))
<1>1. PICK t : t = Append(m, z)
  OBVIOUS
<1>2. Len(t) = Len(m) + 1 /\ SumOf(t) = SumOf(m) + z /\ Len(m) \in Nat /\ SumOf(m) \in Int
  BY <1>1, AppendedIs, SumOfAppend, SumIsInt
<1>3. ASSUME q = 0 PROVE Weighed(est2, cov2, e, g, c, d, r, Len(t), SumOf(t))
  <2>1. Weighed(est, cov, e, g, c, d, r, Len(m), SumOf(m)) /\ KalmanIs(f, est, cov, 0, r)
    BY <1>3 DEF KalmanSince
  <2>2. PICK est3, cov3 : /\ KalmanIs(Updated(f, z), est3, cov3, 0, r)
                          /\ Weighed(est3, cov3, e, g, c, d, r, Len(m) + 1, SumOf(m) + z)
    BY <1>2, <2>1, WeighedMoves
  <2>3. est3 = est2 /\ cov3 = cov2
    <3>1. PICK u : u = Updated(f, z)
      OBVIOUS
    <3>2. u.estimate = est2 /\ u.covariance = cov2
      BY <3>1 DEF KalmanIs
    <3>3. u.estimate = est3 /\ u.covariance = cov3
      BY <2>2, <3>1 DEF KalmanIs
    <3> QED
      BY <3>2, <3>3
  <2> QED
    BY <1>2, <2>2, <2>3
<1>4. c > 0 => cov2[1] > 0
  BY DEF KalmanSince
<1> QED
  BY <1>1, <1>3, <1>4 DEF KalmanSince

---------------------------------------------------------------------------
(* Filters: what they hold after any inputs                                *)

FedBound == feeds \in Nat /\ Len(fed) <= feeds /\ feeds <= MaxFed

AverageKnows == avg.sum = SumOf(LastOf(fed)) /\ (fed # <<>> => avg.out = avg.sum)

MedianKnows == /\ med.count < WINDOW => med.index = med.count
               /\ fed # <<>> => UpperMiddle(med.out, LastOf(fed))

Unrolled ==
  /\ high.input.none = (fed = <<>>) /\ high.output.none = (fed = <<>>)
  /\ fed # <<>> => /\ ema.den = Powers(AlphaDen)[Len(fed) - 1] /\ high.output.den = ema.den
                   /\ ema.num = SumOf(SmoothedParts(fed))
                   /\ high.output.num = SumOf(HighParts(fed))
                   /\ high.input.num = fed[Len(fed)]

PriorIs(e, g, c, d) == /\ prior[1][1] = e /\ prior[1][2] = g
                      /\ prior[2][1] = c /\ prior[2][2] = d
KalmanKnows ==
  /\ start \in Int /\ measured \in Seq(Int)
  /\ \E est, cov, q, r, e, g, c, d :
       /\ q \in Nat /\ r \in Nat \ {0}
       /\ e \in Int /\ g \in Nat \ {0} /\ c \in Nat /\ d \in Nat \ {0}
       /\ KalmanIs(kal, est, cov, q, r) /\ PriorIs(e, g, c, d)
       /\ KalmanState(est, cov, q, r, start, fed)
       /\ KalmanSince(est, cov, q, r, e, g, c, d, measured)

FiltersKnow == FiltersInv /\ FedBound /\ AverageKnows /\ MedianKnows /\ Unrolled /\ KalmanKnows

LEMMA AverageFeeds ==
  ASSUME FiltersInv, AverageKnows, NEW x \in Int, avg' = Average(avg, x), fed' = Append(fed, x)
  PROVE  AverageKnows'
<1>1. PICK s, n, W : s = fed /\ n = Len(fed) /\ W = WINDOW
  OBVIOUS
<1>2. s \in Seq(Int) /\ n \in Nat /\ W \in Nat \ {0} /\ Windowed(avg, s) /\ n = Len(s)
  BY <1>1, WindowAssumption DEF FiltersInv
<1>3. avg.count = (IF n < W THEN n ELSE W) /\ avg.index \in 0..W - 1
  BY <1>1, <1>2 DEF Windowed
<1>4. avg.sum = SumOf(LastOf(s))
  BY <1>1 DEF AverageKnows
<1>5. avg'.sum = SumOf(LastOf(Append(s, x)))
  <2>1. CASE n < W
    <3>1. ~(avg.count >= WINDOW)
      BY <1>1, <1>2, <1>3, <2>1
    <3>2. avg'.sum = avg.sum + x
      BY <3>1 DEF Average
    <3>3. SumOf(LastOf(Append(s, x))) = SumOf(LastOf(s)) + x
      BY <1>1, <1>2, <2>1, WindowGrows
    <3> QED
      BY <1>4, <3>2, <3>3
  <2>2. CASE ~(n < W)
    <3>1. avg.count = W /\ avg.count >= WINDOW
      BY <1>1, <1>2, <1>3, <2>2
    <3>2. avg'.sum = avg.sum - avg.buffer[avg.index] + x
      BY <3>1 DEF Average
    <3>3. SumOf(LastOf(Append(s, x))) = SumOf(LastOf(s)) - s[Len(s) + 1 - WINDOW] + x
      BY <1>1, <1>2, <2>2, WindowSlides
    <3>4. avg.buffer[avg.index] = s[n + 1 - W]
      <4>1. W \in 1..avg.count
        BY <1>2, <3>1
      <4>2. avg.buffer[(avg.index - W) % WINDOW] = s[Len(s) + 1 - W]
        BY <1>2, <4>1 DEF Windowed
      <4>3. PICK i \in 0..W - 1 : i = avg.index
        BY <1>3
      <4>4. i - W \in -W .. -1 /\ i - W + W = i
        BY <1>2
      <4>5. (i - W) % WINDOW = i
        BY <1>1, <4>4, WindowMod
      <4> QED
        BY <1>2, <4>2, <4>3, <4>5
    <3> QED
      BY <1>1, <1>2, <1>4, <3>2, <3>3, <3>4
  <2> QED
    BY <2>1, <2>2
<1>6. avg'.out = avg'.sum
  BY DEF Average
<1> QED
  BY <1>1, <1>5, <1>6 DEF AverageKnows

LEMMA MedianFeeds ==
  ASSUME FiltersInv, FiltersInv', MedianKnows, NEW x \in Int, med' = MedianOf(med, x), fed' = Append(fed, x)
  PROVE  MedianKnows'
<1>1. PICK W, i, c : W = WINDOW /\ i = med.index /\ c = med.count
  OBVIOUS
<1>2. W \in Nat \ {0} /\ i \in 0..W - 1 /\ c \in Nat
  <2>1. Len(fed) \in Nat
    BY DEF FiltersInv
  <2> QED
    BY <1>1, <2>1, WindowAssumption DEF FiltersInv, Windowed
<1>3. PICK l, e : l = med'.index /\ e = med'.count
  OBVIOUS
<1>4. l = (i + 1) % W /\ e = (IF c < W THEN c + 1 ELSE c) /\ med'.out = Median(med'.buffer, med'.count)
  BY <1>1, <1>3 DEF MedianOf
<1>5. e < W => l = e
  <2>1. SUFFICES ASSUME e < W PROVE l = e
    OBVIOUS
  <2>2. c < W /\ e = c + 1
    BY <1>2, <1>4, <2>1
  <2>3. i = c
    BY <1>1, <2>2 DEF MedianKnows
  <2>4. e \in 0..W - 1
    BY <1>2, <2>1, <2>2
  <2>5. e % W = e
    BY <1>1, <2>4, WindowMod
  <2> QED
    BY <1>4, <2>2, <2>3, <2>5
<1>6. PICK t : t = fed'
  OBVIOUS
<1>7. t \in Seq(Int) /\ t # <<>> /\ Windowed(med', t)
  BY <1>6 DEF FiltersInv
<1>8. UpperMiddle(med'.out, LastOf(t))
  <2>1. PICK f : f = med'
    OBVIOUS
  <2>2. Windowed(f, t) /\ (f.count < WINDOW => f.index = f.count)
    BY <1>1, <1>3, <1>5, <1>7, <2>1
  <2>3. UpperMiddle(Median(f.buffer, f.count), LastOf(t))
    BY <1>7, <2>2, MedianIsMiddle
  <2> QED
    BY <1>4, <2>1, <2>3
<1> QED
  BY <1>1, <1>3, <1>5, <1>6, <1>8 DEF MedianKnows

LEMMA UnrolledFeeds ==
  ASSUME FiltersInv, FedBound, Unrolled, NEW x \in Int, feeds < MaxFed, ema' = Smoothed(ema, x),
         high' = [input |-> Exactly(x), output |-> HighPassed(high, x)], fed' = Append(fed, x)
  PROVE  Unrolled'
<1>1. PICK s, t : s = fed /\ t = fed'
  OBVIOUS
<1>2. /\ s \in Seq(Int) /\ Len(s) \in Nat /\ Len(s) < MaxFed
      /\ t = Append(s, x) /\ t \in Seq(Int) /\ Len(t) = Len(s) + 1 /\ t[Len(t)] = x /\ t # <<>>
  <2>1. s \in Seq(Int)
    BY <1>1 DEF FiltersInv
  <2>2. Len(s) \in Nat /\ Len(s) < MaxFed
    BY <1>1, <2>1, FilterBounds DEF FedBound
  <2>3. t = Append(s, x)
    BY <1>1
  <2>4. t \in Seq(Int) /\ Len(t) = Len(s) + 1 /\ t[Len(s) + 1] = x
    BY <2>1, <2>3, AppendedIs
  <2>5. t # <<>>
    BY <2>2, <2>4
  <2> QED
    BY <2>1, <2>2, <2>3, <2>4, <2>5
<1>3. /\ ema.none = (s = <<>>) /\ high.input.none = (s = <<>>) /\ high.output.none = (s = <<>>)
  BY <1>1 DEF FiltersInv, Unrolled
<1>4. high'.input = Exactly(x) /\ high'.output = HighPassed(high, x)
  OBVIOUS
<1>5. high'.input.none = FALSE /\ high'.input.num = x
  BY <1>4 DEF Exactly
<1>6. CASE s = <<>>
  <2>1. ema' = Exactly(x) /\ high'.output = Exactly(x)
    BY <1>3, <1>4, <1>6 DEF Smoothed, HighPassed
  <2>2. ema'.num = x /\ ema'.den = 1 /\ high'.output.num = x /\ high'.output.den = 1
        /\ high'.output.none = FALSE
    BY <2>1 DEF Exactly
  <2>3. t = <<x>> /\ Len(t) - 1 = 0 /\ MaxFed # 0
    BY <1>2, <1>6
  <2>4. SumOf(SmoothedParts(t)) = x /\ SumOf(HighParts(t)) = x /\ Powers(AlphaDen)[Len(t) - 1] = 1
    BY <2>3, FirstParts
  <2> QED
    BY <1>1, <1>2, <1>5, <2>2, <2>4 DEF Unrolled
<1>7. CASE s # <<>>
  <2>1. PICK n \in Nat : n = Len(s) /\ n # 0 /\ n \in 1..Len(s) /\ s[n] \in Int
    <3>1. Len(s) # 0
      BY <1>2, <1>7
    <3>2. Len(s) \in 1..Len(s)
      BY <1>2, <3>1
    <3>3. s[Len(s)] \in Int
      BY <1>2, <3>2
    <3> QED
      BY <1>2, <3>1, <3>2, <3>3
  <2>2. PICK k, z : k = n - 1 /\ z = Powers(AlphaDen)[k]
    OBVIOUS
  <2>3. k \in Nat /\ n <= MaxFed /\ k <= MaxFed /\ n - 1 = k
    BY <1>2, <2>1, <2>2, FilterBounds
  <2>4. z \in Nat /\ Powers(AlphaDen)[n] = AlphaDen * z
    BY <2>1, <2>2, <2>3, AlphaIs, PowerFacts
  <2>5. PICK a, b : a = SumOf(SmoothedParts(s)) /\ b = SumOf(HighParts(s))
    OBVIOUS
  <2>6. ema.den = z /\ high.output.den = z /\ ema.num = a /\ high.output.num = b /\ high.input.num = s[n]
    BY <1>1, <1>7, <2>1, <2>2, <2>5 DEF Unrolled
  <2>7. ema' = [none |-> FALSE, den |-> z * AlphaDen, num |-> AlphaNum * x * z + (AlphaDen - AlphaNum) * a]
    BY <1>3, <1>7, <2>6 DEF Smoothed
  <2>8. high'.output = [none |-> FALSE, den |-> z * AlphaDen, num |-> AlphaNum * (b + (x - s[n]) * z)]
    BY <1>3, <1>4, <1>7, <2>6 DEF HighPassed
  <2>9. z * AlphaDen = AlphaDen * z
    BY <2>4, AlphaIs
  <2>10. SumOf(SmoothedParts(t)) = AlphaNum * x * z + (AlphaDen - AlphaNum) * a
    BY <1>2, <1>7, <2>1, <2>2, <2>5, SmoothedUnrolls
  <2>11. SumOf(HighParts(t)) = AlphaNum * (b + (x - s[n]) * z)
    BY <1>2, <1>7, <2>1, <2>2, <2>5, HighUnrolls
  <2>12. Len(t) - 1 = n
    BY <1>2, <2>1
  <2>13. /\ ema'.den = Powers(AlphaDen)[Len(t) - 1] /\ high'.output.den = ema'.den
         /\ ema'.num = SumOf(SmoothedParts(t)) /\ high'.output.num = SumOf(HighParts(t))
         /\ high'.output.none = FALSE
    BY <2>4, <2>7, <2>8, <2>9, <2>10, <2>11, <2>12
  <2> QED
    BY <1>1, <1>2, <1>5, <2>13 DEF Unrolled
<1> QED
  BY <1>6, <1>7

LEMMA KalmanFeeds ==
  ASSUME FiltersInv, KalmanKnows, NEW x \in Int, kal' = Updated(kal, x),
         start' = start, prior' = prior, measured' = Append(measured, x), fed' = Append(fed, x)
  PROVE  KalmanKnows'
<1>1. PICK est, cov, q, r, e, g, c, d :
        /\ q \in Nat /\ r \in Nat \ {0}
        /\ e \in Int /\ g \in Nat \ {0} /\ c \in Nat /\ d \in Nat \ {0}
        /\ KalmanIs(kal, est, cov, q, r) /\ PriorIs(e, g, c, d)
        /\ KalmanState(est, cov, q, r, start, fed)
        /\ KalmanSince(est, cov, q, r, e, g, c, d, measured)
  BY DEF KalmanKnows
<1>2. fed \in Seq(Int) /\ start \in Int /\ measured \in Seq(Int)
  BY DEF FiltersInv, KalmanKnows
<1>3. PICK est2, cov2 : /\ KalmanIs(Updated(kal, x), est2, cov2, q, r)
                        /\ KalmanState(est2, cov2, q, r, start, Append(fed, x))
                        /\ cov2[1] < r * cov2[2] /\ (cov[1] > 0 => cov2[1] > 0)
  BY <1>1, <1>2, KalmanMoves
<1>4. KalmanSince(est2, cov2, q, r, e, g, c, d, Append(measured, x))
  BY <1>1, <1>2, <1>3, KalmanWeighs
<1>5. PriorIs(e, g, c, d)'
  BY <1>1 DEF PriorIs
<1>6. Append(measured, x) \in Seq(Int)
  BY <1>2, AppendedIs
<1>7. /\ KalmanIs(kal', est2, cov2, q, r)
      /\ KalmanState(est2, cov2, q, r, start', fed')
      /\ KalmanSince(est2, cov2, q, r, e, g, c, d, measured')
  BY <1>3, <1>4
<1> QED
  BY <1>1, <1>2, <1>5, <1>6, <1>7 DEF KalmanKnows

\* What a filter holds when its history begins.
LEMMA KalmanBegins ==
  ASSUME NEW est, NEW cov, NEW q \in Nat, NEW r \in Nat \ {0}, NEW a \in Int,
         NEW S \in Seq(Int),
         kal' = [estimate |-> est, covariance |-> cov, q |-> q, r |-> r],
         start' = a, prior' = <<est, cov>>, measured' = <<>>, fed' = S,
         KalmanState(est, cov, q, r, a, S)
  PROVE  KalmanKnows'
<1>1. PICK e \in Int, g \in Nat \ {0}, c \in Nat, d \in Nat \ {0} :
        e = est[1] /\ g = est[2] /\ c = cov[1] /\ d = cov[2]
  BY DEF KalmanState
<1>2. KalmanSince(est, cov, q, r, e, g, c, d, <<>>)
  BY <1>1, KalmanStarts
<1>3. PriorIs(e, g, c, d)'
  BY <1>1 DEF PriorIs
<1>4. KalmanIs(kal', est, cov, q, r)
  BY DEF KalmanIs
<1>5. <<>> \in Seq(Int)
  OBVIOUS
<1>6. /\ KalmanState(est, cov, q, r, start', fed') /\ start' \in Int
      /\ KalmanSince(est, cov, q, r, e, g, c, d, measured') /\ measured' \in Seq(Int)
  BY <1>2, <1>5
<1> QED
  BY <1>1, <1>3, <1>4, <1>6 DEF KalmanKnows

LEMMA KalmanOfWhole ==
  ASSUME NEW a \in Int, NEW u \in Nat, NEW q, NEW r
  PROVE  KalmanState(<<a, 1>>, <<u, 1>>, q, r, a, <<>>)
<1>1. PICK est, cov : est = <<a, 1>> /\ cov = <<u, 1>>
  OBVIOUS
<1>2. est[1] = a /\ est[2] = 1 /\ cov[1] = u /\ cov[2] = 1
  BY <1>1
<1>3. Between(est, {a} \union ToSet(<<>>))
  <2>1. a * 1 <= a /\ a <= a * 1
    OBVIOUS
  <2> QED
    BY <1>2, <2>1 DEF Between
<1> QED
  BY <1>1, <1>2, <1>3 DEF KalmanState

LEMMA FiltersKnowInit == FiltersInit => FiltersKnow
<1> SUFFICES ASSUME FiltersInit PROVE FiltersKnow
  OBVIOUS
<1>1. /\ avg = NewAverage /\ med = NewMedian /\ ema = NoValue /\ high = NewHigh
      /\ fed = <<>> /\ feeds = 0
  BY DEF FiltersInit
<1>2. FedBound
  BY <1>1, FilterBounds DEF FedBound
<1>3. LastOf(<<>>) = <<>>
  <2>1. <<>> \in Seq(Int) /\ Len(<<>>) = 0 /\ 0 < WINDOW
    BY WindowAssumption
  <2>3. 0 = IF Len(<<>>) < WINDOW THEN Len(<<>>) ELSE WINDOW
    BY <2>1
  <2>2. LastOf(<<>>) \in Seq(Int) /\ Len(LastOf(<<>>)) = 0
    BY ONLY <2>1, <2>3, LastOfIs
  <2> QED
    BY <2>1, <2>2, SameSequence
<1>4. AverageKnows
  BY <1>1, <1>3, SumOfNone DEF AverageKnows, NewAverage
<1>5. MedianKnows
  BY <1>1 DEF MedianKnows, NewMedian
<1>6. Unrolled
  BY <1>1 DEF Unrolled, NewHigh, NoValue
<1>7. KalmanKnows
  <2>1. PICK q \in Nat, r \in Nat \ {0}, a \in Int, u \in Nat :
          kal = NewKalman(q, r) /\ a = InitialEstimate /\ u = InitialError
    BY KalmanAssumption DEF FiltersInit
  <2>2. PICK est, cov : est = <<a, 1>> /\ cov = <<u, 1>>
    OBVIOUS
  <2>3. kal = [estimate |-> est, covariance |-> cov, q |-> q, r |-> r]
    BY <2>1, <2>2 DEF NewKalman
  <2>4. start = a /\ prior = <<est, cov>> /\ measured = <<>>
    BY <2>1, <2>3 DEF FiltersInit
  <2>5. KalmanState(est, cov, q, r, a, <<>>)
    BY <2>2, KalmanOfWhole
  <2>6. PICK e \in Int, g \in Nat \ {0}, c \in Nat, d \in Nat \ {0} :
          e = est[1] /\ g = est[2] /\ c = cov[1] /\ d = cov[2]
    BY <2>5 DEF KalmanState
  <2>7. KalmanSince(est, cov, q, r, e, g, c, d, <<>>)
    BY <2>6, KalmanStarts
  <2>8. PriorIs(e, g, c, d)
    BY <2>4, <2>6 DEF PriorIs
  <2>9. KalmanIs(kal, est, cov, q, r)
    BY <2>3 DEF KalmanIs
  <2>10. <<>> \in Seq(Int)
    OBVIOUS
  <2>11. /\ KalmanState(est, cov, q, r, start, fed) /\ start \in Int
         /\ KalmanSince(est, cov, q, r, e, g, c, d, measured) /\ measured \in Seq(Int)
    BY <1>1, <2>4, <2>5, <2>7, <2>10
  <2> QED
    BY <2>6, <2>8, <2>9, <2>11 DEF KalmanKnows
<1> QED
  BY <1>2, <1>4, <1>5, <1>6, <1>7, FiltersInvInit DEF FiltersKnow

LEMMA ResetKnows ==
  ASSUME FiltersKnow, FiltersInv', ResetFilters PROVE FiltersKnow'
<1>1. /\ avg' = NewAverage /\ med'.index = 0 /\ med'.count = 0 /\ high' = NewHigh
      /\ fed' = <<>> /\ feeds' = feeds + 1 /\ feeds < MaxFed
  BY DEF ResetFilters
<1>2. FedBound'
  BY <1>1, FilterBounds DEF FedBound, FiltersKnow
<1>3. LastOf(<<>>) = <<>>
  <2>1. <<>> \in Seq(Int) /\ Len(<<>>) = 0 /\ 0 < WINDOW
    BY WindowAssumption
  <2>3. 0 = IF Len(<<>>) < WINDOW THEN Len(<<>>) ELSE WINDOW
    BY <2>1
  <2>2. LastOf(<<>>) \in Seq(Int) /\ Len(LastOf(<<>>)) = 0
    BY ONLY <2>1, <2>3, LastOfIs
  <2> QED
    BY <2>1, <2>2, SameSequence
<1>4. AverageKnows'
  BY <1>1, <1>3, SumOfNone DEF AverageKnows, NewAverage
<1>5. MedianKnows'
  BY <1>1 DEF MedianKnows
<1>6. Unrolled'
  BY <1>1 DEF Unrolled, NewHigh, NoValue
<1>7. KalmanKnows'
  <2>1. PICK est, cov, q, r : q \in Nat /\ r \in Nat \ {0} /\ KalmanIs(kal, est, cov, q, r)
    BY DEF FiltersKnow, KalmanKnows
  <2>2. kal' = [estimate |-> <<0, 1>>, covariance |-> <<1, 1>>, q |-> q, r |-> r]
    BY <2>1 DEF ResetFilters, KalmanIs
  <2>3. start' = 0 /\ prior' = <<<<0, 1>>, <<1, 1>>>> /\ measured' = <<>>
    BY DEF ResetFilters
  <2>4. 0 \in Int /\ 1 \in Nat /\ <<>> \in Seq(Int)
    OBVIOUS
  <2>5. KalmanState(<<0, 1>>, <<1, 1>>, q, r, 0, <<>>)
    BY <2>4, KalmanOfWhole
  <2> QED
    BY <1>1, <2>1, <2>2, <2>3, <2>4, <2>5, KalmanBegins
<1> QED
  BY <1>2, <1>4, <1>5, <1>6, <1>7 DEF FiltersKnow

\* Another noise: the history begins with what the filter knows now.
LEMMA SetKnows ==
  ASSUME FiltersKnow, FiltersInv', NEW q0 \in Nat, NEW r0 \in Nat \ {0}, SetNoise(q0, r0)
  PROVE  FiltersKnow'
<1>1. /\ feeds < MaxFed /\ feeds' = feeds + 1 /\ UNCHANGED <<avg, med, ema, high, start, fed>>
      /\ prior' = <<kal.estimate, kal.covariance>> /\ measured' = <<>>
      /\ kal' = [kal EXCEPT !.q = q0, !.r = r0]
  BY DEF SetNoise
<1>2. FedBound'
  BY <1>1, FilterBounds DEF FedBound, FiltersKnow
<1>3. AverageKnows' /\ MedianKnows' /\ Unrolled'
  BY <1>1 DEF FiltersKnow, AverageKnows, MedianKnows, Unrolled
<1>4. PICK est, cov, q, r : KalmanIs(kal, est, cov, q, r) /\ KalmanState(est, cov, q, r, start, fed)
  BY DEF FiltersKnow, KalmanKnows
<1>5. kal.estimate = est /\ kal.covariance = cov
  BY <1>4 DEF KalmanIs
<1>6. kal' = [estimate |-> est, covariance |-> cov, q |-> q0, r |-> r0]
  BY <1>1, <1>4 DEF KalmanIs
<1>7. KalmanState(est, cov, q0, r0, start, fed)
  BY <1>4 DEF KalmanState
<1>8. start \in Int /\ fed \in Seq(Int)
  BY DEF FiltersKnow, FiltersInv, KalmanKnows
<1>9. PICK a \in Int, S \in Seq(Int) : a = start /\ S = fed
  BY <1>8
<1>10. start' = a /\ fed' = S /\ prior' = <<est, cov>> /\ KalmanState(est, cov, q0, r0, a, S)
  BY <1>1, <1>5, <1>7, <1>9
<1>11. KalmanKnows'
  BY <1>1, <1>6, <1>10, KalmanBegins
<1> QED
  BY <1>2, <1>3, <1>11 DEF FiltersKnow

LEMMA FiltersKnowNext == FiltersKnow /\ [FiltersNext]_filterVars => FiltersKnow'
<1> SUFFICES ASSUME FiltersKnow, [FiltersNext]_filterVars PROVE FiltersKnow'
  OBVIOUS
<1>1. FiltersInv /\ FiltersInv'
  BY FiltersKeep DEF FiltersKnow
<1>2. ASSUME NEW x \in Readings, Feed(x) PROVE FiltersKnow'
  <2>1. /\ feeds < MaxFed /\ avg' = Average(avg, x) /\ med' = MedianOf(med, x) /\ ema' = Smoothed(ema, x)
        /\ high' = [input |-> Exactly(x), output |-> HighPassed(high, x)]
        /\ kal' = Updated(kal, x) /\ start' = start /\ prior' = prior /\ measured' = Append(measured, x)
        /\ fed' = Append(fed, x) /\ feeds' = feeds + 1
    BY <1>2 DEF Feed
  <2>2. x \in Int
    BY FilterBounds
  <2>3. AverageKnows'
    BY <1>1, <2>1, <2>2, AverageFeeds DEF FiltersKnow
  <2>4. MedianKnows'
    BY <1>1, <2>1, <2>2, MedianFeeds DEF FiltersKnow
  <2>5. Unrolled'
    BY <1>1, <2>1, <2>2, UnrolledFeeds DEF FiltersKnow
  <2>6. KalmanKnows'
    BY <1>1, <2>1, <2>2, KalmanFeeds DEF FiltersKnow
  <2>7. FedBound'
    <3>1. fed \in Seq(Int)
      BY <1>1 DEF FiltersInv
    <3>2. Len(fed') = Len(fed) + 1 /\ Len(fed) \in Nat
      BY <2>1, <2>2, <3>1, AppendedIs
    <3> QED
      BY <2>1, <3>2, FilterBounds DEF FedBound, FiltersKnow
  <2> QED
    BY <1>1, <2>3, <2>4, <2>5, <2>6, <2>7 DEF FiltersKnow
<1>3. CASE ResetFilters
  BY <1>1, <1>3, ResetKnows
<1>4. CASE UNCHANGED filterVars
  <2>1. UNCHANGED <<avg, med, ema, high, kal, start, prior, measured, fed, feeds>>
    BY <1>4 DEF filterVars, kalmanHistory
  <2>2. FedBound' /\ AverageKnows' /\ MedianKnows' /\ Unrolled'
    BY <2>1 DEF FiltersKnow, FedBound, AverageKnows, MedianKnows, Unrolled
  <2>3. PICK est, cov, q, r, e, g, c, d :
          /\ start \in Int /\ measured \in Seq(Int)
          /\ q \in Nat /\ r \in Nat \ {0}
          /\ e \in Int /\ g \in Nat \ {0} /\ c \in Nat /\ d \in Nat \ {0}
          /\ KalmanIs(kal, est, cov, q, r) /\ PriorIs(e, g, c, d)
          /\ KalmanState(est, cov, q, r, start, fed)
          /\ KalmanSince(est, cov, q, r, e, g, c, d, measured)
    BY DEF FiltersKnow, KalmanKnows
  <2>4. KalmanIs(kal', est, cov, q, r) /\ PriorIs(e, g, c, d)'
    BY <2>1, <2>3 DEF PriorIs, KalmanIs
  <2>5. /\ start' \in Int /\ measured' \in Seq(Int)
        /\ KalmanState(est, cov, q, r, start', fed')
        /\ KalmanSince(est, cov, q, r, e, g, c, d, measured')
    BY <2>1, <2>3
  <2>6. KalmanKnows'
    BY <2>3, <2>4, <2>5 DEF KalmanKnows
  <2> QED
    BY <1>1, <2>2, <2>6 DEF FiltersKnow
<1>5. ASSUME NEW q \in ProcessNoises, SetNoise(q, kal.r) PROVE FiltersKnow'
  <2>1. kal.r \in Nat \ {0}
    BY DEF FiltersKnow, KalmanKnows, KalmanIs
  <2> QED
    BY <1>1, <1>5, <2>1, KalmanAssumption, SetKnows
<1>6. ASSUME NEW r \in MeasurementNoises, SetNoise(kal.q, r) PROVE FiltersKnow'
  <2>1. kal.q \in Nat
    BY DEF FiltersKnow, KalmanKnows, KalmanIs
  <2> QED
    BY <1>1, <1>6, <2>1, KalmanAssumption, SetKnows
<1> QED
  BY <1>2, <1>3, <1>4, <1>5, <1>6 DEF FiltersNext

---------------------------------------------------------------------------
(* Filters: what that says of their outputs                                *)

LEMMA FiltersFollow == FiltersKnow => FiltersAgree
<1> SUFFICES ASSUME FiltersKnow PROVE FiltersAgree
  OBVIOUS
<1>1. WindowsHoldLast /\ SmoothedBetween
  BY FiltersHold DEF FiltersKnow
<1>2. LastOnes = LastOf(fed)
  BY DEF LastOnes, LastOf
<1>3. avg.sum = SumOf(LastOnes) /\ (fed # <<>> => avg.out = SumOf(LastOnes))
  BY <1>2 DEF FiltersKnow, AverageKnows
<1>4. fed # <<>> => /\ med.out \in ToSet(LastOnes)
                    /\ 2 * Below(LastOnes, med.out) <= Len(LastOnes)
                    /\ 2 * AtMost(LastOnes, med.out) > Len(LastOnes)
  BY <1>2 DEF FiltersKnow, MedianKnows, UpperMiddle
<1>5. /\ SmoothedParts(fed) = [i \in DOMAIN fed |-> SmoothedPart(fed, i)]
      /\ HighParts(fed) = [i \in DOMAIN fed |-> HighPart(fed, i)]
  BY DEF SmoothedParts, HighParts
<1>6. fed # <<>> =>
        /\ ema.den = Powers(AlphaDen)[Len(fed) - 1] /\ high.output.den = ema.den
        /\ ema.num = SumOf([i \in DOMAIN fed |-> SmoothedPart(fed, i)])
        /\ high.output.num = SumOf([i \in DOMAIN fed |-> HighPart(fed, i)])
  BY <1>5 DEF FiltersKnow, Unrolled
<1> QED
  BY <1>1, <1>3, <1>4, <1>6 DEF FiltersAgree

LEMMA WeighedIsMean ==
  ASSUME NEW est, NEW cov, NEW r \in Nat \ {0}, NEW m \in Seq(Int),
         NEW e \in Int, NEW g \in Nat \ {0}, NEW c \in Nat, NEW d \in Nat \ {0},
         Weighed(est, cov, e, g, c, d, r, Len(m), SumOf(m)),
         NEW p, NEW u, Is(p, e, g), Is(u, c, d),
         NEW R, NEW weight, R = <<r, 1>>, weight = Plus(R, Product(<<Len(m), 1>>, u))
  PROVE  /\ Same(cov, Over(Product(u, R), weight))
         /\ Same(est, Over(Plus(Product(p, R), Product(u, <<SumOf(m), 1>>)), weight))
<1>1. PICK n \in Nat, S \in Int : n = Len(m) /\ S = SumOf(m)
  BY SumIsInt
<1>2. PICK w \in Nat \ {0}, nc \in Nat, cr \in Nat, er \in Int, cS \in Int :
        w = r * d /\ nc = n * c /\ cr = c * r /\ er = e * r /\ cS = c * S
  BY TimesPositive
<1>3. PICK W \in Nat \ {0} : W = w + nc
  OBVIOUS
<1>4. /\ Is(R, r, 1) /\ Is(<<n, 1>>, n, 1) /\ Is(<<S, 1>>, S, 1)
      /\ 1 \in Nat \ {0} /\ r \in Int /\ n \in Int /\ e \in Int /\ c \in Int /\ S \in Int
      /\ g \in Nat \ {0} /\ d \in Nat \ {0} /\ Is(p, e, g) /\ Is(u, c, d)
  BY IsWhole
<1>5. PICK p1, p2, p3, p4 : /\ p1 = Product(<<n, 1>>, u) /\ p2 = Product(u, R)
                            /\ p3 = Product(p, R) /\ p4 = Product(u, <<S, 1>>)
  OBVIOUS
<1>6. Is(p1, nc, d) /\ Is(p2, cr, d) /\ Is(p3, er, g) /\ Is(p4, cS, d)
  <2>1. Is(p1, n * c, 1 * d)
    BY ONLY <1>4, <1>5, IsProduct
  <2>2. Is(p2, c * r, d * 1)
    BY ONLY <1>4, <1>5, IsProduct
  <2>3. Is(p3, e * r, g * 1)
    BY ONLY <1>4, <1>5, IsProduct
  <2>4. Is(p4, c * S, d * 1)
    BY ONLY <1>4, <1>5, IsProduct
  <2>5. 1 * d = d /\ d * 1 = d /\ g * 1 = g
    OBVIOUS
  <2> QED
    BY <1>2, <2>1, <2>2, <2>3, <2>4, <2>5
<1>7. nc \in Int /\ cr \in Int /\ er \in Int /\ cS \in Int
  OBVIOUS
<1>8. Is(weight, W, d)
  <2>1. weight = Plus(R, p1)
    BY <1>1, <1>5
  <2>2. Is(weight, r * d + nc * 1, 1 * d)
    BY ONLY <1>4, <1>6, <1>7, <2>1, IsPlus
  <2>3. r * d + nc * 1 = W /\ 1 * d = d
    BY <1>2, <1>3
  <2> QED
    BY <2>2, <2>3
<1>9. PICK p5 : p5 = Plus(p3, p4)
  OBVIOUS
<1>10. PICK E \in Int, G \in Nat \ {0} : E = er * d + cS * g /\ G = g * d
  BY TimesPositive
<1>11. Is(p5, E, G)
  <2>1. Is(p5, er * d + cS * g, g * d)
    BY ONLY <1>4, <1>6, <1>7, <1>9, IsPlus
  <2> QED
    BY <1>10, <2>1
<1>12. Is(Over(p2, weight), cr, W)
  <2>1. Is(Over(p2, weight), cr * d, d * W)
    BY ONLY <1>4, <1>6, <1>7, <1>8, W \in Nat \ {0}, IsOver
  <2>2. cr * d \in Int /\ d * W \in Nat \ {0} /\ (cr * d) * W = cr * (d * W)
    BY TimesPositive
  <2> QED
    BY ONLY <1>7, <2>1, <2>2, W \in Nat \ {0}, IsScaled
<1>13. PICK H \in Nat \ {0} : H = g * W
  BY TimesPositive
<1>14. Is(Over(p5, weight), E, H)
  <2>1. Is(Over(p5, weight), E * d, G * W)
    BY ONLY <1>4, <1>8, <1>11, E \in Int, G \in Nat \ {0}, W \in Nat \ {0}, IsOver
  <2>2. E * d \in Int /\ G * W \in Nat \ {0}
    BY TimesPositive
  <2>3. (E * d) * H = E * (G * W)
    <3>1. (E * d) * (g * W) = E * ((g * d) * W)
      OBVIOUS
    <3> QED
      BY <1>10, <1>13, <3>1
  <2> QED
    BY ONLY <2>1, <2>2, <2>3, E \in Int, H \in Nat \ {0}, IsScaled
<1>15. Is(cov, cr, W) /\ Is(est, E, H)
  <2>1. /\ Is(cov, c * r, r * d + n * c)
        /\ Is(est, e * (r * d) + g * (c * S), g * (r * d + n * c))
    BY <1>1 DEF Weighed
  <2>2. r * d + n * c = W
    BY <1>2, <1>3
  <2>3. e * (r * d) + g * (c * S) = E
    <3>1. e * (r * d) = er * d /\ g * cS = cS * g
      <4>1. e * (r * d) = (e * r) * d
        OBVIOUS
      <4> QED
        BY <1>2, <4>1
    <3> QED
      BY <1>2, <1>10, <3>1
  <2> QED
    BY <1>2, <1>13, <2>1, <2>2, <2>3
<1>16. Same(cov, Over(p2, weight)) /\ Same(est, Over(p5, weight))
  BY ONLY <1>7, <1>12, <1>14, <1>15, W \in Nat \ {0}, E \in Int, H \in Nat \ {0}, IsSame
<1> QED
  BY <1>1, <1>5, <1>9, <1>16

LEMMA KalmanFollows == FiltersKnow => KalmanIsSound
<1> SUFFICES ASSUME FiltersKnow PROVE KalmanIsSound
  OBVIOUS
<1>1. PICK est, cov, q, r, e, g, c, d :
        /\ q \in Nat /\ r \in Nat \ {0}
        /\ e \in Int /\ g \in Nat \ {0} /\ c \in Nat /\ d \in Nat \ {0}
        /\ KalmanIs(kal, est, cov, q, r) /\ PriorIs(e, g, c, d)
        /\ KalmanState(est, cov, q, r, start, fed)
        /\ KalmanSince(est, cov, q, r, e, g, c, d, measured)
  BY DEF FiltersKnow, KalmanKnows
<1>2. fed \in Seq(Int) /\ start \in Int /\ measured \in Seq(Int)
  BY DEF FiltersKnow, FiltersInv, KalmanKnows
<1>3. kal.estimate = est /\ kal.covariance = cov /\ kal.q = q /\ kal.r = r
  BY <1>1 DEF KalmanIs
<1>4. Is(prior[1], e, g) /\ Is(prior[2], c, d) /\ prior[2][1] = c
  BY <1>1 DEF PriorIs, Is
<1>5. PICK e1 \in Int, e2 \in Nat \ {0}, c1 \in Nat, c2 \in Nat \ {0} :
        e1 = est[1] /\ e2 = est[2] /\ c1 = cov[1] /\ c2 = cov[2]
  BY <1>1 DEF KalmanState
<1>6. /\ kal.estimate[2] > 0 /\ kal.covariance[2] > 0 /\ kal.covariance[1] >= 0
      /\ prior[2][1] > 0 => kal.covariance[1] > 0
  <2>1. c > 0 => cov[1] > 0
    BY <1>1 DEF KalmanSince
  <2> QED
    BY <1>3, <1>4, <1>5, <2>1
<1>7. PICK known : known = {<<start, 1>>} \union {<<x, 1>> : x \in ToSet(fed)}
  OBVIOUS
<1>8. \E lo, hi \in known : AtLeast(kal.estimate, lo) /\ AtLeast(hi, kal.estimate)
  <2>1. PICK l \in {start} \union ToSet(fed), h \in {start} \union ToSet(fed) : l * e2 <= e1 /\ e1 <= h * e2
    BY <1>1, <1>5 DEF KalmanState, Between
  <2>2. ToSet(fed) \subseteq Int
    BY <1>2 DEF ToSet
  <2>3. l \in Int /\ h \in Int
    BY <1>2, <2>1, <2>2
  <2>4. <<l, 1>> \in known /\ <<h, 1>> \in known
    BY <1>7, <2>1
  <2>5. e1 * 1 >= l * e2 /\ h * e2 >= e1 * 1
    BY <2>1, <2>3
  <2>6. AtLeast(est, <<l, 1>>) /\ AtLeast(<<h, 1>>, est)
    BY <1>5, <2>5 DEF AtLeast
  <2> QED
    BY <1>3, <2>4, <2>6
<1>9. PICK R : R = <<kal.r, 1>> /\ R = <<r, 1>>
  BY <1>3
<1>10. ASSUME measured # <<>> PROVE AtLeast(R, kal.covariance) /\ ~Same(R, kal.covariance)
  <2>1. c1 < r * c2
    BY <1>1, <1>5, <1>10 DEF KalmanSince
  <2>2. r * c2 \in Int /\ c1 * 1 = c1
    BY <1>1
  <2>3. r * c2 >= c1 * 1 /\ r * c2 # c1 * 1
    BY <2>1, <2>2
  <2>4. R[1] = r /\ R[2] = 1
    BY <1>9
  <2> QED
    BY <1>3, <1>5, <2>3, <2>4 DEF AtLeast, Same
<1>11. PICK n, weight : n = <<Len(measured), 1>> /\ weight = Plus(R, Product(n, prior[2]))
  OBVIOUS
<1>12. ASSUME kal.q = 0
       PROVE  /\ Same(kal.covariance, Over(Product(prior[2], R), weight))
              /\ Same(kal.estimate,
                      Over(Plus(Product(prior[1], R), Product(prior[2], <<SumOf(measured), 1>>)), weight))
  <2>1. Weighed(est, cov, e, g, c, d, r, Len(measured), SumOf(measured))
    BY <1>1, <1>3, <1>12 DEF KalmanSince
  <2>2. weight = Plus(R, Product(<<Len(measured), 1>>, prior[2]))
    BY <1>11
  <2>3. PICK p, u : p = prior[1] /\ u = prior[2]
    OBVIOUS
  <2>4. /\ Same(cov, Over(Product(u, R), weight))
        /\ Same(est, Over(Plus(Product(p, R), Product(u, <<SumOf(measured), 1>>)), weight))
    BY <1>1, <1>2, <1>4, <1>9, <2>1, <2>2, <2>3, WeighedIsMean
  <2> QED
    BY <1>3, <2>3, <2>4
<1> QED
  BY <1>6, <1>7, <1>8, <1>9, <1>10, <1>11, <1>12 DEF KalmanIsSound

\* filter.rs, for every window and alpha and any inputs, resets and changes of the
\* noises: the moving average is that of the last inputs though it only keeps a running
\* sum, the median is the (upper) middle of them, and the two recursive filters are
\* what unrolling their recurrences makes of all inputs since the reset.  The Kalman
\* filter's covariance stays below that of the sensor once it has measured, its
\* estimate within what it was told, and without process noise it is the mean, weighted
\* by precision, of what it knew when a noise was last set and of all inputs since.
THEOREM FiltersCompute == FiltersSpec => [](FiltersAgree /\ KalmanIsSound)
<1>1. FiltersSpec => []FiltersKnow
  BY FiltersKnowInit, FiltersKnowNext, PTL DEF FiltersSpec
<1> QED
  BY <1>1, FiltersFollow, KalmanFollows, PTL

---------------------------------------------------------------------------
(* Transforms: the quarter turns permute the axes and change their signs   *)

Axis == 1..3
Matrices == Vectors \X Vectors \X Vectors
Signs == {-1, 1} \X {-1, 1} \X {-1, 1}
Even == {<<1, 2, 3>>, <<2, 3, 1>>, <<3, 1, 2>>}
Odd == {<<1, 3, 2>>, <<2, 1, 3>>, <<3, 2, 1>>}
Parity(p) == IF p \in Even THEN 1 ELSE -1

\* Row i has the sign s[i] in column p[i].
Unit(k, s) == <<IF k = 1 THEN s ELSE 0, IF k = 2 THEN s ELSE 0, IF k = 3 THEN s ELSE 0>>
Signed(p, s) == <<Unit(p[1], s[1]), Unit(p[2], s[2]), Unit(p[3], s[3])>>

\* Without a mirror: the determinant is 1.
Proper(p, s) == p \in Even \union Odd /\ s \in Signs /\ s[1] * s[2] * s[3] = Parity(p)
Turn(m) == \E p \in Even \union Odd, s \in Signs : m = Signed(p, s) /\ Proper(p, s)

\* What a turn makes of a vector, and of the rows of a matrix.
Moved(p, s, v) == <<s[1] * v[p[1]], s[2] * v[p[2]], s[3] * v[p[3]]>>
RowsMoved(p, s, r) == <<ScaledBy(r[p[1]], s[1]), ScaledBy(r[p[2]], s[2]), ScaledBy(r[p[3]], s[3])>>

LEMMA SignedMoves ==
  ASSUME NEW p \in Even \union Odd, NEW s \in Signs, NEW v \in Vectors
  PROVE  Transform(Signed(p, s), v) = Moved(p, s, v)
  BY DEF Transform, Vec, Dot, Signed, Unit, Moved, Vectors, Signs, Even, Odd

LEMMA SignedMultiplies ==
  ASSUME NEW p \in Even \union Odd, NEW s \in Signs, NEW r \in Matrices
  PROVE  Multiply(Signed(p, s), r) = RowsMoved(p, s, r)
<1> DEFINE m == Signed(p, s)
<1>1. \A i, j \in Axis : Dot(m[i], <<r[1][j], r[2][j], r[3][j]>>) = r[p[i]][j] * s[i]
  <2> TAKE i, j \in Axis
  <2>1. r[1][j] \in Int /\ r[2][j] \in Int /\ r[3][j] \in Int
    BY DEF Matrices, Vectors, Axis
  <2>2. m[i] = Unit(p[i], s[i]) /\ p[i] \in {1, 2, 3} /\ s[i] \in {-1, 1}
    BY DEF Signed, Signs, Even, Odd, Axis
  <2> QED
    BY <2>1, <2>2 DEF Dot, Unit
<1> HIDE DEF m
<1>2. Multiply(m, r) = RowsMoved(p, s, r)
  BY <1>1 DEF Multiply, RowsMoved, Vec, ScaledBy, Axis
<1> QED
  BY <1>2 DEF m

\* What FramesAgree says of the rotations.
Linked(fa, fg, r, a, g) ==
  /\ Transform(r, fa) = a
  /\ Transform(r, fg) = g
  /\ Transform(Transpose(r), a) = fa
  /\ Dot(a, a) = Dot(fa, fa)
  /\ Dot(a, g) = Dot(fa, fg)
  /\ Cross(a, g) = Transform(r, Cross(fa, fg))

LEMMA RowsTransform ==
  ASSUME NEW p \in Even \union Odd, NEW s \in Signs, NEW r \in Matrices, NEW v \in Vectors
  PROVE  Transform(RowsMoved(p, s, r), v) = Moved(p, s, Transform(r, v))
<1>1. ASSUME NEW u \in Vectors, NEW k \in {-1, 1} PROVE Dot(ScaledBy(u, k), v) = k * Dot(u, v)
  BY <1>1 DEF Dot, ScaledBy, Vec, Vectors
<1>2. \A i \in Axis : p[i] \in Axis /\ s[i] \in {-1, 1} /\ r[i] \in Vectors
  BY DEF Even, Odd, Axis, Signs, Matrices
<1>3. \A i \in Axis : Dot(ScaledBy(r[p[i]], s[i]), v) = s[i] * Dot(r[p[i]], v)
  BY <1>1, <1>2
<1>4. \A i \in Axis : Transform(r, v)[i] = Dot(r[i], v)
  BY DEF Transform, Vec, Axis
<1>5. \A i \in Axis : Transform(r, v)[p[i]] = Dot(r[p[i]], v)
  BY <1>2, <1>4
<1> QED
  BY <1>3, <1>5 DEF Transform, RowsMoved, Moved, Vec, Axis

LEMMA MovedDot ==
  ASSUME NEW p \in Even \union Odd, NEW s \in Signs, NEW u \in Vectors, NEW v \in Vectors
  PROVE  Dot(Moved(p, s, u), Moved(p, s, v)) = Dot(u, v)
<1>1. \A i \in Axis : (s[i] * u[p[i]]) * (s[i] * v[p[i]]) = u[p[i]] * v[p[i]]
  <2> TAKE i \in Axis
  <2>1. s[i] \in {-1, 1} /\ u[p[i]] \in Int /\ v[p[i]] \in Int
    BY DEF Signs, Even, Odd, Vectors, Axis
  <2> QED
    BY <2>1
<1>2. \A i \in Axis : u[i] * v[i] \in Int
  BY DEF Vectors, Axis
<1>3. /\ (s[1] * u[p[1]]) * (s[1] * v[p[1]]) = u[p[1]] * v[p[1]]
      /\ (s[2] * u[p[2]]) * (s[2] * v[p[2]]) = u[p[2]] * v[p[2]]
      /\ (s[3] * u[p[3]]) * (s[3] * v[p[3]]) = u[p[3]] * v[p[3]]
  BY <1>1 DEF Axis
<1> QED
  BY <1>2, <1>3 DEF Dot, Moved, Even, Odd, Axis

LEMMA MovedBack ==
  ASSUME NEW p \in Even \union Odd, NEW s \in Signs, NEW r \in Matrices, NEW v \in Vectors
  PROVE  Transform(Transpose(RowsMoved(p, s, r)), Moved(p, s, v)) = Transform(Transpose(r), v)
<1> DEFINE col(m, j) == <<m[1][j], m[2][j], m[3][j]>>
<1>1. ASSUME NEW m, NEW u PROVE Transform(Transpose(m), u) = <<Dot(col(m, 1), u), Dot(col(m, 2), u), Dot(col(m, 3), u)>>
  BY DEF Transform, Transpose, Vec
<1>2. \A j \in Axis : col(r, j) \in Vectors /\ col(RowsMoved(p, s, r), j) = Moved(p, s, col(r, j))
  <2> TAKE j \in Axis
  <2>1. col(r, j) \in Vectors
    BY DEF Matrices, Vectors, Axis
  <2>2. \A k \in Axis : r[k][j] \in Int
    BY DEF Matrices, Vectors, Axis
  <2>3. \A i \in Axis : s[i] \in {-1, 1} /\ p[i] \in Axis /\ r[p[i]][j] * s[i] = s[i] * r[p[i]][j]
    BY <2>2 DEF Signs, Even, Odd, Axis
  <2>4. col(RowsMoved(p, s, r), j) = <<r[p[1]][j] * s[1], r[p[2]][j] * s[2], r[p[3]][j] * s[3]>>
    BY DEF RowsMoved, ScaledBy, Vec, Axis
  <2>5. \A k \in Axis : col(r, j)[k] = r[k][j]
    BY DEF Axis
  <2>6. col(RowsMoved(p, s, r), j) = Moved(p, s, col(r, j))
    BY <2>3, <2>4, <2>5 DEF Moved, Axis
  <2> QED
    BY <2>1, <2>6
<1> HIDE DEF col
<1>3. \A j \in Axis : Dot(col(RowsMoved(p, s, r), j), Moved(p, s, v)) = Dot(col(r, j), v)
  BY <1>2, MovedDot
<1> QED
  BY <1>1, <1>3 DEF Axis

LEMMA SignedMinor ==
  ASSUME NEW a \in {-1, 1}, NEW b \in {-1, 1}, NEW x \in Int, NEW y \in Int, NEW z \in Int, NEW w \in Int
  PROVE  (a * x) * (b * y) - (b * z) * (a * w) = (a * b) * (x * y - z * w)
  OBVIOUS

LEMMA SignsOf ==
  ASSUME NEW a \in {-1, 1}, NEW b \in {-1, 1}, NEW c \in {-1, 1}
  PROVE  /\ a * b * c = 1 => b * c = a /\ c * a = b /\ a * b = c
         /\ a * b * c = -1 => b * c = -a /\ c * a = -b /\ a * b = -c
  OBVIOUS

LEMMA MovedCross ==
  ASSUME NEW p \in Even \union Odd, NEW s \in Signs, NEW u \in Vectors, NEW v \in Vectors, Proper(p, s)
  PROVE  Cross(Moved(p, s, u), Moved(p, s, v)) = Moved(p, s, Cross(u, v))
<1>1. PICK a \in {-1, 1}, b \in {-1, 1}, c \in {-1, 1} : a = s[1] /\ b = s[2] /\ c = s[3]
  BY DEF Signs
<1>2. p \in Even => a * b * c = 1
  BY <1>1 DEF Proper, Parity
<1>3. p \in Odd => a * b * c = -1
  <2>1. p \in Odd => p \notin Even
    BY DEF Even, Odd
  <2> QED
    BY <1>1, <2>1 DEF Proper, Parity
<1>4. PICK x \in Int, y \in Int, z \in Int : x = u[p[1]] /\ y = u[p[2]] /\ z = u[p[3]]
  BY DEF Vectors, Even, Odd
<1>5. PICK f \in Int, g \in Int, h \in Int : f = v[p[1]] /\ g = v[p[2]] /\ h = v[p[3]]
  BY DEF Vectors, Even, Odd
<1>6. PICK C1 \in Int, C2 \in Int, C3 \in Int : C1 = y * h - z * g /\ C2 = z * f - x * h /\ C3 = x * g - y * f
  OBVIOUS
<1>7. Cross(Moved(p, s, u), Moved(p, s, v)) = <<(b * c) * C1, (c * a) * C2, (a * b) * C3>>
  <2>1. /\ (b * y) * (c * h) - (c * z) * (b * g) = (b * c) * C1
        /\ (c * z) * (a * f) - (a * x) * (c * h) = (c * a) * C2
        /\ (a * x) * (b * g) - (b * y) * (a * f) = (a * b) * C3
    BY <1>6, SignedMinor
  <2> QED
    BY <1>1, <1>4, <1>5, <2>1 DEF Cross, Moved
<1>8. CASE p \in Even
  <2>1. <<Cross(u, v)[p[1]], Cross(u, v)[p[2]], Cross(u, v)[p[3]]>> = <<C1, C2, C3>>
    BY <1>4, <1>5, <1>6, <1>8 DEF Cross, Even
  <2>2. b * c = a /\ c * a = b /\ a * b = c
    BY <1>2, <1>8, SignsOf
  <2> QED
    BY <1>1, <1>7, <2>1, <2>2 DEF Moved
<1>9. CASE p \in Odd
  <2>1. <<Cross(u, v)[p[1]], Cross(u, v)[p[2]], Cross(u, v)[p[3]]>> = <<-C1, -C2, -C3>>
    <3>1. \A i, j \in Axis : u[i] * v[j] - u[j] * v[i] = -(u[j] * v[i] - u[i] * v[j])
      BY DEF Vectors, Axis
    <3>2. CASE p = <<1, 3, 2>>
      BY <1>4, <1>5, <1>6, <3>2 DEF Cross
    <3>3. CASE p = <<2, 1, 3>>
      BY <1>4, <1>5, <1>6, <3>3 DEF Cross
    <3>4. CASE p = <<3, 2, 1>>
      BY <1>4, <1>5, <1>6, <3>4 DEF Cross
    <3> QED
      BY <1>9, <3>2, <3>3, <3>4 DEF Odd
  <2>2. b * c = -a /\ c * a = -b /\ a * b = -c
    BY <1>3, <1>9, SignsOf
  <2>3. (-a) * C1 = a * (-C1) /\ (-b) * C2 = b * (-C2) /\ (-c) * C3 = c * (-C3)
    OBVIOUS
  <2> QED
    BY <1>1, <1>7, <2>1, <2>2, <2>3 DEF Moved
<1> QED
  BY <1>8, <1>9

LEMMA RowsMovedIn ==
  ASSUME NEW p \in Even \union Odd, NEW s \in Signs, NEW r \in Matrices
  PROVE  RowsMoved(p, s, r) \in Matrices
<1>1. \A u \in Vectors, k \in {-1, 1} : ScaledBy(u, k) \in Vectors
  BY DEF ScaledBy, Vec, Vectors
<1>2. \A i \in Axis : p[i] \in Axis /\ s[i] \in {-1, 1} /\ r[i] \in Vectors
  BY DEF Even, Odd, Axis, Signs, Matrices
<1> QED
  BY <1>1, <1>2 DEF RowsMoved, Matrices, Axis

LEMMA MovedIn ==
  ASSUME NEW p \in Even \union Odd, NEW s \in Signs, NEW v \in Vectors
  PROVE  Moved(p, s, v) \in Vectors
<1>1. \A i \in Axis : s[i] \in {-1, 1} /\ v[p[i]] \in Int /\ s[i] * v[p[i]] \in Int
  BY DEF Even, Odd, Axis, Signs, Vectors
<1> QED
  BY <1>1 DEF Moved, Vectors, Axis

LEMMA CrossIn ==
  ASSUME NEW u \in Vectors, NEW v \in Vectors PROVE Cross(u, v) \in Vectors
  BY DEF Cross, Vectors

LEMMA TurnLinks ==
  ASSUME NEW m, Turn(m), NEW r \in Matrices, NEW fa \in Vectors, NEW fg \in Vectors,
         NEW a \in Vectors, NEW g \in Vectors, Linked(fa, fg, r, a, g)
  PROVE  /\ Multiply(m, r) \in Matrices /\ Transform(m, a) \in Vectors /\ Transform(m, g) \in Vectors
         /\ Linked(fa, fg, Multiply(m, r), Transform(m, a), Transform(m, g))
<1>1. PICK p \in Even \union Odd, s \in Signs : m = Signed(p, s) /\ Proper(p, s)
  BY DEF Turn
<1>2. Multiply(m, r) = RowsMoved(p, s, r) /\ Transform(m, a) = Moved(p, s, a) /\ Transform(m, g) = Moved(p, s, g)
  BY <1>1, SignedMultiplies, SignedMoves
<1>3. /\ Transform(RowsMoved(p, s, r), fa) = Moved(p, s, a)
      /\ Transform(RowsMoved(p, s, r), fg) = Moved(p, s, g)
  BY RowsTransform DEF Linked
<1>4. Transform(Transpose(RowsMoved(p, s, r)), Moved(p, s, a)) = fa
  BY MovedBack DEF Linked
<1>5. Dot(Moved(p, s, a), Moved(p, s, a)) = Dot(fa, fa) /\ Dot(Moved(p, s, a), Moved(p, s, g)) = Dot(fa, fg)
  BY MovedDot DEF Linked
<1>6. Cross(Moved(p, s, a), Moved(p, s, g)) = Transform(RowsMoved(p, s, r), Cross(fa, fg))
  <2>1. Cross(Moved(p, s, a), Moved(p, s, g)) = Moved(p, s, Transform(r, Cross(fa, fg)))
    BY <1>1, MovedCross DEF Linked
  <2> QED
    BY <2>1, RowsTransform, CrossIn
<1>7. Linked(fa, fg, RowsMoved(p, s, r), Moved(p, s, a), Moved(p, s, g))
  BY <1>3, <1>4, <1>5, <1>6 DEF Linked
<1> QED
  BY <1>2, <1>7, RowsMovedIn, MovedIn

LEMMA TurnsCompose ==
  ASSUME NEW m, NEW n, Turn(m), Turn(n) PROVE Turn(Multiply(m, n))
<1>1. PICK p \in Even \union Odd, s \in Signs : m = Signed(p, s) /\ Proper(p, s)
  BY DEF Turn
<1>2. PICK q \in Even \union Odd, t \in Signs : n = Signed(q, t) /\ Proper(q, t)
  BY DEF Turn
<1>3. PICK o, w : o = <<q[p[1]], q[p[2]], q[p[3]]>> /\ w = <<s[1] * t[p[1]], s[2] * t[p[2]], s[3] * t[p[3]]>>
  OBVIOUS
<1>4. \A k \in Axis, x \in {-1, 1} : Unit(k, x) \in Vectors
  BY DEF Unit, Vectors, Axis
<1>5. \A i \in Axis : q[i] \in Axis /\ t[i] \in {-1, 1} /\ p[i] \in Axis /\ s[i] \in {-1, 1}
  BY DEF Even, Odd, Axis, Signs
<1>6. n \in Matrices /\ \A i \in Axis : n[i] = Unit(q[i], t[i])
  BY <1>2, <1>4, <1>5 DEF Matrices, Signed, Axis
<1>7. ASSUME NEW k \in Axis, NEW x \in {-1, 1}, NEW y \in {-1, 1}
      PROVE  ScaledBy(Unit(k, x), y) = Unit(k, y * x) /\ y * x \in {-1, 1}
  BY DEF ScaledBy, Unit, Vec, Axis
<1>8. Multiply(m, n) = RowsMoved(p, s, n)
  BY <1>1, <1>6, SignedMultiplies
<1>9. RowsMoved(p, s, n) = Signed(o, w) /\ w \in Signs
  <2>1. \A i \in Axis : ScaledBy(n[p[i]], s[i]) = Unit(q[p[i]], s[i] * t[p[i]]) /\ s[i] * t[p[i]] \in {-1, 1}
    BY <1>5, <1>6, <1>7
  <2> QED
    BY <1>3, <2>1 DEF RowsMoved, Signed, Signs, Axis
<1>10. o \in Even \union Odd /\ Parity(o) = Parity(p) * Parity(q)
  <2>1. p \in Even \/ p \in Odd
    OBVIOUS
  <2>2. q \in Even \/ q \in Odd
    OBVIOUS
  <2>3. \A e \in Even : e \notin Odd
    BY DEF Even, Odd
  <2>4. CASE p \in Even /\ q \in Even
    <3>1. o \in Even
      BY <1>3, <2>4 DEF Even
    <3> QED
      BY <2>4, <3>1 DEF Parity
  <2>5. CASE p \in Even /\ q \in Odd
    <3>1. o \in Odd
      BY <1>3, <2>5 DEF Even, Odd
    <3> QED
      BY <2>3, <2>5, <3>1 DEF Parity
  <2>6. CASE p \in Odd /\ q \in Even
    <3>1. o \in Odd
      BY <1>3, <2>6 DEF Even, Odd
    <3> QED
      BY <2>3, <2>6, <3>1 DEF Parity
  <2>7. CASE p \in Odd /\ q \in Odd
    <3>1. o \in Even
      BY <1>3, <2>7 DEF Even, Odd
    <3> QED
      BY <2>3, <2>7, <3>1 DEF Parity
  <2> QED
    BY <2>1, <2>2, <2>4, <2>5, <2>6, <2>7
<1>11. w[1] * w[2] * w[3] = (s[1] * s[2] * s[3]) * (t[1] * t[2] * t[3])
  <2>1. PICK a \in {-1, 1}, b \in {-1, 1}, c \in {-1, 1} : a = s[1] /\ b = s[2] /\ c = s[3]
    BY DEF Signs
  <2>2. PICK d \in {-1, 1}, e \in {-1, 1}, f \in {-1, 1} : d = t[1] /\ e = t[2] /\ f = t[3]
    BY DEF Signs
  <2>3. {t[p[1]], t[p[2]], t[p[3]]} \subseteq {-1, 1} /\ t[p[1]] * t[p[2]] * t[p[3]] = d * e * f
    <3>1. \A i \in Axis : t[i] \in {-1, 1}
      BY DEF Signs, Axis
    <3>2. {t[p[1]], t[p[2]], t[p[3]]} \subseteq {-1, 1}
      BY <1>5, <3>1 DEF Axis
    <3>3. PICK x \in {-1, 1}, y \in {-1, 1}, z \in {-1, 1} : x = t[p[1]] /\ y = t[p[2]] /\ z = t[p[3]]
      BY <3>2
    <3>4. \/ x = d /\ y = e /\ z = f
          \/ x = d /\ y = f /\ z = e
          \/ x = e /\ y = d /\ z = f
          \/ x = e /\ y = f /\ z = d
          \/ x = f /\ y = d /\ z = e
          \/ x = f /\ y = e /\ z = d
      BY <2>2, <3>3 DEF Even, Odd
    <3>5. x * y * z = d * e * f
      BY <3>4
    <3>6. t[p[1]] * t[p[2]] * t[p[3]] = d * e * f
      BY <3>3, <3>5
    <3> QED
      BY <3>2, <3>6
  <2>4. PICK x \in {-1, 1}, y \in {-1, 1}, z \in {-1, 1} : x = t[p[1]] /\ y = t[p[2]] /\ z = t[p[3]]
    BY <2>3
  <2>5. (a * x) * (b * y) * (c * z) = (a * b * c) * (x * y * z)
    OBVIOUS
  <2> QED
    BY <1>3, <2>1, <2>2, <2>3, <2>4, <2>5
<1>12. Proper(o, w)
  BY <1>1, <1>2, <1>9, <1>10, <1>11 DEF Proper
<1> QED
  BY <1>8, <1>9, <1>10, <1>12 DEF Turn

LEMMA QuarterTurns ==
  \A q \in 0..3 : Turn(RotationX(q)) /\ Turn(RotationY(q)) /\ Turn(RotationZ(q))
<1> TAKE q \in 0..3
<1>1. /\ <<1, 2, 3>> \in Even /\ <<1, 3, 2>> \in Odd /\ <<2, 1, 3>> \in Odd /\ <<3, 2, 1>> \in Odd
      /\ Parity(<<1, 2, 3>>) = 1 /\ Parity(<<1, 3, 2>>) = -1 /\ Parity(<<2, 1, 3>>) = -1
      /\ Parity(<<3, 2, 1>>) = -1
  BY DEF Even, Odd, Parity
<1>2. PICK c, s, n : c = Cos(q) /\ s = Sin(q) /\ n = -s
  OBVIOUS
<1>3. \/ c \in {-1, 1} /\ s = 0 /\ n = 0
      \/ c = 0 /\ s \in {-1, 1} /\ n = -s
  <2>1. (c \in {-1, 1} /\ s = 0) \/ (c = 0 /\ s \in {-1, 1})
    BY <1>2 DEF Cos, Sin
  <2>2. s \in Int /\ \A x \in Int : x + (-x) = 0 /\ -x \in Int
    BY <2>1
  <2>3. n \in Int /\ s + n = 0
    BY <1>2, <2>2
  <2> QED
    BY <1>2, <2>1, <2>3
<1>4. /\ RotationX(q) = <<<<1, 0, 0>>, <<0, c, n>>, <<0, s, c>>>>
      /\ RotationY(q) = <<<<c, 0, s>>, <<0, 1, 0>>, <<n, 0, c>>>>
      /\ RotationZ(q) = <<<<c, n, 0>>, <<s, c, 0>>, <<0, 0, 1>>>>
  BY <1>2 DEF RotationX, RotationY, RotationZ
<1>5. CASE c \in {-1, 1} /\ s = 0 /\ n = 0
  <2>0. /\ RotationX(q) = <<<<1, 0, 0>>, <<0, c, 0>>, <<0, 0, c>>>>
        /\ RotationY(q) = <<<<c, 0, 0>>, <<0, 1, 0>>, <<0, 0, c>>>>
        /\ RotationZ(q) = <<<<c, 0, 0>>, <<0, c, 0>>, <<0, 0, 1>>>>
        /\ 1 * c * c = 1 /\ c * 1 * c = 1 /\ c * c * 1 = 1
    <3>1. PICK d \in {-1, 1} : d = c
      BY <1>5
    <3>2. 1 * d * d = 1 /\ d * 1 * d = 1 /\ d * d * 1 = 1
      OBVIOUS
    <3> QED
      BY <1>4, <1>5, <3>1, <3>2
  <2>1. /\ RotationX(q) = Signed(<<1, 2, 3>>, <<1, c, c>>)
        /\ RotationY(q) = Signed(<<1, 2, 3>>, <<c, 1, c>>)
        /\ RotationZ(q) = Signed(<<1, 2, 3>>, <<c, c, 1>>)
    BY <2>0 DEF Signed, Unit
  <2>2. <<1, c, c>> \in Signs /\ <<c, 1, c>> \in Signs /\ <<c, c, 1>> \in Signs
    BY <1>5 DEF Signs
  <2>3. Proper(<<1, 2, 3>>, <<1, c, c>>) /\ Proper(<<1, 2, 3>>, <<c, 1, c>>) /\ Proper(<<1, 2, 3>>, <<c, c, 1>>)
    BY <1>1, <2>0, <2>2 DEF Proper
  <2> QED
    BY <2>1, <2>3 DEF Turn, Proper
<1>6. CASE c = 0 /\ s \in {-1, 1} /\ n = -s
  <2>1. /\ RotationX(q) = Signed(<<1, 3, 2>>, <<1, -s, s>>) /\ Proper(<<1, 3, 2>>, <<1, -s, s>>)
        /\ RotationY(q) = Signed(<<3, 2, 1>>, <<s, 1, -s>>) /\ Proper(<<3, 2, 1>>, <<s, 1, -s>>)
        /\ RotationZ(q) = Signed(<<2, 1, 3>>, <<-s, s, 1>>) /\ Proper(<<2, 1, 3>>, <<-s, s, 1>>)
    BY <1>1, <1>4, <1>6 DEF Signed, Unit, Proper, Signs
  <2> QED
    BY <2>1 DEF Turn, Proper
<1> QED
  BY <1>3, <1>5, <1>6

LEMMA FrameTurns ==
  Turn(NedToEnu) /\ \A yaw, pitch, roll \in 1..2 : Turn(Euler(yaw, pitch, roll))
<1>1. Turn(NedToEnu)
  <2>1. <<2, 1, 3>> \in Odd /\ Parity(<<2, 1, 3>>) = -1
    BY DEF Even, Odd, Parity
  <2>2. NedToEnu = Signed(<<2, 1, 3>>, <<1, 1, -1>>) /\ Proper(<<2, 1, 3>>, <<1, 1, -1>>)
    BY <2>1 DEF NedToEnu, Signed, Unit, Proper, Signs
  <2> QED
    BY <2>2 DEF Turn, Proper
<1>2. ASSUME NEW yaw \in 1..2, NEW pitch \in 1..2, NEW roll \in 1..2 PROVE Turn(Euler(yaw, pitch, roll))
  <2>1. yaw \in 0..3 /\ pitch \in 0..3 /\ roll \in 0..3
    OBVIOUS
  <2> QED
    BY <2>1, QuarterTurns, TurnsCompose DEF Euler
<1> QED
  BY <1>1, <1>2

---------------------------------------------------------------------------
(* Transforms: a reading on its way through the stages                     *)

FramesInv ==
  /\ imu \in [accel : Vectors, gyro : Vectors, accelUnit : Int, gyroUnit : Int]
  /\ first.accel \in Vectors /\ first.gyro \in Vectors
  /\ rotation \in Matrices
  /\ Linked(first.accel, first.gyro, rotation, imu.accel, imu.gyro)
  /\ imu.accelUnit = imu.gyroUnit
  /\ corrected \in [accel : Vectors, kind : {"none", "bias", "scaled"}]
  /\ corrected.kind = "bias" => imu.accel = Subtract(corrected.accel, Bias)
  /\ corrected.kind = "scaled" => imu.accel = Calibrated(corrected.accel)

LEMMA NothingTurned ==
  ASSUME NEW a \in Vectors, NEW g \in Vectors
  PROVE  Identity \in Matrices /\ Linked(a, g, Identity, a, g)
<1>1. Identity \in Matrices
  BY DEF Identity, Matrices, Vectors
<1>2. ASSUME NEW v \in Vectors PROVE Transform(Identity, v) = v /\ Transform(Transpose(Identity), v) = v
  BY DEF Identity, Transform, Transpose, Vec, Dot, Vectors
<1> QED
  BY <1>1, <1>2, CrossIn DEF Linked

LEMMA FramesInvInit == FramesInit => FramesInv
<1> SUFFICES ASSUME FramesInit PROVE FramesInv
  OBVIOUS
<1>1. PICK a \in Accels, g \in Gyros : imu = Raw(a, g)
  BY DEF FramesInit
<1>2. a \in Vectors /\ g \in Vectors
  BY VectorAssumption
<1>3. imu = [accel |-> a, gyro |-> g, accelUnit |-> 0, gyroUnit |-> 0] /\ first = imu /\ rotation = Identity
  BY <1>1 DEF FramesInit, Raw
<1>4. corrected = [accel |-> <<0, 0, 0>>, kind |-> "none"] /\ <<0, 0, 0>> \in Vectors
  BY DEF FramesInit, NoCorrection, Vectors
<1> QED
  BY <1>2, <1>3, <1>4, NothingTurned DEF FramesInv

LEMMA RotateKeeps ==
  ASSUME FramesInv, NEW m, Turn(m), Rotate(m) PROVE FramesInv'
<1>1. PICK a, g : a = Transform(m, imu.accel) /\ g = Transform(m, imu.gyro)
  OBVIOUS
<1>2. /\ imu' = [imu EXCEPT !.accel = a, !.gyro = g] /\ rotation' = Multiply(m, rotation)
      /\ corrected' = NoCorrection /\ first' = first
  BY <1>1 DEF Rotate
<1>3. imu.accel \in Vectors /\ imu.gyro \in Vectors
  BY DEF FramesInv
<1>4. /\ rotation' \in Matrices /\ a \in Vectors /\ g \in Vectors
      /\ Linked(first.accel, first.gyro, rotation', a, g)
  BY <1>1, <1>2, <1>3, TurnLinks DEF FramesInv
<1>5. /\ imu' \in [accel : Vectors, gyro : Vectors, accelUnit : Int, gyroUnit : Int]
      /\ imu'.accel = a /\ imu'.gyro = g /\ imu'.accelUnit = imu'.gyroUnit
  BY <1>2, <1>4 DEF FramesInv
<1>6. corrected' = [accel |-> <<0, 0, 0>>, kind |-> "none"] /\ <<0, 0, 0>> \in Vectors
  BY <1>2 DEF NoCorrection, Vectors
<1> QED
  BY <1>2, <1>4, <1>5, <1>6 DEF FramesInv

\* A stage that changes the content.
LEMMA ChangedKeeps ==
  ASSUME FramesInv, NEW r \in [accel : Vectors, gyro : Vectors, accelUnit : Int, gyroUnit : Int],
         Changed(r), r.accelUnit = r.gyroUnit,
         corrected' \in [accel : Vectors, kind : {"none", "bias", "scaled"}],
         corrected'.kind = "bias" => r.accel = Subtract(corrected'.accel, Bias),
         corrected'.kind = "scaled" => r.accel = Calibrated(corrected'.accel)
  PROVE  FramesInv'
<1>1. imu' = r /\ first' = r /\ rotation' = Identity
  BY DEF Changed
<1> QED
  BY <1>1, NothingTurned DEF FramesInv

LEMMA ConvertKeeps ==
  ASSUME FramesInv, NEW power \in Int, Convert(power) PROVE FramesInv'
<1>1. PICK r : r = [imu EXCEPT !.accelUnit = @ + power, !.gyroUnit = @ + power]
  OBVIOUS
<1>2. Changed(r) /\ corrected' = [accel |-> <<0, 0, 0>>, kind |-> "none"] /\ <<0, 0, 0>> \in Vectors
  BY <1>1 DEF Convert, NoCorrection, Vectors
<1>3. /\ r \in [accel : Vectors, gyro : Vectors, accelUnit : Int, gyroUnit : Int]
      /\ r.accelUnit = r.gyroUnit
  <2>1. /\ imu \in [accel : Vectors, gyro : Vectors, accelUnit : Int, gyroUnit : Int]
        /\ imu.accelUnit = imu.gyroUnit
    BY DEF FramesInv
  <2>2. PICK n \in Int : n = imu.accelUnit + power
    BY <2>1
  <2>3. r = [imu EXCEPT !.accelUnit = n, !.gyroUnit = n]
    BY <1>1, <2>1, <2>2
  <2> QED
    BY <2>1, <2>2, <2>3
<1> QED
  BY <1>2, <1>3, ChangedKeeps

LEMMA SubtractIn ==
  ASSUME NEW v \in Vectors PROVE Subtract(v, Bias) \in Vectors /\ ScaledBy(v, Gain) \in Vectors
  BY VectorAssumption DEF Subtract, ScaledBy, Vec, Vectors

LEMMA CorrectKeeps ==
  ASSUME FramesInv, CorrectBias PROVE FramesInv'
<1>1. PICK a, r : a = Subtract(imu.accel, Bias) /\ r = [imu EXCEPT !.accel = a]
  OBVIOUS
<1>2. Changed(r) /\ corrected' = [accel |-> imu.accel, kind |-> "bias"]
  BY <1>1 DEF CorrectBias
<1>3. imu.accel \in Vectors /\ a \in Vectors
  BY <1>1, SubtractIn DEF FramesInv
<1>4. /\ r \in [accel : Vectors, gyro : Vectors, accelUnit : Int, gyroUnit : Int]
      /\ r.accelUnit = r.gyroUnit /\ r.accel = a
  BY <1>1, <1>3 DEF FramesInv
<1> QED
  BY <1>1, <1>2, <1>3, <1>4, ChangedKeeps

LEMMA ScaleKeeps ==
  ASSUME FramesInv, ScaleReading PROVE FramesInv'
<1>1. PICK a, r : a = ScaledBy(imu.accel, Gain) /\ r = [imu EXCEPT !.accel = a]
  OBVIOUS
<1>2. Changed(r) /\ corrected.kind = "bias" /\ corrected' = [corrected EXCEPT !.kind = "scaled"]
  BY <1>1 DEF ScaleReading
<1>3. imu.accel \in Vectors /\ a \in Vectors
  BY <1>1, SubtractIn DEF FramesInv
<1>4. /\ r \in [accel : Vectors, gyro : Vectors, accelUnit : Int, gyroUnit : Int]
      /\ r.accelUnit = r.gyroUnit /\ r.accel = a
  BY <1>1, <1>3 DEF FramesInv
<1>5. /\ corrected' \in [accel : Vectors, kind : {"none", "bias", "scaled"}]
      /\ corrected'.kind = "scaled" /\ corrected'.accel = corrected.accel
  BY <1>2 DEF FramesInv
<1>6. a = Calibrated(corrected.accel)
  <2>1. imu.accel = Subtract(corrected.accel, Bias)
    BY <1>2 DEF FramesInv
  <2> QED
    BY <1>1, <2>1 DEF Calibrated, ScaledBy, Subtract, Vec
<1> QED
  BY <1>2, <1>4, <1>5, <1>6, ChangedKeeps

LEMMA FramesKeep == FramesInv /\ [FramesNext]_frameVars => FramesInv'
<1> SUFFICES ASSUME FramesInv, [FramesNext]_frameVars PROVE FramesInv'
  OBVIOUS
<1>1. ASSUME NEW q \in 0..3, Rotate(RotationX(q)) \/ Rotate(RotationY(q)) \/ Rotate(RotationZ(q)) PROVE FramesInv'
  BY <1>1, QuarterTurns, RotateKeeps
<1>2. ASSUME NEW yaw \in 1..2, NEW pitch \in 1..2, NEW roll \in 1..2, Rotate(Euler(yaw, pitch, roll)) PROVE FramesInv'
  BY <1>2, FrameTurns, RotateKeeps
<1>3. CASE Rotate(NedToEnu)
  BY <1>3, FrameTurns, RotateKeeps
<1>4. CASE Convert(1) \/ Convert(-1)
  BY <1>4, ConvertKeeps
<1>5. CASE CorrectBias \/ ScaleReading
  BY <1>5, CorrectKeeps, ScaleKeeps
<1>6. CASE UNCHANGED frameVars
  BY <1>6 DEF frameVars, FramesInv
<1> QED
  BY <1>1, <1>2, <1>3, <1>4, <1>5, <1>6 DEF FramesNext

LEMMA FramesFollow == FramesInv => FramesAgree
<1> SUFFICES ASSUME FramesInv PROVE FramesAgree
  OBVIOUS
<1>1. Linked(first.accel, first.gyro, rotation, imu.accel, imu.gyro)
  BY DEF FramesInv
<1>2. /\ imu.accelUnit = imu.gyroUnit
      /\ corrected.kind = "scaled" => imu.accel = Calibrated(corrected.accel)
  BY DEF FramesInv
<1> QED
  BY <1>1, <1>2 DEF FramesAgree, Linked

\* Readings of any integers through any stages: the one matrix that multiply made of the
\* rotations takes the first reading to the last and its transpose takes it back, no
\* length, angle or handedness is changed, and a calibration is its two stages.
THEOREM FramesStayTrue == FramesSpec => []FramesAgree
<1>1. FramesSpec => []FramesInv
  BY FramesInvInit, FramesKeep, PTL DEF FramesSpec
<1> QED
  BY <1>1, FramesFollow, PTL

---------------------------------------------------------------------------
(* The parts together: each behaviour exercises one of them                *)

GatesInv == Of("limiter", LimiterInv) /\ Of("adaptive", ControllerInv)

LEMMA PartSteps ==
  ASSUME [Next]_allVars
  PROVE  /\ part' = part
         /\ part = "limiter" => [LimiterNext]_limiterVars
         /\ part = "adaptive" => [ControllerNext]_adaptiveVars
         /\ part = "filters" => [FiltersNext]_filterVars
         /\ part = "frames" => [FramesNext]_frameVars
<1>1. CASE Next
  BY <1>1 DEF Next
<1>2. CASE UNCHANGED allVars
  BY <1>2 DEF allVars, gateVars, dataVars
<1> QED
  BY <1>1, <1>2

\* The types of what lets a reading in: a bucket within its capacity, a quality level on
\* its scale that no thread moves past an end of it, and a sample counter that wraps.
THEOREM GatesTyped == Spec => []TypeOK
<1>1. Init => GatesInv
  BY LimiterInvInit, ControllerInvInit DEF Init, GatesInv, Of
<1>2. GatesInv /\ [Next]_allVars => GatesInv'
  BY PartSteps, ShapeNext, FundedNext, BoundedNext, StretchesNext, ControllerKeeps DEF GatesInv, LimiterInv, Of
<1>3. GatesInv => TypeOK
  BY LimiterTyped, ControllerTyped DEF GatesInv, TypeOK, Of
<1> QED
  BY <1>1, <1>2, <1>3, PTL DEF Spec

ContentInv == Of("filters", FiltersKnow) /\ Of("frames", FramesInv)

\* The values that leave the item path are those that its inputs call for: filters and
\* fusion compute what they promise, and no conversion of frames or units turns, mirrors
\* or stretches a reading.
THEOREM ValuesAgreed == Spec => []ValuesAgree
<1>1. Init => ContentInv
  BY FiltersKnowInit, FramesInvInit DEF Init, ContentInv, Of
<1>2. ContentInv /\ [Next]_allVars => ContentInv'
  BY PartSteps, FiltersKnowNext, FramesKeep DEF ContentInv, Of
<1>3. ContentInv => ValuesAgree
  BY FiltersFollow, KalmanFollows, FramesFollow DEF ContentInv, ValuesAgree, Of
<1> QED
  BY <1>1, <1>2, <1>3, PTL DEF Spec

==============================================================================
