--------------------------- MODULE MonotonicClock ---------------------------
(***************************************************************************)
(* The clock that stamps readings, shared by threads: MonotonicClock and   *)
(* Timestamped of src/src/timestamp.rs.                                    *)
(*                                                                         *)
(* A thread brings a raw time, its reading of Instant in now_ns and stamp, *)
(* the caller's own in record_time and stamp_with_time: any time at all,   *)
(* since the clock is there for raw times that run backwards.  One action  *)
(* is one access to last_timestamp or to sequence.                         *)
(***************************************************************************)
EXTENDS Integers, Sequences, FiniteSets

CONSTANTS
  Stampers,     \* threads that share the clock
  RawTimes,     \* the times they bring
  MaxReadings   \* bound: calls begun

ASSUME RawTimesAssumption == RawTimes \subseteq Nat
ASSUME ClockBounds == MaxReadings \in Nat

VARIABLES
  last_timestamp, sequence,
  reading,    \* per thread: its call
  readings,   \* the number of calls begun
  answered,   \* history: the largest time any call has answered
  stamps,     \* history: the stamps made, each with its answer and what it had to exceed
  epoch       \* history: the number of reset_seq calls

clockVars == <<last_timestamp, sequence, reading, readings, answered, stamps, epoch>>

\* least: the largest time answered before the call began.
NoReading == [pc |-> "idle", raw |-> 0, last |-> 0, stamping |-> FALSE, least |-> 0]

ClockInit ==
  /\ last_timestamp = 0 /\ sequence = 0
  /\ reading = [t \in Stampers |-> NoReading]
  /\ readings = 0 /\ answered = 0 /\ stamps = {} /\ epoch = 0

---------------------------------------------------------------------------
(* now_ns and record_time, alone or within stamp and stamp_with_time       *)

ReadRaw(t, raw, stamping) ==
  /\ readings < MaxReadings
  /\ reading[t].pc = "idle"
  /\ readings' = readings + 1
  /\ reading' = [reading EXCEPT ![t] = [NoReading EXCEPT !.pc = "load", !.raw = raw,
                                          !.stamping = stamping, !.least = answered]]
  /\ UNCHANGED <<last_timestamp, sequence, answered, stamps, epoch>>

\* The time a call answers is kept in `last` until its stamp has its number.
Answers(t, time) ==
  LET r == reading[t]
  IN  IF r.stamping
      THEN /\ reading' = [reading EXCEPT ![t] = [r EXCEPT !.pc = "count", !.last = time]]
           /\ UNCHANGED <<answered, stamps>>
      ELSE /\ reading' = [reading EXCEPT ![t] = NoReading]
           /\ answered' = IF time > answered THEN time ELSE answered
           /\ stamps' = stamps \union {[seq |-> -1, time |-> time, least |-> r.least, epoch |-> epoch]}

LoadLast(t) ==
  /\ reading[t].pc = "load"
  /\ IF reading[t].raw > last_timestamp
     THEN /\ reading' = [reading EXCEPT ![t].pc = "cas", ![t].last = last_timestamp]
          /\ UNCHANGED <<answered, stamps>>
     ELSE Answers(t, last_timestamp)
  /\ UNCHANGED <<last_timestamp, sequence, readings, epoch>>

\* Mutant: a store, where the code compares and exchanges.
StoreLast(t) ==
  /\ reading[t].pc = "cas"
  /\ last_timestamp' = reading[t].raw
  /\ Answers(t, reading[t].raw)
  /\ UNCHANGED <<sequence, readings, epoch>>

SwapLast(t) ==
  /\ reading[t].pc = "cas" /\ last_timestamp = reading[t].last
  /\ last_timestamp' = reading[t].raw
  /\ Answers(t, reading[t].raw)
  /\ UNCHANGED <<sequence, readings, epoch>>

\* Another thread came first, or the weak exchange failed for no reason.
SwapLastFails(t) ==
  /\ reading[t].pc = "cas"
  /\ reading' = [reading EXCEPT ![t].pc = "load", ![t].last = 0]
  /\ UNCHANGED <<last_timestamp, sequence, readings, answered, stamps, epoch>>

---------------------------------------------------------------------------
(* The number of a stamp                                                   *)

TakeNumber(t) ==
  LET r == reading[t]
  IN  /\ r.pc = "count"
      /\ sequence' = sequence + 1
      /\ stamps' = stamps \union {[seq |-> sequence, time |-> r.last, least |-> r.least, epoch |-> epoch]}
      /\ answered' = IF r.last > answered THEN r.last ELSE answered
      /\ reading' = [reading EXCEPT ![t] = NoReading]
      /\ UNCHANGED <<last_timestamp, readings, epoch>>

\* Bound: called once.
ResetSeq ==
  /\ epoch = 0
  /\ sequence' = 0
  /\ epoch' = epoch + 1
  /\ UNCHANGED <<last_timestamp, reading, readings, answered, stamps>>

\* dropped_since: the samples missed before this one, given the number expected.
DroppedSince(seq, expected) == IF seq > expected THEN seq - expected ELSE 0

---------------------------------------------------------------------------
ClockNext ==
  \/ \E t \in Stampers :
       \/ \E raw \in RawTimes, stamping \in BOOLEAN : ReadRaw(t, raw, stamping)
       \/ LoadLast(t) \/ SwapLast(t) \/ SwapLastFails(t) \/ TakeNumber(t)
  \/ ResetSeq

ClockSpec == ClockInit /\ [][ClockNext]_clockVars

---------------------------------------------------------------------------
(* Properties                                                              *)

\* timestamp.rs:117-119: a call answers a time no less than any answered before it
\* began, by whichever thread, and the clock itself is never behind an answer; the
\* numbers of the stamps are distinct and without a gap until reset_seq, so that
\* dropped_since between two stamps is the number of those in between.
StampsAreSound ==
  /\ \A s \in stamps : s.time >= s.least
  /\ last_timestamp >= answered
  /\ \A t \in Stampers : reading[t].pc = "count" => reading[t].last \in reading[t].least..last_timestamp
  /\ \A s \in stamps : s.seq >= 1 /\ epoch = s.epoch =>
       \E r \in stamps : r.seq = s.seq - 1 /\ r.epoch = s.epoch /\ DroppedSince(s.seq, r.seq + 1) = 0
  /\ epoch = 0 => sequence = Cardinality({s \in stamps : s.seq >= 0})
=============================================================================
