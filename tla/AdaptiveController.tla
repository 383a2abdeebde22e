------------------------ MODULE AdaptiveController ------------------------
(***************************************************************************)
(* Quality that follows the load: AdaptiveController of                    *)
(* src/src/backpressure/controller.rs over the statistics and the sampling *)
(* of src/src/backpressure/strategy.rs.                                    *)
(*                                                                         *)
(* should_accept is called once per item, by every thread that has one:    *)
(* each access to quality_level, hysteresis_counter or sample_counter is a *)
(* step; the statistics, which nothing here reads back, are left out.  The *)
(* utilization is one of three bands.                                      *)
(***************************************************************************)
EXTENDS Integers

CONSTANTS
  Workers,     \* threads that ask should_accept
  Minimal,     \* the last quality level (4 in the code); Full is 0
  Threshold,   \* hysteresis_threshold
  MaxSets      \* bound: calls of set_quality and reset

ASSUME LevelAssumption == Minimal \in Nat /\ Threshold \in Nat
ASSUME ControllerBounds == MaxSets \in Nat

Full == 0
Levels == Full..Minimal

\* An item is wanted at a rate of one in 1, 2, 4, 8, 16.
SampleRate(level) == 2 ^ level

\* Arithmetic, stated for the proofs: the provers know nothing of powers.
ASSUME SampleRateAssumption == SampleRate(Minimal) \in Nat \ {0}

VARIABLES
  utilization,   \* of the queue ahead: "high", "low", or "mid" between the marks
  level,         \* quality_level
  hysteresis,    \* hysteresis_counter, told apart up to Threshold + 1
  samples,       \* sample_counter, which only counts modulo the largest rate
  work,          \* per thread: where it is, and the level and the load it read
  sets

controls == <<level, hysteresis, samples>>
adaptiveVars == <<utilization, controls, work, sets>>

Resting == [pc |-> "idle", current |-> Full, load |-> "mid"]

\* build: the controller starts at full quality.
ControllerInit ==
  /\ utilization \in {"high", "mid", "low"}
  /\ level = Full /\ hysteresis = 0 /\ samples = 0
  /\ sets = 0
  /\ work = [w \in Workers |-> Resting]

WorkGoto(w, from, to) == work[w].pc = from /\ work' = [work EXCEPT ![w].pc = to]
Capped(n, cap) == IF n < cap THEN n ELSE cap

\* Not a step of the controller: the queue fills or drains.
LoadChanges(u) == utilization # u /\ utilization' = u /\ UNCHANGED <<controls, work, sets>>

---------------------------------------------------------------------------
(* update                                                                  *)

LoadLevel(w) ==
  /\ work[w].pc = "idle"
  /\ work' = [work EXCEPT ![w] = [pc |-> IF utilization = "mid" THEN "clear" ELSE "count",
                                  current |-> level, load |-> utilization]]
  /\ UNCHANGED <<utilization, controls, sets>>

\* Mutant: no test for the end of the scale.
MayMoveOn(w) == work[w].load # "mid"

\* Mutant: the last level is never reached.
MayMoveShort(w) ==
  IF work[w].load = "high" THEN work[w].current + 1 < Minimal ELSE work[w].current > Full

\* From the level this thread loaded, whatever it is by now.
MayMove(w) ==
  IF work[w].load = "high" THEN work[w].current < Minimal ELSE work[w].current > Full

\* The counter is one for both directions, and is left to grow at either end.
CountHysteresis(w) ==
  /\ work[w].pc = "count"
  /\ hysteresis' = Capped(hysteresis + 1, Threshold + 1)
  /\ work' = [work EXCEPT ![w].pc =
                IF hysteresis >= Threshold /\ MayMove(w) THEN "move" ELSE "sample"]
  /\ UNCHANGED <<utilization, level, samples, sets>>

MoveLevel(w) ==
  /\ WorkGoto(w, "move", "clear")
  /\ level' = IF work[w].load = "high" THEN work[w].current + 1 ELSE work[w].current - 1
  /\ UNCHANGED <<utilization, hysteresis, samples, sets>>

ClearHysteresis(w) ==
  /\ WorkGoto(w, "clear", "sample")
  /\ hysteresis' = 0
  /\ UNCHANGED <<utilization, level, samples, sets>>

---------------------------------------------------------------------------
(* should_accept after its update, which reads the level again             *)

\* update alone, whose caller does not ask for an answer, ends here.
UpdateReturns(w) ==
  /\ work[w].pc = "sample"
  /\ work' = [work EXCEPT ![w] = Resting]
  /\ UNCHANGED <<utilization, controls, sets>>

ReadQuality(w) ==
  /\ work[w].pc = "sample"
  /\ work' = [work EXCEPT ![w] = [Resting EXCEPT !.current = level,
                                    !.pc = IF level = Full THEN "accept" ELSE "ask"]]
  /\ UNCHANGED <<utilization, controls, sets>>

\* The sampler: one of every SampleRate items by the shared count.
SampleItem(w) ==
  /\ WorkGoto(w, "ask", IF samples % SampleRate(work[w].current) = 0 THEN "accept" ELSE "drop")
  /\ samples' = (samples + 1) % SampleRate(Minimal)
  /\ UNCHANGED <<utilization, level, hysteresis, sets>>

\* record_accepted or record_sampled_out, and the answer.
RecordDecision(w) ==
  /\ work[w].pc \in {"accept", "drop"}
  /\ work' = [work EXCEPT ![w] = Resting]
  /\ UNCHANGED <<utilization, controls, sets>>

---------------------------------------------------------------------------
(* set_quality and reset                                                   *)

SetQuality(w, q) ==
  /\ sets < MaxSets
  /\ WorkGoto(w, "idle", "setting")
  /\ level' = q
  /\ sets' = sets + 1
  /\ UNCHANGED <<utilization, hysteresis, samples>>

SetClears(w) ==
  /\ WorkGoto(w, "setting", "idle")
  /\ hysteresis' = 0
  /\ UNCHANGED <<utilization, level, samples, sets>>

ResetQuality(w) ==
  /\ sets < MaxSets
  /\ WorkGoto(w, "idle", "resetSamples")
  /\ level' = Full
  /\ sets' = sets + 1
  /\ UNCHANGED <<utilization, hysteresis, samples>>

ResetSamples(w) ==
  /\ WorkGoto(w, "resetSamples", "resetHysteresis")
  /\ samples' = 0
  /\ UNCHANGED <<utilization, level, hysteresis, sets>>

\* Then the statistics.
ResetHysteresis(w) ==
  /\ WorkGoto(w, "resetHysteresis", "idle")
  /\ hysteresis' = 0
  /\ UNCHANGED <<utilization, level, samples, sets>>

---------------------------------------------------------------------------
ControllerStep(w) ==
  \/ LoadLevel(w) \/ CountHysteresis(w) \/ MoveLevel(w) \/ ClearHysteresis(w)
  \/ ReadQuality(w) \/ SampleItem(w) \/ RecordDecision(w) \/ UpdateReturns(w)
  \/ SetClears(w) \/ ResetSamples(w) \/ ResetHysteresis(w)

ControllerNext ==
  \/ \E w \in Workers : \/ ControllerStep(w) \/ ResetQuality(w)
                        \/ \E q \in Levels : SetQuality(w, q)
  \/ \E u \in {"high", "mid", "low"} : LoadChanges(u)

---------------------------------------------------------------------------
(* Properties                                                              *)

\* The types of the variables; a level outside the enumeration would read as
\* Minimal, and one below Full would wrap.
ControllerTypeOK ==
  /\ utilization \in {"high", "mid", "low"} /\ level \in Levels
  /\ hysteresis \in 0..Threshold + 1 /\ samples \in 0..SampleRate(Minimal) - 1
  /\ sets \in 0..MaxSets
  /\ \A w \in Workers : work[w].current \in Levels /\ work[w].load \in {"high", "mid", "low"}

\* controller.rs:53-56: when the load stays above the high mark the quality gets to
\* its minimum and stays there, and when it stays below the low mark quality is
\* restored to full: also when a thread stores a level it computed from a stale one,
\* and whatever the counter was left at by the opposite load.
QualityFollowsLoad ==
  /\ <>[](utilization = "high") => <>[](level = Minimal)
  /\ <>[](utilization = "low") => <>[](level = Full)
=============================================================================
