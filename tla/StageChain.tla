----------------------------- MODULE StageChain -----------------------------
(***************************************************************************)
(* A sensor and the stages its readings go through in one thread:          *)
(* SequenceSensor (src/src/sensor/mock.rs) and the combinators of          *)
(* src/src/stage/traits.rs.                                                *)
(*                                                                         *)
(* Three stages composed as Chain(Chain(a, b), c), which is what every     *)
(* method of PipelineBuilder (pipeline/builder.rs) builds, or as           *)
(* Chain(a, Chain(b, c)), by a.chain(b.chain(c)).  What a chain does with  *)
(* what its first part answers is one operator per method.  A stage        *)
(* passes its input on (Map, Identity, Inspect), or only when it matches   *)
(* (Filter, FilterMap), or is a buffering one, as the trait allows: it     *)
(* holds one input back until the next, a tick that is due, or a flush.    *)
(***************************************************************************)
EXTENDS Integers, SequencesExt

CONSTANTS
  SensorValues,   \* the values of the SequenceSensor
  MaxSamples      \* bound: readings

ASSUME SensorValuesAssumption == SensorValues \in Seq(Nat)
ASSUME ChainBounds == MaxSamples \in Nat

VARIABLES
  kind,           \* of each stage: "pass", "match" or "hold"
  nested,         \* how they are chained: "left" or "right"
  held,           \* per stage: the reading it holds
  repeat, index, next_seq,  \* SequenceSensor: repeat, index; its clock's sequence
  sampled,        \* history: the number of readings the sensor has made
  sinceReset,     \* history: the readings that entered since the last reset of the chain
  emitted,        \* history: those that left it since then
  flushEmpty      \* the last call was a flush that answered None

sensorVars == <<repeat, index, next_seq, sampled>>
chainVars == <<kind, nested, held, sensorVars, sinceReset, emitted, flushEmpty>>

StageSlots == 1..3
Nothing == [n |-> 0, seq |-> 0, value |-> 0]
NoneHeld == [i \in StageSlots |-> Nothing]

ChainInit ==
  /\ kind \in [StageSlots -> {"pass", "match", "hold"}]
  /\ nested \in {"left", "right"}
  /\ held = NoneHeld
  /\ repeat \in BOOLEAN /\ index = 0 /\ next_seq = 0 /\ sampled = 0
  /\ sinceReset = <<>> /\ emitted = <<>> /\ flushEmpty = FALSE

---------------------------------------------------------------------------
(* One stage: what it holds after a call, and what the call answers        *)

Matches(x) == x.value % 2 = 0

\* Map::process; Identity and Inspect answer their input too.
Mapped(x) == x

\* Filter::process; FilterMap answers None for what it refuses too.
Filtered(x) == IF Matches(x) THEN x ELSE Nothing

ProcessAt(i, h, x) ==
  CASE kind[i] = "pass"  -> [held |-> h, out |-> Mapped(x)]
    [] kind[i] = "match" -> [held |-> h, out |-> Filtered(x)]
    [] kind[i] = "hold"  -> [held |-> [h EXCEPT ![i] = x], out |-> h[i]]

\* due: whether a buffering stage finds at this tick that its input has waited enough.
TickAt(i, h, due) ==
  IF kind[i] = "hold" /\ due THEN [held |-> [h EXCEPT ![i] = Nothing], out |-> h[i]]
                             ELSE [held |-> h, out |-> Nothing]

\* The default flush is a tick; that of a buffering stage gives up what it holds.
FlushAt(i, h) == TickAt(i, h, TRUE)

---------------------------------------------------------------------------
(* Chain: what the second part makes of the answer r of the first          *)

ThenProcess(r, i) == IF r.out = Nothing THEN r ELSE ProcessAt(i, r.held, r.out)

ThenTick(r, i, due) ==
  LET p == ThenProcess(r, i)
  IN  IF p.out # Nothing THEN p ELSE TickAt(i, p.held, due)

\* Mutant: the second part is only flushed when the first had nothing.
ThenFlushOr(r, i) == IF r.out = Nothing THEN FlushAt(i, r.held) ELSE ThenProcess(r, i)

\* When the second part answers at once it is not flushed, whatever it still holds.
ThenFlush(r, i) ==
  LET p == ThenProcess(r, i)
  IN  IF p.out # Nothing THEN p ELSE FlushAt(i, p.held)

\* What PipelineBuilder builds.
LeftTick(due) == ThenTick(ThenTick(TickAt(1, held, due[1]), 2, due[2]), 3, due[3])
LeftFlush == ThenFlush(ThenFlush(FlushAt(1, held), 2), 3)

\* The second part is a chain itself.
ThenChain(r) == ThenProcess(ThenProcess(r, 2), 3)
RightTick(due) ==
  LET p == ThenChain(TickAt(1, held, due[1]))
  IN  IF p.out # Nothing THEN p ELSE ThenTick(TickAt(2, p.held, due[2]), 3, due[3])
RightFlush ==
  LET p == ThenChain(FlushAt(1, held))
  IN  IF p.out # Nothing THEN p ELSE ThenFlush(FlushAt(2, p.held), 3)

\* The same for either nesting.
ChainProcess(x) == ThenChain(ProcessAt(1, held, x))
ChainTick(due) == IF nested = "left" THEN LeftTick(due) ELSE RightTick(due)
ChainFlush == IF nested = "left" THEN LeftFlush ELSE RightFlush

Answer(r) ==
  /\ held' = r.held
  /\ emitted' = IF r.out = Nothing THEN emitted ELSE Append(emitted, r.out)

---------------------------------------------------------------------------
(* The owner: sample and process, tick, flush, reset                       *)

\* sample, which fails without values, and process of what it answers.
SampleAndProcess ==
  LET x == [n |-> sampled + 1, seq |-> next_seq, value |-> SensorValues[index + 1]]
  IN  /\ sampled < MaxSamples
      /\ SensorValues # <<>>
      /\ index' = IF index + 1 < Len(SensorValues) THEN index + 1
                  ELSE IF repeat THEN 0 ELSE Len(SensorValues) - 1
      /\ next_seq' = next_seq + 1
      /\ sampled' = sampled + 1
      /\ sinceReset' = Append(sinceReset, x)
      /\ Answer(ChainProcess(x))
      /\ flushEmpty' = FALSE
      /\ UNCHANGED <<kind, nested, repeat>>

SensorReset ==
  /\ index' = 0 /\ next_seq' = 0
  /\ UNCHANGED <<kind, nested, held, repeat, sampled, sinceReset, emitted, flushEmpty>>

TickChain ==
  /\ \E due \in [StageSlots -> BOOLEAN] : Answer(ChainTick(due))
  /\ flushEmpty' = FALSE
  /\ UNCHANGED <<kind, nested, sensorVars, sinceReset>>

FlushChain ==
  /\ Answer(ChainFlush)
  /\ flushEmpty' = (ChainFlush.out = Nothing)
  /\ UNCHANGED <<kind, nested, sensorVars, sinceReset>>

ResetChain ==
  /\ held' = NoneHeld
  /\ sinceReset' = <<>> /\ emitted' = <<>> /\ flushEmpty' = FALSE
  /\ UNCHANGED <<kind, nested, sensorVars>>

ChainNext == SampleAndProcess \/ SensorReset \/ TickChain \/ FlushChain \/ ResetChain

ChainSpec == ChainInit /\ [][ChainNext]_chainVars

---------------------------------------------------------------------------
(* Properties                                                              *)

InFlow == (ToSet(emitted) \union {held[i] : i \in StageSlots}) \ {Nothing}

\* What is further along is older.
Ahead(x, y) == x # Nothing /\ y # Nothing => x.n < y.n
FlowInOrder ==
  /\ \A i, j \in DOMAIN emitted : i < j => emitted[i].n < emitted[j].n
  /\ \A x \in ToSet(emitted), i \in StageSlots : Ahead(x, held[i])
  /\ \A i, j \in StageSlots : i < j => Ahead(held[j], held[i])

Wanted(x) == (\E i \in StageSlots : kind[i] = "match") => Matches(x)

\* traits.rs: through any mixture of inputs, ticks and flushes a chain of buffering
\* stages, however it is nested, loses, repeats and reorders nothing: what left it and
\* what its stages hold are its inputs in their order, all but those a filter refused;
\* and nothing is held once a flush has answered None, unless a filter that comes after
\* a buffering stage refused what the flush brought it.  The n-th reading since the
\* sensor was reset has number n - 1 and the value its sequence has there.
ReadingsFlow ==
  /\ FlowInOrder
  /\ InFlow \subseteq ToSet(sinceReset)
  /\ {x \in ToSet(sinceReset) : Wanted(x)} \subseteq InFlow
  /\ \A x \in ToSet(emitted) : Wanted(x)
  /\ flushEmpty => held = NoneHeld \/ \E i, j \in StageSlots :
                       i < j /\ kind[i] = "hold" /\ kind[j] = "match"
  /\ \A x \in ToSet(sinceReset) :
       LET len == Len(SensorValues)
           at == IF repeat THEN x.seq % len ELSE IF x.seq < len THEN x.seq ELSE len - 1
       IN  x.value = SensorValues[at + 1]
=============================================================================
