--------------------------- MODULE TimestampSync ---------------------------
(***************************************************************************)
(* Two streams of readings matched by time: TimestampBuffer, SyncedPair    *)
(* and TimestampSync of src/src/stage/fusion.rs.                           *)
(*                                                                         *)
(* The stage is the owner's alone, and its inputs come in any order: the   *)
(* readings of the two sensors arrive through channels that keep no order  *)
(* between them, and the time of a reading may be older than the last.     *)
(***************************************************************************)
EXTENDS Integers, Sequences, FiniteSets

CONSTANTS
  SyncCap,      \* CAPACITY
  Tolerance,    \* tolerance_ns
  Times,        \* the times of the readings
  MaxInputs     \* bound: inputs

ASSUME SyncCapAssumption == SyncCap \in Nat \ {0}
ASSUME SyncTimesAssumption == Times \subseteq Nat /\ Tolerance \in Nat /\ MaxInputs \in Nat

VARIABLES
  buffer,            \* the slots, 0..SyncCap-1: a reading's time and number
  write_idx, count, unmatched_count,
  pair,              \* what the last process answered
  pushed,            \* history: the times pushed since new or reset
  expired,           \* history: the readings among them a match has made too old
  inputs             \* the number of inputs

syncVars == <<buffer, write_idx, count, unmatched_count, pair, pushed, expired, inputs>>

Slot == 0..SyncCap - 1
NoItem == [time |-> 0, id |-> 0]
NoPair == [primary |-> -1, secondary |-> NoItem, window |-> {}]

SyncFresh ==
  /\ buffer = [s \in Slot |-> NoItem]
  /\ write_idx = 0 /\ count = 0 /\ unmatched_count = 0

SyncInit == SyncFresh /\ pair = NoPair /\ pushed = <<>> /\ expired = {} /\ inputs = 0

InUse(s) == buffer[s] # NoItem
AbsDiff(a, b) == IF a > b THEN a - b ELSE b - a

---------------------------------------------------------------------------
\* push, the Secondary input: it overwrites the slot whether it is in use or not.
PushSecondary(time) ==
  /\ inputs < MaxInputs
  /\ buffer' = [buffer EXCEPT ![write_idx] = [time |-> time, id |-> Len(pushed) + 1]]
  /\ write_idx' = (write_idx + 1) % SyncCap
  /\ count' = IF count < SyncCap THEN count + 1 ELSE count
  /\ pushed' = Append(pushed, time)
  /\ pair' = NoPair
  /\ inputs' = inputs + 1
  /\ UNCHANGED <<unmatched_count, expired>>

\* find_closest: the first slot of those at the smallest difference.
Near(target) == {s \in Slot : InUse(s) /\ AbsDiff(target, buffer[s].time) <= Tolerance}

\* Mutant: the first slot within the tolerance.
FindFirst(target) ==
  CHOOSE s \in Near(target) : \A r \in Near(target) : s <= r

FindClosest(target) ==
  CHOOSE s \in Near(target) :
    \A r \in Near(target) \ {s} :
      LET ds == AbsDiff(target, buffer[s].time)
          dr == AbsDiff(target, buffer[r].time)
      IN  ds < dr \/ (ds = dr /\ s < r)

\* Mutant: a reading as old as the cutoff goes too.
TooOldOrEqual(s, cutoff) == InUse(s) /\ buffer[s].time <= cutoff

\* prune_before(cutoff) removes these.
TooOld(s, cutoff) == InUse(s) /\ buffer[s].time < cutoff

Recent == {i \in DOMAIN pushed : i > Len(pushed) - SyncCap}
Window == Recent \ expired

\* match_primary, the Primary input, when a secondary reading is close enough: the
\* one matched stays in the buffer unless it is too old.
MatchPrimary(time) ==
  LET cutoff == IF time > Tolerance THEN time - Tolerance ELSE 0
      pruned == {s \in Slot : TooOld(s, cutoff)}
  IN  /\ inputs < MaxInputs
      /\ Near(time) # {}
      /\ pair' = [primary |-> time, secondary |-> buffer[FindClosest(time)], window |-> Window]
      /\ buffer' = [s \in Slot |-> IF s \in pruned THEN NoItem ELSE buffer[s]]
      /\ count' = IF count > Cardinality(pruned) THEN count - Cardinality(pruned) ELSE 0
      /\ expired' = expired \union {i \in DOMAIN pushed : pushed[i] < cutoff}
      /\ inputs' = inputs + 1
      /\ UNCHANGED <<write_idx, unmatched_count, pushed>>

\* Without a match nothing is pruned.
MissPrimary(time) ==
  /\ inputs < MaxInputs
  /\ Near(time) = {}
  /\ unmatched_count' = unmatched_count + 1
  /\ pair' = [NoPair EXCEPT !.primary = time, !.window = Window]
  /\ inputs' = inputs + 1
  /\ UNCHANGED <<buffer, write_idx, count, pushed, expired>>

ResetSync ==
  /\ inputs < MaxInputs
  /\ buffer' = [s \in Slot |-> NoItem]
  /\ write_idx' = 0 /\ count' = 0 /\ unmatched_count' = 0
  /\ pushed' = <<>> /\ expired' = {} /\ pair' = NoPair
  /\ inputs' = inputs + 1

SyncNext == \/ \E time \in Times : PushSecondary(time) \/ MatchPrimary(time) \/ MissPrimary(time)
            \/ ResetSync

SyncSpec == SyncInit /\ [][SyncNext]_syncVars

---------------------------------------------------------------------------
(* Properties                                                              *)

InOrder == \A i, j \in DOMAIN pushed : i < j => pushed[i] <= pushed[j]
Kept == {s \in Slot : InUse(s)}

\* fusion.rs:135-141: whatever the order of the inputs the buffer holds the last
\* CAPACITY secondary readings that no match has made too old, and a primary is
\* matched with the closest of them, or with none only when none is near.  The
\* length is never less than the number of readings held, and is exact as long as
\* the secondary readings came in the order of their times.
MatchIsClosest ==
  /\ {buffer[s].id : s \in Kept} = Window
  /\ \A s \in Kept : buffer[s].time = pushed[buffer[s].id]
  /\ pair.primary >= 0 =>
       IF pair.secondary = NoItem
       THEN \A i \in pair.window : AbsDiff(pushed[i], pair.primary) > Tolerance
       ELSE /\ pair.secondary.id \in pair.window
            /\ AbsDiff(pair.secondary.time, pair.primary) <= Tolerance
            /\ \A i \in pair.window :
                 AbsDiff(pushed[i], pair.primary) >= AbsDiff(pair.secondary.time, pair.primary)
  /\ Cardinality(Kept) <= count /\ count <= SyncCap
  /\ InOrder => count = Cardinality(Kept)
=============================================================================
