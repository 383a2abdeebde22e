----------------------------- MODULE RingBuffer -----------------------------
(***************************************************************************)
(* The lock-free single-producer single-consumer ring buffer of            *)
(* src/src/buffer/ring.rs and the owned handles of split.rs.               *)
(*                                                                         *)
(* One action is one access to shared memory: a load or store of head or   *)
(* tail, or the copy of an item into or out of a slot.  The Release store  *)
(* of an index after the slot access, and the Acquire load before it, give *)
(* these steps the order in which they are written here; the loads return  *)
(* the latest value.  Producers and Consumers are the handles that calls   *)
(* of split(&self) have returned: one call gives one of each, and the      *)
(* theorems about this module assume one call (SingleSplit).               *)
(***************************************************************************)
EXTENDS Integers, Sequences

CONSTANTS
  N,          \* the const parameter N: the number of slots
  Producers,  \* Producer / OwnedProducer handles
  Consumers,  \* Consumer / OwnedConsumer handles
  Values,     \* the items that are pushed
  None,       \* no item: an uninitialised slot, or one that was moved out of
  MaxPushes   \* bound: no push begins once this many were accepted

\* assert_power_of_two, evaluated when the program is compiled.
IsPowerOfTwo(n) == n > 0 /\ \E k \in 0..n : n = 2^k

ASSUME NAssumption == N \in Nat /\ IsPowerOfTwo(N)
ASSUME NoneAssumption == None \notin Values
ASSUME HandlesAssumption == Producers \intersect Consumers = {}
ASSUME MaxPushesAssumption == MaxPushes \in Nat

VARIABLES
  head,       \* the next slot to write: stored by the producer
  tail,       \* the next slot to read: stored by the consumer
  slots,      \* the array of MaybeUninit<T>
  pc,         \* per handle: its step inside push, pop, peek or len
  idx,        \* per handle: its local copy of head or tail
  val,        \* per handle: the item in its hands
  seen,       \* per handle: what len last told it, until its next push or pop
  answer,     \* per handle: what its last push, pop or peek answered
  sent,       \* history: the items accepted by push
  received,   \* history: the items returned by pop
  dropped,    \* history: the items dropped with the buffer
  alive       \* the buffer has not been dropped

shared == <<head, tail, slots>>
locals == <<pc, idx, val, seen, answer>>
history == <<sent, received, dropped>>
vars == <<shared, locals, history, alive>>

Handles == Producers \union Consumers
Slots == 0 .. N-1
Capacity == N - 1

---------------------------------------------------------------------------
(* Index arithmetic: & (N - 1) on a power of two is % N.                   *)

\* Mutants: a forgotten mask; an occupancy computed the wrong way round.
NextIndexUnmasked(i) == i + 1
DistanceReversed(h, t) == (t - h) % N

NextIndex(i) == (i + 1) % N

\* len(): head.wrapping_sub(tail) & (N - 1); is_empty() is 0 of it and
\* is_full() is N - 1 of it.
Distance(h, t) == (h - t) % N

Occupied == Distance(head, tail)

\* What a handle may assume of the occupancy before it has asked: a producer at
\* most all of the capacity, a consumer at least nothing.
Unknown(h) == IF h \in Producers THEN Capacity ELSE 0

Goto(h, from, to) == pc[h] = from /\ pc' = [pc EXCEPT ![h] = to]
Return(h, a) == /\ answer' = [answer EXCEPT ![h] = a]
                /\ seen' = [seen EXCEPT ![h] = Unknown(h)]

---------------------------------------------------------------------------
Init ==
  /\ head = 0
  /\ tail = 0
  /\ slots = [i \in Slots |-> None]
  /\ pc = [h \in Handles |-> "idle"]
  /\ idx = [h \in Handles |-> 0]
  /\ val = [h \in Handles |-> None]
  /\ seen = [h \in Handles |-> Unknown(h)]
  /\ answer = [h \in Handles |-> "none"]
  /\ sent = << >>
  /\ received = << >>
  /\ dropped = << >>
  /\ alive = TRUE

---------------------------------------------------------------------------
(* push_internal                                                           *)

PushLoadHead(p) ==
  /\ Goto(p, "idle", "pushCheck")
  /\ Len(sent) < MaxPushes
  /\ idx' = [idx EXCEPT ![p] = head]
  /\ \E v \in Values : val' = [val EXCEPT ![p] = v]
  /\ UNCHANGED <<shared, seen, answer, history, alive>>

\* Mutants of PushFull: the test is made on head itself, and so also takes an
\* empty buffer for a full one; push waits for room.
PushFullOnHead(p) ==
  /\ idx[p] = tail
  /\ Goto(p, "pushCheck", "idle")
  /\ Return(p, "full")
  /\ UNCHANGED <<shared, idx, val, history, alive>>

PushWaits(p) == pc[p] = "pushCheck" /\ NextIndex(idx[p]) = tail /\ UNCHANGED vars

PushFull(p) ==
  /\ NextIndex(idx[p]) = tail
  /\ Goto(p, "pushCheck", "idle")
  /\ Return(p, "full")
  /\ UNCHANGED <<shared, idx, val, history, alive>>

\* Mutant: the test for a full buffer is left out.
PushUnchecked(p) ==
  /\ Goto(p, "pushCheck", "pushWrite")
  /\ UNCHANGED <<shared, idx, val, seen, answer, history, alive>>

PushRoom(p) ==
  /\ NextIndex(idx[p]) # tail
  /\ Goto(p, "pushCheck", "pushWrite")
  /\ UNCHANGED <<shared, idx, val, seen, answer, history, alive>>

PushWrite(p) ==
  /\ Goto(p, "pushWrite", "pushStore")
  /\ slots' = [slots EXCEPT ![idx[p]] = val[p]]
  /\ UNCHANGED <<head, tail, idx, val, seen, answer, history, alive>>

\* The Release store of head: the item is in the queue.
PushStoreHead(p) ==
  /\ Goto(p, "pushStore", "idle")
  /\ head' = NextIndex(idx[p])
  /\ sent' = Append(sent, val[p])
  /\ Return(p, "ok")
  /\ UNCHANGED <<tail, slots, idx, val, received, dropped, alive>>

---------------------------------------------------------------------------
(* pop_internal and peek_internal                                          *)

PopLoadTail(c) ==
  /\ Goto(c, "idle", "popCheck") \/ Goto(c, "idle", "peekCheck")
  /\ idx' = [idx EXCEPT ![c] = tail]
  /\ UNCHANGED <<shared, val, seen, answer, history, alive>>

PopEmpty(c) ==
  /\ idx[c] = head
  /\ Goto(c, "popCheck", "idle") \/ Goto(c, "peekCheck", "idle")
  /\ Return(c, "empty")
  /\ UNCHANGED <<shared, idx, val, history, alive>>

\* Mutant of PopSome: pop does not look whether there is an item.
PopUnchecked(c) ==
  /\ Goto(c, "popCheck", "popRead")
  /\ UNCHANGED <<shared, idx, val, seen, answer, history, alive>>

PopSome(c) ==
  /\ idx[c] # head
  /\ Goto(c, "popCheck", "popRead")
  /\ UNCHANGED <<shared, idx, val, seen, answer, history, alive>>

\* assume_init_read moves the item out: the slot holds no item any more.
PopRead(c) ==
  /\ Goto(c, "popRead", "popStore")
  /\ val' = [val EXCEPT ![c] = slots[idx[c]]]
  /\ slots' = [slots EXCEPT ![idx[c]] = None]
  /\ UNCHANGED <<head, tail, idx, seen, answer, history, alive>>

\* The Release store of tail: the slot is the producer's again.
PopStoreTail(c) ==
  /\ Goto(c, "popStore", "idle")
  /\ tail' = NextIndex(idx[c])
  /\ received' = Append(received, val[c])
  /\ Return(c, "popped")
  /\ UNCHANGED <<head, slots, idx, val, sent, dropped, alive>>

\* peek answers a reference into the slot, which the caller holds for a
\* while (pc = "peeking") before it calls the handle again.
PeekSome(c) ==
  /\ idx[c] # head
  /\ Goto(c, "peekCheck", "peeking")
  /\ val' = [val EXCEPT ![c] = slots[idx[c]]]
  /\ Return(c, "peeked")
  /\ UNCHANGED <<shared, idx, history, alive>>

PeekEnd(c) ==
  /\ Goto(c, "peeking", "idle")
  /\ UNCHANGED <<shared, idx, val, seen, answer, history, alive>>

---------------------------------------------------------------------------
(* len, is_full and is_empty of either handle: head is loaded, then tail.  *)

LenLoadHead(h) ==
  /\ Goto(h, "idle", "len")
  /\ idx' = [idx EXCEPT ![h] = head]
  /\ UNCHANGED <<shared, val, seen, answer, history, alive>>

LenLoadTail(h) ==
  /\ Goto(h, "len", "idle")
  /\ seen' = [seen EXCEPT ![h] = Distance(idx[h], tail)]
  /\ UNCHANGED <<shared, idx, val, answer, history, alive>>

---------------------------------------------------------------------------
(* Dropping the handles, and the buffer with the last of them.             *)

DropHandle(h) ==
  /\ Goto(h, "idle", "gone")
  /\ UNCHANGED <<shared, idx, val, seen, answer, history, alive>>

\* Mutant: the buffer is dropped without the items still in it.
DropSlotsOnly ==
  /\ alive
  /\ \A h \in Handles : pc[h] = "gone"
  /\ alive' = FALSE
  /\ UNCHANGED <<shared, locals, history>>

\* Drop for RingBuffer: every slot from tail up to head is dropped in turn.
DropBuffer ==
  /\ alive
  /\ \A h \in Handles : pc[h] = "gone"
  /\ alive' = FALSE
  /\ dropped' = [k \in 1..Occupied |-> slots[(tail + k - 1) % N]]
  /\ slots' = [i \in Slots |-> IF Distance(i, tail) < Occupied THEN None ELSE slots[i]]
  /\ UNCHANGED <<head, tail, locals, sent, received>>

---------------------------------------------------------------------------
\* What is left of a push, or of a pop, once it has begun.
PushEnds(p) == PushFull(p) \/ PushRoom(p) \/ PushWrite(p) \/ PushStoreHead(p)
PopEnds(c) == PopEmpty(c) \/ PopSome(c) \/ PopRead(c) \/ PopStoreTail(c)

Push(p) == PushLoadHead(p) \/ PushEnds(p)
PopOrPeek(c) == PopLoadTail(c) \/ PopEnds(c) \/ PeekSome(c) \/ PeekEnd(c)
LenOrDrop(h) == LenLoadHead(h) \/ LenLoadTail(h) \/ DropHandle(h)

Next ==
  \/ \E p \in Producers : Push(p)
  \/ \E c \in Consumers : PopOrPeek(c)
  \/ \E h \in Handles : LenOrDrop(h)
  \/ DropBuffer

Spec == Init /\ [][Next]_vars

---------------------------------------------------------------------------
(* Properties                                                              *)

\* One call of split, and so one handle of each kind.
SingleSplit == /\ \A p, q \in Producers : p = q
               /\ \A c, d \in Consumers : c = d

Items == Values \union {None}
Pcs == {"idle", "pushCheck", "pushWrite", "pushStore", "popCheck", "popRead",
        "popStore", "peekCheck", "peeking", "len", "gone"}

\* The types of the variables.  An index is always a slot of the array, which
\* get_unchecked in push_internal, pop_internal and peek_internal relies on.
TypeOK ==
  /\ head \in Slots
  /\ tail \in Slots
  /\ slots \in [Slots -> Items]
  /\ pc \in [Handles -> Pcs]
  /\ idx \in [Handles -> Slots]
  /\ val \in [Handles -> Items]
  /\ seen \in [Handles -> Slots]
  /\ answer \in [Handles -> {"none", "ok", "full", "popped", "peeked", "empty"}]
  /\ sent \in Seq(Items)
  /\ received \in Seq(Items)
  /\ dropped \in Seq(Items)
  /\ alive \in BOOLEAN

\* The consumer gets the items that the producer had accepted, all of them, in
\* their order, none twice and none made up: push_internal / pop_internal.
FirstInFirstOut ==
  /\ Len(received) <= Len(sent)
  /\ \A i \in 1..Len(received) : received[i] = sent[i]

\* The comments marked SAFETY in push_internal, pop_internal and peek_internal:
\* while the producer writes a slot no consumer reads it, moves the item out of
\* it or holds a reference into it.
NoSlotRace ==
  \A p \in Producers, c \in Consumers :
    (pc[p] = "pushWrite" /\ pc[c] \in {"popRead", "peeking"}) => idx[p] # idx[c]

\* assume_init_read never reads a slot that holds no item, and slot.write never
\* overwrites an item that was not yet read (it would never be dropped).
SlotsUsedOnce ==
  /\ \A p \in Producers : pc[p] = "pushWrite" => slots[idx[p]] = None
  /\ \A c \in Consumers : pc[c] = "popRead" => slots[idx[c]] # None

\* What len, is_full or is_empty told an end stays a bound on its side until that
\* end moves, whatever the other end does meanwhile: a producer that saw room
\* has room, a consumer that saw an item has one.
LenStaysABound ==
  /\ \A p \in Producers : Len(sent) - Len(received) <= seen[p]
  /\ \A c \in Consumers : Len(sent) - Len(received) >= seen[c]

\* The reference that peek answered still shows the item it showed at first, and
\* that is the item the next pop will answer, however many pushes come between.
PeekedItemStays ==
  \A c \in Consumers : pc[c] = "peeking" =>
    /\ slots[idx[c]] = val[c]
    /\ val[c] = sent[Len(received) + 1]

\* Once the buffer is dropped every accepted item was received or dropped with
\* the buffer, once, in order, and no slot still holds one.
EachItemLeavesOnce ==
  ~alive => /\ Len(received) + Len(dropped) = Len(sent)
            /\ \A k \in 1..Len(dropped) : dropped[k] = sent[Len(received) + k]
            /\ \A i \in Slots : slots[i] = None

\* RingBuffer implements the abstract queue: a push takes effect with its store of
\* head, a pop with its store of tail, "full" and "empty" with the load of the
\* other end's index.
Fifo == INSTANCE BoundedFifo
ImplementsFifo == Fifo!Spec

\* The buffer is lock-free, even wait-free: an end that goes on running completes
\* its push or its pop even if the other end stops for ever in mid-operation (the
\* premise asks fairness of the end itself alone).
WaitFree ==
  /\ \A p \in Producers : WF_vars(PushEnds(p)) =>
        (pc[p] = "pushCheck" ~> pc[p] = "idle")
  /\ \A c \in Consumers : WF_vars(PopEnds(c)) =>
        (pc[c] = "popCheck" ~> pc[c] = "idle")
=============================================================================
