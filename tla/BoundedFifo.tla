---------------------------- MODULE BoundedFifo ----------------------------
(***************************************************************************)
(* What src/src/buffer promises to its two ends: a first-in first-out      *)
(* queue of at most Capacity items in which push, pop and peek are atomic. *)
(* A push answers "full" only at an instant at which the queue really      *)
(* holds Capacity items, and a pop or a peek answers "empty" only at an    *)
(* instant at which it really holds none.  RingBuffer implements this      *)
(* module (RingBuffer!Fifo), one memory access at a time.                  *)
(***************************************************************************)
EXTENDS Naturals, Sequences

CONSTANTS
  Capacity,   \* RingBuffer::capacity(): N - 1
  Producers,  \* push handles
  Consumers,  \* pop handles
  Values      \* the items

VARIABLES
  sent,       \* the items accepted by push, in the order of acceptance
  received,   \* the items returned by pop, in the order of return
  answer      \* what the last push, pop or peek answered, per handle

vars == <<sent, received, answer>>

Size == Len(sent) - Len(received)
Answer(h, a) == answer' = [answer EXCEPT ![h] = a]

Init ==
  /\ sent = << >>
  /\ received = << >>
  /\ answer = [h \in Producers \union Consumers |-> "none"]

PushOk(p, v) ==
  /\ Size < Capacity
  /\ sent' = Append(sent, v)
  /\ Answer(p, "ok")
  /\ UNCHANGED received

PushFull(p) ==
  /\ Size = Capacity
  /\ Answer(p, "full")
  /\ UNCHANGED <<sent, received>>

PopSome(c) ==
  /\ Size > 0
  /\ received' = Append(received, sent[Len(received) + 1])
  /\ Answer(c, "popped")
  /\ UNCHANGED sent

\* peek leaves the item it answers where it is.
PeekSome(c) ==
  /\ Size > 0
  /\ Answer(c, "peeked")
  /\ UNCHANGED <<sent, received>>

Empty(c) ==
  /\ Size = 0
  /\ Answer(c, "empty")
  /\ UNCHANGED <<sent, received>>

Next ==
  \/ \E p \in Producers : PushFull(p) \/ \E v \in Values : PushOk(p, v)
  \/ \E c \in Consumers : PopSome(c) \/ PeekSome(c) \/ Empty(c)

Spec == Init /\ [][Next]_vars
=============================================================================
