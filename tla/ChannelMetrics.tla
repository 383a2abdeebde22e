--------------------------- MODULE ChannelMetrics ---------------------------
(***************************************************************************)
(* A channel between two stages and the counters it keeps of itself:       *)
(* Sender, Receiver and ChannelMetrics of src/src/channel.                 *)
(*                                                                         *)
(* The queue is crossbeam's: a send or a receive takes effect in one step. *)
(* The counters are atomics of their own, written after that step, one     *)
(* read-modify-write at a time: between the two, other threads may go      *)
(* through whole operations.  Items are not told apart.                    *)
(***************************************************************************)
EXTENDS Integers, FiniteSets

CONSTANTS
  Cap,        \* the capacity given to bounded
  Senders,    \* clones of Sender
  Receivers,  \* clones of Receiver
  MaxSends,   \* bound: items that enter the channel
  MaxDrops,   \* bound: sends that find it full
  MaxResets   \* bound: calls of ChannelMetrics::reset

ASSUME CapAssumption == Cap \in Nat \ {0}
ASSUME HandlesAssumption == Senders \intersect Receivers = {}
ASSUME FiniteAssumption == IsFiniteSet(Senders) /\ IsFiniteSet(Receivers)
ASSUME BoundsAssumption == MaxSends \in Nat /\ MaxDrops \in Nat /\ MaxResets \in Nat

VARIABLES
  len,                              \* crossbeam: items in the channel
  sent, received, dropped, current_depth, max_depth,   \* ChannelMetrics
  pc,                               \* per handle: its step in record_*
  new_depth, max,                   \* per sender: locals of record_send
  resetting,                        \* reset: the counter that it stores next
  resets,                           \* history: calls of reset
  pushed, popped, refused, peak     \* history: what really happened

counters == <<sent, received, dropped, current_depth, max_depth>>
locals == <<new_depth, max>>
history == <<resets, pushed, popped, refused, peak>>
vars == <<len, counters, pc, locals, resetting, history>>

Handles == Senders \union Receivers
Goto(h, from, to) == pc[h] = from /\ pc' = [pc EXCEPT ![h] = to]
Larger(a, b) == IF a > b THEN a ELSE b

Init ==
  /\ len = 0
  /\ sent = 0 /\ received = 0 /\ dropped = 0 /\ current_depth = 0 /\ max_depth = 0
  /\ pc = [h \in Handles |-> "idle"]
  /\ new_depth = [s \in Senders |-> 0]
  /\ max = [s \in Senders |-> 0]
  /\ resetting = "none"
  /\ resets = 0
  /\ pushed = 0 /\ popped = 0 /\ refused = 0 /\ peak = 0

---------------------------------------------------------------------------
(* Sender: send, try_send, send_timeout, send_or_drop                      *)

\* The last handle of the other kind is gone: nothing happens, and nothing is
\* counted.
Connected(others) == \E h \in others : pc[h] # "gone"

Push(s) ==
  /\ Connected(Receivers) /\ len < Cap /\ pushed < MaxSends
  /\ Goto(s, "idle", "countSent")
  /\ len' = len + 1
  /\ pushed' = pushed + 1
  /\ UNCHANGED <<counters, locals, resetting, resets, popped, refused, peak>>

CountSent(s) ==
  /\ Goto(s, "countSent", "addDepth")
  /\ sent' = sent + 1
  /\ UNCHANGED <<len, received, dropped, current_depth, max_depth, locals, resetting, history>>

AddDepth(s) ==
  /\ Goto(s, "addDepth", "loadMax")
  /\ current_depth' = current_depth + 1
  /\ new_depth' = [new_depth EXCEPT ![s] = current_depth + 1]
  /\ peak' = Larger(peak, current_depth + 1)
  /\ UNCHANGED <<len, sent, received, dropped, max_depth, max, resetting, resets, pushed,
                 popped, refused>>

LoadMax(s) ==
  /\ Goto(s, "loadMax", "raiseMax")
  /\ max' = [max EXCEPT ![s] = max_depth]
  /\ UNCHANGED <<len, counters, new_depth, resetting, history>>

MaxIsEnough(s) ==
  /\ new_depth[s] <= max[s]
  /\ Goto(s, "raiseMax", "idle")
  /\ UNCHANGED <<len, counters, locals, resetting, history>>

\* Mutant: a store in place of the compare-and-exchange.
StoreMax(s) ==
  /\ new_depth[s] > max[s]
  /\ Goto(s, "raiseMax", "idle")
  /\ max_depth' = new_depth[s]
  /\ UNCHANGED <<len, sent, received, dropped, current_depth, locals, resetting, history>>

RaiseMax(s) ==
  /\ new_depth[s] > max[s]
  /\ max_depth = max[s]
  /\ Goto(s, "raiseMax", "idle")
  /\ max_depth' = new_depth[s]
  /\ UNCHANGED <<len, sent, received, dropped, current_depth, locals, resetting, history>>

\* The exchange fails, if only spuriously (compare_exchange_weak).
RaiseFails(s) ==
  /\ new_depth[s] > max[s]
  /\ pc[s] = "raiseMax"
  /\ max' = [max EXCEPT ![s] = max_depth]
  /\ UNCHANGED <<len, counters, pc, new_depth, resetting, history>>

\* try_send finds the channel full, or send_timeout finds it so to the end.
Refuse(s) ==
  /\ Connected(Receivers) /\ len = Cap /\ refused < MaxDrops
  /\ Goto(s, "idle", "countDropped")
  /\ refused' = refused + 1
  /\ UNCHANGED <<len, counters, locals, resetting, resets, pushed, popped, peak>>

\* Mutant: a full channel is not counted.
DropUncounted(s) ==
  /\ Goto(s, "countDropped", "idle")
  /\ UNCHANGED <<len, counters, locals, resetting, history>>

CountDropped(s) ==
  /\ Goto(s, "countDropped", "idle")
  /\ dropped' = dropped + 1
  /\ UNCHANGED <<len, sent, received, current_depth, max_depth, locals, resetting, history>>

---------------------------------------------------------------------------
(* Receiver: recv, try_recv, recv_timeout, recv_deadline                   *)

Pop(r) ==
  /\ len > 0
  /\ Goto(r, "idle", "countReceived")
  /\ len' = len - 1
  /\ popped' = popped + 1
  /\ UNCHANGED <<counters, locals, resetting, resets, pushed, refused, peak>>

CountReceived(r) ==
  /\ Goto(r, "countReceived", "subDepth")
  /\ received' = received + 1
  /\ UNCHANGED <<len, sent, dropped, current_depth, max_depth, locals, resetting, history>>

\* Mutant: without saturating_sub the counter would wrap around.
SubDepthUnchecked(r) ==
  /\ Goto(r, "subDepth", "idle")
  /\ current_depth' = current_depth - 1
  /\ UNCHANGED <<len, sent, received, dropped, max_depth, locals, resetting, history>>

\* Mutant: two are taken off.
SubDepthTwice(r) ==
  /\ Goto(r, "subDepth", "idle")
  /\ current_depth' = IF current_depth > 1 THEN current_depth - 2 ELSE 0
  /\ UNCHANGED <<len, sent, received, dropped, max_depth, locals, resetting, history>>

\* saturating_sub: nothing is taken off a depth of 0.
SubDepth(r) ==
  /\ Goto(r, "subDepth", "idle")
  /\ current_depth' = IF current_depth > 0 THEN current_depth - 1 ELSE 0
  /\ UNCHANGED <<len, sent, received, dropped, max_depth, locals, resetting, history>>

\* A handle is dropped; the last receiver takes the items with it.
DropHandle(h) ==
  /\ Goto(h, "idle", "gone")
  /\ len' = IF h \in Receivers /\ \A r \in Receivers \ {h} : pc[r] = "gone" THEN 0 ELSE len
  /\ UNCHANGED <<counters, locals, resetting, history>>

---------------------------------------------------------------------------
(* ChannelMetrics::reset, five stores                                      *)

ResetStart ==
  /\ resetting = "none" /\ resets < MaxResets
  /\ resetting' = "sent"
  /\ resets' = resets + 1
  /\ UNCHANGED <<len, counters, pc, locals, pushed, popped, refused, peak>>

ResetNext ==
  /\ \/ resetting = "sent" /\ resetting' = "received"
        /\ sent' = 0 /\ UNCHANGED <<received, dropped, current_depth, max_depth>>
     \/ resetting = "received" /\ resetting' = "dropped"
        /\ received' = 0 /\ UNCHANGED <<sent, dropped, current_depth, max_depth>>
     \/ resetting = "dropped" /\ resetting' = "current_depth"
        /\ dropped' = 0 /\ UNCHANGED <<sent, received, current_depth, max_depth>>
     \/ resetting = "current_depth" /\ resetting' = "max_depth"
        /\ current_depth' = 0 /\ UNCHANGED <<sent, received, dropped, max_depth>>
     \/ resetting = "max_depth" /\ resetting' = "none"
        /\ max_depth' = 0 /\ UNCHANGED <<sent, received, dropped, current_depth>>
  /\ UNCHANGED <<len, pc, locals, history>>

---------------------------------------------------------------------------
Record(s) == \/ CountSent(s) \/ AddDepth(s) \/ LoadMax(s) \/ MaxIsEnough(s)
             \/ RaiseMax(s) \/ RaiseFails(s) \/ CountDropped(s)

Next ==
  \/ \E s \in Senders : Push(s) \/ Refuse(s) \/ Record(s)
  \/ \E r \in Receivers : Pop(r) \/ CountReceived(r) \/ SubDepth(r)
  \/ \E h \in Handles : DropHandle(h)
  \/ ResetStart \/ ResetNext

Spec == Init /\ [][Next]_vars

---------------------------------------------------------------------------
(* Properties                                                              *)

\* The types of the variables; current_depth is an unsigned word, and the real
\* channel never holds more than its capacity.
TypeOK ==
  /\ len \in 0..Cap
  /\ sent \in Nat /\ received \in Nat /\ dropped \in Nat
  /\ current_depth \in Nat /\ max_depth \in Nat
  /\ pc \in [Handles -> {"idle", "countSent", "addDepth", "loadMax", "raiseMax", "countDropped",
                         "countReceived", "subDepth", "gone"}]
  /\ new_depth \in [Senders -> Nat]
  /\ max \in [Senders -> Nat]
  /\ resetting \in {"none", "sent", "received", "dropped", "current_depth", "max_depth"}
  /\ resets \in Nat /\ pushed \in Nat /\ popped \in Nat /\ refused \in Nat /\ peak \in Nat

Resting == /\ \A h \in Handles : pc[h] \in {"idle", "gone"}
           /\ resetting = "none"
Open == Connected(Receivers)

\* Whenever no operation is under way the totals are exact, whatever order the
\* counters were written in: record_send, record_receive, record_drop.
TotalsSettle ==
  (Resting /\ resets = 0) => sent = pushed /\ received = popped /\ dropped = refused

\* current_depth may lag behind by the sends that are being recorded, but never
\* shows less than is in the channel otherwise: pressure is never understated.
DepthNotUnderstated ==
  resets = 0 => \/ ~Open
                \/ \E s \in Senders : pc[s] \in {"countSent", "addDepth"}
                \/ current_depth >= len

\* max_depth is the high water mark: whatever the interleaving of the senders'
\* loops, once they are through it is the largest depth any of them computed.
HighWaterMark ==
  (resets = 0 /\ \A s \in Senders : pc[s] \in {"idle", "gone", "countSent", "addDepth", "countDropped"})
    => max_depth = peak

\* metrics.rs:67 "Saturating sub to handle race conditions where depth could go
\* negative": at rest the depth is the number of items in the channel.
DepthSettles ==
  (Resting /\ resets = 0 /\ Open) => current_depth = len
=============================================================================
