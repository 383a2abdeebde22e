------------------------- MODULE ChannelMetricsProofs -------------------------
(***************************************************************************)
(* Proofs about ChannelMetrics, for every capacity and any number of       *)
(* senders and receivers.  The counters are written after the fact, so     *)
(* each of them is behind by the handles that stand between the operation  *)
(* and its record: Accounts says by how much, and MaxOK what the senders   *)
(* in the compare-and-exchange loop of record_send still hold.             *)
(***************************************************************************)
EXTENDS ChannelMetrics, FiniteSetTheorems, TLAPS

---------------------------------------------------------------------------
(* Counting the handles at a step                                          *)

At(steps) == {h \in Handles : pc[h] \in steps}
Number(steps) == Cardinality(At(steps))

LEMMA HandlesFinite == IsFiniteSet(Handles)
  BY FiniteAssumption, FS_Union DEF Handles

LEMMA NumberIsNat == \A S : IsFiniteSet(At(S)) /\ Number(S) \in Nat
<1> TAKE S
<1>1. At(S) \in SUBSET Handles
  BY DEF At
<1>2. IsFiniteSet(At(S))
  BY <1>1, HandlesFinite, FS_Subset
<1> QED
  BY <1>2, FS_CardinalityType DEF Number

\* A handle that moves enters the steps that hold its new place, and leaves
\* those that held its old one.
LEMMA Moves ==
  ASSUME TypeOK, NEW h \in Handles, NEW from, NEW to, Goto(h, from, to)
  PROVE  \A S : Number(S)' = Number(S) + (IF to \in S THEN 1 ELSE 0) - (IF from \in S THEN 1 ELSE 0)
<1> TAKE S
<1> DEFINE Others == {g \in Handles \ {h} : pc[g] \in S}
<1>1. /\ pc \in [Handles -> {pc[g] : g \in Handles}] /\ pc[h] = from
      /\ pc' = [pc EXCEPT ![h] = to]
  BY DEF TypeOK, Goto
<1>2. IsFiniteSet(Others) /\ h \notin Others
  <2>1. Others \in SUBSET Handles
    OBVIOUS
  <2> QED
    BY <2>1, HandlesFinite, FS_Subset
<1>3. /\ At(S) = IF from \in S THEN Others \cup {h} ELSE Others
      /\ At(S)' = IF to \in S THEN Others \cup {h} ELSE Others
  BY <1>1 DEF At
<1>4. Cardinality(Others) \in Nat /\ Cardinality(Others \cup {h}) = Cardinality(Others) + 1
  BY <1>2, FS_CardinalityType, FS_AddElement
<1>5. /\ Number(S) = IF from \in S THEN Cardinality(Others) + 1 ELSE Cardinality(Others)
      /\ Number(S)' = IF to \in S THEN Cardinality(Others) + 1 ELSE Cardinality(Others)
  BY <1>3, <1>4 DEF Number
<1> HIDE DEF Others
<1> QED
  BY <1>4, <1>5

\* The handles that have sent, received or been refused and not counted it, and those
\* that have yet to add to the depth or to take off it.
Unsent == Number({"countSent"})
Unreceived == Number({"countReceived"})
Undropped == Number({"countDropped"})
Adding == Number({"countSent", "addDepth"})
Subtracting == Number({"countReceived", "subDepth"})
Is(place, S) == IF place \in S THEN 1 ELSE 0

LEMMA NumbersMove ==
  ASSUME TypeOK, NEW h \in Handles, NEW from, NEW to, Goto(h, from, to)
  PROVE  /\ Unsent' = Unsent + Is(to, {"countSent"}) - Is(from, {"countSent"})
         /\ Unreceived' = Unreceived + Is(to, {"countReceived"}) - Is(from, {"countReceived"})
         /\ Undropped' = Undropped + Is(to, {"countDropped"}) - Is(from, {"countDropped"})
         /\ Adding' = Adding + Is(to, {"countSent", "addDepth"}) - Is(from, {"countSent", "addDepth"})
         /\ Subtracting' = Subtracting + Is(to, {"countReceived", "subDepth"})
                                      - Is(from, {"countReceived", "subDepth"})
<1>1. \A S : Number(S)' = Number(S) + Is(to, S) - Is(from, S)
  BY Moves DEF Is
<1> QED
  BY <1>1 DEF Unsent, Unreceived, Undropped, Adding, Subtracting

LEMMA NumbersStay ==
  pc' = pc => UNCHANGED <<Unsent, Unreceived, Undropped, Adding, Subtracting>>
  BY DEF Number, At, Unsent, Unreceived, Undropped, Adding, Subtracting

LEMMA NumbersAreNat ==
  /\ Unsent \in Nat /\ Unreceived \in Nat /\ Undropped \in Nat
  /\ Adding \in Nat /\ Subtracting \in Nat
  BY NumberIsNat DEF Unsent, Unreceived, Undropped, Adding, Subtracting

LEMMA NobodyThere ==
  ASSUME NEW S, \A h \in Handles : pc[h] \notin S
  PROVE  Number(S) = 0
<1>1. At(S) = {}
  BY DEF At
<1> QED
  BY <1>1, FS_EmptySet DEF Number

---------------------------------------------------------------------------
(* Type correctness                                                        *)

\* The types hold in every state: in particular the depth, an unsigned word, never
\* goes below zero and the channel never holds more than its capacity.
THEOREM TypeCorrect == Spec => []TypeOK
<1>1. Init => TypeOK
  BY CapAssumption DEF Init, TypeOK
<1>2. TypeOK /\ [Next]_vars => TypeOK'
  <2> SUFFICES ASSUME TypeOK, [Next]_vars PROVE TypeOK'
    OBVIOUS
  <2> USE CapAssumption DEF TypeOK, counters, locals, history, Goto, Handles
  <2>1. ASSUME NEW s \in Senders, Push(s) \/ Refuse(s) PROVE TypeOK'
    BY <2>1 DEF Push, Refuse
  <2>2. ASSUME NEW s \in Senders, Record(s) PROVE TypeOK'
    <3>1. CASE CountSent(s) \/ CountDropped(s)
      BY <3>1 DEF CountSent, CountDropped
    <3>2. CASE AddDepth(s)
      BY <3>2 DEF AddDepth, Larger
    <3>3. CASE LoadMax(s) \/ MaxIsEnough(s)
      BY <3>3 DEF LoadMax, MaxIsEnough
    <3>4. CASE RaiseMax(s) \/ RaiseFails(s)
      BY <3>4 DEF RaiseMax, RaiseFails
    <3> QED
      BY <2>2, <3>1, <3>2, <3>3, <3>4 DEF Record
  <2>3. ASSUME NEW r \in Receivers, Pop(r) \/ CountReceived(r) \/ SubDepth(r) PROVE TypeOK'
    BY <2>3 DEF Pop, CountReceived, SubDepth
  <2>4. ASSUME NEW h \in Handles, DropHandle(h) PROVE TypeOK'
    BY <2>4 DEF DropHandle
  <2>5. CASE ResetStart \/ ResetNext
    BY <2>5 DEF ResetStart, ResetNext
  <2>6. CASE UNCHANGED vars
    BY <2>6 DEF vars
  <2> QED
    BY <2>1, <2>2, <2>3, <2>4, <2>5, <2>6 DEF Next
<1> QED
  BY <1>1, <1>2, PTL DEF Spec

---------------------------------------------------------------------------
(* The invariant                                                           *)

\* Until a reset, each counter is behind what happened by the handles that have
\* not recorded it yet; the depth is at least what is in the channel once the
\* additions under way are in, even if those of the receivers never come.
Accounts ==
  resets = 0 =>
    /\ sent + Unsent = pushed
    /\ received + Unreceived = popped
    /\ dropped + Undropped = refused
    /\ current_depth + Adding >= len + Subtracting

\* A receiver has no send to record, and a reset that is under way has begun.
Places ==
  /\ \A r \in Receivers : pc[r] \in {"idle", "countReceived", "subDepth", "gone"}
  /\ resetting # "none" => resets > 0

\* The largest depth is in max_depth, or a sender that computed it is in its loop.
InLoop(s) == pc[s] \in {"loadMax", "raiseMax"}
MaxOK ==
  resets = 0 =>
    /\ max_depth <= peak
    /\ \A s \in Senders : /\ InLoop(s) => new_depth[s] <= peak
                          /\ pc[s] = "raiseMax" => max[s] <= max_depth
    /\ max_depth = peak \/ \E s \in Senders : InLoop(s) /\ new_depth[s] = peak

IInv == TypeOK /\ Places /\ Accounts /\ MaxOK

LEMMA InvInit == Init => IInv
<1> SUFFICES ASSUME Init PROVE IInv
  OBVIOUS
<1>1. TypeOK
  BY CapAssumption DEF Init, TypeOK
<1>2. Places
  BY DEF Init, Places, Handles
<1>3. Unsent = 0 /\ Unreceived = 0 /\ Undropped = 0 /\ Adding = 0 /\ Subtracting = 0
  BY NobodyThere DEF Init, Unsent, Unreceived, Undropped, Adding, Subtracting
<1>4. Accounts
  BY <1>3 DEF Init, Accounts
<1>5. MaxOK
  BY DEF Init, MaxOK
<1> QED
  BY <1>1, <1>2, <1>4, <1>5 DEF IInv

LEMMA PlacesNext == IInv /\ [Next]_vars => Places'
<1> SUFFICES ASSUME TypeOK, Places, [Next]_vars PROVE Places'
  BY DEF IInv
<1> USE DEF Places, counters, locals, history, Goto, Handles
<1>1. pc \in [Handles -> {pc[h] : h \in Handles}] /\ resets \in Nat
  BY DEF TypeOK
<1>2. ASSUME NEW s \in Senders, Push(s) \/ Refuse(s) \/ Record(s) PROVE Places'
  BY <1>1, <1>2, HandlesAssumption DEF Push, Refuse, Record, CountSent, AddDepth, LoadMax,
     MaxIsEnough, RaiseMax, RaiseFails, CountDropped
<1>3. ASSUME NEW r \in Receivers, Pop(r) \/ CountReceived(r) \/ SubDepth(r) PROVE Places'
  BY <1>1, <1>3 DEF Pop, CountReceived, SubDepth
<1>4. ASSUME NEW h \in Handles, DropHandle(h) PROVE Places'
  BY <1>1, <1>4 DEF DropHandle
<1>5. CASE ResetStart \/ ResetNext
  BY <1>1, <1>5 DEF ResetStart, ResetNext
<1>6. CASE UNCHANGED vars
  BY <1>6 DEF vars
<1> QED
  BY <1>2, <1>3, <1>4, <1>5, <1>6 DEF Next

\* What a step of a handle does to its counter is made up for by its move.
LEMMA AccountsNext == IInv /\ [Next]_vars => Accounts'
<1> SUFFICES ASSUME TypeOK, Places, Accounts, [Next]_vars PROVE Accounts'
  BY DEF IInv
<1> DEFINE Moved(h, from, to) ==
      /\ Unsent' = Unsent + Is(to, {"countSent"}) - Is(from, {"countSent"})
      /\ Unreceived' = Unreceived + Is(to, {"countReceived"}) - Is(from, {"countReceived"})
      /\ Undropped' = Undropped + Is(to, {"countDropped"}) - Is(from, {"countDropped"})
      /\ Adding' = Adding + Is(to, {"countSent", "addDepth"}) - Is(from, {"countSent", "addDepth"})
      /\ Subtracting' = Subtracting + Is(to, {"countReceived", "subDepth"})
                                   - Is(from, {"countReceived", "subDepth"})
<1> USE DEF Is, counters, locals, history
<1>1. /\ Unsent \in Nat /\ Unreceived \in Nat /\ Undropped \in Nat
      /\ Adding \in Nat /\ Subtracting \in Nat
  BY NumbersAreNat
<1>2. /\ len \in Nat /\ sent \in Nat /\ received \in Nat /\ dropped \in Nat
      /\ current_depth \in Nat /\ resets \in Nat
      /\ pushed \in Nat /\ popped \in Nat /\ refused \in Nat
  BY CapAssumption DEF TypeOK
<1>3. ASSUME NEW h \in Handles, NEW from, NEW to, Goto(h, from, to) PROVE Moved(h, from, to)
  BY <1>3, NumbersMove
<1>4. ASSUME NEW s \in Senders, Push(s) PROVE Accounts'
  <2>1. Moved(s, "idle", "countSent")
    BY <1>3, <1>4 DEF Push, Handles
  <2> QED
    BY <1>1, <1>2, <1>4, <2>1 DEF Push, Accounts
<1>5. ASSUME NEW s \in Senders, Refuse(s) PROVE Accounts'
  <2>1. Moved(s, "idle", "countDropped")
    BY <1>3, <1>5 DEF Refuse, Handles
  <2> QED
    BY <1>1, <1>2, <1>5, <2>1 DEF Refuse, Accounts
<1>6. ASSUME NEW s \in Senders, CountSent(s) PROVE Accounts'
  <2>1. Moved(s, "countSent", "addDepth")
    BY <1>3, <1>6 DEF CountSent, Handles
  <2> QED
    BY <1>1, <1>2, <1>6, <2>1 DEF CountSent, Accounts
<1>7. ASSUME NEW s \in Senders, AddDepth(s) PROVE Accounts'
  <2>1. Moved(s, "addDepth", "loadMax")
    BY <1>3, <1>7 DEF AddDepth, Handles
  <2> QED
    BY <1>1, <1>2, <1>7, <2>1 DEF AddDepth, Accounts
<1>8. ASSUME NEW s \in Senders, LoadMax(s) PROVE Accounts'
  <2>1. Moved(s, "loadMax", "raiseMax")
    BY <1>3, <1>8 DEF LoadMax, Handles
  <2> QED
    BY <1>1, <1>2, <1>8, <2>1 DEF LoadMax, Accounts
<1>9. ASSUME NEW s \in Senders, MaxIsEnough(s) PROVE Accounts'
  <2>1. Moved(s, "raiseMax", "idle")
    BY <1>3, <1>9 DEF MaxIsEnough, Handles
  <2> QED
    BY <1>1, <1>2, <1>9, <2>1 DEF MaxIsEnough, Accounts
<1>10. ASSUME NEW s \in Senders, RaiseMax(s) PROVE Accounts'
  <2>1. Moved(s, "raiseMax", "idle")
    BY <1>3, <1>10 DEF RaiseMax, Handles
  <2> QED
    BY <1>1, <1>2, <1>10, <2>1 DEF RaiseMax, Accounts
<1>11. ASSUME NEW s \in Senders, CountDropped(s) PROVE Accounts'
  <2>1. Moved(s, "countDropped", "idle")
    BY <1>3, <1>11 DEF CountDropped, Handles
  <2> QED
    BY <1>1, <1>2, <1>11, <2>1 DEF CountDropped, Accounts
<1>12. ASSUME NEW r \in Receivers, Pop(r) PROVE Accounts'
  <2>1. Moved(r, "idle", "countReceived")
    BY <1>3, <1>12 DEF Pop, Handles
  <2> QED
    BY <1>1, <1>2, <1>12, <2>1 DEF Pop, Accounts
<1>13. ASSUME NEW r \in Receivers, CountReceived(r) PROVE Accounts'
  <2>1. Moved(r, "countReceived", "subDepth")
    BY <1>3, <1>13 DEF CountReceived, Handles
  <2> QED
    BY <1>1, <1>2, <1>13, <2>1 DEF CountReceived, Accounts
<1>14. ASSUME NEW r \in Receivers, SubDepth(r) PROVE Accounts'
  <2>1. Moved(r, "subDepth", "idle")
    BY <1>3, <1>14 DEF SubDepth, Handles
  <2> QED
    BY <1>1, <1>2, <1>14, <2>1 DEF SubDepth, Accounts
<1>15. ASSUME NEW h \in Handles, DropHandle(h) PROVE Accounts'
  <2>1. Moved(h, "idle", "gone")
    BY <1>3, <1>15 DEF DropHandle, Handles
  <2> QED
    BY <1>1, <1>2, <1>15, <2>1 DEF DropHandle, Accounts
<1>16. ASSUME NEW s \in Senders, RaiseFails(s) PROVE Accounts'
  <2>1. UNCHANGED <<Unsent, Unreceived, Undropped, Adding, Subtracting>>
    BY <1>16, NumbersStay DEF RaiseFails
  <2> QED
    BY <1>1, <1>2, <1>16, <2>1 DEF RaiseFails, Accounts
<1>17. CASE ResetStart \/ ResetNext
  BY <1>2, <1>17 DEF ResetStart, ResetNext, Accounts, Places
<1>18. CASE UNCHANGED vars
  <2>1. UNCHANGED <<Unsent, Unreceived, Undropped, Adding, Subtracting>>
    BY <1>18, NumbersStay DEF vars
  <2> QED
    BY <1>18, <2>1 DEF vars, Accounts
<1> QED
  BY <1>4, <1>5, <1>6, <1>7, <1>8, <1>9, <1>10, <1>11, <1>12, <1>13, <1>14, <1>15, <1>16, <1>17, <1>18 DEF Next, Record

\* The loop of record_send: max_depth only grows, so that what a sender has loaded
\* is never more than it.
LEMMA MaxNext == IInv /\ [Next]_vars => MaxOK'
<1> SUFFICES ASSUME IInv, [Next]_vars PROVE MaxOK'
  OBVIOUS
<1> USE DEF IInv, MaxOK, InLoop, counters, locals, history, Goto
<1>1. /\ pc \in [Handles -> {pc[h] : h \in Handles}]
      /\ new_depth \in [Senders -> Nat] /\ max \in [Senders -> Nat]
      /\ current_depth \in Nat /\ max_depth \in Nat /\ peak \in Nat /\ resets \in Nat
  BY DEF TypeOK
<1>2. Senders \subseteq Handles /\ \A r \in Receivers : r \notin Senders /\ r \in Handles
  BY HandlesAssumption DEF Handles
<1>3. ASSUME NEW s \in Senders,
             Push(s) \/ Refuse(s) \/ CountSent(s) \/ CountDropped(s)
      PROVE  MaxOK'
  BY <1>1, <1>2, <1>3 DEF Push, Refuse, CountSent, CountDropped
<1>4. ASSUME NEW s \in Senders, AddDepth(s) PROVE MaxOK'
  <2>1. /\ pc' = [pc EXCEPT ![s] = "loadMax"] /\ pc[s] = "addDepth"
        /\ new_depth' = [new_depth EXCEPT ![s] = current_depth + 1]
        /\ UNCHANGED <<max_depth, max, resets>>
        /\ peak' >= peak /\ peak' >= current_depth + 1
        /\ peak' = peak \/ peak' = current_depth + 1
    BY <1>1, <1>4 DEF AddDepth, Larger
  <2>2. /\ InLoop(s)' /\ new_depth'[s] = current_depth + 1
        /\ \A t \in Senders \ {s} : pc'[t] = pc[t] /\ new_depth'[t] = new_depth[t]
    BY <1>1, <1>2, <2>1
  <2> SUFFICES ASSUME resets' = 0
               PROVE  /\ max_depth' <= peak'
                      /\ \A t \in Senders : /\ InLoop(t)' => new_depth'[t] <= peak'
                                            /\ pc'[t] = "raiseMax" => max'[t] <= max_depth'
                      /\ max_depth' = peak' \/ \E t \in Senders : InLoop(t)' /\ new_depth'[t] = peak'
    OBVIOUS
  <2>3. max_depth' <= peak'
    BY <1>1, <2>1
  <2>4. ASSUME NEW t \in Senders
        PROVE  (InLoop(t)' => new_depth'[t] <= peak') /\ (pc'[t] = "raiseMax" => max'[t] <= max_depth')
    <3>1. CASE t = s
      BY <1>1, <1>2, <2>1, <2>2, <3>1
    <3>2. CASE t # s
      BY <1>1, <1>2, <2>1, <2>2, <3>2
    <3> QED
      BY <3>1, <3>2
  <2>5. max_depth' = peak' \/ \E t \in Senders : InLoop(t)' /\ new_depth'[t] = peak'
    <3>1. CASE peak' = current_depth + 1
      BY <2>2, <3>1
    <3>2. CASE peak' = peak
      BY <2>1, <2>2, <3>2
    <3> QED
      BY <2>1, <3>1, <3>2
  <2> QED
    BY <2>3, <2>4, <2>5
<1>5. ASSUME NEW s \in Senders, LoadMax(s) \/ RaiseFails(s) PROVE MaxOK'
  BY <1>1, <1>2, <1>5 DEF LoadMax, RaiseFails
<1>6. ASSUME NEW s \in Senders, MaxIsEnough(s) PROVE MaxOK'
  BY <1>1, <1>2, <1>6 DEF MaxIsEnough
<1>7. ASSUME NEW s \in Senders, RaiseMax(s) PROVE MaxOK'
  BY <1>1, <1>2, <1>7 DEF RaiseMax
<1>8. ASSUME NEW r \in Receivers, Pop(r) \/ CountReceived(r) \/ SubDepth(r) PROVE MaxOK'
  BY <1>1, <1>2, <1>8 DEF Pop, CountReceived, SubDepth
<1>9. ASSUME NEW h \in Handles, DropHandle(h) PROVE MaxOK'
  BY <1>1, <1>2, <1>9 DEF DropHandle
<1>10. CASE ResetStart \/ ResetNext
  BY <1>1, <1>10 DEF ResetStart, ResetNext, Places
<1>11. CASE UNCHANGED vars
  BY <1>11 DEF vars
<1> QED
  BY <1>3, <1>4, <1>5, <1>6, <1>7, <1>8, <1>9, <1>10, <1>11 DEF Next, Record

\* Every step keeps the invariant.
THEOREM Invariance == Spec => []IInv
<1>1. IInv /\ [Next]_vars /\ TypeOK' => IInv'
  BY PlacesNext, AccountsNext, MaxNext DEF IInv
<1> QED
  BY <1>1, InvInit, TypeCorrect, PTL DEF Spec

---------------------------------------------------------------------------
(* The properties                                                          *)

\* Whenever no operation is under way, the totals are what really happened.
THEOREM TotalsExact == Spec => []TotalsSettle
<1>1. IInv => TotalsSettle
  <2> SUFFICES ASSUME IInv, Resting, resets = 0
               PROVE  sent = pushed /\ received = popped /\ dropped = refused
    BY DEF TotalsSettle
  <2>1. Unsent = 0 /\ Unreceived = 0 /\ Undropped = 0
    BY NobodyThere DEF Resting, Unsent, Unreceived, Undropped
  <2> QED
    BY <2>1 DEF IInv, Accounts, TypeOK
<1> QED
  BY <1>1, Invariance, PTL

\* The depth never shows less than is in the channel, but for sends that are being
\* recorded: whatever the interleaving, the pressure is not understated.
THEOREM DepthIsSafe == Spec => []DepthNotUnderstated
<1>1. IInv => DepthNotUnderstated
  <2> SUFFICES ASSUME IInv, resets = 0,
                      \A s \in Senders : pc[s] \notin {"countSent", "addDepth"}
               PROVE  current_depth >= len
    BY DEF DepthNotUnderstated
  <2>1. \A h \in Handles : pc[h] \notin {"countSent", "addDepth"}
    BY DEF IInv, Places, Handles
  <2>2. Adding = 0
    BY <2>1, NobodyThere DEF Adding
  <2> QED
    BY <2>2, CapAssumption, NumbersAreNat DEF IInv, Accounts, TypeOK
<1> QED
  BY <1>1, Invariance, PTL

\* Once the senders are through their loops, max_depth is the largest depth that
\* any of them computed.
THEOREM HighWaterMarkExact == Spec => []HighWaterMark
<1>1. IInv => HighWaterMark
  BY DEF IInv, MaxOK, InLoop, HighWaterMark
<1> QED
  BY <1>1, Invariance, PTL
=============================================================================
