-------------------------- MODULE RingBufferProofs --------------------------
(***************************************************************************)
(* Proofs about RingBuffer, for every N, every set of items and every      *)
(* MaxPushes.  TypeOK needs nothing else; the safety properties need one   *)
(* producer and one consumer (SingleSplit) and follow from the inductive   *)
(* invariant IInv.                                                         *)
(***************************************************************************)
EXTENDS RingBuffer, TLAPS

---------------------------------------------------------------------------
(* Index arithmetic without the modulus.                                   *)

LEMMA NPositive == N \in Nat /\ N > 0
  BY NAssumption DEF IsPowerOfTwo

LEMMA ModSmall == \A x \in 0..N-1 : x % N = x
  BY NPositive

LEMMA ModWrap == \A x \in N .. 2*N-1 : x % N = x - N
  BY NPositive

LEMMA ModNegative == \A x \in -N .. -1 : x % N = x + N
  BY NPositive

\* next_index stays inside the array and wraps at its end.
LEMMA NextIndexIs ==
  \A i \in Slots : /\ NextIndex(i) = (IF i = N-1 THEN 0 ELSE i+1)
                   /\ NextIndex(i) \in Slots
  BY NPositive, ModSmall, ModWrap DEF NextIndex, Slots

\* The masked difference of two indices is the number of steps from t to h.
LEMMA DistanceIs ==
  \A h, t \in Slots : /\ Distance(h, t) = (IF h >= t THEN h - t ELSE h - t + N)
                      /\ Distance(h, t) \in Slots
  BY NPositive, ModSmall, ModNegative DEF Distance, Slots

LEMMA DistanceNat ==
  \A h, t \in Slots : Distance(h, t) \in Nat /\ Distance(h, t) < N
  BY DistanceIs, NPositive DEF Slots

\* Two slots at the same distance from a third are the same slot.
LEMMA DistanceInjective ==
  \A h, i, t \in Slots : Distance(h, t) = Distance(i, t) => h = i
<1> SUFFICES ASSUME NEW h \in Slots, NEW i \in Slots, NEW t \in Slots,
                    Distance(h, t) = Distance(i, t)
             PROVE  h = i
  OBVIOUS
<1>1. /\ Distance(h, t) = (IF h >= t THEN h - t ELSE h - t + N)
      /\ Distance(i, t) = (IF i >= t THEN i - t ELSE i - t + N)
  BY DistanceIs
<1>2. (IF h >= t THEN h - t ELSE h - t + N) = (IF i >= t THEN i - t ELSE i - t + N)
  BY <1>1
<1>3. h \in 0 .. N-1 /\ i \in 0 .. N-1 /\ t \in 0 .. N-1
  BY DEF Slots
<1> QED
  BY <1>2, <1>3, NPositive

LEMMA DistanceZero == \A h, t \in Slots : Distance(h, t) = 0 <=> h = t
<1> SUFFICES ASSUME NEW h \in Slots, NEW t \in Slots
             PROVE  Distance(h, t) = 0 <=> h = t
  OBVIOUS
<1>1. Distance(h, t) = (IF h >= t THEN h - t ELSE h - t + N)
  BY DistanceIs
<1>2. h \in 0 .. N-1 /\ t \in 0 .. N-1
  BY DEF Slots
<1> QED
  BY <1>1, <1>2, NPositive

LEMMA UnknownIs ==
  \A h \in Handles : /\ Unknown(h) \in Slots
                     /\ h \in Producers => Unknown(h) = N - 1
                     /\ h \in Consumers => Unknown(h) = 0
  BY NPositive, HandlesAssumption DEF Unknown, Slots, Capacity, Handles

---------------------------------------------------------------------------
(* The inductive invariant                                                 *)

Count == Len(sent) - Len(received)

\* The indices describe the histories.
CountOK == Count = Occupied

\* Every occupied slot holds the item that is due there, except the first one
\* while the consumer has moved its item out and not yet stored tail.
Moved == \E c \in Consumers : pc[c] = "popStore"
ContentOK ==
  alive => \A i \in Slots : (Distance(i, tail) < Occupied /\ ~(i = tail /\ Moved))
             => slots[i] = sent[Len(received) + 1 + Distance(i, tail)]

\* Every other slot is uninitialised, except the one the producer has written
\* and not yet published; after the drop of the buffer, all are.
FreeOK ==
  /\ alive => \A i \in Slots : (slots[i] # None /\ Distance(i, tail) >= Occupied)
       => (i = head /\ \E p \in Producers : pc[p] = "pushStore")
  /\ alive => (Moved => slots[tail] = None)
  /\ ~alive => \A i \in Slots : slots[i] = None

ProducerOK ==
  \A p \in Producers :
    /\ pc[p] \in {"idle", "pushCheck", "pushWrite", "pushStore", "len", "gone"}
    /\ pc[p] \in {"pushCheck", "pushWrite", "pushStore", "len"} => idx[p] = head
    /\ pc[p] \in {"pushCheck", "pushWrite", "pushStore"} => val[p] \in Values
    /\ pc[p] \in {"pushWrite", "pushStore"} => Count < N - 1
    /\ pc[p] = "pushStore" => slots[head] = val[p]
    /\ Count <= seen[p]

ConsumerOK ==
  \A c \in Consumers :
    /\ pc[c] \notin {"pushCheck", "pushWrite", "pushStore"}
    /\ pc[c] \in {"popCheck", "popRead", "popStore", "peekCheck", "peeking"} => idx[c] = tail
    /\ pc[c] \in {"popRead", "popStore", "peeking"} => Count > 0
    /\ pc[c] \in {"popStore", "peeking"} => val[c] = sent[Len(received) + 1]
    /\ pc[c] = "len" => Distance(idx[c], tail) <= Count
    /\ Count >= seen[c]

\* A dropped buffer has no handle left, and its items went one way or the other.
DropOK ==
  ~alive => /\ \A h \in Handles : pc[h] = "gone"
            /\ Len(dropped) = Count
            /\ \A k \in 1..Len(dropped) : dropped[k] = sent[Len(received) + k]

SentOK == \A i \in 1..Len(sent) : sent[i] \in Values

IInv ==
  /\ TypeOK
  /\ SentOK
  /\ CountOK
  /\ FirstInFirstOut
  /\ ContentOK
  /\ FreeOK
  /\ ProducerOK
  /\ ConsumerOK
  /\ DropOK

---------------------------------------------------------------------------
(* Type correctness                                                        *)

\* The types hold in every state, whatever the number of handles: in particular
\* no index ever leaves the array.
THEOREM TypeCorrect == Spec => []TypeOK
<1>1. Init => TypeOK
  BY NPositive DEF Init, TypeOK, Slots, Items, Pcs, Unknown, Capacity
<1>2. TypeOK /\ [Next]_vars => TypeOK'
  <2> SUFFICES ASSUME TypeOK, [Next]_vars PROVE TypeOK'
    OBVIOUS
  <2> USE DEF TypeOK, shared, locals, history, Goto, Return, Pcs
  <2>1. ASSUME NEW p \in Producers, Push(p) PROVE TypeOK'
    <3> USE DEF Handles
    <3>1. CASE PushLoadHead(p)
      BY <3>1 DEF PushLoadHead, Items
    <3>2. CASE PushFull(p)
      BY <3>2, UnknownIs DEF PushFull
    <3>3. CASE PushRoom(p)
      BY <3>3 DEF PushRoom
    <3>4. CASE PushWrite(p)
      BY <3>4 DEF PushWrite
    <3>5. CASE PushStoreHead(p)
      BY <3>5, UnknownIs, NextIndexIs DEF PushStoreHead
    <3> QED
      BY <2>1, <3>1, <3>2, <3>3, <3>4, <3>5 DEF Push, PushEnds
  <2>2. ASSUME NEW c \in Consumers, PopOrPeek(c) PROVE TypeOK'
    <3> USE DEF Handles
    <3>1. CASE PopLoadTail(c)
      BY <3>1 DEF PopLoadTail
    <3>2. CASE PopEmpty(c)
      BY <3>2, UnknownIs DEF PopEmpty
    <3>3. CASE PopSome(c)
      BY <3>3 DEF PopSome
    <3>4. CASE PopRead(c)
      BY <3>4 DEF PopRead, Items
    <3>5. CASE PopStoreTail(c)
      BY <3>5, UnknownIs, NextIndexIs DEF PopStoreTail
    <3>6. CASE PeekSome(c)
      BY <3>6, UnknownIs DEF PeekSome
    <3>7. CASE PeekEnd(c)
      BY <3>7 DEF PeekEnd
    <3> QED
      BY <2>2, <3>1, <3>2, <3>3, <3>4, <3>5, <3>6, <3>7 DEF PopOrPeek, PopEnds
  <2>3. ASSUME NEW h \in Handles, LenOrDrop(h) PROVE TypeOK'
    <3>1. CASE LenLoadHead(h)
      BY <3>1 DEF LenLoadHead
    <3>2. CASE LenLoadTail(h)
      BY <3>2, DistanceIs DEF LenLoadTail
    <3>3. CASE DropHandle(h)
      BY <3>3 DEF DropHandle
    <3> QED
      BY <2>3, <3>1, <3>2, <3>3 DEF LenOrDrop
  <2>4. CASE DropBuffer
    <3>1. Occupied \in Slots
      BY DistanceIs DEF Occupied
    <3>2. \A k \in 1..Occupied : (tail + k - 1) % N \in Slots
      BY <3>1, ModSmall, ModWrap, NPositive DEF Slots
    <3>3. dropped' \in Seq(Items)
      BY <2>4, <3>1, <3>2, NPositive DEF DropBuffer, Slots
    <3>4. slots' \in [Slots -> Items]
      BY <2>4 DEF DropBuffer, Items
    <3> QED
      BY <2>4, <3>3, <3>4 DEF DropBuffer
  <2>5. CASE UNCHANGED vars
    BY <2>5 DEF vars
  <2> QED
    BY <2>1, <2>2, <2>3, <2>4, <2>5 DEF Next
<1> QED
  BY <1>1, <1>2, PTL DEF Spec

---------------------------------------------------------------------------
(* The invariant is inductive                                              *)

LEMMA CountIs ==
  ASSUME TypeOK, CountOK
  PROVE  /\ Count \in 0 .. N-1
         /\ Count = (IF head >= tail THEN head - tail ELSE head - tail + N)
  BY DistanceIs, NPositive DEF TypeOK, CountOK, Occupied, Slots

LEMMA InvInit == SingleSplit /\ Init => IInv
<1> SUFFICES ASSUME Init PROVE IInv
  OBVIOUS
<1>1. TypeOK
  BY NPositive DEF Init, TypeOK, Slots, Items, Pcs, Unknown, Capacity
<1>2. Occupied = 0 /\ Count = 0
  BY DistanceIs, NPositive DEF Init, Occupied, Count, Slots
<1>3. SentOK /\ CountOK /\ FirstInFirstOut
  BY <1>2 DEF Init, SentOK, CountOK, FirstInFirstOut
<1>4. ContentOK /\ FreeOK /\ DropOK
  BY <1>1, <1>2, DistanceIs DEF Init, TypeOK, ContentOK, FreeOK, DropOK, Moved, Handles, Slots
<1>5. ProducerOK
  BY <1>2, UnknownIs, NPositive DEF Init, ProducerOK, Handles
<1>6. ConsumerOK
  BY <1>2, UnknownIs DEF Init, ConsumerOK, Handles
<1> QED
  BY <1>1, <1>3, <1>4, <1>5, <1>6 DEF IInv

\* The steps that store to no shared variable and leave the histories alone: what they
\* do to the handle is the whole of their effect.
LEMMA InvLocalProducer ==
  ASSUME SingleSplit, IInv, TypeOK', NEW p \in Producers,
         PushLoadHead(p) \/ PushFull(p) \/ PushRoom(p) \/ LenLoadHead(p)
           \/ LenLoadTail(p) \/ DropHandle(p)
  PROVE  IInv'
<1> USE DEF shared, history, Goto
<1>1. UNCHANGED <<head, tail, slots, sent, received, dropped, alive>>
  BY DEF PushLoadHead, PushFull, PushRoom, LenLoadHead, LenLoadTail, DropHandle
<1>2. \A c \in Consumers : /\ pc'[c] = pc[c] /\ idx'[c] = idx[c]
                           /\ val'[c] = val[c] /\ seen'[c] = seen[c]
  BY HandlesAssumption DEF PushLoadHead, PushFull, PushRoom, LenLoadHead, LenLoadTail,
     DropHandle, Return, IInv, TypeOK, Handles
<1>3. SentOK' /\ CountOK' /\ FirstInFirstOut'
  BY <1>1 DEF IInv, SentOK, CountOK, FirstInFirstOut, Count, Occupied
<1>4. ContentOK'
  BY <1>1, <1>2 DEF IInv, ContentOK, Moved, Occupied
<1>5. pc[p] # "pushStore" /\ pc[p] # "gone"
  BY DEF PushLoadHead, PushFull, PushRoom, LenLoadHead, LenLoadTail, DropHandle
<1>6. FreeOK'
  BY <1>1, <1>2, <1>5 DEF IInv, FreeOK, Moved, Occupied, SingleSplit
<1>7. ConsumerOK'
  BY <1>1, <1>2 DEF IInv, ConsumerOK, Count
<1>8. DropOK'
  BY <1>1, <1>5 DEF IInv, DropOK, Handles
<1>9. Count \in 0 .. N-1 /\ (NextIndex(head) = tail <=> Count = N - 1)
  <2>1. /\ head \in 0 .. N-1 /\ tail \in 0 .. N-1
        /\ NextIndex(head) = (IF head = N-1 THEN 0 ELSE head + 1)
    BY NextIndexIs DEF IInv, TypeOK, Slots
  <2>2. /\ Count \in 0 .. N-1
        /\ Count = (IF head >= tail THEN head - tail ELSE head - tail + N)
    BY CountIs DEF IInv
  <2> QED
    BY <2>1, <2>2, NPositive
<1>10. ASSUME PushRoom(p) PROVE Count < N - 1
  <2>1. idx[p] = head /\ NextIndex(idx[p]) # tail
    BY <1>10 DEF PushRoom, IInv, ProducerOK
  <2> QED
    BY <1>9, <2>1, NPositive
<1>11. ProducerOK'
  <2> USE <1>1 DEF IInv, TypeOK, ProducerOK, Count, SingleSplit, Handles
  <2>1. CASE PushLoadHead(p)
    BY <2>1 DEF PushLoadHead
  <2>2. CASE PushFull(p)
    BY <1>9, <2>2, UnknownIs, NPositive DEF PushFull, Return
  <2>3. CASE PushRoom(p)
    BY <1>10, <2>3 DEF PushRoom
  <2>4. CASE LenLoadHead(p)
    BY <2>4 DEF LenLoadHead
  <2>5. CASE LenLoadTail(p)
    BY <2>5 DEF LenLoadTail, CountOK, Occupied
  <2>6. CASE DropHandle(p)
    BY <2>6 DEF DropHandle
  <2> QED
    BY <2>1, <2>2, <2>3, <2>4, <2>5, <2>6
<1> QED
  BY <1>3, <1>4, <1>6, <1>7, <1>8, <1>11 DEF IInv

\* slot.write: the slot at head is outside the occupied ones.
LEMMA InvPushWrite ==
  ASSUME SingleSplit, IInv, TypeOK', NEW p \in Producers, PushWrite(p)
  PROVE  IInv'
<1> USE DEF shared, history, Goto
<1>1. /\ UNCHANGED <<head, tail, sent, received, dropped, alive, idx, val, seen>>
      /\ pc[p] = "pushWrite" /\ pc' = [pc EXCEPT ![p] = "pushStore"]
  BY DEF PushWrite
<1>2. /\ idx[p] = head /\ val[p] \in Values /\ Count < N - 1
      /\ slots' = [slots EXCEPT ![head] = val[p]]
  BY <1>1 DEF IInv, ProducerOK, PushWrite
<1>3. alive
  BY <1>1 DEF IInv, DropOK, Handles
<1>4. \A c \in Consumers : pc'[c] = pc[c]
  BY <1>1, HandlesAssumption DEF IInv, TypeOK, Handles
<1>5. pc'[p] = "pushStore"
  BY <1>1 DEF IInv, TypeOK, Handles
<1>6. /\ Occupied' = Occupied /\ Count' = Count /\ Moved' = Moved
      /\ \A i : Distance(i, tail)' = Distance(i, tail)
  BY <1>1, <1>4 DEF Occupied, Count, Moved, Distance
<1>7. SentOK' /\ CountOK' /\ FirstInFirstOut' /\ DropOK'
  BY <1>1, <1>3, <1>6 DEF IInv, SentOK, CountOK, FirstInFirstOut, DropOK
<1>8. Distance(head, tail) = Occupied /\ Occupied \in Nat
  BY CountIs, NPositive DEF Occupied, IInv, CountOK
<1>9. ContentOK'
  BY <1>1, <1>2, <1>3, <1>6, <1>8 DEF IInv, ContentOK, TypeOK
<1>10. FreeOK'
  <2>1. Moved => tail # head
    BY <1>8, DistanceZero DEF Moved, IInv, ConsumerOK, CountOK, TypeOK
  <2> QED
    BY <1>1, <1>2, <1>3, <1>5, <1>6, <2>1 DEF IInv, FreeOK, TypeOK
<1>11. ProducerOK'
  BY <1>1, <1>2, <1>5, <1>6 DEF IInv, ProducerOK, TypeOK, SingleSplit
<1>12. ConsumerOK'
  BY <1>1, <1>4, <1>6 DEF IInv, ConsumerOK
<1> QED
  BY <1>7, <1>9, <1>10, <1>11, <1>12 DEF IInv

\* The store of head: the written slot becomes the last of the occupied ones.
LEMMA InvPushStoreHead ==
  ASSUME SingleSplit, IInv, TypeOK', NEW p \in Producers, PushStoreHead(p)
  PROVE  IInv'
<1> USE DEF history, Goto
<1>1. /\ UNCHANGED <<tail, slots, idx, val, received, dropped, alive>>
      /\ pc[p] = "pushStore" /\ pc' = [pc EXCEPT ![p] = "idle"]
      /\ seen' = [seen EXCEPT ![p] = Unknown(p)]
  BY DEF PushStoreHead, Return
<1>2. /\ idx[p] = head /\ val[p] \in Values /\ Count < N - 1
      /\ slots[head] = val[p]
      /\ head' = NextIndex(head) /\ sent' = Append(sent, val[p])
  BY <1>1 DEF IInv, ProducerOK, PushStoreHead
<1>3. alive
  BY <1>1 DEF IInv, DropOK, Handles
<1>4. \A c \in Consumers : pc'[c] = pc[c] /\ seen'[c] = seen[c]
  BY <1>1, HandlesAssumption DEF IInv, TypeOK, Handles
<1>5. pc'[p] = "idle" /\ seen'[p] = N - 1
  BY <1>1, UnknownIs DEF IInv, TypeOK, Handles
<1>6. /\ sent \in Seq(Items) /\ Len(sent) \in Nat /\ Len(received) \in Nat
      /\ Len(sent') = Len(sent) + 1 /\ sent'[Len(sent) + 1] = val[p]
      /\ \A i \in 1..Len(sent) : sent'[i] = sent[i]
  BY <1>2 DEF IInv, TypeOK, Items
<1>7. Count' = Count + 1
  BY <1>1, <1>6 DEF Count
<1>8. /\ head \in Slots /\ tail \in Slots /\ head' \in Slots
      /\ Count \in 0 .. N-1 /\ Occupied = Count
      /\ Count = (IF head >= tail THEN head - tail ELSE head - tail + N)
  BY <1>2, CountIs, NextIndexIs DEF IInv, TypeOK, CountOK
<1>9. Occupied' = Occupied + 1
  <2>1. Distance(head', tail) = IF head' >= tail THEN head' - tail ELSE head' - tail + N
    BY <1>8, DistanceIs
  <2>2. head' = IF head = N - 1 THEN 0 ELSE head + 1
    BY <1>2, <1>8, NextIndexIs
  <2>3. Occupied' = Distance(head', tail)
    BY <1>1 DEF Occupied, Distance
  <2> QED
    BY <1>2, <1>8, <2>1, <2>2, <2>3, NPositive DEF Slots
<1>10. SentOK' /\ CountOK' /\ FirstInFirstOut' /\ DropOK'
  BY <1>1, <1>2, <1>3, <1>6, <1>7, <1>9
     DEF IInv, SentOK, CountOK, FirstInFirstOut, DropOK
<1>11. /\ Moved' = Moved
       /\ \A i : Distance(i, tail)' = Distance(i, tail)
  BY <1>1, <1>4 DEF Moved, Distance
<1>12. \A i \in Slots : Distance(i, tail) = Occupied => i = head
  BY <1>8, DistanceInjective DEF Occupied
<1>13. Count > 0 => sent'[Len(received) + 1] = sent[Len(received) + 1]
  BY <1>6 DEF Count
<1>14. ContentOK'
  <2> SUFFICES ASSUME NEW i \in Slots, Distance(i, tail) < Occupied + 1,
                      ~(i = tail /\ Moved)
               PROVE  slots[i] = sent'[Len(received) + 1 + Distance(i, tail)]
    BY <1>1, <1>9, <1>11 DEF ContentOK
  <2>1. Distance(i, tail) \in Nat
    BY <1>8, DistanceNat
  <2>2. CASE Distance(i, tail) < Occupied
    <3>1. slots[i] = sent[Len(received) + 1 + Distance(i, tail)]
      BY <1>3, <2>2 DEF IInv, ContentOK
    <3>2. Len(received) + 1 + Distance(i, tail) \in 1 .. Len(sent)
      BY <1>6, <1>8, <2>1, <2>2 DEF Count
    <3> QED
      BY <1>6, <3>1, <3>2
  <2>3. CASE Distance(i, tail) = Occupied
    <3>1. Len(received) + 1 + Distance(i, tail) = Len(sent) + 1
      BY <1>6, <1>8, <2>3 DEF Count
    <3> QED
      BY <1>2, <1>6, <1>12, <2>3, <3>1
  <2> QED
    BY <1>8, <2>1, <2>2, <2>3, NPositive
<1>15. FreeOK'
  <2>1. \A i \in Slots : Distance(i, tail) >= Occupied + 1 => i # head
    BY <1>8, DistanceIs DEF Occupied
  <2>2. \A i \in Slots : Distance(i, tail) >= Occupied + 1 => Distance(i, tail) >= Occupied
    BY <1>8, DistanceNat
  <2>3. \A i \in Slots : Distance(i, tail) >= Occupied + 1 => slots[i] = None
    BY <1>3, <2>1, <2>2 DEF IInv, FreeOK
  <2> QED
    BY <1>1, <1>3, <1>9, <1>11, <2>3 DEF IInv, FreeOK
<1>16. ProducerOK'
  BY <1>2, <1>5, <1>7, <1>8, NPositive DEF IInv, ProducerOK, SingleSplit
<1>17. ConsumerOK'
  <2>1. \A c \in Consumers : idx[c] \in Slots /\ Distance(idx[c], tail) \in Nat
    BY <1>8, DistanceNat DEF IInv, TypeOK, Handles
  <2>2. \A c \in Consumers : seen[c] \in Nat
    BY NPositive DEF IInv, TypeOK, Handles, Slots
  <2> QED
    BY <1>1, <1>4, <1>7, <1>8, <1>11, <1>13, <2>1, <2>2 DEF IInv, ConsumerOK
<1> QED
  BY <1>10, <1>14, <1>15, <1>16, <1>17 DEF IInv

LEMMA InvLocalConsumer ==
  ASSUME SingleSplit, IInv, TypeOK', NEW c \in Consumers,
         PopLoadTail(c) \/ PopEmpty(c) \/ PopSome(c) \/ PeekSome(c) \/ PeekEnd(c)
           \/ LenLoadHead(c) \/ LenLoadTail(c) \/ DropHandle(c)
  PROVE  IInv'
<1> USE DEF shared, history, Goto
<1>1. UNCHANGED <<head, tail, slots, sent, received, dropped, alive>>
  BY DEF PopLoadTail, PopEmpty, PopSome, PeekSome, PeekEnd, LenLoadHead, LenLoadTail,
     DropHandle
<1>2. \A p \in Producers : /\ pc'[p] = pc[p] /\ idx'[p] = idx[p]
                           /\ val'[p] = val[p] /\ seen'[p] = seen[p]
  BY HandlesAssumption DEF PopLoadTail, PopEmpty, PopSome, PeekSome, PeekEnd, LenLoadHead,
     LenLoadTail, DropHandle, Return, IInv, TypeOK, Handles
<1>3. pc[c] \notin {"popStore", "gone"} /\ pc'[c] # "popStore"
  BY DEF PopLoadTail, PopEmpty, PopSome, PeekSome, PeekEnd, LenLoadHead, LenLoadTail,
     DropHandle, IInv, TypeOK, Handles
<1>4. alive
  BY <1>3 DEF IInv, DropOK, Handles
<1>5. ~Moved /\ ~Moved'
  BY <1>3 DEF Moved, SingleSplit
<1>6. SentOK' /\ CountOK' /\ FirstInFirstOut' /\ DropOK'
  BY <1>1, <1>4 DEF IInv, SentOK, CountOK, FirstInFirstOut, DropOK, Count, Occupied
<1>7. ContentOK' /\ FreeOK'
  BY <1>1, <1>2, <1>4, <1>5 DEF IInv, ContentOK, FreeOK, Occupied
<1>8. ProducerOK'
  BY <1>1, <1>2 DEF IInv, ProducerOK, Count
<1>9. /\ head \in Slots /\ tail \in Slots
      /\ Count \in 0 .. N-1 /\ Occupied = Count /\ Distance(head, tail) = Count
  BY CountIs DEF IInv, TypeOK, CountOK, Occupied
<1>10. Distance(tail, tail) = 0 /\ (head # tail <=> Count > 0)
  BY <1>9, DistanceZero, NPositive
<1>11. Count > 0 => slots[tail] = sent[Len(received) + 1]
  <2>1. Len(received) + 1 + Distance(tail, tail) = Len(received) + 1
    BY <1>10 DEF IInv, TypeOK
  <2> QED
    BY <1>4, <1>5, <1>9, <1>10, <2>1 DEF IInv, ContentOK
<1>12. ConsumerOK'
  <2> USE <1>1 DEF IInv, TypeOK, ConsumerOK, SingleSplit, Handles
  <2>1. Count' = Count
    BY DEF Count
  <2>2. CASE PopLoadTail(c)
    BY <2>1, <2>2 DEF PopLoadTail
  <2>3. CASE PopEmpty(c)
    BY <1>9, <2>1, <2>3, UnknownIs DEF PopEmpty, Return
  <2>4. CASE PopSome(c)
    BY <1>10, <2>1, <2>4 DEF PopSome
  <2>5. CASE PeekSome(c)
    BY <1>9, <1>10, <1>11, <2>1, <2>5, UnknownIs DEF PeekSome, Return
  <2>6. CASE PeekEnd(c)
    BY <2>1, <2>6 DEF PeekEnd
  <2>7. CASE LenLoadHead(c)
    BY <1>9, <2>1, <2>7 DEF LenLoadHead, Distance
  <2>8. CASE LenLoadTail(c)
    BY <2>1, <2>8 DEF LenLoadTail
  <2>9. CASE DropHandle(c)
    BY <2>1, <2>9 DEF DropHandle
  <2> QED
    BY <2>2, <2>3, <2>4, <2>5, <2>6, <2>7, <2>8, <2>9
<1> QED
  BY <1>6, <1>7, <1>8, <1>12 DEF IInv

\* assume_init_read: the first occupied slot gives its item to the consumer.
LEMMA InvPopRead ==
  ASSUME SingleSplit, IInv, TypeOK', NEW c \in Consumers, PopRead(c)
  PROVE  IInv'
<1> USE DEF shared, history, Goto
<1>1. /\ UNCHANGED <<head, tail, sent, received, dropped, alive, idx, seen>>
      /\ pc[c] = "popRead" /\ pc' = [pc EXCEPT ![c] = "popStore"]
  BY DEF PopRead
<1>2. /\ idx[c] = tail /\ Count > 0
      /\ slots' = [slots EXCEPT ![tail] = None]
      /\ val' = [val EXCEPT ![c] = slots[tail]]
  BY <1>1 DEF IInv, ConsumerOK, PopRead
<1>3. alive
  BY <1>1 DEF IInv, DropOK, Handles
<1>4. \A p \in Producers : pc'[p] = pc[p] /\ val'[p] = val[p]
  BY <1>1, <1>2, HandlesAssumption DEF IInv, TypeOK, Handles
<1>5. pc'[c] = "popStore" /\ val'[c] = slots[tail]
  BY <1>1, <1>2 DEF IInv, TypeOK, Handles
<1>6. ~Moved /\ Moved'
  BY <1>1, <1>5 DEF Moved, SingleSplit
<1>7. /\ head \in Slots /\ tail \in Slots
      /\ Count \in 0 .. N-1 /\ Occupied = Count /\ Distance(head, tail) = Count
  BY CountIs DEF IInv, TypeOK, CountOK, Occupied
<1>8. Distance(tail, tail) = 0 /\ head # tail
  BY <1>2, <1>7, DistanceZero, NPositive
<1>9. slots[tail] = sent[Len(received) + 1]
  <2>1. Len(received) + 1 + Distance(tail, tail) = Len(received) + 1
    BY <1>8 DEF IInv, TypeOK
  <2> QED
    BY <1>2, <1>3, <1>6, <1>7, <1>8, <2>1 DEF IInv, ContentOK
<1>10. /\ Count' = Count /\ Occupied' = Occupied
       /\ \A i : Distance(i, tail)' = Distance(i, tail)
  BY <1>1 DEF Count, Occupied, Distance
<1>11. SentOK' /\ CountOK' /\ FirstInFirstOut' /\ DropOK'
  BY <1>1, <1>3, <1>10 DEF IInv, SentOK, CountOK, FirstInFirstOut, DropOK
<1>12. ContentOK'
  BY <1>1, <1>2, <1>3, <1>6, <1>10 DEF IInv, ContentOK, TypeOK
<1>13. FreeOK'
  BY <1>1, <1>2, <1>3, <1>4, <1>6, <1>7, <1>10 DEF IInv, FreeOK, TypeOK
<1>14. ProducerOK'
  BY <1>1, <1>2, <1>4, <1>8, <1>10 DEF IInv, ProducerOK, TypeOK
<1>15. ConsumerOK'
  BY <1>1, <1>2, <1>5, <1>9, <1>10 DEF IInv, ConsumerOK, SingleSplit
<1> QED
  BY <1>11, <1>12, <1>13, <1>14, <1>15 DEF IInv

\* The store of tail: the first occupied slot is given back.
LEMMA InvPopStoreTail ==
  ASSUME SingleSplit, IInv, TypeOK', NEW c \in Consumers, PopStoreTail(c)
  PROVE  IInv'
<1> USE DEF history, Goto
<1>1. /\ UNCHANGED <<head, slots, idx, val, sent, dropped, alive>>
      /\ pc[c] = "popStore" /\ pc' = [pc EXCEPT ![c] = "idle"]
      /\ seen' = [seen EXCEPT ![c] = Unknown(c)]
  BY DEF PopStoreTail, Return
<1>2. /\ idx[c] = tail /\ Count > 0 /\ val[c] = sent[Len(received) + 1]
      /\ tail' = NextIndex(tail) /\ received' = Append(received, val[c])
  BY <1>1 DEF IInv, ConsumerOK, PopStoreTail
<1>3. alive
  BY <1>1 DEF IInv, DropOK, Handles
<1>4. \A p \in Producers : pc'[p] = pc[p] /\ seen'[p] = seen[p]
  BY <1>1, HandlesAssumption DEF IInv, TypeOK, Handles
<1>5. pc'[c] = "idle" /\ seen'[c] = 0
  BY <1>1, UnknownIs DEF IInv, TypeOK, Handles
<1>6. Moved /\ ~Moved'
  BY <1>1, <1>5 DEF Moved, SingleSplit
<1>7. /\ Len(sent) \in Nat /\ Len(received) \in Nat
      /\ Len(received') = Len(received) + 1 /\ received'[Len(received) + 1] = val[c]
      /\ \A i \in 1..Len(received) : received'[i] = received[i]
  BY <1>2 DEF IInv, TypeOK, Items
<1>8. Count' = Count - 1
  BY <1>1, <1>7 DEF Count
<1>9. /\ head \in Slots /\ tail \in Slots /\ tail' \in Slots
      /\ Count \in 0 .. N-1 /\ Occupied = Count
      /\ tail' = (IF tail = N - 1 THEN 0 ELSE tail + 1)
  BY <1>2, CountIs, NextIndexIs DEF IInv, TypeOK, CountOK
\* Every slot but the first is one step nearer to tail; the first is now the last.
<1>10. ASSUME NEW i \in Slots
       PROVE  Distance(i, tail') = IF i = tail THEN N - 1 ELSE Distance(i, tail) - 1
  <2>1. /\ Distance(i, tail') = IF i >= tail' THEN i - tail' ELSE i - tail' + N
        /\ Distance(i, tail) = IF i >= tail THEN i - tail ELSE i - tail + N
    BY <1>9, DistanceIs
  <2> QED
    BY <1>9, <2>1, NPositive DEF Slots
<1>11. Occupied' = Occupied - 1
  <2>1. head # tail
    BY <1>2, <1>9, DistanceZero DEF Occupied
  <2>2. Occupied' = Distance(head, tail')
    BY <1>1 DEF Occupied, Distance
  <2> QED
    BY <1>9, <1>10, <2>1, <2>2 DEF Occupied
<1>12. FirstInFirstOut'
  BY <1>1, <1>2, <1>7, <1>9 DEF IInv, FirstInFirstOut, Count
<1>13. SentOK' /\ CountOK' /\ DropOK'
  BY <1>1, <1>3, <1>8, <1>9, <1>11 DEF IInv, SentOK, CountOK, DropOK
<1>14. \A i \in Slots : Distance(i, tail)' = Distance(i, tail')
  BY DEF Distance
<1>15. ContentOK'
  <2> SUFFICES ASSUME NEW i \in Slots, Distance(i, tail') < Occupied - 1
               PROVE  slots[i] = sent[Len(received) + 2 + Distance(i, tail')]
    BY <1>1, <1>6, <1>7, <1>11, <1>14 DEF ContentOK
  <2>1. i # tail /\ Distance(i, tail') = Distance(i, tail) - 1 /\ Distance(i, tail) \in Nat
    BY <1>9, <1>10, DistanceNat, NPositive
  <2>2. slots[i] = sent[Len(received) + 1 + Distance(i, tail)]
    BY <1>3, <1>9, <2>1 DEF IInv, ContentOK
  <2>3. Len(received) + 1 + Distance(i, tail) = Len(received) + 2 + Distance(i, tail')
    BY <1>7, <2>1
  <2> QED
    BY <2>2, <2>3
<1>16. FreeOK'
  <2>1. ASSUME NEW i \in Slots, slots[i] # None, Distance(i, tail') >= Occupied - 1
        PROVE  i = head /\ \E p \in Producers : pc[p] = "pushStore"
    <3>1. i # tail
      BY <1>3, <1>6, <2>1 DEF IInv, FreeOK
    <3>2. Distance(i, tail) >= Occupied
      BY <1>9, <1>10, <2>1, <3>1, DistanceNat
    <3> QED
      BY <1>3, <2>1, <3>2 DEF IInv, FreeOK
  <2> QED
    BY <1>1, <1>3, <1>4, <1>6, <1>11, <1>14, <2>1 DEF FreeOK
<1>17. ProducerOK'
  <2>1. \A p \in Producers : seen[p] \in Nat
    BY NPositive DEF IInv, TypeOK, Handles, Slots
  <2> QED
    BY <1>1, <1>4, <1>8, <1>9, <2>1, NPositive DEF IInv, ProducerOK
<1>18. ConsumerOK'
  BY <1>1, <1>5, <1>8, <1>9 DEF IInv, ConsumerOK, SingleSplit
<1> QED
  BY <1>12, <1>13, <1>15, <1>16, <1>17, <1>18 DEF IInv

\* Drop for RingBuffer: the occupied slots are emptied and no other holds an item.
LEMMA InvDropBuffer ==
  ASSUME SingleSplit, IInv, TypeOK', DropBuffer
  PROVE  IInv'
<1> USE DEF locals
<1>1. /\ UNCHANGED <<head, tail, pc, idx, val, seen, sent, received>>
      /\ alive /\ ~alive' /\ \A h \in Handles : pc[h] = "gone"
  BY DEF DropBuffer
<1>2. /\ \A p \in Producers : pc[p] = "gone"
      /\ \A c \in Consumers : pc[c] = "gone"
  BY <1>1 DEF Handles
<1>3. /\ head \in Slots /\ tail \in Slots
      /\ Count \in 0 .. N-1 /\ Occupied = Count
  BY CountIs DEF IInv, TypeOK, CountOK
<1>4. SentOK' /\ CountOK' /\ FirstInFirstOut'
  BY <1>1 DEF IInv, SentOK, CountOK, FirstInFirstOut, Count, Occupied
<1>5. ContentOK'
  BY <1>1 DEF ContentOK
<1>6. \A i \in Slots : slots'[i] = None
  <2> SUFFICES ASSUME NEW i \in Slots PROVE slots'[i] = None
    OBVIOUS
  <2>1. Distance(i, tail) < Occupied \/ Distance(i, tail) >= Occupied
    BY <1>3, DistanceNat
  <2>2. slots'[i] = IF Distance(i, tail) < Occupied THEN None ELSE slots[i]
    BY DEF DropBuffer
  <2> QED
    BY <1>1, <1>2, <2>1, <2>2 DEF IInv, FreeOK
<1>7. FreeOK'
  BY <1>1, <1>6 DEF FreeOK
<1>8. ProducerOK' /\ ConsumerOK'
  BY <1>1, <1>2 DEF IInv, ProducerOK, ConsumerOK, Count
<1>9. DropOK'
  <2>1. dropped' = [k \in 1..Count |-> slots[(tail + k - 1) % N]]
    BY <1>3 DEF DropBuffer
  <2>2. Len(dropped') = Count /\ DOMAIN dropped' = 1..Count
    BY <1>3, <2>1, NPositive
  <2>3. ASSUME NEW k \in 1..Count
        PROVE  slots[(tail + k - 1) % N] = sent[Len(received) + k]
    <3> DEFINE i == (tail + k - 1) % N
    <3>1. /\ i = (IF tail + k - 1 < N THEN tail + k - 1 ELSE tail + k - 1 - N)
          /\ i \in Slots
      BY <1>3, ModSmall, ModWrap, NPositive DEF Slots
    <3>2. Distance(i, tail) = k - 1
      <4>1. Distance(i, tail) = IF i >= tail THEN i - tail ELSE i - tail + N
        BY <1>3, <3>1, DistanceIs
      <4> QED
        BY <1>3, <3>1, <4>1, NPositive DEF Slots
    <3>3. slots[i] = sent[Len(received) + 1 + Distance(i, tail)]
      BY <1>1, <1>2, <1>3, <3>1, <3>2 DEF IInv, ContentOK, Moved
    <3>4. Len(received) + 1 + (k - 1) = Len(received) + k
      BY DEF IInv, TypeOK
    <3> QED
      BY <3>2, <3>3, <3>4
  <2> QED
    BY <1>1, <2>1, <2>2, <2>3 DEF DropOK, Count
<1> QED
  BY <1>4, <1>5, <1>7, <1>8, <1>9 DEF IInv

LEMMA InvNext == SingleSplit /\ IInv /\ TypeOK' /\ [Next]_vars => IInv'
<1> SUFFICES ASSUME SingleSplit, IInv, TypeOK', [Next]_vars PROVE IInv'
  OBVIOUS
<1>1. ASSUME NEW p \in Producers, Push(p) PROVE IInv'
  BY <1>1, InvLocalProducer, InvPushWrite, InvPushStoreHead DEF Push, PushEnds
<1>2. ASSUME NEW c \in Consumers, PopOrPeek(c) PROVE IInv'
  BY <1>2, InvLocalConsumer, InvPopRead, InvPopStoreTail DEF PopOrPeek, PopEnds
<1>3. ASSUME NEW h \in Handles, LenOrDrop(h) PROVE IInv'
  BY <1>3, InvLocalProducer, InvLocalConsumer DEF LenOrDrop, Handles
<1>4. CASE DropBuffer
  BY <1>4, InvDropBuffer
<1>5. CASE UNCHANGED vars
  BY <1>5 DEF vars, shared, locals, history, IInv, TypeOK, SentOK, CountOK, FirstInFirstOut,
     ContentOK, FreeOK, ProducerOK, ConsumerOK, DropOK, Count, Occupied, Moved, Distance
<1> QED
  BY <1>1, <1>2, <1>3, <1>4, <1>5 DEF Next

THEOREM Invariance == ASSUME SingleSplit PROVE Spec => []IInv
<1>1. Init => IInv
  BY InvInit
<1>2. IInv /\ TypeOK' /\ [Next]_vars => IInv'
  BY InvNext
<1> QED
  BY <1>1, <1>2, TypeCorrect, PTL DEF Spec

---------------------------------------------------------------------------
(* The safety properties                                                   *)

\* What the consumer receives is, item by item, what the producer sent.
THEOREM FifoOrder == ASSUME SingleSplit PROVE Spec => []FirstInFirstOut
<1>1. IInv => FirstInFirstOut
  BY DEF IInv
<1> QED
  BY <1>1, Invariance, PTL

\* The two ends never touch one slot at the same time.
THEOREM RaceFree == ASSUME SingleSplit PROVE Spec => []NoSlotRace
<1>1. IInv => NoSlotRace
  <2> SUFFICES ASSUME IInv, NEW p \in Producers, NEW c \in Consumers,
                      pc[p] = "pushWrite", pc[c] \in {"popRead", "peeking"}
               PROVE  idx[p] # idx[c]
    BY DEF NoSlotRace
  <2>1. idx[p] = head /\ idx[c] = tail /\ Count > 0
    BY DEF IInv, ProducerOK, ConsumerOK
  <2> QED
    BY <2>1, CountIs, DistanceZero DEF IInv, TypeOK, CountOK, Occupied
<1> QED
  BY <1>1, Invariance, PTL

\* No uninitialised slot is read and no item is overwritten.
THEOREM InitialisedReads == ASSUME SingleSplit PROVE Spec => []SlotsUsedOnce
<1>1. IInv => SlotsUsedOnce
  <2> SUFFICES ASSUME IInv PROVE SlotsUsedOnce
    OBVIOUS
  <2>1. ASSUME NEW p \in Producers, pc[p] = "pushWrite" PROVE slots[idx[p]] = None
    <3>1. idx[p] = head /\ alive
      BY <2>1 DEF IInv, ProducerOK, DropOK, Handles
    <3>2. head \in Slots /\ Distance(head, tail) >= Occupied
      BY CountIs DEF IInv, TypeOK, CountOK, Occupied
    <3> QED
      BY <2>1, <3>1, <3>2 DEF IInv, FreeOK, SingleSplit
  <2>2. ASSUME NEW c \in Consumers, pc[c] = "popRead" PROVE slots[idx[c]] # None
    <3>1. /\ idx[c] = tail /\ Count > 0 /\ alive /\ ~Moved
      BY <2>2 DEF IInv, ConsumerOK, DropOK, Handles, Moved, SingleSplit
    <3>2. /\ tail \in Slots /\ Count = Occupied /\ Distance(tail, tail) = 0
          /\ Len(received) \in Nat /\ Len(sent) \in Nat
      BY DistanceZero DEF IInv, TypeOK, CountOK
    <3>3. Len(received) + 1 + 0 = Len(received) + 1 /\ Len(received) + 1 \in 1..Len(sent)
      BY <3>1, <3>2 DEF Count
    <3>4. slots[tail] = sent[Len(received) + 1]
      BY <3>1, <3>2, <3>3 DEF IInv, ContentOK
    <3> QED
      BY <3>1, <3>3, <3>4, NoneAssumption DEF IInv, SentOK
  <2> QED
    BY <2>1, <2>2 DEF SlotsUsedOnce
<1> QED
  BY <1>1, Invariance, PTL

\* len, is_full and is_empty, asked by an end, stay bounds until that end moves.
THEOREM LenBounds == ASSUME SingleSplit PROVE Spec => []LenStaysABound
<1>1. IInv => LenStaysABound
  BY DEF IInv, ProducerOK, ConsumerOK, Count, LenStaysABound
<1> QED
  BY <1>1, Invariance, PTL

\* The reference answered by peek stays valid and due.
THEOREM PeekStable == ASSUME SingleSplit PROVE Spec => []PeekedItemStays
<1>1. IInv => PeekedItemStays
  <2> SUFFICES ASSUME IInv, NEW c \in Consumers, pc[c] = "peeking"
               PROVE  slots[idx[c]] = val[c] /\ val[c] = sent[Len(received) + 1]
    BY DEF PeekedItemStays
  <2>1. /\ idx[c] = tail /\ Count > 0 /\ alive /\ ~Moved
        /\ val[c] = sent[Len(received) + 1]
    BY DEF IInv, ConsumerOK, DropOK, Handles, Moved, SingleSplit
  <2>2. /\ tail \in Slots /\ Count = Occupied /\ Distance(tail, tail) = 0
        /\ Len(received) + 1 + 0 = Len(received) + 1
    BY DistanceZero DEF IInv, TypeOK, CountOK
  <2>3. slots[tail] = sent[Len(received) + 1]
    BY <2>1, <2>2 DEF IInv, ContentOK
  <2> QED
    BY <2>1, <2>3
<1> QED
  BY <1>1, Invariance, PTL

\* Nothing leaks and nothing is dropped twice.
THEOREM DropComplete == ASSUME SingleSplit PROVE Spec => []EachItemLeavesOnce
<1>1. IInv => EachItemLeavesOnce
  BY DEF IInv, TypeOK, DropOK, FreeOK, EachItemLeavesOnce, Count
<1> QED
  BY <1>1, Invariance, PTL

---------------------------------------------------------------------------
(* Refinement                                                              *)

\* Every behaviour of the ring buffer is one of the abstract queue of Capacity
\* items, observed at its stores of head and tail and at its full and empty tests.
THEOREM RefinesFifo == ASSUME SingleSplit PROVE Spec => ImplementsFifo
<1>1. Init => Fifo!Init
  BY DEF Init, Fifo!Init, Handles
<1>2. IInv /\ [Next]_vars => [Fifo!Next]_(Fifo!vars)
  <2> SUFFICES ASSUME IInv, [Next]_vars PROVE [Fifo!Next]_(Fifo!vars)
    OBVIOUS
  <2> USE DEF shared, locals, history, Goto, Return, Fifo!vars, Fifo!Answer
  <2>1. /\ Count \in 0 .. N-1 /\ Fifo!Size = Count
        /\ head \in Slots /\ tail \in Slots /\ Distance(head, tail) = Count
    BY CountIs DEF Fifo!Size, Count, IInv, TypeOK, CountOK, Occupied
  <2>2. ASSUME NEW p \in Producers, Push(p) PROVE [Fifo!Next]_(Fifo!vars)
    <3>1. CASE PushLoadHead(p) \/ PushRoom(p) \/ PushWrite(p)
      BY <3>1 DEF PushLoadHead, PushRoom, PushWrite
    <3>2. CASE PushFull(p)
      <4>1. idx[p] = head /\ NextIndex(head) = tail
        BY <3>2 DEF PushFull, IInv, ProducerOK
      <4>2. /\ NextIndex(head) = (IF head = N-1 THEN 0 ELSE head + 1)
            /\ Distance(head, tail) = (IF head >= tail THEN head - tail ELSE head - tail + N)
        BY <2>1, NextIndexIs, DistanceIs
      <4>3. Count = N - 1
        BY <2>1, <4>1, <4>2, NPositive DEF Slots
      <4>4. Fifo!PushFull(p)
        BY <2>1, <3>2, <4>3 DEF PushFull, Fifo!PushFull, Capacity
      <4> QED
        BY <4>4 DEF Fifo!Next
    <3>3. CASE PushStoreHead(p)
      <4>1. Count < N - 1 /\ val[p] \in Values
        BY <3>3 DEF PushStoreHead, IInv, ProducerOK
      <4>2. Fifo!PushOk(p, val[p])
        BY <2>1, <3>3, <4>1 DEF PushStoreHead, Fifo!PushOk, Capacity
      <4> QED
        BY <4>1, <4>2 DEF Fifo!Next
    <3> QED
      BY <2>2, <3>1, <3>2, <3>3 DEF Push, PushEnds
  <2>3. ASSUME NEW c \in Consumers, PopOrPeek(c) PROVE [Fifo!Next]_(Fifo!vars)
    <3>1. CASE PopLoadTail(c) \/ PopSome(c) \/ PopRead(c) \/ PeekEnd(c)
      BY <3>1 DEF PopLoadTail, PopSome, PopRead, PeekEnd
    <3>2. CASE PopEmpty(c)
      <4>1. idx[c] = tail /\ tail = head
        BY <3>2 DEF PopEmpty, IInv, ConsumerOK
      <4>2. Count = 0
        BY <2>1, <4>1, DistanceZero
      <4>3. Fifo!Empty(c)
        BY <2>1, <3>2, <4>2 DEF PopEmpty, Fifo!Empty
      <4> QED
        BY <4>3 DEF Fifo!Next
    <3>3. CASE PopStoreTail(c)
      <4>1. Count > 0 /\ val[c] = sent[Len(received) + 1]
        BY <3>3 DEF PopStoreTail, IInv, ConsumerOK
      <4>2. Fifo!PopSome(c)
        BY <2>1, <3>3, <4>1 DEF PopStoreTail, Fifo!PopSome
      <4> QED
        BY <4>2 DEF Fifo!Next
    <3>4. CASE PeekSome(c)
      <4>1. idx[c] = tail /\ tail # head
        BY <3>4 DEF PeekSome, IInv, ConsumerOK
      <4>2. Count > 0
        BY <2>1, <4>1, DistanceZero
      <4>3. Fifo!PeekSome(c)
        BY <2>1, <3>4, <4>2 DEF PeekSome, Fifo!PeekSome
      <4> QED
        BY <4>3 DEF Fifo!Next
    <3> QED
      BY <2>3, <3>1, <3>2, <3>3, <3>4 DEF PopOrPeek, PopEnds
  <2>4. ASSUME NEW h \in Handles, LenOrDrop(h) PROVE [Fifo!Next]_(Fifo!vars)
    BY <2>4 DEF LenOrDrop, LenLoadHead, LenLoadTail, DropHandle
  <2>5. CASE DropBuffer
    BY <2>5 DEF DropBuffer
  <2>6. CASE UNCHANGED vars
    BY <2>6 DEF vars
  <2> QED
    BY <2>2, <2>3, <2>4, <2>5, <2>6 DEF Next
<1> QED
  BY <1>1, <1>2, Invariance, PTL DEF Spec, ImplementsFifo, Fifo!Spec
=============================================================================
