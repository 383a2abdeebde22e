------------------------ MODULE SharedObjectsProofs --------------------------
(***************************************************************************)
(* Proofs about the objects that threads share without a lock, for any     *)
(* number of threads.                                                      *)
(*                                                                         *)
(* ObjectPool: every object is in one place, the two counters are exact    *)
(* but for the calls under way, and a pooled object is clean.              *)
(*                                                                         *)
(* BufferPool, for every pool size: what is idle is bounded by its class,  *)
(* and what is handed out has the room that was asked for.                 *)
(*                                                                         *)
(* SharedData: nobody's data changes under it.                             *)
(*                                                                         *)
(* CounterSets: each set keeps its ledgers.  What is counted of an item on *)
(* one side and not yet on the other is the number of tellers between.     *)
(*                                                                         *)
(* LatencyStats: the types of what is stored, torn loads or not; and once  *)
(* nobody records, statistics are those of what was recorded, each count   *)
(* being short by what the threads under way still have to add.  Mean and  *)
(* variance are exact when no two records overlapped.                      *)
(*                                                                         *)
(* MetricsReporting: a snapshot is off by what moved while it was taken,   *)
(* and a dashboard that was dropped has told its renderers to end.         *)
(*                                                                         *)
(* SnapshotReports: summary and sparkline are true to the snapshots kept.  *)
(*                                                                         *)
(* MCSharedObjects composes them: a behaviour exercises one.               *)
(***************************************************************************)
EXTENDS MCSharedObjects, SumsProofs, FiniteSetTheorems

---------------------------------------------------------------------------
(* ObjectPool: images of injective functions, and the queue as one         *)

Injective(f, D) == \A x, y \in D : f[x] = f[y] => x = y
Image(f, D) == {f[x] : x \in D}

LEMMA ImageCounts ==
  ASSUME NEW D, IsFiniteSet(D), NEW f, Injective(f, D)
  PROVE  IsFiniteSet(Image(f, D)) /\ Cardinality(Image(f, D)) = Cardinality(D)
<1> DEFINE g == [x \in D |-> f[x]]
<1>0. g \in [D -> Image(f, D)] /\ DOMAIN g = D
  BY DEF Image
<1>a. IsInjective(g)
  BY <1>0 DEF Injective, IsInjective
<1>b. \A y \in Image(f, D) : \E x \in D : g[x] = y
  BY DEF Image
<1> HIDE DEF g
<1>1. g \in Bijection(D, Image(f, D))
  BY <1>0, <1>a, <1>b DEF Bijection, Injection, Surjection
<1>2. ExistsBijection(D, Image(f, D))
  BY <1>1 DEF ExistsBijection
<1> QED
  BY <1>2, FS_Bijection

LEMMA SeqTypes ==
  ASSUME NEW S, NEW s \in Seq(S)
  PROVE  /\ Len(s) \in Nat /\ DOMAIN s = 1..Len(s)
         /\ \A i \in 1..Len(s) : s[i] \in S
         /\ \A T : S \subseteq T => s \in Seq(T)
  OBVIOUS

LEMMA TailIs ==
  ASSUME NEW S, NEW s \in Seq(S), s # <<>>, Injective(s, DOMAIN s)
  PROVE  /\ Tail(s) \in Seq(S) /\ Len(Tail(s)) = Len(s) - 1
         /\ Head(s) \in Image(s, DOMAIN s)
         /\ Image(Tail(s), DOMAIN Tail(s)) = Image(s, DOMAIN s) \ {Head(s)}
         /\ Injective(Tail(s), DOMAIN Tail(s))
<1> DEFINE r == Tail(s)
<1>1. /\ r \in Seq(S) /\ Len(s) \in Nat /\ Len(s) > 0 /\ Len(r) = Len(s) - 1
      /\ DOMAIN s = 1..Len(s) /\ DOMAIN r = 1..Len(s) - 1 /\ Head(s) = s[1]
      /\ \A i \in 1..Len(s) - 1 : r[i] = s[i + 1]
  OBVIOUS
<1> HIDE DEF r
<1>2. Head(s) \in Image(s, DOMAIN s)
  BY <1>1 DEF Image
<1>3. \A i \in DOMAIN r : i + 1 \in DOMAIN s /\ r[i] = s[i + 1] /\ i + 1 # 1
  BY <1>1
<1>4. \A i \in DOMAIN s : i # 1 => i - 1 \in DOMAIN r /\ r[i - 1] = s[i]
  BY <1>1
<1>5. Injective(r, DOMAIN r)
  <2>1. SUFFICES ASSUME NEW i \in DOMAIN r, NEW j \in DOMAIN r, r[i] = r[j] PROVE i = j
    BY DEF Injective
  <2>2. i + 1 = j + 1
    BY <1>3, <2>1 DEF Injective
  <2> QED
    BY <1>1, <2>2
<1>6. \A x \in Image(r, DOMAIN r) : x \in Image(s, DOMAIN s) \ {Head(s)}
  <2>1. SUFFICES ASSUME NEW i \in DOMAIN r PROVE r[i] \in Image(s, DOMAIN s) \ {Head(s)}
    BY DEF Image
  <2>2. r[i] # s[1]
    BY <1>1, <1>3 DEF Injective
  <2> QED
    BY <1>1, <1>3, <2>2 DEF Image
<1>7. \A x \in Image(s, DOMAIN s) \ {Head(s)} : x \in Image(r, DOMAIN r)
  <2>1. SUFFICES ASSUME NEW i \in DOMAIN s, s[i] # s[1] PROVE s[i] \in Image(r, DOMAIN r)
    BY <1>1 DEF Image
  <2> QED
    BY <1>4, <2>1 DEF Image
<1> QED
  BY <1>1, <1>2, <1>5, <1>6, <1>7 DEF r

LEMMA AppendIs ==
  ASSUME NEW S, NEW s \in Seq(S), NEW e \in S, e \notin Image(s, DOMAIN s), Injective(s, DOMAIN s)
  PROVE  /\ Append(s, e) \in Seq(S) /\ Len(Append(s, e)) = Len(s) + 1
         /\ Image(Append(s, e), DOMAIN Append(s, e)) = Image(s, DOMAIN s) \union {e}
         /\ Injective(Append(s, e), DOMAIN Append(s, e))
<1> DEFINE r == Append(s, e)
<1>1. /\ r \in Seq(S) /\ Len(s) \in Nat /\ Len(r) = Len(s) + 1
      /\ DOMAIN s = 1..Len(s) /\ DOMAIN r = 1..Len(s) + 1
      /\ r[Len(s) + 1] = e
      /\ \A i \in 1..Len(s) : r[i] = s[i]
  OBVIOUS
<1> HIDE DEF r
<1>2. DOMAIN r = DOMAIN s \union {Len(s) + 1} /\ Len(s) + 1 \notin DOMAIN s
  BY <1>1
<1>3. \A i \in DOMAIN s : r[i] = s[i] /\ s[i] # e
  BY <1>1 DEF Image
<1>4. Injective(r, DOMAIN r)
  BY <1>1, <1>2, <1>3 DEF Injective
<1>5. Image(r, DOMAIN r) = Image(s, DOMAIN s) \union {e}
  BY <1>1, <1>2, <1>3 DEF Image
<1> QED
  BY <1>1, <1>4, <1>5 DEF r

---------------------------------------------------------------------------
(* ObjectPool: things in five places                                       *)

Partition(U, A, B, C, D, E) ==
  /\ U = A \union B \union C \union D \union E
  /\ A \intersect B = {} /\ A \intersect C = {} /\ A \intersect D = {} /\ A \intersect E = {}
  /\ B \intersect C = {} /\ B \intersect D = {} /\ B \intersect E = {}
  /\ C \intersect D = {} /\ C \intersect E = {} /\ D \intersect E = {}

\* A thing may move from one place to another, or be new in one of them.
LEMMA Moving ==
  ASSUME NEW U, NEW A, NEW B, NEW C, NEW D, NEW E, Partition(U, A, B, C, D, E), NEW o
  PROVE  /\ o \in A => Partition(U, A \ {o}, B \union {o}, C, D, E)
         /\ o \in A => Partition(U, A \ {o}, B, C, D, E \union {o})
         /\ o \in E => Partition(U, A, B \union {o}, C, D, E \ {o})
         /\ o \in B => Partition(U, A, B \ {o}, C \union {o}, D, E)
         /\ o \in B => Partition(U, A, B \ {o}, C, D, E \union {o})
         /\ o \in E => Partition(U, A \union {o}, B, C, D, E \ {o})
         /\ o \in E => Partition(U, A, B, C, D \union {o}, E \ {o})
         /\ o \notin U => Partition(U \union {o}, A, B \union {o}, C, D, E)
<1> USE DEF Partition
<1>1. o \in A => Partition(U, A \ {o}, B \union {o}, C, D, E)
  OBVIOUS
<1>2. o \in A => Partition(U, A \ {o}, B, C, D, E \union {o})
  OBVIOUS
<1>3. o \in E => Partition(U, A, B \union {o}, C, D, E \ {o})
  OBVIOUS
<1>4. o \in B => Partition(U, A, B \ {o}, C \union {o}, D, E)
  OBVIOUS
<1>5. o \in B => Partition(U, A, B \ {o}, C, D, E \union {o})
  OBVIOUS
<1>6. o \in E => Partition(U, A \union {o}, B, C, D, E \ {o})
  OBVIOUS
<1>7. o \in E => Partition(U, A, B, C, D \union {o}, E \ {o})
  OBVIOUS
<1>8. o \notin U => Partition(U \union {o}, A, B \union {o}, C, D, E)
  OBVIOUS
<1> HIDE DEF Partition
<1> QED
  BY <1>1, <1>2, <1>3, <1>4, <1>5, <1>6, <1>7, <1>8

LEMMA PartsCount ==
  ASSUME NEW U, NEW A, NEW B, NEW C, NEW D, NEW E, Partition(U, A, B, C, D, E), IsFiniteSet(U)
  PROVE  Cardinality(U) = Cardinality(A) + Cardinality(B) + Cardinality(C) + Cardinality(D)
                          + Cardinality(E)
<1>1. IsFiniteSet(A) /\ IsFiniteSet(B) /\ IsFiniteSet(C) /\ IsFiniteSet(D) /\ IsFiniteSet(E)
  BY FS_Subset DEF Partition
<1>2. \A S, T : IsFiniteSet(S) /\ IsFiniteSet(T) /\ S \intersect T = {} =>
        IsFiniteSet(S \union T) /\ Cardinality(S \union T) = Cardinality(S) + Cardinality(T)
  <2> SUFFICES ASSUME NEW S, NEW T, IsFiniteSet(S), IsFiniteSet(T), S \intersect T = {}
               PROVE  IsFiniteSet(S \union T) /\ Cardinality(S \union T) = Cardinality(S) + Cardinality(T)
    OBVIOUS
  <2>1. Cardinality(S) \in Nat /\ Cardinality(T) \in Nat /\ Cardinality(S \intersect T) = 0
    BY FS_CardinalityType, FS_EmptySet
  <2>2. /\ IsFiniteSet(S \union T)
        /\ Cardinality(S \union T) = Cardinality(S) + Cardinality(T) - Cardinality(S \intersect T)
    BY FS_Union
  <2> QED
    BY <2>1, <2>2
<1> DEFINE AB == A \union B
           ABC == AB \union C
           ABCD == ABC \union D
<1>3. AB \intersect C = {} /\ ABC \intersect D = {} /\ ABCD \intersect E = {} /\ U = ABCD \union E
  BY DEF Partition
<1>4. IsFiniteSet(AB) /\ Cardinality(AB) = Cardinality(A) + Cardinality(B)
  BY <1>1, <1>2 DEF Partition
<1> HIDE DEF AB
<1>5. IsFiniteSet(ABC) /\ Cardinality(ABC) = Cardinality(AB) + Cardinality(C)
  BY <1>1, <1>2, <1>3, <1>4
<1> HIDE DEF ABC
<1>6. IsFiniteSet(ABCD) /\ Cardinality(ABCD) = Cardinality(ABC) + Cardinality(D)
  BY <1>1, <1>2, <1>3, <1>5
<1> HIDE DEF ABCD
<1>7. Cardinality(U) = Cardinality(ABCD) + Cardinality(E)
  BY <1>1, <1>2, <1>3, <1>6
<1> QED
  BY <1>4, <1>5, <1>6, <1>7

---------------------------------------------------------------------------
(* ObjectPool: the invariant                                               *)

Made == 1..made
Hand == {"tryCount", "reset", "push"}
Steps == {"idle", "pop", "create", "tryCount", "reset", "push"}
Number(steps) == Cardinality(At(steps))

Shapes == /\ acquired_count \in Nat /\ total_created \in Nat /\ made \in Nat
          /\ ppc \in [Threads -> Steps] /\ obj \in [Threads -> 0..made]
QueueOK == queue \in Seq(Made) /\ Len(queue) <= PoolCap /\ Injective(queue, DOMAIN queue)

\* No two threads have the same object in hand, and no object is in two places.
HandOK == Injective(obj, At(Hand))
Located == Partition(Made, Idle, guards, kept, freed, InHand)

\* The counters, but for the calls under way.
Counted == InUseCounted /\ total_created = made + Number({"create"})

\* What is idle, or about to be handed out or put back, is clean.
Clean == /\ used \subseteq Made
         /\ HasReset => /\ used \intersect Idle = {}
                        /\ \A t \in At({"tryCount", "push"}) : obj[t] \notin used

PoolInv == Shapes /\ QueueOK /\ HandOK /\ Located /\ Counted /\ Clean

LEMMA Images == Idle = Image(queue, DOMAIN queue) /\ InHand = Image(obj, At(Hand))
  BY DEF Idle, InHand, Image, Hand

LEMMA FinitePlaces ==
  ASSUME Shapes, Located
  PROVE  /\ IsFiniteSet(Made) /\ Cardinality(Made) = made
         /\ IsFiniteSet(guards) /\ IsFiniteSet(kept)
         /\ Cardinality(guards) \in Nat /\ Cardinality(kept) \in Nat
<1>1. IsFiniteSet(Made) /\ Cardinality(Made) = made
  BY FS_Interval DEF Made, Shapes
<1>2. guards \subseteq Made /\ kept \subseteq Made
  BY DEF Located, Partition
<1>3. IsFiniteSet(guards) /\ IsFiniteSet(kept)
  BY <1>1, <1>2, FS_Subset
<1> QED
  BY <1>1, <1>3, FS_CardinalityType

---------------------------------------------------------------------------
(* ObjectPool: threads that move                                           *)

LEMMA NumberIsNat == \A S : IsFiniteSet(At(S)) /\ Number(S) \in Nat
<1> TAKE S
<1>1. At(S) \in SUBSET Threads
  BY DEF At
<1>2. IsFiniteSet(At(S))
  BY <1>1, ThreadsAssumption, FS_Subset
<1> QED
  BY <1>2, FS_CardinalityType DEF Number

LEMMA Moves ==
  ASSUME Shapes, NEW t \in Threads, NEW from, NEW to, PoolGoto(t, from, to)
  PROVE  \A S : Number(S)' = Number(S) + (IF to \in S THEN 1 ELSE 0) - (IF from \in S THEN 1 ELSE 0)
<1> TAKE S
<1> DEFINE Others == {g \in Threads \ {t} : ppc[g] \in S}
<1>1. ppc \in [Threads -> Steps] /\ ppc[t] = from /\ ppc' = [ppc EXCEPT ![t] = to]
  BY DEF Shapes, PoolGoto
<1>2. IsFiniteSet(Others) /\ t \notin Others
  <2>1. Others \in SUBSET Threads
    OBVIOUS
  <2> QED
    BY <2>1, ThreadsAssumption, FS_Subset
<1>3. /\ At(S) = IF from \in S THEN Others \union {t} ELSE Others
      /\ At(S)' = IF to \in S THEN Others \union {t} ELSE Others
  BY <1>1 DEF At
<1>4. Cardinality(Others) \in Nat /\ Cardinality(Others \union {t}) = Cardinality(Others) + 1
  BY <1>2, FS_CardinalityType, FS_AddElement
<1>5. /\ Number(S) = IF from \in S THEN Cardinality(Others) + 1 ELSE Cardinality(Others)
      /\ Number(S)' = IF to \in S THEN Cardinality(Others) + 1 ELSE Cardinality(Others)
  BY <1>3, <1>4 DEF Number
<1> HIDE DEF Others
<1> QED
  BY <1>4, <1>5

\* The two numbers the counters depend on: the acquires that have counted but hold
\* nothing yet, and those of them that are about to create.
LEMMA NumbersMove ==
  ASSUME Shapes, NEW t \in Threads, NEW from \in Steps, NEW to \in Steps, PoolGoto(t, from, to)
  PROVE  /\ Number({"pop", "create"})' = Number({"pop", "create"})
              + (IF to \in {"pop", "create"} THEN 1 ELSE 0)
              - (IF from \in {"pop", "create"} THEN 1 ELSE 0)
         /\ Number({"create"})' = Number({"create"})
              + (IF to = "create" THEN 1 ELSE 0) - (IF from = "create" THEN 1 ELSE 0)
<1>1. \A S : Number(S)' = Number(S) + (IF to \in S THEN 1 ELSE 0) - (IF from \in S THEN 1 ELSE 0)
  BY Moves
<1>2. to \in {"create"} <=> to = "create"
  OBVIOUS
<1>3. from \in {"create"} <=> from = "create"
  OBVIOUS
<1> QED
  BY <1>1, <1>2, <1>3

LEMMA HandStays ==
  ASSUME Shapes, HandOK, NEW t \in Threads, NEW from, NEW to, PoolGoto(t, from, to), obj' = obj,
         from \in Hand <=> to \in Hand
  PROVE  InHand' = InHand /\ HandOK'
<1>1. \A S : At(S) = {u \in Threads : ppc[u] \in S} /\ At(S)' = {u \in Threads : ppc'[u] \in S}
  BY DEF At
<1>2. \A u \in Threads : ppc'[u] \in Hand <=> ppc[u] \in Hand
  BY DEF Shapes, PoolGoto
<1>3. At(Hand)' = At(Hand)
  BY <1>1, <1>2
<1> QED
  BY <1>3 DEF InHand, HandOK, Hand, Injective

LEMMA HandTakes ==
  ASSUME Shapes, HandOK, NEW t \in Threads, NEW from, NEW to, PoolGoto(t, from, to),
         from \notin Hand, to \in Hand, NEW o, obj' = [obj EXCEPT ![t] = o], o \notin InHand
  PROVE  InHand' = InHand \union {o} /\ HandOK'
<1>1. At(Hand)' = At(Hand) \union {t} /\ t \notin At(Hand)
  BY DEF Shapes, PoolGoto, At
<1>2. obj'[t] = o /\ \A u \in At(Hand) : obj'[u] = obj[u] /\ obj[u] # o
  <2>1. \A u \in At(Hand) : obj[u] \in InHand /\ u \in Threads
    BY DEF InHand, Hand, At
  <2> QED
    BY <1>1, <2>1 DEF Shapes
<1>3. InHand' = {obj'[u] : u \in At(Hand)'} /\ InHand = {obj[u] : u \in At(Hand)}
  BY DEF InHand, Hand
<1>4. InHand' = InHand \union {o}
  BY <1>1, <1>2, <1>3
<1>5. Injective(obj', At(Hand)')
  BY <1>1, <1>2 DEF HandOK, Injective
<1> QED
  BY <1>4, <1>5 DEF HandOK, Injective

LEMMA HandGives ==
  ASSUME Shapes, HandOK, NEW t \in Threads, NEW from, NEW to, PoolGoto(t, from, to),
         from \in Hand, to \notin Hand, obj' = [obj EXCEPT ![t] = NoObject]
  PROVE  InHand' = InHand \ {obj[t]} /\ obj[t] \in InHand /\ HandOK'
<1>1. At(Hand)' = At(Hand) \ {t} /\ t \in At(Hand)
  BY DEF Shapes, PoolGoto, At
<1>2. \A u \in At(Hand) \ {t} : obj'[u] = obj[u] /\ obj[u] # obj[t]
  <2>1. At(Hand) \subseteq Threads
    BY DEF At
  <2> QED
    BY <1>1, <2>1 DEF Shapes, HandOK, Injective
<1>3. InHand' = {obj'[u] : u \in At(Hand)'} /\ InHand = {obj[u] : u \in At(Hand)}
  BY DEF InHand, Hand
<1>4. InHand' = InHand \ {obj[t]} /\ obj[t] \in InHand
  BY <1>1, <1>2, <1>3
<1>5. Injective(obj', At(Hand)')
  BY <1>1, <1>2 DEF HandOK, Injective
<1> QED
  BY <1>4, <1>5 DEF HandOK, Injective

---------------------------------------------------------------------------
(* ObjectPool: it holds at first and in every step                         *)

LEMMA PoolInvInit == PoolInit => PoolInv
<1> SUFFICES ASSUME PoolInit PROVE PoolInv
  OBVIOUS
<1>1. /\ made \in Nat /\ made <= PoolCap /\ queue = [i \in Made |-> i]
      /\ Len(queue) = made /\ DOMAIN queue = Made
  BY PoolCapAssumption, PrefilledAssumption DEF PoolInit, Made
<1>2. Shapes
  BY <1>1 DEF PoolInit, Shapes, Steps, NoObject
<1>3. QueueOK
  BY <1>1 DEF QueueOK, Injective, Made
<1>4. \A S : S \subseteq Steps \ {"idle"} => At(S) = {}
  BY DEF PoolInit, At
<1>5. At(Hand) = {} /\ At({"pop", "create"}) = {} /\ At({"create"}) = {} /\ At({"tryCount", "push"}) = {}
  BY <1>4 DEF Hand, Steps
<1>6. HandOK /\ InHand = {}
  BY <1>5 DEF HandOK, Injective, InHand, Hand
<1>7. Idle = Made
  BY <1>1 DEF Idle
<1>8. Located
  <2>1. guards = {} /\ kept = {} /\ freed = {}
    BY DEF PoolInit
  <2>2. Partition(Made, Made, {}, {}, {}, {})
    BY DEF Partition
  <2> QED
    BY <1>6, <1>7, <2>1, <2>2 DEF Located
<1>9. Counted
  <2>1. acquired_count = 0 /\ total_created = made /\ guards = {} /\ kept = {}
    BY DEF PoolInit
  <2>2. Number({"pop", "create"}) = 0 /\ Number({"create"}) = 0 /\ Cardinality({}) = 0
    BY <1>5, FS_EmptySet DEF Number
  <2> QED
    BY <1>1, <2>1, <2>2 DEF Counted, InUseCounted, Number
<1>10. Clean
  BY <1>5 DEF Clean, PoolInit
<1> QED
  BY <1>2, <1>3, <1>6, <1>8, <1>9, <1>10 DEF PoolInv

\* A step that leaves the queue and the factory alone.
LEMMA QueueStays ==
  ASSUME QueueOK, UNCHANGED <<queue, made>>
  PROVE  QueueOK' /\ Idle' = Idle /\ Made' = Made
  BY DEF QueueOK, Idle, Made, Injective

\* A step that takes the oldest object out of the queue.
LEMMA QueueGives ==
  ASSUME QueueOK, queue # <<>>, queue' = Tail(queue), made' = made
  PROVE  QueueOK' /\ Head(queue) \in Idle /\ Idle' = Idle \ {Head(queue)} /\ Made' = Made
<1> DEFINE r == Tail(queue)
<1>1. /\ r \in Seq(Made) /\ Len(r) = Len(queue) - 1 /\ Head(queue) \in Image(queue, DOMAIN queue)
      /\ Image(r, DOMAIN r) = Image(queue, DOMAIN queue) \ {Head(queue)} /\ Injective(r, DOMAIN r)
  BY TailIs DEF QueueOK
<1>2. Made' = Made /\ queue' = r
  BY DEF Made
<1>3. Idle = Image(queue, DOMAIN queue) /\ Idle' = Image(r, DOMAIN r)
  BY <1>2 DEF Idle, Image
<1>4. Len(queue) \in Nat /\ PoolCap \in Nat /\ Len(queue) <= PoolCap
  BY PoolCapAssumption, SeqTypes DEF QueueOK
<1> HIDE DEF r
<1>5. QueueOK'
  BY <1>1, <1>2, <1>4 DEF QueueOK, Injective
<1> QED
  BY <1>1, <1>2, <1>3, <1>5

\* A step that puts an object into a queue with room for it.
LEMMA QueueTakes ==
  ASSUME QueueOK, NEW o \in Made, o \notin Idle, Len(queue) < PoolCap, queue' = Append(queue, o),
         made' = made
  PROVE  QueueOK' /\ Idle' = Idle \union {o} /\ Made' = Made
<1> DEFINE r == Append(queue, o)
<1>1. o \notin Image(queue, DOMAIN queue)
  BY Images
<1>2. /\ r \in Seq(Made) /\ Len(r) = Len(queue) + 1
      /\ Image(r, DOMAIN r) = Image(queue, DOMAIN queue) \union {o} /\ Injective(r, DOMAIN r)
  BY <1>1, AppendIs DEF QueueOK
<1>3. Made' = Made /\ queue' = r
  BY DEF Made
<1>4. Idle = Image(queue, DOMAIN queue) /\ Idle' = Image(r, DOMAIN r)
  BY <1>3 DEF Idle, Image
<1>5. Len(queue) \in Nat /\ PoolCap \in Nat
  BY PoolCapAssumption, SeqTypes DEF QueueOK
<1> HIDE DEF r
<1>6. QueueOK'
  BY <1>2, <1>3, <1>5 DEF QueueOK, Injective
<1> QED
  BY <1>2, <1>3, <1>4, <1>6

\* Shapes of a step: everything else it does is a natural number, a place or an object.
LEMMA ShapesStep ==
  ASSUME Shapes, NEW t \in Threads, NEW from, NEW to \in Steps, PoolGoto(t, from, to),
         acquired_count' \in Nat, total_created' \in Nat, made' \in Nat, made' >= made,
         obj' = obj \/ obj' \in [Threads -> 0..made]
  PROVE  Shapes'
<1>1. ppc' \in [Threads -> Steps]
  BY DEF Shapes, PoolGoto
<1>2. obj' \in [Threads -> 0..made] /\ made \in Nat
  BY DEF Shapes
<1>3. obj' \in [Threads -> 0..made']
  BY <1>2
<1> QED
  BY <1>1, <1>3 DEF Shapes

LEMMA StartsAndCounts ==
  ASSUME PoolInv, NEW t \in Threads, AcquireCount(t) \/ AcquireEmpty(t)
  PROVE  PoolInv'
<1>1. PICK from \in {"idle", "pop"}, to \in {"pop", "create"} : PoolGoto(t, from, to)
  BY DEF AcquireCount, AcquireEmpty
<1>2. UNCHANGED <<places, obj, used, made>>
  BY DEF AcquireCount, AcquireEmpty
<1>3. QueueOK' /\ Idle' = Idle /\ Made' = Made
  BY <1>2, QueueStays DEF PoolInv, places
<1>4. HandOK' /\ InHand' = InHand
  BY <1>1, <1>2, HandStays DEF PoolInv, Hand
<1>5. acquired_count \in Nat /\ total_created \in Nat /\ made \in Nat
  BY DEF PoolInv, Shapes
<1>6. acquired_count' \in Nat /\ total_created' \in Nat
  BY <1>5 DEF AcquireCount, AcquireEmpty
<1>7. Shapes'
  BY <1>1, <1>2, <1>5, <1>6, ShapesStep DEF PoolInv, Steps
<1>8. Located'
  BY <1>2, <1>3, <1>4 DEF PoolInv, Located, places
<1>9. Counted'
  <2>1. Cardinality(guards) \in Nat /\ Cardinality(kept) \in Nat
    BY FinitePlaces DEF PoolInv
  <2>2. Number({"pop", "create"}) \in Nat /\ Number({"create"}) \in Nat
    BY NumberIsNat
  <2>3. CASE AcquireCount(t)
    <3>1. PoolGoto(t, "idle", "pop") /\ acquired_count' = acquired_count + 1
          /\ total_created' = total_created
      BY <2>3 DEF AcquireCount, poolCounters
    <3>2. /\ Number({"pop", "create"})' = Number({"pop", "create"}) + 1
          /\ Number({"create"})' = Number({"create"})
      BY <2>2, <3>1, NumbersMove DEF PoolInv, Steps
    <3> QED
      BY <1>2, <1>5, <2>1, <2>2, <3>1, <3>2 DEF PoolInv, Counted, InUseCounted, Number, places
  <2>4. CASE AcquireEmpty(t)
    <3>1. PoolGoto(t, "pop", "create") /\ acquired_count' = acquired_count
          /\ total_created' = total_created + 1
      BY <2>4 DEF AcquireEmpty, poolCounters
    <3>2. /\ Number({"pop", "create"})' = Number({"pop", "create"})
          /\ Number({"create"})' = Number({"create"}) + 1
      BY <2>2, <3>1, NumbersMove DEF PoolInv, Steps
    <3> QED
      BY <1>2, <1>5, <2>1, <2>2, <3>1, <3>2 DEF PoolInv, Counted, InUseCounted, Number, places
  <2> QED
    BY <2>3, <2>4
<1>10. Clean'
  <2>1. At({"tryCount", "push"})' \subseteq At({"tryCount", "push"})
    BY <1>1 DEF PoolInv, Shapes, PoolGoto, At
  <2> QED
    BY <1>2, <1>3, <2>1 DEF PoolInv, Clean
<1> QED
  BY <1>3, <1>4, <1>7, <1>8, <1>9, <1>10 DEF PoolInv

LEMMA PopKeeps ==
  ASSUME PoolInv, NEW t \in Threads, AcquirePop(t)
  PROVE  PoolInv'
<1> DEFINE o == Head(queue)
<1>1. /\ PoolGoto(t, "pop", "idle") /\ queue # <<>> /\ queue' = Tail(queue)
      /\ guards' = guards \union {o} /\ UNCHANGED <<kept, freed, obj, used, made>>
      /\ acquired_count' = acquired_count /\ total_created' = total_created
  BY DEF AcquirePop, poolCounters
<1>2. QueueOK' /\ o \in Idle /\ Idle' = Idle \ {o} /\ Made' = Made
  BY <1>1, QueueGives DEF PoolInv
<1> HIDE DEF o
<1>3. HandOK' /\ InHand' = InHand
  BY <1>1, HandStays DEF PoolInv, Hand
<1>4. acquired_count \in Nat /\ total_created \in Nat /\ made \in Nat
  BY DEF PoolInv, Shapes
<1>5. Shapes'
  BY <1>1, <1>4, ShapesStep DEF PoolInv, Steps
<1>6. Located'
  BY <1>1, <1>2, <1>3, Moving DEF PoolInv, Located
<1>7. Counted'
  <2>1. /\ IsFiniteSet(guards) /\ Cardinality(guards) \in Nat /\ Cardinality(kept) \in Nat
        /\ o \notin guards
    BY <1>2, FinitePlaces DEF PoolInv, Located, Partition
  <2>2. Cardinality(guards') = Cardinality(guards) + 1
    BY <1>1, <2>1, FS_AddElement
  <2>3. Number({"pop", "create"}) \in Nat /\ Number({"create"}) \in Nat
    BY NumberIsNat
  <2>4. /\ Number({"pop", "create"})' = Number({"pop", "create"}) - 1
        /\ Number({"create"})' = Number({"create"})
    BY <1>1, <2>3, NumbersMove DEF PoolInv, Steps
  <2> QED
    BY <1>1, <1>4, <2>1, <2>2, <2>3, <2>4 DEF PoolInv, Counted, InUseCounted, Number
<1>8. Clean'
  <2>1. At({"tryCount", "push"})' \subseteq At({"tryCount", "push"})
    BY <1>1 DEF PoolInv, Shapes, PoolGoto, At
  <2> QED
    BY <1>1, <1>2, <2>1 DEF PoolInv, Clean
<1> QED
  BY <1>2, <1>3, <1>5, <1>6, <1>7, <1>8 DEF PoolInv

LEMMA CreateKeeps ==
  ASSUME PoolInv, NEW t \in Threads, AcquireCreate(t)
  PROVE  PoolInv'
<1> DEFINE o == made + 1
<1>1. /\ PoolGoto(t, "create", "idle") /\ made' = o
      /\ guards' = guards \union {o} /\ UNCHANGED <<queue, kept, freed, obj, used>>
      /\ acquired_count' = acquired_count /\ total_created' = total_created
  BY DEF AcquireCreate, poolCounters
<1>2. acquired_count \in Nat /\ total_created \in Nat /\ made \in Nat
  BY DEF PoolInv, Shapes
<1>3. Made' = Made \union {o} /\ o \notin Made /\ o \in Nat /\ o >= made
  BY <1>1, <1>2 DEF Made
<1>4. QueueOK' /\ Idle' = Idle
  <2>1. queue \in Seq(Made')
    BY <1>3, SeqTypes DEF PoolInv, QueueOK
  <2> QED
    BY <1>1, <2>1 DEF PoolInv, QueueOK, Injective, Idle
<1>5. HandOK' /\ InHand' = InHand
  BY <1>1, HandStays DEF PoolInv, Hand
<1>6. Shapes'
  BY <1>1, <1>2, <1>3, ShapesStep DEF PoolInv, Steps
<1>7. o \notin guards
  BY <1>3 DEF PoolInv, Located, Partition
<1>8. Located'
  <2> HIDE DEF o
  <2> QED
    BY <1>1, <1>3, <1>4, <1>5, Moving DEF PoolInv, Located
<1>9. Counted'
  <2>1. IsFiniteSet(guards) /\ Cardinality(guards) \in Nat /\ Cardinality(kept) \in Nat
    BY FinitePlaces DEF PoolInv
  <2>2. Cardinality(guards') = Cardinality(guards) + 1
    BY <1>1, <1>7, <2>1, FS_AddElement
  <2>3. Number({"pop", "create"}) \in Nat /\ Number({"create"}) \in Nat
    BY NumberIsNat
  <2>4. /\ Number({"pop", "create"})' = Number({"pop", "create"}) - 1
        /\ Number({"create"})' = Number({"create"}) - 1
    BY <1>1, <2>3, NumbersMove DEF PoolInv, Steps
  <2> QED
    BY <1>1, <1>2, <2>1, <2>2, <2>3, <2>4 DEF PoolInv, Counted, InUseCounted, Number
<1>10. Clean'
  <2>1. At({"tryCount", "push"})' \subseteq At({"tryCount", "push"})
    BY <1>1 DEF PoolInv, Shapes, PoolGoto, At
  <2> QED
    BY <1>1, <1>3, <1>4, <2>1 DEF PoolInv, Clean
<1> QED
  BY <1>4, <1>5, <1>6, <1>8, <1>9, <1>10 DEF PoolInv

LEMMA TryPopKeeps ==
  ASSUME PoolInv, NEW t \in Threads, TryPop(t)
  PROVE  PoolInv'
<1> DEFINE o == Head(queue)
<1>1. /\ PoolGoto(t, "idle", "tryCount") /\ queue # <<>> /\ queue' = Tail(queue)
      /\ obj' = [obj EXCEPT ![t] = o] /\ UNCHANGED <<guards, kept, freed, used, made>>
      /\ acquired_count' = acquired_count /\ total_created' = total_created
  BY DEF TryPop, poolCounters
<1>2. QueueOK' /\ o \in Idle /\ Idle' = Idle \ {o} /\ Made' = Made
  BY <1>1, QueueGives DEF PoolInv
<1> HIDE DEF o
<1>3. o \notin InHand /\ o \in Made
  BY <1>2 DEF PoolInv, Located, Partition
<1>4. HandOK' /\ InHand' = InHand \union {o}
  BY <1>1, <1>3, HandTakes DEF PoolInv, Hand
<1>5. acquired_count \in Nat /\ total_created \in Nat /\ made \in Nat /\ o \in 0..made
  BY <1>3 DEF PoolInv, Shapes, Made
<1>6. Shapes'
  <2>1. obj' \in [Threads -> 0..made]
    BY <1>1, <1>5 DEF PoolInv, Shapes
  <2> QED
    BY <1>1, <1>5, <2>1, ShapesStep DEF PoolInv, Steps
<1>7. Located'
  BY <1>1, <1>2, <1>4, Moving DEF PoolInv, Located
<1>8. Counted'
  <2>1. Number({"pop", "create"}) \in Nat /\ Number({"create"}) \in Nat
    BY NumberIsNat
  <2>2. /\ Number({"pop", "create"})' = Number({"pop", "create"})
        /\ Number({"create"})' = Number({"create"})
    BY <1>1, <2>1, NumbersMove DEF PoolInv, Steps
  <2> QED
    BY <1>1, <2>2 DEF PoolInv, Counted, InUseCounted, Number
<1>9. Clean'
  <2>1. /\ obj'[t] = o
        /\ \A u \in At({"tryCount", "push"})' : u # t => u \in At({"tryCount", "push"}) /\ obj'[u] = obj[u]
    BY <1>1 DEF PoolInv, Shapes, PoolGoto, At
  <2>2. HasReset => o \notin used
    BY <1>2 DEF PoolInv, Clean
  <2> QED
    BY <1>1, <1>2, <2>1, <2>2 DEF PoolInv, Clean
<1> QED
  BY <1>2, <1>4, <1>6, <1>7, <1>8, <1>9 DEF PoolInv

LEMMA TryCountKeeps ==
  ASSUME PoolInv, NEW t \in Threads, TryCount(t)
  PROVE  PoolInv'
<1> DEFINE o == obj[t]
<1>1. /\ PoolGoto(t, "tryCount", "idle") /\ guards' = guards \union {o}
      /\ obj' = [obj EXCEPT ![t] = NoObject] /\ UNCHANGED <<queue, kept, freed, used, made>>
      /\ acquired_count' = acquired_count + 1 /\ total_created' = total_created
  BY DEF TryCount
<1>2. QueueOK' /\ Idle' = Idle /\ Made' = Made
  BY <1>1, QueueStays DEF PoolInv
<1>3. HandOK' /\ o \in InHand /\ InHand' = InHand \ {o}
  BY <1>1, HandGives DEF PoolInv, Hand
<1> HIDE DEF o
<1>4. acquired_count \in Nat /\ total_created \in Nat /\ made \in Nat /\ NoObject \in 0..made
  BY DEF PoolInv, Shapes, NoObject
<1>5. Shapes'
  <2>1. obj' \in [Threads -> 0..made]
    BY <1>1, <1>4 DEF PoolInv, Shapes
  <2> QED
    BY <1>1, <1>4, <2>1, ShapesStep DEF PoolInv, Steps
<1>6. Located'
  BY <1>1, <1>2, <1>3, Moving DEF PoolInv, Located
<1>7. Counted'
  <2>1. /\ IsFiniteSet(guards) /\ Cardinality(guards) \in Nat /\ Cardinality(kept) \in Nat
        /\ o \notin guards
    BY <1>3, FinitePlaces DEF PoolInv, Located, Partition
  <2>2. Cardinality(guards') = Cardinality(guards) + 1
    BY <1>1, <2>1, FS_AddElement
  <2>3. Number({"pop", "create"}) \in Nat /\ Number({"create"}) \in Nat
    BY NumberIsNat
  <2>4. /\ Number({"pop", "create"})' = Number({"pop", "create"})
        /\ Number({"create"})' = Number({"create"})
    BY <1>1, <2>3, NumbersMove DEF PoolInv, Steps
  <2> QED
    BY <1>1, <1>4, <2>1, <2>2, <2>3, <2>4 DEF PoolInv, Counted, InUseCounted, Number
<1>8. Clean'
  <2>1. \A u \in At({"tryCount", "push"})' : u \in At({"tryCount", "push"}) /\ obj'[u] = obj[u]
    BY <1>1 DEF PoolInv, Shapes, PoolGoto, At
  <2> QED
    BY <1>1, <1>2, <2>1 DEF PoolInv, Clean
<1> QED
  BY <1>2, <1>3, <1>5, <1>6, <1>7, <1>8 DEF PoolInv

\* A guard is used, or its object leaves the pool for good.
LEMMA OwnerKeeps ==
  ASSUME PoolInv, NEW o \in guards, Use(o) \/ Take(o)
  PROVE  PoolInv'
<1>1. /\ UNCHANGED <<queue, freed, ppc, obj, made>>
      /\ acquired_count' = acquired_count /\ total_created' = total_created
  BY DEF Use, Take, places, poolCounters
<1>2. QueueOK' /\ Idle' = Idle /\ Made' = Made
  BY <1>1, QueueStays DEF PoolInv
<1>3. \A S : At(S)' = At(S) /\ Number(S)' = Number(S)
  BY <1>1 DEF At, Number
<1>4. HandOK' /\ InHand' = InHand
  BY <1>1, <1>3 DEF PoolInv, HandOK, Injective, InHand, Hand
<1>5. Shapes'
  BY <1>1 DEF PoolInv, Shapes
<1>6. o \in Made /\ o \notin Idle /\ o \notin InHand /\ o \notin kept
  BY DEF PoolInv, Located, Partition
<1>7. CASE Use(o)
  <2>1. used' = used \union {o} /\ guards' = guards /\ kept' = kept
    BY <1>7 DEF Use, places
  <2>2. Located'
    BY <1>1, <1>2, <1>4, <2>1 DEF PoolInv, Located
  <2>3. Counted'
    BY <1>1, <1>3, <2>1 DEF PoolInv, Counted, InUseCounted, Number
  <2>4. \A u \in At({"tryCount", "push"}) : obj[u] \in InHand
    BY DEF At, InHand
  <2>5. Clean'
    BY <1>1, <1>2, <1>3, <1>6, <2>1, <2>4 DEF PoolInv, Clean
  <2> QED
    BY <1>2, <1>4, <1>5, <2>2, <2>3, <2>5 DEF PoolInv
<1>8. CASE Take(o)
  <2>1. used' = used /\ guards' = guards \ {o} /\ kept' = kept \union {o}
    BY <1>8 DEF Take
  <2>2. Located'
    BY <1>1, <1>2, <1>4, <2>1, Moving DEF PoolInv, Located
  <2>3. Counted'
    <3>1. /\ IsFiniteSet(guards) /\ Cardinality(guards) \in Nat
          /\ IsFiniteSet(kept) /\ Cardinality(kept) \in Nat
      BY FinitePlaces DEF PoolInv
    <3>2. Cardinality(guards') = Cardinality(guards) - 1
      BY <2>1, <3>1, FS_RemoveElement
    <3>3. Cardinality(kept') = Cardinality(kept) + 1
      BY <1>6, <2>1, <3>1, FS_AddElement
    <3>4. Number({"pop", "create"}) \in Nat
      BY NumberIsNat
    <3> QED
      BY <1>1, <1>3, <3>1, <3>2, <3>3, <3>4 DEF PoolInv, Counted, InUseCounted, Number
  <2>4. Clean'
    BY <1>1, <1>2, <1>3, <2>1 DEF PoolInv, Clean
  <2> QED
    BY <1>2, <1>4, <1>5, <2>2, <2>3, <2>4 DEF PoolInv
<1> QED
  BY <1>7, <1>8

LEMMA ReturnKeeps ==
  ASSUME PoolInv, NEW t \in Threads, NEW o \in guards, ReturnCount(t, o)
  PROVE  PoolInv'
<1>1. /\ PoolGoto(t, "idle", "reset") /\ guards' = guards \ {o}
      /\ obj' = [obj EXCEPT ![t] = o] /\ UNCHANGED <<queue, kept, freed, used, made>>
      /\ acquired_count' = acquired_count - 1 /\ total_created' = total_created
  BY DEF ReturnCount
<1>2. QueueOK' /\ Idle' = Idle /\ Made' = Made
  BY <1>1, QueueStays DEF PoolInv
<1>3. o \notin InHand /\ o \in Made
  BY DEF PoolInv, Located, Partition
<1>4. HandOK' /\ InHand' = InHand \union {o}
  BY <1>1, <1>3, HandTakes DEF PoolInv, Hand
<1>5. acquired_count \in Nat /\ total_created \in Nat /\ made \in Nat /\ o \in 0..made
  BY <1>3 DEF PoolInv, Shapes, Made
<1>6. Number({"pop", "create"}) \in Nat /\ Number({"create"}) \in Nat
  BY NumberIsNat
<1>7. /\ IsFiniteSet(guards) /\ Cardinality(guards) \in Nat /\ Cardinality(kept) \in Nat
      /\ Cardinality(guards') \in Nat /\ Cardinality(guards') = Cardinality(guards) - 1
  <2>1. IsFiniteSet(guards) /\ Cardinality(guards) \in Nat /\ Cardinality(kept) \in Nat
    BY FinitePlaces DEF PoolInv
  <2>2. /\ IsFiniteSet(guards \ {o})
        /\ Cardinality(guards \ {o}) = Cardinality(guards) - 1
    BY <2>1, FS_RemoveElement
  <2> QED
    BY <1>1, <2>1, <2>2, FS_CardinalityType
<1>8. /\ Number({"pop", "create"})' = Number({"pop", "create"})
      /\ Number({"create"})' = Number({"create"})
  BY <1>1, <1>6, NumbersMove DEF PoolInv, Steps
<1>9. Counted'
  BY <1>1, <1>5, <1>6, <1>7, <1>8 DEF PoolInv, Counted, InUseCounted, Number
<1>10. acquired_count' \in Nat
  BY <1>1, <1>5, <1>6, <1>7 DEF PoolInv, Counted, InUseCounted, Number
<1>11. Shapes'
  <2>1. obj' \in [Threads -> 0..made]
    BY <1>1, <1>5, <1>10 DEF PoolInv, Shapes
  <2> QED
    BY <1>1, <1>5, <1>10, <2>1, ShapesStep DEF PoolInv, Steps
<1>12. Located'
  BY <1>1, <1>2, <1>4, Moving DEF PoolInv, Located
<1>13. Clean'
  <2>1. \A u \in At({"tryCount", "push"})' : u \in At({"tryCount", "push"}) /\ obj'[u] = obj[u]
    BY <1>1 DEF PoolInv, Shapes, PoolGoto, At
  <2> QED
    BY <1>1, <1>2, <2>1 DEF PoolInv, Clean
<1> QED
  BY <1>2, <1>4, <1>9, <1>11, <1>12, <1>13 DEF PoolInv

LEMMA ResetKeeps ==
  ASSUME PoolInv, NEW t \in Threads, ReturnReset(t)
  PROVE  PoolInv'
<1>1. /\ PoolGoto(t, "reset", "push") /\ UNCHANGED <<queue, guards, kept, freed, obj, made>>
      /\ used' = (IF HasReset THEN used \ {obj[t]} ELSE used)
      /\ acquired_count' = acquired_count /\ total_created' = total_created
  BY DEF ReturnReset, places, poolCounters
<1>2. QueueOK' /\ Idle' = Idle /\ Made' = Made
  BY <1>1, QueueStays DEF PoolInv
<1>3. HandOK' /\ InHand' = InHand
  BY <1>1, HandStays DEF PoolInv, Hand
<1>4. acquired_count \in Nat /\ total_created \in Nat /\ made \in Nat
  BY DEF PoolInv, Shapes
<1>5. Shapes'
  BY <1>1, <1>4, ShapesStep DEF PoolInv, Steps
<1>6. Located'
  BY <1>1, <1>2, <1>3 DEF PoolInv, Located
<1>7. Counted'
  <2>1. Number({"pop", "create"}) \in Nat /\ Number({"create"}) \in Nat
    BY NumberIsNat
  <2>2. /\ Number({"pop", "create"})' = Number({"pop", "create"})
        /\ Number({"create"})' = Number({"create"})
    BY <1>1, <2>1, NumbersMove DEF PoolInv, Steps
  <2> QED
    BY <1>1, <2>2 DEF PoolInv, Counted, InUseCounted, Number
<1>8. Clean'
  <2>1. \A u \in At({"tryCount", "push"})' : u = t \/ u \in At({"tryCount", "push"})
    BY <1>1 DEF PoolInv, Shapes, PoolGoto, At
  <2>2. used' \subseteq used /\ (HasReset => obj[t] \notin used')
    BY <1>1
  <2> QED
    BY <1>1, <1>2, <2>1, <2>2 DEF PoolInv, Clean
<1> QED
  BY <1>2, <1>3, <1>5, <1>6, <1>7, <1>8 DEF PoolInv

LEMMA PushKeeps ==
  ASSUME PoolInv, NEW t \in Threads, ReturnPush(t)
  PROVE  PoolInv'
<1> DEFINE o == obj[t]
<1>1. /\ PoolGoto(t, "push", "idle") /\ obj' = [obj EXCEPT ![t] = NoObject]
      /\ UNCHANGED <<guards, kept, used, made>>
      /\ acquired_count' = acquired_count /\ total_created' = total_created
      /\ IF Len(queue) < PoolCap
         THEN queue' = Append(queue, o) /\ freed' = freed
         ELSE queue' = queue /\ freed' = freed \union {o}
  BY DEF ReturnPush, poolCounters
<1>2. t \in At({"tryCount", "push"})
  BY <1>1 DEF PoolGoto, At
<1>3. HandOK' /\ o \in InHand /\ InHand' = InHand \ {o}
  BY <1>1, HandGives DEF PoolInv, Hand
<1>4. HasReset => o \notin used
  BY <1>2 DEF PoolInv, Clean
<1> HIDE DEF o
<1>5. acquired_count \in Nat /\ total_created \in Nat /\ made \in Nat /\ NoObject \in 0..made
  BY DEF PoolInv, Shapes, NoObject
<1>6. Shapes'
  <2>1. obj' \in [Threads -> 0..made]
    BY <1>1, <1>5 DEF PoolInv, Shapes
  <2> QED
    BY <1>1, <1>5, <2>1, ShapesStep DEF PoolInv, Steps
<1>7. o \in Made /\ o \notin Idle
  BY <1>3 DEF PoolInv, Located, Partition
<1>8. Counted'
  <2>1. Number({"pop", "create"}) \in Nat /\ Number({"create"}) \in Nat
    BY NumberIsNat
  <2>2. /\ Number({"pop", "create"})' = Number({"pop", "create"})
        /\ Number({"create"})' = Number({"create"})
    BY <1>1, <2>1, NumbersMove DEF PoolInv, Steps
  <2> QED
    BY <1>1, <2>2 DEF PoolInv, Counted, InUseCounted, Number
<1>9. \A u \in At({"tryCount", "push"})' : u \in At({"tryCount", "push"}) /\ obj'[u] = obj[u]
  BY <1>1 DEF PoolInv, Shapes, PoolGoto, At
<1>10. CASE Len(queue) < PoolCap
  <2>1. queue' = Append(queue, o) /\ freed' = freed
    BY <1>1, <1>10
  <2>2. QueueOK' /\ Idle' = Idle \union {o} /\ Made' = Made
    BY <1>1, <1>7, <1>10, <2>1, QueueTakes DEF PoolInv
  <2>3. Located'
    BY <1>1, <1>3, <2>1, <2>2, Moving DEF PoolInv, Located
  <2>4. Clean'
    BY <1>1, <1>4, <1>9, <2>2 DEF PoolInv, Clean
  <2> QED
    BY <1>3, <1>6, <1>8, <2>2, <2>3, <2>4 DEF PoolInv
<1>11. CASE ~(Len(queue) < PoolCap)
  <2>1. queue' = queue /\ freed' = freed \union {o}
    BY <1>1, <1>11
  <2>2. QueueOK' /\ Idle' = Idle /\ Made' = Made
    BY <1>1, <2>1, QueueStays DEF PoolInv
  <2>3. Located'
    BY <1>1, <1>3, <2>1, <2>2, Moving DEF PoolInv, Located
  <2>4. Clean'
    BY <1>1, <1>9, <2>2 DEF PoolInv, Clean
  <2> QED
    BY <1>3, <1>6, <1>8, <2>2, <2>3, <2>4 DEF PoolInv
<1> QED
  BY <1>10, <1>11

LEMMA PoolKeeps == PoolInv /\ [PoolNext]_poolVars => PoolInv'
<1> SUFFICES ASSUME PoolInv, [PoolNext]_poolVars PROVE PoolInv'
  OBVIOUS
<1>1. ASSUME NEW t \in Threads, PoolStep(t) PROVE PoolInv'
  <2>1. CASE AcquireCount(t) \/ AcquireEmpty(t)
    BY <2>1, StartsAndCounts
  <2>2. CASE AcquirePop(t)
    BY <2>2, PopKeeps
  <2>3. CASE AcquireCreate(t)
    BY <2>3, CreateKeeps
  <2>4. CASE TryPop(t)
    BY <2>4, TryPopKeeps
  <2>5. CASE TryCount(t)
    BY <2>5, TryCountKeeps
  <2>6. CASE \E o \in guards : ReturnCount(t, o)
    BY <2>6, ReturnKeeps
  <2>7. CASE ReturnReset(t)
    BY <2>7, ResetKeeps
  <2>8. CASE ReturnPush(t)
    BY <2>8, PushKeeps
  <2> QED
    BY <1>1, <2>1, <2>2, <2>3, <2>4, <2>5, <2>6, <2>7, <2>8 DEF PoolStep
<1>2. ASSUME NEW o \in guards, Use(o) \/ Take(o) PROVE PoolInv'
  BY <1>2, OwnerKeeps
<1>3. CASE UNCHANGED poolVars
  BY <1>3 DEF poolVars, poolCounters, places, PoolInv, Shapes, QueueOK, HandOK, Located, Counted,
              InUseCounted, Clean, Idle, InHand, At, Number, Made, Injective
<1> QED
  BY <1>1, <1>2, <1>3 DEF PoolNext

LEMMA PoolInvariance == PoolSpec => []PoolInv
<1>1. PoolInit => PoolInv
  BY PoolInvInit
<1> QED
  BY <1>1, PoolKeeps, PTL DEF PoolSpec

---------------------------------------------------------------------------
(* ObjectPool: what follows                                                *)

LEMMA PoolTyped == PoolInv => PoolTypeOK
<1> SUFFICES ASSUME PoolInv PROVE PoolTypeOK
  OBVIOUS
<1>1. /\ guards \subseteq Made /\ kept \subseteq Made /\ freed \subseteq Made
  BY DEF PoolInv, Located, Partition
<1> QED
  BY <1>1 DEF PoolInv, Shapes, Steps, QueueOK, Clean, Made, PoolTypeOK

\* The types of the variables, for every pool and any number of threads: the queue
\* stays within its capacity and acquired_count, an unsigned word, never wraps.
THEOREM PoolTypeCorrect == PoolSpec => []PoolTypeOK
  BY PoolTyped, PoolInvariance, PTL

\* object_pool.rs:43-57, whatever threads do with the pool: every object the factory
\* made is in exactly one place, so that no two guards share one, and the counters are
\* exact but for the calls under way and the objects that were taken out for good.
THEOREM ObjectsInOnePlace == PoolSpec => []PoolIsAccounted
<1>1. PoolInv => PoolIsAccounted
  <2> SUFFICES ASSUME PoolInv PROVE PoolIsAccounted
    OBVIOUS
  <2>1. IsFiniteSet(Made) /\ Cardinality(Made) = made
    BY FinitePlaces DEF PoolInv
  <2>2. IsFiniteSet(DOMAIN queue) /\ Cardinality(DOMAIN queue) = Len(queue)
    <3>1. DOMAIN queue = 1..Len(queue) /\ Len(queue) \in Nat
      BY SeqTypes DEF PoolInv, QueueOK
    <3>2. /\ IsFiniteSet(1..Len(queue))
          /\ Cardinality(1..Len(queue)) = IF 1 > Len(queue) THEN 0 ELSE Len(queue) - 1 + 1
      BY <3>1, FS_Interval
    <3> QED
      BY <3>1, <3>2
  <2>3. Cardinality(Idle) = Len(queue)
    BY <2>2, ImageCounts, Images DEF PoolInv, QueueOK
  <2>4. Cardinality(InHand) = Cardinality(At(Hand))
    BY NumberIsNat, ImageCounts, Images DEF PoolInv, HandOK
  <2>5. made = Cardinality(Idle) + Cardinality(guards) + Cardinality(kept) + Cardinality(freed)
               + Cardinality(InHand)
    BY <2>1, PartsCount DEF PoolInv, Located
  <2>6. Made = Idle \union guards \union kept \union freed \union InHand
    BY DEF PoolInv, Located, Partition
  <2>7. ObjectsAccounted
    BY <2>3, <2>4, <2>5, <2>6 DEF ObjectsAccounted, PoolInv, Counted, Number, Made, Hand
  <2> QED
    BY <2>7 DEF PoolIsAccounted, PoolInv, Counted
<1> QED
  BY <1>1, PoolInvariance, PTL

LEMMA HandedClean == PoolInv => PooledIsClean
  BY DEF PoolInv, Clean, PooledIsClean, At

\* object_pool.rs:82, for a pool with a reset: nobody is handed an object that
\* carries the data of its last user.
THEOREM ReusedIsClean == PoolSpec => []PooledIsClean
  BY HandedClean, PoolInvariance, PTL

---------------------------------------------------------------------------
(* BufferPool: the size classes                                            *)

LEMMA ClassesAre == /\ Classes = {1, 2, 3, 4} /\ Small = 1 /\ ExtraLarge = 4
                    /\ Bytes[1] = 256 /\ Bytes[2] = 4096 /\ Bytes[3] = 65536 /\ Bytes[4] = 1048576
                    /\ \A c \in Classes : Bytes[c] \in Nat
<1>1. /\ Small = 1 /\ ExtraLarge = 4 /\ Classes = {1, 2, 3, 4}
      /\ Bytes[1] = 256 /\ Bytes[2] = 4096 /\ Bytes[3] = 65536 /\ Bytes[4] = 1048576
  BY DEF Classes, Small, ExtraLarge, Bytes
<1> QED
  BY <1>1

\* A class that is asked for a size serves it, but for the largest one.
LEMMA ForSizeServes ==
  ASSUME NEW size \in Nat
  PROVE  /\ ForSize(size) \in Classes
         /\ size <= Bytes[ForSize(size)] \/ size > Bytes[ExtraLarge]
<1> DEFINE Fits(c) == /\ size <= Bytes[c] \/ c = ExtraLarge
                      /\ \A d \in 1..(c - 1) : size > Bytes[d]
<1>1. \E c \in Classes : Fits(c)
  <2>1. CASE size <= 256
    <3>1. 1 \in Classes /\ Fits(1)
      BY <2>1, ClassesAre
    <3> QED
      BY <3>1
  <2>2. CASE size > 256 /\ size <= 4096
    <3>1. 1..(2 - 1) = {1}
      OBVIOUS
    <3>2. 2 \in Classes /\ Fits(2)
      BY <2>2, <3>1, ClassesAre
    <3> QED
      BY <3>2
  <2>3. CASE size > 4096 /\ size <= 65536
    <3>1. 1..(3 - 1) = {1, 2}
      OBVIOUS
    <3>2. 3 \in Classes /\ Fits(3)
      BY <2>3, <3>1, ClassesAre
    <3> QED
      BY <3>2
  <2>4. CASE size > 65536
    <3>1. 1..(4 - 1) = {1, 2, 3}
      OBVIOUS
    <3>2. 4 \in Classes /\ Fits(4)
      BY <2>4, <3>1, ClassesAre
    <3> QED
      BY <3>2
  <2> QED
    BY <2>1, <2>2, <2>3, <2>4
<1>2. ForSize(size) = CHOOSE c \in Classes : Fits(c)
  BY DEF ForSize
<1> HIDE DEF Fits
<1>3. ForSize(size) \in Classes /\ Fits(ForSize(size))
  BY <1>1, <1>2
<1>4. size <= Bytes[ForSize(size)] \/ ForSize(size) = ExtraLarge
  BY <1>3 DEF Fits
<1>5. Bytes[ExtraLarge] \in Nat
  BY ClassesAre
<1> QED
  BY <1>3, <1>4, <1>5

LEMMA GrownIs ==
  ASSUME NEW cap \in Nat, NEW need \in Nat
  PROVE  Grown(cap, need) \in Nat /\ Grown(cap, need) >= cap
  BY DEF Grown

LEMMA QueueCaps == \A c \in Classes : QueueCap(c) \in Nat
<1>1. PoolSize \in Nat /\ PoolSize \div 4 \in Nat
  BY PoolSizeAssumption
<1> QED
  BY <1>1 DEF QueueCap

---------------------------------------------------------------------------
(* BufferPool: the invariant                                               *)

\* An idle buffer of a class with b bytes.
FitFor(cap, b) == cap <= 2 * b /\ (cap >= b \/ replaced)
Pools == /\ pools \in [Classes -> Seq(Nat)]
         /\ \A c \in Classes : /\ Len(pools[c]) <= QueueCap(c)
                               /\ \A i \in DOMAIN pools[c] : FitFor(pools[c][i], Bytes[c])

Buffer == [class : Classes, cap : Nat, len : Nat]

\* A buffer that is owned, or about to be, has what its class promises, and its class
\* is the one for the size asked for.
Serves(b, size) == /\ b.cap >= Bytes[b.class] \/ replaced
                   /\ size <= Bytes[b.class] \/ size > Bytes[ExtraLarge]
Served == \A s \in Slots : bpc[s] # "none" => Serves(held[s], asked[s])

BufferTypes == /\ allocated \in Nat /\ reused \in Nat
               /\ bpc \in [Slots -> {"none", "found", "missing", "held"}]
               /\ held \in [Slots -> Buffer] /\ asked \in [Slots -> Nat] /\ replaced \in BOOLEAN

BuffersInv == BufferTypes /\ Pools /\ Served

LEMMA BuffersInvInit == BuffersInit => BuffersInv
<1> SUFFICES ASSUME BuffersInit PROVE BuffersInv
  OBVIOUS
<1>a. PICK n : n = IF PreparedBufs < PoolSize THEN PreparedBufs ELSE PoolSize
  OBVIOUS
<1>1. /\ n \in Nat /\ n <= PoolSize
      /\ pools = [c \in Classes |-> IF c = ExtraLarge THEN <<>> ELSE [i \in 1..n |-> Bytes[c]]]
  <2>1. PreparedBufs \in Nat /\ PoolSize \in Nat
    BY PoolSizeAssumption, BufferBoundsAssumption
  <2>2. n \in Nat /\ n <= PoolSize
    BY <1>a, <2>1
  <2> QED
    BY <1>a, <2>2 DEF BuffersInit
<1>2. BufferTypes
  <2>1. NoBuffer \in Buffer
    BY ClassesAre DEF NoBuffer, Buffer
  <2> QED
    BY <1>1, <2>1 DEF BuffersInit, BufferTypes
<1>3. Pools
  <2>a. DOMAIN pools = Classes /\ pools = [c \in Classes |-> pools[c]]
    BY <1>1
  <2> SUFFICES ASSUME NEW c \in Classes
               PROVE  /\ pools[c] \in Seq(Nat) /\ Len(pools[c]) <= QueueCap(c)
                      /\ \A i \in DOMAIN pools[c] : FitFor(pools[c][i], Bytes[c])
    BY <2>a DEF Pools
  <2>1. CASE c = ExtraLarge
    <3>1. pools[c] = <<>>
      BY <1>1, <2>1
    <3>2. QueueCap(c) \in Nat
      BY QueueCaps
    <3> QED
      BY <3>1, <3>2
  <2>2. CASE c # ExtraLarge
    <3>1. pools[c] = [i \in 1..n |-> Bytes[c]] /\ QueueCap(c) = PoolSize
      BY <1>1, <2>2 DEF QueueCap
    <3>2. PICK b \in Nat : b = Bytes[c]
      BY ClassesAre
    <3>3. pools[c] \in Seq(Nat) /\ Len(pools[c]) = n /\ \A i \in DOMAIN pools[c] : pools[c][i] = b
      <4>1. PICK q : q = [i \in 1..n |-> b]
        OBVIOUS
      <4>2. q \in Seq(Nat) /\ Len(q) = n /\ \A i \in DOMAIN q : q[i] = b
        BY <1>1, <4>1
      <4> QED
        BY <3>1, <3>2, <4>1, <4>2
    <3>4. FitFor(b, Bytes[c])
      BY <3>2 DEF FitFor
    <3> QED
      BY <1>1, <3>1, <3>3, <3>4
  <2> QED
    BY <2>1, <2>2
<1>4. Served
  BY DEF BuffersInit, Served
<1> QED
  BY <1>2, <1>3, <1>4 DEF BuffersInv

\* What a step does to one class leaves the others as they are.
LEMMA TailFits ==
  ASSUME BuffersInv, NEW c \in Classes, pools[c] # <<>>, replaced' = replaced,
         pools' = [pools EXCEPT ![c] = Tail(@)]
  PROVE  Pools' /\ Head(pools[c]) \in Nat /\ FitFor(Head(pools[c]), Bytes[c])
<1>1. /\ pools[c] \in Seq(Nat) /\ Len(pools[c]) <= QueueCap(c) /\ QueueCap(c) \in Nat
      /\ \A i \in DOMAIN pools[c] : FitFor(pools[c][i], Bytes[c])
  BY QueueCaps DEF BuffersInv, Pools
<1>2. pools'[c] = Tail(pools[c]) /\ \A d \in Classes : d # c => pools'[d] = pools[d]
  BY DEF BuffersInv, Pools
<1>3. PICK q \in Seq(Nat) : q = pools[c] /\ q # <<>>
  BY <1>1
<1>4. /\ Tail(q) \in Seq(Nat) /\ Len(q) \in Nat /\ Len(Tail(q)) = Len(q) - 1 /\ 1 \in DOMAIN q
      /\ Head(q) = q[1] /\ Head(q) \in Nat
      /\ \A i \in DOMAIN Tail(q) : i + 1 \in DOMAIN q /\ Tail(q)[i] = q[i + 1]
  BY <1>3
<1>5. \A i \in DOMAIN Tail(q) : FitFor(Tail(q)[i], Bytes[c])
  BY <1>1, <1>3, <1>4
<1>6. Len(Tail(q)) <= QueueCap(c)
  BY <1>1, <1>3, <1>4
<1> QED
  BY <1>1, <1>2, <1>3, <1>4, <1>5, <1>6 DEF BuffersInv, Pools, FitFor

LEMMA AppendFits ==
  ASSUME BuffersInv, NEW c \in Classes, NEW cap \in Nat, FitFor(cap, Bytes[c]),
         Len(pools[c]) # QueueCap(c), replaced' = replaced,
         pools' = [pools EXCEPT ![c] = Append(@, cap)]
  PROVE  Pools'
<1>1. /\ pools[c] \in Seq(Nat) /\ Len(pools[c]) <= QueueCap(c) /\ QueueCap(c) \in Nat
      /\ \A i \in DOMAIN pools[c] : FitFor(pools[c][i], Bytes[c])
  BY QueueCaps DEF BuffersInv, Pools
<1>2. pools'[c] = Append(pools[c], cap) /\ \A d \in Classes : d # c => pools'[d] = pools[d]
  BY DEF BuffersInv, Pools
<1>3. PICK q \in Seq(Nat) : q = pools[c]
  BY <1>1
<1>4. /\ Append(q, cap) \in Seq(Nat) /\ Len(q) \in Nat /\ Len(Append(q, cap)) = Len(q) + 1
      /\ \A i \in DOMAIN Append(q, cap) : Append(q, cap)[i] = cap \/ (i \in DOMAIN q /\ Append(q, cap)[i] = q[i])
  BY <1>3
<1>5. \A i \in DOMAIN Append(q, cap) : FitFor(Append(q, cap)[i], Bytes[c])
  BY <1>1, <1>3, <1>4
<1>6. Len(Append(q, cap)) <= QueueCap(c)
  BY <1>1, <1>3, <1>4
<1> QED
  BY <1>1, <1>2, <1>3, <1>4, <1>5, <1>6 DEF BuffersInv, Pools, FitFor

\* Nor does a step of one slot touch the others.
LEMMA OtherSlots ==
  ASSUME BuffersInv, NEW s \in Slots, NEW p \in {"none", "found", "missing", "held"}, NEW b \in Buffer,
         NEW n \in Nat, NEW r \in BOOLEAN, bpc' = [bpc EXCEPT ![s] = p], held' = [held EXCEPT ![s] = b],
         asked' = [asked EXCEPT ![s] = n], replaced' = r, replaced => r,
         p # "none" => Serves(b, n)', allocated' \in Nat, reused' \in Nat
  PROVE  BufferTypes' /\ Served'
<1>1. BufferTypes /\ BufferTypes'
  BY DEF BuffersInv, BufferTypes
<1>2. /\ bpc'[s] = p /\ held'[s] = b /\ asked'[s] = n
      /\ \A t \in Slots : t # s => bpc'[t] = bpc[t] /\ held'[t] = held[t] /\ asked'[t] = asked[t]
  BY <1>1 DEF BufferTypes
<1>3. Served'
  <2> SUFFICES ASSUME NEW t \in Slots, bpc'[t] # "none" PROVE Serves(held[t], asked[t])'
    BY DEF Served
  <2>1. CASE t = s
    BY <1>2, <2>1
  <2>2. CASE t # s
    <3>1. Serves(held[t], asked[t])
      BY <1>2, <2>2 DEF BuffersInv, Served
    <3> QED
      BY <1>2, <2>2, <3>1 DEF Serves
  <2> QED
    BY <2>1, <2>2
<1> QED
  BY <1>1, <1>3

\* An owner that puts a smaller Vec into its buffer is excused from then on.
LEMMA PoolsExcused == ASSUME BuffersInv, pools' = pools, replaced => replaced' PROVE Pools'
  BY DEF BuffersInv, Pools, FitFor

---------------------------------------------------------------------------
(* BufferPool: its steps                                                   *)

LEMMA AcquireKeeps ==
  ASSUME BuffersInv, NEW s \in Slots, NEW size \in Requests, BufferFound(s, size) \/ BufferMissing(s, size)
  PROVE  BuffersInv'
<1>1. PICK c : c = ForSize(size)
  OBVIOUS
<1>2. /\ size \in Nat /\ c \in Classes /\ Bytes[c] \in Nat /\ replaced \in BOOLEAN
      /\ size <= Bytes[c] \/ size > Bytes[ExtraLarge]
  BY <1>1, ForSizeServes, ClassesAre, BufferBoundsAssumption DEF BuffersInv, BufferTypes
<1>3. allocated' = allocated /\ reused' = reused /\ replaced' = replaced /\ asked' = [asked EXCEPT ![s] = size]
  BY DEF BufferFound, BufferMissing
<1>4. allocated' \in Nat /\ reused' \in Nat
  BY <1>3 DEF BuffersInv, BufferTypes
<1>5. CASE BufferFound(s, size)
  <2>1. /\ pools[c] # <<>> /\ bpc' = [bpc EXCEPT ![s] = "found"] /\ pools' = [pools EXCEPT ![c] = Tail(@)]
        /\ held' = [held EXCEPT ![s] = [class |-> c, cap |-> Head(pools[c]), len |-> 0]]
    BY <1>1, <1>5 DEF BufferFound
  <2>2. Pools' /\ Head(pools[c]) \in Nat /\ FitFor(Head(pools[c]), Bytes[c])
    BY <1>2, <1>3, <2>1, TailFits
  <2>3. PICK b : b = [class |-> c, cap |-> Head(pools[c]), len |-> 0]
    OBVIOUS
  <2>4. b \in Buffer /\ b.class = c /\ (b.cap >= Bytes[c] \/ replaced)
    BY <1>2, <2>2, <2>3 DEF Buffer, FitFor
  <2>5. Serves(b, size)'
    BY <1>2, <1>3, <2>4 DEF Serves
  <2>6. held' = [held EXCEPT ![s] = b]
    BY <2>1, <2>3
  <2>7. BufferTypes' /\ Served'
    BY <1>2, <1>3, <1>4, <2>1, <2>4, <2>5, <2>6, OtherSlots
  <2> QED
    BY <2>2, <2>7 DEF BuffersInv
<1>6. CASE BufferMissing(s, size)
  <2>1. /\ bpc' = [bpc EXCEPT ![s] = "missing"] /\ pools' = pools
        /\ held' = [held EXCEPT ![s] = [class |-> c, cap |-> Bytes[c], len |-> 0]]
    BY <1>1, <1>6 DEF BufferMissing
  <2>2. PICK b : b = [class |-> c, cap |-> Bytes[c], len |-> 0]
    OBVIOUS
  <2>3. b \in Buffer /\ b.class = c /\ b.cap >= Bytes[c]
    BY <1>2, <2>2 DEF Buffer
  <2>4. Serves(b, size)'
    BY <1>2, <1>3, <2>3 DEF Serves
  <2>5. held' = [held EXCEPT ![s] = b]
    BY <2>1, <2>2
  <2>6. BufferTypes' /\ Served'
    BY <1>2, <1>3, <1>4, <2>1, <2>3, <2>4, <2>5, OtherSlots
  <2> QED
    BY <1>3, <2>1, <2>6, PoolsExcused DEF BuffersInv
<1> QED
  BY <1>5, <1>6

LEMMA CountKeeps ==
  ASSUME BuffersInv, NEW s \in Slots, CountReused(s) \/ CountAllocated(s)
  PROVE  BuffersInv'
<1>1. /\ bpc[s] # "none" /\ bpc' = [bpc EXCEPT ![s] = "held"]
      /\ UNCHANGED <<pools, held, asked, replaced>>
      /\ (allocated' = allocated \/ allocated' = allocated + 1) /\ (reused' = reused \/ reused' = reused + 1)
  BY DEF CountReused, CountAllocated
<1>2. allocated' \in Nat /\ reused' \in Nat
  BY <1>1 DEF BuffersInv, BufferTypes
<1>3. BufferTypes'
  BY <1>1, <1>2 DEF BuffersInv, BufferTypes
<1>4. \A t \in Slots : bpc'[t] # "none" => bpc[t] # "none"
  BY <1>1 DEF BuffersInv, BufferTypes
<1>5. Served'
  BY <1>1, <1>4 DEF BuffersInv, Served, Serves
<1> QED
  BY <1>1, <1>3, <1>5, PoolsExcused DEF BuffersInv

LEMMA OwnBufferKeeps ==
  ASSUME BuffersInv, NEW s \in Slots, (\E n \in Writes : WriteBytes(s, n)) \/ TakeVec(s)
  PROVE  BuffersInv'
<1>1. /\ bpc[s] = "held" /\ UNCHANGED <<pools, allocated, reused, bpc, asked>>
  BY DEF WriteBytes, TakeVec
<1>2. /\ held[s].class \in Classes /\ held[s].cap \in Nat /\ held[s].len \in Nat
      /\ asked[s] \in Nat /\ Serves(held[s], asked[s]) /\ held \in [Slots -> Buffer]
      /\ bpc = [bpc EXCEPT ![s] = "held"] /\ asked = [asked EXCEPT ![s] = asked[s]]
      /\ allocated \in Nat /\ reused \in Nat /\ replaced \in BOOLEAN
  BY <1>1 DEF BuffersInv, BufferTypes, Served, Buffer
<1> DEFINE Changed(b) == /\ held' = [held EXCEPT ![s] = b] /\ b.class = held[s].class
                         /\ (b.cap >= held[s].cap /\ replaced' = replaced) \/ replaced' = TRUE
<1>3. PICK b \in Buffer : Changed(b)
  <2>1. CASE TakeVec(s)
    <3>1. PICK b : b = [class |-> held[s].class, cap |-> 0, len |-> 0]
      OBVIOUS
    <3>2. b \in Buffer /\ held' = [held EXCEPT ![s] = b] /\ replaced' = TRUE
      BY <1>2, <2>1, <3>1 DEF TakeVec, Buffer
    <3> QED
      BY <3>1, <3>2
  <2>2. ASSUME NEW n \in Writes, WriteBytes(s, n) PROVE \E b \in Buffer : Changed(b)
    <3>1. PICK g : g = Grown(held[s].cap, held[s].len + n)
      OBVIOUS
    <3>2. n \in Nat /\ g \in Nat /\ g >= held[s].cap /\ held[s].len + n \in Nat
      BY <1>2, <3>1, GrownIs, BufferBoundsAssumption
    <3>3. PICK b : b = [class |-> held[s].class, cap |-> g, len |-> held[s].len + n]
      OBVIOUS
    <3>4. b \in Buffer /\ b.class = held[s].class /\ b.cap >= held[s].cap
      BY <1>2, <3>2, <3>3 DEF Buffer
    <3>5. /\ replaced' = replaced
          /\ held' = [held EXCEPT ![s].len = @ + n, ![s].cap = Grown(@, held[s].len + n)]
      BY <2>2 DEF WriteBytes
    <3>6. held' = [held EXCEPT ![s] = b]
      <4>1. /\ DOMAIN held = Slots /\ DOMAIN held' = Slots /\ held' = [t \in Slots |-> held'[t]]
            /\ \A t \in Slots : t # s => held'[t] = held[t]
        BY <1>2, <3>5
      <4>2. held[s] \in Buffer
        BY <1>2
      <4>3. held'[s] = [[held[s] EXCEPT !.len = @ + n] EXCEPT !.cap = g]
        BY <1>2, <3>1, <3>5, <4>2 DEF Buffer
      <4>4. held'[s] = b
        BY <3>3, <4>2, <4>3 DEF Buffer
      <4> QED
        BY <4>1, <4>4
    <3> QED
      BY <3>4, <3>5, <3>6
  <2> QED
    BY <2>1, <2>2
<1>4. (replaced => replaced') /\ replaced' \in BOOLEAN
  BY <1>2, <1>3
<1>5. Serves(b, asked[s])'
  <2>1. b.cap \in Nat /\ Bytes[held[s].class] \in Nat
    BY <1>2, <1>3, ClassesAre DEF Buffer
  <2>2. b.cap >= Bytes[b.class] \/ replaced'
    BY <1>2, <1>3, <2>1 DEF Serves
  <2> QED
    BY <1>1, <1>2, <1>3, <2>2 DEF Serves
<1>6. BufferTypes' /\ Served'
  BY <1>1, <1>2, <1>3, <1>4, <1>5, OtherSlots
<1> QED
  BY <1>1, <1>4, <1>6, PoolsExcused DEF BuffersInv

LEMMA GivenUpKeeps ==
  ASSUME BuffersInv, NEW s \in Slots, DropBuffer(s) \/ TakeBuffer(s)
  PROVE  BuffersInv'
<1>1. /\ bpc[s] = "held" /\ bpc' = [bpc EXCEPT ![s] = "none"] /\ held' = [held EXCEPT ![s] = NoBuffer]
      /\ asked' = [asked EXCEPT ![s] = 0] /\ UNCHANGED <<allocated, reused, replaced>>
  BY DEF DropBuffer, TakeBuffer, Gone
<1>2. /\ held[s] \in Buffer /\ Serves(held[s], asked[s]) /\ NoBuffer \in Buffer
      /\ allocated \in Nat /\ reused \in Nat /\ replaced \in BOOLEAN
  BY <1>1, ClassesAre DEF BuffersInv, BufferTypes, Served, Buffer, NoBuffer
<1>3. PICK c, cap : c = held[s].class /\ cap = held[s].cap
  OBVIOUS
<1>4. c \in Classes /\ cap \in Nat /\ Bytes[c] \in Nat /\ (cap >= Bytes[c] \/ replaced)
  BY <1>2, <1>3, ClassesAre DEF Buffer, Serves
<1>5. \/ pools' = pools
      \/ /\ ~(cap > 2 * Bytes[c]) /\ Len(pools[c]) # QueueCap(c)
         /\ pools' = [pools EXCEPT ![c] = Append(@, cap)]
  BY <1>3 DEF DropBuffer, TakeBuffer, Returned
<1>6. Pools'
  <2>1. CASE pools' = pools
    BY <1>1, <1>2, <2>1, PoolsExcused
  <2>2. CASE pools' # pools
    <3>1. FitFor(cap, Bytes[c])
      BY <1>4, <1>5, <2>2 DEF FitFor
    <3> QED
      BY <1>1, <1>2, <1>4, <1>5, <2>2, <3>1, AppendFits
  <2> QED
    BY <2>1, <2>2
<1>7. BufferTypes' /\ Served'
  BY <1>1, <1>2, <1>6, OtherSlots
<1> QED
  BY <1>6, <1>7 DEF BuffersInv

LEMMA BuffersKeep == BuffersInv /\ [BuffersNext]_bufferVars => BuffersInv'
<1> SUFFICES ASSUME BuffersInv, [BuffersNext]_bufferVars PROVE BuffersInv'
  OBVIOUS
<1>1. ASSUME NEW s \in Slots, NEW size \in Requests, BufferFound(s, size) \/ BufferMissing(s, size)
      PROVE  BuffersInv'
  BY <1>1, AcquireKeeps
<1>2. ASSUME NEW s \in Slots, CountReused(s) \/ CountAllocated(s) PROVE BuffersInv'
  BY <1>2, CountKeeps
<1>3. ASSUME NEW s \in Slots, (\E n \in Writes : WriteBytes(s, n)) \/ TakeVec(s) PROVE BuffersInv'
  BY <1>3, OwnBufferKeeps
<1>4. ASSUME NEW s \in Slots, DropBuffer(s) \/ TakeBuffer(s) PROVE BuffersInv'
  BY <1>4, GivenUpKeeps
<1>5. CASE UNCHANGED bufferVars
  BY <1>5 DEF bufferVars, BuffersInv, BufferTypes, Pools, FitFor, Served, Serves
<1> QED
  BY <1>1, <1>2, <1>3, <1>4, <1>5 DEF BuffersNext

LEMMA BuffersInvariance == BuffersSpec => []BuffersInv
<1>1. BuffersInit => BuffersInv
  BY BuffersInvInit
<1> QED
  BY <1>1, BuffersKeep, PTL DEF BuffersSpec

LEMMA BuffersTyped == BuffersInv => BuffersTypeOK
<1> SUFFICES ASSUME BuffersInv PROVE BuffersTypeOK
  OBVIOUS
<1> QED
  BY DEF BuffersInv, BufferTypes, Pools, Buffer, BuffersTypeOK

\* The types of the buffer pool's variables, for every pool size and any requests and
\* writes: no queue beyond its capacity.
THEOREM BuffersTypeCorrect == BuffersSpec => []BuffersTypeOK
  BY BuffersTyped, BuffersInvariance, PTL

LEMMA IdleBounded == BuffersInv => IdleCapacityBounded
  BY DEF BuffersInv, Pools, FitFor, IdleCapacityBounded

\* buffer_pool.rs:168, however buffers grow and whoever returns them: what lies idle
\* in a class is at most twice its size, and no shorter than it unless replaced.
THEOREM IdleStaysBounded == BuffersSpec => []IdleCapacityBounded
  BY IdleBounded, BuffersInvariance, PTL

LEMMA ServedFull == BuffersInv => ServedInFull
<1> SUFFICES ASSUME BuffersInv, NEW s \in Slots, bpc[s] # "none", ~replaced,
                    ~(asked[s] > Bytes[ExtraLarge])
             PROVE  held[s].cap >= asked[s]
  BY DEF ServedInFull
<1>1. held[s].cap \in Nat /\ Bytes[held[s].class] \in Nat /\ asked[s] \in Nat
  BY ClassesAre DEF BuffersInv, BufferTypes, Buffer
<1>2. held[s].cap >= Bytes[held[s].class] /\ asked[s] <= Bytes[held[s].class]
  BY DEF BuffersInv, Served, Serves
<1> QED
  BY <1>1, <1>2

\* buffer_pool.rs:85: a buffer has the room that was asked for, new or reused, unless
\* the size was beyond the largest class or some owner replaced its Vec.
THEOREM RequestsServed == BuffersSpec => []ServedInFull
  BY ServedFull, BuffersInvariance, PTL

---------------------------------------------------------------------------
(* SharedData: counting references                                         *)

\* What the counts of references say: nobody points to the cell, and nobody else does.
Unreferenced(c) == \A g \in DataHandles : cell[g] # c
Alone(h) == \A g \in DataHandles : cell[g] = cell[h] => g = h

SharedTypes == /\ cell \in [DataHandles -> Cells \union {0}] /\ value \in [Cells -> Int]
               /\ own \in [DataHandles -> Int] /\ unique \in [DataHandles -> BOOLEAN]

\* A remembered answer belongs to a handle that exists, and DataIsOwn in these terms.
SharedInv == /\ SharedTypes
             /\ \A h \in DataHandles : unique[h] => Exists(h) /\ Alone(h)
             /\ \A h \in DataHandles : Exists(h) => value[cell[h]] = own[h]

LEMMA CellsAre == Cardinality(DataHandles) \in Nat /\ 0 \notin Cells /\ Cells \subseteq Nat
<1>1. Cardinality(DataHandles) \in Nat
  BY DataHandlesAssumption, FS_CardinalityType
<1> QED
  BY <1>1 DEF Cells

LEMMA NoReference == \A c : RefCount(c) = 0 <=> Unreferenced(c)
<1> TAKE c
<1> DEFINE R == {h \in DataHandles : cell[h] = c}
<1>1. IsFiniteSet(R)
  <2>1. R \in SUBSET DataHandles
    OBVIOUS
  <2> QED
    BY <2>1, DataHandlesAssumption, FS_Subset
<1>2. Cardinality(R) = 0 <=> R = {}
  BY <1>1, FS_EmptySet
<1>3. R = {} <=> Unreferenced(c)
  BY DEF Unreferenced
<1> QED
  BY <1>2, <1>3 DEF RefCount

LEMMA OneReference == \A h \in DataHandles : RefCount(cell[h]) = 1 <=> Alone(h)
<1> TAKE h \in DataHandles
<1> DEFINE R == {g \in DataHandles : cell[g] = cell[h]}
<1>1. IsFiniteSet(R) /\ h \in R
  <2>1. R \in SUBSET DataHandles
    OBVIOUS
  <2> QED
    BY <2>1, DataHandlesAssumption, FS_Subset
<1>2. Cardinality(R) = 1 <=> \E x : R = {x}
  BY <1>1, FS_Singleton
<1>3. (\E x : R = {x}) <=> R = {h}
  BY <1>1
<1>4. R = {h} <=> Alone(h)
  BY <1>1 DEF Alone
<1> QED
  BY <1>2, <1>3, <1>4 DEF RefCount

\* There are as many cells as handles, so one is free as long as a handle points
\* nowhere or to a cell that another one points to.
LEMMA SomeCellIsFree ==
  ASSUME SharedTypes, NEW h \in DataHandles, ~Exists(h) \/ ~Alone(h)
  PROVE  FreeCell \in Cells /\ Unreferenced(FreeCell)
<1> DEFINE Used == {c \in Cells : ~Unreferenced(c)}
           Others == DataHandles \ {h}
           n == Cardinality(DataHandles)
<1>1. \A c \in Used : \E g \in Others : cell[g] = c
  <2> SUFFICES ASSUME NEW c \in Used PROVE \E g \in Others : cell[g] = c
    OBVIOUS
  <2>1. PICK g \in DataHandles : cell[g] = c
    BY DEF Unreferenced
  <2>2. CASE g # h
    BY <2>1, <2>2
  <2>3. CASE g = h
    <3>1. Exists(h)
      BY <2>1, <2>3, CellsAre DEF Exists
    <3>2. \E f \in DataHandles : cell[f] = cell[h] /\ f # h
      BY <3>1 DEF Alone
    <3> QED
      BY <2>1, <2>3, <3>2
  <2> QED
    BY <2>2, <2>3
<1>2. IsFiniteSet(Others) /\ Cardinality(Others) = n - 1 /\ n \in Nat /\ IsFiniteSet(DataHandles)
  <2>1. IsFiniteSet(DataHandles) /\ n \in Nat
    BY DataHandlesAssumption, CellsAre
  <2>2. IsFiniteSet(Others) /\ Cardinality(Others) = IF h \in DataHandles THEN n - 1 ELSE n
    BY <2>1, FS_RemoveElement
  <2> HIDE DEF Others, n
  <2> QED
    BY <2>1, <2>2
<1>3. IsFiniteSet(Cells) /\ Cardinality(Cells) = n
  <2>1. IsFiniteSet(1..n) /\ Cardinality(1..n) = IF 1 > n THEN 0 ELSE n - 1 + 1
    BY <1>2, FS_Interval
  <2> HIDE DEF n
  <2>2. Cardinality(1..n) = n
    BY <1>2, <2>1
  <2> QED
    BY <2>1, <2>2 DEF n, Cells
<1>4. \E c \in Cells : Unreferenced(c)
  <2> SUFFICES ASSUME \A c \in Cells : ~Unreferenced(c) PROVE FALSE
    OBVIOUS
  <2> DEFINE owner == [c \in Cells |-> CHOOSE g \in Others : cell[g] = c]
  <2>1. \A c \in Cells : owner[c] \in Others /\ cell[owner[c]] = c
    BY <1>1
  <2>2. DOMAIN owner = Cells /\ owner \in [Cells -> Others]
    BY <2>1
  <2> HIDE DEF owner, Others, n
  <2>3. Cardinality(Others) < Cardinality(Cells)
    BY <1>2, <1>3
  <2>4. \E c, d \in Cells : c # d /\ owner[c] = owner[d]
    BY <1>2, <1>3, <2>2, <2>3, FS_PigeonHole
  <2> QED
    BY <2>1, <2>4
<1>5. \E c \in Cells : RefCount(c) = 0
  BY <1>4, NoReference
<1>6. FreeCell \in Cells /\ RefCount(FreeCell) = 0
  BY <1>5 DEF FreeCell
<1> QED
  BY <1>6, NoReference

---------------------------------------------------------------------------
(* SharedData: the invariant                                               *)

LEMMA SharedInvInit == ValuesAssumption /\ SharedInit => SharedInv
<1> SUFFICES ASSUME SharedInit PROVE SharedInv
  OBVIOUS
<1>1. SharedTypes
  BY DEF SharedInit, SharedTypes
<1>2. \A h \in DataHandles : ~unique[h] /\ ~Exists(h)
  BY DEF SharedInit, Exists
<1> QED
  BY <1>1, <1>2 DEF SharedInv

\* A handle that points to a cell of its own and is told what is in it disturbs no other.
LEMMA OwnCell ==
  ASSUME SharedInv, NEW h \in DataHandles, NEW c \in Cells, NEW v \in Int,
         \A g \in DataHandles : g # h => cell[g] # c,
         cell' = [cell EXCEPT ![h] = c], value' = [value EXCEPT ![c] = v],
         own' = [own EXCEPT ![h] = v], unique' = unique,
         ~Exists(h) \/ Alone(h) \/ ~unique[h]
  PROVE  SharedInv'
<1>1. SharedTypes /\ SharedTypes'
  BY DEF SharedInv, SharedTypes
<1>2. /\ cell'[h] = c /\ value'[c] = v /\ own'[h] = v /\ c # 0
      /\ \A g \in DataHandles : g # h => cell'[g] = cell[g] /\ cell[g] # c /\ own'[g] = own[g]
      /\ \A d \in Cells : d # c => value'[d] = value[d]
  BY <1>1, CellsAre DEF SharedTypes
<1>3. ASSUME NEW g \in DataHandles, unique'[g] PROVE (Exists(g) /\ Alone(g))'
  <2>1. unique[g]
    BY <1>3
  <2>2. Exists(g) /\ Alone(g)
    BY <2>1 DEF SharedInv
  <2>3. CASE g = h
    BY <1>2, <2>3 DEF Exists, Alone
  <2>4. CASE g # h
    BY <1>2, <2>2, <2>4 DEF Exists, Alone
  <2> QED
    BY <2>3, <2>4
<1>4. ASSUME NEW g \in DataHandles, Exists(g)' PROVE (value[cell[g]] = own[g])'
  <2>1. CASE g = h
    BY <1>2, <2>1
  <2>2. CASE g # h
    <3>1. Exists(g) /\ cell[g] \in Cells
      BY <1>1, <1>2, <1>4, <2>2 DEF Exists, SharedTypes
    <3> QED
      BY <1>2, <2>2, <3>1 DEF SharedInv
  <2> QED
    BY <2>1, <2>2
<1> QED
  BY <1>1, <1>3, <1>4 DEF SharedInv

\* A handle that goes away disturbs none.
LEMMA GoneHandle ==
  ASSUME SharedInv, NEW h \in DataHandles,
         cell' = [cell EXCEPT ![h] = 0], own' = [own EXCEPT ![h] = 0],
         unique' = [unique EXCEPT ![h] = FALSE], value' = value
  PROVE  SharedInv'
<1>1. SharedTypes /\ SharedTypes'
  BY DEF SharedInv, SharedTypes
<1>2. /\ cell'[h] = 0 /\ ~unique'[h]
      /\ \A g \in DataHandles : g # h => cell'[g] = cell[g] /\ own'[g] = own[g] /\ (unique'[g] <=> unique[g])
  BY <1>1 DEF SharedTypes
<1>3. \A g \in DataHandles : unique'[g] => (Exists(g) /\ Alone(g))'
  BY <1>2 DEF SharedInv, Exists, Alone
<1>4. \A g \in DataHandles : Exists(g)' => value'[cell'[g]] = own'[g]
  BY <1>2 DEF SharedInv, Exists
<1> QED
  BY <1>1, <1>3, <1>4 DEF SharedInv

\* A clone shares a cell that no one believes to have alone.
LEMMA CloneKeeps ==
  ASSUME SharedInv, NEW h \in DataHandles, NEW g \in DataHandles, Clone(h, g)
  PROVE  SharedInv'
<1>1. /\ Exists(h) /\ ~Exists(g) /\ h # g /\ cell' = [cell EXCEPT ![g] = cell[h]]
      /\ own' = [own EXCEPT ![g] = own[h]] /\ unique' = [unique EXCEPT ![h] = FALSE] /\ value' = value
  BY DEF Clone, Put, Exists
<1>2. SharedTypes /\ SharedTypes'
  BY <1>1 DEF SharedInv, SharedTypes
<1>3. /\ cell'[g] = cell[h] /\ own'[g] = own[h] /\ ~unique'[h] /\ cell'[h] = cell[h]
      /\ \A f \in DataHandles : f # g => cell'[f] = cell[f] /\ own'[f] = own[f]
      /\ \A f \in DataHandles : f # h => (unique'[f] <=> unique[f])
  BY <1>1, <1>2 DEF SharedTypes
<1>4. ~unique[g]
  BY <1>1 DEF SharedInv
<1>5. ASSUME NEW f \in DataHandles, unique'[f] PROVE (Exists(f) /\ Alone(f))'
  <2>1. f # h /\ f # g
    BY <1>1, <1>3, <1>4, <1>5
  <2>2. Exists(f) /\ Alone(f)
    BY <1>3, <1>5, <2>1 DEF SharedInv
  <2>3. cell[h] # cell[f]
    BY <2>1, <2>2 DEF Alone
  <2> QED
    BY <1>3, <2>1, <2>2, <2>3 DEF Exists, Alone
<1>6. \A f \in DataHandles : Exists(f)' => value'[cell'[f]] = own'[f]
  BY <1>1, <1>3 DEF SharedInv, Exists
<1> QED
  BY <1>2, <1>5, <1>6 DEF SharedInv

LEMMA SharedKeeps == SharedInv /\ [SharedNext]_sharedVars => SharedInv'
<1> SUFFICES ASSUME SharedInv, [SharedNext]_sharedVars PROVE SharedInv'
  OBVIOUS
<1>1. CASE UNCHANGED sharedVars
  BY <1>1 DEF sharedVars, SharedInv, SharedTypes, Exists, Alone
<1>2. CASE SharedNext
  <2>1. PICK h \in DataHandles :
          \/ New(h) \/ DropData(h) \/ IsUnique(h) \/ TryUnwrap(h)
          \/ \E g \in DataHandles : Clone(h, g)
          \/ \E v \in 0..Values : GetMut(h, v) \/ MakeMut(h, v)
    BY <1>2 DEF SharedNext
  <2>2. CASE New(h)
    <3>1. /\ ~Exists(h) /\ cell' = [cell EXCEPT ![h] = FreeCell]
          /\ value' = [value EXCEPT ![FreeCell] = 0] /\ own' = [own EXCEPT ![h] = 0] /\ unique' = unique
      BY <2>2 DEF New, Put
    <3>2. FreeCell \in Cells /\ Unreferenced(FreeCell)
      BY <3>1, SomeCellIsFree DEF SharedInv
    <3>3. PICK c : c = FreeCell
      OBVIOUS
    <3>4. c \in Cells /\ (\A g \in DataHandles : g # h => cell[g] # c) /\ 0 \in Int
      BY <3>2, <3>3 DEF Unreferenced
    <3>5. /\ cell' = [cell EXCEPT ![h] = c] /\ value' = [value EXCEPT ![c] = 0]
          /\ own' = [own EXCEPT ![h] = 0] /\ unique' = unique
      BY <3>1, <3>3
    <3>6. ~Exists(h) \/ Alone(h) \/ ~unique[h]
      BY <3>1
    <3> QED
      BY <3>4, <3>5, <3>6, OwnCell
  <2>3. CASE DropData(h) \/ TryUnwrap(h)
    BY <2>3, GoneHandle DEF DropData, TryUnwrap, Put
  <2>4. CASE IsUnique(h)
    <3>1. /\ Exists(h) /\ Alone(h) /\ unique' = [unique EXCEPT ![h] = TRUE]
          /\ cell' = cell /\ value' = value /\ own' = own
      BY <2>4, OneReference DEF IsUnique
    <3>2. unique \in [DataHandles -> BOOLEAN]
      BY DEF SharedInv, SharedTypes
    <3>3. \A g \in DataHandles : unique'[g] => g = h \/ unique[g]
      BY <3>1, <3>2
    <3>4. unique' \in [DataHandles -> BOOLEAN]
      BY <3>1, <3>2
    <3> QED
      BY <3>1, <3>3, <3>4 DEF SharedInv, SharedTypes, Exists, Alone
  <2>5. CASE \E g \in DataHandles : Clone(h, g)
    BY <2>5, CloneKeeps
  <2>6. ASSUME NEW v \in 0..Values, GetMut(h, v) PROVE SharedInv'
    <3>1. /\ Exists(h) /\ Alone(h) /\ value' = [value EXCEPT ![cell[h]] = v]
          /\ own' = [own EXCEPT ![h] = v] /\ unique' = unique /\ cell' = cell
      BY <2>6, OneReference DEF GetMut
    <3>2. cell[h] \in Cells /\ cell' = [cell EXCEPT ![h] = cell[h]] /\ v \in Int
      BY <3>1, ValuesAssumption DEF SharedInv, SharedTypes, Exists
    <3>3. PICK c : c = cell[h]
      OBVIOUS
    <3>4. \A g \in DataHandles : g # h => cell[g] # c
      BY <3>1, <3>3 DEF Alone
    <3> QED
      BY <3>1, <3>2, <3>3, <3>4, OwnCell
  <2>7. ASSUME NEW v \in 0..Values, MakeMut(h, v) PROVE SharedInv'
    <3>1. PICK c : /\ c = IF RefCount(cell[h]) = 1 THEN cell[h] ELSE FreeCell
                   /\ cell' = [cell EXCEPT ![h] = c] /\ value' = [value EXCEPT ![c] = v]
      BY <2>7 DEF MakeMut, Put
    <3>2. Exists(h) /\ own' = [own EXCEPT ![h] = v] /\ unique' = unique /\ v \in Int
      BY <2>7, ValuesAssumption DEF MakeMut
    <3>3. c \in Cells /\ \A g \in DataHandles : g # h => cell[g] # c
      <4>1. CASE Alone(h)
        <5>1. c = cell[h]
          BY <3>1, <4>1, OneReference
        <5> QED
          BY <3>2, <4>1, <5>1 DEF Alone, Exists, SharedInv, SharedTypes
      <4>2. CASE ~Alone(h)
        <5>1. c = FreeCell
          BY <3>1, <4>2, OneReference
        <5> QED
          BY <4>2, <5>1, SomeCellIsFree DEF SharedInv, Unreferenced
      <4> QED
        BY <4>1, <4>2
    <3>4. ~Exists(h) \/ Alone(h) \/ ~unique[h]
      BY DEF SharedInv
    <3>5. cell' = [cell EXCEPT ![h] = c] /\ value' = [value EXCEPT ![c] = v]
      BY <3>1
    <3> HIDE <3>1
    <3> QED
      BY <3>2, <3>3, <3>4, <3>5, OwnCell
  <2> QED
    BY <2>1, <2>2, <2>3, <2>4, <2>5, <2>6, <2>7
<1> QED
  BY <1>1, <1>2

LEMMA SharedInvariance == SharedSpec => []SharedInv
<1>1. SharedInit => SharedInv
  BY SharedInvInit, ValuesAssumption
<1> QED
  BY <1>1, SharedKeeps, PTL DEF SharedSpec

LEMMA OwnData == SharedInv => DataIsOwn
  BY OneReference DEF SharedInv, DataIsOwn

\* Copy on write, for any number of handles (shared_data.rs:82): nobody's data
\* changes under it, and an answer of is_unique may be acted on later.
THEOREM DataStaysOwn == SharedSpec => []DataIsOwn
  BY OwnData, SharedInvariance, PTL

---------------------------------------------------------------------------
(* CounterSets: sequences of fields                                        *)

LEMMA FieldsInSeq ==
  ASSUME NEW S, NEW q \in Seq(S), q # <<>>
  PROVE  /\ Head(q) \in S /\ Tail(q) \in Seq(S) /\ ToSet(q) \subseteq S
         /\ ToSet(q) = ToSet(Tail(q)) \union {Head(q)}
<1>1. /\ Len(q) \in Nat /\ Len(q) > 0 /\ Len(Tail(q)) = Len(q) - 1 /\ Head(q) = q[1]
      /\ DOMAIN q = 1..Len(q) /\ DOMAIN Tail(q) = 1..Len(q) - 1 /\ Tail(q) \in Seq(S)
      /\ (\A i \in 1..Len(q) - 1 : Tail(q)[i] = q[i + 1]) /\ \A i \in 1..Len(q) : q[i] \in S
  OBVIOUS
<1>2. \A x \in ToSet(q) : x \in ToSet(Tail(q)) \union {Head(q)}
  <2> SUFFICES ASSUME NEW i \in 1..Len(q), i # 1 PROVE q[i] \in ToSet(Tail(q))
    BY <1>1 DEF ToSet
  <2>1. i - 1 \in 1..Len(q) - 1 /\ q[i] = Tail(q)[i - 1]
    BY <1>1
  <2> QED
    BY <1>1, <2>1 DEF ToSet
<1>3. \A x \in ToSet(Tail(q)) \union {Head(q)} : x \in ToSet(q)
  <2>1. \A i \in 1..Len(q) - 1 : i + 1 \in 1..Len(q)
    BY <1>1
  <2>2. 1 \in 1..Len(q)
    BY <1>1
  <2> QED
    BY <1>1, <2>1, <2>2 DEF ToSet
<1> QED
  BY <1>1, <1>2, <1>3 DEF ToSet

LEMMA Tuples ==
  /\ ToSet(<<>>) = {}
  /\ \A a : Head(<<a>>) = a /\ Tail(<<a>>) = <<>> /\ ToSet(<<a>>) = {a}
  /\ \A a, b : Head(<<a, b>>) = a /\ Tail(<<a, b>>) = <<b>> /\ ToSet(<<a, b>>) = {a, b}
  /\ \A a, b, c : Head(<<a, b, c>>) = a /\ Tail(<<a, b, c>>) = <<b, c>> /\ ToSet(<<a, b, c>>) = {a, b, c}
<1>1. ToSet(<<>>) = {}
  BY DEF ToSet
<1>2. ASSUME NEW a PROVE Head(<<a>>) = a /\ Tail(<<a>>) = <<>> /\ ToSet(<<a>>) = {a}
  BY DEF ToSet
<1>3. ASSUME NEW a, NEW b PROVE Head(<<a, b>>) = a /\ Tail(<<a, b>>) = <<b>> /\ ToSet(<<a, b>>) = {a, b}
  BY DEF ToSet
<1>4. ASSUME NEW a, NEW b, NEW c
      PROVE  Head(<<a, b, c>>) = a /\ Tail(<<a, b, c>>) = <<b, c>> /\ ToSet(<<a, b, c>>) = {a, b, c}
  BY DEF ToSet
<1> QED
  BY <1>1, <1>2, <1>3, <1>4

---------------------------------------------------------------------------
(* CounterSets: what is counted of an item, and what is still to count     *)

SetNames == {"worker", "stage", "pipeline", "backpressure", "latency"}
Fields(s) == ToSet(FieldsOf(s))

LEMMA FieldSets ==
  /\ Fields("worker") = {"input", "output", "filtered", "dropped", "time"}
  /\ Fields("stage") = {"input", "output", "filtered", "dropped", "error"}
  /\ Fields("pipeline") = {"received", "processed", "filtered", "dropped", "errors"}
  /\ Fields("backpressure") = {"accepted", "dropped", "blocked", "sampled_out"}
  /\ Fields("latency") = {"count", "low", "high"}
<1>1. Fields("worker") = {"input", "output", "filtered", "dropped", "time"}
  BY DEF Fields, FieldsOf, WorkerFields, ToSet
<1>2. Fields("stage") = {"input", "output", "filtered", "dropped", "error"}
  BY DEF Fields, FieldsOf, StageFields, ToSet
<1>3. Fields("pipeline") = {"received", "processed", "filtered", "dropped", "errors"}
  BY DEF Fields, FieldsOf, PipelineFields, ToSet
<1>4. Fields("backpressure") = {"accepted", "dropped", "blocked", "sampled_out"}
  BY DEF Fields, FieldsOf, BackpressureFields, ToSet
<1>5. Fields("latency") = {"count", "low", "high"}
  BY DEF Fields, FieldsOf, LatencyFields, ToSet
<1> QED
  BY <1>1, <1>2, <1>3, <1>4, <1>5

LEMMA Orders ==
  \A s \in SetNames : /\ FieldsOf(s) \in Seq(Fields(s)) /\ FieldsOf(s) # <<>>
                      /\ ClearOrder(s) \in Seq(Fields(s)) /\ ToSet(ClearOrder(s)) = Fields(s)
<1>1. \A s \in SetNames : FieldsOf(s) \in Seq(Fields(s)) /\ FieldsOf(s) # <<>>
  BY FieldSets DEF SetNames, FieldsOf, WorkerFields, StageFields, PipelineFields,
                   BackpressureFields, LatencyFields
<1>2. <<"low", "high", "count">> \in Seq(Fields("latency"))
  BY FieldSets
<1>3. ToSet(<<"low", "high", "count">>) = Fields("latency")
  <2>1. ToSet(<<"low", "high", "count">>) = {"low", "high", "count"}
    BY DEF ToSet
  <2> QED
    BY <2>1, FieldSets
<1> QED
  BY <1>1, <1>2, <1>3 DEF ClearOrder, SetNames, Fields

\* What may be left to count of an item.
Rests(s) ==
  CASE s = "worker" -> {<<>>, <<"time">>} \union {<<f>> : f \in {"output", "dropped"}}
                       \union {<<f, "time">> : f \in {"output", "dropped", "filtered"}}
                       \union {<<"input", f, "time">> : f \in {"output", "dropped", "filtered"}}
    [] s = "latency" -> {<<>>, <<"count">>} \union {<<f, "count">> : f \in {"low", "high"}}
    [] OTHER -> {<<>>} \union {<<f>> : f \in Fields(s)}

\* A ledger: fields that together are the whole, and fields that are counted of an item
\* only after it.  Of an exact one every item is counted on both sides.
Ledgers(s) == CASE s = "worker" -> {"time", "filteredInput"}
                [] s = "latency" -> {"count"}
                [] OTHER -> {}
Exact(l) == l \in {"time", "count"}
WholeOf(l) == CASE l \in {"time", "filteredInput"} -> {"input"}
                [] l = "count" -> {"low", "high"}
PartsOf(l) == CASE l = "time" -> {"time"}
                [] l = "filteredInput" -> {"filtered"}
                [] l = "count" -> {"count"}

\* The item's whole is counted and its part is not.
Owes(l, q) == /\ \E f \in PartsOf(l) : f \in ToSet(q)
              /\ \A f \in WholeOf(l) : f \notin ToSet(q)

\* What the count of one field h does to a ledger, of which q was to count and r is left.
Pays(l, q, h, r) ==
  /\ h \in PartsOf(l) => Owes(l, q) /\ ~Owes(l, r)
  /\ h \in WholeOf(l) => ~Owes(l, q) /\ (Exact(l) => Owes(l, r))
  /\ h \notin PartsOf(l) /\ h \notin WholeOf(l) => (Owes(l, q) <=> Owes(l, r))

LEMMA ItemsAreRests ==
  ASSUME NEW s \in SetNames, NEW path \in ItemsOf(s)
  PROVE  path \in Rests(s) /\ path # <<>> /\ \A l \in Ledgers(s) : ~Owes(l, path)
<1>1. CASE s = "worker"
  BY <1>1, Tuples DEF ItemsOf, WorkerItems, Rests, Ledgers, Owes, PartsOf, WholeOf
<1>2. CASE s = "latency"
  BY <1>2, Tuples DEF ItemsOf, LatencyItems, Rests, Ledgers, Owes, PartsOf, WholeOf
<1>3. CASE s \notin {"worker", "latency"}
  <2>1. PICK f \in Fields(s) : path = <<f>>
    BY <1>3 DEF ItemsOf, AnyItems, Fields
  <2> QED
    BY <1>3, <2>1 DEF Rests, Ledgers
<1> QED
  BY <1>1, <1>2, <1>3

LEMMA RestStep ==
  ASSUME NEW s \in SetNames, NEW q \in Rests(s), q # <<>>
  PROVE  /\ Head(q) \in Fields(s) /\ Tail(q) \in Rests(s)
         /\ Head(q) \notin ToSet(Tail(q)) /\ ToSet(q) = ToSet(Tail(q)) \union {Head(q)}
         /\ \A l \in Ledgers(s) : Pays(l, q, Head(q), Tail(q))
<1> DEFINE Goal == /\ Head(q) \in Fields(s) /\ Tail(q) \in Rests(s)
                   /\ Head(q) \notin ToSet(Tail(q)) /\ ToSet(q) = ToSet(Tail(q)) \union {Head(q)}
                   /\ \A l \in Ledgers(s) : Pays(l, q, Head(q), Tail(q))
<1>1. CASE s = "worker"
  <2>1. CASE q = <<"time">>
    BY <1>1, <2>1, Tuples, FieldSets DEF Rests, Ledgers, Pays, Owes, PartsOf, WholeOf, Exact
  <2>2. ASSUME NEW f \in {"output", "dropped"}, q = <<f>> PROVE Goal
    BY <1>1, <2>2, Tuples, FieldSets DEF Rests, Ledgers, Pays, Owes, PartsOf, WholeOf, Exact
  <2>3. ASSUME NEW f \in {"output", "dropped", "filtered"}, q = <<f, "time">> PROVE Goal
    BY <1>1, <2>3, Tuples, FieldSets DEF Rests, Ledgers, Pays, Owes, PartsOf, WholeOf, Exact
  <2>4. ASSUME NEW f \in {"output", "dropped", "filtered"}, q = <<"input", f, "time">> PROVE Goal
    BY <1>1, <2>4, Tuples, FieldSets DEF Rests, Ledgers, Pays, Owes, PartsOf, WholeOf, Exact
  <2> QED
    BY <1>1, <2>1, <2>2, <2>3, <2>4 DEF Rests
<1>2. CASE s = "latency"
  <2>1. CASE q = <<"count">>
    BY <1>2, <2>1, Tuples, FieldSets DEF Rests, Ledgers, Pays, Owes, PartsOf, WholeOf, Exact
  <2>2. ASSUME NEW f \in {"low", "high"}, q = <<f, "count">> PROVE Goal
    BY <1>2, <2>2, Tuples, FieldSets DEF Rests, Ledgers, Pays, Owes, PartsOf, WholeOf, Exact
  <2> QED
    BY <1>2, <2>1, <2>2 DEF Rests
<1>3. CASE s \notin {"worker", "latency"}
  <2>1. PICK f \in Fields(s) : q = <<f>>
    BY <1>3 DEF Rests
  <2>2. Ledgers(s) = {} /\ <<>> \in Rests(s)
    BY <1>3 DEF Ledgers, Rests
  <2> QED
    BY <2>1, <2>2, Tuples
<1> QED
  BY <1>1, <1>2, <1>3

---------------------------------------------------------------------------
(* CounterSets: the invariant                                              *)

\* Both sides of a ledger, of fields v.
Whole(l, v) == IF l = "count" THEN v["low"] + v["high"] ELSE v["input"]
Part(l, v) == CASE l = "time" -> v["time"]
                [] l = "filteredInput" -> v["filtered"]
                [] l = "count" -> v["count"]

\* The tellers that have still to count for it, or have a field before them.
Debtors(l) == {t \in Tellers : Owes(l, todo[t])}
Expecting(f) == {t \in Tellers : f \in ToSet(todo[t])}

Agrees(l) == IF Exact(l) THEN Whole(l, tally) = Part(l, tally) + Cardinality(Debtors(l))
                         ELSE Whole(l, tally) >= Part(l, tally) + Cardinality(Debtors(l))

CounterTypes ==
  /\ set \in SetNames /\ tally \in [Fields(set) -> Nat] /\ snapshot \in [Fields(set) -> Nat]
  /\ todo \in [Tellers -> Rests(set)]
  /\ toRead \in Seq(Fields(set)) /\ toClear \in Seq(Fields(set))
  /\ items \in Nat /\ opened \in Nat /\ disturbed \in BOOLEAN /\ torn \in BOOLEAN
  /\ items >= opened + Cardinality(Counting)
  /\ dead \subseteq Tellers /\ (dead # {} => set = "worker")

\* The ledgers agree unless a reset overlapped an item; as long as one is under way
\* that overlaps none, the fields it has passed are zero.
Balances == ~torn =>
  IF toClear = <<>> THEN \A l \in Ledgers(set) : Agrees(l)
  ELSE Counting = {} /\ \A f \in Fields(set) : f \notin ToSet(toClear) => tally[f] = 0

\* The histogram's buckets as a snapshot has them, or will have them at least.
Seen(f) == IF f \in ToSet(toRead) THEN tally[f] ELSE snapshot[f]
LatencyRests == {<<"count", "low", "high">>, <<"low", "high">>, <<"high">>, <<>>}

\* A snapshot that no reset disturbs is behind the counters, by no more than the
\* items that were not finished when it was begun.
Behind ==
  /\ toClear = <<>>
  /\ \A f \in Fields(set) :
       /\ snapshot[f] <= tally[f]
       /\ f \notin ToSet(toRead) => tally[f] + Cardinality(Expecting(f)) <= snapshot[f] + items - opened
  /\ set = "latency" => /\ toRead \in LatencyRests
                        /\ snapshot["count"] <= Seen("low") + Seen("high")
SnapshotBehind == ~disturbed /\ ~torn => Behind

CountersInv == CounterTypes /\ Balances /\ SnapshotBehind

---------------------------------------------------------------------------
(* CounterSets: tellers that move                                          *)

LEMMA OneMember ==
  ASSUME NEW U, IsFiniteSet(U), NEW A, A \subseteq U, NEW B, B \subseteq U, NEW t \in U, A \ {t} = B \ {t}
  PROVE  Cardinality(B) = Cardinality(A) + (IF t \in B THEN 1 ELSE 0) - (IF t \in A THEN 1 ELSE 0)
<1> DEFINE C == A \ {t}
<1>1. IsFiniteSet(C) /\ Cardinality(C) \in Nat
  BY FS_Subset, FS_CardinalityType
<1>2. /\ IsFiniteSet(C \union {t})
      /\ Cardinality(C \union {t}) = IF t \in C THEN Cardinality(C) ELSE Cardinality(C) + 1
  BY <1>1, FS_AddElement
<1>3. /\ A = IF t \in A THEN C \union {t} ELSE C
      /\ B = IF t \in B THEN C \union {t} ELSE C
  OBVIOUS
<1>4. t \notin C
  OBVIOUS
<1> HIDE DEF C
<1>5. Cardinality(C \union {t}) = Cardinality(C) + 1
  BY <1>2, <1>4
<1>6. Cardinality(A) = Cardinality(C) + (IF t \in A THEN 1 ELSE 0)
  <2>1. CASE t \in A
    <3>1. A = C \union {t}
      BY <1>3, <2>1
    <3> QED
      BY <1>1, <1>5, <2>1, <3>1
  <2>2. CASE t \notin A
    <3>1. A = C
      BY <1>3, <2>2
    <3> QED
      BY <1>1, <2>2, <3>1
  <2> QED
    BY <2>1, <2>2
<1>7. Cardinality(B) = Cardinality(C) + (IF t \in B THEN 1 ELSE 0)
  <2>1. CASE t \in B
    <3>1. B = C \union {t}
      BY <1>3, <2>1
    <3> QED
      BY <1>1, <1>5, <2>1, <3>1
  <2>2. CASE t \notin B
    <3>1. B = C
      BY <1>3, <2>2
    <3> QED
      BY <1>1, <2>2, <3>1
  <2> QED
    BY <2>1, <2>2
<1> QED
  BY <1>1, <1>6, <1>7

LEMMA TellersFinite == \A S : S \subseteq Tellers => IsFiniteSet(S) /\ Cardinality(S) \in Nat
  BY TellersAssumption, FS_Subset, FS_CardinalityType

\* A teller's work changes from q to r.
Turns(t, q, r) == todo[t] = q /\ todo' = [todo EXCEPT ![t] = r]

LEMMA TellerMoves ==
  ASSUME CounterTypes, NEW t \in Tellers, NEW q, NEW r, Turns(t, q, r)
  PROVE  /\ \A l : Cardinality(Debtors(l))' = Cardinality(Debtors(l))
              + (IF Owes(l, r) THEN 1 ELSE 0) - (IF Owes(l, q) THEN 1 ELSE 0)
         /\ \A f : Cardinality(Expecting(f))' = Cardinality(Expecting(f))
              + (IF f \in ToSet(r) THEN 1 ELSE 0) - (IF f \in ToSet(q) THEN 1 ELSE 0)
         /\ Cardinality(Counting)' = Cardinality(Counting)
              + (IF r # <<>> THEN 1 ELSE 0) - (IF q # <<>> THEN 1 ELSE 0)
<1>1. todo'[t] = r /\ \A u \in Tellers \ {t} : todo'[u] = todo[u]
  BY DEF CounterTypes, Turns
<1>2. ASSUME NEW l
      PROVE  Cardinality(Debtors(l)') = Cardinality(Debtors(l))
               + (IF Owes(l, r) THEN 1 ELSE 0) - (IF Owes(l, q) THEN 1 ELSE 0)
  <2>1. Debtors(l)' = {u \in Tellers : Owes(l, todo'[u])}
    BY DEF Debtors, Owes
  <2>2. Debtors(l) \subseteq Tellers /\ Debtors(l)' \subseteq Tellers
    BY <2>1 DEF Debtors
  <2>3. Debtors(l) \ {t} = Debtors(l)' \ {t} /\ (t \in Debtors(l) <=> Owes(l, q)) /\ (t \in Debtors(l)' <=> Owes(l, r))
    BY <1>1, <2>1 DEF Debtors, Turns
  <2> QED
    BY <2>2, <2>3, TellersAssumption, OneMember
<1>3. ASSUME NEW f
      PROVE  Cardinality(Expecting(f)') = Cardinality(Expecting(f))
               + (IF f \in ToSet(r) THEN 1 ELSE 0) - (IF f \in ToSet(q) THEN 1 ELSE 0)
  <2>1. Expecting(f)' = {u \in Tellers : f \in ToSet(todo'[u])}
    BY DEF Expecting, ToSet
  <2>2. Expecting(f) \subseteq Tellers /\ Expecting(f)' \subseteq Tellers
    BY <2>1 DEF Expecting
  <2>3. /\ Expecting(f) \ {t} = Expecting(f)' \ {t}
        /\ t \in Expecting(f) <=> f \in ToSet(q)
        /\ t \in Expecting(f)' <=> f \in ToSet(r)
    BY <1>1, <2>1 DEF Expecting, Turns
  <2> QED
    BY <2>2, <2>3, TellersAssumption, OneMember
<1>4. Cardinality(Counting') = Cardinality(Counting)
        + (IF r # <<>> THEN 1 ELSE 0) - (IF q # <<>> THEN 1 ELSE 0)
  <2>1. Counting' = {u \in Tellers : todo'[u] # <<>>}
    BY DEF Counting
  <2>2. Counting \subseteq Tellers /\ Counting' \subseteq Tellers
    BY <2>1 DEF Counting
  <2>3. Counting \ {t} = Counting' \ {t} /\ (t \in Counting <=> q # <<>>) /\ (t \in Counting' <=> r # <<>>)
    BY <1>1, <2>1 DEF Counting, Turns
  <2> QED
    BY <2>2, <2>3, TellersAssumption, OneMember
<1> QED
  BY <1>2, <1>3, <1>4

LEMMA Quiet == Counting = {} => \A l : Debtors(l) = {}
<1> SUFFICES ASSUME Counting = {}, NEW l PROVE Debtors(l) = {}
  OBVIOUS
<1>1. \A t \in Tellers : todo[t] = <<>>
  BY DEF Counting
<1> QED
  BY <1>1, Tuples DEF Debtors, Owes

LEMMA Sizes ==
  /\ \A l : Cardinality(Debtors(l)) \in Nat
  /\ Cardinality(Counting) \in Nat
  /\ \A f : Cardinality(Expecting(f)) \in Nat
  BY TellersFinite DEF Debtors, Counting, Expecting

LEMMA ExpectingCounts == \A f : Cardinality(Expecting(f)) <= Cardinality(Counting)
<1> TAKE f
<1>1. Expecting(f) \in SUBSET Counting
  BY Tuples DEF Expecting, Counting
<1>2. IsFiniteSet(Counting)
  BY TellersFinite DEF Counting
<1> QED
  BY <1>1, <1>2, FS_Subset

\* The sides of a ledger are numbers, and one more of a field is one more on its side.
LEMMA Sides ==
  ASSUME NEW s \in SetNames, NEW l \in Ledgers(s), NEW v \in [Fields(s) -> Nat]
  PROVE  Whole(l, v) \in Nat /\ Part(l, v) \in Nat
<1>1. CASE s = "worker"
  BY <1>1, FieldSets DEF Ledgers, Whole, Part
<1>2. CASE s = "latency"
  BY <1>2, FieldSets DEF Ledgers, Whole, Part
<1> QED
  BY <1>1, <1>2 DEF Ledgers

OneMore(w, v, h) == w = [v EXCEPT ![h] = @ + 1]

LEMMA SidesGrow ==
  ASSUME NEW s \in SetNames, NEW l \in Ledgers(s), NEW v \in [Fields(s) -> Nat], NEW h \in Fields(s),
         NEW w, OneMore(w, v, h)
  PROVE  /\ Whole(l, w) = Whole(l, v) + (IF h \in WholeOf(l) THEN 1 ELSE 0)
         /\ Part(l, w) = Part(l, v) + (IF h \in PartsOf(l) THEN 1 ELSE 0)
<1>1. w[h] = v[h] + 1 /\ \A f \in Fields(s) : f # h => w[f] = v[f]
  BY DEF OneMore
<1>2. \A f \in Fields(s) : v[f] \in Nat
  OBVIOUS
<1>3. CASE s = "worker"
  BY <1>1, <1>2, <1>3, FieldSets DEF Ledgers, Whole, Part, WholeOf, PartsOf
<1>4. CASE s = "latency"
  BY <1>1, <1>2, <1>4, FieldSets DEF Ledgers, Whole, Part, WholeOf, PartsOf
<1> QED
  BY <1>3, <1>4 DEF Ledgers

LEMMA SidesOfZero ==
  ASSUME NEW s \in SetNames, NEW l \in Ledgers(s), NEW v, \A f \in Fields(s) : v[f] = 0
  PROVE  Whole(l, v) = 0 /\ Part(l, v) = 0
<1>1. CASE s = "worker"
  BY <1>1, FieldSets DEF Ledgers, Whole, Part
<1>2. CASE s = "latency"
  BY <1>2, FieldSets DEF Ledgers, Whole, Part
<1> QED
  BY <1>1, <1>2 DEF Ledgers

\* With nothing counted and nothing left to count, every ledger agrees.
LEMMA EmptyLedgers ==
  ASSUME set \in SetNames, Counting = {}, \A f \in Fields(set) : tally[f] = 0
  PROVE  \A l \in Ledgers(set) : Agrees(l)
<1> TAKE l \in Ledgers(set)
<1>1. Whole(l, tally) = 0 /\ Part(l, tally) = 0
  BY SidesOfZero
<1>2. Cardinality(Debtors(l)) = 0
  BY Quiet, FS_EmptySet
<1> QED
  BY <1>1, <1>2 DEF Agrees

---------------------------------------------------------------------------
(* CounterSets: it holds at first and in every step                        *)

LEMMA CountersInvInit == CountersInit => CountersInv
<1> SUFFICES ASSUME CountersInit PROVE CountersInv
  OBVIOUS
<1>1. set \in SetNames /\ \A f \in Fields(set) : tally[f] = 0 /\ snapshot[f] = 0
  BY SetsAssumption DEF CountersInit, SetNames, Fields, Zero
<1>2. Counting = {} /\ Cardinality(Counting) = 0 /\ \A f : Cardinality(Expecting(f)) = 0
  <2>1. \A t \in Tellers : todo[t] = <<>>
    BY DEF CountersInit
  <2>2. Counting = {} /\ \A f : Expecting(f) = {}
    BY <2>1, Tuples DEF Counting, Expecting
  <2> QED
    BY <2>2, FS_EmptySet
<1>3. CounterTypes
  <2>1. tally \in [Fields(set) -> Nat] /\ snapshot \in [Fields(set) -> Nat]
    BY DEF CountersInit, Fields, Zero
  <2>2. \A s \in SetNames : <<>> \in Rests(s)
    BY DEF Rests, SetNames
  <2>3. todo \in [Tellers -> Rests(set)]
    BY <1>1, <2>2 DEF CountersInit
  <2>4. dead = {}
    BY DEF CountersInit
  <2>5. toRead \in Seq(Fields(set)) /\ toClear \in Seq(Fields(set))
    BY DEF CountersInit
  <2>6. items = 0 /\ opened = 0 /\ disturbed = FALSE /\ torn = FALSE
    BY DEF CountersInit
  <2>7. items >= opened + Cardinality(Counting)
    BY <1>2, <2>6
  <2>8. items \in Nat /\ opened \in Nat /\ disturbed \in BOOLEAN /\ torn \in BOOLEAN
    BY <2>6
  <2> QED
    BY <1>1, <2>1, <2>3, <2>4, <2>5, <2>7, <2>8 DEF CounterTypes
<1>4. Balances
  BY <1>1, <1>2, EmptyLedgers DEF CountersInit, Balances
<1>5. SnapshotBehind
  <2>1. toRead = <<>> /\ toClear = <<>> /\ items = 0 /\ opened = 0
    BY DEF CountersInit
  <2>2. \A f \in Fields(set) : /\ snapshot[f] <= tally[f]
                               /\ tally[f] + Cardinality(Expecting(f)) <= snapshot[f] + items - opened
    BY <1>1, <1>2, <2>1
  <2>3. set = "latency" => snapshot["count"] <= Seen("low") + Seen("high")
    BY <1>1, <2>1, Tuples, FieldSets DEF Seen
  <2> QED
    BY <2>1, <2>2, <2>3 DEF SnapshotBehind, Behind, LatencyRests
<1> QED
  BY <1>3, <1>4, <1>5 DEF CountersInv

\* A new item has all its fields to count, and no ledger owes anything of it yet.
LEMMA BeginItemKeeps ==
  ASSUME CountersInv, NEW t \in Tellers, NEW path \in ItemsOf(set), BeginItem(t, path)
  PROVE  CountersInv'
<1>1. /\ todo[t] = <<>> /\ todo' = [todo EXCEPT ![t] = path] /\ items' = items + 1
      /\ torn' = (torn \/ toClear # <<>>)
      /\ set' = set /\ tally' = tally /\ toRead' = toRead /\ snapshot' = snapshot
      /\ toClear' = toClear /\ opened' = opened /\ disturbed' = disturbed /\ dead' = dead
  BY DEF BeginItem
<1>2. CounterTypes
  BY DEF CountersInv
<1>3. path \in Rests(set) /\ path # <<>> /\ \A l \in Ledgers(set) : ~Owes(l, path)
  BY <1>2, ItemsAreRests DEF CounterTypes
<1>4. /\ \A l : Cardinality(Debtors(l))' = Cardinality(Debtors(l))
             + (IF Owes(l, path) THEN 1 ELSE 0) - (IF Owes(l, <<>>) THEN 1 ELSE 0)
      /\ \A f : Cardinality(Expecting(f))' = Cardinality(Expecting(f))
             + (IF f \in ToSet(path) THEN 1 ELSE 0) - (IF f \in ToSet(<<>>) THEN 1 ELSE 0)
      /\ Cardinality(Counting)' = Cardinality(Counting) + (IF path # <<>> THEN 1 ELSE 0) - 0
  <2>1. Turns(t, <<>>, path)
    BY <1>1 DEF Turns
  <2> QED
    BY <1>2, <2>1, TellerMoves
<1>5. (\A l : ~Owes(l, <<>>)) /\ (\A f : f \notin ToSet(<<>>))
  BY Tuples DEF Owes
<1>6. Cardinality(Counting)' = Cardinality(Counting) + 1 /\ Cardinality(Counting) \in Nat
  BY <1>3, <1>4, Sizes
<1>7. CounterTypes'
  <2>1. todo' \in [Tellers -> Rests(set)]
    BY <1>1, <1>2, <1>3 DEF CounterTypes
  <2>2. items \in Nat /\ opened \in Nat /\ items >= opened + Cardinality(Counting)
    BY <1>2 DEF CounterTypes
  <2>3. items' \in Nat /\ items' >= opened' + Cardinality(Counting)'
    BY <1>1, <1>6, <2>2
  <2>4. torn' \in BOOLEAN
    BY <1>1, <1>2 DEF CounterTypes
  <2> QED
    BY <1>1, <1>2, <2>1, <2>3, <2>4 DEF CounterTypes
<1>8. Balances'
  <2> SUFFICES ASSUME ~torn' PROVE toClear = <<>> /\ \A l \in Ledgers(set) : Agrees(l)'
    BY <1>1 DEF Balances
  <2>1. toClear = <<>> /\ \A l \in Ledgers(set) : Agrees(l)
    BY <1>1 DEF CountersInv, Balances
  <2>2. ASSUME NEW l \in Ledgers(set) PROVE Agrees(l)'
    <3>1. Cardinality(Debtors(l))' = Cardinality(Debtors(l))
      BY <1>3, <1>4, <1>5, Sizes
    <3> QED
      BY <1>1, <2>1, <3>1 DEF Agrees, Exact, Whole, Part
  <2> QED
    BY <2>1, <2>2
<1>9. SnapshotBehind'
  <2> SUFFICES ASSUME ~disturbed', ~torn' PROVE Behind'
    BY DEF SnapshotBehind
  <2>1. Behind
    BY <1>1 DEF CountersInv, SnapshotBehind
  <2>2. ASSUME NEW f \in Fields(set), f \notin ToSet(toRead)
        PROVE  tally[f] + Cardinality(Expecting(f))' <= snapshot[f] + items' - opened
    <3>1. /\ Cardinality(Expecting(f))' <= Cardinality(Expecting(f)) + 1
          /\ Cardinality(Expecting(f)) \in Nat /\ Cardinality(Expecting(f))' \in Nat
      BY <1>4, <1>5, Sizes
    <3>2. tally[f] + Cardinality(Expecting(f)) <= snapshot[f] + items - opened
      BY <2>1, <2>2 DEF Behind
    <3>3. tally[f] \in Nat /\ snapshot[f] \in Nat /\ items \in Nat /\ opened \in Nat
      BY <1>2 DEF CounterTypes
    <3>4. items' = items + 1
      BY <1>1
    <3>5. PICK a, b, c, d, e : /\ a = tally[f] /\ b = snapshot[f] /\ c = items - opened
                               /\ d = Cardinality(Expecting(f)) /\ e = Cardinality(Expecting(f))'
      OBVIOUS
    <3>6. a \in Nat /\ b \in Nat /\ c \in Int /\ d \in Nat /\ e \in Nat /\ e <= d + 1 /\ a + d <= b + c
      BY <3>1, <3>2, <3>3, <3>5
    <3>7. a + e <= b + (c + 1)
      BY <3>6
    <3> QED
      BY <3>3, <3>4, <3>5, <3>6, <3>7
  <2>3. Seen("low")' = Seen("low") /\ Seen("high")' = Seen("high")
    BY <1>1 DEF Seen
  <2> QED
    BY <1>1, <2>1, <2>2, <2>3 DEF Behind
<1> QED
  BY <1>7, <1>8, <1>9 DEF CountersInv

\* A field is counted: what the item owes moves from the tellers to the fields.
LEMMA CountNextKeeps ==
  ASSUME CountersInv, NEW t \in Tellers, CountNext(t)
  PROVE  CountersInv'
<1>a. PICK q, h, r : q = todo[t] /\ h = Head(q) /\ r = Tail(q)
  OBVIOUS
<1>1. /\ q # <<>> /\ todo' = [todo EXCEPT ![t] = r] /\ tally' = [tally EXCEPT ![h] = @ + 1]
      /\ set' = set /\ toRead' = toRead /\ snapshot' = snapshot /\ toClear' = toClear
      /\ items' = items /\ opened' = opened /\ disturbed' = disturbed /\ torn' = torn /\ dead' = dead
  BY <1>a DEF CountNext
<1>2. CounterTypes
  BY DEF CountersInv
<1>3. /\ h \in Fields(set) /\ r \in Rests(set)
      /\ h \notin ToSet(r) /\ ToSet(q) = ToSet(r) \union {h}
      /\ \A l \in Ledgers(set) : Pays(l, q, h, r)
  BY <1>a, <1>1, <1>2, RestStep DEF CounterTypes
<1>4. /\ \A l : Cardinality(Debtors(l))' = Cardinality(Debtors(l))
             + (IF Owes(l, r) THEN 1 ELSE 0) - (IF Owes(l, q) THEN 1 ELSE 0)
      /\ \A f : Cardinality(Expecting(f))' = Cardinality(Expecting(f))
             + (IF f \in ToSet(r) THEN 1 ELSE 0) - (IF f \in ToSet(q) THEN 1 ELSE 0)
      /\ Cardinality(Counting)' = Cardinality(Counting) + (IF r # <<>> THEN 1 ELSE 0) - (IF q # <<>> THEN 1 ELSE 0)
  <2>1. Turns(t, q, r)
    BY <1>a, <1>1 DEF Turns
  <2> QED
    BY <1>2, <2>1, TellerMoves
<1>5. t \in Counting /\ Counting # {}
  BY <1>a, <1>1 DEF Counting
<1>7. tally'[h] = tally[h] + 1 /\ (\A f \in Fields(set) : f # h => tally'[f] = tally[f])
      /\ \A f \in Fields(set) : tally[f] \in Nat /\ snapshot[f] \in Nat
  BY <1>1, <1>2, <1>3 DEF CounterTypes
<1>8. CounterTypes'
  <2>1. todo' \in [Tellers -> Rests(set)]
    BY <1>1, <1>2, <1>3 DEF CounterTypes
  <2>2. tally' \in [Fields(set) -> Nat]
    BY <1>1, <1>2, <1>3 DEF CounterTypes
  <2>3. items \in Nat /\ opened \in Nat /\ items >= opened + Cardinality(Counting)
    BY <1>2 DEF CounterTypes
  <2>4. items' >= opened' + Cardinality(Counting)'
    <3>1. Cardinality(Counting)' <= Cardinality(Counting) /\ Cardinality(Counting)' \in Int
      BY <1>1, <1>4, Sizes
    <3> QED
      BY <1>1, <2>3, <3>1, Sizes
  <2> QED
    BY <1>1, <1>2, <2>1, <2>2, <2>4 DEF CounterTypes
<1>9. Balances'
  <2> SUFFICES ASSUME ~torn' PROVE toClear = <<>> /\ \A l \in Ledgers(set) : Agrees(l)'
    BY <1>1 DEF Balances
  <2>1. toClear = <<>> /\ \A l \in Ledgers(set) : Agrees(l)
    BY <1>1, <1>5 DEF CountersInv, Balances
  <2>2. ASSUME NEW l \in Ledgers(set) PROVE Agrees(l)'
    <3>1. /\ Whole(l, tally') = Whole(l, tally) + (IF h \in WholeOf(l) THEN 1 ELSE 0)
          /\ Part(l, tally') = Part(l, tally) + (IF h \in PartsOf(l) THEN 1 ELSE 0)
          /\ Whole(l, tally) \in Nat /\ Part(l, tally) \in Nat
      <4>1. tally \in [Fields(set) -> Nat] /\ set \in SetNames /\ h \in Fields(set)
        BY <1>2, <1>3 DEF CounterTypes
      <4>2. Whole(l, tally) \in Nat /\ Part(l, tally) \in Nat
        BY <4>1, Sides
      <4>3. OneMore(tally', tally, h)
        BY <1>1 DEF OneMore
      <4> QED
        BY <4>1, <4>2, <4>3, SidesGrow
    <3>2. PICK a, b, d : a = Whole(l, tally) /\ b = Part(l, tally) /\ d = Cardinality(Debtors(l))
      OBVIOUS
    <3>3. PICK a1, b1, d1 : a1 = Whole(l, tally') /\ b1 = Part(l, tally') /\ d1 = Cardinality(Debtors(l))'
      OBVIOUS
    <3>4. a \in Nat /\ b \in Nat /\ d \in Nat
      BY <3>1, <3>2, Sizes
    <3>5. /\ a1 = a + (IF h \in WholeOf(l) THEN 1 ELSE 0)
          /\ b1 = b + (IF h \in PartsOf(l) THEN 1 ELSE 0)
          /\ d1 = d + (IF Owes(l, r) THEN 1 ELSE 0) - (IF Owes(l, q) THEN 1 ELSE 0)
      BY <1>4, <3>1, <3>2, <3>3
    <3>6. IF Exact(l) THEN a = b + d ELSE a >= b + d
      BY <2>1, <3>2 DEF Agrees
    <3>7. IF Exact(l) THEN a1 = b1 + d1 ELSE a1 >= b1 + d1
      BY <1>3, <3>4, <3>5, <3>6 DEF Pays
    <3>8. Agrees(l)' <=> IF Exact(l) THEN Whole(l, tally') = Part(l, tally') + Cardinality(Debtors(l))'
                                     ELSE Whole(l, tally') >= Part(l, tally') + Cardinality(Debtors(l))'
      BY DEF Agrees, Exact, Whole, Part
    <3> QED
      BY <3>3, <3>7, <3>8
  <2> QED
    BY <2>1, <2>2
<1>10. SnapshotBehind'
  <2> SUFFICES ASSUME ~disturbed', ~torn' PROVE Behind'
    BY DEF SnapshotBehind
  <2>1. Behind
    BY <1>1 DEF CountersInv, SnapshotBehind
  <2>2. \A f \in Fields(set) : tally'[f] >= tally[f] /\ tally'[f] \in Nat
    BY <1>7
  <2>3. \A f \in Fields(set) : snapshot[f] <= tally'[f]
    BY <1>7, <2>1, <2>2 DEF Behind
  <2>4. ASSUME NEW f \in Fields(set), f \notin ToSet(toRead)
        PROVE  tally'[f] + Cardinality(Expecting(f))' <= snapshot[f] + items - opened
    <3>1. tally'[f] + Cardinality(Expecting(f))' = tally[f] + Cardinality(Expecting(f))
      <4>1. tally[f] \in Nat /\ Cardinality(Expecting(f)) \in Nat
        BY <1>7, Sizes
      <4>2. CASE f = h
        BY <1>3, <1>4, <1>7, <4>1, <4>2
      <4>3. CASE f # h
        BY <1>3, <1>4, <1>7, <4>1, <4>3
      <4> QED
        BY <4>2, <4>3
    <3> QED
      BY <2>1, <2>4, <3>1 DEF Behind
  <2>5. set = "latency" => snapshot["count"] <= Seen("low")' + Seen("high")'
    <3> SUFFICES ASSUME set = "latency" PROVE snapshot["count"] <= Seen("low")' + Seen("high")'
      OBVIOUS
    <3>1. "low" \in Fields(set) /\ "high" \in Fields(set) /\ "count" \in Fields(set)
      BY FieldSets
    <3>2. /\ Seen("low") \in Nat /\ Seen("low")' \in Nat /\ Seen("low") <= Seen("low")'
          /\ Seen("high") \in Nat /\ Seen("high")' \in Nat /\ Seen("high") <= Seen("high")'
      BY <1>1, <1>7, <2>2, <3>1 DEF Seen
    <3>3. snapshot["count"] <= Seen("low") + Seen("high") /\ snapshot["count"] \in Nat
      BY <1>7, <2>1, <3>1 DEF Behind
    <3> QED
      BY <3>2, <3>3
  <2> QED
    BY <1>1, <2>1, <2>3, <2>4, <2>5 DEF Behind
<1> QED
  BY <1>8, <1>9, <1>10 DEF CountersInv

\* A snapshot begins: all its fields are to be read, and what is under way is not
\* among the items before it.
LEMMA BeginSnapshotKeeps == ASSUME CountersInv, BeginSnapshot PROVE CountersInv'
<1>1. /\ toRead' = FieldsOf(set) /\ snapshot' = Zero(set) /\ opened' = items - Cardinality(Counting)
      /\ disturbed' = (toClear # <<>>) /\ set' = set /\ tally' = tally /\ todo' = todo
      /\ toClear' = toClear /\ items' = items /\ torn' = torn /\ dead' = dead
  BY DEF BeginSnapshot
<1>2. CounterTypes
  BY DEF CountersInv
<1>3. Counting' = Counting /\ \A l : Debtors(l)' = Debtors(l)
  BY <1>1 DEF Counting, Debtors, Owes
<1>4. set \in SetNames /\ items \in Nat /\ opened \in Nat /\ items >= opened + Cardinality(Counting)
  BY <1>2 DEF CounterTypes
<1>5. snapshot' = [f \in Fields(set) |-> 0]
  BY <1>1 DEF Zero, Fields
<1>6. CounterTypes'
  <2>1. opened' \in Nat /\ items' >= opened' + Cardinality(Counting)'
    BY <1>1, <1>3, <1>4, Sizes
  <2>2. toRead' \in Seq(Fields(set))
    BY <1>1, <1>4, Orders
  <2>3. disturbed' \in BOOLEAN
    BY <1>1
  <2> QED
    BY <1>1, <1>2, <1>5, <2>1, <2>2, <2>3 DEF CounterTypes
<1>7. Balances'
  BY <1>1, <1>3 DEF CountersInv, Balances, Agrees, Exact, Whole, Part
<1>8. SnapshotBehind'
  <2> SUFFICES ASSUME ~disturbed', ~torn' PROVE Behind'
    BY DEF SnapshotBehind
  <2>1. toClear = <<>> /\ ToSet(toRead') = Fields(set)
    BY <1>1 DEF Fields
  <2>2. \A f \in Fields(set) : snapshot'[f] = 0 /\ tally[f] \in Nat
    BY <1>2, <1>5 DEF CounterTypes
  <2>3. set = "latency" => toRead' \in LatencyRests
    BY <1>1 DEF FieldsOf, LatencyFields, LatencyRests
  <2>4. set = "latency" => 0 <= Seen("low")' + Seen("high")' /\ snapshot'["count"] = 0
    <3> SUFFICES ASSUME set = "latency" PROVE 0 <= Seen("low")' + Seen("high")' /\ snapshot'["count"] = 0
      OBVIOUS
    <3>1. "low" \in Fields(set) /\ "high" \in Fields(set) /\ "count" \in Fields(set)
      BY FieldSets
    <3>2. Seen("low")' \in Nat /\ Seen("high")' \in Nat /\ snapshot'["count"] = 0
      BY <1>1, <2>1, <2>2, <3>1 DEF Seen
    <3> QED
      BY <3>2
  <2> QED
    BY <1>1, <2>1, <2>2, <2>3, <2>4 DEF Behind
<1> QED
  BY <1>6, <1>7, <1>8 DEF CountersInv

LEMMA LatencyRestStep ==
  ASSUME NEW q \in LatencyRests, q # <<>>
  PROVE  /\ Tail(q) \in LatencyRests
         /\ Head(q) = "count" => "low" \in ToSet(Tail(q)) /\ "high" \in ToSet(Tail(q))
<1>1. CASE q = <<"count", "low", "high">>
  BY <1>1, Tuples DEF LatencyRests
<1>2. CASE q = <<"low", "high">>
  BY <1>2, Tuples DEF LatencyRests
<1>3. CASE q = <<"high">>
  BY <1>3, Tuples DEF LatencyRests
<1> QED
  BY <1>1, <1>2, <1>3 DEF LatencyRests

\* What a snapshot has of a field is at most what the field is now; what of the field
\* it misses belongs to items that were not finished when it was begun.
LEMMA ReadFieldKeeps == ASSUME CountersInv, ReadField PROVE CountersInv'
<1>a. PICK h, r : h = Head(toRead) /\ r = Tail(toRead)
  OBVIOUS
<1>1. /\ toRead # <<>> /\ toRead' = r /\ snapshot' = [snapshot EXCEPT ![h] = tally[h]]
      /\ set' = set /\ tally' = tally /\ todo' = todo /\ toClear' = toClear
      /\ items' = items /\ opened' = opened /\ disturbed' = disturbed /\ torn' = torn /\ dead' = dead
  BY <1>a DEF ReadField
<1>2. CounterTypes
  BY DEF CountersInv
<1>3. h \in Fields(set) /\ r \in Seq(Fields(set)) /\ ToSet(toRead) = ToSet(r) \union {h}
  BY <1>a, <1>1, <1>2, FieldsInSeq DEF CounterTypes
<1>4. Counting' = Counting /\ (\A l : Debtors(l)' = Debtors(l)) /\ \A f : Expecting(f)' = Expecting(f)
  BY <1>1 DEF Counting, Debtors, Owes, Expecting, ToSet
<1>5. /\ snapshot' \in [Fields(set) -> Nat] /\ snapshot'[h] = tally[h]
      /\ \A f \in Fields(set) : f # h => snapshot'[f] = snapshot[f]
      /\ \A f \in Fields(set) : tally[f] \in Nat /\ snapshot[f] \in Nat
  BY <1>1, <1>2, <1>3 DEF CounterTypes
<1>6. CounterTypes'
  BY <1>1, <1>2, <1>3, <1>4, <1>5 DEF CounterTypes
<1>7. Balances'
  BY <1>1, <1>4 DEF CountersInv, Balances, Agrees, Exact, Whole, Part
<1>8. SnapshotBehind'
  <2> SUFFICES ASSUME ~disturbed', ~torn' PROVE Behind'
    BY DEF SnapshotBehind
  <2>1. Behind /\ ~torn /\ toClear = <<>>
    BY <1>1 DEF CountersInv, SnapshotBehind, Behind
  <2>2. \A f \in Fields(set) : snapshot'[f] <= tally[f]
    BY <1>5, <2>1 DEF Behind
  <2>3. ASSUME NEW f \in Fields(set), f \notin ToSet(r)
        PROVE  tally[f] + Cardinality(Expecting(f)) <= snapshot'[f] + items - opened
    <3>1. CASE f = h
      <4>1. Cardinality(Expecting(f)) <= Cardinality(Counting)
        BY ExpectingCounts
      <4>2. items \in Nat /\ opened \in Nat /\ items >= opened + Cardinality(Counting)
        BY <1>2 DEF CounterTypes
      <4>3. Cardinality(Expecting(f)) \in Nat /\ Cardinality(Counting) \in Nat /\ tally[f] \in Nat
        BY <1>5, Sizes
      <4>4. snapshot'[f] = tally[f]
        BY <1>5, <3>1
      <4> QED
        BY <4>1, <4>2, <4>3, <4>4
    <3>2. CASE f # h
      BY <1>3, <1>5, <2>1, <2>3, <3>2 DEF Behind
    <3> QED
      BY <3>1, <3>2
  <2>4. set = "latency" => r \in LatencyRests /\ snapshot'["count"] <= Seen("low")' + Seen("high")'
    <3> SUFFICES ASSUME set = "latency"
                 PROVE  r \in LatencyRests /\ snapshot'["count"] <= Seen("low")' + Seen("high")'
      OBVIOUS
    <3>1. /\ r \in LatencyRests
          /\ h = "count" => "low" \in ToSet(r) /\ "high" \in ToSet(r)
      BY <1>a, <1>1, <2>1, LatencyRestStep DEF Behind
    <3>2. "low" \in Fields(set) /\ "high" \in Fields(set) /\ "count" \in Fields(set)
      BY FieldSets
    <3>3. CASE h = "count"
      <4>1. Agrees("count")
        BY <2>1 DEF CountersInv, Balances, Ledgers
      <4>2. tally["count"] <= tally["low"] + tally["high"]
        <5>1. tally["low"] + tally["high"] = tally["count"] + Cardinality(Debtors("count"))
          BY <4>1 DEF Agrees, Exact, Whole, Part
        <5> QED
          BY <1>5, <3>2, <5>1, Sizes
      <4>3. snapshot'["count"] = tally["count"] /\ Seen("low")' = tally["low"] /\ Seen("high")' = tally["high"]
        BY <1>1, <1>5, <3>1, <3>3 DEF Seen
      <4> QED
        BY <3>1, <4>2, <4>3
    <3>4. CASE h # "count"
      <4>1. \A f \in {"low", "high"} : Seen(f)' = Seen(f)
        <5> SUFFICES ASSUME NEW f \in {"low", "high"} PROVE Seen(f)' = Seen(f)
          OBVIOUS
        <5>1. Seen(f)' = IF f \in ToSet(r) THEN tally[f] ELSE snapshot'[f]
          BY <1>1 DEF Seen
        <5> QED
          BY <1>3, <1>5, <3>2, <5>1 DEF Seen
      <4>2. snapshot'["count"] = snapshot["count"]
        BY <1>5, <3>2, <3>4
      <4> QED
        BY <2>1, <3>1, <4>1, <4>2 DEF Behind
    <3> QED
      BY <3>3, <3>4
  <2> QED
    BY <1>1, <1>4, <2>1, <2>2, <2>3, <2>4 DEF Behind
<1> QED
  BY <1>6, <1>7, <1>8 DEF CountersInv

\* A reset disturbs every snapshot, and tears what is being counted.
LEMMA BeginClearKeeps == ASSUME CountersInv, BeginClear PROVE CountersInv'
<1>1. /\ toClear = <<>> /\ toClear' = ClearOrder(set) /\ disturbed' = TRUE /\ torn' = (Counting # {})
      /\ set' = set /\ tally' = tally /\ todo' = todo /\ toRead' = toRead /\ snapshot' = snapshot
      /\ items' = items /\ opened' = opened /\ dead' = dead
  BY DEF BeginClear
<1>2. CounterTypes
  BY DEF CountersInv
<1>3. Counting' = Counting
  BY <1>1 DEF Counting
<1>4. ClearOrder(set) \in Seq(Fields(set)) /\ ToSet(ClearOrder(set)) = Fields(set)
  BY <1>2, Orders DEF CounterTypes
<1>5. CounterTypes'
  <2>1. disturbed' \in BOOLEAN /\ torn' \in BOOLEAN
    BY <1>1
  <2> QED
    BY <1>1, <1>2, <1>3, <1>4, <2>1 DEF CounterTypes
<1>6. Balances'
  <2>1. Fields(set) # {}
    BY <1>2, FieldSets DEF CounterTypes, SetNames
  <2>2. ClearOrder(set) # <<>>
    BY <1>4, <2>1, Tuples
  <2>3. ~torn' => Counting = {}
    BY <1>1
  <2> QED
    BY <1>1, <1>3, <1>4, <2>2, <2>3 DEF Balances
<1>7. SnapshotBehind'
  BY <1>1 DEF SnapshotBehind
<1> QED
  BY <1>5, <1>6, <1>7 DEF CountersInv

LEMMA ClearFieldKeeps == ASSUME CountersInv, ClearField PROVE CountersInv'
<1>a. PICK h, r : h = Head(toClear) /\ r = Tail(toClear)
  OBVIOUS
<1>1. /\ toClear # <<>> /\ toClear' = r /\ tally' = [tally EXCEPT ![h] = 0]
      /\ set' = set /\ todo' = todo /\ toRead' = toRead /\ snapshot' = snapshot
      /\ items' = items /\ opened' = opened /\ disturbed' = disturbed /\ torn' = torn /\ dead' = dead
  BY <1>a DEF ClearField
<1>2. CounterTypes
  BY DEF CountersInv
<1>3. h \in Fields(set) /\ r \in Seq(Fields(set)) /\ ToSet(toClear) = ToSet(r) \union {h}
  BY <1>a, <1>1, <1>2, FieldsInSeq DEF CounterTypes
<1>4. Counting' = Counting
  BY <1>1 DEF Counting
<1>5. /\ tally' \in [Fields(set) -> Nat] /\ tally'[h] = 0
      /\ \A f \in Fields(set) : f # h => tally'[f] = tally[f]
  BY <1>1, <1>2, <1>3 DEF CounterTypes
<1>6. CounterTypes'
  BY <1>1, <1>2, <1>3, <1>4, <1>5 DEF CounterTypes
<1>7. Balances'
  <2> SUFFICES ASSUME ~torn' PROVE Balances'
    BY DEF Balances
  <2>1. Counting = {} /\ \A f \in Fields(set) : f \notin ToSet(toClear) => tally[f] = 0
    BY <1>1 DEF CountersInv, Balances
  <2>2. \A f \in Fields(set) : f \notin ToSet(r) => tally'[f] = 0
    BY <1>3, <1>5, <2>1
  <2>3. CASE r = <<>>
    <3>1. Counting' = {} /\ set' \in SetNames /\ \A f \in Fields(set') : tally'[f] = 0
      BY <1>1, <1>2, <1>4, <2>1, <2>2, <2>3, Tuples DEF CounterTypes
    <3>2. ASSUME NEW l \in Ledgers(set') PROVE Agrees(l)'
      <4>1. Whole(l, tally') = 0 /\ Part(l, tally') = 0
        BY <3>1, SidesOfZero
      <4>2. Debtors(l)' = {}
        <5>1. Debtors(l)' = Debtors(l)
          BY <1>1 DEF Debtors, Owes
        <5> QED
          BY <2>1, <5>1, Quiet
      <4>3. Cardinality(Debtors(l))' = 0
        BY <4>2, FS_EmptySet
      <4>4. Agrees(l)' <=> IF Exact(l) THEN Whole(l, tally') = Part(l, tally') + Cardinality(Debtors(l))'
                                       ELSE Whole(l, tally') >= Part(l, tally') + Cardinality(Debtors(l))'
        BY DEF Agrees, Exact, Whole, Part
      <4> QED
        BY <4>1, <4>3, <4>4
    <3> QED
      BY <1>1, <2>3, <3>2 DEF Balances
  <2>4. CASE r # <<>>
    BY <1>1, <1>4, <2>1, <2>2, <2>4 DEF Balances
  <2> QED
    BY <2>3, <2>4
<1>8. SnapshotBehind'
  <2>1. disturbed \/ torn
    BY <1>1 DEF CountersInv, SnapshotBehind, Behind
  <2> QED
    BY <1>1, <2>1 DEF SnapshotBehind
<1> QED
  BY <1>6, <1>7, <1>8 DEF CountersInv

\* A panic takes a teller from those that go on, and counts nothing.
LEMMA CountersStand ==
  CountersInv /\ ((\E t \in Tellers : ProcessPanics(t)) \/ UNCHANGED counterVars) => CountersInv'
<1> SUFFICES ASSUME CountersInv, (\E t \in Tellers : ProcessPanics(t)) \/ UNCHANGED counterVars
             PROVE  CountersInv'
  OBVIOUS
<1>0. dead' \subseteq Tellers /\ (dead' # {} => set' = "worker")
  BY DEF CountersInv, CounterTypes, ProcessPanics, counterVars
<1>1. /\ set' = set /\ tally' = tally /\ todo' = todo /\ toRead' = toRead /\ snapshot' = snapshot
      /\ toClear' = toClear /\ items' = items /\ opened' = opened /\ disturbed' = disturbed /\ torn' = torn
  BY DEF counterVars, ProcessPanics
<1>2. Counting' = Counting /\ (\A l : Debtors(l)' = Debtors(l)) /\ \A f : Expecting(f)' = Expecting(f)
  BY <1>1 DEF Counting, Debtors, Owes, Expecting, ToSet
<1>3. CounterTypes'
  BY <1>0, <1>1, <1>2 DEF CountersInv, CounterTypes
<1>4. Balances'
  BY <1>1, <1>2 DEF CountersInv, Balances, Agrees, Exact, Whole, Part
<1>5. \A f : Seen(f)' = Seen(f)
  BY <1>1 DEF Seen
<1>6. SnapshotBehind'
  BY <1>1, <1>2, <1>5 DEF CountersInv, SnapshotBehind, Behind
<1> QED
  BY <1>3, <1>4, <1>6 DEF CountersInv

LEMMA CountersKeep == CountersInv /\ [CountersNext]_counterVars => CountersInv'
<1> SUFFICES ASSUME CountersInv, [CountersNext]_counterVars PROVE CountersInv'
  OBVIOUS
<1>1. ASSUME NEW t \in Tellers, CountNext(t) PROVE CountersInv'
  BY <1>1, CountNextKeeps
<1>2. ASSUME NEW t \in Tellers, NEW path \in ItemsOf(set), BeginItem(t, path) PROVE CountersInv'
  BY <1>2, BeginItemKeeps
<1>3. CASE BeginSnapshot \/ ReadField
  BY <1>3, BeginSnapshotKeeps, ReadFieldKeeps
<1>4. CASE BeginClear \/ ClearField
  BY <1>4, BeginClearKeeps, ClearFieldKeeps
<1>5. CASE (\E t \in Tellers : ProcessPanics(t)) \/ UNCHANGED counterVars
  BY <1>5, CountersStand
<1> QED
  BY <1>1, <1>2, <1>3, <1>4, <1>5 DEF CountersNext

LEMMA CountersInvariance == CountersSpec => []CountersInv
<1>1. CountersInit => CountersInv
  BY CountersInvInit
<1> QED
  BY <1>1, CountersKeep, PTL DEF CountersSpec

---------------------------------------------------------------------------
(* CounterSets: what follows                                               *)

\* While no reset has torn the counters, a worker's parts are never more than its inputs.
LEMMA PartOfWhole ==
  ASSUME CountersInv, ~torn, toClear = <<>>, set = "worker"
  PROVE  /\ tally["input"] \in Nat /\ tally["time"] \in Nat /\ tally["filtered"] \in Nat
         /\ tally["input"] = tally["time"] + Cardinality(Debtors("time"))
         /\ tally["time"] <= tally["input"] /\ tally["filtered"] <= tally["input"]
<1>1. tally["input"] \in Nat /\ tally["time"] \in Nat /\ tally["filtered"] \in Nat
  BY FieldSets DEF CountersInv, CounterTypes
<1>2. Agrees("time") /\ Agrees("filteredInput")
  BY DEF CountersInv, Balances, Ledgers
<1>3. /\ tally["input"] = tally["time"] + Cardinality(Debtors("time"))
      /\ tally["input"] >= tally["filtered"] + Cardinality(Debtors("filteredInput"))
  BY <1>2 DEF Agrees, Exact, Whole, Part
<1> QED
  BY <1>1, <1>3, Sizes

LEMMA CountersBalance == CountersInv => CountersSettle
<1> SUFFICES ASSUME CountersInv, Counting \subseteq dead, toClear = <<>>, ~torn PROVE Balanced(tally)
  BY DEF CountersSettle
<1>1. CASE set = "worker"
  <2>1. /\ tally["input"] \in Nat /\ tally["time"] \in Nat
        /\ tally["input"] = tally["time"] + Cardinality(Debtors("time"))
        /\ tally["time"] <= tally["input"] /\ tally["filtered"] <= tally["input"]
    BY <1>1, PartOfWhole
  <2>2. Cardinality(Debtors("time")) <= Cardinality(dead) /\ Cardinality(dead) \in Nat
    <3>1. \A t \in Debtors("time") : todo[t] # <<>>
      BY Tuples DEF Debtors, Owes
    <3>2. Debtors("time") \in SUBSET dead
      BY <3>1 DEF Debtors, Counting
    <3>3. IsFiniteSet(dead)
      BY TellersFinite DEF CountersInv, CounterTypes
    <3> QED
      BY <3>2, <3>3, FS_Subset, FS_CardinalityType
  <2>3. tally["input"] <= tally["time"] + Cardinality(dead)
    BY <2>1, <2>2, Sizes
  <2> QED
    BY <1>1, <2>1, <2>3 DEF Balanced
<1>2. CASE set = "latency"
  <2>1. Counting = {}
    BY <1>2 DEF CountersInv, CounterTypes
  <2>2. Cardinality(Debtors("count")) = 0
    BY <2>1, Quiet, FS_EmptySet
  <2>3. tally["count"] \in Nat /\ tally["low"] \in Nat /\ tally["high"] \in Nat
    BY <1>2, FieldSets DEF CountersInv, CounterTypes
  <2>4. Agrees("count")
    BY <1>2 DEF CountersInv, Balances, Ledgers
  <2>5. tally["low"] + tally["high"] = tally["count"] + Cardinality(Debtors("count"))
    BY <2>4 DEF Agrees, Exact, Whole, Part
  <2> QED
    BY <1>2, <2>2, <2>3, <2>5 DEF Balanced
<1>3. CASE set \notin {"worker", "latency"}
  BY <1>3 DEF Balanced
<1> QED
  BY <1>1, <1>2, <1>3

\* For any number of threads, items and resets: the counters of a worker or a histogram
\* that no reset has torn balance as soon as nobody who lives counts: what a worker
\* received and did not time is the item its panic ended.
THEOREM CountersBalanced == CountersSpec => []CountersSettle
  BY CountersBalance, CountersInvariance, PTL

LEMMA SnapshotsClose == CountersInv => SnapshotsAreClose
<1> SUFFICES ASSUME CountersInv, toRead = <<>>, ~disturbed, ~torn
             PROVE  /\ \A f \in DOMAIN tally : snapshot[f] <= tally[f] /\ tally[f] <= snapshot[f] + Arrived
                    /\ \A x \in RatesOf(set, snapshot) : x[1] <= x[2] + Arrived
                    /\ set = "latency" => /\ snapshot.count <= snapshot.low + snapshot.high
                                          /\ \A k \in 1..snapshot.count : Percentile(snapshot, k) # "last"
  BY DEF SnapshotsAreClose
<1>1. /\ set \in SetNames /\ items \in Nat /\ opened \in Nat
      /\ DOMAIN tally = Fields(set)
      /\ items >= opened + Cardinality(Counting)
      /\ \A f \in Fields(set) : tally[f] \in Nat /\ snapshot[f] \in Nat
  BY DEF CountersInv, CounterTypes
<1>2. Behind /\ toClear = <<>>
  BY DEF CountersInv, SnapshotBehind, Behind
<1>3. Arrived \in Nat /\ Arrived = items - opened
  BY <1>1, Sizes DEF Arrived
<1>4. ASSUME NEW f \in Fields(set)
      PROVE  snapshot[f] <= tally[f] /\ tally[f] <= snapshot[f] + Arrived
  <2>1. snapshot[f] <= tally[f] /\ tally[f] + Cardinality(Expecting(f)) <= snapshot[f] + items - opened
    BY <1>2, Tuples DEF Behind
  <2> QED
    BY <1>1, <1>3, <2>1, Sizes
<1>5. ASSUME NEW x \in RatesOf(set, snapshot) PROVE x[1] <= x[2] + Arrived
  <2>1. set = "worker" /\ "input" \in Fields(set)
    BY FieldSets DEF RatesOf
  <2>2. PICK p \in {"filtered", "time"} : x = <<snapshot[p], snapshot["input"]>>
    BY <2>1 DEF RatesOf
  <2>3. p \in Fields(set) /\ tally[p] <= tally["input"]
    BY <1>2, <2>1, <2>2, FieldSets, PartOfWhole
  <2>4. snapshot[p] <= tally[p] /\ tally["input"] <= snapshot["input"] + Arrived
    BY <1>4, <2>1, <2>3
  <2>5. snapshot[p] <= snapshot["input"] + Arrived
    BY <1>1, <1>3, <2>1, <2>3, <2>4
  <2> QED
    BY <2>2, <2>5
<1>6. ASSUME set = "latency"
      PROVE  /\ snapshot.count <= snapshot.low + snapshot.high
             /\ \A k \in 1..snapshot.count : Percentile(snapshot, k) # "last"
  <2>1. snapshot["count"] <= snapshot["low"] + snapshot["high"]
    BY <1>2, <1>6, Tuples DEF Behind, Seen
  <2>2. snapshot["count"] \in Nat /\ snapshot["low"] \in Nat /\ snapshot["high"] \in Nat
    BY <1>1, <1>6, FieldSets
  <2>3. \A k \in 1..snapshot["count"] : snapshot["low"] + snapshot["high"] >= k
    BY <2>1, <2>2
  <2> QED
    BY <2>1, <2>3 DEF Percentile
<1> QED
  BY <1>1, <1>4, <1>5, <1>6

\* A finished snapshot of moving counters is off by no more than the items that moved
\* meanwhile, field by field and whoever counts what, and a percentile of an undisturbed
\* histogram has its bucket (latency.rs:180).
THEOREM SnapshotsStayClose == CountersSpec => []SnapshotsAreClose
  BY SnapshotsClose, CountersInvariance, PTL

---------------------------------------------------------------------------
(* The least and the largest of a sequence                                *)

LEMMA SetOf ==
  ASSUME NEW s \in Seq(Int)
  PROVE  ToSet(s) = {s[i] : i \in 1..Len(s)} /\ (s # <<>> => ToSet(s) # {})
<1>1. DOMAIN s = 1..Len(s)
  OBVIOUS
<1>2. ToSet(s) = {s[i] : i \in 1..Len(s)}
  BY <1>1 DEF ToSet
<1>3. s # <<>> => 1 \in 1..Len(s)
  OBVIOUS
<1> QED
  BY <1>2, <1>3

LEMMA LeastIs ==
  ASSUME NEW s \in Seq(Int), s # <<>>
  PROVE  Min(ToSet(s)) \in ToSet(s) /\ \A i \in 1..Len(s) : Min(ToSet(s)) <= s[i]
<1>1. PICK i \in 1..Len(s) : \A k \in 1..Len(s) : s[i] <= s[k]
  BY ExtremesOccur
<1>2. s[i] \in ToSet(s) /\ \A y \in ToSet(s) : s[i] <= y
  BY <1>1, SetOf
<1>3. Min(ToSet(s)) \in ToSet(s) /\ \A y \in ToSet(s) : Min(ToSet(s)) <= y
  BY <1>2 DEF Min
<1> QED
  BY <1>3, SetOf

LEMMA LargestIs ==
  ASSUME NEW s \in Seq(Int), s # <<>>
  PROVE  Max(ToSet(s)) \in ToSet(s) /\ \A i \in 1..Len(s) : s[i] <= Max(ToSet(s))
<1>1. PICK i \in 1..Len(s) : \A k \in 1..Len(s) : s[k] <= s[i]
  BY ExtremesOccur
<1>2. s[i] \in ToSet(s) /\ \A y \in ToSet(s) : s[i] >= y
  BY <1>1, SetOf
<1>3. Max(ToSet(s)) \in ToSet(s) /\ \A y \in ToSet(s) : Max(ToSet(s)) >= y
  BY <1>2 DEF Max
<1>4. \A y \in ToSet(s) : y \in Int
  BY SetOf
<1> QED
  BY <1>3, <1>4, SetOf

\* A fold from 0 does not change the largest of naturals.
LEMMA LargestFromZero ==
  ASSUME NEW s \in Seq(Nat), s # <<>>
  PROVE  Max({0} \union ToSet(s)) = Max(ToSet(s))
<1>0. s \in Seq(Int) /\ \A i \in 1..Len(s) : s[i] \in Nat
  OBVIOUS
<1>1. PICK m : m = Max(ToSet(s))
  OBVIOUS
<1>2. m \in ToSet(s) /\ \A y \in ToSet(s) : y \in Nat /\ y <= m
  BY <1>0, <1>1, LargestIs, SetOf
<1>3. m \in {0} \union ToSet(s) /\ \A y \in {0} \union ToSet(s) : m >= y
  BY <1>2
<1>4. PICK n : n = Max({0} \union ToSet(s))
  OBVIOUS
<1>5. n \in {0} \union ToSet(s) /\ \A y \in {0} \union ToSet(s) : n >= y
  BY <1>3, <1>4 DEF Max
<1>6. n \in Nat /\ m \in Nat /\ n >= m /\ m >= n
  BY <1>2, <1>3, <1>5
<1> QED
  BY <1>1, <1>4, <1>6

---------------------------------------------------------------------------
(* LatencyStats: powers of two, and the buckets that they make             *)

LEMMA Pow2Is == /\ \A k \in 0..30 : Pow2[k] \in Nat \ {0}
                /\ Pow2[0] = 1
                /\ \A k \in 1..30 : Pow2[k] = 2 * Pow2[k - 1]
<1> DEFINE T == {k \in 0..30 : \E P \in [0..k -> Nat \ {0}] :
                                 P[0] = 1 /\ \A i \in 1..k : P[i] = 2 * P[i - 1]}
<1>1. 0 \in T
  <2> DEFINE Z == [i \in 0..0 |-> 1]
  <2>1. Z \in [0..0 -> Nat \ {0}] /\ Z[0] = 1 /\ \A i \in 1..0 : Z[i] = 2 * Z[i - 1]
    OBVIOUS
  <2> HIDE DEF Z
  <2> QED
    BY <2>1
<1>2. ASSUME NEW k \in 0..30 - 1, k \in T
      PROVE  k + 1 \in T
  <2>1. PICK P \in [0..k -> Nat \ {0}] : P[0] = 1 /\ \A i \in 1..k : P[i] = 2 * P[i - 1]
    BY <1>2
  <2> DEFINE Q == [i \in 0..k + 1 |-> IF i <= k THEN P[i] ELSE 2 * P[k]]
  <2>2. k \in Nat /\ k + 1 \in 0..30
    OBVIOUS
  <2>3. P[k] \in Nat \ {0} /\ 2 * P[k] \in Nat \ {0} /\ \A i \in 0..k : P[i] \in Nat \ {0}
    BY <2>1, <2>2, SMTT(20)
  <2>4. Q \in [0..k + 1 -> Nat \ {0}]
    BY <2>2, <2>3
  <2>5. Q[0] = 1
    BY <2>1, <2>2
  <2>6. ASSUME NEW i \in 1..k + 1
        PROVE  Q[i] = 2 * Q[i - 1]
    <3>1. CASE i = k + 1
      BY <2>2, <3>1
    <3>2. CASE i <= k
      BY <2>1, <2>2, <3>2
    <3> QED
      BY <2>2, <3>1, <3>2
  <2> HIDE DEF Q
  <2> QED
    BY <2>2, <2>4, <2>5, <2>6
<1>3. 30 \in T
  <2> HIDE DEF T
  <2> QED
    BY <1>1, <1>2, UpTo
<1>4. PICK P \in [0..30 -> Nat \ {0}] : P[0] = 1 /\ \A i \in 1..30 : P[i] = 2 * P[i - 1]
  BY <1>3
<1>5. P = [k \in 0..30 |-> IF k = 0 THEN 1 ELSE 2 * P[k - 1]]
  BY <1>4
<1>6. Pow2 = [k \in 0..30 |-> IF k = 0 THEN 1 ELSE 2 * Pow2[k - 1]]
  BY <1>5 DEF Pow2
<1>7. \A k \in 0..30 : Pow2[k] = IF k = 0 THEN 1 ELSE 2 * Pow2[k - 1]
  BY <1>6
<1>8. Pow2[0] = 1 /\ \A k \in 1..30 : Pow2[k] = 2 * Pow2[k - 1]
  BY <1>7
<1>9. ASSUME NEW n \in 0..30
      PROVE  Pow2[n] \in Nat \ {0}
  <2> DEFINE U == {k \in 0..30 : Pow2[k] \in Nat \ {0}}
  <2>1. 0 \in U
    BY <1>8
  <2>2. ASSUME NEW k \in 0..30 - 1, k \in U
        PROVE  k + 1 \in U
    <3>1. k + 1 \in 1..30 /\ (k + 1) - 1 = k /\ k + 1 \in 0..30
      OBVIOUS
    <3>2. Pow2[k + 1] = 2 * Pow2[k]
      BY <1>8, <3>1
    <3> QED
      BY <2>2, <3>1, <3>2
  <2>3. 0..30 \subseteq U
    <3> HIDE DEF U
    <3> QED
      BY <2>1, <2>2, UpTo
  <2> QED
    BY <2>3
<1> QED
  BY <1>8, <1>9

LEMMA Pow2At == Pow2[20] = 1048576 /\ 2 * Pow2[30] > U64Max
<1>1. Pow2[1] = 2 /\ Pow2[2] = 4 /\ Pow2[3] = 8 /\ Pow2[4] = 16 /\ Pow2[5] = 32
  BY Pow2Is
<1>2. Pow2[6] = 64 /\ Pow2[7] = 128 /\ Pow2[8] = 256 /\ Pow2[9] = 512 /\ Pow2[10] = 1024
  BY Pow2Is, <1>1
<1>3. Pow2[11] = 2048 /\ Pow2[12] = 4096 /\ Pow2[13] = 8192 /\ Pow2[14] = 16384 /\ Pow2[15] = 32768
  BY Pow2Is, <1>2
<1>4. /\ Pow2[16] = 65536 /\ Pow2[17] = 131072 /\ Pow2[18] = 262144 /\ Pow2[19] = 524288
      /\ Pow2[20] = 1048576
  BY Pow2Is, <1>3
<1>5. /\ Pow2[21] = 2097152 /\ Pow2[22] = 4194304 /\ Pow2[23] = 8388608 /\ Pow2[24] = 16777216
      /\ Pow2[25] = 33554432
  BY Pow2Is, <1>4
<1>6. /\ Pow2[26] = 67108864 /\ Pow2[27] = 134217728 /\ Pow2[28] = 268435456
      /\ Pow2[29] = 536870912 /\ Pow2[30] = 1073741824
  BY Pow2Is, <1>5
<1> QED
  BY <1>4, <1>6 DEF U64Max

LEMMA Pow2Grows ==
  ASSUME NEW i \in 0..30, NEW j \in 0..30, i <= j
  PROVE  Pow2[i] <= Pow2[j]
<1> DEFINE T == {k \in 0..30 : i + k <= 30 => Pow2[i] <= Pow2[i + k]}
<1>1. 0 \in T
  BY Pow2Is
<1>2. ASSUME NEW k \in 0..30 - 1, k \in T
      PROVE  k + 1 \in T
  <2>1. SUFFICES ASSUME i + (k + 1) <= 30
                 PROVE  Pow2[i] <= Pow2[i + (k + 1)]
    OBVIOUS
  <2>2. i + (k + 1) \in 1..30 /\ (i + (k + 1)) - 1 = i + k /\ i + k \in 0..30
    BY <2>1
  <2>3. Pow2[i + (k + 1)] = 2 * Pow2[i + k]
    BY <2>2, Pow2Is
  <2>4. Pow2[i] <= Pow2[i + k]
    BY <1>2, <2>2
  <2>5. Pow2[i] \in Nat /\ Pow2[i + k] \in Nat
    BY <2>2, Pow2Is
  <2> QED
    BY <2>3, <2>4, <2>5
<1>3. 0..30 \subseteq T
  <2> HIDE DEF T
  <2> QED
    BY <1>1, <1>2, UpTo
<1>4. j - i \in 0..30 /\ i + (j - i) = j
  OBVIOUS
<1>5. j - i \in T
  BY <1>3, <1>4
<1> QED
  BY <1>4, <1>5

LEMMA U64MaxIs == U64Max \in Nat /\ U64Max > 0
  BY SMT DEF U64Max

LEMMA Log2Is ==
  ASSUME NEW x \in 1..U64Max - 1
  PROVE  Log2(x) \in 0..30 /\ Pow2[Log2(x)] <= x /\ x < 2 * Pow2[Log2(x)]
<1> DEFINE T == {k \in 0..30 : x < 2 * Pow2[k]}
<1>1. x \in Nat /\ x > 0 /\ x < U64Max /\ U64Max \in Nat
  BY U64MaxIs
<1>2. 30 \in T
  BY <1>1, Pow2At, Pow2Is
<1>3. PICK m \in T : \A n \in T : m <= n
  <2>1. T \subseteq Nat /\ T # {}
    BY <1>2
  <2> HIDE DEF T
  <2> QED
    BY <2>1, LeastOf
<1>4. Pow2[m] <= x
  <2>1. CASE m = 0
    BY <1>1, <2>1, Pow2Is
  <2>2. CASE m # 0
    <3>1. m \in 1..30 /\ m - 1 \in 0..30 /\ ~(m <= m - 1)
      BY <1>3, <2>2
    <3>2. m - 1 \notin T
      BY <1>3, <3>1
    <3>3. ~(x < 2 * Pow2[m - 1])
      BY <3>1, <3>2
    <3>4. Pow2[m] = 2 * Pow2[m - 1] /\ Pow2[m - 1] \in Nat
      BY <3>1, Pow2Is
    <3> QED
      BY <1>1, <3>3, <3>4
  <2> QED
    BY <2>1, <2>2
<1>5. \A k \in 0..30 : (x \div 2 < Pow2[k]) <=> (x < 2 * Pow2[k])
  <2>1. ASSUME NEW p \in Nat PROVE (x \div 2 < p) <=> (x < 2 * p)
    BY <1>1
  <2> QED
    BY <2>1, Pow2Is
<1>6. \E k \in 0..30 : Pow2[k] <= x /\ x \div 2 < Pow2[k]
  BY <1>3, <1>4, <1>5
<1>7. Log2(x) \in 0..30 /\ Pow2[Log2(x)] <= x /\ x \div 2 < Pow2[Log2(x)]
  BY <1>6 DEF Log2
<1> QED
  BY <1>5, <1>7

LEMMA Log2Grows ==
  ASSUME NEW x \in 1..U64Max - 1, NEW y \in 1..U64Max - 1, x <= y
  PROVE  Log2(x) <= Log2(y)
<1>1. PICK i \in 0..30, j \in 0..30 : i = Log2(x) /\ j = Log2(y)
  BY Log2Is
<1>2. Pow2[i] <= x /\ y < 2 * Pow2[j] /\ Pow2[i] \in Nat /\ Pow2[j] \in Nat
  BY <1>1, Log2Is, Pow2Is
<1>3. x \in Int /\ y \in Int
  BY U64MaxIs
<1>4. ASSUME i > j
      PROVE  FALSE
  <2>1. j + 1 \in 1..30 /\ (j + 1) - 1 = j /\ j + 1 \in 0..30 /\ j + 1 <= i
    BY <1>4
  <2>2. Pow2[j + 1] = 2 * Pow2[j] /\ Pow2[j + 1] <= Pow2[i]
    BY <2>1, Pow2Is, Pow2Grows
  <2> QED
    BY <1>2, <1>3, <2>2
<1> QED
  BY <1>1, <1>4

Latencies == 0..U64Max - 1

LEMMA LatencyIs == \A x \in Latencies : /\ x \in Nat
                                        /\ x > 0 => x \in 1..U64Max - 1
  BY U64MaxIs DEF Latencies

LEMMA LesserOf ==
  ASSUME NEW a \in Int, NEW b \in Int
  PROVE  Min({a, b}) = IF a <= b THEN a ELSE b
<1>1. PICK m \in {a, b} : m = (IF a <= b THEN a ELSE b) /\ \A y \in {a, b} : m <= y
  OBVIOUS
<1>2. \A x \in {a, b} : (\A y \in {a, b} : x <= y) => x = m
  BY <1>1
<1> QED
  BY <1>1, <1>2 DEF Min

LEMMA BucketIs ==
  ASSUME NEW x \in Latencies
  PROVE  /\ BucketFor(x) \in 0..NumBuckets - 1
         /\ x = 0 => BucketFor(x) = 0
         /\ x > 0 => BucketFor(x) = IF (Log2(x) * 10) \div 3 <= 63 THEN (Log2(x) * 10) \div 3 ELSE 63
<1>1. CASE x = 0
  BY <1>1 DEF BucketFor, NumBuckets
<1>2. CASE x > 0
  <2>1. x \in 1..U64Max - 1
    BY <1>2, LatencyIs
  <2>2. PICK a \in Nat : a = (Log2(x) * 10) \div 3
    <3>1. \A k \in 0..30 : (k * 10) \div 3 \in Nat
      OBVIOUS
    <3> QED
      BY <2>1, <3>1, Log2Is
  <2>3. BucketFor(x) = Min({a, NumBuckets - 1})
    BY <1>2, <2>2 DEF BucketFor
  <2>4. NumBuckets - 1 = 63
    BY DEF NumBuckets
  <2>5. BucketFor(x) = IF a <= 63 THEN a ELSE 63
    BY <2>3, <2>4, LesserOf
  <2> QED
    <3>1. BucketFor(x) \in 0..63
      BY <2>2, <2>5
    <3> QED
      BY <1>2, <2>2, <2>4, <2>5, <3>1
<1> QED
  BY <1>1, <1>2, LatencyIs

\* A longer latency is in no earlier bucket.
LEMMA BucketGrows ==
  ASSUME NEW x \in Latencies, NEW y \in Latencies, x <= y
  PROVE  BucketFor(x) <= BucketFor(y)
<1>0. x \in Nat /\ y \in Nat
  BY LatencyIs
<1>1. CASE x = 0
  <2>1. BucketFor(x) = 0 /\ BucketFor(y) \in 0..63
    BY <1>1, BucketIs DEF NumBuckets
  <2> QED
    BY <2>1
<1>2. CASE x > 0
  <2>1. x \in 1..U64Max - 1 /\ y \in 1..U64Max - 1 /\ y > 0
    BY <1>0, <1>2, LatencyIs
  <2>2. PICK i \in 0..30, j \in 0..30 : i = Log2(x) /\ j = Log2(y) /\ i <= j
    BY <2>1, Log2Is, Log2Grows
  <2>3. PICK a \in Nat, b \in Nat : a = (i * 10) \div 3 /\ b = (j * 10) \div 3 /\ a <= b
    <3>1. (i * 10) \div 3 \in Nat /\ (j * 10) \div 3 \in Nat
      OBVIOUS
    <3>2. (i * 10) \div 3 <= (j * 10) \div 3
      BY <2>2
    <3> QED
      BY <3>1, <3>2
  <2>4. BucketFor(x) = (IF a <= 63 THEN a ELSE 63) /\ BucketFor(y) = (IF b <= 63 THEN b ELSE 63)
    BY <1>2, <2>1, <2>2, <2>3, BucketIs
  <2> QED
    BY <2>3, <2>4
<1> QED
  BY <1>0, <1>1, <1>2

\* What a bucket says of a latency in it: no more than the latency, and up to the last
\* bucket more than a quarter of it.
LEMMA BucketTells ==
  ASSUME NEW x \in Latencies
  PROVE  /\ LatencyForBucket(BucketFor(x)) \in Nat
         /\ LatencyForBucket(BucketFor(x)) <= x
         /\ x < 1048576 => x < 4 * LatencyForBucket(BucketFor(x)) + 4
<1>0. x \in Nat
  BY LatencyIs
<1>1. CASE x = 0
  <2>1. LatencyForBucket(BucketFor(x)) = 0
    BY <1>1, BucketIs DEF LatencyForBucket
  <2> QED
    BY <1>1, <2>1
<1>2. CASE x > 0
  <2>1. x \in 1..U64Max - 1
    BY <1>0, <1>2, LatencyIs
  <2>2. PICK k \in 0..30 : k = Log2(x) /\ Pow2[k] <= x /\ x < 2 * Pow2[k]
    BY <2>1, Log2Is
  <2>3. PICK b \in Nat : b = BucketFor(x) /\ b = IF (k * 10) \div 3 <= 63 THEN (k * 10) \div 3 ELSE 63
    <3>1. BucketFor(x) \in Nat
      BY BucketIs DEF NumBuckets
    <3> QED
      BY <1>2, <2>2, <3>1, BucketIs
  <2>4. CASE k = 0
    <3>1. b = 0 /\ x = 1
      BY <1>0, <1>2, <2>2, <2>3, <2>4, Pow2Is
    <3>2. LatencyForBucket(BucketFor(x)) = 0
      BY <2>3, <3>1 DEF LatencyForBucket
    <3> QED
      BY <3>1, <3>2
  <2>5. CASE k > 0
    <3>1. PICK m : m = (b * 3) \div 10
      OBVIOUS
    <3>2. b # 0 /\ m \in 0..30 /\ m <= k /\ (k <= 19 => k - 1 <= m)
      <4>1. PICK a \in Nat : a = (k * 10) \div 3
        OBVIOUS
      <4>2. a >= 3 /\ 3 * a <= 10 * k /\ 10 * k <= 3 * a + 2
        BY <2>5, <4>1
      <4>3. b <= a /\ b >= 3 /\ (k <= 19 => b = a)
        BY <2>3, <4>1, <4>2
      <4>4. m \in Nat /\ 10 * m <= 3 * b /\ 3 * b <= 10 * m + 9
        BY <3>1
      <4>5. m <= k /\ (k <= 19 => k - 1 <= m)
        BY <4>2, <4>3, <4>4
      <4> QED
        BY <4>3, <4>4, <4>5
    <3>3. LatencyForBucket(BucketFor(x)) = Pow2[m]
      BY <2>3, <3>1, <3>2 DEF LatencyForBucket
    <3>4. Pow2[m] <= Pow2[k] /\ Pow2[m] \in Nat /\ Pow2[k] \in Nat
      BY <3>2, Pow2Grows, Pow2Is
    <3>5. ASSUME x < 1048576
          PROVE  x < 4 * Pow2[m] + 4
      <4>1. k <= 19
        <5>1. ~(20 <= k) \/ Pow2[20] <= Pow2[k]
          BY Pow2Grows
        <5> QED
          BY <1>0, <2>2, <3>4, <3>5, <5>1, Pow2At
      <4>2. k - 1 \in 0..30 /\ k \in 1..30 /\ k - 1 <= m
        BY <2>5, <3>2, <4>1
      <4>3. Pow2[k] = 2 * Pow2[k - 1] /\ Pow2[k - 1] <= Pow2[m] /\ Pow2[k - 1] \in Nat
        BY <3>2, <4>2, Pow2Is, Pow2Grows
      <4> QED
        BY <1>0, <2>2, <3>4, <4>3
    <3> QED
      BY <1>0, <2>2, <3>3, <3>4, <3>5
  <2> QED
    BY <2>4, <2>5
<1> QED
  BY <1>0, <1>1, <1>2

LEMMA MinIs ==
  ASSUME NEW T, T \subseteq Nat, T # {}
  PROVE  Min(T) \in T /\ \A y \in T : Min(T) <= y
<1>1. PICK m \in T : \A y \in T : m <= y
  BY LeastOf
<1> QED
  BY <1>1 DEF Min

LEMMA LargestOf ==
  ASSUME NEW n \in Nat, NEW T, T \subseteq 0..n, T # {}
  PROVE  \E m \in T : \A y \in T : y <= m
<1>1. {n - x : x \in T} \subseteq Nat /\ {n - x : x \in T} # {}
  <2>1. \A x \in T : x \in Nat /\ n - x \in Nat
    OBVIOUS
  <2> QED
    BY <2>1
<1>2. PICK d \in {n - x : x \in T} : \A e \in {n - x : x \in T} : d <= e
  BY <1>1, LeastOf
<1>3. PICK m \in T : d = n - m
  BY <1>2
<1>4. ASSUME NEW y \in T
      PROVE  y <= m
  <2>1. n - m <= n - y
    BY <1>2, <1>3
  <2> QED
    BY <2>1
<1> QED
  BY <1>4

\* What the loop over the buckets has added up before bucket n are the latencies in
\* earlier ones.
LEMMA Cumulative ==
  ASSUME NEW s \in Seq(Latencies), NEW c \in Seq(Int), Len(c) = NumBuckets,
         \A b \in 0..NumBuckets - 1 : c[b + 1] = Cardinality({i \in 1..Len(s) : BucketFor(s[i]) = b}),
         NEW n \in 0..NumBuckets
  PROVE  RunningSum(c)[n] = Cardinality({i \in 1..Len(s) : BucketFor(s[i]) < n})
<1> DEFINE Cell(b) == {i \in 1..Len(s) : BucketFor(s[i]) = b}
           Before(b) == {i \in 1..Len(s) : BucketFor(s[i]) < b}
           U == {k \in 0..NumBuckets : RunningSum(c)[k] = Cardinality(Before(k))}
<1>0. /\ NumBuckets \in Nat /\ Len(s) \in Nat /\ IsFiniteSet(1..Len(s))
      /\ \A i \in 1..Len(s) : BucketFor(s[i]) \in Nat
  <2>1. Len(s) \in Nat /\ \A i \in 1..Len(s) : s[i] \in Latencies
    BY SeqTypes
  <2>2. IsFiniteSet(1..Len(s))
    BY <2>1, FS_Interval
  <2>3. NumBuckets \in Nat /\ \A b \in 0..NumBuckets - 1 : b \in Nat
    BY DEF NumBuckets
  <2> QED
    BY <2>1, <2>2, <2>3, BucketIs
<1>1. 0 \in U
  <2>1. Before(0) = {}
    BY <1>0
  <2>2. RunningSum(c)[0] = 0 /\ Cardinality({}) = 0 /\ 0 \in 0..NumBuckets
    BY <1>0, RunningSumIs, FS_EmptySet
  <2> QED
    BY <2>1, <2>2
<1>2. ASSUME NEW k \in 0..NumBuckets - 1, k \in U
      PROVE  k + 1 \in U
  <2>1. /\ k + 1 \in 1..Len(c) /\ (k + 1) - 1 = k /\ k + 1 \in 0..NumBuckets
    BY <1>0
  <2>2. RunningSum(c)[k + 1] = RunningSum(c)[k] + c[k + 1]
    BY <2>1, RunningSumIs
  <2>3. Before(k + 1) = Before(k) \union Cell(k) /\ Before(k) \intersect Cell(k) = {}
    BY <1>0
  <2>4. IsFiniteSet(Before(k)) /\ IsFiniteSet(Cell(k))
    BY <1>0, FS_Subset
  <2>5. c[k + 1] = Cardinality(Cell(k))
    OBVIOUS
  <2>6. RunningSum(c)[k] = Cardinality(Before(k))
    BY <1>2
  <2> HIDE DEF Cell, Before
  <2>7. Cardinality(Before(k + 1)) = Cardinality(Before(k)) + Cardinality(Cell(k))
    <3>1. Cardinality(Before(k) \union Cell(k)) = Cardinality(Before(k)) + Cardinality(Cell(k)) - Cardinality({})
      BY <2>3, <2>4, FS_Union
    <3>2. Cardinality(Before(k)) \in Nat /\ Cardinality(Cell(k)) \in Nat /\ Cardinality({}) = 0
      BY <2>4, FS_CardinalityType, FS_EmptySet
    <3>3. Cardinality(Before(k) \union Cell(k)) = Cardinality(Before(k)) + Cardinality(Cell(k))
      BY <3>1, <3>2
    <3> QED
      BY <2>3, <3>3
  <2>8. RunningSum(c)[k + 1] = Cardinality(Before(k + 1))
    BY <2>2, <2>5, <2>6, <2>7
  <2> QED
    BY <2>1, <2>8
<1>3. 0..NumBuckets \subseteq U
  <2> HIDE DEF U
  <2> QED
    BY <1>0, <1>1, <1>2, UpTo
<1> QED
  BY <1>3

\* The bucket at which percentile stops is the one of the latency with that rank.
LEMMA PercentileIs ==
  ASSUME NEW s \in Seq(Latencies), NEW c \in Seq(Int), Len(c) = NumBuckets,
         \A b \in 0..NumBuckets - 1 : c[b + 1] = Cardinality({i \in 1..Len(s) : BucketFor(s[i]) = b}),
         NEW k \in 1..Len(s), NEW r,
         r = Min({x \in ToSet(s) : Cardinality({i \in 1..Len(s) : s[i] <= x}) >= k})
  PROVE  /\ r \in Latencies
         /\ Min({NumBuckets - 1} \union {b \in 0..NumBuckets - 1 : RunningSum(c)[b + 1] >= k}) = BucketFor(r)
<1> DEFINE Up(x) == {i \in 1..Len(s) : s[i] <= x}
           Before(b) == {i \in 1..Len(s) : BucketFor(s[i]) < b}
           R == {x \in ToSet(s) : Cardinality(Up(x)) >= k}
           W == {NumBuckets - 1} \union {b \in 0..NumBuckets - 1 : RunningSum(c)[b + 1] >= k}
<1>0. /\ Len(s) \in Nat /\ s # <<>> /\ s \in Seq(Int) /\ NumBuckets \in Nat /\ NumBuckets > 0
      /\ \A i \in 1..Len(s) : s[i] \in Latencies /\ s[i] \in Nat /\ BucketFor(s[i]) \in Nat
  <2>1. Len(s) \in Nat /\ \A i \in 1..Len(s) : s[i] \in Latencies
    BY SeqTypes
  <2>2. Latencies \subseteq Nat /\ Latencies \subseteq Int
    BY LatencyIs
  <2>3. s # <<>> /\ s \in Seq(Int)
    <3>1. s # <<>>
      BY <2>1
    <3> QED
      BY <2>2, <3>1, SeqTypes
  <2>4. NumBuckets \in Nat /\ NumBuckets > 0 /\ \A b \in 0..NumBuckets - 1 : b \in Nat
    BY DEF NumBuckets
  <2>5. \A i \in 1..Len(s) : s[i] \in Nat /\ BucketFor(s[i]) \in Nat
    BY <2>1, <2>2, <2>4, BucketIs
  <2> QED
    BY <2>1, <2>3, <2>4, <2>5
<1>1. \A D : D \subseteq 1..Len(s) => IsFiniteSet(D) /\ Cardinality(D) \in Nat
  <2>1. IsFiniteSet(1..Len(s))
    BY <1>0, FS_Interval
  <2> QED
    BY <2>1, FS_Subset, FS_CardinalityType
<1>2. ToSet(s) = {s[i] : i \in 1..Len(s)} /\ ToSet(s) \subseteq Nat
  <2>1. ToSet(s) = {s[i] : i \in 1..Len(s)}
    BY <1>0, SetOf
  <2> QED
    BY <1>0, <2>1
<1>3. r \in R /\ \A x \in R : r <= x
  <2>1. PICK m : m = Max(ToSet(s))
    OBVIOUS
  <2>2. m \in ToSet(s) /\ \A i \in 1..Len(s) : s[i] <= m
    BY <1>0, <2>1, LargestIs
  <2>3. Up(m) = 1..Len(s)
    BY <2>2
  <2>4. Cardinality(Up(m)) = Len(s)
    <3>1. PICK n \in Nat : n = Len(s) /\ n >= 1
      BY <1>0
    <3>2. Cardinality(1..n) = IF 1 > n THEN 0 ELSE n - 1 + 1
      BY <3>1, FS_Interval
    <3>3. Cardinality(1..n) = n
      BY <3>1, <3>2
    <3> QED
      BY <2>3, <3>1, <3>3
  <2>5. m \in R
    <3>1. Cardinality(Up(m)) >= k
      <4> HIDE DEF Up
      <4> QED
        BY <1>0, <2>4
    <3> QED
      BY <2>2, <3>1
  <2>6. R \subseteq Nat
    BY <1>2
  <2>7. r = Min(R)
    OBVIOUS
  <2> HIDE DEF R
  <2> QED
    BY <2>5, <2>6, <2>7, MinIs
<1>4. r \in Latencies /\ r \in Nat /\ Cardinality(Up(r)) >= k
  BY <1>0, <1>2, <1>3
<1>5. \A b \in 0..NumBuckets - 1 : RunningSum(c)[b + 1] = Cardinality(Before(b + 1))
  <2>1. \A b \in 0..NumBuckets - 1 : b + 1 \in 0..NumBuckets
    BY <1>0
  <2> QED
    BY <2>1, Cumulative
<1>6. PICK B : B = BucketFor(r)
  OBVIOUS
<1>7. B \in 0..NumBuckets - 1
  BY <1>4, <1>6, BucketIs
<1>8. B \in W
  <2>1. Up(r) \subseteq Before(B + 1)
    <3>1. ASSUME NEW i \in Up(r)
          PROVE  i \in Before(B + 1)
      <4>1. s[i] \in Latencies /\ s[i] <= r
        BY <1>0
      <4>2. BucketFor(s[i]) <= B
        BY <1>4, <1>6, <4>1, BucketGrows
      <4> QED
        BY <1>0, <1>7, <4>2
    <3> QED
      BY <3>1
  <2>2. Cardinality(Up(r)) <= Cardinality(Before(B + 1)) /\ Cardinality(Up(r)) \in Nat
        /\ Cardinality(Before(B + 1)) \in Nat
    <3>1. IsFiniteSet(Before(B + 1))
      BY <1>1
    <3> HIDE DEF Up, Before
    <3> QED
      BY <2>1, <3>1, FS_Subset, FS_CardinalityType
  <2>3. Cardinality(Before(B + 1)) >= k
    BY <1>4, <2>2
  <2> HIDE DEF Before
  <2> QED
    BY <1>5, <1>7, <2>3
<1>9. ASSUME NEW b \in W
      PROVE  B <= b
  <2>1. CASE b = NumBuckets - 1
    BY <1>0, <1>7, <2>1
  <2>2. CASE b \in 0..NumBuckets - 1 /\ RunningSum(c)[b + 1] >= k
    <3>1. SUFFICES ASSUME b < B
                   PROVE  FALSE
      BY <1>0, <1>7, <2>2
    <3>2. Cardinality(Before(b + 1)) >= k
      BY <1>5, <2>2
    <3>3. Before(b + 1) # {}
      <4>1. Cardinality({}) = 0 /\ ~(0 >= k)
        BY FS_EmptySet
      <4> QED
        BY <3>2, <4>1
    <3> DEFINE V == {s[i] : i \in Before(b + 1)}
    <3>4. V \subseteq Latencies /\ V # {}
      <4>1. \A i \in Before(b + 1) : s[i] \in Latencies
        BY <1>0
      <4> HIDE DEF Before
      <4> QED
        BY <3>3, <4>1
    <3>5. PICK x \in V : \A y \in V : y <= x
      <4>1. PICK n \in Nat : Latencies = 0..n
        BY U64MaxIs DEF Latencies
      <4> HIDE DEF V
      <4> QED
        BY <3>4, <4>1, LargestOf
    <3>6. x \in ToSet(s) /\ x \in Latencies /\ x \in Nat /\ BucketFor(x) < b + 1
      BY <1>0, <1>2, <3>5
    <3>7. Before(b + 1) \subseteq Up(x)
      BY <3>5
    <3>8. Cardinality(Before(b + 1)) <= Cardinality(Up(x)) /\ Cardinality(Up(x)) \in Nat
          /\ Cardinality(Before(b + 1)) \in Nat
      <4>1. IsFiniteSet(Up(x))
        BY <1>1
      <4> HIDE DEF Up, Before
      <4> QED
        BY <3>7, <4>1, FS_Subset, FS_CardinalityType
    <3>9. x \in R
      BY <3>2, <3>6, <3>8
    <3>10. r <= x
      BY <1>3, <3>9
    <3>11. B <= BucketFor(x)
      BY <1>4, <1>6, <3>6, <3>10, BucketGrows
    <3>12. BucketFor(x) \in Nat
      <4>1. \A d \in 0..NumBuckets - 1 : d \in Nat
        BY <1>0
      <4> QED
        BY <3>6, <4>1, BucketIs
    <3> QED
      BY <1>7, <2>2, <3>1, <3>6, <3>11, <3>12
  <2> QED
    BY <2>1, <2>2
<1>10. Min(W) = B
  <2>1. W \subseteq Nat
    BY <1>0
  <2> HIDE DEF W
  <2>2. Min(W) \in W /\ Min(W) <= B
    BY <1>8, <2>1, MinIs
  <2>3. B <= Min(W)
    BY <1>9, <2>2
  <2>4. B \in Nat /\ Min(W) \in Nat
    BY <1>8, <2>1, <2>2
  <2> QED
    BY <2>2, <2>3, <2>4
<1> QED
  BY <1>4, <1>6, <1>10

---------------------------------------------------------------------------
(* Welford's algorithm is exact when nobody else records                   *)

LEMMA Cancel ==
  ASSUME NEW n \in Nat, n > 0, NEW a \in Int, NEW b \in Int, n * a = n * b
  PROVE  a = b
<1>1. PICK d \in Int : d = a - b
  OBVIOUS
<1>2. n * d = 0
  <2>1. n * (a - b) = n * a - n * b
    OBVIOUS
  <2>2. n * a \in Int
    OBVIOUS
  <2> QED
    BY <1>1, <2>1, <2>2
<1>3. d = 0
  BY <1>2
<1> QED
  BY <1>1, <1>3

LEMMA DividesExactly ==
  ASSUME NEW d \in Nat, d > 0, NEW q \in Int
  PROVE  (d * q) \div d = q
<1>1. PICK a \in Int : a = d * q
  OBVIOUS
<1>2. PICK k \in Int : k = a \div d
  OBVIOUS
<1>3. PICK r \in Int : a = d * k + r /\ 0 <= r /\ r < d
  <2>1. d * k \in Int
    OBVIOUS
  <2>2. d * k <= a /\ a < d * k + d
    BY <1>2
  <2>3. a = d * k + (a - d * k) /\ 0 <= a - d * k /\ a - d * k < d /\ a - d * k \in Int
    BY <2>1, <2>2
  <2> QED
    BY <2>3
<1>4. PICK e \in Int : e = q - k
  OBVIOUS
<1>5. d * e = r
  <2>1. d * (q - k) = d * q - d * k
    OBVIOUS
  <2>2. d * k \in Int
    OBVIOUS
  <2> QED
    BY <1>1, <1>3, <1>4, <2>1, <2>2
<1>6. ~(e >= 1) /\ ~(e <= 0 - 1)
  <2>1. ASSUME e >= 1 PROVE d * e >= d
    BY <2>1
  <2>2. ASSUME e <= 0 - 1 PROVE d * e < 0
    BY <2>2
  <2> QED
    BY <1>3, <1>5, <2>1, <2>2
<1> QED
  BY <1>1, <1>2, <1>4, <1>6

\* A number that two neighbours divide, one of them multiplied by it.
LEMMA BothDivide ==
  ASSUME NEW n \in Nat, n > 0, NEW c \in Nat, c % n = 0, c % (n + 1) = 0
  PROVE  \E e \in Int : c = n * ((n + 1) * e)
<1>1. PICK a \in Nat : c = n * a
  <2>1. c = n * (c \div n) + (c % n) /\ c \div n \in Int /\ c \div n >= 0
    OBVIOUS
  <2>2. PICK k \in Nat : k = c \div n
    BY <2>1
  <2>3. c = n * k + 0
    BY <2>1, <2>2
  <2>4. n * k \in Int
    OBVIOUS
  <2> QED
    BY <2>3, <2>4
<1>2. PICK b \in Nat : c = (n + 1) * b
  <2>0. PICK m \in Nat : m = n + 1 /\ m > 0
    OBVIOUS
  <2>5. c % m = 0
    BY <2>0
  <2>1. c = m * (c \div m) + (c % m) /\ c \div m \in Int /\ c \div m >= 0
    BY <2>0
  <2>2. PICK k \in Nat : k = c \div m
    BY <2>1
  <2>3. c = m * k + 0
    BY <2>1, <2>2, <2>5
  <2>4. m * k \in Int
    OBVIOUS
  <2> QED
    BY <2>0, <2>3, <2>4
<1>3. PICK e \in Int : e = a - b
  OBVIOUS
<1>4. b = n * e
  <2>1. n * a = n * b + b
    BY <1>1, <1>2
  <2>2. n * e = n * a - n * b
    BY <1>3
  <2>3. n * b \in Int /\ n * a \in Int
    OBVIOUS
  <2> QED
    BY <2>1, <2>2, <2>3
<1>5. (n + 1) * b = n * ((n + 1) * e)
  BY <1>4
<1> QED
  BY <1>2, <1>5

MeanMoves(n, S, x, c, m, new) ==
  /\ n = 0 => S = 0 /\ m = 0
  /\ m * n = c * S
  /\ n > 0 => c % n = 0
  /\ c % (n + 1) = 0
  /\ new = m + (c * x - m) \div (n + 1)

LEMMA MeanStep ==
  ASSUME NEW n \in Nat, NEW S \in Nat, NEW x \in Nat, NEW c \in Nat, NEW m \in Nat, NEW new,
         MeanMoves(n, S, x, c, m, new)
  PROVE  new \in Int /\ new * (n + 1) = c * (S + x)
<1>0. /\ n = 0 => S = 0 /\ m = 0
      /\ m * n = c * S
      /\ n > 0 => c % n = 0
      /\ c % (n + 1) = 0
      /\ new = m + (c * x - m) \div (n + 1)
  BY DEF MeanMoves
<1>1. PICK q \in Int : c * x - m = (n + 1) * q
  <2>1. CASE n = 0
    <3>1. c * x - m \in Int
      OBVIOUS
    <3>2. c * x - m = (n + 1) * (c * x - m)
      BY <2>1, <3>1
    <3> QED
      BY <3>1, <3>2
  <2>2. CASE n > 0
    <3>1. PICK e \in Int : c = n * ((n + 1) * e)
      <4>1. n > 0 /\ c % n = 0 /\ c % (n + 1) = 0
        BY <1>0, <2>2
      <4> QED
        BY <4>1, BothDivide
    <3>2. m = (n + 1) * (e * S)
      <4>1. n * m = n * ((n + 1) * (e * S))
        <5>1. c * S = n * ((n + 1) * (e * S))
          BY <3>1
        <5>2. m * n = c * S
          BY <1>0
        <5> QED
          BY <5>1, <5>2
      <4>2. (n + 1) * (e * S) \in Int
        OBVIOUS
      <4> QED
        BY <2>2, <4>1, <4>2, Cancel
    <3>3. c * x = (n + 1) * (n * (e * x))
      BY <3>1
    <3>4. PICK g \in Int, h \in Int : g = n * (e * x) /\ h = e * S
      OBVIOUS
    <3>5. c * x - m = (n + 1) * (g - h)
      <4>1. c * x - m = (n + 1) * g - (n + 1) * h
        BY <3>2, <3>3, <3>4
      <4>2. (n + 1) * (g - h) = (n + 1) * g - (n + 1) * h
        OBVIOUS
      <4> QED
        BY <4>1, <4>2
    <3>6. g - h \in Int
      OBVIOUS
    <3> QED
      BY <3>5, <3>6
  <2> QED
    BY <2>1, <2>2
<1>2. new = m + q
  <2>1. PICK d \in Nat : d = n + 1 /\ d > 0
    OBVIOUS
  <2>2. (d * q) \div d = q
    BY <2>1, DividesExactly
  <2> QED
    BY <1>0, <1>1, <2>1, <2>2
<1>3. new * (n + 1) = m * n + m + (n + 1) * q
  BY <1>2
<1>4. PICK p \in Int, r \in Int, t \in Int : p = m * n /\ r = c * x /\ t = (n + 1) * q
  OBVIOUS
<1>5. new * (n + 1) = p + r
  BY <1>1, <1>3, <1>4
<1>6. m * n = c * S
  BY <1>0
<1>7. c * (S + x) = c * S + c * x
  OBVIOUS
<1> QED
  BY <1>2, <1>4, <1>5, <1>6, <1>7

\* The identity behind the sum of squares, with y and T for the scaled sample and sum.
SquaresMove(n, K, T, y, m, m2, new, q) ==
  /\ n = 0 => T = 0 /\ K = 0 /\ m = 0 /\ m2 = 0
  /\ m * n = T
  /\ m2 * n = n * K - T * T
  /\ new * (n + 1) = T + y
  /\ q = (m2 + (y - m) * (y - new)) * (n + 1)

LEMMA SquaresStep ==
  ASSUME NEW n \in Nat, NEW K \in Int, NEW T \in Int, NEW y \in Int, NEW m \in Int, NEW m2 \in Int,
         NEW new \in Int, NEW q, SquaresMove(n, K, T, y, m, m2, new, q)
  PROVE  q = (n + 1) * (K + y * y) - (T + y) * (T + y)
<1>0. /\ n = 0 => T = 0 /\ K = 0 /\ m = 0 /\ m2 = 0
      /\ m * n = T
      /\ m2 * n = n * K - T * T
      /\ new * (n + 1) = T + y
  BY DEF SquaresMove
<1>1. q = (m2 + (y - m) * (y - new)) * (n + 1) /\ q \in Int
  BY DEF SquaresMove
<1>2. q = (n + 1) * m2 + (y - m) * (n * y - T)
  <2>1. q = (n + 1) * m2 + (y - m) * ((n + 1) * y - new * (n + 1))
    BY <1>1
  <2>2. (n + 1) * y - new * (n + 1) = n * y - T
    <3>1. (n + 1) * y = n * y + y /\ n * y \in Int
      OBVIOUS
    <3>2. new * (n + 1) = T + y
      BY <1>0
    <3> QED
      BY <3>1, <3>2
  <2> QED
    BY <2>1, <2>2
<1>3. PICK z \in Int : z = (n + 1) * K - T * T + n * (y * y) - 2 * (y * T)
  OBVIOUS
<1>4. z = (n + 1) * (K + y * y) - (T + y) * (T + y)
  BY <1>3
<1>5. CASE n = 0
  <2>1. new = y /\ T = 0 /\ K = 0 /\ m2 = 0
    BY <1>0, <1>5
  <2>2. q = 0
    BY <1>2, <1>5, <2>1
  <2>3. z = 0
    BY <1>3, <1>5, <2>1
  <2> QED
    BY <1>1, <1>4, <2>2, <2>3
<1>6. CASE n > 0
  <2>1. n * q = (n + 1) * (m2 * n) + (n * y - m * n) * (n * y - T)
    BY <1>2
  <2>2. n * q = (n + 1) * (n * K - T * T) + (n * y - T) * (n * y - T)
    <3>1. m * n = T /\ m2 * n = n * K - T * T
      BY <1>0
    <3> QED
      BY <2>1, <3>1
  <2>3. n * z = (n + 1) * (n * K - T * T) + (n * y - T) * (n * y - T)
    BY <1>3
  <2>4. q = z
    <3>1. n * q = n * z /\ n > 0
      BY <1>6, <2>2, <2>3
    <3> QED
      BY <1>1, <3>1, Cancel
  <2> QED
    BY <1>1, <1>4, <2>4
<1> QED
  BY <1>5, <1>6

---------------------------------------------------------------------------
(* LatencyStats: what is stored, and what the threads under way have done  *)

\* The steps of a record, from its end.
SwappedAt == {"storeMean", "storeM2"}
TrackedAt == {"loadCount", "loadMean", "loadM2", "swapCount"} \union SwappedAt
Passed(e) == CASE e = "jmax" -> TrackedAt
               [] e = "jmin" -> {"jmax", "jmax.cas"} \union TrackedAt
               [] e = "hmax" -> {"jmin", "jmin.cas", "jmax", "jmax.cas"} \union TrackedAt
               [] OTHER -> {"hmax", "hmax.cas", "jmin", "jmin.cas", "jmax", "jmax.cas"} \union TrackedAt
SummedAt == {"hmin", "hmin.cas"} \union Passed("hmin")
CountedAt == {"sum"} \union SummedAt
StatSteps == {"idle", "count"} \union CountedAt

Those(f, P) == {u \in Recorders : f[u] \in P}
Weigh(A, w) == {p \in A \X Nat : 1 <= p[2] /\ p[2] <= w[p[1]]}
Placed(s, b) == {i \in 1..Len(s) : BucketFor(s[i]) = b}
Placing(f, w, b) == {u \in Recorders : f[u] # "idle" /\ BucketFor(w[u]) = b}

CountTally(n, s, f) == n = Len(s) + Cardinality(Those(f, CountedAt))
TrackTally(n, s, f) == n = Len(s) + Cardinality(Those(f, SwappedAt))
SumTally(h, s, f, w) == /\ IsFiniteSet(Weigh(Those(f, SummedAt), w))
                        /\ h = SumOf(s) + Cardinality(Weigh(Those(f, SummedAt), w))
BucketTally(c, s, f, w) ==
  \A b \in Buckets : c[b] = Cardinality(Placed(s, b)) + Cardinality(Placing(f, w, b))

Worst(e) == IF e \in {"hmin", "jmin"} THEN U64Max ELSE 0
Known(e, s, f, w) == {s[i] : i \in 1..Len(s)} \union {w[u] : u \in Those(f, Passed(e))}
ExtremeTally(e, x, s, f, w, l) ==
  /\ \A y \in Known(e, s, f, w) : ~Better(e, y, x)
  /\ x = Worst(e) \/ x \in Known(e, s, f, w)
  /\ \A u \in Recorders : f[u] = Trying[e] => ~Better(e, l[u], x)

\* With n samples of sum S and sum of squares Q, a mean and a sum of squares of theirs.
Describes(n, S, Q, mean, m2) ==
  /\ n = 0 => mean = 0 /\ m2 = 0
  /\ mean * n = Scale * S /\ m2 * n = Scale * Scale * (n * Q - S * S)
SquaresOf(s) == SumOf([i \in 1..Len(s) |-> s[i] * s[i]])
\* Where no latency is more than the fixed point holds, the stored sum of squares is the
\* clamped true one.
Held(s) == \A i \in 1..Len(s) : s[i] <= MaxFixed
Settled(s, mean, m2) ==
  Held(s) => \E M \in Nat : /\ Describes(Len(s), SumOf(s), SquaresOf(s), mean, M)
                            /\ m2 = FixedPoint(M, Scale * Scale)
                            /\ SumOf(s) <= Len(s) * MaxFixed
\* What a thread that nobody disturbs has loaded (r) at step p.
Loaded(p, r, s, mean, m2) ==
  /\ p \in TrackedAt \ {"loadCount"} => r.count = Len(s)
  /\ p \in {"loadM2", "swapCount", "storeMean"} => r.mean = mean
  /\ p \in {"swapCount", "storeMean", "storeM2"} => r.m2 = m2

Shifts(f, g, t, p, q) == f \in [Recorders -> StatSteps] /\ f[t] = p /\ g = [f EXCEPT ![t] = q]

LEMMA RecordersFinite == \A A : A \subseteq Recorders => IsFiniteSet(A) /\ Cardinality(A) \in Nat
  BY RecordersAssumption, FS_Subset, FS_CardinalityType

\* One thread takes a step.
LEMMA ThreadMoves ==
  ASSUME NEW f, NEW g, NEW t \in Recorders, NEW p, NEW q, Shifts(f, g, t, p, q), NEW P
  PROVE  /\ Cardinality(Those(f, P)) \in Nat /\ Cardinality(Those(g, P)) \in Nat
         /\ Cardinality(Those(g, P)) = Cardinality(Those(f, P)) + (IF q \in P THEN 1 ELSE 0)
                                                          - (IF p \in P THEN 1 ELSE 0)
<1>1. Those(f, P) \subseteq Recorders /\ Those(g, P) \subseteq Recorders
  BY DEF Those
<1>2. \A u \in Recorders : g[u] = IF u = t THEN q ELSE f[u]
  BY DEF Shifts
<1>3. Those(f, P) \ {t} = Those(g, P) \ {t}
  BY <1>2 DEF Those
<1>4. (t \in Those(f, P) <=> p \in P) /\ (t \in Those(g, P) <=> q \in P)
  BY <1>2 DEF Those, Shifts
<1>5. Cardinality(Those(g, P)) = Cardinality(Those(f, P)) + (IF t \in Those(g, P) THEN 1 ELSE 0)
                                                    - (IF t \in Those(f, P) THEN 1 ELSE 0)
  <2>1. PICK A, B : A = Those(f, P) /\ B = Those(g, P)
    OBVIOUS
  <2>2. A \subseteq Recorders /\ B \subseteq Recorders /\ A \ {t} = B \ {t}
    BY <1>1, <1>3, <2>1
  <2>3. Cardinality(B) = Cardinality(A) + (IF t \in B THEN 1 ELSE 0) - (IF t \in A THEN 1 ELSE 0)
    BY <2>2, RecordersAssumption, OneMember
  <2> QED
    BY <2>1, <2>3
<1> QED
  BY <1>1, <1>4, <1>5, RecordersFinite

\* Where a step leaves a thread inside or outside of P, and nothing else changes.
LEMMA StaysAt ==
  ASSUME NEW f, NEW g, NEW t \in Recorders, NEW p, NEW q, Shifts(f, g, t, p, q), NEW P, q \in P <=> p \in P
  PROVE  Those(g, P) = Those(f, P)
<1>1. \A u \in Recorders : g[u] = IF u = t THEN q ELSE f[u]
  BY DEF Shifts
<1> QED
  BY <1>1 DEF Those, Shifts

LEMMA ComesTo ==
  ASSUME NEW f, NEW g, NEW t \in Recorders, NEW p, NEW q, Shifts(f, g, t, p, q), NEW P, q \in P, p \notin P
  PROVE  Those(g, P) = Those(f, P) \union {t} /\ t \notin Those(f, P)
<1>1. \A u \in Recorders : g[u] = IF u = t THEN q ELSE f[u]
  BY DEF Shifts
<1> QED
  BY <1>1 DEF Those, Shifts

LEMMA LeavesFrom ==
  ASSUME NEW f, NEW g, NEW t \in Recorders, NEW p, NEW q, Shifts(f, g, t, p, q), NEW P, q \notin P, p \in P
  PROVE  Those(g, P) = Those(f, P) \ {t} /\ t \in Those(f, P)
<1>1. \A u \in Recorders : g[u] = IF u = t THEN q ELSE f[u]
  BY DEF Shifts
<1> QED
  BY <1>1 DEF Those, Shifts

LEMMA OneWeight ==
  ASSUME NEW t, NEW n \in Nat
  PROVE  IsFiniteSet({t} \X (1..n)) /\ Cardinality({t} \X (1..n)) = n
<1> DEFINE f == [k \in 1..n |-> <<t, k>>]
<1>1. IsFiniteSet(1..n) /\ Cardinality(1..n) = n
  <2>1. Cardinality(1..n) = IF 1 > n THEN 0 ELSE n - 1 + 1
    BY FS_Interval
  <2> QED
    BY <2>1, FS_Interval
<1>2. Injective(f, 1..n)
  BY DEF Injective
<1>3. Image(f, 1..n) = {t} \X (1..n)
  BY DEF Image
<1> HIDE DEF f
<1> QED
  BY <1>1, <1>2, <1>3, ImageCounts

\* The weights of some threads and of one more.
LEMMA WeighMore ==
  ASSUME NEW A, NEW w, NEW t, t \notin A, w[t] \in Nat, IsFiniteSet(Weigh(A, w))
  PROVE  /\ IsFiniteSet(Weigh(A \union {t}, w))
         /\ Cardinality(Weigh(A \union {t}, w)) = Cardinality(Weigh(A, w)) + w[t]
<1>1. Weigh(A \union {t}, w) = Weigh(A, w) \union ({t} \X (1..w[t]))
  BY DEF Weigh
<1>2. Weigh(A, w) \intersect ({t} \X (1..w[t])) = {}
  BY DEF Weigh
<1>3. IsFiniteSet({t} \X (1..w[t])) /\ Cardinality({t} \X (1..w[t])) = w[t]
  BY OneWeight
<1> HIDE DEF Weigh
<1>4. PICK W, V : W = Weigh(A, w) /\ V = {t} \X (1..w[t])
  OBVIOUS
<1>7. IsFiniteSet(W) /\ IsFiniteSet(V) /\ W \intersect V = {} /\ Cardinality(V) = w[t]
  BY <1>2, <1>3, <1>4
<1>5. /\ IsFiniteSet(W \union V)
      /\ Cardinality(W \union V) = Cardinality(W) + Cardinality(V) - Cardinality(W \intersect V)
  BY <1>7, FS_Union
<1>6. Cardinality(W) \in Nat /\ Cardinality(W \intersect V) = 0
  BY <1>7, FS_CardinalityType, FS_EmptySet
<1>8. Cardinality(W \union V) = Cardinality(W) + w[t]
  BY <1>5, <1>6, <1>7
<1> QED
  BY <1>1, <1>4, <1>5, <1>8

LEMMA WeighLess ==
  ASSUME NEW A, NEW w, NEW t \in A, w[t] \in Nat, IsFiniteSet(Weigh(A, w))
  PROVE  /\ IsFiniteSet(Weigh(A \ {t}, w))
         /\ Cardinality(Weigh(A, w)) = Cardinality(Weigh(A \ {t}, w)) + w[t]
<1>1. Weigh(A \ {t}, w) \subseteq Weigh(A, w)
  BY DEF Weigh
<1>2. IsFiniteSet(Weigh(A \ {t}, w))
  BY <1>1, FS_Subset
<1>3. (A \ {t}) \union {t} = A /\ t \notin A \ {t}
  OBVIOUS
<1>4. Cardinality(Weigh((A \ {t}) \union {t}, w)) = Cardinality(Weigh(A \ {t}, w)) + w[t]
  BY <1>2, <1>3, WeighMore
<1> QED
  BY <1>2, <1>3, <1>4

LEMMA SameWeights ==
  ASSUME NEW A, NEW w, NEW v, \A u \in A : w[u] = v[u]
  PROVE  Weigh(A, w) = Weigh(A, v)
  BY DEF Weigh

\* One more sample.
LEMMA OneMorePlaced ==
  ASSUME NEW s \in Seq(Nat), NEW x \in Nat, NEW b
  PROVE  /\ Cardinality(Placed(s, b)) \in Nat
         /\ Cardinality(Placed(Append(s, x), b)) =
              Cardinality(Placed(s, b)) + (IF BucketFor(x) = b THEN 1 ELSE 0)
<1>1. PICK n \in Nat, r \in Seq(Nat) : n = Len(s) /\ r = Append(s, x)
  BY AppendedIs
<1>2. Len(r) = n + 1 /\ r[n + 1] = x /\ \A i \in 1..n : r[i] = s[i]
  BY <1>1, AppendedIs
<1>3. IsFiniteSet(Placed(s, b)) /\ Cardinality(Placed(s, b)) \in Nat /\ n + 1 \notin Placed(s, b)
  <2>1. Placed(s, b) \subseteq 1..n
    BY <1>1 DEF Placed
  <2>2. IsFiniteSet(1..n)
    BY FS_Interval
  <2>3. n + 1 \notin 1..n
    OBVIOUS
  <2> QED
    BY <2>1, <2>2, <2>3, FS_Subset, FS_CardinalityType
<1>4. CASE BucketFor(x) = b
  <2>1. Placed(r, b) = Placed(s, b) \union {n + 1}
    BY <1>1, <1>2, <1>4 DEF Placed
  <2>2. Cardinality(Placed(s, b) \union {n + 1}) = Cardinality(Placed(s, b)) + 1
    BY <1>3, FS_AddElement
  <2> QED
    BY <1>1, <1>3, <1>4, <2>1, <2>2
<1>5. CASE BucketFor(x) # b
  <2>1. Placed(r, b) = Placed(s, b)
    BY <1>1, <1>2, <1>5 DEF Placed
  <2> QED
    BY <1>1, <1>3, <1>5, <2>1
<1> QED
  BY <1>4, <1>5

---------------------------------------------------------------------------
(* What each kind of step does to the tallies                              *)

\* A counter from m to n with a thread's step, as what is stored went from k to l.
Keeps(P, m, n, k, l, p, q) == n - m = (l - k) + (IF q \in P THEN 1 ELSE 0) - (IF p \in P THEN 1 ELSE 0)
Tells(m, k, f, P) == m = k + Cardinality(Those(f, P))

LEMMA CountMoves ==
  ASSUME NEW f, NEW g, NEW t \in Recorders, NEW p, NEW q, Shifts(f, g, t, p, q), NEW P,
         NEW m \in Nat, NEW n \in Nat, NEW k \in Nat, NEW l \in Nat,
         Tells(m, k, f, P), Keeps(P, m, n, k, l, p, q)
  PROVE  Tells(n, l, g, P)
<1>1. /\ Cardinality(Those(f, P)) \in Nat /\ Cardinality(Those(g, P)) \in Nat
      /\ Cardinality(Those(g, P)) = Cardinality(Those(f, P)) + (IF q \in P THEN 1 ELSE 0)
                                                             - (IF p \in P THEN 1 ELSE 0)
  BY ThreadMoves
<1>2. PICK i \in Int, j \in Int : i = (IF q \in P THEN 1 ELSE 0) /\ j = (IF p \in P THEN 1 ELSE 0)
  OBVIOUS
<1>3. PICK a \in Nat, b \in Nat : a = Cardinality(Those(f, P)) /\ b = Cardinality(Those(g, P))
  BY <1>1
<1>4. b = a + i - j
  BY <1>1, <1>2, <1>3
<1>5. m = k + a /\ n - m = (l - k) + i - j
  BY <1>2, <1>3 DEF Tells, Keeps
<1>6. n = l + b
  BY <1>4, <1>5
<1> QED
  BY <1>3, <1>6 DEF Tells

LEMMA SumStays ==
  ASSUME NEW f, NEW g, NEW t \in Recorders, NEW p, NEW q, Shifts(f, g, t, p, q),
         NEW h, NEW s, NEW w, NEW v, SumTally(h, s, f, w), q \in SummedAt <=> p \in SummedAt,
         \A u \in Those(f, SummedAt) : v[u] = w[u]
  PROVE  SumTally(h, s, g, v)
<1>1. Those(g, SummedAt) = Those(f, SummedAt)
  BY StaysAt
<1>2. Weigh(Those(f, SummedAt), v) = Weigh(Those(f, SummedAt), w)
  BY SameWeights
<1> QED
  BY <1>1, <1>2 DEF SumTally

LEMMA SumAdded ==
  ASSUME NEW f, NEW g, NEW t \in Recorders, NEW p, NEW q, Shifts(f, g, t, p, q),
         NEW h \in Nat, NEW s \in Seq(Nat), NEW w \in [Recorders -> Nat], SumTally(h, s, f, w),
         q \in SummedAt, p \notin SummedAt
  PROVE  SumTally(h + w[t], s, g, w)
<1>1. Those(g, SummedAt) = Those(f, SummedAt) \union {t} /\ t \notin Those(f, SummedAt)
  BY ComesTo
<1>2. /\ IsFiniteSet(Weigh(Those(g, SummedAt), w))
      /\ Cardinality(Weigh(Those(g, SummedAt), w)) = Cardinality(Weigh(Those(f, SummedAt), w)) + w[t]
  BY <1>1, WeighMore DEF SumTally
<1>3. Cardinality(Weigh(Those(f, SummedAt), w)) \in Nat
  BY FS_CardinalityType DEF SumTally
<1>4. SumOf(s) \in Int
  <2>1. s \in Seq(Int)
    BY SeqTypes
  <2> QED
    BY <2>1, SumIsInt
<1>5. h + w[t] = SumOf(s) + Cardinality(Weigh(Those(g, SummedAt), w))
  <2>1. h = SumOf(s) + Cardinality(Weigh(Those(f, SummedAt), w)) /\ w[t] \in Nat
    BY DEF SumTally
  <2> QED
    BY <1>2, <1>3, <1>4, <2>1
<1> QED
  BY <1>2, <1>5 DEF SumTally

LEMMA SumStored ==
  ASSUME NEW f, NEW g, NEW t \in Recorders, NEW p, NEW q, Shifts(f, g, t, p, q),
         NEW h \in Nat, NEW s \in Seq(Nat), NEW w \in [Recorders -> Nat], SumTally(h, s, f, w),
         q \notin SummedAt, p \in SummedAt, NEW v, \A u \in Recorders : u # t => v[u] = w[u]
  PROVE  SumTally(h, Append(s, w[t]), g, v)
<1>1. Those(g, SummedAt) = Those(f, SummedAt) \ {t} /\ t \in Those(f, SummedAt)
  BY LeavesFrom
<1>2. /\ IsFiniteSet(Weigh(Those(g, SummedAt), w))
      /\ Cardinality(Weigh(Those(f, SummedAt), w)) = Cardinality(Weigh(Those(g, SummedAt), w)) + w[t]
  BY <1>1, WeighLess DEF SumTally
<1>3. Weigh(Those(g, SummedAt), v) = Weigh(Those(g, SummedAt), w)
  <2>1. \A u \in Those(g, SummedAt) : v[u] = w[u]
    BY <1>1 DEF Those
  <2> QED
    BY <2>1, SameWeights
<1>4. Cardinality(Weigh(Those(g, SummedAt), w)) \in Nat
  BY <1>2, FS_CardinalityType
<1>5. SumOf(s) \in Int /\ SumOf(Append(s, w[t])) = SumOf(s) + w[t]
  <2>1. s \in Seq(Int) /\ w[t] \in Int
    BY SeqTypes
  <2> QED
    BY <2>1, SumIsInt, SumOfAppend
<1>6. h = SumOf(Append(s, w[t])) + Cardinality(Weigh(Those(g, SummedAt), w))
  <2>1. h = SumOf(s) + Cardinality(Weigh(Those(f, SummedAt), w)) /\ w[t] \in Nat
    BY DEF SumTally
  <2> QED
    BY <1>2, <1>4, <1>5, <2>1
<1> QED
  BY <1>2, <1>3, <1>6 DEF SumTally

LEMMA PlacingStarts ==
  ASSUME NEW f, NEW g, NEW t \in Recorders, NEW p, NEW q, Shifts(f, g, t, p, q), p = "idle", q # "idle",
         NEW w, NEW v, \A u \in Recorders : u # t => v[u] = w[u], NEW b
  PROVE  /\ Cardinality(Placing(f, w, b)) \in Nat
         /\ Cardinality(Placing(g, v, b)) =
              Cardinality(Placing(f, w, b)) + (IF BucketFor(v[t]) = b THEN 1 ELSE 0)
<1>1. \A u \in Recorders : g[u] = IF u = t THEN q ELSE f[u]
  BY DEF Shifts
<1>2. PICK A, B : A = Placing(f, w, b) /\ B = Placing(g, v, b)
  OBVIOUS
<1>3. A \subseteq Recorders /\ B \subseteq Recorders
  BY <1>2 DEF Placing
<1>4. A \ {t} = B \ {t}
  BY <1>1, <1>2 DEF Placing
<1>5. t \notin A /\ (t \in B <=> BucketFor(v[t]) = b)
  BY <1>1, <1>2 DEF Placing, Shifts
<1>6. Cardinality(B) = Cardinality(A) + (IF t \in B THEN 1 ELSE 0) - (IF t \in A THEN 1 ELSE 0)
  BY <1>3, <1>4, RecordersAssumption, OneMember
<1> QED
  BY <1>2, <1>3, <1>5, <1>6, RecordersFinite

LEMMA PlacingEnds ==
  ASSUME NEW f, NEW g, NEW t \in Recorders, NEW p, NEW q, Shifts(f, g, t, p, q), p # "idle", q = "idle",
         NEW w, NEW v, \A u \in Recorders : u # t => v[u] = w[u], NEW b
  PROVE  /\ Cardinality(Placing(g, v, b)) \in Nat
         /\ Cardinality(Placing(f, w, b)) =
              Cardinality(Placing(g, v, b)) + (IF BucketFor(w[t]) = b THEN 1 ELSE 0)
<1>1. \A u \in Recorders : g[u] = IF u = t THEN q ELSE f[u]
  BY DEF Shifts
<1>2. PICK A, B : A = Placing(f, w, b) /\ B = Placing(g, v, b)
  OBVIOUS
<1>3. A \subseteq Recorders /\ B \subseteq Recorders
  BY <1>2 DEF Placing
<1>4. A \ {t} = B \ {t}
  BY <1>1, <1>2 DEF Placing
<1>5. t \notin B /\ (t \in A <=> BucketFor(w[t]) = b)
  BY <1>1, <1>2 DEF Placing, Shifts
<1>6. Cardinality(A) = Cardinality(B) + (IF t \in A THEN 1 ELSE 0) - (IF t \in B THEN 1 ELSE 0)
  BY <1>3, <1>4, RecordersAssumption, OneMember
<1> QED
  BY <1>2, <1>3, <1>5, <1>6, RecordersFinite

LEMMA BucketsStay ==
  ASSUME NEW f, NEW g, NEW t \in Recorders, NEW p, NEW q, Shifts(f, g, t, p, q),
         NEW c, NEW s, NEW w, BucketTally(c, s, f, w), p # "idle", q # "idle"
  PROVE  BucketTally(c, s, g, w)
<1>1. \A b : Placing(g, w, b) = Placing(f, w, b)
  BY DEF Placing, Shifts
<1> QED
  BY <1>1 DEF BucketTally

OneInBucket(c, d, x) == \A b \in Buckets : d[b] = c[b] + (IF BucketFor(x) = b THEN 1 ELSE 0)

LEMMA BucketStarts ==
  ASSUME NEW f, NEW g, NEW t \in Recorders, NEW p, NEW q, Shifts(f, g, t, p, q), p = "idle", q # "idle",
         NEW c \in [Buckets -> Nat], NEW s \in Seq(Nat), NEW w, BucketTally(c, s, f, w),
         NEW v, \A u \in Recorders : u # t => v[u] = w[u], NEW d, OneInBucket(c, d, v[t])
  PROVE  BucketTally(d, s, g, v)
<1> SUFFICES ASSUME NEW b \in Buckets
             PROVE  d[b] = Cardinality(Placed(s, b)) + Cardinality(Placing(g, v, b))
  BY DEF BucketTally
<1>1. PICK k, n, m : k = Cardinality(Placed(s, b)) /\ n = Cardinality(Placing(f, w, b))
                     /\ m = Cardinality(Placing(g, v, b))
  OBVIOUS
<1>2. n \in Nat /\ m = n + (IF BucketFor(v[t]) = b THEN 1 ELSE 0)
  BY <1>1, PlacingStarts
<1>3. d[b] = c[b] + (IF BucketFor(v[t]) = b THEN 1 ELSE 0) /\ c[b] \in Nat
  BY DEF OneInBucket
<1>4. c[b] = k + n
  BY <1>1 DEF BucketTally
<1>5. k \in Nat
  BY <1>1, OneMorePlaced
<1>6. d[b] = k + m
  BY <1>2, <1>3, <1>4, <1>5
<1> QED
  BY <1>1, <1>6

LEMMA BucketEnds ==
  ASSUME NEW f, NEW g, NEW t \in Recorders, NEW p, NEW q, Shifts(f, g, t, p, q), p # "idle", q = "idle",
         NEW c, NEW s \in Seq(Nat), NEW w, BucketTally(c, s, f, w),
         NEW x \in Nat, w[t] = x, NEW v, \A u \in Recorders : u # t => v[u] = w[u]
  PROVE  BucketTally(c, Append(s, x), g, v)
<1> SUFFICES ASSUME NEW b \in Buckets
             PROVE  c[b] = Cardinality(Placed(Append(s, x), b)) + Cardinality(Placing(g, v, b))
  BY DEF BucketTally
<1>1. PICK k, j, n, m : /\ k = Cardinality(Placed(s, b)) /\ j = Cardinality(Placed(Append(s, x), b))
                        /\ n = Cardinality(Placing(f, w, b)) /\ m = Cardinality(Placing(g, v, b))
  OBVIOUS
<1>2. m \in Nat /\ n = m + (IF BucketFor(w[t]) = b THEN 1 ELSE 0)
  BY <1>1, PlacingEnds
<1>3. k \in Nat /\ j = k + (IF BucketFor(x) = b THEN 1 ELSE 0)
  BY <1>1, OneMorePlaced
<1>4. c[b] = k + n
  BY <1>1 DEF BucketTally
<1>5. c[b] = j + m
  BY <1>2, <1>3, <1>4
<1> QED
  BY <1>1, <1>5

---------------------------------------------------------------------------
(* The extremes: of what is known of one, it is the best                   *)

LEMMA BetterIs ==
  ASSUME NEW e, NEW x \in Int, NEW y \in Int, NEW z \in Int
  PROVE  /\ ~Better(e, x, x)
         /\ ~Better(e, x, y) /\ ~Better(e, y, z) => ~Better(e, x, z)
         /\ Better(e, x, y) => ~Better(e, y, x)
  BY DEF Better

LEMMA ExtremeStays ==
  ASSUME NEW f, NEW g, NEW t \in Recorders, NEW p, NEW q, Shifts(f, g, t, p, q), NEW e,
         NEW x, NEW s, NEW w, NEW v, NEW l, NEW m, ExtremeTally(e, x, s, f, w, l),
         \A u \in Those(f, Passed(e)) : v[u] = w[u], q \in Passed(e) <=> p \in Passed(e),
         \A u \in Recorders : u # t => m[u] = l[u], q = Trying[e] => ~Better(e, m[t], x)
  PROVE  ExtremeTally(e, x, s, g, v, m)
<1>1. Those(g, Passed(e)) = Those(f, Passed(e))
  BY StaysAt
<1>2. Known(e, s, g, v) = Known(e, s, f, w)
  BY <1>1 DEF Known
<1>3. ASSUME NEW u \in Recorders, g[u] = Trying[e]
      PROVE  ~Better(e, m[u], x)
  <2>1. CASE u = t
    BY <1>3, <2>1 DEF Shifts
  <2>2. CASE u # t
    <3>1. f[u] = Trying[e] /\ m[u] = l[u]
      BY <1>3, <2>2 DEF Shifts
    <3> QED
      BY <3>1 DEF ExtremeTally
  <2> QED
    BY <2>1, <2>2
<1> QED
  BY <1>2, <1>3 DEF ExtremeTally

\* A thread is past an extreme: it stands, or is now what the thread records.
\* x stands, or v takes its place.
Passes(e, x, y, v, known) == \/ y = x /\ ~Better(e, v, known)
                             \/ y = v /\ Better(e, v, known) /\ x = known

LEMMA ExtremePassed ==
  ASSUME NEW f, NEW g, NEW t \in Recorders, NEW p, NEW q, Shifts(f, g, t, p, q), NEW e,
         NEW x \in Int, NEW y \in Int, NEW s \in Seq(Nat), NEW w \in [Recorders -> Nat],
         NEW l \in [Recorders -> Nat], NEW m,
         ExtremeTally(e, x, s, f, w, l), p = Trying[e], p \notin Passed(e), q \in Passed(e), q # Trying[e],
         \A u \in Recorders : u # t => m[u] = l[u],
         Passes(e, x, y, w[t], l[t])
  PROVE  ExtremeTally(e, y, s, g, w, m)
<1>1. Those(g, Passed(e)) = Those(f, Passed(e)) \union {t}
  BY ComesTo
<1>2. Known(e, s, g, w) = Known(e, s, f, w) \union {w[t]}
  BY <1>1 DEF Known
<1>3. Known(e, s, f, w) \subseteq Int /\ w[t] \in Int /\ l[t] \in Int
  BY SeqTypes DEF Known, Those
<1>4. ~Better(e, l[t], x) /\ \A k \in Known(e, s, f, w) : ~Better(e, k, x)
  BY DEF ExtremeTally, Shifts
<1>5. ~Better(e, x, y) /\ ~Better(e, w[t], y)
  <2>1. CASE y = x /\ ~Better(e, w[t], l[t])
    BY <1>3, <1>4, <2>1, BetterIs
  <2>2. CASE y = w[t] /\ Better(e, w[t], l[t]) /\ x = l[t]
    BY <1>3, <2>2, BetterIs
  <2> QED
    BY <2>1, <2>2 DEF Passes
<1>6. \A k \in Known(e, s, g, w) : ~Better(e, k, y)
  BY <1>2, <1>3, <1>4, <1>5, BetterIs
<1>7. y = Worst(e) \/ y \in Known(e, s, g, w)
  BY <1>2 DEF ExtremeTally, Passes
<1>8. ASSUME NEW u \in Recorders, g[u] = Trying[e]
      PROVE  ~Better(e, m[u], y)
  <2>1. u # t /\ f[u] = Trying[e] /\ m[u] = l[u]
    BY <1>8 DEF Shifts
  <2>3. l[u] \in Int
    OBVIOUS
  <2>2. ~Better(e, l[u], x)
    BY <2>1 DEF ExtremeTally
  <2> QED
    BY <1>5, <2>1, <2>2, <2>3, BetterIs
<1> QED
  BY <1>6, <1>7, <1>8 DEF ExtremeTally

LEMMA ExtremeEnds ==
  ASSUME NEW f, NEW g, NEW t \in Recorders, NEW p, Shifts(f, g, t, p, "idle"), NEW e,
         NEW x, NEW s \in Seq(Nat), NEW w \in [Recorders -> Nat], NEW l,
         ExtremeTally(e, x, s, f, w, l), p \in Passed(e), "idle" \notin Passed(e), Trying[e] # "idle",
         NEW v, \A u \in Recorders : u # t => v[u] = w[u]
  PROVE  ExtremeTally(e, x, Append(s, w[t]), g, v, l)
<1>0. PICK q : q = "idle"
  OBVIOUS
<1>8. Shifts(f, g, t, p, q) /\ q \notin Passed(e)
  BY <1>0
<1>1. Those(g, Passed(e)) = Those(f, Passed(e)) \ {t} /\ t \in Those(f, Passed(e))
  BY <1>8, LeavesFrom
<1>2. PICK r \in Seq(Nat) : r = Append(s, w[t]) /\ Len(r) = Len(s) + 1 /\ Len(s) \in Nat
  BY AppendedIs
<1>3. r[Len(s) + 1] = w[t] /\ \A i \in 1..Len(s) : r[i] = s[i]
  BY <1>2, AppendedIs
<1>4. {r[i] : i \in 1..Len(r)} = {s[i] : i \in 1..Len(s)} \union {w[t]}
  BY <1>2, <1>3
<1>5. {v[u] : u \in Those(g, Passed(e))} \union {w[t]} = {w[u] : u \in Those(f, Passed(e))}
  <2>1. \A u \in Those(g, Passed(e)) : v[u] = w[u]
    BY <1>1 DEF Those
  <2> QED
    BY <1>1, <2>1
<1>6. Known(e, r, g, v) = Known(e, s, f, w)
  BY <1>4, <1>5 DEF Known
<1>7. \A u \in Recorders : g[u] = Trying[e] => f[u] = Trying[e]
  BY DEF Shifts
<1> QED
  BY <1>2, <1>6, <1>7 DEF ExtremeTally

---------------------------------------------------------------------------
(* Mean and sum of squares after one more sample that nobody disturbed     *)

LEMMA SumNotNegative ==
  ASSUME NEW s \in Seq(Int), \A i \in 1..Len(s) : s[i] >= 0
  PROVE  SumOf(s) >= 0
<1> DEFINE U == {k \in 0..Len(s) : RunningSum(s)[k] >= 0}
<1>0. Len(s) \in Nat
  OBVIOUS
<1>1. 0 \in U
  BY <1>0, RunningSumIs
<1>2. ASSUME NEW k \in 0..Len(s) - 1, k \in U
      PROVE  k + 1 \in U
  <2>1. k + 1 \in 1..Len(s) /\ (k + 1) - 1 = k /\ k \in 0..Len(s) /\ k + 1 \in 0..Len(s)
    BY <1>0
  <2>2. RunningSum(s)[k + 1] = RunningSum(s)[k] + s[k + 1] /\ RunningSum(s)[k] \in Int
    BY <2>1, RunningSumIs
  <2>3. s[k + 1] >= 0 /\ s[k + 1] \in Int
    BY <2>1
  <2> QED
    BY <1>2, <2>1, <2>2, <2>3
<1>3. 0..Len(s) \subseteq U
  <2> HIDE DEF U
  <2> QED
    BY <1>0, <1>1, <1>2, UpTo
<1> QED
  BY <1>0, <1>3 DEF SumOf

LEMMA SquaresOfMore ==
  ASSUME NEW s \in Seq(Nat), NEW x \in Nat
  PROVE  SquaresOf(s) \in Int /\ SquaresOf(Append(s, x)) = SquaresOf(s) + x * x
<1>1. PICK n \in Nat, r \in Seq(Nat) : n = Len(s) /\ r = Append(s, x)
  BY AppendedIs
<1>2. Len(r) = n + 1 /\ r[n + 1] = x /\ \A i \in 1..n : r[i] = s[i]
  BY <1>1, AppendedIs
<1>3. PICK a : a = [i \in 1..n |-> s[i] * s[i]]
  OBVIOUS
<1>4. \A i \in 1..n : s[i] * s[i] \in Int
  <2>1. \A i \in 1..n : s[i] \in Nat
    BY <1>1, SeqTypes
  <2> QED
    BY <2>1
<1>5. a \in Seq(Int) /\ Len(a) = n
  <2>1. a \in [1..n -> Int]
    BY <1>3, <1>4
  <2> QED
    BY <2>1
<1>6. PICK b : b = [i \in 1..n + 1 |-> r[i] * r[i]]
  OBVIOUS
<1>7. PICK y \in Int : y = x * x
  OBVIOUS
<1>8. PICK c \in Seq(Int) : /\ c = Append(a, y) /\ Len(c) = n + 1 /\ c[n + 1] = y
                            /\ \A i \in 1..n : c[i] = a[i]
  <2>1. /\ Append(a, y) \in Seq(Int) /\ Len(Append(a, y)) = Len(a) + 1 /\ Append(a, y)[Len(a) + 1] = y
        /\ \A i \in 1..Len(a) : Append(a, y)[i] = a[i]
    BY <1>5, AppendedIs
  <2> QED
    BY <1>5, <2>1
<1>9. b = c
  <2>1. \A i \in 1..n + 1 : b[i] = c[i]
    <3>1. ASSUME NEW i \in 1..n + 1
          PROVE  b[i] = c[i]
      <4>1. CASE i = n + 1
        BY <1>2, <1>6, <1>7, <1>8, <4>1
      <4>2. CASE i \in 1..n
        BY <1>2, <1>3, <1>6, <1>8, <4>2
      <4> QED
        BY <4>1, <4>2
    <3> QED
      BY <3>1
  <2>2. b \in Seq(Int) /\ Len(b) = n + 1
    <3>1. \A i \in 1..n + 1 : b[i] \in Int
      BY <1>8, <2>1, SeqTypes
    <3>2. b \in [1..n + 1 -> Int]
      BY <1>6, <3>1
    <3> QED
      BY <3>2
  <2> QED
    BY <1>8, <2>1, <2>2, SameSequence
<1>10. SquaresOf(s) = SumOf(a)
  BY <1>1, <1>3 DEF SquaresOf
<1>11. SquaresOf(r) = SumOf(c)
  BY <1>2, <1>6, <1>9 DEF SquaresOf
<1>12. SumOf(c) = SumOf(a) + y /\ SumOf(a) \in Int
  BY <1>5, <1>8, SumIsInt, SumOfAppend
<1> QED
  BY <1>1, <1>7, <1>10, <1>11, <1>12

LEMMA SquaresAreInt == ASSUME NEW s \in Seq(Nat) PROVE SquaresOf(s) \in Int
<1>1. 0 \in Nat
  OBVIOUS
<1> QED
  BY <1>1, SquaresOfMore

\* What the fixed point holds is stored as it is, and what was clamped before an addition
\* is clamped after it.
LEMMA FixedPointIs ==
  ASSUME NEW v \in Int, NEW o \in Nat
  PROVE  FixedPoint(v, o) \in Nat /\ (v >= 0 /\ v <= MaxFixed * o => FixedPoint(v, o) = v)
<1>1. PICK h \in Nat : h = MaxFixed * o
  BY StatBoundsAssumption
<1> QED
  BY <1>1 DEF FixedPoint

LEMMA FixedPointTwice ==
  ASSUME NEW M \in Nat, NEW a \in Nat, NEW o \in Nat
  PROVE  FixedPoint(FixedPoint(M, o) + a, o) = FixedPoint(M + a, o)
<1>1. PICK h \in Nat : h = MaxFixed * o
  BY StatBoundsAssumption
<1> QED
  BY <1>1 DEF FixedPoint

LEMMA SettledNone == Settled(<<>>, 0, 0)
<1>1. SumOf(<<>>) = 0 /\ Len(<<>>) = 0
  BY SumOfNone
<1>2. SquaresOf(<<>>) \in Int
  <2>1. <<>> \in Seq(Nat)
    OBVIOUS
  <2> QED
    BY <2>1, SquaresOfMore
<1>3. PICK q \in Int : q = SquaresOf(<<>>)
  BY <1>2
<1>4. Describes(0, 0, q, 0, 0)
  BY StatBoundsAssumption DEF Describes
<1>5. FixedPoint(0, Scale * Scale) = 0
  <2>1. PICK o \in Nat : o = Scale * Scale
    BY StatBoundsAssumption
  <2>2. MaxFixed * o \in Nat
    BY StatBoundsAssumption
  <2> QED
    BY <2>1, <2>2, FixedPointIs
<1>6. 0 * MaxFixed = 0
  BY StatBoundsAssumption
<1> QED
  BY <1>1, <1>3, <1>4, <1>5, <1>6 DEF Settled

\* Nothing but zeroes is stored of no samples.
LEMMA NothingSummed ==
  ASSUME NEW s \in Seq(Nat), Len(s) = 0
  PROVE  SumOf(s) = 0 /\ SquaresOf(s) = 0
<1>1. s = <<>>
  OBVIOUS
<1>2. [i \in 1..Len(s) |-> s[i] * s[i]] = <<>>
  BY <1>1
<1> QED
  BY <1>1, <1>2, SumOfNone DEF SquaresOf

LEMMA DescribesStep ==
  ASSUME NEW n \in Nat, NEW S \in Nat, NEW Q \in Int, NEW x \in Nat, NEW mean \in Nat, NEW m2 \in Nat,
         n = 0 => S = 0 /\ Q = 0, Describes(n, S, Q, mean, m2), n + 1 <= MaxRecords,
         NEW new \in Int, new = mean + (Scale * x - mean) \div (n + 1),
         NEW q \in Int, q = m2 + (Scale * x - mean) * (Scale * x - new)
  PROVE  Describes(n + 1, S + x, Q + x * x, new, q)
<1>1. PICK c \in Nat : c = Scale
  BY StatBoundsAssumption
<1>2. n = 0 => mean = 0 /\ m2 = 0
  BY DEF Describes
<1>3. mean * n = c * S
  BY <1>1 DEF Describes
<1>4. m2 * n = c * c * (n * Q - S * S)
  BY <1>1 DEF Describes
<1>5. c % (n + 1) = 0
  <2>1. n + 1 \in 1..MaxRecords
    BY StatBoundsAssumption
  <2> QED
    BY <1>1, <2>1, ScaleAssumption
<1>6. n > 0 => c % n = 0
  <2>1. n > 0 => n \in 1..MaxRecords
    BY StatBoundsAssumption
  <2> QED
    BY <1>1, <2>1, ScaleAssumption
<1>7. new = mean + (c * x - mean) \div (n + 1)
  BY <1>1
<1>8. n = 0 => S = 0 /\ mean = 0
  BY <1>2
<1>9. new * (n + 1) = c * (S + x)
  <2>1. MeanMoves(n, S, x, c, mean, new)
    BY <1>3, <1>5, <1>6, <1>7, <1>8 DEF MeanMoves
  <2>2. n \in Nat /\ S \in Nat /\ x \in Nat /\ c \in Nat /\ mean \in Nat
    OBVIOUS
  <2> QED
    BY ONLY <2>1, <2>2, MeanStep
<1>10. q = m2 + (c * x - mean) * (c * x - new)
  BY <1>1
<1>11. PICK T \in Int, y \in Int, K \in Int : T = c * S /\ y = c * x /\ K = c * c * Q
  OBVIOUS
<1>12. n = 0 => T = 0 /\ K = 0 /\ mean = 0 /\ m2 = 0
  <2>1. n = 0 => c * S = 0 /\ c * c * Q = 0
    OBVIOUS
  <2> QED
    BY <1>2, <1>11, <2>1
<1>13. mean * n = T
  BY <1>3, <1>11
<1>14. new * (n + 1) = T + y
  <2>1. c * (S + x) = c * S + c * x
    OBVIOUS
  <2> QED
    BY <1>9, <1>11, <2>1
<1>15. m2 * n = n * K - T * T
  <2>1. PICK d \in Nat, a \in Int, b \in Int : d = c * c /\ a = n * Q /\ b = S * S
    OBVIOUS
  <2>2. d * (a - b) = d * a - d * b
    OBVIOUS
  <2>3. d * a = n * (d * Q)
    BY <2>1
  <2>4. d * b = (c * S) * (c * S)
    BY <2>1
  <2>5. c * c * (n * Q - S * S) = n * (c * c * Q) - (c * S) * (c * S)
    BY <2>1, <2>2, <2>3, <2>4
  <2> QED
    BY <1>4, <1>11, <2>5
<1>16. q = m2 + (y - mean) * (y - new)
  BY <1>10, <1>11
<1>17. q * (n + 1) = (n + 1) * (K + y * y) - (T + y) * (T + y)
  <2>1. PICK z : z = (m2 + (y - mean) * (y - new)) * (n + 1)
    OBVIOUS
  <2>2. SquaresMove(n, K, T, y, mean, m2, new, z)
    BY <1>12, <1>13, <1>14, <1>15, <2>1 DEF SquaresMove
  <2>3. z = (n + 1) * (K + y * y) - (T + y) * (T + y)
    BY <2>2, SquaresStep
  <2> QED
    BY <1>16, <2>1, <2>3
<1>18. (n + 1) * (K + y * y) - (T + y) * (T + y) = c * c * ((n + 1) * (Q + x * x) - (S + x) * (S + x))
  BY <1>11
<1>19. q * (n + 1) = Scale * Scale * ((n + 1) * (Q + x * x) - (S + x) * (S + x))
  BY <1>1, <1>17, <1>18
<1> QED
  BY <1>1, <1>9, <1>19 DEF Describes

LEMMA QuotientIs ==
  ASSUME NEW d \in Int, NEW m \in Int, m > 0
  PROVE  /\ d \div m \in Int
         /\ d >= 0 => d \div m >= 0 /\ d \div m <= d
         /\ d < 0 => d \div m >= d /\ d \div m <= 0
  OBVIOUS

\* A mean moves towards the sample and not beyond it.
LEMMA Welford ==
  ASSUME NEW x \in Nat, NEW mean \in Nat, NEW m \in Int, m > 0, NEW q, q = (x - mean) \div m
  PROVE  mean + q \in Nat /\ (x - mean) * (x - (mean + q)) \in Nat
<1>1. /\ q \in Int /\ (x - mean >= 0 => q >= 0 /\ q <= x - mean)
      /\ (x - mean < 0 => q >= x - mean /\ q <= 0)
  BY QuotientIs
<1>2. mean + q \in Nat
  BY <1>1
<1>3. PICK a \in Int, b \in Int : a = x - mean /\ b = x - (mean + q)
  BY <1>1
<1>4. (a >= 0 /\ b >= 0) \/ (a < 0 /\ b <= 0)
  BY <1>1, <1>3
<1>5. a * b \in Nat
  BY <1>3, <1>4
<1> QED
  BY <1>2, <1>3, <1>5

LEMMA LeastTimes ==
  ASSUME NEW c \in Nat, NEW a \in Nat, NEW b \in Int, a <= b
  PROVE  c * a <= c * b
<1>1. PICK d \in Nat : b = a + d
  <2>1. b - a \in Nat /\ b = a + (b - a)
    OBVIOUS
  <2> QED
    BY <2>1
<1>2. c * b = c * a + c * d /\ c * d \in Nat
  BY <1>1
<1>3. PICK u \in Int, w \in Nat : u = c * a /\ w = c * d
  BY <1>2
<1> QED
  BY <1>2, <1>3

LEMMA CancelTimes ==
  ASSUME NEW a \in Nat, NEW b \in Nat, NEW n \in Nat, a * (n + 1) <= b * (n + 1)
  PROVE  a <= b
<1> SUFFICES ASSUME a > b PROVE FALSE
  OBVIOUS
<1>1. PICK d \in Nat : a = b + 1 + d
  <2>1. a - b - 1 \in Nat /\ a = b + 1 + (a - b - 1)
    OBVIOUS
  <2> QED
    BY <2>1
<1>2. a * (n + 1) = b * (n + 1) + (n + 1) + d * (n + 1) /\ d * (n + 1) \in Nat
  BY <1>1
<1>3. PICK u \in Int, w \in Nat : u = b * (n + 1) /\ w = d * (n + 1)
  BY <1>2
<1> QED
  BY <1>2, <1>3

LEMMA SettledStep ==
  ASSUME NEW s \in Seq(Nat), NEW x \in Nat, NEW mean \in Nat, NEW m2 \in Nat, Settled(s, mean, m2),
         Len(s) + 1 <= MaxRecords,
         NEW moved \in Int, moved = mean + (Scale * x - mean) \div (Len(s) + 1),
         NEW grown \in Int, grown = m2 + (Scale * x - mean) * (Scale * x - moved)
  PROVE  Settled(Append(s, x), FixedPoint(moved, Scale), FixedPoint(grown, Scale * Scale))
<1>1. PICK n \in Nat : n = Len(s)
  BY SeqTypes
<1> SUFFICES ASSUME Held(Append(s, x))
             PROVE  \E M \in Nat :
                      /\ Describes(Len(Append(s, x)), SumOf(Append(s, x)), SquaresOf(Append(s, x)),
                                   FixedPoint(moved, Scale), M)
                      /\ FixedPoint(grown, Scale * Scale) = FixedPoint(M, Scale * Scale)
                      /\ SumOf(Append(s, x)) <= Len(Append(s, x)) * MaxFixed
  BY DEF Settled
<1>0. Held(s) /\ x <= MaxFixed
  <2>1. /\ Len(Append(s, x)) = n + 1 /\ Append(s, x)[n + 1] = x
        /\ \A i \in 1..n : Append(s, x)[i] = s[i]
    BY <1>1, AppendedIs
  <2> QED
    BY <1>1, <2>1 DEF Held
<1>2. PICK S \in Nat, Q \in Int : S = SumOf(s) /\ Q = SquaresOf(s)
  <2>1. SumOf(s) >= 0 /\ SumOf(s) \in Int
    <3>1. s \in Seq(Int)
      BY SeqTypes
    <3>2. \A i \in 1..Len(s) : s[i] \in Nat
      BY SeqTypes
    <3> QED
      BY <3>1, <3>2, SumIsInt, SumNotNegative
  <2> QED
    BY <2>1, SquaresOfMore
<1>3. SumOf(Append(s, x)) = S + x /\ SquaresOf(Append(s, x)) = Q + x * x /\ Len(Append(s, x)) = n + 1
  <2>1. s \in Seq(Int) /\ x \in Int
    BY SeqTypes
  <2> QED
    BY <1>1, <1>2, <2>1, SumOfAppend, SquaresOfMore, AppendedIs
<1>4. n = 0 => S = 0 /\ Q = 0
  BY <1>1, <1>2, NothingSummed
<1>5. PICK M \in Nat : /\ Describes(n, S, Q, mean, M) /\ m2 = FixedPoint(M, Scale * Scale)
                       /\ S <= n * MaxFixed
  BY <1>0, <1>1, <1>2 DEF Settled
<1>6. PICK c \in Nat, y \in Nat : c = Scale /\ y = Scale * x /\ c > 0
  BY StatBoundsAssumption
<1>7. moved \in Nat /\ (y - mean) * (y - moved) \in Nat
  <2>1. PICK d : d = (y - mean) \div (n + 1)
    OBVIOUS
  <2>2. moved = mean + d
    BY <1>1, <1>6, <2>1
  <2>3. n + 1 \in Int /\ n + 1 > 0
    OBVIOUS
  <2> QED
    BY <2>1, <2>2, <2>3, Welford
<1>8. PICK a \in Nat : a = (y - mean) * (y - moved)
  BY <1>7
<1>9. Describes(n + 1, S + x, Q + x * x, moved, M + a)
  <2>1. M + a \in Int /\ M + a = M + (Scale * x - mean) * (Scale * x - moved)
    BY <1>6, <1>8
  <2>2. moved = mean + (Scale * x - mean) \div (n + 1)
    BY <1>1
  <2>3. n + 1 <= MaxRecords
    BY <1>1
  <2> QED
    BY <1>4, <1>5, <2>1, <2>2, <2>3, DescribesStep
<1>10. S + x <= (n + 1) * MaxFixed
  <2>1. PICK f \in Nat : f = MaxFixed
    BY StatBoundsAssumption
  <2>2. (n + 1) * f = n * f + f
    OBVIOUS
  <2>3. PICK k \in Nat : k = n * f
    OBVIOUS
  <2> QED
    BY <1>0, <1>5, <2>1, <2>2, <2>3
<1>11. moved <= MaxFixed * Scale
  <2>1. PICK f \in Nat, T \in Nat : f = MaxFixed /\ T = S + x
    BY StatBoundsAssumption
  <2>2. moved * (n + 1) = c * T /\ T <= (n + 1) * f
    BY <1>6, <1>9, <1>10, <2>1 DEF Describes
  <2>3. c * T <= c * ((n + 1) * f)
    BY ONLY <2>2, c \in Nat, T \in Nat, n \in Nat, f \in Nat, LeastTimes
  <2>4. PICK b \in Nat : b = f * c
    OBVIOUS
  <2>5. c * ((n + 1) * f) = b * (n + 1)
    BY <2>4
  <2>6. moved * (n + 1) <= b * (n + 1)
    BY <2>2, <2>3, <2>5
  <2>7. moved <= b
    BY ONLY <2>6, <1>7, b \in Nat, n \in Nat, CancelTimes
  <2> QED
    BY <1>6, <2>1, <2>4, <2>7
<1>12. FixedPoint(moved, Scale) = moved
  BY <1>6, <1>7, <1>11, FixedPointIs
<1>13. FixedPoint(grown, Scale * Scale) = FixedPoint(M + a, Scale * Scale)
  <2>1. PICK o \in Nat : o = Scale * Scale
    BY <1>6
  <2>2. grown = FixedPoint(M, o) + a
    BY <1>5, <1>6, <1>8, <2>1
  <2> QED
    BY <2>1, <2>2, FixedPointTwice
<1>14. M + a \in Nat
  OBVIOUS
<1> QED
  BY <1>3, <1>9, <1>10, <1>12, <1>13, <1>14

---------------------------------------------------------------------------
(* LatencyStats: Welford's step on whatever was loaded                     *)

StatsTypes ==
  /\ StatsTypeOK
  /\ sample \in [Recorders -> Nat] /\ seen \in [Recorders -> Nat]

\* Who records is at a step of a record, with a latency.
InFlight == /\ rpc \in [Recorders -> StatSteps]
            /\ \A t \in Recorders : rpc[t] # "idle" => sample[t] \in Samples

LEMMA NewStoresAre ==
  ASSUME StatsTypes, NEW t \in Recorders
  PROVE  NewMean(t) \in Nat /\ NewM2(t) \in Nat /\ MovedMean(t) \in Int /\ MovedM2(t) \in Int
<1>1. /\ sample[t] \in Nat /\ read[t].count \in Nat /\ read[t].mean \in Nat /\ read[t].m2 \in Nat
  BY DEF StatsTypes, StatsTypeOK
<1>2. Scale * sample[t] \in Nat /\ read[t].count + 1 \in Int /\ read[t].count + 1 > 0
  BY <1>1, StatBoundsAssumption
<1>3. PICK x \in Nat, mean \in Nat, m \in Int, m2 \in Nat :
        x = Scale * sample[t] /\ mean = read[t].mean /\ m = read[t].count + 1 /\ m > 0 /\ m2 = read[t].m2
  BY <1>1, <1>2
<1>4. PICK q : q = (x - mean) \div m
  OBVIOUS
<1>5. mean + q \in Nat /\ (x - mean) * (x - (mean + q)) \in Nat
  BY <1>3, <1>4, Welford
<1>6. MovedMean(t) = mean + q
  BY <1>3, <1>4 DEF MovedMean
<1>7. MovedM2(t) = m2 + (x - mean) * (x - (mean + q))
  BY <1>3, <1>6 DEF MovedM2
<1>8. MovedMean(t) \in Int /\ MovedM2(t) \in Int
  BY <1>3, <1>5, <1>6, <1>7
<1>9. Scale \in Nat /\ Scale * Scale \in Nat
  BY StatBoundsAssumption
<1> QED
  BY <1>8, <1>9, FixedPointIs DEF NewMean, NewM2

LEMMA ExtremesAre == DOMAIN After = {"hmin", "hmax", "jmin", "jmax"}
  BY DEF After

LEMMA StatTypesInit == StatsInit => StatsTypes
  BY ExtremesAre DEF StatsInit, StatsTypes, StatsTypeOK, NoRead, U64Max

LEMMA HistogramKeeps ==
  ASSUME StatsTypes, NEW t \in Recorders,
         (\E x \in Samples : StartRecord(t, x)) \/ CountRecord(t) \/ SumRecord(t)
  PROVE  StatsTypes'
<1>1. CASE \E x \in Samples : StartRecord(t, x)
  <2>1. PICK x \in Samples : StartRecord(t, x)
    BY <1>1
  <2>2. BucketFor(x) \in Buckets /\ x \in Nat
    BY SamplesAssumption DEF Buckets
  <2>3. buckets' \in [Buckets -> Nat]
    BY <2>1, <2>2 DEF StartRecord, StatsTypes, StatsTypeOK
  <2>4. sample' \in [Recorders -> Nat]
    BY <2>1, <2>2 DEF StartRecord, StatsTypes
  <2> QED
    BY <2>1, <2>3, <2>4 DEF StartRecord, StatsTypes, StatsTypeOK, jitter
<1>2. CASE CountRecord(t)
  BY <1>2 DEF CountRecord, StatsTypes, StatsTypeOK, jitter, statLocals, statHistory
<1>3. CASE SumRecord(t)
  <2>1. hsum' \in Nat
    BY <1>3 DEF SumRecord, StatsTypes, StatsTypeOK
  <2> QED
    BY <1>3, <2>1 DEF SumRecord, StatsTypes, StatsTypeOK, jitter, statLocals, statHistory
<1> QED
  BY <1>1, <1>2, <1>3

LEMMA ExtremesKeep ==
  ASSUME StatsTypes, NEW t \in Recorders, NEW e \in DOMAIN After,
         LoadExtreme(t, e) \/ ExtremeStands(t, e) \/ SwapExtreme(t, e) \/ SwapFails(t, e)
  PROVE  StatsTypes'
<1>1. extreme \in [DOMAIN After -> Nat] /\ sample \in [Recorders -> Nat] /\ seen \in [Recorders -> Nat]
  BY DEF StatsTypes, StatsTypeOK
<1>2. seen' = [seen EXCEPT ![t] = extreme[e]] \/ seen' = [seen EXCEPT ![t] = 0]
  BY DEF LoadExtreme, ExtremeStands, SwapExtreme, SwapFails
<1>3. extreme' = extreme \/ extreme' = [extreme EXCEPT ![e] = sample[t]]
  BY DEF LoadExtreme, ExtremeStands, SwapExtreme, SwapFails
<1>4. seen' \in [Recorders -> Nat] /\ extreme' \in [DOMAIN After -> Nat]
  BY <1>1, <1>2, <1>3
<1>5. UNCHANGED <<histogram, jitter, sample, read, statHistory>>
  BY DEF LoadExtreme, ExtremeStands, SwapExtreme, SwapFails
<1> QED
  BY <1>4, <1>5 DEF StatsTypes, StatsTypeOK, histogram, jitter, statHistory

LEMMA JitterKeeps ==
  ASSUME StatsTypes, InFlight, NEW t \in Recorders,
         \/ LoadCount(t) \/ LoadMean(t) \/ LoadM2(t) \/ SwapCount(t) \/ SwapCountFails(t)
         \/ StoreMean(t) \/ StoreM2(t)
  PROVE  StatsTypes'
<1>1. CASE LoadCount(t) \/ LoadMean(t) \/ LoadM2(t) \/ SwapCountFails(t)
  <2>1. read' \in [Recorders -> [count : Nat, mean : Nat, m2 : Nat]]
    <3>1. /\ read \in [Recorders -> [count : Nat, mean : Nat, m2 : Nat]]
          /\ jcount \in Nat /\ jmean \in Nat /\ jm2 \in Nat
      BY DEF StatsTypes, StatsTypeOK
    <3>2. CASE LoadCount(t)
      BY <3>1, <3>2, SMT DEF LoadCount
    <3>3. CASE LoadMean(t)
      BY <3>1, <3>3, SMT DEF LoadMean
    <3>4. CASE LoadM2(t)
      BY <3>1, <3>4, SMT DEF LoadM2
    <3>5. CASE SwapCountFails(t)
      BY <3>1, <3>5, SMT DEF SwapCountFails, NoRead
    <3> QED
      BY <1>1, <3>2, <3>3, <3>4, <3>5
  <2>2. UNCHANGED <<histogram, jitter, extreme, sample, seen, statHistory>>
    BY <1>1 DEF LoadCount, LoadMean, LoadM2, SwapCountFails
  <2> QED
    BY <2>1, <2>2 DEF StatsTypes, StatsTypeOK, histogram, jitter, statHistory
<1>2. CASE SwapCount(t)
  <2>1. jcount' \in Nat
    BY <1>2 DEF SwapCount, StatsTypes, StatsTypeOK
  <2> QED
    BY <1>2, <2>1 DEF SwapCount, StatsTypes, StatsTypeOK, histogram, statLocals, statHistory
<1>3. CASE StoreMean(t)
  <2>1. jmean' \in Nat
    BY <1>3, NewStoresAre DEF StoreMean
  <2> QED
    BY <1>3, <2>1 DEF StoreMean, StatsTypes, StatsTypeOK, histogram, statLocals, statHistory
<1>4. CASE StoreM2(t)
  <2>1. jm2' \in Nat
    BY <1>4, NewStoresAre DEF StoreM2
  <2>2. read' \in [Recorders -> [count : Nat, mean : Nat, m2 : Nat]]
    BY <1>4 DEF StoreM2, StatsTypes, StatsTypeOK, NoRead
  <2>3. stored' \in Seq(Samples) /\ sample' \in [Recorders -> Nat]
    <3>1. stored \in Seq(Samples) /\ sample \in [Recorders -> Nat]
      BY DEF StatsTypes, StatsTypeOK
    <3>2. stored' = Append(stored, sample[t]) /\ sample' = [sample EXCEPT ![t] = 0] /\ rpc[t] = "storeM2"
      BY <1>4 DEF StoreM2, StatGoto
    <3>3. sample[t] \in Samples
      BY <3>2 DEF InFlight
    <3>4. sample' \in [Recorders -> Nat]
      BY <3>1, <3>2
    <3> QED
      BY <3>1, <3>2, <3>3, <3>4, AppendedIs
  <2>4. UNCHANGED <<histogram, jcount, jmean, extreme, seen>>
    BY <1>4 DEF StoreM2
  <2> QED
    BY <2>1, <2>2, <2>3, <2>4 DEF StatsTypes, StatsTypeOK, histogram
<1> QED
  BY <1>1, <1>2, <1>3, <1>4

LEMMA TwoStores ==
  ASSUME NEW f \in [DOMAIN After -> Nat], NEW g, NEW a \in DOMAIN After, NEW b \in DOMAIN After,
         NEW m \in Nat, NEW n \in Nat, g = [f EXCEPT ![a] = m, ![b] = n]
  PROVE  g \in [DOMAIN After -> Nat]
  OBVIOUS

LEMMA ClearKeeps == ASSUME StatsTypes, ClearHistogram \/ ClearExtremes \/ ClearJitter PROVE StatsTypes'
<1>1. CASE ClearHistogram
  BY <1>1 DEF ClearHistogram, StatsTypes, StatsTypeOK, jitter, statLocals
<1>2. CASE ClearExtremes
  <2>1. extreme' \in [DOMAIN After -> Nat]
    <3>1. extreme \in [DOMAIN After -> Nat]
      BY DEF StatsTypes, StatsTypeOK
    <3>2. PICK a, b : a = "hmin" /\ b = "hmax"
      OBVIOUS
    <3>3. a \in DOMAIN After /\ b \in DOMAIN After
      BY <3>2, ExtremesAre
    <3>4. extreme' = [extreme EXCEPT ![a] = U64Max, ![b] = 0]
      BY <1>2, <3>2 DEF ClearExtremes
    <3> QED
      BY <3>1, <3>3, <3>4, TwoStores DEF U64Max
  <2> QED
    BY <1>2, <2>1 DEF ClearExtremes, StatsTypes, StatsTypeOK, histogram, jitter, statLocals, statHistory
<1>3. CASE ClearJitter
  <2>1. extreme' \in [DOMAIN After -> Nat]
    <3>1. extreme \in [DOMAIN After -> Nat]
      BY DEF StatsTypes, StatsTypeOK
    <3>2. PICK a, b : a = "jmin" /\ b = "jmax"
      OBVIOUS
    <3>3. a \in DOMAIN After /\ b \in DOMAIN After
      BY <3>2, ExtremesAre
    <3>4. extreme' = [extreme EXCEPT ![a] = U64Max, ![b] = 0]
      BY <1>3, <3>2 DEF ClearJitter
    <3> QED
      BY <3>1, <3>3, <3>4, TwoStores DEF U64Max
  <2> QED
    BY <1>3, <2>1 DEF ClearJitter, StatsTypes, StatsTypeOK, histogram, statLocals, statHistory
<1> QED
  BY <1>1, <1>2, <1>3

LEMMA StatTypesKeep == StatsTypes /\ InFlight /\ [StatsNext]_statVars => StatsTypes'
<1> SUFFICES ASSUME StatsTypes, InFlight, [StatsNext]_statVars PROVE StatsTypes'
  OBVIOUS
<1>1. ASSUME NEW t \in Recorders, RecordStep(t) PROVE StatsTypes'
  BY <1>1, HistogramKeeps, ExtremesKeep, JitterKeeps DEF RecordStep
<1>2. CASE ClearHistogram \/ ClearExtremes \/ ClearJitter
  BY <1>2, ClearKeeps
<1>3. CASE UNCHANGED statVars
  BY <1>3 DEF statVars, histogram, jitter, statLocals, statHistory, StatsTypes, StatsTypeOK
<1> QED
  BY <1>1, <1>2, <1>3 DEF StatsNext

---------------------------------------------------------------------------
(* The steps of a record: where they lead                                  *)

LEMMA Ladder ==
  ASSUME NEW e \in DOMAIN After
  PROVE  /\ e \in SummedAt /\ Trying[e] \in SummedAt /\ After[e] \in SummedAt
         /\ e \notin SwappedAt /\ Trying[e] \notin SwappedAt /\ After[e] \notin SwappedAt
         /\ \A d \in DOMAIN After :
              /\ e \in Passed(d) <=> Trying[e] \in Passed(d)
              /\ d # e => (Trying[e] \in Passed(d) <=> After[e] \in Passed(d))
              /\ e # Trying[d] /\ After[e] # Trying[d]
              /\ d # e => Trying[e] # Trying[d]
         /\ Trying[e] \notin Passed(e) /\ After[e] \in Passed(e)
<1>1. e \in {"hmin", "hmax", "jmin", "jmax"} /\ \A d \in DOMAIN After : d \in {"hmin", "hmax", "jmin", "jmax"}
  BY ExtremesAre
<1>2. CASE e = "hmin"
  BY <1>1, <1>2 DEF Passed, SummedAt, SwappedAt, TrackedAt, Trying, After
<1>3. CASE e = "hmax"
  BY <1>1, <1>3 DEF Passed, SummedAt, SwappedAt, TrackedAt, Trying, After
<1>4. CASE e = "jmin"
  BY <1>1, <1>4 DEF Passed, SummedAt, SwappedAt, TrackedAt, Trying, After
<1>5. CASE e = "jmax"
  BY <1>1, <1>5 DEF Passed, SummedAt, SwappedAt, TrackedAt, Trying, After
<1> QED
  BY <1>1, <1>2, <1>3, <1>4, <1>5

LEMMA StepSets ==
  /\ SwappedAt \subseteq TrackedAt /\ TrackedAt \subseteq SummedAt
  /\ SummedAt \subseteq CountedAt /\ CountedAt \subseteq StatSteps
  /\ "idle" \notin CountedAt /\ "count" \notin CountedAt /\ "sum" \in CountedAt /\ "sum" \notin SummedAt
  /\ "idle" \in StatSteps /\ "count" \in StatSteps /\ "hmin" \in SummedAt /\ "hmin" \notin SwappedAt
  /\ "sum" \notin SwappedAt /\ "count" \notin SwappedAt /\ "idle" \notin SwappedAt
  /\ "loadCount" \in TrackedAt \ SwappedAt /\ "loadMean" \in TrackedAt \ SwappedAt
  /\ "loadM2" \in TrackedAt \ SwappedAt /\ "swapCount" \in TrackedAt \ SwappedAt
  /\ "storeMean" \in SwappedAt /\ "storeM2" \in SwappedAt
  /\ \A e \in DOMAIN After :
       /\ TrackedAt \subseteq Passed(e) /\ Passed(e) \subseteq SummedAt
       /\ "hmin" \notin Passed(e)
       /\ Trying[e] \notin TrackedAt /\ Trying[e] \notin {"idle", "count", "sum", "hmin"}
<1>1. \A e \in DOMAIN After : e \in {"hmin", "hmax", "jmin", "jmax"}
  BY ExtremesAre
<1>2. \A e \in DOMAIN After : TrackedAt \subseteq Passed(e) /\ Passed(e) \subseteq SummedAt
  BY <1>1 DEF Passed, SummedAt, TrackedAt
<1>3. \A e \in DOMAIN After :
       /\ "hmin" \notin Passed(e)
       /\ Trying[e] \notin TrackedAt /\ Trying[e] \notin {"idle", "count", "sum", "hmin"}
  BY <1>1 DEF Passed, TrackedAt, SwappedAt, Trying
<1>4. "idle" \notin CountedAt /\ "count" \notin CountedAt /\ "sum" \notin SummedAt
  BY DEF CountedAt, SummedAt, Passed, TrackedAt, SwappedAt
<1>5. TrackedAt \subseteq SummedAt
  BY DEF SummedAt, Passed
<1> QED
  BY <1>2, <1>3, <1>4, <1>5 DEF CountedAt, SummedAt, TrackedAt, SwappedAt, StatSteps

\* A record starts, ends, or goes on: one number or one extreme at a time.
Starts(t, p, q) == p = "idle" /\ q = "count" /\ \E x \in Samples : StartRecord(t, x)
Ends(t, p, q) == p = "storeM2" /\ q = "idle" /\ StoreM2(t)
CountGoesOn(p, q) == \/ hcount' = hcount /\ p \in CountedAt
                     \/ hcount' = hcount + 1 /\ p \notin CountedAt
TrackGoesOn(p, q) == \/ jcount' = jcount /\ (q \in SwappedAt <=> p \in SwappedAt)
                     \/ jcount' = jcount + 1 /\ q \in SwappedAt /\ p \notin SwappedAt
SumGoesOn(t, p, q) == \/ hsum' = hsum /\ (q \in SummedAt <=> p \in SummedAt)
                      \/ hsum' = hsum + sample[t] /\ q \in SummedAt /\ p \notin SummedAt
ExtremeGoesOn(t, p, q, e) ==
  \/ /\ extreme'[e] = extreme[e] /\ (q \in Passed(e) <=> p \in Passed(e))
     /\ q = Trying[e] => seen'[t] = extreme[e]
  \/ /\ p = Trying[e] /\ p \notin Passed(e) /\ q \in Passed(e) /\ q # Trying[e]
     /\ Passes(e, extreme[e], extreme'[e], sample[t], seen[t])
GoesOn(t, p, q) == /\ p \in CountedAt \union {"count"} /\ q \in CountedAt
                   /\ CountGoesOn(p, q) /\ TrackGoesOn(p, q) /\ SumGoesOn(t, p, q)
                   /\ \A e \in DOMAIN After : ExtremeGoesOn(t, p, q, e)
                   /\ UNCHANGED <<buckets, stored, sample, recs, mixed, crowded, clearing>>
                   /\ \A u \in Recorders : u # t => seen'[u] = seen[u]

LEMMA Shifting ==
  ASSUME InFlight, NEW t \in Recorders, NEW p, NEW q, StatGoto(t, p, q)
  PROVE  Shifts(rpc, rpc', t, p, q)
  BY DEF InFlight, StatGoto, Shifts

LEMMA SumsGoOn ==
  ASSUME InFlight, NEW t \in Recorders, CountRecord(t) \/ SumRecord(t)
  PROVE  \E p, q \in StatSteps : Shifts(rpc, rpc', t, p, q) /\ GoesOn(t, p, q)
<1>1. CASE CountRecord(t)
  <2>1. PICK p, q : p = "count" /\ q = "sum"
    OBVIOUS
  <2>2. StatGoto(t, p, q)
    BY <1>1, <2>1 DEF CountRecord
  <2>3. CountGoesOn(p, q) /\ TrackGoesOn(p, q) /\ SumGoesOn(t, p, q)
    BY <1>1, <2>1, StepSets DEF CountRecord, jitter, CountGoesOn, TrackGoesOn, SumGoesOn
  <2>4. ASSUME NEW e \in DOMAIN After
        PROVE  ExtremeGoesOn(t, p, q, e)
    <3>1. p \notin Passed(e) /\ q \notin Passed(e) /\ q # Trying[e]
      BY <2>1, StepSets
    <3> QED
      BY <1>1, <3>1 DEF CountRecord, ExtremeGoesOn
  <2>5. UNCHANGED <<buckets, stored, sample, recs, mixed, crowded, clearing, seen>>
    BY <1>1 DEF CountRecord, statLocals, statHistory
  <2> QED
    BY <2>1, <2>2, <2>3, <2>4, <2>5, Shifting, StepSets DEF GoesOn
<1>2. CASE SumRecord(t)
  <2>1. PICK p, q : p = "sum" /\ q = "hmin"
    OBVIOUS
  <2>2. StatGoto(t, p, q)
    BY <1>2, <2>1 DEF SumRecord
  <2>3. CountGoesOn(p, q) /\ TrackGoesOn(p, q) /\ SumGoesOn(t, p, q)
    BY <1>2, <2>1, StepSets DEF SumRecord, jitter, CountGoesOn, TrackGoesOn, SumGoesOn
  <2>4. ASSUME NEW e \in DOMAIN After
        PROVE  ExtremeGoesOn(t, p, q, e)
    <3>1. p \notin Passed(e) /\ q \notin Passed(e) /\ q # Trying[e]
      BY <2>1, StepSets
    <3> QED
      BY <1>2, <3>1 DEF SumRecord, ExtremeGoesOn
  <2>5. UNCHANGED <<buckets, stored, sample, recs, mixed, crowded, clearing, seen>>
    BY <1>2 DEF SumRecord, statLocals, statHistory
  <2> QED
    BY <2>1, <2>2, <2>3, <2>4, <2>5, Shifting, StepSets DEF GoesOn
<1> QED
  BY <1>1, <1>2

LEMMA ExtremesGoOn ==
  ASSUME StatsTypes, InFlight, NEW t \in Recorders, NEW e \in DOMAIN After,
         LoadExtreme(t, e) \/ ExtremeStands(t, e) \/ SwapExtreme(t, e) \/ SwapFails(t, e)
  PROVE  \E p, q \in StatSteps : Shifts(rpc, rpc', t, p, q) /\ GoesOn(t, p, q)
<1>1. /\ e \in CountedAt /\ Trying[e] \in CountedAt /\ After[e] \in CountedAt
      /\ e \in StatSteps /\ Trying[e] \in StatSteps /\ After[e] \in StatSteps
  BY Ladder, StepSets
<1>2. UNCHANGED <<buckets, stored, sample, recs, mixed, crowded, clearing, hcount, hsum, jcount>>
  BY DEF LoadExtreme, ExtremeStands, SwapExtreme, SwapFails, histogram, jitter, statHistory
<1>3. \A u \in Recorders : u # t => seen'[u] = seen[u]
  <2>1. \E x : seen' = [seen EXCEPT ![t] = x]
    BY DEF LoadExtreme, ExtremeStands, SwapExtreme, SwapFails
  <2> QED
    BY <2>1 DEF StatsTypes
<1>4. \A p, q \in CountedAt : CountGoesOn(p, q)
  BY <1>2 DEF CountGoesOn
<1>5. \A p, q \in {e, Trying[e], After[e]} : TrackGoesOn(p, q) /\ SumGoesOn(t, p, q)
  BY <1>2, Ladder DEF TrackGoesOn, SumGoesOn
<1>6. CASE LoadExtreme(t, e) \/ SwapFails(t, e)
  <2>1. PICK p \in {e, Trying[e]} : Shifts(rpc, rpc', t, p, Trying[e])
    <3>1. CASE LoadExtreme(t, e)
      BY <3>1, Shifting DEF LoadExtreme
    <3>2. CASE SwapFails(t, e)
      <4>1. rpc[t] = Trying[e] /\ rpc' = rpc
        BY <3>2 DEF SwapFails
      <4>2. Shifts(rpc, rpc', t, Trying[e], Trying[e])
        BY <4>1 DEF Shifts, InFlight
      <4> QED
        BY <4>2
    <3> QED
      BY <1>6, <3>1, <3>2
  <2>2. seen' = [seen EXCEPT ![t] = extreme[e]] /\ extreme' = extreme
    BY <1>6 DEF LoadExtreme, SwapFails
  <2>3. seen'[t] = extreme[e]
    BY <2>2 DEF StatsTypes
  <2>4. ASSUME NEW d \in DOMAIN After
        PROVE  ExtremeGoesOn(t, p, Trying[e], d)
    <3>1. p \in Passed(d) <=> Trying[e] \in Passed(d)
      BY Ladder
    <3>2. d # e => Trying[e] # Trying[d]
      BY Ladder
    <3> QED
      BY <2>2, <2>3, <3>1, <3>2 DEF ExtremeGoesOn
  <2> QED
    BY <1>1, <1>2, <1>3, <1>4, <1>5, <2>1, <2>4 DEF GoesOn
<1>7. CASE ExtremeStands(t, e) \/ SwapExtreme(t, e)
  <2>1. Shifts(rpc, rpc', t, Trying[e], After[e])
    BY <1>7, Shifting DEF ExtremeStands, SwapExtreme
  <2>2. ASSUME NEW d \in DOMAIN After
        PROVE  ExtremeGoesOn(t, Trying[e], After[e], d)
    <3>1. CASE d = e
      <4>1. Trying[e] \notin Passed(e) /\ After[e] \in Passed(e) /\ After[e] # Trying[e]
        BY Ladder
      <4>2. \/ extreme'[e] = extreme[e] /\ ~Better(e, sample[t], seen[t])
            \/ extreme'[e] = sample[t] /\ Better(e, sample[t], seen[t]) /\ extreme[e] = seen[t]
        <5>1. CASE ExtremeStands(t, e)
          BY <5>1 DEF ExtremeStands
        <5>2. CASE SwapExtreme(t, e)
          <6>1. extreme' = [extreme EXCEPT ![e] = sample[t]] /\ e \in DOMAIN extreme
            BY <5>2 DEF SwapExtreme, StatsTypes, StatsTypeOK
          <6>2. Better(e, sample[t], seen[t]) /\ extreme[e] = seen[t]
            BY <5>2 DEF SwapExtreme
          <6> QED
            BY <6>1, <6>2
        <5> QED
          BY <1>7, <5>1, <5>2
      <4> QED
        BY <3>1, <4>1, <4>2 DEF ExtremeGoesOn, Passes
    <3>2. CASE d # e
      <4>1. Trying[e] \in Passed(d) <=> After[e] \in Passed(d)
        BY <3>2, Ladder
      <4>2. After[e] # Trying[d]
        BY Ladder
      <4>3. extreme'[d] = extreme[d]
        <5>1. extreme' = extreme \/ extreme' = [extreme EXCEPT ![e] = sample[t]]
          BY <1>7 DEF ExtremeStands, SwapExtreme
        <5> QED
          BY <3>2, <5>1 DEF StatsTypes, StatsTypeOK
      <4> QED
        BY <4>1, <4>2, <4>3 DEF ExtremeGoesOn
    <3> QED
      BY <3>1, <3>2
  <2> QED
    BY <1>1, <1>2, <1>3, <1>4, <1>5, <2>1, <2>2 DEF GoesOn
<1> QED
  BY <1>6, <1>7

LEMMA TrackersGoOn ==
  ASSUME InFlight, NEW t \in Recorders,
         LoadCount(t) \/ LoadMean(t) \/ LoadM2(t) \/ SwapCount(t) \/ SwapCountFails(t) \/ StoreMean(t)
  PROVE  \E p, q \in StatSteps : Shifts(rpc, rpc', t, p, q) /\ GoesOn(t, p, q)
<1>1. PICK p, q : StatGoto(t, p, q) /\ p \in TrackedAt /\ q \in TrackedAt /\ TrackGoesOn(p, q)
  <2>1. CASE LoadCount(t) \/ LoadMean(t) \/ LoadM2(t) \/ SwapCountFails(t)
    <3>1. jcount' = jcount
      BY <2>1 DEF LoadCount, LoadMean, LoadM2, SwapCountFails, jitter
    <3> QED
      BY <2>1, <3>1, StepSets DEF LoadCount, LoadMean, LoadM2, SwapCountFails, TrackGoesOn
  <2>2. CASE SwapCount(t)
    <3>1. jcount' = jcount + 1 /\ StatGoto(t, "swapCount", "storeMean")
      BY <2>2 DEF SwapCount
    <3> QED
      BY <3>1, StepSets DEF TrackGoesOn
  <2>3. CASE StoreMean(t)
    BY <2>3, StepSets DEF StoreMean, TrackGoesOn
  <2> QED
    BY <2>1, <2>2, <2>3
<1>2. UNCHANGED <<buckets, stored, sample, recs, mixed, crowded, clearing, hcount, hsum, extreme, seen>>
  BY DEF LoadCount, LoadMean, LoadM2, SwapCount, SwapCountFails, StoreMean, histogram, statLocals,
         statHistory
<1>3. p \in SummedAt /\ q \in SummedAt /\ p \in CountedAt /\ q \in CountedAt
  BY <1>1, StepSets
<1>4. CountGoesOn(p, q) /\ SumGoesOn(t, p, q)
  BY <1>2, <1>3 DEF CountGoesOn, SumGoesOn
<1>5. ASSUME NEW e \in DOMAIN After
      PROVE  ExtremeGoesOn(t, p, q, e)
  <2>1. p \in Passed(e) /\ q \in Passed(e) /\ q # Trying[e]
    BY <1>1, StepSets
  <2> QED
    BY <1>2, <2>1 DEF ExtremeGoesOn
<1> QED
  BY <1>1, <1>2, <1>3, <1>4, <1>5, Shifting, StepSets DEF GoesOn

LEMMA RecordShifts ==
  ASSUME StatsTypes, InFlight, NEW t \in Recorders, RecordStep(t)
  PROVE  \E p, q \in StatSteps : /\ Shifts(rpc, rpc', t, p, q)
                                 /\ Starts(t, p, q) \/ Ends(t, p, q) \/ GoesOn(t, p, q)
<1>1. CASE \E x \in Samples : StartRecord(t, x)
  <2>1. PICK p, q : p = "idle" /\ q = "count"
    OBVIOUS
  <2>2. StatGoto(t, p, q)
    BY <1>1, <2>1 DEF StartRecord
  <2> QED
    BY <1>1, <2>1, <2>2, Shifting, StepSets DEF Starts
<1>2. CASE StoreM2(t)
  <2>1. PICK p, q : p = "storeM2" /\ q = "idle"
    OBVIOUS
  <2>2. StatGoto(t, p, q)
    BY <1>2, <2>1 DEF StoreM2
  <2> QED
    BY <1>2, <2>1, <2>2, Shifting, StepSets DEF Ends
<1> QED
  BY <1>1, <1>2, SumsGoOn, ExtremesGoOn, TrackersGoOn DEF RecordStep

LEMMA InFlightKeeps ==
  ASSUME StatsTypes, InFlight, NEW t \in Recorders, RecordStep(t)
  PROVE  InFlight'
<1>1. PICK p \in StatSteps, q \in StatSteps :
        Shifts(rpc, rpc', t, p, q) /\ (Starts(t, p, q) \/ Ends(t, p, q) \/ GoesOn(t, p, q))
  BY RecordShifts
<1>2. rpc' \in [Recorders -> StatSteps] /\ \A u \in Recorders : rpc'[u] = IF u = t THEN q ELSE rpc[u]
  BY <1>1 DEF Shifts
<1>3. \A u \in Recorders : u # t => sample'[u] = sample[u]
  <2>1. sample' = sample \/ \E x : sample' = [sample EXCEPT ![t] = x]
    BY <1>1 DEF Starts, Ends, GoesOn, StartRecord, StoreM2
  <2> QED
    BY <2>1 DEF StatsTypes
<1>4. q # "idle" => sample'[t] \in Samples
  <2>1. CASE Starts(t, p, q)
    <3>1. \E x \in Samples : sample' = [sample EXCEPT ![t] = x]
      BY <2>1 DEF Starts, StartRecord
    <3> QED
      BY <3>1 DEF StatsTypes
  <2>2. CASE GoesOn(t, p, q)
    <3>1. p # "idle" /\ rpc[t] = p
      BY <1>1, <2>2, StepSets DEF GoesOn, Shifts
    <3> QED
      BY <2>2, <3>1 DEF GoesOn, InFlight
  <2> QED
    BY <1>1, <2>1, <2>2 DEF Ends
<1> QED
  BY <1>2, <1>3, <1>4 DEF InFlight

---------------------------------------------------------------------------
(* The invariant: what the threads under way still have to do, and what a  *)
(* reset under way has done                                                *)

\* At most so many records end as start.
Active == {"count"} \union CountedAt
Bounded == /\ recs \in Nat /\ recs <= MaxRecords
           /\ Len(stored) + Cardinality(Those(rpc, Active)) <= recs

Extremes == \A e \in DOMAIN After : ExtremeTally(e, extreme[e], stored, rpc, sample, seen)
Tallies == /\ CountTally(hcount, stored, rpc) /\ TrackTally(jcount, stored, rpc)
           /\ SumTally(hsum, stored, rpc, sample) /\ BucketTally(buckets, stored, rpc, sample)
           /\ Extremes

\* No two records overlapped: one thread at most is under way, and what it has loaded
\* is what is stored.
Undisturbed ==
  /\ \A t, u \in Recorders : rpc[t] # "idle" /\ rpc[u] # "idle" => t = u
  /\ \A t \in Recorders : Loaded(rpc[t], read[t], stored, jmean, jm2)
  /\ IF \E t \in Recorders : rpc[t] = "storeM2"
     THEN \A t \in Recorders : rpc[t] = "storeM2" =>
            Settled(stored, read[t].mean, jm2) /\ jmean = NewMean(t)
     ELSE Settled(stored, jmean, jm2)

ClearedSoFar ==
  /\ \A t \in Recorders : rpc[t] = "idle"
  /\ stored = <<>> /\ hcount = 0 /\ hsum = 0 /\ buckets = [b \in Buckets |-> 0]
  /\ clearing = "jitter" => extreme.hmin = U64Max /\ extreme.hmax = 0

StatsExact ==
  /\ ~mixed /\ clearing = "none" => Tallies /\ (~crowded => Undisturbed)
  /\ ~mixed /\ clearing # "none" => ClearedSoFar

StatsInv == StatsTypes /\ InFlight /\ Bounded /\ StatsExact

---------------------------------------------------------------------------
(* Nobody under way and nothing stored                                     *)

LEMMA NobodyAt ==
  ASSUME NEW f, \A t \in Recorders : f[t] = "idle", NEW P, "idle" \notin P
  PROVE  Those(f, P) = {} /\ Cardinality(Those(f, P)) = 0
<1>1. Those(f, P) = {}
  BY DEF Those
<1> QED
  BY <1>1, FS_EmptySet

LEMMA FreshTallies ==
  ASSUME NEW f, \A t \in Recorders : f[t] = "idle", NEW w, NEW l
  PROVE  /\ CountTally(0, <<>>, f) /\ TrackTally(0, <<>>, f) /\ SumTally(0, <<>>, f, w)
         /\ BucketTally([b \in Buckets |-> 0], <<>>, f, w)
         /\ \A e \in DOMAIN After : ExtremeTally(e, Worst(e), <<>>, f, w, l)
<1>1. Len(<<>>) = 0
  OBVIOUS
<1>2. Those(f, CountedAt) = {} /\ Those(f, SwappedAt) = {} /\ Those(f, SummedAt) = {}
  BY NobodyAt, StepSets
<1>3. Cardinality({}) = 0 /\ IsFiniteSet({})
  BY FS_EmptySet
<1>4. CountTally(0, <<>>, f) /\ TrackTally(0, <<>>, f)
  BY <1>1, <1>2, <1>3 DEF CountTally, TrackTally
<1>5. SumTally(0, <<>>, f, w)
  <2>1. Weigh({}, w) = {}
    BY DEF Weigh
  <2>2. PICK W : W = Weigh(Those(f, SummedAt), w)
    OBVIOUS
  <2>3. IsFiniteSet(W) /\ Cardinality(W) = 0
    BY <1>2, <1>3, <2>1, <2>2
  <2>4. SumOf(<<>>) + Cardinality(W) = 0
    BY <2>3, SumOfNone
  <2> QED
    BY <2>2, <2>3, <2>4 DEF SumTally
<1>6. BucketTally([b \in Buckets |-> 0], <<>>, f, w)
  <2>1. \A b : Placed(<<>>, b) = {} /\ Placing(f, w, b) = {}
    BY <1>1 DEF Placed, Placing
  <2>2. \A b : Cardinality(Placed(<<>>, b)) + Cardinality(Placing(f, w, b)) = 0
    BY <1>3, <2>1
  <2> QED
    BY <2>2 DEF BucketTally
<1>7. ASSUME NEW e \in DOMAIN After
      PROVE  ExtremeTally(e, Worst(e), <<>>, f, w, l)
  <2>1. Those(f, Passed(e)) = {}
    BY StepSets, NobodyAt
  <2>2. Known(e, <<>>, f, w) = {}
    BY <1>1, <2>1 DEF Known
  <2>3. Trying[e] # "idle"
    BY StepSets
  <2> QED
    BY <2>2, <2>3 DEF ExtremeTally
<1> QED
  BY <1>4, <1>5, <1>6, <1>7

LEMMA LoadedIdle == \A r, s, mean, m2 : Loaded("idle", r, s, mean, m2) /\ Loaded("count", r, s, mean, m2)
  BY DEF Loaded, TrackedAt, SwappedAt

LEMMA StatsInvInit == StatsInit => StatsInv
<1> SUFFICES ASSUME StatsInit PROVE StatsInv
  OBVIOUS
<1>1. StatsTypes
  BY StatTypesInit
<1>2. \A t \in Recorders : rpc[t] = "idle"
  BY DEF StatsInit
<1>3. InFlight
  BY <1>2, StepSets DEF InFlight, StatsInit
<1>4. Bounded
  <2>1. Cardinality(Those(rpc, Active)) = 0
    BY <1>2, NobodyAt, StepSets DEF Active
  <2> QED
    BY <2>1, StatBoundsAssumption DEF Bounded, StatsInit
<1>5. Tallies
  <2>1. \A e \in DOMAIN After : extreme[e] = Worst(e)
    BY ExtremesAre DEF StatsInit, Worst
  <2> QED
    BY <1>2, <2>1, FreshTallies DEF Tallies, Extremes, StatsInit
<1>6. Undisturbed
  BY <1>2, LoadedIdle, SettledNone DEF Undisturbed, StatsInit
<1> QED
  BY <1>1, <1>3, <1>4, <1>5, <1>6 DEF StatsInv, StatsExact, StatsInit

---------------------------------------------------------------------------
(* Tallies and bound, step by step                                         *)

LEMMA StoredIs ==
  ASSUME StatsTypes, NEW x \in Samples
  PROVE  /\ stored \in Seq(Nat) /\ Len(stored) \in Nat /\ x \in Nat
         /\ Len(Append(stored, x)) = Len(stored) + 1
<1>1. Samples \subseteq Nat
  BY SamplesAssumption, LatencyIs DEF Latencies
<1>2. stored \in Seq(Samples)
  BY DEF StatsTypes, StatsTypeOK
<1> QED
  BY <1>1, <1>2, SeqTypes, AppendedIs

LEMMA GoingOnKeeps ==
  ASSUME StatsTypes, Tallies, NEW t \in Recorders, NEW p, NEW q, Shifts(rpc, rpc', t, p, q), GoesOn(t, p, q)
  PROVE  Tallies'
<1>1. stored' = stored /\ sample' = sample /\ buckets' = buckets
  BY DEF GoesOn
<1>2. Len(stored) \in Nat /\ stored \in Seq(Nat)
  <2>1. stored \in Seq(Samples) /\ Samples \subseteq Nat
    BY SamplesAssumption, LatencyIs DEF Latencies, StatsTypes, StatsTypeOK
  <2> QED
    BY <2>1, SeqTypes
<1>3. q \in CountedAt /\ p # "idle" /\ q # "idle"
  BY StepSets DEF GoesOn
<1>4. CountTally(hcount', stored', rpc')
  <2>1. hcount \in Nat /\ hcount' \in Nat
    BY DEF StatsTypes, StatsTypeOK, GoesOn, CountGoesOn
  <2>2. PICK k \in Nat : k = Len(stored)
    BY <1>2
  <2>5. Tells(hcount, k, rpc, CountedAt)
    BY <2>2 DEF Tallies, CountTally, Tells
  <2>3. Keeps(CountedAt, hcount, hcount', k, k, p, q)
    <3>1. CASE hcount' = hcount /\ (p \in CountedAt)
      BY <1>3, <2>1, <2>2, <3>1 DEF Keeps
    <3>2. CASE hcount' = hcount + 1 /\ p \notin CountedAt
      BY <1>3, <2>1, <2>2, <3>2 DEF Keeps
    <3> QED
      BY <3>1, <3>2 DEF GoesOn, CountGoesOn
  <2>4. Tells(hcount', k, rpc', CountedAt)
    BY <2>1, <2>3, <2>5, CountMoves
  <2> QED
    BY <1>1, <2>2, <2>4 DEF CountTally, Tells
<1>5. TrackTally(jcount', stored', rpc')
  <2>1. jcount \in Nat /\ jcount' \in Nat
    BY DEF StatsTypes, StatsTypeOK, GoesOn, TrackGoesOn
  <2>2. PICK k \in Nat : k = Len(stored)
    BY <1>2
  <2>5. Tells(jcount, k, rpc, SwappedAt)
    BY <2>2 DEF Tallies, TrackTally, Tells
  <2>3. Keeps(SwappedAt, jcount, jcount', k, k, p, q)
    <3>1. CASE jcount' = jcount /\ (q \in SwappedAt <=> p \in SwappedAt)
      BY <2>1, <2>2, <3>1 DEF Keeps
    <3>2. CASE jcount' = jcount + 1 /\ q \in SwappedAt /\ p \notin SwappedAt
      BY <2>1, <2>2, <3>2 DEF Keeps
    <3> QED
      BY <3>1, <3>2 DEF GoesOn, TrackGoesOn
  <2>4. Tells(jcount', k, rpc', SwappedAt)
    BY <2>1, <2>3, <2>5, CountMoves
  <2> QED
    BY <1>1, <2>2, <2>4 DEF TrackTally, Tells
<1>6. SumTally(hsum', stored', rpc', sample')
  <2>1. SumTally(hsum, stored, rpc, sample)
    BY DEF Tallies
  <2>2. CASE hsum' = hsum /\ (q \in SummedAt <=> p \in SummedAt)
    <3>1. SumTally(hsum, stored, rpc', sample)
      BY <2>1, <2>2, SumStays
    <3> QED
      BY <1>1, <2>2, <3>1
  <2>3. CASE hsum' = hsum + sample[t] /\ q \in SummedAt /\ p \notin SummedAt
    <3>1. hsum \in Nat /\ sample \in [Recorders -> Nat]
      BY DEF StatsTypes, StatsTypeOK
    <3>2. SumTally(hsum + sample[t], stored, rpc', sample)
      BY <1>2, <2>1, <2>3, <3>1, SumAdded
    <3> QED
      BY <1>1, <2>3, <3>2
  <2> QED
    BY <2>2, <2>3 DEF GoesOn, SumGoesOn
<1>7. BucketTally(buckets', stored', rpc', sample')
  <2>1. BucketTally(buckets, stored, rpc', sample)
    BY <1>3, BucketsStay DEF Tallies
  <2> QED
    BY <1>1, <2>1
<1>8. ASSUME NEW e \in DOMAIN After
      PROVE  ExtremeTally(e, extreme'[e], stored', rpc', sample', seen')
  <2>1. /\ ExtremeTally(e, extreme[e], stored, rpc, sample, seen)
        /\ extreme[e] \in Nat /\ sample \in [Recorders -> Nat] /\ seen \in [Recorders -> Nat]
    BY DEF Tallies, Extremes, StatsTypes, StatsTypeOK
  <2>2. \A u \in Recorders : u # t => seen'[u] = seen[u]
    BY DEF GoesOn
  <2>3. CASE /\ extreme'[e] = extreme[e] /\ (q \in Passed(e) <=> p \in Passed(e))
             /\ q = Trying[e] => seen'[t] = extreme[e]
    <3>1. q = Trying[e] => ~Better(e, seen'[t], extreme[e])
      BY <2>1, <2>3 DEF Better
    <3>2. ExtremeTally(e, extreme[e], stored, rpc', sample, seen')
      BY <2>1, <2>2, <2>3, <3>1, ExtremeStays
    <3> QED
      BY <1>1, <2>3, <3>2
  <2>4. CASE /\ p = Trying[e] /\ p \notin Passed(e) /\ q \in Passed(e) /\ q # Trying[e]
             /\ Passes(e, extreme[e], extreme'[e], sample[t], seen[t])
    <3>1. PICK x \in Int, y \in Int : x = extreme[e] /\ y = extreme'[e]
      BY <2>1, <2>4 DEF Passes
    <3>2. Passes(e, x, y, sample[t], seen[t])
      BY <2>4, <3>1
    <3>3. ExtremeTally(e, x, stored, rpc, sample, seen)
      BY <2>1, <3>1
    <3>4. p = Trying[e] /\ p \notin Passed(e) /\ q \in Passed(e) /\ q # Trying[e]
      BY <2>4
    <3>5. sample \in [Recorders -> Nat] /\ seen \in [Recorders -> Nat]
      BY <2>1
    <3>6. PICK v, l, m : v = sample /\ l = seen /\ m = seen'
      OBVIOUS
    <3>7. /\ ExtremeTally(e, x, stored, rpc, v, l) /\ Passes(e, x, y, v[t], l[t])
          /\ v \in [Recorders -> Nat] /\ l \in [Recorders -> Nat] /\ \A u \in Recorders : u # t => m[u] = l[u]
      BY <2>2, <3>2, <3>3, <3>5, <3>6
    <3>8. PICK f, g, s : f = rpc /\ g = rpc' /\ s = stored
      OBVIOUS
    <3>9. Shifts(f, g, t, p, q) /\ s \in Seq(Nat) /\ ExtremeTally(e, x, s, f, v, l)
      BY <1>2, <3>7, <3>8
    <3>10. ExtremeTally(e, y, s, g, v, m)
      BY <3>4, <3>7, <3>9, ExtremePassed
    <3>11. ExtremeTally(e, y, stored, rpc', sample, seen')
      BY <3>6, <3>8, <3>10
    <3> QED
      BY <1>1, <3>1, <3>11
  <2> QED
    BY <2>3, <2>4 DEF GoesOn, ExtremeGoesOn
<1>9. Extremes'
  BY <1>8 DEF Extremes
<1> QED
  BY <1>4, <1>5, <1>6, <1>7, <1>9 DEF Tallies

LEMMA StartingKeeps ==
  ASSUME StatsTypes, Tallies, NEW t \in Recorders, NEW p, NEW q, Shifts(rpc, rpc', t, p, q), Starts(t, p, q)
  PROVE  Tallies'
<1>1. PICK x \in Samples : StartRecord(t, x)
  BY DEF Starts
<1>2. /\ stored' = stored /\ hcount' = hcount /\ jcount' = jcount /\ hsum' = hsum /\ extreme' = extreme
      /\ seen' = seen /\ sample' = [sample EXCEPT ![t] = x]
      /\ buckets' = [buckets EXCEPT ![BucketFor(x)] = buckets[BucketFor(x)] + 1]
  BY <1>1 DEF StartRecord, jitter
<1>3. stored \in Seq(Nat) /\ Len(stored) \in Nat /\ x \in Nat
  BY StoredIs
<1>4. sample'[t] = x /\ \A u \in Recorders : u # t => sample'[u] = sample[u]
  BY <1>2 DEF StatsTypes
<1>5. p = "idle" /\ q = "count" /\ q # "idle"
  BY DEF Starts
<1>6. p \notin CountedAt /\ q \notin CountedAt
  BY <1>5, StepSets
<1>7. p \notin SummedAt /\ q \notin SummedAt /\ p \notin SwappedAt /\ q \notin SwappedAt
  BY <1>6, StepSets
<1>8. CountTally(hcount, stored, rpc') /\ TrackTally(jcount, stored, rpc')
  <2>1. Those(rpc', CountedAt) = Those(rpc, CountedAt) /\ Those(rpc', SwappedAt) = Those(rpc, SwappedAt)
    BY <1>6, <1>7, StaysAt
  <2> QED
    BY <2>1 DEF Tallies, CountTally, TrackTally
<1>9. SumTally(hsum, stored, rpc', sample')
  <2>1. \A u \in Those(rpc, SummedAt) : u \in Recorders /\ u # t
    BY <1>7 DEF Those, Shifts
  <2>2. \A u \in Those(rpc, SummedAt) : sample'[u] = sample[u]
    BY <1>4, <2>1
  <2> QED
    BY <1>7, <2>2, SumStays DEF Tallies
<1>10. BucketTally(buckets', stored, rpc', sample')
  <2>1. buckets \in [Buckets -> Nat] /\ BucketTally(buckets, stored, rpc, sample)
    BY DEF StatsTypes, StatsTypeOK, Tallies
  <2>2. OneInBucket(buckets, buckets', sample'[t])
    <3>1. \A b \in Buckets : buckets'[b] = buckets[b] + (IF BucketFor(x) = b THEN 1 ELSE 0)
      BY <1>2, <2>1
    <3> QED
      BY <1>4, <3>1 DEF OneInBucket
  <2> QED
    BY <1>3, <1>4, <1>5, <2>1, <2>2, BucketStarts
<1>11. ASSUME NEW e \in DOMAIN After
       PROVE  ExtremeTally(e, extreme[e], stored, rpc', sample', seen)
  <2>1. p \notin Passed(e) /\ q \notin Passed(e) /\ q # Trying[e]
    BY <1>5, <1>7, StepSets
  <2>2. \A u \in Those(rpc, Passed(e)) : u \in Recorders /\ u # t
    BY <2>1 DEF Those, Shifts
  <2>3. \A u \in Those(rpc, Passed(e)) : sample'[u] = sample[u]
    BY <1>4, <2>2
  <2>4. ExtremeTally(e, extreme[e], stored, rpc, sample, seen)
    BY DEF Tallies, Extremes
  <2> QED
    BY <2>1, <2>3, <2>4, ExtremeStays
<1> QED
  BY <1>2, <1>8, <1>9, <1>10, <1>11 DEF Tallies, Extremes

LEMMA EndingKeeps ==
  ASSUME StatsTypes, InFlight, Tallies, NEW t \in Recorders, NEW p, NEW q,
         Shifts(rpc, rpc', t, p, q), Ends(t, p, q)
  PROVE  Tallies'
<1>1. /\ stored' = Append(stored, sample[t]) /\ sample' = [sample EXCEPT ![t] = 0]
      /\ hcount' = hcount /\ jcount' = jcount /\ hsum' = hsum /\ extreme' = extreme
      /\ seen' = seen /\ buckets' = buckets
  BY DEF Ends, StoreM2, histogram
<1>2. p = "storeM2" /\ q = "idle" /\ p # "idle" /\ rpc[t] = p
  BY DEF Ends, Shifts
<1>3. PICK x \in Samples : x = sample[t]
  BY <1>2 DEF InFlight
<1>4. stored \in Seq(Nat) /\ Len(stored) \in Nat /\ x \in Nat /\ Len(Append(stored, x)) = Len(stored) + 1
  BY StoredIs
<1>5. \A u \in Recorders : u # t => sample'[u] = sample[u]
  BY <1>1 DEF StatsTypes
<1>6. p \in SwappedAt /\ q \notin CountedAt
  BY <1>2, StepSets
<1>7. /\ p \in SummedAt /\ p \in CountedAt /\ q \notin SummedAt /\ q \notin SwappedAt
  BY <1>6, StepSets
<1>8. CountTally(hcount', stored', rpc')
  <2>1. PICK k \in Nat, l \in Nat : k = Len(stored) /\ l = Len(Append(stored, x)) /\ l = k + 1
    BY <1>4
  <2>2. hcount \in Nat /\ Tells(hcount, k, rpc, CountedAt)
    BY <2>1 DEF StatsTypes, StatsTypeOK, Tallies, CountTally, Tells
  <2>3. Keeps(CountedAt, hcount, hcount, k, l, p, q)
    BY <1>6, <1>7, <2>1, <2>2 DEF Keeps
  <2>4. Tells(hcount, l, rpc', CountedAt)
    BY <2>2, <2>3, CountMoves
  <2> QED
    BY <1>1, <1>3, <2>1, <2>4 DEF CountTally, Tells
<1>9. TrackTally(jcount', stored', rpc')
  <2>1. PICK k \in Nat, l \in Nat : k = Len(stored) /\ l = Len(Append(stored, x)) /\ l = k + 1
    BY <1>4
  <2>2. jcount \in Nat /\ Tells(jcount, k, rpc, SwappedAt)
    BY <2>1 DEF StatsTypes, StatsTypeOK, Tallies, TrackTally, Tells
  <2>3. Keeps(SwappedAt, jcount, jcount, k, l, p, q)
    BY <1>6, <1>7, <2>1, <2>2 DEF Keeps
  <2>4. Tells(jcount, l, rpc', SwappedAt)
    BY <2>2, <2>3, CountMoves
  <2> QED
    BY <1>1, <1>3, <2>1, <2>4 DEF TrackTally, Tells
<1>10. SumTally(hsum, Append(stored, sample[t]), rpc', sample')
  <2>1. hsum \in Nat /\ sample \in [Recorders -> Nat] /\ SumTally(hsum, stored, rpc, sample)
    BY DEF StatsTypes, StatsTypeOK, Tallies
  <2> QED
    BY <1>4, <1>5, <1>7, <2>1, SumStored
<1>11. BucketTally(buckets, Append(stored, x), rpc', sample')
  <2>1. BucketTally(buckets, stored, rpc, sample) /\ sample[t] = x
    BY <1>3 DEF Tallies
  <2> QED
    BY <1>2, <1>4, <1>5, <2>1, BucketEnds
<1>12. ASSUME NEW e \in DOMAIN After
       PROVE  ExtremeTally(e, extreme[e], Append(stored, sample[t]), rpc', sample', seen)
  <2>1. p \in Passed(e) /\ "idle" \notin Passed(e) /\ Trying[e] # "idle"
    BY <1>6, StepSets
  <2>2. ExtremeTally(e, extreme[e], stored, rpc, sample, seen) /\ sample \in [Recorders -> Nat]
    BY DEF Tallies, Extremes, StatsTypes
  <2>3. Shifts(rpc, rpc', t, p, "idle")
    BY <1>2
  <2> QED
    BY <1>4, <1>5, <2>1, <2>2, <2>3, ExtremeEnds
<1> QED
  BY <1>1, <1>3, <1>8, <1>9, <1>10, <1>11, <1>12 DEF Tallies, Extremes

LEMMA BoundKeeps ==
  ASSUME StatsTypes, InFlight, Bounded, NEW t \in Recorders, NEW p, NEW q, Shifts(rpc, rpc', t, p, q),
         Starts(t, p, q) \/ Ends(t, p, q) \/ GoesOn(t, p, q)
  PROVE  Bounded'
<1>1. /\ Cardinality(Those(rpc, Active)) \in Nat /\ Cardinality(Those(rpc', Active)) \in Nat
      /\ Cardinality(Those(rpc', Active)) = Cardinality(Those(rpc, Active)) + (IF q \in Active THEN 1 ELSE 0)
                                                                        - (IF p \in Active THEN 1 ELSE 0)
  BY ThreadMoves
<1>2. PICK m \in Nat, n \in Nat : m = Cardinality(Those(rpc, Active)) /\ n = Cardinality(Those(rpc', Active))
  BY <1>1
<1>3. recs \in Nat /\ recs <= MaxRecords /\ Len(stored) + m <= recs
  BY <1>2 DEF Bounded
<1>4. "idle" \notin Active /\ "count" \in Active /\ "storeM2" \in Active
  BY StepSets DEF Active
<1>5. CASE Starts(t, p, q)
  <2>1. recs < MaxRecords /\ recs' = recs + 1 /\ stored' = stored
    BY <1>5 DEF Starts, StartRecord
  <2>2. n = m + 1
    BY <1>1, <1>2, <1>4, <1>5 DEF Starts
  <2>3. Len(stored) \in Nat
    BY SeqTypes DEF StatsTypes, StatsTypeOK
  <2>4. recs' \in Nat /\ recs' <= MaxRecords /\ Len(stored) + n <= recs'
    BY <1>3, <2>1, <2>2, <2>3, StatBoundsAssumption
  <2> QED
    BY <1>2, <2>1, <2>4 DEF Bounded
<1>6. CASE Ends(t, p, q)
  <2>1. recs' = recs /\ stored' = Append(stored, sample[t])
    BY <1>6 DEF Ends, StoreM2
  <2>2. n = m - 1
    BY <1>1, <1>2, <1>4, <1>6 DEF Ends
  <2>3. Len(stored) \in Nat /\ Len(stored') = Len(stored) + 1
    <3>1. sample[t] \in Samples
      BY <1>6 DEF Ends, Shifts, InFlight
    <3> QED
      BY <2>1, <3>1, StoredIs
  <2>4. Len(stored') + n <= recs'
    BY <1>3, <2>1, <2>2, <2>3
  <2> QED
    BY <1>2, <1>3, <2>1, <2>4 DEF Bounded
<1>7. CASE GoesOn(t, p, q)
  <2>1. recs' = recs /\ stored' = stored
    BY <1>7 DEF GoesOn
  <2>2. p \in Active /\ q \in Active
    BY <1>7 DEF GoesOn, Active
  <2>3. n = m
    BY <1>1, <1>2, <2>2
  <2> QED
    BY <1>2, <1>3, <2>1, <2>3 DEF Bounded
<1> QED
  BY <1>5, <1>6, <1>7

---------------------------------------------------------------------------
(* Records that nobody disturbs, step by step                              *)

LEMMA OneUnderWay ==
  ASSUME InFlight, NEW t \in Recorders, NEW p, NEW q, Shifts(rpc, rpc', t, p, q),
         \A u \in Recorders : u # t => rpc[u] = "idle",
         Loaded(q, read'[t], stored', jmean', jm2'),
         q = "storeM2" => Settled(stored', read'[t].mean, jm2') /\ jmean' = NewMean(t)',
         q # "storeM2" => Settled(stored', jmean', jm2')
  PROVE  Undisturbed'
<1>1. rpc'[t] = q /\ \A u \in Recorders : u # t => rpc'[u] = "idle"
  BY DEF Shifts
<1>2. \A u, v \in Recorders : rpc'[u] # "idle" /\ rpc'[v] # "idle" => u = v
  BY <1>1
<1>3. \A u \in Recorders : Loaded(rpc'[u], read'[u], stored', jmean', jm2')
  BY <1>1, LoadedIdle
<1>4. CASE q = "storeM2"
  BY <1>1, <1>2, <1>3, <1>4 DEF Undisturbed
<1>5. CASE q # "storeM2"
  BY <1>1, <1>2, <1>3, <1>5 DEF Undisturbed
<1> QED
  BY <1>4, <1>5

\* Before the tracker is reached nothing has been loaded of it.
LEMMA NothingLoaded ==
  \A p, r, s, mean, m2 : p \notin TrackedAt \ {"loadCount"} => Loaded(p, r, s, mean, m2)
  BY DEF Loaded, TrackedAt, SwappedAt

LEMMA UndisturbedStarts ==
  ASSUME InFlight, Undisturbed, NEW t \in Recorders, NEW p, NEW q, Shifts(rpc, rpc', t, p, q),
         Starts(t, p, q), ~crowded'
  PROVE  Undisturbed' /\ ~crowded
<1>1. /\ ~crowded /\ Busy = {} /\ UNCHANGED <<jmean, jm2, stored>>
      /\ q = "count"
  BY DEF Starts, StartRecord, jitter
<1>2. \A u \in Recorders : rpc[u] = "idle"
  BY <1>1 DEF Busy
<1>3. Settled(stored', jmean', jm2')
  BY <1>1, <1>2 DEF Undisturbed
<1>4. q # "storeM2" /\ Loaded(q, read'[t], stored', jmean', jm2')
  BY <1>1, LoadedIdle
<1> QED
  BY <1>1, <1>2, <1>3, <1>4, OneUnderWay

LEMMA UndisturbedGoesOn ==
  ASSUME StatsTypes, InFlight, Tallies, Undisturbed, NEW t \in Recorders, RecordStep(t),
         NEW p, NEW q, Shifts(rpc, rpc', t, p, q), GoesOn(t, p, q)
  PROVE  Undisturbed'
<1>0. rpc[t] = p /\ rpc'[t] = q /\ p # "idle" /\ q # "idle" /\ stored' = stored /\ sample' = sample
  <2>1. rpc[t] = p /\ rpc'[t] = q
    BY DEF Shifts
  <2> QED
    BY <2>1, StepSets DEF GoesOn
<1>1. \A u \in Recorders : u # t => rpc[u] = "idle"
  BY <1>0 DEF Undisturbed
<1>2. read \in [Recorders -> [count : Nat, mean : Nat, m2 : Nat]]
  BY DEF StatsTypes, StatsTypeOK
<1>3. Loaded(p, read[t], stored, jmean, jm2)
  BY <1>0 DEF Undisturbed
<1>4. p # "storeM2" => Settled(stored, jmean, jm2)
  BY <1>0, <1>1 DEF Undisturbed
<1>5. CASE \/ CountRecord(t) \/ SumRecord(t) \/ SwapCountFails(t)
           \/ \E e \in DOMAIN After : \/ LoadExtreme(t, e) \/ ExtremeStands(t, e)
                                      \/ SwapExtreme(t, e) \/ SwapFails(t, e)
  <2>1. UNCHANGED <<jmean, jm2>>
    BY <1>5 DEF CountRecord, SumRecord, SwapCountFails, LoadExtreme, ExtremeStands, SwapExtreme, SwapFails,
                jitter
  <2>2. q \notin TrackedAt \ {"loadCount"} /\ p # "storeM2"
    <3>1. CASE CountRecord(t) \/ SumRecord(t) \/ SwapCountFails(t)
      BY <1>0, <3>1 DEF CountRecord, SumRecord, SwapCountFails, StatGoto, InFlight, TrackedAt, SwappedAt
    <3>2. ASSUME NEW e \in DOMAIN After,
                 LoadExtreme(t, e) \/ ExtremeStands(t, e) \/ SwapExtreme(t, e) \/ SwapFails(t, e)
          PROVE  q \notin TrackedAt \ {"loadCount"} /\ p # "storeM2"
      <4>1. e \in {"hmin", "hmax", "jmin", "jmax"}
        BY ExtremesAre
      <4>2. q \in {Trying[e], After[e]} /\ p \in {e, Trying[e]}
        BY <1>0, <3>2 DEF LoadExtreme, ExtremeStands, SwapExtreme, SwapFails, StatGoto, InFlight
      <4> QED
        BY <4>1, <4>2 DEF Trying, After, TrackedAt, SwappedAt
    <3> QED
      BY <1>5, <3>1, <3>2
  <2>3. q # "storeM2"
    BY <2>2, StepSets
  <2>4. Loaded(q, read'[t], stored', jmean', jm2')
    BY <2>2, NothingLoaded
  <2>5. Settled(stored', jmean', jm2')
    BY <1>0, <1>4, <2>1, <2>2
  <2> QED
    BY <1>1, <2>3, <2>4, <2>5, OneUnderWay
<1>6. CASE LoadCount(t)
  <2>1. /\ UNCHANGED <<jmean, jm2>> /\ read' = [read EXCEPT ![t].count = jcount]
        /\ p = "loadCount" /\ q = "loadMean"
    BY <1>0, <1>6 DEF LoadCount, StatGoto, InFlight, jitter
  <2>2. read'[t].count = jcount
    BY <1>2, <2>1
  <2>3. jcount = Len(stored)
    <3>1. Those(rpc, SwappedAt) = {}
      <4>1. p \notin SwappedAt /\ "idle" \notin SwappedAt
        BY <2>1, StepSets
      <4> QED
        BY <1>0, <1>1, <4>1 DEF Those
    <3>2. Len(stored) \in Nat
      BY SeqTypes DEF StatsTypes, StatsTypeOK
    <3>3. jcount = Len(stored) + 0
      BY <3>1, FS_EmptySet DEF Tallies, TrackTally
    <3> QED
      BY <3>2, <3>3
  <2>4. Loaded(q, read'[t], stored', jmean', jm2')
    BY <1>0, <2>1, <2>2, <2>3 DEF Loaded
  <2>5. Settled(stored', jmean', jm2') /\ q # "storeM2"
    BY <1>0, <1>4, <2>1
  <2> QED
    BY <1>1, <2>4, <2>5, OneUnderWay
<1>7. CASE LoadMean(t)
  <2>1. /\ UNCHANGED <<jmean, jm2>> /\ read' = [read EXCEPT ![t].mean = jmean]
        /\ p = "loadMean" /\ q = "loadM2"
    BY <1>0, <1>7 DEF LoadMean, StatGoto, InFlight, jitter
  <2>2. read'[t].mean = jmean /\ read'[t].count = read[t].count
    BY <1>2, <2>1
  <2>3. Loaded(q, read'[t], stored', jmean', jm2')
    BY <1>0, <1>3, <2>1, <2>2 DEF Loaded, TrackedAt
  <2>4. Settled(stored', jmean', jm2') /\ q # "storeM2"
    BY <1>0, <1>4, <2>1
  <2> QED
    BY <1>1, <2>3, <2>4, OneUnderWay
<1>8. CASE LoadM2(t)
  <2>1. /\ UNCHANGED <<jmean, jm2>> /\ read' = [read EXCEPT ![t].m2 = jm2]
        /\ p = "loadM2" /\ q = "swapCount"
    BY <1>0, <1>8 DEF LoadM2, StatGoto, InFlight, jitter
  <2>2. read'[t].m2 = jm2 /\ read'[t].mean = read[t].mean /\ read'[t].count = read[t].count
    BY <1>2, <2>1
  <2>3. Loaded(q, read'[t], stored', jmean', jm2')
    BY <1>0, <1>3, <2>1, <2>2 DEF Loaded, TrackedAt
  <2>4. Settled(stored', jmean', jm2') /\ q # "storeM2"
    BY <1>0, <1>4, <2>1
  <2> QED
    BY <1>1, <2>3, <2>4, OneUnderWay
<1>9. CASE SwapCount(t)
  <2>1. UNCHANGED <<jmean, jm2, read>> /\ p = "swapCount" /\ q = "storeMean"
    BY <1>0, <1>9 DEF SwapCount, StatGoto, InFlight, statLocals
  <2>2. Loaded(q, read'[t], stored', jmean', jm2')
    BY <1>0, <1>3, <2>1 DEF Loaded, TrackedAt, SwappedAt
  <2>3. Settled(stored', jmean', jm2') /\ q # "storeM2"
    BY <1>0, <1>4, <2>1
  <2> QED
    BY <1>1, <2>2, <2>3, OneUnderWay
<1>10. CASE StoreMean(t)
  <2>1. UNCHANGED <<jm2, read>> /\ jmean' = NewMean(t) /\ p = "storeMean" /\ q = "storeM2"
    BY <1>0, <1>10 DEF StoreMean, StatGoto, InFlight, statLocals
  <2>2. read[t].count = Len(stored) /\ read[t].mean = jmean /\ read[t].m2 = jm2
    BY <1>3, <2>1 DEF Loaded, TrackedAt, SwappedAt
  <2>3. Loaded(q, read'[t], stored', jmean', jm2')
    BY <1>0, <2>1, <2>2 DEF Loaded
  <2>4. Settled(stored', read'[t].mean, jm2')
    BY <1>0, <1>4, <2>1, <2>2
  <2>5. NewMean(t)' = NewMean(t)
    BY <1>0, <2>1 DEF NewMean, MovedMean
  <2> QED
    BY <1>1, <2>1, <2>3, <2>4, <2>5, OneUnderWay
<1>11. ~StoreM2(t) /\ ~\E x \in Samples : StartRecord(t, x)
  BY <1>0 DEF StoreM2, StartRecord, StatGoto, InFlight
<1> QED
  BY <1>5, <1>6, <1>7, <1>8, <1>9, <1>10, <1>11 DEF RecordStep

LEMMA UndisturbedEnds ==
  ASSUME StatsTypes, InFlight, Bounded, Undisturbed, NEW t \in Recorders,
         NEW p, NEW q, Shifts(rpc, rpc', t, p, q), Ends(t, p, q)
  PROVE  Undisturbed'
<1>1. /\ p = "storeM2" /\ q = "idle" /\ rpc[t] = p
      /\ jmean' = jmean /\ jm2' = NewM2(t) /\ stored' = Append(stored, sample[t])
  BY DEF Ends, StoreM2, Shifts
<1>2. \A u \in Recorders : u # t => rpc[u] = "idle"
  BY <1>1 DEF Undisturbed
<1>3. read[t].count = Len(stored) /\ read[t].m2 = jm2
  <2>1. Loaded(p, read[t], stored, jmean, jm2)
    BY <1>1 DEF Undisturbed
  <2> QED
    BY <1>1, <2>1 DEF Loaded, TrackedAt, SwappedAt
<1>4. Settled(stored, read[t].mean, jm2) /\ jmean = NewMean(t)
  BY <1>1 DEF Undisturbed
<1>5. PICK x \in Samples : x = sample[t]
  BY <1>1 DEF InFlight
<1>6. stored \in Seq(Nat) /\ Len(stored) \in Nat /\ x \in Nat
  BY StoredIs
<1>7. PICK mean \in Nat, m2 \in Nat : mean = read[t].mean /\ m2 = jm2
  BY DEF StatsTypes, StatsTypeOK
<1>8. PICK moved \in Int, grown \in Int : moved = MovedMean(t) /\ grown = MovedM2(t)
  BY NewStoresAre
<1>9. moved = mean + (Scale * x - mean) \div (Len(stored) + 1)
  BY <1>3, <1>5, <1>7, <1>8 DEF MovedMean
<1>10. grown = m2 + (Scale * x - mean) * (Scale * x - moved)
  BY <1>3, <1>5, <1>7, <1>8 DEF MovedM2
<1>11. Len(stored) + 1 <= MaxRecords
  <2>1. PICK n \in Nat : n = Cardinality(Those(rpc, Active))
    BY RecordersFinite DEF Those
  <2>2. n # 0
    <3>1. t \in Those(rpc, Active)
      BY <1>1, StepSets DEF Those, Active
    <3>2. IsFiniteSet(Those(rpc, Active))
      BY RecordersFinite DEF Those
    <3> QED
      BY <2>1, <3>1, <3>2, FS_EmptySet
  <2>3. Len(stored) + n <= recs /\ recs \in Nat /\ recs <= MaxRecords
    BY <2>1 DEF Bounded
  <2> QED
    BY <1>6, <2>2, <2>3, StatBoundsAssumption
<1>12. Settled(stored, mean, m2)
  BY <1>4, <1>7
<1>13. Settled(Append(stored, x), FixedPoint(moved, Scale), FixedPoint(grown, Scale * Scale))
  BY <1>6, <1>9, <1>10, <1>11, <1>12, SettledStep
<1>14. Settled(stored', jmean', jm2')
  BY <1>1, <1>4, <1>5, <1>8, <1>13 DEF NewMean, NewM2
<1>15. q # "storeM2" /\ Loaded(q, read'[t], stored', jmean', jm2')
  BY <1>1, LoadedIdle
<1> QED
  BY <1>2, <1>14, <1>15, OneUnderWay

---------------------------------------------------------------------------
(* What is stored and cleared, together                                    *)

LEMMA RecordKeepsExact ==
  ASSUME StatsInv, NEW t \in Recorders, RecordStep(t)
  PROVE  Bounded' /\ StatsExact'
<1>0. StatsTypes /\ InFlight /\ Bounded /\ StatsExact
  BY DEF StatsInv
<1>1. PICK p \in StatSteps, q \in StatSteps :
        Shifts(rpc, rpc', t, p, q) /\ (Starts(t, p, q) \/ Ends(t, p, q) \/ GoesOn(t, p, q))
  BY <1>0, RecordShifts
<1>2. Bounded'
  BY <1>0, <1>1, BoundKeeps
<1>3. rpc[t] = p /\ clearing' = clearing
  BY <1>1 DEF Shifts, Starts, Ends, GoesOn, StartRecord, StoreM2
<1>4. CASE ~mixed' /\ clearing = "none"
  <2>1. ~mixed
    BY <1>1, <1>4 DEF Starts, Ends, GoesOn, StartRecord, StoreM2
  <2>2. Tallies /\ (~crowded => Undisturbed)
    BY <1>0, <1>4, <2>1 DEF StatsExact
  <2>3. Tallies'
    BY <1>0, <1>1, <2>2, GoingOnKeeps, StartingKeeps, EndingKeeps
  <2>4. ASSUME ~crowded'
        PROVE  Undisturbed'
    <3>1. CASE Starts(t, p, q)
      <4>1. ~crowded
        BY <2>4, <3>1 DEF Starts, StartRecord
      <4> QED
        BY <1>0, <1>1, <2>2, <2>4, <3>1, <4>1, UndisturbedStarts
    <3>2. CASE Ends(t, p, q)
      <4>1. ~crowded
        BY <2>4, <3>2 DEF Ends, StoreM2
      <4> QED
        BY <1>0, <1>1, <2>2, <3>2, <4>1, UndisturbedEnds
    <3>3. CASE GoesOn(t, p, q)
      <4>1. ~crowded
        BY <2>4, <3>3 DEF GoesOn
      <4> QED
        BY <1>0, <1>1, <2>2, <3>3, <4>1, UndisturbedGoesOn
    <3> QED
      BY <1>1, <3>1, <3>2, <3>3
  <2> QED
    BY <1>2, <1>3, <1>4, <2>3, <2>4 DEF StatsExact
<1>5. CASE ~mixed' /\ clearing # "none"
  <2>1. ~Starts(t, p, q) /\ p # "idle"
    <3>1. ~Starts(t, p, q)
      BY <1>5 DEF Starts, StartRecord
    <3> QED
      BY <1>1, <3>1, StepSets DEF Ends, GoesOn
  <2>2. ~mixed
    BY <1>1, <1>5, <2>1 DEF Ends, GoesOn, StoreM2
  <2>3. rpc[t] = "idle"
    BY <1>0, <1>5, <2>2 DEF StatsExact, ClearedSoFar
  <2> QED
    BY <1>3, <2>1, <2>3
<1> QED
  BY <1>2, <1>3, <1>4, <1>5 DEF StatsExact

LEMMA ClearingKeepsExact ==
  ASSUME StatsInv, ClearHistogram \/ ClearExtremes \/ ClearJitter
  PROVE  InFlight' /\ Bounded' /\ StatsExact'
<1>0. StatsTypes /\ InFlight /\ Bounded /\ StatsExact
  BY DEF StatsInv
<1>1. rpc' = rpc /\ sample' = sample /\ recs' = recs /\ seen' = seen
  BY DEF ClearHistogram, ClearExtremes, ClearJitter, statLocals, statHistory
<1>2. InFlight'
  BY <1>0, <1>1 DEF InFlight
<1>3. Bounded'
  <2>1. stored' = stored \/ stored' = <<>>
    BY DEF ClearHistogram, ClearExtremes, ClearJitter, statHistory
  <2>2. Len(stored) \in Nat
    BY <1>0, SeqTypes DEF StatsTypes, StatsTypeOK
  <2>3. Cardinality(Those(rpc, Active)) \in Nat
    BY RecordersFinite DEF Those
  <2>4. CASE stored' = <<>>
    <3>1. PICK n \in Nat : n = Cardinality(Those(rpc, Active))
      BY <2>3
    <3>2. Len(stored) + n <= recs /\ recs \in Nat /\ recs <= MaxRecords
      BY <1>0, <3>1 DEF Bounded
    <3>3. Len(stored') = 0
      BY <2>4
    <3>4. Len(stored') + n <= recs
      BY <2>2, <3>2, <3>3
    <3> QED
      BY <1>1, <3>1, <3>2, <3>4 DEF Bounded
  <2>5. CASE stored' = stored
    BY <1>0, <1>1, <2>5 DEF Bounded
  <2> QED
    BY <2>1, <2>4, <2>5
<1>4. StatsExact'
  <2>1. CASE ClearHistogram
    <3>1. clearing' = "hextreme" /\ (~mixed' => Busy = {})
      BY <2>1 DEF ClearHistogram
    <3>2. /\ buckets' = [b \in Buckets |-> 0] /\ hcount' = 0 /\ hsum' = 0
          /\ stored' = <<>>
      BY <2>1 DEF ClearHistogram
    <3>3. ~mixed' => \A t \in Recorders : rpc'[t] = "idle"
      BY <1>1, <3>1 DEF Busy
    <3> QED
      BY <3>1, <3>2, <3>3 DEF StatsExact, ClearedSoFar
  <2>2. CASE ClearExtremes
    <3>1. /\ clearing = "hextreme" /\ clearing' = "jitter"
          /\ UNCHANGED <<buckets, hcount, hsum, stored, mixed>>
          /\ extreme' = [extreme EXCEPT !.hmin = U64Max, !.hmax = 0]
      BY <2>2 DEF ClearExtremes, histogram, statHistory
    <3>2. extreme'.hmin = U64Max /\ extreme'.hmax = 0
      BY <1>0, <3>1, ExtremesAre DEF StatsTypes, StatsTypeOK
    <3>3. ~mixed => ClearedSoFar
      BY <1>0, <3>1 DEF StatsExact
    <3> QED
      BY <1>1, <3>1, <3>2, <3>3 DEF StatsExact, ClearedSoFar
  <2>3. CASE ClearJitter
    <3>1. /\ clearing = "jitter" /\ clearing' = "none"
          /\ jcount' = 0 /\ jmean' = 0 /\ jm2' = 0
          /\ extreme' = [extreme EXCEPT !.jmin = U64Max, !.jmax = 0]
          /\ UNCHANGED <<buckets, hcount, hsum, stored, mixed>>
      BY <2>3 DEF ClearJitter, histogram, statHistory
    <3> SUFFICES ASSUME ~mixed'
                 PROVE  Tallies' /\ Undisturbed'
      BY <3>1 DEF StatsExact
    <3>2. ClearedSoFar
      BY <1>0, <3>1 DEF StatsExact
    <3>3. \A t \in Recorders : rpc'[t] = "idle"
      BY <1>1, <3>2 DEF ClearedSoFar
    <3>4. \A e \in DOMAIN After : extreme'[e] = Worst(e)
      <4>1. /\ extreme'.jmin = U64Max /\ extreme'.jmax = 0
            /\ extreme'.hmin = extreme.hmin /\ extreme'.hmax = extreme.hmax
        BY <1>0, <3>1, ExtremesAre DEF StatsTypes, StatsTypeOK
      <4>2. extreme.hmin = U64Max /\ extreme.hmax = 0
        BY <3>1, <3>2 DEF ClearedSoFar
      <4> QED
        BY <4>1, <4>2, ExtremesAre DEF Worst
    <3>5. stored' = <<>> /\ hcount' = 0 /\ hsum' = 0 /\ buckets' = [b \in Buckets |-> 0]
      BY <3>1, <3>2 DEF ClearedSoFar
    <3>6. Tallies'
      BY <3>1, <3>3, <3>4, <3>5, FreshTallies DEF Tallies, Extremes
    <3>7. Undisturbed'
      BY <3>1, <3>3, <3>5, LoadedIdle, SettledNone DEF Undisturbed
    <3> QED
      BY <3>6, <3>7
  <2> QED
    BY <2>1, <2>2, <2>3
<1> QED
  BY <1>2, <1>3, <1>4

LEMMA StatsKeep == StatsInv /\ [StatsNext]_statVars => StatsInv'
<1> SUFFICES ASSUME StatsInv, [StatsNext]_statVars PROVE StatsInv'
  OBVIOUS
<1>1. StatsTypes'
  BY StatTypesKeep DEF StatsInv
<1>2. ASSUME NEW t \in Recorders, RecordStep(t) PROVE StatsInv'
  BY <1>1, <1>2, InFlightKeeps, RecordKeepsExact DEF StatsInv
<1>3. CASE ClearHistogram \/ ClearExtremes \/ ClearJitter
  BY <1>1, <1>3, ClearingKeepsExact DEF StatsInv
<1>4. CASE UNCHANGED statVars
  <2>1. UNCHANGED <<buckets, hcount, hsum, jcount, jmean, jm2, extreme, rpc, sample, seen, read, clearing,
                    recs, stored, mixed, crowded>>
    BY <1>4 DEF statVars, histogram, jitter, statLocals, statHistory
  <2>2. InFlight' /\ Bounded'
    BY <2>1 DEF StatsInv, InFlight, Bounded
  <2>3. Tallies' = Tallies /\ Undisturbed' = Undisturbed /\ ClearedSoFar' = ClearedSoFar
    BY <2>1 DEF Tallies, Extremes, Undisturbed, ClearedSoFar, NewMean, MovedMean
  <2>4. StatsExact'
    BY <2>1, <2>3 DEF StatsInv, StatsExact
  <2> QED
    BY <1>1, <2>2, <2>4 DEF StatsInv
<1> QED
  BY <1>2, <1>3, <1>4 DEF StatsNext

---------------------------------------------------------------------------
(* What is known once the threads are quiet                                *)

StatsQuiet == Busy = {} /\ clearing = "none" /\ ~mixed

LEMMA QuietTallies ==
  ASSUME StatsInv, StatsQuiet
  PROVE  /\ StatsTypes /\ Tallies /\ (~crowded => Settled(stored, jmean, jm2))
         /\ \A P : "idle" \notin P => Those(rpc, P) = {}
<1>1. \A t \in Recorders : rpc[t] = "idle"
  BY DEF StatsQuiet, Busy
<1>2. Tallies /\ (~crowded => Undisturbed)
  BY DEF StatsInv, StatsExact, StatsQuiet
<1>3. ~crowded => Settled(stored, jmean, jm2)
  BY <1>1, <1>2 DEF Undisturbed
<1>4. \A P : "idle" \notin P => Those(rpc, P) = {}
  BY <1>1, NobodyAt
<1> QED
  BY <1>2, <1>3, <1>4 DEF StatsInv

LEMMA StoredTypes ==
  ASSUME StatsTypes
  PROVE  /\ stored \in Seq(Samples) /\ stored \in Seq(Latencies) /\ stored \in Seq(Nat) /\ stored \in Seq(Int)
         /\ Len(stored) \in Nat /\ DOMAIN stored = 1..Len(stored)
         /\ \A i \in 1..Len(stored) : stored[i] \in Samples
         /\ Recorded = {stored[i] : i \in 1..Len(stored)} /\ Recorded \subseteq Latencies
<1>1. stored \in Seq(Samples)
  BY DEF StatsTypes, StatsTypeOK
<1>2. Samples \subseteq Latencies /\ Latencies \subseteq Nat /\ Latencies \subseteq Int
  BY SamplesAssumption, LatencyIs DEF Latencies
<1>3. stored \in Seq(Latencies) /\ stored \in Seq(Nat) /\ stored \in Seq(Int)
  BY <1>1, <1>2, SeqTypes
<1>4. /\ Len(stored) \in Nat /\ DOMAIN stored = 1..Len(stored)
      /\ \A i \in 1..Len(stored) : stored[i] \in Samples
  BY <1>1, SeqTypes
<1>5. Recorded = {stored[i] : i \in 1..Len(stored)}
  BY <1>3, SetOf DEF Recorded
<1> QED
  BY <1>1, <1>2, <1>3, <1>4, <1>5

LEMMA CountsAreExact ==
  ASSUME StatsInv, StatsQuiet
  PROVE  /\ hcount = Count /\ jcount = Count /\ hsum = Total
         /\ \A b \in Buckets : buckets[b] = Cardinality(InBucket(b))
<1>1. /\ Those(rpc, CountedAt) = {} /\ Those(rpc, SwappedAt) = {} /\ Those(rpc, SummedAt) = {}
      /\ StatsTypes /\ Tallies
  BY QuietTallies, StepSets
<1>2. Cardinality({}) = 0
  BY FS_EmptySet
<1>3. Len(stored) \in Nat /\ DOMAIN stored = 1..Len(stored) /\ stored \in Seq(Int)
  BY <1>1, StoredTypes
<1>4. hcount = Len(stored) + 0 /\ jcount = Len(stored) + 0
  BY <1>1, <1>2 DEF Tallies, CountTally, TrackTally
<1>5. hsum = SumOf(stored) + 0
  <2>1. Weigh({}, sample) = {}
    BY DEF Weigh
  <2> QED
    BY <1>1, <1>2, <2>1 DEF Tallies, SumTally
<1>6. SumOf(stored) \in Int
  BY <1>3, SumIsInt
<1>7. ASSUME NEW b \in Buckets
      PROVE  buckets[b] = Cardinality(InBucket(b))
  <2>1. Placing(rpc, sample, b) = {}
    BY DEF Placing, StatsQuiet, Busy
  <2>2. PICK n \in Nat : n = Cardinality(Placed(stored, b))
    <3>1. Placed(stored, b) \subseteq 1..Len(stored)
      BY DEF Placed
    <3>2. IsFiniteSet(1..Len(stored))
      BY <1>3, FS_Interval
    <3>3. IsFiniteSet(Placed(stored, b))
      BY <3>1, <3>2, FS_Subset
    <3> QED
      BY <3>3, FS_CardinalityType
  <2>3. buckets[b] = n + 0
    BY <1>1, <1>2, <2>1, <2>2 DEF Tallies, BucketTally
  <2>4. InBucket(b) = Placed(stored, b)
    BY <1>3 DEF InBucket, Placed
  <2> QED
    BY <2>2, <2>3, <2>4
<1> QED
  BY <1>3, <1>4, <1>5, <1>6, <1>7 DEF Count, Total

\* What an extreme is, of what is stored.
LEMMA QuietExtreme ==
  ASSUME StatsInv, StatsQuiet, NEW e \in DOMAIN After
  PROVE  /\ extreme[e] \in Nat /\ \A y \in Recorded : ~Better(e, y, extreme[e])
         /\ extreme[e] = Worst(e) \/ extreme[e] \in Recorded
<1>1. StatsTypes /\ Tallies /\ Those(rpc, Passed(e)) = {}
  BY QuietTallies, StepSets
<1>2. Known(e, stored, rpc, sample) = Recorded
  BY <1>1, StoredTypes DEF Known
<1>3. ExtremeTally(e, extreme[e], stored, rpc, sample, seen)
  BY <1>1 DEF Tallies, Extremes
<1>4. extreme[e] \in Nat
  BY <1>1 DEF StatsTypes, StatsTypeOK
<1> QED
  BY <1>2, <1>3, <1>4 DEF ExtremeTally

LEMMA ExtremesAreExact ==
  ASSUME StatsInv, StatsQuiet, Count > 0
  PROVE  /\ extreme.hmin = Min(Recorded) /\ extreme.jmin = Min(Recorded)
         /\ extreme.hmax = Max(Recorded) /\ extreme.jmax = Max(Recorded)
         /\ Min(Recorded) \in Latencies
<1>1. /\ stored \in Seq(Int) /\ Recorded \subseteq Latencies /\ stored # <<>>
      /\ Recorded = {stored[i] : i \in 1..Len(stored)}
  BY QuietTallies, StoredTypes DEF Count
<1>2. PICK low, high : low = Min(Recorded) /\ high = Max(Recorded)
  OBVIOUS
<1>3. low \in Recorded /\ high \in Recorded /\ \A y \in Recorded : low <= y /\ y <= high
  <2>1. Min(ToSet(stored)) \in ToSet(stored) /\ \A i \in 1..Len(stored) : Min(ToSet(stored)) <= stored[i]
    BY <1>1, LeastIs
  <2>2. Max(ToSet(stored)) \in ToSet(stored) /\ \A i \in 1..Len(stored) : stored[i] <= Max(ToSet(stored))
    BY <1>1, LargestIs
  <2> QED
    BY <1>1, <1>2, <2>1, <2>2 DEF Recorded
<1>4. \A y \in Recorded : y \in Nat /\ y < U64Max
  <2>1. \A y \in Latencies : y \in Nat /\ y < U64Max
    BY U64MaxIs DEF Latencies
  <2> QED
    BY <1>1, <2>1
<1>5. ASSUME NEW e \in DOMAIN After, e = "hmin" \/ e = "jmin"
      PROVE  extreme[e] = low
  <2>1. PICK x \in Nat : x = extreme[e]
    BY QuietExtreme
  <2>2. (x = U64Max \/ x \in Recorded) /\ \A y \in Recorded : ~(y < x)
    BY <1>5, <2>1, QuietExtreme DEF Worst, Better
  <2>3. x \in Recorded
    BY <1>3, <1>4, <2>2
  <2>4. x <= low /\ low <= x
    BY <1>3, <1>4, <2>2, <2>3
  <2> QED
    BY <1>3, <1>4, <2>1, <2>3, <2>4
<1>6. ASSUME NEW e \in DOMAIN After, e = "hmax" \/ e = "jmax"
      PROVE  extreme[e] = high
  <2>1. PICK x \in Nat : x = extreme[e]
    BY QuietExtreme
  <2>2. (x = 0 \/ x \in Recorded) /\ \A y \in Recorded : ~(y > x)
    BY <1>6, <2>1, QuietExtreme DEF Worst, Better
  <2>3. high <= x
    BY <1>3, <1>4, <2>2
  <2>4. x <= high
    BY <1>3, <1>4, <2>2
  <2> QED
    BY <1>3, <1>4, <2>1, <2>3, <2>4
<1>7. extreme["hmin"] = low /\ extreme["jmin"] = low /\ extreme["hmax"] = high /\ extreme["jmax"] = high
  BY <1>5, <1>6, ExtremesAre
<1> QED
  BY <1>1, <1>2, <1>3, <1>7

LEMMA PercentilesAreClose ==
  ASSUME StatsInv, StatsQuiet, NEW k \in 1..Count
  PROVE  /\ Reported(k) <= Ranked(k)
         /\ Ranked(k) < 1048576 => Ranked(k) < 4 * Reported(k) + 4
<1>1. /\ StatsTypes /\ stored \in Seq(Latencies) /\ Len(stored) \in Nat /\ DOMAIN stored = 1..Len(stored)
      /\ \A i \in 1..Len(stored) : stored[i] \in Samples
  BY QuietTallies, StoredTypes
<1>2. PICK c : c = BucketCounts
  OBVIOUS
<1>3. NumBuckets = 64
  BY DEF NumBuckets
<1>4. ASSUME NEW b \in 0..NumBuckets - 1
      PROVE  c[b + 1] = Cardinality({i \in 1..Len(stored) : BucketFor(stored[i]) = b})
  <2>1. b + 1 \in 1..NumBuckets /\ (b + 1) - 1 = b
    BY <1>3
  <2>2. c[b + 1] = IF b \in Buckets THEN buckets[b] ELSE 0
    BY <1>2, <2>1 DEF BucketCounts
  <2>3. CASE b \in Buckets
    BY <1>1, <2>2, <2>3, CountsAreExact DEF InBucket
  <2>4. CASE b \notin Buckets
    <3>1. {i \in 1..Len(stored) : BucketFor(stored[i]) = b} = {}
      BY <1>1, <2>4 DEF Buckets
    <3> QED
      BY <2>2, <2>4, <3>1, FS_EmptySet
  <2> QED
    BY <2>3, <2>4
<1>5. c \in Seq(Int) /\ Len(c) = NumBuckets
  <2>1. \A i \in 1..NumBuckets : c[i] \in Int
    <3>1. \A b \in Buckets : buckets[b] \in Nat
      BY <1>1 DEF StatsTypes, StatsTypeOK
    <3> QED
      BY <1>2, <3>1 DEF BucketCounts
  <2>2. c \in [1..NumBuckets -> Int]
    BY <1>2, <2>1 DEF BucketCounts
  <2>3. PICK n \in Nat : n = NumBuckets
    BY <1>3
  <2>4. c \in Seq(Int) /\ Len(c) = n
    BY <2>2, <2>3
  <2> QED
    BY <2>3, <2>4
<1>6. PICK r : r = Min({x \in ToSet(stored) : Cardinality({i \in 1..Len(stored) : stored[i] <= x}) >= k})
  OBVIOUS
<1>7. r = Ranked(k)
  BY <1>1, <1>6 DEF Ranked, Recorded
<1>8. k \in 1..Len(stored)
  BY DEF Count
<1>9. /\ r \in Latencies
      /\ Min({NumBuckets - 1} \union {b \in 0..NumBuckets - 1 : RunningSum(c)[b + 1] >= k}) = BucketFor(r)
  BY <1>1, <1>4, <1>5, <1>6, <1>8, PercentileIs
<1>10. Reported(k) = LatencyForBucket(BucketFor(r))
  BY <1>2, <1>9 DEF Reported
<1> QED
  BY <1>7, <1>9, <1>10, BucketTells

LEMMA OneSample ==
  ASSUME NEW s \in Seq(Nat), Len(s) = 1
  PROVE  SquaresOf(s) - SumOf(s) * SumOf(s) = 0
<1>1. PICK x \in Nat : x = s[1]
  <2>1. 1 \in 1..Len(s)
    OBVIOUS
  <2> QED
    BY <2>1, SeqTypes
<1>2. s \in Seq(Int)
  BY SeqTypes
<1>3. SumOf(s) = x
  <2>1. RunningSum(s)[0] = 0 /\ RunningSum(s)[1] = RunningSum(s)[1 - 1] + s[1]
    BY <1>2, RunningSumIs
  <2> QED
    BY <1>1, <2>1 DEF SumOf
<1>4. PICK a : a = [i \in 1..Len(s) |-> s[i] * s[i]]
  OBVIOUS
<1>5. a[1] = x * x /\ Len(a) = 1 /\ a \in Seq(Int)
  <2>1. PICK n \in Nat : n = Len(s) /\ n = 1
    OBVIOUS
  <2>2. 1 \in 1..n /\ \A i \in 1..n : i = 1
    BY <2>1
  <2>3. a[1] = x * x /\ x * x \in Int
    BY <1>1, <1>4, <2>1, <2>2
  <2>4. \A i \in 1..n : a[i] \in Int
    BY <2>2, <2>3
  <2>5. a \in [1..n -> Int]
    BY <1>4, <2>1, <2>4
  <2>6. a \in Seq(Int) /\ Len(a) = n
    BY <2>5
  <2> QED
    BY <2>1, <2>3, <2>6
<1>6. SumOf(a) = x * x
  <2>1. 1 \in 1..Len(a) /\ a \in Seq(Int)
    BY <1>5
  <2>2. RunningSum(a)[0] = 0 /\ RunningSum(a)[1] = RunningSum(a)[1 - 1] + a[1]
    BY <2>1, RunningSumIs
  <2>3. PICK y \in Int : y = x * x
    OBVIOUS
  <2>4. RunningSum(a)[1] = y
    BY <1>5, <2>2, <2>3
  <2> QED
    BY <1>5, <2>3, <2>4 DEF SumOf
<1>7. SquaresOf(s) = x * x
  BY <1>4, <1>6 DEF SquaresOf
<1>8. PICK y \in Int : y = x * x
  OBVIOUS
<1> QED
  BY <1>3, <1>7, <1>8

LEMMA MomentsAreExact ==
  ASSUME StatsInv, StatsQuiet, ~crowded, Count > 0, \A x \in Recorded : x <= MaxFixed
  PROVE  jmean * Count = Scale * Total /\ VarianceIsExact
<1>1. /\ StatsTypes /\ Settled(stored, jmean, jm2) /\ stored \in Seq(Nat) /\ Len(stored) \in Nat
      /\ DOMAIN stored = 1..Len(stored)
  BY QuietTallies, StoredTypes
<1>2. PICK n \in Nat : n = Len(stored) /\ n = Count /\ n > 0 /\ jcount = n
  BY <1>1, CountsAreExact DEF Count
<1>3. PICK S \in Int, Q \in Int : S = SumOf(stored) /\ Q = SquaresOf(stored)
  <2>1. stored \in Seq(Int)
    BY <1>1, SeqTypes
  <2>2. SquaresOf(stored) \in Int
    BY <1>1, SquaresAreInt
  <2> QED
    BY <2>1, <2>2, SumIsInt
<1>4. S = Total /\ Q = Squares
  BY <1>1, <1>3 DEF Total, Squares, SquaresOf
<1>5. PICK mean \in Nat, m2 \in Nat, c \in Nat, top \in Nat :
        mean = jmean /\ m2 = jm2 /\ c = Scale /\ top = MaxFixed * (c * c)
  BY <1>1, StatBoundsAssumption DEF StatsTypes, StatsTypeOK
<1>6. PICK M \in Nat : /\ mean * n = c * S /\ M * n = c * c * (n * Q - S * S)
                       /\ m2 = IF M > top THEN top ELSE M
  <2>1. Held(stored)
    BY <1>1, <1>2, StoredTypes DEF Held
  <2>2. PICK M \in Nat : Describes(n, S, Q, mean, M) /\ m2 = FixedPoint(M, Scale * Scale)
    BY <1>1, <1>2, <1>3, <1>5, <2>1 DEF Settled
  <2>3. mean * n = c * S /\ M * n = c * c * (n * Q - S * S)
    BY <1>5, <2>2 DEF Describes
  <2>4. m2 = IF M > top THEN top ELSE M
    BY <1>5, <2>2 DEF FixedPoint
  <2> QED
    BY <2>3, <2>4
<1>61. PICK g \in Int : g = c * c * (n * Q - S * S) /\ g = M * n
  BY <1>6
<1>62. Min({g, n * top}) = m2 * n
  <2>1. n * top \in Int
    OBVIOUS
  <2>2. Min({g, n * top}) = IF g <= n * top THEN g ELSE n * top
    BY <1>61, <2>1, LesserOf
  <2>3. M <= top => M * n <= n * top
    <3>1. M <= top => n * M <= n * top
      BY LeastTimes
    <3> QED
      BY <3>1
  <2>4. M > top /\ M * n <= n * top => M * n = n * top
    <3>1. M > top => n * top <= n * M
      BY LeastTimes
    <3> QED
      BY <3>1
  <2> QED
    BY <1>6, <1>61, <2>2, <2>3, <2>4
<1>7. VarianceIsExact
  <2>1. CASE n = 1
    <3>1. Q - S * S = 0
      BY <1>1, <1>2, <1>3, <2>1, OneSample
    <3>2. n * Q - S * S = 0
      BY <2>1, <3>1
    <3>3. PICK d \in Int : d = n * Q - S * S /\ d = 0
      BY <3>2
    <3>4. Variance = <<0, 1>>
      BY <1>2, <2>1 DEF Variance
    <3>5. g = 0
      <4>1. c * c * d = 0
        BY <3>3
      <4> QED
        BY <1>61, <3>3, <4>1
    <3>6. Min({g, n * top}) = 0
      <4>1. M = 0
        BY <1>61, <2>1, <3>5
      <4>2. m2 = 0
        BY <1>6, <4>1
      <4> QED
        BY <1>62, <4>2
    <3>7. Min({Scale * Scale * (Count * Squares - Total * Total), Count * (MaxFixed * (Scale * Scale))}) = 0
      BY <1>2, <1>4, <1>5, <1>61, <3>6
    <3>8. Variance[1] = 0 /\ Variance[2] = 1
      BY <3>4
    <3>9. 0 * n * (n - 1) = 1 * 0
      OBVIOUS
    <3> QED
      BY <1>2, <3>7, <3>8, <3>9 DEF VarianceIsExact
  <2>2. CASE n > 1
    <3>1. Variance = <<m2, n - 1>>
      BY <1>2, <1>5, <2>2 DEF Variance
    <3>2. Variance[1] = m2 /\ Variance[2] = n - 1
      BY <3>1
    <3>3. Min({Scale * Scale * (Count * Squares - Total * Total), Count * (MaxFixed * (Scale * Scale))})
            = m2 * n
      BY <1>2, <1>4, <1>5, <1>61, <1>62
    <3>4. m2 * n * (n - 1) = (n - 1) * (m2 * n)
      OBVIOUS
    <3> QED
      BY <1>2, <3>2, <3>3, <3>4 DEF VarianceIsExact
  <2> QED
    BY <1>2, <2>1, <2>2
<1> QED
  BY <1>2, <1>4, <1>5, <1>6, <1>7

LEMMA StatsSettled == StatsInv => StatsSettle
<1> SUFFICES ASSUME StatsInv, StatsQuiet
             PROVE  /\ hcount = Count /\ jcount = Count /\ hsum = Total
                    /\ \A b \in Buckets : buckets[b] = Cardinality(InBucket(b))
                    /\ Count > 0 =>
                         /\ extreme.hmin = Min(Recorded) /\ extreme.jmin = Min(Recorded)
                         /\ extreme.hmax = Max(Recorded) /\ extreme.jmax = Max(Recorded)
                         /\ \A k \in 1..Count :
                              /\ Reported(k) <= Ranked(k)
                              /\ Ranked(k) < 1048576 => Ranked(k) < 4 * Reported(k) + 4
                         /\ (~crowded /\ \A x \in Recorded : x <= MaxFixed) =>
                              jmean * Count = Scale * Total /\ VarianceIsExact
                         /\ Spread = {Max(Recorded) - Min(Recorded)}
                    /\ Count = 0 => Spread = {} /\ Variance[1] = 0
  BY DEF StatsSettle, StatsQuiet
<1>1. ASSUME Count > 0
      PROVE  Spread = {Max(Recorded) - Min(Recorded)}
  <2>1. extreme.jmin = Min(Recorded) /\ extreme.jmax = Max(Recorded) /\ Min(Recorded) \in Latencies
    BY <1>1, ExtremesAreExact
  <2>2. extreme.jmin # U64Max
    <3>1. \A x \in Latencies : x # U64Max
      BY U64MaxIs DEF Latencies
    <3> QED
      BY <2>1, <3>1
  <2>3. jcount # 0
    <3>1. jcount = Count
      BY CountsAreExact
    <3> QED
      BY <1>1, <3>1
  <2>4. Minimum = {extreme.jmin} /\ Maximum = {extreme.jmax}
    BY <2>2, <2>3 DEF Minimum, Maximum
  <2> QED
    BY <2>1, <2>4 DEF Spread
<1>2. ASSUME Count = 0
      PROVE  Spread = {} /\ Variance[1] = 0
  <2>1. jcount = 0
    BY <1>2, CountsAreExact
  <2>2. Recorded = {}
    BY <1>2, QuietTallies, StoredTypes DEF Count
  <2>3. PICK e : e = "jmin"
    OBVIOUS
  <2>4. e \in DOMAIN After /\ Worst(e) = U64Max
    BY <2>3, ExtremesAre DEF Worst
  <2>5. extreme.jmin = U64Max
    BY <2>2, <2>3, <2>4, QuietExtreme
  <2> QED
    BY <2>1, <2>5 DEF Spread, Minimum, Variance
<1>3. Count \in Nat
  BY QuietTallies, StoredTypes DEF Count
<1> QED
  BY <1>1, <1>2, CountsAreExact, ExtremesAreExact, PercentilesAreClose, MomentsAreExact

---------------------------------------------------------------------------
(* MetricsReporting: items on their way, the reader, and the dashboard     *)

Tokens == {"none", "started", "inStage", "processed"}
Renders == {"none", "check", "stageEnd", "input", "output", "record", "ended"}
\* The items that are at one of these steps.
ItemsAt(steps) == {p \in Producers : token[p] \in steps}
BeforeStage == {"started"}
BeforeEnd == {"started", "inStage"}
BeforeOutput == {"started", "inStage", "processed"}
Waiting(steps) == Cardinality(ItemsAt(steps))

ReportTypes ==
  /\ total_input \in Nat /\ total_output \in Nat /\ stage_input \in Nat /\ stage_ended \in Nat
  /\ token \in [Producers -> Tokens]
  /\ wiping \in {"none", "stage_ended", "total_input", "total_output"}
  /\ entered \in Nat /\ carried \in Nat
  /\ render \in [Renderers -> Renders] /\ steady \subseteq Renderers
  /\ snap \in [Renderers -> [stageIn : Nat, stageEnd : Nat, input : Nat, output : Nat]]
  /\ begun \in [Renderers -> Nat] /\ taken \in [Renderers -> Nat]

\* No counter is ahead of the inputs, with the items that are before it, but for the items
\* carried over from the last reset. While a reset runs these are all there is to count.
ItemsFlow ==
  IF wiping = "none"
  THEN /\ stage_input + Waiting(BeforeStage) <= total_input + carried
       /\ stage_ended + Waiting(BeforeEnd) <= total_input + carried
       /\ total_output + Waiting(BeforeOutput) <= total_input + carried
  ELSE /\ stage_input + Waiting(BeforeStage) <= carried
       /\ wiping # "stage_ended" => stage_ended + Waiting(BeforeEnd) <= carried
       /\ Waiting(BeforeOutput) <= carried

\* At step p of a snapshot x that was begun with b items entered: each field that has been
\* read is behind the inputs, as the ones read before it are behind it.
InOrder(p, x, b, input, e, c) ==
  /\ p \in {"stageEnd", "input", "output", "record"} => b <= e /\ x.stageIn <= input - (e - b) + c
  /\ p \in {"input", "output", "record"} => x.stageEnd <= input + c
  /\ p \in {"output", "record"} =>
       /\ input - (e - b) <= x.input /\ x.input <= input /\ x.stageEnd <= x.input + c
  /\ p = "record" => x.output <= x.input + (e - b) + c

ReadInOrder ==
  /\ wiping # "none" => steady = {}
  /\ \A r \in steady : InOrder(render[r], snap[r], begun[r], total_input, entered, carried)

\* The latest m of k snapshots.
LatestOf(k, m) == LET n == IF k < m THEN k ELSE m IN [i \in 1..n |-> k - n + i]
WindowsKept == window = [r \in Renderers |-> LatestOf(taken[r], HistoryLength)]

\* A renderer that runs is one that the owner may join, or one whose handle is lost.
Dashboard ==
  /\ dashboard # "live" => halt
  /\ dashboard = "dropped" => handle = {}
  /\ \A r \in spawned \ orphans : r \in handle \/ render[r] = "ended"

ReportInv == ReportTypes /\ ItemsFlow /\ ReadInOrder /\ WindowsKept /\ Dashboard

LEMMA Waits ==
  /\ \A steps : Waiting(steps) \in Nat
  /\ Waiting(BeforeStage) <= Waiting(BeforeOutput) /\ Waiting(BeforeEnd) <= Waiting(BeforeOutput)
<1>1. \A steps : IsFiniteSet(ItemsAt(steps)) /\ Cardinality(ItemsAt(steps)) \in Nat
  BY ProducersAssumption, FS_Subset, FS_CardinalityType DEF ItemsAt
<1>2. /\ ItemsAt(BeforeStage) \in SUBSET ItemsAt(BeforeOutput)
      /\ ItemsAt(BeforeEnd) \in SUBSET ItemsAt(BeforeOutput)
  BY DEF ItemsAt, BeforeStage, BeforeEnd, BeforeOutput
<1> QED
  BY <1>1, <1>2, FS_Subset DEF Waiting

LEMMA ReportInvInit == ReportInit => ReportInv
<1> SUFFICES ASSUME ReportInit PROVE ReportInv
  OBVIOUS
<1>1. ReportTypes
  BY DEF ReportInit, ReportTypes, Tokens, Renders, NoSnap
<1>2. ItemsFlow
  <2>1. ItemsAt(BeforeStage) = {} /\ ItemsAt(BeforeEnd) = {} /\ ItemsAt(BeforeOutput) = {}
    BY DEF ReportInit, ItemsAt, BeforeStage, BeforeEnd, BeforeOutput
  <2> QED
    BY <2>1, FS_EmptySet DEF ItemsFlow, ReportInit, Waiting
<1>3. ReadInOrder
  BY DEF ReportInit, ReadInOrder
<1>4. WindowsKept
  <2>1. LatestOf(0, HistoryLength) = <<>>
    BY HistoryAssumption DEF LatestOf
  <2> QED
    BY <2>1 DEF ReportInit, WindowsKept
<1>5. Dashboard
  BY DEF ReportInit, Dashboard
<1> QED
  BY <1>1, <1>2, <1>3, <1>4, <1>5 DEF ReportInv

\* An item goes from one step to another.
Goes(p, from, to) == token[p] = from /\ token' = [token EXCEPT ![p] = to]

LEMMA ItemGoes ==
  ASSUME ReportTypes, NEW p \in Producers, NEW from \in Tokens, NEW to \in Tokens, Goes(p, from, to)
  PROVE  /\ token' \in [Producers -> Tokens]
         /\ \A steps : Waiting(steps)' = Waiting(steps)
                + (IF to \in steps THEN 1 ELSE 0) - (IF from \in steps THEN 1 ELSE 0)
<1>1. /\ token \in [Producers -> Tokens] /\ token[p] = from /\ token'[p] = to
      /\ \A q \in Producers \ {p} : token'[q] = token[q]
  BY DEF ReportTypes, Goes
<1>2. token' \in [Producers -> Tokens]
  BY <1>1 DEF Goes
<1>3. ASSUME NEW steps
      PROVE  Cardinality(ItemsAt(steps)') = Cardinality(ItemsAt(steps))
               + (IF to \in steps THEN 1 ELSE 0) - (IF from \in steps THEN 1 ELSE 0)
  <2>1. ItemsAt(steps)' = {q \in Producers : token'[q] \in steps}
    BY DEF ItemsAt
  <2>2. ItemsAt(steps) \subseteq Producers /\ ItemsAt(steps)' \subseteq Producers
    BY <2>1 DEF ItemsAt
  <2>3. ItemsAt(steps) \ {p} = ItemsAt(steps)' \ {p}
    BY <1>1, <2>1 DEF ItemsAt
  <2>4. (p \in ItemsAt(steps) <=> from \in steps) /\ (p \in ItemsAt(steps)' <=> to \in steps)
    BY <1>1, <2>1 DEF ItemsAt
  <2> QED
    BY <2>2, <2>3, <2>4, ProducersAssumption, OneMember
<1> QED
  BY <1>2, <1>3 DEF Waiting

LEMMA ItemKeeps ==
  ASSUME ReportInv, NEW p \in Producers,
         StartToken(p) \/ StageInput(p) \/ StageEnd(p) \/ CompleteToken(p) \/ DropToken(p)
  PROVE  ReportInv'
<1>1. UNCHANGED <<ownerVars, renderVars, wiping>>
  BY DEF StartToken, StageInput, StageEnd, CompleteToken, DropToken, wipeVars
<1>2. PICK from \in Tokens, to \in Tokens :
        /\ Goes(p, from, to)
        /\ total_input' = total_input + (IF from = "none" THEN 1 ELSE 0)
        /\ entered' = entered + (IF from = "none" THEN 1 ELSE 0)
        /\ carried' = carried + (IF from = "none" /\ wiping # "none" THEN 1 ELSE 0)
        /\ stage_input' = stage_input + (IF to = "inStage" THEN 1 ELSE 0)
        /\ stage_ended' = stage_ended + (IF from = "inStage" THEN 1 ELSE 0)
        /\ \/ from = "none" /\ to = "started" /\ total_output' = total_output
           \/ from = "started" /\ to = "inStage" /\ total_output' = total_output
           \/ from = "inStage" /\ to = "processed" /\ total_output' = total_output
           \/ from = "processed" /\ to = "none" /\ total_output' = total_output + 1
           \/ from \in {"started", "processed"} /\ to = "none" /\ total_output' = total_output
  <2>1. /\ "none" \in Tokens /\ "started" \in Tokens /\ "inStage" \in Tokens /\ "processed" \in Tokens
        /\ total_input + 0 = total_input /\ stage_input + 0 = stage_input /\ stage_ended + 0 = stage_ended
        /\ entered + 0 = entered /\ carried + 0 = carried
    BY DEF Tokens, ReportInv, ReportTypes
  <2>2. CASE StartToken(p)
    BY <2>1, <2>2 DEF StartToken, TokenGoto, Goes
  <2>3. CASE StageInput(p)
    BY <2>1, <2>3 DEF StageInput, TokenGoto, Goes, wipeVars
  <2>4. CASE StageEnd(p)
    BY <2>1, <2>4 DEF StageEnd, TokenGoto, Goes, wipeVars
  <2>5. CASE CompleteToken(p)
    BY <2>1, <2>5 DEF CompleteToken, TokenGoto, Goes, wipeVars
  <2>6. CASE DropToken(p)
    BY <2>1, <2>6 DEF DropToken, Goes, counts, wipeVars
  <2> QED
    BY <2>2, <2>3, <2>4, <2>5, <2>6
<1>3. /\ total_input \in Nat /\ total_output \in Nat /\ stage_input \in Nat /\ stage_ended \in Nat
      /\ entered \in Nat /\ carried \in Nat
  BY DEF ReportInv, ReportTypes
<1>4. /\ token' \in [Producers -> Tokens]
      /\ \A steps : Waiting(steps)' = Waiting(steps)
           + (IF to \in steps THEN 1 ELSE 0) - (IF from \in steps THEN 1 ELSE 0)
  BY <1>2, ItemGoes DEF ReportInv
<1>5. /\ total_input' \in Nat /\ total_output' \in Nat /\ stage_input' \in Nat /\ stage_ended' \in Nat
      /\ entered' \in Nat /\ carried' \in Nat
  BY <1>2, <1>3
<1>6. ReportTypes'
  BY <1>1, <1>4, <1>5 DEF ReportInv, ReportTypes, renderVars
<1>7. ItemsFlow'
  <2>1. PICK s, i, e, s2, i2, e2 :
          /\ s = Waiting(BeforeStage) /\ s2 = Waiting(BeforeStage)'
          /\ i = Waiting(BeforeEnd) /\ i2 = Waiting(BeforeEnd)'
          /\ e = Waiting(BeforeOutput) /\ e2 = Waiting(BeforeOutput)'
    OBVIOUS
  <2>2. /\ s2 = s + (IF to \in BeforeStage THEN 1 ELSE 0) - (IF from \in BeforeStage THEN 1 ELSE 0)
        /\ i2 = i + (IF to \in BeforeEnd THEN 1 ELSE 0) - (IF from \in BeforeEnd THEN 1 ELSE 0)
        /\ e2 = e + (IF to \in BeforeOutput THEN 1 ELSE 0) - (IF from \in BeforeOutput THEN 1 ELSE 0)
    BY <1>4, <2>1
  <2>3. s \in Nat /\ i \in Nat /\ e \in Nat
    BY <2>1, Waits
  <2>4. CASE wiping = "none"
    <3>1. /\ stage_input + s <= total_input + carried /\ stage_ended + i <= total_input + carried
          /\ total_output + e <= total_input + carried
      BY <2>1, <2>4 DEF ReportInv, ItemsFlow
    <3>2. carried' = carried
      BY <1>2, <1>3, <2>4
    <3>3. /\ stage_input' + s2 <= total_input' + carried /\ stage_ended' + i2 <= total_input' + carried
          /\ total_output' + e2 <= total_input' + carried
      BY <1>2, <1>3, <2>2, <2>3, <3>1 DEF BeforeStage, BeforeEnd, BeforeOutput
    <3> QED
      BY <1>1, <2>1, <2>4, <3>2, <3>3 DEF ItemsFlow, BeforeStage, BeforeEnd, BeforeOutput
  <2>5. CASE wiping # "none"
    <3>1. /\ stage_input + s <= carried /\ e <= carried
          /\ wiping # "stage_ended" => stage_ended + i <= carried
      BY <2>1, <2>5 DEF ReportInv, ItemsFlow
    <3>2. carried' = carried + (IF from = "none" THEN 1 ELSE 0)
      BY <1>2, <2>5
    <3>3. /\ stage_input' + s2 <= carried' /\ e2 <= carried'
          /\ wiping # "stage_ended" => stage_ended' + i2 <= carried'
      BY <1>2, <1>3, <2>2, <2>3, <3>1, <3>2 DEF BeforeStage, BeforeEnd, BeforeOutput
    <3> QED
      BY <1>1, <2>1, <2>5, <3>3 DEF ItemsFlow, BeforeStage, BeforeEnd, BeforeOutput
  <2> QED
    BY <2>4, <2>5
<1>8. ReadInOrder'
  <2>1. steady' = steady /\ render' = render /\ snap' = snap /\ begun' = begun
    BY <1>1 DEF renderVars
  <2>2. ASSUME NEW r \in steady
        PROVE  InOrder(render[r], snap[r], begun[r], total_input', entered', carried')
    <3>1. begun[r] \in Nat /\ snap[r].stageIn \in Nat /\ snap[r].stageEnd \in Nat
          /\ snap[r].input \in Nat /\ snap[r].output \in Nat
      BY DEF ReportInv, ReportTypes
    <3>2. wiping = "none" /\ InOrder(render[r], snap[r], begun[r], total_input, entered, carried)
      BY DEF ReportInv, ReadInOrder
    <3>3. PICK d \in {0, 1} : total_input' = total_input + d /\ entered' = entered + d /\ carried' = carried
      BY <1>2, <1>3, <3>2
    <3> QED
      BY <1>3, <3>1, <3>2, <3>3 DEF InOrder
  <2> QED
    BY <1>1, <2>1, <2>2 DEF ReportInv, ReadInOrder
<1>9. WindowsKept' /\ Dashboard'
  BY <1>1 DEF ReportInv, WindowsKept, Dashboard, ownerVars, renderVars
<1> QED
  BY <1>6, <1>7, <1>8, <1>9 DEF ReportInv

LEMMA ItemsStand == UNCHANGED <<counts, token, wiping, carried>> /\ ItemsFlow => ItemsFlow'
<1> SUFFICES ASSUME UNCHANGED <<counts, token, wiping, carried>>, ItemsFlow PROVE ItemsFlow'
  OBVIOUS
<1>1. Waiting(BeforeStage)' = Waiting(BeforeStage) /\ Waiting(BeforeEnd)' = Waiting(BeforeEnd)
      /\ Waiting(BeforeOutput)' = Waiting(BeforeOutput)
  BY DEF Waiting, ItemsAt, BeforeStage, BeforeEnd, BeforeOutput
<1> QED
  BY <1>1 DEF ItemsFlow, counts

\* A reset empties the set of undisturbed snapshots, and goes through the counters with
\* the items that were under way on its account.
LEMMA WipeKeeps == ASSUME ReportInv, Wipe PROVE ReportInv'
<1>1. UNCHANGED <<token, entered, ownerVars, render, snap, begun, window, taken>>
  BY DEF Wipe, BeginWipe, WipeStageEnded, WipeTotalInput, WipeTotalOutput, renderVars
<1>2. /\ total_input \in Nat /\ total_output \in Nat /\ stage_input \in Nat /\ stage_ended \in Nat
      /\ carried \in Nat
  BY DEF ReportInv, ReportTypes
<1>3. PICK s, i, e : /\ s = Waiting(BeforeStage) /\ i = Waiting(BeforeEnd) /\ e = Waiting(BeforeOutput)
                     /\ s \in Nat /\ i \in Nat /\ e \in Nat /\ s <= e /\ i <= e
  BY Waits
<1>4. Waiting(BeforeStage)' = s /\ Waiting(BeforeEnd)' = i /\ Waiting(BeforeOutput)' = e
  BY <1>1, <1>3 DEF Waiting, ItemsAt, BeforeStage, BeforeEnd, BeforeOutput
<1>5. /\ total_input' \in Nat /\ total_output' \in Nat /\ stage_input' \in Nat /\ stage_ended' \in Nat
      /\ carried' \in Nat /\ steady' = {}
      /\ wiping' \in {"none", "stage_ended", "total_input", "total_output"}
      /\ ItemsFlow'
  <2>1. CASE BeginWipe
    <3>1. UnderWay = ItemsAt(BeforeOutput)
      BY DEF UnderWay, ItemsAt, BeforeOutput, ReportInv, ReportTypes, Tokens
    <3>2. carried' = e /\ stage_input' = 0 /\ wiping' = "stage_ended" /\ steady' = {}
          /\ UNCHANGED <<total_input, total_output, stage_ended>>
      BY <1>3, <2>1, <3>1 DEF BeginWipe, Waiting
    <3> QED
      BY <1>2, <1>3, <1>4, <3>2 DEF ItemsFlow
  <2>2. CASE WipeStageEnded \/ WipeTotalInput \/ WipeTotalOutput
    <3>1. wiping # "none" /\ carried' = carried /\ steady' = {}
      BY <2>2 DEF WipeStageEnded, WipeTotalInput, WipeTotalOutput, renderVars, ReportInv, ReadInOrder
    <3>2. /\ stage_input + s <= carried /\ e <= carried
          /\ wiping # "stage_ended" => stage_ended + i <= carried
      BY <1>3, <3>1 DEF ReportInv, ItemsFlow
    <3>3. CASE WipeStageEnded
      <4>1. wiping' = "total_input" /\ stage_ended' = 0 /\ UNCHANGED <<total_input, total_output, stage_input>>
        BY <3>3 DEF WipeStageEnded
      <4> QED
        BY <1>2, <1>3, <1>4, <3>1, <3>2, <4>1 DEF ItemsFlow
    <3>4. CASE WipeTotalInput
      <4>1. /\ wiping = "total_input" /\ wiping' = "total_output" /\ total_input' = 0
            /\ UNCHANGED <<total_output, stage_input, stage_ended>>
        BY <3>4 DEF WipeTotalInput
      <4> QED
        BY <1>2, <1>3, <1>4, <3>1, <3>2, <4>1 DEF ItemsFlow
    <3>5. CASE WipeTotalOutput
      <4>1. /\ wiping = "total_output" /\ wiping' = "none" /\ total_output' = 0
            /\ UNCHANGED <<total_input, stage_input, stage_ended>>
        BY <3>5 DEF WipeTotalOutput
      <4>2. /\ stage_input + s <= total_input + carried /\ stage_ended + i <= total_input + carried
            /\ 0 + e <= total_input + carried
        BY <1>2, <1>3, <3>2, <4>1
      <4> QED
        BY <1>2, <1>4, <3>1, <4>1, <4>2 DEF ItemsFlow
    <3> QED
      BY <2>2, <3>3, <3>4, <3>5
  <2> QED
    BY <2>1, <2>2 DEF Wipe
<1>6. ReportTypes'
  BY <1>1, <1>5 DEF ReportInv, ReportTypes
<1>7. ReadInOrder'
  BY <1>5 DEF ReadInOrder
<1>8. WindowsKept' /\ Dashboard'
  BY <1>1 DEF ReportInv, WindowsKept, Dashboard, ownerVars
<1> QED
  BY <1>5, <1>6, <1>7, <1>8 DEF ReportInv

LEMMA OwnerOfDashboardKeeps ==
  ASSUME ReportInv,
         \/ \E r \in Renderers : StartDashboard(r)
         \/ StopDashboard("stopping") \/ StopDashboard("dropping") \/ JoinDashboard
  PROVE  ReportInv'
<1>1. UNCHANGED <<counts, token, entered, wiping, carried, snap, begun, window, taken, steady>>
  BY DEF StartDashboard, StopDashboard, JoinDashboard, renderVars, wipeVars
<1>2. ItemsFlow' /\ WindowsKept'
  BY <1>1, ItemsStand DEF ReportInv, WindowsKept
<1>3. CASE \E r \in Renderers : StartDashboard(r)
  <2>1. PICK r \in Renderers : StartDashboard(r)
    BY <1>3
  <2>2. /\ render \in [Renderers -> Renders] /\ render' \in [Renderers -> Renders] /\ render'[r] = "check"
        /\ \A q \in Renderers \ {r} : render'[q] = render[q]
    BY <2>1 DEF StartDashboard, ReportInv, ReportTypes, Renders
  <2>3. ReportTypes'
    BY <1>1, <2>2 DEF ReportInv, ReportTypes, counts
  <2>4. ReadInOrder'
    <3>1. \A q \in Renderers : render'[q] # render[q] => render'[q] = "check"
      BY <2>2
    <3>2. steady \subseteq Renderers
      BY DEF ReportInv, ReportTypes
    <3> QED
      BY <1>1, <3>1, <3>2 DEF ReportInv, ReadInOrder, InOrder, counts
  <2>5. Dashboard'
    <3>1. dashboard = "live" /\ dashboard' = dashboard /\ handle' = {r} /\ spawned' = spawned \union {r}
          /\ orphans' = orphans \union handle
      BY <2>1 DEF StartDashboard
    <3>2. ASSUME NEW q \in spawned' \ orphans', q # r PROVE render'[q] = "ended"
      <4>1. q \in spawned \ orphans /\ q \notin handle
        BY <3>1, <3>2
      <4>2. render[q] = "ended"
        BY <4>1 DEF ReportInv, Dashboard
      <4> QED
        BY <2>1, <3>2, <4>2 DEF StartDashboard
    <3> QED
      BY <3>1, <3>2 DEF Dashboard
  <2> QED
    BY <1>2, <2>3, <2>4, <2>5 DEF ReportInv
<1>4. CASE StopDashboard("stopping") \/ StopDashboard("dropping") \/ JoinDashboard
  <2>1. render' = render
    BY <1>4 DEF StopDashboard, JoinDashboard, renderVars
  <2>2. ReportTypes'
    BY <1>1, <2>1 DEF ReportInv, ReportTypes, counts
  <2>3. ReadInOrder'
    BY <1>1, <2>1 DEF ReportInv, ReadInOrder, counts
  <2>4. Dashboard'
    BY <1>4, <2>1 DEF ReportInv, Dashboard, StopDashboard, JoinDashboard
  <2> QED
    BY <1>2, <2>2, <2>3, <2>4 DEF ReportInv
<1> QED
  BY <1>3, <1>4

\* One more snapshot at the end of the window, and the oldest gone if it is too long.
LEMMA WindowMoves ==
  ASSUME NEW k \in Nat
  PROVE  Trim(Append(LatestOf(k, HistoryLength), k + 1)) = LatestOf(k + 1, HistoryLength)
<1> DEFINE w == LatestOf(k, HistoryLength)
           a == Append(w, k + 1)
<1>1. PICK h \in Nat : h = HistoryLength
  BY HistoryAssumption
<1>2. CASE k < h
  <2>1. w = [i \in 1..k |-> i]
    <3>1. \A i \in 1..k : k - k + i = i
      OBVIOUS
    <3> QED
      BY <1>1, <1>2, <3>1 DEF LatestOf
  <2>2. w \in Seq(Nat) /\ Len(w) = k /\ \A i \in 1..k : w[i] = i
    BY <2>1
  <2>3. a \in Seq(Nat) /\ Len(a) = k + 1 /\ \A i \in 1..k + 1 : a[i] = i
    BY <2>2
  <2>4. a = [i \in 1..k + 1 |-> i]
    BY <2>3
  <2>5. LatestOf(k + 1, h) = [i \in 1..k + 1 |-> i]
    <3>1. (IF k + 1 < h THEN k + 1 ELSE h) = k + 1
      BY <1>2
    <3>2. \A i \in 1..k + 1 : k + 1 - (k + 1) + i = i
      OBVIOUS
    <3> QED
      BY <3>1, <3>2 DEF LatestOf
  <2>6. ~(Len(a) > h)
    BY <1>2, <2>3
  <2> HIDE DEF a
  <2> QED
    BY <1>1, <2>4, <2>5, <2>6 DEF Trim, a
<1>3. CASE ~(k < h)
  <2>1. w = [i \in 1..h |-> k - h + i]
    BY <1>1, <1>3 DEF LatestOf
  <2>2. w \in Seq(Int) /\ Len(w) = h /\ \A i \in 1..h : w[i] = k - h + i
    BY <2>1
  <2>3. a \in Seq(Int) /\ Len(a) = h + 1 /\ \A i \in 1..h + 1 : a[i] = k - h + i
    BY <2>2
  <2> HIDE DEF a
  <2>4. Tail(a) \in Seq(Int) /\ Len(Tail(a)) = h /\ \A i \in 1..h : Tail(a)[i] = a[i + 1]
    BY <2>3
  <2>5. \A i \in 1..h : Tail(a)[i] = k + 1 - h + i
    BY <2>3, <2>4
  <2>6. Tail(a) = [i \in 1..h |-> k + 1 - h + i]
    <3>1. PICK b : b = Tail(a)
      OBVIOUS
    <3>2. b \in Seq(Int) /\ Len(b) = h /\ \A i \in 1..h : b[i] = k + 1 - h + i
      BY <2>4, <2>5, <3>1
    <3>3. b = [i \in 1..h |-> k + 1 - h + i]
      BY <3>2
    <3> QED
      BY <3>1, <3>3
  <2>7. LatestOf(k + 1, h) = [i \in 1..h |-> k + 1 - h + i]
    BY <1>3 DEF LatestOf
  <2>8. Len(a) > h
    BY <2>3
  <2> QED
    BY <1>1, <2>6, <2>7, <2>8 DEF Trim, a
<1> QED
  BY <1>2, <1>3

LEMMA RendererKeeps ==
  ASSUME ReportInv, NEW r \in Renderers,
         \/ CheckHalt(r) \/ ReadStageInput(r) \/ ReadStageEnd(r)
         \/ ReadInput(r) \/ ReadOutput(r) \/ Render(r)
  PROVE  ReportInv'
<1>1. UNCHANGED <<counts, token, entered, wiping, carried, ownerVars>>
  BY DEF CheckHalt, ReadStageInput, ReadStageEnd, ReadInput, ReadOutput, Render, wipeVars
<1>2. ItemsFlow'
  BY <1>1, ItemsStand DEF ReportInv
<1>3. PICK to : render' = [render EXCEPT ![r] = to] /\ render[r] # "ended" /\ to \in Renders
  BY DEF CheckHalt, ReadStageInput, ReadStageEnd, ReadInput, ReadOutput, Render, RenderGoto, Renders
<1>4. /\ render' \in [Renderers -> Renders] /\ render'[r] = to
      /\ \A q \in Renderers \ {r} : render'[q] = render[q]
  BY <1>3 DEF ReportInv, ReportTypes
<1>5. Dashboard'
  <2>1. \A q \in spawned \ orphans : render[q] = "ended" => render'[q] = "ended"
    BY <1>3
  <2> QED
    BY <1>1, <2>1 DEF ReportInv, Dashboard, ownerVars
<1>6. /\ total_input \in Nat /\ total_output \in Nat /\ stage_input \in Nat /\ stage_ended \in Nat
      /\ entered \in Nat /\ carried \in Nat
      /\ wiping = "none" => /\ stage_input <= total_input + carried
                            /\ stage_ended <= total_input + carried
                            /\ total_output <= total_input + carried
  <2>1. Waiting(BeforeStage) \in Nat /\ Waiting(BeforeEnd) \in Nat /\ Waiting(BeforeOutput) \in Nat
    BY Waits
  <2> QED
    BY <2>1 DEF ReportInv, ReportTypes, ItemsFlow
<1>7. \A q \in Renderers : /\ snap[q].stageIn \in Nat /\ snap[q].stageEnd \in Nat
                           /\ snap[q].input \in Nat /\ snap[q].output \in Nat /\ begun[q] \in Nat
  BY DEF ReportInv, ReportTypes
<1>8. /\ snap \in [Renderers -> [stageIn : Nat, stageEnd : Nat, input : Nat, output : Nat]]
      /\ begun \in [Renderers -> Nat] /\ taken \in [Renderers -> Nat] /\ steady \subseteq Renderers
  BY DEF ReportInv, ReportTypes
<1>9. ASSUME UNCHANGED <<window, taken>> PROVE WindowsKept'
  BY <1>9 DEF ReportInv, WindowsKept
<1>a. r \in steady =>
        wiping = "none" /\ InOrder(render[r], snap[r], begun[r], total_input, entered, carried)
  BY DEF ReportInv, ReadInOrder
<1>10. ASSUME UNCHANGED <<begun, window, taken, steady>>,
              NEW x \in [stageIn : Nat, stageEnd : Nat, input : Nat, output : Nat],
              snap' = [snap EXCEPT ![r] = x],
              r \in steady => InOrder(to, x, begun[r], total_input, entered, carried)
       PROVE  ReportInv'
  <2>1. snap' \in [Renderers -> [stageIn : Nat, stageEnd : Nat, input : Nat, output : Nat]]
    BY <1>8, <1>10
  <2>2. snap'[r] = x /\ \A q \in Renderers \ {r} : snap'[q] = snap[q]
    BY <1>8, <1>10
  <2>3. ReportTypes'
    BY <1>1, <1>4, <1>10, <2>1 DEF ReportInv, ReportTypes, counts
  <2>4. ReadInOrder'
    <3>1. ASSUME NEW q \in steady
          PROVE  InOrder(render'[q], snap'[q], begun[q], total_input, entered, carried)
      <4>1. CASE q = r
        BY <1>4, <1>10, <2>2, <4>1
      <4>2. CASE q # r
        BY <1>4, <1>8, <2>2, <4>2 DEF ReportInv, ReadInOrder
      <4> QED
        BY <4>1, <4>2
    <3> QED
      BY <1>1, <1>10, <3>1 DEF ReportInv, ReadInOrder, counts
  <2> QED
    BY <1>2, <1>5, <1>9, <1>10, <2>3, <2>4 DEF ReportInv
<1>11. CASE CheckHalt(r)
  <2>1. to = "ended" /\ UNCHANGED <<snap, begun, window, taken, steady>>
    BY <1>3, <1>4, <1>11 DEF CheckHalt, RenderGoto, ReportInv, ReportTypes
  <2>2. snap' = [snap EXCEPT ![r] = snap[r]]
    BY <1>8, <2>1
  <2>3. InOrder(to, snap[r], begun[r], total_input, entered, carried)
    BY <2>1 DEF InOrder
  <2> QED
    BY <1>8, <1>10, <2>1, <2>2, <2>3
<1>12. CASE ReadStageInput(r)
  <2>1. /\ to = "stageEnd" /\ UNCHANGED <<window, taken>>
        /\ snap' = [snap EXCEPT ![r] = [NoSnap EXCEPT !.stageIn = stage_input]]
        /\ begun' = [begun EXCEPT ![r] = entered]
        /\ steady' = IF wiping = "none" THEN steady \union {r} ELSE steady \ {r}
    BY <1>3, <1>4, <1>12 DEF ReadStageInput, RenderGoto, ReportInv, ReportTypes
  <2>2. PICK x \in [stageIn : Nat, stageEnd : Nat, input : Nat, output : Nat] :
          x.stageIn = stage_input /\ snap' = [snap EXCEPT ![r] = x]
    BY <1>6, <2>1 DEF NoSnap
  <2>3. /\ snap' \in [Renderers -> [stageIn : Nat, stageEnd : Nat, input : Nat, output : Nat]]
        /\ begun' \in [Renderers -> Nat] /\ steady' \subseteq Renderers
    BY <1>6, <1>8, <2>1, <2>2
  <2>4. ReportTypes'
    BY <1>1, <1>4, <2>1, <2>3 DEF ReportInv, ReportTypes, counts
  <2>5. /\ snap'[r] = x /\ begun'[r] = entered /\ render'[r] = "stageEnd"
        /\ \A q \in Renderers \ {r} : snap'[q] = snap[q] /\ begun'[q] = begun[q] /\ render'[q] = render[q]
    BY <1>4, <1>8, <2>1, <2>2
  <2>6. ReadInOrder'
    <3>1. ASSUME NEW q \in steady'
          PROVE  InOrder(render'[q], snap'[q], begun'[q], total_input, entered, carried)
      <4>1. CASE q = r
        <5>1. wiping = "none"
          BY <2>1, <4>1
        <5>2. x.stageIn <= total_input - (entered - entered) + carried
          BY <1>6, <2>2, <5>1
        <5> QED
          BY <1>6, <2>5, <4>1, <5>2 DEF InOrder
      <4>2. CASE q # r
        <5>1. q \in steady /\ q \in Renderers
          BY <1>8, <2>1, <4>2
        <5> QED
          BY <2>5, <4>2, <5>1 DEF ReportInv, ReadInOrder
      <4> QED
        BY <4>1, <4>2
    <3>2. wiping # "none" => steady' = {}
      BY <2>1 DEF ReportInv, ReadInOrder
    <3> QED
      BY <1>1, <3>1, <3>2 DEF ReadInOrder, counts
  <2> QED
    BY <1>2, <1>5, <1>9, <2>1, <2>4, <2>6 DEF ReportInv
<1>13. CASE ReadStageEnd(r)
  <2>1. /\ to = "input" /\ render[r] = "stageEnd" /\ UNCHANGED <<begun, window, taken, steady>>
        /\ snap' = [snap EXCEPT ![r].stageEnd = stage_ended]
    BY <1>3, <1>4, <1>13 DEF ReadStageEnd, RenderGoto, ReportInv, ReportTypes
  <2>2. PICK x \in [stageIn : Nat, stageEnd : Nat, input : Nat, output : Nat] :
          /\ x.stageIn = snap[r].stageIn /\ x.stageEnd = stage_ended
          /\ snap' = [snap EXCEPT ![r] = x]
    <3>1. PICK x : x = [snap[r] EXCEPT !.stageEnd = stage_ended]
      OBVIOUS
    <3>2. x \in [stageIn : Nat, stageEnd : Nat, input : Nat, output : Nat]
      BY <1>6, <1>8, <3>1
    <3>3. /\ x.stageEnd = stage_ended
          /\ x.stageIn = snap[r].stageIn /\ x.input = snap[r].input /\ x.output = snap[r].output
      BY <1>8, <3>1
    <3>4. snap' = [snap EXCEPT ![r] = x]
      BY <2>1, <3>1
    <3> QED
      BY <3>2, <3>3, <3>4
  <2>3. r \in steady => InOrder(to, x, begun[r], total_input, entered, carried)
    BY <1>6, <1>7, <1>a, <2>1, <2>2 DEF InOrder
  <2> QED
    BY <1>10, <2>1, <2>2, <2>3
<1>14. CASE ReadInput(r)
  <2>1. /\ to = "output" /\ render[r] = "input" /\ UNCHANGED <<begun, window, taken, steady>>
        /\ snap' = [snap EXCEPT ![r].input = total_input]
    BY <1>3, <1>4, <1>14 DEF ReadInput, RenderGoto, ReportInv, ReportTypes
  <2>2. PICK x \in [stageIn : Nat, stageEnd : Nat, input : Nat, output : Nat] :
          /\ x.stageIn = snap[r].stageIn /\ x.stageEnd = snap[r].stageEnd /\ x.input = total_input
          /\ snap' = [snap EXCEPT ![r] = x]
    <3>1. PICK x : x = [snap[r] EXCEPT !.input = total_input]
      OBVIOUS
    <3>2. x \in [stageIn : Nat, stageEnd : Nat, input : Nat, output : Nat]
      BY <1>6, <1>8, <3>1
    <3>3. /\ x.input = total_input
          /\ x.stageIn = snap[r].stageIn /\ x.stageEnd = snap[r].stageEnd /\ x.output = snap[r].output
      BY <1>8, <3>1
    <3>4. snap' = [snap EXCEPT ![r] = x]
      BY <2>1, <3>1
    <3> QED
      BY <3>2, <3>3, <3>4
  <2>3. r \in steady => InOrder(to, x, begun[r], total_input, entered, carried)
    BY <1>6, <1>7, <1>a, <2>1, <2>2 DEF InOrder
  <2> QED
    BY <1>10, <2>1, <2>2, <2>3
<1>15. CASE ReadOutput(r)
  <2>1. /\ to = "record" /\ render[r] = "output" /\ UNCHANGED <<begun, window, taken, steady>>
        /\ snap' = [snap EXCEPT ![r].output = total_output]
    BY <1>3, <1>4, <1>15 DEF ReadOutput, RenderGoto, ReportInv, ReportTypes
  <2>2. PICK x \in [stageIn : Nat, stageEnd : Nat, input : Nat, output : Nat] :
          /\ x.stageIn = snap[r].stageIn /\ x.stageEnd = snap[r].stageEnd /\ x.input = snap[r].input
          /\ x.output = total_output /\ snap' = [snap EXCEPT ![r] = x]
    <3>1. PICK x : x = [snap[r] EXCEPT !.output = total_output]
      OBVIOUS
    <3>2. x \in [stageIn : Nat, stageEnd : Nat, input : Nat, output : Nat]
      BY <1>6, <1>8, <3>1
    <3>3. /\ x.output = total_output
          /\ x.stageIn = snap[r].stageIn /\ x.stageEnd = snap[r].stageEnd /\ x.input = snap[r].input
      BY <1>8, <3>1
    <3>4. snap' = [snap EXCEPT ![r] = x]
      BY <2>1, <3>1
    <3> QED
      BY <3>2, <3>3, <3>4
  <2>3. r \in steady => InOrder(to, x, begun[r], total_input, entered, carried)
    BY <1>6, <1>7, <1>a, <2>1, <2>2 DEF InOrder
  <2> QED
    BY <1>10, <2>1, <2>2, <2>3
<1>16. CASE Render(r)
  <2>1. /\ to = "check" /\ snap' = [snap EXCEPT ![r] = NoSnap] /\ begun' = [begun EXCEPT ![r] = 0]
        /\ window' = [window EXCEPT ![r] = Trim(Append(window[r], taken[r] + 1))]
        /\ taken' = [taken EXCEPT ![r] = taken[r] + 1] /\ steady' = steady
    BY <1>3, <1>4, <1>16 DEF Render, RenderGoto, ReportInv, ReportTypes
  <2>2. /\ snap' \in [Renderers -> [stageIn : Nat, stageEnd : Nat, input : Nat, output : Nat]]
        /\ begun' \in [Renderers -> Nat] /\ taken' \in [Renderers -> Nat]
    BY <1>8, <2>1 DEF NoSnap
  <2>3. ReportTypes'
    BY <1>1, <1>4, <2>1, <2>2 DEF ReportInv, ReportTypes, counts
  <2>4. ReadInOrder'
    <3>1. /\ render'[r] = "check"
          /\ \A q \in Renderers \ {r} : snap'[q] = snap[q] /\ begun'[q] = begun[q] /\ render'[q] = render[q]
      BY <1>4, <1>8, <2>1
    <3>2. ASSUME NEW q \in steady
          PROVE  InOrder(render'[q], snap'[q], begun'[q], total_input, entered, carried)
      <4>1. CASE q = r
        BY <3>1, <4>1 DEF InOrder
      <4>2. CASE q # r
        BY <1>8, <3>1, <4>2 DEF ReportInv, ReadInOrder
      <4> QED
        BY <4>1, <4>2
    <3> QED
      BY <1>1, <2>1, <3>2 DEF ReportInv, ReadInOrder, counts
  <2>5. WindowsKept'
    <3>1. taken[r] \in Nat /\ taken'[r] = taken[r] + 1 /\ \A q \in Renderers \ {r} : taken'[q] = taken[q]
      BY <1>8, <2>1
    <3>2. window'[r] = LatestOf(taken'[r], HistoryLength)
      <4>1. window[r] = LatestOf(taken[r], HistoryLength)
        BY DEF ReportInv, WindowsKept
      <4>2. window'[r] = Trim(Append(window[r], taken[r] + 1))
        BY <2>1 DEF ReportInv, WindowsKept
      <4> QED
        BY <3>1, <4>1, <4>2, WindowMoves
    <3>3. window' = [q \in Renderers |-> IF q = r THEN LatestOf(taken'[r], HistoryLength) ELSE window[q]]
      BY <2>1, <3>2 DEF ReportInv, WindowsKept
    <3>4. \A q \in Renderers \ {r} : window[q] = LatestOf(taken'[q], HistoryLength)
      BY <3>1 DEF ReportInv, WindowsKept
    <3> QED
      BY <3>3, <3>4 DEF WindowsKept
  <2> QED
    BY <1>2, <1>5, <2>3, <2>4, <2>5 DEF ReportInv
<1> QED
  BY <1>11, <1>12, <1>13, <1>14, <1>15, <1>16

LEMMA ReportsKeep == ReportInv /\ [ReportNext]_reportVars => ReportInv'
<1> SUFFICES ASSUME ReportInv, [ReportNext]_reportVars PROVE ReportInv'
  OBVIOUS
<1>1. CASE UNCHANGED reportVars
  <2>1. UNCHANGED <<counts, token, entered, wiping, carried, ownerVars, renderVars>>
    BY <1>1 DEF reportVars, wipeVars
  <2>2. ReportTypes' /\ WindowsKept' /\ Dashboard'
    BY <2>1 DEF ReportInv, ReportTypes, WindowsKept, Dashboard, counts, ownerVars, renderVars
  <2>3. ReadInOrder'
    BY <2>1 DEF ReportInv, ReadInOrder, counts, renderVars
  <2> QED
    BY <2>1, <2>2, <2>3, ItemsStand DEF ReportInv
<1> QED
  BY <1>1, ItemKeeps, WipeKeeps, OwnerOfDashboardKeeps, RendererKeeps DEF ReportNext

LEMMA ReportInvariance == ReportSpec => []ReportInv
<1> QED
  BY ReportInvInit, ReportsKeep, PTL DEF ReportSpec

---------------------------------------------------------------------------
(* MetricsReporting: what follows                                          *)

LEMMA ReportsClose == ReportInv => ReportsAreClose
<1> SUFFICES ASSUME ReportInv PROVE ReportsAreClose
  OBVIOUS
<1>1. ASSUME NEW r \in steady, render[r] = "record"
      PROVE  /\ snap[r].output <= snap[r].input + (entered - begun[r]) + carried
             /\ snap[r].stageIn <= snap[r].input + carried
             /\ snap[r].stageEnd <= snap[r].input + carried
  <2>1. InOrder("record", snap[r], begun[r], total_input, entered, carried)
    BY <1>1 DEF ReportInv, ReadInOrder
  <2>2. /\ snap[r].stageIn \in Nat /\ snap[r].stageEnd \in Nat /\ snap[r].output \in Nat
        /\ begun[r] \in Nat /\ snap[r].input \in Nat
        /\ total_input \in Nat /\ entered \in Nat /\ carried \in Nat
    BY DEF ReportInv, ReportTypes
  <2> QED
    BY <2>1, <2>2 DEF InOrder
<1> QED
  BY <1>1 DEF ReportInv, WindowsKept, LatestOf, ReportsAreClose

\* However many renderers read while any number of threads count and counters are reset
\* (pipeline_metrics.rs:124, 172): a snapshot that no reset overlapped answers no more
\* outputs than inputs but for items that began while it was taken and items that were
\* under way in the last reset, and a renderer's history is its latest snapshots in order.
THEOREM ReportsStayClose == ReportSpec => []ReportsAreClose
  BY ReportsClose, ReportInvariance, PTL

LEMMA GoneOnceDropped == ReportInv => DroppedDashboardIsGone
  BY DEF ReportInv, Dashboard, DroppedDashboardIsGone

\* dashboard.rs:134: a dashboard that was dropped has told every renderer to end and
\* has waited for all but those whose handle a second start threw away.
THEOREM DroppedIsGone == ReportSpec => []DroppedDashboardIsGone
  BY GoneOnceDropped, ReportInvariance, PTL

---------------------------------------------------------------------------
(* SnapshotReports: what is recorded, summed up and drawn                  *)

\* The latest n of a sequence.
LEMMA LatestIs ==
  ASSUME NEW S, NEW s \in Seq(S), NEW n \in Nat
  PROVE  /\ Latest(s, n) \in Seq(S)
         /\ Len(Latest(s, n)) = IF Len(s) < n THEN Len(s) ELSE n
         /\ \A i \in 1..Len(Latest(s, n)) : Latest(s, n)[i] = s[Len(s) - Len(Latest(s, n)) + i]
<1> DEFINE m == IF Len(s) < n THEN 1 ELSE Len(s) - n + 1
<1>1. m \in 1..Len(s) + 1 /\ Len(s) \in Nat
  OBVIOUS
<1>2. Latest(s, n) = SubSeq(s, m, Len(s))
  BY DEF Latest
<1>3. Len(s) - m + 1 = IF Len(s) < n THEN Len(s) ELSE n
  OBVIOUS
<1> HIDE DEF m
<1>4. SubSeq(s, m, Len(s)) \in Seq(S)
  <2>1. \A i \in m..Len(s) : s[i] \in S
    BY <1>1
  <2> QED
    BY <1>1, <2>1
<1>5. Len(SubSeq(s, m, Len(s))) = Len(s) - m + 1
  BY <1>1
<1>6. \A i \in 1..Len(s) - m + 1 : SubSeq(s, m, Len(s))[i] = s[m + i - 1]
  BY <1>1
<1>7. ASSUME NEW i \in 1..Len(Latest(s, n))
      PROVE  Latest(s, n)[i] = s[Len(s) - Len(Latest(s, n)) + i]
  <2>1. i \in 1..Len(s) - m + 1
    BY <1>2, <1>5
  <2>2. m + i - 1 = Len(s) - Len(Latest(s, n)) + i
    BY <1>1, <1>2, <1>5, <2>1
  <2> QED
    BY <1>2, <1>6, <2>1, <2>2
<1> QED
  BY <1>2, <1>3, <1>4, <1>5, <1>7

LEMMA TailOf ==
  ASSUME NEW S, NEW s \in Seq(S), Len(s) > 0
  PROVE  /\ Tail(s) \in Seq(S) /\ Len(s) \in Nat /\ Len(Tail(s)) = Len(s) - 1
         /\ \A i \in 1..Len(s) - 1 : Tail(s)[i] = s[i + 1]
<1>1. s # <<>>
  OBVIOUS
<1> QED
  BY <1>1

\* Appending to the latest n, and giving up the first when they are more than n.
LEMMA LatestOfMore ==
  ASSUME NEW S, NEW s \in Seq(S), NEW x \in S, NEW n \in Nat
  PROVE  Latest(Append(s, x), n) =
           IF Len(Append(Latest(s, n), x)) > n THEN Tail(Append(Latest(s, n), x))
           ELSE Append(Latest(s, n), x)
<1>1. PICK old \in Seq(S) : old = Latest(s, n)
  BY LatestIs
<1>2. PICK t \in Seq(S) : t = Append(s, x)
  BY AppendedIs
<1>3. PICK new \in Seq(S) : new = Latest(t, n)
  BY LatestIs
<1>4. /\ Len(s) \in Nat /\ Len(t) = Len(s) + 1 /\ t[Len(s) + 1] = x
      /\ \A i \in 1..Len(s) : t[i] = s[i]
  BY <1>2, AppendedIs
<1>5. /\ Len(old) = IF Len(s) < n THEN Len(s) ELSE n
      /\ \A i \in 1..Len(old) : old[i] = s[Len(s) - Len(old) + i]
  BY <1>1, LatestIs
<1>6. /\ Len(new) = IF Len(t) < n THEN Len(t) ELSE n
      /\ \A i \in 1..Len(new) : new[i] = t[Len(t) - Len(new) + i]
  BY <1>3, LatestIs
<1>7. PICK more \in Seq(S) : more = Append(old, x)
  BY AppendedIs
<1>8. /\ Len(old) \in Nat /\ Len(more) = Len(old) + 1 /\ more[Len(old) + 1] = x
      /\ \A i \in 1..Len(old) : more[i] = old[i]
  BY <1>7, AppendedIs
<1>9. CASE Len(more) <= n
  <2>1. Len(old) = Len(s) /\ Len(new) = Len(more) /\ Len(t) = Len(new)
    BY <1>4, <1>5, <1>6, <1>8, <1>9
  <2>2. ASSUME NEW i \in 1..Len(new)
        PROVE  new[i] = more[i]
    <3>1. new[i] = t[i]
      <4>1. Len(t) - Len(new) + i = i
        BY <1>4, <2>1
      <4> QED
        BY <1>6, <4>1
    <3>2. CASE i = Len(s) + 1
      BY <1>4, <1>8, <2>1, <3>1, <3>2
    <3>3. CASE i \in 1..Len(s)
      <4>1. old[i] = s[i]
        <5>1. Len(s) - Len(old) + i = i
          BY <1>4, <2>1
        <5> QED
          BY <1>5, <2>1, <3>3, <5>1
      <4> QED
        BY <1>4, <1>8, <2>1, <3>1, <3>3, <4>1
    <3> QED
      BY <1>4, <2>1, <3>2, <3>3
  <2>3. new = more
    BY <2>1, <2>2, SameSequence
  <2>4. ~(Len(more) > n)
    BY <1>8, <1>9
  <2> QED
    BY <1>1, <1>2, <1>3, <1>7, <2>3, <2>4
<1>10. CASE Len(more) > n
  <2>1. Len(old) = n /\ Len(new) = n /\ Len(more) = n + 1 /\ n <= Len(s)
    BY <1>4, <1>5, <1>6, <1>8, <1>10
  <2>6. Len(more) > 0
    BY <2>1
  <2>2. PICK rest \in Seq(S) : rest = Tail(more)
    BY <2>6, TailOf
  <2>7. Len(rest) = Len(more) - 1 /\ \A i \in 1..Len(more) - 1 : rest[i] = more[i + 1]
    BY <2>2, <2>6, TailOf
  <2>8. Len(more) - 1 = n
    BY <2>1
  <2>3. Len(rest) = n /\ \A i \in 1..n : rest[i] = more[i + 1]
    BY <2>7, <2>8
  <2>4. ASSUME NEW i \in 1..n
        PROVE  new[i] = rest[i]
    <3>1. PICK k : k = Len(s) - n + i + 1
      OBVIOUS
    <3>2. k \in 1..Len(s) + 1 /\ Len(t) - Len(new) + i = k
      BY <1>4, <2>1, <3>1
    <3>3. new[i] = t[k]
      BY <1>6, <2>1, <3>2
    <3>4. CASE i = n
      <4>1. k = Len(s) + 1
        BY <1>4, <3>1, <3>4
      <4> QED
        BY <1>4, <1>8, <2>1, <2>3, <3>3, <3>4, <4>1
    <3>5. CASE i \in 1..n - 1
      <4>1. i + 1 \in 1..n /\ k \in 1..Len(s) /\ Len(s) - Len(old) + (i + 1) = k
        BY <1>4, <2>1, <3>1, <3>5
      <4>2. old[i + 1] = s[k]
        BY <1>5, <2>1, <4>1
      <4>3. rest[i] = old[i + 1]
        BY <1>8, <2>1, <2>3, <4>1
      <4> QED
        BY <1>4, <3>3, <4>1, <4>2, <4>3
    <3> QED
      BY <3>4, <3>5
  <2>5. new = rest
    BY <2>1, <2>3, <2>4, SameSequence
  <2> QED
    BY <1>1, <1>2, <1>3, <1>7, <1>10, <2>2, <2>5
<1>11. Len(more) <= n \/ Len(more) > n
  BY <1>8
<1> QED
  BY <1>9, <1>10, <1>11

LEMMA LatestNone ==
  ASSUME NEW n \in Nat
  PROVE  Latest(<<>>, n) = <<>>
<1>1. <<>> \in Seq(Nat) /\ Len(<<>>) = 0
  OBVIOUS
<1>2. Latest(<<>>, n) \in Seq(Nat) /\ Len(Latest(<<>>, n)) = IF 0 < n THEN 0 ELSE n
  BY <1>1, LatestIs
<1>3. Len(Latest(<<>>, n)) = 0
  BY <1>2
<1> QED
  BY <1>1, <1>2, <1>3, SameSequence

\* The recorder's way of making room, before it appends.
LEMMA KeptIsLatest ==
  ASSUME NEW S, NEW s \in Seq(S), NEW x \in S, MaxSnapshots > 0
  PROVE  Kept(Latest(s, MaxSnapshots), x) = Latest(Append(s, x), MaxSnapshots)
<1>0. MaxSnapshots \in Nat /\ MaxSnapshots >= 1
  BY RecorderAssumption
<1>1. PICK old \in Seq(S) : old = Latest(s, MaxSnapshots)
  BY <1>0, LatestIs
<1>2. Len(Append(old, x)) = Len(old) + 1 /\ Len(old) \in Nat
  OBVIOUS
<1>3. Latest(Append(s, x), MaxSnapshots) =
        IF Len(Append(old, x)) > MaxSnapshots THEN Tail(Append(old, x)) ELSE Append(old, x)
  BY <1>0, <1>1, LatestOfMore
<1>4. CASE Len(old) >= MaxSnapshots
  <2>1. Len(old) > 0 /\ Len(Append(old, x)) > 0
    BY <1>0, <1>2, <1>4
  <2>2. Tail(Append(old, x)) = Append(Tail(old), x)
    <3>0. PICK d \in Seq(S) : d = Append(old, x)
      BY AppendedIs
    <3>7. Len(d) = Len(old) + 1 /\ d[Len(old) + 1] = x /\ \A i \in 1..Len(old) : d[i] = old[i]
      BY <3>0, AppendedIs
    <3>1. PICK a \in Seq(S) : a = Tail(d)
      BY <2>1, <3>0, TailOf
    <3>3. Len(a) = Len(d) - 1 /\ \A i \in 1..Len(d) - 1 : a[i] = d[i + 1]
      BY <2>1, <3>0, <3>1, TailOf
    <3>4. PICK c \in Seq(S) : c = Tail(old)
      BY <2>1, TailOf
    <3>5. Len(c) = Len(old) - 1 /\ \A i \in 1..Len(old) - 1 : c[i] = old[i + 1]
      BY <2>1, <3>4, TailOf
    <3>2. PICK b \in Seq(S) : b = Append(c, x)
      BY AppendedIs
    <3>6. Len(b) = Len(c) + 1 /\ b[Len(c) + 1] = x /\ \A i \in 1..Len(c) : b[i] = c[i]
      BY <3>2, AppendedIs
    <3>8. ASSUME NEW i \in 1..Len(old)
          PROVE  a[i] = b[i]
      <4>1. CASE i = Len(old)
        BY <1>2, <3>3, <3>5, <3>6, <3>7, <4>1
      <4>2. CASE i \in 1..Len(old) - 1
        <5>1. i + 1 \in 1..Len(old) /\ i \in 1..Len(c) /\ i \in 1..Len(d) - 1
          BY <1>2, <3>5, <3>7, <4>2
        <5> QED
          BY <3>3, <3>5, <3>6, <3>7, <4>2, <5>1
      <4> QED
        BY <1>2, <4>1, <4>2
    <3>9. Len(a) = Len(b)
      BY <1>2, <3>3, <3>5, <3>6, <3>7
    <3>11. Len(a) = Len(old)
      BY <1>2, <3>3, <3>7
    <3>10. a = b
      BY <3>8, <3>9, <3>11, SameSequence
    <3> QED
      BY <3>0, <3>1, <3>2, <3>4, <3>10
  <2>3. Kept(old, x) = Append(Tail(old), x)
    BY <1>4 DEF Kept
  <2>4. Len(Append(old, x)) > MaxSnapshots
    BY <1>0, <1>2, <1>4
  <2> QED
    BY <1>1, <1>3, <2>2, <2>3, <2>4
<1>5. CASE ~(Len(old) >= MaxSnapshots)
  <2>1. Kept(old, x) = Append(old, x)
    BY <1>5 DEF Kept
  <2>2. ~(Len(Append(old, x)) > MaxSnapshots)
    BY <1>0, <1>2, <1>5
  <2> QED
    BY <1>1, <1>3, <2>1, <2>2
<1> QED
  BY <1>4, <1>5

LEMMA ShortenedIsLatest ==
  ASSUME NEW S, NEW s \in Seq(S), NEW x \in S
  PROVE  Shortened(Append(Latest(s, RenderHistory), x)) = Latest(Append(s, x), RenderHistory)
BY RecorderAssumption, LatestOfMore DEF Shortened

\* One field of all snapshots.
LEMMA EachIs ==
  ASSUME NEW s \in Seq(Snapshots), NEW field \in {"throughput", "p99", "input", "output"}
  PROVE  /\ Each(s, field) \in Seq(Nat) /\ Each(s, field) \in Seq(Int)
         /\ Len(Each(s, field)) = Len(s)
         /\ \A i \in 1..Len(s) : Each(s, field)[i] = s[i][field] /\ s[i][field] \in Nat
<1>1. Len(s) \in Nat /\ DOMAIN s = 1..Len(s) /\ \A i \in 1..Len(s) : s[i] \in Snapshots
  OBVIOUS
<1>2. ASSUME NEW x \in Snapshots
      PROVE  x[field] \in Nat
  <2>1. x.throughput \in Nat /\ x.p99 \in Nat /\ x.input \in Nat /\ x.output \in Nat
    BY SnapshotsAssumption
  <2> QED
    BY <2>1
<1>3. Each(s, field) = [i \in 1..Len(s) |-> s[i][field]]
  BY <1>1 DEF Each
<1>4. PICK e : e = Each(s, field)
  OBVIOUS
<1>5. e \in [1..Len(s) -> Nat]
  BY <1>1, <1>2, <1>3, <1>4
<1>6. e \in Seq(Nat) /\ Len(e) = Len(s)
  BY <1>1, <1>5
<1>7. e \in Seq(Int)
  BY <1>6
<1> QED
  BY <1>1, <1>2, <1>3, <1>4, <1>6, <1>7

LEMMA SnapshotIs ==
  ASSUME NEW s \in Seq(Snapshots), NEW i \in 1..Len(s)
  PROVE  s[i] \in Snapshots /\ s[i].input \in Nat /\ s[i].output \in Nat
<1>1. s[i] \in Snapshots
  OBVIOUS
<1> QED
  BY <1>1, SnapshotsAssumption

\* The overall drop rate is between two of the single ones: of rates with the weight of
\* their inputs, one is not above the mean and one is not below.
LEMMA MeanRateBetween ==
  ASSUME NEW s \in Seq(Snapshots), s # <<>>, \A x \in ToSet(s) : x.input = 0 => x.output = 0
  PROVE  \E i, j \in 1..Len(s) : /\ NoMore(DropRate(s[i]), DropRate(Summary(s)))
                                 /\ NoMore(DropRate(Summary(s)), DropRate(s[j]))
<1> DEFINE ins == Each(s, "input")
           outs == Each(s, "output")
<1>1. /\ ins \in Seq(Int) /\ outs \in Seq(Int) /\ Len(ins) = Len(s) /\ Len(outs) = Len(s)
      /\ \A i \in 1..Len(s) : ins[i] = s[i].input /\ outs[i] = s[i].output
      /\ \A i \in 1..Len(s) : ins[i] \in Nat /\ outs[i] \in Nat
  <2>1. ins \in Seq(Int) /\ Len(ins) = Len(s)
    BY EachIs
  <2>2. outs \in Seq(Int) /\ Len(outs) = Len(s)
    BY EachIs
  <2>3. \A i \in 1..Len(s) : ins[i] = s[i]["input"] /\ outs[i] = s[i]["output"]
    BY EachIs
  <2>4. \A i \in 1..Len(s) : s[i]["input"] \in Nat /\ s[i]["output"] \in Nat
    BY EachIs
  <2> HIDE DEF ins, outs
  <2> QED
    BY <2>1, <2>2, <2>3, <2>4
<1>2. Len(s) \in Nat /\ Len(s) > 0 /\ DOMAIN s = 1..Len(s)
  OBVIOUS
<1>3. PICK I \in Int, O \in Int : I = SumOf(ins) /\ O = SumOf(outs)
  BY <1>1, SumIsInt
<1>4. Summary(s).input = I /\ Summary(s).output = O
  BY <1>3 DEF Summary
<1> HIDE DEF ins, outs
<1>5. \A i \in 1..Len(s) : ins[i] = 0 => outs[i] = 0
  <2>1. \A i \in 1..Len(s) : s[i] \in ToSet(s)
    BY <1>2 DEF ToSet
  <2> QED
    BY <1>1, <2>1
<1>6. DropRate(Summary(s)) = IF I = 0 THEN <<0, 1>> ELSE <<I - O, I>>
  BY <1>4 DEF DropRate
<1>7. \A i \in 1..Len(s) :
        DropRate(s[i]) = IF ins[i] = 0 THEN <<0, 1>> ELSE <<ins[i] - outs[i], ins[i]>>
  BY <1>1 DEF DropRate
<1>8. CASE I = 0
  <2>1. ASSUME NEW i \in 1..Len(s)
        PROVE  ins[i] = 0
    <3>1. ASSUME ins[i] > 0
          PROVE  FALSE
      <4>1. \A k \in 1..Len(ins) : ins[k] >= 0
        BY <1>1
      <4>2. SumOf(ins) > 0
        BY <1>1, <3>1, <4>1, SumPositive
      <4> QED
        BY <1>3, <1>8, <4>2
    <3> QED
      BY <1>1, <3>1
  <2>2. 1 \in 1..Len(s)
    BY <1>2
  <2>3. DropRate(s[1]) = <<0, 1>> /\ DropRate(Summary(s)) = <<0, 1>>
    BY <1>6, <1>7, <1>8, <2>1, <2>2
  <2>4. NoMore(<<0, 1>>, <<0, 1>>)
    BY DEF NoMore
  <2> QED
    BY <2>2, <2>3, <2>4
<1>9. CASE I # 0
  <2> DEFINE W(c, d) == [i \in 1..Len(s) |-> c * ins[i] + d * outs[i]]
  <2>1. ASSUME NEW c \in Int, NEW d \in Int, c * I + d * O = 0
        PROVE  \E i \in 1..Len(s) : ins[i] > 0 /\ c * ins[i] + d * outs[i] <= 0
    <3>1. PICK w : w = W(c, d)
      OBVIOUS
    <3>11. \A i \in 1..Len(s) : c * ins[i] + d * outs[i] \in Int
      BY <1>1
    <3>2. w \in Seq(Int) /\ Len(w) = Len(s)
      <4>2. w \in [1..Len(s) -> Int]
        BY <3>1, <3>11
      <4> QED
        BY <1>2, <4>2
    <3>3. \A i \in 1..Len(w) : w[i] = c * ins[i] + d * outs[i]
      BY <3>1, <3>2
    <3>10. Combines(w, ins, outs, c, d)
      BY <1>1, <3>2, <3>3 DEF Combines
    <3>4. SumOf(w) = c * SumOf(ins) + d * SumOf(outs)
      BY <1>1, <3>2, <3>10, SumCombined
    <3>5. SumOf(w) = 0
      BY <1>3, <2>1, <3>4
    <3> SUFFICES ASSUME \A i \in 1..Len(s) : ins[i] > 0 => c * ins[i] + d * outs[i] > 0
                 PROVE  FALSE
      <4> DEFINE E(i) == c * ins[i] + d * outs[i]
      <4>1. \A i \in 1..Len(s) : E(i) \in Int
        BY <3>11
      <4>2. (\A i \in 1..Len(s) : ins[i] > 0 => E(i) > 0) => FALSE
        OBVIOUS
      <4> HIDE DEF E
      <4>3. \E i \in 1..Len(s) : ins[i] > 0 /\ E(i) <= 0
        BY <4>1, <4>2
      <4> QED
        BY <4>3 DEF E
    <3>6. \A i \in 1..Len(w) : w[i] >= 0
      <4>1. ASSUME NEW i \in 1..Len(w)
            PROVE  w[i] >= 0
        <5>1. CASE ins[i] = 0
          <6>1. outs[i] = 0
            BY <1>5, <3>2, <5>1
          <6>2. c * ins[i] + d * outs[i] = 0
            BY <5>1, <6>1
          <6> QED
            BY <3>3, <6>2
        <5>2. CASE ins[i] > 0
          <6>1. w[i] \in Int
            BY <3>2
          <6>2. w[i] > 0
            BY <3>2, <3>3, <5>2
          <6> QED
            BY <6>1, <6>2
        <5>3. ins[i] \in Nat
          BY <1>1, <3>2
        <5> QED
          BY <5>1, <5>2, <5>3
      <4> QED
        BY <4>1
    <3>7. PICK k \in 1..Len(s) : ins[k] > 0
      <4>1. ASSUME \A k \in 1..Len(s) : ~(ins[k] > 0)
            PROVE  FALSE
        <5>1. \A k \in 1..Len(ins) : 0 <= ins[k] /\ ins[k] <= 0
          BY <1>1, <4>1
        <5>2. 0 * Len(ins) <= SumOf(ins) /\ SumOf(ins) <= 0 * Len(ins)
          BY <1>1, <5>1, SumBetween
        <5>3. 0 * Len(ins) = 0
          BY <1>1, <1>2
        <5> QED
          BY <1>3, <1>9, <5>2, <5>3
      <4> QED
        BY <4>1
    <3>8. k \in 1..Len(w) /\ w[k] > 0
      BY <3>2, <3>3, <3>7
    <3>9. SumOf(w) > 0
      BY <3>2, <3>6, <3>8, SumPositive
    <3> QED
      BY <3>5, <3>9
  <2>2. PICK minusO \in Int, minusI \in Int : minusO = 0 - O /\ minusI = 0 - I
    OBVIOUS
  <2>3. O * I + minusI * O = 0 /\ minusO * I + I * O = 0
    BY <2>2
  <2>4. PICK i \in 1..Len(s) : ins[i] > 0 /\ O * ins[i] + minusI * outs[i] <= 0
    <3>1. PICK c \in Int, d \in Int : c = O /\ d = minusI
      BY <1>3, <2>2
    <3>2. c * I + d * O = 0
      BY <2>3, <3>1
    <3>3. \E i \in 1..Len(s) : ins[i] > 0 /\ c * ins[i] + d * outs[i] <= 0
      BY <2>1, <3>2
    <3> QED
      BY <3>1, <3>3
  <2>5. PICK j \in 1..Len(s) : ins[j] > 0 /\ minusO * ins[j] + I * outs[j] <= 0
    <3>1. PICK c \in Int, d \in Int : c = minusO /\ d = I
      BY <1>3, <2>2
    <3>2. c * I + d * O = 0
      BY <2>3, <3>1
    <3>3. \E j \in 1..Len(s) : ins[j] > 0 /\ c * ins[j] + d * outs[j] <= 0
      BY <2>1, <3>2
    <3> QED
      BY <3>1, <3>3
  <2>6. DropRate(Summary(s)) = <<I - O, I>>
    BY <1>6, <1>9
  <2>7. NoMore(DropRate(s[i]), DropRate(Summary(s)))
    <3>0. ins[i] \in Int /\ outs[i] \in Int
      <4>1. \A k \in 1..Len(s) : ins[k] \in Int /\ outs[k] \in Int
        BY <1>1
      <4> QED
        BY <4>1
    <3>1. PICK a \in Int, b \in Int : a = ins[i] /\ b = outs[i]
      BY ONLY <3>0
    <3>2. DropRate(s[i]) = <<a - b, a>>
      <4>1. a # 0
        BY <2>4, <3>1
      <4> QED
        BY <1>7, <3>1, <4>1
    <3>3. O * a + minusI * b <= 0
      BY <2>4, <3>1
    <3>4. O * a - I * b <= 0
      BY <2>2, <3>3
    <3>5. (a - b) * I <= (I - O) * a
      BY <3>4
    <3> QED
      BY <2>6, <3>2, <3>5 DEF NoMore
  <2>8. NoMore(DropRate(Summary(s)), DropRate(s[j]))
    <3>1. PICK a \in Int, b \in Int : a = ins[j] /\ b = outs[j]
      BY <1>1
    <3>2. DropRate(s[j]) = <<a - b, a>>
      <4>1. a # 0
        BY <2>5, <3>1
      <4> QED
        BY <1>7, <3>1, <4>1
    <3>3. minusO * a + I * b <= 0
      BY <2>5, <3>1
    <3>4. I * b - O * a <= 0
      BY <2>2, <3>3
    <3>5. (I - O) * a <= (a - b) * I
      BY <3>4
    <3> QED
      BY <2>6, <3>2, <3>5 DEF NoMore
  <2> QED
    BY <2>7, <2>8
<1> QED
  BY <1>8, <1>9

\* The summary of recorded snapshots lies among them.
LEMMA SummaryLies ==
  ASSUME NEW s \in Seq(Snapshots), s # <<>>
  PROVE  /\ Summary(s).count = Len(s)
         /\ {Summary(s).least, Summary(s).largest} \subseteq ToSet(Each(s, "throughput"))
         /\ Summary(s).p99 \in ToSet(Each(s, "p99"))
         /\ Summary(s).least * Summary(s).count <= Summary(s).throughput
         /\ Summary(s).throughput <= Summary(s).largest * Summary(s).count
<1>1. PICK t : t = Each(s, "throughput")
  OBVIOUS
<1>2. PICK p : p = Each(s, "p99")
  OBVIOUS
<1>3. t \in Seq(Nat) /\ t \in Seq(Int) /\ Len(t) = Len(s)
  BY <1>1, EachIs
<1>4. p \in Seq(Nat) /\ p \in Seq(Int) /\ Len(p) = Len(s)
  BY <1>2, EachIs
<1>5. Len(s) > 0 /\ t # <<>> /\ p # <<>>
  <2>1. Len(s) > 0
    OBVIOUS
  <2>2. Len(<<>>) = 0
    OBVIOUS
  <2> QED
    BY <1>3, <1>4, <2>1, <2>2
<1>6. PICK least : least = Min(ToSet(t))
  OBVIOUS
<1>7. PICK largest : largest = Max(ToSet(t))
  OBVIOUS
<1>8. /\ Summary(s).count = Len(s) /\ Summary(s).least = least /\ Summary(s).largest = largest
      /\ Summary(s).p99 = Max(ToSet(p)) /\ Summary(s).throughput = SumOf(t)
  <2>1. Max({0} \union ToSet(t)) = Max(ToSet(t))
    BY <1>3, <1>5, LargestFromZero
  <2>2. Max({0} \union ToSet(p)) = Max(ToSet(p))
    BY <1>4, <1>5, LargestFromZero
  <2> QED
    BY <1>1, <1>2, <1>6, <1>7, <2>1, <2>2 DEF Summary
<1>9. least \in ToSet(t) /\ \A i \in 1..Len(t) : least <= t[i]
  BY <1>3, <1>5, <1>6, LeastIs
<1>10. largest \in ToSet(t) /\ \A i \in 1..Len(t) : t[i] <= largest
  BY <1>3, <1>5, <1>7, LargestIs
<1>11. Max(ToSet(p)) \in ToSet(p)
  BY <1>4, <1>5, LargestIs
<1>12. least \in Int /\ largest \in Int
  <2>1. ToSet(t) \subseteq Int
    BY <1>3, SetOf
  <2> QED
    BY <1>9, <1>10, <2>1
<1>13. least * Len(t) <= SumOf(t) /\ SumOf(t) <= largest * Len(t)
  BY <1>3, <1>9, <1>10, <1>12, SumBetween
<1> QED
  BY <1>1, <1>2, <1>3, <1>8, <1>9, <1>10, <1>11, <1>13

\* Dividing: the quotient and what is left.
LEMMA QuotientAndRest ==
  ASSUME NEW a \in Int, NEW d \in Nat \ {0}
  PROVE  /\ a \div d \in Int
         /\ \E r \in 0..d - 1 : a = d * (a \div d) + r
<1>1. a \div d \in Int /\ a % d \in 0..d - 1
  OBVIOUS
<1>2. a = d * (a \div d) + (a % d)
  OBVIOUS
<1> QED
  BY <1>1, <1>2

\* Height keeps the order and stays within the characters; its ends are reached.
LEMMA HeightIs ==
  ASSUME NEW least \in Int, NEW range \in Nat \ {0}, NEW v \in Int, NEW w \in Int,
         least <= v, v <= w, w <= least + range
  PROVE  /\ Height(v, least, range) \in Int /\ Height(w, least, range) \in Int
         /\ 0 <= Height(v, least, range) /\ Height(w, least, range) <= 6
         /\ Height(v, least, range) <= Height(w, least, range)
         /\ v = least => Height(v, least, range) = 0
         /\ w = least + range => Height(w, least, range) = 6
<1>1. PICK a \in Int, b \in Int : a = (v - least) * 6 /\ b = (w - least) * 6
  OBVIOUS
<1>2. Height(v, least, range) = a \div range /\ Height(w, least, range) = b \div range
  BY <1>1 DEF Height, Levels7
<1>3. 0 <= a /\ a <= b /\ b <= 6 * range /\ (v = least => a = 0) /\ (w = least + range => b = 6 * range)
  BY <1>1
<1>4. PICK p \in Int, r \in Int : p = a \div range /\ a = range * p + r /\ 0 <= r /\ r < range
  BY <1>1, QuotientAndRest
<1>5. PICK q \in Int, t \in Int : q = b \div range /\ b = range * q + t /\ 0 <= t /\ t < range
  BY <1>1, QuotientAndRest
<1>6. \A x \in Int, y \in Int : x < y => range * x + range <= range * y
  <2>1. ASSUME NEW x \in Int, NEW y \in Int, x < y
        PROVE  range * x + range <= range * y
    <3>1. PICK z \in Nat : y = x + 1 + z
      BY <2>1
    <3>2. range * y = (range * x + range) + range * z
      BY <3>1
    <3>3. range * z >= 0 /\ range * z \in Int /\ range * x \in Int
      OBVIOUS
    <3> QED
      BY <3>2, <3>3
  <2> QED
    BY <2>1
<1>7. range * p \in Int /\ range * q \in Int
  OBVIOUS
<1>8. 0 <= p
  <2>1. ASSUME p < 0
        PROVE  FALSE
    <3>1. range * p + range <= range * 0
      BY <1>6, <2>1
    <3>2. range * 0 = 0
      OBVIOUS
    <3> QED
      BY <1>3, <1>4, <1>7, <3>1, <3>2
  <2> QED
    BY <2>1
<1>9. p <= q
  <2>1. ASSUME q < p
        PROVE  FALSE
    <3>1. range * q + range <= range * p
      BY <1>6, <2>1
    <3> QED
      BY <1>3, <1>4, <1>5, <1>7, <3>1
  <2> QED
    BY <2>1
<1>10. q <= 6
  <2>1. ASSUME 6 < q
        PROVE  FALSE
    <3>1. range * 6 + range <= range * q
      BY <1>6, <2>1
    <3>2. range * 6 = 6 * range
      OBVIOUS
    <3> QED
      BY <1>3, <1>5, <1>7, <3>1, <3>2
  <2> QED
    BY <2>1
<1>11. v = least => p = 0
  <2>1. ASSUME v = least, 0 < p
        PROVE  FALSE
    <3>1. range * 0 + range <= range * p
      BY <1>6, <2>1
    <3>2. range * 0 = 0
      OBVIOUS
    <3> QED
      BY <1>3, <1>4, <1>7, <2>1, <3>1, <3>2
  <2> QED
    BY <1>8, <2>1
<1>12. w = least + range => q = 6
  <2>1. ASSUME w = least + range, q < 6
        PROVE  FALSE
    <3>1. range * q + range <= range * 6
      BY <1>6, <2>1
    <3>2. range * 6 = 6 * range
      OBVIOUS
    <3> QED
      BY <1>3, <1>5, <1>7, <2>1, <3>1, <3>2
  <2> QED
    BY <1>10, <2>1
<1> QED
  BY <1>2, <1>4, <1>5, <1>8, <1>9, <1>10, <1>11, <1>12

\* A drawing of values, all of them of the same kind of height.
DrawnOf(level, v) ==
  /\ \A i \in DOMAIN level : level[i] \in 0..Levels7 - 1
  /\ \A i, j \in DOMAIN level : v[i] <= v[j] => level[i] <= level[j]
  /\ (Len(v) <= MaxBars /\ \E i, j \in DOMAIN v : v[i] # v[j]) =>
       {0, Levels7 - 1} \subseteq ToSet(level)

LEMMA HeightEnds ==
  ASSUME NEW least \in Int, NEW range \in Nat \ {0}
  PROVE  Height(least, least, range) = 0 /\ Height(least + range, least, range) = 6
<1>1. PICK most \in Int : most = least + range
  OBVIOUS
<1>2. least <= least /\ least <= most /\ most <= least + range
  BY <1>1
<1>3. Height(least, least, range) = 0
  BY <1>1, <1>2, HeightIs
<1>4. Height(most, least, range) = 6
  BY <1>1, <1>2, HeightIs
<1> QED
  BY <1>1, <1>3, <1>4

LEMMA HeightWithin ==
  ASSUME NEW least \in Int, NEW range \in Nat \ {0}, NEW v \in Int, least <= v, v <= least + range
  PROVE  Height(v, least, range) \in 0..6
<1>1. v <= v
  OBVIOUS
<1>2. Height(v, least, range) \in Int /\ 0 <= Height(v, least, range) /\ Height(v, least, range) <= 6
  BY <1>1, HeightIs
<1> QED
  BY <1>2

LEMMA PrefixIs ==
  ASSUME NEW S, NEW s \in Seq(S), NEW n \in 0..Len(s)
  PROVE  /\ DOMAIN SubSeq(s, 1, n) = 1..n
         /\ \A i \in 1..n : SubSeq(s, 1, n)[i] = s[i]
<1>1. n \in Nat /\ Len(s) \in Nat
  OBVIOUS
<1>2. SubSeq(s, 1, n) = [i \in 1..n |-> s[i]]
  BY <1>1
<1> QED
  BY <1>2

LEMMA SparklineIsTrue ==
  ASSUME NEW v \in Seq(Nat), v # <<>>
  PROVE  DrawnOf(Sparkline(v), v)
<1>0. v \in Seq(Int) /\ Len(v) \in Nat /\ DOMAIN v = 1..Len(v) /\ \A i \in 1..Len(v) : v[i] \in Nat
  OBVIOUS
<1>1. PICK least : least = Min(ToSet(v))
  OBVIOUS
<1>2. PICK most : most = Max(ToSet(v))
  OBVIOUS
<1>3. least \in ToSet(v) /\ \A i \in 1..Len(v) : least <= v[i]
  BY <1>0, <1>1, LeastIs
<1>4. most \in ToSet(v) /\ \A i \in 1..Len(v) : v[i] <= most
  BY <1>0, <1>2, LargestIs
<1>5. PICK lo \in 1..Len(v), hi \in 1..Len(v) : v[lo] = least /\ v[hi] = most
  BY <1>0, <1>3, <1>4, SetOf
<1>6. least \in Nat /\ most \in Nat /\ least <= most
  BY <1>0, <1>3, <1>5
<1>7. PICK range \in Nat : range = most - least
  BY <1>6
<1>a. MaxBars \in Nat
  BY RecorderAssumption
<1>b. PICK n : n = IF Len(v) < MaxBars THEN Len(v) ELSE MaxBars
  OBVIOUS
<1>8. n \in 0..Len(v) /\ (Len(v) <= MaxBars => n = Len(v))
  <2>1. PICK k \in Nat : k = Len(v)
    BY <1>0
  <2>2. CASE k < MaxBars
    BY <1>b, <2>1, <2>2
  <2>3. CASE ~(k < MaxBars)
    BY <1>a, <1>b, <2>1, <2>3
  <2> QED
    BY <2>2, <2>3
<1>9. /\ DOMAIN SubSeq(v, 1, n) = 1..n
      /\ \A i \in 1..n : SubSeq(v, 1, n)[i] = v[i]
  BY <1>8, PrefixIs
<1>10. PICK level : level = Sparkline(v)
  OBVIOUS
<1>11. level = [i \in 1..n |-> IF range = 0 THEN 3 ELSE Height(v[i], least, range)]
  <2>1. level = [i \in DOMAIN SubSeq(v, 1, n) |->
                   IF range = 0 THEN 3 ELSE Height(SubSeq(v, 1, n)[i], least, range)]
    BY <1>1, <1>2, <1>7, <1>b, <1>10 DEF Sparkline
  <2> QED
    BY <1>9, <2>1
<1>12. DOMAIN level = 1..n /\ \A i \in 1..n : i \in 1..Len(v)
  BY <1>8, <1>11
<1>13. CASE range = 0
  <2>1. \A i \in 1..n : level[i] = 3
    BY <1>11, <1>13
  <2>2. \A i \in 1..Len(v) : v[i] = least
    <3>1. most = least
      BY <1>6, <1>7, <1>13
    <3> QED
      BY <1>0, <1>3, <1>4, <1>6, <3>1
  <2>3. ~ \E i, j \in DOMAIN v : v[i] # v[j]
    BY <1>0, <2>2
  <2>4. 3 \in 0..Levels7 - 1
    BY DEF Levels7
  <2> QED
    BY <1>10, <1>12, <2>1, <2>3, <2>4 DEF DrawnOf
<1>14. CASE range # 0
  <2>1. \A i \in 1..n : level[i] = Height(v[i], least, range)
    BY <1>11, <1>14
  <2>2. range \in Nat \ {0} /\ most = least + range
    BY <1>6, <1>7, <1>14
  <2>3. ASSUME NEW i \in 1..n
        PROVE  level[i] \in 0..6
    <3>1. PICK a : a = v[i]
      OBVIOUS
    <3>2. i \in 1..Len(v)
      BY <1>12
    <3>3. a \in Int /\ least <= a /\ a <= most
      BY <1>0, <1>3, <1>4, <3>1, <3>2
    <3>4. a <= least + range /\ least \in Int
      BY <1>6, <2>2, <3>3
    <3>5. Height(a, least, range) \in 0..6
      BY <2>2, <3>3, <3>4, HeightWithin
    <3>6. level[i] = Height(a, least, range)
      BY <2>1, <3>1
    <3> QED
      BY <3>5, <3>6
  <2>4. ASSUME NEW i \in 1..n, NEW j \in 1..n, v[i] <= v[j]
        PROVE  level[i] <= level[j]
    <3>1. PICK a, b : a = v[i] /\ b = v[j]
      OBVIOUS
    <3>2. i \in 1..Len(v) /\ j \in 1..Len(v)
      BY <1>12
    <3>3. a \in Int /\ b \in Int /\ least <= a /\ a <= b /\ b <= most
      BY <1>0, <1>3, <1>4, <2>4, <3>1, <3>2
    <3>4. b <= least + range /\ least \in Int
      BY <1>6, <2>2, <3>3
    <3>5. Height(a, least, range) <= Height(b, least, range)
      BY <2>2, <3>3, <3>4, HeightIs
    <3> QED
      BY <2>1, <3>1, <3>5
  <2>5. ASSUME Len(v) <= MaxBars
        PROVE  {0, 6} \subseteq ToSet(level)
    <3>1. n = Len(v)
      BY <1>8, <2>5
    <3>2. least \in Int /\ most \in Int /\ least <= least /\ most <= least + range
      BY <1>6, <1>7, <2>2
    <3>5. Height(least, least, range) = 0 /\ Height(most, least, range) = 6
      BY <2>2, <3>2, HeightEnds
    <3>3. Height(v[lo], least, range) = 0 /\ Height(v[hi], least, range) = 6
      BY <1>5, <3>5
    <3>4. level[lo] = 0 /\ level[hi] = 6 /\ lo \in DOMAIN level /\ hi \in DOMAIN level
      BY <1>12, <2>1, <3>1, <3>3
    <3> QED
      BY <3>4 DEF ToSet
  <2> QED
    BY <1>10, <1>12, <2>3, <2>4, <2>5 DEF DrawnOf, Levels7
<1> QED
  BY <1>13, <1>14

RecorderTypes ==
  /\ snapshots \in Seq(Snapshots) /\ recorded \in Seq(Snapshots)
  /\ throughput_history \in Seq(Nat) /\ rendered \in Seq(Nat)

Recollects ==
  /\ snapshots = Latest(recorded, MaxSnapshots)
  /\ throughput_history = Latest(rendered, RenderHistory)

\* What was drawn is a drawing of what is shown beside it.
Drawn == DrawnOf(bars.level, bars.of)

RecorderInv == RecorderTypes /\ Recollects /\ Drawn

LEMMA RecorderStart ==
  RecorderInit => RecorderInv
<1> SUFFICES ASSUME RecorderInit
             PROVE  RecorderInv
  OBVIOUS
<1>1. RecorderTypes
  BY DEF RecorderInit, RecorderTypes
<1>2. Recollects
  BY LatestNone, RecorderAssumption DEF RecorderInit, Recollects
<1>3. bars.level = <<>> /\ bars.of = <<>>
  BY DEF RecorderInit, NoBars
<1>4. DOMAIN <<>> = {}
  OBVIOUS
<1>5. DrawnOf(<<>>, <<>>)
  BY <1>4 DEF DrawnOf
<1> QED
  BY <1>1, <1>2, <1>3, <1>5 DEF RecorderInv, Drawn

LEMMA RecorderStep ==
  ASSUME RecorderInv, [RecorderNext]_recorderVars
  PROVE  RecorderInv'
<1> USE DEF RecorderInv
<1>1. ASSUME NEW x \in Snapshots, Record(x)
      PROVE  RecorderInv'
  <2>1. recorded' = Append(recorded, x) /\ snapshots' = Kept(snapshots, x)
        /\ throughput_history' = throughput_history /\ rendered' = rendered /\ bars' = bars
        /\ MaxSnapshots > 0
    BY <1>1 DEF Record
  <2>2. PICK r \in Seq(Snapshots) : r = recorded
    BY DEF RecorderTypes
  <2>3. recorded' \in Seq(Snapshots)
    BY <2>1, <2>2, AppendedIs
  <2>4. snapshots' = Latest(recorded', MaxSnapshots)
    BY <2>1, <2>2, KeptIsLatest DEF Recollects
  <2>5. snapshots' \in Seq(Snapshots)
    BY <2>3, <2>4, LatestIs, RecorderAssumption
  <2>6. RecorderTypes'
    BY <2>1, <2>3, <2>5 DEF RecorderTypes
  <2>7. Recollects'
    BY <2>1, <2>4 DEF Recollects
  <2> QED
    BY <2>1, <2>6, <2>7 DEF Drawn
<1>2. ASSUME NEW x \in Snapshots, RenderOnce(x)
      PROVE  RecorderInv'
  <2> DEFINE history == Shortened(Append(throughput_history, x.throughput))
             again == Shortened(Append(history, x.throughput))
  <2>1. throughput_history' = history /\ rendered' = Append(rendered, x.throughput)
        /\ snapshots' = snapshots /\ recorded' = recorded
    BY <1>2 DEF RenderOnce
  <2>2. bars' = [level |-> IF again = <<>> THEN <<>> ELSE Sparkline(again), of |-> again]
    BY <1>2 DEF RenderOnce
  <2>3. PICK v \in Nat : v = x.throughput
    BY SnapshotsAssumption
  <2>4. PICK r \in Seq(Nat) : r = rendered
    BY DEF RecorderTypes
  <2>5. Append(r, v) \in Seq(Nat)
    BY AppendedIs
  <2>6. history = Latest(Append(r, v), RenderHistory)
    BY <2>3, <2>4, ShortenedIsLatest DEF Recollects
  <2>7. again = Latest(Append(Append(r, v), v), RenderHistory)
    BY <2>3, <2>5, <2>6, ShortenedIsLatest
  <2>0. ASSUME NEW s \in Seq(Nat) PROVE Latest(s, RenderHistory) \in Seq(Nat)
    BY LatestIs, RecorderAssumption
  <2>8. history \in Seq(Nat)
    BY <2>0, <2>5, <2>6
  <2>9. again \in Seq(Nat)
    <3>1. Append(Append(r, v), v) \in Seq(Nat)
      BY <2>5, AppendedIs
    <3> QED
      BY <2>0, <2>7, <3>1
  <2>10. RecorderTypes'
    BY <2>1, <2>3, <2>4, <2>5, <2>8 DEF RecorderTypes
  <2>11. Recollects'
    BY <2>1, <2>3, <2>4, <2>6 DEF Recollects
  <2>12. Drawn'
    <3> HIDE DEF again
    <3>1. bars'.level = (IF again = <<>> THEN <<>> ELSE Sparkline(again)) /\ bars'.of = again
      BY <2>2
    <3>2. CASE again = <<>>
      <4>1. DOMAIN <<>> = {}
        OBVIOUS
      <4>2. DrawnOf(<<>>, <<>>)
        BY <4>1 DEF DrawnOf
      <4> QED
        BY <3>1, <3>2, <4>2 DEF Drawn
    <3>3. CASE again # <<>>
      <4>1. DrawnOf(Sparkline(again), again)
        BY <2>9, <3>3, SparklineIsTrue
      <4>2. bars'.level = Sparkline(again)
        BY <3>1, <3>3
      <4> QED
        BY <3>1, <4>1, <4>2 DEF Drawn
    <3> QED
      BY <3>2, <3>3
  <2> QED
    BY <2>10, <2>11, <2>12
<1>3. ASSUME ClearRecords
      PROVE  RecorderInv'
  <2>1. snapshots' = <<>> /\ recorded' = <<>> /\ throughput_history' = throughput_history
        /\ rendered' = rendered /\ bars' = bars
    BY <1>3 DEF ClearRecords
  <2>2. RecorderTypes'
    BY <2>1 DEF RecorderTypes
  <2>3. Recollects'
    BY <2>1, LatestNone, RecorderAssumption DEF Recollects
  <2> QED
    BY <2>1, <2>2, <2>3 DEF Drawn
<1>4. ASSUME UNCHANGED recorderVars
      PROVE  RecorderInv'
  BY <1>4 DEF recorderVars, RecorderTypes, Recollects, Drawn
<1> QED
  BY <1>1, <1>2, <1>3, <1>4 DEF RecorderNext

LEMMA RecorderSound ==
  RecorderInv => SummaryIsSound /\ DrawingIsTrue
<1> SUFFICES ASSUME RecorderInv
             PROVE  SummaryIsSound /\ DrawingIsTrue
  OBVIOUS
<1>1. SummaryIsSound
  <2>1. PICK s \in Seq(Snapshots) : s = snapshots
    BY DEF RecorderInv, RecorderTypes
  <2>2. snapshots = Latest(recorded, MaxSnapshots)
    BY DEF RecorderInv, Recollects
  <2>3. DOMAIN s = 1..Len(s)
    OBVIOUS
  <2>4. ASSUME s # <<>>
        PROVE  /\ Summary(s).count = Len(s)
               /\ {Summary(s).least, Summary(s).largest} \subseteq ToSet(Each(s, "throughput"))
               /\ Summary(s).p99 \in ToSet(Each(s, "p99"))
               /\ Summary(s).least * Summary(s).count <= Summary(s).throughput
               /\ Summary(s).throughput <= Summary(s).largest * Summary(s).count
    BY <2>4, SummaryLies
  <2>5. ASSUME s # <<>>, \A x \in ToSet(s) : x.input = 0 => x.output = 0
        PROVE  \E i, j \in DOMAIN s : /\ NoMore(DropRate(s[i]), DropRate(Summary(s)))
                                      /\ NoMore(DropRate(Summary(s)), DropRate(s[j]))
    BY <2>3, <2>5, MeanRateBetween
  <2> QED
    BY <2>1, <2>2, <2>4, <2>5 DEF SummaryIsSound
<1>2. \A x, y \in Snapshots :
        (AllOk(Check(x)) /\ y.throughput >= x.throughput /\ y.p99 <= x.p99 /\ y.jitter <= x.jitter)
          => AllOk(Check(y))
  <2>1. ASSUME NEW x \in Snapshots, NEW y \in Snapshots, AllOk(Check(x)),
               y.throughput >= x.throughput, y.p99 <= x.p99, y.jitter <= x.jitter
        PROVE  AllOk(Check(y))
    <3>1. \A z \in Snapshots : z.throughput \in Nat /\ z.p99 \in Nat /\ z.jitter \in Nat
      BY SnapshotsAssumption
    <3>2. Targets.throughput \in Int /\ Targets.p99 \in Int /\ Targets.jitter \in Int
      BY SnapshotsAssumption
    <3>3. x.throughput >= Targets.throughput /\ x.p99 <= Targets.p99 /\ x.jitter <= Targets.jitter
      BY <2>1 DEF AllOk, Check
    <3>4. y.throughput >= Targets.throughput /\ y.p99 <= Targets.p99 /\ y.jitter <= Targets.jitter
      BY <2>1, <3>1, <3>2, <3>3
    <3> QED
      BY <3>4 DEF AllOk, Check
  <2> QED
    BY <2>1
<1> QED
  BY <1>1, <1>2 DEF RecorderInv, Recollects, Drawn, DrawnOf, DrawingIsTrue

---------------------------------------------------------------------------
(* The shared objects together: each behaviour exercises one of them       *)

TogetherInv == /\ Of("objects", PoolInv) /\ Of("buffers", BuffersInv) /\ Of("shared", SharedInv)
               /\ Of("stats", StatsInv) /\ Of("counters", CountersInv)
               /\ Of("reports", ReportInv) /\ Of("recorder", RecorderInv)

LEMMA StepsOf ==
  ASSUME [Next]_allVars
  PROVE  /\ component' = component
         /\ component = "objects" => [PoolNext]_poolVars
         /\ component = "buffers" => [BuffersNext]_bufferVars
         /\ component = "shared" => [SharedNext]_sharedVars
         /\ component = "stats" => [StatsNext]_statVars
         /\ component = "counters" => [CountersNext]_counterVars
         /\ component = "reports" => [ReportNext]_reportVars
         /\ component = "recorder" => [RecorderNext]_recorderVars
<1>1. CASE Next
  BY <1>1 DEF Next
<1>2. CASE UNCHANGED allVars
  BY <1>2 DEF allVars, memoryVars, countVars, reportingVars
<1> QED
  BY <1>1, <1>2

LEMMA TogetherInvariance == Spec => []TogetherInv
<1>1. Init => TogetherInv
  BY PoolInvInit, BuffersInvInit, SharedInvInit, ValuesAssumption, StatsInvInit, CountersInvInit,
     ReportInvInit, RecorderStart
  DEF Init, TogetherInv, Of
<1>2. TogetherInv /\ [Next]_allVars => TogetherInv'
  <2> SUFFICES ASSUME TogetherInv, [Next]_allVars PROVE TogetherInv'
    OBVIOUS
  <2>1. Of("objects", PoolInv)' /\ Of("buffers", BuffersInv)' /\ Of("shared", SharedInv)'
    BY StepsOf, PoolKeeps, BuffersKeep, SharedKeeps DEF TogetherInv, Of
  <2>2. Of("stats", StatsInv)' /\ Of("counters", CountersInv)'
    BY StepsOf, StatsKeep, CountersKeep DEF TogetherInv, Of
  <2>3. Of("reports", ReportInv)' /\ Of("recorder", RecorderInv)'
    BY StepsOf, ReportsKeep, RecorderStep DEF TogetherInv, Of
  <2> QED
    BY <2>1, <2>2, <2>3 DEF TogetherInv
<1> QED
  BY <1>1, <1>2, PTL DEF Spec

\* The types of what threads share: pools within their capacities, counters that never
\* wrap, and a mean and a sum of squares that no torn load takes below zero.
THEOREM TypesCorrect == Spec => []TypeOK
<1>1. TogetherInv => TypeOK
  BY PoolTyped, BuffersTyped DEF TogetherInv, Of, TypeOK, StatsInv, StatsTypes
<1> QED
  BY <1>1, TogetherInvariance, PTL

\* Whatever threads do with the pools and with shared data: what one is handed is
\* clean, has the room that was asked for, and does not change under it.
THEOREM HandedOut == Spec => []HandedOutIsFit
<1>1. TogetherInv => HandedOutIsFit
  BY HandedClean, IdleBounded, ServedFull, OwnData DEF TogetherInv, Of, HandedOutIsFit
<1> QED
  BY <1>1, TogetherInvariance, PTL

\* Once their threads are quiet, counters balance and the statistics are those of the
\* samples recorded since the last reset, each percentile within its bucket; a snapshot
\* of moving counters is off by what moved (counters.rs, latency.rs, jitter.rs).
THEOREM CountsAgreed == Spec => []CountsAgree
<1>1. TogetherInv => CountsAgree
  BY StatsSettled, CountersBalance, SnapshotsClose DEF TogetherInv, Of, CountsAgree
<1> QED
  BY <1>1, TogetherInvariance, PTL

\* What is reported of a pipeline: the reporter's view is off by no more than what moved,
\* a dropped dashboard has ended, and the recorder's summary and sparkline are true to
\* the snapshots it keeps (dashboard.rs, export.rs).
THEOREM ReportingSound == Spec => []ReportingIsSound
<1>1. TogetherInv => ReportingIsSound
  BY ReportsClose, GoneOnceDropped, RecorderSound DEF TogetherInv, Of, ReportingIsSound
<1> QED
  BY <1>1, TogetherInvariance, PTL

=============================================================================
