----------------------------- MODULE ObjectPool -----------------------------
(***************************************************************************)
(* A pool of reusable objects shared by threads: ObjectPool and PoolGuard  *)
(* of src/src/zero_copy/object_pool.rs.                                    *)
(*                                                                         *)
(* The queue of idle objects is crossbeam's ArrayQueue: a pop or a push    *)
(* takes effect in one step.  The two counters are atomics of their own,   *)
(* and one action is one access to the queue or to a counter.  An object   *)
(* is its number in the order of creation; of its content the model keeps  *)
(* whether it was used since it was created or reset.  A guard may be      *)
(* dropped or taken by any thread: PoolGuard is Send.                      *)
(***************************************************************************)
EXTENDS Integers, Sequences, FiniteSets

CONSTANTS
  Threads,      \* threads that share the pool
  PoolCap,      \* the capacity given to new
  Prefilled,    \* the count given to prefill
  HasReset,     \* whether with_reset built the pool
  MaxObjects    \* bound: objects the factory makes

ASSUME PoolCapAssumption == PoolCap \in Nat \ {0}
ASSUME PrefilledAssumption == Prefilled \in Nat
ASSUME HasResetAssumption == HasReset \in BOOLEAN
ASSUME MaxObjectsAssumption == MaxObjects \in Nat
ASSUME ThreadsAssumption == IsFiniteSet(Threads)

VARIABLES
  queue,            \* the idle objects, oldest first
  acquired_count, total_created,
  ppc,              \* per thread: where it is in acquire, try_acquire or return_object
  obj,              \* per thread: the object it holds there
  guards,           \* the objects in a PoolGuard
  kept,             \* the objects that left their guard by take
  freed,            \* the objects a full pool dropped
  used,             \* the objects used since they were created or reset
  made              \* the objects the factory has made

poolCounters == <<acquired_count, total_created>>
places == <<queue, guards, kept, freed>>
poolVars == <<queue, poolCounters, ppc, obj, guards, kept, freed, used, made>>

NoObject == 0
PoolGoto(t, from, to) == ppc[t] = from /\ ppc' = [ppc EXCEPT ![t] = to]
Idle == {queue[i] : i \in DOMAIN queue}

\* with_reset and prefill, before the pool is shared.
PoolInit ==
  LET n == IF Prefilled < PoolCap THEN Prefilled ELSE PoolCap
  IN  /\ queue = [i \in 1..n |-> i]
      /\ acquired_count = 0
      /\ total_created = n
      /\ ppc = [t \in Threads |-> "idle"]
      /\ obj = [t \in Threads |-> NoObject]
      /\ guards = {} /\ kept = {} /\ freed = {} /\ used = {}
      /\ made = n

---------------------------------------------------------------------------
(* acquire: count, pop, or else create                                     *)

AcquireCount(t) ==
  /\ made < MaxObjects
  /\ PoolGoto(t, "idle", "pop")
  /\ acquired_count' = acquired_count + 1
  /\ UNCHANGED <<places, total_created, obj, used, made>>

AcquirePop(t) ==
  /\ queue # <<>>
  /\ PoolGoto(t, "pop", "idle")
  /\ guards' = guards \union {Head(queue)}
  /\ queue' = Tail(queue)
  /\ UNCHANGED <<kept, freed, poolCounters, obj, used, made>>

AcquireEmpty(t) ==
  /\ queue = <<>>
  /\ PoolGoto(t, "pop", "create")
  /\ total_created' = total_created + 1
  /\ UNCHANGED <<places, acquired_count, obj, used, made>>

AcquireCreate(t) ==
  /\ PoolGoto(t, "create", "idle")
  /\ made' = made + 1
  /\ guards' = guards \union {made + 1}
  /\ UNCHANGED <<queue, kept, freed, poolCounters, obj, used>>

---------------------------------------------------------------------------
(* try_acquire: pop, then count                                            *)

TryPop(t) ==
  /\ queue # <<>>
  /\ PoolGoto(t, "idle", "tryCount")
  /\ obj' = [obj EXCEPT ![t] = Head(queue)]
  /\ queue' = Tail(queue)
  /\ UNCHANGED <<guards, kept, freed, poolCounters, used, made>>

\* Mutant: the guard is handed out, and may be dropped, before it is counted.
TryCountForgotten(t) ==
  /\ PoolGoto(t, "tryCount", "idle")
  /\ guards' = guards \union {obj[t]}
  /\ obj' = [obj EXCEPT ![t] = NoObject]
  /\ UNCHANGED <<queue, kept, freed, poolCounters, used, made>>

TryCount(t) ==
  /\ PoolGoto(t, "tryCount", "idle")
  /\ acquired_count' = acquired_count + 1
  /\ guards' = guards \union {obj[t]}
  /\ obj' = [obj EXCEPT ![t] = NoObject]
  /\ UNCHANGED <<queue, kept, freed, total_created, used, made>>

---------------------------------------------------------------------------
(* A guard: DerefMut, take, and Drop with return_object                    *)

Use(o) ==
  /\ o \in guards \ used
  /\ used' = used \union {o}
  /\ UNCHANGED <<places, poolCounters, ppc, obj, made>>

\* Mutant: the guard's own drop returns the object as well.
TakeAndReturn(o) ==
  /\ o \in guards
  /\ kept' = kept \union {o}
  /\ UNCHANGED <<queue, guards, freed, poolCounters, ppc, obj, used, made>>

Take(o) ==
  /\ o \in guards
  /\ guards' = guards \ {o}
  /\ kept' = kept \union {o}
  /\ UNCHANGED <<queue, freed, poolCounters, ppc, obj, used, made>>

ReturnCount(t, o) ==
  /\ o \in guards
  /\ PoolGoto(t, "idle", "reset")
  /\ obj' = [obj EXCEPT ![t] = o]
  /\ guards' = guards \ {o}
  /\ acquired_count' = acquired_count - 1
  /\ UNCHANGED <<queue, kept, freed, total_created, used, made>>

\* Mutant: the object goes back before it is reset.
ReturnResetLate(t) ==
  /\ PoolGoto(t, "reset", "push")
  /\ UNCHANGED <<places, poolCounters, obj, used, made>>

ReturnReset(t) ==
  /\ PoolGoto(t, "reset", "push")
  /\ used' = IF HasReset THEN used \ {obj[t]} ELSE used
  /\ UNCHANGED <<places, poolCounters, obj, made>>

\* A full queue refuses the object, and it is dropped.
ReturnPush(t) ==
  /\ PoolGoto(t, "push", "idle")
  /\ IF Len(queue) < PoolCap
     THEN queue' = Append(queue, obj[t]) /\ freed' = freed
     ELSE queue' = queue /\ freed' = freed \union {obj[t]}
  /\ obj' = [obj EXCEPT ![t] = NoObject]
  /\ UNCHANGED <<guards, kept, poolCounters, used, made>>

---------------------------------------------------------------------------
PoolStep(t) == \/ AcquireCount(t) \/ AcquirePop(t) \/ AcquireEmpty(t) \/ AcquireCreate(t)
               \/ TryPop(t) \/ TryCount(t)
               \/ \E o \in guards : ReturnCount(t, o)
               \/ ReturnReset(t) \/ ReturnPush(t)

PoolNext == \/ \E t \in Threads : PoolStep(t)
            \/ \E o \in guards : Use(o) \/ Take(o)

PoolSpec == PoolInit /\ [][PoolNext]_poolVars

---------------------------------------------------------------------------
(* Properties                                                              *)

\* The types of the variables; acquired_count is an unsigned word that must
\* not wrap, and the queue never holds more than its capacity.
PoolTypeOK ==
  /\ queue \in Seq(1..made) /\ Len(queue) <= PoolCap
  /\ acquired_count \in Nat /\ total_created \in Nat /\ made \in Nat
  /\ ppc \in [Threads -> {"idle", "pop", "create", "tryCount", "reset", "push"}]
  /\ obj \in [Threads -> 0..made]
  /\ guards \subseteq 1..made /\ kept \subseteq 1..made
  /\ freed \subseteq 1..made /\ used \subseteq 1..made

At(steps) == {t \in Threads : ppc[t] \in steps}
InHand == {obj[t] : t \in At({"tryCount", "reset", "push"})}

\* Every object the factory made is in exactly one place, whatever the
\* interleaving of acquires and returns: no guard shares its object with the
\* queue or with another guard, and none is lost but by a full pool.
ObjectsAccounted ==
  /\ 1..made = Idle \union guards \union kept \union freed \union InHand
  /\ Cardinality(Idle) = Len(queue)
  /\ Cardinality(InHand) = Cardinality(At({"tryCount", "reset", "push"}))
  /\ made = Len(queue) + Cardinality(guards) + Cardinality(kept) + Cardinality(freed)
              + Cardinality(InHand)
  /\ total_created = made + Cardinality(At({"create"}))

\* acquired() is exact but for the calls under way: it counts the guards, the
\* acquires that have not found their object yet, and (object_pool.rs:200) every
\* object that was taken out of its guard for good.  In particular fetch_sub
\* never wraps around.
InUseCounted ==
  acquired_count = Cardinality(guards) + Cardinality(kept) + Cardinality(At({"pop", "create"}))

\* The bookkeeping of the pool (object_pool.rs:43-57): the objects and the number of
\* those in use, at every moment of any calls.
PoolIsAccounted == ObjectsAccounted /\ InUseCounted

\* object_pool.rs:82 "allowing them to be reused in a clean state": no thread is
\* ever handed an object that carries the data of its last user.
PooledIsClean ==
  HasReset => used \intersect Idle = {} /\ \A t \in At({"tryCount"}) : obj[t] \notin used
=============================================================================
