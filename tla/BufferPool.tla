----------------------------- MODULE BufferPool -----------------------------
(***************************************************************************)
(* A pool of byte buffers in size classes: BufferSize, BufferPool and      *)
(* PooledBuffer of src/src/zero_copy/buffer_pool.rs.                       *)
(*                                                                         *)
(* Of a Vec<u8> the model keeps its capacity and its length.  A slot of    *)
(* `held` is a PooledBuffer some thread owns: acquiring one is an access   *)
(* to the queue and then to a counter, and the owner may do with the Vec   *)
(* what DerefMut lets it do.  Vec grows as the standard library's does.    *)
(***************************************************************************)
EXTENDS Integers, Sequences

CONSTANTS
  PoolSize,      \* the argument of new
  PreparedBufs,  \* the argument of prefill, the same for its three classes
  Slots,         \* PooledBuffers that may exist at a time
  Requests,      \* the sizes asked for
  Writes,        \* the lengths written in one call
  MaxLen,        \* bound: the length of a buffer
  MaxAcquires    \* bound: calls of acquire and acquire_sized

\* extra_large is ArrayQueue::new(pool_size / 4), which panics for less than 4.
ASSUME PoolSizeAssumption == PoolSize \in Nat /\ PoolSize >= 4
ASSUME BufferBoundsAssumption ==
  /\ PreparedBufs \in Nat /\ MaxLen \in Nat /\ MaxAcquires \in Nat
  /\ Requests \subseteq Nat /\ Writes \subseteq Nat

VARIABLES
  pools,               \* per class: the capacities of the idle buffers
  allocated, reused,
  bpc,                 \* per slot: where its thread is in acquire
  held,                \* per slot: its buffer
  asked,               \* history, per slot: the size asked for
  replaced             \* history: an owner put a smaller Vec into its PooledBuffer

bufferVars == <<pools, allocated, reused, bpc, held, asked, replaced>>

Small == 1
ExtraLarge == 4
Classes == Small..ExtraLarge
Bytes == <<256, 4 * 1024, 64 * 1024, 1024 * 1024>>

\* Mutant: a class serves requests of up to twice its size.
ForSizeTwice(size) == CHOOSE c \in Classes : /\ size <= 2 * Bytes[c] \/ c = ExtraLarge
                                             /\ \A d \in 1..(c - 1) : size > 2 * Bytes[d]

ForSize(size) == CHOOSE c \in Classes : /\ size <= Bytes[c] \/ c = ExtraLarge
                                        /\ \A d \in 1..(c - 1) : size > Bytes[d]

QueueCap(c) == IF c = ExtraLarge THEN PoolSize \div 4 ELSE PoolSize
NoBuffer == [class |-> Small, cap |-> 0, len |-> 0]
Grown(cap, need) == IF need <= cap THEN cap
                    ELSE IF 2 * cap > need THEN 2 * cap
                    ELSE IF need > 8 THEN need ELSE 8

\* new and prefill.
BuffersInit ==
  LET n == IF PreparedBufs < PoolSize THEN PreparedBufs ELSE PoolSize
  IN  /\ pools = [c \in Classes |-> IF c = ExtraLarge THEN <<>> ELSE [i \in 1..n |-> Bytes[c]]]
      /\ allocated = 0 /\ reused = 0
      /\ bpc = [s \in Slots |-> "none"]
      /\ held = [s \in Slots |-> NoBuffer]
      /\ asked = [s \in Slots |-> 0]
      /\ replaced = FALSE

Calls == allocated + reused

---------------------------------------------------------------------------
(* acquire, acquire_sized                                                  *)

BufferFound(s, size) ==
  LET c == ForSize(size)
  IN  /\ bpc[s] = "none" /\ Calls < MaxAcquires
      /\ pools[c] # <<>>
      /\ bpc' = [bpc EXCEPT ![s] = "found"]
      /\ held' = [held EXCEPT ![s] = [class |-> c, cap |-> Head(pools[c]), len |-> 0]]
      /\ pools' = [pools EXCEPT ![c] = Tail(@)]
      /\ asked' = [asked EXCEPT ![s] = size]
      /\ UNCHANGED <<allocated, reused, replaced>>

BufferMissing(s, size) ==
  LET c == ForSize(size)
  IN  /\ bpc[s] = "none" /\ Calls < MaxAcquires
      /\ pools[c] = <<>>
      /\ bpc' = [bpc EXCEPT ![s] = "missing"]
      /\ held' = [held EXCEPT ![s] = [class |-> c, cap |-> Bytes[c], len |-> 0]]
      /\ asked' = [asked EXCEPT ![s] = size]
      /\ UNCHANGED <<pools, allocated, reused, replaced>>

CountReused(s) ==
  /\ bpc[s] = "found"
  /\ bpc' = [bpc EXCEPT ![s] = "held"]
  /\ reused' = reused + 1
  /\ UNCHANGED <<pools, allocated, held, asked, replaced>>

CountAllocated(s) ==
  /\ bpc[s] = "missing"
  /\ bpc' = [bpc EXCEPT ![s] = "held"]
  /\ allocated' = allocated + 1
  /\ UNCHANGED <<pools, reused, held, asked, replaced>>

---------------------------------------------------------------------------
(* A PooledBuffer: Write and DerefMut, take, Drop with return_buffer       *)

\* Write, acquire_with_data: extend_from_slice.
WriteBytes(s, n) ==
  /\ bpc[s] = "held" /\ held[s].len + n <= MaxLen
  /\ held' = [held EXCEPT ![s].len = @ + n, ![s].cap = Grown(@, held[s].len + n)]
  /\ UNCHANGED <<pools, allocated, reused, bpc, asked, replaced>>

\* mem::take of the Vec behind DerefMut leaves one without capacity.
TakeVec(s) ==
  /\ bpc[s] = "held" /\ held[s].cap > 0
  /\ held' = [held EXCEPT ![s].len = 0, ![s].cap = 0]
  /\ replaced' = TRUE
  /\ UNCHANGED <<pools, allocated, reused, bpc, asked>>

\* Mutant: oversized buffers are kept.
ReturnedAll(b) == IF Len(pools[b.class]) = QueueCap(b.class)
                  THEN pools
                  ELSE [pools EXCEPT ![b.class] = Append(@, b.cap)]

\* Mutant: the length of the queue is not looked at.
ReturnedAlways(b) == IF b.cap > 2 * Bytes[b.class]
                     THEN pools
                     ELSE [pools EXCEPT ![b.class] = Append(@, b.cap)]

\* Where the buffer goes: a buffer that grew too large or finds the queue full
\* is dropped, any other goes back for its class.
Returned(b) == IF b.cap > 2 * Bytes[b.class] \/ Len(pools[b.class]) = QueueCap(b.class)
               THEN pools
               ELSE [pools EXCEPT ![b.class] = Append(@, b.cap)]

Gone(s) ==
  /\ bpc[s] = "held"
  /\ bpc' = [bpc EXCEPT ![s] = "none"]
  /\ held' = [held EXCEPT ![s] = NoBuffer]
  /\ asked' = [asked EXCEPT ![s] = 0]

DropBuffer(s) ==
  /\ Gone(s)
  /\ pools' = Returned(held[s])
  /\ UNCHANGED <<allocated, reused, replaced>>

TakeBuffer(s) ==
  /\ Gone(s)
  /\ UNCHANGED <<pools, allocated, reused, replaced>>

---------------------------------------------------------------------------
BuffersNext ==
  \E s \in Slots :
    \/ \E size \in Requests : BufferFound(s, size) \/ BufferMissing(s, size)
    \/ CountReused(s) \/ CountAllocated(s)
    \/ \E n \in Writes : WriteBytes(s, n)
    \/ TakeVec(s) \/ DropBuffer(s) \/ TakeBuffer(s)

BuffersSpec == BuffersInit /\ [][BuffersNext]_bufferVars

---------------------------------------------------------------------------
(* Properties                                                              *)

\* The types of the variables, and no queue beyond its own capacity.
BuffersTypeOK ==
  /\ pools \in [Classes -> Seq(Nat)]
  /\ \A c \in Classes : Len(pools[c]) <= QueueCap(c)
  /\ allocated \in Nat /\ reused \in Nat
  /\ bpc \in [Slots -> {"none", "found", "missing", "held"}]
  /\ held \in [Slots -> [class : Classes, cap : Nat, len : Nat]]
  /\ asked \in [Slots -> Nat]
  /\ replaced \in BOOLEAN

\* buffer_pool.rs:168 "Don't return oversized buffers to smaller pools": however
\* buffers grew and whichever thread returned them, what lies idle in a class is
\* at most twice its size, and no shorter than its size unless an owner put
\* another Vec into its PooledBuffer.
IdleCapacityBounded ==
  \A c \in Classes : \A i \in DOMAIN pools[c] :
    /\ pools[c][i] <= 2 * Bytes[c]
    /\ pools[c][i] >= Bytes[c] \/ replaced

\* buffer_pool.rs:85 "Acquires a buffer of at least the specified size": true of
\* new and of reused buffers, for sizes up to the largest class, and as long as no
\* owner has put a shorter Vec into a PooledBuffer (which acquire does not notice).
ServedInFull ==
  \A s \in Slots : \/ bpc[s] = "none" \/ replaced
                   \/ held[s].cap >= asked[s]
                   \/ asked[s] > Bytes[ExtraLarge]
=============================================================================
