----------------------------- MODULE SharedData -----------------------------
(***************************************************************************)
(* Data shared by reference counting, copied when it is written: SharedData*)
(* of src/src/zero_copy/shared_data.rs, over the standard library's Arc.   *)
(*                                                                         *)
(* A handle is a SharedData<T> that some thread owns; it points to a cell, *)
(* an Arc's allocation with the value in it.  The operations of Arc take   *)
(* effect in one step.  is_unique only looks: its answer is used later.    *)
(***************************************************************************)
EXTENDS Integers, FiniteSets

CONSTANTS
  DataHandles,   \* SharedData values that may exist at a time
  Values         \* what the data may be: 0..Values

ASSUME DataHandlesAssumption == IsFiniteSet(DataHandles)
ASSUME ValuesAssumption == Values \in Nat

VARIABLES
  cell,          \* per handle: the cell it points to, 0 for a handle that does not exist
  value,         \* per cell: its value
  own,           \* history, per handle: the value its owner has reason to see
  unique         \* per handle: is_unique answered true and the owner has not cloned since

sharedVars == <<cell, value, own, unique>>

Cells == 1..Cardinality(DataHandles)
Exists(h) == cell[h] # 0
RefCount(c) == Cardinality({h \in DataHandles : cell[h] = c})
FreeCell == CHOOSE c \in Cells : RefCount(c) = 0
Put(h, c) == cell' = [cell EXCEPT ![h] = c]

SharedInit ==
  /\ cell = [h \in DataHandles |-> 0]
  /\ value = [c \in Cells |-> 0]
  /\ own = [h \in DataHandles |-> 0]
  /\ unique = [h \in DataHandles |-> FALSE]

---------------------------------------------------------------------------
New(h) ==
  /\ ~Exists(h)
  /\ Put(h, FreeCell)
  /\ value' = [value EXCEPT ![FreeCell] = 0]
  /\ own' = [own EXCEPT ![h] = 0]
  /\ UNCHANGED unique

Clone(h, g) ==
  /\ Exists(h) /\ ~Exists(g)
  /\ Put(g, cell[h])
  /\ own' = [own EXCEPT ![g] = own[h]]
  /\ unique' = [unique EXCEPT ![h] = FALSE]
  /\ UNCHANGED value

DropData(h) ==
  /\ Exists(h)
  /\ Put(h, 0)
  /\ own' = [own EXCEPT ![h] = 0]
  /\ unique' = [unique EXCEPT ![h] = FALSE]
  /\ UNCHANGED value

IsUnique(h) ==
  /\ Exists(h) /\ RefCount(cell[h]) = 1
  /\ unique' = [unique EXCEPT ![h] = TRUE]
  /\ UNCHANGED <<cell, value, own>>

\* get_mut: only the one reference may write (otherwise it answers None).
GetMut(h, v) ==
  /\ Exists(h) /\ RefCount(cell[h]) = 1
  /\ value' = [value EXCEPT ![cell[h]] = v]
  /\ own' = [own EXCEPT ![h] = v]
  /\ UNCHANGED <<cell, unique>>

\* Mutant: written in place, whoever else looks.
MakeMutInPlace(h, v) ==
  /\ Exists(h)
  /\ value' = [value EXCEPT ![cell[h]] = v]
  /\ own' = [own EXCEPT ![h] = v]
  /\ UNCHANGED <<cell, unique>>

\* make_mut: a shared value is cloned into a cell of its own and written there;
\* map does the same with the value it computes.
MakeMut(h, v) ==
  /\ Exists(h)
  /\ LET c == IF RefCount(cell[h]) = 1 THEN cell[h] ELSE FreeCell
     IN  Put(h, c) /\ value' = [value EXCEPT ![c] = v]
  /\ own' = [own EXCEPT ![h] = v]
  /\ UNCHANGED unique

\* try_unwrap moves the value out of the last reference; otherwise it gives the
\* handle back as it was.
TryUnwrap(h) ==
  /\ Exists(h) /\ RefCount(cell[h]) = 1
  /\ Put(h, 0)
  /\ own' = [own EXCEPT ![h] = 0]
  /\ unique' = [unique EXCEPT ![h] = FALSE]
  /\ UNCHANGED value

SharedNext ==
  \E h \in DataHandles :
    \/ New(h) \/ DropData(h) \/ IsUnique(h) \/ TryUnwrap(h)
    \/ \E g \in DataHandles : Clone(h, g)
    \/ \E v \in 0..Values : GetMut(h, v) \/ MakeMut(h, v)

SharedSpec == SharedInit /\ [][SharedNext]_sharedVars

---------------------------------------------------------------------------
(* Properties                                                              *)

\* Copy on write (shared_data.rs:82): nobody's data changes under it. A handle
\* sees the value it was made with, or the one it wrote itself, whatever the owners
\* of the other handles write; and an answer of is_unique stays true until the
\* owner itself clones, so that it may be acted on later.
DataIsOwn ==
  \A h \in DataHandles : Exists(h) =>
    /\ value[cell[h]] = own[h]
    /\ unique[h] => RefCount(cell[h]) = 1
=============================================================================
