--------------------------- MODULE MemoryContract ---------------------------
(***************************************************************************)
(* What one memory manager promises about the rows of its store, whatever  *)
(* the store is: a memory is created once, its access count grows by one   *)
(* per access, its state only moves along the lifecycle table, its         *)
(* deadline never changes, and a deleted memory never comes back.          *)
(* Each operation is one step on one row.                                  *)
(***************************************************************************)
EXTENDS Naturals, Lifecycle

CONSTANTS Ids,      \* the identifiers uuid4 can draw
          NoRow,    \* the value of a row that is not in the store
          Never     \* the deadline of a memory without a time to live

VARIABLES rows,     \* the store: id -> row
          used      \* the ids ever inserted
vars == <<rows, used>>

Row == [state : States, deadline : Nat \cup {Never}, touches : Nat]

Present(id) == rows[id] # NoRow

Init == /\ rows = [id \in Ids |-> NoRow]
        /\ used = {}

Create(id) ==
  /\ id \notin used
  /\ rows'[id] \in {r \in Row : r.state = "active" /\ r.touches = 0}
  /\ rows' = [rows EXCEPT ![id] = rows'[id]]
  /\ used' = used \cup {id}

Touch(id) ==
  /\ Present(id)
  /\ rows' = [rows EXCEPT ![id].touches = @ + 1]
  /\ UNCHANGED used

Move(id, target) ==
  /\ Present(id)
  /\ CanTransition(rows[id].state, target)
  /\ rows' = [rows EXCEPT ![id].state = target]
  /\ UNCHANGED used

Remove(id) ==
  /\ Present(id)
  /\ rows' = [rows EXCEPT ![id] = NoRow]
  /\ UNCHANGED used

Next == \E id \in Ids :
          \/ Create(id)
          \/ Touch(id)
          \/ \E target \in States : Move(id, target)
          \/ Remove(id)

Spec == Init /\ [][Next]_vars
=============================================================================
