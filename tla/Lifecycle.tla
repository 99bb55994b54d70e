----------------------------- MODULE Lifecycle -----------------------------
(***************************************************************************)
(* The lifecycle of a memory (core/enums.py, lifecycle/state.py): four     *)
(* states and the table of the transitions that update_state accepts.      *)
(***************************************************************************)

MemoryTypes == {"working", "episodic", "semantic"}

States == {"active", "archived", "expired", "superseded"}

\* ALLOWED_TRANSITIONS: the targets a memory in each state may move to.
AllowedTransitions ==
  [active     |-> {"archived", "expired", "superseded"},
   archived   |-> {"expired"},
   expired    |-> {},
   superseded |-> {}]

\* transition() returns normally exactly when this holds, and raises
\* InvalidStateTransitionError otherwise.
CanTransition(current, target) == target \in AllowedTransitions[current]

Terminal == {s \in States : AllowedTransitions[s] = {}}
=============================================================================
