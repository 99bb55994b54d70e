-------------------------- MODULE MCMemoryManager --------------------------
(* Small instances of MemoryManager: two memories and two callers. *)
EXTENDS MemoryManager

CONSTANTS m1, m2, t1, t2

MCIds == {m1, m2}
MCTasks == {t1, t2}
MCGivenDeadlines == {Never, 1}
MCNoExpiry == {"archived", "superseded"}
=============================================================================
