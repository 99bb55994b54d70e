-------------------------- MODULE MCMemoryService --------------------------
(* Small instances of MemoryService: two or three tasks, one session unless *)
(* said otherwise.                                                          *)
EXTENDS MemoryService, TLC

CONSTANTS m1, m2, m3, m4, t1, t2, s1, s2

MCThreeIds == {m1, m2, m3}
MCFourIds == {m1, m2, m3, m4}
MCTasks == {t1, t2}
MCOneSession == {s1}
MCTwoSessions == {s1, s2}
MCSymmetry == Permutations(Ids) \cup Permutations(Tasks)

\* The default of ContextRequest.memory_types.
MCDefaultOrder == <<"working", "episodic", "semantic">>

MCCalls(list) ==
  [op \in Operations |-> Cardinality({i \in DOMAIN list : list[i] = op})]

\* The races worth an instance: a recall and an archival with two more calls
\* or a crash; two archivals with two more callers or a crash.
MCRaces ==
  {MCCalls(<<"ingest", "infer", "archive", op, other>>) :
     op, other \in {"ingest", "get", "delete", "update", "sweep", "crash"}}
  \cup {MCCalls(<<"ingest", "archive", "archive", "ingest", op>>) :
          op \in {"get", "delete", "update", "sweep", "crash"}}

MCInTurn ==
  {MCCalls(<<"ingest", "ingest", "infer", "archive", "archive", "update">>),
   MCCalls(<<"ingest", "ingest", "infer", "archive", "delete", "sweep">>),
   MCCalls(<<"ingest", "ingest", "archive", "get", "get", "update">>)}

MCRetire == {MCCalls(<<"ingest", "infer", "update">>)}

MCUserMemory == {MCCalls(<<"ingest", "archive">>)}
=============================================================================
