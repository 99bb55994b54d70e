------------------------- MODULE MemoryServiceProofs -------------------------
(***************************************************************************)
(* Theorems about MemoryService for every set of ids, sessions and tasks,  *)
(* every wiring of the stores and every budget: the type invariant, that   *)
(* an ARCHIVED memory has its episodic copy, and that what an ARCHIVAL     *)
(* signal reports stays true.                                              *)
(***************************************************************************)
EXTENDS MemoryService, TLAPS

USE DEF MemoryTypes, States

\* The lifecycle table has two states without outgoing transitions.
LEMMA TerminalStates == Terminal = {"expired", "superseded"}
  BY DEF Terminal, AllowedTransitions

-----------------------------------------------------------------------------
(* Frames: what a step does to the local variables of a call.               *)

\* A task between calls has well-typed local variables.
LEMMA IdleType == Idle \in Frames
  BY DEF Idle, Frames, PCs

\* Moving a call to another step keeps its local variables well-typed.
LEMMA PcType ==
  ASSUME NEW f \in Frames, NEW pc \in PCs
  PROVE  [f EXCEPT !.pc = pc] \in Frames
  BY DEF Frames

\* So does taking up another item.
LEMMA ItemType ==
  ASSUME NEW f \in Frames, NEW pc \in PCs, NEW i \in Ids \cup {None}
  PROVE  [f EXCEPT !.pc = pc, !.item = i] \in Frames
  BY DEF Frames

\* The same without the types, for the invariants about single frames.
LEMMA GotoOnly ==
  ASSUME frame \in [Tasks -> Frames], NEW t \in Tasks, NEW f, Goto(t, f)
  PROVE  frame'[t] = f /\ \A u \in Tasks \ {t} : frame'[u] = frame[u]
  BY DEF Goto

\* A step of task t gives it the locals f and leaves the other tasks alone.
LEMMA GotoFrames ==
  ASSUME frame \in [Tasks -> Frames], NEW t \in Tasks, NEW f \in Frames, Goto(t, f)
  PROVE  /\ frame' \in [Tasks -> Frames]
         /\ frame'[t] = f
         /\ \A u \in Tasks \ {t} : frame'[u] = frame[u]
  BY DEF Goto

\* A call that ends leaves all local variables well-typed.
LEMMA ReturnFrames ==
  ASSUME frame \in [Tasks -> Frames], NEW t \in Tasks, Return(t)
  PROVE  /\ frame' \in [Tasks -> Frames]
         /\ frame'[t] = Idle
         /\ \A u \in Tasks \ {t} : frame'[u] = frame[u]
  BY IdleType, GotoFrames DEF Return

\* A get() holds a copy of one stored row, as the row is.
LEMMA GetReads ==
  ASSUME TypeOK, NEW t \in Tasks, Get(t)
  PROVE  \E m \in Copies : /\ Goto(t, [Idle EXCEPT !.pc = "get", !.pack = {m}])
                           /\ m.state = state[m.id] /\ born[m.id] # Unborn
<1>1. PICK id \in Ids :
        /\ Present(id)
        /\ Goto(t, [Idle EXCEPT !.pc = "get",
                              !.pack = {[id |-> id, state |-> state[id]]}])
  BY DEF Get
<1>2. PICK m : m = [id |-> id, state |-> state[id]]
  OBVIOUS
<1>3. m \in Copies /\ m.id = id /\ m.state = state[id]
  BY <1>1, <1>2 DEF TypeOK, Present, Copies
<1>4. born[id] # Unborn
  BY <1>1 DEF TypeOK, Present
<1> QED
  BY <1>1, <1>2, <1>3, <1>4

\* Both accesses write back a copy of a stored memory, and write nothing else.
LEMMA WritesBack ==
  ASSUME TypeOK, LocalsOK, NEW t \in Tasks, AccessWrite(t) \/ GetWrite(t)
  PROVE  \E m \in frame[t].pack :
           /\ m \in Copies /\ m.id \in Ids /\ m.state \in States
           /\ born[m.id] # Unborn
           /\ state' = [state EXCEPT ![m.id] = m.state]
           /\ rewritten' = rewritten \cup {id \in {m.id} : state[id] # m.state}
           /\ UNCHANGED <<born, signals, budget, retired>>
<1>1. frame[t] \in Frames /\ LocalOK(frame[t])
  BY DEF TypeOK, LocalsOK
<1>2. PICK m \in frame[t].pack :
        WriteBack(m) /\ UNCHANGED <<born, signals, budget, retired>>
  BY DEF AccessWrite, GetWrite, At
<1>3. m \in Copies /\ m.id \in Ids /\ m.state \in States /\ born[m.id] # Unborn
  BY <1>1 DEF Frames, Copies, LocalOK
<1> QED
  BY <1>2, <1>3 DEF WriteBack

\* Every step keeps the local variables of all calls well-typed.
LEMMA FramesNext == TypeOK /\ LocalsOK /\ [Next]_vars => frame' \in [Tasks -> Frames]
<1> SUFFICES ASSUME TypeOK, LocalsOK, [Next]_vars
             PROVE  frame' \in [Tasks -> Frames]
  OBVIOUS
<1> DEFINE Goal == frame' \in [Tasks -> Frames]
<1>0. frame \in [Tasks -> Frames] /\ \A t \in Tasks : frame[t] \in Frames
  BY DEF TypeOK
<1>1. ASSUME NEW t \in Tasks, Ingest(t) PROVE Goal
  <2>1. PICK id \in Ids : Goto(t, [Idle EXCEPT !.pc = "created", !.item = id])
    BY <1>1 DEF Ingest, Fresh
  <2>2. [Idle EXCEPT !.pc = "created", !.item = id] \in Frames
    BY IdleType, ItemType DEF PCs
  <2> QED BY <1>0, <2>1, <2>2, GotoFrames
<1>2. ASSUME NEW t \in Tasks, BeforeInference(t) PROVE Goal
  <2> DEFINE atStart(s) == {id \in Ids : /\ IsA(id, "working")
                                          /\ state[id] = "active"
                                          /\ born[id].session = s}
             f(s) == [Idle EXCEPT !.pc = "recall", !.session = s,
                                  !.left = RecallOrder, !.atStart = atStart(s)]
  <2>1. PICK s \in Sessions : Goto(t, f(s))
    BY <1>2 DEF BeforeInference
  <2>2. atStart(s) \in SUBSET Ids
    OBVIOUS
  <2>3. f(s) \in Frames
    <3> HIDE DEF atStart
    <3> QED BY <2>2, IdleType, OrderAssumption DEF Frames, PCs
  <2> HIDE DEF f
  <2> QED BY <1>0, <2>1, <2>3, GotoFrames
<1>3. ASSUME NEW t \in Tasks, ArchiveSession(t) PROVE Goal
  <2>1. PICK W \in SUBSET Ids : Goto(t, [Idle EXCEPT !.pc = "archive", !.work = W])
    BY <1>3 DEF ArchiveSession, Archivable
  <2>2. [Idle EXCEPT !.pc = "archive", !.work = W] \in Frames
    BY IdleType DEF Frames, PCs
  <2> QED BY <1>0, <2>1, <2>2, GotoFrames
<1>4. ASSUME NEW t \in Tasks, UpdateState(t) PROVE Goal
  <2>1. PICK id \in Ids, target \in Terminal :
          Goto(t, [Idle EXCEPT !.pc = "update", !.item = id, !.goal = target])
    BY <1>4, TargetsAssumption DEF UpdateState
  <2>2. [Idle EXCEPT !.pc = "update", !.item = id, !.goal = target] \in Frames
    BY IdleType, TerminalStates DEF Frames, PCs
  <2> QED BY <1>0, <2>1, <2>2, GotoFrames
<1>5. ASSUME NEW t \in Tasks, Delete(t) PROVE Goal
  BY <1>0, <1>5 DEF Delete
<1>6. ASSUME NEW t \in Tasks, ExpireStale(t) PROVE Goal
  <2>1. PICK due \in SUBSET Ids : Goto(t, [Idle EXCEPT !.pc = "sweep", !.work = due])
    BY <1>6 DEF ExpireStale, Sweepable
  <2>2. [Idle EXCEPT !.pc = "sweep", !.work = due] \in Frames
    BY IdleType DEF Frames, PCs
  <2> QED BY <1>0, <2>1, <2>2, GotoFrames
<1>7. ASSUME NEW t \in Tasks, Created(t) PROVE Goal
  BY <1>0, <1>7, ReturnFrames DEF Created
<1>8. ASSUME NEW t \in Tasks, Recall(t) PROVE Goal
  <2> DEFINE f == frame[t]
             found == {id \in Ids : Recallable(Head(f.left), id, f.session)}
             copies == {[id |-> id, state |-> state[id]] : id \in found}
             g == [f EXCEPT !.left = Tail(@), !.pack = @ \cup copies]
  <2>1. Tail(f.left) \in Seq(MemoryTypes) /\ Head(f.left) \in MemoryTypes
    BY <1>0, <1>8 DEF Recall, Frames
  <2>2. \A id \in found : state[id] \in States
    <3> HIDE DEF f
    <3> QED BY <2>1 DEF Recallable
  <2>3. copies \subseteq Copies
    BY <2>2 DEF Copies
  <2>4. g \in Frames
    <3> HIDE DEF copies
    <3> QED BY <1>0, <2>1, <2>3 DEF Frames
  <2>5. Goto(t, g)
    BY <1>8 DEF Recall
  <2> HIDE DEF g
  <2> QED BY <1>0, <2>4, <2>5, GotoFrames
<1>9. ASSUME NEW t \in Tasks, Select(t) PROVE Goal
  <2>1. PICK P \in SUBSET frame[t].pack :
          IF P = {} THEN Return(t)
          ELSE Goto(t, [frame[t] EXCEPT !.pc = "access", !.pack = P])
    BY <1>9 DEF Select, Packs
  <2>2. [frame[t] EXCEPT !.pc = "access", !.pack = P] \in Frames
    BY <1>0 DEF Frames, PCs
  <2> QED BY <1>0, <2>1, <2>2, GotoFrames, ReturnFrames
<1>10. ASSUME NEW t \in Tasks, AccessWrite(t) PROVE Goal
  <2>1. PICK m \in frame[t].pack :
          Goto(t, [frame[t] EXCEPT !.pc = "accessed", !.item = m.id, !.pack = @ \ {m}])
    BY <1>10 DEF AccessWrite
  <2>2. m.id \in Ids
    BY <1>0 DEF Frames, Copies
  <2>3. [frame[t] EXCEPT !.pc = "accessed", !.item = m.id, !.pack = @ \ {m}] \in Frames
    BY <1>0, <2>2 DEF Frames, PCs
  <2> QED BY <1>0, <2>1, <2>3, GotoFrames
<1>11. ASSUME NEW t \in Tasks, Accessed(t) PROVE Goal
  <2>1. [frame[t] EXCEPT !.pc = "access"] \in Frames
    BY <1>0, PcType DEF PCs
  <2> QED BY <1>0, <1>11, <2>1, GotoFrames, ReturnFrames DEF Accessed
<1>12. ASSUME NEW t \in Tasks, CopyWrite(t) PROVE Goal
  <2>1. PICK i \in frame[t].work, c \in Ids :
          Goto(t, [frame[t] EXCEPT !.pc = "mark_read", !.item = i, !.copy = c])
    BY <1>12 DEF CopyWrite, Fresh
  <2>2. [frame[t] EXCEPT !.pc = "mark_read", !.item = i, !.copy = c] \in Frames
    BY <1>0 DEF Frames, PCs
  <2> QED BY <1>0, <2>1, <2>2, GotoFrames
<1>13. ASSUME NEW t \in Tasks, MarkRead(t) PROVE Goal
  <2>1. [frame[t] EXCEPT !.pc = "mark_write"] \in Frames
    BY <1>0, PcType DEF PCs
  <2> QED BY <1>0, <1>13, <2>1, GotoFrames, ReturnFrames DEF MarkRead
<1>14. ASSUME NEW t \in Tasks, MarkWrite(t) PROVE Goal
  <2>1. [frame[t] EXCEPT !.pc = "marked"] \in Frames
    BY <1>0, PcType DEF PCs
  <2> QED BY <1>0, <1>14, <2>1, GotoFrames DEF MarkWrite
<1>15. ASSUME NEW t \in Tasks, Marked(t) PROVE Goal
  <2> DEFINE g == [frame[t] EXCEPT !.pc = "archive", !.work = @ \ {frame[t].item},
                                   !.item = None, !.copy = None]
  <2>1. g \in Frames
    BY <1>0 DEF Frames, PCs
  <2>2. Goto(t, g)
    BY <1>15 DEF Marked
  <2> HIDE DEF g
  <2> QED BY <1>0, <2>1, <2>2, GotoFrames
<1>16. ASSUME NEW t \in Tasks, ArchiveReturn(t) PROVE Goal
  BY <1>0, <1>16, ReturnFrames DEF ArchiveReturn
<1>17. ASSUME NEW t \in Tasks, UpdateWrite(t) PROVE Goal
  BY <1>0, <1>17, ReturnFrames DEF UpdateWrite
<1>18. ASSUME NEW t \in Tasks, ExpireOne(t) PROVE Goal
  <2>1. \A i : [frame[t] EXCEPT !.work = @ \ {i}] \in Frames
    BY <1>0 DEF Frames
  <2> QED BY <1>0, <1>18, <2>1, GotoFrames, ReturnFrames DEF ExpireOne
<1>19. CASE Crash
  BY <1>19, IdleType DEF Crash
<1>20. CASE UNCHANGED vars
  BY <1>0, <1>20 DEF vars
<1>21. ASSUME NEW t \in Tasks, Get(t) PROVE Goal
  <2>1. PICK m \in Copies : Goto(t, [Idle EXCEPT !.pc = "get", !.pack = {m}])
    BY <1>21, GetReads
  <2>2. [Idle EXCEPT !.pc = "get", !.pack = {m}] \in Frames
    BY IdleType DEF Frames, PCs
  <2> QED BY <1>0, <2>1, <2>2, GotoFrames
<1>22. ASSUME NEW t \in Tasks, GetWrite(t) PROVE Goal
  BY <1>0, <1>22, ReturnFrames DEF GetWrite
<1> QED
  BY <1>1, <1>2, <1>3, <1>4, <1>5, <1>6, <1>7, <1>8, <1>9, <1>10, <1>11, <1>12,
     <1>13, <1>14, <1>15, <1>16, <1>17, <1>18, <1>19, <1>20, <1>21, <1>22
     DEF Next, Start, Proceed

-----------------------------------------------------------------------------
(* The rest of the type invariant.                                          *)

DataOK ==
  /\ born \in [Ids -> Descriptor \cup {Unborn}]
  /\ state \in [Ids -> States \cup {"absent"}]
  /\ signals \subseteq Signal
  /\ budget \in [Operations -> Nat]
  /\ retired \subseteq Ids
  /\ rewritten \subseteq Ids
  /\ \A id \in Ids : born[id] = Unborn => state[id] = "absent"

\* Spending one call of an operation keeps the budget natural.
LEMMA BudgetSpent ==
  ASSUME budget \in [Operations -> Nat], NEW op \in Operations, budget[op] > 0,
         budget' = [budget EXCEPT ![op] = @ - 1]
  PROVE  budget' \in [Operations -> Nat]
  BY DEF Operations

\* So does beginning a call.
LEMMA BudgetBegun ==
  ASSUME budget \in [Operations -> Nat], NEW t \in Tasks, NEW op \in Operations,
         Begin(t, op)
  PROVE  budget' \in [Operations -> Nat]
  BY BudgetSpent DEF Begin

\* Every step keeps the rows, the signals and the histories well-typed.
LEMMA DataNext == TypeOK /\ LocalsOK /\ [Next]_vars => DataOK'
<1> SUFFICES ASSUME TypeOK, LocalsOK, [Next]_vars PROVE DataOK'
  OBVIOUS
<1>0. DataOK /\ \A t \in Tasks : frame[t] \in Frames /\ LocalOK(frame[t])
  BY DEF TypeOK, DataOK, LocalsOK
<1> USE <1>0 DEF DataOK
<1>1. ASSUME NEW t \in Tasks, Ingest(t) PROVE DataOK'
  BY <1>1, BudgetBegun, IdsAssumption DEF Operations, TypeOf, Ingest, Fresh, Descriptor
<1>2. ASSUME NEW t \in Tasks, BeforeInference(t) PROVE DataOK'
  BY <1>2, BudgetBegun DEF Operations, BeforeInference
<1>3. ASSUME NEW t \in Tasks, ArchiveSession(t) PROVE DataOK'
  BY <1>3, BudgetBegun DEF Operations, ArchiveSession
<1>4. ASSUME NEW t \in Tasks, UpdateState(t) PROVE DataOK'
  BY <1>4, BudgetBegun DEF Operations, UpdateState
<1>5. ASSUME NEW t \in Tasks, Delete(t) PROVE DataOK'
  BY <1>5, BudgetBegun DEF Operations, Delete
<1>6. ASSUME NEW t \in Tasks, ExpireStale(t) PROVE DataOK'
  BY <1>6, BudgetBegun DEF Operations, ExpireStale
<1>7. ASSUME NEW t \in Tasks, Created(t) PROVE DataOK'
  BY <1>7 DEF Created, At, LocalOK, Emit, Signal, SignalTypes
<1>8. ASSUME NEW t \in Tasks, Recall(t) PROVE DataOK'
  BY <1>8 DEF Recall, At
<1>9. ASSUME NEW t \in Tasks, Select(t) PROVE DataOK'
  BY <1>9 DEF Select, At
<1>10. ASSUME NEW t \in Tasks, AccessWrite(t) \/ GetWrite(t) PROVE DataOK'
  <2>1. PICK m \in frame[t].pack :
           /\ m.id \in Ids /\ m.state \in States /\ born[m.id] # Unborn
           /\ state' = [state EXCEPT ![m.id] = m.state]
           /\ rewritten' = rewritten \cup {id \in {m.id} : state[id] # m.state}
           /\ UNCHANGED <<born, signals, budget, retired>>
    BY <1>10, WritesBack
  <2> QED BY <2>1
<1>11. ASSUME NEW t \in Tasks, Accessed(t) PROVE DataOK'
  BY <1>11 DEF Accessed, At, LocalOK, Emit, Signal, SignalTypes
<1>12. ASSUME NEW t \in Tasks, CopyWrite(t) PROVE DataOK'
  <2>1. PICK i \in frame[t].work, c \in Fresh :
          /\ born' = [born EXCEPT ![c] =
                        [born[i] EXCEPT !.type = "episodic", !.from = i]]
          /\ state' = [state EXCEPT ![c] = "active"]
    BY <1>12 DEF CopyWrite
  <2>2. i \in Ids /\ born[i] \in Descriptor
    BY DEF Frames, LocalOK
  <2>3. [born[i] EXCEPT !.type = "episodic", !.from = i] \in Descriptor
    BY <2>2 DEF Descriptor
  <2> QED
    BY <1>12, <2>1, <2>3, IdsAssumption DEF CopyWrite, At, Fresh
<1>13. ASSUME NEW t \in Tasks, MarkRead(t) PROVE DataOK'
  BY <1>13 DEF MarkRead, At
<1>14. ASSUME NEW t \in Tasks, MarkWrite(t) PROVE DataOK'
  BY <1>14 DEF MarkWrite, At, LocalOK
<1>15. ASSUME NEW t \in Tasks, Marked(t) PROVE DataOK'
  BY <1>15 DEF Marked, At, LocalOK, Emit, Signal, SignalTypes
<1>16. ASSUME NEW t \in Tasks, ArchiveReturn(t) PROVE DataOK'
  BY <1>16 DEF ArchiveReturn, At
<1>17. ASSUME NEW t \in Tasks, UpdateWrite(t) PROVE DataOK'
  BY <1>17, TerminalStates DEF UpdateWrite, At, LocalOK
<1>18. ASSUME NEW t \in Tasks, ExpireOne(t) PROVE DataOK'
  BY <1>18 DEF ExpireOne, At, Frames, LocalOK
<1>19. CASE Crash
  BY <1>19, BudgetSpent DEF Crash, Operations
<1>20. CASE UNCHANGED vars
  BY <1>20 DEF vars
<1>21. ASSUME NEW t \in Tasks, Get(t) PROVE DataOK'
  BY <1>21, BudgetBegun DEF Operations, Get
<1> QED
  BY <1>1, <1>2, <1>3, <1>4, <1>5, <1>6, <1>7, <1>8, <1>9, <1>10, <1>11, <1>12,
     <1>13, <1>14, <1>15, <1>16, <1>17, <1>18, <1>19, <1>20, <1>21
     DEF Next, Start, Proceed

\* The type invariant is preserved by every step.
LEMMA TypeNext == TypeOK /\ LocalsOK /\ [Next]_vars => TypeOK'
  BY FramesNext, DataNext DEF TypeOK, DataOK

-----------------------------------------------------------------------------
(* What no step takes back: a descriptor is never rewritten, and a row only *)
(* leaves the store by being retired.                                       *)

Kept ==
  /\ \A id \in Ids : born[id] # Unborn => born'[id] = born[id]
  /\ \A id \in Ids : Present(id) => Present(id)' \/ id \in retired'
  /\ retired \subseteq retired'

\* No step changes what a memory was born with, forgets a memory that was
\* retired, or lets a row vanish without retiring it.
LEMMA KeptNext == TypeOK /\ LocalsOK /\ [Next]_vars => Kept
<1> SUFFICES ASSUME TypeOK, LocalsOK, [Next]_vars PROVE Kept
  OBVIOUS
<1>0. DataOK /\ \A t \in Tasks : frame[t] \in Frames /\ LocalOK(frame[t])
  BY DEF TypeOK, DataOK, LocalsOK
<1> USE <1>0 DEF DataOK, Kept, Present
<1>1. ASSUME NEW t \in Tasks, Ingest(t) PROVE Kept
  BY <1>1 DEF Ingest, Fresh
<1>2. ASSUME NEW t \in Tasks, BeforeInference(t) PROVE Kept
  BY <1>2 DEF BeforeInference
<1>3. ASSUME NEW t \in Tasks, ArchiveSession(t) PROVE Kept
  BY <1>3 DEF ArchiveSession
<1>4. ASSUME NEW t \in Tasks, UpdateState(t) PROVE Kept
  BY <1>4 DEF UpdateState
<1>5. ASSUME NEW t \in Tasks, Delete(t) PROVE Kept
  BY <1>5 DEF Delete
<1>6. ASSUME NEW t \in Tasks, ExpireStale(t) PROVE Kept
  BY <1>6 DEF ExpireStale
<1>7. ASSUME NEW t \in Tasks, Created(t) PROVE Kept
  BY <1>7 DEF Created
<1>8. ASSUME NEW t \in Tasks, Recall(t) PROVE Kept
  BY <1>8 DEF Recall
<1>9. ASSUME NEW t \in Tasks, Select(t) PROVE Kept
  BY <1>9 DEF Select
<1>10. ASSUME NEW t \in Tasks, AccessWrite(t) \/ GetWrite(t) PROVE Kept
  <2>1. PICK m \in frame[t].pack :
           /\ m.id \in Ids /\ m.state \in States
           /\ state' = [state EXCEPT ![m.id] = m.state] /\ UNCHANGED <<born, retired>>
    BY <1>10, WritesBack
  <2> QED BY <2>1
<1>11. ASSUME NEW t \in Tasks, Accessed(t) PROVE Kept
  BY <1>11 DEF Accessed
<1>12. ASSUME NEW t \in Tasks, CopyWrite(t) PROVE Kept
  BY <1>12 DEF CopyWrite, Fresh
<1>13. ASSUME NEW t \in Tasks, MarkRead(t) PROVE Kept
  BY <1>13 DEF MarkRead
<1>14. ASSUME NEW t \in Tasks, MarkWrite(t) PROVE Kept
  BY <1>14 DEF MarkWrite, LocalOK
<1>15. ASSUME NEW t \in Tasks, Marked(t) PROVE Kept
  BY <1>15 DEF Marked
<1>16. ASSUME NEW t \in Tasks, ArchiveReturn(t) PROVE Kept
  BY <1>16 DEF ArchiveReturn
<1>17. ASSUME NEW t \in Tasks, UpdateWrite(t) PROVE Kept
  BY <1>17, TerminalStates DEF UpdateWrite, LocalOK
<1>18. ASSUME NEW t \in Tasks, ExpireOne(t) PROVE Kept
  BY <1>18 DEF ExpireOne
<1>19. CASE Crash
  BY <1>19 DEF Crash
<1>20. CASE UNCHANGED vars
  BY <1>20 DEF vars
<1>21. ASSUME NEW t \in Tasks, Get(t) PROVE Kept
  BY <1>21 DEF Get
<1> QED
  BY <1>1, <1>2, <1>3, <1>4, <1>5, <1>6, <1>7, <1>8, <1>9, <1>10, <1>11, <1>12,
     <1>13, <1>14, <1>15, <1>16, <1>17, <1>18, <1>19, <1>20, <1>21
     DEF Next, Start, Proceed

\* An episodic copy, once there, is there after the step.
LEMMA HasCopyKept ==
  ASSUME TypeOK, Kept, NEW id, HasCopy(id)
  PROVE  HasCopy(id)'
  BY DEF TypeOK, Kept, HasCopy, IsA

\* A call that takes no step keeps what it relies on.
LEMMA FrameKept ==
  ASSUME TypeOK, Kept, NEW u \in Tasks, LocalOK(frame[u]), CopyOK(frame[u]),
         frame'[u] = frame[u]
  PROVE  LocalOK(frame[u])' /\ CopyOK(frame[u])'
<1>1. frame[u] \in Frames
  BY DEF TypeOK
<1>2. LocalOK(frame[u])'
  BY <1>1 DEF LocalOK, Kept, Frames, Copies
<1>3. CopyOK(frame[u])'
  BY HasCopyKept DEF CopyOK
<1> QED
  BY <1>2, <1>3

-----------------------------------------------------------------------------
(* The invariants about the calls' frames.                                  *)

FramesOK == LocalsOK /\ CopiedFirst
FrameOK(t) == LocalOK(frame[t]) /\ CopyOK(frame[t])

\* It is enough to look at the task that takes the step.
LEMMA OneFrame ==
  ASSUME TypeOK, FramesOK, Kept, NEW t \in Tasks,
         \A u \in Tasks \ {t} : frame'[u] = frame[u],
         FrameOK(t)'
  PROVE  FramesOK'
<1>1. ASSUME NEW u \in Tasks PROVE FrameOK(u)'
  <2>1. CASE u = t
    BY <2>1
  <2>2. CASE u # t
    BY <1>1, <2>2, FrameKept DEF FramesOK, FrameOK, LocalsOK, CopiedFirst
  <2> QED
    BY <2>1, <2>2
<1> QED
  BY <1>1 DEF FramesOK, FrameOK, LocalsOK, CopiedFirst

\* A task between calls holds nothing that needs a copy.
LEMMA IdleFrame ==
  ASSUME NEW t \in Tasks, frame'[t] = Idle
  PROVE  FrameOK(t)'
  BY DEF FrameOK, LocalOK, CopyOK, Idle

\* A step that ends a call of task t keeps FramesOK.
LEMMA ReturnOK ==
  ASSUME TypeOK, FramesOK, Kept, NEW t \in Tasks, Return(t)
  PROVE  FramesOK'
  BY ReturnFrames, IdleFrame, OneFrame DEF TypeOK

\* Every step keeps what the calls hold stored and copied: one case per action.
LEMMA FramesOKNext == ArchiveInv /\ [Next]_vars => FramesOK'
<1> SUFFICES ASSUME ArchiveInv, [Next]_vars PROVE FramesOK'
  OBVIOUS
<1>0. /\ TypeOK /\ FramesOK /\ Kept /\ frame \in [Tasks -> Frames]
      /\ \A t \in Tasks : frame[t] \in Frames /\ FrameOK(t)
  BY KeptNext DEF ArchiveInv, FramesOK, FrameOK, LocalsOK, CopiedFirst, TypeOK
<1>a. frame \in [Tasks -> Frames] /\ \A t \in Tasks : frame[t] \in Frames
  BY DEF ArchiveInv, TypeOK
<1>1. ASSUME NEW t \in Tasks, Ingest(t) PROVE FramesOK'
  <2>1. PICK id \in Fresh :
          \E type \in {"working", "semantic"}, s \in Sessions :
            /\ born' = [born EXCEPT ![id] =
                 [type |-> type, session |-> s, from |-> None, content |-> id]]
            /\ Goto(t, [Idle EXCEPT !.pc = "created", !.item = id])
    BY <1>1 DEF Ingest, TypeOf
  <2>2. id \in Ids /\ born'[id] # Unborn
    BY <2>1, IdsAssumption DEF Fresh, Descriptor, TypeOK, ArchiveInv
  <2> DEFINE g == [Idle EXCEPT !.pc = "created", !.item = id]
  <2>3. Goto(t, g) /\ g.pc = "created" /\ g.item = id /\ g.work = {} /\ g.pack = {}
    BY <2>1 DEF Idle
  <2> HIDE DEF g
  <2>5. frame'[t] = g
    BY <1>a, <2>3, GotoOnly
  <2>4. FrameOK(t)'
    BY <2>2, <2>3, <2>5 DEF FrameOK, LocalOK, CopyOK
  <2> QED
    BY <1>0, <2>3, <2>4, GotoOnly, OneFrame
<1>2. ASSUME NEW t \in Tasks, BeforeInference(t) PROVE FramesOK'
  <2> DEFINE f(s) == [Idle EXCEPT !.pc = "recall", !.session = s,
                        !.left = RecallOrder,
                        !.atStart = {id \in Ids : /\ IsA(id, "working")
                                                 /\ state[id] = "active"
                                                 /\ born[id].session = s}]
  <2>1. PICK s \in Sessions : Goto(t, f(s))
    BY <1>2 DEF BeforeInference
  <2>2. f(s).pc = "recall" /\ f(s).work = {} /\ f(s).pack = {}
    BY DEF Idle
  <2> HIDE DEF f
  <2>3. FrameOK(t)'
    BY <1>0, <2>1, <2>2, GotoOnly DEF FrameOK, LocalOK, CopyOK
  <2> QED
    BY <1>0, <2>1, <2>3, GotoOnly, OneFrame
<1>3. ASSUME NEW t \in Tasks, ArchiveSession(t) PROVE FramesOK'
  <2>1. PICK W \in SUBSET {id \in Ids : Present(id)} :
          Goto(t, [Idle EXCEPT !.pc = "archive", !.work = W])
    BY <1>3 DEF ArchiveSession, Archivable, Present
  <2> DEFINE g == [Idle EXCEPT !.pc = "archive", !.work = W]
  <2>2. Goto(t, g) /\ g.pc = "archive" /\ g.work = W /\ g.pack = {}
    BY <2>1 DEF Idle
  <2> HIDE DEF g
  <2>5. frame'[t] = g
    BY <1>a, <2>2, GotoOnly
  <2>3. \A i \in W : born'[i] # Unborn
    BY <1>0, <1>3 DEF ArchiveSession, TypeOK, Present
  <2>4. FrameOK(t)'
    BY <2>2, <2>3, <2>5 DEF FrameOK, LocalOK, CopyOK
  <2> QED
    BY <1>0, <2>2, <2>4, GotoOnly, OneFrame
<1>4. ASSUME NEW t \in Tasks, UpdateState(t) PROVE FramesOK'
  <2>1. PICK id \in Ids, target \in Terminal :
          /\ Present(id)
          /\ Goto(t, [Idle EXCEPT !.pc = "update", !.item = id, !.goal = target])
    BY <1>4, TargetsAssumption DEF UpdateState
  <2> DEFINE g == [Idle EXCEPT !.pc = "update", !.item = id, !.goal = target]
  <2>2. /\ Goto(t, g) /\ g.pc = "update" /\ g.item = id /\ g.goal = target
        /\ g.work = {} /\ g.pack = {}
    BY <2>1 DEF Idle
  <2> HIDE DEF g
  <2>5. frame'[t] = g
    BY <1>a, <2>2, GotoOnly
  <2>3. born'[id] # Unborn
    BY <1>0, <1>4, <2>1 DEF UpdateState, TypeOK, Present
  <2>4. FrameOK(t)'
    BY <2>2, <2>3, <2>5 DEF FrameOK, LocalOK, CopyOK
  <2> QED
    BY <1>0, <2>2, <2>4, GotoOnly, OneFrame
<1>5. ASSUME NEW t \in Tasks, Delete(t) PROVE FramesOK'
  <2>1. frame' = frame
    BY <1>5 DEF Delete
  <2>2. FrameOK(t)'
    BY <1>0, <2>1, FrameKept DEF FrameOK, LocalOK, CopyOK
  <2> QED
    BY <1>0, <2>1, <2>2, OneFrame
<1>6. ASSUME NEW t \in Tasks, ExpireStale(t) PROVE FramesOK'
  <2>1. PICK due \in SUBSET {id \in Ids : state[id] = "active"} :
          Goto(t, [Idle EXCEPT !.pc = "sweep", !.work = due])
    BY <1>6 DEF ExpireStale, Sweepable
  <2> DEFINE g == [Idle EXCEPT !.pc = "sweep", !.work = due]
  <2>2. Goto(t, g) /\ g.pc = "sweep" /\ g.work = due /\ g.pack = {}
    BY <2>1 DEF Idle
  <2> HIDE DEF g
  <2>5. frame'[t] = g
    BY <1>a, <2>2, GotoOnly
  <2>3. \A i \in due : born'[i] # Unborn
    BY <1>0, <1>6 DEF ExpireStale, TypeOK
  <2>4. FrameOK(t)'
    BY <2>2, <2>3, <2>5 DEF FrameOK, LocalOK, CopyOK
  <2> QED
    BY <1>0, <2>2, <2>4, GotoOnly, OneFrame
<1>7. ASSUME NEW t \in Tasks, Created(t) PROVE FramesOK'
  BY <1>0, <1>7, ReturnOK DEF Created
<1>8. ASSUME NEW t \in Tasks, Recall(t) PROVE FramesOK'
  <2> DEFINE f == frame[t]
             found == {id \in Ids : Recallable(Head(f.left), id, f.session)}
             g == [f EXCEPT !.left = Tail(@),
                            !.pack = @ \cup {[id |-> id, state |-> state[id]] : id \in found}]
  <2>1. Goto(t, g)
    BY <1>8 DEF Recall
  <2>8. f \in Frames /\ f.pc = "recall"
    BY <1>a, <1>8 DEF Recall, At
  <2>9. /\ g.pc = "recall" /\ g.work = f.work
        /\ g.pack = f.pack \cup {[id |-> id, state |-> state[id]] : id \in found}
    <3> HIDE DEF f, found
    <3> QED BY <2>8 DEF Frames
  <2>10. \A id \in found : id \in Ids /\ IsA(id, Head(f.left))
    BY DEF Recallable
  <2>2. /\ g.pc = "recall" /\ g.work = f.work
        /\ \A m \in g.pack : m \in f.pack \/ \E id \in Ids :
                              IsA(id, Head(f.left)) /\ m.id = id /\ m.state = state[id]
    <3> HIDE DEF f, found, g
    <3> QED BY <2>9, <2>10
  <2> HIDE DEF g
  <2>3. frame'[t] = g
    BY <1>0, <2>1, GotoOnly
  <2>4. \A id : HasCopy(id) => HasCopy(id)'
    BY <1>0, HasCopyKept
  <2>5. LocalOK(frame[t])'
    BY <1>0, <1>8, <2>2, <2>3 DEF Recall, IsA, FrameOK, LocalOK, CopyOK
  <2>6. \A m \in g.pack : m.state = "archived" => HasCopy(m.id)
    BY <1>0, <2>2 DEF ArchiveInv, ArchivedHasCopy, FrameOK, CopyOK
  <2>7. CopyOK(frame[t])'
    BY <2>2, <2>3, <2>4, <2>6 DEF FrameOK, LocalOK, CopyOK
  <2> QED
    BY <1>0, <2>1, <2>5, <2>7, GotoOnly, OneFrame DEF FrameOK
<1>9. ASSUME NEW t \in Tasks, Select(t) PROVE FramesOK'
  <2>1. PICK P \in SUBSET frame[t].pack :
          IF P = {} THEN Return(t)
          ELSE Goto(t, [frame[t] EXCEPT !.pc = "access", !.pack = P])
    BY <1>9 DEF Select, Packs
  <2>2. CASE P = {}
    BY <1>0, <2>1, <2>2, ReturnOK
  <2>3. CASE P # {}
    <3>4. frame'[t] = [frame[t] EXCEPT !.pc = "access", !.pack = P]
      BY <1>a, <2>1, <2>3, GotoOnly
    <3>1. /\ frame'[t].pc = "access" /\ frame'[t].pack = P
          /\ frame'[t].work = frame[t].work
      BY <1>a, <3>4 DEF Frames
    <3>2. \A id : HasCopy(id) => HasCopy(id)'
      BY <1>0, HasCopyKept
    <3>3. FrameOK(t)'
      BY <1>0, <1>9, <3>1, <3>2 DEF Select, FrameOK, LocalOK, CopyOK
    <3> QED
      BY <1>0, <2>1, <2>3, <3>3, GotoOnly, OneFrame
  <2> QED
    BY <2>2, <2>3
<1>10. ASSUME NEW t \in Tasks, AccessWrite(t) PROVE FramesOK'
  <2>1. PICK m \in frame[t].pack :
          Goto(t, [frame[t] EXCEPT !.pc = "accessed", !.item = m.id, !.pack = @ \ {m}])
    BY <1>10 DEF AccessWrite
  <2>7. born' = born
    BY <1>10 DEF AccessWrite
  <2>6. frame'[t] = [frame[t] EXCEPT !.pc = "accessed", !.item = m.id, !.pack = @ \ {m}]
    BY <1>a, <2>1, GotoOnly
  <2>2. /\ frame'[t].pc = "accessed" /\ frame'[t].item = m.id
        /\ frame'[t].pack = frame[t].pack \ {m} /\ frame'[t].work = frame[t].work
    BY <1>a, <2>6 DEF Frames
  <2>3. \A id : HasCopy(id) => HasCopy(id)'
    BY <1>0, HasCopyKept
  <2>4. m.id \in Ids /\ born[m.id] # Unborn
    BY <1>0 DEF Frames, Copies, FrameOK, LocalOK
  <2>5. FrameOK(t)'
    BY <1>0, <2>2, <2>3, <2>4, <2>7 DEF FrameOK, LocalOK, CopyOK
  <2> QED
    BY <1>0, <2>1, <2>5, GotoOnly, OneFrame
<1>11. ASSUME NEW t \in Tasks, Accessed(t) PROVE FramesOK'
  <2>1. CASE frame[t].pack = {}
    BY <1>0, <1>11, <2>1, ReturnOK DEF Accessed
  <2>2. CASE frame[t].pack # {}
    <3>1. Goto(t, [frame[t] EXCEPT !.pc = "access"])
      BY <1>11, <2>2 DEF Accessed
    <3>2. /\ frame'[t].pc = "access" /\ frame'[t].pack = frame[t].pack
          /\ frame'[t].work = frame[t].work
      BY <1>0, <3>1, GotoOnly DEF Frames
    <3>3. \A id : HasCopy(id) => HasCopy(id)'
      BY <1>0, HasCopyKept
    <3>4. FrameOK(t)'
      BY <1>0, <1>11, <3>2, <3>3 DEF Accessed, FrameOK, LocalOK, CopyOK
    <3> QED
      BY <1>0, <3>1, <3>4, GotoOnly, OneFrame
  <2> QED
    BY <2>1, <2>2
<1>12. ASSUME NEW t \in Tasks, CopyWrite(t) PROVE FramesOK'
  <2>1. PICK i \in frame[t].work, c \in Fresh :
          /\ born' = [born EXCEPT ![c] =
                        [born[i] EXCEPT !.type = "episodic", !.from = i]]
          /\ state' = [state EXCEPT ![c] = "active"]
          /\ Goto(t, [frame[t] EXCEPT !.pc = "mark_read", !.item = i, !.copy = c])
    BY <1>12 DEF CopyWrite
  <2>2. i \in Ids /\ born[i] \in Descriptor /\ c \in Ids /\ born[i] # Unborn
    BY <1>0, IdsAssumption DEF Frames, TypeOK, Fresh, FrameOK, LocalOK
  <2>11. frame'[t] = [frame[t] EXCEPT !.pc = "mark_read", !.item = i, !.copy = c]
    BY <1>a, <2>1, GotoOnly
  <2>3. /\ frame'[t].pc = "mark_read" /\ frame'[t].item = i /\ frame'[t].copy = c
        /\ frame'[t].pack = frame[t].pack /\ frame'[t].work = frame[t].work
    BY <1>a, <2>11 DEF Frames
  <2>4. \A id : HasCopy(id) => HasCopy(id)'
    BY <1>0, HasCopyKept
  <2>5. born'[c] = [born[i] EXCEPT !.type = "episodic", !.from = i]
    BY <1>0, <2>1, <2>2 DEF TypeOK
  <2>12. [born[i] EXCEPT !.type = "episodic", !.from = i] \in Descriptor
    BY <2>2 DEF Descriptor
  <2>13. born'[c] # Unborn
    BY <2>5, <2>12, IdsAssumption
  <2>14. born'[c].type = "episodic" /\ born'[c].from = i
    BY <2>2, <2>5 DEF Descriptor
  <2>6. born'[c] # Unborn /\ born'[c].type = "episodic" /\ born'[c].from = i
    BY <2>13, <2>14
  <2>7. HasCopy(i)'
    BY <1>0, <2>1, <2>2, <2>6 DEF HasCopy, IsA, Present, TypeOK
  <2>8. \A id \in Ids : born[id] # Unborn => born'[id] # Unborn
    BY <1>0 DEF Kept
  <2>9. LocalOK(frame[t])'
    BY <1>0, <2>2, <2>3, <2>8 DEF Frames, Copies, FrameOK, LocalOK, CopyOK
  <2>10. CopyOK(frame[t])'
    BY <1>0, <2>3, <2>4, <2>7 DEF FrameOK, LocalOK, CopyOK
  <2> QED
    BY <1>0, <2>1, <2>9, <2>10, GotoOnly, OneFrame DEF FrameOK
<1>13. ASSUME NEW t \in Tasks, MarkRead(t) PROVE FramesOK'
  <2>1. CASE Return(t)
    BY <1>0, <2>1, ReturnOK
  <2>2. CASE Goto(t, [frame[t] EXCEPT !.pc = "mark_write"])
    <3>1. /\ frame'[t].pc = "mark_write" /\ frame'[t].pack = frame[t].pack
          /\ frame'[t].work = frame[t].work /\ frame'[t].item = frame[t].item
          /\ frame'[t].copy = frame[t].copy
      BY <1>a, <2>2, GotoOnly DEF Frames
    <3>2. \A id : HasCopy(id) => HasCopy(id)'
      BY <1>0, HasCopyKept
    <3>3. FrameOK(t)'
      BY <1>0, <1>13, <3>1, <3>2 DEF MarkRead, At, FrameOK, LocalOK, CopyOK
    <3> QED
      BY <1>0, <2>2, <3>3, GotoOnly, OneFrame
  <2> QED
    BY <1>13, <2>1, <2>2 DEF MarkRead
<1>14. ASSUME NEW t \in Tasks, MarkWrite(t) PROVE FramesOK'
  <2>1. Goto(t, [frame[t] EXCEPT !.pc = "marked"])
    BY <1>14 DEF MarkWrite
  <2>2. /\ frame'[t].pc = "marked" /\ frame'[t].pack = frame[t].pack
        /\ frame'[t].work = frame[t].work /\ frame'[t].item = frame[t].item
        /\ frame'[t].copy = frame[t].copy
    BY <1>a, <2>1, GotoOnly DEF Frames
  <2>3. \A id : HasCopy(id) => HasCopy(id)'
    BY <1>0, HasCopyKept
  <2>4. FrameOK(t)'
    BY <1>0, <1>14, <2>2, <2>3 DEF MarkWrite, At, FrameOK, LocalOK, CopyOK
  <2> QED
    BY <1>0, <2>1, <2>4, GotoOnly, OneFrame
<1>15. ASSUME NEW t \in Tasks, Marked(t) PROVE FramesOK'
  <2> DEFINE g == [frame[t] EXCEPT !.pc = "archive", !.work = @ \ {frame[t].item},
                                   !.item = None, !.copy = None]
  <2>1. Goto(t, g)
    BY <1>15 DEF Marked
  <2>2. /\ g.pc = "archive" /\ g.pack = frame[t].pack
        /\ g.work \subseteq frame[t].work
    BY <1>0 DEF Frames
  <2> HIDE DEF g
  <2>3. frame'[t] = g
    BY <1>0, <2>1, GotoOnly
  <2>4. \A id : HasCopy(id) => HasCopy(id)'
    BY <1>0, HasCopyKept
  <2>5. FrameOK(t)'
    BY <1>0, <1>15, <2>2, <2>3, <2>4 DEF Marked, FrameOK, LocalOK, CopyOK
  <2> QED
    BY <1>0, <2>1, <2>5, GotoOnly, OneFrame
<1>16. ASSUME NEW t \in Tasks, ArchiveReturn(t) PROVE FramesOK'
  BY <1>0, <1>16, ReturnOK DEF ArchiveReturn
<1>17. ASSUME NEW t \in Tasks, UpdateWrite(t) PROVE FramesOK'
  BY <1>0, <1>17, ReturnOK DEF UpdateWrite
<1>18. ASSUME NEW t \in Tasks, ExpireOne(t) PROVE FramesOK'
  <2>1. PICK i \in frame[t].work :
          IF frame[t].work = {i} THEN Return(t)
          ELSE Goto(t, [frame[t] EXCEPT !.work = @ \ {i}])
    BY <1>18 DEF ExpireOne
  <2>2. CASE Return(t)
    BY <1>0, <2>2, ReturnOK
  <2>3. CASE Goto(t, [frame[t] EXCEPT !.work = @ \ {i}])
    <3>1. /\ frame'[t].pc = frame[t].pc /\ frame'[t].pack = frame[t].pack
          /\ frame'[t].work \subseteq frame[t].work
      BY <1>a, <2>3, GotoOnly DEF Frames
    <3>2. \A id : HasCopy(id) => HasCopy(id)'
      BY <1>0, HasCopyKept
    <3>3. FrameOK(t)'
      BY <1>0, <1>18, <3>1, <3>2 DEF ExpireOne, At, FrameOK, LocalOK, CopyOK
    <3> QED
      BY <1>0, <2>3, <3>3, GotoOnly, OneFrame
  <2> QED
    BY <2>1, <2>2, <2>3
<1>19. CASE Crash
  BY <1>19, IdleFrame DEF Crash, FramesOK, LocalsOK, CopiedFirst, FrameOK
<1>20. CASE UNCHANGED vars
  BY <1>0, <1>20, FrameKept DEF vars, FramesOK, LocalsOK, CopiedFirst
<1>21. ASSUME NEW t \in Tasks, Get(t) PROVE FramesOK'
  <2>1. PICK m \in Copies : /\ Goto(t, [Idle EXCEPT !.pc = "get", !.pack = {m}])
                           /\ m.state = state[m.id] /\ born[m.id] # Unborn
    BY <1>0, <1>21, GetReads
  <2> DEFINE g == [Idle EXCEPT !.pc = "get", !.pack = {m}]
  <2>2. Goto(t, g) /\ g.pc = "get" /\ g.work = {} /\ g.pack = {m}
    BY <2>1 DEF Idle
  <2> HIDE DEF g
  <2>3. frame'[t] = g
    BY <1>a, <2>2, GotoOnly
  <2>4. born' = born /\ state' = state /\ m.id \in Ids
    BY <1>21 DEF Get, Copies
  <2>5. m.state = "archived" => HasCopy(m.id)'
    BY <1>0, <2>1, <2>4, HasCopyKept DEF ArchiveInv, ArchivedHasCopy
  <2>6. FrameOK(t)'
    BY <2>1, <2>2, <2>3, <2>4, <2>5 DEF FrameOK, LocalOK, CopyOK
  <2> QED
    BY <1>0, <2>2, <2>6, GotoOnly, OneFrame
<1>22. ASSUME NEW t \in Tasks, GetWrite(t) PROVE FramesOK'
  BY <1>0, <1>22, ReturnOK DEF GetWrite
<1> QED
  BY <1>1, <1>2, <1>3, <1>4, <1>5, <1>6, <1>7, <1>8, <1>9, <1>10, <1>11, <1>12,
     <1>13, <1>14, <1>15, <1>16, <1>17, <1>18, <1>19, <1>20, <1>21, <1>22
     DEF Next, Start, Proceed

-----------------------------------------------------------------------------
(* The step that writes ARCHIVED does so for a memory that has its copy.    *)

\* Every step keeps ArchivedHasCopy: ARCHIVED is only written by update_state
\* and by write-backs, whose copies CopiedFirst speaks of.
LEMMA ArchivedNext == ArchiveInv /\ [Next]_vars => ArchivedHasCopy'
<1> SUFFICES ASSUME ArchiveInv, [Next]_vars,
                    NEW id \in Ids, state'[id] = "archived"
             PROVE  HasCopy(id)'
  BY DEF ArchivedHasCopy
<1>0. /\ TypeOK /\ Kept /\ state \in [Ids -> States \cup {"absent"}]
      /\ \A t \in Tasks : frame[t] \in Frames /\ LocalOK(frame[t]) /\ CopyOK(frame[t])
  BY KeptNext DEF ArchiveInv, LocalsOK, CopiedFirst, TypeOK
<1>1. SUFFICES HasCopy(id)
  BY <1>0, HasCopyKept
<1>2. CASE state[id] = "archived"
  BY <1>2 DEF ArchiveInv, ArchivedHasCopy
<1>3. CASE state[id] # "archived"
  <2> USE <1>0, <1>3
  <2>1. ASSUME NEW t \in Tasks, AccessWrite(t) \/ GetWrite(t) PROVE HasCopy(id)
    <3>1. PICK m \in frame[t].pack :
             m.id \in Ids /\ state' = [state EXCEPT ![m.id] = m.state]
      BY <2>1, WritesBack DEF ArchiveInv
    <3> QED BY <3>1 DEF CopyOK
  <2>2. ASSUME NEW t \in Tasks, MarkWrite(t) PROVE HasCopy(id)
    BY <2>2 DEF MarkWrite, At, LocalOK, CopyOK
  <2>3. ASSUME NEW t \in Tasks, UpdateWrite(t) PROVE HasCopy(id)
    BY <2>3, TerminalStates DEF UpdateWrite, At, LocalOK
  <2>4. ASSUME NEW t \in Tasks,
               \/ Ingest(t) \/ CopyWrite(t) \/ Delete(t) \/ ExpireOne(t)
        PROVE  HasCopy(id)
    BY <2>4 DEF Ingest, CopyWrite, Delete, ExpireOne, Fresh
  <2>5. ASSUME state' = state PROVE HasCopy(id)
    BY <2>5
  <2> QED
    BY <2>1, <2>2, <2>3, <2>4, <2>5
       DEF Next, Start, Proceed, BeforeInference, ArchiveSession, Get, UpdateState,
           ExpireStale, Created, Recall, Select, Accessed, MarkRead, Marked,
           ArchiveReturn, Crash, vars
<1> QED
  BY <1>2, <1>3

-----------------------------------------------------------------------------
\* The invariant holds in the empty store.
LEMMA ArchiveInit == Init => ArchiveInv
<1> SUFFICES ASSUME Init PROVE ArchiveInv
  OBVIOUS
<1>1. TypeOK
  BY IdleType, BudgetAssumption DEF Init, TypeOK
<1>2. LocalsOK /\ CopiedFirst
  BY DEF Init, LocalsOK, CopiedFirst, LocalOK, CopyOK, Idle
<1>3. ArchivedHasCopy
  BY DEF Init, ArchivedHasCopy
<1> QED
  BY <1>1, <1>2, <1>3 DEF ArchiveInv

\* The inductive invariant holds in every reachable state.
THEOREM Invariance == Spec => []ArchiveInv
<1>1. ArchiveInv /\ [Next]_vars => ArchiveInv'
  BY TypeNext, FramesOKNext, ArchivedNext DEF ArchiveInv, FramesOK
<1> QED
  BY ArchiveInit, <1>1, PTL DEF Spec

\* Every variable of the service keeps its type, whatever the tasks interleave.
THEOREM TypeCorrect == Spec => []TypeOK
<1>1. ArchiveInv => TypeOK
  BY DEF ArchiveInv
<1> QED
  BY Invariance, <1>1, PTL

\* Archiving loses nothing: an ARCHIVED memory has an episodic copy that names
\* it, stored before the memory was marked (b2/service.py, archive_session).
THEOREM ArchiveIsSafe == Spec => []ArchivedHasCopy
<1>1. ArchiveInv => ArchivedHasCopy
  BY DEF ArchiveInv
<1> QED
  BY Invariance, <1>1, PTL

-----------------------------------------------------------------------------
(* Signals stay true.                                                       *)

\* A settled row stays settled: ACTIVE is written to fresh rows and by the
\* stale write-backs that `rewritten' records, and by nothing else.
LEMMA SettledKept ==
  ASSUME TypeOK, LocalsOK, [Next]_vars,
         NEW id \in Ids, born[id] # Unborn, Settled(id)
  PROVE  Settled(id)'
<1>0. /\ state \in [Ids -> States \cup {"absent"}]
      /\ \A t \in Tasks : frame[t] \in Frames /\ LocalOK(frame[t])
  BY DEF TypeOK, LocalsOK
<1> USE <1>0 DEF Settled
<1>1. ASSUME NEW t \in Tasks, Ingest(t) \/ CopyWrite(t) PROVE Settled(id)'
  BY <1>1 DEF Ingest, CopyWrite, Fresh
<1>2. ASSUME NEW t \in Tasks, AccessWrite(t) \/ GetWrite(t) PROVE Settled(id)'
  <2>1. PICK m \in frame[t].pack :
           /\ m.id \in Ids
           /\ state' = [state EXCEPT ![m.id] = m.state]
           /\ rewritten' = rewritten \cup {i \in {m.id} : state[i] # m.state}
    BY <1>2, WritesBack
  <2> QED BY <2>1
<1>3. ASSUME NEW t \in Tasks, UpdateWrite(t) PROVE Settled(id)'
  BY <1>3, TerminalStates DEF UpdateWrite, At, LocalOK
<1>4. ASSUME NEW t \in Tasks, MarkWrite(t) \/ Delete(t) \/ ExpireOne(t)
      PROVE  Settled(id)'
  BY <1>4 DEF MarkWrite, Delete, ExpireOne
<1>5. ASSUME UNCHANGED <<state, rewritten>> PROVE Settled(id)'
  BY <1>5
<1> QED
  BY <1>1, <1>2, <1>3, <1>4, <1>5
     DEF Next, Start, Proceed, BeforeInference, ArchiveSession, Get, UpdateState,
         ExpireStale, Created, Recall, Select, Accessed, MarkRead, Marked,
         ArchiveReturn, Crash, vars

\* A call that does not move keeps what it is about to report, and so does one
\* whose step leaves its item and its copy alone and does not mark.
LEMMA ReportKept ==
  ASSUME TypeOK, LocalsOK, [Next]_vars, Kept, NEW u \in Tasks,
         ReportOK(frame[u]),
         frame'[u].pc \in {"mark_read", "mark_write", "marked"} =>
           /\ frame[u].pc \in {"mark_read", "mark_write", "marked"}
           /\ frame'[u].item = frame[u].item /\ frame'[u].copy = frame[u].copy,
         frame'[u].pc = "marked" => frame[u].pc = "marked"
  PROVE  ReportOK(frame[u])'
<1>1. LocalOK(frame[u])
  BY DEF LocalsOK
<1>2. CASE frame'[u].pc \in {"mark_read", "mark_write", "marked"}
  <2>1. PICK i \in Ids, c \in Ids :
          /\ frame[u].item = i /\ frame'[u].item = i
          /\ frame[u].copy = c /\ frame'[u].copy = c
          /\ born[i] # Unborn /\ born[c] # Unborn /\ born[c].from = i
    BY <1>1, <1>2 DEF LocalOK, ReportOK
  <2>2. born'[c] = born[c]
    BY <2>1 DEF Kept
  <2>3. frame'[u].pc = "marked" => Settled(i)'
    BY <2>1, SettledKept DEF ReportOK
  <2> QED
    BY <2>1, <2>2, <2>3 DEF ReportOK, Settled
<1>3. CASE frame'[u].pc \notin {"mark_read", "mark_write", "marked"}
  BY <1>3 DEF ReportOK
<1> QED
  BY <1>2, <1>3

\* Every step keeps what each call is about to report.
LEMMA ReportsNext ==
  ASSUME ArchiveInv, ReportInv, [Next]_vars, NEW u \in Tasks
  PROVE  ReportOK(frame[u])'
<1>0. /\ TypeOK /\ LocalsOK /\ Kept /\ ReportOK(frame[u])
      /\ frame \in [Tasks -> Frames] /\ frame[u] \in Frames /\ LocalOK(frame[u])
  BY KeptNext DEF ArchiveInv, LocalsOK, ReportInv, TypeOK
<1> DEFINE Marking == {"mark_read", "mark_write", "marked"}
           Quiet == /\ frame'[u].pc \in Marking =>
                         /\ frame[u].pc \in Marking
                         /\ frame'[u].item = frame[u].item
                         /\ frame'[u].copy = frame[u].copy
                    /\ frame'[u].pc = "marked" => frame[u].pc = "marked"
<1>q. ASSUME Quiet PROVE ReportOK(frame[u])'
  BY <1>0, <1>q, ReportKept
<1>1. ASSUME frame'[u] = frame[u] PROVE Quiet
  BY <1>1
<1>2. ASSUME frame'[u].pc \notin Marking PROVE Quiet
  BY <1>2
<1>3. ASSUME NEW t \in Tasks, NEW f, Goto(t, f), t = u => f.pc \notin Marking
      PROVE  Quiet
  BY <1>0, <1>1, <1>2, <1>3, GotoOnly
<1>4. ASSUME Return(u) PROVE Quiet
  BY <1>0, <1>2, <1>4, ReturnFrames DEF Idle
<1>5. ASSUME NEW t \in Tasks, t # u, Start(t) \/ Proceed(t) PROVE Quiet
  <2>1. frame' = frame \/ \E f : Goto(t, f)
    BY <1>5
       DEF Start, Proceed, Ingest, BeforeInference, ArchiveSession, Get, UpdateState,
           Delete, ExpireStale, Created, Recall, Select, AccessWrite, Accessed,
           CopyWrite, MarkRead, MarkWrite, Marked, ArchiveReturn, GetWrite,
           UpdateWrite, ExpireOne, Return
  <2> QED
    BY <1>0, <1>1, <1>5, <2>1, GotoOnly
<1>6. ASSUME Start(u) PROVE Quiet
  <2>1. frame[u].pc = "idle"
    BY <1>6 DEF Start, Ingest, BeforeInference, ArchiveSession, Get, UpdateState,
                Delete, ExpireStale, Begin
  <2>2. CASE Delete(u)
    BY <1>1, <2>2 DEF Delete
  <2>3. CASE Ingest(u)
    <3>1. PICK id \in Ids : Goto(u, [Idle EXCEPT !.pc = "created", !.item = id])
      BY <2>3 DEF Ingest, Fresh
    <3> QED BY <1>3, <3>1 DEF Idle
  <2>4. CASE BeforeInference(u)
    <3> DEFINE f(s, A) == [Idle EXCEPT !.pc = "recall", !.session = s,
                                       !.left = RecallOrder, !.atStart = A]
    <3>1. PICK s, A : Goto(u, f(s, A))
      BY <2>4 DEF BeforeInference
    <3>2. f(s, A).pc = "recall"
      BY DEF Idle
    <3> HIDE DEF f
    <3> QED BY <1>3, <3>1, <3>2
  <2>5. CASE ArchiveSession(u)
    <3>1. PICK W : Goto(u, [Idle EXCEPT !.pc = "archive", !.work = W])
      BY <2>5 DEF ArchiveSession
    <3> QED BY <1>3, <3>1 DEF Idle
  <2>6. CASE UpdateState(u)
    <3>1. PICK id, g : Goto(u, [Idle EXCEPT !.pc = "update", !.item = id, !.goal = g])
      BY <2>6 DEF UpdateState
    <3> QED BY <1>3, <3>1 DEF Idle
  <2>7. CASE ExpireStale(u)
    <3>1. PICK due : Goto(u, [Idle EXCEPT !.pc = "sweep", !.work = due])
      BY <2>7 DEF ExpireStale
    <3> QED BY <1>3, <3>1 DEF Idle
  <2>8. CASE Get(u)
    <3>1. PICK m : Goto(u, [Idle EXCEPT !.pc = "get", !.pack = {m}])
      BY <1>0, <2>8, GetReads
    <3> QED BY <1>3, <3>1 DEF Idle
  <2> QED
    BY <1>6, <2>2, <2>3, <2>4, <2>5, <2>6, <2>7, <2>8 DEF Start
<1>7. ASSUME Created(u) \/ ArchiveReturn(u) \/ GetWrite(u) \/ UpdateWrite(u) PROVE Quiet
  BY <1>4, <1>7 DEF Created, ArchiveReturn, GetWrite, UpdateWrite
<1>8. ASSUME Recall(u) PROVE Quiet
  <2>1. PICK l, p : frame'[u] = [frame[u] EXCEPT !.left = l, !.pack = p]
    <3>1. PICK l, p : Goto(u, [frame[u] EXCEPT !.left = l, !.pack = p])
      BY <1>8 DEF Recall
    <3>2. frame'[u] = [frame[u] EXCEPT !.left = l, !.pack = p]
      BY <1>0, <3>1, GotoOnly
    <3> QED BY <3>2
  <2>2. frame'[u].pc = "recall"
    BY <1>0, <1>8, <2>1 DEF Recall, At, Frames
  <2> QED
    BY <1>2, <2>2
<1>9. ASSUME Select(u) PROVE Quiet
  <2>1. Return(u) \/ \E P : Goto(u, [frame[u] EXCEPT !.pc = "access", !.pack = P])
    BY <1>9 DEF Select
  <2>2. \A P : [frame[u] EXCEPT !.pc = "access", !.pack = P].pc = "access"
    BY <1>0 DEF Frames
  <2> QED
    BY <1>3, <1>4, <2>1, <2>2
<1>10. ASSUME AccessWrite(u) PROVE Quiet
  <2>1. \E i, P : Goto(u, [frame[u] EXCEPT !.pc = "accessed", !.item = i, !.pack = P])
    BY <1>10 DEF AccessWrite
  <2>2. \A i, P : [frame[u] EXCEPT !.pc = "accessed", !.item = i, !.pack = P].pc = "accessed"
    BY <1>0 DEF Frames
  <2> QED
    BY <1>3, <2>1, <2>2
<1>11. ASSUME Accessed(u) PROVE Quiet
  <2>1. [frame[u] EXCEPT !.pc = "access"].pc = "access"
    BY <1>0 DEF Frames
  <2> QED
    BY <1>3, <1>4, <1>11, <2>1 DEF Accessed
<1>12. ASSUME CopyWrite(u) PROVE ReportOK(frame[u])'
  <2>1. PICK i \in frame[u].work, c \in Fresh :
          /\ born' = [born EXCEPT ![c] =
                        [born[i] EXCEPT !.type = "episodic", !.from = i]]
          /\ Goto(u, [frame[u] EXCEPT !.pc = "mark_read", !.item = i, !.copy = c])
    BY <1>12 DEF CopyWrite
  <2>2. frame'[u] = [frame[u] EXCEPT !.pc = "mark_read", !.item = i, !.copy = c]
    BY <1>0, <2>1, GotoOnly
  <2>3. frame'[u].pc = "mark_read" /\ frame'[u].item = i /\ frame'[u].copy = c
    BY <1>0, <2>2 DEF Frames
  <2>4. i \in Ids /\ born[i] # Unborn /\ born[i] \in Descriptor /\ c \in Ids
    BY <1>0 DEF Frames, TypeOK, Fresh, LocalOK
  <2>5. born'[c] = [born[i] EXCEPT !.type = "episodic", !.from = i]
    BY <1>0, <2>1, <2>4 DEF TypeOK
  <2>6. [born[i] EXCEPT !.type = "episodic", !.from = i] \in Descriptor
    BY <2>4 DEF Descriptor
  <2>7. born'[c] # Unborn
    BY <2>5, <2>6, IdsAssumption
  <2>8. born'[c].from = i
    BY <2>4, <2>5 DEF Descriptor
  <2> QED
    BY <2>3, <2>7, <2>8 DEF ReportOK
<1>13. ASSUME MarkRead(u) PROVE Quiet
  <2>1. CASE Return(u)
    BY <1>4, <2>1
  <2>2. CASE Goto(u, [frame[u] EXCEPT !.pc = "mark_write"])
    <3>1. frame'[u] = [frame[u] EXCEPT !.pc = "mark_write"]
      BY <1>0, <2>2, GotoOnly
    <3>2. /\ frame'[u].pc = "mark_write" /\ frame'[u].item = frame[u].item
          /\ frame'[u].copy = frame[u].copy /\ frame[u].pc = "mark_read"
      BY <1>0, <1>13, <3>1 DEF Frames, MarkRead, At
    <3> QED BY <3>2
  <2> QED
    BY <1>13, <2>1, <2>2 DEF MarkRead
<1>14. ASSUME MarkWrite(u) PROVE ReportOK(frame[u])'
  <2>1. frame'[u] = [frame[u] EXCEPT !.pc = "marked"]
    BY <1>0, <1>14, GotoOnly DEF MarkWrite
  <2>2. /\ frame'[u].pc = "marked" /\ frame'[u].item = frame[u].item
        /\ frame'[u].copy = frame[u].copy /\ frame[u].pc = "mark_write"
    BY <1>0, <1>14, <2>1 DEF Frames, MarkWrite, At
  <2>3. born' = born /\ state'[frame[u].item] = "archived"
    BY <1>0, <1>14, <2>2 DEF MarkWrite, TypeOK, LocalOK
  <2> QED
    BY <1>0, <2>2, <2>3 DEF ReportOK, Settled
<1>15. ASSUME Marked(u) PROVE Quiet
  <2> DEFINE g == [frame[u] EXCEPT !.pc = "archive", !.work = @ \ {frame[u].item},
                                   !.item = None, !.copy = None]
  <2>1. Goto(u, g)
    BY <1>15 DEF Marked
  <2>2. g.pc = "archive"
    BY <1>0 DEF Frames
  <2> HIDE DEF g
  <2> QED
    BY <1>3, <2>1, <2>2
<1>16. ASSUME ExpireOne(u) PROVE Quiet
  <2>1. Return(u) \/ \E W : Goto(u, [frame[u] EXCEPT !.work = W])
    BY <1>16 DEF ExpireOne
  <2>2. \A W : [frame[u] EXCEPT !.work = W].pc = "sweep"
    BY <1>0, <1>16 DEF Frames, ExpireOne, At
  <2> QED
    BY <1>3, <1>4, <2>1, <2>2
<1>17. ASSUME Crash PROVE Quiet
  BY <1>2, <1>17 DEF Crash, Idle
<1>18. ASSUME UNCHANGED vars PROVE Quiet
  BY <1>1, <1>18 DEF vars
<1>19. ASSUME Proceed(u) PROVE ReportOK(frame[u])'
  BY <1>q, <1>7, <1>8, <1>9, <1>10, <1>11, <1>12, <1>13, <1>14, <1>15, <1>16, <1>19
     DEF Proceed
<1> QED
  BY <1>q, <1>5, <1>6, <1>17, <1>18, <1>19 DEF Next

\* Every step keeps the signals true; only Marked adds one that matters.
LEMMA SignalsNext ==
  ArchiveInv /\ ReportInv /\ [Next]_vars => SignalsNameCopies' /\ ReportedIsArchived'
<1> SUFFICES ASSUME ArchiveInv, ReportInv, [Next]_vars,
                    NEW g \in signals', g.type = "archival"
             PROVE  \E id \in Ids : /\ born'[g.id] # Unborn /\ born'[g.id].from = id
                                    /\ born'[id] # Unborn /\ Settled(id)'
  BY DEF SignalsNameCopies, ReportedIsArchived, Settled
<1>0. /\ TypeOK /\ LocalsOK /\ Kept
      /\ \A t \in Tasks : LocalOK(frame[t]) /\ ReportOK(frame[t])
  BY KeptNext DEF ArchiveInv, LocalsOK, ReportInv
<1>1. \/ g \in signals
      \/ \E t \in Tasks : Marked(t) /\ g.id = frame[t].copy
  <2>1. CASE UNCHANGED signals
    BY <2>1
  <2>2. ASSUME NEW t \in Tasks, Created(t) \/ Accessed(t) PROVE g \in signals
    BY <2>2 DEF Created, Accessed, Emit
  <2>3. ASSUME NEW t \in Tasks, Marked(t), g \notin signals
        PROVE  g.id = frame[t].copy
    BY <2>3 DEF Marked, Emit
  <2> QED
    BY <2>1, <2>2, <2>3
       DEF Next, Start, Proceed, Ingest, BeforeInference, ArchiveSession, Get,
           UpdateState, Delete, ExpireStale, Recall, Select, AccessWrite,
           CopyWrite, MarkRead, MarkWrite, ArchiveReturn, GetWrite, UpdateWrite,
           ExpireOne, Crash, vars
<1>2. PICK c \in Ids, id \in Ids :
        /\ g.id = c /\ born[c] # Unborn /\ born[c].from = id
        /\ born[id] # Unborn /\ Settled(id)
  <2>1. CASE g \in signals
    BY <2>1, <1>0 DEF TypeOK, Signal, ReportInv, SignalsNameCopies,
                      ReportedIsArchived, Settled
  <2>2. CASE \E t \in Tasks : Marked(t) /\ g.id = frame[t].copy
    BY <1>0, <2>2 DEF Marked, At, LocalOK, ReportOK
  <2> QED
    BY <1>1, <2>1, <2>2
<1>3. born'[c] = born[c] /\ born'[id] = born[id]
  BY <1>0, <1>2 DEF Kept
<1>4. Settled(id)'
  BY <1>0, <1>2, SettledKept
<1> QED
  BY <1>2, <1>3, <1>4

\* What an ARCHIVAL signal reports stays true: the archived memory is ACTIVE
\* again only where an access wrote back an older state of it, one that
\* before_inference or a caller's get() read (b2/service.py, archive_session).
THEOREM SignalsStayTrue == Spec => []ReportedIsArchived
<1>1. Init => ReportInv
  BY DEF Init, ReportInv, ReportOK, SignalsNameCopies, ReportedIsArchived, Idle
<1>2. ArchiveInv /\ ReportInv /\ [Next]_vars => ReportInv'
  BY ReportsNext, SignalsNext DEF ReportInv
<1>3. ReportInv => ReportedIsArchived
  BY DEF ReportInv
<1> QED
  BY <1>1, <1>2, <1>3, Invariance, PTL DEF Spec
=============================================================================
