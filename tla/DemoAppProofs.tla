---------------------------- MODULE DemoAppProofs ----------------------------
(***************************************************************************)
(* Theorems about DemoApp, whether its embedder may raise or not: no       *)
(* suspension shows the two versions of an object mixed, what was          *)
(* distilled from an upload keeps its source, no dialogue turn is lost and *)
(* no scenario begins before it is asked for.                              *)
(***************************************************************************)
EXTENDS DemoApp, SequenceTheorems, FiniteSetTheorems, TLAPS

-----------------------------------------------------------------------------
(* What the loops run over.                                                 *)

\* The memories and objects of the demo are those its text names.
LEMMA Names ==
  /\ Elements(Rules) = {"rule1", "rule2"} /\ Elements(NewRules) = {"new1", "new2"}
  /\ Elements(Turns) = {"turn1", "turn2"}
  /\ Elements(OldChunks) = {"chunk31", "chunk32", "chunk33"}
  /\ Elements(NewChunks) = {"chunk41", "chunk42"}
  /\ Elements(Starts) = {"upload", "query", "turn", "update", "summary", "exit"}
  /\ Elements(Scenarios) =
       {"document_upload", "user_query", "memory_maintenance", "object_update"}
<1>1. DOMAIN Rules = 1..2 /\ DOMAIN NewRules = 1..2 /\ DOMAIN Turns = 1..2
      /\ DOMAIN NewChunks = 1..2 /\ DOMAIN OldChunks = 1..3
      /\ DOMAIN Scenarios = 1..4 /\ DOMAIN Starts = 1..6
  BY DEF Rules, NewRules, Turns, NewChunks, OldChunks, Scenarios, Starts
<1>2. /\ 1..2 = {1, 2} /\ 1..3 = {1, 2, 3}
      /\ 1..4 = {1, 2, 3, 4} /\ 1..6 = {1, 2, 3, 4, 5, 6}
  OBVIOUS
<1> QED
  BY <1>1, <1>2 DEF Elements, Rules, NewRules, Turns, NewChunks, OldChunks,
                    Scenarios, Starts

\* The session's query returns turns.
LEMMA SessionType == Session \in Seq(Elements(Turns))
<1> DEFINE Present == {t \in Elements(Turns) : memory[t] # "absent"}
           Lists == {<<>>, <<"turn1">>, <<"turn2">>, Turns}
<1>1. Present \in {{}, {"turn1"}, {"turn2"}, {"turn1", "turn2"}}
  BY Names
<1>2. /\ Elements(<<>>) = {} /\ Elements(<<"turn1">>) = {"turn1"}
      /\ Elements(<<"turn2">>) = {"turn2"} /\ Elements(Turns) = {"turn1", "turn2"}
  <2>1. /\ DOMAIN <<>> = {} /\ DOMAIN <<"turn1">> = {1} /\ DOMAIN <<"turn2">> = {1}
    OBVIOUS
  <2> QED BY <2>1, Names DEF Elements
<1> HIDE DEF Present
<1>3. \E items \in Lists : Elements(items) = Present
  BY <1>1, <1>2
<1>4. Session \in Lists
  BY <1>3 DEF Session, Present
<1>5. \A items \in Lists : items \in Seq({"turn1", "turn2"})
  <2>1. Turns \in Seq({"turn1", "turn2"})
    BY DEF Turns
  <2>2. <<>> \in Seq({"turn1", "turn2"})
    OBVIOUS
  <2>3. <<"turn1">> \in Seq({"turn1", "turn2"}) /\ <<"turn2">> \in Seq({"turn1", "turn2"})
    OBVIOUS
  <2> QED BY <2>1, <2>2, <2>3
<1> QED BY <1>4, <1>5, Names

\* Copies are no turns, and none of them is a manual memory.
LEMMA Kinds ==
  /\ Manual = {"rule1", "rule2", "new1", "new2"}
  /\ \A t \in Elements(Turns) : CopyOf[t] \in Episodic
  /\ \A m \in Episodic \cup Elements(Turns) : m \in Memories /\ m \notin Manual
  /\ \A m \in Episodic : m \notin Elements(Turns)
  /\ Manual \in SUBSET Memories
  /\ Elements(OldChunks) \in SUBSET ChunkIds /\ Elements(NewChunks) \in SUBSET ChunkIds
  /\ \A c \in Elements(NewChunks) : RuleOf[c] \in Elements(NewRules)
  /\ \A t, u \in Elements(Turns) : CopyOf[t] = CopyOf[u] => t = u
  BY Names DEF Manual, Episodic, Memories, CopyOf, ChunkIds, RuleOf

\* What a memory was distilled from.
LEMMA ObjectsOf ==
  /\ \A m \in Manual : ObjectOf(m) \in Objects
  /\ \A m \in Elements(Rules) : ObjectOf(m) = "v3"
  /\ \A m \in Elements(NewRules) : ObjectOf(m) = "v4"
  /\ \A m \in Memories : Scheduled(m) \in Objects \cup Memories
<1>1. \A m \in Elements(Rules) : ObjectOf(m) = "v3"
  BY Names DEF ObjectOf
<1>2. \A m \in Elements(NewRules) : ObjectOf(m) = "v4"
  BY Names DEF ObjectOf
<1>3. \A m \in Manual : m \in Elements(Rules) \/ m \in Elements(NewRules)
  BY DEF Manual
<1>4. \A m \in Memories : ObjectOf(m) \in Objects \cup {None}
  BY DEF ObjectOf, Objects
<1> QED BY <1>1, <1>2, <1>3, <1>4 DEF Objects, Scheduled

\* A loop hands out an element of its list and keeps the others.
LEMMA LoopTurn ==
  ASSUME NEW S, left \in Seq(S), left # <<>>
  PROVE  /\ Head(left) \in S /\ Tail(left) \in Seq(S)
         /\ Len(left) # 1 => Tail(left) # <<>>
<1>1. Len(left) \in Nat /\ Len(left) > 0 /\ \A i \in 1..Len(left) : left[i] \in S
  OBVIOUS
<1>2. Head(left) \in S
  BY <1>1
<1>3. Tail(left) \in Seq(S) /\ Len(Tail(left)) = Len(left) - 1
  BY <1>1
<1>4. Len(left) # 1 => Len(Tail(left)) # 0
  BY <1>1, <1>3
<1>5. Len(<<>>) = 0
  OBVIOUS
<1> QED BY <1>2, <1>3, <1>4, <1>5

-----------------------------------------------------------------------------
(* Types, scenarios and loops.                                              *)

LEMMA InitOK == Init => DemoInv
<1> SUFFICES ASSUME Init PROVE DemoInv
  OBVIOUS
<1>1. pc = "upload" /\ stage = 1 /\ left = <<>> /\ completed = <<>> /\ log = <<>>
  BY DEF Init
<1>2. /\ \A m \in Memories : memory[m] = "absent"
      /\ \A object : Sink!OfObject(object) = {}
  BY DEF Init, Sink!Empty, Sink!OfObject
<1>3. TypeOK
  <2>1. pc \in Points /\ stage \in 1..5 /\ faulty \in BOOLEAN
    BY Names, FaultsAssumption DEF Init, Points
  <2>2. /\ left \in Seq(ChunkIds \cup Memories) /\ log \in Seq(Objects \cup Memories)
        /\ completed \in Seq(Elements(Scenarios))
    BY <1>1
  <2>3. records \in [ChunkIds -> [object : Objects] \cup {NoRecord}]
    BY DEF Init, Sink!Empty
  <2> QED BY <2>1, <2>2, <2>3 DEF Init, TypeOK
<1>4. InItsScenario /\ LocalsOK /\ CountKept /\ PromptOK /\ IsolationHolds
  BY <1>1 DEF InItsScenario, PointsOf, LocalsOK, CountKept, PromptOK, IsolationHolds
<1>5. ~NewPresent /\ Uploaded
  BY <1>1, <1>2, Kinds DEF NewPresent, Uploaded
<1>6. UpdateInOrder /\ OldVersionGone
  BY <1>1, <1>5 DEF UpdateInOrder, OldVersionGone
<1>7. SourceChain
  BY <1>2, Kinds DEF SourceChain
<1> QED BY <1>3, <1>4, <1>5, <1>6, <1>7 DEF DemoInv

\* Every step keeps the worker in its scenario and remembers the answer.
LEMMA ScenarioNext ==
  ASSUME DemoInv, [Next]_vars
  PROVE  /\ pc' \in Points /\ stage' \in 1..5 /\ InItsScenario' /\ PromptOK'
         /\ IsolationHolds' \/ pc \in {"update", "schedule", "verify"}
<1>1. /\ pc \in Points /\ stage \in 1..5 /\ InItsScenario /\ PromptOK /\ IsolationHolds
      /\ advance \in BOOLEAN /\ answered \in BOOLEAN /\ faulty \in BOOLEAN
  BY DEF DemoInv, TypeOK
<1> USE Names DEF Points, InItsScenario, PointsOf, PromptOK, IsolationHolds, Step
<1>2. CASE UploadObject \/ WriteEvent \/ Pin \/ SignalTop \/ ScheduleTop \/ BeforeInference
  BY <1>1, <1>2 DEF UploadObject, WriteEvent, Pin, SignalTop, ScheduleTop, BeforeInference
<1>3. CASE EmbedChunk \/ WriteRule \/ WriteTurn \/ EmbedNewChunk
  BY <1>1, <1>3 DEF EmbedChunk, WriteRule, WriteTurn, EmbedNewChunk, Turn
<1>4. CASE Query \/ WriteTool \/ StoreItem \/ MoveItem \/ HintTool \/ Promote
  BY <1>1, <1>4 DEF Query, WriteTool, StoreItem, MoveItem, HintTool, Promote
<1>5. CASE UpdateObject \/ Propagate \/ CountOldActions \/ ScheduleNew \/ Verify
  BY <1>1, <1>5 DEF UpdateObject, Propagate, CountOldActions, ScheduleNew, Verify, Raise
<1>6. CASE EmbedderRaises
  <2>1. /\ faulty /\ faulty' = faulty /\ pc' = "raised" /\ stage' = stage
    BY <1>6 DEF EmbedderRaises, Raise
  <2> QED BY <1>1, <2>1
<1>7. CASE Prompt \/ Entered
  BY <1>1, <1>7 DEF Prompt, Entered
<1>8. CASE NextStage
  BY <1>1, <1>8 DEF NextStage, Starts
<1>9. CASE OnKey
  BY <1>1, <1>9 DEF OnKey
<1>10. CASE UNCHANGED vars
  BY <1>1, <1>10 DEF vars, worker
<1> QED
  BY <1>2, <1>3, <1>4, <1>5, <1>6, <1>7, <1>8, <1>9, <1>10 DEF Next, Worker

\* The lists the loops begin with.
LEMMA ListTypes ==
  /\ OldChunks \in Seq(Elements(OldChunks)) /\ OldChunks # <<>>
  /\ NewChunks \in Seq(Elements(NewChunks)) /\ NewChunks # <<>>
  /\ Rules \in Seq(Elements(Rules)) /\ Rules # <<>>
  /\ Turns \in Seq(Elements(Turns)) /\ Turns # <<>>
<1>1. OldChunks \in Seq({"chunk31", "chunk32", "chunk33"}) /\ Len(OldChunks) = 3
  BY DEF OldChunks
<1>2. NewChunks \in Seq({"chunk41", "chunk42"}) /\ Len(NewChunks) = 2
  BY DEF NewChunks
<1>3. Rules \in Seq({"rule1", "rule2"}) /\ Len(Rules) = 2
  BY DEF Rules
<1>4. Turns \in Seq({"turn1", "turn2"}) /\ Len(Turns) = 2
  BY DEF Turns
<1>5. Len(<<>>) = 0
  OBVIOUS
<1> QED BY <1>1, <1>2, <1>3, <1>4, <1>5, Names

\* Every step keeps the loops on their own lists.
LEMMA LocalsNext ==
  ASSUME DemoInv, [Next]_vars
  PROVE  LocalsOK' /\ left' \in Seq(ChunkIds \cup Memories) /\ top' \in Memories \cup {None}
<1> DEFINE All == ChunkIds \cup Memories
<1>1. /\ pc \in Points /\ LocalsOK /\ left \in Seq(All) /\ top \in Memories \cup {None}
      /\ stage \in 1..5 /\ <<>> \in Seq(All)
  BY DEF DemoInv, TypeOK
<1>2. /\ Elements(OldChunks) \in SUBSET All /\ Elements(NewChunks) \in SUBSET All
      /\ Elements(Rules) \in SUBSET All /\ Elements(Turns) \in SUBSET All
      /\ Episodic \in SUBSET Memories
  BY Names, Kinds DEF Manual, Memories
<1>3. \A S \in SUBSET All : \A list \in Seq(S) : list \in Seq(All)
  BY SeqMonotonic
<1> HIDE DEF All
<1> USE DEF LocalsOK, Step
<1>4. CASE UploadObject \/ Propagate
  <2>1. /\ top' = top
        /\ \/ pc' = "embed" /\ left' = OldChunks
           \/ pc' = "embed_new" /\ left' = NewChunks
    BY <1>4 DEF UploadObject, Propagate
  <2> QED BY <1>1, <1>2, <1>3, <2>1, ListTypes DEF All
<1>5. ASSUME NEW S \in SUBSET All, left \in Seq(S), left # <<>>
      PROVE  /\ Tail(left) \in Seq(S) /\ Tail(left) \in Seq(All)
             /\ Len(left) # 1 => Tail(left) # <<>>
  BY <1>3, <1>5, LoopTurn
<1>6. CASE EmbedChunk
  <2>1. /\ top' = top /\ left' = IF Len(left) = 1 THEN Rules ELSE Tail(left)
        /\ pc' = IF Len(left) = 1 THEN "rule" ELSE "embed"
        /\ left # <<>> /\ left \in Seq(Elements(OldChunks))
    BY <1>1, <1>6 DEF EmbedChunk, Turn
  <2> QED BY <1>1, <1>2, <1>3, <1>5, <2>1, ListTypes DEF All
<1>7. CASE WriteRule
  <2>1. /\ top' = top /\ left' = IF Len(left) = 1 THEN <<>> ELSE Tail(left)
        /\ pc' = IF Len(left) = 1 THEN "event" ELSE "rule"
        /\ left # <<>> /\ left \in Seq(Elements(Rules))
    BY <1>1, <1>7 DEF WriteRule, Turn
  <2> QED BY <1>1, <1>2, <1>5, <2>1 DEF All
<1>8. CASE WriteTurn
  <2>1. /\ top' = top /\ left' = IF Len(left) = 1 THEN <<>> ELSE Tail(left)
        /\ pc' = IF Len(left) = 1 THEN "tool" ELSE "turn"
        /\ left # <<>> /\ left \in Seq(Elements(Turns))
    BY <1>1, <1>8 DEF WriteTurn, Turn
  <2> QED BY <1>1, <1>2, <1>5, <2>1 DEF All
<1>9. CASE EmbedNewChunk
  <2>1. /\ top' = top /\ left' = IF Len(left) = 1 THEN <<>> ELSE Tail(left)
        /\ pc' = IF Len(left) = 1 THEN "filter" ELSE "embed_new"
        /\ left # <<>> /\ left \in Seq(Elements(NewChunks))
    BY <1>1, <1>9 DEF EmbedNewChunk, Turn
  <2> QED BY <1>1, <1>2, <1>5, <2>1 DEF All
<1>10. CASE StoreItem
  <2> DEFINE items == IF pc = "list" THEN Session ELSE left
  <2>1. items \in Seq(Elements(Turns))
    BY <1>1, <1>10, SessionType DEF StoreItem
  <2>2. /\ top' = top /\ left' = items
        /\ pc' = IF items = <<>> THEN "hint" ELSE "move"
    BY <1>10 DEF StoreItem
  <2> HIDE DEF items
  <2> QED BY <1>1, <1>2, <1>3, <2>1, <2>2 DEF All
<1>11. CASE MoveItem
  <2>1. /\ top' = top /\ left' = Tail(left) /\ pc' = "archive"
        /\ left # <<>> /\ left \in Seq(Elements(Turns))
    BY <1>1, <1>11 DEF MoveItem
  <2> QED BY <1>1, <1>2, <1>5, <2>1 DEF All
<1>12. CASE Query
  <2>1. /\ left' = left
        /\ \/ pc' = "infer" /\ top' = top
           \/ pc' = "signal" /\ top' \in Memories
    BY <1>2, <1>12 DEF Query, Recallable
  <2> QED BY <1>1, <2>1 DEF All
<1>13. CASE WriteEvent \/ Pin \/ SignalTop \/ ScheduleTop \/ BeforeInference \/ WriteTool
  <2>1. /\ left' = left /\ top' = top
        /\ pc' \in {"pin", "end", "access", "infer", "list"}
        /\ pc' = "access" => pc = "signal"
    BY <1>13 DEF WriteEvent, Pin, SignalTop, ScheduleTop, BeforeInference, WriteTool
  <2> QED BY <1>1, <2>1 DEF All
<1>14. CASE \/ HintTool \/ Promote \/ UpdateObject \/ CountOldActions \/ ScheduleNew
            \/ Verify \/ EmbedderRaises
  <2>1. /\ left' = left /\ top' = top
        /\ pc' \in {"promote", "end", "propagate", "schedule", "verify", "raised"}
    BY <1>14 DEF HintTool, Promote, UpdateObject, CountOldActions, ScheduleNew, Verify,
                 EmbedderRaises, Raise
  <2> QED BY <1>1, <2>1 DEF All
<1>15. CASE Prompt \/ Entered
  <2>1. left' = left /\ top' = top /\ pc' \in {"wait", "enter"}
    BY <1>15 DEF Prompt, Entered
  <2> QED BY <1>1, <2>1 DEF All
<1>16. CASE NextStage
  <2>1. /\ top' = top /\ left' = IF stage = 2 THEN Turns ELSE <<>>
        /\ pc' = Starts[stage + 1]
    BY <1>16 DEF NextStage
  <2>2. /\ pc' \in {"query", "turn", "update", "summary", "exit"}
        /\ pc' = "turn" => stage = 2
    BY <1>1, <2>1 DEF Starts
  <2> QED BY <1>1, <1>2, <1>3, <2>1, <2>2, ListTypes DEF All
<1>17. CASE OnKey \/ UNCHANGED vars
  <2>1. left' = left /\ top' = top /\ pc' = pc
    BY <1>17 DEF OnKey, vars, worker
  <2> QED BY <1>1, <2>1 DEF All
<1> QED
  BY <1>4, <1>6, <1>7, <1>8, <1>9, <1>10, <1>11, <1>12, <1>13, <1>14, <1>15, <1>16, <1>17
     DEF Next, Worker

\* What a loop works on.
LEMMA Heads ==
  ASSUME DemoInv
  PROVE  /\ pc = "embed" => Head(left) \in Elements(OldChunks)
         /\ pc = "rule" => Head(left) \in Elements(Rules)
         /\ pc \in {"turn", "move"} => Head(left) \in Elements(Turns)
         /\ pc = "embed_new" => Head(left) \in Elements(NewChunks)
  BY LoopTurn DEF DemoInv, LocalsOK

\* The entry of an object, once it has one.
LEMMA Entries ==
  ASSUME TypeOK, NEW o \in Objects, versions[o] # None
  PROVE  /\ versions[o] \in Version
         /\ versions[o].chunks \in SUBSET ChunkIds /\ versions[o].status \in {"active", "superseded"}
  BY DEF TypeOK, Version

LEMMA TypeNext ==
  ASSUME DemoInv, [Next]_vars
  PROVE  TypeOK'
<1>1. TypeOK /\ LocalsOK /\ Uploaded /\ UpdateInOrder /\ InItsScenario
  BY DEF DemoInv
<1>2. /\ pc' \in Points /\ stage' \in 1..5
      /\ left' \in Seq(ChunkIds \cup Memories) /\ top' \in Memories \cup {None}
  BY ScenarioNext, LocalsNext
<1>3. /\ Elements(OldChunks) \in SUBSET ChunkIds /\ Elements(NewChunks) \in SUBSET ChunkIds
      /\ Elements(Rules) \in SUBSET Memories /\ Elements(Turns) \in SUBSET Memories
      /\ Elements(NewRules) \in SUBSET Memories /\ Episodic \in SUBSET Memories
      /\ "rule1" \in Memories /\ "new1" \in Memories
      /\ "upload" \in Memories /\ "tool" \in Memories
      /\ Manual \in SUBSET Memories
  BY Names, Kinds DEF Manual, Memories, Episodic
<1>4. /\ "v3" \in Objects /\ "v4" \in Objects
      /\ [status |-> "active", chunks |-> {}] \in Version
  BY DEF Objects, Version
<1> DEFINE Rest == /\ advance' \in BOOLEAN /\ answered' \in BOOLEAN /\ faulty' \in BOOLEAN
                   /\ memory' \in [Memories -> {"absent", "active", "superseded"}]
                   /\ blobs' \subseteq Objects \cup ChunkIds \cup Memories
                   /\ versions' \in [Objects -> Version \cup {None}]
                   /\ records' \in [ChunkIds -> [object : Objects] \cup {NoRecord}]
                   /\ log' \in Seq(Objects \cup Memories)
                   /\ oldCount' \in Nat
                   /\ signals' \subseteq {"access", "promotion_hint"} \X Memories
                   /\ completed' \in Seq(Elements(Scenarios))
<1> SUFFICES Rest
  BY <1>2 DEF TypeOK
<1>5. ASSUME NEW c \in ChunkIds, NEW o \in Objects, Embed(c, o)
      PROVE  records' \in [ChunkIds -> [object : Objects] \cup {NoRecord}]
  BY <1>1, <1>5 DEF Embed, Sink!Upsert, TypeOK
<1>6. ASSUME NEW c \in ChunkIds, NEW o \in Objects, Enter(c, o), versions[o] # None
      PROVE  versions' \in [Objects -> Version \cup {None}]
  <2>1. versions[o] \in Version
    BY <1>1, <1>6, Entries
  <2>2. [versions[o] EXCEPT !.chunks = @ \cup {c}] \in Version
    BY <2>1 DEF Version
  <2> QED BY <1>1, <1>6, <2>2 DEF Enter, TypeOK
<1>7. ASSUME NEW ms \in SUBSET Memories, Write(ms)
      PROVE  memory' \in [Memories -> {"absent", "active", "superseded"}]
  BY <1>1, <1>7 DEF Write, TypeOK
<1>8. ASSUME NEW m \in Memories, Schedule(m)
      PROVE  log' \in Seq(Objects \cup Memories)
  BY <1>1, <1>8, ObjectsOf DEF Schedule, TypeOK
<1>9. ASSUME NEW ms \in SUBSET Memories, NEW t \in {"access", "promotion_hint"}, Emit(t, ms)
      PROVE  signals' \subseteq {"access", "promotion_hint"} \X Memories
  BY <1>1, <1>9 DEF Emit, TypeOK
<1>10. CASE UploadObject
  BY <1>1, <1>4, <1>10 DEF UploadObject, Step, Put, TypeOK
<1>11. CASE EmbedChunk
  <2>1. Head(left) \in ChunkIds /\ versions["v3"] # None
    BY <1>1, <1>3, <1>11, Heads DEF EmbedChunk, Turn, Step, Uploaded
  <2>2. Embed(Head(left), "v3") /\ Enter(Head(left), "v3")
    BY <1>11 DEF EmbedChunk
  <2> QED
    BY <1>1, <1>4, <1>5, <1>6, <1>11, <2>1, <2>2 DEF EmbedChunk, Turn, Step, Put, TypeOK
<1>12. CASE WriteRule \/ WriteTurn
  <2>1. Head(left) \in Memories /\ Write({Head(left)})
    BY <1>3, <1>12, Heads DEF WriteRule, WriteTurn, Turn, Step
  <2> QED
    BY <1>1, <1>7, <1>12, <2>1 DEF WriteRule, WriteTurn, Turn, Step, TypeOK
<1>13. CASE WriteEvent \/ WriteTool
  BY <1>1, <1>3, <1>7, <1>13 DEF WriteEvent, WriteTool, Step, Put, TypeOK
<1>14. CASE Pin \/ ScheduleTop \/ Promote \/ ScheduleNew
  <2>1. \E m \in Memories : Schedule(m)
    BY <1>1, <1>3, <1>14 DEF Pin, ScheduleTop, Promote, ScheduleNew, Step, LocalsOK
  <2>2. log' \in Seq(Objects \cup Memories)
    BY <1>8, <2>1
  <2> QED
    BY <1>1, <1>14, <2>2 DEF Pin, ScheduleTop, Promote, ScheduleNew, Step, TypeOK
<1>15. CASE SignalTop \/ BeforeInference \/ HintTool \/ Verify
  <2>1. \E ms \in SUBSET Memories, t \in {"access", "promotion_hint"} : Emit(t, ms)
    BY <1>1, <1>3, <1>15
       DEF SignalTop, BeforeInference, HintTool, Verify, Recallable, Step, LocalsOK
  <2>2. signals' \subseteq {"access", "promotion_hint"} \X Memories
    BY <1>9, <2>1
  <2> QED
    BY <1>1, <1>15, <2>2 DEF SignalTop, BeforeInference, HintTool, Verify, Step, TypeOK
<1>16. CASE StoreItem
  <2> DEFINE items == IF pc = "list" THEN Session ELSE left
  <2>1. items \in Seq(Elements(Turns))
    BY <1>1, <1>16, SessionType DEF StoreItem, LocalsOK
  <2>2. \/ items = <<>> /\ blobs' = blobs
        \/ items # <<>> /\ blobs' = blobs \cup {Head(items)}
    BY <1>16 DEF StoreItem, Put
  <2> HIDE DEF items
  <2>3. items # <<>> => Head(items) \in Memories
    BY <1>3, <2>1
  <2> QED
    BY <1>1, <1>16, <2>2, <2>3 DEF StoreItem, Step, TypeOK
<1>17. CASE MoveItem
  BY <1>1, <1>17 DEF MoveItem, Step, TypeOK
<1>18. CASE Query \/ Entered
  BY <1>1, <1>18 DEF Query, Entered, Step, TypeOK, env
<1>19. CASE UpdateObject
  <2>1. CASE versions["v3"] = None
    BY <1>1, <1>19, <2>1 DEF UpdateObject, Raise, Step, TypeOK, env
  <2>2. CASE versions["v3"] # None
    <3>1. versions["v3"] \in Version
      BY <1>1, <1>4, <2>2, Entries
    <3>2. [versions["v3"] EXCEPT !.status = "superseded"] \in Version
      BY <3>1 DEF Version
    <3>3. versions' \in [Objects -> Version \cup {None}]
      BY <1>1, <1>4, <1>19, <2>2, <3>2 DEF UpdateObject, TypeOK
    <3>4. blobs' = blobs \cup {"v4"} /\ UNCHANGED <<memory, records, log, signals, oldCount>>
      BY <1>19, <2>2 DEF UpdateObject, Put
    <3>5. UNCHANGED <<advance, completed, answered, faulty>>
      BY <1>19, <2>2 DEF UpdateObject, Step
    <3> QED BY <1>1, <1>4, <3>3, <3>4, <3>5 DEF TypeOK
  <2> QED BY <2>1, <2>2
<1>20. CASE Propagate
  BY <1>1, <1>20 DEF Propagate, Step, TypeOK, Sink!DeleteByObjectId
<1>21. CASE EmbedNewChunk
  <2>1. /\ Head(left) \in ChunkIds /\ versions["v4"] # None
        /\ {RuleOf[Head(left)]} \in SUBSET Memories
    BY <1>1, <1>3, <1>21, Heads, Kinds DEF EmbedNewChunk, Turn, Step, UpdateInOrder
  <2>2. /\ Embed(Head(left), "v4") /\ Enter(Head(left), "v4")
        /\ Write({RuleOf[Head(left)]})
    BY <1>21 DEF EmbedNewChunk
  <2> QED
    BY <1>1, <1>4, <1>5, <1>6, <1>7, <1>21, <2>1, <2>2
       DEF EmbedNewChunk, Turn, Step, TypeOK
<1>22. CASE CountOldActions
  <2>1. OldActions(log) \in Nat
    <3>1. IsFiniteSet(DOMAIN log)
      <4>1. PICK n \in Nat : n = Len(log)
        BY <1>1 DEF TypeOK
      <4>2. IsFiniteSet(1..n)
        BY FS_Interval
      <4> QED BY <1>1, <4>1, <4>2 DEF TypeOK
    <3>2. IsFiniteSet({i \in DOMAIN log : log[i] = "v3"})
      BY <3>1, FS_Subset
    <3> QED BY <3>2, FS_CardinalityType DEF OldActions
  <2> QED BY <1>1, <1>22, <2>1 DEF CountOldActions, Step, TypeOK, env
<1>23. CASE EmbedderRaises
  <2>1. CASE UNCHANGED env
    BY <1>1, <1>23, <2>1 DEF EmbedderRaises, Raise, Step, TypeOK, env
  <2>2. CASE Raise("tool") /\ Put("tool") /\ UNCHANGED <<memory, versions, records, log, signals>>
    BY <1>1, <1>3, <2>2 DEF Raise, Step, Put, TypeOK
  <2>3. CASE /\ Raise("embed_new") /\ Embed(Head(left), "v4") /\ Enter(Head(left), "v4")
             /\ UNCHANGED <<memory, blobs, log, signals>>
    <3>1. Head(left) \in ChunkIds /\ versions["v4"] # None
      BY <1>1, <1>3, <2>3, Heads DEF Raise, Step, UpdateInOrder
    <3> QED BY <1>1, <1>4, <1>5, <1>6, <2>3, <3>1 DEF Raise, Step, TypeOK
  <2> QED BY <1>23, <2>1, <2>2, <2>3 DEF EmbedderRaises
<1>24. CASE Prompt
  <2>1. pc = "end" => Scenarios[stage] \in Elements(Scenarios)
    <3>1. DOMAIN Scenarios = 1..4
      BY DEF Scenarios
    <3> QED BY <1>1, <3>1 DEF TypeOK, InItsScenario, Elements
  <2>2. completed \in Seq(Elements(Scenarios))
    BY <1>1 DEF TypeOK
  <2>3. completed' \in Seq(Elements(Scenarios))
    BY <1>24, <2>1, <2>2 DEF Prompt
  <2>4. UNCHANGED <<memory, blobs, versions, records, log, signals, oldCount, faulty>>
    BY <1>24 DEF Prompt, env
  <2> QED BY <1>1, <1>24, <2>3, <2>4 DEF Prompt, TypeOK
<1>25. CASE NextStage \/ OnKey \/ UNCHANGED vars
  BY <1>1, <1>25 DEF NextStage, OnKey, vars, worker, env, TypeOK
<1> HIDE DEF Rest
<1> QED
  BY <1>10, <1>11, <1>12, <1>13, <1>14, <1>15, <1>16, <1>17, <1>18, <1>19, <1>20, <1>21,
     <1>22, <1>23, <1>24, <1>25 DEF Next, Worker

-----------------------------------------------------------------------------
(* The steps that leave both versions alone.                                *)

\* No manual memory, vector or entry changes, and nothing stored is lost.
Quiet ==
  /\ \A m \in Manual : memory'[m] = memory[m]
  /\ versions' = versions /\ records' = records /\ blobs \subseteq blobs'

\* The embedder raises behind the pipeline: the chunk has been embedded.
HalfEmbedded ==
  /\ pc = "embed_new" /\ pc' = "raised" /\ stage' = stage
  /\ Embed(Head(left), "v4") /\ Enter(Head(left), "v4")
  /\ memory' = memory /\ blobs' = blobs

Changes ==
  \/ UploadObject \/ EmbedChunk \/ WriteRule
  \/ UpdateObject /\ versions["v3"] # None
  \/ Propagate \/ EmbedNewChunk \/ HalfEmbedded

UpdatePoints == {"embed_new", "filter", "schedule", "verify"}

\* The update has begun to write version 4, or is over.
Late ==
  \/ pc \in UpdatePoints \cup PointsOf[5]
  \/ stage \in {4, 5} /\ pc \in {"end", "wait", "enter", "raised"}

\* Where the worker goes on such a step.
QuietControl ==
  /\ pc = "upload" <=> pc' = "upload"
  /\ pc' \in {"embed", "rule", "propagate", "embed_new"} => pc' = pc
  /\ pc' \in UpdatePoints => pc \in UpdatePoints
  /\ Late => Late'

\* Every other step is quiet.
LEMMA QuietNext ==
  ASSUME DemoInv, [Next]_vars, ~Changes
  PROVE  Quiet /\ QuietControl
<1>1. /\ TypeOK /\ pc \in Points /\ stage \in 1..5 /\ InItsScenario
      /\ memory \in [Memories -> {"absent", "active", "superseded"}]
  BY DEF DemoInv, TypeOK
<1> USE DEF Step, Quiet, QuietControl, Late, UpdatePoints, PointsOf, InItsScenario
<1>2. CASE Pin \/ Query \/ SignalTop \/ ScheduleTop \/ BeforeInference
  BY <1>1, <1>2 DEF Pin, Query, SignalTop, ScheduleTop, BeforeInference, env
<1>3. CASE HintTool \/ Promote \/ CountOldActions \/ ScheduleNew \/ Verify \/ Entered
  BY <1>1, <1>3 DEF HintTool, Promote, CountOldActions, ScheduleNew, Verify, Entered, env
<1>4. CASE WriteEvent \/ WriteTool
  <2>1. \A m \in Manual : m \in Memories /\ m \notin {"upload", "tool"}
    BY Kinds
  <2> QED BY <1>1, <1>4, <2>1 DEF WriteEvent, WriteTool, Write, Put
<1>5. CASE WriteTurn
  <2>1. \A m \in Manual : m \in Memories /\ m # Head(left)
    BY <1>5, Heads, Kinds DEF WriteTurn, Turn
  <2> QED BY <1>1, <1>5, <2>1 DEF WriteTurn, Write, Turn
<1>6. CASE MoveItem
  <2>1. \A m \in Manual : m \in Memories /\ m # Head(left) /\ m # CopyOf[Head(left)]
    BY <1>6, Heads, Kinds DEF MoveItem
  <2> QED BY <1>1, <1>6, <2>1 DEF MoveItem
<1>7. CASE StoreItem
  BY <1>1, <1>7 DEF StoreItem, Put
<1>8. CASE UpdateObject
  BY <1>1, <1>8 DEF UpdateObject, Raise, Changes, env
<1>9. CASE EmbedderRaises
  <2>1. /\ pc' = "raised" /\ stage' = stage
        /\ pc \in {"embed", "rule", "event", "query", "infer", "move", "embed_new",
                   "verify", "tool"}
    BY <1>9 DEF EmbedderRaises, Raise
  <2>2. Quiet
    BY <1>9, <2>1 DEF EmbedderRaises, Raise, HalfEmbedded, Changes, Put, env
  <2> QED BY <1>1, <2>1, <2>2
<1>10. CASE Prompt \/ OnKey \/ UNCHANGED vars
  BY <1>1, <1>10 DEF Prompt, OnKey, vars, worker, env
<1>11. CASE NextStage
  <2>1. pc' = Starts[stage + 1] /\ pc = "enter" /\ stage' = IF stage = 5 THEN 5 ELSE stage + 1
    BY <1>11 DEF NextStage
  <2>2. /\ pc' \in {"query", "turn", "update", "summary", "exit"}
        /\ stage \in {4, 5} => pc' \in {"summary", "exit"}
    BY <1>1, <2>1 DEF Starts
  <2>3. Quiet
    BY <1>11 DEF NextStage, env
  <2> QED BY <1>1, <2>1, <2>2, <2>3
<1> QED
  BY <1>2, <1>3, <1>4, <1>5, <1>6, <1>7, <1>8, <1>9, <1>10, <1>11
     DEF Next, Worker, Changes

\* The parts of the invariant that are about the two versions.
WorldInv == Uploaded /\ UpdateInOrder /\ OldVersionGone /\ SourceChain

LEMMA QuietKeeps ==
  ASSUME DemoInv, Quiet, QuietControl
  PROVE  WorldInv'
<1>1. Uploaded /\ UpdateInOrder /\ OldVersionGone /\ SourceChain
  BY DEF DemoInv
<1>2. /\ \A m \in Manual : memory'[m] = memory[m]
      /\ versions' = versions /\ blobs \subseteq blobs'
      /\ \A object : Sink!OfObject(object)' = Sink!OfObject(object)
  BY DEF Quiet, Sink!OfObject
<1>3. Outdated' = Outdated
  BY <1>2 DEF Outdated
<1>4. (NewPresent' <=> NewPresent) /\ (OldAbsent' <=> OldAbsent)
  BY <1>2, <1>3 DEF NewPresent, OldAbsent
<1>5. Uploaded'
  BY <1>1, <1>2 DEF Uploaded, QuietControl
<1>6. UpdateInOrder'
  BY <1>1, <1>2, <1>4 DEF UpdateInOrder, QuietControl, Late, UpdatePoints
<1>7. OldVersionGone'
  BY <1>1, <1>4 DEF OldVersionGone
<1>8. SourceChain'
  BY <1>1, <1>2, ObjectsOf DEF SourceChain
<1> QED BY <1>5, <1>6, <1>7, <1>8 DEF WorldInv

-----------------------------------------------------------------------------
(* The steps of the upload and of the update.                               *)

\* A vector is found under its object and under no other.
LEMMA Embedded ==
  ASSUME NEW c \in ChunkIds, NEW o \in Objects, Embed(c, o)
  PROVE  /\ Sink!OfObject(o)' = Sink!OfObject(o) \cup {c}
         /\ \A p \in Objects : p # o => Sink!OfObject(p)' \subseteq Sink!OfObject(p)
<1>1. [object |-> o] # NoRecord /\ [object |-> o].object = o
  BY NoRecordAssumption
<1>2. \A d \in ChunkIds : records'[d] = IF d = c THEN [object |-> o] ELSE records[d]
  BY DEF Embed, Sink!Upsert
<1> QED BY <1>1, <1>2 DEF Sink!OfObject

\* A chunk is entered in the version of its object.
LEMMA InItsVersion ==
  ASSUME TypeOK, NEW c \in ChunkIds, NEW o \in Objects, Enter(c, o), versions[o] # None
  PROVE  /\ versions'[o] # None /\ versions'[o].chunks = versions[o].chunks \cup {c}
         /\ \A p \in Objects : p # o => versions'[p] = versions[p]
<1>1. versions[o] \in Version /\ versions \in [Objects -> Version \cup {None}]
  BY Entries DEF TypeOK
<1>2. [versions[o] EXCEPT !.chunks = @ \cup {c}] \in Version
  BY <1>1 DEF Version
<1>3. versions'[o] = [versions[o] EXCEPT !.chunks = @ \cup {c}]
  BY <1>1 DEF Enter
<1>4. \A p \in Objects : p # o => versions'[p] = versions[p]
  BY <1>1 DEF Enter
<1>5. versions'[o].chunks = versions[o].chunks \cup {c}
  BY <1>1, <1>3 DEF Version
<1> QED BY <1>2, <1>3, <1>4, <1>5, NoneAssumption

LEMMA UploadKeeps ==
  ASSUME DemoInv, UploadObject \/ EmbedChunk \/ WriteRule
  PROVE  WorldInv'
<1>1. /\ Uploaded /\ UpdateInOrder /\ OldVersionGone /\ SourceChain /\ TypeOK
      /\ memory \in [Memories -> {"absent", "active", "superseded"}]
      /\ versions \in [Objects -> Version \cup {None}]
      /\ Objects = {"v3", "v4"}
  BY DEF DemoInv, TypeOK, Objects
<1>2. pc \in {"upload", "embed", "rule"} /\ pc' \in {"embed", "rule", "event"}
  BY DEF UploadObject, EmbedChunk, WriteRule, Turn, Step
<1>3. ~NewPresent
  BY <1>1, <1>2 DEF UpdateInOrder, PointsOf
<1>4. CASE UploadObject
  <2>1. /\ pc = "upload" /\ pc' = "embed" /\ memory' = memory /\ records' = records
        /\ blobs' = blobs \cup {"v3"}
        /\ versions' = [versions EXCEPT !["v3"] = [status |-> "active", chunks |-> {}]]
    BY <1>4 DEF UploadObject, Step, Put
  <2>2. [status |-> "active", chunks |-> {}] \in Version
    BY DEF Version
  <2>3. /\ versions'["v3"] # None /\ versions'["v3"].chunks = {}
        /\ versions'["v4"] = versions["v4"]
    BY <1>1, <2>1, <2>2, NoneAssumption
  <2>4. \A object : Sink!OfObject(object)' = Sink!OfObject(object)
    BY <2>1 DEF Sink!OfObject
  <2>5. ~NewPresent'
    BY <1>3, <2>1, <2>4 DEF NewPresent
  <2>6. Sink!OfObject("v3") = {} /\ \A m \in Manual : memory[m] # "active"
    BY <1>1, <2>1 DEF Uploaded
  <2>7. Uploaded' /\ UpdateInOrder' /\ OldVersionGone'
    BY <2>1, <2>3, <2>5 DEF Uploaded, UpdateInOrder, OldVersionGone
  <2>8. SourceChain'
    BY <1>1, <2>1, <2>3, <2>4, <2>6 DEF SourceChain
  <2> QED BY <2>7, <2>8 DEF WorldInv
<1>5. CASE EmbedChunk
  <2> DEFINE c == Head(left)
  <2>1. /\ pc = "embed" /\ pc' \in {"embed", "rule"} /\ memory' = memory
        /\ blobs' = blobs \cup {c} /\ Embed(c, "v3") /\ Enter(c, "v3")
    BY <1>5 DEF EmbedChunk, Turn, Step, Put
  <2>2. c \in ChunkIds /\ versions["v3"] # None /\ "v3" \in blobs
        /\ versions["v3"].chunks \subseteq Sink!OfObject("v3")
    BY <1>1, <2>1, Heads, Kinds DEF Uploaded
  <2> HIDE DEF c
  <2>3. /\ Sink!OfObject("v3")' = Sink!OfObject("v3") \cup {c}
        /\ Sink!OfObject("v4")' \subseteq Sink!OfObject("v4")
    BY <1>1, <2>1, <2>2, Embedded
  <2>4. /\ versions'["v3"] # None /\ versions'["v3"].chunks = versions["v3"].chunks \cup {c}
        /\ versions'["v4"] = versions["v4"]
    BY <1>1, <2>1, <2>2, InItsVersion
  <2>5. ~NewPresent'
    BY <1>3, <2>1, <2>3 DEF NewPresent
  <2>6. Uploaded' /\ UpdateInOrder' /\ OldVersionGone'
    BY <2>1, <2>2, <2>3, <2>4, <2>5 DEF Uploaded, UpdateInOrder, OldVersionGone
  <2>7. \A m \in Manual : memory[m] = "active" => ObjectOf(m) = "v3"
    BY <1>1, <1>3, ObjectsOf DEF NewPresent
  <2>8. Sink!OfObject("v4") = {}
    BY <1>3 DEF NewPresent
  <2>9. SourceChain'
    BY <1>1, <2>1, <2>2, <2>3, <2>4, <2>7, <2>8 DEF SourceChain
  <2> QED BY <2>6, <2>9 DEF WorldInv
<1>6. CASE WriteRule
  <2> DEFINE m0 == Head(left)
  <2>1. /\ pc = "rule" /\ pc' \in {"rule", "event"} /\ Write({m0})
        /\ blobs' = blobs /\ records' = records /\ versions' = versions
    BY <1>6 DEF WriteRule, Turn, Step
  <2>2. m0 \in Elements(Rules) /\ ObjectOf(m0) = "v3"
    BY <2>1, Heads, ObjectsOf
  <2>3. /\ versions["v3"] # None /\ "v3" \in blobs
        /\ versions["v3"].chunks \subseteq Sink!OfObject("v3")
        /\ versions["v3"].chunks # {}
    BY <1>1, <2>1 DEF Uploaded
  <2> HIDE DEF m0
  <2>4. \A m \in Manual : memory'[m] = memory[m] \/ ObjectOf(m) = "v3"
    BY <2>1, <2>2, Kinds DEF Write
  <2>5. \A object : Sink!OfObject(object)' = Sink!OfObject(object)
    BY <2>1 DEF Sink!OfObject
  <2>6. ~NewPresent'
    BY <1>3, <2>4, <2>5 DEF NewPresent
  <2>7. Uploaded' /\ UpdateInOrder' /\ OldVersionGone'
    BY <2>1, <2>3, <2>5, <2>6 DEF Uploaded, UpdateInOrder, OldVersionGone
  <2>8. SourceChain'
    BY <1>1, <2>1, <2>3, <2>4, <2>5 DEF SourceChain
  <2> QED BY <2>7, <2>8 DEF WorldInv
<1> QED BY <1>4, <1>5, <1>6

LEMMA UpdateKeeps ==
  ASSUME DemoInv,
         \/ UpdateObject /\ versions["v3"] # None
         \/ Propagate \/ EmbedNewChunk \/ HalfEmbedded
  PROVE  WorldInv'
<1>1. /\ Uploaded /\ UpdateInOrder /\ OldVersionGone /\ SourceChain /\ TypeOK
      /\ memory \in [Memories -> {"absent", "active", "superseded"}]
      /\ versions \in [Objects -> Version \cup {None}]
      /\ Objects = {"v3", "v4"} /\ InItsScenario
  BY DEF DemoInv, TypeOK, Objects
<1>2. CASE UpdateObject /\ versions["v3"] # None
  <2>1. /\ pc = "update" /\ pc' = "propagate" /\ memory' = memory /\ records' = records
        /\ blobs' = blobs \cup {"v4"}
        /\ versions' = [versions EXCEPT !["v3"].status = "superseded",
                                        !["v4"] = [status |-> "active", chunks |-> {}]]
    BY <1>2 DEF UpdateObject, Step, Put
  <2>2. versions["v3"] \in Version /\ [status |-> "active", chunks |-> {}] \in Version
    BY <1>1, <1>2, Entries DEF Version
  <2>3. [versions["v3"] EXCEPT !.status = "superseded"] \in Version
    BY <2>2 DEF Version
  <2>4. /\ versions'["v3"] = [versions["v3"] EXCEPT !.status = "superseded"]
        /\ versions'["v4"] = [status |-> "active", chunks |-> {}]
    BY <1>1, <1>2, <2>1
  <2>5. /\ versions'["v3"] # None /\ versions'["v3"].chunks = versions["v3"].chunks
        /\ versions'["v4"] # None /\ versions'["v4"].chunks = {}
    <3>1. versions'["v3"].chunks = versions["v3"].chunks
      BY <2>2, <2>4 DEF Version
    <3> QED BY <2>2, <2>3, <2>4, <3>1, NoneAssumption
  <2>6. \A object : Sink!OfObject(object)' = Sink!OfObject(object)
    BY <2>1 DEF Sink!OfObject
  <2>7. ~NewPresent
    BY <1>1, <2>1 DEF UpdateInOrder, PointsOf
  <2>8. ~NewPresent'
    BY <2>1, <2>6, <2>7 DEF NewPresent
  <2>9. Uploaded' /\ UpdateInOrder' /\ OldVersionGone'
    BY <1>1, <2>1, <2>5, <2>8 DEF Uploaded, UpdateInOrder, OldVersionGone
  <2>10. Sink!OfObject("v4") = {} /\ \A m \in Manual : memory[m] = "active" => ObjectOf(m) = "v3"
    BY <1>1, <2>7, ObjectsOf DEF NewPresent
  <2>11. SourceChain'
    BY <1>1, <1>2, <2>1, <2>5, <2>6, <2>10 DEF SourceChain
  <2> QED BY <2>9, <2>11 DEF WorldInv
<1>3. CASE Propagate
  <2>1. /\ pc = "propagate" /\ pc' = "embed_new" /\ Sink!DeleteByObjectId("v3")
        /\ memory' = [m \in Memories |-> IF m \in Outdated THEN "superseded" ELSE memory[m]]
        /\ blobs' = blobs /\ versions' = versions
    BY <1>3 DEF Propagate, Step
  <2>2. stage' = 4 /\ stage = 4
    BY <1>1, <1>3, <2>1 DEF InItsScenario, PointsOf, Propagate, Step
  <2>3. \A m \in Manual : m \in Memories /\ memory'[m] = IF m \in Outdated THEN "superseded" ELSE memory[m]
    BY <2>1, Kinds
  <2>4. Outdated' = {}
    BY <2>3 DEF Outdated
  <2>5. Sink!OfObject("v3")' = {} /\ Sink!OfObject("v4")' = Sink!OfObject("v4")
    BY <2>1 DEF Sink!OfObject, Sink!DeleteByObjectId
  <2>6. OldAbsent'
    BY <2>4, <2>5 DEF OldAbsent
  <2>7. Uploaded' /\ UpdateInOrder' /\ OldVersionGone'
    BY <1>1, <2>1, <2>2, <2>5, <2>6 DEF Uploaded, UpdateInOrder, OldVersionGone
  <2>8. \A m \in Manual : memory'[m] = "active" => memory[m] = "active" /\ ObjectOf(m) = "v4"
    <3>1. \A m \in Manual : memory'[m] = "active" => memory[m] = "active" /\ ObjectOf(m) # "v3"
      BY <2>3 DEF Outdated
    <3> QED BY <1>1, <3>1, ObjectsOf
  <2>9. SourceChain'
    BY <1>1, <2>1, <2>5, <2>8 DEF SourceChain
  <2> QED BY <2>7, <2>9 DEF WorldInv
<1>4. CASE EmbedNewChunk \/ HalfEmbedded
  <2> DEFINE c == Head(left)
  <2>1. /\ pc = "embed_new" /\ pc' \in {"embed_new", "filter", "raised"} /\ blobs' = blobs
        /\ Embed(c, "v4") /\ Enter(c, "v4")
        /\ memory' = memory \/ Write({RuleOf[c]})
        /\ stage' = stage
    BY <1>4 DEF EmbedNewChunk, HalfEmbedded, Turn, Step
  <2>2. /\ c \in ChunkIds /\ RuleOf[c] \in Elements(NewRules) /\ versions["v4"] # None
        /\ "v4" \in blobs /\ versions["v4"].chunks \subseteq Sink!OfObject("v4")
        /\ OldAbsent /\ versions["v3"] # None /\ "v3" \in blobs /\ stage = 4
    BY <1>1, <2>1, Heads, Kinds DEF UpdateInOrder, Uploaded, InItsScenario, PointsOf
  <2> HIDE DEF c
  <2>3. /\ Sink!OfObject("v4")' = Sink!OfObject("v4") \cup {c}
        /\ Sink!OfObject("v3")' \subseteq Sink!OfObject("v3")
    BY <1>1, <2>1, <2>2, Embedded
  <2>4. /\ versions'["v4"] # None /\ versions'["v4"].chunks = versions["v4"].chunks \cup {c}
        /\ versions'["v3"] = versions["v3"]
    BY <1>1, <2>1, <2>2, InItsVersion
  <2>5. \A m \in Manual : memory'[m] = memory[m] \/ ObjectOf(m) = "v4"
    BY <2>1, <2>2, Kinds, ObjectsOf DEF Write
  <2>6. OldAbsent'
    <3>1. Outdated' = {}
      BY <2>2, <2>5 DEF OldAbsent, Outdated
    <3> QED BY <2>2, <2>3, <3>1 DEF OldAbsent
  <2>7. Uploaded' /\ UpdateInOrder' /\ OldVersionGone'
    BY <1>1, <2>1, <2>2, <2>3, <2>4, <2>6 DEF Uploaded, UpdateInOrder, OldVersionGone
  <2>8. \A m \in Manual : memory'[m] = "active" => ObjectOf(m) = "v4"
    BY <1>1, <2>6, ObjectsOf DEF OldAbsent, Outdated
  <2>9. SourceChain'
    BY <1>1, <2>1, <2>2, <2>3, <2>4, <2>6, <2>8 DEF SourceChain, OldAbsent
  <2> QED BY <2>7, <2>9 DEF WorldInv
<1> QED BY <1>2, <1>3, <1>4

-----------------------------------------------------------------------------
(* The demo's own checks.                                                   *)

\* An entry for another object leaves the count alone.
LEMMA CountNext ==
  ASSUME DemoInv, ScheduleNew
  PROVE  OldActions(log') = OldActions(log)
<1>1. log \in Seq(Objects \cup Memories)
  BY DEF DemoInv, TypeOK
<1>2. Scheduled("new1") = "v4"
  <2>1. "new1" \in Elements(NewRules)
    BY Names
  <2> QED BY <2>1, ObjectsOf, NoneAssumption DEF Scheduled, Objects
<1>3. log' = Append(log, "v4")
  BY <1>2 DEF ScheduleNew, Schedule
<1>4. /\ DOMAIN log' = DOMAIN log \cup {Len(log) + 1}
      /\ log'[Len(log) + 1] = "v4" /\ \A i \in DOMAIN log : log'[i] = log[i]
  BY <1>1, <1>3
<1>5. {i \in DOMAIN log' : log'[i] = "v3"} = {i \in DOMAIN log : log[i] = "v3"}
  BY <1>4
<1> QED BY <1>5 DEF OldActions

LEMMA ChecksNext ==
  ASSUME DemoInv, [Next]_vars
  PROVE  CountKept' /\ IsolationHolds'
<1>1. CountKept /\ IsolationHolds /\ Uploaded /\ UpdateInOrder
  BY DEF DemoInv
<1>2. CASE UpdateObject
  <2>1. versions["v3"] # None
    BY <1>1, <1>2 DEF UpdateObject, Raise, Step, Uploaded
  <2> QED BY <1>2, <2>1 DEF UpdateObject, Step, CountKept, IsolationHolds
<1>3. CASE ScheduleNew
  <2>1. OldActions(log') = oldCount
    BY <1>1, <1>3, CountNext DEF ScheduleNew, Step, CountKept
  <2> QED BY <1>3, <2>1 DEF ScheduleNew, Step, CountKept, IsolationHolds
<1>4. CASE Verify
  <2>1. Outdated = {}
    BY <1>1, <1>4 DEF Verify, Step, UpdateInOrder, OldAbsent
  <2>2. \A pack \in SUBSET Recallable(Manual) : ~ \E m \in pack : ObjectOf(m) = "v3"
    BY <2>1 DEF Recallable, Outdated
  <2> QED BY <1>4, <2>2 DEF Verify, Step, CountKept, IsolationHolds
<1>5. IsolationHolds' \/ pc \in {"update", "schedule", "verify"}
  BY ScenarioNext
<1>6. CASE CountOldActions
  BY <1>5, <1>6 DEF CountOldActions, Step, CountKept, env, IsolationHolds
<1>7. CASE EmbedderRaises
  BY <1>7 DEF EmbedderRaises, Raise, Step, CountKept, IsolationHolds
<1>8. CASE OnKey \/ UNCHANGED vars
  BY <1>1, <1>8 DEF OnKey, vars, worker, env, CountKept, IsolationHolds
<1>9. CASE \/ UploadObject \/ EmbedChunk \/ WriteRule \/ WriteEvent \/ Pin
           \/ Query \/ SignalTop \/ ScheduleTop \/ BeforeInference
  BY <1>9 DEF UploadObject, EmbedChunk, WriteRule, WriteEvent, Pin, Query, SignalTop,
              ScheduleTop, BeforeInference, Turn, Step, CountKept, IsolationHolds
<1>10. CASE \/ WriteTurn \/ WriteTool \/ StoreItem \/ MoveItem \/ HintTool \/ Promote
            \/ Propagate \/ EmbedNewChunk \/ Prompt \/ Entered
  BY <1>10 DEF WriteTurn, WriteTool, StoreItem, MoveItem, HintTool, Promote, Propagate,
               EmbedNewChunk, Prompt, Entered, Turn, Step, CountKept, IsolationHolds
<1>11. CASE NextStage
  <2>1. pc' \in {"query", "turn", "update", "summary", "exit"}
    <3>1. stage \in 1..5
      BY DEF DemoInv, TypeOK
    <3> QED BY <1>11, <3>1 DEF NextStage, Starts
  <2> QED BY <2>1 DEF CountKept, IsolationHolds
<1> QED
  BY <1>2, <1>3, <1>4, <1>6, <1>7, <1>8, <1>9, <1>10, <1>11 DEF Next, Worker

-----------------------------------------------------------------------------
(* The theorems.                                                            *)

\* The inductive invariant: where the worker is tells what of the two versions
\* is stored, entered and found.
THEOREM DemoInvariance == Spec => []DemoInv
<1>1. ASSUME DemoInv, [Next]_vars PROVE DemoInv'
  <2>1. /\ TypeOK' /\ InItsScenario' /\ LocalsOK' /\ CountKept' /\ PromptOK'
        /\ IsolationHolds'
    BY <1>1, TypeNext, ScenarioNext, LocalsNext, ChecksNext
  <2>2. WorldInv'
    <3>1. CASE Changes
      BY <1>1, <3>1, UploadKeeps, UpdateKeeps DEF Changes
    <3>2. CASE ~Changes
      BY <1>1, <3>2, QuietNext, QuietKeeps
    <3> QED BY <3>1, <3>2
  <2> QED BY <2>1, <2>2 DEF DemoInv, WorldInv
<1> QED
  BY InitOK, <1>1, PTL DEF Spec

\* The values stay those the demo uses.
THEOREM TypeCorrect == Spec => []TypeOK
  BY DemoInvariance, PTL DEF DemoInv

\* The versions are never mixed, at no suspension of the update and after no
\* exception in its midst (tui_app.py, scenario_4).
THEOREM VersionsNeverMix == Spec => []OldVersionGone
  BY DemoInvariance, PTL DEF DemoInv

\* What an ACTIVE manual memory was distilled from is stored, entered and has
\* all its vectors (tui_app.py, scenario_1 and scenario_4).
THEOREM SourceChainKept == Spec => []SourceChain
  BY DemoInvariance, PTL DEF DemoInv

\* With an embedder that answers no check of the demo fires.
THEOREM ChecksNeverFire == Spec => []IsolationHolds
  BY DemoInvariance, PTL DEF DemoInv

\* A memory that is not a manual one is only ever written or moved.
LEMMA TurnsNext ==
  ASSUME DemoInv, [Next]_vars, NEW t \in Elements(Turns), Kept(t)
  PROVE  Kept(t)'
<1>1. /\ memory \in [Memories -> {"absent", "active", "superseded"}]
      /\ t \in Memories /\ t \notin Manual
      /\ CopyOf[t] \in Memories /\ CopyOf[t] \notin Manual /\ CopyOf[t] \notin Elements(Turns)
  BY Kinds DEF DemoInv, TypeOK
<1>2. \A ms : Write(ms) => Kept(t)'
  BY <1>1 DEF Write, Kept
<1>3. CASE WriteRule \/ WriteEvent \/ WriteTurn \/ WriteTool \/ EmbedNewChunk
  BY <1>2, <1>3 DEF WriteRule, WriteEvent, WriteTurn, WriteTool, EmbedNewChunk
<1>4. CASE MoveItem
  <2> DEFINE h == Head(left)
  <2>1. /\ h \in Elements(Turns) /\ CopyOf[h] \in Memories /\ h \in Memories
        /\ CopyOf[h] \notin Elements(Turns)
    BY <1>4, Heads, Kinds DEF MoveItem, Step
  <2>2. memory' = [memory EXCEPT ![CopyOf[h]] = "active", ![h] = "absent"]
    BY <1>4 DEF MoveItem
  <2> HIDE DEF h
  <2>3. CASE t = h
    BY <1>1, <2>1, <2>2, <2>3 DEF Kept
  <2>4. CASE t # h
    BY <1>1, <2>1, <2>2, <2>4 DEF Kept
  <2> QED BY <2>3, <2>4
<1>5. CASE Propagate
  BY <1>1, <1>5 DEF Propagate, Outdated, Kept
<1>6. CASE UNCHANGED memory
  BY <1>6 DEF Kept
<1>7. \/ WriteRule \/ WriteEvent \/ WriteTurn \/ WriteTool \/ EmbedNewChunk
      \/ MoveItem \/ Propagate \/ UNCHANGED memory
  BY DEF Next, Worker, UploadObject, EmbedChunk, Pin, Query, SignalTop, ScheduleTop,
         BeforeInference, StoreItem, HintTool, Promote, UpdateObject, CountOldActions,
         ScheduleNew, Verify, EmbedderRaises, Prompt, Entered, NextStage, OnKey, vars, env
<1> QED BY <1>3, <1>4, <1>5, <1>6, <1>7

\* The archival of the session loses no turn, whatever raises (tui_app.py,
\* scenario_3 writes the copy before it deletes the item).
THEOREM NoTurnIsLost == Spec => TurnsKept
<1>1. DemoInv /\ [Next]_vars
        => [\A t \in Elements(Turns) : Kept(t) => Kept(t)']_vars
  BY TurnsNext
<1> QED BY DemoInvariance, <1>1, PTL DEF Spec, TurnsKept

\* No scenario begins before it was asked for: wait_for_enter clears the event
\* when it shows its prompt.
THEOREM EnterIsAwaited == Spec => StagesNeedEnter
<1>1. DemoInv /\ [Next]_vars => [pc = "wait" /\ pc' # "wait" => answered]_vars
  <2> SUFFICES ASSUME DemoInv, [Next]_vars, pc = "wait", pc' # "wait" PROVE answered
    OBVIOUS
  <2>1. Entered
    BY DEF Next, Worker, UploadObject, EmbedChunk, WriteRule, WriteEvent, Pin, Query,
           SignalTop, ScheduleTop, BeforeInference, WriteTurn, WriteTool, StoreItem,
           MoveItem, HintTool, Promote, UpdateObject, Propagate, EmbedNewChunk,
           CountOldActions, ScheduleNew, Verify, EmbedderRaises, Raise, Turn, Step,
           Prompt, NextStage, OnKey, vars
  <2> QED BY <2>1 DEF Entered, DemoInv, PromptOK
<1> QED BY DemoInvariance, <1>1, PTL DEF Spec, StagesNeedEnter
=============================================================================
