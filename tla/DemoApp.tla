------------------------------- MODULE DemoApp -------------------------------
(***************************************************************************)
(* The terminal demo (examples/minimal_loop): one worker runs the four     *)
(* scenarios over one DemoEnv, the key handler sets the event the worker   *)
(* waits for.  Both run on one event loop; the worker suspends where it    *)
(* pauses (_step), where it waits for Enter and in the sleep after that.   *)
(* One action is what the worker does between two suspensions; pauses that *)
(* separate output only are left out.                                      *)
(***************************************************************************)
EXTENDS Naturals, Sequences, FiniteSets

CONSTANTS Faults,   \* whether the embedder may raise: a set of Booleans
          NoRecord, \* the value of a chunk id without a vector
          None      \* an object or memory that is not there

VARIABLES pc,       \* what the worker does next
          stage,    \* the scenario it is in, 5 for the summary
          left,     \* the rest of the list its loop runs over
          top,      \* the best episodic hit of scenario 2
          advance,  \* the event that Enter sets
          faulty,   \* whether the embedder of this DemoEnv may raise
          memory,   \* the three managers: memory -> its state, or "absent"
          blobs,    \* the keys in the storage client
          versions, \* object_versions: object -> its entry, or None
          records,  \* the vector sink
          log,      \* the objects in the scheduler's action log
          oldCount, \* old_action_count
          signals,  \* what the emitter recorded
          completed,\* completed_scenarios
          answered  \* history: Enter was pressed at the prompt being shown

worker == <<stage, left, top, oldCount, completed, answered, faulty>>
env == <<memory, blobs, versions, records, log, signals>>
vars == <<pc, advance, worker, env>>

ASSUME FaultsAssumption == Faults \subseteq BOOLEAN

Rules == <<"rule1", "rule2">>          \* semantic memories of version 3
NewRules == <<"new1", "new2">>         \* semantic memories of version 4
Turns == <<"turn1", "turn2">>          \* working memories of scenario 3
CopyOf == [turn1 |-> "copy1", turn2 |-> "copy2"]  \* and their episodic copies
OldChunks == <<"chunk31", "chunk32", "chunk33">>
NewChunks == <<"chunk41", "chunk42">>
RuleOf == [chunk41 |-> "new1", chunk42 |-> "new2"]  \* the memory of a new chunk

Elements(s) == {s[i] : i \in DOMAIN s}

Objects == {"v3", "v4"}
Manual == Elements(Rules) \cup Elements(NewRules)
Episodic == {"upload", "tool", "copy1", "copy2"}
Memories == Manual \cup Episodic \cup Elements(Turns)
ChunkIds == Elements(OldChunks) \cup Elements(NewChunks)

\* Memory.object_id.
ObjectOf(m) ==
  CASE m \in Elements(Rules)    -> "v3"
    [] m \in Elements(NewRules) -> "v4"
    [] OTHER                    -> None

Sink == INSTANCE VectorSink
          WITH ChunkIds <- ChunkIds, NoRecord <- NoRecord, records <- records

ASSUME NoRecordAssumption == NoRecord \notin [object : Objects]

Version == [status : {"active", "superseded"}, chunks : SUBSET ChunkIds]

ASSUME NoneAssumption == None \notin Objects \cup Memories /\ None \notin Version

Starts == <<"upload", "query", "turn", "update", "summary", "exit">>
Scenarios == <<"document_upload", "user_query", "memory_maintenance", "object_update">>

Points == Elements(Starts) \cup
  {"embed", "rule", "event", "pin", "signal", "access", "infer", "tool", "list",
   "archive", "move", "hint", "promote", "propagate", "embed_new", "filter", "schedule",
   "verify", "end", "wait", "enter", "raised"}

TypeOK ==
  /\ pc \in Points
  /\ stage \in 1..5
  /\ left \in Seq(ChunkIds \cup Memories)
  /\ top \in Memories \cup {None}
  /\ advance \in BOOLEAN /\ answered \in BOOLEAN /\ faulty \in BOOLEAN
  /\ memory \in [Memories -> {"absent", "active", "superseded"}]
  /\ blobs \subseteq Objects \cup ChunkIds \cup Memories
  /\ versions \in [Objects -> Version \cup {None}]
  /\ records \in [ChunkIds -> [object : Objects] \cup {NoRecord}]
  /\ log \in Seq(Objects \cup Memories)
  /\ oldCount \in Nat
  /\ signals \subseteq {"access", "promotion_hint"} \X Memories
  /\ completed \in Seq(Elements(Scenarios))

Init ==
  /\ pc = "upload" /\ stage = 1 /\ left = <<>> /\ top = None /\ oldCount = 0
  /\ advance = FALSE /\ answered = FALSE /\ faulty \in Faults
  /\ memory = [m \in Memories |-> "absent"]
  /\ blobs = {}
  /\ versions = [o \in Objects |-> None]
  /\ records = Sink!Empty
  /\ log = <<>> /\ signals = {} /\ completed = <<>>

-----------------------------------------------------------------------------
(* What the scenarios call.                                                 *)

Step(from, to) ==
  /\ pc = from /\ pc' = to
  /\ UNCHANGED <<stage, advance, completed, answered, faulty>>

\* The turn of a loop over `left' at the point `here'; the point `next'
\* follows the last turn and `list' is what the next loop runs over.
Turn(here, next, list) ==
  /\ Step(here, IF Len(left) = 1 THEN next ELSE here)
  /\ left' = IF Len(left) = 1 THEN list ELSE Tail(left)

\* An exception ends the worker: run_scenario reports it and raises it again.
Raise(from) == Step(from, "raised") /\ UNCHANGED <<left, top, oldCount>>

Write(ms) ==
  memory' = [m \in Memories |-> IF m \in ms THEN "active" ELSE memory[m]]

Put(key) == blobs' = blobs \cup {key}

\* process() of a one-chunk text, with an explicit chunk id.
Embed(chunk, object) == Sink!Upsert([c \in {chunk} |-> [object |-> object]])

\* Mutant: the chunk is not entered in its object's version.
MutantEnter(chunk, object) == versions' = versions

Enter(chunk, object) ==
  versions' = [versions EXCEPT ![object].chunks = @ \cup {chunk}]

Emit(type, ms) == signals' = signals \cup ({type} \X ms)

\* Mutant: the object id of a memory that has none.
MutantScheduled(m) == ObjectOf(m)

Scheduled(m) == IF ObjectOf(m) # None THEN ObjectOf(m) ELSE m

\* schedule_memory(): one object, and so one entry in the action log.
Schedule(m) == log' = Append(log, Scheduled(m))

OldActions(entries) == Cardinality({i \in DOMAIN entries : entries[i] = "v3"})

\* Mutant: recall() does not look at the state.
MutantRecallable(ms) == {m \in ms : memory[m] # "absent"}

\* What recall() accepts: none of these memories is ever archived.
Recallable(ms) == {m \in ms : memory[m] = "active"}

-----------------------------------------------------------------------------
(* Scenario 1: the upload of version 3.                                     *)

UploadObject ==
  /\ Step("upload", "embed")
  /\ left' = OldChunks
  /\ Put("v3")
  /\ versions' = [versions EXCEPT !["v3"] = [status |-> "active", chunks |-> {}]]
  /\ UNCHANGED <<top, oldCount, memory, records, log, signals>>

\* Mutant: the loop stays at its first chunk.
MutantEmbedChunk ==
  /\ Step("embed", "embed")
  /\ Embed(Head(left), "v3")
  /\ Enter(Head(left), "v3")
  /\ Put(Head(left))
  /\ UNCHANGED <<left, top, oldCount, memory, log, signals>>

EmbedChunk ==
  /\ Turn("embed", "rule", Rules)
  /\ Embed(Head(left), "v3")
  /\ Enter(Head(left), "v3")
  /\ Put(Head(left))
  /\ UNCHANGED <<top, oldCount, memory, log, signals>>

WriteRule ==
  /\ Turn("rule", "event", <<>>)
  /\ Write({Head(left)})
  /\ UNCHANGED <<top, oldCount, blobs, versions, records, log, signals>>

WriteEvent ==
  /\ Step("event", "pin")
  /\ Write({"upload"})
  /\ UNCHANGED <<left, top, oldCount, blobs, versions, records, log, signals>>

Pin ==
  /\ Step("pin", "end")
  /\ Schedule("rule1")
  /\ UNCHANGED <<left, top, oldCount, memory, blobs, versions, records, signals>>

-----------------------------------------------------------------------------
(* Scenario 2: a query.                                                     *)

\* The joint recall; any hit may score best.
Query ==
  /\ \/ /\ Recallable(Episodic) = {}
        /\ Step("query", "infer")
        /\ UNCHANGED top
     \/ /\ Step("query", "signal")
        /\ top' \in Recallable(Episodic)
  /\ UNCHANGED <<left, oldCount, env>>

SignalTop ==
  /\ Step("signal", "access")
  /\ Emit("access", {top})
  /\ UNCHANGED <<left, top, oldCount, memory, blobs, versions, records, log>>

ScheduleTop ==
  /\ Step("access", "infer")
  /\ Schedule(top)
  /\ UNCHANGED <<left, top, oldCount, memory, blobs, versions, records, signals>>

\* before_inference(): the builder's pack, each memory of it accessed.
BeforeInference ==
  /\ Step("infer", "end")
  /\ \E pack \in SUBSET Recallable(Episodic \cup Manual) : Emit("access", pack)
  /\ UNCHANGED <<left, top, oldCount, memory, blobs, versions, records, log>>

-----------------------------------------------------------------------------
(* Scenario 3: a session is kept, archived and forgotten.                   *)

WriteTurn ==
  /\ Turn("turn", "tool", <<>>)
  /\ Write({Head(left)})
  /\ UNCHANGED <<top, oldCount, blobs, versions, records, log, signals>>

WriteTool ==
  /\ Step("tool", "list")
  /\ Put("tool")
  /\ Write({"tool"})
  /\ UNCHANGED <<left, top, oldCount, versions, records, log, signals>>

\* What query() returns of the session: the turns in working memory, in order.
Session ==
  CHOOSE items \in {<<>>, <<"turn1">>, <<"turn2">>, Turns} :
    Elements(items) = {t \in Elements(Turns) : memory[t] # "absent"}

\* Mutant: the item leaves working memory before it is copied.
MutantStoreItem ==
  LET items == IF pc = "list" THEN Session ELSE left IN
  /\ Step(IF pc = "list" THEN "list" ELSE "archive", "move")
  /\ left' = items
  /\ Put(Head(items))
  /\ memory' = [memory EXCEPT ![Head(items)] = "absent"]
  /\ UNCHANGED <<top, oldCount, versions, records, log, signals>>

\* The session is queried when the loop begins; then the put of the next item.
StoreItem ==
  LET items == IF pc = "list" THEN Session ELSE left IN
  /\ pc \in {"list", "archive"}
  /\ IF items = <<>>
       THEN Step(pc, "hint") /\ UNCHANGED blobs
       ELSE Step(pc, "move") /\ Put(Head(items))
  /\ left' = items
  /\ UNCHANGED <<top, oldCount, memory, versions, records, log, signals>>

\* The copy is written, then the item deleted, with no suspension between.
MoveItem ==
  /\ Step("move", "archive")
  /\ memory' = [memory EXCEPT ![CopyOf[Head(left)]] = "active", ![Head(left)] = "absent"]
  /\ left' = Tail(left)
  /\ UNCHANGED <<top, oldCount, blobs, versions, records, log, signals>>

HintTool ==
  /\ Step("hint", "promote")
  /\ Emit("promotion_hint", {"tool"})
  /\ UNCHANGED <<left, top, oldCount, memory, blobs, versions, records, log>>

Promote ==
  /\ Step("promote", "end")
  /\ Schedule("tool")
  /\ UNCHANGED <<left, top, oldCount, memory, blobs, versions, records, signals>>
-----------------------------------------------------------------------------
(* Scenario 4: version 4 replaces version 3.                                *)

UpdateObject ==
  IF versions["v3"] = None THEN Raise("update") /\ UNCHANGED env
  ELSE /\ Step("update", "propagate")
       /\ Put("v4")
       /\ versions' = [versions EXCEPT
            !["v3"].status = "superseded",
            !["v4"] = [status |-> "active", chunks |-> {}]]
       /\ UNCHANGED <<left, top, oldCount, memory, records, log, signals>>

\* What the query of scenario 4 returns and its loop does not pass over.
Outdated == {m \in Manual : memory[m] = "active" /\ ObjectOf(m) = "v3"}

\* Mutant: the vectors of the old version stay in the sink.
MutantPropagate ==
  /\ Step("propagate", "embed_new")
  /\ memory' = [m \in Memories |-> IF m \in Outdated THEN "superseded" ELSE memory[m]]
  /\ left' = NewChunks
  /\ UNCHANGED <<top, oldCount, blobs, versions, records, log, signals>>

\* The memories first, then the vectors, with no suspension between.
Propagate ==
  /\ Step("propagate", "embed_new")
  /\ memory' = [m \in Memories |-> IF m \in Outdated THEN "superseded" ELSE memory[m]]
  /\ Sink!DeleteByObjectId("v3")
  /\ left' = NewChunks
  /\ UNCHANGED <<top, oldCount, blobs, versions, log, signals>>

EmbedNewChunk ==
  /\ Turn("embed_new", "filter", <<>>)
  /\ Embed(Head(left), "v4")
  /\ Enter(Head(left), "v4")
  /\ Write({RuleOf[Head(left)]})
  /\ UNCHANGED <<top, oldCount, blobs, log, signals>>

CountOldActions ==
  /\ Step("filter", "schedule")
  /\ oldCount' = OldActions(log)
  /\ UNCHANGED <<left, top, env>>

ScheduleNew ==
  /\ Schedule("new1")
  /\ Step("schedule", IF OldActions(log') = oldCount THEN "verify" ELSE "raised")
  /\ UNCHANGED <<left, top, oldCount, memory, blobs, versions, records, signals>>

\* before_inference() once more, and the check of its pack.
Verify ==
  /\ \E pack \in SUBSET Recallable(Manual) :
       /\ Emit("access", pack)
       /\ Step("verify", IF \E m \in pack : ObjectOf(m) = "v3" THEN "raised" ELSE "end")
  /\ UNCHANGED <<left, top, oldCount, memory, blobs, versions, records, log>>

-----------------------------------------------------------------------------
(* An embedder that raises, in the pipeline (which returns no records), in a *)
(* write or in a recall.  What the worker did since its last suspension      *)
(* stays done.                                                               *)

EmbedderRaises ==
  /\ faulty
  /\ \/ /\ \E point \in {"embed", "rule", "event", "query", "infer", "move",
                         "embed_new", "verify"} : Raise(point)
        /\ UNCHANGED env
     \/ /\ Raise("tool")
        /\ Put("tool")
        /\ UNCHANGED <<memory, versions, records, log, signals>>
     \/ /\ Raise("embed_new")
        /\ Embed(Head(left), "v4")
        /\ Enter(Head(left), "v4")
        /\ UNCHANGED <<memory, blobs, log, signals>>

-----------------------------------------------------------------------------
(* The prompts.                                                             *)

\* Mutant: wait_for_enter() does not clear the event.
MutantPrompt ==
  /\ pc \in {"end", "summary"} /\ pc' = "wait"
  /\ completed' = IF pc = "end" THEN Append(completed, Scenarios[stage]) ELSE completed
  /\ answered' = FALSE
  /\ UNCHANGED <<advance, stage, left, top, oldCount, faulty, env>>

\* A scenario ends, or the summary: the prompt is shown and the event cleared.
Prompt ==
  /\ pc \in {"end", "summary"} /\ pc' = "wait"
  /\ completed' = IF pc = "end" THEN Append(completed, Scenarios[stage]) ELSE completed
  /\ advance' = FALSE
  /\ answered' = FALSE
  /\ UNCHANGED <<stage, left, top, oldCount, faulty, env>>

\* The event is set; the worker sleeps once more before it goes on.
Entered == Step("wait", "enter") /\ advance /\ UNCHANGED <<left, top, oldCount, env>>

NextStage ==
  /\ pc = "enter" /\ pc' = Starts[stage + 1]
  /\ stage' = IF stage = 5 THEN 5 ELSE stage + 1
  /\ left' = IF stage = 2 THEN Turns ELSE <<>>
  /\ UNCHANGED <<advance, top, oldCount, completed, answered, faulty, env>>

\* on_key() of Enter or space, at any suspension of the worker.
OnKey ==
  /\ pc \notin {"exit", "raised"}
  /\ advance' = TRUE
  /\ answered' = (answered \/ pc = "wait")
  /\ UNCHANGED <<pc, stage, left, top, oldCount, completed, faulty, env>>

Worker ==
  \/ UploadObject \/ EmbedChunk \/ WriteRule \/ WriteEvent \/ Pin
  \/ Query \/ SignalTop \/ ScheduleTop \/ BeforeInference
  \/ WriteTurn \/ WriteTool \/ StoreItem \/ MoveItem \/ HintTool \/ Promote
  \/ UpdateObject \/ Propagate \/ EmbedNewChunk
  \/ CountOldActions \/ ScheduleNew \/ Verify
  \/ EmbedderRaises
  \/ Prompt \/ Entered \/ NextStage

Next == Worker \/ OnKey

Spec == Init /\ [][Next]_vars

\* The event loop resumes the worker, and a user who sees a prompt answers it.
FairSpec == Spec /\ WF_vars(Worker) /\ WF_vars(pc = "wait" /\ OnKey)

-----------------------------------------------------------------------------
(* Properties.                                                              *)

NewPresent ==
  (\E m \in Manual : ObjectOf(m) = "v4" /\ memory[m] = "active") \/ Sink!OfObject("v4") # {}

OldAbsent == Outdated = {} /\ Sink!OfObject("v3") = {}

\* The versions are never mixed: once anything of version 4 can be recalled or
\* found, nothing of version 3 can, at no suspension of the update and after no
\* exception in its midst.
OldVersionGone == NewPresent => OldAbsent

\* The source chain of the upload: what an ACTIVE manual memory was distilled
\* from is stored, has its entry, and has the vectors of all its chunks; and
\* the sink has no vector that its version does not name.
SourceChain ==
  /\ \A m \in Manual : memory[m] = "active" =>
       LET object == ObjectOf(m) IN
       /\ object \in blobs /\ versions[object] # None
       /\ versions[object].chunks # {}
       /\ versions[object].chunks \subseteq Sink!OfObject(object)
  /\ \A object \in Objects : versions[object] # None =>
       Sink!OfObject(object) \subseteq versions[object].chunks

\* The archival of the session loses no turn: a dialogue turn that was written
\* is a working memory or has its episodic copy, never neither, whatever raises.
Kept(t) == memory[t] = "active" \/ memory[CopyOf[t]] = "active"

TurnsKept == [][\A t \in Elements(Turns) : Kept(t) => Kept(t)']_vars

\* The demo's own checks of the isolation of version 3 never fire: with an
\* embedder that answers no scenario raises.
IsolationHolds == pc = "raised" => faulty

\* Each scenario has been asked for: an Enter pressed before the prompt, or a
\* second one, skips nothing.
StagesNeedEnter == [][pc = "wait" /\ pc' # "wait" => answered]_vars

\* A user who answers the prompts sees the end of the demo.
DemoEnds == <>(pc \in {"exit", "raised"})

-----------------------------------------------------------------------------
(* The inductive invariant of the four (proved in DemoAppProofs).           *)

\* What the worker can do next in each scenario, and in the summary.
PointsOf ==
  <<{"upload", "embed", "rule", "event", "pin"},
    {"query", "signal", "access", "infer"},
    {"turn", "tool", "list", "archive", "move", "hint", "promote"},
    {"update", "propagate", "embed_new", "filter", "schedule", "verify"},
    {"summary", "exit"}>>

InItsScenario ==
  /\ \A n \in 1..5 : pc \in PointsOf[n] => stage = n
  /\ pc = "end" => stage # 5

\* A loop has a turn left, of its own list, and a hit was found where it is used.
LocalsOK ==
  LET Over(elements) == left # <<>> /\ left \in Seq(elements) IN
  /\ pc = "embed" => Over(Elements(OldChunks))
  /\ pc = "rule" => Over(Elements(Rules))
  /\ pc \in {"turn", "move"} => Over(Elements(Turns))
  /\ pc = "archive" => left \in Seq(Elements(Turns))
  /\ pc = "embed_new" => Over(Elements(NewChunks))
  /\ pc \in {"signal", "access"} => top \in Memories

\* What the upload has made once it is over.
Uploaded ==
  /\ pc = "upload" => /\ \A m \in Manual : memory[m] # "active"
                      /\ Sink!OfObject("v3") = {}
  /\ pc # "upload" => versions["v3"] # None /\ "v3" \in blobs
  /\ pc \in {"embed", "rule"} => versions["v3"].chunks \subseteq Sink!OfObject("v3")
  /\ pc = "rule" => versions["v3"].chunks # {}

\* Nothing of version 4 is there before the update has removed version 3.
UpdateInOrder ==
  /\ NewPresent => \/ pc \in {"embed_new", "filter", "schedule", "verify"} \cup PointsOf[5]
                   \/ stage \in {4, 5} /\ pc \in {"end", "wait", "enter", "raised"}
  /\ pc \in {"embed_new", "filter", "schedule", "verify"} => OldAbsent
  /\ pc \in {"propagate", "embed_new"} =>
       /\ versions["v4"] # None /\ "v4" \in blobs
       /\ versions["v4"].chunks \subseteq Sink!OfObject("v4")

CountKept == pc = "schedule" => oldCount = OldActions(log)

PromptOK == pc = "wait" /\ advance => answered

DemoInv ==
  /\ TypeOK /\ InItsScenario /\ LocalsOK
  /\ Uploaded /\ UpdateInOrder /\ CountKept /\ PromptOK
  /\ OldVersionGone /\ SourceChain /\ IsolationHolds
=============================================================================
