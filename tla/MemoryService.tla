--------------------------- MODULE MemoryService ---------------------------
(***************************************************************************)
(* MemoryService (b2/service.py) composed with its three managers, the     *)
(* pack builder and the callers that get, update, delete and expire        *)
(* memories directly.  Each call of a store is one atomic step; between    *)
(* two of them other tasks run (see MemoryManager, whose operations are    *)
(* used here).                                                             *)
(*                                                                         *)
(* A row is split in two: `born', what it was created with and no          *)
(* operation changes, and `state', its lifecycle state.  Deadlines, access *)
(* counts and time stamps are MemoryManager's subject and left out.        *)
(***************************************************************************)
EXTENDS Naturals, FiniteSets, Sequences, Lifecycle

CONSTANTS Ids,           \* the identifiers uuid4 can draw
          Sessions,
          Tasks,         \* the asyncio tasks that call the service
          Unborn,        \* the descriptor of an id that was never inserted
          None,          \* archived_from of a memory that is no archive copy
          SharedStore,   \* whether the three managers share one store
          Overlap,       \* whether the calls of different tasks interleave
          RecallOrder,   \* ContextRequest.memory_types
          QueryLimit,    \* the limit of query()
          CallerTargets, \* the states callers pass to update_state
          Budgets        \* bounds: each, operation -> how many of its calls begin

VARIABLES born,     \* id -> what the memory was created with
          state,    \* id -> its state in the store, or "absent"
          frame,    \* the local variables of each task's call
          signals,  \* what the emitter recorded
          budget,   \* what is left of the budget
          retired,  \* history: ids deleted, superseded or expired on request
          rewritten \* history: ids that an access wrote back in an older state
vars == <<born, state, frame, signals, budget, retired, rewritten>>

Descriptor == [type : MemoryTypes, session : Sessions,
               from : Ids \cup {None}, content : Ids]

Operations ==
  {"ingest", "infer", "archive", "get", "update", "delete", "sweep", "crash"}

EventTypes == {"after_turn", "task_update", "rag_result", "tool_result", "user_memory"}

SignalTypes == {"creation", "access", "archival"}
Signal == [type : SignalTypes, id : Ids]

ASSUME IdsAssumption == None \notin Ids /\ Unborn \notin Descriptor
ASSUME SwitchAssumption == SharedStore \in BOOLEAN /\ Overlap \in BOOLEAN
ASSUME OrderAssumption == RecallOrder \in Seq(MemoryTypes)
\* The library's own callers supersede and expire memories; only
\* archive_session archives them.
ASSUME TargetsAssumption == CallerTargets \subseteq Terminal
ASSUME BudgetAssumption == QueryLimit \in Nat /\ Budgets \subseteq [Operations -> Nat]

\* A copy of a row in a task's memory: its id and the state it had when read.
Copies == [id : Ids, state : States]

Idle == [pc |-> "idle", item |-> None, copy |-> None, goal |-> "active",
         left |-> <<>>, pack |-> {}, work |-> {}, session |-> None, atStart |-> {}]

PCs == {"idle", "created", "recall", "access", "accessed",
        "archive", "mark_read", "mark_write", "marked", "get", "update", "sweep"}

Frames == [pc : PCs, item : Ids \cup {None}, copy : Ids \cup {None},
           goal : States, left : Seq(MemoryTypes), pack : SUBSET Copies,
           work : SUBSET Ids,
           session : Sessions \cup {None}, atStart : SUBSET Ids]

TypeOK ==
  /\ born \in [Ids -> Descriptor \cup {Unborn}]
  /\ state \in [Ids -> States \cup {"absent"}]
  /\ frame \in [Tasks -> Frames]
  /\ signals \subseteq Signal
  /\ budget \in [Operations -> Nat]
  /\ retired \subseteq Ids
  /\ rewritten \subseteq Ids
  /\ \A id \in Ids : born[id] = Unborn => state[id] = "absent"

Init ==
  /\ born = [id \in Ids |-> Unborn]
  /\ state = [id \in Ids |-> "absent"]
  /\ frame = [t \in Tasks |-> Idle]
  /\ signals = {}
  /\ budget \in Budgets
  /\ retired = {}
  /\ rewritten = {}

-----------------------------------------------------------------------------
Fresh == {id \in Ids : born[id] = Unborn}

Present(id) == state[id] # "absent"

\* A deleted memory has left the store; its descriptor is kept only for the
\* properties and for the copies of the row that calls still hold.
IsA(id, type) == born[id] # Unborn /\ born[id].type = type

\* Mutant: a store call of the in-memory store gives up the event loop.
MutantMayRun(t) == TRUE

MayRun(t) == Overlap \/ \A u \in Tasks \ {t} : frame[u].pc = "idle"

Begin(t, op) ==
  /\ frame[t].pc = "idle"
  /\ MayRun(t)
  /\ budget[op] > 0
  /\ budget' = [budget EXCEPT ![op] = @ - 1]

At(t, pc) == frame[t].pc = pc /\ MayRun(t) /\ UNCHANGED budget

\* The call of task t goes on with these local variables.
Goto(t, f) == frame' = [frame EXCEPT ![t] = f]

Return(t) == Goto(t, Idle)

\* Mutant: the signal names the memory that this one was made from.
MutantEmit(type, id) ==
  signals' = signals \cup {[type |-> type, id |-> born[id].from]}

Emit(type, id) == signals' = signals \cup {[type |-> type, id |-> id]}

-----------------------------------------------------------------------------
TypeOf(event) == IF event = "user_memory" THEN "semantic" ELSE "working"

\* ingest(): the row is written before the signal is emitted.
Ingest(t) ==
  /\ Begin(t, "ingest")
  /\ \E id \in Fresh, event \in EventTypes, s \in Sessions :
       /\ born' = [born EXCEPT ![id] =
                     [type |-> TypeOf(event), session |-> s, from |-> None, content |-> id]]
       /\ state' = [state EXCEPT ![id] = "active"]
       /\ Goto(t, [Idle EXCEPT !.pc = "created", !.item = id])
  /\ UNCHANGED <<signals, retired, rewritten>>

Created(t) ==
  /\ At(t, "created")
  /\ Emit("creation", frame[t].item)
  /\ Return(t)
  /\ UNCHANGED <<born, state, retired, rewritten>>

\* before_inference(): the builder recalls from the managers one after the
\* other.  `atStart' is what working memory held when the call began.
BeforeInference(t) ==
  /\ Begin(t, "infer")
  /\ \E s \in Sessions :
       Goto(t,
         [Idle EXCEPT !.pc = "recall", !.session = s, !.left = RecallOrder,
                      !.atStart = {id \in Ids : /\ IsA(id, "working")
                                               /\ state[id] = "active"
                                               /\ born[id].session = s}])
  /\ UNCHANGED <<born, state, signals, retired, rewritten>>

\* recall() of each manager: its own type, and the states and the session it
\* filters on.  Expired deadlines are not looked at.
Recallable(type, id, s) ==
  /\ IsA(id, type)
  /\ CASE type = "working"  -> state[id] = "active" /\ born[id].session = s
       [] type = "episodic" -> state[id] \in {"active", "archived"}
       [] type = "semantic" -> state[id] = "active"

\* The cuts at max_candidates are left to Packs, which may drop any of these.
Recall(t) ==
  LET f == frame[t]
      found == {id \in Ids : Recallable(Head(f.left), id, f.session)} IN
  /\ At(t, "recall")
  /\ f.left # <<>>
  /\ Goto(t, [frame[t] EXCEPT
       !.left = Tail(@),
       !.pack = @ \cup {[id |-> id, state |-> state[id]] : id \in found}])
  /\ UNCHANGED <<born, state, signals, retired, rewritten>>

\* The packs the builder can choose from these candidates: any scores, any
\* budget, but never two memories of the same content (see ContextBuilder).
Packs(candidates) ==
  {P \in SUBSET candidates :
     \A a, b \in P : born[a.id].content = born[b.id].content => a = b}

Select(t) ==
  /\ At(t, "recall")
  /\ frame[t].left = <<>>
  /\ \E P \in Packs(frame[t].pack) :
       IF P = {} THEN Return(t)
       ELSE Goto(t, [frame[t] EXCEPT !.pc = "access", !.pack = P])
  /\ UNCHANGED <<born, state, signals, retired, rewritten>>

\* The copy m of a memory replaces the row, or inserts it again.
WriteBack(m) ==
  /\ state' = [state EXCEPT ![m.id] = m.state]
  /\ rewritten' = rewritten \cup {id \in {m.id} : state[id] # m.state}

\* Mutant: the loop over the pack does not move on.
MutantAccessWrite(t) ==
  /\ At(t, "access")
  /\ \E m \in frame[t].pack :
       /\ WriteBack(m)
       /\ Goto(t, [frame[t] EXCEPT !.pc = "accessed", !.item = m.id])
  /\ UNCHANGED <<born, signals, retired>>

\* Each selected memory is touched and written back: the copy that recall read.
AccessWrite(t) ==
  /\ At(t, "access")
  /\ \E m \in frame[t].pack :
       /\ WriteBack(m)
       /\ Goto(t, [frame[t] EXCEPT !.pc = "accessed", !.item = m.id,
                                !.pack = @ \ {m}])
  /\ UNCHANGED <<born, signals, retired>>

Accessed(t) ==
  /\ At(t, "accessed")
  /\ Emit("access", frame[t].item)
  /\ IF frame[t].pack = {} THEN Return(t)
     ELSE Goto(t, [frame[t] EXCEPT !.pc = "access"])
  /\ UNCHANGED <<born, state, retired, rewritten>>

-----------------------------------------------------------------------------
\* Mutant: the query does not ask for ACTIVE memories.
MutantArchivableAnyState(s) ==
  {id \in Ids : Present(id) /\ IsA(id, "working") /\ born[id].session = s}

\* Mutant: the query returns memories of every type from separate stores too.
MutantArchivableAnyType(s) ==
  {id \in Ids : state[id] = "active" /\ born[id].session = s}

\* What the working manager's query() can see and archive_session asks for:
\* ACTIVE rows of the session, of every type its store holds.
Archivable(s) ==
  {id \in Ids : /\ state[id] = "active"
                /\ ~SharedStore => IsA(id, "working")
                /\ born[id].session = s}

\* archive_session(): the query, cut at its limit.
ArchiveSession(t) ==
  /\ Begin(t, "archive")
  /\ \E s \in Sessions : \E W \in SUBSET Archivable(s) :
       /\ Cardinality(W) <= QueryLimit
       /\ W # Archivable(s) => Cardinality(W) = QueryLimit
       /\ Goto(t, [Idle EXCEPT !.pc = "archive", !.work = W])
  /\ UNCHANGED <<born, state, signals, retired, rewritten>>

\* Mutant: the item is marked ARCHIVED first and copied afterwards.
MutantCopyWrite(t) ==
  /\ At(t, "archive")
  /\ \E i \in frame[t].work, c \in Fresh :
       IF state[i] = "archived"
         THEN /\ born' = [born EXCEPT ![c] =
                            [born[i] EXCEPT !.type = "episodic", !.from = i]]
              /\ state' = [state EXCEPT ![c] = "active"]
              /\ Goto(t, [frame[t] EXCEPT !.pc = "marked", !.item = i,
                                       !.copy = c])
         ELSE /\ state' = [state EXCEPT ![i] = "archived"]
              /\ UNCHANGED <<born, frame>>
  /\ UNCHANGED <<signals, retired, rewritten>>

\* The copy of the next item: a new episodic memory, ACTIVE, of the same
\* content, that names the item it was archived from.
CopyWrite(t) ==
  /\ At(t, "archive")
  /\ \E i \in frame[t].work, c \in Fresh :
       /\ born' = [born EXCEPT ![c] =
                     [born[i] EXCEPT !.type = "episodic", !.from = i]]
       /\ state' = [state EXCEPT ![c] = "active"]
       /\ Goto(t, [frame[t] EXCEPT !.pc = "mark_read", !.item = i,
                                !.copy = c])
  /\ UNCHANGED <<signals, retired, rewritten>>

\* Mutant: the signal is emitted before update_state() is called.
MutantMarkRead(t) ==
  LET i == frame[t].item IN
  /\ At(t, "mark_read")
  /\ Emit("archival", frame[t].copy)
  /\ IF Present(i) /\ CanTransition(state[i], "archived")
       THEN Goto(t, [frame[t] EXCEPT !.pc = "mark_write"])
       ELSE Return(t)
  /\ UNCHANGED <<born, state, retired, rewritten>>

\* update_state(item, ARCHIVED): it raises, and archive_session with it, when
\* the row is gone or cannot be archived any more.
MarkRead(t) ==
  LET i == frame[t].item IN
  /\ At(t, "mark_read")
  /\ IF Present(i) /\ CanTransition(state[i], "archived")
       THEN Goto(t, [frame[t] EXCEPT !.pc = "mark_write"])
       ELSE Return(t)
  /\ UNCHANGED <<born, state, signals, retired, rewritten>>

MarkWrite(t) ==
  /\ At(t, "mark_write")
  /\ state' = [state EXCEPT ![frame[t].item] = "archived"]
  /\ Goto(t, [frame[t] EXCEPT !.pc = "marked"])
  /\ UNCHANGED <<born, signals, retired, rewritten>>

Marked(t) ==
  LET f == frame[t] IN
  /\ At(t, "marked")
  /\ Emit("archival", f.copy)
  /\ Goto(t,
       [f EXCEPT !.pc = "archive", !.work = @ \ {f.item},
                 !.item = None, !.copy = None])
  /\ UNCHANGED <<born, state, retired, rewritten>>

ArchiveReturn(t) ==
  /\ At(t, "archive")
  /\ frame[t].work = {}
  /\ Return(t)
  /\ UNCHANGED <<born, state, signals, retired, rewritten>>

-----------------------------------------------------------------------------
\* The callers' own use of the managers.  get() of a stored memory reads the
\* row, touches it and writes back what it read.
Get(t) ==
  /\ Begin(t, "get")
  /\ \E id \in Ids :
       /\ Present(id)
       /\ Goto(t, [Idle EXCEPT !.pc = "get",
                             !.pack = {[id |-> id, state |-> state[id]]}])
  /\ UNCHANGED <<born, state, signals, retired, rewritten>>

GetWrite(t) ==
  /\ At(t, "get")
  /\ \E m \in frame[t].pack : WriteBack(m)
  /\ Return(t)
  /\ UNCHANGED <<born, signals, retired>>

\* Mutant: update_state() does not call transition().
MutantUpdateState(t) ==
  /\ Begin(t, "update")
  /\ \E id \in Ids, target \in CallerTargets :
       /\ Present(id)
       /\ Goto(t,
            [Idle EXCEPT !.pc = "update", !.item = id, !.goal = target])
  /\ UNCHANGED <<born, state, signals, retired, rewritten>>

\* update_state reads, then writes; a call that raises changes nothing.
UpdateState(t) ==
  /\ Begin(t, "update")
  /\ \E id \in Ids, target \in CallerTargets :
       /\ Present(id)
       /\ CanTransition(state[id], target)
       /\ Goto(t,
            [Idle EXCEPT !.pc = "update", !.item = id, !.goal = target])
  /\ UNCHANGED <<born, state, signals, retired, rewritten>>

UpdateWrite(t) ==
  LET f == frame[t] IN
  /\ At(t, "update")
  /\ state' = [state EXCEPT ![f.item] = f.goal]
  /\ retired' = retired \cup {f.item}
  /\ Return(t)
  /\ UNCHANGED <<born, signals, rewritten>>

Delete(t) ==
  /\ Begin(t, "delete")
  /\ \E id \in Ids :
       /\ Present(id)
       /\ state' = [state EXCEPT ![id] = "absent"]
       /\ retired' = retired \cup {id}
  /\ UNCHANGED <<born, frame, signals, rewritten>>

\* What the list of one manager's store holds for its sweep: the ACTIVE rows,
\* of every type on a shared store.
Sweepable(type) ==
  {id \in Ids : state[id] = "active" /\ (~SharedStore => IsA(id, type))}

\* expire_stale() of one of the managers: its list, then one upsert for each
\* memory whose deadline has passed, which may be any of them.
ExpireStale(t) ==
  /\ Begin(t, "sweep")
  /\ \E type \in MemoryTypes : \E due \in SUBSET Sweepable(type) :
       /\ due # {}
       /\ Goto(t, [Idle EXCEPT !.pc = "sweep", !.work = due])
  /\ UNCHANGED <<born, state, signals, retired, rewritten>>

ExpireOne(t) ==
  LET f == frame[t] IN
  /\ At(t, "sweep")
  /\ \E i \in f.work :
       /\ state' = [state EXCEPT ![i] = "expired"]
       /\ retired' = retired \cup {i}
       /\ IF f.work = {i} THEN Return(t)
          ELSE Goto(t, [frame[t] EXCEPT !.work = @ \ {i}])
  /\ UNCHANGED <<born, signals, rewritten>>

\* The process dies and restarts on the same database file.
Crash ==
  /\ budget["crash"] > 0
  /\ \E t \in Tasks : frame[t].pc # "idle"
  /\ budget' = [budget EXCEPT !["crash"] = @ - 1]
  /\ frame' = [t \in Tasks |-> Idle]
  /\ UNCHANGED <<born, state, signals, retired, rewritten>>

-----------------------------------------------------------------------------
Start(t) ==
  \/ Ingest(t)
  \/ BeforeInference(t)
  \/ ArchiveSession(t)
  \/ Get(t)
  \/ UpdateState(t)
  \/ Delete(t)
  \/ ExpireStale(t)

Proceed(t) ==
  \/ Created(t)
  \/ Recall(t) \/ Select(t) \/ AccessWrite(t) \/ Accessed(t)
  \/ CopyWrite(t) \/ MarkRead(t) \/ MarkWrite(t) \/ Marked(t) \/ ArchiveReturn(t)
  \/ GetWrite(t)
  \/ UpdateWrite(t)
  \/ ExpireOne(t)

Next == (\E t \in Tasks : Start(t) \/ Proceed(t)) \/ Crash

Spec == Init /\ [][Next]_vars

\* asyncio resumes every call that has begun: its ready queue and its locks
\* are first in, first out.  Nothing obliges a caller to begin one.
FairSpec == Spec /\ \A t \in Tasks : WF_vars(Proceed(t))

-----------------------------------------------------------------------------
(* Properties.                                                              *)

\* Archiving loses nothing: a memory that is ARCHIVED has an episodic copy that
\* names it, stored before it was marked and still stored unless a caller
\* retired the copy.  It holds through crashes, exceptions half way, stale
\* write-backs and overlapping calls (service.py writes the copy first).
HasCopy(id) ==
  \E c \in Ids : /\ IsA(c, "episodic")
                 /\ born[c].from = id
                 /\ Present(c) \/ c \in retired

ArchivedHasCopy == \A id \in Ids : state[id] = "archived" => HasCopy(id)

\* A memory being archived is never missed by a recall that overlaps: what
\* working memory held when before_inference began is among the candidates,
\* as itself or as its copy, unless one of the two was retired meanwhile.  It
\* needs both the order of archive_session (copy, then mark) and that of the
\* recalls.  (Where max_candidates is reached, scores decide: ContextBuilder.)
RecallMissesNothing ==
  \A t \in Tasks : frame[t].pc = "recall" /\ frame[t].left = <<>> =>
    \A id \in frame[t].atStart :
      \/ \E m \in frame[t].pack : born[m.id].content = born[id].content
      \/ \E r \in retired : born[r].content = born[id].content

\* What an ARCHIVAL signal reports, and with it the result of archive_session,
\* is true and stays true: the memory the signalled copy was made from is not
\* ACTIVE again, whoever archives, updates, deletes or expires it meanwhile.
\* Only an access that read the memory before it was marked can undo it by
\* writing back what it read: a before_inference or a caller's get().
ReportedIsArchived ==
  \A g \in signals : g.type = "archival" =>
    LET id == born[g.id].from IN state[id] # "active" \/ id \in rewritten

\* Every call of the service ends: the loops over the archived items, the
\* pack and the expired memories included.
CallsEnd == \A t \in Tasks : frame[t].pc # "idle" ~> frame[t].pc = "idle"

\* A memory that a caller deleted, superseded or expired stays so: it is in no
\* state again that a recall accepts, and so in no later Context Pack.
RetiredStaysOut == \A id \in retired : state[id] \in Terminal \cup {"absent"}

\* A memory is archived once: no two episodic memories hold the same content,
\* however often its session is archived.
ArchivedOnce ==
  \A c, d \in Ids : /\ IsA(c, "episodic") /\ IsA(d, "episodic")
                    /\ born[c].content = born[d].content
                    => c = d

\* An explicit user memory stays in semantic recall until a caller retires it.
UserMemoryKept ==
  \A id \in Ids : IsA(id, "semantic") /\ id \notin retired => state[id] = "active"

\* Whole calls move a stored memory along the lifecycle table only.
StatesMoveLegally ==
  [][\A id \in Ids :
       Present(id) /\ Present(id)' /\ state'[id] # state[id]
         => CanTransition(state[id], state'[id])]_vars

-----------------------------------------------------------------------------
(* The inductive invariant of ArchivedHasCopy (proved in                    *)
(* MemoryServiceProofs).                                                    *)

\* The ids a call holds are of memories that were stored, and they are there
\* wherever its next step needs them.
LocalOK(f) ==
  /\ f.pc \in {"created", "accessed", "mark_read", "mark_write", "marked", "update"}
       => f.item \in Ids /\ born[f.item] # Unborn
  /\ f.pc \in {"mark_read", "mark_write", "marked"} => f.copy \in Ids
  /\ f.pc = "update" => f.goal \in Terminal
  /\ \A i \in f.work : born[i] # Unborn
  /\ \A m \in f.pack : born[m.id] # Unborn

\* A call that is about to write ARCHIVED, to mark an item or to write back a
\* copy that recall read, does so for a memory that has its episodic copy.
CopyOK(f) ==
  /\ f.pc \in {"mark_read", "mark_write"} => HasCopy(f.item)
  /\ \A m \in f.pack : m.state = "archived" => HasCopy(m.id)

LocalsOK == \A t \in Tasks : LocalOK(frame[t])
CopiedFirst == \A t \in Tasks : CopyOK(frame[t])

ArchiveInv == TypeOK /\ LocalsOK /\ CopiedFirst /\ ArchivedHasCopy

(* What ReportedIsArchived needs besides.                                   *)

\* No ACTIVE row but one that an access wrote back in an older state.
Settled(id) == state[id] # "active" \/ id \in rewritten

\* A call that is archiving an item knows its copy; once the item is marked it
\* is settled, which is what the signal will report.
ReportOK(f) ==
  /\ f.pc \in {"mark_read", "mark_write", "marked"}
       => born[f.copy] # Unborn /\ born[f.copy].from = f.item
  /\ f.pc = "marked" => Settled(f.item)

\* An ARCHIVAL signal names the copy of a memory that was stored.
SignalsNameCopies ==
  \A g \in signals : g.type = "archival" =>
    /\ born[g.id] # Unborn
    /\ born[g.id].from \in Ids
    /\ born[born[g.id].from] # Unborn

ReportInv ==
  (\A t \in Tasks : ReportOK(frame[t])) /\ SignalsNameCopies /\ ReportedIsArchived

(* What ArchivedOnce needs besides, where calls do not overlap, the stores  *)
(* are separate and nothing crashes.                                        *)

Copied(id) == \E c \in Ids : IsA(c, "episodic") /\ born[c].from = id

\* Only working memories are copied, and they were not copied themselves.
OriginsKnown ==
  \A id \in Ids : born[id] # Unborn =>
    IF born[id].type = "episodic"
      THEN /\ born[id].from \in Ids /\ IsA(born[id].from, "working")
           /\ born[id].content = born[id].from
      ELSE born[id].content = id

CopiedOnce ==
  \A c, d \in Ids : /\ IsA(c, "episodic") /\ IsA(d, "episodic")
                    /\ born[c].from = born[d].from
                    => c = d

\* A memory that has its copy is ACTIVE only while it is being marked.
CopiedIsLeft ==
  \A id \in Ids : Copied(id) /\ state[id] = "active" =>
    \E t \in Tasks : frame[t].pc \in {"mark_read", "mark_write"} /\ frame[t].item = id

\* What archive_session has not come to is ACTIVE and has no copy.
WorkOK(f) ==
  /\ f.pc \in {"archive", "mark_read", "mark_write", "marked"} =>
       \A i \in f.work :
         IsA(i, "working") /\ (i = f.item \/ (state[i] = "active" /\ ~Copied(i)))
  /\ f.pc = "archive" => f.item = None
  /\ f.pc \in {"mark_read", "mark_write"} => state[f.item] = "active"

OnceInv ==
  /\ budget["crash"] = 0
  /\ OriginsKnown /\ CopiedOnce /\ CopiedIsLeft
  /\ \A t \in Tasks : WorkOK(frame[t])
=============================================================================
