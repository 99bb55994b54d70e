--------------------------- MODULE MemoryManager ---------------------------
(***************************************************************************)
(* BaseMockMemoryManager (mocks/_base.py) over one MemoryStore, called by  *)
(* several asyncio tasks.  Each call of the store is one atomic step: the  *)
(* SQLite store holds its lock around the statement, the in-memory store   *)
(* never suspends.  What lies between two store calls of an operation is a *)
(* point where, with the SQLite store, other tasks run.                    *)
(***************************************************************************)
EXTENDS Naturals, FiniteSets, Lifecycle

CONSTANTS Ids,            \* the identifiers uuid4 can draw
          Tasks,          \* the asyncio tasks that call the manager
          NoRow,          \* the value of a row that is not in the store
          Never,          \* expires_at = None
          DefaultTTL,     \* default_ttl, or Never for None
          Overlap,        \* whether the calls of different tasks interleave
          GivenDeadlines, \* the expires_at of the memories callers write
          CallerTargets,  \* the states the callers pass to update_state
          MaxClock,       \* bound of the clock
          MaxCalls        \* bound of the number of calls

VARIABLES rows,     \* the store: id -> row
          used,     \* the ids ever inserted
          clock,    \* datetime.now
          call,     \* what each task is executing
          calls,    \* the number of calls begun
          accesses  \* history: id -> the number of accesses that returned
vars == <<rows, used, clock, call, calls, accesses>>

\* Abstracted: content, scope, tags and embedding, which no operation here
\* changes; updated_at and last_accessed_at, which only scoring reads.
Row == [state : States, deadline : Nat \cup {Never}, touches : Nat]

ASSUME TTLAssumption == DefaultTTL \in Nat \cup {Never}
ASSUME DeadlinesAssumption == GivenDeadlines \subseteq Nat \cup {Never}
ASSUME TargetsAssumption == CallerTargets \subseteq States
ASSUME OverlapAssumption == Overlap \in BOOLEAN
ASSUME BoundsAssumption == MaxClock \in Nat /\ MaxCalls \in Nat
ASSUME AbsentAssumption == NoRow \notin Row /\ Never \notin Nat

\* The local variables of a call: where it is, the row copy `m' it will
\* write under `id', the time `now' it captured, and the rest of the list
\* that expire_stale is walking.
Idle == [pc |-> "idle", id |-> NoRow, m |-> NoRow, now |-> 0,
         work |-> [id \in Ids |-> NoRow]]

PCs == {"idle", "insert", "touched", "moved", "list", "sweep"}

Calls == [pc : PCs, id : Ids \cup {NoRow}, m : Row \cup {NoRow}, now : Nat,
          work : [Ids -> Row \cup {NoRow}]]

TypeOK ==
  /\ rows \in [Ids -> Row \cup {NoRow}]
  /\ used \subseteq Ids
  /\ clock \in 0..MaxClock
  /\ call \in [Tasks -> Calls]
  /\ calls \in 0..MaxCalls
  /\ accesses \in [Ids -> Nat]

Init ==
  /\ rows = [id \in Ids |-> NoRow]
  /\ used = {}
  /\ clock = 0
  /\ call = [t \in Tasks |-> Idle]
  /\ calls = 0
  /\ accesses = [id \in Ids |-> 0]

-----------------------------------------------------------------------------
Present(id) == rows[id] # NoRow

\* Mutant: a store call of the in-memory store gives up the event loop.
MutantMayRun(t) == TRUE

\* Calls do not overlap when the store is the in-memory one, whose awaits never
\* give up the event loop, or when the tasks take turns; they do when tasks
\* call a manager over the SQLite store, which suspends in to_thread.
MayRun(t) == Overlap \/ \A u \in Tasks \ {t} : call[u].pc = "idle"

Begin(t) ==
  /\ call[t].pc = "idle"
  /\ MayRun(t)
  /\ calls < MaxCalls
  /\ calls' = calls + 1

Continue(t) == MayRun(t) /\ UNCHANGED calls

\* Mutant: touch counts down.
MutantTouched(m) == [m EXCEPT !.touches = @ - 1]

\* Memory.touch.
Touched(m) == [m EXCEPT !.touches = @ + 1]

\* Memory.is_expired, as is_ttl_expired calls it.
Expired(m, now) == m.deadline # Never /\ now >= m.deadline

\* Mutant: every write restarts the time to live.
MutantWithDeadline(m) ==
  IF DefaultTTL # Never THEN [m EXCEPT !.deadline = clock + DefaultTTL] ELSE m

\* write() fills in expires_at only when it is None and there is a default.
WithDeadline(m) ==
  IF m.deadline = Never /\ DefaultTTL # Never
    THEN [m EXCEPT !.deadline = clock + DefaultTTL]
    ELSE m

\* The call goes on to the upsert of `m', which ends it.
ToUpsert(t, pc, id, m) ==
  call' = [call EXCEPT ![t] = [Idle EXCEPT !.pc = pc, !.id = id, !.m = m]]

Return(t) == call' = [call EXCEPT ![t] = Idle]

\* uuid4: an id no memory has, stored or about to be.
Fresh == {id \in Ids \ used : \A t \in Tasks : call[t].id # id}

-----------------------------------------------------------------------------
\* write() of a new memory: the deadline is computed before the upsert.
Write(t) ==
  /\ Begin(t)
  /\ \E id \in Fresh, d \in GivenDeadlines :
       ToUpsert(t, "insert", id,
         WithDeadline([state |-> "active", deadline |-> d, touches |-> 0]))
  /\ UNCHANGED <<rows, used, clock, accesses>>

\* get(): a missing row returns None.
Get(t, id) ==
  /\ Begin(t)
  /\ IF Present(id) THEN ToUpsert(t, "touched", id, Touched(rows[id]))
                    ELSE UNCHANGED call
  /\ UNCHANGED <<rows, used, clock, accesses>>

\* query(), then touch() and write() of a memory it returned, as
\* before_inference does.
QueryAndRewrite(t, id) ==
  /\ Begin(t)
  /\ Present(id)
  /\ ToUpsert(t, "touched", id, WithDeadline(Touched(rows[id])))
  /\ UNCHANGED <<rows, used, clock, accesses>>

\* Mutant: update_state() does not call transition().
MutantMovable(id, target) == Present(id)

Movable(id, target) == Present(id) /\ CanTransition(rows[id].state, target)

\* update_state(): a missing row raises MemoryNotFoundError, an illegal
\* transition InvalidStateTransitionError.
UpdateState(t, id, target) ==
  /\ Begin(t)
  /\ IF Movable(id, target)
       THEN ToUpsert(t, "moved", id, [rows[id] EXCEPT !.state = target])
       ELSE UNCHANGED call
  /\ UNCHANGED <<rows, used, clock, accesses>>

\* The upsert that ends write, get and update_state: the whole row is
\* replaced by the copy the call holds.
Upsert(t) ==
  LET id == call[t].id IN
  /\ call[t].pc \in {"insert", "touched", "moved"}
  /\ Continue(t)
  /\ rows' = [rows EXCEPT ![id] = call[t].m]
  /\ used' = used \cup {id}
  /\ accesses' = IF call[t].pc = "touched"
                   THEN [accesses EXCEPT ![id] = @ + 1] ELSE accesses
  /\ Return(t)
  /\ UNCHANGED clock

\* delete(): one statement, and True when it removed a row.
Delete(t, id) ==
  /\ Begin(t)
  /\ rows' = [rows EXCEPT ![id] = NoRow]
  /\ UNCHANGED <<used, clock, call, accesses>>

\* expire_stale(): `now' is read once, before the list.
ExpireStale(t) ==
  /\ Begin(t)
  /\ call' = [call EXCEPT ![t] = [Idle EXCEPT !.pc = "list", !.now = clock]]
  /\ UNCHANGED <<rows, used, clock, accesses>>

\* Mutant: the loop expires every ACTIVE memory.
MutantDue(m, now) == m # NoRow /\ m.state = "active"

Due(m, now) == m # NoRow /\ m.state = "active" /\ Expired(m, now)

\* The list: the rows the loop will expire.  The others are passed over
\* without an await.
ExpireList(t) ==
  LET work == [id \in Ids |-> IF Due(rows[id], call[t].now) THEN rows[id] ELSE NoRow] IN
  /\ call[t].pc = "list"
  /\ Continue(t)
  /\ IF \E id \in Ids : work[id] # NoRow
       THEN call' = [call EXCEPT ![t].pc = "sweep", ![t].work = work]
       ELSE Return(t)
  /\ UNCHANGED <<rows, used, clock, accesses>>

\* Mutant: the loop does not move on to the next item.
MutantExpireOne(t) ==
  LET work == call[t].work IN
  /\ call[t].pc = "sweep"
  /\ Continue(t)
  /\ \E id \in Ids :
       /\ work[id] # NoRow
       /\ rows' = [rows EXCEPT ![id] = [work[id] EXCEPT !.state = "expired"]]
  /\ UNCHANGED <<used, clock, call, accesses>>

\* Mutant: expire_stale returns after the first memory it expired.
MutantReturnEarly(t) ==
  LET work == call[t].work IN
  /\ call[t].pc = "sweep"
  /\ Continue(t)
  /\ \E id \in Ids :
       /\ work[id] # NoRow
       /\ rows' = [rows EXCEPT ![id] = [work[id] EXCEPT !.state = "expired"]]
  /\ Return(t)
  /\ UNCHANGED <<used, clock, accesses>>

\* One turn of the loop: the copy from the list, made EXPIRED, is upserted.
ExpireOne(t) ==
  LET work == call[t].work IN
  /\ call[t].pc = "sweep"
  /\ Continue(t)
  /\ \E id \in Ids :
       LET rest == [work EXCEPT ![id] = NoRow] IN
       /\ work[id] # NoRow
       /\ rows' = [rows EXCEPT ![id] = [work[id] EXCEPT !.state = "expired"]]
       /\ IF \E other \in Ids : rest[other] # NoRow
            THEN call' = [call EXCEPT ![t].work = rest]
            ELSE Return(t)
  /\ UNCHANGED <<used, clock, accesses>>

\* The process dies and restarts on the same database file.
Crash ==
  /\ \E t \in Tasks : call[t].pc # "idle"
  /\ call' = [t \in Tasks |-> Idle]
  /\ UNCHANGED <<rows, used, clock, calls, accesses>>

Tick ==
  /\ clock < MaxClock
  /\ clock' = clock + 1
  /\ UNCHANGED <<rows, used, call, calls, accesses>>

Start(t) ==
  \/ Write(t)
  \/ \E id \in Ids : \/ Get(t, id)
                     \/ QueryAndRewrite(t, id)
                     \/ \E target \in CallerTargets : UpdateState(t, id, target)
                     \/ Delete(t, id)
  \/ ExpireStale(t)

Proceed(t) == Upsert(t) \/ ExpireList(t) \/ ExpireOne(t)

Next == (\E t \in Tasks : Start(t) \/ Proceed(t)) \/ Crash \/ Tick

Spec == Init /\ [][Next]_vars

\* asyncio's ready queue and asyncio.Lock are first in, first out, so a call
\* that has begun is always resumed.  Nothing obliges a task to begin one.
FairSpec == Spec /\ \A t \in Tasks : WF_vars(Proceed(t))

-----------------------------------------------------------------------------
(* Properties.                                                              *)

Contract == INSTANCE MemoryContract
              WITH Ids <- Ids, NoRow <- NoRow, Never <- Never,
                   rows <- rows, used <- used

\* The store behaves as the contract says, each operation as one step on one
\* row, although its body is a read and a write with an await between them
\* (mocks/_base.py): true when the calls of a manager do not overlap.
ImplementsContract == Contract!Spec

\* No access is lost or counted twice: the access_count a row carries is the
\* number of get() and before_inference accesses of it that returned.
AccessesCounted ==
  \A id \in Ids : Present(id) => rows[id].touches = accesses[id]

\* The deadline of a stored memory is written once: no access, rewrite,
\* transition or sweep extends or clears it, stale copies included.
DeadlineWriteOnce ==
  [][\A id \in Ids :
       Present(id) /\ Present(id)' => rows'[id].deadline = rows[id].deadline]_vars

\* When callers leave EXPIRED to the sweep, a memory is EXPIRED only after its
\* deadline has passed, whatever copies are being written back meanwhile.
ExpiredOnlyWhenDue ==
  "expired" \notin CallerTargets =>
    \A id \in Ids :
      Present(id) /\ rows[id].state = "expired" => Expired(rows[id], clock)

\* A sweep is complete: when expire_stale returns, no memory is ACTIVE whose
\* deadline had passed when it began.  (Between sweeps nothing looks at the
\* deadline, and recall returns such a memory.)
SweepIsComplete ==
  [][\A t \in Tasks :
       (ExpireList(t) \/ ExpireOne(t)) /\ call'[t] = Idle
         => \A id \in Ids : ~Due(rows'[id], call[t].now)]_vars

\* A call that has begun ends: the loop of expire_stale included.
CallsEnd == \A t \in Tasks : call[t].pc # "idle" ~> call[t].pc = "idle"

\* EXPIRED and SUPERSEDED are terminal: no operation takes a stored memory out
\* of them (ALLOWED_TRANSITIONS gives them no outgoing transition).
TerminalIsTerminal ==
  [][\A id \in Ids :
       Present(id) /\ Present(id)' /\ rows[id].state \in Terminal
         => rows'[id].state = rows[id].state]_vars
=============================================================================
