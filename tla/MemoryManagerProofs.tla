------------------------- MODULE MemoryManagerProofs -------------------------
(***************************************************************************)
(* Theorems about MemoryManager for every set of tasks and ids.  With any  *)
(* interleaving, crashes included: deadlines are written once and only due *)
(* memories expire.  When the calls do not overlap: no access is lost, a   *)
(* sweep is complete, and the manager implements MemoryContract.           *)
(***************************************************************************)
EXTENDS MemoryManager, TLAPS

-----------------------------------------------------------------------------
(* The invariant of every interleaving.  A version of a memory is its row   *)
(* or a copy of it that some call will write back; the rows of the future   *)
(* are versions of today.                                                   *)

IsVersion(id, m) ==
  \/ m = rows[id]
  \/ \E t \in Tasks : (call[t].id = id /\ m = call[t].m) \/ m = call[t].work[id]

\* What a call is about to write is a row; what a sweep will expire is due.
FrameOK(f) ==
  /\ f.pc \in {"insert", "touched", "moved"} => f.id \in Ids /\ f.m \in Row
  /\ f.now <= clock
  /\ \A id \in Ids : f.work[id] # NoRow => Due(f.work[id], f.now)

FramesOK == \A t \in Tasks : FrameOK(call[t])

\* An id that was never inserted has no version but that of its insertion.
Unused ==
  \A id \in Ids \ used :
    /\ rows[id] = NoRow
    /\ \A t \in Tasks : call[t].work[id] = NoRow

\* All versions of a memory have one deadline.
OneDeadline ==
  \A id \in Ids : \A m, n \in Row :
    IsVersion(id, m) /\ IsVersion(id, n) => m.deadline = n.deadline

\* With a default time to live every version has a deadline.
DefaultApplied ==
  DefaultTTL # Never =>
    \A id \in Ids : \A m \in Row : IsVersion(id, m) => m.deadline # Never

\* No version is EXPIRED that is not due.
ExpiredVersionsDue ==
  "expired" \notin CallerTargets =>
    \A id \in Ids : \A m \in Row :
      IsVersion(id, m) /\ m.state = "expired" => Expired(m, clock)

ManagerInv ==
  /\ TypeOK /\ FramesOK /\ Unused
  /\ OneDeadline /\ DefaultApplied /\ ExpiredVersionsDue

-----------------------------------------------------------------------------
(* Rows and frames.                                                         *)

\* touch and a change of state keep the deadline.
LEMMA RowFacts ==
  ASSUME NEW m \in Row, NEW s \in States
  PROVE  /\ Touched(m) \in Row /\ Touched(m).deadline = m.deadline
         /\ Touched(m).state = m.state /\ Touched(m).touches = m.touches + 1
         /\ [m EXCEPT !.state = s] \in Row
         /\ [m EXCEPT !.state = s].deadline = m.deadline
         /\ [m EXCEPT !.state = s].state = s
         /\ [m EXCEPT !.state = s].touches = m.touches
  BY DEF Touched, Row

\* write() gives a deadline to a row without one when there is a default, and
\* changes nothing else.
LEMMA DeadlineFacts ==
  ASSUME clock \in Nat, NEW m \in Row
  PROVE  /\ WithDeadline(m) \in Row
         /\ WithDeadline(m).state = m.state /\ WithDeadline(m).touches = m.touches
         /\ DefaultTTL # Never => WithDeadline(m).deadline # Never
         /\ (DefaultTTL # Never => m.deadline # Never) => WithDeadline(m) = m
<1>1. CASE m.deadline = Never /\ DefaultTTL # Never
  <2>1. clock + DefaultTTL \in Nat
    BY <1>1, TTLAssumption
  <2> QED BY <1>1, <2>1, AbsentAssumption DEF WithDeadline, Row
<1>2. CASE ~(m.deadline = Never /\ DefaultTTL # Never)
  BY <1>2 DEF WithDeadline
<1> QED BY <1>1, <1>2

\* The frame of a task between calls.
LEMMA IdleFacts ==
  /\ Idle \in Calls /\ Idle.pc = "idle" /\ Idle.id = NoRow /\ Idle.m = NoRow
  /\ Idle.now = 0 /\ \A id \in Ids : Idle.work[id] = NoRow
  BY DEF Idle, Calls, PCs

\* The frame of a call on its way to an upsert.
LEMMA UpsertFrame ==
  ASSUME TypeOK, NEW t \in Tasks, NEW pc \in PCs, NEW id \in Ids, NEW m \in Row,
         ToUpsert(t, pc, id, m)
  PROVE  /\ call' \in [Tasks -> Calls]
         /\ call'[t].pc = pc /\ call'[t].id = id /\ call'[t].m = m /\ call'[t].now = 0
         /\ \A i \in Ids : call'[t].work[i] = NoRow
         /\ \A u \in Tasks \ {t} : call'[u] = call[u]
<1> DEFINE f == [Idle EXCEPT !.pc = pc, !.id = id, !.m = m]
<1>1. /\ f \in Calls /\ f.pc = pc /\ f.id = id /\ f.m = m /\ f.now = 0
      /\ \A i \in Ids : f.work[i] = NoRow
  BY DEF Idle, Calls, PCs
<1>2. call \in [Tasks -> Calls] /\ call' = [call EXCEPT ![t] = f]
  BY DEF TypeOK, ToUpsert
<1> HIDE DEF f
<1>3. call'[t] = f /\ call' \in [Tasks -> Calls] /\ \A u \in Tasks \ {t} : call'[u] = call[u]
  BY <1>1, <1>2
<1> QED BY <1>1, <1>3

\* The frame of a call that has ended.
LEMMA ReturnFrame ==
  ASSUME TypeOK, NEW t \in Tasks, Return(t)
  PROVE  /\ call' \in [Tasks -> Calls] /\ call'[t] = Idle
         /\ \A u \in Tasks \ {t} : call'[u] = call[u]
  BY IdleFacts DEF TypeOK, Return

\* The frame of a call that begins a sweep.
LEMMA ListFrame ==
  ASSUME TypeOK, NEW t \in Tasks, ExpireStale(t)
  PROVE  /\ call' \in [Tasks -> Calls]
         /\ call'[t].pc = "list" /\ call'[t].id = NoRow /\ call'[t].m = NoRow
         /\ call'[t].now = clock
         /\ \A i \in Ids : call'[t].work[i] = NoRow
         /\ \A u \in Tasks \ {t} : call'[u] = call[u]
<1> DEFINE f == [Idle EXCEPT !.pc = "list", !.now = clock]
<1>1. clock \in Nat
  BY BoundsAssumption DEF TypeOK
<1>2. /\ f \in Calls /\ f.pc = "list" /\ f.id = NoRow /\ f.m = NoRow /\ f.now = clock
      /\ \A i \in Ids : f.work[i] = NoRow
  BY <1>1 DEF Idle, Calls, PCs
<1>3. call \in [Tasks -> Calls] /\ call' = [call EXCEPT ![t] = f]
  BY DEF TypeOK, ExpireStale
<1> HIDE DEF f
<1>4. call'[t] = f /\ call' \in [Tasks -> Calls] /\ \A u \in Tasks \ {t} : call'[u] = call[u]
  BY <1>2, <1>3
<1> QED BY <1>2, <1>4

\* The frame of a sweep that has its list.
LEMMA SweepFrame ==
  ASSUME TypeOK, NEW t \in Tasks, NEW work \in [Ids -> Row \cup {NoRow}],
         call' = [call EXCEPT ![t].pc = "sweep", ![t].work = work]
  PROVE  /\ call' \in [Tasks -> Calls]
         /\ call'[t].pc = "sweep" /\ call'[t].id = call[t].id /\ call'[t].m = call[t].m
         /\ call'[t].now = call[t].now /\ call'[t].work = work
         /\ \A u \in Tasks \ {t} : call'[u] = call[u]
<1> DEFINE f == [call[t] EXCEPT !.pc = "sweep", !.work = work]
<1>1. call \in [Tasks -> Calls] /\ call[t] \in Calls
  BY DEF TypeOK
<1>2. /\ f \in Calls /\ f.pc = "sweep" /\ f.id = call[t].id /\ f.m = call[t].m
      /\ f.now = call[t].now /\ f.work = work
  BY <1>1 DEF Calls, PCs
<1>3. call' = [call EXCEPT ![t] = f]
  BY <1>1 DEF Calls
<1> HIDE DEF f
<1>4. call'[t] = f /\ call' \in [Tasks -> Calls] /\ \A u \in Tasks \ {t} : call'[u] = call[u]
  BY <1>1, <1>2, <1>3
<1> QED BY <1>2, <1>4

\* The list that a sweep reads: the rows that are due.
LEMMA WorkFacts ==
  ASSUME TypeOK, NEW t \in Tasks, ExpireList(t)
  PROVE  \E work \in [Ids -> Row \cup {NoRow}] :
           /\ \A id \in Ids :
                work[id] = IF Due(rows[id], call[t].now) THEN rows[id] ELSE NoRow
           /\ IF \E id \in Ids : work[id] # NoRow
                THEN call' = [call EXCEPT ![t].pc = "sweep", ![t].work = work]
                ELSE Return(t)
<1> DEFINE work == [id \in Ids |-> IF Due(rows[id], call[t].now) THEN rows[id] ELSE NoRow]
<1>1. work \in [Ids -> Row \cup {NoRow}]
  BY DEF TypeOK
<1>2. IF \E id \in Ids : work[id] # NoRow
        THEN call' = [call EXCEPT ![t].pc = "sweep", ![t].work = work]
        ELSE Return(t)
  BY DEF ExpireList
<1>3. \A id \in Ids : work[id] = IF Due(rows[id], call[t].now) THEN rows[id] ELSE NoRow
  OBVIOUS
<1> HIDE DEF work
<1> QED BY <1>1, <1>2, <1>3

\* One turn of the sweep: a row of its list is written, made EXPIRED, and the
\* list loses it.
LEMMA TurnFacts ==
  ASSUME TypeOK, NEW t \in Tasks, ExpireOne(t)
  PROVE  \E i \in Ids :
           /\ call[t].work[i] \in Row /\ call[t].work[i] # NoRow
           /\ rows' = [rows EXCEPT ![i] = [call[t].work[i] EXCEPT !.state = "expired"]]
           /\ call' \in [Tasks -> Calls]
           /\ \A u \in Tasks \ {t} : call'[u] = call[u]
           /\ \/ /\ call'[t] = Idle
                 /\ \A id \in Ids \ {i} : call[t].work[id] = NoRow
              \/ /\ call'[t].pc = "sweep" /\ call'[t].id = call[t].id
                 /\ call'[t].m = call[t].m /\ call'[t].now = call[t].now
                 /\ call'[t].work[i] = NoRow
                 /\ \A id \in Ids \ {i} : call'[t].work[id] = call[t].work[id]
<1>1. call \in [Tasks -> Calls] /\ call[t] \in Calls
      /\ call[t].work \in [Ids -> Row \cup {NoRow}] /\ call[t].pc = "sweep"
  BY DEF TypeOK, Calls, ExpireOne
<1> DEFINE rest(i) == [call[t].work EXCEPT ![i] = NoRow]
<1>2. PICK i \in Ids :
        /\ call[t].work[i] # NoRow
        /\ rows' = [rows EXCEPT ![i] = [call[t].work[i] EXCEPT !.state = "expired"]]
        /\ IF \E other \in Ids : rest(i)[other] # NoRow
             THEN call' = [call EXCEPT ![t].work = rest(i)]
             ELSE Return(t)
  BY DEF ExpireOne
<1>3. /\ rest(i) \in [Ids -> Row \cup {NoRow}] /\ rest(i)[i] = NoRow
      /\ \A id \in Ids \ {i} : rest(i)[id] = call[t].work[id]
  BY <1>1
<1>4. call[t].work[i] \in Row
  BY <1>1, <1>2
<1>5. CASE \E other \in Ids : rest(i)[other] # NoRow
  <2> DEFINE r == rest(i)
             f == [call[t] EXCEPT !.work = r]
  <2>1. r \in [Ids -> Row \cup {NoRow}] /\ call' = [call EXCEPT ![t].work = r]
    BY <1>2, <1>3, <1>5
  <2> HIDE DEF r
  <2>2. /\ f \in Calls /\ f.pc = "sweep" /\ f.id = call[t].id /\ f.m = call[t].m
        /\ f.now = call[t].now /\ f.work = r
    BY <1>1, <2>1 DEF Calls
  <2>3. call' = [call EXCEPT ![t] = f]
    BY <1>1, <2>1 DEF Calls
  <2> HIDE DEF f
  <2>4. call'[t] = f /\ call' \in [Tasks -> Calls] /\ \A u \in Tasks \ {t} : call'[u] = call[u]
    BY <1>1, <2>2, <2>3
  <2>5. r[i] = NoRow /\ \A id \in Ids \ {i} : r[id] = call[t].work[id]
    BY <1>3 DEF r
  <2> QED BY <1>2, <1>4, <2>2, <2>4, <2>5
<1>6. CASE ~ \E other \in Ids : rest(i)[other] # NoRow
  <2>1. Return(t) /\ \A id \in Ids \ {i} : call[t].work[id] = NoRow
    BY <1>2, <1>3, <1>6
  <2>2. /\ call' \in [Tasks -> Calls] /\ call'[t] = Idle
        /\ \A u \in Tasks \ {t} : call'[u] = call[u]
    BY <2>1, ReturnFrame
  <2> QED BY <1>2, <1>4, <2>1, <2>2
<1> QED BY <1>5, <1>6

-----------------------------------------------------------------------------
(* Where versions come from.                                                *)

\* What a step makes of a version: its deadline stays, its state stays, or
\* is one that a caller asked for, or EXPIRED when it is due; unless it is the
\* only version of a memory that is being inserted.
Descends(id, m) ==
  \/ \E n \in Row :
       /\ IsVersion(id, n) /\ m.deadline = n.deadline
       /\ m.state = n.state \/ m.state \in CallerTargets \/ Expired(m, clock)
  \/ /\ \A n \in Row : ~IsVersion(id, n)
     /\ m.state = "active" /\ (DefaultTTL # Never => m.deadline # Never)
     /\ \A n \in Row : IsVersion(id, n)' => n = m

\* When one task moves, a version is the new row, what its call now holds, or
\* a version from before.
LEMMA Origin ==
  ASSUME NEW t \in Tasks, \A u \in Tasks \ {t} : call'[u] = call[u],
         NEW id \in Ids, NEW m \in Row, IsVersion(id, m)'
  PROVE  \/ m = rows'[id]
         \/ call'[t].id = id /\ m = call'[t].m
         \/ m = call'[t].work[id]
         \/ IsVersion(id, m)
  BY DEF IsVersion

\* A version that stays is a descendant of its own.
LEMMA Same ==
  ASSUME NEW id \in Ids, NEW m \in Row, IsVersion(id, m)
  PROVE  Descends(id, m)
  BY DEF Descends

\* The row is a version.
LEMMA RowVersion ==
  ASSUME TypeOK, NEW id \in Ids
  PROVE  /\ IsVersion(id, rows[id])
         /\ rows[id] # NoRow => rows[id] \in Row
         /\ rows[id] \in Row => rows[id] # NoRow
  BY AbsentAssumption DEF TypeOK, IsVersion

\* Every version after a step descends from one before it, or is new.
LEMMA VersionsStep ==
  ASSUME ManagerInv, Next, NEW id \in Ids, NEW m \in Row, IsVersion(id, m)'
  PROVE  Descends(id, m)
<1>0. /\ TypeOK /\ FramesOK /\ Unused /\ DefaultApplied /\ clock \in Nat
      /\ NoRow \notin Row
  BY BoundsAssumption, AbsentAssumption DEF ManagerInv, TypeOK
<1>1. ASSUME NEW t \in Tasks, Write(t) PROVE Descends(id, m)
  <2>1. PICK i \in Fresh, d \in GivenDeadlines :
          ToUpsert(t, "insert", i,
            WithDeadline([state |-> "active", deadline |-> d, touches |-> 0]))
    BY <1>1 DEF Write
  <2> DEFINE r == [state |-> "active", deadline |-> d, touches |-> 0]
             f == WithDeadline(r)
  <2>2. r \in Row /\ r.state = "active"
    BY DeadlinesAssumption DEF Row, States
  <2> HIDE DEF r
  <2>3. f \in Row /\ f.state = "active" /\ (DefaultTTL # Never => f.deadline # Never)
    BY <1>0, <2>2, DeadlineFacts
  <2>4. i \in Ids /\ i \notin used /\ \A u \in Tasks : call[u].id # i
    BY DEF Fresh
  <2>5. ToUpsert(t, "insert", i, f)
    BY <2>1 DEF r
  <2> HIDE DEF f
  <2>6. /\ call'[t].id = i /\ call'[t].m = f /\ call'[t].work[id] = NoRow
        /\ \A u \in Tasks \ {t} : call'[u] = call[u]
    BY <1>0, <2>3, <2>4, <2>5, UpsertFrame DEF PCs
  <2>7. rows' = rows
    BY <1>1 DEF Write
  <2>8. \A n \in Row : IsVersion(id, n)' => IsVersion(id, n) \/ (id = i /\ n = f)
    <3> SUFFICES ASSUME NEW n \in Row, IsVersion(id, n)'
                 PROVE  IsVersion(id, n) \/ (id = i /\ n = f)
      OBVIOUS
    <3>1. \/ n = rows'[id] \/ (call'[t].id = id /\ n = call'[t].m)
          \/ n = call'[t].work[id] \/ IsVersion(id, n)
      BY <2>6, Origin
    <3>2. n # NoRow
      BY <1>0
    <3> QED BY <2>6, <2>7, <3>1, <3>2 DEF IsVersion
  <2>9. CASE IsVersion(id, m)
    BY <2>9, Same
  <2>10. CASE ~IsVersion(id, m)
    <3>1. id = i /\ m = f
      BY <2>8, <2>10
    <3>2. \A n \in Row : ~IsVersion(id, n)
      <4> SUFFICES ASSUME NEW n \in Row, IsVersion(id, n) PROVE FALSE
        OBVIOUS
      <4>1. rows[id] = NoRow /\ \A u \in Tasks : call[u].work[id] = NoRow
        BY <1>0, <2>4, <3>1 DEF Unused
      <4> QED BY <1>0, <2>4, <3>1, <4>1 DEF IsVersion
    <3>3. \A n \in Row : IsVersion(id, n)' => n = m
      BY <2>8, <3>1, <3>2
    <3> QED BY <2>3, <3>1, <3>2, <3>3 DEF Descends
  <2> QED BY <2>9, <2>10
<1>2. ASSUME NEW t \in Tasks, NEW i \in Ids, NEW pc \in PCs, NEW f \in Row,
             ToUpsert(t, pc, i, f), rows' = rows, rows[i] \in Row,
             f.deadline = rows[i].deadline,
             f.state = rows[i].state \/ f.state \in CallerTargets
      PROVE  Descends(id, m)
  <2>1. /\ call'[t].id = i /\ call'[t].m = f /\ call'[t].work[id] = NoRow
        /\ \A u \in Tasks \ {t} : call'[u] = call[u]
    BY <1>0, <1>2, UpsertFrame
  <2>2. \/ m = rows'[id] \/ (call'[t].id = id /\ m = call'[t].m)
        \/ m = call'[t].work[id] \/ IsVersion(id, m)
    BY <2>1, Origin
  <2>3. m # NoRow
    BY <1>0
  <2>4. IsVersion(id, m) \/ (id = i /\ m = f)
    BY <1>2, <2>1, <2>2, <2>3 DEF IsVersion
  <2>5. IsVersion(i, rows[i])
    BY <1>0, RowVersion
  <2>6. CASE id = i /\ m = f
    BY <1>2, <2>5, <2>6 DEF Descends
  <2> QED BY <2>4, <2>6, Same
<1>3. ASSUME NEW t \in Tasks, NEW i \in Ids, Get(t, i) PROVE Descends(id, m)
  <2>1. rows' = rows
    BY <1>3 DEF Get
  <2>2. CASE Present(i)
    <3>1. ToUpsert(t, "touched", i, Touched(rows[i])) /\ rows[i] \in Row
      BY <1>0, <1>3, <2>2, RowVersion DEF Get, Present
    <3>2. /\ Touched(rows[i]) \in Row /\ Touched(rows[i]).deadline = rows[i].deadline
          /\ Touched(rows[i]).state = rows[i].state
      BY <3>1, RowFacts DEF States
    <3>3. "touched" \in PCs
      BY DEF PCs
    <3> QED BY <1>2, <2>1, <3>1, <3>2, <3>3
  <2>3. CASE ~Present(i)
    <3>1. call' = call
      BY <1>3, <2>3 DEF Get
    <3> QED BY <2>1, <3>1, Same DEF IsVersion
  <2> QED BY <2>2, <2>3
<1>4. ASSUME NEW t \in Tasks, NEW i \in Ids, QueryAndRewrite(t, i) PROVE Descends(id, m)
  <2>1. rows' = rows /\ Present(i) /\ ToUpsert(t, "touched", i, WithDeadline(Touched(rows[i])))
    BY <1>4 DEF QueryAndRewrite
  <2>2. rows[i] \in Row /\ IsVersion(i, rows[i])
    BY <1>0, <2>1, RowVersion DEF Present
  <2>3. DefaultTTL # Never => rows[i].deadline # Never
    BY <1>0, <2>2 DEF DefaultApplied
  <2>4. /\ Touched(rows[i]) \in Row /\ Touched(rows[i]).deadline = rows[i].deadline
        /\ Touched(rows[i]).state = rows[i].state
    BY <2>2, RowFacts DEF States
  <2>5. WithDeadline(Touched(rows[i])) = Touched(rows[i])
    BY <1>0, <2>3, <2>4, DeadlineFacts
  <2>6. "touched" \in PCs
    BY DEF PCs
  <2> QED BY <1>2, <2>1, <2>2, <2>4, <2>5, <2>6
<1>5. ASSUME NEW t \in Tasks, NEW i \in Ids, NEW s \in CallerTargets, UpdateState(t, i, s)
      PROVE  Descends(id, m)
  <2>1. rows' = rows /\ s \in States
    BY <1>5, TargetsAssumption DEF UpdateState
  <2>2. CASE Movable(i, s)
    <3>1. /\ ToUpsert(t, "moved", i, [rows[i] EXCEPT !.state = s]) /\ rows[i] \in Row
      BY <1>0, <1>5, <2>2, RowVersion DEF UpdateState, Movable, Present
    <3>2. /\ [rows[i] EXCEPT !.state = s] \in Row
          /\ [rows[i] EXCEPT !.state = s].deadline = rows[i].deadline
          /\ [rows[i] EXCEPT !.state = s].state = s
      BY <2>1, <3>1, RowFacts
    <3>3. "moved" \in PCs
      BY DEF PCs
    <3> QED BY <1>2, <2>1, <3>1, <3>2, <3>3
  <2>3. CASE ~Movable(i, s)
    <3>1. call' = call
      BY <1>5, <2>3 DEF UpdateState
    <3> QED BY <2>1, <3>1, Same DEF IsVersion
  <2> QED BY <2>2, <2>3
<1>6. ASSUME NEW t \in Tasks, Upsert(t) PROVE Descends(id, m)
  <2> DEFINE i == call[t].id
  <2>1. i \in Ids /\ call[t].m \in Row
    BY <1>0, <1>6 DEF FramesOK, FrameOK, Upsert
  <2>2. rows' = [rows EXCEPT ![i] = call[t].m] /\ Return(t)
    BY <1>6 DEF Upsert
  <2>3. /\ call'[t].id = NoRow /\ call'[t].m = NoRow /\ call'[t].work[id] = NoRow
        /\ \A u \in Tasks \ {t} : call'[u] = call[u]
    BY <1>0, <2>2, ReturnFrame, IdleFacts
  <2>4. m # NoRow
    BY <1>0
  <2>5. m = rows'[id] \/ IsVersion(id, m)
    BY <2>3, <2>4, Origin
  <2>6. rows'[id] = rows[id] \/ (id = i /\ rows'[id] = call[t].m)
    BY <1>0, <2>1, <2>2 DEF TypeOK
  <2>7. IsVersion(id, m)
    BY <2>1, <2>5, <2>6 DEF IsVersion
  <2> QED BY <2>7, Same
<1>7. ASSUME NEW t \in Tasks, NEW i \in Ids, Delete(t, i) PROVE Descends(id, m)
  <2>1. rows' = [rows EXCEPT ![i] = NoRow] /\ call' = call
    BY <1>7 DEF Delete
  <2>2. rows'[id] = rows[id] \/ rows'[id] = NoRow
    BY <1>0, <2>1 DEF TypeOK
  <2>3. IsVersion(id, m)
    BY <1>0, <2>1, <2>2 DEF IsVersion
  <2> QED BY <2>3, Same
<1>8. ASSUME NEW t \in Tasks, ExpireStale(t) PROVE Descends(id, m)
  <2>1. /\ call'[t].m = NoRow /\ call'[t].work[id] = NoRow
        /\ \A u \in Tasks \ {t} : call'[u] = call[u]
    BY <1>0, <1>8, ListFrame
  <2>2. rows' = rows /\ m # NoRow
    BY <1>0, <1>8 DEF ExpireStale
  <2>3. m = rows'[id] \/ IsVersion(id, m)
    BY <2>1, <2>2, Origin
  <2>4. IsVersion(id, m)
    BY <2>2, <2>3 DEF IsVersion
  <2> QED BY <2>4, Same
<1>9. ASSUME NEW t \in Tasks, ExpireList(t) PROVE Descends(id, m)
  <2>1. PICK work \in [Ids -> Row \cup {NoRow}] :
          /\ \A i \in Ids :
               work[i] = IF Due(rows[i], call[t].now) THEN rows[i] ELSE NoRow
          /\ IF \E i \in Ids : work[i] # NoRow
               THEN call' = [call EXCEPT ![t].pc = "sweep", ![t].work = work]
               ELSE Return(t)
    BY <1>0, <1>9, WorkFacts
  <2>2. rows' = rows /\ m # NoRow
    BY <1>0, <1>9 DEF ExpireList
  <2>3. CASE \E i \in Ids : work[i] # NoRow
    <3>1. /\ call'[t].id = call[t].id /\ call'[t].m = call[t].m /\ call'[t].work = work
          /\ \A u \in Tasks \ {t} : call'[u] = call[u]
      BY <1>0, <2>1, <2>3, SweepFrame
    <3>2. \/ m = rows'[id] \/ (call'[t].id = id /\ m = call'[t].m)
          \/ m = call'[t].work[id] \/ IsVersion(id, m)
      BY <3>1, Origin
    <3>3. m = work[id] => m = rows[id]
      BY <2>1, <2>2
    <3>4. IsVersion(id, m)
      BY <2>2, <3>1, <3>2, <3>3 DEF IsVersion
    <3> QED BY <3>4, Same
  <2>4. CASE ~ \E i \in Ids : work[i] # NoRow
    <3>1. /\ call'[t].m = NoRow /\ call'[t].work[id] = NoRow
          /\ \A u \in Tasks \ {t} : call'[u] = call[u]
      BY <1>0, <2>1, <2>4, ReturnFrame, IdleFacts
    <3>2. m = rows'[id] \/ IsVersion(id, m)
      BY <2>2, <3>1, Origin
    <3>3. IsVersion(id, m)
      BY <2>2, <3>2 DEF IsVersion
    <3> QED BY <3>3, Same
  <2> QED BY <2>3, <2>4
<1>10. ASSUME NEW t \in Tasks, ExpireOne(t) PROVE Descends(id, m)
  <2>1. PICK i \in Ids :
          /\ call[t].work[i] \in Row /\ call[t].work[i] # NoRow
          /\ rows' = [rows EXCEPT ![i] = [call[t].work[i] EXCEPT !.state = "expired"]]
          /\ \A u \in Tasks \ {t} : call'[u] = call[u]
          /\ \/ call'[t] = Idle
             \/ /\ call'[t].id = call[t].id /\ call'[t].m = call[t].m
                /\ call'[t].work[i] = NoRow
                /\ \A j \in Ids \ {i} : call'[t].work[j] = call[t].work[j]
    BY <1>0, <1>10, TurnFacts
  <2> DEFINE w == call[t].work[i]
  <2>2. w \in Row /\ IsVersion(i, w)
    BY <2>1 DEF IsVersion
  <2>3. Expired(w, clock)
    <3>1. Due(w, call[t].now) /\ call[t].now <= clock /\ call[t].now \in Nat
      BY <1>0, <2>1 DEF FramesOK, FrameOK, TypeOK, Calls
    <3>2. w.deadline \in Nat \/ w.deadline = Never
      BY <2>2 DEF Row
    <3> QED BY <1>0, <3>1, <3>2 DEF Due, Expired
  <2>4. m # NoRow
    BY <1>0
  <2>5. m = rows'[id] \/ IsVersion(id, m)
    <3>1. \/ m = rows'[id] \/ (call'[t].id = id /\ m = call'[t].m)
          \/ m = call'[t].work[id] \/ IsVersion(id, m)
      BY <2>1, Origin
    <3>2. CASE call'[t] = Idle
      BY <2>4, <3>1, <3>2, IdleFacts
    <3>3. CASE call'[t] # Idle
      BY <2>1, <2>4, <3>1, <3>3 DEF IsVersion
    <3> QED BY <3>2, <3>3
  <2>6. CASE m = rows'[id] /\ id = i
    <3>1. m = [w EXCEPT !.state = "expired"]
      BY <1>0, <2>1, <2>6 DEF TypeOK
    <3>2. m.deadline = w.deadline
      BY <2>2, <3>1, RowFacts DEF States
    <3>3. Expired(m, clock)
      BY <2>3, <3>2 DEF Expired
    <3> QED BY <2>2, <2>6, <3>2, <3>3 DEF Descends
  <2>7. CASE m = rows'[id] /\ id # i
    <3>1. m = rows[id]
      BY <1>0, <2>1, <2>7 DEF TypeOK
    <3> QED BY <3>1, Same DEF IsVersion
  <2> QED BY <2>5, <2>6, <2>7, Same
<1>11. ASSUME Crash PROVE Descends(id, m)
  <2>1. \A t \in Tasks : call'[t] = Idle
    BY <1>11 DEF Crash
  <2>2. m # NoRow /\ rows' = rows
    BY <1>0, <1>11 DEF Crash
  <2>3. IsVersion(id, m)
    BY <2>1, <2>2, IdleFacts DEF IsVersion
  <2> QED BY <2>3, Same
<1>12. ASSUME Tick PROVE Descends(id, m)
  <2>1. UNCHANGED <<rows, call>>
    BY <1>12 DEF Tick
  <2> QED BY <2>1, Same DEF IsVersion
<1> QED
  BY <1>1, <1>3, <1>4, <1>5, <1>6, <1>7, <1>8, <1>9, <1>10, <1>11, <1>12
     DEF Next, Start, Proceed

-----------------------------------------------------------------------------
(* The invariant is inductive.                                              *)

\* Frames stay as they are while one task moves.
LEMMA OthersOK ==
  ASSUME FramesOK, NEW t \in Tasks, \A u \in Tasks \ {t} : call'[u] = call[u],
         clock' = clock, FrameOK(call[t])'
  PROVE  FramesOK'
<1> SUFFICES ASSUME NEW u \in Tasks PROVE FrameOK(call[u])'
  BY DEF FramesOK
<1>1. CASE u = t
  BY <1>1
<1>2. CASE u # t
  BY <1>2 DEF FramesOK, FrameOK
<1> QED BY <1>1, <1>2

\* The frame of a call on its way to an upsert is in order.
LEMMA UpsertFrameOK ==
  ASSUME TypeOK, FramesOK, Unused, NEW t \in Tasks, NEW pc \in PCs, NEW id \in Ids,
         NEW m \in Row, ToUpsert(t, pc, id, m), UNCHANGED <<rows, used, clock, accesses>>
  PROVE  FramesOK' /\ Unused' /\ call' \in [Tasks -> Calls]
<1>1. /\ call' \in [Tasks -> Calls]
      /\ call'[t].id = id /\ call'[t].m = m /\ call'[t].now = 0
      /\ \A i \in Ids : call'[t].work[i] = NoRow
      /\ \A u \in Tasks \ {t} : call'[u] = call[u]
  BY UpsertFrame
<1>2. FrameOK(call[t])'
  BY <1>1, BoundsAssumption DEF FrameOK, TypeOK
<1>3. FramesOK'
  BY <1>1, <1>2, OthersOK
<1>4. Unused'
  BY <1>1 DEF Unused
<1> QED BY <1>1, <1>3, <1>4

\* So is an idle one.
LEMMA ReturnOK ==
  ASSUME TypeOK, FramesOK, NEW t \in Tasks, Return(t), clock' = clock
  PROVE  FramesOK' /\ call' \in [Tasks -> Calls]
<1>1. /\ call' \in [Tasks -> Calls] /\ call'[t] = Idle
      /\ \A u \in Tasks \ {t} : call'[u] = call[u]
  BY ReturnFrame
<1>2. FrameOK(call[t])'
  BY <1>1, IdleFacts, BoundsAssumption DEF FrameOK, TypeOK
<1> QED BY <1>1, <1>2, OthersOK

\* Types, frames and the versions of unused ids in the initial state.
LEMMA BaseInit == Init => TypeOK /\ FramesOK /\ Unused
<1> SUFFICES ASSUME Init PROVE TypeOK /\ FramesOK /\ Unused
  OBVIOUS
<1>1. TypeOK
  BY IdleFacts, BoundsAssumption DEF Init, TypeOK
<1>2. FramesOK
  BY IdleFacts DEF Init, FramesOK, FrameOK
<1>3. Unused
  BY IdleFacts DEF Init, Unused
<1> QED BY <1>1, <1>2, <1>3

\* Every step keeps them.
LEMMA BaseStep ==
  ASSUME ManagerInv, Next
  PROVE  TypeOK' /\ FramesOK' /\ Unused'
<1> DEFINE Goal == TypeOK' /\ FramesOK' /\ Unused'
<1>0. /\ TypeOK /\ FramesOK /\ Unused /\ DefaultApplied /\ clock \in Nat
      /\ NoRow \notin Row
  BY BoundsAssumption, AbsentAssumption DEF ManagerInv, TypeOK
<1>a. ASSUME NEW t \in Tasks, Begin(t) PROVE calls' \in 0..MaxCalls
  BY <1>0, <1>a, BoundsAssumption DEF Begin, TypeOK
<1>b. ASSUME NEW t \in Tasks, Continue(t) PROVE calls' \in 0..MaxCalls
  BY <1>0, <1>b DEF Continue, TypeOK
<1>c. ASSUME NEW t \in Tasks, NEW pc \in PCs, NEW id \in Ids, NEW m \in Row,
             ToUpsert(t, pc, id, m), UNCHANGED <<rows, used, clock, accesses>>,
             calls' \in 0..MaxCalls
      PROVE  Goal
  <2>1. FramesOK' /\ Unused' /\ call' \in [Tasks -> Calls]
    BY <1>0, <1>c, UpsertFrameOK
  <2>2. TypeOK'
    BY <1>0, <1>c, <2>1 DEF TypeOK
  <2> QED BY <2>1, <2>2
<1>d. ASSUME UNCHANGED <<rows, used, clock, call, accesses>>, calls' \in 0..MaxCalls
      PROVE  Goal
  <2>1. TypeOK'
    BY <1>0, <1>d DEF TypeOK
  <2>2. FramesOK' /\ Unused'
    BY <1>0, <1>d DEF FramesOK, FrameOK, Unused
  <2> QED BY <2>1, <2>2
<1>1. ASSUME NEW t \in Tasks, Write(t) PROVE Goal
  <2>1. PICK i \in Fresh, d \in GivenDeadlines :
          ToUpsert(t, "insert", i,
            WithDeadline([state |-> "active", deadline |-> d, touches |-> 0]))
    BY <1>1 DEF Write
  <2> DEFINE r == [state |-> "active", deadline |-> d, touches |-> 0]
  <2>2. r \in Row
    BY DeadlinesAssumption DEF Row, States
  <2> HIDE DEF r
  <2>3. WithDeadline(r) \in Row
    BY <1>0, <2>2, DeadlineFacts
  <2>4. ToUpsert(t, "insert", i, WithDeadline(r)) /\ i \in Ids /\ "insert" \in PCs
    BY <2>1 DEF r, Fresh, PCs
  <2>5. calls' \in 0..MaxCalls /\ UNCHANGED <<rows, used, clock, accesses>>
    BY <1>1, <1>a DEF Write
  <2> QED BY <1>c, <2>3, <2>4, <2>5
<1>2. ASSUME NEW t \in Tasks, NEW i \in Ids, Get(t, i) PROVE Goal
  <2>1. calls' \in 0..MaxCalls /\ UNCHANGED <<rows, used, clock, accesses>>
    BY <1>2, <1>a DEF Get
  <2>2. CASE Present(i)
    <3>1. ToUpsert(t, "touched", i, Touched(rows[i])) /\ rows[i] \in Row /\ "touched" \in PCs
      BY <1>0, <1>2, <2>2, RowVersion DEF Get, Present, PCs
    <3>2. Touched(rows[i]) \in Row
      BY <3>1, RowFacts DEF States
    <3> QED BY <1>c, <2>1, <3>1, <3>2
  <2>3. CASE ~Present(i)
    BY <1>2, <1>d, <2>1, <2>3 DEF Get
  <2> QED BY <2>2, <2>3
<1>3. ASSUME NEW t \in Tasks, NEW i \in Ids, QueryAndRewrite(t, i) PROVE Goal
  <2>1. /\ calls' \in 0..MaxCalls /\ UNCHANGED <<rows, used, clock, accesses>>
        /\ ToUpsert(t, "touched", i, WithDeadline(Touched(rows[i]))) /\ "touched" \in PCs
        /\ rows[i] \in Row
    BY <1>0, <1>3, <1>a, RowVersion DEF QueryAndRewrite, Present, PCs
  <2>2. Touched(rows[i]) \in Row
    BY <2>1, RowFacts DEF States
  <2>3. WithDeadline(Touched(rows[i])) \in Row
    BY <1>0, <2>2, DeadlineFacts
  <2> QED BY <1>c, <2>1, <2>3
<1>4. ASSUME NEW t \in Tasks, NEW i \in Ids, NEW s \in CallerTargets, UpdateState(t, i, s)
      PROVE  Goal
  <2>1. /\ calls' \in 0..MaxCalls /\ UNCHANGED <<rows, used, clock, accesses>>
        /\ s \in States
    BY <1>4, <1>a, TargetsAssumption DEF UpdateState
  <2>2. CASE Movable(i, s)
    <3>1. /\ ToUpsert(t, "moved", i, [rows[i] EXCEPT !.state = s]) /\ rows[i] \in Row
          /\ "moved" \in PCs
      BY <1>0, <1>4, <2>2, RowVersion DEF UpdateState, Movable, Present, PCs
    <3>2. [rows[i] EXCEPT !.state = s] \in Row
      BY <2>1, <3>1, RowFacts
    <3> QED BY <1>c, <2>1, <3>1, <3>2
  <2>3. CASE ~Movable(i, s)
    BY <1>4, <1>d, <2>1, <2>3 DEF UpdateState
  <2> QED BY <2>2, <2>3
<1>5. ASSUME NEW t \in Tasks, Upsert(t) PROVE Goal
  <2> DEFINE i == call[t].id
  <2>1. i \in Ids /\ call[t].m \in Row
    BY <1>0, <1>5 DEF FramesOK, FrameOK, Upsert
  <2>2. /\ rows' = [rows EXCEPT ![i] = call[t].m] /\ used' = used \cup {i} /\ Return(t)
        /\ clock' = clock /\ calls' \in 0..MaxCalls
        /\ accesses' = accesses \/ accesses' = [accesses EXCEPT ![i] = @ + 1]
    BY <1>5, <1>b DEF Upsert
  <2>3. FramesOK' /\ call' \in [Tasks -> Calls]
    BY <1>0, <2>2, ReturnOK
  <2>4. accesses' \in [Ids -> Nat]
    BY <1>0, <2>1, <2>2 DEF TypeOK
  <2>5. rows' \in [Ids -> Row \cup {NoRow}] /\ used' \subseteq Ids
    BY <1>0, <2>1, <2>2 DEF TypeOK
  <2>6. TypeOK'
    BY <1>0, <2>2, <2>3, <2>4, <2>5 DEF TypeOK
  <2>7. Unused'
    <3> SUFFICES ASSUME NEW id \in Ids \ used'
                 PROVE  rows'[id] = NoRow /\ \A u \in Tasks : call'[u].work[id] = NoRow
      BY DEF Unused
    <3>1. id \notin used /\ id # i
      BY <2>2
    <3>2. rows'[id] = rows[id]
      BY <1>0, <2>1, <2>2, <3>1 DEF TypeOK
    <3>3. \A u \in Tasks : call'[u] = call[u] \/ call'[u] = Idle
      BY <1>0, <2>2, ReturnFrame
    <3> QED BY <1>0, <3>1, <3>2, <3>3, IdleFacts DEF Unused
  <2> QED BY <2>3, <2>6, <2>7
<1>6. ASSUME NEW t \in Tasks, NEW i \in Ids, Delete(t, i) PROVE Goal
  <2>1. /\ rows' = [rows EXCEPT ![i] = NoRow] /\ UNCHANGED <<used, clock, call, accesses>>
        /\ calls' \in 0..MaxCalls
    BY <1>6, <1>a DEF Delete
  <2>2. TypeOK'
    BY <1>0, <2>1 DEF TypeOK
  <2>3. FramesOK'
    BY <1>0, <2>1 DEF FramesOK, FrameOK
  <2>4. Unused'
    BY <1>0, <2>1 DEF Unused, TypeOK
  <2> QED BY <2>2, <2>3, <2>4
<1>7. ASSUME NEW t \in Tasks, ExpireStale(t) PROVE Goal
  <2>1. /\ UNCHANGED <<rows, used, clock, accesses>> /\ calls' \in 0..MaxCalls
    BY <1>7, <1>a DEF ExpireStale
  <2>2. /\ call' \in [Tasks -> Calls]
        /\ call'[t].pc = "list" /\ call'[t].now = clock
        /\ \A j \in Ids : call'[t].work[j] = NoRow
        /\ \A u \in Tasks \ {t} : call'[u] = call[u]
    BY <1>0, <1>7, ListFrame
  <2>3. FrameOK(call[t])'
    BY <1>0, <2>1, <2>2 DEF FrameOK
  <2>4. FramesOK'
    BY <1>0, <2>1, <2>2, <2>3, OthersOK
  <2>5. Unused'
    BY <1>0, <2>1, <2>2 DEF Unused
  <2>6. TypeOK'
    BY <1>0, <2>1, <2>2 DEF TypeOK
  <2> QED BY <2>4, <2>5, <2>6
<1>8. ASSUME NEW t \in Tasks, ExpireList(t) PROVE Goal
  <2>1. PICK work \in [Ids -> Row \cup {NoRow}] :
          /\ \A i \in Ids :
               work[i] = IF Due(rows[i], call[t].now) THEN rows[i] ELSE NoRow
          /\ IF \E i \in Ids : work[i] # NoRow
               THEN call' = [call EXCEPT ![t].pc = "sweep", ![t].work = work]
               ELSE Return(t)
    BY <1>0, <1>8, WorkFacts
  <2>2. UNCHANGED <<rows, used, clock, accesses>> /\ calls' \in 0..MaxCalls
    BY <1>8, <1>b DEF ExpireList
  <2>3. CASE \E i \in Ids : work[i] # NoRow
    <3>1. /\ call' \in [Tasks -> Calls] /\ call'[t].pc = "sweep"
          /\ call'[t].now = call[t].now /\ call'[t].work = work
          /\ \A u \in Tasks \ {t} : call'[u] = call[u]
      BY <1>0, <2>1, <2>3, SweepFrame
    <3>2. FrameOK(call[t])'
      BY <1>0, <2>1, <2>2, <3>1 DEF FrameOK, FramesOK
    <3>3. FramesOK'
      BY <1>0, <2>2, <3>1, <3>2, OthersOK
    <3>4. Unused'
      BY <1>0, <2>1, <2>2, <3>1 DEF Unused
    <3>5. TypeOK'
      BY <1>0, <2>2, <3>1 DEF TypeOK
    <3> QED BY <3>3, <3>4, <3>5
  <2>4. CASE ~ \E i \in Ids : work[i] # NoRow
    <3>1. FramesOK' /\ call' \in [Tasks -> Calls]
      BY <1>0, <2>1, <2>2, <2>4, ReturnOK
    <3>2. \A u \in Tasks : call'[u] = call[u] \/ call'[u] = Idle
      BY <1>0, <2>1, <2>4, ReturnFrame
    <3>3. Unused'
      BY <1>0, <2>2, <3>2, IdleFacts DEF Unused
    <3>4. TypeOK'
      BY <1>0, <2>2, <3>1 DEF TypeOK
    <3> QED BY <3>1, <3>3, <3>4
  <2> QED BY <2>3, <2>4
<1>9. ASSUME NEW t \in Tasks, ExpireOne(t) PROVE Goal
  <2>1. PICK i \in Ids :
          /\ call[t].work[i] \in Row /\ call[t].work[i] # NoRow
          /\ rows' = [rows EXCEPT ![i] = [call[t].work[i] EXCEPT !.state = "expired"]]
          /\ call' \in [Tasks -> Calls]
          /\ \A u \in Tasks \ {t} : call'[u] = call[u]
          /\ \/ call'[t] = Idle
             \/ /\ call'[t].pc = "sweep" /\ call'[t].now = call[t].now
                /\ call'[t].work[i] = NoRow
                /\ \A j \in Ids \ {i} : call'[t].work[j] = call[t].work[j]
    BY <1>0, <1>9, TurnFacts
  <2>2. UNCHANGED <<used, clock, accesses>> /\ calls' \in 0..MaxCalls
    BY <1>9, <1>b DEF ExpireOne
  <2>3. [call[t].work[i] EXCEPT !.state = "expired"] \in Row
    BY <2>1, RowFacts DEF States
  <2>4. rows' \in [Ids -> Row \cup {NoRow}]
    BY <1>0, <2>1, <2>3 DEF TypeOK
  <2>5. TypeOK'
    BY <1>0, <2>1, <2>2, <2>4 DEF TypeOK
  <2>6. FrameOK(call[t])'
    <3>1. CASE call'[t] = Idle
      BY <1>0, <2>2, <3>1, IdleFacts DEF FrameOK
    <3>2. CASE call'[t] # Idle
      BY <1>0, <2>1, <2>2, <3>2 DEF FrameOK, FramesOK
    <3> QED BY <3>1, <3>2
  <2>7. FramesOK'
    BY <1>0, <2>1, <2>2, <2>6, OthersOK
  <2>8. Unused'
    <3> SUFFICES ASSUME NEW id \in Ids \ used
                 PROVE  rows'[id] = NoRow /\ \A u \in Tasks : call'[u].work[id] = NoRow
      BY <2>2 DEF Unused
    <3>1. rows[id] = NoRow /\ \A u \in Tasks : call[u].work[id] = NoRow
      BY <1>0 DEF Unused
    <3>2. id # i
      BY <2>1, <3>1
    <3>3. rows'[id] = NoRow
      BY <1>0, <2>1, <3>1, <3>2 DEF TypeOK
    <3>4. call'[t].work[id] = NoRow
      BY <2>1, <3>1, <3>2, IdleFacts
    <3> QED BY <2>1, <3>1, <3>3, <3>4
  <2> QED BY <2>5, <2>7, <2>8
<1>10. ASSUME Crash PROVE Goal
  <2>1. /\ call' = [t \in Tasks |-> Idle]
        /\ UNCHANGED <<rows, used, clock, calls, accesses>>
    BY <1>10 DEF Crash
  <2>2. TypeOK'
    BY <1>0, <2>1, IdleFacts DEF TypeOK
  <2>3. FramesOK'
    BY <1>0, <2>1, IdleFacts DEF FramesOK, FrameOK
  <2>4. Unused'
    BY <1>0, <2>1, IdleFacts DEF Unused
  <2> QED BY <2>2, <2>3, <2>4
<1>11. ASSUME Tick PROVE Goal
  <2>1. /\ clock < MaxClock /\ clock' = clock + 1
        /\ UNCHANGED <<rows, used, call, calls, accesses>>
    BY <1>11 DEF Tick
  <2>2. TypeOK'
    BY <1>0, <2>1, BoundsAssumption DEF TypeOK
  <2>3. FramesOK'
    <3> SUFFICES ASSUME NEW t \in Tasks PROVE FrameOK(call[t])'
      BY DEF FramesOK
    <3>1. FrameOK(call[t]) /\ call[t].now \in Nat
      BY <1>0 DEF FramesOK, TypeOK, Calls
    <3> QED BY <1>0, <2>1, <3>1 DEF FrameOK
  <2>4. Unused'
    BY <1>0, <2>1 DEF Unused
  <2> QED BY <2>2, <2>3, <2>4
<1> QED
  BY <1>1, <1>2, <1>3, <1>4, <1>5, <1>6, <1>7, <1>8, <1>9, <1>10, <1>11
     DEF Next, Start, Proceed

\* A memory has at most one deadline after a step too.
LEMMA VersionsKept ==
  ASSUME ManagerInv, Next
  PROVE  OneDeadline' /\ DefaultApplied' /\ ExpiredVersionsDue'
<1>0. /\ OneDeadline /\ DefaultApplied /\ ExpiredVersionsDue /\ clock \in Nat
      /\ clock' \in Nat /\ clock <= clock'
  <2>1. clock' = clock \/ clock' = clock + 1
    BY DEF Next, Start, Proceed, Write, Get, QueryAndRewrite, UpdateState, Upsert, Delete,
           ExpireStale, ExpireList, ExpireOne, Crash, Tick
  <2> QED BY <2>1, BoundsAssumption DEF ManagerInv, TypeOK
<1>1. ASSUME NEW id \in Ids, NEW m \in Row, IsVersion(id, m)' PROVE Descends(id, m)
  BY <1>1, VersionsStep
<1>2. OneDeadline'
  <2> SUFFICES ASSUME NEW id \in Ids, NEW m \in Row, NEW n \in Row,
                      IsVersion(id, m)', IsVersion(id, n)'
               PROVE  m.deadline = n.deadline
    BY DEF OneDeadline
  <2>1. Descends(id, m) /\ Descends(id, n)
    BY <1>1
  <2> QED BY <1>0, <2>1 DEF Descends, OneDeadline
<1>3. DefaultApplied'
  <2> SUFFICES ASSUME DefaultTTL # Never, NEW id \in Ids, NEW m \in Row, IsVersion(id, m)'
               PROVE  m.deadline # Never
    BY DEF DefaultApplied
  <2>1. Descends(id, m)
    BY <1>1
  <2> QED BY <1>0, <2>1 DEF Descends, DefaultApplied
<1>4. ExpiredVersionsDue'
  <2> SUFFICES ASSUME "expired" \notin CallerTargets, NEW id \in Ids, NEW m \in Row,
                      IsVersion(id, m)', m.state = "expired"
               PROVE  Expired(m, clock')
    BY DEF ExpiredVersionsDue, Expired
  <2>1. Expired(m, clock)
    BY <1>0, <1>1 DEF Descends, ExpiredVersionsDue, Expired
  <2>2. m.deadline \in Nat \/ m.deadline = Never
    BY DEF Row
  <2> QED BY <1>0, <2>1, <2>2 DEF Expired
<1> QED BY <1>2, <1>3, <1>4

\* No version is there in the initial state.
LEMMA VersionsInit == Init => OneDeadline /\ DefaultApplied /\ ExpiredVersionsDue
<1> SUFFICES ASSUME Init, NEW id \in Ids, NEW m \in Row PROVE ~IsVersion(id, m)
  BY DEF OneDeadline, DefaultApplied, ExpiredVersionsDue
<1> QED BY IdleFacts, AbsentAssumption DEF Init, IsVersion

\* ManagerInv is an invariant for every set of tasks and ids, overlapping calls
\* and crashes included (mocks/_base.py over persistence/memory_store.py).
THEOREM Invariance == Spec => []ManagerInv
<1>1. Init => ManagerInv
  BY BaseInit, VersionsInit DEF ManagerInv
<1>2. ManagerInv /\ [Next]_vars => ManagerInv'
  <2> SUFFICES ASSUME ManagerInv, [Next]_vars PROVE ManagerInv'
    OBVIOUS
  <2>1. CASE Next
    BY <2>1, BaseStep, VersionsKept DEF ManagerInv
  <2>2. CASE UNCHANGED vars
    BY <2>2 DEF vars, ManagerInv, TypeOK, FramesOK, FrameOK, Unused, OneDeadline,
                DefaultApplied, ExpiredVersionsDue, IsVersion
  <2> QED BY <2>1, <2>2
<1> QED BY <1>1, <1>2, PTL DEF Spec

\* MemoryManager is type correct.
THEOREM TypeCorrect == Spec => []TypeOK
<1>1. ManagerInv => TypeOK
  BY DEF ManagerInv
<1> QED BY <1>1, Invariance, PTL

\* When callers leave EXPIRED to the sweep, a memory is EXPIRED only after its
\* deadline, whatever copies are written back (expire_stale in mocks/_base.py).
THEOREM OnlyDueExpire == Spec => []ExpiredOnlyWhenDue
<1>1. ManagerInv => ExpiredOnlyWhenDue
  BY RowVersion DEF ManagerInv, ExpiredVersionsDue, ExpiredOnlyWhenDue, Present
<1> QED BY <1>1, Invariance, PTL

\* The deadline of a stored memory never changes: no access, rewrite,
\* transition or sweep extends or clears it, stale copies included.
THEOREM DeadlinesAreFixed == Spec => DeadlineWriteOnce
<1> DEFINE Same1 == \A id \in Ids :
                      Present(id) /\ Present(id)' => rows'[id].deadline = rows[id].deadline
<1>1. ManagerInv /\ ManagerInv' /\ [Next]_vars => [Same1]_vars
  <2> SUFFICES ASSUME ManagerInv, ManagerInv', Next, NEW id \in Ids,
                      Present(id), Present(id)'
               PROVE  rows'[id].deadline = rows[id].deadline
    BY DEF vars
  <2>1. rows[id] \in Row /\ IsVersion(id, rows[id])
    BY RowVersion DEF ManagerInv, Present
  <2>2. PICK m \in Row : m = rows'[id]
    BY DEF ManagerInv, TypeOK, Present
  <2>3. IsVersion(id, m)'
    BY <2>2 DEF IsVersion
  <2>4. Descends(id, m)
    BY <2>3, VersionsStep
  <2> QED BY <2>1, <2>2, <2>4 DEF Descends, ManagerInv, OneDeadline
<1> QED BY <1>1, Invariance, PTL DEF Spec, DeadlineWriteOnce

-----------------------------------------------------------------------------
(* When the calls of a manager do not overlap.                              *)

OneCall ==
  \A t, u \in Tasks : t # u => call[t].pc = "idle" \/ call[u].pc = "idle"

\* What a call has read is what the store has: its copy is the present row,
\* touched or moved, and the list of a sweep is what is due.
Current(f) ==
  /\ f.pc = "insert" => f.id \notin used /\ f.m.state = "active" /\ f.m.touches = 0
  /\ f.pc = "touched" => Present(f.id) /\ f.m = Touched(rows[f.id])
  /\ f.pc = "moved" =>
       /\ Present(f.id)
       /\ \E s \in States : /\ CanTransition(rows[f.id].state, s)
                           /\ f.m = [rows[f.id] EXCEPT !.state = s]
  /\ f.pc = "sweep" =>
       \A id \in Ids : f.work[id] = IF Due(rows[id], f.now) THEN rows[id] ELSE NoRow

InTurnInv ==
  /\ OneCall
  /\ \A t \in Tasks : Current(call[t])
  /\ AccessesCounted
  /\ \A id \in Ids \ used : accesses[id] = 0

\* A step of the only call that is under way.
LEMMA OnlyOne ==
  ASSUME ~Overlap, NEW t \in Tasks, MayRun(t),
         \A u \in Tasks \ {t} : call'[u] = call[u], Current(call[t])'
  PROVE  OneCall' /\ \A u \in Tasks : Current(call[u])'
<1>1. \A u \in Tasks \ {t} : call'[u].pc = "idle"
  BY DEF MayRun
<1>2. OneCall'
  BY <1>1 DEF OneCall
<1>3. \A u \in Tasks \ {t} : Current(call[u])'
  BY <1>1 DEF Current
<1> QED BY <1>2, <1>3

\* An idle call has read nothing.
LEMMA IdleCurrent == ASSUME NEW t \in Tasks, call'[t] = Idle PROVE Current(call[t])'
  BY IdleFacts DEF Current

\* Counts stay right while rows, ids and counts stay.
LEMMA CountsStay ==
  ASSUME InTurnInv, UNCHANGED <<rows, used, accesses>>
  PROVE  AccessesCounted' /\ \A id \in Ids \ used' : accesses'[id] = 0
  BY DEF InTurnInv, AccessesCounted, Present

\* The invariant holds in the initial state.
LEMMA InTurnInit == Init => InTurnInv
<1> SUFFICES ASSUME Init PROVE InTurnInv
  OBVIOUS
<1>1. OneCall
  BY IdleFacts DEF Init, OneCall
<1>2. \A t \in Tasks : Current(call[t])
  BY IdleFacts DEF Init, Current
<1>3. AccessesCounted /\ \A id \in Ids \ used : accesses[id] = 0
  BY DEF Init, AccessesCounted, Present
<1> QED BY <1>1, <1>2, <1>3 DEF InTurnInv

\* The upsert of a call that runs alone: the new row, and what it means for the
\* contract: a creation, an access or a transition of one row.
LEMMA UpsertAlone ==
  ASSUME ManagerInv, InTurnInv, NEW t \in Tasks, Upsert(t)
  PROVE  \E id \in Ids :
           /\ \/ Contract!Create(id)
              \/ Contract!Touch(id)
              \/ \E s \in States : Contract!Move(id, s)
           /\ used' = used \cup {id}
           /\ rows'[id] \in Row /\ \A i \in Ids \ {id} : rows'[i] = rows[i]
           /\ rows'[id].touches = accesses'[id]
           /\ \A i \in Ids \ {id} : accesses'[i] = accesses[i]
<1> DEFINE id == call[t].id
           m == call[t].m
<1>0. /\ TypeOK /\ Unused /\ NoRow \notin Row /\ Current(call[t]) /\ AccessesCounted
      /\ \A i \in Ids \ used : accesses[i] = 0
  BY AbsentAssumption DEF ManagerInv, InTurnInv
<1>1. id \in Ids /\ m \in Row
  BY DEF ManagerInv, FramesOK, FrameOK, Upsert
<1>2. /\ rows' = [rows EXCEPT ![id] = m] /\ used' = used \cup {id}
      /\ accesses' = IF call[t].pc = "touched" THEN [accesses EXCEPT ![id] = @ + 1] ELSE accesses
      /\ call[t].pc \in {"insert", "touched", "moved"}
  BY DEF Upsert
<1> HIDE DEF id, m
<1>3. rows'[id] = m /\ \A i \in Ids \ {id} : rows'[i] = rows[i]
  BY <1>0, <1>1, <1>2 DEF TypeOK
<1>4. \A i \in Ids \ {id} : accesses'[i] = accesses[i]
  BY <1>0, <1>1, <1>2 DEF TypeOK
<1>5. accesses[id] \in Nat /\ accesses \in [Ids -> Nat]
  BY <1>0, <1>1 DEF TypeOK
<1>6. CASE call[t].pc = "insert"
  <2>1. id \notin used /\ m.state = "active" /\ m.touches = 0 /\ accesses' = accesses
    BY <1>0, <1>2, <1>6 DEF Current, id, m
  <2>2. accesses'[id] = 0
    BY <1>0, <1>1, <2>1
  <2>3. Contract!Create(id)
    BY <1>1, <1>2, <1>3, <2>1 DEF Contract!Create, Contract!Row, Contract!States, Row, States
  <2> QED BY <1>1, <1>2, <1>3, <1>4, <2>1, <2>2, <2>3
<1>7. CASE call[t].pc = "touched"
  <2>1. Present(id) /\ m = Touched(rows[id])
    BY <1>0, <1>7 DEF Current, id, m
  <2>2. rows[id] \in Row /\ id \in used /\ rows[id].touches = accesses[id]
    BY <1>0, <1>1, <2>1, RowVersion DEF Present, Unused, AccessesCounted
  <2>3. m.touches = rows[id].touches + 1
    BY <2>1, <2>2, RowFacts DEF States
  <2>4. accesses'[id] = accesses[id] + 1
    BY <1>1, <1>2, <1>5, <1>7
  <2>5. rows' = [rows EXCEPT ![id].touches = @ + 1]
    BY <1>0, <1>1, <1>2, <2>1 DEF Touched, TypeOK
  <2>6. Contract!Touch(id)
    BY <1>2, <2>1, <2>2, <2>5 DEF Contract!Touch, Contract!Present, Present
  <2> QED BY <1>1, <1>2, <1>3, <1>4, <2>2, <2>3, <2>4, <2>6
<1>8. CASE call[t].pc = "moved"
  <2>1. Present(id)
    BY <1>0, <1>8 DEF Current, id, m
  <2>2. PICK s \in States : CanTransition(rows[id].state, s) /\ m = [rows[id] EXCEPT !.state = s]
    BY <1>0, <1>8 DEF Current, id, m
  <2>3. rows[id] \in Row /\ id \in used /\ rows[id].touches = accesses[id]
    BY <1>0, <1>1, <2>1, RowVersion DEF Present, Unused, AccessesCounted
  <2>4. m.touches = rows[id].touches
    BY <2>2, <2>3, RowFacts
  <2>5. accesses'[id] = accesses[id]
    BY <1>2, <1>8
  <2>6. rows' = [rows EXCEPT ![id].state = s]
    BY <1>0, <1>1, <1>2, <2>2 DEF TypeOK
  <2>7. Contract!Move(id, s)
    BY <1>2, <2>1, <2>2, <2>3, <2>6
       DEF Contract!Move, Contract!Present, Contract!CanTransition,
           Contract!AllowedTransitions, Present, CanTransition, AllowedTransitions
  <2> QED BY <1>1, <1>2, <1>3, <1>4, <2>3, <2>4, <2>5, <2>7
<1> QED BY <1>2, <1>6, <1>7, <1>8

\* One turn of a sweep that runs alone expires one ACTIVE row.
LEMMA ExpireAlone ==
  ASSUME ManagerInv, InTurnInv, NEW t \in Tasks, ExpireOne(t)
  PROVE  \E id \in Ids :
           /\ Contract!Move(id, "expired")
           /\ Present(id) /\ rows'[id] \in Row
           /\ rows'[id].state = "expired" /\ rows'[id].touches = rows[id].touches
           /\ \A i \in Ids \ {id} : rows'[i] = rows[i]
           /\ \A u \in Tasks \ {t} : call'[u] = call[u]
           /\ \/ call'[t] = Idle /\ \A i \in Ids \ {id} : call[t].work[i] = NoRow
              \/ /\ call'[t].pc = "sweep" /\ call'[t].now = call[t].now
                 /\ call'[t].work[id] = NoRow
                 /\ \A i \in Ids \ {id} : call'[t].work[i] = call[t].work[i]
<1>0. TypeOK /\ NoRow \notin Row /\ Current(call[t]) /\ call[t].pc = "sweep"
  BY AbsentAssumption DEF ManagerInv, InTurnInv, ExpireOne
<1>1. PICK id \in Ids :
        /\ call[t].work[id] \in Row /\ call[t].work[id] # NoRow
        /\ rows' = [rows EXCEPT ![id] = [call[t].work[id] EXCEPT !.state = "expired"]]
        /\ \A u \in Tasks \ {t} : call'[u] = call[u]
        /\ \/ call'[t] = Idle /\ \A i \in Ids \ {id} : call[t].work[i] = NoRow
           \/ /\ call'[t].pc = "sweep" /\ call'[t].now = call[t].now
              /\ call'[t].work[id] = NoRow
              /\ \A i \in Ids \ {id} : call'[t].work[i] = call[t].work[i]
  BY <1>0, TurnFacts
<1>2. call[t].work[id] = rows[id] /\ rows[id] # NoRow /\ rows[id] \in Row
      /\ rows[id].state = "active"
  BY <1>0, <1>1 DEF Current, Due
<1>3. rows' = [rows EXCEPT ![id].state = "expired"]
  BY <1>0, <1>1, <1>2 DEF TypeOK
<1>4. rows'[id] = [rows[id] EXCEPT !.state = "expired"] /\ \A i \in Ids \ {id} : rows'[i] = rows[i]
  BY <1>0, <1>3 DEF TypeOK
<1>5. rows'[id] \in Row /\ rows'[id].state = "expired" /\ rows'[id].touches = rows[id].touches
  <2>1. "expired" \in States
    BY DEF States
  <2> QED BY <1>2, <1>4, <2>1, RowFacts
<1>6. used' = used
  BY DEF ExpireOne
<1>7. Contract!Move(id, "expired")
  BY <1>2, <1>3, <1>6
     DEF Contract!Move, Contract!Present, Contract!CanTransition, Contract!AllowedTransitions
<1> QED BY <1>1, <1>2, <1>4, <1>5, <1>7 DEF Present

\* Every step keeps the invariant of calls that do not overlap.
LEMMA InTurnStep ==
  ASSUME ~Overlap, ManagerInv, InTurnInv, Next
  PROVE  InTurnInv'
<1>0. /\ TypeOK /\ Unused /\ DefaultApplied /\ clock \in Nat /\ NoRow \notin Row
  BY BoundsAssumption, AbsentAssumption DEF ManagerInv, TypeOK
<1>a. ASSUME NEW t \in Tasks, MayRun(t), UNCHANGED <<rows, used, accesses>>,
             \A u \in Tasks \ {t} : call'[u] = call[u], Current(call[t])'
      PROVE  InTurnInv'
  BY <1>a, OnlyOne, CountsStay DEF InTurnInv
<1>b. ASSUME UNCHANGED <<rows, used, accesses, call>> PROVE InTurnInv'
  BY <1>b DEF InTurnInv, OneCall, Current, AccessesCounted, Present
<1>1. ASSUME NEW t \in Tasks, Write(t) PROVE InTurnInv'
  <2>1. PICK i \in Fresh, d \in GivenDeadlines :
          ToUpsert(t, "insert", i,
            WithDeadline([state |-> "active", deadline |-> d, touches |-> 0]))
    BY <1>1 DEF Write
  <2> DEFINE r == [state |-> "active", deadline |-> d, touches |-> 0]
             f == WithDeadline(r)
  <2>2. r \in Row /\ r.state = "active" /\ r.touches = 0
    BY DeadlinesAssumption DEF Row, States
  <2> HIDE DEF r
  <2>3. f \in Row /\ f.state = "active" /\ f.touches = 0
    BY <1>0, <2>2, DeadlineFacts
  <2>4. ToUpsert(t, "insert", i, f) /\ i \in Ids /\ i \notin used /\ "insert" \in PCs
    BY <2>1 DEF r, Fresh, PCs
  <2> HIDE DEF f
  <2>5. /\ call'[t].pc = "insert" /\ call'[t].id = i /\ call'[t].m = f
        /\ \A u \in Tasks \ {t} : call'[u] = call[u]
    BY <1>0, <2>3, <2>4, UpsertFrame
  <2>6. MayRun(t) /\ UNCHANGED <<rows, used, accesses>>
    BY <1>1 DEF Write, Begin
  <2>7. Current(call[t])'
    BY <2>3, <2>4, <2>5, <2>6 DEF Current
  <2> QED BY <1>a, <2>5, <2>6, <2>7
<1>2. ASSUME NEW t \in Tasks, NEW i \in Ids, MayRun(t), UNCHANGED <<rows, used, accesses>>,
             Present(i), ToUpsert(t, "touched", i, Touched(rows[i]))
      PROVE  InTurnInv'
  <2>1. Touched(rows[i]) \in Row /\ "touched" \in PCs
    BY <1>0, <1>2, RowVersion, RowFacts DEF Present, PCs, States
  <2>2. /\ call'[t].pc = "touched" /\ call'[t].id = i /\ call'[t].m = Touched(rows[i])
        /\ \A u \in Tasks \ {t} : call'[u] = call[u]
    BY <1>0, <1>2, <2>1, UpsertFrame
  <2>3. Current(call[t])'
    BY <1>2, <2>2 DEF Current, Present, Touched
  <2> QED BY <1>2, <1>a, <2>2, <2>3
<1>3. ASSUME NEW t \in Tasks, NEW i \in Ids, Get(t, i) PROVE InTurnInv'
  <2>1. MayRun(t) /\ UNCHANGED <<rows, used, accesses>>
    BY <1>3 DEF Get, Begin
  <2> QED BY <1>2, <1>3, <1>b, <2>1 DEF Get
<1>4. ASSUME NEW t \in Tasks, NEW i \in Ids, QueryAndRewrite(t, i) PROVE InTurnInv'
  <2>1. /\ MayRun(t) /\ UNCHANGED <<rows, used, accesses>> /\ Present(i)
        /\ ToUpsert(t, "touched", i, WithDeadline(Touched(rows[i])))
    BY <1>4 DEF QueryAndRewrite, Begin
  <2>2. rows[i] \in Row /\ (DefaultTTL # Never => rows[i].deadline # Never)
    BY <1>0, <2>1, RowVersion DEF DefaultApplied, Present
  <2>3. Touched(rows[i]) \in Row /\ Touched(rows[i]).deadline = rows[i].deadline
    BY <2>2, RowFacts DEF States
  <2>4. WithDeadline(Touched(rows[i])) = Touched(rows[i])
    BY <1>0, <2>2, <2>3, DeadlineFacts
  <2> QED BY <1>2, <2>1, <2>4
<1>5. ASSUME NEW t \in Tasks, NEW i \in Ids, NEW s \in CallerTargets, UpdateState(t, i, s)
      PROVE  InTurnInv'
  <2>1. MayRun(t) /\ UNCHANGED <<rows, used, accesses>> /\ s \in States
    BY <1>5, TargetsAssumption DEF UpdateState, Begin
  <2>2. CASE Movable(i, s)
    <3> DEFINE f == [rows[i] EXCEPT !.state = s]
    <3>1. ToUpsert(t, "moved", i, f) /\ Present(i) /\ CanTransition(rows[i].state, s)
      BY <1>5, <2>2 DEF UpdateState, Movable
    <3>2. f \in Row /\ "moved" \in PCs
      BY <1>0, <2>1, <3>1, RowVersion, RowFacts DEF Present, PCs
    <3>3. /\ call'[t].pc = "moved" /\ call'[t].id = i /\ call'[t].m = f
          /\ \A u \in Tasks \ {t} : call'[u] = call[u]
      BY <1>0, <3>1, <3>2, UpsertFrame
    <3>4. Current(call[t])'
      BY <2>1, <3>1, <3>3 DEF Current, Present, CanTransition
    <3> QED BY <1>a, <2>1, <3>3, <3>4
  <2>3. CASE ~Movable(i, s)
    BY <1>5, <1>b, <2>1, <2>3 DEF UpdateState
  <2> QED BY <2>2, <2>3
<1>6. ASSUME NEW t \in Tasks, Upsert(t) PROVE InTurnInv'
  <2>1. PICK id \in Ids :
           /\ used' = used \cup {id}
           /\ rows'[id] \in Row /\ \A i \in Ids \ {id} : rows'[i] = rows[i]
           /\ rows'[id].touches = accesses'[id]
           /\ \A i \in Ids \ {id} : accesses'[i] = accesses[i]
    BY <1>6, UpsertAlone
  <2>2. MayRun(t) /\ Return(t)
    BY <1>6 DEF Upsert, Continue
  <2>3. call'[t] = Idle /\ \A u \in Tasks \ {t} : call'[u] = call[u]
    BY <1>0, <2>2, ReturnFrame
  <2>4. OneCall' /\ \A u \in Tasks : Current(call[u])'
    BY <2>2, <2>3, IdleCurrent, OnlyOne
  <2>5. AccessesCounted'
    BY <2>1 DEF InTurnInv, AccessesCounted, Present
  <2>6. \A i \in Ids \ used' : accesses'[i] = 0
    BY <2>1 DEF InTurnInv
  <2> QED BY <2>4, <2>5, <2>6 DEF InTurnInv
<1>7. ASSUME NEW t \in Tasks, NEW i \in Ids, Delete(t, i) PROVE InTurnInv'
  <2>1. /\ MayRun(t) /\ rows' = [rows EXCEPT ![i] = NoRow]
        /\ UNCHANGED <<used, accesses, call>> /\ call[t].pc = "idle"
    BY <1>7 DEF Delete, Begin
  <2>2. Current(call[t])'
    BY <2>1 DEF Current
  <2>3. OneCall' /\ \A u \in Tasks : Current(call[u])'
    BY <2>1, <2>2, OnlyOne
  <2>4. \A id \in Ids : rows'[id] = NoRow \/ rows'[id] = rows[id]
    BY <1>0, <2>1 DEF TypeOK
  <2>5. AccessesCounted'
    BY <2>1, <2>4 DEF InTurnInv, AccessesCounted, Present
  <2> QED BY <2>1, <2>3, <2>5 DEF InTurnInv
<1>8. ASSUME NEW t \in Tasks, ExpireStale(t) PROVE InTurnInv'
  <2>1. MayRun(t) /\ UNCHANGED <<rows, used, accesses>>
    BY <1>8 DEF ExpireStale, Begin
  <2>2. call'[t].pc = "list" /\ \A u \in Tasks \ {t} : call'[u] = call[u]
    BY <1>0, <1>8, ListFrame
  <2>3. Current(call[t])'
    BY <2>2 DEF Current
  <2> QED BY <1>a, <2>1, <2>2, <2>3
<1>9. ASSUME NEW t \in Tasks, ExpireList(t) PROVE InTurnInv'
  <2>1. PICK work \in [Ids -> Row \cup {NoRow}] :
          /\ \A i \in Ids :
               work[i] = IF Due(rows[i], call[t].now) THEN rows[i] ELSE NoRow
          /\ IF \E i \in Ids : work[i] # NoRow
               THEN call' = [call EXCEPT ![t].pc = "sweep", ![t].work = work]
               ELSE Return(t)
    BY <1>0, <1>9, WorkFacts
  <2>2. MayRun(t) /\ UNCHANGED <<rows, used, accesses>>
    BY <1>9 DEF ExpireList, Continue
  <2>3. CASE \E i \in Ids : work[i] # NoRow
    <3>1. /\ call'[t].pc = "sweep" /\ call'[t].now = call[t].now /\ call'[t].work = work
          /\ \A u \in Tasks \ {t} : call'[u] = call[u]
      BY <1>0, <2>1, <2>3, SweepFrame
    <3>2. Current(call[t])'
      BY <2>1, <2>2, <3>1 DEF Current
    <3> QED BY <1>a, <2>2, <3>1, <3>2
  <2>4. CASE ~ \E i \in Ids : work[i] # NoRow
    <3>1. call'[t] = Idle /\ \A u \in Tasks \ {t} : call'[u] = call[u]
      BY <1>0, <2>1, <2>4, ReturnFrame
    <3> QED BY <1>a, <2>2, <3>1, IdleCurrent
  <2> QED BY <2>3, <2>4
<1>10. ASSUME NEW t \in Tasks, ExpireOne(t) PROVE InTurnInv'
  <2>1. PICK id \in Ids :
           /\ Present(id) /\ rows'[id] \in Row
           /\ rows'[id].state = "expired" /\ rows'[id].touches = rows[id].touches
           /\ \A i \in Ids \ {id} : rows'[i] = rows[i]
           /\ \A u \in Tasks \ {t} : call'[u] = call[u]
           /\ \/ call'[t] = Idle
              \/ /\ call'[t].pc = "sweep" /\ call'[t].now = call[t].now
                 /\ call'[t].work[id] = NoRow
                 /\ \A i \in Ids \ {id} : call'[t].work[i] = call[t].work[i]
    BY <1>10, ExpireAlone
  <2>2. MayRun(t) /\ UNCHANGED <<used, accesses>> /\ call[t].pc = "sweep"
    BY <1>10 DEF ExpireOne, Continue
  <2>3. Current(call[t])'
    <3>1. CASE call'[t] = Idle
      BY <3>1, IdleCurrent
    <3>2. CASE call'[t] # Idle
      <4> SUFFICES ASSUME NEW i \in Ids
                   PROVE  call'[t].work[i] =
                            IF Due(rows'[i], call'[t].now) THEN rows'[i] ELSE NoRow
        BY <2>1, <3>2 DEF Current
      <4>1. call[t].work[i] = IF Due(rows[i], call[t].now) THEN rows[i] ELSE NoRow
        BY <2>2 DEF InTurnInv, Current
      <4>2. CASE i = id
        BY <2>1, <3>2, <4>2 DEF Due
      <4>3. CASE i # id
        BY <2>1, <3>2, <4>1, <4>3
      <4> QED BY <4>2, <4>3
    <3> QED BY <3>1, <3>2
  <2>4. OneCall' /\ \A u \in Tasks : Current(call[u])'
    BY <2>1, <2>2, <2>3, OnlyOne
  <2>5. AccessesCounted'
    BY <2>1, <2>2 DEF InTurnInv, AccessesCounted, Present
  <2> QED BY <2>2, <2>4, <2>5 DEF InTurnInv
<1>11. ASSUME Crash PROVE InTurnInv'
  <2>1. (\A t \in Tasks : call'[t] = Idle) /\ UNCHANGED <<rows, used, accesses>>
    BY <1>11 DEF Crash
  <2>2. OneCall' /\ \A t \in Tasks : Current(call[t])'
    BY <2>1, IdleFacts, IdleCurrent DEF OneCall
  <2> QED BY <2>1, <2>2, CountsStay DEF InTurnInv
<1>12. ASSUME Tick PROVE InTurnInv'
  BY <1>12, <1>b DEF Tick
<1> QED
  BY <1>1, <1>3, <1>4, <1>5, <1>6, <1>7, <1>8, <1>9, <1>10, <1>11, <1>12
     DEF Next, Start, Proceed

\* InTurnInv is an invariant when the calls of a manager do not overlap.
LEMMA InTurn == ASSUME ~Overlap PROVE Spec => []InTurnInv
<1>1. ManagerInv /\ InTurnInv /\ [Next]_vars => InTurnInv'
  <2> SUFFICES ASSUME ManagerInv, InTurnInv, [Next]_vars PROVE InTurnInv'
    OBVIOUS
  <2>1. CASE UNCHANGED vars
    BY <2>1 DEF vars, InTurnInv, OneCall, Current, AccessesCounted, Present
  <2> QED BY <2>1, InTurnStep
<1> QED BY <1>1, InTurnInit, Invariance, PTL DEF Spec

\* When calls do not overlap no access is lost or counted twice (get and
\* before_inference write back what touch counted).
THEOREM NoAccessLost == ASSUME ~Overlap PROVE Spec => []AccessesCounted
<1>1. InTurnInv => AccessesCounted
  BY DEF InTurnInv
<1> QED BY <1>1, InTurn, PTL

\* When calls do not overlap, a sweep (expire_stale) that returns leaves no
\* memory ACTIVE that was due when it began.
THEOREM SweepsAreComplete == ASSUME ~Overlap PROVE Spec => SweepIsComplete
<1> DEFINE Complete == \A t \in Tasks :
             (ExpireList(t) \/ ExpireOne(t)) /\ call'[t] = Idle
               => \A id \in Ids : ~Due(rows'[id], call[t].now)
<1>1. ManagerInv /\ InTurnInv => Complete
  <2> SUFFICES ASSUME ManagerInv, InTurnInv, NEW t \in Tasks, call'[t] = Idle,
                      ExpireList(t) \/ ExpireOne(t), NEW i \in Ids
               PROVE  ~Due(rows'[i], call[t].now)
    OBVIOUS
  <2>0. TypeOK
    BY DEF ManagerInv
  <2>1. CASE ExpireList(t)
    <3>1. PICK work \in [Ids -> Row \cup {NoRow}] :
            /\ \A j \in Ids :
                 work[j] = IF Due(rows[j], call[t].now) THEN rows[j] ELSE NoRow
            /\ IF \E j \in Ids : work[j] # NoRow
                 THEN call' = [call EXCEPT ![t].pc = "sweep", ![t].work = work]
                 ELSE Return(t)
      BY <2>0, <2>1, WorkFacts
    <3>2. ~ \E j \in Ids : work[j] # NoRow
      <4> SUFFICES ASSUME \E j \in Ids : work[j] # NoRow PROVE FALSE
        OBVIOUS
      <4>1. call'[t].pc = "sweep"
        BY <2>0, <3>1, SweepFrame
      <4> QED BY <4>1, IdleFacts
    <3>3. rows' = rows
      BY <2>1 DEF ExpireList
    <3> QED BY <3>1, <3>2, <3>3 DEF Due
  <2>2. CASE ExpireOne(t)
    <3>1. PICK id \in Ids :
             /\ rows'[id].state = "expired"
             /\ \A j \in Ids \ {id} : rows'[j] = rows[j]
             /\ \/ call'[t] = Idle /\ \A j \in Ids \ {id} : call[t].work[j] = NoRow
                \/ call'[t].pc = "sweep"
      BY <2>2, ExpireAlone
    <3>2. \A j \in Ids \ {id} : call[t].work[j] = NoRow
      BY <3>1, IdleFacts
    <3>3. call[t].work[i] = IF Due(rows[i], call[t].now) THEN rows[i] ELSE NoRow
      BY <2>2 DEF ExpireOne, InTurnInv, Current
    <3> QED BY <3>1, <3>2, <3>3 DEF Due
  <2> QED BY <2>1, <2>2
<1> QED BY <1>1, Invariance, InTurn, PTL DEF SweepIsComplete

\* When calls do not overlap the manager implements its contract: each operation
\* is one step on one row, although its body is a read, an await and a write.
THEOREM Implementation == ASSUME ~Overlap PROVE Spec => ImplementsContract
<1>1. Init => Contract!Init
  BY DEF Init, Contract!Init
<1>2. ManagerInv /\ InTurnInv /\ [Next]_vars => [Contract!Next]_(Contract!vars)
  <2> SUFFICES ASSUME ManagerInv, InTurnInv, [Next]_vars
               PROVE  Contract!Next \/ UNCHANGED <<rows, used>>
    BY DEF Contract!vars
  <2>1. ASSUME NEW t \in Tasks, Upsert(t) PROVE Contract!Next
    <3>1. \E id \in Ids : \/ Contract!Create(id)
                          \/ Contract!Touch(id)
                          \/ \E s \in States : Contract!Move(id, s)
      BY <2>1, UpsertAlone
    <3> QED BY <3>1 DEF Contract!Next, Contract!States, States
  <2>2. ASSUME NEW t \in Tasks, NEW id \in Ids, Delete(t, id)
        PROVE  Contract!Next \/ UNCHANGED <<rows, used>>
    <3>1. rows' = [rows EXCEPT ![id] = NoRow] /\ used' = used
      BY <2>2 DEF Delete
    <3>2. CASE Present(id)
      BY <3>1, <3>2 DEF Contract!Next, Contract!Remove, Contract!Present, Present
    <3>3. CASE ~Present(id)
      BY <3>1, <3>3 DEF ManagerInv, TypeOK, Present
    <3> QED BY <3>2, <3>3
  <2>3. ASSUME NEW t \in Tasks, ExpireOne(t) PROVE Contract!Next
    <3>1. \E id \in Ids : Contract!Move(id, "expired")
      BY <2>3, ExpireAlone
    <3> QED BY <3>1 DEF Contract!Next, Contract!States
  <2>4. ASSUME NEW t \in Tasks,
               \/ Write(t) \/ ExpireStale(t) \/ ExpireList(t)
               \/ \E id \in Ids : \/ Get(t, id) \/ QueryAndRewrite(t, id)
                                  \/ \E s \in CallerTargets : UpdateState(t, id, s)
        PROVE  UNCHANGED <<rows, used>>
    BY <2>4 DEF Write, ExpireStale, ExpireList, Get, QueryAndRewrite, UpdateState
  <2>5. ASSUME Crash \/ Tick \/ UNCHANGED vars PROVE UNCHANGED <<rows, used>>
    BY <2>5 DEF Crash, Tick, vars
  <2> QED BY <2>1, <2>2, <2>3, <2>4, <2>5 DEF Next, Start, Proceed
<1> QED BY <1>1, <1>2, Invariance, InTurn, PTL DEF Spec, ImplementsContract, Contract!Spec
=============================================================================
