--------------------- MODULE MemoryServiceRecallProofs ---------------------
(***************************************************************************)
(* More theorems about MemoryService for every instance.  With any number  *)
(* of overlapping calls and crashes: a recall that overlaps an archival    *)
(* misses no memory, and separate stores keep user memories.  When calls   *)
(* do not overlap: retired memories stay out of every later pack, states   *)
(* move along the lifecycle table, and, on separate stores and unless the  *)
(* process dies, a memory is archived once.                                *)
(***************************************************************************)
EXTENDS MemoryServiceProofs

USE DEF MemoryTypes, States

-----------------------------------------------------------------------------
(* What a step does to the local variables of a call.                       *)

\* What the next recall of a call reads: copies of the rows it may return.
Read(f) ==
  {[id |-> id, state |-> state[id]] :
     id \in {i \in Ids : Recallable(Head(f.left), i, f.session)}}

\* The step takes task u from the local variables f to g.
Moved(u, f, g) ==
  \/ Ingest(u) /\ g.pc = "created" /\ g.pack = {}
  \/ /\ BeforeInference(u) /\ g.pc = "recall" /\ g.pack = {}
     /\ g.left = RecallOrder
     /\ \A id \in g.atStart : IsA(id, "working") /\ born[id].session = g.session
  \/ /\ Recall(u) /\ g.pc = "recall" /\ g.left = Tail(f.left)
     /\ g.atStart = f.atStart /\ g.session = f.session
     /\ g.pack = f.pack \cup Read(f)
  \/ Select(u) /\ g.pc = "access" /\ g.pack \subseteq f.pack
  \/ AccessWrite(u) /\ g.pc = "accessed" /\ g.pack \subseteq f.pack
  \/ Accessed(u) /\ g.pc = "access" /\ g.pack = f.pack
  \/ /\ ArchiveSession(u) /\ g.pc = "archive" /\ g.pack = {}
     /\ \A i \in g.work : ~SharedStore => IsA(i, "working")
  \/ /\ CopyWrite(u) /\ g.pc = "mark_read" /\ g.pack = f.pack
     /\ g.work = f.work /\ g.item \in f.work
  \/ /\ MarkRead(u) /\ g.pc = "mark_write" /\ g.pack = f.pack
     /\ g.work = f.work /\ g.item = f.item
     /\ Present(f.item) /\ CanTransition(state[f.item], "archived")
  \/ /\ MarkWrite(u) /\ g.pc = "marked" /\ g.pack = f.pack
     /\ g.work = f.work
  \/ /\ Marked(u) /\ g.pc = "archive" /\ g.pack = f.pack
     /\ g.work \subseteq f.work
  \/ /\ UpdateState(u) /\ g.pc = "update" /\ g.pack = {}
     /\ g.item \in Ids /\ g.goal \in Terminal
     /\ Present(g.item) /\ CanTransition(state[g.item], g.goal)
  \/ /\ Get(u) /\ g.pc = "get"
     /\ \A m \in g.pack : m.id \in Ids /\ born[m.id] # Unborn /\ m.state = state[m.id]
     /\ \A m \in g.pack : m.state \in States
  \/ /\ ExpireStale(u) /\ g.pc = "sweep" /\ g.pack = {}
     /\ \A i \in g.work : state[i] = "active"
  \/ \E i \in f.work :
       /\ ExpireOne(u) /\ g.pc = "sweep" /\ g.pack = f.pack
       /\ g.work = f.work \ {i}
       /\ state' = [state EXCEPT ![i] = "expired"]

\* The local variables of a task after a step of its own that does not end its
\* call; a delete has none.
LEMMA OwnMoves ==
  ASSUME TypeOK, NEW u \in Tasks, Start(u) \/ Proceed(u), NEW f, f = frame[u],
         NEW g, g = frame'[u], g # Idle
  PROVE  Moved(u, f, g) \/ (Delete(u) /\ g = f)
<1>0. frame \in [Tasks -> Frames] /\ f \in Frames
  BY DEF TypeOK
<1>a. ASSUME NEW h, Goto(u, h) PROVE g = h
  BY <1>0, <1>a, GotoOnly
<1>b. ~Return(u)
  BY <1>a DEF Return
<1>2. ASSUME Ingest(u) PROVE g.pc = "created" /\ g.pack = {}
  <2>1. PICK id : g = [Idle EXCEPT !.pc = "created", !.item = id]
    <3>1. PICK id : Goto(u, [Idle EXCEPT !.pc = "created", !.item = id])
      BY <1>2 DEF Ingest
    <3> QED BY <1>a, <3>1
  <2> QED BY <2>1 DEF Idle
<1>3. ASSUME BeforeInference(u)
      PROVE  /\ g.pc = "recall" /\ g.pack = {} /\ g.left = RecallOrder
             /\ \A id \in g.atStart : IsA(id, "working") /\ born[id].session = g.session
  <2> DEFINE A(s) == {id \in Ids : /\ IsA(id, "working")
                                   /\ state[id] = "active"
                                   /\ born[id].session = s}
  <2>1. PICK s : Goto(u, [Idle EXCEPT !.pc = "recall", !.session = s,
                                      !.left = RecallOrder, !.atStart = A(s)])
    BY <1>3 DEF BeforeInference
  <2>2. \A id \in A(s) : IsA(id, "working") /\ born[id].session = s
    OBVIOUS
  <2> HIDE DEF A
  <2>3. g = [Idle EXCEPT !.pc = "recall", !.session = s,
                         !.left = RecallOrder, !.atStart = A(s)]
    BY <1>a, <2>1
  <2>4. /\ g.pc = "recall" /\ g.pack = {} /\ g.left = RecallOrder
        /\ g.atStart = A(s) /\ g.session = s
    BY <2>3 DEF Idle
  <2> QED BY <2>2, <2>4
<1>4. ASSUME Recall(u)
      PROVE  /\ g.pc = "recall" /\ g.left = Tail(f.left)
             /\ g.atStart = f.atStart /\ g.session = f.session
             /\ g.pack = f.pack \cup Read(f)
  <2> DEFINE h == [f EXCEPT !.left = Tail(@), !.pack = @ \cup Read(f)]
  <2>1. Goto(u, h) /\ f.pc = "recall"
    BY <1>4 DEF Recall, At, Read
  <2>2. g = h
    BY <1>a, <2>1
  <2> QED
    BY <1>0, <2>1, <2>2 DEF Frames
<1>5. ASSUME Select(u) PROVE g.pc = "access" /\ g.pack \subseteq f.pack
  <2>1. PICK P \in SUBSET f.pack : Goto(u, [f EXCEPT !.pc = "access", !.pack = P])
    BY <1>5, <1>b DEF Select, Packs
  <2>2. g = [f EXCEPT !.pc = "access", !.pack = P]
    BY <1>a, <2>1
  <2> QED BY <1>0, <2>2 DEF Frames
<1>6. ASSUME AccessWrite(u) PROVE g.pc = "accessed" /\ g.pack \subseteq f.pack
  <2>1. PICK m \in f.pack :
          Goto(u, [f EXCEPT !.pc = "accessed", !.item = m.id, !.pack = @ \ {m}])
    BY <1>6 DEF AccessWrite
  <2>2. g = [f EXCEPT !.pc = "accessed", !.item = m.id, !.pack = @ \ {m}]
    BY <1>a, <2>1
  <2> QED BY <1>0, <2>2 DEF Frames
<1>7. ASSUME Accessed(u) PROVE g.pc = "access" /\ g.pack = f.pack
  <2>1. g = [f EXCEPT !.pc = "access"]
    BY <1>7, <1>a, <1>b DEF Accessed
  <2> QED BY <1>0, <2>1 DEF Frames
<1>8. ASSUME ArchiveSession(u)
      PROVE  /\ g.pc = "archive" /\ g.pack = {}
             /\ \A i \in g.work : ~SharedStore => IsA(i, "working")
  <2>1. PICK W : /\ Goto(u, [Idle EXCEPT !.pc = "archive", !.work = W])
                 /\ \A i \in W : ~SharedStore => IsA(i, "working")
    BY <1>8 DEF ArchiveSession, Archivable
  <2>2. g = [Idle EXCEPT !.pc = "archive", !.work = W]
    BY <1>a, <2>1
  <2>3. g.pc = "archive" /\ g.pack = {} /\ g.work = W
    BY <2>2 DEF Idle
  <2> QED BY <2>1, <2>3
<1>9. ASSUME CopyWrite(u)
      PROVE  /\ g.pc = "mark_read" /\ g.pack = f.pack
             /\ g.work = f.work /\ g.item \in f.work
  <2>1. PICK i \in f.work, c \in Fresh :
          Goto(u, [f EXCEPT !.pc = "mark_read", !.item = i, !.copy = c])
    BY <1>9 DEF CopyWrite
  <2>2. g = [f EXCEPT !.pc = "mark_read", !.item = i, !.copy = c]
    BY <1>a, <2>1
  <2> QED BY <1>0, <2>2 DEF Frames
<1>10. ASSUME MarkRead(u)
       PROVE  /\ g.pc = "mark_write" /\ g.pack = f.pack
              /\ g.work = f.work /\ g.item = f.item
              /\ Present(f.item) /\ CanTransition(state[f.item], "archived")
  <2>1. g = [f EXCEPT !.pc = "mark_write"]
    BY <1>10, <1>a, <1>b DEF MarkRead
  <2>2. Present(f.item) /\ CanTransition(state[f.item], "archived")
    BY <1>10, <1>b DEF MarkRead
  <2> QED BY <1>0, <2>1, <2>2 DEF Frames
<1>11. ASSUME MarkWrite(u)
       PROVE  g.pc = "marked" /\ g.pack = f.pack /\ g.work = f.work
  <2>1. g = [f EXCEPT !.pc = "marked"]
    BY <1>11, <1>a DEF MarkWrite
  <2> QED BY <1>0, <2>1 DEF Frames
<1>12. ASSUME Marked(u)
       PROVE  g.pc = "archive" /\ g.pack = f.pack /\ g.work \subseteq f.work
  <2>1. g = [f EXCEPT !.pc = "archive", !.work = @ \ {f.item},
                      !.item = None, !.copy = None]
    BY <1>12, <1>a DEF Marked
  <2> QED BY <1>0, <2>1 DEF Frames
<1>13. ASSUME UpdateState(u)
       PROVE  /\ g.pc = "update" /\ g.pack = {}
              /\ g.item \in Ids /\ g.goal \in Terminal
              /\ Present(g.item) /\ CanTransition(state[g.item], g.goal)
  <2>1. PICK id \in Ids, target \in Terminal :
          /\ Present(id) /\ CanTransition(state[id], target)
          /\ Goto(u, [Idle EXCEPT !.pc = "update", !.item = id, !.goal = target])
    BY <1>13, TargetsAssumption DEF UpdateState
  <2>2. g = [Idle EXCEPT !.pc = "update", !.item = id, !.goal = target]
    BY <1>a, <2>1
  <2>3. g.pc = "update" /\ g.pack = {} /\ g.item = id /\ g.goal = target
    BY <2>2 DEF Idle
  <2> QED BY <2>1, <2>3
<1>14. ASSUME ExpireStale(u)
       PROVE  /\ g.pc = "sweep" /\ g.pack = {}
              /\ \A i \in g.work : state[i] = "active"
  <2>1. PICK due \in SUBSET {id \in Ids : state[id] = "active"} :
          Goto(u, [Idle EXCEPT !.pc = "sweep", !.work = due])
    BY <1>14 DEF ExpireStale, Sweepable
  <2>2. g = [Idle EXCEPT !.pc = "sweep", !.work = due]
    BY <1>a, <2>1
  <2>3. g.pc = "sweep" /\ g.pack = {} /\ g.work = due
    BY <2>2 DEF Idle
  <2> QED BY <2>3
<1>15. ASSUME ExpireOne(u)
       PROVE  \E i \in f.work : /\ g.pc = "sweep" /\ g.pack = f.pack
                                /\ g.work = f.work \ {i}
                                /\ state' = [state EXCEPT ![i] = "expired"]
  <2>1. PICK i \in f.work : /\ Goto(u, [f EXCEPT !.work = @ \ {i}])
                            /\ state' = [state EXCEPT ![i] = "expired"]
    BY <1>15, <1>b DEF ExpireOne
  <2>2. g = [f EXCEPT !.work = @ \ {i}] /\ f.pc = "sweep"
    BY <1>15, <1>a, <2>1 DEF ExpireOne, At
  <2> QED BY <1>0, <2>1, <2>2 DEF Frames
<1>16. ~Created(u) /\ ~ArchiveReturn(u) /\ ~GetWrite(u) /\ ~UpdateWrite(u)
  BY <1>b DEF Created, ArchiveReturn, GetWrite, UpdateWrite
<1>17. Delete(u) => g = f
  BY DEF Delete
<1>18. ASSUME Get(u)
       PROVE  /\ g.pc = "get"
              /\ \A m \in g.pack : /\ m.id \in Ids /\ born[m.id] # Unborn
                                   /\ m.state = state[m.id]
              /\ \A m \in g.pack : m.state \in States
  <2>1. PICK m \in Copies : /\ Goto(u, [Idle EXCEPT !.pc = "get", !.pack = {m}])
                           /\ m.state = state[m.id] /\ born[m.id] # Unborn
    BY <1>18, GetReads
  <2>2. g = [Idle EXCEPT !.pc = "get", !.pack = {m}]
    BY <1>a, <2>1
  <2>3. g.pc = "get" /\ g.pack = {m}
    BY <2>2 DEF Idle
  <2> QED BY <2>1, <2>3 DEF Copies
<1> QED
  BY <1>2, <1>3, <1>4, <1>5, <1>6, <1>7, <1>8, <1>9, <1>10, <1>11, <1>12,
     <1>13, <1>14, <1>15, <1>16, <1>17, <1>18 DEF Start, Proceed, Moved

\* A step of one task leaves the others' local variables alone.
LEMMA OthersStay ==
  ASSUME TypeOK, NEW t \in Tasks, Start(t) \/ Proceed(t), NEW u \in Tasks, t # u
  PROVE  frame'[u] = frame[u]
<1>1. frame' = frame \/ \E h : Goto(t, h)
  BY DEF Start, Proceed, Ingest, BeforeInference, ArchiveSession, Get, UpdateState,
         Delete, ExpireStale, Created, Recall, Select, AccessWrite, Accessed,
         CopyWrite, MarkRead, MarkWrite, Marked, ArchiveReturn, GetWrite, UpdateWrite,
         ExpireOne, Return
<1> QED
  BY <1>1, GotoOnly DEF TypeOK

\* The local variables of a task after any step: unchanged, idle, or what its
\* own action made of them.
LEMMA Moves ==
  ASSUME TypeOK, [Next]_vars, NEW u \in Tasks, NEW f, f = frame[u],
         NEW g, g = frame'[u], g # f, g # Idle
  PROVE  Moved(u, f, g)
<1>1. ~Crash /\ ~UNCHANGED vars
  BY DEF Crash, vars
<1>2. Start(u) \/ Proceed(u)
  BY <1>1, OthersStay DEF Next
<1>3. Moved(u, f, g) \/ (Delete(u) /\ g = f)
  BY <1>2, OwnMoves
<1> QED
  BY <1>3

\* What calls hold was stored, and what was stored keeps its descriptor.
LEMMA Stored ==
  ASSUME ArchiveInv, [Next]_vars
  PROVE  /\ TypeOK /\ Kept
         /\ \A u \in Tasks : /\ frame[u] \in Frames /\ LocalOK(frame[u])
                             /\ \A m \in frame[u].pack : m.id \in Ids /\ born[m.id] # Unborn
                             /\ \A i \in frame[u].work : i \in Ids /\ born[i] # Unborn
<1>1. TypeOK /\ LocalsOK /\ Kept
  BY KeptNext DEF ArchiveInv
<1>2. ASSUME NEW u \in Tasks
      PROVE  /\ frame[u] \in Frames /\ LocalOK(frame[u])
             /\ \A m \in frame[u].pack : m.id \in Ids /\ born[m.id] # Unborn
             /\ \A i \in frame[u].work : i \in Ids /\ born[i] # Unborn
  <2>1. frame[u] \in Frames /\ LocalOK(frame[u])
    BY <1>1 DEF TypeOK, LocalsOK
  <2> QED
    BY <2>1 DEF Frames, Copies, LocalOK
<1> QED
  BY <1>1, <1>2

-----------------------------------------------------------------------------
(* A recall that overlaps an archival misses nothing.                       *)

Live == {"active", "archived"}

\* A memory that no caller retired is in a state that some recall accepts.
LiveOrRetired == \A id \in Ids : born[id] # Unborn => state[id] \in Live \/ id \in retired

RetiredStored == \A id \in retired : born[id] # Unborn

\* A copy has the content of the memory it was made from.
CopiesAgree ==
  \A c \in Ids : born[c] # Unborn /\ born[c].from \in Ids =>
    /\ born[born[c].from] # Unborn
    /\ born[born[c].from].content = born[c].content

\* Recalls read live memories only, and a get() reads what is live or retired,
\* so nothing else is written back.
PackLive(f) == \A m \in f.pack : m.state \in Live \/ m.id \in retired

Found(f, id) ==
  \/ \E m \in f.pack : born[m.id].content = born[id].content
  \/ \E r \in retired : born[r].content = born[id].content

EpisodicAhead(left) == \E j \in DOMAIN left : left[j] = "episodic"

WorkingAhead(left) ==
  \E i, j \in DOMAIN left : i < j /\ left[i] = "working" /\ left[j] = "episodic"

\* Each memory that the recall must not miss is found, or will be: by the
\* recalls of working and then episodic memory, or, as its copy is stored, by
\* that of episodic memory alone.
RecallOK(f) ==
  f.pc = "recall" =>
    \A id \in f.atStart :
      /\ IsA(id, "working") /\ born[id].session = f.session
      /\ \/ Found(f, id)
         \/ WorkingAhead(f.left)
         \/ EpisodicAhead(f.left) /\ HasCopy(id)

RecallInv ==
  /\ LiveOrRetired /\ RetiredStored /\ CopiesAgree
  /\ \A t \in Tasks : PackLive(frame[t]) /\ RecallOK(frame[t])

\* What lies ahead after one more recall.
LEMMA OneRecallLess ==
  ASSUME NEW s \in Seq(MemoryTypes), s # <<>>
  PROVE  /\ WorkingAhead(s) => \/ WorkingAhead(Tail(s))
                               \/ Head(s) = "working" /\ EpisodicAhead(Tail(s))
         /\ EpisodicAhead(s) => EpisodicAhead(Tail(s)) \/ Head(s) = "episodic"
<1>1. /\ Len(s) \in Nat /\ DOMAIN s = 1..Len(s) /\ Head(s) = s[1]
      /\ DOMAIN Tail(s) = 1..(Len(s) - 1)
      /\ \A k \in 1..(Len(s) - 1) : Tail(s)[k] = s[k + 1]
  OBVIOUS
<1>2. \A j \in DOMAIN s : j = 1 \/ (j - 1 \in DOMAIN Tail(s) /\ Tail(s)[j - 1] = s[j])
  BY <1>1
<1>3. ASSUME EpisodicAhead(s) PROVE EpisodicAhead(Tail(s)) \/ Head(s) = "episodic"
  BY <1>1, <1>2, <1>3 DEF EpisodicAhead
<1>4. ASSUME WorkingAhead(s)
      PROVE  \/ WorkingAhead(Tail(s))
             \/ Head(s) = "working" /\ EpisodicAhead(Tail(s))
  <2>1. PICK i, j \in DOMAIN s : i < j /\ s[i] = "working" /\ s[j] = "episodic"
    BY <1>4 DEF WorkingAhead
  <2>2. /\ i \in Nat /\ j \in Nat /\ j # 1 /\ i - 1 < j - 1
    BY <1>1, <2>1
  <2>3. j - 1 \in DOMAIN Tail(s) /\ Tail(s)[j - 1] = "episodic"
    BY <1>2, <2>1, <2>2
  <2>4. CASE i = 1
    BY <1>1, <2>1, <2>3, <2>4 DEF EpisodicAhead
  <2>5. CASE i # 1
    BY <1>2, <2>1, <2>2, <2>3, <2>5 DEF WorkingAhead
  <2> QED
    BY <2>4, <2>5
<1> QED
  BY <1>3, <1>4

\* What was found stays found.
LEMMA FoundKept ==
  ASSUME TypeOK, Kept, RetiredStored, NEW f, NEW id \in Ids, born[id] # Unborn,
         \A m \in f.pack : m.id \in Ids /\ born[m.id] # Unborn,
         Found(f, id)
  PROVE  Found(f, id)'
<1>1. /\ \A r \in retired : r \in Ids /\ r \in retired' /\ born'[r] = born[r]
      /\ born'[id] = born[id]
      /\ \A m \in f.pack : born'[m.id] = born[m.id]
  BY DEF TypeOK, Kept, RetiredStored
<1> QED
  BY <1>1 DEF Found

\* One more recall finds the memory itself, finds its copy, or leaves it to
\* the recalls ahead.
LEMMA RecallFinds ==
  ASSUME ArchiveInv, LiveOrRetired, CopiesAgree,
         NEW f \in Frames, f.left # <<>>,
         NEW id \in Ids, IsA(id, "working"), born[id].session = f.session,
         \/ WorkingAhead(f.left)
         \/ EpisodicAhead(f.left) /\ HasCopy(id),
         NEW g, g.left = Tail(f.left),
         g.pack = f.pack \cup Read(f)
  PROVE  \/ Found(g, id)
         \/ WorkingAhead(g.left)
         \/ EpisodicAhead(g.left) /\ HasCopy(id)
<1>1. f.left \in Seq(MemoryTypes)
  BY DEF Frames
<1>2. ASSUME NEW i \in Ids, Recallable(Head(f.left), i, f.session)
      PROVE  \E m \in g.pack : m.id = i
  <2>1. [id |-> i, state |-> state[i]] \in g.pack
    BY <1>2 DEF Read
  <2>2. [id |-> i, state |-> state[i]].id = i
    OBVIOUS
  <2> QED
    BY <2>1, <2>2
<1>3. CASE Head(f.left) = "working" /\ EpisodicAhead(g.left)
  <2>1. CASE state[id] = "active"
    <3>1. Recallable("working", id, f.session)
      BY <2>1 DEF Recallable
    <3> QED
      BY <1>2, <1>3, <3>1 DEF Found
  <2>2. CASE state[id] = "archived"
    BY <1>3, <2>2 DEF ArchiveInv, ArchivedHasCopy
  <2>3. CASE id \in retired
    BY <2>3 DEF Found
  <2> QED
    BY <2>1, <2>2, <2>3 DEF LiveOrRetired, Live, IsA
<1>4. CASE Head(f.left) = "episodic" /\ HasCopy(id)
  <2>1. PICK c \in Ids : IsA(c, "episodic") /\ born[c].from = id
    BY <1>4 DEF HasCopy
  <2>2. born[c].content = born[id].content
    BY <2>1 DEF CopiesAgree, IsA
  <2>3. CASE c \in retired
    BY <2>2, <2>3 DEF Found
  <2>4. CASE state[c] \in Live
    <3>1. Recallable("episodic", c, f.session)
      BY <2>1, <2>4 DEF Recallable, Live
    <3> QED
      BY <1>2, <1>4, <2>2, <3>1 DEF Found
  <2> QED
    BY <2>1, <2>3, <2>4 DEF LiveOrRetired, IsA
<1> QED
  BY <1>1, <1>3, <1>4, OneRecallLess

\* Every step keeps what the recalls under way have found or will find.
LEMMA RecallFrameNext ==
  ASSUME ArchiveInv, RecallInv, [Next]_vars, WorkingAhead(RecallOrder),
         NEW u \in Tasks
  PROVE  PackLive(frame[u])' /\ RecallOK(frame[u])'
<1> PICK f : f = frame[u]
  OBVIOUS
<1> PICK g : g = frame'[u]
  OBVIOUS
<1>0. /\ TypeOK /\ Kept /\ f \in Frames
      /\ \A m \in f.pack : m.id \in Ids /\ born[m.id] # Unborn
      /\ PackLive(f) /\ RecallOK(f)
      /\ LiveOrRetired /\ RetiredStored /\ CopiesAgree
  BY Stored DEF RecallInv, RecallOK, Found, HasCopy, IsA, Present, PackLive
<1>1. \A id \in Ids : born[id] # Unborn => born'[id] = born[id]
  BY <1>0 DEF Kept
<1>2. SUFFICES PackLive(g)' /\ RecallOK(g)'
  BY DEF PackLive, RecallOK, Found, HasCopy, IsA, Present
<1>8. ASSUME PackLive(g) PROVE PackLive(g)'
  BY <1>0, <1>8 DEF PackLive, Kept
<1>3. ASSUME g = f \/ (g.pc # "recall" /\ g.pack \subseteq f.pack)
      PROVE  PackLive(g)' /\ RecallOK(g)'
  <2>1. PackLive(g)
    BY <1>0, <1>3 DEF PackLive
  <2>2. CASE g.pc = "recall"
    <3> SUFFICES ASSUME NEW id \in f.atStart
                 PROVE  /\ IsA(id, "working")' /\ born'[id].session = f.session
                        /\ \/ Found(f, id)'
                           \/ WorkingAhead(f.left)
                           \/ EpisodicAhead(f.left) /\ HasCopy(id)'
      BY <1>3, <1>8, <2>1, <2>2 DEF RecallOK
    <3>1. /\ id \in Ids /\ IsA(id, "working") /\ born[id].session = f.session
          /\ \/ Found(f, id)
             \/ WorkingAhead(f.left)
             \/ EpisodicAhead(f.left) /\ HasCopy(id)
      BY <1>0, <1>3, <2>2 DEF RecallOK, Frames
    <3>2. Found(f, id) => Found(f, id)'
      BY <1>0, <3>1, FoundKept DEF IsA
    <3>3. HasCopy(id) => HasCopy(id)'
      BY <1>0, HasCopyKept
    <3> QED
      BY <1>1, <3>1, <3>2, <3>3 DEF IsA
  <2> QED
    BY <1>8, <2>1, <2>2 DEF RecallOK
<1>4. CASE g = Idle
  BY <1>3, <1>4 DEF Idle
<1>5. ASSUME BeforeInference(u), g.pc = "recall", g.pack = {}, g.left = RecallOrder,
             \A id \in g.atStart : IsA(id, "working") /\ born[id].session = g.session
      PROVE  PackLive(g)' /\ RecallOK(g)'
  <2>1. born' = born
    BY <1>5 DEF BeforeInference
  <2> QED
    BY <1>5, <1>8, <2>1 DEF PackLive, RecallOK, IsA
<1>6. ASSUME Recall(u), g.pc = "recall", g.left = Tail(f.left),
             g.atStart = f.atStart, g.session = f.session,
             g.pack = f.pack \cup Read(f)
      PROVE  PackLive(g)' /\ RecallOK(g)'
  <2>1. /\ f.left # <<>> /\ f.pc = "recall"
        /\ UNCHANGED <<born, state, retired>>
    BY <1>6 DEF Recall, At
  <2>2. PackLive(g)
    <3>1. \A i : Recallable(Head(f.left), i, f.session) => state[i] \in Live
      <4>1. Head(f.left) \in MemoryTypes
        BY <1>0, <2>1 DEF Frames
      <4> QED
        BY <4>1 DEF Recallable, Live
    <3> QED
      BY <1>0, <1>6, <3>1 DEF PackLive, Read
  <2>3. RecallOK(g)
    <3> SUFFICES ASSUME NEW id \in g.atStart
                 PROVE  /\ IsA(id, "working") /\ born[id].session = g.session
                        /\ \/ Found(g, id)
                           \/ WorkingAhead(g.left)
                           \/ EpisodicAhead(g.left) /\ HasCopy(id)
      BY DEF RecallOK
    <3>1. /\ id \in Ids /\ IsA(id, "working") /\ born[id].session = f.session
          /\ \/ Found(f, id)
             \/ WorkingAhead(f.left)
             \/ EpisodicAhead(f.left) /\ HasCopy(id)
      BY <1>0, <1>6, <2>1 DEF RecallOK, Frames
    <3>2. CASE Found(f, id)
      BY <1>6, <3>1, <3>2 DEF Found
    <3>3. CASE ~Found(f, id)
      BY <1>0, <1>6, <2>1, <3>1, <3>3, RecallFinds
    <3> QED
      BY <1>6, <3>1, <3>2, <3>3
  <2> QED
    BY <1>8, <2>1, <2>2, <2>3 DEF RecallOK, Found, HasCopy, IsA, Present
<1>9. ASSUME g.pc = "get",
             \A m \in g.pack : m.id \in Ids /\ born[m.id] # Unborn /\ m.state = state[m.id]
      PROVE  PackLive(g)' /\ RecallOK(g)'
  <2>1. PackLive(g)
    BY <1>0, <1>9 DEF PackLive, LiveOrRetired
  <2> QED
    BY <1>8, <1>9, <2>1 DEF RecallOK
<1>7. CASE g # f /\ g # Idle
  <2>1. \/ g.pc # "recall" /\ g.pack \subseteq f.pack
        \/ /\ BeforeInference(u) /\ g.pc = "recall" /\ g.pack = {}
           /\ g.left = RecallOrder
           /\ \A id \in g.atStart : IsA(id, "working") /\ born[id].session = g.session
        \/ /\ Recall(u) /\ g.pc = "recall" /\ g.left = Tail(f.left)
           /\ g.atStart = f.atStart /\ g.session = f.session
           /\ g.pack = f.pack \cup Read(f)
        \/ /\ g.pc = "get"
           /\ \A m \in g.pack : /\ m.id \in Ids /\ born[m.id] # Unborn
                                /\ m.state = state[m.id]
    <3>1. Moved(u, f, g)
      BY <1>0, <1>7, Moves
    <3> QED
      BY <3>1 DEF Moved
  <2> QED
    BY <1>3, <1>5, <1>6, <1>9, <2>1
<1> QED
  BY <1>3, <1>4, <1>7

\* Every step keeps the rows and the history as RecallInv has them.
LEMMA RecallRowsNext ==
  ArchiveInv /\ RecallInv /\ [Next]_vars =>
    LiveOrRetired' /\ RetiredStored' /\ CopiesAgree'
<1> SUFFICES ASSUME ArchiveInv, RecallInv, [Next]_vars
             PROVE  LiveOrRetired' /\ RetiredStored' /\ CopiesAgree'
  OBVIOUS
<1>0. /\ TypeOK /\ Kept
      /\ born \in [Ids -> Descriptor \cup {Unborn}]
      /\ state \in [Ids -> States \cup {"absent"}] /\ retired \subseteq Ids
      /\ \A t \in Tasks :
           /\ frame[t] \in Frames /\ LocalOK(frame[t]) /\ PackLive(frame[t])
           /\ \A m \in frame[t].pack : m.id \in Ids /\ born[m.id] # Unborn
           /\ \A i \in frame[t].work : i \in Ids /\ born[i] # Unborn
      /\ LiveOrRetired /\ RetiredStored /\ CopiesAgree
  BY Stored DEF RecallInv, TypeOK
<1> DEFINE Goal == LiveOrRetired' /\ RetiredStored' /\ CopiesAgree'
<1>1. ASSUME UNCHANGED <<born, state, retired>> PROVE Goal
  BY <1>0, <1>1 DEF LiveOrRetired, RetiredStored, CopiesAgree
<1>2. ASSUME NEW t \in Tasks, Ingest(t) PROVE Goal
  <2>1. PICK id \in Ids, d \in Descriptor :
          /\ born[id] = Unborn /\ d.from = None
          /\ born' = [born EXCEPT ![id] = d]
          /\ state' = [state EXCEPT ![id] = "active"] /\ retired' = retired
    <3>1. PICK id \in Fresh, event \in EventTypes, s \in Sessions :
            /\ born' = [born EXCEPT ![id] = [type |-> TypeOf(event), session |-> s,
                                             from |-> None, content |-> id]]
            /\ state' = [state EXCEPT ![id] = "active"] /\ retired' = retired
      BY <1>2 DEF Ingest
    <3>2. [type |-> TypeOf(event), session |-> s, from |-> None, content |-> id]
            \in Descriptor
      BY <3>1 DEF Descriptor, TypeOf, Fresh
    <3>3. [type |-> TypeOf(event), session |-> s, from |-> None, content |-> id].from = None
      OBVIOUS
    <3>4. id \in Ids /\ born[id] = Unborn
      BY DEF Fresh
    <3> QED
      BY <3>1, <3>2, <3>3, <3>4
  <2>2. d # Unborn
    BY <2>1, IdsAssumption
  <2>3. LiveOrRetired'
    BY <1>0, <2>1, <2>2 DEF LiveOrRetired, Live
  <2>4. RetiredStored'
    BY <1>0, <2>1, <2>2 DEF RetiredStored
  <2>5. CopiesAgree'
    <3> SUFFICES ASSUME NEW c \in Ids, born'[c] # Unborn, born'[c].from \in Ids
                 PROVE  /\ born'[born'[c].from] # Unborn
                        /\ born'[born'[c].from].content = born'[c].content
      BY DEF CopiesAgree
    <3>1. c # id
      BY <1>0, <2>1, IdsAssumption
    <3>2. born'[c] = born[c]
      BY <1>0, <2>1, <3>1
    <3>3. born[born[c].from] # Unborn /\ born[born[c].from].content = born[c].content
      BY <1>0, <3>2 DEF CopiesAgree
    <3>4. born'[born[c].from] = born[born[c].from]
      BY <1>0, <2>1, <3>2, <3>3
    <3> QED
      BY <3>2, <3>3, <3>4
  <2> QED
    BY <2>3, <2>4, <2>5
<1>3. ASSUME NEW t \in Tasks, CopyWrite(t) PROVE Goal
  <2>1. PICK i \in frame[t].work, id \in Ids :
          /\ born[id] = Unborn
          /\ born' = [born EXCEPT ![id] =
                        [born[i] EXCEPT !.type = "episodic", !.from = i]]
          /\ state' = [state EXCEPT ![id] = "active"] /\ retired' = retired
    BY <1>3 DEF CopyWrite, Fresh
  <2>2. i \in Ids /\ born[i] \in Descriptor /\ i # id
    BY <1>0, <2>1
  <2>3. PICK d : d = [born[i] EXCEPT !.type = "episodic", !.from = i]
    OBVIOUS
  <2>4. d \in Descriptor /\ d.from = i /\ d.content = born[i].content
    BY <2>2, <2>3 DEF Descriptor
  <2>5. d # Unborn /\ born' = [born EXCEPT ![id] = d]
    BY <2>1, <2>3, <2>4, IdsAssumption
  <2>6. LiveOrRetired'
    BY <1>0, <2>1, <2>5 DEF LiveOrRetired, Live
  <2>7. RetiredStored'
    BY <1>0, <2>1, <2>5 DEF RetiredStored
  <2>8. CopiesAgree'
    <3> SUFFICES ASSUME NEW c \in Ids, born'[c] # Unborn, born'[c].from \in Ids
                 PROVE  /\ born'[born'[c].from] # Unborn
                        /\ born'[born'[c].from].content = born'[c].content
      BY DEF CopiesAgree
    <3>1. CASE c = id
      <4>1. born'[c] = d /\ born'[i] = born[i]
        BY <1>0, <2>2, <2>5, <3>1
      <4> QED
        BY <1>0, <2>1, <2>4, <4>1
    <3>2. CASE c # id
      <4>1. born'[c] = born[c]
        BY <1>0, <2>5, <3>2
      <4>2. born[born[c].from] # Unborn /\ born[born[c].from].content = born[c].content
        BY <1>0, <4>1 DEF CopiesAgree
      <4>3. born'[born[c].from] = born[born[c].from]
        BY <1>0, <2>1, <2>5, <4>1, <4>2
      <4> QED
        BY <4>1, <4>2, <4>3
    <3> QED
      BY <3>1, <3>2
  <2> QED
    BY <2>6, <2>7, <2>8
<1>4. ASSUME NEW id \in Ids, born[id] # Unborn, NEW v,
             born' = born, state' = [state EXCEPT ![id] = v],
             \/ (v \in Live \/ id \in retired) /\ retired' = retired
             \/ retired' = retired \cup {id}
      PROVE  Goal
  <2>1. LiveOrRetired'
    BY <1>0, <1>4 DEF LiveOrRetired
  <2>2. RetiredStored' /\ CopiesAgree'
    BY <1>0, <1>4 DEF RetiredStored, CopiesAgree
  <2> QED
    BY <2>1, <2>2
<1>5. ASSUME NEW t \in Tasks, AccessWrite(t) \/ GetWrite(t) PROVE Goal
  <2>1. PICK m \in frame[t].pack : /\ state' = [state EXCEPT ![m.id] = m.state]
                                   /\ UNCHANGED <<born, retired>>
    BY <1>5, WritesBack DEF ArchiveInv
  <2>2. /\ m.id \in Ids /\ born[m.id] # Unborn
        /\ m.state \in Live \/ m.id \in retired
    BY <1>0 DEF PackLive
  <2> QED
    BY <1>4, <2>1, <2>2
<1>6. ASSUME NEW t \in Tasks, MarkWrite(t) PROVE Goal
  <2>1. frame[t].item \in Ids /\ born[frame[t].item] # Unborn
    BY <1>0, <1>6 DEF MarkWrite, At, LocalOK
  <2> QED
    BY <1>4, <1>6, <2>1 DEF MarkWrite, Live
<1>7. ASSUME NEW t \in Tasks, UpdateWrite(t) PROVE Goal
  <2>1. frame[t].item \in Ids /\ born[frame[t].item] # Unborn
    BY <1>0, <1>7 DEF UpdateWrite, At, LocalOK
  <2> QED
    BY <1>4, <1>7, <2>1 DEF UpdateWrite
<1>8. ASSUME NEW t \in Tasks, Delete(t) PROVE Goal
  <2>1. PICK id \in Ids : /\ Present(id) /\ state' = [state EXCEPT ![id] = "absent"]
                          /\ retired' = retired \cup {id} /\ born' = born
    BY <1>8 DEF Delete
  <2>2. born[id] # Unborn
    BY <1>0, <2>1 DEF TypeOK, Present
  <2> QED
    BY <1>4, <2>1, <2>2
<1>9. ASSUME NEW t \in Tasks, ExpireOne(t) PROVE Goal
  <2>1. PICK i \in frame[t].work : /\ state' = [state EXCEPT ![i] = "expired"]
                                   /\ retired' = retired \cup {i} /\ born' = born
    BY <1>9 DEF ExpireOne
  <2> QED
    BY <1>0, <1>4, <2>1
<1> QED
  BY <1>1, <1>2, <1>3, <1>5, <1>6, <1>7, <1>8, <1>9
     DEF Next, Start, Proceed, BeforeInference, ArchiveSession, Get, UpdateState,
         ExpireStale, Created, Recall, Select, Accessed, MarkRead, Marked,
         ArchiveReturn, Crash, vars

\* With working memory recalled before episodic memory, as the default of
\* ContextRequest.memory_types has it, a memory that is archived meanwhile is
\* found as itself or as its copy (ContextPackBuilder.build, archive_session).
THEOREM RecallIsComplete ==
  ASSUME WorkingAhead(RecallOrder)
  PROVE  Spec => []RecallMissesNothing
<1>1. Init => RecallInv
  BY DEF Init, RecallInv, LiveOrRetired, RetiredStored, CopiesAgree, PackLive,
         RecallOK, Idle
<1>2. ArchiveInv /\ RecallInv /\ [Next]_vars => RecallInv'
  BY RecallFrameNext, RecallRowsNext DEF RecallInv
<1>3. RecallInv => RecallMissesNothing
  BY DEF RecallInv, RecallOK, RecallMissesNothing, Found, WorkingAhead, EpisodicAhead
<1> QED
  BY <1>1, <1>2, <1>3, Invariance, PTL DEF Spec

-----------------------------------------------------------------------------
(* Separate stores keep user memories.                                      *)

\* The archival works on working memories only, and a semantic memory that
\* nobody retired is written back as it was read: ACTIVE.
UserOK(f) ==
  /\ f.pc \in {"archive", "mark_read", "mark_write", "marked"}
       => \A i \in f.work : IsA(i, "working")
  /\ f.pc \in {"mark_read", "mark_write"} => f.item \in f.work
  /\ \A m \in f.pack :
       IsA(m.id, "semantic") => m.state = "active" \/ m.id \in retired

UserInv == UserMemoryKept /\ \A t \in Tasks : UserOK(frame[t])

\* Every step keeps what the calls hold of user memories.
LEMMA UserFrameNext ==
  ASSUME ~SharedStore, ArchiveInv, UserInv, [Next]_vars, NEW u \in Tasks
  PROVE  UserOK(frame[u])'
<1> PICK f : f = frame[u]
  OBVIOUS
<1> PICK g : g = frame'[u]
  OBVIOUS
<1>0. /\ TypeOK /\ Kept /\ f \in Frames /\ UserOK(f)
      /\ \A m \in f.pack : m.id \in Ids /\ born[m.id] # Unborn
      /\ \A i \in f.work : i \in Ids /\ born[i] # Unborn
  BY Stored DEF UserInv, UserOK, IsA
<1>1. /\ \A id \in Ids : born[id] # Unborn => born'[id] = born[id]
      /\ retired \subseteq retired'
  BY <1>0 DEF Kept
<1>2. SUFFICES UserOK(g)'
  BY DEF UserOK, IsA
<1> DEFINE Archiving == {"archive", "mark_read", "mark_write", "marked"}
<1>3. ASSUME g.pack \subseteq f.pack,
             g.pc \in Archiving => f.pc \in Archiving /\ g.work \subseteq f.work,
             g.pc \in {"mark_read", "mark_write"} => g.item \in g.work
      PROVE  UserOK(g)'
  <2>1. \A m \in f.pack :
          IsA(m.id, "semantic")' => m.state = "active" \/ m.id \in retired'
    BY <1>0, <1>1 DEF UserOK, IsA
  <2>2. f.pc \in Archiving => \A i \in f.work : IsA(i, "working")'
    BY <1>0, <1>1 DEF UserOK, IsA
  <2> QED
    BY <1>3, <2>1, <2>2 DEF UserOK
<1>4. CASE g = f
  BY <1>0, <1>3, <1>4 DEF UserOK
<1>5. CASE g = Idle
  BY <1>3, <1>5 DEF Idle
<1>6. ASSUME ArchiveSession(u), g.pc = "archive", g.pack = {},
             \A i \in g.work : ~SharedStore => IsA(i, "working")
      PROVE  UserOK(g)'
  <2>1. born' = born
    BY <1>6 DEF ArchiveSession
  <2> QED
    BY <1>6, <2>1 DEF UserOK, IsA
<1>7. ASSUME Recall(u), g.pc = "recall",
             g.pack = f.pack \cup Read(f)
      PROVE  UserOK(g)'
  <2>1. born' = born /\ Head(f.left) \in MemoryTypes
    BY <1>0, <1>7 DEF Recall, Frames
  <2>2. \A i \in Ids :
          Recallable(Head(f.left), i, f.session) /\ IsA(i, "semantic")
            => state[i] = "active"
    BY <2>1 DEF Recallable, IsA
  <2>3. \A m \in g.pack : IsA(m.id, "semantic") => m.state = "active" \/ m.id \in retired
    <3> SUFFICES ASSUME NEW m \in g.pack, IsA(m.id, "semantic")
                 PROVE  m.state = "active" \/ m.id \in retired
      OBVIOUS
    <3>1. CASE m \in f.pack
      BY <1>0, <3>1 DEF UserOK
    <3>2. CASE m \notin f.pack
      <4>1. PICK i \in Ids : /\ Recallable(Head(f.left), i, f.session)
                             /\ m = [id |-> i, state |-> state[i]]
        BY <1>7, <3>2 DEF Read
      <4> QED
        BY <2>2, <4>1
    <3> QED
      BY <3>1, <3>2
  <2> QED
    BY <1>1, <1>7, <2>1, <2>3 DEF UserOK, IsA
<1>9. ASSUME Get(u), g.pc = "get",
             \A m \in g.pack : m.id \in Ids /\ m.state = state[m.id]
      PROVE  UserOK(g)'
  <2>1. born' = born
    BY <1>9 DEF Get
  <2>2. \A m \in g.pack :
          IsA(m.id, "semantic") => m.state = "active" \/ m.id \in retired
    BY <1>9 DEF UserInv, UserMemoryKept
  <2> QED
    BY <1>1, <1>9, <2>1, <2>2 DEF UserOK, IsA
<1>8. CASE g # f /\ g # Idle
  <2>1. \/ /\ ArchiveSession(u) /\ g.pc = "archive" /\ g.pack = {}
           /\ \A i \in g.work : ~SharedStore => IsA(i, "working")
        \/ /\ Recall(u) /\ g.pc = "recall"
           /\ g.pack = f.pack \cup Read(f)
        \/ g.pc \notin Archiving /\ g.pack \subseteq f.pack
        \/ /\ Get(u) /\ g.pc = "get"
           /\ \A m \in g.pack : m.id \in Ids /\ m.state = state[m.id]
        \/ /\ CopyWrite(u) /\ g.pc = "mark_read" /\ g.pack = f.pack
           /\ g.work = f.work /\ g.item \in f.work
        \/ /\ MarkRead(u) /\ g.pc = "mark_write" /\ g.pack = f.pack
           /\ g.work = f.work /\ g.item = f.item
        \/ MarkWrite(u) /\ g.pc = "marked" /\ g.pack = f.pack /\ g.work = f.work
        \/ Marked(u) /\ g.pc = "archive" /\ g.pack = f.pack /\ g.work \subseteq f.work
    <3>1. Moved(u, f, g)
      BY <1>0, <1>8, Moves
    <3> QED
      BY <3>1 DEF Moved
  <2>2. /\ CopyWrite(u) => f.pc = "archive"
        /\ MarkRead(u) => f.pc = "mark_read" /\ f.item \in f.work
        /\ MarkWrite(u) => f.pc = "mark_write"
        /\ Marked(u) => f.pc = "marked"
    BY <1>0 DEF CopyWrite, MarkRead, MarkWrite, Marked, At, UserOK
  <2> QED
    BY <1>3, <1>6, <1>7, <1>9, <2>1, <2>2
<1> QED
  BY <1>4, <1>5, <1>8

\* Every step keeps user memories: what is written to a semantic memory that
\* nobody retired is ACTIVE.
LEMMA UserRowsNext ==
  ASSUME ~SharedStore, ArchiveInv, UserInv, [Next]_vars
  PROVE  UserMemoryKept'
<1> SUFFICES ASSUME NEW id \in Ids, IsA(id, "semantic")', id \notin retired'
             PROVE  state'[id] = "active"
  BY DEF UserMemoryKept
<1>0. /\ TypeOK /\ Kept /\ state \in [Ids -> States \cup {"absent"}]
      /\ born \in [Ids -> Descriptor \cup {Unborn}]
      /\ \A t \in Tasks :
           /\ frame[t] \in Frames /\ LocalOK(frame[t]) /\ UserOK(frame[t])
           /\ \A m \in frame[t].pack : m.id \in Ids /\ born[m.id] # Unborn
           /\ \A i \in frame[t].work : i \in Ids /\ born[i] # Unborn
  BY Stored DEF UserInv, TypeOK
<1>1. CASE born[id] # Unborn
  <2>1. IsA(id, "semantic") /\ id \notin retired /\ state[id] = "active"
    BY <1>0, <1>1 DEF Kept, UserInv, UserMemoryKept, IsA
  <2>2. ASSUME NEW t \in Tasks, AccessWrite(t) \/ GetWrite(t)
        PROVE  state'[id] = "active"
    <3>1. PICK m \in frame[t].pack : m.id \in Ids /\ state' = [state EXCEPT ![m.id] = m.state]
      BY <2>2, WritesBack DEF ArchiveInv
    <3> QED BY <1>0, <2>1, <3>1 DEF UserOK
  <2>3. ASSUME NEW t \in Tasks, MarkWrite(t) PROVE state'[id] = "active"
    <3>1. IsA(frame[t].item, "working")
      BY <1>0, <2>3 DEF MarkWrite, At, UserOK
    <3>2. frame[t].item # id
      BY <2>1, <3>1 DEF IsA
    <3> QED
      BY <1>0, <2>1, <2>3, <3>2 DEF MarkWrite
  <2>4. ASSUME NEW t \in Tasks, Ingest(t) \/ CopyWrite(t) PROVE state'[id] = "active"
    BY <1>0, <2>1, <2>4 DEF Ingest, CopyWrite
  <2>5. ASSUME NEW t \in Tasks, UpdateWrite(t) \/ Delete(t) \/ ExpireOne(t)
        PROVE  state'[id] = "active"
    BY <1>0, <2>1, <2>5 DEF UpdateWrite, Delete, ExpireOne
  <2>6. ASSUME state' = state PROVE state'[id] = "active"
    BY <2>1, <2>6
  <2> QED
    BY <2>2, <2>3, <2>4, <2>5, <2>6
       DEF Next, Start, Proceed, BeforeInference, ArchiveSession, Get, UpdateState,
           ExpireStale, Created, Recall, Select, Accessed, MarkRead, Marked,
           ArchiveReturn, Crash, vars
<1>2. CASE born[id] = Unborn
  <2>1. born' # born
    BY <1>2 DEF IsA
  <2>2. ASSUME NEW t \in Tasks, Ingest(t) \/ CopyWrite(t) PROVE state'[id] = "active"
    <3>1. PICK x, d : /\ born' = [born EXCEPT ![x] = d]
                      /\ state' = [state EXCEPT ![x] = "active"]
      BY <2>2 DEF Ingest, CopyWrite
    <3>2. x = id
      BY <1>0, <1>2, <3>1 DEF IsA
    <3> QED
      BY <1>0, <3>1, <3>2
  <2> QED
    BY <2>1, <2>2
       DEF Next, Start, Proceed, BeforeInference, ArchiveSession, Get, UpdateState,
           ExpireStale, Created, Recall, Select, Accessed, MarkRead, Marked,
           ArchiveReturn, Crash, vars, AccessWrite, MarkWrite, GetWrite, UpdateWrite,
           Delete, ExpireOne
<1> QED
  BY <1>1, <1>2

\* With a store for each manager, archive_session leaves the explicit user
\* memories alone, and they stay in semantic recall until a caller retires
\* them, whatever overlaps.
THEOREM UserMemoriesStay ==
  ASSUME ~SharedStore
  PROVE  Spec => []UserMemoryKept
<1>1. Init => UserInv
  BY DEF Init, UserInv, UserMemoryKept, UserOK, IsA, Idle
<1>2. ArchiveInv /\ UserInv /\ [Next]_vars => UserInv'
  BY UserFrameNext, UserRowsNext DEF UserInv
<1>3. UserInv => UserMemoryKept
  BY DEF UserInv
<1> QED
  BY <1>1, <1>2, <1>3, Invariance, PTL DEF Spec

-----------------------------------------------------------------------------
(* When calls do not overlap.                                               *)

OneCall == \A t, u \in Tasks : t # u => frame[t].pc = "idle" \/ frame[u].pc = "idle"

\* What the one call under way has read is what the store holds.
CurrentOK(f) ==
  /\ f.pc \in {"recall", "access", "accessed", "get"} =>
       \A m \in f.pack : state[m.id] = m.state
  /\ f.pc = "mark_write" => CanTransition(state[f.item], "archived") /\ Present(f.item)
  /\ f.pc = "update" => CanTransition(state[f.item], f.goal) /\ Present(f.item)
  /\ f.pc = "sweep" => \A i \in f.work : state[i] = "active"

InTurnInv ==
  /\ OneCall
  /\ \A t \in Tasks : CurrentOK(frame[t])
  /\ RetiredStored
  /\ RetiredStaysOut

\* Where calls do not overlap, a task moves only while the others are idle.
LEMMA OthersIdle ==
  ASSUME ~Overlap, TypeOK, NEW t \in Tasks, Start(t) \/ Proceed(t),
         NEW u \in Tasks, t # u
  PROVE  frame[u].pc = "idle" /\ frame'[u].pc = "idle"
<1>1. MayRun(t)
  BY DEF Start, Proceed, Ingest, BeforeInference, ArchiveSession, Get, UpdateState,
         Delete, ExpireStale, Created, Recall, Select, AccessWrite, Accessed,
         CopyWrite, MarkRead, MarkWrite, Marked, ArchiveReturn, GetWrite, UpdateWrite,
         ExpireOne, Begin, At
<1> QED
  BY <1>1, OthersStay DEF MayRun

\* Of the table, what the actions that write a fixed state rely on.
LEMMA Table ==
  /\ \A s \in States : CanTransition(s, "archived") => s = "active"
  /\ CanTransition("active", "expired")
  BY DEF CanTransition, AllowedTransitions

\* A call that proceeds keeps what it has read current.
LEMMA CurrentNext ==
  ASSUME ArchiveInv, [Next]_vars, NEW t \in Tasks, Start(t) \/ Proceed(t),
         CurrentOK(frame[t])
  PROVE  CurrentOK(frame[t])'
<1> PICK f : f = frame[t]
  OBVIOUS
<1> PICK g : g = frame'[t]
  OBVIOUS
<1>0. /\ TypeOK /\ f \in Frames /\ CurrentOK(f)
      /\ state \in [Ids -> States \cup {"absent"}]
      /\ \A m \in f.pack : m.id \in Ids
      /\ \A i \in f.work : i \in Ids
  BY Stored DEF TypeOK, CurrentOK, Present
<1>1. SUFFICES CurrentOK(g)'
  BY DEF CurrentOK, Present
<1> DEFINE Reading == {"recall", "access", "accessed", "get"}
<1>2. ASSUME state' = state, CurrentOK(g) PROVE CurrentOK(g)'
  BY <1>2 DEF CurrentOK, Present
<1>3. CASE g = Idle
  BY <1>3 DEF CurrentOK, Idle
<1>4. CASE Delete(t) /\ g = f
  BY <1>4 DEF CurrentOK, Delete, Begin
<1>5. CASE g.pc \notin Reading \cup {"mark_write", "update", "sweep"}
  BY <1>5 DEF CurrentOK
<1>6. CASE BeforeInference(t) /\ g.pc = "recall" /\ g.pack = {}
  BY <1>6 DEF CurrentOK
<1>7. CASE Recall(t) /\ g.pc = "recall" /\ g.pack = f.pack \cup Read(f)
  <2>1. f.pc = "recall" /\ state' = state
    BY <1>7 DEF Recall, At
  <2>2. \A m \in Read(f) : state[m.id] = m.state
    BY DEF Read
  <2> QED
    BY <1>0, <1>2, <1>7, <2>1, <2>2 DEF CurrentOK
<1>8. CASE Select(t) /\ g.pc = "access" /\ g.pack \subseteq f.pack
  <2>1. f.pc = "recall" /\ state' = state
    BY <1>8 DEF Select, At
  <2> QED
    BY <1>0, <1>2, <1>8, <2>1 DEF CurrentOK
<1>9. CASE AccessWrite(t) /\ g.pc = "accessed" /\ g.pack \subseteq f.pack
  <2>1. f.pc = "access"
    BY <1>9 DEF AccessWrite, At
  <2>2. PICK m \in f.pack : state' = [state EXCEPT ![m.id] = m.state]
    BY <1>9, WritesBack DEF ArchiveInv
  <2>3. m.id \in Ids /\ state[m.id] = m.state
    BY <1>0, <2>1 DEF CurrentOK
  <2>4. state' = state
    BY <1>0, <2>2, <2>3
  <2> QED
    BY <1>0, <1>2, <1>9, <2>1, <2>4 DEF CurrentOK
<1>10. CASE Accessed(t) /\ g.pc = "access" /\ g.pack = f.pack
  <2>1. f.pc = "accessed" /\ state' = state
    BY <1>10 DEF Accessed, At
  <2> QED
    BY <1>0, <1>2, <1>10, <2>1 DEF CurrentOK
<1>11. CASE /\ MarkRead(t) /\ g.pc = "mark_write" /\ g.item = f.item
            /\ Present(f.item) /\ CanTransition(state[f.item], "archived")
  <2>1. state' = state
    BY <1>11 DEF MarkRead
  <2> QED
    BY <1>2, <1>11, <2>1 DEF CurrentOK
<1>12. CASE /\ UpdateState(t) /\ g.pc = "update"
            /\ Present(g.item) /\ CanTransition(state[g.item], g.goal)
  <2>1. state' = state
    BY <1>12 DEF UpdateState
  <2> QED
    BY <1>2, <1>12, <2>1 DEF CurrentOK
<1>13. CASE /\ ExpireStale(t) /\ g.pc = "sweep"
            /\ \A i \in g.work : state[i] = "active"
  <2>1. state' = state
    BY <1>13 DEF ExpireStale
  <2> QED
    BY <1>2, <1>13, <2>1 DEF CurrentOK
<1>14. CASE \E i \in f.work : /\ ExpireOne(t) /\ g.pc = "sweep"
                              /\ g.work = f.work \ {i}
                              /\ state' = [state EXCEPT ![i] = "expired"]
  <2>1. PICK i \in f.work : /\ ExpireOne(t) /\ g.pc = "sweep"
                            /\ g.work = f.work \ {i}
                            /\ state' = [state EXCEPT ![i] = "expired"]
    BY <1>14
  <2>2. f.pc = "sweep"
    BY <2>1 DEF ExpireOne, At
  <2>3. \A j \in g.work : state'[j] = "active"
    BY <1>0, <2>1, <2>2 DEF CurrentOK
  <2> QED
    BY <2>1, <2>3 DEF CurrentOK
<1>15. CASE Get(t) /\ g.pc = "get" /\ \A m \in g.pack : m.state = state[m.id]
  <2>1. state' = state
    BY <1>15 DEF Get
  <2> QED
    BY <1>2, <1>15, <2>1 DEF CurrentOK
<1> QED
  <2>1. CASE Moved(t, f, g)
    BY <1>5, <1>6, <1>7, <1>8, <1>9, <1>10, <1>11, <1>12, <1>13, <1>14, <1>15, <2>1
       DEF Moved
  <2>2. CASE g # Idle
    BY <1>0, <1>4, <2>1, <2>2, OwnMoves
  <2> QED
    BY <1>3, <2>2

\* Every step that changes a row moves it along the table, unless it makes or
\* deletes it, and leaves retired memories where they are.
LEMMA RowsInTurn ==
  ASSUME ArchiveInv, InTurnInv, [Next]_vars, NEW id \in Ids
  PROVE  /\ Present(id) /\ Present(id)' /\ state'[id] # state[id]
              => CanTransition(state[id], state'[id])
         /\ id \in retired' => /\ born'[id] # Unborn
                               /\ state'[id] \in Terminal \cup {"absent"}
<1> DEFINE Legal == /\ Present(id) /\ Present(id)' /\ state'[id] # state[id]
                         => CanTransition(state[id], state'[id])
                    /\ id \in retired' => /\ born'[id] # Unborn
                                          /\ state'[id] \in Terminal \cup {"absent"}
<1>0. /\ TypeOK /\ Kept /\ Terminal = {"expired", "superseded"}
      /\ state \in [Ids -> States \cup {"absent"}]
      /\ born[id] = Unborn => state[id] = "absent"
      /\ \A t \in Tasks :
           /\ LocalOK(frame[t]) /\ CurrentOK(frame[t])
           /\ \A m \in frame[t].pack : m.id \in Ids /\ born[m.id] # Unborn
           /\ \A i \in frame[t].work : i \in Ids /\ born[i] # Unborn
      /\ id \in retired => born[id] # Unborn /\ state[id] \in Terminal \cup {"absent"}
  BY Stored, TerminalStates DEF InTurnInv, TypeOK, RetiredStored, RetiredStaysOut
<1>1. born[id] # Unborn => born'[id] # Unborn
  BY <1>0 DEF Kept
<1> USE <1>0, <1>1 DEF Present
<1>2. ASSUME state'[id] = state[id], retired' = retired PROVE Legal
  BY <1>2
<1>3. ASSUME NEW t \in Tasks, Ingest(t) \/ CopyWrite(t) PROVE Legal
  <2>1. PICK x \in Ids : /\ born[x] = Unborn /\ retired' = retired
                         /\ state' = [state EXCEPT ![x] = "active"]
    BY <1>3 DEF Ingest, CopyWrite, Fresh
  <2> QED
    BY <2>1
<1>4. ASSUME NEW t \in Tasks, AccessWrite(t) \/ GetWrite(t) PROVE Legal
  <2>1. PICK m \in frame[t].pack : /\ state' = [state EXCEPT ![m.id] = m.state]
                                   /\ retired' = retired
    BY <1>4, WritesBack DEF ArchiveInv
  <2>2. state[m.id] = m.state
    BY <1>4 DEF AccessWrite, GetWrite, At, CurrentOK
  <2> QED
    BY <1>2, <2>1, <2>2
<1>5. ASSUME NEW t \in Tasks, MarkWrite(t) PROVE Legal
  <2>1. /\ state[frame[t].item] = "active"
        /\ CanTransition(state[frame[t].item], "archived")
    BY <1>5, Table DEF MarkWrite, At, CurrentOK, LocalOK
  <2>2. /\ state' = [state EXCEPT ![frame[t].item] = "archived"]
        /\ retired' = retired
    BY <1>5 DEF MarkWrite
  <2> QED
    BY <2>1, <2>2
<1>6. ASSUME NEW t \in Tasks, UpdateWrite(t) PROVE Legal
  <2>1. /\ CanTransition(state[frame[t].item], frame[t].goal)
        /\ frame[t].goal \in Terminal /\ frame[t].item \in Ids
        /\ born[frame[t].item] # Unborn
    BY <1>6 DEF UpdateWrite, At, CurrentOK, LocalOK
  <2>2. /\ state' = [state EXCEPT ![frame[t].item] = frame[t].goal]
        /\ retired' = retired \cup {frame[t].item}
    BY <1>6 DEF UpdateWrite
  <2> QED
    BY <2>1, <2>2
<1>7. ASSUME NEW t \in Tasks, Delete(t) PROVE Legal
  BY <1>7 DEF Delete
<1>8. ASSUME NEW t \in Tasks, ExpireOne(t) PROVE Legal
  <2>1. PICK i \in frame[t].work : /\ state' = [state EXCEPT ![i] = "expired"]
                                   /\ retired' = retired \cup {i}
    BY <1>8 DEF ExpireOne
  <2>2. state[i] = "active"
    BY <1>8 DEF ExpireOne, At, CurrentOK
  <2> QED
    BY <2>1, <2>2, Table
<1>9. ASSUME UNCHANGED <<state, retired>> PROVE Legal
  BY <1>2, <1>9
<1> QED
  BY <1>3, <1>4, <1>5, <1>6, <1>7, <1>8, <1>9
     DEF Next, Start, Proceed, BeforeInference, ArchiveSession, Get, UpdateState,
         ExpireStale, Created, Recall, Select, Accessed, MarkRead, Marked,
         ArchiveReturn, Crash, vars

\* Every step keeps the invariant of calls that do not overlap.
LEMMA InTurnNext ==
  ASSUME ~Overlap, ArchiveInv, InTurnInv, [Next]_vars
  PROVE  InTurnInv'
<1>0. TypeOK /\ OneCall /\ \A u \in Tasks : CurrentOK(frame[u])
  BY DEF ArchiveInv, InTurnInv
<1>1. OneCall' /\ \A u \in Tasks : CurrentOK(frame[u])'
  <2>1. ASSUME NEW t \in Tasks, Start(t) \/ Proceed(t)
        PROVE  OneCall' /\ \A u \in Tasks : CurrentOK(frame[u])'
    <3>1. \A u \in Tasks : t # u => frame'[u].pc = "idle"
      BY <1>0, <2>1, OthersIdle
    <3>2. OneCall'
      BY <3>1 DEF OneCall
    <3>3. CurrentOK(frame[t])'
      BY <1>0, <2>1, CurrentNext
    <3>4. \A u \in Tasks : t # u => CurrentOK(frame[u])'
      BY <3>1 DEF CurrentOK
    <3> QED
      BY <3>2, <3>3, <3>4
  <2>2. CASE Crash
    BY <2>2 DEF Crash, OneCall, CurrentOK, Idle
  <2>3. CASE UNCHANGED vars
    BY <1>0, <2>3 DEF vars, OneCall, CurrentOK, Present
  <2> QED
    BY <2>1, <2>2, <2>3 DEF Next
<1>2. RetiredStored' /\ RetiredStaysOut'
  <2>1. retired' \subseteq Ids
    BY TypeNext DEF ArchiveInv, TypeOK
  <2> QED
    BY <2>1, RowsInTurn DEF RetiredStored, RetiredStaysOut
<1> QED
  BY <1>1, <1>2 DEF InTurnInv

\* Every reachable state of calls that do not overlap, crashes included.
LEMMA InTurn ==
  ASSUME ~Overlap
  PROVE  Spec => [](ArchiveInv /\ InTurnInv)
<1>1. Init => InTurnInv
  BY DEF Init, InTurnInv, OneCall, CurrentOK, RetiredStored, RetiredStaysOut, Idle
<1> QED
  BY <1>1, InTurnNext, Invariance, PTL DEF Spec

\* With the in-memory store a memory that a caller deleted, superseded or
\* expired is in no state that a recall accepts, and so in no later pack.
THEOREM RetiredStay ==
  ASSUME ~Overlap
  PROVE  Spec => []RetiredStaysOut
<1>1. InTurnInv => RetiredStaysOut
  BY DEF InTurnInv
<1> QED
  BY <1>1, InTurn, PTL

\* With the in-memory store the calls of the service and of its callers move
\* memories along ALLOWED_TRANSITIONS only, write-backs included.
THEOREM MovesAreLegal ==
  ASSUME ~Overlap
  PROVE  Spec => StatesMoveLegally
<1> DEFINE Legal == \A id \in Ids :
                      Present(id) /\ Present(id)' /\ state'[id] # state[id]
                        => CanTransition(state[id], state'[id])
<1>1. ArchiveInv /\ InTurnInv /\ [Next]_vars => [Legal]_vars
  BY RowsInTurn
<1>2. Spec => [][Legal]_vars
  BY <1>1, InTurn, PTL DEF Spec
<1> QED
  BY <1>2 DEF StatesMoveLegally

-----------------------------------------------------------------------------
(* A memory is archived once.                                               *)

Marking == {"mark_read", "mark_write"}

\* Only a memory that is made becomes ACTIVE.
LEMMA StillActive ==
  ASSUME ArchiveInv, InTurnInv, [Next]_vars, NEW t \in Tasks, Start(t) \/ Proceed(t),
         ~Ingest(t), ~CopyWrite(t)
  PROVE  born' = born /\ \A id \in Ids : state'[id] = "active" => state[id] = "active"
<1> DEFINE Still == born' = born /\ \A id \in Ids : state'[id] = "active" => state[id] = "active"
<1>0. /\ TypeOK /\ LocalOK(frame[t]) /\ CurrentOK(frame[t])
      /\ state \in [Ids -> States \cup {"absent"}]
      /\ \A m \in frame[t].pack : m.id \in Ids
      /\ Terminal = {"expired", "superseded"}
  BY Stored, TerminalStates DEF InTurnInv, TypeOK
<1>1. CASE state' = state
  <2>1. born' = born
    BY DEF Start, Proceed, BeforeInference, ArchiveSession, Get, UpdateState,
           Delete, ExpireStale, Created, Recall, Select, AccessWrite, Accessed, MarkRead, MarkWrite, Marked,
           ArchiveReturn, GetWrite, UpdateWrite, ExpireOne
  <2> QED BY <1>1, <2>1
<1>2. CASE AccessWrite(t) \/ GetWrite(t)
  <2>1. PICK m \in frame[t].pack : state' = [state EXCEPT ![m.id] = m.state] /\ born' = born
    BY <1>2, WritesBack DEF ArchiveInv
  <2>2. state[m.id] = m.state
    BY <1>0, <1>2 DEF AccessWrite, GetWrite, At, CurrentOK
  <2> QED BY <1>0, <2>1, <2>2
<1>3. CASE MarkWrite(t)
  BY <1>0, <1>3 DEF MarkWrite
<1>4. CASE UpdateWrite(t)
  BY <1>0, <1>4 DEF UpdateWrite, At, LocalOK
<1>5. CASE Delete(t)
  BY <1>0, <1>5 DEF Delete
<1>6. CASE ExpireOne(t)
  BY <1>0, <1>6 DEF ExpireOne
<1>7. \/ state' = state \/ AccessWrite(t) \/ MarkWrite(t) \/ GetWrite(t) \/ UpdateWrite(t)
      \/ Delete(t) \/ ExpireOne(t)
  BY DEF Start, Proceed, BeforeInference, ArchiveSession, Get, UpdateState, ExpireStale,
         Created, Recall, Select, Accessed, MarkRead, Marked, ArchiveReturn
<1> QED BY <1>1, <1>2, <1>3, <1>4, <1>5, <1>6, <1>7

\* A memory that is ingested is an original.
LEMMA IngestMakes ==
  ASSUME TypeOK, NEW t \in Tasks, Ingest(t)
  PROVE  \E c \in Ids :
           /\ born[c] = Unborn /\ born'[c] # Unborn
           /\ born'[c].type # "episodic" /\ born'[c].content = c
           /\ \A id \in Ids : id # c => born'[id] = born[id] /\ state'[id] = state[id]
<1>1. PICK c \in Fresh, event \in EventTypes, s \in Sessions :
        /\ born' = [born EXCEPT ![c] =
                      [type |-> TypeOf(event), session |-> s, from |-> None, content |-> c]]
        /\ state' = [state EXCEPT ![c] = "active"]
  BY DEF Ingest
<1> DEFINE d == [type |-> TypeOf(event), session |-> s, from |-> None, content |-> c]
<1>2. c \in Ids /\ born[c] = Unborn
  BY DEF Fresh
<1>3. d \in Descriptor /\ d.type # "episodic" /\ d.content = c
  BY <1>2 DEF Descriptor, TypeOf
<1> HIDE DEF d
<1>4. born' = [born EXCEPT ![c] = d]
  BY <1>1 DEF d
<1> QED
  BY <1>1, <1>2, <1>3, <1>4, IdsAssumption DEF TypeOK

\* A copy is made of an item that archive_session has not come to.
LEMMA CopyMakes ==
  ASSUME ArchiveInv, [Next]_vars, NEW t \in Tasks, CopyWrite(t)
  PROVE  \E i \in frame[t].work, c \in Ids :
           /\ i \in Ids /\ born[i] # Unborn
           /\ born[c] = Unborn /\ born'[c] # Unborn
           /\ born'[c].type = "episodic" /\ born'[c].from = i
           /\ born'[c].content = born[i].content
           /\ \A id \in Ids : id # c => born'[id] = born[id] /\ state'[id] = state[id]
           /\ frame[t].pc = "archive" /\ frame'[t].pc = "mark_read"
           /\ frame'[t].item = i /\ frame'[t].work = frame[t].work
<1>1. PICK i \in frame[t].work, c \in Fresh :
        /\ born' = [born EXCEPT ![c] = [born[i] EXCEPT !.type = "episodic", !.from = i]]
        /\ state' = [state EXCEPT ![c] = "active"]
        /\ Goto(t, [frame[t] EXCEPT !.pc = "mark_read", !.item = i, !.copy = c])
  BY DEF CopyWrite
<1>2. /\ c \in Ids /\ born[c] = Unborn /\ i \in Ids /\ born[i] # Unborn
      /\ frame[t] \in Frames /\ TypeOK
  BY Stored DEF Fresh
<1>3. born[i] \in Descriptor
  BY <1>2 DEF TypeOK
<1> DEFINE d == [born[i] EXCEPT !.type = "episodic", !.from = i]
<1>4. /\ d \in Descriptor /\ d.type = "episodic" /\ d.from = i
      /\ d.content = born[i].content
  BY <1>2, <1>3 DEF Descriptor
<1> HIDE DEF d
<1>5. born' = [born EXCEPT ![c] = d]
  BY <1>1 DEF d
<1>6. frame'[t] = [frame[t] EXCEPT !.pc = "mark_read", !.item = i, !.copy = c]
  BY <1>1, <1>2, GotoOnly DEF TypeOK
<1>7. /\ frame'[t].pc = "mark_read" /\ frame'[t].item = i
      /\ frame'[t].work = frame[t].work
  BY <1>2, <1>6 DEF Frames
<1>8. frame[t].pc = "archive"
  BY DEF CopyWrite, At
<1>9. /\ born'[c] # Unborn /\ born'[c].type = "episodic" /\ born'[c].from = i
      /\ born'[c].content = born[i].content
      /\ \A id \in Ids : id # c => born'[id] = born[id] /\ state'[id] = state[id]
  BY <1>1, <1>2, <1>4, <1>5, IdsAssumption DEF TypeOK
<1> QED
  BY <1>1, <1>2, <1>7, <1>8, <1>9

\* While a call archives, no other is anywhere near.
LEMMA NobodyMarks ==
  ASSUME ~Overlap, ArchiveInv, InTurnInv, OnceInv, NEW t \in Tasks, Start(t) \/ Proceed(t),
         frame[t].pc \notin Marking
  PROVE  \A id \in Ids : Copied(id) => state[id] # "active"
<1>1. \A u \in Tasks : frame[u].pc \notin Marking
  BY OthersIdle DEF ArchiveInv, Marking
<1> QED BY <1>1 DEF OnceInv, CopiedIsLeft, Marking

\* The new descriptors keep the two facts about copies.
LEMMA OriginsNext ==
  ASSUME ~Overlap, ArchiveInv, InTurnInv, OnceInv, [Next]_vars,
         NEW t \in Tasks, Start(t) \/ Proceed(t)
  PROVE  OriginsKnown' /\ CopiedOnce'
<1>0. TypeOK /\ OriginsKnown /\ CopiedOnce /\ WorkOK(frame[t])
  BY DEF ArchiveInv, OnceInv
<1>1. CASE Ingest(t)
  <2>1. PICK c \in Ids :
           /\ born[c] = Unborn /\ born'[c] # Unborn
           /\ born'[c].type # "episodic" /\ born'[c].content = c
           /\ \A id \in Ids : id # c => born'[id] = born[id]
    BY <1>0, <1>1, IngestMakes
  <2>2. \A id \in Ids : IsA(id, "working") => IsA(id, "working")'
    BY <2>1 DEF IsA
  <2>3. OriginsKnown'
    BY <1>0, <2>1, <2>2 DEF OriginsKnown
  <2>4. CopiedOnce'
    BY <1>0, <2>1 DEF CopiedOnce, IsA
  <2> QED BY <2>3, <2>4
<1>2. CASE CopyWrite(t)
  <2>1. PICK i \in frame[t].work, c \in Ids :
           /\ i \in Ids /\ born[i] # Unborn
           /\ born[c] = Unborn /\ born'[c] # Unborn
           /\ born'[c].type = "episodic" /\ born'[c].from = i
           /\ born'[c].content = born[i].content
           /\ \A id \in Ids : id # c => born'[id] = born[id]
           /\ frame[t].pc = "archive"
    BY <1>2, CopyMakes
  <2>2. \A id \in Ids : IsA(id, "working") => IsA(id, "working")'
    BY <2>1 DEF IsA
  <2>3. IsA(i, "working") /\ ~Copied(i)
    BY <1>0, <2>1, IdsAssumption DEF WorkOK
  <2>4. born[i].content = i
    BY <1>0, <2>1, <2>3 DEF OriginsKnown, IsA
  <2>5. OriginsKnown'
    BY <1>0, <2>1, <2>2, <2>3, <2>4 DEF OriginsKnown
  <2>6. CopiedOnce'
    BY <1>0, <2>1, <2>3 DEF CopiedOnce, Copied, IsA
  <2> QED BY <2>5, <2>6
<1>3. CASE ~Ingest(t) /\ ~CopyWrite(t)
  <2>1. born' = born
    BY <1>3, StillActive
  <2> QED BY <1>0, <2>1 DEF OriginsKnown, CopiedOnce, IsA
<1> QED BY <1>1, <1>2, <1>3

\* The item of a call that is being marked is ACTIVE, and so it is marked.
LEMMA MarkingGoesOn ==
  ASSUME ArchiveInv, OnceInv, [Next]_vars, NEW t \in Tasks, Start(t) \/ Proceed(t),
         frame[t].pc \in Marking
  PROVE  \/ /\ MarkRead(t) /\ frame'[t].pc = "mark_write" /\ state' = state
            /\ frame'[t].item = frame[t].item /\ frame'[t].work = frame[t].work
         \/ /\ MarkWrite(t) /\ frame'[t].pc = "marked"
            /\ state' = [state EXCEPT ![frame[t].item] = "archived"]
            /\ frame'[t].item = frame[t].item /\ frame'[t].work = frame[t].work
<1>0. /\ frame[t] \in Frames /\ TypeOK /\ LocalOK(frame[t]) /\ WorkOK(frame[t])
  BY Stored DEF OnceInv
<1>1. MarkRead(t) \/ MarkWrite(t)
  BY DEF Marking, Start, Proceed, Ingest, BeforeInference, ArchiveSession, Get, UpdateState,
         Delete, ExpireStale, Created, Recall, Select, AccessWrite, Accessed,
         CopyWrite, Marked, ArchiveReturn, GetWrite, UpdateWrite, ExpireOne, Begin, At
<1>2. CASE MarkRead(t)
  <2>1. state[frame[t].item] = "active"
    BY <1>0, <1>2 DEF MarkRead, At, WorkOK
  <2>2. CanTransition("active", "archived")
    BY DEF CanTransition, AllowedTransitions
  <2>3. Goto(t, [frame[t] EXCEPT !.pc = "mark_write"]) /\ state' = state
    BY <1>2, <2>1, <2>2 DEF MarkRead, Present
  <2>4. frame'[t] = [frame[t] EXCEPT !.pc = "mark_write"]
    BY <1>0, <2>3, GotoOnly DEF TypeOK
  <2> QED BY <1>0, <1>2, <2>3, <2>4 DEF Frames
<1>3. CASE MarkWrite(t)
  <2>1. /\ Goto(t, [frame[t] EXCEPT !.pc = "marked"])
        /\ state' = [state EXCEPT ![frame[t].item] = "archived"]
    BY <1>3 DEF MarkWrite
  <2>2. frame'[t] = [frame[t] EXCEPT !.pc = "marked"]
    BY <1>0, <2>1, GotoOnly DEF TypeOK
  <2> QED BY <1>0, <1>3, <2>1, <2>2 DEF Frames
<1> QED BY <1>1, <1>2, <1>3

\* A copied memory leaves working memory, and no call brings it back.
LEMMA LeftNext ==
  ASSUME ~Overlap, ArchiveInv, InTurnInv, OnceInv, [Next]_vars,
         NEW t \in Tasks, Start(t) \/ Proceed(t)
  PROVE  CopiedIsLeft'
<1>0. TypeOK /\ OriginsKnown /\ CopiedIsLeft
  BY DEF ArchiveInv, OnceInv
<1>1. CASE Ingest(t)
  <2>1. PICK c \in Ids :
           /\ born[c] = Unborn /\ born'[c] # Unborn
           /\ born'[c].type # "episodic" /\ born'[c].content = c
           /\ \A id \in Ids : id # c => born'[id] = born[id] /\ state'[id] = state[id]
    BY <1>0, <1>1, IngestMakes
  <2>2. ASSUME NEW id \in Ids, Copied(id)' PROVE Copied(id) /\ id # c
    BY <1>0, <2>1, <2>2 DEF Copied, IsA, OriginsKnown
  <2>3. \A id \in Ids : Copied(id) => state[id] # "active"
    BY <1>1, NobodyMarks DEF Ingest, Begin, Marking
  <2> QED BY <2>1, <2>2, <2>3 DEF CopiedIsLeft
<1>2. CASE CopyWrite(t)
  <2>1. PICK i \in frame[t].work, c \in Ids :
           /\ i \in Ids /\ born[i] # Unborn
           /\ born[c] = Unborn /\ born'[c] # Unborn
           /\ born'[c].type = "episodic" /\ born'[c].from = i
           /\ \A id \in Ids : id # c => born'[id] = born[id] /\ state'[id] = state[id]
           /\ frame[t].pc = "archive" /\ frame'[t].pc = "mark_read" /\ frame'[t].item = i
    BY <1>2, CopyMakes
  <2>2. ASSUME NEW id \in Ids, Copied(id)', id # i PROVE Copied(id) /\ id # c
    BY <1>0, <2>1, <2>2 DEF Copied, IsA, OriginsKnown
  <2>3. \A id \in Ids : Copied(id) => state[id] # "active"
    BY <2>1, NobodyMarks DEF Marking
  <2> QED BY <2>1, <2>2, <2>3 DEF CopiedIsLeft
<1>3. CASE ~Ingest(t) /\ ~CopyWrite(t)
  <2>1. born' = born /\ \A id \in Ids : state'[id] = "active" => state[id] = "active"
    BY <1>3, StillActive
  <2>2. \A id \in Ids : Copied(id)' <=> Copied(id)
    BY <2>1 DEF Copied, IsA
  <2>3. CASE frame[t].pc \notin Marking
    BY <2>1, <2>2, <2>3, NobodyMarks DEF CopiedIsLeft
  <2>4. CASE frame[t].pc \in Marking
    <3>1. \A id \in Ids : Copied(id) /\ state[id] = "active" => id = frame[t].item
      <4>1. \A u \in Tasks : u # t => frame[u].pc \notin Marking
        BY <1>0, OthersIdle DEF Marking
      <4> QED BY <1>0, <4>1 DEF CopiedIsLeft, Marking
    <3>2. CASE frame'[t].pc = "mark_write" /\ frame'[t].item = frame[t].item
      BY <2>1, <2>2, <3>1, <3>2 DEF CopiedIsLeft
    <3>3. CASE state' = [state EXCEPT ![frame[t].item] = "archived"]
      BY <1>0, <2>1, <2>2, <3>1, <3>3 DEF CopiedIsLeft, TypeOK
    <3> QED BY <2>4, <3>2, <3>3, MarkingGoesOn
  <2> QED BY <2>3, <2>4
<1> QED BY <1>1, <1>2, <1>3

\* What archive_session still has to archive stays ACTIVE and without a copy.
LEMMA WorkNext ==
  ASSUME ~Overlap, ~SharedStore, ArchiveInv, InTurnInv, OnceInv, [Next]_vars,
         NEW t \in Tasks, Start(t) \/ Proceed(t)
  PROVE  WorkOK(frame[t])'
<1> PICK f : f = frame[t]
  OBVIOUS
<1> PICK g : g = frame'[t]
  OBVIOUS
<1> DEFINE Archives == {"archive", "mark_read", "mark_write", "marked"}
<1>0. /\ TypeOK /\ f \in Frames /\ WorkOK(f) /\ LocalOK(f)
      /\ \A i \in f.work : i \in Ids /\ born[i] # Unborn
      /\ state \in [Ids -> States \cup {"absent"}] /\ None \notin Ids
  BY Stored, IdsAssumption DEF TypeOK, OnceInv
<1>1. SUFFICES WorkOK(g)'
  BY DEF WorkOK, Copied, IsA
<1>2. CASE g.pc \notin Archives
  BY <1>2 DEF WorkOK
<1>3. CASE ArchiveSession(t)
  <2>0. PICK s \in Sessions :
          \E W \in SUBSET Archivable(s) : Goto(t, [Idle EXCEPT !.pc = "archive", !.work = W])
    BY <1>3 DEF ArchiveSession
  <2>1. PICK W \in SUBSET Archivable(s) : Goto(t, [Idle EXCEPT !.pc = "archive", !.work = W])
    BY <2>0
  <2>2. /\ g = [Idle EXCEPT !.pc = "archive", !.work = W]
        /\ born' = born /\ state' = state /\ f.pc = "idle"
    BY <1>0, <1>3, <2>1, GotoOnly DEF TypeOK, ArchiveSession, Begin
  <2>3. g.pc = "archive" /\ g.work = W /\ g.item = None
    BY <2>2 DEF Idle
  <2>4. \A i \in W : i \in Ids /\ IsA(i, "working") /\ state[i] = "active"
    BY DEF Archivable
  <2>5. \A i \in W : ~Copied(i)
    BY <2>2, <2>4, NobodyMarks DEF Marking
  <2> QED BY <2>2, <2>3, <2>4, <2>5 DEF WorkOK, Copied, IsA
<1>4. CASE CopyWrite(t)
  <2>1. PICK i \in f.work, c \in Ids :
           /\ i \in Ids /\ born[i] # Unborn
           /\ born[c] = Unborn /\ born'[c] # Unborn
           /\ born'[c].type = "episodic" /\ born'[c].from = i
           /\ \A id \in Ids : id # c => born'[id] = born[id] /\ state'[id] = state[id]
           /\ f.pc = "archive" /\ g.pc = "mark_read" /\ g.item = i /\ g.work = f.work
    BY <1>4, CopyMakes
  <2>2. \A j \in f.work : /\ j \in Ids /\ j # c /\ IsA(j, "working")
                          /\ state[j] = "active" /\ ~Copied(j)
    BY <1>0, <2>1 DEF WorkOK
  <2>3. \A j \in f.work : IsA(j, "working")' /\ state'[j] = "active"
    BY <2>1, <2>2 DEF IsA
  <2>4. \A j \in f.work : j # i => ~Copied(j)'
    BY <2>1, <2>2 DEF Copied, IsA
  <2> QED BY <2>1, <2>3, <2>4 DEF WorkOK
<1>5. CASE f.pc \in Marking
  <2>1. born' = born
    BY <1>5, StillActive DEF Marking, Ingest, CopyWrite, Begin, At
  <2>2. /\ g.item = f.item /\ g.work = f.work /\ g.pc \in {"mark_write", "marked"}
        /\ \/ g.pc = "mark_write" /\ state' = state
           \/ g.pc = "marked" /\ state' = [state EXCEPT ![f.item] = "archived"]
    BY <1>5, MarkingGoesOn
  <2>3. \A j \in f.work : /\ IsA(j, "working")
                          /\ j = f.item \/ (state[j] = "active" /\ ~Copied(j))
    BY <1>0, <1>5 DEF WorkOK, Marking
  <2>4. \A j \in f.work : j # f.item => state'[j] = state[j]
    BY <1>0, <2>2
  <2>5. g.pc = "mark_write" => state'[g.item] = "active"
    BY <1>0, <1>5, <2>2 DEF WorkOK, Marking
  <2> QED BY <2>1, <2>2, <2>3, <2>4, <2>5 DEF WorkOK, Copied, IsA
<1>6. CASE Marked(t)
  <2>1. /\ Goto(t, [f EXCEPT !.pc = "archive", !.work = @ \ {f.item},
                             !.item = None, !.copy = None])
        /\ born' = born /\ state' = state /\ f.pc = "marked"
    BY <1>6 DEF Marked, At
  <2>2. g = [f EXCEPT !.pc = "archive", !.work = @ \ {f.item}, !.item = None, !.copy = None]
    BY <1>0, <2>1, GotoOnly DEF TypeOK
  <2>3. g.pc = "archive" /\ g.work = f.work \ {f.item} /\ g.item = None
    BY <1>0, <2>2 DEF Frames
  <2> QED BY <1>0, <2>1, <2>3 DEF WorkOK, Copied, IsA
<1>7. \/ g.pc \notin Archives \/ ArchiveSession(t) \/ CopyWrite(t) \/ f.pc \in Marking
      \/ Marked(t)
  <2>1. CASE g = Idle
    BY <2>1 DEF Idle
  <2>2. CASE Delete(t) /\ g = f
    BY <2>2 DEF Delete, Begin
  <2>3. CASE Moved(t, f, g)
    BY <2>3 DEF Moved, MarkRead, MarkWrite, Marking, At
  <2> QED BY <1>0, <2>1, <2>2, <2>3, OwnMoves
<1> QED BY <1>2, <1>3, <1>4, <1>5, <1>6, <1>7

\* Where calls do not overlap and nothing crashes, the invariant is kept.
LEMMA OnceNext ==
  ASSUME ~Overlap, ~SharedStore, ArchiveInv, InTurnInv, OnceInv, [Next]_vars
  PROVE  OnceInv'
<1>0. TypeOK /\ budget["crash"] = 0
  BY DEF ArchiveInv, OnceInv
<1>1. ASSUME NEW t \in Tasks, Start(t) \/ Proceed(t) PROVE OnceInv'
  <2>1. OriginsKnown' /\ CopiedOnce' /\ CopiedIsLeft' /\ WorkOK(frame[t])'
    BY <1>1, OriginsNext, LeftNext, WorkNext
  <2>2. \A u \in Tasks : t # u => frame'[u].pc = "idle"
    BY <1>0, <1>1, OthersIdle
  <2>3. \A u \in Tasks : t # u => WorkOK(frame[u])'
    BY <2>2 DEF WorkOK
  <2>4. budget'["crash"] = 0
    <3>1. budget' = budget \/ \E op \in Operations \ {"crash"} :
                                 budget' = [budget EXCEPT ![op] = @ - 1]
      BY <1>1 DEF Start, Proceed, Ingest, BeforeInference, ArchiveSession, Get, UpdateState,
            Delete, ExpireStale, Created, Recall, Select, AccessWrite, Accessed,
            CopyWrite, MarkRead, MarkWrite, Marked, ArchiveReturn, GetWrite, UpdateWrite,
            ExpireOne, Begin, At, Operations
    <3> QED BY <1>0, <3>1 DEF TypeOK, Operations
  <2> QED BY <2>1, <2>3, <2>4 DEF OnceInv
<1>2. ~Crash
  BY <1>0 DEF Crash
<1>3. CASE UNCHANGED vars
  BY <1>3 DEF vars, OnceInv, OriginsKnown, CopiedOnce, CopiedIsLeft, WorkOK, Copied, IsA
<1> QED BY <1>1, <1>2, <1>3 DEF Next

\* With the in-memory stores, separate as MemoryService builds them, a memory is
\* archived once, however often archive_session runs for its session, unless
\* the process dies half way (service.py archives what is ACTIVE and marks it).
THEOREM MemoriesArchivedOnce ==
  ASSUME ~Overlap, ~SharedStore, \A b \in Budgets : b["crash"] = 0
  PROVE  Spec => []ArchivedOnce
<1>1. Init => OnceInv
  BY DEF Init, OnceInv, OriginsKnown, CopiedOnce, CopiedIsLeft, WorkOK, Copied, IsA, Idle
<1>2. ArchiveInv /\ InTurnInv /\ OnceInv /\ [Next]_vars => OnceInv'
  BY OnceNext
<1>3. OnceInv => ArchivedOnce
  BY DEF OnceInv, OriginsKnown, CopiedOnce, ArchivedOnce, IsA
<1> QED
  BY <1>1, <1>2, <1>3, InTurn, PTL DEF Spec
=============================================================================
