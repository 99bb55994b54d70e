------------------------- MODULE TierSchedulerProofs -------------------------
(***************************************************************************)
(* Theorems about TierScheduler for every set of objects, schedulers and   *)
(* callers, any number of tiers, all signals and thresholds: types, that   *)
(* retries are idempotent, where a run may move an object, that it moves   *)
(* it to where it belongs, and that requests do not work against another.  *)
(***************************************************************************)
EXTENDS TierScheduler, TLAPS

\* A request that was executed once has an answer for each object it lists.
Complete(f) == \A o \in Objects : ~Unanswered(f, o)

AnswersOK ==
  \A t \in Tasks :
    /\ frame[t].pc = "done" => Complete(frame[t])
    /\ frame[t].answer # Unasked => Complete(frame[t])

SchedulerInv == TypeOK /\ AnswersOK

-----------------------------------------------------------------------------
(* The policy and the executor.                                             *)

\* What the policy may decide for a view: stay, leave, or one step to a tier
\* that takes the object, and which of them spare objects that must not move.
LEMMA DecideFacts ==
  ASSUME NEW v \in View, NEW r \in Resource
  PROVE  LET d == Decide(v, r) IN
         /\ d.target \in Tiers \cup {Gone}
         /\ d.target = v.tier \/ d.type \notin {"keep", "pin"}
         /\ d.target # v.tier =>
              /\ ~v.signal.pinned /\ v.signal.migratable /\ r.network
              /\ \/ d.target = Gone /\ AllowEvict /\ v.signal.expired
                 \/ d.target = v.tier - 1 /\ d.target \in r.up
                 \/ d.target = v.tier + 1 /\ d.target \in r.down
<1> DEFINE s == v.signal
           d == Decide(v, r)
<1>1. v.tier \in Tiers /\ Coldest \in Nat
  BY ColdestAssumption DEF View
<1>2. CASE s.pinned
  <2>1. d = [type |-> "pin", target |-> v.tier]
    BY <1>2 DEF Decide
  <2> QED BY <1>1, <2>1
<1>3. CASE ~s.pinned /\ (~s.migratable \/ ~r.network)
  <2>1. d = [type |-> "keep", target |-> v.tier]
    BY <1>3 DEF Decide
  <2> QED BY <1>1, <2>1
<1>4. CASE ~s.pinned /\ s.migratable /\ r.network /\ Evictable(s, r)
  <2>1. d = [type |-> "evict", target |-> Gone]
    BY <1>4 DEF Decide
  <2> QED BY <1>4, <2>1 DEF Evictable
<1> DEFINE open == ~s.pinned /\ s.migratable /\ r.network /\ ~Evictable(s, r)
<1>5. CASE open /\ (Prefetches(v, r) \/ Promotes(v, r))
  <2>1. d.target = v.tier - 1 /\ d.type \in {"prefetch", "promote"}
    BY <1>5 DEF Decide
  <2>2. v.tier > 0 /\ v.tier - 1 \in r.up
    BY <1>5 DEF Prefetches, Promotes, CanRise
  <2>3. v.tier - 1 \in Tiers
    BY <1>1, <2>2 DEF Tiers
  <2> QED BY <1>5, <2>1, <2>2, <2>3
<1>6. CASE open /\ ~Prefetches(v, r) /\ ~Promotes(v, r) /\ Demotes(v, r)
  <2>1. d.target = v.tier + 1 /\ d.type = "demote"
    BY <1>6 DEF Decide
  <2>2. v.tier < Coldest /\ v.tier + 1 \in r.down
    BY <1>6 DEF Demotes, CanSink
  <2>3. v.tier + 1 \in Tiers
    BY <1>1, <2>2 DEF Tiers
  <2> QED BY <1>6, <2>1, <2>2, <2>3
<1>7. CASE open /\ ~Prefetches(v, r) /\ ~Promotes(v, r) /\ ~Demotes(v, r)
  <2>1. d = [type |-> "keep", target |-> v.tier]
    BY <1>7 DEF Decide
  <2> QED BY <1>1, <2>1
<1> QED BY <1>2, <1>3, <1>4, <1>5, <1>6, <1>7

\* What a frame holds.
LEMMA FrameFacts ==
  ASSUME TypeOK, NEW t \in Tasks, NEW o \in Objects
  PROVE  /\ frame[t] \in Frame /\ frame[t].resources \in Resource
         /\ frame[t].view[o] # Unlisted => frame[t].view[o] \in View
         /\ frame[t].answer \in [Objects -> Answers]
         /\ tiers[o] \in Tiers \cup {Gone}
  BY DEF TypeOK, Frame

\* The executor holds every object on a tier, or not at all.
LEMMA ExecutedType ==
  ASSUME TypeOK, NEW t \in Tasks, NEW o \in Objects
  PROVE  Executed(frame[t], o) \in Tiers \cup {Gone}
<1>1. CASE ~Unanswered(frame[t], o)
  BY <1>1, FrameFacts DEF Executed
<1>2. CASE Unanswered(frame[t], o)
  <2>1. frame[t].view[o] \in View /\ frame[t].resources \in Resource
    BY <1>2, FrameFacts DEF Unanswered
  <2>2. Fallback(frame[t], o) \in Tiers
    BY <2>1 DEF Fallback, View
  <2>3. Decision(frame[t], o).target \in Tiers \cup {Gone}
    BY <2>1, DecideFacts DEF Decision
  <2> QED BY <1>2, <2>2, <2>3 DEF Executed
<1> QED BY <1>1, <1>2

-----------------------------------------------------------------------------
(* The invariant.                                                           *)

\* The frame of a task that has gathered a request.
LEMMA GatherFrame ==
  ASSUME TypeOK, NEW t \in Tasks, Gather(t)
  PROVE  /\ frame' \in [Tasks -> Frame] /\ requests' \in 0..MaxRequests
         /\ frame'[t].pc = "ready" /\ frame'[t].answer = Unasked
         /\ \A u \in Tasks \ {t} : frame'[u] = frame[u]
<1> DEFINE view == [o \in Objects |-> IF tiers[o] = Gone THEN Unlisted
                                      ELSE [tier |-> tiers[o], signal |-> signal[o]]]
           f == [pc |-> "ready", resources |-> resources, answer |-> Unasked, view |-> view]
<1>1. view \in [Objects -> View \cup {Unlisted}]
  BY DEF TypeOK, View
<1>2. Unasked \in [Objects -> Answers] /\ resources \in Resource
  BY DEF Unasked, Answers, TypeOK
<1>3. frame' = [frame EXCEPT ![t] = f] /\ frame \in [Tasks -> Frame]
  BY DEF Gather, TypeOK
<1> HIDE DEF view
<1>4. f \in Frame /\ f.pc = "ready" /\ f.answer = Unasked
  BY <1>1, <1>2 DEF Frame
<1>5. requests' \in 0..MaxRequests
  BY BoundAssumption DEF Gather, TypeOK
<1> HIDE DEF f
<1> QED BY <1>3, <1>4, <1>5

\* The frame of a task that has run its request: every object it lists is
\* answered.
LEMMA RunFrame ==
  ASSUME TypeOK, NEW t \in Tasks, RunOnce(t)
  PROVE  /\ frame' \in [Tasks -> Frame] /\ Complete(frame[t])'
         /\ \A u \in Tasks \ {t} : frame'[u] = frame[u]
         /\ tiers' = [o \in Objects |-> Executed(frame[t], o)]
<1> DEFINE f == [frame[t] EXCEPT !.pc = "done", !.answer = Answered(frame[t])]
<1>1. frame[t] \in Frame /\ frame \in [Tasks -> Frame]
  BY DEF TypeOK
<1>2. Answered(frame[t]) \in [Objects -> Answers]
  <2> SUFFICES ASSUME NEW o \in Objects PROVE Answered(frame[t])[o] \in Answers
    BY DEF Answered
  <2>1. frame[t].answer[o] \in Answers
    BY <1>1 DEF Frame
  <2> QED BY <2>1 DEF Answered, Answers
<1>3. f \in Frame /\ f.view = frame[t].view /\ f.answer = Answered(frame[t])
  BY <1>1, <1>2 DEF Frame
<1>4. \A o \in Objects : Answered(frame[t])[o] = "none" => frame[t].view[o] = Unlisted
  BY DEF Answered, Unanswered
<1>5. frame' = [frame EXCEPT ![t] = f] /\ tiers' = [o \in Objects |-> Executed(frame[t], o)]
  BY DEF RunOnce
<1> HIDE DEF f
<1>6. frame'[t] = f /\ frame' \in [Tasks -> Frame] /\ \A u \in Tasks \ {t} : frame'[u] = frame[u]
  BY <1>1, <1>3, <1>5
<1>7. Complete(frame[t])'
  BY <1>3, <1>4, <1>6 DEF Complete, Unanswered
<1> QED BY <1>5, <1>6, <1>7

\* The frame of a caller that tries again is the one it had.
LEMMA RetryFrame ==
  ASSUME TypeOK, NEW t \in Tasks, Retry(t)
  PROVE  /\ frame' \in [Tasks -> Frame] /\ frame'[t].pc = "ready"
         /\ frame'[t].view = frame[t].view /\ frame'[t].answer = frame[t].answer
         /\ \A u \in Tasks \ {t} : frame'[u] = frame[u]
<1> DEFINE f == [frame[t] EXCEPT !.pc = "ready"]
<1>1. frame[t] \in Frame /\ frame \in [Tasks -> Frame]
  BY DEF TypeOK
<1>2. /\ f \in Frame /\ f.pc = "ready" /\ f.view = frame[t].view
      /\ f.answer = frame[t].answer
  BY <1>1 DEF Frame
<1>3. frame' = [frame EXCEPT ![t] = f]
  BY DEF Retry
<1> HIDE DEF f
<1> QED BY <1>1, <1>2, <1>3

\* The invariant holds in the initial state.
LEMMA SchedulerInit == Init => SchedulerInv
<1> SUFFICES ASSUME Init PROVE SchedulerInv
  OBVIOUS
<1>1. resources \in Resource /\ Unasked \in [Objects -> Answers]
  BY SignalsAssumption DEF Init, Unasked, Answers
<1> DEFINE f == [pc |-> "idle", view |-> [o \in Objects |-> Unlisted],
                 resources |-> resources, answer |-> Unasked]
<1>2. f \in Frame /\ f.pc = "idle" /\ f.answer = Unasked
  BY <1>1 DEF Frame
<1>3. frame = [t \in Tasks |-> f]
  BY DEF Init
<1> HIDE DEF f
<1>4. frame \in [Tasks -> Frame]
  BY <1>2, <1>3
<1>5. signal \in [Objects -> Signal]
  BY SignalsAssumption DEF Init
<1>6. TypeOK
  BY <1>1, <1>4, <1>5, BoundAssumption DEF Init, TypeOK
<1>7. AnswersOK
  BY <1>2, <1>3 DEF AnswersOK
<1> QED BY <1>6, <1>7 DEF SchedulerInv

\* Every step keeps the types.
LEMMA TypeStep == SchedulerInv /\ Next => TypeOK'
<1> SUFFICES ASSUME TypeOK, Next PROVE TypeOK'
  BY DEF SchedulerInv
<1>1. ASSUME NEW t \in Tasks, Gather(t) PROVE TypeOK'
  BY <1>1, GatherFrame DEF Gather, TypeOK, world
<1>2. ASSUME NEW t \in Tasks, RunOnce(t) PROVE TypeOK'
  <2>1. tiers' \in [Objects -> Tiers \cup {Gone}]
    BY <1>2, RunFrame, ExecutedType
  <2> QED BY <1>2, <2>1, RunFrame DEF RunOnce, TypeOK, world
<1>3. ASSUME NEW t \in Tasks, Retry(t) PROVE TypeOK'
  BY <1>3, RetryFrame DEF Retry, TypeOK, world
<1>4. ASSUME Change PROVE TypeOK'
  <2>1. changes' \in 0..MaxChanges /\ UNCHANGED <<tiers, frame, requests>>
    BY <1>4, BoundAssumption DEF Change, TypeOK
  <2>2. signal' \in [Objects -> Signal] /\ resources' \in Resource /\ failing' \subseteq Objects
    BY <1>4, SignalsAssumption DEF Change, TypeOK
  <2> QED BY <2>1, <2>2 DEF TypeOK
<1> QED BY <1>1, <1>2, <1>3, <1>4 DEF Next

\* Every step keeps the answers complete.
LEMMA AnswersStep == SchedulerInv /\ Next => AnswersOK'
<1> SUFFICES ASSUME SchedulerInv, Next, NEW u \in Tasks
             PROVE  /\ frame'[u].pc = "done" => Complete(frame[u])'
                    /\ frame'[u].answer # Unasked => Complete(frame[u])'
  BY DEF AnswersOK, Unasked
<1>0. /\ TypeOK
      /\ frame[u].pc = "done" => Complete(frame[u])
      /\ frame[u].answer # Unasked => Complete(frame[u])
  BY DEF SchedulerInv, AnswersOK
<1>1. CASE frame'[u] = frame[u]
  BY <1>0, <1>1 DEF Complete, Unanswered
<1>2. ASSUME NEW t \in Tasks, Gather(t), frame'[u] # frame[u]
      PROVE  frame'[u].pc = "ready" /\ frame'[u].answer = Unasked
  BY <1>0, <1>2, GatherFrame
<1>3. ASSUME NEW t \in Tasks, RunOnce(t), frame'[u] # frame[u]
      PROVE  Complete(frame[u])'
  <2>1. t = u
    BY <1>0, <1>3, RunFrame
  <2> QED BY <1>0, <1>3, <2>1, RunFrame
<1>4. ASSUME NEW t \in Tasks, Retry(t), frame'[u] # frame[u]
      PROVE  Complete(frame[u])'
  <2>1. t = u
    BY <1>0, <1>4, RetryFrame
  <2>2. Complete(frame[u])
    BY <1>0, <1>4, <2>1 DEF Retry
  <2>3. frame'[u].view = frame[u].view /\ frame'[u].answer = frame[u].answer
    BY <1>0, <1>4, <2>1, RetryFrame
  <2> QED BY <2>2, <2>3 DEF Complete, Unanswered
<1>5. ASSUME Change PROVE frame'[u] = frame[u]
  BY <1>5 DEF Change
<1> QED BY <1>1, <1>2, <1>3, <1>4, <1>5 DEF Next

\* SchedulerInv is an invariant: b3's frames, tiers and answers are typed, and a
\* request that was executed has all its answers.
THEOREM SchedulerInvariance == Spec => []SchedulerInv
<1>1. SchedulerInv /\ [Next]_vars => SchedulerInv'
  <2> SUFFICES ASSUME SchedulerInv, [Next]_vars PROVE SchedulerInv'
    OBVIOUS
  <2>1. CASE Next
    BY <2>1, TypeStep, AnswersStep DEF SchedulerInv
  <2>2. CASE UNCHANGED vars
    BY <2>2 DEF vars, world, SchedulerInv, TypeOK, AnswersOK, Complete, Unanswered, Unasked
  <2> QED BY <2>1, <2>2
<1> QED BY <1>1, SchedulerInit, PTL DEF Spec

\* TierScheduler is type correct: no decision leaves the tiers that exist.
THEOREM TypeCorrect == Spec => []TypeOK
<1>1. SchedulerInv => TypeOK
  BY DEF SchedulerInv
<1> QED BY <1>1, SchedulerInvariance, PTL

-----------------------------------------------------------------------------
(* What a run may do.                                                       *)

\* Only its own run takes a request from ready to done.
LEMMA OnlyItsRun ==
  ASSUME SchedulerInv, Next, NEW t \in Tasks, frame[t].pc = "ready", frame'[t].pc = "done"
  PROVE  RunOnce(t)
<1>0. TypeOK
  BY DEF SchedulerInv
<1>1. ASSUME NEW u \in Tasks, Gather(u) PROVE FALSE
  <2>1. CASE u = t
    BY <1>1, <2>1 DEF Gather
  <2>2. CASE u # t
    BY <1>0, <1>1, <2>2, GatherFrame
  <2> QED BY <2>1, <2>2
<1>2. ASSUME NEW u \in Tasks, Retry(u) PROVE FALSE
  <2>1. CASE u = t
    BY <1>2, <2>1 DEF Retry
  <2>2. CASE u # t
    BY <1>0, <1>2, <2>2, RetryFrame
  <2> QED BY <2>1, <2>2
<1>3. ASSUME NEW u \in Tasks, RunOnce(u) PROVE u = t
  <2>1. CASE u # t
    BY <1>0, <1>3, <2>1, RunFrame
  <2> QED BY <2>1
<1>4. ~Change
  BY DEF Change
<1> QED BY <1>1, <1>2, <1>3, <1>4 DEF Next

\* A retried request changes nothing (MockExecutor.execute looks the action id
\* up before it acts), wherever other requests moved the objects since.
THEOREM RetriesAreIdempotent == Spec => RetryChangesNothing
<1> DEFINE A == \A t \in Callers :
                  frame[t].pc = "ready" /\ frame'[t].pc = "done" /\ frame[t].answer # Unasked
                    => UNCHANGED tiers
<1>1. SchedulerInv /\ [Next]_vars => [A]_vars
  <2> SUFFICES ASSUME SchedulerInv, Next, NEW t \in Callers,
                      frame[t].pc = "ready", frame'[t].pc = "done", frame[t].answer # Unasked
               PROVE  tiers' = tiers
    BY DEF vars
  <2>1. t \in Tasks /\ TypeOK
    BY DEF Tasks, SchedulerInv
  <2>2. tiers' = [o \in Objects |-> Executed(frame[t], o)]
    BY <2>1, OnlyItsRun, RunFrame
  <2>3. \A o \in Objects : Executed(frame[t], o) = tiers[o]
    BY <2>1 DEF SchedulerInv, AnswersOK, Complete, Executed
  <2>4. tiers \in [Objects -> Tiers \cup {Gone}]
    BY <2>1 DEF TypeOK
  <2> QED BY <2>2, <2>3, <2>4
<1> QED BY <1>1, SchedulerInvariance, PTL DEF Spec, RetryChangesNothing

\* Where a request tells the truth about an object's tier, its run moves the
\* object by one tier at most, to a tier that takes it, or evicts it, and
\* leaves alone what is pinned, not migratable or fails (b3/heuristic.py,
\* b3/executor.py and the fallback in b3/scheduler.py).
THEOREM FreshRunsAreGentle == Spec => FreshRunsMoveOneTier
<1> DEFINE B(t, o) ==
  LET v == frame[t].view[o]
      r == frame[t].resources IN
  /\ frame[t].pc = "ready" /\ frame'[t].pc = "done"
  /\ v # Unlisted /\ v.tier = tiers[o] /\ tiers'[o] # tiers[o]
  => /\ o \notin failing /\ ~v.signal.pinned /\ v.signal.migratable
     /\ r.network
     /\ \/ tiers'[o] = Gone /\ AllowEvict /\ v.signal.expired
        \/ tiers'[o] = tiers[o] - 1 /\ tiers'[o] \in r.up
        \/ tiers'[o] = tiers[o] + 1 /\ tiers'[o] \in r.down
<1>1. SchedulerInv /\ [Next]_vars => [\A t \in Tasks, o \in Objects : B(t, o)]_vars
  <2> SUFFICES ASSUME SchedulerInv, Next, NEW t \in Tasks, NEW o \in Objects,
                      frame[t].pc = "ready", frame'[t].pc = "done",
                      frame[t].view[o] # Unlisted, frame[t].view[o].tier = tiers[o],
                      tiers'[o] # tiers[o]
               PROVE  LET v == frame[t].view[o]
                          r == frame[t].resources IN
                      /\ o \notin failing /\ ~v.signal.pinned /\ v.signal.migratable
                      /\ r.network
                      /\ \/ tiers'[o] = Gone /\ AllowEvict /\ v.signal.expired
                         \/ tiers'[o] = tiers[o] - 1 /\ tiers'[o] \in r.up
                         \/ tiers'[o] = tiers[o] + 1 /\ tiers'[o] \in r.down
    BY DEF vars
  <2> DEFINE v == frame[t].view[o]
             d == Decision(frame[t], o)
  <2>1. TypeOK /\ v \in View /\ frame[t].resources \in Resource
    BY FrameFacts DEF SchedulerInv
  <2>2. tiers'[o] = Executed(frame[t], o)
    BY <2>1, OnlyItsRun, RunFrame
  <2>3. Unanswered(frame[t], o) /\ ~Fails(frame[t], o) /\ tiers'[o] = d.target
    BY <2>2 DEF Executed, Fallback
  <2>4. /\ d.target = v.tier \/ d.type \notin {"keep", "pin"}
        /\ d.target # v.tier =>
              /\ ~v.signal.pinned /\ v.signal.migratable /\ frame[t].resources.network
              /\ \/ d.target = Gone /\ AllowEvict /\ v.signal.expired
                 \/ d.target = v.tier - 1 /\ d.target \in frame[t].resources.up
                 \/ d.target = v.tier + 1 /\ d.target \in frame[t].resources.down
    BY <2>1, DecideFacts DEF Decision
  <2>5. o \notin failing
    BY <2>3, <2>4 DEF Fails
  <2> QED BY <2>3, <2>4, <2>5
<1> QED BY <1>1, SchedulerInvariance, PTL DEF Spec, FreshRunsMoveOneTier

-----------------------------------------------------------------------------
(* Where the periodic runs lead.                                            *)

\* The default order of the thresholds leaves a gap between hot and cold.
LEMMA ThresholdsApart ==
  ASSUME NEW n \in 0..100
  PROVE  /\ n >= PromoteAt => ~(n <= DemoteAt)
         /\ n < PrefetchAt => ~(n >= PrefetchAt)
<1>1. {PromoteAt, DemoteAt, PrefetchAt} \subseteq 0..100 /\ DemoteAt < PromoteAt
  BY ThresholdAssumption
<1>2. PromoteAt \in Int /\ DemoteAt \in Int /\ PrefetchAt \in Int /\ n \in Int
  BY <1>1
<1> QED BY <1>1, <1>2

\* The score that decides is a percentage, whatever migrations cost.
LEMMA ScoreRange ==
  ASSUME NEW s \in Signal, NEW r \in Resource
  PROVE  Score(s, r) \in 0..100
<1>1. s.base \in 0..100 /\ r.cheap \in 0..100
  BY DEF Signal, Resource
<1>2. s.base + r.cheap \in Nat
  BY <1>1
<1> QED BY <1>2 DEF Score

\* A decision to move hotter or colder has its reason in the signal.
LEMMA DecideReasons ==
  ASSUME NEW v \in View, NEW r \in Resource
  PROVE  /\ Decide(v, r).type \in {"prefetch", "promote"}
              => v.signal.relevance >= PrefetchAt \/ Score(v.signal, r) >= PromoteAt
         /\ Decide(v, r).type = "demote" => Score(v.signal, r) <= DemoteAt
<1> DEFINE s == v.signal
           open == ~s.pinned /\ s.migratable /\ r.network /\ ~Evictable(s, r)
<1>1. CASE ~open
  BY <1>1 DEF Decide
<1>2. CASE open /\ (Prefetches(v, r) \/ Promotes(v, r))
  BY <1>2 DEF Decide, Prefetches, Promotes
<1>3. CASE open /\ ~Prefetches(v, r) /\ ~Promotes(v, r)
  BY <1>3 DEF Decide, Demotes
<1> QED BY <1>1, <1>2, <1>3

\* No two requests pull an object in opposite directions when they saw the same
\* signal and the same cost of migrations, on whatever tiers they saw the object
\* and whatever those tiers, the network and the limits allowed: a migration is
\* never undone because a tier fills up or empties.
NoTugOfWar ==
  \A t, u \in Tasks, o \in Objects :
    LET v == frame[t].view[o]
        w == frame[u].view[o]
        r == frame[t].resources IN
    /\ v # Unlisted /\ w # Unlisted /\ v.signal = w.signal
    /\ r.cheap = frame[u].resources.cheap /\ ~Torn(v.signal, r)
    /\ Decision(frame[t], o).type \in {"prefetch", "promote"}
    => Decision(frame[u], o).type # "demote"

\* Requests that saw one signal and one cost never pull in opposite directions,
\* for any thresholds in order and any tiers (b3/heuristic.py, score and
\* _select_action).
THEOREM RequestsAgree == Spec => []NoTugOfWar
<1>1. SchedulerInv => NoTugOfWar
  <2> SUFFICES ASSUME TypeOK, NEW t \in Tasks, NEW u \in Tasks, NEW o \in Objects,
                      frame[t].view[o] # Unlisted, frame[u].view[o] # Unlisted,
                      frame[t].view[o].signal = frame[u].view[o].signal,
                      frame[t].resources.cheap = frame[u].resources.cheap,
                      ~Torn(frame[t].view[o].signal, frame[t].resources),
                      Decision(frame[t], o).type \in {"prefetch", "promote"}
               PROVE  Decision(frame[u], o).type # "demote"
    BY DEF NoTugOfWar, SchedulerInv
  <2> DEFINE s == frame[t].view[o].signal
             score == Score(s, frame[t].resources)
  <2>1. /\ frame[t].view[o] \in View /\ frame[t].resources \in Resource
        /\ frame[u].view[o] \in View /\ frame[u].resources \in Resource
    BY FrameFacts
  <2>2. score \in 0..100
    BY <2>1, ScoreRange DEF View
  <2>3. s.relevance >= PrefetchAt \/ score >= PromoteAt
    BY <2>1, DecideReasons DEF Decision
  <2>4. ~(score <= DemoteAt)
    BY <2>2, <2>3, ThresholdsApart DEF Torn
  <2>5. score = Score(frame[u].view[o].signal, frame[u].resources)
    BY DEF Score
  <2> QED BY <2>1, <2>4, <2>5, DecideReasons DEF Decision
<1> QED BY <1>1, SchedulerInvariance, PTL

\* A run that is up to date brings a hot or a cold object a tier nearer to
\* where it belongs: this is how periodic scheduling heals, one turn of it.
UpToDate(f, o) ==
  /\ f.view[o] # Unlisted /\ f.view[o] = [tier |-> tiers[o], signal |-> signal[o]]
  /\ f.resources = resources

UpToDateRunsHeal ==
  [][\A t \in Tasks, o \in Objects :
       /\ frame[t].pc = "ready" /\ frame'[t].pc = "done"
       /\ frame[t].answer = Unasked /\ UpToDate(frame[t], o)
       => /\ Hot(o) /\ tiers[o] > 0 => tiers'[o] = tiers[o] - 1
          /\ Cold(o) /\ tiers[o] < Coldest => tiers'[o] = tiers[o] + 1
          /\ (Hot(o) /\ tiers[o] = 0) \/ (Cold(o) /\ tiers[o] = Coldest)
               => tiers'[o] = tiers[o]]_vars

\* What is decided for an object that can be moved and is hot, or cold.
LEMMA DecideTowards ==
  ASSUME TypeOK, NEW o \in Objects, tiers[o] \in Tiers, Movable(o),
         NEW v \in View, v = [tier |-> tiers[o], signal |-> signal[o]]
  PROVE  LET target == Decide(v, resources).target IN
         /\ Hot(o) => target = IF tiers[o] > 0 THEN tiers[o] - 1 ELSE tiers[o]
         /\ Cold(o) => target = IF tiers[o] < Coldest THEN tiers[o] + 1 ELSE tiers[o]
<1>0. /\ v.tier = tiers[o] /\ v.signal = signal[o] /\ tiers[o] \in Int /\ Coldest \in Nat
      /\ Score(signal[o], resources) \in 0..100 /\ v.signal.relevance \in 0..100
      /\ 0 <= tiers[o] /\ tiers[o] <= Coldest
  <2>1. signal[o] \in Signal /\ resources \in Resource
    BY DEF TypeOK
  <2>2. Score(signal[o], resources) \in 0..100
    BY <2>1, ScoreRange
  <2> QED BY <2>2, ColdestAssumption DEF Tiers, View, Signal
<1>1. /\ CanRise(v.tier, resources) <=> tiers[o] > 0
      /\ CanSink(v.tier, resources) <=> tiers[o] < Coldest
  BY <1>0 DEF CanRise, CanSink, Movable, Tiers
<1>2. CASE Hot(o)
  <2>1. ~Cold(o) /\ ~Demotes(v, resources)
    BY <1>0, <1>2, ThresholdsApart DEF Hot, Cold, Demotes
  <2>2. Promotes(v, resources) <=> tiers[o] > 0
    BY <1>0, <1>1, <1>2 DEF Hot, Promotes
  <2>3. Prefetches(v, resources) => tiers[o] > 0
    BY <1>1 DEF Prefetches
  <2> QED BY <1>0, <2>1, <2>2, <2>3 DEF Decide, Movable
<1>3. CASE Cold(o)
  <2>1. ~Hot(o) /\ ~Promotes(v, resources) /\ ~Prefetches(v, resources)
    BY <1>0, <1>3, ThresholdsApart DEF Hot, Cold, Promotes, Prefetches
  <2>2. Demotes(v, resources) <=> tiers[o] < Coldest
    BY <1>0, <1>1, <1>3 DEF Cold, Demotes
  <2> QED BY <1>0, <2>1, <2>2 DEF Decide, Movable
<1> QED BY <1>2, <1>3

\* Every run that is up to date brings a hot object a tier up and a cold object
\* a tier down, and leaves it where it belongs once it is there.
THEOREM RunsHeal == Spec => UpToDateRunsHeal
<1> DEFINE Heals(t, o) ==
  /\ frame[t].pc = "ready" /\ frame'[t].pc = "done"
  /\ frame[t].answer = Unasked /\ UpToDate(frame[t], o)
  => /\ Hot(o) /\ tiers[o] > 0 => tiers'[o] = tiers[o] - 1
     /\ Cold(o) /\ tiers[o] < Coldest => tiers'[o] = tiers[o] + 1
     /\ (Hot(o) /\ tiers[o] = 0) \/ (Cold(o) /\ tiers[o] = Coldest)
          => tiers'[o] = tiers[o]
<1>1. SchedulerInv /\ [Next]_vars => [\A t \in Tasks, o \in Objects : Heals(t, o)]_vars
  <2> SUFFICES ASSUME SchedulerInv, Next, NEW t \in Tasks, NEW o \in Objects,
                      frame[t].pc = "ready", frame'[t].pc = "done",
                      frame[t].answer = Unasked, UpToDate(frame[t], o),
                      Hot(o) \/ Cold(o)
               PROVE  /\ Hot(o) /\ tiers[o] > 0 => tiers'[o] = tiers[o] - 1
                      /\ Cold(o) /\ tiers[o] < Coldest => tiers'[o] = tiers[o] + 1
                      /\ (Hot(o) /\ tiers[o] = 0) \/ (Cold(o) /\ tiers[o] = Coldest)
                           => tiers'[o] = tiers[o]
    BY DEF vars
  <2> DEFINE v == frame[t].view[o]
  <2>1. TypeOK /\ Movable(o)
    BY DEF SchedulerInv, Hot, Cold
  <2>2. /\ v \in View /\ v = [tier |-> tiers[o], signal |-> signal[o]]
        /\ frame[t].resources = resources
    BY <2>1, FrameFacts DEF UpToDate
  <2>3. tiers[o] \in Tiers /\ 0 <= tiers[o] /\ tiers[o] <= Coldest
    BY <2>2, ColdestAssumption DEF View, Tiers
  <2>4. Unanswered(frame[t], o) /\ ~Fails(frame[t], o)
    BY <2>1 DEF Unanswered, Unasked, UpToDate, Fails, Movable
  <2>5. tiers'[o] = Decide(v, resources).target
    <3>1. tiers'[o] = Executed(frame[t], o)
      BY <2>1, OnlyItsRun, RunFrame
    <3> QED BY <2>2, <2>4, <3>1 DEF Executed, Decision
  <2>6. /\ Hot(o) => tiers'[o] = IF tiers[o] > 0 THEN tiers[o] - 1 ELSE tiers[o]
        /\ Cold(o) => tiers'[o] = IF tiers[o] < Coldest THEN tiers[o] + 1 ELSE tiers[o]
    BY <2>1, <2>2, <2>3, <2>5, DecideTowards
  <2> QED BY <2>3, <2>6, ColdestAssumption DEF Tiers
<1> QED BY <1>1, SchedulerInvariance, PTL DEF Spec, UpToDateRunsHeal
=============================================================================
