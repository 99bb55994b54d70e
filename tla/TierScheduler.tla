--------------------------- MODULE TierScheduler ---------------------------
(***************************************************************************)
(* HeuristicScheduler, HeuristicPolicy and MockExecutor (b3/): one         *)
(* scheduler runs periodically, other callers build ScheduleRequests and   *)
(* call run_once themselves, and all of them share one executor.           *)
(*                                                                         *)
(* MockExecutor.execute never suspends, so one run_once is one step.  The  *)
(* requests it works on are older: a source read them, and other tasks ran *)
(* since.  An action id contains the uuid of its request and the decision, *)
(* which only depends on the request, so the executor's cache of answers   *)
(* is kept here with each request.                                         *)
(***************************************************************************)
EXTENDS Integers, FiniteSets

CONSTANTS Objects,
          Periodic,       \* the tasks in run_periodic
          Callers,        \* the tasks that call run_once themselves
          Gone,           \* the tier of an object the executor does not hold
          Unlisted,       \* the view of an object that a request leaves out
          Coldest,        \* the last tier of _TIERS; the first is 0
          Signals,        \* what access statistics and flags can say
          Resources,      \* what the resource source can say
          PromoteAt, DemoteAt, PrefetchAt, EvictAt, \* the policy's thresholds
          AllowEvict,
          MaxChanges,     \* bound: changes of signals, resources and failures
          MaxRequests     \* bound: requests the callers build

Tasks == Periodic \cup Callers

Tiers == 0..Coldest

\* `base' is the object's own part of its score in percent, the three weighted
\* terms of score(); the other fields are the other inputs of a decision.
Signal == [base : 0..100, relevance : 0..100,
           pinned : BOOLEAN, migratable : BOOLEAN, expired : BOOLEAN]

\* `up' and `down' are the tiers that promotions and demotions may go to: the
\* switch is on and the utilization below its maximum, or the tier unknown.
\* `cheap' is the last term of score(), more when migrations cost less.
Resource == [network : BOOLEAN, up : SUBSET Tiers, down : SUBSET Tiers,
             cheap : 0..100]

View == [tier : Tiers, signal : Signal]

ASSUME ColdestAssumption == Coldest \in Nat
ASSUME TasksAssumption == Periodic \cap Callers = {}
ASSUME SignalsAssumption == Signals \subseteq Signal /\ Resources \subseteq Resource
ASSUME AbsentAssumption == Gone \notin Tiers /\ Unlisted \notin View
\* The default thresholds are ordered; HeuristicPolicyConfig does not check it.
ASSUME ThresholdAssumption ==
  /\ {PromoteAt, DemoteAt, PrefetchAt, EvictAt} \subseteq 0..100
  /\ EvictAt <= DemoteAt /\ DemoteAt < PromoteAt
ASSUME BoundAssumption ==
  AllowEvict \in BOOLEAN /\ MaxChanges \in Nat /\ MaxRequests \in Nat

VARIABLES tiers,     \* executor.current_tiers: object -> tier or Gone
          failing,   \* executor.fail_object_ids
          signal,    \* object -> its current signal
          resources, \* the current state of the tiers
          frame,     \* task -> the request it holds, and the answers to it
          changes,   \* what is left of MaxChanges
          requests   \* what is left of MaxRequests
vars == <<tiers, failing, signal, resources, frame, changes, requests>>
world == <<failing, signal, resources, changes>>

Answers == {"none", "success", "failed"}

Frame == [pc : {"idle", "ready", "done"}, view : [Objects -> View \cup {Unlisted}],
          resources : Resource, answer : [Objects -> Answers]]

TypeOK ==
  /\ tiers \in [Objects -> Tiers \cup {Gone}]
  /\ failing \subseteq Objects
  /\ signal \in [Objects -> Signal]
  /\ resources \in Resource
  /\ frame \in [Tasks -> Frame]
  /\ changes \in 0..MaxChanges
  /\ requests \in 0..MaxRequests

Unasked == [o \in Objects |-> "none"]

Init ==
  /\ tiers \in [Objects -> Tiers]
  /\ failing \in SUBSET Objects
  /\ signal \in [Objects -> Signals]
  /\ resources \in Resources
  /\ frame = [t \in Tasks |->
                [pc |-> "idle", view |-> [o \in Objects |-> Unlisted],
                 resources |-> resources, answer |-> Unasked]]
  /\ changes = MaxChanges
  /\ requests = MaxRequests

-----------------------------------------------------------------------------
(* The policy.                                                              *)

\* Mutant: the index of the hottest tier is taken for no tier at all.
MutantCanRise(tier, r) == tier > 1 /\ tier - 1 \in r.up

\* _neighbor and _target_available.
CanRise(tier, r) == tier > 0 /\ tier - 1 \in r.up

\* Mutant: below the coldest tier is a tier the resources do not list, and
\* those are available.
MutantCanSink(tier, r) == tier + 1 \in r.down \/ tier = Coldest

CanSink(tier, r) == tier < Coldest /\ tier + 1 \in r.down

\* score(), for weights that are not negative.
Score(s, r) ==
  IF s.base + r.cheap > 100 THEN 100 ELSE s.base + r.cheap

Evictable(s, r) == s.expired /\ AllowEvict /\ Score(s, r) <= EvictAt

Prefetches(v, r) == v.signal.relevance >= PrefetchAt /\ CanRise(v.tier, r)
Promotes(v, r) == Score(v.signal, r) >= PromoteAt /\ CanRise(v.tier, r)

\* Mutant: the demotion does not look at the score.
MutantDemotes(v, r) == CanSink(v.tier, r)

Demotes(v, r) == Score(v.signal, r) <= DemoteAt /\ CanSink(v.tier, r)

\* _select_action: the first rule that applies.
Decide(v, r) ==
  LET s == v.signal IN
  IF s.pinned THEN [type |-> "pin", target |-> v.tier]
  ELSE IF ~s.migratable \/ ~r.network THEN [type |-> "keep", target |-> v.tier]
  ELSE IF Evictable(s, r) THEN [type |-> "evict", target |-> Gone]
  ELSE IF Prefetches(v, r) THEN [type |-> "prefetch", target |-> v.tier - 1]
  ELSE IF Promotes(v, r) THEN [type |-> "promote", target |-> v.tier - 1]
  ELSE IF Demotes(v, r) THEN [type |-> "demote", target |-> v.tier + 1]
  ELSE [type |-> "keep", target |-> v.tier]

Decision(f, o) == Decide(f.view[o], f.resources)

-----------------------------------------------------------------------------
(* The executor.                                                            *)

\* The objects whose action the executor has not answered yet.
Unanswered(f, o) == f.view[o] # Unlisted /\ f.answer[o] = "none"

Fails(f, o) == o \in failing /\ Decision(f, o).type \notin {"keep", "pin"}

\* _fallback_keep: a KEEP on the tier that the request names.
Fallback(f, o) == f.view[o].tier

\* Mutant: the executor does not look an action up in its answers.
MutantExecuted(f, o) ==
  IF f.view[o] = Unlisted THEN tiers[o]
  ELSE IF Fails(f, o) THEN Fallback(f, o)
  ELSE Decision(f, o).target

\* Mutant: the fallback keeps the tier the failed action was to move to.
MutantFallback(f, o) ==
  IF ~Unanswered(f, o) THEN tiers[o] ELSE Decision(f, o).target

\* Where the executor holds the object after the action or, when that fails,
\* after the fallback.  KEEP writes its tier like any other action.
Executed(f, o) ==
  IF ~Unanswered(f, o) THEN tiers[o]
  ELSE IF Fails(f, o) THEN Fallback(f, o)
  ELSE Decision(f, o).target

Answered(f) ==
  [o \in Objects |-> IF ~Unanswered(f, o) THEN f.answer[o]
                     ELSE IF Fails(f, o) THEN "failed" ELSE "success"]

-----------------------------------------------------------------------------
(* The schedulers.                                                          *)

\* A new request: the sources list the objects the executor holds, with their
\* tiers and signals, and the state of the resources.
Gather(t) ==
  /\ frame[t].pc \in {"idle", "done"}
  /\ requests' = IF t \in Periodic THEN requests ELSE requests - 1
  /\ requests' >= 0
  /\ frame' = [frame EXCEPT ![t] =
       [pc |-> "ready", resources |-> resources, answer |-> Unasked,
        view |-> [o \in Objects |->
                    IF tiers[o] = Gone THEN Unlisted
                    ELSE [tier |-> tiers[o], signal |-> signal[o]]]]]
  /\ UNCHANGED <<tiers, world>>

\* run_once(): all decisions, then one action after the other.
RunOnce(t) ==
  LET f == frame[t] IN
  /\ f.pc = "ready"
  /\ tiers' = [o \in Objects |-> Executed(f, o)]
  /\ frame' = [frame EXCEPT ![t] = [f EXCEPT !.pc = "done", !.answer = Answered(f)]]
  /\ UNCHANGED <<world, requests>>

\* A caller that got no result calls run_once with the same request again.
Retry(t) ==
  /\ t \in Callers
  /\ frame[t].pc = "done"
  /\ frame' = [frame EXCEPT ![t].pc = "ready"]
  /\ UNCHANGED <<tiers, world, requests>>

\* The world the requests describe: accesses, resources and failures change.
Change ==
  /\ changes > 0
  /\ changes' = changes - 1
  /\ \/ /\ \E o \in Objects, s \in Signals : signal' = [signal EXCEPT ![o] = s]
        /\ UNCHANGED <<failing, resources>>
     \/ /\ resources' \in Resources
        /\ UNCHANGED <<failing, signal>>
     \/ /\ failing' \in SUBSET Objects
        /\ UNCHANGED <<signal, resources>>
  /\ UNCHANGED <<tiers, frame, requests>>

Next == (\E t \in Tasks : Gather(t) \/ RunOnce(t) \/ Retry(t)) \/ Change

Spec == Init /\ [][Next]_vars

\* run_periodic sleeps and goes on, without end when `iterations' is None, and
\* its sources answer.  A caller may keep a request as long as it likes.
FairSpec == Spec /\ \A t \in Periodic : WF_vars(Gather(t)) /\ WF_vars(RunOnce(t))

-----------------------------------------------------------------------------
(* Properties.                                                              *)

\* A retried request changes nothing, wherever other requests have moved the
\* objects since: an action that was answered, SUCCESS or FAILED, is not
\* executed again, and neither is its fallback.
RetryChangesNothing ==
  [][\A t \in Callers :
       frame[t].pc = "ready" /\ frame'[t].pc = "done" /\ frame[t].answer # Unasked
         => UNCHANGED tiers]_vars

\* Where a request still tells the truth about an object's tier, its run moves
\* the object by one tier at most, to a tier that takes it, or evicts it, and
\* leaves it alone when it is pinned, not migratable or fails.
FreshRunsMoveOneTier ==
  [][\A t \in Tasks, o \in Objects :
       LET v == frame[t].view[o]
           r == frame[t].resources IN
       /\ frame[t].pc = "ready" /\ frame'[t].pc = "done"
       /\ v # Unlisted /\ v.tier = tiers[o] /\ tiers'[o] # tiers[o]
       => /\ o \notin failing /\ ~v.signal.pinned /\ v.signal.migratable
          /\ r.network
          /\ \/ tiers'[o] = Gone /\ AllowEvict /\ v.signal.expired
             \/ tiers'[o] = tiers[o] - 1 /\ tiers'[o] \in r.up
             \/ tiers'[o] = tiers[o] + 1 /\ tiers'[o] \in r.down]_vars

Movable(o) ==
  /\ signal[o].migratable /\ ~signal[o].pinned /\ ~Evictable(signal[o], resources)
  /\ o \notin failing
  /\ resources.network /\ resources.up = Tiers /\ resources.down = Tiers

Hot(o) == Movable(o) /\ Score(signal[o], resources) >= PromoteAt
Cold(o) == /\ Movable(o) /\ Score(signal[o], resources) <= DemoteAt
           /\ signal[o].relevance < PrefetchAt

\* Periodic scheduling heals: whatever stale requests, failures and shortages
\* did to it, an object that stays hot ends on the hottest tier for good, and
\* one that stays cold on the coldest.
ReachesItsTier ==
  \A o \in Objects :
    /\ <>[]Hot(o) => <>[](tiers[o] \in {0, Gone})
    /\ <>[]Cold(o) => <>[](tiers[o] \in {Coldest, Gone})

\* Wanted on a hotter tier for the task at hand, but too cold to stay there.
Torn(s, r) == s.relevance >= PrefetchAt /\ Score(s, r) <= DemoteAt

\* Once the world stands still, migrations end: no object is moved to and fro,
\* unless it is torn.
MigrationsEnd ==
  (\A o \in Objects : <>[]~Torn(signal[o], resources)) => <>[][FALSE]_tiers
=============================================================================
