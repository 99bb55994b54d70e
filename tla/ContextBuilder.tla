--------------------------- MODULE ContextBuilder ---------------------------
(***************************************************************************)
(* build() of MockContextPackBuilder (context/builder.py): one recall per  *)
(* requested memory type, a merge by score cut at max_candidates, and a    *)
(* greedy pass that drops repeated contents and what the token budget has  *)
(* no room for.                                                            *)
(*                                                                         *)
(* The stores do not change here (MemoryService interleaves the recalls    *)
(* with other calls).  Scores and contents are values the pass only        *)
(* compares; a content's key is its text without case and spacing, so two  *)
(* memories with the same key may differ in length.                        *)
(***************************************************************************)
EXTENDS Naturals, Sequences, FiniteSets, Functions, Lifecycle

CONSTANTS Size,     \* how many memories a recall can return, over all types
          Keys,     \* the contents, up to case and spacing
          Scores,   \* the scores recall computes
          Tokens,   \* the estimates of a content's tokens
          Requests  \* the requests: memory types, max_candidates, max_tokens

\* The memories in the order the store lists them.
Memories == 1..Size

Item == [type : MemoryTypes, key : Keys, score : Scores, tokens : Tokens]

Request == [types : Seq(MemoryTypes), candidates : Nat, tokens : Nat]

ASSUME SizeAssumption == Size \in Nat
ASSUME ScoresAssumption == Scores \subseteq Nat
\* _estimate_tokens never answers less than one.
ASSUME TokensAssumption == Tokens \subseteq Nat \ {0}
ASSUME RequestsAssumption == Requests \subseteq Request

VARIABLES items,      \* memory -> what recall sees of it
          request,    \* the ContextRequest
          left,       \* the memory types still to be recalled
          merged,     \* what the recalls returned
          candidates, \* the merge, sorted and cut
          next,       \* the candidate the greedy pass looks at
          selected,   \* the pack
          seen,       \* seen_content
          total,      \* total_tokens
          pc
vars == <<items, request, left, merged, candidates, next, selected, seen, total, pc>>
inputs == <<items, request>>

TypeOK ==
  /\ items \in [Memories -> Item]
  /\ request \in Request
  /\ left \in Seq(MemoryTypes)
  /\ merged \in Seq(Memories)
  /\ candidates \in Seq(Memories)
  /\ next \in Nat \ {0}
  /\ selected \in Seq(Memories)
  /\ seen \subseteq Keys
  /\ total \in Nat
  /\ pc \in {"recall", "select", "built"}

Init ==
  /\ items \in [Memories -> Item]
  /\ request \in Requests
  /\ left = request.types
  /\ merged = <<>>
  /\ candidates = <<>>
  /\ next = 1
  /\ selected = <<>>
  /\ seen = {}
  /\ total = 0
  /\ pc = "recall"

-----------------------------------------------------------------------------
\* list.sort(key=score, reverse=True) is stable: the places D by decreasing
\* score, those of equal score in increasing order.
Rank(D, score, i) ==
  Cardinality({j \in D : score[j] > score[i] \/ (score[j] = score[i] /\ j <= i)})

ByScore(D, score) ==
  [k \in 1..Cardinality(D) |-> CHOOSE i \in D : Rank(D, score, i) = k]

Cut(list, n) == SubSeq(list, 1, IF n < Len(list) THEN n ELSE Len(list))

\* What a manager's own filter lets through.
OfType(type) == {m \in Memories : items[m].type = type}

Score == [m \in Memories |-> items[m].score]

\* Mutant: a manager cuts its candidates before it sorts them.
MutantRecalled(type) ==
  ByScore({m \in OfType(type) :
             Cardinality({d \in OfType(type) : d <= m}) <= request.candidates},
          Score)

\* recall(): each manager sorts and cuts its candidates itself.
Recalled(type) == Cut(ByScore(OfType(type), Score), request.candidates)

Recall ==
  /\ pc = "recall"
  /\ left # <<>>
  /\ merged' = merged \o Recalled(Head(left))
  /\ left' = Tail(left)
  /\ UNCHANGED <<inputs, candidates, next, selected, seen, total, pc>>

\* The merge, sorted: the places of `merged' in order, and what stands there.
Sorted(list) ==
  LET order == ByScore(DOMAIN list, [i \in DOMAIN list |-> Score[list[i]]])
  IN  [k \in DOMAIN order |-> list[order[k]]]

Merge ==
  /\ pc = "recall"
  /\ left = <<>>
  /\ candidates' = Cut(Sorted(merged), request.candidates)
  /\ pc' = "select"
  /\ UNCHANGED <<inputs, left, merged, next, selected, seen, total>>

-----------------------------------------------------------------------------
Current == items[candidates[next]]

Selecting == pc = "select" /\ next <= Len(candidates)

\* Mutant: the budget is compared before the candidate's tokens are added.
MutantFits(item) == total <= request.tokens

Fits(item) == total + item.tokens <= request.tokens

SkipRepeated ==
  /\ Selecting
  /\ Current.key \in seen
  /\ next' = next + 1
  /\ UNCHANGED <<inputs, left, merged, candidates, selected, seen, total, pc>>

\* Mutant: a content is remembered as seen although it was not taken.
MutantSkipTooLarge ==
  /\ Selecting
  /\ Current.key \notin seen
  /\ ~Fits(Current)
  /\ next' = next + 1
  /\ seen' = seen \cup {Current.key}
  /\ UNCHANGED <<inputs, left, merged, candidates, selected, total, pc>>

\* A candidate that does not fit is passed over; smaller ones may still fit.
SkipTooLarge ==
  /\ Selecting
  /\ Current.key \notin seen
  /\ ~Fits(Current)
  /\ next' = next + 1
  /\ UNCHANGED <<inputs, left, merged, candidates, selected, seen, total, pc>>

\* Mutant: the content is not remembered.
MutantTake ==
  /\ Selecting
  /\ Current.key \notin seen
  /\ Fits(Current)
  /\ selected' = Append(selected, candidates[next])
  /\ total' = total + Current.tokens
  /\ next' = next + 1
  /\ UNCHANGED <<inputs, left, merged, candidates, seen, pc>>

Take ==
  /\ Selecting
  /\ Current.key \notin seen
  /\ Fits(Current)
  /\ selected' = Append(selected, candidates[next])
  /\ seen' = seen \cup {Current.key}
  /\ total' = total + Current.tokens
  /\ next' = next + 1
  /\ UNCHANGED <<inputs, left, merged, candidates, pc>>

Return ==
  /\ pc = "select"
  /\ next > Len(candidates)
  /\ pc' = "built"
  /\ UNCHANGED <<inputs, left, merged, candidates, next, selected, seen, total>>

Next == Recall \/ Merge \/ SkipRepeated \/ SkipTooLarge \/ Take \/ Return

Spec == Init /\ [][Next]_vars

-----------------------------------------------------------------------------
(* Properties.                                                              *)

\* The memories of the pack fit into max_tokens together, and total_tokens is
\* what they take, at every moment of the pass (builder.py skips what does not
\* fit and goes on with smaller ones).
PackWithinBudget ==
  /\ total = SumFunction([i \in DOMAIN selected |-> items[selected[i]].tokens])
  /\ total <= request.tokens

\* No two memories of the pack have the same content up to case and spacing,
\* whichever stores they come from and however often a type is requested.
NoRepeatedContent ==
  \A i, j \in DOMAIN selected :
    items[selected[i]].key = items[selected[j]].key => i = j

\* The pack cannot be extended: a candidate that was passed over repeats a
\* content of the pack or does not fit next to the finished pack.  A content
\* whose long form did not fit does not shut out its short form.
NothingElseFits ==
  pc = "built" =>
    \A i \in DOMAIN candidates :
      \/ \E j \in DOMAIN selected :
           items[selected[j]].key = items[candidates[i]].key
      \/ ~Fits(items[candidates[i]])

\* Cutting twice loses nothing: although each manager returns only its own
\* max_candidates, no memory of a requested type that is left out scores
\* higher than a candidate, and none is left out while there is room.
BestAreCandidates ==
  pc # "recall" =>
    \A m \in Memories :
      \/ \E i \in DOMAIN candidates : candidates[i] = m
      \/ \A i \in DOMAIN request.types : request.types[i] # items[m].type
      \/ /\ Len(candidates) = request.candidates
         /\ \A i \in DOMAIN candidates :
              items[candidates[i]].score >= items[m].score

-----------------------------------------------------------------------------
(* The inductive invariant (proved in ContextBuilderProofs).                *)

WithinBudget == total <= request.tokens

SeenIsSelected == seen = {items[selected[i]].key : i \in DOMAIN selected}

PassedOver ==
  /\ next <= Len(candidates) + 1
  /\ \A i \in 1..(next - 1) :
       \/ items[candidates[i]].key \in seen
       \/ ~Fits(items[candidates[i]])
  /\ pc = "recall" => candidates = <<>>
  /\ pc = "built" => next = Len(candidates) + 1

BuilderInv ==
  TypeOK /\ WithinBudget /\ NoRepeatedContent /\ SeenIsSelected /\ PassedOver

(* What BestAreCandidates needs besides.                                    *)

\* The places of a list whose memories score at least as high as this one.
Above(list, m) == {i \in DOMAIN list : Score[list[i]] >= Score[m]}

\* A memory is in the list, or enough others make up for it.
Represented(list, m) ==
  \/ \E i \in DOMAIN list : list[i] = m
  \/ Cardinality(Above(list, m)) >= request.candidates

\* The memories of every type that was recalled are represented in the merge.
RecalledRepresented ==
  \A m \in Memories :
    \/ \A i \in DOMAIN request.types : request.types[i] # items[m].type
    \/ \E j \in DOMAIN left : left[j] = items[m].type
    \/ Represented(merged, m)

CandidatesInv == BuilderInv /\ RecalledRepresented /\ BestAreCandidates
=============================================================================
