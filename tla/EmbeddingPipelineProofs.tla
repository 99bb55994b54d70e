----------------------- MODULE EmbeddingPipelineProofs -----------------------
(***************************************************************************)
(* Theorems about EmbeddingPipeline for every set of requests, of any      *)
(* objects and chunk ids, shared or not: what a SUCCESS result says stays  *)
(* true of the sink, failures leave nothing there, and deletes are         *)
(* complete.                                                               *)
(***************************************************************************)
EXTENDS EmbeddingPipeline, SequenceTheorems, TLAPS

\* A record carries the object of its request.
ObjectOfRequest ==
  \A c \in ChunkIds :
    records[c] # NoRecord => records[c].object = records[c].request.object

\* Only a call that has ended can be one whose object was deleted since.
ErasedAnswered == erased \subseteq Answered

PipelineInv ==
  /\ TypeOK
  /\ ObjectOfRequest
  /\ ErasedAnswered
  /\ OnlySuccessesStored
  /\ DeletedMeansGone
  /\ LastStoredIsWhole

-----------------------------------------------------------------------------
\* The fields of a request.
LEMMA RequestType ==
  ASSUME NEW r \in Requests
  PROVE  /\ r.object \in Objects \cup {None} /\ r.size \in 0..MaxChunks
         /\ KeyOf(r) \in Keys
  BY RequestsAssumption DEF Request, KeyOf, Keys

\* The chunk ids of a request are its key with the indices below its size.
LEMMA ChunksOfType ==
  ASSUME NEW r \in Requests
  PROVE  /\ ChunksOf(r) \subseteq ChunkIds
         /\ \A c \in ChunkIds : c \in ChunksOf(r) <=> c[1] = KeyOf(r) /\ c[2] < r.size
         /\ r.size # 0 => <<KeyOf(r), 0>> \in ChunksOf(r)
  BY RequestType, BoundsAssumption DEF ChunksOf, ChunkIds

\* Any list of vectors that a client answers is a sequence of dimensions.
LEMMA AnswerType ==
  ASSUME NEW vectors \in Answers
  PROVE  vectors \in Seq(0..MaxDim)
<1>1. PICK n \in Nat : vectors \in [1..n -> 0..MaxDim]
  BY BoundsAssumption DEF Answers
<1> QED
  BY <1>1, SeqDef

\* The records of a validated answer are well-typed, name the request and its
\* object, and have one and the same dimension, which is not zero.
LEMMA RecordsOfValid ==
  ASSUME NEW r \in Requests, NEW vectors \in Answers, Valid(r, vectors)
  PROVE  /\ r.size # 0
         /\ \E dim \in (0..MaxDim) \ {0} : \A c \in ChunksOf(r) :
              RecordsOf(r, vectors)[c] = [request |-> r, object |-> r.object, dim |-> dim]
<1>1. /\ vectors \in Seq(0..MaxDim) /\ Len(vectors) = r.size /\ vectors # <<>>
      /\ vectors[1] # 0 /\ \A i \in DOMAIN vectors : vectors[i] = vectors[1]
  BY AnswerType DEF Valid
<1>2. r.size \in Nat \ {0} /\ DOMAIN vectors = 1..r.size
  BY <1>1, EmptySeq, LenProperties
<1>3. vectors[1] \in (0..MaxDim) \ {0}
  <2>3. vectors \in [1..Len(vectors) -> 0..MaxDim]
    BY <1>1, LenProperties
  <2>1. vectors \in [1..r.size -> 0..MaxDim] /\ 1 \in 1..r.size
    BY <1>1, <1>2, <2>3
  <2>2. vectors[1] \in 0..MaxDim
    BY <2>1
  <2> QED
    BY <1>1, <2>2
<1>4. ASSUME NEW c \in ChunksOf(r)
      PROVE  RecordsOf(r, vectors)[c]
               = [request |-> r, object |-> r.object, dim |-> vectors[1]]
  <2>1. c[2] + 1 \in 1..r.size
    BY <1>2, <1>4 DEF ChunksOf
  <2>2. vectors[c[2] + 1] = vectors[1]
    BY <1>1, <1>2, <2>1
  <2> QED
    BY <1>4, <2>2 DEF RecordsOf
<1> QED
  BY <1>2, <1>3, <1>4

-----------------------------------------------------------------------------
\* The empty sink satisfies the invariant.
LEMMA PipelineInit == Init => PipelineInv
  BY DEF Init, PipelineInv, TypeOK, Statuses, Sink!Empty, ObjectOfRequest,
         ErasedAnswered, OnlySuccessesStored, DeletedMeansGone, LastStoredIsWhole

\* A call that moves on without storing anything keeps the invariant.
LEMMA StatusOnly ==
  ASSUME PipelineInv, NEW r \in Requests, NEW s \in Statuses, To(r, s),
         status[r] \in {"new", "embedding"}, UNCHANGED <<records, latest, erased>>
  PROVE  PipelineInv'
<1>1. TypeOK'
  BY DEF PipelineInv, TypeOK, To
<1>2. ErasedAnswered'
  BY DEF PipelineInv, TypeOK, To, ErasedAnswered, Answered
<1>3. OnlySuccessesStored'
  BY DEF PipelineInv, TypeOK, To, OnlySuccessesStored, Record
<1>4. ObjectOfRequest' /\ DeletedMeansGone' /\ LastStoredIsWhole'
  BY DEF PipelineInv, ObjectOfRequest, DeletedMeansGone, LastStoredIsWhole
<1> QED
  BY <1>1, <1>2, <1>3, <1>4 DEF PipelineInv

\* Neither result of a failure depends on more than FailOpen.
LEMMA FailKeeps ==
  ASSUME PipelineInv, NEW r \in Requests, Fail(r), status[r] \in {"new", "embedding"}
  PROVE  PipelineInv'
  BY StatusOnly DEF Fail, Statuses

\* An upsert of validated records keeps the invariant: it replaces records and
\* makes its request the last one stored under its key.
LEMMA StoreKeeps ==
  ASSUME PipelineInv, NEW r \in Requests, NEW vectors \in Answers, Valid(r, vectors),
         status[r] = "embedding",
         Sink!Upsert(RecordsOf(r, vectors)),
         latest' = [latest EXCEPT ![KeyOf(r)] = r],
         To(r, "success"), UNCHANGED erased
  PROVE  PipelineInv'
<1>1. PICK dim \in (0..MaxDim) \ {0} : \A c \in ChunksOf(r) :
        RecordsOf(r, vectors)[c] = [request |-> r, object |-> r.object, dim |-> dim]
  BY RecordsOfValid
<1> DEFINE new == [request |-> r, object |-> r.object, dim |-> dim]
<1>2. /\ ChunksOf(r) \subseteq ChunkIds
      /\ records' = [c \in ChunkIds |-> IF c \in ChunksOf(r) THEN new ELSE records[c]]
  BY <1>1, ChunksOfType DEF Sink!Upsert, RecordsOf
<1>3. /\ new \in Record /\ new # NoRecord /\ new.request = r
      /\ new.object = r.object /\ new.dim = dim
  BY RequestType, RecordAssumption DEF Record
<1> HIDE DEF new
<1>4. /\ status' = [status EXCEPT ![r] = "success"]
      /\ status' \in [Requests -> Statuses]
  BY DEF PipelineInv, TypeOK, To, Statuses
<1>5. TypeOK'
  BY <1>2, <1>3, <1>4, RequestType DEF PipelineInv, TypeOK
<1>6. ObjectOfRequest'
  BY <1>2, <1>3 DEF PipelineInv, ObjectOfRequest
<1>7. ErasedAnswered'
  BY <1>4 DEF PipelineInv, TypeOK, ErasedAnswered, Answered
<1>8. OnlySuccessesStored'
  BY <1>2, <1>3, <1>4 DEF PipelineInv, TypeOK, Record, OnlySuccessesStored
<1>9. DeletedMeansGone'
  <2>1. r \notin erased
    BY DEF PipelineInv, ErasedAnswered, Answered
  <2> QED
    BY <1>2, <1>3, <2>1 DEF PipelineInv, DeletedMeansGone
<1>10. LastStoredIsWhole'
  <2> SUFFICES ASSUME NEW k \in Keys, latest'[k] # NoRequest,
                      NEW c \in ChunkIds, c[1] = k, c[2] < latest'[k].size
               PROVE  /\ records'[c] # NoRecord
                      /\ records'[c].request = latest'[k]
                      /\ records'[c].dim # 0
                      /\ records'[c].dim = records'[<<k, 0>>].dim
    BY DEF LastStoredIsWhole
  <2>1. CASE k = KeyOf(r)
    <3>1. latest'[k] = r
      BY <2>1, RequestType DEF PipelineInv, TypeOK
    <3>2. c \in ChunksOf(r) /\ <<k, 0>> \in ChunksOf(r)
      BY <2>1, <3>1, ChunksOfType, RecordsOfValid
    <3> QED
      BY <1>2, <1>3, <3>1, <3>2
  <2>2. CASE k # KeyOf(r)
    <3>1. latest'[k] = latest[k]
      BY <2>2 DEF PipelineInv, TypeOK
    <3>2. <<k, 0>> \in ChunkIds
      BY BoundsAssumption DEF ChunkIds
    <3>3. c \notin ChunksOf(r) /\ <<k, 0>> \notin ChunksOf(r)
      BY <2>2, <3>2, ChunksOfType
    <3> QED
      BY <1>2, <3>1, <3>2, <3>3 DEF PipelineInv, LastStoredIsWhole
  <2> QED
    BY <2>1, <2>2
<1> QED
  BY <1>5, <1>6, <1>7, <1>8, <1>9, <1>10 DEF PipelineInv

\* A delete keeps the invariant: what remains belongs to other objects.
LEMMA DeleteKeeps ==
  ASSUME PipelineInv, NEW object \in Objects, Delete(object)
  PROVE  PipelineInv'
<1>1. records' = [c \in ChunkIds |->
                    IF records[c] # NoRecord /\ records[c].object = object
                    THEN NoRecord ELSE records[c]]
  BY DEF Delete, Sink!DeleteByObjectId, Sink!OfObject
<1>2. latest' = [k \in Keys |->
                   IF latest[k] # NoRequest /\ latest[k].object = object
                   THEN NoRequest ELSE latest[k]]
  BY DEF Delete
<1>3. /\ erased' = erased \cup {r \in Answered : r.object = object}
      /\ status' = status /\ Answered' = Answered
  BY DEF Delete, Answered
<1>4. TypeOK'
  BY <1>1, <1>2, <1>3 DEF PipelineInv, TypeOK, Answered
<1>5. ObjectOfRequest'
  BY <1>1 DEF PipelineInv, ObjectOfRequest
<1>6. ErasedAnswered'
  BY <1>3 DEF PipelineInv, ErasedAnswered
<1>7. OnlySuccessesStored'
  BY <1>1, <1>3 DEF PipelineInv, OnlySuccessesStored
<1>8. DeletedMeansGone'
  <2> SUFFICES ASSUME NEW c \in ChunkIds, records'[c] # NoRecord
               PROVE  records'[c].request \notin erased'
    BY DEF DeletedMeansGone
  <2>1. records'[c] = records[c] /\ records[c].object # object
    BY <1>1
  <2>2. records[c].request.object # object /\ records[c].request \notin erased
    BY <2>1 DEF PipelineInv, ObjectOfRequest, DeletedMeansGone
  <2> QED
    BY <1>3, <2>1, <2>2
<1>9. LastStoredIsWhole'
  <2> SUFFICES ASSUME NEW k \in Keys, latest'[k] # NoRequest,
                      NEW c \in ChunkIds, c[1] = k, c[2] < latest'[k].size
               PROVE  /\ records'[c] # NoRecord
                      /\ records'[c].request = latest'[k]
                      /\ records'[c].dim # 0
                      /\ records'[c].dim = records'[<<k, 0>>].dim
    BY DEF LastStoredIsWhole
  <2>1. latest'[k] = latest[k] /\ latest[k].object # object
    BY <1>2
  <2>2. latest[k] \in Requests
    BY <2>1 DEF PipelineInv, TypeOK
  <2>3. <<k, 0>> \in ChunkIds /\ 0 < latest[k].size
    BY <2>1, <2>2, RequestType, BoundsAssumption DEF ChunkIds
  <2>4. \A d \in {c, <<k, 0>>} :
          /\ d \in ChunkIds /\ d[1] = k /\ d[2] < latest[k].size
    BY <2>1, <2>3
  <2>5. \A d \in {c, <<k, 0>>} :
          /\ records[d] # NoRecord /\ records[d].request = latest[k]
          /\ records[d].dim # 0 /\ records[d].dim = records[<<k, 0>>].dim
    BY <2>1, <2>4 DEF PipelineInv, LastStoredIsWhole
  <2>6. \A d \in {c, <<k, 0>>} : records[d].object # object
    BY <2>1, <2>4, <2>5 DEF PipelineInv, ObjectOfRequest
  <2>7. \A d \in {c, <<k, 0>>} : records'[d] = records[d]
    BY <1>1, <2>4, <2>6
  <2> QED
    BY <2>1, <2>5, <2>7
<1> QED
  BY <1>4, <1>5, <1>6, <1>7, <1>8, <1>9 DEF PipelineInv

-----------------------------------------------------------------------------
\* The inductive invariant holds in every reachable state.
THEOREM PipelineInvariance == Spec => []PipelineInv
<1>1. PipelineInv /\ [Next]_vars => PipelineInv'
  <2> SUFFICES ASSUME PipelineInv, [Next]_vars PROVE PipelineInv'
    OBVIOUS
  <2>1. ASSUME NEW r \in Requests, Process(r) PROVE PipelineInv'
    BY <2>1, StatusOnly, FailKeeps DEF Process, Statuses
  <2>2. ASSUME NEW r \in Requests, Embedded(r) PROVE PipelineInv'
    BY <2>2, StoreKeeps, FailKeeps DEF Embedded
  <2>3. ASSUME NEW r \in Requests, EmbeddingRaised(r) PROVE PipelineInv'
    BY <2>3, FailKeeps DEF EmbeddingRaised
  <2>4. ASSUME NEW object \in Objects, Delete(object) PROVE PipelineInv'
    BY <2>4, DeleteKeeps
  <2>5. CASE UNCHANGED vars
    BY <2>5 DEF vars, PipelineInv, TypeOK, ObjectOfRequest, ErasedAnswered, Answered,
                OnlySuccessesStored, DeletedMeansGone, LastStoredIsWhole
  <2> QED
    BY <2>1, <2>2, <2>3, <2>4, <2>5 DEF Next, Proceed
<1> QED
  BY PipelineInit, <1>1, PTL DEF Spec

\* Every variable of the pipeline keeps its type.
THEOREM TypeCorrect == Spec => []TypeOK
<1>1. PipelineInv => TypeOK
  BY DEF PipelineInv
<1> QED
  BY PipelineInvariance, <1>1, PTL

\* A SUCCESS result describes the sink: the last version stored under a key is
\* there in full (b1/pipeline.py, process).
THEOREM SuccessIsStored == Spec => []LastStoredIsWhole
<1>1. PipelineInv => LastStoredIsWhole
  BY DEF PipelineInv
<1> QED
  BY PipelineInvariance, <1>1, PTL

\* A request that failed or raised has left nothing in the sink.
THEOREM FailuresStoreNothing == Spec => []OnlySuccessesStored
<1>1. PipelineInv => OnlySuccessesStored
  BY DEF PipelineInv
<1> QED
  BY PipelineInvariance, <1>1, PTL

\* A delete takes every version with it that was answered before it.
THEOREM DeleteIsComplete == Spec => []DeletedMeansGone
<1>1. PipelineInv => DeletedMeansGone
  BY DEF PipelineInv
<1> QED
  BY PipelineInvariance, <1>1, PTL
=============================================================================
