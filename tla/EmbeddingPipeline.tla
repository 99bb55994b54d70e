-------------------------- MODULE EmbeddingPipeline --------------------------
(***************************************************************************)
(* EmbeddingPipeline.process (b1/pipeline.py) and the callers that delete  *)
(* objects from its sink.  process() suspends once, in the embedding       *)
(* client: FastEmbedClient works in a thread and may raise.  Everything    *)
(* before that await is one step, everything after it another.             *)
(*                                                                         *)
(* A request is what the sink can tell apart: its object, its explicit     *)
(* chunk id or what else names it, and into how many chunks TextChunker    *)
(* cuts its text.                                                          *)
(***************************************************************************)
EXTENDS Naturals, Sequences

CONSTANTS Requests,  \* the requests of the callers, each processed once
          Objects,   \* the objects of requests, which callers delete
          Names,     \* explicit chunk ids and the other ids of a request
          None,      \* a field of a request that is not given
          NoRecord,  \* the value of a chunk id without a record
          NoRequest, \* no request
          MaxChunks, \* bound of the chunks of a request
          MaxDim,    \* bound of the dimension of a vector
          FailOpen   \* the parameter of the pipeline

VARIABLES status,  \* request -> where its call of process() is
          records, \* the sink: chunk id -> record
          latest,  \* history: key -> the last request stored under it
          erased   \* history: requests answered before their object was deleted
vars == <<status, records, latest, erased>>

\* `other' is the first given of memory_id, doc_id, source_id, request_id.
Request == [id : Nat, object : Objects \cup {None}, chunkId : Names \cup {None},
            other : Names, size : 0..MaxChunks]

ASSUME RequestsAssumption == Requests \subseteq Request /\ NoRequest \notin Requests
ASSUME BoundsAssumption == MaxChunks \in Nat /\ MaxDim \in Nat
ASSUME FailOpenAssumption == FailOpen \in BOOLEAN

Keys == Objects \cup Names

\* chunk_key: an explicit chunk id, or the object's id, or another one.
KeyOf(r) ==
  CASE r.chunkId # None                    -> r.chunkId
    [] r.chunkId = None /\ r.object # None -> r.object
    [] OTHER                               -> r.other

\* f"{chunk_key}:{index:04d}".
ChunkIds == Keys \X (0..(MaxChunks - 1))

\* Of a vector only its dimension matters here.
Record == [request : Requests, object : Objects \cup {None}, dim : 0..MaxDim]

ASSUME RecordAssumption == NoRecord \notin Record /\ None \notin Keys

Sink == INSTANCE VectorSink
          WITH ChunkIds <- ChunkIds, NoRecord <- NoRecord, records <- records

Statuses == {"new", "embedding", "success", "failed", "raised"}

TypeOK ==
  /\ status \in [Requests -> Statuses]
  /\ records \in [ChunkIds -> Record \cup {NoRecord}]
  /\ latest \in [Keys -> Requests \cup {NoRequest}]
  /\ erased \subseteq Requests

Init ==
  /\ status = [r \in Requests |-> "new"]
  /\ records = Sink!Empty
  /\ latest = [k \in Keys |-> NoRequest]
  /\ erased = {}

-----------------------------------------------------------------------------
To(r, s) == status' = [status EXCEPT ![r] = s]

\* The except clause: a FAILED result, or the exception itself.
Fail(r) ==
  /\ To(r, IF FailOpen THEN "failed" ELSE "raised")
  /\ UNCHANGED <<records, latest, erased>>

\* process() until the embedding client suspends; a blank text has no chunks.
Process(r) ==
  /\ status[r] = "new"
  /\ IF r.size = 0 THEN Fail(r)
     ELSE To(r, "embedding") /\ UNCHANGED <<records, latest, erased>>

\* What a client may answer: the dimensions of some list of vectors.
Answers == UNION {[1..n -> 0..MaxDim] : n \in 0..(MaxChunks + 1)}

\* Mutant: only the first vector is looked at.
MutantValid(r, vectors) == Len(vectors) = r.size /\ vectors[1] # 0

\* _validate_vectors(): one vector for each chunk, none of them empty, all of
\* one dimension.
Valid(r, vectors) ==
  /\ Len(vectors) = r.size
  /\ vectors # <<>> /\ vectors[1] # 0
  /\ \A i \in DOMAIN vectors : vectors[i] = vectors[1]

ChunksOf(r) == {<<KeyOf(r), i>> : i \in 0..(r.size - 1)}

\* Mutant: a record of a request without an object gets its chunk key for one.
MutantRecordsOf(r, vectors) ==
  [c \in ChunksOf(r) |->
     [request |-> r, object |-> KeyOf(r), dim |-> vectors[c[2] + 1]]]

RecordsOf(r, vectors) ==
  [c \in ChunksOf(r) |->
     [request |-> r, object |-> r.object, dim |-> vectors[c[2] + 1]]]

\* Mutant: the records are upserted before they are validated.
MutantEmbedded(r) ==
  /\ status[r] = "embedding"
  /\ \E vectors \in Answers :
       /\ Len(vectors) = r.size
       /\ Sink!Upsert(RecordsOf(r, vectors))
       /\ To(r, IF Valid(r, vectors) THEN "success" ELSE "failed")
  /\ UNCHANGED <<latest, erased>>

\* The client answered: validation, one upsert of all records, the result.
Embedded(r) ==
  /\ status[r] = "embedding"
  /\ \E vectors \in Answers :
       IF Valid(r, vectors)
         THEN /\ Sink!Upsert(RecordsOf(r, vectors))
              /\ latest' = [latest EXCEPT ![KeyOf(r)] = r]
              /\ To(r, "success")
              /\ UNCHANGED erased
         ELSE Fail(r)

\* The client raised.
EmbeddingRaised(r) == status[r] = "embedding" /\ Fail(r)

Answered == {r \in Requests : status[r] \notin {"new", "embedding"}}

\* Mutant: only the chunks of the object's last version are deleted.
MutantDelete(object) ==
  /\ records' = [c \in ChunkIds |->
                   IF c \in Sink!OfObject(object) /\ records[c].request = latest[c[1]]
                   THEN NoRecord ELSE records[c]]
  /\ latest' = [k \in Keys |->
                  IF latest[k] # NoRequest /\ latest[k].object = object
                  THEN NoRequest ELSE latest[k]]
  /\ erased' = erased \cup {r \in Answered : r.object = object}
  /\ UNCHANGED status

\* delete_by_object_id(), at any time, other calls of process() under way.
Delete(object) ==
  /\ Sink!DeleteByObjectId(object)
  /\ latest' = [k \in Keys |->
                  IF latest[k] # NoRequest /\ latest[k].object = object
                  THEN NoRequest ELSE latest[k]]
  /\ erased' = erased \cup {r \in Answered : r.object = object}
  /\ UNCHANGED status

Proceed(r) == Embedded(r) \/ EmbeddingRaised(r)

Next ==
  \/ \E r \in Requests : Process(r) \/ Proceed(r)
  \/ \E object \in Objects : Delete(object)

Spec == Init /\ [][Next]_vars

-----------------------------------------------------------------------------
(* Properties.                                                              *)

\* A SUCCESS result describes the sink: the version last stored under a key is
\* there in full, in front, with vectors of one dimension, whatever longer or
\* shorter versions came before, calls overlapped or objects were deleted.
\* (What a longer version left behind its end is not part of it.)
LastStoredIsWhole ==
  \A k \in Keys : latest[k] # NoRequest =>
    \A c \in ChunkIds :
      c[1] = k /\ c[2] < latest[k].size =>
        /\ records[c] # NoRecord
        /\ records[c].request = latest[k]
        /\ records[c].dim # 0 /\ records[c].dim = records[<<k, 0>>].dim

\* A request that failed or raised has left nothing in the sink, not even the
\* chunks whose vectors were in order.
OnlySuccessesStored ==
  \A c \in ChunkIds : records[c] # NoRecord => status[records[c].request] = "success"

\* A delete takes every version with it: no record of a request that was
\* answered before its object was deleted is in the sink, leftovers of longer
\* versions included.  Only a call that was embedding meanwhile brings the
\* object back.
DeletedMeansGone ==
  \A c \in ChunkIds : records[c] # NoRecord => records[c].request \notin erased
=============================================================================
