----------------------------- MODULE VectorSink -----------------------------
(***************************************************************************)
(* InMemoryVectorSink (b1/pipeline.py): a dictionary from chunk ids to     *)
(* records.  Neither operation suspends, so each is one step.              *)
(***************************************************************************)
CONSTANTS ChunkIds,  \* the chunk ids that requests can produce
          NoRecord   \* the value of a chunk id without a record

VARIABLE records     \* the sink: chunk id -> record

Empty == [c \in ChunkIds |-> NoRecord]

OfObject(object) ==
  {c \in ChunkIds : records[c] # NoRecord /\ records[c].object = object}

\* upsert(): a record replaces the one with its chunk id; no other is touched.
Upsert(new) ==
  records' = [c \in ChunkIds |-> IF c \in DOMAIN new THEN new[c] ELSE records[c]]

\* delete_by_object_id().
DeleteByObjectId(object) ==
  records' = [c \in ChunkIds |->
                IF c \in OfObject(object) THEN NoRecord ELSE records[c]]
=============================================================================
