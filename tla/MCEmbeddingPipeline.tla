------------------------- MODULE MCEmbeddingPipeline -------------------------
(* Two versions of one object, a longer and a shorter one; pre-chunked texts *)
(* of two objects under one explicit chunk id; a blank text without an       *)
(* object.                                                                   *)
EXTENDS EmbeddingPipeline

CONSTANTS o1, o2, n1, n2

MCObjects == {o1, o2}
MCNames == {n1, n2}

MCRequests ==
  {[id |-> 1, object |-> o1, chunkId |-> None, other |-> n1, size |-> 3],
   [id |-> 2, object |-> o1, chunkId |-> None, other |-> n1, size |-> 1],
   [id |-> 3, object |-> o1, chunkId |-> n1, other |-> n1, size |-> 2],
   [id |-> 4, object |-> o2, chunkId |-> n1, other |-> n2, size |-> 1],
   [id |-> 5, object |-> None, chunkId |-> None, other |-> n2, size |-> 0]}
=============================================================================
