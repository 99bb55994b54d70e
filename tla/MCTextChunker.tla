--------------------------- MODULE MCTextChunker ---------------------------
(* Every text of at most seven characters. *)
EXTENDS TextChunker

\* No overlap, half the window, more than half, and all but one character.
MCSettings ==
  {[max |-> 1, overlap |-> 0], [max |-> 3, overlap |-> 0], [max |-> 3, overlap |-> 1],
   [max |-> 4, overlap |-> 2], [max |-> 5, overlap |-> 4]}
=============================================================================
