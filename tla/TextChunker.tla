---------------------------- MODULE TextChunker ----------------------------
(***************************************************************************)
(* chunk() of TextChunker (b1/pipeline.py): the loop that cuts a text into *)
(* overlapping chunks, each at a mark in the second half of its window     *)
(* when there is one.  Positions count from 0, and a chunk ends before its *)
(* position `to', as in the code.                                          *)
(***************************************************************************)
EXTENDS Integers, Sequences

CONSTANTS Settings,  \* max_chars and overlap_chars of the chunkers
          MaxLength  \* bound: the length of the text

\* What the loop tells apart of a character: `stop' is punctuation to cut
\* after, `space' is a space or a newline, `tab' is other white space.
Kinds == {"letter", "stop", "space", "tab"}
Marks == {"stop", "space"}
Blanks == {"space", "tab"}

Setting == [max : Nat \ {0}, overlap : Nat]

\* The constructor raises ValueError otherwise.
ASSUME SettingsAssumption ==
  Settings \subseteq {s \in Setting : s.overlap < s.max}
ASSUME LengthAssumption == MaxLength \in Nat

VARIABLES setting, \* the chunker
          length,  \* the length of the stripped text
          text,    \* position -> kind
          start,   \* where the next chunk begins
          chunks,  \* the chunks so far
          pc
vars == <<setting, length, text, start, chunks, pc>>

Chunk == [from : Nat, to : Nat]

TypeOK ==
  /\ setting \in Settings
  /\ length \in Nat
  /\ text \in [0..(length - 1) -> Kinds]
  /\ start \in Nat
  /\ chunks \in Seq(Chunk)
  /\ pc \in {"cut", "done"}

\* A stripped text does not begin or end with white space; an empty one has no
\* chunks.
Init ==
  /\ setting \in Settings
  /\ length \in 1..MaxLength
  /\ text \in [0..(length - 1) -> Kinds]
  /\ text[0] \notin Blanks /\ text[length - 1] \notin Blanks
  /\ start = 0
  /\ chunks = <<>>
  /\ pc = "cut"

-----------------------------------------------------------------------------
HardEnd == IF start + setting.max < length THEN start + setting.max ELSE length

\* Mutant: marks are looked for in the whole window.
MutantSearchStart == start

SearchStart == start + (HardEnd - start) \div 2

\* _natural_boundary: the chunk ends after the last mark in the second half of
\* the window, or with the window, and always with the text.
EndsAt(end) ==
  LET found == {i \in SearchStart..(HardEnd - 1) : text[i] \in Marks} IN
  IF HardEnd >= length THEN end = length
  ELSE IF found = {} THEN end = HardEnd
  ELSE end - 1 \in found /\ \A i \in found : i < end

\* Mutant: the overlap is taken off whatever the chunk is.
MutantNextStart(end) == end - setting.overlap

\* Mutant: the loop does not go back, but may stand still.
MutantStandStill(end) ==
  IF end - setting.overlap > start THEN end - setting.overlap ELSE start

\* Mutant: the next chunk begins after the character at the boundary.
MutantLateStart(end) ==
  IF end - setting.overlap > start + 1 THEN end - setting.overlap + 1 ELSE start + 1

NextStart(end) ==
  IF end - setting.overlap > start + 1 THEN end - setting.overlap ELSE start + 1

Blank(from, to) == \A i \in from..(to - 1) : text[i] \in Blanks

\* One turn of the loop: a chunk of white space only is dropped.
Cut ==
  /\ pc = "cut"
  /\ start < length
  /\ \E end \in start..length :
       /\ EndsAt(end)
       /\ chunks' = IF Blank(start, end) THEN chunks
                    ELSE Append(chunks, [from |-> start, to |-> end])
       /\ IF end >= length THEN pc' = "done" /\ UNCHANGED start
          ELSE start' = NextStart(end) /\ UNCHANGED pc
  /\ UNCHANGED <<setting, length, text>>

Next == Cut

Spec == Init /\ [][Next]_vars

\* The loop runs without suspension.
FairSpec == Spec /\ WF_vars(Next)

-----------------------------------------------------------------------------
(* Properties.                                                              *)

\* The text from i to j is in one chunk.
InOneChunk(i, j) == \E k \in DOMAIN chunks : chunks[k].from <= i /\ j < chunks[k].to

\* Nothing of the text is lost: every character that is not white space is in a
\* chunk, wherever the marks stand and however short the chunks are.
NothingLost ==
  pc = "done" => \A i \in 0..(length - 1) : text[i] \in Blanks \/ InOneChunk(i, i)

\* The text from i to j, with white space at neither end (the chunks are
\* stripped), is at most one character longer than the overlap and than half
\* the window.
Passage(i, j) ==
  /\ i <= j /\ j <= i + setting.overlap /\ j <= i + setting.max \div 2
  /\ text[i] \notin Blanks /\ text[j] \notin Blanks

\* No boundary tears a short passage: it lies in one chunk whole, which is what
\* chunks overlap for, wherever the marks make a chunk end early.  (With the
\* defaults, 120 of 1200, the overlap is the limit.)
PassagesStayWhole ==
  pc = "done" =>
    \A i \in 0..(length - 1) : \A j \in 0..(length - 1) :
      Passage(i, j) => InOneChunk(i, j)

\* The loop ends, although a boundary may leave less than the overlap.
Ends == <>(pc = "done")

-----------------------------------------------------------------------------
(* The inductive invariant (proved in TextChunkerProofs).                   *)

\* A short passage that begins before the next chunk is in one chunk.
WholeSoFar ==
  \A i \in 0..(length - 1) : \A j \in 0..(length - 1) :
    (i < start \/ pc = "done") /\ Passage(i, j) => InOneChunk(i, j)

ChunkerInv == TypeOK /\ WholeSoFar
=============================================================================
