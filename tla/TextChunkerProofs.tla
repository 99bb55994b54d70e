------------------------- MODULE TextChunkerProofs -------------------------
(***************************************************************************)
(* Theorems about TextChunker for every text and every setting that the    *)
(* constructor accepts: nothing is lost, no boundary tears a passage that  *)
(* is no longer than the overlap and half the window, and every turn moves *)
(* forward.                                                                *)
(***************************************************************************)
EXTENDS TextChunker, TLAPS

\* What a turn knows of its boundary: it lies behind the start, within the
\* window, and in the second half of a window that is not the last.
LEMMA Boundary ==
  ASSUME TypeOK, start < length, NEW end \in start..length, EndsAt(end)
  PROVE  /\ end \in Nat /\ end > start
         /\ end < length => end > start + setting.max \div 2
<1>1. /\ start \in Nat /\ length \in Nat
      /\ setting.max \in Nat \ {0}
  BY SettingsAssumption DEF TypeOK, Setting
<1>2. CASE HardEnd >= length
  BY <1>1, <1>2 DEF EndsAt
<1>3. CASE ~(HardEnd >= length)
  <2>1. HardEnd = start + setting.max /\ HardEnd - start = setting.max
    BY <1>1, <1>3 DEF HardEnd
  <2>2. setting.max \div 2 \in Nat /\ setting.max \div 2 < setting.max
    BY <1>1
  <2>3. SearchStart = start + setting.max \div 2
    BY <2>1 DEF SearchStart
  <2>4. end = HardEnd \/ end - 1 \in SearchStart..(HardEnd - 1)
    BY <1>3 DEF EndsAt
  <2> QED
    BY <1>1, <2>1, <2>2, <2>3, <2>4
<1> QED
  BY <1>2, <1>3

\* The next chunk begins behind the last one's start and not behind its end,
\* and reaches back by the overlap unless it begins one character later.
LEMMA Forward ==
  ASSUME TypeOK, NEW end \in Nat, end > start
  PROVE  /\ NextStart(end) \in Nat
         /\ start < NextStart(end) /\ NextStart(end) <= end
         /\ \/ NextStart(end) + setting.overlap = end
            \/ NextStart(end) = start + 1
<1>1. start \in Nat /\ setting.overlap \in Nat
  BY SettingsAssumption DEF TypeOK, Setting
<1> QED
  BY <1>1 DEF NextStart

\* The invariant holds when the loop begins.
LEMMA ChunkerInit == Init => ChunkerInv
  BY LengthAssumption
     DEF Init, ChunkerInv, TypeOK, WholeSoFar

\* One turn of the loop keeps the invariant.
LEMMA CutOK == ChunkerInv /\ Cut => ChunkerInv'
<1> SUFFICES ASSUME ChunkerInv, Cut PROVE ChunkerInv'
  OBVIOUS
<1>1. TypeOK /\ WholeSoFar
  BY DEF ChunkerInv
<1>2. /\ start \in Nat /\ length \in Nat /\ chunks \in Seq(Chunk)
      /\ setting.max \in Nat \ {0} /\ setting.overlap \in Nat
      /\ text \in [0..(length - 1) -> Kinds]
  BY <1>1, SettingsAssumption DEF TypeOK, Setting
<1>3. pc = "cut" /\ start < length /\ UNCHANGED <<setting, length, text>>
  BY DEF Cut
<1>4. PICK end \in start..length :
        /\ EndsAt(end)
        /\ chunks' = IF Blank(start, end) THEN chunks
                     ELSE Append(chunks, [from |-> start, to |-> end])
        /\ IF end >= length THEN pc' = "done" /\ UNCHANGED start
           ELSE start' = NextStart(end) /\ UNCHANGED pc
  BY DEF Cut
<1>5. /\ end \in Nat /\ end > start /\ end <= length
      /\ end < length => end > start + setting.max \div 2
  BY <1>1, <1>2, <1>3, <1>4, Boundary
<1>6. /\ NextStart(end) \in Nat
      /\ start < NextStart(end) /\ NextStart(end) <= end
      /\ \/ NextStart(end) + setting.overlap = end
         \/ NextStart(end) = start + 1
  BY <1>1, <1>5, Forward
<1>7. start' \in Nat /\ pc' \in {"cut", "done"}
  BY <1>2, <1>3, <1>4, <1>6
<1> DEFINE new == [from |-> start, to |-> end]
<1>8. new \in Chunk
  BY <1>2, <1>5 DEF Chunk
<1>9. chunks' \in Seq(Chunk)
  BY <1>2, <1>4, <1>8
<1>10. \/ chunks' = chunks
       \/ /\ Len(chunks') = Len(chunks) + 1
          /\ DOMAIN chunks' = 1..Len(chunks')
          /\ DOMAIN chunks = 1..Len(chunks)
          /\ Len(chunks) \in Nat
          /\ chunks'[Len(chunks')] = new
          /\ \A k \in DOMAIN chunks : chunks'[k] = chunks[k]
  BY <1>2, <1>4, <1>8
<1>11. \A k \in DOMAIN chunks : k \in DOMAIN chunks' /\ chunks'[k] = chunks[k]
  BY <1>10
<1>12. TypeOK'
  BY <1>1, <1>3, <1>7, <1>9 DEF TypeOK
<1>13. WholeSoFar'
  <2> SUFFICES ASSUME NEW i \in 0..(length - 1), NEW j \in 0..(length - 1),
                      i < start' \/ pc' = "done", Passage(i, j)
               PROVE  InOneChunk(i, j)'
    BY <1>3 DEF WholeSoFar, Passage
  <2>1. /\ i \in Nat /\ j \in Nat /\ i <= j /\ j < length
        /\ j <= i + setting.overlap /\ j <= i + setting.max \div 2
        /\ text[i] \notin Blanks
    BY <1>2 DEF Passage
  <2>2. CASE i < start
    <3>1. InOneChunk(i, j)
      BY <1>1, <2>2 DEF WholeSoFar
    <3> QED
      BY <3>1, <1>11 DEF InOneChunk
  <2>3. CASE i >= start
    <3>1. i < end /\ j < end
      <4>1. CASE end >= length
        BY <1>2, <1>5, <2>1, <4>1
      <4>2. CASE end < length
        <5>1. start' = NextStart(end) /\ i < start' /\ end > start + setting.max \div 2
          BY <1>2, <1>3, <1>4, <1>5, <4>2
        <5>2. setting.max \div 2 \in Nat
          BY <1>2
        <5>3. CASE NextStart(end) + setting.overlap = end
          BY <1>2, <1>5, <1>6, <2>1, <5>1, <5>3
        <5>4. CASE NextStart(end) = start + 1
          <6>1. i = start
            BY <1>2, <2>1, <2>3, <5>1, <5>4
          <6> HIDE DEF Passage
          <6> QED
            BY <1>2, <1>5, <2>1, <5>1, <5>2, <6>1
        <5> QED
          BY <1>6, <5>3, <5>4
      <4> QED
        BY <1>2, <1>5, <4>1, <4>2
    <3>2. ~Blank(start, end)
      BY <1>2, <1>5, <2>1, <2>3, <3>1 DEF Blank
    <3>3. Len(chunks') \in DOMAIN chunks' /\ chunks'[Len(chunks')] = new
      BY <1>2, <1>4, <1>8, <3>2
    <3> QED
      BY <2>3, <3>1, <3>3 DEF InOneChunk
  <2> QED
    BY <1>2, <2>1, <2>2, <2>3
<1> QED
  BY <1>12, <1>13 DEF ChunkerInv

\* The inductive invariant of the loop, for every text and setting.
THEOREM Invariance == Spec => []ChunkerInv
<1>1. ChunkerInv /\ [Next]_vars => ChunkerInv'
  <2>1. ChunkerInv /\ UNCHANGED vars => ChunkerInv'
    BY DEF ChunkerInv, TypeOK, WholeSoFar, Passage, InOneChunk, vars
  <2> QED
    BY <2>1, CutOK DEF Next
<1> QED
  BY <1>1, ChunkerInit, PTL DEF Spec

\* Positions and chunks keep their types: no turn begins before the text.
THEOREM TypeCorrect == Spec => []TypeOK
<1>1. ChunkerInv => TypeOK
  BY DEF ChunkerInv
<1> QED
  BY <1>1, Invariance, PTL

\* chunk() loses no character but white space (TextChunker.chunk).
THEOREM TextIsCovered == Spec => []NothingLost
<1>1. ChunkerInv => NothingLost
  <2> SUFFICES ASSUME ChunkerInv, pc = "done",
                      NEW i \in 0..(length - 1), text[i] \notin Blanks
               PROVE  InOneChunk(i, i)
    BY DEF NothingLost
  <2>1. i \in Nat /\ setting.overlap \in Nat /\ setting.max \in Nat \ {0}
    BY SettingsAssumption DEF ChunkerInv, TypeOK, Setting
  <2>2. setting.max \div 2 \in Nat
    BY <2>1
  <2>3. Passage(i, i)
    BY <2>1, <2>2 DEF Passage
  <2> QED
    BY <2>3 DEF ChunkerInv, WholeSoFar
<1> QED
  BY <1>1, Invariance, PTL

\* A passage no longer than the overlap and half the window is in one chunk
\* whole, for every text and setting (TextChunker.chunk, _natural_boundary).
THEOREM PassagesAreWhole == Spec => []PassagesStayWhole
<1>1. ChunkerInv => PassagesStayWhole
  BY DEF ChunkerInv, WholeSoFar, PassagesStayWhole
<1> QED
  BY <1>1, Invariance, PTL

\* Every turn of the loop ends it or moves its start forward within the text:
\* there are at most as many turns as characters.
THEOREM LoopMovesForward ==
  Spec => [][pc' = "done" \/ (start < start' /\ start' < length)]_vars
<1>1. ChunkerInv /\ [Next]_vars => [pc' = "done" \/ (start < start' /\ start' < length)]_vars
  <2> SUFFICES ASSUME ChunkerInv, Cut, pc' # "done"
               PROVE  start < start' /\ start' < length
    BY DEF Next
  <2>1. TypeOK /\ start < length /\ start \in Nat /\ length \in Nat
    BY DEF Cut, ChunkerInv, TypeOK
  <2>2. PICK end \in start..length :
          EndsAt(end) /\ end < length /\ start' = NextStart(end)
    BY <2>1 DEF Cut
  <2>3. end \in Nat /\ end > start
    BY <2>1, <2>2, Boundary
  <2> QED
    BY <2>1, <2>2, <2>3, Forward
<1> QED
  BY <1>1, Invariance, PTL DEF Spec
=============================================================================
