------------------------------ MODULE RagProofs ------------------------------
(***************************************************************************)
(* Cutting texts into chunks and indexing the chunks.                      *)
(* chunk_text: as long as no sentence ends within the overlap every place  *)
(* is in a chunk, for any texts and sizes.  index_chunks: a call that has  *)
(* succeeded is complete in the collection, for any number of documents,   *)
(* chunks and calls and any size of a batch.                               *)
(***************************************************************************)
EXTENDS Chunking, VectorStore, WellFoundedInduction, TLAPS

----------------------------------------------------------------------------
\* chunk_text.

LEMMA MaxIsMember ==
    ASSUME NEW m \in Nat, NEW S \in SUBSET (-1..m), S # {}
    PROVE  Max(S) \in S /\ \A x \in S : x <= Max(S)
<1> DEFINE T == {m - x : x \in S}
<1>0. \A x \in S : m - x \in Nat /\ x \in Int
  OBVIOUS
<1>1. T \subseteq Nat /\ T # {}
  BY <1>0
<1>2. PICK z \in T : \A y \in T : ~(<<y, z>> \in OpToRel(<, Nat))
  BY <1>1, NatLessThanWellFounded, WFMin
<1>3. \A y \in T : ~(y < z)
  BY <1>1, <1>2 DEF OpToRel
<1>4. PICK x \in S : z = m - x
  BY <1>2
<1>5. \A y \in S : x >= y
  <2> SUFFICES ASSUME NEW y \in S PROVE x >= y
    OBVIOUS
  <2>1. m - y \in T /\ ~(m - y < z)
    BY <1>3
  <2> QED  BY <1>0, <1>4, <2>1
<1>6. Max(S) \in S /\ \A y \in S : Max(S) >= y
  BY <1>4, <1>5 DEF Max
<1> QED  BY <1>0, <1>6

LEMMA StopsAre ==
    /\ DOMAIN Stops = 1..3
    /\ Len(Stops[1]) = 1 /\ Len(Stops[2]) = 2 /\ Len(Stops[3]) = 1
    /\ \A i \in 1..3 : /\ Len(Stops[i]) \in 1..2 /\ DOMAIN Stops[i] = 1..Len(Stops[i])
                      /\ Stops[i][1] \in {"zh", "dot", "nl"}
BY DEF Stops

\* rfind returns -1 or a place of its window where the stop stands, the last one.
LEMMA FoundInWindow ==
    ASSUME N \in Nat, NEW stop, Len(stop) \in Nat, NEW from \in Int, NEW to \in Int
    PROVE  /\ \/ RFind(stop, from, to) = -1
              \/ /\ RFind(stop, from, to) \in Places(Bound(from), Bound(to))
                 /\ RFind(stop, from, to) + Len(stop) <= N
                 /\ StopAt(stop, RFind(stop, from, to), Bound(to))
           /\ \A p \in Places(Bound(from), Bound(to)) :
                 p + Len(stop) <= N /\ StopAt(stop, p, Bound(to)) => p <= RFind(stop, from, to)
<1> DEFINE found == {p \in Places(Bound(from), Bound(to)) :
                        p + Len(stop) <= N /\ StopAt(stop, p, Bound(to))}
<1>1. found \subseteq 0..N
  BY DEF Places
<1>2. {-1} \cup found # {} /\ \A x \in {-1} \cup found : x \in -1..N
  BY <1>1
<1>3. Max({-1} \cup found) \in {-1} \cup found /\ \A x \in {-1} \cup found : x <= Max({-1} \cup found)
  BY <1>2, MaxIsMember
<1>4. RFind(stop, from, to) = Max({-1} \cup found)
  BY DEF RFind
<1> QED  BY <1>3, <1>4

\* A boundary is the last place of the window where some stop stands.
LEMMA BoundaryInWindow ==
    ASSUME N \in Nat, NEW from \in Int, NEW to \in Int
    PROVE  \/ Boundary(from, to) = -1
           \/ /\ Boundary(from, to) \in Places(Bound(from), Bound(to))
              /\ \E i \in 1..3 :
                    /\ Boundary(from, to) + Len(Stops[i]) <= N
                    /\ StopAt(Stops[i], Boundary(from, to), Bound(to))
                    /\ \A p \in Places(Bound(from), Bound(to)) :
                          p + Len(Stops[i]) <= N /\ StopAt(Stops[i], p, Bound(to))
                             => p <= Boundary(from, to)
<1>1. \E i \in 1..3 : Boundary(from, to) = RFind(Stops[i], from, to)
  BY DEF Boundary
<1>2. PICK i \in 1..3 : Boundary(from, to) = RFind(Stops[i], from, to)
  BY <1>1
<1>3. Len(Stops[i]) \in Nat
  BY StopsAre
<1> QED  BY <1>2, <1>3, FoundInWindow

\* Where a chunk ends: within the window, and behind its start unless the start
\* lies before the text; far enough behind it for the next chunk to begin later,
\* unless the window is cut within its overlap.
LEMMA EndInWindow ==
    ASSUME CutTypeOK, start < N
    PROVE  /\ End(start) \in Nat
           /\ End(start) <= start + Size
           /\ start >= 0 => End(start) > start
           /\ start >= 0 /\ ~CutWithinOverlap(start) => End(start) - Overlap > start
<1> DEFINE to == start + Size
           b == Boundary(start, to)
<1>1. N \in Nat /\ start \in Int /\ start >= -Overlap /\ Overlap \in Nat /\ Overlap < Size /\ Size \in Nat
  BY ChunkingAssumption DEF CutTypeOK, N, Characters
<1>2. to \in Nat /\ to > 0 /\ Bound(to) = to
  BY <1>1 DEF Bound
<1>3. b = -1 \/ b \in Places(Bound(start), to)
  BY <1>1, <1>2, BoundaryInWindow
<1>4. End(start) = IF to < N /\ b > start THEN b + 1 ELSE to
  BY DEF End
<1>5. CutWithinOverlap(start) <=> to < N /\ start < b /\ b < start + Overlap
  BY DEF CutWithinOverlap
<1> HIDE DEF b
<1>6. CASE to < N /\ b > start /\ b # -1
  <2>1. b \in 0..N - 1 /\ b < to
    BY <1>1, <1>2, <1>3, <1>6 DEF Places, Bound
  <2> QED  BY <1>1, <1>4, <1>5, <1>6, <2>1
<1>7. CASE to < N /\ b > start /\ b = -1
  BY <1>1, <1>2, <1>4, <1>7
<1>8. CASE ~(to < N /\ b > start)
  BY <1>1, <1>2, <1>4, <1>8
<1> QED  BY <1>6, <1>7, <1>8

\* A cut within the overlap is the work of a stop that no other follows closely.
LEMMA EarlyCutIsUneven ==
    ASSUME CutTypeOK, start >= 0, CutWithinOverlap(start)
    PROVE  Overlap >= 2 /\ ~EvenlyStopped
<1> DEFINE to == start + Size
           b == Boundary(start, to)
<1>1. N \in Nat /\ start \in Nat /\ Overlap \in Nat /\ Overlap < Size /\ Size \in Nat
  BY ChunkingAssumption DEF CutTypeOK, N, Characters
<1>2. to < N /\ start < b /\ b < start + Overlap
  BY DEF CutWithinOverlap
<1>3. Bound(start) = start /\ Bound(to) = to /\ to \in Nat
  BY <1>1 DEF Bound
<1>4. b = -1 \/ b \in Places(start, to)
  BY <1>1, <1>3, BoundaryInWindow
<1>5. b # -1
  BY <1>1, <1>2, <1>4
<1>6. PICK i \in 1..3 :
        /\ b + Len(Stops[i]) <= N
        /\ StopAt(Stops[i], b, to)
        /\ \A p \in Places(start, to) :
              p + Len(Stops[i]) <= N /\ StopAt(Stops[i], p, to) => p <= b
  BY <1>1, <1>3, <1>5, BoundaryInWindow
<1> DEFINE n == Len(Stops[i])
           upto == b + 1 + Size - Overlap
<1>7. n \in Nat /\ n >= 1 /\ i \in DOMAIN Stops
  BY StopsAre
<1>8. b \in Places(0, N) /\ b \in Nat
  BY <1>1, <1>2, <1>4, <1>5 DEF Places
<1> HIDE DEF b
<1>9. StopAt(Stops[i], b, N)
  BY <1>6 DEF StopAt
<1>10. upto <= to /\ upto < N
  BY <1>1, <1>2, <1>8
<1>11. ASSUME NEW q \in Places(b + 1, upto), StopAt(Stops[i], q, upto) PROVE FALSE
  <2>1. q \in Places(start, to) /\ q > b /\ q \in Nat
    BY <1>1, <1>2, <1>8, <1>10, <1>11 DEF Places
  <2>2. q + n <= upto /\ \A j \in DOMAIN Stops[i] : text[q + j] = Stops[i][j]
    BY <1>11 DEF StopAt
  <2>3. q + n <= to /\ q + n <= N
    BY <1>1, <1>7, <1>8, <1>10, <2>1, <2>2
  <2>4. StopAt(Stops[i], q, to)
    BY <2>2, <2>3 DEF StopAt
  <2>5. q <= b
    BY <1>6, <2>1, <2>3, <2>4
  <2> QED  BY <1>8, <2>1, <2>5
<1>12. ~EvenlyStopped
  <2>1. ~(upto >= N)
    BY <1>1, <1>8, <1>10
  <2> QED  BY <1>7, <1>8, <1>9, <1>11, <2>1 DEF EvenlyStopped
<1> QED  BY <1>1, <1>2, <1>8, <1>12

LEMMA CutInitEstablishes == CutInit => CutInv
<1> SUFFICES ASSUME CutInit PROVE CutInv
  OBVIOUS
<1>1. N = 0 /\ text \in Seq(Characters)
  BY DEF CutInit, N
<1>2. 0 \in -Overlap .. 0 + Size - Overlap - 1
  BY ChunkingAssumption
<1>3. CutTypeOK
  BY <1>1, <1>2 DEF CutInit, CutTypeOK
<1> QED  BY <1>3 DEF CutInit, CutInv, PassedIsCovered, NeverBefore, EarlyIsUneven

LEMMA CallPreserves ==
    ASSUME CutInv, Call
    PROVE  CutInv'
<1>1. text' \in Seq(Characters) /\ N' \in Nat
  BY ChunkingAssumption DEF Call, N
<1>2. start' = 0 /\ ~early' /\ pc' \in {"short", "cutting"} /\ covered' = covered /\ last' = last
  BY DEF Call, CutInv, NeverBefore
<1>3. covered' = {} /\ last' = {}
  BY <1>2 DEF Call, CutInv, NeverBefore, CutTypeOK
<1>4. CutTypeOK'
  <2>1. Overlap \in Nat /\ Size \in Nat /\ Overlap < Size
    BY ChunkingAssumption
  <2>2. start' \in -Overlap .. N' + Size - Overlap - 1
    <3>1. \A n \in Nat : 0 \in -Overlap .. n + Size - Overlap - 1
      BY <2>1
    <3> QED  BY <1>1, <1>2, <3>1
  <2>3. pc' \in {"idle", "short", "cutting", "done"} /\ early' \in BOOLEAN
    BY <1>2 DEF Call, CutInv, CutTypeOK
  <2>4. covered' \subseteq Places(0, N)' /\ last' \subseteq covered'
    BY <1>3
  <2> QED  BY <1>1, <2>2, <2>3, <2>4 DEF CutTypeOK
<1>5. PassedIsCovered'
  BY <1>2 DEF PassedIsCovered, InChunks, Places
<1> QED  BY <1>2, <1>3, <1>4, <1>5 DEF CutInv, NeverBefore, EarlyIsUneven

\* Stripping takes whitespace off, and nothing else.
LEMMA StripTakesWhite ==
    ASSUME NEW places \in SUBSET Int
    PROVE  /\ Strip(places) \subseteq places
           /\ \A p \in places : text[p + 1] \in White \/ p \in Strip(places)
BY DEF Strip

LEMMA WholeTextPreserves ==
    ASSUME CutInv, WholeText
    PROVE  CutInv'
<1>1. N' = N /\ \A from, to : Places(from, to)' = Places(from, to)
  BY DEF WholeText, N, Places
<1>2. start' = 0 /\ ~early' /\ text' = text
  BY DEF WholeText, CutInv, NeverBefore
<1>3. /\ last' = IF Strip(Places(0, N)) = {} THEN {} ELSE Places(0, N)
      /\ covered' = last' /\ pc' = "done"
  BY DEF WholeText
<1>4. CutTypeOK'
  BY <1>1, <1>2, <1>3 DEF WholeText, CutInv, CutTypeOK, NeverBefore
<1>5. PassedIsCovered'
  <2>1. Places(0, N) \in SUBSET Int
    BY DEF Places
  <2>2. \A p \in Places(0, N) : text[p + 1] \in White \/ p \in covered'
    BY <1>3, <2>1, StripTakesWhite
  <2> QED  BY <1>1, <1>2, <1>3, <2>2 DEF PassedIsCovered, InChunks
<1> QED  BY <1>2, <1>3, <1>4, <1>5 DEF CutInv, NeverBefore, EarlyIsUneven

\* A chunk that begins and ends in the text.
LEMMA SliceInText ==
    ASSUME N \in Nat, NEW from \in Nat, NEW to \in Nat
    PROVE  Slice(from, to) = Places(from, to)
BY DEF Slice, Bound

LEMMA CutPreserves ==
    ASSUME CutInv, Cut
    PROVE  CutInv'
<1> DEFINE to == End(start)
           chunk == Strip(Slice(start, to))
<1>1. N \in Nat /\ start \in Int /\ Overlap \in Nat /\ Overlap < Size /\ Size \in Nat /\ start < N
  BY ChunkingAssumption DEF CutInv, CutTypeOK, N, Characters, Cut
<1>2. /\ to \in Nat /\ to <= start + Size
      /\ start >= 0 => to > start
      /\ start >= 0 /\ ~CutWithinOverlap(start) => to - Overlap > start
  BY <1>1, EndInWindow DEF CutInv
<1>3. /\ last' = IF chunk = {} THEN last ELSE chunk
      /\ covered' = covered \cup chunk
      /\ start' = to - Overlap
      /\ early' = (early \/ CutWithinOverlap(start))
      /\ text' = text /\ pc' = pc /\ pc = "cutting"
  BY DEF Cut
<1>4. N' = N /\ (\A from, upto : Places(from, upto)' = Places(from, upto)) /\ EvenlyStopped' = EvenlyStopped
  BY <1>3 DEF N, Places, EvenlyStopped, StopAt
<1>5. Slice(start, to) \subseteq Places(0, N) /\ Slice(start, to) \in SUBSET Int
  BY <1>1 DEF Slice, Places
<1>6. chunk \subseteq Places(0, N) /\ \A p \in Slice(start, to) : text[p + 1] \in White \/ p \in chunk
  BY <1>5, StripTakesWhite
<1> HIDE DEF to, chunk
<1>7. early \in BOOLEAN /\ early' \in BOOLEAN /\ (early' <=> early \/ CutWithinOverlap(start))
  BY <1>3 DEF CutInv, CutTypeOK, CutWithinOverlap
<1>8. CutTypeOK'
  <2>1. start' \in -Overlap .. N' + Size - Overlap - 1
    BY <1>1, <1>2, <1>3, <1>4
  <2>2. covered' \subseteq Places(0, N)' /\ last' \subseteq covered'
    BY <1>3, <1>4, <1>6 DEF CutInv, CutTypeOK
  <2> QED  BY <1>3, <1>4, <1>7, <2>1, <2>2 DEF CutInv, CutTypeOK
<1>9. ~early' => ~early /\ start >= 0 /\ start' > start
  BY <1>2, <1>3, <1>7 DEF CutInv, NeverBefore
<1>10. PassedIsCovered'
  <2> SUFFICES ASSUME ~early', NEW p \in Places(0, start')
               PROVE  text[p + 1] \in White \/ p \in covered'
    BY <1>3, <1>4 DEF PassedIsCovered, InChunks
  <2>1. \A q \in Places(0, start) : text[q + 1] \in White \/ q \in covered
    BY <1>3, <1>9 DEF CutInv, PassedIsCovered, InChunks
  <2>2. Slice(start, to) = Places(start, to)
    BY <1>1, <1>2, <1>9, SliceInText
  <2>3. Places(0, start') \subseteq Places(0, start) \cup Places(start, to)
    BY <1>1, <1>2, <1>3, <1>9 DEF Places
  <2> QED  BY <1>3, <1>6, <2>1, <2>2, <2>3
<1>11. NeverBefore'
  BY <1>1, <1>3, <1>7, <1>9 DEF NeverBefore
<1>12. EarlyIsUneven'
  <2>1. CASE early
    BY <1>4, <2>1 DEF CutInv, EarlyIsUneven
  <2>2. CASE ~early /\ CutWithinOverlap(start)
    BY <1>4, <2>2, EarlyCutIsUneven DEF CutInv, NeverBefore, EarlyIsUneven
  <2>3. CASE ~early /\ ~CutWithinOverlap(start)
    BY <1>7, <2>3 DEF EarlyIsUneven
  <2> QED  BY <2>1, <2>2, <2>3
<1> QED  BY <1>8, <1>10, <1>11, <1>12 DEF CutInv

LEMMA FinishPreserves ==
    ASSUME CutInv, Finish
    PROVE  CutInv'
<1>1. N' = N /\ (\A from, to : Places(from, to)' = Places(from, to)) /\ EvenlyStopped' = EvenlyStopped
  BY DEF Finish, N, Places, EvenlyStopped, StopAt
<1>2. pc = "cutting" /\ pc' = "done" /\ start >= N /\ UNCHANGED <<text, start, last, covered, early>>
  BY DEF Finish
<1>3. CutTypeOK' /\ NeverBefore' /\ EarlyIsUneven'
  BY <1>1, <1>2 DEF CutInv, CutTypeOK, NeverBefore, EarlyIsUneven
<1>4. PassedIsCovered'
  <2>1. Places(0, N) \subseteq Places(0, start)
    BY <1>2, ChunkingAssumption DEF CutInv, CutTypeOK, Places, N
  <2> QED  BY <1>1, <1>2, <2>1 DEF CutInv, PassedIsCovered, InChunks
<1> QED  BY <1>3, <1>4 DEF CutInv

\* The invariant of the loop of chunk_text.
THEOREM CuttingInvariance == CutSpec => []CutInv
<1>1. CutInv /\ [CutNext]_cutVars => CutInv'
  <2> SUFFICES ASSUME CutInv, [CutNext]_cutVars PROVE CutInv'
    OBVIOUS
  <2>1. CASE UNCHANGED cutVars
    BY <2>1 DEF cutVars, CutInv, CutTypeOK, PassedIsCovered, InChunks, NeverBefore,
       EarlyIsUneven, EvenlyStopped, StopAt, N, Places
  <2> QED
    BY <2>1, CallPreserves, WholeTextPreserves, CutPreserves, FinishPreserves DEF CutNext, CutOn
<1> QED  BY CutInitEstablishes, <1>1, PTL DEF CutSpec

\* What the loop has passed is in a chunk, and in the end the whole text is, up
\* to whitespace, as long as no window is cut within its overlap.
THEOREM NothingIsLost == CutSpec => []PassedIsCovered
<1>1. CutInv => PassedIsCovered
  BY DEF CutInv
<1> QED  BY CuttingInvariance, <1>1, PTL

\* In a text whose stops follow one another closely enough every turn of the loop
\* brings it forward, so that it cannot go on for ever.
THEOREM EvenTextsAdvance == CutSpec => [][Cut /\ EvenlyStopped => start' > start]_cutVars
<1>1. CutInv /\ [CutNext]_cutVars => [Cut /\ EvenlyStopped => start' > start]_cutVars
  <2> SUFFICES ASSUME CutInv, Cut, EvenlyStopped PROVE start' > start
    OBVIOUS
  <2>1. start >= 0 /\ start < N
    BY DEF CutInv, EarlyIsUneven, NeverBefore, Cut
  <2>2. ~CutWithinOverlap(start)
    BY <2>1, EarlyCutIsUneven DEF CutInv
  <2> QED  BY <2>1, <2>2, EndInWindow DEF CutInv, Cut
<1> QED  BY CuttingInvariance, <1>1, PTL DEF CutSpec

\* Texts without stops, and any texts when the overlap has less than two places,
\* are cut without a loss.
THEOREM PlainTextsAreWhole == CutSpec => []PlainIsWhole
<1>1. CutInv => PlainIsWhole
  <2> SUFFICES ASSUME CutInv, pc = "done",
                      Overlap < 2 \/ \A i \in DOMAIN text : text[i] \in {"x", "blank"}
               PROVE  InChunks(0, N)
    BY DEF PlainIsWhole
  <2>1. N \in Nat /\ DOMAIN text = 1..N /\ Overlap \in Nat
    BY ChunkingAssumption DEF CutInv, CutTypeOK, N, Characters
  <2>2. ASSUME \A i \in DOMAIN text : text[i] \in {"x", "blank"} PROVE EvenlyStopped
    <3> SUFFICES ASSUME NEW i \in 1..3, NEW p \in Places(0, N), StopAt(Stops[i], p, N)
                 PROVE  FALSE
      BY StopsAre DEF EvenlyStopped
    <3>1. 1 \in DOMAIN Stops[i] /\ Stops[i][1] \in {"zh", "dot", "nl"}
      BY StopsAre
    <3>2. text[p + 1] = Stops[i][1]
      BY <3>1 DEF StopAt
    <3>3. p + 1 \in DOMAIN text
      BY <2>1 DEF Places
    <3> QED  BY <2>2, <3>1, <3>2, <3>3
  <2>3. ~early
    BY <2>1, <2>2 DEF CutInv, EarlyIsUneven
  <2> QED  BY <2>3 DEF CutInv, PassedIsCovered
<1> QED  BY CuttingInvariance, <1>1, PTL

----------------------------------------------------------------------------
\* index_chunks and delete_document.

LEMMA ChunkParts ==
    ASSUME NEW d \in Documents, NEW v \in 1..MaxVersions, NEW id \in Ids
    PROVE  /\ ChunkAt(d, v, id) \in Chunk
           /\ ChunkAt(d, v, id).document = d
           /\ ChunkAt(d, v, id).version = v
           /\ ChunkAt(d, v, id).index = id
BY DEF ChunkAt, Chunk

\* The chunks of one document, as many as there are ids for.
LEMMA ChunksFit ==
    ASSUME NEW d \in Documents, NEW v \in 1..MaxVersions, NEW n \in 1..MaxChunks
    PROVE  /\ ChunksOf(d, v, n) \in Seq(Chunk) /\ Len(ChunksOf(d, v, n)) = n
           /\ DOMAIN ChunksOf(d, v, n) = 1..n
           /\ \A i \in 1..n : ChunksOf(d, v, n)[i] = ChunkAt(d, v, i - 1)
<1>1. n \in Nat /\ \A i \in 1..n : i - 1 \in Ids
  BY StoreAssumption DEF Ids
<1>2. \A i \in 1..n : ChunkAt(d, v, i - 1) \in Chunk
  BY <1>1, ChunkParts
<1> QED  BY <1>1, <1>2 DEF ChunksOf

LEMMA InitEstablishes == Init => IInv
BY StoreAssumption
DEF Init, IInv, TypeOK, NewestFirst, CallUnderWay, IndexedIsOwn, Point, NoChunk, Ids

LEMMA IndexPreserves ==
    ASSUME IInv, NEW d \in Documents, NEW n \in 1..MaxChunks, IndexChunks(d, n)
    PROVE  IInv' /\ (IndexedIsKept => IndexedIsKept')
<1>0. /\ indexed' = [indexed EXCEPT ![d] = << >>] /\ indexed' \in [Documents -> Seq(Chunk)]
      /\ indexed'[d] = << >> /\ \A e \in Documents : e # d => indexed'[e] = indexed[e]
      /\ UNCHANGED <<points, reached>>
  BY DEF IndexChunks, IInv, TypeOK
<1>1. version + 1 \in 1..MaxVersions /\ version \in Nat
  BY StoreAssumption DEF IInv, TypeOK, IndexChunks
<1>2. /\ pending' \in Seq(Chunk) /\ Len(pending') = n /\ DOMAIN pending' = 1..n
      /\ \A i \in 1..n :
            pending'[i] = ChunkAt(d, version', i - 1)
  BY <1>1, ChunksFit DEF IndexChunks
<1>3. TypeOK'
  <2>1. next' + Len(pending') <= MaxChunks /\ next' \in 0..MaxChunks
    BY <1>2, StoreAssumption DEF IndexChunks
  <2>2. \A e \in Documents : Len(indexed'[e]) <= MaxChunks
    BY <1>0, StoreAssumption DEF IInv, TypeOK
  <2> QED  BY <1>0, <1>1, <1>2, <2>1, <2>2 DEF IndexChunks, IInv, TypeOK
<1>4. NewestFirst'
  BY DEF IndexChunks, IInv, NewestFirst
<1>5. \A id \in Ids : points'[id] # NoChunk => points'[id].version <= version'
  <2>1. \A id \in Ids : points[id] # NoChunk => points[id].version \in Nat
    BY DEF IInv, TypeOK, Point, Chunk
  <2> QED  BY <1>1, <2>1 DEF IndexChunks, IInv, CallUnderWay
<1>6. CallUnderWay'
  <2>1. next' = 0 /\ \A id \in Ids : ~(id < next')
    BY DEF IndexChunks, Ids
  <2>2. \A i \in 1..n : next' + i - 1 = i - 1
    BY <2>1
  <2>3. /\ indexed'[d] = << >>
        /\ \A id \in Ids : id < next' => points'[id] = ChunkAt(d, version', id)
        /\ \A i \in DOMAIN pending' : pending'[i] = ChunkAt(d, version', next' + i - 1)
    BY <1>0, <1>2, <2>1, <2>2 DEF IndexChunks
  <2> QED  BY <1>5, <2>3 DEF CallUnderWay
<1>7. IndexedIsOwn' /\ (IndexedIsKept => IndexedIsKept')
  BY <1>0 DEF IInv, IndexedIsOwn, IndexedIsKept
<1> QED  BY <1>3, <1>4, <1>6, <1>7 DEF IInv

LEMMA UpsertPreserves ==
    ASSUME IInv, UpsertBatch
    PROVE  IInv' /\ (IndexedIsKept => IndexedIsKept')
<1> DEFINE k == Min2(BatchSize, Len(pending))
           end == next + k - 1
<1>1. /\ pending \in Seq(Chunk) /\ pending # << >> /\ Len(pending) \in Nat /\ Len(pending) > 0
      /\ next \in Nat /\ next + Len(pending) <= MaxChunks
  BY DEF UpsertBatch, IInv, TypeOK
<1>2. k \in Nat /\ 1 <= k /\ k <= Len(pending)
  BY <1>1, StoreAssumption DEF Min2
<1>3. /\ points' = [id \in Ids |-> IF id \in next .. end
                                   THEN pending[id - next + 1] ELSE points[id]]
      /\ pending' = SubSeq(pending, k + 1, Len(pending))
      /\ next' = next + k /\ version' = version
      /\ Upserted(k)
  BY DEF UpsertBatch
<1> HIDE DEF k
<1>4. PICK d \in Documents :
        /\ indexed[d] = << >>
        /\ \A id \in Ids : id < next => points[id] = ChunkAt(d, version, id)
        /\ \A i \in DOMAIN pending : pending[i] = ChunkAt(d, version, next + i - 1)
  BY <1>1 DEF IInv, CallUnderWay
<1>5. \A i \in 1..Len(pending) : pending[i] = ChunkAt(d, version, next + i - 1)
  BY <1>1, <1>4
<1>6. version \in 1..MaxVersions
  <2>1. pending[1] \in Chunk /\ pending[1].version = version
    <3>1. pending[1] = ChunkAt(d, version, next + 1 - 1) /\ pending[1] \in Chunk
      BY <1>1, <1>5
    <3> QED  BY <3>1 DEF ChunkAt
  <2> QED  BY <2>1 DEF Chunk
<1>7. \A id \in Ids :
         /\ ChunkAt(d, version, id) \in Chunk
         /\ ChunkAt(d, version, id).document = d
         /\ ChunkAt(d, version, id).version = version
         /\ ChunkAt(d, version, id).index = id
  BY <1>6, ChunkParts
\* Below next' lies this document, and from there on what was there.
<1>8. ASSUME NEW id \in Ids
      PROVE  points'[id] = IF id < next' THEN ChunkAt(d, version, id)
                           ELSE points[id]
  <2>0. id \in Int /\ next \in Int /\ k \in Int /\ k >= 1
    BY <1>1, <1>2 DEF Ids
  <2>a. points'[id] = IF id \in next..end THEN pending[id - next + 1] ELSE points[id]
    BY <1>3
  <2>1. CASE id < next
    <3>1. id \notin next..end /\ id < next + k
      BY <2>0, <2>1
    <3> QED  BY <1>3, <1>4, <2>a, <2>1, <3>1
  <2>2. CASE id \in next..end
    <3>1. id - next + 1 \in 1..Len(pending) /\ next + (id - next + 1) - 1 = id /\ id < next + k
      BY <1>1, <1>2, <2>0, <2>2
    <3>2. pending[id - next + 1] = ChunkAt(d, version, id)
      BY <1>5, <3>1
    <3> QED  BY <1>3, <2>a, <2>2, <3>1, <3>2
  <2>3. CASE id > end
    <3>1. id \notin next..end /\ ~(id < next + k)
      BY <2>0, <2>3
    <3> QED  BY <1>3, <2>a, <3>1
  <2> QED  BY <2>0, <2>1, <2>2, <2>3
<1>9. next' \in 0..MaxChunks /\ next' \in Nat /\ version' \in Nat
  BY <1>1, <1>2, <1>3, <1>6, StoreAssumption
<1>10. /\ pending' \in Seq(Chunk) /\ Len(pending') = Len(pending) - k
       /\ \A i \in 1..Len(pending') : pending'[i] = pending[k + i]
  BY <1>1, <1>2, <1>3
<1>11. next' = next + k /\ Len(pending') = Len(pending) - k
  BY <1>3, <1>10
\* What becomes of the histories.
<1>e. pending[k].document = d
  <2>1. next + k - 1 \in Ids /\ k \in 1..Len(pending)
    BY <1>1, <1>2, StoreAssumption DEF Ids
  <2> QED  BY <1>1, <1>2, <1>5, <1>7, <2>1
<1>f. reached' = [e \in Documents |-> IF e # d THEN Max2(reached[e], next + k)
                                     ELSE IF k = Len(pending) THEN 0 ELSE reached[e]]
  BY <1>3, <1>e DEF Upserted
<1>g. next' \in 1..MaxChunks
  BY <1>1, <1>2, <1>3, <1>9
<1>h. /\ indexed' \in [Documents -> Seq(Chunk)]
      /\ \A e \in Documents : e # d => indexed'[e] = indexed[e]
  <2>1. indexed' = IF k = Len(pending)
                   THEN [indexed EXCEPT ![d] = ChunksOf(d, version, next')]
                   ELSE indexed
    BY <1>3, <1>e DEF Upserted
  <2>2. ChunksOf(d, version, next') \in Seq(Chunk)
    BY <1>6, <1>g, ChunksFit
  <2> QED  BY <2>1, <2>2 DEF IInv, TypeOK
<1>i. ASSUME k = Len(pending)
      PROVE  /\ reached'[d] = 0 /\ Len(indexed'[d]) = next' /\ DOMAIN indexed'[d] = 1..next'
             /\ \A i \in 1..next' : indexed'[d][i] = ChunkAt(d, version, i - 1)
  <2>1. indexed'[d] = ChunksOf(d, version, next')
    BY <1>3, <1>e, <1>i DEF Upserted, IInv, TypeOK
  <2>2. reached'[d] = 0
    BY <1>f, <1>i
  <2> QED  BY <1>6, <1>g, <2>1, <2>2, ChunksFit
<1>j. ASSUME k # Len(pending) PROVE indexed'[d] = << >>
  BY <1>3, <1>4, <1>j DEF Upserted
<1>12. TypeOK'
  <2>1. points' \in [Ids -> Point]
    <3>1. \A id \in Ids : points'[id] \in Point
      BY <1>7, <1>8 DEF Point, IInv, TypeOK
    <3> QED  BY <1>3, <3>1
  <2>2. pending' # << >> => next' + Len(pending') <= MaxChunks
    BY <1>1, <1>2, <1>11
  <2>3. \A e \in Documents : Len(indexed'[e]) <= MaxChunks
    <3> SUFFICES ASSUME NEW e \in Documents PROVE Len(indexed'[e]) <= MaxChunks
      OBVIOUS
    <3>1. CASE e # d
      BY <1>h, <3>1 DEF IInv, TypeOK
    <3>2. CASE e = d /\ k = Len(pending)
      BY <1>g, <1>i, <3>2
    <3>3. CASE e = d /\ k # Len(pending)
      BY <1>j, <3>3, StoreAssumption
    <3> QED  BY <3>1, <3>2, <3>3
  <2>4. indexed' \in [Documents -> Seq(Chunk)]
    BY <1>h, <1>i, <1>j DEF IInv, TypeOK
  <2>5. reached' \in [Documents -> 0..MaxChunks]
    <3>1. next + k \in 0..MaxChunks /\ 0 \in 0..MaxChunks
      BY <1>3, <1>9, StoreAssumption
    <3>2. \A e \in Documents : Max2(reached[e], next + k) \in 0..MaxChunks /\ reached[e] \in 0..MaxChunks
      BY <3>1 DEF Max2, IInv, TypeOK
    <3> QED  BY <1>f, <3>1, <3>2
  <2> QED  BY <1>3, <1>9, <1>10, <2>1, <2>2, <2>3, <2>4, <2>5 DEF IInv, TypeOK
<1>13. \A id \in Ids : points'[id] # NoChunk =>
         points'[id].version \in Nat /\ points'[id].version <= version'
  <2>1. \A id \in Ids : points[id] # NoChunk => points[id].version \in Nat
    BY DEF IInv, TypeOK, Point, Chunk
  <2> QED  BY <1>3, <1>7, <1>8, <1>9, <2>1 DEF IInv, CallUnderWay
<1>14. NewestFirst'
  <2> SUFFICES ASSUME NEW i \in Ids, NEW j \in Ids, points'[i] # NoChunk, points'[j] # NoChunk
               PROVE  /\ points'[i].index = i
                      /\ i < j => points'[i].version >= points'[j].version
    BY DEF NewestFirst
  <2>1. points'[i].index = i
    BY <1>7, <1>8 DEF IInv, NewestFirst
  <2>2. ASSUME i < j PROVE points'[i].version >= points'[j].version
    <3>1. CASE i < next'
      BY <1>3, <1>7, <1>8, <1>13, <3>1
    <3>2. CASE ~(i < next')
      <4>1. ~(j < next')
        BY <1>9, <2>2, <3>2 DEF Ids
      <4> QED  BY <1>8, <2>2, <3>2, <4>1 DEF IInv, NewestFirst
    <3> QED  BY <3>1, <3>2
  <2> QED  BY <2>1, <2>2
<1>15. CallUnderWay'
  <2>1. \A i \in 1..Len(pending') :
          pending'[i] = ChunkAt(d, version', next' + i - 1)
    <3> SUFFICES ASSUME NEW i \in 1..Len(pending')
                 PROVE  pending'[i] = ChunkAt(d, version', next' + i - 1)
      OBVIOUS
    <3>1. k + i \in 1..Len(pending) /\ next + (k + i) - 1 = next' + i - 1
      BY <1>1, <1>2, <1>11
    <3> QED  BY <1>3, <1>5, <1>10, <3>1
  <2>2. DOMAIN pending' = 1..Len(pending')
    BY <1>10
  <2>3. ASSUME pending' # << >> PROVE indexed'[d] = << >>
    <3>1. k # Len(pending)
      BY <1>1, <1>10, <2>3
    <3> QED  BY <1>j, <3>1
  <2>4. \A id \in Ids : id < next' => points'[id] = ChunkAt(d, version', id)
    BY <1>3, <1>8
  <2> QED  BY <1>13, <2>1, <2>2, <2>3, <2>4 DEF CallUnderWay
<1>16. IndexedIsOwn'
  <2>1. ASSUME k = Len(pending), NEW i \in DOMAIN indexed'[d] PROVE indexed'[d][i].document = d
    <3>1. i \in 1..next' /\ i - 1 \in Ids /\ indexed'[d][i] = ChunkAt(d, version, i - 1)
      BY <1>g, <1>i, <2>1, StoreAssumption DEF Ids
    <3> QED  BY <1>7, <3>1
  <2> QED  BY <1>h, <1>j, <2>1 DEF IInv, IndexedIsOwn
<1>17. ASSUME IndexedIsKept, NEW e \in Documents, NEW i \in DOMAIN indexed'[e], i > reached'[e]
       PROVE  points'[i - 1] = indexed'[e][i]
  <2>1. CASE e = d
    <3>1. k = Len(pending)
      BY <1>17, <1>j, <2>1
    <3>2. i \in 1..next' /\ i - 1 \in Ids /\ i - 1 < next' /\ indexed'[d][i] = ChunkAt(d, version, i - 1)
      BY <1>g, <1>i, <1>17, <2>1, <3>1, StoreAssumption DEF Ids
    <3> QED  BY <1>8, <2>1, <3>2
  <2>2. CASE e # d
    <3>1. indexed'[e] = indexed[e] /\ reached'[e] = Max2(reached[e], next + k)
      BY <1>f, <1>h, <2>2
    <3>2. reached[e] \in Nat /\ i \in 1..Len(indexed[e]) /\ Len(indexed[e]) \in Nat /\ Len(indexed[e]) <= MaxChunks
      BY <1>17, <3>1 DEF IInv, TypeOK
    <3>3. i > reached[e] /\ i > next + k
      BY <1>1, <1>2, <1>17, <3>1, <3>2 DEF Max2
    <3>4. points[i - 1] = indexed[e][i]
      BY <1>17, <3>2, <3>3 DEF IndexedIsKept
    <3>5. i - 1 \in Ids /\ ~(i - 1 < next')
      BY <1>1, <1>2, <1>11, <3>2, <3>3, StoreAssumption DEF Ids
    <3> QED  BY <1>8, <3>1, <3>4, <3>5
  <2> QED  BY <2>1, <2>2
<1> QED  BY <1>12, <1>14, <1>15, <1>16, <1>17 DEF IInv, IndexedIsKept

LEMMA DeletePreserves ==
    ASSUME IInv, NEW d \in Documents, DeleteDocument(d)
    PROVE  IInv' /\ (IndexedIsKept => IndexedIsKept')
<1>1. /\ points' = [id \in Ids |-> IF points[id].document = d THEN NoChunk ELSE points[id]]
      /\ pending = << >> /\ pending' = << >> /\ UNCHANGED <<next, version, reached>>
  BY DEF DeleteDocument
<1>a. /\ indexed' \in [Documents -> Seq(Chunk)]
      /\ indexed'[d] = << >> /\ \A e \in Documents : e # d => indexed'[e] = indexed[e]
  BY DEF DeleteDocument, IInv, TypeOK
<1>2. \A id \in Ids : points'[id] # NoChunk => points'[id] = points[id]
  BY <1>1
<1>3. \A id \in Ids : points'[id] \in Point
  BY <1>1 DEF IInv, TypeOK, Point
<1>4. TypeOK'
  <2>1. \A e \in Documents : Len(indexed'[e]) <= MaxChunks
    BY <1>a, StoreAssumption DEF IInv, TypeOK
  <2> QED  BY <1>1, <1>3, <1>a, <2>1 DEF IInv, TypeOK
<1>5. NewestFirst'
  BY <1>2 DEF IInv, NewestFirst
<1>6. CallUnderWay'
  <2>1. \A id \in Ids : points'[id] # NoChunk => points'[id].version <= version'
    BY <1>1, <1>2 DEF IInv, CallUnderWay
  <2> QED  BY <1>1, <2>1 DEF CallUnderWay
<1>7. IndexedIsOwn'
  BY <1>a DEF IInv, IndexedIsOwn
\* A chunk of another document is not among those taken away.
<1>8. ASSUME IndexedIsKept, NEW e \in Documents, NEW i \in DOMAIN indexed'[e], i > reached'[e]
      PROVE  points'[i - 1] = indexed'[e][i]
  <2>1. e # d /\ indexed'[e] = indexed[e] /\ i \in DOMAIN indexed[e] /\ i > reached[e]
    BY <1>1, <1>8, <1>a
  <2>2. points[i - 1] = indexed[e][i] /\ indexed[e][i].document = e
    BY <1>8, <2>1 DEF IndexedIsKept, IInv, IndexedIsOwn
  <2>3. i - 1 \in Ids
    <3>1. i \in 1..Len(indexed[e]) /\ Len(indexed[e]) \in Nat /\ Len(indexed[e]) <= MaxChunks
      BY <2>1 DEF IInv, TypeOK
    <3> QED  BY <3>1, StoreAssumption DEF Ids
  <2> QED  BY <1>1, <2>1, <2>2, <2>3
<1> QED  BY <1>4, <1>5, <1>6, <1>7, <1>8 DEF IInv, IndexedIsKept

LEMMA FailPreserves ==
    ASSUME IInv, UpsertFails
    PROVE  IInv' /\ (IndexedIsKept => IndexedIsKept')
<1>1. pending' = << >> /\ UNCHANGED <<points, next, version, indexed, reached>>
  BY DEF UpsertFails
<1>2. TypeOK' /\ NewestFirst'
  BY <1>1 DEF IInv, TypeOK, NewestFirst
<1>3. CallUnderWay'
  BY <1>1 DEF IInv, CallUnderWay
<1> QED  BY <1>1, <1>2, <1>3 DEF IInv, IndexedIsOwn, IndexedIsKept

\* The invariant of the collection and of the call under way, and with it what is
\* kept of the documents, whatever calls fail half-way or delete others.
THEOREM StoreInvariance == Spec => [](IInv /\ IndexedIsKept)
<1>1. Init => IInv /\ IndexedIsKept
  BY InitEstablishes DEF Init, IndexedIsKept
<1>2. IInv /\ IndexedIsKept /\ [Next]_vars => IInv' /\ IndexedIsKept'
  <2> SUFFICES ASSUME IInv, IndexedIsKept, [Next]_vars
               PROVE  IInv' /\ IndexedIsKept'
    OBVIOUS
  <2>1. CASE UNCHANGED vars
    BY <2>1 DEF vars, IInv, TypeOK, NewestFirst, CallUnderWay, IndexedIsOwn, IndexedIsKept
  <2> QED
    BY <2>1, IndexPreserves, UpsertPreserves, DeletePreserves, FailPreserves DEF Next
<1> QED  BY <1>1, <1>2, PTL DEF Spec

\* What a successful index_chunks has stored stays until its document is indexed
\* again or deleted, except at the ids that calls for other documents write.
THEOREM IndexedStays == Spec => []IndexedIsKept
BY StoreInvariance, PTL
=============================================================================
