------------------------------ MODULE Chunking ------------------------------
(***************************************************************************)
(* chunk_text of the RAG engine, rag_engine/ingestion.py: the loop that    *)
(* cuts a text into overlapping chunks, preferably behind a sentence.  A   *)
(* text is a sequence of characters: those that end a sentence, whitespace *)
(* and any other.  Of the chunks made so far the model keeps the last and  *)
(* the places they cover.  A state is one turn of the loop; Python's       *)
(* slices with negative bounds are modelled, for the loop can reach them.  *)
(* Names begin with Cut where VectorStore has the same: the proofs about    *)
(* both are in RagProofs.                                                  *)
(***************************************************************************)
EXTENDS Integers, Sequences, FiniteSetsExt

CONSTANTS
    Texts,      \* the texts to cut
    Size,       \* chunk_size
    Overlap     \* chunk_overlap

\* The ends of sentences: the Chinese full stop, a period and a blank, the
\* newline, in the order in which they are sought.
Stops == << <<"zh">>, <<"dot", "blank">>, <<"nl">> >>
White == {"blank", "nl"}
Characters == {"x", "zh", "dot"} \cup White

\* config.py sets the sizes to 512 and 64; with an overlap of a whole chunk the
\* loop would never move.
ASSUME ChunkingAssumption ==
    /\ Size \in Nat \ {0}
    /\ Overlap \in 0 .. Size - 1
    /\ Texts \subseteq Seq(Characters)

VARIABLES
    text,
    start,     \* where the next chunk begins, counting from 0 as the code does
    last,      \* the chunk made last, a range of places of the text
    covered,   \* the places that are in some chunk
    pc,
    early      \* history: a window was cut behind a sentence within its overlap

cutVars == <<text, start, last, covered, pc, early>>

N == Len(text)
Places(from, to) == {p \in from .. to - 1 : p \in 0 .. N - 1}

\* The place a slice bound denotes.
Bound(i) == IF i >= 0 THEN i ELSE IF N + i < 0 THEN 0 ELSE N + i

\* A stop stands at place p, and ends before place to.
StopAt(stop, p, to) ==
    /\ p + Len(stop) <= to
    /\ \A i \in DOMAIN stop : text[p + i] = stop[i]

\* str.rfind of one stop.
RFind(stop, from, to) ==
    Max({-1} \cup {p \in Places(Bound(from), Bound(to)) :
                    p + Len(stop) <= N /\ StopAt(stop, p, Bound(to))})

\* The last stop of the first kind that there is in the window, or -1.
Boundary(from, to) ==
    LET zh == RFind(Stops[1], from, to)
        en == RFind(Stops[2], from, to)
        nl == RFind(Stops[3], from, to)
    IN  IF zh # -1 THEN zh ELSE IF en # -1 THEN en ELSE nl

\* Where a chunk that begins at from ends: behind the first character of the
\* stop, unless the text ends or the stop is not behind the window's start.
End(from) ==
    LET b == Boundary(from, from + Size)
    IN  IF from + Size < N /\ b > from THEN b + 1 ELSE from + Size

Slice(from, to) == Places(Bound(from), Bound(to))

\* str.strip: whitespace is taken off at both ends.
Strip(places) ==
    {p \in places : /\ \E q \in places : q <= p /\ text[q + 1] \notin White
                    /\ \E q \in places : p <= q /\ text[q + 1] \notin White}

\* The window at from is cut within its first Overlap places.
CutWithinOverlap(from) ==
    LET b == Boundary(from, from + Size)
    IN  from + Size < N /\ from < b /\ b < from + Overlap

CutInit ==
    /\ text = << >>
    /\ start = 0
    /\ last = {}
    /\ covered = {}
    /\ early = FALSE
    /\ pc = "idle"

\* chunk_text is called.
Call ==
    /\ pc = "idle"
    /\ text' \in Texts
    /\ pc' = IF Len(text') <= Size THEN "short" ELSE "cutting"
    /\ UNCHANGED <<start, last, covered, early>>

\* A text that fits is one chunk, as it is; one of whitespace is none.
WholeText ==
    /\ pc = "short"
    /\ last' = IF Strip(Places(0, N)) = {} THEN {} ELSE Places(0, N)
    /\ covered' = last'
    /\ pc' = "done"
    /\ UNCHANGED <<text, start, early>>

\* Faulty variant: consecutive chunks do not overlap, and leave a place out.
CutApart ==
    /\ pc = "cutting"
    /\ start < N
    /\ \E to \in {End(start)} :
          /\ last' = Strip(Slice(start, to))
          /\ covered' = covered \cup Strip(Slice(start, to))
          /\ start' = to + 1
    /\ UNCHANGED <<text, pc, early>>

\* Faulty variant: after a short chunk the loop stays where it is.
CutStays ==
    /\ pc = "cutting"
    /\ start < N
    /\ \E to \in {End(start)} :
          /\ last' = Strip(Slice(start, to))
          /\ covered' = covered \cup Strip(Slice(start, to))
          /\ start' = IF to = start + Size THEN to - Overlap ELSE start
    /\ UNCHANGED <<text, pc, early>>

\* One turn: a chunk is cut off and stripped, an empty one not kept, and the
\* next begins Overlap before the place where this was cut.
Cut ==
    /\ pc = "cutting"
    /\ start < N
    /\ \E to \in {End(start)} :
          /\ last' = IF Strip(Slice(start, to)) = {} THEN last ELSE Strip(Slice(start, to))
          /\ covered' = covered \cup Strip(Slice(start, to))
          /\ start' = to - Overlap
    /\ early' = (early \/ CutWithinOverlap(start))
    /\ UNCHANGED <<text, pc>>

Finish ==
    /\ pc = "cutting"
    /\ start >= N
    /\ pc' = "done"
    /\ UNCHANGED <<text, start, last, covered, early>>

\* What runs by itself once it is called.
CutOn == WholeText \/ Cut \/ Finish

CutNext == Call \/ CutOn

CutSpec == CutInit /\ [][CutNext]_cutVars

----------------------------------------------------------------------------
\* Properties.

\* Types; the loop never looks further back than its overlap allows, and steps
\* past the end of the text by less than a chunk without its overlap.
CutTypeOK ==
    /\ text \in Seq(Characters)
    /\ start \in -Overlap .. N + Size - Overlap - 1
    /\ covered \subseteq Places(0, N)
    /\ last \subseteq covered
    /\ pc \in {"idle", "short", "cutting", "done"}
    /\ early \in BOOLEAN

\* Every place from one to another that is not whitespace is in some chunk.
InChunks(from, to) == \A p \in Places(from, to) : text[p + 1] \in White \/ p \in covered

\* As long as no window is cut within its overlap, what the loop has passed is in
\* a chunk, up to whitespace, and in the end the whole text is.
PassedIsCovered ==
    pc \in {"cutting", "done"} /\ ~early => InChunks(0, IF pc = "done" THEN N ELSE start)

\* Among the places behind a stop that a chunk has without its overlap, another
\* stop of that kind ends, or the text does.
EvenlyStopped ==
    \A i \in DOMAIN Stops : \A p \in Places(0, N) : StopAt(Stops[i], p, N) =>
        LET to == p + 1 + Size - Overlap
        IN  to >= N \/ \E q \in Places(p + 1, to) : StopAt(Stops[i], q, to)

\* Before the first turn the loop stands at the beginning of the text and has
\* made no chunk; later it can be before it only if a window was cut within its
\* overlap.
NeverBefore ==
    /\ pc \in {"idle", "short"} => start = 0 /\ covered = {} /\ ~early
    /\ early \/ start >= 0

\* A window is cut within its overlap only in a text that has a stop which is
\* too far from the next, and with an overlap of two places or more.
EarlyIsUneven == early => Overlap >= 2 /\ ~EvenlyStopped

CutInv == CutTypeOK /\ PassedIsCovered /\ NeverBefore /\ EarlyIsUneven

\* A text without stops, and with an overlap of less than two places any text, is
\* in its chunks as a whole.
PlainIsWhole ==
    pc = "done" /\ (Overlap < 2 \/ \A i \in DOMAIN text : text[i] \in {"x", "blank"}) =>
        InChunks(0, N)

\* A text whose stops follow one another closely enough is cut to its end: no
\* cut behind a stop keeps the loop where it is.
EvenTextsEnd == (pc = "cutting" /\ EvenlyStopped) ~> (pc = "done")

\* What chunk_text says of itself, for any text: the chunks are returned.
CuttingEnds == (pc = "cutting") ~> (pc = "done")
=============================================================================
