---------------------------- MODULE TextWindows ----------------------------
(***************************************************************************)
(* How a text that is no list of questions and answers is cut: windows     *)
(* from its start on, each of which ends behind a separator if one is near *)
(* its end, and overlaps the one before.  A text is a sequence of marks,   *)
(* each of which stands for one character, except that a bold line is one  *)
(* mark: one of two questions, the first one padded inside its asterisks,  *)
(* or something else in bold.                                              *)
(***************************************************************************)
EXTENDS Integers, Sequences, SequencesExt, FiniteSetsExt

CONSTANTS
    chunk_size,     \* largest number of marks in a chunk
    chunk_overlap   \* marks a window may share with the one before

ASSUME ChunkAssumption == chunk_size \in Nat \ {0, 1} /\ chunk_overlap \in Nat

Newline == "n"
Question == [q1 |-> "q1", q2 |-> "q2", padded |-> "q1"]
Bold == DOMAIN Question \union {"bold"}
Blanks == {"n", " "}
Marks == Bold \union Blanks \union {"x", ".", ","}

-----------------------------------------------------------------------------
Visible(text) == {i \in DOMAIN text : text[i] \notin Blanks}

\* str.strip
Strip(text) ==
    IF Visible(text) = {} THEN <<>> ELSE SubSeq(text, Min(Visible(text)), Max(Visible(text)))

\* str.rfind: the offsets, from 0, at which the separator starts and which are
\* between two offsets.
Places(text, sep, first, end) ==
    {p \in first..(end - Len(sep)) : SubSeq(text, p + 1, p + Len(sep)) = sep}

\* Behind the last place of the first of the separators whose last place is
\* above low; or otherwise.
CutBehind(text, seps, first, end, low, otherwise) ==
    LET places(k) == Places(text, seps[k], first, end)
        found == {k \in DOMAIN seps : places(k) # {} /\ Max(places(k)) > low}
    IN  IF found = {} THEN otherwise ELSE Max(places(Min(found))) + Len(seps[Min(found)])

Separators == << <<Newline, Newline>>, <<Newline>>, <<".">>, <<",">>, <<" ">> >>

\* Where the window that starts at an offset ends.
WindowEnd(text, start) ==
    LET end == start + chunk_size
        lowest == Max({start, end - chunk_size \div 5})
    IN  IF end >= Len(text) THEN Len(text)
        ELSE CutBehind(text, Separators, lowest, end, start, end)

\* Mutant of NextStart: every window starts behind the overlap.
NextStartSkipping(start, best) == best + chunk_overlap

NextStart(start, best) == IF best - chunk_overlap > start THEN best - chunk_overlap ELSE best

\* The windows that give a chunk: not the blank ones, except for the last one.
ChunkWindows(text, windows) ==
    {w \in ToSet(windows) : w[2] = Len(text) \/ Strip(SubSeq(text, w[1] + 1, w[2])) # <<>>}

-----------------------------------------------------------------------------
(* Properties *)

\* A window that starts here leaves no gap behind another one, advances and
\* repeats no more of it than the overlap.
Follows(w, start) == start \in (w[1] + 1)..w[2] /\ w[2] - start <= chunk_overlap

\* The windows up to where the next one starts cover the text in order, and none
\* of them is too long.
Covered(text, start, windows) ==
    /\ windows = <<>> => start = 0
    /\ windows # <<>> => windows[1][1] = 0
    /\ \A k \in DOMAIN windows :
          /\ windows[k][1] < windows[k][2] /\ windows[k][2] <= Len(text)
          /\ windows[k][2] - windows[k][1] <= chunk_size
    /\ \A k \in 1..(Len(windows) - 1) : Follows(windows[k], windows[k + 1][1])
    /\ windows # <<>> =>
          LET last == windows[Len(windows)]
          IN  IF start < Len(text) THEN Follows(last, start) ELSE last[2] = Len(text)

\* When all windows are cut, whatever can be seen of the text is in a chunk.
NothingLost(text, start, windows) ==
    start >= Len(text) =>
        \A i \in Visible(text) : \E w \in ChunkWindows(text, windows) : i \in (w[1] + 1)..w[2]

=============================================================================
