---------------------------- MODULE FaqSplitter ----------------------------
(* How a text of questions and answers is cut into chunks. *)
EXTENDS TextWindows

NoQuestion == "none"

From(text, i) == SubSeq(text, i, Len(text))

-----------------------------------------------------------------------------
(* Long answers *)

\* Ends of the sentences that something visible follows.
SentenceEnds(text) ==
    {i \in 1..(Len(text) - 1) : text[i] \in {".", Newline} /\ text[i + 1] \notin Blanks}

\* Where a text longer than max is cut: behind its last sentence that fits and
\* does not fill it, else behind a separator of its second half.
SentenceCut(text, max) ==
    LET ends == {i \in SentenceEnds(text) : i <= max}
        cut == IF ends = {} THEN max ELSE Max(ends)
    IN  IF cut # max THEN cut
        ELSE CutBehind(text, <<<<Newline>>, <<",">>, <<" ">>>>, 0, max, max \div 2, max)

\* Mutant of Rest: the mark behind the cut is skipped, as if it were a blank.
RestBehindBlank(text, cut) == Strip(From(text, cut + 2))

Rest(text, cut) == Strip(From(text, cut + 1))

RECURSIVE SplitBySentences(_, _)
SplitBySentences(text, max) ==
    IF Len(text) <= max
    THEN IF text = <<>> THEN <<>> ELSE <<text>>
    ELSE LET cut == SentenceCut(text, max)
         IN  <<Strip(SubSeq(text, 1, cut))>> \o SplitBySentences(Rest(text, cut), max)

\* Each piece of a long answer is prefixed with the question; nothing if the
\* answer is not long.
SubChunks(question, answer) ==
    LET prefix == IF question = NoQuestion THEN <<Newline>> ELSE <<question, Newline>>
        pieces == SplitBySentences(answer, chunk_size)
    IN  IF Len(answer) <= chunk_size \/ Len(pieces) <= 1 THEN <<>>
        ELSE [k \in DOMAIN pieces |-> [question |-> question, text |-> prefix \o pieces[k]]]

-----------------------------------------------------------------------------
(* Questions and answers *)

\* splitlines: a newline ends a line and is not part of it.
RECURSIVE Lines(_)
Lines(text) ==
    LET ends == {i \in DOMAIN text : text[i] = Newline}
    IN  IF text = <<>> THEN <<>>
        ELSE IF ends = {} THEN <<text>>
        ELSE <<SubSeq(text, 1, Min(ends) - 1)>> \o Lines(From(text, Min(ends) + 1))

\* The question as the metadata of a chunk has it, without asterisks and padding.
Asks(line) ==
    IF \E m \in DOMAIN Question : Strip(line) = <<m>> THEN Question[Strip(line)[1]] ELSE NoQuestion

Joined(lines) == FoldLeft(LAMBDA text, line : text \o line \o <<Newline>>, <<>>, lines)

\* A chunk of every group of lines that is not blank, a question starting a
\* new group.
FaqSplit(text) ==
    LET lines == Lines(text)
        starts == {i \in DOMAIN lines : i = 1 \/ Asks(lines[i]) # NoQuestion}
        group(s) == SubSeq(lines, s, Min({i - 1 : i \in {j \in starts : j > s}} \union {Len(lines)}))
        chunk(s) == [question |-> Asks(lines[s]), text |-> Strip(Joined(group(s)))]
        chunks == [i \in DOMAIN lines |-> IF i \in starts THEN chunk(i) ELSE [text |-> <<>>]]
    IN  SelectSeq(chunks, LAMBDA c : c.text # <<>>)

\* The answer without its question line, unless the line is padded and so not
\* the one made of the metadata.
AnswerOf(c) ==
    IF c.question # NoQuestion /\ Head(c.text) = c.question THEN Strip(Tail(c.text)) ELSE c.text

\* Does a line consist of something in bold?
HasBoldLine(text) ==
    \E line \in ToSet(Lines(text)) : line # <<>> /\ Head(line) \in Bold /\ Strip(line) = <<Head(line)>>

\* _auto_split of a text with a bold line; others are cut into windows.
Split(text) ==
    LET faq == FaqSplit(text)
        cut(c) == IF Len(c.text) > chunk_size THEN SubChunks(c.question, AnswerOf(c)) ELSE <<>>
        kept(c) == IF cut(c) = <<>> THEN <<c>> ELSE cut(c)
    IN  FlattenSeq([k \in DOMAIN faq |-> kept(faq[k])])

-----------------------------------------------------------------------------
(* Properties *)

\* The line of a text that place i is in is one question, and nothing else.
QuestionLine(text, i) ==
    /\ text[i] \in DOMAIN Question
    /\ \A j \in Visible(text) \ {i} : \E k \in DOMAIN text : text[k] = Newline /\ (j < k) # (i < k)

\* The marks of a text that are no questions, each with the question above it.
Answered(text) ==
    LET above(i) == {j \in 1..i : QuestionLine(text, j)}
        told == [i \in DOMAIN text |->
                   <<text[i], IF above(i) = {} THEN NoQuestion ELSE Question[text[Max(above(i))]]>>]
    IN  SelectSeq(told, LAMBDA a : a[1] \notin DOMAIN Question \union Blanks)

\* The marks of a chunk, each with the question of the chunk.
Told(chunk) ==
    LET marks == SelectSeq(chunk.text, LAMBDA m : m \notin DOMAIN Question \union Blanks)
    IN  [k \in DOMAIN marks |-> <<marks[k], chunk.question>>]

\* Splitting questions and answers loses, repeats and reorders nothing, each
\* part of an answer carries the question it was written under, and none is
\* longer than chunk_size.
AnswersKept(text) ==
    LET chunks == Split(text) IN
    HasBoldLine(text) =>
        /\ FlattenSeq([k \in DOMAIN chunks |-> Told(chunks[k])]) = Answered(text)
        /\ \A c \in ToSet(chunks) : c.text # <<>> /\ Len(Strip(AnswerOf(c))) <= chunk_size

=============================================================================
