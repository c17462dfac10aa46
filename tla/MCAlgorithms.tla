---------------------------- MODULE MCAlgorithms ----------------------------
(***************************************************************************)
(* Algorithms for TLC: the inputs of its run, and the one computation that *)
(* is recursive, the splitter, on texts put together mark by mark.         *)
(***************************************************************************)
EXTENDS Algorithms, FaqSplitter

CONSTANT MaxMarks       \* marks of a text that are not "x"

VARIABLE faq            \* the text, where its last mark was put, and how many were

\* Two sources, one with two chunks.
MCSource == [c1 |-> "p1", c2 |-> "p1", c3 |-> "p2"]
MCPools ==
    LET Recalled == UNION {[C -> {1, 3}] : C \in SUBSET DOMAIN MCSource}
        Far == {[c1 |-> -2, c3 |-> -1], [c2 |-> -1, c3 |-> 3]}
        Rankings == {<<>>, [c1 |-> 2], [c2 |-> 1, c3 |-> 2]}
        Keywordings == {<<>>, <<{"c1", "c3"}, {"c1"}>>}
    IN  {KeywordBonus(Hybrid(pool, bm25), keywords) :
            pool \in Recalled \union Far, bm25 \in Rankings, keywords \in Keywordings}

MCNames == { <<"a">>, <<"a", "b">>, <<"A", " ", "b">>, <<"b", "/", "c">>, <<"c", "d">> }
MCKeywords == MCNames \union { <<" ">>, <<"/">>, <<"a", "a", "b">>, <<"b", " ", "a">>,
                               <<"a", "b", "c", "d", "e">>, <<"c", "/", "A", "b">>, <<"e", "f">> }

MCRecords == [status : {"picked_up", "in_transit"}, paid_at : {NoTime, 1}, estimate : {NoTime},
              timeline : { <<>>, << [stage |-> 1, time |-> 2] >>, << [stage |-> 1, time |-> NoTime] >>,
                           << [stage |-> 1, time |-> 0], [stage |-> 2, time |-> 1] >> }]
MCOverrides == { <<>>, <<0, 0, 1, 4, 4>>, <<3, 4, 5, 6, 7>>, <<5, 4, 3, 2, 1>>, <<1, 2, 6, 9, 15>> }
MCClock == 0..16

\* Texts with up to two marks that are not "x".
MCTexts ==
    LET Plain(n) == [i \in 1..n |-> "x"]
        Marked(n) == {[Plain(n) EXCEPT ![i] = l, ![j] = m] :
                         i \in 1..n, j \in 1..n, l \in Marks \ Bold, m \in Marks \ Bold}
    IN  UNION {{Strip(text) : text \in Marked(n)} : n \in {1, 11, 16, 25}}

-----------------------------------------------------------------------------
\* Documents begin with an answer, a question, or two with a short answer.
Headers == { <<>>, <<"q1", "n">>, <<"padded", "n">>, <<"bold", "n">>,
             <<"q2", " ", "n", "x", "n", "n", "q1", "n">> }
Lengths == {3, 11, 16}

BeginFaq ==
    /\ sample.kind = "none"
    /\ sample' = [kind |-> "faq"]
    /\ \E h \in Headers, n \in Lengths :
          faq' = [text |-> h \o [i \in 1..n |-> "x"], last |-> Len(h), marks |-> 0]

\* A mark is put behind those put before.
PutMark ==
    /\ sample.kind = "faq"
    /\ faq.marks < MaxMarks
    /\ \E i \in (faq.last + 1)..Len(faq.text), m \in Marks \ {"x", "padded", "bold"} :
          faq' = [text |-> [faq.text EXCEPT ![i] = m], last |-> i, marks |-> faq.marks + 1]
    /\ UNCHANGED sample

MCInit == Init /\ faq = [text |-> <<>>, last |-> 0, marks |-> 0]
MCNext == (Next /\ UNCHANGED faq) \/ BeginFaq \/ PutMark
MCSpec == MCInit /\ [][MCNext]_<<sample, faq>>

\* _auto_split loses no text of questions and answers and puts no answer under
\* another question (AnswersKept).
TextsKept == sample.kind = "faq" => AnswersKept(Strip(faq.text))

=============================================================================
