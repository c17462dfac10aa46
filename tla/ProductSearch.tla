--------------------------- MODULE ProductSearch ---------------------------
(***************************************************************************)
(* How a product is found by the name a customer or the model gives it: a  *)
(* coarse SQL filter, a ranking by coverage, and the choice place_order    *)
(* makes.  A name is a sequence of characters, upper case of "a" is "A".   *)
(***************************************************************************)
EXTENDS Ascending, Sequences, SequencesExt, FiniteSetsExt

CONSTANTS
    Letters,        \* characters of names
    MatchLimit,     \* limit of search_products
    RowLimit        \* LIMIT of its queries

ASSUME LettersAssumption == "a" \in Letters
ASSUME LimitsAssumption == MatchLimit \in Nat \ {0} /\ RowLimit \in Nat \ {0}

NoProduct == 0
Lower(c) == IF c = "A" THEN "a" ELSE c
Folded(text) == [i \in DOMAIN text |-> Lower(text[i])]

NonBlank(text) == {i \in DOMAIN text : text[i] # " "}

\* _norm: no spaces, lower case.
Norm(text) == Folded(Picked(text, NonBlank(text)))

\* str.strip, of a text that is not blank.
Trimmed(text) == SubSeq(text, Min(NonBlank(text)), Max(NonBlank(text)))

Within(part, text) ==
    \E i \in 0..(Len(text) - Len(part)) : SubSeq(text, i + 1, i + Len(part)) = part

\* tokenize_keyword: the runs of characters between spaces and punctuation, or
\* the keyword if it is nothing else.
Tokens(keyword) ==
    LET cut(i) == i \notin DOMAIN keyword \/ keyword[i] \in {" ", "/"}
        run(i, j) == i <= j /\ cut(i - 1) /\ cut(j + 1) /\ \A k \in i..j : ~cut(k)
        runs == {b \in (DOMAIN keyword) \X (DOMAIN keyword) : run(b[1], b[2])}
    IN  IF runs = {} THEN {Trimmed(keyword)} ELSE {SubSeq(keyword, b[1], b[2]) : b \in runs}

\* The characters of the keyword that the name has, of all it has.
Common(kw, name) == Cardinality(ToSet(kw) \intersect ToSet(name))
Size(kw) == Cardinality(ToSet(kw))

\* Mutant of Hit: a name that has half of the characters is taken too.
HitByHalf(kw, name) ==
    kw # <<>> /\ name # <<>> /\ (Within(kw, name) \/ (Len(kw) >= 2 /\ 2 * Common(kw, name) >= Size(kw)))

\* Contained, or six in ten of its characters covered (not for a single one).
Hit(kw, name) ==
    /\ kw # <<>> /\ name # <<>>
    /\ Within(kw, name) \/ (Len(kw) >= 2 /\ 10 * Common(kw, name) >= 6 * Size(kw))

\* Is a product of the first name ranked before one of the second?  By
\* coverage, then by what the keyword fills of the name, then by id.
Before(kw, names, p, q) ==
    LET cp == Common(kw, names[p])  cq == Common(kw, names[q])
    IN  \/ cp > cq
        \/ cp = cq /\ Len(names[p]) < Len(names[q])
        \/ cp = cq /\ Len(names[p]) = Len(names[q]) /\ p < q

\* match_products, over the ids of the rows.
MatchProducts(keyword, rows, name, limit) ==
    LET kw == Norm(keyword)
        names == [p \in rows |-> Norm(name[p])]
        hits == {p \in rows : Hit(kw, names[p])}
        rank(p) == Cardinality({q \in hits : Before(kw, names, q, p)})
    IN  [k \in 1..Min({limit, Cardinality(hits)}) |-> CHOOSE p \in hits : rank(p) = k - 1]

\* The products on sale that contain a token of the keyword, or all of them if
\* none does.
Candidates(keyword, onSale, name) ==
    LET coarse == {p \in onSale : \E t \in Tokens(keyword) : Within(Folded(t), Folded(name[p]))}
    IN  IF Norm(keyword) = <<>> THEN {} ELSE IF coarse = {} THEN onSale ELSE coarse

\* search_products: the first of them by id are ranked.
SearchProducts(keyword, onSale, name) ==
    LET all == Candidates(keyword, onSale, name)
        rows == {p \in all : Cardinality({q \in all : q < p}) < RowLimit}
    IN  MatchProducts(keyword, rows, name, MatchLimit)

\* place_order: the candidate of exactly that name, else the best one.
Chosen(keyword, onSale, name) ==
    LET found == SearchProducts(keyword, onSale, name)
        exact == {k \in DOMAIN found : name[found[k]] = keyword}
    IN  IF found = <<>> THEN NoProduct
        ELSE IF exact = {} THEN found[1] ELSE found[Min(exact)]

-----------------------------------------------------------------------------
(* Properties *)

\* What is ordered for a name is on sale and shares six in ten of its
\* characters.  If a product bears the name, what is ordered has all of its
\* characters, and is the product that bears it, unless there are more
\* candidates than the query returns, or more products with all of the
\* characters than are ranked.
OrderedAsNamed(keyword, onSale, name) ==
    LET chosen == Chosen(keyword, onSale, name)
        share(p) == Common(Norm(keyword), Norm(name[p]))
        full == {p \in onSale : share(p) = Size(Norm(keyword))}
        bearers == {p \in onSale : name[p] = keyword}
    IN  /\ chosen # NoProduct =>
             chosen \in onSale /\ 10 * share(chosen) >= 6 * Size(Norm(keyword))
        /\ /\ Norm(keyword) # <<>> /\ bearers # {}
           /\ Cardinality(Candidates(keyword, onSale, name)) <= RowLimit
           => /\ chosen \in full
              /\ Cardinality(full) <= MatchLimit => chosen = Min(bearers)

=============================================================================
