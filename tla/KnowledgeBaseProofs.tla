------------------------- MODULE KnowledgeBaseProofs -------------------------
(***************************************************************************)
(* Proofs about KnowledgeBase for any documents, consoles, threads and     *)
(* queries, and any number of indexings.                                   *)
(***************************************************************************)
EXTENDS KnowledgeBase, SequenceTheorems, WellFoundedInduction, TLAPS

\* A set of numbers that is not empty has a least element.
LEMMA LeastExists ==
  ASSUME NEW S \in SUBSET Nat, S # {}
  PROVE  \E n \in S : \A m \in S : n <= m
  <1>1. PICK n \in S : \A m \in S : ~(<<m, n>> \in OpToRel(<, Nat))
    BY NatLessThanWellFounded, WFMin
  <1>2. \A m \in S : ~(m < n)
    BY <1>1 DEF OpToRel
  <1> QED
    BY <1>2

\* The parts of IInv: the indexing, the searching and the kept answers.
StoreInv ==
    /\ vectors \subseteq Chunk /\ runs \in 0..MaxRuns
    /\ job \in [Consoles -> Job] /\ contested \subseteq Docs
    /\ DocumentsHeld /\ WholeTexts

SearchInv == search \in [Searchers -> Search] /\ SearchesCurrent

RedisInv ==
    /\ redis \in [Queries -> Answer \union {NoAnswer}]
    /\ excused \subseteq Queries
    /\ StaleOnlyIfExcused

IndexesTyped == bm25 \in [Processes -> SUBSET Chunk]

LEMMA InvParts == IInv <=> StoreInv /\ SearchInv /\ RedisInv /\ IndexesTyped
  BY DEF IInv, TypeOK, StoreInv, SearchInv, RedisInv, IndexesTyped

-----------------------------------------------------------------------------
(* Documents and consoles *)

\* The document a console is at is one it has read.
LEMMA FirstOfTodo ==
  ASSUME NEW S \in SUBSET Docs, S # {}
  PROVE  Min(S) \in S /\ Min(S) \in Docs
  <1>1. \E x \in S : \A y \in S : x <= y
    BY DocsAssumption, LeastExists
  <1> QED
    BY <1>1 DEF Min

LEMMA JobShape ==
  ASSUME StoreInv, NEW k \in Consoles, job[k].step \in {"find", "delete", "add", "drop"}
  PROVE  job[k] \in Job /\ job[k].todo \in SUBSET Docs /\ Current(k) \in job[k].todo /\ Current(k) \in Docs
  <1>1. job[k] \in Job /\ job[k].todo \in SUBSET Docs /\ job[k].todo # {}
    BY DEF StoreInv, Job, DocumentsHeld, DocumentHeld
  <1> QED
    BY <1>1, FirstOfTodo DEF Current

\* The jobs after a step.
Finding(r, found, alone) == [r EXCEPT !.step = "delete", !.found = found, !.alone = alone]
Joined(r) == [r EXCEPT !.alone = FALSE]
Adding(r) == [r EXCEPT !.step = "add", !.found = {}]
Dropping(r) == [r EXCEPT !.step = "drop"]
Passing(r, todo, step) == [r EXCEPT !.todo = todo, !.step = step]

LEMMA FindingJob ==
  ASSUME NEW r \in Job, NEW found \in SUBSET Chunk, NEW alone \in BOOLEAN
  PROVE  LET new == Finding(r, found, alone) IN
         /\ new \in Job /\ new.step = "delete" /\ new.todo = r.todo /\ new.found = found /\ new.alone = alone
  BY DEF Job, Finding

LEMMA JoinedJob ==
  ASSUME NEW r \in Job
  PROVE  /\ Joined(r) \in Job /\ Joined(r).step = r.step /\ Joined(r).todo = r.todo
         /\ Joined(r).found = r.found /\ Joined(r).alone = FALSE
  BY DEF Job, Joined

LEMMA AddingJob ==
  ASSUME NEW r \in Job
  PROVE  /\ Adding(r) \in Job /\ Adding(r).step = "add" /\ Adding(r).todo = r.todo
         /\ Adding(r).alone = r.alone
  BY DEF Job, Adding

LEMMA DroppingJob ==
  ASSUME NEW r \in Job
  PROVE  /\ Dropping(r) \in Job /\ Dropping(r).step = "drop" /\ Dropping(r).todo = r.todo
         /\ Dropping(r).alone = r.alone
  BY DEF Job, Dropping

LEMMA PassingJob ==
  ASSUME NEW r \in Job, NEW todo \in SUBSET Docs, NEW step \in {"find", "done"}
  PROVE  /\ Passing(r, todo, step) \in Job /\ Passing(r, todo, step).step = step
         /\ Passing(r, todo, step).todo = todo
  BY DEF Job, Passing

\* A console that is at no document, or comes to none, leaves them to the others.
LEMMA LeavesDocuments ==
  ASSUME StoreInv, NEW k \in Consoles, job' \in [Consoles -> Job],
         \A j \in Consoles \ {k} : job'[j] = job[j],
         job'[k].step \in {"off", "find", "done"}, job'[k].step = "find" => job'[k].todo # {},
         UNCHANGED <<vectors, runs, contested>>
  PROVE  StoreInv'
  <1>1. ~Holding(k)' /\ DocumentHeld(k)'
    BY DEF Holding, DocumentHeld
  <1>2. \A j \in Consoles \ {k} : Current(j)' = Current(j) /\ (Holding(j)' <=> Holding(j))
    BY DEF Current, Holding
  <1>3. ASSUME NEW j \in Consoles \ {k}
        PROVE  DocumentHeld(j)'
    <2>1. Rivals(j, Current(j))' \subseteq Rivals(j, Current(j))
      BY <1>1, <1>2 DEF Rivals
    <2>2. DocumentHeld(j) /\ job'[j] = job[j] /\ Current(j)' = Current(j) /\ (Holding(j)' <=> Holding(j))
      BY <1>2 DEF StoreInv, DocumentsHeld
    <2> QED
      BY <2>1, <2>2 DEF DocumentHeld
  <1>4. DocumentsHeld'
    BY <1>1, <1>3 DEF DocumentsHeld
  <1> QED
    BY <1>4 DEF StoreInv, WholeTexts

\* A step of a console at its document leaves the other documents, and who is at
\* this one too holds it contested.
LEMMA StaysAtDocument ==
  ASSUME StoreInv, NEW k \in Consoles, Holding(k), job' \in [Consoles -> Job],
         \A j \in Consoles \ {k} : job'[j] = job[j],
         Holding(k)', job'[k].todo = job[k].todo, job'[k].alone = job[k].alone,
         \A e \in Docs \ {Current(k)} : Of(vectors', e) = Of(vectors, e),
         contested \ {Current(k)} \subseteq contested',
         ~job[k].alone => contested' = contested
  PROVE  /\ \A j \in Consoles \ {k} : DocumentHeld(j)'
         /\ Current(k)' = Current(k) /\ Rivals(k, Current(k))' = Rivals(k, Current(k))
  <1>1. \A j \in Consoles : Current(j)' = Current(j) /\ (Holding(j)' <=> Holding(j))
    BY DEF Current, Holding
  <1>2. \A j \in Consoles : Rivals(j, Current(j))' = Rivals(j, Current(j))
    BY <1>1 DEF Rivals
  <1>3. ASSUME NEW j \in Consoles \ {k}
        PROVE  DocumentHeld(j)'
    <2>1. DocumentHeld(j) /\ DocumentHeld(k) /\ job'[j] = job[j]
      BY DEF StoreInv, DocumentsHeld
    <2>2. CASE Holding(j) /\ Current(j) = Current(k)
      <3>1. j \in Rivals(k, Current(k)) /\ k \in Rivals(j, Current(j))
        BY <2>2 DEF Rivals
      <3>2. ~job[k].alone /\ ~job[j].alone
        BY <2>1, <2>2, <3>1 DEF DocumentHeld
      <3> QED
        BY <1>1, <1>2, <2>1, <2>2, <3>2 DEF DocumentHeld
    <2>3. CASE Holding(j) /\ Current(j) # Current(k)
      <3>1. Current(j) \in Docs
        BY <2>3, JobShape DEF Holding
      <3>2. Of(vectors', Current(j)) = Of(vectors, Current(j))
        BY <2>3, <3>1
      <3>3. Current(j) \in contested => Current(j) \in contested'
        BY <2>3
      <3> QED
        BY <1>1, <1>2, <2>1, <3>2, <3>3 DEF DocumentHeld
    <2>4. CASE ~Holding(j)
      BY <1>1, <2>1, <2>4 DEF DocumentHeld, Holding
    <2> QED
      BY <2>2, <2>3, <2>4
  <1> QED
    BY <1>1, <1>2, <1>3

-----------------------------------------------------------------------------
(* One lemma for each step of an indexing *)

LEMMA StoreStartConsole ==
  ASSUME StoreInv, NEW k \in Consoles, StartConsole(k)
  PROVE  StoreInv'
  <1>1. job[k] \in Job
    BY DEF StoreInv
  <1>2. PICK readable \in SUBSET Docs :
          job' = [job EXCEPT ![k] = Passing(job[k], readable, IF readable = {} THEN "done" ELSE "find")]
    <2>1. PICK readable \in SUBSET Docs :
            job' = [job EXCEPT ![k].step = IF readable = {} THEN "done" ELSE "find", ![k].todo = readable]
      BY DEF StartConsole, Directories
    <2> QED
      BY <2>1 DEF Passing
  <1> DEFINE step == IF readable = {} THEN "done" ELSE "find"
             r == Passing(job[k], readable, step)
  <1>3. /\ r \in Job /\ r.step \in {"find", "done"} /\ r.todo = readable
        /\ r.step = "find" => readable # {}
    <2>1. step \in {"find", "done"} /\ (step = "find" => readable # {})
      OBVIOUS
    <2> HIDE DEF step
    <2> QED
      BY <1>1, <2>1, PassingJob
  <1> HIDE DEF r
  <1>4. /\ job' \in [Consoles -> Job] /\ job'[k] = r
        /\ \A j \in Consoles \ {k} : job'[j] = job[j]
    BY <1>2, <1>3 DEF StoreInv, r
  <1>5. UNCHANGED <<vectors, runs, contested>>
    BY DEF StartConsole, store
  <1> QED
    BY <1>3, <1>4, <1>5, LeavesDocuments

LEMMA StoreEndDocument ==
  ASSUME StoreInv, NEW k \in Consoles, EndDocument(k)
  PROVE  StoreInv'
  <1> DEFINE rest == job[k].todo \ {Current(k)}
             step == IF rest = {} THEN "done" ELSE "find"
             r == Passing(job[k], rest, step)
  <1>1. job[k] \in Job /\ job[k].todo \in SUBSET Docs
    BY JobShape DEF EndDocument
  <1>2. job' = [job EXCEPT ![k] = r]
    BY DEF EndDocument, Passing
  <1>3. /\ r \in Job /\ r.step \in {"find", "done"} /\ r.todo = rest
        /\ r.step = "find" => rest # {}
    <2>1. step \in {"find", "done"} /\ (step = "find" => rest # {}) /\ rest \in SUBSET Docs
      BY <1>1
    <2> HIDE DEF step, rest
    <2> QED
      BY <1>1, <2>1, PassingJob
  <1> HIDE DEF r, rest
  <1>4. /\ job' \in [Consoles -> Job] /\ job'[k] = r
        /\ \A j \in Consoles \ {k} : job'[j] = job[j]
    BY <1>2, <1>3 DEF StoreInv
  <1>5. UNCHANGED <<vectors, runs, contested>>
    BY DEF EndDocument, store
  <1> QED
    BY <1>3, <1>4, <1>5, LeavesDocuments

LEMMA StoreStopConsole ==
  ASSUME StoreInv, NEW k \in Consoles, StopConsole(k)
  PROVE  StoreInv'
  <1>1. /\ job' = [job EXCEPT ![k] = Off] /\ UNCHANGED <<vectors, runs, contested>>
    BY DEF StopConsole, store
  <1>2. Off \in Job /\ Off.step = "off"
    BY DEF Off, Job
  <1>3. /\ job' \in [Consoles -> Job] /\ job'[k] = Off
        /\ \A j \in Consoles \ {k} : job'[j] = job[j]
    BY <1>1, <1>2 DEF StoreInv
  <1> QED
    BY <1>1, <1>2, <1>3, LeavesDocuments

\* Whoever comes to a document that is taken makes it contested.
LEMMA StoreFindChunks ==
  ASSUME StoreInv, NEW k \in Consoles, FindChunks(k)
  PROVE  StoreInv'
  <1> DEFINE d == Current(k)
             alone == Rivals(k, d) = {}
             mine == Of(vectors, d)
  <1>1. /\ job[k].step = "find" /\ job[k] \in Job /\ d \in Docs
        /\ UNCHANGED <<vectors, runs>>
        /\ contested' = IF alone THEN contested ELSE contested \union {d}
    BY JobShape DEF FindChunks, store
  <1>2. job' = [j \in Consoles |->
                  IF j = k THEN Finding(job[k], mine, alone)
                  ELSE IF j \in Rivals(k, d) THEN Joined(job[j]) ELSE job[j]]
    BY DEF FindChunks, Finding, Joined
  <1>3. mine \in SUBSET Chunk /\ alone \in BOOLEAN /\ mine \subseteq Of(Chunk, d)
    BY DEF StoreInv, Of
  <1>4. Rivals(k, d) \subseteq Consoles \ {k} /\ \A j \in Rivals(k, d) : Holding(j) /\ Current(j) = d
    BY DEF Rivals
  <1>5. \A j \in Consoles : job[j] \in Job /\ DocumentHeld(j)
    BY DEF StoreInv, DocumentsHeld
  <1> HIDE DEF d, mine
  <1>6. /\ job' \in [Consoles -> Job]
        /\ job'[k].step = "delete" /\ job'[k].todo = job[k].todo /\ job'[k].found = mine /\ job'[k].alone = alone
        /\ \A j \in Rivals(k, d) : /\ job'[j].step = job[j].step /\ job'[j].todo = job[j].todo
                                   /\ job'[j].found = job[j].found /\ job'[j].alone = FALSE
        /\ \A j \in (Consoles \ {k}) \ Rivals(k, d) : job'[j] = job[j]
    <2> HIDE DEF alone
    <2>1. /\ Finding(job[k], mine, alone) \in Job /\ Finding(job[k], mine, alone).step = "delete"
          /\ Finding(job[k], mine, alone).todo = job[k].todo
          /\ Finding(job[k], mine, alone).found = mine /\ Finding(job[k], mine, alone).alone = alone
      BY <1>1, <1>3, FindingJob
    <2>6. \A j \in Consoles : /\ Joined(job[j]) \in Job /\ Joined(job[j]).step = job[j].step
                              /\ Joined(job[j]).todo = job[j].todo
                              /\ Joined(job[j]).found = job[j].found /\ Joined(job[j]).alone = FALSE
      BY <1>5, JoinedJob
    <2>2. job' \in [Consoles -> Job]
      BY <1>2, <1>5, <2>1, <2>6
    <2>3. job'[k] = Finding(job[k], mine, alone)
      BY <1>2
    <2>4. \A j \in Rivals(k, d) : job'[j] = Joined(job[j])
      BY <1>2, <1>4
    <2>5. \A j \in (Consoles \ {k}) \ Rivals(k, d) : job'[j] = job[j]
      BY <1>2
    <2> QED
      BY <1>4, <2>1, <2>2, <2>3, <2>4, <2>5, <2>6
  <1>7. /\ \A j \in Consoles : Current(j)' = Current(j)
        /\ Holding(k)' /\ Current(k)' = d
        /\ \A j \in Consoles \ {k} : Holding(j)' <=> Holding(j)
    BY <1>6 DEF Current, Holding, d
  <1>8. Rivals(k, d)' = Rivals(k, d)
    BY <1>7 DEF Rivals, d
  <1>9. DocumentHeld(k)'
    <2>1. job'[k].todo # {} /\ mine = Of(vectors', Current(k)') /\ Current(k)' = d
      BY <1>1, <1>5, <1>6, <1>7 DEF DocumentHeld, mine, d
    <2>2. IF job'[k].alone THEN Rivals(k, Current(k))' = {} ELSE Current(k)' \in contested'
      BY <1>1, <1>6, <1>7, <1>8 DEF d
    <2> QED
      BY <1>3, <1>6, <2>1, <2>2 DEF DocumentHeld
  <1>10. ASSUME NEW j \in Consoles \ {k}
         PROVE  DocumentHeld(j)'
    <2>1. CASE j \in Rivals(k, d)
      <3>1. Holding(j) /\ Current(j)' = d /\ d \in contested'
        BY <1>1, <1>4, <1>7, <2>1
      <3> QED
        BY <1>1, <1>5, <1>6, <1>7, <2>1, <3>1 DEF DocumentHeld
    <2>2. CASE j \notin Rivals(k, d)
      <3>1. job'[j] = job[j] /\ Current(j)' = Current(j) /\ (Holding(j)' <=> Holding(j)) /\ DocumentHeld(j)
        BY <1>5, <1>6, <1>7, <2>2
      <3>2. Holding(j) => Current(j) # d
        BY <2>2 DEF Rivals
      <3>3. Holding(j) /\ Rivals(j, Current(j)) = {} => Rivals(j, Current(j))' = {}
        BY <1>7, <3>2 DEF Rivals
      <3>4. contested \subseteq contested' /\ vectors' = vectors
        BY <1>1
      <3> QED
        BY <3>1, <3>3, <3>4 DEF DocumentHeld
    <2> QED
      BY <2>1, <2>2
  <1>11. DocumentsHeld'
    BY <1>9, <1>10 DEF DocumentsHeld
  <1>12. WholeTexts' /\ contested' \subseteq Docs
    BY <1>1 DEF StoreInv, WholeTexts
  <1> QED
    BY <1>1, <1>6, <1>11, <1>12 DEF StoreInv

LEMMA StoreDeleteChunks ==
  ASSUME StoreInv, NEW k \in Consoles, DeleteChunks(k)
  PROVE  StoreInv'
  <1> DEFINE d == Current(k)
  <1>1. /\ job[k].step = "delete" /\ job[k] \in Job /\ d \in Docs /\ DocumentHeld(k)
        /\ job' = [job EXCEPT ![k] = Adding(job[k])]
        /\ vectors' = vectors \ job[k].found /\ UNCHANGED runs
        /\ contested' = IF job[k].alone THEN contested \ {d} ELSE contested
    BY JobShape DEF DeleteChunks, Adding, Remaining, StoreInv, DocumentsHeld
  <1>2. /\ job' \in [Consoles -> Job]
        /\ job'[k].step = "add" /\ job'[k].todo = job[k].todo /\ job'[k].alone = job[k].alone
        /\ \A j \in Consoles \ {k} : job'[j] = job[j]
    <2>1. /\ Adding(job[k]) \in Job /\ Adding(job[k]).step = "add" /\ Adding(job[k]).todo = job[k].todo
          /\ Adding(job[k]).alone = job[k].alone
      BY <1>1, AddingJob
    <2>2. job' \in [Consoles -> Job] /\ job'[k] = Adding(job[k]) /\ \A j \in Consoles \ {k} : job'[j] = job[j]
      BY <1>1, <2>1 DEF StoreInv
    <2> QED
      BY <2>1, <2>2
  <1>3. /\ \A e \in Docs \ {d} : Of(vectors', e) = Of(vectors, e)
        /\ job[k].alone => Of(vectors', d) = {}
    BY <1>1 DEF DocumentHeld, Of
  <1>4. Holding(k) /\ Holding(k)'
    BY <1>1, <1>2 DEF Holding
  <1>5. contested \ {d} \subseteq contested' /\ (~job[k].alone => contested' = contested)
    BY <1>1
  <1>6. /\ \A j \in Consoles \ {k} : DocumentHeld(j)'
        /\ Current(k)' = d /\ Rivals(k, d)' = Rivals(k, d)
    BY <1>2, <1>3, <1>4, <1>5, StaysAtDocument
  <1> HIDE DEF d
  <1>7. DocumentHeld(k)'
    <2>1. IF job[k].alone THEN Rivals(k, Current(k))' = {} ELSE Current(k)' \in contested'
      BY <1>1, <1>4, <1>5, <1>6 DEF DocumentHeld, d
    <2> QED
      BY <1>1, <1>2, <1>3, <1>6, <2>1, JobShape DEF DocumentHeld
  <1>8. WholeTexts'
    <2>1. ASSUME NEW e \in Docs \ contested'
          PROVE  Of(vectors', e) = {} \/ (Of(vectors', e) = Of(vectors, e) /\ e \notin contested)
      <3>1. CASE e # d
        BY <1>3, <1>5, <3>1
      <3>2. CASE e = d
        <4>1. job[k].alone
          BY <1>1, <1>4, <2>1, <3>2 DEF DocumentHeld, d
        <4> QED
          BY <1>3, <3>2, <4>1
      <3> QED
        BY <3>1, <3>2
    <2> QED
      BY <2>1 DEF StoreInv, WholeTexts
  <1> QED
    BY <1>1, <1>2, <1>6, <1>7, <1>8 DEF StoreInv, DocumentsHeld

LEMMA StoreAddChunks ==
  ASSUME StoreInv, NEW k \in Consoles, AddChunks(k)
  PROVE  StoreInv'
  <1> DEFINE d == Current(k)
             new == {[doc |-> d, run |-> runs + 1, part |-> i, by |-> k] : i \in 1..Parts}
  <1>1. /\ job[k].step = "add" /\ job[k] \in Job /\ d \in Docs /\ DocumentHeld(k)
        /\ job' = [job EXCEPT ![k] = Dropping(job[k])]
        /\ vectors' = vectors \union new /\ runs' = runs + 1 /\ runs < MaxRuns /\ UNCHANGED contested
    BY JobShape DEF AddChunks, Dropping, StoreInv, DocumentsHeld
  <1>2. /\ job' \in [Consoles -> Job]
        /\ job'[k].step = "drop" /\ job'[k].todo = job[k].todo /\ job'[k].alone = job[k].alone
        /\ \A j \in Consoles \ {k} : job'[j] = job[j]
    <2>1. /\ Dropping(job[k]) \in Job /\ Dropping(job[k]).step = "drop" /\ Dropping(job[k]).todo = job[k].todo
          /\ Dropping(job[k]).alone = job[k].alone
      BY <1>1, DroppingJob
    <2>2. job' \in [Consoles -> Job] /\ job'[k] = Dropping(job[k]) /\ \A j \in Consoles \ {k} : job'[j] = job[j]
      BY <1>1, <2>1 DEF StoreInv
    <2> QED
      BY <2>1, <2>2
  <1>3. runs + 1 \in 1..MaxRuns /\ runs + 1 \in 0..MaxRuns /\ Parts \in Nat \ {0}
    BY <1>1, BoundsAssumption DEF StoreInv
  <1>4. /\ new \subseteq Chunk /\ new # {}
        /\ \A c \in new : c.doc = d /\ c.run = runs + 1 /\ c.part \in 1..Parts
        /\ \A i \in 1..Parts : \E c \in new : c.part = i
    <2> HIDE DEF d
    <2>1. \A i \in 1..Parts : [doc |-> d, run |-> runs + 1, part |-> i, by |-> k] \in Chunk
      BY <1>1, <1>3 DEF Chunk
    <2>2. \A i \in 1..Parts : [doc |-> d, run |-> runs + 1, part |-> i, by |-> k] \in new
      OBVIOUS
    <2>3. \A c \in new : c.doc = d /\ c.run = runs + 1 /\ c.part \in 1..Parts
      OBVIOUS
    <2>4. 1 \in 1..Parts
      BY <1>3
    <2>5. \A i \in 1..Parts : \E c \in new : c.part = i
      <3> SUFFICES ASSUME NEW i \in 1..Parts
                   PROVE  \E c \in new : c.part = i
        OBVIOUS
      <3>1. [doc |-> d, run |-> runs + 1, part |-> i, by |-> k].part = i
        OBVIOUS
      <3> QED
        BY <2>2, <3>1
    <2> QED
      BY <2>1, <2>2, <2>3, <2>4, <2>5
  <1> HIDE DEF new
  <1>5. /\ \A e \in Docs \ {d} : Of(vectors', e) = Of(vectors, e)
        /\ job[k].alone => Of(vectors', d) = new
    BY <1>1, <1>4 DEF DocumentHeld, Of
  <1>6. Holding(k) /\ Holding(k)'
    BY <1>1, <1>2 DEF Holding
  <1>7. /\ \A j \in Consoles \ {k} : DocumentHeld(j)'
        /\ Current(k)' = d /\ Rivals(k, d)' = Rivals(k, d)
    BY <1>1, <1>2, <1>5, <1>6, StaysAtDocument
  <1> HIDE DEF d
  <1>8. DocumentHeld(k)'
    <2>1. IF job[k].alone THEN Rivals(k, Current(k))' = {} ELSE Current(k)' \in contested'
      BY <1>1, <1>6, <1>7 DEF DocumentHeld, d
    <2> QED
      BY <1>1, <1>2, <1>7, <2>1, JobShape DEF DocumentHeld
  <1>9. WholeTexts'
    <2>1. ASSUME NEW e \in Docs \ contested', Of(vectors', e) # {}
          PROVE  /\ \A b, c \in Of(vectors', e) : b.run = c.run
                 /\ {c.part : c \in Of(vectors', e)} = 1..Parts
      <3>1. CASE e # d
        <4>1. Of(vectors', e) = Of(vectors, e) /\ e \in Docs \ contested
          BY <1>1, <1>5, <3>1
        <4> QED
          BY <2>1, <4>1 DEF StoreInv, WholeTexts
      <3>2. CASE e = d
        <4>1. job[k].alone
          BY <1>1, <1>6, <2>1, <3>2 DEF DocumentHeld, d
        <4>2. Of(vectors', e) = new
          BY <1>5, <3>2, <4>1
        <4>3. {c.part : c \in new} = 1..Parts
          BY <1>4
        <4> QED
          BY <1>4, <4>2, <4>3
      <3> QED
        BY <3>1, <3>2
    <2> QED
      BY <2>1 DEF WholeTexts
  <1> QED
    BY <1>1, <1>2, <1>3, <1>4, <1>7, <1>8, <1>9 DEF StoreInv, DocumentsHeld

LEMMA StoreUnchanged ==
  ASSUME StoreInv, UNCHANGED <<vectors, runs, job, contested>>
  PROVE  StoreInv'
  <1>1. \A j : /\ Current(j)' = Current(j)
               /\ Holding(j)' <=> Holding(j)
    BY DEF Current, Holding
  <1>2. \A j : Rivals(j, Current(j))' = Rivals(j, Current(j))
    BY <1>1 DEF Rivals
  <1>3. \A j \in Consoles : DocumentHeld(j)'
    BY <1>1, <1>2 DEF StoreInv, DocumentsHeld, DocumentHeld
  <1> QED
    BY <1>3 DEF StoreInv, DocumentsHeld, WholeTexts

-----------------------------------------------------------------------------
(* The searches *)

Late(r) == [r EXCEPT !.late = TRUE]
Beginning(q) == [IdleSearch EXCEPT !.step = "recall", !.query = q, !.left = Variants(q)]
Recalling(r, chunks) == [r EXCEPT !.left = @ - 1, !.pool = @ \union chunks]

LEMMA IdleIsSearch == IdleSearch \in Search /\ IdleSearch.step = "idle"
  BY DEF IdleSearch, Search

LEMMA VariantsRange == \A q : Variants(q) \in {1, 2}
  BY DEF Variants

LEMMA LateSearch ==
  ASSUME NEW r \in Search
  PROVE  /\ Late(r) \in Search /\ Late(r).late /\ Late(r).step = r.step
         /\ Late(r).query = r.query /\ Late(r).left = r.left
  BY DEF Search, Late

\* Whatever changes in Chroma, who has recalled something is late, and who has
\* not has an empty pool.
LEMMA SearchOvertaken ==
  ASSUME SearchInv, search' = Overtaken
  PROVE  SearchInv'
  <1>1. search' = [t \in Searchers |->
                     IF search[t].step = "recall" /\ search[t].left < Variants(search[t].query)
                     THEN Late(search[t]) ELSE search[t]]
    BY DEF Overtaken, Late
  <1>2. \A t \in Searchers : Late(search[t]) \in Search
    BY LateSearch DEF SearchInv
  <1>3. search' \in [Searchers -> Search]
    BY <1>1, <1>2 DEF SearchInv
  <1>4. ASSUME NEW t \in Searchers, search'[t].step = "recall"
        PROVE  /\ search'[t].query \in Queries
               /\ search'[t].left <= Variants(search'[t].query)
               /\ ~search'[t].late =>
                     search'[t].pool = IF search'[t].left = Variants(search'[t].query) THEN {} ELSE RecalledBy(t)'
    <2> DEFINE over == search[t].step = "recall" /\ search[t].left < Variants(search[t].query)
    <2>1. CASE over
      <3>1. search'[t] = Late(search[t])
        BY <1>1, <2>1
      <3>2. /\ search'[t].late /\ search'[t].query = search[t].query /\ search'[t].left = search[t].left
            /\ search[t].step = "recall"
        BY <2>1, <3>1, LateSearch DEF SearchInv
      <3> QED
        BY <3>2 DEF SearchInv, SearchesCurrent
    <2>2. CASE ~over
      <3>1. search'[t] = search[t] /\ search[t].step = "recall"
        BY <1>1, <1>4, <2>2
      <3>2. /\ search[t].query \in Queries /\ search[t].left <= Variants(search[t].query)
            /\ search[t].left \in 0..2 /\ Variants(search[t].query) \in {1, 2}
        BY <3>1, VariantsRange DEF SearchInv, SearchesCurrent, Search
      <3>3. search[t].left = Variants(search[t].query)
        BY <2>2, <3>1, <3>2
      <3> QED
        BY <3>1, <3>2, <3>3 DEF SearchInv, SearchesCurrent
    <2> QED
      BY <2>1, <2>2
  <1> QED
    BY <1>3, <1>4 DEF SearchInv, SearchesCurrent

LEMMA SearchUnchanged ==
  ASSUME SearchInv, UNCHANGED <<vectors, search>>
  PROVE  SearchInv'
  <1>1. \A t \in Searchers : RecalledBy(t)' = RecalledBy(t)
    BY DEF RecalledBy
  <1> QED
    BY <1>1 DEF SearchInv, SearchesCurrent

\* A step of one search.
LEMMA SearchOne ==
  ASSUME SearchInv, NEW t \in Searchers, NEW r \in Search, search' = [search EXCEPT ![t] = r], UNCHANGED vectors,
         r.step = "recall" => /\ r.query \in Queries /\ r.left <= Variants(r.query)
                              /\ ~r.late => r.pool = IF r.left = Variants(r.query) THEN {}
                                                     ELSE {c \in vectors : c.doc \in Scope(r.query)}
  PROVE  SearchInv'
  <1>1. /\ search' \in [Searchers -> Search] /\ search'[t] = r
        /\ \A u \in Searchers \ {t} : search'[u] = search[u]
    BY DEF SearchInv
  <1>2. \A u \in Searchers \ {t} : RecalledBy(u)' = RecalledBy(u)
    BY <1>1 DEF RecalledBy
  <1>3. RecalledBy(t)' = {c \in vectors : c.doc \in Scope(r.query)}
    BY <1>1 DEF RecalledBy
  <1> QED
    BY <1>1, <1>2, <1>3 DEF SearchInv, SearchesCurrent

LEMMA SearchBegin ==
  ASSUME SearchInv, NEW t \in Searchers, NEW q \in Queries, BeginSearch(t, q)
  PROVE  SearchInv'
  <1> DEFINE r == Beginning(q)
  <1>1. search' = [search EXCEPT ![t] = r] /\ UNCHANGED vectors
    BY DEF BeginSearch, Beginning, store
  <1>2. Variants(q) \in 0..2 /\ Variants(q) \in Nat
    BY VariantsRange
  <1>3. /\ r \in Search /\ r.query = q /\ r.left = Variants(q) /\ r.pool = {}
    BY <1>2 DEF Beginning, IdleSearch, Search
  <1> HIDE DEF r
  <1>4. r.left <= Variants(r.query)
    BY <1>2, <1>3
  <1> QED
    BY <1>1, <1>3, <1>4, SearchOne

LEMMA RecallingSearch ==
  ASSUME NEW s \in Search, NEW chunks \in SUBSET Chunk, s.left > 0
  PROVE  LET r == Recalling(s, chunks) IN
         /\ r \in Search /\ r.step = s.step /\ r.query = s.query /\ r.late = s.late
         /\ r.left = s.left - 1 /\ r.pool = s.pool \union chunks
  <1>1. s.left \in 0..2 /\ s.left - 1 \in 0..2
    BY DEF Search
  <1> QED
    BY <1>1 DEF Search, Recalling

\* What a search that is not late recalls is all there is for it.
LEMMA SearchRecall ==
  ASSUME SearchInv, vectors \subseteq Chunk, NEW t \in Searchers, Recall(t)
  PROVE  SearchInv'
  <1> DEFINE chunks == RecalledBy(t)
             r == Recalling(search[t], chunks)
             n == search[t].left
             m == Variants(search[t].query)
  <1>1. /\ search[t].step = "recall" /\ n > 0 /\ UNCHANGED vectors /\ search' = [search EXCEPT ![t] = r]
    BY DEF Recall, Recalling, store
  <1>2. /\ search[t] \in Search /\ n \in 0..2 /\ search[t].query \in Queries /\ n <= m
        /\ ~search[t].late => search[t].pool = IF n = m THEN {} ELSE chunks
    BY <1>1 DEF SearchInv, SearchesCurrent, Search
  <1>3. m \in {1, 2} /\ chunks \in SUBSET Chunk /\ chunks = {c \in vectors : c.doc \in Scope(search[t].query)}
    BY VariantsRange DEF RecalledBy
  <1> HIDE DEF chunks
  <1>4. /\ r \in Search /\ r.step = search[t].step /\ r.query = search[t].query /\ r.late = search[t].late
        /\ r.left = n - 1 /\ r.pool = search[t].pool \union chunks
    BY <1>1, <1>2, <1>3, RecallingSearch
  <1>5. Variants(r.query) = m
    BY <1>4
  <1> HIDE DEF r, n, m
  <1>6. r.left <= Variants(r.query) /\ r.left # Variants(r.query)
    BY <1>2, <1>3, <1>4, <1>5
  <1>7. ~r.late => r.pool = {c \in vectors : c.doc \in Scope(r.query)}
    BY <1>2, <1>3, <1>4
  <1> QED
    BY <1>1, <1>2, <1>4, <1>6, <1>7, SearchOne

LEMMA SearchFill ==
  ASSUME SearchInv, NEW t \in Searchers, Fill(t)
  PROVE  SearchInv'
  <1>1. search' = [search EXCEPT ![t] = IdleSearch] /\ UNCHANGED vectors
    BY DEF Fill, store
  <1> QED
    BY <1>1, IdleIsSearch, SearchOne

LEMMA SearchRestart ==
  ASSUME SearchInv, RestartServer
  PROVE  SearchInv'
  <1>1. search' = [t \in Searchers |-> IdleSearch] /\ UNCHANGED vectors
    BY DEF RestartServer, store
  <1> QED
    BY <1>1, IdleIsSearch DEF SearchInv, SearchesCurrent

-----------------------------------------------------------------------------
(* The kept answers *)

Changing(k) == job[k].step \in {"add", "drop"}

\* While no console stops changing, and Chroma, Redis and the excuses stay.
LEMMA RedisSame ==
  ASSUME RedisInv, UNCHANGED <<vectors, redis, excused>>,
         \A k \in Consoles : Changing(k) => Changing(k)'
  PROVE  RedisInv'
  <1>1. \A q : Fresh(q)' = Fresh(q)
    BY DEF Fresh, Answers
  <1> QED
    BY <1>1 DEF RedisInv, StaleOnlyIfExcused, Changing

\* While some console changes Chroma, any kept answer may be stale.
LEMMA RedisChanging ==
  ASSUME RedisInv, UNCHANGED <<redis, excused>>, NEW k \in Consoles, Changing(k)'
  PROVE  RedisInv'
  BY DEF RedisInv, StaleOnlyIfExcused, Changing

LEMMA RedisExpire ==
  ASSUME RedisInv, NEW q \in Queries, Expire(q)
  PROVE  RedisInv'
  <1>1. /\ redis' = [redis EXCEPT ![q] = NoAnswer] /\ excused' = excused \ {q}
        /\ UNCHANGED <<vectors, job>>
    BY DEF Expire, store
  <1>2. \A p : Fresh(p)' = Fresh(p)
    BY <1>1 DEF Fresh, Answers
  <1>3. /\ redis' \in [Queries -> Answer \union {NoAnswer}] /\ redis'[q] = NoAnswer
        /\ \A p \in Queries \ {q} : redis'[p] = redis[p]
    BY <1>1 DEF RedisInv
  <1>4. StaleOnlyIfExcused'
    BY <1>1, <1>2, <1>3 DEF RedisInv, StaleOnlyIfExcused
  <1> QED
    BY <1>1, <1>3, <1>4 DEF RedisInv

\* What a search that is not late stores is fresh.
LEMMA RedisFill ==
  ASSUME RedisInv, SearchInv, NEW t \in Searchers, Fill(t)
  PROVE  RedisInv'
  <1> DEFINE q == search[t].query
  <1>1. /\ search[t].step = "recall" /\ search[t].left = 0 /\ UNCHANGED <<vectors, job>>
    BY DEF Fill, store
  <1>2. CASE UNCHANGED <<redis, excused>>
    BY <1>1, <1>2, RedisSame DEF Changing
  <1>3. CASE ~UNCHANGED <<redis, excused>>
    <2>1. PICK a \in Answers(search[t].pool, q) :
            /\ redis' = [redis EXCEPT ![q] = a]
            /\ excused' = IF search[t].late THEN excused \union {q} ELSE excused \ {q}
      BY <1>3 DEF Fill
    <2>2. a \in Answer
      BY DEF Answers
    <2>3. q \in Queries /\ (~search[t].late => search[t].pool = RecalledBy(t))
      <3>1. Variants(q) # 0
        BY VariantsRange
      <3> QED
        BY <1>1, <3>1 DEF SearchInv, SearchesCurrent
    <2>4. Answers(RecalledBy(t), q) = Answers(vectors, q)
      <3>1. \A d \in Scope(q) : Of(RecalledBy(t), d) = Of(vectors, d)
        BY DEF RecalledBy, Of
      <3> QED
        BY <3>1 DEF Answers
    <2>5. ~search[t].late => a \in Fresh(q)
      BY <2>1, <2>3, <2>4 DEF Fresh
    <2> HIDE DEF q
    <2>6. /\ redis' \in [Queries -> Answer \union {NoAnswer}] /\ redis'[q] = a
          /\ \A p \in Queries \ {q} : redis'[p] = redis[p]
      BY <2>1, <2>2, <2>3 DEF RedisInv
    <2>7. \A p : Fresh(p)' = Fresh(p)
      BY <1>1 DEF Fresh, Answers
    <2>8. excused' \subseteq Queries
      BY <2>1, <2>3 DEF RedisInv
    <2>9. StaleOnlyIfExcused'
      BY <1>1, <2>1, <2>3, <2>5, <2>6, <2>7 DEF RedisInv, StaleOnlyIfExcused
    <2> QED
      BY <2>6, <2>8, <2>9 DEF RedisInv
  <1> QED
    BY <1>2, <1>3

\* A console that ends a document drops or excuses every kept answer.
LEMMA RedisExcused ==
  ASSUME RedisInv, redis' \in [Queries -> Answer \union {NoAnswer}], excused' \subseteq Queries,
         \A q \in Queries : redis'[q] # NoAnswer => q \in excused'
  PROVE  RedisInv'
  BY DEF RedisInv, StaleOnlyIfExcused

LEMMA RedisEndDocument ==
  ASSUME RedisInv, NEW k \in Consoles, EndDocument(k)
  PROVE  RedisInv'
  <1>1. \/ redis' = [q \in Queries |-> NoAnswer] /\ excused' = {}
        \/ excused' = {q \in Queries : redis[q] # NoAnswer} /\ redis' = redis
    BY DEF EndDocument, DropAnswers
  <1> QED
    BY <1>1, RedisExcused DEF RedisInv

LEMMA RedisStopConsole ==
  ASSUME RedisInv, StoreInv, NEW k \in Consoles, StopConsole(k)
  PROVE  RedisInv'
  <1>1. /\ job' = [job EXCEPT ![k] = Off] /\ UNCHANGED <<vectors, redis>>
        /\ excused' = IF Changing(k) THEN excused \union {q \in Queries : redis[q] # NoAnswer} ELSE excused
    BY DEF StopConsole, store, Changing
  <1>2. CASE Changing(k)
    BY <1>1, <1>2, RedisExcused DEF RedisInv
  <1>3. CASE ~Changing(k)
    <2>1. \A j \in Consoles \ {k} : job'[j] = job[j]
      BY <1>1 DEF StoreInv
    <2>2. \A j \in Consoles : Changing(j) => Changing(j)'
      BY <1>3, <2>1 DEF Changing
    <2> QED
      BY <1>1, <1>3, <2>2, RedisSame
  <1> QED
    BY <1>2, <1>3

-----------------------------------------------------------------------------
(* The indexes *)

LEMMA NewChunks ==
  ASSUME StoreInv, NEW k \in Consoles, AddChunks(k)
  PROVE  {[doc |-> Current(k), run |-> runs + 1, part |-> i, by |-> k] : i \in 1..Parts} \subseteq Chunk
  <1>1. Current(k) \in Docs /\ runs + 1 \in 1..MaxRuns
    <2>1. Current(k) \in Docs /\ runs < MaxRuns /\ runs \in 0..MaxRuns
      BY JobShape DEF AddChunks, StoreInv
    <2> QED
      BY <2>1, BoundsAssumption
  <1> QED
    BY <1>1 DEF Chunk

LEMMA IndexesStep ==
  ASSUME IndexesTyped, StoreInv, [Next]_vars
  PROVE  IndexesTyped'
  <1>1. vectors \subseteq Chunk /\ Server \in Processes /\ Consoles \subseteq Processes
    BY DEF StoreInv, Processes
  <1>2. CASE \E k \in Consoles : StartConsole(k) \/ StopConsole(k)
    BY <1>1, <1>2 DEF StartConsole, StopConsole, StoredChunks, IndexesTyped
  <1>3. CASE RestartServer
    BY <1>1, <1>3 DEF RestartServer, StoredChunks, IndexesTyped
  <1>4. ASSUME NEW k \in Consoles, AddChunks(k)
        PROVE  IndexesTyped'
    <2> DEFINE new == {[doc |-> Current(k), run |-> runs + 1, part |-> i, by |-> k] : i \in 1..Parts}
    <2>1. bm25' = [bm25 EXCEPT ![k] = @ \union new]
      BY <1>4 DEF AddChunks, Indexed
    <2>2. new \subseteq Chunk
      BY <1>4, NewChunks
    <2> HIDE DEF new
    <2> QED
      BY <1>1, <2>1, <2>2 DEF IndexesTyped
  <1>5. CASE UNCHANGED bm25
    BY <1>5 DEF IndexesTyped
  <1>6. \/ UNCHANGED bm25 \/ RestartServer
        \/ \E k \in Consoles : StartConsole(k) \/ StopConsole(k) \/ AddChunks(k)
    BY DEF Next, Index, vars, BeginSearch, Recall, Fill, Expire, FindChunks, DeleteChunks, EndDocument
  <1> QED
    BY <1>2, <1>3, <1>4, <1>5, <1>6

-----------------------------------------------------------------------------
(* The steps *)

LEMMA InitIInv == Init => IInv
  <1> SUFFICES ASSUME Init
               PROVE  IInv
    OBVIOUS
  <1>1. /\ vectors = {} /\ runs = 0 /\ redis = [q \in Queries |-> NoAnswer] /\ excused = {} /\ contested = {}
        /\ bm25 = [p \in Processes |-> {}]
        /\ job = [k \in Consoles |-> Off] /\ search = [t \in Searchers |-> IdleSearch]
    BY DEF Init
  <1>2. /\ Off \in Job /\ Off.step = "off" /\ 0 \in 0..MaxRuns
    BY BoundsAssumption DEF Off, Job
  <1>3. StoreInv
    <2>1. job \in [Consoles -> Job] /\ \A k \in Consoles : job[k].step = "off"
      BY <1>1, <1>2
    <2>2. DocumentsHeld
      BY <2>1 DEF DocumentsHeld, DocumentHeld, Holding
    <2>3. WholeTexts
      BY <1>1 DEF WholeTexts, Of
    <2> QED
      BY <1>1, <1>2, <2>1, <2>2, <2>3 DEF StoreInv
  <1>4. SearchInv
    BY <1>1, IdleIsSearch DEF SearchInv, SearchesCurrent
  <1>5. RedisInv
    BY <1>1 DEF RedisInv, StaleOnlyIfExcused
  <1>6. IndexesTyped
    BY <1>1 DEF IndexesTyped
  <1> QED
    BY <1>3, <1>4, <1>5, <1>6, InvParts

\* A step of an indexing that changes Chroma.
LEMMA DeleteStep ==
  ASSUME StoreInv, SearchInv, RedisInv, NEW k \in Consoles, DeleteChunks(k)
  PROVE  StoreInv' /\ SearchInv' /\ RedisInv'
  <1>1. /\ job[k] \in Job
        /\ job' = [job EXCEPT ![k] = Adding(job[k])] /\ UNCHANGED <<redis, excused>>
        /\ vectors' = vectors \ job[k].found
        /\ search' = IF job[k].found \intersect vectors = {} THEN search ELSE Overtaken
    BY DEF DeleteChunks, Adding, Remaining, StoreInv
  <1>2. SearchInv'
    <2>1. CASE job[k].found \intersect vectors = {}
      <3>1. UNCHANGED <<vectors, search>>
        BY <1>1, <2>1
      <3> QED
        BY <3>1, SearchUnchanged
    <2>2. CASE job[k].found \intersect vectors # {}
      BY <1>1, <2>2, SearchOvertaken
    <2> QED
      BY <2>1, <2>2
  <1>3. Changing(k)'
    <2>1. Adding(job[k]).step = "add"
      BY <1>1, AddingJob
    <2> QED
      BY <1>1, <2>1 DEF Changing, StoreInv
  <1> QED
    BY <1>1, <1>2, <1>3, StoreDeleteChunks, RedisChanging

LEMMA AddStep ==
  ASSUME StoreInv, SearchInv, RedisInv, NEW k \in Consoles, AddChunks(k)
  PROVE  StoreInv' /\ SearchInv' /\ RedisInv'
  <1>1. /\ job[k] \in Job
        /\ job' = [job EXCEPT ![k] = Dropping(job[k])] /\ UNCHANGED <<redis, excused>>
        /\ search' = Overtaken
    BY DEF AddChunks, Dropping, StoreInv
  <1>2. Changing(k)'
    <2>1. Dropping(job[k]).step = "drop"
      BY <1>1, DroppingJob
    <2> QED
      BY <1>1, <2>1 DEF Changing, StoreInv
  <1> QED
    BY <1>1, <1>2, StoreAddChunks, SearchOvertaken, RedisChanging

\* A step that leaves Chroma, Redis and the searches alone.
LEMMA QuietStep ==
  ASSUME StoreInv, SearchInv, RedisInv, NEW k \in Consoles, StartConsole(k) \/ FindChunks(k)
  PROVE  StoreInv' /\ SearchInv' /\ RedisInv'
  <1>1. UNCHANGED <<vectors, redis, excused, search>>
    BY DEF StartConsole, FindChunks, store
  <1>2. \A j \in Consoles : Changing(j) => Changing(j)'
    <2>1. CASE StartConsole(k)
      <3>1. /\ \A j \in Consoles \ {k} : job'[j] = job[j]
            /\ ~Changing(k)
        BY <2>1 DEF StartConsole, Changing, StoreInv
      <3> QED
        BY <3>1 DEF Changing
    <2>2. CASE FindChunks(k)
      <3>1. ~Changing(k)
        BY <2>2 DEF FindChunks, Changing
      <3>2. ASSUME NEW j \in Consoles \ {k}
            PROVE  job'[j].step = job[j].step
        <4>1. job'[j] = Joined(job[j]) \/ job'[j] = job[j]
          BY <2>2 DEF FindChunks, Joined
        <4>2. job[j] \in Job
          BY DEF StoreInv
        <4>3. Joined(job[j]).step = job[j].step
          BY <4>2, JoinedJob
        <4> QED
          BY <4>1, <4>3
      <3> QED
        BY <3>1, <3>2 DEF Changing
    <2> QED
      BY <2>1, <2>2
  <1> QED
    BY <1>1, <1>2, StoreStartConsole, StoreFindChunks, SearchUnchanged, RedisSame

LEMMA NextIInv == IInv /\ [Next]_vars => IInv'
  <1> SUFFICES ASSUME IInv, [Next]_vars
               PROVE  IInv'
    OBVIOUS
  <1>1. StoreInv /\ SearchInv /\ RedisInv /\ IndexesTyped
    BY InvParts
  <1>2. IndexesTyped'
    BY <1>1, IndexesStep
  <1> DEFINE Rest == StoreInv' /\ SearchInv' /\ RedisInv'
  <1>3. ASSUME NEW t \in Searchers, NEW q \in Queries, BeginSearch(t, q)
        PROVE  Rest
    <2>1. UNCHANGED <<vectors, runs, job, contested, redis, excused>>
      BY <1>3 DEF BeginSearch, store
    <2> QED
      BY <1>1, <1>3, <2>1, StoreUnchanged, SearchBegin, RedisSame DEF Changing
  <1>4. ASSUME NEW t \in Searchers, Recall(t)
        PROVE  Rest
    <2>1. UNCHANGED <<vectors, runs, job, contested, redis, excused>> /\ vectors \subseteq Chunk
      BY <1>1, <1>4 DEF Recall, store, StoreInv
    <2> QED
      BY <1>1, <1>4, <2>1, StoreUnchanged, SearchRecall, RedisSame DEF Changing
  <1>5. ASSUME NEW t \in Searchers, Fill(t)
        PROVE  Rest
    <2>1. UNCHANGED <<vectors, runs, job, contested>>
      BY <1>5 DEF Fill, store
    <2> QED
      BY <1>1, <1>5, <2>1, StoreUnchanged, SearchFill, RedisFill
  <1>6. ASSUME NEW q \in Queries, Expire(q)
        PROVE  Rest
    <2>1. UNCHANGED <<vectors, runs, job, contested, search>>
      BY <1>6 DEF Expire, store
    <2> QED
      BY <1>1, <1>6, <2>1, StoreUnchanged, SearchUnchanged, RedisExpire
  <1>7. ASSUME NEW k \in Consoles, StartConsole(k) \/ FindChunks(k)
        PROVE  Rest
    BY <1>1, <1>7, QuietStep
  <1>8. ASSUME NEW k \in Consoles, DeleteChunks(k)
        PROVE  Rest
    BY <1>1, <1>8, DeleteStep
  <1>9. ASSUME NEW k \in Consoles, AddChunks(k)
        PROVE  Rest
    BY <1>1, <1>9, AddStep
  <1>10. ASSUME NEW k \in Consoles, EndDocument(k)
         PROVE  Rest
    <2>1. UNCHANGED <<vectors, search>>
      BY <1>10 DEF EndDocument, store
    <2> QED
      BY <1>1, <1>10, <2>1, StoreEndDocument, SearchUnchanged, RedisEndDocument
  <1>11. ASSUME NEW k \in Consoles, StopConsole(k)
         PROVE  Rest
    <2>1. UNCHANGED <<vectors, search>>
      BY <1>11 DEF StopConsole, store
    <2> QED
      BY <1>1, <1>11, <2>1, StoreStopConsole, SearchUnchanged, RedisStopConsole
  <1>12. ASSUME RestartServer
         PROVE  Rest
    <2>1. UNCHANGED <<vectors, runs, job, contested, redis, excused>>
      BY <1>12 DEF RestartServer, store
    <2> QED
      BY <1>1, <1>12, <2>1, StoreUnchanged, SearchRestart, RedisSame DEF Changing
  <1>13. ASSUME UNCHANGED vars
         PROVE  Rest
    <2>1. UNCHANGED <<vectors, runs, job, contested, redis, excused, search>>
      BY <1>13 DEF vars, store
    <2> QED
      BY <1>1, <2>1, StoreUnchanged, SearchUnchanged, RedisSame DEF Changing
  <1>14. Rest
    BY <1>3, <1>4, <1>5, <1>6, <1>7, <1>8, <1>9, <1>10, <1>11, <1>12, <1>13 DEF Next, Index
  <1>15. StoreInv' /\ SearchInv' /\ RedisInv' /\ IndexesTyped' => IInv'
    BY InvParts, PTL
  <1> QED
    BY <1>2, <1>14, <1>15

-----------------------------------------------------------------------------
(* The theorems *)

\* IInv holds at every point of every behaviour: of the indexings, killed
\* anywhere, that several consoles run at the same time (retriever.py), and of
\* the searches and the answers kept for them (cache.py).
THEOREM Invariance == Spec => []IInv
  BY InitIInv, NextIInv, PTL DEF Spec

\* Chroma, the indexes, the jobs, the searches and Redis hold what TypeOK says.
THEOREM TypeCorrect == Spec => []TypeOK
  <1>1. IInv => TypeOK
    BY DEF IInv
  <1> QED
    BY <1>1, Invariance, PTL

\* A document that no two consoles index at the same time is in Chroma whole, in
\* one version, or not at all, whichever console is killed between the delete
\* and the add of index_document.
THEOREM KeepsWholeTexts == Spec => []WholeTexts
  <1>1. IInv => WholeTexts
    BY DEF IInv
  <1> QED
    BY <1>1, Invariance, PTL

\* An answer Redis keeps is one Chroma still gives, or there is one of the named
\* excuses for its age.
THEOREM StalenessExcused == Spec => []StaleOnlyIfExcused
  <1>1. IInv => StaleOnlyIfExcused
    BY DEF IInv
  <1> QED
    BY <1>1, Invariance, PTL

=============================================================================
