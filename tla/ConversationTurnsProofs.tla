----------------------- MODULE ConversationTurnsProofs -----------------------
(***************************************************************************)
(* Proofs about ConversationTurns for any requests, conversations and      *)
(* locks, and any size of the table.                                       *)
(***************************************************************************)
EXTENDS ConversationTurns, FiniteSetTheorems, SequenceTheorems, WellFoundedInduction, TLAPS

\* A set of numbers with a bound has a largest element.
LEMMA LargestExists ==
  ASSUME NEW S \in SUBSET Nat, S # {}, NEW b \in Nat, \A m \in S : m <= b
  PROVE  \E n \in S : \A m \in S : m <= n
  <1> DEFINE gaps == {b - m : m \in S}
  <1>1. gaps # {} /\ gaps \in SUBSET Nat
    <2>1. \A m \in S : b - m \in Nat
      OBVIOUS
    <2> QED
      BY <2>1
  <1>2. PICK g \in gaps : \A h \in gaps : ~(<<h, g>> \in OpToRel(<, Nat))
    BY <1>1, NatLessThanWellFounded, WFMin
  <1>3. PICK n \in S : \A m \in S : ~(b - m < b - n)
    BY <1>1, <1>2 DEF OpToRel
  <1> QED
    BY <1>3

\* A sequence without its i-th element: those before it stay where they are,
\* those after it move up by one.
LEMMA CutOut ==
  ASSUME NEW S, NEW s \in Seq(S), NEW i \in 1..Len(s)
  PROVE  LET cut == SubSeq(s, 1, i - 1) \o SubSeq(s, i + 1, Len(s))
         IN  /\ cut \in Seq(S)
             /\ Len(cut) = Len(s) - 1
             /\ \A j \in 1..(Len(s) - 1) : cut[j] = IF j < i THEN s[j] ELSE s[j + 1]
  <1> DEFINE front == SubSeq(s, 1, i - 1)
             back  == SubSeq(s, i + 1, Len(s))
  <1>1. /\ front \in Seq(S) /\ Len(front) = i - 1 /\ \A j \in 1..(i - 1) : front[j] = s[j]
        /\ back \in Seq(S) /\ Len(back) = Len(s) - i
        /\ \A j \in 1..(Len(s) - i) : back[j] = s[i + j]
    BY LenProperties, SubSeqProperties
  <1> HIDE DEF front, back
  <1>2. front \o back \in Seq(S) /\ Len(front \o back) = Len(s) - 1
    BY <1>1, LenProperties, ConcatProperties
  <1>3. ASSUME NEW j \in 1..(Len(s) - 1)
        PROVE  (front \o back)[j] = IF j < i THEN s[j] ELSE s[j + 1]
    <2>1. (front \o back)[j] = IF j < i THEN front[j] ELSE back[j - (i - 1)]
      BY <1>1, LenProperties, ConcatProperties
    <2>2. ~(j < i) => j - (i - 1) \in 1..(Len(s) - i) /\ i + (j - (i - 1)) = j + 1
      BY LenProperties
    <2> QED
      BY <1>1, <2>1, <2>2, LenProperties
  <1> QED
    BY <1>2, <1>3 DEF front, back

Message == [turn : Turns, role : {"user", "assistant"}, number : Nat \ {0}]

\* The parts of IInv: the locks, and the messages.
LocksInv == Locking /\ SameLock /\ HeldByOne /\ InLine /\ LinesOfWaiting /\ WokenIsFirst
MessagesInv == NumbersBounded /\ LatestIsAsked /\ QuestionStored /\ LateIsAnswer /\ AnswersPaired

-----------------------------------------------------------------------------
(* Numbers *)

LEMMA LargestNumber ==
  ASSUME TypeOK, NumbersBounded, NEW k \in Conversations
  PROVE  /\ NextNumber(k, "assistant") \in Nat
         /\ NextNumber(k, "assistant") <= Cardinality(messages[k])
         /\ Cardinality(messages[k]) \in Nat
         /\ \A m \in messages[k] : m.number <= NextNumber(k, "assistant")
         /\ messages[k] # {} => /\ NextNumber(k, "assistant") > 0
                               /\ \E m \in messages[k] : m.number = NextNumber(k, "assistant")
         /\ NextNumber(k, "user") = NextNumber(k, "assistant") + 1
  <1> DEFINE stored == {m.number : m \in messages[k]}
             last == IF stored = {} THEN 0 ELSE CHOOSE n \in stored : \A m \in stored : m <= n
  <1>1. /\ stored \in SUBSET (Nat \ {0})
        /\ \A n \in stored : n <= Cardinality(messages[k])
        /\ stored = {} <=> messages[k] = {}
    <2>1. \A m \in messages[k] : m.number \in Nat \ {0}
      BY DEF TypeOK
    <2> QED
      BY <2>1 DEF NumbersBounded
  <1>2. Cardinality(messages[k]) \in Nat
    BY FS_CardinalityType DEF NumbersBounded
  <1>3. last \in Nat /\ last <= Cardinality(messages[k]) /\ (\A n \in stored : n <= last)
        /\ (stored # {} => last \in stored)
    <2> HIDE DEF stored
    <2>1. CASE stored = {}
      BY <1>2, <2>1
    <2>2. CASE stored # {}
      <3>1. \E n \in stored : \A m \in stored : m <= n
        BY <1>1, <1>2, <2>2, LargestExists
      <3> QED
        BY <1>1, <2>2, <3>1
    <2> QED
      BY <2>1, <2>2
  <1>4. NextNumber(k, "assistant") = last /\ NextNumber(k, "user") = last + 1
    BY DEF NextNumber
  <1>5. \A m \in messages[k] : m.number \in stored
    OBVIOUS
  <1> HIDE DEF last
  <1> QED
    BY <1>1, <1>2, <1>3, <1>4, <1>5

\* What add_message leaves as it was, and what it adds.
LEMMA AddMessageEffect ==
  ASSUME TypeOK, NumbersBounded, NEW t \in Turns, NEW k \in Conversations,
         NEW role \in {"user", "assistant"}, AddMessage(t, k, role),
         role = "assistant" => messages[k] # {}
  PROVE  LET new == [turn |-> t, role |-> role, number |-> NextNumber(k, role)] IN
         /\ new \in Message
         /\ messages' \in [Conversations -> SUBSET Message]
         /\ messages'[k] = messages[k] \union {new}
         /\ \A j \in Conversations \ {k} : messages'[j] = messages[j]
         /\ \A m \in messages[k] : m.number \in Nat /\ m.number <= NextNumber(k, role)
         /\ role = "user" => \A m \in messages[k] : m.number < NextNumber(k, role)
         /\ NumbersBounded'
  <1> DEFINE number == NextNumber(k, role)
             new == [turn |-> t, role |-> role, number |-> number]
  <1>1. /\ number \in Nat \ {0}
        /\ number <= Cardinality(messages[k]) + 1
        /\ role = "assistant" => number <= Cardinality(messages[k])
        /\ \A m \in messages[k] : m.number \in Nat /\ m.number <= number
        /\ role = "user" => \A m \in messages[k] : m.number < number
    <2>1. \A m \in messages[k] : m.number \in Nat
      BY DEF TypeOK
    <2>2. CASE role = "user"
      BY <2>1, <2>2, LargestNumber
    <2>3. CASE role = "assistant"
      BY <2>1, <2>3, LargestNumber
    <2> QED
      BY <2>2, <2>3
  <1>2. new \in Message
    BY <1>1 DEF Message
  <1>3. /\ messages' = [messages EXCEPT ![k] = messages[k] \union {new}]
        /\ new.number = number
    BY DEF AddMessage
  <1> HIDE DEF new, number
  <1>4. /\ messages' \in [Conversations -> SUBSET Message]
        /\ messages'[k] = messages[k] \union {new}
        /\ \A j \in Conversations \ {k} : messages'[j] = messages[j]
    BY <1>2, <1>3 DEF TypeOK, Message
  <1>5. /\ IsFiniteSet(messages'[k])
        /\ Cardinality(messages[k]) \in Nat /\ Cardinality(messages'[k]) \in Nat
        /\ Cardinality(messages[k]) <= Cardinality(messages'[k])
        /\ new \notin messages[k] => Cardinality(messages'[k]) = Cardinality(messages[k]) + 1
    <2>1. IsFiniteSet(messages[k])
      BY DEF NumbersBounded
    <2>2. Cardinality(messages[k]) \in Nat
      BY <2>1, FS_CardinalityType
    <2>3. /\ IsFiniteSet(messages[k] \union {new})
          /\ Cardinality(messages[k] \union {new}) =
                IF new \in messages[k] THEN Cardinality(messages[k]) ELSE Cardinality(messages[k]) + 1
      BY <2>1, FS_AddElement
    <2> QED
      BY <1>4, <2>2, <2>3
  <1>6. role = "user" => new \notin messages[k]
    BY <1>1, <1>3
  <1>7. number <= Cardinality(messages'[k])
    BY <1>1, <1>5, <1>6
  <1>8. ASSUME NEW j \in Conversations
        PROVE  IsFiniteSet(messages'[j]) /\ \A m \in messages'[j] : m.number <= Cardinality(messages'[j])
    <2>1. CASE j = k
      <3>1. ASSUME NEW m \in messages'[k]
            PROVE  m.number <= Cardinality(messages'[k])
        <4>1. CASE m = new
          BY <1>3, <1>7, <4>1
        <4>2. CASE m \in messages[k]
          <5>1. m.number \in Nat /\ m.number <= Cardinality(messages[k])
            BY <1>1, <4>2 DEF NumbersBounded
          <5> QED
            BY <1>5, <5>1
        <4> QED
          BY <1>4, <4>1, <4>2
      <3> QED
        BY <1>5, <2>1, <3>1
    <2>2. CASE j # k
      BY <1>4, <2>2 DEF NumbersBounded
    <2> QED
      BY <2>1, <2>2
  <1>9. NumbersBounded'
    BY <1>8 DEF NumbersBounded
  <1> QED
    BY <1>1, <1>2, <1>4, <1>9 DEF new, number

-----------------------------------------------------------------------------
(* The stored messages *)

\* Nothing is stored, no turn begins to wait for its answer, no history shrinks,
\* and a thread that is left behind with an answer is that of a turn that asked.
LEMMA MessagesSame ==
  ASSUME TypeOK, MessagesInv, UNCHANGED <<messages, llmAvailable>>,
         torn \subseteq torn', overrun \subseteq overrun',
         \A u \in Turns : turn'[u].phase \in {"asked", "degraded"} => turn'[u] = turn[u],
         \A w \in late' \ late : /\ w.turn \in Turns
                                 /\ w.role = "assistant" => /\ turn[w.turn].phase = "asked"
                                                            /\ turn[w.turn].conversation = w.conversation
  PROVE  MessagesInv'
  <1>1. NumbersBounded' /\ LatestIsAsked'
    BY DEF MessagesInv, NumbersBounded, LatestIsAsked, Questions
  <1>2. QuestionStored'
    BY DEF MessagesInv, QuestionStored, Questions
  <1>3. AnswersPaired'
    BY DEF MessagesInv, AnswersPaired, Questions
  <1>4. LateIsAnswer'
    BY DEF MessagesInv, LateIsAnswer, QuestionStored, Questions
  <1> QED
    BY <1>1, <1>2, <1>3, <1>4 DEF MessagesInv

\* A question of t is stored.  Where turns are serialised, the other turns that
\* wait for their answers in this conversation are marked as overrun.
LEMMA MessagesAsk ==
  ASSUME TypeOK, MessagesInv, NEW t \in Turns, NEW k \in Conversations, AddMessage(t, k, "user"),
         UNCHANGED <<llmAvailable, torn>>, late' \subseteq late, overrun \subseteq overrun',
         \A u \in Turns : turn'[u] = turn[u] \/ (u = t /\ turn'[u].conversation = k),
         \A u \in Turns : /\ turn'[u] = turn[u] /\ turn[u].phase = "asked"
                          /\ k \notin torn /\ u \notin overrun'
                          => turn[u].conversation # k,
         \A u \in Turns : turn[u].phase # "new" => turn[u].conversation \in Conversations
  PROVE  MessagesInv'
  <1> DEFINE number == NextNumber(k, "user")
             new == [turn |-> t, role |-> "user", number |-> number]
  <1>1. /\ new \in Message /\ number \in Nat
        /\ messages'[k] = messages[k] \union {new}
        /\ \A j \in Conversations \ {k} : messages'[j] = messages[j]
        /\ \A m \in messages[k] : m.number \in Nat /\ m.number < number
        /\ NumbersBounded'
    BY AddMessageEffect DEF MessagesInv, Message
  <1>2. new.turn = t /\ new.role = "user" /\ new.number = number
    OBVIOUS
  <1> HIDE DEF new, number
  <1>3. /\ Questions(k)' = Questions(k) \union {new}
        /\ \A j \in Conversations \ {k} : Questions(j)' = Questions(j)
        /\ \A j \in Conversations : Questions(j) \subseteq Questions(j)'
    BY <1>1, <1>2 DEF Questions
  <1>4. \A m \in messages'[k] : m.number <= new.number
    BY <1>1, <1>2
  <1>5. ASSUME NEW u \in Turns, turn'[u].phase \in {"asked", "degraded"}
        PROVE  (\E q \in Questions(turn[u].conversation) :
                  /\ q.turn = u
                  /\ turn[u].phase = "asked" /\ turn[u].conversation \notin torn /\ u \notin overrun =>
                        \A m \in messages[turn[u].conversation] : m.number <= q.number)'
    <2>1. CASE turn'[u] # turn[u]
      BY <1>2, <1>3, <1>4, <2>1
    <2>2. CASE turn'[u] = turn[u]
      <3>1. turn[u].conversation \in Conversations
        BY <1>5, <2>2
      <3>2. PICK q \in Questions(turn[u].conversation) :
               /\ q.turn = u
               /\ turn[u].phase = "asked" /\ turn[u].conversation \notin torn /\ u \notin overrun =>
                     \A m \in messages[turn[u].conversation] : m.number <= q.number
        BY <1>5, <2>2 DEF MessagesInv, QuestionStored
      <3>3. q \in Questions(turn[u].conversation)'
        BY <1>3, <2>2, <3>1, <3>2
      <3>4. turn[u].phase = "asked" /\ turn[u].conversation \notin torn /\ u \notin overrun' =>
               messages'[turn[u].conversation] = messages[turn[u].conversation]
        BY <1>1, <2>2, <3>1
      <3> QED
        BY <2>2, <3>2, <3>3, <3>4
    <2> QED
      BY <2>1, <2>2
  <1>6. QuestionStored'
    BY <1>5 DEF QuestionStored
  <1>7. ASSUME NEW j \in Conversations
        PROVE  \A m, n \in Questions(j)' : m # n => m.number # n.number
    <2>1. CASE j = k
      <3>1. \A m \in Questions(k) : m.number # number
        BY <1>1 DEF Questions
      <3> QED
        BY <1>2, <1>3, <2>1, <3>1 DEF MessagesInv, AnswersPaired
    <2>2. CASE j # k
      BY <1>3, <2>2 DEF MessagesInv, AnswersPaired
    <2> QED
      BY <2>1, <2>2
  <1>8. ASSUME NEW j \in Conversations, llmAvailable, j \notin torn,
               NEW a \in (messages[j] \ Questions(j))', a.turn \notin overrun'
        PROVE  \E q \in Questions(j)' : q.turn = a.turn /\ q.number = a.number
    <2>1. a \in messages[j] \ Questions(j)
      BY <1>1, <1>3
    <2> QED
      BY <1>3, <1>8, <2>1 DEF MessagesInv, AnswersPaired
  <1>9. AnswersPaired'
    BY <1>7, <1>8 DEF AnswersPaired
  <1>10. LatestIsAsked'
    <2>1. \E q \in Questions(k)' : \A m \in messages'[k] : m.number <= q.number
      BY <1>3, <1>4
    <2> QED
      BY <1>1, <1>3, <2>1 DEF MessagesInv, LatestIsAsked
  <1>11. LateIsAnswer'
    <2>1. \A w \in late : w.conversation \in Conversations
      BY DEF TypeOK
    <2> QED
      BY <1>3, <2>1 DEF MessagesInv, LateIsAnswer
  <1> QED
    BY <1>1, <1>6, <1>9, <1>10, <1>11 DEF MessagesInv

\* An answer of t is stored: it has the number of the latest question, which is
\* its own where turns are serialised, unless t is marked as overrun.
LEMMA MessagesAnswer ==
  ASSUME TypeOK, MessagesInv, NEW t \in Turns, NEW k \in Conversations, AddMessage(t, k, "assistant"),
         messages[k] # {},
         llmAvailable /\ k \notin torn /\ t \notin overrun' =>
            \E q \in Questions(k) : q.turn = t /\ \A m \in messages[k] : m.number <= q.number,
         UNCHANGED <<llmAvailable, torn>>, late' \subseteq late, overrun \subseteq overrun',
         \A u \in Turns : turn'[u].phase \in {"asked", "degraded"} => turn'[u] = turn[u],
         \A u \in Turns : turn[u].phase # "new" => turn[u].conversation \in Conversations
  PROVE  MessagesInv' /\ messages' \in [Conversations -> SUBSET Message]
  <1> DEFINE number == NextNumber(k, "assistant")
             new == [turn |-> t, role |-> "assistant", number |-> number]
  <1>1. /\ new \in Message /\ number \in Nat
        /\ messages' \in [Conversations -> SUBSET Message]
        /\ messages'[k] = messages[k] \union {new}
        /\ \A j \in Conversations \ {k} : messages'[j] = messages[j]
        /\ \A m \in messages[k] : m.number \in Nat /\ m.number <= number
        /\ NumbersBounded'
    BY AddMessageEffect DEF MessagesInv, Message
  <1>2. \E m \in messages[k] : m.number = number
    BY LargestNumber DEF MessagesInv
  <1>3. new.turn = t /\ new.role = "assistant" /\ new.number = number
    OBVIOUS
  <1> HIDE DEF new, number
  <1>4. \A j \in Conversations : Questions(j)' = Questions(j)
    BY <1>1, <1>3 DEF Questions
  <1>5. ASSUME NEW j \in Conversations, NEW q, \A m \in messages[j] : m.number <= q.number
        PROVE  \A m \in messages'[j] : m.number <= q.number
    BY <1>1, <1>2, <1>3, <1>5
  <1>6. ASSUME NEW u \in Turns, turn'[u].phase \in {"asked", "degraded"}
        PROVE  (\E q \in Questions(turn[u].conversation) :
                  /\ q.turn = u
                  /\ turn[u].phase = "asked" /\ turn[u].conversation \notin torn /\ u \notin overrun =>
                        \A m \in messages[turn[u].conversation] : m.number <= q.number)'
    <2>1. turn'[u] = turn[u] /\ turn[u].conversation \in Conversations
      BY <1>6
    <2>2. PICK q \in Questions(turn[u].conversation) :
             /\ q.turn = u
             /\ turn[u].phase = "asked" /\ turn[u].conversation \notin torn /\ u \notin overrun =>
                   \A m \in messages[turn[u].conversation] : m.number <= q.number
      BY <1>6, <2>1 DEF MessagesInv, QuestionStored
    <2>3. turn[u].phase = "asked" /\ turn[u].conversation \notin torn /\ u \notin overrun' =>
             \A m \in messages'[turn[u].conversation] : m.number <= q.number
      BY <1>5, <2>1, <2>2
    <2> QED
      BY <1>4, <2>1, <2>2, <2>3
  <1>7. QuestionStored'
    BY <1>6 DEF QuestionStored
  <1>8. ASSUME k \notin torn, llmAvailable, t \notin overrun'
        PROVE  \E q \in Questions(k) : q.turn = t /\ q.number = number
    <2>1. PICK q \in Questions(k) : q.turn = t /\ \A m \in messages[k] : m.number <= q.number
      BY <1>8
    <2>2. q.number \in Nat /\ q.number <= number /\ number <= q.number
      BY <1>1, <1>2, <2>1 DEF Questions
    <2> QED
      BY <1>1, <2>1, <2>2
  <1>9. ASSUME NEW j \in Conversations, llmAvailable, j \notin torn,
               NEW a \in (messages[j] \ Questions(j))', a.turn \notin overrun'
        PROVE  \E q \in Questions(j)' : q.turn = a.turn /\ q.number = a.number
    <2>1. CASE j = k /\ a = new
      BY <1>3, <1>4, <1>8, <1>9, <2>1
    <2>2. CASE ~(j = k /\ a = new)
      <3>1. a \in messages[j] \ Questions(j)
        BY <1>1, <1>4, <1>9, <2>2
      <3> QED
        BY <1>4, <1>9, <3>1 DEF MessagesInv, AnswersPaired
    <2> QED
      BY <2>1, <2>2
  <1>10. AnswersPaired'
    BY <1>4, <1>9 DEF AnswersPaired, MessagesInv
  <1>11. LatestIsAsked'
    <2>1. ASSUME NEW j \in Conversations, messages'[j] # {}
          PROVE  \E q \in Questions(j)' : \A m \in messages'[j] : m.number <= q.number
      <3>1. messages[j] # {}
        BY <1>1, <2>1
      <3>2. PICK q \in Questions(j) : \A m \in messages[j] : m.number <= q.number
        BY <3>1 DEF MessagesInv, LatestIsAsked
      <3> QED
        BY <1>4, <1>5, <3>2
    <2> QED
      BY <2>1 DEF LatestIsAsked
  <1>12. LateIsAnswer'
    <2>1. \A w \in late : w.conversation \in Conversations
      BY DEF TypeOK
    <2> QED
      BY <1>4, <2>1 DEF MessagesInv, LateIsAnswer
  <1> QED
    BY <1>1, <1>7, <1>10, <1>11, <1>12 DEF MessagesInv

-----------------------------------------------------------------------------
(* The lines *)

LEMMA TurnKinds ==
  ASSUME TypeOK, NEW u \in Turns, turn[u].phase # "new"
  PROVE  /\ turn[u].phase \in {"waiting", "entered", "asked", "degraded", "done"}
         /\ turn[u].conversation \in Conversations
         /\ turn[u].lock \in LockIds \union {NoLock}
  BY DEF TypeOK, NotStarted

LEMMA PhaseType ==
  ASSUME TypeOK, NEW t \in Turns, turn[t].phase # "new", NEW p \in {"entered", "asked", "done"},
         turn' = [turn EXCEPT ![t].phase = p]
  PROVE  turn' \in [Turns -> {NotStarted} \union
            [phase : {"waiting", "entered", "asked", "degraded", "done"},
             conversation : Conversations, lock : LockIds \union {NoLock}]]
  <1> DEFINE Live == [phase : {"waiting", "entered", "asked", "degraded", "done"},
                      conversation : Conversations, lock : LockIds \union {NoLock}]
  <1>1. turn[t] \in Live /\ turn \in [Turns -> {NotStarted} \union Live]
    BY DEF TypeOK, NotStarted
  <1>2. [turn[t] EXCEPT !.phase = p] \in Live
    BY <1>1
  <1> HIDE DEF Live
  <1>3. turn' = [turn EXCEPT ![t] = [turn[t] EXCEPT !.phase = p]]
    OBVIOUS
  <1>4. turn' \in [Turns -> {NotStarted} \union Live]
    BY <1>1, <1>2, <1>3
  <1> QED
    BY <1>4 DEF Live

LEMMA LineShape ==
  ASSUME TypeOK, NEW l \in LockIds
  PROVE  /\ waiters[l] \in Seq(Turns)
         /\ Len(waiters[l]) \in Nat /\ DOMAIN waiters[l] = 1..Len(waiters[l])
         /\ \A i \in DOMAIN waiters[l] : waiters[l][i] \in Turns
         /\ waiters[l] = <<>> <=> Len(waiters[l]) = 0
  <1>1. waiters[l] \in Seq(Turns)
    BY DEF TypeOK
  <1> QED
    BY <1>1

Distinct(line) == \A i, j \in DOMAIN line : line[i] = line[j] => i = j

\* Who leaves a line leaves everybody else in it, and the first the first.
LEMMA WithoutOne ==
  ASSUME NEW line \in Seq(Turns), Distinct(line), NEW t \in Turns,
         \E p \in DOMAIN line : line[p] = t,
         NEW rest, rest = Without(line, t)
  PROVE  /\ rest \in Seq(Turns)
         /\ \A i \in DOMAIN rest : rest[i] # t /\ \E j \in DOMAIN line : rest[i] = line[j]
         /\ \A j \in DOMAIN line : line[j] # t => \E i \in DOMAIN rest : rest[i] = line[j]
         /\ Distinct(rest)
         /\ line[1] # t => rest # <<>> /\ rest[1] = line[1]
  <1>0. PICK p \in DOMAIN line : line[p] = t
    OBVIOUS
  <1>1. Len(line) \in Nat /\ DOMAIN line = 1..Len(line) /\ p \in 1..Len(line)
    OBVIOUS
  <1>2. p = CHOOSE i \in DOMAIN line : line[i] = t
    BY <1>0 DEF Distinct
  <1>3. rest = SubSeq(line, 1, p - 1) \o SubSeq(line, p + 1, Len(line))
    BY <1>2 DEF Without
  <1>4. /\ rest \in Seq(Turns) /\ Len(rest) = Len(line) - 1
        /\ \A j \in 1..(Len(line) - 1) : rest[j] = IF j < p THEN line[j] ELSE line[j + 1]
    <2> DEFINE cut == SubSeq(line, 1, p - 1) \o SubSeq(line, p + 1, Len(line))
    <2>1. /\ cut \in Seq(Turns) /\ Len(cut) = Len(line) - 1
          /\ \A j \in 1..(Len(line) - 1) : cut[j] = IF j < p THEN line[j] ELSE line[j + 1]
      <3>1. p \in 1..Len(line)
        BY <1>1
      <3> QED
        BY <3>1, CutOut
    <2>2. rest = cut
      BY <1>3
    <2> HIDE DEF cut
    <2> QED
      BY <2>1, <2>2
  <1>5. DOMAIN rest = 1..(Len(line) - 1)
    BY <1>1, <1>4
  <1>6. \A i \in DOMAIN rest : rest[i] # t /\ \E j \in DOMAIN line : rest[i] = line[j]
    <2>1. SUFFICES ASSUME NEW i \in 1..(Len(line) - 1)
                   PROVE  rest[i] # t /\ \E j \in DOMAIN line : rest[i] = line[j]
      BY <1>5
    <2>2. i \in DOMAIN line /\ i + 1 \in DOMAIN line
      BY <1>1
    <2>3. CASE i < p
      BY <1>0, <1>1, <1>4, <2>1, <2>2, <2>3 DEF Distinct
    <2>4. CASE ~(i < p)
      BY <1>0, <1>1, <1>4, <2>1, <2>2, <2>4 DEF Distinct
    <2> QED
      BY <2>3, <2>4
  <1>7. ASSUME NEW j \in DOMAIN line, line[j] # t
        PROVE  \E i \in DOMAIN rest : rest[i] = line[j]
    <2>1. CASE j < p
      <3>1. j \in 1..(Len(line) - 1)
        BY <1>1, <2>1
      <3> QED
        BY <1>4, <1>5, <2>1, <3>1
    <2>2. CASE j > p
      <3>1. j - 1 \in 1..(Len(line) - 1) /\ ~(j - 1 < p) /\ (j - 1) + 1 = j
        BY <1>1, <2>2
      <3>2. rest[j - 1] = line[(j - 1) + 1]
        BY <1>4, <3>1
      <3> QED
        BY <1>5, <3>1, <3>2
    <2> QED
      BY <1>0, <1>1, <1>7, <2>1, <2>2
  <1>8. Distinct(rest)
    <2>1. SUFFICES ASSUME NEW i \in 1..(Len(line) - 1), NEW j \in 1..(Len(line) - 1), rest[i] = rest[j]
                   PROVE  i = j
      BY <1>5 DEF Distinct
    <2> DEFINE a == IF i < p THEN i ELSE i + 1
               b == IF j < p THEN j ELSE j + 1
    <2>2. a \in DOMAIN line /\ b \in DOMAIN line /\ rest[i] = line[a] /\ rest[j] = line[b]
      BY <1>1, <1>4
    <2>3. a = b
      BY <2>1, <2>2 DEF Distinct
    <2> QED
      BY <1>1, <2>3
  <1>9. line[1] # t => rest # <<>> /\ rest[1] = line[1]
    <2>1. SUFFICES ASSUME line[1] # t PROVE rest # <<>> /\ rest[1] = line[1]
      OBVIOUS
    <2>2. 1 < p /\ 1 \in 1..(Len(line) - 1)
      BY <1>0, <1>1, <2>1
    <2> QED
      BY <1>4, <1>5, <2>2
  <1> QED
    BY <1>4, <1>6, <1>7, <1>8, <1>9

-----------------------------------------------------------------------------
(* The locks *)

\* A step that changes no lock and no line, and for every turn neither whether it
\* waits or is inside nor where.
LEMMA LocksSame ==
  ASSUME LocksInv, UNCHANGED <<llmAvailable, table, locks, torn>>,
         \A u \in Turns :
            /\ Waiting(u)' = Waiting(u) /\ Inside(u)' = Inside(u)
            /\ Waiting(u) \/ Inside(u) => /\ turn'[u].conversation = turn[u].conversation
                                         /\ turn'[u].lock = turn[u].lock
            /\ (turn[u].phase = "degraded")' => ~llmAvailable,
         \A l \in LockIds : \A i \in DOMAIN waiters[l] : waiters[l][i] \in Turns,
         woken \subseteq Turns
  PROVE  LocksInv'
  <1>0. UNCHANGED <<llmAvailable, table, locked, waiters, woken, torn>>
    BY DEF locks
  <1>1. Locking'
    BY <1>0 DEF LocksInv, Locking
  <1>2. SameLock'
    BY <1>0 DEF LocksInv, SameLock
  <1>3. HeldByOne'
    BY <1>0 DEF LocksInv, HeldByOne
  <1>4. InLine'
    BY <1>0 DEF LocksInv, InLine
  <1>5. LinesOfWaiting'
    BY <1>0 DEF LocksInv, LinesOfWaiting
  <1>6. WokenIsFirst'
    BY <1>0 DEF LocksInv, WokenIsFirst
  <1> QED
    BY <1>1, <1>2, <1>3, <1>4, <1>5, <1>6 DEF LocksInv

\* What entering does to the table: its turn uses the lock the table now has, and
\* a turn in line for a lock that is dropped is in a conversation torn from then on.
LEMMA EnterTable ==
  ASSUME TypeOK, LocksInv, NEW t \in Turns, NEW k \in Conversations, Enter(t, k)
  PROVE  /\ \E l \in LockIds : Await(t, k, l) /\ table'[k] = l
         /\ table' \in [Conversations -> LockIds \union {NoLock}]
         /\ older' \subseteq Conversations \X Conversations
         /\ torn \subseteq torn' /\ torn' \subseteq Conversations
         /\ \A u \in Turns : (Waiting(u) \/ Inside(u)) /\ turn[u].conversation \notin torn' =>
               table'[turn[u].conversation] = turn[u].lock
  <1>1. CASE k \in Keys
    <2>1. Await(t, k, table[k]) /\ UNCHANGED <<table, older, torn>>
      BY <1>1 DEF Enter
    <2>2. table[k] \in LockIds
      BY <1>1 DEF TypeOK, Keys
    <2> QED
      BY <2>1, <2>2 DEF TypeOK, LocksInv, SameLock
  <1>2. CASE k \notin Keys
    <2>1. PICK l \in Unreferenced :
            /\ table' = [j \in Conversations |->
                           IF j = k THEN l ELSE IF j \in Dropped THEN NoLock ELSE table[j]]
            /\ older' = {p \in older : p[1] \notin Dropped /\ p[2] \notin Dropped}
                           \union ((Keys \ Dropped) \X {k})
            /\ torn' = torn \union {j \in Dropped : waiters[table[j]] # <<>>}
            /\ Await(t, k, l)
      BY <1>2 DEF Enter
    <2>2. l \in LockIds
      BY DEF Unreferenced
    <2>3. \A j \in Dropped : j \in Conversations /\ table[j] # NoLock /\ table[j] \notin locked
      BY DEF Dropped, Oldest, Keys
    <2>4. table' \in [Conversations -> LockIds \union {NoLock}] /\ table'[k] = l
      BY <2>1, <2>2 DEF TypeOK
    <2>5. older' \subseteq Conversations \X Conversations
      BY <2>1 DEF TypeOK, Keys
    <2>6. torn \subseteq torn' /\ torn' \subseteq Conversations
      BY <2>1, <2>3 DEF TypeOK
    <2>7. ASSUME NEW u \in Turns, Waiting(u) \/ Inside(u), turn[u].conversation \notin torn'
          PROVE  table'[turn[u].conversation] = turn[u].lock
      <3> DEFINE c == turn[u].conversation
      <3>1. c \in Conversations /\ turn[u].lock \in LockIds /\ table[c] = turn[u].lock
        BY <2>6, <2>7, TurnKinds DEF LocksInv, Locking, SameLock, Waiting, Inside
      <3>2. c # k
        BY <1>2, <3>1, NoLockAssumption DEF Keys
      <3>3. c \notin Dropped
        <4>1. SUFFICES ASSUME c \in Dropped PROVE FALSE
          OBVIOUS
        <4>2. Waiting(u)
          BY <2>3, <2>7, <3>1, <4>1 DEF LocksInv, HeldByOne
        <4>3. waiters[turn[u].lock] # <<>>
          BY <3>1, <4>2, LineShape DEF LocksInv, InLine
        <4> QED
          BY <2>1, <2>7, <3>1, <4>1, <4>3
      <3> QED
        BY <2>1, <3>1, <3>2, <3>3
    <2> QED
      BY <2>1, <2>2, <2>4, <2>5, <2>6, <2>7
  <1> QED
    BY <1>1, <1>2

LEMMA InvEnter ==
  ASSUME TypeOK, LocksInv, MessagesInv, NEW t \in Turns, NEW k \in Conversations, Enter(t, k)
  PROVE  TypeOK' /\ LocksInv' /\ MessagesInv'
  <1>0. TypeOK
    OBVIOUS
  <1>1. /\ table' \in [Conversations -> LockIds \union {NoLock}]
        /\ older' \subseteq Conversations \X Conversations
        /\ torn \subseteq torn' /\ torn' \subseteq Conversations
        /\ \A u \in Turns : (Waiting(u) \/ Inside(u)) /\ turn[u].conversation \notin torn' =>
              table'[turn[u].conversation] = turn[u].lock
    BY <1>0, EnterTable
  <1>2. PICK l \in LockIds : Await(t, k, l) /\ table'[k] = l
    BY <1>0, EnterTable
  <1>3. llmAvailable /\ turn[t].phase = "new" /\ UNCHANGED <<llmAvailable, woken, messages, late, overrun>>
    BY DEF Enter, NotStarted
  <1> DEFINE free == l \notin locked /\ waiters[l] = <<>>
             phase == IF free THEN "entered" ELSE "waiting"
  <1>4. /\ turn' = [turn EXCEPT ![t] = [phase |-> phase, conversation |-> k, lock |-> l]]
        /\ locked' = IF free THEN locked \union {l} ELSE locked
        /\ waiters' = [waiters EXCEPT ![l] = IF free THEN waiters[l] ELSE Append(waiters[l], t)]
    BY <1>2 DEF Await
  <1>5. /\ turn'[t].phase = phase /\ turn'[t].conversation = k /\ turn'[t].lock = l
        /\ \A u \in Turns \ {t} : turn'[u] = turn[u]
    BY <1>0, <1>4 DEF TypeOK
  <1>6. TypeOK'
    <2>1. turn' \in [Turns -> {NotStarted} \union
            [phase : {"waiting", "entered", "asked", "degraded", "done"},
             conversation : Conversations, lock : LockIds \union {NoLock}]]
      BY <1>0, <1>4 DEF TypeOK
    <2>2. waiters' \in [LockIds -> Seq(Turns)]
      <3>1. Append(waiters[l], t) \in Seq(Turns)
        BY <1>0, AppendProperties DEF TypeOK
      <3> QED
        BY <1>0, <1>4, <3>1 DEF TypeOK
    <2>3. locked' \subseteq LockIds
      BY <1>0, <1>4 DEF TypeOK
    <2> QED
      BY <1>0, <1>1, <1>3, <2>1, <2>2, <2>3 DEF TypeOK
  <1>7. MessagesInv'
    BY <1>0, <1>1, <1>3, <1>5, MessagesSame
  <1>8. Locking'
    BY <1>3, <1>5 DEF LocksInv, Locking, Waiting, Inside
  <1>9. SameLock'
    BY <1>1, <1>2, <1>5 DEF SameLock, Waiting, Inside
  <1>10. \A u \in Turns : Waiting(u) \/ Inside(u) => u # t
    BY <1>3 DEF Waiting, Inside
  <1>11. CASE free
    <2>1. phase = "entered" /\ locked' = locked \union {l} /\ waiters' = waiters
      BY <1>0, <1>4, <1>11 DEF TypeOK
    <2> HIDE DEF phase
    <2>2. HeldByOne'
      BY <1>5, <1>11, <2>1 DEF LocksInv, HeldByOne, Inside
    <2>3. InLine'
      BY <1>5, <2>1 DEF LocksInv, InLine, Waiting
    <2>4. LinesOfWaiting'
      BY <1>0, <1>5, <1>10, <2>1, LineShape DEF LocksInv, LinesOfWaiting, Waiting
    <2>5. WokenIsFirst'
      <3>1. woken \subseteq Turns
        BY <1>0 DEF TypeOK
      <3> QED
        BY <1>3, <1>5, <1>10, <1>11, <2>1, <3>1 DEF LocksInv, WokenIsFirst, Waiting
    <2> QED
      BY <1>6, <1>7, <1>8, <1>9, <2>2, <2>3, <2>4, <2>5 DEF LocksInv
  <1>12. CASE ~free
    <2>1. phase = "waiting" /\ locked' = locked
      BY <1>4, <1>12
    <2> DEFINE n == Len(waiters[l])
    <2>2. /\ n \in Nat /\ DOMAIN waiters[l] = 1..n /\ DOMAIN waiters'[l] = 1..(n + 1)
          /\ \A i \in 1..n : waiters'[l][i] = waiters[l][i]
          /\ waiters'[l][n + 1] = t
          /\ \A j \in LockIds \ {l} : waiters'[j] = waiters[j]
          /\ waiters[l] # <<>> => n > 0
      <3>1. waiters'[l] = Append(waiters[l], t) /\ \A j \in LockIds \ {l} : waiters'[j] = waiters[j]
        BY <1>0, <1>4, <1>12 DEF TypeOK
      <3> QED
        BY <1>0, <3>1, LineShape, AppendProperties
    <2> HIDE DEF phase, n
    <2>3. HeldByOne'
      BY <1>5, <2>1 DEF LocksInv, HeldByOne, Inside
    <2>4. ASSUME NEW u \in Turns, Waiting(u)'
          PROVE  \E i \in DOMAIN waiters'[turn'[u].lock] : waiters'[turn'[u].lock][i] = u
      <3>1. CASE u = t
        <4>1. n + 1 \in 1..(n + 1)
          BY <2>2
        <4> QED
          BY <1>5, <2>2, <3>1, <4>1
      <3>2. CASE u # t
        <4>1. turn'[u] = turn[u] /\ Waiting(u) /\ turn[u].lock \in LockIds
          BY <1>5, <2>4, <3>2 DEF Waiting, LocksInv, Locking
        <4>2. PICK i \in DOMAIN waiters[turn[u].lock] : waiters[turn[u].lock][i] = u
          BY <4>1 DEF LocksInv, InLine
        <4>3. CASE turn[u].lock = l
          <5>1. i \in 1..n /\ i \in 1..(n + 1)
            BY <2>2, <4>2, <4>3
          <5> QED
            BY <2>2, <4>1, <4>2, <4>3, <5>1
        <4>4. CASE turn[u].lock # l
          BY <2>2, <4>1, <4>2, <4>4
        <4> QED
          BY <4>3, <4>4
      <3> QED
        BY <3>1, <3>2
    <2>5. InLine'
      BY <2>4 DEF InLine
    <2>6. ASSUME NEW j \in LockIds, NEW i \in DOMAIN waiters[j]
          PROVE  /\ waiters[j][i] \in Turns \ {t} /\ turn'[waiters[j][i]].phase = "waiting"
                 /\ turn'[waiters[j][i]].lock = j
      <3>1. waiters[j][i] \in Turns /\ Waiting(waiters[j][i]) /\ turn[waiters[j][i]].lock = j
        BY <1>0, LineShape DEF LocksInv, LinesOfWaiting
      <3> QED
        BY <1>5, <1>10, <3>1 DEF Waiting
    <2>7. ASSUME NEW j \in LockIds, NEW i \in DOMAIN waiters'[j]
          PROVE  /\ Waiting(waiters[j][i])' /\ turn'[waiters'[j][i]].lock = j
                 /\ \A h \in DOMAIN waiters'[j] : waiters'[j][h] = waiters'[j][i] => h = i
      <3>1. CASE j # l
        BY <2>2, <2>6, <2>7, <3>1 DEF LocksInv, LinesOfWaiting, Waiting
      <3>2. CASE j = l /\ i = n + 1
        <4>1. \A h \in DOMAIN waiters'[l] : h # n + 1 => waiters'[l][h] # t
          <5>1. SUFFICES ASSUME NEW h \in 1..(n + 1), h # n + 1 PROVE waiters'[l][h] # t
            BY <2>2
          <5>2. h \in 1..n
            BY <2>2, <5>1
          <5> QED
            BY <2>2, <2>6, <5>2
        <4> QED
          BY <1>5, <2>1, <2>2, <3>2, <4>1 DEF Waiting
      <3>3. CASE j = l /\ i # n + 1
        <4>1. i \in DOMAIN waiters[l] /\ waiters'[l][i] = waiters[l][i]
          BY <2>2, <2>7, <3>3
        <4>2. \A h \in DOMAIN waiters'[l] : waiters'[l][h] = waiters'[l][i] => h = i
          BY <2>2, <2>6, <4>1 DEF LocksInv, LinesOfWaiting
        <4> QED
          BY <2>6, <3>3, <4>1, <4>2 DEF Waiting
      <3> QED
        BY <3>1, <3>2, <3>3
    <2>8. LinesOfWaiting'
      BY <2>7 DEF LinesOfWaiting
    <2>9. ASSUME NEW u \in woken'
          PROVE  /\ Waiting(u)' /\ turn'[u].lock \notin locked'
                 /\ waiters'[turn'[u].lock] # <<>> /\ waiters'[turn'[u].lock][1] = u
      <3>1. /\ u \in Turns /\ Waiting(u) /\ turn[u].lock \notin locked
            /\ waiters[turn[u].lock] # <<>> /\ waiters[turn[u].lock][1] = u
            /\ turn[u].lock \in LockIds
        BY <1>0, <1>3, <2>9 DEF TypeOK, LocksInv, WokenIsFirst, Locking
      <3>2. turn'[u] = turn[u] /\ Waiting(u)'
        BY <1>5, <1>10, <3>1 DEF Waiting
      <3>3. CASE turn[u].lock = l
        <4>1. 1 \in 1..n /\ 1 \in 1..(n + 1)
          BY <2>2, <3>1, <3>3
        <4>2. waiters'[l] # <<>>
          BY <2>2, <4>1
        <4> QED
          BY <2>1, <2>2, <3>1, <3>2, <3>3, <4>1, <4>2
      <3>4. CASE turn[u].lock # l
        BY <2>1, <2>2, <3>1, <3>2, <3>4
      <3> QED
        BY <3>3, <3>4
    <2>10. WokenIsFirst'
      BY <2>9 DEF WokenIsFirst
    <2> QED
      BY <1>6, <1>7, <1>8, <1>9, <2>3, <2>5, <2>8, <2>10 DEF LocksInv
  <1> QED
    BY <1>6, <1>7, <1>11, <1>12

\* Whom a step of the locks wakes: the first in line for l, if l is free then.
LEMMA Woken ==
  ASSUME NEW l, NEW line, NEW held, WakeFirst(l, line, held), NEW u \in woken'
  PROVE  \/ u \in woken /\ \E i \in DOMAIN line : line[i] = u
         \/ u \in woken /\ turn[u].lock # l
         \/ line # <<>> /\ l \notin held /\ u = line[1]
  BY DEF WakeFirst

\* A turn that was inside ends.
LEMMA LocksRelease ==
  ASSUME TypeOK, LocksInv, NEW t \in Turns, Inside(t), Release(t),
         turn'[t].phase = "done", \A u \in Turns \ {t} : turn'[u] = turn[u],
         UNCHANGED <<llmAvailable, table, torn>>
  PROVE  LocksInv' /\ locked' \subseteq LockIds /\ woken' \subseteq Turns
  <1> DEFINE l == turn[t].lock
  <1>1. /\ l \in LockIds /\ l \in locked
        /\ \A u \in Turns : Inside(u) /\ turn[u].lock = l => u = t
    BY DEF LocksInv, Locking, HeldByOne
  <1>2. locked' = locked \ {l} /\ waiters' = waiters /\ WakeFirst(l, waiters[l], locked')
    BY DEF Release
  <1>3. \A u \in Turns : /\ Waiting(u)' <=> Waiting(u)
                         /\ Inside(u)' <=> Inside(u) /\ u # t
                         /\ Waiting(u)' \/ Inside(u)' => turn'[u] = turn[u]
    BY DEF Waiting, Inside
  <1>4. ASSUME NEW u \in woken'
        PROVE  /\ u \in Turns /\ Waiting(u) /\ turn[u].lock \notin locked'
               /\ waiters[turn[u].lock] # <<>> /\ waiters[turn[u].lock][1] = u
    <2>1. CASE u \in woken
      BY <1>2, <2>1 DEF TypeOK, LocksInv, WokenIsFirst
    <2>2. CASE waiters[l] # <<>> /\ l \notin locked' /\ u = waiters[l][1]
      <3>1. 1 \in DOMAIN waiters[l] /\ u \in Turns
        BY <1>1, <2>2, LineShape
      <3>2. Waiting(u) /\ turn[u].lock = l
        BY <1>1, <2>2, <3>1 DEF LocksInv, LinesOfWaiting
      <3> QED
        BY <2>2, <3>1, <3>2
    <2> QED
      BY <1>2, <2>1, <2>2, Woken
  <1> HIDE DEF l
  <1>5. Locking'
    BY <1>3 DEF LocksInv, Locking
  <1>6. SameLock'
    BY <1>3 DEF LocksInv, SameLock
  <1>7. HeldByOne'
    BY <1>1, <1>2, <1>3 DEF LocksInv, HeldByOne
  <1>8. InLine'
    BY <1>2, <1>3 DEF LocksInv, InLine
  <1>9. LinesOfWaiting'
    BY <1>2, <1>3, LineShape DEF LocksInv, LinesOfWaiting
  <1>10. WokenIsFirst'
    BY <1>2, <1>3, <1>4 DEF WokenIsFirst
  <1>11. locked' \subseteq LockIds /\ woken' \subseteq Turns
    BY <1>2, <1>4 DEF TypeOK
  <1> QED
    BY <1>5, <1>6, <1>7, <1>8, <1>9, <1>10, <1>11 DEF LocksInv

\* A turn leaves the line of its lock: the lines that are left.
LEMMA LeaveLine ==
  ASSUME TypeOK, LocksInv, NEW t \in Turns, Waiting(t), NEW l, l = turn[t].lock,
         waiters' = [waiters EXCEPT ![l] = Without(waiters[l], t)],
         \A u \in Turns \ {t} : turn'[u] = turn[u], ~Waiting(t)'
  PROVE  /\ l \in LockIds
         /\ waiters' \in [LockIds -> Seq(Turns)]
         /\ waiters'[l] = Without(waiters[l], t)
         /\ InLine' /\ LinesOfWaiting'
         /\ \A u \in Turns \ {t} : Waiting(u) /\ waiters[turn[u].lock][1] = u =>
               waiters'[turn[u].lock] # <<>> /\ waiters'[turn[u].lock][1] = u
  <1> DEFINE rest == Without(waiters[l], t)
  <1>1. l \in LockIds
    BY DEF LocksInv, Locking
  <1>2. PICK p \in DOMAIN waiters[l] : waiters[l][p] = t
    BY DEF LocksInv, InLine
  <1>3. Distinct(waiters[l])
    BY <1>1 DEF LocksInv, LinesOfWaiting, Distinct
  <1>4. /\ rest \in Seq(Turns)
        /\ \A i \in DOMAIN rest : rest[i] # t /\ \E j \in DOMAIN waiters[l] : rest[i] = waiters[l][j]
        /\ \A j \in DOMAIN waiters[l] : waiters[l][j] # t => \E i \in DOMAIN rest : rest[i] = waiters[l][j]
        /\ Distinct(rest)
        /\ waiters[l][1] # t => rest # <<>> /\ rest[1] = waiters[l][1]
    <2>1. waiters[l] \in Seq(Turns)
      BY <1>1, LineShape
    <2> HIDE DEF Without
    <2> QED
      BY <1>2, <1>3, <2>1, WithoutOne
  <1>5. /\ waiters'[l] = rest /\ \A j \in LockIds \ {l} : waiters'[j] = waiters[j]
        /\ waiters' \in [LockIds -> Seq(Turns)]
    BY <1>1, <1>4 DEF TypeOK
  <1> HIDE DEF rest
  <1>6. ASSUME NEW u \in Turns, Waiting(u)'
        PROVE  \E i \in DOMAIN waiters'[turn'[u].lock] : waiters'[turn'[u].lock][i] = u
    <2>1. u # t /\ turn'[u] = turn[u] /\ Waiting(u) /\ turn[u].lock \in LockIds
      BY <1>6 DEF Waiting, LocksInv, Locking
    <2>2. PICK j \in DOMAIN waiters[turn[u].lock] : waiters[turn[u].lock][j] = u
      BY <2>1 DEF LocksInv, InLine
    <2> QED
      BY <1>4, <1>5, <2>1, <2>2
  <1>7. ASSUME NEW j \in LockIds, NEW i \in DOMAIN waiters'[j]
        PROVE  /\ turn'[waiters'[j][i]].phase = "waiting" /\ turn'[waiters'[j][i]].lock = j
               /\ \A h \in DOMAIN waiters'[j] : waiters'[j][h] = waiters'[j][i] => h = i
    <2>1. CASE j = l
      <3>1. PICK h \in DOMAIN waiters[l] : rest[i] = waiters[l][h]
        BY <1>4, <1>5, <1>7, <2>1
      <3>2. rest[i] # t /\ rest[i] \in Turns
        BY <1>1, <1>4, <1>5, <1>7, <2>1, <3>1, LineShape
      <3>3. turn[rest[i]].phase = "waiting" /\ turn[rest[i]].lock = l
        BY <1>1, <3>1 DEF LocksInv, LinesOfWaiting, Waiting
      <3> QED
        BY <1>4, <1>5, <1>7, <2>1, <3>2, <3>3 DEF Distinct
    <2>2. CASE j # l
      <3>1. waiters'[j] = waiters[j] /\ waiters[j][i] \in Turns
        BY <1>5, <1>7, <2>2, LineShape
      <3>2. Waiting(waiters[j][i]) /\ turn[waiters[j][i]].lock = j
        BY <1>7, <3>1 DEF LocksInv, LinesOfWaiting
      <3> QED
        BY <1>7, <2>2, <3>1, <3>2 DEF LocksInv, LinesOfWaiting, Waiting
    <2> QED
      BY <2>1, <2>2
  <1>8. ASSUME NEW u \in Turns \ {t}, Waiting(u), waiters[turn[u].lock][1] = u
        PROVE  waiters'[turn[u].lock] # <<>> /\ waiters'[turn[u].lock][1] = u
    <2>1. turn[u].lock \in LockIds
      BY <1>8 DEF LocksInv, Locking
    <2>2. CASE turn[u].lock = l
      BY <1>4, <1>5, <1>8, <2>2
    <2>3. CASE turn[u].lock # l
      <3>1. waiters[turn[u].lock] # <<>>
        BY <1>8, <2>1, LineShape DEF LocksInv, InLine
      <3> QED
        BY <1>5, <1>8, <2>1, <2>3, <3>1
    <2> QED
      BY <2>2, <2>3
  <1> QED
    BY <1>1, <1>5, <1>6, <1>7, <1>8 DEF InLine, LinesOfWaiting, Waiting, rest

\* A turn in line gives up, and passes on the wake-up it may have had.
LEMMA LocksAbandon ==
  ASSUME TypeOK, LocksInv, NEW t \in Turns, Abandon(t)
  PROVE  /\ LocksInv' /\ waiters' \in [LockIds -> Seq(Turns)] /\ woken' \subseteq Turns
  <1> DEFINE l == turn[t].lock
  <1>1. /\ Waiting(t)
        /\ waiters' = [waiters EXCEPT ![l] = Without(waiters[l], t)]
        /\ WakeFirst(l, Without(waiters[l], t), locked)
        /\ UNCHANGED <<llmAvailable, table, locked, torn>>
    BY DEF Abandon, history
  <1>2. turn'[t].phase = "done" /\ \A u \in Turns \ {t} : turn'[u] = turn[u]
    BY DEF Abandon, TypeOK, NotStarted
  <1>3. ~Waiting(t)'
    BY <1>2 DEF Waiting
  <1>4. /\ l \in LockIds
        /\ waiters' \in [LockIds -> Seq(Turns)]
        /\ waiters'[l] = Without(waiters[l], t)
        /\ InLine' /\ LinesOfWaiting'
        /\ \A u \in Turns \ {t} : Waiting(u) /\ waiters[turn[u].lock][1] = u =>
              waiters'[turn[u].lock] # <<>> /\ waiters'[turn[u].lock][1] = u
    BY <1>1, <1>2, <1>3, LeaveLine
  <1>5. \A u \in Turns : /\ Waiting(u)' <=> Waiting(u) /\ u # t
                         /\ Inside(u)' <=> Inside(u)
                         /\ Waiting(u)' \/ Inside(u)' => turn'[u] = turn[u]
    BY <1>1, <1>2 DEF Waiting, Inside
  <1>6. DOMAIN waiters'[l] = 1..Len(waiters'[l])
        /\ \A i \in DOMAIN waiters'[l] : waiters'[l][i] \in Turns
        /\ (waiters'[l] # <<>> => 1 \in DOMAIN waiters'[l])
    BY <1>4
  <1>7. ASSUME NEW u \in woken'
        PROVE  /\ u \in Turns /\ Waiting(u)' /\ turn[u].lock \notin locked
               /\ waiters'[turn[u].lock] # <<>> /\ waiters'[turn[u].lock][1] = u
    <2>1. CASE u \in woken /\ u # t
      <3>1. /\ u \in Turns /\ Waiting(u) /\ turn[u].lock \notin locked
            /\ waiters[turn[u].lock][1] = u
        BY <2>1 DEF TypeOK, LocksInv, WokenIsFirst
      <3> QED
        BY <1>4, <1>5, <2>1, <3>1
    <2>2. CASE waiters'[l] # <<>> /\ l \notin locked /\ u = waiters'[l][1]
      <3>1. u \in Turns /\ Waiting(u)' /\ turn'[u].lock = l
        BY <1>4, <1>6, <2>2 DEF LinesOfWaiting
      <3> QED
        BY <1>5, <2>2, <3>1
    <2>3. u # t \/ (waiters'[l] # <<>> /\ l \notin locked /\ u = waiters'[l][1])
      <3>1. \A i \in DOMAIN waiters'[l] : waiters'[l][i] # t
        BY <1>3, <1>4 DEF LinesOfWaiting
      <3>2. u = t => ~(\E i \in DOMAIN waiters'[l] : waiters'[l][i] = u) /\ turn[u].lock = l
        BY <3>1
      <3> QED
        BY <1>1, <1>4, <3>2, Woken
    <2> QED
      BY <1>1, <1>4, <2>1, <2>2, <2>3, Woken
  <1> HIDE DEF l
  <1>8. Locking'
    BY <1>1, <1>2, <1>5 DEF LocksInv, Locking
  <1>9. SameLock'
    BY <1>1, <1>5 DEF LocksInv, SameLock
  <1>10. HeldByOne'
    BY <1>1, <1>5 DEF LocksInv, HeldByOne
  <1>11. WokenIsFirst'
    BY <1>1, <1>5, <1>7 DEF WokenIsFirst
  <1> QED
    BY <1>4, <1>7, <1>8, <1>9, <1>10, <1>11 DEF LocksInv

\* A woken waiter gets the lock.
LEMMA LocksResume ==
  ASSUME TypeOK, LocksInv, NEW t \in Turns, Resume(t)
  PROVE  /\ LocksInv' /\ waiters' \in [LockIds -> Seq(Turns)]
         /\ locked' \subseteq LockIds /\ woken' \subseteq Turns
  <1> DEFINE l == turn[t].lock
  <1>1. /\ t \in woken /\ Waiting(t) /\ l \notin locked /\ waiters[l][1] = t
        /\ locked' = locked \union {l}
        /\ waiters' = [waiters EXCEPT ![l] = Without(waiters[l], t)]
        /\ woken' = woken \ {t}
        /\ UNCHANGED <<llmAvailable, table, torn>>
    BY DEF Resume, history, LocksInv, WokenIsFirst
  <1>2. /\ turn'[t].phase = "entered" /\ turn'[t].lock = l
        /\ turn'[t].conversation = turn[t].conversation
        /\ \A u \in Turns \ {t} : turn'[u] = turn[u]
    BY <1>1 DEF Resume, TypeOK, NotStarted, Waiting
  <1>3. ~Waiting(t)' /\ Inside(t)' /\ ~Inside(t)
    BY <1>1, <1>2 DEF Waiting, Inside
  <1>4. /\ l \in LockIds
        /\ waiters' \in [LockIds -> Seq(Turns)]
        /\ InLine' /\ LinesOfWaiting'
        /\ \A u \in Turns \ {t} : Waiting(u) /\ waiters[turn[u].lock][1] = u =>
              waiters'[turn[u].lock] # <<>> /\ waiters'[turn[u].lock][1] = u
    BY <1>1, <1>2, <1>3, LeaveLine
  <1>5. \A u \in Turns : /\ Waiting(u)' <=> Waiting(u) /\ u # t
                         /\ Inside(u)' <=> Inside(u) \/ u = t
    BY <1>2, <1>3 DEF Waiting, Inside
  <1>6. \A u \in Turns : Inside(u) => turn[u].lock # l
    BY <1>1 DEF LocksInv, HeldByOne
  <1>7. ASSUME NEW u \in woken'
        PROVE  /\ Waiting(u)' /\ turn'[u].lock \notin locked'
               /\ waiters'[turn'[u].lock] # <<>> /\ waiters'[turn'[u].lock][1] = u
    <2>1. /\ u \in Turns \ {t} /\ Waiting(u) /\ turn[u].lock \notin locked
          /\ waiters[turn[u].lock][1] = u
      BY <1>1, <1>7 DEF TypeOK, LocksInv, WokenIsFirst
    <2>2. turn[u].lock # l
      BY <1>1, <2>1
    <2> QED
      BY <1>1, <1>2, <1>4, <1>5, <2>1, <2>2
  <1> HIDE DEF l
  <1>8. Locking'
    BY <1>1, <1>2, <1>4, <1>5 DEF LocksInv, Locking
  <1>9. SameLock'
    <2>1. turn[t].conversation \notin torn => table[turn[t].conversation] = l
      BY <1>1 DEF LocksInv, SameLock, l
    <2> QED
      BY <1>1, <1>2, <1>5, <2>1 DEF LocksInv, SameLock
  <1>10. HeldByOne'
    BY <1>1, <1>2, <1>5, <1>6 DEF LocksInv, HeldByOne
  <1>11. WokenIsFirst'
    BY <1>7 DEF WokenIsFirst
  <1> QED
    BY <1>1, <1>4, <1>8, <1>9, <1>10, <1>11 DEF LocksInv, TypeOK

-----------------------------------------------------------------------------
(* One lemma for each of the other actions *)

LEMMA NotNew ==
  ASSUME TypeOK
  PROVE  \A u \in Turns : turn[u].phase # "new" => turn[u].conversation \in Conversations
  BY TurnKinds

\* Two turns of a conversation that is not torn are not both inside.
LEMMA OneInside ==
  ASSUME LocksInv, NEW t \in Turns, NEW u \in Turns, Inside(t), Inside(u),
         turn[t].conversation = turn[u].conversation, turn[t].conversation \notin torn
  PROVE  t = u
  BY DEF LocksInv, SameLock, HeldByOne

LEMMA InvResume ==
  ASSUME TypeOK, LocksInv, MessagesInv, NEW t \in Turns, Resume(t)
  PROVE  TypeOK' /\ LocksInv' /\ MessagesInv'
  <1>1. /\ LocksInv' /\ waiters' \in [LockIds -> Seq(Turns)]
        /\ locked' \subseteq LockIds /\ woken' \subseteq Turns
    BY LocksResume
  <1>2. /\ turn' = [turn EXCEPT ![t].phase = "entered"] /\ turn[t].phase = "waiting"
        /\ UNCHANGED <<llmAvailable, table, older, messages, late, torn, overrun>>
    BY DEF Resume, history, LocksInv, WokenIsFirst, Waiting
  <1>3. TypeOK'
    BY <1>1, <1>2, PhaseType DEF TypeOK
  <1>4. MessagesInv'
    BY <1>2, MessagesSame DEF TypeOK, NotStarted
  <1> QED
    BY <1>1, <1>3, <1>4

LEMMA InvStoreQuestion ==
  ASSUME TypeOK, LocksInv, MessagesInv, NEW t \in Turns, StoreQuestion(t)
  PROVE  TypeOK' /\ LocksInv' /\ MessagesInv'
  <1> DEFINE k == turn[t].conversation
  <1>1. /\ turn[t].phase = "entered" /\ AddMessage(t, k, "user")
        /\ turn' = [turn EXCEPT ![t].phase = "asked"]
        /\ UNCHANGED <<llmAvailable, table, older, locks, late, torn, overrun>>
    BY DEF history, StoreQuestion
  <1>2. k \in Conversations
    BY <1>1, TurnKinds
  <1>3. /\ turn'[t].phase = "asked" /\ turn'[t].conversation = k /\ turn'[t].lock = turn[t].lock
        /\ \A u \in Turns \ {t} : turn'[u] = turn[u]
    BY <1>1 DEF TypeOK, NotStarted
  <1> HIDE DEF k
  <1>4. messages' \in [Conversations -> SUBSET Message]
    BY <1>1, <1>2, AddMessageEffect DEF MessagesInv
  <1>5. TypeOK'
    BY <1>1, <1>4, PhaseType DEF TypeOK, Message, locks
  <1>6. LocksInv'
    <2>1. \A u \in Turns :
            /\ Waiting(u)' = Waiting(u) /\ Inside(u)' = Inside(u)
            /\ Waiting(u) \/ Inside(u) => /\ turn'[u].conversation = turn[u].conversation
                                         /\ turn'[u].lock = turn[u].lock
            /\ (turn[u].phase = "degraded")' => ~llmAvailable
      BY <1>1, <1>3 DEF Waiting, Inside, LocksInv, Locking, k
    <2> QED
      BY <1>1, <2>1, LocksSame, LineShape DEF TypeOK
  <1>7. MessagesInv'
    <2>1. \A u \in Turns \ {t} :
             k \notin torn /\ turn[u].phase = "asked" => turn[u].conversation # k
      BY <1>1, OneInside DEF Inside, k
    <2>2. turn'[t] # turn[t]
      BY <1>1, <1>3
    <2> QED
      BY <1>1, <1>2, <1>3, <2>1, <2>2, MessagesAsk, NotNew
  <1> QED
    BY <1>5, <1>6, <1>7

LEMMA InvStoreAnswer ==
  ASSUME TypeOK, LocksInv, MessagesInv, NEW t \in Turns, StoreAnswer(t)
  PROVE  TypeOK' /\ LocksInv' /\ MessagesInv'
  <1> DEFINE k == turn[t].conversation
  <1>1. /\ turn[t].phase = "asked" /\ AddMessage(t, k, "assistant")
        /\ turn' = [turn EXCEPT ![t].phase = "done"] /\ Release(t)
        /\ UNCHANGED <<llmAvailable, table, older, late, torn, overrun>>
    BY DEF history, StoreAnswer
  <1>2. k \in Conversations
    BY <1>1, TurnKinds
  <1>3. /\ turn'[t].phase = "done" /\ \A u \in Turns \ {t} : turn'[u] = turn[u]
    BY <1>1 DEF TypeOK, NotStarted
  <1> HIDE DEF k
  <1>4. LocksInv' /\ locked' \subseteq LockIds /\ woken' \subseteq Turns
    BY <1>1, <1>3, LocksRelease DEF Inside
  <1>5. MessagesInv' /\ messages' \in [Conversations -> SUBSET Message]
    <2>1. PICK own \in Questions(k) :
             /\ own.turn = t
             /\ k \notin torn /\ t \notin overrun => \A m \in messages[k] : m.number <= own.number
      BY <1>1 DEF MessagesInv, QuestionStored, k
    <2>2. messages[k] # {}
      BY <2>1 DEF Questions
    <2> QED
      BY <1>1, <1>2, <1>3, <2>1, <2>2, MessagesAnswer, NotNew
  <1>6. TypeOK'
    BY <1>1, <1>4, <1>5, PhaseType DEF TypeOK, Message, Release
  <1> QED
    BY <1>4, <1>5, <1>6

LEMMA InvBreakOff ==
  ASSUME TypeOK, LocksInv, MessagesInv, NEW t \in Turns, BreakOff(t)
  PROVE  TypeOK' /\ LocksInv' /\ MessagesInv'
  <1>1. /\ Inside(t) /\ Release(t)
        /\ turn' = [turn EXCEPT ![t].phase = "done"]
        /\ late' \subseteq late \union {Storing(t)}
        /\ UNCHANGED <<llmAvailable, table, older, messages, torn, overrun>>
    BY DEF BreakOff, history
  <1>2. /\ turn'[t].phase = "done" /\ \A u \in Turns \ {t} : turn'[u] = turn[u]
    BY <1>1 DEF TypeOK, NotStarted, Inside
  <1>3. LocksInv' /\ locked' \subseteq LockIds /\ woken' \subseteq Turns
    BY <1>1, <1>2, LocksRelease
  <1> DEFINE w == Storing(t)
  <1>4. /\ w \in [turn : Turns, conversation : Conversations, role : {"user", "assistant"}]
        /\ w.turn = t /\ w.conversation = turn[t].conversation
        /\ w.role = "assistant" => turn[t].phase = "asked"
    BY <1>1, TurnKinds DEF Storing, Inside
  <1>5. MessagesInv'
    <2> HIDE DEF w
    <2> QED
      BY <1>1, <1>2, <1>4, MessagesSame DEF w
  <1>6. TypeOK'
    BY <1>1, <1>3, <1>4, PhaseType DEF TypeOK, Release, Inside
  <1> QED
    BY <1>3, <1>5, <1>6

\* The thread of a cancelled turn stores its message.
LEMMA InvLateStore ==
  ASSUME TypeOK, LocksInv, MessagesInv, NEW w \in late, LateStore(w)
  PROVE  TypeOK' /\ LocksInv' /\ MessagesInv'
  <1>1. /\ w.turn \in Turns /\ w.conversation \in Conversations /\ w.role \in {"user", "assistant"}
    BY DEF TypeOK
  <1> DEFINE t == w.turn
             k == w.conversation
  <1>2. /\ AddMessage(t, k, w.role) /\ late' \subseteq late
        /\ overrun' = overrun \union Mixed(w)
        /\ UNCHANGED <<llmAvailable, table, older, locks, turn, torn>>
    BY DEF LateStore
  <1>3. Mixed(w) \subseteq Turns
    BY <1>1 DEF Mixed
  <1>4. LocksInv'
    <2>1. \A u \in Turns :
            /\ Waiting(u)' = Waiting(u) /\ Inside(u)' = Inside(u)
            /\ Waiting(u) \/ Inside(u) => /\ turn'[u].conversation = turn[u].conversation
                                         /\ turn'[u].lock = turn[u].lock
            /\ (turn[u].phase = "degraded")' => ~llmAvailable
      BY <1>2 DEF Waiting, Inside, LocksInv, Locking
    <2> QED
      BY <1>2, <2>1, LocksSame, LineShape DEF TypeOK
  <1>5. MessagesInv' /\ messages' \in [Conversations -> SUBSET Message]
    <2>1. CASE w.role = "user"
      <3>1. AddMessage(t, k, "user")
        BY <1>2, <2>1
      <3>2. \A u \in Turns : turn[u].phase = "asked" /\ turn[u].conversation = k => u \in overrun'
        BY <1>2, <2>1 DEF Mixed
      <3>3. messages' \in [Conversations -> SUBSET Message]
        BY <1>1, <3>1, AddMessageEffect DEF MessagesInv
      <3>4. MessagesInv'
        <4> HIDE DEF t, k
        <4> QED
          BY <1>1, <1>2, <3>1, <3>2, MessagesAsk, NotNew DEF t, k
      <3> QED
        BY <3>3, <3>4
    <2>2. CASE w.role = "assistant"
      <3>1. AddMessage(t, k, "assistant")
        BY <1>2, <2>2
      <3>2. PICK own \in Questions(k) : own.turn = t
        BY <2>2 DEF MessagesInv, LateIsAnswer
      <3>3. messages[k] # {} /\ \A q \in Questions(k) : q \in messages[k] /\ q.number \in Nat
        BY <1>1, <3>2 DEF Questions, TypeOK
      <3>4. PICK last \in Questions(k) : \A m \in messages[k] : m.number <= last.number
        BY <1>1, <3>3 DEF MessagesInv, LatestIsAsked
      <3>5. t \notin overrun' => ~Overtaken(t, k)
        BY <1>2, <2>2 DEF Mixed
      <3>6. ASSUME t \notin overrun'
            PROVE  \E q \in Questions(k) : q.turn = t /\ \A m \in messages[k] : m.number <= q.number
        <4>1. CASE last.turn = t
          BY <3>4, <4>1
        <4>2. CASE last.turn # t
          <5>1. ~(own.number < last.number)
            BY <3>2, <3>5, <3>6, <4>2 DEF Overtaken
          <5>2. own.number = last.number
            BY <3>2, <3>3, <3>4, <5>1
          <5> QED
            BY <3>2, <3>4, <5>2
        <4> QED
          BY <4>1, <4>2
      <3> HIDE DEF t, k
      <3> QED
        BY <1>1, <1>2, <3>1, <3>3, <3>6, MessagesAnswer, NotNew DEF t, k
    <2> QED
      BY <1>1, <2>1, <2>2
  <1>6. TypeOK'
    BY <1>2, <1>3, <1>5 DEF TypeOK, Message, locks
  <1> QED
    BY <1>4, <1>5, <1>6

LEMMA InvAbandon ==
  ASSUME TypeOK, LocksInv, MessagesInv, NEW t \in Turns, Abandon(t)
  PROVE  TypeOK' /\ LocksInv' /\ MessagesInv'
  <1>1. /\ LocksInv' /\ waiters' \in [LockIds -> Seq(Turns)] /\ woken' \subseteq Turns
    BY LocksAbandon
  <1>2. /\ turn[t].phase = "waiting" /\ turn' = [turn EXCEPT ![t].phase = "done"]
        /\ UNCHANGED <<llmAvailable, table, older, locked, messages, late, torn, overrun>>
    BY DEF Abandon, history, Waiting
  <1>3. MessagesInv'
    BY <1>2, MessagesSame DEF TypeOK, NotStarted
  <1>4. TypeOK'
    BY <1>1, <1>2, PhaseType DEF TypeOK
  <1> QED
    BY <1>1, <1>3, <1>4

LEMMA InvStoreDegradedQuestion ==
  ASSUME TypeOK, LocksInv, MessagesInv, NEW t \in Turns, NEW k \in Conversations,
         StoreDegradedQuestion(t, k)
  PROVE  TypeOK' /\ LocksInv' /\ MessagesInv'
  <1>1. /\ ~llmAvailable /\ turn[t].phase = "new" /\ AddMessage(t, k, "user")
        /\ turn' = [turn EXCEPT ![t] = [phase |-> "degraded", conversation |-> k, lock |-> NoLock]]
        /\ UNCHANGED <<llmAvailable, table, older, locks, late, torn, overrun>>
    BY DEF history, StoreDegradedQuestion, NotStarted
  <1>2. /\ turn'[t].phase = "degraded" /\ turn'[t].conversation = k
        /\ \A u \in Turns \ {t} : turn'[u] = turn[u]
    BY <1>1 DEF TypeOK
  <1>3. messages' \in [Conversations -> SUBSET Message]
    BY <1>1, AddMessageEffect DEF MessagesInv
  <1>4. TypeOK'
    BY <1>1, <1>3 DEF TypeOK, Message, locks
  <1>5. LocksInv'
    <2>1. \A u \in Turns :
            /\ Waiting(u)' = Waiting(u) /\ Inside(u)' = Inside(u)
            /\ Waiting(u) \/ Inside(u) => /\ turn'[u].conversation = turn[u].conversation
                                         /\ turn'[u].lock = turn[u].lock
            /\ (turn[u].phase = "degraded")' => ~llmAvailable
      BY <1>1, <1>2 DEF Waiting, Inside
    <2> QED
      BY <1>1, <2>1, LocksSame, LineShape DEF TypeOK
  <1>6. MessagesInv'
    <2>1. \A u \in Turns \ {t} :
             k \notin torn /\ turn[u].phase = "asked" => turn[u].conversation # k
      BY <1>1 DEF LocksInv, Locking, Inside
    <2>2. turn'[t] # turn[t]
      BY <1>1, <1>2
    <2> QED
      BY <1>1, <1>2, <2>1, <2>2, MessagesAsk, NotNew
  <1> QED
    BY <1>4, <1>5, <1>6

LEMMA InvStoreDegradedAnswer ==
  ASSUME TypeOK, LocksInv, MessagesInv, NEW t \in Turns, StoreDegradedAnswer(t)
  PROVE  TypeOK' /\ LocksInv' /\ MessagesInv'
  <1> DEFINE k == turn[t].conversation
  <1>1. /\ turn[t].phase = "degraded" /\ AddMessage(t, k, "assistant")
        /\ turn' = [turn EXCEPT ![t].phase = "done"]
        /\ UNCHANGED <<llmAvailable, table, older, locks, late, torn, overrun>>
    BY DEF history, StoreDegradedAnswer
  <1>2. k \in Conversations /\ ~llmAvailable
    BY <1>1, TurnKinds DEF LocksInv, Locking
  <1>3. /\ turn'[t].phase = "done" /\ \A u \in Turns \ {t} : turn'[u] = turn[u]
    BY <1>1 DEF TypeOK, NotStarted
  <1> HIDE DEF k
  <1>4. MessagesInv' /\ messages' \in [Conversations -> SUBSET Message]
    <2>1. messages[k] # {}
      BY <1>1 DEF MessagesInv, QuestionStored, Questions, k
    <2> QED
      BY <1>1, <1>2, <1>3, <2>1, MessagesAnswer, NotNew
  <1>5. TypeOK'
    BY <1>1, <1>4, PhaseType DEF TypeOK, Message, locks
  <1>6. LocksInv'
    <2>1. \A u \in Turns :
            /\ Waiting(u)' = Waiting(u) /\ Inside(u)' = Inside(u)
            /\ Waiting(u) \/ Inside(u) => /\ turn'[u].conversation = turn[u].conversation
                                         /\ turn'[u].lock = turn[u].lock
            /\ (turn[u].phase = "degraded")' => ~llmAvailable
      BY <1>1, <1>2, <1>3 DEF Waiting, Inside
    <2> QED
      BY <1>1, <2>1, LocksSame, LineShape DEF TypeOK
  <1> QED
    BY <1>4, <1>5, <1>6

-----------------------------------------------------------------------------
(* Theorems *)

LEMMA InitIInv == Init => IInv
  <1> SUFFICES ASSUME Init PROVE IInv
    OBVIOUS
  <1>1. TypeOK
    <2>1. <<>> \in Seq(Turns)
      BY EmptySeq
    <2>2. waiters \in [LockIds -> Seq(Turns)]
      BY <2>1 DEF Init
    <2>3. turn \in [Turns -> {NotStarted} \union
             [phase : {"waiting", "entered", "asked", "degraded", "done"},
              conversation : Conversations, lock : LockIds \union {NoLock}]]
      BY DEF Init
    <2>4. messages \in [Conversations -> SUBSET
             [turn : Turns, role : {"user", "assistant"}, number : Nat \ {0}]]
      BY DEF Init
    <2>5. /\ llmAvailable \in BOOLEAN /\ table \in [Conversations -> LockIds \union {NoLock}]
          /\ older = {} /\ locked = {} /\ woken = {} /\ late = {} /\ torn = {} /\ overrun = {}
      BY LlmSettingsAssumption DEF Init
    <2> QED
      BY <2>2, <2>3, <2>4, <2>5 DEF TypeOK
  <1>2. Locking /\ SameLock /\ HeldByOne
    BY DEF Init, Locking, SameLock, HeldByOne, Waiting, Inside, NotStarted
  <1>3. InLine /\ LinesOfWaiting /\ WokenIsFirst
    BY DEF Init, InLine, LinesOfWaiting, WokenIsFirst, Waiting, NotStarted
  <1>4. LatestIsAsked /\ QuestionStored /\ LateIsAnswer /\ AnswersPaired
    BY DEF Init, LatestIsAsked, QuestionStored, LateIsAnswer, AnswersPaired, Questions, NotStarted
  <1>5. NumbersBounded
    BY FS_EmptySet DEF Init, NumbersBounded
  <1> QED
    BY <1>1, <1>2, <1>3, <1>4, <1>5 DEF IInv

LEMMA NextIInv ==
  ASSUME IInv, [Next]_vars
  PROVE  IInv'
  <1>1. TypeOK /\ LocksInv /\ MessagesInv
    BY DEF IInv, LocksInv, MessagesInv
  <1>2. TypeOK' /\ LocksInv' /\ MessagesInv'
    <2>1. CASE UNCHANGED vars
      <3>1. /\ UNCHANGED <<llmAvailable, table, older, locked, waiters, woken, turn, messages>>
            /\ UNCHANGED <<late, torn, overrun>>
        BY <2>1 DEF vars, locks, history
      <3>2. TypeOK'
        BY <1>1, <3>1 DEF TypeOK
      <3>3. MessagesInv'
        BY <1>1, <3>1, MessagesSame
      <3>4. Locking' /\ SameLock' /\ HeldByOne'
        BY <1>1, <3>1 DEF LocksInv, Locking, SameLock, HeldByOne, Waiting, Inside
      <3>5. InLine' /\ LinesOfWaiting' /\ WokenIsFirst'
        BY <1>1, <3>1 DEF LocksInv, InLine, LinesOfWaiting, WokenIsFirst, Waiting
      <3> QED
        BY <3>2, <3>3, <3>4, <3>5 DEF LocksInv
    <2>2. CASE Next
      <3>1. ASSUME NEW t \in Turns, NEW k \in Conversations, Enter(t, k) \/ StoreDegradedQuestion(t, k)
            PROVE  TypeOK' /\ LocksInv' /\ MessagesInv'
        BY <1>1, <3>1, InvEnter, InvStoreDegradedQuestion
      <3>2. ASSUME NEW t \in Turns,
                   \/ Resume(t) \/ StoreQuestion(t) \/ StoreAnswer(t) \/ StoreDegradedAnswer(t)
                   \/ BreakOff(t) \/ Abandon(t)
            PROVE  TypeOK' /\ LocksInv' /\ MessagesInv'
        BY <1>1, <3>2, InvResume, InvStoreQuestion, InvStoreAnswer, InvStoreDegradedAnswer,
           InvBreakOff, InvAbandon
      <3>3. ASSUME NEW w \in late, LateStore(w)
            PROVE  TypeOK' /\ LocksInv' /\ MessagesInv'
        BY <1>1, <3>3, InvLateStore
      <3> QED
        BY <2>2, <3>1, <3>2, <3>3 DEF Next
    <2> QED
      BY <2>1, <2>2
  <1> QED
    BY <1>2 DEF IInv, LocksInv, MessagesInv

\* The table, the locks, their lines and the stored messages at every state.
THEOREM Invariance == Spec => []IInv
  BY InitIInv, NextIInv, PTL DEF Spec

\* Type correctness.
THEOREM TypeCorrect == Spec => []TypeOK
  <1>1. IInv => TypeOK
    BY DEF IInv
  <1> QED
    BY <1>1, Invariance, PTL

\* Two turns of a conversation are never inside at once, whatever the full table
\* drops, except where it dropped the lock of a turn that was in line.
THEOREM SerialisesTurns == Spec => []TurnsSerialised
  <1>1. IInv => TurnsSerialised
    BY OneInside DEF IInv, LocksInv, TurnsSerialised
  <1> QED
    BY <1>1, Invariance, PTL

\* Questions have different numbers, and where turns are serialised every answer
\* has the number of its question, unless the thread of a cancelled turn stored a
\* message between the two.
THEOREM PairsAnswers == Spec => []AnswersPaired
  <1>1. IInv => AnswersPaired
    BY DEF IInv
  <1> QED
    BY <1>1, Invariance, PTL

=============================================================================
