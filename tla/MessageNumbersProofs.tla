------------------------ MODULE MessageNumbersProofs ------------------------
(***************************************************************************)
(* Proofs about MessageNumbers for any threads, conversations and mutexes, *)
(* and any size of the table.                                              *)
(***************************************************************************)
EXTENDS MessageNumbers, SequenceTheorems, WellFoundedInduction, TLAPS

\* A set of numbers with a bound has a largest element.
LEMMA LargestExists ==
  ASSUME NEW S \in SUBSET Nat, S # {}, NEW b \in Nat, \A m \in S : m <= b
  PROVE  \E n \in S : \A m \in S : m <= n
  <1> DEFINE gaps == {b - m : m \in S}
  <1>1. gaps # {} /\ gaps \in SUBSET Nat
    <2>1. \A m \in S : b - m \in Nat
      OBVIOUS
    <2> QED
      BY <2>1
  <1>2. PICK g \in gaps : \A h \in gaps : ~(<<h, g>> \in OpToRel(<, Nat))
    BY <1>1, NatLessThanWellFounded, WFMin
  <1>3. PICK n \in S : \A m \in S : ~(b - m < b - n)
    BY <1>1, <1>2 DEF OpToRel
  <1> QED
    BY <1>3

Caller == {Idle} \union
    [step : {"got", "holding", "read"}, conversation : Conversations,
     role : Roles, lock : LockIds, last : Nat]

LEMMA StoredShape ==
  ASSUME TypeOK, NEW k \in Conversations
  PROVE  /\ messages[k] \in Seq([role : Roles, number : Nat])
         /\ Len(messages[k]) \in Nat /\ DOMAIN messages[k] = 1..Len(messages[k])
         /\ \A i \in DOMAIN messages[k] : messages[k][i].number \in Nat
         /\ messages[k] = <<>> <=> Len(messages[k]) = 0
  <1>1. messages[k] \in Seq([role : Roles, number : Nat])
    BY DEF TypeOK
  <1>2. ASSUME NEW i \in DOMAIN messages[k]
        PROVE  messages[k][i] \in [role : Roles, number : Nat]
    <2>1. i \in 1..Len(messages[k])
      BY <1>1
    <2> QED
      BY <1>1, <2>1, ElementOfSeq
  <1> QED
    BY <1>1, <1>2

-----------------------------------------------------------------------------
(* KeyedLocks.get *)

LEMMA DroppedAreFree ==
  ASSUME NEW k \in Dropped
  PROVE  k \in Conversations /\ table[k] # None /\ owner[table[k]] = None
  BY DEF Dropped, Oldest, Keys

LEMMA CallerKinds ==
  ASSUME TypeOK, NEW u \in Threads, caller[u].step # "idle"
  PROVE  /\ caller[u].step \in {"got", "holding", "read"}
         /\ caller[u].conversation \in Conversations
         /\ caller[u].role \in Roles
         /\ caller[u].lock \in LockIds
         /\ caller[u].last \in Nat
  BY DEF TypeOK, Idle

\* A mutex that is made goes into the table, and whoever loses the one he has
\* fetched is in a conversation that is torn from then on.
LEMMA MakeMutex ==
  ASSUME IInv, NEW t \in Threads, NEW k \in Conversations, NEW role \in Roles,
         Get(t, k, role), k \notin Keys
  PROVE  /\ \E l \in LockIds :
               /\ caller' = [caller EXCEPT ![t] =
                     [Idle EXCEPT !.step = "got", !.conversation = k, !.role = role, !.lock = l]]
               /\ table'[k] = l
         /\ table' \in [Conversations -> LockIds \union {None}]
         /\ older' \subseteq Conversations \X Conversations
         /\ torn \subseteq torn' /\ torn' \subseteq Conversations
         /\ \A u \in Threads :
               caller[u].step # "idle" /\ caller[u].conversation \notin torn' =>
                   table'[caller[u].conversation] = caller[u].lock
  <1>1. PICK l \in Unreferenced :
          /\ table' = [j \in Conversations |->
                         IF j = k THEN l ELSE IF j \in Dropped THEN None ELSE table[j]]
          /\ older' = {p \in older : p[1] \notin Dropped /\ p[2] \notin Dropped}
                         \union ((Keys \ Dropped) \X {k})
          /\ torn' = torn \union {caller[u].conversation : u \in Forsaken}
          /\ caller' = [caller EXCEPT ![t] =
                [Idle EXCEPT !.step = "got", !.conversation = k, !.role = role, !.lock = l]]
    BY DEF Get
  <1>2. l \in LockIds
    BY DEF Unreferenced
  <1>3. table' \in [Conversations -> LockIds \union {None}]
    BY <1>1, <1>2 DEF IInv, TypeOK
  <1>4. older' \subseteq Conversations \X Conversations
    BY <1>1 DEF IInv, TypeOK, Keys
  <1>5. torn' \subseteq Conversations
    BY <1>1, CallerKinds DEF IInv, TypeOK, Forsaken
  <1>6. ASSUME NEW u \in Threads, caller[u].step # "idle", caller[u].conversation \notin torn'
        PROVE  table'[caller[u].conversation] = caller[u].lock
    <2> DEFINE c == caller[u].conversation
    <2>1. table[c] = caller[u].lock /\ c \in Conversations /\ caller[u].lock \in LockIds
      BY <1>1, <1>6, CallerKinds DEF IInv, SameMutex
    <2>2. c # k
      BY <2>1, NoneAssumption DEF Keys
    <2>3. c \notin Dropped
      <3>1. SUFFICES ASSUME c \in Dropped PROVE FALSE
        OBVIOUS
      <3>2. owner[caller[u].lock] = None
        BY <2>1, <3>1, DroppedAreFree
      <3>3. caller[u].step = "got"
        BY <1>6, <3>2, CallerKinds, NoneAssumption DEF IInv, HoldersOwn
      <3>4. u \in Forsaken
        BY <2>1, <3>1, <3>3 DEF Forsaken
      <3> QED
        BY <1>1, <1>6, <3>4
    <2> QED
      BY <1>1, <2>1, <2>2, <2>3
  <1> QED
    BY <1>1, <1>2, <1>3, <1>4, <1>5, <1>6

LEMMA FindMutex ==
  ASSUME IInv, NEW t \in Threads, NEW k \in Conversations, NEW role \in Roles,
         Get(t, k, role), k \in Keys
  PROVE  /\ caller' = [caller EXCEPT ![t] =
               [Idle EXCEPT !.step = "got", !.conversation = k, !.role = role, !.lock = table[k]]]
         /\ table[k] \in LockIds
         /\ UNCHANGED <<table, older, torn>>
  BY DEF Get, IInv, TypeOK, Keys

LEMMA InvGet ==
  ASSUME IInv, NEW t \in Threads, NEW k \in Conversations, NEW role \in Roles, Get(t, k, role)
  PROVE  IInv'
  <1>1. /\ table' \in [Conversations -> LockIds \union {None}]
        /\ older' \subseteq Conversations \X Conversations
        /\ torn \subseteq torn' /\ torn' \subseteq Conversations
        /\ \A u \in Threads :
               caller[u].step # "idle" /\ caller[u].conversation \notin torn' =>
                   table'[caller[u].conversation] = caller[u].lock
    BY MakeMutex, FindMutex DEF IInv, TypeOK, SameMutex
  <1>2. PICK l \in LockIds :
          /\ caller' = [caller EXCEPT ![t] =
                [Idle EXCEPT !.step = "got", !.conversation = k, !.role = role, !.lock = l]]
          /\ table'[k] = l
    <2>1. CASE k \in Keys
      BY <2>1, FindMutex
    <2>2. CASE k \notin Keys
      BY <2>2, MakeMutex
    <2> QED
      BY <2>1, <2>2
  <1>3. UNCHANGED <<owner, messages>>
    BY DEF Get
  <1>4. caller'[t] = [step |-> "got", conversation |-> k, role |-> role, lock |-> l, last |-> 0]
    BY <1>2 DEF IInv, TypeOK, Idle
  <1>5. \A u \in Threads \ {t} : caller'[u] = caller[u]
    BY <1>2 DEF IInv, TypeOK
  <1>6. caller' \in [Threads -> Caller]
    BY <1>2 DEF IInv, TypeOK, Idle, Caller
  <1>7. TypeOK'
    BY <1>1, <1>3, <1>6 DEF IInv, TypeOK, Caller
  <1>8. SameMutex'
    BY <1>1, <1>2, <1>4, <1>5 DEF SameMutex
  <1>9. HoldersOwn'
    BY <1>3, <1>4, <1>5 DEF IInv, HoldersOwn
  <1>10. LastIsCurrent'
    BY <1>1, <1>3, <1>4, <1>5 DEF IInv, LastIsCurrent, LastNumber
  <1>11. Ascending' /\ NumbersInOrder'
    BY <1>1, <1>3 DEF IInv, Ascending, NumbersInOrder
  <1>12. NumbersBounded'
    BY <1>3, <1>4, <1>5, StoredShape DEF IInv, NumbersBounded
  <1>13. LastStored'
    BY <1>3, <1>4, <1>5 DEF IInv, LastStored
  <1> QED
    BY <1>7, <1>8, <1>9, <1>10, <1>11, <1>12, <1>13 DEF IInv

-----------------------------------------------------------------------------
(* add_message *)

\* What the others have read stays stored while nothing is stored.
LEMMA ReadStaysStored ==
  ASSUME LastStored, UNCHANGED messages, NEW t \in Threads,
         \A u \in Threads \ {t} : caller'[u] = caller[u],
         caller'[t].step = "read" =>
             caller'[t].last \in {0} \union {messages[caller'[t].conversation][i].number :
                                              i \in DOMAIN messages[caller'[t].conversation]}
  PROVE  LastStored'
  <1>1. SUFFICES ASSUME NEW u \in Threads, caller'[u].step = "read"
                 PROVE  caller'[u].last \in {0} \union
                          {messages[caller'[u].conversation][i].number :
                               i \in DOMAIN messages[caller'[u].conversation]}
    BY DEF LastStored
  <1>2. CASE u = t
    BY <1>1, <1>2
  <1>3. CASE u # t
    <2>1. caller'[u] = caller[u]
      BY <1>3
    <2> QED
      BY <1>1, <2>1 DEF LastStored
  <1> QED
    BY <1>2, <1>3

\* What ends a call: its mutex is free, and nobody else's.
LEMMA LeaveEffect ==
  ASSUME TypeOK, HoldersOwn, NEW t \in Threads, Leave(t)
  PROVE  /\ caller' \in [Threads -> Caller]
         /\ caller'[t] = Idle
         /\ \A u \in Threads \ {t} : caller'[u] = caller[u]
         /\ owner' \in [LockIds -> Threads \union {None}]
         /\ HoldersOwn'
  <1>1. /\ caller' \in [Threads -> Caller]
        /\ caller'[t] = Idle
        /\ \A u \in Threads \ {t} : caller'[u] = caller[u]
    BY DEF Leave, TypeOK, Caller
  <1>2. owner' \in [LockIds -> Threads \union {None}]
    BY DEF Leave, TypeOK
  <1>3. ASSUME NEW u \in Threads, caller'[u].step \in {"holding", "read"}
        PROVE  owner'[caller'[u].lock] = u
    <2>1. u # t /\ caller'[u] = caller[u]
      BY <1>1, <1>3 DEF Idle
    <2>2. owner[caller[u].lock] = u /\ caller[u].lock \in LockIds
      BY <1>3, <2>1, CallerKinds DEF HoldersOwn
    <2> QED
      BY <2>1, <2>2 DEF Leave
  <1> QED
    BY <1>1, <1>2, <1>3 DEF HoldersOwn

LEMMA InvAcquire ==
  ASSUME IInv, NEW t \in Threads, Acquire(t)
  PROVE  IInv'
  <1>1. /\ caller'[t] = [caller[t] EXCEPT !.step = "holding"]
        /\ \A u \in Threads \ {t} : caller'[u] = caller[u]
        /\ caller[t].step = "got"
        /\ UNCHANGED <<table, older, messages, torn>>
    BY DEF Acquire, IInv, TypeOK
  <1>2. caller[t] \in Caller \ {Idle}
    BY <1>1 DEF IInv, TypeOK, Caller, Idle
  <1>3. caller' \in [Threads -> Caller]
    BY <1>1, <1>2 DEF IInv, TypeOK, Caller, Acquire
  <1>4. owner' \in [LockIds -> Threads \union {None}] /\ owner'[caller[t].lock] = t
    BY <1>2 DEF Acquire, IInv, TypeOK, Caller
  <1>5. TypeOK'
    BY <1>1, <1>3, <1>4 DEF IInv, TypeOK, Caller
  <1>6. caller'[t].lock = caller[t].lock /\ caller'[t].conversation = caller[t].conversation
        /\ caller'[t].step = "holding"
    BY <1>1, <1>2 DEF Caller
  <1>7. SameMutex'
    <2>1. \A u \in Threads : /\ caller'[u].step # "idle" => caller[u].step # "idle"
                             /\ caller'[u].conversation = caller[u].conversation
                             /\ caller'[u].lock = caller[u].lock
      <3>1. caller[t].step # "idle"
        BY <1>1
      <3> QED
        BY <1>1, <1>6, <3>1
    <2> QED
      BY <1>1, <2>1 DEF IInv, SameMutex
  <1>8. ASSUME NEW u \in Threads, caller'[u].step \in {"holding", "read"}
        PROVE  owner'[caller'[u].lock] = u
    <2>1. CASE u = t
      BY <1>4, <1>6, <2>1
    <2>2. CASE u # t
      <3>1. owner[caller[u].lock] = u /\ caller[u].lock \in LockIds
        BY <1>1, <1>8, <2>2, CallerKinds DEF IInv, HoldersOwn
      <3>2. caller[u].lock # caller[t].lock
        BY <3>1, NoneAssumption DEF Acquire
      <3> QED
        BY <1>1, <2>2, <3>1, <3>2 DEF Acquire, IInv, TypeOK
    <2> QED
      BY <2>1, <2>2
  <1>9. LastIsCurrent'
    BY <1>1, <1>6 DEF IInv, LastIsCurrent, LastNumber
  <1>10. Ascending' /\ NumbersInOrder'
    BY <1>1 DEF IInv, Ascending, NumbersInOrder
  <1>11. NumbersBounded'
    <2>1. caller'[t].last = caller[t].last /\ caller[t].step # "idle"
      BY <1>1, <1>2 DEF Caller
    <2> QED
      BY <1>1, <1>6, <2>1 DEF IInv, NumbersBounded
  <1>12. LastStored'
    BY <1>1, <1>6, ReadStaysStored DEF IInv
  <1> QED
    BY <1>5, <1>7, <1>8, <1>9, <1>10, <1>11, <1>12 DEF IInv, HoldersOwn

\* SELECT max finds the number stored last, where the numbers ascend.
LEMMA LargestStored ==
  ASSUME IInv, NEW k \in Conversations
  PROVE  LET stored == {messages[k][i].number : i \in DOMAIN messages[k]}
             last   == IF stored = {} THEN 0 ELSE CHOOSE n \in stored : \A m \in stored : m <= n
         IN  /\ last \in Nat /\ last \in {0} \union stored
             /\ last <= Len(messages[k])
             /\ k \notin torn => last = LastNumber(k)
  <1> DEFINE stored == {messages[k][i].number : i \in DOMAIN messages[k]}
             last   == IF stored = {} THEN 0 ELSE CHOOSE n \in stored : \A m \in stored : m <= n
  <1>1. /\ Len(messages[k]) \in Nat /\ DOMAIN messages[k] = 1..Len(messages[k])
        /\ \A i \in DOMAIN messages[k] : messages[k][i].number \in Nat
        /\ messages[k] = <<>> <=> Len(messages[k]) = 0
    BY StoredShape DEF IInv
  <1>2. stored \in SUBSET Nat
    BY <1>1
  <1>3. \A m \in stored : m <= Len(messages[k])
    BY DEF IInv, NumbersBounded
  <1>4. CASE stored = {}
    <2>1. \A i \in DOMAIN messages[k] : FALSE
      BY <1>4
    <2>2. messages[k] = <<>>
      BY <1>1, <2>1
    <2> QED
      BY <1>1, <1>4, <2>2 DEF LastNumber
  <1>5. CASE stored # {}
    <2>1. last \in stored /\ \A m \in stored : m <= last
      <3> HIDE DEF stored
      <3>1. \E n \in stored : \A m \in stored : m <= n
        BY <1>1, <1>2, <1>3, <1>5, LargestExists
      <3> QED
        BY <1>5, <3>1
    <2>2. ASSUME k \notin torn
          PROVE  last = LastNumber(k)
      <3>1. Len(messages[k]) \in DOMAIN messages[k] /\ messages[k] # <<>>
        <4>1. PICK i \in DOMAIN messages[k] : TRUE
          BY <1>5
        <4> QED
          BY <1>1, <4>1
      <3>2. LastNumber(k) \in stored
        BY <3>1 DEF LastNumber
      <3>3. \A i \in DOMAIN messages[k] : i <= Len(messages[k])
        BY <1>1
      <3>4. \A m \in stored : m <= LastNumber(k)
        BY <2>2, <3>1, <3>3 DEF IInv, Ascending, LastNumber
      <3>5. last <= LastNumber(k) /\ LastNumber(k) <= last
        BY <2>1, <3>2, <3>4
      <3>6. last \in Nat /\ LastNumber(k) \in Nat
        BY <1>2, <2>1, <3>2
      <3> HIDE DEF last
      <3> QED
        BY <3>5, <3>6
    <2> QED
      BY <1>2, <1>3, <2>1, <2>2
  <1> QED
    BY <1>4, <1>5

LEMMA InvReadLast ==
  ASSUME IInv, NEW t \in Threads, ReadLast(t)
  PROVE  IInv'
  <1> DEFINE c == caller[t].conversation
             stored == {messages[c][i].number : i \in DOMAIN messages[c]}
             last   == IF stored = {} THEN 0 ELSE CHOOSE n \in stored : \A m \in stored : m <= n
  <1>1. /\ caller[t].step = "holding"
        /\ caller' = [caller EXCEPT ![t].step = "read", ![t].last = last]
        /\ UNCHANGED <<table, older, owner, messages, torn>>
    BY DEF ReadLast, MaxNumber
  <1>2. c \in Conversations /\ caller[t] \in Caller \ {Idle}
    BY <1>1, CallerKinds DEF IInv, TypeOK, Caller, Idle
  <1>3. /\ last \in Nat /\ last <= Len(messages[c]) /\ (c \notin torn => last = LastNumber(c))
        /\ last \in {0} \union {messages[c][i].number : i \in DOMAIN messages[c]}
    BY <1>2, LargestStored
  <1> HIDE DEF last
  <1>4. /\ caller'[t] = [caller[t] EXCEPT !.step = "read", !.last = last]
        /\ \A u \in Threads \ {t} : caller'[u] = caller[u]
    BY <1>1 DEF IInv, TypeOK
  <1>5. /\ caller'[t].step = "read" /\ caller'[t].last = last
        /\ caller'[t].conversation = c /\ caller'[t].lock = caller[t].lock
    BY <1>2, <1>4 DEF Caller
  <1>6. caller' \in [Threads -> Caller]
    BY <1>1, <1>2, <1>3 DEF IInv, TypeOK, Caller
  <1>7. TypeOK'
    BY <1>1, <1>6 DEF IInv, TypeOK, Caller
  <1>8. \A u \in Threads : /\ caller'[u].step # "idle" => caller[u].step # "idle"
                           /\ caller'[u].conversation = caller[u].conversation
                           /\ caller'[u].lock = caller[u].lock
                           /\ caller'[u].step \in {"holding", "read"} =>
                                 caller[u].step \in {"holding", "read"}
    <2>1. caller[t].step \in {"holding", "read"} /\ caller[t].step # "idle"
      BY <1>1
    <2> QED
      BY <1>4, <1>5, <2>1
  <1>9. SameMutex' /\ HoldersOwn'
    <2>1. UNCHANGED <<table, owner, torn>>
      BY <1>1
    <2> QED
      BY <1>8, <2>1 DEF IInv, SameMutex, HoldersOwn
  <1>10. LastIsCurrent'
    <2>0. UNCHANGED <<messages, torn>>
      BY <1>1
    <2>1. SUFFICES ASSUME NEW u \in Threads, caller'[u].step = "read",
                          caller'[u].conversation \notin torn
                   PROVE  caller'[u].last = LastNumber(caller'[u].conversation)
      BY <2>0 DEF LastIsCurrent, LastNumber
    <2>2. CASE u = t
      BY <1>3, <1>5, <2>1, <2>2
    <2>3. CASE u # t
      BY <1>4, <2>1, <2>3 DEF IInv, LastIsCurrent
    <2> QED
      BY <2>2, <2>3
  <1>11. NumbersBounded'
    BY <1>1, <1>3, <1>4, <1>5 DEF IInv, NumbersBounded
  <1>12. Ascending' /\ NumbersInOrder'
    BY <1>1 DEF IInv, Ascending, NumbersInOrder
  <1>13. LastStored'
    <2>1. LastStored /\ UNCHANGED messages
      BY <1>1 DEF IInv
    <2>2. caller'[t].last \in {0} \union {messages[caller'[t].conversation][i].number :
                                          i \in DOMAIN messages[caller'[t].conversation]}
      BY <1>3, <1>5
    <2> QED
      BY <1>4, <2>1, <2>2, ReadStaysStored
  <1> QED
    BY <1>7, <1>9, <1>10, <1>11, <1>12, <1>13 DEF IInv

LEMMA InvInsertFails ==
  ASSUME IInv, NEW t \in Threads, InsertFails(t)
  PROVE  IInv'
  <1>1. /\ caller' \in [Threads -> Caller]
        /\ caller'[t] = Idle
        /\ \A u \in Threads \ {t} : caller'[u] = caller[u]
        /\ owner' \in [LockIds -> Threads \union {None}]
        /\ HoldersOwn'
        /\ UNCHANGED <<table, older, messages, torn>>
    BY LeaveEffect DEF InsertFails, IInv
  <1>2. TypeOK'
    BY <1>1 DEF IInv, TypeOK, Caller
  <1>3. SameMutex' /\ LastIsCurrent' /\ NumbersBounded'
    BY <1>1 DEF IInv, SameMutex, LastIsCurrent, LastNumber, NumbersBounded, Idle
  <1>4. Ascending' /\ NumbersInOrder'
    BY <1>1 DEF IInv, Ascending, NumbersInOrder
  <1>5. LastStored'
    BY <1>1, ReadStaysStored DEF IInv, Idle
  <1> QED
    BY <1>1, <1>2, <1>3, <1>4, <1>5 DEF IInv

\* In a conversation that is not torn one thread at a time is between SELECT
\* max and INSERT: two would hold the same mutex.
LEMMA OneHolder ==
  ASSUME IInv, NEW t \in Threads, NEW u \in Threads,
         caller[t].step \in {"holding", "read"}, caller[u].step \in {"holding", "read"},
         caller[t].conversation = caller[u].conversation, caller[t].conversation \notin torn
  PROVE  t = u
  <1>1. caller[t].lock = caller[u].lock
    BY DEF IInv, SameMutex
  <1> QED
    BY <1>1 DEF IInv, HoldersOwn

LEMMA InvInsert ==
  ASSUME IInv, NEW t \in Threads, Insert(t)
  PROVE  IInv'
  <1> DEFINE c == caller[t].conversation
             number == IF caller[t].role = "user" THEN caller[t].last + 1 ELSE caller[t].last
             new == [role |-> caller[t].role, number |-> number]
  <1>1. /\ caller' \in [Threads -> Caller]
        /\ caller'[t] = Idle
        /\ \A u \in Threads \ {t} : caller'[u] = caller[u]
        /\ owner' \in [LockIds -> Threads \union {None}]
        /\ HoldersOwn'
        /\ UNCHANGED <<table, older, torn>>
    BY LeaveEffect DEF Insert, IInv
  <1>2. /\ caller[t].step = "read" /\ c \in Conversations /\ caller[t].last \in Nat
        /\ caller[t].role \in Roles
    BY CallerKinds DEF IInv, Insert
  <1>3. number \in Nat /\ new \in [role : Roles, number : Nat]
    BY <1>2
  <1>4. /\ messages'[c] = Append(messages[c], new)
        /\ \A k \in Conversations \ {c} : messages'[k] = messages[k]
        /\ messages' \in [Conversations -> Seq([role : Roles, number : Nat])]
    <2>1. messages' = [messages EXCEPT ![c] = Append(messages[c], new)]
      BY DEF Insert
    <2>2. Append(messages[c], new) \in Seq([role : Roles, number : Nat])
      BY <1>2, <1>3, StoredShape, AppendProperties DEF IInv
    <2> HIDE DEF new
    <2> QED
      BY <1>2, <2>1, <2>2 DEF IInv, TypeOK
  <1>5. TypeOK'
    BY <1>1, <1>4 DEF IInv, TypeOK, Caller
  <1>6. SameMutex'
    BY <1>1 DEF IInv, SameMutex, Idle
  <1> DEFINE n == Len(messages[c])
  <1>7. /\ n \in Nat /\ DOMAIN messages[c] = 1..n /\ DOMAIN messages'[c] = 1..(n + 1)
        /\ \A i \in 1..n : messages'[c][i] = messages[c][i]
        /\ messages'[c][n + 1] = new /\ Len(messages'[c]) = n + 1
        /\ messages[c] = <<>> <=> n = 0
        /\ \A i \in 1..n : messages[c][i].number \in Nat
    <2> HIDE DEF new
    <2> QED
      BY <1>2, <1>3, <1>4, StoredShape DEF IInv
  <1>8. c \notin torn => caller[t].last = LastNumber(c)
    BY <1>2 DEF IInv, LastIsCurrent
  <1> HIDE DEF n
  <1>9. NumbersBounded'
    <2>1. number <= n + 1 /\ \A i \in 1..n : messages[c][i].number <= n + 1
      BY <1>2, <1>7 DEF IInv, NumbersBounded, n
    <2>2. \A i \in DOMAIN messages'[c] : messages'[c][i].number <= n + 1
      BY <1>7, <2>1
    <2>3. ASSUME NEW u \in Threads, caller'[u].step # "idle"
          PROVE  caller'[u].last <= Len(messages'[caller'[u].conversation])
      <3>1. u # t /\ caller'[u] = caller[u]
        BY <1>1, <2>3 DEF Idle
      <3>2. /\ caller[u].last <= Len(messages[caller[u].conversation])
            /\ caller[u].conversation \in Conversations /\ caller[u].last \in Nat
        BY <2>3, <3>1, CallerKinds DEF IInv, NumbersBounded
      <3>3. CASE caller[u].conversation = c
        BY <1>7, <3>1, <3>2, <3>3 DEF n
      <3>4. CASE caller[u].conversation # c
        BY <1>4, <3>1, <3>2, <3>4
      <3> QED
        BY <3>3, <3>4
    <2> QED
      BY <1>4, <1>7, <2>2, <2>3 DEF IInv, NumbersBounded
  <1>10. LastIsCurrent'
    <2>1. SUFFICES ASSUME NEW u \in Threads, caller'[u].step = "read",
                          caller'[u].conversation \notin torn'
                   PROVE  (caller[u].last = LastNumber(caller[u].conversation))'
      BY DEF LastIsCurrent
    <2>2. u # t /\ caller'[u] = caller[u]
      BY <1>1, <2>1 DEF Idle
    <2>3. caller[u].conversation # c
      BY <1>1, <1>2, <2>1, <2>2, OneHolder
    <2>4. messages'[caller[u].conversation] = messages[caller[u].conversation]
      BY <1>4, <2>1, <2>2, <2>3, CallerKinds DEF IInv
    <2> QED
      BY <1>1, <2>1, <2>2, <2>4 DEF IInv, LastIsCurrent, LastNumber
  <1>11. c \notin torn => /\ \A i \in 1..n : messages[c][i].number <= number
                         /\ number = IF caller[t].role = "user" THEN LastNumber(c) + 1 ELSE LastNumber(c)
    <2>1. SUFFICES ASSUME c \notin torn
                   PROVE  \A i \in 1..n : messages[c][i].number <= caller[t].last
      BY <1>2, <1>7, <1>8
    <2>2. \A i \in 1..n : i <= n /\ n \in 1..n
      BY <1>7
    <2> QED
      BY <1>2, <1>7, <1>8, <2>1, <2>2 DEF IInv, Ascending, LastNumber, n
  <1> HIDE DEF number
  <1>12. Ascending'
    <2>1. SUFFICES ASSUME NEW k \in Conversations \ torn, NEW i \in DOMAIN messages'[k],
                          NEW j \in DOMAIN messages'[k], i <= j
                   PROVE  messages'[k][i].number <= messages'[k][j].number
      BY <1>1 DEF Ascending
    <2>2. CASE k # c
      BY <1>4, <2>1, <2>2 DEF IInv, Ascending
    <2>3. CASE k = c
      <3>1. CASE j = n + 1
        BY <1>3, <1>7, <1>11, <2>1, <2>3, <3>1
      <3>2. CASE j # n + 1
        <4>1. i \in 1..n /\ j \in 1..n
          BY <1>7, <2>1, <2>3, <3>2
        <4> QED
          BY <1>7, <2>1, <2>3, <4>1 DEF IInv, Ascending
      <3> QED
        BY <3>1, <3>2
    <2> QED
      BY <2>2, <2>3
  <1>13. NumbersInOrder'
    <2>1. SUFFICES ASSUME NEW k \in Conversations \ torn, NEW i \in DOMAIN messages'[k]
                   PROVE  LET before == IF i = 1 THEN 0 ELSE messages'[k][i - 1].number IN
                          messages'[k][i].number =
                              IF messages'[k][i].role = "user" THEN before + 1 ELSE before
      BY <1>1 DEF NumbersInOrder
    <2>2. CASE k # c
      <3>1. messages'[k] = messages[k] /\ i \in DOMAIN messages[k]
        BY <1>4, <2>1, <2>2
      <3> QED
        BY <3>1 DEF IInv, NumbersInOrder
    <2>3. CASE k = c /\ i = n + 1
      <3>1. CASE n = 0
        BY <1>7, <1>11, <2>1, <2>3, <3>1 DEF LastNumber
      <3>2. CASE n # 0
        <4>1. i # 1 /\ i - 1 = n /\ n \in 1..n
          BY <1>7, <2>3, <3>2
        <4>2. messages'[c][i - 1].number = LastNumber(c)
          BY <1>7, <4>1 DEF LastNumber, n
        <4> QED
          BY <1>7, <1>11, <2>1, <2>3, <4>1, <4>2
      <3> QED
        BY <3>1, <3>2
    <2>4. CASE k = c /\ i # n + 1
      <3>1. i \in 1..n /\ (i # 1 => i - 1 \in 1..n)
        BY <1>7, <2>1, <2>4
      <3>2. /\ messages'[k][i] = messages[k][i] /\ i \in DOMAIN messages[k]
            /\ i # 1 => messages'[k][i - 1] = messages[k][i - 1]
        BY <1>7, <2>4, <3>1
      <3> QED
        BY <3>2 DEF IInv, NumbersInOrder
    <2> QED
      BY <2>2, <2>3, <2>4
  <1>14. LastStored'
    <2>1. SUFFICES ASSUME NEW u \in Threads, caller'[u].step = "read"
                   PROVE  caller'[u].last \in {0} \union
                            {messages'[caller'[u].conversation][i].number :
                                 i \in DOMAIN messages'[caller'[u].conversation]}
      BY DEF LastStored
    <2>2. u # t /\ caller'[u] = caller[u] /\ caller[u].conversation \in Conversations
      BY <1>1, <2>1, CallerKinds DEF Idle, IInv
    <2>3. ASSUME NEW i \in DOMAIN messages[caller[u].conversation]
          PROVE  /\ i \in DOMAIN messages'[caller[u].conversation]
                 /\ messages'[caller[u].conversation][i] = messages[caller[u].conversation][i]
      <3>1. CASE caller[u].conversation = c
        BY <1>7, <2>3, <3>1
      <3>2. CASE caller[u].conversation # c
        BY <1>4, <2>2, <2>3, <3>2
      <3> QED
        BY <3>1, <3>2
    <2>4. caller[u].last \in {0} \union {messages[caller[u].conversation][i].number :
                                             i \in DOMAIN messages[caller[u].conversation]}
      BY <2>1, <2>2 DEF IInv, LastStored
    <2> QED
      BY <2>2, <2>3, <2>4
  <1> QED
    BY <1>1, <1>5, <1>6, <1>9, <1>10, <1>12, <1>13, <1>14 DEF IInv

-----------------------------------------------------------------------------
(* Theorems *)

LEMMA InitIInv == Init => IInv
  <1> SUFFICES ASSUME Init PROVE IInv
    OBVIOUS
  <1>1. TypeOK
    BY DEF Init, TypeOK
  <1>2. SameMutex /\ HoldersOwn /\ LastIsCurrent /\ LastStored
    BY DEF Init, SameMutex, HoldersOwn, LastIsCurrent, LastStored, Idle
  <1>3. Ascending /\ NumbersBounded /\ NumbersInOrder
    BY DEF Init, Ascending, NumbersBounded, NumbersInOrder, Idle
  <1> QED
    BY <1>1, <1>2, <1>3 DEF IInv

LEMMA NextIInv ==
  ASSUME IInv, [Next]_vars
  PROVE  IInv'
  <1>1. CASE UNCHANGED vars
    <2>1. TypeOK' /\ SameMutex' /\ HoldersOwn'
      BY <1>1 DEF vars, IInv, TypeOK, SameMutex, HoldersOwn
    <2>2. Ascending' /\ LastIsCurrent' /\ LastStored' /\ NumbersBounded' /\ NumbersInOrder'
      BY <1>1 DEF vars, IInv, Ascending, LastIsCurrent, LastStored, LastNumber, NumbersBounded, NumbersInOrder
    <2> QED
      BY <2>1, <2>2 DEF IInv
  <1>2. CASE Next
    BY <1>2, InvGet, InvAcquire, InvReadLast, InvInsert, InvInsertFails DEF Next
  <1> QED
    BY <1>1, <1>2

\* The mutexes, the callers and the stored numbers at every state.
THEOREM Invariance == Spec => []IInv
  BY InitIInv, NextIInv, PTL DEF Spec

\* Type correctness.
THEOREM TypeCorrect == Spec => []TypeOK
  <1>1. IInv => TypeOK
    BY DEF IInv
  <1> QED
    BY <1>1, Invariance, PTL

\* Messages are numbered in order whatever is dropped of a full table, except in
\* a conversation whose mutex was dropped between its lookup and its acquisition.
THEOREM NumbersAreInOrder == Spec => []NumbersInOrder
  <1>1. IInv => NumbersInOrder
    BY DEF IInv
  <1> QED
    BY <1>1, Invariance, PTL

-----------------------------------------------------------------------------
(* add_message is one step *)

\* The commit of an INSERT stores one message of the log.
LEMMA InsertStores ==
  ASSUME IInv, NEW t \in Threads, Insert(t)
  PROVE  Log!Next
  <1> DEFINE c == caller[t].conversation
             role == caller[t].role
             last == caller[t].last
  <1>1. /\ caller[t].step = "read" /\ c \in Conversations /\ role \in Log!Roles
    BY CallerKinds DEF IInv, Insert, Roles, Log!Roles
  <1>2. Log!Store(c, role, last) /\ UNCHANGED torn
    BY DEF Insert, Log!Store
  <1>3. CASE c \in torn
    <2>1. last \in Log!Numbers(c) \union {0}
      BY <1>1 DEF IInv, LastStored, Log!Numbers
    <2>2. Log!AddOutdated(c, role)
      BY <1>2, <1>3, <2>1 DEF Log!AddOutdated
    <2> QED
      BY <1>1, <2>2 DEF Log!Next
  <1>4. CASE c \notin torn
    <2>1. last = LastNumber(c)
      BY <1>1, <1>4 DEF IInv, LastIsCurrent
    <2>2. Log!Largest(c) = LastNumber(c)
      BY <1>1, <1>4, LargestStored DEF Log!Largest, Log!Numbers
    <2>3. Log!AddMessage(c, role)
      BY <1>2, <2>1, <2>2 DEF Log!AddMessage
    <2> QED
      BY <1>1, <2>3 DEF Log!Next
  <1> QED
    BY <1>3, <1>4

\* Dropping mutexes may tear conversations; the other steps store nothing.
LEMMA StepRefines == IInv /\ [Next]_vars => [Log!Next]_(Log!vars)
  <1> SUFFICES ASSUME IInv, [Next]_vars
               PROVE  [Log!Next]_(Log!vars)
    OBVIOUS
  <1>1. ASSUME NEW t \in Threads, NEW k \in Conversations, NEW role \in Roles, Get(t, k, role)
        PROVE  [Log!Next]_(Log!vars)
    <2>1. torn \subseteq torn' /\ torn' \subseteq Conversations
      BY <1>1, MakeMutex, FindMutex DEF IInv, TypeOK
    <2>2. torn' = torn \union torn' /\ UNCHANGED messages
      BY <1>1, <2>1 DEF Get
    <2>3. Log!Tear
      BY <2>1, <2>2 DEF Log!Tear
    <2> QED
      BY <2>3 DEF Log!Next
  <1>2. ASSUME NEW t \in Threads, Acquire(t) \/ ReadLast(t) \/ InsertFails(t)
        PROVE  UNCHANGED Log!vars
    BY <1>2 DEF Acquire, ReadLast, InsertFails, Log!vars
  <1>3. CASE UNCHANGED vars
    BY <1>3 DEF vars, Log!vars
  <1> QED
    BY <1>1, <1>2, <1>3, InsertStores DEF Next

\* Whatever threads do between the SELECT max and the INSERT of add_message, seen
\* from the stored messages each call is one step, as ConversationTurns takes it.
THEOREM Refinement == Spec => LogSpec
  <1>1. Init => Log!Init
    BY DEF Init, Log!Init
  <1> QED
    BY <1>1, StepRefines, Invariance, PTL DEF Spec, LogSpec, Log!Spec

=============================================================================
