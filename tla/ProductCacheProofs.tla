------------------------- MODULE ProductCacheProofs -------------------------
(***************************************************************************)
(* Proofs about ProductCache for any readers, writers and number of        *)
(* writes.                                                                 *)
(***************************************************************************)
EXTENDS ProductCache, TLAPS

-----------------------------------------------------------------------------
(* Reads *)

LEMMA InvHit ==
  ASSUME IInv, NEW r \in Readers, Hit(r)
  PROVE  IInv'
  <1>1. Promised \in Versions /\ Promised <= row /\ entry \in Versions
    BY MaxVersionAssumption DEF Promised, IInv, TypeOK, Versions, Hit
  <1>2. ~excused => entry >= Promised
    BY MaxVersionAssumption, NoEntryAssumption
    DEF Promised, IInv, TypeOK, Versions, StaleOnlyIfExcused, Hit
  <1>3. TypeOK'
    BY <1>1 DEF IInv, TypeOK, Hit
  <1> QED
    BY <1>1, <1>2, <1>3 DEF IInv, TypeOK, Hit, StaleOnlyIfExcused, Quiet

LEMMA InvMiss ==
  ASSUME IInv, NEW r \in Readers, Miss(r)
  PROVE  IInv'
  <1>1. Promised \in Versions /\ Promised <= row /\ 0 \in Versions
    BY MaxVersionAssumption DEF Promised, IInv, TypeOK, Versions
  <1>2. TypeOK'
    BY <1>1 DEF IInv, TypeOK, Miss, Trip
  <1> QED
    BY <1>1, <1>2 DEF IInv, TypeOK, Miss, StaleOnlyIfExcused, Quiet

LEMMA InvFetch ==
  ASSUME IInv, NEW r \in Readers, Fetch(r)
  PROVE  IInv'
  <1>1. TypeOK'
    BY DEF IInv, TypeOK, Fetch
  <1> QED
    BY <1>1 DEF IInv, TypeOK, Fetch, StaleOnlyIfExcused, Quiet

LEMMA InvFill ==
  ASSUME IInv, NEW r \in Readers, Fill(r)
  PROVE  IInv'
  <1>1. TypeOK'
    BY DEF IInv, TypeOK, Fill, Trip
  <1>2. StaleOnlyIfExcused'
    BY DEF IInv, TypeOK, Fill, StaleOnlyIfExcused, Quiet
  <1> QED
    BY <1>1, <1>2 DEF IInv, TypeOK, Fill

LEMMA InvLeave ==
  ASSUME IInv, NEW r \in Readers, Leave(r)
  PROVE  IInv'
  <1>1. TypeOK'
    BY MaxVersionAssumption DEF IInv, TypeOK, Leave, Resting, Versions
  <1> QED
    BY <1>1 DEF IInv, TypeOK, Leave, Resting, StaleOnlyIfExcused, Quiet

-----------------------------------------------------------------------------
(* Writes *)

LEMMA InvCommit ==
  ASSUME IInv, NEW w \in Writers, Commit(w)
  PROVE  IInv'
  <1>1. row + 1 \in Versions /\ row' = row + 1 /\ row \in Nat
    BY MaxVersionAssumption DEF IInv, TypeOK, Versions, Commit
  <1>2. TypeOK'
    BY <1>1 DEF IInv, TypeOK, Commit
  <1>3. ~Quiet'
    BY <1>1 DEF IInv, TypeOK, Commit, Quiet
  <1>4. StaleOnlyIfExcused'
    BY <1>3 DEF IInv, Commit, StaleOnlyIfExcused
  <1> QED
    BY <1>1, <1>2, <1>4, MaxVersionAssumption DEF IInv, TypeOK, Versions, Commit

LEMMA InvInvalidate ==
  ASSUME IInv, NEW w \in Writers, Invalidate(w)
  PROVE  IInv'
  <1>1. TypeOK'
    BY MaxVersionAssumption DEF IInv, TypeOK, Invalidate, Trip, Versions
  <1>2. StaleOnlyIfExcused'
    BY DEF IInv, Invalidate, StaleOnlyIfExcused
  <1> QED
    BY <1>1, <1>2, MaxVersionAssumption DEF IInv, TypeOK, Versions, Invalidate

LEMMA InvDie ==
  ASSUME IInv, NEW w \in Writers, Die(w)
  PROVE  IInv'
  <1>1. TypeOK'
    BY MaxVersionAssumption DEF IInv, TypeOK, Die, Versions
  <1> QED
    BY <1>1, MaxVersionAssumption DEF IInv, TypeOK, Versions, Die, StaleOnlyIfExcused

LEMMA InvAdminWrite ==
  ASSUME IInv, AdminWrite
  PROVE  IInv'
  <1>1. row + 1 \in Versions /\ row' = row + 1 /\ row \in Nat
    BY MaxVersionAssumption DEF IInv, TypeOK, Versions, AdminWrite
  <1>2. TypeOK'
    BY <1>1 DEF IInv, TypeOK, AdminWrite
  <1>3. StaleOnlyIfExcused'
    BY DEF AdminWrite, StaleOnlyIfExcused
  <1> QED
    BY <1>1, <1>2, <1>3, MaxVersionAssumption DEF IInv, TypeOK, Versions, AdminWrite

LEMMA InvRedis ==
  ASSUME IInv, Expire \/ CoolDown \/ Outage
  PROVE  IInv'
  <1>1. TypeOK'
    BY DEF IInv, TypeOK, Expire, CoolDown, Outage
  <1> QED
    BY <1>1 DEF IInv, Expire, CoolDown, Outage, StaleOnlyIfExcused, Quiet

-----------------------------------------------------------------------------
(* Theorems *)

LEMMA InitIInv == Init => IInv
  <1> SUFFICES ASSUME Init PROVE IInv
    OBVIOUS
  <1>1. TypeOK
    <2>1. 0 \in Versions
      BY MaxVersionAssumption DEF Versions
    <2> QED
      BY <2>1 DEF Init, TypeOK, Resting
  <1>2. StaleOnlyIfExcused
    BY DEF Init, StaleOnlyIfExcused, Resting
  <1> QED
    BY <1>1, <1>2 DEF Init, IInv, Resting

LEMMA NextIInv ==
  ASSUME IInv, [Next]_vars
  PROVE  IInv'
  <1>1. CASE UNCHANGED vars
    BY <1>1 DEF vars, IInv, TypeOK, StaleOnlyIfExcused, Quiet
  <1>2. CASE Next
    BY <1>2, InvHit, InvMiss, InvFetch, InvFill, InvLeave, InvCommit, InvInvalidate,
       InvDie, InvAdminWrite, InvRedis DEF Next
  <1> QED
    BY <1>1, <1>2

\* What holds of the reads and writes of the product at every state.
THEOREM Invariance == Spec => []IInv
  BY InitIInv, NextIInv, PTL DEF Spec

\* Type correctness.
THEOREM TypeCorrect == Spec => []TypeOK
  <1>1. IInv => TypeOK
    BY DEF IInv
  <1> QED
    BY <1>1, Invariance, PTL

\* The ways to become stale that the comment of the property names are all there
\* are, for any number of reads, orders and writes.
THEOREM StalenessExcused == Spec => []StaleOnlyIfExcused
  <1>1. IInv => StaleOnlyIfExcused
    BY DEF IInv
  <1> QED
    BY <1>1, Invariance, PTL

=============================================================================
