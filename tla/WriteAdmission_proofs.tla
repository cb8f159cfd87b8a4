----------------------- MODULE WriteAdmission_proofs ------------------------
(***************************************************************************)
(* Proofs about write admission, for every number of accounts, every       *)
(* length of the windows and every limit.                                  *)
(*                                                                         *)
(* The inductive invariant says that a bucket is never far from the log:   *)
(* it holds admitted writes only (Counted), never more than its limit      *)
(* (Bounded), its expiry lies a full window after each of its stamps       *)
(* (ExpirySound), and a write still in its window has not left it (Kept).  *)
(***************************************************************************)
EXTENDS WriteAdmission, FiniteSetTheorems, TLAPS

CallsFresh ==
  \A r \in sent : /\ r.stamp <= clock
                  /\ clock - r.stamp <= MaxLag
                  /\ r.stamp >= Eligible[r.acct]

LogPast == \A e \in admitted : e.stamp <= clock

Counted == \A k \in Keys : bucket[k] \subseteq AdmittedUnder(k)

Bounded == \A k \in Keys : /\ IsFiniteSet(bucket[k])
                           /\ Cardinality(bucket[k]) <= Limit(k)

ExpirySound == \A k \in Keys : \A e \in bucket[k] : e.stamp + Window(k) <= expireAt[k]

Kept == \A k \in Keys : InWindow(k) \subseteq Stored(k)

IInv == TypeOK /\ CallsFresh /\ LogPast /\ Counted /\ Bounded /\ ExpirySound /\ Kept

-----------------------------------------------------------------------------
(* Facts about keys, windows and entries.                                  *)

LEMMA KeyShape ==
  ASSUME NEW k \in Keys
  PROVE  /\ k[2] \in Accounts \cup {Everyone}
         /\ Window(k) \in Nat /\ Window(k) > 0 /\ Window(k) \in {Minute, Day}
         /\ Limit(k) \in Nat
  BY WindowAssumption, LimitAssumption DEF Keys, Window, Limit

\* The keys a call touches are those of its account and the shared one.
LEMMA TouchedKeys ==
  ASSUME NEW a \in Accounts, NEW k \in Keys
  PROVE  (\E i \in 1..3 : k = KeysOf(a)[i]) <=> k[2] \in {a, Everyone}
<1>1. KeysOf(a)[1] = <<"minute", a>> /\ KeysOf(a)[2] = <<"day", a>> /\ KeysOf(a)[3] = <<"all", Everyone>>
  BY DEF KeysOf
<1>2. (\E i \in 1..3 : k = KeysOf(a)[i]) <=>
         k = <<"minute", a>> \/ k = <<"day", a>> \/ k = <<"all", Everyone>>
  BY <1>1
<1>3. QED BY <1>2, CallAssumption DEF Keys

LEMMA EntriesFinite ==
  ASSUME NEW r \in Request
  PROVE  /\ EntriesOf(r) \subseteq Entry
         /\ IsFiniteSet(EntriesOf(r))
         /\ Cardinality(EntriesOf(r)) <= r.n
<1> DEFINE f == [j \in 1..r.n |-> [token |-> r.token, j |-> j, acct |-> r.acct, stamp |-> r.stamp]]
<1>1. r.n \in Nat BY CallAssumption DEF Request
<1>2. EntriesOf(r) \subseteq Entry BY <1>1 DEF EntriesOf, Entry, Request
<1>3. f \in Surjection(1..r.n, EntriesOf(r)) BY DEF Surjection, EntriesOf
<1>4. IsFiniteSet(1..r.n) /\ Cardinality(1..r.n) = r.n
  <2> HIDE DEF f
  <2>1. 1 \in Int /\ r.n \in Int BY <1>1
  <2>2. IsFiniteSet(1..r.n) /\ Cardinality(1..r.n) = IF 1 > r.n THEN 0 ELSE r.n - 1 + 1
    BY <2>1, FS_Interval
  <2> QED BY <1>1, <2>2
<1>5. QED BY <1>2, <1>3, <1>4, FS_Surjection

\* A trim keeps a subset of a subset of the bucket.
LEMMA TrimmedInBucket ==
  ASSUME NEW k, NEW now
  PROVE  Trimmed(k, now) \subseteq bucket[k]
  BY DEF Trimmed, Stored

\* What a key holds after a call of n writes it did not refuse.
LEMMA FillBounded ==
  ASSUME IInv, NEW r \in Request, NEW k \in Keys, ~Refuses(k, r.stamp, r.n)
  PROVE  LET after == Trimmed(k, r.stamp) \cup EntriesOf(r)
         IN  IsFiniteSet(after) /\ Cardinality(after) <= Limit(k)
<1> DEFINE T == Trimmed(k, r.stamp)
<1> DEFINE N == EntriesOf(r)
<1>1. IsFiniteSet(T) /\ Cardinality(T) \in Nat
  BY TrimmedInBucket, FS_Subset, FS_CardinalityType DEF IInv, Bounded
<1>2. IsFiniteSet(N) /\ Cardinality(N) \in Nat /\ Cardinality(N) <= r.n
  BY EntriesFinite, FS_CardinalityType
<1>3. /\ IsFiniteSet(T \cup N)
      /\ Cardinality(T \cup N) = Cardinality(T) + Cardinality(N) - Cardinality(T \cap N)
  BY <1>1, <1>2, FS_Union
<1>4. Cardinality(T \cap N) \in Nat BY <1>1, <1>2, FS_Intersection, FS_CardinalityType
<1>5. r.n \in Nat BY CallAssumption DEF Request
<1>6. Cardinality(T) + r.n <= Limit(k) BY <1>1, <1>5, KeyShape DEF Refuses
<1>7. Cardinality(T \cup N) <= Limit(k)
  BY <1>1, <1>2, <1>3, <1>4, <1>5, <1>6, KeyShape
<1>8. QED BY <1>3, <1>7

-----------------------------------------------------------------------------
(* The invariant is inductive: one lemma per action.                       *)

LEMMA TickKeeps == ASSUME IInv, Tick PROVE IInv'
<1> USE DEF IInv, Tick
<1>1. clock \in Nat /\ clock' = clock + 1 BY DEF TypeOK
<1>2. TypeOK' BY DEF TypeOK
<1>3. CallsFresh' BY <1>1, WindowAssumption DEF CallsFresh, TypeOK, Request
<1>4. Counted' BY DEF Counted, AdmittedUnder
<1>5. Bounded' BY DEF Bounded
<1>6. ExpirySound' BY DEF ExpirySound
<1>7. Kept'
  <2> SUFFICES ASSUME NEW k \in Keys, NEW e \in InWindow(k)'
               PROVE  e \in Stored(k)'
    BY DEF Kept
  <2>1. e \in Entry /\ e.stamp \in Nat BY DEF InWindow, AdmittedUnder, TypeOK, Entry
  <2>2. Window(k) \in Nat BY KeyShape
  <2>3. e.stamp > clock + 1 - Window(k) BY <1>1, <2>1, <2>2 DEF InWindow, Window, AdmittedUnder
  <2>4. e \in InWindow(k) BY <2>1, <2>2, <2>3, <1>1 DEF InWindow, AdmittedUnder
  <2>5. e \in bucket[k] BY <2>4 DEF Kept, Stored
  <2>6. e.stamp + Window(k) <= expireAt[k] BY <2>5 DEF ExpirySound
  <2>7. expireAt[k] \in Nat BY DEF TypeOK
  <2>8. clock' < expireAt[k] BY <1>1, <2>1, <2>2, <2>3, <2>6, <2>7
  <2>9. QED BY <2>5, <2>8 DEF Stored
<1>8. LogPast' BY <1>1 DEF LogPast, TypeOK, Entry
<1>9. QED BY <1>2, <1>3, <1>4, <1>5, <1>6, <1>7, <1>8

LEMMA AdmitWriteKeeps ==
  ASSUME IInv, NEW a \in Accounts, NEW n \in WriteSizes, AdmitWrite(a, n)
  PROVE  IInv'
<1> USE DEF IInv, AdmitWrite
<1>1. PICK t \in Tokens :
        sent' = sent \cup {[token |-> t, acct |-> a, n |-> n, stamp |-> clock]}
  OBVIOUS
<1>2. TypeOK' BY <1>1 DEF TypeOK, Request
<1>3. CallsFresh' BY <1>1, WindowAssumption DEF CallsFresh, TypeOK
<1>4. Counted' BY DEF Counted, AdmittedUnder
<1>5. Bounded' BY DEF Bounded
<1>6. ExpirySound' BY DEF ExpirySound
<1>7. Kept' BY DEF Kept, InWindow, AdmittedUnder, Stored
<1>8. LogPast' BY DEF LogPast
<1>9. QED BY <1>2, <1>3, <1>4, <1>5, <1>6, <1>7, <1>8

LEMMA ScriptRefusesKeeps ==
  ASSUME IInv, NEW r \in sent, ScriptRefuses(r)
  PROVE  IInv'
<1> USE DEF IInv
<1>1. r \in Request /\ r.acct \in Accounts /\ r.stamp \in Nat BY DEF TypeOK, Request
<1>2. sent' = sent \ {r} /\ UNCHANGED <<clock, expireAt, admitted>> BY DEF ScriptRefuses
<1>3. PICK i \in 1..3 : bucket' = [k \in Keys |->
            IF \E j \in 1..i : k = KeysOf(r.acct)[j] THEN Trimmed(k, r.stamp) ELSE bucket[k]]
  BY DEF ScriptRefuses
<1>4. \A k \in Keys : bucket'[k] = bucket[k] \/ bucket'[k] = Trimmed(k, r.stamp)
  BY <1>3
<1>5. \A k \in Keys : bucket'[k] \subseteq bucket[k] BY <1>4, TrimmedInBucket
<1>6. TypeOK'
  <2>1. bucket' \in [Keys -> SUBSET Entry] BY <1>3, <1>5 DEF TypeOK
  <2>2. QED BY <1>2, <2>1 DEF TypeOK
<1>7. CallsFresh' BY <1>2 DEF CallsFresh
<1>8. Counted' BY <1>2, <1>5 DEF Counted, AdmittedUnder
<1>9. Bounded'
  <2> SUFFICES ASSUME NEW k \in Keys
               PROVE  IsFiniteSet(bucket'[k]) /\ Cardinality(bucket'[k]) <= Limit(k)
    BY DEF Bounded
  <2>1. IsFiniteSet(bucket[k]) /\ Cardinality(bucket[k]) <= Limit(k) BY DEF Bounded
  <2>2. IsFiniteSet(bucket'[k]) /\ Cardinality(bucket'[k]) <= Cardinality(bucket[k])
    BY <1>5, <2>1, FS_Subset
  <2>3. Cardinality(bucket'[k]) \in Nat /\ Cardinality(bucket[k]) \in Nat
    BY <2>1, <2>2, FS_CardinalityType
  <2>4. QED BY <2>1, <2>2, <2>3, KeyShape
<1>10. ExpirySound' BY <1>2, <1>5 DEF ExpirySound
<1>11. Kept'
  <2> SUFFICES ASSUME NEW k \in Keys, NEW e \in InWindow(k)
               PROVE  e \in Stored(k)'
    BY <1>2 DEF Kept, InWindow, AdmittedUnder
  <2>1. e \in Stored(k) /\ clock < expireAt[k] /\ e \in bucket[k] BY DEF Kept, Stored
  <2>2. e.stamp \in Nat /\ Window(k) \in Nat /\ clock \in Nat
    BY KeyShape DEF InWindow, AdmittedUnder, TypeOK, Entry
  <2>3. r.stamp <= clock BY DEF CallsFresh
  <2>4. e.stamp > r.stamp - Window(k) BY <1>1, <2>2, <2>3 DEF InWindow
  <2>5. e \in bucket'[k] BY <1>4, <2>1, <2>4 DEF Trimmed
  <2>6. QED BY <1>2, <2>1, <2>5 DEF Stored
<1>12. LogPast' BY <1>2 DEF LogPast
<1>13. QED BY <1>6, <1>7, <1>8, <1>9, <1>10, <1>11, <1>12

LEMMA CallLostKeeps ==
  ASSUME IInv, NEW r \in sent, CallLost(r)
  PROVE  IInv'
<1> USE DEF IInv, CallLost
<1>1. TypeOK' BY DEF TypeOK
<1>2. CallsFresh' /\ LogPast' BY DEF CallsFresh, LogPast
<1>3. Counted' /\ Bounded' /\ ExpirySound' BY DEF Counted, Bounded, ExpirySound, AdmittedUnder
<1>4. Kept' BY DEF Kept, InWindow, AdmittedUnder, Stored
<1>5. QED BY <1>1, <1>2, <1>3, <1>4

\* The shape of an admission, key by key.
LEMMA AdmissionShape ==
  ASSUME IInv, NEW r \in sent, ScriptAdmits(r), NEW k \in Keys
  PROVE  /\ r \in Request /\ r.acct \in Accounts /\ r.stamp \in Nat
         /\ k[2] \in {r.acct, Everyone} =>
              /\ bucket'[k] = Trimmed(k, r.stamp) \cup EntriesOf(r)
              /\ expireAt'[k] = clock + Window(k)
              /\ ~Refuses(k, r.stamp, r.n)
         /\ k[2] \notin {r.acct, Everyone} =>
              bucket'[k] = bucket[k] /\ expireAt'[k] = expireAt[k]
<1>1. r \in Request /\ r.acct \in Accounts /\ r.stamp \in Nat BY DEF IInv, TypeOK, Request
<1>2. (\E i \in 1..3 : k = KeysOf(r.acct)[i]) <=> k[2] \in {r.acct, Everyone}
  BY <1>1, TouchedKeys
<1>3. QED BY <1>1, <1>2 DEF ScriptAdmits

LEMMA ScriptAdmitsKeeps ==
  ASSUME IInv, NEW r \in sent, ScriptAdmits(r)
  PROVE  IInv'
<1> USE DEF IInv
<1>1. r \in Request /\ r.acct \in Accounts /\ r.stamp \in Nat BY DEF TypeOK, Request
<1>2. clock' = clock /\ clock \in Nat /\ sent' \subseteq sent
  BY DEF ScriptAdmits, TypeOK
<1>3. admitted' = admitted \cup EntriesOf(r) BY DEF ScriptAdmits
<1>4. EntriesOf(r) \subseteq Entry BY <1>1, EntriesFinite
<1>5. \A e \in EntriesOf(r) : e.acct = r.acct /\ e.stamp = r.stamp BY DEF EntriesOf
<1>6. r.stamp <= clock BY DEF CallsFresh
<1>7. TypeOK'
  <2>1. \A k \in Keys : bucket'[k] \subseteq Entry
    BY <1>4, AdmissionShape, TrimmedInBucket DEF TypeOK
  <2>2. bucket' \in [Keys -> SUBSET Entry] BY <2>1 DEF ScriptAdmits
  <2>3. \A k \in Keys : expireAt'[k] \in Nat BY <1>2, AdmissionShape, KeyShape DEF TypeOK
  <2>4. expireAt' \in [Keys -> Nat] BY <2>3 DEF ScriptAdmits
  <2>5. QED BY <1>2, <1>3, <1>4, <2>2, <2>4 DEF TypeOK
<1>8. CallsFresh' BY <1>2 DEF CallsFresh
<1>9. Counted'
  <2> SUFFICES ASSUME NEW k \in Keys, NEW e \in bucket'[k]
               PROVE  e \in admitted' /\ k[2] \in {e.acct, Everyone}
    BY DEF Counted, AdmittedUnder
  <2>1. CASE e \in bucket[k] BY <1>3, <2>1 DEF Counted, AdmittedUnder
  <2>2. CASE e \notin bucket[k]
    <3>1. k[2] \in {r.acct, Everyone} /\ e \in EntriesOf(r)
      BY <2>2, AdmissionShape, TrimmedInBucket
    <3>2. QED BY <1>3, <1>5, <3>1
  <2>3. QED BY <2>1, <2>2
<1>10. Bounded'
  <2> SUFFICES ASSUME NEW k \in Keys
               PROVE  IsFiniteSet(bucket'[k]) /\ Cardinality(bucket'[k]) <= Limit(k)
    BY DEF Bounded
  <2>1. CASE k[2] \in {r.acct, Everyone} BY <1>1, <2>1, AdmissionShape, FillBounded
  <2>2. CASE k[2] \notin {r.acct, Everyone} BY <2>2, AdmissionShape DEF Bounded
  <2>3. QED BY <2>1, <2>2
<1>11. ExpirySound'
  <2> SUFFICES ASSUME NEW k \in Keys, NEW e \in bucket'[k]
               PROVE  e.stamp + Window(k) <= expireAt'[k]
    BY DEF ExpirySound, Window
  <2>1. Window(k) \in Nat /\ Window(k) > 0 /\ expireAt[k] \in Nat BY KeyShape DEF TypeOK
  <2>2. e \in Entry /\ e.stamp \in Nat BY <1>7 DEF TypeOK, Entry
  <2>3. CASE k[2] \notin {r.acct, Everyone} BY <2>3, AdmissionShape DEF ExpirySound
  <2>4. CASE k[2] \in {r.acct, Everyone}
    <3>1. expireAt'[k] = clock + Window(k) BY <2>4, AdmissionShape
    <3>2. CASE e \in EntriesOf(r) BY <1>1, <1>2, <1>5, <1>6, <2>1, <3>1, <3>2
    <3>3. CASE e \in Trimmed(k, r.stamp)
      <4>1. e \in bucket[k] BY <3>3, TrimmedInBucket
      <4>2. e.stamp <= clock BY <4>1 DEF Counted, AdmittedUnder, LogPast
      <4>3. QED BY <1>2, <2>1, <2>2, <3>1, <4>2
    <3>4. QED BY <2>4, <3>2, <3>3, AdmissionShape
  <2>5. QED BY <2>3, <2>4
<1>12. Kept'
  <2> SUFFICES ASSUME NEW k \in Keys, NEW e \in InWindow(k)'
               PROVE  e \in Stored(k)'
    BY DEF Kept
  <2>1. Window(k) \in Nat /\ Window(k) > 0 BY KeyShape
  <2>2. /\ e \in admitted' /\ k[2] \in {e.acct, Everyone}
        /\ e \in Entry /\ e.stamp \in Nat /\ e.stamp > clock - Window(k)
    BY <1>2, <1>7, <2>1 DEF InWindow, AdmittedUnder, Window, TypeOK, Entry
  <2>3. CASE e \in admitted
    <3>1. e \in InWindow(k) BY <2>2, <2>3 DEF InWindow, AdmittedUnder
    <3>2. e \in Stored(k) /\ e \in bucket[k] /\ clock < expireAt[k] BY <3>1 DEF Kept, Stored
    <3>3. CASE k[2] \notin {r.acct, Everyone}
      BY <1>2, <3>2, <3>3, AdmissionShape DEF Stored
    <3>4. CASE k[2] \in {r.acct, Everyone}
      <4>1. e.stamp > r.stamp - Window(k) BY <1>1, <1>2, <1>6, <2>1, <2>2
      <4>2. e \in bucket'[k] BY <3>2, <3>4, <4>1, AdmissionShape DEF Trimmed
      <4>3. clock' < expireAt'[k] BY <1>2, <2>1, <3>4, AdmissionShape
      <4>4. QED BY <4>2, <4>3 DEF Stored
    <3>5. QED BY <3>3, <3>4
  <2>4. CASE e \notin admitted
    <3>1. e \in EntriesOf(r) /\ k[2] \in {r.acct, Everyone} BY <1>3, <1>5, <2>2, <2>4
    <3>2. e \in bucket'[k] /\ clock' < expireAt'[k] BY <1>2, <2>1, <3>1, AdmissionShape
    <3>3. QED BY <3>2 DEF Stored
  <2>5. QED BY <2>3, <2>4
<1>13. LogPast' BY <1>2, <1>3, <1>5, <1>6 DEF LogPast
<1>14. QED BY <1>7, <1>8, <1>9, <1>10, <1>11, <1>12, <1>13

-----------------------------------------------------------------------------
(* The theorems.                                                           *)

LEMMA InitEstablishes == ASSUME Init PROVE IInv
<1> USE DEF Init
<1>1. TypeOK BY DEF TypeOK
<1>2. CallsFresh /\ LogPast /\ Counted /\ ExpirySound
  BY DEF CallsFresh, LogPast, Counted, ExpirySound
<1>3. Bounded BY FS_EmptySet, KeyShape DEF Bounded
<1>4. Kept BY DEF Kept, InWindow, AdmittedUnder
<1>5. QED BY <1>1, <1>2, <1>3, <1>4 DEF IInv

LEMMA StepKeeps == ASSUME IInv, [Next]_vars PROVE IInv'
<1>1. CASE Tick BY <1>1, TickKeeps
<1>2. ASSUME NEW a \in Accounts, NEW n \in WriteSizes, AdmitWrite(a, n) PROVE IInv'
  BY <1>2, AdmitWriteKeeps
<1>3. ASSUME NEW r \in sent, ScriptAdmits(r) PROVE IInv' BY <1>3, ScriptAdmitsKeeps
<1>4. ASSUME NEW r \in sent, ScriptRefuses(r) PROVE IInv' BY <1>4, ScriptRefusesKeeps
<1>5. ASSUME NEW r \in sent, CallLost(r) PROVE IInv' BY <1>5, CallLostKeeps
<1>6. CASE UNCHANGED vars
  <2>1. TypeOK' /\ CallsFresh' /\ LogPast' BY <1>6 DEF vars, IInv, TypeOK, CallsFresh, LogPast
  <2>2. Counted' /\ Bounded' /\ ExpirySound'
    BY <1>6 DEF vars, IInv, Counted, Bounded, ExpirySound, AdmittedUnder
  <2>3. Kept' BY <1>6 DEF vars, IInv, Kept, InWindow, AdmittedUnder, Stored
  <2>4. QED BY <2>1, <2>2, <2>3 DEF IInv
<1>7. QED BY <1>1, <1>2, <1>3, <1>4, <1>5, <1>6 DEF Next

\* Every reachable state satisfies the inductive invariant.
THEOREM Invariance == Spec => []IInv
<1>1. Init => IInv BY InitEstablishes
<1>2. IInv /\ [Next]_vars => IInv' BY StepKeeps
<1>3. QED BY <1>1, <1>2, PTL DEF Spec

\* The variables of write admission keep their types.
THEOREM TypeCorrect == Spec => []TypeOK
BY Invariance, PTL DEF IInv

\* A refused write consumes nothing: buckets count admitted writes only.
THEOREM RefusalsAreFree == Spec => []OnlyAdmittedCounted
<1>1. IInv => OnlyAdmittedCounted BY DEF IInv, Counted, OnlyAdmittedCounted, Stored
<1>2. QED BY <1>1, Invariance, PTL

\* No write is forgotten while its window runs, by a trim or by the expiry.
THEOREM NothingForgotten == Spec => []InWindowKept
<1>1. IInv => InWindowKept BY DEF IInv, Kept, InWindowKept
<1>2. QED BY <1>1, Invariance, PTL

LEMMA WindowLimitHolds == ASSUME IInv PROVE WindowLimit
<1> SUFFICES ASSUME NEW k \in Keys PROVE Cardinality(InWindow(k)) <= Limit(k)
  BY DEF WindowLimit
<1>1. IsFiniteSet(bucket[k]) /\ Cardinality(bucket[k]) <= Limit(k) BY DEF IInv, Bounded
<1>2. InWindow(k) \subseteq bucket[k] BY DEF IInv, Kept, Stored
<1>3. IsFiniteSet(InWindow(k)) /\ Cardinality(InWindow(k)) <= Cardinality(bucket[k])
  BY <1>1, <1>2, FS_Subset
<1>4. Cardinality(InWindow(k)) \in Nat /\ Cardinality(bucket[k]) \in Nat
  BY <1>1, <1>3, FS_CardinalityType
<1>5. QED BY <1>1, <1>3, <1>4, KeyShape

\* The limits of the free tier and of the whole service hold at every instant,
\* whatever calls overlap and however late their scripts run.
THEOREM LimitsHold == Spec => []WindowLimit
BY Invariance, WindowLimitHolds, PTL

-----------------------------------------------------------------------------
(* The tolerance of the window when scripts run late.                      *)

BurstInv == IInv /\ BurstBound

LEMMA BurstAfterAdmission ==
  ASSUME BurstInv, NEW r \in sent, ScriptAdmits(r), IInv',
         NEW k \in Keys, NEW u \in -Day..clock
  PROVE  Cardinality(StampedIn(k, u, MaxLag)') <= Limit(k)
<1> DEFINE S == StampedIn(k, u, MaxLag)
<1> USE DEF BurstInv
<1>1. /\ r \in Request /\ r.acct \in Accounts /\ r.stamp \in Nat
      /\ r.stamp <= clock /\ clock - r.stamp <= MaxLag
      /\ clock \in Nat /\ clock' = clock
  BY DEF IInv, TypeOK, Request, CallsFresh, ScriptAdmits
<1>2. admitted' = admitted \cup EntriesOf(r) BY DEF ScriptAdmits
<1>3. \A e \in EntriesOf(r) : e.acct = r.acct /\ e.stamp = r.stamp BY DEF EntriesOf
<1>4. Window(k) \in Nat /\ Window(k) > 0 /\ u \in Int /\ MaxLag \in Nat /\ Day \in Nat
  BY KeyShape, WindowAssumption
<1>5. CASE S' = S BY <1>5 DEF BurstBound
<1>6. CASE S' # S
  \* The window looked at contains the new stamp, so it began after now - Window:
  \* all of its writes are still in the bucket.
  <2>1. /\ k[2] \in {r.acct, Everyone}
        /\ r.stamp > u /\ r.stamp <= u + Window(k) - MaxLag
    BY <1>1, <1>2, <1>3, <1>4, <1>6 DEF StampedIn, AdmittedUnder, Window
  <2>2. u >= clock - Window(k) BY <1>1, <1>4, <2>1
  <2>3. S' \subseteq InWindow(k)'
    <3> SUFFICES ASSUME NEW e \in S' PROVE e \in InWindow(k)'
      OBVIOUS
    <3>1. e \in AdmittedUnder(k)' /\ e.stamp > u BY DEF StampedIn
    <3>2. e.stamp \in Nat BY <3>1 DEF AdmittedUnder, IInv, TypeOK, Entry
    <3>3. e.stamp > clock' - Window(k) BY <1>1, <1>4, <2>2, <3>1, <3>2
    <3>4. QED BY <3>1, <3>3 DEF InWindow, Window
  <2>4. IsFiniteSet(bucket'[k]) /\ Cardinality(bucket'[k]) <= Limit(k)
    BY DEF IInv, Bounded, Limit
  <2>5. S' \subseteq bucket'[k] BY <2>3 DEF IInv, Kept, Stored
  <2>6. IsFiniteSet(S') /\ Cardinality(S') <= Cardinality(bucket'[k])
    BY <2>4, <2>5, FS_Subset
  <2>7. Cardinality(S') \in Nat /\ Cardinality(bucket'[k]) \in Nat
    BY <2>4, <2>6, FS_CardinalityType
  <2>8. QED BY <2>4, <2>6, <2>7, KeyShape
<1>7. QED BY <1>5, <1>6

LEMMA BurstStep == ASSUME BurstInv, [Next]_vars PROVE BurstInv'
<1>1. IInv' BY StepKeeps DEF BurstInv
<1>2. SUFFICES ASSUME NEW k \in Keys, NEW u \in -Day..clock'
               PROVE  Cardinality(StampedIn(k, u, MaxLag)') <= Limit(k)
  BY <1>1 DEF BurstInv, BurstBound, Limit
<1>3. CASE \E r \in sent : ScriptAdmits(r)
  <2>1. clock' = clock BY <1>3 DEF ScriptAdmits
  <2>2. QED BY <1>1, <1>3, <2>1, BurstAfterAdmission
<1>4. CASE ~ \E r \in sent : ScriptAdmits(r)
  <2>1. admitted' = admitted /\ (clock' = clock \/ Tick)
    BY <1>4 DEF Next, vars, Tick, AdmitWrite, ScriptRefuses, CallLost
  <2>2. StampedIn(k, u, MaxLag)' = StampedIn(k, u, MaxLag)
    BY <2>1 DEF StampedIn, AdmittedUnder, Window
  <2>3. CASE u \in -Day..clock BY <2>2, <2>3 DEF BurstInv, BurstBound
  <2>4. CASE u \notin -Day..clock
    \* A window that begins now holds nothing yet.
    <3>1. clock \in Nat /\ clock' \in Nat /\ Day \in Nat
      BY <1>1, WindowAssumption DEF BurstInv, IInv, TypeOK
    <3>2. u = clock' /\ u > clock BY <2>1, <2>4, <3>1 DEF Tick
    <3>3. \A e \in AdmittedUnder(k)' : e.stamp \in Nat /\ e.stamp <= clock'
      BY <1>1 DEF IInv, TypeOK, Entry, LogPast, AdmittedUnder
    <3>4. StampedIn(k, u, MaxLag)' = {} BY <3>1, <3>2, <3>3 DEF StampedIn
    <3>5. QED BY <3>4, FS_EmptySet, KeyShape
  <2>5. QED BY <2>3, <2>4
<1>5. QED BY <1>3, <1>4

\* In the order of stamps too: a window shorter than the nominal one by the
\* delivery lag never holds more than the limit, for any lag.
THEOREM BurstsBounded == Spec => []BurstBound
<1>1. Init => BurstInv
  <2> SUFFICES ASSUME Init PROVE BurstInv
    OBVIOUS
  <2>1. \A k \in Keys, u \in -Day..clock : StampedIn(k, u, MaxLag) = {}
    BY DEF Init, StampedIn, AdmittedUnder
  <2>2. BurstBound BY <2>1, FS_EmptySet, KeyShape DEF BurstBound
  <2>3. QED BY <2>2, InitEstablishes DEF BurstInv
<1>2. BurstInv /\ [Next]_vars => BurstInv' BY BurstStep
<1>3. BurstInv => BurstBound BY DEF BurstInv
<1>4. QED BY <1>1, <1>2, <1>3, PTL DEF Spec

-----------------------------------------------------------------------------
(* Refinement: the buckets implement the policy.                           *)

LEMMA AdmissionIsPolicy ==
  ASSUME IInv, IInv', NEW r \in sent, ScriptAdmits(r)
  PROVE  Policy!Next
<1>1. /\ r.token \in Tokens /\ r.acct \in Accounts /\ r.n \in WriteSizes
      /\ r.stamp \in Nat /\ r.stamp <= clock /\ clock - r.stamp <= MaxLag
      /\ r.stamp >= Eligible[r.acct] /\ clock \in Nat /\ clock' = clock
  BY DEF IInv, TypeOK, Request, CallsFresh, ScriptAdmits
<1>2. admitted' = admitted \cup Policy!Batch(r.token, r.acct, r.n, r.stamp)
  BY DEF ScriptAdmits, EntriesOf, Policy!Batch
<1>3. WindowLimit' BY WindowLimitHolds, PTL
<1>4. Policy!Within(admitted', r.acct)
  <2> DEFINE m == <<"minute", r.acct>>
             d == <<"day", r.acct>>
             g == <<"all", Everyone>>
  <2>1. m \in Keys /\ d \in Keys /\ g \in Keys BY <1>1 DEF Keys
  <2>2. \A e \in admitted' : e.acct \in Accounts BY DEF IInv, TypeOK, Entry
  <2>3. /\ m[2] = r.acct /\ d[2] = r.acct /\ g[2] = Everyone
        /\ Window(m) = Minute /\ Window(d) = Day /\ Window(g) = Day
        /\ Limit(m) = PerMinute /\ Limit(d) = PerDay /\ Limit(g) = GlobalPerDay
    BY DEF Window, Limit
  <2>4. \A k \in Keys : Cardinality(InWindow(k)') <= Limit(k) BY <1>3 DEF WindowLimit, Limit
  <2>5. InWindow(m)' = Policy!Recent(admitted', {r.acct}, Minute)
    BY <1>1, <2>2, <2>3, CallAssumption DEF InWindow, AdmittedUnder, Policy!Recent, Window
  <2>6. InWindow(d)' = Policy!Recent(admitted', {r.acct}, Day)
    BY <1>1, <2>2, <2>3, CallAssumption DEF InWindow, AdmittedUnder, Policy!Recent, Window
  <2>7. InWindow(g)' = Policy!Recent(admitted', Accounts, Day)
    BY <1>1, <2>2, <2>3, CallAssumption DEF InWindow, AdmittedUnder, Policy!Recent, Window
  <2>8. \A S : Policy!Cardinality(S) = Cardinality(S) BY DEF Policy!Cardinality, Cardinality
  <2>9. QED BY <2>1, <2>3, <2>4, <2>5, <2>6, <2>7, <2>8 DEF Policy!Within
<1>5. Policy!Admit(r.token, r.acct, r.n, r.stamp) BY <1>1, <1>2, <1>4 DEF Policy!Admit
<1>6. r.stamp \in 0..clock BY <1>1
<1>7. QED BY <1>1, <1>5, <1>6 DEF Policy!Next

LEMMA StepIsPolicy == ASSUME IInv, IInv', [Next]_vars PROVE [Policy!Next]_(Policy!vars)
<1>1. CASE Tick BY <1>1 DEF Tick, Policy!Next, Policy!Advance
<1>2. CASE \E a \in Accounts, n \in WriteSizes : AdmitWrite(a, n)
  BY <1>2 DEF AdmitWrite, Policy!vars
<1>3. CASE \E r \in sent : ScriptAdmits(r) BY <1>3, AdmissionIsPolicy
<1>4. CASE \E r \in sent : ScriptRefuses(r) \/ CallLost(r)
  BY <1>4 DEF ScriptRefuses, CallLost, Policy!vars
<1>5. CASE UNCHANGED vars BY <1>5 DEF vars, Policy!vars
<1>6. QED BY <1>1, <1>2, <1>3, <1>4, <1>5 DEF Next

\* Write admission implements the admission policy.
THEOREM PolicyImplemented == Spec => PolicyRefined
<1>1. Init => Policy!Init BY DEF Init, Policy!Init
<1>2. IInv /\ IInv' /\ [Next]_vars => [Policy!Next]_(Policy!vars) BY StepIsPolicy
<1>3. QED BY <1>1, <1>2, Invariance, PTL DEF Spec, PolicyRefined, Policy!Spec

-----------------------------------------------------------------------------
(* What remaining() tells.                                                 *)

\* remaining() counts the lower end of the window too, so it never counts less than
\* the script would.
LEMMA CountsEnough ==
  ASSUME IInv, NEW k \in Keys, NEW n \in Nat \ {0}, n <= LeftOf(k, clock)
  PROVE  ~Refuses(k, clock, n)
<1> DEFINE T == Trimmed(k, clock)
           S == {e \in Stored(k) : e.stamp >= clock - Window(k)}
<1>1. S \subseteq bucket[k] BY DEF Stored
<1>2. T \subseteq S
  <2>1. \A e \in Stored(k) : e.stamp \in Nat BY DEF IInv, TypeOK, Stored, Entry
  <2>2. clock - Window(k) \in Int BY KeyShape DEF IInv, TypeOK
  <2>3. QED BY <2>1, <2>2 DEF Trimmed
<1>3. IsFiniteSet(S) BY <1>1, FS_Subset DEF IInv, Bounded
<1>4. IsFiniteSet(T) /\ Cardinality(T) <= Cardinality(S) BY <1>2, <1>3, FS_Subset
<1>5. Cardinality(S) \in Nat /\ Cardinality(T) \in Nat BY <1>3, <1>4, FS_CardinalityType
<1>6. LeftOf(k, clock) = IF Limit(k) - Cardinality(S) > 0 THEN Limit(k) - Cardinality(S) ELSE 0
  BY DEF LeftOf, CountSince
<1> HIDE DEF T, S
<1>7. Cardinality(T) + n <= Limit(k) BY <1>4, <1>5, <1>6, KeyShape
<1>8. QED BY <1>5, <1>7, KeyShape DEF Refuses, T

\* An agent that writes no more than remaining() has just told it is refused by
\* neither of its own windows.
THEOREM RemainingHolds == Spec => []RemainingIsSafe
<1>1. IInv => RemainingIsSafe
  <2> SUFFICES ASSUME IInv, NEW a \in Accounts, NEW n \in WriteSizes,
                      n <= LeftOf(<<"minute", a>>, clock), n <= LeftOf(<<"day", a>>, clock)
               PROVE  /\ ~Refuses(<<"minute", a>>, clock, n)
                      /\ ~Refuses(<<"day", a>>, clock, n)
    BY DEF RemainingIsSafe, Remaining
  <2>1. <<"minute", a>> \in Keys /\ <<"day", a>> \in Keys BY DEF Keys
  <2>2. n \in Nat \ {0} BY CallAssumption
  <2>3. QED BY <2>1, <2>2, CountsEnough
<1>2. QED BY <1>1, Invariance, PTL
=============================================================================
