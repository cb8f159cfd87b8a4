------------------------ MODULE AdapterSlots_proofs ------------------------
(***************************************************************************)
(* Proofs about AdapterSlots, for any number of reads, listings and slots: *)
(* both pools keep the invariant of SlotPool_proofs, and as long as no     *)
(* request was given up on, the node works for calls that hold a slot.     *)
(* What is said of listings needs none of that: AgeInv.                    *)
(***************************************************************************)
EXTENDS AdapterSlots, FiniteSetTheorems, TLAPS

ReadPool == INSTANCE SlotPool_proofs WITH
  Calls <- Readers, Slots <- ReadSlots, Questions <- 2, Hurried <- TRUE,
  free <- readFree, queue <- readQueue, at <- readAt, working <- readWorking

ScanPool == INSTANCE SlotPool_proofs WITH
  Calls <- Listers, Slots <- ScanSlots, Questions <- 1, Hurried <- FALSE,
  free <- scanFree, queue <- scanQueue, at <- scanAt, working <- scanWorking

ReadInv ==
  /\ ReadPool!PoolInv
  /\ ReadPool!Enough
  /\ patient => ReadPool!Counted

ScanInv ==
  /\ ScanPool!PoolInv
  /\ ScanPool!Enough
  /\ patient => ScanPool!Counted

IInv == ReadInv /\ ScanInv /\ patient \in BOOLEAN

-----------------------------------------------------------------------------
\* Finitely many calls, and a number of slots.
LEMMA FinitePools == ReadPool!Finite /\ ScanPool!Finite
  <1>1. Reads \in Nat /\ Lists \in Nat /\ ReadSlots \in Nat /\ ScanSlots \in Nat
    BY ReadAssumption, ListAssumption
  <1>2. IsFiniteSet(1..Reads) /\ IsFiniteSet(1..Lists)
    BY <1>1, FS_Interval
  <1>3. \A S :
          /\ ReadPool!IsFiniteSet(S) <=> IsFiniteSet(S)
          /\ ScanPool!IsFiniteSet(S) <=> IsFiniteSet(S)
    BY DEF IsFiniteSet, ReadPool!IsFiniteSet, ScanPool!IsFiniteSet
  <1> QED BY <1>1, <1>2, <1>3 DEF ReadPool!Finite, ScanPool!Finite, Readers, Listers

\* Read in AdapterSlots is the pool that ReadPool is about.
LEMMA ReadIsOne ==
  ASSUME NEW c \in Readers
  PROVE  /\ Read!TakeSlot(c) => ReadPool!TakeSlot(c)
         /\ Read!Queue(c) => ReadPool!Queue(c)
         /\ Read!Served(c) => ReadPool!Served(c)
  <1>1. Read!TakeSlot(c) => ReadPool!TakeSlot(c)
    BY DEF Read!TakeSlot, ReadPool!TakeSlot, Read!Locked, ReadPool!Locked
  <1>2. Read!Queue(c) => ReadPool!Queue(c)
    BY DEF Read!Queue, ReadPool!Queue, Read!Locked, ReadPool!Locked
  <1>3. Read!Resume(c) => ReadPool!Resume(c)
    BY DEF Read!Resume, ReadPool!Resume, Read!Leave, ReadPool!Leave,
           Read!Share, ReadPool!Share, Read!Smaller, ReadPool!Smaller
  <1>4. Read!TurnAway(c) => ReadPool!TurnAway(c)
    BY DEF Read!TurnAway, ReadPool!TurnAway, Read!Leave, ReadPool!Leave,
           Read!Share, ReadPool!Share, Read!Smaller, ReadPool!Smaller,
           Read!Without, ReadPool!Without
  <1>5. Read!Answered(c) => ReadPool!Answered(c)
    BY DEF Read!Answered, ReadPool!Answered, Read!HandOn, ReadPool!HandOn,
           Read!Share, ReadPool!Share, Read!Smaller, ReadPool!Smaller,
           Read!Asking, ReadPool!Asking
  <1>6. Read!TimedOut(c) => ReadPool!TimedOut(c)
    BY DEF Read!TimedOut, ReadPool!TimedOut, Read!HandOn, ReadPool!HandOn,
           Read!Share, ReadPool!Share, Read!Smaller, ReadPool!Smaller,
           Read!Asking, ReadPool!Asking
  <1> QED BY <1>1, <1>2, <1>3, <1>4, <1>5, <1>6 DEF Read!Served, ReadPool!Served

\* What the two say of the whole pool.
LEMMA ReadSameCount ==
  /\ Read!Abandoned = ReadPool!Abandoned
  /\ Read!NodeFinishes => ReadPool!NodeFinishes
  /\ Read!PoolInit => ReadPool!PoolInit
  /\ ReadPool!Conserved => Read!Conserved
  <1>1. \A S : Read!Cardinality(S) = ReadPool!Cardinality(S)
    BY DEF Read!Cardinality, ReadPool!Cardinality
  <1>2. Read!Abandoned = ReadPool!Abandoned
    BY <1>1 DEF Read!Abandoned, ReadPool!Abandoned, Read!Asking, ReadPool!Asking
  <1>3. Read!NodeFinishes => ReadPool!NodeFinishes
    BY <1>2 DEF Read!NodeFinishes, ReadPool!NodeFinishes
  <1>4. Read!PoolInit => ReadPool!PoolInit
    BY DEF Read!PoolInit, ReadPool!PoolInit
  <1>5. ReadPool!Conserved => Read!Conserved
    BY <1>1 DEF Read!Conserved, ReadPool!Conserved, Read!Holders, ReadPool!Holders
  <1> QED BY <1>2, <1>3, <1>4, <1>5

\* Scan in RecordList is the pool that ScanPool is about.
LEMMA ScanIsOne ==
  ASSUME NEW c \in Listers
  PROVE  /\ Scan!TakeSlot(c) => ScanPool!TakeSlot(c)
         /\ Scan!Queue(c) => ScanPool!Queue(c)
         /\ Scan!Served(c) => ScanPool!Served(c)
  <1>1. Scan!TakeSlot(c) => ScanPool!TakeSlot(c)
    BY DEF Scan!TakeSlot, ScanPool!TakeSlot, Scan!Locked, ScanPool!Locked
  <1>2. Scan!Queue(c) => ScanPool!Queue(c)
    BY DEF Scan!Queue, ScanPool!Queue, Scan!Locked, ScanPool!Locked
  <1>3. Scan!Resume(c) => ScanPool!Resume(c)
    BY DEF Scan!Resume, ScanPool!Resume, Scan!Leave, ScanPool!Leave,
           Scan!Share, ScanPool!Share, Scan!Smaller, ScanPool!Smaller
  <1>4. Scan!TurnAway(c) => ScanPool!TurnAway(c)
    BY DEF Scan!TurnAway, ScanPool!TurnAway, Scan!Leave, ScanPool!Leave,
           Scan!Share, ScanPool!Share, Scan!Smaller, ScanPool!Smaller,
           Scan!Without, ScanPool!Without
  <1>5. Scan!Answered(c) => ScanPool!Answered(c)
    BY DEF Scan!Answered, ScanPool!Answered, Scan!HandOn, ScanPool!HandOn,
           Scan!Share, ScanPool!Share, Scan!Smaller, ScanPool!Smaller,
           Scan!Asking, ScanPool!Asking
  <1>6. Scan!TimedOut(c) => ScanPool!TimedOut(c)
    BY DEF Scan!TimedOut, ScanPool!TimedOut, Scan!HandOn, ScanPool!HandOn,
           Scan!Share, ScanPool!Share, Scan!Smaller, ScanPool!Smaller,
           Scan!Asking, ScanPool!Asking
  <1> QED BY <1>1, <1>2, <1>3, <1>4, <1>5, <1>6 DEF Scan!Served, ScanPool!Served

\* What the two say of the whole pool.
LEMMA ScanSameCount ==
  /\ Scan!Abandoned = ScanPool!Abandoned
  /\ Scan!NodeFinishes => ScanPool!NodeFinishes
  /\ Scan!PoolInit => ScanPool!PoolInit
  /\ ScanPool!Conserved => Scan!Conserved
  <1>1. \A S : Scan!Cardinality(S) = ScanPool!Cardinality(S)
    BY DEF Scan!Cardinality, ScanPool!Cardinality
  <1>2. Scan!Abandoned = ScanPool!Abandoned
    BY <1>1 DEF Scan!Abandoned, ScanPool!Abandoned, Scan!Asking, ScanPool!Asking
  <1>3. Scan!NodeFinishes => ScanPool!NodeFinishes
    BY <1>2 DEF Scan!NodeFinishes, ScanPool!NodeFinishes
  <1>4. Scan!PoolInit => ScanPool!PoolInit
    BY DEF Scan!PoolInit, ScanPool!PoolInit
  <1>5. ScanPool!Conserved => Scan!Conserved
    BY <1>1 DEF Scan!Conserved, ScanPool!Conserved, Scan!Holders, ScanPool!Holders
  <1> QED BY <1>2, <1>3, <1>4, <1>5

-----------------------------------------------------------------------------
\* Nothing happens to the reads.
LEMMA ReadStays ==
  ASSUME ReadInv, UNCHANGED readVars, patient' => patient
  PROVE  ReadInv'
  <1>1. UNCHANGED <<readFree, readQueue, readAt, readWorking>>
    BY DEF readVars
  <1>2. ReadPool!PoolInv'
    BY <1>1, ReadPool!StillKeeps DEF ReadInv
  <1>3. patient' => ReadPool!Counted'
    BY <1>1 DEF ReadInv, ReadPool!Counted, ReadPool!Askers, ReadPool!Asking
  <1>4. ReadPool!Enough'
    BY <1>1, ReadPool!StillEnough DEF ReadInv
  <1> QED BY <1>2, <1>3, <1>4 DEF ReadInv

\* A read arrives.
LEMMA ReadStarts ==
  ASSUME ReadInv, UNCHANGED patient, NEW c \in Readers, Read!TakeSlot(c) \/ Read!Queue(c)
  PROVE  ReadInv'
  <1>1. ReadPool!TakeSlot(c) \/ ReadPool!Queue(c)
    BY ReadIsOne
  <1>2. ReadPool!PoolInv'
    BY <1>1, FinitePools, ReadPool!TakeSlotKeeps, ReadPool!QueueKeeps DEF ReadInv
  <1>3. ReadPool!Enough'
    BY <1>1, FinitePools, ReadPool!EnoughKeeps DEF ReadInv
  <1>4. patient' => ReadPool!Counted'
    BY <1>1, FinitePools, ReadPool!TakeSlotCounted, ReadPool!QueueCounted DEF ReadInv
  <1> QED BY <1>2, <1>3, <1>4 DEF ReadInv

\* The event loop serves a read; no request is abandoned that patient does not tell of.
LEMMA ReadGoes ==
  ASSUME ReadInv, NEW c \in Readers, Read!Served(c), patient' => Read!Abandoned' = 0
  PROVE  ReadInv'
  <1>1. ReadPool!Served(c)
    BY ReadIsOne
  <1>2. ReadPool!PoolInv'
    BY <1>1, FinitePools, ReadPool!ServedKeeps DEF ReadInv
  <1>3. ReadPool!Enough'
    BY <1>1, FinitePools, ReadPool!EnoughKeeps DEF ReadInv
  <1>4. Read!Abandoned' = ReadPool!Abandoned'
    BY DEF Read!Abandoned, ReadPool!Abandoned, Read!Asking, ReadPool!Asking,
           Read!Cardinality, ReadPool!Cardinality
  <1>5. patient' => ReadPool!Counted'
    BY <1>3, <1>4, FinitePools, ReadPool!NoneCounted DEF ReadPool!Enough
  <1> QED BY <1>2, <1>3, <1>5 DEF ReadInv

\* The node is done with a request that nobody waits for: there is one only after a
\* call was given up on.
LEMMA ReadEnds ==
  ASSUME ReadInv, UNCHANGED patient, Read!NodeFinishes
  PROVE  ReadInv' /\ ~patient
  <1>1. ReadPool!NodeFinishes
    BY ReadSameCount
  <1>2. UNCHANGED <<readFree, readQueue, readAt>> /\ ReadPool!Abandoned > 0
    BY <1>1 DEF ReadPool!NodeFinishes
  <1>3. ReadPool!PoolInv'
    BY <1>2, ReadPool!StillKeeps DEF ReadInv
  <1>4. ~patient
    BY <1>2, FinitePools, ReadPool!CountedNone DEF ReadInv
  <1>5. ReadPool!Enough'
    BY <1>1, FinitePools, ReadPool!FinishEnough DEF ReadInv
  <1> QED BY <1>3, <1>4, <1>5 DEF ReadInv

\* The same of the scans: nothing happens to them,
LEMMA ScanStays ==
  ASSUME ScanInv, UNCHANGED scanVars, patient' => patient
  PROVE  ScanInv'
  <1>1. UNCHANGED <<scanFree, scanQueue, scanAt, scanWorking>>
    BY DEF scanVars
  <1>2. ScanPool!PoolInv'
    BY <1>1, ScanPool!StillKeeps DEF ScanInv
  <1>3. patient' => ScanPool!Counted'
    BY <1>1 DEF ScanInv, ScanPool!Counted, ScanPool!Askers, ScanPool!Asking
  <1>4. ScanPool!Enough'
    BY <1>1, ScanPool!StillEnough DEF ScanInv
  <1> QED BY <1>2, <1>3, <1>4 DEF ScanInv

\* a scan is asked for,
LEMMA ScanBegins ==
  ASSUME ScanInv, patient' => patient, NEW c \in Listers, Scan!TakeSlot(c) \/ Scan!Queue(c)
  PROVE  ScanInv'
  <1>1. ScanPool!TakeSlot(c) \/ ScanPool!Queue(c)
    BY ScanIsOne
  <1>2. ScanPool!PoolInv'
    BY <1>1, FinitePools, ScanPool!TakeSlotKeeps, ScanPool!QueueKeeps DEF ScanInv
  <1>3. ScanPool!Enough'
    BY <1>1, FinitePools, ScanPool!EnoughKeeps DEF ScanInv
  <1>4. patient' => ScanPool!Counted'
    BY <1>1, FinitePools, ScanPool!TakeSlotCounted, ScanPool!QueueCounted DEF ScanInv
  <1> QED BY <1>2, <1>3, <1>4 DEF ScanInv

\* the event loop serves one,
LEMMA ScanGoes ==
  ASSUME ScanInv, NEW c \in Listers, Scan!Served(c), patient' => Scan!Abandoned' = 0
  PROVE  ScanInv'
  <1>1. ScanPool!Served(c)
    BY ScanIsOne
  <1>2. ScanPool!PoolInv'
    BY <1>1, FinitePools, ScanPool!ServedKeeps DEF ScanInv
  <1>3. ScanPool!Enough'
    BY <1>1, FinitePools, ScanPool!EnoughKeeps DEF ScanInv
  <1>4. Scan!Abandoned' = ScanPool!Abandoned'
    BY DEF Scan!Abandoned, ScanPool!Abandoned, Scan!Asking, ScanPool!Asking,
           Scan!Cardinality, ScanPool!Cardinality
  <1>5. patient' => ScanPool!Counted'
    BY <1>3, <1>4, FinitePools, ScanPool!NoneCounted DEF ScanPool!Enough
  <1> QED BY <1>2, <1>3, <1>5 DEF ScanInv

\* the node is done with one that nobody waits for.
LEMMA ScanEnds ==
  ASSUME ScanInv, UNCHANGED patient, Scan!NodeFinishes
  PROVE  ScanInv' /\ ~patient
  <1>1. ScanPool!NodeFinishes
    BY ScanSameCount
  <1>2. UNCHANGED <<scanFree, scanQueue, scanAt>> /\ ScanPool!Abandoned > 0
    BY <1>1 DEF ScanPool!NodeFinishes
  <1>3. ScanPool!PoolInv'
    BY <1>2, ScanPool!StillKeeps DEF ScanInv
  <1>4. ~patient
    BY <1>2, FinitePools, ScanPool!CountedNone DEF ScanInv
  <1>5. ScanPool!Enough'
    BY <1>1, FinitePools, ScanPool!FinishEnough DEF ScanInv
  <1> QED BY <1>3, <1>4, <1>5 DEF ScanInv

-----------------------------------------------------------------------------
\* Every reachable state has both pools' counts right.
LEMMA IInvHolds == Spec => []IInv
  <1>1. Init => IInv
    <2> SUFFICES ASSUME Init PROVE IInv
      OBVIOUS
    <2>1. ReadPool!PoolInit /\ ScanPool!PoolInit
      BY ReadSameCount, ScanSameCount DEF Init, ListInit
    <2>2. ReadPool!PoolInv /\ ScanPool!PoolInv
      BY <2>1, FinitePools, ReadPool!InitKeeps, ScanPool!InitKeeps
         DEF ReadPool!Finite, ScanPool!Finite
    <2>3. readWorking = 0 /\ scanWorking = 0 /\ patient = TRUE
      BY <2>1 DEF Init, ReadPool!PoolInit, ScanPool!PoolInit
    <2>4. ReadPool!Counted /\ ScanPool!Counted
      BY <2>1, ReadPool!InitCounted, ScanPool!InitCounted
    <2>5. ReadPool!Enough /\ ScanPool!Enough
      BY <2>3, <2>4 DEF ReadPool!Counted, ScanPool!Counted, ReadPool!Enough, ScanPool!Enough
    <2> QED BY <2>2, <2>3, <2>4, <2>5 DEF IInv, ReadInv, ScanInv
  <1>2. IInv /\ [Next]_vars => IInv'
    <2> SUFFICES ASSUME IInv, [Next]_vars PROVE IInv'
      OBVIOUS
    <2> USE DEF IInv
    <2>1. ASSUME NEW r \in Readers, ReadArrives(r) PROVE IInv'
      <3>1. UNCHANGED scanVars /\ UNCHANGED patient
        BY <2>1 DEF ReadArrives, listVars
      <3>2. Read!TakeSlot(r) \/ Read!Queue(r)
        BY <2>1 DEF ReadArrives
      <3> QED BY <3>1, <3>2, ReadStarts, ScanStays
    <2>2. ASSUME NEW r \in Readers, ReadServed(r) PROVE IInv'
      <3>1. UNCHANGED scanVars /\ Read!Served(r) /\ patient' = (patient /\ Read!Abandoned' = 0)
        BY <2>2 DEF ReadServed, listVars
      <3> QED BY <3>1, ReadGoes, ScanStays
    <2>3. ASSUME NEW l \in Listers, Listing(l) PROVE IInv'
      <3>1. UNCHANGED readVars /\ ListStep(l) /\ patient' = (patient /\ Scan!Abandoned' = 0)
        BY <2>3 DEF Listing
      <3>2. ReadInv'
        BY <3>1, ReadStays
      <3>3. CASE UNCHANGED scanVars
        BY <3>1, <3>2, <3>3, ScanStays
      <3>4. CASE AskForScan(l)
        <4>1. Scan!TakeSlot(l) \/ Scan!Queue(l)
          BY <3>4 DEF AskForScan
        <4> QED BY <3>1, <3>2, <4>1, ScanBegins
      <3>5. CASE ScanStep(l)
        <4>1. Scan!Served(l)
          BY <3>5 DEF ScanStep
        <4> QED BY <3>1, <3>2, <4>1, ScanGoes
      <3> QED BY <3>1, <3>3, <3>4, <3>5 DEF ListStep, FromCache, Tell, GiveUp
    <2>4. CASE Finishing
      <3>1. UNCHANGED patient
        BY <2>4 DEF Finishing
      <3>2. CASE Read!NodeFinishes /\ UNCHANGED scanVars
        BY <3>1, <3>2, ReadEnds, ScanStays
      <3>3. CASE Scan!NodeFinishes /\ UNCHANGED readVars
        BY <3>1, <3>3, ScanEnds, ReadStays
      <3> QED BY <2>4, <3>2, <3>3 DEF Finishing
    <2>5. CASE Ticking \/ UNCHANGED vars
      <3>1. UNCHANGED scanVars /\ UNCHANGED readVars /\ UNCHANGED patient
        BY <2>5 DEF Ticking, Tick, vars, listVars
      <3> QED BY <3>1, ReadStays, ScanStays
    <2> QED BY <2>1, <2>2, <2>3, <2>4, <2>5 DEF Next
  <1> QED BY <1>1, <1>2, PTL DEF Spec

\* No slot is lost or made up, whichever way a call ends.
THEOREM SlotsConservedHolds == Spec => []SlotsConserved
  <1>1. IInv => SlotsConserved
    <2> SUFFICES ASSUME IInv PROVE SlotsConserved
      OBVIOUS
    <2>1. ReadPool!Conserved /\ ScanPool!Conserved
      BY ReadPool!InvConserves, ScanPool!InvConserves DEF IInv, ReadInv, ScanInv
    <2> QED BY <2>1, ReadSameCount, ScanSameCount DEF SlotsConserved
  <1> QED BY <1>1, IInvHolds, PTL

\* As long as no request was given up on, the node has no more to work on than
\* there are slots.
THEOREM NodeSparedHolds == Spec => []NodeSpared
  <1>1. IInv => NodeSpared
    <2> SUFFICES ASSUME IInv, patient PROVE readWorking + scanWorking <= ReadSlots + ScanSlots
      BY DEF NodeSpared
    <2>1. /\ readWorking = ReadPool!Cardinality(ReadPool!Askers)
          /\ scanWorking = ScanPool!Cardinality(ScanPool!Askers)
      BY DEF IInv, ReadInv, ScanInv, ReadPool!Counted, ScanPool!Counted
    <2>2. readWorking \in Nat /\ readWorking <= ReadSlots
      BY <2>1, FinitePools, ReadPool!AskersHold DEF IInv, ReadInv
    <2>3. scanWorking \in Nat /\ scanWorking <= ScanSlots
      BY <2>1, FinitePools, ScanPool!AskersHold DEF IInv, ScanInv
    <2> QED BY <2>2, <2>3, ReadAssumption, ListAssumption
  <1> QED BY <1>1, IInvHolds, PTL

-----------------------------------------------------------------------------
(* Types.                                                                  *)

\* Those of the clock, of what is cached and of what was told.
ListTypes ==
  /\ clock \in 0..MaxTime
  /\ cache \in [of : 0..MaxTime, until : 0..(MaxTime + CacheSeconds)]
  /\ list \in [Listers -> [at : {"idle", "scanning", "scanned", "told", "failed"},
                           when : 0..MaxTime, of : 0..MaxTime]]

\* No step gives a listing a time after the clock's bound.
LEMMA ListTypesKeep ==
  ASSUME ListTypes, NEW l \in Listers, ListStep(l)
  PROVE  ListTypes'
  <1>1. /\ clock \in Nat /\ clock <= MaxTime /\ MaxTime \in Nat /\ CacheSeconds \in Nat
        /\ cache.of \in 0..MaxTime /\ list[l].of \in 0..MaxTime /\ list[l].when \in 0..MaxTime
    BY ListAssumption DEF ListTypes
  <1>2. UNCHANGED clock
    BY DEF ListStep, FromCache, AskForScan, ScanStep, Tell, GiveUp
  <1>3. cache' \in [of : 0..MaxTime, until : 0..(MaxTime + CacheSeconds)]
    BY <1>1 DEF ListTypes, ListStep, FromCache, AskForScan, ScanStep, Tell, GiveUp
  <1> DEFINE old == list[l]
             Listed == [at : {"idle", "scanning", "scanned", "told", "failed"},
                        when : 0..MaxTime, of : 0..MaxTime]
  <1>4. old \in Listed /\ clock \in 0..MaxTime
    BY DEF ListTypes
  <1>5. ASSUME NEW rec \in Listed, list' = [list EXCEPT ![l] = rec]
        PROVE  ListTypes'
    <2>1. list' \in [Listers -> Listed]
      BY <1>5 DEF ListTypes
    <2> QED BY <1>1, <1>2, <1>3, <2>1 DEF ListTypes
  <1>6. CASE list' = list
    BY <1>2, <1>3, <1>6 DEF ListTypes
  <1>7. CASE list' = [list EXCEPT ![l] = [at |-> "told", when |-> clock, of |-> cache.of]]
    <2>1. [at |-> "told", when |-> clock, of |-> cache.of] \in Listed
      BY <1>1, <1>4
    <2> QED BY <1>5, <1>7, <2>1
  <1>8. CASE list' = [list EXCEPT ![l] = [old EXCEPT !.at = "scanning", !.when = clock]]
    <2>1. [old EXCEPT !.at = "scanning", !.when = clock] \in Listed
      BY <1>1, <1>4
    <2> QED BY <1>5, <1>8, <2>1
  <1>9. CASE list' = [list EXCEPT ![l] = [old EXCEPT !.at = "scanned", !.of = clock]]
    <2>1. [old EXCEPT !.at = "scanned", !.of = clock] \in Listed
      BY <1>1, <1>4
    <2> QED BY <1>5, <1>9, <2>1
  <1>10. CASE list' = [list EXCEPT ![l] = [old EXCEPT !.at = "failed"]]
    <2>1. [old EXCEPT !.at = "failed"] \in Listed
      BY <1>1, <1>4
    <2> QED BY <1>5, <1>10, <2>1
  <1>11. CASE list' = [list EXCEPT ![l] = [old EXCEPT !.at = "told", !.when = clock]]
    <2>1. [old EXCEPT !.at = "told", !.when = clock] \in Listed
      BY <1>1, <1>4
    <2> QED BY <1>5, <1>11, <2>1
  <1> QED BY <1>6, <1>7, <1>8, <1>9, <1>10, <1>11
       DEF ListStep, FromCache, AskForScan, ScanStep, Tell, GiveUp

\* The variables have their types: no pool has more free slots than it has slots, and
\* the node never works on fewer requests than calls wait for.
THEOREM TypesHold == Spec => []TypeOK
  <1>1. Init => ListTypes
    BY ListAssumption DEF Init, ListInit, Nothing, ListTypes
  <1>2. ListTypes /\ [Next]_vars => ListTypes'
    <2> SUFFICES ASSUME ListTypes, [Next]_vars PROVE ListTypes'
      OBVIOUS
    <2>1. ASSUME NEW l \in Listers, Listing(l) PROVE ListTypes'
      BY <2>1, ListTypesKeep DEF Listing
    <2>2. CASE Tick
      BY <2>2, ListAssumption DEF ListTypes, Tick
    <2>3. CASE UNCHANGED <<clock, cache, list>>
      BY <2>3 DEF ListTypes
    <2> QED BY <2>1, <2>2, <2>3
         DEF Next, vars, listVars, ReadArrives, ReadServed, Finishing, Ticking
  <1>3. IInv /\ ListTypes => TypeOK
    <2> SUFFICES ASSUME IInv, ListTypes PROVE TypeOK
      OBVIOUS
    <2>1. ReadPool!PoolTypeOK /\ ScanPool!PoolTypeOK
      BY FinitePools, ReadPool!InvTypes, ScanPool!InvTypes DEF IInv, ReadInv, ScanInv
    <2>2. Read!PoolTypeOK /\ Scan!PoolTypeOK
      BY <2>1 DEF Read!PoolTypeOK, ReadPool!PoolTypeOK, Read!Stages, ReadPool!Stages,
           Read!Ended, ReadPool!Ended, Scan!PoolTypeOK, ScanPool!PoolTypeOK,
           Scan!Stages, ScanPool!Stages, Scan!Ended, ScanPool!Ended
    <2> QED BY <2>2 DEF TypeOK, ListTypes, IInv
  <1> QED BY <1>1, <1>2, <1>3, IInvHolds, PTL DEF Spec

-----------------------------------------------------------------------------
(* How old a listing is.                                                   *)

Entry == [at : {"idle", "scanning", "scanned", "told", "failed"}, when : Nat, of : Nat]

\* A scan answers a call that asked before it and has not waited too long, so
\* what the cache keeps is not much older than its term.
AgeInv ==
  /\ clock \in Nat
  /\ cache \in [of : Nat, until : Nat]
  /\ cache.until <= cache.of + CacheSeconds + Wait
  /\ list \in [Listers -> Entry]
  /\ \A l \in Listers :
       /\ Open(l) => clock <= list[l].when + Wait
       /\ list[l].at = "scanning" => list[l].when <= clock
       /\ list[l].at = "scanned" => list[l].when <= list[l].of
  /\ ListingAge

\* What one call does to its own listing, with the clock and the others still.
LEMMA OneListing ==
  ASSUME AgeInv, NEW l \in Listers, UNCHANGED clock,
         cache' \in [of : Nat, until : Nat],
         cache'.until <= cache'.of + CacheSeconds + Wait,
         NEW rec \in Entry,
         list' = [list EXCEPT ![l] = rec],
         rec.at \in {"scanning", "scanned"} => clock <= rec.when + Wait,
         rec.at = "scanning" => rec.when <= clock,
         rec.at = "scanned" => rec.when <= rec.of,
         rec.at = "told" => rec.when - rec.of < CacheSeconds + Wait
  PROVE  AgeInv'
  <1>1. list' \in [Listers -> Entry]
    BY DEF AgeInv
  <1>2. \A m \in Listers : list'[m] = IF m = l THEN rec ELSE list[m]
    BY DEF AgeInv
  <1> QED BY <1>1, <1>2 DEF AgeInv, Open, ListingAge

\* Every step of a listing keeps it from getting too old.
LEMMA ListStepAges ==
  ASSUME AgeInv, NEW l \in Listers, ListStep(l)
  PROVE  AgeInv'
  <1> DEFINE old == list[l]
  <1> USE DEF Entry
  <1>1. /\ old \in Entry
        /\ CacheSeconds \in Nat /\ CacheSeconds > 0 /\ Wait \in Nat
        /\ clock \in Nat /\ cache \in [of : Nat, until : Nat]
    BY ListAssumption DEF AgeInv
  <1>2. CASE FromCache(l)
    <2> DEFINE rec == [at |-> "told", when |-> clock, of |-> cache.of]
    <2>1. list' = [list EXCEPT ![l] = rec] /\ UNCHANGED <<clock, cache>> /\ clock < cache.until
      BY <1>2 DEF FromCache
    <2>2. rec.when - rec.of < CacheSeconds + Wait
      BY <1>1, <2>1 DEF AgeInv
    <2> QED BY <1>1, <2>1, <2>2, OneListing DEF AgeInv
  <1>3. CASE AskForScan(l)
    <2> DEFINE rec == [old EXCEPT !.at = "scanning", !.when = clock]
    <2>1. list' = [list EXCEPT ![l] = rec] /\ UNCHANGED <<clock, cache>>
      BY <1>3 DEF AskForScan, AgeInv
    <2>2. /\ rec \in Entry
          /\ rec.at = "scanning" /\ rec.when = clock
      BY <1>1
    <2> HIDE DEF rec
    <2>3. clock <= rec.when + Wait /\ rec.when <= clock
      BY <1>1, <2>2
    <2>4. /\ UNCHANGED clock /\ cache' \in [of : Nat, until : Nat]
          /\ cache'.until <= cache'.of + CacheSeconds + Wait
      BY <1>1, <2>1 DEF AgeInv
    <2> QED BY <2>1, <2>2, <2>3, <2>4, OneListing
  <1>4. CASE ScanStep(l)
    <2>1. UNCHANGED <<clock, cache>>
      BY <1>4 DEF ScanStep
    <2>2. CASE list' = list
      BY <2>1, <2>2 DEF AgeInv, Open, ListingAge
    <2>3. CASE /\ old.at = "scanning"
               /\ list' = [list EXCEPT ![l] = [old EXCEPT !.at = "scanned", !.of = clock]]
      <3> DEFINE rec == [old EXCEPT !.at = "scanned", !.of = clock]
      <3>1. /\ rec \in Entry
            /\ rec.at = "scanned" /\ rec.when = old.when /\ rec.of = clock
        BY <1>1
      <3>2. old.when <= clock /\ clock <= old.when + Wait
        BY <2>3 DEF AgeInv, Open
      <3> HIDE DEF rec
      <3>3. list' = [list EXCEPT ![l] = rec]
        BY <2>3 DEF rec
      <3> QED BY <1>1, <2>1, <3>1, <3>2, <3>3, OneListing DEF AgeInv
    <2>4. CASE list' = [list EXCEPT ![l] = [old EXCEPT !.at = "failed"]]
      <3> DEFINE rec == [old EXCEPT !.at = "failed"]
      <3>1. /\ rec \in Entry
            /\ rec.at = "failed"
        BY <1>1
      <3> HIDE DEF rec
      <3>2. list' = [list EXCEPT ![l] = rec]
        BY <2>4 DEF rec
      <3> QED BY <1>1, <2>1, <3>1, <3>2, OneListing DEF AgeInv
    <2> QED BY <1>4, <2>2, <2>3, <2>4 DEF ScanStep
  <1>5. CASE Tell(l)
    <2> DEFINE rec == [old EXCEPT !.at = "told", !.when = clock]
    <2>1. /\ list' = [list EXCEPT ![l] = rec] /\ UNCHANGED clock
          /\ cache' = [of |-> old.of, until |-> clock + CacheSeconds]
          /\ old.at = "scanned"
      BY <1>5 DEF Tell
    <2>2. /\ rec \in Entry
          /\ rec.at = "told" /\ rec.when = clock /\ rec.of = old.of
      BY <1>1
    <2>3. clock <= old.when + Wait /\ old.when <= old.of
      BY <2>1 DEF AgeInv, Open
    <2> HIDE DEF rec
    <2>4. rec.when - rec.of < CacheSeconds + Wait
      BY <1>1, <2>2, <2>3
    <2>5. /\ cache' \in [of : Nat, until : Nat]
          /\ cache'.until <= cache'.of + CacheSeconds + Wait
      BY <1>1, <2>1, <2>3
    <2> QED BY <1>1, <2>1, <2>2, <2>4, <2>5, OneListing
  <1>6. CASE GiveUp(l)
    <2> DEFINE rec == [old EXCEPT !.at = "failed"]
    <2>1. /\ rec \in Entry
          /\ rec.at = "failed"
      BY <1>1
    <2>2. list' = [list EXCEPT ![l] = rec] /\ UNCHANGED <<clock, cache>>
      BY <1>6 DEF GiveUp
    <2> HIDE DEF rec
    <2> QED BY <1>1, <2>1, <2>2, OneListing DEF AgeInv
  <1> QED BY <1>2, <1>3, <1>4, <1>5, <1>6 DEF ListStep

\* A listing is never told when it is older than the cache's term and the
\* client's patience together.
THEOREM ListingAgeHolds == Spec => []ListingAge
  <1>1. Init => AgeInv
    BY ListAssumption DEF Init, ListInit, Nothing, AgeInv, Entry, Open, ListingAge
  <1>2. AgeInv /\ [Next]_vars => AgeInv'
    <2> SUFFICES ASSUME AgeInv, [Next]_vars PROVE AgeInv'
      OBVIOUS
    <2>1. ASSUME NEW l \in Listers, Listing(l) PROVE AgeInv'
      BY <2>1, ListStepAges DEF Listing
    <2>2. CASE Tick
      <3>1. /\ clock' = clock + 1 /\ UNCHANGED <<cache, list>>
            /\ \A l \in Listers : Open(l) => clock < list[l].when + Wait
        BY <2>2 DEF Tick
      <3>2. \A l \in Listers : Open(l) => clock' <= list[l].when + Wait
        BY <3>1, ListAssumption DEF AgeInv, Entry
      <3>3. \A l \in Listers : list[l].at = "scanning" => list[l].when <= clock'
        BY <3>1 DEF AgeInv, Entry
      <3> QED BY <3>1, <3>2, <3>3 DEF AgeInv, Open, ListingAge
    <2>3. CASE UNCHANGED <<clock, cache, list>>
      BY <2>3 DEF AgeInv, Open, ListingAge
    <2> QED BY <2>1, <2>2, <2>3
         DEF Next, vars, listVars, ReadArrives, ReadServed, Finishing, Ticking
  <1>3. AgeInv => ListingAge
    BY DEF AgeInv
  <1> QED BY <1>1, <1>2, <1>3, PTL DEF Spec
=============================================================================
