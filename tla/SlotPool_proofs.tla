-------------------------- MODULE SlotPool_proofs --------------------------
(***************************************************************************)
(* Proofs about SlotPool, for any number of calls and slots: no step makes *)
(* up a slot or loses one.                                                 *)
(*                                                                         *)
(* A step hands slots to the first calls of the line.  That many calls     *)
(* come to hold one only because the calls in line are different, and hold *)
(* none yet: InLine, which every step keeps.                               *)
(***************************************************************************)
EXTENDS SlotPool, Integers, FiniteSetTheorems, SequenceTheorems, TLAPS

Holding == {"woken", "asking", "askingAgain"}

HoldersOf(place) == {c \in Calls : place[c] \in Holding}

\* The calls of a line are different, and stand in line.
InLine(line, place) ==
  /\ line \in Seq(Calls)
  /\ \A i, j \in 1..Len(line) : line[i] = line[j] => i = j
  /\ \A i \in 1..Len(line) : place[line[i]] = "waiting"

Finite == IsFiniteSet(Calls) /\ Slots \in Nat

PoolInv ==
  /\ free \in Nat
  /\ at \in [Calls -> Stages]
  /\ InLine(queue, at)
  /\ free + Cardinality(HoldersOf(at)) = Slots

Held(stage) == IF stage \in Holding THEN 1 ELSE 0

-----------------------------------------------------------------------------
(* A line, and the calls a slot is set aside for.                          *)

\* Two sets that share nothing.
LEMMA Disjoint ==
  ASSUME NEW S, IsFiniteSet(S), NEW T, IsFiniteSet(T), S \cap T = {}
  PROVE  /\ IsFiniteSet(S \cup T)
         /\ Cardinality(S \cup T) = Cardinality(S) + Cardinality(T)
         /\ Cardinality(S) \in Nat /\ Cardinality(T) \in Nat
  <1>1. /\ IsFiniteSet(S \cup T)
        /\ Cardinality(S \cup T) = Cardinality(S) + Cardinality(T) - Cardinality(S \cap T)
    BY FS_Union
  <1>2. Cardinality(S \cap T) = 0
    BY FS_EmptySet
  <1>3. Cardinality(S) \in Nat /\ Cardinality(T) \in Nat
    BY FS_CardinalityType
  <1> QED BY <1>1, <1>2, <1>3

\* The first n calls of a line are n calls.
LEMMA FirstOfLine ==
  ASSUME NEW line \in Seq(Calls), NEW n \in 0..Len(line),
         \A i, j \in 1..Len(line) : line[i] = line[j] => i = j
  PROVE  /\ IsFiniteSet({line[i] : i \in 1..n})
         /\ Cardinality({line[i] : i \in 1..n}) = n
  <1> DEFINE W == {line[i] : i \in 1..n}
             f == [i \in 1..n |-> line[i]]
  <1>1. n \in Nat /\ 1..n \subseteq 1..Len(line)
    BY LenProperties
  <1>2. f \in Bijection(1..n, W)
    BY <1>1 DEF Bijection, Injection, Surjection, IsInjective
  <1>3. IsFiniteSet(1..n) /\ Cardinality(1..n) = n
    BY <1>1, FS_Interval
  <1> QED BY <1>2, <1>3, FS_Bijection DEF ExistsBijection

\* What is left of a line when its first calls leave.
LEMMA RestOfLine ==
  ASSUME NEW line \in Seq(Calls), NEW n \in 0..Len(line), NEW place, InLine(line, place)
  PROVE  LET rest == SubSeq(line, n + 1, Len(line))
         IN  /\ InLine(rest, place)
             /\ \A i \in 1..Len(rest), j \in 1..n : rest[i] # line[j]
  <1> DEFINE rest == SubSeq(line, n + 1, Len(line))
  <1>1. Len(line) \in Nat /\ n \in Nat /\ n <= Len(line)
    BY LenProperties
  <1>2. \A i \in (n + 1)..Len(line) : line[i] \in Calls
    BY <1>1, ElementOfSeq
  <1>3. /\ rest \in Seq(Calls)
        /\ Len(rest) = Len(line) - n
        /\ \A i \in 1..Len(rest) : rest[i] = line[n + i]
    <2>1. /\ rest \in Seq(Calls)
          /\ Len(rest) = IF n + 1 <= Len(line) THEN Len(line) - (n + 1) + 1 ELSE 0
          /\ \A i \in 1..(Len(line) - (n + 1) + 1) : rest[i] = line[(n + 1) + i - 1]
      BY <1>1, <1>2, SubSeqProperties
    <2> HIDE DEF rest
    <2>2. Len(rest) = Len(line) - n
      BY <1>1, <2>1
    <2>3. \A i \in 1..Len(rest) : (n + 1) + i - 1 = n + i
      BY <1>1, <2>2
    <2> QED BY <1>1, <2>1, <2>2, <2>3
  <1> HIDE DEF rest
  <1>4. \A i \in 1..Len(rest) : n + i \in 1..Len(line) /\ n + i > n
    BY <1>1, <1>3
  <1>5. InLine(rest, place)
    <2>1. ASSUME NEW i \in 1..Len(rest), NEW j \in 1..Len(rest), rest[i] = rest[j]
          PROVE  i = j
      <3>1. n + i = n + j
        BY <1>3, <1>4, <2>1 DEF InLine
      <3> QED BY <1>1, <1>3, <3>1
    <2>2. \A i \in 1..Len(rest) : place[rest[i]] = "waiting"
      BY <1>3, <1>4 DEF InLine
    <2> QED BY <1>3, <2>1, <2>2 DEF InLine
  <1>6. \A i \in 1..Len(rest), j \in 1..n : rest[i] # line[j]
    BY <1>1, <1>3, <1>4 DEF InLine
  <1> QED BY <1>5, <1>6 DEF rest

\* A line that one call leaves.
LEMMA WithoutOne ==
  ASSUME NEW line \in Seq(Calls), NEW k \in 1..Len(line), NEW place, InLine(line, place)
  PROVE  LET rest == Without(line, k)
         IN  /\ InLine(rest, place)
             /\ \A i \in 1..Len(rest) : rest[i] # line[k]
  <1> DEFINE before == SubSeq(line, 1, k - 1)
             after == SubSeq(line, k + 1, Len(line))
             rest == before \o after
             from(i) == IF i < k THEN i ELSE i + 1
  <1>1. Len(line) \in Nat /\ k \in Nat /\ k >= 1 /\ k <= Len(line)
    BY LenProperties
  <1>2. \A i \in 1..Len(line) : line[i] \in Calls
    BY ElementOfSeq
  <1>3. /\ before \in Seq(Calls)
        /\ Len(before) = k - 1
        /\ \A i \in 1..(k - 1) : before[i] = line[i]
    <2>1. /\ before \in Seq(Calls)
          /\ Len(before) = IF 1 <= k - 1 THEN (k - 1) - 1 + 1 ELSE 0
          /\ \A i \in 1..((k - 1) - 1 + 1) : before[i] = line[1 + i - 1]
      BY <1>1, <1>2, SubSeqProperties
    <2> HIDE DEF before
    <2> QED BY <1>1, <2>1
  <1>4. /\ after \in Seq(Calls)
        /\ Len(after) = Len(line) - k
        /\ \A i \in 1..(Len(line) - k) : after[i] = line[k + i]
    <2>1. /\ after \in Seq(Calls)
          /\ Len(after) = IF k + 1 <= Len(line) THEN Len(line) - (k + 1) + 1 ELSE 0
          /\ \A i \in 1..(Len(line) - (k + 1) + 1) : after[i] = line[(k + 1) + i - 1]
      BY <1>1, <1>2, SubSeqProperties
    <2> HIDE DEF after
    <2> QED BY <1>1, <2>1
  <1> HIDE DEF before, after
  <1>5. /\ rest \in Seq(Calls)
        /\ Len(rest) = Len(line) - 1
        /\ \A i \in 1..Len(rest) : rest[i] = line[from(i)]
    <2>1. /\ rest \in Seq(Calls)
          /\ Len(rest) = Len(before) + Len(after)
          /\ \A i \in 1..(Len(before) + Len(after)) :
               rest[i] = IF i <= Len(before) THEN before[i] ELSE after[i - Len(before)]
      BY <1>3, <1>4, ConcatProperties
    <2> HIDE DEF rest
    <2>2. Len(rest) = Len(line) - 1
      BY <1>1, <1>3, <1>4, <2>1
    <2>3. ASSUME NEW i \in 1..Len(rest) PROVE rest[i] = line[from(i)]
      <3>1. CASE i < k
        BY <1>1, <1>3, <1>4, <2>1, <2>2, <3>1
      <3>2. CASE ~(i < k)
        <4>1. i - (k - 1) \in 1..(Len(line) - k) /\ k + (i - (k - 1)) = i + 1 /\ ~(i <= k - 1)
          BY <1>1, <2>2, <3>2
        <4>2. rest[i] = after[i - (k - 1)]
          BY <1>3, <1>4, <2>1, <4>1
        <4> QED BY <1>4, <3>2, <4>1, <4>2
      <3> QED BY <3>1, <3>2
    <2> QED BY <2>1, <2>2, <2>3
  <1>6. Without(line, k) = rest
    BY DEF Without, before, after
  <1> HIDE DEF rest
  <1>7. \A i \in 1..Len(rest) : from(i) \in 1..Len(line) /\ from(i) # k
    BY <1>1, <1>5
  <1>8. \A i, j \in 1..Len(rest) : from(i) = from(j) => i = j
    BY <1>1, <1>5
  <1> HIDE DEF from
  <1>9. InLine(rest, place)
    BY <1>5, <1>7, <1>8 DEF InLine
  <1>10. \A i \in 1..Len(rest) : rest[i] # line[k]
    BY <1>5, <1>7 DEF InLine
  <1> QED BY <1>6, <1>9, <1>10

-----------------------------------------------------------------------------
(* The steps.                                                              *)

\* Sharing out spare slots keeps the count, when a slot that call c has in its
\* new stage is not among the spare ones.
LEMMA ShareKeeps ==
  ASSUME Finite, NEW c \in Calls, NEW stage \in Stages \ {"waiting"},
         NEW spare \in Nat, NEW line, NEW most \in Nat,
         at \in [Calls -> Stages],
         InLine(line, at), \A i \in 1..Len(line) : line[i] # c,
         spare + Cardinality(HoldersOf(at) \ {c}) + Held(stage) = Slots,
         Share(c, stage, spare, line, most)
  PROVE  PoolInv'
  <1> DEFINE n == Smaller(most, Smaller(spare, Len(line)))
             W == {line[i] : i \in 1..n}
             H == HoldersOf(at) \ {c}
             I == IF stage \in Holding THEN {c} ELSE {}
  <1>1. line \in Seq(Calls) /\ Len(line) \in Nat
    BY LenProperties DEF InLine
  <1>2. n \in 0..Len(line) /\ n <= spare /\ n \in Nat
    BY <1>1 DEF Smaller
  <1>3. /\ free' = spare - n
        /\ queue' = SubSeq(line, n + 1, Len(line))
        /\ at' = [d \in Calls |-> IF d = c THEN stage
                                  ELSE IF \E i \in 1..n : line[i] = d THEN "woken"
                                  ELSE at[d]]
    BY DEF Share
  <1> HIDE DEF n
  <1>4. free' \in Nat
    BY <1>2, <1>3
  <1>5. at' \in [Calls -> Stages]
    BY <1>3 DEF Stages
  <1>6. \A i \in 1..n : i \in 1..Len(line) /\ line[i] \in Calls
    BY <1>1, <1>2, ElementOfSeq
  <1>7. InLine(queue', at')
    <2>1. /\ InLine(queue', at)
          /\ \A i \in 1..Len(queue'), j \in 1..n : queue'[i] # line[j]
      BY <1>1, <1>2, <1>3, RestOfLine
    <2>2. \A i \in 1..Len(queue') : queue'[i] \in Calls /\ queue'[i] # c
      <3>1. \A i \in 1..Len(queue') : queue'[i] \in Calls
        BY <2>1, ElementOfSeq DEF InLine
      <3>2. \A i \in (n + 1)..Len(line) : line[i] \in Calls
        BY <1>1, <1>2, ElementOfSeq
      <3>3. /\ Len(queue') = IF n + 1 <= Len(line) THEN Len(line) - (n + 1) + 1 ELSE 0
            /\ \A i \in 1..(Len(line) - (n + 1) + 1) : queue'[i] = line[(n + 1) + i - 1]
        BY <1>1, <1>2, <1>3, <3>2, SubSeqProperties
      <3>4. ASSUME NEW i \in 1..Len(queue') PROVE queue'[i] # c
        <4>1. /\ i \in 1..(Len(line) - (n + 1) + 1)
              /\ (n + 1) + i - 1 \in 1..Len(line)
          BY <1>1, <1>2, <3>3
        <4> QED BY <3>3, <4>1
      <3> QED BY <3>1, <3>4
    <2>3. \A i \in 1..Len(queue') : at'[queue'[i]] = at[queue'[i]]
      BY <1>3, <2>1, <2>2
    <2> QED BY <2>1, <2>3 DEF InLine
  <1>8. /\ IsFiniteSet(H) /\ IsFiniteSet(W) /\ Cardinality(W) = n /\ IsFiniteSet(I)
        /\ Cardinality(I) = Held(stage) /\ Cardinality(H) \in Nat
    <2>1. IsFiniteSet(H)
      BY FS_Subset, H \subseteq Calls DEF Finite, HoldersOf
    <2>2. Cardinality(H) \in Nat
      BY <2>1, FS_CardinalityType
    <2>3. IsFiniteSet(W) /\ Cardinality(W) = n
      BY <1>1, <1>2, FirstOfLine DEF InLine
    <2>4. IsFiniteSet(I) /\ Cardinality(I) = Held(stage)
      BY FS_EmptySet, FS_Singleton DEF Held
    <2> QED BY <2>1, <2>2, <2>3, <2>4
  <1>9. H \cap W = {} /\ (H \cup W) \cap I = {}
    BY <1>6 DEF InLine, HoldersOf, Holding
  <1>10. HoldersOf(at') = (H \cup W) \cup I
    <2>1. ASSUME NEW d \in Calls PROVE d \in HoldersOf(at') <=> d \in (H \cup W) \cup I
      <3>1. CASE d = c
        BY <1>3, <1>6, <3>1 DEF HoldersOf
      <3>2. CASE d # c /\ \E i \in 1..n : line[i] = d
        BY <1>3, <3>2 DEF HoldersOf, Holding
      <3>3. CASE d # c /\ ~\E i \in 1..n : line[i] = d
        BY <1>3, <3>3 DEF HoldersOf
      <3> QED BY <3>1, <3>2, <3>3
    <2>2. (H \cup W) \cup I \subseteq Calls
      BY <1>6 DEF HoldersOf
    <2> QED BY <2>1, <2>2 DEF HoldersOf
  <1>11. Cardinality(HoldersOf(at')) = Cardinality(H) + n + Held(stage)
    <2> HIDE DEF H, W, I
    <2>1. IsFiniteSet(H \cup W) /\ Cardinality(H \cup W) = Cardinality(H) + Cardinality(W)
      BY <1>8, <1>9, Disjoint
    <2>2. Cardinality((H \cup W) \cup I) = Cardinality(H \cup W) + Cardinality(I)
      BY <1>8, <1>9, <2>1, Disjoint
    <2> QED BY <1>8, <1>10, <2>1, <2>2
  <1>12. free' + Cardinality(HoldersOf(at')) = Slots
    BY <1>2, <1>3, <1>8, <1>11 DEF Held
  <1> QED BY <1>4, <1>5, <1>7, <1>12 DEF PoolInv, HoldersOf, InLine

\* The slot of a call, taken away.
LEMMA HoldersButOne ==
  ASSUME Finite, NEW c \in Calls, at \in [Calls -> Stages]
  PROVE  /\ IsFiniteSet(HoldersOf(at)) /\ IsFiniteSet(HoldersOf(at) \ {c})
         /\ Cardinality(HoldersOf(at)) \in Nat
         /\ Cardinality(HoldersOf(at) \ {c}) = Cardinality(HoldersOf(at)) - Held(at[c])
         /\ Cardinality(HoldersOf(at) \ {c}) \in Nat
  <1>1. IsFiniteSet(HoldersOf(at))
    BY FS_Subset, HoldersOf(at) \subseteq Calls DEF Finite, HoldersOf
  <1>2. c \in HoldersOf(at) <=> at[c] \in Holding
    BY DEF HoldersOf
  <1>3. /\ IsFiniteSet(HoldersOf(at) \ {c})
        /\ Cardinality(HoldersOf(at) \ {c}) =
             IF c \in HoldersOf(at) THEN Cardinality(HoldersOf(at)) - 1
                                    ELSE Cardinality(HoldersOf(at))
    BY <1>1, FS_RemoveElement
  <1>4. Cardinality(HoldersOf(at)) \in Nat /\ Cardinality(HoldersOf(at) \ {c}) \in Nat
    BY <1>1, <1>3, FS_CardinalityType
  <1> QED BY <1>1, <1>2, <1>3, <1>4 DEF Held

\* The slots the other calls hold.
LEMMA OthersHold ==
  ASSUME Finite, PoolInv, NEW c \in Calls
  PROVE  /\ Cardinality(HoldersOf(at) \ {c}) \in Nat
         /\ free + Cardinality(HoldersOf(at) \ {c}) + Held(at[c]) = Slots
  <1>1. /\ Cardinality(HoldersOf(at)) \in Nat /\ free \in Nat
        /\ free + Cardinality(HoldersOf(at)) = Slots
        /\ Cardinality(HoldersOf(at) \ {c}) = Cardinality(HoldersOf(at)) - Held(at[c])
        /\ Cardinality(HoldersOf(at) \ {c}) \in Nat
    BY HoldersButOne DEF PoolInv
  <1> QED BY <1>1 DEF Held

\* A call that changes its stage by itself, and is not in line.
LEMMA MoveKeeps ==
  ASSUME Finite, NEW c \in Calls, NEW stage \in Stages \ {"waiting"},
         at \in [Calls -> Stages], InLine(queue, at), at[c] # "waiting",
         at' = [at EXCEPT ![c] = stage], queue' = queue, free' \in Nat,
         free' + Cardinality(HoldersOf(at) \ {c}) + Held(stage) = Slots
  PROVE  PoolInv'
  <1> DEFINE H == HoldersOf(at) \ {c}
             I == IF stage \in Holding THEN {c} ELSE {}
  <1>1. at' \in [Calls -> Stages]
    OBVIOUS
  <1>2. \A i \in 1..Len(queue) : queue[i] \in Calls /\ queue[i] # c
    BY ElementOfSeq DEF InLine
  <1>3. InLine(queue', at')
    BY <1>2 DEF InLine
  <1>4. HoldersOf(at') = H \cup I
    BY DEF HoldersOf
  <1>5. /\ IsFiniteSet(H) /\ IsFiniteSet(I) /\ H \cap I = {}
        /\ Cardinality(I) = Held(stage)
    BY HoldersButOne, FS_EmptySet, FS_Singleton DEF Held
  <1>6. Cardinality(HoldersOf(at')) = Cardinality(H) + Held(stage) /\ Cardinality(H) \in Nat
    <2> HIDE DEF H, I
    <2> QED BY <1>4, <1>5, Disjoint
  <1>7. free' + Cardinality(HoldersOf(at')) = Slots
    BY <1>6 DEF Held
  <1> QED BY <1>1, <1>3, <1>7 DEF PoolInv, HoldersOf, InLine

\* A call takes a free slot.
LEMMA TakeSlotKeeps ==
  ASSUME Finite, PoolInv, NEW c \in Calls, TakeSlot(c)
  PROVE  PoolInv'
  <1>1. /\ free' = free - 1 /\ free # 0 /\ free \in Nat
        /\ at' = [at EXCEPT ![c] = "asking"] /\ queue' = queue /\ at[c] = "idle"
    BY DEF TakeSlot, Locked, PoolInv
  <1>2. /\ Cardinality(HoldersOf(at) \ {c}) = Cardinality(HoldersOf(at))
        /\ Cardinality(HoldersOf(at)) \in Nat
    BY <1>1, HoldersButOne DEF PoolInv, Held, Holding
  <1>3. free' \in Nat /\ free' + Cardinality(HoldersOf(at) \ {c}) + 1 = Slots
    BY <1>1, <1>2 DEF PoolInv
  <1> QED BY <1>1, <1>3, MoveKeeps DEF PoolInv, Held, Holding, Stages

\* A call goes to the end of the line.
LEMMA QueueKeeps ==
  ASSUME Finite, PoolInv, NEW c \in Calls, Queue(c)
  PROVE  PoolInv'
  <1>1. /\ at[c] = "idle" /\ queue' = Append(queue, c)
        /\ at' = [at EXCEPT ![c] = "waiting"] /\ free' = free
        /\ queue \in Seq(Calls) /\ at \in [Calls -> Stages]
    BY DEF Queue, PoolInv, InLine
  <1>2. Len(queue) \in Nat
    BY <1>1, LenProperties
  <1>3. /\ queue' \in Seq(Calls) /\ Len(queue') = Len(queue) + 1
        /\ \A i \in 1..Len(queue) : queue'[i] = queue[i]
        /\ queue'[Len(queue) + 1] = c
    BY <1>1, AppendProperties
  <1>4. \A i \in 1..Len(queue) : queue[i] \in Calls /\ queue[i] # c
    BY <1>1, ElementOfSeq DEF PoolInv, InLine
  <1>5. ASSUME NEW i \in 1..Len(queue') PROVE at'[queue'[i]] = "waiting"
    <2>1. CASE i \in 1..Len(queue)
      BY <1>1, <1>3, <1>4, <2>1 DEF PoolInv, InLine
    <2>2. CASE i = Len(queue) + 1
      BY <1>1, <1>3, <2>2
    <2> QED BY <1>2, <1>3, <2>1, <2>2
  <1>6. ASSUME NEW i \in 1..Len(queue'), NEW j \in 1..Len(queue'), queue'[i] = queue'[j]
        PROVE  i = j
    <2>1. CASE i \in 1..Len(queue) /\ j \in 1..Len(queue)
      BY <1>3, <1>6, <2>1 DEF PoolInv, InLine
    <2>2. CASE i = Len(queue) + 1 \/ j = Len(queue) + 1
      BY <1>2, <1>3, <1>4, <1>6, <2>2
    <2> QED BY <1>2, <1>3, <2>1, <2>2
  <1>7. HoldersOf(at') = HoldersOf(at)
    BY <1>1 DEF HoldersOf, Holding
  <1> QED BY <1>1, <1>3, <1>5, <1>6, <1>7 DEF PoolInv, HoldersOf, InLine, Stages

\* A call that does not wait any more is none of those in line.
LEMMA NotInLine ==
  ASSUME NEW c \in Calls, PoolInv, at[c] # "waiting"
  PROVE  \A i \in 1..Len(queue) : queue[i] # c
  BY DEF PoolInv, InLine

\* A call that has had a slot ends, and the slot goes to the next.
LEMMA HandOnKeeps ==
  ASSUME Finite, PoolInv, NEW c \in Calls, NEW stage \in {"served", "failed"},
         Asking(c), HandOn(c, stage)
  PROVE  PoolInv'
  <1>1. at[c] \in Holding /\ at[c] # "waiting" /\ free + 1 \in Nat
    BY DEF Asking, Holding, PoolInv
  <1>2. Held(at[c]) = 1 /\ Held(stage) = 0
    BY <1>1 DEF Held, Holding
  <1>3. free + 1 + Cardinality(HoldersOf(at) \ {c}) + Held(stage) = Slots
    BY <1>2, OthersHold DEF PoolInv
  <1>4. Share(c, stage, free + 1, queue, 1)
    BY DEF HandOn
  <1> QED BY <1>1, <1>3, <1>4, NotInLine, ShareKeeps DEF PoolInv, Stages, Ended

\* A call asks the node again.
LEMMA AskAgainKeeps ==
  ASSUME Finite, PoolInv, NEW c \in Calls, at[c] = "asking",
         at' = [at EXCEPT ![c] = "askingAgain"], UNCHANGED <<free, queue>>
  PROVE  PoolInv'
  <1>1. free' + Cardinality(HoldersOf(at) \ {c}) + 1 = Slots
    BY HoldersButOne DEF PoolInv, Held, Holding
  <1> QED BY <1>1, MoveKeeps DEF PoolInv, Held, Holding, Stages

\* A woken call runs, and hands out what came free meanwhile.
LEMMA ResumeKeeps ==
  ASSUME Finite, PoolInv, NEW c \in Calls, Resume(c)
  PROVE  PoolInv'
  <1>1. free + Cardinality(HoldersOf(at) \ {c}) + Held("asking") = Slots
    BY HoldersButOne DEF Resume, PoolInv, Held, Holding
  <1>2. Share(c, "asking", free, queue, Len(queue)) /\ Len(queue) \in Nat
    BY LenProperties DEF Resume, Leave, PoolInv, InLine
  <1> QED BY <1>1, <1>2, NotInLine, ShareKeeps DEF Resume, PoolInv, Stages

\* A call is turned away, in line or with a slot just set aside for it.
LEMMA TurnAwayKeeps ==
  ASSUME Finite, PoolInv, NEW c \in Calls, TurnAway(c)
  PROVE  PoolInv'
  <1>1. CASE at[c] = "waiting"
    <2>1. PICK k \in 1..Len(queue) :
            queue[k] = c /\ Leave(c, "turnedAway", free, Without(queue, k))
      BY <1>1 DEF TurnAway
    <2> DEFINE line == Without(queue, k)
    <2>2. InLine(line, at) /\ \A i \in 1..Len(line) : line[i] # c
      BY <2>1, WithoutOne DEF PoolInv, InLine
    <2> HIDE DEF line
    <2>3. Share(c, "turnedAway", free, line, Len(line)) /\ Len(line) \in Nat
      BY <2>1, <2>2, LenProperties DEF Leave, InLine, line
    <2>4. Held(at[c]) = 0 /\ Held("turnedAway") = 0
      BY <1>1 DEF Held, Holding
    <2>5. free + Cardinality(HoldersOf(at) \ {c}) + Held("turnedAway") = Slots
      BY <2>4, OthersHold DEF PoolInv
    <2> QED BY <2>2, <2>3, <2>5, ShareKeeps DEF PoolInv, Stages, Ended
  <1>2. CASE at[c] = "woken"
    <2>1. Share(c, "turnedAway", free + 1, queue, Len(queue)) /\ Len(queue) \in Nat
      BY <1>2, LenProperties DEF TurnAway, Leave, PoolInv, InLine
    <2>2. Held(at[c]) = 1 /\ Held("turnedAway") = 0
      BY <1>2 DEF Held, Holding
    <2>3. free + 1 + Cardinality(HoldersOf(at) \ {c}) + Held("turnedAway") = Slots
      BY <2>2, OthersHold DEF PoolInv
    <2>4. free + 1 \in Nat
      BY DEF PoolInv
    <2> QED BY <1>2, <2>1, <2>3, <2>4, NotInLine, ShareKeeps DEF PoolInv, Stages, Ended
  <1> QED BY <1>1, <1>2 DEF TurnAway

\* No step of the adapter's event loop makes up a slot or loses one.
LEMMA ServedKeeps ==
  ASSUME Finite, PoolInv, NEW c \in Calls, Served(c)
  PROVE  PoolInv'
  <1>1. CASE Resume(c)
    BY <1>1, ResumeKeeps
  <1>2. CASE TurnAway(c)
    BY <1>2, TurnAwayKeeps
  <1>3. CASE Answered(c)
    <2>1. CASE \E stage \in {"served", "failed"} : HandOn(c, stage)
      BY <1>3, <2>1, HandOnKeeps DEF Answered
    <2>2. CASE ~\E stage \in {"served", "failed"} : HandOn(c, stage)
      BY <1>3, <2>2, AskAgainKeeps DEF Answered
    <2> QED BY <2>1, <2>2
  <1>4. CASE TimedOut(c)
    <2>1. CASE HandOn(c, "failed")
      BY <1>4, <2>1, HandOnKeeps DEF TimedOut
    <2>2. CASE ~HandOn(c, "failed")
      BY <1>4, <2>2, AskAgainKeeps DEF TimedOut
    <2> QED BY <2>1, <2>2
  <1> QED BY <1>1, <1>2, <1>3, <1>4 DEF Served

\* Nor does anything that leaves the pool alone.
LEMMA StillKeeps ==
  ASSUME PoolInv, UNCHANGED <<free, queue, at>>
  PROVE  PoolInv'
  BY DEF PoolInv, HoldersOf, InLine

\* At first every slot is free.
LEMMA InitKeeps ==
  ASSUME Slots \in Nat, PoolInit
  PROVE  PoolInv
  <1>1. free \in Nat /\ at \in [Calls -> Stages]
    BY DEF PoolInit, Stages
  <1>2. InLine(queue, at)
    BY EmptySeq DEF PoolInit, InLine
  <1>3. HoldersOf(at) = {}
    BY DEF PoolInit, HoldersOf, Holding
  <1> QED BY <1>1, <1>2, <1>3, FS_EmptySet DEF PoolInv, PoolInit

\* The count that is kept is the one the runs check.
LEMMA InvConserves ==
  ASSUME PoolInv
  PROVE  Conserved
  BY DEF PoolInv, Conserved, Holders, HoldersOf, Holding

-----------------------------------------------------------------------------
(* What the node works on.                                                 *)

Askers == {c \in Calls : Asking(c)}

\* The node works on what some call waits for, and on nothing else.
Counted == working = Cardinality(Askers)

\* The calls that wait for the node hold a slot each.
LEMMA AskersHold ==
  ASSUME Finite, PoolInv
  PROVE  Cardinality(Askers) \in Nat /\ Cardinality(Askers) <= Slots
  <1>1. Askers \subseteq HoldersOf(at) /\ HoldersOf(at) \subseteq Calls
    BY DEF Askers, Asking, HoldersOf, Holding
  <1>2. IsFiniteSet(HoldersOf(at))
    BY <1>1, FS_Subset DEF Finite
  <1>3. IsFiniteSet(Askers) /\ Cardinality(Askers) <= Cardinality(HoldersOf(at))
    BY <1>1, <1>2, FS_Subset
  <1>4. Cardinality(Askers) \in Nat /\ Cardinality(HoldersOf(at)) \in Nat
    BY <1>2, <1>3, FS_CardinalityType
  <1>5. Cardinality(HoldersOf(at)) <= Slots
    BY <1>4 DEF PoolInv, Finite
  <1> QED BY <1>3, <1>4, <1>5 DEF Finite

\* A call that takes a free slot asks one thing.
LEMMA TakeSlotCounted ==
  ASSUME Finite, PoolInv, Counted, NEW c \in Calls, TakeSlot(c)
  PROVE  Counted'
  <1>1. /\ at[c] = "idle" /\ working' = working + 1
        /\ at' = [at EXCEPT ![c] = "asking"] /\ at \in [Calls -> Stages]
    BY DEF TakeSlot, PoolInv
  <1>2. c \notin Askers
    BY <1>1 DEF Askers, Asking
  <1>3. Askers' = Askers \cup {c}
    BY <1>1 DEF Askers, Asking
  <1>4. IsFiniteSet(Askers)
    BY FS_Subset, Askers \subseteq Calls DEF Askers, Finite
  <1>5. Cardinality(Askers \cup {c}) = Cardinality(Askers) + 1
    BY <1>2, <1>4, FS_AddElement
  <1> QED BY <1>1, <1>3, <1>5 DEF Counted

\* A call that waits for a slot asks nothing.
LEMMA QueueCounted ==
  ASSUME PoolInv, Counted, NEW c \in Calls, Queue(c)
  PROVE  Counted'
  <1>1. Askers' = Askers
    BY DEF Queue, PoolInv, Askers, Asking
  <1> QED BY <1>1 DEF Counted, Queue

\* When the count is right, no request is abandoned.
LEMMA CountedNone ==
  ASSUME Finite, PoolInv, Counted
  PROVE  Abandoned = 0
  <1>1. Cardinality(Askers) \in Nat
    BY AskersHold
  <1> QED BY <1>1 DEF Counted, Abandoned, Askers

\* And a step that leaves none abandoned makes it right.
LEMMA NoneCounted ==
  ASSUME Finite, working' \in Int, Abandoned' = 0
  PROVE  Counted'
  <1>1. IsFiniteSet(Askers')
    BY FS_Subset, Askers' \subseteq Calls DEF Askers, Finite
  <1>2. Cardinality(Askers') \in Nat
    BY <1>1, FS_CardinalityType
  <1>3. Abandoned' = working' - Cardinality(Askers')
    BY DEF Abandoned, Askers, Asking
  <1> QED BY <1>2, <1>3 DEF Counted

\* At first the node has nothing to do.
LEMMA InitCounted ==
  ASSUME PoolInit
  PROVE  Counted
  <1>1. Askers = {}
    BY DEF PoolInit, Askers, Asking
  <1> QED BY <1>1, FS_EmptySet DEF Counted, PoolInit

-----------------------------------------------------------------------------
(* Nobody waits for an answer that is not coming.                          *)

\* The node works on no fewer requests than there are calls waiting for it.
Enough == working \in Int /\ Cardinality(Askers) <= working

\* How many calls wait for the node, without one of them and with it.
LEMMA AskersButOne ==
  ASSUME Finite, NEW c \in Calls
  PROVE  /\ IsFiniteSet(Askers) /\ Cardinality(Askers) \in Nat
         /\ Cardinality(Askers \ {c}) =
              IF Asking(c) THEN Cardinality(Askers) - 1 ELSE Cardinality(Askers)
         /\ Cardinality(Askers \cup {c}) =
              IF Asking(c) THEN Cardinality(Askers) ELSE Cardinality(Askers) + 1
  <1>1. IsFiniteSet(Askers) /\ (c \in Askers <=> Asking(c))
    BY FS_Subset, Askers \subseteq Calls DEF Askers, Finite
  <1>2. Cardinality(Askers) \in Nat
    BY <1>1, FS_CardinalityType
  <1>3. Cardinality(Askers \ {c}) =
          IF Asking(c) THEN Cardinality(Askers) - 1 ELSE Cardinality(Askers)
    BY <1>1, FS_RemoveElement
  <1>4. Cardinality(Askers \cup {c}) =
          IF Asking(c) THEN Cardinality(Askers) ELSE Cardinality(Askers) + 1
    BY <1>1, FS_AddElement
  <1> QED BY <1>1, <1>2, <1>3, <1>4

\* A call that is given a slot asks nothing before it runs.
LEMMA ShareAskers ==
  ASSUME NEW c \in Calls, NEW stage \in Stages, NEW spare \in Nat, NEW line, NEW most \in Nat,
         at \in [Calls -> Stages], InLine(line, at), Share(c, stage, spare, line, most)
  PROVE  Askers' = IF stage \in {"asking", "askingAgain"} THEN Askers \cup {c} ELSE Askers \ {c}
  <1> DEFINE n == Smaller(most, Smaller(spare, Len(line)))
  <1>1. line \in Seq(Calls) /\ Len(line) \in Nat
    BY LenProperties DEF InLine
  <1>2. n \in 0..Len(line)
    BY <1>1 DEF Smaller
  <1>3. at' = [d \in Calls |-> IF d = c THEN stage
                               ELSE IF \E i \in 1..n : line[i] = d THEN "woken"
                               ELSE at[d]]
    BY DEF Share
  <1> HIDE DEF n
  <1>4. \A i \in 1..n : at[line[i]] = "waiting"
    BY <1>1, <1>2 DEF InLine
  <1>5. ASSUME NEW d \in Calls
        PROVE  Asking(d)' <=> IF d = c THEN stage \in {"asking", "askingAgain"} ELSE Asking(d)
    <2>1. CASE d = c
      BY <1>3, <2>1 DEF Asking
    <2>2. CASE d # c /\ \E i \in 1..n : line[i] = d
      BY <1>3, <1>4, <2>2 DEF Asking
    <2>3. CASE d # c /\ ~\E i \in 1..n : line[i] = d
      BY <1>3, <2>3 DEF Asking
    <2> QED BY <2>1, <2>2, <2>3
  <1> QED BY <1>5 DEF Askers

\* A call that has had a slot ends.
LEMMA HandOnAskers ==
  ASSUME PoolInv, NEW c \in Calls, NEW stage \in {"served", "failed"}, HandOn(c, stage)
  PROVE  Askers' = Askers \ {c}
  <1>1. Share(c, stage, free + 1, queue, 1) /\ free + 1 \in Nat
    BY DEF HandOn, PoolInv
  <1>2. stage \in Stages /\ stage \notin {"asking", "askingAgain"}
    BY DEF Stages, Ended
  <1> QED BY <1>1, <1>2, ShareAskers DEF PoolInv

\* A call that asks again still asks.
LEMMA AskAgainAskers ==
  ASSUME PoolInv, NEW c \in Calls, at[c] = "asking", at' = [at EXCEPT ![c] = "askingAgain"]
  PROVE  Askers' = Askers
  BY DEF PoolInv, Askers, Asking

\* No step has a call wait for what the node does not work on.
LEMMA EnoughKeeps ==
  ASSUME Finite, PoolInv, Enough, NEW c \in Calls, TakeSlot(c) \/ Queue(c) \/ Served(c)
  PROVE  Enough'
  <1>1. /\ IsFiniteSet(Askers) /\ Cardinality(Askers) \in Nat
        /\ Cardinality(Askers \ {c}) =
             IF Asking(c) THEN Cardinality(Askers) - 1 ELSE Cardinality(Askers)
        /\ Cardinality(Askers \cup {c}) =
             IF Asking(c) THEN Cardinality(Askers) ELSE Cardinality(Askers) + 1
    BY AskersButOne
  <1>2. at \in [Calls -> Stages] /\ InLine(queue, at) /\ free \in Nat /\ Len(queue) \in Nat
    BY LenProperties DEF PoolInv, InLine
  <1>3. CASE TakeSlot(c)
    <2>1. Askers' = Askers \cup {c} /\ working' = working + 1
      BY <1>2, <1>3 DEF TakeSlot, Askers, Asking
    <2> QED BY <1>1, <2>1 DEF Enough
  <1>4. CASE Queue(c)
    <2>1. Askers' = Askers /\ working' = working
      BY <1>2, <1>4 DEF Queue, Askers, Asking
    <2> QED BY <2>1 DEF Enough
  <1>5. CASE Resume(c)
    <2>1. Share(c, "asking", free, queue, Len(queue)) /\ working' = working + 1
      BY <1>5 DEF Resume, Leave
    <2>2. Askers' = Askers \cup {c}
      BY <1>2, <2>1, ShareAskers DEF Stages
    <2> QED BY <1>1, <2>1, <2>2 DEF Enough
  <1>6. CASE TurnAway(c)
    <2>1. ~Asking(c) /\ working' = working
      BY <1>6 DEF TurnAway, Asking
    <2>2. Askers' = Askers \ {c}
      <3>1. CASE at[c] = "waiting"
        <4>1. PICK k \in 1..Len(queue) : Leave(c, "turnedAway", free, Without(queue, k))
          BY <1>6, <3>1 DEF TurnAway
        <4> DEFINE line == Without(queue, k)
        <4>2. InLine(line, at)
          BY <1>2, WithoutOne DEF InLine
        <4> HIDE DEF line
        <4>3. Share(c, "turnedAway", free, line, Len(line)) /\ Len(line) \in Nat
          BY <4>1, <4>2, LenProperties DEF Leave, InLine, line
        <4> QED BY <1>2, <4>2, <4>3, ShareAskers DEF Stages, Ended
      <3>2. CASE at[c] = "woken"
        <4>1. Share(c, "turnedAway", free + 1, queue, Len(queue)) /\ free + 1 \in Nat
          BY <1>2, <1>6, <3>2 DEF TurnAway, Leave
        <4> QED BY <1>2, <4>1, ShareAskers DEF Stages, Ended
      <3> QED BY <1>6, <3>1, <3>2 DEF TurnAway
    <2> QED BY <1>1, <2>1, <2>2 DEF Enough
  <1>7. CASE Answered(c)
    <2>1. CASE (\E stage \in {"served", "failed"} : HandOn(c, stage)) /\ working' = working - 1
      <3>1. Asking(c) /\ Askers' = Askers \ {c}
        BY <1>7, <2>1, HandOnAskers DEF Answered
      <3> QED BY <1>1, <2>1, <3>1 DEF Enough
    <2>2. CASE /\ at[c] = "asking" /\ at' = [at EXCEPT ![c] = "askingAgain"]
               /\ working' = working
      BY <2>2, AskAgainAskers DEF Enough
    <2> QED BY <1>7, <2>1, <2>2 DEF Answered
  <1>8. CASE TimedOut(c)
    <2>1. CASE HandOn(c, "failed") /\ working' = working
      <3>1. Asking(c) /\ Askers' = Askers \ {c}
        BY <1>8, <2>1, HandOnAskers DEF TimedOut
      <3> QED BY <1>1, <2>1, <3>1 DEF Enough
    <2>2. CASE /\ at[c] = "asking" /\ at' = [at EXCEPT ![c] = "askingAgain"]
               /\ working' = working + 1
      <3>1. Askers' = Askers
        BY <2>2, AskAgainAskers
      <3> QED BY <1>1, <2>2, <3>1 DEF Enough
    <2> QED BY <1>8, <2>1, <2>2 DEF TimedOut
  <1> QED BY <1>3, <1>4, <1>5, <1>6, <1>7, <1>8 DEF Served

\* The node is done with what nobody waits for only.
LEMMA FinishEnough ==
  ASSUME Finite, Enough, NodeFinishes
  PROVE  Enough'
  <1>1. Askers' = Askers /\ working' = working - 1 /\ working - Cardinality(Askers) > 0
    BY DEF NodeFinishes, Abandoned, Askers, Asking
  <1>2. IsFiniteSet(Askers)
    BY FS_Subset, Askers \subseteq Calls DEF Askers, Finite
  <1>3. Cardinality(Askers) \in Nat
    BY <1>2, FS_CardinalityType
  <1> QED BY <1>1, <1>3 DEF Enough

\* Nor does anything that leaves the pool alone change it.
LEMMA StillEnough ==
  ASSUME Enough, UNCHANGED <<at, working>>
  PROVE  Enough'
  BY DEF Enough, Askers, Asking

\* The counts have their types.
LEMMA InvTypes ==
  ASSUME Finite, PoolInv, Enough
  PROVE  PoolTypeOK
  <1>1. Cardinality(HoldersOf(at)) \in Nat
    <2>1. IsFiniteSet(HoldersOf(at))
      BY FS_Subset, HoldersOf(at) \subseteq Calls DEF Finite, HoldersOf
    <2> QED BY <2>1, FS_CardinalityType
  <1>2. free \in 0..Slots
    BY <1>1 DEF PoolInv, Finite
  <1>3. working \in Nat
    <2>1. IsFiniteSet(Askers)
      BY FS_Subset, Askers \subseteq Calls DEF Askers, Finite
    <2>2. Cardinality(Askers) \in Nat
      BY <2>1, FS_CardinalityType
    <2> QED BY <2>2 DEF Enough
  <1> QED BY <1>2, <1>3 DEF PoolTypeOK, PoolInv, InLine
=============================================================================
