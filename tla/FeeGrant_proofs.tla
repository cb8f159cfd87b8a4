-------------------------- MODULE FeeGrant_proofs ---------------------------
(***************************************************************************)
(* Proofs about FeeGrant, for any accounts, calls, budget and window.      *)
(*                                                                         *)
(* The one fact that carries the rest is a count, Ticketed: the transfers   *)
(* of an account that hold its grant or have spent it are no more than its  *)
(* mark allows, and one for every DEL that was repeated.  Where a call      *)
(* stands tells whether its order can be out (Books), and a call that pays  *)
(* is counted in the budget while its day lasts (Budgeted).                 *)
(***************************************************************************)
EXTENDS FeeGrant, FiniteSetTheorems, TLAPS

\* A payment ordered or made, and not taken for a failure by the edge.
Spent(c) == c \in (orders \cup paid) \ doubted

Books ==
  \A c \in Calls :
    /\ pc[c] \in {"idle", "asking", "used", "reserved"} => c \notin orders \cup paid
    /\ pc[c] = "sending" => c \notin paid
    /\ pc[c] \in {"release", "release2", "refused"} => ~Spent(c)

\* The transfers of an account that hold its grant, or have spent it.
Tickets(a) == {c \in Calls : who[c] = a /\ (pc[c] \in Holding \/ Spent(c))}

Allowed(a) == repeats[a] + (IF mark[a] = "none" THEN 0 ELSE 1)

Ticketed == \A a \in Accounts : Cardinality(Tickets(a)) <= Allowed(a)

\* While no DEL was repeated, the mark is the holder's.
OwnMark ==
  \A c \in Calls : pc[c] \in Holding /\ repeats[who[c]] = 0 =>
    mark[who[c]] = "reserved" \/ (mark[who[c]] = "paid" /\ pc[c] = "settling")

\* Calls whose grant counts against the day's budget.
Counting(c) == Spent(c) \/ pc[c] \in {"reserved", "sending", "settling"}

Budgeted ==
  /\ \A c \in Calls : stamp[c] <= clock
  /\ \A c \in Calls : Counting(c) =>
       /\ stamp[c] + Day <= budgetEnd
       /\ stamp[c] > clock - Day => c \in budget
  /\ budgetEnd <= clock + Day

BudgetFits == Cardinality(budget) <= PerDay

IInv == TypeOK /\ NoRefusalStrands /\ Books /\ Ticketed /\ OwnMark /\ Budgeted /\ BudgetFits

-----------------------------------------------------------------------------
\* There are finitely many calls.
LEMMA FiniteCalls ==
  ASSUME NEW S \in SUBSET Calls
  PROVE  IsFiniteSet(S) /\ Cardinality(S) \in Nat
<1>1. IsFiniteSet(S)
  BY GrantAssumption, FS_Subset
<1> QED
  BY <1>1, FS_CardinalityType

\* The initial state satisfies the invariant.
LEMMA InitEstablishes == Init => IInv
<1> SUFFICES ASSUME Init PROVE IInv
  OBVIOUS
<1> USE GrantAssumption DEF Init
<1>1. TypeOK
  BY DEF TypeOK, Stages
<1>2. NoRefusalStrands /\ Books /\ OwnMark /\ Budgeted
  BY DEF NoRefusalStrands, Books, OwnMark, Budgeted, Counting, Spent, Holding
<1>3. Ticketed
  <2>1. \A a \in Accounts : Tickets(a) = {} /\ Allowed(a) = 0
    BY DEF Tickets, Allowed, Spent, Holding
  <2> QED
    BY <2>1, FS_EmptySet DEF Ticketed
<1>4. BudgetFits
  BY FS_EmptySet DEF BudgetFits
<1> QED
  BY <1>1, <1>2, <1>3, <1>4 DEF IInv

\* Taking calls out of the budget keeps it within its limit.
LEMMA SmallerBudget ==
  ASSUME TypeOK, BudgetFits, NEW S \in SUBSET budget
  PROVE  Cardinality(S) <= PerDay
<1>1. IsFiniteSet(budget)
  BY GrantAssumption, FS_Subset DEF TypeOK
<1>2. Cardinality(S) <= Cardinality(budget) /\ Cardinality(S) \in Nat /\ Cardinality(budget) \in Nat
  BY <1>1, FS_Subset, FS_CardinalityType
<1> QED
  BY <1>2, GrantAssumption DEF BudgetFits

\* One more element makes a set larger by one at most.
LEMMA OneMoreFits ==
  ASSUME NEW S, NEW x, IsFiniteSet(S), Cardinality(S) < PerDay
  PROVE  Cardinality(S \cup {x}) <= PerDay
<1>1. Cardinality(S) \in Nat
  BY FS_CardinalityType
<1>2. CASE x \in S
  <2>1. S \cup {x} = S
    BY <1>2
  <2> QED
    BY <1>1, <2>1, GrantAssumption
<1>3. CASE x \notin S
  <2>1. Cardinality(S \cup {x}) = Cardinality(S) + 1
    BY <1>3, FS_AddElement
  <2> QED
    BY <1>1, <2>1, GrantAssumption
<1> QED
  BY <1>2, <1>3

-----------------------------------------------------------------------------
(* The count of tickets: what a step can do to it.                         *)

\* It may fall, or what is allowed may rise.
LEMMA FewerTickets ==
  ASSUME IInv, NEW a \in Accounts, Tickets(a)' \subseteq Tickets(a),
         Allowed(a) \in Int, Allowed(a)' \in Int, Allowed(a) <= Allowed(a)'
  PROVE  Cardinality(Tickets(a)') <= Allowed(a)'
<1>1. Tickets(a) \in SUBSET Calls /\ Tickets(a)' \in SUBSET Calls
  BY DEF Tickets
<1>2. /\ Cardinality(Tickets(a)') <= Cardinality(Tickets(a))
      /\ Cardinality(Tickets(a)') \in Nat /\ Cardinality(Tickets(a)) \in Nat
  BY <1>1, FiniteCalls, FS_Subset
<1>3. Cardinality(Tickets(a)) <= Allowed(a)
  BY DEF IInv, Ticketed
<1> QED
  BY <1>2, <1>3

\* A reservation takes one more, and makes the mark that allows it.
LEMMA OneMoreTicket ==
  ASSUME IInv, NEW a \in Accounts, NEW c \in Calls, Tickets(a)' \subseteq Tickets(a) \cup {c},
         Allowed(a) \in Int, Allowed(a)' = Allowed(a) + 1
  PROVE  Cardinality(Tickets(a)') <= Allowed(a)'
<1>1. Tickets(a) \in SUBSET Calls /\ Tickets(a)' \in SUBSET Calls
  BY DEF Tickets
<1>2. /\ IsFiniteSet(Tickets(a)) /\ IsFiniteSet(Tickets(a) \cup {c})
      /\ Cardinality(Tickets(a)) \in Nat /\ Cardinality(Tickets(a)') \in Nat
  BY <1>1, FiniteCalls
<1>3. Cardinality(Tickets(a) \cup {c}) <= Cardinality(Tickets(a)) + 1
  BY <1>2, FS_AddElement
<1>4. /\ Cardinality(Tickets(a)') <= Cardinality(Tickets(a) \cup {c})
      /\ Cardinality(Tickets(a) \cup {c}) \in Nat
  BY <1>2, FS_Subset, FS_CardinalityType
<1>5. Cardinality(Tickets(a)) <= Allowed(a)
  BY DEF IInv, Ticketed
<1> QED
  BY <1>2, <1>3, <1>4, <1>5

\* A release gives one back, and what the mark allowed with it.
LEMMA OneTicketLess ==
  ASSUME IInv, NEW a \in Accounts, NEW c \in Tickets(a), Tickets(a)' \subseteq Tickets(a) \ {c},
         Allowed(a) \in Int, Allowed(a)' \in Int, Allowed(a) <= Allowed(a)' + 1
  PROVE  Cardinality(Tickets(a)') <= Allowed(a)'
<1>1. Tickets(a) \in SUBSET Calls /\ Tickets(a)' \in SUBSET Calls /\ Tickets(a) \ {c} \in SUBSET Calls
  BY DEF Tickets
<1>2. /\ IsFiniteSet(Tickets(a)) /\ IsFiniteSet(Tickets(a) \ {c})
      /\ Cardinality(Tickets(a)) \in Nat /\ Cardinality(Tickets(a)') \in Nat
      /\ Cardinality(Tickets(a) \ {c}) \in Nat
  BY <1>1, FiniteCalls
<1>3. Cardinality(Tickets(a) \ {c}) = Cardinality(Tickets(a)) - 1
  BY <1>2, FS_RemoveElement
<1>4. Cardinality(Tickets(a)') <= Cardinality(Tickets(a) \ {c})
  BY <1>2, FS_Subset
<1>5. Cardinality(Tickets(a)) <= Allowed(a)
  BY DEF IInv, Ticketed
<1> QED
  BY <1>2, <1>3, <1>4, <1>5

\* What is allowed is a number.
LEMMA AllowedType ==
  ASSUME TypeOK, NEW a \in Accounts
  PROVE  Allowed(a) \in Int
  BY DEF TypeOK, Allowed

\* While no DEL was repeated, an account has one ticket.
LEMMA OnlyTicket ==
  ASSUME IInv, NEW a \in Accounts, repeats[a] = 0, NEW c \in Tickets(a), NEW d \in Tickets(a)
  PROVE  c = d
<1> SUFFICES ASSUME c # d PROVE FALSE
  OBVIOUS
<1>1. Tickets(a) \in SUBSET Calls /\ {c, d} \in SUBSET Tickets(a)
  BY DEF Tickets
<1>2. IsFiniteSet(Tickets(a)) /\ Cardinality(Tickets(a)) \in Nat
  BY <1>1, FiniteCalls
<1>3. Cardinality(Tickets(a)) <= 1
  <2>1. Cardinality(Tickets(a)) <= Allowed(a)
    BY DEF IInv, Ticketed
  <2>2. Allowed(a) \in {0, 1}
    BY DEF Allowed
  <2> QED
    BY <1>2, <2>1, <2>2
<1>4. Cardinality({c, d}) = 2
  <2>1. IsFiniteSet({c}) /\ Cardinality({c}) = 1
    BY FS_Singleton
  <2>2. {c, d} = {c} \cup {d} /\ d \notin {c}
    OBVIOUS
  <2>3. Cardinality({c} \cup {d}) = Cardinality({c}) + 1
    BY <2>1, <2>2, FS_AddElement
  <2> QED
    BY <2>1, <2>2, <2>3
<1>5. Cardinality({c, d}) <= Cardinality(Tickets(a))
  BY <1>1, <1>2, FS_Subset
<1> QED
  BY <1>2, <1>3, <1>4, <1>5

\* Nobody has a ticket more, and no account is allowed less.
LEMMA StillTicketed ==
  ASSUME IInv, TypeOK',
         \A a \in Accounts : Tickets(a)' \subseteq Tickets(a) /\ Allowed(a) <= Allowed(a)'
  PROVE  Ticketed'
<1>1. \A a \in Accounts : Allowed(a) \in Int /\ Allowed(a)' \in Int
  BY DEF IInv, TypeOK, Allowed
<1> QED
  BY <1>1, FewerTickets DEF Ticketed

-----------------------------------------------------------------------------
\* Time passing keeps the invariant.
LEMMA TickKeeps == ASSUME IInv, Tick PROVE IInv'
<1> USE GrantAssumption DEF Tick, redis, wallet, history
<1>1. TypeOK'
  BY DEF IInv, TypeOK
<1>2. NoRefusalStrands' /\ Books' /\ OwnMark' /\ Ticketed'
  BY DEF IInv, NoRefusalStrands, RefusedByItself, Books, OwnMark, Ticketed, Tickets, Allowed, Spent, Holding
<1>3. Budgeted'
  BY DEF IInv, Budgeted, Counting, Spent, TypeOK
<1>4. BudgetFits'
  BY DEF IInv, BudgetFits
<1> QED
  BY <1>1, <1>2, <1>3, <1>4 DEF IInv

\* A call that is stamped, or refused by the script, keeps the invariant.
LEMMA AskKeeps ==
  ASSUME IInv, NEW c \in Calls, Ask(c) \/ ReserveUsed(c) \/ ReserveFull(c)
  PROVE  IInv'
<1> USE GrantAssumption DEF redis, wallet, history, Goto
<1>1. /\ pc[c] \in {"idle", "asking"} /\ pc' \in [Calls -> Stages]
      /\ pc'[c] \in {"asking", "used", "refused"} /\ \A d \in Calls : d # c => pc'[d] = pc[d]
      /\ UNCHANGED <<clock, mark, budgetEnd, who, wallet, history>>
  BY DEF IInv, TypeOK, Stages, Ask, ReserveUsed, ReserveFull
<1>2. /\ budget' \in SUBSET budget
      /\ \A d \in Calls : Counting(d) /\ stamp[d] > clock - Day => d \in budget'
  BY DEF IInv, Budgeted, BudgetSeenBy, TypeOK, Ask, ReserveUsed, ReserveFull
<1>3. /\ stamp' \in [Calls -> 0..MaxTime] /\ stamp'[c] <= clock
      /\ \A d \in Calls : d # c => stamp'[d] = stamp[d]
  BY DEF IInv, TypeOK, Budgeted, Ask, ReserveUsed, ReserveFull
<1>4. TypeOK'
  BY <1>1, <1>2, <1>3 DEF IInv, TypeOK
<1>5. NoRefusalStrands'
  <2>1. \A d \in Calls : RefusedByItself(d) /\ mark[who[d]] # "none" => RefusedByItself(d)'
    BY DEF IInv, TypeOK, RefusedByItself, Ask, ReserveUsed, ReserveFull
  <2>2. \A d \in Calls : pc[d] \in Holding \cup {"gone"} => pc'[d] = pc[d]
    BY <1>1 DEF Holding
  <2> QED
    BY <2>1, <2>2, <1>1 DEF IInv, NoRefusalStrands
<1>6. Books'
  BY <1>1 DEF IInv, Books, Spent
<1>7. ~Spent(c) /\ \A d \in Calls : Spent(d)' = Spent(d)
  BY <1>1 DEF IInv, Books, Spent
<1>8. Ticketed'
  <2>1. \A a \in Accounts : Tickets(a)' = Tickets(a) /\ Allowed(a)' = Allowed(a)
    BY <1>1, <1>7 DEF Tickets, Allowed, Holding
  <2> QED
    BY <2>1 DEF IInv, Ticketed
<1>9. OwnMark'
  BY <1>1 DEF IInv, OwnMark, Holding
<1>10. Budgeted'
  <2>1. \A d \in Calls : Counting(d)' => d # c /\ Counting(d)
    BY <1>1, <1>7 DEF Counting
  <2> QED
    BY <1>1, <1>2, <1>3, <2>1 DEF IInv, Budgeted
<1>11. BudgetFits'
  BY <1>2, SmallerBudget DEF IInv, BudgetFits
<1> QED
  BY <1>4, <1>5, <1>6, <1>8, <1>9, <1>10, <1>11 DEF IInv

\* A reservation keeps the invariant, whether its reply comes or is lost.
LEMMA GrantedKeeps ==
  ASSUME IInv, NEW c \in Calls, ReserveGranted(c)
  PROVE  IInv'
<1> USE GrantAssumption DEF wallet, history
<1>1. /\ pc[c] = "asking" /\ mark[who[c]] = "none"
      /\ mark' = [mark EXCEPT ![who[c]] = "reserved"]
      /\ budget' = BudgetSeenBy(c) \cup {c} /\ budgetEnd' = clock + Day
      /\ Cardinality(BudgetSeenBy(c)) < PerDay
      /\ UNCHANGED <<clock, who, stamp, orders, paid, doubted, repeats>>
  BY DEF ReserveGranted
<1>2. \/ pc' = [pc EXCEPT ![c] = "reserved"] /\ unheard' = unheard
      \/ pc' = pc /\ unheard' = unheard \cup {c}
  BY DEF ReserveGranted, ReserveHeard, Goto
<1>3. /\ pc'[c] \in {"reserved", "asking"} /\ \A d \in Calls : d # c => pc'[d] = pc[d]
      /\ pc' \in [Calls -> Stages]
  BY <1>1, <1>2 DEF IInv, TypeOK, Stages
<1>4. BudgetSeenBy(c) \in SUBSET budget
  BY DEF BudgetSeenBy
<1>5. TypeOK'
  BY <1>1, <1>2, <1>3, <1>4 DEF IInv, TypeOK
<1>6. NoRefusalStrands'
  <2>1. pc'[c] \in Holding \/ RefusedByItself(c)'
    BY <1>1, <1>2 DEF IInv, TypeOK, RefusedByItself, Holding
  <2>2. \A d \in Calls : pc[d] \in Holding \cup {"gone"} => pc'[d] = pc[d]
    BY <1>1, <1>3 DEF Holding
  <2>3. \A d \in Calls : RefusedByItself(d) => d = c \/ RefusedByItself(d)'
    BY <1>2, <1>3 DEF RefusedByItself
  <2> QED
    BY <1>1, <2>1, <2>2, <2>3 DEF IInv, TypeOK, NoRefusalStrands
<1>7. \A d \in Calls : Spent(d)' = Spent(d)
  BY <1>1 DEF Spent
<1>8. ~Spent(c) /\ Books'
  BY <1>1, <1>3, <1>7 DEF IInv, Books, Spent
<1>9. Ticketed'
  <2>1. ASSUME NEW a \in Accounts, a # who[c]
        PROVE  Cardinality(Tickets(a)') <= Allowed(a)'
    <3>1. Tickets(a)' = Tickets(a) /\ Allowed(a)' = Allowed(a)
      BY <1>1, <1>3, <1>7, <2>1 DEF IInv, TypeOK, Tickets, Allowed
    <3> QED
      BY <3>1 DEF IInv, Ticketed
  <2>2. ASSUME NEW a \in Accounts, a = who[c]
        PROVE  Cardinality(Tickets(a)') <= Allowed(a)'
    <3>1. Allowed(a) \in Int
      BY AllowedType DEF IInv
    <3>2. Allowed(a)' = Allowed(a) + 1
      BY <1>1, <2>2 DEF IInv, TypeOK, Allowed
    <3>3. Tickets(a)' \subseteq Tickets(a) \cup {c}
      BY <1>1, <1>3, <1>7, <2>2 DEF Tickets
    <3> QED
      BY <3>1, <3>2, <3>3, OneMoreTicket
  <2> QED
    BY <2>1, <2>2 DEF Ticketed
<1>10. OwnMark'
  <2>1. \A d \in Calls : pc[d] \in Holding /\ who[d] = who[c] => repeats[who[d]] # 0
    BY <1>1 DEF IInv, OwnMark
  <2> QED
    BY <1>1, <1>3, <2>1 DEF IInv, TypeOK, OwnMark, Holding
<1>11. Budgeted'
  <2>1. \A d \in Calls : d # c /\ Counting(d)' => Counting(d)
    BY <1>3, <1>7 DEF Counting
  <2>2. \A d \in Calls : Counting(d) /\ stamp[d] > clock - Day => d \in BudgetSeenBy(c)
    BY DEF IInv, Budgeted, BudgetSeenBy, TypeOK
  <2> QED
    BY <1>1, <2>1, <2>2 DEF IInv, TypeOK, Budgeted
<1>12. BudgetFits'
  <2>1. IsFiniteSet(BudgetSeenBy(c))
    BY <1>4, FiniteCalls DEF IInv, TypeOK
  <2> QED
    BY <1>1, <2>1, OneMoreFits DEF BudgetFits
<1> QED
  BY <1>5, <1>6, <1>8, <1>9, <1>10, <1>11, <1>12 DEF IInv

\* Steps of a call that only move it on, or back, keep the invariant.
LEMMA MovingOnKeeps ==
  ASSUME IInv, NEW c \in Calls,
         TransferFails(c) \/ SendOrder(c) \/ SendTimesOut(c) \/ Interrupted(c)
  PROVE  IInv'
<1> USE GrantAssumption
        DEF redis, wallet, history, Goto, TransferFails, SendOrder, SendTimesOut, Interrupted
<1>1. TypeOK'
  BY DEF IInv, TypeOK, Stages
<1>2. NoRefusalStrands'
  <2>1. \A d \in Calls : pc[d] \in Holding \cup {"gone"} => pc'[d] \in Holding \cup {"gone"}
    BY DEF IInv, TypeOK, Holding, Running
  <2>2. \A d \in Calls : RefusedByItself(d) => pc'[d] = "gone" \/ RefusedByItself(d)'
    BY DEF IInv, TypeOK, RefusedByItself, Holding, Running
  <2>3. UNCHANGED <<mark, who>>
    OBVIOUS
  <2> QED
    BY <2>1, <2>2, <2>3 DEF IInv, NoRefusalStrands
<1>3. Books'
  BY DEF IInv, Books, Spent, Running, Holding, TypeOK
<1>4. Ticketed'
  <2>1. \A d \in Calls : pc'[d] \in Holding \/ Spent(d)' => pc[d] \in Holding \/ Spent(d)
    BY DEF IInv, TypeOK, Spent, Holding, Running
  <2>2. \A a \in Accounts : Tickets(a)' \subseteq Tickets(a) /\ Allowed(a)' = Allowed(a)
    BY <2>1 DEF Tickets, Allowed
  <2> QED
    BY <1>1, <2>2, StillTicketed, AllowedType DEF IInv
<1>5. OwnMark'
  BY DEF IInv, OwnMark, Holding, Running, TypeOK
<1>6. \A d \in Calls : Counting(d)' => Counting(d)
  BY DEF IInv, Counting, Spent, Running, Holding, TypeOK
<1>7. Budgeted'
  BY <1>6 DEF IInv, Budgeted
<1>8. BudgetFits'
  BY DEF IInv, BudgetFits
<1> QED
  BY <1>1, <1>2, <1>3, <1>4, <1>5, <1>7, <1>8 DEF IInv

\* What the wallet does keeps the invariant.
LEMMA WalletKeeps ==
  ASSUME IInv, NEW c \in Calls, WalletPays(c) \/ WalletRefuses(c)
  PROVE  IInv'
<1> USE GrantAssumption DEF redis, wallet, history, Goto, WalletPays, WalletRefuses
<1>1. TypeOK'
  BY DEF IInv, TypeOK, Stages
<1>2. NoRefusalStrands' /\ OwnMark'
  BY DEF IInv, NoRefusalStrands, RefusedByItself, OwnMark, Holding, TypeOK
<1>3. Books'
  BY DEF IInv, Books, Spent, TypeOK
<1>4. \A d \in Calls : Spent(d)' => Spent(d)
  BY DEF Spent
<1>5. Ticketed'
  <2>1. \A d \in Calls : pc'[d] \in Holding => pc[d] \in Holding
    BY DEF IInv, TypeOK, Holding
  <2>2. \A a \in Accounts : Tickets(a)' \subseteq Tickets(a) /\ Allowed(a)' = Allowed(a)
    BY <1>4, <2>1 DEF Tickets, Allowed
  <2> QED
    BY <1>1, <2>2, StillTicketed, AllowedType DEF IInv
<1>6. \A d \in Calls : Counting(d)' => Counting(d)
  BY <1>4 DEF IInv, Counting, TypeOK
<1>7. Budgeted'
  BY <1>6 DEF IInv, Budgeted
<1>8. BudgetFits'
  BY DEF IInv, BudgetFits
<1> QED
  BY <1>1, <1>2, <1>3, <1>5, <1>7, <1>8 DEF IInv

\* Settling keeps the invariant, done once or again.
LEMMA SettleKeeps ==
  ASSUME IInv, NEW c \in Calls, Settle(c)
  PROVE  IInv'
<1> USE GrantAssumption DEF redis, wallet, history, Goto, Settle
<1>1. /\ pc[c] = "settling" /\ pc'[c] \in {"settling", "sent"} /\ pc' \in [Calls -> Stages]
      /\ \A d \in Calls : d # c => pc'[d] = pc[d]
      /\ mark' = [mark EXCEPT ![who[c]] = "paid"]
      /\ UNCHANGED <<clock, budget, budgetEnd, who, stamp, orders, paid, doubted, repeats, unheard>>
  BY DEF IInv, TypeOK, Stages
<1>2. TypeOK'
  BY <1>1 DEF IInv, TypeOK
<1>3. NoRefusalStrands'
  BY <1>1 DEF IInv, TypeOK, NoRefusalStrands, RefusedByItself, Holding
<1>4. \A d \in Calls : Spent(d)' = Spent(d)
  BY <1>1 DEF Spent
<1>5. Books'
  BY <1>1, <1>4 DEF IInv, Books
<1>6. \A a \in Accounts : Tickets(a)' \subseteq Tickets(a)
  BY <1>1, <1>4 DEF Tickets, Holding
<1>7. Ticketed'
  <2>1. \A a \in Accounts : Allowed(a) <= Allowed(a)'
    BY <1>1 DEF IInv, TypeOK, Allowed
  <2> QED
    BY <1>2, <1>6, <2>1, StillTicketed
<1>8. OwnMark'
  <2>1. \A d \in Calls : pc[d] \in Holding /\ who[d] = who[c] /\ repeats[who[c]] = 0 => d = c
    <3>1. who[c] \in Accounts /\ c \in Tickets(who[c])
      BY <1>1 DEF IInv, TypeOK, Tickets, Holding
    <3> QED
      BY <3>1, OnlyTicket DEF Tickets
  <2> QED
    BY <1>1, <2>1 DEF IInv, TypeOK, OwnMark, Holding
<1>9. Budgeted'
  <2>1. \A d \in Calls : Counting(d)' => Counting(d)
    BY <1>1, <1>4 DEF Counting
  <2> QED
    BY <1>1, <2>1 DEF IInv, Budgeted
<1>10. BudgetFits'
  BY <1>1 DEF IInv, BudgetFits
<1> QED
  BY <1>2, <1>3, <1>5, <1>7, <1>8, <1>9, <1>10 DEF IInv

\* Giving the mark back keeps the invariant; when the DEL is to be repeated, the
\* account is allowed one more.
LEMMA ReleaseMarkKeeps ==
  ASSUME IInv, NEW c \in Calls, ReleaseMark(c)
  PROVE  IInv'
<1> USE GrantAssumption DEF wallet, Goto
<1>1. /\ pc[c] = "release" /\ mark' = [mark EXCEPT ![who[c]] = "none"]
      /\ UNCHANGED <<clock, budget, budgetEnd, who, stamp, orders, paid, doubted, unheard>>
  BY DEF ReleaseMark
<1>2. \/ pc' = [pc EXCEPT ![c] = "release2"] /\ repeats' = repeats
      \/ pc' = pc /\ repeats' = [repeats EXCEPT ![who[c]] = @ + 1]
  BY DEF ReleaseMark
<1>3. /\ pc' \in [Calls -> Stages] /\ pc'[c] \in {"release", "release2"}
      /\ \A d \in Calls : d # c => pc'[d] = pc[d]
  BY <1>1, <1>2 DEF IInv, TypeOK, Stages
<1>4. TypeOK'
  BY <1>1, <1>2, <1>3 DEF IInv, TypeOK
<1>5. NoRefusalStrands'
  BY <1>1, <1>3 DEF IInv, TypeOK, NoRefusalStrands, RefusedByItself, Holding
<1>6. ~Spent(c) /\ \A d \in Calls : Spent(d)' = Spent(d)
  BY <1>1 DEF IInv, Books, Spent
<1>7. Books'
  BY <1>1, <1>3, <1>6 DEF IInv, Books
<1>8. Ticketed'
  <2>1. who[c] \in Accounts /\ c \in Tickets(who[c])
    BY <1>1 DEF IInv, TypeOK, Tickets, Holding
  <2>2. ASSUME NEW a \in Accounts, a # who[c]
        PROVE  Cardinality(Tickets(a)') <= Allowed(a)'
    <3>1. Tickets(a)' = Tickets(a)
      BY <1>1, <1>3, <1>6, <2>2 DEF Tickets
    <3>2. Allowed(a)' = Allowed(a)
      BY <1>1, <1>2, <2>1, <2>2 DEF IInv, TypeOK, Allowed
    <3> QED
      BY <3>1, <3>2 DEF IInv, Ticketed
  <2>3. ASSUME NEW a \in Accounts, a = who[c]
        PROVE  Cardinality(Tickets(a)') <= Allowed(a)'
    <3>1. Allowed(a) \in Int /\ Allowed(a)' \in Int
      BY <1>4 DEF IInv, TypeOK, Allowed
    <3>2. CASE pc' = [pc EXCEPT ![c] = "release2"] /\ repeats' = repeats
      <4>1. c \in Tickets(a) /\ Tickets(a)' \subseteq Tickets(a) \ {c}
        BY <1>1, <1>3, <1>6, <2>1, <2>3, <3>2 DEF IInv, TypeOK, Tickets, Holding
      <4>2. Allowed(a) <= Allowed(a)' + 1
        BY <1>1, <2>3, <3>2 DEF IInv, TypeOK, Allowed
      <4> QED
        BY <3>1, <4>1, <4>2, OneTicketLess
    <3>3. CASE pc' = pc /\ repeats' = [repeats EXCEPT ![who[c]] = @ + 1]
      <4>1. Tickets(a)' \subseteq Tickets(a)
        BY <1>1, <1>6, <3>3 DEF Tickets
      <4>2. Allowed(a) <= Allowed(a)'
        BY <1>1, <2>3, <3>3 DEF IInv, TypeOK, Allowed
      <4> QED
        BY <3>1, <4>1, <4>2, FewerTickets
    <3> QED
      BY <1>2, <3>2, <3>3
  <2> QED
    BY <2>2, <2>3 DEF Ticketed
<1>9. OwnMark'
  <2>1. \A d \in Calls : pc[d] \in Holding /\ who[d] = who[c] /\ repeats[who[c]] = 0 => d = c
    <3>1. who[c] \in Accounts /\ c \in Tickets(who[c])
      BY <1>1 DEF IInv, TypeOK, Tickets, Holding
    <3> QED
      BY <3>1, OnlyTicket DEF Tickets
  <2>2. \A d \in Calls : repeats'[who[d]] = 0 => repeats[who[d]] = 0
    BY <1>2 DEF IInv, TypeOK
  <2>3. repeats'[who[c]] = 0 => pc'[c] = "release2"
    BY <1>2 DEF IInv, TypeOK
  <2>4. \A d \in Calls : who[d] # who[c] => mark'[who[d]] = mark[who[d]]
    BY <1>1 DEF IInv, TypeOK
  <2>5. ASSUME NEW d \in Calls, pc'[d] \in Holding, repeats'[who[d]] = 0
        PROVE  d # c /\ who[d] # who[c] /\ pc'[d] = pc[d]
    BY <1>3, <2>1, <2>2, <2>3, <2>5 DEF Holding
  <2> QED
    BY <1>1, <2>2, <2>4, <2>5 DEF IInv, OwnMark
<1>10. Budgeted'
  <2>1. \A d \in Calls : Counting(d)' => Counting(d)
    BY <1>1, <1>3, <1>6 DEF Counting
  <2> QED
    BY <1>1, <2>1 DEF IInv, Budgeted
<1>11. BudgetFits'
  BY <1>1 DEF IInv, BudgetFits
<1> QED
  BY <1>4, <1>5, <1>7, <1>8, <1>9, <1>10, <1>11 DEF IInv

\* Giving the place in the budget back keeps the invariant.
LEMMA ReleaseBudgetKeeps ==
  ASSUME IInv, NEW c \in Calls, ReleaseBudget(c)
  PROVE  IInv'
<1> USE GrantAssumption DEF redis, wallet, history, Goto, ReleaseBudget
<1>1. TypeOK'
  BY DEF IInv, TypeOK, Stages
<1>2. NoRefusalStrands' /\ OwnMark'
  BY DEF IInv, NoRefusalStrands, RefusedByItself, OwnMark, Holding, TypeOK
<1>3. ~Spent(c) /\ Books'
  BY DEF IInv, Books, Spent, TypeOK
<1>4. Ticketed'
  <2>1. \A a \in Accounts : Tickets(a)' \subseteq Tickets(a) /\ Allowed(a)' = Allowed(a)
    BY DEF IInv, TypeOK, Tickets, Allowed, Spent, Holding
  <2> QED
    BY <1>1, <2>1, StillTicketed, AllowedType DEF IInv
<1>5. Budgeted'
  BY <1>3 DEF IInv, Budgeted, Counting, Spent, TypeOK
<1>6. BudgetFits'
  BY SmallerBudget DEF IInv, BudgetFits
<1> QED
  BY <1>1, <1>2, <1>3, <1>4, <1>5, <1>6 DEF IInv

-----------------------------------------------------------------------------
\* Every step keeps the invariant.
LEMMA StepKeeps == IInv /\ [Next]_vars => IInv'
<1> SUFFICES ASSUME IInv, [Next]_vars PROVE IInv'
  OBVIOUS
<1>1. CASE Tick
  BY <1>1, TickKeeps
<1>2. CASE \E c \in Calls : Ask(c) \/ Work(c) \/ WalletPays(c) \/ WalletRefuses(c) \/ Interrupted(c)
  BY <1>2, AskKeeps, GrantedKeeps, MovingOnKeeps, WalletKeeps, SettleKeeps, ReleaseMarkKeeps,
     ReleaseBudgetKeeps DEF Work
<1>3. CASE UNCHANGED vars
  BY <1>3 DEF vars, IInv, TypeOK, NoRefusalStrands, RefusedByItself, Books, Ticketed, Tickets,
              Allowed, OwnMark, Budgeted, BudgetFits, Counting, Spent, Holding
<1> QED
  BY <1>1, <1>2, <1>3 DEF Next

\* The invariant holds in every reachable state.
THEOREM Invariance == Spec => []IInv
  BY InitEstablishes, StepKeeps, PTL DEF Spec

\* Every reachable state has its types.
THEOREM TypeCorrect == Spec => []TypeOK
  BY Invariance, PTL DEF IInv

\* An account's transfers that hold its grant, and those that were paid, are among
\* its tickets.
LEMMA AmongTickets ==
  ASSUME IInv, NEW a \in Accounts, NEW S \in SUBSET Tickets(a)
  PROVE  Cardinality(S) <= 1 + repeats[a]
<1>1. Tickets(a) \in SUBSET Calls /\ IsFiniteSet(Tickets(a))
  BY FiniteCalls DEF Tickets
<1>2. /\ Cardinality(S) <= Cardinality(Tickets(a))
      /\ Cardinality(S) \in Nat /\ Cardinality(Tickets(a)) \in Nat
  BY <1>1, FS_Subset, FS_CardinalityType
<1>3. Cardinality(Tickets(a)) <= Allowed(a) /\ Allowed(a) \in Int /\ Allowed(a) <= 1 + repeats[a]
  BY DEF IInv, TypeOK, Ticketed, Allowed
<1>4. repeats[a] \in Nat
  BY DEF IInv, TypeOK
<1> QED
  BY <1>2, <1>3, <1>4

\* However an account's transfers overlap, one holds its grant, and one more for
\* every DEL that was repeated; without one, the mark is the holder's.
THEOREM HolderIsAlone == Spec => []OneHolder
<1>1. IInv => OneHolder
  <2> SUFFICES ASSUME IInv, NEW a \in Accounts
               PROVE  /\ Cardinality(Holders(a)) <= 1 + repeats[a]
                      /\ repeats[a] = 0 => \A c \in Holders(a) :
                           mark[a] = "reserved" \/ (mark[a] = "paid" /\ pc[c] = "settling")
    BY DEF OneHolder
  <2>1. Holders(a) \in SUBSET Tickets(a)
    BY DEF Holders, Tickets
  <2>2. Cardinality(Holders(a)) <= 1 + repeats[a]
    BY <2>1, AmongTickets
  <2>3. repeats[a] = 0 => \A c \in Holders(a) :
          mark[a] = "reserved" \/ (mark[a] = "paid" /\ pc[c] = "settling")
    BY DEF IInv, OwnMark, Holders
  <2> QED
    BY <2>2, <2>3
<1> QED
  BY <1>1, Invariance, PTL

\* A reservation outlives its call only if the call was cut off, or refused by the
\* mark it had made itself.
THEOREM RefusalsGiveBack == Spec => []NoRefusalStrands
  BY Invariance, PTL DEF IInv

\* No account is paid twice with the edge's knowledge, but for repeated DELs.
THEOREM PaidOnce == Spec => []OncePerAnsweredPayment
<1>1. IInv => OncePerAnsweredPayment
  <2> SUFFICES ASSUME IInv, NEW a \in Accounts
               PROVE  Cardinality(PaidTo(a) \ doubted) <= 1 + repeats[a]
    BY DEF OncePerAnsweredPayment
  <2>1. PaidTo(a) \ doubted \in SUBSET Tickets(a)
    BY DEF PaidTo, Tickets, Spent, IInv, TypeOK
  <2> QED
    BY <2>1, AmongTickets
<1> QED
  BY <1>1, Invariance, PTL

\* The payments of the last day are all counted in the budget.
LEMMA PaidIsBudgeted == IInv => BudgetHeld
<1> SUFFICES ASSUME IInv PROVE BudgetHeld
  OBVIOUS
<1> DEFINE Recent == {c \in paid \ doubted : stamp[c] > clock - Day}
<1>1. Recent \in SUBSET budget
  BY DEF IInv, TypeOK, Budgeted, Counting, Spent
<1>2. Cardinality(Recent) <= PerDay
  BY <1>1, SmallerBudget DEF IInv
<1> QED
  BY <1>2 DEF BudgetHeld

\* The daily budget holds over every window that ends now.
THEOREM BudgetIsHeld == Spec => []BudgetHeld
  BY Invariance, PaidIsBudgeted, PTL

\* While no DEL of the account's was repeated, a step neither clears a paid mark
\* nor orders another payment under it.
LEMMA PaidStays ==
  ASSUME IInv, [Next]_vars, NEW a \in Accounts, mark[a] = "paid", repeats[a] = 0
  PROVE  mark'[a] = "paid" /\ {c \in orders' : who[c] = a} \subseteq orders
<1>1. \A c \in Calls : pc[c] \in Holding /\ who[c] = a => pc[c] = "settling"
  BY DEF IInv, OwnMark
<1>2. CASE \E c \in Calls : ReleaseMark(c) \/ ReleaseBudget(c) \/ Settle(c) \/ SendOrder(c) \/ ReserveGranted(c)
  BY <1>1, <1>2 DEF IInv, TypeOK, Holding, ReleaseMark, ReleaseBudget,
                    Settle, SendOrder, ReserveGranted, Goto, redis, wallet
<1>3. CASE \E c \in Calls : Ask(c) \/ ReserveUsed(c) \/ ReserveFull(c)
             \/ TransferFails(c) \/ SendTimesOut(c) \/ Interrupted(c)
  BY <1>3 DEF Ask, ReserveUsed, ReserveFull, TransferFails, SendTimesOut, Interrupted, redis, wallet
<1>4. CASE \E c \in Calls : WalletPays(c) \/ WalletRefuses(c)
  BY <1>4 DEF WalletPays, WalletRefuses, redis
<1>5. CASE Tick \/ UNCHANGED vars
  BY <1>5 DEF Tick, vars, redis, wallet
<1> QED
  BY <1>2, <1>3, <1>4, <1>5 DEF Next, Work

\* A paid grant is never given back, nor paid again, unless a DEL was repeated.
THEOREM PaidForGood == Spec => PaidIsForever
<1>1. IInv /\ [Next]_vars =>
        [\A a \in Accounts : mark[a] = "paid" /\ repeats[a] = 0 =>
           /\ mark'[a] = "paid"
           /\ {c \in orders' : who[c] = a} \subseteq orders]_vars
  BY PaidStays
<1> QED
  BY <1>1, Invariance, PTL DEF Spec, PaidIsForever
=============================================================================
