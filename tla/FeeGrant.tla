------------------------------ MODULE FeeGrant ------------------------------
(***************************************************************************)
(* Network-fee grants (src/edge/app/grant.py) and the part of a transfer   *)
(* that uses them (src/edge/app/transfer.py).                              *)
(*                                                                         *)
(* A transfer that asks for funds reserves the account's one grant in      *)
(* Redis, sends the transfer, then asks the wallet to pay, and finally     *)
(* marks the grant as paid.  Every arrow between those steps is an await:  *)
(* other calls run, the edge may stop, a client may cancel its call, and   *)
(* the wallet's answer may come late or never while the payment itself     *)
(* goes through.                                                           *)
(*                                                                         *)
(* The Redis client sends a command again when its reply is lost           *)
(* (requirements.txt: redis>=5.0, of which 6 and later do so by default):  *)
(* what the command did is done twice, and other calls run in between.     *)
(*                                                                         *)
(* A call is also its own reservation token.  Losing Redis, which grant.py *)
(* accepts as a cost, and the daily counts of grants sent and failed are   *)
(* not modelled.                                                           *)
(***************************************************************************)
EXTENDS Integers, FiniteSets

CONSTANTS
  Accounts,   \* GitHub ids
  Calls,      \* transfer calls with fee_grant=true, each with its own token
  PerDay,     \* settings.fee_grants_per_day, above zero
  Day,        \* length of the budget window, in ticks
  MayTimeOut, \* whether the wallet's answer can be lost or come too late
  MayStop,    \* whether the edge can stop, or a call be cancelled
  MaxRepeats, \* bound: how often each account's DEL is repeated; with 0, none of
              \* its replies is lost
  MaxTime     \* bound: the last instant of a behaviour

ASSUME GrantAssumption ==
  /\ PerDay \in Nat \ {0}
  /\ Day \in Nat \ {0}
  /\ MayTimeOut \in BOOLEAN
  /\ MayStop \in BOOLEAN
  /\ MaxRepeats \in [Accounts -> Nat]
  /\ MaxTime \in Nat
  /\ IsFiniteSet(Calls)

VARIABLES
  clock,
  mark,      \* Redis grant:gh:<id>: "none", "reserved" or "paid"
  budget,    \* Redis grant:day:all: calls scored with their stamps
  budgetEnd, \* Redis: the instant the budget key's PEXPIRE runs out
  pc,        \* where each call stands
  who,       \* the account of each call that has started
  stamp,     \* the time.time() of each call's reservation
  orders,    \* payments on their way to the wallet
  paid,      \* history: payments the wallet made
  doubted,   \* history: calls that took a missing answer for a failure
  repeats,   \* history: how often an account's DEL was done and the reply lost
  unheard    \* history: calls whose script reserved and the reply was lost

vars == <<clock, mark, budget, budgetEnd, pc, who, stamp, orders, paid,
          doubted, repeats, unheard>>

redis == <<mark, budget, budgetEnd>>
wallet == <<orders, paid>>
history == <<doubted, repeats, unheard>>

Stages == {"idle", "asking", "used", "reserved", "sending", "settling", "sent",
           "release", "release2", "refused", "gone"}

\* The stages in which a call relies on its account's mark being its own.
Holding == {"reserved", "sending", "settling", "release"}

Running == Holding \cup {"asking", "release2"}

-----------------------------------------------------------------------------
Init ==
  /\ clock = 0
  /\ mark = [a \in Accounts |-> "none"]
  /\ budget = {}
  /\ budgetEnd = 0
  /\ pc = [c \in Calls |-> "idle"]
  /\ who \in [Calls -> Accounts]
  /\ stamp = [c \in Calls |-> 0]
  /\ orders = {}
  /\ paid = {}
  /\ doubted = {}
  /\ repeats = [a \in Accounts |-> 0]
  /\ unheard = {}

Goto(c, stage) == pc' = [pc EXCEPT ![c] = stage]

Tick ==
  /\ clock < MaxTime
  /\ clock' = clock + 1
  /\ UNCHANGED <<redis, pc, who, stamp, wallet, history>>

-----------------------------------------------------------------------------
(* reserve(): the stamp is taken, then one script runs in Redis.           *)

Ask(c) ==
  /\ pc[c] = "idle"
  /\ stamp' = [stamp EXCEPT ![c] = clock]
  /\ Goto(c, "asking")
  /\ UNCHANGED <<clock, redis, who, wallet, history>>

\* The window as Redis holds it, trimmed by the stamp of call c.
BudgetSeenBy(c) ==
  IF clock < budgetEnd THEN {d \in budget : stamp[d] > stamp[c] - Day} ELSE {}

\* The account has a mark, which may be this call's own, from a run whose reply
\* was lost.
ReserveUsed(c) ==
  /\ pc[c] = "asking" /\ mark[who[c]] # "none"
  /\ Goto(c, "used")
  /\ UNCHANGED <<clock, redis, who, stamp, wallet, history>>

ReserveFull(c) ==
  /\ pc[c] = "asking" /\ mark[who[c]] = "none"
  /\ Cardinality(BudgetSeenBy(c)) >= PerDay
  /\ budget' = BudgetSeenBy(c)
  /\ Goto(c, "refused")
  /\ UNCHANGED <<clock, mark, budgetEnd, who, stamp, wallet, history>>

MayRepeat(c) == MaxRepeats[who[c]] > 0

\* The reply comes, or it is lost and the script is about to run again.
ReserveHeard(c) ==
  \/ Goto(c, "reserved") /\ UNCHANGED unheard
  \/ MayRepeat(c) /\ unheard' = unheard \cup {c} /\ UNCHANGED pc

\* Fault: the script does not look at the account's own mark.
ReserveGrantedAgain(c) ==
  /\ pc[c] = "asking"
  /\ Cardinality(BudgetSeenBy(c)) < PerDay
  /\ mark' = [mark EXCEPT ![who[c]] = "reserved"]
  /\ budget' = BudgetSeenBy(c) \cup {c}
  /\ budgetEnd' = clock + Day
  /\ ReserveHeard(c)
  /\ UNCHANGED <<clock, who, stamp, wallet, doubted, repeats>>

\* Fault: one grant too many fits the day.
ReserveGrantedOneMore(c) ==
  /\ pc[c] = "asking" /\ mark[who[c]] = "none"
  /\ Cardinality(BudgetSeenBy(c)) <= PerDay
  /\ mark' = [mark EXCEPT ![who[c]] = "reserved"]
  /\ budget' = BudgetSeenBy(c) \cup {c}
  /\ budgetEnd' = clock + Day
  /\ ReserveHeard(c)
  /\ UNCHANGED <<clock, who, stamp, wallet, doubted, repeats>>

\* Fault: PEXPIRE gets twice the window.
ReserveGrantedLongKey(c) ==
  /\ pc[c] = "asking" /\ mark[who[c]] = "none"
  /\ Cardinality(BudgetSeenBy(c)) < PerDay
  /\ mark' = [mark EXCEPT ![who[c]] = "reserved"]
  /\ budget' = BudgetSeenBy(c) \cup {c}
  /\ budgetEnd' = clock + 2 * Day
  /\ ReserveHeard(c)
  /\ UNCHANGED <<clock, who, stamp, wallet, doubted, repeats>>

ReserveGranted(c) ==
  /\ pc[c] = "asking" /\ mark[who[c]] = "none"
  /\ Cardinality(BudgetSeenBy(c)) < PerDay
  /\ mark' = [mark EXCEPT ![who[c]] = "reserved"]
  /\ budget' = BudgetSeenBy(c) \cup {c}
  /\ budgetEnd' = clock + Day
  /\ ReserveHeard(c)
  /\ UNCHANGED <<clock, who, stamp, wallet, doubted, repeats>>

-----------------------------------------------------------------------------
(* transfer(): the quota and the transfer, and what a failure undoes.      *)

\* Fault: the reservation is not given back.
TransferFailsKept(c) ==
  /\ pc[c] = "reserved"
  /\ Goto(c, "refused")
  /\ UNCHANGED <<clock, redis, who, stamp, wallet, history>>

\* The quota refuses, the adapter refuses or does not answer, or the call is
\* cancelled inside the try: the except branch releases the reservation.
TransferFails(c) ==
  /\ pc[c] = "reserved"
  /\ Goto(c, "release")
  /\ UNCHANGED <<clock, redis, who, stamp, wallet, history>>

\* Fault: release() forgets the account's mark.
ReleaseMarkNever(c) ==
  /\ pc[c] = "release"
  /\ Goto(c, "release2")
  /\ UNCHANGED <<clock, redis, who, stamp, wallet, history>>

\* release(): two separate Redis calls, the mark first.  DEL looks at nothing, so
\* a repeated one takes whatever mark the account has by then.
ReleaseMark(c) ==
  /\ pc[c] = "release"
  /\ mark' = [mark EXCEPT ![who[c]] = "none"]
  /\ \/ Goto(c, "release2") /\ UNCHANGED repeats
     \/ /\ repeats[who[c]] < MaxRepeats[who[c]]
        /\ repeats' = [repeats EXCEPT ![who[c]] = @ + 1]
        /\ UNCHANGED pc
  /\ UNCHANGED <<clock, budget, budgetEnd, who, stamp, wallet, doubted, unheard>>

\* (Repeated, ZREM takes nothing more: a token is its call's own.)
ReleaseBudget(c) ==
  /\ pc[c] = "release2"
  /\ budget' = budget \ {c}
  /\ Goto(c, "refused")
  /\ UNCHANGED <<clock, mark, budgetEnd, who, stamp, wallet, history>>

-----------------------------------------------------------------------------
(* _send_grant(): pay, then settle, or give the grant back.                *)

\* The transfer has gone out, and the order to pay follows it.
SendOrder(c) ==
  /\ pc[c] = "reserved"
  /\ orders' = orders \cup {c}
  /\ Goto(c, "sending")
  /\ UNCHANGED <<clock, redis, who, stamp, paid, history>>

\* The wallet pays, whether or not anyone still waits for the answer.
WalletPays(c) ==
  /\ c \in orders
  /\ orders' = orders \ {c}
  /\ paid' = paid \cup {c}
  /\ IF pc[c] = "sending"
     THEN \/ Goto(c, "settling") /\ UNCHANGED doubted
          \/ MayTimeOut /\ Goto(c, "release") /\ doubted' = doubted \cup {c}
     ELSE UNCHANGED <<pc, doubted>>
  /\ UNCHANGED <<clock, redis, who, stamp, repeats, unheard>>

\* The wallet refuses: locked, out of funds, or the order never reached it.
WalletRefuses(c) ==
  /\ c \in orders
  /\ orders' = orders \ {c}
  /\ IF pc[c] = "sending" THEN Goto(c, "release") ELSE UNCHANGED pc
  /\ UNCHANGED <<clock, redis, who, stamp, paid, history>>

\* No answer within the adapter client's timeout: an AdapterError like any other.
SendTimesOut(c) ==
  /\ MayTimeOut
  /\ pc[c] = "sending"
  /\ Goto(c, "release")
  /\ doubted' = doubted \cup {c}
  /\ UNCHANGED <<clock, redis, who, stamp, wallet, repeats, unheard>>

\* Fault: settle() clears the mark instead of keeping it.
SettleClears(c) ==
  /\ pc[c] = "settling"
  /\ mark' = [mark EXCEPT ![who[c]] = "none"]
  /\ Goto(c, "sent")
  /\ UNCHANGED <<clock, budget, budgetEnd, who, stamp, wallet, history>>

\* One transaction, which may be done again as well.
Settle(c) ==
  /\ pc[c] = "settling"
  /\ mark' = [mark EXCEPT ![who[c]] = "paid"]
  /\ Goto(c, "sent") \/ (MayRepeat(c) /\ UNCHANGED pc)
  /\ UNCHANGED <<clock, budget, budgetEnd, who, stamp, wallet, history>>

-----------------------------------------------------------------------------
\* A call is cancelled where nothing catches it (before reserve's answer is
\* in, while the payment is out, inside a release), or the edge stops.
Interrupted(c) ==
  /\ MayStop
  /\ pc[c] \in Running
  /\ Goto(c, "gone")
  /\ UNCHANGED <<clock, redis, who, stamp, wallet, history>>

Work(c) ==
  \/ ReserveUsed(c) \/ ReserveFull(c) \/ ReserveGranted(c)
  \/ TransferFails(c) \/ SendOrder(c) \/ SendTimesOut(c) \/ Settle(c)
  \/ ReleaseMark(c) \/ ReleaseBudget(c)

Next ==
  \/ Tick
  \/ \E c \in Calls :
       Ask(c) \/ Work(c) \/ WalletPays(c) \/ WalletRefuses(c) \/ Interrupted(c)

Spec == Init /\ [][Next]_vars

\* The event loop runs every started call on, and the client's own timeout ends
\* its wait for the wallet; the wallet itself is not relied on.
Fairness == \A c \in Calls : WF_vars(Work(c))

FairSpec == Spec /\ Fairness

-----------------------------------------------------------------------------
(* Properties                                                              *)

\* Variables have their types.
TypeOK ==
  /\ clock \in 0..MaxTime
  /\ mark \in [Accounts -> {"none", "reserved", "paid"}]
  /\ budget \subseteq Calls
  /\ budgetEnd \in 0..(MaxTime + Day)
  /\ pc \in [Calls -> Stages]
  /\ who \in [Calls -> Accounts]
  /\ stamp \in [Calls -> 0..MaxTime]
  /\ orders \subseteq Calls
  /\ paid \subseteq Calls
  /\ doubted \subseteq Calls
  /\ repeats \in [Accounts -> Nat]
  /\ unheard \subseteq Calls

\* The transfers of an account that rely on its mark.
Holders(a) == {c \in Calls : who[c] = a /\ pc[c] \in Holding}

\* However transfers of one account overlap, at most one of them holds its
\* grant, and while it does the account's mark says so: release() and settle()
\* rewrite the mark without looking at it, and rely on this.  A release whose DEL
\* is repeated takes another transfer's mark: each one lets in one more holder,
\* and no more.
OneHolder ==
  \A a \in Accounts :
    /\ Cardinality(Holders(a)) <= 1 + repeats[a]
    /\ repeats[a] = 0 => \A c \in Holders(a) :
         mark[a] = "reserved" \/ (mark[a] = "paid" /\ pc[c] = "settling")

\* A call that was refused because of the mark it had made itself.
RefusedByItself(c) == c \in unheard /\ pc[c] \in {"asking", "used"}

\* "The grant is reserved last among the refusals, so no other refusal can
\* strand it, and given back if the transfer does not go out" (transfer.py): a
\* reservation that nobody is working on was left by an interruption, or by a
\* script that met the mark of its own first run; never by another refusal, or a
\* failure.
NoRefusalStrands ==
  \A a \in Accounts : mark[a] = "reserved" =>
    \E c \in Calls : who[c] = a /\ (pc[c] \in Holding \cup {"gone"} \/ RefusedByItself(c))

\* The grants of an account.
PaidTo(a) == {c \in paid : who[c] = a}

\* Once per account, ever - up to the payments whose answer the edge missed, and
\* to one for every DEL that was repeated.
OncePerAnsweredPayment ==
  \A a \in Accounts : Cardinality(PaidTo(a) \ doubted) <= 1 + repeats[a]

\* "At most fee_grants_per_day across everyone in the trailing 24 hours"
\* (grant.py), for the same payments: everything reserved in the window that
\* ends now and paid with the edge's knowledge fits the budget.
BudgetHeld ==
  Cardinality({c \in paid \ doubted : stamp[c] > clock - Day}) <= PerDay

\* "Kept for good: it is given once" (grant.py, settle): once an account is
\* marked as paid the mark stays, and no further payment is ordered for it, as
\* long as no DEL of the account's was repeated.
PaidIsForever ==
  [][\A a \in Accounts : mark[a] = "paid" /\ repeats[a] = 0 =>
       /\ mark'[a] = "paid"
       /\ {c \in orders' : who[c] = a} \subseteq orders]_vars

\* A call was cut off while it held its account's grant, or refused by itself.
Stranded(a) == \E c \in Calls : who[c] = a /\ (pc[c] = "gone" \/ RefusedByItself(c))

\* No account's grant stays merely reserved, whatever the wallet does: the call
\* that holds it settles it or gives it back, unless it was cut off or refused by
\* itself.
ReservationEnds == []<>(\A a \in Accounts : mark[a] = "reserved" => Stranded(a))

\* "Once per GitHub account, ever" (grant.py, module docstring).
OnceEver == \A a \in Accounts : Cardinality(PaidTo(a)) <= 1
=============================================================================
