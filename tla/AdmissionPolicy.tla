-------------------------- MODULE AdmissionPolicy ---------------------------
(***************************************************************************)
(* What write admission promises, without buckets, trims or expiry: the    *)
(* log of admitted writes only ever grows by whole calls, each stamped at  *)
(* most MaxLag ago by an account old enough to write, and after each of    *)
(* them every limit holds over the window that ends now.                   *)
(*                                                                         *)
(* WriteAdmission implements this specification: see PolicyRefined there.  *)
(***************************************************************************)
EXTENDS Integers, FiniteSets

CONSTANTS Accounts, Everyone, Tokens, Minute, Day, PerMinute, PerDay, GlobalPerDay,
          WriteSizes, Eligible, MaxLag

VARIABLES clock, admitted

vars == <<clock, admitted>>

Batch(t, a, n, s) == {[token |-> t, j |-> j, acct |-> a, stamp |-> s] : j \in 1..n}

\* The writes of a log stamped in the last `window` ticks, of some accounts.
Recent(log, who, window) == {e \in log : e.acct \in who /\ e.stamp > clock - window}

Within(log, a) ==
  /\ Cardinality(Recent(log, {a}, Minute)) <= PerMinute
  /\ Cardinality(Recent(log, {a}, Day)) <= PerDay
  /\ Cardinality(Recent(log, Accounts, Day)) <= GlobalPerDay

Init == clock = 0 /\ admitted = {}

Advance == clock' = clock + 1 /\ UNCHANGED admitted

Admit(t, a, n, s) ==
  /\ s >= Eligible[a]
  /\ s <= clock /\ clock - s <= MaxLag
  /\ admitted' = admitted \cup Batch(t, a, n, s)
  /\ Within(admitted', a)
  /\ UNCHANGED clock

Next ==
  \/ Advance
  \/ \E t \in Tokens, a \in Accounts, n \in WriteSizes, s \in 0..clock : Admit(t, a, n, s)

Spec == Init /\ [][Next]_vars
=============================================================================
