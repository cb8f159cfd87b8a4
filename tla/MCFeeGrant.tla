----------------------------- MODULE MCFeeGrant -----------------------------
(* Instances of FeeGrant for TLC. *)
EXTENDS FeeGrant, TLC

CONSTANTS a, b, c1, c2, c3

MCAccounts == {a, b}
MCCalls == {c1, c2, c3}

\* Redis's replies to one account are lost, or none.
OneRepeated == (a :> 1 @@ b :> 0)
NoneRepeated == [acct \in MCAccounts |-> 0]

\* Three transfers of one account, or two and one of another.
OverlappingInit == Init /\ who[c1] = a /\ who[c2] = a

\* Transfers of one account are alike, so let them start in this order.
InOrder ==
  /\ pc'[c2] # "idle" => pc'[c1] # "idle"
  /\ who[c3] = a /\ pc'[c3] # "idle" => pc'[c2] # "idle"

\* One call is cut off; and it takes three transfers of an account to be paid on
\* account of a repeated DEL.
Bounded ==
  /\ Cardinality({c \in Calls : pc'[c] = "gone"}) <= 1
  /\ who[c3] = b => repeats' = repeats

OverlappingSpec == OverlappingInit /\ [][Next]_vars /\ Fairness
=============================================================================
