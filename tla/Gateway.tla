------------------------------- MODULE Gateway ------------------------------
(***************************************************************************)
(* The gateway at work on the names of one account: writes, transfers and  *)
(* reads interleave at every request they make, and blocks and lapses come *)
(* in between (NvsWrite, NvsTransfer, NvsRead over NameNode).              *)
(***************************************************************************)
EXTENDS NvsWrite, NvsTransfer

ASSUME JobAssumption == IsFiniteSet(Jobs) /\ Writers \cap Movers = {}

vars == <<nodeVars, write, move, read>>

Init == NodeInit /\ WriteInit /\ MoveInit /\ ReadInit

Writing == (\E w \in Writers : WriteStep(w)) /\ UNCHANGED <<move, read>>

Moving == (\E m \in Movers : MoveStep(m)) /\ UNCHANGED <<write, read>>

Reading == (\E r \in Readers : ReadStep(r)) /\ UNCHANGED <<write, move>>

Mining == NodeStep /\ UNCHANGED <<write, move, read>>

Next == Writing \/ Moving \/ Reading \/ Mining

Spec == Init /\ [][Next]_vars

-----------------------------------------------------------------------------
\* Variables have their types.
TypeOK == NodeTypeOK /\ WriteTypeOK /\ MoveTypeOK /\ ReadTypeOK

\* A value stays with the name it was written for: a transfer copies the values
\* of its names one request after the other (nvs.py, transfer), while writes,
\* blocks and lapses change them and lookups fail, and re-sends each value under
\* its own name.
WrittenFor(n, value) ==
  value = Origin \/ (value \in Writers /\ value \in accepted /\ n \in write[value].names)

NoValueStrays ==
  /\ \A n \in Names : WrittenFor(n, chain[n].value)
  /\ \A tx \in mempool : \A op \in tx.ops : WrittenFor(op.name, op.value)
=============================================================================
