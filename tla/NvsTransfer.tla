---------------------------- MODULE NvsTransfer -----------------------------
(***************************************************************************)
(* A transfer of names to another address: the edge's checks, the quota    *)
(* and the adapter's own pass over the names (transfer in                  *)
(* src/edge/app/transfer.py and in src/adapter/app/nvs.py).                *)
(*                                                                         *)
(* The names are the caller's, or with everything=true a listing of the    *)
(* account's records up to a minute old (records.py): in either case any   *)
(* names of the account.  The grant of fee funds is module FeeGrant.       *)
(***************************************************************************)
EXTENDS NvsRead

CONSTANT Movers

ASSUME MoverAssumption == Movers \subseteq Jobs

VARIABLE move   \* where each transfer call stands

MoveStages == {"idle", "showing", "pooling", "admitting", "copying", "sending",
               "turnedAway", "overLimit", "lookupFailed", "refused", "unanswered", "sent"}

\* `todo`: names still to look at; `seen`: what name_show answered for the one
\* being read, `copied`: the value the adapter re-sends for each.  History:
\* `before`, the name DB, and `known`, the transactions accepted, when the call
\* began.
MoveCall == [pc : MoveStages, names : SUBSET Names, todo : SUBSET Names,
             name : Names, seen : Registration, copied : [Names -> Values],
             charged : BOOLEAN, before : [Names -> Registration],
             known : SUBSET Jobs]

MoveInit ==
  \E n0 \in Names :
    move = [m \in Movers |->
      [pc |-> "idle", names |-> {}, todo |-> {}, name |-> n0, seen |-> Free,
       copied |-> [n \in Names |-> Origin], charged |-> FALSE,
       before |-> [n \in Names |-> Free], known |-> {}]]

MoveAt(m, stage) == move[m].pc = stage

\* The operations of the one transaction.
MoveOps(m) ==
  {[verb |-> "UPDATE", name |-> n, value |-> move[m].copied[n], to |-> "other"] :
     n \in move[m].names}

-----------------------------------------------------------------------------
(* Edge: every name is read before the quota is spent.                     *)

StartMove(m) ==
  /\ MoveAt(m, "idle")
  /\ \E ns \in SUBSET Names \ {{}} :
       move' = [move EXCEPT ![m] =
         [@ EXCEPT !.pc = "showing", !.names = ns, !.todo = ns, !.known = accepted,
                   !.before = chain]]
  /\ UNCHANGED nodeVars

ShowForMove(m, n) ==
  /\ MoveAt(m, "showing") /\ n \in move[m].todo
  /\ \E seen \in ShowAnswers(n) :
       move' = [move EXCEPT ![m] =
         [@ EXCEPT !.pc = "pooling", !.name = n, !.seen = seen, !.todo = move[m].todo \ {n}]]
  /\ UNCHANGED nodeVars

\* Faults: a waiting update, or the end of the term, does not stop a transfer.
TransferableUpdating(seen, answer) == answer \in {"confirmed", "updating"} /\ seen.live

TransferableExpired(seen, answer) == answer = "confirmed"

\* Absent: not_found.  Pending or updating: record_pending.  Expired: not_active.
Transferable(seen, answer) == answer = "confirmed" /\ seen.live

PoolForMove(m) ==
  /\ MoveAt(m, "pooling")
  /\ \E pool \in PoolAnswers :
       LET answer == AnswerOf(move[m].name, move[m].seen, pool)
       IN  move' = [move EXCEPT ![m].pc =
             IF ~Transferable(move[m].seen, answer) THEN "turnedAway"
             ELSE IF move[m].todo = {} THEN "admitting" ELSE "showing"]
  /\ UNCHANGED nodeVars

\* The read of a name finds no slot (public_read_slot): the call ends there.
TurnMoveAway(m) ==
  /\ MoveAt(m, "showing")
  /\ move' = [move EXCEPT ![m].pc = "turnedAway"]
  /\ UNCHANGED nodeVars

\* admit_write, at the price of one write per name.
RefuseMoveOverLimit(m) ==
  /\ MoveAt(m, "admitting")
  /\ move' = [move EXCEPT ![m].pc = "overLimit"]
  /\ UNCHANGED nodeVars

AdmitMove(m) ==
  /\ MoveAt(m, "admitting")
  /\ move' = [move EXCEPT ![m] =
       [@ EXCEPT !.pc = "copying", !.charged = TRUE, !.todo = move[m].names]]
  /\ UNCHANGED nodeVars

-----------------------------------------------------------------------------
(* Adapter: name_show again, this time for the value, then one             *)
(* name_updatemany.                                                        *)

\* Fault: one variable for all names: each is sent with the last value read.
CopyLastValue(m, n) ==
  /\ MoveAt(m, "copying") /\ n \in move[m].todo
  /\ \E seen \in ShowAnswers(n) :
       move' = [move EXCEPT ![m] =
         IF ~Found(seen) \/ ~seen.live
         THEN [@ EXCEPT !.pc = "refused"]
         ELSE [@ EXCEPT !.copied = [k \in Names |-> seen.value], !.todo = move[m].todo \ {n},
                        !.pc = IF move[m].todo = {n} THEN "sending" ELSE "copying"]]
  /\ UNCHANGED nodeVars

\* Fault: the whole record is re-sent in place of its value.
CopyRecord(m, n) ==
  /\ MoveAt(m, "copying") /\ n \in move[m].todo
  /\ \E seen \in ShowAnswers(n) :
       move' = [move EXCEPT ![m] =
         IF ~Found(seen) \/ ~seen.live
         THEN [@ EXCEPT !.pc = "refused"]
         ELSE [@ EXCEPT !.copied[n] = seen, !.todo = move[m].todo \ {n},
                        !.pc = IF move[m].todo = {n} THEN "sending" ELSE "copying"]]
  /\ UNCHANGED nodeVars

CopyValue(m, n) ==
  /\ MoveAt(m, "copying") /\ n \in move[m].todo
  /\ \E seen \in ShowAnswers(n) :
       move' = [move EXCEPT ![m] =
         IF ~Found(seen) \/ ~seen.live
         THEN [@ EXCEPT !.pc = "refused"]
         ELSE [@ EXCEPT !.copied[n] = seen.value, !.todo = move[m].todo \ {n},
                        !.pc = IF move[m].todo = {n} THEN "sending" ELSE "copying"]]
  /\ UNCHANGED nodeVars

SendMove(m) ==
  /\ MoveAt(m, "sending")
  /\ \/ /\ Accept(m, MoveOps(m))
        /\ move' = [move EXCEPT ![m].pc = "sent"]
     \/ /\ Refused(MoveOps(m))
        /\ move' = [move EXCEPT ![m].pc = "refused"]
        /\ UNCHANGED nodeVars

\* validateaddress fails, before the quota at the edge or after it at the adapter.
AddressLookupFails(m) ==
  /\ MayFail
  /\ move[m].pc \in {"showing", "copying"} /\ move[m].todo = move[m].names
  /\ move' = [move EXCEPT ![m].pc = "lookupFailed"]
  /\ UNCHANGED nodeVars

\* The node is down, or its answer is lost after it accepted the transaction.
SendMoveFails(m) ==
  /\ MayFail
  /\ MoveAt(m, "sending")
  /\ move' = [move EXCEPT ![m].pc = "unanswered"]
  /\ Accept(m, MoveOps(m)) \/ UNCHANGED nodeVars

MoveStep(m) ==
  \/ StartMove(m)
  \/ \E n \in Names : ShowForMove(m, n)
  \/ PoolForMove(m)
  \/ TurnMoveAway(m)
  \/ RefuseMoveOverLimit(m)
  \/ AdmitMove(m)
  \/ \E n \in Names : CopyValue(m, n)
  \/ SendMove(m)
  \/ AddressLookupFails(m)
  \/ SendMoveFails(m)

-----------------------------------------------------------------------------
(* Properties                                                              *)

\* A transfer rewrites every value it moves.  What it overwrites was sent after
\* it began: a write accepted before is never rolled back by it.  "Only
\* confirmed records can be transferred" (transfer.py, record_pending) is what
\* this rests on.
AcknowledgedWriteSurvives ==
  \A tx \in mempool : tx.job \in Movers =>
    \A op \in tx.ops :
      op.value = chain[op.name].value \/ chain[op.name].value \notin move[tx.job].known

\* Names the node or the adapter refuses a charged transfer over, other than
\* for being held by someone else.
Obstacles(m) ==
  IF MoveAt(m, "copying") THEN {n \in move[m].todo : ~chain[n].live}
  ELSE {op.name : op \in {o \in MoveOps(m) : RefusalsOf(o) \cap {"pending", "inactive"} # {}}}

\* What stands in the way of name n came after the transfer began.
IsNews(m, n) ==
  \/ chain[n] # move[m].before[n]
  \/ \E tx \in mempool : tx.job \notin move[m].known /\ \E op \in tx.ops : op.name = n

\* "Everything checkable is checked before the quota, so a refusal costs
\* nothing" (transfer.py): a charged transfer is refused over a waiting write or
\* a lapsed name only if that write or lapse is newer than the call.
ChargedForNewsOnly ==
  [][\A m \in Movers :
       move[m].charged /\ move[m].pc # "refused" /\ move'[m].pc = "refused" =>
         \A n \in Obstacles(m) : IsNews(m, n)]_<<nodeVars, move>>

\* "Each name keeps its value byte for byte" (nvs.py, transfer): a transfer
\* waiting for its block carries the values the names have.
TransferKeepsValue ==
  \A tx \in mempool : tx.job \in Movers =>
    \A op \in tx.ops : op.value = chain[op.name].value

MoveTypeOK == move \in [Movers -> MoveCall]
=============================================================================
