------------------------------ MODULE NvsRead -------------------------------
(***************************************************************************)
(* Reading one record (read in src/adapter/app/main.py): name_show first,  *)
(* then the mempool, two requests to the node with whatever happens in     *)
(* between.  read_record, the REST read and the checks of a transfer all   *)
(* go through it.                                                          *)
(***************************************************************************)
EXTENDS NameNode

CONSTANT Readers

VARIABLE read   \* where each read stands

Answers == {"none", "absent", "pending", "confirmed", "updating"}

\* `seen`: what name_show answered.  History: `known`, the transactions
\* accepted, and `since`, the blocks mined, before the read began; `heard`,
\* whether the node answered what was asked so far.
ReadCall == [pc : {"idle", "pooling", "done", "turnedAway"}, name : Names, seen : Registration,
             answer : Answers, known : SUBSET Jobs, since : Nat, heard : BOOLEAN]

ReadInit == read \in [Readers -> {[pc |-> "idle", name |-> n, seen |-> Free,
                                   answer |-> "none", known |-> {}, since |-> 0,
                                   heard |-> TRUE] : n \in Names}]

\* Fault: a registered name's waiting update is not looked for.
AnswerWithoutUpdates(n, seen, pool) ==
  IF Found(seen) THEN "confirmed" ELSE IF n \in pool THEN "pending" ELSE "absent"

\* The answer put together from the two lookups; "updating" is a confirmed
\* record with pending_update.
AnswerOf(n, seen, pool) ==
  IF Found(seen) THEN IF n \in pool THEN "updating" ELSE "confirmed"
                 ELSE IF n \in pool THEN "pending" ELSE "absent"

ShowForRead(r) ==
  /\ read[r].pc = "idle"
  /\ \E seen \in ShowAnswers(read[r].name) :
       read' = [read EXCEPT ![r] =
         [@ EXCEPT !.pc = "pooling", !.seen = seen, !.known = accepted, !.since = blocks,
                   !.heard = seen = chain[read[r].name]]]
  /\ UNCHANGED nodeVars

PoolForRead(r) ==
  /\ read[r].pc = "pooling"
  /\ \E pool \in PoolAnswers :
       read' = [read EXCEPT ![r] =
         [@ EXCEPT !.pc = "done", !.answer = AnswerOf(read[r].name, read[r].seen, pool),
                   !.heard = read[r].heard /\ pool = PendingNames]]
  /\ UNCHANGED nodeVars

\* public_read_slot: no slot within READ_WAIT, the read is turned away.
TurnReadAway(r) ==
  /\ read[r].pc = "idle"
  /\ read' = [read EXCEPT ![r].pc = "turnedAway"]
  /\ UNCHANGED nodeVars

ReadStep(r) == ShowForRead(r) \/ PoolForRead(r) \/ TurnReadAway(r)

-----------------------------------------------------------------------------
(* Properties                                                              *)

\* The name has been registered, or a write of it sent, before the read began.
WrittenBefore(r) ==
  \E tx \in mempool : tx.job \in read[r].known /\ \E op \in tx.ops : op.name = read[r].name

\* A read the node answered is off by at most the blocks mined while it ran:
\* without one, "not found" means that the name is neither registered nor
\* written, and a record without pending_update is the registration as it
\* stands, with no earlier write waiting (main.py, read: "otherwise a caller
\* would mistake the stale value for the latest").
ReadExactBetweenBlocks ==
  [][\A r \in Readers :
       read[r].pc = "pooling" /\ read'[r].pc = "done" /\ read'[r].heard
         /\ blocks = read[r].since =>
         /\ read'[r].answer = "absent" => ~Found(chain[read[r].name])
         /\ read'[r].answer \in {"confirmed", "updating"} =>
              read[r].seen.value = chain[read[r].name].value
         /\ read'[r].answer \in {"absent", "confirmed"} => ~WrittenBefore(r)]_<<nodeVars, read>>

\* "A write reads back as `pending` as soon as it is sent" (errors.py, the
\* answer not_found): a read that began after a write of the name was accepted
\* never answers that no such record exists.
NotFoundMeansAbsent ==
  \A r \in Readers : read[r].pc = "done" /\ read[r].answer = "absent" =>
    chain[read[r].name].value \notin read[r].known

ReadTypeOK == read \in [Readers -> ReadCall]
=============================================================================
