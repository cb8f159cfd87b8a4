------------------------------ MODULE SlotPool ------------------------------
(***************************************************************************)
(* Calls of the adapter that ask the node only while they hold one of a    *)
(* few slots: public reads (public_read_slot in src/adapter/app/main.py)   *)
(* and scans of the name index (filter_names in src/adapter/app/nvs.py).   *)
(*                                                                         *)
(* The slots are an asyncio.Semaphore.  A slot that is given back goes to  *)
(* the call that has waited longest, before that call has come to run:     *)
(* until it does, its own time limit can still cut it off.  The node, for  *)
(* its part, goes on with a request that nobody waits for any more.        *)
(***************************************************************************)
EXTENDS Naturals, Sequences, FiniteSets

CONSTANTS
  Calls,      \* requests to the adapter
  Slots,      \* how many of them may ask the node at once
  Questions,  \* how many requests to the node one call may make, one by one
  Hurried     \* whether a call that waits too long for a slot is turned away

VARIABLES
  free,    \* the semaphore's value
  queue,   \* calls waiting for a slot, the longest first
  at,      \* where each call stands
  working  \* how many of their requests the node works on

poolVars == <<free, queue, at, working>>

Ended == {"served", "failed", "turnedAway"}

\* "woken": a slot is set aside for the call, which has not run yet.
Stages == {"idle", "waiting", "woken", "asking", "askingAgain"} \cup Ended

Asking(c) == at[c] \in {"asking", "askingAgain"}

PoolInit ==
  /\ free = Slots
  /\ queue = <<>>
  /\ at = [c \in Calls |-> "idle"]
  /\ working = 0

-----------------------------------------------------------------------------
(* The semaphore.                                                          *)

\* locked(): no slot is left, or some call has not picked up its slot yet.
Locked == free = 0 \/ \E c \in Calls : at[c] \in {"waiting", "woken"}

Smaller(i, j) == IF i < j THEN i ELSE j

\* Call c is at `stage` now; of the `spare` slots, as many as `most` are set
\* aside for the first calls of `line`.
Share(c, stage, spare, line, most) ==
  LET n == Smaller(most, Smaller(spare, Len(line)))
  IN /\ free' = spare - n
     /\ queue' = SubSeq(line, n + 1, Len(line))
     /\ at' = [d \in Calls |-> IF d = c THEN stage
                               ELSE IF \E i \in 1..n : line[i] = d THEN "woken"
                               ELSE at[d]]

Without(line, i) == SubSeq(line, 1, i - 1) \o SubSeq(line, i + 1, Len(line))

\* release(): one slot comes free, and goes to the first in line if there is one.
HandOn(c, stage) == Share(c, stage, free + 1, queue, 1)

\* The end of acquire(): slots that came free while a woken call kept others in
\* line are handed out too.
Leave(c, stage, spare, line) == Share(c, stage, spare, line, Len(line))

-----------------------------------------------------------------------------
(* A call.                                                                 *)

\* Fault: a free slot is looked for before an await, and taken after it.
TakeSlotUnlocked(c) ==
  /\ at[c] = "idle"
  /\ free' = free - 1
  /\ at' = [at EXCEPT ![c] = "asking"]
  /\ working' = working + 1
  /\ UNCHANGED queue

\* Fault: both lookups of a read are sent at once.
TakeSlotAskingTwice(c) ==
  /\ at[c] = "idle" /\ ~Locked
  /\ free' = free - 1
  /\ at' = [at EXCEPT ![c] = "asking"]
  /\ working' = working + Questions
  /\ UNCHANGED queue

TakeSlot(c) ==
  /\ at[c] = "idle" /\ ~Locked
  /\ free' = free - 1
  /\ at' = [at EXCEPT ![c] = "asking"]
  /\ working' = working + 1
  /\ UNCHANGED queue

Queue(c) ==
  /\ at[c] = "idle" /\ Locked
  /\ queue' = Append(queue, c)
  /\ at' = [at EXCEPT ![c] = "waiting"]
  /\ UNCHANGED <<free, working>>

Resume(c) ==
  /\ at[c] = "woken"
  /\ Leave(c, "asking", free, queue)
  /\ working' = working + 1

\* Fault: the wait for a slot is inside the try that gives it back.
TurnAwayReleasing(c) ==
  /\ Hurried
  /\ \/ at[c] = "waiting"
        /\ \E i \in 1..Len(queue) : queue[i] = c /\ Leave(c, "turnedAway", free + 1, Without(queue, i))
     \/ at[c] = "woken" /\ Leave(c, "turnedAway", free + 1, queue)
  /\ UNCHANGED working

\* wait_for's READ_WAIT is over: the call leaves the line, or hands on the slot
\* that was already set aside for it; 503, "node busy".
TurnAway(c) ==
  /\ Hurried
  /\ \/ at[c] = "waiting"
        /\ \E i \in 1..Len(queue) : queue[i] = c /\ Leave(c, "turnedAway", free, Without(queue, i))
     \/ at[c] = "woken" /\ Leave(c, "turnedAway", free + 1, queue)
  /\ UNCHANGED working

\* The node's answer, an RPC error among them: the call ends, or asks again.
Answered(c) ==
  /\ Asking(c)
  /\ \/ /\ \E stage \in {"served", "failed"} : HandOn(c, stage)
        /\ working' = working - 1
     \/ /\ at[c] = "asking" /\ Questions = 2
        /\ at' = [at EXCEPT ![c] = "askingAgain"]
        /\ UNCHANGED <<free, queue, working>>

\* Fault: only an answered call gives its slot back.
TimedOutKeeping(c) ==
  /\ Asking(c)
  /\ at' = [at EXCEPT ![c] = "failed"]
  /\ UNCHANGED <<free, queue, working>>

\* No answer within the client's 30 seconds: an RPCError like any other, but
\* the node keeps the request.
TimedOut(c) ==
  /\ Asking(c)
  /\ \/ HandOn(c, "failed") /\ UNCHANGED working
     \/ /\ at[c] = "asking" /\ Questions = 2
        /\ at' = [at EXCEPT ![c] = "askingAgain"]
        /\ working' = working + 1
        /\ UNCHANGED <<free, queue>>

\* Requests at the node that nobody waits for.
Abandoned == working - Cardinality({c \in Calls : Asking(c)})

NodeFinishes ==
  /\ Abandoned > 0
  /\ working' = working - 1
  /\ UNCHANGED <<free, queue, at>>

\* What the adapter's event loop sees to, whatever the node does.
Served(c) == Resume(c) \/ TurnAway(c) \/ Answered(c) \/ TimedOut(c)

-----------------------------------------------------------------------------
Holders == {c \in Calls : at[c] \in {"woken", "asking", "askingAgain"}}

PoolTypeOK ==
  /\ free \in 0..Slots
  /\ queue \in Seq(Calls)
  /\ at \in [Calls -> Stages]
  /\ working \in Nat

\* A slot is free, or some call has it.
Conserved == free + Cardinality(Holders) = Slots
=============================================================================
