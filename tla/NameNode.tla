------------------------------ MODULE NameNode ------------------------------
(***************************************************************************)
(* The Emercoin node behind the adapter, as far as the adapter uses it     *)
(* (src/adapter/app/nvs.py, rpc.py).  It is not part of this repository:   *)
(* this module states what the code relies on.                             *)
(*                                                                         *)
(* The name DB (name_show) knows confirmed registrations only; an accepted *)
(* operation waits in the mempool (name_mempool) until a block confirms    *)
(* it.  A name operation is checked against both, atomically.              *)
(***************************************************************************)
EXTENDS Naturals, FiniteSets

CONSTANTS
  Names,     \* NVS names, all under one account's ai:gh:<id> namespace
  Jobs,      \* everything that can send a transaction; a job sends at most one
  Origin,    \* the value of a name registered before the behaviour starts
  MayLapse,  \* whether the term of a name can run out
  MayFail    \* whether a lookup can fail with an RPCError

VARIABLES
  chain,     \* the name DB
  mempool,   \* transactions waiting for a block
  accepted,  \* history: the jobs whose transaction was ever accepted
  blocks     \* history: how many blocks were mined

nodeVars == <<chain, mempool, accepted, blocks>>

\* A value stands for the write that produced it: the job that wrote it.
Values == Jobs \cup {Origin}

Holders == {"nobody", "gateway", "other"}

Registration == [holder : Holders, live : BOOLEAN, value : Values]

Free     == [holder |-> "nobody",  live |-> FALSE, value |-> Origin]
Lapsed   == [holder |-> "gateway", live |-> FALSE, value |-> Origin]
Held     == [holder |-> "gateway", live |-> TRUE,  value |-> Origin]
HandedOver == [holder |-> "other", live |-> TRUE,  value |-> Origin]

\* One operation of name_new, name_update or name_updatemany; `to` is who
\* holds the name afterwards.
Operation == [verb : {"NEW", "UPDATE"}, name : Names, value : Values, to : {"gateway", "other"}]

Transaction == [job : Jobs, ops : SUBSET Operation]

-----------------------------------------------------------------------------
(* Lookups.                                                                *)

\* name_show: the registration, lapsed or not; an RPCError if there is none.
\* Callers catch every RPCError, so a failing node looks the same as no name.
ShowAnswers(n) == {chain[n]} \cup (IF MayFail THEN {Free} ELSE {})

Found(seen) == seen.holder # "nobody"

\* Live names that someone else holds.
GoneNames == {n \in Names : chain[n].live /\ chain[n].holder = "other"}

PendingNames == {op.name : op \in UNION {tx.ops : tx \in mempool}}

\* name_mempool: callers take an RPCError for an empty mempool.
PoolAnswers == {PendingNames} \cup (IF MayFail THEN {{}} ELSE {})

-----------------------------------------------------------------------------
(* Name operations.                                                        *)

\* Why the node refuses an operation of the gateway's wallet, {} if it does not.
RefusalsOf(op) ==
  IF op.name \in PendingNames THEN {"pending"}
  ELSE IF op.verb = "NEW" THEN (IF chain[op.name].live THEN {"unexpired"} ELSE {})
  ELSE IF ~chain[op.name].live THEN {"inactive"}
  ELSE IF chain[op.name].holder # "gateway" THEN {"notYours"}
  ELSE {}

\* One refusal fails the whole transaction.
Refused(ops) == \E op \in ops : RefusalsOf(op) # {}

NotYours(ops) == {op.name : op \in {o \in ops : "notYours" \in RefusalsOf(o)}}

Accept(j, ops) ==
  /\ ~Refused(ops)
  /\ mempool' = mempool \cup {[job |-> j, ops |-> ops]}
  /\ accepted' = accepted \cup {j}
  /\ UNCHANGED <<chain, blocks>>

-----------------------------------------------------------------------------
NodeInit ==
  /\ chain \in [Names -> {Free, Lapsed, Held, HandedOver}]
  /\ mempool = {}
  /\ accepted = {}
  /\ blocks = 0

\* A block confirms a transaction.  A block of several is several such steps.
Block(tx) ==
  /\ tx \in mempool
  /\ mempool' = mempool \ {tx}
  /\ chain' = [n \in Names |->
       IF \E op \in tx.ops : op.name = n
       THEN LET op == CHOOSE o \in tx.ops : o.name = n
            IN  [holder |-> op.to, live |-> TRUE, value |-> op.value]
       ELSE chain[n]]
  /\ blocks' = blocks + 1
  /\ UNCHANGED accepted

\* The term of a name runs out; a waiting update of it is no longer valid.
Lapse(n) ==
  /\ MayLapse
  /\ chain[n].live
  /\ chain' = [chain EXCEPT ![n].live = FALSE]
  /\ mempool' = {tx \in mempool : \A op \in tx.ops : op.name # n}
  /\ UNCHANGED <<accepted, blocks>>

NodeStep == (\E tx \in mempool : Block(tx)) \/ (\E n \in Names : Lapse(n))

NodeTypeOK ==
  /\ chain \in [Names -> Registration]
  /\ mempool \subseteq Transaction
  /\ accepted \subseteq Jobs
  /\ blocks \in Nat
=============================================================================
