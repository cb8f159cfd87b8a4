------------------------------ MODULE NvsWrite ------------------------------
(***************************************************************************)
(* A write, from the tool call to the node: the edge's ensure_writable and *)
(* admit_write (register_identity, store_memory, store_memory_batch and    *)
(* their REST twins), then the adapter's choice of name_new or name_update *)
(* (nvs.write_record, nvs.write_batch).                                    *)
(*                                                                         *)
(* Each lookup is a request of its own; blocks, lapses and other calls     *)
(* come in between.  An instance takes no step while it waits for one.     *)
(***************************************************************************)
EXTENDS NameNode

CONSTANT Writers

ASSUME WriterAssumption == Writers \subseteq Jobs

VARIABLE write   \* where each write call stands

WriteStages == {"idle", "checking", "admitting", "showing", "pooling", "sending",
                "notHeld", "overLimit", "lookupFailed", "refused", "unanswered", "sent"}

\* `todo` and `active`: names still to look at, names found active.  History:
\* `goneAtStart`, the names someone else held when the call began; `known`, the
\* transactions accepted before it was admitted; `lost`, the names the node
\* refused as not ours.
WriteCall == [pc : WriteStages, names : SUBSET Names, batch : BOOLEAN,
              todo : SUBSET Names, active : SUBSET Names, charged : BOOLEAN,
              goneAtStart : SUBSET Names, known : SUBSET Jobs, lost : SUBSET Names]

NoWrite == [pc |-> "idle", names |-> {}, batch |-> FALSE, todo |-> {}, active |-> {},
            charged |-> FALSE, goneAtStart |-> {}, known |-> {}, lost |-> {}]

WriteInit == write = [w \in Writers |-> NoWrite]

WriteAt(w, stage) == write[w].pc = stage

\* The name operations the adapter has decided on.
WriteOps(w) ==
  {[verb |-> IF n \in write[w].active THEN "UPDATE" ELSE "NEW",
    name |-> n, value |-> w, to |-> "gateway"] : n \in write[w].names}

-----------------------------------------------------------------------------
(* Edge.                                                                   *)

StartWrite(w) ==
  /\ WriteAt(w, "idle")
  /\ \E ns \in SUBSET Names \ {{}}, batch \in BOOLEAN :
       /\ batch \/ Cardinality(ns) = 1
       /\ write' = [write EXCEPT ![w] =
            [@ EXCEPT !.pc = "checking", !.names = ns, !.batch = batch, !.todo = ns,
                      !.goneAtStart = GoneNames \cap ns]]
  /\ UNCHANGED nodeVars

\* Fault: only the first name is looked at.
CheckFirstHolder(w, n) ==
  /\ WriteAt(w, "checking") /\ n \in write[w].todo
  /\ \E seen \in ShowAnswers(n) :
       write' = [write EXCEPT ![w].pc =
         IF seen.live /\ seen.holder = "other" THEN "notHeld" ELSE "admitting"]
  /\ UNCHANGED nodeVars

\* ensure_writable, one name: holder() is name_show and getaddressinfo, and
\* only a live name held by someone else is "foreign".
CheckHolder(w, n) ==
  /\ WriteAt(w, "checking") /\ n \in write[w].todo
  /\ \E seen \in ShowAnswers(n) :
       write' = [write EXCEPT ![w] =
         IF seen.live /\ seen.holder = "other"
         THEN [@ EXCEPT !.pc = "notHeld"]
         ELSE [@ EXCEPT !.todo = write[w].todo \ {n},
                        !.pc = IF write[w].todo = {n} THEN "admitting" ELSE "checking"]]
  /\ UNCHANGED nodeVars

\* getaddressinfo fails where name_show did not: the call ends there.
HolderLookupFails(w) ==
  /\ MayFail
  /\ WriteAt(w, "checking")
  /\ \E n \in write[w].todo : chain[n].live
  /\ write' = [write EXCEPT ![w].pc = "lookupFailed"]
  /\ UNCHANGED nodeVars

\* admit_write (module WriteAdmission): refused at no cost, or admitted at the
\* price of one write per name.
RefuseOverLimit(w) ==
  /\ WriteAt(w, "admitting")
  /\ write' = [write EXCEPT ![w].pc = "overLimit"]
  /\ UNCHANGED nodeVars

\* Fault: a batch never asks for the mempool.
AdmitUnpooled(w) ==
  /\ WriteAt(w, "admitting")
  /\ write' = [write EXCEPT ![w] =
       [@ EXCEPT !.pc = "showing",
                 !.charged = TRUE, !.todo = write[w].names, !.known = accepted]]
  /\ UNCHANGED nodeVars

Admit(w) ==
  /\ WriteAt(w, "admitting")
  /\ write' = [write EXCEPT ![w] =
       [@ EXCEPT !.pc = IF write[w].batch THEN "pooling" ELSE "showing",
                 !.charged = TRUE, !.todo = write[w].names, !.known = accepted]]
  /\ UNCHANGED nodeVars

-----------------------------------------------------------------------------
(* Adapter: name_is_active asks name_show first and then the mempool;      *)
(* active_names reads the mempool first and then shows the other names.    *)

ShowOne(w) ==
  /\ WriteAt(w, "showing") /\ ~write[w].batch
  /\ \E n \in write[w].names : \E seen \in ShowAnswers(n) :
       write' = [write EXCEPT ![w] =
         IF seen.live THEN [@ EXCEPT !.active = {n}, !.pc = "sending"]
                      ELSE [@ EXCEPT !.pc = "pooling"]]
  /\ UNCHANGED nodeVars

PoolOne(w) ==
  /\ WriteAt(w, "pooling") /\ ~write[w].batch
  /\ \E pool \in PoolAnswers :
       write' = [write EXCEPT ![w] =
         [@ EXCEPT !.active = write[w].names \cap pool, !.pc = "sending"]]
  /\ UNCHANGED nodeVars

PoolBatch(w) ==
  /\ WriteAt(w, "pooling") /\ write[w].batch
  /\ \E pool \in PoolAnswers :
       LET left == write[w].names \ pool
       IN  write' = [write EXCEPT ![w] =
             [@ EXCEPT !.active = write[w].names \cap pool, !.todo = left,
                       !.pc = IF left = {} THEN "sending" ELSE "showing"]]
  /\ UNCHANGED nodeVars

ShowBatch(w, n) ==
  /\ WriteAt(w, "showing") /\ write[w].batch /\ n \in write[w].todo
  /\ \E seen \in ShowAnswers(n) :
       write' = [write EXCEPT ![w] =
         [@ EXCEPT !.active = write[w].active \cup (IF seen.live THEN {n} ELSE {}),
                   !.todo = write[w].todo \ {n},
                   !.pc = IF write[w].todo = {n} THEN "sending" ELSE "showing"]]
  /\ UNCHANGED nodeVars

\* name_new, name_update or name_updatemany.
SendWrite(w) ==
  /\ WriteAt(w, "sending")
  /\ \/ /\ Accept(w, WriteOps(w))
        /\ write' = [write EXCEPT ![w].pc = "sent"]
     \/ /\ Refused(WriteOps(w))
        /\ write' = [write EXCEPT ![w] =
             [@ EXCEPT !.pc = "refused", !.lost = NotYours(WriteOps(w))]]
        /\ UNCHANGED nodeVars

\* The node is down, or its answer is lost after it accepted the transaction.
SendWriteFails(w) ==
  /\ MayFail
  /\ WriteAt(w, "sending")
  /\ write' = [write EXCEPT ![w].pc = "unanswered"]
  /\ Accept(w, WriteOps(w)) \/ UNCHANGED nodeVars

WriteStep(w) ==
  \/ StartWrite(w)
  \/ \E n \in Names : CheckHolder(w, n)
  \/ HolderLookupFails(w)
  \/ RefuseOverLimit(w)
  \/ Admit(w)
  \/ ShowOne(w)
  \/ PoolOne(w)
  \/ PoolBatch(w)
  \/ \E n \in Names : ShowBatch(w, n)
  \/ SendWrite(w)
  \/ SendWriteFails(w)

-----------------------------------------------------------------------------
(* Properties                                                              *)

\* "Refuse, before any quota is spent, a write to a name already transferred
\* away" (transfer.py, ensure_writable): a write the node refuses as not ours,
\* after it was charged, met a handover confirmed while it was under way.
HandoverRefusedFree == \A w \in Writers : write[w].lost \cap write[w].goneAtStart = {}

\* Names registered by what had been sent before the call was admitted, that
\* the call is nevertheless about to register again.
Misled(w) ==
  {n \in write[w].names \ write[w].active :
     chain[n].live /\ chain[n].value \in write[w].known}

\* "The node refuses NEW on a held name, and one refusal fails the whole batch"
\* (nvs.py, write_batch): active_names reads the mempool before the names, so
\* a block arriving between its lookups never makes a batch ask for NEW on a
\* name that a write sent before it was admitted has registered.
BlockNeverMisleadsBatch ==
  \A w \in Writers : WriteAt(w, "sending") /\ write[w].batch => Misled(w) = {}

\* The same for a single write: name_is_active is "True if the name is
\* registered AND still within its term (or sitting unconfirmed in the mempool)"
\* (nvs.py).
BlockNeverMisleadsWrite ==
  \A w \in Writers : WriteAt(w, "sending") /\ ~write[w].batch => Misled(w) = {}

WriteTypeOK == write \in [Writers -> WriteCall]
=============================================================================
