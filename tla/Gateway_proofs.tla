--------------------------- MODULE Gateway_proofs ---------------------------
(***************************************************************************)
(* Proofs about Gateway, for any names, writers, movers and readers.       *)
(*                                                                         *)
(* A transaction that waits has its names for itself (Waiting), and a job  *)
(* sends one at most: so whatever a call has read between its lookups can  *)
(* be undone only by what was accepted after it began.                     *)
(***************************************************************************)
EXTENDS Gateway, TLAPS

Over == {"sent", "unanswered"}

\* A transaction of one of the jobs that has an operation on name n waits.
Touched(n, jobs) ==
  \E tx \in mempool : tx.job \in jobs /\ \E op \in tx.ops : op.name = n

\* The names a transfer has found confirmed and active, and those it has copied.
Looked(c) ==
  CASE c.pc = "showing" -> c.names \ c.todo
    [] c.pc = "pooling" -> c.names \ (c.todo \cup {c.name})
    [] c.pc \in {"admitting", "copying", "sending"} -> c.names
    [] OTHER -> {}

Copied(c) ==
  CASE c.pc = "copying" -> c.names \ c.todo
    [] c.pc = "sending" -> c.names
    [] OTHER -> {}

\* Waiting transactions are of jobs that will not send another, are about different
\* names, and find these as they were when they were accepted.
Waiting ==
  /\ \A tx \in mempool : tx.job \in accepted /\ tx.job \in Writers \cup Movers
  /\ \A tx \in mempool : tx.job \in Writers => \A op \in tx.ops : op.value = tx.job
  /\ \A tx \in mempool : tx.job \in Movers =>
       \A op \in tx.ops : op.verb = "UPDATE" /\ op.to = "other"
  /\ \A t1, t2 \in mempool : \A o1 \in t1.ops, o2 \in t2.ops :
       o1.name = o2.name => t1 = t2 /\ o1 = o2
  /\ \A tx \in mempool : \A op \in tx.ops :
       /\ op.verb = "NEW" => ~chain[op.name].live
       /\ op.verb = "UPDATE" => chain[op.name].live /\ chain[op.name].holder = "gateway"

\* No value of the jobs is that of name n, or on its way there.
Fresh(n, jobs) ==
  /\ chain[n].live => chain[n].value \notin jobs
  /\ \A tx \in mempool : tx.job \in Movers =>
       \A op \in tx.ops : op.name = n => op.value \notin jobs
  /\ \A m \in Movers : n \in Copied(move[m]) => move[m].copied[n] \notin jobs

\* Names handed over before a write began stay so, and the write does not get past
\* the check of them.
Unheld(c) ==
  /\ c.pc = "checking" => c.goneAtStart \subseteq c.todo \cap GoneNames
  /\ c.pc \in {"admitting", "showing", "pooling", "sending"} => c.goneAtStart = {}
  /\ c.lost \cap c.goneAtStart = {}

\* What was accepted before a batch was admitted is found in the mempool or by
\* name_show, so it does not register a name the batch takes for free.
Unmisled(c) ==
  c.batch /\ c.pc \in {"showing", "sending"} =>
    /\ \A n \in c.names \ c.active : ~Touched(n, c.known)
    /\ \A n \in c.names \ (c.active \cup c.todo) : Fresh(n, c.known)

WriterOK(w, c) ==
  /\ c.todo \subseteq c.names
  /\ c.known \subseteq accepted
  /\ w \in accepted => c.pc \in Over
  /\ c.pc = "idle" => c.lost = {}
  /\ c.pc = "sending" /\ c.batch => c.todo = {}
  /\ ~MayFail /\ ~MayLapse => Unheld(c) /\ Unmisled(c)

\* The copy of a name is its value, unless a later write, a transfer or a lapse came
\* in between.
Kept(n, c) ==
  \/ chain[n].value = c.copied[n]
  \/ chain[n].value \notin c.known
  \/ ~chain[n].live \/ chain[n].holder # "gateway"

MoverOK(m, c) ==
  /\ c.todo \subseteq c.names
  /\ c.pc = "pooling" => c.name \in c.names \ c.todo
  /\ c.known \subseteq accepted
  /\ m \in accepted => c.pc \in Over
  /\ \A n \in Names : WrittenFor(n, c.copied[n])
  /\ ~MayFail => /\ \A n \in Looked(c) : ~Touched(n, c.known)
                 /\ \A n \in Copied(c) : Kept(n, c)
  /\ ~MayLapse => /\ c.pc = "pooling" /\ c.seen.live => chain[c.name].live
                  /\ \A n \in Looked(c) : chain[n].live

\* Without a block, a name stays what name_show said it was; its term may end.
ReaderOK(c) ==
  c.pc = "pooling" =>
    /\ c.since <= blocks
    /\ c.heard /\ blocks = c.since =>
         c.seen.value = chain[c.name].value /\ c.seen.holder = chain[c.name].holder

AllWriters == \A w \in Writers : WriterOK(w, write[w])
AllMovers == \A m \in Movers : MoverOK(m, move[m])
AllReaders == \A r \in Readers : ReaderOK(read[r])
Survives == ~MayFail => AcknowledgedWriteSurvives

GatewayInv ==
  TypeOK /\ Waiting /\ NoValueStrays /\ AllWriters /\ AllMovers /\ AllReaders /\ Survives
-----------------------------------------------------------------------------
(* Types.                                                                  *)

\* The fields of a write call.
LEMMA WriteTypes ==
  ASSUME WriteTypeOK, NEW w \in Writers
  PROVE  /\ write[w] \in WriteCall /\ write[w].names \in SUBSET Names
         /\ write[w].todo \in SUBSET Names /\ write[w].active \in SUBSET Names
         /\ write[w].known \in SUBSET Jobs /\ write[w].batch \in BOOLEAN
         /\ write[w].goneAtStart \in SUBSET Names /\ write[w].lost \in SUBSET Names
  BY DEF WriteTypeOK, WriteCall

\* The fields of a transfer.
LEMMA MoveTypes ==
  ASSUME MoveTypeOK, NEW m \in Movers
  PROVE  /\ move[m] \in MoveCall /\ move[m].names \in SUBSET Names
         /\ move[m].todo \in SUBSET Names /\ move[m].name \in Names
         /\ move[m].copied \in [Names -> Values] /\ move[m].known \in SUBSET Jobs
         /\ move[m].seen \in Registration
         /\ move[m].before \in [Names -> Registration]
  BY DEF MoveTypeOK, MoveCall

\* What name_show answers.
LEMMA ShowTypes ==
  ASSUME NodeTypeOK, NEW n \in Names, NEW seen \in ShowAnswers(n)
  PROVE  /\ seen \in Registration /\ (seen = chain[n] \/ (MayFail /\ seen = Free))
         /\ seen.live => seen = chain[n]
  <1>1. chain[n] \in Registration
    BY DEF NodeTypeOK
  <1>2. Free \in Registration /\ Free.live = FALSE
    BY DEF Free, Registration, Holders, Values
  <1>3. seen = chain[n] \/ (MayFail /\ seen = Free)
    BY DEF ShowAnswers
  <1> QED BY <1>1, <1>2, <1>3

\* What name_mempool answers.
LEMMA PoolTypes ==
  ASSUME NodeTypeOK, NEW pool \in PoolAnswers
  PROVE  pool \in SUBSET Names /\ (~MayFail => pool = PendingNames)
  BY DEF NodeTypeOK, PoolAnswers, PendingNames, Transaction, Operation

\* A name is pending exactly when some transaction is about it.
LEMMA PendingIsTouched ==
  ASSUME NEW n
  PROVE  n \in PendingNames <=> \E tx \in mempool : \E op \in tx.ops : op.name = n
  BY DEF PendingNames

\* Writers and movers are jobs, and different ones.
LEMMA JobsApart == Writers \subseteq Jobs /\ Movers \subseteq Jobs /\ Writers \cap Movers = {}
  BY WriterAssumption, MoverAssumption, JobAssumption
  DEF WriterAssumption, MoverAssumption, JobAssumption

-----------------------------------------------------------------------------
(* Steps of a call that leave the node as it is.                           *)

\* A step of a write call.
LEMMA WriterMoves ==
  ASSUME GatewayInv, NEW w \in Writers, NEW c \in WriteCall, w \notin accepted,
         write' = [write EXCEPT ![w] = c], WriterOK(w, c), UNCHANGED <<nodeVars, move, read>>
  PROVE  GatewayInv'
  <1> USE DEF nodeVars
  <1>1. /\ write'[w] = c /\ \A v \in Writers : v # w => write'[v] = write[v]
        /\ write' \in [Writers -> WriteCall]
    BY DEF GatewayInv, TypeOK, WriteTypeOK
  <1>2. TypeOK'
    BY <1>1 DEF GatewayInv, TypeOK, NodeTypeOK, WriteTypeOK, MoveTypeOK, ReadTypeOK
  <1>3. Waiting'
    BY DEF GatewayInv, Waiting
  <1>4. \A n, v : WrittenFor(n, v) => WrittenFor(n, v)'
    BY <1>1 DEF WrittenFor
  <1>5. NoValueStrays'
    BY <1>4 DEF GatewayInv, NoValueStrays
  <1>6. AllWriters'
    <2> SUFFICES ASSUME NEW v \in Writers
                 PROVE  WriterOK(v, write[v])'
      BY DEF AllWriters
    <2> PICK d : d = write'[v]
      OBVIOUS
    <2>1. WriterOK(v, d)
      BY <1>1 DEF GatewayInv, AllWriters
    <2> QED BY <2>1 DEF WriterOK, Unheld, Unmisled, GoneNames, Touched, Fresh
  <1>7. AllMovers'
    BY <1>4 DEF GatewayInv, AllMovers, MoverOK, Touched, Kept
  <1>8. AllReaders' /\ Survives'
    BY DEF GatewayInv, AllReaders, ReaderOK, Survives, AcknowledgedWriteSurvives
  <1> QED BY <1>2, <1>3, <1>5, <1>6, <1>7, <1>8 DEF GatewayInv

\* A step of a transfer: what it copies is the value of a live name.
LEMMA MoverMoves ==
  ASSUME GatewayInv, NEW m \in Movers, NEW c \in MoveCall, m \notin accepted,
         move' = [move EXCEPT ![m] = c], MoverOK(m, c), UNCHANGED <<nodeVars, write, read>>,
         \A n \in Copied(c) :
           \/ n \in Copied(move[m]) /\ c.copied[n] = move[m].copied[n]
           \/ chain[n].live /\ c.copied[n] = chain[n].value
  PROVE  GatewayInv'
  <1> USE DEF nodeVars
  <1>1. /\ move'[m] = c /\ \A k \in Movers : k # m => move'[k] = move[k]
        /\ move' \in [Movers -> MoveCall]
    BY DEF GatewayInv, TypeOK, MoveTypeOK
  <1>2. TypeOK'
    BY <1>1 DEF GatewayInv, TypeOK, NodeTypeOK, WriteTypeOK, MoveTypeOK, ReadTypeOK
  <1>3. Waiting'
    BY DEF GatewayInv, Waiting
  <1>4. \A n, v : WrittenFor(n, v) => WrittenFor(n, v)'
    BY DEF WrittenFor
  <1>5. NoValueStrays'
    BY <1>4 DEF GatewayInv, NoValueStrays
  <1>6. \A n, jobs : Fresh(n, jobs) => Fresh(n, jobs)'
    BY <1>1 DEF Fresh
  <1>7. AllWriters'
    <2> SUFFICES ASSUME NEW v \in Writers
                 PROVE  WriterOK(v, write[v])'
      BY DEF AllWriters
    <2>1. WriterOK(v, write[v])
      BY DEF GatewayInv, AllWriters
    <2>2. Unmisled(write[v]) => Unmisled(write[v])'
      BY <1>6 DEF Unmisled, Touched
    <2> QED BY <2>1, <2>2 DEF WriterOK, Unheld, GoneNames
  <1>8. AllMovers'
    <2> SUFFICES ASSUME NEW k \in Movers
                 PROVE  MoverOK(k, move[k])'
      BY DEF AllMovers
    <2> PICK d : d = move'[k]
      OBVIOUS
    <2>1. MoverOK(k, d)
      BY <1>1 DEF GatewayInv, AllMovers
    <2> QED BY <2>1, <1>4 DEF MoverOK, Touched, Kept
  <1>9. AllReaders'
    BY DEF GatewayInv, AllReaders, ReaderOK
  <1>10. Survives'
    <2>1. \A tx \in mempool : tx.job \in Movers => move'[tx.job] = move[tx.job]
      BY <1>1 DEF GatewayInv, Waiting
    <2> QED BY <2>1 DEF GatewayInv, Survives, AcknowledgedWriteSurvives
  <1> QED BY <1>2, <1>3, <1>5, <1>7, <1>8, <1>9, <1>10 DEF GatewayInv

\* A step of a read, or none.
LEMMA ReaderMoves ==
  ASSUME GatewayInv, ReadTypeOK', AllReaders', UNCHANGED <<nodeVars, write, move>>
  PROVE  GatewayInv'
  <1> USE DEF nodeVars
  <1>1. TypeOK'
    BY DEF GatewayInv, TypeOK, NodeTypeOK, WriteTypeOK, MoveTypeOK
  <1>2. Waiting'
    BY DEF GatewayInv, Waiting
  <1>3. \A n, v : WrittenFor(n, v) => WrittenFor(n, v)'
    BY DEF WrittenFor
  <1>4. NoValueStrays'
    BY <1>3 DEF GatewayInv, NoValueStrays
  <1>5. AllWriters'
    BY DEF GatewayInv, AllWriters, WriterOK, Unheld, Unmisled, GoneNames, Touched, Fresh
  <1>6. AllMovers'
    BY <1>3 DEF GatewayInv, AllMovers, MoverOK, Touched, Kept
  <1>7. Survives'
    BY DEF GatewayInv, Survives, AcknowledgedWriteSurvives
  <1> QED BY <1>1, <1>2, <1>4, <1>5, <1>6, <1>7 DEF GatewayInv

-----------------------------------------------------------------------------
(* The steps of a write.                                                   *)

\* A call that is over is left with what it has.
LEMMA WriteEnds ==
  ASSUME GatewayInv, NEW w \in Writers, NEW stage \in {"notHeld", "overLimit", "lookupFailed"} \cup Over,
         write[w].pc \notin Over, write' = [write EXCEPT ![w].pc = stage],
         UNCHANGED <<nodeVars, move, read>>
  PROVE  GatewayInv'
  <1> DEFINE c == [write[w] EXCEPT !.pc = stage]
  <1>1. write[w] \in WriteCall /\ WriterOK(w, write[w]) /\ write \in [Writers -> WriteCall]
    BY WriteTypes DEF GatewayInv, AllWriters, TypeOK, WriteTypeOK
  <1>2. /\ c \in WriteCall /\ c.pc = stage /\ c.todo = write[w].todo /\ c.names = write[w].names
        /\ c.known = write[w].known /\ c.lost = write[w].lost
        /\ c.goneAtStart = write[w].goneAtStart
    BY <1>1 DEF WriteCall, WriteStages, Over
  <1>3. write' = [write EXCEPT ![w] = c]
    BY <1>1
  <1> HIDE DEF c
  <1>4. WriterOK(w, c)
    BY <1>1, <1>2 DEF WriterOK, Unheld, Unmisled, Over
  <1>5. w \notin accepted
    BY <1>1 DEF WriterOK
  <1> QED BY <1>2, <1>3, <1>4, <1>5, WriterMoves

\* StartWrite.
LEMMA StartWriteKeeps ==
  ASSUME GatewayInv, NEW w \in Writers, StartWrite(w), UNCHANGED <<move, read>>
  PROVE  GatewayInv'
  <1> PICK ns \in SUBSET Names \ {{}}, batch \in BOOLEAN :
        write' = [write EXCEPT ![w] =
          [@ EXCEPT !.pc = "checking", !.names = ns, !.batch = batch, !.todo = ns,
                    !.goneAtStart = GoneNames \cap ns]]
    BY DEF StartWrite
  <1> DEFINE c == [write[w] EXCEPT !.pc = "checking", !.names = ns, !.batch = batch, !.todo = ns,
                                   !.goneAtStart = GoneNames \cap ns]
  <1>1. /\ write[w] \in WriteCall /\ WriterOK(w, write[w]) /\ write[w].pc = "idle"
        /\ UNCHANGED nodeVars
    BY WriteTypes DEF GatewayInv, AllWriters, TypeOK, StartWrite, WriteAt
  <1>2. /\ c \in WriteCall /\ c.pc = "checking" /\ c.todo = ns /\ c.names = ns
        /\ c.known = write[w].known /\ c.lost = write[w].lost
        /\ c.goneAtStart = GoneNames \cap ns
    BY <1>1 DEF WriteCall, WriteStages
  <1>3. write' = [write EXCEPT ![w] = c]
    OBVIOUS
  <1> HIDE DEF c
  <1>4. w \notin accepted /\ write[w].lost = {} /\ write[w].known \subseteq accepted
    BY <1>1 DEF WriterOK, Over
  <1>5. WriterOK(w, c)
    BY <1>2, <1>4 DEF WriterOK, Unheld, Unmisled, Over
  <1> QED BY <1>1, <1>2, <1>3, <1>4, <1>5, WriterMoves

\* CheckHolder: a name that was handed over is found so.
LEMMA CheckHolderKeeps ==
  ASSUME GatewayInv, NEW w \in Writers, NEW n \in Names, CheckHolder(w, n), UNCHANGED <<move, read>>
  PROVE  GatewayInv'
  <1> PICK seen \in ShowAnswers(n) :
        write' = [write EXCEPT ![w] =
          IF seen.live /\ seen.holder = "other"
          THEN [@ EXCEPT !.pc = "notHeld"]
          ELSE [@ EXCEPT !.todo = write[w].todo \ {n},
                         !.pc = IF write[w].todo = {n} THEN "admitting" ELSE "checking"]]
    BY DEF CheckHolder
  <1>1. /\ write[w] \in WriteCall /\ WriterOK(w, write[w]) /\ write[w].pc = "checking"
        /\ n \in write[w].todo /\ UNCHANGED nodeVars /\ write \in [Writers -> WriteCall]
    BY WriteTypes DEF GatewayInv, AllWriters, TypeOK, WriteTypeOK, CheckHolder, WriteAt
  <1>2. CASE seen.live /\ seen.holder = "other"
    <2>1. write' = [write EXCEPT ![w].pc = "notHeld"]
      BY <1>1, <1>2
    <2>2. "notHeld" \in {"notHeld", "overLimit", "lookupFailed"} \cup Over /\ write[w].pc \notin Over
      BY <1>1 DEF Over
    <2> QED BY <2>1, <2>2, <1>1, WriteEnds
  <1>3. CASE ~(seen.live /\ seen.holder = "other")
    <2> DEFINE stage == IF write[w].todo = {n} THEN "admitting" ELSE "checking"
               left == write[w].todo \ {n}
               c == [write[w] EXCEPT !.todo = left, !.pc = stage]
    <2>1. /\ c \in WriteCall /\ c.pc = stage /\ c.todo = left /\ c.names = write[w].names
          /\ c.known = write[w].known /\ c.lost = write[w].lost
          /\ c.goneAtStart = write[w].goneAtStart
      BY <1>1 DEF WriteCall, WriteStages
    <2>2. write' = [write EXCEPT ![w] = c]
      BY <1>3
    <2> HIDE DEF c
    <2>3. ~MayFail => n \notin GoneNames
      <3>1. ~MayFail => seen = chain[n]
        BY ShowTypes DEF GatewayInv, TypeOK
      <3> QED BY <3>1, <1>3 DEF GoneNames
    <2>4. ~MayFail /\ ~MayLapse => Unheld(c)
      BY <1>1, <2>1, <2>3 DEF WriterOK, Unheld
    <2>5. WriterOK(w, c)
      BY <1>1, <2>1, <2>4 DEF WriterOK, Unmisled, Over
    <2>6. w \notin accepted
      BY <1>1 DEF WriterOK, Over
    <2> QED BY <1>1, <2>1, <2>2, <2>5, <2>6, WriterMoves
  <1> QED BY <1>2, <1>3

\* Admit.
LEMMA AdmitKeeps ==
  ASSUME GatewayInv, NEW w \in Writers, Admit(w), UNCHANGED <<move, read>>
  PROVE  GatewayInv'
  <1> DEFINE stage == IF write[w].batch THEN "pooling" ELSE "showing"
             c == [write[w] EXCEPT !.pc = stage, !.charged = TRUE, !.todo = write[w].names,
                                   !.known = accepted]
  <1>1. /\ write[w] \in WriteCall /\ WriterOK(w, write[w]) /\ write[w].pc = "admitting"
        /\ UNCHANGED nodeVars /\ accepted \in SUBSET Jobs
    BY WriteTypes DEF GatewayInv, AllWriters, TypeOK, NodeTypeOK, Admit, WriteAt
  <1>2. /\ c \in WriteCall /\ c.pc = stage /\ c.todo = write[w].names /\ c.names = write[w].names
        /\ c.known = accepted /\ c.lost = write[w].lost /\ c.batch = write[w].batch
        /\ c.goneAtStart = write[w].goneAtStart
    BY <1>1 DEF WriteCall, WriteStages
  <1>3. write' = [write EXCEPT ![w] = c]
    BY DEF Admit
  <1> HIDE DEF c
  <1>4. WriterOK(w, c)
    BY <1>1, <1>2 DEF WriterOK, Unheld, Unmisled, Over
  <1>5. w \notin accepted
    BY <1>1 DEF WriterOK, Over
  <1> QED BY <1>1, <1>2, <1>3, <1>4, <1>5, WriterMoves

\* ShowOne, PoolOne: what a single write finds.
LEMMA LookupOneKeeps ==
  ASSUME GatewayInv, NEW w \in Writers, NEW stage \in {"pooling", "sending"}, NEW found \in SUBSET Names,
         write[w].pc \in {"showing", "pooling"}, ~write[w].batch,
         write' = [write EXCEPT ![w] = [@ EXCEPT !.active = found, !.pc = stage]],
         UNCHANGED <<nodeVars, move, read>>
  PROVE  GatewayInv'
  <1> DEFINE c == [write[w] EXCEPT !.active = found, !.pc = stage]
  <1>1. write[w] \in WriteCall /\ WriterOK(w, write[w])
    BY WriteTypes DEF GatewayInv, AllWriters, TypeOK
  <1>2. /\ c \in WriteCall /\ c.pc = stage /\ c.todo = write[w].todo /\ c.names = write[w].names
        /\ c.known = write[w].known /\ c.lost = write[w].lost /\ c.batch = write[w].batch
        /\ c.goneAtStart = write[w].goneAtStart
    BY <1>1 DEF WriteCall, WriteStages
  <1>3. write' = [write EXCEPT ![w] = c]
    OBVIOUS
  <1> HIDE DEF c
  <1>4. WriterOK(w, c)
    BY <1>1, <1>2 DEF WriterOK, Unheld, Unmisled, Over
  <1>5. w \notin accepted
    BY <1>1 DEF WriterOK, Over
  <1> QED BY <1>2, <1>3, <1>4, <1>5, WriterMoves

\* ShowOne.
LEMMA ShowOneKeeps ==
  ASSUME GatewayInv, NEW w \in Writers, ShowOne(w), UNCHANGED <<move, read>>
  PROVE  GatewayInv'
  <1>1. PICK n \in write[w].names : \E seen \in ShowAnswers(n) :
          write' = [write EXCEPT ![w] =
            IF seen.live THEN [@ EXCEPT !.active = {n}, !.pc = "sending"]
                         ELSE [@ EXCEPT !.pc = "pooling"]]
    BY DEF ShowOne
  <1>2. /\ write[w] \in WriteCall /\ write[w].names \in SUBSET Names
        /\ write[w].active \in SUBSET Names /\ write[w].pc = "showing" /\ ~write[w].batch
        /\ UNCHANGED nodeVars
    BY WriteTypes DEF GatewayInv, TypeOK, ShowOne, WriteAt
  <1>3. CASE write' = [write EXCEPT ![w] = [@ EXCEPT !.active = {n}, !.pc = "sending"]]
    <2>1. {n} \in SUBSET Names
      BY <1>2
    <2> QED BY <2>1, <1>2, <1>3, LookupOneKeeps
  <1>4. CASE write' = [write EXCEPT ![w] = [@ EXCEPT !.pc = "pooling"]]
    <2>1. [write[w] EXCEPT !.pc = "pooling"] =
            [write[w] EXCEPT !.active = write[w].active, !.pc = "pooling"]
      BY <1>2 DEF WriteCall
    <2>2. write' = [write EXCEPT ![w] = [@ EXCEPT !.active = write[w].active, !.pc = "pooling"]]
      BY <1>4, <2>1
    <2> QED BY <2>2, <1>2, LookupOneKeeps
  <1> QED BY <1>1, <1>3, <1>4

\* PoolOne.
LEMMA PoolOneKeeps ==
  ASSUME GatewayInv, NEW w \in Writers, PoolOne(w), UNCHANGED <<move, read>>
  PROVE  GatewayInv'
  <1>1. PICK pool \in PoolAnswers :
          write' = [write EXCEPT ![w] =
            [@ EXCEPT !.active = write[w].names \cap pool, !.pc = "sending"]]
    BY DEF PoolOne
  <1>2. /\ write[w].names \in SUBSET Names /\ write[w].pc = "pooling" /\ ~write[w].batch
        /\ UNCHANGED nodeVars
    BY WriteTypes DEF GatewayInv, TypeOK, PoolOne, WriteAt
  <1>3. write[w].names \cap pool \in SUBSET Names
    BY <1>2
  <1> QED BY <1>1, <1>2, <1>3, LookupOneKeeps

\* PoolBatch: what was accepted before is in the pool, or no longer waits.
LEMMA PoolBatchKeeps ==
  ASSUME GatewayInv, NEW w \in Writers, PoolBatch(w), UNCHANGED <<move, read>>
  PROVE  GatewayInv'
  <1> PICK pool \in PoolAnswers :
        write' = [write EXCEPT ![w] =
          [@ EXCEPT !.active = write[w].names \cap pool, !.todo = write[w].names \ pool,
                    !.pc = IF write[w].names \ pool = {} THEN "sending" ELSE "showing"]]
    BY DEF PoolBatch
  <1> DEFINE stage == IF write[w].names \ pool = {} THEN "sending" ELSE "showing"
             found == write[w].names \cap pool
             left == write[w].names \ pool
             c == [write[w] EXCEPT !.active = found, !.todo = left, !.pc = stage]
  <1>1. /\ write[w] \in WriteCall /\ WriterOK(w, write[w]) /\ write[w].pc = "pooling"
        /\ write[w].names \in SUBSET Names /\ UNCHANGED nodeVars
    BY WriteTypes DEF GatewayInv, AllWriters, TypeOK, PoolBatch, WriteAt
  <1>2. /\ c \in WriteCall /\ c.pc = stage /\ c.todo = left /\ c.names = write[w].names
        /\ c.known = write[w].known /\ c.lost = write[w].lost /\ c.active = found
        /\ c.goneAtStart = write[w].goneAtStart
    BY <1>1 DEF WriteCall, WriteStages
  <1>3. write' = [write EXCEPT ![w] = c]
    OBVIOUS
  <1> HIDE DEF c
  <1>4. ~MayFail => \A n \in left : ~Touched(n, c.known)
    <2>1. ~MayFail => pool = PendingNames
      BY PoolTypes DEF GatewayInv, TypeOK
    <2> QED BY <2>1, PendingIsTouched DEF Touched
  <1>5. ~MayFail /\ ~MayLapse => Unmisled(c)
    BY <1>2, <1>4 DEF Unmisled
  <1>6. ~MayFail /\ ~MayLapse => Unheld(c)
    BY <1>1, <1>2 DEF WriterOK, Unheld
  <1>7. w \notin accepted
    BY <1>1 DEF WriterOK, Over
  <1>8. WriterOK(w, c)
    BY <1>1, <1>2, <1>5, <1>6, <1>7 DEF WriterOK
  <1> QED BY <1>1, <1>2, <1>3, <1>7, <1>8, WriterMoves

\* ShowBatch: a name that is not active has never been, so no transfer of it is on
\* its way either.
LEMMA ShowBatchKeeps ==
  ASSUME GatewayInv, NEW w \in Writers, NEW n \in Names, ShowBatch(w, n), UNCHANGED <<move, read>>
  PROVE  GatewayInv'
  <1> PICK seen \in ShowAnswers(n) :
        write' = [write EXCEPT ![w] =
          [@ EXCEPT !.active = write[w].active \cup (IF seen.live THEN {n} ELSE {}),
                    !.todo = write[w].todo \ {n},
                    !.pc = IF write[w].todo = {n} THEN "sending" ELSE "showing"]]
    BY DEF ShowBatch
  <1> DEFINE stage == IF write[w].todo = {n} THEN "sending" ELSE "showing"
             found == write[w].active \cup (IF seen.live THEN {n} ELSE {})
             left == write[w].todo \ {n}
             c == [write[w] EXCEPT !.active = found, !.todo = left, !.pc = stage]
  <1>1. /\ write[w] \in WriteCall /\ WriterOK(w, write[w]) /\ write[w].pc = "showing"
        /\ write[w].batch /\ n \in write[w].todo /\ UNCHANGED nodeVars
        /\ write[w].active \in SUBSET Names /\ write[w].todo \in SUBSET Names
    BY WriteTypes DEF GatewayInv, AllWriters, TypeOK, ShowBatch, WriteAt
  <1>2. found \in SUBSET Names /\ left \in SUBSET Names /\ stage \in WriteStages
    BY <1>1 DEF WriteStages
  <1>3. write' = [write EXCEPT ![w] = c]
    OBVIOUS
  <1> HIDE DEF found, left, stage
  <1>4. /\ c \in WriteCall /\ c.pc = stage /\ c.todo = left /\ c.names = write[w].names
        /\ c.known = write[w].known /\ c.lost = write[w].lost /\ c.active = found
        /\ c.goneAtStart = write[w].goneAtStart
    BY <1>1, <1>2 DEF WriteCall
  <1> HIDE DEF c
  <1>5. ASSUME ~MayFail, ~MayLapse, ~seen.live
        PROVE  Fresh(n, c.known)
    <2>1. ~chain[n].live
      BY <1>5, ShowTypes DEF GatewayInv, TypeOK
    <2>2. \A tx \in mempool : tx.job \in Movers => \A op \in tx.ops : op.name # n
      BY <2>1 DEF GatewayInv, Waiting
    <2>3. \A m \in Movers : n \notin Copied(move[m])
      <3> SUFFICES ASSUME NEW m \in Movers
                   PROVE  n \notin Copied(move[m])
        OBVIOUS
      <3>1. n \notin Looked(move[m])
        BY <2>1, <1>5 DEF GatewayInv, AllMovers, MoverOK
      <3> QED BY <3>1 DEF Looked, Copied
    <2> QED BY <2>1, <2>2, <2>3 DEF Fresh
  <1>6. ASSUME ~MayFail, ~MayLapse
        PROVE  Unmisled(c)
    <2>1. \A k \in c.names \ c.active : ~Touched(k, c.known)
      BY <1>1, <1>4, <1>6 DEF WriterOK, Unmisled, found
    <2>2. \A k \in c.names \ (c.active \cup c.todo) : Fresh(k, c.known)
      <3> SUFFICES ASSUME NEW k \in c.names \ (c.active \cup c.todo)
                   PROVE  Fresh(k, c.known)
        OBVIOUS
      <3>1. CASE k = n
        BY <3>1, <1>4, <1>5, <1>6 DEF found
      <3>2. CASE k # n
        BY <3>2, <1>1, <1>4, <1>6 DEF WriterOK, Unmisled, found, left
      <3> QED BY <3>1, <3>2
    <2> QED BY <2>1, <2>2 DEF Unmisled
  <1>7. ~MayFail /\ ~MayLapse => Unheld(c)
    BY <1>1, <1>4 DEF WriterOK, Unheld, stage
  <1>8. w \notin accepted
    BY <1>1 DEF WriterOK, Over
  <1>9. c.todo \subseteq c.names /\ c.pc # "idle" /\ (c.pc = "sending" => c.todo = {})
    BY <1>1, <1>4 DEF WriterOK, left, stage
  <1>10. WriterOK(w, c)
    BY <1>1, <1>4, <1>6, <1>7, <1>8, <1>9 DEF WriterOK
  <1> QED BY <1>1, <1>3, <1>4, <1>8, <1>10, WriterMoves

\* SendWrite, refused.
LEMMA WriteRefusedKeeps ==
  ASSUME GatewayInv, NEW w \in Writers, WriteAt(w, "sending"), UNCHANGED <<nodeVars, move, read>>,
         write' = [write EXCEPT ![w] = [@ EXCEPT !.pc = "refused", !.lost = NotYours(WriteOps(w))]]
  PROVE  GatewayInv'
  <1> PICK lost : lost = NotYours(WriteOps(w))
    OBVIOUS
  <1> DEFINE c == [write[w] EXCEPT !.pc = "refused", !.lost = lost]
  <1>1. /\ write[w] \in WriteCall /\ WriterOK(w, write[w]) /\ write[w].pc = "sending"
        /\ write[w].names \in SUBSET Names
    BY WriteTypes DEF GatewayInv, AllWriters, TypeOK, WriteAt
  <1>2. lost \in SUBSET Names
    BY <1>1 DEF NotYours, WriteOps
  <1>3. /\ c \in WriteCall /\ c.pc = "refused" /\ c.todo = write[w].todo
        /\ c.names = write[w].names /\ c.known = write[w].known /\ c.lost = lost
        /\ c.goneAtStart = write[w].goneAtStart
    BY <1>1, <1>2 DEF WriteCall, WriteStages
  <1>4. write' = [write EXCEPT ![w] = c]
    OBVIOUS
  <1> HIDE DEF c
  <1>5. WriterOK(w, c)
    BY <1>1, <1>3 DEF WriterOK, Unheld, Unmisled, Over
  <1>6. w \notin accepted
    BY <1>1 DEF WriterOK, Over
  <1> QED BY <1>3, <1>4, <1>5, <1>6, WriterMoves

-----------------------------------------------------------------------------
(* The steps of a transfer.                                                *)

\* A call that is over is left with what it has.
LEMMA MoveStops ==
  ASSUME GatewayInv, NEW m \in Movers, move[m].pc \notin Over,
         NEW stage \in {"turnedAway", "overLimit", "lookupFailed", "refused"} \cup Over,
         move' = [move EXCEPT ![m].pc = stage], UNCHANGED <<nodeVars, write, read>>
  PROVE  GatewayInv'
  <1> DEFINE c == [move[m] EXCEPT !.pc = stage]
  <1>1. move[m] \in MoveCall /\ MoverOK(m, move[m])
    BY MoveTypes DEF GatewayInv, AllMovers, TypeOK
  <1>2. /\ c \in MoveCall /\ c.pc = stage /\ c.todo = move[m].todo /\ c.names = move[m].names
        /\ c.known = move[m].known /\ c.copied = move[m].copied
    BY <1>1 DEF MoveCall, MoveStages, Over
  <1>3. move' = [move EXCEPT ![m] = c]
    OBVIOUS
  <1> HIDE DEF c
  <1>4. c.pc \notin {"idle", "showing", "pooling", "admitting", "copying", "sending"}
    BY <1>2 DEF Over
  <1>5. Looked(c) = {} /\ Copied(c) = {}
    BY <1>4 DEF Looked, Copied
  <1>6. m \notin accepted
    BY <1>1 DEF MoverOK
  <1>7. MoverOK(m, c)
    BY <1>1, <1>2, <1>4, <1>5, <1>6 DEF MoverOK
  <1> QED BY <1>2, <1>3, <1>5, <1>6, <1>7, MoverMoves

\* StartMove.
LEMMA StartMoveKeeps ==
  ASSUME GatewayInv, NEW m \in Movers, StartMove(m), UNCHANGED <<write, read>>
  PROVE  GatewayInv'
  <1> PICK ns \in SUBSET Names \ {{}} :
        move' = [move EXCEPT ![m] =
          [@ EXCEPT !.pc = "showing", !.names = ns, !.todo = ns, !.known = accepted,
                    !.before = chain]]
    BY DEF StartMove
  <1> DEFINE c == [move[m] EXCEPT !.pc = "showing", !.names = ns, !.todo = ns, !.known = accepted,
                                  !.before = chain]
  <1>1. /\ move[m] \in MoveCall /\ MoverOK(m, move[m]) /\ move[m].pc = "idle"
        /\ UNCHANGED nodeVars /\ accepted \in SUBSET Jobs /\ chain \in [Names -> Registration]
    BY MoveTypes DEF GatewayInv, AllMovers, TypeOK, NodeTypeOK, StartMove, MoveAt
  <1>2. /\ c \in MoveCall /\ c.pc = "showing" /\ c.todo = ns /\ c.names = ns
        /\ c.known = accepted /\ c.copied = move[m].copied
    BY <1>1 DEF MoveCall, MoveStages
  <1>3. move' = [move EXCEPT ![m] = c]
    OBVIOUS
  <1> HIDE DEF c
  <1>4. Looked(c) = {} /\ Copied(c) = {}
    BY <1>2 DEF Looked, Copied
  <1>5. m \notin accepted
    BY <1>1 DEF MoverOK, Over
  <1>6. MoverOK(m, c)
    BY <1>1, <1>2, <1>4, <1>5 DEF MoverOK
  <1> QED BY <1>1, <1>2, <1>3, <1>4, <1>5, <1>6, MoverMoves

\* ShowForMove: the name that is being read is not among those read.
LEMMA ShowForMoveKeeps ==
  ASSUME GatewayInv, NEW m \in Movers, NEW n \in Names, ShowForMove(m, n), UNCHANGED <<write, read>>
  PROVE  GatewayInv'
  <1> PICK seen \in ShowAnswers(n) :
        move' = [move EXCEPT ![m] =
          [@ EXCEPT !.pc = "pooling", !.name = n, !.seen = seen, !.todo = move[m].todo \ {n}]]
    BY DEF ShowForMove
  <1> DEFINE left == move[m].todo \ {n}
             c == [move[m] EXCEPT !.pc = "pooling", !.name = n, !.seen = seen, !.todo = left]
  <1>1. /\ move[m] \in MoveCall /\ MoverOK(m, move[m]) /\ move[m].pc = "showing"
        /\ n \in move[m].todo /\ UNCHANGED nodeVars
    BY MoveTypes DEF GatewayInv, AllMovers, TypeOK, ShowForMove, MoveAt
  <1>2. seen \in Registration /\ (seen.live => chain[n].live)
    BY ShowTypes DEF GatewayInv, TypeOK
  <1>3. /\ c \in MoveCall /\ c.pc = "pooling" /\ c.todo = left /\ c.names = move[m].names
        /\ c.known = move[m].known /\ c.copied = move[m].copied /\ c.name = n /\ c.seen = seen
    BY <1>1, <1>2 DEF MoveCall, MoveStages
  <1>4. move' = [move EXCEPT ![m] = c]
    OBVIOUS
  <1> HIDE DEF c
  <1>5. Looked(c) = Looked(move[m]) /\ Copied(c) = {}
    BY <1>1, <1>3 DEF Looked, Copied
  <1>6. m \notin accepted
    BY <1>1 DEF MoverOK, Over
  <1>7. c.todo \subseteq c.names /\ c.name \in c.names \ c.todo
    BY <1>1, <1>3 DEF MoverOK
  <1>8. MoverOK(m, c)
    BY <1>1, <1>2, <1>3, <1>5, <1>6, <1>7 DEF MoverOK
  <1> QED BY <1>1, <1>3, <1>4, <1>5, <1>6, <1>8, MoverMoves

\* PoolForMove: a name is confirmed if no transaction is about it.
LEMMA PoolForMoveKeeps ==
  ASSUME GatewayInv, NEW m \in Movers, PoolForMove(m), UNCHANGED <<write, read>>
  PROVE  GatewayInv'
  <1> PICK n : n = move[m].name
    OBVIOUS
  <1> PICK pool \in PoolAnswers :
        move' = [move EXCEPT ![m].pc =
          IF ~Transferable(move[m].seen, AnswerOf(n, move[m].seen, pool)) THEN "turnedAway"
          ELSE IF move[m].todo = {} THEN "admitting" ELSE "showing"]
    BY DEF PoolForMove
  <1> DEFINE passes == Transferable(move[m].seen, AnswerOf(n, move[m].seen, pool))
             stage == IF move[m].todo = {} THEN "admitting" ELSE "showing"
             c == [move[m] EXCEPT !.pc = stage]
  <1>1. /\ move[m] \in MoveCall /\ MoverOK(m, move[m]) /\ move[m].pc = "pooling"
        /\ UNCHANGED nodeVars
    BY MoveTypes DEF GatewayInv, AllMovers, TypeOK, PoolForMove, MoveAt
  <1>2. CASE ~passes
    <2>1. move' = [move EXCEPT ![m].pc = "turnedAway"]
      BY <1>2
    <2>2. move[m].pc \notin Over
      BY <1>1 DEF Over
    <2> QED BY <2>1, <2>2, <1>1, MoveStops
  <1>3. CASE passes
    <2>1. move[m].seen.live /\ n \notin pool
      BY <1>3 DEF Transferable, AnswerOf
    <2>2. move' = [move EXCEPT ![m].pc = stage]
      BY <1>3
    <2> HIDE DEF passes
    <2>3. /\ c \in MoveCall /\ c.pc = stage /\ c.todo = move[m].todo /\ c.names = move[m].names
          /\ c.known = move[m].known /\ c.copied = move[m].copied
      BY <1>1 DEF MoveCall, MoveStages
    <2>4. move' = [move EXCEPT ![m] = c]
      BY <2>2
    <2> HIDE DEF c
    <2>5. n \in move[m].names \ move[m].todo /\ move[m].todo \subseteq move[m].names
      BY <1>1 DEF MoverOK
    <2>6. Looked(c) = Looked(move[m]) \cup {n} /\ Copied(c) = {}
      BY <1>1, <2>3, <2>5 DEF Looked, Copied
    <2>7. ~MayFail => ~Touched(n, c.known)
      BY <2>1, PoolTypes, PendingIsTouched DEF GatewayInv, TypeOK, Touched
    <2>8. ~MayLapse => chain[n].live
      BY <1>1, <2>1 DEF MoverOK
    <2>9. m \notin accepted
      BY <1>1 DEF MoverOK, Over
    <2>10. c.pc # "pooling"
      BY <2>3
    <2>11. MoverOK(m, c)
      BY <1>1, <2>3, <2>5, <2>6, <2>7, <2>8, <2>9, <2>10 DEF MoverOK
    <2> QED BY <1>1, <2>3, <2>4, <2>6, <2>9, <2>11, MoverMoves
  <1> QED BY <1>2, <1>3

\* AdmitMove.
LEMMA AdmitMoveKeeps ==
  ASSUME GatewayInv, NEW m \in Movers, AdmitMove(m), UNCHANGED <<write, read>>
  PROVE  GatewayInv'
  <1> DEFINE c == [move[m] EXCEPT !.pc = "copying", !.charged = TRUE, !.todo = move[m].names]
  <1>1. /\ move[m] \in MoveCall /\ MoverOK(m, move[m]) /\ move[m].pc = "admitting"
        /\ UNCHANGED nodeVars
    BY MoveTypes DEF GatewayInv, AllMovers, TypeOK, AdmitMove, MoveAt
  <1>2. /\ c \in MoveCall /\ c.pc = "copying" /\ c.todo = move[m].names /\ c.names = move[m].names
        /\ c.known = move[m].known /\ c.copied = move[m].copied
    BY <1>1 DEF MoveCall, MoveStages
  <1>3. move' = [move EXCEPT ![m] = c]
    BY DEF AdmitMove
  <1> HIDE DEF c
  <1>4. Looked(c) = Looked(move[m]) /\ Copied(c) = {}
    BY <1>1, <1>2 DEF Looked, Copied
  <1>5. m \notin accepted
    BY <1>1 DEF MoverOK, Over
  <1>6. MoverOK(m, c)
    BY <1>1, <1>2, <1>4, <1>5 DEF MoverOK
  <1> QED BY <1>1, <1>2, <1>3, <1>4, <1>5, <1>6, MoverMoves

\* CopyValue: only the value of a live name is copied.
LEMMA CopyValueKeeps ==
  ASSUME GatewayInv, NEW m \in Movers, NEW n \in Names, CopyValue(m, n), UNCHANGED <<write, read>>
  PROVE  GatewayInv'
  <1> PICK seen \in ShowAnswers(n) :
        move' = [move EXCEPT ![m] =
          IF ~Found(seen) \/ ~seen.live
          THEN [@ EXCEPT !.pc = "refused"]
          ELSE [@ EXCEPT !.copied[n] = seen.value, !.todo = move[m].todo \ {n},
                         !.pc = IF move[m].todo = {n} THEN "sending" ELSE "copying"]]
    BY DEF CopyValue
  <1>1. /\ move[m] \in MoveCall /\ MoverOK(m, move[m]) /\ move[m].pc = "copying"
        /\ n \in move[m].todo /\ UNCHANGED nodeVars
        /\ move[m].copied \in [Names -> Values]
    BY MoveTypes DEF GatewayInv, AllMovers, TypeOK, CopyValue, MoveAt
  <1>2. CASE ~Found(seen) \/ ~seen.live
    <2>1. move' = [move EXCEPT ![m].pc = "refused"]
      BY <1>2
    <2>2. move[m].pc \notin Over
      BY <1>1 DEF Over
    <2> QED BY <2>1, <2>2, <1>1, MoveStops
  <1>3. CASE Found(seen) /\ seen.live
    <2> PICK value : value = seen.value
      OBVIOUS
    <2> DEFINE stage == IF move[m].todo = {n} THEN "sending" ELSE "copying"
               left == move[m].todo \ {n}
               copied == [move[m].copied EXCEPT ![n] = value]
               c == [move[m] EXCEPT !.copied = copied, !.todo = left, !.pc = stage]
    <2>1. seen = chain[n] /\ chain[n].live /\ value = chain[n].value /\ value \in Values
      BY <1>3, ShowTypes DEF GatewayInv, TypeOK, Registration
    <2>2. /\ copied \in [Names -> Values] /\ copied[n] = value
          /\ \A k \in Names : k # n => copied[k] = move[m].copied[k]
      BY <1>1, <2>1
    <2>3. move' = [move EXCEPT ![m] = [@ EXCEPT !.copied[n] = value, !.todo = left, !.pc = stage]]
      BY <1>3
    <2>4. move' = [move EXCEPT ![m] = c]
      BY <2>3, <1>1 DEF MoveCall
    <2> HIDE DEF copied
    <2>5. /\ c \in MoveCall /\ c.pc = stage /\ c.todo = left /\ c.names = move[m].names
          /\ c.known = move[m].known /\ c.copied = copied
      BY <1>1, <2>2 DEF MoveCall, MoveStages
    <2> HIDE DEF c
    <2>6. move[m].todo \subseteq move[m].names /\ m \notin accepted
      BY <1>1 DEF MoverOK, Over
    <2>7. Looked(c) = Looked(move[m]) /\ Copied(c) = Copied(move[m]) \cup {n}
          /\ n \notin Copied(move[m])
      BY <1>1, <2>5, <2>6 DEF Looked, Copied
    <2>8. Copied(move[m]) \subseteq Names
      BY <1>1, <2>6, MoveTypes DEF GatewayInv, TypeOK, Copied
    <2>9. \A k \in Names : WrittenFor(k, copied[k])
      BY <1>1, <2>1, <2>2 DEF MoverOK, GatewayInv, NoValueStrays
    <2>10. ~MayFail => \A k \in Copied(c) : Kept(k, c)
      <3> SUFFICES ASSUME ~MayFail, NEW k \in Copied(c)
                   PROVE  Kept(k, c)
        OBVIOUS
      <3>1. CASE k = n
        BY <3>1, <2>1, <2>2, <2>5 DEF Kept
      <3>2. CASE k # n
        <4>1. Kept(k, move[m]) /\ copied[k] = move[m].copied[k]
          BY <3>2, <1>1, <2>2, <2>7, <2>8 DEF MoverOK
        <4> QED BY <4>1, <2>5 DEF Kept
      <3> QED BY <3>1, <3>2
    <2>11. MoverOK(m, c)
      BY <1>1, <2>5, <2>6, <2>7, <2>9, <2>10 DEF MoverOK
    <2>12. ASSUME NEW k \in Copied(c)
           PROVE  \/ k \in Copied(move[m]) /\ c.copied[k] = move[m].copied[k]
                  \/ chain[k].live /\ c.copied[k] = chain[k].value
      BY <2>1, <2>2, <2>5, <2>7, <2>8
    <2> QED BY <1>1, <2>4, <2>5, <2>6, <2>11, <2>12, MoverMoves
  <1> QED BY <1>2, <1>3

-----------------------------------------------------------------------------
(* A transaction is accepted.                                              *)

\* What acceptance tells of the operations, and what it leaves as it was.
LEMMA Accepted ==
  ASSUME GatewayInv, NEW j \in Writers \cup Movers, j \notin accepted, NEW ops \in SUBSET Operation,
         Accept(j, ops), \A a, b \in ops : a.name = b.name => a = b,
         j \in Writers => \A op \in ops : op.value = j,
         j \in Movers => \A op \in ops : op.verb = "UPDATE" /\ op.to = "other"
  PROVE  /\ NodeTypeOK' /\ Waiting' /\ UNCHANGED <<chain, blocks>>
         /\ accepted' = accepted \cup {j} /\ mempool' = mempool \cup {[job |-> j, ops |-> ops]}
         /\ \A op \in ops : op.verb = "UPDATE" =>
              chain[op.name].live /\ chain[op.name].holder = "gateway"
         /\ \A n, jobs : j \notin jobs => (Touched(n, jobs)' <=> Touched(n, jobs))
  <1> DEFINE new == [job |-> j, ops |-> ops]
  <1>1. /\ mempool' = mempool \cup {new} /\ accepted' = accepted \cup {j}
        /\ UNCHANGED <<chain, blocks>> /\ ~Refused(ops)
    BY DEF Accept
  <1>2. new.job = j /\ new.ops = ops /\ new \in Transaction /\ j \in Jobs
    BY JobsApart DEF Transaction
  <1> HIDE DEF new
  <1>3. NodeTypeOK'
    BY <1>1, <1>2 DEF GatewayInv, TypeOK, NodeTypeOK
  <1>4. ASSUME NEW op \in ops
        PROVE  /\ ~\E tx \in mempool : \E o \in tx.ops : o.name = op.name
               /\ op.verb = "NEW" => ~chain[op.name].live
               /\ op.verb = "UPDATE" => chain[op.name].live /\ chain[op.name].holder = "gateway"
    <2>1. RefusalsOf(op) = {} /\ op.verb \in {"NEW", "UPDATE"}
      BY <1>1 DEF Refused, Operation
    <2>2. op.name \notin PendingNames
      BY <2>1 DEF RefusalsOf
    <2> QED BY <2>1, <2>2, PendingIsTouched DEF RefusalsOf
  <1>5. \A n, jobs : j \notin jobs => (Touched(n, jobs)' <=> Touched(n, jobs))
    BY <1>1, <1>2 DEF Touched
  <1>6. /\ \A tx \in mempool' : tx.job \in accepted' /\ tx.job \in Writers \cup Movers
        /\ \A tx \in mempool' : tx.job \in Writers => \A op \in tx.ops : op.value = tx.job
        /\ \A tx \in mempool' : tx.job \in Movers =>
             \A op \in tx.ops : op.verb = "UPDATE" /\ op.to = "other"
    BY <1>1, <1>2 DEF GatewayInv, Waiting
  <1>7. ASSUME NEW t1 \in mempool', NEW t2 \in mempool', NEW o1 \in t1.ops, NEW o2 \in t2.ops,
               o1.name = o2.name
        PROVE  t1 = t2 /\ o1 = o2
    <2>1. CASE t1 \in mempool /\ t2 \in mempool
      BY <2>1, <1>7 DEF GatewayInv, Waiting
    <2>2. CASE t1 = new /\ t2 = new
      BY <2>2, <1>2, <1>7
    <2>3. CASE t1 \in mempool /\ t2 = new
      BY <2>3, <1>2, <1>4, <1>7
    <2>4. CASE t1 = new /\ t2 \in mempool
      BY <2>4, <1>2, <1>4, <1>7
    <2> QED BY <2>1, <2>2, <2>3, <2>4, <1>1
  <1>8. \A tx \in mempool' : \A op \in tx.ops :
          /\ op.verb = "NEW" => ~chain[op.name].live
          /\ op.verb = "UPDATE" => chain[op.name].live /\ chain[op.name].holder = "gateway"
    BY <1>1, <1>2, <1>4 DEF GatewayInv, Waiting
  <1>9. Waiting'
    BY <1>1, <1>6, <1>7, <1>8 DEF Waiting
  <1> QED BY <1>1, <1>3, <1>4, <1>5, <1>9 DEF new

\* SendWrite and SendWriteFails, accepted.
LEMMA WriteAcceptedKeeps ==
  ASSUME GatewayInv, NEW w \in Writers, NEW stage \in Over, WriteAt(w, "sending"),
         Accept(w, WriteOps(w)), write' = [write EXCEPT ![w].pc = stage], UNCHANGED <<move, read>>
  PROVE  GatewayInv'
  <1> DEFINE ops == WriteOps(w)
             c == [write[w] EXCEPT !.pc = stage]
  <1>1. /\ write[w] \in WriteCall /\ WriterOK(w, write[w]) /\ write[w].pc = "sending"
        /\ write[w].names \in SUBSET Names /\ write \in [Writers -> WriteCall]
    BY WriteTypes DEF GatewayInv, AllWriters, TypeOK, WriteTypeOK, WriteAt
  <1>2. /\ c \in WriteCall /\ c.pc = stage /\ c.todo = write[w].todo /\ c.names = write[w].names
        /\ c.known = write[w].known /\ c.lost = write[w].lost
        /\ c.goneAtStart = write[w].goneAtStart
    BY <1>1 DEF WriteCall, WriteStages, Over
  <1>3. /\ write' \in [Writers -> WriteCall] /\ write'[w] = c
        /\ \A v \in Writers : v # w => write'[v] = write[v]
    BY <1>1, <1>2
  <1>4. w \in Jobs /\ w \notin Movers /\ w \in Values
    BY JobsApart DEF Values
  <1>5. w \notin accepted
    BY <1>1 DEF WriterOK, Over
  <1>6. /\ ops \in SUBSET Operation /\ \A a, b \in ops : a.name = b.name => a = b
        /\ \A op \in ops : op.value = w /\ op.name \in write[w].names
    BY <1>1, <1>4 DEF WriteOps, Operation
  <1> HIDE DEF c, ops
  <1>7. /\ NodeTypeOK' /\ Waiting' /\ UNCHANGED <<chain, blocks>>
        /\ accepted' = accepted \cup {w} /\ mempool' = mempool \cup {[job |-> w, ops |-> ops]}
        /\ \A n, jobs : w \notin jobs => (Touched(n, jobs)' <=> Touched(n, jobs))
    <2>1. Accept(w, ops)
      BY DEF ops
    <2> QED BY <2>1, <1>4, <1>5, <1>6, Accepted
  <1>8. TypeOK'
    BY <1>3, <1>7 DEF GatewayInv, TypeOK, WriteTypeOK, MoveTypeOK, ReadTypeOK
  <1>9. \A n, v : WrittenFor(n, v) => WrittenFor(n, v)'
    BY <1>2, <1>3, <1>7 DEF WrittenFor
  <1>10. NoValueStrays'
    <2>1. \A op \in ops : WrittenFor(op.name, op.value)'
      BY <1>2, <1>3, <1>6, <1>7 DEF WrittenFor
    <2> QED BY <2>1, <1>7, <1>9 DEF GatewayInv, NoValueStrays
  <1>11. \A n, jobs : Fresh(n, jobs) => Fresh(n, jobs)'
    BY <1>4, <1>7 DEF Fresh
  <1>12. AllWriters'
    <2> SUFFICES ASSUME NEW v \in Writers
                 PROVE  WriterOK(v, write[v])'
      BY DEF AllWriters
    <2>1. CASE v = w
      <3> PICK d : d = write'[v]
        OBVIOUS
      <3>1. /\ d.pc = stage /\ d.todo = write[w].todo /\ d.names = write[w].names
            /\ d.known = write[w].known /\ d.goneAtStart = write[w].goneAtStart
        BY <2>1, <1>2, <1>3
      <3>2. ~MayFail /\ ~MayLapse => d.goneAtStart = {}
        BY <3>1, <1>1 DEF WriterOK, Unheld
      <3> QED BY <2>1, <3>1, <3>2, <1>1, <1>7 DEF WriterOK, Unheld, Unmisled, Over
    <2>2. CASE v # w
      <3> PICK d : d = write'[v]
        OBVIOUS
      <3>1. WriterOK(v, d) /\ w \notin d.known
        BY <2>2, <1>3, <1>5 DEF GatewayInv, AllWriters, WriterOK
      <3>2. Unmisled(d) => Unmisled(d)'
        BY <3>1, <1>7, <1>11 DEF Unmisled
      <3>3. Unheld(d) => Unheld(d)'
        BY <1>7 DEF Unheld, GoneNames
      <3> QED BY <2>2, <3>1, <3>2, <3>3, <1>7 DEF WriterOK
    <2> QED BY <2>1, <2>2
  <1>13. AllMovers'
    <2> SUFFICES ASSUME NEW k \in Movers
                 PROVE  MoverOK(k, move[k])'
      BY DEF AllMovers
    <2>1. MoverOK(k, move[k]) /\ w \notin move[k].known
      BY <1>5 DEF GatewayInv, AllMovers, MoverOK
    <2> QED BY <2>1, <1>4, <1>7, <1>9 DEF MoverOK, Kept
  <1>14. AllReaders'
    BY <1>7 DEF GatewayInv, AllReaders, ReaderOK
  <1>15. Survives'
    BY <1>4, <1>7 DEF GatewayInv, Survives, AcknowledgedWriteSurvives
  <1> QED BY <1>7, <1>8, <1>10, <1>12, <1>13, <1>14, <1>15 DEF GatewayInv

\* SendMove and SendMoveFails, accepted: what is sent is what was copied, and the node
\* has just found the name live and in our hands.
LEMMA MoveAcceptedKeeps ==
  ASSUME GatewayInv, NEW m \in Movers, NEW stage \in Over, MoveAt(m, "sending"),
         Accept(m, MoveOps(m)), move' = [move EXCEPT ![m].pc = stage], UNCHANGED <<write, read>>
  PROVE  GatewayInv'
  <1> DEFINE ops == MoveOps(m)
             c == [move[m] EXCEPT !.pc = stage]
  <1>1. /\ move[m] \in MoveCall /\ MoverOK(m, move[m]) /\ move[m].pc = "sending"
        /\ move[m].names \in SUBSET Names /\ move \in [Movers -> MoveCall]
        /\ move[m].copied \in [Names -> Values]
    BY MoveTypes DEF GatewayInv, AllMovers, TypeOK, MoveTypeOK, MoveAt
  <1>2. /\ c \in MoveCall /\ c.pc = stage /\ c.todo = move[m].todo /\ c.names = move[m].names
        /\ c.known = move[m].known /\ c.copied = move[m].copied
    BY <1>1 DEF MoveCall, MoveStages, Over
  <1>3. /\ move' \in [Movers -> MoveCall] /\ move'[m] = c
        /\ \A k \in Movers : k # m => move'[k] = move[k]
    BY <1>1, <1>2
  <1>4. m \in Jobs /\ m \notin Writers
    BY JobsApart
  <1>5. m \notin accepted
    BY <1>1 DEF MoverOK, Over
  <1>6. /\ ops \in SUBSET Operation /\ \A a, b \in ops : a.name = b.name => a = b
        /\ \A op \in ops : /\ op.verb = "UPDATE" /\ op.to = "other"
                           /\ op.name \in move[m].names /\ op.value = move[m].copied[op.name]
    BY <1>1 DEF MoveOps, Operation
  <1>7. Copied(move[m]) = move[m].names /\ Copied(c) = {} /\ Looked(c) = {}
    BY <1>1, <1>2 DEF Copied, Looked, Over
  <1> HIDE DEF c, ops
  <1>8. /\ NodeTypeOK' /\ Waiting' /\ UNCHANGED <<chain, blocks>>
        /\ accepted' = accepted \cup {m} /\ mempool' = mempool \cup {[job |-> m, ops |-> ops]}
        /\ \A op \in ops : chain[op.name].live /\ chain[op.name].holder = "gateway"
        /\ \A n, jobs : m \notin jobs => (Touched(n, jobs)' <=> Touched(n, jobs))
    <2>1. Accept(m, ops)
      BY DEF ops
    <2> QED BY <2>1, <1>4, <1>5, <1>6, Accepted
  <1>9. TypeOK'
    BY <1>3, <1>8 DEF GatewayInv, TypeOK, WriteTypeOK, MoveTypeOK, ReadTypeOK
  <1>10. \A n, v : WrittenFor(n, v) => WrittenFor(n, v)'
    BY <1>8 DEF WrittenFor
  <1>11. NoValueStrays'
    <2>1. \A op \in ops : WrittenFor(op.name, op.value)'
      BY <1>1, <1>6, <1>10 DEF MoverOK
    <2> QED BY <2>1, <1>8, <1>10 DEF GatewayInv, NoValueStrays
  <1>12. ASSUME NEW n, NEW jobs, Fresh(n, jobs)
         PROVE  Fresh(n, jobs)'
    <2>1. \A op \in ops : op.name = n => op.value \notin jobs
      BY <1>6, <1>7, <1>12 DEF Fresh
    <2>2. \A tx \in mempool' : tx.job \in Movers =>
            \A op \in tx.ops : op.name = n => op.value \notin jobs
      BY <2>1, <1>8, <1>12 DEF Fresh
    <2>3. \A k \in Movers : n \in Copied(move'[k]) => move'[k].copied[n] \notin jobs
      BY <1>3, <1>7, <1>12 DEF Fresh
    <2>4. chain'[n].live => chain'[n].value \notin jobs
      BY <1>8, <1>12 DEF Fresh
    <2>5. \A k \in Movers : n \in Copied(move[k])' => (move[k].copied[n])' \notin jobs
      BY <2>3 DEF Copied
    <2> QED BY <2>2, <2>4, <2>5 DEF Fresh
  <1>13. AllWriters'
    <2> SUFFICES ASSUME NEW v \in Writers
                 PROVE  WriterOK(v, write[v])'
      BY DEF AllWriters
    <2>1. WriterOK(v, write[v]) /\ m \notin write[v].known
      BY <1>5 DEF GatewayInv, AllWriters, WriterOK
    <2>2. Unmisled(write[v]) => Unmisled(write[v])'
      BY <2>1, <1>8, <1>12 DEF Unmisled
    <2>3. Unheld(write[v]) => Unheld(write[v])'
      BY <1>8 DEF Unheld, GoneNames
    <2> QED BY <2>1, <2>2, <2>3, <1>4, <1>8 DEF WriterOK
  <1>14. AllMovers'
    <2> SUFFICES ASSUME NEW k \in Movers
                 PROVE  MoverOK(k, move[k])'
      BY DEF AllMovers
    <2>1. CASE k = m
      <3> PICK d : d = move'[k]
        OBVIOUS
      <3>1. /\ d.pc = stage /\ d.todo = move[m].todo /\ d.names = move[m].names
            /\ d.known = move[m].known /\ d.copied = move[m].copied
            /\ Looked(d) = {} /\ Copied(d) = {}
        BY <2>1, <1>2, <1>3, <1>7
      <3> QED BY <2>1, <3>1, <1>1, <1>8, <1>10 DEF MoverOK, Over
    <2>2. CASE k # m
      <3> PICK d : d = move'[k]
        OBVIOUS
      <3>1. MoverOK(k, d) /\ m \notin d.known
        BY <2>2, <1>3, <1>5 DEF GatewayInv, AllMovers, MoverOK
      <3> QED BY <2>2, <3>1, <1>8, <1>10 DEF MoverOK, Kept
    <2> QED BY <2>1, <2>2
  <1>15. AllReaders'
    BY <1>8 DEF GatewayInv, AllReaders, ReaderOK
  <1>16. Survives'
    <2> SUFFICES ASSUME ~MayFail, NEW tx \in mempool', tx.job \in Movers, NEW op \in tx.ops
                 PROVE  op.value = chain[op.name].value
                          \/ chain[op.name].value \notin move'[tx.job].known
      BY <1>8 DEF Survives, AcknowledgedWriteSurvives
    <2>1. CASE tx \in mempool
      <3>1. tx.job # m
        BY <2>1, <1>5 DEF GatewayInv, Waiting
      <3> QED BY <2>1, <3>1, <1>3 DEF GatewayInv, Survives, AcknowledgedWriteSurvives
    <2>2. CASE tx = [job |-> m, ops |-> ops]
      <3>1. op \in ops /\ tx.job = m /\ move'[m].known = move[m].known
        BY <2>2, <1>2, <1>3
      <3>2. Kept(op.name, move[m])
        BY <3>1, <1>1, <1>6, <1>7 DEF MoverOK
      <3> QED BY <3>1, <3>2, <1>6, <1>8 DEF Kept
    <2> QED BY <2>1, <2>2, <1>8
  <1> QED BY <1>8, <1>9, <1>11, <1>13, <1>14, <1>15, <1>16 DEF GatewayInv

-----------------------------------------------------------------------------
(* Blocks and lapses.                                                      *)

\* A block gives each name of its transaction what the operation on it says.
LEMMA BlockEffect ==
  ASSUME GatewayInv, NEW tx \in mempool, Block(tx)
  PROVE  /\ \A op \in tx.ops :
              chain'[op.name] = [holder |-> op.to, live |-> TRUE, value |-> op.value]
         /\ \A n \in Names : (\A op \in tx.ops : op.name # n) => chain'[n] = chain[n]
         /\ NodeTypeOK' /\ mempool' = mempool \ {tx}
         /\ blocks' = blocks + 1 /\ UNCHANGED accepted
  <1>1. /\ chain' = [n \in Names |->
             IF \E op \in tx.ops : op.name = n
             THEN [holder |-> (CHOOSE o \in tx.ops : o.name = n).to, live |-> TRUE,
                   value |-> (CHOOSE o \in tx.ops : o.name = n).value]
             ELSE chain[n]]
        /\ mempool' = mempool \ {tx} /\ blocks' = blocks + 1 /\ UNCHANGED accepted
    BY DEF Block
  <1>2. tx.ops \subseteq Operation
    BY DEF GatewayInv, TypeOK, NodeTypeOK, Transaction
  <1>3. ASSUME NEW op \in tx.ops
        PROVE  (CHOOSE o \in tx.ops : o.name = op.name) = op
    <2> PICK chosen : chosen = CHOOSE o \in tx.ops : o.name = op.name
      OBVIOUS
    <2>1. chosen \in tx.ops /\ chosen.name = op.name
      OBVIOUS
    <2>2. chosen = op
      BY <2>1 DEF GatewayInv, Waiting
    <2> QED BY <2>2
  <1>4. ASSUME NEW op \in tx.ops
        PROVE  /\ chain'[op.name] = [holder |-> op.to, live |-> TRUE, value |-> op.value]
               /\ chain'[op.name] \in Registration
    <2>1. op.name \in Names /\ op.to \in Holders /\ op.value \in Values
      BY <1>2 DEF Operation, Holders
    <2>2. chain'[op.name] = [holder |-> op.to, live |-> TRUE, value |-> op.value]
      BY <1>1, <1>3, <2>1
    <2> QED BY <2>1, <2>2 DEF Registration
  <1>5. \A n \in Names : (\A op \in tx.ops : op.name # n) => chain'[n] = chain[n]
    BY <1>1
  <1>6. \A n \in Names : chain'[n] \in Registration
    BY <1>4, <1>5 DEF GatewayInv, TypeOK, NodeTypeOK
  <1>7. chain' \in [Names -> Registration]
    BY <1>1, <1>6
  <1>8. NodeTypeOK'
    BY <1>1, <1>7 DEF GatewayInv, TypeOK, NodeTypeOK
  <1> QED BY <1>1, <1>4, <1>5, <1>8

\* Block: it gives a name a value that was on its way there, which is newer than any
\* call that has found the name confirmed, or hands the name over.
LEMMA BlockKeeps ==
  ASSUME GatewayInv, NEW tx \in mempool, Block(tx), UNCHANGED <<write, move, read>>
  PROVE  GatewayInv'
  <1>1. /\ \A op \in tx.ops :
             /\ chain'[op.name].holder = op.to /\ chain'[op.name].live
             /\ chain'[op.name].value = op.value
        /\ \A n \in Names : (\A op \in tx.ops : op.name # n) => chain'[n] = chain[n]
        /\ NodeTypeOK' /\ mempool' = mempool \ {tx}
        /\ blocks' = blocks + 1 /\ UNCHANGED accepted
    <2>1. \A op \in tx.ops :
            chain'[op.name] = [holder |-> op.to, live |-> TRUE, value |-> op.value]
      BY BlockEffect
    <2>2. /\ \A n \in Names : (\A op \in tx.ops : op.name # n) => chain'[n] = chain[n]
          /\ NodeTypeOK' /\ mempool' = mempool \ {tx}
          /\ blocks' = blocks + 1 /\ UNCHANGED accepted
      BY BlockEffect
    <2>3. ASSUME NEW op \in tx.ops
          PROVE  /\ chain'[op.name].holder = op.to /\ chain'[op.name].live
                 /\ chain'[op.name].value = op.value
      <3>1. chain'[op.name] = [holder |-> op.to, live |-> TRUE, value |-> op.value]
        BY <2>1
      <3> QED BY <3>1
    <2> QED BY <2>2, <2>3
  <1>2. \A t \in mempool : t.ops \subseteq Operation
    BY DEF GatewayInv, TypeOK, NodeTypeOK, Transaction
  <1>3. TypeOK'
    BY <1>1 DEF GatewayInv, TypeOK, WriteTypeOK, MoveTypeOK, ReadTypeOK
  <1>4. \A t \in mempool' : \A op \in t.ops : chain'[op.name] = chain[op.name]
    <2> SUFFICES ASSUME NEW t \in mempool', NEW op \in t.ops
                 PROVE  chain'[op.name] = chain[op.name]
      OBVIOUS
    <2>1. t \in mempool /\ t # tx /\ op.name \in Names
      BY <1>1, <1>2 DEF Operation
    <2>2. \A o \in tx.ops : o.name # op.name
      BY <2>1 DEF GatewayInv, Waiting
    <2> QED BY <1>1, <2>1, <2>2
  <1>5. Waiting'
    BY <1>1, <1>4 DEF GatewayInv, Waiting
  <1>6. \A n, v : WrittenFor(n, v) => WrittenFor(n, v)'
    BY <1>1 DEF WrittenFor
  <1>7. NoValueStrays'
    <2>1. \A n \in Names : WrittenFor(n, chain'[n].value)
      BY <1>1 DEF GatewayInv, NoValueStrays
    <2> QED BY <2>1, <1>1, <1>6 DEF GatewayInv, NoValueStrays
  <1>8. \A n, jobs : ~Touched(n, jobs) => ~Touched(n, jobs)'
    BY <1>1 DEF Touched
  <1>9. ASSUME NEW n \in Names, NEW jobs, ~Touched(n, jobs), Fresh(n, jobs)
        PROVE  Fresh(n, jobs)'
    <2>1. chain'[n].live => chain'[n].value \notin jobs
      <3>1. CASE \A op \in tx.ops : op.name # n
        BY <3>1, <1>1, <1>9 DEF Fresh
      <3>2. CASE \E op \in tx.ops : op.name = n
        <4> PICK op \in tx.ops : op.name = n
          BY <3>2
        <4>1. chain'[n].value = op.value /\ tx.job \notin jobs
          BY <1>1, <1>9 DEF Touched
        <4>2. CASE tx.job \in Movers
          BY <4>1, <4>2, <1>9 DEF Fresh
        <4>3. CASE tx.job \in Writers
          BY <4>1, <4>3 DEF GatewayInv, Waiting
        <4> QED BY <4>2, <4>3 DEF GatewayInv, Waiting
      <3> QED BY <3>1, <3>2
    <2> QED BY <2>1, <1>1, <1>9 DEF Fresh
  <1>10. AllWriters'
    <2> SUFFICES ASSUME NEW w \in Writers
                 PROVE  WriterOK(w, write[w])'
      BY DEF AllWriters
    <2>1. WriterOK(w, write[w]) /\ write[w].names \in SUBSET Names
      BY WriteTypes DEF GatewayInv, AllWriters, TypeOK
    <2>2. GoneNames \subseteq GoneNames'
      <3> SUFFICES ASSUME NEW n \in GoneNames
                   PROVE  n \in GoneNames'
        OBVIOUS
      <3>1. n \in Names /\ chain[n].live /\ chain[n].holder = "other"
        BY DEF GoneNames
      <3>2. \A op \in tx.ops : op.name # n
        BY <3>1, <1>2 DEF GatewayInv, Waiting, Operation
      <3> QED BY <3>1, <3>2, <1>1 DEF GoneNames
    <2>3. Unheld(write[w]) => Unheld(write[w])'
      BY <2>2 DEF Unheld
    <2>4. Unmisled(write[w]) => Unmisled(write[w])'
      BY <2>1, <1>8, <1>9 DEF Unmisled
    <2> QED BY <2>1, <2>3, <2>4, <1>1 DEF WriterOK
  <1>11. AllMovers'
    <2> SUFFICES ASSUME NEW m \in Movers
                 PROVE  MoverOK(m, move[m])'
      BY DEF AllMovers
    <2> PICK c : c = move[m]
      OBVIOUS
    <2>1. /\ MoverOK(m, c) /\ c.names \in SUBSET Names /\ Copied(c) \subseteq Looked(c)
          /\ Looked(c) \subseteq c.names
      BY MoveTypes DEF GatewayInv, AllMovers, TypeOK, Copied, Looked
    <2>2. \A n \in Names : chain[n].live => chain'[n].live
      BY <1>1
    <2>3. ASSUME ~MayFail, NEW n \in Copied(c)
          PROVE  Kept(n, c)'
      <3>1. ~Touched(n, c.known) /\ Kept(n, c) /\ n \in Names
        BY <2>1, <2>3 DEF MoverOK
      <3>2. CASE \A op \in tx.ops : op.name # n
        BY <3>1, <3>2, <1>1 DEF Kept
      <3>3. CASE \E op \in tx.ops : op.name = n
        <4> PICK op \in tx.ops : op.name = n
          BY <3>3
        <4>1. tx.job \notin c.known
          BY <3>1 DEF Touched
        <4>2. CASE tx.job \in Writers
          BY <4>1, <4>2, <1>1 DEF GatewayInv, Waiting, Kept
        <4>3. CASE tx.job \in Movers
          BY <4>3, <1>1 DEF GatewayInv, Waiting, Kept
        <4> QED BY <4>2, <4>3 DEF GatewayInv, Waiting
      <3> QED BY <3>2, <3>3
    <2>4. c.pc = "pooling" => c.name \in Names
      BY <2>1 DEF MoverOK
    <2> QED BY <2>1, <2>2, <2>3, <2>4, <1>1, <1>6, <1>8 DEF MoverOK
  <1>12. AllReaders'
    <2> SUFFICES ASSUME NEW r \in Readers
                 PROVE  ReaderOK(read[r])'
      BY DEF AllReaders
    <2>1. ReaderOK(read[r]) /\ read[r].since \in Nat /\ blocks \in Nat
      BY DEF GatewayInv, AllReaders, TypeOK, ReadTypeOK, NodeTypeOK, ReadCall
    <2> QED BY <2>1, <1>1 DEF ReaderOK
  <1>13. Survives'
    BY <1>1, <1>4 DEF GatewayInv, Survives, AcknowledgedWriteSurvives
  <1> QED BY <1>3, <1>5, <1>7, <1>10, <1>11, <1>12, <1>13 DEF GatewayInv

\* Lapse: it takes the waiting updates of the name with it.
LEMMA LapseKeeps ==
  ASSUME GatewayInv, NEW n \in Names, Lapse(n), UNCHANGED <<write, move, read>>
  PROVE  GatewayInv'
  <1>1. /\ MayLapse /\ chain' = [chain EXCEPT ![n].live = FALSE]
        /\ mempool' = {tx \in mempool : \A op \in tx.ops : op.name # n}
        /\ UNCHANGED <<accepted, blocks>> /\ chain \in [Names -> Registration]
    BY DEF Lapse, GatewayInv, TypeOK, NodeTypeOK
  <1>2. /\ chain' \in [Names -> Registration] /\ \A k \in Names : k # n => chain'[k] = chain[k]
        /\ \A k \in Names : /\ chain'[k].holder = chain[k].holder
                            /\ chain'[k].value = chain[k].value
                            /\ chain'[k].live => chain[k].live
    BY <1>1 DEF Registration
  <1>3. TypeOK'
    BY <1>1, <1>2 DEF GatewayInv, TypeOK, NodeTypeOK, WriteTypeOK, MoveTypeOK, ReadTypeOK
  <1>4. \A tx \in mempool : \A op \in tx.ops : op.name \in Names
    BY DEF GatewayInv, TypeOK, NodeTypeOK, Transaction, Operation
  <1>5. mempool' \subseteq mempool /\ \A tx \in mempool' : \A op \in tx.ops : op.name # n
    BY <1>1
  <1>6. Waiting'
    BY <1>1, <1>2, <1>4, <1>5 DEF GatewayInv, Waiting
  <1>7. \A k, v : WrittenFor(k, v) => WrittenFor(k, v)'
    BY <1>1 DEF WrittenFor
  <1>8. NoValueStrays'
    BY <1>2, <1>5, <1>7 DEF GatewayInv, NoValueStrays
  <1>9. AllWriters'
    BY <1>1 DEF GatewayInv, AllWriters, WriterOK
  <1>10. AllMovers'
    <2> SUFFICES ASSUME NEW m \in Movers
                 PROVE  MoverOK(m, move[m])'
      BY DEF AllMovers
    <2> PICK c : c = move[m]
      OBVIOUS
    <2>1. MoverOK(m, c) /\ Copied(c) \subseteq Names
      BY MoveTypes DEF GatewayInv, AllMovers, TypeOK, Copied
    <2>2. \A k, jobs : ~Touched(k, jobs) => ~Touched(k, jobs)'
      BY <1>5 DEF Touched
    <2>3. \A k \in Copied(c) : Kept(k, c) => Kept(k, c)'
      BY <2>1, <1>2 DEF Kept
    <2> QED BY <2>1, <2>2, <2>3, <1>1, <1>7 DEF MoverOK
  <1>11. AllReaders'
    <2> SUFFICES ASSUME NEW r \in Readers
                 PROVE  ReaderOK(read[r])'
      BY DEF AllReaders
    <2>1. ReaderOK(read[r]) /\ read[r].name \in Names
      BY DEF GatewayInv, AllReaders, TypeOK, ReadTypeOK, ReadCall
    <2> QED BY <2>1, <1>1, <1>2 DEF ReaderOK
  <1>12. Survives'
    BY <1>2, <1>4, <1>5 DEF GatewayInv, Survives, AcknowledgedWriteSurvives
  <1> QED BY <1>3, <1>6, <1>8, <1>9, <1>10, <1>11, <1>12 DEF GatewayInv

-----------------------------------------------------------------------------
(* The other steps.                                                        *)

\* A step of a write.
LEMMA WritingKeeps ==
  ASSUME GatewayInv, NEW w \in Writers, WriteStep(w), UNCHANGED <<move, read>>
  PROVE  GatewayInv'
  <1>1. CASE StartWrite(w)
    BY <1>1, StartWriteKeeps
  <1>2. CASE \E n \in Names : CheckHolder(w, n)
    BY <1>2, CheckHolderKeeps
  <1>3. CASE HolderLookupFails(w)
    <2>1. /\ write[w].pc \notin Over /\ write' = [write EXCEPT ![w].pc = "lookupFailed"]
          /\ UNCHANGED nodeVars
      BY <1>3 DEF HolderLookupFails, WriteAt, Over
    <2> QED BY <2>1, WriteEnds
  <1>4. CASE RefuseOverLimit(w)
    <2>1. /\ write[w].pc \notin Over /\ write' = [write EXCEPT ![w].pc = "overLimit"]
          /\ UNCHANGED nodeVars
      BY <1>4 DEF RefuseOverLimit, WriteAt, Over
    <2> QED BY <2>1, WriteEnds
  <1>5. CASE Admit(w)
    BY <1>5, AdmitKeeps
  <1>6. CASE ShowOne(w)
    BY <1>6, ShowOneKeeps
  <1>7. CASE PoolOne(w)
    BY <1>7, PoolOneKeeps
  <1>8. CASE PoolBatch(w)
    BY <1>8, PoolBatchKeeps
  <1>9. CASE \E n \in Names : ShowBatch(w, n)
    BY <1>9, ShowBatchKeeps
  <1>10. CASE SendWrite(w)
    <2>1. CASE Accept(w, WriteOps(w)) /\ write' = [write EXCEPT ![w].pc = "sent"]
      <3>1. "sent" \in Over /\ WriteAt(w, "sending")
        BY <1>10 DEF SendWrite, Over
      <3> QED BY <2>1, <3>1, WriteAcceptedKeeps
    <2>2. CASE /\ write' = [write EXCEPT ![w] =
                    [@ EXCEPT !.pc = "refused", !.lost = NotYours(WriteOps(w))]]
               /\ UNCHANGED nodeVars
      <3>1. WriteAt(w, "sending")
        BY <1>10 DEF SendWrite
      <3> QED BY <2>2, <3>1, WriteRefusedKeeps
    <2> QED BY <1>10, <2>1, <2>2 DEF SendWrite
  <1>11. CASE SendWriteFails(w)
    <2>1. /\ WriteAt(w, "sending") /\ write[w].pc \notin Over /\ "unanswered" \in Over
          /\ write' = [write EXCEPT ![w].pc = "unanswered"]
      BY <1>11 DEF SendWriteFails, WriteAt, Over
    <2>2. CASE Accept(w, WriteOps(w))
      BY <2>1, <2>2, WriteAcceptedKeeps
    <2>3. CASE UNCHANGED nodeVars
      BY <2>1, <2>3, WriteEnds
    <2> QED BY <1>11, <2>2, <2>3 DEF SendWriteFails
  <1> QED BY <1>1, <1>2, <1>3, <1>4, <1>5, <1>6, <1>7, <1>8, <1>9, <1>10, <1>11 DEF WriteStep

\* A step of a transfer.
LEMMA MovingKeeps ==
  ASSUME GatewayInv, NEW m \in Movers, MoveStep(m), UNCHANGED <<write, read>>
  PROVE  GatewayInv'
  <1>1. CASE StartMove(m)
    BY <1>1, StartMoveKeeps
  <1>2. CASE \E n \in Names : ShowForMove(m, n)
    BY <1>2, ShowForMoveKeeps
  <1>3. CASE PoolForMove(m)
    BY <1>3, PoolForMoveKeeps
  <1>4. CASE TurnMoveAway(m)
    <2>1. /\ move[m].pc \notin Over /\ move' = [move EXCEPT ![m].pc = "turnedAway"]
          /\ UNCHANGED nodeVars
      BY <1>4 DEF TurnMoveAway, MoveAt, Over
    <2> QED BY <2>1, MoveStops
  <1>5. CASE RefuseMoveOverLimit(m)
    <2>1. /\ move[m].pc \notin Over /\ move' = [move EXCEPT ![m].pc = "overLimit"]
          /\ UNCHANGED nodeVars
      BY <1>5 DEF RefuseMoveOverLimit, MoveAt, Over
    <2> QED BY <2>1, MoveStops
  <1>6. CASE AdmitMove(m)
    BY <1>6, AdmitMoveKeeps
  <1>7. CASE \E n \in Names : CopyValue(m, n)
    BY <1>7, CopyValueKeeps
  <1>8. CASE SendMove(m)
    <2>1. MoveAt(m, "sending") /\ move[m].pc \notin Over /\ "sent" \in Over
      BY <1>8 DEF SendMove, MoveAt, Over
    <2>2. CASE Accept(m, MoveOps(m)) /\ move' = [move EXCEPT ![m].pc = "sent"]
      BY <2>1, <2>2, MoveAcceptedKeeps
    <2>3. CASE move' = [move EXCEPT ![m].pc = "refused"] /\ UNCHANGED nodeVars
      BY <2>1, <2>3, MoveStops
    <2> QED BY <1>8, <2>2, <2>3 DEF SendMove
  <1>9. CASE AddressLookupFails(m)
    <2>1. /\ move[m].pc \notin Over /\ move' = [move EXCEPT ![m].pc = "lookupFailed"]
          /\ UNCHANGED nodeVars
      BY <1>9 DEF AddressLookupFails, Over
    <2> QED BY <2>1, MoveStops
  <1>10. CASE SendMoveFails(m)
    <2>1. /\ MoveAt(m, "sending") /\ move[m].pc \notin Over /\ "unanswered" \in Over
          /\ move' = [move EXCEPT ![m].pc = "unanswered"]
      BY <1>10 DEF SendMoveFails, MoveAt, Over
    <2>2. CASE Accept(m, MoveOps(m))
      BY <2>1, <2>2, MoveAcceptedKeeps
    <2>3. CASE UNCHANGED nodeVars
      BY <2>1, <2>3, MoveStops
    <2> QED BY <1>10, <2>2, <2>3 DEF SendMoveFails
  <1> QED BY <1>1, <1>2, <1>3, <1>4, <1>5, <1>6, <1>7, <1>8, <1>9, <1>10 DEF MoveStep

\* A step of a read.
LEMMA ReadingKeeps ==
  ASSUME GatewayInv, NEW r \in Readers, ReadStep(r), UNCHANGED <<write, move>>
  PROVE  GatewayInv'
  <1>1. /\ read \in [Readers -> ReadCall] /\ read[r].name \in Names /\ read[r].seen \in Registration
        /\ read[r].since \in Nat /\ read[r].known \in SUBSET Jobs /\ read[r].heard \in BOOLEAN
        /\ read[r].answer \in Answers /\ read[r] \in ReadCall
    BY DEF GatewayInv, TypeOK, ReadTypeOK, ReadCall
  <1>2. ASSUME NEW c \in ReadCall, read' = [read EXCEPT ![r] = c], ReaderOK(c), UNCHANGED nodeVars
        PROVE  GatewayInv'
    <2>1. ReadTypeOK'
      BY <1>1, <1>2 DEF ReadTypeOK
    <2>2. AllReaders'
      <3> SUFFICES ASSUME NEW k \in Readers
                   PROVE  ReaderOK(read[k])'
        BY DEF AllReaders
      <3> PICK d : d = read'[k]
        OBVIOUS
      <3>1. ReaderOK(d)
        BY <1>1, <1>2 DEF GatewayInv, AllReaders
      <3> QED BY <3>1, <1>2 DEF ReaderOK, nodeVars
    <2> QED BY <1>2, <2>1, <2>2, ReaderMoves
  <1>3. CASE ShowForRead(r)
    <2> PICK seen \in ShowAnswers(read[r].name) :
          read' = [read EXCEPT ![r] =
            [@ EXCEPT !.pc = "pooling", !.seen = seen, !.known = accepted, !.since = blocks,
                      !.heard = seen = chain[read[r].name]]]
      BY <1>3 DEF ShowForRead
    <2> DEFINE c == [read[r] EXCEPT !.pc = "pooling", !.seen = seen, !.known = accepted,
                                    !.since = blocks, !.heard = seen = chain[read[r].name]]
    <2>1. seen \in Registration /\ accepted \in SUBSET Jobs /\ blocks \in Nat
      BY <1>1, ShowTypes DEF GatewayInv, TypeOK, NodeTypeOK
    <2>2. /\ c \in ReadCall /\ c.seen = seen /\ c.name = read[r].name /\ c.since = blocks
          /\ c.heard => seen = chain[read[r].name]
      BY <1>1, <2>1 DEF ReadCall
    <2>3. read' = [read EXCEPT ![r] = c] /\ UNCHANGED nodeVars
      BY <1>3 DEF ShowForRead
    <2> HIDE DEF c
    <2>4. ReaderOK(c)
      BY <2>1, <2>2 DEF ReaderOK
    <2> QED BY <1>2, <2>2, <2>3, <2>4
  <1>4. CASE PoolForRead(r)
    <2> PICK pool \in PoolAnswers :
          read' = [read EXCEPT ![r] =
            [@ EXCEPT !.pc = "done", !.answer = AnswerOf(read[r].name, read[r].seen, pool),
                      !.heard = read[r].heard /\ pool = PendingNames]]
      BY <1>4 DEF PoolForRead
    <2> DEFINE answer == AnswerOf(read[r].name, read[r].seen, pool)
               c == [read[r] EXCEPT !.pc = "done", !.answer = answer,
                                    !.heard = read[r].heard /\ pool = PendingNames]
    <2>1. answer \in Answers
      BY DEF AnswerOf, Answers
    <2>2. read' = [read EXCEPT ![r] = c] /\ UNCHANGED nodeVars
      BY <1>4 DEF PoolForRead
    <2> HIDE DEF answer
    <2>3. c \in ReadCall /\ c.pc = "done"
      BY <1>1, <2>1 DEF ReadCall
    <2> HIDE DEF c
    <2>4. ReaderOK(c)
      BY <2>3 DEF ReaderOK
    <2> QED BY <1>2, <2>2, <2>3, <2>4
  <1>5. CASE TurnReadAway(r)
    <2> DEFINE c == [read[r] EXCEPT !.pc = "turnedAway"]
    <2>1. c \in ReadCall /\ c.pc = "turnedAway"
      BY <1>1 DEF ReadCall
    <2>2. read' = [read EXCEPT ![r] = c] /\ UNCHANGED nodeVars
      BY <1>5 DEF TurnReadAway
    <2> HIDE DEF c
    <2>3. ReaderOK(c)
      BY <2>1 DEF ReaderOK
    <2> QED BY <1>2, <2>1, <2>2, <2>3
  <1> QED BY <1>3, <1>4, <1>5 DEF ReadStep

\* Every behaviour starts in the invariant.
LEMMA Starts == Init => GatewayInv
  <1> SUFFICES ASSUME Init
               PROVE  GatewayInv
    OBVIOUS
  <1>1. PICK n0 \in Names :
          move = [m \in Movers |->
            [pc |-> "idle", names |-> {}, todo |-> {}, name |-> n0, seen |-> Free,
             copied |-> [n \in Names |-> Origin], charged |-> FALSE,
             before |-> [n \in Names |-> Free], known |-> {}]]
    BY DEF Init, MoveInit
  <1>2. /\ Free \in Registration /\ Lapsed \in Registration /\ Held \in Registration
        /\ HandedOver \in Registration /\ Origin \in Values
    BY DEF Free, Lapsed, Held, HandedOver, Registration, Holders, Values
  <1>3. /\ NodeTypeOK /\ mempool = {} /\ accepted = {} /\ \A n \in Names : chain[n].value = Origin
    <2>1. /\ chain \in [Names -> {Free, Lapsed, Held, HandedOver}]
          /\ mempool = {} /\ accepted = {} /\ blocks = 0
      BY DEF Init, NodeInit
    <2>2. ASSUME NEW n \in Names
          PROVE  chain[n] \in Registration /\ chain[n].value = Origin
      <3>1. chain[n] \in {Free, Lapsed, Held, HandedOver}
        BY <2>1
      <3>2. chain[n] \in Registration
        BY <3>1, <1>2
      <3> QED BY <3>1, <3>2 DEF Free, Lapsed, Held, HandedOver
    <2>3. chain \in [Names -> Registration]
      BY <2>1, <2>2
    <2> QED BY <2>1, <2>2, <2>3 DEF NodeTypeOK
  <1>4. write \in [Writers -> WriteCall] /\ \A w \in Writers : write[w] = NoWrite
    BY DEF Init, WriteInit, NoWrite, WriteCall, WriteStages
  <1>5. read \in [Readers -> ReadCall] /\ \A r \in Readers : read[r].pc = "idle"
    <2> DEFINE idle(n) == [pc |-> "idle", name |-> n, seen |-> Free, answer |-> "none",
                           known |-> {}, since |-> 0, heard |-> TRUE]
    <2>1. read \in [Readers -> {idle(n) : n \in Names}]
      BY DEF Init, ReadInit
    <2>2. \A n \in Names : idle(n) \in ReadCall /\ idle(n).pc = "idle"
      BY <1>2 DEF ReadCall, Answers
    <2> HIDE DEF idle
    <2>3. \A r \in Readers : \E n \in Names : read[r] = idle(n)
      BY <2>1
    <2> QED BY <2>1, <2>2, <2>3
  <1>6. ASSUME NEW m \in Movers
        PROVE  /\ move[m] \in MoveCall /\ move[m].pc = "idle" /\ move[m].todo = {}
               /\ move[m].known = {} /\ \A n \in Names : move[m].copied[n] = Origin
    <2>1. [n \in Names |-> Origin] \in [Names -> Values]
      BY <1>2
    <2>2. [n \in Names |-> Free] \in [Names -> Registration]
      BY <1>2
    <2> QED BY <1>1, <1>2, <2>1, <2>2 DEF MoveCall, MoveStages
  <1>7. move \in [Movers -> MoveCall]
    BY <1>1, <1>6
  <1>8. TypeOK
    BY <1>3, <1>4, <1>5, <1>7 DEF TypeOK, WriteTypeOK, MoveTypeOK, ReadTypeOK
  <1>9. Waiting /\ Survives
    BY <1>3 DEF Waiting, Survives, AcknowledgedWriteSurvives
  <1>10. NoValueStrays
    BY <1>3 DEF NoValueStrays, WrittenFor
  <1>11. AllWriters
    BY <1>3, <1>4 DEF AllWriters, WriterOK, NoWrite, Unheld, Unmisled
  <1>12. AllMovers
    BY <1>3, <1>6 DEF AllMovers, MoverOK, Looked, Copied, WrittenFor
  <1>13. AllReaders
    BY <1>5 DEF AllReaders, ReaderOK
  <1> QED BY <1>8, <1>9, <1>10, <1>11, <1>12, <1>13 DEF GatewayInv

\* Every step keeps it.
LEMMA Keeps == GatewayInv /\ [Next]_vars => GatewayInv'
  <1> SUFFICES ASSUME GatewayInv, [Next]_vars
               PROVE  GatewayInv'
    OBVIOUS
  <1>1. CASE Writing
    BY <1>1, WritingKeeps DEF Writing
  <1>2. CASE Moving
    BY <1>2, MovingKeeps DEF Moving
  <1>3. CASE Reading
    BY <1>3, ReadingKeeps DEF Reading
  <1>4. CASE Mining
    BY <1>4, BlockKeeps, LapseKeeps DEF Mining, NodeStep
  <1>5. CASE UNCHANGED vars
    <2>1. ReadTypeOK' /\ AllReaders' /\ UNCHANGED <<nodeVars, write, move>>
      BY <1>5 DEF GatewayInv, TypeOK, ReadTypeOK, AllReaders, ReaderOK, vars, nodeVars
    <2> QED BY <2>1, ReaderMoves
  <1> QED BY <1>1, <1>2, <1>3, <1>4, <1>5 DEF Next

-----------------------------------------------------------------------------
(* What holds of every behaviour.                                          *)

\* The inductive invariant.
THEOREM Invariance == Spec => []GatewayInv
  <1> QED BY Starts, Keeps, PTL DEF Spec

\* The variables have their types.
THEOREM GatewayTypes == Spec => []TypeOK
  <1>1. GatewayInv => TypeOK
    BY DEF GatewayInv
  <1> QED BY <1>1, Invariance, PTL

\* Values stay with the name they were written for, whatever fails or lapses.
THEOREM NoValueStraysAlways == Spec => []NoValueStrays
  <1>1. GatewayInv => NoValueStrays
    BY DEF GatewayInv
  <1> QED BY <1>1, Invariance, PTL

\* While the lookups are answered, no transfer rolls back a write accepted before it
\* began, even if terms end in between.
THEOREM AcknowledgedWriteSurvivesAlways ==
  ASSUME ~MayFail
  PROVE  Spec => []AcknowledgedWriteSurvives
  <1>1. GatewayInv => AcknowledgedWriteSurvives
    BY DEF GatewayInv, Survives
  <1> QED BY <1>1, Invariance, PTL

\* While the lookups are answered and no term ends, a charged write that the node
\* refuses as not ours met a handover newer than itself.
THEOREM HandoverRefusedFreeAlways ==
  ASSUME ~MayFail, ~MayLapse
  PROVE  Spec => []HandoverRefusedFree
  <1>1. GatewayInv => HandoverRefusedFree
    BY DEF GatewayInv, AllWriters, WriterOK, Unheld, HandoverRefusedFree
  <1> QED BY <1>1, Invariance, PTL

\* Under the same conditions, no batch registers a name that a write accepted before
\* its admission has registered, however blocks fall between its lookups.
THEOREM BlockNeverMisleadsBatchAlways ==
  ASSUME ~MayFail, ~MayLapse
  PROVE  Spec => []BlockNeverMisleadsBatch
  <1>1. GatewayInv => BlockNeverMisleadsBatch
    <2> SUFFICES ASSUME GatewayInv, NEW w \in Writers, WriteAt(w, "sending"), write[w].batch,
                        NEW n \in Misled(w)
                 PROVE  FALSE
      BY DEF BlockNeverMisleadsBatch
    <2>1. WriterOK(w, write[w]) /\ write[w].pc = "sending" /\ write[w].todo = {}
      BY DEF GatewayInv, AllWriters, WriterOK, WriteAt
    <2>2. /\ n \in write[w].names \ write[w].active
          /\ chain[n].live /\ chain[n].value \in write[w].known
      BY DEF Misled
    <2>3. Fresh(n, write[w].known)
      BY <2>1, <2>2 DEF WriterOK, Unmisled
    <2> QED BY <2>2, <2>3 DEF Fresh
  <1> QED BY <1>1, Invariance, PTL

\* A transfer is refused while it copies or when it is sent, and at no other step.
LEMMA RefusedWhere ==
  ASSUME GatewayInv, [Next]_vars, NEW m \in Movers,
         move[m].pc # "refused", move'[m].pc = "refused"
  PROVE  move[m].pc \in {"copying", "sending"}
  <1>1. move \in [Movers -> MoveCall]
    BY DEF GatewayInv, TypeOK, MoveTypeOK
  <1>2. CASE Moving
    <2> PICK k \in Movers : MoveStep(k)
      BY <1>2 DEF Moving
    <2>1. CASE k # m
      <3>1. move'[m] = move[m]
        BY <1>1, <2>1 DEF MoveStep, StartMove, ShowForMove, PoolForMove, TurnMoveAway,
          RefuseMoveOverLimit, AdmitMove, CopyValue, SendMove, AddressLookupFails, SendMoveFails
      <3> QED BY <3>1
    <2>2. CASE k = m
      <3>1. CASE StartMove(m)
        BY <3>1, <1>1 DEF StartMove, MoveCall
      <3>2. CASE \E n \in Names : ShowForMove(m, n)
        BY <3>2, <1>1 DEF ShowForMove, MoveCall
      <3>3. CASE PoolForMove(m)
        BY <3>3, <1>1 DEF PoolForMove, MoveCall
      <3>4. CASE TurnMoveAway(m) \/ RefuseMoveOverLimit(m) \/ AddressLookupFails(m) \/ SendMoveFails(m)
        BY <3>4, <1>1 DEF TurnMoveAway, RefuseMoveOverLimit, AddressLookupFails, SendMoveFails,
          MoveCall
      <3>5. CASE AdmitMove(m)
        BY <3>5, <1>1 DEF AdmitMove, MoveCall
      <3>6. CASE \E n \in Names : CopyValue(m, n)
        BY <3>6 DEF CopyValue, MoveAt
      <3>7. CASE SendMove(m)
        BY <3>7 DEF SendMove, MoveAt
      <3> QED BY <2>2, <3>1, <3>2, <3>3, <3>4, <3>5, <3>6, <3>7 DEF MoveStep
    <2> QED BY <2>1, <2>2
  <1>3. CASE ~Moving
    BY <1>3 DEF Next, Writing, Reading, Mining, vars
  <1> QED BY <1>2, <1>3

\* What stands in the way of a transfer that has copied, or is about to, is newer
\* than the transfer.
LEMMA ObstaclesAreNews ==
  ASSUME GatewayInv, ~MayFail, ~MayLapse, NEW m \in Movers,
         move[m].pc \in {"copying", "sending"}, NEW n \in Obstacles(m)
  PROVE  IsNews(m, n)
  <1>1. /\ MoverOK(m, move[m]) /\ Looked(move[m]) = move[m].names
        /\ move[m].todo \subseteq move[m].names /\ move[m].names \in SUBSET Names
    BY MoveTypes DEF GatewayInv, AllMovers, TypeOK, MoverOK, Looked
  <1>2. \A k \in move[m].names : chain[k].live /\ ~Touched(k, move[m].known)
    BY <1>1 DEF MoverOK
  <1>3. CASE MoveAt(m, "copying")
    BY <1>1, <1>2, <1>3 DEF Obstacles
  <1>4. CASE ~MoveAt(m, "copying")
    <2>1. PICK op \in MoveOps(m) : RefusalsOf(op) \cap {"pending", "inactive"} # {} /\ op.name = n
      BY <1>4 DEF Obstacles
    <2>2. n \in move[m].names /\ op.verb = "UPDATE"
      BY <2>1 DEF MoveOps
    <2>3. n \in PendingNames
      BY <1>2, <2>1, <2>2 DEF RefusalsOf
    <2> QED BY <1>2, <2>2, <2>3, PendingIsTouched DEF Touched, IsNews
  <1> QED BY <1>3, <1>4

\* Under the same conditions, a charged transfer is refused over a waiting write or a
\* lapsed name only if that is newer than the call.
THEOREM ChargedForNewsOnlyAlways ==
  ASSUME ~MayFail, ~MayLapse
  PROVE  Spec => ChargedForNewsOnly
  <1> DEFINE Charge ==
        \A m \in Movers :
          move[m].charged /\ move[m].pc # "refused" /\ move'[m].pc = "refused" =>
            \A n \in Obstacles(m) : IsNews(m, n)
  <1>1. GatewayInv /\ [Next]_vars => [Charge]_<<nodeVars, move>>
    BY RefusedWhere, ObstaclesAreNews
  <1> QED BY <1>1, Invariance, PTL DEF Spec, ChargedForNewsOnly

\* A read that the node answered, with no block while it ran, says what is there, and
\* misses no write sent before it began.
THEOREM ReadExactBetweenBlocksAlways == Spec => ReadExactBetweenBlocks
  <1> DEFINE Exact ==
        \A r \in Readers :
          read[r].pc = "pooling" /\ read'[r].pc = "done" /\ read'[r].heard
            /\ blocks = read[r].since =>
            /\ read'[r].answer = "absent" => ~Found(chain[read[r].name])
            /\ read'[r].answer \in {"confirmed", "updating"} =>
                 read[r].seen.value = chain[read[r].name].value
            /\ read'[r].answer \in {"absent", "confirmed"} => ~WrittenBefore(r)
  <1>1. ASSUME GatewayInv, Next, NEW r \in Readers, read[r].pc = "pooling",
               read'[r].pc = "done", read'[r].heard, blocks = read[r].since
        PROVE  /\ read'[r].answer = "absent" => ~Found(chain[read[r].name])
               /\ read'[r].answer \in {"confirmed", "updating"} =>
                    read[r].seen.value = chain[read[r].name].value
               /\ read'[r].answer \in {"absent", "confirmed"} => ~WrittenBefore(r)
    <2>1. read \in [Readers -> ReadCall] /\ ReaderOK(read[r])
      BY <1>1 DEF GatewayInv, TypeOK, ReadTypeOK, AllReaders
    <2>2. PICK k \in Readers : ReadStep(k)
      BY <1>1 DEF Next, Writing, Moving, Reading, Mining
    <2>3. k = r /\ PoolForRead(r)
      BY <2>1, <2>2, <1>1 DEF ReadStep, ShowForRead, PoolForRead, TurnReadAway, ReadCall
    <2>4. PICK pool \in PoolAnswers :
            read' = [read EXCEPT ![r] =
              [@ EXCEPT !.pc = "done", !.answer = AnswerOf(read[r].name, read[r].seen, pool),
                        !.heard = read[r].heard /\ pool = PendingNames]]
      BY <2>3 DEF PoolForRead
    <2>5. /\ read'[r].answer = AnswerOf(read[r].name, read[r].seen, pool)
          /\ read[r].heard /\ pool = PendingNames
      BY <2>1, <2>4, <1>1 DEF ReadCall
    <2>6. /\ read[r].seen.value = chain[read[r].name].value
          /\ read[r].seen.holder = chain[read[r].name].holder
      BY <2>1, <2>5, <1>1 DEF ReaderOK
    <2>7. read'[r].answer \in {"absent", "confirmed"} => read[r].name \notin PendingNames
      BY <2>5 DEF AnswerOf
    <2>8. read'[r].answer \in {"absent", "confirmed"} => ~WrittenBefore(r)
      BY <2>7, PendingIsTouched DEF WrittenBefore
    <2>9. read'[r].answer = "absent" => ~Found(chain[read[r].name])
      BY <2>5, <2>6 DEF AnswerOf, Found
    <2> QED BY <2>6, <2>8, <2>9
  <1>2. GatewayInv /\ [Next]_vars => [Exact]_<<nodeVars, read>>
    BY <1>1 DEF vars
  <1> QED BY <1>2, Invariance, PTL DEF Spec, ReadExactBetweenBlocks
=============================================================================
