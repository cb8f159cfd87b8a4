---------------------------- MODULE AdapterSlots ----------------------------
(***************************************************************************)
(* The adapter's two sets of slots at one node: public reads, which are    *)
(* turned away when they wait too long, and the scans behind listings,     *)
(* which are not.                                                          *)
(***************************************************************************)
EXTENDS RecordList

CONSTANTS
  Reads,     \* how many public reads there are
  ReadSlots  \* how many of them run at once

ASSUME ReadAssumption == Reads \in Nat /\ ReadSlots \in Nat \ {0}

\* The reads, numbered as they arrive.
Readers == 1..Reads

VARIABLES
  readFree, readQueue, readAt, readWorking,
  patient    \* history: no request was given up on so far

readVars == <<readFree, readQueue, readAt, readWorking>>
vars == <<listVars, readVars, patient>>

Read == INSTANCE SlotPool WITH
  Calls <- Readers, Slots <- ReadSlots, Questions <- 2, Hurried <- TRUE,
  free <- readFree, queue <- readQueue, at <- readAt, working <- readWorking

Init == ListInit /\ Read!PoolInit /\ patient = TRUE

ReadArrives(r) ==
  /\ \A q \in 1..(r - 1) : readAt[q] # "idle"
  /\ Read!TakeSlot(r) \/ Read!Queue(r)
  /\ UNCHANGED <<listVars, patient>>

ReadServed(r) ==
  /\ Read!Served(r)
  /\ patient' = (patient /\ Read!Abandoned' = 0)
  /\ UNCHANGED listVars

Listing(l) ==
  /\ ListStep(l)
  /\ patient' = (patient /\ Scan!Abandoned' = 0)
  /\ UNCHANGED readVars

\* The node is done with something nobody waits for.
Finishing ==
  /\ \/ Read!NodeFinishes /\ UNCHANGED scanVars
     \/ Scan!NodeFinishes /\ UNCHANGED readVars
  /\ UNCHANGED <<clock, cache, list, patient>>

Ticking == Tick /\ UNCHANGED <<readVars, patient>>

Next ==
  \/ \E r \in Readers : ReadArrives(r) \/ ReadServed(r)
  \/ \E l \in Listers : Listing(l)
  \/ Finishing \/ Ticking

Spec == Init /\ [][Next]_vars

\* The event loop resumes every call whose await is over, and the client's
\* timeout ends every await of the node.  The node itself owes nothing.
Fairness ==
  /\ \A r \in Readers : WF_vars(ReadServed(r))
  /\ \A l \in Listers : WF_vars(Listing(l))

FairSpec == Spec /\ Fairness

-----------------------------------------------------------------------------
TypeOK ==
  /\ clock \in 0..MaxTime
  /\ cache \in [of : 0..MaxTime, until : 0..(MaxTime + CacheSeconds)]
  /\ list \in [Listers -> [at : {"idle", "scanning", "scanned", "told", "failed"},
                           when : 0..MaxTime, of : 0..MaxTime]]
  /\ Scan!PoolTypeOK /\ Read!PoolTypeOK
  /\ patient \in BOOLEAN

\* No slot is ever lost or made up, however a call ends: turned away in line,
\* turned away with a slot just set aside for it, answered, or given up on by
\* the client.  (A slot lost for good would starve every later call.)
SlotsConserved == Scan!Conserved /\ Read!Conserved

\* The node works on no more requests at a time than there are slots ("at most
\* READ_SLOTS run at once", "at most two scans run at once"), as long as none
\* took longer than the client waits.  A request that did is given up on, its
\* slot goes to the next call, and the node has one more to work on.
NodeSpared == patient => readWorking + scanWorking <= ReadSlots + ScanSlots

\* "Turned away rather than left hanging": every call to the adapter ends, even
\* if the node never answers again.
EveryCallEnds ==
  []<>(/\ \A r \in Readers : readAt[r] \in {"idle"} \cup Read!Ended
       /\ \A l \in Listers : scanAt[l] \in {"idle"} \cup Scan!Ended)
=============================================================================
