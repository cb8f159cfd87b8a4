----------------------------- MODULE RecordList -----------------------------
(***************************************************************************)
(* Listing the records under one GitHub id: RecordLister.list in           *)
(* src/edge/app/records.py over the adapter's filter_names.                *)
(*                                                                         *)
(* A listing is told from the cache, or from a scan of the node's name     *)
(* index that waits for one of the scan slots.  The edge gives up after    *)
(* Wait ticks; the adapter does not hear of it, and still scans.           *)
(*                                                                         *)
(* A listing is named by the moment of its scan: it shows the blocks mined *)
(* up to then.                                                             *)
(***************************************************************************)
EXTENDS Integers, Sequences, FiniteSets

CONSTANTS
  Lists,         \* how many calls list the records of the id
  ScanSlots,     \* scans the adapter lets run at once
  CacheSeconds,  \* how long a listing is kept
  Wait,          \* how long the edge waits for the adapter
  MaxTime        \* bound: the last tick of the clock

ASSUME ListAssumption ==
  /\ {ScanSlots, CacheSeconds} \subseteq Nat \ {0}
  /\ {Lists, Wait, MaxTime} \subseteq Nat

\* The calls, numbered as they arrive.
Listers == 1..Lists

VARIABLES
  clock,
  cache,    \* the listing in Redis, and until when it is kept
  list,     \* each call at the edge: since when it is where it is, and its listing
  scanFree, scanQueue, scanAt, scanWorking  \* the adapter's scan slots

scanVars == <<scanFree, scanQueue, scanAt, scanWorking>>
listVars == <<clock, cache, list, scanVars>>

Scan == INSTANCE SlotPool WITH
  Calls <- Listers, Slots <- ScanSlots, Questions <- 1, Hurried <- FALSE,
  free <- scanFree, queue <- scanQueue, at <- scanAt, working <- scanWorking

Nothing == [of |-> 0, until |-> 0]

ListInit ==
  /\ clock = 0
  /\ cache = Nothing
  /\ list = [l \in Listers |-> [at |-> "idle", when |-> 0, of |-> 0]]
  /\ Scan!PoolInit

\* Call l is the next to arrive.
Arrives(l) == list[l].at = "idle" /\ \A m \in 1..(l - 1) : list[m].at # "idle"

Open(l) == list[l].at \in {"scanning", "scanned"}

\* Time passes, but no call is kept waiting longer than the client's timeout.
Tick ==
  /\ clock < MaxTime
  /\ \A l \in Listers : Open(l) => clock < list[l].when + Wait
  /\ clock' = clock + 1
  /\ UNCHANGED <<cache, list, scanVars>>

-----------------------------------------------------------------------------
(* A call.                                                                 *)

FromCache(l) ==
  /\ Arrives(l) /\ clock < cache.until
  /\ list' = [list EXCEPT ![l] = [at |-> "told", when |-> clock, of |-> cache.of]]
  /\ UNCHANGED <<clock, cache, scanVars>>

\* Nothing in the cache: the adapter is asked for a scan.
AskForScan(l) ==
  /\ Arrives(l) /\ clock >= cache.until
  /\ list' = [list EXCEPT ![l] = [@ EXCEPT !.at = "scanning", !.when = clock]]
  /\ Scan!TakeSlot(l) \/ Scan!Queue(l)
  /\ UNCHANGED <<clock, cache>>

\* The adapter's side of the call.  What the edge no longer waits for is lost.
ScanStep(l) ==
  /\ Scan!Served(l)
  /\ list' = IF list[l].at # "scanning" THEN list
             ELSE CASE scanAt'[l] = "served" ->
                         [list EXCEPT ![l] = [@ EXCEPT !.at = "scanned", !.of = clock]]
                    [] scanAt'[l] = "failed" -> [list EXCEPT ![l].at = "failed"]
                    [] OTHER -> list
  /\ UNCHANGED <<clock, cache>>

\* Fault: the listing is kept without a term.
TellForGood(l) ==
  /\ list[l].at = "scanned"
  /\ cache' = [of |-> list[l].of, until |-> MaxTime + CacheSeconds]
  /\ list' = [list EXCEPT ![l] = [@ EXCEPT !.at = "told", !.when = clock]]
  /\ UNCHANGED <<clock, scanVars>>

\* The answer has reached the edge: it is kept, whatever the cache holds by now,
\* and told.
Tell(l) ==
  /\ list[l].at = "scanned"
  /\ cache' = [of |-> list[l].of, until |-> clock + CacheSeconds]
  /\ list' = [list EXCEPT ![l] = [@ EXCEPT !.at = "told", !.when = clock]]
  /\ UNCHANGED <<clock, scanVars>>

\* The client's timeout: 502, "adapter unreachable".
GiveUp(l) ==
  /\ Open(l) /\ clock = list[l].when + Wait
  /\ list' = [list EXCEPT ![l].at = "failed"]
  /\ UNCHANGED <<clock, cache, scanVars>>

ListStep(l) == FromCache(l) \/ AskForScan(l) \/ ScanStep(l) \/ Tell(l) \/ GiveUp(l)

-----------------------------------------------------------------------------
\* A listing that is told comes from a scan that is not older than the cache's
\* term and the client's patience together ("cached for about a minute").
ListingAge ==
  \A l \in Listers :
    list[l].at = "told" => list[l].when - list[l].of < CacheSeconds + Wait
=============================================================================
