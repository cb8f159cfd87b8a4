------------------------------ MODULE Watcher -------------------------------
(***************************************************************************)
(* The hourly check for the operator: main() of src/deploy/watch-users.py, *)
(* over the counters of src/edge/app/stats.py and the inbox.               *)
(*                                                                         *)
(* A run asks the node, Redis and X one question after the other, compares *)
(* the answers with the state file, sends what is new, one message at a    *)
(* time, and then writes the file.  It ends early, and leaves the file as  *)
(* it is, at the first message that does not get through.                  *)
(***************************************************************************)
EXTENDS Feedback, Sequences, SequencesExt

CONSTANTS
  Accounts,   \* GitHub ids
  Known,      \* the operator's own: KNOWN_GITHUB_IDS
  Page,       \* how many posts X returns at most: max_results
  MaxEvents,  \* bound: how much happens besides the check
  MaxStops    \* bound: runs that are cut off

ASSUME WatcherAssumption ==
  /\ Known \subseteq Accounts /\ IsFiniteSet(Accounts)
  /\ Page \in Nat \ {0}
  /\ {MaxEvents, MaxStops} \subseteq Nat

VARIABLES
  writers,   \* accounts with records on the chain
  callers,   \* mcp:callers
  internal,  \* mcp:errors:internal
  posts,     \* how many posts on X concern the gateway
  file,      \* the state file
  run,       \* the check that is running
  told,      \* history: what the operator has been told, or started out with
  digests,   \* history: the count of messages in the digest of each day
  checked,   \* history: days on which a check was completed
  stops      \* history: runs that were cut off

worldVars == <<writers, callers, internal, posts>>
historyVars == <<told, digests, checked>>
vars == <<day, feedbackVars, worldVars, file, run, historyVars, stops>>

None == -1

\* The file after a write that was cut off.
Broken == [state |-> "broken"]
Missing == [state |-> "missing"]
Blank == [state |-> "saved", writers |-> {}, signedIn |-> 0,
          x |-> None, internal |-> None, digestDay |-> None]

Idle == [at |-> "idle", ask |-> {}, new |-> Blank, out |-> <<>>]

Outside == Accounts \ Known

Init ==
  /\ day = 0 /\ FeedbackInit
  /\ writers = {} /\ callers = {} /\ internal = 0 /\ posts = 0
  /\ file = Missing
  /\ run = Idle
  /\ told = [writers |-> {}, signedIn |-> 0, internal |-> None, x |-> None]
  /\ digests = [d \in Days |-> None]
  /\ checked = {}
  /\ stops = 0

-----------------------------------------------------------------------------
(* What the gateway does meanwhile.                                        *)

NextDay ==
  /\ day < MaxDay
  /\ day' = day + 1
  /\ UNCHANGED <<feedbackVars, worldVars>>

RecordCall(a) ==
  /\ callers' = callers \cup {a}
  /\ UNCHANGED <<day, feedbackVars, writers, internal, posts>>

RecordError ==
  /\ internal' = internal + 1
  /\ UNCHANGED <<day, feedbackVars, writers, callers, posts>>

\* A record of account a is confirmed.
RecordMined(a) ==
  /\ writers' = writers \cup {a}
  /\ UNCHANGED <<day, feedbackVars, callers, internal, posts>>

Posted ==
  /\ posts' = posts + 1
  /\ UNCHANGED <<day, feedbackVars, writers, callers, internal>>

\* Only so much happens in one behaviour: two of what each run of the check looks
\* at, or three messages, or two and a lost reply, or one and one.
News == Cardinality(writers) + Cardinality(callers) + internal + posts
Sent == Cardinality({m \in Messages : msg[m].at # "unsent"})
Room(n) == 3 * News + 2 * (Sent + unheard) + n <= MaxEvents

World ==
  /\ \/ NextDay
     \/ /\ Room(3)
        /\ \/ RecordError \/ Posted
           \/ \E a \in Accounts : RecordCall(a) \/ RecordMined(a)
     \/ Room(2) /\ SubmitStep /\ UNCHANGED <<day, worldVars>>
     \/ FeedbackStep /\ (unheard' = unheard \/ Room(2)) /\ UNCHANGED <<day, worldVars>>
  /\ UNCHANGED <<file, run, historyVars, stops>>

-----------------------------------------------------------------------------
(* A run of the check.                                                     *)

\* Fault: the operator's own ids are not left out of the writers.
AskAll ==
  /\ run.at = "idle"
  /\ run' = [run EXCEPT !.at = "asked", !.ask = Known,
                        !.new.writers = writers, !.new.signedIn = Cardinality(callers)]
  /\ UNCHANGED <<file, historyVars>>

\* The writers, and SCARD.
Ask ==
  /\ run.at = "idle"
  /\ run' = [run EXCEPT !.at = "asked", !.ask = Known,
                        !.new.writers = writers \ Known, !.new.signedIn = Cardinality(callers)]
  /\ UNCHANGED <<file, historyVars>>

\* Fault: ids are numbers in the set and text in the configuration, so none is found.
LeaveOutNobody ==
  /\ run.at = "asked"
  /\ \E k \in run.ask : run' = [run EXCEPT !.ask = @ \ {k}]
  /\ UNCHANGED <<file, historyVars>>

\* SISMEMBER, for each of the operator's own ids.
LeaveOutKnown ==
  /\ run.at = "asked"
  /\ \E k \in run.ask :
       run' = [run EXCEPT !.ask = @ \ {k}, !.new.signedIn = IF k \in callers THEN @ - 1 ELSE @]
  /\ UNCHANGED <<file, historyVars>>

\* The first run takes the baseline, and says nothing.
Baseline ==
  /\ run.at = "asked" /\ run.ask = {}
  /\ file = Missing
  /\ run' = [run EXCEPT !.at = "sending"]
  /\ told' = [told EXCEPT !.writers = run.new.writers, !.signedIn = run.new.signedIn]
  /\ UNCHANGED <<file, digests, checked>>

\* What was left of the file cannot be read.
LoadFails ==
  /\ run.at = "asked" /\ run.ask = {}
  /\ file = Broken
  /\ run' = Idle
  /\ UNCHANGED <<file, historyVars>>

Kinds == {"writer", "signedIn", "internal", "digest", "x"}

Tell(kind, of, count) == <<[kind |-> kind, of |-> of, count |-> count]>>

WriterNews ==
  LET new == SetToSeq(run.new.writers \ file.writers)
  IN [i \in 1..Len(new) |-> [kind |-> "writer", of |-> new[i], count |-> 0]]

SignInNews ==
  IF run.new.signedIn > file.signedIn THEN Tell("signedIn", run.new.signedIn, 0) ELSE <<>>

InternalNews ==
  IF file.internal # None /\ internal > file.internal THEN Tell("internal", internal, 0) ELSE <<>>

\* The file is read, and the clock, and the internal errors.
Compare ==
  /\ run.at = "asked" /\ run.ask = {}
  /\ file.state = "saved"
  /\ run' = [run EXCEPT !.at = "compared", !.new.digestDay = day, !.new.internal = internal,
                        !.out = WriterNews \o SignInNews \o InternalNews]
  /\ UNCHANGED <<file, historyVars>>

\* Fault: the digest is of the day before, whether there was a check on it or not.
DigestYesterday ==
  IF file.digestDay \in {None, run.new.digestDay} THEN <<>>
  ELSE Tell("digest", run.new.digestDay - 1, daily[run.new.digestDay - 1])

\* Fault: the digest is of the day that has just begun.
DigestToday ==
  IF file.digestDay \in {None, run.new.digestDay} THEN <<>>
  ELSE Tell("digest", run.new.digestDay, daily[run.new.digestDay])

\* The digest of the day the last completed check was on.
Digest ==
  IF file.digestDay \in {None, run.new.digestDay} THEN <<>>
  ELSE Tell("digest", file.digestDay, daily[file.digestDay])

\* One page of the posts since the last that was seen, the newest first.  The rest
\* is never told: the next run asks for what is newer than the newest.
Shown == IF posts - file.x < Page THEN posts - file.x ELSE Page

Mentions == IF file.x = None \/ posts = file.x THEN <<>> ELSE Tell("x", posts, Shown)

\* Fault: the file is written before the messages are sent.
ReadCountersSaving ==
  /\ run.at = "compared"
  /\ run' \in {[run EXCEPT !.at = "sending", !.new.x = file.x, !.out = @ \o Digest],
               [run EXCEPT !.at = "sending", !.new.x = posts, !.out = @ \o Digest \o Mentions]}
  /\ file' = run'.new
  /\ UNCHANGED historyVars

\* The day's counters, and X, unless X does not answer: then its part is left to
\* the next run.
ReadCounters ==
  /\ run.at = "compared"
  /\ run' \in {[run EXCEPT !.at = "sending", !.new.x = file.x, !.out = @ \o Digest],
               [run EXCEPT !.at = "sending", !.new.x = posts, !.out = @ \o Digest \o Mentions]}
  /\ UNCHANGED <<file, historyVars>>

\* What the operator knows when message m has come.
Heard(m) ==
  /\ told' = CASE m.kind = "writer" -> [told EXCEPT !.writers = @ \cup {m.of}]
               [] m.kind = "digest" -> told
               [] OTHER -> [told EXCEPT ![m.kind] = IF m.of > @ THEN m.of ELSE @]
  /\ digests' = IF m.kind = "digest" THEN [digests EXCEPT ![m.of] = m.count] ELSE digests

Sends(kind) ==
  /\ run.at = "sending" /\ run.out # <<>> /\ Head(run.out).kind = kind
  /\ Heard(Head(run.out))
  /\ run' = [run EXCEPT !.out = Tail(@)]
  /\ UNCHANGED <<file, checked>>

Send == \E kind \in Kinds : Sends(kind)

\* Fault: a message that does not get through is skipped.
SendFailsSkipping ==
  /\ run.at = "sending" /\ run.out # <<>>
  /\ run' = [run EXCEPT !.out = Tail(@)]
  /\ UNCHANGED <<file, historyVars>>

\* The message does not get through, or only Telegram's answer does not: the run
\* is over.
SendFails ==
  /\ run.at = "sending" /\ run.out # <<>>
  /\ Heard(Head(run.out)) \/ UNCHANGED <<told, digests>>
  /\ run' = Idle
  /\ UNCHANGED <<file, checked>>

\* Everything is sent.  A part that was missing from the file starts quietly,
\* with what it holds now.
SaveState ==
  /\ run.at = "sending" /\ run.out = <<>>
  /\ file' = run.new
  /\ told' = [told EXCEPT !.internal = IF @ = None THEN run.new.internal ELSE @,
                          !.x = IF @ = None THEN run.new.x ELSE @]
  /\ checked' = IF run.new.digestDay = None THEN checked ELSE checked \cup {run.new.digestDay}
  /\ run' = Idle
  /\ UNCHANGED digests

\* The host goes down, or a command the run waits for fails.  write_text empties
\* the file before it writes it.
Stopped ==
  /\ run.at # "idle" /\ stops < MaxStops
  /\ stops' = stops + 1
  /\ run' = Idle
  /\ \/ UNCHANGED file
     \/ run.at = "sending" /\ run.out = <<>> /\ file' = Broken
  /\ UNCHANGED <<day, feedbackVars, worldVars, historyVars>>

Check ==
  /\ \/ Ask \/ LeaveOutKnown \/ Baseline \/ LoadFails \/ Compare \/ ReadCounters \/ SaveState
     \/ Send \/ SendFails
  /\ UNCHANGED <<day, feedbackVars, worldVars, stops>>

Next == World \/ Check \/ Stopped

Spec == Init /\ [][Next]_vars

\* The timer starts a run again and again, and a message about a writer that is
\* sent again and again gets through in the end.
Fairness ==
  /\ WF_vars(Check)
  /\ SF_vars(Sends("writer") /\ UNCHANGED <<day, feedbackVars, worldVars, stops>>)

FairSpec == Spec /\ Fairness

-----------------------------------------------------------------------------
TypeOK ==
  /\ day \in Days
  /\ run.at \in {"idle", "asked", "compared", "sending"}
  /\ run.ask \subseteq Known
  /\ run.new.writers \subseteq Outside
  /\ run.new.signedIn \in (-Cardinality(Known))..Cardinality(Accounts)
  /\ run.new.internal \in None..MaxEvents /\ run.new.x \in None..MaxEvents
  /\ run.new.digestDay \in Days \cup {None}
  /\ file.state \in {"missing", "broken", "saved"}
  /\ stops \in 0..MaxStops

\* What the state file has as seen, the operator was told, or had from the start:
\* nothing is lost by a message that does not get through or a run cut off.  (Of
\* the posts on X, what is seen is the newest.)
SavedMeansTold ==
  file.state = "saved" =>
    /\ file.writers \subseteq told.writers
    /\ file.signedIn <= told.signedIn
    /\ file.internal <= told.internal
    /\ file.x <= told.x

\* Every day on which a check was completed gets its digest, before a check of a
\* later day is completed.
CheckedDaysReported ==
  file.state = "saved" =>
    \A d \in checked : d < file.digestDay => digests[d] # None

\* A digest misses only messages that were still on their way when their day was
\* over.
DigestComplete ==
  \A d \in Days :
    digests[d] # None => digests[d] >= Cardinality({m \in KeptOf(d) : msg[m].kept = d})

\* The operator's own sign-ins are never counted as somebody else's, whenever
\* they happen: the number told is never above the number there is.
OutsideOnly ==
  told.signedIn <= Cardinality(callers \ Known)

\* An account that starts writing is reported in the end, unless the state file
\* was left broken.
WritersReported ==
  \A a \in Outside : (a \in writers) ~> (a \in told.writers \/ file = Broken)
=============================================================================
