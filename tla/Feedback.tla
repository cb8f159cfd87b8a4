------------------------------ MODULE Feedback ------------------------------
(***************************************************************************)
(* The inbox for agents: Inbox.submit in src/edge/app/feedback.py, as two  *)
(* transactions of Redis.  The first counts a message, whatever becomes of *)
(* it; the second keeps it.  A message belongs to the day its call began.  *)
(*                                                                         *)
(* The Redis client sends a transaction again when its reply is lost       *)
(* (requirements.txt: redis>=5.0, of which 6 and later do so by default):  *)
(* the counters then go up twice, while the inbox holds a message once.    *)
(***************************************************************************)
EXTENDS Integers, FiniteSets, Sequences

CONSTANTS
  From,       \* the senders of the messages, numbered as they arrive
  PerSender,  \* PER_SENDER_PER_DAY
  AllPerDay,  \* ALL_PER_DAY
  KeepDays,   \* how many days a message stays in the inbox
  MaxDay      \* bound: the last day

Days == 0..MaxDay
Messages == DOMAIN From
Senders == {From[m] : m \in Messages}

ASSUME FeedbackAssumption ==
  /\ From \in Seq(Senders)
  /\ {PerSender, AllPerDay, MaxDay} \subseteq Nat
  /\ KeepDays \in Nat \ {0}

VARIABLES
  day,       \* the UTC day
  msg,       \* each message: where its call stands, its sender, its day, and
             \* the day on which it was kept (history)
  mine,      \* messages counted per sender and day
  everyone,  \* messages counted per day
  inbox,     \* feedback:inbox
  daily,     \* feedback:daily, messages kept per day
  unheard,   \* history: how many replies of Redis were lost
  again      \* history: how often a message of a day was put into the inbox again

feedbackVars == <<msg, mine, everyone, inbox, daily, unheard, again>>

FeedbackInit ==
  /\ msg = [m \in Messages |-> [at |-> "unsent"]]
  /\ mine = [key \in Senders \X Days |-> 0]
  /\ everyone = [d \in Days |-> 0]
  /\ inbox = {}
  /\ daily = [d \in Days |-> 0]
  /\ unheard = 0
  /\ again = [d \in Days |-> 0]

\* The next to arrive.
Arrives(m) == msg[m].at = "unsent" /\ \A n \in 1..(m - 1) : msg[n].at # "unsent"

\* Refused, or lost on the way: the inbox never holds it.
Dropped == [at |-> "dropped"]

\* The call begins, and takes its day.
Submit(m) ==
  /\ Arrives(m)
  /\ msg' = [msg EXCEPT ![m] = [at |-> "counting", day |-> day]]
  /\ UNCHANGED <<mine, everyone, inbox, daily, unheard, again>>

\* Fault: what was kept is counted first, and the counters go up afterwards.
CountKept(m) ==
  /\ msg[m].at = "counting"
  /\ LET ofDay == {n \in inbox : msg[n].day = msg[m].day}
         full == \/ Cardinality(ofDay) >= AllPerDay
                 \/ Cardinality({n \in ofDay : From[n] = From[m]}) >= PerSender
     IN msg' = [msg EXCEPT ![m] = IF full THEN Dropped ELSE [@ EXCEPT !.at = "accepted"]]
  /\ UNCHANGED <<mine, everyone, inbox, daily, unheard, again>>

\* Both counters go up, and tell whether the message is one too many; or the
\* reply is lost, and they are about to go up once more.
Count(m) ==
  /\ msg[m].at = "counting"
  /\ mine' = [mine EXCEPT ![<<From[m], msg[m].day>>] = @ + 1]
  /\ everyone' = [everyone EXCEPT ![msg[m].day] = @ + 1]
  /\ \/ /\ LET full == mine'[<<From[m], msg[m].day>>] > PerSender \/ everyone'[msg[m].day] > AllPerDay
           IN msg' = [msg EXCEPT ![m] = IF full THEN Dropped ELSE [@ EXCEPT !.at = "accepted"]]
        /\ UNCHANGED unheard
     \/ unheard' = unheard + 1 /\ UNCHANGED msg
  /\ UNCHANGED <<inbox, daily, again>>

\* The message is put into the inbox, and counted on day d.  The inbox does not
\* hold it twice when the reply is lost and this is done again.
KeepFor(m, d) ==
  /\ msg[m].at \in {"accepted", "keeping"}
  /\ inbox' = {n \in inbox \cup {m} : msg[n].day > msg[m].day - KeepDays}
  /\ daily' = [daily EXCEPT ![d] = @ + 1]
  /\ again' = IF msg[m].at = "keeping" THEN [again EXCEPT ![msg[m].day] = @ + 1] ELSE again
  /\ \E stage \in {"keeping", "kept"} :
       /\ unheard' = IF stage = "keeping" THEN unheard + 1 ELSE unheard
       /\ msg' = [msg EXCEPT ![m] = [at |-> stage, day |-> @.day,
                                     kept |-> IF @.at = "keeping" THEN @.kept ELSE day]]
  /\ UNCHANGED <<mine, everyone>>

\* Fault: the day is looked up again when the message is kept.
KeepToday(m) == KeepFor(m, day)

Keep(m) == KeepFor(m, msg[m].day)

\* Redis does not answer, however often it is asked, the call is cancelled, or
\* the edge stops: the message is in the inbox, or it is not.
Lost(m) ==
  /\ \/ msg[m].at \in {"counting", "accepted"} /\ msg' = [msg EXCEPT ![m] = Dropped]
     \/ msg[m].at = "keeping" /\ msg' = [msg EXCEPT ![m].at = "kept"]
  /\ UNCHANGED <<mine, everyone, inbox, daily, unheard, again>>

SubmitStep == \E m \in Messages : Submit(m)

FeedbackStep == \E m \in Messages : Count(m) \/ Keep(m) \/ Lost(m)

-----------------------------------------------------------------------------
\* The messages of day d that were kept.
KeptOf(d) == {m \in Messages : msg[m].at \in {"keeping", "kept"} /\ msg[m].day = d}

\* However calls overlap, a day keeps at most PerSender messages of a sender and
\* AllPerDay in all.
DailyLimits ==
  \A d \in Days :
    /\ Cardinality(KeptOf(d)) <= AllPerDay
    /\ \A s \in Senders : Cardinality({m \in KeptOf(d) : From[m] = s}) <= PerSender

\* The count the digest gives for a day is the number of messages of that day the
\* operator then finds in the inbox, as long as they are kept, and one for every
\* time a message was put there again.
CountMatchesInbox ==
  \A d \in Days :
    day < d + KeepDays => daily[d] = Cardinality({m \in inbox : msg[m].day = d}) + again[d]
=============================================================================
