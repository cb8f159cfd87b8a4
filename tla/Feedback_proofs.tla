-------------------------- MODULE Feedback_proofs --------------------------
(***************************************************************************)
(* Proofs about Feedback, for any messages and limits.                     *)
(*                                                                         *)
(* The counters go up before a message is kept, so they are never below    *)
(* the number of messages that may still be kept: Counted.  What is kept   *)
(* stays in the inbox for its days, and the day's count is of what is      *)
(* there, and of what was put there again: Filed.                          *)
(***************************************************************************)
EXTENDS Feedback, FiniteSetTheorems, SequenceTheorems, TLAPS

Mail ==
  [at : {"unsent", "dropped"}]
    \cup [at : {"counting", "accepted"}, day : Days]
    \cup [at : {"keeping", "kept"}, day : Days, kept : Days]

FeedbackTypes ==
  /\ day \in Days
  /\ msg \in [Messages -> Mail]
  /\ mine \in [Senders \X Days -> Nat]
  /\ everyone \in [Days -> Nat]
  /\ inbox \subseteq Messages
  /\ daily \in [Days -> Nat]
  /\ unheard \in Nat
  /\ again \in [Days -> Nat]

\* Where a call has a day, and where it has put its message into the inbox.
Dated == {"counting", "accepted", "keeping", "kept"}
Boxed == {"keeping", "kept"}

\* The messages of day d that were let in, and those of a sender among them.
LetIn(d) == {m \in Messages : msg[m].at \in {"accepted"} \cup Boxed /\ msg[m].day = d}
LetInFrom(s, d) == {m \in LetIn(d) : From[m] = s}

\* A counter is never below the messages let in, and these are within the limit.
Counted ==
  \A d \in Days :
    /\ Cardinality(LetIn(d)) <= everyone[d] /\ Cardinality(LetIn(d)) <= AllPerDay
    /\ \A s \in Senders : /\ Cardinality(LetInFrom(s, d)) <= mine[<<s, d>>]
                          /\ Cardinality(LetInFrom(s, d)) <= PerSender

\* Messages are of days that have come; the inbox has those that were kept, all of
\* them for KeepDays days.
Filed ==
  /\ \A m \in Messages : msg[m].at \in Dated => msg[m].day <= day
  /\ \A m \in Messages : msg[m].at \in Boxed => msg[m].kept <= day
  /\ \A m \in inbox : msg[m].at \in Boxed
  /\ \A m \in Messages : msg[m].at \in Boxed /\ day < msg[m].day + KeepDays => m \in inbox
  /\ \A d \in Days : daily[d] = Cardinality(KeptOf(d)) + again[d]

FeedbackInv == FeedbackTypes /\ Counted /\ Filed

-----------------------------------------------------------------------------
\* There are finitely many messages.
LEMMA FiniteMessages ==
  ASSUME NEW S \in SUBSET Messages
  PROVE  IsFiniteSet(S) /\ Cardinality(S) \in Nat
  <1>1. Messages = 1..Len(From) /\ Len(From) \in Nat
    BY FeedbackAssumption, LenProperties DEF Messages, FeedbackAssumption
  <1>2. IsFiniteSet(Messages)
    BY <1>1, FS_Interval
  <1>3. IsFiniteSet(S)
    BY <1>2, FS_Subset
  <1> QED BY <1>3, FS_CardinalityType

\* A set grows by one message.
LEMMA OneMore ==
  ASSUME NEW S \in SUBSET Messages, NEW m \in Messages, m \notin S
  PROVE  Cardinality(S \cup {m}) = Cardinality(S) + 1
  BY FiniteMessages, FS_AddElement

\* A subset has no more elements.
LEMMA NoMore ==
  ASSUME NEW S \in SUBSET Messages, NEW T \in SUBSET S
  PROVE  Cardinality(T) <= Cardinality(S)
  BY FiniteMessages, FS_Subset

\* What a message has, by where its call stands.
LEMMA MailTypes ==
  ASSUME FeedbackTypes, NEW m \in Messages
  PROVE  /\ msg[m].at \in {"unsent", "dropped"} \cup Dated
         /\ msg[m].at \in Dated => msg[m].day \in Days
         /\ msg[m].at \in Boxed => msg[m].kept \in Days
  BY DEF FeedbackTypes, Mail, Dated, Boxed

\* In the beginning.
LEMMA FeedbackBegins ==
  ASSUME FeedbackInit, day = 0
  PROVE  FeedbackInv
  <1> USE DEF FeedbackInit
  <1>1. \A m \in Messages : msg[m].at = "unsent"
    OBVIOUS
  <1>2. FeedbackTypes
    BY FeedbackAssumption DEF FeedbackAssumption, FeedbackTypes, Mail, Days
  <1>3. \A d : LetIn(d) = {} /\ KeptOf(d) = {} /\ \A s : LetInFrom(s, d) = {}
    BY <1>1 DEF LetIn, KeptOf, LetInFrom, Boxed
  <1>4. Counted
    <2>1. \A d \in Days : Cardinality(LetIn(d)) = 0 /\ \A s \in Senders : Cardinality(LetInFrom(s, d)) = 0
      BY <1>3, FS_EmptySet
    <2>2. /\ \A d \in Days : everyone[d] = 0
          /\ \A d \in Days, s \in Senders : mine[<<s, d>>] = 0
      OBVIOUS
    <2>3. AllPerDay \in Nat /\ PerSender \in Nat
      BY FeedbackAssumption DEF FeedbackAssumption
    <2> QED BY <2>1, <2>2, <2>3 DEF Counted
  <1>5. Filed
    <2>1. \A d \in Days : daily[d] = 0 /\ again[d] = 0 /\ Cardinality(KeptOf(d)) = 0
      BY <1>3, FS_EmptySet
    <2> QED BY <1>1, <2>1 DEF Filed, Dated, Boxed
  <1> QED BY <1>2, <1>4, <1>5 DEF FeedbackInv

\* The next day comes.
LEMMA DayKeeps ==
  ASSUME FeedbackInv, day' \in Days, day' \in {day, day + 1}, UNCHANGED feedbackVars
  PROVE  FeedbackInv'
  <1> USE DEF feedbackVars
  <1>1. FeedbackTypes'
    BY DEF FeedbackInv, FeedbackTypes
  <1>2. Counted'
    BY DEF FeedbackInv, Counted, LetIn, LetInFrom
  <1>3. Filed'
    <2>1. day \in Int /\ day <= day'
      BY DEF FeedbackInv, FeedbackTypes, Days
    <2>2. \A m \in Messages : msg[m].at \in Dated => msg[m].day \in Int
      BY MailTypes DEF FeedbackInv, Days
    <2>3. \A m \in Messages : msg[m].at \in Boxed => msg[m].kept \in Int
      BY MailTypes DEF FeedbackInv, Days
    <2>4. KeepDays \in Int
      BY FeedbackAssumption DEF FeedbackAssumption
    <2>5. \A m \in Messages : msg[m].at \in Dated => msg[m].day <= day'
      BY <2>1, <2>2 DEF FeedbackInv, Filed
    <2>6. \A m \in Messages : msg[m].at \in Boxed => msg[m].kept <= day'
      BY <2>1, <2>3 DEF FeedbackInv, Filed
    <2>7. \A m \in Messages : msg[m].at \in Boxed /\ day' < msg[m].day + KeepDays => m \in inbox
      BY <2>1, <2>2, <2>4 DEF FeedbackInv, Filed, Dated, Boxed
    <2> QED BY <2>5, <2>6, <2>7 DEF FeedbackInv, Filed, KeptOf
  <1> QED BY <1>1, <1>2, <1>3 DEF FeedbackInv

\* Submit: the call takes its day.
LEMMA SubmitKeeps ==
  ASSUME FeedbackInv, NEW m \in Messages, Submit(m), UNCHANGED day
  PROVE  FeedbackInv'
  <1>1. /\ msg' \in [Messages -> Mail] /\ day \in Days
        /\ msg[m].at = "unsent" /\ msg'[m].at = "counting" /\ msg'[m].day = day
        /\ \A n \in Messages : n # m => msg'[n] = msg[n]
    BY DEF FeedbackInv, FeedbackTypes, Mail, Submit, Arrives
  <1>2. UNCHANGED <<mine, everyone, inbox, daily, unheard, again, day>>
    BY DEF Submit
  <1>3. FeedbackTypes'
    BY <1>1, <1>2 DEF FeedbackInv, FeedbackTypes
  <1>4. \A d : /\ LetIn(d)' = LetIn(d) /\ KeptOf(d)' = KeptOf(d)
               /\ \A s : LetInFrom(s, d)' = LetInFrom(s, d)
    BY <1>1 DEF LetIn, LetInFrom, KeptOf, Boxed
  <1>5. Counted'
    BY <1>2, <1>4 DEF FeedbackInv, Counted
  <1>6. Filed'
    <2>1. day <= day
      BY <1>1 DEF Days
    <2>2. /\ \A n \in Messages : msg'[n].at \in Dated => msg'[n].day <= day
          /\ \A n \in Messages : msg'[n].at \in Boxed => msg'[n] = msg[n]
          /\ \A n \in inbox : msg'[n].at \in Boxed
      BY <1>1, <2>1 DEF FeedbackInv, FeedbackTypes, Filed, Dated, Boxed
    <2> QED BY <2>2, <1>2, <1>4 DEF FeedbackInv, Filed
  <1> QED BY <1>3, <1>5, <1>6 DEF FeedbackInv

\* Count: a message is let in only as long as the counters, which count it, are
\* within the limits.
LEMMA CountKeeps ==
  ASSUME FeedbackInv, NEW m \in Messages, Count(m), UNCHANGED day
  PROVE  FeedbackInv'
  <1> PICK d0 : d0 = msg[m].day
    OBVIOUS
  <1> DEFINE s == From[m]
             full == mine'[<<s, d0>>] > PerSender \/ everyone'[d0] > AllPerDay
  <1>1. /\ s \in Senders /\ d0 \in Days /\ msg[m].at = "counting"
        /\ PerSender \in Nat /\ AllPerDay \in Nat
    BY FeedbackAssumption, MailTypes
    DEF FeedbackAssumption, Senders, FeedbackInv, Count, Dated
  <1>2. /\ mine' \in [Senders \X Days -> Nat]
        /\ mine'[<<s, d0>>] = mine[<<s, d0>>] + 1 /\ mine[<<s, d0>>] \in Nat
        /\ \A t \in Senders, d \in Days : t # s \/ d # d0 => mine'[<<t, d>>] = mine[<<t, d>>]
        /\ \A t \in Senders, d \in Days : mine[<<t, d>>] \in Nat
    BY <1>1 DEF FeedbackInv, FeedbackTypes, Count
  <1>3. /\ everyone' \in [Days -> Nat]
        /\ everyone'[d0] = everyone[d0] + 1 /\ everyone[d0] \in Nat
        /\ \A d \in Days : d # d0 => everyone'[d] = everyone[d]
        /\ \A d \in Days : everyone[d] \in Nat
    BY <1>1 DEF FeedbackInv, FeedbackTypes, Count
  <1>4. \/ msg' = [msg EXCEPT ![m] = IF full THEN Dropped ELSE [@ EXCEPT !.at = "accepted"]]
           /\ unheard' = unheard
        \/ msg' = msg /\ unheard' = unheard + 1
    BY DEF Count
  <1>5. UNCHANGED <<inbox, daily, again, day>>
    BY DEF Count
  <1> HIDE DEF full
  <1>6. /\ msg' \in [Messages -> Mail]
        /\ \/ msg'[m].at = "accepted" /\ ~full
           \/ msg'[m].at \in {"dropped", "counting"}
        /\ msg'[m].at \in {"accepted", "counting"} => msg'[m].day = d0
        /\ \A n \in Messages : n # m => msg'[n] = msg[n]
    <2>1. msg[m] \in [at : {"counting", "accepted"}, day : Days]
      BY <1>1 DEF FeedbackInv, FeedbackTypes, Mail
    <2>2. [msg[m] EXCEPT !.at = "accepted"] \in [at : {"counting", "accepted"}, day : Days]
      BY <2>1
    <2> QED BY <1>1, <1>4, <2>1, <2>2 DEF FeedbackInv, FeedbackTypes, Mail, Dropped
  <1>7. FeedbackTypes'
    BY <1>2, <1>3, <1>4, <1>5, <1>6 DEF FeedbackInv, FeedbackTypes
  <1>8. \A d : KeptOf(d)' = KeptOf(d)
    BY <1>1, <1>6 DEF KeptOf
  <1>9. /\ \A d \in Days : LetIn(d) \in SUBSET Messages /\ m \notin LetIn(d)
        /\ \A d \in Days, t \in Senders : LetInFrom(t, d) \in SUBSET Messages /\ m \notin LetInFrom(t, d)
    BY <1>1 DEF LetIn, LetInFrom, Boxed
  <1>10. Counted'
    <2>1. CASE msg'[m].at # "accepted"
      <3>1. \A d : LetIn(d)' = LetIn(d) /\ \A t : LetInFrom(t, d)' = LetInFrom(t, d)
        BY <1>1, <1>6, <2>1 DEF LetIn, LetInFrom, Boxed
      <3>2. /\ \A d \in Days : Cardinality(LetIn(d)) \in Nat
            /\ \A d \in Days, t \in Senders : Cardinality(LetInFrom(t, d)) \in Nat
        BY <1>9, FiniteMessages
      <3>3. \A d \in Days : everyone[d] <= everyone'[d] /\ everyone'[d] \in Nat
        BY <1>3
      <3>4. \A d \in Days, t \in Senders : mine[<<t, d>>] <= mine'[<<t, d>>] /\ mine'[<<t, d>>] \in Nat
        BY <1>2
      <3>5. \A d \in Days : Cardinality(LetIn(d)) <= everyone'[d]
        <4>1. \A d \in Days : Cardinality(LetIn(d)) <= everyone[d]
          BY DEF FeedbackInv, Counted
        <4> QED BY <4>1, <3>2, <3>3, <1>3
      <3>6. ASSUME NEW d \in Days, NEW t \in Senders
            PROVE  Cardinality(LetInFrom(t, d)) <= mine'[<<t, d>>]
        <4>1. Cardinality(LetInFrom(t, d)) <= mine[<<t, d>>]
          BY DEF FeedbackInv, Counted
        <4>2. /\ mine[<<t, d>>] <= mine'[<<t, d>>]
              /\ mine[<<t, d>>] \in Nat /\ mine'[<<t, d>>] \in Nat
          BY <3>4, <1>2
        <4>3. Cardinality(LetInFrom(t, d)) \in Nat
          BY <3>2
        <4> QED BY <4>1, <4>2, <4>3
      <3> QED BY <3>1, <3>5, <3>6 DEF FeedbackInv, Counted
    <2>2. CASE msg'[m].at = "accepted"
      <3>1. LetIn(d0)' = LetIn(d0) \cup {m} /\ \A d : d # d0 => LetIn(d)' = LetIn(d)
        BY <1>1, <1>6, <2>2 DEF LetIn, Boxed
      <3>2. /\ LetInFrom(s, d0)' = LetInFrom(s, d0) \cup {m}
            /\ \A t, d : t # s \/ d # d0 => LetInFrom(t, d)' = LetInFrom(t, d)
        BY <3>1, <1>1 DEF LetInFrom
      <3>3. everyone'[d0] <= AllPerDay /\ mine'[<<s, d0>>] <= PerSender
        BY <1>1, <1>2, <1>3, <1>6, <2>2 DEF full
      <3>4. ASSUME NEW d \in Days
            PROVE  Cardinality(LetIn(d)') <= everyone'[d] /\ Cardinality(LetIn(d)') <= AllPerDay
        <4>1. CASE d = d0
          <5>1. Cardinality(LetIn(d0) \cup {m}) = Cardinality(LetIn(d0)) + 1
            BY <1>1, <1>9, OneMore
          <5>2. Cardinality(LetIn(d0)) \in Nat /\ Cardinality(LetIn(d0)) <= everyone[d0]
            BY <1>1, <1>9, FiniteMessages DEF FeedbackInv, Counted
          <5>3. Cardinality(LetIn(d0)') = Cardinality(LetIn(d0)) + 1
            BY <3>1, <5>1
          <5> HIDE DEF LetIn
          <5> QED BY <4>1, <5>2, <5>3, <3>3, <1>1, <1>3
        <4>2. CASE d # d0
          BY <4>2, <3>1, <1>3 DEF FeedbackInv, Counted
        <4> QED BY <4>1, <4>2
      <3>5. ASSUME NEW d \in Days, NEW t \in Senders
            PROVE  /\ Cardinality(LetInFrom(t, d)') <= mine'[<<t, d>>]
                   /\ Cardinality(LetInFrom(t, d)') <= PerSender
        <4>1. CASE d = d0 /\ t = s
          <5>1. Cardinality(LetInFrom(s, d0) \cup {m}) = Cardinality(LetInFrom(s, d0)) + 1
            BY <1>1, <1>9, OneMore
          <5>2. /\ Cardinality(LetInFrom(s, d0)) \in Nat
                /\ Cardinality(LetInFrom(s, d0)) <= mine[<<s, d0>>]
            BY <1>1, <1>9, FiniteMessages DEF FeedbackInv, Counted
          <5>3. Cardinality(LetInFrom(s, d0)') = Cardinality(LetInFrom(s, d0)) + 1
            BY <3>2, <5>1
          <5> QED BY <4>1, <5>2, <5>3, <3>3, <1>1, <1>2
        <4>2. CASE ~(d = d0 /\ t = s)
          BY <4>2, <3>2, <1>2 DEF FeedbackInv, Counted
        <4> QED BY <4>1, <4>2
      <3> QED BY <3>4, <3>5 DEF Counted
    <2> QED BY <2>1, <2>2
  <1>11. Filed'
    <2>1. \A n \in Messages : msg'[n].at \in Dated => msg'[n].day <= day
      <3>1. d0 <= day
        BY <1>1 DEF FeedbackInv, Filed, Dated
      <3> QED BY <3>1, <1>6 DEF FeedbackInv, Filed, Dated
    <2>2. \A n \in Messages : msg'[n].at \in Boxed => msg'[n] = msg[n]
      BY <1>6 DEF Boxed
    <2>3. \A n \in inbox : msg'[n].at \in Boxed
      BY <1>1, <1>6 DEF FeedbackInv, Filed, FeedbackTypes, Boxed
    <2> QED BY <2>1, <2>2, <2>3, <1>5, <1>8 DEF FeedbackInv, Filed
  <1> QED BY <1>7, <1>10, <1>11 DEF FeedbackInv

\* Keep: the day of a message may be over by now; only what is too old goes.  A
\* message that is kept again is counted as such.
LEMMA KeepKeeps ==
  ASSUME FeedbackInv, NEW m \in Messages, Keep(m), UNCHANGED day
  PROVE  FeedbackInv'
  <1> PICK d0 : d0 = msg[m].day
    OBVIOUS
  <1> USE DEF Keep, KeepFor
  <1>1. /\ d0 \in Days /\ day \in Days /\ msg[m].at \in {"accepted", "keeping"} /\ d0 <= day
        /\ KeepDays \in Nat \ {0}
    BY FeedbackAssumption, MailTypes
    DEF FeedbackAssumption, FeedbackInv, FeedbackTypes, Filed, Dated
  <1>2. /\ msg' \in [Messages -> Mail]
        /\ msg'[m].at \in Boxed /\ msg'[m].day = d0 /\ msg'[m].kept <= day
        /\ \A n \in Messages : n # m => msg'[n] = msg[n]
        /\ \A n \in Messages : msg'[n].at \in Dated => msg[n].at \in Dated /\ msg'[n].day = msg[n].day
    <2>1. PICK stage \in Boxed :
            msg' = [msg EXCEPT ![m] = [at |-> stage, day |-> @.day,
                                       kept |-> IF @.at = "keeping" THEN @.kept ELSE day]]
      BY DEF Boxed
    <2>2. msg[m].at = "keeping" => msg[m].kept \in Days /\ msg[m].kept <= day
      BY MailTypes DEF FeedbackInv, Filed, Boxed
    <2> DEFINE k == IF msg[m].at = "keeping" THEN msg[m].kept ELSE day
    <2>3. k \in Days /\ k <= day
      BY <1>1, <2>2 DEF Days
    <2> HIDE DEF k
    <2>4. msg' = [msg EXCEPT ![m] = [at |-> stage, day |-> d0, kept |-> k]]
      BY <2>1 DEF k
    <2>5. [at |-> stage, day |-> d0, kept |-> k] \in Mail
      BY <1>1, <2>3 DEF Mail, Boxed
    <2> QED BY <1>1, <2>3, <2>4, <2>5 DEF FeedbackInv, FeedbackTypes, Dated, Boxed
  <1>3. /\ daily' \in [Days -> Nat]
        /\ daily'[d0] = daily[d0] + 1
        /\ \A d \in Days : d # d0 => daily'[d] = daily[d]
    BY <1>1 DEF FeedbackInv, FeedbackTypes
  <1>4. inbox' = {n \in inbox \cup {m} : msg[n].day > d0 - KeepDays}
    OBVIOUS
  <1>5. UNCHANGED <<mine, everyone, day>> /\ unheard' \in Nat
    BY DEF FeedbackInv, FeedbackTypes
  <1>6. /\ again' \in [Days -> Nat]
        /\ again'[d0] = again[d0] + (IF msg[m].at = "keeping" THEN 1 ELSE 0)
        /\ \A d \in Days : d # d0 => again'[d] = again[d]
    BY <1>1 DEF FeedbackInv, FeedbackTypes
  <1> USE DEF Boxed
  <1>7. FeedbackTypes'
    BY <1>2, <1>3, <1>4, <1>5, <1>6 DEF FeedbackInv, FeedbackTypes
  <1>8. \A d : LetIn(d)' = LetIn(d) /\ \A s : LetInFrom(s, d)' = LetInFrom(s, d)
    BY <1>1, <1>2 DEF LetIn, LetInFrom
  <1>9. Counted'
    BY <1>5, <1>8 DEF FeedbackInv, Counted
  <1>10. Filed'
    <2>1. \A n \in Messages : msg[n].at \in Dated => msg[n].day \in Int
      BY MailTypes DEF FeedbackInv, Days
    <2>2. \A n \in Messages : msg'[n].at \in Dated => msg'[n].day <= day
      BY <1>2 DEF FeedbackInv, Filed
    <2>3. \A n \in Messages : msg'[n].at \in Boxed => msg'[n].kept <= day
      BY <1>1, <1>2 DEF FeedbackInv, Filed
    <2>4. \A n \in inbox' : msg'[n].at \in Boxed
      BY <1>2, <1>4 DEF FeedbackInv, FeedbackTypes, Filed
    <2>5. \A n \in Messages : msg'[n].at \in Boxed /\ day < msg'[n].day + KeepDays => n \in inbox'
      <3> SUFFICES ASSUME NEW n \in Messages, msg'[n].at \in Boxed, day < msg'[n].day + KeepDays
                   PROVE  n \in inbox'
        OBVIOUS
      <3>1. msg'[n].day = msg[n].day /\ msg[n].day \in Int
        BY <1>2, <2>1 DEF Dated
      <3>2. n \in inbox \cup {m}
        BY <3>1, <1>2 DEF FeedbackInv, Filed
      <3>3. msg[n].day > d0 - KeepDays
        BY <3>1, <1>1 DEF Days
      <3> QED BY <3>2, <3>3, <1>4
    <2>6. ASSUME NEW d \in Days
          PROVE  daily'[d] = Cardinality(KeptOf(d)') + again'[d]
      <3>1. CASE d # d0
        <4>1. KeptOf(d)' = KeptOf(d)
          BY <3>1, <1>1, <1>2 DEF KeptOf
        <4> QED BY <3>1, <4>1, <1>3, <1>6 DEF FeedbackInv, Filed
      <3>2. CASE d = d0 /\ msg[m].at = "accepted"
        <4>1. KeptOf(d0)' = KeptOf(d0) \cup {m} /\ m \notin KeptOf(d0)
          BY <3>2, <1>1, <1>2 DEF KeptOf
        <4>2. KeptOf(d0) \in SUBSET Messages
          BY DEF KeptOf
        <4>3. /\ Cardinality(KeptOf(d0) \cup {m}) = Cardinality(KeptOf(d0)) + 1
              /\ Cardinality(KeptOf(d0)) \in Nat
          BY <4>1, <4>2, OneMore, FiniteMessages
        <4>4. daily[d0] = Cardinality(KeptOf(d0)) + again[d0] /\ again[d0] \in Nat
          BY <1>1 DEF FeedbackInv, Filed, FeedbackTypes
        <4>5. again'[d0] = again[d0]
          BY <3>2, <1>6, <4>4
        <4> QED BY <3>2, <4>1, <4>3, <4>4, <4>5, <1>3
      <3>3. CASE d = d0 /\ msg[m].at = "keeping"
        <4>1. KeptOf(d0)' = KeptOf(d0)
          BY <3>3, <1>1, <1>2 DEF KeptOf
        <4>2. Cardinality(KeptOf(d0)) \in Nat
          BY FiniteMessages DEF KeptOf
        <4>3. daily[d0] = Cardinality(KeptOf(d0)) + again[d0] /\ again[d0] \in Nat
          BY <1>1 DEF FeedbackInv, Filed, FeedbackTypes
        <4>4. again'[d0] = again[d0] + 1
          BY <3>3, <1>6
        <4> QED BY <3>3, <4>1, <4>2, <4>3, <4>4, <1>3
      <3> QED BY <3>1, <3>2, <3>3, <1>1
    <2> QED BY <2>2, <2>3, <2>4, <2>5, <2>6, <1>5 DEF Filed
  <1> QED BY <1>7, <1>9, <1>10 DEF FeedbackInv

\* A call that is lost leaves the message out, or in.
LEMMA LostKeeps ==
  ASSUME FeedbackInv, NEW m \in Messages, Lost(m), UNCHANGED day
  PROVE  FeedbackInv'
  <1>1. /\ \A n \in Messages : n # m => msg'[n] = msg[n]
        /\ \/ msg[m].at \in {"counting", "accepted"} /\ msg'[m] = Dropped
           \/ msg[m].at = "keeping" /\ msg'[m] = [msg[m] EXCEPT !.at = "kept"]
    BY DEF FeedbackInv, FeedbackTypes, Lost
  <1>2. UNCHANGED <<mine, everyone, inbox, daily, unheard, again, day>>
    BY DEF Lost
  <1>3. msg'[m] \in Mail
    <2>1. CASE msg[m].at = "keeping"
      <3>1. msg[m] \in [at : {"keeping", "kept"}, day : Days, kept : Days]
        BY <2>1 DEF FeedbackInv, FeedbackTypes, Mail
      <3>2. [msg[m] EXCEPT !.at = "kept"] \in [at : {"keeping", "kept"}, day : Days, kept : Days]
        BY <3>1
      <3> QED BY <1>1, <2>1, <3>2 DEF Mail
    <2> QED BY <1>1, <2>1 DEF Mail, Dropped
  <1>4. msg' \in [Messages -> Mail]
    BY <1>1, <1>3 DEF FeedbackInv, FeedbackTypes, Lost
  <1>5. /\ msg'[m].at \in Boxed <=> msg[m].at \in Boxed
        /\ msg'[m].at \in Dated <=> msg[m].at \in Boxed
        /\ msg[m].at \in Boxed => msg'[m].day = msg[m].day /\ msg'[m].kept = msg[m].kept
    <2>1. CASE msg[m].at = "keeping"
      <3>1. msg[m] \in [at : {"keeping", "kept"}, day : Days, kept : Days]
        BY <2>1 DEF FeedbackInv, FeedbackTypes, Mail
      <3> QED BY <1>1, <2>1, <3>1 DEF Dated, Boxed
    <2> QED BY <1>1, <2>1 DEF Dropped, Dated, Boxed
  <1>6. FeedbackTypes'
    BY <1>2, <1>4 DEF FeedbackInv, FeedbackTypes
  <1>7. \A d : KeptOf(d)' = KeptOf(d)
    BY <1>1, <1>5 DEF KeptOf, Boxed
  <1>8. Counted'
    <2>1. \A d : LetIn(d)' \in SUBSET LetIn(d) /\ LetIn(d) \in SUBSET Messages
      BY <1>1, <1>5 DEF LetIn, Boxed, Dropped
    <2>2. \A d, t : LetInFrom(t, d)' \in SUBSET LetInFrom(t, d) /\ LetInFrom(t, d) \in SUBSET Messages
      BY <2>1 DEF LetInFrom
    <2>3. \A d \in Days : /\ Cardinality(LetIn(d)') <= Cardinality(LetIn(d))
                          /\ Cardinality(LetIn(d)') \in Nat /\ Cardinality(LetIn(d)) \in Nat
      BY <2>1, NoMore, FiniteMessages
    <2>4. \A d \in Days, t \in Senders :
            /\ Cardinality(LetInFrom(t, d)') <= Cardinality(LetInFrom(t, d))
            /\ Cardinality(LetInFrom(t, d)') \in Nat /\ Cardinality(LetInFrom(t, d)) \in Nat
      BY <2>2, NoMore, FiniteMessages
    <2>5. /\ AllPerDay \in Nat /\ PerSender \in Nat
          /\ \A d \in Days : everyone[d] \in Nat
          /\ \A d \in Days, t \in Senders : mine[<<t, d>>] \in Nat
      BY FeedbackAssumption DEF FeedbackAssumption, FeedbackInv, FeedbackTypes
    <2>6. ASSUME NEW d \in Days
          PROVE  Cardinality(LetIn(d)') <= everyone[d] /\ Cardinality(LetIn(d)') <= AllPerDay
      <3>1. Cardinality(LetIn(d)) <= everyone[d] /\ Cardinality(LetIn(d)) <= AllPerDay
        BY DEF FeedbackInv, Counted
      <3>2. /\ Cardinality(LetIn(d)') <= Cardinality(LetIn(d))
            /\ Cardinality(LetIn(d)') \in Nat /\ Cardinality(LetIn(d)) \in Nat
            /\ everyone[d] \in Nat
        BY <2>3, <2>5
      <3> QED BY <3>1, <3>2, <2>5
    <2>7. ASSUME NEW d \in Days, NEW t \in Senders
          PROVE  /\ Cardinality(LetInFrom(t, d)') <= mine[<<t, d>>]
                 /\ Cardinality(LetInFrom(t, d)') <= PerSender
      <3>1. Cardinality(LetInFrom(t, d)) <= mine[<<t, d>>] /\ Cardinality(LetInFrom(t, d)) <= PerSender
        BY DEF FeedbackInv, Counted
      <3>2. /\ Cardinality(LetInFrom(t, d)') <= Cardinality(LetInFrom(t, d))
            /\ Cardinality(LetInFrom(t, d)') \in Nat /\ Cardinality(LetInFrom(t, d)) \in Nat
            /\ mine[<<t, d>>] \in Nat
        BY <2>4, <2>5
      <3> QED BY <3>1, <3>2, <2>5
    <2> QED BY <2>6, <2>7, <1>2 DEF Counted
  <1>9. Filed'
    <2>1. \A n \in Messages : msg'[n].at \in Boxed <=> msg[n].at \in Boxed
      BY <1>1, <1>5
    <2>2. \A n \in Messages : msg'[n].at \in Dated => msg[n].at \in Dated /\ msg'[n].day = msg[n].day
      BY <1>1, <1>5 DEF Dated, Boxed
    <2>3. \A n \in Messages : msg'[n].at \in Boxed => msg'[n].kept = msg[n].kept /\ msg'[n].day = msg[n].day
      BY <1>1, <1>5
    <2>4. \A n \in inbox : n \in Messages
      BY DEF FeedbackInv, FeedbackTypes
    <2> QED BY <2>1, <2>2, <2>3, <2>4, <1>2, <1>7 DEF FeedbackInv, Filed
  <1> QED BY <1>6, <1>8, <1>9 DEF FeedbackInv

\* Every step of a call.
LEMMA FeedbackKeeps ==
  ASSUME FeedbackInv, SubmitStep \/ FeedbackStep, UNCHANGED day
  PROVE  FeedbackInv'
  BY SubmitKeeps, CountKeeps, KeepKeeps, LostKeeps DEF SubmitStep, FeedbackStep

-----------------------------------------------------------------------------
\* The limits of a day hold for what was kept, as for what was let in.
LEMMA LimitsFollow ==
  ASSUME FeedbackInv
  PROVE  DailyLimits
  <1> SUFFICES ASSUME NEW d \in Days
               PROVE  /\ Cardinality(KeptOf(d)) <= AllPerDay
                      /\ \A s \in Senders :
                           Cardinality({m \in KeptOf(d) : From[m] = s}) <= PerSender
    BY DEF DailyLimits
  <1>1. LetIn(d) \in SUBSET Messages /\ KeptOf(d) \in SUBSET LetIn(d)
    BY DEF LetIn, KeptOf, Boxed
  <1>2. AllPerDay \in Nat /\ PerSender \in Nat
    BY FeedbackAssumption DEF FeedbackAssumption
  <1>3. Cardinality(KeptOf(d)) <= AllPerDay
    <2>1. Cardinality(KeptOf(d)) <= Cardinality(LetIn(d)) /\ Cardinality(LetIn(d)) <= AllPerDay
      BY <1>1, NoMore DEF FeedbackInv, Counted
    <2>2. Cardinality(KeptOf(d)) \in Nat /\ Cardinality(LetIn(d)) \in Nat
      BY <1>1, FiniteMessages
    <2> QED BY <2>1, <2>2, <1>2
  <1>4. ASSUME NEW s \in Senders
        PROVE  Cardinality({m \in KeptOf(d) : From[m] = s}) <= PerSender
    <2> DEFINE T == {m \in KeptOf(d) : From[m] = s}
    <2>1. LetInFrom(s, d) \in SUBSET Messages /\ T \in SUBSET LetInFrom(s, d)
      BY <1>1 DEF LetInFrom
    <2> HIDE DEF T
    <2>2. Cardinality(T) <= Cardinality(LetInFrom(s, d)) /\ Cardinality(LetInFrom(s, d)) <= PerSender
      BY <2>1, NoMore DEF FeedbackInv, Counted
    <2>3. Cardinality(T) \in Nat /\ Cardinality(LetInFrom(s, d)) \in Nat
      BY <2>1, FiniteMessages
    <2>4. Cardinality(T) <= PerSender
      BY <2>2, <2>3, <1>2
    <2> QED BY <2>4 DEF T
  <1> QED BY <1>3, <1>4

\* As long as the messages of a day are kept, the inbox has all that were counted.
LEMMA CountFollows ==
  ASSUME FeedbackInv
  PROVE  CountMatchesInbox
  <1> SUFFICES ASSUME NEW d \in Days, day < d + KeepDays
               PROVE  daily[d] = Cardinality({m \in inbox : msg[m].day = d}) + again[d]
    BY DEF CountMatchesInbox
  <1>1. {m \in inbox : msg[m].day = d} = KeptOf(d)
    BY DEF FeedbackInv, FeedbackTypes, Filed, KeptOf, Boxed
  <1> QED BY <1>1 DEF FeedbackInv, Filed
=============================================================================
