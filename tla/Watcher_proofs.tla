--------------------------- MODULE Watcher_proofs --------------------------
(***************************************************************************)
(* Proofs about Watcher and the inbox it reads, for any accounts, messages *)
(* and bounds.                                                             *)
(***************************************************************************)
EXTENDS Watcher, Feedback_proofs

Phases == {"idle", "asked", "compared", "sending"}
Readings == [state : {"saved"}, writers : SUBSET Outside, signedIn : Int,
             x : Int, internal : Int, digestDay : Days \cup {None}]
Numbers == {"signedIn", "internal", "x"}
Notes ==
  [kind : {"writer"}, of : Outside, count : {0}]
    \cup [kind : {"digest"}, of : Days, count : Nat]
    \cup [kind : Numbers, of : Int, count : Int]

Runs == [at : Phases, ask : SUBSET Known, new : Readings, out : Seq(Notes)]
Told == [writers : SUBSET Outside, signedIn : Int, internal : Int, x : Int]

\* What the variables hold.
Types ==
  /\ writers \subseteq Accounts /\ callers \subseteq Accounts
  /\ internal \in 0..MaxEvents /\ posts \in 0..MaxEvents
  /\ file \in Readings \cup {Missing, Broken}
  /\ run \in Runs
  /\ told \in Told
  /\ digests \in [Days -> Nat \cup {None}]
  /\ checked \subseteq Days
  /\ stops \in 0..MaxStops

\* The messages in a sequence, and those of the run that are still to be sent.
Within(s) == {s[i] : i \in 1..Len(s)}
Unsent == Within(run.out)

InRange(n) == n \in None..MaxEvents

\* The numbers read are within the bounds.
Ranges ==
  /\ file.state = "saved" => InRange(file.internal) /\ InRange(file.x)
  /\ InRange(run.new.internal) /\ InRange(run.new.x)

Strangers == Cardinality(callers \ Known)

\* A number of sign-ins is not above that of other people's: those of the operator's
\* that joined before they were asked for are still to be taken off.
SignIns ==
  /\ run.at = "asked" =>
       /\ run.new.signedIn <= Strangers + Cardinality(callers \cap run.ask)
       /\ run.new.signedIn >= Cardinality(run.ask) - Cardinality(Known)
  /\ run.at # "asked" =>
       run.new.signedIn >= -Cardinality(Known) /\ run.new.signedIn <= Strangers
  /\ \A m \in Unsent : m.kind = "signedIn" => m.of <= Strangers
  /\ told.signedIn <= Strangers

\* A message gives the number it is about as it was read, and none is about a part
\* that the file does not have.
Current ==
  \A m \in Unsent :
    /\ m.kind \in Numbers => m.of = run.new[m.kind]
    /\ m.kind \in {"internal", "x"} => file.state = "saved" /\ file[m.kind] # None

\* What a run has read is known to the operator or on its way.
Covered(kind) ==
  \/ run.new[kind] <= told[kind]
  \/ \E m \in Unsent : m.kind = kind
  \/ kind # "signedIn" /\ told[kind] = None

\* A part that is not in the file was never told.
Quiet ==
  /\ file = Missing => told.internal = None /\ told.x = None /\ checked = {}
  /\ file.state = "saved" =>
       /\ file.internal = None => told.internal = None
       /\ file.x = None => told.x = None

Early == {"idle", "asked"}
Late == {"compared", "sending"}

\* How far a run has come shows in what it has read, and in what it has to send.
Reading ==
  /\ run.at \in Early =>
       Unsent = {} /\ run.new.internal = None /\ run.new.x = None /\ run.new.digestDay = None
  /\ run.at \in Late => file # Broken
  /\ file = Missing => Unsent = {} /\ run.new.digestDay = None
  /\ run.at = "compared" => file.state = "saved" /\ \A m \in Unsent : m.kind # "x"
  /\ run.at \in Late =>
       /\ \A a \in run.new.writers :
            a \in told.writers \/ \E m \in Unsent : m.kind = "writer" /\ m.of = a
       /\ Covered("signedIn")
       /\ Covered("internal")
       /\ run.new.internal = None => told.internal = None
  /\ run.at = "sending" =>
       /\ Covered("x")
       /\ run.new.x = None => told.x = None

\* The digest of the day of the last completed check is told, or on its way.
Digests ==
  /\ \A d \in Days : digests[d] # None => d < day
  /\ \A m \in Unsent : m.kind = "digest" => m.of < day /\ run.at = "sending"
  /\ file.state = "saved" => file.digestDay <= day /\ \A d \in checked : d <= file.digestDay
  /\ run.new.digestDay <= day
  /\ run.at \in Late /\ file.state = "saved" =>
       run.new.digestDay # None /\ file.digestDay <= run.new.digestDay
  /\ run.at = "sending" /\ file.state = "saved" =>
       \/ file.digestDay \in {None, run.new.digestDay}
       \/ digests[file.digestDay] # None
       \/ \E m \in Unsent : m.kind = "digest" /\ m.of = file.digestDay

\* The messages of day d that were kept on that day.
OnTime(d) == {m \in KeptOf(d) : msg[m].kept = d}

\* A digest on its way is as complete as one told.
DigestsComplete ==
  \A m \in Unsent : m.kind = "digest" => m.count >= Cardinality(OnTime(m.of))

WatchInv ==
  /\ FeedbackInv /\ Types /\ Ranges /\ SignIns /\ Current /\ Quiet /\ Reading
  /\ Digests /\ DigestsComplete /\ SavedMeansTold /\ CheckedDaysReported /\ DigestComplete

-----------------------------------------------------------------------------
\* A set of accounts is finite.
LEMMA FiniteAccounts ==
  ASSUME NEW S \in SUBSET Accounts
  PROVE  IsFiniteSet(S) /\ Cardinality(S) \in Nat
  <1>1. IsFiniteSet(S)
    BY WatcherAssumption, FS_Subset DEF WatcherAssumption
  <1> QED BY <1>1, FS_CardinalityType

\* More accounts count no less.
LEMMA MoreAccounts ==
  ASSUME NEW T \in SUBSET Accounts, NEW S \in SUBSET T
  PROVE  Cardinality(S) <= Cardinality(T)
  BY FiniteAccounts, FS_Subset

\* No message.
LEMMA WithinNone == Within(<<>>) = {}
  BY DEF Within

\* One message.
LEMMA WithinOne ==
  ASSUME NEW m
  PROVE  Within(<<m>>) = {m}
  BY DEF Within

\* Two sequences put together.
LEMMA WithinBoth ==
  ASSUME NEW s \in Seq(Notes), NEW t \in Seq(Notes)
  PROVE  s \o t \in Seq(Notes) /\ Within(s \o t) = Within(s) \cup Within(t)
  <1>1. Len(s) \in Nat /\ Len(t) \in Nat
    BY LenProperties
  <1>2. /\ s \o t \in Seq(Notes)
        /\ Len(s \o t) = Len(s) + Len(t)
        /\ \A i \in 1..(Len(s) + Len(t)) :
             (s \o t)[i] = IF i <= Len(s) THEN s[i] ELSE t[i - Len(s)]
    BY ConcatProperties
  <1> DEFINE u == s \o t
  <1>3. u \in Seq(Notes)
    BY <1>2
  <1>4. Len(u) = Len(s) + Len(t)
    BY <1>2
  <1>5. \A i \in 1..(Len(s) + Len(t)) : u[i] = IF i <= Len(s) THEN s[i] ELSE t[i - Len(s)]
    BY <1>2
  <1> HIDE DEF u
  <1>6. Within(u) \subseteq Within(s) \cup Within(t)
    <2> SUFFICES ASSUME NEW i \in 1..Len(u)
                 PROVE  u[i] \in Within(s) \cup Within(t)
      BY DEF Within
    <2>1. CASE i <= Len(s)
      BY <2>1, <1>1, <1>4, <1>5 DEF Within
    <2>2. CASE i > Len(s)
      <3>1. u[i] = t[i - Len(s)] /\ i - Len(s) \in 1..Len(t)
        BY <2>2, <1>1, <1>4, <1>5
      <3> QED BY <3>1 DEF Within
    <2> QED BY <2>1, <2>2, <1>1, <1>4
  <1>7. Within(s) \subseteq Within(u)
    <2> SUFFICES ASSUME NEW i \in 1..Len(s)
                 PROVE  s[i] \in Within(u)
      BY DEF Within
    <2>1. i \in 1..Len(u) /\ u[i] = s[i]
      BY <1>1, <1>4, <1>5
    <2> QED BY <2>1 DEF Within
  <1>8. Within(t) \subseteq Within(u)
    <2> SUFFICES ASSUME NEW i \in 1..Len(t)
                 PROVE  t[i] \in Within(u)
      BY DEF Within
    <2>1. i + Len(s) \in 1..Len(u) /\ u[i + Len(s)] = t[i]
      BY <1>1, <1>4, <1>5
    <2> QED BY <2>1 DEF Within
  <1>9. Within(u) = Within(s) \cup Within(t)
    BY <1>6, <1>7, <1>8
  <1> QED BY <1>3, <1>9 DEF u

\* What is left when the first is taken off.
LEMMA WithinTail ==
  ASSUME NEW s \in Seq(Notes), s # <<>>
  PROVE  /\ Head(s) \in Notes /\ Head(s) \in Within(s) /\ Tail(s) \in Seq(Notes)
         /\ Within(s) = Within(Tail(s)) \cup {Head(s)}
  <1> DEFINE t == Tail(s)
             m == Head(s)
  <1>1. Len(s) \in Nat \ {0} /\ t \in Seq(Notes) /\ m \in Notes
    BY EmptySeq, HeadTailProperties
  <1>2. Len(t) = Len(s) - 1 /\ \A i \in 1..Len(t) : t[i] = s[i + 1]
    BY HeadTailProperties
  <1>3. m = s[1]
    OBVIOUS
  <1> HIDE DEF t, m
  <1>4. Within(t) \subseteq Within(s)
    <2> SUFFICES ASSUME NEW i \in 1..Len(t)
                 PROVE  t[i] \in Within(s)
      BY DEF Within
    <2>1. i + 1 \in 1..Len(s) /\ t[i] = s[i + 1]
      BY <1>1, <1>2
    <2> QED BY <2>1 DEF Within
  <1>5. m \in Within(s)
    BY <1>1, <1>3 DEF Within
  <1>6. Within(s) \subseteq Within(t) \cup {m}
    <2> SUFFICES ASSUME NEW i \in 1..Len(s), i # 1
                 PROVE  s[i] \in Within(t)
      BY <1>3 DEF Within
    <2>1. i - 1 \in 1..Len(t) /\ t[i - 1] = s[i]
      BY <1>1, <1>2
    <2> QED BY <2>1 DEF Within
  <1>7. Within(s) = Within(t) \cup {m}
    BY <1>4, <1>5, <1>6
  <1> QED BY <1>1, <1>5, <1>7 DEF t, m

\* What a message is about, by its kind.
LEMMA NoteTypes ==
  ASSUME NEW m \in Notes
  PROVE  /\ m.kind \in Kinds
         /\ m.kind = "writer" => m.of \in Outside
         /\ m.kind = "digest" => m.of \in Days /\ m.count \in Nat
         /\ m.kind \in Numbers => m.of \in Int
         /\ m.kind \in Numbers <=> m.kind \notin {"writer", "digest"}
  BY DEF Notes, Numbers, Kinds

\* The set of what a run has to send is a set of messages.
LEMMA UnsentTypes ==
  ASSUME NEW s \in Seq(Notes)
  PROVE  Within(s) \subseteq Notes
  BY ElementOfSeq DEF Within

\* SetToSeq has every element of a set.
LEMMA SequenceOfSet ==
  ASSUME NEW S, IsFiniteSet(S)
  PROVE  /\ SetToSeq(S) \in [1..Cardinality(S) -> S]
         /\ \A x \in S : \E i \in 1..Cardinality(S) : SetToSeq(S)[i] = x
  <1> DEFINE n == Cardinality(S)
             f == SetToSeq(S)
  <1>1. n \in Nat /\ ExistsBijection(1..n, S)
    BY FS_CardinalityType
  <1>2. \E g \in [1..n -> S] : IsInjective(g)
    BY <1>1 DEF ExistsBijection, Bijection, Injection
  <1>3. f \in [1..n -> S] /\ IsInjective(f)
    BY <1>2 DEF SetToSeq
  <1> HIDE DEF f
  <1>4. IsFiniteSet(1..n) /\ Cardinality(1..n) = n
    BY <1>1, FS_Interval
  <1>5. f \in Injection(1..n, S)
    BY <1>3 DEF Injection
  <1>6. f \in Surjection(1..n, S)
    <2> HIDE DEF n
    <2>1. Cardinality(1..n) = Cardinality(S) <=> f \in Surjection(1..n, S)
      BY <1>5, FS_Injection
    <2> QED BY <2>1, <1>4 DEF n
  <1>7. f \in [1..n -> S] /\ \A x \in S : \E i \in 1..n : f[i] = x
    BY <1>6, <1>3 DEF Surjection
  <1> QED BY <1>7 DEF f

\* WriterNews: a message for every writer that is not in the file.
LEMMA NewsOfWriters ==
  ASSUME run.new.writers \in SUBSET Outside
  PROVE  /\ WriterNews \in Seq(Notes)
         /\ \A m \in Within(WriterNews) : m.kind = "writer"
         /\ \A a \in run.new.writers \ file.writers :
              \E m \in Within(WriterNews) : m.kind = "writer" /\ m.of = a
  <1> DEFINE S == run.new.writers \ file.writers
             s == SetToSeq(S)
             n == Cardinality(S)
             note(i) == [kind |-> "writer", of |-> s[i], count |-> 0]
  <1>1. S \in SUBSET Outside /\ S \in SUBSET Accounts
    BY DEF Outside
  <1>2. IsFiniteSet(S) /\ n \in Nat
    BY <1>1, FiniteAccounts
  <1>3. s \in [1..n -> S] /\ \A x \in S : \E i \in 1..n : s[i] = x
    <2> HIDE DEF S
    <2> QED BY <1>2, SequenceOfSet
  <1>4. WriterNews = [i \in 1..Len(s) |-> note(i)]
    BY DEF WriterNews
  <1> HIDE DEF S, s, n
  <1>5. Len(s) = n
    BY <1>2, <1>3
  <1>6. WriterNews = [i \in 1..n |-> note(i)]
    BY <1>4, <1>5
  <1>7. \A i \in 1..n : note(i) \in Notes /\ note(i).kind = "writer" /\ note(i).of = s[i]
    BY <1>1, <1>3 DEF Notes
  <1> HIDE DEF note
  <1>8. WriterNews \in Seq(Notes) /\ Len(WriterNews) = n
    <2>1. [i \in 1..n |-> note(i)] \in Seq(Notes)
      BY <1>2, <1>7, IsASeq
    <2>2. Len([i \in 1..n |-> note(i)]) = n
      BY <1>2
    <2> QED BY <2>1, <2>2, <1>6
  <1>9. \A i \in 1..n : WriterNews[i] = note(i)
    BY <1>6
  <1>10. \A m \in Within(WriterNews) : m.kind = "writer"
    BY <1>7, <1>8, <1>9 DEF Within
  <1>11. ASSUME NEW a \in S
         PROVE  \E m \in Within(WriterNews) : m.kind = "writer" /\ m.of = a
    <2>1. PICK i \in 1..n : s[i] = a
      BY <1>3
    <2>2. note(i) \in Within(WriterNews)
      BY <1>8, <1>9 DEF Within
    <2> QED BY <2>1, <2>2, <1>7
  <1> QED BY <1>8, <1>10, <1>11 DEF S

-----------------------------------------------------------------------------
\* The fields of what has been read, and of what has been told.
LEMMA ReadingTypes ==
  ASSUME Types
  PROVE  /\ file.state = "saved" => file \in Readings
         /\ file.state = "saved" <=> file \notin {Missing, Broken}
         /\ run.new \in Readings /\ run.at \in Phases /\ run.ask \in SUBSET Known
         /\ run.out \in Seq(Notes) /\ Unsent \subseteq Notes
  <1>1. file.state = "saved" => file \in Readings
    BY DEF Types, Missing, Broken
  <1>2. file.state = "saved" <=> file \notin {Missing, Broken}
    BY DEF Types, Missing, Broken, Readings
  <1>3. run.new \in Readings /\ run.at \in Phases /\ run.ask \in SUBSET Known /\ run.out \in Seq(Notes)
    BY DEF Types, Runs
  <1> QED BY <1>1, <1>2, <1>3, UnsentTypes DEF Unsent

\* What has been told.
LEMMA ToldTypes ==
  ASSUME Types
  PROVE  /\ told.writers \in SUBSET Outside
         /\ told.signedIn \in Int /\ told.internal \in Int /\ told.x \in Int
  BY DEF Types, Told

\* What a run reads, or the file holds.
LEMMA FieldTypes ==
  ASSUME NEW r \in Readings
  PROVE  /\ r.state = "saved" /\ r.writers \in SUBSET Outside
         /\ r.signedIn \in Int /\ r.internal \in Int /\ r.x \in Int
         /\ r.digestDay \in Days \cup {None} /\ r.digestDay \in Int
         /\ r.digestDay # None => r.digestDay \in Days
  BY DEF Readings, Days, None

\* Callers are accounts, and so are the operator's own.
LEMMA StrangersTypes ==
  ASSUME Types
  PROVE  /\ callers \in SUBSET Accounts /\ callers \ Known \in SUBSET Accounts
         /\ Strangers \in Nat /\ Cardinality(Known) \in Nat
         /\ Known \in SUBSET Accounts
  <1>1. callers \in SUBSET Accounts /\ callers \ Known \in SUBSET Accounts
    BY DEF Types
  <1>2. Known \in SUBSET Accounts
    BY WatcherAssumption DEF WatcherAssumption
  <1> QED BY <1>1, <1>2, FiniteAccounts DEF Strangers

\* Heard: what has been told only grows, by the message that has come.
LEMMA HeardTells ==
  ASSUME WatchInv, NEW m \in Unsent, run.at = "sending", Heard(m)
  PROVE  /\ told' \in Told /\ told.writers \subseteq told'.writers
         /\ told.signedIn <= told'.signedIn /\ told.internal <= told'.internal /\ told.x <= told'.x
         /\ m.kind = "writer" => m.of \in told'.writers
         /\ m.kind = "signedIn" => m.of <= told'.signedIn
         /\ m.kind = "internal" => m.of <= told'.internal
         /\ m.kind = "x" => m.of <= told'.x
         /\ m.kind # "internal" \/ m.of = told.internal => told'.internal = told.internal
         /\ m.kind # "x" \/ m.of = told.x => told'.x = told.x
         /\ told'.signedIn <= Strangers
  <1>1. Types /\ m \in Notes
    BY ReadingTypes DEF WatchInv
  <1>2. /\ told.writers \in SUBSET Outside
        /\ told.signedIn \in Int /\ told.internal \in Int /\ told.x \in Int
    BY <1>1, ToldTypes
  <1>3. told.signedIn <= Strangers /\ (m.kind = "signedIn" => m.of <= Strangers)
    BY DEF WatchInv, SignIns
  <1>4. told \in Told
    BY <1>1 DEF Types
  <1>5. /\ m.kind \in Kinds
        /\ m.kind = "writer" => m.of \in Outside
        /\ m.kind \in Numbers => m.of \in Int
    BY <1>1, NoteTypes
  <1>6. CASE m.kind = "writer"
    <2>1. told' = [told EXCEPT !.writers = @ \cup {m.of}]
      BY <1>6 DEF Heard
    <2>2. told' \in Told /\ told'.writers = told.writers \cup {m.of}
      BY <2>1, <1>4, <1>5, <1>6 DEF Told
    <2>3. told'.signedIn = told.signedIn /\ told'.internal = told.internal /\ told'.x = told.x
      BY <2>1, <1>4 DEF Told
    <2> QED BY <2>2, <2>3, <1>2, <1>3, <1>6
  <1>7. CASE m.kind = "digest"
    <2>1. told' = told
      BY <1>7 DEF Heard
    <2> QED BY <2>1, <1>2, <1>3, <1>4, <1>7
  <1>8. CASE m.kind = "signedIn"
    <2>1. told' = [told EXCEPT !.signedIn = IF m.of > @ THEN m.of ELSE @]
      BY <1>8 DEF Heard
    <2>2. m.of \in Int
      BY <1>5, <1>8 DEF Numbers
    <2>3. told' \in Told /\ told'.signedIn = IF m.of > told.signedIn THEN m.of ELSE told.signedIn
      BY <2>1, <2>2, <1>4 DEF Told
    <2>4. told'.writers = told.writers /\ told'.internal = told.internal /\ told'.x = told.x
      BY <2>1, <1>4 DEF Told
    <2> QED BY <2>2, <2>3, <2>4, <1>2, <1>3, <1>8
  <1>9. CASE m.kind = "internal"
    <2>1. told' = [told EXCEPT !.internal = IF m.of > @ THEN m.of ELSE @]
      BY <1>9 DEF Heard
    <2>2. m.of \in Int
      BY <1>5, <1>9 DEF Numbers
    <2>3. told' \in Told /\ told'.internal = IF m.of > told.internal THEN m.of ELSE told.internal
      BY <2>1, <2>2, <1>4 DEF Told
    <2>4. told'.writers = told.writers /\ told'.signedIn = told.signedIn /\ told'.x = told.x
      BY <2>1, <1>4 DEF Told
    <2> QED BY <2>2, <2>3, <2>4, <1>2, <1>3, <1>9
  <1>10. CASE m.kind = "x"
    <2>1. told' = [told EXCEPT !.x = IF m.of > @ THEN m.of ELSE @]
      BY <1>10 DEF Heard
    <2>2. m.of \in Int
      BY <1>5, <1>10 DEF Numbers
    <2>3. told' \in Told /\ told'.x = IF m.of > told.x THEN m.of ELSE told.x
      BY <2>1, <2>2, <1>4 DEF Told
    <2>4. told'.writers = told.writers /\ told'.signedIn = told.signedIn /\ told'.internal = told.internal
      BY <2>1, <1>4 DEF Told
    <2> QED BY <2>2, <2>3, <2>4, <1>2, <1>3, <1>10
  <1> QED BY <1>5, <1>6, <1>7, <1>8, <1>9, <1>10 DEF Kinds

\* Heard: a digest that has come is remembered, with its count.
LEMMA HeardDigests ==
  ASSUME Types, NEW m \in Unsent, Heard(m)
  PROVE  /\ digests' \in [Days -> Nat \cup {None}]
         /\ \A d \in Days : digests[d] # None => digests'[d] # None
         /\ m.kind = "digest" => digests'[m.of] # None
         /\ \A d \in Days : \/ digests'[d] = digests[d]
                            \/ m.kind = "digest" /\ m.of = d /\ digests'[d] = m.count
  <1>1. m.kind = "digest" => m.of \in Days /\ m.count \in Nat
    BY ReadingTypes, NoteTypes
  <1>2. digests \in [Days -> Nat \cup {None}]
    BY DEF Types
  <1>3. None \notin Nat
    BY DEF None
  <1>4. CASE m.kind = "digest"
    BY <1>1, <1>2, <1>3, <1>4 DEF Heard
  <1>5. CASE m.kind # "digest"
    BY <1>2, <1>5 DEF Heard
  <1> QED BY <1>4, <1>5

\* The messages of a day that is over have been kept on it, or never will be.
LEMMA OnTimeStays ==
  ASSUME FeedbackInv, NEW d \in Days, d < day,
         \/ (SubmitStep \/ FeedbackStep) /\ UNCHANGED day
         \/ UNCHANGED feedbackVars
  PROVE  OnTime(d)' = OnTime(d)
  <1>1. CASE UNCHANGED feedbackVars
    BY <1>1 DEF OnTime, KeptOf, feedbackVars
  <1>2. ASSUME NEW m \in Messages, Submit(m) \/ Count(m) \/ Keep(m) \/ Lost(m), UNCHANGED day
        PROVE  OnTime(d)' = OnTime(d)
    <2>1. msg \in [Messages -> Mail] /\ day \in Days
      BY DEF FeedbackInv, FeedbackTypes
    <2>2. \A n \in Messages : n # m => msg'[n] = msg[n]
      BY <1>2, <2>1 DEF Submit, Count, Keep, KeepFor, Lost
    <2>3. \/ msg[m].at \notin Boxed /\ msg'[m].at \notin Boxed
          \/ msg[m].at \notin Boxed /\ msg'[m].at \in Boxed /\ msg'[m].kept = day
          \/ /\ msg[m].at \in Boxed /\ msg'[m].at \in Boxed
             /\ msg'[m].kept = msg[m].kept /\ msg'[m].day = msg[m].day
      <3> USE DEF Boxed
      <3>1. CASE Submit(m)
        BY <3>1, <2>1 DEF Submit, Arrives
      <3>2. CASE Count(m)
        <4>1. /\ msg[m].at = "counting"
              /\ \/ msg' = [msg EXCEPT ![m] = Dropped] \/ msg' = msg
                 \/ msg' = [msg EXCEPT ![m] = [@ EXCEPT !.at = "accepted"]]
          BY <3>2 DEF Count
        <4>2. [msg[m] EXCEPT !.at = "accepted"].at \notin Boxed
          <5>1. msg[m] \in [at : {"counting", "accepted"}, day : Days]
            BY <2>1, <4>1 DEF Mail
          <5> QED BY <5>1
        <4>3. \/ msg'[m] = Dropped \/ msg'[m] = msg[m]
              \/ msg'[m] = [msg[m] EXCEPT !.at = "accepted"]
          BY <4>1, <2>1
        <4>4. Dropped.at \notin Boxed /\ msg[m].at \notin Boxed
          BY <4>1 DEF Dropped
        <4> QED BY <4>2, <4>3, <4>4
      <3>3. CASE Keep(m)
        <4>1. /\ msg[m].at \in {"accepted", "keeping"}
              /\ \E stage \in Boxed :
                   msg' = [msg EXCEPT ![m] = [at |-> stage, day |-> @.day,
                                              kept |-> IF @.at = "keeping" THEN @.kept ELSE day]]
          BY <3>3 DEF Keep, KeepFor
        <4> QED BY <4>1, <2>1
      <3>4. CASE Lost(m)
        <4>1. CASE msg[m].at = "keeping"
          <5>1. msg[m] \in [at : {"keeping", "kept"}, day : Days, kept : Days]
            BY <2>1, <4>1 DEF Mail
          <5>2. msg'[m] = [msg[m] EXCEPT !.at = "kept"]
            BY <3>4, <4>1, <2>1 DEF Lost
          <5> QED BY <4>1, <5>1, <5>2
        <4> QED BY <3>4, <4>1, <2>1 DEF Lost, Dropped
      <3> QED BY <1>2, <3>1, <3>2, <3>3, <3>4
    <2>4. day # d
      BY <2>1 DEF Days
    <2> QED BY <2>2, <2>3, <2>4 DEF OnTime, KeptOf, Boxed
  <1> QED BY <1>1, <1>2 DEF SubmitStep, FeedbackStep

-----------------------------------------------------------------------------
(* The steps.                                                              *)

\* At rest, a run has read nothing and has nothing to send.
LEMMA AtRest ==
  ASSUME Types, run = Idle
  PROVE  /\ run \in Runs /\ Unsent = {} /\ run.at = "idle" /\ run.ask = {}
         /\ run.new.signedIn = 0 /\ run.new.internal = None /\ run.new.x = None
         /\ run.new.digestDay = None
  BY WithinNone DEF Types, Idle, Blank, Unsent

\* The parts that speak of what has been told and of the file.
Settled ==
  /\ Quiet /\ SavedMeansTold /\ CheckedDaysReported /\ DigestComplete
  /\ file.state = "saved" => InRange(file.internal) /\ InRange(file.x)
  /\ told.signedIn <= Strangers
  /\ \A d \in Days : digests[d] # None => d < day
  /\ file.state = "saved" => file.digestDay <= day /\ \A d \in checked : d <= file.digestDay

\* They hold with the others.
LEMMA SettledFollows ==
  ASSUME WatchInv
  PROVE  Settled
  BY DEF WatchInv, Settled, Ranges, SignIns, Digests

\* A run that is over leaves only what it has told and the file.
LEMMA RestKeeps == FeedbackInv /\ Types /\ Settled /\ run = Idle => WatchInv
  <1> SUFFICES ASSUME FeedbackInv, Types, Settled, run = Idle
               PROVE  WatchInv
    OBVIOUS
  <1>1. /\ Unsent = {} /\ run.at = "idle" /\ run.new.signedIn = 0
        /\ run.new.internal = None /\ run.new.x = None /\ run.new.digestDay = None
    BY AtRest
  <1>2. MaxEvents \in Nat /\ day \in Nat
    BY WatcherAssumption DEF WatcherAssumption, FeedbackInv, FeedbackTypes, Days
  <1>3. Strangers \in Nat /\ Cardinality(Known) \in Nat
    BY StrangersTypes
  <1>4. Ranges
    BY <1>1, <1>2 DEF Ranges, InRange, Settled, None
  <1>5. SignIns
    BY <1>1, <1>3 DEF SignIns, Settled
  <1>6. Current /\ DigestsComplete
    BY <1>1 DEF Current, DigestsComplete
  <1>7. Reading
    BY <1>1 DEF Reading, Early, Late
  <1>8. Digests
    BY <1>1, <1>2 DEF Digests, Settled, Late, None
  <1> QED BY <1>4, <1>5, <1>6, <1>7, <1>8 DEF WatchInv, Settled

\* The same after a step.
LEMMA RestKept == FeedbackInv' /\ Types' /\ Settled' /\ run' = Idle => WatchInv'
  <1>1. (FeedbackInv /\ Types /\ Settled /\ run = Idle => WatchInv)'
    BY RestKeeps, PTL
  <1> QED BY <1>1 DEF Idle, Blank, None

\* In the beginning.
LEMMA WatchBegins ==
  ASSUME Init
  PROVE  WatchInv
  <1> USE DEF Init
  <1>1. FeedbackInv
    BY FeedbackBegins
  <1>2. MaxDay \in Nat /\ MaxEvents \in Nat /\ MaxStops \in Nat
    BY FeedbackAssumption, WatcherAssumption DEF FeedbackAssumption, WatcherAssumption
  <1>3. Types
    <2>1. file \in Readings \cup {Missing, Broken}
      OBVIOUS
    <2>2. run \in Runs
      <3>1. Blank \in Readings
        BY DEF Blank, Readings, None
      <3>2. <<>> \in Seq(Notes)
        OBVIOUS
      <3> QED BY <3>1, <3>2 DEF Idle, Runs, Phases
    <2>3. told \in Told
      BY DEF Told, None
    <2>4. digests \in [Days -> Nat \cup {None}]
      OBVIOUS
    <2> QED BY <2>1, <2>2, <2>3, <2>4, <1>2 DEF Types
  <1>4. Settled
    <2>1. Strangers \in Nat
      BY <1>3, StrangersTypes
    <2>2. file.state # "saved"
      BY DEF Missing
    <2>3. told.signedIn = 0 /\ told.internal = None /\ told.x = None
      OBVIOUS
    <2>4. \A d \in Days : digests[d] = None
      OBVIOUS
    <2> QED BY <2>1, <2>2, <2>3, <2>4
        DEF Settled, Quiet, SavedMeansTold, CheckedDaysReported, DigestComplete
  <1> QED BY <1>1, <1>3, <1>4, RestKeeps

\* What goes on around the check: a day may begin, and callers only join.
LEMMA AroundKeeps ==
  ASSUME WatchInv, FeedbackInv', UNCHANGED <<file, run, historyVars, stops>>,
         writers' \subseteq Accounts, callers' \subseteq Accounts, callers \subseteq callers',
         internal' \in 0..MaxEvents, posts' \in 0..MaxEvents, day' \in {day, day + 1},
         \A d \in Days : d < day => OnTime(d)' = OnTime(d)
  PROVE  WatchInv'
  <1> USE DEF historyVars
  <1>1. Types'
    BY DEF WatchInv, Types
  <1>2. Unsent' = Unsent /\ Unsent \subseteq Notes
    BY ReadingTypes DEF WatchInv, Unsent
  <1>3. day \in Int /\ day' \in Int /\ day <= day'
    BY DEF WatchInv, FeedbackInv, FeedbackTypes, Days
  <1>4. Strangers <= Strangers' /\ Strangers \in Nat /\ Strangers' \in Nat
    <2>1. Strangers \in Nat /\ Strangers' \in Nat
      BY <1>1, StrangersTypes, FiniteAccounts DEF WatchInv, Types, Strangers
    <2>2. callers' \ Known \in SUBSET Accounts /\ callers \ Known \in SUBSET (callers' \ Known)
      OBVIOUS
    <2> QED BY <2>1, <2>2, MoreAccounts DEF Strangers
  <1>5. run.new.signedIn \in Int /\ told.signedIn \in Int /\ run.ask \in SUBSET Known
    BY ReadingTypes, FieldTypes, ToldTypes DEF WatchInv
  <1>6. \A m \in Unsent : m.kind = "signedIn" => m.of \in Int
    BY <1>2, NoteTypes DEF Numbers
  <1>7. SignIns'
    <2>1. /\ Cardinality(callers \cap run.ask) <= Cardinality(callers' \cap run.ask)
          /\ Cardinality(callers \cap run.ask) \in Nat /\ Cardinality(callers' \cap run.ask) \in Nat
      BY FiniteAccounts, MoreAccounts
    <2>2. run.at = "asked" => run.new.signedIn <= Strangers' + Cardinality(callers' \cap run.ask)
      BY <2>1, <1>4, <1>5 DEF WatchInv, SignIns
    <2>3. run.at # "asked" => run.new.signedIn <= Strangers'
      BY <1>4, <1>5 DEF WatchInv, SignIns
    <2>4. \A m \in Unsent : m.kind = "signedIn" => m.of <= Strangers'
      BY <1>4, <1>6 DEF WatchInv, SignIns
    <2>5. told.signedIn <= Strangers'
      BY <1>4, <1>5 DEF WatchInv, SignIns
    <2> QED BY <2>2, <2>3, <2>4, <2>5, <1>2 DEF WatchInv, SignIns
  <1>8. Ranges' /\ Current' /\ Quiet' /\ SavedMeansTold' /\ CheckedDaysReported'
    BY <1>2 DEF WatchInv, Ranges, Current, Quiet, SavedMeansTold, CheckedDaysReported
  <1>9. Reading'
    BY <1>2 DEF WatchInv, Reading, Covered
  <1>10. \A m \in Unsent : m.kind = "digest" => m.of < day /\ m.of \in Days /\ m.of \in Int
    BY <1>2, NoteTypes DEF WatchInv, Digests, Days
  <1>11. Digests'
    <2>1. \A d \in Days : digests[d] # None => d < day'
      BY <1>3 DEF WatchInv, Digests, Days
    <2>2. file.state = "saved" => file.digestDay <= day'
      <3>1. file.state = "saved" => file.digestDay \in Int
        BY ReadingTypes, FieldTypes DEF WatchInv
      <3> QED BY <3>1, <1>3 DEF WatchInv, Digests
    <2>3. run.new.digestDay <= day'
      <3>1. run.new.digestDay \in Int
        BY ReadingTypes, FieldTypes DEF WatchInv
      <3> QED BY <3>1, <1>3 DEF WatchInv, Digests
    <2>4. \A m \in Unsent : m.kind = "digest" => m.of < day' /\ run.at = "sending"
      BY <1>3, <1>10 DEF WatchInv, Digests
    <2> QED BY <2>1, <2>2, <2>3, <2>4, <1>2 DEF WatchInv, Digests
  <1>12. DigestsComplete'
    BY <1>2, <1>10 DEF WatchInv, DigestsComplete
  <1>13. DigestComplete'
    <2>1. \A d \in Days : digests[d] # None => OnTime(d)' = OnTime(d)
      BY DEF WatchInv, Digests
    <2>2. \A d \in Days : digests[d] # None => digests[d] >= Cardinality(OnTime(d)')
      BY <2>1 DEF WatchInv, DigestComplete, OnTime
    <2> QED BY <2>2 DEF DigestComplete, OnTime
  <1> QED BY <1>1, <1>7, <1>8, <1>9, <1>11, <1>12, <1>13 DEF WatchInv

\* World.
LEMMA WorldKeeps ==
  ASSUME WatchInv, World
  PROVE  WatchInv'
  <1> USE DEF worldVars, historyVars
  <1>1. /\ writers \subseteq Accounts /\ callers \subseteq Accounts
        /\ internal \in 0..MaxEvents /\ posts \in 0..MaxEvents /\ day \in Days
    BY DEF WatchInv, Types, FeedbackInv, FeedbackTypes
  <1>2. MaxEvents \in Nat /\ MaxDay \in Nat
    BY WatcherAssumption, FeedbackAssumption DEF WatcherAssumption, FeedbackAssumption
  <1>3. UNCHANGED <<file, run, historyVars, stops>>
    BY DEF World
  <1>4. CASE NextDay
    <2>1. day' = day + 1 /\ day' \in Days /\ UNCHANGED <<feedbackVars, worldVars>>
      BY <1>1, <1>2, <1>4 DEF NextDay, Days
    <2>2. FeedbackInv'
      BY <2>1, DayKeeps DEF WatchInv
    <2>3. \A d \in Days : d < day => OnTime(d)' = OnTime(d)
      BY <2>1, OnTimeStays DEF WatchInv
    <2> QED BY <2>1, <2>2, <2>3, <1>1, <1>3, AroundKeeps
  <1>5. ASSUME UNCHANGED day, SubmitStep \/ FeedbackStep, UNCHANGED worldVars
        PROVE  WatchInv'
    <2>1. FeedbackInv'
      BY <1>5, FeedbackKeeps DEF WatchInv
    <2>2. \A d \in Days : d < day => OnTime(d)' = OnTime(d)
      BY <1>5, OnTimeStays DEF WatchInv
    <2> QED BY <2>1, <2>2, <1>1, <1>3, <1>5, AroundKeeps
  <1>6. ASSUME UNCHANGED <<day, feedbackVars>>, writers' \subseteq Accounts,
               callers' \subseteq Accounts, callers \subseteq callers',
               internal' \in 0..MaxEvents, posts' \in 0..MaxEvents
        PROVE  WatchInv'
    <2>1. FeedbackInv'
      BY <1>1, <1>6, DayKeeps DEF WatchInv
    <2>2. \A d \in Days : d < day => OnTime(d)' = OnTime(d)
      BY <1>6, OnTimeStays DEF WatchInv
    <2>3. day' \in {day, day + 1}
      BY <1>6
    <2> QED BY <2>1, <2>2, <2>3, <1>3, <1>6, AroundKeeps
  <1>7. ASSUME Room(3)
        PROVE  internal + 1 \in 0..MaxEvents /\ posts + 1 \in 0..MaxEvents
    <2>1. Cardinality(writers) \in Nat /\ Cardinality(callers) \in Nat
      BY <1>1, FiniteAccounts
    <2>2. Sent \in Nat
      <3>1. {m \in Messages : msg[m].at # "unsent"} \in SUBSET Messages
        OBVIOUS
      <3> QED BY <3>1, FiniteMessages DEF Sent
    <2>3. 3 * (Cardinality(writers) + Cardinality(callers) + internal + posts) + 2 * (Sent + unheard) + 3
            <= MaxEvents
      BY <1>7 DEF Room, News
    <2>4. unheard \in Nat
      BY DEF WatchInv, FeedbackInv, FeedbackTypes
    <2> QED BY <2>1, <2>2, <2>3, <2>4, <1>1, <1>2
  <1>8. CASE Room(3) /\ RecordError
    BY <1>1, <1>6, <1>7, <1>8 DEF RecordError
  <1>9. CASE Room(3) /\ Posted
    BY <1>1, <1>6, <1>7, <1>9 DEF Posted
  <1>10. CASE \E a \in Accounts : RecordCall(a) \/ RecordMined(a)
    BY <1>1, <1>6, <1>10 DEF RecordCall, RecordMined
  <1> QED BY <1>4, <1>5, <1>8, <1>9, <1>10 DEF World

\* While a check goes on, the inbox is left as it is.
LEMMA InboxStays ==
  ASSUME WatchInv, UNCHANGED <<day, feedbackVars>>
  PROVE  FeedbackInv' /\ \A d \in Days : OnTime(d)' = OnTime(d)
  <1>1. FeedbackInv'
    <2>1. day' \in Days /\ day' \in {day, day + 1}
      BY DEF WatchInv, FeedbackInv, FeedbackTypes
    <2> QED BY <2>1, DayKeeps DEF WatchInv
  <1> QED BY <1>1 DEF OnTime, KeptOf, feedbackVars

\* A step of a run that has not read the file: what it has told and the file stay
\* as they are.
LEMMA EarlyKeeps ==
  ASSUME WatchInv, UNCHANGED <<day, feedbackVars, worldVars, stops, file, historyVars>>,
         run.at \in Early, run'.at = "asked", run' \in Runs, run'.out = run.out,
         run'.new.internal = run.new.internal, run'.new.x = run.new.x,
         run'.new.digestDay = run.new.digestDay,
         run'.new.signedIn <= Strangers + Cardinality(callers \cap run'.ask),
         run'.new.signedIn >= Cardinality(run'.ask) - Cardinality(Known)
  PROVE  WatchInv'
  <1> USE DEF worldVars, historyVars
  <1>1. FeedbackInv' /\ \A d \in Days : OnTime(d)' = OnTime(d)
    BY InboxStays
  <1>2. Types'
    BY DEF WatchInv, Types
  <1>3. Unsent' = {} /\ Unsent = {}
    BY DEF WatchInv, Reading, Unsent
  <1>4. Ranges' /\ Quiet' /\ SavedMeansTold' /\ CheckedDaysReported'
    BY DEF WatchInv, Ranges, Quiet, SavedMeansTold, CheckedDaysReported
  <1>5. SignIns'
    BY <1>3 DEF WatchInv, SignIns, Strangers
  <1>6. Current' /\ DigestsComplete'
    BY <1>3 DEF Current, DigestsComplete
  <1>7. Reading'
    BY <1>3 DEF WatchInv, Reading, Early, Late
  <1>8. Digests'
    BY <1>3 DEF WatchInv, Digests, Late
  <1>9. DigestComplete'
    BY <1>1 DEF WatchInv, DigestComplete, OnTime
  <1> QED BY <1>1, <1>2, <1>4, <1>5, <1>6, <1>7, <1>8, <1>9 DEF WatchInv

\* Ask.
LEMMA AskKeeps ==
  ASSUME WatchInv, Ask, UNCHANGED <<day, feedbackVars, worldVars, stops>>
  PROVE  WatchInv'
  <1> DEFINE n == Cardinality(callers)
             w == writers \ Known
  <1>1. run \in Runs /\ writers \subseteq Accounts /\ callers \in SUBSET Accounts
    BY DEF WatchInv, Types
  <1>2. n \in Nat /\ n = Strangers + Cardinality(callers \cap Known)
    <2>1. IsFiniteSet(callers) /\ n \in Nat
      BY <1>1, FiniteAccounts
    <2>2. Strangers = n - Cardinality(callers \cap Known)
      BY <2>1, FS_Difference DEF Strangers
    <2>3. Cardinality(callers \cap Known) \in Nat
      BY <1>1, FiniteAccounts
    <2> HIDE DEF n
    <2> QED BY <2>1, <2>2, <2>3
  <1>3. run' = [run EXCEPT !.at = "asked", !.ask = Known, !.new.writers = w, !.new.signedIn = n]
    BY DEF Ask
  <1>4. w \in SUBSET Outside
    BY <1>1 DEF Outside
  <1> HIDE DEF n, w
  <1>5. /\ run' \in Runs /\ run'.at = "asked" /\ run'.out = run.out /\ run'.ask = Known
        /\ run'.new.signedIn = n
        /\ run'.new.internal = run.new.internal /\ run'.new.x = run.new.x
        /\ run'.new.digestDay = run.new.digestDay
    <2> DEFINE new == [run.new EXCEPT !.writers = w, !.signedIn = n]
    <2>1. run.new \in Readings /\ run.out \in Seq(Notes)
      BY <1>1 DEF Runs
    <2>2. /\ new \in Readings /\ new.signedIn = n /\ new.internal = run.new.internal
          /\ new.x = run.new.x /\ new.digestDay = run.new.digestDay
      <3>1. new.signedIn = n
        BY <2>1 DEF Readings
      <3>2. new.internal = run.new.internal /\ new.x = run.new.x /\ new.digestDay = run.new.digestDay
        BY <2>1 DEF Readings
      <3>3. n \in Int
        BY <1>2
      <3>4. new \in Readings
        BY <2>1, <3>3, <1>4 DEF Readings
      <3> QED BY <3>1, <3>2, <3>4
    <2>3. run' = [run EXCEPT !.at = "asked", !.ask = Known, !.new = new]
      BY <1>1, <1>3, <2>1 DEF Runs, Readings
    <2> HIDE DEF new
    <2>4. /\ run'.at = "asked" /\ run'.out = run.out /\ run'.ask = Known /\ run'.new = new
      BY <2>3, <1>1 DEF Runs
    <2>5. run' \in Runs
      BY <2>2, <2>3, <1>1 DEF Runs, Phases
    <2> QED BY <2>2, <2>4, <2>5
  <1>6. Cardinality(Known) \in Nat
    BY StrangersTypes DEF WatchInv
  <1>7. run.at \in Early
    BY DEF Ask, Early
  <1> QED BY <1>2, <1>5, <1>6, <1>7, EarlyKeeps DEF Ask

\* LeaveOutKnown: one of the operator's own accounts is taken off if it is counted.
LEMMA LeaveOutKeeps ==
  ASSUME WatchInv, LeaveOutKnown, UNCHANGED <<day, feedbackVars, worldVars, stops>>
  PROVE  WatchInv'
  <1>1. run \in Runs /\ callers \in SUBSET Accounts /\ run.ask \in SUBSET Known /\ run.at = "asked"
    BY ReadingTypes DEF WatchInv, Types, LeaveOutKnown
  <1>2. PICK k \in run.ask :
          run' = [run EXCEPT !.ask = @ \ {k}, !.new.signedIn = IF k \in callers THEN @ - 1 ELSE @]
    BY DEF LeaveOutKnown
  <1> DEFINE ask == run.ask \ {k}
  <1>3. run.new.signedIn \in Int
    BY ReadingTypes, FieldTypes DEF WatchInv
  <1>4. /\ run' \in Runs /\ run'.at = "asked" /\ run'.out = run.out /\ run'.ask = ask
        /\ run'.new.signedIn = IF k \in callers THEN run.new.signedIn - 1 ELSE run.new.signedIn
        /\ run'.new.internal = run.new.internal /\ run'.new.x = run.new.x
        /\ run'.new.digestDay = run.new.digestDay
    <2> DEFINE n == IF k \in callers THEN run.new.signedIn - 1 ELSE run.new.signedIn
               new == [run.new EXCEPT !.signedIn = n]
    <2>1. run.new \in Readings /\ n \in Int
      BY <1>1, <1>3 DEF Runs
    <2>2. run' = [run EXCEPT !.ask = ask, !.new = new]
      BY <1>1, <1>2, <2>1 DEF Runs, Readings
    <2> HIDE DEF n
    <2>3. /\ new \in Readings /\ new.signedIn = n /\ new.internal = run.new.internal
          /\ new.x = run.new.x /\ new.digestDay = run.new.digestDay
      BY <2>1 DEF Readings
    <2> HIDE DEF new
    <2>4. /\ run'.at = run.at /\ run'.out = run.out /\ run'.ask = ask /\ run'.new = new
      BY <2>2, <1>1 DEF Runs
    <2>5. run' \in Runs
      BY <2>2, <2>3, <1>1 DEF Runs
    <2> QED BY <1>1, <2>3, <2>4, <2>5 DEF n
  <1>5. run.ask \in SUBSET Accounts /\ callers \cap run.ask \in SUBSET Accounts
    BY <1>1, StrangersTypes DEF WatchInv
  <1>6. /\ IsFiniteSet(run.ask) /\ Cardinality(run.ask) \in Nat
        /\ IsFiniteSet(callers \cap run.ask) /\ Cardinality(callers \cap run.ask) \in Nat
    BY <1>5, FiniteAccounts
  <1>7. Cardinality(ask) = Cardinality(run.ask) - 1
    BY <1>6, FS_RemoveElement
  <1>8. Cardinality(callers \cap ask) =
          IF k \in callers THEN Cardinality(callers \cap run.ask) - 1
          ELSE Cardinality(callers \cap run.ask)
    <2>1. callers \cap ask = (callers \cap run.ask) \ {k}
      OBVIOUS
    <2>2. k \in callers \cap run.ask <=> k \in callers
      OBVIOUS
    <2> DEFINE both == callers \cap run.ask
    <2>3. IsFiniteSet(both)
      BY <1>6
    <2> HIDE DEF both
    <2>4. Cardinality(both \ {k}) = IF k \in both THEN Cardinality(both) - 1 ELSE Cardinality(both)
      BY <2>3, FS_RemoveElement
    <2> QED BY <2>1, <2>2, <2>4 DEF both
  <1>9. /\ run.new.signedIn <= Strangers + Cardinality(callers \cap run.ask)
        /\ run.new.signedIn >= Cardinality(run.ask) - Cardinality(Known)
    BY <1>1 DEF WatchInv, SignIns
  <1>10. Strangers \in Nat /\ Cardinality(Known) \in Nat
    BY StrangersTypes DEF WatchInv
  <1> HIDE DEF ask
  <1>11. /\ run'.new.signedIn <= Strangers + Cardinality(callers \cap run'.ask)
         /\ run'.new.signedIn >= Cardinality(run'.ask) - Cardinality(Known)
    BY <1>3, <1>4, <1>6, <1>7, <1>8, <1>9, <1>10
  <1>12. run.at \in Early
    BY <1>1 DEF Early
  <1> QED BY <1>4, <1>11, <1>12, EarlyKeeps DEF LeaveOutKnown

\* With nobody left to ask for, the number is that of other people.
LEMMA NobodyLeft ==
  ASSUME WatchInv, run.at = "asked", run.ask = {}
  PROVE  run.new.signedIn <= Strangers /\ run.new.signedIn >= -Cardinality(Known)
  <1>1. callers \cap run.ask = {} /\ Cardinality({}) = 0
    BY FS_EmptySet
  <1>2. Cardinality(callers \cap run.ask) = 0 /\ Cardinality(run.ask) = 0
    BY <1>1
  <1>3. /\ run.new.signedIn \in Int /\ Strangers \in Nat /\ Cardinality(Known) \in Nat
    BY ReadingTypes, FieldTypes, StrangersTypes DEF WatchInv
  <1>4. /\ run.new.signedIn <= Strangers + Cardinality(callers \cap run.ask)
        /\ run.new.signedIn >= Cardinality(run.ask) - Cardinality(Known)
    BY DEF WatchInv, SignIns
  <1> QED BY <1>2, <1>3, <1>4

\* Baseline.
LEMMA BaselineKeeps ==
  ASSUME WatchInv, Baseline, UNCHANGED <<day, feedbackVars, worldVars, stops>>
  PROVE  WatchInv'
  <1> USE DEF worldVars
  <1>1. FeedbackInv' /\ \A d \in Days : OnTime(d)' = OnTime(d)
    BY InboxStays
  <1>2. /\ run \in Runs /\ told \in Told /\ run.new \in Readings
        /\ run.new.writers \in SUBSET Outside /\ run.new.signedIn \in Int
    BY ReadingTypes, FieldTypes DEF WatchInv, Types
  <1>3. run.new.signedIn <= Strangers /\ run.new.signedIn >= -Cardinality(Known)
    BY NobodyLeft DEF Baseline
  <1>4. /\ run' \in Runs /\ run'.at = "sending" /\ run'.out = run.out /\ run'.new = run.new
        /\ run'.ask = run.ask
    BY <1>2 DEF Baseline, Runs, Phases
  <1>5. /\ told' \in Told /\ told'.writers = run.new.writers /\ told'.signedIn = run.new.signedIn
        /\ told'.internal = told.internal /\ told'.x = told.x
    BY <1>2 DEF Baseline, Told
  <1>6. file = Missing /\ file.state # "saved" /\ file # Broken /\ run.at \in Early
    BY DEF Baseline, Missing, Broken, Early
  <1>7. /\ Unsent = {} /\ Unsent' = {} /\ run.new.internal = None /\ run.new.x = None
        /\ run.new.digestDay = None
    BY <1>4, <1>6 DEF WatchInv, Reading, Unsent
  <1>8. told.internal = None /\ told.x = None /\ checked = {}
    BY <1>6 DEF WatchInv, Quiet
  <1>9. UNCHANGED <<file, digests, checked>>
    BY DEF Baseline
  <1>10. Types'
    BY <1>4, <1>5, <1>9 DEF WatchInv, Types
  <1>11. Ranges' /\ Quiet' /\ SavedMeansTold' /\ CheckedDaysReported'
    BY <1>4, <1>5, <1>6, <1>8, <1>9
    DEF WatchInv, Ranges, Quiet, SavedMeansTold, CheckedDaysReported
  <1>12. SignIns'
    BY <1>3, <1>4, <1>5, <1>7 DEF SignIns, Strangers
  <1>13. Current' /\ DigestsComplete'
    BY <1>7 DEF Current, DigestsComplete
  <1>14. Reading'
    BY <1>2, <1>4, <1>5, <1>6, <1>7, <1>8, <1>9 DEF Reading, Covered, Early, Late
  <1>15. Digests'
    BY <1>4, <1>6, <1>7, <1>9 DEF WatchInv, Digests
  <1>16. DigestComplete'
    BY <1>1, <1>9 DEF WatchInv, DigestComplete, OnTime
  <1> QED BY <1>1, <1>10, <1>11, <1>12, <1>13, <1>14, <1>15, <1>16 DEF WatchInv

\* Compare: for every number that has grown there is a message.
LEMMA CompareKeeps ==
  ASSUME WatchInv, Compare, UNCHANGED <<day, feedbackVars, worldVars, stops>>
  PROVE  WatchInv'
  <1> USE DEF worldVars, historyVars
  <1> PICK grown : grown = WriterNews \o SignInNews \o InternalNews
    OBVIOUS
  <1>1. FeedbackInv' /\ \A d \in Days : OnTime(d)' = OnTime(d)
    BY InboxStays
  <1>2. /\ run \in Runs /\ run.new \in Readings /\ file \in Readings /\ file.state = "saved"
        /\ file # Missing /\ file # Broken /\ run.at = "asked" /\ run.ask = {}
    BY ReadingTypes DEF WatchInv, Types, Compare
  <1>3. /\ run.new.writers \in SUBSET Outside /\ run.new.signedIn \in Int
        /\ file.writers \in SUBSET Outside /\ file.signedIn \in Int
        /\ file.internal \in Int /\ file.x \in Int /\ file.digestDay \in Int
    BY <1>2, FieldTypes
  <1>4. /\ told.signedIn \in Int /\ told.internal \in Int /\ told.x \in Int
        /\ internal \in 0..MaxEvents /\ MaxEvents \in Nat /\ day \in Days /\ day \in Nat
    BY ToldTypes, WatcherAssumption
    DEF WatcherAssumption, WatchInv, Types, FeedbackInv, FeedbackTypes, Days
  <1>5. run.new.signedIn <= Strangers /\ run.new.signedIn >= -Cardinality(Known)
    BY <1>2, NobodyLeft
  <1>6. /\ WriterNews \in Seq(Notes)
        /\ \A m \in Within(WriterNews) : m.kind = "writer"
        /\ \A a \in run.new.writers \ file.writers :
             \E m \in Within(WriterNews) : m.kind = "writer" /\ m.of = a
    BY <1>3, NewsOfWriters
  <1>7. /\ SignInNews \in Seq(Notes)
        /\ \A m \in Within(SignInNews) : m.kind = "signedIn" /\ m.of = run.new.signedIn
        /\ run.new.signedIn > file.signedIn =>
             \E m \in Within(SignInNews) : m.kind = "signedIn"
    <2> DEFINE m == [kind |-> "signedIn", of |-> run.new.signedIn, count |-> 0]
    <2>1. m \in Notes /\ m.kind = "signedIn" /\ m.of = run.new.signedIn
      BY <1>3 DEF Notes, Numbers
    <2>2. Within(<<m>>) = {m}
      BY WithinOne
    <2>3. SignInNews = IF run.new.signedIn > file.signedIn THEN <<m>> ELSE <<>>
      BY DEF SignInNews, Tell
    <2> HIDE DEF m
    <2> QED BY <2>1, <2>2, <2>3, WithinNone
  <1>8. /\ InternalNews \in Seq(Notes)
        /\ \A m \in Within(InternalNews) :
             m.kind = "internal" /\ m.of = internal /\ file.internal # None
        /\ file.internal # None /\ internal > file.internal =>
             \E m \in Within(InternalNews) : m.kind = "internal"
    <2> DEFINE m == [kind |-> "internal", of |-> internal, count |-> 0]
    <2>1. m \in Notes /\ m.kind = "internal" /\ m.of = internal
      BY <1>4 DEF Notes, Numbers
    <2>2. Within(<<m>>) = {m}
      BY WithinOne
    <2>3. InternalNews = IF file.internal # None /\ internal > file.internal THEN <<m>> ELSE <<>>
      BY DEF InternalNews, Tell
    <2> HIDE DEF m
    <2> QED BY <2>1, <2>2, <2>3, WithinNone
  <1>9. /\ grown \in Seq(Notes)
        /\ Within(grown) = Within(WriterNews) \cup Within(SignInNews) \cup Within(InternalNews)
    <2> PICK first : first = WriterNews \o SignInNews
      OBVIOUS
    <2>1. first \in Seq(Notes) /\ Within(first) = Within(WriterNews) \cup Within(SignInNews)
      BY <1>6, <1>7, WithinBoth
    <2>2. grown \in Seq(Notes) /\ Within(grown) = Within(first) \cup Within(InternalNews)
      <3>1. grown = first \o InternalNews
        OBVIOUS
      <3> QED BY <2>1, <3>1, <1>8, WithinBoth
    <2> QED BY <2>1, <2>2
  <1>10. run' = [run EXCEPT !.at = "compared", !.new.digestDay = day, !.new.internal = internal,
                            !.out = grown]
    BY DEF Compare
  <1>11. /\ run' \in Runs /\ run'.at = "compared" /\ run'.out = grown /\ run'.ask = run.ask
         /\ run'.new.signedIn = run.new.signedIn /\ run'.new.writers = run.new.writers
         /\ run'.new.internal = internal /\ run'.new.digestDay = day /\ run'.new.x = run.new.x
    <2> DEFINE new == [run.new EXCEPT !.digestDay = day, !.internal = internal]
    <2>1. /\ new.signedIn = run.new.signedIn /\ new.writers = run.new.writers
          /\ new.internal = internal /\ new.digestDay = day /\ new.x = run.new.x
      BY <1>2 DEF Readings
    <2>2. new \in Readings
      <3>1. day \in Days \cup {None} /\ internal \in Int
        BY <1>4
      <3> QED BY <1>2, <3>1 DEF Readings
    <2>3. run' = [run EXCEPT !.at = "compared", !.new = new, !.out = grown]
      BY <1>2, <1>10 DEF Runs, Readings
    <2> HIDE DEF new
    <2>4. run'.at = "compared" /\ run'.out = grown /\ run'.ask = run.ask /\ run'.new = new
      BY <1>2, <2>3 DEF Runs
    <2>5. run' \in Runs
      BY <1>2, <1>9, <2>2, <2>3 DEF Runs, Phases
    <2> QED BY <2>1, <2>4, <2>5
  <1>12. /\ Unsent' = Within(WriterNews) \cup Within(SignInNews) \cup Within(InternalNews)
         /\ \A m \in Unsent' : m.kind \in {"writer", "signedIn", "internal"}
         /\ \A m \in Unsent' : m.kind = "signedIn" => m.of = run.new.signedIn
         /\ \A m \in Unsent' : m.kind = "internal" => m.of = internal /\ file.internal # None
    BY <1>6, <1>7, <1>8, <1>9, <1>11 DEF Unsent
  <1>13. UNCHANGED <<file, told, digests, checked>>
    BY DEF Compare
  <1>14. run.new.x = None
    BY <1>2 DEF WatchInv, Reading, Early
  <1>15. Types'
    BY <1>11, <1>13 DEF WatchInv, Types
  <1>16. Ranges' /\ Quiet' /\ SavedMeansTold' /\ CheckedDaysReported'
    BY <1>4, <1>11, <1>13, <1>14
    DEF WatchInv, Ranges, Quiet, SavedMeansTold, CheckedDaysReported, InRange, None
  <1>17. SignIns'
    BY <1>5, <1>11, <1>12, <1>13 DEF WatchInv, SignIns, Strangers
  <1>18. Current' /\ DigestsComplete'
    BY <1>2, <1>11, <1>12, <1>13 DEF Current, DigestsComplete, Numbers
  <1>19. Reading'
    <2>1. \A a \in run.new.writers :
            a \in told.writers \/ \E m \in Unsent' : m.kind = "writer" /\ m.of = a
      BY <1>2, <1>6, <1>12 DEF WatchInv, SavedMeansTold
    <2>2. run.new.signedIn <= told.signedIn \/ \E m \in Unsent' : m.kind = "signedIn"
      <3>1. file.signedIn <= told.signedIn
        BY <1>2 DEF WatchInv, SavedMeansTold
      <3> QED BY <3>1, <1>3, <1>4, <1>7, <1>12
    <2>3. \/ internal <= told.internal \/ \E m \in Unsent' : m.kind = "internal"
          \/ told.internal = None
      <3>1. file.internal <= told.internal /\ (file.internal = None => told.internal = None)
        BY <1>2 DEF WatchInv, SavedMeansTold, Quiet
      <3> QED BY <3>1, <1>3, <1>4, <1>8, <1>12
    <2>4. internal # None
      BY <1>4 DEF None
    <2>5. Covered("signedIn")' /\ Covered("internal")'
      BY <2>2, <2>3, <1>11, <1>13 DEF Covered
    <2>6. run'.at = "compared" /\ file.state = "saved" /\ file # Broken /\ file # Missing
      BY <1>2, <1>11
    <2>7. \A m \in Unsent' : m.kind # "x"
      BY <1>12
    <2> HIDE DEF Unsent, Covered
    <2> QED BY <2>1, <2>4, <2>5, <2>6, <2>7, <1>11, <1>13 DEF Reading, Early, Late
  <1>20. Digests'
    <2>1. /\ run'.at = "compared" /\ run'.new.digestDay = day /\ day # None /\ day <= day
      BY <1>4, <1>11 DEF None
    <2>2. \A m \in Unsent' : m.kind # "digest"
      BY <1>12
    <2>3. file.digestDay <= day
      BY <1>2 DEF WatchInv, Digests
    <2> HIDE DEF Unsent
    <2> QED BY <2>1, <2>2, <2>3, <1>13 DEF WatchInv, Digests
  <1>21. DigestComplete'
    BY <1>1, <1>13 DEF WatchInv, DigestComplete, OnTime
  <1> QED BY <1>1, <1>15, <1>16, <1>17, <1>18, <1>19, <1>20, <1>21 DEF WatchInv

\* Digest: that of an earlier day, complete as far as its messages were kept in time.
LEMMA DigestIsComplete ==
  ASSUME WatchInv, run.at = "compared"
  PROVE  /\ Digest \in Seq(Notes)
         /\ \A m \in Within(Digest) :
              /\ m.kind = "digest" /\ m.of = file.digestDay /\ m.of \in Days /\ m.of < day
              /\ m.count >= Cardinality(OnTime(m.of))
         /\ file.digestDay \notin {None, run.new.digestDay} =>
              \E m \in Within(Digest) : m.kind = "digest" /\ m.of = file.digestDay
  <1> PICK d : d = file.digestDay
    OBVIOUS
  <1>1. CASE d \in {None, run.new.digestDay}
    <2>1. Digest = <<>>
      BY <1>1 DEF Digest
    <2> QED BY <1>1, <2>1, WithinNone
  <1>2. CASE d \notin {None, run.new.digestDay}
    <2> DEFINE m == [kind |-> "digest", of |-> d, count |-> daily[d]]
    <2>1. file.state = "saved" /\ run.at \in Late
      BY DEF WatchInv, Reading, Late
    <2>2. d \in Days /\ d \in Int /\ run.new.digestDay \in Int /\ day \in Int
      BY <1>2, <2>1, ReadingTypes, FieldTypes DEF WatchInv, FeedbackInv, FeedbackTypes, Days
    <2>3. d <= run.new.digestDay /\ run.new.digestDay <= day
      BY <2>1 DEF WatchInv, Digests
    <2>4. d < day
      BY <1>2, <2>2, <2>3
    <2>5. daily[d] >= Cardinality(OnTime(d)) /\ daily[d] \in Nat
      <3>1. daily[d] = Cardinality(KeptOf(d)) + again[d] /\ daily[d] \in Nat /\ again[d] \in Nat
        BY <2>2 DEF WatchInv, FeedbackInv, FeedbackTypes, Filed
      <3>2. KeptOf(d) \in SUBSET Messages /\ OnTime(d) \in SUBSET KeptOf(d)
        BY DEF KeptOf, OnTime
      <3>3. Cardinality(OnTime(d)) <= Cardinality(KeptOf(d)) /\ Cardinality(OnTime(d)) \in Nat
        BY <3>2, NoMore, FiniteMessages
      <3>4. Cardinality(KeptOf(d)) \in Nat
        BY <3>2, FiniteMessages
      <3> QED BY <3>1, <3>3, <3>4
    <2>6. m \in Notes /\ m.kind = "digest" /\ m.of = d /\ m.count = daily[d]
      BY <2>2, <2>5 DEF Notes
    <2>7. Digest = <<m>>
      BY <1>2 DEF Digest, Tell
    <2>8. Within(<<m>>) = {m}
      BY WithinOne
    <2> HIDE DEF m
    <2> QED BY <2>2, <2>4, <2>5, <2>6, <2>7, <2>8
  <1> QED BY <1>1, <1>2

\* ReadCounters, with what it has read of X and what it says about it.
LEMMA CountersKeep ==
  ASSUME WatchInv, run.at = "compared", UNCHANGED <<day, feedbackVars, worldVars, stops>>,
         UNCHANGED <<file, historyVars>>,
         NEW x \in None..MaxEvents, NEW said \in Seq(Notes),
         \A m \in Within(said) : m.kind = "x" /\ m.of = x /\ file.x # None,
         x <= told.x \/ (\E m \in Within(said) : m.kind = "x") \/ told.x = None,
         x = None => told.x = None,
         run' = [run EXCEPT !.at = "sending", !.new.x = x, !.out = @ \o Digest \o said]
  PROVE  WatchInv'
  <1> USE DEF worldVars, historyVars
  <1>1. FeedbackInv' /\ \A d \in Days : OnTime(d)' = OnTime(d)
    BY InboxStays
  <1>2. /\ run \in Runs /\ run.new \in Readings /\ run.out \in Seq(Notes)
        /\ file \in Readings /\ file.state = "saved" /\ file # Missing /\ file # Broken
        /\ run.at \in Late /\ \A m \in Unsent : m.kind # "x"
    <2>1. file.state = "saved" /\ run.at \in Late /\ \A m \in Unsent : m.kind # "x"
      BY DEF WatchInv, Reading, Late
    <2> QED BY <2>1, ReadingTypes DEF WatchInv, Types
  <1>3. /\ Digest \in Seq(Notes)
        /\ \A m \in Within(Digest) :
             /\ m.kind = "digest" /\ m.of = file.digestDay /\ m.of \in Days /\ m.of < day
             /\ m.count >= Cardinality(OnTime(m.of))
        /\ file.digestDay \notin {None, run.new.digestDay} =>
             \E m \in Within(Digest) : m.kind = "digest" /\ m.of = file.digestDay
    BY DigestIsComplete
  <1> PICK out : out = run.out \o Digest \o said
    OBVIOUS
  <1>4. /\ out \in Seq(Notes)
        /\ Within(out) = Unsent \cup Within(Digest) \cup Within(said)
    <2> PICK first : first = run.out \o Digest
      OBVIOUS
    <2>1. first \in Seq(Notes) /\ Within(first) = Unsent \cup Within(Digest)
      BY <1>2, <1>3, WithinBoth DEF Unsent
    <2>2. out = first \o said
      OBVIOUS
    <2>3. out \in Seq(Notes) /\ Within(out) = Within(first) \cup Within(said)
      BY <2>1, <2>2, WithinBoth
    <2> QED BY <2>1, <2>3
  <1>5. MaxEvents \in Nat /\ x \in Int
    BY WatcherAssumption DEF WatcherAssumption, None
  <1>6. /\ run' \in Runs /\ run'.at = "sending" /\ run'.out = out /\ run'.ask = run.ask
        /\ run'.new.signedIn = run.new.signedIn /\ run'.new.writers = run.new.writers
        /\ run'.new.internal = run.new.internal /\ run'.new.digestDay = run.new.digestDay
        /\ run'.new.x = x
    <2> DEFINE new == [run.new EXCEPT !.x = x]
    <2>1. /\ new.signedIn = run.new.signedIn /\ new.writers = run.new.writers
          /\ new.internal = run.new.internal /\ new.digestDay = run.new.digestDay /\ new.x = x
      BY <1>2 DEF Readings
    <2>2. new \in Readings
      BY <1>2, <1>5 DEF Readings
    <2>3. run' = [run EXCEPT !.at = "sending", !.new = new, !.out = out]
      BY <1>2 DEF Runs, Readings
    <2> HIDE DEF new
    <2>4. run'.at = "sending" /\ run'.out = out /\ run'.ask = run.ask /\ run'.new = new
      BY <1>2, <2>3 DEF Runs
    <2>5. run' \in Runs
      BY <1>2, <1>4, <2>2, <2>3 DEF Runs, Phases
    <2> QED BY <2>1, <2>4, <2>5
  <1>7. Unsent' = Unsent \cup Within(Digest) \cup Within(said)
    BY <1>4, <1>6 DEF Unsent
  <1>8. Types'
    BY <1>6 DEF WatchInv, Types
  <1> HIDE DEF Unsent
  <1>9. Ranges' /\ Quiet' /\ SavedMeansTold' /\ CheckedDaysReported'
    BY <1>6 DEF WatchInv, Ranges, InRange, Quiet, SavedMeansTold, CheckedDaysReported
  <1>10. SignIns'
    BY <1>2, <1>3, <1>6, <1>7 DEF WatchInv, SignIns, Strangers, Late
  <1>11. Current'
    <2>1. \A m \in Unsent : m.kind \in Numbers => m.of = run'.new[m.kind]
      BY <1>2, <1>6 DEF WatchInv, Current, Numbers
    <2>2. \A m \in Within(Digest) : m.kind \notin Numbers \cup {"internal", "x"}
      BY <1>3 DEF Numbers
    <2>3. \A m \in Within(said) : m.kind = "x" /\ m.of = run'.new[m.kind] /\ file[m.kind] # None
      BY <1>6
    <2>4. \A m \in Unsent' : m.kind \in Numbers => m.of = run'.new[m.kind]
      BY <1>7, <2>1, <2>2, <2>3
    <2>5. \A m \in Unsent' : m.kind \in {"internal", "x"} => file.state = "saved" /\ file[m.kind] # None
      BY <1>2, <1>7, <2>2, <2>3 DEF WatchInv, Current
    <2> QED BY <2>4, <2>5 DEF Current
  <1>12. DigestsComplete'
    <2>1. \A m \in Unsent : m.kind = "digest" => m.of \in Days
      BY ReadingTypes, NoteTypes DEF WatchInv
    <2>2. \A m \in Unsent' : m.kind = "digest" =>
            m.of \in Days /\ m.count >= Cardinality(OnTime(m.of))
      BY <2>1, <1>3, <1>7 DEF WatchInv, DigestsComplete
    <2>3. \A m \in Unsent' : m.kind = "digest" => m.count >= Cardinality(OnTime(m.of)')
      BY <2>2, <1>1
    <2> QED BY <2>3 DEF DigestsComplete
  <1>13. Reading'
    <2>1. Covered("x")'
      BY <1>6, <1>7 DEF Covered
    <2>2. Covered("signedIn")' /\ Covered("internal")'
      BY <1>2, <1>6, <1>7 DEF WatchInv, Reading, Covered
    <2>3. \A a \in run'.new.writers :
            a \in told.writers \/ \E m \in Unsent' : m.kind = "writer" /\ m.of = a
      BY <1>2, <1>6, <1>7 DEF WatchInv, Reading
    <2>4. run'.new.internal = None => told.internal = None
      BY <1>2, <1>6 DEF WatchInv, Reading
    <2>5. run'.new.x = None => told.x = None
      BY <1>6
    <2> HIDE DEF Covered
    <2> QED BY <2>1, <2>2, <2>3, <2>4, <2>5, <1>2, <1>6 DEF Reading, Early, Late
  <1>14. Digests'
    <2>1. \A m \in Unsent' : m.kind = "digest" => m.of < day
      BY <1>3, <1>7 DEF WatchInv, Digests
    <2>2. run'.new.digestDay <= day /\ run'.new.digestDay # None /\ file.digestDay <= run'.new.digestDay
      BY <1>2, <1>6 DEF WatchInv, Digests
    <2>3. \/ file.digestDay \in {None, run'.new.digestDay}
          \/ \E m \in Unsent' : m.kind = "digest" /\ m.of = file.digestDay
      BY <1>3, <1>6, <1>7
    <2> QED BY <2>1, <2>2, <2>3, <1>6 DEF WatchInv, Digests
  <1>15. DigestComplete'
    BY <1>1 DEF WatchInv, DigestComplete, OnTime
  <1> QED BY <1>1, <1>8, <1>9, <1>10, <1>11, <1>12, <1>13, <1>14, <1>15 DEF WatchInv

\* ReadCounters: X answers, or its part stays as it was.
LEMMA ReadCountersKeeps ==
  ASSUME WatchInv, ReadCounters, UNCHANGED <<day, feedbackVars, worldVars, stops>>
  PROVE  WatchInv'
  <1>1. run.at = "compared" /\ UNCHANGED <<file, historyVars>>
    BY DEF ReadCounters
  <1>2. file.state = "saved" /\ file \in Readings /\ run.out \in Seq(Notes)
    BY <1>1, ReadingTypes DEF WatchInv, Reading
  <1>3. file.x \in Int /\ told.x \in Int /\ file.x \in None..MaxEvents
    BY <1>2, FieldTypes, ToldTypes DEF WatchInv, Ranges, InRange
  <1>4. posts \in 0..MaxEvents /\ MaxEvents \in Nat
    BY WatcherAssumption DEF WatcherAssumption, WatchInv, Types
  <1>5. file.x <= told.x /\ (file.x = None => told.x = None)
    BY <1>2 DEF WatchInv, SavedMeansTold, Quiet
  <1>6. Digest \in Seq(Notes)
    BY <1>1, DigestIsComplete
  <1>7. run.out \o Digest \in Seq(Notes)
    BY <1>2, <1>6, WithinBoth
  <1>8. CASE run' = [run EXCEPT !.at = "sending", !.new.x = file.x, !.out = @ \o Digest]
    <2>1. run.out \o Digest \o <<>> = run.out \o Digest
      BY <1>7, ConcatEmptySeq
    <2>2. run' = [run EXCEPT !.at = "sending", !.new.x = file.x, !.out = @ \o Digest \o <<>>]
      BY <1>8, <2>1
    <2>3. <<>> \in Seq(Notes)
      OBVIOUS
    <2> QED BY <2>2, <2>3, <1>1, <1>3, <1>5, WithinNone, CountersKeep
  <1>9. CASE run' = [run EXCEPT !.at = "sending", !.new.x = posts, !.out = @ \o Digest \o Mentions]
    <2> DEFINE m == [kind |-> "x", of |-> posts, count |-> Shown]
    <2>1. m \in Notes /\ m.kind = "x" /\ m.of = posts
      <3>1. Shown \in Int
        BY <1>3, <1>4, WatcherAssumption DEF Shown, WatcherAssumption
      <3> QED BY <3>1, <1>4 DEF Notes, Numbers
    <2>2. Within(<<m>>) = {m}
      BY WithinOne
    <2>3. Mentions = IF file.x = None \/ posts = file.x THEN <<>> ELSE <<m>>
      BY DEF Mentions, Tell
    <2> HIDE DEF m
    <2>4. /\ Mentions \in Seq(Notes)
          /\ \A n \in Within(Mentions) : n.kind = "x" /\ n.of = posts /\ file.x # None
          /\ file.x # None /\ posts # file.x => \E n \in Within(Mentions) : n.kind = "x"
      BY <2>1, <2>2, <2>3, WithinNone
    <2>5. posts <= told.x \/ (\E n \in Within(Mentions) : n.kind = "x") \/ told.x = None
      BY <2>4, <1>3, <1>5
    <2>6. posts \in None..MaxEvents /\ posts # None
      BY <1>4 DEF None
    <2> QED BY <2>4, <2>5, <2>6, <1>1, <1>9, CountersKeep
  <1> QED BY <1>8, <1>9 DEF ReadCounters

\* A message comes: what has been told and the file still agree.
LEMMA HeardSettles ==
  ASSUME WatchInv, NEW m \in Unsent, run.at = "sending", Heard(m),
         UNCHANGED <<day, feedbackVars, worldVars, stops, file, checked>>
  PROVE  Settled'
  <1> USE DEF worldVars
  <1>1. \A d \in Days : OnTime(d)' = OnTime(d)
    BY InboxStays
  <1>2. /\ told.signedIn <= told'.signedIn /\ told.internal <= told'.internal /\ told.x <= told'.x
        /\ told' \in Told /\ told.writers \subseteq told'.writers /\ told'.signedIn <= Strangers
        /\ m.kind # "internal" => told'.internal = told.internal
        /\ m.kind # "x" => told'.x = told.x
    BY HeardTells
  <1>3. /\ \A d \in Days : digests[d] # None => digests'[d] # None
        /\ \A d \in Days : \/ digests'[d] = digests[d]
                           \/ m.kind = "digest" /\ m.of = d /\ digests'[d] = m.count
    BY HeardDigests DEF WatchInv
  <1>4. /\ told.signedIn \in Int /\ told.internal \in Int /\ told.x \in Int
        /\ told'.signedIn \in Int /\ told'.internal \in Int /\ told'.x \in Int
    BY <1>2, ToldTypes DEF WatchInv, Told
  <1>5. file # Missing /\ (file.state = "saved" => file \in Readings)
    BY ReadingTypes DEF WatchInv, Reading
  <1>6. file.state = "saved" =>
          /\ file.internal = None => m.kind # "internal"
          /\ file.x = None => m.kind # "x"
    BY DEF WatchInv, Current
  <1>7. Quiet'
    BY <1>2, <1>5, <1>6 DEF WatchInv, Quiet
  <1>8. SavedMeansTold'
    <2>1. file.state = "saved" => file.signedIn \in Int /\ file.internal \in Int /\ file.x \in Int
      BY <1>5, FieldTypes
    <2> QED BY <2>1, <1>2, <1>4 DEF WatchInv, SavedMeansTold
  <1>9. CheckedDaysReported'
    <2>1. checked \subseteq Days
      BY DEF WatchInv, Types
    <2> QED BY <2>1, <1>3 DEF WatchInv, CheckedDaysReported
  <1>10. \A d \in Days : digests'[d] # None => d < day
    BY <1>3 DEF WatchInv, Digests
  <1>11. DigestComplete'
    <2>1. \A d \in Days : digests'[d] # None => digests'[d] >= Cardinality(OnTime(d))
      BY <1>3 DEF WatchInv, DigestsComplete, DigestComplete, OnTime
    <2>2. \A d \in Days : digests'[d] # None => digests'[d] >= Cardinality(OnTime(d)')
      BY <2>1, <1>1
    <2> QED BY <2>2 DEF DigestComplete, OnTime
  <1> QED BY <1>2, <1>7, <1>8, <1>9, <1>10, <1>11
      DEF WatchInv, Settled, Ranges, InRange, Digests, Strangers

\* Send: the first message has come, and the others are still to be sent.
LEMMA SendKeeps ==
  ASSUME WatchInv, Send, UNCHANGED <<day, feedbackVars, worldVars, stops>>
  PROVE  WatchInv'
  <1> USE DEF worldVars
  <1>1. FeedbackInv' /\ \A d \in Days : OnTime(d)' = OnTime(d)
    BY InboxStays
  <1> PICK m : m = Head(run.out)
    OBVIOUS
  <1>2. /\ run.at = "sending" /\ run.out # <<>> /\ Heard(m)
        /\ run' = [run EXCEPT !.out = Tail(@)] /\ UNCHANGED <<file, checked>>
    BY DEF Send, Sends
  <1>3. run \in Runs /\ run.new \in Readings /\ run.out \in Seq(Notes)
    BY ReadingTypes DEF WatchInv, Types
  <1>4. /\ m \in Notes /\ m \in Unsent /\ Tail(run.out) \in Seq(Notes)
        /\ Unsent = Within(Tail(run.out)) \cup {m}
    BY <1>2, <1>3, WithinTail DEF Unsent
  <1>5. /\ run' \in Runs /\ run'.at = "sending" /\ run'.out = Tail(run.out)
        /\ run'.new = run.new /\ run'.ask = run.ask
    BY <1>2, <1>3, <1>4 DEF Runs
  <1>6. Unsent = Unsent' \cup {m} /\ Unsent' \subseteq Unsent
    BY <1>4, <1>5 DEF Unsent
  <1> HIDE DEF Unsent
  <1>7. Settled'
    BY <1>2, <1>4, HeardSettles
  <1>8. /\ told.signedIn <= told'.signedIn /\ told.internal <= told'.internal /\ told.x <= told'.x
        /\ told' \in Told /\ told.writers \subseteq told'.writers
        /\ m.kind = "writer" => m.of \in told'.writers
        /\ m.kind = "signedIn" => m.of <= told'.signedIn
        /\ m.kind = "internal" => m.of <= told'.internal
        /\ m.kind = "x" => m.of <= told'.x
        /\ m.kind # "internal" \/ m.of = told.internal => told'.internal = told.internal
        /\ m.kind # "x" \/ m.of = told.x => told'.x = told.x
    BY <1>2, <1>4, HeardTells
  <1>9. /\ digests' \in [Days -> Nat \cup {None}]
        /\ \A d \in Days : digests[d] # None => digests'[d] # None
        /\ m.kind = "digest" => digests'[m.of] # None
    BY <1>2, <1>4, HeardDigests DEF WatchInv
  <1>10. /\ told.signedIn \in Int /\ told.internal \in Int /\ told.x \in Int
         /\ told'.signedIn \in Int /\ told'.internal \in Int /\ told'.x \in Int
         /\ run.new.signedIn \in Int /\ run.new.internal \in Int /\ run.new.x \in Int
    BY <1>3, <1>8, FieldTypes, ToldTypes DEF WatchInv, Told
  <1>11. Types'
    BY <1>2, <1>5, <1>8, <1>9 DEF WatchInv, Types
  <1>12. Ranges' /\ Current'
    BY <1>2, <1>5, <1>6 DEF WatchInv, Ranges, Current
  <1>13. SignIns'
    BY <1>2, <1>5, <1>6, <1>7 DEF WatchInv, SignIns, Strangers, Settled
  <1>14. DigestsComplete'
    <2>1. \A n \in Unsent' : n.kind = "digest" =>
            n.of \in Days /\ n.count >= Cardinality(OnTime(n.of))
      BY <1>6, ReadingTypes, NoteTypes DEF WatchInv, DigestsComplete
    <2>2. \A n \in Unsent' : n.kind = "digest" => n.count >= Cardinality(OnTime(n.of)')
      BY <2>1, <1>1
    <2> QED BY <2>2 DEF DigestsComplete
  <1>15. Reading'
    <2>1. run.at \in Late /\ run.at \notin Early /\ run.at # "compared"
      BY <1>2 DEF Late, Early
    <2>2. /\ m.kind = "signedIn" => m.of = run.new.signedIn
          /\ m.kind = "internal" => m.of = run.new.internal
          /\ m.kind = "x" => m.of = run.new.x
      BY <1>4 DEF WatchInv, Current, Numbers
    <2>3. Covered("signedIn")'
      <3>1. Covered("signedIn")
        BY <2>1 DEF WatchInv, Reading
      <3> QED BY <3>1, <2>2, <1>5, <1>6, <1>8, <1>10 DEF Covered
    <2>4. Covered("internal")'
      <3>1. Covered("internal")
        BY <2>1 DEF WatchInv, Reading
      <3> QED BY <3>1, <2>2, <1>5, <1>6, <1>8, <1>10 DEF Covered
    <2>5. Covered("x")'
      <3>1. Covered("x")
        BY <1>2 DEF WatchInv, Reading
      <3> QED BY <3>1, <2>2, <1>5, <1>6, <1>8, <1>10 DEF Covered
    <2>6. ASSUME NEW a \in run.new.writers
          PROVE  a \in told'.writers \/ \E n \in Unsent' : n.kind = "writer" /\ n.of = a
      <3>1. a \in told.writers \/ \E n \in Unsent : n.kind = "writer" /\ n.of = a
        BY <2>1 DEF WatchInv, Reading
      <3> QED BY <3>1, <1>6, <1>8
    <2>7. run.new.internal = None => told'.internal = None
      <3>1. run.new.internal = None => told.internal = None
        BY <2>1 DEF WatchInv, Reading
      <3> QED BY <3>1, <2>2, <1>8
    <2>8. run.new.x = None => told'.x = None
      <3>1. run.new.x = None => told.x = None
        BY <1>2 DEF WatchInv, Reading
      <3> QED BY <3>1, <2>2, <1>8
    <2>9. file # Broken /\ (file = Missing => Unsent' = {} /\ run.new.digestDay = None)
      BY <2>1, <1>6 DEF WatchInv, Reading
    <2> HIDE DEF Covered
    <2> QED BY <2>1, <2>3, <2>4, <2>5, <2>6, <2>7, <2>8, <2>9, <1>2, <1>5 DEF Reading
  <1>16. Digests'
    <2>1. /\ \A d \in Days : digests'[d] # None => d < day
          /\ file.state = "saved" => file.digestDay <= day /\ \A d \in checked : d <= file.digestDay
      BY <1>2, <1>7 DEF Settled
    <2>2. \A n \in Unsent' : n.kind = "digest" => n.of < day
      BY <1>6 DEF WatchInv, Digests
    <2>3. /\ run.new.digestDay <= day
          /\ file.state = "saved" => run.new.digestDay # None /\ file.digestDay <= run.new.digestDay
      BY <1>2 DEF WatchInv, Digests, Late
    <2>4. ASSUME file.state = "saved", file.digestDay \notin {None, run.new.digestDay}
          PROVE  \/ digests'[file.digestDay] # None
                 \/ \E n \in Unsent' : n.kind = "digest" /\ n.of = file.digestDay
      <3>1. file.digestDay \in Days
        BY <2>4, ReadingTypes, FieldTypes DEF WatchInv
      <3>2. \/ digests[file.digestDay] # None
            \/ \E n \in Unsent : n.kind = "digest" /\ n.of = file.digestDay
        BY <2>4, <1>2 DEF WatchInv, Digests
      <3> QED BY <3>1, <3>2, <1>6, <1>9
    <2> QED BY <2>1, <2>2, <2>3, <2>4, <1>2, <1>5 DEF Digests
  <1> QED BY <1>1, <1>7, <1>11, <1>12, <1>13, <1>14, <1>15, <1>16 DEF WatchInv, Settled

\* SendFails: the run is over, with or without the message told.
LEMMA SendFailsKeeps ==
  ASSUME WatchInv, SendFails, UNCHANGED <<day, feedbackVars, worldVars, stops>>
  PROVE  WatchInv'
  <1> USE DEF worldVars
  <1> PICK m : m = Head(run.out)
    OBVIOUS
  <1>1. /\ run.at = "sending" /\ run.out # <<>> /\ (Heard(m) \/ UNCHANGED <<told, digests>>)
        /\ run' = Idle /\ UNCHANGED <<file, checked>>
    BY DEF SendFails
  <1>2. m \in Unsent
    BY <1>1, ReadingTypes, WithinTail DEF WatchInv, Unsent
  <1>3. FeedbackInv' /\ \A d \in Days : OnTime(d)' = OnTime(d)
    BY InboxStays
  <1>4. Idle \in Runs
    BY DEF Idle, Blank, Runs, Readings, Phases, None
  <1>5. CASE Heard(m)
    <2>1. Settled'
      BY <1>1, <1>2, <1>5, HeardSettles
    <2>2. told' \in Told /\ digests' \in [Days -> Nat \cup {None}]
      BY <1>1, <1>2, <1>5, HeardTells, HeardDigests DEF WatchInv
    <2>3. Types'
      BY <2>2, <1>1, <1>4 DEF WatchInv, Types
    <2> QED BY <2>1, <2>3, <1>1, <1>3, RestKept
  <1>6. CASE UNCHANGED <<told, digests>>
    <2>1. Types'
      BY <1>1, <1>4, <1>6 DEF WatchInv, Types
    <2>2. Settled'
      <3>1. Settled
        BY SettledFollows
      <3>2. DigestComplete'
        BY <3>1, <1>3, <1>6 DEF Settled, DigestComplete, OnTime
      <3>3. Quiet' /\ SavedMeansTold' /\ CheckedDaysReported'
        BY <3>1, <1>1, <1>6 DEF Settled, Quiet, SavedMeansTold, CheckedDaysReported
      <3> QED BY <3>1, <3>2, <3>3, <1>1, <1>6 DEF Settled, InRange, Strangers
    <2> QED BY <2>1, <2>2, <1>1, <1>3, RestKept
  <1> QED BY <1>1, <1>5, <1>6

\* SaveState: everything read is known to the operator by now, and so is the digest
\* of the last completed check's day.
LEMMA SaveStateKeeps ==
  ASSUME WatchInv, SaveState, UNCHANGED <<day, feedbackVars, worldVars, stops>>
  PROVE  WatchInv'
  <1> USE DEF worldVars
  <1> PICK r : r = run.new
    OBVIOUS
  <1>1. /\ run.at = "sending" /\ run.out = <<>> /\ file' = r /\ run' = Idle
        /\ UNCHANGED digests
        /\ checked' = IF r.digestDay = None THEN checked ELSE checked \cup {r.digestDay}
        /\ told' = [told EXCEPT !.internal = IF @ = None THEN r.internal ELSE @,
                                !.x = IF @ = None THEN r.x ELSE @]
    BY DEF SaveState
  <1>2. FeedbackInv' /\ \A d \in Days : OnTime(d)' = OnTime(d)
    BY InboxStays
  <1>3. r \in Readings /\ file # Broken
    BY <1>1, ReadingTypes DEF WatchInv, Reading, Late
  <1>4. /\ r.state = "saved" /\ r.signedIn \in Int /\ r.internal \in Int /\ r.x \in Int
        /\ r.digestDay \in Int /\ (r.digestDay # None => r.digestDay \in Days)
    BY <1>3, FieldTypes
  <1>5. told \in Told /\ told.signedIn \in Int /\ told.internal \in Int /\ told.x \in Int
    BY ToldTypes DEF WatchInv, Types
  <1>6. /\ told' \in Told /\ told'.writers = told.writers /\ told'.signedIn = told.signedIn
        /\ told'.internal = IF told.internal = None THEN r.internal ELSE told.internal
        /\ told'.x = IF told.x = None THEN r.x ELSE told.x
    BY <1>1, <1>4, <1>5 DEF Told
  <1>7. Unsent = {}
    BY <1>1, WithinNone DEF Unsent
  <1>8. /\ r.writers \subseteq told.writers
        /\ r.signedIn <= told.signedIn
        /\ r.internal <= told.internal \/ told.internal = None
        /\ r.x <= told.x \/ told.x = None
        /\ r.internal = None => told.internal = None
        /\ r.x = None => told.x = None
    BY <1>1, <1>7 DEF WatchInv, Reading, Covered, Late
  <1>9. file = Missing \/ file.state = "saved"
    BY <1>3, ReadingTypes DEF WatchInv
  <1>10. file = Missing => r.digestDay = None /\ checked = {}
    BY DEF WatchInv, Reading, Quiet
  <1>11. file.state = "saved" =>
           /\ r.digestDay # None /\ file.digestDay <= r.digestDay
           /\ file.digestDay \in Int
           /\ file.digestDay \in {None, r.digestDay} \/ digests[file.digestDay] # None
           /\ \A d \in checked : d <= file.digestDay
    BY <1>1, <1>7, ReadingTypes, FieldTypes DEF WatchInv, Digests, Late
  <1>12. checked \subseteq Days /\ checked' \subseteq Days /\ None \notin Days
    BY <1>1, <1>4 DEF WatchInv, Types, Days, None
  <1>13. Types'
    <2>1. Idle \in Runs
      BY DEF Idle, Blank, Runs, Readings, Phases, None
    <2> QED BY <2>1, <1>1, <1>3, <1>6, <1>12 DEF WatchInv, Types
  <1>14. Quiet'
    <2>1. file'.state = "saved" /\ file' # Missing
      BY <1>1, <1>4 DEF Missing
    <2> QED BY <2>1, <1>1, <1>6, <1>8 DEF Quiet
  <1>15. SavedMeansTold'
    BY <1>1, <1>4, <1>5, <1>6, <1>8 DEF SavedMeansTold
  <1>16. \A d \in checked' : d <= r.digestDay /\ (d < r.digestDay => digests[d] # None)
    <2> SUFFICES ASSUME NEW d \in checked'
                 PROVE  d <= r.digestDay /\ (d < r.digestDay => digests[d] # None)
      OBVIOUS
    <2>1. d \in Int
      BY <1>12 DEF Days
    <2>2. CASE d = r.digestDay
      BY <2>2, <1>4
    <2>3. CASE d \in checked /\ d # r.digestDay
      <3>1. file.state = "saved"
        BY <2>3, <1>9, <1>10
      <3>2. d <= file.digestDay
        BY <2>3, <3>1, <1>11
      <3>3. CASE d = file.digestDay
        <4>1. d # None
          BY <2>3, <1>12
        <4> QED BY <2>1, <2>3, <3>1, <3>3, <4>1, <1>4, <1>11
      <3>4. CASE d < file.digestDay
        <4>1. digests[d] # None
          BY <2>3, <3>1, <3>4 DEF WatchInv, CheckedDaysReported
        <4> QED BY <2>1, <3>1, <3>4, <4>1, <1>4, <1>11
      <3> QED BY <2>1, <3>1, <3>2, <3>3, <3>4, <1>11
    <2> QED BY <2>2, <2>3, <1>1
  <1>17. CheckedDaysReported'
    BY <1>1, <1>16 DEF CheckedDaysReported
  <1>18. DigestComplete'
    BY <1>1, <1>2 DEF WatchInv, DigestComplete, OnTime
  <1>19. Settled'
    <2>1. told'.signedIn <= Strangers'
      BY <1>6 DEF WatchInv, SignIns, Strangers
    <2>2. InRange(r.internal) /\ InRange(r.x)
      BY DEF WatchInv, Ranges
    <2>3. r.digestDay <= day
      BY DEF WatchInv, Digests
    <2> QED BY <2>1, <2>2, <2>3, <1>1, <1>14, <1>15, <1>16, <1>17, <1>18
        DEF WatchInv, Settled, Digests, InRange
  <1> QED BY <1>1, <1>2, <1>13, <1>19, RestKept

\* A run that ends without a message leaves everything else as it is.
LEMMA EndKeeps ==
  ASSUME WatchInv, run' = Idle, file' \in {file, Broken}, stops' \in 0..MaxStops,
         UNCHANGED <<day, feedbackVars, worldVars, historyVars>>
  PROVE  WatchInv'
  <1> USE DEF worldVars, historyVars
  <1>1. FeedbackInv' /\ \A d \in Days : OnTime(d)' = OnTime(d)
    BY InboxStays
  <1>2. Types'
    <2>1. Idle \in Runs
      BY DEF Idle, Blank, Runs, Readings, Phases, None
    <2> QED BY <2>1 DEF WatchInv, Types
  <1>3. Settled
    BY SettledFollows
  <1>4. file' = file \/ (file' # Missing /\ file'.state # "saved")
    BY DEF Broken, Missing
  <1>5. DigestComplete'
    BY <1>1, <1>3 DEF Settled, DigestComplete, OnTime
  <1>6. Quiet' /\ SavedMeansTold' /\ CheckedDaysReported'
    BY <1>3, <1>4 DEF Settled, Quiet, SavedMeansTold, CheckedDaysReported
  <1>7. Settled'
    BY <1>3, <1>4, <1>5, <1>6 DEF Settled, InRange, Strangers
  <1> QED BY <1>1, <1>2, <1>7, RestKept

\* LoadFails.
LEMMA LoadFailsKeeps ==
  ASSUME WatchInv, LoadFails, UNCHANGED <<day, feedbackVars, worldVars, stops>>
  PROVE  WatchInv'
  BY EndKeeps DEF LoadFails, WatchInv, Types

\* Stopped.
LEMMA StoppedKeeps ==
  ASSUME WatchInv, Stopped
  PROVE  WatchInv'
  <1>1. MaxStops \in Nat /\ stops \in 0..MaxStops
    BY WatcherAssumption DEF WatcherAssumption, WatchInv, Types
  <1>2. stops' \in 0..MaxStops
    BY <1>1 DEF Stopped
  <1> QED BY <1>2, EndKeeps DEF Stopped

\* Every step of the check.
LEMMA CheckKeeps ==
  ASSUME WatchInv, Check
  PROVE  WatchInv'
  BY AskKeeps, LeaveOutKeeps, BaselineKeeps, LoadFailsKeeps, CompareKeeps, ReadCountersKeeps,
     SaveStateKeeps, SendKeeps, SendFailsKeeps DEF Check

\* Nothing happens.
LEMMA StutterKeeps ==
  ASSUME WatchInv, UNCHANGED vars
  PROVE  WatchInv'
  <1> USE DEF vars, worldVars, historyVars
  <1>1. FeedbackInv' /\ \A d \in Days : OnTime(d)' = OnTime(d)
    BY InboxStays
  <1>2. /\ writers' \subseteq Accounts /\ callers' \subseteq Accounts /\ callers \subseteq callers'
        /\ internal' \in 0..MaxEvents /\ posts' \in 0..MaxEvents /\ day' \in {day, day + 1}
    BY DEF WatchInv, Types
  <1> QED BY <1>1, <1>2, AroundKeeps

-----------------------------------------------------------------------------
\* Whatever happens around it, a check keeps the operator's knowledge, the file and
\* the messages on their way in agreement.
THEOREM Invariance == Spec => []WatchInv
  <1>1. Init => WatchInv
    BY WatchBegins
  <1>2. WatchInv /\ [Next]_vars => WatchInv'
    BY WorldKeeps, CheckKeeps, StoppedKeeps, StutterKeeps DEF Next
  <1> QED BY <1>1, <1>2, PTL DEF Spec

\* main() of src/deploy/watch-users.py: what a run reads, keeps and writes is of the
\* kind the next one expects, and a number of sign-ins is never below what is taken off.
THEOREM WatchTypes == Spec => []TypeOK
  <1>1. WatchInv => TypeOK
    <2> SUFFICES ASSUME WatchInv
                 PROVE  TypeOK
      OBVIOUS
    <2>1. /\ day \in Days /\ run.at \in Phases /\ run.ask \subseteq Known /\ stops \in 0..MaxStops
          /\ run.new \in Readings
      BY ReadingTypes DEF WatchInv, FeedbackInv, FeedbackTypes, Types
    <2>2. /\ run.new.writers \subseteq Outside /\ run.new.digestDay \in Days \cup {None}
          /\ run.new.signedIn \in Int
      BY <2>1, FieldTypes
    <2>3. run.new.internal \in None..MaxEvents /\ run.new.x \in None..MaxEvents
      BY DEF WatchInv, Ranges, InRange
    <2>4. file.state \in {"missing", "broken", "saved"}
      BY DEF WatchInv, Types, Readings, Missing, Broken
    <2>5. run.new.signedIn \in (-Cardinality(Known))..Cardinality(Accounts)
      <3>1. /\ callers \in SUBSET Accounts /\ callers \ Known \in SUBSET Accounts
            /\ Strangers \in Nat /\ Cardinality(Known) \in Nat
        BY StrangersTypes DEF WatchInv
      <3>2. Strangers <= Cardinality(Accounts) /\ Cardinality(Accounts) \in Nat
        BY <3>1, FiniteAccounts, MoreAccounts DEF Strangers
      <3>3. CASE run.at # "asked"
        BY <2>2, <3>1, <3>2, <3>3 DEF WatchInv, SignIns
      <3>4. CASE run.at = "asked"
        <4>1. run.ask \in SUBSET Accounts
          BY <2>1, StrangersTypes DEF WatchInv
        <4>2. /\ callers \ Known \in SUBSET Accounts /\ callers \cap run.ask \in SUBSET Accounts
              /\ (callers \ Known) \cap (callers \cap run.ask) = {}
              /\ (callers \ Known) \cup (callers \cap run.ask) \in SUBSET Accounts
          BY <2>1, <3>1, <4>1
        <4> DEFINE A == callers \ Known
                   B == callers \cap run.ask
        <4>3. IsFiniteSet(A) /\ IsFiniteSet(B) /\ Cardinality(A) \in Nat /\ Cardinality(B) \in Nat
          BY <4>2, FiniteAccounts
        <4>4. /\ A \cap B = {} /\ A \cup B \in SUBSET Accounts
          BY <4>2
        <4>5. Cardinality(A) = Strangers
          BY DEF Strangers
        <4>6. Cardinality(run.ask) \in Nat
          BY <4>1, FiniteAccounts
        <4>7. /\ run.new.signedIn <= Strangers + Cardinality(B)
              /\ run.new.signedIn >= Cardinality(run.ask) - Cardinality(Known)
          BY <3>4 DEF WatchInv, SignIns
        <4> HIDE DEF A, B
        <4>8. Cardinality(A \cup B) = Cardinality(A) + Cardinality(B) - Cardinality(A \cap B)
          BY <4>3, FS_Union
        <4>9. Cardinality(A \cap B) = 0
          BY <4>4, FS_EmptySet
        <4>10. Cardinality(A \cup B) <= Cardinality(Accounts) /\ Cardinality(A \cup B) \in Nat
          BY <4>4, FiniteAccounts, MoreAccounts
        <4> QED BY <2>2, <3>1, <3>2, <4>3, <4>5, <4>6, <4>7, <4>8, <4>9, <4>10
      <3> QED BY <3>3, <3>4
    <2> QED BY <2>1, <2>2, <2>3, <2>4, <2>5 DEF TypeOK, Phases
  <1> QED BY <1>1, Invariance, PTL

\* Inbox.submit: calls that overlap cannot together go over the limits of a day.
THEOREM DailyLimitsAlways == Spec => []DailyLimits
  <1>1. WatchInv => DailyLimits
    BY LimitsFollow DEF WatchInv
  <1> QED BY <1>1, Invariance, PTL

\* feedback:daily and feedback:inbox: the count of a day is that of its messages, as
\* long as they are kept.
THEOREM CountMatchesInboxAlways == Spec => []CountMatchesInbox
  <1>1. WatchInv => CountMatchesInbox
    BY CountFollows DEF WatchInv
  <1> QED BY <1>1, Invariance, PTL

\* The state file is written after the last message: what it has as seen was told.
THEOREM SavedMeansToldAlways == Spec => []SavedMeansTold
  <1>1. WatchInv => SavedMeansTold
    BY DEF WatchInv
  <1> QED BY <1>1, Invariance, PTL

\* No day with a completed check goes without its digest.
THEOREM CheckedDaysReportedAlways == Spec => []CheckedDaysReported
  <1>1. WatchInv => CheckedDaysReported
    BY DEF WatchInv
  <1> QED BY <1>1, Invariance, PTL

\* A digest is of a day that is over, so it has every message kept on its day.
THEOREM DigestCompleteAlways == Spec => []DigestComplete
  <1>1. WatchInv => DigestComplete
    BY DEF WatchInv
  <1> QED BY <1>1, Invariance, PTL

\* SCARD and SISMEMBER are asked one after the other; what joins in between can only
\* make the number told too small.
THEOREM OutsideOnlyAlways == Spec => []OutsideOnly
  <1>1. WatchInv => OutsideOnly
    BY DEF WatchInv, SignIns, OutsideOnly, Strangers
  <1> QED BY <1>1, Invariance, PTL
=============================================================================
