--------------------------- MODULE WriteAdmission ---------------------------
(***************************************************************************)
(* Write admission of the edge (src/edge/app/ratelimit.py).                *)
(*                                                                         *)
(* Every chain write is stamped with time.time(), checked against the age  *)
(* of the GitHub account, and then sent to Redis, where one Lua script     *)
(* checks and fills three sliding windows: the account's last minute, the  *)
(* account's last day and everyone's last day.  The stamp is taken by the  *)
(* edge BEFORE the script runs, so scripts may run in another order than   *)
(* their stamps; a window is a sorted set that the script trims by the     *)
(* stamp it was given, and that Redis drops as a whole when its PEXPIRE    *)
(* runs out by Redis's own clock.                                          *)
(*                                                                         *)
(* `admitted` is a history variable: every write the script ever let       *)
(* through.  The properties compare it with what the buckets still hold.   *)
(***************************************************************************)
EXTENDS Integers, FiniteSets

CONSTANTS
  Accounts,      \* GitHub ids
  Everyone,      \* the owner of the bucket shared by all accounts
  Tokens,        \* the random tokens of admit_write calls
  Minute, Day,   \* lengths of the windows, in ticks
  PerMinute,     \* settings.free_tier_writes_per_min
  PerDay,        \* settings.free_tier_writes_per_day
  GlobalPerDay,  \* settings.global_writes_per_day
  WriteSizes,    \* the `n` callers ask for: 1, or the size of a batch
  Eligible,      \* per account: created + min_account_age_days, 0 if the
                 \* token carries no creation date
  MaxLag,        \* bound: ticks between a stamp and the run of its script
  MaxTime        \* bound: the last instant of a behaviour

ASSUME WindowAssumption ==
  /\ Minute \in Nat \ {0}
  /\ Day \in Nat \ {0}
  /\ MaxLag \in Nat
  /\ MaxTime \in Nat

ASSUME LimitAssumption ==
  /\ PerMinute \in Nat
  /\ PerDay \in Nat
  /\ GlobalPerDay \in Nat

ASSUME CallAssumption ==
  /\ WriteSizes \subseteq Nat \ {0}
  /\ Eligible \in [Accounts -> Nat]
  /\ Everyone \notin Accounts

VARIABLES
  clock,     \* real time; the edge and Redis share one host
  sent,      \* scripts on their way to Redis
  bucket,    \* Redis sorted sets: key -> its scored members
  expireAt,  \* Redis: key -> the instant its PEXPIRE runs out
  admitted   \* history: every write ever admitted

vars == <<clock, sent, bucket, expireAt, admitted>>

-----------------------------------------------------------------------------
Keys == ({"minute", "day"} \X Accounts) \cup {<<"all", Everyone>>}

\* rl:nvs:<gid>, rl:nvs:day:<gid>, rl:nvs:day:all, in the order of KEYS.
KeysOf(a) == << <<"minute", a>>, <<"day", a>>, <<"all", Everyone>> >>

Window(k) == IF k[1] = "minute" THEN Minute ELSE Day

Limit(k) == IF k[1] = "minute" THEN PerMinute
            ELSE IF k[1] = "day" THEN PerDay
            ELSE GlobalPerDay

\* One admit_write call after its stamp was taken.
Request == [token : Tokens, acct : Accounts, n : WriteSizes, stamp : Nat]

\* A member of a sorted set is "<token>:<j>" with its stamp as the score; the
\* account is carried along for the properties.
Entry == [token : Tokens, j : Nat, acct : Accounts, stamp : Nat]

EntriesOf(r) ==
  {[token |-> r.token, j |-> j, acct |-> r.acct, stamp |-> r.stamp] : j \in 1..r.n}

\* What Redis holds under a key: nothing once its PEXPIRE has run out.
Stored(k) == IF clock < expireAt[k] THEN bucket[k] ELSE {}

\* Fault: every window trimmed as if it were the minute.
TrimmedByMinute(k, now) == {e \in Stored(k) : e.stamp > now - Minute}

\* ZREMRANGEBYSCORE key -inf now-window
Trimmed(k, now) == {e \in Stored(k) : e.stamp > now - Window(k)}

\* Fault: a batch weighs as much as a single write.
RefusesWhenFull(k, now, n) == Cardinality(Trimmed(k, now)) >= Limit(k)

\* ZCARD + n > limit, after the trim.
Refuses(k, now, n) == Cardinality(Trimmed(k, now)) + n > Limit(k)

-----------------------------------------------------------------------------
Init ==
  /\ clock = 0
  /\ sent = {}
  /\ bucket = [k \in Keys |-> {}]
  /\ expireAt = [k \in Keys |-> 0]
  /\ admitted = {}

\* Time passes; a script is never more than MaxLag behind its stamp.
Tick ==
  /\ clock < MaxTime
  /\ \A r \in sent : clock - r.stamp < MaxLag
  /\ clock' = clock + 1
  /\ UNCHANGED <<sent, bucket, expireAt, admitted>>

\* Fault: one write of the batch is left out of the request.
AdmitWriteShort(a, n) ==
  /\ clock >= Eligible[a]
  /\ \E t \in Tokens \ {x.token : x \in sent \cup admitted} :
       sent' = sent \cup {[token |-> t, acct |-> a, n |-> n - 1, stamp |-> clock]}
  /\ UNCHANGED <<clock, bucket, expireAt, admitted>>

\* Fault: the age of the account is not looked at.
AdmitWriteAnyAge(a, n) ==
  /\ \E t \in Tokens \ {x.token : x \in sent \cup admitted} :
       sent' = sent \cup {[token |-> t, acct |-> a, n |-> n, stamp |-> clock]}
  /\ UNCHANGED <<clock, bucket, expireAt, admitted>>

\* admit_write up to its await: stamp the call, refuse an account too new,
\* draw a token and send the script.
AdmitWrite(a, n) ==
  /\ clock >= Eligible[a]
  /\ \E t \in Tokens \ {x.token : x \in sent \cup admitted} :
       sent' = sent \cup {[token |-> t, acct |-> a, n |-> n, stamp |-> clock]}
  /\ UNCHANGED <<clock, bucket, expireAt, admitted>>

\* Fault: all three keys expire after the shortest window.
ScriptAdmitsOneExpiry(r) ==
  /\ \A i \in 1..3 : ~Refuses(KeysOf(r.acct)[i], r.stamp, r.n)
  /\ bucket' = [k \in Keys |->
       IF \E i \in 1..3 : k = KeysOf(r.acct)[i]
       THEN Trimmed(k, r.stamp) \cup EntriesOf(r)
       ELSE bucket[k]]
  /\ expireAt' = [k \in Keys |->
       IF \E i \in 1..3 : k = KeysOf(r.acct)[i] THEN clock + Minute ELSE expireAt[k]]
  /\ admitted' = admitted \cup EntriesOf(r)
  /\ sent' \in {sent, sent \ {r}}
  /\ UNCHANGED clock

\* The script finds room in all three windows and fills them.  The Redis
\* client may lose the reply and send the same script again.
ScriptAdmits(r) ==
  /\ \A i \in 1..3 : ~Refuses(KeysOf(r.acct)[i], r.stamp, r.n)
  /\ bucket' = [k \in Keys |->
       IF \E i \in 1..3 : k = KeysOf(r.acct)[i]
       THEN Trimmed(k, r.stamp) \cup EntriesOf(r)
       ELSE bucket[k]]
  /\ expireAt' = [k \in Keys |->
       IF \E i \in 1..3 : k = KeysOf(r.acct)[i] THEN clock + Window(k) ELSE expireAt[k]]
  /\ admitted' = admitted \cup EntriesOf(r)
  /\ sent' \in {sent, sent \ {r}}
  /\ UNCHANGED clock

\* Fault: windows are checked and filled one after the other, in one loop.
ScriptRefusesFilling(r) ==
  /\ \E i \in 1..3 :
       /\ Refuses(KeysOf(r.acct)[i], r.stamp, r.n)
       /\ \A j \in 1..(i - 1) : ~Refuses(KeysOf(r.acct)[j], r.stamp, r.n)
       /\ bucket' = [k \in Keys |->
            IF \E j \in 1..(i - 1) : k = KeysOf(r.acct)[j]
            THEN Trimmed(k, r.stamp) \cup EntriesOf(r) ELSE bucket[k]]
  /\ sent' = sent \ {r}
  /\ UNCHANGED <<clock, expireAt, admitted>>

\* The script meets a full window, the i-th: it has trimmed the windows up to
\* that one, and fills none.
ScriptRefuses(r) ==
  /\ \E i \in 1..3 :
       /\ Refuses(KeysOf(r.acct)[i], r.stamp, r.n)
       /\ \A j \in 1..(i - 1) : ~Refuses(KeysOf(r.acct)[j], r.stamp, r.n)
       /\ bucket' = [k \in Keys |->
            IF \E j \in 1..i : k = KeysOf(r.acct)[j] THEN Trimmed(k, r.stamp) ELSE bucket[k]]
  /\ sent' = sent \ {r}
  /\ UNCHANGED <<clock, expireAt, admitted>>

\* The edge stops, or its connection breaks for good, before Redis runs the
\* script (or before it is run again).
CallLost(r) ==
  /\ sent' = sent \ {r}
  /\ UNCHANGED <<clock, bucket, expireAt, admitted>>

Next ==
  \/ Tick
  \/ \E a \in Accounts, n \in WriteSizes : AdmitWrite(a, n)
  \/ \E r \in sent : ScriptAdmits(r) \/ ScriptRefuses(r) \/ CallLost(r)

Spec == Init /\ [][Next]_vars

-----------------------------------------------------------------------------
(* remaining(): reads, never changes.  ZCOUNT includes its lower bound.    *)

\* Fault: the day is counted from a minute ago.
CountSinceMinute(k, now) == Cardinality({e \in Stored(k) : e.stamp > now - Minute})

CountSince(k, now) == Cardinality({e \in Stored(k) : e.stamp >= now - Window(k)})

LeftOf(k, now) == LET left == Limit(k) - CountSince(k, now)
                  IN  IF left > 0 THEN left ELSE 0

Remaining(a, now) == [minute |-> LeftOf(<<"minute", a>>, now),
                      today  |-> LeftOf(<<"day", a>>, now)]

-----------------------------------------------------------------------------
(* Properties                                                              *)

\* The admitted writes a key counts: an account's own, or everyone's.
AdmittedUnder(k) == {e \in admitted : k[2] \in {e.acct, Everyone}}

\* Of those, the ones stamped in the window that ends now.
InWindow(k) == {e \in AdmittedUnder(k) : e.stamp > clock - Window(k)}

\* Variables have their types.
TypeOK ==
  /\ clock \in Nat
  /\ sent \subseteq Request
  /\ bucket \in [Keys -> SUBSET Entry]
  /\ expireAt \in [Keys -> Nat]
  /\ admitted \subseteq Entry

\* "A write refused by one window consumes nothing from the others"
\* (ratelimit.py, module docstring): whatever a bucket counts against a key is
\* a write that was admitted, in all three windows.
OnlyAdmittedCounted == \A k \in Keys : Stored(k) \subseteq AdmittedUnder(k)

\* Nothing is forgotten early: neither the trim done with another call's stamp,
\* nor the key's PEXPIRE, drops a write whose window is still running.
InWindowKept == \A k \in Keys : InWindow(k) \subseteq Stored(k)

\* At every instant each limit holds over the window that ends at that instant:
\* at most PerMinute and PerDay writes of an account, GlobalPerDay of everyone.
WindowLimit == \A k \in Keys : Cardinality(InWindow(k)) <= Limit(k)

\* The admitted writes of a key stamped in the window (u, u + Window - lag].
StampedIn(k, u, lag) ==
  {e \in AdmittedUnder(k) : e.stamp > u /\ e.stamp <= u + Window(k) - lag}

\* "Concurrent writes cannot race past a limit" (ratelimit.py, module docstring).
\* Looking back at any window, not only the current one, and whatever order the
\* scripts ran in: a window shorter than the nominal one by the delivery lag
\* never holds more than the limit.  (A window of the nominal length may, since
\* a script can run after one with a later stamp.)
BurstBound ==
  \A k \in Keys, u \in -Day..clock : Cardinality(StampedIn(k, u, MaxLag)) <= Limit(k)

\* What remaining() tells an agent can be relied on: a write of that size, made
\* at the same instant, is refused by neither of the account's own windows.
RemainingIsSafe ==
  \A a \in Accounts, n \in WriteSizes :
    LET left == Remaining(a, clock)
    IN  n <= left.minute /\ n <= left.today =>
          ~Refuses(<<"minute", a>>, clock, n) /\ ~Refuses(<<"day", a>>, clock, n)

-----------------------------------------------------------------------------
Policy == INSTANCE AdmissionPolicy WITH clock <- clock, admitted <- admitted

\* The buckets, their trims and their expiry implement the policy that only
\* speaks of the log of admitted writes: a batch is admitted whole or not at
\* all, by an account old enough, and only while all three limits have room.
PolicyRefined == Policy!Spec
=============================================================================
