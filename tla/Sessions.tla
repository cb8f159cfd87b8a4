------------------------------ MODULE Sessions ------------------------------
(***************************************************************************)
(* What the sign-in flows of the edge share: single-use keys in Redis,     *)
(* the requests being handled, and session JWTs (src/edge/app/auth.py,     *)
(* oauth_state.py, challenge.py).                                          *)
(*                                                                         *)
(* A sign-in is begun, possibly more than once; <<s, n>> is its n-th       *)
(* beginning and stands for the secret made for it (a state with its PKCE  *)
(* challenge, a device session, a nonce).  The term of a key is a step     *)
(* that may come at any time.                                              *)
(***************************************************************************)
EXTENDS Naturals, FiniteSets

CONSTANTS
  SignIns,   \* people or agents signing in, each by one flow
  Accounts,  \* GitHub ids
  Requests,  \* requests the edge can be handling at once
  Again,     \* bound: how often a sign-in is begun
  Rotations  \* bound: refresh tokens made in a behaviour

\* ("rt": a refresh token is no sign-in.)
ASSUME SessionAssumption == Again \in Nat \ {0} /\ Rotations \in Nat /\ "rt" \notin SignIns

VARIABLES
  flow,      \* which flow each sign-in takes, fixed
  person,    \* the account behind each sign-in, fixed
  begun,     \* history: how often a sign-in was begun
  key,       \* Redis: the beginning an oauth:state, ghstate or ghdev key holds
  req,       \* the await each request is at
  sessions,  \* history: the session JWTs issued
  issued,    \* history: sessions issued on the strength of a secret
  mature     \* accounts older than settings.min_account_age_days

sharedVars == <<flow, person, begun, key, req, sessions, issued, mature>>

Flows == {"mcp", "web", "device", "signature"}

\* A beginning of a sign-in, and a refresh token.
Beginnings == SignIns \X (1..Again)
RefreshTokens == {"rt"} \X (1..Rotations)

\* A JWT carries the account's creation date (ghc), or does not.
Session == [acct : Accounts, dated : BOOLEAN]

Idle == [at |-> "idle"]

SharedInit ==
  /\ flow \in [SignIns -> Flows]
  /\ person \in [SignIns -> Accounts]
  /\ begun = [s \in SignIns |-> 0]
  /\ key = [s \in SignIns |-> 0]
  /\ req = [c \in Requests |-> Idle]
  /\ sessions = {}
  /\ issued = [p \in Beginnings \cup RefreshTokens |-> 0]
  /\ mature = {}

At(c, point) == req[c].at = point

GoTo(c, place) == req' = [req EXCEPT ![c] = place]

End(c) == GoTo(c, Idle)

\* A sign-in is begun: its key in Redis is set, over an older one.
Begin(s) ==
  /\ begun[s] < Again
  /\ begun' = [begun EXCEPT ![s] = @ + 1]

\* issue_jwt on the strength of a secret.
Issue(proof, acct, dated) ==
  /\ sessions' = sessions \cup {[acct |-> acct, dated |-> dated]}
  /\ issued' = [issued EXCEPT ![proof] = @ + 1]

\* A request is cancelled, GitHub, the node or Redis fails it, or the edge stops:
\* what it has written stays, nothing more is done.
Interrupted(c) ==
  /\ ~At(c, "idle")
  /\ End(c)
  /\ UNCHANGED <<flow, person, begun, key, sessions, issued, mature>>

\* An account comes of age.
ComesOfAge(g) ==
  /\ g \notin mature
  /\ mature' = mature \cup {g}
  /\ UNCHANGED <<flow, person, begun, key, req, sessions, issued>>
=============================================================================
