------------------------------- MODULE SignIn -------------------------------
(***************************************************************************)
(* All sign-in flows of the edge together, with the rule they serve: an    *)
(* account writes through the gateway only once it is old enough.          *)
(***************************************************************************)
EXTENDS OAuthProvider, Logins

vars == <<sharedVars, oauthVars, loginVars>>

Init == SharedInit /\ OAuthInit /\ LoginInit

OAuth == OAuthStep /\ UNCHANGED loginVars

Login == LoginStep /\ UNCHANGED oauthVars

Between ==
  /\ (\E c \in Requests : Interrupted(c)) \/ (\E g \in Accounts : ComesOfAge(g))
  /\ UNCHANGED <<oauthVars, loginVars>>

Next == OAuth \/ Login \/ Between

Spec == Init /\ [][Next]_vars

-----------------------------------------------------------------------------
\* Everything a request can be in the middle of.
Place ==
  {Idle} \cup Grant
    \cup [at : {"complete", "weblogin", "poll", "fetch"}, by : SignIns]
    \cup [at : {"drop"}, by : SignIns, granted : BOOLEAN]
    \cup [at : {"exchange", "keep"}, root : Beginnings]
    \cup [at : {"useCode"}, code : Code]
    \cup [at : {"useToken"}, token : Token]
    \cup [at : {"verify"}, signed : Beginnings, got : Beginnings]
    \cup [at : {"identity"}, by : Beginnings]

\* Variables have their types.
TypeOK ==
  /\ flow \in [SignIns -> Flows]
  /\ person \in [SignIns -> Accounts]
  /\ begun \in [SignIns -> 0..Again]
  /\ key \in [SignIns -> 0..Again]
  /\ req \in [Requests -> Place]
  /\ sessions \subseteq Session
  /\ issued \in [Beginnings \cup RefreshTokens -> Nat]
  /\ mature \subseteq Accounts
  /\ clients \subseteq SignIns
  /\ codes \subseteq Code
  /\ tokens \subseteq Token
  /\ minted \in 0..Rotations
  /\ github \in [SignIns -> DeviceStates]
  /\ nonce \in [Accounts -> Beginnings \cup {NoNonce}]
  /\ identity \in [Accounts -> {"none", "gateway", "elsewhere"}]

\* Where the right to a session from a beginning is: in Redis, as a state, a code
\* or a refresh token, or with a request that has taken it from there.
Carriers(p) ==
  {s \in SignIns : flow[s] \in {"mcp", "web"} /\ <<s, key[s]>> = p}
    \cup {x \in codes \cup tokens : x.root = p}
    \cup {c \in Requests : req[c].at \in {"exchange", "keep", "store"} /\ req[c].root = p}

\* One sign-in, one session chain: two callbacks, two token requests or two
\* refreshes in flight at once never both get through (getdel in
\* oauth_provider.py and oauth_state.py).
OneChain == \A p \in Beginnings : Cardinality(Carriers(p)) <= 1

\* A state, a device session, a nonce, a code or a refresh token gives at most one
\* session ("single use": oauth_state.py, challenge.py), whatever is repeated.
SingleUse == \A p \in DOMAIN issued : issued[p] <= 1

\* A chain that has ended stays ended: no request brings back what was used up or
\* ran out after it had looked.
EndedStaysEnded ==
  [][\A p \in Beginnings :
       p[2] <= begun[p[1]] /\ Carriers(p) = {} => Carriers(p)' = {}]_vars

\* A session without a creation date skips the age check.  Through refreshes and
\* signature logins an account gets one only if it was old enough once, or if its
\* identity record was written past the gateway.
UndatedIsRecorded ==
  \A z \in sessions : z.dated \/ z.acct \in mature \/ identity[z.acct] = "elsewhere"

\* "Signature login needs an on-chain identity, which needed a write, which needed
\* the account to be old enough already" (auth.py, Principal.github_created).
UndatedIsMature == \A z \in sessions : z.dated \/ z.acct \in mature

\* While GitHub may still hand out the token of a device sign-in, the session to
\* poll with is there: no poll, early, late or doubled, strands the user.
DeviceStaysPollable ==
  \A s \in SignIns : github[s] \in {"waiting", "granted"} => key[s] # 0
=============================================================================
