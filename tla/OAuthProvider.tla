--------------------------- MODULE OAuthProvider ---------------------------
(***************************************************************************)
(* The OAuth server of the MCP endpoint (src/edge/app/oauth_provider.py)   *)
(* and the GitHub callback it shares with the web login                    *)
(* (src/edge/app/main.py).  Of the MCP library around it this relies on:   *)
(* a registered client presents its own codes and tokens, load_* comes     *)
(* before exchange_*, and revocation is not switched on.                   *)
(***************************************************************************)
EXTENDS Sessions

VARIABLES
  clients,  \* Redis: oauth:client keys; each MCP sign-in is a client of its own
  codes,    \* Redis: oauth:code keys
  tokens,   \* Redis: oauth:rt keys
  minted    \* history: how many refresh tokens were made

oauthVars == <<clients, codes, tokens, minted>>

\* The root of a code or refresh token is the beginning it comes from; with the
\* root come the client and the account.
Code == [root : Beginnings, dated : BOOLEAN]
Token == [id : RefreshTokens, root : Beginnings, dated : BOOLEAN]

\* A token response on its way: what it is made from, and what goes into it.
Grant == [at : {"store"}, proof : Beginnings \cup RefreshTokens,
          root : Beginnings, dated : BOOLEAN]

OAuthInit == clients = {} /\ codes = {} /\ tokens = {} /\ minted = 0

-----------------------------------------------------------------------------
\* register_client, for a client id the library has just made.
RegisterClient(s) ==
  /\ flow[s] = "mcp" /\ begun[s] = 0
  /\ s \notin clients
  /\ clients' = clients \cup {s}
  /\ UNCHANGED <<sharedVars, codes, tokens, minted>>

\* authorize: the client's state is kept, over what an earlier authorize with
\* the same state left, and the user is sent to GitHub.
Authorize(s) ==
  /\ flow[s] = "mcp" /\ s \in clients
  /\ Begin(s)
  /\ key' = [key EXCEPT ![s] = begun[s] + 1]
  /\ UNCHANGED <<flow, person, req, sessions, issued, mature, oauthVars>>

\* github_web_start, where web login is switched on.
StartWeb(s) ==
  /\ flow[s] = "web" /\ begun[s] = 0
  /\ Begin(s)
  /\ key' = [key EXCEPT ![s] = 1]
  /\ UNCHANGED <<flow, person, req, sessions, issued, mature, oauthVars>>

\* GitHub sends the user to the callback, and owns_state tells the two flows
\* apart.  The callback may be opened twice.
OpenCallback(c, s) ==
  /\ At(c, "idle")
  /\ flow[s] \in {"mcp", "web"} /\ begun[s] > 0
  /\ GoTo(c, [at |-> IF flow[s] = "mcp" /\ key[s] # 0 THEN "complete" ELSE "weblogin", by |-> s])
  /\ UNCHANGED <<flow, person, begun, key, sessions, issued, mature, oauthVars>>

\* complete_github takes oauth:state, the web branch takes ghstate; whoever
\* finds it gone answers that the link was used.
ConsumeState(c) ==
  /\ req[c].at \in {"complete", "weblogin"}
  /\ LET s == req[c].by
         found == key[s] # 0 /\ (At(c, "complete") <=> flow[s] = "mcp")
     IN  IF found
         THEN /\ GoTo(c, [at |-> "exchange", root |-> <<s, key[s]>>])
              /\ key' = [key EXCEPT ![s] = 0]
         ELSE End(c) /\ UNCHANGED key
  /\ UNCHANGED <<flow, person, begun, sessions, issued, mature, oauthVars>>

\* GitHub takes the code and names the user.  For the web login that is the
\* session; for MCP a code of ours is still to be stored.  (A refusal or
\* failure of GitHub ends the request: Interrupted.)
GitHubAnswers(c) ==
  /\ At(c, "exchange")
  /\ LET s == req[c].root[1]
     IN  \/ /\ flow[s] = "mcp"
            /\ GoTo(c, [at |-> "keep", root |-> req[c].root])
            /\ UNCHANGED <<sessions, issued>>
         \/ /\ flow[s] = "web"
            /\ Issue(req[c].root, person[s], TRUE)
            /\ End(c)
  /\ UNCHANGED <<flow, person, begun, key, mature, oauthVars>>

\* The authorization code is stored, with the account and its creation date.
StoreCode(c) ==
  /\ At(c, "keep")
  /\ codes' = codes \cup {[root |-> req[c].root, dated |-> TRUE]}
  /\ End(c)
  /\ UNCHANGED <<flow, person, begun, key, sessions, issued, mature, clients, tokens, minted>>

-----------------------------------------------------------------------------
\* load_authorization_code, then load_refresh_token: a look, nothing taken.
LoadCode(c, code) ==
  /\ At(c, "idle") /\ code.root[1] \in clients
  /\ GoTo(c, [at |-> "useCode", code |-> code])
  /\ UNCHANGED <<flow, person, begun, key, sessions, issued, mature, oauthVars>>

LoadToken(c, token) ==
  /\ At(c, "idle") /\ token.root[1] \in clients
  /\ GoTo(c, [at |-> "useToken", token |-> token])
  /\ UNCHANGED <<flow, person, begun, key, sessions, issued, mature, oauthVars>>

\* Fault: the code found by the look is used without asking again.
UseLoadedCode(c) ==
  /\ At(c, "useCode")
  /\ LET code == req[c].code
     IN  /\ GoTo(c, [at |-> "store", proof |-> code.root, root |-> code.root, dated |-> code.dated])
         /\ codes' = codes \ {code}
  /\ UNCHANGED <<flow, person, begun, key, sessions, issued, mature, clients, tokens, minted>>

\* exchange_authorization_code takes the code, if it is still there.
UseCode(c) ==
  /\ At(c, "useCode")
  /\ LET code == req[c].code
     IN  IF code \in codes
         THEN /\ GoTo(c, [at |-> "store", proof |-> code.root, root |-> code.root,
                          dated |-> code.dated])
              /\ codes' = codes \ {code}
         ELSE End(c) /\ UNCHANGED codes
  /\ UNCHANGED <<flow, person, begun, key, sessions, issued, mature, clients, tokens, minted>>

\* Fault: a refresh token stays until its successor is stored.
UseTokenKept(c) ==
  /\ At(c, "useToken")
  /\ LET token == req[c].token
     IN  GoTo(c, IF token \in tokens
                 THEN [at |-> "store", proof |-> token.id, root |-> token.root,
                       dated |-> token.dated]
                 ELSE Idle)
  /\ UNCHANGED <<flow, person, begun, key, sessions, issued, mature, oauthVars>>

\* Fault: a refreshed session forgets when the account was created.
UseTokenUndated(c) ==
  /\ At(c, "useToken")
  /\ LET token == req[c].token
     IN  IF token \in tokens
         THEN /\ GoTo(c, [at |-> "store", proof |-> token.id, root |-> token.root,
                          dated |-> FALSE])
              /\ tokens' = tokens \ {token}
         ELSE End(c) /\ UNCHANGED tokens
  /\ UNCHANGED <<flow, person, begun, key, sessions, issued, mature, clients, codes, minted>>

\* exchange_refresh_token takes the token, if it is still there.
UseToken(c) ==
  /\ At(c, "useToken")
  /\ LET token == req[c].token
     IN  IF token \in tokens
         THEN /\ GoTo(c, [at |-> "store", proof |-> token.id, root |-> token.root,
                          dated |-> token.dated])
              /\ tokens' = tokens \ {token}
         ELSE End(c) /\ UNCHANGED tokens
  /\ UNCHANGED <<flow, person, begun, key, sessions, issued, mature, clients, codes, minted>>

\* _issue: a session, and the refresh token to get the next one with.
StoreToken(c) ==
  /\ At(c, "store") /\ minted < Rotations
  /\ Issue(req[c].proof, person[req[c].root[1]], req[c].dated)
  /\ minted' = minted + 1
  /\ tokens' = tokens \cup {[id |-> <<"rt", minted'>>, root |-> req[c].root,
                             dated |-> req[c].dated]}
  /\ End(c)
  /\ UNCHANGED <<flow, person, begun, key, mature, clients, codes>>

\* The term of a key runs out.
OAuthTermEnds ==
  /\ \/ /\ \E s \in clients : clients' = clients \ {s}
        /\ UNCHANGED <<key, codes, tokens>>
     \/ /\ \E s \in SignIns : flow[s] \in {"mcp", "web"} /\ key[s] # 0
                              /\ key' = [key EXCEPT ![s] = 0]
        /\ UNCHANGED <<clients, codes, tokens>>
     \/ /\ \E code \in codes : codes' = codes \ {code}
        /\ UNCHANGED <<clients, key, tokens>>
     \/ /\ \E token \in tokens : tokens' = tokens \ {token}
        /\ UNCHANGED <<clients, key, codes>>
  /\ UNCHANGED <<flow, person, begun, req, sessions, issued, mature, minted>>

OAuthStep ==
  \/ \E s \in SignIns : RegisterClient(s) \/ Authorize(s) \/ StartWeb(s)
  \/ \E c \in Requests :
       \/ \E s \in SignIns : OpenCallback(c, s)
       \/ \E code \in codes : LoadCode(c, code)
       \/ \E token \in tokens : LoadToken(c, token)
       \/ ConsumeState(c) \/ GitHubAnswers(c) \/ StoreCode(c)
       \/ UseCode(c) \/ UseToken(c) \/ StoreToken(c)
  \/ OAuthTermEnds
=============================================================================
