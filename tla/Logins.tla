------------------------------- MODULE Logins -------------------------------
(***************************************************************************)
(* The logins that need no MCP client: GitHub's device flow                *)
(* (src/edge/app/main.py, oauth_state.py) and the signature login of an    *)
(* agent (main.py, challenge.py), which reads the account's identity       *)
(* record through the adapter.                                             *)
(***************************************************************************)
EXTENDS Sessions

VARIABLES
  github,     \* GitHub: what became of the device code of a sign-in
  nonce,      \* Redis: the challenge pending under chal:<github_id>
  identity    \* who wrote the identity record of each account that has one, on the
              \* chain or on its way: the gateway, or a wallet elsewhere

loginVars == <<github, nonce, identity>>

DeviceStates == {"none", "waiting", "granted", "denied", "redeemed", "expired"}

NoNonce == <<>>

LoginInit ==
  /\ github = [s \in SignIns |-> "none"]
  /\ nonce = [g \in Accounts |-> NoNonce]
  /\ identity = [g \in Accounts |-> "none"]

-----------------------------------------------------------------------------
\* github_device_start: GitHub makes a device code, which is kept under a fresh
\* session id.
StartDevice(s) ==
  /\ flow[s] = "device" /\ begun[s] = 0
  /\ Begin(s)
  /\ key' = [key EXCEPT ![s] = 1]
  /\ github' = [github EXCEPT ![s] = "waiting"]
  /\ UNCHANGED <<flow, person, req, sessions, issued, mature, nonce, identity>>

\* At GitHub the user enters the code and decides, or lets it run out.
UserDecides(s) ==
  /\ github[s] = "waiting"
  /\ \E outcome \in {"granted", "denied"} : github' = [github EXCEPT ![s] = outcome]
  /\ UNCHANGED <<sharedVars, nonce, identity>>

DeviceCodeEnds(s) ==
  /\ github[s] \in {"waiting", "granted"}
  /\ github' = [github EXCEPT ![s] = "expired"]
  /\ UNCHANGED <<sharedVars, nonce, identity>>

\* get_device: polling goes on while the session id is known.
PollDevice(c, s) ==
  /\ At(c, "idle") /\ flow[s] = "device" /\ key[s] # 0
  /\ GoTo(c, [at |-> "poll", by |-> s])
  /\ UNCHANGED <<flow, person, begun, key, sessions, issued, mature, loginVars>>

\* Fault: whatever is not a token drops the session.
PollDropping(c) ==
  /\ At(c, "poll")
  /\ LET s == req[c].by
     IN  /\ github' = [github EXCEPT ![s] = IF @ = "granted" THEN "redeemed" ELSE @]
         /\ GoTo(c, [at |-> "drop", by |-> s, granted |-> github[s] = "granted"])
  /\ UNCHANGED <<flow, person, begun, key, sessions, issued, mature, nonce, identity>>

\* GitHub's answer to a poll.  It hands out a token once; "pending" ends the
\* request, a final answer leads to drop_device.
PollAnswered(c) ==
  /\ At(c, "poll")
  /\ LET s == req[c].by
     IN  \/ github[s] = "waiting" /\ End(c) /\ UNCHANGED github
         \/ /\ github[s] # "waiting"
            /\ github' = [github EXCEPT ![s] = IF @ = "granted" THEN "redeemed" ELSE @]
            /\ GoTo(c, [at |-> "drop", by |-> s, granted |-> github[s] = "granted"])
  /\ UNCHANGED <<flow, person, begun, key, sessions, issued, mature, nonce, identity>>

\* GitHub hands out the token, and its answer is lost.
PollLost(c) ==
  /\ At(c, "poll")
  /\ github[req[c].by] = "granted"
  /\ github' = [github EXCEPT ![req[c].by] = "redeemed"]
  /\ End(c)
  /\ UNCHANGED <<flow, person, begun, key, sessions, issued, mature, nonce, identity>>

\* drop_device, before the user is fetched.
DropDevice(c) ==
  /\ At(c, "drop")
  /\ key' = [key EXCEPT ![req[c].by] = 0]
  /\ GoTo(c, IF req[c].granted THEN [at |-> "fetch", by |-> req[c].by] ELSE Idle)
  /\ UNCHANGED <<flow, person, begun, sessions, issued, mature, loginVars>>

\* fetch_user, and the session.
FetchUser(c) ==
  /\ At(c, "fetch")
  /\ LET s == req[c].by IN Issue(<<s, 1>>, person[s], TRUE)
  /\ End(c)
  /\ UNCHANGED <<flow, person, begun, key, mature, loginVars>>

-----------------------------------------------------------------------------
\* auth_challenge: a new nonce, over the account's pending one.
Challenge(s) ==
  /\ flow[s] = "signature"
  /\ Begin(s)
  /\ nonce' = [nonce EXCEPT ![person[s]] = <<s, begun[s] + 1>>]
  /\ UNCHANGED <<flow, person, key, req, sessions, issued, mature, github, identity>>

\* Fault: the pending nonce is read and left in place.
AgentLoginReads(c, s) ==
  /\ At(c, "idle") /\ flow[s] = "signature" /\ begun[s] > 0
  /\ LET got == nonce[person[s]]
     IN  /\ got # NoNonce
         /\ GoTo(c, [at |-> "verify", signed |-> <<s, begun[s]>>, got |-> got])
  /\ UNCHANGED <<flow, person, begun, key, sessions, issued, mature, loginVars>>

\* Fault: a login without a pending challenge goes on.
AgentLoginUnasked(c, s) ==
  /\ At(c, "idle") /\ flow[s] = "signature" /\ begun[s] > 0
  /\ GoTo(c, [at |-> "verify", signed |-> <<s, begun[s]>>, got |-> nonce[person[s]]])
  /\ nonce' = [nonce EXCEPT ![person[s]] = NoNonce]
  /\ UNCHANGED <<flow, person, begun, key, sessions, issued, mature, github, identity>>

\* agent_login takes the account's pending nonce, whoever asked for it; the agent
\* has signed the last one it was given.
AgentLogin(c, s) ==
  /\ At(c, "idle") /\ flow[s] = "signature" /\ begun[s] > 0
  /\ LET got == nonce[person[s]]
     IN  /\ got # NoNonce
         /\ GoTo(c, [at |-> "verify", signed |-> <<s, begun[s]>>, got |-> got])
  /\ nonce' = [nonce EXCEPT ![person[s]] = NoNonce]
  /\ UNCHANGED <<flow, person, begun, key, sessions, issued, mature, github, identity>>

\* The node verifies the signature over the nonce taken.
VerifySignature(c) ==
  /\ At(c, "verify")
  /\ GoTo(c, IF req[c].signed = req[c].got THEN [at |-> "identity", by |-> req[c].got] ELSE Idle)
  /\ UNCHANGED <<flow, person, begun, key, sessions, issued, mature, loginVars>>

\* The identity record, whoever wrote it, names the agent's address: a session
\* without a date.
ReadIdentity(c) ==
  /\ At(c, "identity")
  /\ LET proof == req[c].by
         g == person[proof[1]]
     IN  IF identity[g] # "none" THEN Issue(proof, g, FALSE) ELSE UNCHANGED <<sessions, issued>>
  /\ End(c)
  /\ UNCHANGED <<flow, person, begun, key, mature, loginVars>>

\* register_identity by any session of the account: admit_write looks at the
\* account's age if the session carries a date.
RegisterIdentity(session) ==
  /\ session \in sessions
  /\ session.dated => session.acct \in mature
  /\ identity[session.acct] = "none"
  /\ identity' = [identity EXCEPT ![session.acct] = "gateway"]
  /\ UNCHANGED <<sharedVars, github, nonce>>

\* Anyone with a wallet can register a free name on the chain, and with it what the
\* login takes for an account's identity record.
RegisterElsewhere(g) ==
  /\ identity[g] = "none"
  /\ identity' = [identity EXCEPT ![g] = "elsewhere"]
  /\ UNCHANGED <<sharedVars, github, nonce>>

\* The term of a key runs out; that of a device session has the length GitHub
\* gave the code, and starts later.
LoginTermEnds ==
  /\ \/ /\ \E s \in SignIns : /\ flow[s] = "device" /\ key[s] # 0
                              /\ github[s] \notin {"waiting", "granted"}
                              /\ key' = [key EXCEPT ![s] = 0]
        /\ UNCHANGED nonce
     \/ /\ \E g \in Accounts : nonce[g] # NoNonce /\ nonce' = [nonce EXCEPT ![g] = NoNonce]
        /\ UNCHANGED key
  /\ UNCHANGED <<flow, person, begun, req, sessions, issued, mature, github, identity>>

LoginStep ==
  \/ \E s \in SignIns : StartDevice(s) \/ UserDecides(s) \/ DeviceCodeEnds(s) \/ Challenge(s)
  \/ \E c \in Requests :
       \/ \E s \in SignIns : PollDevice(c, s) \/ AgentLogin(c, s)
       \/ PollAnswered(c) \/ PollLost(c) \/ DropDevice(c) \/ FetchUser(c)
       \/ VerifySignature(c) \/ ReadIdentity(c)
  \/ \E session \in sessions : RegisterIdentity(session)
  \/ \E g \in Accounts : RegisterElsewhere(g)
  \/ LoginTermEnds
=============================================================================
