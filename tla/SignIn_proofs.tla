--------------------------- MODULE SignIn_proofs ---------------------------
(***************************************************************************)
(* Proofs about SignIn, for any number of sign-ins, accounts and requests. *)
(*                                                                         *)
(* That a chain or a nonce is in one place, and has issued no session yet, *)
(* is not kept by itself: a request in flight must hold what is nowhere    *)
(* else any more.  The invariant has one part for chains (Begun, Apart,    *)
(* Unspent), one for device sign-ins, one for nonces and one for dates.    *)
(* They hardly meet, so most steps leave all but one of them to            *)
(* themselves (ChainsRest, DevicesRest, NoncesRest, DatesRest).            *)
(***************************************************************************)
EXTENDS SignIn, FiniteSetTheorems, TLAPS

InChain(c) == req[c].at \in {"exchange", "keep", "store"}
Chained(s) == flow[s] \in {"mcp", "web"}
Stored == codes \cup tokens

\* What is under way has been begun, by a flow that ends in a chain.
Begun ==
  /\ \A s \in SignIns : Chained(s) => key[s] <= begun[s]
  /\ \A c \in Requests : InChain(c) =>
       Chained(req[c].root[1]) /\ req[c].root[2] <= begun[req[c].root[1]]
  /\ \A x \in Stored : Chained(x.root[1]) /\ x.root[2] <= begun[x.root[1]]
  /\ \A c \in Requests : req[c].at \in {"complete", "weblogin"} => Chained(req[c].by)
  /\ \A p \in Beginnings : Chained(p[1]) /\ p[2] > begun[p[1]] => issued[p] = 0

\* No two of a state, a request in the chain, a code and a refresh token come from
\* one beginning.
Apart ==
  /\ \A c, d \in Requests : InChain(c) /\ InChain(d) /\ req[c].root = req[d].root => c = d
  /\ \A c \in Requests : InChain(c) => \A x \in Stored : x.root # req[c].root
  /\ \A x, y \in Stored : x.root = y.root => x = y
  /\ \A s \in SignIns : Chained(s) =>
       /\ \A c \in Requests : InChain(c) => req[c].root # <<s, key[s]>>
       /\ \A x \in Stored : x.root # <<s, key[s]>>

Storing(c) == req[c].at = "store"

\* What a session can still be issued on has issued none, and every refresh token is
\* in one place.
Unspent ==
  /\ \A s \in SignIns : Chained(s) /\ key[s] # 0 => issued[<<s, key[s]>>] = 0
  /\ \A c \in Requests : req[c].at \in {"exchange", "keep"} => issued[req[c].root] = 0
  /\ \A x \in codes : issued[x.root] = 0
  /\ \A c \in Requests : Storing(c) =>
       /\ issued[req[c].proof] = 0
       /\ req[c].proof # req[c].root => req[c].proof \in RefreshTokens /\ req[c].proof[2] <= minted
  /\ \A t \in tokens : issued[t.id] = 0 /\ t.id[2] <= minted
  /\ \A n \in 1..Rotations : n > minted => issued[<<"rt", n>>] = 0
  /\ \A t, u \in tokens : t.id = u.id => t = u
  /\ \A c, d \in Requests : Storing(c) /\ Storing(d) /\ req[c].proof = req[d].proof => c = d
  /\ \A c \in Requests : Storing(c) => \A t \in tokens : t.id # req[c].proof

Redeeming(c) == req[c].at = "fetch" \/ (req[c].at = "drop" /\ req[c].granted)

\* A request is at a device sign-in only after that was begun; GitHub's token is
\* with one request, or still at GitHub, and has issued nothing.
Devices ==
  /\ \A s \in SignIns : github[s] # "none" <=> flow[s] = "device" /\ begun[s] > 0
  /\ \A s \in SignIns : flow[s] = "device" /\ begun[s] = 0 => key[s] = 0 /\ issued[<<s, 1>>] = 0
  /\ \A c \in Requests : req[c].at = "poll" => github[req[c].by] # "none"
  /\ \A c \in Requests : req[c].at = "drop" =>
       github[req[c].by] \notin {"none", "waiting", "granted"}
  /\ \A c \in Requests : Redeeming(c) =>
       github[req[c].by] = "redeemed" /\ issued[<<req[c].by, 1>>] = 0
  /\ \A c, d \in Requests : Redeeming(c) /\ Redeeming(d) /\ req[c].by = req[d].by => c = d
  /\ \A s \in SignIns : github[s] \in {"waiting", "granted"} => key[s] # 0 /\ issued[<<s, 1>>] = 0

Signing(s) == flow[s] = "signature"

Asked(c) == req[c].at \in {"verify", "identity"}
Answered(c) == IF req[c].at = "verify" THEN req[c].got ELSE req[c].by

\* A nonce that was never used up is in one place, its account's key or a request.
Nonces ==
  /\ \A p \in Beginnings : Signing(p[1]) /\ p[2] > begun[p[1]] => issued[p] = 0
  /\ \A g \in Accounts : nonce[g] # NoNonce =>
       /\ Signing(nonce[g][1]) /\ nonce[g][2] <= begun[nonce[g][1]] /\ issued[nonce[g]] = 0
       /\ person[nonce[g][1]] = g
  /\ \A c \in Requests : Asked(c) =>
       /\ Signing(Answered(c)[1]) /\ Answered(c)[2] <= begun[Answered(c)[1]]
       /\ issued[Answered(c)] = 0
       /\ \A g \in Accounts : nonce[g] # Answered(c)
  /\ \A c, d \in Requests : Asked(c) /\ Asked(d) /\ Answered(c) = Answered(d) => c = d

\* Through the gateway only an account that was old enough once has got an identity
\* record, and only an identity record makes a session without a date.
Dates ==
  /\ \A x \in Stored : x.dated
  /\ \A c \in Requests : Storing(c) => req[c].dated
  /\ \A g \in Accounts : identity[g] = "gateway" => g \in mature
  /\ UndatedIsRecorded

IInv ==
  TypeOK /\ Begun /\ Apart /\ Unspent /\ Devices /\ Nonces /\ Dates /\ SingleUse

-----------------------------------------------------------------------------
(* Helpers.                                                                *)

\* What a request has in hand, by where it is.
LEMMA InHand ==
  ASSUME TypeOK, NEW c \in Requests
  PROVE  /\ req[c].at \in {"complete", "weblogin", "poll", "fetch", "drop"} => req[c].by \in SignIns
         /\ req[c].at = "drop" => req[c].granted \in BOOLEAN
         /\ InChain(c) => req[c].root \in Beginnings
         /\ req[c].at = "store" =>
              req[c].proof \in Beginnings \cup RefreshTokens /\ req[c].dated \in BOOLEAN
         /\ req[c].at = "useCode" => req[c].code \in Code
         /\ req[c].at = "useToken" => req[c].token \in Token
         /\ Asked(c) => Answered(c) \in Beginnings
  <1>1. req[c] \in Place
    BY DEF TypeOK
  <1> USE DEF InChain, Asked, Answered
  <1>2. CASE req[c] \in Grant
    BY <1>2 DEF Grant
  <1>3. CASE req[c] = Idle
    BY <1>3 DEF Idle
  <1>4. CASE req[c] \in [at : {"complete", "weblogin", "poll", "fetch"}, by : SignIns]
    BY <1>4
  <1>5. CASE req[c] \in [at : {"drop"}, by : SignIns, granted : BOOLEAN]
    BY <1>5
  <1>6. CASE req[c] \in [at : {"exchange", "keep"}, root : Beginnings]
    BY <1>6
  <1>7. CASE req[c] \in [at : {"useCode"}, code : Code] \cup [at : {"useToken"}, token : Token]
    BY <1>7
  <1>8. CASE req[c] \in [at : {"verify"}, signed : Beginnings, got : Beginnings]
                        \cup [at : {"identity"}, by : Beginnings]
    BY <1>8
  <1> QED BY <1>1, <1>2, <1>3, <1>4, <1>5, <1>6, <1>7, <1>8 DEF Place

\* The places a request can go to.
LEMMA Places ==
  /\ Idle \in Place
  /\ \A s \in SignIns : \A a \in {"complete", "weblogin", "poll", "fetch"} :
       [at |-> a, by |-> s] \in Place
  /\ \A s \in SignIns : \A b \in BOOLEAN : [at |-> "drop", by |-> s, granted |-> b] \in Place
  /\ \A p \in Beginnings : \A a \in {"exchange", "keep"} : [at |-> a, root |-> p] \in Place
  /\ \A x \in Code : [at |-> "useCode", code |-> x] \in Place
  /\ \A x \in Token : [at |-> "useToken", token |-> x] \in Place
  /\ \A q \in Beginnings \cup RefreshTokens : \A p \in Beginnings : \A b \in BOOLEAN :
       [at |-> "store", proof |-> q, root |-> p, dated |-> b] \in Place
  /\ \A p, q \in Beginnings : [at |-> "verify", signed |-> p, got |-> q] \in Place
  /\ \A p \in Beginnings : [at |-> "identity", by |-> p] \in Place
  <1>1. Idle \in Place
    BY DEF Place
  <1>2. \A s \in SignIns : \A a \in {"complete", "weblogin", "poll", "fetch"} :
          [at |-> a, by |-> s] \in Place
    BY DEF Place
  <1>3. \A s \in SignIns : \A b \in BOOLEAN : [at |-> "drop", by |-> s, granted |-> b] \in Place
    BY DEF Place
  <1>4. \A p \in Beginnings : \A a \in {"exchange", "keep"} : [at |-> a, root |-> p] \in Place
    BY DEF Place
  <1>5. \A x \in Code : [at |-> "useCode", code |-> x] \in Place
    BY DEF Place
  <1>6. \A x \in Token : [at |-> "useToken", token |-> x] \in Place
    BY DEF Place
  <1>7. \A q \in Beginnings \cup RefreshTokens : \A p \in Beginnings : \A b \in BOOLEAN :
          [at |-> "store", proof |-> q, root |-> p, dated |-> b] \in Place
    BY DEF Place, Grant
  <1>8. \A p, q \in Beginnings : [at |-> "verify", signed |-> p, got |-> q] \in Place
    BY DEF Place
  <1>9. \A p \in Beginnings : [at |-> "identity", by |-> p] \in Place
    BY DEF Place
  <1> QED BY <1>1, <1>2, <1>3, <1>4, <1>5, <1>6, <1>7, <1>8, <1>9

\* A request goes on.
LEMMA Going ==
  ASSUME TypeOK, NEW c \in Requests, NEW place \in Place, GoTo(c, place)
  PROVE  /\ req' \in [Requests -> Place]
         /\ req'[c] = place
         /\ \A d \in Requests : d # c => req'[d] = req[d]
  BY DEF TypeOK, GoTo

\* A request ends.
LEMMA Ending ==
  ASSUME TypeOK, NEW c \in Requests, End(c)
  PROVE  /\ req' \in [Requests -> Place]
         /\ req'[c] = Idle
         /\ \A d \in Requests : d # c => req'[d] = req[d]
  BY Going, Places DEF End

\* A session is issued.
LEMMA Issuing ==
  ASSUME TypeOK, NEW p \in Beginnings \cup RefreshTokens, NEW g \in Accounts,
         NEW dated \in BOOLEAN, Issue(p, g, dated)
  PROVE  /\ sessions' = sessions \cup {[acct |-> g, dated |-> dated]}
         /\ sessions' \subseteq Session
         /\ issued' \in [Beginnings \cup RefreshTokens -> Nat]
         /\ issued'[p] = issued[p] + 1
         /\ \A q \in Beginnings \cup RefreshTokens : q # p => issued'[q] = issued[q]
  BY DEF TypeOK, Issue, Session

\* A sign-in is begun.
LEMMA Beginning ==
  ASSUME SessionAssumption, TypeOK, NEW s \in SignIns, Begin(s)
  PROVE  /\ begun' \in [SignIns -> 0..Again]
         /\ begun'[s] = begun[s] + 1
         /\ \A z \in SignIns : z # s => begun'[z] = begun[z]
         /\ begun[s] + 1 \in 1..Again
         /\ <<s, begun[s] + 1>> \in Beginnings
  BY DEF TypeOK, Begin, Beginnings, SessionAssumption

\* The parts of a beginning.
LEMMA Roots ==
  ASSUME NEW p \in Beginnings
  PROVE  p[1] \in SignIns /\ p[2] \in 1..Again /\ p = <<p[1], p[2]>>
  BY DEF Beginnings

\* A beginning is no refresh token.
LEMMA NoMix ==
  ASSUME SessionAssumption, NEW p \in Beginnings
  PROVE  p \notin RefreshTokens
  BY DEF Beginnings, RefreshTokens, SessionAssumption

-----------------------------------------------------------------------------
(* Steps that leave a part of the state to itself.                         *)

\* A step that adds nothing to a chain and issues no session on one.
ChainsRest ==
  /\ flow' = flow /\ minted' = minted
  /\ codes' \subseteq codes /\ tokens' \subseteq tokens
  /\ \A s \in SignIns : Chained(s) => key'[s] \in {key[s], 0} /\ begun'[s] = begun[s]
  /\ \A c \in Requests : InChain(c)' => req'[c] = req[c]
  /\ \A c \in Requests : req'[c].at \in {"complete", "weblogin"} =>
       req'[c] = req[c] \/ Chained(req'[c].by)
  /\ \A p \in Beginnings : Chained(p[1]) => issued'[p] = issued[p]
  /\ \A q \in RefreshTokens : issued'[q] = issued[q]

\* It keeps what is said of chains.
LEMMA ChainsKept ==
  ASSUME TypeOK, TypeOK', Begun, Apart, Unspent, ChainsRest
  PROVE  Begun' /\ Apart' /\ Unspent'
  <1>1. \A s \in SignIns : Chained(s)' <=> Chained(s)
    BY DEF ChainsRest, Chained
  <1>2. \A c \in Requests : InChain(c)' => InChain(c) /\ req'[c] = req[c]
    BY DEF ChainsRest, InChain
  <1>3. \A x \in Stored' : x \in Stored
    BY DEF ChainsRest, Stored
  <1>4. \A c \in Requests : InChain(c) => req[c].root \in Beginnings
    BY InHand
  <1>5. \A x \in Stored : x.root \in Beginnings
    BY DEF TypeOK, Stored, Code, Token
  <1>6. \A p \in Beginnings : p[1] \in SignIns /\ p[2] \in 1..Again
    BY Roots
  <1>7. \A s \in SignIns : key[s] \in 0..Again /\ begun[s] \in 0..Again
    BY DEF TypeOK
  <1>8. Begun'
    <2>1. \A s \in SignIns : Chained(s)' => key'[s] <= begun'[s]
      BY <1>1, <1>7 DEF Begun, ChainsRest
    <2>2. \A c \in Requests : InChain(c)' =>
            (Chained(req[c].root[1]) /\ req[c].root[2] <= begun[req[c].root[1]])'
      BY <1>1, <1>2, <1>4, <1>6 DEF Begun, ChainsRest
    <2>3. \A x \in Stored' : Chained(x.root[1])' /\ x.root[2] <= begun'[x.root[1]]
      BY <1>1, <1>3, <1>5, <1>6 DEF Begun, ChainsRest
    <2>4. \A c \in Requests : req'[c].at \in {"complete", "weblogin"} => Chained(req[c].by)'
      BY DEF Begun, ChainsRest, Chained
    <2>5. \A p \in Beginnings : Chained(p[1])' /\ p[2] > begun'[p[1]] => issued'[p] = 0
      BY <1>1, <1>6 DEF Begun, ChainsRest
    <2> QED BY <2>1, <2>2, <2>3, <2>4, <2>5 DEF Begun
  <1>9. Apart'
    <2>1. \A s \in SignIns : Chained(s)' =>
            /\ \A c \in Requests : InChain(c)' => req'[c].root # <<s, key'[s]>>
            /\ \A x \in Stored' : x.root # <<s, key'[s]>>
      <3> SUFFICES ASSUME NEW s \in SignIns, Chained(s)
                   PROVE  /\ \A c \in Requests : InChain(c) => req[c].root # <<s, key'[s]>>
                          /\ \A x \in Stored : x.root # <<s, key'[s]>>
        BY <1>1, <1>2, <1>3
      <3>1. CASE key'[s] = key[s]
        BY <3>1 DEF Apart
      <3>2. CASE key'[s] = 0
        BY <3>2, <1>4, <1>5, <1>6
      <3> QED BY <3>1, <3>2 DEF ChainsRest
    <2> QED BY <2>1, <1>2, <1>3 DEF Apart
  <1>10. Unspent'
    <2>1. \A c \in Requests : req'[c].at \in {"exchange", "keep", "store"} =>
            req'[c] = req[c] /\ InChain(c)
      BY <1>2 DEF InChain
    <2>2. \A c \in Requests : InChain(c) => issued'[req[c].root] = issued[req[c].root]
      BY <1>4 DEF Begun, ChainsRest
    <2>3. \A x \in Stored : issued'[x.root] = issued[x.root]
      BY <1>5 DEF Begun, ChainsRest
    <2>4. \A c \in Requests : Storing(c) => issued'[req[c].proof] = issued[req[c].proof]
      <3> SUFFICES ASSUME NEW c \in Requests, Storing(c)
                   PROVE  issued'[req[c].proof] = issued[req[c].proof]
        OBVIOUS
      <3>1. InChain(c)
        BY DEF Storing, InChain
      <3> QED BY <3>1, <2>2 DEF Unspent, ChainsRest
    <2>5. \A t \in tokens : t.id \in RefreshTokens
      BY DEF TypeOK, Token
    <2>6. \A s \in SignIns : Chained(s)' /\ key'[s] # 0 => issued'[<<s, key'[s]>>] = 0
      <3> SUFFICES ASSUME NEW s \in SignIns, Chained(s), key'[s] # 0
                   PROVE  issued'[<<s, key'[s]>>] = 0
        BY <1>1
      <3>1. key'[s] = key[s]
        BY DEF ChainsRest
      <3>2. <<s, key[s]>> \in Beginnings
        BY <3>1, <1>7 DEF Beginnings
      <3> QED BY <3>1, <3>2 DEF Unspent, ChainsRest
    <2>7. \A c \in Requests : req'[c].at \in {"exchange", "keep"} => issued'[req'[c].root] = 0
      BY <2>1, <2>2 DEF Unspent
    <2>8. \A x \in codes' : issued'[x.root] = 0
      BY <2>3 DEF Unspent, ChainsRest, Stored
    <2>9. \A c \in Requests : Storing(c)' =>
            /\ issued'[req'[c].proof] = 0
            /\ req'[c].proof # req'[c].root =>
                 req'[c].proof \in RefreshTokens /\ req'[c].proof[2] <= minted'
      BY <2>1, <2>4 DEF Unspent, Storing, ChainsRest
    <2>10. \A t \in tokens' : issued'[t.id] = 0 /\ t.id[2] <= minted'
      BY <2>5 DEF Unspent, ChainsRest
    <2>11. \A n \in 1..Rotations : n > minted' => issued'[<<"rt", n>>] = 0
      BY DEF Unspent, ChainsRest, RefreshTokens
    <2>12. /\ \A t, u \in tokens' : t.id = u.id => t = u
           /\ \A c, d \in Requests :
                Storing(c)' /\ Storing(d)' /\ req'[c].proof = req'[d].proof => c = d
           /\ \A c \in Requests : Storing(c)' => \A t \in tokens' : t.id # req'[c].proof
      BY <2>1 DEF Unspent, Storing, ChainsRest
    <2> QED BY <2>6, <2>7, <2>8, <2>9, <2>10, <2>11, <2>12 DEF Unspent
  <1> QED BY <1>8, <1>9, <1>10

\* A step that leaves device sign-ins alone.
DevicesRest ==
  /\ flow' = flow
  /\ \A s \in SignIns : flow[s] = "device" =>
       key'[s] = key[s] /\ begun'[s] = begun[s] /\ issued'[<<s, 1>>] = issued[<<s, 1>>]
  /\ github' = github
  /\ \A c \in Requests : req'[c].at \in {"poll", "drop", "fetch"} => req'[c] = req[c]

\* It keeps what is said of them.
LEMMA DevicesKept ==
  ASSUME TypeOK, Devices, DevicesRest
  PROVE  Devices'
  <1>1. \A c \in Requests : Redeeming(c)' => Redeeming(c) /\ req'[c] = req[c]
    BY DEF DevicesRest, Redeeming
  <1>2. \A c \in Requests : Redeeming(c) => flow[req[c].by] = "device" /\ req[c].by \in SignIns
    BY InHand DEF Redeeming, Devices
  <1>3. \A s \in SignIns : github[s] # "none" => flow[s] = "device"
    BY DEF Devices
  <1>4. /\ \A s \in SignIns : github'[s] # "none" <=> flow'[s] = "device" /\ begun'[s] > 0
        /\ \A s \in SignIns : flow'[s] = "device" /\ begun'[s] = 0 =>
             key'[s] = 0 /\ issued'[<<s, 1>>] = 0
    <2> SUFFICES ASSUME NEW s \in SignIns
                 PROVE  /\ github'[s] # "none" <=> flow'[s] = "device" /\ begun'[s] > 0
                        /\ flow'[s] = "device" /\ begun'[s] = 0 =>
                             key'[s] = 0 /\ issued'[<<s, 1>>] = 0
      OBVIOUS
    <2>1. flow' = flow /\ github' = github
      BY DEF DevicesRest
    <2>2. flow[s] = "device" =>
            key'[s] = key[s] /\ begun'[s] = begun[s] /\ issued'[<<s, 1>>] = issued[<<s, 1>>]
      BY DEF DevicesRest
    <2>3. /\ github[s] # "none" <=> flow[s] = "device" /\ begun[s] > 0
          /\ flow[s] = "device" /\ begun[s] = 0 => key[s] = 0 /\ issued[<<s, 1>>] = 0
      BY DEF Devices
    <2> QED BY <2>1, <2>2, <2>3
  <1>5. \A c \in Requests :
          /\ req'[c].at = "poll" => github'[req'[c].by] # "none"
          /\ req'[c].at = "drop" => github'[req'[c].by] \notin {"none", "waiting", "granted"}
    BY DEF Devices, DevicesRest
  <1>6. \A c \in Requests : Redeeming(c)' =>
          github'[req'[c].by] = "redeemed" /\ issued'[<<req'[c].by, 1>>] = 0
    BY <1>1, <1>2 DEF Devices, DevicesRest
  <1>7. \A c, d \in Requests : Redeeming(c)' /\ Redeeming(d)' /\ req'[c].by = req'[d].by => c = d
    BY <1>1 DEF Devices
  <1>8. \A s \in SignIns : github'[s] \in {"waiting", "granted"} =>
          key'[s] # 0 /\ issued'[<<s, 1>>] = 0
    BY <1>3 DEF Devices, DevicesRest
  <1> QED BY <1>4, <1>5, <1>6, <1>7, <1>8 DEF Devices

\* A step that leaves signature logins alone, or ends one.
NoncesRest ==
  /\ flow' = flow /\ person' = person
  /\ \A s \in SignIns : Signing(s) => begun'[s] = begun[s]
  /\ \A p \in Beginnings : Signing(p[1]) => issued'[p] = issued[p]
  /\ \A g \in Accounts : nonce'[g] \in {nonce[g], NoNonce}
  /\ \A c \in Requests : Asked(c)' => req'[c] = req[c]

\* It keeps what is said of them.
LEMMA NoncesKept ==
  ASSUME TypeOK, Nonces, NoncesRest
  PROVE  Nonces'
  <1>1. \A c \in Requests : Asked(c)' => Asked(c) /\ Answered(c)' = Answered(c)
    BY DEF NoncesRest, Asked, Answered
  <1>2. \A c \in Requests : Asked(c) => Answered(c) \in Beginnings
    BY InHand
  <1>3. \A p \in Beginnings : p[1] \in SignIns
    BY Roots
  <1>4. \A s \in SignIns : Signing(s)' <=> Signing(s)
    BY DEF NoncesRest, Signing
  <1>5. \A p \in Beginnings : Signing(p[1])' /\ p[2] > begun'[p[1]] => issued'[p] = 0
    BY <1>3, <1>4 DEF Nonces, NoncesRest
  <1>6. \A g \in Accounts : nonce'[g] # NoNonce => nonce'[g] = nonce[g] /\ nonce[g] \in Beginnings
    BY DEF NoncesRest, TypeOK
  <1>7. \A g \in Accounts : nonce'[g] # NoNonce =>
          /\ Signing(nonce[g][1])' /\ nonce'[g][2] <= begun'[nonce'[g][1]]
          /\ issued'[nonce'[g]] = 0 /\ person'[nonce'[g][1]] = g
    BY <1>3, <1>4, <1>6 DEF Nonces, NoncesRest
  <1>8. \A c \in Requests : Asked(c)' =>
          /\ Signing(Answered(c)[1])' /\ (Answered(c)[2] <= begun[Answered(c)[1]])'
          /\ (issued[Answered(c)] = 0)'
    BY <1>1, <1>2, <1>3, <1>4 DEF Nonces, NoncesRest
  <1>9. NoNonce \notin Beginnings
    BY DEF NoNonce, Beginnings
  <1>10. \A c \in Requests : Asked(c)' => \A g \in Accounts : nonce'[g] # Answered(c)'
    BY <1>1, <1>2, <1>9 DEF Nonces, NoncesRest
  <1>11. \A c, d \in Requests : Asked(c)' /\ Asked(d)' /\ Answered(c)' = Answered(d)' => c = d
    BY <1>1 DEF Nonces
  <1> QED BY <1>5, <1>7, <1>8, <1>10, <1>11 DEF Nonces

\* A step that issues no session and makes nothing to issue one from.
DatesRest ==
  /\ codes' \subseteq codes /\ tokens' \subseteq tokens
  /\ \A c \in Requests : Storing(c)' => req'[c] = req[c]
  /\ identity' = identity
  /\ mature \subseteq mature'
  /\ sessions' = sessions

\* It keeps what is said of dates.
LEMMA DatesKept ==
  ASSUME Dates, DatesRest
  PROVE  Dates'
  BY DEF Dates, DatesRest, Stored, Storing, UndatedIsRecorded

\* A step that does none of this keeps everything.
LEMMA QuietStep ==
  ASSUME IInv, TypeOK', ChainsRest, DevicesRest, NoncesRest, DatesRest, issued' = issued
  PROVE  IInv'
  <1>1. SingleUse'
    BY DEF IInv, SingleUse
  <1> QED BY <1>1, ChainsKept, DevicesKept, NoncesKept, DatesKept DEF IInv

\* A request that goes to a place where it has nothing of a chain, of a device
\* sign-in or of a nonce in hand, and the state as it was or with fewer keys.
LEMMA LookingOn ==
  ASSUME IInv, NEW c \in Requests, NEW place \in Place, GoTo(c, place),
         place.at \in {"idle", "complete", "weblogin", "useCode", "useToken"},
         place.at \in {"complete", "weblogin"} => Chained(place.by),
         key' \in [SignIns -> 0..Again],
         \A s \in SignIns : (Chained(s) /\ key'[s] = 0) \/ key'[s] = key[s],
         codes' \subseteq codes, tokens' \subseteq tokens,
         UNCHANGED <<flow, person, begun, sessions, issued, mature, clients, minted, loginVars>>
  PROVE  IInv'
  <1>1. /\ req' \in [Requests -> Place]
        /\ req'[c] = place
        /\ \A d \in Requests : d # c => req'[d] = req[d]
    BY Going DEF IInv
  <1>2. TypeOK'
    BY <1>1 DEF IInv, TypeOK, loginVars
  <1>3. ChainsRest
    BY <1>1 DEF ChainsRest, InChain, Chained
  <1>4. DevicesRest
    BY <1>1 DEF DevicesRest, Chained, loginVars
  <1>5. NoncesRest
    BY <1>1 DEF NoncesRest, Asked, loginVars
  <1>6. DatesRest
    BY <1>1 DEF DatesRest, Storing, loginVars
  <1> QED BY <1>2, <1>3, <1>4, <1>5, <1>6, QuietStep

-----------------------------------------------------------------------------
(* The steps of the OAuth server.                                          *)

\* RegisterClient.
LEMMA RegisterClientStep ==
  ASSUME IInv, NEW s \in SignIns, RegisterClient(s), UNCHANGED loginVars
  PROVE  IInv'
  <1>1. TypeOK'
    BY DEF IInv, TypeOK, RegisterClient, sharedVars, loginVars
  <1>2. ChainsRest /\ DevicesRest /\ NoncesRest /\ DatesRest /\ issued' = issued
    BY DEF RegisterClient, sharedVars, loginVars, ChainsRest, DevicesRest, NoncesRest, DatesRest
  <1> QED BY <1>1, <1>2, QuietStep

\* The steps that begin a chain.
LEMMA ChainBegins ==
  ASSUME SessionAssumption, IInv, NEW s \in SignIns, Chained(s), Begin(s),
         key' = [key EXCEPT ![s] = begun[s] + 1],
         UNCHANGED <<flow, person, req, sessions, issued, mature, oauthVars, loginVars>>
  PROVE  IInv'
  <1>1. /\ begun' \in [SignIns -> 0..Again]
        /\ begun'[s] = begun[s] + 1
        /\ \A z \in SignIns : z # s => begun'[z] = begun[z]
        /\ begun[s] + 1 \in 1..Again
        /\ <<s, begun[s] + 1>> \in Beginnings
    BY Beginning DEF IInv
  <1>2. /\ key' \in [SignIns -> 0..Again]
        /\ key'[s] = begun[s] + 1
        /\ \A z \in SignIns : z # s => key'[z] = key[z]
    BY <1>1 DEF IInv, TypeOK
  <1>3. TypeOK'
    BY <1>1, <1>2 DEF IInv, TypeOK, oauthVars, loginVars
  <1>4. \A c \in Requests : InChain(c) => req[c].root \in Beginnings
    BY InHand DEF IInv
  <1>5. \A x \in Stored : x.root \in Beginnings
    BY DEF IInv, TypeOK, Stored, Code, Token
  <1>6. \A p \in Beginnings : p[1] \in SignIns /\ p[2] \in 1..Again /\ begun[p[1]] \in 0..Again
    BY Roots DEF IInv, TypeOK
  <1>7. \A z \in SignIns : begun[z] \in 0..Again /\ key[z] \in 0..Again
    BY DEF IInv, TypeOK
  <1>8. /\ \A c \in Requests : (InChain(c)' <=> InChain(c)) /\ (Storing(c)' <=> Storing(c))
        /\ \A z \in SignIns : Chained(z)' <=> Chained(z)
        /\ Stored' = Stored
    BY DEF InChain, Storing, Chained, Stored, oauthVars
  <1>9. Begun'
    <2>1. \A z \in SignIns : Chained(z)' => key'[z] <= begun'[z]
      BY <1>1, <1>2, <1>7, <1>8 DEF IInv, Begun
    <2>2. \A p \in Beginnings : p[2] <= begun[p[1]] => p[2] <= begun'[p[1]]
      BY <1>1, <1>6
    <2>3. \A c \in Requests : InChain(c) =>
            Chained(req[c].root[1])' /\ req[c].root[2] <= begun'[req[c].root[1]]
      BY <2>2, <1>4, <1>6, <1>8 DEF IInv, Begun
    <2>4. \A x \in Stored : Chained(x.root[1])' /\ x.root[2] <= begun'[x.root[1]]
      BY <2>2, <1>5, <1>6, <1>8 DEF IInv, Begun
    <2>5. \A c \in Requests : req[c].at \in {"complete", "weblogin"} => Chained(req[c].by)'
      BY DEF IInv, Begun, Chained
    <2>6. \A p \in Beginnings : Chained(p[1])' /\ p[2] > begun'[p[1]] => issued[p] = 0
      BY <1>1, <1>6, <1>8 DEF IInv, Begun
    <2> QED BY <2>1, <2>3, <2>4, <2>5, <2>6, <1>8 DEF Begun
  <1>10. Apart'
    <2>1. /\ \A c \in Requests : InChain(c) => req[c].root # <<s, key'[s]>>
          /\ \A x \in Stored : x.root # <<s, key'[s]>>
      BY <1>2, <1>4, <1>5, <1>6 DEF IInv, Begun
    <2> QED BY <2>1, <1>2, <1>8 DEF IInv, Apart
  <1>11. Unspent'
    <2>1. issued[<<s, key'[s]>>] = 0
      BY <1>1, <1>2, <1>7 DEF IInv, Begun
    <2> QED BY <2>1, <1>2, <1>8 DEF IInv, Unspent, Storing, oauthVars
  <1>12. DevicesRest /\ NoncesRest
    BY <1>1, <1>2 DEF DevicesRest, NoncesRest, Chained, Signing, loginVars
  <1>13. DatesRest /\ SingleUse'
    BY DEF DatesRest, oauthVars, loginVars, IInv, SingleUse
  <1> QED BY <1>3, <1>9, <1>10, <1>11, <1>12, <1>13, DevicesKept, NoncesKept, DatesKept DEF IInv

\* Authorize and StartWeb.
LEMMA AuthorizeStep ==
  ASSUME SessionAssumption, IInv, NEW s \in SignIns, Authorize(s) \/ StartWeb(s),
         UNCHANGED loginVars
  PROVE  IInv'
  <1>1. CASE Authorize(s)
    BY <1>1, ChainBegins DEF Authorize, Chained
  <1>2. CASE StartWeb(s)
    <2>1. begun[s] + 1 = 1
      BY <1>2 DEF StartWeb
    <2>2. key' = [key EXCEPT ![s] = begun[s] + 1]
      BY <1>2, <2>1 DEF StartWeb
    <2> QED BY <1>2, <2>2, ChainBegins DEF StartWeb, Chained
  <1> QED BY <1>1, <1>2

\* OpenCallback.
LEMMA OpenCallbackStep ==
  ASSUME IInv, NEW c \in Requests, NEW s \in SignIns, OpenCallback(c, s), UNCHANGED loginVars
  PROVE  IInv'
  <1> DEFINE a == IF flow[s] = "mcp" /\ key[s] # 0 THEN "complete" ELSE "weblogin"
             place == [at |-> a, by |-> s]
  <1>1. a \in {"complete", "weblogin"} /\ Chained(s)
    BY DEF OpenCallback, Chained
  <1>2. place \in Place /\ place.at = a /\ place.by = s
    BY <1>1, Places
  <1>3. GoTo(c, place)
    BY DEF OpenCallback
  <1>4. key' = key /\ key \in [SignIns -> 0..Again]
    BY DEF OpenCallback, IInv, TypeOK
  <1> HIDE DEF place, a
  <1> QED BY <1>1, <1>2, <1>3, <1>4, LookingOn DEF OpenCallback, oauthVars

\* LoadCode and LoadToken.
LEMMA LoadStep ==
  ASSUME IInv, NEW c \in Requests, UNCHANGED loginVars,
         \/ \E x \in codes : LoadCode(c, x)
         \/ \E x \in tokens : LoadToken(c, x)
  PROVE  IInv'
  <1>1. key \in [SignIns -> 0..Again] /\ codes \subseteq Code /\ tokens \subseteq Token
    BY DEF IInv, TypeOK
  <1>2. ASSUME NEW x \in codes, LoadCode(c, x)
        PROVE  IInv'
    <2> DEFINE place == [at |-> "useCode", code |-> x]
    <2>1. place \in Place /\ place.at = "useCode" /\ GoTo(c, place)
      BY <1>1, <1>2, Places DEF LoadCode
    <2> HIDE DEF place
    <2> QED BY <1>1, <1>2, <2>1, LookingOn DEF LoadCode, oauthVars
  <1>3. ASSUME NEW x \in tokens, LoadToken(c, x)
        PROVE  IInv'
    <2> DEFINE place == [at |-> "useToken", token |-> x]
    <2>1. place \in Place /\ place.at = "useToken" /\ GoTo(c, place)
      BY <1>1, <1>3, Places DEF LoadToken
    <2> HIDE DEF place
    <2> QED BY <1>1, <1>3, <2>1, LookingOn DEF LoadToken, oauthVars
  <1> QED BY <1>2, <1>3

\* ConsumeState: what was a key in Redis is now in the hands of one request.
LEMMA ConsumeStateStep ==
  ASSUME SessionAssumption, IInv, NEW c \in Requests, ConsumeState(c), UNCHANGED loginVars
  PROVE  IInv'
  <1> DEFINE s == req[c].by
             root == <<s, key[s]>>
             place == [at |-> "exchange", root |-> root]
  <1>1. s \in SignIns /\ Chained(s)
    BY InHand DEF ConsumeState, IInv, Begun
  <1>2. key \in [SignIns -> 0..Again] /\ key[s] \in 0..Again
    BY <1>1 DEF IInv, TypeOK
  <1>3. CASE End(c) /\ UNCHANGED key
    BY <1>2, <1>3, Places, LookingOn DEF ConsumeState, End, Idle, oauthVars
  <1>4. CASE key[s] # 0 /\ GoTo(c, place) /\ key' = [key EXCEPT ![s] = 0]
    <2>1. root \in Beginnings /\ root[1] = s /\ root[2] = key[s]
      BY <1>1, <1>2, <1>4 DEF Beginnings
    <2>2. place \in Place /\ place.at = "exchange" /\ place.root = root
      BY <2>1, Places
    <2>3. /\ req' \in [Requests -> Place]
          /\ req'[c] = place
          /\ \A d \in Requests : d # c => req'[d] = req[d]
      BY <1>4, <2>2, Going DEF IInv
    <2>4. /\ key' \in [SignIns -> 0..Again]
          /\ key'[s] = 0
          /\ \A z \in SignIns : z # s => key'[z] = key[z]
      BY <1>1, <1>2, <1>4, SessionAssumption DEF SessionAssumption
    <2>5. UNCHANGED <<flow, person, begun, sessions, issued, mature, oauthVars, loginVars>>
      BY DEF ConsumeState
    <2>6. issued[root] = 0 /\ root[2] <= begun[root[1]]
      BY <1>1, <1>4, <2>1 DEF IInv, Unspent, Begun
    <2> HIDE DEF place, root
    <2>7. TypeOK'
      BY <2>3, <2>4, <2>5 DEF IInv, TypeOK, oauthVars, loginVars
    <2>8. /\ InChain(c)' /\ ~Storing(c)' /\ req'[c].root = root
          /\ \A d \in Requests : d # c => (InChain(d)' <=> InChain(d)) /\ (Storing(d)' <=> Storing(d))
          /\ \A z \in SignIns : Chained(z)' <=> Chained(z)
          /\ Stored' = Stored
      BY <2>2, <2>3, <2>5 DEF InChain, Storing, Chained, Stored, oauthVars
    <2>9. \A d \in Requests : InChain(d) => req[d].root # root
      BY <1>1, <2>1 DEF IInv, Apart, root
    <2>10. \A x \in Stored : x.root # root
      BY <1>1 DEF IInv, Apart, root
    <2>11. \A p \in Beginnings : p[2] # 0
      BY Roots DEF SessionAssumption
    <2>12. /\ \A d \in Requests : InChain(d) => req[d].root \in Beginnings
           /\ \A x \in Stored : x.root \in Beginnings
      BY InHand DEF IInv, TypeOK, Stored, Code, Token
    <2>13. Begun'
      <3>1. \A d \in Requests : InChain(d)' =>
              (Chained(req[d].root[1]) /\ req[d].root[2] <= begun[req[d].root[1]])'
        BY <1>1, <2>1, <2>3, <2>5, <2>6, <2>8 DEF IInv, Begun, Chained
      <3>2. \A d \in Requests : req'[d].at \in {"complete", "weblogin"} => Chained(req[d].by)'
        BY <2>2, <2>3, <2>5 DEF IInv, Begun, Chained
      <3>3. \A z \in SignIns : Chained(z)' => key'[z] <= begun'[z]
        <4>1. begun[s] \in Nat
          BY <1>1 DEF IInv, TypeOK
        <4> QED BY <4>1, <2>4, <2>5, <2>8 DEF IInv, Begun
      <3> QED BY <3>1, <3>2, <3>3, <2>5, <2>8 DEF IInv, Begun, Chained
    <2>14. Apart'
      <3>1. \A d, e \in Requests : InChain(d)' /\ InChain(e)' /\ req'[d].root = req'[e].root => d = e
        BY <2>3, <2>8, <2>9 DEF IInv, Apart
      <3>2. \A d \in Requests : InChain(d)' => \A x \in Stored : x.root # req'[d].root
        BY <2>3, <2>8, <2>10 DEF IInv, Apart
      <3>3. \A z \in SignIns : Chained(z) =>
              /\ \A d \in Requests : InChain(d)' => req'[d].root # <<z, key'[z]>>
              /\ \A x \in Stored : x.root # <<z, key'[z]>>
        <4> SUFFICES ASSUME NEW z \in SignIns, Chained(z)
                     PROVE  /\ \A d \in Requests : InChain(d)' => req'[d].root # <<z, key'[z]>>
                            /\ \A x \in Stored : x.root # <<z, key'[z]>>
          OBVIOUS
        <4>1. CASE z = s
          <5>1. <<z, key'[z]>>[2] = 0
            BY <4>1, <2>4
          <5> QED BY <5>1, <2>1, <2>3, <2>8, <2>11, <2>12
        <4>2. CASE z # s
          BY <4>2, <2>1, <2>3, <2>4, <2>8 DEF IInv, Apart
        <4> QED BY <4>1, <4>2
      <3> QED BY <3>1, <3>2, <3>3, <2>8 DEF IInv, Apart
    <2>15. Unspent'
      <3>1. \A z \in SignIns : Chained(z) /\ key'[z] # 0 => issued[<<z, key'[z]>>] = 0
        BY <2>4 DEF IInv, Unspent
      <3>2. \A d \in Requests : req'[d].at \in {"exchange", "keep"} => issued[req'[d].root] = 0
        BY <2>3, <2>6, <2>8 DEF IInv, Unspent
      <3>3. \A d \in Requests : Storing(d)' => Storing(d) /\ req'[d] = req[d]
        BY <2>3, <2>8 DEF Storing
      <3> QED BY <3>1, <3>2, <3>3, <2>5, <2>8 DEF IInv, Unspent, oauthVars
    <2>16. DevicesRest
      BY <1>1, <2>2, <2>3, <2>4, <2>5 DEF DevicesRest, Chained, loginVars
    <2>17. NoncesRest
      BY <2>2, <2>3, <2>5 DEF NoncesRest, Asked, loginVars
    <2>18. DatesRest /\ SingleUse'
      BY <2>2, <2>3, <2>5 DEF DatesRest, Storing, oauthVars, loginVars, IInv, SingleUse
    <2> QED BY <2>7, <2>13, <2>14, <2>15, <2>16, <2>17, <2>18, DevicesKept, NoncesKept, DatesKept
            DEF IInv
  <1> QED BY <1>3, <1>4 DEF ConsumeState

\* GitHubAnswers, for an MCP client: the request holds on to the beginning.
LEMMA GitHubAnswersMcp ==
  ASSUME IInv, NEW c \in Requests, At(c, "exchange"),
         GoTo(c, [at |-> "keep", root |-> req[c].root]),
         UNCHANGED <<flow, person, begun, key, sessions, issued, mature, oauthVars, loginVars>>
  PROVE  IInv'
  <1> DEFINE root == req[c].root
             place == [at |-> "keep", root |-> root]
  <1>1. InChain(c) /\ ~Storing(c) /\ root \in Beginnings
    BY InHand DEF IInv, At, InChain, Storing
  <1>2. place \in Place /\ place.at = "keep" /\ place.root = root
    BY <1>1, Places
  <1>3. /\ req' \in [Requests -> Place]
        /\ req'[c] = place
        /\ \A d \in Requests : d # c => req'[d] = req[d]
    BY <1>2, Going DEF IInv
  <1> HIDE DEF place, root
  <1>4. TypeOK'
    BY <1>3 DEF IInv, TypeOK, oauthVars, loginVars
  <1>5. /\ \A d \in Requests : InChain(d)' <=> InChain(d)
        /\ \A d \in Requests : Storing(d)' => Storing(d) /\ req'[d] = req[d]
        /\ \A d \in Requests : InChain(d) => req'[d].root = req[d].root
        /\ \A z \in SignIns : Chained(z)' <=> Chained(z)
        /\ Stored' = Stored
    BY <1>1, <1>2, <1>3 DEF InChain, Storing, Chained, Stored, oauthVars, root
  <1>6. Begun'
    <2>1. \A d \in Requests : req'[d].at \in {"complete", "weblogin"} => Chained(req[d].by)'
      BY <1>2, <1>3 DEF IInv, Begun, Chained
    <2> QED BY <2>1, <1>5 DEF IInv, Begun, Chained
  <1>7. Apart'
    BY <1>5 DEF IInv, Apart
  <1>8. Unspent'
    <2>1. \A d \in Requests : req'[d].at \in {"exchange", "keep"} => issued[req'[d].root] = 0
      BY <1>2, <1>3 DEF IInv, Unspent, At, root
    <2> QED BY <2>1, <1>5 DEF IInv, Unspent, oauthVars
  <1>9. DevicesRest /\ NoncesRest
    BY <1>2, <1>3 DEF DevicesRest, NoncesRest, Asked, loginVars
  <1>10. DatesRest /\ SingleUse'
    BY <1>5 DEF DatesRest, oauthVars, loginVars, IInv, SingleUse
  <1> QED BY <1>4, <1>6, <1>7, <1>8, <1>9, <1>10, DevicesKept, NoncesKept, DatesKept DEF IInv

\* GitHubAnswers, for the web login: a session, and the chain has ended.
LEMMA GitHubAnswersWeb ==
  ASSUME SessionAssumption, IInv, NEW c \in Requests, At(c, "exchange"),
         Issue(req[c].root, person[req[c].root[1]], TRUE), End(c),
         UNCHANGED <<flow, person, begun, key, mature, oauthVars, loginVars>>
  PROVE  IInv'
  <1> DEFINE root == req[c].root
  <1>1. InChain(c) /\ ~Storing(c) /\ root \in Beginnings
    BY InHand DEF IInv, At, InChain, Storing
  <1>2. /\ Chained(root[1]) /\ root[1] \in SignIns /\ root[2] <= begun[root[1]]
        /\ issued[root] = 0 /\ root \notin RefreshTokens
    BY <1>1, Roots, NoMix DEF IInv, Begun, Unspent, At
  <1> HIDE DEF root
  <1>3. /\ sessions' = sessions \cup {[acct |-> person[root[1]], dated |-> TRUE]}
        /\ sessions' \subseteq Session
        /\ issued' \in [Beginnings \cup RefreshTokens -> Nat]
        /\ issued'[root] = issued[root] + 1
        /\ \A q \in Beginnings \cup RefreshTokens : q # root => issued'[q] = issued[q]
    <2>1. person[root[1]] \in Accounts
      BY <1>2 DEF IInv, TypeOK
    <2>2. Issue(root, person[root[1]], TRUE)
      BY DEF root
    <2> QED BY <1>1, <2>1, <2>2, Issuing DEF IInv
  <1>4. /\ req' \in [Requests -> Place]
        /\ req'[c] = Idle
        /\ \A d \in Requests : d # c => req'[d] = req[d]
    BY Ending DEF IInv
  <1>5. TypeOK'
    BY <1>3, <1>4 DEF IInv, TypeOK, oauthVars, loginVars
  <1>6. \A d \in Requests : req'[d].at # "idle" => d # c /\ req'[d] = req[d]
    BY <1>4 DEF Idle
  <1>7. /\ \A d \in Requests : InChain(d)' => d # c /\ InChain(d) /\ req'[d] = req[d]
        /\ \A d \in Requests : Storing(d)' => Storing(d) /\ req'[d] = req[d]
        /\ \A z \in SignIns : Chained(z)' <=> Chained(z)
        /\ Stored' = Stored
    BY <1>6 DEF InChain, Storing, Chained, Stored, oauthVars
  <1>8. /\ \A d \in Requests : InChain(d) => req[d].root \in Beginnings
        /\ \A x \in Stored : x.root \in Beginnings
    BY InHand DEF IInv, TypeOK, Stored, Code, Token
  <1>9. Begun'
    <2>1. \A d \in Requests : req'[d].at \in {"complete", "weblogin"} => Chained(req[d].by)'
      BY <1>6 DEF IInv, Begun, Chained
    <2>2. \A d \in Requests : InChain(d)' =>
            (Chained(req[d].root[1]) /\ req[d].root[2] <= begun[req[d].root[1]])'
      BY <1>7 DEF IInv, Begun, Chained
    <2>3. \A p \in Beginnings : Chained(p[1])' /\ p[2] > begun'[p[1]] => issued'[p] = 0
      <3> SUFFICES ASSUME NEW p \in Beginnings, Chained(p[1]), p[2] > begun[p[1]]
                   PROVE  issued'[p] = 0
        BY DEF Chained
      <3>1. p # root
        BY <1>2, Roots DEF IInv, TypeOK
      <3> QED BY <3>1, <1>3 DEF IInv, Begun
    <2> QED BY <2>1, <2>2, <2>3, <1>7 DEF IInv, Begun, Chained
  <1>10. Apart'
    BY <1>7 DEF IInv, Apart
  <1>11. Unspent'
    <2>1. /\ \A d \in Requests : InChain(d) /\ d # c => issued'[req[d].root] = issued[req[d].root]
          /\ \A x \in Stored : issued'[x.root] = issued[x.root]
      BY <1>1, <1>3, <1>8 DEF IInv, Apart, root
    <2>2. \A z \in SignIns : Chained(z) /\ key[z] # 0 => issued'[<<z, key[z]>>] = 0
      <3> SUFFICES ASSUME NEW z \in SignIns, Chained(z), key[z] # 0
                   PROVE  issued'[<<z, key[z]>>] = 0
        OBVIOUS
      <3>1. <<z, key[z]>> \in Beginnings
        BY DEF IInv, TypeOK, Beginnings
      <3>2. <<z, key[z]>> # root
        BY <1>1 DEF IInv, Apart, root
      <3> QED BY <3>1, <3>2, <1>3 DEF IInv, Unspent
    <2>3. \A q \in RefreshTokens : issued'[q] = issued[q]
      BY <1>2, <1>3
    <2>4. \A d \in Requests : req'[d].at \in {"exchange", "keep"} => issued'[req'[d].root] = 0
      BY <2>1, <1>7 DEF IInv, Unspent, InChain
    <2>5. \A x \in codes : issued'[x.root] = 0
      BY <2>1 DEF IInv, Unspent, Stored
    <2>6. \A d \in Requests : Storing(d) /\ d # c => issued'[req[d].proof] = 0
      <3>1. \A d \in Requests : Storing(d) => InChain(d)
        BY DEF Storing, InChain
      <3> QED BY <3>1, <2>1, <2>3 DEF IInv, Unspent
    <2>7. \A t \in tokens : issued'[t.id] = 0
      BY <2>3 DEF IInv, Unspent, TypeOK, Token
    <2>8. \A n \in 1..Rotations : n > minted => issued'[<<"rt", n>>] = 0
      BY <2>3 DEF IInv, Unspent, RefreshTokens
    <2> QED BY <2>2, <2>4, <2>5, <2>6, <2>7, <2>8, <1>1, <1>7 DEF IInv, Unspent, oauthVars
  <1>12. DevicesRest
    <2>1. \A z \in SignIns : <<z, 1>> \in Beginnings
      BY DEF Beginnings, SessionAssumption
    <2>2. \A z \in SignIns : flow[z] = "device" => <<z, 1>> # root
      BY <1>2 DEF Chained
    <2> QED BY <2>1, <2>2, <1>3, <1>6 DEF DevicesRest, loginVars
  <1>13. NoncesRest
    <2>1. \A p \in Beginnings : Signing(p[1]) => issued'[p] = issued[p]
      BY <1>2, <1>3 DEF Chained, Signing
    <2> QED BY <2>1, <1>6 DEF NoncesRest, Asked, loginVars
  <1>14. Dates'
    BY <1>3, <1>7 DEF IInv, Dates, UndatedIsRecorded, loginVars
  <1>15. SingleUse'
    BY <1>2, <1>3 DEF IInv, SingleUse, TypeOK
  <1> QED BY <1>5, <1>9, <1>10, <1>11, <1>12, <1>13, <1>14, <1>15, DevicesKept, NoncesKept DEF IInv

\* GitHubAnswers.
LEMMA GitHubAnswersStep ==
  ASSUME SessionAssumption, IInv, NEW c \in Requests, GitHubAnswers(c), UNCHANGED loginVars
  PROVE  IInv'
  <1>1. At(c, "exchange") /\ UNCHANGED <<flow, person, begun, key, mature, oauthVars>>
    BY DEF GitHubAnswers
  <1>2. CASE GoTo(c, [at |-> "keep", root |-> req[c].root]) /\ UNCHANGED <<sessions, issued>>
    BY <1>1, <1>2, GitHubAnswersMcp
  <1>3. CASE Issue(req[c].root, person[req[c].root[1]], TRUE) /\ End(c)
    BY <1>1, <1>3, GitHubAnswersWeb
  <1> QED BY <1>2, <1>3 DEF GitHubAnswers

\* StoreCode: the beginning passes from the request to a code.
LEMMA StoreCodeStep ==
  ASSUME SessionAssumption, IInv, NEW c \in Requests, StoreCode(c), UNCHANGED loginVars
  PROVE  IInv'
  <1> DEFINE root == req[c].root
             code == [root |-> root, dated |-> TRUE]
  <1>1. InChain(c) /\ ~Storing(c) /\ root \in Beginnings /\ code \in Code
    BY InHand DEF IInv, StoreCode, At, InChain, Storing, Code
  <1>2. issued[root] = 0 /\ Chained(root[1]) /\ root[2] <= begun[root[1]]
    BY <1>1 DEF IInv, Begun, Unspent, StoreCode, At
  <1>3. code.root = root /\ code.dated = TRUE
    OBVIOUS
  <1>4. codes' = codes \cup {code}
    BY DEF StoreCode
  <1>5. /\ req' \in [Requests -> Place]
        /\ req'[c] = Idle
        /\ \A d \in Requests : d # c => req'[d] = req[d]
    BY Ending DEF IInv, StoreCode
  <1>6. UNCHANGED <<flow, person, begun, key, sessions, issued, mature, clients, tokens, minted>>
    BY DEF StoreCode
  <1> HIDE DEF code, root
  <1>7. TypeOK'
    BY <1>1, <1>4, <1>5, <1>6 DEF IInv, TypeOK, loginVars
  <1>8. \A d \in Requests : req'[d].at # "idle" => d # c /\ req'[d] = req[d]
    BY <1>5 DEF Idle
  <1>9. /\ \A d \in Requests : InChain(d)' => d # c /\ InChain(d) /\ req'[d] = req[d]
        /\ \A d \in Requests : Storing(d)' => Storing(d) /\ req'[d] = req[d]
        /\ \A z \in SignIns : Chained(z)' <=> Chained(z)
        /\ Stored' = Stored \cup {code}
    BY <1>4, <1>6, <1>8 DEF InChain, Storing, Chained, Stored
  <1>10. Begun'
    <2>1. \A d \in Requests : req'[d].at \in {"complete", "weblogin"} => Chained(req[d].by)'
      BY <1>6, <1>8 DEF IInv, Begun, Chained
    <2>2. \A x \in Stored' : (Chained(x.root[1]) /\ x.root[2] <= begun[x.root[1]])'
      BY <1>2, <1>3, <1>6, <1>9 DEF IInv, Begun, Chained
    <2> QED BY <2>1, <2>2, <1>6, <1>9 DEF IInv, Begun, Chained
  <1>11. Apart'
    <2>1. \A d \in Requests : InChain(d) /\ d # c => req[d].root # root
      BY <1>1 DEF IInv, Apart, root
    <2>2. \A x \in Stored : x.root # root
      BY <1>1 DEF IInv, Apart, root
    <2>3. \A z \in SignIns : Chained(z) => root # <<z, key[z]>>
      BY <1>1 DEF IInv, Apart, root
    <2>4. \A d \in Requests : InChain(d)' => \A x \in Stored' : x.root # req'[d].root
      BY <2>1, <1>3, <1>9 DEF IInv, Apart
    <2>5. \A x, y \in Stored' : x.root = y.root => x = y
      BY <2>2, <1>3, <1>9 DEF IInv, Apart
    <2>6. \A z \in SignIns : Chained(z)' => \A x \in Stored' : x.root # <<z, key'[z]>>
      BY <2>3, <1>3, <1>6, <1>9 DEF IInv, Apart
    <2> QED BY <2>4, <2>5, <2>6, <1>6, <1>9 DEF IInv, Apart
  <1>12. Unspent'
    <2>1. \A d \in Requests : req'[d].at \in {"exchange", "keep"} => issued'[req'[d].root] = 0
      BY <1>6, <1>8 DEF IInv, Unspent
    <2>2. \A x \in codes' : issued'[x.root] = 0
      BY <1>2, <1>3, <1>4, <1>6 DEF IInv, Unspent
    <2> QED BY <2>1, <2>2, <1>6, <1>9 DEF IInv, Unspent
  <1>13. DevicesRest /\ NoncesRest
    BY <1>6, <1>8 DEF DevicesRest, NoncesRest, Asked, loginVars
  <1>14. Dates' /\ SingleUse'
    BY <1>3, <1>6, <1>9 DEF IInv, Dates, UndatedIsRecorded, SingleUse, loginVars
  <1> QED BY <1>7, <1>10, <1>11, <1>12, <1>13, <1>14, DevicesKept, NoncesKept DEF IInv

\* A request takes a code or refresh token; proof is what it will issue a session on.
LEMMA Takes ==
  ASSUME IInv, NEW c \in Requests, ~InChain(c), NEW x \in Stored,
         NEW proof \in Beginnings \cup RefreshTokens,
         GoTo(c, [at |-> "store", proof |-> proof, root |-> x.root, dated |-> x.dated]),
         codes' \subseteq codes, tokens' \subseteq tokens, x \notin Stored',
         issued[proof] = 0,
         proof # x.root => proof \in RefreshTokens /\ proof[2] <= minted,
         \A d \in Requests : Storing(d) => req[d].proof # proof,
         \A t \in tokens' : t.id # proof,
         UNCHANGED <<flow, person, begun, key, sessions, issued, mature, clients, minted, loginVars>>
  PROVE  IInv'
  <1> DEFINE place == [at |-> "store", proof |-> proof, root |-> x.root, dated |-> x.dated]
  <1>1. x.root \in Beginnings /\ x.dated \in BOOLEAN /\ x.dated
    BY DEF IInv, TypeOK, Stored, Code, Token, Dates
  <1>2. /\ place \in Place /\ place.at = "store"
        /\ place.proof = proof /\ place.root = x.root /\ place.dated
    BY <1>1, Places
  <1>3. /\ req' \in [Requests -> Place]
        /\ req'[c] = place
        /\ \A d \in Requests : d # c => req'[d] = req[d]
    BY <1>2, Going DEF IInv
  <1> HIDE DEF place
  <1>4. TypeOK'
    BY <1>3 DEF IInv, TypeOK, loginVars
  <1>5. /\ \A y \in Stored' : y \in Stored /\ y # x
        /\ InChain(c)' /\ Storing(c)' /\ req'[c].root = x.root /\ req'[c].proof = proof
        /\ \A d \in Requests : d # c => (InChain(d)' <=> InChain(d)) /\ (Storing(d)' <=> Storing(d))
        /\ \A z \in SignIns : Chained(z)' <=> Chained(z)
    BY <1>2, <1>3 DEF Stored, InChain, Storing, Chained
  <1>6. Begun'
    <2>1. Chained(x.root[1]) /\ x.root[2] <= begun[x.root[1]]
      BY DEF IInv, Begun
    <2>2. \A d \in Requests : InChain(d)' =>
            (Chained(req[d].root[1]) /\ req[d].root[2] <= begun[req[d].root[1]])'
      BY <2>1, <1>3, <1>5 DEF IInv, Begun, Chained
    <2>3. \A d \in Requests : req'[d].at \in {"complete", "weblogin"} => Chained(req[d].by)'
      BY <1>2, <1>3 DEF IInv, Begun, Chained
    <2> QED BY <2>2, <2>3, <1>5 DEF IInv, Begun, Chained
  <1>7. Apart'
    <2>1. \A d \in Requests : InChain(d) => req[d].root # x.root
      BY DEF IInv, Apart
    <2>2. \A d, e \in Requests : InChain(d)' /\ InChain(e)' /\ req'[d].root = req'[e].root => d = e
      BY <2>1, <1>3, <1>5 DEF IInv, Apart
    <2>3. \A d \in Requests : InChain(d)' => \A y \in Stored' : y.root # req'[d].root
      BY <1>3, <1>5 DEF IInv, Apart
    <2>4. \A z \in SignIns : Chained(z) => \A d \in Requests : InChain(d)' => req'[d].root # <<z, key[z]>>
      BY <1>3, <1>5 DEF IInv, Apart
    <2> QED BY <2>2, <2>3, <2>4, <1>5 DEF IInv, Apart
  <1>8. Unspent'
    <2>1. \A d \in Requests : req'[d].at \in {"exchange", "keep"} => issued[req'[d].root] = 0
      BY <1>2, <1>3 DEF IInv, Unspent
    <2>2. \A d \in Requests : Storing(d)' =>
            /\ issued[req'[d].proof] = 0
            /\ req'[d].proof # req'[d].root =>
                 req'[d].proof \in RefreshTokens /\ req'[d].proof[2] <= minted
            /\ \A t \in tokens' : t.id # req'[d].proof
      BY <1>3, <1>5 DEF IInv, Unspent
    <2>3. \A d, e \in Requests : Storing(d)' /\ Storing(e)' /\ req'[d].proof = req'[e].proof => d = e
      BY <1>3, <1>5 DEF IInv, Unspent
    <2> QED BY <2>1, <2>2, <2>3, <1>5 DEF IInv, Unspent
  <1>9. DevicesRest /\ NoncesRest
    BY <1>2, <1>3 DEF DevicesRest, NoncesRest, Asked, loginVars
  <1>10. Dates' /\ SingleUse'
    <2>1. \A d \in Requests : Storing(d)' => req'[d].dated
      BY <1>2, <1>3, <1>5 DEF IInv, Dates
    <2> QED BY <2>1, <1>5 DEF IInv, Dates, UndatedIsRecorded, SingleUse, loginVars
  <1> QED BY <1>4, <1>6, <1>7, <1>8, <1>9, <1>10, DevicesKept, NoncesKept DEF IInv

\* UseCode: of two requests with one code, the second finds it gone.
LEMMA UseCodeStep ==
  ASSUME SessionAssumption, IInv, NEW c \in Requests, UseCode(c), UNCHANGED loginVars
  PROVE  IInv'
  <1> DEFINE code == req[c].code
  <1>1. key \in [SignIns -> 0..Again] /\ ~InChain(c)
    BY DEF UseCode, At, InChain, IInv, TypeOK
  <1>2. CASE End(c) /\ UNCHANGED codes
    BY <1>1, <1>2, Places, LookingOn DEF UseCode, End, Idle, oauthVars
  <1>3. CASE /\ code \in codes /\ codes' = codes \ {code}
             /\ GoTo(c, [at |-> "store", proof |-> code.root, root |-> code.root,
                         dated |-> code.dated])
    <2>1. code \in Stored /\ code.root \in Beginnings /\ issued[code.root] = 0
      BY <1>3 DEF Stored, IInv, TypeOK, Code, Unspent
    <2>2. code \notin Stored'
      <3>1. \A t \in Token : "id" \in DOMAIN t
        BY DEF Token
      <3>2. \A x \in Code : "id" \notin DOMAIN x
        BY DEF Code
      <3>3. code \in Code /\ tokens \subseteq Token
        BY <1>3 DEF IInv, TypeOK
      <3> QED BY <3>1, <3>2, <3>3, <1>3 DEF Stored, UseCode
    <2>3. \A d \in Requests : Storing(d) => req[d].proof # code.root
      <3> SUFFICES ASSUME NEW d \in Requests, Storing(d), req[d].proof = code.root
                   PROVE  FALSE
        OBVIOUS
      <3>1. code.root \notin RefreshTokens
        BY <2>1, NoMix
      <3>2. InChain(d) /\ req[d].root = code.root
        BY <3>1 DEF IInv, Unspent, Storing, InChain
      <3> QED BY <3>2, <2>1 DEF IInv, Apart
    <2>4. \A t \in tokens' : t.id # code.root
      BY <2>1, NoMix DEF UseCode, IInv, TypeOK, Token
    <2> HIDE DEF code
    <2> QED BY <1>1, <1>3, <2>1, <2>2, <2>3, <2>4, Takes DEF UseCode
  <1> QED BY <1>2, <1>3 DEF UseCode

\* UseToken: of two refreshes with one token, the second finds it gone.
LEMMA UseTokenStep ==
  ASSUME SessionAssumption, IInv, NEW c \in Requests, UseToken(c), UNCHANGED loginVars
  PROVE  IInv'
  <1> DEFINE token == req[c].token
  <1>1. key \in [SignIns -> 0..Again] /\ ~InChain(c)
    BY DEF UseToken, At, InChain, IInv, TypeOK
  <1>2. CASE End(c) /\ UNCHANGED tokens
    BY <1>1, <1>2, Places, LookingOn DEF UseToken, End, Idle, oauthVars
  <1>3. CASE /\ token \in tokens /\ tokens' = tokens \ {token}
             /\ GoTo(c, [at |-> "store", proof |-> token.id, root |-> token.root,
                         dated |-> token.dated])
    <2>1. /\ token \in Stored /\ token.id \in RefreshTokens
          /\ issued[token.id] = 0 /\ token.id[2] <= minted
      BY <1>3 DEF Stored, IInv, TypeOK, Token, Unspent
    <2>2. token \notin Stored'
      <3>1. \A x \in Code : "id" \notin DOMAIN x
        BY DEF Code
      <3>2. token \in Token /\ codes \subseteq Code /\ "id" \in DOMAIN token
        BY <1>3 DEF IInv, TypeOK, Token
      <3> QED BY <3>1, <3>2, <1>3 DEF Stored, UseToken
    <2>3. \A d \in Requests : Storing(d) => req[d].proof # token.id
      BY <1>3 DEF IInv, Unspent
    <2>4. \A t \in tokens' : t.id # token.id
      BY <1>3 DEF IInv, Unspent
    <2> HIDE DEF token
    <2> QED BY <1>1, <1>3, <2>1, <2>2, <2>3, <2>4, Takes DEF UseToken
  <1> QED BY <1>2, <1>3 DEF UseToken

\* StoreToken: a session on what was taken, and a refresh token nobody has seen.
LEMMA StoreTokenStep ==
  ASSUME SessionAssumption, IInv, NEW c \in Requests, StoreToken(c), UNCHANGED loginVars
  PROVE  IInv'
  <1> DEFINE root == req[c].root
             proof == req[c].proof
             dated == req[c].dated
             id == <<"rt", minted + 1>>
             token == [id |-> id, root |-> root, dated |-> dated]
  <1>1. /\ InChain(c) /\ Storing(c) /\ root \in Beginnings
        /\ proof \in Beginnings \cup RefreshTokens /\ dated \in BOOLEAN /\ dated
    BY InHand DEF IInv, StoreToken, At, InChain, Storing, Dates
  <1>2. /\ Chained(root[1]) /\ root[1] \in SignIns /\ root[2] <= begun[root[1]]
        /\ issued[proof] = 0
        /\ proof # root => proof \in RefreshTokens /\ proof[2] <= minted
    BY <1>1, Roots DEF IInv, Begun, Unspent
  <1>3. /\ minted \in 0..Rotations /\ minted' = minted + 1 /\ minted + 1 \in 1..Rotations
        /\ id \in RefreshTokens /\ id[2] = minted + 1
    BY DEF IInv, TypeOK, StoreToken, RefreshTokens, SessionAssumption
  <1>4. token \in Token /\ token.id = id /\ token.root = root /\ token.dated
    BY <1>1, <1>3 DEF Token
  <1>5. tokens' = tokens \cup {token}
    BY DEF StoreToken
  <1>6. UNCHANGED <<flow, person, begun, key, mature, clients, codes>>
    BY DEF StoreToken
  <1>7. Issue(proof, person[root[1]], dated) /\ End(c)
    BY DEF StoreToken
  <1> HIDE DEF token, id, dated, proof, root
  <1>8. /\ sessions' = sessions \cup {[acct |-> person[root[1]], dated |-> dated]}
        /\ sessions' \subseteq Session
        /\ issued' \in [Beginnings \cup RefreshTokens -> Nat]
        /\ issued'[proof] = issued[proof] + 1
        /\ \A q \in Beginnings \cup RefreshTokens : q # proof => issued'[q] = issued[q]
    <2>1. person[root[1]] \in Accounts
      BY <1>2 DEF IInv, TypeOK
    <2> QED BY <1>1, <1>7, <2>1, Issuing DEF IInv
  <1>9. /\ req' \in [Requests -> Place]
        /\ req'[c] = Idle
        /\ \A d \in Requests : d # c => req'[d] = req[d]
    BY <1>7, Ending DEF IInv
  <1>10. TypeOK'
    <2>1. minted' \in 0..Rotations /\ tokens' \subseteq Token
      BY <1>3, <1>4, <1>5 DEF IInv, TypeOK, SessionAssumption
    <2> QED BY <2>1, <1>6, <1>8, <1>9 DEF IInv, TypeOK, loginVars
  <1>11. \A d \in Requests : req'[d].at # "idle" => d # c /\ req'[d] = req[d]
    BY <1>9 DEF Idle
  <1>12. /\ \A d \in Requests : InChain(d)' => d # c /\ InChain(d) /\ req'[d] = req[d]
         /\ \A d \in Requests : Storing(d)' => d # c /\ Storing(d) /\ req'[d] = req[d]
         /\ \A z \in SignIns : Chained(z)' <=> Chained(z)
         /\ Stored' = Stored \cup {token}
    BY <1>5, <1>6, <1>11 DEF InChain, Storing, Chained, Stored
  <1>13. /\ \A d \in Requests : InChain(d) => req[d].root \in Beginnings
         /\ \A x \in Stored : x.root \in Beginnings
         /\ \A x \in tokens : x.id \in RefreshTokens
         /\ \A z \in SignIns : key[z] # 0 => <<z, key[z]>> \in Beginnings
    BY InHand DEF IInv, TypeOK, Stored, Code, Token, Beginnings
  <1>14. Begun'
    <2>1. \A d \in Requests : req'[d].at \in {"complete", "weblogin"} => Chained(req[d].by)'
      BY <1>6, <1>11 DEF IInv, Begun, Chained
    <2>2. \A d \in Requests : InChain(d)' =>
            (Chained(req[d].root[1]) /\ req[d].root[2] <= begun[req[d].root[1]])'
      BY <1>6, <1>12 DEF IInv, Begun, Chained
    <2>3. \A x \in Stored' : (Chained(x.root[1]) /\ x.root[2] <= begun[x.root[1]])'
      BY <1>2, <1>4, <1>6, <1>12 DEF IInv, Begun, Chained
    <2>4. \A p \in Beginnings : Chained(p[1])' /\ p[2] > begun'[p[1]] => issued'[p] = 0
      <3> SUFFICES ASSUME NEW p \in Beginnings, Chained(p[1]), p[2] > begun[p[1]]
                   PROVE  issued'[p] = 0
        BY <1>6 DEF Chained
      <3>1. p # root
        BY <1>2, Roots DEF IInv, TypeOK
      <3>2. p # proof
        BY <3>1, <1>2, NoMix
      <3> QED BY <3>2, <1>8 DEF IInv, Begun
    <2> QED BY <2>1, <2>2, <2>3, <2>4, <1>6, <1>12 DEF IInv, Begun, Chained
  <1>15. Apart'
    <2>1. /\ \A d \in Requests : InChain(d) /\ d # c => req[d].root # root
          /\ \A x \in Stored : x.root # root
          /\ \A z \in SignIns : Chained(z) => root # <<z, key[z]>>
      BY <1>1 DEF IInv, Apart, root
    <2>2. \A d \in Requests : InChain(d)' => \A x \in Stored' : x.root # req'[d].root
      BY <2>1, <1>4, <1>12 DEF IInv, Apart
    <2>3. \A x, y \in Stored' : x.root = y.root => x = y
      BY <2>1, <1>4, <1>12 DEF IInv, Apart
    <2>4. \A z \in SignIns : Chained(z)' => \A x \in Stored' : x.root # <<z, key'[z]>>
      BY <2>1, <1>4, <1>6, <1>12 DEF IInv, Apart
    <2> QED BY <2>2, <2>3, <2>4, <1>6, <1>12 DEF IInv, Apart
  <1>16. Unspent'
    <2>1. \A p \in Beginnings : p # root => issued'[p] = issued[p]
      BY <1>2, <1>8, NoMix
    <2>2. /\ \A d \in Requests : InChain(d) /\ d # c => issued'[req[d].root] = issued[req[d].root]
          /\ \A x \in Stored : issued'[x.root] = issued[x.root]
      BY <2>1, <1>1, <1>13 DEF IInv, Apart, root
    <2>3. \A z \in SignIns : Chained(z) /\ key[z] # 0 => issued'[<<z, key[z]>>] = 0
      BY <2>1, <1>1, <1>13 DEF IInv, Apart, Unspent, root
    <2>4. \A d \in Requests : req'[d].at \in {"exchange", "keep"} => issued'[req'[d].root] = 0
      BY <2>2, <1>12 DEF IInv, Unspent, InChain
    <2>5. \A x \in codes : issued'[x.root] = 0
      BY <2>2 DEF IInv, Unspent, Stored
    <2>6. \A d \in Requests : Storing(d) /\ d # c =>
            /\ issued'[req[d].proof] = 0
            /\ req[d].proof # req[d].root =>
                 req[d].proof \in RefreshTokens /\ req[d].proof[2] <= minted + 1
            /\ req[d].proof # id
      <3> SUFFICES ASSUME NEW d \in Requests, Storing(d), d # c
                   PROVE  /\ issued'[req[d].proof] = 0
                          /\ req[d].proof # req[d].root =>
                               req[d].proof \in RefreshTokens /\ req[d].proof[2] <= minted + 1
                          /\ req[d].proof # id
        OBVIOUS
      <3>1. req[d].proof \in Beginnings \cup RefreshTokens
        BY InHand DEF IInv, Storing
      <3>2. req[d].proof # proof
        BY <1>1 DEF IInv, Unspent, proof
      <3>3. issued'[req[d].proof] = 0
        BY <3>1, <3>2, <1>8 DEF IInv, Unspent
      <3>4. req[d].proof # req[d].root =>
              req[d].proof \in RefreshTokens /\ req[d].proof[2] <= minted
        BY DEF IInv, Unspent
      <3>5. \A q \in RefreshTokens : q[2] \in Nat
        BY DEF RefreshTokens
      <3>6. req[d].root \in Beginnings
        BY <1>13 DEF InChain, Storing
      <3>7. req[d].proof # id
        BY <3>4, <3>6, <1>3, NoMix
      <3> QED BY <3>3, <3>4, <3>5, <3>7, <1>3
    <2>7. \A t \in tokens' : issued'[t.id] = 0 /\ t.id[2] <= minted'
      <3>1. id # proof
        BY <1>1, <1>2, <1>3, NoMix
      <3>2. issued[id] = 0
        <4>1. id = <<"rt", minted + 1>>
          BY DEF id
        <4> QED BY <4>1, <1>3 DEF IInv, Unspent
      <3>3. issued'[id] = 0
        BY <3>1, <3>2, <1>3, <1>8
      <3>4. \A t \in tokens : issued'[t.id] = 0 /\ t.id[2] <= minted'
        <4>1. \A t \in tokens : t.id # proof
          BY <1>1 DEF IInv, Unspent, proof
        <4>2. \A q \in RefreshTokens : q[2] \in Nat
          BY DEF RefreshTokens
        <4> QED BY <4>1, <4>2, <1>3, <1>8, <1>13 DEF IInv, Unspent
      <3>5. token.id = id /\ id[2] <= minted'
        BY <1>3, <1>4
      <3> QED BY <3>3, <3>4, <3>5, <1>5
    <2>8. \A n \in 1..Rotations : n > minted' => issued'[<<"rt", n>>] = 0
      <3> SUFFICES ASSUME NEW n \in 1..Rotations, n > minted + 1
                   PROVE  issued'[<<"rt", n>>] = 0
        BY <1>3
      <3>1. <<"rt", n>> \in RefreshTokens /\ <<"rt", n>>[2] = n
        BY DEF RefreshTokens
      <3>2. n > minted
        BY <1>3
      <3>3. <<"rt", n>> # proof
        BY <3>1, <3>2, <1>1, <1>2, <1>3, NoMix
      <3> QED BY <3>1, <3>2, <3>3, <1>8 DEF IInv, Unspent
    <2>9. \A t \in tokens : t.id # id
      BY <1>3, <1>13 DEF IInv, Unspent
    <2>10. \A t, u \in tokens' : t.id = u.id => t = u
      BY <2>9, <1>4, <1>5 DEF IInv, Unspent
    <2>11. \A d \in Requests : Storing(d)' =>
             /\ issued'[req'[d].proof] = 0
             /\ req'[d].proof # req'[d].root =>
                  req'[d].proof \in RefreshTokens /\ req'[d].proof[2] <= minted'
             /\ \A t \in tokens' : t.id # req'[d].proof
      BY <2>6, <1>3, <1>4, <1>5, <1>12 DEF IInv, Unspent
    <2>12. \A d, e \in Requests : Storing(d)' /\ Storing(e)' /\ req'[d].proof = req'[e].proof => d = e
      BY <1>12 DEF IInv, Unspent
    <2> QED BY <2>3, <2>4, <2>5, <2>7, <2>8, <2>10, <2>11, <2>12, <1>6, <1>12 DEF Unspent
  <1>17. DevicesRest
    <2>1. \A z \in SignIns : <<z, 1>> \in Beginnings
      BY DEF Beginnings, SessionAssumption
    <2>2. \A z \in SignIns : flow[z] = "device" => <<z, 1>> # root
      BY <1>2 DEF Chained
    <2>3. \A z \in SignIns : flow[z] = "device" => <<z, 1>> # proof
      BY <2>1, <2>2, <1>2, NoMix
    <2> QED BY <2>1, <2>3, <1>6, <1>8, <1>11 DEF DevicesRest, loginVars
  <1>18. NoncesRest
    <2>1. \A p \in Beginnings : Signing(p[1]) => p # proof
      BY <1>2, NoMix DEF Chained, Signing
    <2>2. \A p \in Beginnings : Signing(p[1]) => issued'[p] = issued[p]
      BY <2>1, <1>8
    <2> QED BY <2>2, <1>6, <1>11 DEF NoncesRest, Asked, loginVars
  <1>19. Dates'
    BY <1>1, <1>4, <1>6, <1>8, <1>12 DEF IInv, Dates, UndatedIsRecorded, loginVars
  <1>20. SingleUse'
    BY <1>1, <1>2, <1>8 DEF IInv, SingleUse, TypeOK
  <1> QED BY <1>10, <1>14, <1>15, <1>16, <1>17, <1>18, <1>19, <1>20, DevicesKept, NoncesKept DEF IInv

\* OAuthTermEnds.
LEMMA OAuthTermEndsStep ==
  ASSUME SessionAssumption, IInv, OAuthTermEnds, UNCHANGED loginVars
  PROVE  IInv'
  <1>1. /\ codes' \subseteq codes /\ tokens' \subseteq tokens /\ clients' \subseteq clients
        /\ key' \in [SignIns -> 0..Again]
        /\ \A s \in SignIns : (Chained(s) /\ key'[s] = 0) \/ key'[s] = key[s]
    BY DEF OAuthTermEnds, IInv, TypeOK, Chained, SessionAssumption
  <1>2. UNCHANGED <<flow, person, begun, req, sessions, issued, mature, minted>>
    BY DEF OAuthTermEnds
  <1>3. TypeOK'
    BY <1>1, <1>2 DEF IInv, TypeOK, loginVars
  <1>4. ChainsRest /\ DatesRest
    BY <1>1, <1>2 DEF ChainsRest, DatesRest, IInv, Begun, loginVars
  <1>5. DevicesRest /\ NoncesRest
    BY <1>1, <1>2 DEF DevicesRest, NoncesRest, Chained, loginVars
  <1> QED BY <1>2, <1>3, <1>4, <1>5, QuietStep

-----------------------------------------------------------------------------
(* The steps of the world between them.                                    *)

\* Interrupted.
LEMMA InterruptedStep ==
  ASSUME IInv, NEW c \in Requests, Interrupted(c), UNCHANGED <<oauthVars, loginVars>>
  PROVE  IInv'
  <1>1. key' = key /\ key \in [SignIns -> 0..Again]
    BY DEF Interrupted, IInv, TypeOK
  <1> QED BY <1>1, Places, LookingOn DEF Interrupted, End, Idle, oauthVars

\* ComesOfAge.
LEMMA ComesOfAgeStep ==
  ASSUME IInv, NEW g \in Accounts, ComesOfAge(g), UNCHANGED <<oauthVars, loginVars>>
  PROVE  IInv'
  <1>1. TypeOK'
    BY DEF IInv, TypeOK, ComesOfAge, oauthVars, loginVars
  <1>2. ChainsRest /\ DevicesRest /\ NoncesRest /\ DatesRest /\ issued' = issued
    BY DEF ComesOfAge, oauthVars, loginVars, ChainsRest, DevicesRest, NoncesRest, DatesRest
  <1> QED BY <1>1, <1>2, QuietStep

-----------------------------------------------------------------------------
(* The steps of device sign-ins.                                           *)

\* A step of the logins keeps the types if it does so for what it changes.
LEMMA LoginTypes ==
  ASSUME TypeOK, UNCHANGED <<flow, person, mature, oauthVars>>,
         begun' \in [SignIns -> 0..Again], key' \in [SignIns -> 0..Again],
         req' \in [Requests -> Place], sessions' \subseteq Session,
         issued' \in [Beginnings \cup RefreshTokens -> Nat],
         github' \in [SignIns -> DeviceStates],
         nonce' \in [Accounts -> Beginnings \cup {NoNonce}],
         identity' \in [Accounts -> {"none", "gateway", "elsewhere"}]
  PROVE  TypeOK'
  BY DEF TypeOK, oauthVars

\* StartDevice.
LEMMA StartDeviceStep ==
  ASSUME SessionAssumption, IInv, NEW s \in SignIns, StartDevice(s), UNCHANGED oauthVars
  PROVE  IInv'
  <1>1. flow[s] = "device" /\ begun[s] = 0
    BY DEF StartDevice
  <1>2. /\ begun' \in [SignIns -> 0..Again]
        /\ begun'[s] = begun[s] + 1
        /\ \A z \in SignIns : z # s => begun'[z] = begun[z]
    BY Beginning DEF IInv, StartDevice
  <1>3. /\ key' \in [SignIns -> 0..Again]
        /\ key'[s] = 1
        /\ \A z \in SignIns : z # s => key'[z] = key[z]
    BY SessionAssumption DEF SessionAssumption, IInv, TypeOK, StartDevice
  <1>4. /\ github' \in [SignIns -> DeviceStates]
        /\ github'[s] = "waiting"
        /\ \A z \in SignIns : z # s => github'[z] = github[z]
    BY DEF DeviceStates, IInv, TypeOK, StartDevice
  <1>5. UNCHANGED <<flow, person, req, sessions, issued, mature, nonce, identity, oauthVars>>
    BY DEF StartDevice
  <1>6. TypeOK'
    <2>1. TypeOK
      BY DEF IInv
    <2> QED BY <2>1, <1>2, <1>3, <1>4, <1>5, LoginTypes DEF TypeOK
  <1>7. github[s] = "none"
    BY <1>1 DEF IInv, Devices
  <1>8. Devices'
    <2>1. \A z \in SignIns : github'[z] # "none" <=> flow[z] = "device" /\ begun'[z] > 0
      BY <1>1, <1>2, <1>4 DEF IInv, Devices
    <2>2. \A z \in SignIns : flow[z] = "device" /\ begun'[z] = 0 =>
            key'[z] = 0 /\ issued[<<z, 1>>] = 0
      BY <1>1, <1>2, <1>3 DEF IInv, Devices
    <2>3. \A c \in Requests : req[c].at \in {"poll", "drop", "fetch"} => github'[req[c].by] = github[req[c].by]
      BY <1>4, <1>7, InHand DEF IInv, Devices, Redeeming
    <2>4. \A c \in Requests : Redeeming(c) => github'[req[c].by] = github[req[c].by]
      BY <2>3 DEF Redeeming
    <2>5. \A z \in SignIns : github'[z] \in {"waiting", "granted"} =>
            key'[z] # 0 /\ issued[<<z, 1>>] = 0
      BY <1>1, <1>3, <1>4 DEF IInv, Devices
    <2> QED BY <2>1, <2>2, <2>3, <2>4, <2>5, <1>5 DEF IInv, Devices, Redeeming
  <1>9. ChainsRest
    BY <1>1, <1>2, <1>3, <1>5 DEF ChainsRest, Chained, oauthVars
  <1>10. NoncesRest /\ DatesRest /\ SingleUse'
    BY <1>1, <1>2, <1>5 DEF NoncesRest, Signing, DatesRest, oauthVars, IInv, SingleUse
  <1> QED BY <1>6, <1>8, <1>9, <1>10, ChainsKept, NoncesKept, DatesKept DEF IInv

\* UserDecides and DeviceCodeEnds.
LEMMA GitHubDecides ==
  ASSUME IInv, NEW s \in SignIns, NEW to \in {"granted", "denied", "expired"},
         github[s] \in {"waiting", "granted"},
         github' = [github EXCEPT ![s] = to],
         UNCHANGED <<sharedVars, nonce, identity, oauthVars>>
  PROVE  IInv'
  <1>1. /\ github' \in [SignIns -> DeviceStates]
        /\ github'[s] = to
        /\ \A z \in SignIns : z # s => github'[z] = github[z]
    BY DEF DeviceStates, IInv, TypeOK
  <1>2. TypeOK'
    BY <1>1 DEF IInv, TypeOK, oauthVars, sharedVars
  <1>3. Devices'
    <2>1. \A c \in Requests : Redeeming(c)' <=> Redeeming(c)
      BY DEF Redeeming, sharedVars
    <2>2. \A c \in Requests : Redeeming(c) => req[c].by # s
      BY DEF IInv, Devices
    <2>3. \A c \in Requests : Redeeming(c) => req[c].by \in SignIns
      BY InHand DEF IInv, Redeeming
    <2>4. \A z \in SignIns : github'[z] # "none" <=> github[z] # "none"
      BY <1>1
    <2>5. \A c \in Requests : req[c].at = "poll" => github'[req[c].by] # "none"
      BY <2>4, InHand DEF IInv, Devices
    <2>6. \A c \in Requests : req[c].at = "drop" =>
            github'[req[c].by] \notin {"none", "waiting", "granted"}
      BY <1>1, InHand DEF IInv, Devices
    <2>7. \A c \in Requests : Redeeming(c) =>
            github'[req[c].by] = "redeemed" /\ issued[<<req[c].by, 1>>] = 0
      BY <2>2, <2>3, <1>1 DEF IInv, Devices
    <2>8. \A z \in SignIns : github'[z] \in {"waiting", "granted"} =>
            key[z] # 0 /\ issued[<<z, 1>>] = 0
      BY <1>1 DEF IInv, Devices
    <2> QED BY <2>1, <2>4, <2>5, <2>6, <2>7, <2>8 DEF IInv, Devices, sharedVars
  <1>4. ChainsRest /\ NoncesRest /\ DatesRest /\ SingleUse'
    BY DEF ChainsRest, NoncesRest, DatesRest, sharedVars, oauthVars, IInv, SingleUse
  <1> QED BY <1>2, <1>3, <1>4, ChainsKept, NoncesKept, DatesKept DEF IInv

\* PollDevice.
LEMMA PollDeviceStep ==
  ASSUME IInv, NEW c \in Requests, NEW s \in SignIns, PollDevice(c, s), UNCHANGED oauthVars
  PROVE  IInv'
  <1> DEFINE place == [at |-> "poll", by |-> s]
  <1>1. place \in Place /\ place.at = "poll" /\ place.by = s
    BY Places
  <1>2. /\ req' \in [Requests -> Place]
        /\ req'[c] = place
        /\ \A d \in Requests : d # c => req'[d] = req[d]
    BY <1>1, Going DEF IInv, PollDevice
  <1> HIDE DEF place
  <1>3. UNCHANGED <<flow, person, begun, key, sessions, issued, mature, oauthVars, loginVars>>
    BY DEF PollDevice
  <1>4. TypeOK'
    BY <1>2, <1>3 DEF IInv, TypeOK, oauthVars, loginVars
  <1>5. ChainsRest /\ NoncesRest /\ DatesRest /\ SingleUse'
    BY <1>1, <1>2, <1>3
    DEF ChainsRest, InChain, NoncesRest, Asked, DatesRest, Storing, oauthVars, loginVars, IInv, SingleUse
  <1>6. Devices'
    <2>1. github[s] # "none"
      <3>1. flow[s] = "device" /\ key[s] # 0
        BY DEF PollDevice
      <3>2. begun[s] \in 0..Again
        BY DEF IInv, TypeOK
      <3>3. begun[s] # 0
        BY <3>1 DEF IInv, Devices
      <3>4. begun[s] > 0
        BY <3>2, <3>3
      <3> QED BY <3>1, <3>4 DEF IInv, Devices
    <2>2. \A d \in Requests : Redeeming(d)' => Redeeming(d) /\ req'[d] = req[d]
      BY <1>1, <1>2 DEF Redeeming
    <2> QED BY <2>1, <2>2, <1>1, <1>2, <1>3 DEF IInv, Devices, loginVars
  <1> QED BY <1>4, <1>5, <1>6, ChainsKept, NoncesKept, DatesKept DEF IInv

\* GitHub's last answer to a poll: the token, for the one request that sees it.
LEMMA PollAnsweredLast ==
  ASSUME IInv, NEW c \in Requests, At(c, "poll"), github[req[c].by] # "waiting",
         github' = [github EXCEPT ![req[c].by] = IF @ = "granted" THEN "redeemed" ELSE @],
         GoTo(c, [at |-> "drop", by |-> req[c].by, granted |-> github[req[c].by] = "granted"]),
         UNCHANGED <<flow, person, begun, key, sessions, issued, mature, nonce, identity, oauthVars>>
  PROVE  IInv'
  <1> DEFINE s == req[c].by
             granted == github[s] = "granted"
             place == [at |-> "drop", by |-> s, granted |-> granted]
  <1>1. /\ s \in SignIns /\ github[s] # "none" /\ github[s] # "waiting"
        /\ granted \in BOOLEAN
        /\ granted <=> github[s] = "granted"
        /\ ~Redeeming(c)
    BY InHand DEF IInv, Devices, Redeeming, At
  <1> HIDE DEF granted
  <1>2. place \in Place /\ place.at = "drop" /\ place.by = s /\ place.granted = granted
    BY <1>1, Places
  <1>3. /\ req' \in [Requests -> Place]
        /\ req'[c] = place
        /\ \A d \in Requests : d # c => req'[d] = req[d]
    BY <1>2, Going DEF IInv, granted
  <1>4. /\ github' \in [SignIns -> DeviceStates]
        /\ github'[s] = IF granted THEN "redeemed" ELSE github[s]
        /\ \A z \in SignIns : z # s => github'[z] = github[z]
    BY <1>1 DEF DeviceStates, IInv, TypeOK
  <1> HIDE DEF place, s
  <1>5. TypeOK'
    BY <1>3, <1>4 DEF IInv, TypeOK, oauthVars
  <1>6. ChainsRest /\ NoncesRest /\ DatesRest /\ SingleUse'
    BY <1>2, <1>3
    DEF ChainsRest, InChain, NoncesRest, Asked, DatesRest, Storing, oauthVars, IInv, SingleUse
  <1>7. Devices'
    <2>1. /\ Redeeming(c)' <=> granted
          /\ \A d \in Requests : d # c => (Redeeming(d)' <=> Redeeming(d))
      BY <1>2, <1>3 DEF Redeeming
    <2>2. \A z \in SignIns : github'[z] # "none" <=> github[z] # "none"
      BY <1>1, <1>4
    <2>3. \A d \in Requests : req'[d].at = "poll" => github'[req'[d].by] # "none"
      BY <2>2, <1>2, <1>3, InHand DEF IInv, Devices
    <2>4. \A d \in Requests : req'[d].at = "drop" =>
            github'[req'[d].by] \notin {"none", "waiting", "granted"}
      BY <1>1, <1>2, <1>3, <1>4, InHand DEF IInv, Devices
    <2>5. granted => issued[<<s, 1>>] = 0 /\ \A d \in Requests : Redeeming(d) => req[d].by # s
      BY <1>1 DEF IInv, Devices
    <2>6. \A d \in Requests : Redeeming(d) => req[d].by \in SignIns
      BY InHand DEF IInv, Redeeming
    <2>7. \A d \in Requests : Redeeming(d)' =>
            github'[req'[d].by] = "redeemed" /\ issued[<<req'[d].by, 1>>] = 0
      BY <2>1, <2>5, <2>6, <1>2, <1>3, <1>4 DEF IInv, Devices
    <2>8. \A d, e \in Requests : Redeeming(d)' /\ Redeeming(e)' /\ req'[d].by = req'[e].by => d = e
      BY <2>1, <2>5, <1>2, <1>3 DEF IInv, Devices
    <2>9. \A z \in SignIns : github'[z] \in {"waiting", "granted"} =>
            key[z] # 0 /\ issued[<<z, 1>>] = 0
      BY <1>1, <1>4 DEF IInv, Devices
    <2> QED BY <2>2, <2>3, <2>4, <2>7, <2>8, <2>9 DEF IInv, Devices
  <1> QED BY <1>5, <1>6, <1>7, ChainsKept, NoncesKept, DatesKept DEF IInv

\* PollAnswered.
LEMMA PollAnsweredStep ==
  ASSUME IInv, NEW c \in Requests, PollAnswered(c), UNCHANGED oauthVars
  PROVE  IInv'
  <1>1. key \in [SignIns -> 0..Again]
    BY DEF IInv, TypeOK
  <1>2. CASE End(c) /\ UNCHANGED github
    BY <1>1, <1>2, Places, LookingOn DEF PollAnswered, End, Idle, oauthVars, loginVars
  <1>3. CASE github[req[c].by] # "waiting"
    BY <1>3, PollAnsweredLast DEF PollAnswered
  <1> QED BY <1>2, <1>3 DEF PollAnswered

\* PollLost.
LEMMA PollLostStep ==
  ASSUME IInv, NEW c \in Requests, PollLost(c), UNCHANGED oauthVars
  PROVE  IInv'
  <1> DEFINE s == req[c].by
  <1>1. s \in SignIns /\ github[s] = "granted"
    BY InHand DEF IInv, PollLost, At
  <1>2. /\ req' \in [Requests -> Place]
        /\ req'[c] = Idle
        /\ \A d \in Requests : d # c => req'[d] = req[d]
    BY Ending DEF IInv, PollLost
  <1>3. /\ github' \in [SignIns -> DeviceStates]
        /\ github'[s] = "redeemed"
        /\ \A z \in SignIns : z # s => github'[z] = github[z]
    BY <1>1 DEF DeviceStates, IInv, TypeOK, PollLost
  <1>4. UNCHANGED <<flow, person, begun, key, sessions, issued, mature, nonce, identity>>
    BY DEF PollLost
  <1> HIDE DEF s
  <1>5. TypeOK'
    BY <1>2, <1>3, <1>4 DEF IInv, TypeOK, oauthVars
  <1>6. \A d \in Requests : req'[d].at # "idle" => d # c /\ req'[d] = req[d]
    BY <1>2 DEF Idle
  <1>7. ChainsRest /\ NoncesRest /\ DatesRest /\ SingleUse'
    BY <1>4, <1>6
    DEF ChainsRest, InChain, NoncesRest, Asked, DatesRest, Storing, oauthVars, IInv, SingleUse
  <1>8. Devices'
    <2>1. \A d \in Requests : Redeeming(d)' => Redeeming(d) /\ req'[d] = req[d]
      BY <1>6 DEF Redeeming
    <2>2. \A z \in SignIns : github'[z] # "none" <=> github[z] # "none"
      BY <1>1, <1>3
    <2>3. \A d \in Requests : Redeeming(d) => req[d].by \in SignIns /\ req[d].by # s
      BY <1>1, InHand DEF IInv, Devices, Redeeming
    <2>4. \A d \in Requests :
            /\ req'[d].at = "poll" => github'[req'[d].by] # "none"
            /\ req'[d].at = "drop" => github'[req'[d].by] \notin {"none", "waiting", "granted"}
      BY <2>2, <1>3, <1>6, InHand DEF IInv, Devices
    <2>5. \A d \in Requests : Redeeming(d)' =>
            github'[req'[d].by] = "redeemed" /\ issued[<<req'[d].by, 1>>] = 0
      BY <2>1, <2>3, <1>3 DEF IInv, Devices
    <2>6. \A z \in SignIns : github'[z] \in {"waiting", "granted"} =>
            key[z] # 0 /\ issued[<<z, 1>>] = 0
      BY <1>3 DEF IInv, Devices
    <2> QED BY <2>1, <2>2, <2>4, <2>5, <2>6, <1>4 DEF IInv, Devices
  <1> QED BY <1>5, <1>7, <1>8, ChainsKept, NoncesKept, DatesKept DEF IInv

\* DropDevice.
LEMMA DropDeviceStep ==
  ASSUME SessionAssumption, IInv, NEW c \in Requests, DropDevice(c), UNCHANGED oauthVars
  PROVE  IInv'
  <1> DEFINE s == req[c].by
             place == IF req[c].granted THEN [at |-> "fetch", by |-> s] ELSE Idle
  <1>1. /\ s \in SignIns /\ github[s] \notin {"none", "waiting", "granted"}
        /\ req[c].granted \in BOOLEAN
        /\ Redeeming(c) <=> req[c].granted
    BY InHand DEF IInv, Devices, Redeeming, DropDevice, At
  <1>2. flow[s] = "device"
    BY <1>1 DEF IInv, Devices
  <1>3. /\ place \in Place
        /\ req[c].granted => place.at = "fetch" /\ place.by = s
        /\ ~req[c].granted => place.at = "idle"
    BY <1>1, Places DEF Idle
  <1>4. /\ req' \in [Requests -> Place]
        /\ req'[c] = place
        /\ \A d \in Requests : d # c => req'[d] = req[d]
    BY <1>3, Going DEF IInv, DropDevice
  <1>5. /\ key' \in [SignIns -> 0..Again]
        /\ key'[s] = 0
        /\ \A z \in SignIns : z # s => key'[z] = key[z]
    BY <1>1, SessionAssumption DEF IInv, TypeOK, DropDevice, SessionAssumption
  <1>6. UNCHANGED <<flow, person, begun, sessions, issued, mature, loginVars>>
    BY DEF DropDevice
  <1> HIDE DEF place, s
  <1>7. TypeOK'
    BY <1>4, <1>5, <1>6 DEF IInv, TypeOK, oauthVars, loginVars
  <1>8. \A d \in Requests : req'[d].at \notin {"idle", "fetch"} => d # c /\ req'[d] = req[d]
    BY <1>1, <1>3, <1>4
  <1>9. ChainsRest
    BY <1>2, <1>5, <1>6, <1>8 DEF ChainsRest, InChain, Chained, oauthVars
  <1>10. NoncesRest /\ DatesRest /\ SingleUse'
    BY <1>6, <1>8 DEF NoncesRest, Asked, DatesRest, Storing, oauthVars, loginVars, IInv, SingleUse
  <1>11. Devices'
    <2>1. \A d \in Requests : Redeeming(d)' => Redeeming(d) /\ req'[d].by = req[d].by
      BY <1>1, <1>3, <1>4 DEF Redeeming, s
    <2>2. \A z \in SignIns : github[z] \in {"waiting", "granted"} =>
            key'[z] # 0 /\ issued[<<z, 1>>] = 0
      BY <1>1, <1>5 DEF IInv, Devices
    <2>3. \A z \in SignIns : flow[z] = "device" /\ begun[z] = 0 =>
            key'[z] = 0 /\ issued[<<z, 1>>] = 0
      BY <1>5 DEF IInv, Devices
    <2>4. \A d \in Requests :
            /\ req'[d].at = "poll" => github[req'[d].by] # "none"
            /\ req'[d].at = "drop" => github[req'[d].by] \notin {"none", "waiting", "granted"}
      BY <1>8 DEF IInv, Devices
    <2> QED BY <2>1, <2>2, <2>3, <2>4, <1>6 DEF IInv, Devices, loginVars
  <1> QED BY <1>7, <1>9, <1>10, <1>11, ChainsKept, NoncesKept, DatesKept DEF IInv

\* FetchUser.
LEMMA FetchUserStep ==
  ASSUME SessionAssumption, IInv, NEW c \in Requests, FetchUser(c), UNCHANGED oauthVars
  PROVE  IInv'
  <1> DEFINE s == req[c].by
             p == <<s, 1>>
  <1>1. s \in SignIns /\ Redeeming(c) /\ github[s] = "redeemed" /\ issued[p] = 0
    BY InHand DEF IInv, Devices, Redeeming, FetchUser, At
  <1>2. flow[s] = "device"
    BY <1>1 DEF IInv, Devices
  <1>3. /\ p \in Beginnings /\ p \notin RefreshTokens /\ p[1] = s
        /\ \A z \in SignIns : <<z, 1>> \in Beginnings
    BY <1>1, SessionAssumption, NoMix DEF SessionAssumption, Beginnings
  <1>4. /\ sessions' = sessions \cup {[acct |-> person[s], dated |-> TRUE]}
        /\ sessions' \subseteq Session
        /\ issued' \in [Beginnings \cup RefreshTokens -> Nat]
        /\ issued'[p] = issued[p] + 1
        /\ \A q \in Beginnings \cup RefreshTokens : q # p => issued'[q] = issued[q]
    <2>1. person[s] \in Accounts
      BY <1>1 DEF IInv, TypeOK
    <2>2. Issue(p, person[s], TRUE)
      BY DEF FetchUser
    <2> QED BY <1>3, <2>1, <2>2, Issuing DEF IInv
  <1>5. /\ req' \in [Requests -> Place]
        /\ req'[c] = Idle
        /\ \A d \in Requests : d # c => req'[d] = req[d]
    BY Ending DEF IInv, FetchUser
  <1>6. UNCHANGED <<flow, person, begun, key, mature, loginVars>>
    BY DEF FetchUser
  <1>7. \A d \in Requests : req'[d].at # "idle" => d # c /\ req'[d] = req[d]
    BY <1>5 DEF Idle
  <1>8. \A z \in SignIns : z # s => <<z, 1>> # p
    OBVIOUS
  <1> HIDE DEF p, s
  <1>9. TypeOK'
    BY <1>4, <1>5, <1>6 DEF IInv, TypeOK, oauthVars, loginVars
  <1>10. ChainsRest
    <2>1. /\ \A q \in Beginnings : Chained(q[1]) => issued'[q] = issued[q]
          /\ \A q \in RefreshTokens : issued'[q] = issued[q]
      BY <1>2, <1>3, <1>4 DEF Chained
    <2> QED BY <2>1, <1>6, <1>7 DEF ChainsRest, InChain, oauthVars
  <1>11. NoncesRest
    <2>1. \A q \in Beginnings : Signing(q[1]) => issued'[q] = issued[q]
      BY <1>2, <1>3, <1>4 DEF Signing
    <2> QED BY <2>1, <1>6, <1>7 DEF NoncesRest, Asked, loginVars
  <1>12. Devices'
    <2>1. \A d \in Requests : Redeeming(d)' => d # c /\ Redeeming(d) /\ req'[d] = req[d]
      BY <1>7 DEF Redeeming
    <2>2. \A d \in Requests : Redeeming(d)' => req[d].by # s /\ req[d].by \in SignIns
      BY <2>1, <1>1, InHand DEF IInv, Devices, Redeeming, s
    <2>3. \A z \in SignIns : z # s => issued'[<<z, 1>>] = issued[<<z, 1>>]
      BY <1>3, <1>4, <1>8
    <2>4. \A d \in Requests : Redeeming(d)' =>
            github[req'[d].by] = "redeemed" /\ issued'[<<req'[d].by, 1>>] = 0
      BY <2>1, <2>2, <2>3 DEF IInv, Devices
    <2>5. \A z \in SignIns : github[z] \in {"waiting", "granted"} =>
            key[z] # 0 /\ issued'[<<z, 1>>] = 0
      BY <2>3, <1>1 DEF IInv, Devices
    <2>6. \A z \in SignIns : flow[z] = "device" /\ begun[z] = 0 =>
            key[z] = 0 /\ issued'[<<z, 1>>] = 0
      BY <2>3, <1>1, <1>2 DEF IInv, Devices
    <2> QED BY <2>1, <2>4, <2>5, <2>6, <1>6, <1>7 DEF IInv, Devices, loginVars
  <1>13. Dates'
    BY <1>4, <1>6, <1>7 DEF IInv, Dates, UndatedIsRecorded, Stored, Storing, loginVars, oauthVars
  <1>14. SingleUse'
    BY <1>1, <1>3, <1>4 DEF IInv, SingleUse, TypeOK
  <1> QED BY <1>9, <1>10, <1>11, <1>12, <1>13, <1>14, ChainsKept, NoncesKept DEF IInv

-----------------------------------------------------------------------------
(* The steps of signature logins.                                          *)

\* Challenge.
LEMMA ChallengeStep ==
  ASSUME SessionAssumption, IInv, NEW s \in SignIns, Challenge(s), UNCHANGED oauthVars
  PROVE  IInv'
  <1> DEFINE p == <<s, begun[s] + 1>>
             g == person[s]
  <1>1. /\ begun' \in [SignIns -> 0..Again]
        /\ begun'[s] = begun[s] + 1
        /\ \A z \in SignIns : z # s => begun'[z] = begun[z]
        /\ p \in Beginnings
        /\ p[1] = s /\ p[2] = begun[s] + 1 /\ begun[s] \in Nat
    <2>1. begun[s] \in Nat
      BY DEF IInv, TypeOK
    <2> QED BY <2>1, Beginning DEF IInv, Challenge
  <1>2. Signing(s) /\ g \in Accounts
    BY DEF IInv, TypeOK, Challenge, Signing
  <1>3. /\ nonce' \in [Accounts -> Beginnings \cup {NoNonce}]
        /\ nonce'[g] = p
        /\ \A h \in Accounts : h # g => nonce'[h] = nonce[h]
    BY <1>1, <1>2 DEF IInv, TypeOK, Challenge
  <1>4. UNCHANGED <<flow, person, key, req, sessions, issued, mature, github, identity>>
    BY DEF Challenge
  <1>5. person[s] = g
    OBVIOUS
  <1>6. issued[p] = 0
    BY <1>1, <1>2 DEF IInv, Nonces
  <1> HIDE DEF p, g
  <1>7. TypeOK'
    BY <1>1, <1>3, <1>4 DEF IInv, TypeOK, oauthVars
  <1>8. ChainsRest /\ DevicesRest
    BY <1>1, <1>2, <1>4 DEF ChainsRest, DevicesRest, InChain, Chained, Signing, oauthVars
  <1>9. DatesRest /\ SingleUse'
    BY <1>4 DEF DatesRest, oauthVars, IInv, SingleUse
  <1>10. Nonces'
    <2>1. \A q \in Beginnings : q[1] \in SignIns /\ q[2] \in Nat /\ begun[q[1]] \in Nat
      BY Roots DEF IInv, TypeOK
    <2>2. \A q \in Beginnings : q[2] <= begun[q[1]] => q[2] <= begun'[q[1]] /\ q # p
      BY <2>1, <1>1
    <2>3. \A q \in Beginnings : Signing(q[1]) /\ q[2] > begun'[q[1]] => issued[q] = 0
      BY <2>1, <1>1 DEF IInv, Nonces
    <2>4. \A h \in Accounts : nonce[h] # NoNonce => nonce[h] \in Beginnings
      BY DEF IInv, TypeOK
    <2>5. \A h \in Accounts : nonce'[h] # NoNonce =>
            /\ Signing(nonce'[h][1]) /\ nonce'[h][2] <= begun'[nonce'[h][1]] /\ issued[nonce'[h]] = 0
            /\ person[nonce'[h][1]] = h
      <3> SUFFICES ASSUME NEW h \in Accounts, nonce'[h] # NoNonce
                   PROVE  /\ Signing(nonce'[h][1]) /\ nonce'[h][2] <= begun'[nonce'[h][1]]
                          /\ issued[nonce'[h]] = 0 /\ person[nonce'[h][1]] = h
        OBVIOUS
      <3>1. CASE h = g
        BY <3>1, <1>1, <1>2, <1>3, <1>5, <1>6
      <3>2. CASE h # g
        BY <3>2, <2>2, <2>4, <1>3 DEF IInv, Nonces
      <3> QED BY <3>1, <3>2
    <2>6. \A c \in Requests : Asked(c) => Answered(c) \in Beginnings
      BY InHand DEF IInv
    <2>7. \A c \in Requests : Asked(c) =>
            /\ Signing(Answered(c)[1]) /\ Answered(c)[2] <= begun'[Answered(c)[1]]
            /\ issued[Answered(c)] = 0
            /\ \A h \in Accounts : nonce'[h] # Answered(c)
      <3> SUFFICES ASSUME NEW c \in Requests, Asked(c)
                   PROVE  /\ Signing(Answered(c)[1]) /\ Answered(c)[2] <= begun'[Answered(c)[1]]
                          /\ issued[Answered(c)] = 0
                          /\ \A h \in Accounts : nonce'[h] # Answered(c)
        OBVIOUS
      <3>1. Answered(c) # p /\ Answered(c)[2] <= begun'[Answered(c)[1]]
        BY <2>2, <2>6 DEF IInv, Nonces
      <3>2. \A h \in Accounts : nonce'[h] # Answered(c)
        BY <3>1, <1>3 DEF IInv, Nonces
      <3> QED BY <3>1, <3>2 DEF IInv, Nonces
    <2>8. \A c \in Requests : (Asked(c)' <=> Asked(c)) /\ Answered(c)' = Answered(c)
      BY <1>4 DEF Asked, Answered
    <2>9. \A z \in SignIns : Signing(z)' <=> Signing(z)
      BY <1>4 DEF Signing
    <2>10. \A c \in Requests : Asked(c)' =>
            /\ Signing(Answered(c)[1])' /\ (Answered(c)[2] <= begun[Answered(c)[1]])'
            /\ (issued[Answered(c)] = 0)'
            /\ (\A h \in Accounts : nonce[h] # Answered(c))'
      BY <2>1, <2>6, <2>7, <2>8, <2>9, <1>4
    <2>11. \A q \in Beginnings : Signing(q[1])' <=> Signing(q[1])
      BY <2>1, <2>9
    <2>12. \A h \in Accounts : nonce'[h] # NoNonce => Signing(nonce[h][1])'
      BY <2>5, <1>4 DEF Signing
    <2> QED BY <2>3, <2>5, <2>8, <2>10, <2>11, <2>12, <1>4 DEF IInv, Nonces
  <1> QED BY <1>7, <1>8, <1>9, <1>10, ChainsKept, DevicesKept, DatesKept DEF IInv

\* AgentLogin: the request takes the pending nonce of the account.
LEMMA AgentLoginStep ==
  ASSUME SessionAssumption, IInv, NEW c \in Requests, NEW s \in SignIns, AgentLogin(c, s),
         UNCHANGED oauthVars
  PROVE  IInv'
  <1> DEFINE g == person[s]
             got == nonce[g]
             place == [at |-> "verify", signed |-> <<s, begun[s]>>, got |-> got]
  <1>1. begun[s] \in 1..Again /\ <<s, begun[s]>> \in Beginnings /\ g \in Accounts
    <2>1. begun[s] \in 0..Again /\ begun[s] > 0
      BY DEF IInv, TypeOK, AgentLogin
    <2> QED BY <2>1, SessionAssumption DEF Beginnings, SessionAssumption, IInv, TypeOK
  <1>2. got # NoNonce /\ got \in Beginnings /\ ~Asked(c)
    BY <1>1 DEF IInv, TypeOK, AgentLogin, At, Asked
  <1>3. place \in Place /\ place.at = "verify" /\ place.got = got
    BY <1>1, <1>2, Places
  <1>4. /\ req' \in [Requests -> Place]
        /\ req'[c] = place
        /\ \A d \in Requests : d # c => req'[d] = req[d]
    BY <1>3, Going DEF IInv, AgentLogin
  <1>5. /\ nonce' \in [Accounts -> Beginnings \cup {NoNonce}]
        /\ nonce'[g] = NoNonce
        /\ \A h \in Accounts : h # g => nonce'[h] = nonce[h]
    BY <1>1 DEF IInv, TypeOK, AgentLogin
  <1>6. UNCHANGED <<flow, person, begun, key, sessions, issued, mature, github, identity>>
    BY DEF AgentLogin
  <1>7. /\ Signing(got[1]) /\ got[2] <= begun[got[1]] /\ issued[got] = 0
        /\ \A h \in Accounts : h # g => nonce[h] # got
        /\ \A d \in Requests : Asked(d) => Answered(d) # got
    BY <1>1, <1>2 DEF IInv, Nonces
  <1> HIDE DEF place, got, g
  <1>8. TypeOK'
    BY <1>4, <1>5, <1>6 DEF IInv, TypeOK, oauthVars
  <1>9. \A d \in Requests : req'[d].at # "verify" => d # c /\ req'[d] = req[d]
    BY <1>3, <1>4
  <1>10. ChainsRest /\ DevicesRest /\ DatesRest /\ SingleUse'
    BY <1>6, <1>9
    DEF ChainsRest, InChain, DevicesRest, DatesRest, Storing, oauthVars, IInv, SingleUse
  <1>11. Nonces'
    <2>1. /\ Asked(c)' /\ Answered(c)' = got
          /\ \A d \in Requests : d # c => (Asked(d)' <=> Asked(d)) /\ Answered(d)' = Answered(d)
      BY <1>3, <1>4 DEF Asked, Answered
    <2>2. \A z \in SignIns : Signing(z)' <=> Signing(z)
      BY <1>6 DEF Signing
    <2>3. NoNonce \notin Beginnings
      BY DEF NoNonce, Beginnings
    <2>4. \A d \in Requests : Asked(d) => Answered(d) \in Beginnings
      BY InHand DEF IInv
    <2>5. \A q \in Beginnings : q[1] \in SignIns
      BY Roots
    <2>6. \A d \in Requests : Asked(d) => Answered(d) # NoNonce
      BY <2>3, <2>4
    <2>7. \A h \in Accounts : nonce'[h] # NoNonce => h # g /\ nonce'[h] = nonce[h] /\ nonce[h] \in Beginnings
      BY <1>5 DEF IInv, TypeOK
    <2>8. \A h \in Accounts : nonce'[h] # NoNonce =>
            /\ Signing(nonce[h][1])' /\ nonce'[h][2] <= begun[nonce'[h][1]] /\ issued[nonce'[h]] = 0
            /\ person[nonce'[h][1]] = h
      BY <2>2, <2>5, <2>7 DEF IInv, Nonces
    <2>9. \A d \in Requests : Asked(d)' =>
            /\ Signing(Answered(d)[1])' /\ (Answered(d)[2] <= begun[Answered(d)[1]])'
            /\ (issued[Answered(d)] = 0)'
            /\ (\A h \in Accounts : nonce[h] # Answered(d))'
      <3> SUFFICES ASSUME NEW d \in Requests, Asked(d)'
                   PROVE  /\ Signing(Answered(d)[1])' /\ (Answered(d)[2] <= begun[Answered(d)[1]])'
                          /\ (issued[Answered(d)] = 0)'
                          /\ (\A h \in Accounts : nonce[h] # Answered(d))'
        OBVIOUS
      <3>1. CASE d = c
        <4>1. \A h \in Accounts : nonce'[h] # got
          BY <1>2, <1>5, <1>7, <2>3
        <4> QED BY <3>1, <4>1, <1>2, <1>6, <1>7, <2>1, <2>2, <2>5
      <3>2. CASE d # c
        <4>1. Asked(d) /\ Answered(d)' = Answered(d) /\ Answered(d) \in Beginnings
          BY <3>2, <2>1, <2>4
        <4>2. \A h \in Accounts : nonce'[h] # Answered(d)
          BY <4>1, <2>6, <1>5 DEF IInv, Nonces
        <4> QED BY <4>1, <4>2, <1>6, <2>2, <2>5 DEF IInv, Nonces
      <3> QED BY <3>1, <3>2
    <2>10. \A d, e \in Requests : Asked(d)' /\ Asked(e)' /\ Answered(d)' = Answered(e)' => d = e
      BY <2>1, <1>7 DEF IInv, Nonces
    <2>11. \A q \in Beginnings : Signing(q[1])' <=> Signing(q[1])
      BY <2>2, <2>5
    <2> QED BY <2>8, <2>9, <2>10, <2>11, <1>6 DEF IInv, Nonces
  <1> QED BY <1>8, <1>10, <1>11, ChainsKept, DevicesKept, DatesKept DEF IInv

\* VerifySignature.
LEMMA VerifySignatureStep ==
  ASSUME IInv, NEW c \in Requests, VerifySignature(c), UNCHANGED oauthVars
  PROVE  IInv'
  <1> DEFINE got == req[c].got
             place == [at |-> "identity", by |-> got]
  <1>1. Asked(c) /\ Answered(c) = got /\ got \in Beginnings
    BY InHand DEF IInv, VerifySignature, At, Asked, Answered
  <1>2. UNCHANGED <<flow, person, begun, key, sessions, issued, mature, loginVars>>
    BY DEF VerifySignature
  <1>3. CASE End(c)
    <2>1. key \in [SignIns -> 0..Again]
      BY DEF IInv, TypeOK
    <2> QED BY <1>2, <1>3, <2>1, Places, LookingOn DEF End, Idle, oauthVars
  <1>4. CASE GoTo(c, place)
    <2>1. place \in Place /\ place.at = "identity" /\ place.by = got
      BY <1>1, Places
    <2>2. /\ req' \in [Requests -> Place]
          /\ req'[c] = place
          /\ \A d \in Requests : d # c => req'[d] = req[d]
      BY <2>1, <1>4, Going DEF IInv
    <2> HIDE DEF place, got
    <2>3. TypeOK'
      BY <2>2, <1>2 DEF IInv, TypeOK, oauthVars, loginVars
    <2>4. ChainsRest /\ DevicesRest /\ DatesRest /\ SingleUse'
      BY <2>1, <2>2, <1>2
      DEF ChainsRest, InChain, DevicesRest, DatesRest, Storing, oauthVars, loginVars, IInv, SingleUse
    <2>5. \A d \in Requests : (Asked(d)' <=> Asked(d)) /\ Answered(d)' = Answered(d)
      BY <2>1, <2>2, <1>1 DEF Asked, Answered
    <2>6. Nonces'
      <3>1. \A d \in Requests : Asked(d)' =>
              (/\ Signing(Answered(d)[1]) /\ Answered(d)[2] <= begun[Answered(d)[1]]
               /\ issued[Answered(d)] = 0
               /\ \A g \in Accounts : nonce[g] # Answered(d))'
        BY <2>5, <1>2 DEF IInv, Nonces, Signing, loginVars
      <3>2. \A d, e \in Requests : Asked(d)' /\ Asked(e)' /\ Answered(d)' = Answered(e)' => d = e
        BY <2>5 DEF IInv, Nonces
      <3> QED BY <3>1, <3>2, <1>2 DEF IInv, Nonces, Signing, loginVars
    <2> QED BY <2>3, <2>4, <2>6, ChainsKept, DevicesKept, DatesKept DEF IInv
  <1> QED BY <1>3, <1>4 DEF VerifySignature, End

\* ReadIdentity: a session, and the nonce is used up.
LEMMA ReadIdentityStep ==
  ASSUME SessionAssumption, IInv, NEW c \in Requests, ReadIdentity(c), UNCHANGED oauthVars
  PROVE  IInv'
  <1> DEFINE proof == req[c].by
             g == person[proof[1]]
  <1>1. Asked(c) /\ Answered(c) = proof /\ proof \in Beginnings
    BY InHand DEF IInv, ReadIdentity, At, Asked, Answered
  <1>2. UNCHANGED <<flow, person, begun, key, mature, loginVars>> /\ End(c)
    BY DEF ReadIdentity
  <1>3. CASE UNCHANGED <<sessions, issued>>
    <2>1. key \in [SignIns -> 0..Again]
      BY DEF IInv, TypeOK
    <2> QED BY <1>2, <1>3, <2>1, Places, LookingOn DEF End, Idle, oauthVars
  <1>4. CASE identity[g] # "none" /\ Issue(proof, g, FALSE)
    <2>1. /\ Signing(proof[1]) /\ proof[2] <= begun[proof[1]] /\ issued[proof] = 0
          /\ \A h \in Accounts : nonce[h] # proof
          /\ \A d \in Requests : Asked(d) /\ d # c => Answered(d) # proof
          /\ proof[1] \in SignIns /\ proof \notin RefreshTokens
      BY <1>1, Roots, NoMix DEF IInv, Nonces
    <2>2. g \in Accounts /\ (g \in mature \/ identity[g] = "elsewhere")
      <3>1. g \in Accounts
        BY <2>1 DEF IInv, TypeOK
      <3> QED BY <3>1, <1>4 DEF IInv, TypeOK, Dates
    <2> HIDE DEF proof, g
    <2>3. /\ sessions' = sessions \cup {[acct |-> g, dated |-> FALSE]}
          /\ sessions' \subseteq Session
          /\ issued' \in [Beginnings \cup RefreshTokens -> Nat]
          /\ issued'[proof] = issued[proof] + 1
          /\ \A q \in Beginnings \cup RefreshTokens : q # proof => issued'[q] = issued[q]
      BY <1>1, <1>4, <2>2, Issuing DEF IInv
    <2>4. /\ req' \in [Requests -> Place]
          /\ req'[c] = Idle
          /\ \A d \in Requests : d # c => req'[d] = req[d]
      BY <1>2, Ending DEF IInv
    <2>5. \A d \in Requests : req'[d].at # "idle" => d # c /\ req'[d] = req[d]
      BY <2>4 DEF Idle
    <2>6. TypeOK'
      BY <1>2, <2>3, <2>4 DEF IInv, TypeOK, oauthVars, loginVars
    <2>7. ChainsRest
      <3>1. /\ \A q \in Beginnings : Chained(q[1]) => issued'[q] = issued[q]
            /\ \A q \in RefreshTokens : issued'[q] = issued[q]
        BY <2>1, <2>3 DEF Chained, Signing
      <3> QED BY <3>1, <1>2, <2>5 DEF ChainsRest, InChain, oauthVars
    <2>8. DevicesRest
      <3>1. \A z \in SignIns : <<z, 1>> \in Beginnings
        BY SessionAssumption DEF SessionAssumption, Beginnings
      <3>2. \A z \in SignIns : flow[z] = "device" => <<z, 1>> # proof
        BY <2>1 DEF Signing
      <3> QED BY <3>1, <3>2, <1>2, <2>3, <2>5 DEF DevicesRest, loginVars
    <2>9. Nonces'
      <3>1. \A d \in Requests : Asked(d)' => d # c /\ Asked(d) /\ Answered(d)' = Answered(d)
        BY <2>5 DEF Asked, Answered
      <3>2. \A d \in Requests : Asked(d) => Answered(d) \in Beginnings
        BY InHand DEF IInv
      <3>3. \A d \in Requests : Asked(d)' =>
              (/\ Signing(Answered(d)[1]) /\ Answered(d)[2] <= begun[Answered(d)[1]]
               /\ issued[Answered(d)] = 0
               /\ \A h \in Accounts : nonce[h] # Answered(d))'
        BY <3>1, <3>2, <1>2, <2>1, <2>3 DEF IInv, Nonces, Signing, loginVars
      <3>4. \A h \in Accounts : nonce[h] # NoNonce => issued'[nonce[h]] = 0
        BY <2>1, <2>3 DEF IInv, Nonces, TypeOK
      <3>5. \A q \in Beginnings : Signing(q[1]) /\ q[2] > begun[q[1]] => issued'[q] = 0
        <4> SUFFICES ASSUME NEW q \in Beginnings, Signing(q[1]), q[2] > begun[q[1]]
                     PROVE  issued'[q] = 0
          OBVIOUS
        <4>1. q # proof
          BY <2>1, Roots DEF IInv, TypeOK
        <4> QED BY <4>1, <2>3 DEF IInv, Nonces
      <3>6. \A d, e \in Requests : Asked(d)' /\ Asked(e)' /\ Answered(d)' = Answered(e)' => d = e
        BY <3>1 DEF IInv, Nonces
      <3> QED BY <3>3, <3>4, <3>5, <3>6, <1>2 DEF IInv, Nonces, Signing, loginVars
    <2>10. Dates'
      BY <1>2, <2>2, <2>3, <2>5 DEF IInv, Dates, UndatedIsRecorded, Stored, Storing, loginVars, oauthVars
    <2>11. SingleUse'
      BY <1>1, <2>1, <2>3 DEF IInv, SingleUse, TypeOK
    <2> QED BY <2>6, <2>7, <2>8, <2>9, <2>10, <2>11, ChainsKept, DevicesKept DEF IInv
  <1> QED BY <1>3, <1>4 DEF ReadIdentity

\* RegisterIdentity: an account that is old enough, or was once.
LEMMA RegisterIdentityStep ==
  ASSUME IInv, NEW z \in sessions, RegisterIdentity(z), UNCHANGED oauthVars
  PROVE  IInv'
  <1>1. z.acct \in Accounts /\ z.acct \in mature
    BY DEF IInv, TypeOK, Session, Dates, UndatedIsRecorded, RegisterIdentity
  <1>2. TypeOK'
    BY <1>1 DEF IInv, TypeOK, RegisterIdentity, sharedVars, oauthVars
  <1>3. ChainsRest /\ DevicesRest /\ NoncesRest /\ SingleUse'
    BY DEF ChainsRest, DevicesRest, NoncesRest, RegisterIdentity, sharedVars, oauthVars, IInv, SingleUse
  <1>4. Dates'
    BY <1>1 DEF IInv, Dates, UndatedIsRecorded, Stored, Storing, RegisterIdentity, sharedVars, oauthVars
  <1> QED BY <1>2, <1>3, <1>4, ChainsKept, DevicesKept, NoncesKept DEF IInv

\* RegisterElsewhere: the record is not the gateway's.
LEMMA RegisterElsewhereStep ==
  ASSUME IInv, NEW g \in Accounts, RegisterElsewhere(g), UNCHANGED oauthVars
  PROVE  IInv'
  <1>1. /\ \A h \in Accounts : identity'[h] = "gateway" => identity[h] = "gateway"
        /\ \A h \in Accounts : identity[h] = "elsewhere" => identity'[h] = "elsewhere"
    BY DEF IInv, TypeOK, RegisterElsewhere
  <1>2. TypeOK'
    BY DEF IInv, TypeOK, RegisterElsewhere, sharedVars, oauthVars
  <1>3. ChainsRest /\ DevicesRest /\ NoncesRest /\ SingleUse'
    BY DEF ChainsRest, DevicesRest, NoncesRest, RegisterElsewhere, sharedVars, oauthVars, IInv, SingleUse
  <1>4. Dates'
    <2>1. \A z \in sessions : z.acct \in Accounts
      BY DEF IInv, TypeOK, Session
    <2> QED BY <1>1, <2>1
        DEF IInv, Dates, UndatedIsRecorded, Stored, Storing, RegisterElsewhere, sharedVars, oauthVars
  <1> QED BY <1>2, <1>3, <1>4, ChainsKept, DevicesKept, NoncesKept DEF IInv

\* LoginTermEnds.
LEMMA LoginTermEndsStep ==
  ASSUME SessionAssumption, IInv, LoginTermEnds, UNCHANGED oauthVars
  PROVE  IInv'
  <1>1. UNCHANGED <<flow, person, begun, req, sessions, issued, mature, github, identity>>
    BY DEF LoginTermEnds
  <1>2. /\ key' \in [SignIns -> 0..Again]
        /\ \A s \in SignIns : key'[s] # key[s] =>
             key'[s] = 0 /\ flow[s] = "device" /\ github[s] \notin {"waiting", "granted"}
    BY SessionAssumption DEF LoginTermEnds, IInv, TypeOK, SessionAssumption
  <1>3. /\ nonce' \in [Accounts -> Beginnings \cup {NoNonce}]
        /\ \A g \in Accounts : nonce'[g] \in {nonce[g], NoNonce}
    BY DEF LoginTermEnds, IInv, TypeOK
  <1>4. TypeOK'
    BY <1>1, <1>2, <1>3 DEF IInv, TypeOK, oauthVars
  <1>5. ChainsRest
    BY <1>1, <1>2 DEF ChainsRest, Chained, oauthVars
  <1>6. NoncesRest /\ DatesRest /\ SingleUse'
    BY <1>1, <1>3 DEF NoncesRest, DatesRest, oauthVars, IInv, SingleUse
  <1>7. Devices'
    BY <1>1, <1>2 DEF IInv, Devices, Redeeming
  <1> QED BY <1>4, <1>5, <1>6, <1>7, ChainsKept, NoncesKept, DatesKept DEF IInv

-----------------------------------------------------------------------------
(* All steps.                                                              *)

\* The initial states.
LEMMA Initially ==
  ASSUME SessionAssumption, Init
  PROVE  IInv
  <1> USE DEF Init, SharedInit, OAuthInit, LoginInit
  <1>1. \A c \in Requests : req[c].at = "idle"
    BY DEF Idle
  <1>2. \A p \in Beginnings \cup RefreshTokens : issued[p] = 0
    OBVIOUS
  <1>3. \A s \in SignIns : <<s, 1>> \in Beginnings
    BY DEF SessionAssumption, Beginnings
  <1>4. \A n \in 1..Rotations : <<"rt", n>> \in RefreshTokens
    BY DEF RefreshTokens
  <1>5. TypeOK
    BY Places DEF SessionAssumption, TypeOK, DeviceStates
  <1>6. Begun /\ Apart
    BY <1>1, <1>2 DEF Begun, Apart, InChain, Stored
  <1>7. Unspent
    BY <1>1, <1>2, <1>4 DEF Unspent, Storing
  <1>8. Devices
    BY <1>1, <1>2, <1>3 DEF Devices, Redeeming
  <1>9. Nonces
    BY <1>1, <1>2 DEF Nonces, Asked
  <1>10. Dates /\ SingleUse
    BY <1>1, <1>2 DEF Dates, UndatedIsRecorded, SingleUse, Stored, Storing
  <1> QED BY <1>5, <1>6, <1>7, <1>8, <1>9, <1>10 DEF IInv

\* Every step of the OAuth server.
LEMMA OAuthSteps ==
  ASSUME SessionAssumption, IInv, OAuth
  PROVE  IInv'
  <1> UNCHANGED loginVars
    BY DEF OAuth
  <1>1. ASSUME NEW s \in SignIns, RegisterClient(s) \/ Authorize(s) \/ StartWeb(s)
        PROVE  IInv'
    BY <1>1, RegisterClientStep, AuthorizeStep
  <1>2. ASSUME NEW c \in Requests, NEW s \in SignIns, OpenCallback(c, s)
        PROVE  IInv'
    BY <1>2, OpenCallbackStep
  <1>3. ASSUME NEW c \in Requests,
               (\E x \in codes : LoadCode(c, x)) \/ (\E x \in tokens : LoadToken(c, x))
        PROVE  IInv'
    BY <1>3, LoadStep
  <1>4. ASSUME NEW c \in Requests, ConsumeState(c) \/ GitHubAnswers(c) \/ StoreCode(c)
        PROVE  IInv'
    BY <1>4, ConsumeStateStep, GitHubAnswersStep, StoreCodeStep
  <1>5. ASSUME NEW c \in Requests, UseCode(c) \/ UseToken(c) \/ StoreToken(c)
        PROVE  IInv'
    BY <1>5, UseCodeStep, UseTokenStep, StoreTokenStep
  <1>6. CASE OAuthTermEnds
    BY <1>6, OAuthTermEndsStep
  <1>7. OAuthStep
    BY DEF OAuth
  <1> QED BY <1>1, <1>2, <1>3, <1>4, <1>5, <1>6, <1>7 DEF OAuthStep

\* Every step of the other logins.
LEMMA LoginSteps ==
  ASSUME SessionAssumption, IInv, Login
  PROVE  IInv'
  <1> UNCHANGED oauthVars
    BY DEF Login
  <1>1. ASSUME NEW s \in SignIns, StartDevice(s) \/ Challenge(s)
        PROVE  IInv'
    BY <1>1, StartDeviceStep, ChallengeStep
  <1>2. ASSUME NEW s \in SignIns, UserDecides(s)
        PROVE  IInv'
    <2>1. PICK to \in {"granted", "denied"} : github' = [github EXCEPT ![s] = to]
      BY <1>2 DEF UserDecides
    <2> QED BY <1>2, <2>1, GitHubDecides DEF UserDecides
  <1>3. ASSUME NEW s \in SignIns, DeviceCodeEnds(s)
        PROVE  IInv'
    BY <1>3, GitHubDecides DEF DeviceCodeEnds
  <1>4. ASSUME NEW c \in Requests, NEW s \in SignIns, PollDevice(c, s) \/ AgentLogin(c, s)
        PROVE  IInv'
    BY <1>4, PollDeviceStep, AgentLoginStep
  <1>5. ASSUME NEW c \in Requests,
               PollAnswered(c) \/ PollLost(c) \/ DropDevice(c) \/ FetchUser(c)
        PROVE  IInv'
    BY <1>5, PollAnsweredStep, PollLostStep, DropDeviceStep, FetchUserStep
  <1>6. ASSUME NEW c \in Requests, VerifySignature(c) \/ ReadIdentity(c)
        PROVE  IInv'
    BY <1>6, VerifySignatureStep, ReadIdentityStep
  <1>7. ASSUME NEW z \in sessions, RegisterIdentity(z)
        PROVE  IInv'
    BY <1>7, RegisterIdentityStep
  <1>8. ASSUME NEW g \in Accounts, RegisterElsewhere(g)
        PROVE  IInv'
    BY <1>8, RegisterElsewhereStep
  <1>9. CASE LoginTermEnds
    BY <1>9, LoginTermEndsStep
  <1>10. LoginStep
    BY DEF Login
  <1> QED BY <1>1, <1>2, <1>3, <1>4, <1>5, <1>6, <1>7, <1>8, <1>9, <1>10 DEF LoginStep

\* Every step.
LEMMA Steps ==
  ASSUME SessionAssumption, IInv, [Next]_vars
  PROVE  IInv'
  <1>1. CASE OAuth
    BY <1>1, OAuthSteps
  <1>2. CASE Login
    BY <1>2, LoginSteps
  <1>3. CASE Between
    BY <1>3, InterruptedStep, ComesOfAgeStep DEF Between
  <1>4. CASE UNCHANGED vars
    <2>1. TypeOK' /\ ChainsRest /\ DevicesRest /\ NoncesRest /\ DatesRest /\ issued' = issued
      BY <1>4
      DEF vars, sharedVars, oauthVars, loginVars, IInv, TypeOK, Begun, InChain, Chained, Storing,
          ChainsRest, DevicesRest, NoncesRest, DatesRest
    <2> QED BY <2>1, QuietStep
  <1> QED BY <1>1, <1>2, <1>3, <1>4 DEF Next

\* The invariant of the sign-in flows.
THEOREM Invariance == Spec => []IInv
  <1>1. Init => IInv
    BY Initially, SessionAssumption
  <1>2. IInv /\ [Next]_vars => IInv'
    BY Steps, SessionAssumption
  <1> QED BY <1>1, <1>2, PTL DEF Spec

-----------------------------------------------------------------------------
(* What follows.                                                           *)

\* Variables have their types: what a request has in hand is what its await needs.
THEOREM Types == Spec => []TypeOK
  <1>1. IInv => TypeOK
    BY DEF IInv
  <1> QED BY <1>1, Invariance, PTL

\* A beginning has one place at most.
LEMMA CarriersAlone ==
  ASSUME Apart, NEW p \in Beginnings
  PROVE  \A a, b \in Carriers(p) : a = b
  <1> DEFINE S == {s \in SignIns : Chained(s) /\ <<s, key[s]>> = p}
             X == {x \in Stored : x.root = p}
             C == {c \in Requests : InChain(c) /\ req[c].root = p}
  <1>1. Carriers(p) = S \cup X \cup C
    BY DEF Carriers, Chained, Stored, InChain
  <1>2. /\ \A a, b \in S : a = b
        /\ \A a, b \in X : a = b
        /\ \A a, b \in C : a = b
    BY DEF Apart
  <1>3. S = {} \/ X = {}
    BY DEF Apart
  <1>4. S = {} \/ C = {}
    BY DEF Apart
  <1>5. X = {} \/ C = {}
    BY DEF Apart
  <1> HIDE DEF S, X, C
  <1> QED BY <1>1, <1>2, <1>3, <1>4, <1>5

\* One sign-in, one session chain: whatever callbacks, token requests and refreshes
\* are in flight, the right to a session is in one place (getdel in
\* oauth_provider.py and oauth_state.py).
THEOREM OneChainAlways == Spec => []OneChain
  <1>1. IInv => OneChain
    <2> SUFFICES ASSUME IInv, NEW p \in Beginnings
                 PROVE  Cardinality(Carriers(p)) <= 1
      BY DEF OneChain
    <2>1. \A a, b \in Carriers(p) : a = b
      BY CarriersAlone DEF IInv
    <2>2. CASE Carriers(p) = {}
      BY <2>2, FS_EmptySet
    <2>3. CASE Carriers(p) # {}
      <3>1. PICK a \in Carriers(p) : TRUE
        BY <2>3
      <3>2. Carriers(p) = {a}
        BY <2>1, <3>1
      <3>3. Cardinality({a}) = 1
        BY FS_Singleton
      <3> QED BY <3>2, <3>3
    <2> QED BY <2>2, <2>3
  <1> QED BY <1>1, Invariance, PTL

\* A state, a device session, a nonce, a code or a refresh token gives at most one
\* session, however often callbacks, polls, logins and refreshes are repeated.
THEOREM SingleUseAlways == Spec => []SingleUse
  <1>1. IInv => SingleUse
    BY DEF IInv
  <1> QED BY <1>1, Invariance, PTL

\* A session without a creation date, which skips the age check of admit_write
\* (auth.py), is of an account that was old enough once, or of one whose identity
\* record was written past the gateway.
THEOREM UndatedIsRecordedAlways == Spec => []UndatedIsRecorded
  <1>1. IInv => UndatedIsRecorded
    BY DEF IInv, Dates
  <1> QED BY <1>1, Invariance, PTL

\* While GitHub may still hand out a device sign-in's token, the session to poll
\* with is there (github_device_poll drops it only on a final answer).
THEOREM DeviceStaysPollableAlways == Spec => []DeviceStaysPollable
  <1>1. IInv => DeviceStaysPollable
    BY DEF IInv, Devices, DeviceStaysPollable
  <1> QED BY <1>1, Invariance, PTL

\* What carries a beginning after a step has it from what carried it before, or has
\* just begun.
Inherits ==
  /\ flow' = flow
  /\ \A s \in SignIns : Chained(s) => key'[s] \in {key[s], 0, begun[s] + 1}
  /\ \A x \in Stored' : x \in Stored \/ \E c \in Requests : InChain(c) /\ req[c].root = x.root
  /\ \A c \in Requests : InChain(c)' =>
       \/ InChain(c) /\ req'[c].root = req[c].root
       \/ \E x \in Stored : x.root = req'[c].root
       \/ \E s \in SignIns : Chained(s) /\ req'[c].root = <<s, key[s]>>

\* The steps at which something passes on.
LEMMA ChainsInherit ==
  ASSUME TypeOK, NEW c \in Requests,
         ConsumeState(c) \/ GitHubAnswers(c) \/ StoreCode(c) \/ UseCode(c) \/ UseToken(c)
           \/ StoreToken(c),
         Begun
  PROVE  Inherits
  <1>1. CASE ConsumeState(c)
    <2>1. req[c].by \in SignIns /\ Chained(req[c].by)
      BY <1>1, InHand DEF ConsumeState, Begun
    <2> QED BY <1>1, <2>1
        DEF ConsumeState, Inherits, InChain, Chained, Stored, GoTo, End, Idle, At, oauthVars, TypeOK
  <1>2. CASE GitHubAnswers(c)
    <2>1. InChain(c)
      BY <1>2 DEF GitHubAnswers, At, InChain
    <2>2. GoTo(c, [at |-> "keep", root |-> req[c].root]) \/ End(c)
      BY <1>2 DEF GitHubAnswers
    <2>3. \A d \in Requests : InChain(d)' => InChain(d) /\ req'[d].root = req[d].root
      <3>1. CASE GoTo(c, [at |-> "keep", root |-> req[c].root])
        BY <2>1, <3>1 DEF GoTo, InChain, TypeOK
      <3>2. CASE End(c)
        BY <3>2 DEF End, Idle, GoTo, InChain, TypeOK
      <3> QED BY <2>2, <3>1, <3>2
    <2> QED BY <1>2, <2>3 DEF GitHubAnswers, Inherits, Stored, oauthVars
  <1>3. CASE StoreCode(c)
    <2>1. InChain(c)
      BY <1>3 DEF StoreCode, At, InChain
    <2>2. \A x \in Stored' : x \in Stored \/ x.root = req[c].root
      BY <1>3 DEF StoreCode, Stored
    <2>3. \A d \in Requests : InChain(d)' => req'[d] = req[d] /\ InChain(d)
      BY <1>3 DEF StoreCode, InChain, GoTo, End, Idle, TypeOK
    <2> QED BY <1>3, <2>1, <2>2, <2>3 DEF StoreCode, Inherits
  <1>4. CASE UseCode(c)
    BY <1>4 DEF UseCode, Inherits, InChain, Stored, GoTo, End, Idle, At, TypeOK
  <1>5. CASE UseToken(c)
    BY <1>5 DEF UseToken, Inherits, InChain, Stored, GoTo, End, Idle, At, TypeOK
  <1>6. CASE StoreToken(c)
    <2>1. InChain(c)
      BY <1>6 DEF StoreToken, At, InChain
    <2>2. \A x \in Stored' : x \in Stored \/ x.root = req[c].root
      BY <1>6 DEF StoreToken, Stored
    <2>3. \A d \in Requests : InChain(d)' => req'[d] = req[d] /\ InChain(d)
      BY <1>6 DEF StoreToken, InChain, GoTo, End, Idle, TypeOK
    <2> QED BY <1>6, <2>1, <2>2, <2>3 DEF StoreToken, Inherits
  <1> QED BY <1>1, <1>2, <1>3, <1>4, <1>5, <1>6

\* A request that goes on or ends without anything of a chain.
LEMMA OthersInherit ==
  ASSUME TypeOK, NEW c \in Requests, NEW place, GoTo(c, place),
         place.at \notin {"exchange", "keep", "store"},
         \A s \in SignIns : Chained(s) => key'[s] = key[s],
         UNCHANGED <<flow, codes, tokens>>
  PROVE  Inherits
  <1>1. \A d \in Requests : InChain(d)' => InChain(d) /\ req'[d] = req[d]
    BY DEF GoTo, InChain, TypeOK
  <1> QED BY <1>1 DEF Inherits, Stored

\* No step brings a beginning back.
LEMMA StepsInherit ==
  ASSUME SessionAssumption, IInv, [Next]_vars
  PROVE  Inherits
  <1> USE DEF IInv
  <1>1. Idle.at = "idle"
    BY DEF Idle
  <1>2. CASE OAuth
    <2>1. ASSUME NEW s \in SignIns, RegisterClient(s)
          PROVE  Inherits
      BY <2>1 DEF RegisterClient, Inherits, sharedVars, InChain, Stored
    <2>2. ASSUME NEW s \in SignIns, Authorize(s)
          PROVE  Inherits
      BY <2>2 DEF Authorize, Inherits, oauthVars, InChain, Stored, TypeOK
    <2>3. ASSUME NEW s \in SignIns, StartWeb(s)
          PROVE  Inherits
      <3>1. begun[s] + 1 = 1
        BY <2>3 DEF StartWeb
      <3> QED BY <2>3, <3>1 DEF StartWeb, Inherits, oauthVars, InChain, Stored, TypeOK
    <2>4. ASSUME NEW c \in Requests, NEW s \in SignIns, OpenCallback(c, s)
          PROVE  Inherits
      <3> DEFINE place == [at |-> IF flow[s] = "mcp" /\ key[s] # 0 THEN "complete" ELSE "weblogin",
                           by |-> s]
      <3>1. place.at \in {"complete", "weblogin"} /\ GoTo(c, place)
        BY <2>4 DEF OpenCallback
      <3> HIDE DEF place
      <3> QED BY <2>4, <3>1, OthersInherit DEF OpenCallback, oauthVars
    <2>5. ASSUME NEW c \in Requests, NEW x \in codes, LoadCode(c, x)
          PROVE  Inherits
      <3> DEFINE place == [at |-> "useCode", code |-> x]
      <3>1. place.at = "useCode" /\ GoTo(c, place)
        BY <2>5 DEF LoadCode
      <3> HIDE DEF place
      <3> QED BY <2>5, <3>1, OthersInherit DEF LoadCode, oauthVars
    <2>6. ASSUME NEW c \in Requests, NEW x \in tokens, LoadToken(c, x)
          PROVE  Inherits
      <3> DEFINE place == [at |-> "useToken", token |-> x]
      <3>1. place.at = "useToken" /\ GoTo(c, place)
        BY <2>6 DEF LoadToken
      <3> HIDE DEF place
      <3> QED BY <2>6, <3>1, OthersInherit DEF LoadToken, oauthVars
    <2>7. CASE OAuthTermEnds
      BY <2>7 DEF OAuthTermEnds, Inherits, InChain, Stored, TypeOK
    <2>8. OAuthStep
      BY <1>2 DEF OAuth
    <2> QED BY <2>1, <2>2, <2>3, <2>4, <2>5, <2>6, <2>7, <2>8, ChainsInherit DEF OAuthStep
  <1>3. CASE Login
    <2> UNCHANGED <<codes, tokens>>
      BY <1>3 DEF Login, oauthVars
    <2>1. ASSUME NEW s \in SignIns,
                 StartDevice(s) \/ UserDecides(s) \/ DeviceCodeEnds(s) \/ Challenge(s)
          PROVE  Inherits
      BY <2>1
      DEF StartDevice, UserDecides, DeviceCodeEnds, Challenge, Inherits, sharedVars, InChain,
          Chained, Stored, TypeOK
    <2>2. ASSUME NEW c \in Requests, NEW s \in SignIns, PollDevice(c, s)
          PROVE  Inherits
      <3> DEFINE place == [at |-> "poll", by |-> s]
      <3>1. place.at = "poll" /\ GoTo(c, place)
        BY <2>2 DEF PollDevice
      <3> HIDE DEF place
      <3> QED BY <2>2, <3>1, OthersInherit DEF PollDevice
    <2>3. ASSUME NEW c \in Requests, NEW s \in SignIns, AgentLogin(c, s)
          PROVE  Inherits
      <3> DEFINE place == [at |-> "verify", signed |-> <<s, begun[s]>>, got |-> nonce[person[s]]]
      <3>1. place.at = "verify" /\ GoTo(c, place)
        BY <2>3 DEF AgentLogin
      <3> HIDE DEF place
      <3> QED BY <2>3, <3>1, OthersInherit DEF AgentLogin
    <2>4. ASSUME NEW c \in Requests, PollAnswered(c)
          PROVE  Inherits
      <3> DEFINE place == [at |-> "drop", by |-> req[c].by, granted |-> github[req[c].by] = "granted"]
      <3>1. place.at = "drop"
        OBVIOUS
      <3>2. GoTo(c, place) \/ GoTo(c, Idle)
        BY <2>4 DEF PollAnswered, End
      <3> HIDE DEF place
      <3>3. UNCHANGED <<flow, key>>
        BY <2>4 DEF PollAnswered
      <3> QED BY <3>1, <3>2, <3>3, <1>1, OthersInherit
    <2>5. ASSUME NEW c \in Requests, PollLost(c) \/ FetchUser(c) \/ ReadIdentity(c)
          PROVE  Inherits
      BY <2>5, <1>1, OthersInherit DEF PollLost, FetchUser, ReadIdentity, End
    <2>6. ASSUME NEW c \in Requests, DropDevice(c)
          PROVE  Inherits
      <3> DEFINE place == [at |-> "fetch", by |-> req[c].by]
      <3>1. place.at = "fetch" /\ (GoTo(c, place) \/ GoTo(c, Idle))
        BY <2>6 DEF DropDevice
      <3> HIDE DEF place
      <3>2. req[c].by \in SignIns /\ ~Chained(req[c].by)
        BY <2>6, InHand DEF DropDevice, At, Devices, Chained
      <3>3. \A s \in SignIns : Chained(s) => key'[s] = key[s]
        BY <2>6, <3>2 DEF DropDevice, TypeOK
      <3>4. flow' = flow
        BY <2>6 DEF DropDevice
      <3> QED BY <3>1, <3>3, <3>4, <1>1, OthersInherit
    <2>7. ASSUME NEW c \in Requests, VerifySignature(c)
          PROVE  Inherits
      <3> DEFINE place == [at |-> "identity", by |-> req[c].got]
      <3>1. place.at = "identity" /\ (GoTo(c, place) \/ GoTo(c, Idle))
        BY <2>7 DEF VerifySignature
      <3> HIDE DEF place
      <3>2. UNCHANGED <<flow, key>>
        BY <2>7 DEF VerifySignature
      <3> QED BY <3>1, <3>2, <1>1, OthersInherit
    <2>8. ASSUME NEW z \in sessions, RegisterIdentity(z)
          PROVE  Inherits
      BY <2>8 DEF RegisterIdentity, Inherits, sharedVars, InChain, Stored
    <2>9. ASSUME NEW g \in Accounts, RegisterElsewhere(g)
          PROVE  Inherits
      BY <2>9 DEF RegisterElsewhere, Inherits, sharedVars, InChain, Stored
    <2>10. CASE LoginTermEnds
      BY <2>10 DEF LoginTermEnds, Inherits, InChain, Chained, Stored, TypeOK
    <2>11. LoginStep
      BY <1>3 DEF Login
    <2> QED BY <2>1, <2>2, <2>3, <2>4, <2>5, <2>6, <2>7, <2>8, <2>9, <2>10, <2>11 DEF LoginStep
  <1>4. CASE Between
    <2>1. ASSUME NEW c \in Requests, Interrupted(c)
          PROVE  Inherits
      BY <2>1, <1>1, <1>4, OthersInherit DEF Interrupted, End, Between, oauthVars
    <2>2. ASSUME NEW g \in Accounts, ComesOfAge(g)
          PROVE  Inherits
      BY <2>2, <1>4 DEF ComesOfAge, Between, Inherits, InChain, Stored, oauthVars
    <2> QED BY <2>1, <2>2, <1>4 DEF Between
  <1>5. CASE UNCHANGED vars
    BY <1>5 DEF vars, sharedVars, oauthVars, Inherits, InChain, Stored
  <1> QED BY <1>2, <1>3, <1>4, <1>5 DEF Next

\* A chain that has ended stays ended: no request brings back a state, code or
\* refresh token that was used up or ran out after it had looked.
THEOREM EndedStaysEndedAlways == Spec => EndedStaysEnded
  <1> DEFINE Stays == \A p \in Beginnings :
                        p[2] <= begun[p[1]] /\ Carriers(p) = {} => Carriers(p)' = {}
  <1>1. IInv /\ [Next]_vars => [Stays]_vars
    <2> SUFFICES ASSUME IInv, [Next]_vars, NEW p \in Beginnings,
                        p[2] <= begun[p[1]], Carriers(p) = {}
                 PROVE  Carriers(p)' = {}
      OBVIOUS
    <2>1. Inherits
      BY StepsInherit, SessionAssumption
    <2>2. /\ \A s \in SignIns : Chained(s) => <<s, key[s]>> # p
          /\ \A x \in Stored : x.root # p
          /\ \A c \in Requests : InChain(c) => req[c].root # p
      BY DEF Carriers, Chained, Stored, InChain
    <2>3. \A s \in SignIns : Chained(s)' => <<s, key'[s]>> # p
      <3> SUFFICES ASSUME NEW s \in SignIns, Chained(s), <<s, key'[s]>> = p
                   PROVE  FALSE
        BY <2>1 DEF Inherits, Chained
      <3>1. p[1] = s /\ p[2] = key'[s] /\ p[2] \in 1..Again
        BY Roots
      <3>2. begun[s] \in Nat
        BY DEF IInv, TypeOK
      <3>3. key'[s] # 0 /\ key'[s] # begun[s] + 1
        BY <3>1, <3>2, SessionAssumption DEF SessionAssumption
      <3> QED BY <3>3, <2>1, <2>2 DEF Inherits
    <2>4. \A x \in Stored' : x.root # p
      BY <2>1, <2>2 DEF Inherits
    <2>5. \A c \in Requests : InChain(c)' => req'[c].root # p
      BY <2>1, <2>2 DEF Inherits
    <2> QED BY <2>3, <2>4, <2>5 DEF Carriers, Chained, Stored, InChain
  <1>2. Spec => []IInv /\ [][Next]_vars
    BY Invariance, PTL DEF Spec
  <1>3. []IInv /\ [][Next]_vars => [][Stays]_vars
    BY <1>1, PTL
  <1> QED BY <1>2, <1>3 DEF EndedStaysEnded
=============================================================================
