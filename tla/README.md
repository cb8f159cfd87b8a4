# Verification of the Steledger gateway

TLA+ modules, TLC runs and TLAPS proofs about the gateway in `src/`: an HTTP
and MCP service ("edge") that writes and reads Emercoin NVS names for GitHub
users, and an adapter that turns its requests into RPC calls to a node.

Model-check one run with `tlc -workers 2 -config <cfg> <module>`; check the proofs with
`tlapm <module>`. `PROJECT.json` lists the runs, the
lines each definition models, the hazards and the findings.

## The system

| part | code | state it keeps | operations |
|---|---|---|---|
| write admission | `edge/app/ratelimit.py` | three sliding windows per account and for everyone (Redis sorted sets with a PEXPIRE) | `admit_write`, `remaining` |
| fee grants | `edge/app/grant.py`, `transfer.py` | one mark per account, a daily budget window, counters (Redis) | `reserve`, `release`, `settle`, `failed` |
| write path | `edge/app/mcp_app.py`, `main.py`, `transfer.py: ensure_writable`; `adapter/app/nvs.py` | none of its own: the node's name DB and mempool | `register_identity`, `store_memory`, `store_memory_batch` and the REST twins |
| transfer path | `edge/app/transfer.py`, `adapter/app/nvs.py: transfer` | as above | `transfer_records` |
| read path | `adapter/app/main.py: read` | as above | `read_record`, `GET /nvs/{name}` |
| read slots | `adapter/app/main.py`, `nvs.py` | two semaphores | `public_read_slot`, `filter_names` |
| records listing | `edge/app/records.py` | a one-minute cache per id (Redis) | `list`, `page` |
| MCP OAuth | `edge/app/oauth_provider.py` | clients, states, codes, refresh tokens (Redis, with terms) | `authorize`, `complete_github`, `exchange_*`, `revoke_token` |
| sign-in | `edge/app/main.py`, `oauth_state.py`, `challenge.py`, `github.py` | device sessions, web states, challenge nonces (Redis, with terms) | device start and poll, web start and callback, challenge, agent login |
| session tokens | `edge/app/auth.py` | none (signed JWTs) | issue, decode |
| feedback | `edge/app/feedback.py` | per-sender counters, a capped list (Redis) | `submit` |
| statistics | `edge/app/stats.py` | counters (Redis) | `record_*`, `snapshot` |
| error mapping | `edge/app/errors.py` | none | `from_adapter` |
| user watcher | `deploy/watch-users.py` | a state file | one run per timer tick |
| deployment | `deploy/*.sh` | a git checkout, running containers | sync, redeploy |
| stdio server, pages, node image, CI, generators | `mcp_server/`, `site/`, `web.py`, `node/`, `scripts/` | none | |

Everything that changes state is asynchronous. The edge and the adapter are
single-threaded asyncio programs, so code between two awaits is atomic, and
anything can happen at an await: other calls run, the call is cancelled, the
process stops, an answer is late or lost. A Redis script is atomic; two Redis
calls are not. A request to the node is atomic; two requests are not, and
blocks come in between.

The edge calls the adapter by HTTP (30 s timeout), the adapter calls the node
by JSON-RPC (30 s), and both share nothing else. Redis belongs to the edge.
Admission, grants and the write path meet in `transfer`: checks, then the
grant is reserved, then quota is taken, then the adapter is asked, then the
wallet.

### What is hard, and what makes each part correct

- **Admission**: stamps are taken before the script runs, so scripts run in
  another order than their stamps; keys expire by Redis's clock; a reply can be
  lost and the script repeated. Correct means: exactly the admitted writes
  count, none is forgotten early, the limits hold, and what an agent is told
  does not contradict what it is then refused.
- **Grants**: four awaits between the reservation and its end, a payment whose
  answer may be lost, Redis commands that are repeated, cancellation anywhere.
  Correct means: one holder per account, no refusal keeps the grant, no second
  payment, the budget holds; and repeats do no more harm than is said.
- **Writes, transfers, reads**: each decision is put together from several
  requests to a node that changes meanwhile. Correct means: what is refused
  for something knowable is refused before the quota, a transfer rolls nothing
  back, a read does not contradict the writes before it.
- **Sign-in, OAuth**: single-use keys with terms, looked at in one request to
  Redis and taken in another. Correct means: one sign-in gives one session
  chain, a repeated request gives none, what has ended does not come back, a
  device session lasts as long as its sign-in can succeed, and no login gets
  round the age of an account (the date stays with the session through refreshes;
  a signature login has none, and rests on who wrote the identity record).
- **Slots, listings**: calls leave the line in every way and at every moment, and
  the node goes on with what was given up on. Correct means: slots are
  conserved, every call ends, a listing is at most so old.
- **Feedback, watcher**: counters that go up before the message is kept, a
  midnight in between, messages to the operator that fail half way, a state
  file written last. Correct means: limits hold, nothing is taken for reported
  that was not, a digest is complete.

`PROJECT.json` has every hazard with its line.

## Modules

| module | models |
|---|---|
| `AdmissionPolicy` | abstract: a log of admitted writes that grows by whole calls and within the limits |
| `WriteAdmission` | `ratelimit.py`; implements `AdmissionPolicy` (`PolicyRefined`) |
| `WriteAdmission_proofs` | theorems about it |
| `FeeGrant` | `grant.py` and the steps of `transfer.py` around it |
| `FeeGrant_proofs` | theorems about it |
| `NameNode` | external: the node's name DB, mempool, blocks, lapses and refusals |
| `NvsWrite`, `NvsRead`, `NvsTransfer` | the three paths, each over `NameNode` |
| `Gateway` | the three composed: every interleaving of their requests |
| `Gateway_proofs` | theorems about it |
| `SlotPool` | calls that hold one of a few slots while they ask the node (`main.py`, `nvs.py`) |
| `SlotPool_proofs` | what every step of a pool keeps |
| `RecordList` | `records.py`: listings from the cache, or from scans over one `SlotPool` |
| `AdapterSlots` | public reads over another `SlotPool`, beside the listings |
| `AdapterSlots_proofs` | theorems about it, over both instances of `SlotPool_proofs` |
| `Feedback` | `feedback.py` |
| `Feedback_proofs` | what every step of the inbox keeps |
| `Watcher` | `watch-users.py`, over `Feedback` and the counters of `stats.py` |
| `Watcher_proofs` | theorems about it and the inbox |
| `Sessions` | what the sign-in flows share: keys, requests, session tokens |
| `OAuthProvider`, `Logins` | the MCP flow with the shared callback; device and signature login |
| `SignIn` | all flows together, with the age rule |
| `SignIn_proofs` | theorems about it |
| `MC*` | model values, symmetry |

Operators named after a "Fault" comment are variants of the definition that
follows them, with a mistake that the properties have to notice. No
specification uses them.

### WriteAdmission

`sent` holds the scripts on their way (`admit_write` up to its await is
`AdmitWrite`), `bucket` and `expireAt` are Redis, `admitted` is history. One
run of the Lua script is `ScriptAdmits` or `ScriptRefuses`; after admitting,
the script may stay in `sent`, which is a reply lost and the script sent again
(redis-py repeats a command after a connection error, as its version is not
pinned). `CallLost` is a script that never runs. The edge and Redis share a
host, hence one clock.

### FeeGrant

`pc` gives the await a call is at; `mark` and `budget` are Redis; `orders` are
payments on their way, which the wallet makes or refuses whether or not the
edge still waits (`WalletPays`, `WalletRefuses`, `SendTimesOut`).
`Interrupted` is a cancellation where nothing catches it, or the edge
stopping. A cancellation inside the `try` of `transfer` is `TransferFails`.
The history `doubted` collects the calls that took a missing answer for a
failure.

Redis repeats commands here too. The script may have reserved and run again,
when it finds its own mark (`ReserveHeard`, `unheard`); a `DEL` may be done, and
done again when another transfer of the account has a mark (`ReleaseMark`,
`repeats`); a repeated `ZREM` or `SET` changes nothing, except that the `SET` may
come back later (`Settle`). The properties say what holds in spite of it: every
repeated `DEL` lets in at most one more holder and one more payment (`OneHolder`,
`OncePerAnsweredPayment`), without one a paid mark is for good (`PaidIsForever`),
and a grant is stranded only by a call cut off or refused over its own mark
(`NoRefusalStrands`, `ReservationEnds`). `BudgetHeld` needs no exception.

The daily counts of grants sent and failed, which a repeat makes too large, are
not modelled: nothing acts on them.

### NameNode, NvsWrite, NvsRead, NvsTransfer, Gateway

A value stands for the write that produced it. `name_show` sees confirmed
registrations, `name_mempool` the waiting ones, and the node accepts an
operation only on a name with nothing waiting (`RefusalsOf`; the messages are
those of `errors.py` and `adapter/app/main.py`). `MayFail` lets every lookup
fail: the code takes an `RPCError` for "no such name" or "mempool empty", so
`ShowAnswers` and `PoolAnswers` then include those answers.

Each action is one request: `CheckHolder`, `ShowOne`, `PoolOne`, `SendWrite`
for a single write; `PoolBatch` and `ShowBatch` for a batch, which asks in the
other order; `ShowForMove`, `PoolForMove`, `CopyValue`, `SendMove` for a
transfer. Admission is a choice here (`Admit`, `RefuseOverLimit`):
`WriteAdmission` is about which. `everything=true` is a transfer of any set of
names, since the listing may be a minute old.

### Sessions, OAuthProvider, Logins, SignIn

A sign-in `s` takes one `flow` for an account. `<<s, n>>` is its n-th beginning,
and stands for the secret made then: a state with its PKCE challenge, a device
session, a nonce. `key[s]` is what Redis holds under the sign-in's key (0 when
nothing); an MCP client that authorizes again with its own state overwrites it.
`codes` and `tokens` carry the beginning they come from (`root`) and whether
the account's creation date is in them.

A request is at one await at a time (`req`), and what it has learned so far is
in the record. `OpenCallback` is `owns_state`, `ConsumeState` the `getdel`,
`GitHubAnswers` both requests to GitHub, `StoreCode` the code. The MCP library
calls `load_*` before `exchange_*`, which are the two steps `LoadCode`,
`UseCode` and `LoadToken`, `UseToken`; `StoreToken` is `_issue`. A cancelled
request, a refusal or failure of GitHub, Redis or the node, a denied consent and
a stop of the edge are all `Interrupted`: what was written stays. Terms run out
at any time (`OAuthTermEnds`, `LoginTermEnds`), except that a device session
outlives GitHub's device code, whose length it is given.

A signature login needs an identity record. `RegisterIdentity` is the gateway
writing one for a session, which closes the circle `auth.py` argues with: the
write needed an old account. But `agent_login` takes the record under the
account's name whoever wrote it, and names on the chain are free for anyone's
wallet (`RegisterElsewhere`). `identity` says which of the two it was;
`UndatedIsRecorded` is what holds, and the run `young_writer` refutes what
`auth.py` concludes (`UndatedIsMature`).

### SlotPool, RecordList, AdapterSlots

A semaphore's `free` value and its line `queue`; `at` is where each call stands,
`working` how many requests the node has. What makes it less than obvious is
that a slot given back is set aside for the first in line (`"woken"`), which can
still be turned away before it runs; `HandOn` is `release`, `Leave` the end of
`acquire` (Python 3.12, as in the adapter's Dockerfile). A request the client
gives up on stays with the node (`TimedOut`, `NodeFinishes`). The pool is
instantiated twice: for public reads (up to two questions, five seconds in line)
and for scans (one question, no limit). Calls are numbered as they arrive, which
only leaves out renamings of one behaviour.

`RecordList` names a listing by the tick of its scan, which is what a block
mined at that tick has to be compared with. `FromCache`, `AskForScan`, `Tell` and
`GiveUp` are the edge, `ScanStep` the adapter, which does not hear of `GiveUp`.

### Feedback, Watcher

`Submit` is the beginning of a call, which fixes its day, `Count` the first
transaction, which counts and decides, `Keep` the second. The sender and the
day's counters are the source's keys. Either transaction may be done and its
reply lost, so that it is done again (`unheard`): the counters then go up twice,
and `again` counts how often a message that was already in the inbox was put
there and counted for its day. `CountMatchesInbox` says the two differ by exactly
that.

A run of the check is `run`: it asks (`Ask`, `LeaveOutKnown`), compares
(`Compare`), reads the day's counters and X (`ReadCounters`), sends (`Sends`,
`SendFails`) and saves (`SaveState`). Questions whose answers do not depend on
one another are one step; the two commands of `signed_in` are not, and neither
are the clock and the counters of the digest. Nothing else writes the state file,
so a run compares with `file` itself. `told` and `digests` are what reached the
operator, `checked` the days with a completed check. A run that is cut off
(`Stopped`) leaves the file, or leaves it broken if it was being written. Of the
posts on X a run is shown one page (`Page`, `Shown`) and notes the newest as
seen, so older ones beyond the page are never told; no document promises more.

## Runs

| run | question | answer |
|---|---|---|
| `admission` | do the windows hold when scripts are late, reordered, repeated or lost? | yes: limits over the current window, and over any past window shortened by the delivery lag (one of the nominal length may hold more) |
| `fee_grant` | one holder, one known payment, budget, nothing stranded by a refusal, every reservation settled or given back? | the budget, yes; the others up to Redis commands that are repeated (one holder and one payment more for each `DEL`, a grant stranded by a script that meets its own mark) and, for stranding, calls cut off outside their `try` |
| `fee_grant_once` | "once per GitHub account, ever"? | no: a payment whose answer is lost can be repeated |
| `writes` | handovers refused before the quota, batches not misled by blocks, earlier writes not rolled back by a transfer, charged transfers refused only for news? | yes, while the node answers (but a transfer of a name handed over earlier is charged, see below) |
| `reads` | is a read exact when no block comes between its lookups? do values stay with their names, whichever lookup fails? | yes, while the node answers the read; yes |
| `node_reads` | do slots survive every end of a call, is the node spared, does every call end, how old is a listing? | yes; at most the cache's term and the client's patience together |
| `operator` | do the inbox's limits hold, and its counts but for repeats, is what the state file has as seen really told, does every checked day get a full digest, does every writer get reported? | yes, while the state file is whole |
| `sign_in` | one session per secret, one chain per sign-in, nothing revived, no session without a date for a young account, no device session dropped by a poll too early? | yes, if the account's identity record was not written past the gateway |
| `write_misled` | does `name_is_active` keep its word? | no: a block between its two lookups |
| `transfer_rollback` | does a transfer keep every value? | no: a write confirmed between reading and sending is lost |
| `young_writer` | did a signature login "need the account to be old enough already"? | no: the identity record may be written by anyone |
| `read_not_found` | does "not found" mean absent? | no: a block between the two lookups |

One thing more was met and has no run of its own: `transfer.py` says that "a
refusal costs nothing", but its checks do not ask who holds a name, so a transfer
of a name handed over earlier is charged before the node refuses it.
`ChargedForNewsOnly` is about waiting writes and lapses only.

### Bounds

- `admission`: two accounts, four calls of one or two writes, limits 2, 3 and 4
  over windows of 2 and 3 ticks, a lag of one tick, four ticks. Both accounts
  fill all three windows, a batch meets each limit, and every key expires and
  fills again. Account b is too young at the start. Smaller limits than windows
  would make every refusal the minute's.
- `fee_grant`: two accounts, three calls (two of one account, which overlap,
  and a third of it or of another that competes for the budget), a budget of one,
  a window of one tick, three instants: it fills, empties on failure and reopens,
  so that a second transfer reserves between a `DEL` and its repeat, and both are
  paid. Replies to one of the accounts are lost, to the other none; a `DEL` is
  repeated once, and only when all three transfers are of its account, since it
  takes three to gain by it (`Bounded`). One call is cut off. Transfers of one
  account are alike and start in order (`InOrder`), which leaves out renamings
  only. The theorems cover what larger budgets, longer windows and more repeats
  would add; liveness is why the run is small.
- `writes`: two names, two writes (single or batch) and one transfer; names
  start free, lapsed, held or handed over. A name sees up to three
  transactions. Terms do not run out during this run: a name handed over twice
  within one call, with a century in between, is not what
  `HandoverRefusedFree` is about.
- `reads`: two names, since values can be mixed up only between names, with a
  write of either or both, a transfer of both (`BothMoved`: one of a single name
  is a part of it), a read, lapses, and every lookup and answer able to fail.
- `node_reads`: three reads at one slot, two scans at another: the line has two
  in it, the first of which can be turned away just when a slot is set aside for
  it. A cache of two ticks and a patience of one, over three ticks: a listing is
  kept, told again and scanned again.
- `operator`: three days, so that a day can go by without a check; three messages
  of two senders, limits of one and two; one account and one of the operator's;
  and in one behaviour either three messages, or one and one record, first call,
  error or post, or two of those, or two messages and a lost reply of Redis (`MaxEvents` weighs
  them). X shows one post at a time. The check sees the day and the count of an
  earlier day once each, so these move before a run or between the two, and all
  that concerns only the inbox before it (`MailsApart`). One run may be cut off,
  though not with three messages, of which the third is there for the inbox's
  limits (`Bounded`); messages to the operator may fail without a bound.
- `sign_in`: two sign-ins of any flows and one account (the one account makes
  nonces, identity and age meet), two requests at once, each sign-in begun up to
  twice, two refresh tokens. Two requests are what a double submission needs;
  the second token is the first refresh, so its loser and its successor exist.
- Names and writers are interchangeable, as are tokens, accounts and calls of
  the grant: as are sign-ins and requests; symmetry is used
  in the safety runs only.
- Deadlock is not checked: a behaviour ends when its calls are answered and
  its bounds are reached.

### Fairness

- `FeeGrant`: `Work(c)` is weakly fair because the event loop resumes every call
  whose await has finished, and the adapter client gives up after 30 seconds,
  which is an answer too. The wallet owes nothing. Calls may be cut off, or
  refused over their own mark; then the reservation stays (`Stranded`), and
  `ReservationEnds` says that only such a one does.
- `AdapterSlots`: the same two reasons, for each call to the adapter. The node
  owes nothing: `EveryCallEnds` holds with a node that never answers.
- `Watcher`: the timer starts a run again and again and a run goes on (weak
  fairness of `Check`), and a message about a writer that is sent infinitely often
  gets through (strong fairness of its sending). These come first in a run, so a
  message behind them that is always refused does not keep them back, though it
  has them repeated every hour.

## Proofs

`WriteAdmission_proofs`, for any accounts, limits, windows, lag and clock
bound. `WindowLimit` is not inductive: it says nothing about what a bucket
holds when the next script runs. `IInv` adds that

- a script on its way is at most `MaxLag` old, and its token is unused, or its
  writes are already in the log (`CallsFresh`, `LogPast`);
- a bucket counts only admitted writes (`Counted`) and no more than the limit
  (`Bounded`);
- a key expires no earlier than its members' windows (`ExpirySound`), so a
  write in its window is still in the bucket (`Kept`).

From these the limits follow, then `BurstBound` (the last write of a burst was
admitted when the others were in the window), and the step-by-step refinement
of `AdmissionPolicy`. `RemainingIsSafe` follows too: `remaining` counts a
superset of what the script counts at that instant.

`FeeGrant_proofs`, for any accounts, calls, budget, window and repeats. With
repeated `DEL`s a mark no longer tells who made it, so `OneHolder` is not
inductive. What is, counts: a call that holds the grant, or has spent it, has a
ticket, and an account has handed out no more tickets than DELs of it were
repeated, and one if it has a mark (`Ticketed`). A reservation takes the one
that a missing mark leaves, and a `DEL` gives one back or was a repeat. `OneHolder`
and `OncePerAnsweredPayment` are cases of it. Besides, `Books` has where a call
stands tell whether its payment can be spent, `OwnMark` says that without
repeats the mark is the holder's, and `Budgeted` that a call which may be paid is
in the budget while its day lasts; the last gives `BudgetHeld`.

`SlotPool_proofs`, for any number of calls and slots. That a slot is free or
held is not inductive: handing one to a call in line leaves the count right
only if that call holds none yet, and handing out several only if they go to
different calls. `InLine` says so, and `ShareKeeps` is the one lemma that
counts; every way a call can end is a case of it. `AdapterSlots_proofs` cites
these lemmas for both pools. `NodeSpared` needs in addition that the node works
for nobody but calls that wait (`Counted`), which is true until a request is
given up on. `TypeOK` needs that it never works on fewer requests than calls wait
for (`Enough`). `ListingAge` has an invariant of its own, `AgeInv`: an answer
counts only while its call waits, so the term of what is cached is bounded by
the age of its scan.

`Gateway_proofs`, for any names, writers, movers and readers. None of the
properties is inductive: each is about what a call found in one request and
what holds when a later one is made. `GatewayInv` says what can have changed in
between. A transaction that waits has its names for itself, and the names are
as it needs them (`Waiting`: it is why a block only changes names that nothing
else is about). So whatever a call has found not to wait can be undone only by
jobs accepted after the call began:

- the names a transfer has looked at are about nothing older (`Looked`), and a
  value it has copied is still the name's, or newer than the call, or no longer
  ours to move (`Kept`); when the node accepts the transfer, only the first two
  are left, which is `AcknowledgedWriteSurvives`;
- a batch has a name for free only if no older transaction waits on it
  (`Unmisled`) and no older value is on it or on its way (`Fresh`), the values
  transfers have copied included;
- a name handed over before a write began is not past the write's check
  (`Unheld`);
- a name has the holder and value a read found as long as no block came
  (`ReaderOK`).

`NoValueStrays`, `ReadExactBetweenBlocks` and the types hold without a
hypothesis. `AcknowledgedWriteSurvives` assumes `~MayFail`: a mempool lookup
that fails reads as an empty mempool, and a waiting update is overtaken.
`HandoverRefusedFree`, `BlockNeverMisleadsBatch` and `ChargedForNewsOnly` assume
`~MayLapse` as well: a name can lapse, be registered anew and handed over within
one call, and then is what it was before without having been so all along.
The run `writes` has the same two constants.

`SignIn_proofs`, for any sign-ins, accounts, requests and rotations. `OneChain`
and `SingleUse` speak of what was issued; what keeps them is that a beginning is
in one place only: under its key, with one request, in one code or in one
refresh token (`Begun`, `Apart`), and that nothing was issued on it while it is
(`Unspent`). Redis gives a key to the one request whose `getdel` finds it, and
each step moves the beginning from one place to the next. `Devices` says the
same of GitHub's token, which the first poll gets; `Nonces` of the nonces of
signature logins. `Dates` is about age: a session without a creation date comes
from a signature login, whose identity record an old account made through the
gateway, or somebody elsewhere. `EndedStaysEnded` is the action property of the same invariant.

`Watcher_proofs`, over `Feedback_proofs`, for any accounts, messages, days and
bounds. The inbox's limits follow from a count that is right at every moment:
`Counted` and `Filed` place each message in the call, in the counters and in the
list. What the operator is told needs an account of a run half way: what was
read is told or among the messages still to be sent (`Covered`, `Reading`), so
that it is told when the file is saved (`SavedMeansTold`); the digest of the
last checked day is told, or on its way, or its day is not over (`Digests`,
`DigestsComplete`), which gives `CheckedDaysReported` and `DigestComplete`; and
a number read in two commands is too small at most by those of the operator's
who came in between (`SignIns`), which gives `OutsideOnly`. They are proved of `Spec`,
which `FairSpec` implies.

Each inductive invariant was model-checked, on the instances of the runs or smaller
ones, before it was proved.

Assumed: the ASSUMEs of the modules, which say that limits and windows are
numbers, windows and the daily grant budget not zero, sizes positive, the calls
of a behaviour finitely many, a listing kept for some time, jobs of two kinds,
every message from a sender, and a refresh token not the name of a sign-in. The
budget is not zero because `reserve` answers before the script when it is.

Only model-checked: liveness (`ReservationEnds`, `EveryCallEnds`,
`WritersReported`), which is beyond the prover, and the five counterexamples.

## Not modelled

- Losing Redis, or its eviction: `grant.py` accepts it.
- A request the edge gave up on before the node was asked, and the adapter
  still carries out: for the node it is the same call, and `SendWriteFails`
  and `SendMoveFails` have it accepted without an answer.
- Names changed by others: a handed-over name is not renewed, changed or
  deleted by its new holder, and a lapsed name is not taken by a stranger.
- Sizes, terms in days, fees, names as text, and the wording of answers.
- Revocation of tokens: `mcp_app.py` does not switch it on.
- The login with a raw GitHub token (development only), the PKCE check (the MCP
  library's), the funnel counters, the term of a session token (it only takes
  behaviours away), a creation date GitHub does not give, and identity records
  of another address.
- A hash given twice in one batch (a batch is a set here).
- Argument checks that touch no state (`irreversible`, `names` or
  `everything`, more than 100, names of others, the shape of a hash).
- The texts, lengths and labels of feedback, pages of a listing, totals and
  recent lists of the statistics, the watcher's `--test`.
- `errors.py`: a stateless function on message texts.
- Deployment (planned): the hazard in `deploy-sync.sh` is in the list.

## Plan

1. Done: admission, grants, writes, transfers, reads, sign-in, slots, listings,
   feedback and the user watcher; proofs of every safety property that holds.
2. A property for "users stay signed in" (oauth_provider.py, module docstring)
   across a redeploy, with its proof.
3. `Deploy`: the checkout, what runs, and the two scripts that move one and not
   the other.
