# Verification of sep-bot

sep-bot is a gateway between developers' bots and the corporate chat sep-chat.
It takes chat events from RabbitMQ, turns them into updates in a PostgreSQL
table, hands these out by long polling or posts them to webhooks, and forwards
what bots do to `chat_server` by RPC. The directory holds TLA+ models of the
service, the TLC configurations that check them and TLAPS proofs about them.
`PROJECT.json` lists the runs, the properties, the source lines behind every
definition, the hazards and the theorems.

    tlc -workers 2 -config MCUpdateLog.cfg MCUpdateLog
    tlapm UpdateLogProofs.tla

## The system

Paths are below `src/src/` unless they say otherwise.

| Part | State | Operations | What is hard |
|---|---|---|---|
| Chat bridge, `modules/chat-bridge/chat-bridge.service.ts` | three maps in memory: topic to bots, bot to chat user and back | handlers of new, edited and deleted messages; register, unregister, load topics, resolve a topic; RPCs | every RPC is an await during which other handlers and calls change the maps; errors are swallowed |
| Bot accounts, `modules/bots/bots.service.ts` | `bots` table, users in chat_server, the registry | create, update, regenerateToken, activate, deactivate, webhook settings, commands | three stores changed one after the other without a transaction or compensation |
| Updates, `modules/updates/updates.service.ts` | `updates` table | store an update on `bot.update`, `getUpdates` | ids are drawn before rows commit; polls wait and are aborted |
| SDK, `src/static/vendor/pksep-bot-api.mjs` | offset, timer, a poll in flight | poll, stop, start | answers lost or late; a stopped loop with a request in flight |
| Webhooks, `modules/webhooks/*` | BullMQ jobs in Redis | enqueue, process, retry | stale copies of settings, retries, lost workers, several processes |
| HTTPS request, `utils/security/safe-https.ts` | one promise, one timer, chunks | resolve, request, response events | events, errors and the timer race to settle; ranges of addresses by arithmetic |
| Migrations, `scripts/migrations/umzug.ts`, `src/migrations/*` | the schema and SequelizeMeta | up, down, status | replicas start together, runs are killed halfway |
| Bot API gateway, `modules/bot-api/*` | none of its own | authentication by token, Telegram-like methods | the bot is read before the work is done |
| Bots controller, auth, health, S3, logging, start-up | none, or connections | | |

The parts interact through calls (accounts to bridge), the emitter
(`bot.update`, bridge to updates, fire and forget), the table (updates to
polling), the queue (updates to the webhook worker) and RPCs with a timeout of
ten seconds (bridge to chat_server).

What makes each part correct:

- Bridge: the maps stay inverse; an entry of a topic is explained by what
  chat_server said; a bot is not sent its own messages; order is kept except
  where the code gives it up; every event is handled to its end.
- Accounts: the three stores agree when nothing failed, and diverge only in
  ways from which the owner can recover.
- Gateway: a token that is not in force lets nobody in, and a request acts for
  the bot of its token.
- Updates and SDK: no update twice, none out of order, none passed over.
- Webhooks: to the right endpoint with the right secret, retried, never
  doubled, always ended.
- Pipeline: an event is stored on whichever replica takes it, once unless it is
  delivered again.
- Commands: a list is accepted exactly when it means something, and stored as it
  was sent.
- Migrations: what is logged is applied, in order, by whoever runs.

## The models

Every model has one action per step between two awaits, because that is where
Node can run something else. Text, layout and logging are left out; users,
topics, messages and names are model values. Constants marked "bound" in a
module keep the instance finite and stand for nothing in the code.

### ChatBridge (with ChatBridgeProperties, MCChatBridge)

The registry of one process: `topicBotRegistry`, `botChatUserMap` and
`chatUserBotMap` as functions, with `NoUser`, `NoBot` and `{}` for missing keys.
`HandleMessage` is dispatchToBot up to its await; `ResolveBots` and
`ResolveFails` are what follows it. `LoadBotTopics` is the end of a load that
was started by `onModuleInit` or `activateBot`; `Activate*` and `Deactivate*`
are the steps of BotsService that touch the registry. chat_server is external:
users join and leave, its answers are the membership when it answers, and any
answer may fail. `Prefetch` bounds the unacknowledged new messages; edits are
acknowledged at once, as `handleMessageEdit` does not await. An event moves from
"queued" to "asking" and "answered" (the RPC) and on to one of its fates.

Bots in `Churning` go through activation and deactivation; the other bots are
only created. The instance has two bots, which is what it takes for one to be
resolved while the other is registered: b1 exists at the start, its topics still
to be loaded, and is activated and deactivated while b2 is created. Two events
are enough for one to overtake the other; longer runs of events are what the
proofs are for.

### UpdateFeed and UpdateLog (MCUpdateLog)

`UpdateFeed` is what a developer may rely on: numbered updates become readable,
readers consume batches from a cursor on and move it past them. `UpdateLog` is
the code: INSERTs that draw an id and commit later, in any order or never
(another bot's rows share the sequence), `getUpdates` as a query, a sleep, a
query and so on until its deadline, and PollingManagers that are started,
stopped and replaced. `IsUpdateFeed` states the refinement, with the committed
rows of the bot as the log and the offsets as cursors.

### BotAccounts (MCBotAccounts)

Calls of BotsService, each a small program over the table, chat_server and the
registry. Any await may throw (`CallFails`); an RPC that was given up may have
been served or be served later (`ServedLate`); a restart (`Restart`)
fails every call and rebuilds the registry from the table. `troubled` remembers
the bots that calls overlapped or failed on, so that `QuietBotsConsistent` can
ask for agreement on all others and the other properties can say what still
holds on these. Display names, descriptions and avatars travel with the
username and are left out; tokens are named by the call that generates them.

### BotGateway (MCBotAccounts)

The Bot API next to those calls, in one state space with them. A request carries
a token that createBot or regenerateToken returned; `VerifyToken` is the guard's
query, and `Send`, `Look`, `Check` and `Write` are the synchronous pieces of
BotApiService after it. What is sent goes out as the user the registry has by
then, what is looked up as the user of the instance the guard read, and settings
are written by id. chat_server serves or refuses (`Serve`), also after the RPC
has timed out. `stale` remembers whether the token was in force when it was
presented, for `ActsForItsToken`. Whether commands or a url are acceptable is
left open.

### UpdatePipeline (MCUpdatePipeline)

The way of an event through replicas of the service, which the repository's
README recommends: delivery, dispatch, emission, INSERT, acknowledgement, with
crashes and broken connections in between. Each replica has a registry of its
own (`known`, `listed`), filled from the table when it boots and by the calls it
happens to serve: a bot created on one replica is unknown to the other until
that restarts. An event whose connection broke is delivered again while the
first run of its handler goes on. `excused` records why a bot did not get an
update, so that `LostForCause` is exhaustive.

The module composes the bridge with the updates at a coarser grain than
ChatBridge: an RPC is answered and used in one step, a bot is created in one,
and there is one topic. Deactivation keeps the two steps between which events
can come: `DeactivateBot` ends with the bot unregistered on the process that
served the call, or before that when the answer of chat_server is lost, and
`Destroy` is the end of its `bot.destroy()`, which deletes the row or fails. Until
then, and for good after a failure, the row of a "retired" bot is in the table
while its replica does not know it; such a bot may be deactivated again, or
activated, and a restart registers it. That is why the properties speak of bots
in service, which still have their chat user, where a row is not enough. `left`
remembers the bots that were taken out of the topic, in the chat or by a
deactivation that fails before it deletes the user (`Leave`). What happens
inside the other steps, the prefetch window, and the chat's own system messages,
which every handler drops, are in ChatBridge and BotAccounts.

### WebhookDelivery (MCWebhookDelivery)

One bot's updates from their INSERT to the endpoint: `LookUp` copies url and
secret into the job, BullMQ (external) gives a job to an idle worker, delays it
after a failure, puts a stalled job first in the queue, and gives it up after
its attempts or too many stalls. A webhook is named by the `setWebhook` call that
wrote it, so a url paired with another's secret would show.

A job leaves its worker by a result, by a crash, or by its lock: a worker that
cannot renew it in time (`LosesLock`) goes on posting, the job is taken for
stalled and given to the next worker, and what the first one reports is refused
(`EndsUnlocked`). So one update may be at several workers at once, which
`unlocked` and `late` keep apart from the holder of the lock; `SharedOnlyByStall`
says how many and why. With two processes the run tests only its first part, that
each further worker is a stall; the overall bound is the theorem's. The processor sets none of BullMQ's options for this, so
its defaults hold: a concurrency of 1, one stall allowed, and a lock of 30
seconds that is renewed while the worker lives.

### NetworkAddress and WebhookRequest (MCWebhookRequest)

`NetworkAddress` is `isBlockedNetworkAddress` with its tables. The code turns an
address into a number of 32 or 128 bits and compares what is left after a shift;
the module compares octets or groups, the one in which the prefix ends by its
high bits, so that no integer exceeds 16 bits. `Reserved` lists the ranges of
the code's own tables by hand: what is checked is that the arithmetic gives
those ranges, not that the tables name every address that is not public.
`WebhookRequest` is one attempt of the worker: `requestPublicHttps` with its
promise, timer and counters, against every order of response events that
`node:https` (external) can produce. MCWebhookRequest lets the resolver answer
the first and last address of every range and the values next to them, in the
forms in which addresses are written, and mixtures of public and blocked ones.

### Migrations (MCMigrations)

`umzug up` at the start of containers and `umzug down` by hand, statement by
statement, over the objects the four migrations make. Runs of down are alone (a
bound): they are started by hand.

### BotCommands (MCBotCommands)

The list of setMyCommands from the request to the row and back: the DTO's
pattern and lengths, normalisation character by character as far as the code
tells characters apart, the refusal of duplicates, and a client that sends back
what getMyCommands answered. The reference says what a list means (its names, each
without its slash and in lower case) and when it is acceptable. The row may start
with what a migration wrote.

## The runs

| Run | Instance | What it shows |
|---|---|---|
| `MCChatBridge.cfg` | 2 bots, 3 users, 2 events, window of 1 | registry safety, no echo, order, every event is settled |
| `MCUpdateLog.cfg` | 3 rows of 2 bots, 2 managers, limit 2, 1 fault | refinement, order, what is skipped, delivery |
| `MCUpdateLogSkip.cfg` | 2 rows, 1 manager, no fault | violation: an update may be skipped |
| `MCBotAccounts.cfg` | 3 calls, 2 bots, 2 names, 2 faults, 1 request | agreement of the stores; requests act for their token |
| `MCBotAccountsAgain.cfg` | 3 calls on 1 bot | violation: activate after deactivate |
| `MCWebhookDelivery.cfg` | 2 updates, 2 webhooks, 2 processes, 2 faults | webhook, order, repeated posts, jobs shared by two workers, end of jobs |
| `MCWebhookRequest.cfg` | limit 2 of 4 bytes, 123 answers | one attempt; the ranges of addresses |
| `MCUpdatePipeline.cfg` | 1 event of 4 kinds, 2 bots, 2 replicas, 1 call, 2 faults | losses and duplicates, bots a replica misses, no echo, end of events |
| `MCUpdatePipelineRestart.cfg` | 1 event, 1 process, 1 fault | violation: lost by a restart |
| `MCBotCommands.cfg` | 129 lists, names of 2 characters, 2 commands | what is accepted and stored |
| `MCMigrations.cfg` | 4 runs, 1 broken, 1 down | the schema and its log |
| `MCMigrationsDown.cfg` | 2 runs, 1 down | violation: down reverts too much |

The bounds are small because the interesting cases need few actors: two bots to
mix up, two rows to commit out of order and a third to follow, one fault at any
step. Attempts is 2 instead of the 3 of the code, so that a second failure is
the last one, and 2 faults are what it takes for a job to use its attempts up,
or to lose its worker or its lock once more than it may. With 3 faults the
safety properties hold too, in 2.8 million states instead of 0.8. In
`MCChatBridge` a window of 1 is one that a single waiting handler fills. In
`MCUpdatePipeline` one event is enough because events meet only in ChatBridge's
window; two bots are what it takes for one to hide the other from lazy
resolution, and one of them is stored before the start, the other created after
it. In `MCBotCommands` the limits are shrunk to two characters and two commands,
so that names with their slash go over them, and the names clash by case and by
slash. Deadlock is checked in `MCUpdateLog`, `MCWebhookDelivery` and
`MCBotCommands`; the other systems stop when their calls, events or runs are
used up.

The four violations are places where the code does other than a document or a
message of the repository says; each is a finding in `PROJECT.json`:

- an update whose INSERT commits late is below the offset and never answered
  (decision 0001 says it is delivered);
- activate after deactivate answers 404 (the testing manual runs it);
- a restart after the acknowledgement loses the update (README, line 5);
- `migrate:down` sorts by `parseInt` of a dotted date and reverts all
  migrations of the year (the script says it reverts the last one).

Differences that no run is spent on: decision 0001 (line 292) says that a bot
added to a topic through the chat gets that topic only after a restart, because
the mechanism is not implemented. The code has one, lazy resolution: the next new
or edited message of a topic without a listed bot asks chat_server and lists the
registered bots among its members, so such a bot gets that very message, as
`MissedForCause` says. The decision is right only of a topic in which another
bot is listed, which is never resolved again. The comment of `getUpdates` says
`id > offset` and the code uses `gte`; `attempt` in a job is always 1;
`allowedUpdates` is stored and never read; a message that chat_server refuses
is answered with `ok: true` and no result. A name of 64 characters without a
slash is stored with 65, which the next setMyCommands refuses
(`SettingWhatIsSet` excepts it); `update_id` is BIGINT, which Sequelize
reads as a string.

## Fairness

- ChatBridge: an RPC ends, by an answer or by its timeout; the broker delivers
  when the window has room. No answer is assumed.
- UpdateLog: queries return, timers fire, an answer arrives unless its poll
  fails. Faults are bounded, which stands for polls that do not fail for ever.
- UpdatePipeline: the broker delivers to some replica, RPCs and queries end,
  well or not, and handlers then acknowledge. Replicas start again.
- WebhookDelivery: a worker takes a job, a POST ends at the latest when its
  timer fires, also the one of a worker without a lock, backoffs pass, locks
  expire.
- WebhookRequest: the resolver answers, the timer fires, due events are
  dispatched. A server need not do anything. The timer is set after the DNS
  lookup, so the resolver is assumed to answer.
- BotAccounts, BotGateway, BotCommands and Migrations have no liveness property
  and assume nothing.

## The proofs

The proofs are for all values of the constants under the ASSUMEs of the modules.

- `ChatBridgeProofs`: TypeOK; that the maps are inverse (inductive with the
  types, because UserOf is injective); that topic entries are justified, which
  needs that what the loads and resolutions hold was a membership once; that the
  registry changes only for cause; that bots in service are not sent their own
  messages; and the order of events, whose invariant says which events were
  emitted and that the emitted ones are the settled ones.
- `UpdateLogProofs`: that readers of the abstract feed consume in order; then
  types, stopped managers, the refinement of `UpdateFeed` step by step, the
  order of batches carried over from the feed through that refinement, and that
  what is passed over was overtaken. The last one needs an invariant on answers
  in flight: an answer holds all of the visible rows from the offset up to its
  last one, but those overtaken.
- `WebhookRequestProofs`: for all limits and whatever the resolver answers, the
  promise is open exactly while somebody can still settle it and is settled
  once; the answer is whole and within the limits. The second half is about
  `NetworkAddress`: an address is in a block when its parts before the one in
  which the prefix ends are those of the base, that one is in a range given by
  the bits left of it, and the rest is free. With the tables of the code, a '::'
  of any length and IPv4 addresses mapped into IPv6, the verdict is therefore
  that of the handwritten ranges for every address (`VerdictMatchesRanges`).
- `BotAccountsProofs`, the gateway: types of calls and requests, and that a
  request acts for its token. ActsForItsToken is not inductive: what a request
  was let in with was read from a row that calls go on changing. The invariant
  adds what a call of BotsService holds at each of its awaits (an instance with
  the user of its row), that the user, the token and the registry entry of a row
  lead back to it, and what a request may rely on. From these, no step changes
  the user of a row or puts a token in force again whose call is done, which is
  why the past of a request stays true.
- `BotAccountsProofs`, the calls: what they leave behind, in the state space of
  the gateway, from the invariant of the gateway and three more. `StageInv` says
  what kind of call is at which await and what the RPC it gave up on may still
  do; `UsersInv` that a user is created under the name of its call and deleted
  for good. A step moves one call along its course (`Moves`), changes one row
  and one user; from these lemmas follow `NoOrphanUsers`, `HalfDeactivated`,
  `OutOfService` and `NoLostUpdates`. `UntroubledInv` is about bots on which no
  two calls met and none failed: one call at most is at work, and the table,
  chat_server and the registry differ only by what that call has yet to do.
  `QuietBotsConsistent` is what is left of it when no call is.
- `WebhookDeliveryProofs`: which processes have an update, with a lock or
  without (`WorkersInv`), that those without are no more than its stalls
  (`StallsInv`), what its job carries (`JobsInv`), how many posts were made or
  begun of it (`CountsInv`; a late one was begun under a lock, so it is counted
  before it arrives) and that the queue holds the waiting jobs, each once
  (`QueueInv`, by lemmas on appending, putting first and taking the head of a
  sequence without repetition). The order of first posts needs `OrderInv`: a job
  that has waited since it was added has every job added after it behind it in
  the queue, so none of them was taken before it, and `TracesInv`, which says
  when a job leaves a trace in the history.
- `UpdatePipelineProofs`: for any number of replicas, bots, events and faults,
  the types, why updates are lost, why replicas miss bots, and that messages of
  bots are skipped, with deactivations pending or failed between their two
  steps. The last two rest on the registries: every replica knows the bots in
  service that were there at its start (`KnownInv`), and lists none that never
  was in the topic (`ListedInv`). `LostForCause` is not inductive, since an
  event may be acknowledged at any time after its handler returned: `LostInv`
  adds that the run of the delivery that is held has left a row, an INSERT under
  way or an excuse in the process that will acknowledge it. `RowsOnlyByDelivery`
  is about sums over processes, which the invariant avoids: `CountInv` has a
  witness that maps each delivery to where the emission it led to is now, an
  INSERT under way in a process, a row, or nothing. Numbers of rows and INSERTs
  are cardinalities of its inverse images, and each step moves one delivery.
- `BotCommandsProofs`: that the list of setMyCommands is taken exactly when it
  is meaningful, and that what the row holds can be set again, for texts of
  every length, every limit and any set of requests. A name that passes the
  pattern is a text of name characters, after a slash or not; trimming, cutting
  and removing characters leave it as it is, so two stored names have one key
  only if the names sent differ in case only. `Stored` is inductive: what
  normalisation makes of a valid list is a fixed point of it. That the migration
  writes such a list is an assumption (`BackfilledAssumption`), as its three
  commands are.
- `MigrationsProofs`: the log of the migrations for any number of runs, kills
  and reverts. `PlaceInv` says where a run is, `OrderInv` how its list relates
  to the log, `AppliedInv` what it has made of the migration it is at; with them
  the log stays in order and what is logged is applied. `OneRunSurvives` is
  about runs of up alone and needs `LeaderInv`: as long as nothing is broken,
  either nothing is made, or all is made and logged, or some run at work leads
  the others.

Only model-checked: the liveness properties (`EveryEventSettles`,
`DeliveredUnlessOvertaken`, `EveryJobEnds`, `AttemptEnds`, `EveryEventEnds`), as
fairness and ENABLED are out of the prover's reach. Every other property of a
passing run is a theorem.

## Not modelled

The methods that only read a row, `getUploadUrl`, the checks of access tokens in
front of the owners' API (stateless: the models start a call when they let it
through), health, S3, logging, start-up and deployment scripts: `PROJECT.json`
gives a reason for each. `umzug status` prints, and a migration run by its name
is a choice of the operator. The health checks read the state of connections and
keep none; `with-timeout.ts` settles a promise once, which a promise does by
itself. The SDK's dispatch of updates to listeners runs in the developer's
process and is seen by nobody else. Message text, layout and validation of
requests other than commands and urls are abstracted throughout.
