# VoiceSaju in TLA+

VoiceSaju reads a user's *saju* (four pillars) aloud. A FastAPI service
(`src/api/voicesaju`, SQLAlchemy async over Postgres, ARQ jobs, object storage)
streams text and audio over SSE to a Next.js client (`src/web/src`), and sells
readings one by one or as a subscription through Toss. This directory holds
TLA+ models of the parts that have state and concurrency, TLC configurations
that check them on small instances, and TLAPS proofs that hold for every value
of the constants.

The money (payments, refunds, subscriptions), the reading's audio from stream to
replay and in the browser, the member's account, profile and chart, the readings,
follow-ups, tarot cards and share images a member makes, and the algorithms under
them (pillars, sentence chunker, model client, deny list, rate limit, paging) are
modelled. Every safety property of a passing run is proved as well; the two
liveness properties are only model-checked. Section 6 says what is left out.

    tlc -workers 2 -config PaymentLedger.cfg MCPaymentLedger   # model-check
    tlapm PaymentLedger_proofs.tla                             # check proofs

## 1. Inventory

What every server component shares:

- One database session per request (`db/engine.py:get_session`); it never
  commits by itself, handlers do. Isolation is READ COMMITTED and no query uses
  `FOR UPDATE`. SQLAlchemy's UPDATE writes only the columns that differ from the
  row *as loaded*, and loaded rows do not expire on commit.
- So a handler is a sequence of atomic pieces: each `await` on the database,
  Toss or storage lets another request in between, and what was read before may
  be stale when it is written. The only guards against that are unique indexes
  and CHECK constraints, which act when the row is flushed.
- Jobs are handed out at least once: a worker may die anywhere, and the job runs
  again from the beginning.

| Component | State | Operations | Hard behaviour | What makes it correct |
|---|---|---|---|---|
| **Payments, refunds** `payment/routes.py`, `webhook.py`, `refund.py`, `jobs/refund_retry.py` | `payments`, `refunds`, compensation `free_tokens`, `payment_completed` events | checkout, confirm, PAYMENT_DONE/FAILED webhooks, `refund_for_reading` | redirect and webhook race; webhooks late, repeated, reordered; refund retried, worker dies after Toss accepted; one row tried with several payment keys | paid only if charged; a refunded row is backed by a refund; no user left uncompensated by a finished job |
| **Subscriptions** `payment/subscription_routes.py`, `webhook.py` | `subscriptions` rows of a user | create, cancel, RENEWED/CANCELED/BILLING_FAILED webhooks | webhook and user act on the same row; old events delivered late; partial unique index covers 'active' only | one active row; no period Toss did not bill; a cancellation sticks |
| **Reading audio** `readings/services/pipeline_service.py`, `jobs/audio_finalize.py`, `readings/routers/history.py`, storage | chunk objects, `main.mp3`, `reading_audio` row | open the stream (again), put chunk, end, finalize (list, read, stitch, delete, flush the row), replay | the stream restarts on every open; two jobs of one reading; delete in pieces; worker dies and reruns; the job's caller commits, or does not | what is replayed is one whole take and matches its ETag and length; chunks never lost |
| **Web reading player** `chunked-player.ts`, `sse-source.ts`, `VoicePlayer.tsx`, `PlayClient.tsx` | connections and queues, chunk buffer, MediaSource, status | announce, fetch, append, updateend, end, timer, offline/online, buttons | all callbacks on one event loop in any order; network drops and browser retries | chunks in order, tail not cut off, fallback only when nothing arrives |
| **Accounts** `users/services/*`, `routers/account.py`, `jobs/hard_delete.py` | `users`, session store, signup grants; storage objects, audit rows | sign-in callbacks (by subject, by email hash), Toss bridge, logout, delete_me, hard delete | callbacks race on the unique indexes; sign-in against a soft-deleted row; hard delete of rows, then storage keys, one at a time, skipping or dying, while a stream or a finalize job goes on storing | one grant per account; of a deleted user's audio only what the job could not reach or remove is left |
| **Profiles, charts** `users/routers/profile.py` | `profiles`, `saju_charts` | create, correct (quota), read | correction counter read and written without a lock; one chart row per hash, shared by users | quota respected; a profile is answered with its own chart, which is on file |
| **Saju engine** `saju/*` | none | compute chart | hand-written tables over calendar arithmetic; a third-party lunar table | pillars turn with the calendar and are pairs of the cycle of sixty |
| **Readings, entitlement, free tokens** `readings/routers/pipeline.py`, `entitlement/service.py`, `services/token_service.py` | `readings`, `free_tokens` | create reading, check entitlement, grant, consume | check and consume apart; Idempotency-Key looked up without an index | a retry opens nothing |
| **Follow-ups** `followups.py`, `followup_service.py` | `reading_followups`, clips | make up the question, reserve the slot, stream the answer, save it | requests race for a slot; disconnect between answer and save | a slot is answered once; a saved answer has its audio |
| **Tarot** `tarot/*` | `tarot_draws`, chunks | today's card, flip, stream, quota | concurrent flips; midnight between two clock reads | one draw a day, the free ones of a week bounded |
| **Quote cards, share images** `content/*`, `jobs/og_bake.py` | `quote_cards`, queue, image objects | create with slug retry, enqueue, commit, bake | enqueue before the caller's commit; two workers on one card | a baked card has its image; a pending one has a job |
| **TTS** `tts/*` | text buffer, sentences, chunks | split, request, 429 backoff, time limits | fragments cut anywhere; errors in the middle of a stream | every word said once, in order |
| **LLM clients, guardrail** `llm/*` | cost records | stream with retries; filter a sentence | an attempt that fails half-way; overlapping terms | billed for what is heard; nothing denied is heard |
| **Security** `security/*` | token buckets | rate limit, CSRF, envelope | refill arithmetic | never more than the burst; Retry-After is enough |
| **Queue** `jobs/worker.py`, `subscription_cancel_retry.py` | queued jobs | enqueue, run | at least once | part of the models of its jobs |
| **Payment history, reading list** `payment/history.py`, `readings/routers/history.py` | none | pages by OFFSET | rows appear between two pages | no row that was there is missed |
| **Payment adapters**, **schema**, **observability/config** | – | HTTP, DDL, wiring | – | adapters and schema appear as guards of the models |
| **Web: tarot player**, **web: pages and stores** | reveal reducer; forms | flip, reveal, midnight refresh | POST stream, timers | section 6 |
| **Prototype, docs, deployment** | – | – | – | not a program |

Interactions: the client calls the API per click and listens on SSE; the reading
pipeline calls LLM, guardrail and TTS per sentence and stores chunks the client
and `finalize_audio` later read; a reading that fails is to enqueue
`refund_for_reading`, which writes the payments row the confirm handler and the
webhook write too; Toss calls the webhook, which writes both payments and
subscriptions rows; hard delete removes what all others have stored.

`PROJECT.json` lists the hazards of this code, each at its line, with the
properties that would notice.

## 2. Modules

| Module | Models | Checked by | Proved in |
|---|---|---|---|
| `PaymentPromise` | abstract: money is taken only for an order that has a row and returned only if taken; the row says 'paid' or 'refunded' only when that is so ('failed' is always allowed) | – | – |
| `PaymentLedger` | payments, refunds, compensation, events; Toss external | `MCPaymentLedger` | `PaymentLedger_proofs` (10 theorems) |
| `SubscriptionPromise` | abstract: one active plan at most; a plan becomes active, or reaches further, only with a billed period; otherwise it is only marked | – | – |
| `Subscriptions` | one user's rows; Toss's billing external | `MCMembers` | `Subscriptions_proofs` (7) |
| `ReplayPromise` | abstract: a file is made of spoken chunks, one per number, and stays; a record has a lawful length; undisturbed, a file is one whole take and the record is that take's | – | – |
| `ReadingAudio` | one reading's streams, storage, jobs and row; the jobs' caller external | `MCMembers`, `MCReadingAudio` | `ReadingAudio_proofs` (6) |
| `VoicePlayback` | the page, its sources, the pump and the ChunkedPlayer; server external | `MCVoicePlayback` | `VoicePlayback_proofs` (4) |
| `Accounts` | sign-in, sessions, deletion, the audio stored meanwhile, erasure | `MCMembers` | `Members_proofs` (3) |
| `Profiles` | profiles and charts | `MCMembers` | `Members_proofs` (3) |
| `Readings` | creating a reading, follow-ups | `MCProduct` | `Readings_proofs` (3) |
| `Tarot` | the card of the day and its weekly quota | `MCProduct` | `Cards_proofs` (2) |
| `ShareLink` | abstract: a share link leads to one card for good, the card leaves "pending" once, and says "baked" only with its image stored | – | – |
| `ShareCards` | quote cards, the bake job, the public lookup by slug | `MCProduct` | `Cards_proofs` (4) |
| `SajuEngine` | the four pillars | `MCProduct` | `Product_proofs` (2) |
| `Speech` | sentence chunker and synthesis stream | `MCProduct` | `Product_proofs` (2) |
| `LanguageModel` | model calls, retries, cost records | `MCProduct` | `Readings_proofs` (2) |
| `Guardrail` | the deny list | `MCProduct`, `MCGuardrail` | `Readings_proofs` (1) |
| `RateLimit` | the token bucket | `MCProduct` | `Product_proofs` (3) |
| `History` | the pages of the two lists | `MCProduct` | `Readings_proofs` (2) |
| `MCMembers`, `MCProduct` | the modules of a run, side by side | – | `Members_proofs` (1), `Product_proofs` (1) |

A definition `X_Something` in a module is a faulty variant of `X` (a dropped
guard, a missing reset). No specification uses it: put in the place of `X` it
makes the property it is meant for fail, which shows that the property depends
on that code.

### PaymentLedger

A task (`task[t]`) is a request or a job run; its record holds the row as the
session loaded it (`snap`) and the stage at which it waits. Each action is what
the handler does from one `await` to the next:

- checkout: `CheckoutLookup` (Idempotency-Key seen before: return that row),
  `CheckoutInsert` (unique index on the key; the loser answers 500);
- confirm: `ConfirmLoad` (row found, status decides an early return),
  `ConfirmDone`/`ConfirmNotDone` (Toss's answer), `ConfirmWrite`;
- webhook: `DoneLoad`, `DoneWrite`, `DoneEmit`; `FailedLoad`, `FailedWrite`;
- job: `RefundLoad`, `RefundAccepted` | `RefundAttemptFails` | `RefundRaises`,
  then `RefundWrite` or, with the attempts used up, `CreditWrite`;
- queue: `Redeliver`; faults: `HandlerDies`, `WorkerDies`;
- Toss: `TossOpen`, `TossDone`, `TossDecline`, and every delivery of an event.

`Flushed` is the changed-columns UPDATE. Amounts are abstracted to "the amount
matches": a mismatch is a 400 before any state changes. The refund id comes from
`MockTossClient` (`toss_client.py:128-153`), the only client with a `refund`
whose ids the code shows: it is a function of the payment key, and `refunds` has
a unique index on it. `httpx` errors are not the `RuntimeError` the retry loop
catches, so a Toss call may also end the job with an exception
(`RefundRaises`). No production caller enqueues `refund_for_reading` yet
(`ReadingFails` is external): the job is modelled from its entry point.

### Subscriptions

Every query filters by user, so one user's rows suffice. `CreateLookup`,
`CreateInsert`, `CancelLoad`, `CancelWrite`, `WebhookLoad` and one write per
event type; `WebhookAmbiguous` is `scalar_one_or_none` meeting two rows (a 500).
`Commit` applies the partial unique index (one 'active' row per user, migration
0006). Toss (external) renews, fails or stops billing, and announces each with an
event that is delivered any number of times, at any time. That a created row has
a Toss agreement at once is an assumption about Toss. `monthly_saju_remaining`
is left out: every writer sets it to 1. The job that would tell Toss about a
cancellation is put on a queue created per request which nothing drains, so Toss
may go on renewing. `Entitling` are the statuses `check_entitlement` accepts; a row's
status and period end are all `SubscriptionPromise` sees of it.

### ReadingAudio

One reading. `stream[s]` is one GET of the stream (`Open`, `PutChunk`,
`EmitEnd`, `Enqueue`, `Abandon`), `job[s]` the job it enqueues (`List`, `Read`,
`PutMain`, `Relist`, `Delete`, `Load`, `Write`). `Write` only flushes
(`audio_finalize.py:231`), so it waits for a session that has flushed the row and
not committed; the commit is its caller's (`CallerCommits`, or `CallerDrops` and a
rollback). Both are external: no code in `src/` runs the job, commits its session or
drains the queue's default, so nothing in this module is fair and no property says
that a job is run. Chunk bytes are abstracted to
the take they belong to, `main.mp3` to its set of chunks (keys are listed in
order), durations to chunks (the pipeline counts 200 ms for each; the `or 1000`
of an empty take falls outside the allowed window all the same).
`disturbed`, `settled` and `crossed` are history variables: they record that takes overlapped
or a half-deleted take was rerun, that the last writer of `main.mp3` also wrote
the row, and that another job wrote in the middle of this one. No guard reads
them. `ReplayPromise` sees `main`, `row`, `disturbed`, how much of each take was spoken
and which takes were finished. Hard delete of the reading is in `Accounts`.

### VoicePlayback

`source[i]` is the i-th EventSource the page opened with its queue, `pump` the
VoicePlayer's `for await` loop, `pending`/`expected`/`inFlight` the
ChunkedPlayer's fields, `mse` the MediaSource ("attached" until sourceopen,
"unsupported" when the browser has none, "broken" after a decode error). One
action is one callback. The server is external and begins a new take per
connection, as the pipeline does. Subtitles, the playhead of the media element
and unmounting are left out; the backend never sends the named `error` event on
this stream, so that listener is left out too.

### Accounts and Profiles

`Accounts`: a callback (`KakaoCallback`, `AppleCallback`) stops where it has read
(`FindBySubject`, `FindByEmail`) and where it commits (`Refresh`, `Attach`,
`Insert`, each under the unique indexes on the subjects), and opens a session
after that; `TossBridge` reads and then shares `Insert` but opens no session; `Logout`. `DeleteMe`
stamps `deleted_at`, `GraceEnds` (external) lets the thirty days pass, and the
job takes one due user at a time: `Collect` reads the storage keys, `EraseRow`
commits the cascade and the audit row, `EraseObjects` is the storage pass;
`Stumble` (a user is skipped) and `Die` end it early. The sign-in race is
kept apart from names, locale and tokens; `email` is the address's hash.

A user's audio is made meanwhile, one reading each, its chunks as one piece and
`main.mp3` as another: `OpenStream` reads the reading, which goes with its user;
`Speak` puts chunks (`pipeline_service.py:180-188`), `EndStream` ends the stream
with or without a job, `StoreMain`, `Clear` and `Record` are that job. From
`OpenStream` to `Record` none of them looks at the users row, so they may store
audio after the hard-delete job has collected a user's keys, and after it has
ended. `KeysOf` are the keys `_collect_r2_keys` returns, which a reading without a
`reading_audio` row has none of. `missed` is history: it is what the job leaves out
of its keys (`OutOfReach`), what it fails to delete, and what is put after it collected.

`Profiles`: `CreateProfile` and `CorrectProfile` read the profile and check the
quota, `LookUpChart` looks for the hash, `CommitForm` writes profile and chart
under the unique indexes on user and hash (or is refused). `DeleteOwner` and
`EraseOwner` say what Accounts does to the tables. Birth data are named by
the chart they compute to. `accepted` and `lost` are history variables.

### Readings, Tarot, ShareCards

`Readings`: `FindByKey`, `FindActiveFreeToken`, `FindActiveSubscription`,
`InsertReading` (under `readings_entitlement_chk`) are POST /reading at its
awaits. A follow-up is `StartFollowup`, `SuggestFollowups` (the question is made
up again, by the model or from the bank), `ReserveSlot` (unique index),
`StoreClip`, `EndAnswer`, `SaveAnswer`, and `LeaveAnswer` at any chunk. `named`,
`answers` and `retried` are history. Tokens and credits are turned by the
environment; no code consumes them.

`Tarot`: `FlipToday` reads the clock and the day's draw, `CheckQuota` reads the
clock again, `InsertDraw` commits under the index on user and date,
`PutTarotChunk`, `EndFlip`; `Midnight` may come anywhere. A draw inserted on a
later day than it is dated is marked `late`.

`ShareCards`: `CreateFor`, `ExtractQuote`, `InsertCard` (a slug that collides
is drawn again, and the caller's transaction is rolled back), `EnqueueOgBake`
before `CommitCard` or `AbortCard`; workers `TakeJob` (no row: the job ends),
`Upload`, `UploadFails` (retry, then failed), `WriteStatus`, `Fall` (the job is
delivered again). Two workers may have one card. `BySlug` is what the public
endpoint answers for a slug; `LinkKept` says that with it and the image store
the cards implement `ShareLink`.

### The algorithms

- `SajuEngine`: the four pillars as functions of the date and the hour, the state
  a civil day that advances; lunar dates through an external table. `PillarsTurn`
  compares one day's tables with the next day's, month by month.
- `Speech`: fragments of any size are buffered and cut by `SplitBuffer`
  (`Take`, `ForceCut` at the limit); a sentence is a request answered with audio,
  429 (`TooManyRequests`, within the breach window), an error, or too late.
  Reference: the words of the text, whatever the cuts. A word as long as the limit
  is cut in two by design, so the words are compared in texts without one
  (`ShortWords`).
- `LanguageModel`: routing, attempts that collect tokens, retryable and final
  errors, one cost record per completed stream, tokens handed on afterwards.
- `Guardrail`: `FilterChunk` and `SanitizeEvidence` over every sentence of a small
  alphabet, whose terms overlap the way the list's do. Reference: `Softened`, which
  reads the text letter by letter and knows nothing of spans: a letter no hit covers
  is kept, a run of covered ones is one safe phrase. Terms that touch make one run,
  terms that a space sets apart two, which is not what the code's comment says
  (`adjacent_terms`). `sorted` is `Sorted` (the n-th
  span has n - 1 before it), the loops are recursive functions, `out.replace` is
  `Replaced` (matches from the left, none overlapping) and `Hidden` (the places of
  a term that are masked). That no term of three or more letters ends with the
  letter it begins with is an assumption, true of the code's list;
  `sanitize_evidence` needs it (see the proof).
- `RateLimit`: exact tokens (the code has floats), a clock of fractions of a
  second; the lock makes a check one step. `since[k][t]` counts what a caller
  got through since tick `t`, so a burst is bounded over every stretch of time.
- `History`: the pages of `/payments/history` and `/me/readings`, and a client that
  walks them while rows are opened, committed and dropped.

`MCMembers` and `MCProduct` put modules that share no variable into one
run: the initial state's `focus` says which of them moves, so their states add
up and do not multiply. `MCMembers` explores `Accounts` twice: `callbacks` with
two callbacks at once and neither audio nor failures of the hard-delete job,
`erasure` with both, one callback at a time and the rows of the users whose audio is
followed. The proofs are about the modules without these bounds.

## 3. Runs

| Run | Bounds | What it shows |
|---|---|---|
| `payment_rows` | 1 order, 2 payment keys, 2 handlers, 1 worker, faults die and raise, 3 deliveries, 2 job runs, 2 attempts | a job that ended well compensated; one compensation per run |
| `payment_orders` | 2 orders of one user sharing an Idempotency-Key, 2 keys, 2 handlers, 1 worker, die, 1 delivery, run and attempt; weak fairness of the worker | refunds rows backed by Toss; only charged orders count; refinement of `PaymentPromise`; jobs end |
| `voice_playback` | 3 chunks, 2 sources, 1 drop, 1 failure; fairness below | chunks in order and of one take; end only when complete; fallback only before the first chunk; an undisturbed stream ends |
| `members` | Accounts, callbacks: 2 users, one subject per provider of which two share an email, 1 session, 2 callbacks. Accounts, erasure: 1 callback, audio of 1 user, 1 failure of the job. Profiles: 2 users, 2 charts, 2 requests, 1 correction. Subscriptions: 2 rows, 2 handlers, 2 billing periods, 4 deliveries. ReadingAudio: 2 streams, takes up to 3 chunks, window exactly 2 chunks, 1 death | one signup grant per account; of a deleted user's audio only what the job could not reach or remove is left; a fresh profile answered with its own chart; its chart on file. One active row; refinement of `SubscriptionPromise` (with it: no unbilled period); a cancellation undone, or a period moved back, only by a handler that read the row earlier. Replay served and honest; refinement of `ReplayPromise` (with it: undisturbed takes stay whole); chunks deleted only when stitched; a job that has ended leaves its take replayable, but for the cases the property names |
| `product` | Readings: 1 member, 2 readings, 1 key, 2 requests, 1 slot, 1 clip. Tarot: 1 member, 2 flips, weeks of 2 days, 3 days, 1 free draw. ShareCards: 2 cards, 2 slugs, 2 makers, 2 workers, 2 attempts, 1 death. Saju: 1983 to 1990. Speech: 7 characters in fragments of 1 and 2, limit 3. LLM: 2 calls of 3 attempts, 2 tokens. Guardrail: 4 letters, 4 terms, 6 letters. Rate: 2 per 3 s, half seconds, 6 s. History: 4 rows at 4 instants, pages of 2 | a retry opens nothing; a slot answered once; weekly quota; refinement of `ShareLink` (with it: baked means image); pending means job; words whole; billed for what is heard; nothing denied is heard; bursts bounded, Retry-After honest; pillars turn; pages miss nothing |
| `duplicate_done` | 1 order, 2 deliveries | **violated**: a PAYMENT_DONE redelivered after a refund makes the row 'paid' again |
| `crash_recoverable` | 1 stream, 1 crash | **violated**: a rerun in the middle of the deletes overwrites a whole `main.mp3` |
| `every_key_collected` | 1 user, no failure | **violated**: chunks of a reading without a `reading_audio` row are not among the keys the hard-delete job collects |
| `correction_quota` | 1 user, 2 charts, 2 requests | **violated**: two corrections that read one count are both accepted |
| `one_reading_per_key` | 1 member, 1 key, 2 requests | **violated**: two requests with one Idempotency-Key open two readings |
| `pending_baked` | 1 card, 2 workers; fairness below | **violated**: a job that runs before the commit finds no row, ends, and the card stays pending |
| `adjacent_terms` | a denied letter, a plain one, a space; 6 letters, the code's density of 0.4 | **violated**: two denied terms with a space between them are two safe phrases in a row |

Each violated property is what a comment, a docstring or the test plan says; the
findings in `PROJECT.json` quote it.

**Why these bounds.** The races here are between a reader-writer and one other
writer: two handlers plus a worker (or two streams plus two jobs) already give
every overlap of read, foreign write and write. Two keys let a row carry the
wrong one; two orders let a key, a refund id or an Idempotency-Key cross. Three
deliveries give done, failed and a repeat; four let a subscription see an old
RENEWED after a newer one and a BILLING_FAILED between. Two runs with two
attempts reach both the retry inside a run and the rerun. Takes of 0..3 chunks
around a window of exactly 2 are too short, right and too long, and 3 chunks
leave a middle one while deleting. In the player 3 chunks allow out-of-order
pending, one in flight and one to come; one drop gives the browser's retry, one
offline the page's. All safety properties of the passing runs are also proved
without bounds.

Two requests are enough for the races behind an index or a lookup (who reads
before whom commits). `MAX_CORRECTIONS` is 2 in the code (`profile.py:456`) and
1 in the runs: what matters is the last one allowed. A week of two days has a
boundary and a day on either side of it. Six ticks of half a second are two
windows of the bucket. Pages of two (twenty in the code) over four rows let a row
cross a page's edge in each direction. The seven characters hold two words, a
forced cut and a stop, cut into fragments at every place; the letters of the
guardrail make terms that begin, end and contain each other. 1983 to 1990 has two
leap years, and both the start and neighbours of a cycle of sixty (1984).

**Deadlock** checking is off in every configuration: the system may really stop, when every
request has been answered, every bounded fault used, and no job is left.

## 4. Fairness

- `PaymentLedger`: `WF(WorkerStep)` – the ARQ worker keeps running a job it has
  started and takes queued ones. No fairness for handlers, Toss or faults:
  a client may never come back.
- `ReadingAudio` and `Accounts` assume no fairness and have no liveness property:
  nothing in `src/` drains the finalize queue or commits what the job flushed, and a
  client may leave at any chunk. `EndedTakeReplayable` is a safety property: it speaks of
  jobs that have ended, and says what excuses them.
- `VoicePlayback`: the event loop runs what is due (the pump, fetch results,
  sourceopen, updateend, the timer), the server finishes the take it speaks,
  the network comes back and the browser retries. No fairness for the user,
  drops or failures.
- `ShareCards`: workers go on with the job they have and take queued ones, and a
  caller that has inserted a card commits it: `PendingBaked` fails even then.
- `Subscriptions` has no liveness property: nothing in the code makes a
  cancelled row end, so there is none to state (`AccessIsKept` proves it).

## 5. Proofs

All theorems are for arbitrary constants under the named assumptions
(`LedgerAssumption`, `SubscriptionsAssumption`, `ReadingAudioAssumption`,
`VoicePlaybackAssumption`, `AccountsAssumption`, `ProfilesAssumption`,
`ReadingsAssumption`, `LlmAssumption`, `ShareCardsAssumption`, `RateAssumption`,
`TarotAssumption`, `SpeechAssumption`, `CalendarAssumption`,
`GuardrailAssumption`, `HistoryAssumption`): the sets of orders, keys, tasks,
rows, streams, users, cards and callers may have any size, the bounds any value.
A proof module may cover several components: `Members_proofs` (accounts,
profiles), `Readings_proofs` (readings, model calls, lists, deny list), `Cards_proofs`
(tarot, share cards), `Product_proofs` (speech, saju, rate limit, and the run
that puts them together).

**PaymentLedger.** The properties do not carry themselves: a row becomes 'paid'
because a task read Toss's answer, or an event, some steps before. So
`Inv == TypeOK /\ TossTrue /\ TasksTrue /\ WorkersRefund /\ FreshInsert /\ LedgerTrue`
says what each thing in flight stands for: `TossTrue` (an event PAYMENT_DONE
exists only about a charged order, keys belong to their order), `TasksTrue` (a
task at a stage past Toss's yes is about a charged order; one about to set
'refunded' is about an order Toss returned), `FreshInsert` (an order being inserted has
no row and nobody else inserts it). Steps that only move a task share
the lemmas `TaskMoves`, `BeginMoves`, `GotoMoves`; `StepGrows` says that rows,
charges and returns never go away. From `Inv`: `PaidOnlyIfCharged`,
`KeyOfOwnOrder`, `RefundedHasRow`, `RefundRowBacked`, `OnlyChargedOrdersCount`,
`DoneJobCompensated`, `CheckoutIdempotent`. `KeepsPromise` shows
`Spec => Promise!Spec`: an action that writes a row maps to `Open` or
`Record` (`RowPromise`), Toss's own actions to `Charge` and `Return`
(`TossPromise`), everything else stutters. `CompensatedOncePerRun` needs a
second invariant, over cardinalities: a job is in the hands of one worker at most
(`OneWorkerEach`), and as long as it is, there is a run booked for it that has not
compensated yet (`RunsBooked`).

**Subscriptions.** `Inv == SubsTypeOK /\ OneActivePerUser /\ Billed /\ LookedFor /\ FreshInsert`;
`Billed` extends the bound on period ends from rows to the events and tasks that
carry them, `LookedFor` keeps what a webhook's guard established until its
write. `CommitRows` isolates what a commit with the unique index can do. The two
action properties follow because a commit by a task whose row is still what it
read respects them, and any other is a stale read. `KeepsPromise` maps a row to its
status and period end: `CommitPlans` says that a commit changes one plan and makes
it active only beside none that is; then a create is `Subscribe` (`FreshInsert`: the
row was not there), a renewal is `Renew` with a period of an event Toss sent
(`Billed`), a cancellation or failed billing is `Mark`, what it wrote from a stale
read included, and every other step changes no plan. `AccessIsKept` follows: no step
takes an entitlement away.

**ReadingAudio.** `Inv == Types /\ Honest /\ Undisturbed`, over `AudioTypeOK`. `Honest` says for
every job at every stage what it knows while uncrossed (`main` is what it
stitched, the loaded row is the row); `Undisturbed` says where the chunks of the
only busy stream are at each stage (`Holds`) and that only one is busy while
`~disturbed`. Finiteness of the blobs is carried along, since the row's size is
a `Cardinality`. `WholeTakeKept` and `ChunksKept` follow. `KeepsPromise` maps the
file to `main` and the record to `row`. A stitched file is to be playable even when
takes overlap, so `Replayable` says of the store, of `main` and of what each job has
read that every chunk was spoken and no number occurs twice: a job reads each key
once (`FirstIsOne`), and a put replaces what was under its key. It also says that a
row once read is still there, without which an UPDATE that leaves out the duration
could record none, and that nobody crosses a job while nothing is disturbed. Then
`PutMain` is `Store`, a `CallerCommits` is `Record` (`UpsertedRow`), an
`Open` or a `Crash` is `Disturb` or a stutter, and the other steps of a job are
stutters. What is flushed and not committed is seen by nobody, so `Knows` holds of the
loaded row up to the commit, and a second flush waits for it. `EndedTakesReplayable`
needs a third invariant, `Ends`: either the reading is excused (`Excused`: a row, a
death, a job past its first deletion, a refused length), or no job has deleted anything
(`Untouched`), so that a job finds every key it listed and none has ended.

**VoicePlayback.** `AppendedInOrder` asks for one take although the queue may
hold several. `Inv` has `Counted` (`expected` is the number of chunks appended)
and `Consecutive`: as long as nothing failed, every chunk among the pending ones,
in the pump and in the queue comes behind its predecessor of the same take. So a
chunk of another take that would be next has a predecessor that is still pending
and sorts before it, and the player never gets past that one: `ChunksInOrder`.
The last chunk sent is due as well, which with `EndIsLast` (after `end` the queue
is empty and the pump idle) gives `TailNotCutOff`. `Early` (the timer runs only
while nothing has been fetched) gives the action property `NoLateFallback`.
`DrainDoes` reduces `drainPending` to three outcomes that all lemmas share.

**Readings.** `NamedTrue` (a 201 names a reading of that member and key) and
`NoneRetried` carry `RetriesOpenNothing`: the lookup of a request sent after the
201 finds the row, so it never reaches the insert. `SlotTaken` and `ClipsStored`
carry `SlotsAnsweredOnce`.

**ShareCards.** `HeldApart` (two transactions never have the same card, and none
has a committed one), `JobFirst`, `BakesTrue` (a worker that is about to write
'baked' has stored the image, and what was an outcome stays one) and `RowsTrue`.
`KeepsLink` is the refinement: with `LinksApart` (rows never share a slug, which
is the unique index) a slug answers with one committed card, so a commit is
`Publish`, an upload `Store` or a stutter, a status `Settle` or a stutter, and
every other step changes nothing anyone can see. A status written for a card
that was rolled back, or over the same status, is a stutter; a worker that gives
up after another has baked is a `Settle` that leaves the image named.

**Accounts.** `RowsTrue` ties the grant to the subjects a row names.
`CallbacksTrue` says that the row a callback is about to write is, as long as it
exists, one that Kakao or Apple opened (`Known`): so attaching a subject or an
email hash never turns a bridge's account, which has no grant, into a callback's.
The assumption that a subject belongs to one provider is needed here.
`EraserTrue` says what the job knows between its steps: who is due still
exists, but for the one whose row was just deleted, and from `Collect` on what is in
storage is among its keys or among what it missed. A stream and a finalize job,
which run on whether the user exists or not, keep that, since what they put is
counted as missed (`AudioMoves`, `PutMoves`). `RowWritten`, `CallbackMoves` and
`JobLeaves` are the other kinds of step. `GrantsWithAccounts`, `OnlyMissedAudioStays`.

**LanguageModel.** `CallTrue`: what is collected is the attempt's own, nothing is
billed or heard before an attempt is complete, and what has been handed on is a
part of what the one record covers. `BillsAreForWhatIsHeard`.

**Profiles.** `ChartsWithProfile`, `ReliedOn` (what a profile or a request relies
on is on file or went with its owner), `BelowQuota` (for the stored count, which
is all the quota bounds: see `correction_quota`).

**RateLimit.** Products of constants are beyond the solver, so `Product`,
`OneMore`, `Grows` and `Whole` state the few facts needed and `WaitIsEnough`
proves that the wait a caller is told is worth a token. `Bucketed`, `CountedPast`
and `Conserved` (what a caller got through since a tick, and what it still
has, never exceeds a full bucket and the refill) give `BurstsBounded`;
`PromiseCovered` gives `RetryAfterIsHonest`.

**Tarot.** The quota is read before the draw is inserted, and other flips and
midnight come between. `RoomLeft` says why it holds all the same: a request that
may still insert a free draw dated today finds room for it, since the only free
draw that could have taken it is today's own, and then the index on user and date
refuses the request (`OneADay`). Past midnight a request is no longer dated today,
which is why draws inserted late are counted apart; `Dated` says that nothing is
dated after today. `SameWeek` shows that the days the scan looks at are the ones
with the same Monday. `QuotaKept` follows.

**Induction.** What the chunker and the deny list compute is recursive (`Words`,
`Joined`, `SplitWithTerminator`; `MergedSpans`, `Softened`). The library's induction
theorems take an operator as a parameter and cannot be used, so induction is stated
of sets: `NatSet` (a set of naturals with 0 and closed under successor is all of
them, from the well-foundedness of <), `SequenceSet` (the same for sequences and
`Append`) and `FoldExists` (steps from a base can be folded up to any length, so
that a recursive function is what its equations say). These lemmas are in
`Readings_proofs`, which `Product_proofs` extends.

**Guardrail.** `NothingDeniedIsHeard` is a fact about two functions of the
sentence; the invariant only has to say that it is a sequence of letters.

- *Spans.* `Ranks`: among finitely many spans, each has a rank of its own, so
  `SortedLists`: the sorted sequence lists every hit once, in order.
- *Merge.* `MergeSpan` is one turn of the loop: spans that are in order and a letter
  apart (`Spaced`) stay so, and cover what they covered and the new span.
  `MergedTo` is the loop invariant, `MergedSpansCover` its end: the merged spans
  are in order, apart, and cover exactly what the hits cover. `Between` reads it
  off the text: within a merged span every letter is covered, between two none is.
- *Rewriting.* `IsSaid` says of each beginning of the text what is to be said of it;
  `SaidUncovered` and `SaidCovered` are the two kinds of stretch. Going over the
  merged spans, `SubstitutedIsSoftened`: the loop of the code yields the reference.
- *No new term.* Taking a term out could bring its neighbours together to another
  one. `SaidTraced`: a stretch of letters in what is said is a stretch of uncovered
  letters of the text, in the same order and with nothing taken out between them;
  so a term in it would be a hit in the text, and its letters covered
  (`SoftenedUnhit`).
- *Audit rows.* Masking keeps every letter's place (`IsMasked`), so a term
  found in a text with letters masked is in the text (`MaskedOccurs`): masking
  one term never makes another. The term masked is gone (`ReplaceMasks`): an
  occurrence that was not replaced overlaps a replaced one (`ReplacedAre`), and the only
  letter of that one it could still have is the last, kept one, which would have to
  be its own first letter; that is what the assumption excludes. Without it the
  claim is false: `aba` in `ababa` leaves `a*aba`. `SanitizedUnhit` goes over the
  list.

**Speech.** `WordsMeet` says when the words of two parts are the words of the whole:
when the cut does not have a letter on both sides. `StripWords`, `CleanedWords`: trimming and dropping blank
sentences lose no word. `TakeCuts` goes through one character of
the chunker and keeps `CutSoFar`: the sentences have the words of the text up to
a place, no stop is left in the buffer behind it, and the place does not cut a
word; `SplitCuts` lifts it to a text. `WholeText` is the invariant
of the stream: the buffer is the text from a place `p` on, and what is
said and cut so far has the words of the text up to `p`; while more text may
come, `p` is a place where no word is cut (`SafeCut`), after a flush it is the
end. `FragmentWhole` shows that a fragment may fall anywhere, `Speaks` that a
sentence spoken only moves from one side to the other. `NoWordLost`.

**SajuEngine.** `Walked` says that the day is a day of the calendar.
`NextDayNumber`: the day count grows by one from any day to the next, at the ends
of months, at the end of February of a common, a leap and a century year, and at
New Year. From it the day pillar goes on by one (`PillarsTurnByOne`), as the
month pillar does at the start of a month and the year pillar at New Year, and
the first hour of a day comes after the last of the day before. `ChartsOfSixty`:
stem and branch of every pillar have the same parity of place, whatever way the
tables combine them.

**History.** A row that is committed while a client pages only moves the others
down (`PlacesGrow`), and rows have distinct instants, so places run from 0
without a gap (`PlacesWithoutGap`) and a page that is not full is the last
(`ShortPageIsLast`). `SeenSoFar` says that an owed row not yet seen stands behind
the pages read. `WalksMissNothing`. Distinct instants are the assumption of the
model that the ORDER BY has no ties: see the deviations below.

**Compositions.** The invariants above are stated so that each module's step
keeps its own. `MembersTypeCorrect` and `ProductTypeCorrect` put them together:
a step of the composition is a step of each part or leaves it alone
(`ProductMoves`).

**Only model-checked**: the liveness properties `JobEnds` and `StreamEnds`:
liveness is out of the prover's reach.

## 6. Not modelled, and why

- Devices, `migrate_device_to_user` and `grant_nonmember_trial`: a device row is an
  upsert on one key; the migration, trial grants and draws owned by a device have
  no caller in `src/`.
- CSRF, WebView guard, envelope encryption: checks of one request against itself, and
  library cryptography; nothing in `src/web` sends the CSRF header, and
  `rewrap_dek` has no caller.
- `consume_token` and `record_violation` have no caller; the worker passes `og_bake`
  no session and drains no finalize queue, so both jobs are modelled from their entry
  points.
- `subscription_cancel_retry` does nothing by default; reading intros and `/me`
  read seeded or own rows; tarot art is an upload script that runs once.
- Image compositing, prompts, subtitles, fixtures of the mock adapters,
  observability, analytics, configuration, DDL: rendering and wiring.
- Web pages, stores and forms: one request per click, whose effect on the server is in
  the routes' models. The tarot player pumps the same ChunkedPlayer as
  `VoicePlayback`.
- In modelled components: handler deaths in `Subscriptions` (a handler commits
  once, at its end, so a dead one is one that never goes on); the audio element
  and subtitles in `VoicePlayback`, which is why that component counts as partly
  modelled.

### Deviations seen while modelling, without a run

- Two deliveries of PAYMENT_DONE in flight both emit `payment_completed`.
- confirm never stores `toss_payment_key`; a webhook that arrives first, or
  never, decides whether the row has its receipt. No migration under `alembic`
  adds `payments.toss_payment_key`, though the ORM model has the column.
- A cancelled subscription entitles for ever: no handler and no job writes 'canceled',
  which `webhook.py:224-226` leaves to "a follow-up webhook (or scheduled job)" and
  `docs/test_plan.md:358` expects, and `check_entitlement` looks at the status only
  (`AccessKept`, proved).
- A stale RENEWED moves `current_period_end` back; a user may have a 'cancel_at_period_end' and an 'active' row
  (`docs/data_model.md:480` says one live row), and the webhooks that look both
  up then fail.
- `finalize_audio` only flushes the row, after it has deleted the chunks, and no
  caller in `src/` commits it: without one the reading answers 410 with its
  `main.mp3` in storage.
- A finalize job refused by `audio_duration_chk` has already deleted the chunks
  (`audio_finalize.py:38-40` accepts that a take is then lost); chunks of an
  abandoned longer take are stitched behind a shorter later one.
- Player: a chunk whose fetch failed leaves a gap that is never filled; a native
  error does not close the EventSource (`sse-source.ts:74-76` says it does);
  'ended' is set when the stream is complete, not when it has been played.
- The page opens a new source when the network comes back, and the mounted player
  keeps reading the closed one (`PlayClient.tsx:324` against `:195-197`); without
  MediaSource it stays at 'buffering' (`chunked-player.ts:397`, `:388-389`).
- A refund job that is run again compensates again (`refund.py:112`;
  `docs/test_plan.md:154` expects one), so the theorem counts runs. Only
  `MockTossClient` has `refund_payment`.
- A webhook that read the row before a cancellation was committed wipes it
  (`webhook.py:249`, `subscription_routes.py:250-252`).

Accounts and profiles:

- `user_service.py:85` finds soft-deleted users, though `account.py:90-95` says
  they are treated as absent: signing in during the grace period signs into an
  account that is then erased. Other sessions and bearer tokens outlive deletion.
- Two callbacks of one email create two users, and the third meets both (a 500).
- Two hard-delete workers write two audit rows. The chunks of draws and the images of
  cards are not collected; nor is the audio of readings never recorded
  (`every_key_collected`). A stream open when its user is erased goes on storing chunks,
  and its finalize job stores `main.mp3` before the foreign key refuses the row: nothing
  removes that audio later.
- `saju_charts_time_known_chk` refuses the pillars `{"hour": null}` that a profile
  without a birth time is stored with, on Postgres. After a correction a user has
  two charts, which `GET /profile/me` does not expect. A second user with the same
  birth data shares the first one's chart row and loses it with that user.

Readings and cards:

- `create_reading` never sets `subscription_id`, so a subscriber without a free token
  is refused by `readings_entitlement_chk`; no code consumes a token, so one token
  opens any number of readings (`pipeline.py:168-170` says that is to come), and
  `expires_at` is not looked at. `token_service.py:149` names a predicate that does not
  imply the partial index's.
- A follow-up slot stays consumed when the client leaves; its question may
  differ from the one shown.
- Flips around midnight put a draw into a week whose quota was read for another
  one; the loser of a race for a day's draw gets a 500.
- A collision of slugs rolls back the whole session (`quote_card_service.py:361`
  speaks of a SAVEPOINT); a second bake may turn 'baked' into 'failed' although the
  image exists.

Algorithms:

- `saju/engine.py:99-107` describes other month branches than the table has; the day
  pillar does not change at 23:00.
- The TTS breach budget restarts for each sentence, though its docstring says it
  is cumulative, and with the default limits it is never reached; stops split over
  two fragments leave a sentence '.'.
- `_is_retryable` says timeouts are not retried, but `APITimeoutError` is; a stream that
  fails after tokens is retried although the docstring says it is not.
- A denied term cut by a sentence end passes the filter. `sanitize_evidence` masks a
  term of one letter, which its comment says it leaves unchanged
  (`denylist.py:269`); the list has '좆' (`:83`), so this does happen.
  Denied terms apart by a space are two safe phrases (`adjacent_terms`).
- Buckets are per process and never evicted; the gate is off by default.
- `history.py:149-153` calls NULLS LAST portable; Postgres sorts NULLs first under
  DESC. Rows created in the same instant have no tie-breaker.

## 7. Plan

Done: every module of section 2, and the proofs listed there. What could follow:

1. The composition of `Accounts`' erasure with the whole of `ReadingAudio` instead
   of the five steps that stand for it, and of `VoicePlayback` with the pipeline's takes.
2. The tarot player with its POST stream and midnight refresh.
