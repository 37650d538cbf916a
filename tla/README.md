# Channel manager: verification project

This directory holds TLA+ models of the channel manager in `src/`, the TLC
configurations that check them on small instances, and TLAPS proofs of their
main results. The code is the reference: every definition is translated from it
and `PROJECT.json` names the lines (`"map"`).

Contents: [The system](#the-system) · [What is modelled](#what-is-modelled) ·
[Runs](#what-the-runs-check) · [Fairness](#fairness) · [Proofs](#what-is-proved) ·
[Divergence](#where-code-and-words-disagree) · [Notes](#noted-while-modelling) ·
[Not modelled](#what-is-not-modelled-and-why) · [Plan](#plan)

Run a check with `tlc -workers 2 -config PromoSaga.cfg MCPromoCodes`, a proof
with `tlapm PromoCodesProofs.tla`.

## The system

One Go process (`apps/api/main.go`) serves HTTP and Connect-RPC. Each request is
a goroutine of its own, with a context that is cancelled when the client hangs
up. Durable state is in Postgres, read and written in short transactions
(`WithTenant`, `platform/db/db.go:97`) under row-level security by organisation;
short-lived state is in Redis; some state that matters is in memory and lost at
a restart. Outside are the hotel's PMS (property management system), the OTAs
(sales channels), booking engines (the direct channel) and WorkOS (identity).

| Component | State | Operations | Modules |
|---|---|---|---|
| Promo codes (`services/pricing`) | `pricing.promo_codes`: a row with `uses` and `max_uses` per code | create, update, delete; redeem, release | `PromoCodes` |
| Canonical reservations (`services/reservations`) | `reservations.reservations`; `seenKeys`, a map in memory | ingest, record, cancel | `Reservations`, `RepeatedRecords` |
| Direct bookings (`services/storefront`) | idempotency records in Redis (24 h) | create_booking, record_direct_reservation, cancel_booking | `DirectBooking`, `BookingPromise` |
| Booking-engine settings (`services/bookingengine`) | one row per property | update | `DirectBooking` (`ToggleEngine`) |
| OTA fetch (`services/integration`) | none of its own | fetch_channel_reservations | `OtaFetch` |
| Soft holds (`services/storefront`) | a key per token in Redis (10 min), an index set per property | get_quote, search_availability (exact and flexible) | `SoftHolds` |
| Channels (`services/channel`, `services/integration`) | connections, channels | create, update, delete; connect, pause, resume, disconnect | `Channels` |
| Pushes (`services/integration`, `services/channel`) | sync jobs | push_availability, push_rates | `Distribution` |
| Rates (`services/pricing`) | rate points of one plan per organisation | SaveBatch | `Distribution` (`SaveRates`) |
| Inventory (`services/inventory`) | a versioned row per room type and day; keys in Redis (24 h) | bulk upsert by clients and by the PMS | `Inventory` |
| Catalogue (`services/pms`) | properties (one default), room types, rooms | sync_catalog, election and choice of the default | `CatalogSync` |
| Identity mirror (`platform/auth`) | organisations, users, memberships | webhooks, login, preferences | `Membership` |
| Roles (`platform/auth`) | Casbin rules in a table, a memo in memory | `RoleBinder.Ensure`, enforcement | `RoleBinding`, `Access` |
| API keys, PMS tokens, audit, event bus, mapping, adapters, wiring | see [below](#what-is-not-modelled-and-why) | | - |

### How the components meet

- A **direct booking** goes: storefront → Redis (has this key an answer?) → PMS
  (book, with the key) → reservations (one row per stay, keyed again, not
  announced to the PMS) → Redis (cache the answer) → client. A step can fail or
  lose its answer, and the client repeats the whole call.
- An **OTA booking** goes: integration → channel → adapter (pull) → reservations
  (ingest, one by one) → event bus → webhook to the PMS.
- A **quote** reads all soft holds of the property, then asks the PMS, then
  places its own hold. A **promo code** is redeemed before the booking is made
  and released by the booking engine if that fails: a saga without a coordinator.
- A **push** reads the inventory (or writes the rates) first, lists the channels
  once, and calls the OTAs one after the other; the writers of the inventory and
  the admins of the channels go on meanwhile.
- A **role** travels from WorkOS in two ways: in the token, bound to rules at the
  first request that carries it, and in webhooks, to the mirror.

### What is hard about it, and what makes each part correct

The whole list, at its lines, is `"hazards"` in `PROJECT.json`. In short:

- *Promo codes.* Concurrent redemptions, operator edits, lost replies, repeated
  releases. Correct: the counter stays in `0..max_uses`, is never ahead of what
  guests hold, and moves for checkouts only.
- *Reservations.* `Save` is SELECT, then INSERT or UPDATE; the key is remembered
  after the commit; the webhook follows. Correct: one row per channel
  confirmation, "duplicate" implies stored and announced, no webhook without a
  row, nothing echoed to the PMS that came from it, and a second row for a booking
  without a connection only in the ways the key set cannot see.
- *Direct bookings.* Retries that overlap, partial writes, restarts, lost
  answers. Correct: one booking per key, every answer names it, an answer that
  is not `reconciliation_pending` has its rows, nobody is left without an answer.
- *OTA fetch.* Bookings change between a pull and its ingest, fetches overlap,
  keys are shared. Correct: what was pulled is stored, at its own channel, the
  store never runs ahead of the channels, and no cancellation is undone but by
  fetches that overlap.
- *Soft holds.* Check-then-place without a lock, an index next to keys that
  expire by themselves, lost answers, a flexible search that reads the holds
  again for every window. Correct: two listed competing holds imply overlapping
  requests, nobody is refused by its own hold, searches hide holds.
- *Channels.* Requests of several transactions that interleave and may stop in
  between. Correct: one channel per property and connection, none on a
  connection that is gone, no shared name.
- *Pushes.* A stale snapshot, a list read once, answers lost and calls that
  arrive late, jobs nobody closes. Correct: what an OTA shows was recorded first
  and is of one moment, came over a channel that was active, is told by its job,
  and is current after a push nothing crossed.
- *Inventory.* The key is marked after the write. Correct: a key refuses only
  what was written, and a keyed batch is written once unless its key could not
  say so; no day loses a write.
- *Catalogue.* A failed upsert turns into a deactivation; syncs overlap; two
  elections of a default. Correct: an undisturbed sync leaves a mirror; an
  organisation keeps a default, and no election replaces one it saw.
- *Identity and roles.* Events overtake each other; a role change is several
  enforcer calls. Correct: the mirror ends at the role WorkOS has; one role per
  user, and answers by it, if bindings of two roles do not overlap.

## What is modelled

One action is one Postgres transaction or statement, one Redis command, one call
to an outside system, one enforcer call, or one access to shared memory: the
points at which another goroutine can run. A guard is a condition or an early
return of the code. Definitions with a "Mutant:" comment are plausible bugs; the
specifications do not use them, and they show that a property depends on the
definition next to them (`"mutants"`).

### PromoCodes
`services/pricing/usecases/promo_service.go`,
`adapters/postgres/promo_repo.go`, `domain/promo.go`,
`migrations/pricing/0002_promo_codes.up.sql`.

- `promo[c]` is a code's row (or none), `now` the service's clock, `call[k]` the
  progress of checkout `k`. `created`, `outstanding` and the `releases` field
  are history and bounds.
- `CreatePromo`, `UpdatePromo`, `DeletePromo`: the operator's statements with
  the service's checks and the table's CHECK constraints (`CheckConstraints`).
- `StartRedeem` reads the clock; `RedeemCounts` / `RedeemMisses` are the
  conditional UPDATE (`RedeemMatches` is its WHERE clause), matching or not;
  `DiagnoseRefusal` is the second, unconditional read that explains a refusal.
- `BookingOutcome` and `ReleaseRedemption` are what the caller does next. Its
  reply may be lost, and it then calls again, `MaxReleaseCalls` times at most.
- Left out: discount arithmetic, listing. The organisation is part of the code.

### Reservations and RepeatedRecords
`services/reservations/usecases/service.go`, `adapters/postgres/repo.go`,
`adapters/events/webhook_publisher.go`, `migrations/reservations/0001_init.up.sql`.

- `rows` is the table (ids are positions), `seenKeys` the map in memory,
  `job[w]` the service call goroutine `w` runs, `notified` the webhooks sent
  to the PMS, each with whether it was heard.
- `StartPersist` … `CheckKey` … `SaveLookup` … `SaveUpdates` / `SaveInserts` /
  `SaveFails` … `MarkSeen` … `Publish` is `persist`, statement by statement;
  `StartCancel`, `CancelRead`, the same save, `CancelReread` is
  `CancelReservation`, which goes through the insert path too.
- `InsertRefused` is the primary key and the partial unique index on
  (organisation, connection, external id), which does not bind NULLs.
- `DbMayFail` lets every statement fail, lets a committed write be reported as
  an error, and lets the webhook fail. Its error is discarded: a booking whose
  webhook failed is never announced again, so `DuplicateMeansAnnounced` speaks of
  webhooks sent and `NotificationsBacked` of webhooks heard.
- `Restart` empties `seenKeys` and kills all calls. It also stands for the Go
  runtime's fatal "concurrent map writes", which the unguarded map allows.
- `RepeatedRecords` adds a history variable, `excused`: the keys under which two
  calls overlapped between the check and the mark, an INSERT was committed and
  answered with an error, or a restart forgot a mark made or due. `RepSpec` is
  `ResSpec` with it.
- Left out: guests, dates and amounts, which decide no branch of `persist`. What a
  cancellation overwrites in them (it rewrites the whole row) is therefore not seen.

### DirectBooking and BookingPromise
`services/storefront/usecases/service.go` (`createBooking`,
`persistReservation`, `recordDirectReservation`, `cancelBooking`,
`requireBookingEngine`),
`IdempotencyStore` in `adapters/redis/holds.go`, and the settings update of
`services/bookingengine`.

- Extends `Reservations`: a handler's step that writes a stay *is* a
  `StartPersist` of the store, and the store's steps interleave with everything.
- `req[w]` is the handler's progress, `idem[s]` the Redis record of a scope
  (property and key), `pms` what the PMS booked, `client[r]` what the caller
  knows. The client of a request repeats it until it is answered or refused.
- `PmsDedupes` says whether the PMS honours the forwarded key. It is outside the
  repository, so both cases are checked, each with the claims that survive it.
- `ArriveCancel` to `RowReleased` is `cancelBooking`: the PMS cancels, then the
  row the client named is released. Success is answered whatever became of the
  row, and for a direct row the store always refuses (see `res_cancel`).
- Each kind of failure in `FaultKinds` (Redis read, PMS, Redis write, lost
  answer, expiry of the record, failed cancellation) draws on the budget
  `MaxFaults`.
- `BookingPromise` is the abstract specification: a scope is booked at most
  once, then told. `Promise == INSTANCE BookingPromise WITH …` maps the PMS's
  bookings and the answers onto it; `KeepsPromise` is the refinement.

### OtaFetch
`services/integration/usecases/service.go` (`fetchChannelReservations`) with
`FetchReservations`, pause and resume of `services/channel`.

- Extends `Reservations` in the same way. `ota` is what each OTA holds, `active`
  the channels' status, `fetch[w]` a fetch: the channels of its snapshot still
  to pull, the bookings still to ingest. `NumbersOf` gives each channel its
  confirmation numbers.
- Guests book and cancel at the channels at any moment; operators pause and
  resume; a channel's pull may fail; the process may restart.
- The key of an ingest is the request's key, ":" and the confirmation number:
  it names neither the channel nor the fetch when the request has no key.
- `alone` (no other fetch overlapped it) and `fresh` (none sent its key before)
  are history.

### SoftHolds
`services/storefront/usecases/service.go` (`getQuote`, `searchAvailability`,
`searchFlexibleAvailability`, `heldRooms`) and `HoldStore` in
`adapters/redis/holds.go`.

- `hold[t]` is the Redis key of a token, `index` the property's set, `req[w]`
  a request. SMEMBERS, each GET, SREM, the PMS call and the MULTI of `Place` are
  separate steps; `ExpireHold` happens by itself. `Pruned` may fail (ignored).
- A search carries the stays of its window (`Windows`) and reads the list of
  holds anew for each; an exact search is a window of one.
- `Blocks` is the test of a quote, which exempts the guest's own token and the
  very same stay; `Hides` is the test of a search, which exempts nothing.
- A guest keeps the token of its last answered quote and sends it with the next.
  `unseen`, `since`, `by` and `strayed` are history for the properties.
- Left out: offers (a way to fill in a quote's stay), `HoldStore.Release` (no
  caller), and quoted rooms that differ from those asked for.

### Inventory
`services/inventory/usecases/service.go`, its Postgres and Redis adapters, and
the PMS writer in `services/pms/adapters/inventory/writer.go`.

- `inventory[d]` is the row of a day: which batch set its availability, which
  one its restrictions, and its version. A batch is known by what it contains;
  its entries name days, in order and perhaps several times (`EntriesOf`), as a
  client's may and as the ingest's do when two offers are of one room type. Each
  entry is an upsert, so that such a day rises by more than one version at a time.
- `Receive` / `Ingest`, `CheckKey`, `Commit` (one transaction over all entries of
  the batch, through `UpsertInventoryDay`), `MarkKey` are the round trips of
  `BulkUpsertInventory`; `Rollback`, a failing look-up (the
  call ends), a failing mark (dropped), `HangUp` and `ExpireKey` are what may go
  wrong between them.
- A PMS ingest draws a key of its own for each call, which therefore never
  matches and is left out, and carries no restrictions (`LimitsOf`).
- `commits` and `excused` are history: how often a batch was committed, and
  whether its calls overlapped, its mark was lost or its key expired.

### Channels
`connection_repo.go`, `channel_repo.go` and their migrations in
`services/channel`, its service, and the actions of `services/integration`.

- `connections` and `channels` are the tables; statements are operators on them
  that include their UNIQUE constraints and the cascade of a delete.
- `admin[a]` is one request: `CreateConnection` with its optional link,
  `FindLink` and `ConnectChannel` (the check and the insert), `SetChannelState`
  (pause, resume, disconnect), `UpdateConnection` in its two statements
  (`UpdateStatus`, `UpdateName`), `DeleteConnection`. `AdminFails` stops one.

### Distribution
`pushAvailability` and `pushRates` of `services/integration`, `dispatch` of
`services/channel`, `SaveBatch` of `services/pricing`.

- Extends `Inventory` and `Channels`: their writers and admins run between any
  two steps of a push (`WriterStep`, `AdminsStep`).
- `push[p]` reads the days or saves the rates, then `ListChannels`, then for each
  active channel `OpenJob`, `CallAdapter`, `CloseJob`. `jobs` is the table of
  sync jobs; a deleted connection takes its jobs along.
- An OTA takes a call, refuses it, or its answer is lost: then the call may have
  arrived, or is on the `wire` and may yet arrive (`ArriveLate`).
- `ratePoint` is the rate point of the plan BAR, which all room types share. A
  rates push whose entries are all malformed (`RoomsOf[p] = {}`) saves nothing
  and still sends an empty update to every channel.
- What a channel is told (`InventoryToChannelUpdates`) is a day without its
  version; closed-to-arrival and closed-to-departure are dropped by the code and
  left out of the model.
- `past`, `saved`, `taken`, `alone` and `opened` are history.

### CatalogSync
`SyncCatalog` of `services/pms/usecases/service.go` with its three repositories,
`ensureDefaultProperty` of `services/integration`, and the operator's choice.

- `pms` is what the PMS lists and may change; `properties`, `roomTypes`, `rooms`
  and `default` are the tables; `sync[s]` is the loop of a request: one hotel,
  its types, the rooms of each, then the rows to deactivate, as they were read.
- The upsert of a property is its two statements, `GetPropertyByExternal` and
  `SyncProperty`: two first syncs over two connections may both find no row and
  both insert one, which the unique index per connection allows.
- Every call may fail, and the model does what the code does then: leave the
  hotel, skip the type, end the sync, or drop the error.
- `ReadDefault` and `ElectDefault` are the two transactions of the election,
  which runs whatever became of the sync; `ChooseDefault` is the dashboard's.

### RoleBinding, Membership and Access
`platform/auth`: `policy.go`, `casbin_adapter.go`, `interceptor.go`,
`identity.go`, `webhooks.go`, `handlers.go`, `middleware.go`.

- `RoleBinding` is `RoleBinder.Ensure`, call by call of the enforcer, for the
  requests of one user in one organisation: the permissions of the role, then
  each other role unbound and forgotten (in the order of a Go map), then the
  role bound and remembered; `Enforce` is the interceptor. `Restart` loses the
  memo and keeps the rules.
- `Membership` is the mirror: webhooks delivered in any order and repeatedly,
  refused while the organisation or the user is unknown, and logins that fill in
  missing rows. An `Ensure` never reads it.
- `Access` joins them: WorkOS makes tokens with the role of the moment, tokens
  outlive role changes, and a request is let in only for a mirrored organisation.
  `GrantedRole`: in the configured default organisation every request is an
  administrator's. The run is of another organisation (`DefaultOrganization` is
  FALSE), where roles differ at all; the proofs cover both.
- `lone`, `tangled`, `newest` and `reordered` are history.
- Left out: rules about the booking engine (they grant nothing beyond the
  rules about all procedures), the other users and organisations.

## What the runs check

All bounds are constants of the .cfg. `CHECK_DEADLOCK FALSE` is set where a
behaviour really ends: every checkout answered, every request settled, or the
bound on requests spent.

| Run (distinct states) | Instance | Shows |
|---|---|---|
| `promo_saga` (82 698) | 1 code, 3 checkouts, 4 definitions (limit 1, limit 2 with an end, disabled, unlimited with a start), 2 instants, 2 inserts of the string, 2 release calls each | `UsesWithinMax`, `BackstopNeverFires`, `CounterBacked`, `CounterExact` |
| `res_store` (1 420 452) | 2 goroutines; one channel booking under two keys (confirmed; cancelled, keyless) and one direct booking; 4 rows; 1 restart; failures | `UniqueExternal`, `DuplicateMeansRecorded`, `NotificationsBacked`, `DuplicateMeansAnnounced`, `SecondRowExplained` |
| `res_cancel` | 1 goroutine, 1 direct booking, no failures | violation of `CancelFailsOnlyForMissingRow` |
| `direct_retry` (265 854) | 2 workers, one request of 2 stays, a PMS that honours keys, 2 faults of any kind, database failures, 1 restart | `KeepsPromise`, `RecordedOrPending`, `EveryRequestSettles` |
| `direct_sequential` (135 360) | 1 worker, 5 requests (a key reused with another payload, a booking of two stays, a mirrored booking, a cancellation), a PMS that ignores keys, 2 lost answers or failed cancellations | `AnswerMatchesPayload`, `OneBookingPerScope`, `NoDuplicateRow`, `EveryRequestSettles` |
| `fetch_concurrent` (1 573 614) | 2 workers, 2 channels with a booking each, 2 fetches with and without a key, failing pulls, 1 restart | `StoreFollowsChannels`, `FetchStores`, `LoneFetchBringsUpToDate`, `CancelledStays` |
| `holds_rivals` (1 870 454) | 2 guests, 2 workers, 3 tokens, 4 stays (overlapping, adjacent, the same rooms in another order), 3 windows, one of two stays, 3 requests | `TypeOK`, `RivalsOnlyIfConcurrent`, `OwnHoldNeverRefuses`, `SearchHidesHolds` |
| `inventory_batches` (16 707) | 2 days, 4 calls, 4 batches (two with a key, one without and one of the PMS, which name a day twice), failures, expiry | `KeyedBatchOnce`, `DuplicateWasWritten`, `VersionCountsCommits` |
| `channel_admins` (209 463) | 3 requests of any kind, 2 connections, 3 channel ids, 2 names, 2 properties; one connection and one link to begin with | `OneChannelPerConnection`, `NamesUnique` |
| `push_fanout` (5 354 650) | 2 pushes (availability and rates, of one room type), 2 channels, 2 days, 1 batch, 1 admin who links, pauses or deletes, 1 late call at a time | `TypeOK`, `RatesRecordedFirst`, `OtaShowsOneMoment`, `ReachesOnlyActive`, `JobsTellTheTruth`, `LonePushBringsUpToDate` |
| `catalog_sync` (7 320 230) | 2 syncs over 2 connections, 2 hotels, 2 types, 2 rooms, 3 listings (a room that moves, a type and a hotel that go), 1 change of the PMS or choice of an operator | `LoneSyncMirrors`, `DefaultStands` |
| `access` (1 760 008) | 2 requests, 2 roles and a slug that is none, 2 changes in WorkOS, 1 login, restarts, failures | `OneRoleBound`, `AnswersMatchRole`, `MirrorFollows` |

The type invariants that no run lists were checked with their modules and are
proved (below). Every invariant and action property of the passing runs is proved
too, under what the ASSUME of its theorem says; the liveness property is only
checked.

Why the bounds are enough to be interesting:

- *Promo codes.* Three checkouts are one more than the largest limit: one can be
  refused, one can release twice, and a third can take the freed use. Two
  inserts let a redemption outlive its row. Two instants put the clock on either
  side of a validity bound.
- *Reservations.* Two goroutines interleave every pair of statements; the unique
  index, the UPDATE path and a stale cancellation need no third. Four rows leave
  room for the second row of a direct booking in each of the excused ways; the
  restart comes between any two statements, the mark and the webhook included.
- *Direct bookings.* Two workers are two overlapping attempts; two faults allow
  a lost PMS answer *and* a failed cache, or an expiry after a lost answer; a
  restart between them empties the key set. Two stays make partial writes.
- *OTA fetch.* Two fetches suffice for "pulled first, ingested last", which does
  undo a cancellation here, and for a reused key; two channels for a failure that
  must not stop the other. The database does not fail in this run: a booking that
  cannot be stored is only logged and counted nowhere, so `FetchStores` would fail
  (listed as a hazard).
- *Soft holds.* Three requests are two rivals and a search, or a quote, its
  re-quote and a pruner; the fourth stay begins when the first one ends; the
  window of two stays reads the holds twice, with a quote in between.
- *Inventory.* Four calls are a batch, its overlapping retry, its late retry and
  a batch in between; two days tell a whole batch from a part, a day named twice
  its entries from its commits.
- *Channels.* Three requests are two links at once and a delete; two names let a
  rename meet a create.
- *Pushes.* Two channels let one fail and the other be dispatched to after an
  admin changed it; two pushes cross each other and a late call.
- *Catalogue.* Two syncs overlap, over one connection or two; three listings are
  a move, a removal and an addition; one edit puts a change, or a choice, between
  any two steps.
- *Access.* Two changes are a promotion and its revocation, or a removal and a
  return, in either order of arrival; two requests carry two roles at once.

Symmetry: checkouts in `promo_saga`; guests, workers and tokens in
`holds_rivals`; workers, and the two channels together with their numbers, in
`fetch_concurrent`; calls, admins and requests in `inventory_batches`,
`channel_admins` and `access`. These are model values the specifications and
properties treat alike, and none of these runs checks liveness.

## Fairness

Only `FairDirectSpec` has fairness, for `EveryRequestSettles`:

- `WF(HandlerStep(w))`: a handler that can take a step takes one. Go schedules
  runnable goroutines, and every outside call ends in an answer or an error.
  Which of the two is not assumed: `HandlerStep` includes failures.
- `WF(Arrive(r))`: a client without an answer asks again. This is an assumption
  on the booking engine; the idempotency key exists for such clients.

Nothing is assumed of operators, expiry or restarts. Faults and restarts are
bounded: with faults for ever, no answer could ever arrive. The other models
state safety only and have no fairness: a push, a sync or a fetch is abandoned
when its client hangs up, and nothing in the code takes it up again.

## What is proved

Proofs hold for any number of codes, checkouts, workers, keys, rows, guests,
days, roles, and any bounds. Their assumptions are the named ASSUMEs of the
modules: bounds are natural numbers, `Null`/`None`/`NoId` is none of the values
it stands beside, checkouts are finitely many, definitions and calls are well
formed, tables an instance starts with meet their constraints. Where a theorem
needs more of its constants, its ASSUME says so.

`PromoCodesProofs`
- `TypeCorrect`: `TypeOK` is inductive.
- `UsesStayWithinMax`, `BackstopSilent`, `CounterNeverOverstates` follow from
  `CounterInv`: types; every row satisfies the CHECK constraints; no call ends in
  a database error; a call that has not run its UPDATE is counted nowhere
  (`NotYetCounted`); and `CounterBacked`. The last is not inductive by itself: a
  redemption adds one to `uses`, and it adds one to the outstanding redemptions
  only because that checkout was not among them. A release takes one use and at
  most one element away (`RemoveOne`). `MatchPassesChecks` is why the backstop is
  silent: the WHERE clause implies the CHECKs of the row with one use more.
- `ExactWhileReleasedOnce`, `HoldersWithinMax` follow from `SingleReleaseInv`:
  `CounterInv`, and for a code whose redemptions were released once at most and
  whose string was inserted once, `uses` *equals* the outstanding redemptions
  and a checkout that can still release is outstanding. `ReleasedOnceBefore`
  shows that the condition only ever becomes false, so the equality may be
  assumed of the state before a step.

`ReservationsProofs`
- `StoreInv` is inductive: types; `UniqueExternal`; a call in its write phase
  that found a row found one with its own connection and number; a call past its
  save has its booking stored; every notified booking is stored and was
  ingested; a remembered key belongs to a stored booking if keys name one
  booking. `UniqueExternal` rests on rows that never change their connection or
  number and on the INSERT that `InsertRefused` refuses; the SELECT before it is
  of no use to it, which is the point: it is stale when it is used.
- `OneRowPerConfirmation` and `WebhooksTrue` follow without conditions;
  `DuplicatesTrue` under `KeysNameOneBooking`, a condition on callers.
- `DuplicatesAnnounced` (`DuplicateMeansAnnounced`) adds that a remembered key of
  an ingest is one of a booking announced or about to be (keys also name one
  operation). It survives a restart because the key is lost with the call.
- `SecondRowsExplained` (`SecondRowExplained`, of `RepSpec`) from `RepInv`, about
  a key that is not excused: at most one row is its booking's, one call at most is
  between the check and the mark, and once the row is there, its key is
  remembered or that call is about to mark it (`OneSavesService`, `RepRestart`).

`DirectBookingProofs`, over the store's proofs
- `DirectRunsStore`, a lemma: every step is one of the store or leaves it alone,
  so the theorems about `ResSpec` hold of direct bookings.
- `DirectInv` is inductive: a handler past the PMS, a cached record and an
  answer all name a booking made under their scope (and for their payload, with
  a PMS that ignores keys). Bookings are never forgotten (`PmsGrow`), which lets
  it survive every other step.
- `DirectKeepsPromise` (the refinement of `BookingPromise`) under `PmsDedupes`;
  `AnswersMatchPayload` under its negation; `DirectTypeCorrect` for both.
- `CallsMatch`, with `Follows` of `ReservationsProofs`, ties the two state
  machines: which call of the store a handler waits for, and what it carries.
- `AnswersRecorded` (`RecordedOrPending`) from `RecordedInv`: no key is relied upon
  (`Relied`: remembered, or carried by a call, a handler, a cached record or an
  answer as written) without a row inserted under it. Which key a row was inserted
  under is nowhere in the state, so the invariant says that such a function of the
  rows exists, and each step that inserts extends it. Assumes a PMS that honours
  keys, fingerprints that tell payloads apart (`PayloadsApart`), and one booking
  per key (`KeysApart`: `persist` does not know the property of a key, see the
  notes). Handlers, faults and restarts are unlimited.
- `CreatedStaysOnce` from `InsertedOnce`: no two handlers record the same booking,
  and none has rows of stays its handler has yet to write (`Past`), given that
  mirrored bookings are not those the program makes (`MirrorsApart`).
- `NoDuplicates` (`NoDuplicateRow`) adds `MirroredOnce`: a mirrored stay has one
  row, and its key is taken. This needs one key per mirrored booking
  (`MirrorsKeyed`) and `Undisturbed`: one request at a time, no restart, no
  failure of the database; without any of the three the key can be lost.
- `OneBookingUnderKey` (`OneBookingPerScope`) from `OnceInv`, for requests one at
  a time and no answer lost (`OneByOne`, `NothingLost`): a booking is cached or
  its handler is on the way to the cache. A PMS that ignores keys offers no more.
- The hypotheses hold of the runs that check the properties: of `direct_retry`
  for `AnswersRecorded`, of `direct_sequential` for the others.

`OtaFetchProofs`, over the store's proofs
- `FetchRunsStore`, the same lemma; `FetchTypeCorrect`.
- `FetchFollows` (`StoreFollowsChannels`) from `FollowInv`: what a fetch carries,
  a call of the store holds and a row says was told by its channel, and channels
  do not take back what they told: a booking stays, a cancellation stays.
- `FetchesStore` (`FetchStores`) from `StoresInv`, if keys name one booking and
  the database does not fail: what was seen is queued, being ingested, or stored.
- `LoneFetchUpdates` (`LoneFetchBringsUpToDate`) from `LoneInv`, under the same
  conditions: the keys remembered are those of requests so far (`KeysUsed`), so a
  lone fetch with a new key is not taken for a duplicate, and each booking it was
  given can still be written or is shown (`CleanFetch`, `Shows`).
- `CancellationsStay` (`CancelledStays`), without conditions on keys or failures:
  a fetch that overlaps no other is given each booking once (`SteadyPull`), and
  what it was given as confirmed is not stored as cancelled, since nobody else
  writes and channels take no cancellation back (`FetchWrites`).

`SoftHoldsProofs`
- `HoldsInv` is inductive: types; the shape of a request at each phase; a hold
  that was listed when the list was read is still to be read or was read as it
  is (`HoldsRead`), so it does not compete with a quote past its check
  (`Cleared`) nor with an offer (`OffersStand`); and `RivalsOnlyIfConcurrent`.
  The history `since` and `unseen` says which holds came after the reading.
  Gives `HoldsTypeCorrect`, `RivalsConcurrent` and `SearchesHide`.
- `OwnInv`, inductive together with it, follows the tokens of one guest through
  request, placement and answer, and gives `OwnHoldHarmless`.

`DistributionProofs`, over `Inventory`, `Channels` and `Distribution`
- `InventoryInv` with `Guarded`: of a keyed batch that nothing excused, either
  nothing is committed and at most one call is about to, or it is committed, no
  call is about to, and the key is marked or about to be. `KeysProtectBatches`,
  `DuplicatesWereWritten`, `InventoryTypeCorrect`.
- `VersionsCountCommits` (`VersionCountsCommits`): what was written to a day, each
  entry of each commit, is a finite set, and a step that commits adds to it the
  entries that name the day, as many as the version rises by (`OneMoreCommit`).
- `ChannelsInv`: types, ids drawn once, both properties, and what a request that
  links knows. `ChannelsLinkOnce`, `NamesStayUnique`, `ChannelsTypeCorrect`.
  The constraint does the work, not the check before it, which is stale.
- `DistributesInventory`, `DistributesChannels`: every step of the composition
  is a step of each part or leaves it alone (`PartsStep`), so what is proved of
  the parts holds beside pushes.
- `DistInv` is inductive: the parts' invariants, types, and one group of facts
  for each promise, each with a lemma that a step keeps it. `RatesSound`: a push
  that may still send rates has committed them, a call on the wire included.
  `OpenedSound`: what is on the list, or under way, was active during the push.
  `MomentsSound`: every day of every state of the inventory has a row, so a push
  replaces all that an OTA shows. `JobsSound`: a channel id never changes its
  connection, in the table, on a list or in a job (`Held`), and a connection
  that is gone stays gone (`Accounted`); without it, closing one job could close
  another's. `LoneSound`: while nothing overlaps a push, an active channel is
  still to be served, or shows the inventory, or the push has counted a failure.
  The theorems: `RatesAreRecordedFirst`, `OtasShowOneMoment`,
  `PushesReachActive`, `JobsAreTruthful`, `LonePushSynchronises`,
  `DistributionTypeCorrect`.

`AccessProofs`
- `RoleInv` relates every request to the rules: what a binding has unbound and
  forgotten stays so (`Clears`), bindings do not overlap with those of another
  role unless `tangled`, nor come across a lone request (`SameRole`), a
  remembered role is bound, or being forgotten, and has all its permissions
  (`MemoSound`). `OneRole` and `RoleAnswers` follow. Failures stop a binding
  half-way, and a restart all of them: the invariant is what survives both.
- `MemInv`: an event that is not pending was stored, or a newer one was, and the
  row is what the newest said unless `reordered`. `MirrorIsWorkos` follows.

`CatalogSyncProofs`
- `KeysSound` and `SyncsSound`: the keys of each table stay unique, and a request
  at work knows its connection, its property and its type. With the types they
  are inductive whatever fails or overlaps (`CatalogTypeCorrect`); every step of
  a request goes on as one field-by-field lemma says (`...Facts`).
- `DefaultsStand` follows from them: a default is only replaced by a property
  that exists, and an election begins only where none was seen.
- `CleanSound` is what `LoneSyncMirrors` needs to be inductive. A clean sync is
  the only one at work. What it has seen is active, what it has not seen is
  listed as gone once the tables were read (`TypesSound`, `RoomsSound`), and a
  hotel it is done with is `Mirrored`, which writing another hotel's rows leaves
  alone (`MirroredFrame`, by the uniqueness of keys). There is one lemma for each
  step of the loop, and `LoneSyncsMirror` is the result.

Only model-checked: `EveryRequestSettles`, as liveness under fairness is out of
this prover's reach. `CancelFailsOnlyForMissingRow` is violated, so there is
nothing to prove.

## Where code and words disagree

Cancelling a direct booking always fails in the store: `UpdateStatus` goes
through `Save`, which updates only a row found by (channel connection, external
id), and so inserts a direct booking a second time under its primary key. The run
`res_cancel` shows it, with the lines in `"findings"`.

## Noted while modelling

Seen in the code while the models were written, described here and excluded by a
premise of a property or left out; no run shows them.

- *Promo codes.* Releasing is keyed by the code alone: a repeated release frees
  another guest's use, although "a double release cannot manufacture capacity"
  (`promo_repo.go:270`). `CounterExact` holds until one is released twice. A
  refusal whose second read finds the code valid is reported as exhausted.
- *Direct bookings.* Keys are scoped by property in the storefront and not at all
  in the reservation service: two properties using one key get one row, and the
  second booking is believed recorded (`storefront/usecases/service.go:1226`). A
  mirrored booking repeated after a restart is stored twice, although "a repeat
  is a no-op" (`service.go:1291`): the key set is in memory.
- *OTA fetch.* Without `idempotency_key`, which `docs/PMS_OUTBOUND_INTEGRATION.md:123`
  lists as optional, the key of an ingest is ":" and the number: every later
  change of a booking seen since the process started is dropped, and two channels
  that number alike share keys. `IngestReservation` returns an id no row has when
  it updates. Every save of a known booking adds a guest row no reservation uses.
- *Soft holds.* Pruning the index is not atomic with the read that found a token
  stale: a hold placed in between is live and in no list. The properties speak of
  listed holds. The comment on `Hold` (`services/storefront/domain/models.go:21`)
  has create_booking consume the hold, and it does not.
- *Channels.* A connection updated without a secret reference never has one
  stored although the answer says it was (`services/channel/usecases/service.go:104`);
  secrets kept in memory are lost at a restart.
- *Pushes.* All room types of an organisation share the plan BAR, whose points are
  keyed by plan and day: the rates of one overwrite those of another
  (`services/pricing/adapters/postgres/repository.go:78`). A job whose client
  hangs up stays running for ever. A channel paused after the list was read is
  still written to.
- *Inventory.* A PMS ingest sends no minimum or maximum stay and no closed days,
  and so erases those a client had set.
- *Catalogue.* A property that the PMS drops is never deactivated. First syncs
  over two connections can insert one hotel twice, and a sync moves a property to
  its own connection. A connection's status "error" is not reset by a later good
  sync, its last sync is set although hotels failed, and a failing sync overwrites
  "disabled": none of the three decides anything in the program.
- *Roles.* `policy.go:124` calls the binding exclusive; when bindings of two roles
  of one user overlap, each removes the other role before it adds its own, and
  both stay bound and remembered (`tangled`) until one role is bound alone.
  Membership events carry no order: an update delivered after the deletion it
  preceded gives the membership back (`reordered`).
- *Audit.* Rows are written after the mutation and not "in the same transaction
  as the write" (`migrations/audit/0001_init.up.sql:3`).

## What is not modelled, and why

- **Stubs**: the mapping service (ports without persistence, no caller), the sync
  worker (it waits for a signal), the cloudbeds, mews and csv adapters.
- **No state, or one statement nothing depends on**: the bodies and signatures of
  PMS and OTA adapters (their outcomes are in every model that calls them), storefront
  reads, base rates and channel rates, audit (nothing reads it to decide), API
  keys and PMS tokens (look-ups by hash and signature checks).
- **I/O and wiring**: HTTP, middleware beyond the role binding, configuration,
  observability, login pages, secret resolvers, migration runner, dashboard,
  dummy OTA.
- **Generated code**: `gen/go` is about 13 000 of the 31 800 implementation lines
  and has no behaviour of its own.
- **Arithmetic**: amounts pass through floats and are truncated to minor units;
  TLC has no IEEE 754. Listed as a hazard without a property.
- **Row-level security**: every model is of one organisation. It matters only
  where state in memory crosses it: `seenKeys`, see the notes.
- **Partly modelled**, with what is missing in `PROJECT.json`: soft holds (offers),
  the catalogue (auto-registration of a PMS, connection status, rooms without an
  id), rates.

## Plan

Done: `Reservations` → `PromoCodes` → `DirectBooking` over `Reservations` with
`BookingPromise` → `OtaFetch` over `Reservations` → `SoftHolds` → `Inventory` and
`Channels` → `Distribution` over both → `CatalogSync` → `RoleBinding` and
`Membership` → `Access` over both; proofs about every one of them and of every
safety property the runs check. The set of runs stays at a dozen: a run that shows
a divergence gave way to each component that arrived, and what it showed is noted
above.

Next, in this order:

1. Offers in `SoftHolds`: a stored snapshot of a stay and a rate that a quote
   takes up, with its own expiry.
2. `MachineAuth`: issue, revoke and check of integration keys beside PMS tokens,
   and the organisation made on the first use of a token.
3. `CatalogSync`: auto-registration of a PMS and the status of its connection.
