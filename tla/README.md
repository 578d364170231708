# Crosswire: specifications and proofs

Crosswire is a team gateway to LLM providers.  A Go gateway answers
`/v1/chat/completions` by trying a user's routes; a Next.js control plane manages
users, provider connections and their keys, models, routing and probes; both keep
all their state in one PostgreSQL database, and part of the logic is SQL there.
These TLA+ modules model that logic, the live parts of the console, and the ways
their requests, transactions and failures interleave.

## The system

| Component | State | Operations | What makes it hard |
|---|---|---|---|
| Quota reservation (`db/migrations/0011`) | `connection_quotas`, one row per connection and user: counts of a minute and a UTC day | `reserve_connection_requests`, called by the gateway per route and by probes per capability | concurrent callers, row locks, windows that end while a caller waits, limits edited meanwhile |
| Provider keys (`0013`, `/api/providers/[id]/keys…`) | keys with enabled flag and `last_used_at`; mode and selection on the connection | `select_provider_key`; add, edit, select, test a key | rotation under concurrency, settings changed between read and use, results of tests that arrive late |
| Gateway handler (`httpserver/server.go`, `provider/proxy.go`) | the handler's variables; `request_logs`, `usage_events` | authenticate, load routes, reserve, choose a key, forward, copy, log; list the models | stale route snapshot, failures at every call, clients that leave, providers that do not answer |
| Gateway start (`cmd/gateway`, `internal/db`) | `schema_migrations` | `RunMigrations`, then listen | several gateways and releases at once, deaths between and inside migrations |
| Accounts (`lib/auth*`, `/api/auth/*`, `/api/users`, `/api/keys`) | users, sessions, API keys | bootstrap, login, change password, log out, create users and keys, `currentUser`, the gateway's middleware | a login racing a password change; checks of two statements |
| Connections (`/api/connections…`, `lib/providers.ts`) | base URL, visibility, enabled flag, limits, test result | create, edit, delete, test | URL and key saved by two statements, results of tests that arrive late |
| Models (`/api/providers/[id]/models…`, `lib/provider-models.ts`) | imported models with overrides | import, add, edit | repeated and concurrent imports |
| Routing (`lib/routing-store.ts`, `/api/routing-configs…`) | configurations with routes, one default per user | save, make default, delete; the gateway's `LoadRoutes` and `LoadModels` | concurrent defaults, lock order |
| Probes (`/api/connections/[id]/probe`) | `probe_runs`, `probe_results` | one reservation, one key lookup and one call per capability, then one transaction | quota that runs out half way |
| Activity stream and graph (`/api/route-graph…`, `components/route-graph.tsx`) | the stream's cursor; the page's snapshot and highlights | poll every second; reload on events and every 15 s | timestamps cut to milliseconds, overlapping polls, answers out of order |
| API keys page (`components/api-access.tsx`) | the secret shown once, the list, one call in flight | create, test, revoke a key; test the gateway; health | answers lost after the server did its part, other pages revoking the same keys |
| Pages of providers (`components/provider-models.tsx`, `connection-form.tsx`, `connection-card.tsx`, `provider-keys.tsx`) | the page's copy of the rows, forms being edited, the call in flight | preview and import models, edit a model or a provider, toggle, test and probe a provider, test, switch, replace and select keys | saves from old copies, data read anew in the middle of an edit, results shown for later ones |

The components meet in the database: the gateway handler calls the quota and key
functions as single statements, the control plane edits the rows they lock, the
routing tables refer to connections that may be closed at any time, and the pages
of the console hold copies of rows that others change.

PostgreSQL is modelled as it is used here: READ COMMITTED; a statement outside
a transaction is atomic; each statement of a transaction and of a plpgsql function
sees what was committed before it began; row locks (`FOR UPDATE`, `FOR SHARE`, and
those an `UPDATE`, an `INSERT` or a foreign key takes) are modelled where a property
rests on them, as guards over who is inside a transaction.

## Modules

| Module | Models | Uses |
|---|---|---|
| `QuotaRules` | constant-level: windows, who may use a connection, the verdict of a reservation | |
| `AtomicQuota` | what a reservation promises: one atomic step on a ledger of windows | `QuotaRules` |
| `Quota` | `reserve_connection_requests` in its steps: share the connection, create or lock the account's row, read the clock, judge, write | `QuotaRules`; implements `AtomicQuota` |
| `KeyRotation` | `select_provider_key` in its steps, and the transactions that change keys | |
| `ConnectionWindow` | a user's connections and what is left of their windows, as callers of the reservation see them | |
| `Gateway` | the chat handler, from authentication to the request log | `ConnectionWindow` |
| `Accounts` | sign-in, password change, sessions, API keys, bootstrap, and the checks made on every request | |
| `Probe` | a capability probe, from the access check to the stored run | `ConnectionWindow` |
| `AtomicRouting` | what routing configurations promise: each save, deletion and change of the default is one step | |
| `Routing` | `saveRouting` and `changeDefaultOrDelete` in their statements: lock the user, share the connections, clear the default, write | implements `AtomicRouting` |
| `Catalog` | a provider's models: imports with their transactions, additions and edits | |
| `Migrations` | `RunMigrations` in its statements, for gateways that start, die and start again | |
| `Serving` | what a request and `GET /v1/models` make of a route while its connection's URL, key and settings are edited statement by statement | |
| `KeyTests` | tests of keys and of a connection whose results are written after the provider has answered | |
| `Providers` | a provider while its owner manages it: requests, tests, the rotation of its keys, and probes as its four parts, with their properties | `Serving`, `KeyTests`, `KeyRotation`, `Probe` |
| `ActivityStream` | the polls of `/api/route-graph/events` and their cursor | |
| `RouteGraph` | the page's loads, events, scopes and highlights | |
| `ApiAccess` | the page of the API keys with the routes it calls | |
| `ModelImport` | the guided import: preview, choice, import | |
| `ModelForm` | the form of a model's settings | |
| `ProviderForm` | the form of a provider that exists | |
| `ConnectionCard` | a provider's card: toggle, test, probe | |
| `ProviderKeys` | the card of a provider's keys and the form of their selection | |
| `Console` | the eight modules above as the parts of a browser tab, with their fairness and properties | the eight |
| `QuotaProofs`, `GatewayProofs`, `AccountsProofs`, `RoutingProofs`, `CatalogProofs`, `MigrationsProofs`, `ProvidersProofs`, `ConsoleProofs` | theorems about the modules they are named for | these modules |
| `MCQuota`, `MCGateway`, `MCAccounts`, `MCRouting`, `MCCatalog`, `MCMigrations` | the small instances; `Providers` and `Console` are their own | |

State and actions carry the names of the code where they can.

* In `Quota` a caller's `phase` is the place in the function where it may have to
  wait; `provider`, `row` and `checked` are the function's variables of these names,
  and `minuteSpent`, `daySpent` are histories of what was granted.  Locks are not
  variables: `SharesConnection` and `HoldsRow` say who holds one.
* In `KeyRotation` the set `holding` is who is past the first `SELECT ... FOR UPDATE`;
  a control-plane transaction is one action that needs the connection's row to be free.
* In `Gateway` the handler's local variables are the record `req[p]`; the routes of a
  request are a function from priorities, so that the loop's order is the order of
  numbers, and `attempts` is a function on the priorities tried; `mappable` says whether
  a body that decodes as the handler's struct also decodes as a map, which `Forward`'s
  rewriting needs (`RejectBody`).  Whether a route's model is enabled is chosen when the
  routes are loaded (`Snapshot`), as nothing in the handler reads it again.
* In `Accounts` a request that runs a transaction is split where it may wait for the
  user's row (`LoginLock`, `ChangeLock`) and `currentUser` where another request may come
  between its two statements (`ReadSession`, `ReadUser`).
* In `Probe` the record `probe[p]` holds the handler's variables, and `late` counts what
  was sent since the connection was closed.
* In `Catalog` the record `tx[p]` is an import: the models still to be upserted are its
  `queue`, and those in `written` are the rows its transaction has locked and nobody else
  sees yet.
* In `Migrations` a gateway's `todo` is what its loop has not passed, and its `pc` the
  statement it is at.  `Runs` and the guard of `Record` are the two waits PostgreSQL
  imposes: on the names a body creates and on the primary key of `schema_migrations`.
  A death is a rollback (`Die`) or comes between a commit and its answer (`DieCommitted`).
* In `Serving` providers are named by places: a URL is a place, a secret is the place that
  issued it, so that "the key of this URL" is equality.  A PATCH of both is `EditUrl`, then
  `EditKey` of whichever key is selected by then, or `EditBreaks`.  `whole`, `alone` and
  `changed` are histories that say whose doing a state is.
* In `KeyTests` a result is named by the secret it was found with.
* In `ActivityStream` a row is named by the tick of its `created_at`, `TicksPerMs` ticks
  to a millisecond; a row may become visible after its moment.  In the other parts of the
  console a call is the record of what it asked, and ends done, refused or lost, where
  lost means that the server did its part and the page does not learn of it; what the page
  holds is separate from what the server has.
* A fetch that fails tells a page nothing of the server, which may do the call later all the
  same.  The cards keep such calls (`adrift` in `ConnectionCard`, `strays` in `ProviderKeys`)
  until `ServeLate`; two equal ones are one.  In the other parts the late call is one of what
  other pages do: `InsertElsewhere` and `RevokeElsewhere`, `SaveElsewhere`, `WriteElsewhere`.
* In `ProviderForm` the variable `hydrated` says how the page was reached.  React gives its
  inputs their default values: on a page that came whole from the server an input that was
  not edited follows a new default, while on one that the router mounted in the browser the
  input's value was set by React and stays, as that of a select box always does.

## Runs

| Run | Instance | Shows |
|---|---|---|
| `quota` | 2 callers of the owner of one connection; policies public with limits (1, 3) and (2, 2), private, disabled, deleted; minutes of four half seconds, days of two minutes, four minutes in all; fairness | rows count grants; grants stay within the limits in force; the function refines `AtomicQuota`; every Retry-After is exact; every call returns |
| `key_rotation` | 3 keys, 2 requests, 6 uses | rotation is even; keys are handed out under the settings in force |
| `gateway` | one request, two routes over an own and a foreign connection, one window place, two delays, replies 200, 401, 500; fairness | charges cover sends; fallback order; the status; the log; the usage; a request ends or waits for its provider or client, a cancelled one ends |
| `accounts` | two requests at a time of the first administrator and two users of either role, three sessions, three passwords, one key | sessions fit passwords; changes, keys and bootstraps are what their callers were told |
| `restricted_sessions` | the same | a finding: a restricted session slips through between the statements of `currentUser` |
| `probe` | one probe of up to three capabilities, two keys, a window of 2 | charges cover contacts; a closed connection gets one more contact at most; stored runs are whole |
| `limited_probes` | the same | a finding: a probe limited at a later capability has contacted the provider |
| `routing` | two users, two requests at a time, two configurations, one connection | no save collides with another; each acts as one atomic step |
| `catalog` | two models, two imports, one key; fairness | imports are all or nothing and keep what the owner set; each ends, even in a deadlock of two |
| `migrations` | three gateways, three files of which the first may run again, two faults, four deployments: one release, two releases, a changed file, an inserted file; fairness | a body is committed once and recorded when it is; no gateway works on another release's files; gateways whose files agree all come up |
| `providers` | two keys, two secrets, two tests; two places, two keys, two edits, one request at a time | a key's result was found with its secret; a key reaches the URL it was saved with; an alias is listed exactly when it is served |
| `console` | each of the eight parts by itself: four ticks of two to a millisecond, two polls of two rows; two loads, two scopes, one provider; two keys; two models; two numbers or boxes of each kind; two changes of a card's rows, late ones included; fairness | nothing visible is passed by the stream; the graph settles; a secret stays until dismissed; pages come back; what their forms send of what was not edited; they show what is stored |

`Providers` and `Console` compose parts of which none reads what another writes.  A part is
looked at while the others rest: which one is fixed by `part` in the initial state, and each
property is about the variables of its part.  The runs `key_rotation`, `probe`,
`limited_probes` and `providers` are of `Providers`; its constant `Parts` says which parts a
run looks at, and the constants of the others are as small as their assumptions admit.

Bounds.

* `Horizon` bounds the quota's clock, long enough for minutes and a day to end while a
  caller waits.  Two callers suffice for every conflict of locks because a row has one
  holder and conflicts are pairwise; both are the owner's, whose reservations are counted
  in one row.  Other accounts, callers and amounts are covered by the theorems.
* `MaxClock` bounds the uses of keys at two full rounds of three keys.
* The gateway's requests meet only in the quota's window, the connection's settings and
  the routes, all of which the environment changes at will (`OthersSpend`,
  `EditConnection`, `SaveRoutes`, `NewWindow`), so one request shows what the properties
  of a request can meet; the theorems hold for any number.
* `MaxFaults` bounds the deaths of gateways.  Two are enough for one gateway to die in its
  transaction and another after its commit; three gateways, for two to wait for a third.
* Two edits, two tests and two loads overlap in every order two can; more overlap
  pairwise.  `MaxVersion`, `MaxChoices`, `MaxTimers` and `MaxWrites` bound what other
  pages and the user do to a part, and the two of each let a change come both before and
  after an answer.  A call that is given up counts as a change when it is given up, so that
  one adrift can always be done.  A provider's form needs no such bound.
* `TicksPerMs` is at most `Limit`, that is, there are fewer rows to a millisecond than the
  50 a poll reads.

Deadlock is checked but in `migrations` and `console`, whose instances may stop: when the
faults, the clock or the writes are used up.

Fairness.

* `Quota!FairSpec`: a statement that can run is run, and waiters on a row are served in
  turn, which is strong fairness for taking the row.
* `Gateway!FairSpec`: a handler runs on while it waits for nobody, and the read of the body,
  `Forward` and `CopyResponse` return once the client has left.  Nothing is assumed of
  providers or clients: a body need never be complete, as the server reads it without a
  timeout (`main.go` 47, `server.go` 46), and a reply need never come or be taken.
* `Catalog!FairSpec`: a handler runs on; `discoverModels` gives the provider ten seconds;
  PostgreSQL serves the waiters on a row in turn and fails a statement of a deadlock.
* `Migrations!FairSpec`: a gateway runs on and is started again, as
  `restart: unless-stopped` in `infra/compose/docker-compose.yml` says.
* `Console!FairSpec`: the graph's timers run out, and a load that is asked for again and
  again is not refused each time (strong fairness of `Read` and `Answer`); a call of the
  other parts is answered or fails in the end.  Nothing is assumed of the user.

## Proofs

All proofs are checked by TLAPS for every value of the constants under the named
assumptions in the modules.  Each of the eight modules of theorems also proves that its
specification is type correct.

`QuotaProofs`.  `RowsCountGrants` is not inductive: that the row a caller writes is still
the account's row needs `RowHeld`, that its windows are not ahead of the caller's clock
needs `ClocksOrdered`, and that the limits judged by are in force needs `SettingsHeld`.
Their conjunction with `TypeOK` is `IInv`, proved action by action.  `GrantsWithinLimits`,
`RetryAfterIsExact` and the refinement of `AtomicQuota` follow from it.

`GatewayProofs`.  The inductive invariant `GInv` says of every request, for any number of
them: charges cover sends on connections of others, with one to spare while a reservation
is in hand (`Charged`); the priorities tried are the lowest ones and each but the last is
a failure, and what is passed on to the client is none (`InOrder`); the registers of the fallback loop sum up the attempts, and the
answer follows from the registers (`Explained`); the log's row has the answer's status
(`Logged`).  The last three need each other: what the loop ends with is known from its
registers only if they cover every route.
`UsageAlwaysCountsReplies` has an inductive invariant of its own beside `GInv`: usage is at
most the number of replies, and less only with an excuse (`Counted`); a reply that is being
copied is counted before it is an attempt.

`AccountsProofs`.  That sessions fit passwords needs, beside types, that a request which has
read a password under the row's lock still reads the same one when it writes; a bootstrap
succeeds once because the administrator's name is unique.

`RoutingProofs`.  `RInv` says that a user's row has one holder (`OneHolder`) and that what a
holder found out is still so: the configuration is the user's (`StillOwned`), the
connections may be used, because they are shared (`StillAccessible`), and the defaults of
the user are the ones that were cleared (`StillCleared`).  The last is what keeps the
unique index from ever refusing a save.  Two results follow: the refinement of
`AtomicRouting`, and `DefaultsOnlyEndOnRequest`, which is proved and which no run repeats.

`CatalogProofs`.  An import computes a row when it upserts it and shows it when it commits;
`ImportsKeepSettings` needs that the settings of the row are still the same then
(`SettingsKept`), which holds because the import alone holds the row (`HeldAlone`).
`ImportsAreWhole` needs `WholeInv`: until an import ends it has written or has still to write
every model that was wanted, and what it has written has the claim and the key it began with.
A failure or a deadlock ends it from any of these states and then saves nothing.

`MigrationsProofs`.  `AppliedOnceAndRecorded` is not inductive: two gateways may both be
past the check.  `MInv` adds that what a loop has passed is recorded with the gateway's own
checksum (`LoopsAreTrue`), and that a gateway about to commit is the only one with this
item and finds it unrecorded (`RowsAreOwn`), which is what the primary key gives.

`ProvidersProofs`.  No part reads what another writes, so that a behaviour of `Providers` is
one of each part (`PartsBehave`), and each part has an inductive invariant of its own.

* Service: `IInv` adds to `KeysReachTheirUrl` and `ListedIsServed` what makes a pair of URL
  and key one provider's: that an edit between its statements is alone, that the URL is still
  its own, and that what a request has read is so while nothing changed (`PairsMatch`,
  `SettingsMatch`).
* Rotation: `RotationIsEven` needs `LeastUsedIsLeastRecent` (of two enabled keys the one used
  less was used earlier) and `HolderIsCurrent` (the key chosen is still the first when it is
  marked).  `HolderIsAlwaysCurrent` states the latter by itself; `KeysInForce` follows from it.
* Results: a test that was not overtaken has the secret its key still has, and one of the
  connection is of the key that is still selected (`TestsMatch`).
* Probes: the keys contacted are those of the results (`ResultsAreOfContacts`), charges cover
  the results and one more while a reservation is in hand (`ChargesCover`), a reservation in
  hand excludes a late request so far (`LateAfterClosing`), and a run is stored when nothing
  is left to do (`RunsAreOfTheEnd`).  With the first, a cardinality argument over one more
  capability gives `ContactsAreCharged` for any number of capabilities.

`ConsoleProofs`.  The eight parts are proved one by one in the same way.

* The stream: `NothingPassed` needs that before a row of a poll's batch there is none that is
  neither in the batch nor sent (`BatchesLeaveNoGap`), which rests on a poll reading the first
  rows after its cursor, and on a row's millisecond not being after it.  That a batch has a
  last row comes from the order of the numbers being well founded.
* The graph: what is shown was so in the database at some time, and a highlighted provider has
  a timer that ends it (`HighlightsAreTimed`, which no run repeats).
* The page of the keys: `SecretIsOfAKey` follows the secret through the call that revokes its
  key: until that call is answered the secret may be `Doomed`.  `ShownSecretsWork` and
  `SecretsStay` follow from it.
* The import: what is on the list and chosen was listed with the key the page shows
  (`ListedWithTheKey`), and so was what a request in flight asks for.
* The forms: a field that was not edited shows what the page has read or, for the select boxes
  of a provider and for all of a form that the router mounted, what the page was opened with
  (`FormShowsTheModel`, `FormShowsThePage`,
  `BoxesShowTheView`).
* The cards: what is stored is shown, but for what others wrote, what the server did late, and
  what the call in flight has changed without being answered (`DataAreShown`,
  `KeysAreShown`); a call that was given up is one that was asked for (`CallsAreOfKeys`), and
  no probe shown is later than the one stored (`ProbesAreStored`).

Every safety invariant, every action property and both refinements that the passing runs check
are theorems.  What stays with TLC is liveness under fairness (`CallsReturn`, `EndsOrWaits`,
`CancelledEnds`, `ImportsEnd`, `GatewaysComeUp`, `GraphSettles`, `PagesComeBack`), which needs
ENABLED and is out of the prover's reach; and the two findings, which are counterexamples.

## Notes on what the code promises

The limits of a public connection bound reservations.  A request that is charged and
then finds no key, or whose transport fails before anything is sent, has spent its place;
and one that is sent in the next minute makes what a provider sees within a minute
differ from what was granted in it.  Nothing in the repository says otherwise and no
property here does.

A request that waits for a silent provider waits until its client leaves: the HTTP
client has no timeout.  Nor has the server: a client that stops in the middle of its body,
or does not take the reply, keeps its handler.  `EndsOrWaits` states exactly that, and
`CancelledEnds` that the client's leaving ends each of these waits.

`RotationIsEven` relies on `clock_timestamp()` advancing between two uses of one
connection's keys, which the lock and a commit separate.

A save of routes locks the user and then the connections; a change of the selected key
locks the connection and then, by the foreign key of `audit_events`, the user.  The two can
wait for each other; PostgreSQL ends one of them, which is answered 500 (`RollBack`).

An edit of a URL and a key that breaks between its two statements, or meets another, leaves
a pair of two providers; requests then send one provider's key to the other's URL until the
owner edits again.  `KeysReachTheirUrl` says that these, and a request that an edit
overtakes, are the only ways.  An edit of a connection does not forget its test result
either: `ResultsAreOfTheirSecrets` allows it as `moved`.

The stream's cursor is cut to milliseconds, so the last row is sent again with each poll
until a later millisecond has one.  A row that becomes visible after one of a later
millisecond is missed; the page then waits for its timer (`NothingPassed`,
`GraphSettles`).

A model's number that is known to be unknown becomes one that is not given when its form
is saved.  A provider's visibility is sent as it was when the page was opened, and so is
every setting that was not edited when the page was reached from another page, as it is
from the list of providers and after one is added: such a save undoes what another page
has saved in between.  `SavesKeepTheRest` lists these.  (An input that has the focus
while the data are read again may keep its value on a hydrated page too; the model
leaves that out.) When the selected key is disabled its select box falls to another key
and stays there, even if the key is enabled again.

The page reads its data anew after a failed call of a provider's card but not after a
failed call of its keys' card, so a key test that failed may not show.  Either way the
data may be read before the server is done with a call whose fetch failed; the card then
shows what was so before it, until the data are read again.  A probe whose answer is
lost leaves the card with the probe it ran before as the latest one.
`CardsShowWhatIsStored` allows for these.

The page of the API keys lists aliases by a query of its own, which asks neither for an
enabled key nor for an enabled model; `ListedIsServed` is about `GET /v1/models`.

The data of a page come from several queries and are modelled as read at once.

## Not modelled

* `/health` and `/ready`, and the throttled `last_used_at` of API keys: nothing reads them to
  decide.
* The read-only reports (overview, usage, dashboard): one query each and no state.
* The cryptographic functions: without state.  Decryption is one way for `Forward` to fail.
* The username migration: one loop inside one transaction, run once.
* The worker, which waits for a signal and does nothing else.
* The other pages' forms, which send one request to a modelled route.  The routing form is
  made anew whenever its configuration changes, so it holds no older one.
* The order of locks between routing saves and key selections, of which `Routing` has only
  the refusal that ends it.

## Next

The composition of `Gateway` with `Quota` and `KeyRotation` through the abstract
specifications: `ConnectionWindow` is what `AtomicQuota` looks like to a caller, which is
argued in its comments and not yet proved.  A reservation may be judged for a moment of the
minute before, so that the mapping needs a window that ends as late as the last caller of it.
