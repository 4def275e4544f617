# Verification of movies-go

TLA+ models of movies-go, their TLC configurations, and TLAPS proofs about them. Paths are
relative to the repository's root. `PROJECT.json` lists the runs, the source lines behind each
definition, the mutants, the hazards and the findings.

## 1. The system

movies-go is one Go process over one PostgreSQL database, and two clients. The process crawls
torrent trackers, matches their rows to TMDB cards, and serves the resulting catalogue, with each
profile's viewing progress. The clients are plugins of the Lampa player (`plugins/*.js`) and a web
application (`web/src`); most of the code is theirs. Instances of the process can exchange their catalogues.

| Part | State it keeps | Operations | What is hard |
|---|---|---|---|
| Tracker parsers (`parser/`) | `{tracker}_last_parsed_at`, run slot, stop switch, `torrents` | a run every three hours, manual run, stop, reset | listings grow while they are read; pages fail; the next scan trusts what this one recorded |
| Card store (`db/store/store.go`) | `media_cards`, `torrents`, cast, seasons | match, refresh, delete | bulk statements share a timestamp; statements become visible after their `now()` |
| Instance sync (`internal/tasks/instance_sync.go`, `db/store/sync.go`, `internal/api/sync_serve.go`) | six cursors per spoke in `app_settings`, two rows each | a tick: pull three feeds, push three feeds | crash between two writes, lost answers, failing rows, echo between peers, ties |
| Per-profile caches (`internal/api/catcache.go`, `unwatched_invalidate.go`, `snapshot.go`) | watched, unwatched and continue caches, reverse index, last seen cutoff date, snapshot file | fill on a miss, hooks of every writer, a poller of the calendar, save and load | reads outside the lock, writers without hooks, time as a writer, restarts |
| Category cache (`internal/api/catcache.go`) | responses by URL, generation, write order, cached settings, totals | miss, stale hit with background refresh, invalidate, evict | computations that straddle an invalidation; two structures that must agree |
| Timecodes and status (`db/store/timecodes.go`, `status.go`, `episodes.go`) | `timecodes`, `subjective_status`, `episodes` | save, set, mark, delete, trim, explicit status, implied status, backfill | several statements and one hook per handler; read-modify-write |
| MyShows (`internal/myshows`, `internal/api/myshows_*.go`) | tokens, cached lists, progress of a running sync | sync of a user, episode dates of a show | a remote service; a hook for shows no cache mentions |
| Maintenance jobs (`internal/tasks`) | running and stop flags, counters | refresh cards and episodes, cast, IMDb ids, runtimes, premium, notices | start/stop races, list-then-update |
| Image cache (`internal/imagecache`) | files, two counters | fetch, warm, evict | counters against the disk |
| Accounts (`internal/auth`, `internal/api/auth.go`, `totp.go`) | sessions, users, backup codes, pending logins | log in, second step, extend, log out | single use, expiry |
| Devices (`db/store/devices.go`, `internal/api/devices.go`) | devices, profiles, link codes | link, rename, delete, limits | check then write |
| Episode notifications (`internal/tasks/push_notify.go`, `db/store/push.go`, `internal/api/push.go`) | `push_subscriptions`, `push_notified_episodes` | subscribe with a seed, check every 15 minutes, send, record, unsubscribe | send then record; one record for several browsers; a seed next to a check |
| Bot, premium, notices (`internal/bot`, `db/store/telegram.go`, `internal/tasks/tasks.go`) | polling loop, scheduled notices, roles | warn, notify, demote, delete | list then update; send then clear |
| Proxies (`internal/proxy`) | clients by route, child processes | reload, probe, start, stop | a cache read twice, process state |
| WebSocket hub (`internal/ws`) | connections per profile | register, broadcast | writes outside the lock |
| MyShows plugin (`plugins/myshows.js`) | per profile: token, saved lists; in memory: the unwatched, handled episodes, cards | ticks of the player become marks in a MyShows account; the line of unwatched shows; import; lists; calendar; markers | chains of callbacks that read the *current* profile at every link, expired tokens, several chains over one saved list |
| Progress and status (`plugins/np_unwatched.js`) | badges, ticks, buttons, rows on the page | click, message, answer | answers and messages overtake each other |
| Profiles of the player (`plugins/np_profiles.js`) | one copy of favourites and timecodes, backups per profile | switch, edit, debounced save, messages, create, rename, delete | keys that do not name the profile; answers after a switch |
| Settings, menu, linking (`plugins/np.js`, `np_profiles.js`, `MenuOrderSettings.tsx`) | settings per profile and their base keys, order and hiding of categories, device token | pull, patch, message; edit in two clients; code, poll, ping | two clients with different lists; two plugins in one section; late pings |
| Start page (`plugins/int.js`) | focused card, two layers, cache of images, panel | focus, load, fade, evict | every answer is late |
| Web catalogue (`CatalogPage.tsx`, `NewCardsPage.tsx`, `HistoryPage.tsx`) | rows, cache of rows with stale marks, pages | load, message, prefetch, step, page on | answers of an earlier profile, key or page |
| Web "Mine" (`MediaLibraryPage.tsx`) | rows of statuses and their cache | the same, with another reaction to a switch | latches that outlive what they latch |
| Web card page (`CardDetailPage.tsx`) | card, marks, status, favourite | open, click, post, message, retry, navigate | one component for all cards |
| Web administration (`AdminPage.tsx`) | job status, poll, table of users | start, stop, poll; act, page | an idle answer that is old |
| Rendering plugins, scripts | - | layout, deployment | - |

How they interact:

```
 tracker --pages--> parser --CacheTorrent/UpsertMediaCard--> PostgreSQL <--upserts-- instance sync <--HTTP--> peers
                      |                                       ^   ^                        |
              OnComplete (InvalidateCategoryCache)            |   | queries on a miss      | OnSyncApplied
                      v                                       |   |                        v
                category cache <--- HTTP requests ---> handlers --+--> per-profile caches <-- cutoff poller
                      |                                  | OnWatchedChanged ^   |
                      +------------- snapshot file <-----+------------------+---+

 browsers --subscribe--> handlers --> push_subscriptions, push_notified_episodes <--> check --messages--> push services

 Lampa plugins, web client --GET/PUT/PATCH--> handlers --> PostgreSQL;  hub --messages (timecode, status, favourite,
 setting, profile, unwatched_stale)--> the clients of the profile;  myshows.js <--JSON-RPC--> MyShows
```

The scans, the sync ticks, the poller and the handlers are goroutines of one process that share
the database and the caches. Nothing orders them except the caches' locks, `singleflight` and
PostgreSQL's statements. The three caches of a profile are told about changes by hooks, called
after the statements they follow from; the category cache by a generation counter. A client is one thread of callbacks:
what interleaves there are answers, timers, messages and the viewer. A message is not repeated, and is
lost while the connection is down.

## 2. Modules

| Module | Models | Proofs |
|---|---|---|
| `InstanceSync` | one hub, any spokes, three datasets | `InstanceSync_proofs` |
| `ProfileCaches` | the caches that depend on one profile | `ProfileCaches_proofs` |
| `CategoryCache` | the responses that depend on the catalogue | `ServerJobs_proofs` |
| `TrackerScan` | one tracker's scans | `ServerJobs_proofs` |
| `Announcements` | what browsers are promised about new episodes (abstract) | |
| `EpisodePush` | notifications of new episodes; implements `Announcements` | `ServerJobs_proofs` |
| `AccountLifecycle` | premium, its notices, deletion of inactive accounts | `AccountLifecycle_proofs` |
| `EpisodeMarks` | `myshows.js`: episodes watched become marks in an account | `EpisodeMarks_proofs` |
| `UnwatchedLine`, `ShowMatch` | `myshows.js`: the line of unwatched shows, the search for a card | `Clients_proofs` |
| `ShowDetails`, `MyShowsLists`, `ShowCalendar`, `MarkerAnimations`, `AccountImport` | `myshows.js`: cards of the line, the lists, the calendar, the counting marks, the import | `Loads_proofs` |
| `ProgressBadges`, `StatusRows` | `np_unwatched.js`: badges and ticks; status buttons and rows | `Clients_proofs` |
| `PlayerProfiles`, `ProfileMenu` | `np_profiles.js`: the data of a profile; its menu | `Clients_proofs` |
| `BackgroundPanel`, `InfoPanel` | `int.js`: backdrop, panel | `Clients_proofs` |
| `PluginSettings`, `SettingsRegistry`, `DeviceLink` | `np.js` and its neighbours: one setting and its copy; the section of two plugins; linking | `Web_proofs` |
| `CategoryMenu` | the order of categories in two clients | |
| `CatalogRows`, `Carousel`, `PagedGrid`, `LibraryRow`, `CardPage`, `AdminPage` | the web client, one module per kind of page | `Web_proofs` |
| `MC_ServerJobs` | category cache, scans and notifications, side by side | |
| `MC_Clients` | the eight parts of the player's plugins, side by side | |
| `MC_Web` | the web client and what it shares with the player: menus, settings, linking | |
| `MC_Loads` | what the player loads in several steps, and the opening of a card's page | |

`MC_` modules have the model values, the symmetry and the functions their
configurations need; `EpisodeMarks` needs none. `MC_ServerJobs`, `MC_Clients`, `MC_Web` and `MC_Loads` instantiate
several modules and run them side by side: `part` says which one a behaviour is of, and the variables of the others rest.
(Modules that name the same thing the same way share a variable; no behaviour moves two parts.) These four leave sets and
bounds to their configurations, and the theorems about them are for all values their `ASSUME`s admit. The assumptions say
that a bound is a number and a placeholder (no card, no profile, no picture, no row) is no value. One says more:
`MatchAssumption`, that a number at Kinopoisk or IMDb is a show's own, which `myshows.js` trusts.
An operator whose comment begins with
*Mutant* is no part of a specification: it is a plausible bug in the operator that follows it, and `PROJECT.json`
names the property that detects it. Further mutants kept in the modules break single conjuncts of the properties.

### InstanceSync

A row is its sync stamp. A key `k` stands for a card, its torrent and its event. `stamp[i][d][k]`
is `updated_at` or `matched_at` in instance `i`, `linked[i][k]` says that the torrent has a
`card_id`, `cursor[s][p]` is the pair of settings rows of transfer `p` of spoke `s`, and `job[s]`
holds the variables of `syncCursorPages`, `applyPulledPage` and `syncPushPages`: the transfer, the
cursor it read, the page, how far it got, whether a row failed.

* `LocalWrite`, `BeginWrite`/`CommitWrite`, `DeleteCard`: the parser, the TMDB refresh, players and
  administrators. All instances share a clock that no two statements read alike; rows of one
  bulk statement do share a stamp. `BeginWrite` and `CommitWrite` split a statement into the moment
  of `now()` and the moment its row can be seen.
* `AskPage`, `ApplyRow`, `RowFails`, `SaveSince`, `SaveTie`: one page, its rows one statement each,
  and the two `SetSetting` calls. A pull and a push differ in which side is read and written, and
  in that a push can be applied although its call failed.
* `CallFails`, `LoseSince`, `LoseTie`, `Crash`: the faults. `LoseTie`, and a crash between the two
  halves, need the hazard `"tear"`.

Not modelled: the interval a spoke takes over from the hub, the activity log, the cache hooks after
a pull, a settings read that fails (the feed restarts from its beginning), a changed `peer_url`, a
peer too old to report its first failed row (the whole page then counts as failed), refusals
(folded into `CallFails`), an answer that arrives after its caller gave up.

### ProfileCaches

A handler is the sequence of its steps, one per statement or locked section, kept in `jobs[w]`;
`Programs` has one entry per write path, in the order the code makes its calls. `ReadStore` and
`StoreEntry` are the two halves of a fill: the query runs outside the cache's lock. The clock has
`TicksPerDay` ticks, the cutoff date lags it by `Lag`. `Poll`, `CrossDay` and `CrossDrop` are
`checkAndInvalidate`, day by day and card by card. `Shutdown`, `Crash`, `SaveCacheSnapshot` and
`LoadCacheSnapshot` with its replay are the process.

`overtaken[k][p]` is a history variable: a drop meant for an entry ran between its read and its
store. The soundness invariants exempt such entries: they are the exception to what the comments promise.

Not modelled: movies as such, the percent and sort variants of a key (same prefix, dropped
together), batches of rows in one request (the same statements repeated), special episodes,
the migration of anonymous timecodes, a profile's deletion, episodes that are postponed or
renumbered, a cutoff setting moved backwards, a query of the poller that fails,
`ClearSubjectiveStatus` undone by the next start's backfill. A background sync that is cut off by a
graceful stop is a save followed by a crash.

### CategoryCache

The catalogue and the setting are version numbers; a response remembers the versions it was
computed from (`catalog`, `setting`), the generation it began in (history) and the one it was
stored with. `hook[w]` walks `InvalidateCategoryCache` lock by lock. `Miss` runs handlers for one
key side by side, as `withCategoryCache` does; `StaleHit` starts at most one refresh per key.
Every computation is read setting, query, store. `floor` is history: the versions of the last bump.

Not modelled: what a response contains, requests with nocache parameters, the pools of popular
actors. The five other settings that the same hook resets behave as `catalog_trackers` does.

### TrackerScan

`listing[c]` has the rows of a category in order of posting; a page is a window on it as it is *now*,
counted from the newest row, so rows posted meanwhile shift the others. `reading[c]` is
`runPageLoop`: the next page, the rows being matched, whether it is over. `StartScan` is `scanCutoff`
and the start of `Parse`, `commitScan` its end. `ClaimRun`, `ResetStop`, `SkipTracker` are `RunAll`
(`StartOne` has the same first two steps) and the other trackers of a run are time that passes.

The hazards `"slow"` and `"removed"` are facts of the environment: a scan that outlasts the
overlap, rows withdrawn while pages are turned. No document promises anything for them;
the run `jobs` includes rows withdrawn.

Not modelled: rutor, which fixes its number of pages at the start; listings out of order; the
matching itself; errors of `CacheTorrent`, which the code drops; a stop request left from an
earlier run, which the next run resets; a reset to a chosen date.

### EpisodePush

`subs[b]` is the subscription of a browser, `notified[p]` the rows of `push_notified_episodes`,
`watching`, `watched` and `air` what the one query of `FindNewEpisodeNotifications` joins them
with. `DueFor` is that query without its last exclusion. A check is `StartCheck`, which takes the list
and groups it (`jobs`, one message per browser), then per message `Deliver`, `SendFails` or
`SubscriptionGone`, then one `MarkEpisodeNotified` per episode (`marking`). Messages of a check go in
any order: the query has none. `Subscribe` starts a goroutine, `SeedNotifiedEpisodes` is its one
statement, for *all* subscriptions. `Restart` loses what was not yet recorded.

History: `shown` counts what a browser has been shown for a profile, `backlog[b]` is what had
aired when it subscribed. `Owed` says what a browser may expect: aired since, due, unshown, and on
its way or free to be listed. The hazards are orders of events that the code does not exclude and its
comments do not consider; each is a guard, and each breaks one property (section 6).

Not modelled: texts and languages, statements that fail, deleted devices, episodes that are
renumbered, statuses the code sets by itself (`SetStatus` covers their effect), the test message,
except that it drops a subscription that is gone.

### AccountLifecycle

`account[u]` is the user's row: role, `premium_until`, the scheduled notice (`notify_type`,
`notify_premium_after`), the two marks of warnings and the hour of deletion. `tasks` is the night's run:
which list is being worked off and who is left on it. `SetPremiumExpiredNotify`,
`SetPremiumWarningNotify`, `WarnInactive`, `DeleteInactive` and `KeepInactive` are the bodies of the
loops in `tasks.go`; each acts on a list that a query took before. `GetPendingNotifications`,
`SendMessage`, `SendFails` and `ClearPremiumNotify` are one pass of the delivery loop. Administrators act
at any moment: both ways to grant premium (the web page counts from now, the Telegram app from the end of the
term), roles, the extension for everybody, the check that demotes without a notice, deletion.

Time is explicit, in hours. `Tick` waits for what an hour leaves time for; at `daily_task_hour` it
starts the night's run. `nextDeliveryTime` and `inDeliveryWindow` are those of the code, with a zone and a
window per user.

History (`past`): to when premium was promised (`owed`), whether the warning of this term was
delivered (`told`), whether the account was warned of its deletion since it is simple (`spell`), whether it
logged in since (`active`), how often its notice was sent (`sends`).

The hazards are again orders of events that the code permits and does not survive: an administrator acts on an
account that is on a list (`"overtaken"`) or has a notice to come (`"pending"`), renews a term after its
warning (`"renewed"`), promotes an account that was once warned of deletion (`"respelled"`), grants premium in the
Telegram app upon a term that ended long ago (`"stale"`), the process stops in the middle (`"crash"`), the bot is
out of reach for hours (`"silent"`).

Not modelled: the trim of devices and timecodes after a demotion, accounts with a pending
password, changes of a time zone or of notice hours, the role and the end of the term as two
statements in the Telegram app, delivery of the message about inactivity, the other jobs of the night.

### EpisodeMarks

One open show of `myshows.js`. A request is a record in a slot: its kind, its phase (queued, sent, answered, refused),
`by`, the profile in which its chain began, and `to`, the account its token belongs to, read when it is sent. `Tick` is
`processTimelineUpdate` up to its first request; `Callback` has the continuations, each of which reads the
*current* profile, token and caches again, as the code does. `Expire`, `Refuse`, `Relogin` and `LoggedIn` are
`makeAuthenticatedRequest`: a refused request waits for a new token and is sent once more. `OpenCard` and
`Refetch` make the lists that decide what a tick may skip.

History: `viewed` and `undone` are what a profile watched and took back, `crossed` says that a chain went on in
another profile, `listIs` that the show was (not) being watched when the list in memory was made, `blind` has the
episodes that were skipped on the word of a list that could not know them.

`ViewedIsMarked` (what was watched is marked in the end) is stated with its fairness and run nowhere: its graph is
beyond the bounds at which the safety properties still say something. `SkippedIsMarked` is violated (section 6).

Not modelled: the show's seasons, ratings, movies (`ShowMatch` has how they are found), a second open show.

### The other parts of the clients

Each has a module of its own. Answers wait in a set or a sequence, and arrive in any order the code permits; the
viewer, other screens and messages act in between. Where the code can go wrong in a way that no property survives,
the variable `missed` (in some modules `ways`, or a Boolean `crossed`) records which way was taken, at the very step
that takes it; the properties, which mostly speak of states in which nothing is under way, exempt
those behaviours by name. So a property says: *there is no other way to go wrong than these*.

| Module | State and operations | Exempted ways | Left out |
|---|---|---|---|
| `UnwatchedLine` | the saved list, the search results, the line on the page, the stack of open cards and their posters; chains (`jobs`) of a fetch, a save and the timers that follow it; watching, buttons, returning, background refresh | episodes counted off while some are left (`behind`); marks put on the poster of the card below (`misplaced`) | pictures, order of the line, several profiles (`EpisodeMarks`) |
| `ShowDetails` | fetches of the list side by side: saved list, search two at a time, details, count | a show lost by a request that fails, a read that crosses the clearing of the flag and the fetches that read what it has saved | contents of cards |
| `MyShowsLists` | the three lists and what is saved of them per profile; shows, movies, a search per item | a switch during a fetch | sorting, paging of what is loaded |
| `ShowCalendar` | two calendars filled in three passes; hooks that wait for a save | `failed`, `crossed`, `reopened`, `hooked`, `nothing` (to ask about), `waits` (local mode) | dates and their grouping |
| `MarkerAnimations` | chains of timers that write one text | a step back of two seasons and more | removal of the element |
| `ShowMatch` | searches by numbers and titles, choice among namesakes, count-down in the cached list | cards the service does not know by title and day; status set while another card is open (`blind`) | ratings of similarity beyond equality |
| `AccountImport` | stages of an import, one search at a time, one save, history, reload | a switch on the way; a show without listed episodes has a card and no timecodes (`Bare`); cards an import that failed left behind (`unsaved`) | progress bar, a second import started next to a running one |
| `ProgressBadges` | badges, label, ticks, caches; clicks posted, with what became of each at the server, messages, answers per show | `failed`, `overtaken`, `profile`, `ticks`, `repeated` | drawing |
| `StatusRows` | status buttons, rows of a page that loads one by one, line of unwatched | `failed`, `crossed`, `faded`, `torn` | limits of rows, sorting |
| `PlayerProfiles` | favourites and timecodes of the active profile, copies per profile, debounced save, two requests per switch | a switch or a change under a load or a pending save | which cards are in which list |
| `ProfileMenu` | list, menu, creation, icon, rename, delete, history page, header button | answers that cross a switch or another edit | permissions of a child profile |
| `PluginSettings` | one setting: server, local copy per profile, base key; pull, patch, message, ping | `failed`, `crossed`, `moved` | types of settings |
| `SettingsRegistry` | time in ticks of half a second; two plugins and one section | `np.js` later than the wait for it | texts |
| `CategoryMenu` | order and hidden categories, as Lampa and as the web client read and write them; new year; old keys | `unknown`, `renamed`, `unwritten`, `overlap` | drag animation |
| `DeviceLink` | codes, devices, overlay, poll, typed token, `IS_NP` | a code that ended or was cancelled while used, a lost answer, a deleted device | countdown |
| `BackgroundPanel`, `InfoPanel` | two layers with a fade, preloads, a bounded cache; details, logo and reactions of a card | wait given up, evicted, shown again; a foreign source, a row left, a failure | pictures |
| `CatalogRows` | the row of unwatched shows, its cache with stale mark, prefetch, messages | `failed`, `crossed`, `unmarked`, `profile`, `progress` | what a card shows |
| `Carousel` | rows of the hero layout: known empty, cached, stale, asked for ahead | an answer older than its message, a reload in vain | contents of rows |
| `PagedGrid` | five lists loaded by page | a key changed under a request, `failed` | filters |
| `LibraryRow` | a row that outlives a switch, its cache | `failed`, `crossed`, `profile`, `progress` | as above |
| `CardPage` | one component for all cards: card, marks, status, favourite, retries of the episode list, confirmation | `card failed`, `timecodes failed`, `failed`, `crossed`, `left`, `wiped`, `overwritten` | seasons, reactions, player |
| `AdminPage` | one job as the server runs it (`starting` until its goroutine begins; a stop asks, it does not end) and as the page knows it; the table of users | answers that overtook one another | the five jobs' own work |

What the server answers is modelled from its handlers (`internal/api`, `db/store`), what TMDB and MyShows answer from
how the plugins use it.

## 3. Runs

| Run | Question |
|---|---|
| `sync_exchange` | A hub and a spoke that both write cards and match torrents, three keys to pages of two, stamps that tie, failing rows, lost answers, restarts, fair ticks: is a card ever behind a cursor and not at the other end? Does the sync make stamps of its own? Do both ends agree in the end? |
| `sync_deletes` | Every hazard at once: does an event ever outlive its card? |
| `caches` | Three parts. The unwatched lists against their writers, the calendar, the poller, snapshots and graceful restarts: once the hooks have run, is what is served what a query would answer? The same for watched sets and lists to continue, without restarts. And under the write paths that break this, failed queries and kills: does the reverse index cover the cache? |
| `jobs` | Three parts. The category cache in two halves: writers that overlap, with restarts; recounts and settings that cannot be read, around one write. Is a fresh response as new as the last invalidation, unless overtaken? Is the cached setting current? And a scan of two categories with every hazard but slow scans: does recording a scan ever cut off rows newer than its start? |
| `scan_live` | Rows posted while pages of two are turned: is every row before the next cutoff read, and every row in the end? |
| `push_episodes` | Two browsers, two profiles, refused messages, a revoked endpoint, a restart: is the abstract specification `Announcements` implemented, is what a browser is owed neither dropped nor put off for ever? |
| `accounts` | Two users, one with hours after the night tasks and one within them, every administrative action, a refused message, a restart: does premium end in time, is nobody demoted unwarned, is each notice true, is every deletion justified? |
| `account_active` | *violated*: an account that is used after its warning is kept |
| `marks` | Two profiles, two episodes, three requests in flight, two events: is a mark made for who watched, does a show leave the list by its own marks only, is what is saved of a profile its own? |
| `clients` | Eight parts of the player's plugins, each by itself: is what is on the screen true once everything has arrived, does what belongs to one profile, show or card stay with it? |
| `web` | Six parts of the web client, and the menus, settings, registry and linking it shares with the player: the same questions, and: is a list of one key, does an order edited in two clients keep every category? |
| `loads` | What is loaded in several steps, with refused and lost answers: do accounts stay apart, is what is drawn whole, does every load end? |

Each passing run checks its properties on all reachable states of its instance; together they take
every action of the modules.

### Bounds

* `MaxClock`, `MaxWrites`, `MaxTicks` bound how many things happen, not how long the system
  runs: after the last one, ticks, fills, refreshes and scans go on for ever. Two stamps
  and rows that share one are enough for a row older than, equal to and newer than a cursor.
* `Limit` and `PageSize` are 1 or 2, with one to four rows: a full page, a partial one, an empty one,
  a page boundary within equal stamps (`sync_exchange`) and a row that moves to the next page while
  it is read (`scan_live`) all occur.
* `MaxFaults` is 1 or 2: a fault, and a fault during the recovery from it.
* Two writers, two computations, two categories are the smallest interleavings. One show of two episodes has nothing,
  part and all aired and seen.
* `TicksPerDay` 2 with `Lag` 1 puts the cutoff at mid-day, so that a calendar day has two cutoff dates; in the index
  part one tick is a day. The parts of `caches` leave out of the product what their property does not read: `Within`
  in `MC_ProfileCaches` keeps the other kinds empty, and the second part without snapshots. `OverlapDays` 1 is the
  smallest overlap, and the hardest.
* `Within` in `MC_ServerJobs` gives the second half of the category cache one write, the first no recounts and no setting that fails.
* `MaxDay` 1 with `Delay` 1 lets an episode be dated before it is aired, aired at once or only later, and
  dates be corrected; one seed and one check under way are all that the properties survive.
* `accounts` has days of three hours, with one for the night tasks and one in which notices are sent, terms of two
  days, a warning from two days before the end, and five days in all: two terms, an extension and the
  warned days fit.
* The clients: two shows, cards or profiles (three where a third may come in between: focus, keys of a list), one episode;
  `MaxMoves` of the viewer and `MaxEvents` of the rest of the world between one and four. Two changes and three moves
  let an answer, a message and a switch cross in every order. A part whose property exempts a way that was taken
  is not followed beyond it (`missed = {}` in the steps of `MC_Clients` and `MC_Web`; `missed \subseteq {"progress"}`
  for rows of the catalogue, which are still checked then); moves and events are each followed to their bound on the page of a
  card, and at most one event together with a move. `BadgesWithin` gives badges
  three changes with one move or one change with three, `LineWithin` gives the line a third event only while two cards are
  open. The page's first card and profile are fixed, and so are the first profile of an import and
  the shows of a calendar: the others differ by a renaming.
* Symmetry is used for interchangeable model values only (`caches`, `jobs`, `marks`), never with a liveness property.
* The deadlock check is off in `accounts`, `account_active`, `clients`, `web` and `loads`: when the hours, moves and events
  are used up and every answer has come, nothing is left to do. The other runs check for deadlock.

### Fairness

* `InstanceSync!FairSpec`: weak fairness of each spoke's own progress. `StartInstanceSyncLoop` is one
  goroutine on a ticker, every call has a timeout, every tick a budget. Nothing is assumed of local
  writers, and no fault has to happen.
* `TrackerScan!FairSpec`: weak fairness of the scan's steps; `gocron` starts a run every three hours
  (`cmd/main.go`). Posting, ticking and faults are not fair.
* `EpisodePush!FairSpec`: weak fairness of the check, a goroutine that runs it every 15 minutes for as long as
  the process lives and sends with a timeout, and of a seed, one statement of a goroutine that nothing waits for.
* `MC_Loads!FairSpec`: weak fairness of answers (requests of Lampa and of the web client end, by an answer, an error or a
  timeout) and of the timers of animations. The viewer is not fair.
* `EpisodeMarks!FairSpec` adds that who watches keeps sending ticks (strong fairness). It is stated, no run uses it.

## 4. Proofs

Everything below is checked by TLAPS, for all values of the constants that the modules' `ASSUME`s
admit. The models' bounds are conjuncts of guards, so the theorems hold for every bound.

**`NoTorrentSkipped`, `NoPushedCardSkipped`** (`Hazards = {}`): with any number of spokes,
rows, failures and crashes, a row behind a cursor is at the other end. The property alone is not
inductive: a page in flight will move the cursor. `IInv` adds that nothing carries a stamp from
the future (`BehindClock`), that a torrent is linked exactly when it is stamped
(`LinkedIffStamped`), and for a running transfer (`JobInv`) that the rows up to the position it
will save have been delivered, and that the rows of its page are those that follow, none left out,
up to rows that entered the feed after the page was read. That last part is the core:
because a new stamp is later than every cursor and every page (`FeedMoves`), the feed changes only
beyond what was read. It holds for torrents, which get their stamp on arrival, and for pushed cards. For pulled cards it
does not once a second spoke relays (section 6); with one spoke it does, because what the hub takes over under an older
stamp came from the very spoke that pulls, which has it: **`NoPulledCardSkipped`** assumes `SoleSpoke`. `SafePhase` names the
transfers the invariant covers. `MatchesAreNews` follows from the same invariant.

**`SyncNeverMintsCardStamp`** (all hazards): of a transfer's steps and its failures only the delivery of a row writes a card, and it
writes the stamp that the page has (`TickMintsNothing`).

**`EventsAlwaysHaveCards`** (all hazards): the invariant is the property with the stamps of open
statements added.

**`IndexAlwaysCovers`**: `IndexCovers` is inductive by itself. The proof has one lemma for each way the
cache and its index change together: drop, drop by card, wipe, store, restore.

**`ContinuesAlwaysSound`, `WatchedAlwaysSound`, `UnwatchedAlwaysSound`, `UnwatchedAlwaysSoundInParts`** (the last is what the run checks): each cache is sound under its `SafePaths`, the write
paths that call its hook after their last write; section 6 says what the others do. The list to continue stays sound through any
restarts and crashes. The two others rest on the poller and on the file of a graceful stop as well: their theorems assume that nothing but
`"restart"` happens to the process, that the cutoff lags by less than a day (the defaults are `aired_cutoff_days` 0 and
`aired_cutoff_hour` 20), and `PollerInTime`: the poller, which looks every minute, is through with a crossing before the next tick.
Without the last assumption TLC finds a day that nothing drops: the poller leaves a crossing undone past midnight, the process
stops, and the replay begins with the day of the stop.

The invariant `SoundInv` is about every answer that is cached, being filled, or on disk while the process is down (`Held`). It was
overtaken; or the hook of a write is still to drop it (`Owes`); or it agrees, card by card, with what the query would give now, but for
cards that are due (`Due`): a hook about the card is still to run, or it has an episode on a day that the poller or the next
start has to cross (`Crossing`, `PollerOwes`). A watched set may be wrong about a card that is due only if it lists it, for the drop goes
by the reverse index; that holds because more aired episodes never turn an unwatched card into a watched one
(`AiringEndsWatched`). `JobsInv` says that each step of a handler that can change an answer is followed by its hook. A handler that has
yet to learn of episodes may end early, so that nothing rests on its hooks before (`InJobs`). The calendar is in `CrossedDayIsToday` (with a lag
below a day the date that the cutoff crosses is today's) and `ReplayReaches` (the replay visits each day from that of the save
to yesterday): what airs today is left to the poller, which starts a day behind.

**`FreshAlwaysUnlessOvertaken`**: the strengthening speaks of computations under way: one that has queried
and began in this generation has seen the catalogue of the last bump, and nothing is labelled with a
generation to come. **`TrackerAlwaysCurrent`** assumes that reads of the setting do not fail.

**`NothingEverMissed`** (`Hazards \subseteq {"down", "crash", "reset"}`): the invariant says that
listings are in order of posting, that what lies before the cutoff in use and before the next one
has been read, and that in a running scan each row older than its start has been read, is being
matched, or is on a page still to come (`Covered`). A new row moves the others one place down, which
`Covered`, written by distance from the oldest row, does not notice. At the commit no page is to come and nothing is
being matched; the overlap of at least a day, together with dates rounded down to midnight, makes the
next cutoff lie before the start of the scan. The last two facts are `DayBounds` and `DayMonotone`.
**`CommitAlwaysKeepsNewRows`** keeps only that last part (`InReach`) and holds with every hazard but `"slow"`, which lets a scan
outlast the overlap.

**`ImplementsPromise`** (`Hazards = {}`): `EpisodePush` implements `Announcements`. `wanted` and `owed` are mapped to what the tables and
messages say (`Wanted`, `OwedPairs`), `shown` to itself. `Deliver` is an `Announce`, every other step of the system is
`WorldTurns`, and both keep what is owed (`KeepsOwing`), which rests on the invariant of the next theorem.

**`NothingEverSwallowed`** (`Hazards \subseteq {"unrecorded"}`): an action property, whose step needs an
invariant. Whatever the running check is about to send or to record for a profile, each of the
profile's browsers has been shown, has in its backlog or is about to be sent (`Covered`), so that
recording it takes it from nobody; and while a seed is under way nothing unsent is owed
(`SeedsHarmless`). The two lemmas about lists (`ListIsFresh`, `ListCovers`) say that one query lists an episode for
all browsers of a profile or for none. **`NeverShownTwice`** strengthens `AtMostOnce` by: what is shown is recorded
or about to be, what is listed is unshown, one message per browser. **`BacklogNeverShown`** says of
an episode of a backlog that it is unshown, on no message, and recorded or about to be recorded by a seed.

**`PremiumAlwaysRunsItsCourse`** (neither `"overtaken"` nor `"stale"`): a term ends at the hour it was promised
to, and everybody on the list of those to demote is still past it (`CourseInv`). Without premium nothing is promised,
and the end that `SetPremiumExpiredNotify` leaves in the row is past: that part is what `AddPremium` relies on.
**`PremiumAlwaysEnds`** (neither `"crash"` nor `"stale"`): measured from the last hour of the night tasks
(`SinceRun`), every term lasts beyond it, or its user is on the list of a run that has not finished.
**`DeletionAlwaysJustified`** (neither `"overtaken"` nor `"respelled"`): the mark of a warning is found on
simple accounts only, and whoever is on the list of the inactive is simple and no administrator.
**`NeverAnnouncedTwice`** (no `"crash"`): a notice other than the one just sent is unsent, a pass has
at most one for a user, and an account that is gone has none.

**`AlwaysWarnedBeforeDemoted`, `NoticeAlwaysTrue`** (`Hazards \subseteq {"respelled"}`, and both `Grant` and `Warn` of two days at least;
the settings' defaults are thirty and three). `WarnedInv` joins the three invariants above with what each reachable user
may rely on, measured from the last run of the night tasks (`LastRun`): a term without a warning lasts beyond the next run
(`UnwarnedLasts`); one with a warning to come lasts beyond the run before its hour (`InTime`); a notice waits for today's
window or tomorrow's and no hour passes it by (`Timely`); it says what is so (`OwnNotice`); a warning that was cleared
was delivered (`WasTold`). A warning is set up to two days before its window opens and the list is made once a day: that is where the
two days come from. With one day TLC finds the demotion without a warning (the note in `hazards`).

**`MarksAlwaysViewed`, `SavedListsAlwaysOwn`**: for any profiles, episodes and number of requests in flight. `TypeInv` is the type invariant
together with `Sound`: a request that has left has an address, and one about an episode names it. `ApartInv` says that, as long as no
chain crossed a switch, each profile's token is that of its own account, each request under way is addressed to the
account of the profile its chain began in and carries a list of it, and saved lists and marks are own. A login answers in a chain of one profile
and stores its token under the current one: that these are the same is what `~crossed` gives.

**`ListAlwaysHidesOnlyMarked`**: `Hiding` adds to this what every request under way is worth. A list it carries hides only what
the account has marked (`Tells`), a mark is counted off a list only when the account has it, an episode is taken off the marks only
if its viewer took it back, and a list's number of episodes left is at least what it names. One lemma says that what is
told stays true while accounts gain marks (`StaysTold`), the others what each kind of answer and of the viewer's acts may put into a
request, the memory or the saved lists.

**`OldCardsAlwaysStayOut`, `AccountsAlwaysStayApart`, `AlwaysDrawnWhole`, `AlwaysTyped`** (the safety properties of `loads`): `LoadsInv` has one
invariant per part, and a step is a step of the part that runs. They hold for any number of fetches, searches, lists, calendars,
animations, failures and switches.
`DetailsInv` follows the wrong cards of the old list: until the flag is cleared nobody uses them, from then on they are in the reads that
crossed that moment. TLC, with four fetches, refuted an earlier form of the exception (a crossed fetch that *is saving*): a crossed
fetch saves the old list, another one reads it there, a third saves a right list, and the reader brings the wrong card back; the exception
is therefore a crossed fetch that is saving *or has saved*. `ImportInv` says of every card under way that it comes with
its timecode, if it has any (`CardsAreCovered`), and that everything in hand is of the account the import began with (`HandlesWatched`). `ListsInv` says of a
fetch of a list that its items, its open searches and its results are of lists its account has had (`Own`). `CalendarInv` has the
pass that makes the calendar's list again as a chain of single requests, the last of which asks about the list that is kept; once it was
answered the last filling is that list (`Shown`), also while the server's calendar is still to be added to it. `MarkerInv` says where
an animation may be on its way (`OnItsWay`), so that one that has no step left is at its goal, and that a text that is no goal was
written by an animation that is still running. The page of a card has its types only; what it shows is a theorem of `web`.

**The player** (`Clients_proofs`) and **the web client** (`Web_proofs`): one inductive invariant for each part, three facts about it
(`...Start`, `...Kept` and what follows once nothing is under way), and theorems that join the parts a property of the runs joins. Of a
part that the runs leave at the first exempted way (`missed = {}` in a step of `MC_Clients` or `MC_Web`) the lemma `...Kept`
needs no such step: the invariant itself says what holds while no way was taken. Most of the invariants have one form: *what is
shown is right, or something under way will make it right, and nothing older comes after that.*

* **`PlayerAlwaysComesTrue`**. `BadgesInv`: of each show, what is drawn is right and no old answer comes (`BadgeKeeps`), or
  the right one will be told, asked for or answered anew (`BadgeComes`); ticks are right but for marks made here that are on their way
  (`BadgeTicks`). A larger instance and then the proof refuted earlier forms of the property, which did not exempt a change that repeats
  the one handled last on another profile (`repeated`), nor answers that come after a switch there and back. `StatusesInv`: what is said of a show is its status or
  an earlier one (`StatusPast`), the newest is applied or still to be heard (`StatusHeard`), what is applied is laid onto rows and line
  (`StatusLaid`, `StatusLined`), and the button of the open card is lit right, or an answer is due that lights it (`StatusLit`).
* **`LineAlwaysShowsItsOwn`**. `LineInv`: a list that is being answered or saved lacks only shows that were out of the account's
  list or counted off (`LineTold`), and so does the saved list; a card that leaves the line is of such a show; the posters show
  marks of their own cards, except that those of a card opened upon another may be on the first one's. The proof found this exception, with two cards open; the
  run's instance was enlarged until TLC found it too, and it became a row of section 6. `LineGoesOn` is
  the step common to all: what a job leaves behind is told truly if the job was.
* **`ProfilesAlwaysStayApart`**. `ProfilesInv`: each load, write and message has what is its owner's, and what is on screen is the active
  profile's unless a switch is about to replace it, in which case no save is due (`OwnData`). `RosterInv`: ids are given once
  (`FreshIds`), one request at a time edits a profile (`OneEditEach`), what was served is what the server has (`MakersAreTrue`,
  `EditsAreTrue`), and the active profile is the server's, as it is shown, or an answer is due that makes it so (`ActiveFollows`).
* **`StartPageAlwaysFollows`**. The picture asked for last is that of the card in focus (`AskedOfFocus`), and is waited for, drawn by one
  layer, or shown by one whose other is gone or about to go (`LastComes`); the render under way is that of the title shown
  (`RendersInOrder`). **`MatchesAlwaysOwn`**: a search that found an entry with its card open found the card's own.
* **`WebRowsAlwaysComeTrue`**. `RowsInv`, `LibInv`: an answer under way agrees with the server but for shows about which a message is
  under way, and so does the cached list, and the row on screen or a fetch still to come. `CarouselInv`: what was told and is cached and not stale is so; what is
  drawn, or taken for empty, is so or its load is under way. A message of the two rows counts as `crossed` only if nothing on its way
  puts right what it says (`Final`): the proof asks for exactly that.
* **`PagesAlwaysComeTrue`**. `PageInv`: card, marks, status and favourite are right, or a request, post or message will make them so, and of the
  requests for timecodes only the newest counts (`Newest`). `AdminInv`: of answers that overtook no other, the one under way is
  for the present view (`TableComes`), and a job started here is shown or about to be (`JobComes`).
* **`ListsAlwaysFollowTheirKey`**. `GridInv`: one request at most, for the present key, for the page that follows those shown.
* **`SettingsAlwaysComeTrue`**. `SettingsInv`: the last value on its way is the one kept here (`LastIsKept`), and the server agrees or
  something under way will make it or the player agree (`AgreementComes`). `RegistryInv`: one plugin draws before
  the other looks, unless it came too late (`DrawnInTime`). `LinkInv`: each device was made for a code, once (`DevicesFromCodes`), and what is
  kept of the token is true unless the server is being asked.


`TypeCorrect` and `SyncInvariant`, `ScanInvariant` are the invariants themselves. `NoTorrentSkipped`, `NoPushedCardSkipped`, `MatchesAreNews`,
`NeverShownTwice`, `BacklogNeverShown`, `PremiumAlwaysRunsItsCourse` and `NeverAnnouncedTwice` state invariants that no run lists.

Only model-checked: every liveness property (fairness and ENABLED are beyond the prover); `MenusKeepTheirOrder`, whose orders are
computed by folds over sequences, so that its proof would be an induction over data; `Types` of `clients` and of `web`, some of whose
types are bounds (how many requests of a kind there are at once) that no other theorem needs. The invariants have the types they
rest on as parts. Stated and neither run nor proved: `SkippedOnlyAmongTies`, `OrderListsEntries`, `NoticeKept`,
`SettledHistoryIsOfActive`, `ViewedIsMarked`, `ChangesAreOfTheirProfile`. Nothing is proved by induction over data or about
a RECURSIVE operator; the modules have none.

## 5. Known and without a property

* A cursor is two rows of `app_settings` written by two calls (`internal/tasks/instance_sync.go:160`); torn, it skips rows of its time. A row
  that fails for ever stops its feed: every failure of the model passes.
* A row pushed by one spoke enters the hub's feed behind the cursor of another (`db/store/sync.go:160`). The hub does not invalidate its
  category cache after a push (`internal/api/sync_serve.go:169`); a spoke does after a pull.
* A stop requested while a run is starting is erased by the run's reset of the switch (`parser/parser.go:118`). The backfill of
  dates sleeps on the scans' stop switch (`parser/date_backfill.go:21`).
* Rows withdrawn while pages are turned can be missed, and so can rows posted during a scan that outlasts the overlap.
* Read, merged in memory, written back: the progress of a card (`db/store/timecodes.go:276`), the list of backup codes
  (`db/store/totp.go:62`), the map of viewed items in the clients. One code can link two devices (`db/store/devices.go:237`).
* Two writers of one image share its temporary name and both count it (`internal/imagecache/imagecache.go:181`).
* The button of the import does not look at `syncInProgress` (`myshows.js:1332`, `6021`): two imports side by side share `cardsToAdd` (`6566`), so
  the one that ends first puts cards of the other into the history, and its reload ends the other.
* The search of the import has branches for the year of a show's first episode (`myshows.js:6455`, `6498`), but neither of its callers passes
  the argument they need (`6184`, `6247`); they are left out as dead.

## 6. Divergences

Each row is a sentence of the code or its documents that the code does not keep, found as a counterexample. The passing runs leave out exactly the
path, hazard or entry named in the last column; a name alone is a definition of the module that no run checks, with
the comment "Violated by the code".

### The process

| What is said | What happens | Left out of the passing runs as |
|---|---|---|
| `internal/tasks/tasks.go:229` "Войдите в систему, чтобы сохранить его" (log in to keep the account) | `last_active_at` is never written: every simple account counts as inactive and is deleted after its warning | the run `account_active` shows it |
| `db/store/sync.go:265` an event without its card "will apply cleanly once the card itself arrives" | it is skipped without an error and the cursor passes it | the property |
| `sync.go:158` "transitive re-serving to a third peer keeps working" | a pushed card keeps its stamp, behind another spoke's cursor | a second spoke, for pulled cards |
| `internal/tasks/instance_sync.go:121` "the next tick just retries the same page" | the cursor is two writes; torn, it skips rows of its time | hazard `"tear"` |
| `sync.go:353` a row that was unmatched is "stamped with our own now()" | a torrent that lost its card keeps the old stamp | hazard `"delete"`, for torrents |
| `db/store/store.go:74` `matched_at` is stamped "exactly when card_id transitions" | `now()` is earlier than the row is visible | hazard `"late"`, for feeds |
| `internal/api/catcache.go:174` the next request "reflects" a change | a computation that had queried before stores its answer after the drop | `overtaken` |
| `catcache.go:200` the list "must go stale the moment a timecode changes" | `SetCardTimecode` calls the hook before the status it implies is written | path `"set"` |
| `db/store/timecodes.go:15` the hook is called "after any mutation" | the trim to the role's limit calls none | path `"save_and_trim"` |
| `catcache.go:289` the reverse index is fine for a MyShows sync | an aired episode brings shows into lists that lack them | path `"release"` |
| `internal/api/episodes.go:198` a "watched/unwatched" cache needs "a full wipe" | the unwatched cache alone is wiped | path `"tvmaze"` |
| `internal/api/snapshot.go:67` a crash "loses at most interval worth of warmth" | it also restores entries older than the database | event `"crash"` |
| `catcache.go:348` "computing and caching it on a miss" | a failed query is cached as an empty list | event `"read_fails"` |
| `snapshot.go:144` shows that crossed "at any point between since and now" | it starts at the save's calendar day, ahead of its cutoff date | a lag of a day and more; a poller that is a day late |
| `catcache.go:443` stale means "computed in a generation older" | the label is the generation at the store | `began` in `FreshUnlessOvertaken` |
| `catcache.go:44` "marks every cached category response stale and refreshes the tracker setting" | two locks, with computations in between | the property |
| `catcache.go:398` totals are "refreshed once per parser run" | recounts of two runs store in any order | `TotalsCurrent` |
| `store.go:312` "the last successful parse time"; `README.md:28` | a category given up ends like one that was read, and the scan is recorded | hazard `"fetch fails"` |
| `parser/parser.go:49` a run stops "after the current tracker finishes" | it stops in mid-listing and records the partial scan; a stop accepted before the run's reset of the switch is erased | hazard `"stop"` |
| `internal/tasks/push_notify.go:62` a message "for every subscription that has a newly-aired episode ... it hasn't been notified about yet" | sent is recorded per profile: the browser whose message was refused is never told when another one was | hazard `"siblings"` |
| `db/store/push.go:170` an episode "can legitimately cross aired_cutoff"; to seed then "would silently swallow that real notification" | a seed is for every subscription, and each new subscriber starts one | hazard `"due"` |
| `db/postgres/schema.sql:547` "the periodic check never sends the same notification twice" | it does after a stop or a lost answer between sending and recording | hazard `"unrecorded"` |
| `internal/api/push.go:46` "so the next periodic check doesn't flood this brand-new subscription" | the seed is a goroutine next to the check; a check under way sends what it listed before | hazards `"lagging"`, `"overlap"` |
| `tasks.go:264` "returns the next time within [notifyStart, notifyEnd)" | before today's window has begun it returns tomorrow's | the property |
| `tasks.go:192` "скоро истекает. Продлите её" (soon ends, renew it) | with `premium_warn_days` 1 the demotion replaces a warning that waits for the window | a warning of two days |

Two more: `timecode_grace_until` is written (`db/store/telegram.go:301`) and never read, and
"0 = off" for `inactive_delete_days` (`AdminSettingsPage.tsx:866`) is 180 days (`tasks.go:205`). What each hazard of
`AccountLifecycle` breaks: `"overtaken"` `DeletionJustified` and `NoticeIsTrue`; `"pending"` `NoticeIsTrue` and
`WarnedBeforeDemoted`; `"renewed"` `WarnedBeforeDemoted`, for `premium_warned` is not reset; `"respelled"`
`DeletionJustified`, for `inactive_warned` is not either; `"stale"` `PremiumRunsItsCourse`; `"crash"`
`AnnouncedOnce`, `PremiumEndsInTime` and `WarnedBeforeDemoted`; `"silent"` the three properties of notices.

### The clients

| Code | What happens | Stated as |
|---|---|---|
| `myshows.js:3979` | back from watching, the saved list is read before the fresh one is saved | `UnwatchedLine!SettledLineIsCurrent` |
| `myshows.js:3029` | a show whose request fails never reports, and the list is never complete | `ShowDetails!FetchAlwaysEnds` |
| `myshows.js:3046` | a fetch that had read the old list saves its wrong card again | `ShowDetails!OldCardsNeverReturn` |
| `myshows.js:4212` | marks of a card opened upon another are drawn on the poster of the first | `misplaced` in `UnwatchedLine!MarksOfOpenCard` |
| `myshows.js:2128` | titles in other alphabets compare as empty | `ShowMatch!FoundBearsTheTitle` |
| `myshows.js:4710` | a lone count back over two seasons stops on its way | `MarkerAnimations!LoneCountReachesGoal` |
| `myshows.js`, the lists | a request that fails saves an empty list; an item may get the card of the other kind | `MyShowsLists!FailuresKeepLists`, `CardsAreOfTheirKind` |
| `myshows.js`, ticks | an episode is skipped on the word of a list made when the show was not watched | `EpisodeMarks!SkippedIsMarked` |
| `np_unwatched.js:1456` | the last answer to arrive is shown, not the newest | `ProgressBadges!AnswersCannotCross` |
| `np_unwatched.js:1468` | the change handled last is remembered without its profile: the same one on the next profile is not shown | `ProgressBadges!ChangesAreOfTheirProfile` |
| `np_unwatched.js:1586` | a message that needs a card fetched is applied after a later one | `StatusRows!MessagesInOrder` |
| `np.js:833` | a first pull that fails completes empty, and defaults are sent over the user's choice | `PluginSettings!DefaultsStayHere` |
| `np.js`, linking | a cancelled code still links the player | `DeviceLink!CancelledLinksNothing` |
| `np_profiles.js:1316` | the copy set aside is made on leaving a profile only | `PlayerProfiles!CopyFollowsFetch` |
| `np_profiles.js`, menu | a limit of 0 (none) hides the creation of a profile | `ProfileMenu!CreationIsOffered` |
| `catalogCategories.ts`, `np.js` | an editor that does not list a category drops its being hidden | `CategoryMenu!HiddenStaysHidden` |
| `int.js` | a picture is taken for the current one though it is not shown | `BackgroundPanel!SkipsOnlyWhatIsShown` |
| `CatalogPage.tsx:96` | the answer for another profile is cached under this one | `CatalogRows!CachedRowsAreOfProfile` |
| `CatalogPage.tsx`, hero | "nothing to show" while a row known as empty has filled | `Carousel!NothingToShow` |
| `HistoryPage.tsx` | a filter changed under a request leaves the list empty | `PagedGrid!HistoryShowsItsFilter` |

## 7. Not modelled

* Sessions, two-step login, backup codes (`internal/auth`, `internal/api/totp.go`): statements of one user, whose only races
  are those of section 5.
* The image cache, the proxies, the rate limiter, the log buffer, the WebSocket hub's connection table: bookkeeping
  over files, processes and sockets. What the hub delivers, and loses, is in the modules of the clients.
* Rutor (a fixed number of pages), the backfill of dates and the other maintenance jobs but for their start and
  stop (`AdminPage`): loops over a list, restarted from the beginning.
* The matching of titles to TMDB in `parser/` and `internal/tmdb`: pure, and about text.
* The settings pages, statistics and log-in pages of the web client, the rendering plugins (cards, themes, buttons): they draw
  what a request answered.
* Deployment scripts, migrations, static assets.

What a next version should take first: the order of the menus as a theorem, over a definition without folds; the types of the
clients' parts; the read-modify-write of a card's progress against an abstract merged progress.
