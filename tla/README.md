# PlaylistManager in TLA+

This directory specifies the core logic of PlaylistManager, the FAST-channel
playlist and guide server of this repository: TLA+ modules, TLC configurations
that check them on small instances, and TLAPS proofs of what matters most for
every size.

## The system and its parts

PlaylistManager scrapes channel lists and programme guides from some twenty
streaming services into one SQLite database, lets the user enable, number and
group channels into feeds, and serves M3U playlists and XMLTV guides built from
them. `entrypoint.sh` starts Redis (nothing persisted), four worker roles each
in a loop that restarts it 5 s after it died, and gunicorn with two gevent
workers.

| part | code | state it keeps | operations |
|---|---|---|---|
| artifact cache | `app/xml_cache.py` | per artifact: file, temporary files, lock, stale markers (all on disk, shared by every process) | ensure, write, invalidate, delete |
| generators | `app/generators/{m3u,xmltv}.py`, `app/routes/output.py` | none (reads the database) | write M3U / XMLTV, serve artifacts |
| channel flags | `app/worker.py`, `app/routes/{api,admin,feeds_api}.py` | `is_active`, `is_enabled`, `disable_reason`, `missed_scrapes` of a channel | scrape upsert, audit, recheck, auto-disable, bulk update, PATCH, resolve duplicates, purge |
| channel numbers | `app/generators/m3u.py`, `app/worker.py` | numbers and pins per channel and feed | refresh of automatic numbers, pin, unpin |
| jobs | `app/routes/tasks.py`, `app/worker.py` (RQ on Redis) | queues, started-job registries, job hashes | trigger, cleanup of stale jobs, run |
| scrape scheduler | `app/worker.py` | `last_scraped_at` (database), `_last_enqueued` (memory) | schedule due scrapes, run a scrape in phases |
| programme guide | `app/worker.py` | programmes of a channel | upsert a window, prune, orphan cleanup |
| source configuration | `app/config_store.py`, `app/source_config.py`, `app/scrapers/base.py`, `app/routes/api.py` | `source.config` JSON | merge of scraper updates under a file lock, settings form |
| play and failover | `app/routes/play.py` (an older copy at the root) | none across requests | resolve a stream, report dead streams |
| Pluto X11 pool | `app/scrapers/pluto_x11.py` | sessions (Xvfb, Chrome, ffmpeg), resting sessions, readers, displays | stream, attach, evict, refill, broadcast |
| TS stitcher | `app/routes/ts_stitcher.py` | per web process and channel offset and last DTS, LRU | rewrite time stamps at a discontinuity |
| HLS proxy | `app/hls_proxy_blueprint.py` | variant cache, discontinuity counts, prefetch buffer | playlist, segment (not registered in `create_app`) |
| logo cache | `app/routes/images.py` | files and negative entries | fetch, prewarm, delete |
| tvtv cache, Gracenote, matching | `app/tvtv_cache.py`, `app/tvtv_lookup.py`, `app/gracenote_*.py`, `app/epg_matcher.py` | cached guide rows, community map, ID and mode of a channel, index of a guide | refresh, fill in, choose, clear, match |
| transcode | `app/transcode.py` | chosen encoder (per process) | probe, build the ffmpeg command |
| schema | `app/models.py`, `app/schema.py`, `migrations/`, `run_migrations.py` | database schema | ensure, migrate |
| scrapers | `app/scrapers/*` | tokens, keys and URLs, in an instance or in `source.config` | fetch channels, fetch EPG, resolve, audit |
| misc | `app/version_check.py`, `app/logfile.py`, `app/timezone_utils.py`, `app/url.py`, `app/config.py` | small caches | - |
| web UI, container | `app/templates`, `app/static`, `Dockerfile`, `entrypoint.sh` | - | - |

How the parts meet: a scrape, an audit or an edit commits to the database, then
(in most cases) touches the global stale marker and asks for a refresh; the
request is a job with a fixed id, dropped when one is already queued or
running; the job rebuilds every XML artifact that is stale and rewrites every
M3U; clients read the files. A play request makes a scraper from the stored
configuration, resolves the stream, and merges what the scraper learned back
into it; dead streams come back as jobs that change channel flags.

## What is hard about each part, and what makes it correct

- **Artifact cache.** Any of several processes may rebuild a file; they exclude
  each other with a lock file only, may die at any point, and decide from file
  times whether an artifact is stale. Correct: clients only see whole
  documents, a young lock excludes, a rebuild never goes back in time, an
  invalidation is not lost, a stale artifact is rebuilt and every call returns.
- **Channel flags.** Four columns and the stream URL of a row are read, edited
  in memory and written back by scrapes, audits, rechecks, dead-stream reports
  and requests, seconds to minutes apart and at the same time. Correct: what
  the user turned off stays off, a flag outlives scrapes unless the stream
  changed, flagged channels leave the feeds, absence takes several scrapes in a
  row, one broken lineup does not take a source down.
- **Refresh requests and jobs.** Each request reads Redis several times and is
  dropped when the one job seems queued or running; the worker may die with the
  job in any state. Correct: an edit reaches the M3U files unless its request
  was lost to a known cause, the queue does not fill up, the files catch up.
- **Scrape scheduler.** Enqueues what is due by a memory of its own and the job
  registries; a scrape has phases with timeouts, a commit in the middle, and
  commits that are retried after a rollback. Correct: a source is marked as
  scraped only with its data, new tokens are stored before the channels that
  need them, the queue stays short, sources are scraped and published.
- **Channel numbers.** Sticky numbers, pins, feeds with start numbers and the
  Gracenote block share one range of integers. Correct: no number twice, a
  channel keeps its number without a reason to move, renumbering settles.
- **Programme guide.** A provider says another thing with every scrape, and a
  window is replaced while time passes. Correct: no two programmes at a time,
  nothing lost outside the window.
- **Source configuration.** One JSON value merged by some and overwritten by
  others. Correct: a merge takes back nothing another process has stored.
- **Play and failover.** A failing stream is reported and the client sent to a
  duplicate. Correct: redirects end, and nothing disables a channel but what says or
  is taken to say that its own stream is dead.
- **Pluto pool.** Sessions, readers, a reaper and launches outside the lock.
  Correct: no session without an owner, readers are counted, the limit holds
  unless launches overlap, what nobody watches goes.
- **TS stitcher.** Offsets modulo 2^33 per channel in an LRU, one in each web
  process. Correct: a player that is alone sees no jump while one process serves it.
- **Roku session, resolvers.** Tokens, URLs and a cooldown live in the
  configuration and in instances made from it; others expire by age. Correct: no
  request made after a cooldown began ends it, nothing expired is used or stays in the way, a
  failed request does not pass for the end of a channel.
- **Scrapers' lineups and guides.** Requests fail one by one, parts list the
  same channel twice. Correct: without failures nothing is missing, failures
  change no identity, and cost other channels nothing.
- **Logo cache.** An image and its type are two files, with three kinds of
  parties at them. Correct: an image is served with its own type, and comes back.
- **tvtv cache, Gracenote, matching.** Nightly batches that fail, a map cached by
  mtimes, an index kept per process, IDs and keys written by scrapes, jobs and
  users. Correct: gaps are bridged, a fresh map is the file's, the user's choice
  stays, a match is with the guide asked for.
- The rest is HTTP clients, tables, formatting and one-off migrations, whose
  state the properties above do not tell apart.

`PROJECT.json` lists the hazards line by line, with the properties that cover
them.

## Modules

| module | models | run | proofs |
|---|---|---|---|
| `XmlCache` | one XMLTV artifact: `ensure_xml_artifact`, `invalidate_xml_cache`, `delete_xml_artifact` | `xml_cache` | `XmlCacheProofs` |
| `PublishedDocument` | what clients of an artifact are promised; implemented by `XmlCache` (`Implements`) | `xml_cache` | `XmlCacheProofs` |
| `ChannelFlags` | the flags of one source's channels and everything that writes them | `channel_flags`, `jobs` | `ChannelFlagsProofs` |
| `RefreshJobs` | requests for the `xml-refresh` job, the job, and everybody else who rewrites the M3U files | `refresh_jobs`, `requests` | `RefreshJobsProofs` |
| `ScrapeJobs` | due scrapes, the queue, `run_scraper()` | `jobs`, `live` | `JobsProofs` |
| `ProgramGuide` | the programmes of one channel | `jobs` | `JobsProofs` |
| `SourceConfig` | `Source.config` under merges and rewrites | `jobs` | `JobsProofs` |
| `LogoCache` | the logo directory | `jobs`, `live` | `JobsProofs` |
| `ChannelNumbers` | numbers and pins | `jobs`, `feed_pins` | `JobsProofs` |
| `PlutoPool` | screen-grab sessions of one web process | `streaming`, `live` | `PlutoPoolProofs` |
| `PlayFailover` | `play()`, manifest proxies, the auto-disable job | `requests` | `StreamingProofs` |
| `TsStitcher` | joining time stamps, in every web process | `streaming` | `StreamingProofs` |
| `RokuSession` | what Roku's scraper keeps between instances: URLs, play ids, the cooldown | `streaming`, `live` | `StreamingProofs` |
| `ScraperResolvers` | `resolve()` and `audit_resolve()` of the other scrapers | `streaming`, `confirmed_dead` | `StreamingProofs` |
| `PlexScraper` | Plex: token, channel list, guide windows | `providers` | `ProvidersProofs` |
| `GracenoteIds` | the community map, and who writes a channel's ID | `providers` | `ProvidersProofs` |
| `GuideMatcher` | the EPG matcher, its index, and who writes a channel's key | `providers` | `ProvidersProofs` |
| `TvtvCache` | the nightly guide cache | `providers` | `ProvidersProofs` |
| `ScraperLineups` | `fetch_channels()` of sixteen scrapers | `providers` | `ScrapersProofs` |
| `ScraperGuides` | `fetch_epg()` of fifteen scrapers | `providers` | `ScrapersProofs` |

`MCRequests`, `MCStreaming`, `MCJobs`, `MCProviders` and `MCLive` put several components into
one run: a behaviour picks one component at its start (`asking`,
`watched`, `working`, `provided`, `component`), that one runs, and the others stay as they begin. A
run of such a module therefore checks each component by itself, with the state
spaces added up and not multiplied. Where components share state, the shared part
is in each of them: `SourceConfig` has every kind of writer of the configuration
that `RokuSession`'s requests and scrapes meet, `ScrapeJobs` the commits whose effect on
channels is `ChannelFlags`, `PlayFailover` the auto-disable job that
`ChannelFlags` has as `AutoDisable`; the refresh job of `RefreshJobs` calls
`ensure_xml_artifact`, which is `XmlCache`, between `ReadFeeds` and
`ReadChannels`.

The definitions whose comment begins with "Faulty variant" are not used by the
specifications: each is what a plausible mistake would have made of the
operation that follows it, and the runs were shown to notice it.

### XmlCache

State on disk is `file`, `lock`, `linked` (temporary files) and `marker`
(`.xml-stale`); `pc`, `attempt`, `doc` and `mtime` are the local state of each
process inside `ensure_xml_artifact`, with one step per file-system call or
database read: `CheckLock`, `UnlinkStaleLock`, `SweepTmp`, `TakeLock`,
`FindLock`, `EndWait`, `GiveUp`, `MakeTmp`, `WriteChunk`, `CloseTmp`, `Replace`,
`Release`. The content of a document is the database version each of its
`Chunks` parts was read from. `now` counts the ticks of file-system time stamps,
because the code compares them; the age of a lock only matters against 600 s and
is `young` or `old`. `Crash` and `WriterFails` may strike anywhere,
`DeleteArtifact` is the deletion of a feed.

### ChannelFlags

`row` is the table, `writes` the pending UPDATE of each session: SQLAlchemy
sends, for an edited row, the columns that differ from what it **read**, so a
commit merges (`Merge`, `Diff`) into whatever the row has become. The sessions
are the scraper (`ScrapeLoad`/`ScrapeCommit`, `StartAudit`, `AuditChannel`,
`AuditCheckpoint`, `FinishAudit`; the scraper role runs one job at a time), the
fast worker (`AutoDisable`, `CommitAutoDisable`, `RetryAutoDisable`), and one web
request at a time (`Reenable`, `Toggle`, `ResolveDuplicates`, `CommitWeb`,
`SelectOrphans`, `DeleteOrphans`). `BulkUpdate` and `Purge` are single SQL
statements. `Abort` is any exception, timeout or death. `absent` and `disturbed`
are history variables that only properties read. `Collapse` takes the share of the
organic channels in whole numbers; the code's product of floats is one less at some
multiples of 20 from 180 on, where a lineup of just that size is let through.

### RefreshJobs

`queue`, `stuck` (the intermediate queue), `hash` (the job's status) and
`registry` (the started-job registry) are RQ's keys in Redis, `debounce` is
`lock:xml-refresh`. `registry` is `fresh`, `old` (300 s and more, which
`_cleanup_stale_started_job` looks at) or `expired` (RQ drops it when it is
read): the fast worker runs jobs in its own process, so nothing renews the
entry. Each step of a requester is one look at Redis: web handlers go `debounce`,
`cleanup`, `remove`, `queue`, `registry`, `hash`, `enqueue`
(`trigger_xml_refresh`); the scraper and the scheduler go `live`, `queue`,
`hash`, `zombie`, `enqueue` (`_enqueue_xml_refresh_job`). Refreshers are the fast
worker, the maintenance worker and a thread of a web process; each goes
`ReadFeeds`, `ReadChannels`, `Write`, `Finish`. A file is the pair of versions it
was made from; at the start it is there and up to date, or not there at all.

`forgotten` is the history variable `EditsArrive` is about: the tables for whose
last edit no refresh may be coming, because the request was

1. dropped by the debounce (`Debounce`),
2. dropped for a running job that has read that table, or for one that only
   seems to run (`LookAtLive`, `LookAtRegistry`),
3. dropped for an id in the queue whose job was deleted (`LookAtQueue`),
4. dropped for a hash that says queued while nothing is (`LookAtHash`),
5. lost with Redis or with a worker (`RedisFails`, `Crash`),
6. lost to a writer that failed (`WriteFails`), or
7. undone by a slower refresher that had read older data (`Write`).

The property says that there is no eighth cause. In particular a request is not
lost by finding the job queued, popped and not yet started, or running and not
yet at the data, although the registry, the queue and the hash are read one
after the other while the job moves between them.

### The modules of the jobs

- `ScrapeJobs`. `recent` is `last_scraped_at`, `noted` the scheduler's
  `_last_enqueued`, `round` its tick; `waiting`, `jobHash` and `started` are RQ's
  queue, hashes and registry. The job goes through the phases of
  `run_scraper()`; `session` is what its SQLAlchemy session holds and `committed`
  what this run has committed, because a commit that finds SQLite locked is
  rolled back and tried again, and `persist_source_config_updates()` commits in the
  middle. `ScrapeKillHorse`, `ScrapeKillWorker` and `ScrapeKillScheduler` are deaths.
- `ProgramGuide`. `listing` is what `fetch_epg()` returned, `guide` the rows, with a
  number that tells two batches apart. Between fetch and upsert time may pass.
- `SourceConfig`. Every party has one key of the configuration and counts up what
  it puts there; `party[p].copy` is what it read. Mergers hold the lock, rewriters
  do not; `mixed` are the mergers during whose work a rewriter committed.
- `LogoCache`. `image` and `type` are the files, one step per file operation of
  `_fetch_and_cache()` (`FetchBegin`, `FetchReplace`, `FetchOpen`, `FetchWrite`),
  of the eviction (`EvictImage`, `EvictType`, `EvictCommit`) and of the sweep.
  `torn` records the URLs at which two parties met or one died.
- `ChannelNumbers`. `Renumber` is `_refresh_auto_channel_numbers()` with the
  maps of `m3u.py`, source after source in the order of the code; each request
  that pins, clears, resets or moves a block is an action.

### The modules of streaming

- `PlutoPool`. One step per hold of `_sessions_lock`; launches hold only the launch
  lock of a channel. `viewer` is a request inside `stream_channel()`, `rester` a thread
  inside `_ensure_resting_session()`, `condemned` and `reaping` are the reaper's.
  What a failed launch may leave running (Xvfb, PulseAudio, a browser) is nobody's
  session; `leftover` says that there is some.
- `PlayFailover`. A client is at the play route, at a manifest proxy, playing or
  refused; the candidate that the sort of `_duplicate_failover_channel()` puts first
  is left open. `jobs` are the auto-disable jobs with the rollback and the retry.
  `Proxied` are the channels of sources with a manifest proxy, `Hasty` those whose
  scraper raises `StreamDeadError` for a request that merely failed (Distro, TVPass),
  `Mute` those whose provider, when the stream is dead, gives no URL or an ordinary
  error. A failure that the code takes for a dead stream puts the channel into
  `excused` (`PlayMisjudge`): a failed fetch in the manifest proxies, a failed request
  of a hasty scraper, an `ffprobe` that fails, a 401 of the probe. `PlayHiccupsForgiven`
  says that nothing else disables a channel, neither another error, nor a missing
  URL, nor what happens to the channels that a client is sent from or to. A dead mute
  stream costs nothing of the bound on hiccups, so redirects are not bounded by it.
- `TsStitcher`. A segment is its first and last stamp. Every web process w
  (`StitchWorkers`; `entrypoint.sh` starts two) has a registry of its own, `kept[w]`
  with its LRU order and `stitch[w]`, and any of them may get a segment; it loses the
  registry when it is recycled after `--max-requests` (`StitchRecycle`). `jump` is what
  the player of a segment saw, `servedBy` who served it last, `anew` the players whose
  last segment was the first that its process knew of the channel, or came from
  another process. For those nothing is claimed: the jump is what the code sends.
- `RokuSession`. Every request and every scrape makes an instance (`tuner[t]`) of the
  configuration and merges what it changed key by key (`RokuMerge`). The cooldown is
  the time it ends at, in the configuration (`cooldownUntil`) and in each instance
  (`until`): an instance with a cooldown that has ended drops it, and writes that
  back; one that gets a 403 writes its own. Both may undo a later cooldown, if the
  instance was made before that was stored; and a merge whose commit finds the
  database locked is lost (`RokuPersistLocked`). `overwritten` records both, and
  `RokuCooldownKept` says that only they can end a cooldown early.
- `ScraperResolvers`. What an instance or the configuration keeps is named by the
  time at which it was fetched; a call is one step whose requests may fail.

### The modules of the providers

- `PlexScraper`. A unit of time is four hours; an action per phase of a scrape, and
  what `run_scraper()` decides about the channel list.
- `ScraperLineups`, `ScraperGuides`. One action per scrape, in which any set of
  requests fails; the definition named for a scraper says what it makes of the
  answers. Rows are `good`, `drm`, `bare` or `none`.
- `TvtvCache`. A run with its batches, in the job or in a thread of the web process.
- `GracenoteIds`. `mapFile`, `mapCache` and `mapBusy` are the map, its caches by
  mtime and who writes or loads; `gnRow` the three columns; `gnScrape` a scrape with
  the rows it read. Cutting off and writing the file, or two writes, may leave one
  mtime (`same`): a cache then passes for that of the file, and may be another's.
- `GuideMatcher`. Guides, channels and names are sequences down to words;
  `AutoMatch` is the code's search by words, compared with the score of every
  channel (`NoneBetter`). Words are at least two letters long; those of `Brief` have
  no more, and do not count as the beginning of a name. `guideFile` is the one file
  all processes share.

## Runs

| run | asks | bounds | result |
|---|---|---|---|
| `xml_cache` | what readers and builders can rely on under crashes, stolen locks and feed deletions; that the cache implements `PublishedDocument`; that a stale artifact is rebuilt and calls return | 2 builders, 2 parts, 2 ticks, 2 versions, 1 fault | holds |
| `xml_cache_lost` | is every invalidation honoured | 2 builders, no faults | violated: finding 1 |
| `channel_flags` | one channel under all work at once | 1 channel, 2 URLs, threshold 2 | holds |
| `channel_flags_overlap` | does a flagged channel leave the feeds with the audit | 1 channel | violated: finding 2 |
| `refresh_jobs` | what becomes of requests | 1 web handler, 1 scraper, fast worker, 2 versions, 2 faults | holds |
| `requests` | two workers rewrite one file, do the files catch up; is a client served or refused in the end, and what is disabled on the way | 1 scraper, no web handler, both workers, 2 versions, 2 faults; 3 duplicates (one proxied, one hasty and mute, one mute), 1 client, 1 change, 1 hiccup, 1 locked commit | holds |
| `streaming` | what happens while channels are watched | pool of 2 with 2 viewers and 1 refill thread; 2 web processes, 3 players on 2 channels, LRU of 1, stamps modulo 8, 3 segments; 1 station, 2 requests or scrapes, 2 answers 403, cooldown 2 of 3 units of time; all ten kinds of resolvers, 4 units of time | holds |
| `jobs` | what jobs and requests do to the database and the caches | 2 sources, 1 request, a lock and a death; 4 slots of guide; 3 numbered channels, 1 feed; 2 logos; 2 mergers, 1 rewriter; a lineup of 3 channels | holds |
| `providers` | what comes from outside | Plex over a day, 2 channels; 1 channel in 3 parts for each scraper; 3 stations, 2 slots, 2 failures; tvtv with 3 stations and 2 runs; 2 Gracenote channels; 2 processes that match | holds |
| `live` | what must happen in the end | 1 source, 1 death; pool of 2; 2 stations; 2 logos | holds |
| `confirmed_dead` | is a channel that is taken for dead gone | Distro, 1 session | violated: finding 3 |
| `feed_pins` | does a number the user gave in a feed stay | 2 channels, 1 feed | violated: finding 4 |

Why the bounds are enough. A race needs two parties: two builders, mergers,
viewers, requests or processes. Two parts let a commit fall within a document, and
a scenario of overtaking needs two versions: the one overtaken and the one that
overtakes. A fault strikes a process that others then recover from. A threshold
of 2 instead of `_CHANNEL_MISS_THRESHOLD` = 3 keeps one miss that does not count
and one that does; `MinActive` = 3 and `MinSeen` = 2 scale the collapse guard's 50
and 25 down so that three channels reach it, its 60 % is kept. An LRU of one state
with two channels pushes states out, stamps modulo 8 wrap in three segments. A
lineup in three parts has a first, a middle and a last one. A cooldown of two units
can be met in its middle and at its end, and two 403s let one overtake another.
`requests` has no web handler: with one its state space outgrows what liveness
checking can do in minutes, so the loss of a request to the debounce is only met in
`refresh_jobs`, as a cause that `EditsArrive` names. Where a theorem below
states the property, the run only shows that the instance is not empty; for the
rest the bounds carry the claim.

### Findings

1. An invalidation that arrives while a build is reading is lost
   (`EveryInvalidation`): the artifact is stamped when the build ends, later
   than the marker.
2. An audit that overlaps a user's edit leaves a channel flagged and in the feeds
   (`FlaggedDropOut`): the ORM only sends what differs from what the audit read.
3. Distro's `resolve()` takes a channel for dead when the request for the feed has
   failed (`DeadIsConfirmed`).
4. The next scrape replaces a number the user gave a channel within a feed when it
   lies below the feed's start (`FeedPinsKept`).

Each property is what a line of the repository says; `PROJECT.json` quotes it.
`QuietInvalidation`, `OffStaysOff`, `ScrapesSettleFlags`, `DeadMeansGone` and
`NumbersStick` are what does hold instead.

### Hazards that the code runs into

For some hazards of `PROJECT.json` the bad case simply happens in the code. The models
let it happen too, and the properties name it as what they except, so they show that
nothing else goes wrong, and not that this does not: overlapping refreshes (`alone`)
and debounced requests (`forgotten`); downloads of guides that cross (`crossed`);
Gracenote IDs filled into rows edited meanwhile (`overtaken`), and two contents of the
map with one mtime (`same`); commits that found the database locked (`locked`);
audits that overwrite a configuration (`mixed`); overlapping launches (`crowded`);
stitcher states that are gone or in another process (`anew`), and players that share
a channel; cooldowns overwritten by older instances or never stored (`overwritten`); failures taken
for dead streams (`excused`); logos with two parties at them (`torn`). A reader that
misses the end of its stream, and a resting session that died, stay for ever; what a
failed launch leaves running is never looked for; numbers of a feed may collide with
its Gracenote block. And two duplicates that are both dead while their providers do
not say so send a client to and fro without end: `PlayRequestsSettle` excepts just
that, more than one mute dead channel that is on.

### Also seen while modelling

These are divergences between the code and its documents, or surprises, that the
models follow and no run is about:

- The stream audit never invalidates the cached feeds (`app/worker.py:834`;
  `README.md:231` says disabled channels are hidden after it).
- A channel that passes its recheck is active again and stays disabled
  (`app/worker.py:942`); a resolver that fails softly counts as passed (628-636).
- A retry after a rollback commits nothing in the auto-disable job, in
  `persist_source_config_updates()` and in PATCH handlers: the edit was discarded.
- Roku: clearing a URL from the instance does not clear it from the configuration,
  as the merge keeps entries; it goes with the next request that finds it refused.
- Plex: `channel_refresh_hours` is compared with `last_scraped_at`, which runs for
  the guide alone also set; `_fetch_lineup_grid_keys` returns `{}` instead of a pair
  when it fails (`app/scrapers/plex.py:371`, `383`, `396`); new channels get no extra
  days with their first scrape.
- HDHomeRun: the id of a channel depends on whether the tuner answered with its
  device id; a number is noted before its DRM flag is looked at, so that a second,
  playable copy is left out. Local Now does the same with locked rows.
- Sling: a failed mint raises `HTTPError`, which the handler of `RuntimeError` does not
  catch (`app/scrapers/sling.py:379`); a failing window loses the earlier ones.
- Pluto: a country that does not answer hands the channels it shares to the next one.
- M3U guides: of channels with the same key or name the last gets all airings.
- Stirr: the time-zone offset of XMLTV times is dropped (`app/scrapers/stirr.py:691-703`).
- An `ffprobe` that fails counts as no audio, hence as dead, since its exit code is not
  looked at; `_check_audio()` says "Returns True on any probe error (fail open — don't
  kill on network hiccup)" (`app/routes/play.py:123`). TVPass audits do the same.
- Time stamps are joined per web process, although any process may get the next
  segment: a player may get the jump the stitcher is there to remove.
- Roku: an instance that drops an elapsed cooldown writes `None` over one that began
  after the instance was made.
- Audits persist none of the configuration updates of their scrapers.
- tvtv: the rows of a changed schedule are never updated (`INSERT OR IGNORE`);
  `get_now_next` compares naive with aware times (`app/tvtv_cache.py:368`).
- Gracenote: clearing the community IDs leaves `gracenote_locked`, so that an ID that
  is filled in later becomes manual at the next start (`app/schema.py:213`);
  `new_only` also replaces IDs in auto mode (`app/routes/api.py:1411-1455`); IDs come
  back when a scrape was under way while they were cleared.
- The EPG matcher's index never expires in a process, although `app/epg_matcher.py:17`
  says 12 hours; scrapes of HDHomeRun and M3U sources overwrite matched keys.
- `TRANSCODE_ENCODER=nvenc` is compared with `h264_nvenc` (`app/transcode.py:40`).

### Fairness

Commits, edits, invalidations and faults are never fair, and faults are bounded:
with a crash in every build nothing would ever be rebuilt.

- `XmlCache`: a process that is scheduled goes on (WF on its steps), file
  time passes, an orphaned lock gets old, and `ensure_xml_artifact` is called
  again and again, as every refresh job calls it for every artifact.
- `RefreshJobs`: requests and refreshes go on, the fast worker takes what
  is queued (WF on `Dequeue`, `Start \/ Skip`), `entrypoint.sh` restarts it
  (`Restart`), and time passes (`Grow`). Scrapes come in for ever, which is what
  the scheduler is for: WF on `Edit(p, {})`, a request without new data. RQ fails
  what is in the intermediate queue each time the worker looks for maintenance
  between jobs; a job may come between two looks, hence SF on `Sweep`.
- `ScrapeJobs`: the scheduler ticks, the worker takes jobs and goes on (both are
  restarted by `entrypoint.sh`), requests end, and time passes: a source gets due, and
  `_last_enqueued` old.
- `PlutoPool`: the reaper goes on, and what stays without a reader is found idle:
  SF, because a session may be read from in between. Viewers, refills and the death
  of ffmpeg are not fair.
- `PlayFailover`: clients follow redirects, the fast queue is worked off.
- `RokuSession`: requests end, and every station is asked for again and again (SF:
  whether a request for it is possible depends on others).
- `LogoCache`: threads run and sweeps end; the pre-warm after every scrape fetches
  what is missing, and not each of its fetches of ten seconds meets the sweep, every
  six hours (SF on `FetchBegin` and `FetchReplace`).

In `MCLive` and `MCRequests` only one component runs in a behaviour, so one condition
on the disjunction of a step of each is one condition on each (`LiveFairness`,
`RequestsFairness`).

## Proofs

TLAPS checks the theorems below for every value of the constants. They rest on the
named `ASSUME`s of the modules and on nothing else: thresholds, batch sizes and
bounds are naturals (positive where the code's constant is), sets of channels,
stations and requesters are finite where something is counted, markers such as `Keep`
are no ordinary values. TLC evaluates each of them in the run of its module.

Every safety invariant and every action property of the passing runs is proved.
Each argument has the same form: an inductive invariant of named parts, a lemma per
action that says how it keeps each part, and the property from the invariant, or from
the invariant and one step. What makes them inductive:

- **`XmlCacheProofs`.** `IInv`, relative to `TypeOK`: `DocumentInv` (what is about to
  be renamed is complete), `PartsInv` (parts are committed data in the order read),
  `LockInv` (while no lock was voided, whoever builds holds the lock on disk and is
  alone), `NewerInv` (then what it has read is not older than the file), `QuietInv`
  (what was read before a quiet invalidation is stamped no later than it) and
  `StampInv`. None of the properties is inductive alone, as a process may be anywhere
  in its build when the step is taken. `WholeDocuments`, `Exclusion`,
  `QuietInvalidations` and `NoOlderDocument` follow, and the refinement: every step
  of the cache is a step of `PublishedDocument` or none.
- **`ChannelFlagsProofs`.** The invariant is about the pending UPDATEs, because the row
  a commit meets is not the row that was edited. `EnabledInv`: only the user's session
  ever sends `is_enabled = 1` for a row that exists; `LoadInv`: no row appears while a
  scrape runs, so what a scrape inserts is new: together `OffStays`. `FlagInv`: only
  scrapes send URLs, so the URL a scrape read is still there at its commit, and it
  clears a flag only together with a different one: `FlagsOutlive`. `MissedInv`:
  `missed_scrapes` never exceeds the scrapes without the channel, as others only reset
  it: `DroppedLate`. `SettleInv`: a row nobody touched since it was read is out of the
  feeds after the commit if it is flagged: `FlagsSettle`. `PlanInv`: undisturbed, all
  rows are as one lineup makes them, hence `GlitchesHarmless` by counting: where the
  guard does not act, 10 m < 6 (m + a) for m missing and a active seen channels, and
  the guard counts flagged channels among the missing, which only makes it act sooner.
- **`RefreshJobsProofs`.** A requester becomes pending only when it finds the queue
  empty and stops being so when it enqueues, hence `QueueStaysShort` by counting.
  `VersionInv` (nobody has read what is not committed), `AloneInv` (who is alone is
  the only refresher, and has read nothing older than the file) and `EditsArrive` are
  inductive together: a write of stale data must be strictly older than the file to
  be forgotten.
- **`PlutoPoolProofs`.** `ViewersOK`, `LaunchesOK` (one request at a time launches for a
  channel), `TablesOK` (no session outside the tables, or in two), `RestersOK`,
  `ReadersOK` (counters are the readers there are), `CapacityOK` (as long as no launch
  overlapped a request's, who launches is alone and below the limit).
  `RestersYield` is about a single step.
- **`StreamingProofs`.** Failover: `PlayHiccupsForgiven` is inductive with the
  types; `PlayRolledBack`, an auto-disable job that lost its edit has met a locked
  database, gives the action property. Stitcher: `StitchRemembered`, a player that
  is alone got what the state of its channel remembers in the process that served it
  last; modular arithmetic without division. Roku: `RokuTimely`, an instance that
  writes the cooldown does so after what it saw of it had ended, so that only one
  made before a 403 was stored can undo it; `RokuConfigOK`: the configuration is in
  step with what Roku accepts. Resolvers: `ResKeptOK`, `ResOutcomeOK`, a lemma per
  service about what its call may return (`ResultOK`), whichever requests fail.
- **`JobsProofs`.** Configuration: `OneMerger` and `CopiesAreRecent`, what a merger read
  under the lock is what is stored unless a rewriter came. Logos: `LogoUrlOK(u)`, as
  long as nobody got in anybody's way at a URL, one party is at its files and they
  are what it has made of them so far. Scrapes: `ScrapeQueueOK` counts the places,
  requests and the scheduler's find for a source (`Pending`), `ScrapeRunOK` says what
  session and database hold in each phase. Guide: what was fetched does not overlap
  either. Numbers: `NumbersIInv` adds to the properties that a pinned channel has a
  number and that after a renumbering another one would change nothing. The work is in
  the lemmas about the functions. `FreeNumberIs`: the k-th free number of a block
  exists within the range that is searched, by the least number with k free ones up to
  it. `StickyGives`, `StickyStays`: what one block gives out and to whom a channel may
  lose its number. `MapsAgree`, `SourceGiven`: the maps of the sources, one built from
  the other, only grow, so each source's share is `Sticky` of what went before. What
  is needed of that recursion (that the function exists, that two of them agree) is
  shown by a least counterexample (`LeastNumber`), as the prover cannot use the
  library's induction theorems. Hence `RenumberedDistinct`, `RenumberedSticks` and
  `RenumberedAgain`: applied to its own result, `AutoNumbers` gives it again.
- **`ProvidersProofs`.** Gracenote: `MapOK` (a cache with the file's mtime has the file's
  version), `RowsOK`, `GnScrapeOK`, `ClearingOK`. Plex: `PlexRunOK`, `PlexStoredOK`.
  Matcher: `FileWhole`, `IndexWhole`, `KeysKept`, and a lemma that for any guides and
  names the search by words misses no better channel (`NothingMissed`). tvtv:
  `TvFetched`, of what a run has not asked for yet and what it has, and `TvAhead`, from
  a complete run on the rows reach all days but one ahead.
- **`ScrapersProofs`.** The result of every scraper is what the offer and the set of
  failing requests make of it, and a lemma per scraper about that function.

Proving them made some models say more than before. `MinActive` is positive: with 0
`GlitchesDropFew` says 0 < 0 of an empty source. Time runs
for at least a day (`TvDay <= TvLastTime`). The sets of channels and stations
that are counted are finite. And `NumbersDistinct` names the pins that the Gracenote
block may run into: its first form was false for `MasterStart = 0`, where the allocator
leaves out, pins and all, a source that has no start, which no run had reached.

### Only model-checked, and why

- Liveness, which is out of the prover's reach together with `ENABLED`:
  `NothingHangs`, `FeedsCatchUp`, `ScrapeProgress`, `PoolReaped`,
  `PlayRequestsSettle`, `RokuStaleUrlsGo`, `LogosReturn`.
- Of course the violated properties.

## Not modelled, and why

- In `XmlCache`: the per-key marker (no caller passes a key) and
  `get_or_build`. One artifact stands for all; they share the marker only.
- In `ChannelFlags`: `last_seen_at`, enabling or disabling a whole source, and the
  death of a process between its commit and `invalidate_xml_cache()`. One web
  request is open at a time: two that touch the same row are serialised by the
  last write as one and a scrape are. SQLite's lock makes a commit atomic.
- In `RefreshJobs`: the order of entries in the queue (other jobs of the fast worker
  only delay), the moment RQ forgets the hash of an ended job (an id that is still
  queued by then would be skipped), Redis losing its state (it is started once,
  with the container, and keeps nothing on disk), and the jobs with other ids.
- In `ScrapeJobs`: the pause after a network outage (a global of a process that RQ
  forks for every job), and cron jobs that only call another component.
- In the scrapers: what is read out of the providers' answers (parsing, names,
  artwork), and the logins of Pluto and Tubi beyond who holds which session.
- In `PlutoPool` and `TsStitcher`: what Xvfb, the browser and ffmpeg do, and how the
  packets of a transport stream are taken apart.
- The HLS proxy: `create_app` does not register it. Category rules are a table of
  keywords; transcoding builds command lines; migrations run once; the web UI shows
  pages.

`PROJECT.json` says of each component what its modules leave out.

## Plan

1. A composition of `RefreshJobs` and `XmlCache`: one refresh that serves both kinds
   of files, after an edit and a crash, as a refinement of what a client is promised.
2. Abstract specifications for `SourceConfig` (a register per key where only merges
   are at work) and `PlutoPool` (readers and a limit), with refinement theorems.
3. The HLS proxy, should it get registered.
