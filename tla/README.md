# A verification of YoutubeArchive in TLA+

YoutubeArchive is a FastAPI application that copies YouTube playlists: it
imports the metadata of a playlist, downloads its videos as MP3 or MP4 files,
charges the bytes to the owner's storage quota and plays the files in the
browser.  This directory holds a model of the parts of it where several actors
work on shared state, configurations that check the model with TLC on small
instances, and theorems about it that TLAPS proves for every size.

All line numbers refer to the sources under `src/`.

## 1. The system

### Components, their state and their operations

| Component | Code | State it keeps | Operations |
|---|---|---|---|
| Sync and import jobs | `tasks.py:314-464` | one coroutine and one database session per job, with the objects the session loaded | load, extract metadata, merge, list targets, download, upload, save, fail, finish |
| Local task registry | `tasks.py:70, 182-311, 467-500` | `task_registry`: a `TaskProgress` per task, in process memory | enqueue, find active task, update, list, poll |
| Celery task backend | `tasks.py:138-311, 503-570`, `worker.py` | Redis: a record per task, an index per owner, a pointer per playlist and format; the broker's queue | the same operations as several Redis commands each; delivery, redelivery |
| Media tables | `models.py`, `crud.py` | playlists, videos, `playlist_video` rows, used bytes and quotas of users | merge metadata, mark downloaded, failed or unavailable, delete a playlist, edit quotas |
| Scheduler | `scheduler.py` | `_sync_lock`, the timer | tick: sync every playlist, one after another |
| Accounts | `auth.py`, `main.py:274-548, 619-642` | users, failed logins, lockout, one-time tokens, CSRF and session cookies | register, log in, log out, verify, reset a password, edit a user |
| Library requests | `main.py:552-835` | none of their own | pages, add, sync, delete, stream, poll a task |
| Downloader | `downloader.py` | files under `downloads/`, named by the id of their video | extract a playlist, download one video, clean up after a result or a failure |
| Media storage | `storage.py` | files or S3 objects | upload, URL of a file |
| Browser application | `static/js/app.js` | page cache, prefetches, polling timer, player queue | navigate, prefetch, invalidate, poll, play, next, shuffle |
| The rest | `config.py`, `database.py`, `schemas.py`, `mailer.py`, `migrations/`, templates, styles, deployment | settings, schema | no protocol of their own |

### How they interact

A request (`main.py`) adds or finds a playlist and enqueues a task; the task's
coroutine (local backend) or a Celery worker runs the job.  The job reads and
writes the media tables through one long-lived session and reports through
`_update_task`, which the browser polls.  The scheduler runs the same job for
every playlist, without a task on the local backend.  Requests of other
connections delete playlists and edit quotas while jobs run.  All requests and
local jobs share one event loop: between two awaits nothing else runs.

### What is hard

* A session computes with what it loaded when the job began, for as long as the
  whole sync takes; other jobs, deletions and administrators commit meanwhile.
* A `Video` row is shared by all playlists that list it, so jobs of different
  playlists interfere.
* The scheduler's syncs bypass `find_active_task`.
* A job has fifteen places where it may return, break, continue or raise, and
  each must leave the task, its counters and the scheduler's lock right.
* On the Celery backend every registry operation is several Redis commands, any
  of which may fail or be overtaken, and a message is delivered again when its
  worker is lost, but not when only the pool process that executes it is killed.
* A restart drops the registry and every job between any two commits.
* The jobs of all playlists, users and formats download into one directory, in
  threads or worker processes, and tell their files apart by name only.
* In the browser a request may be answered after the user, the address or the
  data have moved on, and several navigations may wait for one request.
* A request to the account routes reads, decides and commits without a lock, so
  overlapping requests of one account decide on what is no longer there.

### What makes each component correct

* Jobs: bytes are charged exactly, never beyond the highest quota the user was given; a file is not
  fetched twice; a download is never forgotten; metadata never reopens a
  deleted video; deleting a playlist leaves nothing of it behind.
* Registry: one active task per playlist and format; an active task is worked
  on; a finished one stays finished; counters add up; every task ends.
* Scheduler: ticks do not overlap and each one ends.
* Accounts: the site never has users but no administrator, administrators who do
  not edit one another at once cannot all be switched off, a link works once, the lockout counter misses no failure.
* Downloader: the clean-up of one job removes no file that a row names; a row
  saved as mp3 has an mp3; `.part` files are no downloads and do not outlive the jobs; what a row names
  can be streamed (the code does not keep this one).
* Browser: a page shown after an invalidation was requested after it; the screen
  and the cache agree with the addresses; no page is requested twice at once; a
  change is shown in the end; the player's queue position stays inside the queue.

## 2. The modules

| Module | What it is |
|---|---|
| `TaskLifecycle` | the abstract promise of the registry |
| `TaskLifecycle_proofs` | what every registry that implements it has |
| `SyncJobs` | jobs, local registry, media tables, scheduler, and the requests that interfere with them |
| `MCSyncJobs` | constants for TLC |
| `SyncJobs_proofs` | theorems about the registry, its refinement of `TaskLifecycle`, rows, quotas and redundant downloads |
| `SyncData_proofs` | theorems about charges, video status, counters and progress |
| `CeleryTasks` | the registry on the Celery backend, one Redis command at a time, with its workers and its faults |
| `MCCeleryTasks` | constants for TLC |
| `CeleryTasks_proofs` | theorems about types and about messages without a record |
| `CelerySafety_proofs` | theorems about the other safety properties of `CeleryTasks`, each under the faults it can stand, and the refinement of `TaskLifecycle` |
| `VideoFiles` | the files of one video and the jobs, clean-ups and rows that share them |
| `MCVideoFiles` | symmetry for TLC |
| `VideoFiles_proofs` | theorems about all safety properties of `VideoFiles` |
| `Accounts` | users, one-time links and the requests that change them |
| `MCAccounts` | symmetry for TLC |
| `Accounts_proofs` | theorems about all safety properties of `Accounts` |
| `Browser` | soft navigation: the page cache, the requests for pages, and the events of the document |
| `Browser_proofs` | theorems about all safety properties of `Browser` |

### SyncJobs: state and actions

* **Database**: `playlist` (existence), `rows` (the `playlist_video` table),
  `saved` (`local_file_path` with `format_saved`), `status` (`Video.status`),
  `used` and `quota` (`User`).  Two history variables, which no guard reads: `charged`, all
  bytes ever recorded by a save, and `granted`, the quotas each user has had.
* **Registry**: `taskStatus` and `report` (`total`, `completed`, `failed`).
* **Jobs**: `pc`, `job` (playlist and format), and the locals: `listing`
  (metadata), `absent` (videos the merge is about to insert), `todo`, `video`.
  `seen` is what the session's objects hold: the status of the videos it loaded,
  the owner's used bytes and quota.
* **Requests and scheduler**: `deleting`/`doomed` (a deletion between its load
  and its commit), `agenda` and `syncLock`.

A job takes one action per await: `JobLoad`, `BeginMerge` (the metadata
arrives, the first flush locks the playlist's row), `CommitMetadata`,
`FinishImport` or `ListTargets`/`NothingToDownload`, then for each video
`QuotaReached`, or `StartVideo`, then `DownloadOk`, `DownloadTooBig`,
`VideoUnavailable` or `AttemptFails`, then `Save`, and finally `FinishSync`.
`JobRaises` is an exception that leaves the job at any await.

Two facts about SQLAlchemy shape the model.  With `expire_on_commit=False`
(`database.py:27`) an object keeps what was loaded, so new values are computed
from `seen`; and a flush writes only columns whose value changed, so
`Flush(db, remembered, new)` leaves the database's value when the new value
equals the remembered one.  `session.refresh(playlist)` expires the playlist and
its rows, so the targets listed after the merge are read afresh; the owner is not.
An UPDATE of a row that is gone raises `StaleDataError`; hence the guards
`RowOf(r) \in rows`, and `JobRaises` as the alternative.

Left out, because no property tells them apart: titles, percentages, messages,
`download_error` and `last_download_attempt_at` (only the guard that their row
exists is kept).  Simplified: refresh and target query are one read; a playlist
deleted between the request's ownership check and its enqueue counts as deleted
right after the enqueue; one deletion per playlist at a time; ids are not reused
by SQLite; a commit whose acknowledgement is lost counts as committed or not;
the scheduler visits playlists in any order; `auto_sync` is always true, since
`set_playlist_auto_sync` has no caller; the quota on the number of playlists is
not enforced by `AddPlaylist`.

### CeleryTasks: state and actions

* **Redis**: `record` (the JSON under `ytarchive:task:<id>`, reduced to its
  status and to whether it names its owner), `index` (the set of the owner's
  tasks), `active` (the pointer per playlist and format).  `keyOf` is the
  playlist and format a task was created for, which no update changes.
* **Broker**: `waiting`, the tasks whose message is in the queue.
* **Actors**: requests (`Clients`, which the scheduler's tick is one of) and
  `Workers`, of which each executes one task at a time in its pool.  `pc` names the
  next Redis command or call, `hand` the task, `call` the status that was passed to
  `_update_task`, or that none was, `copy` the `TaskProgress` object in memory, `wish` the key a request asks for
  and `ids` what is left of the list it loads.

`Request`, `GetPointer`, `InspectFound`/`InspectStale`, `DropPointer`,
`ListIndex`, `ScanHit`/`ScanMiss` are `find_active_task`.  `Create` begins
`create_task_status`.  `_save_redis_task` is `SaveGoesOn` and `SaveEnds` over
the commands of `SaveCommand`: store, index, then mark, or check and unmark.
`Reload` is the GET of `_update_task`: a call without a status, as most reports
of a job are (`tasks.py:342`, `355`, `370`, `399`), keeps the one that is stored, and
takes a record that cannot be loaded for a queued one.  `Send` and `SendFails` are
`apply_async`, which may raise although the broker took the message.  `Take`,
`Progress`, `Finish`, `Disposed`/`DisposeRaises` and `Ack` are the worker's
wrappers with late acknowledgement; what a job does in between is in `SyncJobs`.

Faults: `FindError`, `ReloadError` and `SaveError` are a Redis command that
raises, applied or not, at each place with what the caller's `except` makes of
it.  Three mishaps concern messages.  `Die` kills a request, or a worker as a whole;
the broker then delivers the worker's message again.  `PoolProcessDies` kills only the
pool process that executes the job (the out-of-memory killer does): `worker.py:11-15`
sets `task_acks_late` but not `task_reject_on_worker_lost`, so Celery acknowledges the
message, nothing delivers it again and the record stays `running`.  `Redeliver` is the
broker's visibility timeout: `worker.py` acknowledges late and sets no timeout, so a
job of more than an hour is delivered to a second worker while the first goes on.
`lapsed` holds the workers whose message was given up this way: killing one of them
puts nothing back.  The history variable `abandoned` holds the tasks of which a job was
killed whose message does not come again; no guard reads it.  `SendErrors`,
`EngineFails` and `Redelivers` switch faults on.

Bounds: `MaxFaults`, and `MaxMishaps` for killed actors, killed pool
processes and early deliveries together.  `OutOfIds` drops a request when no id is
left, so that the last ids do not block the rest.

Left out: the expiry of records after `TASK_STATUS_TTL_SECONDS` (a day); the
limit of ten that `/tasks/active` puts on its list; other owners, who share no
key with this one; counters and error lists.

Concurrent requests for the same playlist can both miss the other's task and
create two, since the check and the creation are separate commands.  Nothing in
the repository says that this backend excludes it, so `LifecycleSpec` is claimed
while requests are apart (`RequestsApart`): at no time are two of them between
the look at the index and the entry of a new task there, for the same key.  A web process killed between the
record and the message leaves a queued task that nothing executes, until its
record expires; `NothingForgotten` and `TasksEnd` are therefore checked for
killed workers only.  Both except the tasks in `abandoned`, which the code does give
up: one whose pool process was killed, and one that was delivered again, finished by
the second worker and reported `running` once more by the first, which then is killed.

### VideoFiles: state and actions

The files of a video start with its id, and every glob of `downloader.py` names
the id, so one video at a time shows everything.

* **Directory**: `files`.  A file is named by what follows the id: `mp3` and
  `mp4` are the media asked for, `x.mp4` stands for `<id>.<tag>.mp4` (a stream
  before a merge, the output of a merge), `webm` and `m4a` for other streams and
  for whole videos in such a container.  What is being fetched is `part`, a name that
  ends in `.part`; a stream that comes in fragments also has `ytdl` (`<id>...ytdl`) and
  `frag` (`<id>...part-Frag<n>`).  `downloader.py:203` excludes only the first of the
  three from the new files, and lines 132 and 140 do not delete the last.
* **Rows**: `path` and `format`, the `local_file_path` and `format_saved` of each
  `playlist_videos` row of the video.
* **Jobs**: `pc` and `job`: the row and format, whether yt-dlp returned 0 (`ok`), the
  chosen file (`path`), and the streams FFmpeg is to convert (`streams`).  `listed` is
  the listing made before yt-dlp was called, less what another fetch has since begun
  under names that were not in it: an abstract name stands for many.
* **Faults**: `crashes`, and the history variable `litter`: a process was killed
  since the last clean-up.  No guard reads it.

| Code | Actions |
|---|---|
| `list_available_download_targets` and the loop of `sync_playlist` | `Begin` |
| `_download_video_sync` | `Look`, (yt-dlp), `Judge`, then `Sweep`, or `Drop` for its exception handler |
| `_find_downloaded_file`, `_cleanup_temporary_downloads` | the operators `FindDownloadedFile` and `Temporary` |
| `stat`, the quota, `upload_file` | `Upload` or `UploadFails` |
| `mark_video_downloaded` | `Record` |

External are the steps of yt-dlp and FFmpeg (`FetchStart`, `FetchStreams`,
`FetchWhole`, `ConvertStart`, `ConvertEnds`, `YtDlpFails`), as the options that the
code passes make them: a best audio stream converted to `<id>.mp3`, or a whole
`<id>.mp4` where there is no audio stream; two streams merged to `<id>.mp4`, or
`best` as it comes.  With `ignoreerrors` an error is a result.  A job of another
process may do any of its steps between any two of these.

Left out: the contents and times of files (the newest of several candidates is
any of them), S3, which adds an upload that may fail like `UploadFails`, and the
deletion of rows, which removes no file.

Five behaviours show in this model and are no property of it.  A fallback
`<id>.webm` that an mp4 job finds in its first listing is never new, so every
further mp4 sync fails with "No downloaded file found" (`downloader.py:202`).  A
`<id>.mp3` that FFmpeg had only begun to write when its worker was killed is
reused as a finished download, and a leftover `<id>.f137.mp4` as an mp4
(`downloader.py:117-127`).  Two jobs that fetch at once share their partial
files.  An mp4 job that yt-dlp left without a file of its kind takes the newest new
file, which may be the `.ytdl` or `.part-Frag<n>` file of another job
(`downloader.py:199-210`): the row then names it.  And the `.part-Frag<n>` files of a
killed job stay for good unless yt-dlp itself takes them up.

### Accounts: state and actions

* **Database**: `account` (a row of `users` per address, reduced to whether it
  has a password, is active, verified and a superuser, the failed logins and the
  lock) and `link` (a row of `auth_tokens`: user and purpose), with `used` and
  `expired`.
* **Requests**: `pc`; `who` and `seen`, the account a request works on and the
  row its session has loaded; `admin`, the administrator who makes it; `first`,
  what `count_password_users` returned; `token`, the link it follows.
* **History**: `streak` counts the failed logins in a row, `changes` what a link
  has changed, and `contended` holds the accounts that two requests had in hand
  at once.  Overlaps do lose updates in this code, so `LinksWorkOnce` and
  `LockoutCounts` claim something of the accounts outside `contended` only.  The
  code never reads these variables, and no guard of the model does.

| Code | Actions |
|---|---|
| `register_user`, `register` | `Register`, `CountUsers` or `AlreadyRegistered`, then `CreateUser`, `EmailTaken` (the unique index refuses the second row) or `UpgradeUser`, then `IssueToken` if the address is to be verified |
| `forgot_password` | `ForgotPassword`, `IssueToken` |
| `consume_auth_token` and its two callers | `FollowLink`, `Consume`, `Refresh`, then `ApplyVerify` or `ApplyReset` |
| `authenticate_user` | `Login`, then `CountFailure` or `LogIn` |
| `require_superuser`, `update_user_admin_settings` | `EnterAdmin`, `LoadUser`, `EditUser` |
| time, lost requests | `LockEnds`, `TokenExpires`, `Abort` |

`Commit` is a flush as in `SyncJobs`: a column is written only if the new value
differs from the one the session read.  That matters here as well: a correct
login that read a counter of 0 does not clear the failure another request has
committed since, and `session.get` hands an administrator who edits the own
account the row that was loaded with the request.

Left out: everything computed without shared state (password hashes, CSRF and
session cookies, the invitation code, which addresses are well formed), rate
limits, and the quotas in the administrator's edit.  Simplified: a commit and
the `refresh` that answers the request are one step; a request that finds
nothing to do is no step; users of the time before passwords exist as
`tests/test_auth.py` makes them, since no code creates them any more.

`SomeoneAdministers` needs no history.  Two administrators who are both inside the
admin routes can switch each other off, since each was loaded with the own request
(`main.py:632`); the property excuses the edit that does so, by the administrator who
was switched off after entering, and no other step that leaves nobody active.

### Browser: state and actions

* **Document**: `location`, `shown` (what `#pageContent` holds), `entries` (the
  history reachable without a load), `timers` (pending `refreshCurrentPage`
  calls), `opening` (a playlist just added), `loggingOut`.
* **Cache and requests**: `cache` is `pageCache`, a sequence since a JavaScript
  `Map` keeps the order of insertion and `trimPageCache` deletes the oldest;
  `fetch` holds the requests under way with the navigations that await each;
  `prefetch` is `pagePrefetches`.
* **Microtasks**: `due` holds the continuations of an answered request.  They run
  in order before any other event, so every event waits for `due` to be empty,
  and `RunDue` is the only step until then.
* **Epochs**: `epoch` counts the changes the page has learnt of.  A content
  carries the epoch of its request and `late`, whether a change was announced
  while the request was under way.
* **History**: `crossed`: an answer that keeps the address was rendered after
  the address had moved on.

| Code | Actions |
|---|---|
| click listener | `Click`, `Prefetch` (hover and the links of a page), `Changed` (sync), `ChangedHere` (delete) |
| submit listener | `Added` then `OpenAdded`, `Changed` (interval), `Logout` |
| popstate listener, `refreshCurrentPage`, `pollTask` | `Popstate`, `Refresh`, `ChangedHere` |
| `fetchPageSnapshot` and who awaits it | `FetchAnswers` then `RunDue`; `FetchFails`; `FetchIsBlank` |
| loading a page | `Reload` |

`navigateTo` is the operator `Navigate`: it shows a cached page, joins a request
under way or sends one.  Two of its options turn out to have no effect, and the
model says so: without `useCache` the request still looks in the cache first
(`app.js:160-162`), and the forced request after a cached page was shown is never
sent, because the address is by then that of the page (`app.js:228`).  A page
older than its 30 seconds is deleted when it is looked up; the model lets any
lookup find its page too old, since rendering renews the age of what it shows.

Left out: titles, scrolling, the panel of active downloads, the player, and
answers that redirect to the login page (a load of another document, as `Reload`).
Simplified: a load replaces the document at once, and a move in the history may
reach any page shown since the load, also one that a later push cut off.

A refresh or a move in the history whose answer comes after another navigation
shows its page under the new address and caches it there (`app.js:201-213`).
Nothing in the repository says otherwise, so it is no run of its own: `crossed`
records it, and `ShownIsAddressed` and `CacheIsTrue` say that nothing else ever
parts the screen or the cache from the address.

## 3. The runs

| Run | Instance | Checks | Shows |
|---|---|---|---|
| `SyncTasks` | 2 tasks of 2 users, 2 playlists sharing 2 videos of one unit, one not served, quota 1, 1 restart, no scheduler | `TypeOK`, `OneActivePerKey`, `ActiveTasksAreWorkedOn`, `CountersAddUp`, `ChargedExactly`, `NoRedundantDownload`, `NoOrphanRows`, `LifecycleSpec`, `NeverAvailableAgain`, `ReopenedOnlyBySave`, `JobsRunOut` | the local registry implements `TaskLifecycle`, every exit of a job ends its task, files are fetched once per row and charged exactly across retries, restarts and users; both jobs insert the same video, deletions overlap merges, a stale download reopens a video marked deleted, and no step of a job goes back |
| `SyncOverlap` | a task in either format and the scheduler, 1 playlist, 1 video of two units, quotas 1 and 3, 1 restart, fair | `UsedWithinSomeQuota`, `NeverOvercharged`, `SavedVideosAreMarked`, `TasksEnd`, `AutoSyncEnds` | two jobs of one row, in the same format or not, save from stale objects while the quota is edited; every task and every tick ends |
| `CelerySerial` | 3 tasks, 2 keys, 2 requests that are apart (`CONSTRAINT RequestsApart`), 1 worker | `LifecycleSpec` | the Celery registry implements the same `TaskLifecycle`, whatever the order of the commands |
| `CeleryCrash` | 1 task, 1 request, 2 workers, 2 mishaps (a worker lost, a pool process killed, a message delivered too early), sends that fail, fair | `TypeOK`, `NothingForgotten`, `ActiveTasksAreIndexed`, `RecordsKeepTheirOwner`, `TasksEnd` | a redelivered task is indexed, worked on and ended, even by two workers at once; only a killed job that is not delivered again leaves its task behind |
| `CeleryFaults` | 2 tasks, 1 key, 2 requests, 2 workers, 2 failing commands, 1 killed request | `MessagesHaveRecords`, `FinishedStaysFinished` | half-made registry entries never reach a worker, and nothing finished starts again |
| `Accounts` | 2 requests, 2 accounts, one of which may be from before passwords, 1 link, lock after 2 failures, verification on, no `ADMIN_EMAILS` | `TypeOK`, `FirstUserIsAdmin`, `LinksWorkOnce`, `LockoutCounts`, `SomeoneAdministers` | racing registrations, logins, links and edits leave the accounts in order |
| `Browser` | 2 pages, a cache of 1, 2 requests with up to 2 navigations each, 1 announced change, fair | `TypeOK`, `ShownIsAddressed`, `CacheIsTrue`, `FreshCache`, `PrefetchesInFlight`, `OneFetchPerPage`, `NewsIsShown` | whatever the order of clicks, answers, failures and changes, screen, cache and requests agree, and a change is shown |
| `VideoFiles` | 2 jobs of one row, both formats, fetches with and without fragments, 1 killed process | `TypeOK`, `NothingTemporaryLeft`, `SavedAsAsked`, `RecordedMediaStays` | whatever two jobs write, sweep and record at once, recorded media stay, `.part` files go and are never recorded, and an mp3 row has its mp3 |
| `LostCharge` | 1 task and the scheduler, 1 video | `ChargedExactly` is violated | the scheduler's save and the task's save overwrite each other's total |
| `OrphanRows` | 2 tasks, foreign keys not enforced | `NoOrphanRows` is violated | a merge commits between the load and the commit of a deletion |
| `MissingMedia` | 1 job at a time, 2 rows | `StreamServesRecorded` is violated | an mp3 download takes the file away that an mp4 row names |
| `CeleryOwnerless` | 1 task, 1 failing command | `RecordsKeepTheirOwner` is violated | an update that cannot load the record stores a blank one |

Why the bounds are enough:

* Two tasks race for a key, or one starts after the other has finished, failed
  or was lost; they work on one playlist, or on two playlists of two users that
  share their videos.  More tasks differ only by their ids.
* Two videos of one unit under a quota of one, in both orders: the first fits and
  the second does not, a listing loses or gains one of two, and one of them is
  gone from YouTube.
* Quotas 1 and 3 with a file of two units: one refuses it, the other holds one
  and refuses the next.
* The interference of jobs is pairwise (one loads, the other commits, the first
  writes), so two jobs show it; a third only repeats it.
* One restart may fall between any two steps; the state after it is like the
  state after any other.
* In `CelerySerial` a behaviour ends where two requests decide about one key at
  once; everything else they do overlaps.  With one worker the jobs run one after
  another; the theorem covers any number of workers and requests.
* Two failing commands cover a failure in the handler of the first one.  One
  killed worker, or one early delivery, is enough to have a task executed twice; the
  second mishap then meets a worker whose message has been given up.
  Tasks of the Celery registry meet only in `find_active_task`, which
  `CelerySerial` and `CeleryFaults` give several of; `CeleryCrash` does with one.
* Two jobs of one video are one that writes and one that sweeps, in either format;
  a row is recorded, listed again in the other format and recorded once more, while
  the other job does the same, so one row is both what was recorded and what is being
  recorded (`MissingMedia` has two).  The theorems cover any number of each and of
  crashes.
* Two accounts are an administrator and an ordinary user, or two administrators;
  two requests are what an overlap takes.  With verification on and an empty
  `ADMIN_EMAILS` every step is taken; the theorems cover the other settings.
  One link may be issued, followed, cut off and followed again; a second one
  meets it only through the account, as logins do.
* Two pages are the one left and the one reached, and a cache of one is full at
  once, so that storing replaces, appends and trims.  Two navigations show the
  order in which an answer's continuations run.  A second change finds the state
  the first one left; the theorems cover any number of each.

Tasks, workers and requests are interchangeable, and the runs without liveness
use that symmetry.  A system may stop when all ids are used, but Celery workers
and requests, timers and deletions always have a step left, so deadlock is
checked in every run.

The four violated properties are real disagreements with the repository:

* `LostCharge`: `mark_video_downloaded` (`crud.py:281`) adds to a total loaded
  at the start of the job, so overlapping jobs of an owner lose charges.  Users
  are charged too little, never too much (`NeverOvercharged`).
* `OrphanRows`: `models.py:95` declares `ON DELETE CASCADE`, which SQLite does
  not enforce unless a connection asks for it, and `database.py` never does.
* `CeleryOwnerless`: `_update_task` (`tasks.py:287-289`) takes a failed GET for a
  missing record and overwrites the real one.
* `MissingMedia`: after an mp3 download the clean-up deletes `.webm`, `.m4a` and
  `.opus` files of the video (`downloader.py:142`), and `FFmpegExtractAudio`
  deletes the `<id>.mp4` it converts, although the row of another playlist names
  that file; `/stream` then answers 404 for good, since the row counts as saved
  (`crud.py:258-260`).  `RecordedMediaStays` and `SavedAsAsked` say how far it goes: an mp3
  row never loses its file, an mp4 row never loses an `<id>.mp4` to a clean-up.

## 4. Fairness

`FairSpec` of `SyncJobs` assumes weak fairness of every job and of the
scheduler's coroutine.  The event loop resumes every coroutine whose await has
ended, and every await ends: HTTP, `yt-dlp` and database calls have timeouts or
raise.  One weak fairness per job suffices because its steps only go forward: no
step returns to an earlier one with the same `todo`.  Users, administrators,
timers and restarts are not assumed to do anything.
`FairSpec` of `CeleryTasks` assumes weak fairness of every request and every
worker: a thread or process that is not killed goes on, since Redis calls have
socket timeouts.  A job may report progress any number of times in the model, so
strong fairness of `Finish` says that it ends: it has finitely many videos and
`SyncOverlap` shows that each of its loops ends.  Nobody has to make a request, and
nothing has to fail or die.

`FairSpec` of `Browser` assumes that a request ends, that microtasks run and that
a timer fires.  `fetchWithTimeout` aborts a request without headers after 15
seconds; that a body once begun ends as well is assumed of the network, as the
code stops its timer with the headers.  The fairness of `Refresh` is strong
because what can disable it in between are the bounds on requests and waiting
navigations, which the browser does not have.  The user does not have to do anything.

## 5. The proofs

TLAPS checks the following for every number of tasks, playlists, videos, users
and formats, from `ConstantsAssumption` (identifiers are distinct, `Owner` and
`SizeOf` are functions of the right type, `Videos` is finite).

* `TypeCorrect`, `TasksKeptApart`, `NoTaskIsForgotten`, `ImplementsLifecycle`
  (`SyncJobs_proofs`).  The inductive invariant `RegistryInv` joins `TypeOK`,
  the fact that a job that runs has a target (`WorkingOnAJob`) and a real format
  after it left the import's path (`SyncsHaveAFormat`), `OneActivePerKey` and
  `ActiveTasksAreWorkedOn`.  Neither of the last two is inductive alone: that a
  task enters the registry only while no other is active for its key needs the
  job of every active task, and that a finished task never moves again needs its
  coroutine to be gone.  `JobStepEffect` says once what any step of a job may do
  to the registry, so the refinement needs no case of its own per step.
* `NoOvercharge` (`SyncData_proofs`).  `used[o] <= charged[o]` is not inductive:
  a save writes `seen.used + size`.  The strengthening says that every session
  remembers at most what has been charged, which grows only.
* `SavedAreMarked` and `MarksNeverLost` (`SyncData_proofs`).  A merge writes a
  status only for a video it found missing or unlisted; the strengthening says
  that a row's video has been inserted, and that what a session remembers of a
  saved video still lets its flush leave the mark.
* `ReopenedOnlyByDownload` (`SyncData_proofs`).  `OpenTargets` says that no target
  waiting or in hand was deleted when it was listed, and that the session does not
  learn of a later deletion; a step that changes a deletion mark can then only be
  the save of such a target.
* `EveryTargetIsCounted` (`SyncData_proofs`).  `CountersAddUp` is inductive by
  itself, given that the videos are finite: beginning a loop, taking up a target
  and giving it up or recording it are the only steps that touch a term of the sum.
* `ChargesOfOneUserAreExact` and `ChargesAreExact` (`SyncData_proofs`).  The condition
  is one on time, not on the instance: `SyncsApart(o)` says that two syncs of the user
  are not past their load at once.  Imports, syncs of other users, deletions, quota
  edits and restarts may overlap with them at will.  `ExactFor(o)` adds to
  `used[o] = charged[o]` that the session of the running sync remembers what the
  database holds; the sync of another user never writes `used[o]`.
  `RegistryKeepsChargesExact` derives the condition from `OneActivePerKey` where users
  have one playlist and one format and nothing is scheduled (`OneSyncPerUser`).
* `EveryStepIsProgress` (`SyncData_proofs`).  `StepsLeft` bounds the steps of a job by
  its step and the cardinality of what it has still to do; every action of a job
  lowers it, and no action of anyone else touches it.  It is what `TasksEnd` and
  `AutoSyncEnds` need besides fairness, which the prover cannot use.
* `NoOrphans` (`SyncJobs_proofs`), under `ForeignKeys`: a job between the first
  flush and the commit of its merge works on a live playlist, which is what the
  row lock is for.  `NoOrphansWithoutOverlap` needs no foreign keys, but that no merge
  overlaps a delete request of its playlist (`DeletesApart`); then what the request
  loaded is still all the playlist has when it commits (`DoomedAreAll`).
* `QuotasBound` (`SyncJobs_proofs`): a job that is about to save has room under
  the quota it remembers, and that quota is one this very user has had (`granted`).
* `NothingFetchedTwice` (`SyncJobs_proofs`), as long as no two jobs download for the
  same playlist and format at once (`LoopsApart`): every target in hand or waiting
  lacks the job's format, and only such a job could spoil that with a save.  It also
  needs that rows outside the table hold no file (`UnsavedOutsideRows`), that the video
  in hand is not waiting as well (`InHandIsNotWaiting`) and that none is in hand
  between two downloads (`NothingInHandBetween`).  `RegistryPreventsRefetches` draws the
  condition from `OneActivePerKey` where nothing is scheduled: the scheduler's jobs are
  not in the registry.
* `OneTaskPerKey` and `TasksOnlyMoveOn` (`TaskLifecycle_proofs`) say once what a
  refinement of `TaskLifecycle` is worth: one active task per key, and a task that
  moves on under one key and never leaves done or failed, unless the server loses it.
  `PolledTasksMoveOn` (`SyncJobs_proofs`) and `BackendsAgree` (`CelerySafety_proofs`)
  instantiate them for the two registries.
* `TypeCorrect` and `NothingSentUnrecorded` (`CeleryTasks_proofs`), from
  `CeleryAssumption`, for any number of failing commands and killed processes.
  The types need `LocalsAreSet`: an actor beyond its search has a task in hand,
  and only requests search.  `MessagesHaveRecords` alone is not inductive, as a
  request sends and a killed worker puts back what it has in hand; the
  strengthening `HeldTasksAreRecorded` says that this task has a record as soon
  as the request is past its first command, and that nothing ever deletes one.
* `OwnersKept`, `TasksAreFindable`, `NoneForgotten`, `FinishedStays` and
  `RequestsApartImplementLifecycle` (`CelerySafety_proofs`), for any number of tasks, keys
  and actors.  Each names the faults it needs excluded, and the runs show that they
  have to be:

  | Theorem | No Redis command raises | No request is killed | No worker is killed | No early delivery | No error of `apply_async` after it sent |
  |---|---|---|---|---|---|
  | `OwnersKept` | yes | | | | |
  | `TasksAreFindable` | yes | yes | | | |
  | `NoneForgotten` | yes | yes | | | |
  | `FinishedStays` | | | yes | yes | yes |
  | `RequestsApartImplementLifecycle` | yes | yes | yes | yes | yes |

  `NoneForgotten` holds for any number of lost workers, killed pool processes and early
  deliveries, since the tasks these leave behind are in `abandoned`.
  The last theorem also needs `dispose()` not to raise, and `RequestsApart` at every
  state; with a single request at a time that holds by itself
  (`SerialImplementsLifecycle`).
  Every step is one of an actor (`Act`), and leaves the locals of the others alone
  (`OthersStay`); `StoreFacts`, `IndexFacts`, `WaitingFacts`, `HoldingFacts`,
  `SavingFacts` and `UpdateFacts` say once which step may change the records, the
  index, the queue, the task in hand, and start a save or an update.
  An owner is lost only by a save of an object that was not loaded, so `OwnersInv`
  follows the object in memory.  `IndexInv` adds that whatever a process deals with
  past its first two commands, and whatever waits, is in the index.  `CareInv` names
  the processes that still have to report a final status (`Tends`).  `OneHolder` and
  `WaitingIsFree` say that a task is dealt with by one actor, up to a request that
  gave up although its message was sent; with them `OrderInv` knows the record of
  every task that is in hand or waits as active, which is why nobody can make a
  finished one active.  `LifeInv` joins all of these with what a job has reported
  (`ProgressInv`) and with the search of a request, which misses no active task of its
  key (`SearchInv`): whoever could enter one meanwhile decides about the same key, and
  `WishInv` says that a request deals with the key it was asked for.
* `TypeCorrect`, `Mp3IsServed`, `DirectoryIsClean` and `MediaStays`
  (`VideoFiles_proofs`), from `Assumptions`, for any number of jobs, rows and
  crashes.  `DownloadFacts` says once which file a result may be: the wanted name
  while it is there, and for an mp3 job that succeeded always `<id>.mp3`.
  `SavedAsAsked` is not inductive: `Prepared` says what a job has made sure of at
  each step, so that from the search on an mp3 job's file is in the directory, and
  `Mp3Stays` that no step of any job deletes `<id>.mp3`.  That the file `part` goes
  needs that whoever fetches is followed by a clean-up (`PartStep`).
* `Mp3RowsAreServed`, `NamedMediaIsServed` and `OneJobIsServed` (`VideoFiles_proofs`) say
  when the property that `MissingMedia` refutes does hold.  With mp3 jobs only it
  holds whatever overlaps, fails or dies.  With both formats, rows that name `<id>.mp3`
  or `<id>.mp4` are served as long as no mp3 is made of an `<id>.mp4`
  (`SoundComesApart`): `ServedInv` extends `Prepared` to mp4 jobs.  All rows are served
  if besides jobs come one after another and no mp3 job meets a row that names
  `<id>.webm` (`OneJobAtATime`, `SoundElsewhere`): then what a job's clean-up deletes is
  no row's and no other job's.  Neither of these two conditions can be left out: TLC
  finds `StreamServesRecorded` violated without the one or the other.
* `TypeCorrect`, `AlwaysAnAdmin`, `OneUsePerLink`, `LockoutIsExact` and
  `AlwaysAdministered` (`Accounts_proofs`), from `AccountsAssumption`, for any
  number of addresses, requests and links and every setting.  `TypeInv` adds what
  a request has in hand at each step (`HoldsWhatItNeeds`), since a commit of a row
  that was never loaded would have no type.  `AlwaysAnAdmin` rests on rows only
  gaining passwords and marks (`RowsGrow`), on users without a password being
  superusers, and on a request that does not store the first user having seen
  another.  `OneUsePerLink` and `LockoutIsExact` share `HandsMeet`: whatever two requests
  hold is on record in `contended`.  Outside it `LockInv` says that a request about to
  count computes with the counter in the table, and `LinkInv` that a link which has
  changed something is followed by overlapping requests only.  `AlwaysAdministered`
  uses no record of overlaps: `AdminInv` says that whoever is inside the admin routes
  has the superuser's mark, `SwitchedOff` that the only commit to switch an active user
  off is an edit, which spares whoever makes it; if that one is still active, somebody
  is.
* `TypeCorrect`, `NothingStale`, `NoDeadPrefetch`, `RequestsAreShared`,
  `ScreenIsAddressed` and `CacheStaysTrue` (`Browser_proofs`), from
  `BrowserAssumption`, for any site, cache and number of requests, navigations
  and changes.  `StoreFacts` and `DroppedFacts` say once that storing and deleting
  keep the cache a bounded map with no entry nobody stored; `NavigateCases` and
  `FailureCases` what a navigation and a failure may do.  Neither property of the
  requests is inductive alone: `Registry` says that every request is entered
  under its page, so that the entry a finished request deletes is its own.
  `NothingOld` extends `FreshCache` to the requests under way and the
  continuations, which still reach the cache.  `Addressed` joins the last two: a
  cached page is shown at its own address only if the cache is true.

Every run that expects a violation thus has a theorem that says when the property
does hold: `ChargesAreExact` for `LostCharge`, `NoOrphans` and `NoOrphansWithoutOverlap`
for `OrphanRows`, `OneJobIsServed` for `MissingMedia`, `OwnersKept` for
`CeleryOwnerless`.  Their conditions are stated of behaviours, `Spec /\ []C => []P`, and
say of the program at which overlaps a lock would have to be placed.

Only model-checked: all liveness (`TasksEnd`, `AutoSyncEnds`, `NewsIsShown`), which is
out of the prover's reach.

## 6. What is not modelled, and the plan

| Part | Why not | Plan |
|---|---|---|
| Sessions, CSRF and invitation codes | computed without shared state | none |
| Library requests | what jobs see of them is in `SyncJobs` and `CeleryTasks`, what `/stream` finds in `VideoFiles`; the rest reads only, but for the quota on playlists, whose check and insertion are separated by awaits (`crud.py:178`) | `Library`: that race, and the charge of a replaced file |
| Contents of media files | names are what the code looks at | a complete or truncated mark per file in `VideoFiles` |
| Player and downloads panel | shares only the document with the page cache | `Player`: queue position, shuffle and repeat, polling |
| Expiry of Redis keys | a day, far longer than a job | a constant of `CeleryTasks` that switches it on |
| S3 storage, mail, rate limits, health page | input and output only | none |
| Configuration, schema, templates, deployment | no protocol of their own | none |

Planned theorems: the conditions of `OneJobIsServed` without `OneJobAtATime`, for jobs of
one format; `NoneForgotten` for killed requests, up to the tasks they leave behind.
The order of the table is that of the loss: quotas and files guard what cannot be
restored, the browser's state is gone with a reload.

Two behaviours of the code are modelled and not judged.  A video that one
playlist no longer lists is marked `DELETED_ON_YT` for all playlists that share
it (`crud.py:201-203`); `sync_playlist_metadata` is written to set that mark.
And a playlist synced in two formats in turn is fetched and charged again at
each change, because a row holds one file.
