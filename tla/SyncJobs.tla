------------------------------- MODULE SyncJobs -------------------------------
(***************************************************************************)
(* The sync jobs of YoutubeArchive with the local task backend: the task   *)
(* registry and the jobs of tasks.py, the database operations of crud.py   *)
(* they call, the auto-sync job of scheduler.py, and the two requests of   *)
(* main.py that interfere with a running job (deleting a playlist, editing *)
(* a quota).                                                               *)
(*                                                                         *)
(* A job is a coroutine with its own database session.  It is split where  *)
(* it awaits; between two awaits nothing else runs in the process.  A      *)
(* session remembers what it loaded (seen): it computes new values from    *)
(* that memory, and a flush writes a column only when the new value        *)
(* differs from the remembered one.  An UPDATE of a row that is gone       *)
(* raises, so every step that writes a row requires the row to exist and   *)
(* JobRaises is what happens otherwise.                                    *)
(***************************************************************************)
EXTENDS Naturals, FiniteSets

CONSTANTS
    Tasks,          \* task ids; one is used by each task ever created
    AutoSlots,      \* the scheduler's own job slot; {} where it is off
    Playlists, Videos, Users,
    Formats,        \* media formats a sync asks for
    MetadataImport, \* the pseudo format of a metadata import task
    AutoFormat,     \* the format of every scheduled sync
    NoFormat, NoVideo, NoJob,
    Owner,          \* playlist -> its user
    SizeOf,         \* video -> format -> bytes of the downloaded file
    Gone,           \* videos that YouTube refuses to serve
    Quotas,         \* storage quotas an administrator may set
    ForeignKeys,    \* does the database enforce ON DELETE CASCADE?
    MaxRestarts     \* bound on server restarts

Runners    == Tasks \cup AutoSlots
JobFormats == Formats \cup {MetadataImport}
Jobs       == [playlist : Playlists, format : JobFormats]
Rows       == Playlists \X Videos
Statuses   == {"none", "AVAILABLE", "DOWNLOADED", "DELETED_ON_YT"}
ActiveStates == {"queued", "running"}
TaskStates == {"unborn", "done", "failed", "lost"} \cup ActiveStates
Steps      == {"idle", "load", "extract", "merge", "refresh", "loop",
               "download", "save"}
Counters   == [total : Nat, completed : Nat, failed : Nat]
Memories   == [rows : SUBSET Videos, status : [Videos -> Statuses],
               used : Nat, quota : Nat]

ASSUME ConstantsAssumption ==
    /\ Tasks \cap AutoSlots = {}
    /\ MetadataImport \notin Formats
    /\ AutoFormat \in Formats
    /\ NoFormat \notin Formats
    /\ NoVideo \notin Videos
    /\ NoJob \notin Jobs
    /\ Owner \in [Playlists -> Users]
    /\ SizeOf \in [Videos -> [Formats -> Nat]]
    /\ Gone \subseteq Videos
    /\ IsFiniteSet(Videos)
    /\ Quotas \subseteq Nat
    /\ ForeignKeys \in BOOLEAN
    /\ MaxRestarts \in Nat

VARIABLES
    playlist,   \* playlist -> "none", "live" or "deleted"
    rows,       \* the playlist_video rows that exist
    saved,      \* row -> format of the media file it points to
    status,     \* video -> VideoStatus; "none" before the video is inserted
    used,       \* user -> storage_used_bytes
    quota,      \* user -> storage_quota_bytes
    deleting,   \* playlists a delete request has loaded
    doomed,     \* playlist -> videos of the rows that request loaded
    taskStatus, \* task -> its status in task_registry
    report,     \* task -> the counters published in task_registry
    pc,         \* job -> the step it performs next
    job,        \* job -> what it works on
    listing,    \* job -> videos of the playlist metadata it extracted
    absent,     \* job -> videos its metadata merge found missing
    todo,       \* job -> download targets it has not begun
    video,      \* job -> the target in hand
    seen,       \* job -> what its database session remembers
    agenda,     \* playlists the auto-sync job has not reached
    syncLock,   \* is scheduler._sync_lock held?
    restarts,   \* number of restarts so far
    charged,    \* history: user -> bytes of all downloads ever recorded
    granted     \* history: user -> the quotas the user has had so far

database == <<playlist, rows, saved, status, used, quota, charged, granted>>
requests == <<deleting, doomed>>
registry == <<taskStatus, report>>
session  == <<listing, absent, todo, video, seen>>
autoSync == <<agenda, syncLock>>
vars == <<database, requests, registry, pc, job, session, autoSync, restarts>>

-------------------------------------------------------------------------------
NoCounts    == [total |-> 0, completed |-> 0, failed |-> 0]
NothingSeen == [rows |-> {}, status |-> [v \in Videos |-> "none"],
                used |-> 0, quota |-> 0]

\* What a flush leaves in a column: the session writes only a net change.
Flush(db, remembered, new) == IF new = remembered THEN db ELSE new

IsActive(t)  == taskStatus[t] \in ActiveStates
Target(r)    == job[r].playlist
Format(r)    == job[r].format
OwnerOf(r)   == Owner[Target(r)]
RowOf(r)     == <<Target(r), video[r]>>
VideosOf(p)  == {v \in Videos : <<p, v>> \in rows}
FileSize(r)  == SizeOf[video[r]][Format(r)]

\* Mutant: the status "running" is never published.
SetStatus_NoRunning(r, s) ==
    taskStatus' = IF r \in Tasks /\ s # "running" THEN [taskStatus EXCEPT ![r] = s]
                                                 ELSE taskStatus

\* _update_task; a scheduled sync has no task id and publishes nothing.
SetStatus(r, s) ==
    taskStatus' = IF r \in Tasks THEN [taskStatus EXCEPT ![r] = s] ELSE taskStatus
Publish(r, counts) ==
    report' = IF r \in Tasks THEN [report EXCEPT ![r] = counts] ELSE report
\* Mutant: a failed attempt is not counted.
CountFailed_Not(r) == report[r]

CountFailed(r)    == [report[r] EXCEPT !.failed = @ + 1]
CountCompleted(r) == [report[r] EXCEPT !.completed = @ + 1]

\* The coroutine returns: its session closes and its locals are gone.
EndJob(r) ==
    /\ pc'      = [pc EXCEPT ![r] = "idle"]
    /\ listing' = [listing EXCEPT ![r] = {}]
    /\ absent'  = [absent EXCEPT ![r] = {}]
    /\ todo'    = [todo EXCEPT ![r] = {}]
    /\ video'   = [video EXCEPT ![r] = NoVideo]
    /\ seen'    = [seen EXCEPT ![r] = NothingSeen]

-------------------------------------------------------------------------------
\* The database may hold playlists from an earlier run of the server.
Init ==
    /\ playlist \in [Playlists -> {"none", "live"}]
    /\ rows = {}
    /\ saved = [x \in Rows |-> NoFormat]
    /\ status = [v \in Videos |-> "none"]
    /\ used = [o \in Users |-> 0]
    /\ quota \in [Users -> Quotas]
    /\ charged = [o \in Users |-> 0]
    /\ granted = [o \in Users |-> {quota[o]}]
    /\ deleting = {}
    /\ doomed = [p \in Playlists |-> {}]
    /\ taskStatus = [t \in Tasks |-> "unborn"]
    /\ report = [t \in Tasks |-> NoCounts]
    /\ pc = [r \in Runners |-> "idle"]
    /\ job = [r \in Runners |-> NoJob]
    /\ listing = [r \in Runners |-> {}]
    /\ absent = [r \in Runners |-> {}]
    /\ todo = [r \in Runners |-> {}]
    /\ video = [r \in Runners |-> NoVideo]
    /\ seen = [r \in Runners |-> NothingSeen]
    /\ agenda = {}
    /\ syncLock = FALSE
    /\ restarts = 0

-------------------------------------------------------------------------------
(* Requests that create tasks.  find_active_task, create_task_status and   *)
(* asyncio.create_task run without an await in between.                    *)

\* Mutant: queued tasks are overlooked.
FindActiveTask_Running(p, f) ==
    {t \in Tasks : taskStatus[t] = "running" /\ job[t] = [playlist |-> p, format |-> f]}

FindActiveTask(p, f) ==
    {t \in Tasks : IsActive(t) /\ job[t] = [playlist |-> p, format |-> f]}

Enqueue(t, p, f) ==
    /\ taskStatus[t] = "unborn"
    /\ FindActiveTask(p, f) = {}
    /\ taskStatus' = [taskStatus EXCEPT ![t] = "queued"]
    /\ job' = [job EXCEPT ![t] = [playlist |-> p, format |-> f]]
    /\ pc' = [pc EXCEPT ![t] = "load"]

\* POST /playlist/add: create the pending playlist or find it, then import.
AddPlaylist(t, p) ==
    /\ playlist[p] \in {"none", "live"}
    /\ playlist' = [playlist EXCEPT ![p] = "live"]
    /\ Enqueue(t, p, MetadataImport)
    /\ UNCHANGED <<rows, saved, status, used, quota, charged, granted, requests, report,
                   session, autoSync, restarts>>

\* POST /playlist/{id}/sync.
RequestSync(t, p, f) ==
    /\ playlist[p] = "live"
    /\ Enqueue(t, p, f)
    /\ UNCHANGED <<database, requests, report, session, autoSync, restarts>>

-------------------------------------------------------------------------------
(* The steps of a job: sync_playlist_by_id, import_playlist_metadata_by_id. *)

\* The session loads the playlist with its rows and videos and, for a sync,
\* the owner.  None of this is read again except by ListTargets.
JobLoad(r) ==
    /\ pc[r] = "load"
    /\ playlist[Target(r)] = "live"
    /\ seen' = [seen EXCEPT ![r] =
          [rows   |-> VideosOf(Target(r)),
           status |-> [v \in Videos |-> IF v \in VideosOf(Target(r))
                                        THEN status[v] ELSE "none"],
           used   |-> IF Format(r) \in Formats THEN used[OwnerOf(r)] ELSE 0,
           quota  |-> IF Format(r) \in Formats THEN quota[OwnerOf(r)] ELSE 0]]
    /\ SetStatus(r, "running")
    /\ pc' = [pc EXCEPT ![r] = "extract"]
    /\ UNCHANGED <<database, requests, report, job, listing, absent, todo, video,
                   autoSync, restarts>>

\* The metadata arrives; the first query of sync_playlist_metadata flushes the
\* new last_synced, which locks the playlist's row until the commit, and the
\* queries find out which of the listed videos are not in the database.
BeginMerge(r, vids) ==
    /\ pc[r] = "extract"
    /\ playlist[Target(r)] = "live"
    /\ \A q \in Runners : pc[q] = "merge" => Target(q) # Target(r)
    /\ listing' = [listing EXCEPT ![r] = vids]
    /\ absent' = [absent EXCEPT ![r] = {v \in vids : status[v] = "none"}]
    /\ pc' = [pc EXCEPT ![r] = "merge"]
    /\ UNCHANGED <<database, requests, registry, job, todo, video, seen, autoSync,
                   restarts>>

\* Mutant: the remembered status of a listed video is written with its metadata.
MergedStatus_Whole(r) ==
    [v \in Videos |->
        CASE v \in absent[r] -> "AVAILABLE"
          [] v \in seen[r].rows \ listing[r] -> "DELETED_ON_YT"
          [] v \in seen[r].rows \cap listing[r] -> seen[r].status[v]
          [] OTHER -> status[v]]

\* Mutant: a deleted video that is listed again becomes available.
MergedStatus_Reopens(r) ==
    [v \in Videos |->
        CASE v \in absent[r] -> "AVAILABLE"
          [] v \in listing[r] /\ status[v] = "DELETED_ON_YT" -> "AVAILABLE"
          [] v \in seen[r].rows \ listing[r] -> "DELETED_ON_YT"
          [] OTHER -> status[v]]

\* status after the merge: unlisted videos are marked deleted, missing ones
\* inserted, and the others keep the status they have.
MergedStatus(r) ==
    [v \in Videos |->
        CASE v \in absent[r] -> "AVAILABLE"
          [] v \in seen[r].rows \ listing[r] ->
                Flush(status[v], seen[r].status[v], "DELETED_ON_YT")
          [] OTHER -> status[v]]

\* Mutant: no unique index stops a second insertion of a video.
CommitMetadata_NotUnique(r) ==
    /\ pc[r] = "merge"
    /\ status' = MergedStatus(r)
    /\ rows' = rows \cup ({Target(r)} \X listing[r])
    /\ pc' = [pc EXCEPT ![r] = "refresh"]
    /\ UNCHANGED <<playlist, saved, used, quota, charged, granted, requests, registry,
                   job, session, autoSync, restarts>>

\* videos.yt_video_id is unique: the commit fails if another job inserted one
\* of the missing videos first.
CommitMetadata(r) ==
    /\ pc[r] = "merge"
    /\ \A v \in absent[r] : status[v] = "none"
    /\ status' = MergedStatus(r)
    /\ rows' = rows \cup ({Target(r)} \X listing[r])
    /\ pc' = [pc EXCEPT ![r] = "refresh"]
    /\ UNCHANGED <<playlist, saved, used, quota, charged, granted, requests, registry,
                   job, session, autoSync, restarts>>

FinishImport(r) ==
    /\ pc[r] = "refresh"
    /\ Format(r) = MetadataImport
    /\ playlist[Target(r)] = "live"
    /\ SetStatus(r, "done")
    /\ Publish(r, [total     |-> Cardinality(listing[r]),
                   completed |-> Cardinality(listing[r]),
                   failed    |-> 0])
    /\ EndJob(r)
    /\ UNCHANGED <<database, requests, job, autoSync, restarts>>

\* list_available_download_targets.
DownloadTargets(p, f) ==
    {v \in VideosOf(p) : status[v] # "DELETED_ON_YT" /\ saved[<<p, v>>] # f}

\* The refreshed rows and videos enter the session; the owner stays as loaded.
ListTargets(r) ==
    LET targets == DownloadTargets(Target(r), Format(r))
    IN  /\ pc[r] = "refresh"
        /\ Format(r) \in Formats
        /\ playlist[Target(r)] = "live"
        /\ targets # {}
        /\ todo' = [todo EXCEPT ![r] = targets]
        /\ seen' = [seen EXCEPT ![r].rows = {},
                                ![r].status = [v \in Videos |->
                                    IF v \in targets THEN status[v] ELSE "none"]]
        /\ listing' = [listing EXCEPT ![r] = {}]
        /\ absent' = [absent EXCEPT ![r] = {}]
        /\ Publish(r, [total |-> Cardinality(targets), completed |-> 0, failed |-> 0])
        /\ pc' = [pc EXCEPT ![r] = "loop"]
        /\ UNCHANGED <<database, requests, taskStatus, job, video, autoSync, restarts>>

\* Mutant: the early return forgets to finish the task.
NothingToDownload_Silent(r) ==
    /\ pc[r] = "refresh"
    /\ Format(r) \in Formats
    /\ playlist[Target(r)] = "live"
    /\ DownloadTargets(Target(r), Format(r)) = {}
    /\ EndJob(r)
    /\ UNCHANGED <<database, requests, registry, job, autoSync, restarts>>

NothingToDownload(r) ==
    /\ pc[r] = "refresh"
    /\ Format(r) \in Formats
    /\ playlist[Target(r)] = "live"
    /\ DownloadTargets(Target(r), Format(r)) = {}
    /\ SetStatus(r, "done")
    /\ EndJob(r)
    /\ UNCHANGED <<database, requests, report, job, autoSync, restarts>>

\* No room left according to the session: the video fails and the loop breaks.
QuotaReached(r, v) ==
    /\ pc[r] = "loop"
    /\ v \in todo[r]
    /\ seen[r].used >= seen[r].quota
    /\ <<Target(r), v>> \in rows
    /\ SetStatus(r, "done")
    /\ Publish(r, CountFailed(r))
    /\ EndJob(r)
    /\ UNCHANGED <<database, requests, job, autoSync, restarts>>

StartVideo(r, v) ==
    /\ pc[r] = "loop"
    /\ v \in todo[r]
    /\ seen[r].used < seen[r].quota
    /\ <<Target(r), v>> \in rows
    /\ todo' = [todo EXCEPT ![r] = @ \ {v}]
    /\ video' = [video EXCEPT ![r] = v]
    /\ pc' = [pc EXCEPT ![r] = "download"]
    /\ UNCHANGED <<database, requests, registry, job, listing, absent, seen,
                   autoSync, restarts>>

\* Mutant: the size of the file is not checked.
DownloadOk_AnySize(r) ==
    /\ pc[r] = "download"
    /\ video[r] \notin Gone
    /\ pc' = [pc EXCEPT ![r] = "save"]
    /\ UNCHANGED <<database, requests, registry, job, session, autoSync, restarts>>

\* Mutant: the bytes are reserved in the owner object before they are recorded.
DownloadOk_Reserves(r) ==
    /\ pc[r] = "download"
    /\ video[r] \notin Gone
    /\ seen[r].used + FileSize(r) <= seen[r].quota
    /\ seen' = [seen EXCEPT ![r].used = @ + FileSize(r)]
    /\ pc' = [pc EXCEPT ![r] = "save"]
    /\ UNCHANGED <<database, requests, registry, job, listing, absent, todo, video,
                   autoSync, restarts>>

\* The file is on disk and fits what the session knows of the quota.
DownloadOk(r) ==
    /\ pc[r] = "download"
    /\ video[r] \notin Gone
    /\ seen[r].used + FileSize(r) <= seen[r].quota
    /\ pc' = [pc EXCEPT ![r] = "save"]
    /\ UNCHANGED <<database, requests, registry, job, session, autoSync, restarts>>

\* The next target is taken up.
NextVideo(r) ==
    /\ pc' = [pc EXCEPT ![r] = "loop"]
    /\ video' = [video EXCEPT ![r] = NoVideo]

DownloadTooBig(r) ==
    /\ pc[r] = "download"
    /\ video[r] \notin Gone
    /\ seen[r].used + FileSize(r) > seen[r].quota
    /\ RowOf(r) \in rows
    /\ Publish(r, CountFailed(r))
    /\ NextVideo(r)
    /\ UNCHANGED <<database, requests, taskStatus, job, listing, absent, todo, seen,
                   autoSync, restarts>>

\* Mutant: a failed attempt is put back to be tried again.
AttemptFails_Retries(r) ==
    /\ pc[r] \in {"download", "save"}
    /\ RowOf(r) \in rows
    /\ Publish(r, CountFailed(r))
    /\ NextVideo(r)
    /\ todo' = [todo EXCEPT ![r] = @ \cup {video[r]}]
    /\ UNCHANGED <<database, requests, taskStatus, job, listing, absent, seen,
                   autoSync, restarts>>

\* The download or the upload raises something else than "unavailable".
AttemptFails(r) ==
    /\ pc[r] \in {"download", "save"}
    /\ RowOf(r) \in rows
    /\ Publish(r, CountFailed(r))
    /\ NextVideo(r)
    /\ UNCHANGED <<database, requests, taskStatus, job, listing, absent, todo, seen,
                   autoSync, restarts>>

\* mark_video_unavailable_on_youtube.
VideoUnavailable(r) ==
    /\ pc[r] = "download"
    /\ video[r] \in Gone
    /\ RowOf(r) \in rows
    /\ status' = [status EXCEPT ![video[r]] =
                     Flush(@, seen[r].status[video[r]], "DELETED_ON_YT")]
    /\ Publish(r, CountFailed(r))
    /\ NextVideo(r)
    /\ UNCHANGED <<playlist, rows, saved, used, quota, charged, granted, requests,
                   taskStatus, job, listing, absent, todo, seen, autoSync, restarts>>

\* mark_video_downloaded: the bytes are added to the total the session loaded.
Save(r) ==
    LET o     == OwnerOf(r)
        total == seen[r].used + FileSize(r)
    IN  /\ pc[r] = "save"
        /\ RowOf(r) \in rows
        /\ saved' = [saved EXCEPT ![RowOf(r)] = Format(r)]
        /\ status' = [status EXCEPT ![video[r]] =
                         Flush(@, seen[r].status[video[r]], "DOWNLOADED")]
        /\ used' = [used EXCEPT ![o] = Flush(@, seen[r].used, total)]
        /\ seen' = [seen EXCEPT ![r].used = total]
        /\ charged' = [charged EXCEPT ![o] = @ + FileSize(r)]
        /\ Publish(r, CountCompleted(r))
        /\ NextVideo(r)
        /\ UNCHANGED <<playlist, rows, quota, granted, requests, taskStatus, job,
                       listing, absent, todo, autoSync, restarts>>

FinishSync(r) ==
    /\ pc[r] = "loop"
    /\ todo[r] = {}
    /\ SetStatus(r, "done")
    /\ EndJob(r)
    /\ UNCHANGED <<database, requests, report, job, autoSync, restarts>>

\* Mutant: the runner writes a status no reader of the registry knows.
JobRaises_Unknown(r) ==
    /\ pc[r] # "idle"
    /\ SetStatus(r, "error")
    /\ EndJob(r)
    /\ UNCHANGED <<database, requests, report, job, autoSync, restarts>>

\* Any await but the download may raise: YouTube or the database is out of
\* reach, the playlist or a row is gone, an insertion met a duplicate.  The
\* runner marks its task failed; the scheduler logs and goes on.
JobRaises(r) ==
    /\ pc[r] # "idle"
    /\ SetStatus(r, "failed")
    /\ EndJob(r)
    /\ UNCHANGED <<database, requests, report, job, autoSync, restarts>>

JobStep(r) ==
    \/ JobLoad(r)
    \/ \E vids \in SUBSET Videos \ {{}} : BeginMerge(r, vids)
    \/ CommitMetadata(r)
    \/ FinishImport(r)
    \/ ListTargets(r)
    \/ NothingToDownload(r)
    \/ \E v \in Videos : QuotaReached(r, v) \/ StartVideo(r, v)
    \/ DownloadOk(r)
    \/ DownloadTooBig(r)
    \/ AttemptFails(r)
    \/ VideoUnavailable(r)
    \/ Save(r)
    \/ FinishSync(r)
    \/ JobRaises(r)

-------------------------------------------------------------------------------
(* The auto-sync job; auto_sync is true for every playlist.                *)

AutoTick ==
    /\ AutoSlots # {}
    /\ ~syncLock
    /\ syncLock' = TRUE
    /\ agenda' = {p \in Playlists : playlist[p] = "live"}
    /\ UNCHANGED <<database, requests, registry, pc, job, session, restarts>>

\* Mutant: the same playlist is synced again and again.
AutoStart_Repeats(r, p) ==
    /\ p \in agenda
    /\ pc[r] = "idle"
    /\ job' = [job EXCEPT ![r] = [playlist |-> p, format |-> AutoFormat]]
    /\ pc' = [pc EXCEPT ![r] = "load"]
    /\ UNCHANGED <<database, requests, registry, session, autoSync, restarts>>

AutoStart(r, p) ==
    /\ p \in agenda
    /\ pc[r] = "idle"
    /\ agenda' = agenda \ {p}
    /\ job' = [job EXCEPT ![r] = [playlist |-> p, format |-> AutoFormat]]
    /\ pc' = [pc EXCEPT ![r] = "load"]
    /\ UNCHANGED <<database, requests, registry, session, syncLock, restarts>>

AutoRelease ==
    /\ syncLock
    /\ agenda = {}
    /\ \A r \in AutoSlots : pc[r] = "idle"
    /\ syncLock' = FALSE
    /\ UNCHANGED <<database, requests, registry, pc, job, session, agenda, restarts>>

AutoStep == AutoRelease \/ \E r \in AutoSlots, p \in Playlists : AutoStart(r, p)

-------------------------------------------------------------------------------
(* Requests that interfere with running jobs.                              *)

\* delete_playlist loads the playlist with its rows ...
DeleteLoad(p) ==
    /\ playlist[p] = "live"
    /\ p \notin deleting
    /\ deleting' = deleting \cup {p}
    /\ doomed' = [doomed EXCEPT ![p] = VideosOf(p)]
    /\ UNCHANGED <<database, registry, pc, job, session, autoSync, restarts>>

\* Mutant: foreign keys are declared but not enforced.
DeletedRows_Loaded(p) == {p} \X doomed[p]

DeletedRows(p) ==
    {p} \X (IF ForeignKeys THEN Videos ELSE doomed[p])

\* ... and deletes what it loaded; a database that enforces foreign keys
\* removes the rows that were inserted meanwhile as well.
DeleteCommit(p) ==
    /\ p \in deleting
    /\ \A q \in Runners : pc[q] = "merge" => Target(q) # p
    /\ playlist' = [playlist EXCEPT ![p] = "deleted"]
    /\ rows' = rows \ DeletedRows(p)
    /\ saved' = [x \in Rows |-> IF x \in DeletedRows(p) THEN NoFormat ELSE saved[x]]
    /\ deleting' = deleting \ {p}
    /\ doomed' = [doomed EXCEPT ![p] = {}]
    /\ UNCHANGED <<status, used, quota, charged, granted, registry, pc, job, session,
                   autoSync, restarts>>

\* update_user_admin_settings.
UpdateQuota(o, q) ==
    /\ quota' = [quota EXCEPT ![o] = q]
    /\ granted' = [granted EXCEPT ![o] = @ \cup {q}]
    /\ UNCHANGED <<playlist, rows, saved, status, used, charged, requests, registry,
                   pc, job, session, autoSync, restarts>>

\* The process stops and starts again: registry, jobs, requests and the
\* scheduler's lock are memory; the database stays.
Restart ==
    /\ restarts < MaxRestarts
    /\ restarts' = restarts + 1
    /\ taskStatus' = [t \in Tasks |-> IF taskStatus[t] = "unborn"
                                      THEN "unborn" ELSE "lost"]
    /\ report' = [t \in Tasks |-> NoCounts]
    /\ pc' = [r \in Runners |-> "idle"]
    /\ listing' = [r \in Runners |-> {}]
    /\ absent' = [r \in Runners |-> {}]
    /\ todo' = [r \in Runners |-> {}]
    /\ video' = [r \in Runners |-> NoVideo]
    /\ seen' = [r \in Runners |-> NothingSeen]
    /\ agenda' = {}
    /\ syncLock' = FALSE
    /\ deleting' = {}
    /\ doomed' = [p \in Playlists |-> {}]
    /\ UNCHANGED <<database, job>>

-------------------------------------------------------------------------------
Request ==
    \/ \E t \in Tasks, p \in Playlists :
          AddPlaylist(t, p) \/ \E f \in Formats : RequestSync(t, p, f)
    \/ \E p \in Playlists : DeleteLoad(p) \/ DeleteCommit(p)
    \/ \E o \in Users, q \in Quotas : UpdateQuota(o, q)

Next ==
    \/ Request
    \/ \E r \in Runners : JobStep(r)
    \/ AutoTick
    \/ AutoStep
    \/ Restart

Spec == Init /\ [][Next]_vars

\* A coroutine that can run is run, and every await ends, well or badly; users,
\* administrators, the clock and restarts owe nothing.
Fairness == (\A r \in Runners : WF_vars(JobStep(r))) /\ WF_vars(AutoStep)

FairSpec == Spec /\ Fairness

-------------------------------------------------------------------------------
(* Properties *)

\* Every variable has its type.
TypeOK ==
    /\ playlist \in [Playlists -> {"none", "live", "deleted"}]
    /\ rows \in SUBSET Rows
    /\ saved \in [Rows -> Formats \cup {NoFormat}]
    /\ status \in [Videos -> Statuses]
    /\ used \in [Users -> Nat]
    /\ quota \in [Users -> Quotas]
    /\ charged \in [Users -> Nat]
    /\ granted \in [Users -> SUBSET Quotas]
    /\ deleting \in SUBSET Playlists
    /\ doomed \in [Playlists -> SUBSET Videos]
    /\ taskStatus \in [Tasks -> TaskStates]
    /\ report \in [Tasks -> Counters]
    /\ pc \in [Runners -> Steps]
    /\ job \in [Runners -> Jobs \cup {NoJob}]
    /\ listing \in [Runners -> SUBSET Videos]
    /\ absent \in [Runners -> SUBSET Videos]
    /\ todo \in [Runners -> SUBSET Videos]
    /\ video \in [Runners -> Videos \cup {NoVideo}]
    /\ seen \in [Runners -> Memories]
    /\ agenda \in SUBSET Playlists
    /\ syncLock \in BOOLEAN
    /\ restarts \in 0..MaxRestarts

\* At most one task is active for a playlist and a format (find_active_task).
OneActivePerKey ==
    \A t, u \in Tasks : IsActive(t) /\ IsActive(u) /\ job[t] = job[u] => t = u

\* A task shown as queued or running has a coroutine that works on it, and a
\* finished task has none: no return, break or exception of sync_playlist
\* forgets the task, which would block its playlist until the next restart.
ActiveTasksAreWorkedOn ==
    \A t \in Tasks : /\ IsActive(t) <=> pc[t] # "idle"
                     /\ taskStatus[t] = "queued" <=> pc[t] = "load"

\* While the loop runs, every target is counted once: waiting, in hand,
\* completed or failed (break, continue and except in the loop of sync_playlist).
CountersAddUp ==
    \A t \in Tasks : pc[t] \in {"loop", "download", "save"} =>
        report[t].completed + report[t].failed + Cardinality(todo[t])
            + (IF pc[t] = "loop" THEN 0 ELSE 1) = report[t].total

\* A row with a media file belongs to a video that is marked downloaded, or
\* deleted since: no job falls back on AVAILABLE with what it remembers.
SavedVideosAreMarked ==
    \A x \in rows : saved[x] # NoFormat => status[x[2]] \in {"DOWNLOADED", "DELETED_ON_YT"}

\* With foreign keys enforced, deleting a playlist leaves no row of it behind
\* and no running job adds one afterwards (delete_playlist, models.py).
NoOrphanRows == \A x \in rows : playlist[x[1]] = "live"

\* A user's total never exceeds every quota that this very user has had so far,
\* whatever jobs and edits of the quota overlap (the two checks of sync_playlist).
UsedWithinSomeQuota == \A o \in Users : \E q \in granted[o] : used[o] <= q

\* Overlapping jobs may lose charges, but the recorded total is never more than
\* what was downloaded (mark_video_downloaded).
NeverOvercharged == \A o \in Users : used[o] <= charged[o]

\* storage_used_bytes is the sum of all downloads recorded.
ChargedExactly == \A o \in Users : used[o] = charged[o]

\* A job never downloads a file that the row already has in that format: two
\* jobs that would are kept apart by find_active_task.
NoRedundantDownload ==
    \A r \in Runners : pc[r] \in {"loop", "download", "save"} =>
        \A v \in todo[r] \cup {video[r]} :
            <<Target(r), v>> \in rows => saved[<<Target(r), v>>] # Format(r)

\* A video marked deleted is reopened only by a download that was listed before
\* it was marked; a metadata sync never does it.
ReopenedOnlyBySave ==
    [][\A v \in Videos :
          status[v] = "DELETED_ON_YT" /\ status'[v] # status[v] =>
              \E r \in Runners : /\ pc[r] = "save" /\ video[r] = v
                                 /\ seen[r].status[v] # "DELETED_ON_YT"]_vars

\* A video that has been downloaded or deleted is never inserted or offered as
\* merely available again, whatever a merge read before its commit.
NeverAvailableAgain ==
    [][\A v \in Videos : status[v] \in {"DOWNLOADED", "DELETED_ON_YT"} =>
                         status'[v] \in {"DOWNLOADED", "DELETED_ON_YT"}]_vars

\* A bound on the steps a job has left; each target costs at most three.
StepsLeft(r) ==
    CASE pc[r] = "idle"     -> 0
      [] pc[r] = "loop"     -> 3 * Cardinality(todo[r]) + 1
      [] pc[r] = "save"     -> 3 * Cardinality(todo[r]) + 2
      [] pc[r] = "download" -> 3 * Cardinality(todo[r]) + 3
      [] pc[r] = "refresh"  -> 3 * Cardinality(Videos) + 2
      [] pc[r] = "merge"    -> 3 * Cardinality(Videos) + 3
      [] pc[r] = "extract"  -> 3 * Cardinality(Videos) + 4
      [] pc[r] = "load"     -> 3 * Cardinality(Videos) + 5

\* A running job stays where it is or comes nearer to its end.
NoJobGoesBack ==
    \A r \in Runners : pc[r] # "idle" =>
        UNCHANGED <<pc[r], todo[r]>> \/ StepsLeft(r)' < StepsLeft(r)

\* A job never goes back: whatever fails, is too big or is gone, and whatever other
\* jobs and requests do meanwhile, each of its steps brings its end nearer, so that a
\* task cannot hold its playlist by trying for ever (the loop of sync_playlist).
JobsRunOut == [][NoJobGoesBack]_vars

\* The registry behaves as TaskLifecycle promises.
Lifecycle == INSTANCE TaskLifecycle WITH
    Keys <- Jobs, NoKey <- NoJob,
    state <- taskStatus, key <- [t \in Tasks |-> job[t]]
LifecycleSpec == Lifecycle!Spec

\* Every accepted task ends.
TasksEnd == \A t \in Tasks : IsActive(t) ~> ~IsActive(t)

\* The scheduler's lock is released after every tick, whatever its jobs meet,
\* so that later ticks are not skipped for ever.
AutoSyncEnds == syncLock ~> ~syncLock
===============================================================================
