--------------------------- MODULE SyncJobs_proofs ---------------------------
(* What holds of SyncJobs for every number of users, playlists, videos,    *)
(* tasks and restarts: its types and registry, and the rows, quotas and    *)
(* downloads of its jobs.  SyncData_proofs has the accounting and marks.   *)
EXTENDS SyncJobs, FiniteSetTheorems, TLAPS

-------------------------------------------------------------------------------
(* Types *)

\* A job that was started works on a playlist and a format.  Idle slots of
\* tasks that were never created hold NoJob, so this is part of the invariant.
WorkingOnAJob == \A r \in Runners : pc[r] # "idle" => job[r] \in Jobs

\* A sync is past the extraction only with a real media format.
SyncsHaveAFormat ==
    \A r \in Runners : pc[r] \in {"loop", "download", "save"} =>
        Format(r) \in Formats

\* A video is in hand while it is downloaded and saved.
VideoInHand ==
    \A r \in Runners : pc[r] \in {"download", "save"} => video[r] \in Videos

TypeInv == TypeOK /\ WorkingOnAJob /\ SyncsHaveAFormat /\ VideoInHand

\* Sets of videos have a cardinality.
LEMMA CardinalityOfVideos ==
    ASSUME NEW S \in SUBSET Videos PROVE Cardinality(S) \in Nat
BY ConstantsAssumption, FS_Subset, FS_CardinalityType

\* The values of idle jobs are well typed.
LEMMA Blanks == NothingSeen \in Memories /\ NoCounts \in Counters
BY DEF NothingSeen, NoCounts, Memories, Counters, Statuses

\* Counting one more completed or failed video gives counters again.
LEMMA Counting ==
    ASSUME TypeOK, NEW t \in Tasks
    PROVE  CountFailed(t) \in Counters /\ CountCompleted(t) \in Counters
BY DEF TypeOK, Counters, CountFailed, CountCompleted

\* Publishing a state or counters keeps the registry well typed.
LEMMA PublishTyped ==
    ASSUME TypeOK, NEW r, NEW c, r \in Tasks => c \in Counters, Publish(r, c)
    PROVE  report' \in [Tasks -> Counters]
BY DEF TypeOK, Publish

\* The end of a job keeps every type, whatever the status it leaves.
LEMMA EndJobTyped ==
    ASSUME TypeInv, NEW r \in Runners, EndJob(r)
    PROVE  /\ pc' \in [Runners -> Steps]
           /\ listing' \in [Runners -> SUBSET Videos]
           /\ absent' \in [Runners -> SUBSET Videos]
           /\ todo' \in [Runners -> SUBSET Videos]
           /\ video' \in [Runners -> Videos \cup {NoVideo}]
           /\ seen' \in [Runners -> Memories]
           /\ \A q \in Runners : q # r => pc'[q] = pc[q] /\ video'[q] = video[q]
           /\ pc'[r] = "idle"
BY Blanks DEF TypeInv, TypeOK, EndJob, Steps

\* TypeOK and its strengthening hold always.
LEMMA TypeInvariant == Spec => []TypeInv
<1>1. Init => TypeInv
  <2> SUFFICES ASSUME Init PROVE TypeInv
    OBVIOUS
  <2>1. /\ playlist \in [Playlists -> {"none", "live", "deleted"}]
        /\ rows \in SUBSET Rows
        /\ saved \in [Rows -> Formats \cup {NoFormat}]
        /\ status \in [Videos -> Statuses]
        /\ used \in [Users -> Nat]
        /\ quota \in [Users -> Quotas]
        /\ charged \in [Users -> Nat]
        /\ granted \in [Users -> SUBSET Quotas]
        /\ deleting \in SUBSET Playlists
        /\ doomed \in [Playlists -> SUBSET Videos]
    BY DEF Init, Statuses
  <2>2. /\ taskStatus \in [Tasks -> TaskStates]
        /\ report \in [Tasks -> Counters]
    BY Blanks DEF Init, TaskStates
  <2>5. /\ agenda \in SUBSET Playlists
        /\ syncLock \in BOOLEAN
        /\ restarts \in 0..MaxRestarts
    <3>1. agenda \in SUBSET Playlists /\ syncLock \in BOOLEAN
      BY Zenon DEF Init
    <3>2. restarts = 0 /\ MaxRestarts \in Nat
      BY ConstantsAssumption DEF Init
    <3>3. restarts \in 0..MaxRestarts
      BY <3>2
    <3> QED
      BY <3>1, <3>3
  <2>3. /\ pc \in [Runners -> Steps]
        /\ job \in [Runners -> Jobs \cup {NoJob}]
        /\ listing \in [Runners -> SUBSET Videos]
        /\ absent \in [Runners -> SUBSET Videos]
        /\ todo \in [Runners -> SUBSET Videos]
        /\ video \in [Runners -> Videos \cup {NoVideo}]
        /\ seen \in [Runners -> Memories]
    BY Blanks DEF Init, Steps
  <2>4. \A r \in Runners : pc[r] = "idle"
    BY DEF Init
  <2> QED
    BY <2>1, <2>2, <2>3, <2>4, <2>5
       DEF TypeInv, TypeOK, WorkingOnAJob, SyncsHaveAFormat, VideoInHand
<1>2. TypeInv /\ [Next]_vars => TypeInv'
  <2> SUFFICES ASSUME TypeInv, [Next]_vars PROVE TypeInv'
    OBVIOUS
  <2> USE DEF TypeInv, TypeOK, WorkingOnAJob, SyncsHaveAFormat, VideoInHand
  <2>1. ASSUME NEW t \in Tasks, NEW p \in Playlists, AddPlaylist(t, p)
        PROVE  TypeInv'
    BY <2>1 DEF AddPlaylist, Enqueue, requests, session, autoSync, Format, Runners,
                Jobs, JobFormats, Steps, TaskStates, ActiveStates
  <2>2. ASSUME NEW t \in Tasks, NEW p \in Playlists, NEW f \in Formats,
               RequestSync(t, p, f)
        PROVE  TypeInv'
    BY <2>2 DEF RequestSync, Enqueue, database, requests, session, autoSync, Format,
                Runners, Jobs, JobFormats, Steps, TaskStates, ActiveStates
  <2>3. ASSUME NEW p \in Playlists, DeleteLoad(p) PROVE TypeInv'
    BY <2>3 DEF DeleteLoad, VideosOf, database, registry, session, autoSync, Format
  <2>4. ASSUME NEW p \in Playlists, DeleteCommit(p) PROVE TypeInv'
    BY <2>4 DEF DeleteCommit, registry, session, autoSync, Format
  <2>5. ASSUME NEW o \in Users, NEW q \in Quotas, UpdateQuota(o, q) PROVE TypeInv'
    BY <2>5 DEF UpdateQuota, requests, registry, session, autoSync, Format
  <2>6. ASSUME NEW r \in Runners, JobStep(r) PROVE TypeInv'
    <3>1. CASE JobLoad(r)
      <4>1. job[r] \in Jobs
        BY <3>1 DEF JobLoad
      <4>2. /\ OwnerOf(r) \in Users
            /\ used[OwnerOf(r)] \in Nat
            /\ quota[OwnerOf(r)] \in Nat
            /\ VideosOf(Target(r)) \in SUBSET Videos
        BY <4>1, ConstantsAssumption DEF OwnerOf, Target, Jobs, VideosOf
      <4>3. seen' \in [Runners -> Memories]
        BY <3>1, <4>2 DEF JobLoad, Memories, Statuses
      <4>4. taskStatus' \in [Tasks -> TaskStates]
        BY <3>1 DEF JobLoad, SetStatus, TaskStates, ActiveStates
      <4> QED
        BY <3>1, <4>1, <4>3, <4>4 DEF JobLoad, database, requests, autoSync, Format, Steps
    <3>2. ASSUME NEW vids \in SUBSET Videos \ {{}}, BeginMerge(r, vids)
          PROVE  TypeInv'
      BY <3>2 DEF BeginMerge, database, requests, registry, autoSync, Format, Steps
    <3>3. CASE CommitMetadata(r)
      <4>1. job[r] \in Jobs
        BY <3>3 DEF CommitMetadata
      <4>2. rows' \in SUBSET Rows
        BY <3>3, <4>1 DEF CommitMetadata, Target, Jobs, Rows
      <4>3. status' \in [Videos -> Statuses]
        BY <3>3 DEF CommitMetadata, MergedStatus, Flush, Statuses
      <4> QED
        BY <3>3, <4>1, <4>2, <4>3
           DEF CommitMetadata, requests, registry, session, autoSync, Format, Steps
    <3>4. CASE FinishImport(r)
      <4>1. /\ report' \in [Tasks -> Counters]
            /\ taskStatus' \in [Tasks -> TaskStates]
        <5>1. Cardinality(listing[r]) \in Nat
          BY CardinalityOfVideos
        <5> QED
          BY <3>4, <5>1, PublishTyped
             DEF FinishImport, SetStatus, TaskStates, Counters
      <4> QED
        BY <3>4, <4>1, EndJobTyped
           DEF FinishImport, database, requests, autoSync, Format
    <3>5. CASE ListTargets(r)
      <4> DEFINE T == DownloadTargets(Target(r), Format(r))
      <4>1. T \in SUBSET Videos
        BY DEF DownloadTargets, VideosOf
      <4>2. Cardinality(T) \in Nat
        BY <4>1, CardinalityOfVideos
      <4>3. report' \in [Tasks -> Counters]
        BY <3>5, <4>2, PublishTyped DEF ListTargets, Counters
      <4>4. seen' \in [Runners -> Memories]
        <5> DEFINE st == [v \in Videos |-> IF v \in T THEN status[v] ELSE "none"]
        <5>1. /\ st \in [Videos -> Statuses]
              /\ seen' = [seen EXCEPT ![r].rows = {}, ![r].status = st]
          BY <3>5 DEF ListTargets, Statuses
        <5> HIDE DEF st
        <5>2. [seen[r] EXCEPT !.rows = {}, !.status = st] \in Memories
          BY <5>1 DEF Memories
        <5> QED
          BY <5>1, <5>2
      <4> QED
        BY <3>5, <4>1, <4>3, <4>4
           DEF ListTargets, database, requests, autoSync, Format, Steps
    <3>6. CASE NothingToDownload(r)
      BY <3>6, EndJobTyped
         DEF NothingToDownload, SetStatus, TaskStates, database, requests, autoSync, Format
    <3>7. ASSUME NEW v \in Videos, QuotaReached(r, v) PROVE TypeInv'
      <4>1. report' \in [Tasks -> Counters]
        BY <3>7, Counting, PublishTyped DEF QuotaReached
      <4> QED
        BY <3>7, <4>1, EndJobTyped
           DEF QuotaReached, SetStatus, TaskStates, database, requests, autoSync, Format
    <3>8. ASSUME NEW v \in Videos, StartVideo(r, v) PROVE TypeInv'
      BY <3>8 DEF StartVideo, database, requests, registry, autoSync, Format, Steps
    <3>9. CASE DownloadOk(r)
      BY <3>9 DEF DownloadOk, database, requests, registry, session, autoSync, Format, Steps
    <3>10. CASE DownloadTooBig(r)
      <4>1. report' \in [Tasks -> Counters]
        BY <3>10, Counting, PublishTyped DEF DownloadTooBig
      <4> QED
        BY <3>10, <4>1 DEF DownloadTooBig, NextVideo, database, requests, autoSync, Format, Steps
    <3>11. CASE AttemptFails(r)
      <4>1. report' \in [Tasks -> Counters]
        BY <3>11, Counting, PublishTyped DEF AttemptFails
      <4> QED
        BY <3>11, <4>1 DEF AttemptFails, NextVideo, database, requests, autoSync, Format, Steps
    <3>12. CASE VideoUnavailable(r)
      <4>1. report' \in [Tasks -> Counters]
        BY <3>12, Counting, PublishTyped DEF VideoUnavailable
      <4>2. status' \in [Videos -> Statuses]
        BY <3>12 DEF VideoUnavailable, Flush, Statuses
      <4> QED
        BY <3>12, <4>1, <4>2
           DEF VideoUnavailable, NextVideo, requests, autoSync, Format, Steps
    <3>13. CASE Save(r)
      <4>1. /\ job[r] \in Jobs
            /\ Format(r) \in Formats
            /\ video[r] \in Videos
        BY <3>13 DEF Save
      <4>2. /\ FileSize(r) \in Nat
            /\ OwnerOf(r) \in Users
            /\ RowOf(r) \in Rows
        BY <4>1, ConstantsAssumption
           DEF FileSize, OwnerOf, RowOf, Target, Rows, Jobs
      <4>3. report' \in [Tasks -> Counters]
        BY <3>13, Counting, PublishTyped DEF Save
      <4>4. /\ saved' \in [Rows -> Formats \cup {NoFormat}]
            /\ status' \in [Videos -> Statuses]
        BY <3>13, <4>1, <4>2 DEF Save, Flush, Statuses
      <4>5. /\ used' \in [Users -> Nat]
            /\ charged' \in [Users -> Nat]
            /\ seen' \in [Runners -> Memories]
        <5> DEFINE total == seen[r].used + FileSize(r)
        <5>1. seen[r].used \in Nat /\ total \in Nat
          BY <4>2 DEF Memories
        <5>2. /\ used' = [used EXCEPT ![OwnerOf(r)] = Flush(@, seen[r].used, total)]
              /\ charged' = [charged EXCEPT ![OwnerOf(r)] = @ + FileSize(r)]
              /\ seen' = [seen EXCEPT ![r].used = total]
          BY <3>13 DEF Save
        <5>3. [seen[r] EXCEPT !.used = total] \in Memories
          BY <5>1 DEF Memories
        <5>4. Flush(used[OwnerOf(r)], seen[r].used, total) \in Nat
          BY <4>2, <5>1 DEF Flush
        <5> HIDE DEF total
        <5> QED
          BY <4>2, <5>2, <5>3, <5>4
      <4> QED
        BY <3>13, <4>3, <4>4, <4>5 DEF Save, NextVideo, requests, autoSync, Format, Steps
    <3>14. CASE FinishSync(r)
      BY <3>14, EndJobTyped
         DEF FinishSync, SetStatus, TaskStates, database, requests, autoSync, Format
    <3>15. CASE JobRaises(r)
      BY <3>15, EndJobTyped
         DEF JobRaises, SetStatus, TaskStates, database, requests, autoSync, Format
    <3> QED
      BY <2>6, <3>1, <3>2, <3>3, <3>4, <3>5, <3>6, <3>7, <3>8, <3>9, <3>10, <3>11,
         <3>12, <3>13, <3>14, <3>15 DEF JobStep
  <2>7. CASE AutoTick
    BY <2>7 DEF AutoTick, database, requests, registry, session, Format
  <2>8. CASE AutoStep
    <3>1. CASE AutoRelease
      BY <2>8, <3>1 DEF AutoRelease, database, requests, registry, session, Format
    <3>2. ASSUME NEW r \in AutoSlots, NEW p \in Playlists, AutoStart(r, p)
          PROVE  TypeInv'
      <4>1. r \in Runners /\ [playlist |-> p, format |-> AutoFormat] \in Jobs
        BY ConstantsAssumption DEF Runners, Jobs, JobFormats
      <4>2. /\ agenda' \in SUBSET Playlists
            /\ job' \in [Runners -> Jobs \cup {NoJob}]
            /\ pc' \in [Runners -> Steps]
            /\ pc'[r] = "load" /\ job'[r] \in Jobs
            /\ \A q \in Runners : q # r => pc'[q] = pc[q] /\ job'[q] = job[q]
        BY <3>2, <4>1 DEF AutoStart, Steps
      <4> QED
        BY <3>2, <4>1, <4>2
           DEF AutoStart, database, requests, registry, session, Format
    <3> QED
      <4> HIDE DEF TypeInv
      <4> QED
        BY <2>8, <3>1, <3>2 DEF AutoStep
  <2>9. CASE Restart
    <3>1. /\ taskStatus' \in [Tasks -> TaskStates]
          /\ report' \in [Tasks -> Counters]
          /\ restarts' \in 0..MaxRestarts
      BY <2>9, ConstantsAssumption, Blanks DEF Restart, TaskStates
    <3>2. /\ pc' \in [Runners -> Steps]
          /\ listing' \in [Runners -> SUBSET Videos]
          /\ absent' \in [Runners -> SUBSET Videos]
          /\ todo' \in [Runners -> SUBSET Videos]
          /\ video' \in [Runners -> Videos \cup {NoVideo}]
          /\ seen' \in [Runners -> Memories]
          /\ \A r \in Runners : pc'[r] = "idle"
      BY <2>9, Blanks DEF Restart, Steps
    <3>3. /\ agenda' \in SUBSET Playlists
          /\ syncLock' \in BOOLEAN
          /\ deleting' \in SUBSET Playlists
          /\ doomed' \in [Playlists -> SUBSET Videos]
      BY <2>9 DEF Restart
    <3> QED
      BY <2>9, <3>1, <3>2, <3>3 DEF Restart, database
  <2>10. CASE UNCHANGED vars
    BY <2>10 DEF vars, database, requests, registry, session, autoSync, Format
  <2> QED
    BY <2>1, <2>2, <2>3, <2>4, <2>5, <2>6, <2>7, <2>8, <2>9, <2>10 DEF Next, Request
<1> QED
  BY <1>1, <1>2, PTL DEF Spec

\* Every variable of the jobs, the registry and the database keeps its type.
THEOREM TypeCorrect == Spec => []TypeOK
<1>1. TypeInv => TypeOK
  BY DEF TypeInv
<1> QED
  BY <1>1, TypeInvariant, PTL

-------------------------------------------------------------------------------
(* The registry.  A step of a job does one of four things to its own entry *)
(* and nothing to the entries of others.                                   *)

Starts(r) ==
    /\ pc[r] = "load"
    /\ pc'[r] \notin {"idle", "load"}
    /\ SetStatus(r, "running")

Proceeds(r) ==
    /\ pc[r] \notin {"idle", "load"}
    /\ pc'[r] \notin {"idle", "load"}
    /\ taskStatus' = taskStatus

Completes(r) ==
    /\ pc[r] \notin {"idle", "load"}
    /\ pc'[r] = "idle"
    /\ SetStatus(r, "done")

Fails(r) ==
    /\ pc[r] # "idle"
    /\ pc'[r] = "idle"
    /\ SetStatus(r, "failed")

\* What any step of a job may do to the registry.
LEMMA JobStepEffect ==
    ASSUME TypeInv, NEW r \in Runners, JobStep(r)
    PROVE  /\ job' = job
           /\ \A q \in Runners : q # r => pc'[q] = pc[q]
           /\ Starts(r) \/ Proceeds(r) \/ Completes(r) \/ Fails(r)
<1> USE DEF TypeInv, TypeOK
<1>1. CASE JobLoad(r)
  BY <1>1 DEF JobLoad, Starts
<1>2. ASSUME NEW vids \in SUBSET Videos \ {{}}, BeginMerge(r, vids)
      PROVE  /\ job' = job
             /\ \A q \in Runners : q # r => pc'[q] = pc[q]
             /\ Proceeds(r)
  BY <1>2 DEF BeginMerge, Proceeds, registry
<1>3. CASE CommitMetadata(r)
  BY <1>3 DEF CommitMetadata, Proceeds, registry
<1>4. CASE FinishImport(r)
  BY <1>4 DEF FinishImport, EndJob, Completes
<1>5. CASE ListTargets(r)
  BY <1>5 DEF ListTargets, Proceeds
<1>6. CASE NothingToDownload(r)
  BY <1>6 DEF NothingToDownload, EndJob, Completes
<1>7. ASSUME NEW v \in Videos, QuotaReached(r, v)
      PROVE  /\ job' = job
             /\ \A q \in Runners : q # r => pc'[q] = pc[q]
             /\ Completes(r)
  BY <1>7 DEF QuotaReached, EndJob, Completes
<1>8. ASSUME NEW v \in Videos, StartVideo(r, v)
      PROVE  /\ job' = job
             /\ \A q \in Runners : q # r => pc'[q] = pc[q]
             /\ Proceeds(r)
  BY <1>8 DEF StartVideo, Proceeds, registry
<1>9. CASE DownloadOk(r)
  BY <1>9 DEF DownloadOk, Proceeds, registry
<1>10. CASE DownloadTooBig(r)
  BY <1>10 DEF DownloadTooBig, NextVideo, Proceeds
<1>11. CASE AttemptFails(r)
  BY <1>11 DEF AttemptFails, NextVideo, Proceeds
<1>12. CASE VideoUnavailable(r)
  BY <1>12 DEF VideoUnavailable, NextVideo, Proceeds
<1>13. CASE Save(r)
  BY <1>13 DEF Save, NextVideo, Proceeds
<1>14. CASE FinishSync(r)
  BY <1>14 DEF FinishSync, EndJob, Completes
<1>15. CASE JobRaises(r)
  BY <1>15 DEF JobRaises, EndJob, Fails
<1> QED
  <2> HIDE DEF TypeInv, TypeOK
  <2> QED
    BY <1>1, <1>2, <1>3, <1>4, <1>5, <1>6, <1>7, <1>8, <1>9, <1>10, <1>11, <1>12,
       <1>13, <1>14, <1>15 DEF JobStep

RegistryInv == TypeInv /\ ActiveTasksAreWorkedOn /\ OneActivePerKey

\* The invariant on the registry holds always.
LEMMA RegistryInvariant == Spec => []RegistryInv
<1>1. Init => ActiveTasksAreWorkedOn /\ OneActivePerKey
  BY DEF Init, ActiveTasksAreWorkedOn, OneActivePerKey, IsActive, ActiveStates, Runners
<1>2. TypeInv /\ ActiveTasksAreWorkedOn /\ OneActivePerKey /\ [Next]_vars
        => ActiveTasksAreWorkedOn' /\ OneActivePerKey'
  <2> SUFFICES ASSUME TypeInv, ActiveTasksAreWorkedOn, OneActivePerKey, [Next]_vars
               PROVE  ActiveTasksAreWorkedOn' /\ OneActivePerKey'
    OBVIOUS
  <2> USE DEF ActiveTasksAreWorkedOn, OneActivePerKey, IsActive, ActiveStates
  <2>0. /\ taskStatus \in [Tasks -> TaskStates]
        /\ pc \in [Runners -> Steps]
        /\ job \in [Runners -> Jobs \cup {NoJob}]
        /\ Tasks \subseteq Runners /\ AutoSlots \cap Tasks = {}
    BY ConstantsAssumption DEF TypeInv, TypeOK, Runners
  <2>1. ASSUME NEW t \in Tasks, NEW p \in Playlists, NEW f, Enqueue(t, p, f)
        PROVE  ActiveTasksAreWorkedOn' /\ OneActivePerKey'
    BY <2>0, <2>1 DEF Enqueue, FindActiveTask
  <2>2. ASSUME NEW r \in Runners, JobStep(r)
        PROVE  ActiveTasksAreWorkedOn' /\ OneActivePerKey'
    BY <2>0, <2>2, JobStepEffect
       DEF Starts, Proceeds, Completes, Fails, SetStatus
  <2>3. ASSUME NEW r \in AutoSlots, NEW p \in Playlists, AutoStart(r, p)
        PROVE  ActiveTasksAreWorkedOn' /\ OneActivePerKey'
    BY <2>0, <2>3 DEF AutoStart, registry
  <2>4. CASE Restart
    BY <2>0, <2>4 DEF Restart
  <2>5. CASE UNCHANGED <<taskStatus, pc, job>>
    BY <2>5
  <2> QED
    BY <2>1, <2>2, <2>3, <2>4, <2>5
       DEF Next, Request, AddPlaylist, RequestSync, DeleteLoad, DeleteCommit,
           UpdateQuota, AutoTick, AutoStep, AutoRelease, registry, vars
<1> QED
  BY <1>1, <1>2, TypeInvariant, PTL DEF RegistryInv, Spec

\* find_active_task keeps two tasks for one playlist and format apart.
THEOREM TasksKeptApart == Spec => []OneActivePerKey
<1>1. RegistryInv => OneActivePerKey
  BY DEF RegistryInv
<1> QED
  BY <1>1, RegistryInvariant, PTL

\* A task is shown as active exactly while its coroutine exists.
THEOREM NoTaskIsForgotten == Spec => []ActiveTasksAreWorkedOn
<1>1. RegistryInv => ActiveTasksAreWorkedOn
  BY DEF RegistryInv
<1> QED
  BY <1>1, RegistryInvariant, PTL

-------------------------------------------------------------------------------
(* The registry implements TaskLifecycle: an abstract task is the registry *)
(* entry, its key what its job works on.                                   *)

\* Every step is a step of TaskLifecycle or leaves its state alone.
LEMMA LifecycleStep ==
    ASSUME RegistryInv, [Next]_vars PROVE [Lifecycle!Next]_(Lifecycle!vars)
<1> DEFINE K == [t \in Tasks |-> job[t]]
<1> USE DEF Lifecycle!vars, Lifecycle!Next, Lifecycle!Active
<1>0. /\ taskStatus \in [Tasks -> TaskStates]
      /\ pc \in [Runners -> Steps]
      /\ job \in [Runners -> Jobs \cup {NoJob}]
      /\ Tasks \subseteq Runners /\ AutoSlots \cap Tasks = {}
      /\ ActiveTasksAreWorkedOn
  BY ConstantsAssumption DEF RegistryInv, TypeInv, TypeOK, Runners
<1>1. ASSUME NEW t \in Tasks, NEW p \in Playlists, NEW f \in JobFormats,
             Enqueue(t, p, f)
      PROVE  Lifecycle!Next
  <2> DEFINE k == [playlist |-> p, format |-> f]
  <2>1. k \in Jobs
    BY DEF Jobs
  <2>2. K' = [K EXCEPT ![t] = k]
    BY <1>0, <1>1 DEF Enqueue
  <2>3. Lifecycle!Create(t, k)
    BY <1>0, <1>1, <2>2
       DEF Enqueue, FindActiveTask, IsActive, ActiveStates, Lifecycle!Create
  <2> QED
    BY <2>1, <2>3
<1>2. ASSUME NEW r \in Runners, JobStep(r)
      PROVE  [Lifecycle!Next]_(Lifecycle!vars)
  <2>1. /\ K' = K
        /\ Starts(r) \/ Proceeds(r) \/ Completes(r) \/ Fails(r)
    BY <1>2, JobStepEffect DEF RegistryInv
  <2>2. CASE r \notin Tasks
    BY <2>1, <2>2 DEF Starts, Proceeds, Completes, Fails, SetStatus
  <2>3. CASE r \in Tasks /\ Starts(r)
    <3>1. Lifecycle!Start(r)
      BY <1>0, <2>1, <2>3 DEF Starts, SetStatus, ActiveTasksAreWorkedOn, Lifecycle!Start
    <3> QED
      BY <2>3, <3>1
  <2>4. CASE r \in Tasks /\ Proceeds(r)
    BY <2>1, <2>4 DEF Proceeds
  <2>5. CASE r \in Tasks /\ Completes(r)
    <3>1. Lifecycle!Complete(r)
      BY <1>0, <2>1, <2>5
         DEF Completes, SetStatus, ActiveTasksAreWorkedOn, IsActive, ActiveStates,
             Lifecycle!Complete
    <3> QED
      BY <2>5, <3>1
  <2>6. CASE r \in Tasks /\ Fails(r)
    <3>1. Lifecycle!Fail(r)
      BY <1>0, <2>1, <2>6
         DEF Fails, SetStatus, ActiveTasksAreWorkedOn, IsActive, ActiveStates,
             Lifecycle!Fail
    <3> QED
      BY <2>6, <3>1
  <2> QED
    BY <2>1, <2>2, <2>3, <2>4, <2>5, <2>6
<1>3. ASSUME NEW r \in AutoSlots, NEW p \in Playlists, AutoStart(r, p)
      PROVE  UNCHANGED Lifecycle!vars
  BY <1>0, <1>3 DEF AutoStart, registry
<1>4. CASE Restart
  BY <1>4 DEF Restart, Lifecycle!LoseAll
<1>5. CASE UNCHANGED <<taskStatus, job>>
  BY <1>5
<1> QED
  BY <1>1, <1>2, <1>3, <1>4, <1>5
     DEF Next, Request, AddPlaylist, RequestSync, DeleteLoad, DeleteCommit, JobFormats,
         UpdateQuota, AutoTick, AutoStep, AutoRelease, registry, vars

\* The local registry keeps every promise of TaskLifecycle: one active task per
\* key, queued before running before done, and done and failed are final.
THEOREM ImplementsLifecycle == Spec => LifecycleSpec
<1>1. Init => Lifecycle!Init
  BY DEF Init, Lifecycle!Init, Runners
<1>2. RegistryInv /\ [Next]_vars => [Lifecycle!Next]_(Lifecycle!vars)
  BY LifecycleStep
<1> QED
  BY <1>1, <1>2, RegistryInvariant, PTL DEF Spec, LifecycleSpec, Lifecycle!Spec

\* The registry's own account of what TaskLifecycle promises.
Promise == INSTANCE TaskLifecycle_proofs WITH
    Keys <- Jobs, NoKey <- NoJob,
    state <- taskStatus, key <- [t \in Tasks |-> job[t]]

\* So a browser that polls a task sees it move on, under one playlist and format, and
\* end in done or failed unless the server is restarted.
THEOREM PolledTasksMoveOn == Spec => Promise!TasksMoveOn
<1>1. LifecycleSpec => Promise!Spec
  <2>1. Lifecycle!Init => Promise!Init
    BY Zenon DEF Lifecycle!Init, Promise!Init
  <2>2. [Lifecycle!Next]_(Lifecycle!vars) => [Promise!Next]_(Promise!vars)
    BY Zenon
       DEF Lifecycle!Next, Lifecycle!vars, Lifecycle!Create, Lifecycle!Start,
           Lifecycle!Complete, Lifecycle!Fail, Lifecycle!LoseAll, Lifecycle!Active,
           Promise!Next, Promise!vars, Promise!Create, Promise!Start,
           Promise!Complete, Promise!Fail, Promise!LoseAll, Promise!Active
  <2> QED
    BY <2>1, <2>2, PTL DEF LifecycleSpec, Lifecycle!Spec, Promise!Spec
<1> QED
  BY <1>1, ImplementsLifecycle, Promise!TasksOnlyMoveOn

-------------------------------------------------------------------------------
(* Rows of deleted playlists *)

\* A merge in progress holds the lock on its playlist's row.
MergingPlaylistsAreLive ==
    \A r \in Runners : pc[r] = "merge" => playlist[Target(r)] = "live"

RowsInv == NoOrphanRows /\ MergingPlaylistsAreLive

\* No step of a job leaves rows of a deleted playlist.
LEMMA RowsJobStep ==
    ASSUME TypeInv, RowsInv, NEW r \in Runners, JobStep(r) PROVE RowsInv'
<1> USE DEF RowsInv, NoOrphanRows, MergingPlaylistsAreLive
<1>0. /\ pc \in [Runners -> Steps]
      /\ \A q \in Runners : pc[q] # "idle" => job[q] \in Jobs
  BY DEF TypeInv, TypeOK, WorkingOnAJob
<1>1. ASSUME UNCHANGED <<rows, playlist, job>>,
             \A q \in Runners : q # r => pc'[q] = pc[q],
             pc'[r] # "merge" \/ playlist[Target(r)] = "live"
      PROVE  RowsInv'
  BY <1>1 DEF Target
<1>2. CASE JobLoad(r)
  BY <1>0, <1>1, <1>2 DEF JobLoad, database
<1>3. ASSUME NEW vids \in SUBSET Videos \ {{}}, BeginMerge(r, vids) PROVE RowsInv'
  BY <1>0, <1>1, <1>3 DEF BeginMerge, database
<1>4. CASE CommitMetadata(r)
  <2>1. playlist[Target(r)] = "live"
    BY <1>4 DEF CommitMetadata
  <2>2. \A x \in rows' : x \in rows \/ x[1] = Target(r)
    BY <1>4 DEF CommitMetadata
  <2>3. \A x \in rows' : playlist'[x[1]] = "live"
    BY <1>4, <2>1, <2>2 DEF CommitMetadata
  <2>4. MergingPlaylistsAreLive'
    BY <1>0, <1>4 DEF CommitMetadata, Target
  <2> QED
    BY <2>3, <2>4
<1>5. ASSUME EndJob(r), UNCHANGED <<rows, playlist, job>> PROVE RowsInv'
  BY <1>0, <1>1, <1>5 DEF EndJob
<1>6. CASE FinishImport(r)
  BY <1>5, <1>6 DEF FinishImport, database
<1>7. CASE ListTargets(r)
  BY <1>0, <1>1, <1>7 DEF ListTargets, database
<1>8. CASE NothingToDownload(r)
  BY <1>5, <1>8 DEF NothingToDownload, database
<1>9. ASSUME NEW v \in Videos, QuotaReached(r, v) PROVE RowsInv'
  BY <1>5, <1>9 DEF QuotaReached, database
<1>10. ASSUME NEW v \in Videos, StartVideo(r, v) PROVE RowsInv'
  BY <1>0, <1>1, <1>10 DEF StartVideo, database
<1>11. CASE DownloadOk(r)
  BY <1>0, <1>1, <1>11 DEF DownloadOk, database
<1>12. CASE DownloadTooBig(r)
  BY <1>0, <1>1, <1>12 DEF DownloadTooBig, NextVideo, database
<1>13. CASE AttemptFails(r)
  BY <1>0, <1>1, <1>13 DEF AttemptFails, NextVideo, database
<1>14. CASE VideoUnavailable(r)
  BY <1>0, <1>1, <1>14 DEF VideoUnavailable, NextVideo
<1>15. CASE Save(r)
  BY <1>0, <1>1, <1>15 DEF Save, NextVideo
<1>16. CASE FinishSync(r)
  BY <1>5, <1>16 DEF FinishSync, database
<1>17. CASE JobRaises(r)
  BY <1>5, <1>17 DEF JobRaises, database
<1> QED
  <2> HIDE DEF RowsInv
  <2> QED
    BY <1>2, <1>3, <1>4, <1>6, <1>7, <1>8, <1>9, <1>10, <1>11, <1>12, <1>13, <1>14,
       <1>15, <1>16, <1>17 DEF JobStep

\* No step but the end of a delete request leaves rows of a deleted playlist.
LEMMA RowsStepButDelete ==
    ASSUME RegistryInv, RowsInv, [Next]_vars, ~(\E p \in Playlists : DeleteCommit(p))
    PROVE  RowsInv'
<1>0. /\ TypeInv
      /\ pc \in [Runners -> Steps]
      /\ playlist \in [Playlists -> {"none", "live", "deleted"}]
      /\ Tasks \subseteq Runners /\ AutoSlots \subseteq Runners
      /\ \A x \in rows : x = <<x[1], x[2]>> /\ x[1] \in Playlists /\ x[2] \in Videos
      /\ \A q \in Runners : pc[q] # "idle" => Target(q) \in Playlists
      /\ \A t \in Tasks : taskStatus[t] = "unborn" => pc[t] = "idle"
  <2>1. /\ TypeInv /\ ActiveTasksAreWorkedOn
        /\ pc \in [Runners -> Steps]
        /\ playlist \in [Playlists -> {"none", "live", "deleted"}]
        /\ rows \in SUBSET Rows
        /\ \A q \in Runners : pc[q] # "idle" => job[q] \in Jobs
    BY DEF RegistryInv, TypeInv, TypeOK, WorkingOnAJob
  <2> QED
    BY <2>1 DEF Rows, Runners, Target, Jobs, ActiveTasksAreWorkedOn, IsActive, ActiveStates
<1>1. ASSUME NEW t \in Tasks, NEW p \in Playlists, AddPlaylist(t, p) PROVE RowsInv'
  BY <1>0, <1>1
     DEF AddPlaylist, Enqueue, RowsInv, NoOrphanRows, MergingPlaylistsAreLive, Target
<1>2. ASSUME NEW t \in Tasks, NEW p \in Playlists, NEW f \in Formats,
             RequestSync(t, p, f)
      PROVE  RowsInv'
  BY <1>0, <1>2
     DEF RequestSync, Enqueue, database, RowsInv, NoOrphanRows,
         MergingPlaylistsAreLive, Target
<1>3. ASSUME NEW r \in AutoSlots, NEW p \in Playlists, AutoStart(r, p) PROVE RowsInv'
  BY <1>0, <1>3
     DEF AutoStart, database, RowsInv, NoOrphanRows, MergingPlaylistsAreLive, Target
<1>4. CASE Restart
  BY <1>4 DEF Restart, database, RowsInv, NoOrphanRows, MergingPlaylistsAreLive
<1>5. CASE UNCHANGED <<rows, playlist, pc, job>>
  BY <1>5 DEF RowsInv, NoOrphanRows, MergingPlaylistsAreLive, Target
<1> QED
  BY <1>0, <1>1, <1>2, <1>3, <1>4, <1>5, RowsJobStep
     DEF Next, Request, DeleteLoad, UpdateQuota, AutoTick, AutoStep, AutoRelease,
         database, vars

\* Under foreign keys, no step leaves rows of a deleted playlist.
LEMMA RowsStep ==
    ASSUME ForeignKeys, RegistryInv, RowsInv, [Next]_vars PROVE RowsInv'
<1>0. /\ TypeInv
      /\ playlist \in [Playlists -> {"none", "live", "deleted"}]
      /\ \A x \in rows : x = <<x[1], x[2]>> /\ x[1] \in Playlists /\ x[2] \in Videos
      /\ \A q \in Runners : pc[q] # "idle" => Target(q) \in Playlists
  BY DEF RegistryInv, TypeInv, TypeOK, WorkingOnAJob, Rows, Target, Jobs
<1>1. ASSUME NEW p \in Playlists, DeleteCommit(p) PROVE RowsInv'
  <2>1. \A x \in rows' : x \in rows /\ x[1] # p
    BY <1>0, <1>1 DEF DeleteCommit, DeletedRows
  <2>2. NoOrphanRows'
    BY <1>0, <1>1, <2>1 DEF DeleteCommit, RowsInv, NoOrphanRows
  <2>3. MergingPlaylistsAreLive'
    BY <1>0, <1>1 DEF DeleteCommit, RowsInv, MergingPlaylistsAreLive, Target
  <2> QED
    BY <2>2, <2>3 DEF RowsInv
<1> QED
  BY <1>1, RowsStepButDelete

\* Where the database enforces foreign keys, no row outlives its playlist.
THEOREM NoOrphans == ForeignKeys => (Spec => []NoOrphanRows)
<1> SUFFICES ASSUME ForeignKeys PROVE Spec => []NoOrphanRows
  OBVIOUS
<1>1. Init => RowsInv
  BY DEF Init, RowsInv, NoOrphanRows, MergingPlaylistsAreLive
<1>2. RegistryInv /\ RowsInv /\ [Next]_vars => RowsInv'
  BY RowsStep
<1>3. RowsInv => NoOrphanRows
  BY DEF RowsInv
<1> QED
  BY <1>1, <1>2, <1>3, RegistryInvariant, PTL DEF Spec

\* No listing is merged into a playlist while a delete request is at work on it.
DeletesApart == \A r \in Runners : pc[r] = "merge" => Target(r) \notin deleting

\* What a delete request loaded is what the playlist still has.
DoomedAreAll == \A p \in deleting : VideosOf(p) \subseteq doomed[p]

ApartInv == RowsInv /\ DoomedAreAll

\* No step of a job adds rows to a playlist that is being deleted.
LEMMA DoomedJobStep ==
    ASSUME TypeInv, DeletesApart, DoomedAreAll, NEW r \in Runners, JobStep(r)
    PROVE  DoomedAreAll'
<1>1. UNCHANGED <<deleting, doomed>>
  BY DEF JobStep, JobLoad, BeginMerge, CommitMetadata, FinishImport, ListTargets,
         NothingToDownload, QuotaReached, StartVideo, DownloadOk, DownloadTooBig,
         AttemptFails, VideoUnavailable, Save, FinishSync, JobRaises, EndJob,
         NextVideo, requests
<1>2. CASE CommitMetadata(r)
  BY <1>1, <1>2
     DEF CommitMetadata, DeletesApart, DoomedAreAll, VideosOf
<1>3. CASE rows' = rows
  BY <1>1, <1>3 DEF DoomedAreAll, VideosOf
<1> QED
  BY <1>2, <1>3
     DEF JobStep, JobLoad, BeginMerge, FinishImport, ListTargets, NothingToDownload,
         QuotaReached, StartVideo, DownloadOk, DownloadTooBig, AttemptFails,
         VideoUnavailable, Save, FinishSync, JobRaises, EndJob, NextVideo, database

\* Merges and deletes that do not overlap leave no row behind, with or without
\* foreign keys.
LEMMA ApartStep ==
    ASSUME RegistryInv, DeletesApart, ApartInv, [Next]_vars PROVE ApartInv'
<1>0. /\ TypeInv /\ RowsInv /\ DoomedAreAll
      /\ rows \subseteq Rows
      /\ doomed \in [Playlists -> SUBSET Videos] /\ deleting \subseteq Playlists
      /\ playlist \in [Playlists -> {"none", "live", "deleted"}]
      /\ \A q \in Runners : pc[q] # "idle" => Target(q) \in Playlists
  BY DEF RegistryInv, TypeInv, TypeOK, ApartInv, WorkingOnAJob, Target, Jobs
<1>1. ASSUME NEW p \in Playlists, DeleteCommit(p) PROVE ApartInv'
  <2>1. /\ rows' \subseteq rows
        /\ p \in deleting /\ deleting' = deleting \ {p}
        /\ \A q \in Playlists : q # p => doomed'[q] = doomed[q]
        /\ playlist' = [playlist EXCEPT ![p] = "deleted"]
        /\ UNCHANGED <<pc, job>>
        /\ \A q \in Runners : pc[q] = "merge" => Target(q) # p
    BY <1>0, <1>1 DEF DeleteCommit
  <2>2. \A x \in rows' : x[1] # p
    <3> SUFFICES ASSUME NEW x \in rows, x[1] = p PROVE x \in DeletedRows(p)
      BY <1>1 DEF DeleteCommit
    <3>1. x = <<p, x[2]>> /\ x[2] \in Videos /\ x[2] \in doomed[p]
      BY <1>0, <2>1 DEF Rows, DoomedAreAll, VideosOf
    <3> QED
      BY <3>1 DEF DeletedRows
  <2>3. NoOrphanRows'
    BY <1>0, <2>1, <2>2 DEF RowsInv, NoOrphanRows, Rows
  <2>4. MergingPlaylistsAreLive'
    BY <1>0, <2>1 DEF RowsInv, MergingPlaylistsAreLive, Target
  <2>5. DoomedAreAll'
    BY <1>0, <2>1 DEF DoomedAreAll, VideosOf
  <2> QED
    BY <2>3, <2>4, <2>5 DEF ApartInv, RowsInv
<1>2. ASSUME NEW p \in Playlists, DeleteLoad(p) PROVE ApartInv'
  BY <1>0, <1>2
     DEF DeleteLoad, database, ApartInv, RowsInv, NoOrphanRows,
         MergingPlaylistsAreLive, Target, DoomedAreAll, VideosOf
<1>3. ASSUME NEW r \in Runners, JobStep(r) PROVE ApartInv'
  BY <1>0, <1>3, RowsJobStep, DoomedJobStep DEF ApartInv
<1>4. ASSUME UNCHANGED <<rows, deleting, doomed>> PROVE DoomedAreAll'
  BY <1>0, <1>4 DEF DoomedAreAll, VideosOf
<1>5. ASSUME ~(\E p \in Playlists : DeleteCommit(p)) PROVE RowsInv'
  BY <1>0, <1>5, RowsStepButDelete
<1>6. ASSUME Restart PROVE DoomedAreAll'
  BY <1>6 DEF Restart, DoomedAreAll
<1> QED
  BY <1>1, <1>2, <1>3, <1>4, <1>5, <1>6
     DEF Next, Request, AddPlaylist, RequestSync, Enqueue, UpdateQuota, AutoTick,
         AutoStep, AutoRelease, AutoStart, database, requests, vars, ApartInv

\* NoOrphanRows needs no foreign keys where no merge overlaps a delete request of
\* the same playlist (the run OrphanRows shows the overlap).
THEOREM NoOrphansWithoutOverlap == Spec /\ []DeletesApart => []NoOrphanRows
<1>1. Init => ApartInv
  BY DEF Init, ApartInv, RowsInv, NoOrphanRows, MergingPlaylistsAreLive, DoomedAreAll
<1>2. RegistryInv /\ DeletesApart /\ ApartInv /\ [Next]_vars => ApartInv'
  BY ApartStep
<1>3. ApartInv => NoOrphanRows
  BY DEF ApartInv, RowsInv
<1> QED
  BY <1>1, <1>2, <1>3, RegistryInvariant, PTL DEF Spec

-------------------------------------------------------------------------------
(* Quotas: a job saves a file only if it fits the total and the quota its   *)
(* session loaded, and that quota was its owner's at the time.              *)

RoomWasChecked ==
    \A r \in Runners :
        /\ pc[r] \notin {"idle", "load"} /\ Format(r) \in Formats =>
               seen[r].quota \in granted[OwnerOf(r)]
        /\ pc[r] = "save" => seen[r].used + FileSize(r) <= seen[r].quota

QuotaIsGranted == \A o \in Users : quota[o] \in granted[o]

QuotaInv == UsedWithinSomeQuota /\ RoomWasChecked /\ QuotaIsGranted

\* A step that writes no totals and leaves the other jobs alone.
LEMMA QuotaKept ==
    ASSUME QuotaInv, NEW r \in Runners, UNCHANGED <<used, job, quota, granted>>,
           \A q \in Runners : q # r =>
               pc'[q] = pc[q] /\ seen'[q] = seen[q] /\ video'[q] = video[q],
           pc'[r] # "save",
           \/ pc'[r] = "idle"
           \/ pc[r] \notin {"idle", "load"} /\ seen'[r].quota = seen[r].quota
    PROVE  QuotaInv'
BY
   DEF QuotaInv, UsedWithinSomeQuota, RoomWasChecked, QuotaIsGranted, Format,
       FileSize, OwnerOf, Target

\* No step of a job charges beyond the quota it remembers.
LEMMA QuotaJobStep ==
    ASSUME TypeInv, QuotaInv, NEW r \in Runners, JobStep(r) PROVE QuotaInv'
<1>0. /\ pc \in [Runners -> Steps]
      /\ seen \in [Runners -> Memories]
      /\ video \in [Runners -> Videos \cup {NoVideo}]
      /\ \A q \in Runners : pc[q] # "idle" => job[q] \in Jobs
  BY DEF TypeInv, TypeOK, WorkingOnAJob
<1>1. CASE JobLoad(r)
  <2>1. job[r] \in Jobs
    BY <1>0, <1>1 DEF JobLoad
  <2>2. quota[OwnerOf(r)] \in granted[OwnerOf(r)]
    BY <2>1, ConstantsAssumption DEF QuotaInv, QuotaIsGranted, OwnerOf, Target, Jobs
  <2>3. /\ Format(r) \in Formats => seen'[r].quota \in granted[OwnerOf(r)]
        /\ pc'[r] = "extract"
        /\ UNCHANGED <<used, job, video, quota, granted>>
        /\ \A q \in Runners : q # r => pc'[q] = pc[q] /\ seen'[q] = seen[q]
    BY <1>0, <1>1, <2>2 DEF JobLoad, database
  <2> QED
    BY <2>3
       DEF QuotaInv, UsedWithinSomeQuota, RoomWasChecked, QuotaIsGranted, Format,
           FileSize, OwnerOf, Target
<1>2. ASSUME NEW vids \in SUBSET Videos \ {{}}, BeginMerge(r, vids) PROVE QuotaInv'
  BY <1>0, <1>2, QuotaKept DEF BeginMerge, database
<1>3. CASE CommitMetadata(r)
  BY <1>0, <1>3, QuotaKept DEF CommitMetadata, session
<1>4. ASSUME EndJob(r), UNCHANGED <<used, job, quota, granted>> PROVE QuotaInv'
  BY <1>0, <1>4, QuotaKept DEF EndJob
<1>5. CASE FinishImport(r)
  BY <1>4, <1>5 DEF FinishImport, database
<1>6. CASE ListTargets(r)
  <2>1. seen'[r].quota = seen[r].quota
    BY <1>0, <1>6 DEF ListTargets, Memories
  <2> QED
    BY <1>0, <1>6, <2>1, QuotaKept DEF ListTargets, database
<1>7. CASE NothingToDownload(r)
  BY <1>4, <1>7 DEF NothingToDownload, database
<1>8. ASSUME NEW v \in Videos, QuotaReached(r, v) PROVE QuotaInv'
  BY <1>4, <1>8 DEF QuotaReached, database
<1>9. ASSUME NEW v \in Videos, StartVideo(r, v) PROVE QuotaInv'
  BY <1>0, <1>9, QuotaKept DEF StartVideo, database
<1>10. CASE DownloadOk(r)
  BY <1>0, <1>10
     DEF DownloadOk, database, session, QuotaInv, UsedWithinSomeQuota, RoomWasChecked,
         QuotaIsGranted, Format, FileSize, OwnerOf, Target
<1>11. CASE DownloadTooBig(r)
  BY <1>0, <1>11, QuotaKept DEF DownloadTooBig, NextVideo, database
<1>12. CASE AttemptFails(r)
  BY <1>0, <1>12, QuotaKept DEF AttemptFails, NextVideo, database
<1>13. CASE VideoUnavailable(r)
  BY <1>0, <1>13, QuotaKept DEF VideoUnavailable, NextVideo
<1>14. CASE Save(r)
  <2> DEFINE total == seen[r].used + FileSize(r)
  <2>1. /\ Format(r) \in Formats
        /\ seen[r].quota \in granted[OwnerOf(r)]
        /\ total <= seen[r].quota
    BY <1>14 DEF Save, TypeInv, SyncsHaveAFormat, QuotaInv, RoomWasChecked
  <2>2. /\ used' = [used EXCEPT ![OwnerOf(r)] = Flush(@, seen[r].used, total)]
        /\ UNCHANGED <<quota, granted>>
    BY <1>14 DEF Save
  <2>3. UsedWithinSomeQuota' /\ QuotaIsGranted'
    BY <2>1, <2>2 DEF QuotaInv, UsedWithinSomeQuota, QuotaIsGranted, Flush, TypeInv, TypeOK
  <2>4. /\ job' = job /\ pc'[r] = "loop"
        /\ seen'[r].quota = seen[r].quota
        /\ \A q \in Runners : q # r =>
               pc'[q] = pc[q] /\ seen'[q] = seen[q] /\ video'[q] = video[q]
    BY <1>0, <1>14 DEF Save, NextVideo, Memories
  <2>5. RoomWasChecked'
    BY <2>1, <2>2, <2>4 DEF QuotaInv, RoomWasChecked, Format, FileSize, OwnerOf, Target
  <2> QED
    BY <2>3, <2>5 DEF QuotaInv
<1>15. CASE FinishSync(r)
  BY <1>4, <1>15 DEF FinishSync, database
<1>16. CASE JobRaises(r)
  BY <1>4, <1>16 DEF JobRaises, database
<1> QED
  BY <1>1, <1>2, <1>3, <1>5, <1>6, <1>7, <1>8, <1>9, <1>10, <1>11, <1>12, <1>13,
     <1>14, <1>15, <1>16 DEF JobStep

\* Every step keeps used bytes below some quota that was set.
LEMMA QuotaStep ==
    ASSUME RegistryInv, QuotaInv, [Next]_vars PROVE QuotaInv'
<1>0. /\ TypeInv
      /\ pc \in [Runners -> Steps]
      /\ job \in [Runners -> Jobs \cup {NoJob}]
      /\ Tasks \subseteq Runners /\ AutoSlots \subseteq Runners
      /\ \A t \in Tasks : taskStatus[t] = "unborn" => pc[t] = "idle"
  BY DEF RegistryInv, TypeInv, TypeOK, Runners, ActiveTasksAreWorkedOn, IsActive,
         ActiveStates
<1>1. ASSUME NEW r \in Runners, NEW j, UNCHANGED <<used, seen, video, quota, granted>>,
             pc' = [pc EXCEPT ![r] = "load"], job' = [job EXCEPT ![r] = j]
      PROVE  QuotaInv'
  BY <1>0, <1>1
     DEF QuotaInv, UsedWithinSomeQuota, RoomWasChecked, QuotaIsGranted, Format,
         FileSize, OwnerOf, Target
<1>2. ASSUME NEW t \in Tasks, NEW p \in Playlists, NEW f, Enqueue(t, p, f),
             UNCHANGED <<used, seen, video, quota, granted>>
      PROVE  QuotaInv'
  BY <1>0, <1>1, <1>2 DEF Enqueue
<1>3. ASSUME NEW r \in AutoSlots, NEW p \in Playlists, AutoStart(r, p) PROVE QuotaInv'
  BY <1>0, <1>1, <1>3 DEF AutoStart, database, session
<1>4. CASE Restart
  BY <1>4
     DEF Restart, database, QuotaInv, UsedWithinSomeQuota, RoomWasChecked, QuotaIsGranted
<1>5. CASE UNCHANGED <<used, seen, video, pc, job, quota, granted>>
  BY <1>5
     DEF QuotaInv, UsedWithinSomeQuota, RoomWasChecked, QuotaIsGranted, Format,
         FileSize, OwnerOf, Target
<1>6. ASSUME NEW o \in Users, NEW x \in Quotas, UpdateQuota(o, x) PROVE QuotaInv'
  <2>1. /\ UNCHANGED <<used, seen, video, pc, job>>
        /\ quota' = [quota EXCEPT ![o] = x]
        /\ granted' = [granted EXCEPT ![o] = @ \cup {x}]
    BY <1>6 DEF UpdateQuota, session
  <2>2. \A u \in Users : granted[u] \subseteq granted'[u] /\ quota'[u] \in granted'[u]
    BY <1>0, <2>1 DEF TypeInv, TypeOK, QuotaInv, QuotaIsGranted
  <2>3. \A r \in Runners : pc[r] # "idle" => OwnerOf(r) \in Users
    BY <1>0, ConstantsAssumption DEF TypeInv, WorkingOnAJob, OwnerOf, Target, Jobs
  <2> QED
    BY <2>1, <2>2, <2>3
       DEF QuotaInv, UsedWithinSomeQuota, RoomWasChecked, QuotaIsGranted, Format,
           FileSize, OwnerOf, Target
<1> QED
  BY <1>0, <1>2, <1>3, <1>4, <1>5, <1>6, QuotaJobStep
     DEF Next, Request, AddPlaylist, RequestSync, DeleteLoad, DeleteCommit, AutoTick,
          AutoStep, AutoRelease, database, session, vars

\* However jobs and quota edits overlap, the recorded total of a user stays within
\* some quota that this user has had.
THEOREM QuotasBound == Spec => []UsedWithinSomeQuota
<1>1. Init => QuotaInv
  <2> SUFFICES ASSUME Init PROVE QuotaInv
    OBVIOUS
  <2>1. \A o \in Users : /\ quota[o] \in granted[o]
                         /\ quota[o] \in Nat
                         /\ used[o] = 0
    BY ConstantsAssumption DEF Init
  <2>2. \A r \in Runners : pc[r] = "idle"
    BY DEF Init
  <2> QED
    BY <2>1, <2>2 DEF QuotaInv, UsedWithinSomeQuota, RoomWasChecked, QuotaIsGranted
<1>2. RegistryInv /\ QuotaInv /\ [Next]_vars => QuotaInv'
  BY QuotaStep
<1>3. QuotaInv => UsedWithinSomeQuota
  BY DEF QuotaInv
<1> QED
  BY <1>1, <1>2, <1>3, RegistryInvariant, PTL DEF Spec

-------------------------------------------------------------------------------
(* Downloads: two jobs that would fetch the same file for the same row have *)
(* the same key, and the registry never lets both be active.                *)

UnsavedOutsideRows == \A x \in Rows : x \notin rows => saved[x] = NoFormat

InHandIsNotWaiting ==
    \A r \in Runners : pc[r] \in {"download", "save"} => video[r] \notin todo[r]

NothingInHandBetween ==
    \A r \in Runners : pc[r] \notin {"download", "save"} => video[r] = NoVideo

InLoop(r) == pc[r] \in {"loop", "download", "save"}

Wanted(r) == todo[r] \cup {video[r]}

DownloadInv ==
    /\ NoRedundantDownload
    /\ UnsavedOutsideRows
    /\ InHandIsNotWaiting
    /\ NothingInHandBetween

\* Other jobs' targets survive a step that changes neither rows nor files.
LEMMA DownloadKept ==
    ASSUME DownloadInv, NEW r \in Runners, UNCHANGED <<rows, saved, job>>,
           \A q \in Runners : q # r =>
               pc'[q] = pc[q] /\ todo'[q] = todo[q] /\ video'[q] = video[q],
           \/ pc'[r] \notin {"loop", "download", "save"}
           \/ /\ InLoop(r)
              /\ pc'[r] \in {"download", "save"} => video'[r] \notin todo'[r]
              /\ \A v \in Wanted(r)' : v \in Wanted(r) \/ v = NoVideo,
           pc'[r] \notin {"download", "save"} => video'[r] = NoVideo,
           <<Target(r), NoVideo>> \notin rows
    PROVE  DownloadInv'
BY DEF DownloadInv, NoRedundantDownload, UnsavedOutsideRows, InHandIsNotWaiting,
       NothingInHandBetween, InLoop, Wanted, Format, Target

\* At most one job downloads for a playlist and a format.
LoopsApart ==
    \A q, r \in Runners : InLoop(q) /\ InLoop(r) /\ job[q] = job[r] => q = r

\* No step of a job saves what another one still has to download.
LEMMA DownloadJobStep ==
    ASSUME RegistryInv, LoopsApart, DownloadInv, NEW r \in Runners, JobStep(r)
    PROVE  DownloadInv'
<1>0. /\ pc \in [Runners -> Steps]
      /\ todo \in [Runners -> SUBSET Videos]
      /\ video \in [Runners -> Videos \cup {NoVideo}]
      /\ saved \in [Rows -> Formats \cup {NoFormat}]
      /\ rows \subseteq Rows
      /\ NoVideo \notin Videos /\ NoFormat \notin Formats
      /\ \A q \in Runners : pc[q] # "idle" => job[q] \in Jobs
      /\ \A q \in Runners : InLoop(q) => Format(q) \in Formats
      /\ TypeInv
  BY ConstantsAssumption
     DEF RegistryInv, TypeInv, TypeOK, WorkingOnAJob, SyncsHaveAFormat, InLoop
<1>1. \A q, s \in Runners : InLoop(q) /\ InLoop(s) /\ job[q] = job[s] => q = s
  BY DEF LoopsApart
<1>2. \A q \in Runners : <<Target(q), NoVideo>> \notin rows
  BY <1>0 DEF Rows
<1>2a. pc[r] \notin {"download", "save"} => video[r] = NoVideo
  BY DEF DownloadInv, NothingInHandBetween
<1>3. CASE JobLoad(r)
  BY <1>0, <1>2, <1>3, <1>2a, DownloadKept DEF JobLoad, database
<1>4. ASSUME NEW vids \in SUBSET Videos \ {{}}, BeginMerge(r, vids) PROVE DownloadInv'
  BY <1>0, <1>2, <1>4, <1>2a, DownloadKept DEF BeginMerge, database
<1>5. CASE CommitMetadata(r)
  <2>1. /\ rows' = rows \cup ({Target(r)} \X listing[r])
        /\ pc[r] = "merge" /\ pc' = [pc EXCEPT ![r] = "refresh"]
        /\ UNCHANGED <<saved, job, todo, video>>
    BY <1>5 DEF CommitMetadata, session
  <2>2. rows' \subseteq Rows /\ rows \subseteq rows'
    BY <1>0, <1>5, <2>1
       DEF CommitMetadata, Rows, Target, Jobs, TypeInv, TypeOK
  <2>3. ASSUME NEW q \in Runners, pc'[q] \in {"loop", "download", "save"},
               NEW v \in todo[q] \cup {video[q]}, <<Target(q), v>> \in rows'
        PROVE  saved[<<Target(q), v>>] # Format(q)
    <3>1. q # r /\ InLoop(q)
      BY <1>0, <2>1, <2>3 DEF InLoop
    <3>2. CASE <<Target(q), v>> \in rows
      BY <2>3, <3>1, <3>2 DEF DownloadInv, NoRedundantDownload, InLoop
    <3>3. CASE <<Target(q), v>> \notin rows
      BY <1>0, <2>2, <2>3, <3>1, <3>3 DEF DownloadInv, UnsavedOutsideRows
    <3> QED
      BY <3>2, <3>3
  <2>4. NoRedundantDownload'
    BY <2>1, <2>3 DEF NoRedundantDownload, Target, Format
  <2>5. UnsavedOutsideRows' /\ InHandIsNotWaiting' /\ NothingInHandBetween'
    BY <1>0, <1>2a, <2>1, <2>2
       DEF DownloadInv, UnsavedOutsideRows, InHandIsNotWaiting, NothingInHandBetween
  <2> QED
    BY <2>4, <2>5 DEF DownloadInv
<1>6. ASSUME EndJob(r), UNCHANGED <<rows, saved, job>> PROVE DownloadInv'
  BY <1>0, <1>2, <1>6, DownloadKept DEF EndJob
<1>7. CASE FinishImport(r)
  BY <1>6, <1>7 DEF FinishImport, database
<1>8. CASE ListTargets(r)
  <2>1. /\ todo' = [todo EXCEPT ![r] = DownloadTargets(Target(r), Format(r))]
        /\ pc' = [pc EXCEPT ![r] = "loop"]
        /\ UNCHANGED <<rows, saved, job, video>>
    BY <1>8 DEF ListTargets, database
  <2>2. \A v \in todo'[r] : saved[<<Target(r), v>>] # Format(r)
    BY <1>0, <2>1 DEF DownloadTargets
  <2>3. video[r] = NoVideo
    BY <1>8 DEF ListTargets, DownloadInv, NothingInHandBetween
  <2> QED
    BY <1>0, <1>2, <2>1, <2>2, <2>3
       DEF DownloadInv, NoRedundantDownload, UnsavedOutsideRows, InHandIsNotWaiting,
           NothingInHandBetween, Target, Format
<1>9. CASE NothingToDownload(r)
  BY <1>6, <1>9 DEF NothingToDownload, database
<1>10. ASSUME NEW v \in Videos, QuotaReached(r, v) PROVE DownloadInv'
  BY <1>6, <1>10 DEF QuotaReached, database
<1>11. ASSUME NEW v \in Videos, StartVideo(r, v) PROVE DownloadInv'
  BY <1>0, <1>2, <1>11, DownloadKept DEF StartVideo, database, InLoop, Wanted
<1>12. CASE DownloadOk(r)
  BY <1>0, <1>2, <1>12, DownloadKept
     DEF DownloadOk, database, session, InLoop, Wanted, DownloadInv, InHandIsNotWaiting, NothingInHandBetween
<1>13. ASSUME InLoop(r), NextVideo(r), UNCHANGED <<rows, saved, job, todo>>
       PROVE  DownloadInv'
  BY <1>0, <1>2, <1>13, DownloadKept DEF NextVideo, InLoop, Wanted
<1>14. CASE DownloadTooBig(r)
  BY <1>13, <1>14 DEF DownloadTooBig, database, InLoop
<1>15. CASE AttemptFails(r)
  BY <1>13, <1>15 DEF AttemptFails, database, InLoop
<1>16. CASE VideoUnavailable(r)
  BY <1>13, <1>16 DEF VideoUnavailable, InLoop
<1>17. CASE Save(r)
  <2>1. /\ saved' = [saved EXCEPT ![RowOf(r)] = Format(r)]
        /\ RowOf(r) \in rows
        /\ pc' = [pc EXCEPT ![r] = "loop"]
        /\ video' = [video EXCEPT ![r] = NoVideo]
        /\ UNCHANGED <<rows, job, todo>>
    BY <1>17 DEF Save, NextVideo
  <2>2. pc[r] = "save" /\ video[r] \notin todo[r]
    BY <1>17 DEF Save, DownloadInv, InHandIsNotWaiting, NothingInHandBetween
  <2>3. ASSUME NEW q \in Runners, pc'[q] \in {"loop", "download", "save"},
               NEW v \in todo[q] \cup {video'[q]}, <<Target(q), v>> \in rows
        PROVE  saved'[<<Target(q), v>>] # Format(q)
    <3>1. InLoop(q)
      BY <1>0, <2>1, <2>2, <2>3 DEF InLoop
    <3>2. v \in todo[q] \cup {video[q]} /\ saved[<<Target(q), v>>] # Format(q)
      BY <1>0, <1>2, <2>1, <2>3, <3>1 DEF DownloadInv, NoRedundantDownload, InLoop
    <3>3. CASE <<Target(q), v>> # RowOf(r)
      BY <1>0, <2>1, <2>3, <3>2, <3>3
    <3>4. CASE <<Target(q), v>> = RowOf(r)
      <4>1. Target(q) = Target(r) /\ v = video[r]
        BY <3>4 DEF RowOf
      <4>2. q # r
        BY <1>0, <1>2, <2>1, <2>2, <2>3, <4>1
      <4>3. Format(q) # Format(r)
        <5>1. job[q] \in Jobs /\ job[r] \in Jobs /\ job[q] # job[r]
          BY <1>0, <1>1, <2>2, <3>1, <4>2 DEF InLoop
        <5> QED
          BY <4>1, <5>1 DEF Jobs, Target, Format
      <4> QED
        BY <1>0, <2>1, <3>4, <4>3
    <3> QED
      BY <3>3, <3>4
  <2>4. NoRedundantDownload'
    BY <2>1, <2>3 DEF NoRedundantDownload, Target, Format
  <2>5. UnsavedOutsideRows' /\ InHandIsNotWaiting' /\ NothingInHandBetween'
    BY <1>0, <2>1 DEF DownloadInv, UnsavedOutsideRows, InHandIsNotWaiting, NothingInHandBetween
  <2> QED
    BY <2>4, <2>5 DEF DownloadInv
<1>18. CASE FinishSync(r)
  BY <1>6, <1>18 DEF FinishSync, database
<1>19. CASE JobRaises(r)
  BY <1>6, <1>19 DEF JobRaises, database
<1> QED
  BY <1>3, <1>4, <1>5, <1>7, <1>8, <1>9, <1>10, <1>11, <1>12, <1>14, <1>15, <1>16,
     <1>17, <1>18, <1>19 DEF JobStep

\* Every step keeps the targets of the jobs free of saved files.
LEMMA DownloadStep ==
    ASSUME RegistryInv, LoopsApart, DownloadInv, [Next]_vars PROVE DownloadInv'
<1>0. /\ pc \in [Runners -> Steps]
      /\ job \in [Runners -> Jobs \cup {NoJob}]
      /\ Tasks \subseteq Runners /\ AutoSlots \subseteq Runners
      /\ saved \in [Rows -> Formats \cup {NoFormat}]
      /\ rows \subseteq Rows
      /\ \A u \in Tasks : taskStatus[u] = "unborn" => pc[u] = "idle"
  BY DEF RegistryInv, TypeInv, TypeOK, Runners, ActiveTasksAreWorkedOn, IsActive,
         ActiveStates
<1>1. ASSUME NEW t \in Tasks, NEW p \in Playlists, NEW f, Enqueue(t, p, f),
             UNCHANGED <<rows, saved, todo, video>>
      PROVE  DownloadInv'
  BY <1>0, <1>1
     DEF Enqueue, DownloadInv, NoRedundantDownload, UnsavedOutsideRows,
         InHandIsNotWaiting, NothingInHandBetween, Target, Format
<1>2. ASSUME NEW p \in Playlists, DeleteCommit(p) PROVE DownloadInv'
  <2>1. /\ rows' \subseteq rows
        /\ \A x \in rows' : saved'[x] = saved[x]
        /\ \A x \in Rows : x \notin rows' => x \notin rows \/ saved'[x] = NoFormat
        /\ \A x \in Rows : saved'[x] \in {saved[x], NoFormat}
        /\ UNCHANGED <<pc, job, todo, video>>
    BY <1>0, <1>2 DEF DeleteCommit, session
  <2> QED
    BY <1>0, <2>1
       DEF DownloadInv, NoRedundantDownload, UnsavedOutsideRows, InHandIsNotWaiting, NothingInHandBetween,
           Target, Format
<1>2a. ASSUME NEW r \in AutoSlots, NEW p \in Playlists, AutoStart(r, p)
       PROVE  DownloadInv'
  BY <1>0, <1>2a
     DEF AutoStart, database, session, DownloadInv, NoRedundantDownload,
         UnsavedOutsideRows, InHandIsNotWaiting, NothingInHandBetween, Target, Format
<1>3. CASE Restart
  BY <1>3
     DEF Restart, database, DownloadInv, NoRedundantDownload, UnsavedOutsideRows,
         InHandIsNotWaiting, NothingInHandBetween
<1>4. CASE UNCHANGED <<rows, saved, todo, video, pc, job>>
  BY <1>4
     DEF DownloadInv, NoRedundantDownload, UnsavedOutsideRows, InHandIsNotWaiting, NothingInHandBetween,
         Target, Format
<1> QED
  BY <1>1, <1>2, <1>2a, <1>3, <1>4, DownloadJobStep
     DEF Next, Request, AddPlaylist, RequestSync, DeleteLoad, UpdateQuota,
         AutoTick, AutoStep, AutoRelease, database, session, vars

\* As long as no two jobs download for the same playlist and format at once, none
\* fetches a file in the format its row already has, so nothing is charged twice.
THEOREM NothingFetchedTwice == Spec /\ []LoopsApart => []NoRedundantDownload
<1>1. Init => DownloadInv
  BY DEF Init, DownloadInv, NoRedundantDownload, UnsavedOutsideRows, InHandIsNotWaiting,
         NothingInHandBetween
<1>2. RegistryInv /\ LoopsApart /\ DownloadInv /\ [Next]_vars => DownloadInv'
  BY DownloadStep
<1>3. DownloadInv => NoRedundantDownload
  BY DEF DownloadInv
<1> QED
  BY <1>1, <1>2, <1>3, RegistryInvariant, PTL DEF Spec

\* find_active_task keeps them apart where nothing is scheduled: scheduled syncs are
\* not in the registry.
THEOREM RegistryPreventsRefetches ==
    AutoSlots = {} => (Spec => []NoRedundantDownload)
<1> SUFFICES ASSUME AutoSlots = {} PROVE Spec => []NoRedundantDownload
  OBVIOUS
<1>1. RegistryInv => LoopsApart
  BY DEF LoopsApart, InLoop, RegistryInv, OneActivePerKey, ActiveTasksAreWorkedOn, Runners
<1> QED
  BY <1>1, NothingFetchedTwice, RegistryInvariant, PTL
===============================================================================
