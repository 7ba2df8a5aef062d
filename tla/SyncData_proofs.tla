--------------------------- MODULE SyncData_proofs ---------------------------
(* What the jobs of SyncJobs keep true of the database, whatever overlaps:  *)
(* the accounting of storage, the marks of videos and the rows of playlists *)
EXTENDS SyncJobs_proofs

-------------------------------------------------------------------------------
(* Accounting: a session's idea of the storage used is a total that was once *)
(* in the database plus its own saves, so it never exceeds what was charged. *)

SeenWithinCharged ==
    \A r \in Runners : /\ pc[r] \in {"idle", "load"} => seen[r].used = 0
                       /\ job[r] \in Jobs => seen[r].used <= charged[OwnerOf(r)]

ChargeInv == NeverOvercharged /\ SeenWithinCharged

\* A step that leaves jobs, sessions and the totals alone.
LEMMA ChargeUntouched ==
    ASSUME ChargeInv, UNCHANGED <<used, charged, seen, pc, job>> PROVE ChargeInv'
BY DEF ChargeInv, NeverOvercharged, SeenWithinCharged, OwnerOf, Target

\* A job that moves on without writing totals keeps or forgets what it saw.
LEMMA ChargeKept ==
    ASSUME TypeInv, ChargeInv, NEW r \in Runners,
           UNCHANGED <<used, charged, job>>,
           \A q \in Runners : q # r => pc'[q] = pc[q] /\ seen'[q] = seen[q],
           seen'[r].used = 0 \/ (seen'[r].used = seen[r].used /\ pc'[r] \notin {"idle", "load"})
    PROVE  ChargeInv'
<1>1. \A q \in Runners : job[q] \in Jobs => charged[OwnerOf(q)] \in Nat
  BY ConstantsAssumption DEF TypeInv, TypeOK, OwnerOf, Target, Jobs
<1> QED
  BY <1>1 DEF ChargeInv, NeverOvercharged, SeenWithinCharged, OwnerOf, Target

\* A job that ends remembers no used bytes.
LEMMA EndJobForgets ==
    ASSUME TypeInv, NEW r \in Runners, EndJob(r)
    PROVE  /\ \A q \in Runners : q # r => pc'[q] = pc[q] /\ seen'[q] = seen[q]
           /\ seen'[r] = NothingSeen /\ seen'[r].used = 0
BY DEF TypeInv, TypeOK, EndJob, NothingSeen

\* The total a save writes: what its session saw plus the new file.
LEMMA SaveCharges ==
    ASSUME TypeInv, ChargeInv, NEW r \in Runners, Save(r)
    PROVE  ChargeInv'
<1> DEFINE o == OwnerOf(r)
           size == FileSize(r)
           total == seen[r].used + size
<1> USE DEF TypeInv, TypeOK
<1>1. /\ job[r] \in Jobs /\ Format(r) \in Formats /\ video[r] \in Videos
  BY DEF Save, WorkingOnAJob, SyncsHaveAFormat, VideoInHand
<1>2. /\ size \in Nat /\ o \in Users
  BY <1>1, ConstantsAssumption DEF FileSize, OwnerOf, Target, Jobs
<1>3. /\ \A q \in Runners : seen[q].used \in Nat
      /\ \A x \in Users : used[x] \in Nat /\ charged[x] \in Nat
      /\ \A q \in Runners : job[q] \in Jobs => OwnerOf(q) \in Users
  BY ConstantsAssumption DEF Memories, OwnerOf, Target, Jobs
<1>4. /\ used' = [used EXCEPT ![o] = Flush(@, seen[r].used, total)]
      /\ charged' = [charged EXCEPT ![o] = @ + size]
      /\ seen' = [seen EXCEPT ![r].used = total]
      /\ pc' = [pc EXCEPT ![r] = "loop"]
      /\ job' = job
  BY DEF Save, NextVideo
<1>5. /\ seen[r].used <= charged[o]
      /\ \A x \in Users : used[x] <= charged[x]
  BY <1>1 DEF ChargeInv, SeenWithinCharged, NeverOvercharged
<1>6. seen[r] \in Memories /\ seen'[r].used = total
  BY <1>4 DEF Memories
<1> HIDE DEF size, o, total
<1>7. total = seen[r].used + size
  BY DEF total
<1>8. \A x \in Users : used'[x] <= charged'[x]
  BY <1>2, <1>3, <1>4, <1>5, <1>7 DEF Flush
<1>9. \A q \in Runners : job'[q] \in Jobs => OwnerOf(q)' = OwnerOf(q)
  BY <1>4 DEF OwnerOf, Target
<1>10. \A x \in Users : charged[x] <= charged'[x]
  BY <1>2, <1>3, <1>4
<1>11. ASSUME NEW q \in Runners, q # r
       PROVE  /\ pc'[q] \in {"idle", "load"} => seen'[q].used = 0
              /\ job'[q] \in Jobs => seen'[q].used <= charged'[OwnerOf(q)]
  <2>1. seen'[q] = seen[q] /\ pc'[q] = pc[q] /\ job'[q] = job[q]
    BY <1>4, <1>11
  <2>2. job[q] \in Jobs => /\ OwnerOf(q) \in Users
                           /\ seen[q].used <= charged[OwnerOf(q)]
                           /\ charged[OwnerOf(q)] <= charged'[OwnerOf(q)]
    BY <1>3, <1>10 DEF ChargeInv, SeenWithinCharged
  <2>3. job[q] \in Jobs => charged'[OwnerOf(q)] \in Nat
    BY <1>2, <1>3, <1>4
  <2> QED
    BY <1>3, <2>1, <2>2, <2>3 DEF ChargeInv, SeenWithinCharged
<1>12. seen'[r].used <= charged'[o] /\ pc'[r] = "loop"
  BY <1>2, <1>3, <1>4, <1>5, <1>6, <1>7
<1> QED
  BY <1>8, <1>9, <1>11, <1>12
     DEF ChargeInv, NeverOvercharged, SeenWithinCharged, o

\* A job that begins has seen nothing yet.
LEMMA ChargeBegins ==
    ASSUME TypeInv, ChargeInv, NEW r \in Runners, NEW j \in Jobs,
           pc[r] = "idle", UNCHANGED <<used, charged, seen>>,
           job' = [job EXCEPT ![r] = j], pc' = [pc EXCEPT ![r] = "load"]
    PROVE  ChargeInv'
<1>1. Owner[j.playlist] \in Users /\ charged[Owner[j.playlist]] \in Nat
  BY ConstantsAssumption DEF TypeInv, TypeOK, Jobs
<1>2. seen[r].used = 0 /\ job'[r] = j
  BY DEF ChargeInv, SeenWithinCharged, TypeInv, TypeOK
<1>3. \A q \in Runners : q # r => pc'[q] = pc[q] /\ job'[q] = job[q]
  BY DEF TypeInv, TypeOK
<1> QED
  BY <1>1, <1>2, <1>3
     DEF ChargeInv, NeverOvercharged, SeenWithinCharged, OwnerOf, Target

\* No step of a job remembers or stores more than was charged.
LEMMA ChargeJobStep ==
    ASSUME TypeInv, ChargeInv, NEW r \in Runners, JobStep(r) PROVE ChargeInv'
<1>0. /\ pc \in [Runners -> Steps]
      /\ seen \in [Runners -> Memories]
      /\ \A q \in Runners : pc[q] # "idle" => job[q] \in Jobs
  BY DEF TypeInv, TypeOK, WorkingOnAJob
<1>1. CASE JobLoad(r)
  <2> DEFINE u == IF Format(r) \in Formats THEN used[OwnerOf(r)] ELSE 0
  <2>1. job[r] \in Jobs
    BY <1>0, <1>1 DEF JobLoad
  <2>2. OwnerOf(r) \in Users /\ used[OwnerOf(r)] \in Nat /\ charged[OwnerOf(r)] \in Nat
    BY <2>1, ConstantsAssumption DEF TypeInv, TypeOK, OwnerOf, Target, Jobs
  <2>3. u <= charged[OwnerOf(r)]
    BY <2>2 DEF ChargeInv, NeverOvercharged
  <2>4. seen'[r].used = u /\ pc'[r] = "extract"
    BY <1>0, <1>1 DEF JobLoad
  <2>5. /\ UNCHANGED <<used, charged, job>>
        /\ \A q \in Runners : q # r => seen'[q] = seen[q] /\ pc'[q] = pc[q]
    BY <1>0, <1>1 DEF JobLoad, database
  <2> HIDE DEF u
  <2> QED
    BY <2>3, <2>4, <2>5
       DEF ChargeInv, NeverOvercharged, SeenWithinCharged, OwnerOf, Target
<1>2. ASSUME NEW vids \in SUBSET Videos \ {{}}, BeginMerge(r, vids)
      PROVE  ChargeInv'
  BY <1>0, <1>2, ChargeKept DEF BeginMerge, database
<1>3. CASE CommitMetadata(r)
  BY <1>0, <1>3, ChargeKept DEF CommitMetadata, session
<1>4. ASSUME EndJob(r), UNCHANGED <<used, charged, job>>
      PROVE  ChargeInv'
  BY <1>4, EndJobForgets, ChargeKept
<1>5. CASE FinishImport(r)
  BY <1>4, <1>5 DEF FinishImport, database
<1>6. CASE ListTargets(r)
  <2>1. seen'[r].used = seen[r].used
    BY <1>0, <1>6 DEF ListTargets, Memories
  <2> QED
    BY <1>0, <1>6, <2>1, ChargeKept DEF ListTargets, database
<1>7. CASE NothingToDownload(r)
  BY <1>4, <1>7 DEF NothingToDownload, database
<1>8. ASSUME NEW v \in Videos, QuotaReached(r, v) PROVE ChargeInv'
  BY <1>4, <1>8 DEF QuotaReached, database
<1>9. ASSUME NEW v \in Videos, StartVideo(r, v) PROVE ChargeInv'
  BY <1>0, <1>9, ChargeKept DEF StartVideo, database
<1>10. CASE DownloadOk(r)
  BY <1>0, <1>10, ChargeKept DEF DownloadOk, database, session
<1>11. CASE DownloadTooBig(r)
  BY <1>0, <1>11, ChargeKept DEF DownloadTooBig, NextVideo, database
<1>12. CASE AttemptFails(r)
  BY <1>0, <1>12, ChargeKept DEF AttemptFails, NextVideo, database
<1>13. CASE VideoUnavailable(r)
  BY <1>0, <1>13, ChargeKept DEF VideoUnavailable, NextVideo
<1>14. CASE FinishSync(r)
  BY <1>4, <1>14 DEF FinishSync, database
<1>15. CASE JobRaises(r)
  BY <1>4, <1>15 DEF JobRaises, database
<1> QED
  BY <1>1, <1>2, <1>3, <1>5, <1>6, <1>7, <1>8, <1>9, <1>10, <1>11, <1>12, <1>13,
     <1>14, <1>15, SaveCharges DEF JobStep

\* Every step keeps what is stored and remembered below what was charged.
LEMMA ChargeStep ==
    ASSUME RegistryInv, ChargeInv, [Next]_vars PROVE ChargeInv'
<1>0. /\ TypeInv
      /\ Tasks \subseteq Runners /\ AutoSlots \subseteq Runners
      /\ \A t \in Tasks : taskStatus[t] = "unborn" => pc[t] = "idle"
  BY DEF RegistryInv, Runners, ActiveTasksAreWorkedOn, IsActive, ActiveStates
<1>1. ASSUME NEW t \in Tasks, NEW p \in Playlists, NEW f \in JobFormats,
             Enqueue(t, p, f), UNCHANGED <<used, charged, seen>>
      PROVE  ChargeInv'
  <2>1. [playlist |-> p, format |-> f] \in Jobs
    BY DEF Jobs
  <2> QED
    BY <1>0, <1>1, <2>1, ChargeBegins DEF Enqueue
<1>2. ASSUME NEW r \in AutoSlots, NEW p \in Playlists, AutoStart(r, p)
      PROVE  ChargeInv'
  <2>1. [playlist |-> p, format |-> AutoFormat] \in Jobs
    BY ConstantsAssumption DEF Jobs, JobFormats
  <2> QED
    BY <1>0, <1>2, <2>1, ChargeBegins DEF AutoStart, database, session
<1>3. CASE Restart
  <2>1. \A r \in Runners : pc'[r] = "idle" /\ seen'[r].used = 0
    BY <1>3 DEF Restart, NothingSeen
  <2>2. \A r \in Runners : job[r] \in Jobs => charged[OwnerOf(r)] \in Nat
    BY <1>0, ConstantsAssumption DEF TypeInv, TypeOK, OwnerOf, Target, Jobs
  <2>3. UNCHANGED <<used, charged, job>>
    BY <1>3 DEF Restart, database
  <2> QED
    BY <2>1, <2>2, <2>3
       DEF ChargeInv, NeverOvercharged, SeenWithinCharged, OwnerOf, Target
<1>4. CASE UNCHANGED <<used, charged, seen, pc, job>>
  BY <1>4, ChargeUntouched
<1> QED
  BY <1>0, <1>1, <1>2, <1>3, <1>4, ChargeJobStep
     DEF Next, Request, AddPlaylist, RequestSync, DeleteLoad, DeleteCommit, UpdateQuota,
         AutoTick, AutoStep, AutoRelease, JobFormats, database, session, vars

\* Lost updates of overlapping jobs only ever lose charges: the recorded total of
\* a user never exceeds the bytes of the downloads that were recorded.
THEOREM NoOvercharge == Spec => []NeverOvercharged
<1>1. Init => ChargeInv
  BY ConstantsAssumption
     DEF Init, ChargeInv, NeverOvercharged, SeenWithinCharged, NothingSeen
<1>2. RegistryInv /\ ChargeInv /\ [Next]_vars => ChargeInv'
  BY ChargeStep
<1>3. ChargeInv => NeverOvercharged
  BY DEF ChargeInv
<1> QED
  BY <1>1, <1>2, <1>3, RegistryInvariant, PTL DEF Spec

-------------------------------------------------------------------------------
(* The status of videos only moves forward: a session that remembers a       *)
(* video as downloaded or deleted remembers it rightly, so the flush that    *)
(* skips an unchanged status never leaves an older one in place.             *)

Marked(s) == s \in {"DOWNLOADED", "DELETED_ON_YT"}

SavedRowsMarked == \A x \in Rows : saved[x] # NoFormat => Marked(status[x[2]])

SeenMarksHold ==
    \A r \in Runners : \A v \in Videos :
        Marked(seen[r].status[v]) => Marked(status[v])

MarkInv == SavedRowsMarked /\ SeenMarksHold

MarksForward == \A v \in Videos : Marked(status[v]) => Marked(status'[v])

\* No session learns a mark that the database does not have.
SessionsLearnOnlyMarks ==
    \A r \in Runners : \A v \in Videos :
        seen'[r].status[v] \in {"none", seen[r].status[v], status[v]}

\* Marks that only move forward, and no new file, keep the invariant on marks.
LEMMA MarkKept ==
    ASSUME MarkInv, MarksForward, SessionsLearnOnlyMarks,
           \A x \in Rows : saved'[x] \in {saved[x], NoFormat}
    PROVE  MarkInv'
<1>1. \A x \in Rows : x[2] \in Videos
  BY DEF Rows
<1>2. SavedRowsMarked'
  BY <1>1 DEF MarkInv, SavedRowsMarked, MarksForward
<1>3. SeenMarksHold'
  BY DEF MarkInv, SeenMarksHold, MarksForward, SessionsLearnOnlyMarks, Marked
<1> QED
  BY <1>2, <1>3 DEF MarkInv

\* A job that ends adds nothing to what sessions remember.
LEMMA EndJobLearnsNothing ==
    ASSUME TypeInv, NEW r \in Runners, EndJob(r) PROVE SessionsLearnOnlyMarks
BY DEF TypeInv, TypeOK, EndJob, NothingSeen, SessionsLearnOnlyMarks

\* The commit of a merge takes no mark away.
LEMMA CommitMovesForward ==
    ASSUME TypeInv, MarkInv, NEW r \in Runners, CommitMetadata(r) PROVE MarksForward
BY DEF TypeInv, TypeOK, MarkInv, SeenMarksHold, CommitMetadata, MergedStatus, Flush,
       Marked, MarksForward

\* A save takes no mark away and marks its own video.
LEMMA SaveMovesForward ==
    ASSUME TypeInv, MarkInv, NEW r \in Runners, Save(r)
    PROVE  MarksForward /\ MarkInv'
<1> USE DEF TypeInv, TypeOK
<1>1. /\ job[r] \in Jobs /\ video[r] \in Videos
  BY DEF Save, WorkingOnAJob, VideoInHand
<1>2. RowOf(r) \in Rows /\ RowOf(r)[2] = video[r]
  BY <1>1 DEF RowOf, Rows, Target, Jobs
<1>3. /\ status' = [status EXCEPT ![video[r]] =
                       Flush(@, seen[r].status[video[r]], "DOWNLOADED")]
      /\ saved' = [saved EXCEPT ![RowOf(r)] = Format(r)]
  BY DEF Save
<1>4. Marked(status'[video[r]])
  BY <1>1, <1>3 DEF MarkInv, SeenMarksHold, Flush, Marked
<1>5. MarksForward
  BY <1>1, <1>3, <1>4 DEF MarksForward
<1>6. \A q \in Runners : seen'[q].status = seen[q].status
  <2>1. seen' = [seen EXCEPT ![r].used = seen[r].used + FileSize(r)]
    BY DEF Save
  <2> QED
    BY <2>1 DEF Memories
<1>7. SeenMarksHold'
  BY <1>5, <1>6 DEF MarkInv, SeenMarksHold, MarksForward
<1>8. ASSUME NEW x \in Rows, saved'[x] # NoFormat PROVE Marked(status'[x[2]])
  <2>1. x[2] \in Videos
    BY DEF Rows
  <2>2. CASE x = RowOf(r)
    BY <1>2, <1>4, <2>2
  <2>3. CASE x # RowOf(r)
    BY <1>2, <1>3, <1>5, <1>8, <2>1, <2>3 DEF MarkInv, SavedRowsMarked, MarksForward
  <2> QED
    BY <2>2, <2>3
<1> QED
  BY <1>5, <1>7, <1>8 DEF MarkInv, SavedRowsMarked

\* Every step of a job keeps the marks.
LEMMA MarkJobStep ==
    ASSUME TypeInv, MarkInv, NEW r \in Runners, JobStep(r)
    PROVE  MarksForward /\ MarkInv'
<1>0. /\ status \in [Videos -> Statuses]
      /\ seen \in [Runners -> Memories]
      /\ \A q \in Runners : pc[q] # "idle" => job[q] \in Jobs
  BY DEF TypeInv, TypeOK, WorkingOnAJob
<1>1. ASSUME UNCHANGED <<status, saved>>, SessionsLearnOnlyMarks
      PROVE  MarksForward /\ MarkInv'
  <2>1. MarksForward
    BY <1>1 DEF MarksForward
  <2> QED
    BY <1>1, <2>1, MarkKept
<1>2. CASE JobLoad(r)
  <2>1. SessionsLearnOnlyMarks
    BY <1>0, <1>2 DEF JobLoad, SessionsLearnOnlyMarks
  <2> QED
    BY <1>1, <1>2, <2>1 DEF JobLoad, database
<1>3. ASSUME UNCHANGED <<status, saved, seen>> PROVE MarksForward /\ MarkInv'
  BY <1>1, <1>3 DEF SessionsLearnOnlyMarks
<1>4. ASSUME NEW vids \in SUBSET Videos \ {{}}, BeginMerge(r, vids)
      PROVE  MarksForward /\ MarkInv'
  BY <1>3, <1>4 DEF BeginMerge, database
<1>5. CASE CommitMetadata(r)
  <2>1. MarksForward
    BY <1>5, CommitMovesForward
  <2>2. UNCHANGED <<saved, seen>>
    BY <1>5 DEF CommitMetadata, session
  <2> QED
    BY <2>1, <2>2, MarkKept DEF SessionsLearnOnlyMarks
<1>6. ASSUME EndJob(r), UNCHANGED <<status, saved>> PROVE MarksForward /\ MarkInv'
  BY <1>1, <1>6, EndJobLearnsNothing
<1>7. CASE FinishImport(r)
  BY <1>6, <1>7 DEF FinishImport, database
<1>8. CASE ListTargets(r)
  <2>1. SessionsLearnOnlyMarks
    BY <1>0, <1>8 DEF ListTargets, SessionsLearnOnlyMarks, Memories
  <2> QED
    BY <1>1, <1>8, <2>1 DEF ListTargets, database
<1>9. CASE NothingToDownload(r)
  BY <1>6, <1>9 DEF NothingToDownload, database
<1>10. ASSUME NEW v \in Videos, QuotaReached(r, v) PROVE MarksForward /\ MarkInv'
  BY <1>6, <1>10 DEF QuotaReached, database
<1>11. ASSUME NEW v \in Videos, StartVideo(r, v) PROVE MarksForward /\ MarkInv'
  BY <1>3, <1>11 DEF StartVideo, database
<1>12. CASE DownloadOk(r)
  BY <1>3, <1>12 DEF DownloadOk, database, session
<1>13. CASE DownloadTooBig(r)
  BY <1>3, <1>13 DEF DownloadTooBig, database
<1>14. CASE AttemptFails(r)
  BY <1>3, <1>14 DEF AttemptFails, database
<1>15. CASE VideoUnavailable(r)
  <2>1. MarksForward
    BY <1>0, <1>15 DEF VideoUnavailable, MarksForward, Marked, Flush
  <2>2. UNCHANGED <<saved, seen>>
    BY <1>15 DEF VideoUnavailable
  <2> QED
    BY <2>1, <2>2, MarkKept DEF SessionsLearnOnlyMarks
<1>16. CASE FinishSync(r)
  BY <1>6, <1>16 DEF FinishSync, database
<1>17. CASE JobRaises(r)
  BY <1>6, <1>17 DEF JobRaises, database
<1> QED
  BY <1>2, <1>4, <1>5, <1>7, <1>8, <1>9, <1>10, <1>11, <1>12, <1>13, <1>14, <1>15,
     <1>16, <1>17, SaveMovesForward DEF JobStep

\* Every step keeps the marks.
LEMMA MarkStep ==
    ASSUME TypeInv, MarkInv, [Next]_vars PROVE MarksForward /\ MarkInv'
<1>1. ASSUME UNCHANGED <<status, saved, seen>> PROVE MarksForward /\ MarkInv'
  BY <1>1, MarkKept DEF SessionsLearnOnlyMarks, MarksForward
<1>2. ASSUME NEW p \in Playlists, DeleteCommit(p) PROVE MarksForward /\ MarkInv'
  BY <1>2, MarkKept DEF DeleteCommit, session, SessionsLearnOnlyMarks, MarksForward
<1>3. CASE Restart
  BY <1>3, MarkKept
     DEF Restart, NothingSeen, database, SessionsLearnOnlyMarks, MarksForward
<1> QED
  BY <1>1, <1>2, <1>3, MarkJobStep
     DEF Next, Request, AddPlaylist, RequestSync, DeleteLoad, UpdateQuota, AutoTick,
         AutoStep, AutoRelease, AutoStart, database, session, vars

\* The invariant on marks holds always.
LEMMA MarkInvariant == Spec => [](TypeInv /\ MarkInv)
<1>1. Init => MarkInv
  BY DEF Init, MarkInv, SavedRowsMarked, SeenMarksHold, NothingSeen, Marked
<1>2. TypeInv /\ MarkInv /\ [Next]_vars => MarkInv'
  BY MarkStep
<1> QED
  BY <1>1, <1>2, TypeInvariant, PTL DEF Spec

\* A row that has its media file belongs to a downloaded or deleted video.
THEOREM SavedAreMarked == Spec => []SavedVideosAreMarked
<1>1. TypeInv /\ MarkInv => SavedVideosAreMarked
  BY DEF TypeInv, TypeOK, MarkInv, SavedRowsMarked, SavedVideosAreMarked, Marked
<1> QED
  BY <1>1, MarkInvariant, PTL

\* No merge, whatever it read before other jobs committed, offers a downloaded or
\* deleted video as available again.
THEOREM MarksNeverLost == Spec => NeverAvailableAgain
<1>1. TypeInv /\ MarkInv /\ [Next]_vars =>
        [\A v \in Videos : status[v] \in {"DOWNLOADED", "DELETED_ON_YT"} =>
                            status'[v] \in {"DOWNLOADED", "DELETED_ON_YT"}]_vars
  BY MarkStep DEF MarksForward, Marked
<1> QED
  BY <1>1, MarkInvariant, PTL DEF Spec, NeverAvailableAgain

-------------------------------------------------------------------------------
(* Reopening.  A job downloads only videos that were not deleted when it    *)
(* listed them, and its session does not learn of a later deletion.         *)

InLoopSteps == {"loop", "download", "save"}

OpenTargets ==
    \A r \in Runners :
        /\ pc[r] \in InLoopSteps =>
               \A v \in todo[r] : seen[r].status[v] # "DELETED_ON_YT"
        /\ pc[r] \in {"download", "save"} => seen[r].status[video[r]] # "DELETED_ON_YT"

\* A step of one job keeps the targets of the others; its own are kept when they only
\* get fewer and the remembered status stays.
LEMMA OpenKept ==
    ASSUME OpenTargets, NEW r \in Runners,
           \A q \in Runners : q # r => /\ pc'[q] = pc[q] /\ todo'[q] = todo[q]
                                       /\ video'[q] = video[q] /\ seen'[q] = seen[q],
           \/ pc'[r] \notin InLoopSteps
           \/ /\ \A v \in todo'[r] : seen'[r].status[v] # "DELETED_ON_YT"
              /\ pc'[r] # "loop" => seen'[r].status[video'[r]] # "DELETED_ON_YT"
    PROVE  OpenTargets'
BY DEF OpenTargets, InLoopSteps

\* Every step of a job keeps its targets open.
LEMMA OpenJobStep ==
    ASSUME TypeInv, OpenTargets, NEW r \in Runners, JobStep(r) PROVE OpenTargets'
<1>0. /\ pc \in [Runners -> Steps] /\ seen \in [Runners -> Memories]
      /\ todo \in [Runners -> SUBSET Videos]
      /\ video \in [Runners -> Videos \cup {NoVideo}]
      /\ job \in [Runners -> Jobs \cup {NoJob}]
  BY DEF TypeInv, TypeOK
<1>1. ASSUME EndJob(r) PROVE OpenTargets'
  <2>1. pc'[r] = "idle"
    BY <1>0, <1>1 DEF EndJob
  <2> QED
    BY <1>0, <1>1, <2>1, OpenKept DEF EndJob, InLoopSteps
<1>2. ASSUME NEW s, s \notin InLoopSteps, pc' = [pc EXCEPT ![r] = s],
             UNCHANGED <<todo, video>>,
             \A q \in Runners : q # r => seen'[q] = seen[q]
      PROVE  OpenTargets'
  BY <1>0, <1>2, OpenKept
<1>3. CASE JobLoad(r)
  BY <1>0, <1>2, <1>3 DEF JobLoad, InLoopSteps
<1>4. ASSUME NEW vids \in SUBSET Videos \ {{}}, BeginMerge(r, vids) PROVE OpenTargets'
  BY <1>2, <1>4 DEF BeginMerge, InLoopSteps
<1>5. CASE CommitMetadata(r)
  BY <1>2, <1>5 DEF CommitMetadata, session, InLoopSteps
<1>6. CASE ListTargets(r)
  <2> DEFINE targets == DownloadTargets(Target(r), Format(r))
  <2>1. /\ pc'[r] = "loop" /\ todo'[r] = targets
        /\ seen'[r].status = [v \in Videos |-> IF v \in targets THEN status[v] ELSE "none"]
    BY <1>0, <1>6 DEF ListTargets, Memories
  <2>2. \A v \in targets : v \in Videos /\ status[v] # "DELETED_ON_YT"
    BY DEF DownloadTargets, VideosOf
  <2>3. \A v \in todo'[r] : seen'[r].status[v] # "DELETED_ON_YT"
    BY <2>1, <2>2
  <2> QED
    BY <1>0, <1>6, <2>1, <2>3, OpenKept DEF ListTargets
<1>7. ASSUME NEW v \in Videos, StartVideo(r, v) PROVE OpenTargets'
  <2>1. /\ pc[r] = "loop" /\ pc'[r] = "download" /\ video'[r] = v /\ v \in todo[r]
        /\ todo'[r] = todo[r] \ {v} /\ seen' = seen
    BY <1>0, <1>7 DEF StartVideo
  <2>2. \A u \in todo[r] : seen[r].status[u] # "DELETED_ON_YT"
    BY <2>1 DEF OpenTargets, InLoopSteps
  <2> QED
    BY <1>0, <1>7, <2>1, <2>2, OpenKept DEF StartVideo
<1>8. CASE DownloadOk(r)
  <2>1. pc[r] = "download" /\ pc'[r] = "save" /\ UNCHANGED <<todo, video, seen>>
    BY <1>0, <1>8 DEF DownloadOk, session
  <2> QED
    BY <1>0, <1>8, <2>1, OpenKept DEF DownloadOk, OpenTargets, InLoopSteps
<1>9. ASSUME NextVideo(r), pc[r] \in {"download", "save"}, todo' = todo,
             seen'[r].status = seen[r].status,
             \A q \in Runners : q # r => seen'[q] = seen[q]
      PROVE  OpenTargets'
  <2>1. pc'[r] = "loop"
    BY <1>0, <1>9 DEF NextVideo
  <2> QED
    BY <1>0, <1>9, <2>1, OpenKept DEF NextVideo, OpenTargets, InLoopSteps
<1>10. CASE DownloadTooBig(r) \/ AttemptFails(r) \/ VideoUnavailable(r)
  BY <1>9, <1>10 DEF DownloadTooBig, AttemptFails, VideoUnavailable
<1>11. CASE Save(r)
  <2>1. seen' = [seen EXCEPT ![r].used = seen[r].used + FileSize(r)]
    BY <1>11 DEF Save
  <2>2. seen'[r].status = seen[r].status /\ \A q \in Runners : q # r => seen'[q] = seen[q]
    BY <1>0, <2>1 DEF Memories
  <2> QED
    BY <1>9, <1>11, <2>2 DEF Save
<1>12. CASE \/ FinishImport(r) \/ NothingToDownload(r) \/ FinishSync(r) \/ JobRaises(r)
            \/ \E v \in Videos : QuotaReached(r, v)
  BY <1>1, <1>12 DEF FinishImport, NothingToDownload, FinishSync, JobRaises, QuotaReached
<1> QED
  BY <1>3, <1>4, <1>5, <1>6, <1>7, <1>8, <1>10, <1>11, <1>12 DEF JobStep

\* Every step keeps the targets open.
LEMMA OpenStep ==
    ASSUME TypeInv, OpenTargets, [Next]_vars PROVE OpenTargets'
<1>0. pc \in [Runners -> Steps] /\ AutoSlots \subseteq Runners /\ Tasks \subseteq Runners
  BY DEF TypeInv, TypeOK, Runners
<1>1. ASSUME UNCHANGED <<pc, todo, video, seen>> PROVE OpenTargets'
  BY <1>1 DEF OpenTargets
<1>2. ASSUME NEW r \in Runners, pc' = [pc EXCEPT ![r] = "load"],
             UNCHANGED <<todo, video, seen>>
      PROVE  OpenTargets'
  BY <1>0, <1>2, OpenKept DEF InLoopSteps
<1>3. ASSUME NEW t \in Tasks, NEW p \in Playlists, NEW f \in JobFormats,
             Enqueue(t, p, f), UNCHANGED session
      PROVE  OpenTargets'
  BY <1>0, <1>2, <1>3 DEF Enqueue, session
<1>4. ASSUME NEW r \in AutoSlots, NEW p \in Playlists, AutoStart(r, p)
      PROVE  OpenTargets'
  BY <1>0, <1>2, <1>4 DEF AutoStart, session
<1>5. CASE Restart
  BY <1>5 DEF Restart, OpenTargets, InLoopSteps
<1> QED
  BY <1>1, <1>3, <1>4, <1>5, OpenJobStep
     DEF Next, Request, AddPlaylist, RequestSync, DeleteLoad, DeleteCommit, UpdateQuota,
         AutoTick, AutoStep, AutoRelease, JobFormats, session, vars

\* Only the save of a download listed before changes a deletion mark.
LEMMA ReopenStep ==
    ASSUME TypeInv, OpenTargets, [Next]_vars,
           NEW v \in Videos, status[v] = "DELETED_ON_YT", status'[v] # status[v]
    PROVE  \E r \in Runners : /\ pc[r] = "save" /\ video[r] = v
                              /\ seen[r].status[v] # "DELETED_ON_YT"
<1>0. status \in [Videos -> Statuses]
  BY DEF TypeInv, TypeOK
<1>1. PICK r \in Runners : JobStep(r)
  BY DEF Next, Request, AddPlaylist, RequestSync, Enqueue, DeleteLoad, DeleteCommit,
     UpdateQuota, AutoTick, AutoStep, AutoRelease, AutoStart, Restart, database, vars
<1>2. ~CommitMetadata(r)
  BY DEF CommitMetadata, MergedStatus, Flush
<1>3. ~VideoUnavailable(r)
  BY <1>0 DEF VideoUnavailable, Flush
<1>4. Save(r)
  BY <1>1, <1>2, <1>3
     DEF JobStep, JobLoad, BeginMerge, FinishImport, ListTargets, NothingToDownload,
         QuotaReached, StartVideo, DownloadOk, DownloadTooBig, AttemptFails,
         FinishSync, JobRaises, database
<1>5. pc[r] = "save" /\ video[r] = v
  BY <1>0, <1>4 DEF Save
<1> QED
  BY <1>5 DEF OpenTargets

\* A video that was marked deleted is reopened only by a job that listed it before
\* and records its download afterwards.
THEOREM ReopenedOnlyByDownload == Spec => ReopenedOnlyBySave
<1>1. Init => OpenTargets
  BY DEF Init, OpenTargets, InLoopSteps
<1>2. TypeInv /\ OpenTargets /\ [Next]_vars => OpenTargets'
  BY OpenStep
<1>3. TypeInv /\ OpenTargets /\ [Next]_vars =>
        [\A v \in Videos :
            status[v] = "DELETED_ON_YT" /\ status'[v] # status[v] =>
                \E r \in Runners : /\ pc[r] = "save" /\ video[r] = v
                                   /\ seen[r].status[v] # "DELETED_ON_YT"]_vars
  BY ReopenStep
<1> QED
  BY <1>1, <1>2, <1>3, TypeInvariant, PTL DEF Spec, ReopenedOnlyBySave

-------------------------------------------------------------------------------
(* Counters: every target of a loop is waiting, in hand, completed or failed. *)

\* The counters of a task account for all its targets.
Balanced(t) ==
    report[t].completed + report[t].failed + Cardinality(todo[t])
        + (IF pc[t] = "loop" THEN 0 ELSE 1) = report[t].total

\* A step of one job keeps the counters of the others.
LEMMA CountersKept ==
    ASSUME CountersAddUp, NEW r \in Runners,
           \A q \in Runners : q # r => pc'[q] = pc[q] /\ todo'[q] = todo[q],
           \A t \in Tasks : t # r => report'[t] = report[t],
           r \in Tasks /\ pc'[r] \in InLoopSteps => Balanced(r)'
    PROVE  CountersAddUp'
BY DEF CountersAddUp, Balanced, InLoopSteps, Runners

\* A job that is not in its loop afterwards has no counters to keep.
LEMMA OutOfTheLoop ==
    ASSUME TypeInv, CountersAddUp, NEW r \in Runners, NEW s \in Steps \ InLoopSteps,
           pc' = [pc EXCEPT ![r] = s],
           \A q \in Runners : q # r => todo'[q] = todo[q],
           \A t \in Tasks : t # r => report'[t] = report[t]
    PROVE  CountersAddUp'
BY CountersKept DEF TypeInv, TypeOK

\* Beginning a loop: every target waits.
LEMMA CountersBegin ==
    ASSUME TypeInv, CountersAddUp, NEW r \in Runners, ListTargets(r) PROVE CountersAddUp'
<1> DEFINE targets == DownloadTargets(Target(r), Format(r))
<1>0. /\ pc \in [Runners -> Steps] /\ todo \in [Runners -> SUBSET Videos]
      /\ report \in [Tasks -> Counters]
  BY DEF TypeInv, TypeOK
<1>1. Cardinality(targets) \in Nat
  BY CardinalityOfVideos DEF DownloadTargets, VideosOf
<1>2. pc'[r] = "loop" /\ todo'[r] = targets
  BY <1>0 DEF ListTargets
<1>3. ASSUME r \in Tasks PROVE Balanced(r)'
  <2>1. report'[r] = [total |-> Cardinality(targets), completed |-> 0, failed |-> 0]
    BY <1>0, <1>3 DEF ListTargets, Publish
  <2> QED
    BY <1>1, <1>2, <2>1 DEF Balanced
<1> QED
  BY <1>0, <1>3, CountersKept DEF ListTargets, Publish

\* Taking up a target: one waits less, one is in hand.
LEMMA CountersStart ==
    ASSUME TypeInv, CountersAddUp, NEW r \in Runners, NEW v \in Videos, StartVideo(r, v)
    PROVE  CountersAddUp'
<1>0. /\ pc \in [Runners -> Steps] /\ todo \in [Runners -> SUBSET Videos]
      /\ report \in [Tasks -> Counters]
  BY DEF TypeInv, TypeOK
<1>1. /\ pc[r] = "loop" /\ pc'[r] = "download"
      /\ v \in todo[r] /\ todo'[r] = todo[r] \ {v} /\ report' = report
  BY <1>0 DEF StartVideo, registry
<1>2. IsFiniteSet(todo[r]) /\ Cardinality(todo[r]) \in Nat
  BY <1>0, ConstantsAssumption, FS_Subset, CardinalityOfVideos
<1>3. Cardinality(todo'[r]) = Cardinality(todo[r]) - 1
  BY <1>1, <1>2, FS_RemoveElement
<1>4. ASSUME r \in Tasks PROVE Balanced(r)'
  <2>1. Balanced(r)
    BY <1>1, <1>4 DEF CountersAddUp, Balanced
  <2>2. report[r] \in Counters
    BY <1>0, <1>4
  <2> QED
    BY <1>1, <1>2, <1>3, <2>1, <2>2 DEF Balanced, Counters
<1> QED
  BY <1>0, <1>4, CountersKept DEF StartVideo, registry

\* Giving up or recording the target in hand: it is counted as failed or completed.
LEMMA CountersEnd ==
    ASSUME TypeInv, CountersAddUp, NEW r \in Runners, pc[r] \in {"download", "save"},
           NextVideo(r), todo' = todo,
           Publish(r, CountFailed(r)) \/ Publish(r, CountCompleted(r))
    PROVE  CountersAddUp'
<1>0. /\ pc \in [Runners -> Steps] /\ todo \in [Runners -> SUBSET Videos]
      /\ report \in [Tasks -> Counters]
  BY DEF TypeInv, TypeOK
<1>1. pc'[r] = "loop" /\ \A q \in Runners : q # r => pc'[q] = pc[q]
  BY <1>0 DEF NextVideo
<1>2. Cardinality(todo[r]) \in Nat
  BY <1>0, CardinalityOfVideos
<1>3. ASSUME r \in Tasks PROVE Balanced(r)'
  <2>1. Balanced(r)
    BY <1>3 DEF CountersAddUp, Balanced
  <2>2. report[r] \in Counters
    BY <1>0, <1>3
  <2>3. report'[r] = CountFailed(r) \/ report'[r] = CountCompleted(r)
    BY <1>0, <1>3 DEF Publish
  <2>4. /\ report'[r].total = report[r].total
        /\ report'[r].completed + report'[r].failed
              = report[r].completed + report[r].failed + 1
    BY <2>2, <2>3 DEF CountFailed, CountCompleted, Counters
  <2>5. report'[r] \in Counters
    BY <2>2, <2>3 DEF CountFailed, CountCompleted, Counters
  <2> QED
    BY <1>1, <1>2, <2>1, <2>2, <2>4, <2>5 DEF Balanced, Counters
<1>4. \A t \in Tasks : t # r => report'[t] = report[t]
  BY <1>0 DEF Publish
<1> QED
  BY <1>1, <1>3, <1>4, CountersKept

\* Every step of a job keeps the counters.
LEMMA CountersJobStep ==
    ASSUME TypeInv, CountersAddUp, NEW r \in Runners, JobStep(r) PROVE CountersAddUp'
<1>0. /\ pc \in [Runners -> Steps] /\ todo \in [Runners -> SUBSET Videos]
      /\ report \in [Tasks -> Counters]
  BY DEF TypeInv, TypeOK
<1>1. ASSUME EndJob(r), \A t \in Tasks : t # r => report'[t] = report[t]
      PROVE  CountersAddUp'
  <2>1. \A q \in Runners : q # r => todo'[q] = todo[q]
    BY <1>0, <1>1 DEF EndJob
  <2>2. "idle" \in Steps \ InLoopSteps
    BY DEF Steps, InLoopSteps
  <2> QED
    BY <1>1, <2>1, <2>2, OutOfTheLoop DEF EndJob
<1>2. CASE JobLoad(r)
  BY <1>2, OutOfTheLoop DEF JobLoad, Steps, InLoopSteps, SetStatus
<1>3. ASSUME NEW vids \in SUBSET Videos \ {{}}, BeginMerge(r, vids) PROVE CountersAddUp'
  BY <1>3, OutOfTheLoop DEF BeginMerge, Steps, InLoopSteps, registry
<1>4. CASE CommitMetadata(r)
  BY <1>4, OutOfTheLoop DEF CommitMetadata, Steps, InLoopSteps, registry, session
<1>5. CASE DownloadOk(r)
  <2>1. /\ pc[r] = "download" /\ pc'[r] = "save" /\ UNCHANGED <<todo, report>>
        /\ \A q \in Runners : q # r => pc'[q] = pc[q]
    BY <1>0, <1>5 DEF DownloadOk, session, registry
  <2>2. r \in Tasks => Balanced(r)'
    BY <2>1 DEF CountersAddUp, Balanced
  <2> QED
    BY <2>1, <2>2, CountersKept
<1>6. CASE DownloadTooBig(r) \/ AttemptFails(r) \/ VideoUnavailable(r)
  BY <1>6, CountersEnd DEF DownloadTooBig, AttemptFails, VideoUnavailable
<1>7. CASE Save(r)
  BY <1>7, CountersEnd DEF Save
<1>8. CASE \/ FinishImport(r) \/ NothingToDownload(r) \/ FinishSync(r) \/ JobRaises(r)
           \/ \E v \in Videos : QuotaReached(r, v)
  BY <1>0, <1>1, <1>8
     DEF FinishImport, NothingToDownload, FinishSync, JobRaises, QuotaReached, Publish
<1> QED
  BY <1>2, <1>3, <1>4, <1>5, <1>6, <1>7, <1>8, CountersBegin, CountersStart DEF JobStep

\* Every step keeps the counters.
LEMMA CountersStep ==
    ASSUME TypeInv, CountersAddUp, [Next]_vars PROVE CountersAddUp'
<1>0. AutoSlots \subseteq Runners /\ Tasks \subseteq Runners /\ "load" \in Steps \ InLoopSteps
  BY DEF Runners, Steps, InLoopSteps
<1>1. ASSUME UNCHANGED <<pc, todo, report>> PROVE CountersAddUp'
  BY <1>1 DEF CountersAddUp
<1>2. ASSUME NEW r \in Runners, pc' = [pc EXCEPT ![r] = "load"], UNCHANGED <<todo, report>>
      PROVE  CountersAddUp'
  BY <1>0, <1>2, OutOfTheLoop
<1>3. ASSUME NEW t \in Tasks, NEW p \in Playlists, NEW f \in JobFormats,
             Enqueue(t, p, f), UNCHANGED <<session, report>>
      PROVE  CountersAddUp'
  BY <1>0, <1>2, <1>3 DEF Enqueue, session
<1>4. ASSUME NEW r \in AutoSlots, NEW p \in Playlists, AutoStart(r, p)
      PROVE  CountersAddUp'
  BY <1>0, <1>2, <1>4 DEF AutoStart, session, registry
<1>5. CASE Restart
  BY <1>5 DEF Restart, CountersAddUp, Runners
<1> QED
  BY <1>1, <1>3, <1>4, <1>5, CountersJobStep
     DEF Next, Request, AddPlaylist, RequestSync, DeleteLoad, DeleteCommit, UpdateQuota,
         AutoTick, AutoStep, AutoRelease, JobFormats, session, registry, vars

\* While the loop of a task runs, its counters account for every target it listed.
THEOREM EveryTargetIsCounted == Spec => []CountersAddUp
<1>1. Init => CountersAddUp
  BY DEF Init, CountersAddUp, Runners
<1>2. TypeInv /\ CountersAddUp /\ [Next]_vars => CountersAddUp'
  BY CountersStep
<1> QED
  BY <1>1, <1>2, TypeInvariant, PTL DEF Spec

-------------------------------------------------------------------------------
(* Exact charges.  As long as no two syncs run for a user at the same time, *)
(* what a session remembers of the storage used is what the database holds. *)

IsSyncing(r) == pc[r] \notin {"idle", "load"} /\ Format(r) \in Formats

\* At most one sync of the user has loaded the stored total.
SyncsApart(o) ==
    \A q, r \in Runners :
        IsSyncing(q) /\ IsSyncing(r) /\ OwnerOf(q) = o /\ OwnerOf(r) = o => q = r

AllSyncsApart == \A o \in Users : SyncsApart(o)

\* The user's total is right and his sync knows it.
ExactFor(o) ==
    /\ used[o] = charged[o]
    /\ \A r \in Runners : IsSyncing(r) /\ OwnerOf(r) = o => seen[r].used = used[o]

\* A step of one job that writes no totals keeps them exact.
LEMMA ExactKept ==
    ASSUME NEW o \in Users, ExactFor(o), NEW r \in Runners, UNCHANGED <<used, charged>>,
           \A q \in Runners : q # r => /\ pc'[q] = pc[q] /\ seen'[q].used = seen[q].used
                                       /\ job'[q] = job[q],
           \/ pc'[r] \in {"idle", "load"}
           \/ /\ pc[r] \notin {"idle", "load"}
              /\ job'[r] = job[r] /\ seen'[r].used = seen[r].used
    PROVE  ExactFor(o)'
BY DEF ExactFor, IsSyncing, Format, OwnerOf, Target

\* The total a save writes is the old one and the size of the file.
LEMMA ExactSave ==
    ASSUME NEW o \in Users, SyncsApart(o), RegistryInv, ExactFor(o),
           NEW r \in Runners, Save(r)
    PROVE  ExactFor(o)'
<1> DEFINE mine == OwnerOf(r)
           size == FileSize(r)
<1>1. /\ job[r] \in Jobs /\ Format(r) \in Formats /\ video[r] \in Videos
      /\ pc[r] = "save" /\ IsSyncing(r)
  BY DEF Save, RegistryInv, TypeInv, WorkingOnAJob, SyncsHaveAFormat, VideoInHand, IsSyncing
<1>2. mine \in Users /\ size \in Nat
  BY <1>1, ConstantsAssumption DEF OwnerOf, Target, FileSize, Jobs
<1>3. /\ used \in [Users -> Nat] /\ charged \in [Users -> Nat]
      /\ seen \in [Runners -> Memories] /\ pc \in [Runners -> Steps]
  BY DEF RegistryInv, TypeInv, TypeOK
<1>4. /\ job' = job /\ charged' = [charged EXCEPT ![mine] = @ + size]
      /\ seen' = [seen EXCEPT ![r].used = seen[r].used + size]
      /\ used' = [used EXCEPT ![mine] = Flush(@, seen[r].used, seen[r].used + size)]
      /\ \A q \in Runners : q # r => pc'[q] = pc[q]
  BY <1>3 DEF Save, NextVideo
<1>5. \A q \in Runners : OwnerOf(q)' = OwnerOf(q) /\ Format(q)' = Format(q)
  BY <1>4 DEF OwnerOf, Target, Format
<1> HIDE DEF mine, size
<1>6. CASE mine # o
  <2>1. used'[o] = used[o] /\ charged'[o] = charged[o]
    BY <1>2, <1>3, <1>4, <1>6
  <2>2. \A q \in Runners : q # r => seen'[q] = seen[q]
    BY <1>3, <1>4
  <2>3. OwnerOf(r) # o
    BY <1>6 DEF mine
  <2> QED
    BY <1>4, <1>5, <2>1, <2>2, <2>3 DEF ExactFor, IsSyncing
<1>7. CASE mine = o
  <2>1. OwnerOf(r) = o
    BY <1>7 DEF mine
  <2>2. seen[r].used = used[o] /\ used[o] = charged[o]
    BY <1>1, <2>1 DEF ExactFor
  <2>3. used'[o] = used[o] + size /\ charged'[o] = charged[o] + size
    BY <1>2, <1>3, <1>4, <1>7, <2>2 DEF Flush
  <2>4. seen'[r].used = used[o] + size
    BY <1>3, <1>4, <2>2 DEF Memories
  <2>5. ASSUME NEW q \in Runners, IsSyncing(q)', OwnerOf(q)' = o PROVE q = r
    <3>1. SUFFICES ASSUME q # r PROVE FALSE
      OBVIOUS
    <3>2. IsSyncing(q) /\ OwnerOf(q) = o
      BY <1>4, <1>5, <2>5, <3>1 DEF IsSyncing
    <3> QED
      BY <1>1, <2>1, <3>1, <3>2 DEF SyncsApart
  <2> QED
    BY <2>2, <2>3, <2>4, <2>5 DEF ExactFor
<1> QED
  BY <1>6, <1>7

\* Every step of a job keeps the totals exact.
LEMMA ExactJobStep ==
    ASSUME NEW o \in Users, SyncsApart(o), RegistryInv, ExactFor(o),
           NEW r \in Runners, JobStep(r)
    PROVE  ExactFor(o)'
<1>0. /\ TypeInv /\ pc \in [Runners -> Steps] /\ seen \in [Runners -> Memories]
  BY DEF RegistryInv, TypeInv, TypeOK
<1>1. job' = job /\ \A q \in Runners : q # r => pc'[q] = pc[q]
  BY <1>0, JobStepEffect
<1>2. ASSUME EndJob(r), UNCHANGED <<used, charged>> PROVE ExactFor(o)'
  <2>1. pc'[r] = "idle" /\ \A q \in Runners : q # r => seen'[q] = seen[q]
    BY <1>0, <1>2 DEF EndJob
  <2> QED
    BY <1>1, <1>2, <2>1, ExactKept
<1>3. ASSUME UNCHANGED <<used, charged, seen>>, pc[r] \notin {"idle", "load"}
      PROVE  ExactFor(o)'
  BY <1>1, <1>3, ExactKept
<1>4. CASE JobLoad(r)
  <2>1. UNCHANGED <<used, charged>>
    BY <1>4 DEF JobLoad, database
  <2>2. \A q \in Runners : q # r => seen'[q] = seen[q]
    BY <1>0, <1>4 DEF JobLoad
  <2>3. seen'[r].used = IF Format(r) \in Formats THEN used[OwnerOf(r)] ELSE 0
    BY <1>0, <1>4 DEF JobLoad
  <2>4. ASSUME NEW q \in Runners, IsSyncing(q)', OwnerOf(q)' = o
        PROVE  seen'[q].used = used[o]
    <3>1. CASE q = r
      BY <1>1, <2>3, <2>4, <3>1 DEF IsSyncing, Format, OwnerOf, Target
    <3>2. CASE q # r
      BY <1>1, <2>2, <2>4, <3>2 DEF ExactFor, IsSyncing, Format, OwnerOf, Target
    <3> QED
      BY <3>1, <3>2
  <2> QED
    BY <2>1, <2>4 DEF ExactFor
<1>5. CASE ListTargets(r)
  <2>1. \A q \in Runners : seen'[q].used = seen[q].used
    BY <1>0, <1>5 DEF ListTargets, Memories
  <2> QED
    BY <1>1, <1>5, <2>1, ExactKept DEF ListTargets, database
<1>6. ASSUME NEW vids \in SUBSET Videos \ {{}}, BeginMerge(r, vids) PROVE ExactFor(o)'
  BY <1>3, <1>6 DEF BeginMerge, database
<1>7. ASSUME NEW v \in Videos, StartVideo(r, v) PROVE ExactFor(o)'
  BY <1>3, <1>7 DEF StartVideo, database
<1>8. CASE \/ CommitMetadata(r) \/ DownloadOk(r) \/ DownloadTooBig(r)
           \/ AttemptFails(r) \/ VideoUnavailable(r)
  BY <1>3, <1>8
     DEF CommitMetadata, DownloadOk, DownloadTooBig, AttemptFails, VideoUnavailable,
         database, session
<1>9. CASE \/ FinishImport(r) \/ NothingToDownload(r) \/ FinishSync(r) \/ JobRaises(r)
           \/ \E v \in Videos : QuotaReached(r, v)
  BY <1>2, <1>9
     DEF FinishImport, NothingToDownload, FinishSync, JobRaises, QuotaReached, database
<1> QED
  BY <1>4, <1>5, <1>6, <1>7, <1>8, <1>9, ExactSave DEF JobStep

\* Every step keeps the totals of a user exact whose syncs are apart.
LEMMA ExactStep ==
    ASSUME NEW o \in Users, SyncsApart(o), RegistryInv, ExactFor(o), [Next]_vars
    PROVE  ExactFor(o)'
<1>0. /\ pc \in [Runners -> Steps] /\ job \in [Runners -> Jobs \cup {NoJob}]
      /\ Tasks \subseteq Runners /\ AutoSlots \subseteq Runners
  BY DEF RegistryInv, TypeInv, TypeOK, Runners
<1>1. ASSUME UNCHANGED <<used, charged, seen, pc, job>> PROVE ExactFor(o)'
  BY <1>1 DEF ExactFor, IsSyncing, Format, OwnerOf, Target
<1>2. ASSUME NEW t \in Tasks, NEW p \in Playlists, NEW f \in JobFormats,
             Enqueue(t, p, f), UNCHANGED <<used, charged, seen>>
      PROVE  ExactFor(o)'
  BY <1>0, <1>2, ExactKept DEF Enqueue
<1>3. ASSUME NEW r \in AutoSlots, NEW p \in Playlists, AutoStart(r, p)
      PROVE  ExactFor(o)'
  BY <1>0, <1>3, ExactKept DEF AutoStart, database, session
<1>4. CASE Restart
  BY <1>4 DEF Restart, database, ExactFor, IsSyncing
<1> QED
  BY <1>0, <1>1, <1>2, <1>3, <1>4, ExactJobStep
     DEF Next, Request, AddPlaylist, RequestSync, DeleteLoad, DeleteCommit, UpdateQuota,
         AutoTick, AutoStep, AutoRelease, JobFormats, database, session, vars

\* The totals are exact at the start.
LEMMA ExactInit == ASSUME Init, NEW o \in Users PROVE ExactFor(o)
BY DEF Init, ExactFor, IsSyncing

\* As long as no two syncs of a user overlap, his total is the sum of the downloads
\* recorded for him, whatever the jobs of other users, the scheduler, failures,
\* deletions and restarts do.
THEOREM ChargesOfOneUserAreExact ==
    ASSUME NEW o \in Users
    PROVE  Spec /\ []SyncsApart(o) => [](used[o] = charged[o])
<1>1. Init => ExactFor(o)
  BY ExactInit
<1>2. RegistryInv /\ SyncsApart(o) /\ ExactFor(o) /\ [Next]_vars => ExactFor(o)'
  BY ExactStep
<1>3. ExactFor(o) => used[o] = charged[o]
  BY DEF ExactFor
<1> QED
  BY <1>1, <1>2, <1>3, RegistryInvariant, PTL DEF Spec

\* If no user's syncs ever overlap, every total is exact.
THEOREM ChargesAreExact == Spec /\ []AllSyncsApart => []ChargedExactly
<1> DEFINE Exact == \A o \in Users : ExactFor(o)
<1>1. Init => Exact
  BY ExactInit
<1>2. RegistryInv /\ AllSyncsApart /\ Exact /\ [Next]_vars => Exact'
  <2> SUFFICES ASSUME RegistryInv, AllSyncsApart, Exact, [Next]_vars, NEW o \in Users
               PROVE  ExactFor(o)'
    OBVIOUS
  <2> QED
    BY ExactStep DEF AllSyncsApart
<1>3. Exact => ChargedExactly
  BY DEF ExactFor, ChargedExactly
<1> QED
  BY <1>1, <1>2, <1>3, RegistryInvariant, PTL DEF Spec

\* Each user has one playlist, one format is on offer, and nothing is scheduled.
OneSyncPerUser ==
    /\ AutoSlots = {}
    /\ \A p, q \in Playlists : Owner[p] = Owner[q] => p = q
    /\ \A f, g \in Formats : f = g

\* Then the registry keeps the syncs of a user apart: they would have one key.
LEMMA OneSyncAtATime == ASSUME OneSyncPerUser, RegistryInv PROVE AllSyncsApart
<1> SUFFICES ASSUME NEW q \in Runners, NEW r \in Runners,
                    IsSyncing(q), IsSyncing(r), OwnerOf(q) = OwnerOf(r)
             PROVE  q = r
  BY DEF AllSyncsApart, SyncsApart
<1>1. job[q] \in Jobs /\ job[r] \in Jobs
  BY DEF IsSyncing, RegistryInv, TypeInv, WorkingOnAJob
<1>2. job[q] = job[r]
  BY <1>1 DEF OneSyncPerUser, IsSyncing, OwnerOf, Target, Format, Jobs
<1> QED
  BY <1>2 DEF OneSyncPerUser, IsSyncing, Runners, RegistryInv, OneActivePerKey,
              ActiveTasksAreWorkedOn

\* find_active_task alone makes every total exact where users have one playlist and
\* one format each and nothing is scheduled.
THEOREM RegistryKeepsChargesExact == OneSyncPerUser => (Spec => []ChargedExactly)
<1> SUFFICES ASSUME OneSyncPerUser PROVE Spec => []ChargedExactly
  OBVIOUS
<1>1. RegistryInv => AllSyncsApart
  BY OneSyncAtATime
<1> QED
  BY <1>1, ChargesAreExact, RegistryInvariant, PTL
-------------------------------------------------------------------------------
(* Progress: the steps a job has left only ever become fewer.               *)

\* A subset of the videos has no more members than the videos.
LEMMA TargetsAreFew ==
    ASSUME NEW S \in SUBSET Videos
    PROVE  /\ IsFiniteSet(S) /\ Cardinality(S) \in Nat /\ Cardinality(Videos) \in Nat
           /\ Cardinality(S) <= Cardinality(Videos)
BY ConstantsAssumption, FS_Subset, FS_CardinalityType

\* Every step of a job lowers its own bound.
LEMMA JobStepRunsOut ==
    ASSUME TypeInv, NEW r \in Runners, JobStep(r), pc[r] # "idle"
    PROVE  StepsLeft(r)' < StepsLeft(r)
<1> DEFINE n == Cardinality(todo[r])
           N == Cardinality(Videos)
<1>0. /\ pc \in [Runners -> Steps] /\ todo \in [Runners -> SUBSET Videos]
  BY DEF TypeInv, TypeOK
<1>1. n \in Nat /\ N \in Nat /\ n <= N /\ IsFiniteSet(todo[r])
  BY <1>0, TargetsAreFew
<1>2. ASSUME EndJob(r) PROVE StepsLeft(r)' < StepsLeft(r)
  <2>1. pc'[r] = "idle"
    BY <1>0, <1>2 DEF EndJob
  <2> QED
    BY <1>0, <1>1, <2>1 DEF StepsLeft, Steps
<1>3. CASE JobLoad(r)
  BY <1>0, <1>1, <1>3 DEF JobLoad, StepsLeft
<1>4. ASSUME NEW vids \in SUBSET Videos \ {{}}, BeginMerge(r, vids)
      PROVE  StepsLeft(r)' < StepsLeft(r)
  BY <1>0, <1>1, <1>4 DEF BeginMerge, StepsLeft
<1>5. CASE CommitMetadata(r)
  BY <1>0, <1>1, <1>5 DEF CommitMetadata, StepsLeft
<1>6. CASE ListTargets(r)
  <2> DEFINE targets == DownloadTargets(Target(r), Format(r))
  <2>1. pc[r] = "refresh" /\ pc'[r] = "loop" /\ todo'[r] = targets
    BY <1>0, <1>6 DEF ListTargets
  <2>2. targets \in SUBSET Videos
    BY DEF DownloadTargets, VideosOf
  <2>3. Cardinality(targets) \in Nat /\ Cardinality(targets) <= N
    BY <2>2, TargetsAreFew
  <2> QED
    BY <1>1, <2>1, <2>3 DEF StepsLeft
<1>7. ASSUME NEW v \in Videos, StartVideo(r, v) PROVE StepsLeft(r)' < StepsLeft(r)
  <2>1. /\ pc[r] = "loop" /\ pc'[r] = "download"
        /\ v \in todo[r] /\ todo'[r] = todo[r] \ {v}
    BY <1>0, <1>7 DEF StartVideo
  <2>2. Cardinality(todo'[r]) = n - 1
    BY <1>1, <2>1, FS_RemoveElement
  <2> QED
    BY <1>1, <2>1, <2>2 DEF StepsLeft
<1>8. CASE DownloadOk(r)
  BY <1>0, <1>1, <1>8 DEF DownloadOk, session, StepsLeft
<1>9. ASSUME pc[r] \in {"download", "save"}, NextVideo(r), todo' = todo
      PROVE  StepsLeft(r)' < StepsLeft(r)
  <2>1. pc'[r] = "loop"
    BY <1>0, <1>9 DEF NextVideo
  <2> QED
    BY <1>1, <1>9, <2>1 DEF StepsLeft
<1>10. CASE DownloadTooBig(r) \/ AttemptFails(r) \/ VideoUnavailable(r) \/ Save(r)
  BY <1>9, <1>10 DEF DownloadTooBig, AttemptFails, VideoUnavailable, Save
<1>11. CASE \/ FinishImport(r) \/ NothingToDownload(r) \/ FinishSync(r) \/ JobRaises(r)
            \/ \E v \in Videos : QuotaReached(r, v)
  BY <1>2, <1>11 DEF FinishImport, NothingToDownload, FinishSync, JobRaises, QuotaReached
<1> QED
  BY <1>3, <1>4, <1>5, <1>6, <1>7, <1>8, <1>10, <1>11 DEF JobStep

\* A step of one job leaves the others where they are.
LEMMA OthersStayPut ==
    ASSUME TypeInv, NEW r \in Runners, JobStep(r), NEW q \in Runners, q # r
    PROVE  UNCHANGED <<pc[q], todo[q]>>
<1>0. pc \in [Runners -> Steps] /\ todo \in [Runners -> SUBSET Videos]
  BY DEF TypeInv, TypeOK
<1>1. pc'[q] = pc[q]
  BY <1>0, JobStepEffect
<1>2. todo'[q] = todo[q]
  BY <1>0 DEF JobStep, JobLoad, BeginMerge, CommitMetadata, FinishImport, ListTargets,
     NothingToDownload, QuotaReached, StartVideo, DownloadOk, DownloadTooBig,
     AttemptFails, VideoUnavailable, Save, FinishSync, JobRaises, EndJob, session
<1> QED
  BY <1>1, <1>2

\* Every step leaves a running job where it is or brings it nearer to its end.
LEMMA RunOutStep ==
    ASSUME TypeInv, ActiveTasksAreWorkedOn, [Next]_vars, NEW r \in Runners, pc[r] # "idle"
    PROVE  UNCHANGED <<pc[r], todo[r]>> \/ StepsLeft(r)' < StepsLeft(r)
<1>0. /\ pc \in [Runners -> Steps] /\ todo \in [Runners -> SUBSET Videos]
      /\ Tasks \subseteq Runners /\ AutoSlots \subseteq Runners
  BY DEF TypeInv, TypeOK, Runners
<1>1. ASSUME NEW q \in Runners, JobStep(q)
      PROVE  UNCHANGED <<pc[r], todo[r]>> \/ StepsLeft(r)' < StepsLeft(r)
  BY <1>1, JobStepRunsOut, OthersStayPut
<1>2. ASSUME NEW q \in Runners, pc[q] = "idle", pc' = [pc EXCEPT ![q] = "load"],
             UNCHANGED todo
      PROVE  UNCHANGED <<pc[r], todo[r]>>
  BY <1>0, <1>2
<1>3. ASSUME NEW t \in Tasks, NEW p \in Playlists, NEW f \in JobFormats,
             Enqueue(t, p, f), UNCHANGED todo
      PROVE  UNCHANGED <<pc[r], todo[r]>>
  <2>1. pc[t] = "idle"
    BY <1>3 DEF Enqueue, ActiveTasksAreWorkedOn, IsActive, ActiveStates
  <2> QED
    BY <1>0, <1>2, <1>3, <2>1 DEF Enqueue
<1>4. ASSUME NEW q \in AutoSlots, NEW p \in Playlists, AutoStart(q, p)
      PROVE  UNCHANGED <<pc[r], todo[r]>>
  BY <1>0, <1>2, <1>4 DEF AutoStart, session
<1>5. CASE Restart
  <2>1. pc'[r] = "idle" /\ todo'[r] = {}
    BY <1>5 DEF Restart
  <2>2. Cardinality(todo[r]) \in Nat /\ Cardinality(Videos) \in Nat
    BY <1>0, TargetsAreFew
  <2> QED
    BY <1>0, <2>1, <2>2 DEF StepsLeft, Steps
<1> QED
  BY <1>0, <1>1, <1>3, <1>4, <1>5
     DEF Next, Request, AddPlaylist, RequestSync, DeleteLoad, DeleteCommit, UpdateQuota,
         AutoTick, AutoStep, AutoRelease, JobFormats, session, vars

\* No job goes back or tries for ever: what TasksEnd and AutoSyncEnds need besides
\* fairness.
THEOREM EveryStepIsProgress == Spec => JobsRunOut
<1>1. RegistryInv /\ [Next]_vars => [NoJobGoesBack]_vars
  BY RunOutStep DEF RegistryInv, NoJobGoesBack
<1> QED
  BY <1>1, RegistryInvariant, PTL DEF Spec, JobsRunOut

===============================================================================
