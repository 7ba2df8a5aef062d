------------------------------ MODULE VideoFiles ------------------------------
(***************************************************************************)
(* The media files of one video and the jobs that share them (downloader,  *)
(* storage and the file steps of tasks.sync_playlist).  Every file name    *)
(* starts with the id of its video and a clean-up globs that id, so the    *)
(* files of two videos never meet; the jobs of all playlists, users and    *)
(* formats work in one downloads directory.                                *)
(*                                                                         *)
(* A file is named by what follows the id: "mp3" and "mp4" are the media   *)
(* asked for, "x.mp4" is any <id>.<tag>.mp4 (a video stream waiting to be  *)
(* merged, the output of a merge), "webm" and "m4a" are other streams,     *)
(* with or without a picture.  What is being fetched is "part", a name that *)
(* ends in .part; a stream that comes in fragments has "ytdl", any <id>...  *)
(* .ytdl, and "frag", any <id>...part-Frag<n>, too.  What a file contains   *)
(* is left out.  yt-dlp and FFmpeg are external; storage is local, where   *)
(* uploading only names the file.                                          *)
(***************************************************************************)
EXTENDS Naturals

CONSTANTS
    Workers,     \* threads or Celery processes that run sync_playlist
    Rows,        \* rows of playlist_videos for this video, one per playlist
    NoRow,       \* the row of no job
    NoFile,      \* no path
    MaxCrashes   \* bound: workers killed in a behaviour

Formats   == {"mp3", "mp4"}
Media     == Formats \cup {"x.mp4", "webm", "m4a"}
Fragments == {"ytdl", "frag"}
Results   == Media \cup Fragments
Names     == Results \cup {"part"}

ASSUME Assumptions ==
    /\ MaxCrashes \in Nat
    /\ NoRow \notin Rows
    /\ NoFile \notin Names

VARIABLES
    files,     \* the files of the video
    path,      \* local_file_path of each row
    format,    \* its format_saved
    pc,        \* the step of each worker
    job,       \* its row, format, result, path and streams
    listed,    \* the files that are in its first listing under the same name
    crashes,   \* workers killed so far
    litter     \* history: killed since the last clean-up

vars    == <<files, path, format, pc, job, listed, crashes, litter>>
saved   == <<path, format>>
history == <<crashes, litter>>

Steps == {"idle", "look", "fetch", "fetching", "convert", "converting",
          "judge", "drop", "sweep", "upload", "record"}

NoJob == [row |-> NoRow, format |-> "mp3", ok |-> TRUE,
          path |-> NoFile, streams |-> {}]

Init ==
    /\ files = {}
    /\ path = [r \in Rows |-> NoFile]
    /\ format = [r \in Rows |-> "mp3"]
    /\ pc = [w \in Workers |-> "idle"]
    /\ job = [w \in Workers |-> NoJob]
    /\ listed = [w \in Workers |-> {}]
    /\ crashes = 0
    /\ litter = FALSE

---------------------------------------------------------------------------
Suffix(n) == IF n = "x.mp4" THEN "mp4" ELSE n

\* _find_downloaded_file: the preferred name, else any with that suffix.
FindDownloadedFile(f) ==
    IF f \in files THEN {f} ELSE {n \in files : Suffix(n) = f}

\* Mutant: everything but the result of an mp3 download is deleted.
Temporary_All(keep) == (IF keep = "mp3" THEN Names ELSE {"part", "ytdl"}) \ {keep}

\* What _cleanup_temporary_downloads deletes around the path it keeps: a suffix
\* .part-Frag<n> is not among those it looks for.
Temporary(keep) ==
    ({"part", "ytdl"} \cup IF keep = "mp3" THEN {"webm", "m4a"} ELSE {}) \ {keep}

Goto(w, l) == pc' = [pc EXCEPT ![w] = l]

\* The job leaves this video.
Leave(w) ==
    /\ Goto(w, "idle")
    /\ job' = [job EXCEPT ![w] = NoJob]
    /\ listed' = [listed EXCEPT ![w] = {}]

---------------------------------------------------------------------------
(* A worker of sync_playlist at this video.                                *)

\* The row is a target and the job reaches it; the row may be saved meanwhile.
Begin(w, r, f) ==
    /\ pc[w] = "idle"
    /\ path[r] = NoFile \/ format[r] # f
    /\ Goto(w, "look")
    /\ job' = [job EXCEPT ![w] = [NoJob EXCEPT !.row = r, !.format = f]]
    /\ UNCHANGED <<saved, files, listed, history>>

Fetching(w) == pc[w] = "fetching"
OtherFetches(w) == \E v \in Workers \ {w} : Fetching(v)

\* The file of an earlier download is reused; otherwise the directory is
\* listed and yt-dlp is called.  The fragments of a fetch that goes on are listed,
\* but not those of it that have yet to come.
Look(w) ==
    /\ pc[w] = "look"
    /\ LET found == FindDownloadedFile(job[w].format) IN
       \/ \E n \in found :
             /\ Goto(w, "sweep")
             /\ job' = [job EXCEPT ![w].path = n]
             /\ UNCHANGED listed
       \/ /\ found = {}
          /\ Goto(w, "fetch")
          /\ \E later \in {{}, Fragments} :
                /\ later # {} => OtherFetches(w)
                /\ listed' = [listed EXCEPT ![w] = files \ ({"part"} \cup later)]
          /\ UNCHANGED job
    /\ UNCHANGED <<saved, files, history>>

---------------------------------------------------------------------------
(* yt-dlp and FFmpeg.                                                      *)

\* What FFmpeg makes the wanted file of: for an mp3 an audio stream or, of a
\* video that has none, the whole of it.
Sources(f) == IF f = "mp3" THEN {{"m4a"}, {"webm"}, {"mp4"}} ELSE {{"x.mp4", "m4a"}}

\* Fragments and what keeps count of them have names no other job has listed.
FetchStart(w) ==
    /\ pc[w] = "fetch"
    /\ \E new \in {{}, Fragments} :
          /\ files' = files \cup {"part"} \cup new
          /\ listed' = [v \in Workers |-> IF v = w THEN listed[v] ELSE listed[v] \ new]
    /\ Goto(w, "fetching")
    /\ UNCHANGED <<saved, job, history>>

\* The partial files of w, not those of another fetch, get their names; fragments
\* of other formats that were there before may stay.
Fetched(w, names) ==
    \E stay \in {{}, {"frag"}} :
       /\ stay # {} => "frag" \in listed[w]
       /\ files' = names \cup (IF OtherFetches(w) THEN files
                               ELSE files \ ((Fragments \cup {"part"}) \ stay))

FetchStreams(w) ==
    /\ pc[w] = "fetching"
    /\ \E s \in Sources(job[w].format) :
          Fetched(w, s) /\ job' = [job EXCEPT ![w].streams = s]
    /\ Goto(w, "convert")
    /\ UNCHANGED <<saved, listed, history>>

\* Without separate streams an mp4 download takes what there is ("best").
FetchWhole(w) ==
    /\ pc[w] = "fetching"
    /\ job[w].format = "mp4"
    /\ \E n \in {"webm", "mp4"} : Fetched(w, {n})
    /\ Goto(w, "judge")
    /\ UNCHANGED <<saved, job, listed, history>>

\* FFmpeg opens the streams and its output: <id>.mp3 itself, or
\* <id>.temp.mp4, which is renamed in the end.
ConvertStart(w) ==
    /\ pc[w] = "convert"
    /\ job[w].streams \subseteq files
    /\ files' = files \cup {IF job[w].format = "mp3" THEN "mp3" ELSE "x.mp4"}
    /\ Goto(w, "converting")
    /\ UNCHANGED <<saved, job, listed, history>>

\* yt-dlp returns.
Return(w, ok) ==
    /\ Goto(w, "judge")
    /\ job' = [job EXCEPT ![w].ok = ok, ![w].streams = {}]

\* The output is complete and the streams are deleted.
ConvertEnds(w) ==
    /\ pc[w] = "converting"
    /\ files' = (files \ job[w].streams) \cup {job[w].format}
    /\ Return(w, TRUE)
    /\ UNCHANGED <<saved, listed, history>>

\* An error leaves what has been written; with ignoreerrors it is a result, after
\* which the first listing is not looked at.
YtDlpFails(w) ==
    /\ pc[w] \in {"fetch", "fetching", "convert", "converting"}
    /\ Return(w, FALSE)
    /\ listed' = [listed EXCEPT ![w] = {}]
    /\ UNCHANGED <<saved, files, history>>

---------------------------------------------------------------------------
(* The result of yt-dlp.                                                   *)

\* Mutant: the new files are looked at first.
Downloads_NewFirst(w) ==
    LET new == files \ (listed[w] \cup {"part"})
    IN  IF job[w].ok /\ new # {} THEN new ELSE FindDownloadedFile(job[w].format)

\* Mutant: a partial file counts as new.
Downloads_Partial(w) ==
    LET found == FindDownloadedFile(job[w].format)
    IN  IF found # {} THEN found
        ELSE IF job[w].ok THEN files \ listed[w] ELSE {}

\* A file of the wanted kind, whoever made it, is the download and an error
\* counts only without one; else it is the newest file that is not in the
\* first listing and whose name does not end in .part.
Downloads(w) ==
    LET found == FindDownloadedFile(job[w].format)
    IN  IF found # {} THEN found
        ELSE IF job[w].ok THEN files \ (listed[w] \cup {"part"}) ELSE {}

Judge(w) ==
    /\ pc[w] = "judge"
    /\ \/ \E n \in Downloads(w) :
             /\ Goto(w, "sweep")
             /\ job' = [job EXCEPT ![w] = [NoJob EXCEPT !.row = job[w].row,
                              !.format = job[w].format, !.path = n]]
             /\ listed' = [listed EXCEPT ![w] = {}]
       \/ Downloads(w) = {} /\ Goto(w, "drop") /\ UNCHANGED <<job, listed>>
    /\ UNCHANGED <<saved, files, history>>

\* Mutant: the exception handler does not clean up.
Drop_Dirty(w) ==
    /\ pc[w] = "drop"
    /\ Leave(w)
    /\ UNCHANGED <<saved, files, history>>

\* The exception handler cleans up and the row gets an error.
Drop(w) ==
    /\ pc[w] = "drop"
    /\ files' = files \ Temporary(NoFile)
    /\ litter' = FALSE
    /\ Leave(w)
    /\ UNCHANGED <<saved, crashes>>

\* The clean-up around the download.
Sweep(w) ==
    /\ pc[w] = "sweep"
    /\ files' = files \ Temporary(job[w].path)
    /\ litter' = FALSE
    /\ Goto(w, "upload")
    /\ UNCHANGED <<saved, job, listed, crashes>>

\* stat() and upload_file: local storage only names the file.
Upload(w) ==
    /\ pc[w] = "upload"
    /\ job[w].path \in files
    /\ Goto(w, "record")
    /\ UNCHANGED <<saved, files, job, listed, history>>

\* The file is gone, over the quota or not uploaded: the row gets an error.
UploadFails(w) ==
    /\ pc[w] = "upload"
    /\ Leave(w)
    /\ UNCHANGED <<saved, files, history>>

\* mark_video_downloaded.
Record(w) ==
    /\ pc[w] = "record"
    /\ path' = [path EXCEPT ![job[w].row] = job[w].path]
    /\ format' = [format EXCEPT ![job[w].row] = job[w].format]
    /\ Leave(w)
    /\ UNCHANGED <<files, history>>

\* The process dies; its files stay.
Crash(w) ==
    /\ crashes < MaxCrashes
    /\ pc[w] # "idle"
    /\ crashes' = crashes + 1
    /\ litter' = TRUE
    /\ Leave(w)
    /\ UNCHANGED <<saved, files>>

---------------------------------------------------------------------------
YtDlp(w) ==
    FetchStart(w) \/ FetchStreams(w) \/ FetchWhole(w) \/ ConvertStart(w)
    \/ ConvertEnds(w) \/ YtDlpFails(w)

Step(w) ==
    \/ \E r \in Rows, f \in Formats : Begin(w, r, f)
    \/ Look(w) \/ YtDlp(w) \/ Judge(w) \/ Drop(w) \/ Sweep(w)
    \/ Upload(w) \/ UploadFails(w) \/ Record(w) \/ Crash(w)

Next == \E w \in Workers : Step(w)

Spec == Init /\ [][Next]_vars

---------------------------------------------------------------------------
(* Properties *)

\* Every variable has its type; no row names a .part file (_download_video_sync), but
\* it may name a .ytdl or .part-Frag<n> file of a job that fetched meanwhile.
TypeOK ==
    /\ files \subseteq Names
    /\ path \in [Rows -> Results \cup {NoFile}]
    /\ format \in [Rows -> Formats]
    /\ pc \in [Workers -> Steps]
    /\ job \in [Workers -> [row : Rows \cup {NoRow}, format : Formats, ok : BOOLEAN,
                            path : Results \cup {NoFile}, streams : SUBSET Media]]
    /\ listed \in [Workers -> SUBSET Results]
    /\ crashes \in 0 .. MaxCrashes
    /\ litter \in BOOLEAN

Recorded == {r \in Rows : path[r] # NoFile}

\* A recorded <id>.mp3 is never deleted, and a recorded <id>.mp4 by no clean-up,
\* whatever the format, result and overlap of its job: only yt-dlp takes it, when
\* the sound of the video is to be had only from it (_cleanup_temporary_downloads).
RecordedMediaStays ==
    [][\A r \in Recorded :
          path[r] \in (files \ files') \cap Formats =>
              /\ path[r] = "mp4"
              /\ \E w \in Workers : pc[w] = "converting" /\ job[w].streams = {"mp4"}]_vars

\* A file whose name ends in .part is there only while a job fetches or has yet to clean up after
\* its result, unless a process died since the last clean-up
\* (_download_video_sync, whose exits all clean up).
NothingTemporaryLeft ==
    "part" \in files =>
        litter \/ \E w \in Workers : pc[w] \in {"fetching", "judge", "drop", "sweep"}

\* A row saved as mp3 names <id>.mp3 and the file is there, whatever streams and
\* videos the other jobs of the video leave in the directory or sweep out of it
\* (_find_downloaded_file and the new files of _download_video_sync).
SavedAsAsked ==
    \A r \in Recorded : format[r] = "mp3" => path[r] = "mp3" /\ "mp3" \in files

\* GET /stream/{video_id} finds the file of every recorded row
\* (get_download_path_for_video, LocalStorage.get_file_url).
StreamServesRecorded == \A r \in Recorded : path[r] \in files
===============================================================================
