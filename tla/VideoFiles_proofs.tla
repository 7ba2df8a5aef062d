--------------------------- MODULE VideoFiles_proofs ---------------------------
(***************************************************************************)
(* Theorems about VideoFiles for any number of workers, rows and crashes.  *)
(***************************************************************************)
EXTENDS VideoFiles, TLAPS

\* What a worker has in hand: streams that fit its format, an mp3 that was made if
\* yt-dlp succeeded, and <id>.mp3 as the choice of an mp3 job.
Prepared(w) ==
  /\ pc[w] \in {"convert", "converting"} => job[w].streams \in Sources(job[w].format)
  /\ pc[w] = "judge" /\ job[w].ok /\ job[w].format = "mp3" => "mp3" \in files
  /\ pc[w] \in {"sweep", "upload", "record"} /\ job[w].format = "mp3" =>
       job[w].path = "mp3" /\ "mp3" \in files

\* The inductive invariant.
IInv == /\ TypeOK /\ (\A w \in Workers : Prepared(w))
        /\ SavedAsAsked /\ NothingTemporaryLeft

---------------------------------------------------------------------------
(* The operators *)

\* A clean-up never deletes <id>.mp3 or <id>.mp4, and always the .part files.
LEMMA CleanUpFacts ==
  ASSUME NEW keep \in Results \cup {NoFile}
  PROVE  Temporary(keep) \cap Formats = {} /\ "part" \in Temporary(keep)
BY Assumptions DEF Temporary, Formats, Media, Fragments, Results, Names

\* No stream is an mp3, and an <id>.mp4 is the only one of its conversion.
LEMMA StreamFacts ==
  ASSUME NEW f \in Formats, NEW s \in Sources(f)
  PROVE  s \in SUBSET Media /\ "mp3" \notin s /\ ("mp4" \in s => s = {"mp4"})
BY DEF Sources, Formats, Media

\* What the search for a file returns is in the directory and no part of a file;
\* for an mp3 it is <id>.mp3.
LEMMA FoundFacts ==
  ASSUME files \subseteq Names, NEW f \in Formats, NEW n \in FindDownloadedFile(f)
  PROVE  n \in files /\ n \in Media /\ (f = "mp3" => n = "mp3")
<1>1. n \in files
  BY DEF FindDownloadedFile
<1>2. n = f \/ Suffix(n) = f
  BY DEF FindDownloadedFile
<1>3. n \in Names /\ n # "part"
  BY <1>1, <1>2 DEF Suffix, Formats, Media, Fragments, Results, Names
<1>4. n \in Media /\ (f = "mp3" => n = "mp3")
  BY <1>2, <1>3 DEF Suffix, Formats, Media, Fragments, Results, Names
<1> QED BY <1>1, <1>4

\* What a job takes for its download is in the directory and no .part file; an mp3 job
\* that succeeded, or found the file, takes <id>.mp3.
LEMMA DownloadFacts ==
  ASSUME TypeOK, NEW w \in Workers, NEW n \in Downloads(w)
  PROVE  /\ n \in files /\ n \in Results
         /\ job[w].format = "mp3" /\ (job[w].ok => "mp3" \in files) => n = "mp3"
<1> DEFINE found == FindDownloadedFile(job[w].format)
<1>1. files \subseteq Names /\ job[w].format \in Formats
  BY DEF TypeOK
<1>2. CASE found # {}
  <2>1. n \in found
    BY <1>2 DEF Downloads
  <2> QED BY <1>1, <2>1, FoundFacts DEF Results
<1>3. CASE found = {}
  <2>1. job[w].ok /\ n \in files \ (listed[w] \cup {"part"})
    BY <1>3 DEF Downloads
  <2>2. "mp3" \in files => job[w].format # "mp3"
    BY <1>3 DEF FindDownloadedFile
  <2> QED BY <1>1, <2>1, <2>2 DEF Names, Results, Media
<1> QED BY <1>2, <1>3

---------------------------------------------------------------------------
(* Types *)

\* A step of one worker is one of its actions.
LEMMA StepCases ==
  ASSUME NEW w \in Workers, Step(w)
  PROVE  \/ \E r \in Rows, f \in Formats : Begin(w, r, f)
         \/ Look(w) \/ FetchStart(w) \/ FetchStreams(w) \/ FetchWhole(w)
         \/ ConvertStart(w) \/ ConvertEnds(w) \/ YtDlpFails(w) \/ Judge(w)
         \/ Drop(w) \/ Sweep(w) \/ Upload(w) \/ UploadFails(w) \/ Record(w)
         \/ Crash(w)
BY DEF Step, YtDlp

\* What a job may hold.
Jobs == [row : Rows \cup {NoRow}, format : Formats, ok : BOOLEAN,
         path : Results \cup {NoFile}, streams : SUBSET Media]

\* The job of no video has the type of a job.
LEMMA NoJobTyped == NoJob \in Jobs
BY DEF NoJob, Jobs, Formats

\* A step keeps the types.
LEMMA TypeStep ==
  ASSUME TypeOK, [Next]_vars
  PROVE  TypeOK'
<1> USE DEF TypeOK
<1>0. job \in [Workers -> Jobs]
  BY DEF Jobs
<1>1. CASE UNCHANGED vars
  BY <1>1 DEF vars
<1>2. ASSUME NEW w \in Workers, Step(w) PROVE TypeOK'
  <2>1. ASSUME NEW r \in Rows, NEW f \in Formats, Begin(w, r, f) PROVE TypeOK'
    <3>1. [NoJob EXCEPT !.row = r, !.format = f] \in Jobs
      BY DEF NoJob, Jobs
    <3>2. job' \in [Workers -> Jobs]
      BY <1>0, <2>1, <3>1 DEF Begin
    <3> QED BY <2>1, <3>2 DEF Begin, Goto, Steps, saved, history, Jobs
  <2>2. CASE Look(w)
    <3>1. job[w].format \in Formats /\ files \subseteq Names /\ job[w] \in Jobs
      BY <1>0
    <3>2. ASSUME NEW n \in Media PROVE [job[w] EXCEPT !.path = n] \in Jobs
      BY <3>1 DEF Jobs, Results
    <3>3. listed' \in [Workers -> SUBSET Results]
      BY <2>2, <3>1 DEF Look, Names
    <3>4. ASSUME NEW n \in FindDownloadedFile(job[w].format),
                 job' = [job EXCEPT ![w].path = n]
          PROVE  job' \in [Workers -> Jobs]
      <4>1. n \in Media
        BY <3>1, FoundFacts
      <4> QED BY <1>0, <3>2, <3>4, <4>1
    <3>5. job' \in [Workers -> Jobs]
      BY <1>0, <2>2, <3>4 DEF Look
    <3> QED BY <2>2, <3>3, <3>5 DEF Look, Goto, Steps, saved, history, Jobs
  <2>3. CASE FetchStart(w)
    <3>1. files' \subseteq Names
      BY <2>3 DEF FetchStart, Names, Results
    <3>2. listed' \in [Workers -> SUBSET Results]
      BY <2>3 DEF FetchStart
    <3> QED BY <2>3, <3>1, <3>2 DEF FetchStart, Goto, Steps, saved, history
  <2>4. CASE FetchStreams(w)
    <3>1. job[w].format \in Formats /\ job[w] \in Jobs
      BY <1>0
    <3>2. PICK s \in Sources(job[w].format) :
             Fetched(w, s) /\ job' = [job EXCEPT ![w].streams = s]
      BY <2>4 DEF FetchStreams
    <3>3. s \in SUBSET Media
      BY <3>1, StreamFacts
    <3>4. [job[w] EXCEPT !.streams = s] \in Jobs
      BY <3>1, <3>3 DEF Jobs
    <3>5. job' \in [Workers -> Jobs]
      BY <1>0, <3>2, <3>4
    <3>6. files' \subseteq Names
      BY <3>2, <3>3 DEF Fetched, Names, Results
    <3> QED BY <2>4, <3>5, <3>6 DEF FetchStreams, Goto, Steps, saved, history, Jobs
  <2>5. CASE FetchWhole(w)
    <3>1. files' \subseteq Names
      BY <2>5 DEF FetchWhole, Fetched, Names, Results, Media, Formats
    <3> QED BY <2>5, <3>1 DEF FetchWhole, Goto, Steps, saved, history
  <2>6. CASE ConvertStart(w)
    BY <2>6 DEF ConvertStart, Goto, Steps, saved, history, Names, Results, Media, Formats
  <2>7. ASSUME NEW ok \in BOOLEAN, Return(w, ok)
        PROVE  job' \in [Workers -> Jobs] /\ pc' \in [Workers -> Steps]
    <3>1. [job[w] EXCEPT !.ok = ok, !.streams = {}] \in Jobs
      BY <1>0 DEF Jobs
    <3> QED BY <1>0, <2>7, <3>1 DEF Return, Goto, Steps
  <2>8. CASE ConvertEnds(w)
    <3>1. files' \subseteq Names
      BY <2>8 DEF ConvertEnds, Names, Results, Media
    <3> QED BY <2>7, <2>8, <3>1 DEF ConvertEnds, saved, history, Jobs
  <2>9. CASE YtDlpFails(w)
    BY <2>7, <2>9 DEF YtDlpFails, saved, history, Jobs
  <2>10. CASE Judge(w)
    <3>1. ASSUME NEW n \in Results
          PROVE  [NoJob EXCEPT !.row = job[w].row, !.format = job[w].format,
                               !.path = n] \in Jobs
      BY DEF NoJob, Jobs
    <3>2. ASSUME NEW n \in Downloads(w),
                 job' = [job EXCEPT ![w] = [NoJob EXCEPT !.row = job[w].row,
                              !.format = job[w].format, !.path = n]]
          PROVE  job' \in [Workers -> Jobs]
      <4>1. n \in Results
        BY DownloadFacts
      <4> QED BY <1>0, <3>1, <3>2, <4>1
    <3>3. job' \in [Workers -> Jobs]
      BY <1>0, <2>10, <3>2 DEF Judge
    <3> QED BY <2>10, <3>3 DEF Judge, Goto, Steps, saved, history, Jobs
  <2>11. ASSUME Leave(w) 
         PROVE  /\ job' \in [Workers -> Jobs] /\ pc' \in [Workers -> Steps]
                /\ listed' \in [Workers -> SUBSET Results]
    BY <1>0, <2>11, NoJobTyped DEF Leave, Goto, Steps
  <2>12. CASE Drop(w)
    BY <2>11, <2>12 DEF Drop, saved, Jobs
  <2>13. CASE Sweep(w)
    BY <2>13 DEF Sweep, Goto, Steps, saved
  <2>14. CASE Upload(w)
    BY <2>14 DEF Upload, Goto, Steps, saved, history
  <2>15. CASE UploadFails(w)
    BY <2>11, <2>15 DEF UploadFails, saved, history, Jobs
  <2>16. CASE Record(w)
    BY <2>11, <2>16 DEF Record, history, Jobs
  <2>17. CASE Crash(w)
    <3>1. crashes' \in 0 .. MaxCrashes
      BY <2>17, Assumptions DEF Crash
    <3> QED BY <2>11, <2>17, <3>1 DEF Crash, saved, Jobs
  <2> QED BY <1>2, <2>1, <2>2, <2>3, <2>4, <2>5, <2>6, <2>8, <2>9, <2>10, <2>12,
             <2>13, <2>14, <2>15, <2>16, <2>17, StepCases
<1> QED BY <1>1, <1>2 DEF Next

---------------------------------------------------------------------------
(* The steps *)

\* The types are invariant: of all a directory may hold, no row ever names a .part file.
THEOREM TypeCorrect == Spec => []TypeOK
<1>1. Init => TypeOK
  <2> SUFFICES ASSUME Init PROVE TypeOK
    OBVIOUS
  <2>1. job \in [Workers -> Jobs]
    BY NoJobTyped DEF Init
  <2>2. /\ files \subseteq Names /\ path \in [Rows -> Results \cup {NoFile}]
        /\ format \in [Rows -> Formats] /\ pc \in [Workers -> Steps]
    BY DEF Init, Formats, Steps
  <2>3. crashes \in 0 .. MaxCrashes
    BY Assumptions DEF Init
  <2>4. litter \in BOOLEAN /\ listed \in [Workers -> SUBSET Results]
    BY DEF Init
  <2> QED BY <2>1, <2>2, <2>3, <2>4 DEF TypeOK, Jobs
<1>2. TypeOK /\ [Next]_vars => TypeOK'
  BY TypeStep
<1> QED BY <1>1, <1>2, PTL DEF Spec

\* The only <id>.mp3 or <id>.mp4 a step deletes is an <id>.mp4 that is turned
\* into an mp3.
LEMMA MediaKept ==
  ASSUME TypeOK, NEW w \in Workers, Prepared(w), Step(w),
         NEW n \in (files \ files') \cap Formats
  PROVE  n = "mp4" /\ pc[w] = "converting" /\ job[w].streams = {"mp4"}
<1>1. job[w].path \in Results \cup {NoFile} /\ job[w].format \in Formats
  BY DEF TypeOK
<1>2. n # "part" /\ (n = "mp3" \/ n = "mp4") /\ n \in files /\ n \notin files'
  BY DEF Formats
<1>3. ASSUME NEW names, Fetched(w, names) PROVE FALSE
  BY <1>2, <1>3 DEF Fetched, Fragments
<1>4. ~ FetchStreams(w) /\ ~ FetchWhole(w)
  BY <1>3 DEF FetchStreams, FetchWhole
<1>5. ~ Drop(w) /\ ~ Sweep(w)
  BY <1>1, <1>2, CleanUpFacts DEF Drop, Sweep
<1>6. CASE ConvertEnds(w)
  <2>1. pc[w] = "converting" /\ files' = (files \ job[w].streams) \cup {job[w].format}
    BY <1>6 DEF ConvertEnds
  <2>2. job[w].streams \in Sources(job[w].format)
    BY <2>1 DEF Prepared
  <2>3. n \in job[w].streams
    BY <1>2, <2>1
  <2> QED BY <1>1, <1>2, <2>1, <2>2, <2>3, StreamFacts
<1>7. CASE FetchStart(w) \/ ConvertStart(w)
  BY <1>2, <1>7 DEF FetchStart, ConvertStart
<1>8. CASE UNCHANGED files
  BY <1>2, <1>8
<1> QED BY <1>4, <1>5, <1>6, <1>7, <1>8, StepCases
        DEF Begin, Look, YtDlpFails, Judge, Upload, UploadFails, Record, Crash

\* A step of one worker leaves the others where they are.
LEMMA OthersStay ==
  ASSUME TypeOK, NEW w \in Workers, Step(w), NEW v \in Workers, v # w
  PROVE  pc'[v] = pc[v] /\ job'[v] = job[v]
<1>1. (\E l \in Steps : Goto(w, l)) => pc'[v] = pc[v]
  BY DEF Goto, TypeOK
<1>2. (\E j : job' = [job EXCEPT ![w] = j]) => job'[v] = job[v]
  BY DEF TypeOK
<1>3. Leave(w) => pc'[v] = pc[v] /\ job'[v] = job[v]
  BY <1>1, <1>2 DEF Leave, Steps
<1>4. (\E ok : Return(w, ok)) => pc'[v] = pc[v] /\ job'[v] = job[v]
  BY <1>1, <1>2 DEF Return, Steps
<1>5. CASE \E r \in Rows, f \in Formats : Begin(w, r, f)
  BY <1>1, <1>2, <1>5 DEF Begin, Steps
<1>6. CASE Look(w) \/ Judge(w)
  BY <1>1, <1>2, <1>6 DEF Look, Judge, Steps
<1>7. CASE FetchStart(w) \/ FetchWhole(w) \/ ConvertStart(w) \/ Sweep(w) \/ Upload(w)
  BY <1>1, <1>7 DEF FetchStart, FetchWhole, ConvertStart, Sweep, Upload, Steps
<1>8. CASE FetchStreams(w)
  BY <1>1, <1>2, <1>8 DEF FetchStreams, Steps
<1>9. CASE ConvertEnds(w) \/ YtDlpFails(w)
  BY <1>4, <1>9 DEF ConvertEnds, YtDlpFails
<1> QED BY <1>3, <1>5, <1>6, <1>7, <1>8, <1>9, StepCases
        DEF Drop, UploadFails, Record, Crash

\* A step prepares the next one.
LEMMA PreparedStep ==
  ASSUME TypeOK, NEW w \in Workers, Prepared(w), Step(w),
         "mp3" \in files => "mp3" \in files'
  PROVE  Prepared(w)'
<1>1. /\ pc \in [Workers -> Steps] /\ job \in [Workers -> Jobs]
      /\ job[w].format \in Formats /\ files \subseteq Names
  BY DEF TypeOK, Jobs
<1>2. ASSUME Leave(w) PROVE Prepared(w)'
  BY <1>1, <1>2 DEF Leave, Goto, Prepared
<1>3. ASSUME NEW r \in Rows, NEW f \in Formats, Begin(w, r, f) PROVE Prepared(w)'
  BY <1>1, <1>3 DEF Begin, Goto, Prepared
<1>4. CASE Look(w)
  <2>1. ASSUME NEW n \in FindDownloadedFile(job[w].format), Goto(w, "sweep"),
               job' = [job EXCEPT ![w].path = n]
        PROVE  Prepared(w)'
    <3>1. job[w].format = "mp3" => n = "mp3" /\ "mp3" \in files
      BY <1>1, FoundFacts
    <3>2. pc'[w] = "sweep" /\ job'[w].format = job[w].format /\ job'[w].path = n
      BY <1>1, <2>1 DEF Goto, Jobs
    <3> QED BY <3>1, <3>2 DEF Prepared
  <2>2. ASSUME Goto(w, "fetch") PROVE Prepared(w)'
    BY <1>1, <2>2 DEF Goto, Prepared
  <2> QED BY <1>4, <2>1, <2>2 DEF Look
<1>5. CASE FetchStart(w)
  BY <1>1, <1>5 DEF FetchStart, Goto, Prepared
<1>6. CASE FetchStreams(w)
  <2>1. PICK s \in Sources(job[w].format) : job' = [job EXCEPT ![w].streams = s]
    BY <1>6 DEF FetchStreams
  <2>2. pc'[w] = "convert" /\ job'[w].format = job[w].format /\ job'[w].streams = s
    BY <1>1, <1>6, <2>1 DEF FetchStreams, Goto, Jobs
  <2> QED BY <2>1, <2>2 DEF Prepared
<1>7. CASE FetchWhole(w)
  <2>1. pc'[w] = "judge" /\ job'[w].format = "mp4"
    BY <1>1, <1>7 DEF FetchWhole, Goto
  <2> QED BY <2>1 DEF Prepared
<1>8. CASE ConvertStart(w)
  BY <1>1, <1>8 DEF ConvertStart, Goto, Prepared
<1>9. CASE ConvertEnds(w)
  <2>1. pc'[w] = "judge" /\ job'[w].format = job[w].format /\ job[w].format \in files'
    BY <1>1, <1>9 DEF ConvertEnds, Return, Goto, Jobs
  <2> QED BY <2>1 DEF Prepared
<1>10. CASE YtDlpFails(w)
  <2>1. pc'[w] = "judge" /\ job'[w].ok = FALSE
    BY <1>1, <1>10 DEF YtDlpFails, Return, Goto, Jobs
  <2> QED BY <2>1 DEF Prepared
<1>11. CASE Judge(w)
  <2>1. ASSUME NEW n \in Downloads(w), Goto(w, "sweep"),
               job' = [job EXCEPT ![w] = [NoJob EXCEPT !.row = job[w].row,
                            !.format = job[w].format, !.path = n]]
        PROVE  Prepared(w)'
    <3>1. pc'[w] = "sweep" /\ job'[w].format = job[w].format /\ job'[w].path = n
      BY <1>1, <2>1 DEF Goto, NoJob
    <3>2. job[w].format = "mp3" /\ job[w].ok => "mp3" \in files
      BY <1>11 DEF Judge, Prepared
    <3>3. job[w].format = "mp3" => n = "mp3" /\ "mp3" \in files
      BY <3>2, DownloadFacts
    <3> QED BY <3>1, <3>3 DEF Prepared
  <2>2. ASSUME Goto(w, "drop") PROVE Prepared(w)'
    BY <1>1, <2>2 DEF Goto, Prepared
  <2> QED BY <1>11, <2>1, <2>2 DEF Judge
<1>12. CASE Sweep(w)
  BY <1>1, <1>12 DEF Sweep, Goto, Prepared
<1>13. CASE Upload(w)
  BY <1>1, <1>13 DEF Upload, Goto, Prepared
<1> QED BY <1>2, <1>3, <1>4, <1>5, <1>6, <1>7, <1>8, <1>9, <1>10, <1>11, <1>12,
           <1>13, StepCases DEF Drop, UploadFails, Record, Crash

\* An <id>.mp3 stays.
LEMMA Mp3Stays ==
  ASSUME TypeOK, NEW w \in Workers, Prepared(w), Step(w), "mp3" \in files
  PROVE  "mp3" \in files'
BY MediaKept DEF Formats

\* A step keeps all workers prepared.
LEMMA AllPrepared ==
  ASSUME TypeOK, \A w \in Workers : Prepared(w), [Next]_vars
  PROVE  \A v \in Workers : Prepared(v)'
<1>1. CASE UNCHANGED vars
  BY <1>1 DEF vars, Prepared
<1>2. ASSUME NEW w \in Workers, Step(w), NEW v \in Workers PROVE Prepared(v)'
  <2>1. "mp3" \in files => "mp3" \in files'
    BY <1>2, Mp3Stays
  <2>2. CASE v = w
    BY <1>2, <2>1, <2>2, PreparedStep
  <2>3. CASE v # w
    <3>1. pc'[v] = pc[v] /\ job'[v] = job[v]
      BY <1>2, <2>3, OthersStay
    <3> QED BY <2>1, <3>1 DEF Prepared
  <2> QED BY <2>2, <2>3
<1> QED BY <1>1, <1>2 DEF Next

\* A row that is saved by a step is saved from what its job has in hand.
LEMMA SavedStep ==
  ASSUME TypeOK, \A w \in Workers : Prepared(w), SavedAsAsked, [Next]_vars
  PROVE  SavedAsAsked'
<1>1. CASE UNCHANGED vars
  BY <1>1 DEF vars, SavedAsAsked, Recorded
<1>2. ASSUME NEW w \in Workers, Step(w) PROVE SavedAsAsked'
  <2>1. "mp3" \in files => "mp3" \in files'
    BY <1>2, Mp3Stays
  <2>2. CASE UNCHANGED saved
    BY <2>1, <2>2 DEF saved, SavedAsAsked, Recorded
  <2>3. CASE Record(w)
    <3>1. /\ path' = [path EXCEPT ![job[w].row] = job[w].path]
          /\ format' = [format EXCEPT ![job[w].row] = job[w].format]
          /\ pc[w] = "record" /\ files' = files
      BY <2>3 DEF Record
    <3>2. path \in [Rows -> Results \cup {NoFile}] /\ format \in [Rows -> Formats]
      BY DEF TypeOK
    <3>3. job[w].format = "mp3" => job[w].path = "mp3" /\ "mp3" \in files
      BY <3>1 DEF Prepared
    <3>4. ASSUME NEW r \in Rows, path'[r] # NoFile, format'[r] = "mp3"
          PROVE  path'[r] = "mp3" /\ "mp3" \in files'
      <4>1. CASE r = job[w].row
        BY <3>1, <3>2, <3>3, <3>4, <4>1
      <4>2. CASE r # job[w].row
        BY <3>1, <3>2, <3>4, <4>2 DEF SavedAsAsked, Recorded
      <4> QED BY <4>1, <4>2
    <3> QED BY <3>4 DEF SavedAsAsked, Recorded
  <2> QED BY <1>2, <2>2, <2>3, StepCases
          DEF Begin, Look, FetchStart, FetchStreams, FetchWhole, ConvertStart,
              ConvertEnds, YtDlpFails, Judge, Drop, Sweep, Upload, UploadFails, Crash
<1> QED BY <1>1, <1>2 DEF Next

\* The worker that answers for a partial file hands it on, takes it away or dies.
LEMMA PartStep ==
  ASSUME TypeOK, NothingTemporaryLeft, [Next]_vars
  PROVE  NothingTemporaryLeft'
<1> DEFINE Busy == {"fetching", "judge", "drop", "sweep"}
<1>1. CASE UNCHANGED vars
  BY <1>1 DEF vars, NothingTemporaryLeft
<1>2. ASSUME NEW w \in Workers, Step(w), "part" \in files'
      PROVE  litter' \/ \E v \in Workers : pc'[v] \in Busy
  <2>1. pc \in [Workers -> Steps] /\ job[w].format \in Formats
        /\ job[w].path \in Results \cup {NoFile}
    BY DEF TypeOK
  <2>2. ASSUME NEW v \in Workers, v # w, pc[v] \in Busy
        PROVE  \E u \in Workers : pc'[u] \in Busy
    BY <1>2, <2>2, OthersStay
  <2>3. CASE pc'[w] \in Busy
    BY <2>3
  <2>4. CASE Crash(w)
    BY <2>4 DEF Crash
  <2>5. CASE Drop(w) \/ Sweep(w)
    BY <1>2, <2>1, <2>5, CleanUpFacts DEF Drop, Sweep
  <2>6. ASSUME NEW names \in SUBSET Media, Fetched(w, names)
        PROVE  \E u \in Workers : pc'[u] \in Busy
    <3>1. CASE OtherFetches(w)
      BY <2>2, <3>1 DEF OtherFetches, Fetching
    <3>2. CASE ~ OtherFetches(w)
      <4>1. PICK stay \in {{}, {"frag"}} :
               files' = names \cup (files \ ((Fragments \cup {"part"}) \ stay))
        BY <2>6, <3>2 DEF Fetched
      <4>2. "part" \notin names /\ "part" \notin stay
        BY <2>6, <4>1 DEF Media, Formats
      <4> QED BY <1>2, <4>1, <4>2
    <3> QED BY <3>1, <3>2
  <2>7. CASE FetchStreams(w)
    <3>1. PICK s \in Sources(job[w].format) : Fetched(w, s)
      BY <2>7 DEF FetchStreams
    <3> QED BY <2>1, <2>6, <3>1, StreamFacts
  <2>8. CASE FetchWhole(w)
    BY <2>6, <2>8 DEF FetchWhole, Media, Formats
  <2>9. CASE FetchStart(w) \/ ConvertEnds(w) \/ YtDlpFails(w) \/ Judge(w)
    BY <2>1, <2>3, <2>9 DEF FetchStart, ConvertEnds, YtDlpFails, Return, Judge, Goto
  <2>10. ASSUME pc[w] \notin Busy, litter' = litter, "part" \in files
         PROVE  litter' \/ \E v \in Workers : pc'[v] \in Busy
    BY <2>2, <2>10 DEF NothingTemporaryLeft
  <2>11. CASE \E r \in Rows, f \in Formats : Begin(w, r, f)
    BY <1>2, <2>10, <2>11 DEF Begin, history
  <2>12. CASE Look(w) \/ ConvertStart(w)
    BY <1>2, <2>10, <2>12 DEF Look, ConvertStart, history
  <2>13. CASE Upload(w) \/ UploadFails(w) \/ Record(w)
    BY <1>2, <2>10, <2>13 DEF Upload, UploadFails, Record, history
  <2> QED BY <1>2, <2>4, <2>5, <2>7, <2>8, <2>9, <2>11, <2>12, <2>13, StepCases
<1> QED BY <1>1, <1>2 DEF Next, NothingTemporaryLeft

---------------------------------------------------------------------------
(* The theorems *)

\* The inductive invariant holds.
LEMMA Invariance == Spec => []IInv
<1>1. Init => \A w \in Workers : Prepared(w)
  BY DEF Init, Prepared
<1>2. Init => SavedAsAsked /\ NothingTemporaryLeft
  BY DEF Init, SavedAsAsked, Recorded, NothingTemporaryLeft
<1>3. IInv /\ [Next]_vars => IInv'
  BY TypeStep, AllPrepared, SavedStep, PartStep DEF IInv
<1>4. Spec => []TypeOK
  BY TypeCorrect
<1>5. Init /\ TypeOK => IInv
  BY <1>1, <1>2 DEF IInv
<1> QED BY <1>3, <1>4, <1>5, PTL DEF Spec

\* A row saved as mp3 can be streamed as mp3, for ever.
THEOREM Mp3IsServed == Spec => []SavedAsAsked
<1>1. IInv => SavedAsAsked
  BY DEF IInv
<1> QED BY <1>1, Invariance, PTL

\* Files whose names end in .part are somebody's or an accident's.
THEOREM DirectoryIsClean == Spec => []NothingTemporaryLeft
<1>1. IInv => NothingTemporaryLeft
  BY DEF IInv
<1> QED BY <1>1, Invariance, PTL

\* No clean-up deletes recorded media of the formats asked for.
THEOREM MediaStays == Spec => RecordedMediaStays
<1> DEFINE Kept ==
      \A r \in Recorded :
        path[r] \in (files \ files') \cap Formats =>
          /\ path[r] = "mp4"
          /\ \E w \in Workers : pc[w] = "converting" /\ job[w].streams = {"mp4"}
<1>1. IInv /\ [Next]_vars => [Kept]_vars
  <2> SUFFICES ASSUME IInv, NEW w \in Workers, Step(w) PROVE Kept
    BY DEF Next
  <2> QED BY MediaKept DEF IInv
<1>2. RecordedMediaStays <=> [][Kept]_vars
  BY DEF RecordedMediaStays
<1> QED BY <1>1, <1>2, Invariance, PTL DEF Spec

---------------------------------------------------------------------------
(* When the files of recorded rows are served.                             *)

\* All jobs of the video are mp3 jobs.
Mp3Only == \A w \in Workers : job[w].format = "mp3"

\* Where only mp3 is ever asked for, every recorded row is served, whatever jobs
\* overlap, fail or die.
THEOREM Mp3RowsAreServed == Spec /\ []Mp3Only => []StreamServesRecorded
<1> DEFINE AllMp3 == \A r \in Rows : format[r] = "mp3"
<1>1. Init => AllMp3
  BY DEF Init
<1>2. TypeOK /\ Mp3Only /\ AllMp3 /\ [Next]_vars => AllMp3'
  <2> SUFFICES ASSUME TypeOK, Mp3Only, AllMp3, [Next]_vars PROVE AllMp3'
    OBVIOUS
  <2>1. CASE UNCHANGED format
    BY <2>1
  <2>2. ASSUME NEW w \in Workers, Record(w) PROVE AllMp3'
    <3>1. format' = [format EXCEPT ![job[w].row] = "mp3"] /\ format \in [Rows -> Formats]
      BY <2>2 DEF Record, Mp3Only, TypeOK
    <3> QED BY <3>1
  <2> QED BY <2>1, <2>2, StepCases
          DEF Next, vars, saved, Begin, Look, FetchStart, FetchStreams, FetchWhole,
              ConvertStart, ConvertEnds, YtDlpFails, Judge, Drop, Sweep, Upload,
              UploadFails, Crash
<1>3. IInv => TypeOK /\ SavedAsAsked
  BY DEF IInv
<1>4. SavedAsAsked /\ AllMp3 => StreamServesRecorded
  BY DEF SavedAsAsked, StreamServesRecorded, Recorded
<1> QED BY <1>1, <1>2, <1>3, <1>4, Invariance, PTL DEF Spec

\* No mp3 is made of an <id>.mp4.
SoundComesApart == \A w \in Workers : pc[w] = "converting" => job[w].streams # {"mp4"}

NamedMediaServed == \A r \in Recorded : path[r] \in Formats => path[r] \in files

\* What a job has checked and is about to record is there, and so is what was recorded.
ServedInv ==
  /\ NamedMediaServed
  /\ \A w \in Workers : pc[w] = "record" /\ job[w].path \in Formats => job[w].path \in files

\* Only Upload leads to Record.
LEMMA RecordFacts ==
  ASSUME TypeOK, NEW w \in Workers, Step(w), pc'[w] = "record"
  PROVE  Upload(w)
<1>1. pc \in [Workers -> Steps]
  BY DEF TypeOK
<1>2. ASSUME NEW l, Goto(w, l), l # "record" PROVE FALSE
  BY <1>1, <1>2 DEF Goto
<1>3. ~ Leave(w) /\ \A ok : ~ Return(w, ok)
  BY <1>2 DEF Leave, Return
<1> QED BY <1>2, <1>3, StepCases
        DEF Begin, Look, FetchStart, FetchStreams, FetchWhole, ConvertStart,
            ConvertEnds, YtDlpFails, Judge, Drop, Sweep, UploadFails, Record, Crash

\* Only Record saves a row.
LEMMA SavingFacts ==
  ASSUME TypeOK, NEW w \in Workers, Step(w), ~ UNCHANGED path
  PROVE  pc[w] = "record" /\ path' = [path EXCEPT ![job[w].row] = job[w].path]
         /\ files' = files
BY StepCases
   DEF saved, Begin, Look, FetchStart, FetchStreams, FetchWhole, ConvertStart,
       ConvertEnds, YtDlpFails, Judge, Drop, Sweep, Upload, UploadFails, Record, Crash

\* No step takes away what is recorded or about to be.
LEMMA ServedStep ==
  ASSUME IInv, SoundComesApart, ServedInv, [Next]_vars
  PROVE  ServedInv'
<1>1. CASE UNCHANGED vars
  BY <1>1 DEF vars, ServedInv, NamedMediaServed, Recorded
<1>2. ASSUME NEW w \in Workers, Step(w) PROVE ServedInv'
  <2>0. TypeOK /\ Prepared(w) /\ path \in [Rows -> Results \cup {NoFile}]
    BY DEF IInv, TypeOK
  <2>1. files \cap Formats \subseteq files'
    BY <1>2, <2>0, MediaKept DEF SoundComesApart
  <2>2. NamedMediaServed'
    <3>1. CASE UNCHANGED path
      BY <2>1, <3>1 DEF ServedInv, NamedMediaServed, Recorded
    <3>2. CASE ~ UNCHANGED path
      <4>1. pc[w] = "record" /\ path' = [path EXCEPT ![job[w].row] = job[w].path]
            /\ files' = files
        BY <1>2, <2>0, <3>2, SavingFacts
      <4> QED BY <2>0, <4>1 DEF ServedInv, NamedMediaServed, Recorded
    <3> QED BY <3>1, <3>2
  <2>3. ASSUME NEW v \in Workers, pc'[v] = "record", job'[v].path \in Formats
        PROVE  job'[v].path \in files'
    <3>1. CASE v = w
      BY <1>2, <2>0, <2>3, <3>1, RecordFacts DEF Upload
    <3>2. CASE v # w
      BY <1>2, <2>0, <2>1, <2>3, <3>2, OthersStay DEF ServedInv
    <3> QED BY <3>1, <3>2
  <2> QED BY <2>2, <2>3 DEF ServedInv
<1> QED BY <1>1, <1>2 DEF Next

\* As long as no mp3 is made of an <id>.mp4, every row that names <id>.mp3 or <id>.mp4 is
\* served, whatever jobs overlap, fail or die: rows that name another file, and the one
\* conversion that deletes <id>.mp4, are all that StreamServesRecorded can fail for.
THEOREM NamedMediaIsServed == Spec /\ []SoundComesApart => []NamedMediaServed
<1>1. Init => ServedInv
  BY DEF Init, ServedInv, NamedMediaServed, Recorded
<1>2. IInv /\ SoundComesApart /\ ServedInv /\ [Next]_vars => ServedInv'
  BY ServedStep
<1>3. ServedInv => NamedMediaServed
  BY DEF ServedInv
<1> QED BY <1>1, <1>2, <1>3, Invariance, PTL DEF Spec

---------------------------------------------------------------------------
(* One job at a time.                                                      *)

OneJobAtATime == \A v, w \in Workers : pc[v] # "idle" /\ pc[w] # "idle" => v = w

\* An mp3 job meets no row that names <id>.webm, and makes no mp3 of an <id>.mp4 that a
\* row names.
SoundElsewhere ==
  \A w \in Workers, r \in Rows : pc[w] # "idle" /\ job[w].format = "mp3" =>
      path[r] # "webm" /\ (path[r] = "mp4" => job[w].streams # {"mp4"})

\* A video is there in the format of an mp4 job.
HasVideo == files \cap {"mp4", "x.mp4"} # {}

\* The files an mp4 job may take for its download.
Pictures == {"mp4", "x.mp4", "webm"}

\* What the job that runs may rely on: nobody else touches the directory.
Steady(w) ==
  /\ pc[w] = "fetch" => files \subseteq listed[w] \cup {"part"}
  /\ pc[w] = "fetching" => files \subseteq listed[w] \cup {"part"} \cup Fragments
  /\ job[w].format = "mp4" =>
       /\ pc[w] \in {"fetch", "fetching", "convert", "converting"} =>
            \A r \in Rows : path[r] \notin {"mp4", "x.mp4"}
       /\ pc[w] \in {"convert", "converting"} => "x.mp4" \in files
       /\ pc[w] = "judge" /\ job[w].ok =>
            HasVideo \/ files \subseteq listed[w] \cup {"part", "webm"}
       /\ pc[w] \in {"sweep", "upload", "record"} => job[w].path \in Pictures
  /\ pc[w] \in {"sweep", "upload", "record"} => job[w].path \in files

OneInv ==
  /\ StreamServesRecorded
  /\ \A r \in Rows : path[r] \notin {"m4a"} \cup Fragments
  /\ \A w \in Workers : Steady(w)

\* What a search for a video returns is one, and without one nothing is found.
LEMMA VideoFacts ==
  /\ \A n \in FindDownloadedFile("mp4") : n \in files /\ n \in {"mp4", "x.mp4"}
  /\ FindDownloadedFile("mp4") = {} => ~ HasVideo
<1>1. \A n \in FindDownloadedFile("mp4") : n \in files /\ n \in {"mp4", "x.mp4"}
  BY DEF FindDownloadedFile, Suffix
<1>2. FindDownloadedFile("mp4") = {} => ~ HasVideo
  BY DEF FindDownloadedFile, Suffix, HasVideo
<1> QED BY <1>1, <1>2

\* A worker takes up the video or is at it.
LEMMA NotIdle ==
  ASSUME NEW w \in Workers, Step(w), pc[w] = "idle"
  PROVE  \E r \in Rows, f \in Formats : Begin(w, r, f)
BY StepCases DEF Look, FetchStart, FetchStreams, FetchWhole, ConvertStart, ConvertEnds,
   YtDlpFails, Judge, Drop, Sweep, Upload, UploadFails, Record, Crash

\* No step of the one job takes away a file that a row names.
LEMMA RowsKeepTheirFiles ==
  ASSUME IInv, SoundElsewhere, OneInv, NEW w \in Workers, Step(w), NEW r \in Rows
  PROVE  path[r] \notin files \ files'
<1>0. /\ TypeOK /\ Prepared(w) /\ Steady(w)
      /\ path[r] # "part" /\ path[r] \notin {"m4a"} \cup Fragments /\ job[w].format \in Formats
      /\ pc[w] # "idle" /\ job[w].format = "mp3" =>
             path[r] # "webm" /\ (path[r] = "mp4" => job[w].streams # {"mp4"})
  BY Assumptions DEF IInv, OneInv, TypeOK, SoundElsewhere, Results, Media, Formats, Fragments, Names
<1>1. SUFFICES ASSUME path[r] \in files, path[r] \notin files' PROVE FALSE
  OBVIOUS
<1>2. ASSUME NEW names, Fetched(w, names) PROVE FALSE
  BY <1>0, <1>1, <1>2 DEF Fetched
<1>3. ~ FetchStreams(w) /\ ~ FetchWhole(w)
  BY <1>2 DEF FetchStreams, FetchWhole
<1>4. ~ Drop(w)
  BY <1>0, <1>1, Assumptions DEF Drop, Temporary, Names, Results, Media, Formats, Fragments
<1>5. ~ Sweep(w)
  <2>1. SUFFICES ASSUME Sweep(w) PROVE FALSE
    OBVIOUS
  <2>2. pc[w] = "sweep" /\ path[r] \in Temporary(job[w].path)
    BY <1>1, <2>1 DEF Sweep
  <2>3. job[w].path = "mp3" /\ path[r] = "webm"
    BY <1>0, <2>2 DEF Temporary, Fragments
  <2>4. job[w].format = "mp3"
    BY <1>0, <2>2, <2>3 DEF Steady, Pictures, Formats
  <2> QED BY <1>0, <2>2, <2>3, <2>4
<1>6. ~ ConvertEnds(w)
  <2>1. SUFFICES ASSUME ConvertEnds(w) PROVE FALSE
    OBVIOUS
  <2>2. pc[w] = "converting" /\ path[r] \in job[w].streams
    BY <1>1, <2>1 DEF ConvertEnds
  <2>3. job[w].streams \in Sources(job[w].format)
    BY <1>0, <2>2 DEF Prepared
  <2>4. CASE job[w].format = "mp3"
    BY <1>0, <2>2, <2>3, <2>4 DEF Sources
  <2>5. CASE job[w].format = "mp4"
    <3>1. path[r] = "x.mp4"
      BY <1>0, <2>2, <2>3, <2>5 DEF Sources
    <3> QED BY <1>0, <2>2, <2>5, <3>1 DEF Steady
  <2> QED BY <1>0, <2>4, <2>5 DEF Formats
<1> QED BY <1>1, <1>3, <1>4, <1>5, <1>6, StepCases
        DEF Begin, Look, FetchStart, ConvertStart, YtDlpFails, Judge, Upload,
            UploadFails, Record, Crash

\* The job that runs knows the directory.
LEMMA SteadyStep ==
  ASSUME IInv, OneJobAtATime, OneInv, NEW w \in Workers, Step(w)
  PROVE  Steady(w)'
<1>0. /\ TypeOK /\ Prepared(w) /\ Steady(w) /\ StreamServesRecorded
      /\ pc \in [Workers -> Steps] /\ job \in [Workers -> Jobs]
      /\ job[w].format \in Formats /\ files \subseteq Names
      /\ listed \in [Workers -> SUBSET Results]
  BY DEF IInv, OneInv, TypeOK, Jobs
<1>1. ASSUME Leave(w) PROVE Steady(w)'
  BY <1>0, <1>1 DEF Leave, Goto, Steady
<1>13. pc[w] # "idle" => ~ OtherFetches(w)
  BY DEF OneJobAtATime, OtherFetches, Fetching
<1>2. ASSUME NEW r \in Rows, NEW f \in Formats, Begin(w, r, f) PROVE Steady(w)'
  <2>1. pc'[w] = "look"
    BY <1>0, <1>2 DEF Begin, Goto
  <2> QED BY <2>1 DEF Steady
<1>3. CASE Look(w)
  <2>0. files' = files /\ path' = path
    BY <1>3 DEF Look, saved
  <2>1. ASSUME NEW n \in FindDownloadedFile(job[w].format), Goto(w, "sweep"),
               job' = [job EXCEPT ![w].path = n]
        PROVE  Steady(w)'
    <3>1. pc'[w] = "sweep" /\ job'[w].format = job[w].format /\ job'[w].path = n
      BY <1>0, <2>1 DEF Goto, Jobs
    <3>2. n \in files
      BY <1>0, FoundFacts
    <3>3. job[w].format = "mp4" => n \in Pictures
      BY VideoFacts DEF Pictures
    <3> QED BY <2>0, <3>1, <3>2, <3>3 DEF Steady
  <2>2. ASSUME FindDownloadedFile(job[w].format) = {}, Goto(w, "fetch"),
               job' = job, listed' = [listed EXCEPT ![w] = files \ {"part"}]
        PROVE  Steady(w)'
    <3>1. /\ pc'[w] = "fetch" /\ job'[w].format = job[w].format
          /\ listed'[w] = files \ {"part"}
      BY <1>0, <2>2 DEF Goto
    <3>2. job[w].format = "mp4" => \A r \in Rows : path[r] \notin {"mp4", "x.mp4"}
      <4>1. job[w].format = "mp4" => "mp4" \notin files /\ "x.mp4" \notin files
        BY <2>2, VideoFacts DEF HasVideo
      <4> QED BY <1>0, <4>1, Assumptions
              DEF StreamServesRecorded, Recorded, Names, Results, Media, Formats
    <3> QED BY <2>0, <3>1, <3>2 DEF Steady
  <2>3. ~ OtherFetches(w)
    BY <1>3, <1>13 DEF Look
  <2>4. ASSUME NEW later, later # {} => OtherFetches(w),
               listed' = [listed EXCEPT ![w] = files \ ({"part"} \cup later)]
        PROVE  listed' = [listed EXCEPT ![w] = files \ {"part"}]
    BY <2>3, <2>4
  <2> QED BY <1>3, <2>1, <2>2, <2>4 DEF Look
<1>4. CASE FetchStart(w)
  <2>1. /\ pc[w] = "fetch" /\ pc'[w] = "fetching" /\ job' = job /\ path' = path
        /\ files' \subseteq files \cup {"part"} \cup Fragments /\ listed'[w] = listed[w]
    BY <1>0, <1>4 DEF FetchStart, Goto, saved
  <2> QED BY <1>0, <2>1 DEF Steady
<1>5. CASE FetchStreams(w)
  <2>1. PICK s \in Sources(job[w].format) :
           Fetched(w, s) /\ job' = [job EXCEPT ![w].streams = s]
    BY <1>5 DEF FetchStreams
  <2>2. /\ pc[w] = "fetching" /\ pc'[w] = "convert" /\ job'[w].format = job[w].format
        /\ path' = path
    BY <1>0, <1>5, <2>1 DEF FetchStreams, Goto, Jobs, saved
  <2>3. job[w].format = "mp4" => "x.mp4" \in files'
    BY <2>1 DEF Sources, Fetched
  <2> QED BY <1>0, <2>2, <2>3 DEF Steady
<1>6. CASE FetchWhole(w)
  <2>1. /\ pc[w] = "fetching" /\ pc'[w] = "judge" /\ job' = job
        /\ listed' = listed /\ \E n \in {"webm", "mp4"} : Fetched(w, {n})
    BY <1>0, <1>6 DEF FetchWhole, Goto
  <2>2. ~ OtherFetches(w)
    BY <1>13, <2>1
  <2>3. PICK n \in {"webm", "mp4"}, stay \in {{}, {"frag"}} :
           /\ stay # {} => "frag" \in listed[w]
           /\ files' = {n} \cup (files \ ((Fragments \cup {"part"}) \ stay))
    BY <2>1, <2>2 DEF Fetched
  <2>4. files \subseteq listed[w] \cup {"part"} \cup Fragments
    BY <1>0, <2>1 DEF Steady
  <2>5. stay \subseteq listed[w]
    BY <2>3
  <2>6. files' \subseteq listed[w] \cup {n} /\ n \in files'
    BY <2>3, <2>4, <2>5
  <2> QED BY <2>1, <2>6 DEF Steady, HasVideo
<1>7. CASE ConvertStart(w)
  <2>1. /\ pc[w] = "convert" /\ pc'[w] = "converting"
        /\ job' = job /\ path' = path /\ files \subseteq files'
    BY <1>0, <1>7 DEF ConvertStart, Goto, saved
  <2> QED BY <1>0, <2>1 DEF Steady
<1>8. CASE ConvertEnds(w)
  <2>1. pc'[w] = "judge" /\ job'[w].format = job[w].format /\ job[w].format \in files'
    BY <1>0, <1>8 DEF ConvertEnds, Return, Goto, Jobs
  <2> QED BY <2>1 DEF Steady, HasVideo
<1>9. CASE YtDlpFails(w)
  <2>1. /\ pc[w] \in {"fetch", "fetching", "convert", "converting"} /\ pc'[w] = "judge"
        /\ job'[w].format = job[w].format /\ job'[w].ok = FALSE /\ files' = files
    BY <1>0, <1>9 DEF YtDlpFails, Return, Goto, Jobs
  <2> QED BY <1>0, <2>1 DEF Steady
<1>10. CASE Judge(w)
  <2>0. files' = files /\ pc[w] = "judge"
    BY <1>10 DEF Judge
  <2>1. ASSUME NEW n \in Downloads(w), Goto(w, "sweep"),
               job' = [job EXCEPT ![w] = [NoJob EXCEPT !.row = job[w].row,
                            !.format = job[w].format, !.path = n]]
        PROVE  Steady(w)'
    <3>1. pc'[w] = "sweep" /\ job'[w].format = job[w].format /\ job'[w].path = n
      BY <1>0, <2>1 DEF Goto, NoJob
    <3>2. n \in files
      BY <1>0, DownloadFacts
    <3>3. ASSUME job[w].format = "mp4" PROVE n \in Pictures
      <4>1. CASE FindDownloadedFile("mp4") # {}
        BY <3>3, <4>1, VideoFacts DEF Downloads, Pictures
      <4>2. CASE FindDownloadedFile("mp4") = {}
        <5>1. job[w].ok /\ n \in files \ (listed[w] \cup {"part"})
          BY <3>3, <4>2 DEF Downloads
        <5> QED BY <1>0, <2>0, <3>3, <4>2, <5>1, VideoFacts DEF Steady, Pictures
      <4> QED BY <4>1, <4>2
    <3> QED BY <2>0, <3>1, <3>2, <3>3 DEF Steady
  <2>2. ASSUME Goto(w, "drop") PROVE Steady(w)'
    BY <1>0, <2>2 DEF Goto, Steady
  <2> QED BY <1>10, <2>1, <2>2 DEF Judge
<1>11. CASE Sweep(w)
  <2>1. /\ pc[w] = "sweep" /\ pc'[w] = "upload" /\ job' = job
        /\ files' = files \ Temporary(job[w].path)
    BY <1>0, <1>11 DEF Sweep, Goto
  <2> QED BY <1>0, <2>1 DEF Steady, Temporary
<1>12. CASE Upload(w)
  <2>1. /\ pc[w] = "upload" /\ pc'[w] = "record" /\ job' = job /\ files' = files
    BY <1>0, <1>12 DEF Upload, Goto
  <2> QED BY <1>0, <2>1 DEF Steady
<1> QED BY <1>1, <1>2, <1>3, <1>4, <1>5, <1>6, <1>7, <1>8, <1>9, <1>10, <1>11, <1>12,
           StepCases DEF Drop, UploadFails, Record, Crash

\* Every step of the one job keeps the recorded files and what the job knows.
LEMMA OneStep ==
  ASSUME IInv, OneJobAtATime, SoundElsewhere, OneInv, [Next]_vars
  PROVE  OneInv'
<1>1. CASE UNCHANGED vars
  BY <1>1 DEF vars, OneInv, StreamServesRecorded, Recorded, Steady, HasVideo
<1>2. ASSUME NEW w \in Workers, Step(w) PROVE OneInv'
  <2>0. TypeOK /\ Prepared(w) /\ Steady(w) /\ path \in [Rows -> Results \cup {NoFile}]
    BY DEF IInv, OneInv, TypeOK
  <2>1. \A r \in Rows : path[r] \in files => path[r] \in files'
    BY <1>2, RowsKeepTheirFiles
  <2>2. StreamServesRecorded' /\ \A r \in Rows : path'[r] \notin {"m4a"} \cup Fragments
    <3>1. CASE UNCHANGED path
      BY <2>1, <3>1 DEF OneInv, StreamServesRecorded, Recorded
    <3>2. CASE ~ UNCHANGED path
      <4>1. pc[w] = "record" /\ path' = [path EXCEPT ![job[w].row] = job[w].path]
            /\ files' = files
        BY <1>2, <2>0, <3>2, SavingFacts
      <4>2. job[w].path \in files /\ job[w].path \notin {"m4a"} \cup Fragments
        BY <2>0, <4>1 DEF Steady, Prepared, Pictures, TypeOK, Formats, Fragments
      <4> QED BY <2>0, <4>1, <4>2 DEF OneInv, StreamServesRecorded, Recorded
    <3> QED BY <3>1, <3>2
  <2>3. ASSUME NEW v \in Workers PROVE Steady(v)'
    <3>1. CASE v = w
      BY <1>2, <3>1, SteadyStep
    <3>2. CASE v # w /\ pc[w] # "idle"
      <4>1. pc'[v] = "idle"
        BY <1>2, <2>0, <3>2, OthersStay DEF OneJobAtATime
      <4> QED BY <4>1 DEF Steady
    <3>3. CASE v # w /\ pc[w] = "idle"
      <4>1. UNCHANGED <<files, path, listed>>
        BY <1>2, <3>3, NotIdle DEF Begin, saved
      <4>2. pc'[v] = pc[v] /\ job'[v] = job[v]
        BY <1>2, <2>0, <3>3, OthersStay
      <4> QED BY <4>1, <4>2 DEF OneInv, Steady, HasVideo
    <3> QED BY <3>1, <3>2, <3>3
  <2> QED BY <2>2, <2>3 DEF OneInv
<1> QED BY <1>1, <1>2 DEF Next

\* If the jobs of the video come one after another, every recorded row is served as long
\* as no mp3 job meets a row that names <id>.webm or takes the sound of a recorded
\* <id>.mp4, although yt-dlp fails half-way and processes die.
THEOREM OneJobIsServed ==
  Spec /\ []OneJobAtATime /\ []SoundElsewhere => []StreamServesRecorded
<1>1. Init => OneInv
  BY Assumptions
     DEF Init, OneInv, StreamServesRecorded, Recorded, Steady, Names, Results, Media,
         Formats, Fragments
<1>2. IInv /\ OneJobAtATime /\ SoundElsewhere /\ OneInv /\ [Next]_vars => OneInv'
  BY OneStep
<1>3. OneInv => StreamServesRecorded
  BY DEF OneInv
<1> QED BY <1>1, <1>2, <1>3, Invariance, PTL DEF Spec

===============================================================================
