------------------------------ MODULE ConverterRun ------------------------------
(***************************************************************************)
(* One call of run_converter after the other, on one project and with one  *)
(* output folder: the project is fetched, extracted or read where it is,   *)
(* its media files are downloaded and converted by threads, and everything *)
(* is packed.  A folder that is converted where it is keeps what a run has *)
(* done to it, also when the run was interrupted; the next run finds that. *)
(***************************************************************************)
EXTENDS Integers, Sequences, FiniteSets

CONSTANTS Projects,     \* the projects TLC runs the converter on
          MaxDownloads, \* http_max_concurrent_downloads
          MaxThreads,   \* max_concurrent_threads of the media converter
          Retries,      \* http_retries
          MaxRuns       \* bound: calls of run_converter

ASSUME LimitsAssumption == MaxDownloads \in Nat \ {0} /\ MaxThreads \in Nat \ {0} /\ Retries \in Nat /\ MaxRuns \in Nat \ {0}

\* What a file is tells its name and its content, whichever costume or sound uses it.  A costume can have a text of its
\* own, and a bitmapResolution.
ASSUME ProjectsAssumption ==
  \A p \in Projects :
    /\ p.source \in {"url", "archive", "directory"} /\ p.hasId \in BOOLEAN
    /\ p.code \in {"absent", "empty", "s2", "s3"}
    /\ p.uses \in Seq([file : STRING, kind : STRING, text : BOOLEAN, scaled : BOOLEAN])
    /\ \A i \in 1..Len(p.uses) : p.uses[i].text => p.uses[i].kind \in {"png", "svg", "jpg", "gif"}
    /\ \A i, j \in 1..Len(p.uses) : p.uses[i].file = p.uses[j].file => p.uses[i].kind = p.uses[j].kind
    /\ p.media \in [{p.uses[i].file : i \in 1..Len(p.uses)} -> {"absent", "partial", "wrong", "whole"}]

VARIABLES project,   \* [source, code, uses, media, hasId]; never changes
          pc,        \* where the run is
          exit,      \* how the last run ended
          runs,      \* calls so far
          code,      \* project.json in the project's folder
          media,     \* the media files there, by what their content is worth
          output,    \* the file that the conversion of a media file writes beside it
          left,      \* retries left to a download of the main thread
          next,      \* the first use that is not dealt with, or the one that is
          threads,   \* the threads of the batch: [use, step, left]
          converted, \* new_src_paths: the files with a conversion
          package,   \* per use: what was copied for it
          archive,   \* the .catrobat file: [run, whole]
          raised,    \* files of which a conversion ended with an exception
          leftovers  \* outputs that were there when the run began

dir  == <<code, media, output>>
work == <<left, next, threads, converted, package, raised>>
vars == <<project, pc, exit, runs, dir, work, archive, leftovers>>

Phases == {"idle", "fetch", "load", "rename", "parse", "resources", "details", "verify", "convert", "scan",
           "translate", "resize", "resizing", "media", "copy", "draw", "remove", "xml", "screenshot", "zip", "pack"}
Contents == {"absent", "partial", "wrong", "whole", "renamed", "rewritten"}
Exits  == {"none", "success", "failure", "interrupted"}

uses        == project.uses
Uses        == 1..Len(uses)
FileOf(i)   == uses[i].file
Files       == {FileOf(i) : i \in Uses}
KindOf(f)   == uses[CHOOSE i \in Uses : FileOf(i) = f].kind
Remote      == project.source = "url"
\* The first of its file, as in unique_resource_names and media_srces.
IsFirst(i)  == \A j \in 1..(i - 1) : FileOf(j) # FileOf(i)
Resources   == {i \in Uses : IsFirst(i)}
Unconverted == {i \in Uses : uses[i].kind \in {"svg", "wav"}}
Empty       == [i \in Uses |-> "none"]

Init ==
  /\ project \in Projects
  /\ pc = "idle" /\ exit = "none" /\ runs = 0
  /\ code = project.code /\ media = project.media
  /\ output = [f \in Files |-> "none"]
  /\ left = 0 /\ next = 1 /\ threads = {} /\ converted = {} /\ package = Empty
  /\ archive = [run |-> 0, whole |-> TRUE]
  /\ raised = {} /\ leftovers = {}

\* The run goes on, or ends.
Goto(p) == pc' = p /\ UNCHANGED <<project, exit, runs, leftovers>>
End(how) == pc' = "idle" /\ exit' = how /\ UNCHANGED <<project, runs, leftovers>>

-------------------------------------------------------------------------------
\* A temporary folder is made for a download or for the files of an archive; a folder is used as it is.
Start ==
  /\ pc = "idle" /\ runs < MaxRuns
  /\ runs' = runs + 1 /\ exit' = "none"
  /\ pc' = IF Remote THEN "fetch" ELSE "load"
  /\ IF project.source = "directory" THEN UNCHANGED dir
     ELSE /\ code' = (IF Remote THEN "absent" ELSE project.code)
          /\ media' = (IF Remote THEN [f \in Files |-> "absent"] ELSE project.media)
          /\ output' = [f \in Files |-> "none"]
  /\ leftovers' = {f \in Files : output'[f] # "none"}
  /\ left' = Retries /\ next' = 1 /\ threads' = {} /\ converted' = {} /\ package' = Empty
  /\ UNCHANGED <<project, archive, raised>>

\* Any call of the main thread may raise: run_converter logs it and fails.  While threads run, it waits for them.
Raise ==
  /\ pc # "idle" /\ threads = {}
  /\ End("failure")
  /\ UNCHANGED <<dir, work, archive>>

\* The process is killed.
Interrupt == pc # "idle" /\ End("interrupted") /\ UNCHANGED <<dir, work, archive>>

\* An attempt of download_file in the main thread that brings nothing.  Not found is not retried.
Attempt(notFound, failed) ==
  \/ notFound /\ UNCHANGED left
  \/ left > 0 /\ left' = left - 1 /\ Goto(pc)
  \/ left = 0 /\ failed /\ UNCHANGED left

\* download_project: a project that is not found is a Scratch 1 project, about which only the next step complains.
DownloadCode ==
  /\ pc = "fetch"
  /\ \/ code' = project.code /\ Goto("load") /\ UNCHANGED left
     \/ code' = "empty" /\ Attempt(Goto("load"), End("failure"))
  /\ UNCHANGED <<media, output, next, threads, converted, package, archive, raised>>

\* The code is read.  A file that was renamed for a code that was not corrected then is not found again.
Load ==
  /\ pc = "load"
  /\ CASE code = "s3" -> /\ Goto("rename")
                         /\ media' = [f \in Files |-> IF media[f] = "renamed" THEN "absent" ELSE media[f]]
       [] code = "s2" -> Goto("resources") /\ UNCHANGED media
       [] OTHER       -> End("failure") /\ UNCHANGED media
  /\ UNCHANGED <<code, output, work, archive>>

\* fixBadScratch3Hashes gives every file the name that its content asks for.
Rename(f) ==
  /\ pc = "rename" /\ media[f] \in {"wrong", "partial"} /\ Goto(pc)
  /\ media' = [media EXCEPT ![f] = "renamed"]
  /\ UNCHANGED <<code, output, work, archive>>

\* Then it puts these names into the code, a second copy of which is added to the file.
EndRename ==
  /\ pc = "rename" /\ (\A f \in Files : media[f] \notin {"wrong", "partial"}) /\ Goto("parse")
  /\ code' = "doubled"
  /\ media' = [f \in Files |-> IF media[f] = "renamed" THEN "whole" ELSE media[f]]
  /\ UNCHANGED <<output, work, archive>>

\* The code is overwritten as Scratch 2 would have written it.
Rewrite ==
  /\ pc = "parse"
  /\ code' = "s2" /\ Goto("resources")
  /\ UNCHANGED <<media, output, work, archive>>

-------------------------------------------------------------------------------
\* Both kinds of threads come in batches; the next batch starts when the last thread of this one has ended.
Remaining(set)   == {i \in set : i >= next}
Batch(set, size) == {i \in Remaining(set) : Cardinality({j \in Remaining(set) : j < i}) < size}
Started(use)     == [use |-> use, step |-> "started", left |-> Retries]

\* Threads for those of a batch that get one.
StartThreads(set, batch) ==
  /\ threads' = {Started(i) : i \in set}
  /\ \E last \in batch : (\A i \in batch : i <= last) /\ next' = last + 1

StartDownloads ==
  /\ pc = "resources" /\ threads = {}
  /\ IF Remote /\ Remaining(Resources) # {}
     THEN Goto(pc) /\ LET batch == Batch(Resources, MaxDownloads) IN StartThreads(batch, batch)
     ELSE Goto("details") /\ UNCHANGED <<threads, next>>
  /\ UNCHANGED <<dir, left, converted, package, archive, raised>>

\* Mutant: the attempts are not counted.
Retried_Again(t) == [t EXCEPT !.step = "sleeping"]

Retried(t) == [t EXCEPT !.step = "sleeping", !.left = @ - 1]

\* An attempt of a download thread.  What its exception says, or the assertion on the hash, is lost with the thread.
Download(t) ==
  /\ pc = "resources" /\ t.step = "started"
  /\ \E result \in {"whole", "wrong", "partial"} : media' = [media EXCEPT ![FileOf(t.use)] = result]
  /\ \/ threads' = threads \ {t}
     \/ /\ media'[FileOf(t.use)] = "partial" /\ t.left > 0
        /\ threads' = (threads \ {t}) \union {Retried(t)}
  /\ Goto(pc)
  /\ UNCHANGED <<code, output, left, next, converted, package, archive, raised>>

\* The retry decorator sleeps before the next attempt.
TryAgain(t) ==
  /\ pc = "resources" /\ t.step = "sleeping" /\ Goto(pc)
  /\ threads' = (threads \ {t}) \union {[t EXCEPT !.step = "started"]}
  /\ UNCHANGED <<dir, left, next, converted, package, archive, raised>>

\* The details of a project that has an ID are in the cache or are asked for; without them the run fails.
Details ==
  /\ pc = "details"
  /\ Goto("verify") \/ (project.hasId /\ End("failure"))
  /\ UNCHANGED <<dir, work, archive>>

\* Mutant: a file only has to be there.
Verified_Exists == \A f \in Files : media[f] # "absent"

\* Every file a costume or a sound names is there, with the content that its hash says.
Verified == \A f \in Files : media[f] = "whole"

Verify ==
  /\ pc = "verify"
  /\ IF Verified THEN Goto("convert") ELSE End("failure")
  /\ UNCHANGED <<dir, work, archive>>

ConvertProject ==
  /\ pc = "convert" /\ Goto("scan") /\ next' = 1
  /\ UNCHANGED <<dir, left, threads, converted, package, archive, raised>>

-------------------------------------------------------------------------------
\* ImageIO.write onto the picture that was read: it is deleted and written anew, and until the end of that there is
\* nothing of it, or half.
BeginWrite == \E half \in {"absent", "partial"} : media' = [media EXCEPT ![FileOf(next)] = half]
EndWrite   == media' = [media EXCEPT ![FileOf(next)] = "rewritten"]

\* The first use of a png (converted_media_resources_paths): convertPNG moves the picture to its rotation centre.
Translates(i) == uses[i].kind = "png" /\ IsFirst(i)

ScanUse ==
  /\ pc = "scan" /\ next <= Len(uses) /\ ~Translates(next)
  /\ next' = next + 1 /\ Goto(pc)
  /\ UNCHANGED <<dir, left, threads, converted, package, archive, raised>>

BeginTranslation ==
  /\ pc = "scan" /\ next <= Len(uses) /\ Translates(next)
  /\ BeginWrite /\ Goto("translate")
  /\ UNCHANGED <<code, output, work, archive>>

EndTranslation ==
  /\ pc = "translate" /\ EndWrite
  /\ IF uses[next].scaled THEN Goto("resize") /\ UNCHANGED next ELSE Goto("scan") /\ next' = next + 1
  /\ UNCHANGED <<code, output, left, threads, converted, package, archive, raised>>

\* resize_png reads the picture again, which is whole, and writes it once more.
BeginResize ==
  /\ pc = "resize" /\ BeginWrite /\ Goto("resizing")
  /\ UNCHANGED <<code, output, work, archive>>

EndResize ==
  /\ pc = "resizing" /\ EndWrite
  /\ next' = next + 1 /\ Goto("scan")
  /\ UNCHANGED <<code, output, left, threads, converted, package, archive, raised>>

EndScan ==
  /\ pc = "scan" /\ next > Len(uses)
  /\ next' = 1 /\ Goto("media")
  /\ UNCHANGED <<dir, left, threads, converted, package, archive, raised>>

\* Mutant: every use of a file is given a thread.
ToConvert_All == Batch(Unconverted, MaxThreads)

\* The uses of the batch whose file has not had a thread (media_srces).
ToConvert == {i \in Batch(Unconverted, MaxThreads) : IsFirst(i)}

StartConversions ==
  /\ pc = "media" /\ threads = {}
  /\ IF Remaining(Unconverted) # {}
     THEN Goto(pc) /\ StartThreads(ToConvert, Batch(Unconverted, MaxThreads))
     ELSE Goto("copy") /\ next' = 1 /\ UNCHANGED threads
  /\ UNCHANGED <<dir, left, converted, package, archive, raised>>

\* svgtopng.convert and convert_to_android_compatible_wav: an output that is there is taken for the conversion.
BeginConversion(t) ==
  /\ pc = "media" /\ t.step = "started" /\ Goto(pc)
  /\ LET f == FileOf(t.use) IN
     IF output[f] = "none"
     THEN /\ output' = [output EXCEPT ![f] = "partial"]
          /\ threads' = (threads \ {t}) \union {[t EXCEPT !.step = "writing"]}
          /\ UNCHANGED converted
     ELSE /\ converted' = converted \union {f} /\ threads' = threads \ {t}
          /\ UNCHANGED output
  /\ UNCHANGED <<code, media, left, next, package, archive, raised>>

EndConversion(t) ==
  /\ pc = "media" /\ t.step = "writing" /\ Goto(pc)
  /\ output' = [output EXCEPT ![FileOf(t.use)] = "whole"]
  /\ converted' = converted \union {FileOf(t.use)} /\ threads' = threads \ {t}
  /\ UNCHANGED <<code, media, left, next, package, archive, raised>>

\* The exception of a thread ends the thread and nothing else.
ConversionRaises(t) ==
  /\ pc = "media" /\ Goto(pc)
  /\ raised' = raised \union {FileOf(t.use)} /\ threads' = threads \ {t}
  /\ UNCHANGED <<dir, left, next, converted, package, archive>>

\* What is copied for a use: its file or the conversion.
Copied(i) ==
  LET f == FileOf(i) IN
  CASE f \in converted                                        -> output[f]
    [] f \notin converted /\ uses[i].kind \in {"svg", "wav"}  -> "unconverted"
    [] OTHER                                                  -> media[f]

Pack(content) == package' = [package EXCEPT ![next] = content] /\ next' = next + 1

CopyUse ==
  /\ pc = "copy" /\ next <= Len(uses) /\ ~uses[next].text
  /\ Pack(Copied(next)) /\ Goto(pc)
  /\ UNCHANGED <<dir, left, threads, converted, archive, raised>>

\* The text of a costume is drawn on the picture that is then copied, if it can be read: on the file itself, unless it
\* has a conversion.
Drawable == IF FileOf(next) \in converted THEN output[FileOf(next)] = "whole" ELSE uses[next].kind # "svg"

BeginDrawing ==
  /\ pc = "copy" /\ next <= Len(uses) /\ uses[next].text /\ Drawable
  /\ IF FileOf(next) \in converted
     THEN /\ \E half \in {"none", "partial"} : output' = [output EXCEPT ![FileOf(next)] = half]
          /\ UNCHANGED media
     ELSE BeginWrite /\ UNCHANGED output
  /\ Goto("draw")
  /\ UNCHANGED <<code, work, archive>>

EndDrawing ==
  /\ pc = "draw" /\ Goto("copy")
  /\ IF FileOf(next) \in converted
     THEN output' = [output EXCEPT ![FileOf(next)] = "whole"] /\ Pack("whole") /\ UNCHANGED media
     ELSE EndWrite /\ Pack("rewritten") /\ UNCHANGED output
  /\ UNCHANGED <<code, left, threads, converted, archive, raised>>

DrawingFails ==
  /\ pc = "copy" /\ next <= Len(uses) /\ uses[next].text /\ ~Drawable
  /\ End("failure")
  /\ UNCHANGED <<dir, work, archive>>

EndCopy ==
  /\ pc = "copy" /\ next > Len(uses) /\ Goto("remove")
  /\ UNCHANGED <<dir, work, archive>>

\* converted_media_files_to_be_removed: what was copied for the files that had to be converted.
ToRemove == {f \in Files : KindOf(f) \in {"svg", "wav"}}
Removed(f) == IF f \in converted THEN output[f] = "none" ELSE media[f] = "absent"

\* Mutant: a file that had to be converted is removed, whatever was copied for it.
RemoveSource_Original(f) ==
  /\ pc = "remove" /\ ~Removed(f) /\ Goto(pc)
  /\ media' = [media EXCEPT ![f] = "absent"]
  /\ UNCHANGED <<code, output, work, archive>>

\* They are removed one after the other.
RemoveSource(f) ==
  /\ pc = "remove" /\ ~Removed(f) /\ Goto(pc)
  /\ IF f \in converted
     THEN output' = [output EXCEPT ![f] = "none"] /\ UNCHANGED media
     ELSE media' = [media EXCEPT ![f] = "absent"] /\ UNCHANGED output
  /\ UNCHANGED <<code, work, archive>>

EndRemove ==
  /\ pc = "remove" /\ (\A f \in ToRemove : Removed(f)) /\ Goto("xml")
  /\ UNCHANGED <<dir, work, archive>>

-------------------------------------------------------------------------------
WriteCode ==
  /\ pc = "xml" /\ left' = Retries
  /\ Goto(IF project.hasId THEN "screenshot" ELSE "zip")
  /\ UNCHANGED <<dir, next, threads, converted, package, archive, raised>>

\* A project with an ID has a screenshot, or is not converted at all.
DownloadScreenshot ==
  /\ pc = "screenshot"
  /\ (Goto("zip") /\ UNCHANGED left) \/ Attempt(End("failure"), End("failure"))
  /\ UNCHANGED <<dir, next, threads, converted, package, archive, raised>>

\* The old archive is removed and the new one written.
OpenArchive ==
  /\ pc = "zip" /\ Goto("pack")
  /\ archive' = [run |-> runs, whole |-> FALSE]
  /\ UNCHANGED <<dir, work>>

CloseArchive ==
  /\ pc = "pack" /\ End("success")
  /\ archive' = [archive EXCEPT !.whole = TRUE]
  /\ UNCHANGED <<dir, work>>

Continue ==
  \/ DownloadCode \/ Load \/ (\E f \in Files : Rename(f)) \/ EndRename \/ Rewrite
  \/ StartDownloads \/ Details \/ Verify \/ ConvertProject
  \/ ScanUse \/ BeginTranslation \/ EndTranslation \/ BeginResize \/ EndResize \/ EndScan \/ StartConversions
  \/ \E t \in threads : Download(t) \/ TryAgain(t) \/ BeginConversion(t) \/ EndConversion(t) \/ ConversionRaises(t)
  \/ CopyUse \/ BeginDrawing \/ EndDrawing \/ DrawingFails \/ EndCopy
  \/ (\E f \in ToRemove : RemoveSource(f)) \/ EndRemove \/ WriteCode \/ DownloadScreenshot \/ OpenArchive \/ CloseArchive

Ended == pc = "idle" /\ runs = MaxRuns /\ UNCHANGED vars

Next == Start \/ Continue \/ Raise \/ Interrupt \/ Ended

\* A run that has begun goes on; nobody has to start, to fail or to interrupt one.
Spec == Init /\ [][Next]_vars /\ WF_vars(Continue)

-------------------------------------------------------------------------------
\* Type correctness.
TypeOK ==
  /\ pc \in Phases /\ exit \in Exits /\ runs \in 0..MaxRuns
  /\ code \in {"absent", "empty", "s2", "s3", "doubled"}
  /\ media \in [Files -> Contents]
  /\ output \in [Files -> {"none", "partial", "whole"}]
  /\ package \in [Uses -> Contents \union {"none", "unconverted"}]
  /\ left \in 0..Retries /\ next \in 1..(Len(uses) + 1)
  /\ threads \subseteq [use : Uses, step : {"started", "sleeping", "writing"}, left : 0..Retries]
  /\ converted \subseteq Files /\ raised \subseteq Files /\ leftovers \subseteq Files
  /\ archive \in [run : 0..MaxRuns, whole : BOOLEAN]

\* No two threads work on the same file, although a file may be used by many costumes.
OneThreadPerFile == \A s, t \in threads : FileOf(s.use) = FileOf(t.use) => s = t

\* A picture is another one after the scan if it is a png, and after the first n copies if a text was drawn on it for
\* one of them.
IsRewritten(i, n) ==
  \/ uses[i].kind = "png"
  \/ uses[i].kind \notin {"svg", "wav"} /\ \E j \in 1..n : FileOf(j) = FileOf(i) /\ uses[j].text

\* A run that ends with success has written the whole archive itself, and for every use something good is in it: the
\* file, moved if it is a png, with the texts drawn that this use and those before it have for the file, or its
\* conversion.  A file goes in as it was only when the thread that converted it raised an exception, and half of a
\* conversion only when it was left behind by a run before.
SuccessShipsEverything ==
  exit = "success" =>
    /\ archive = [run |-> runs, whole |-> TRUE]
    /\ \A i \in Uses :
         CASE package[i] = "unconverted" -> FileOf(i) \in raised
           [] package[i] = "partial"     -> FileOf(i) \in leftovers /\ runs > 1
           [] OTHER                      -> package[i] = IF IsRewritten(i, i) THEN "rewritten" ELSE "whole"

\* What may be done to a file in place: it gets another name, or another content.
Misnamed(f) == project.code = "s3" /\ project.media[f] \in {"wrong", "partial"}
Changed(f)  == \E i \in Uses : FileOf(i) = f /\ IsRewritten(i, Len(uses))

\* What a run does in place, a run that ends on the way leaves half done, and verification lets no run pass with it.
HalfDone(f) ==
  /\ media[f] \in {"renamed", "absent", "partial"}
  /\ \/ pc = "rename" /\ media[f] = "renamed"
     \/ f = FileOf(next) /\ (pc \in {"translate", "resizing"} \/ (pc = "draw" /\ f \notin converted))
     \/ exit \in {"failure", "interrupted"}
     \/ pc \in {"load", "rename", "parse", "resources", "details", "verify"} /\ runs > 1

\* A folder that is converted where it is stays what it was, except that
\*   - the code of Scratch 3 becomes that of Scratch 2, or unreadable if a run ended in between;
\*   - a file of a Scratch 3 project whose name and content differ gets a name that the code then knows, or does not if
\*     a run ended in between;
\*   - a png, and a file on which a text is drawn, is another one afterwards, or is gone or half there if a run ended
\*     while it was written;
\*   - a file is gone whose conversion raised an exception.
\* With a file that is half done, no later run gets further than its verification.
FolderSurvives ==
  project.source = "directory" =>
    /\ code # project.code => project.code = "s3"
    /\ code = "doubled" => pc = "parse" \/ exit \in {"failure", "interrupted"} \/ runs > 1
    /\ \A f \in Files : media[f] # project.media[f] =>
         \/ Misnamed(f) /\ (media[f] = "whole" \/ HalfDone(f))
         \/ Changed(f) /\ (media[f] = "rewritten" \/ HalfDone(f))
         \/ media[f] = "absent" /\ f \in raised

\* Every run ends: each download has a bounded number of attempts, and each batch ends with its threads.
RunsEnd == (pc # "idle") ~> (pc = "idle")
================================================================================
