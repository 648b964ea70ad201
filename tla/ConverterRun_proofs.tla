-------------------------- MODULE ConverterRun_proofs --------------------------
(***************************************************************************)
(* Proofs about ConverterRun, for any projects, any number of files, uses, *)
(* threads, retries and runs.  What a run ships depends on what it found   *)
(* and on what its threads left: the invariant follows a file through the  *)
(* scan and the batches (Scanned, Batched, Outputs) into the package       *)
(* (Shipped), and says of a folder what every run before has left in it    *)
(* (Folder).                                                               *)
(***************************************************************************)
EXTENDS ConverterRun, FiniteSetTheorems, SequenceTheorems, TLAPS

-------------------------------------------------------------------------------
(* The invariant *)

Typed == TypeOK /\ project \in Projects

\* Phases of a run, by what may still happen in them.
Scanning  == {"scan", "translate", "resize", "resizing"}
Unscanned == {"fetch", "load", "rename", "parse", "resources", "details", "verify", "convert"} \union Scanning
Copying   == {"copy", "draw"}
Packing   == {"remove", "xml", "screenshot", "zip", "pack"}
Coded     == {"resources", "details", "verify", "convert", "media"} \union Scanning \union Copying \union Packing

\* Whose threads there are.
Batched ==
  /\ OneThreadPerFile
  /\ pc \notin {"idle", "resources", "media"} => threads = {}
  /\ pc = "resources" => Remote \/ threads = {}
  /\ pc = "media" => \A t \in threads : t.use \in Unconverted /\ t.use < next

\* A file that has to be converted has a thread when its first use is dealt with, and is converted when the thread
\* has ended, unless it raised an exception.
Dealt ==
  /\ pc = "media" => \A i \in Unconverted : i < next =>
       \/ FileOf(i) \in converted \union raised
       \/ \E t \in threads : FileOf(t.use) = FileOf(i)
  /\ pc \in Copying \union {"remove"} => \A i \in Unconverted : FileOf(i) \in converted \union raised

\* What is written over itself, and is half there meanwhile.
Writing ==
  /\ pc \in {"translate", "resize", "resizing"} => next \in Uses /\ Translates(next)
  /\ pc = "draw" => /\ next \in Uses /\ uses[next].text
                    /\ FileOf(next) \in converted \/ uses[next].kind # "svg"

Half(f) == pc \in {"translate", "resizing", "draw"} /\ f = FileOf(next)

\* An output that is there before its thread begins was there when the run began; what is taken for a conversion is
\* one, or half of one that was left behind.
Outputs ==
  /\ pc \in Unscanned => converted = {} /\ \A f \in Files : output[f] # "none" => f \in leftovers
  /\ pc = "media" =>
       /\ \A t \in threads : t.step = "started" /\ output[FileOf(t.use)] # "none" => FileOf(t.use) \in leftovers
       /\ \A i \in Unconverted : IsFirst(i) /\ i >= next /\ output[FileOf(i)] # "none" => FileOf(i) \in leftovers
  /\ pc \in {"media"} \union Copying =>
       \A f \in converted : Half(f) \/ output[f] = "whole" \/ (output[f] = "partial" /\ f \in leftovers)
  /\ converted \subseteq {FileOf(i) : i \in Unconverted}

Content(i, n) == IF IsRewritten(i, n) THEN "rewritten" ELSE "whole"

\* What a media file that was verified becomes.
Scanned ==
  /\ pc \in {"convert"} \union Scanning =>
       \A i \in Uses : \/ Half(FileOf(i))
                       \/ media[FileOf(i)] = "whole"
                       \/ media[FileOf(i)] = "rewritten" /\ uses[i].kind = "png"
  /\ pc \in Scanning =>
       \A i \in Uses : i < next /\ uses[i].kind = "png" => Half(FileOf(i)) \/ media[FileOf(i)] = "rewritten"
  /\ pc = "media" => \A i \in Uses \ Unconverted : media[FileOf(i)] = Content(i, 0)
  /\ pc \in Copying =>
       \A i \in Uses \ Unconverted : Half(FileOf(i)) \/ media[FileOf(i)] = Content(i, next - 1)

\* What may be copied for a use.
Worth(c, i) ==
  CASE c = "unconverted" -> FileOf(i) \in raised
    [] c = "partial"     -> FileOf(i) \in leftovers /\ runs > 1
    [] OTHER             -> c = Content(i, i)

Good(i) == Worth(package[i], i)

Shipped ==
  /\ pc \in Copying => \A i \in Uses : i < next => Good(i)
  /\ pc \in Packing \/ exit = "success" => \A i \in Uses : Good(i)
  /\ pc = "pack" => archive = [run |-> runs, whole |-> FALSE]
  /\ exit = "success" => archive = [run |-> runs, whole |-> TRUE]

\* The first run finds no output.
Runs ==
  /\ pc # "idle" => exit = "none" /\ runs > 0
  /\ leftovers # {} => runs > 1
  /\ runs = 0 => exit = "none" /\ \A f \in Files : output[f] = "none"

\* What was done to a folder.  While its code is that of Scratch 3, no run has got further than the names of the files.
Kept(f) ==
  media[f] # project.media[f] =>
    \/ Misnamed(f) /\ (media[f] = "whole" \/ HalfDone(f))
    \/ Changed(f) /\ (media[f] = "rewritten" \/ HalfDone(f))
    \/ media[f] = "absent" /\ f \in raised

Named(f) ==
  /\ code = "s3" => media[f] = project.media[f] \/ (media[f] \in {"renamed", "absent"} /\ Misnamed(f))
  /\ media[f] = "renamed" => code = "s3"

Folder ==
  /\ pc = "fetch" => Remote
  /\ project.source = "directory" =>
       /\ code # project.code => project.code = "s3" /\ code \in {"doubled", "s2"}
       /\ pc = "rename" => code = "s3"
       /\ pc = "parse" => code = "doubled"
       /\ pc \in Coded => code = "s2"
       /\ code = "doubled" => pc = "parse" \/ exit \in {"failure", "interrupted"} \/ runs > 1
       /\ \A f \in Files : Kept(f) /\ Named(f)

Inv == Typed /\ Batched /\ Dealt /\ Writing /\ Outputs /\ Scanned /\ Shipped /\ Runs /\ Folder

-------------------------------------------------------------------------------
(* The project *)

\* A set of numbers that is not empty has a least one.
LEMMA LeastNumber ==
  ASSUME NEW S \in SUBSET Nat, S # {}
  PROVE  \E n \in S : \A m \in S : n <= m
<1> DEFINE T == {1..n : n \in S}
<1>1. T # {} /\ T \subseteq FiniteSubsetsOf(Nat)
  <2>1. \A n \in S : 1..n \in SUBSET Nat /\ IsFiniteSet(1..n)
    BY FS_Interval
  <2> QED BY <2>1 DEF FiniteSubsetsOf
<1>2. PICK I \in T : \A J \in T : ~(<<J, I>> \in StrictSubsetOrdering(Nat))
  BY <1>1, FS_StrictSubsetOrderingWellFounded, WFMin
<1>3. PICK n \in S : I = 1..n
  BY <1>2
<1>4. ASSUME NEW m \in S, m < n PROVE FALSE
  <2>1. 1..m \in T /\ 1..m \in SUBSET Nat /\ 1..n \in SUBSET Nat
    OBVIOUS
  <2>2. 1..m \subseteq 1..n /\ n \in 1..n /\ n \notin 1..m
    BY <1>4
  <2>3. <<1..m, 1..n>> \in StrictSubsetOrdering(Nat)
    BY <2>1, <2>2 DEF StrictSubsetOrdering
  <2> QED BY <1>2, <1>3, <2>1, <2>3
<1> QED BY <1>4

\* Texts are drawn on pictures.
LEMMA TextsAreOnPictures ==
  ASSUME project \in Projects, NEW i \in Uses
  PROVE  /\ uses[i].text \in BOOLEAN /\ uses[i].scaled \in BOOLEAN
         /\ uses[i].text => uses[i].kind \in {"png", "svg", "jpg", "gif"}
<1>1. i \in 1..Len(project.uses) /\ project.uses \in Seq([file : STRING, kind : STRING, text : BOOLEAN, scaled : BOOLEAN])
  BY ProjectsAssumption DEF Uses, uses
<1>2. project.uses[i] \in [file : STRING, kind : STRING, text : BOOLEAN, scaled : BOOLEAN]
  BY <1>1, ElementOfSeq
<1> QED BY <1>1, <1>2, ProjectsAssumption DEF uses

\* The uses of a project; the uses of one file agree on its kind.
LEMMA UsesAreKnown ==
  ASSUME project \in Projects
  PROVE  /\ Len(uses) \in Nat /\ Uses \subseteq Nat \ {0} /\ Unconverted \subseteq Uses /\ Resources \subseteq Uses
         /\ \A i \in Uses : FileOf(i) \in Files
         /\ \A i, j \in Uses : FileOf(i) = FileOf(j) => uses[i].kind = uses[j].kind
         /\ \A i \in Uses : KindOf(FileOf(i)) = uses[i].kind
         /\ project.media \in [Files -> {"absent", "partial", "wrong", "whole"}]
         /\ project.code \in {"absent", "empty", "s2", "s3"}
         /\ \A i \in Uses : /\ uses[i].text \in BOOLEAN /\ uses[i].scaled \in BOOLEAN
                           /\ uses[i].text => uses[i].kind \in {"png", "svg", "jpg", "gif"}
<1>1. Len(uses) \in Nat
  BY ProjectsAssumption, LenProperties DEF uses
<1>2. Uses \subseteq Nat \ {0} /\ Unconverted \subseteq Uses /\ Resources \subseteq Uses
  BY <1>1 DEF Uses, Unconverted, Resources
<1>3. \A i \in Uses : FileOf(i) \in Files
  BY DEF Files
<1>4. \A i, j \in Uses : FileOf(i) = FileOf(j) => uses[i].kind = uses[j].kind
  BY ProjectsAssumption DEF Uses, FileOf, uses
<1>5. \A i \in Uses : KindOf(FileOf(i)) = uses[i].kind
  BY <1>4 DEF KindOf
<1>6. project.media \in [Files -> {"absent", "partial", "wrong", "whole"}]
  <2>1. Files = {project.uses[i].file : i \in 1..Len(project.uses)}
    BY DEF Files, FileOf, Uses, uses
  <2> QED BY <2>1, ProjectsAssumption
<1>7. \A i \in Uses : /\ uses[i].text \in BOOLEAN /\ uses[i].scaled \in BOOLEAN
                    /\ uses[i].text => uses[i].kind \in {"png", "svg", "jpg", "gif"}
  BY TextsAreOnPictures
<1> QED BY <1>1, <1>2, <1>3, <1>4, <1>5, <1>6, <1>7, ProjectsAssumption

\* Each use has a first use of its file.
LEMMA FirstUse ==
  ASSUME project \in Projects, NEW i \in Uses
  PROVE  \E j \in Uses : j <= i /\ FileOf(j) = FileOf(i) /\ IsFirst(j)
<1> DEFINE S == {j \in Uses : FileOf(j) = FileOf(i)}
<1>1. S \in SUBSET Nat /\ i \in S
  BY UsesAreKnown
<1>2. PICK j \in S : \A k \in S : j <= k
  BY <1>1, LeastNumber
<1>3. \A k \in 1..(j - 1) : k \in Uses /\ k < j
  BY UsesAreKnown DEF Uses
<1>4. IsFirst(j)
  BY <1>1, <1>2, <1>3 DEF IsFirst
<1> QED BY <1>1, <1>2, <1>4

\* What depends on the project alone stays.
LEMMA ProjectStays ==
  ASSUME project' = project
  PROVE  /\ uses' = uses /\ Uses' = Uses /\ Files' = Files /\ Remote' = Remote
         /\ Unconverted' = Unconverted /\ Resources' = Resources
         /\ \A i : FileOf(i)' = FileOf(i) /\ IsFirst(i)' = IsFirst(i)
         /\ \A f : KindOf(f)' = KindOf(f) /\ Misnamed(f)' = Misnamed(f) /\ Changed(f)' = Changed(f)
         /\ ToRemove' = ToRemove /\ \A i : Translates(i)' = Translates(i)
         /\ \A i, n : IsRewritten(i, n)' = IsRewritten(i, n) /\ Content(i, n)' = Content(i, n)
<1>1. uses' = uses /\ Remote' = Remote
  BY DEF uses, Remote
<1>2. Uses' = Uses /\ \A i : FileOf(i)' = FileOf(i)
  BY <1>1 DEF Uses, FileOf
<1>3. Files' = Files /\ Unconverted' = Unconverted /\ \A i : IsFirst(i)' = IsFirst(i)
  BY <1>1, <1>2 DEF Files, Unconverted, IsFirst
<1>4. Resources' = Resources /\ \A f : KindOf(f)' = KindOf(f)
  BY <1>1, <1>2, <1>3 DEF Resources, KindOf
<1>5. ToRemove' = ToRemove /\ \A i : Translates(i)' = Translates(i)
  BY <1>1, <1>3, <1>4 DEF ToRemove, Translates
<1>6. \A i, n : IsRewritten(i, n)' = IsRewritten(i, n)
  BY <1>1, <1>2 DEF IsRewritten
<1>7. \A i, n : Content(i, n)' = Content(i, n)
  BY <1>6 DEF Content
<1>8. \A f : Misnamed(f)' = Misnamed(f) /\ Changed(f)' = Changed(f)
  BY <1>1, <1>2, <1>6 DEF Misnamed, Changed
<1> QED BY <1>1, <1>2, <1>3, <1>4, <1>5, <1>6, <1>7, <1>8

\* A batch is part of its set, and begins with what is left of it.
LEMMA BatchIsPart ==
  ASSUME NEW set \in SUBSET Nat, NEW size \in Nat
  PROVE  /\ Batch(set, size) \subseteq set
         /\ \A i \in Batch(set, size) : i >= next
BY DEF Batch, Remaining

\* Nothing of the set is left out before the last member of a batch.
LEMMA BatchIsGapless ==
  ASSUME NEW set \in SUBSET Nat, IsFiniteSet(set), NEW size \in Nat, next \in Nat,
         NEW last \in Batch(set, size), NEW i \in set, i >= next, i <= last
  PROVE  i \in Batch(set, size)
<1> DEFINE Before(n) == {j \in Remaining(set) : j < n}
<1>1. Before(last) \subseteq set /\ Before(i) \subseteq Before(last)
  <2>1. last \in Nat /\ Remaining(set) \subseteq set /\ Remaining(set) \subseteq Nat
    BY DEF Remaining, Batch
  <2>2. \A j \in Nat : j < i => j < last
    BY <2>1
  <2> QED BY <2>1, <2>2
<1>2. IsFiniteSet(Before(last)) /\ IsFiniteSet(Before(i)) /\ Cardinality(Before(i)) <= Cardinality(Before(last))
  BY <1>1, FS_Subset
<1>3. Cardinality(Before(last)) \in Nat /\ Cardinality(Before(i)) \in Nat /\ Cardinality(Before(last)) < size
  BY <1>2, FS_CardinalityType DEF Batch
<1>4. i \in Remaining(set) /\ Cardinality(Before(i)) < size
  BY <1>2, <1>3 DEF Remaining
<1> QED BY <1>4 DEF Batch

-------------------------------------------------------------------------------
(* The steps of the main thread, by what they are about *)

NameStep   == Load \/ (\E f \in Files : Rename(f)) \/ EndRename \/ Rewrite
ScanStep   == ScanUse \/ BeginTranslation \/ EndTranslation \/ BeginResize \/ EndResize \/ EndScan
CopyStep   == CopyUse \/ BeginDrawing \/ EndDrawing \/ DrawingFails \/ EndCopy
RemoveStep == (\E f \in ToRemove : RemoveSource(f)) \/ EndRemove

-------------------------------------------------------------------------------
(* Types *)

ThreadType == [use : Uses, step : {"started", "sleeping", "writing"}, left : 0..Retries]

LEMMA StartIsTyped == Init => Typed
<1> SUFFICES ASSUME Init PROVE Typed
  OBVIOUS
<1>1. media \in [Files -> Contents]
  BY UsesAreKnown DEF Init, Contents
<1>2. code \in {"absent", "empty", "s2", "s3", "doubled"}
  BY UsesAreKnown DEF Init
<1>3. Len(uses) \in Nat
  BY UsesAreKnown DEF Init
<1>4. package \in [Uses -> Contents \union {"none", "unconverted"}]
  BY DEF Init, Empty
<1> QED
  BY <1>1, <1>2, <1>3, <1>4, LimitsAssumption DEF Init, Typed, TypeOK, Phases, Exits

\* New threads are threads, for some of the uses.
LEMMA StartedIsTyped ==
  ASSUME Typed, NEW set \in SUBSET Uses, NEW all \in SUBSET Uses, NEW size \in Nat,
         StartThreads(set, Batch(all, size))
  PROVE  threads' \subseteq ThreadType /\ next' \in 1..(Len(uses) + 1)
<1>1. \A i \in set : Started(i) \in ThreadType
  BY LimitsAssumption DEF Started, ThreadType
<1>2. PICK last \in Batch(all, size) : next' = last + 1
  BY DEF StartThreads
<1>3. last \in Uses /\ Len(uses) \in Nat
  BY UsesAreKnown DEF Batch, Remaining, Typed
<1> QED BY <1>1, <1>2, <1>3 DEF StartThreads, Uses

\* The steps before the media.
LEMMA FetchIsTyped ==
  ASSUME Typed, Start \/ DownloadCode \/ NameStep \/ Raise \/ Interrupt \/ Ended
  PROVE  Typed'
<1>1. project' = project
  BY DEF Start, DownloadCode, NameStep, Load, Rename, EndRename, Rewrite, Raise, Interrupt, Ended, Goto, End, Attempt,
         vars
<1>2. /\ project' \in Projects
      /\ uses' = uses /\ Uses' = Uses /\ Files' = Files /\ Len(uses) \in Nat
      /\ project.media \in [Files -> {"absent", "partial", "wrong", "whole"}]
      /\ project.code \in {"absent", "empty", "s2", "s3"}
  BY <1>1, ProjectStays, UsesAreKnown DEF Typed
<1> SUFFICES TypeOK'
  BY <1>2 DEF Typed
<1>3. CASE Start
  <2>1. /\ media' \in [Files -> Contents]
        /\ code' \in {"absent", "empty", "s2", "s3", "doubled"}
        /\ output' \in [Files -> {"none", "partial", "whole"}]
    BY <1>2, <1>3 DEF Start, dir, Typed, TypeOK, Contents
  <2>2. runs' \in 0..MaxRuns /\ left' \in 0..Retries /\ next' \in 1..(Len(uses) + 1)
    BY <1>2, <1>3, LimitsAssumption DEF Start, Typed, TypeOK
  <2>3. package' \in [Uses -> Contents \union {"none", "unconverted"}]
    BY <1>3 DEF Start, Empty
  <2> QED BY <1>2, <1>3, <2>1, <2>2, <2>3 DEF Start, Typed, TypeOK, Phases, Exits
<1>4. CASE DownloadCode
  <2>1. left' \in 0..Retries /\ pc' \in Phases /\ exit' \in Exits /\ UNCHANGED <<runs, leftovers>>
    <3>1. CASE Goto("load") /\ UNCHANGED left
      BY <3>1 DEF Goto, Typed, TypeOK, Phases
    <3>2. CASE Attempt(Goto("load"), End("failure"))
      BY <3>2, LimitsAssumption DEF Attempt, Goto, End, Typed, TypeOK, Phases, Exits
    <3> QED BY <1>4, <3>1, <3>2 DEF DownloadCode
  <2>2. code' \in {"absent", "empty", "s2", "s3", "doubled"}
    BY <1>2, <1>4 DEF DownloadCode
  <2> QED BY <1>2, <1>4, <2>1, <2>2 DEF DownloadCode, Typed, TypeOK
<1>5. CASE Load \/ EndRename \/ \E f \in Files : Rename(f)
  <2>1. /\ pc' \in Phases /\ exit' \in Exits /\ UNCHANGED <<runs, leftovers>>
        /\ code' \in {"absent", "empty", "s2", "s3", "doubled"}
    BY <1>5 DEF Load, Rename, EndRename, Goto, End, Typed, TypeOK, Phases, Exits
  <2>2. media' \in [Files -> Contents]
    BY <1>5 DEF Load, Rename, EndRename, Typed, TypeOK, Contents
  <2>3. UNCHANGED <<output, work, archive>>
    BY <1>5 DEF Load, Rename, EndRename
  <2> QED BY <1>2, <2>1, <2>2, <2>3 DEF work, Typed, TypeOK
<1>6. CASE Rewrite
  BY <1>2, <1>6 DEF Rewrite, Goto, work, Typed, TypeOK, Phases
<1>7. CASE Raise \/ Interrupt
  BY <1>2, <1>7 DEF Raise, Interrupt, End, dir, work, Typed, TypeOK, Phases, Exits
<1>8. CASE Ended
  BY <1>2, <1>8 DEF Ended, vars, dir, work, Typed, TypeOK
<1> QED BY <1>3, <1>4, <1>5, <1>6, <1>7, <1>8 DEF NameStep

\* The steps of threads, and those that start them.
LEMMA BatchIsTyped ==
  ASSUME Typed,
         \/ StartDownloads \/ StartConversions
         \/ \E t \in threads : \/ Download(t) \/ TryAgain(t) \/ BeginConversion(t)
                               \/ EndConversion(t) \/ ConversionRaises(t)
  PROVE  Typed'
<1>1. project' = project /\ UNCHANGED <<exit, runs, leftovers, code, left, package, archive>> /\ pc' \in Phases
  <2>1. pc \in Phases
    BY DEF Typed, TypeOK
  <2> QED BY <2>1 DEF StartDownloads, StartConversions, Download, TryAgain, BeginConversion, EndConversion,
                ConversionRaises, Goto, dir, Phases
<1>2. /\ project' \in Projects
      /\ uses' = uses /\ Uses' = Uses /\ Files' = Files /\ Len(uses) \in Nat
      /\ Resources \subseteq Uses /\ Unconverted \subseteq Uses
      /\ \A i \in Uses : FileOf(i) \in Files
  BY <1>1, ProjectStays, UsesAreKnown DEF Typed
<1>3. threads \subseteq ThreadType
  BY DEF Typed, TypeOK, ThreadType
<1>4. ASSUME media' \in [Files -> Contents],
             output' \in [Files -> {"none", "partial", "whole"}],
             threads' \subseteq ThreadType, next' \in 1..(Len(uses) + 1),
             converted' \subseteq Files, raised' \subseteq Files
      PROVE  Typed'
  BY <1>1, <1>2, <1>4 DEF Typed, TypeOK, ThreadType
<1>5. /\ media \in [Files -> Contents]
      /\ output \in [Files -> {"none", "partial", "whole"}]
      /\ next \in 1..(Len(uses) + 1) /\ converted \subseteq Files /\ raised \subseteq Files
  BY DEF Typed, TypeOK
<1>6. CASE StartDownloads
  <2>1. threads' \subseteq ThreadType /\ next' \in 1..(Len(uses) + 1)
    <3>1. Batch(Resources, MaxDownloads) \subseteq Uses
      BY <1>2 DEF Batch, Remaining
    <3>2. MaxDownloads \in Nat
      BY LimitsAssumption
    <3>3. CASE StartThreads(Batch(Resources, MaxDownloads), Batch(Resources, MaxDownloads))
      BY <1>2, <3>1, <3>2, <3>3, StartedIsTyped
    <3> QED BY <1>3, <1>5, <1>6, <3>3 DEF StartDownloads
  <2> QED BY <1>4, <1>5, <1>6, <2>1 DEF StartDownloads, dir
<1>7. CASE StartConversions
  <2>1. threads' \subseteq ThreadType /\ next' \in 1..(Len(uses) + 1)
    <3>1. ToConvert \subseteq Uses
      BY <1>2 DEF ToConvert, Batch, Remaining
    <3>2. MaxThreads \in Nat
      BY LimitsAssumption
    <3>3. CASE StartThreads(ToConvert, Batch(Unconverted, MaxThreads))
      BY <1>2, <3>1, <3>2, <3>3, StartedIsTyped
    <3>4. 1 \in 1..(Len(uses) + 1)
      BY <1>2
    <3> QED BY <1>3, <1>5, <1>7, <3>3, <3>4 DEF StartConversions
  <2> QED BY <1>4, <1>5, <1>7, <2>1 DEF StartConversions, dir
<1>8. ASSUME NEW t \in threads,
             Download(t) \/ TryAgain(t) \/ BeginConversion(t) \/ EndConversion(t) \/ ConversionRaises(t)
      PROVE  Typed'
  <2>1. t \in ThreadType /\ t.use \in Uses /\ FileOf(t.use) \in Files
    BY <1>2, <1>3 DEF ThreadType
  <2>2. /\ t.left > 0 => Retried(t) \in ThreadType
        /\ [t EXCEPT !.step = "started"] \in ThreadType
        /\ [t EXCEPT !.step = "writing"] \in ThreadType
    <3>1. ASSUME NEW n \in 0..Retries PROVE [t EXCEPT !.step = "sleeping", !.left = n] \in ThreadType
      BY <2>1 DEF ThreadType
    <3>2. t.left > 0 => t.left - 1 \in 0..Retries
      BY <2>1, LimitsAssumption DEF ThreadType
    <3>3. [t EXCEPT !.step = "started"] \in ThreadType /\ [t EXCEPT !.step = "writing"] \in ThreadType
      BY <2>1 DEF ThreadType
    <3> QED BY <3>1, <3>2, <3>3 DEF Retried
  <2>3. threads' \subseteq ThreadType
    BY <1>3, <1>8, <2>2 DEF Download, TryAgain, BeginConversion, EndConversion, ConversionRaises
  <2>4. media' \in [Files -> Contents]
    BY <1>5, <1>8, <2>1 DEF Contents, Download, TryAgain, BeginConversion, EndConversion, ConversionRaises, dir
  <2>5. output' \in [Files -> {"none", "partial", "whole"}]
    BY <1>5, <1>8, <2>1 DEF Download, TryAgain, BeginConversion, EndConversion, ConversionRaises, dir
  <2>6. next' = next /\ converted' \subseteq Files /\ raised' \subseteq Files
    BY <1>5, <1>8, <2>1 DEF Download, TryAgain, BeginConversion, EndConversion, ConversionRaises
  <2> QED BY <1>4, <1>5, <2>3, <2>4, <2>5, <2>6
<1> QED BY <1>6, <1>7, <1>8

\* The scan, and the copies.
LEMMA UsesAreTyped ==
  ASSUME Typed, Writing, ScanStep \/ CopyStep
  PROVE  Typed'
<1>1. /\ UNCHANGED <<project, runs, leftovers, code, left, threads, converted, raised, archive>>
      /\ pc' \in Phases /\ exit' \in Exits
  <2>1. CASE ScanStep
    BY <2>1 DEF ScanStep, ScanUse, BeginTranslation, EndTranslation, BeginResize, EndResize, EndScan, Goto, dir, work,
                Phases, Typed, TypeOK
  <2>2. CASE CopyStep
    BY <2>2 DEF CopyStep, CopyUse, BeginDrawing, EndDrawing, DrawingFails, EndCopy, Goto, End, dir, work, Phases, Exits,
                Typed, TypeOK
  <2> QED BY <2>1, <2>2
<1>2. /\ project' \in Projects
      /\ uses' = uses /\ Uses' = Uses /\ Files' = Files /\ Len(uses) \in Nat
      /\ \A i \in Uses : FileOf(i) \in Files
  BY <1>1, ProjectStays, UsesAreKnown DEF Typed
<1>3. ASSUME media' \in [Files -> Contents], output' \in [Files -> {"none", "partial", "whole"}],
             package' \in [Uses -> Contents \union {"none", "unconverted"}], next' \in 1..(Len(uses) + 1)
      PROVE  Typed'
  BY <1>1, <1>2, <1>3 DEF Typed, TypeOK
<1>4. /\ media \in [Files -> Contents] /\ output \in [Files -> {"none", "partial", "whole"}]
      /\ package \in [Uses -> Contents \union {"none", "unconverted"}]
      /\ next \in 1..(Len(uses) + 1) /\ 1 \in 1..(Len(uses) + 1)
      /\ next <= Len(uses) => next + 1 \in 1..(Len(uses) + 1)
  BY <1>2 DEF Typed, TypeOK
<1>5. BeginWrite \/ EndWrite \/ UNCHANGED media => media' \in [Files -> Contents]
  BY <1>4 DEF BeginWrite, EndWrite, Contents
<1>6. CASE ScanStep
  <2>1. next' \in 1..(Len(uses) + 1)
    <3>1. next' = next \/ next' = 1 \/ next' = next + 1
      BY <1>6 DEF ScanStep, ScanUse, BeginTranslation, EndTranslation, BeginResize, EndResize, EndScan, work
    <3>2. next' = next + 1 => next <= Len(uses) \/ pc \in {"translate", "resizing"}
      BY <1>4, <1>6 DEF ScanStep, ScanUse, BeginTranslation, EndTranslation, BeginResize, EndResize, EndScan, work
    <3>3. pc \in {"translate", "resizing"} => next <= Len(uses)
      BY <1>2 DEF Writing, Uses
    <3> QED BY <1>4, <3>1, <3>2, <3>3
  <2>2. (BeginWrite \/ EndWrite \/ UNCHANGED media) /\ UNCHANGED <<output, package>>
    BY <1>6 DEF ScanStep, ScanUse, BeginTranslation, EndTranslation, BeginResize, EndResize, EndScan, work, dir
  <2> QED BY <1>3, <1>4, <1>5, <2>1, <2>2
<1>7. CASE CopyStep
  <2>1. BeginWrite \/ EndWrite \/ UNCHANGED media
    BY <1>7 DEF CopyStep, CopyUse, BeginDrawing, EndDrawing, DrawingFails, EndCopy, dir
  <2>2. output' \in [Files -> {"none", "partial", "whole"}]
    BY <1>4, <1>7 DEF CopyStep, CopyUse, BeginDrawing, EndDrawing, DrawingFails, EndCopy, dir
  <2>3. next <= Len(uses) => Copied(next) \in Contents \union {"none", "unconverted"}
    <3>1. next <= Len(uses) => FileOf(next) \in Files
      BY <1>2, <1>4 DEF Uses
    <3> QED BY <1>4, <3>1 DEF Copied, Contents
  <2>4. package' \in [Uses -> Contents \union {"none", "unconverted"}]
    BY <1>4, <1>7, <2>3 DEF CopyStep, CopyUse, BeginDrawing, EndDrawing, DrawingFails, EndCopy, Pack, work, Contents
  <2>5. next' \in 1..(Len(uses) + 1)
    <3>1. next' = next \/ (next' = next + 1 /\ (next <= Len(uses) \/ pc = "draw"))
      BY <1>7 DEF CopyStep, CopyUse, BeginDrawing, EndDrawing, DrawingFails, EndCopy, Pack, work
    <3>2. pc = "draw" => next <= Len(uses)
      BY <1>2 DEF Writing, Uses
    <3> QED BY <1>4, <3>1, <3>2
  <2> QED BY <1>3, <1>5, <2>1, <2>2, <2>4, <2>5
<1> QED BY <1>6, <1>7

\* The other steps.
LEMMA PackIsTyped ==
  ASSUME Typed,
         \/ Details \/ Verify \/ ConvertProject \/ RemoveStep
         \/ WriteCode \/ DownloadScreenshot \/ OpenArchive \/ CloseArchive
  PROVE  Typed'
<1>1. project' = project
  BY DEF Details, Verify, ConvertProject, RemoveStep, RemoveSource, EndRemove, WriteCode,
         DownloadScreenshot, OpenArchive, CloseArchive, Goto, End, Attempt
<1>2. /\ project' \in Projects
      /\ uses' = uses /\ Uses' = Uses /\ Files' = Files /\ Len(uses) \in Nat
  BY <1>1, ProjectStays, UsesAreKnown DEF Typed
<1> SUFFICES TypeOK'
  BY <1>2 DEF Typed
<1>3. CASE Details \/ Verify
  BY <1>2, <1>3 DEF Details, Verify, Goto, End, dir, work, Typed, TypeOK, Phases, Exits
<1>4. CASE ConvertProject
  BY <1>2, <1>4 DEF ConvertProject, Goto, dir, Typed, TypeOK, Phases
<1>5. CASE RemoveStep
  <2>1. /\ media' \in [Files -> Contents]
        /\ output' \in [Files -> {"none", "partial", "whole"}]
    BY <1>5 DEF RemoveStep, RemoveSource, EndRemove, dir, Typed, TypeOK, Contents
  <2>2. UNCHANGED <<code, work, archive, exit, runs, leftovers>> /\ pc' \in Phases
    BY <1>5 DEF RemoveStep, RemoveSource, EndRemove, dir, Goto, Phases
  <2> QED BY <1>2, <2>1, <2>2 DEF work, Typed, TypeOK
<1>6. CASE WriteCode
  <2>1. left' \in 0..Retries
    BY <1>6, LimitsAssumption DEF WriteCode
  <2> QED BY <1>2, <1>6, <2>1 DEF WriteCode, Goto, dir, Typed, TypeOK, Phases
<1>7. CASE DownloadScreenshot
  <2>1. left' \in 0..Retries /\ pc' \in Phases /\ exit' \in Exits /\ UNCHANGED <<runs, leftovers>>
    BY <1>7, LimitsAssumption DEF DownloadScreenshot, Attempt, Goto, End, Typed, TypeOK, Phases, Exits
  <2> QED BY <1>2, <1>7, <2>1 DEF DownloadScreenshot, dir, Typed, TypeOK
<1>8. CASE OpenArchive \/ CloseArchive
  <2>1. archive' \in [run : 0..MaxRuns, whole : BOOLEAN]
    <3>1. CASE OpenArchive
      BY <3>1 DEF OpenArchive, Typed, TypeOK
    <3>2. CASE CloseArchive
      BY <3>2 DEF CloseArchive, Typed, TypeOK
    <3> QED BY <1>8, <3>1, <3>2
  <2> QED BY <1>2, <1>8, <2>1 DEF OpenArchive, CloseArchive, Goto, End, dir, work, Typed, TypeOK, Phases, Exits
<1> QED BY <1>3, <1>4, <1>5, <1>6, <1>7, <1>8

\* A write in place is that of a use.
LEMMA WritingStep ==
  ASSUME Typed, Writing, [Next]_vars
  PROVE  Writing'
<1>1. ASSUME pc' \notin {"translate", "resize", "resizing", "draw"} PROVE Writing'
  BY <1>1 DEF Writing
<1>2. ASSUME UNCHANGED <<project, converted, next>>,
             \/ pc' = pc
             \/ pc = "scan" /\ pc' = "translate" /\ next \in Uses /\ Translates(next)
             \/ pc = "copy" /\ pc' = "draw" /\ next \in Uses /\ uses[next].text
                /\ (FileOf(next) \in converted \/ uses[next].kind # "svg")
             \/ pc = "translate" /\ pc' = "resize"
             \/ pc = "resize" /\ pc' = "resizing"
      PROVE  Writing'
  <2>1. Uses' = Uses /\ uses' = uses /\ \A i : FileOf(i)' = FileOf(i) /\ Translates(i)' = Translates(i)
    BY <1>2, ProjectStays
  <2>2. FileOf(next)' = FileOf(next)
    BY <1>2, <2>1 DEF FileOf
  <2>3. Translates(next)' = Translates(next)
    BY <1>2, <2>1 DEF Translates, IsFirst, FileOf
  <2> QED BY <1>2, <2>1, <2>2, <2>3 DEF Writing
<1>3. next <= Len(uses) => next \in Uses
  BY UsesAreKnown DEF Typed, TypeOK, Uses
<1>4. CASE ScanStep
  <2>1. CASE BeginTranslation
    BY <1>2, <1>3, <2>1 DEF BeginTranslation, Goto, work
  <2>2. CASE EndTranslation
    BY <1>1, <1>2, <2>2 DEF EndTranslation, Goto
  <2>3. CASE BeginResize
    BY <1>2, <2>3 DEF BeginResize, Goto, work
  <2> QED BY <1>1, <1>4, <2>1, <2>2, <2>3 DEF ScanStep, ScanUse, EndResize, EndScan, Goto
<1>5. CASE CopyStep
  <2>1. CASE BeginDrawing
    BY <1>2, <1>3, <2>1 DEF BeginDrawing, Drawable, Goto, work
  <2> QED BY <1>1, <1>5, <2>1 DEF CopyStep, CopyUse, EndDrawing, DrawingFails, EndCopy, Goto, End
<1>6. CASE \/ Start \/ DownloadCode \/ NameStep \/ Raise \/ Interrupt
           \/ Details \/ Verify \/ ConvertProject \/ RemoveStep
           \/ WriteCode \/ DownloadScreenshot \/ OpenArchive \/ CloseArchive
  BY <1>1, <1>6 DEF Start, DownloadCode, Attempt, NameStep, Load, Rename, EndRename, Rewrite, Raise, Interrupt, Details,
     Verify, ConvertProject, RemoveStep, RemoveSource, EndRemove, WriteCode, DownloadScreenshot, OpenArchive,
     CloseArchive, Goto, End
<1>7. CASE \/ StartDownloads \/ StartConversions
           \/ \E t \in threads : \/ Download(t) \/ TryAgain(t) \/ BeginConversion(t)
                                 \/ EndConversion(t) \/ ConversionRaises(t)
  BY <1>1, <1>7 DEF StartDownloads, StartConversions, Download, TryAgain, BeginConversion, EndConversion,
     ConversionRaises, Goto
<1>8. CASE UNCHANGED vars
  BY <1>2, <1>8 DEF vars, work
<1> QED BY <1>4, <1>5, <1>6, <1>7, <1>8 DEF Next, Continue, Ended, NameStep, ScanStep, CopyStep, RemoveStep

LEMMA TypedStep == Typed /\ Writing /\ [Next]_vars => Typed' /\ Writing'
<1>1. ASSUME Typed, UNCHANGED vars PROVE Typed'
  <2>1. uses' = uses /\ Uses' = Uses /\ Files' = Files
    BY <1>1, ProjectStays DEF vars
  <2> QED BY <1>1, <2>1 DEF vars, dir, work, Typed, TypeOK
<1> QED BY <1>1, FetchIsTyped, BatchIsTyped, UsesAreTyped, PackIsTyped, WritingStep
       DEF Next, Continue, NameStep, ScanStep, CopyStep, RemoveStep

\* Type correctness, for any projects and limits: the number of retries that are left never falls below none, no thread
\* is started for a use that the project does not have, and no picture is written over but that of a use that is there
\* (mediaconverter.py:134-213, helpers.py:339-361).
THEOREM TypeCorrect == Spec => []TypeOK
<1>1. Init => Typed /\ Writing
  BY StartIsTyped DEF Init, Writing
<1>2. Typed /\ Writing /\ [Next]_vars => Typed' /\ Writing'
  BY TypedStep
<1>3. Typed => TypeOK
  BY DEF Typed
<1> QED BY <1>1, <1>2, <1>3, PTL DEF Spec

-------------------------------------------------------------------------------
(* The steps *)

\* A step of the main thread that goes on.
GoesOn ==
  \/ DownloadCode \/ NameStep \/ Details \/ Verify \/ ConvertProject \/ ScanStep \/ CopyStep \/ RemoveStep
  \/ WriteCode \/ DownloadScreenshot \/ OpenArchive

ThreadStep(t) == Download(t) \/ TryAgain(t) \/ BeginConversion(t) \/ EndConversion(t) \/ ConversionRaises(t)

LEMMA NextIs ==
  ASSUME Next
  PROVE  \/ Start \/ GoesOn \/ StartDownloads \/ StartConversions
         \/ \E t \in threads : ThreadStep(t)
         \/ CloseArchive \/ Raise \/ Interrupt \/ UNCHANGED vars
BY DEF Next, Continue, GoesOn, NameStep, ScanStep, CopyStep, RemoveStep, ThreadStep, Ended

\* What a step of the main thread leaves alone, and where it goes: on, or back to idle without success.
Moves ==
  \/ exit' = exit /\ \/ pc = "fetch" /\ pc' \in {"fetch", "load"}
                     \/ pc = "load" /\ pc' \in {"rename", "resources"}
                     \/ pc = "rename" /\ pc' \in {"rename", "parse"}
                     \/ pc = "parse" /\ pc' = "resources"
                     \/ pc = "details" /\ pc' = "verify"
                     \/ pc = "verify" /\ pc' = "convert"
                     \/ pc = "convert" /\ pc' = "scan"
                     \/ pc = "scan" /\ pc' \in {"scan", "translate", "media"}
                     \/ pc = "translate" /\ pc' \in {"resize", "scan"}
                     \/ pc = "resize" /\ pc' = "resizing"
                     \/ pc = "resizing" /\ pc' = "scan"
                     \/ pc = "copy" /\ pc' \in {"copy", "draw", "remove"}
                     \/ pc = "draw" /\ pc' = "copy"
                     \/ pc = "remove" /\ pc' \in {"remove", "xml"}
                     \/ pc = "xml" /\ pc' \in {"screenshot", "zip"}
                     \/ pc = "screenshot" /\ pc' \in {"screenshot", "zip"}
                     \/ pc = "zip" /\ pc' = "pack"
  \/ exit' \in {"failure", "interrupted"} /\ pc # "idle" /\ pc' = "idle"

LEMMA MainMoves ==
  ASSUME GoesOn \/ Raise \/ Interrupt
  PROVE  /\ UNCHANGED <<project, runs, leftovers, threads, converted, raised>>
         /\ Moves
<1>1. CASE DownloadCode
  BY <1>1 DEF DownloadCode, Attempt, Goto, End, Moves
<1>2. CASE NameStep
  BY <1>2 DEF NameStep, Load, Rename, EndRename, Rewrite, Goto, End, work, Moves
<1>3. CASE Details \/ Verify \/ ConvertProject
  BY <1>3 DEF Details, Verify, ConvertProject, Goto, End, work, Moves
<1>4. CASE ScanStep
  BY <1>4 DEF ScanStep, ScanUse, BeginTranslation, EndTranslation, BeginResize, EndResize, EndScan, Goto, work, Moves
<1>5. CASE CopyStep
  BY <1>5 DEF CopyStep, CopyUse, BeginDrawing, EndDrawing, DrawingFails, EndCopy, Goto, End, work, Moves
<1>6. CASE RemoveStep \/ WriteCode
  BY <1>6 DEF RemoveStep, RemoveSource, EndRemove, WriteCode, Goto, work, Moves
<1>7. CASE DownloadScreenshot
  BY <1>7 DEF DownloadScreenshot, Attempt, Goto, End, Moves
<1>8. CASE OpenArchive
  BY <1>8 DEF OpenArchive, Goto, work, Moves
<1>9. CASE Raise \/ Interrupt
  BY <1>9 DEF Raise, Interrupt, End, work, Moves
<1> QED BY <1>1, <1>2, <1>3, <1>4, <1>5, <1>6, <1>7, <1>8, <1>9 DEF GoesOn

\* Which steps of the main thread are the ones of a phase.
LEMMA WhoMoves ==
  ASSUME GoesOn \/ Raise \/ Interrupt, pc' # "idle"
  PROVE  /\ pc = "fetch" => DownloadCode
         /\ pc = "load" => Load
         /\ pc = "rename" /\ pc' = "rename" => \E f \in Files : Rename(f)
         /\ pc = "rename" /\ pc' = "parse" => EndRename
         /\ pc = "parse" => Rewrite
         /\ pc = "verify" => Verify
         /\ pc = "convert" => ConvertProject
         /\ pc = "scan" /\ pc' = "scan" => ScanUse
         /\ pc = "scan" /\ pc' = "translate" => BeginTranslation
         /\ pc = "scan" /\ pc' = "media" => EndScan
         /\ pc = "translate" => EndTranslation
         /\ pc = "resize" => BeginResize
         /\ pc = "resizing" => EndResize
         /\ pc = "copy" /\ pc' = "copy" => CopyUse
         /\ pc = "copy" /\ pc' = "draw" => BeginDrawing
         /\ pc = "copy" /\ pc' = "remove" => EndCopy
         /\ pc = "draw" => EndDrawing
         /\ pc = "remove" /\ pc' = "remove" => \E f \in ToRemove : RemoveSource(f)
         /\ pc = "zip" => OpenArchive
<1>1. CASE Raise \/ Interrupt
  BY <1>1 DEF Raise, Interrupt, End
<1>2. CASE ScanStep
  BY <1>2 DEF ScanStep, ScanUse, BeginTranslation, EndTranslation, BeginResize, EndResize, EndScan, Goto
<1>3. CASE CopyStep
  BY <1>3 DEF CopyStep, CopyUse, BeginDrawing, EndDrawing, DrawingFails, EndCopy, Goto, End
<1>4. CASE NameStep \/ RemoveStep
  BY <1>4 DEF NameStep, Load, Rename, EndRename, Rewrite, RemoveStep, RemoveSource, EndRemove, Goto, End
<1>5. CASE DownloadCode \/ Details \/ Verify \/ ConvertProject \/ WriteCode \/ DownloadScreenshot \/ OpenArchive
  BY <1>5 DEF DownloadCode, Details, Verify, ConvertProject, WriteCode, DownloadScreenshot, OpenArchive
<1> QED BY <1>1, <1>2, <1>3, <1>4, <1>5 DEF GoesOn

\* What the steps of threads leave alone, and that a thread keeps its use.
LEMMA ThreadMoves ==
  ASSUME NEW t \in threads, ThreadStep(t)
  PROVE  /\ UNCHANGED <<project, pc, exit, runs, leftovers, code, next, package, archive>>
         /\ pc \in {"resources", "media"}
         /\ \/ threads' = threads \ {t}
            \/ \E n : n.use = t.use /\ threads' = (threads \ {t}) \union {n}
<1>1. CASE Download(t)
  <2>1. threads' = threads \ {t} \/ threads' = (threads \ {t}) \union {Retried(t)}
    BY <1>1 DEF Download
  <2>2. Retried(t).use = t.use
    BY DEF Retried
  <2>3. UNCHANGED <<project, pc, exit, runs, leftovers, code, next, package, archive>> /\ pc = "resources"
    BY <1>1 DEF Download, Goto
  <2> QED BY <2>1, <2>2, <2>3
<1>2. CASE TryAgain(t)
  <2>1. [t EXCEPT !.step = "started"].use = t.use
    OBVIOUS
  <2> QED BY <1>2, <2>1 DEF TryAgain, Goto, dir
<1>3. CASE BeginConversion(t)
  <2>1. [t EXCEPT !.step = "writing"].use = t.use
    OBVIOUS
  <2> QED BY <1>3, <2>1 DEF BeginConversion, Goto
<1>4. CASE EndConversion(t) \/ ConversionRaises(t)
  BY <1>4 DEF EndConversion, ConversionRaises, Goto, dir
<1> QED BY <1>1, <1>2, <1>3, <1>4 DEF ThreadStep

\* New threads for first uses, each in the batch and before next'.
LEMMA ThreadsStart ==
  ASSUME Typed, NEW set \in SUBSET Uses, NEW all \in SUBSET Uses, NEW size \in Nat,
         \A i \in set : IsFirst(i) /\ i \in Batch(all, size),
         StartThreads(set, Batch(all, size)), project' = project
  PROVE  /\ \A t \in threads' : t.use \in set /\ t.use < next' /\ t.step = "started"
         /\ \A i \in set : \E t \in threads' : t.use = i
         /\ OneThreadPerFile'
         /\ next' > next
         /\ \A i \in all : i < next' => i < next \/ i \in Batch(all, size)
<1>0. Uses \subseteq Nat /\ next \in Nat /\ IsFiniteSet(all)
  <2>1. IsFiniteSet(Uses)
    BY FS_Interval, UsesAreKnown DEF Uses, Typed
  <2> QED BY <2>1, FS_Subset, UsesAreKnown DEF Typed, TypeOK
<1>1. threads' = {Started(i) : i \in set}
  BY DEF StartThreads
<1>2. PICK last \in Batch(all, size) : (\A i \in Batch(all, size) : i <= last) /\ next' = last + 1
  BY DEF StartThreads
<1>3. last \in all /\ last >= next /\ Batch(all, size) \subseteq all
  BY DEF Batch, Remaining
<1>4. \A i \in set : Started(i).use = i /\ Started(i).step = "started" /\ i < next'
  BY <1>0, <1>2, <1>3 DEF Started
<1>5. ASSUME NEW i \in set, NEW j \in set, FileOf(i) = FileOf(j) PROVE i = j
  <2>1. ~(i < j) /\ ~(j < i)
    BY <1>0, <1>5, UsesAreKnown DEF IsFirst, Typed, Uses
  <2> QED BY <1>0, <2>1
<1>6. OneThreadPerFile'
  <2>1. \A i : FileOf(i)' = FileOf(i)
    BY ProjectStays
  <2> QED BY <1>1, <1>4, <1>5, <2>1 DEF OneThreadPerFile
<1>7. \A i \in all : i < next' => i < next \/ i \in Batch(all, size)
  BY <1>0, <1>2, <1>3, BatchIsGapless
<1>8. next' > next
  <2>1. last \in Nat
    BY <1>0, <1>3
  <2> QED BY <1>0, <1>2, <1>3, <2>1
<1>9. \A t \in threads' : t.use \in set /\ t.use < next' /\ t.step = "started"
  BY <1>1, <1>4
<1>10. \A i \in set : \E t \in threads' : t.use = i
  BY <1>1, <1>4
<1> QED BY <1>6, <1>7, <1>8, <1>9, <1>10

\* ... for downloads and for conversions.
LEMMA DownloadsStart ==
  ASSUME Typed, StartDownloads
  PROVE  /\ pc = "resources" /\ threads = {}
         /\ UNCHANGED <<project, exit, runs, dir, left, converted, package, archive, raised, leftovers>>
         /\ \/ pc' = "resources" /\ Remote /\ OneThreadPerFile'
            \/ pc' = "details" /\ threads' = {}
<1>1. CASE Remote /\ Remaining(Resources) # {}
  <2>1. Batch(Resources, MaxDownloads) \subseteq Resources
    BY DEF Batch, Remaining
  <2>2. \A i \in Resources : IsFirst(i) /\ i \in Uses
    BY DEF Resources
  <2>3. MaxDownloads \in Nat
    BY LimitsAssumption
  <2>4. StartThreads(Batch(Resources, MaxDownloads), Batch(Resources, MaxDownloads)) /\ project' = project
    BY <1>1 DEF StartDownloads, Goto
  <2>5. OneThreadPerFile'
    BY <2>1, <2>2, <2>3, <2>4, ThreadsStart
  <2> QED BY <1>1, <2>5 DEF StartDownloads, Goto
<1>2. CASE ~(Remote /\ Remaining(Resources) # {})
  BY <1>2 DEF StartDownloads, Goto
<1> QED BY <1>1, <1>2

LEMMA ConversionsStart ==
  ASSUME Typed, StartConversions
  PROVE  /\ pc = "media" /\ threads = {}
         /\ UNCHANGED <<project, exit, runs, dir, left, converted, package, archive, raised, leftovers>>
         /\ \/ /\ pc' = "media" /\ OneThreadPerFile' /\ next' > next
               /\ \A t \in threads' : t.use \in Unconverted /\ t.use < next' /\ t.step = "started"
                                      /\ IsFirst(t.use) /\ t.use >= next
               /\ \A i \in Unconverted : IsFirst(i) /\ i < next' =>
                    i < next \/ \E t \in threads' : t.use = i
            \/ pc' = "copy" /\ threads' = {} /\ next' = 1 /\ \A i \in Unconverted : i < next
<1>1. CASE Remaining(Unconverted) # {}
  <2>1. Batch(Unconverted, MaxThreads) \subseteq Unconverted /\ \A i \in Batch(Unconverted, MaxThreads) : i >= next
    BY DEF Batch, Remaining
  <2>2. Unconverted \subseteq Uses
    BY DEF Unconverted
  <2>3. MaxThreads \in Nat
    BY LimitsAssumption
  <2>4. StartThreads(ToConvert, Batch(Unconverted, MaxThreads)) /\ project' = project
    BY <1>1 DEF StartConversions, Goto
  <2>5. ToConvert \subseteq Batch(Unconverted, MaxThreads) /\ \A i \in ToConvert : IsFirst(i)
    BY DEF ToConvert
  <2>6. /\ \A t \in threads' : t.use \in ToConvert /\ t.use < next' /\ t.step = "started"
        /\ \A i \in ToConvert : \E t \in threads' : t.use = i
        /\ OneThreadPerFile' /\ next' > next
        /\ \A i \in Unconverted : i < next' => i < next \/ i \in Batch(Unconverted, MaxThreads)
    BY <2>1, <2>2, <2>3, <2>4, <2>5, ThreadsStart
  <2>7. \A i \in Unconverted : IsFirst(i) /\ i < next' => i < next \/ \E t \in threads' : t.use = i
    BY <2>6 DEF ToConvert
  <2> QED BY <1>1, <2>1, <2>5, <2>6, <2>7 DEF StartConversions, Goto
<1>2. CASE Remaining(Unconverted) = {}
  <2>1. \A i \in Unconverted : i < next
    <3>1. \A i \in Unconverted : i \in Nat
      BY UsesAreKnown DEF Typed
    <3> QED BY <1>2, <3>1 DEF Remaining, Typed, TypeOK
  <2> QED BY <1>2, <2>1 DEF StartConversions, Goto
<1> QED BY <1>1, <1>2

-------------------------------------------------------------------------------
(* Threads and files *)

LEMMA BatchedStep ==
  ASSUME Typed, Batched, [Next]_vars
  PROVE  Batched'
<1>1. CASE Start
  BY <1>1 DEF Start, Batched, OneThreadPerFile
<1>2. ASSUME UNCHANGED <<project, threads>>,
             \/ pc' = "idle"
             \/ pc \notin {"idle", "resources", "media"}
      PROVE  Batched'
  <2>1. \A i : FileOf(i)' = FileOf(i)
    BY <1>2, ProjectStays
  <2> QED BY <1>2, <2>1 DEF Batched, OneThreadPerFile
<1>3. CASE GoesOn \/ Raise \/ Interrupt
  <2>1. pc' = "idle" \/ pc \notin {"idle", "resources", "media"}
    BY <1>3, MainMoves DEF Moves
  <2> QED BY <1>2, <1>3, <2>1, MainMoves
<1>4. CASE CloseArchive
  BY <1>2, <1>4 DEF CloseArchive, End, work
<1>5. CASE StartDownloads
  <2>1. CASE pc' = "resources" /\ Remote /\ OneThreadPerFile'
    BY <1>5, <2>1, DownloadsStart, ProjectStays DEF Batched
  <2>2. CASE pc' = "details" /\ threads' = {}
    BY <2>2 DEF Batched, OneThreadPerFile
  <2> QED BY <1>5, <2>1, <2>2, DownloadsStart
<1>6. CASE StartConversions
  <2>1. project' = project /\ Unconverted' = Unconverted
    BY <1>6, ConversionsStart, ProjectStays
  <2>2. CASE pc' = "media" /\ OneThreadPerFile' /\ \A t \in threads' : t.use \in Unconverted /\ t.use < next'
    BY <2>1, <2>2 DEF Batched
  <2>3. CASE pc' = "copy" /\ threads' = {}
    BY <2>3 DEF Batched, OneThreadPerFile
  <2> QED BY <1>6, <2>2, <2>3, ConversionsStart
<1>7. ASSUME NEW t \in threads, ThreadStep(t)
      PROVE  Batched'
  <2>1. /\ UNCHANGED <<project, pc, next>> /\ pc \in {"resources", "media"}
        /\ \/ threads' = threads \ {t}
           \/ \E n : n.use = t.use /\ threads' = (threads \ {t}) \union {n}
    BY <1>7, ThreadMoves
  <2>2. /\ \A i : FileOf(i)' = FileOf(i)
        /\ Unconverted' = Unconverted /\ Remote' = Remote
    BY <2>1, ProjectStays
  <2>3. \A s \in threads' : \E r \in threads : s.use = r.use /\ (s = r \/ r = t)
    BY <2>1
  <2>4. OneThreadPerFile'
    BY <2>1, <2>2 DEF Batched, OneThreadPerFile
  <2> QED BY <2>1, <2>2, <2>3, <2>4 DEF Batched
<1>8. CASE UNCHANGED vars
  <2>1. UNCHANGED <<project, threads, pc, next>> /\ Unconverted' = Unconverted /\ Remote' = Remote
        /\ \A i : FileOf(i)' = FileOf(i)
    BY <1>8, ProjectStays DEF vars, work
  <2> QED BY <2>1 DEF Batched, OneThreadPerFile
<1> QED BY <1>1, <1>3, <1>4, <1>5, <1>6, <1>7, <1>8, NextIs

\* The first use of a file that has to be converted is one of its uses that have to be.
LEMMA FirstUnconverted ==
  ASSUME Typed, NEW i \in Unconverted
  PROVE  \E j \in Unconverted : j <= i /\ FileOf(j) = FileOf(i) /\ IsFirst(j)
<1>1. i \in Uses /\ uses[i].kind \in {"svg", "wav"}
  BY DEF Unconverted
<1>2. PICK j \in Uses : j <= i /\ FileOf(j) = FileOf(i) /\ IsFirst(j)
  BY <1>1, FirstUse DEF Typed
<1>3. uses[j].kind = uses[i].kind
  BY <1>1, <1>2, UsesAreKnown DEF Typed
<1> QED BY <1>1, <1>2, <1>3 DEF Unconverted

LEMMA DealtStep ==
  ASSUME Typed, Batched, Dealt, [Next]_vars
  PROVE  Dealt'
<1>1. CASE Start
  BY <1>1 DEF Start, Dealt, Copying
<1>2. CASE UNCHANGED vars
  <2>1. UNCHANGED <<pc, next, threads, converted, raised>> /\ Unconverted' = Unconverted
        /\ \A i : FileOf(i)' = FileOf(i)
    BY <1>2, ProjectStays DEF vars, work
  <2> QED BY <2>1 DEF Dealt
<1>3. CASE GoesOn \/ Raise \/ Interrupt
  <2>1. UNCHANGED <<project, threads, converted, raised>> /\ Moves
    BY <1>3, MainMoves
  <2>2. Unconverted' = Unconverted /\ \A i : FileOf(i)' = FileOf(i)
    BY <2>1, ProjectStays
  <2>3. CASE pc' = "media"
    <3>1. pc = "scan"
      BY <2>1, <2>3 DEF Moves
    <3>2. EndScan
      BY <1>3, <2>3, <3>1, WhoMoves
    <3>3. next' = 1
      BY <3>2 DEF EndScan
    <3>4. \A i \in Unconverted : ~(i < 1)
      <4>1. \A i \in Unconverted : i \in Nat \ {0}
        BY UsesAreKnown DEF Typed
      <4> QED BY <4>1
    <3> QED BY <2>2, <2>3, <3>3, <3>4 DEF Dealt, Copying
  <2>4. CASE pc' \in Copying \union {"remove"}
    BY <2>1, <2>2, <2>4 DEF Dealt, Moves, Copying
  <2>5. CASE pc' \notin {"media", "remove"} \union Copying
    BY <2>5 DEF Dealt
  <2> QED BY <2>3, <2>4, <2>5
<1>4. CASE CloseArchive
  BY <1>4 DEF CloseArchive, End, Dealt, Copying
<1>5. CASE StartDownloads
  <2>1. pc' \in {"resources", "details"}
    BY <1>5, DownloadsStart
  <2> QED BY <2>1 DEF Dealt, Copying
<1>6. CASE StartConversions
  <2>1. /\ pc = "media" /\ threads = {} /\ UNCHANGED <<project, converted, raised>>
    BY <1>6, ConversionsStart
  <2>2. Unconverted' = Unconverted /\ \A i : FileOf(i)' = FileOf(i)
    BY <2>1, ProjectStays
  <2>3. \A i \in Unconverted : i < next => FileOf(i) \in converted \union raised
    BY <2>1 DEF Dealt
  <2>4. CASE pc' = "copy" /\ \A i \in Unconverted : i < next
    BY <2>1, <2>2, <2>3, <2>4 DEF Dealt, Copying
  <2>5. CASE /\ pc' = "media"
             /\ \A i \in Unconverted : IsFirst(i) /\ i < next' => i < next \/ \E t \in threads' : t.use = i
    <3>1. ASSUME NEW i \in Unconverted, i < next'
          PROVE  \/ FileOf(i) \in converted \union raised
                 \/ \E t \in threads' : FileOf(t.use) = FileOf(i)
      <4>1. PICK j \in Unconverted : j <= i /\ FileOf(j) = FileOf(i) /\ IsFirst(j)
        BY FirstUnconverted
      <4>2. i \in Nat /\ j \in Nat /\ next' \in Nat
        BY <1>6, UsesAreKnown, BatchIsTyped DEF Typed, TypeOK
      <4>3. j < next'
        BY <3>1, <4>1, <4>2
      <4> QED BY <2>3, <2>5, <4>1, <4>3
    <3> QED BY <2>1, <2>2, <2>5, <3>1 DEF Dealt, Copying
  <2> QED BY <1>6, <2>4, <2>5, ConversionsStart
<1>7. ASSUME NEW t \in threads, ThreadStep(t)
      PROVE  Dealt'
  <2>1. UNCHANGED <<project, pc, next>> /\ pc \in {"resources", "media"}
    BY <1>7, ThreadMoves
  <2>2. Unconverted' = Unconverted /\ \A i : FileOf(i)' = FileOf(i)
    BY <2>1, ProjectStays
  <2>3. CASE pc = "resources"
    BY <2>1, <2>3 DEF Dealt, Copying
  <2>4. CASE pc = "media"
    <3>1. /\ converted \subseteq converted' /\ raised \subseteq raised'
          /\ \A r \in threads : r # t => r \in threads'
          /\ \/ FileOf(t.use) \in converted' \union raised'
             \/ \E n \in threads' : n.use = t.use
      <4>1. CASE BeginConversion(t)
        <5>1. [t EXCEPT !.step = "writing"].use = t.use
          OBVIOUS
        <5> QED BY <4>1, <5>1 DEF BeginConversion
      <4>2. CASE EndConversion(t) \/ ConversionRaises(t)
        BY <4>2 DEF EndConversion, ConversionRaises
      <4> QED BY <1>7, <2>4, <4>1, <4>2 DEF ThreadStep, Download, TryAgain
    <3> QED BY <2>1, <2>2, <2>4, <3>1 DEF Dealt, Copying
  <2> QED BY <2>1, <2>3, <2>4
<1> QED BY <1>1, <1>2, <1>3, <1>4, <1>5, <1>6, <1>7, NextIs

\* Outside of the media phase, only drawings and the removal of sources touch the outputs.
LEMMA OutputsStay ==
  ASSUME GoesOn \/ Raise \/ Interrupt
  PROVE  output' = output \/ BeginDrawing \/ EndDrawing \/ (pc = "remove" /\ pc' = "remove")
<1>1. CASE NameStep \/ ScanStep
  BY <1>1 DEF NameStep, Load, Rename, EndRename, Rewrite, ScanStep, ScanUse, BeginTranslation, EndTranslation, BeginResize,
     EndResize, EndScan, dir
<1>2. CASE CopyStep \/ RemoveStep
  BY <1>2 DEF CopyStep, CopyUse, DrawingFails, EndCopy, RemoveStep, RemoveSource, EndRemove, Goto, dir
<1> QED BY <1>1, <1>2 DEF GoesOn, DownloadCode, Details, Verify, ConvertProject, WriteCode, DownloadScreenshot,
       OpenArchive, Raise, Interrupt, dir

LEMMA OutputsStep ==
  ASSUME Typed, Batched, Writing, Outputs, [Next]_vars
  PROVE  Outputs'
<1>1. CASE Start
  <2>1. /\ pc' \in {"fetch", "load"} /\ project' = project /\ converted' = {}
        /\ leftovers' = {f \in Files : output'[f] # "none"}
    BY <1>1 DEF Start
  <2>2. Files' = Files
    BY <2>1, ProjectStays
  <2> QED BY <2>1, <2>2 DEF Outputs, Unscanned, Copying
<1>2. ASSUME UNCHANGED <<project, leftovers, converted>>,
             pc' \in Unscanned => pc \in Unscanned /\ output' = output, pc' \notin {"media"} \union Copying
      PROVE  Outputs'
  <2>1. Files' = Files /\ Unconverted' = Unconverted /\ \A i : FileOf(i)' = FileOf(i)
    BY <1>2, ProjectStays
  <2> QED BY <1>2, <2>1 DEF Outputs
<1>3. CASE GoesOn \/ Raise \/ Interrupt
  <2>1. UNCHANGED <<project, threads, converted, leftovers>> /\ Moves
    BY <1>3, MainMoves
  <2>2. Files' = Files /\ Unconverted' = Unconverted /\ \A i : FileOf(i)' = FileOf(i) /\ IsFirst(i)' = IsFirst(i)
    BY <2>1, ProjectStays
  <2>3. CASE pc' = "media"
    <3>1. pc = "scan" /\ threads = {} /\ \A f \in Files : output[f] # "none" => f \in leftovers
      BY <2>1, <2>3 DEF Moves, Batched, Outputs, Unscanned, Scanning
    <3>2. output \in [Files -> {"none", "partial", "whole"}] /\ \A i \in Unconverted : FileOf(i) \in Files
      BY UsesAreKnown DEF Typed, TypeOK
    <3>3. converted' = {} /\ threads' = {}
      <4>1. converted = {}
        BY <3>1 DEF Outputs, Unscanned, Scanning
      <4> QED BY <2>1, <3>1, <4>1
    <3>4. output' = output
      BY <1>3, <2>3, <3>1, OutputsStay DEF BeginDrawing, EndDrawing
    <3> QED BY <2>1, <2>2, <2>3, <3>1, <3>2, <3>3, <3>4 DEF Outputs, Unscanned, Scanning, Copying
  <2>4. CASE pc' \in Copying
    <3>1. pc \in Copying
      BY <2>1, <2>4 DEF Moves, Copying
    <3>2. output \in [Files -> {"none", "partial", "whole"}] /\ converted \subseteq Files
      BY DEF Typed, TypeOK
    <3>3. \A f \in converted : f # FileOf(next) => output'[f] = output[f]
      BY <1>3, <3>1, <3>2, OutputsStay DEF BeginDrawing, EndDrawing, Copying
    <3>4. pc = "draw" /\ FileOf(next) \in converted => output'[FileOf(next)] = "whole"
      <4>1. pc = "draw" => EndDrawing
        BY <1>3, <2>4, WhoMoves DEF Copying
      <4> QED BY <3>2, <4>1 DEF EndDrawing
    <3>5. pc' = "draw" => pc = "copy" /\ next' = next /\ FileOf(next)' = FileOf(next)
      <4>1. pc' = "draw" => pc = "copy" /\ BeginDrawing
        BY <1>3, <2>1, <2>4, WhoMoves DEF Moves
      <4>2. uses' = uses
        BY <2>1, ProjectStays
      <4> QED BY <4>1, <4>2 DEF BeginDrawing, work, FileOf
    <3>6. pc = "copy" /\ pc' = "copy" => output' = output
      <4>1. pc = "copy" /\ pc' = "copy" => CopyUse
        BY <1>3, WhoMoves
      <4> QED BY <4>1 DEF CopyUse, dir
    <3>7. ASSUME NEW f \in converted
          PROVE  Half(f)' \/ output'[f] = "whole" \/ (output'[f] = "partial" /\ f \in leftovers)
      <4>1. Half(f) \/ output[f] = "whole" \/ (output[f] = "partial" /\ f \in leftovers)
        BY <3>1 DEF Outputs
      <4>2. CASE f # FileOf(next)
        BY <3>3, <4>1, <4>2 DEF Half
      <4>3. CASE f = FileOf(next) /\ pc = "draw"
        BY <3>4, <4>3
      <4>4. CASE f = FileOf(next) /\ pc = "copy" /\ pc' = "draw"
        BY <3>5, <4>4 DEF Half
      <4>5. CASE f = FileOf(next) /\ pc = "copy" /\ pc' = "copy"
        BY <3>6, <4>1, <4>5 DEF Half
      <4> QED BY <2>4, <3>1, <4>2, <4>3, <4>4, <4>5 DEF Copying
    <3>8. pc' \notin Unscanned /\ pc' # "media"
      BY <2>4 DEF Copying, Unscanned, Scanning
    <3> QED BY <2>1, <2>2, <3>7, <3>8 DEF Outputs
  <2>5. CASE pc' \notin {"media"} \union Copying
    <3>1. pc' \in Unscanned => pc \in Unscanned
      BY <2>1, <2>5 DEF Moves, Unscanned, Scanning, Copying
    <3>2. pc \in Unscanned => output' = output
      BY <1>3, OutputsStay DEF BeginDrawing, EndDrawing, Unscanned, Scanning
    <3> QED BY <1>2, <2>1, <2>5, <3>1, <3>2
  <2> QED BY <2>3, <2>4, <2>5
<1>4. CASE CloseArchive
  <2>1. UNCHANGED <<project, leftovers, converted, output>> /\ pc' = "idle"
    BY <1>4 DEF CloseArchive, End, dir, work
  <2> QED BY <1>2, <2>1 DEF Unscanned, Scanning, Copying
<1>5. CASE StartDownloads
  <2>1. UNCHANGED <<project, leftovers, converted, output>> /\ pc = "resources" /\ pc' \in {"resources", "details"}
    BY <1>5, DownloadsStart DEF dir
  <2> QED BY <1>2, <2>1 DEF Unscanned, Scanning, Copying
<1>6. CASE StartConversions
  <2>1. /\ pc = "media" /\ threads = {} /\ UNCHANGED <<project, converted, output, leftovers>>
    BY <1>6, ConversionsStart DEF dir
  <2>2. /\ Files' = Files /\ Unconverted' = Unconverted
        /\ \A i : FileOf(i)' = FileOf(i) /\ IsFirst(i)' = IsFirst(i)
    BY <2>1, ProjectStays
  <2>3. CASE pc' = "copy"
    BY <2>1, <2>2, <2>3 DEF Outputs, Unscanned, Scanning, Copying, Half
  <2>4. CASE /\ pc' = "media" /\ next' > next
             /\ \A t \in threads' : t.use \in Unconverted /\ IsFirst(t.use) /\ t.use >= next
    <3>1. \A i \in Unconverted : i >= next' => i >= next
      <4>1. next \in Nat /\ next' \in Nat /\ \A i \in Unconverted : i \in Nat
        BY <1>6, UsesAreKnown, BatchIsTyped DEF Typed, TypeOK
      <4> QED BY <2>4, <4>1
    <3> QED BY <2>1, <2>2, <2>4, <3>1 DEF Outputs, Unscanned, Scanning, Copying, Half
  <2> QED BY <1>6, <2>3, <2>4, ConversionsStart
<1>7. ASSUME NEW t \in threads, ThreadStep(t)
      PROVE  Outputs'
  <2>1. UNCHANGED <<project, pc, next, leftovers>> /\ pc \in {"resources", "media"}
    BY <1>7, ThreadMoves
  <2>2. /\ Files' = Files /\ Unconverted' = Unconverted
        /\ \A i : FileOf(i)' = FileOf(i) /\ IsFirst(i)' = IsFirst(i)
    BY <2>1, ProjectStays
  <2>3. CASE pc = "resources"
    <3>1. UNCHANGED <<output, converted>>
      BY <1>7, <2>3 DEF ThreadStep, Download, TryAgain, BeginConversion, EndConversion, ConversionRaises, dir
    <3> QED BY <1>2, <2>1, <2>3, <3>1 DEF Copying
  <2>4. CASE pc = "media"
    <3> DEFINE g == FileOf(t.use)
    <3>1. /\ t.use \in Unconverted /\ t.use < next /\ g \in Files
          /\ output \in [Files -> {"none", "partial", "whole"}]
          /\ \A i \in Unconverted : FileOf(i) \in Files /\ i \in Nat
          /\ next \in Nat
      BY <2>4, UsesAreKnown DEF Batched, Typed, TypeOK
    <3>2. \A s \in threads : s # t => FileOf(s.use) # g
      BY DEF Batched, OneThreadPerFile
    <3>3. \A i \in Unconverted : IsFirst(i) /\ i >= next => FileOf(i) # g
      <4>1. SUFFICES ASSUME NEW i \in Unconverted, IsFirst(i), i >= next PROVE FileOf(i) # g
        OBVIOUS
      <4>2. t.use \in 1..(i - 1)
        <5>1. t.use \in Nat \ {0}
          BY <3>1, UsesAreKnown DEF Typed
        <5> QED BY <3>1, <4>1, <5>1
      <4> QED BY <4>1, <4>2 DEF IsFirst
    <3> HIDE DEF g
    <3>4. \A s \in threads' : s.step = "started" => s \in threads /\ s # t
      <4>1. CASE BeginConversion(t)
        <5>1. \/ threads' = threads \ {t}
              \/ threads' = (threads \ {t}) \union {[t EXCEPT !.step = "writing"]}
          BY <4>1 DEF BeginConversion
        <5>2. [t EXCEPT !.step = "writing"].step = "writing"
          BY DEF Typed, TypeOK
        <5> QED BY <5>1, <5>2
      <4>2. CASE EndConversion(t) \/ ConversionRaises(t)
        BY <4>2 DEF EndConversion, ConversionRaises
      <4> QED BY <1>7, <2>4, <4>1, <4>2 DEF ThreadStep, Download, TryAgain
    <3>5. /\ \A f \in Files : f # g => output'[f] = output[f]
          /\ \/ converted' = converted /\ (output'[g] = output[g] \/ output[g] = "none")
             \/ /\ converted' = converted \union {g}
                /\ \/ output'[g] = "whole"
                   \/ output'[g] = output[g] /\ output[g] # "none" /\ t.step = "started"
      <4>1. CASE BeginConversion(t)
        BY <3>1, <4>1 DEF BeginConversion, g
      <4>2. CASE EndConversion(t)
        BY <3>1, <4>2 DEF EndConversion, g
      <4>3. CASE ConversionRaises(t)
        BY <4>3 DEF ConversionRaises, dir
      <4> QED BY <1>7, <2>4, <4>1, <4>2, <4>3 DEF ThreadStep, Download, TryAgain
    <3>6. \A s \in threads' : s.step = "started" /\ output'[FileOf(s.use)] # "none" => FileOf(s.use) \in leftovers
      <4>1. \A s \in threads : FileOf(s.use) \in Files
        BY <2>4, <3>1 DEF Batched
      <4> QED BY <2>4, <3>2, <3>4, <3>5, <4>1 DEF Outputs
    <3>7. \A i \in Unconverted : IsFirst(i) /\ i >= next /\ output'[FileOf(i)] # "none" => FileOf(i) \in leftovers
      BY <2>4, <3>1, <3>3, <3>5 DEF Outputs
    <3>8. converted' \subseteq {FileOf(i) : i \in Unconverted}
      BY <3>1, <3>5 DEF Outputs, g
    <3>9. \A f \in converted' : output'[f] = "whole" \/ (output'[f] = "partial" /\ f \in leftovers)
      <4>1. SUFFICES ASSUME NEW f \in converted'
                     PROVE  output'[f] = "whole" \/ (output'[f] = "partial" /\ f \in leftovers)
        OBVIOUS
      <4>2. f \in Files
        BY <3>1, <3>8
      <4>3. CASE f # g
        <5>1. f \in converted /\ output'[f] = output[f]
          BY <3>5, <4>2, <4>3
        <5> QED BY <2>4, <5>1 DEF Outputs, Half
      <4>4. CASE f = g
        <5>1. t.step = "started" /\ output[g] # "none" => g \in leftovers
          BY <2>4 DEF Outputs, g
        <5>2. output[g] = "partial" \/ output[g] = "whole" \/ output[g] = "none"
          BY <3>1
        <5>3. g \in converted => output[g] = "whole" \/ (output[g] = "partial" /\ g \in leftovers)
          BY <2>4 DEF Outputs, Half
        <5> QED BY <3>5, <4>4, <5>1, <5>2, <5>3
      <4> QED BY <4>3, <4>4
    <3> QED BY <2>1, <2>2, <2>4, <3>6, <3>7, <3>8, <3>9 DEF Outputs, Unscanned, Scanning, Copying
  <2> QED BY <2>1, <2>3, <2>4
<1>8. CASE UNCHANGED vars
  <2>1. /\ UNCHANGED <<project, pc, next, leftovers, output, converted, threads>> /\ uses' = uses
        /\ Files' = Files /\ Unconverted' = Unconverted
        /\ \A i : FileOf(i)' = FileOf(i) /\ IsFirst(i)' = IsFirst(i)
    BY <1>8, ProjectStays DEF vars, dir, work
  <2>2. \A f : Half(f)' = Half(f)
    BY <2>1 DEF Half, FileOf
  <2> QED BY <2>1, <2>2 DEF Outputs
<1> QED BY <1>1, <1>3, <1>4, <1>5, <1>6, <1>7, <1>8, NextIs

-------------------------------------------------------------------------------
(* What is shipped *)

\* A use without a text on the file leaves what becomes of it.
LEMMA ContentStays ==
  ASSUME NEW i, NEW n \in Nat \ {0}, ~(FileOf(n) = FileOf(i) /\ uses[n].text)
  PROVE  Content(i, n) = Content(i, n - 1)
<1>1. 1..n = 1..(n - 1) \union {n}
  OBVIOUS
<1>2. IsRewritten(i, n) <=> IsRewritten(i, n - 1)
  BY <1>1 DEF IsRewritten
<1> QED BY <1>2 DEF Content

\* The steps that write a media file change that of the use they are at.
LEMMA WritesOne ==
  ASSUME Typed, next \in Uses, BeginWrite \/ EndWrite \/ UNCHANGED media
  PROVE  /\ \A f \in Files : f # FileOf(next) => media'[f] = media[f]
         /\ EndWrite => media'[FileOf(next)] = "rewritten"
         /\ BeginWrite => media'[FileOf(next)] \in {"absent", "partial"}
<1>1. FileOf(next) \in Files /\ media \in [Files -> Contents]
  BY DEF Files, Typed, TypeOK
<1> QED BY <1>1 DEF BeginWrite, EndWrite

\* The scan.
LEMMA ScanKeeps ==
  ASSUME Typed, Writing, Scanned, GoesOn \/ Raise \/ Interrupt, pc' \in Scanning
  PROVE  Scanned'
<1>1. Moves /\ project' = project
  BY MainMoves
<1>2. Uses' = Uses /\ uses' = uses /\ Files' = Files /\ \A i : FileOf(i)' = FileOf(i)
  BY <1>1, ProjectStays
<1>3. /\ \A i \in Uses : FileOf(i) \in Files /\ i \in Nat \ {0}
      /\ \A i, j \in Uses : FileOf(i) = FileOf(j) => uses[i].kind = uses[j].kind
      /\ next \in Nat \ {0}
  BY UsesAreKnown DEF Typed, TypeOK
<1>4. pc \in {"convert"} \union Scanning
  BY <1>1 DEF Moves, Scanning
<1>5. FileOf(next)' = uses[next'].file
  BY <1>2 DEF FileOf
<1>6. SUFFICES /\ \A i \in Uses : \/ Half(FileOf(i))'
                                  \/ media'[FileOf(i)] = "whole"
                                  \/ media'[FileOf(i)] = "rewritten" /\ uses[i].kind = "png"
               /\ \A i \in Uses : i < next' /\ uses[i].kind = "png" =>
                    Half(FileOf(i))' \/ media'[FileOf(i)] = "rewritten"
  <2>1. \A i : Half(FileOf(i))' <=> (pc' \in {"translate", "resizing", "draw"} /\ FileOf(i) = FileOf(next)')
    BY <1>2 DEF Half
  <2> QED BY <1>2, <1>6, <2>1 DEF Scanned, Scanning, Copying, Half
<1>7. CASE pc = "convert"
  <2>1. media' = media /\ next' = 1 /\ pc' = "scan"
    BY <1>1, <1>7, WhoMoves DEF ConvertProject, dir, Goto, Scanning
  <2> QED BY <1>3, <1>7, <2>1 DEF Scanned, Scanning, Half
<1>8. CASE pc = "scan" /\ pc' = "scan"
  <2>1. media' = media /\ next' = next + 1 /\ next \in Uses /\ ~Translates(next)
    BY <1>8, UsesAreKnown, WhoMoves DEF ScanUse, dir, Uses, Typed, TypeOK
  <2>2. uses[next].kind = "png" => media[FileOf(next)] = "rewritten"
    <3>1. SUFFICES ASSUME uses[next].kind = "png" PROVE media[FileOf(next)] = "rewritten"
      OBVIOUS
    <3>2. PICK j \in 1..(next - 1) : FileOf(j) = FileOf(next)
      BY <2>1, <3>1 DEF Translates, IsFirst
    <3>3. j \in Uses /\ j < next
      BY <1>3, <2>1, <3>2, UsesAreKnown DEF Uses, Typed
    <3> QED BY <1>3, <1>8, <2>1, <3>1, <3>2, <3>3 DEF Scanned, Scanning, Half
  <2>3. ASSUME NEW i \in Uses, i < next', uses[i].kind = "png" PROVE media'[FileOf(i)] = "rewritten"
    <3>1. i < next \/ i = next
      BY <1>3, <2>1, <2>3
    <3>2. i < next => media[FileOf(i)] = "rewritten"
      BY <1>8, <2>3 DEF Scanned, Scanning, Half
    <3> QED BY <2>1, <2>2, <2>3, <3>1, <3>2
  <2>4. \A i \in Uses : media'[FileOf(i)] = "whole" \/ (media'[FileOf(i)] = "rewritten" /\ uses[i].kind = "png")
    BY <1>8, <2>1 DEF Scanned, Scanning, Half
  <2> QED BY <2>3, <2>4
<1>9. CASE pc' \in {"translate", "resizing"}
  <2>1. BeginWrite /\ next' = next /\ next \in Uses /\ pc \in {"scan", "resize"}
    <3>1. CASE pc' = "translate"
      BY <1>1, <3>1, UsesAreKnown, WhoMoves DEF Moves, BeginTranslation, work, Uses, Typed, TypeOK
    <3>2. CASE pc' = "resizing"
      BY <1>1, <3>2, WhoMoves DEF Moves, BeginResize, work, Writing
    <3> QED BY <1>9, <3>1, <3>2
  <2>2. \A f \in Files : f # FileOf(next) => media'[f] = media[f]
    BY <2>1, WritesOne
  <2>3. FileOf(next)' = FileOf(next)
    BY <1>5, <2>1 DEF FileOf
  <2>4. \A i \in Uses : FileOf(i) = FileOf(next) => Half(FileOf(i))'
    BY <1>2, <1>9, <2>3 DEF Half
  <2>5. \A i \in Uses : /\ \/ media[FileOf(i)] = "whole"
                           \/ media[FileOf(i)] = "rewritten" /\ uses[i].kind = "png"
                        /\ i < next /\ uses[i].kind = "png" => media[FileOf(i)] = "rewritten"
    BY <2>1 DEF Scanned, Scanning, Half
  <2> QED BY <1>3, <2>1, <2>2, <2>4, <2>5
<1>10. CASE pc \in {"translate", "resizing"}
  <2>1. EndWrite /\ next' \in {next, next + 1} /\ next \in Uses /\ Translates(next)
    BY <1>10, WhoMoves DEF EndTranslation, EndResize, Scanning, Writing
  <2>2. /\ \A f \in Files : f # FileOf(next) => media'[f] = media[f]
        /\ media'[FileOf(next)] = "rewritten"
    BY <2>1, WritesOne
  <2>3. ASSUME NEW i \in Uses, FileOf(i) = FileOf(next)
        PROVE  media'[FileOf(i)] = "rewritten" /\ uses[i].kind = "png"
    BY <1>3, <2>1, <2>2, <2>3 DEF Translates
  <2>4. ASSUME NEW i \in Uses, FileOf(i) # FileOf(next)
        PROVE  /\ \/ media'[FileOf(i)] = "whole"
                  \/ media'[FileOf(i)] = "rewritten" /\ uses[i].kind = "png"
               /\ i < next' /\ uses[i].kind = "png" => media'[FileOf(i)] = "rewritten"
    <3>1. media'[FileOf(i)] = media[FileOf(i)] /\ ~Half(FileOf(i))
      BY <1>3, <2>2, <2>4 DEF Half
    <3>2. i < next' => i < next
      <4>1. i # next
        BY <2>4
      <4> QED BY <1>3, <2>1, <4>1
    <3> QED BY <1>10, <3>1, <3>2 DEF Scanned, Scanning
  <2> QED BY <2>3, <2>4
<1> QED BY <1>1, <1>4, <1>7, <1>8, <1>9, <1>10 DEF Moves, Scanning

\* The copies.
LEMMA CopyKeeps ==
  ASSUME Typed, Writing, Outputs, Scanned, GoesOn \/ Raise \/ Interrupt, pc' \in Copying
  PROVE  Scanned'
<1>1. Moves /\ project' = project
  BY MainMoves
<1>2. Uses' = Uses /\ uses' = uses /\ Unconverted' = Unconverted /\ \A i : FileOf(i)' = FileOf(i)
  BY <1>1, ProjectStays
<1>3. /\ \A i \in Uses : FileOf(i) \in Files /\ i \in Nat \ {0}
      /\ \A i, j \in Uses : FileOf(i) = FileOf(j) => uses[i].kind = uses[j].kind
      /\ next \in Nat \ {0}
  BY UsesAreKnown DEF Typed, TypeOK
<1>4. pc \in Copying
  BY <1>1 DEF Moves, Copying
<1>5. FileOf(next)' = uses[next'].file /\ \A i : Content(i, next - 1)' = Content(i, next' - 1)
  BY <1>2 DEF FileOf, Content, IsRewritten
<1>6. SUFFICES ASSUME NEW i \in Uses \ Unconverted
               PROVE  Half(FileOf(i))' \/ media'[FileOf(i)] = Content(i, next' - 1)
  <2>1. \A i : Half(FileOf(i))' <=> (pc' \in {"translate", "resizing", "draw"} /\ FileOf(i) = FileOf(next)')
    BY <1>2 DEF Half
  <2>2. pc' \notin {"convert", "media"} \union Scanning
    BY DEF Copying, Scanning
  <2> QED BY <1>2, <1>5, <1>6, <2>1, <2>2 DEF Scanned, Half
<1>7. Half(FileOf(i)) \/ media[FileOf(i)] = Content(i, next - 1)
  BY <1>4, <1>6 DEF Scanned
<1>8. next <= Len(uses) => next \in Uses
  BY <1>3 DEF Typed, TypeOK, Uses
<1>9. CASE pc = "copy" /\ pc' = "copy"
  <2>1. media' = media /\ next' = next + 1 /\ ~uses[next].text
    BY <1>9, WhoMoves DEF CopyUse, Pack, dir
  <2>2. Content(i, next) = Content(i, next - 1)
    BY <1>3, <2>1, ContentStays
  <2>3. next' - 1 = next
    BY <1>3, <2>1
  <2> QED BY <1>7, <1>9, <2>1, <2>2, <2>3 DEF Half
<1>10. CASE pc' = "draw"
  <2>1. (BeginWrite \/ UNCHANGED media) /\ next' = next /\ next \in Uses /\ pc = "copy"
    BY <1>1, <1>8, <1>10, WhoMoves DEF Moves, BeginDrawing, work
  <2>2. \A f \in Files : f # FileOf(next) => media'[f] = media[f]
    BY <2>1, WritesOne
  <2>3. FileOf(next)' = FileOf(next)
    BY <1>5, <2>1 DEF FileOf
  <2>4. FileOf(i) = FileOf(next) => Half(FileOf(i))'
    BY <1>2, <1>10, <2>3 DEF Half
  <2> QED BY <1>3, <1>6, <1>7, <2>1, <2>2, <2>4 DEF Half
<1>11. CASE pc = "draw" /\ pc' = "copy"
  <2>1. EndDrawing /\ next' = next + 1 /\ next \in Uses /\ uses[next].text
    BY <1>11, WhoMoves DEF EndDrawing, Pack, Writing
  <2>2. EndWrite \/ UNCHANGED media
    BY <2>1 DEF EndDrawing
  <2>3. \A f \in Files : f # FileOf(next) => media'[f] = media[f]
    BY <2>1, <2>2, WritesOne
  <2>4. next' - 1 = next
    BY <1>3, <2>1
  <2>5. CASE FileOf(i) = FileOf(next)
    <3>1. FileOf(next) \notin converted
      <4>1. SUFFICES ASSUME FileOf(next) \in converted PROVE FALSE
        OBVIOUS
      <4>2. PICK u \in Unconverted : FileOf(u) = FileOf(i)
        BY <2>5, <4>1 DEF Outputs
      <4> QED BY <1>3, <1>6, <4>2 DEF Unconverted
    <3>2. media'[FileOf(next)] = "rewritten"
      BY <2>1, <3>1, WritesOne DEF EndDrawing
    <3>3. IsRewritten(i, next)
      <4>1. next \in 1..next /\ uses[i].kind \notin {"svg", "wav"}
        BY <1>3, <1>6 DEF Unconverted
      <4> QED BY <2>1, <2>5, <4>1 DEF IsRewritten
    <3> QED BY <2>4, <2>5, <3>2, <3>3 DEF Content
  <2>6. CASE FileOf(i) # FileOf(next)
    <3>1. Content(i, next) = Content(i, next - 1)
      BY <1>3, <2>6, ContentStays
    <3> QED BY <1>3, <1>6, <1>7, <2>3, <2>4, <2>6, <3>1 DEF Half
  <2> QED BY <2>5, <2>6
<1> QED BY <1>1, <1>4, <1>9, <1>10, <1>11 DEF Moves, Copying

LEMMA ScannedStep ==
  ASSUME Typed, Writing, Outputs, Scanned, [Next]_vars
  PROVE  Scanned'
<1>1. ASSUME pc' \notin {"convert", "media"} \union Scanning \union Copying
      PROVE  Scanned'
  BY <1>1 DEF Scanned
<1>2. CASE Start
  BY <1>1, <1>2 DEF Start, Scanning, Copying
<1>3. CASE CloseArchive
  BY <1>1, <1>3 DEF CloseArchive, End, Scanning, Copying
<1>4. CASE StartDownloads
  BY <1>1, <1>4, DownloadsStart DEF Scanning, Copying
<1>5. CASE StartConversions
  <2>1. pc = "media" /\ project' = project /\ media' = media /\ (pc' = "media" \/ (pc' = "copy" /\ next' = 1))
    BY <1>5, ConversionsStart DEF dir
  <2>2. Uses' = Uses /\ Unconverted' = Unconverted /\ (\A i : FileOf(i)' = FileOf(i))
        /\ \A i, n : Content(i, n)' = Content(i, n)
    BY <2>1, ProjectStays
  <2>3. pc' = "copy" => \A i : Content(i, next - 1)' = Content(i, 0)
    BY <2>1, ProjectStays DEF Content, IsRewritten, FileOf
  <2>4. \A i \in Uses \ Unconverted : media[FileOf(i)] = Content(i, 0)
    BY <2>1 DEF Scanned
  <2> QED BY <2>1, <2>2, <2>3, <2>4 DEF Scanned, Scanning, Copying
<1>6. ASSUME UNCHANGED <<project, media, pc>>, pc \in {"resources", "media"} PROVE Scanned'
  <2>1. Uses' = Uses /\ Unconverted' = Unconverted /\ (\A i : FileOf(i)' = FileOf(i))
        /\ \A i, n : Content(i, n)' = Content(i, n)
    BY <1>6, ProjectStays
  <2> QED BY <1>6, <2>1 DEF Scanned, Scanning, Copying
<1>7. ASSUME NEW t \in threads, ThreadStep(t)
      PROVE  Scanned'
  <2>1. UNCHANGED <<project, pc>> /\ pc \in {"resources", "media"}
    BY <1>7, ThreadMoves
  <2>2. pc = "media" => UNCHANGED media
    BY <1>7 DEF ThreadStep, Download, TryAgain, BeginConversion, EndConversion, ConversionRaises, dir
  <2>3. pc = "resources" => Scanned'
    BY <1>1, <2>1 DEF Scanning, Copying
  <2> QED BY <1>6, <2>1, <2>2, <2>3
<1>8. CASE UNCHANGED vars
  <2>1. UNCHANGED <<project, media, pc, next>>
    BY <1>8 DEF vars, dir, work
  <2>2. Uses' = Uses /\ uses' = uses /\ Unconverted' = Unconverted /\ \A i : FileOf(i)' = FileOf(i)
    BY <2>1, ProjectStays
  <2>3. \A i : Content(i, 0)' = Content(i, 0) /\ Content(i, next - 1)' = Content(i, next - 1)
    BY <2>1, <2>2 DEF Content, IsRewritten, FileOf
  <2>4. \A f : Half(f)' <=> Half(f)
    BY <2>1, <2>2 DEF Half, FileOf
  <2> QED BY <2>1, <2>2, <2>3, <2>4 DEF Scanned, Half
<1>9. CASE GoesOn \/ Raise \/ Interrupt
  <2>1. Moves /\ project' = project
    BY <1>9, MainMoves
  <2>2. Uses' = Uses /\ uses' = uses /\ Files' = Files /\ Unconverted' = Unconverted /\ (\A i : FileOf(i)' = FileOf(i))
        /\ \A i, n : Content(i, n)' = Content(i, n)
    BY <2>1, ProjectStays
  <2>3. \A i \in Uses : FileOf(i) \in Files /\ i \in Nat \ {0}
    BY UsesAreKnown DEF Typed
  <2>4. CASE pc' = "convert"
    <3>1. pc = "verify" /\ Verify
      BY <1>9, <2>1, <2>4, WhoMoves DEF Moves
    <3>2. media' = media /\ \A f \in Files : media[f] = "whole"
      BY <2>4, <3>1 DEF Verify, Verified, Goto, End, dir
    <3> QED BY <2>2, <2>3, <2>4, <3>2 DEF Scanned, Scanning, Copying
  <2>5. CASE pc' = "media"
    <3>1. pc = "scan" /\ EndScan
      BY <1>9, <2>1, <2>5, WhoMoves DEF Moves
    <3>2. media' = media /\ \A i \in Uses : i < next
      <4>1. next > Len(uses) /\ media' = media
        BY <3>1 DEF EndScan, dir
      <4> QED BY <2>3, <4>1, UsesAreKnown DEF Uses, Typed, TypeOK
    <3>3. ASSUME NEW i \in Uses PROVE media[FileOf(i)] = Content(i, 0)
      <4>1. Content(i, 0) = IF uses[i].kind = "png" THEN "rewritten" ELSE "whole"
        BY DEF Content, IsRewritten
      <4> QED BY <3>1, <3>2, <4>1 DEF Scanned, Scanning, Half
    <3> QED BY <2>2, <2>5, <3>2, <3>3 DEF Scanned, Scanning, Copying
  <2> QED BY <1>1, <1>9, <2>4, <2>5, ScanKeeps, CopyKeeps
<1> QED BY <1>2, <1>3, <1>4, <1>5, <1>7, <1>8, <1>9, NextIs

LEMMA RunsStep ==
  ASSUME Typed, Runs, [Next]_vars
  PROVE  Runs'
<1>1. runs \in Nat
  BY LimitsAssumption DEF Typed, TypeOK
<1>2. CASE Start
  <2>1. runs' = runs + 1 /\ exit' = "none" /\ project' = project
        /\ leftovers' = {f \in Files : output'[f] # "none"}
        /\ (output' = output \/ output' = [f \in Files |-> "none"])
    BY <1>2 DEF Start, dir
  <2>2. leftovers' # {} => runs # 0
    BY <2>1 DEF Runs
  <2> QED BY <1>1, <2>1, <2>2 DEF Runs
<1>3. ASSUME pc # "idle", runs' = runs, leftovers' = leftovers, pc' # "idle" => exit' = exit
      PROVE  Runs'
  BY <1>1, <1>3 DEF Runs
<1>4. CASE GoesOn \/ Raise \/ Interrupt
  BY <1>3, <1>4, MainMoves DEF Moves
<1>5. CASE CloseArchive
  BY <1>3, <1>5 DEF CloseArchive, End
<1>6. CASE StartDownloads \/ StartConversions
  BY <1>3, <1>6, DownloadsStart, ConversionsStart
<1>7. ASSUME NEW t \in threads, ThreadStep(t)
      PROVE  Runs'
  BY <1>3, <1>7, ThreadMoves
<1>8. CASE UNCHANGED vars
  <2>1. UNCHANGED <<pc, exit, runs, leftovers, output>> /\ Files' = Files
    BY <1>8, ProjectStays DEF vars, dir
  <2> QED BY <2>1 DEF Runs
<1> QED BY <1>2, <1>4, <1>5, <1>6, <1>7, <1>8, NextIs

\* What is copied is good.
LEMMA CopiedIsGood ==
  ASSUME Typed, Dealt, Outputs, Scanned, Runs, pc = "copy", next \in Uses, ~uses[next].text
  PROVE  Worth(Copied(next), next)
<1> DEFINE f == FileOf(next)
<1>1. CASE f \in converted
  <2>1. PICK j \in Unconverted : FileOf(j) = f
    BY <1>1 DEF Outputs
  <2>2. Content(next, next) = "whole"
    <3>1. uses[j].kind = uses[next].kind
      BY <2>1, UsesAreKnown DEF Typed, Unconverted
    <3> QED BY <3>1 DEF Unconverted, Content, IsRewritten
  <2>3. output[f] = "whole" \/ (output[f] = "partial" /\ f \in leftovers /\ runs > 1)
    BY <1>1 DEF Outputs, Runs, Copying, Half
  <2>4. Copied(next) = output[f]
    BY <1>1 DEF Copied
  <2> QED BY <2>2, <2>3, <2>4 DEF Worth
<1>2. CASE f \notin converted /\ uses[next].kind \in {"svg", "wav"}
  <2>1. f \in raised
    BY <1>2 DEF Dealt, Unconverted, Copying
  <2>2. Copied(next) = "unconverted"
    BY <1>2 DEF Copied
  <2> QED BY <2>1, <2>2 DEF Worth
<1>3. CASE f \notin converted /\ uses[next].kind \notin {"svg", "wav"}
  <2>1. Copied(next) = media[f]
    BY <1>3 DEF Copied
  <2>2. media[f] = Content(next, next - 1)
    BY <1>3 DEF Scanned, Copying, Half, Unconverted
  <2>3. Content(next, next) = Content(next, next - 1)
    <3>1. next \in Nat \ {0}
      BY UsesAreKnown DEF Typed
    <3> QED BY <3>1, ContentStays
  <2>4. media[f] = "whole" \/ media[f] = "rewritten"
    BY <2>2 DEF Content
  <2> QED BY <2>1, <2>2, <2>3, <2>4 DEF Worth
<1> QED BY <1>1, <1>2, <1>3

\* What is drawn is good, too.
LEMMA DrawnIsGood ==
  ASSUME Typed, Outputs, Writing, pc = "draw"
  PROVE  /\ FileOf(next) \in converted => Worth("whole", next)
         /\ FileOf(next) \notin converted => Worth("rewritten", next)
<1>1. next \in Uses /\ uses[next].text /\ next \in Nat \ {0}
  BY UsesAreKnown DEF Writing, Typed
<1>2. ASSUME FileOf(next) \in converted PROVE Content(next, next) = "whole"
  <2>1. PICK j \in Unconverted : FileOf(j) = FileOf(next)
    BY <1>2 DEF Outputs
  <2>2. uses[j].kind = uses[next].kind
    BY <1>1, <2>1, UsesAreKnown DEF Typed, Unconverted
  <2> QED BY <2>2 DEF Unconverted, Content, IsRewritten
<1>3. ASSUME FileOf(next) \notin converted PROVE Content(next, next) = "rewritten"
  <2>1. uses[next].kind \notin {"svg", "wav"}
    <3>1. uses[next].kind # "svg"
      BY <1>3 DEF Writing
    <3>2. uses[next].kind \in {"png", "svg", "jpg", "gif"}
      BY <1>1, TextsAreOnPictures DEF Typed
    <3> QED BY <3>1, <3>2
  <2>2. next \in 1..next
    BY <1>1
  <2> QED BY <1>1, <2>1, <2>2 DEF Content, IsRewritten
<1> QED BY <1>2, <1>3 DEF Worth

\* What was good stays so in a run.
LEMMA GoodStays ==
  ASSUME UNCHANGED <<project, raised, leftovers, runs>>, NEW i, NEW c, package'[i] = c, Worth(c, i)
  PROVE  Good(i)'
<1>1. uses' = uses
  BY ProjectStays
<1> QED BY <1>1 DEF Good, Worth, Content, IsRewritten, FileOf

\* The package is filled by copies, the archive by the last two steps.
LEMMA PackageStays ==
  ASSUME GoesOn \/ Raise \/ Interrupt
  PROVE  /\ package' = package \/ pc \in Copying
         /\ archive' = archive \/ OpenArchive
<1>1. CASE NameStep \/ ScanStep
  BY <1>1 DEF NameStep, Load, Rename, EndRename, Rewrite, ScanStep, ScanUse, BeginTranslation, EndTranslation, BeginResize,
     EndResize, EndScan, work
<1>2. CASE CopyStep \/ RemoveStep
  BY <1>2 DEF CopyStep, CopyUse, BeginDrawing, EndDrawing, DrawingFails, EndCopy, RemoveStep, RemoveSource, EndRemove,
     Copying, work
<1> QED BY <1>1, <1>2 DEF GoesOn, DownloadCode, Details, Verify, ConvertProject, WriteCode, DownloadScreenshot,
       OpenArchive, Raise, Interrupt, work

\* The copies fill the package with what is good.
LEMMA CopiesAreGood ==
  ASSUME Typed, Dealt, Writing, Outputs, Scanned, Runs, Shipped, GoesOn \/ Raise \/ Interrupt, pc \in Copying,
         pc' # "idle"
  PROVE  \A i \in Uses : (i < next)' \/ pc' = "remove" => Good(i)'
<1>1. Moves /\ UNCHANGED <<project, raised, leftovers, runs>>
  BY MainMoves
<1>2. /\ next \in Nat \ {0} /\ \A i \in Uses : i \in Nat
      /\ next <= Len(uses) => next \in Uses
      /\ package \in [Uses -> Contents \union {"none", "unconverted"}]
  BY UsesAreKnown DEF Typed, TypeOK, Uses
<1>3. \A i \in Uses : i < next => Worth(package[i], i)
  BY DEF Shipped, Good
<1>4. ASSUME UNCHANGED <<package, next>> PROVE \A i \in Uses : i < next' => Good(i)'
  BY <1>1, <1>3, <1>4, GoodStays
<1>5. ASSUME NEW c, next \in Uses, Pack(c), Worth(c, next)
      PROVE  \A i \in Uses : i < next' => Good(i)'
  <2>1. package' = [package EXCEPT ![next] = c] /\ next' = next + 1
    BY <1>5 DEF Pack
  <2>2. SUFFICES ASSUME NEW i \in Uses, i < next' PROVE Good(i)'
    OBVIOUS
  <2>3. i < next \/ i = next
    BY <1>2, <2>1, <2>2
  <2>4. CASE i = next
    <3>1. package'[i] = c
      BY <1>2, <2>1, <2>4
    <3> QED BY <1>1, <1>5, <2>4, <3>1, GoodStays
  <2>5. CASE i # next
    <3>1. package'[i] = package[i]
      BY <1>2, <2>1, <2>5
    <3> QED BY <1>1, <1>3, <2>3, <2>5, <3>1, GoodStays
  <2> QED BY <2>4, <2>5
<1>6. CASE pc = "copy" /\ pc' = "copy"
  <2>1. next \in Uses /\ ~uses[next].text /\ Pack(Copied(next))
    BY <1>2, <1>6, WhoMoves DEF CopyUse
  <2>2. Worth(Copied(next), next)
    BY <1>6, <2>1, CopiedIsGood
  <2> QED BY <1>5, <1>6, <2>1, <2>2
<1>7. CASE pc = "copy" /\ pc' = "draw"
  BY <1>4, <1>7, WhoMoves DEF BeginDrawing, work
<1>8. CASE pc = "copy" /\ pc' = "remove"
  <2>1. EndCopy
    BY <1>8, WhoMoves
  <2>2. \A i \in Uses : i < next
    <3>1. next > Len(uses) /\ Len(uses) \in Nat
      BY <2>1, UsesAreKnown DEF EndCopy, Typed
    <3> QED BY <1>2, <3>1 DEF Uses
  <2> QED BY <1>4, <2>1, <2>2 DEF EndCopy, work
<1>9. CASE pc = "draw" /\ pc' = "copy"
  <2>1. EndDrawing /\ next \in Uses
    BY <1>9, WhoMoves DEF Writing
  <2>2. (Pack("whole") /\ Worth("whole", next)) \/ (Pack("rewritten") /\ Worth("rewritten", next))
    BY <1>9, <2>1, DrawnIsGood DEF EndDrawing
  <2> QED BY <1>5, <1>9, <2>1, <2>2
<1> QED BY <1>1, <1>6, <1>7, <1>8, <1>9 DEF Moves, Copying

LEMMA ShippedStep ==
  ASSUME Typed, Dealt, Writing, Outputs, Scanned, Runs, Shipped, [Next]_vars
  PROVE  Shipped'
<1>1. ASSUME pc' \notin Packing \union Copying, exit' # "success"
      PROVE  Shipped'
  BY <1>1 DEF Shipped, Packing
<1>2. ASSUME UNCHANGED <<project, package, raised, leftovers, runs>>, NEW i \in Uses, Good(i)
      PROVE  Good(i)'
  BY <1>2, GoodStays DEF Good
<1>3. pc # "idle" => exit = "none"
  BY DEF Runs
<1>4. CASE Start
  BY <1>1, <1>4 DEF Start, Packing, Copying
<1>5. CASE StartDownloads
  BY <1>1, <1>3, <1>5, DownloadsStart DEF Packing, Copying
<1>6. CASE StartConversions
  <2>1. pc = "media" /\ exit' = exit /\ project' = project /\ (pc' = "media" \/ (pc' = "copy" /\ next' = 1))
    BY <1>6, ConversionsStart
  <2>2. CASE pc' = "copy" /\ next' = 1
    <3>1. Uses' = Uses /\ \A i \in Uses : ~(i < 1)
      <4>1. \A i \in Uses : i \in Nat \ {0}
        BY UsesAreKnown DEF Typed
      <4> QED BY <2>1, <4>1, ProjectStays
    <3> QED BY <1>3, <2>1, <2>2, <3>1 DEF Shipped, Packing, Copying
  <2> QED BY <1>1, <1>3, <2>1, <2>2 DEF Packing, Copying
<1>7. ASSUME NEW t \in threads, ThreadStep(t)
      PROVE  Shipped'
  BY <1>1, <1>3, <1>7, ThreadMoves DEF Packing, Copying
<1>8. CASE CloseArchive
  <2>1. /\ pc = "pack" /\ pc' = "idle" /\ exit' = "success" /\ archive' = [archive EXCEPT !.whole = TRUE]
        /\ UNCHANGED <<project, package, raised, leftovers, runs>>
    BY <1>8 DEF CloseArchive, End, work
  <2>2. \A i \in Uses' : Good(i)'
    <3>1. Uses' = Uses
      BY <2>1, ProjectStays
    <3> QED BY <1>2, <2>1, <3>1 DEF Shipped, Packing
  <2>3. archive' = [run |-> runs', whole |-> TRUE]
    <3>1. archive = [run |-> runs, whole |-> FALSE]
      BY <2>1 DEF Shipped
    <3>2. archive' = [[run |-> runs, whole |-> FALSE] EXCEPT !.whole = TRUE] /\ runs' = runs
      BY <2>1, <3>1
    <3> QED BY <3>2
  <2> QED BY <2>1, <2>2, <2>3 DEF Shipped, Copying
<1>9. CASE UNCHANGED vars
  <2>1. UNCHANGED <<project, package, raised, leftovers, runs, pc, exit, archive, next>>
    BY <1>9 DEF vars, work
  <2>2. Uses' = Uses
    BY <2>1, ProjectStays
  <2> QED BY <1>2, <2>1, <2>2 DEF Shipped, Packing, Copying
<1>10. CASE GoesOn \/ Raise \/ Interrupt
  <2>1. Moves /\ UNCHANGED <<project, runs, leftovers, raised>> /\ exit' # "success"
    BY <1>3, <1>10, MainMoves DEF Moves
  <2>2. Uses' = Uses
    BY <2>1, ProjectStays
  <2>3. CASE pc \in Copying /\ pc' # "idle"
    <3>1. pc' \in Copying \union {"remove"}
      BY <2>1, <2>3 DEF Moves, Copying
    <3>2. \A i \in Uses : (i < next)' \/ pc' = "remove" => Good(i)'
      BY <1>10, <2>3, CopiesAreGood
    <3>3. \A i \in Uses' : i < next' => Good(i)'
      BY <2>2, <3>2
    <3>4. pc' = "remove" => \A i \in Uses' : Good(i)'
      BY <2>2, <3>2
    <3>5. pc' \in Packing => pc' = "remove"
      BY <3>1 DEF Packing, Copying
    <3> QED BY <2>1, <3>1, <3>3, <3>4, <3>5 DEF Shipped, Copying
  <2>4. CASE pc \in Packing /\ pc' # "idle"
    <3>1. pc' \in Packing \ {"remove"} \/ (pc = "remove" /\ pc' = "remove")
      BY <2>1, <2>4 DEF Moves, Packing
    <3>2. package' = package
      BY <1>10, <2>4, PackageStays DEF Packing, Copying
    <3>3. \A i \in Uses' : Good(i)'
      BY <1>2, <2>1, <2>2, <2>4, <3>2 DEF Shipped
    <3>4. pc' = "pack" => archive' = [run |-> runs', whole |-> FALSE]
      <4>1. pc' = "pack" => OpenArchive
        BY <1>10, <2>1, WhoMoves DEF Moves
      <4> QED BY <2>1, <4>1 DEF OpenArchive
    <3>5. pc' \notin Copying
      BY <3>1 DEF Packing, Copying
    <3> QED BY <2>1, <3>3, <3>4, <3>5 DEF Shipped
  <2>5. CASE pc' = "idle" \/ pc \notin Copying \union Packing
    <3>1. pc' \notin Packing \union Copying
      BY <2>1, <2>5 DEF Moves, Packing, Copying
    <3> QED BY <1>1, <2>1, <3>1
  <2> QED BY <2>3, <2>4, <2>5
<1> QED BY <1>4, <1>5, <1>6, <1>7, <1>8, <1>9, <1>10, NextIs

-------------------------------------------------------------------------------
(* What becomes of a folder *)

\* Only three steps touch the code.
LEMMA CodeStays ==
  ASSUME GoesOn \/ Raise \/ Interrupt
  PROVE  code' = code \/ DownloadCode \/ EndRename \/ Rewrite
<1>1. CASE NameStep \/ ScanStep
  BY <1>1 DEF NameStep, Load, Rename, ScanStep, ScanUse, BeginTranslation, EndTranslation, BeginResize, EndResize, EndScan,
     dir
<1>2. CASE CopyStep \/ RemoveStep
  BY <1>2 DEF CopyStep, CopyUse, BeginDrawing, EndDrawing, DrawingFails, EndCopy, RemoveStep, RemoveSource, EndRemove, dir
<1> QED BY <1>1, <1>2 DEF GoesOn, Details, Verify, ConvertProject, WriteCode, DownloadScreenshot,
       OpenArchive, Raise, Interrupt, dir

\* A step that ends a run on the way leaves the media files.
LEMMA MediaStay ==
  ASSUME GoesOn \/ Raise \/ Interrupt,
         \/ pc' = "idle"
         \/ pc \notin {"load", "rename", "remove"} \union Scanning \union Copying
         \/ pc = "remove" /\ pc' = "xml"
  PROVE  UNCHANGED media
<1>1. CASE NameStep \/ ScanStep
  BY <1>1 DEF NameStep, Load, Rename, EndRename, Rewrite, ScanStep, ScanUse, BeginTranslation, EndTranslation, BeginResize,
     EndResize, EndScan, Scanning, Goto, End, dir
<1>2. CASE CopyStep \/ RemoveStep
  BY <1>2 DEF CopyStep, CopyUse, BeginDrawing, EndDrawing, DrawingFails, EndCopy, RemoveStep, RemoveSource, EndRemove,
     Copying, Goto, End, dir
<1> QED BY <1>1, <1>2 DEF GoesOn, DownloadCode, Details, Verify, ConvertProject, WriteCode, DownloadScreenshot,
       OpenArchive, Raise, Interrupt, dir

\* What is kept of a file stays so while its content does, and it is half done still if it was.
LEMMA KeptStays ==
  ASSUME project' = project, raised \subseteq raised', NEW f, Kept(f), media'[f] = media[f],
         HalfDone(f) => HalfDone(f)'
  PROVE  Kept(f)'
<1>1. Misnamed(f)' = Misnamed(f) /\ Changed(f)' = Changed(f)
  BY ProjectStays
<1> QED BY <1>1 DEF Kept

\* Where a run is when a file is half done.
LEMMA WhileHalfDone ==
  ASSUME Runs, pc # "idle", NEW f, HalfDone(f)
  PROVE  \/ pc = "rename" /\ media[f] = "renamed"
         \/ f = FileOf(next) /\ (pc \in {"translate", "resizing"} \/ (pc = "draw" /\ f \notin converted))
         \/ pc \in {"load", "rename", "parse", "resources", "details", "verify"} /\ runs > 1
BY DEF Runs, HalfDone

\* The names of the files and the code of Scratch 3.
LEMMA NamesKeep ==
  ASSUME Typed, Runs, Folder, project.source = "directory", NameStep, NEW f \in Files
  PROVE  Kept(f)' /\ Named(f)'
<1>1. UNCHANGED <<project, runs, leftovers, raised>> /\ Kept(f) /\ Named(f)
  BY MainMoves DEF GoesOn, Folder
<1>2. /\ Misnamed(f)' = Misnamed(f) /\ Changed(f)' = Changed(f)
      /\ media \in [Files -> Contents] /\ project.media[f] \notin {"renamed", "rewritten"}
  BY <1>1, ProjectStays, UsesAreKnown DEF Typed, TypeOK
<1>3. pc # "idle" => exit = "none"
  BY DEF Runs
<1>4. code = "s3" => project.code = "s3"
  BY DEF Folder
<1>5. CASE Load
  <2>1. CASE pc' = "rename"
    <3>1. /\ pc = "load" /\ code = "s3" /\ code' = code
          /\ media'[f] = IF media[f] = "renamed" THEN "absent" ELSE media[f]
      BY <1>5, <2>1 DEF Load, Goto, End
    <3>2. Named(f)'
      BY <1>1, <1>2, <3>1 DEF Named
    <3>3. HalfDone(f) => runs > 1
      BY <3>1, WhileHalfDone
    <3>4. HalfDone(f) => HalfDone(f)'
      BY <1>1, <2>1, <3>1, <3>3 DEF HalfDone
    <3>5. CASE media'[f] = media[f]
      BY <1>1, <3>2, <3>4, <3>5, KeptStays
    <3>6. CASE media[f] = "renamed"
      <4>1. HalfDone(f)
        BY <1>1, <1>2, <3>6 DEF Kept
      <4>2. Misnamed(f)
        BY <1>1, <1>2, <3>1, <3>6 DEF Named
      <4> QED BY <1>2, <3>2, <3>4, <4>1, <4>2 DEF Kept
    <3> QED BY <3>1, <3>5, <3>6
  <2>2. CASE pc' # "rename"
    <3>1. pc = "load" /\ UNCHANGED <<code, media>> /\ (pc' = "resources" \/ exit' = "failure")
      BY <1>5, <2>2 DEF Load, Goto, End
    <3>2. HalfDone(f) => runs > 1
      BY <3>1, WhileHalfDone
    <3>3. HalfDone(f) => HalfDone(f)'
      BY <1>1, <3>1, <3>2 DEF HalfDone
    <3> QED BY <1>1, <1>2, <3>1, <3>3, KeptStays DEF Named
  <2> QED BY <2>1, <2>2
<1>6. CASE \E g \in Files : Rename(g)
  <2>1. PICK g \in Files : Rename(g)
    BY <1>6
  <2>2. /\ pc = "rename" /\ pc' = "rename" /\ UNCHANGED <<code, exit>> /\ code = "s3"
        /\ media' = [media EXCEPT ![g] = "renamed"] /\ media[g] \in {"wrong", "partial"}
    BY <2>1 DEF Rename, Goto, Folder
  <2>3. CASE f = g
    <3>1. media'[f] = "renamed" /\ HalfDone(f)'
      BY <1>2, <2>2, <2>3 DEF HalfDone
    <3>2. Misnamed(f)
      BY <1>1, <1>2, <1>4, <2>2, <2>3 DEF Named, Misnamed
    <3> QED BY <1>2, <2>2, <3>1, <3>2 DEF Kept, Named
  <2>4. CASE f # g
    <3>1. media'[f] = media[f]
      BY <1>2, <2>2, <2>4
    <3>2. HalfDone(f) => HalfDone(f)'
      BY <1>1, <2>2, <3>1, WhileHalfDone DEF HalfDone
    <3> QED BY <1>1, <1>2, <2>2, <3>1, <3>2, KeptStays DEF Named
  <2> QED BY <2>3, <2>4
<1>7. CASE EndRename
  <2>1. /\ pc = "rename" /\ pc' = "parse" /\ code = "s3" /\ code' = "doubled"
        /\ media'[f] = IF media[f] = "renamed" THEN "whole" ELSE media[f]
    BY <1>7 DEF EndRename, Goto, Folder
  <2>2. Named(f)'
    BY <1>2, <2>1 DEF Named
  <2>3. CASE media[f] = "renamed"
    BY <1>1, <1>2, <2>1, <2>2, <2>3 DEF Named, Kept
  <2>4. CASE media[f] # "renamed"
    <3>1. HalfDone(f) => runs > 1
      BY <2>1, <2>4, WhileHalfDone
    <3>2. HalfDone(f) => HalfDone(f)'
      BY <1>1, <2>1, <2>4, <3>1 DEF HalfDone
    <3> QED BY <1>1, <2>1, <2>2, <2>4, <3>2, KeptStays
  <2> QED BY <2>3, <2>4
<1>8. CASE Rewrite
  <2>1. pc = "parse" /\ pc' = "resources" /\ code = "doubled" /\ code' = "s2" /\ UNCHANGED media
    BY <1>8 DEF Rewrite, Goto, Folder
  <2>2. HalfDone(f) => runs > 1
    BY <2>1, WhileHalfDone
  <2>3. HalfDone(f) => HalfDone(f)'
    BY <1>1, <2>1, <2>2 DEF HalfDone
  <2> QED BY <1>1, <1>2, <2>1, <2>3, KeptStays DEF Named
<1> QED BY <1>5, <1>6, <1>7, <1>8 DEF NameStep

\* What the scan and the copies write over itself is a picture that may be changed.
LEMMA WritesKeep ==
  ASSUME Typed, Writing, Runs, Folder, project.source = "directory", ScanStep \/ CopyStep, pc' # "idle", NEW f \in Files
  PROVE  Kept(f)' /\ Named(f)'
<1>1. UNCHANGED <<project, runs, leftovers, raised, converted, exit>> /\ Kept(f) /\ Named(f)
  BY MainMoves DEF GoesOn, Folder, Moves
<1>2. /\ Misnamed(f)' = Misnamed(f) /\ Changed(f)' = Changed(f) /\ uses' = uses
      /\ next <= Len(uses) => next \in Uses
      /\ next \in Nat \ {0} /\ Len(uses) \in Nat
  BY <1>1, ProjectStays, UsesAreKnown DEF Typed, TypeOK, Uses
<1>3. pc \in Scanning \union Copying /\ UNCHANGED code /\ code = "s2" /\ media[f] # "renamed"
  <2>1. pc \in Scanning \union Copying /\ UNCHANGED code
    BY DEF ScanStep, ScanUse, BeginTranslation, EndTranslation, BeginResize, EndResize, EndScan, CopyStep, CopyUse,
           BeginDrawing, EndDrawing, DrawingFails, EndCopy, Scanning, Copying, dir
  <2>2. code = "s2"
    BY <2>1 DEF Folder, Coded
  <2> QED BY <1>1, <2>1, <2>2 DEF Named
<1>4. ASSUME media'[f] = media[f], ~HalfDone(f) PROVE Kept(f)' /\ Named(f)'
  BY <1>1, <1>2, <1>3, <1>4, KeptStays DEF Named
<1>5. ASSUME f # FileOf(next), BeginWrite \/ EndWrite \/ UNCHANGED media, next \in Uses PROVE Kept(f)' /\ Named(f)'
  <2>1. media'[f] = media[f]
    BY <1>5, WritesOne
  <2>2. ~HalfDone(f)
    BY <1>3, <1>5, WhileHalfDone DEF Scanning, Copying
  <2> QED BY <1>4, <2>1, <2>2
<1>6. ASSUME UNCHANGED media, pc \notin {"translate", "resizing"}, pc = "draw" => FileOf(next) \in converted
      PROVE  Kept(f)' /\ Named(f)'
  <2>1. ~HalfDone(f)
    BY <1>3, <1>6, WhileHalfDone DEF Scanning, Copying
  <2> QED BY <1>4, <1>6, <2>1
<1>7. ASSUME BeginWrite, f = FileOf(next), Changed(f), next' = next, next \in Uses,
             pc' \in {"translate", "resizing"} \/ (pc' = "draw" /\ f \notin converted)
      PROVE  Kept(f)' /\ Named(f)'
  <2>1. media'[f] \in {"absent", "partial"}
    BY <1>7, WritesOne
  <2>2. FileOf(next)' = f
    BY <1>2, <1>7 DEF FileOf
  <2>3. HalfDone(f)'
    BY <1>1, <1>7, <2>1, <2>2 DEF HalfDone
  <2> QED BY <1>2, <1>3, <1>7, <2>1, <2>3 DEF Kept, Named
<1>8. ASSUME EndWrite, f = FileOf(next), Changed(f), next \in Uses PROVE Kept(f)' /\ Named(f)'
  <2>1. media'[f] = "rewritten"
    BY <1>8, WritesOne
  <2> QED BY <1>2, <1>3, <1>8, <2>1 DEF Kept, Named
<1>9. ASSUME next \in Uses, f = FileOf(next),
             uses[next].kind = "png" \/ (uses[next].text /\ uses[next].kind # "svg")
      PROVE  Changed(f)
  <2>1. next \in 1..Len(uses)
    BY <1>9 DEF Uses
  <2>2. uses[next].text => uses[next].kind # "wav"
    BY <1>9, TextsAreOnPictures DEF Typed
  <2>3. IsRewritten(next, Len(uses))
    BY <1>9, <2>1, <2>2 DEF IsRewritten
  <2> QED BY <1>9, <2>3 DEF Changed
<1>10. CASE ScanUse \/ EndScan
  BY <1>6, <1>10 DEF ScanUse, EndScan, dir
<1>11. CASE BeginTranslation \/ BeginResize
  <2>1. /\ BeginWrite /\ next' = next /\ next \in Uses /\ uses[next].kind = "png"
        /\ pc' \in {"translate", "resizing"}
    BY <1>2, <1>11 DEF BeginTranslation, BeginResize, Translates, Writing, Goto, work
  <2> QED BY <1>5, <1>7, <1>9, <2>1
<1>12. CASE EndTranslation \/ EndResize
  <2>1. EndWrite /\ next \in Uses /\ uses[next].kind = "png"
    BY <1>12 DEF EndTranslation, EndResize, Translates, Writing
  <2> QED BY <1>5, <1>8, <1>9, <2>1
<1>13. CASE CopyUse \/ EndCopy
  BY <1>6, <1>13 DEF CopyUse, EndCopy, dir
<1>14. CASE BeginDrawing
  <2>1. /\ next' = next /\ next \in Uses /\ uses[next].text /\ pc = "copy" /\ pc' = "draw"
        /\ \/ FileOf(next) \in converted /\ UNCHANGED media
           \/ FileOf(next) \notin converted /\ BeginWrite /\ uses[next].kind # "svg"
    BY <1>2, <1>14 DEF BeginDrawing, Drawable, Goto, work
  <2> QED BY <1>5, <1>6, <1>7, <1>9, <2>1
<1>15. CASE EndDrawing
  <2>1. /\ next \in Uses /\ uses[next].text /\ pc = "draw"
        /\ \/ FileOf(next) \in converted /\ UNCHANGED media
           \/ FileOf(next) \notin converted /\ EndWrite /\ uses[next].kind # "svg"
    BY <1>15 DEF EndDrawing, Writing
  <2> QED BY <1>5, <1>6, <1>8, <1>9, <2>1
<1> QED BY <1>10, <1>11, <1>12, <1>13, <1>14, <1>15 DEF ScanStep, CopyStep, DrawingFails, End

\* What is removed of a folder is a file whose conversion raised an exception.
LEMMA RemovalKeeps ==
  ASSUME Typed, Dealt, Runs, Folder, project.source = "directory", RemoveStep, NEW f \in Files
  PROVE  Kept(f)' /\ Named(f)'
<1>1. UNCHANGED <<project, raised, code>> /\ Kept(f) /\ Named(f) /\ pc = "remove"
  BY DEF RemoveStep, RemoveSource, EndRemove, Goto, work, dir, Folder
<1>2. ~HalfDone(f) /\ code = "s2" /\ media[f] # "renamed"
  <2>1. code = "s2"
    BY <1>1 DEF Folder, Coded, Packing
  <2> QED BY <1>1, <2>1, WhileHalfDone DEF Named
<1>3. CASE media'[f] = media[f]
  BY <1>1, <1>2, <1>3, KeptStays DEF Named
<1>4. CASE media'[f] # media[f]
  <2>1. PICK g \in ToRemove : RemoveSource(g)
    BY <1>4 DEF RemoveStep, EndRemove, dir
  <2>2. media \in [Files -> Contents]
    BY DEF Typed, TypeOK
  <2>3. f = g /\ f \notin converted /\ media'[f] = "absent"
    BY <1>4, <2>1, <2>2 DEF RemoveSource
  <2>4. f \in raised
    <3>1. PICK i \in Uses : f = FileOf(i)
      BY DEF Files
    <3>2. KindOf(f) = uses[i].kind
      BY <3>1, UsesAreKnown DEF Typed
    <3>3. i \in Unconverted
      BY <2>3, <3>2 DEF ToRemove, Unconverted
    <3> QED BY <1>1, <2>3, <3>1, <3>3 DEF Dealt
  <2> QED BY <1>1, <1>2, <2>3, <2>4 DEF Kept, Named
<1> QED BY <1>3, <1>4

\* Every other step of the main thread leaves the files, and does not pass the verification with one that is half done.
LEMMA FilesKeep ==
  ASSUME Typed, Writing, Dealt, Runs, Folder, project.source = "directory", GoesOn \/ Raise \/ Interrupt, NEW f \in Files
  PROVE  Kept(f)' /\ Named(f)'
<1>1. /\ UNCHANGED <<project, runs, leftovers, raised>> /\ Moves /\ Kept(f) /\ Named(f)
      /\ (project.media[f])' = project.media[f] /\ Misnamed(f)' = Misnamed(f)
      /\ pc # "idle" /\ exit = "none"
  <2>1. UNCHANGED <<project, runs, leftovers, raised>> /\ Moves
    BY MainMoves
  <2> QED BY <2>1, ProjectStays DEF Folder, Moves, Runs
<1>2. pc # "fetch"
  BY DEF Folder, Remote
<1>3. CASE NameStep
  BY <1>3, NamesKeep
<1>4. CASE (ScanStep \/ CopyStep) /\ pc' # "idle"
  BY <1>4, WritesKeep
<1>5. CASE RemoveStep
  BY <1>5, RemovalKeeps
<1>6. CASE /\ ~NameStep /\ ~RemoveStep /\ ((ScanStep \/ CopyStep) => pc' = "idle")
  <2>1. UNCHANGED code
    BY <1>2, <1>6, CodeStays DEF DownloadCode, NameStep
  <2>2. UNCHANGED media
    <3>1. CASE pc' = "idle"
      BY <3>1, MediaStay
    <3>2. CASE pc' # "idle"
      BY <1>6, <3>2 DEF GoesOn, DownloadCode, Details, Verify, ConvertProject, WriteCode, DownloadScreenshot, OpenArchive,
         Raise, Interrupt, End, dir
    <3> QED BY <3>1, <3>2
  <2>3. HalfDone(f) => HalfDone(f)'
    <3>1. CASE pc' = "idle"
      BY <1>1, <2>2, <3>1 DEF HalfDone, Moves
    <3>2. CASE pc' # "idle" /\ pc = "verify"
      <4>1. media[f] = "whole"
        BY <3>2, WhoMoves DEF Verify, Verified, Goto, End
      <4> QED BY <4>1 DEF HalfDone
    <3>3. CASE pc' # "idle" /\ pc # "verify" /\ HalfDone(f)
      <4>1. pc \in {"load", "rename", "parse", "details", "translate", "resizing", "draw"}
        BY <1>1, <1>2, <3>3, WhileHalfDone DEF Moves
      <4>2. pc \notin {"load", "rename", "parse"}
        BY <1>6, <3>3, WhoMoves, <1>1 DEF NameStep, Moves
      <4>3. pc \notin {"translate", "resizing", "draw"}
        BY <1>6, <3>3, WhoMoves DEF ScanStep, CopyStep
      <4>4. pc = "details" /\ pc' = "verify" /\ runs > 1
        BY <1>1, <3>3, <4>1, <4>2, <4>3, WhileHalfDone DEF Moves
      <4> QED BY <1>1, <2>2, <3>3, <4>4 DEF HalfDone
    <3> QED BY <3>1, <3>2, <3>3
  <2> QED BY <1>1, <2>1, <2>2, <2>3, KeptStays DEF Named
<1> QED BY <1>3, <1>4, <1>5, <1>6

\* The code of a folder.
LEMMA CodeKeeps ==
  ASSUME Typed, Runs, Folder, project.source = "directory", GoesOn \/ Raise \/ Interrupt
  PROVE  /\ code' # project.code => project.code = "s3" /\ code' \in {"doubled", "s2"}
         /\ pc' = "rename" => code' = "s3"
         /\ pc' = "parse" => code' = "doubled"
         /\ pc' \in Coded => code' = "s2"
         /\ code' = "doubled" => pc' = "parse" \/ exit' \in {"failure", "interrupted"} \/ runs' > 1
<1>1. Moves /\ UNCHANGED <<project, runs>> /\ pc # "idle" /\ exit = "none" /\ pc # "fetch"
  <2>1. Moves /\ UNCHANGED <<project, runs>> /\ pc # "idle"
    BY MainMoves DEF Moves
  <2> QED BY <2>1 DEF Runs, Folder, Remote
<1>2. project.code # "doubled"
  BY UsesAreKnown DEF Typed
<1>3. CASE EndRename
  BY <1>1, <1>3 DEF EndRename, Goto, Folder, Coded, Scanning, Copying, Packing
<1>4. CASE Rewrite
  BY <1>1, <1>2, <1>4 DEF Rewrite, Goto, Folder
<1>5. CASE code' = code /\ pc' = "idle"
  BY <1>1, <1>5 DEF Moves, Folder, Coded, Scanning, Copying, Packing
<1>6. CASE code' = code /\ pc' # "idle" /\ ~EndRename /\ ~Rewrite
  <2>1. pc \notin {"parse"} /\ pc' # "parse"
    BY <1>1, <1>6, WhoMoves DEF Moves
  <2>2. pc' = "rename" => code = "s3"
    <3>1. pc' = "rename" => pc = "rename" \/ (pc = "load" /\ Load)
      BY <1>1, <1>6, WhoMoves DEF Moves
    <3> QED BY <3>1 DEF Load, Goto, End, Folder
  <2>3. pc' \in Coded => code = "s2"
    <3>1. pc' \in Coded => pc \in Coded \/ (pc = "load" /\ Load)
      BY <1>1, <1>6, <2>1, WhoMoves DEF Moves, Coded, Scanning, Copying, Packing
    <3>2. pc = "load" /\ Load /\ pc' \in Coded => code = "s2"
      BY DEF Load, Goto, End, Coded, Scanning, Copying, Packing
    <3> QED BY <3>1, <3>2 DEF Folder
  <2>4. code = "doubled" => runs > 1
    BY <1>1, <2>1 DEF Folder
  <2> QED BY <1>1, <1>6, <2>1, <2>2, <2>3, <2>4 DEF Folder
<1> QED BY <1>1, <1>3, <1>4, <1>5, <1>6, CodeStays DEF DownloadCode

LEMMA FolderStep ==
  ASSUME Typed, Batched, Dealt, Writing, Runs, Folder, [Next]_vars
  PROVE  Folder'
<1>1. project' = project
  BY MainMoves, DownloadsStart, ConversionsStart, ThreadMoves, NextIs DEF Start, CloseArchive, End, vars
<1>2. Remote' = Remote /\ Files' = Files /\ (Remote => project.source # "directory")
  BY <1>1, ProjectStays DEF Remote
<1>3. CASE project.source # "directory"
  <2>1. pc' = "fetch" => Remote
    <3>1. CASE Start
      BY <3>1 DEF Start
    <3>2. CASE GoesOn \/ Raise \/ Interrupt
      BY <3>2, MainMoves DEF Moves, Folder
    <3>3. ASSUME NEW t \in threads, ThreadStep(t) PROVE pc' # "fetch"
      BY <3>3, ThreadMoves
    <3>4. CASE UNCHANGED vars
      BY <3>4 DEF vars, Folder
    <3> QED BY <3>1, <3>2, <3>3, <3>4, NextIs, DownloadsStart, ConversionsStart DEF CloseArchive, End
  <2> QED BY <1>1, <1>2, <1>3, <2>1 DEF Folder
<1>4. CASE project.source = "directory"
  <2>1. ~Remote /\ pc # "fetch"
    BY <1>2, <1>4 DEF Folder
  <2>2. ASSUME UNCHANGED <<code, media>>, raised \subseteq raised', pc' \notin {"fetch", "rename", "parse"},
               pc' \in Coded => pc \in Coded,
               code = "doubled" => exit' \in {"failure", "interrupted"} \/ runs' > 1,
               \A f \in Files : HalfDone(f) => HalfDone(f)'
        PROVE  Folder'
    <3>1. ASSUME NEW f \in Files PROVE Kept(f)' /\ Named(f)'
      <4>1. Kept(f) /\ Named(f)
        BY <1>4 DEF Folder
      <4>2. Misnamed(f)' = Misnamed(f)
        BY <1>1, ProjectStays
      <4> QED BY <1>1, <2>2, <4>1, <4>2, KeptStays DEF Named
    <3> QED BY <1>1, <1>2, <1>4, <2>2, <3>1 DEF Folder
  <2>3. pc # "idle" /\ pc # "parse" /\ code = "doubled" => runs > 1
    BY <1>4 DEF Folder, Runs
  <2>4. CASE Start
    <3>1. UNCHANGED <<code, media, raised>> /\ pc' = "load" /\ pc = "idle" /\ runs' = runs + 1 /\ exit' = "none"
      BY <1>4, <2>1, <2>4 DEF Start, dir
    <3>2. runs \in Nat
      BY LimitsAssumption DEF Typed, TypeOK
    <3>3. code = "doubled" => runs' > 1
      BY <1>4, <3>1, <3>2 DEF Folder, Runs
    <3>4. \A f \in Files : HalfDone(f) => HalfDone(f)'
      <4>1. \A f \in Files : HalfDone(f) => runs # 0
        BY <3>1 DEF HalfDone, Runs
      <4> QED BY <3>1, <3>2, <4>1 DEF HalfDone
    <3> QED BY <2>2, <3>1, <3>3, <3>4 DEF Coded, Scanning, Copying, Packing
  <2>5. CASE CloseArchive
    <3>1. UNCHANGED <<code, media, raised, runs>> /\ pc' = "idle" /\ pc = "pack"
      BY <2>5 DEF CloseArchive, End, dir, work
    <3>2. \A f \in Files : ~HalfDone(f)
      BY <3>1, WhileHalfDone
    <3> QED BY <2>2, <2>3, <3>1, <3>2 DEF Coded, Scanning, Copying, Packing
  <2>6. CASE StartDownloads
    <3>1. UNCHANGED <<code, media, raised, runs, exit>> /\ pc = "resources" /\ pc' = "details"
      BY <2>1, <2>6, DownloadsStart DEF dir
    <3>2. \A f \in Files : HalfDone(f) => runs > 1
      BY <3>1, WhileHalfDone
    <3>3. \A f \in Files : HalfDone(f) => HalfDone(f)'
      BY <3>1, <3>2 DEF HalfDone
    <3> QED BY <2>2, <2>3, <3>1, <3>3 DEF Coded
  <2>7. CASE StartConversions
    <3>1. UNCHANGED <<code, media, raised, runs>> /\ pc = "media" /\ pc' \in {"media", "copy"}
      BY <2>7, ConversionsStart DEF dir
    <3>2. \A f \in Files : ~HalfDone(f)
      BY <3>1, WhileHalfDone
    <3> QED BY <2>2, <2>3, <3>1, <3>2 DEF Coded
  <2>8. ASSUME NEW t \in threads, ThreadStep(t)
        PROVE  Folder'
    <3>1. UNCHANGED <<pc, runs, code>> /\ pc = "media"
      BY <2>1, <2>8, ThreadMoves DEF Batched
    <3>2. UNCHANGED media /\ raised \subseteq raised'
      BY <2>8, <3>1 DEF ThreadStep, Download, TryAgain, BeginConversion, EndConversion, ConversionRaises, dir
    <3>3. \A f \in Files : ~HalfDone(f)
      BY <3>1, WhileHalfDone
    <3> QED BY <2>2, <2>3, <3>1, <3>2, <3>3
  <2>9. CASE UNCHANGED vars
    <3>1. UNCHANGED <<project, pc, exit, runs, code, media, raised, next, converted>>
      BY <2>9 DEF vars, dir, work
    <3>2. ASSUME NEW f \in Files PROVE Kept(f)' /\ Named(f)'
      <4>1. uses' = uses /\ Misnamed(f)' = Misnamed(f) /\ Kept(f) /\ Named(f)
        BY <1>1, <1>4, ProjectStays DEF Folder
      <4>2. HalfDone(f)' <=> HalfDone(f)
        BY <3>1, <4>1 DEF HalfDone, FileOf
      <4> QED BY <3>1, <4>1, <4>2, KeptStays DEF Named
    <3> QED BY <1>2, <1>4, <3>1, <3>2 DEF Folder
  <2>10. CASE GoesOn \/ Raise \/ Interrupt
    <3>1. pc' # "fetch"
      BY <2>1, <2>10, MainMoves DEF Moves
    <3>2. \A f \in Files : Kept(f)' /\ Named(f)'
      BY <1>4, <2>10, FilesKeep
    <3>3. /\ code' # project.code => project.code = "s3" /\ code' \in {"doubled", "s2"}
          /\ pc' = "rename" => code' = "s3"
          /\ pc' = "parse" => code' = "doubled"
          /\ pc' \in Coded => code' = "s2"
          /\ code' = "doubled" => pc' = "parse" \/ exit' \in {"failure", "interrupted"} \/ runs' > 1
      BY <1>4, <2>10, CodeKeeps
    <3> QED BY <1>1, <1>2, <1>4, <3>1, <3>2, <3>3 DEF Folder
  <2> QED BY <2>4, <2>5, <2>6, <2>7, <2>8, <2>9, <2>10, NextIs
<1> QED BY <1>3, <1>4

-------------------------------------------------------------------------------
(* The theorems *)

LEMMA InitHolds == Init => Inv
<1> SUFFICES ASSUME Init PROVE Inv
  OBVIOUS
<1>1. Typed
  BY StartIsTyped
<1>2. Batched /\ Dealt /\ Writing /\ Scanned
  BY DEF Init, Batched, OneThreadPerFile, Dealt, Writing, Scanned, Scanning, Copying
<1>3. Outputs
  BY DEF Init, Outputs, Unscanned, Scanning, Copying
<1>4. Shipped /\ Runs
  BY DEF Init, Shipped, Packing, Copying, Runs
<1>5. Folder
  <2>1. \A f \in Files : project.media[f] \in {"absent", "partial", "wrong", "whole"}
    BY <1>1, UsesAreKnown DEF Typed
  <2>2. /\ pc = "idle" /\ code = project.code /\ media = project.media
        /\ project.code \in {"absent", "empty", "s2", "s3"}
    BY <1>1, UsesAreKnown DEF Init, Typed
  <2>3. \A f \in Files : Kept(f)
    BY <2>2 DEF Kept
  <2>4. \A f \in Files : Named(f)
    BY <2>1, <2>2 DEF Named
  <2>5. pc \notin Coded
    BY <2>2 DEF Coded, Scanning, Copying, Packing
  <2> QED BY <2>2, <2>3, <2>4, <2>5 DEF Folder
<1> QED BY <1>1, <1>2, <1>3, <1>4, <1>5 DEF Inv

LEMMA Inductive == Inv /\ [Next]_vars => Inv'
BY TypedStep, BatchedStep, DealtStep, OutputsStep, ScannedStep, ShippedStep, RunsStep, FolderStep DEF Inv

\* No two threads ever work on the same file, however many costumes and sounds use it and however the batches are cut:
\* unique_resource_names and media_srces hand every file out once, and the next batch waits for the last thread
\* (scratch.py:713-738, mediaconverter.py:186-213).
THEOREM OneThread == Spec => []OneThreadPerFile
<1>1. Inv => OneThreadPerFile
  BY DEF Inv, Batched
<1> QED BY <1>1, InitHolds, Inductive, PTL DEF Spec

\* A run that says it succeeded has written its own archive to the end, and in it every costume and every sound is a
\* good one, unless its thread raised an exception or a run before left half of a conversion behind
\* (main.py:95-181, mediaconverter.py:101-246).
THEOREM SuccessShips == Spec => []SuccessShipsEverything
<1>1. Inv => SuccessShipsEverything
  BY DEF Inv, Shipped, SuccessShipsEverything, Good, Worth, Content
<1> QED BY <1>1, InitHolds, Inductive, PTL DEF Spec

\* However often a folder is converted where it is, and wherever a run in it fails or is killed, inside the write of a
\* picture or between two files too, its code and its media files are what they were but for the changes that
\* FolderSurvives lists, and no run gets past the verification with a file that one before left half done
\* (scratch3.py:33-54, main.py:149-157, scratch.py:86-94, mediaconverter.py:101-336, image_processing.py:106-109).
THEOREM FolderIsKept == Spec => []FolderSurvives
<1>1. Inv => FolderSurvives
  BY DEF Inv, Folder, Kept, FolderSurvives
<1> QED BY <1>1, InitHolds, Inductive, PTL DEF Spec
================================================================================
