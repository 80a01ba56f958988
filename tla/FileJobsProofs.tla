---------------------------- MODULE FileJobsProofs ----------------------------
(***************************************************************************)
(* Theorems about FileJobs, for any number of jobs, processes, resources   *)
(* and keys.                                                               *)
(***************************************************************************)
EXTENDS FileJobs, SequenceTheorems, TLAPS

FileType == [by : Jobs \union {Others}, whole : BOOLEAN]

Places ==
  {"idle", "check", "write", "link", "sync", "open", "copy", "undo", "inspect", "rename",
   "done", "failed", "killed"}

JobType ==
  [op : {"none", "save", "backup", "import", "replace"}, at : Places,
   process : Processes \union {Others}, checked : Seq(Resources), todo : Seq(Names),
   made : Seq(Names), stuck : SUBSET Names]

(* The type of the state: what a file, a part and a job may be.              *)
TypeOK ==
  /\ files \in [Names -> FileType]
  /\ parts \subseteq Names \X (Processes \union {Others})
  /\ jobs \in [Jobs -> JobType]

(* A job that has gone to another place.                                     *)
Moved(job, at) == [job EXCEPT !.at = at]

(* What is left of a job's names: a backup has no name to remove once its    *)
(* only file is made, and imports and replacements have no names of keys.    *)
Shape(job) ==
  /\ job.op = "none" => job.at \in {"idle", "killed"}
  /\ job.op = "save" => job.todo # <<>> /\ Head(job.todo) \in KeyFiles
  /\ job.op = "backup" =>
       IF job.todo = <<>> THEN job.at \in {"open", "done", "killed"}
       ELSE Head(job.todo) \in KeyFiles /\ Tail(job.todo) = <<>> /\ job.made = <<>>
  /\ job.op \in {"backup", "import"} /\ job.at = "copy" => job.todo # <<>>
  /\ job.op = "import" => job.todo \in Seq(Resources) /\ job.made \in Seq(Resources)
  /\ job.op = "replace" => job.todo # <<>> /\ Head(job.todo) \in Resources

(* What a job knows of the file it has written or is writing.                *)
Owns(job, j, fs) ==
  /\ job.op = "save" /\ job.at \in {"sync", "done"} => fs[Head(job.todo)] = File(j)
  /\ job.op = "backup" /\ job.at = "copy" => fs[Head(job.todo)] = Begun(j)

Inv ==
  /\ TypeOK
  /\ \A j \in Jobs : Shape(jobs[j]) /\ Owns(jobs[j], j, files)

-------------------------------------------------------------------------------
(* Lemmas.                                                                  *)

LEMMA FilesDiffer ==
  ASSUME NEW i \in Jobs, NEW j \in Jobs
  PROVE  /\ File(i) # Absent /\ Begun(i) # Absent /\ File(i) # Begun(j)
         /\ i # j => Begun(i) # Begun(j)
  BY JobsAssumption DEF File, Begun, Absent

LEMMA FileTypes ==
  /\ Absent \in FileType
  /\ File(Others) \in FileType
  /\ \A j \in Jobs : File(j) \in FileType /\ Begun(j) \in FileType
  BY DEF FileType, Absent, File, Begun

LEMMA KeysApart == Resources \subseteq Names /\ KeyFiles \subseteq Names /\ Resources \cap KeyFiles = {}
  BY JobsAssumption DEF Names

(* A job that goes to another place stays a job.                             *)
LEMMA MovedJob ==
  ASSUME NEW job \in JobType, NEW at \in Places
  PROVE  /\ Moved(job, at) \in JobType
         /\ Moved(job, at).op = job.op /\ Moved(job, at).at = at
         /\ Moved(job, at).todo = job.todo /\ Moved(job, at).made = job.made
  BY DEF Moved, JobType

LEMMA GoTyped ==
  ASSUME jobs \in [Jobs -> JobType], NEW j \in Jobs, NEW at \in Places, Go(j, at)
  PROVE  /\ jobs' = [jobs EXCEPT ![j] = Moved(jobs[j], at)]
         /\ Moved(jobs[j], at) \in JobType
  BY DEF Go, JobType, Moved

(* A step of one job that keeps its own shape, and changes a file of a key    *)
(* only where there was none or where it was writing.                        *)
LEMMA OwnStep ==
  ASSUME Inv, NEW j \in Jobs, NEW job \in JobType,
         jobs' = [jobs EXCEPT ![j] = job], files' \in [Names -> FileType],
         parts' \subseteq Names \X (Processes \union {Others}),
         Shape(job), Owns(job, j, files'),
         \A k \in KeyFiles : files[k] \in {Absent, Begun(j)} \/ files'[k] = files[k]
  PROVE  Inv'
<1>1. TypeOK'
  BY DEF Inv, TypeOK
<1>2. ASSUME NEW i \in Jobs
      PROVE  Shape(jobs[i])' /\ Owns(jobs[i], i, files)'
  <2>1. CASE i = j
    BY <2>1 DEF Inv, TypeOK, Shape, Owns
  <2>2. CASE i # j
    <3>1. jobs'[i] = jobs[i] /\ Shape(jobs[i]) /\ Owns(jobs[i], i, files)
      BY <2>2 DEF Inv, TypeOK
    <3>2. ASSUME jobs[i].op = "save" \/ (jobs[i].op = "backup" /\ jobs[i].at = "copy")
          PROVE  Head(jobs[i].todo) \in KeyFiles
      BY <3>1, <3>2 DEF Shape
    <3>3. Owns(jobs[i], i, files')
      BY <2>2, <3>1, <3>2, FilesDiffer DEF Owns
    <3> QED
      BY <3>1, <3>3 DEF Shape, Owns
  <2> QED
    BY <2>1, <2>2
<1> QED
  BY <1>1, <1>2 DEF Inv

(* A step that only takes a job to another place, which holds nothing new.   *)
LEMMA GoStep ==
  ASSUME Inv, NEW j \in Jobs, NEW at \in Places, Go(j, at), UNCHANGED files,
         parts' \subseteq Names \X (Processes \union {Others}),
         Shape(Moved(jobs[j], at)), Owns(Moved(jobs[j], at), j, files)
  PROVE  Inv'
<1>1. jobs' = [jobs EXCEPT ![j] = Moved(jobs[j], at)] /\ Moved(jobs[j], at) \in JobType
  BY GoTyped DEF Inv, TypeOK
<1> QED
  BY <1>1, OwnStep DEF Inv, TypeOK

-------------------------------------------------------------------------------
(* Every step keeps the invariant.                                          *)

LEMMA InitInv == Init => Inv
<1> SUFFICES ASSUME Init PROVE Inv
  OBVIOUS
<1>1. NoJob \in JobType
  BY EmptySeq DEF NoJob, JobType, Places
<1>2. TypeOK
  BY <1>1, FileTypes DEF Init, TypeOK
<1>3. \A j \in Jobs : Shape(jobs[j]) /\ Owns(jobs[j], j, files)
  BY DEF Init, NoJob, Shape, Owns
<1> QED
  BY <1>2, <1>3 DEF Inv

LEMMA StartInv ==
  ASSUME Inv, NEW j \in Jobs, NEW job \in JobType, Start(j, job), Shape(job),
         job.at \in {"check", "open", "inspect"}
  PROVE  Inv'
<1>1. Owns(job, j, files')
  BY DEF Owns
<1> QED
  BY <1>1, OwnStep DEF Start, Inv, TypeOK

LEMMA BeginInv ==
  ASSUME Inv, NEW j \in Jobs, Begin(j)
  PROVE  Inv'
<1> PICK p \in Processes :
      \/ \E k \in KeyFiles : StartSave(j, p, k) \/ StartBackup(j, p, k)
      \/ \E names \in Seq(Resources) : StartImport(j, p, names)
      \/ \E n \in Resources : StartReplace(j, p, n)
  BY DEF Begin
<1>0. \A n \in Names : <<n>> \in Seq(Names) /\ <<n>> # <<>> /\ Head(<<n>>) = n /\ Tail(<<n>>) = <<>>
  OBVIOUS
<1>1. ASSUME NEW k \in KeyFiles, StartSave(j, p, k)
      PROVE  Inv'
  <2> DEFINE job == Job("save", "check", p, <<k>>)
  <2>1. job \in JobType /\ Shape(job) /\ job.at = "check"
    BY <1>0, KeysApart, EmptySeq DEF Job, NoJob, JobType, Places, Shape
  <2> QED
    BY <1>1, <2>1, StartInv DEF StartSave
<1>2. ASSUME NEW k \in KeyFiles, StartBackup(j, p, k)
      PROVE  Inv'
  <2> DEFINE job == Job("backup", "open", p, <<k>>)
  <2>1. job \in JobType /\ Shape(job) /\ job.at = "open"
    BY <1>0, KeysApart, EmptySeq DEF Job, NoJob, JobType, Places, Shape
  <2> QED
    BY <1>2, <2>1, StartInv DEF StartBackup
<1>3. ASSUME NEW names \in Seq(Resources), StartImport(j, p, names)
      PROVE  Inv'
  <2> DEFINE job == [Job("import", "check", p, <<>>) EXCEPT !.checked = names]
  <2>1. job \in JobType /\ Shape(job) /\ job.at = "check"
    BY EmptySeq DEF Job, NoJob, JobType, Places, Shape
  <2> QED
    BY <1>3, <2>1, StartInv DEF StartImport
<1>4. ASSUME NEW n \in Resources, StartReplace(j, p, n)
      PROVE  Inv'
  <2> DEFINE job == Job("replace", "inspect", p, <<n>>)
  <2>1. job \in JobType /\ Shape(job) /\ job.at = "inspect"
    BY <1>0, KeysApart, EmptySeq DEF Job, NoJob, JobType, Places, Shape
  <2> QED
    BY <1>4, <2>1, StartInv DEF StartReplace
<1> QED
  BY <1>1, <1>2, <1>3, <1>4

LEMMA SaveInv ==
  ASSUME Inv, NEW j \in Jobs, Save(j)
  PROVE  Inv'
<1>1. /\ jobs[j] \in JobType /\ Shape(jobs[j]) /\ jobs[j].op = "save"
      /\ parts' \subseteq Names \X (Processes \union {Others})
      /\ Head(jobs[j].todo) \in KeyFiles /\ Head(jobs[j].todo) \in Names
  BY KeysApart DEF Inv, TypeOK, Save, SaveCheck, SaveWrite, SaveLink, SaveSync, At, Shape
<1>2. ASSUME NEW at \in Places
      PROVE  /\ Shape(Moved(jobs[j], at))
             /\ at \notin {"sync", "done"} => Owns(Moved(jobs[j], at), j, files)
  BY <1>1, MovedJob DEF Shape, Owns
<1>3. ASSUME NEW at \in Places, Go(j, at), UNCHANGED files, at \notin {"sync", "done"}
      PROVE  Inv'
  BY <1>1, <1>2, <1>3, GoStep
<1>4. CASE SaveCheck(j) \/ SaveWrite(j)
  <2>1. PICK at \in Places : at \in {"failed", "write", "link"} /\ Go(j, at)
    BY <1>4 DEF SaveCheck, SaveWrite, Places
  <2> QED
    BY <1>3, <1>4, <2>1 DEF SaveCheck, SaveWrite
<1>5. CASE Go(j, "failed") /\ UNCHANGED files
  BY <1>3, <1>5 DEF Places
<1>6. CASE ~Exists(Name(j)) /\ SetFile(Name(j), File(j)) /\ Go(j, "sync")
  <2>0. "sync" \in Places
    BY DEF Places
  <2>1. jobs' = [jobs EXCEPT ![j] = Moved(jobs[j], "sync")] /\ Moved(jobs[j], "sync") \in JobType
    BY <1>6, <2>0, GoTyped DEF Inv, TypeOK
  <2>2. /\ files' \in [Names -> FileType] /\ files'[Name(j)] = File(j)
        /\ \A k \in KeyFiles : files[k] = Absent \/ files'[k] = files[k]
    BY <1>1, <1>6, FileTypes, KeysApart DEF SetFile, Name, Exists, Inv, TypeOK
  <2>3. Owns(Moved(jobs[j], "sync"), j, files')
    BY <1>1, <2>0, <2>2, MovedJob DEF Owns, Name
  <2>4. Shape(Moved(jobs[j], "sync"))
    BY <1>2, <2>0
  <2> QED
    BY <1>1, <2>1, <2>2, <2>3, <2>4, OwnStep
<1>7. CASE SaveSync(j)
  <2>1. PICK at \in Places : at \in {"done", "failed"} /\ Go(j, at)
    BY <1>7 DEF SaveSync, Places
  <2>2. Owns(Moved(jobs[j], at), j, files)
    BY <1>1, <1>7, MovedJob DEF Inv, Owns, SaveSync, At
  <2> QED
    BY <1>1, <1>2, <1>7, <2>1, <2>2, GoStep DEF SaveSync
<1> QED
  BY <1>4, <1>5, <1>6, <1>7 DEF Save, SaveLink

(* What a job that imports or backs up may do to files: what it changes of a  *)
(* key's is what it is writing itself.                                       *)
LEMMA CopyInv ==
  ASSUME Inv, NEW j \in Jobs, Copy(j)
  PROVE  Inv'
<1>1. /\ jobs[j] \in JobType /\ Shape(jobs[j]) /\ Owns(jobs[j], j, files)
      /\ jobs[j].op \in {"import", "backup"}
      /\ parts' \subseteq Names \X (Processes \union {Others})
      /\ jobs \in [Jobs -> JobType] /\ files \in [Names -> FileType]
  BY DEF Inv, TypeOK, Copy, ImportCheck, CopyOpen, Copied, CopyFails, CopyEnds, Undo, At, Copying
<1>2. jobs[j].todo # <<>> => Name(j) \in Names
  BY <1>1, HeadTailProperties DEF Name, JobType
<1>3. ASSUME jobs[j].todo # <<>>, NEW at \in Places, Go(j, at), at # "copy", UNCHANGED files
      PROVE  Inv'
  <2>1. Shape(Moved(jobs[j], at)) /\ Owns(Moved(jobs[j], at), j, files)
    BY <1>1, <1>3, MovedJob DEF Shape, Owns
  <2> QED
    BY <1>1, <1>3, <2>1, GoStep
<1>4. CASE ImportCheck(j)
  <2>1. ASSUME NEW at \in Places, Go(j, at), at # "copy"
        PROVE  Inv'
    <3>1. Shape(Moved(jobs[j], at)) /\ Owns(Moved(jobs[j], at), j, files)
      BY <1>1, <1>4, <2>1, MovedJob DEF Shape, Owns, ImportCheck, At
    <3> QED
      BY <1>1, <1>4, <2>1, <3>1, GoStep DEF ImportCheck
  <2>2. CASE Go(j, "open") \/ Go(j, "failed")
    BY <2>1, <2>2 DEF Places
  <2>3. CASE /\ jobs[j].checked # <<>>
             /\ jobs' = [jobs EXCEPT ![j].checked = Tail(@),
                                     ![j].todo = Append(@, Head(jobs[j].checked))]
    <3> DEFINE job == [jobs[j] EXCEPT !.checked = Tail(@), !.todo = Append(@, Head(jobs[j].checked))]
    <3>1. jobs[j].op = "import" /\ jobs[j].at = "check" /\ UNCHANGED files
      BY <1>4 DEF ImportCheck, At
    <3>2. /\ Tail(jobs[j].checked) \in Seq(Resources) /\ Head(jobs[j].checked) \in Resources
          /\ jobs[j].todo \in Seq(Resources) /\ jobs[j].made \in Seq(Resources)
      BY <1>1, <2>3, <3>1, HeadTailProperties DEF JobType, Shape
    <3>3. /\ Append(jobs[j].todo, Head(jobs[j].checked)) \in Seq(Resources)
          /\ Append(jobs[j].todo, Head(jobs[j].checked)) \in Seq(Names)
      BY <1>1, <3>2, KeysApart, AppendProperties DEF JobType
    <3>4. jobs' = [jobs EXCEPT ![j] = job]
      BY <1>1, <2>3 DEF JobType
    <3>5. job \in JobType /\ Shape(job) /\ Owns(job, j, files')
      BY <1>1, <3>1, <3>2, <3>3 DEF JobType, Shape, Owns
    <3> QED
      BY <1>1, <3>1, <3>4, <3>5, OwnStep
  <2> QED
    BY <1>4, <2>2, <2>3 DEF ImportCheck
<1>5. CASE CopyOpen(j)
  <2>0. "copy" \in Places /\ "undo" \in Places
    BY DEF Places
  <2>1. CASE ~Exists(Name(j)) /\ SetFile(Name(j), Begun(j)) /\ Go(j, "copy")
    <3>1. jobs' = [jobs EXCEPT ![j] = Moved(jobs[j], "copy")] /\ Moved(jobs[j], "copy") \in JobType
      BY <1>1, <2>0, <2>1, GoTyped
    <3>2. jobs[j].todo # <<>> /\ Name(j) \in Names
      BY <1>2, <1>5 DEF CopyOpen
    <3>3. /\ files' \in [Names -> FileType] /\ files'[Name(j)] = Begun(j)
          /\ \A k \in KeyFiles : files[k] = Absent \/ files'[k] = files[k]
      BY <1>1, <2>1, <3>2, FileTypes, KeysApart DEF SetFile, Exists
    <3>4. Shape(Moved(jobs[j], "copy")) /\ Owns(Moved(jobs[j], "copy"), j, files')
      BY <1>1, <2>0, <3>2, <3>3, MovedJob DEF Shape, Owns, Name
    <3> QED
      BY <1>1, <3>1, <3>3, <3>4, OwnStep
  <2>2. CASE Go(j, "undo") /\ UNCHANGED files
    BY <1>3, <1>5, <2>0, <2>2 DEF CopyOpen
  <2> QED
    BY <1>5, <2>1, <2>2 DEF CopyOpen
<1>6. CASE Copied(j)
  <2> DEFINE job == [jobs[j] EXCEPT !.at = "open", !.todo = Tail(@), !.made = Append(@, Name(j))]
  <2>1. jobs' = [jobs EXCEPT ![j] = job]
    BY <1>1, <1>6 DEF Copied, JobType
  <2>2. jobs[j].at = "copy" /\ jobs[j].todo # <<>> /\ Name(j) \in Names
    BY <1>1, <1>2, <1>6 DEF Copied, Copying, Shape
  <2>3. Tail(jobs[j].todo) \in Seq(Names) /\ Append(jobs[j].made, Name(j)) \in Seq(Names)
    BY <1>1, <2>2, HeadTailProperties, AppendProperties DEF JobType
  <2>4. jobs[j].op = "import" => /\ Tail(jobs[j].todo) \in Seq(Resources)
                                 /\ Append(jobs[j].made, Name(j)) \in Seq(Resources)
    BY <1>1, <2>2, HeadTailProperties, AppendProperties DEF Shape, Name
  <2>5. job \in JobType
    BY <1>1, <2>3 DEF JobType, Places
  <2>6. /\ job.op = jobs[j].op /\ job.at = "open" /\ job.todo = Tail(jobs[j].todo)
        /\ job.made = Append(jobs[j].made, Name(j))
    BY <1>1 DEF JobType
  <2>7. Shape(job) /\ Owns(job, j, files')
    BY <1>1, <2>2, <2>4, <2>6 DEF Shape, Owns
  <2>8. /\ files' \in [Names -> FileType]
        /\ \A k \in KeyFiles : files[k] = Begun(j) \/ files'[k] = files[k]
    BY <1>1, <1>6, <2>2, FileTypes, KeysApart DEF Copied
  <2> QED
    BY <1>1, <2>1, <2>5, <2>7, <2>8, OwnStep
<1>7. ASSUME NEW n \in Names, NEW job \in JobType, Unlink(j, n, job),
             n \in KeyFiles => files[n] = Begun(j),
             Shape(job), job.op = jobs[j].op, job.at = "undo"
      PROVE  Inv'
  <2>1. CASE SetFile(n, Absent) /\ jobs' = [jobs EXCEPT ![j] = job]
    <3>1. /\ files' \in [Names -> FileType]
          /\ \A k \in KeyFiles : files[k] = Begun(j) \/ files'[k] = files[k]
      BY <1>1, <1>7, <2>1, FileTypes, KeysApart DEF SetFile
    <3>2. Owns(job, j, files')
      BY <1>1, <1>7 DEF Owns
    <3> QED
      BY <1>1, <1>7, <2>1, <3>1, <3>2, OwnStep
  <2>2. CASE UNCHANGED files /\ jobs' = [jobs EXCEPT ![j] = [job EXCEPT !.stuck = @ \union {n}]]
    <3> DEFINE left == [job EXCEPT !.stuck = @ \union {n}]
    <3>1. /\ left \in JobType /\ left.op = job.op /\ left.at = job.at
          /\ left.todo = job.todo /\ left.made = job.made
      BY <1>7 DEF JobType
    <3>2. Shape(left) /\ Owns(left, j, files')
      BY <1>1, <1>7, <3>1 DEF Shape, Owns
    <3> QED
      BY <1>1, <2>2, <3>1, <3>2, OwnStep
  <2> QED
    BY <1>7, <2>1, <2>2 DEF Unlink
<1>8. CASE CopyFails(j)
  <2>1. jobs[j].at = "copy" /\ jobs[j].todo # <<>> /\ Name(j) \in Names
    BY <1>1, <1>2, <1>8 DEF CopyFails, Copying, Shape
  <2>2. Name(j) \in KeyFiles => files[Name(j)] = Begun(j)
    BY <1>1, <2>1, KeysApart, HeadTailProperties DEF Shape, Owns, Name
  <2>3. "undo" \in Places
    BY DEF Places
  <2>4. Shape(Moved(jobs[j], "undo"))
    BY <1>1, <2>1, <2>3, MovedJob DEF Shape
  <2> QED
    BY <1>1, <1>7, <1>8, <2>1, <2>2, <2>3, <2>4, MovedJob DEF CopyFails, Moved
<1>9. CASE CopyEnds(j)
  <2>1. "done" \in Places /\ Go(j, "done") /\ UNCHANGED files /\ jobs[j].todo = <<>>
    BY <1>9 DEF CopyEnds, Places
  <2>2. Shape(Moved(jobs[j], "done")) /\ Owns(Moved(jobs[j], "done"), j, files)
    BY <1>1, <2>1, MovedJob DEF Shape, Owns
  <2> QED
    BY <1>1, <2>1, <2>2, GoStep
<1>10. CASE Undo(j)
  <2>0. jobs[j].at = "undo"
    BY <1>10 DEF Undo, Copying
  <2>1. CASE jobs[j].made = <<>> /\ Go(j, "failed") /\ UNCHANGED files
    <3>1. "failed" \in Places
      BY DEF Places
    <3>2. Shape(Moved(jobs[j], "failed")) /\ Owns(Moved(jobs[j], "failed"), j, files)
      BY <1>1, <2>0, <3>1, MovedJob DEF Shape, Owns
    <3> QED
      BY <1>1, <2>1, <3>1, <3>2, GoStep
  <2>2. CASE /\ jobs[j].made # <<>>
             /\ Unlink(j, Head(jobs[j].made), [jobs[j] EXCEPT !.made = Tail(@)])
    <3> DEFINE job == [jobs[j] EXCEPT !.made = Tail(@)]
    <3>1. jobs[j].op = "import"
      BY <1>1, <2>0, <2>2 DEF Shape
    <3>2. Head(jobs[j].made) \in Resources /\ Tail(jobs[j].made) \in Seq(Resources)
      BY <1>1, <2>2, <3>1, HeadTailProperties DEF Shape
    <3>3. Tail(jobs[j].made) \in Seq(Names)
      BY <1>1, <2>2, HeadTailProperties DEF JobType
    <3>4. /\ job \in JobType /\ job.op = "import" /\ job.at = "undo"
          /\ job.todo = jobs[j].todo /\ job.made = Tail(jobs[j].made)
      BY <1>1, <2>0, <3>1, <3>3 DEF JobType
    <3>5. Shape(job)
      BY <1>1, <3>1, <3>2, <3>4 DEF Shape
    <3>6. Head(jobs[j].made) \in Names /\ Head(jobs[j].made) \notin KeyFiles
      BY <3>2, KeysApart
    <3> QED
      BY <1>7, <2>2, <3>1, <3>4, <3>5, <3>6
  <2> QED
    BY <1>10, <2>1, <2>2 DEF Undo
<1> QED
  BY <1>4, <1>5, <1>6, <1>8, <1>9, <1>10 DEF Copy

(* A replacement never has the name of a key.                                *)
LEMMA ReplaceInv ==
  ASSUME Inv, NEW j \in Jobs, Replace(j)
  PROVE  Inv'
<1>1. /\ jobs[j] \in JobType /\ Shape(jobs[j]) /\ jobs[j].op = "replace"
      /\ Name(j) \in Resources /\ Name(j) \in Names /\ jobs[j].process \in Processes \union {Others}
      /\ files \in [Names -> FileType] /\ parts \subseteq Names \X (Processes \union {Others})
      /\ jobs \in [Jobs -> JobType]
  BY KeysApart DEF Inv, TypeOK, JobType, Shape, Name, At, Replace, ReplaceInspect, ReplaceOpen,
                   ReplaceCopy, ReplaceRename
<1>2. parts' \subseteq Names \X (Processes \union {Others})
  BY <1>1 DEF Replace, ReplaceInspect, ReplaceOpen, ReplaceCopy, ReplaceRename, Part
<1>3. PICK at \in Places : Go(j, at)
  BY DEF Places, Replace, ReplaceInspect, ReplaceOpen, ReplaceCopy, ReplaceRename
<1>4. jobs' = [jobs EXCEPT ![j] = Moved(jobs[j], at)] /\ Moved(jobs[j], at) \in JobType
  BY <1>1, <1>3, GoTyped
<1>5. Shape(Moved(jobs[j], at)) /\ Owns(Moved(jobs[j], at), j, files')
  BY <1>1, MovedJob DEF Shape, Owns
<1>6. files' = files \/ SetFile(Name(j), File(j))
  BY DEF Replace, ReplaceInspect, ReplaceOpen, ReplaceCopy, ReplaceRename
<1>7. /\ files' \in [Names -> FileType]
      /\ \A k \in KeyFiles : files'[k] = files[k]
  BY <1>1, <1>6, FileTypes, KeysApart DEF SetFile
<1> QED
  BY <1>2, <1>4, <1>5, <1>7, OwnStep

LEMMA AppearInv ==
  ASSUME Inv, NEW n \in Names, Appear(n)
  PROVE  Inv'
<1>1. TypeOK'
  BY FileTypes DEF Inv, TypeOK, Appear, SetFile
<1>2. ASSUME NEW i \in Jobs
      PROVE  Shape(jobs'[i]) /\ Owns(jobs'[i], i, files')
  <2>1. jobs' = jobs /\ Shape(jobs[i]) /\ Owns(jobs[i], i, files)
    BY DEF Inv, Appear
  <2>2. \A k \in KeyFiles : files[k] = Absent \/ files'[k] = files[k]
    BY KeysApart DEF Appear, SetFile, Exists, Inv, TypeOK
  <2>3. Owns(jobs[i], i, files')
    BY <2>1, <2>2, FilesDiffer DEF Owns, Shape
  <2> QED
    BY <2>1, <2>3
<1> QED
  BY <1>1, <1>2 DEF Inv

LEMMA KillInv ==
  ASSUME Inv, NEW p \in Processes, Kill(p)
  PROVE  Inv'
<1>1. "killed" \in Places
  BY DEF Places
<1>2. /\ files' = files /\ parts' \subseteq parts
      /\ jobs' = [j \in Jobs |-> IF jobs[j].process = p /\ Running(j)
                                 THEN Moved(jobs[j], "killed") ELSE jobs[j]]
  BY DEF Kill, Moved
<1>3. \A j \in Jobs : jobs'[j] = jobs[j] \/ jobs'[j] = Moved(jobs[j], "killed")
  BY <1>2
<1>4. TypeOK'
  BY <1>1, <1>2, MovedJob DEF Inv, TypeOK
<1>5. ASSUME NEW i \in Jobs
      PROVE  Shape(jobs'[i]) /\ Owns(jobs'[i], i, files')
  <2>1. jobs[i] \in JobType /\ Shape(jobs[i]) /\ Owns(jobs[i], i, files)
    BY DEF Inv, TypeOK
  <2>2. Shape(Moved(jobs[i], "killed")) /\ Owns(Moved(jobs[i], "killed"), i, files)
    BY <1>1, <2>1, MovedJob DEF Shape, Owns
  <2> QED
    BY <1>2, <1>3, <2>1, <2>2
<1> QED
  BY <1>4, <1>5 DEF Inv

LEMMA StepInv == Inv /\ [Next]_fileVars => Inv'
<1> SUFFICES ASSUME Inv, [Next]_fileVars PROVE Inv'
  OBVIOUS
<1>1. ASSUME NEW j \in Jobs, Begin(j) \/ JobStep(j)
      PROVE  Inv'
  BY <1>1, BeginInv, SaveInv, CopyInv, ReplaceInv DEF JobStep
<1>2. CASE UNCHANGED fileVars
  BY <1>2 DEF fileVars, Inv, TypeOK, Shape, Owns
<1> QED
  BY <1>1, <1>2, AppearInv, KillInv DEF Next

-------------------------------------------------------------------------------
(* Theorems.                                                                *)

(* The state keeps its type, whatever fails and whoever is killed.           *)
THEOREM TypeCorrect == FileJobsSpec => []TypeOK
<1>1. Inv => TypeOK
  BY DEF Inv
<1> QED
  BY InitInv, StepInv, <1>1, PTL DEF FileJobsSpec

(* A key that was saved stays there as it was saved, whole, however many      *)
(* processes save, back up and import at the same time (identity.rs:350).    *)
THEOREM KeysStay == FileJobsSpec => []SavedKeysStay
<1>1. Inv => SavedKeysStay
  BY DEF Inv, Owns, SavedKeysStay, Saved, Name
<1> QED
  BY InitInv, StepInv, <1>1, PTL DEF FileJobsSpec

(* The only step of a job that removes a file that is complete is a failed     *)
(* import's; a backup that fails removes what it was writing.                *)
LEMMA OnlyImportsRemove ==
  ASSUME Inv, NEW j \in Jobs, Copy(j), NEW n \in Names, files[n].whole, files'[n] # files[n]
  PROVE  Removes(j, n) /\ files'[n] = Absent
<1>1. Shape(jobs[j]) /\ Owns(jobs[j], j, files) /\ files \in [Names -> FileType]
  BY DEF Inv, TypeOK
<1>2. ~Absent.whole /\ ~Begun(j).whole
  BY DEF Absent, Begun
<1>3. ~CopyOpen(j) /\ ~Copied(j) /\ ~ImportCheck(j) /\ ~CopyEnds(j)
  BY <1>1, <1>2 DEF CopyOpen, Copied, ImportCheck, CopyEnds, SetFile, Exists
<1>4. CASE CopyFails(j)
  <2>1. jobs[j].at = "copy" /\ Name(j) = n /\ files'[n] = Absent
    BY <1>1, <1>4 DEF CopyFails, Unlink, SetFile, Copying
  <2>2. jobs[j].op # "backup"
    BY <1>1, <1>2, <2>1 DEF Owns, Name
  <2> QED
    BY <1>4, <2>1, <2>2 DEF CopyFails, Copying, Removes, At
<1>5. CASE Undo(j)
  <2>1. /\ jobs[j].at = "undo" /\ jobs[j].made # <<>> /\ Head(jobs[j].made) = n
        /\ files'[n] = Absent
    BY <1>1, <1>5 DEF Undo, Unlink, SetFile, Copying
  <2>2. jobs[j].op # "backup"
    BY <1>1, <2>1 DEF Shape
  <2> QED
    BY <1>5, <2>1, <2>2 DEF Undo, Copying, Removes, At
<1> QED
  BY <1>3, <1>4, <1>5 DEF Copy

(* A complete file is never overwritten but by a replacement, nor removed but *)
(* by a failed import that had copied a file to its name, whoever has replaced*)
(* that file since (main.rs:1340).                                            *)
THEOREM FilesStay == FileJobsSpec => ExistingFilesStay
<1> DEFINE Kept(n) ==
      \E j \in Jobs : \/ At(j, "replace", "rename") /\ Name(j) = n /\ files'[n] = File(j)
                      \/ Removes(j, n) /\ files'[n] = Absent
<1>1. ASSUME Inv, Next, NEW n \in Names, files[n].whole, files'[n] # files[n]
      PROVE  Kept(n)
  <2>0. files \in [Names -> FileType] /\ ~Absent.whole
    BY <1>1 DEF Inv, TypeOK, Absent
  <2>1. PICK j \in Jobs : JobStep(j)
    <3>1. \A j \in Jobs : ~Begin(j)
      BY <1>1 DEF Begin, StartSave, StartBackup, StartImport, StartReplace, Start
    <3>2. \A i \in Names : ~Appear(i)
      BY <1>1, <2>0 DEF Appear, SetFile, Exists
    <3>3. \A p \in Processes : ~Kill(p)
      BY <1>1 DEF Kill
    <3> QED
      BY <1>1, <3>1, <3>2, <3>3 DEF Next
  <2>2. CASE Save(j)
    BY <1>1, <2>0, <2>2 DEF Save, SaveCheck, SaveWrite, SaveLink, SaveSync, SetFile, Exists
  <2>3. CASE Copy(j)
    BY <1>1, <2>3, OnlyImportsRemove
  <2>4. CASE Replace(j)
    BY <1>1, <2>0, <2>4 DEF Replace, ReplaceInspect, ReplaceOpen, ReplaceCopy, ReplaceRename, SetFile
  <2> QED
    BY <2>1, <2>2, <2>3, <2>4 DEF JobStep
<1>2. Inv /\ [Next]_fileVars =>
        [\A n \in Names : files[n].whole /\ files'[n] # files[n] => Kept(n)]_fileVars
  BY <1>1
<1> QED
  BY InitInv, StepInv, <1>2, PTL DEF FileJobsSpec, ExistingFilesStay

-------------------------------------------------------------------------------
(* All or nothing.                                                          *)

Members(s) == {s[i] : i \in DOMAIN s}
Injective(s) == \A i, k \in DOMAIN s : s[i] = s[k] => i = k

(* The names a job answers for: what it has copied and what it is copying.   *)
Claims(job) ==
  IF job.op \in {"import", "backup"} /\ job.at # "killed"
  THEN Members(job.made) \union (IF job.at = "copy" THEN {Head(job.todo)} ELSE {})
  ELSE {}

Replaced(n, fs, js) ==
  \E r \in Jobs : fs[n] = File(r) /\ js[r].op = "replace" /\ js[r].at = "done" /\ Head(js[r].todo) = n

(* Nobody else removes what a job answers for, though it may be replaced.    *)
Held(job, j, fs, js) ==
  \A n \in Claims(job) :
    \/ n \in Members(job.made) /\ fs[n] = File(j)
    \/ n \notin Members(job.made) /\ fs[n] = Begun(j)
    \/ Replaced(n, fs, js)

(* A job answers for every file it has made, but for what it could not remove. *)
Answers(job, j, fs) ==
  job.op # "save" /\ job.at \notin {"done", "killed"} =>
    \A n \in Names : fs[n].by = j => n \in Claims(job) \union job.stuck

Orderly(job) ==
  /\ Injective(job.made)
  /\ job.op \in {"import", "backup"} /\ job.at = "copy" => Head(job.todo) \notin Members(job.made)
  /\ job.op \in {"none", "save", "replace"} \/ job.at \in {"check", "failed"} => job.made = <<>>

ClaimsInv ==
  /\ \A j \in Jobs : /\ Orderly(jobs[j]) /\ Held(jobs[j], j, files, jobs)
                     /\ Answers(jobs[j], j, files)
  /\ \A i, j \in Jobs : i # j => Claims(jobs[i]) \cap Claims(jobs[j]) = {}

LEMMA AppendMembers ==
  ASSUME NEW S, NEW s \in Seq(S), NEW e \in S
  PROVE  /\ Members(Append(s, e)) = Members(s) \union {e}
         /\ Injective(s) /\ e \notin Members(s) => Injective(Append(s, e))
<1>1. /\ DOMAIN s = 1 .. Len(s) /\ Len(s) \in Nat
      /\ DOMAIN Append(s, e) = 1 .. (Len(s) + 1)
      /\ \A i \in 1 .. Len(s) : Append(s, e)[i] = s[i]
      /\ Append(s, e)[Len(s) + 1] = e
  BY AppendProperties
<1>2. Members(Append(s, e)) = Members(s) \union {e}
  BY <1>1 DEF Members
<1>3. Injective(s) /\ e \notin Members(s) => Injective(Append(s, e))
  BY <1>1 DEF Members, Injective
<1> QED
  BY <1>2, <1>3

LEMMA TailMembers ==
  ASSUME NEW S, NEW s \in Seq(S), s # <<>>
  PROVE  /\ Members(s) = {Head(s)} \union Members(Tail(s))
         /\ Injective(s) => Injective(Tail(s)) /\ Head(s) \notin Members(Tail(s))
<1>1. /\ DOMAIN s = 1 .. Len(s) /\ Len(s) \in Nat /\ Len(s) >= 1
      /\ Head(s) = s[1] /\ Tail(s) \in Seq(S) /\ Len(Tail(s)) = Len(s) - 1
      /\ DOMAIN Tail(s) = 1 .. (Len(s) - 1)
      /\ \A i \in 1 .. (Len(s) - 1) : Tail(s)[i] = s[i + 1]
  BY HeadTailProperties, EmptySeq
<1>2. Members(s) = {Head(s)} \union Members(Tail(s))
  <2>1. ASSUME NEW x \in Members(s)
        PROVE  x \in {Head(s)} \union Members(Tail(s))
    <3>1. PICK i \in 1 .. Len(s) : x = s[i]
      BY <1>1, <2>1 DEF Members
    <3>2. CASE i = 1
      BY <1>1, <3>1, <3>2
    <3>3. CASE i > 1
      <4>1. i - 1 \in 1 .. (Len(s) - 1) /\ Tail(s)[i - 1] = x
        BY <1>1, <3>1, <3>3
      <4> QED
        BY <1>1, <4>1 DEF Members
    <3> QED
      BY <1>1, <3>2, <3>3
  <2>2. {Head(s)} \union Members(Tail(s)) \subseteq Members(s)
    BY <1>1 DEF Members
  <2> QED
    BY <2>1, <2>2
<1>3. Injective(s) => Injective(Tail(s)) /\ Head(s) \notin Members(Tail(s))
  BY <1>1 DEF Members, Injective
<1> QED
  BY <1>2, <1>3

LEMMA EmptyMembers == Members(<<>>) = {} /\ Injective(<<>>)
  BY DEF Members, Injective

LEMMA ClaimsExist ==
  ASSUME Inv, ClaimsInv, NEW j \in Jobs, NEW n \in Claims(jobs[j])
  PROVE  n \in Names /\ files[n] # Absent
<1>1. jobs[j] \in JobType /\ Shape(jobs[j]) /\ Held(jobs[j], j, files, jobs)
  BY DEF Inv, TypeOK, ClaimsInv
<1>2. n \in Names
  BY <1>1, HeadTailProperties DEF Claims, Members, JobType, Shape
<1> QED
  BY <1>1, <1>2, FilesDiffer DEF Held, Replaced

(* A step of one job that changes only files nobody answers for, or itself.  *)
LEMMA ClaimStep ==
  ASSUME Inv, ClaimsInv, NEW j \in Jobs, NEW job, jobs' = [jobs EXCEPT ![j] = job],
         ~(jobs[j].op = "replace" /\ jobs[j].at = "done"),
         Orderly(job), Held(job, j, files', jobs'), Answers(job, j, files'),
         \A n \in Claims(job) : n \in Claims(jobs[j]) \/ files[n] = Absent,
         \A n \in Names : \/ files'[n] = files[n]
                          \/ /\ files'[n].by \in {j, Others}
                             /\ \/ files[n] = Absent \/ n \in Claims(jobs[j])
                                \/ Replaced(n, files', jobs')
  PROVE  ClaimsInv'
<1>0. jobs'[j] = job /\ \A i \in Jobs \ {j} : jobs'[i] = jobs[i]
  BY DEF Inv, TypeOK
<1>1. ASSUME NEW i \in Jobs, i # j
      PROVE  Orderly(jobs'[i]) /\ Held(jobs'[i], i, files', jobs') /\ Answers(jobs'[i], i, files')
  <2>1. /\ jobs'[i] = jobs[i]
        /\ Orderly(jobs[i]) /\ Held(jobs[i], i, files, jobs) /\ Answers(jobs[i], i, files)
    BY <1>0, <1>1 DEF ClaimsInv
  <2>2. ASSUME NEW n \in Claims(jobs[i])
        PROVE  files'[n] = files[n] \/ Replaced(n, files', jobs')
    BY <1>1, <2>2, ClaimsExist DEF ClaimsInv
  <2>3. ASSUME NEW n \in Claims(jobs[i]), files'[n] = files[n], Replaced(n, files, jobs)
        PROVE  Replaced(n, files', jobs')
    BY <1>0, <2>3 DEF Replaced
  <2>4. Held(jobs[i], i, files', jobs')
    BY <2>1, <2>2, <2>3 DEF Held
  <2>5. Answers(jobs[i], i, files')
    BY <1>1, <2>1, JobsAssumption DEF Answers
  <2> QED
    BY <2>1, <2>4, <2>5
<1>2. ASSUME NEW i \in Jobs, i # j
      PROVE  Claims(jobs'[i]) \cap Claims(jobs'[j]) = {}
  BY <1>0, <1>2, ClaimsExist DEF ClaimsInv
<1>3. \A i, k \in Jobs \ {j} : i # k => Claims(jobs'[i]) \cap Claims(jobs'[k]) = {}
  BY <1>0 DEF ClaimsInv
<1> QED
  BY <1>0, <1>1, <1>2, <1>3 DEF ClaimsInv

(* A running job that only goes to another place answers for the same files. *)
LEMMA GoClaims ==
  ASSUME Inv, ClaimsInv, NEW j \in Jobs, NEW at \in Places, Go(j, at), UNCHANGED files,
         jobs[j].at \notin {"done", "killed"}, at \notin {"check", "killed"},
         jobs[j].op \in {"import", "backup"} =>
           jobs[j].at # "copy" /\ at # "copy" /\ (at = "failed" => jobs[j].made = <<>>)
  PROVE  ClaimsInv'
<1> DEFINE job == Moved(jobs[j], at)
<1>1. /\ jobs \in [Jobs -> JobType] /\ jobs[j] \in JobType
      /\ Orderly(jobs[j]) /\ Held(jobs[j], j, files, jobs) /\ Answers(jobs[j], j, files)
  BY DEF Inv, TypeOK, ClaimsInv
<1>2. jobs' = [jobs EXCEPT ![j] = job] /\ job \in JobType
  BY <1>1, GoTyped
<1>3. /\ job.op = jobs[j].op /\ job.at = at /\ job.made = jobs[j].made
      /\ job.todo = jobs[j].todo /\ job.stuck = jobs[j].stuck
  BY <1>1, MovedJob DEF Moved, JobType
<1>4. Claims(job) = Claims(jobs[j])
  BY <1>3 DEF Claims
<1> HIDE DEF job
<1>5. Orderly(job) /\ Answers(job, j, files')
  <2>1. jobs[j].op \in {"none", "save", "replace", "import", "backup"}
    BY <1>1 DEF JobType
  <2>2. Orderly(job)
    BY <1>1, <1>3, <2>1 DEF Orderly
  <2>3. Answers(job, j, files')
    BY <1>1, <1>3, <1>4 DEF Answers
  <2> QED
    BY <2>2, <2>3
<1>6. ASSUME NEW n, Replaced(n, files, jobs)
      PROVE  Replaced(n, files', jobs')
  <2>1. \A r \in Jobs : r # j => jobs'[r] = jobs[r]
    BY <1>1, <1>2
  <2>2. ~(jobs[j].op = "replace" /\ jobs[j].at = "done")
    OBVIOUS
  <2> QED
    BY <1>6, <2>1, <2>2 DEF Replaced
<1>7. Held(job, j, files', jobs')
  BY <1>1, <1>3, <1>4, <1>6 DEF Held
<1> QED
  BY <1>2, <1>4, <1>5, <1>7, ClaimStep

LEMMA BeginClaims ==
  ASSUME Inv, ClaimsInv, NEW j \in Jobs, Begin(j)
  PROVE  ClaimsInv'
<1> DEFINE New(job) == /\ Start(j, job)
                       /\ job.made = <<>> /\ job.at \in {"check", "open", "inspect"}
                       /\ job.stuck = {}
<1>0. \E job : New(job)
  <2>1. ASSUME NEW op, NEW at \in {"check", "open", "inspect"}, NEW p, NEW names, NEW checked,
               Start(j, [Job(op, at, p, names) EXCEPT !.checked = checked])
        PROVE  \E job : New(job)
    <3>1. New([Job(op, at, p, names) EXCEPT !.checked = checked])
      BY <2>1 DEF Job, NoJob
    <3> QED
      BY <3>1
  <2>2. ASSUME NEW op, NEW at \in {"check", "open", "inspect"}, NEW p, NEW names,
               Start(j, Job(op, at, p, names))
        PROVE  \E job : New(job)
    <3>1. New(Job(op, at, p, names))
      BY <2>2 DEF Job, NoJob
    <3> QED
      BY <3>1
  <2> HIDE DEF New
  <2>3. ASSUME NEW p \in Processes, NEW k \in KeyFiles, StartSave(j, p, k) \/ StartBackup(j, p, k)
        PROVE  \E job : New(job)
    <3>1. CASE StartSave(j, p, k)
      BY <2>2, <3>1 DEF StartSave
    <3>2. CASE StartBackup(j, p, k)
      BY <2>2, <3>2 DEF StartBackup
    <3> QED
      BY <2>3, <3>1, <3>2
  <2>4. ASSUME NEW p \in Processes, NEW names \in Seq(Resources), StartImport(j, p, names)
        PROVE  \E job : New(job)
    BY <2>1, <2>4 DEF StartImport
  <2>5. ASSUME NEW p \in Processes, NEW n \in Resources, StartReplace(j, p, n)
        PROVE  \E job : New(job)
    BY <2>2, <2>5 DEF StartReplace
  <2> QED
    BY <2>3, <2>4, <2>5 DEF Begin
<1>1. PICK job : /\ jobs' = [jobs EXCEPT ![j] = job] /\ files' = files /\ jobs[j] = NoJob
                 /\ job.made = <<>> /\ job.at \in {"check", "open", "inspect"} /\ job.stuck = {}
  BY <1>0 DEF Start
<1>2. Claims(job) = {} /\ Claims(NoJob) = {}
  <2>1. Members(job.made) = {}
    BY <1>1, EmptyMembers
  <2>2. Claims(job) = {}
    BY <1>1, <2>1 DEF Claims
  <2>3. NoJob.op = "none"
    BY DEF NoJob
  <2>4. Claims(NoJob) = {}
    BY <2>3 DEF Claims
  <2> QED
    BY <2>2, <2>4
<1>3. \A n \in Names : files[n].by # j
  <2>1. Answers(NoJob, j, files)
    BY <1>1 DEF ClaimsInv
  <2>2. NoJob.op = "none" /\ NoJob.at = "idle" /\ NoJob.stuck = {}
    BY DEF NoJob
  <2> QED
    BY <1>2, <2>1, <2>2 DEF Answers
<1>4. Orderly(job) /\ Held(job, j, files', jobs') /\ Answers(job, j, files')
  BY <1>1, <1>2, <1>3, EmptyMembers DEF Orderly, Held, Answers
<1>5. jobs[j].op # "replace"
  BY <1>1 DEF NoJob
<1> QED
  BY <1>1, <1>2, <1>4, <1>5, ClaimStep

LEMMA SaveClaims ==
  ASSUME Inv, ClaimsInv, NEW j \in Jobs, Save(j)
  PROVE  ClaimsInv'
<1>1. jobs \in [Jobs -> JobType] /\ jobs[j] \in JobType /\ files \in [Names -> FileType]
  BY DEF Inv, TypeOK
<1>2. jobs[j].op = "save" /\ jobs[j].at \notin {"done", "killed"}
  BY DEF Save, SaveCheck, SaveWrite, SaveLink, SaveSync, At
<1>3. \/ \E at \in Places \ {"check", "killed"} : Go(j, at) /\ UNCHANGED files
      \/ SaveLink(j) /\ ~Exists(Name(j)) /\ SetFile(Name(j), File(j)) /\ Go(j, "sync")
  BY DEF Save, SaveCheck, SaveWrite, SaveLink, SaveSync, Places
<1>4. CASE \E at \in Places \ {"check", "killed"} : Go(j, at) /\ UNCHANGED files
  BY <1>2, <1>4, GoClaims
<1>5. CASE ~Exists(Name(j)) /\ SetFile(Name(j), File(j)) /\ Go(j, "sync")
  <2> DEFINE job == Moved(jobs[j], "sync")
  <2>1. jobs' = [jobs EXCEPT ![j] = job] /\ job.op = "save" /\ job.at = "sync"
        /\ job.made = jobs[j].made
    BY <1>1, <1>2, <1>5, MovedJob, GoTyped DEF Places
  <2> HIDE DEF job
  <2>2. Claims(job) = {} /\ Orderly(job) /\ Held(job, j, files', jobs') /\ Answers(job, j, files')
    BY <1>2, <2>1 DEF Claims, Orderly, Held, Answers, ClaimsInv
  <2>3. \A n \in Names : files'[n] = files[n] \/ (files[n] = Absent /\ files'[n].by = j)
    BY <1>1, <1>5 DEF SetFile, Exists, File
  <2> QED
    BY <1>2, <2>1, <2>2, <2>3, ClaimStep
<1> QED
  BY <1>3, <1>4, <1>5

LEMMA ReplaceClaims ==
  ASSUME Inv, ClaimsInv, NEW j \in Jobs, Replace(j)
  PROVE  ClaimsInv'
<1>1. jobs \in [Jobs -> JobType] /\ jobs[j] \in JobType /\ files \in [Names -> FileType]
  BY DEF Inv, TypeOK
<1>2. jobs[j].op = "replace" /\ jobs[j].at \notin {"done", "killed"}
  BY DEF Replace, ReplaceInspect, ReplaceOpen, ReplaceCopy, ReplaceRename, At
<1>3. \/ \E at \in Places \ {"check", "killed"} : Go(j, at) /\ UNCHANGED files
      \/ SetFile(Name(j), File(j)) /\ Go(j, "done")
  BY DEF Replace, ReplaceInspect, ReplaceOpen, ReplaceCopy, ReplaceRename, Places
<1>4. CASE \E at \in Places \ {"check", "killed"} : Go(j, at) /\ UNCHANGED files
  BY <1>2, <1>4, GoClaims
<1>5. CASE SetFile(Name(j), File(j)) /\ Go(j, "done")
  <2> DEFINE job == Moved(jobs[j], "done")
  <2>1. jobs' = [jobs EXCEPT ![j] = job] /\ job.op = "replace" /\ job.at = "done"
        /\ job.made = jobs[j].made /\ job.todo = jobs[j].todo
    BY <1>1, <1>2, <1>5, MovedJob, GoTyped DEF Places
  <2> HIDE DEF job
  <2>2. Claims(job) = {} /\ Orderly(job) /\ Held(job, j, files', jobs') /\ Answers(job, j, files')
    BY <1>2, <2>1 DEF Claims, Orderly, Held, Answers, ClaimsInv
  <2>3. jobs'[j] = job
    BY <1>1, <2>1
  <2>4. \A n \in Names : files'[n] = files[n] \/ (files'[n].by = j /\ Replaced(n, files', jobs'))
    BY <1>1, <1>5, <2>1, <2>3 DEF SetFile, File, Name, Replaced
  <2> QED
    BY <1>2, <2>1, <2>2, <2>4, ClaimStep
<1> QED
  BY <1>3, <1>4, <1>5

LEMMA AppearClaims ==
  ASSUME Inv, ClaimsInv, NEW n \in Names, Appear(n)
  PROVE  ClaimsInv'
<1>1. /\ jobs' = jobs /\ files[n] = Absent
      /\ \A m \in Names : files'[m] = files[m] \/ (m = n /\ files'[m].by = Others)
  BY DEF Inv, TypeOK, Appear, Exists, SetFile, File
<1>2. ASSUME NEW i \in Jobs
      PROVE  Held(jobs[i], i, files', jobs) /\ Answers(jobs[i], i, files')
  <2>1. Held(jobs[i], i, files, jobs) /\ Answers(jobs[i], i, files)
    BY DEF ClaimsInv
  <2>2. \A m \in Claims(jobs[i]) : files'[m] = files[m]
    BY <1>1, ClaimsExist
  <2>3. Held(jobs[i], i, files', jobs)
    BY <2>1, <2>2 DEF Held, Replaced
  <2>4. Answers(jobs[i], i, files')
    BY <1>1, <2>1, JobsAssumption DEF Answers
  <2> QED
    BY <2>3, <2>4
<1> QED
  BY <1>1, <1>2 DEF ClaimsInv

(* A killed job answers for nothing; a replacement that was done stays done.  *)
LEMMA KillClaims ==
  ASSUME Inv, ClaimsInv, NEW p \in Processes, Kill(p)
  PROVE  ClaimsInv'
<1>1. jobs \in [Jobs -> JobType] /\ "killed" \in Places
  BY DEF Inv, TypeOK, Places
<1>2. /\ files' = files
      /\ \A i \in Jobs : jobs'[i] = jobs[i] \/ (Running(i) /\ jobs'[i] = Moved(jobs[i], "killed"))
  BY DEF Kill, Moved
<1>3. ASSUME NEW i \in Jobs
      PROVE  Claims(jobs'[i]) = Claims(jobs[i]) \/ Claims(jobs'[i]) = {}
  <2>1. Moved(jobs[i], "killed").at = "killed"
    BY <1>1, MovedJob
  <2>2. Claims(Moved(jobs[i], "killed")) = {}
    BY <2>1 DEF Claims
  <2> QED
    BY <1>2, <2>2
<1>4. ASSUME NEW n, Replaced(n, files, jobs)
      PROVE  Replaced(n, files', jobs')
  BY <1>2, <1>4 DEF Replaced, Running
<1>5. ASSUME NEW i \in Jobs
      PROVE  Orderly(jobs'[i]) /\ Held(jobs'[i], i, files', jobs') /\ Answers(jobs'[i], i, files')
  <2>1. Orderly(jobs[i]) /\ Held(jobs[i], i, files, jobs) /\ Answers(jobs[i], i, files)
    BY DEF ClaimsInv
  <2>2. CASE jobs'[i] = jobs[i]
    BY <1>2, <1>4, <2>1, <2>2 DEF Held
  <2>3. CASE jobs'[i] = Moved(jobs[i], "killed")
    <3>1. jobs'[i].at = "killed" /\ jobs'[i].op = jobs[i].op /\ jobs'[i].made = jobs[i].made
      BY <1>1, <2>3, MovedJob
    <3> QED
      BY <2>1, <3>1 DEF Orderly, Held, Answers, Claims
  <2> QED
    BY <1>2, <2>2, <2>3
<1> QED
  BY <1>3, <1>5 DEF ClaimsInv

(* A job removes a file it answers for, or remembers that it could not.      *)
LEMMA UnlinkClaims ==
  ASSUME Inv, ClaimsInv, NEW j \in Jobs, NEW job \in JobType, NEW n \in Names, Unlink(j, n, job),
         jobs[j].op \in {"import", "backup"}, jobs[j].at \in {"copy", "undo"},
         n \in Claims(jobs[j]), job.op = jobs[j].op, job.at = "undo", job.stuck = jobs[j].stuck,
         Injective(job.made), Members(job.made) = Claims(jobs[j]) \ {n},
         Members(jobs[j].made) \ {n} = Members(job.made)
  PROVE  ClaimsInv'
<1>1. /\ Orderly(jobs[j]) /\ Held(jobs[j], j, files, jobs) /\ Answers(jobs[j], j, files)
      /\ jobs \in [Jobs -> JobType] /\ files \in [Names -> FileType]
  BY DEF Inv, TypeOK, ClaimsInv
<1>2. PICK left : /\ jobs' = [jobs EXCEPT ![j] = left]
                  /\ left.op = job.op /\ left.at = "undo" /\ left.made = job.made
                  /\ \/ left.stuck = jobs[j].stuck /\ SetFile(n, Absent)
                     \/ left.stuck = jobs[j].stuck \union {n} /\ UNCHANGED files
  <2>1. CASE SetFile(n, Absent) /\ jobs' = [jobs EXCEPT ![j] = job]
    BY <2>1
  <2>2. CASE UNCHANGED files /\ jobs' = [jobs EXCEPT ![j] = [job EXCEPT !.stuck = @ \union {n}]]
    <3> DEFINE left == [job EXCEPT !.stuck = @ \union {n}]
    <3>1. left.op = job.op /\ left.at = "undo" /\ left.made = job.made
          /\ left.stuck = jobs[j].stuck \union {n}
      BY DEF JobType
    <3> HIDE DEF left
    <3> QED
      BY <2>2, <3>1 DEF left
  <2> QED
    BY <2>1, <2>2 DEF Unlink
<1>3. Claims(left) = Members(job.made) /\ Claims(left) = Claims(jobs[j]) \ {n}
  BY <1>2 DEF Claims
<1>4. Orderly(left)
  BY <1>2 DEF Orderly
<1>5. \A m \in Names : files'[m] = files[m] \/ (m = n /\ files'[m] = Absent)
  BY <1>1, <1>2 DEF SetFile
<1>6. \A m \in Claims(left) : /\ m \in Names /\ m # n /\ m \in Claims(jobs[j]) /\ files'[m] = files[m]
                              /\ (m \in Members(jobs[j].made) <=> m \in Members(left.made))
  BY <1>2, <1>3, <1>5, ClaimsExist
<1>7. ASSUME NEW m, m \in Names, files'[m] = files[m], Replaced(m, files, jobs)
      PROVE  Replaced(m, files', jobs')
  <2>1. \A r \in Jobs : r # j => jobs'[r] = jobs[r]
    BY <1>1, <1>2
  <2> QED
    BY <1>7, <2>1 DEF Replaced
<1>8. Held(left, j, files', jobs')
  BY <1>1, <1>6, <1>7 DEF Held
<1>9. Answers(left, j, files')
  <2>1. ASSUME NEW m \in Names, files'[m].by = j
        PROVE  m \in Claims(left) \union left.stuck
    <3>1. Absent.by # j
      BY JobsAssumption DEF Absent
    <3>2. files'[m] = files[m] /\ (m = n => n \in left.stuck)
      BY <1>1, <1>2, <2>1, <3>1 DEF SetFile
    <3>3. m \in Claims(jobs[j]) \union jobs[j].stuck
      BY <1>1, <2>1, <3>2 DEF Answers
    <3> QED
      BY <1>2, <1>3, <3>2, <3>3
  <2> QED
    BY <2>1 DEF Answers
<1>10. \A m \in Names : files'[m] = files[m] \/ (files'[m].by = Others /\ m \in Claims(jobs[j]))
  BY <1>5 DEF Absent
<1>11. \A m \in Claims(left) : m \in Claims(jobs[j])
  BY <1>3
<1> QED
  BY <1>2, <1>4, <1>8, <1>9, <1>10, <1>11, ClaimStep

LEMMA CopyClaims ==
  ASSUME Inv, ClaimsInv, NEW j \in Jobs, Copy(j)
  PROVE  ClaimsInv'
<1>1. /\ jobs[j] \in JobType /\ Shape(jobs[j])
      /\ jobs[j].op \in {"import", "backup"} /\ jobs[j].at \notin {"done", "killed"}
      /\ jobs \in [Jobs -> JobType] /\ files \in [Names -> FileType]
  BY DEF Inv, TypeOK, Copy, ImportCheck, CopyOpen, Copied, CopyFails, CopyEnds, Undo, At, Copying
<1>2. /\ Orderly(jobs[j]) /\ Held(jobs[j], j, files, jobs) /\ Answers(jobs[j], j, files)
      /\ jobs[j].made \in Seq(Names)
  BY <1>1 DEF ClaimsInv, JobType
<1>3. /\ jobs[j].todo # <<>> => Name(j) \in Names
      /\ jobs[j].at = "copy" =>
           /\ jobs[j].todo # <<>> /\ Name(j) \notin Members(jobs[j].made)
           /\ Claims(jobs[j]) = Members(jobs[j].made) \union {Name(j)}
      /\ jobs[j].at # "copy" => Claims(jobs[j]) = Members(jobs[j].made)
  <2>1. jobs[j].todo # <<>> => Name(j) \in Names
    BY <1>1, HeadTailProperties DEF JobType, Name
  <2>2. jobs[j].at = "copy" => jobs[j].todo # <<>> /\ Name(j) \notin Members(jobs[j].made)
    BY <1>1, <1>2 DEF Orderly, Shape, Name
  <2>3. /\ jobs[j].at = "copy" => Claims(jobs[j]) = Members(jobs[j].made) \union {Name(j)}
        /\ jobs[j].at # "copy" => Claims(jobs[j]) = Members(jobs[j].made)
    BY <1>1 DEF Claims, Name
  <2> QED
    BY <2>1, <2>2, <2>3
<1>4. ASSUME NEW at \in Places \ {"check", "copy", "killed"}, Go(j, at), UNCHANGED files,
             jobs[j].at # "copy", at = "failed" => jobs[j].made = <<>>
      PROVE  ClaimsInv'
  BY <1>1, <1>4, GoClaims
<1>5. CASE ImportCheck(j)
  <2>1. jobs[j].op = "import" /\ jobs[j].at = "check" /\ jobs[j].made = <<>> /\ UNCHANGED files
    BY <1>2, <1>5 DEF ImportCheck, At, Orderly
  <2>2. CASE Go(j, "open") \/ Go(j, "failed")
    BY <1>4, <2>1, <2>2 DEF Places
  <2>3. CASE jobs' = [jobs EXCEPT ![j].checked = Tail(@),
                                  ![j].todo = Append(@, Head(jobs[j].checked))]
    <3> DEFINE job == [jobs[j] EXCEPT !.checked = Tail(@), !.todo = Append(@, Head(jobs[j].checked))]
    <3>1. jobs' = [jobs EXCEPT ![j] = job]
      BY <1>1, <2>3 DEF JobType
    <3>2. /\ job.op = "import" /\ job.at = "check" /\ job.made = <<>>
          /\ job.stuck = jobs[j].stuck
      BY <1>1, <2>1 DEF JobType
    <3> HIDE DEF job
    <3>3. Claims(job) = {} /\ Claims(jobs[j]) = {}
      BY <1>3, <2>1, <3>2, EmptyMembers DEF Claims
    <3>4. Orderly(job) /\ Held(job, j, files', jobs')
      BY <3>2, <3>3, EmptyMembers DEF Orderly, Held
    <3>5. Answers(job, j, files')
      BY <1>2, <2>1, <3>2, <3>3 DEF Answers
    <3> QED
      BY <2>1, <3>1, <3>3, <3>4, <3>5, ClaimStep
  <2> QED
    BY <1>5, <2>2, <2>3 DEF ImportCheck
<1>6. CASE CopyOpen(j)
  <2>1. jobs[j].todo # <<>> /\ jobs[j].at = "open" /\ Name(j) \in Names
    BY <1>3, <1>6 DEF CopyOpen, Copying
  <2>2. CASE ~Exists(Name(j)) /\ SetFile(Name(j), Begun(j)) /\ Go(j, "copy")
    <3> DEFINE job == Moved(jobs[j], "copy")
    <3>0. "copy" \in Places
      BY DEF Places
    <3>1. /\ jobs' = [jobs EXCEPT ![j] = job] /\ job.op = jobs[j].op /\ job.at = "copy"
          /\ job.made = jobs[j].made /\ job.todo = jobs[j].todo /\ job.stuck = jobs[j].stuck
      <4>1. jobs' = [jobs EXCEPT ![j] = job]
        BY <1>1, <2>2, <3>0, GoTyped
      <4>2. job.stuck = jobs[j].stuck
        BY <1>1 DEF Moved, JobType
      <4> QED
        BY <1>1, <3>0, <4>1, <4>2, MovedJob
    <3> HIDE DEF job
    <3>2. Name(j) \notin Claims(jobs[j])
      BY <2>2, ClaimsExist DEF Exists
    <3>3. /\ Claims(jobs[j]) = Members(job.made)
          /\ Claims(job) = Claims(jobs[j]) \union {Name(j)}
      BY <1>1, <1>3, <2>1, <3>1 DEF Claims, Name
    <3>4. Orderly(job)
      BY <1>1, <1>2, <3>1, <3>2, <3>3 DEF Orderly, Name
    <3>5. /\ files'[Name(j)] = Begun(j) /\ files[Name(j)] = Absent
          /\ \A m \in Names \ {Name(j)} : files'[m] = files[m]
      BY <1>1, <2>1, <2>2 DEF SetFile, Exists
    <3>6. ASSUME NEW m \in Claims(jobs[j])
          PROVE  /\ m \in Members(job.made)
                 /\ files'[m] = File(j) \/ Replaced(m, files', jobs')
      <4>1. m \in Members(job.made) /\ m \in Names /\ m # Name(j)
        BY <3>2, <3>3, ClaimsExist
      <4>2. files'[m] = files[m] /\ (files[m] = File(j) \/ Replaced(m, files, jobs))
        BY <1>2, <3>1, <3>5, <4>1 DEF Held
      <4>3. \A r \in Jobs : r # j => jobs'[r] = jobs[r]
        BY <1>1, <3>1
      <4>4. Replaced(m, files, jobs) => Replaced(m, files', jobs')
        BY <1>1, <4>2, <4>3 DEF Replaced
      <4> QED
        BY <4>1, <4>2, <4>4
    <3>7. Held(job, j, files', jobs')
      BY <3>2, <3>3, <3>5, <3>6 DEF Held
    <3>8. Answers(job, j, files')
      BY <1>1, <1>2, <2>1, <3>1, <3>3, <3>5 DEF Answers
    <3>9. \A m \in Names : files'[m] = files[m] \/ (files'[m].by = j /\ files[m] = Absent)
      BY <3>5 DEF Begun
    <3>10. \A m \in Claims(job) : m \in Claims(jobs[j]) \/ files[m] = Absent
      BY <3>3, <3>5
    <3>11. ~(jobs[j].op = "replace" /\ jobs[j].at = "done")
      BY <1>1
    <3> QED
      BY <3>1, <3>4, <3>7, <3>8, <3>9, <3>10, <3>11, ClaimStep
  <2>3. CASE Go(j, "undo") /\ UNCHANGED files
    BY <1>4, <2>1, <2>3 DEF Places
  <2> QED
    BY <1>6, <2>2, <2>3 DEF CopyOpen
<1>7. CASE Copied(j)
  <2> DEFINE job == [jobs[j] EXCEPT !.at = "open", !.todo = Tail(@), !.made = Append(@, Name(j))]
  <2>1. jobs[j].at = "copy" /\ jobs[j].todo # <<>> /\ Name(j) \in Names
    BY <1>3, <1>7 DEF Copied, Copying
  <2>2. jobs' = [jobs EXCEPT ![j] = job]
    BY <1>1, <1>7 DEF Copied, JobType
  <2>3. /\ job.op = jobs[j].op /\ job.at = "open" /\ job.stuck = jobs[j].stuck
        /\ job.made = Append(jobs[j].made, Name(j))
    BY <1>1 DEF JobType
  <2> HIDE DEF job
  <2>4. Members(job.made) = Members(jobs[j].made) \union {Name(j)} /\ Injective(job.made)
    BY <1>2, <1>3, <2>1, <2>3, AppendMembers DEF Orderly
  <2>5. Claims(job) = Members(job.made) /\ Claims(job) = Claims(jobs[j])
    BY <1>1, <1>3, <2>1, <2>3, <2>4 DEF Claims
  <2>6. Orderly(job)
    BY <1>1, <2>3, <2>4 DEF Orderly
  <2>7. /\ files[Name(j)] = Begun(j) => files'[Name(j)] = File(j)
        /\ \A m \in Names : \/ files'[m] = files[m]
                            \/ m = Name(j) /\ files'[m] = File(j) /\ files[m] = Begun(j)
    BY <1>1, <1>7, <2>1 DEF Copied
  <2>8. ASSUME NEW m \in Claims(job)
        PROVE  files'[m] = File(j) \/ Replaced(m, files', jobs')
    <3>1. m \in Names /\ m \in Claims(jobs[j])
      BY <2>5, ClaimsExist
    <3>2. CASE Replaced(m, files, jobs)
      <4>1. \A r \in Jobs : r # j => jobs'[r] = jobs[r]
        BY <1>1, <2>2
      <4>2. files'[m] = files[m] \/ files'[m] = File(j)
        BY <2>7, <3>1
      <4> QED
        BY <1>1, <3>2, <4>1, <4>2 DEF Replaced
    <3>3. CASE m \in Members(jobs[j].made) /\ files[m] = File(j)
      BY <2>7, <3>1, <3>3
    <3>4. CASE m \notin Members(jobs[j].made) /\ files[m] = Begun(j)
      BY <1>3, <2>1, <2>7, <3>1, <3>4
    <3> QED
      BY <1>2, <3>1, <3>2, <3>3, <3>4 DEF Held
  <2>9. Held(job, j, files', jobs')
    BY <2>5, <2>8 DEF Held
  <2>10. Answers(job, j, files')
    <3>1. Begun(j).by = j /\ File(j).by = j
      BY DEF Begun, File
    <3> QED
      BY <1>1, <1>2, <2>1, <2>3, <2>5, <2>7, <3>1 DEF Answers
  <2>11. \A m \in Names : files'[m] = files[m] \/ (files'[m].by = j /\ m \in Claims(jobs[j]))
    BY <1>3, <2>1, <2>7 DEF File
  <2>12. ~(jobs[j].op = "replace" /\ jobs[j].at = "done")
    BY <1>1
  <2> QED
    BY <2>2, <2>5, <2>6, <2>9, <2>10, <2>11, <2>12, ClaimStep
<1>8. CASE CopyFails(j)
  <2> DEFINE job == Moved(jobs[j], "undo")
  <2>1. /\ jobs[j].at = "copy" /\ Name(j) \in Names /\ Unlink(j, Name(j), job)
    BY <1>3, <1>8 DEF CopyFails, Copying, Moved
  <2>2. /\ job \in JobType /\ job.op = jobs[j].op /\ job.at = "undo" /\ job.made = jobs[j].made
        /\ job.stuck = jobs[j].stuck
    <3>1. jobs[j] \in JobType /\ "undo" \in Places
      BY <1>1 DEF Places
    <3>2. job.stuck = jobs[j].stuck
      BY <3>1 DEF Moved, JobType
    <3> QED
      BY <3>1, <3>2, MovedJob, Zenon
  <2> HIDE DEF job
  <2>3. Name(j) \in Claims(jobs[j]) /\ Members(job.made) = Claims(jobs[j]) \ {Name(j)}
        /\ Members(jobs[j].made) \ {Name(j)} = Members(job.made) /\ Injective(job.made)
    BY <1>2, <1>3, <2>1, <2>2 DEF Orderly
  <2> QED
    BY <1>1, <2>1, <2>2, <2>3, UnlinkClaims
<1>9. CASE CopyEnds(j)
  BY <1>4, <1>9 DEF CopyEnds, Copying, Places
<1>10. CASE Undo(j)
  <2>1. jobs[j].at = "undo"
    BY <1>10 DEF Undo, Copying
  <2>2. CASE jobs[j].made = <<>> /\ Go(j, "failed") /\ UNCHANGED files
    BY <1>4, <2>1, <2>2 DEF Places
  <2>3. CASE /\ jobs[j].made # <<>>
             /\ Unlink(j, Head(jobs[j].made), [jobs[j] EXCEPT !.made = Tail(@)])
    <3> DEFINE job == [jobs[j] EXCEPT !.made = Tail(@)]
    <3> DEFINE n == Head(jobs[j].made)
    <3>1. n \in Names /\ Tail(jobs[j].made) \in Seq(Names)
      BY <1>2, <2>3, HeadTailProperties
    <3>2. /\ job \in JobType /\ job.op = jobs[j].op /\ job.at = "undo"
          /\ job.made = Tail(jobs[j].made) /\ job.stuck = jobs[j].stuck
      BY <1>1, <2>1, <3>1 DEF JobType
    <3>3. Unlink(j, n, job)
      BY <2>3
    <3>4. /\ n \in Claims(jobs[j]) /\ Members(job.made) = Claims(jobs[j]) \ {n}
          /\ Members(jobs[j].made) \ {n} = Members(job.made) /\ Injective(job.made)
      <4>1. /\ Members(jobs[j].made) = {n} \union Members(Tail(jobs[j].made))
            /\ Injective(Tail(jobs[j].made)) /\ n \notin Members(Tail(jobs[j].made))
        BY <1>2, <2>3, TailMembers DEF Orderly
      <4>2. Claims(jobs[j]) = Members(jobs[j].made)
        BY <1>3, <2>1
      <4> HIDE DEF job, n
      <4> QED
        BY <3>2, <4>1, <4>2
    <3> HIDE DEF job, n
    <3> QED
      BY <1>1, <2>1, <3>1, <3>2, <3>3, <3>4, UnlinkClaims
  <2> QED
    BY <1>10, <2>2, <2>3 DEF Undo
<1> QED
  BY <1>5, <1>6, <1>7, <1>8, <1>9, <1>10 DEF Copy

LEMMA InitClaims == Init => ClaimsInv
<1> SUFFICES ASSUME Init
             PROVE  ClaimsInv
  OBVIOUS
<1>1. NoJob.op = "none" /\ NoJob.at = "idle" /\ NoJob.made = <<>>
  BY DEF NoJob
<1>2. Claims(NoJob) = {} /\ Orderly(NoJob)
  BY <1>1, EmptyMembers DEF Claims, Orderly
<1>3. \A j \in Jobs : jobs[j] = NoJob
  BY DEF Init
<1>4. \A n \in Names : files[n].by = Others
  BY DEF Init, Absent, File
<1>5. ASSUME NEW j \in Jobs
      PROVE  Held(NoJob, j, files, jobs) /\ Answers(NoJob, j, files)
  BY <1>2, <1>4, JobsAssumption DEF Held, Answers
<1> QED
  BY <1>2, <1>3, <1>5 DEF ClaimsInv

LEMMA StepClaims == Inv /\ ClaimsInv /\ [Next]_fileVars => ClaimsInv'
<1> SUFFICES ASSUME Inv, ClaimsInv, [Next]_fileVars
             PROVE  ClaimsInv'
  OBVIOUS
<1>1. CASE UNCHANGED fileVars
  BY <1>1 DEF fileVars, ClaimsInv, Held, Replaced, Answers
<1>2. ASSUME NEW j \in Jobs, Begin(j) \/ JobStep(j)
      PROVE  ClaimsInv'
  BY <1>2, BeginClaims, SaveClaims, CopyClaims, ReplaceClaims DEF JobStep
<1>3. ASSUME NEW n \in Names, Appear(n)
      PROVE  ClaimsInv'
  BY <1>3, AppearClaims
<1>4. ASSUME NEW p \in Processes, Kill(p)
      PROVE  ClaimsInv'
  BY <1>4, KillClaims
<1> QED
  BY <1>1, <1>2, <1>3, <1>4 DEF Next

(* However many jobs, of however many processes, import, back up, replace and *)
(* save at the same time: a copy that reports success has put its files there,*)
(* complete, and one that reports failure has left none (main.rs:1324).       *)
THEOREM CopiesAllOrNothing == FileJobsSpec => []AllOrNothing
<1>1. Inv /\ ClaimsInv => AllOrNothing
  <2> SUFFICES ASSUME Inv, ClaimsInv, NEW j \in Jobs
               PROVE  /\ jobs[j].op \in {"import", "backup"} /\ jobs[j].at = "done" =>
                           \A i \in DOMAIN jobs[j].made :
                             files[jobs[j].made[i]] \in {File(s) : s \in Successors(j, jobs[j].made[i])}
                      /\ jobs[j].op # "save" /\ jobs[j].at = "failed" =>
                           \A n \in Names : files[n].by = j => n \in jobs[j].stuck
    BY DEF AllOrNothing
  <2>1. Orderly(jobs[j]) /\ Held(jobs[j], j, files, jobs) /\ Answers(jobs[j], j, files)
    BY DEF ClaimsInv
  <2>2. ASSUME jobs[j].op \in {"import", "backup"}, jobs[j].at = "done", NEW i \in DOMAIN jobs[j].made
        PROVE  files[jobs[j].made[i]] \in {File(s) : s \in Successors(j, jobs[j].made[i])}
    <3> DEFINE n == jobs[j].made[i]
    <3>1. n \in Members(jobs[j].made) /\ n \in Claims(jobs[j])
      BY <2>2 DEF Members, Claims
    <3>2. CASE files[n] = File(j)
      BY <3>2 DEF Successors
    <3>3. CASE Replaced(n, files, jobs)
      <4> HIDE DEF n
      <4>1. PICK r \in Jobs : /\ files[n] = File(r) /\ jobs[r].op = "replace"
                              /\ jobs[r].at = "done" /\ Head(jobs[r].todo) = n
        BY <3>3 DEF Replaced
      <4>2. r \in Successors(j, n)
        BY <4>1 DEF Successors, At, Name
      <4>3. files[n] \in {File(s) : s \in Successors(j, n)}
        BY <4>1, <4>2
      <4> QED
        BY <4>3 DEF n
    <3> QED
      BY <2>1, <3>1, <3>2, <3>3 DEF Held
  <2>3. ASSUME jobs[j].op # "save", jobs[j].at = "failed", NEW n \in Names, files[n].by = j
        PROVE  n \in jobs[j].stuck
    <3>1. jobs[j].made = <<>>
      BY <2>1, <2>3 DEF Orderly
    <3>2. Claims(jobs[j]) = {}
      BY <2>3, <3>1, EmptyMembers DEF Claims
    <3> QED
      BY <2>1, <2>3, <3>2 DEF Answers
  <2> QED
    BY <2>2, <2>3
<1> QED
  BY InitInv, StepInv, InitClaims, StepClaims, <1>1, PTL DEF FileJobsSpec
===============================================================================
