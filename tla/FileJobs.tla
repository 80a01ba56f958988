------------------------------- MODULE FileJobs -------------------------------
(***************************************************************************)
(* The jobs that put files where other programs put files too: a private   *)
(* key is saved (pack/identity.rs); resources are imported, one of them is *)
(* replaced, a key is backed up (gui/main.rs).  Jobs of several processes  *)
(* run at the same time, any call of the file system may fail, and a       *)
(* process may be killed between two of them.                              *)
(*                                                                         *)
(* A file is who made it and whether all of it is there.  A job that       *)
(* writes a file which was renamed over meanwhile writes to the old file.  *)
(***************************************************************************)
EXTENDS Integers, Sequences

CONSTANTS
  Jobs,
  Processes,
  Resources,     \* the names in the directory of assets
  KeyFiles,      \* the paths where keys are saved and backed up to
  Others         \* whoever made the files that no job made

Names == Resources \union KeyFiles

ASSUME JobsAssumption ==
  /\ Others \notin Jobs
  /\ Resources \cap KeyFiles = {}

VARIABLES
  files,         \* the file of each name, or Absent
  parts,         \* temporary files of replacements, <<name, process>>, in use
  jobs

fileVars == <<files, parts, jobs>>

Absent == [by |-> Others, whole |-> FALSE]
File(by) == [by |-> by, whole |-> TRUE]
Begun(by) == [by |-> by, whole |-> FALSE]
Exists(n) == files[n] # Absent

NoJob == [op |-> "none", at |-> "idle", process |-> Others,
          checked |-> <<>>, todo |-> <<>>, made |-> <<>>, stuck |-> {}]
Job(op, at, p, names) == [NoJob EXCEPT !.op = op, !.at = at, !.process = p, !.todo = names]

Name(j) == Head(jobs[j].todo)
At(j, op, at) == jobs[j].op = op /\ jobs[j].at = at
Copying(j, at) == jobs[j].op \in {"import", "backup"} /\ jobs[j].at = at
Running(j) == jobs[j].at \notin {"idle", "done", "failed", "killed"}

Go(j, at) == jobs' = [jobs EXCEPT ![j].at = at]
SetFile(n, file) == files' = [files EXCEPT ![n] = file]

Init ==
  /\ files \in [Names -> {Absent, File(Others)}]
  /\ parts = {} /\ jobs = [j \in Jobs |-> NoJob]

Start(j, job) ==
  /\ jobs[j] = NoJob
  /\ jobs' = [jobs EXCEPT ![j] = job] /\ UNCHANGED <<files, parts>>

StartSave(j, p, k) == Start(j, Job("save", "check", p, <<k>>))
StartBackup(j, p, k) == Start(j, Job("backup", "open", p, <<k>>))
StartImport(j, p, names) == Start(j, [Job("import", "check", p, <<>>) EXCEPT !.checked = names])
StartReplace(j, p, n) == Start(j, Job("replace", "inspect", p, <<n>>))

-------------------------------------------------------------------------------
(* save_private_file.  The key is written to a temporary file first, whose  *)
(* name is nobody else's and which is left out here.                        *)

SaveCheck(j) ==
  /\ At(j, "save", "check")
  /\ Go(j, IF Exists(Name(j)) THEN "failed" ELSE "write") /\ UNCHANGED <<files, parts>>

SaveWrite(j) ==
  /\ At(j, "save", "write")
  /\ Go(j, "link") \/ Go(j, "failed")
  /\ UNCHANGED <<files, parts>>

(* Mutant: renaming, which replaces what is there.                           *)
SaveLinkByRename(j) ==
  /\ At(j, "save", "link")
  /\ SetFile(Name(j), File(j)) /\ Go(j, "sync") /\ UNCHANGED parts

(* A link is made only where nothing is.                                     *)
SaveLink(j) ==
  /\ At(j, "save", "link")
  /\ \/ ~Exists(Name(j)) /\ SetFile(Name(j), File(j)) /\ Go(j, "sync")
     \/ Go(j, "failed") /\ UNCHANGED files
  /\ UNCHANGED parts

(* The directory.                                                            *)
SaveSync(j) ==
  /\ At(j, "save", "sync")
  /\ Go(j, "done") \/ Go(j, "failed")
  /\ UNCHANGED <<files, parts>>

Save(j) == SaveCheck(j) \/ SaveWrite(j) \/ SaveLink(j) \/ SaveSync(j)

-------------------------------------------------------------------------------
(* import_resources, and copy_new_file by itself for a backup.              *)

(* All are looked at before any is copied; a file that is a key, is not a    *)
(* regular file, is chosen twice or is there already makes it fail.          *)
ImportCheck(j) ==
  /\ At(j, "import", "check")
  /\ \/ jobs[j].checked = <<>> /\ Go(j, "open")
     \/ Go(j, "failed")
     \/ /\ jobs[j].checked # <<>> /\ ~Exists(Head(jobs[j].checked))
        /\ \A i \in DOMAIN jobs[j].todo : jobs[j].todo[i] # Head(jobs[j].checked)
        /\ jobs' = [jobs EXCEPT ![j].checked = Tail(@),
                                ![j].todo = Append(@, Head(jobs[j].checked))]
  /\ UNCHANGED <<files, parts>>

(* Mutant: a file that is there is overwritten.                              *)
CopyOpenAnyway(j) ==
  /\ Copying(j, "open") /\ jobs[j].todo # <<>>
  /\ \/ SetFile(Name(j), Begun(j)) /\ Go(j, "copy")
     \/ Go(j, "undo") /\ UNCHANGED files
  /\ UNCHANGED parts

(* Only a new file is opened.                                                *)
CopyOpen(j) ==
  /\ Copying(j, "open") /\ jobs[j].todo # <<>>
  /\ \/ ~Exists(Name(j)) /\ SetFile(Name(j), Begun(j)) /\ Go(j, "copy")
     \/ Go(j, "undo") /\ UNCHANGED files
  /\ UNCHANGED parts

Copied(j) ==
  /\ Copying(j, "copy")
  /\ files' = IF files[Name(j)] = Begun(j) THEN [files EXCEPT ![Name(j)] = File(j)] ELSE files
  /\ jobs' = [jobs EXCEPT ![j].at = "open", ![j].todo = Tail(@), ![j].made = Append(@, Name(j))]
  /\ UNCHANGED parts

(* Removing by name, unless that fails too.                                  *)
Unlink(j, n, job) ==
  \/ SetFile(n, Absent) /\ jobs' = [jobs EXCEPT ![j] = job]
  \/ UNCHANGED files /\ jobs' = [jobs EXCEPT ![j] = [job EXCEPT !.stuck = @ \union {n}]]

CopyFails(j) ==
  /\ Copying(j, "copy")
  /\ Unlink(j, Name(j), [jobs[j] EXCEPT !.at = "undo"])
  /\ UNCHANGED parts

CopyEnds(j) ==
  /\ Copying(j, "open") /\ jobs[j].todo = <<>>
  /\ Go(j, "done") /\ UNCHANGED <<files, parts>>

(* Mutant: what had been imported stays.                                     *)
UndoNothing(j) == Copying(j, "undo") /\ Go(j, "failed") /\ UNCHANGED <<files, parts>>

(* A failed import removes what it had copied.                               *)
Undo(j) ==
  /\ Copying(j, "undo")
  /\ \/ jobs[j].made = <<>> /\ Go(j, "failed") /\ UNCHANGED files
     \/ /\ jobs[j].made # <<>>
        /\ Unlink(j, Head(jobs[j].made), [jobs[j] EXCEPT !.made = Tail(@)])
  /\ UNCHANGED parts

Copy(j) == ImportCheck(j) \/ CopyOpen(j) \/ Copied(j) \/ CopyFails(j) \/ CopyEnds(j) \/ Undo(j)

-------------------------------------------------------------------------------
(* replace_file: the temporary name is that of any replacement of the       *)
(* resource by the same process.                                            *)

Part(j) == <<Name(j), jobs[j].process>>

ReplaceInspect(j) ==
  /\ At(j, "replace", "inspect")
  /\ \/ Exists(Name(j)) /\ Go(j, "open")
     \/ Go(j, "failed")
  /\ UNCHANGED <<files, parts>>

ReplaceOpen(j) ==
  /\ At(j, "replace", "open")
  /\ \/ Part(j) \notin parts /\ parts' = parts \union {Part(j)} /\ Go(j, "copy")
     \/ Go(j, "failed") /\ UNCHANGED parts
  /\ UNCHANGED files

(* The copy and its permissions.                                             *)
ReplaceCopy(j) ==
  /\ At(j, "replace", "copy")
  /\ \/ Go(j, "rename") /\ UNCHANGED parts
     \/ Go(j, "failed") /\ parts' \in {parts, parts \ {Part(j)}}
  /\ UNCHANGED files

ReplaceRename(j) ==
  /\ At(j, "replace", "rename")
  /\ \/ SetFile(Name(j), File(j)) /\ parts' = parts \ {Part(j)} /\ Go(j, "done")
     \/ UNCHANGED files /\ parts' \in {parts, parts \ {Part(j)}} /\ Go(j, "failed")

Replace(j) == ReplaceInspect(j) \/ ReplaceOpen(j) \/ ReplaceCopy(j) \/ ReplaceRename(j)

-------------------------------------------------------------------------------

JobStep(j) == Save(j) \/ Copy(j) \/ Replace(j)

(* Another program makes a file, never over one that is there.               *)
Appear(n) ==
  ~Exists(n) /\ SetFile(n, File(Others)) /\ UNCHANGED <<parts, jobs>>

(* What a killed process was doing stays half done.  Its temporary files stay  *)
(* too, under names that no later process uses, which has another number.    *)
Kill(p) ==
  /\ jobs' = [j \in Jobs |-> IF jobs[j].process = p /\ Running(j)
                             THEN [jobs[j] EXCEPT !.at = "killed"] ELSE jobs[j]]
  /\ parts' = {part \in parts : part[2] # p}
  /\ UNCHANGED files

Begin(j) ==
  \E p \in Processes :
    \/ \E k \in KeyFiles : StartSave(j, p, k) \/ StartBackup(j, p, k)
    \/ \E names \in Seq(Resources) : StartImport(j, p, names)
    \/ \E n \in Resources : StartReplace(j, p, n)

Next ==
  \/ \E j \in Jobs : Begin(j) \/ JobStep(j)
  \/ \E n \in Names : Appear(n)
  \/ \E p \in Processes : Kill(p)

FileJobsSpec == Init /\ [][Next]_fileVars

-------------------------------------------------------------------------------
(* Properties.                                                              *)

(* A key that was saved is there as it was saved, whole, and stays: however   *)
(* many processes save or back up keys at the same paths at the same time,    *)
(* each path is given to one of them (identity.rs:350).                       *)
Saved(j) == jobs[j].op = "save" /\ jobs[j].at \in {"sync", "done"}
SavedKeysStay == \A j \in Jobs : Saved(j) => files[Name(j)] = File(j)

(* A file that is complete is changed only by replacing it, or removed by a   *)
(* failed import that copied a file to its name (main.rs:1340).  The import   *)
(* removes by name: what it removes may by then be a replacement of its file. *)
Removes(j, n) ==
  \/ At(j, "import", "copy") /\ Name(j) = n
  \/ At(j, "import", "undo") /\ jobs[j].made # <<>> /\ Head(jobs[j].made) = n

ExistingFilesStay ==
  [][\A n \in Names : files[n].whole /\ files'[n] # files[n] =>
       \E j \in Jobs : \/ At(j, "replace", "rename") /\ Name(j) = n /\ files'[n] = File(j)
                       \/ Removes(j, n) /\ files'[n] = Absent]_fileVars

(* A job that reports success has put its files there, complete; one that     *)
(* reports failure has left none behind, but what could not be removed and a  *)
(* key whose directory could not be synchronised (main.rs:1324).              *)
Successors(j, n) == {j} \union {r \in Jobs : At(r, "replace", "done") /\ Name(r) = n}
AllOrNothing ==
  \A j \in Jobs :
    /\ jobs[j].op \in {"import", "backup"} /\ jobs[j].at = "done" =>
         \A i \in DOMAIN jobs[j].made : files[jobs[j].made[i]] \in {File(s) : s \in Successors(j, jobs[j].made[i])}
    /\ jobs[j].op # "save" /\ jobs[j].at = "failed" =>
         \A n \in Names : files[n].by = j => n \in jobs[j].stuck
===============================================================================
