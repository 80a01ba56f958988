------------------------------- MODULE Workbench -------------------------------
(***************************************************************************)
(* The graphical publisher (gui/main.rs): the window, the workers it       *)
(* starts, and the messages in which they send their results.  The workers *)
(* that write files run the jobs of FileJobs, at the same time as other    *)
(* processes do; scans, builds and verifications are only their results    *)
(* here (Publisher is what a build does).                                  *)
(*                                                                         *)
(* A result is known by the workspace it was asked for: paths are a set    *)
(* of those that are filled in, and a number that changes with them.  The  *)
(* directory of assets stays the same one.                                 *)
(***************************************************************************)
EXTENDS FileJobs

CONSTANTS
  Gui,           \* the process of the window
  PathSets,      \* which of "assets", "release", "identity" may be filled in
  Selections,    \* the resources that may be chosen for an import
  MaxChanges     \* bound on changes of the paths

ASSUME WorkbenchAssumption ==
  /\ Gui \in Processes
  /\ PathSets \subseteq SUBSET {"assets", "release", "identity"}
  /\ Selections \subseteq Seq(Resources) /\ MaxChanges \in Nat

VARIABLES
  app,           \* what App holds
  work,          \* what each worker was asked for, and whether it has sent
  queue,         \* the messages that have not been received
  polling,       \* "no"; or "yes", "refresh": what poll_messages will do next
  overlapped     \* auxiliary: a replacement was confirmed during other work

vars == <<fileVars, app, work, queue, polling, overlapped>>

Nothing == [for |-> -1]
NoWork == [kind |-> "none"]
Sent == [kind |-> "sent"]          \* its result has been sent
Foreign == [kind |-> "foreign"]    \* a job of another process
Writing == {"save", "import", "backup", "replace"}

NewApp ==
  [version |-> 0, paths |-> {}, busy |-> FALSE, plan |-> Nothing, pending |-> Nothing,
   summary |-> Nothing, identity |-> Nothing]

WorkbenchInit ==
  /\ Init
  /\ app = NewApp /\ work = [w \in Jobs |-> NoWork]
  /\ queue = <<>> /\ polling = "no" /\ overlapped = FALSE

Ready(a) == a.paths = {"assets", "release", "identity"}

ClearPlan(a) == [a EXCEPT !.plan = Nothing, !.pending = Nothing]

(* Mutant: the results of the last build stay.                               *)
ClearKeepingRelease(a) == [ClearPlan(a) EXCEPT !.identity = Nothing]

ClearWorkspaceResults(a) ==
  [ClearPlan(a) EXCEPT !.summary = Nothing, !.identity = Nothing]

-------------------------------------------------------------------------------
(* Work in the background.                                                  *)

Unused == {w \in Jobs : work[w] = NoWork}
NextUnused == CHOOSE w \in Unused : TRUE
InFlight(w) == work[w] \notin {NoWork, Sent, Foreign}

BeginWork(a) == [a EXCEPT !.busy = TRUE]
FinishWork(a) == [a EXCEPT !.busy = FALSE]

(* Mutant: a thread that could not be started is waited for.                 *)
FailedToSpawn(a) == a

NotSpawned(a) == FinishWork(a)

(* A worker is started, with what that does to files, or no thread could be.  *)
Spawn(kind, a, started) ==
  \/ /\ Unused # {} /\ started
     /\ work' = [work EXCEPT ![NextUnused] = [kind |-> kind, for |-> a.version]]
     /\ app' = BeginWork(a)
  \/ app' = NotSpawned(BeginWork(a)) /\ UNCHANGED <<work, fileVars>>

Computing == UNCHANGED fileVars

StartPlan(a) == Spawn("plan", ClearPlan(a), Computing)

Send(w, ok, found) ==
  /\ work' = [work EXCEPT ![w] = Sent]
  /\ queue' = Append(queue, [kind |-> work[w].kind, for |-> work[w].for, ok |-> ok, files |-> found])
  /\ UNCHANGED <<fileVars, app, polling, overlapped>>

Listed == {n \in Resources : Exists(n)}

(* A scan, a build, a verification, a look at an identity.                   *)
Compute(w) ==
  /\ InFlight(w) /\ work[w].kind \notin Writing
  /\ \E ok \in BOOLEAN : Send(w, ok, Listed)

(* A job has ended; a key that was saved is loaded, which may fail.          *)
JobEnds(w) ==
  /\ InFlight(w) /\ work[w].kind \in Writing /\ jobs[w].at \in {"done", "failed"}
  /\ \E ok \in BOOLEAN :
       /\ ok => jobs[w].at = "done"
       /\ ~ok => jobs[w].at = "failed" \/ work[w].kind = "save"
       /\ Send(w, ok, {})

WorkerStep(w) ==
  \/ Compute(w) \/ JobEnds(w)
  \/ InFlight(w) /\ JobStep(w) /\ UNCHANGED <<app, work, queue, polling, overlapped>>

-------------------------------------------------------------------------------
(* poll_messages.                                                           *)

Result(m) == [for |-> m.for]

(* A replacement that waits for its confirmation goes on waiting.            *)
SetPlan(a, m) == [a EXCEPT !.plan = [for |-> m.for, files |-> m.files]]

(* A new identity is a change of the workspace.                              *)
IdentityCreated(a) ==
  LET b == ClearWorkspaceResults([a EXCEPT !.paths = @ \union {"identity"}, !.version = @ + 1])
  IN [b EXCEPT !.identity = [for |-> b.version]]

Handle(a, m) ==
  LET b == FinishWork(a) IN
  IF ~m.ok THEN b
  ELSE CASE m.kind = "plan" -> SetPlan(b, m)
         [] m.kind = "pack" -> SetPlan([b EXCEPT !.summary = Result(m)], m)
         [] m.kind = "verify" -> [b EXCEPT !.summary = Result(m)]
         [] m.kind = "load" -> [b EXCEPT !.identity = Result(m)]
         [] m.kind = "save" -> IdentityCreated(b)
         [] OTHER -> b

Refreshes(m) == m.ok /\ m.kind \in {"import", "replace"}

(* Messages are received as long as there are any, while workers send more.  *)
Receive ==
  /\ queue # <<>>
  /\ app' = Handle(app, Head(queue)) /\ queue' = Tail(queue)
  /\ polling' = IF polling = "refresh" \/ Refreshes(Head(queue)) THEN "refresh" ELSE "yes"
  /\ UNCHANGED <<fileVars, work, overlapped>>

EndPoll ==
  /\ polling # "no" /\ queue = <<>>
  /\ IF polling = "refresh" /\ Ready(app) THEN StartPlan(app)
     ELSE UNCHANGED <<fileVars, app, work>>
  /\ polling' = "no" /\ UNCHANGED <<queue, overlapped>>

-------------------------------------------------------------------------------
(* The user.  All but the confirmation of a replacement is disabled while   *)
(* the window is busy, and nothing happens while messages are polled.       *)

Drawn == polling = "no"
Idle == Drawn /\ ~app.busy
Local(a) == app' = a /\ UNCHANGED <<fileVars, work, queue, polling, overlapped>>

ChangePaths(paths) ==
  /\ Idle /\ app.version < MaxChanges
  /\ Local(ClearWorkspaceResults([app EXCEPT !.version = @ + 1, !.paths = paths]))

ChangeOptions == Idle /\ app.plan # Nothing /\ Local(ClearPlan(app))

(* A file of the plan is selected, and its replacement asked for.            *)
AskReplace(n) ==
  /\ Idle /\ app.plan # Nothing /\ n \in app.plan.files
  /\ Local([app EXCEPT !.pending = [for |-> app.plan.for, name |-> n]])

CancelReplace ==
  Drawn /\ app.pending # Nothing /\ Local([app EXCEPT !.pending = Nothing])

ConfirmReplace ==
  /\ Drawn /\ app.pending # Nothing
  /\ \E n \in Resources :
       /\ app.pending.name = n
       /\ Spawn("replace", [app EXCEPT !.pending = Nothing], StartReplace(NextUnused, Gui, n))
  /\ overlapped' = (overlapped \/ app.busy) /\ UNCHANGED <<queue, polling>>

Ask(kind, started) ==
  Idle /\ Spawn(kind, app, started) /\ UNCHANGED <<queue, polling, overlapped>>

Scan == Idle /\ Ready(app) /\ StartPlan(app) /\ UNCHANGED <<queue, polling, overlapped>>
Build == Ready(app) /\ Ask("pack", Computing)
Verify == {"release", "identity"} \subseteq app.paths /\ Ask("verify", Computing)
LoadIdentity == "identity" \in app.paths /\ Ask("load", Computing)
CreateIdentity(k) == Ask("save", StartSave(NextUnused, Gui, k))
BackUp(k) == "identity" \in app.paths /\ Ask("backup", StartBackup(NextUnused, Gui, k))
Import(names) == "assets" \in app.paths /\ Ask("import", StartImport(NextUnused, Gui, names))

User ==
  \/ \E paths \in PathSets : ChangePaths(paths)
  \/ ChangeOptions
  \/ (\E n \in Resources : AskReplace(n)) \/ CancelReplace \/ ConfirmReplace
  \/ Scan \/ Build \/ Verify \/ LoadIdentity
  \/ (\E k \in KeyFiles : CreateIdentity(k) \/ BackUp(k))
  \/ (\E names \in Selections : Import(names))

(* The window is closed or killed during work, and opened again.             *)
Quit ==
  /\ \E w \in Jobs : InFlight(w)
  /\ Kill(Gui)
  /\ app' = NewApp /\ queue' = <<>> /\ polling' = "no"
  /\ work' = [w \in Jobs |-> IF InFlight(w) THEN Sent ELSE work[w]]
  /\ UNCHANGED overlapped

(* Other processes save keys too, and may be killed; other programs make files. *)
SaveElsewhere(p, k) ==
  /\ Unused # {}
  /\ StartSave(NextUnused, p, k) /\ work' = [work EXCEPT ![NextUnused] = Foreign]
  /\ UNCHANGED <<app, queue, polling, overlapped>>

Elsewhere ==
  \/ \E p \in Processes \ {Gui}, k \in KeyFiles : SaveElsewhere(p, k)
  \/ /\ \/ \E j \in Jobs : work[j] = Foreign /\ Save(j)
        \/ \E n \in Names : Appear(n)
        \/ \E p \in Processes \ {Gui} : Kill(p)
     /\ UNCHANGED <<app, work, queue, polling, overlapped>>

WorkbenchNext ==
  \/ User \/ Quit
  \/ Receive \/ EndPoll
  \/ (\E w \in Jobs : WorkerStep(w))
  \/ Elsewhere

Spec == WorkbenchInit /\ [][WorkbenchNext]_vars

-------------------------------------------------------------------------------
(* Properties.                                                              *)

Shown == {app.plan, app.pending, app.summary, app.identity} \ {Nothing}

(* Everything shown, selected or about to be replaced was found in the        *)
(* current workspace: changing paths clears old results and selections        *)
(* (README.md:69).                                                           *)
ResultsBelongToWorkspace == \A r \in Shown : r.for = app.version

(* The same as long as no replacement was confirmed during other work         *)
(* (main.rs:272).                                                            *)
ResultsBelongUnlessOverlapped == ~overlapped => ResultsBelongToWorkspace

(* While the window is disabled, there is a worker still to send its result   *)
(* or a message still to be polled, and so it does not stay disabled, however *)
(* work overlapped and whether or not threads could be started (main.rs:512).  *)
BusyMeansWork == app.busy => queue # <<>> \/ \E w \in Jobs : InFlight(w)
===============================================================================
