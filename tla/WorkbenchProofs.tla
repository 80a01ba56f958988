---------------------------- MODULE WorkbenchProofs ---------------------------
(***************************************************************************)
(* The window and its workers do nothing to files that FileJobs does not,  *)
(* so what is proved of those jobs holds of the graphical publisher.       *)
(***************************************************************************)
EXTENDS Workbench, FileJobsProofs

(* A worker is one that was not in use.                                      *)
LEMMA UnusedIsAJob == Unused # {} => NextUnused \in Jobs
  BY DEF Unused, NextUnused

(* Work that only computes leaves files alone.                               *)
LEMMA StartPlanKeepsFiles == ASSUME NEW a, StartPlan(a) PROVE UNCHANGED fileVars
  BY DEF StartPlan, Spawn, Computing

LEMMA UserSteps == ASSUME User PROVE [Next]_fileVars
<1>1. ASSUME NEW a, Local(a) PROVE UNCHANGED fileVars
  BY <1>1 DEF Local
<1>2. CASE \/ \E paths \in PathSets : ChangePaths(paths)
           \/ ChangeOptions \/ CancelReplace
           \/ \E n \in Resources : AskReplace(n)
  BY <1>1, <1>2 DEF ChangePaths, ChangeOptions, CancelReplace, AskReplace
<1>3. CASE Scan
  BY <1>3, StartPlanKeepsFiles DEF Scan
<1>4. CASE Build \/ Verify \/ LoadIdentity
  BY <1>4 DEF Build, Verify, LoadIdentity, Ask, Spawn, Computing
<1>5. CASE ConfirmReplace
  <2>1. PICK n \in Resources :
          Spawn("replace", [app EXCEPT !.pending = Nothing], StartReplace(NextUnused, Gui, n))
    BY <1>5 DEF ConfirmReplace
  <2>2. UNCHANGED fileVars \/ \E w \in Jobs : StartReplace(w, Gui, n)
    BY <2>1, UnusedIsAJob DEF Spawn
  <2> QED
    BY <2>2, WorkbenchAssumption DEF Next, Begin
<1>6. ASSUME NEW k \in KeyFiles, CreateIdentity(k) \/ BackUp(k)
      PROVE  [Next]_fileVars
  <2>1. UNCHANGED fileVars \/ \E w \in Jobs : StartSave(w, Gui, k) \/ StartBackup(w, Gui, k)
    BY <1>6, UnusedIsAJob DEF CreateIdentity, BackUp, Ask, Spawn
  <2> QED
    BY <2>1, WorkbenchAssumption DEF Next, Begin
<1>7. ASSUME NEW names \in Selections, Import(names)
      PROVE  [Next]_fileVars
  <2>1. UNCHANGED fileVars \/ \E w \in Jobs : StartImport(w, Gui, names)
    BY <1>7, UnusedIsAJob DEF Import, Ask, Spawn
  <2> QED
    BY <2>1, WorkbenchAssumption DEF Next, Begin
<1> QED
  BY <1>2, <1>3, <1>4, <1>5, <1>6, <1>7 DEF User

LEMMA OtherSteps ==
  ASSUME Quit \/ Receive \/ EndPoll \/ Elsewhere \/ \E w \in Jobs : WorkerStep(w)
  PROVE  [Next]_fileVars
<1>1. CASE Quit
  BY <1>1, WorkbenchAssumption DEF Quit, Next
<1>2. CASE Receive \/ EndPoll
  BY <1>2, StartPlanKeepsFiles DEF Receive, EndPoll
<1>3. CASE Elsewhere
  <2>1. ASSUME NEW p \in Processes, NEW k \in KeyFiles, SaveElsewhere(p, k)
        PROVE  Next
    <3>1. NextUnused \in Jobs /\ StartSave(NextUnused, p, k)
      BY <2>1, UnusedIsAJob DEF SaveElsewhere
    <3> QED
      BY <3>1 DEF Next, Begin
  <2>2. ASSUME \/ \E j \in Jobs : work[j] = Foreign /\ Save(j)
               \/ \E n \in Names : Appear(n)
               \/ \E p \in Processes \ {Gui} : Kill(p)
        PROVE  Next
    BY <2>2 DEF Next, JobStep
  <2> QED
    BY <1>3, <2>1, <2>2 DEF Elsewhere
<1>4. ASSUME NEW w \in Jobs, WorkerStep(w)
      PROVE  [Next]_fileVars
  BY <1>4 DEF WorkerStep, Compute, JobEnds, Send, Next
<1> QED
  BY <1>1, <1>2, <1>3, <1>4

(* Every step of the window, of its workers and of what runs beside them is a *)
(* step of the jobs of files, or none (main.rs:481 and 512).                 *)
THEOREM WorkbenchRunsFileJobs == Spec => FileJobsSpec
<1>1. WorkbenchInit => Init
  BY DEF WorkbenchInit
<1>2. [WorkbenchNext]_vars => [Next]_fileVars
  <2>1. UNCHANGED vars => UNCHANGED fileVars
    BY DEF vars
  <2> QED
    BY <2>1, UserSteps, OtherSteps DEF WorkbenchNext
<1> QED
  BY <1>1, <1>2, PTL DEF Spec, FileJobsSpec

(* So a key that was saved in the window, or elsewhere, stays (identity.rs:350), *)
(* no complete file is overwritten but by a replacement (main.rs:1340), and an *)
(* import or a backup puts all of its files there or leaves none (main.rs:1324). *)
THEOREM WorkbenchKeepsFiles ==
  Spec => []SavedKeysStay /\ ExistingFilesStay /\ []AllOrNothing
  BY WorkbenchRunsFileJobs, KeysStay, FilesStay, CopiesAllOrNothing

-------------------------------------------------------------------------------
(* The window and its messages.                                             *)

Kinds == {"plan", "pack", "verify", "load"} \union Writing
PathSet == SUBSET {"assets", "release", "identity"}
ResultType == {Nothing} \union [for : Nat]
AppType ==
  [version : Nat, paths : PathSet, busy : BOOLEAN,
   plan : {Nothing} \union [for : Nat, files : SUBSET Resources],
   pending : {Nothing} \union [for : Nat, name : Resources],
   summary : ResultType, identity : ResultType]
WorkType == {NoWork, Sent, Foreign} \union [kind : Kinds, for : Nat]
MessageType == [kind : Kinds, for : Nat, ok : BOOLEAN, files : SUBSET Resources]

WindowTypeOK ==
  /\ app \in AppType /\ work \in [Jobs -> WorkType] /\ queue \in Seq(MessageType)
  /\ polling \in {"no", "yes", "refresh"} /\ overlapped \in BOOLEAN

(* All that is shown was asked for in the current workspace.                 *)
Belongs(a) ==
  \A r \in {a.plan, a.pending, a.summary, a.identity} : r = Nothing \/ r.for = a.version

(* Without overlapping work, there is one worker or one message at a time,    *)
(* the window is disabled until it has been received, and so the workspace    *)
(* is still the one it was asked for.                                        *)
Single ==
  /\ Len(queue) <= 1
  /\ \A v, w \in Jobs : InFlight(v) /\ InFlight(w) => v = w
  /\ \A w \in Jobs : InFlight(w) => queue = <<>> /\ app.busy /\ work[w].for = app.version
  /\ queue # <<>> => app.busy /\ Head(queue).for = app.version

WindowInv ==
  /\ polling # "no" => ~app.busy
  /\ BusyMeansWork
  /\ ~overlapped => Belongs(app) /\ Single

LEMMA KindsInFlight ==
  ASSUME NEW w, work[w] \in [kind : Kinds, for : Nat]
  PROVE  InFlight(w)
  BY DEF InFlight, NoWork, Sent, Foreign, Kinds, Writing

(* What is done to the state of the window keeps its type.                   *)
LEMMA AppTyped ==
  ASSUME NEW a \in AppType
  PROVE  /\ ClearPlan(a) \in AppType /\ ClearWorkspaceResults(a) \in AppType
         /\ BeginWork(a) \in AppType /\ FinishWork(a) \in AppType
         /\ [a EXCEPT !.pending = Nothing] \in AppType
  BY DEF AppType, ResultType, ClearPlan, ClearWorkspaceResults, BeginWork, FinishWork

LEMMA AppBelongs ==
  ASSUME NEW a \in AppType, Belongs(a)
  PROVE  /\ Belongs(ClearPlan(a)) /\ Belongs(BeginWork(a)) /\ Belongs(FinishWork(a))
         /\ Belongs([a EXCEPT !.pending = Nothing])
  BY DEF AppType, ClearPlan, BeginWork, FinishWork, Belongs

(* Handling a result enables the window, and shows what belongs to it.        *)
LEMMA Handled ==
  ASSUME NEW a \in AppType, NEW m \in MessageType
  PROVE  /\ Handle(a, m) \in AppType /\ ~Handle(a, m).busy
         /\ Belongs(a) /\ m.for = a.version => Belongs(Handle(a, m))
<1> DEFINE b == FinishWork(a)
<1>1. /\ b \in AppType /\ ~b.busy /\ b.version = a.version
      /\ Belongs(a) => Belongs(b)
  BY AppTyped, AppBelongs DEF FinishWork, AppType
<1> HIDE DEF b
<1>2. ASSUME NEW c \in AppType, c.version = a.version, ~c.busy,
             Belongs(a) /\ m.for = a.version => Belongs(c)
      PROVE  /\ SetPlan(c, m) \in AppType /\ ~SetPlan(c, m).busy
             /\ Belongs(a) /\ m.for = a.version => Belongs(SetPlan(c, m))
  BY <1>2 DEF SetPlan, AppType, MessageType, Belongs
<1>3. LET c == [b EXCEPT !.summary = Result(m)]
      IN /\ c \in AppType /\ ~c.busy /\ c.version = a.version
         /\ Belongs(a) /\ m.for = a.version => Belongs(c)
  BY <1>1 DEF Result, AppType, ResultType, MessageType, Belongs
<1>4. LET c == [b EXCEPT !.identity = Result(m)]
      IN /\ c \in AppType /\ ~c.busy
         /\ Belongs(a) /\ m.for = a.version => Belongs(c)
  BY <1>1 DEF Result, AppType, ResultType, MessageType, Belongs
<1>5. IdentityCreated(b) \in AppType /\ ~IdentityCreated(b).busy /\ Belongs(IdentityCreated(b))
  <2> DEFINE c == [b EXCEPT !.paths = @ \union {"identity"}, !.version = @ + 1]
             d == ClearWorkspaceResults(c)
  <2>1. c \in AppType /\ ~c.busy
    <3>1. b.paths \union {"identity"} \in PathSet /\ b.version + 1 \in Nat
      BY <1>1 DEF AppType, PathSet
    <3> QED
      BY <1>1, <3>1 DEF AppType
  <2> HIDE DEF c
  <2>2. /\ d \in AppType /\ ~d.busy
        /\ d.plan = Nothing /\ d.pending = Nothing /\ d.summary = Nothing
    BY <2>1, AppTyped DEF ClearWorkspaceResults, ClearPlan, AppType
  <2>3. IdentityCreated(b) = [d EXCEPT !.identity = [for |-> d.version]]
    BY DEF IdentityCreated, c
  <2> HIDE DEF d
  <2> QED
    BY <2>2, <2>3 DEF AppType, ResultType, Belongs
<1>6. CASE ~m.ok
  <2>1. Handle(a, m) = b
    BY <1>6 DEF Handle, b
  <2> QED
    BY <1>1, <2>1
<1>7. CASE m.ok /\ m.kind = "plan"
  BY <1>1, <1>2, <1>7 DEF Handle, b
<1>8. CASE m.ok /\ m.kind = "pack"
  <2>1. Handle(a, m) = SetPlan([b EXCEPT !.summary = Result(m)], m)
    BY <1>8 DEF Handle, b
  <2> QED
    BY <1>2, <1>3, <2>1
<1>9. CASE m.ok /\ m.kind \in {"verify", "load"}
  BY <1>3, <1>4, <1>9 DEF Handle, b
<1>10. CASE m.ok /\ m.kind = "save"
  BY <1>5, <1>10 DEF Handle, b
<1>11. CASE m.ok /\ m.kind \in {"import", "backup", "replace"}
  BY <1>1, <1>11 DEF Handle, b
<1>12. m.ok \in BOOLEAN /\ m.kind \in Kinds
  BY DEF MessageType
<1> QED
  BY <1>6, <1>7, <1>8, <1>9, <1>10, <1>11, <1>12 DEF Kinds, Writing

(* A worker started for the current workspace, or none.                      *)
Started(kind, a) ==
  \/ /\ Unused # {}
     /\ work' = [work EXCEPT ![NextUnused] = [kind |-> kind, for |-> a.version]]
     /\ app' = BeginWork(a)
  \/ app' = NotSpawned(BeginWork(a)) /\ UNCHANGED work

(* A window that is not busy waits for nothing, unless work overlapped.       *)
LEMMA IdleWindow ==
  ASSUME WindowInv, ~overlapped, ~app.busy
  PROVE  Belongs(app) /\ queue = <<>> /\ \A w \in Jobs : ~InFlight(w)
  BY DEF WindowInv, Single

LEMMA Spawned ==
  ASSUME WindowTypeOK, WindowInv, NEW kind \in Kinds, NEW a \in AppType, Started(kind, a),
         a.version = app.version, Belongs(app) => Belongs(a),
         queue' = queue, polling' = "no", overlapped' \in BOOLEAN,
         ~overlapped' => ~overlapped /\ ~app.busy
  PROVE  WindowTypeOK' /\ WindowInv'
<1>1. CASE app' = NotSpawned(BeginWork(a)) /\ UNCHANGED work
  <2>1. app' \in AppType /\ ~app'.busy /\ app'.version = app.version
    BY <1>1, AppTyped DEF NotSpawned, FinishWork, BeginWork, AppType
  <2>2. Belongs(app) => Belongs(app')
    BY <1>1, AppTyped, AppBelongs DEF NotSpawned
  <2>3. WindowTypeOK'
    BY <1>1, <2>1 DEF WindowTypeOK
  <2>4. BusyMeansWork'
    BY <2>1 DEF BusyMeansWork
  <2>5. ASSUME ~overlapped'
        PROVE  Belongs(app)' /\ Single'
    <3>1. Belongs(app)' /\ queue' = <<>> /\ \A w \in Jobs : ~InFlight(w)'
      BY <1>1, <2>2, <2>5, IdleWindow DEF InFlight, Belongs
    <3> QED
      BY <3>1 DEF Single
  <2> QED
    BY <2>3, <2>4, <2>5 DEF WindowInv
<1>2. CASE /\ Unused # {}
           /\ work' = [work EXCEPT ![NextUnused] = [kind |-> kind, for |-> a.version]]
           /\ app' = BeginWork(a)
  <2>1. app' \in AppType /\ app'.busy /\ app'.version = a.version
    BY <1>2, AppTyped DEF BeginWork, AppType
  <2>2. Belongs(app) => Belongs(app')
    BY <1>2, AppBelongs
  <2>3. a.version \in Nat
    BY DEF AppType
  <2>4. PICK u \in Jobs : work' = [work EXCEPT ![u] = [kind |-> kind, for |-> a.version]]
    BY <1>2, UnusedIsAJob
  <2>5. /\ work' \in [Jobs -> WorkType]
        /\ work'[u] = [kind |-> kind, for |-> a.version]
        /\ \A w \in Jobs \ {u} : work'[w] = work[w]
    BY <2>3, <2>4 DEF WindowTypeOK, WorkType
  <2>6. InFlight(u)' /\ \A w \in Jobs \ {u} : InFlight(w)' <=> InFlight(w)
    BY <2>5 DEF InFlight, NoWork, Sent, Foreign, Kinds, Writing
  <2>7. BusyMeansWork'
    BY <2>6 DEF BusyMeansWork
  <2>8. ASSUME ~overlapped'
        PROVE  Belongs(app)' /\ Single'
    <3>1. Belongs(app') /\ queue' = <<>> /\ \A w \in Jobs : InFlight(w)' => w = u
      BY <2>2, <2>6, <2>8, IdleWindow
    <3> QED
      BY <2>1, <2>5, <3>1 DEF Single, Belongs
  <2>9. WindowTypeOK'
    BY <2>1, <2>5 DEF WindowTypeOK
  <2> QED
    BY <2>7, <2>8, <2>9 DEF WindowInv
<1> QED
  BY <1>1, <1>2 DEF Started

LEMMA ChangedLocally ==
  ASSUME WindowTypeOK, WindowInv, NEW a \in AppType, Local(a), polling = "no",
         a.busy = app.busy, a.version = app.version \/ ~app.busy,
         Belongs(app) => Belongs(a)
  PROVE  WindowTypeOK' /\ WindowInv'
<1>1. app' = a /\ UNCHANGED <<work, queue, polling, overlapped>>
  BY DEF Local
<1>2. WindowTypeOK'
  BY <1>1 DEF WindowTypeOK
<1>3. BusyMeansWork'
  BY <1>1 DEF WindowInv, BusyMeansWork, InFlight
<1>4. ASSUME ~overlapped'
      PROVE  Belongs(app)' /\ Single'
  BY <1>1, <1>4 DEF WindowInv, Belongs, Single, InFlight
<1> QED
  BY <1>1, <1>2, <1>3, <1>4 DEF WindowInv

LEMMA NothingIsLeft ==
  ASSUME NEW a \in AppType
  PROVE  Belongs(ClearWorkspaceResults(a)) /\ ClearWorkspaceResults(a).busy = a.busy
  BY DEF ClearWorkspaceResults, ClearPlan, AppType, Belongs

(* What the user does keeps the window and its work together.                *)
LEMMA UserKeepsWindow ==
  ASSUME WindowTypeOK, WindowInv, User
  PROVE  WindowTypeOK' /\ WindowInv'
<1>1. app \in AppType /\ overlapped \in BOOLEAN
  BY DEF WindowTypeOK
<1>2. ASSUME NEW paths \in PathSets, ChangePaths(paths)
      PROVE  WindowTypeOK' /\ WindowInv'
  <2> DEFINE c == [app EXCEPT !.version = @ + 1, !.paths = paths]
             a == ClearWorkspaceResults(c)
  <2>1. app.version + 1 \in Nat /\ paths \in PathSet
    BY <1>1, WorkbenchAssumption DEF AppType, PathSet
  <2>2. c \in AppType /\ c.busy = app.busy
    BY <1>1, <2>1 DEF AppType
  <2>3. Local(a) /\ polling = "no" /\ ~app.busy
    BY <1>2 DEF ChangePaths, Idle, Drawn
  <2> HIDE DEF c
  <2>4. a \in AppType /\ a.busy = app.busy /\ Belongs(a)
    BY <2>2, AppTyped, NothingIsLeft
  <2> QED
    BY <2>3, <2>4, ChangedLocally
<1>3. CASE ChangeOptions
  <2>1. ClearPlan(app).version = app.version /\ ClearPlan(app).busy = app.busy
    BY <1>1 DEF ClearPlan, AppType
  <2> QED
    BY <1>1, <1>3, <2>1, AppTyped, AppBelongs, ChangedLocally DEF ChangeOptions, Idle, Drawn
<1>4. ASSUME NEW n \in Resources, AskReplace(n)
      PROVE  WindowTypeOK' /\ WindowInv'
  <2> DEFINE a == [app EXCEPT !.pending = [for |-> app.plan.for, name |-> n]]
  <2>1. app.plan.for \in Nat /\ (Belongs(app) => app.plan.for = app.version)
    BY <1>1, <1>4 DEF AskReplace, AppType, Belongs
  <2>2. a \in AppType /\ a.version = app.version /\ a.busy = app.busy
    BY <1>1, <2>1 DEF AppType
  <2>3. Belongs(app) => Belongs(a)
    BY <1>1, <2>1 DEF AppType, Belongs
  <2> QED
    BY <1>4, <2>2, <2>3, ChangedLocally DEF AskReplace, Idle, Drawn
<1>5. /\ [app EXCEPT !.pending = Nothing] \in AppType
      /\ [app EXCEPT !.pending = Nothing].version = app.version
      /\ [app EXCEPT !.pending = Nothing].busy = app.busy
  BY <1>1 DEF AppType
<1>6. CASE CancelReplace
  BY <1>1, <1>5, <1>6, AppBelongs, ChangedLocally DEF CancelReplace, Drawn
<1>7. CASE ConfirmReplace
  <2> DEFINE a == [app EXCEPT !.pending = Nothing]
  <2>1. /\ Started("replace", a) /\ "replace" \in Kinds
        /\ overlapped' = (overlapped \/ app.busy) /\ queue' = queue /\ polling' = "no"
    BY <1>7 DEF ConfirmReplace, Spawn, Started, Drawn, Kinds, Writing
  <2>2. app.busy \in BOOLEAN
    BY <1>1 DEF AppType
  <2>3. overlapped' \in BOOLEAN /\ (~overlapped' => ~overlapped /\ ~app.busy)
    BY <1>1, <2>1, <2>2
  <2> QED
    BY <1>1, <1>5, <2>1, <2>3, AppBelongs, Spawned
<1>8. ASSUME NEW kind \in Kinds, Started(kind, app), Idle,
             UNCHANGED <<queue, polling, overlapped>>
      PROVE  WindowTypeOK' /\ WindowInv'
  BY <1>1, <1>8, Spawned DEF Idle, Drawn
<1>9. CASE Scan
  <2>1. Started("plan", ClearPlan(app)) /\ "plan" \in Kinds
    BY <1>9 DEF Scan, StartPlan, Spawn, Started, Kinds
  <2>2. ClearPlan(app).version = app.version
    BY <1>1 DEF ClearPlan, AppType
  <2> QED
    BY <1>1, <1>9, <2>1, <2>2, AppTyped, AppBelongs, Spawned DEF Scan, Idle, Drawn
<1>10. CASE Build \/ Verify \/ LoadIdentity
  <2>1. PICK kind \in {"pack", "verify", "load"} : Ask(kind, Computing)
    BY <1>10 DEF Build, Verify, LoadIdentity
  <2> QED
    BY <1>8, <2>1 DEF Ask, Spawn, Started, Kinds
<1>11. ASSUME NEW k \in KeyFiles, CreateIdentity(k) \/ BackUp(k)
       PROVE  WindowTypeOK' /\ WindowInv'
  <2>1. /\ Started("save", app) \/ Started("backup", app)
        /\ Idle /\ UNCHANGED <<queue, polling, overlapped>>
    BY <1>11 DEF CreateIdentity, BackUp, Ask, Spawn, Started
  <2> QED
    BY <1>8, <2>1 DEF Kinds, Writing
<1>12. ASSUME NEW names \in Selections, Import(names)
       PROVE  WindowTypeOK' /\ WindowInv'
  <2>1. Started("import", app) /\ Idle /\ UNCHANGED <<queue, polling, overlapped>>
    BY <1>12 DEF Import, Ask, Spawn, Started
  <2> QED
    BY <1>8, <2>1 DEF Kinds, Writing
<1> QED
  BY <1>2, <1>3, <1>4, <1>6, <1>7, <1>9, <1>10, <1>11, <1>12 DEF User

(* A worker sends what it was asked for, once, and the queue was empty.       *)
LEMMA WorkersKeepWindow ==
  ASSUME WindowTypeOK, WindowInv, NEW w \in Jobs, WorkerStep(w)
  PROVE  WindowTypeOK' /\ WindowInv'
<1>1. ASSUME NEW ok \in BOOLEAN, NEW found \in SUBSET Resources, InFlight(w), Send(w, ok, found)
      PROVE  WindowTypeOK' /\ WindowInv'
  <2> DEFINE m == [kind |-> work[w].kind, for |-> work[w].for, ok |-> ok, files |-> found]
  <2>1. /\ work' = [work EXCEPT ![w] = Sent] /\ queue' = Append(queue, m)
        /\ UNCHANGED <<app, polling, overlapped>>
    BY <1>1 DEF Send
  <2>2. m \in MessageType
    BY <1>1 DEF InFlight, WindowTypeOK, WorkType, MessageType
  <2>3. m.for = work[w].for
    OBVIOUS
  <2> HIDE DEF m
  <2>4. queue \in Seq(MessageType) /\ queue' \in Seq(MessageType) /\ queue' # <<>>
    BY <2>1, <2>2 DEF WindowTypeOK
  <2>5. work' \in [Jobs -> WorkType] /\ \A v \in Jobs : InFlight(v)' => v # w /\ InFlight(v)
    BY <2>1 DEF WindowTypeOK, WorkType, InFlight
  <2>6. WindowTypeOK'
    BY <2>1, <2>4, <2>5 DEF WindowTypeOK
  <2>7. ASSUME ~overlapped'
        PROVE  Belongs(app)' /\ Single'
    <3>1. ~overlapped /\ Belongs(app) /\ Single
      BY <2>1, <2>7 DEF WindowInv
    <3>2. queue = <<>> /\ app.busy /\ m.for = app.version /\ \A v \in Jobs : ~InFlight(v)'
      BY <1>1, <2>3, <2>5, <3>1 DEF Single
    <3>3. Len(queue') = 1 /\ Head(queue') = m
      BY <2>1, <2>2, <3>2
    <3> QED
      BY <2>1, <3>1, <3>2, <3>3 DEF Single, Belongs
  <2> QED
    BY <2>1, <2>4, <2>6, <2>7 DEF WindowInv, BusyMeansWork
<1>2. CASE Compute(w)
  BY <1>1, <1>2 DEF Compute, Listed
<1>3. CASE JobEnds(w)
  BY <1>1, <1>3 DEF JobEnds
<1>4. CASE UNCHANGED <<app, work, queue, polling, overlapped>>
  BY <1>4 DEF WindowTypeOK, WindowInv, BusyMeansWork, Single, Belongs, InFlight
<1> QED
  BY <1>2, <1>3, <1>4 DEF WorkerStep

LEMMA PollingKeepsWindow ==
  ASSUME WindowTypeOK, WindowInv, Receive \/ EndPoll
  PROVE  WindowTypeOK' /\ WindowInv'
<1>1. CASE Receive
  <2>1. Head(queue) \in MessageType /\ Tail(queue) \in Seq(MessageType)
    BY <1>1 DEF Receive, WindowTypeOK
  <2>2. app' \in AppType /\ ~app'.busy
    BY <1>1, <2>1, Handled DEF Receive, WindowTypeOK
  <2>3. polling' \in {"yes", "refresh"} /\ UNCHANGED <<work, overlapped>> /\ queue' = Tail(queue)
    BY <1>1 DEF Receive
  <2>4. WindowTypeOK'
    BY <2>1, <2>2, <2>3 DEF WindowTypeOK
  <2>5. ASSUME ~overlapped'
        PROVE  Belongs(app)' /\ Single'
    <3>1. /\ Belongs(app) /\ Head(queue).for = app.version
          /\ Len(queue) = 1 /\ \A w \in Jobs : ~InFlight(w)
      <4>1. Belongs(app) /\ Single
        BY <2>3, <2>5 DEF WindowInv
      <4>2. queue \in Seq(MessageType) /\ queue # <<>>
        BY <1>1 DEF Receive, WindowTypeOK
      <4>3. Len(queue) \in Nat \ {0} /\ Len(queue) <= 1
        BY <4>1, <4>2, EmptySeq DEF Single
      <4>4. Len(queue) = 1
        <5> DEFINE n == Len(queue)
        <5>1. n \in Nat \ {0} /\ n <= 1
          BY <4>3
        <5> HIDE DEF n
        <5>2. n = 1
          BY <5>1
        <5> QED
          BY <5>2 DEF n
      <4> QED
        BY <4>1, <4>2, <4>4 DEF Single
    <3>2. Belongs(app')
      BY <1>1, <2>1, <3>1, Handled DEF Receive, WindowTypeOK
    <3>3. queue' = <<>>
      BY <2>3, <3>1 DEF WindowTypeOK
    <3>4. \A w \in Jobs : ~InFlight(w)'
      BY <2>3, <3>1 DEF InFlight
    <3> QED
      BY <3>2, <3>3, <3>4 DEF Single, Belongs
  <2> QED
    BY <2>2, <2>4, <2>5 DEF WindowInv, BusyMeansWork
<1>2. CASE EndPoll
  <2>1. /\ ~app.busy /\ app \in AppType /\ overlapped \in BOOLEAN
        /\ polling' = "no" /\ UNCHANGED <<queue, overlapped>>
    BY <1>2 DEF EndPoll, WindowTypeOK, WindowInv
  <2>2. CASE StartPlan(app)
    <3>1. Started("plan", ClearPlan(app)) /\ "plan" \in Kinds
      BY <2>2 DEF StartPlan, Spawn, Started, Kinds
    <3>2. ClearPlan(app).version = app.version
      BY <2>1 DEF ClearPlan, AppType
    <3> QED
      BY <2>1, <3>1, <3>2, AppTyped, AppBelongs, Spawned
  <2>3. CASE UNCHANGED <<app, work>>
    BY <2>1, <2>3 DEF WindowTypeOK, WindowInv, BusyMeansWork, Single, Belongs, InFlight
  <2> QED
    BY <1>2, <2>2, <2>3 DEF EndPoll
<1> QED
  BY <1>1, <1>2

(* A window that was closed starts again with nothing, and its workers are gone. *)
LEMMA OthersKeepWindow ==
  ASSUME WindowTypeOK, WindowInv, Quit \/ Elsewhere
  PROVE  WindowTypeOK' /\ WindowInv'
<1>1. NewApp \in AppType /\ ~NewApp.busy /\ Belongs(NewApp)
  BY DEF NewApp, AppType, PathSet, ResultType, Belongs
<1>2. CASE Quit
  <2>1. /\ app' = NewApp /\ queue' = <<>> /\ polling' = "no" /\ UNCHANGED overlapped
        /\ work' = [w \in Jobs |-> IF InFlight(w) THEN Sent ELSE work[w]]
    BY <1>2 DEF Quit
  <2>2. work' \in [Jobs -> WorkType] /\ \A w \in Jobs : ~InFlight(w)'
    BY <2>1 DEF WindowTypeOK, WorkType, InFlight
  <2>3. WindowTypeOK'
    BY <1>1, <2>1, <2>2 DEF WindowTypeOK
  <2> QED
    BY <1>1, <2>1, <2>2, <2>3 DEF WindowInv, BusyMeansWork, Single, Belongs
<1>3. CASE Elsewhere
  <2>1. UNCHANGED <<app, queue, polling, overlapped>>
    BY <1>3 DEF Elsewhere, SaveElsewhere
  <2>2. work' \in [Jobs -> WorkType]
    BY <1>3, UnusedIsAJob DEF Elsewhere, SaveElsewhere, WindowTypeOK, WorkType
  <2>3. \A w \in Jobs : (InFlight(w)' <=> InFlight(w)) /\ (InFlight(w) => work'[w] = work[w])
    <3>1. CASE work' = work
      BY <3>1 DEF InFlight
    <3>2. CASE Unused # {} /\ work' = [work EXCEPT ![NextUnused] = Foreign]
      <4>1. NextUnused \in Jobs /\ work[NextUnused] = NoWork
        BY <3>2 DEF Unused, NextUnused
      <4> QED
        BY <3>2, <4>1 DEF WindowTypeOK, InFlight
    <3> QED
      BY <1>3, <3>1, <3>2 DEF Elsewhere, SaveElsewhere
  <2>4. WindowTypeOK'
    BY <2>1, <2>2 DEF WindowTypeOK
  <2> QED
    BY <2>1, <2>3, <2>4 DEF WindowInv, BusyMeansWork, Single, Belongs
<1> QED
  BY <1>2, <1>3

LEMMA WindowHolds == Spec => []WindowTypeOK /\ []WindowInv
<1>1. WorkbenchInit => WindowTypeOK /\ WindowInv
  <2> SUFFICES ASSUME WorkbenchInit PROVE WindowTypeOK /\ WindowInv
    OBVIOUS
  <2>1. app \in AppType /\ ~app.busy /\ Belongs(app)
    BY DEF WorkbenchInit, NewApp, AppType, PathSet, ResultType, Belongs
  <2>2. WindowTypeOK
    <3>1. work \in [Jobs -> WorkType] /\ queue \in Seq(MessageType)
      BY DEF WorkbenchInit, WorkType
    <3> QED
      BY <2>1, <3>1 DEF WorkbenchInit, WindowTypeOK
  <2>3. queue = <<>> /\ \A w \in Jobs : ~InFlight(w)
    BY DEF WorkbenchInit, InFlight
  <2> QED
    BY <2>1, <2>2, <2>3 DEF WorkbenchInit, WindowInv, BusyMeansWork, Single
<1>2. WindowTypeOK /\ WindowInv /\ [WorkbenchNext]_vars => WindowTypeOK' /\ WindowInv'
  <2> SUFFICES ASSUME WindowTypeOK, WindowInv, [WorkbenchNext]_vars
               PROVE  WindowTypeOK' /\ WindowInv'
    OBVIOUS
  <2>1. CASE UNCHANGED vars
    BY <2>1 DEF vars, WindowTypeOK, WindowInv, BusyMeansWork, Single, Belongs, InFlight
  <2> QED
    BY <2>1, UserKeepsWindow, WorkersKeepWindow, PollingKeepsWindow, OthersKeepWindow
       DEF WorkbenchNext
<1> QED
  BY <1>1, <1>2, PTL DEF Spec

(* A window that is disabled waits for a worker or for a message, whatever     *)
(* overlapped, whichever threads could not be started (main.rs:512).          *)
THEOREM BusyHasWork == Spec => []BusyMeansWork
<1>1. WindowInv => BusyMeansWork
  BY DEF WindowInv
<1> QED
  BY <1>1, WindowHolds, PTL

(* As long as no replacement was confirmed during other work, all that is     *)
(* shown, selected or about to be replaced was found in the current workspace *)
(* (main.rs:272).                                                            *)
THEOREM ResultsBelong == Spec => []ResultsBelongUnlessOverlapped
<1>1. WindowInv => ResultsBelongUnlessOverlapped
  BY DEF WindowInv, Belongs, ResultsBelongUnlessOverlapped, ResultsBelongToWorkspace, Shown
<1> QED
  BY <1>1, WindowHolds, PTL
===============================================================================
