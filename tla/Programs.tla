------------------------------ MODULE Programs ------------------------------
(***************************************************************************)
(* The programs that publish files: cmd/bellwether (live, or a one-shot    *)
(* export), cmd/bellwether-demo and the experiment, side by side on one    *)
(* machine, several processes of each.  The first two replace one data     *)
(* set, the experiment reads it and replaces its three artifacts one after *)
(* the other.  RPC calls and file operations fail, the operator cancels,   *)
(* processes are killed and the machine loses power.                       *)
(***************************************************************************)
EXTENDS Integers, Sequences, FiniteSets

CONSTANTS
  Settings,  \* configuration files the operator may have written
  MaxRuns,   \* bound: processes started
  MaxOf      \* bound: program -> processes of it

Outputs == [bellwether |-> <<"data">>, demo |-> <<"data">>,
            experiment |-> <<"metrics.json", "reliability.svg", "model.txt">>]
Program == DOMAIN Outputs
Path == {"data", "metrics.json", "reliability.svg", "model.txt"}

ASSUME ProgramsAssumption ==
  /\ MaxRuns \in Nat /\ MaxOf \in [Program -> Nat]
  /\ \A s \in Settings : s.depth \in Nat /\ s.min \in Nat /\ s.max \in Nat /\ s.queue \in Int /\ s.flow \in Int

VARIABLES
  disk,      \* path -> the file there, and the one its last rename replaced
  proc,      \* number -> process, running or ended
  started,   \* how many processes were started
  settings,  \* the configuration file of cmd/bellwether
  lost       \* history: power was lost once

vars == <<disk, proc, started, settings, lost>>

-----------------------------------------------------------------------------
Run == 1..MaxRuns

\* A file: the process that wrote it, whether all bytes are in it, and whether
\* they would survive a power loss.
NoFile == [run |-> 0, whole |-> TRUE, synced |-> TRUE]

\* A process: its next step, the outputs it has replaced, its temporary file, what
\* it returned, the connections it has open, what a return releases (its deferred
\* calls, or Python's finally), whether it has a signal; for cmd/bellwether, whether
\* no export path was given; for an experiment (history), the ones running when it
\* started.
Unborn == [program |-> "none", pc |-> "ended", wrote |-> 0, temp |-> NoFile, status |-> "none",
           conns |-> {}, deferred |-> {}, cancelled |-> FALSE, live |-> FALSE, beside |-> {}]

Running(r) == proc[r].pc # "ended"
RunsOf(p) == {r \in Run : proc[r].program = p}
At(r, pc) == proc[r].pc = pc

Become(r, x) == proc' = [proc EXCEPT ![r] = x] /\ UNCHANGED <<disk, started, settings, lost>>

Goto(r, next) == Become(r, [proc[r] EXCEPT !.pc = next])

\* Process x returns: what it has deferred is released, and nothing else.
Returned(x, status) ==
  [x EXCEPT !.pc = "ended", !.status = status, !.conns = @ \ x.deferred,
            !.temp = IF "temp" \in x.deferred THEN NoFile ELSE @]

Exit(r, status) == Become(r, Returned(proc[r], status))

\* A new process of program p, beside any others: nothing keeps two apart.
NewProcess(p, pc, live) ==
  /\ started < MaxRuns /\ Cardinality(RunsOf(p)) < MaxOf[p]
  /\ started' = started + 1
  /\ proc' = [proc EXCEPT ![started + 1] =
       [Unborn EXCEPT !.program = p, !.pc = pc, !.status = "running", !.live = live,
                      !.beside = IF p = "experiment" THEN {r \in RunsOf(p) : Running(r)} ELSE {}]]
  /\ UNCHANGED <<disk, settings, lost>>

-----------------------------------------------------------------------------
(* What the configuration promises, and who asks for it again.             *)

validRange(s) == s.min > 0 /\ s.max > 0 /\ s.min <= s.max

\* Faulty variants stand before the definitions they would replace.
validateWithoutWindow(s) == s.urls /\ s.address # "zero" /\ s.depth > 0 /\ validRange(s) /\ s.queue > 0

validate(s) ==
  s.urls /\ s.address # "zero" /\ s.depth > 0 /\ validRange(s) /\ s.queue > 0 /\ s.flow > 0

NewDecoderAccepts(s) == s.address # "zero"
NewCoordinatorAccepts(s) == s.address # "zero" /\ s.depth > 0 /\ validRange(s) /\ s.queue > 0
NewEngineAccepts(s) == s.flow > 0

-----------------------------------------------------------------------------
(* cmd/bellwether: runWithDial, one action up to each return               *)

StartBellwether == \E live \in BOOLEAN : NewProcess("bellwether", "load", live)

Cancel(r) ==
  /\ proc[r].program = "bellwether" /\ Running(r) /\ ~proc[r].cancelled
  /\ Become(r, [proc[r] EXCEPT !.cancelled = TRUE])

Load(r) ==
  /\ At(r, "load")
  /\ IF ~validate(settings) THEN Exit(r, "config")
     ELSE IF proc[r].cancelled THEN Exit(r, "ok")
     ELSE Goto(r, "dial http")

\* A connection is dialled: open, and not yet anybody's to close.
Dial(r, conn, next) == Become(r, [proc[r] EXCEPT !.pc = next, !.conns = @ \cup {conn}])
DialHTTP(r) == At(r, "dial http") /\ Dial(r, "http", "adopt http")
DialWebSocket(r) == At(r, "dial websocket") /\ Dial(r, "websocket", "adopt websocket")

\* NewEthClient takes the connection, and closing it is deferred.
Adopt(r, conn, next) == Become(r, [proc[r] EXCEPT !.pc = next, !.deferred = @ \cup {conn}])
AdoptHTTP(r) == At(r, "adopt http") /\ Adopt(r, "http", "construct")
AdoptWebSocketUndeferred(r) == At(r, "adopt websocket") /\ Goto(r, "coordinate")
AdoptWebSocket(r) == At(r, "adopt websocket") /\ Adopt(r, "websocket", "coordinate")

\* NewEthClient refuses it: the early return has a Close of its own.
Reject(r, conn) == Become(r, Returned([proc[r] EXCEPT !.conns = @ \ {conn}], "client"))
RejectHTTP(r) == At(r, "adopt http") /\ Reject(r, "http")
RejectWebSocketUnclosed(r) == At(r, "adopt websocket") /\ Exit(r, "client")
RejectWebSocket(r) == At(r, "adopt websocket") /\ Reject(r, "websocket")

\* NewDecoder and, for an export, newCoordinator
Construct(r) ==
  /\ At(r, "construct")
  /\ IF ~NewDecoderAccepts(settings) \/ (~proc[r].live /\ ~NewCoordinatorAccepts(settings))
       THEN Exit(r, "refused")
       ELSE Goto(r, IF proc[r].live THEN "dial websocket" ELSE "backfill")

\* newCoordinator of a live run
Coordinate(r) ==
  /\ At(r, "coordinate")
  /\ IF NewCoordinatorAccepts(settings) THEN Goto(r, "backfill") ELSE Exit(r, "refused")

\* Coordinator.Backfill returns nil, perhaps in spite of a late cancellation.
Backfilled(r) == At(r, "backfill") /\ Goto(r, IF proc[r].live THEN "follow" ELSE "project")

Calling(r) == \E pc \in {"dial http", "dial websocket", "backfill"} : At(r, pc)

RPCFailsAnyway(r) == Calling(r) /\ Exit(r, "rpc")

\* A dial or the backfill fails: an error, unless the caller has cancelled.
RPCFails(r) == Calling(r) /\ Exit(r, IF proc[r].cancelled THEN "ok" ELSE "rpc")

\* Coordinator.RunLive returns, always with an error: the caller's cancellation,
\* or a failure of its own.
FollowCancelledRequeued(r) == At(r, "follow") /\ proc[r].cancelled /\ Goto(r, "follow")
FollowCancelled(r) == At(r, "follow") /\ proc[r].cancelled /\ Exit(r, "ok")
FollowFails(r) == At(r, "follow") /\ ~proc[r].cancelled /\ Exit(r, "rpc")

\* ProjectCanonical and the validation in ComputeID, before any file is touched
Project(r) ==
  /\ At(r, "project")
  /\ IF NewEngineAccepts(settings) THEN Goto(r, "create") ELSE Exit(r, "refused")
ProjectFails(r) == At(r, "project") /\ Exit(r, "data")

-----------------------------------------------------------------------------
(* The other two programs, up to their first file                          *)

StartDemo == NewProcess("demo", "create", FALSE)

StartExperiment == NewProcess("experiment", "read", FALSE)

\* The experiment computes every byte of its artifacts before it writes any.
ReadData(r) ==
  /\ At(r, "read")
  /\ disk["data"].file # NoFile /\ disk["data"].file.whole
  /\ Goto(r, "create")

ReadFails(r) == At(r, "read") /\ Exit(r, "data")

-----------------------------------------------------------------------------
(* WriteParquet and _atomic_write, the same steps in both languages        *)

Outcome(r) == Outputs[proc[r].program][proc[r].wrote + 1]

\* The temporary file; a return from now on removes it.
CreateTemp(r) ==
  /\ At(r, "create")
  /\ Become(r, [proc[r] EXCEPT !.pc = "write", !.deferred = @ \cup {"temp"},
                               !.temp = [run |-> r, whole |-> FALSE, synced |-> FALSE]])

WriteUnsynced(r) == At(r, "write") /\ Become(r, [proc[r] EXCEPT !.pc = "replace", !.temp.whole = TRUE])

\* All the bytes, and the writer's own close or flush
Write(r) == At(r, "write") /\ Become(r, [proc[r] EXCEPT !.pc = "sync", !.temp.whole = TRUE])

Sync(r) == At(r, "sync") /\ Become(r, [proc[r] EXCEPT !.pc = "replace", !.temp.synced = TRUE])

\* Close and rename; then the next file of the experiment, or the end.
Replace(r) ==
  /\ At(r, "replace")
  /\ disk' = [disk EXCEPT ![Outcome(r)] = [file |-> proc[r].temp, before |-> disk[Outcome(r)].file]]
  /\ LET x == [proc[r] EXCEPT !.wrote = @ + 1, !.temp = NoFile, !.deferred = @ \ {"temp"}]
     IN proc' = [proc EXCEPT ![r] = IF x.wrote = Len(Outputs[x.program]) THEN Returned(x, "ok")
                                    ELSE [x EXCEPT !.pc = "create"]]
  /\ UNCHANGED <<started, settings, lost>>

Writing(r) == \E pc \in {"create", "write", "sync", "replace"} : At(r, pc)

WriteFailsOverSkipping(r) ==
  /\ Writing(r)
  /\ IF proc[r].wrote + 1 = Len(Outputs[proc[r].program]) THEN Exit(r, "file")
     ELSE Become(r, [proc[r] EXCEPT !.pc = "create", !.wrote = @ + 1, !.temp = NoFile])

\* Creating, writing, synchronizing, closing or renaming fails.
WriteFails(r) == Writing(r) /\ Exit(r, "file")

-----------------------------------------------------------------------------
(* The machine (external)                                                  *)

\* A process that is killed runs no deferred call: its temporary file stays. Its
\* connections go with it.
Killed(x) == [x EXCEPT !.pc = "ended", !.status = "killed", !.conns = {}]

Kill(r) == Running(r) /\ Become(r, Killed(proc[r]))

\* Every process is gone.  A rename may turn out not to have happened, and bytes
\* that were never synchronized are lost.
PowerLoss ==
  /\ ~lost /\ lost' = TRUE
  /\ proc' = [r \in Run |-> IF Running(r) THEN Killed(proc[r]) ELSE proc[r]]
  /\ \E undone \in SUBSET {q \in Path : disk[q].before # disk[q].file},
        torn \in SUBSET {q \in Path : ~(disk[q].file.synced /\ disk[q].before.synced)} :
       LET survivor(q) == IF q \in undone THEN disk[q].before ELSE disk[q].file
           left(q) == [survivor(q) EXCEPT !.whole = @ /\ (survivor(q).synced \/ q \notin torn)]
       IN disk' = [q \in Path |-> [file |-> left(q), before |-> left(q)]]
  /\ UNCHANGED <<started, settings>>

-----------------------------------------------------------------------------
Init ==
  /\ disk = [q \in Path |-> [file |-> NoFile, before |-> NoFile]]
  /\ proc = [r \in Run |-> Unborn]
  /\ started = 0 /\ lost = FALSE /\ settings \in Settings

\* What cmd/bellwether does by itself, whether or not its calls succeed
Bellwether(r) ==
  \/ Load(r) \/ DialHTTP(r) \/ AdoptHTTP(r) \/ RejectHTTP(r) \/ Construct(r)
  \/ DialWebSocket(r) \/ AdoptWebSocket(r) \/ RejectWebSocket(r) \/ Coordinate(r)
  \/ Backfilled(r) \/ RPCFails(r) \/ FollowCancelled(r) \/ Project(r) \/ ProjectFails(r)

Publish(r) == CreateTemp(r) \/ Write(r) \/ Sync(r) \/ Replace(r) \/ WriteFails(r)

Next ==
  \/ StartBellwether \/ StartDemo \/ StartExperiment
  \/ \E r \in Run : \/ Cancel(r) \/ FollowFails(r) \/ Bellwether(r)
                     \/ ReadData(r) \/ ReadFails(r) \/ Publish(r) \/ Kill(r)
  \/ PowerLoss

Spec == Init /\ [][Next]_vars

-----------------------------------------------------------------------------
(* No published file is ever a torn one: whichever step fails, whoever is  *)
(* killed and whenever power is lost, a path holds all bytes of one write  *)
(* (parquet.go:34-70, experiment.py:262-279).                              *)
WholeFiles == \A q \in Path : disk[q].file.whole

\* The experiment that wrote artifact i; two of them were running at once.
Author(i) == disk[Outputs["experiment"][i]].file.run
Overlap(r, s) == r \in proc[s].beside \/ s \in proc[r].beside

(* The experiment replaces the metrics, the chart and the model one after  *)
(* the other (experiment.py:77-79), so a directory may hold artifacts of   *)
(* different runs, but without a power loss only in two ways: an earlier   *)
(* artifact is of a later run that has not come to the later artifact (it  *)
(* still runs, failed or was killed), or the two runs overlapped, which    *)
(* nothing prevents.  No artifact is ever of a run that skipped it.        *)
ArtifactsInOrder ==
  ~lost => \A i \in 1..3 : Author(i) # 0 =>
    /\ proc[Author(i)].program = "experiment" /\ proc[Author(i)].wrote >= i
    /\ \A j \in 1..(i - 1) : LET r == Author(i)  s == Author(j)
                              IN s # 0 /\ (s = r \/ Overlap(r, s) \/ (s > r /\ proc[s].wrote < i))

(* A process that returns, from whichever of its returns, has removed its  *)
(* temporary file and closed every connection it opened, by a deferred     *)
(* call or by the Close of that return (main.go:85-90, 128-133,            *)
(* parquet.go:47, experiment.py:277-279).                                  *)
NothingLeftBehind ==
  \A r \in Run : proc[r].status \notin {"running", "killed"} => proc[r].temp = NoFile /\ proc[r].conns = {}

(* What the exit status tells: success means that every output has been    *)
(* published or that the operator's signal came first, and never the end   *)
(* of a live run without one; a failed call is reported only when it was   *)
(* not the signal's doing; an error means that not every output was        *)
(* replaced, and before the files none; and what Load has accepted nobody  *)
(* refuses later (main.go:70-158, config.go:72-109).                       *)
ExitTellsAll ==
  \A r \in Run : LET x == proc[r]
    IN /\ x.status # "refused"
       /\ x.status = "ok" => \/ x.program = "bellwether" /\ x.cancelled
                             \/ ~x.live /\ x.wrote = Len(Outputs[x.program])
       /\ x.status = "rpc" => ~x.cancelled
       /\ x.status \in {"config", "rpc", "client", "data"} => x.wrote = 0
       /\ x.status = "file" => x.wrote < Len(Outputs[x.program])

(* Fairness: each cmd/bellwether takes its next step, and file operations  *)
(* return; RunLive waits for heads until it is cancelled.                  *)
FairSpec == Spec /\ \A r \in Run : WF_vars(Bellwether(r) \/ Publish(r))

(* A signal ends cmd/bellwether wherever it is: every wait is on a context *)
(* that the signal cancels (main.go:25, 78-82, 103-106, 141-155).          *)
CancelEnds == \A r \in Run : proc[r].cancelled /\ Running(r) ~> ~Running(r)
=============================================================================
