---------------------------- MODULE ProgramsProofs ----------------------------
(***************************************************************************)
(* Theorems about the programs, for any configuration file and any number  *)
(* of processes, several of one program included: what is published is     *)
(* whole and in order, and what a process leaves and tells when it ends.   *)
(***************************************************************************)
EXTENDS Programs, TLAPS

File == [run: Nat, whole: BOOLEAN, synced: BOOLEAN]
Conn == {"http", "websocket"}

LiveOnly == {"dial websocket", "adopt websocket", "coordinate", "follow"}
Starting == {"load", "dial http", "adopt http", "construct", "backfill", "project", "read"} \cup LiveOnly
WithTemp == {"write", "sync", "replace"}
Publishing == {"create"} \cup WithTemp
Statuses == {"none", "running", "config", "client", "rpc", "data", "file", "ok", "refused", "killed"}

Process == [program: Program \cup {"none"}, pc: Starting \cup Publishing \cup {"ended"}, wrote: 0..3,
            temp: File, status: Statuses, conns: SUBSET Conn, deferred: SUBSET (Conn \cup {"temp"}),
            cancelled: BOOLEAN, live: BOOLEAN, beside: SUBSET Run]

\* A running process x of number r has published all but the output it is at; its
\* temporary file is its own, and is renamed only when it is whole and on the disk.
FilesOk(r, x) ==
  /\ x.program \in Program /\ x.status = "running" /\ x.wrote < Len(Outputs[x.program])
  /\ x.pc \in Starting => x.wrote = 0
  /\ x.pc \in WithTemp => x.temp.run = r
  /\ x.pc \in {"sync", "replace"} => x.temp.whole
  /\ x.pc = "replace" => x.temp.synced

\* What a return releases covers what is held, but for a connection not yet adopted.
ReleaseOk(x) ==
  /\ IF x.pc \in WithTemp THEN "temp" \in x.deferred ELSE x.temp = NoFile
  /\ x.pc # "adopt http" /\ "http" \in x.conns => "http" \in x.deferred
  /\ x.pc # "adopt websocket" /\ "websocket" \in x.conns => "websocket" \in x.deferred

\* Each program has its steps; cmd/bellwether dials nothing before its configuration
\* s has been accepted, and a live process publishes nothing.
PlaceOk(x, s) ==
  /\ x.program = "experiment" => x.pc \in {"read"} \cup Publishing
  /\ x.program = "demo" => x.pc \in Publishing
  /\ x.program = "bellwether" => x.pc # "read" /\ (x.pc # "load" => validate(s))
  /\ x.program # "bellwether" => ~x.live
  /\ x.pc \in LiveOnly => x.live
  /\ x.pc \in {"project"} \cup Publishing => ~x.live

\* The status of a process that has ended tells what it did, and only a killed one
\* leaves anything.
Told(x) ==
  /\ x.status \notin {"running", "refused"}
  /\ x.status = "ok" => \/ x.program = "bellwether" /\ x.cancelled
                        \/ ~x.live /\ x.wrote = Len(Outputs[x.program])
  /\ x.status = "rpc" => ~x.cancelled
  /\ x.status \in {"config", "rpc", "client", "data"} => x.wrote = 0
  /\ x.status = "file" => x.wrote < Len(Outputs[x.program])
  /\ x.status # "killed" => x.temp = NoFile /\ x.conns = {}

ProcessOk(r, x, s) ==
  /\ x \in Process
  /\ IF x.pc = "ended" THEN Told(x) ELSE FilesOk(r, x) /\ ReleaseOk(x) /\ PlaceOk(x, s)

\* What is published, and what it replaced, is whole and synchronized.
Kept(f) == f \in File /\ f.whole /\ f.synced

Experiment(r) == proc[r].program = "experiment"

\* An artifact is of an experiment that has written it, and of the latest of those
\* that have, unless two of them overlapped.
Authored ==
  /\ \A i \in 1..3 : Author(i) # 0 => Author(i) \in Run /\ Experiment(Author(i)) /\ proc[Author(i)].wrote >= i
  /\ \A i \in 1..3, r \in Run : Experiment(r) /\ proc[r].wrote >= i =>
       Author(i) # 0 /\ (Author(i) >= r \/ Overlap(r, Author(i)))

IInv ==
  /\ proc \in [Run -> Process] /\ started \in Nat
  /\ disk \in [Path -> [file: File, before: File]]
  /\ \A q \in Path : Kept(disk[q].file) /\ Kept(disk[q].before)
  /\ \A r \in Run : ProcessOk(r, proc[r], settings)
  /\ \A r \in Run : r > started => proc[r] = Unborn
  /\ \A r, s \in Run : r < s /\ Experiment(r) /\ Experiment(s) /\ Running(r) => r \in proc[s].beside
  /\ ~lost => Authored

-----------------------------------------------------------------------------
(* The programs and their outputs.                                         *)

LEMMA Programs3 ==
  /\ Program = {"bellwether", "demo", "experiment"}
  /\ Len(Outputs["bellwether"]) = 1 /\ Len(Outputs["demo"]) = 1 /\ Len(Outputs["experiment"]) = 3
  /\ Outputs["bellwether"][1] = "data" /\ Outputs["demo"][1] = "data"
  /\ Outputs["experiment"][1] = "metrics.json" /\ Outputs["experiment"][2] = "reliability.svg"
  /\ Outputs["experiment"][3] = "model.txt"
BY DEF Program, Outputs

\* A program's next output is a path: the data set, or the artifact of that number.
LEMMA OutcomeIsAPath ==
  ASSUME NEW p \in Program, NEW w \in Nat, w < Len(Outputs[p])
  PROVE  /\ Outputs[p][w + 1] \in Path /\ w + 1 \in 1..3
         /\ p # "experiment" => Outputs[p][w + 1] = "data"
         /\ \A i \in 1..3 : Outputs["experiment"][i] # "data" /\ Outputs["experiment"][i] \in Path
         /\ \A i, j \in 1..3 : Outputs["experiment"][i] = Outputs["experiment"][j] => i = j
<1>1. CASE p = "bellwether"
  BY <1>1, Programs3 DEF Path
<1>2. CASE p = "demo"
  BY <1>2, Programs3 DEF Path
<1>3. CASE p = "experiment"
  <2>1. w = 0 \/ w = 1 \/ w = 2
    BY <1>3, Programs3
  <2> QED BY <1>3, <2>1, Programs3 DEF Path
<1> QED BY <1>1, <1>2, <1>3, Programs3

-----------------------------------------------------------------------------
(* One process takes a step that publishes nothing, and becomes x.         *)

LEMMA AuthoredKept ==
  ASSUME IInv, NEW r \in Run, NEW x, proc' = [proc EXCEPT ![r] = x],
         x.program = proc[r].program, x.wrote = proc[r].wrote, x.beside = proc[r].beside,
         UNCHANGED <<disk, lost>>
  PROVE  ~lost' => Authored'
<1>1. \A s \in Run : /\ proc'[s].program = proc[s].program /\ proc'[s].wrote = proc[s].wrote
                     /\ proc'[s].beside = proc[s].beside
  BY DEF IInv
<1>2. \A i \in 1..3 : Author(i)' = Author(i)
  BY DEF Author
<1>3. \A s \in Run : Experiment(s)' <=> Experiment(s)
  BY <1>1 DEF Experiment
<1>4. \A s, t \in Run : Overlap(s, t)' <=> Overlap(s, t)
  BY <1>1 DEF Overlap
<1> QED BY <1>1, <1>2, <1>3, <1>4 DEF IInv, Authored

LEMMA BecomePreserves ==
  ASSUME IInv, NEW r \in Run, Running(r), NEW x, Become(r, x), ProcessOk(r, x, settings),
         x.program = proc[r].program, x.wrote = proc[r].wrote, x.beside = proc[r].beside
  PROVE  IInv'
<1>1. proc' = [proc EXCEPT ![r] = x] /\ UNCHANGED <<disk, started, settings, lost>>
  BY DEF Become
<1>2. /\ proc' \in [Run -> Process]
      /\ proc'[r] = x /\ \A s \in Run : s # r => proc'[s] = proc[s]
  BY <1>1 DEF IInv, ProcessOk
<1>3. \A s \in Run : s > started' => proc'[s] = Unborn
  <2> SUFFICES ASSUME NEW s \in Run, s > started' PROVE proc'[s] = Unborn
    OBVIOUS
  <2>1. proc[s] = Unborn
    BY <1>1 DEF IInv
  <2>2. s # r
    BY <2>1 DEF Running, Unborn
  <2> QED BY <1>2, <2>1, <2>2
<1>4. \A s, t \in Run : s < t /\ Experiment(s)' /\ Experiment(t)' /\ Running(s)' => s \in proc'[t].beside
  BY <1>2 DEF IInv, Experiment, Running
<1>5. ~lost' => Authored'
  BY <1>1, AuthoredKept
<1> QED BY <1>1, <1>2, <1>3, <1>4, <1>5 DEF IInv

\* What a return leaves.
LEMMA ReturnedOk ==
  ASSUME NEW x \in Process, NEW status \in Statuses
  PROVE  LET y == Returned(x, status)
         IN  /\ y \in Process /\ y.pc = "ended" /\ y.status = status
             /\ y.program = x.program /\ y.wrote = x.wrote /\ y.beside = x.beside
             /\ y.cancelled = x.cancelled /\ y.live = x.live /\ y.conns = x.conns \ x.deferred
             /\ y.temp = IF "temp" \in x.deferred THEN NoFile ELSE x.temp
BY DEF Returned, Process, File, NoFile

\* A return that tells the truth and releases what is held.
LEMMA ReturnPreserves ==
  ASSUME IInv, NEW r \in Run, Running(r), NEW x \in Process, NEW status \in Statuses,
         Become(r, Returned(x, status)),
         x.program = proc[r].program, x.wrote = proc[r].wrote, x.beside = proc[r].beside,
         "http" \in x.conns => "http" \in x.deferred,
         "websocket" \in x.conns => "websocket" \in x.deferred,
         "temp" \in x.deferred \/ x.temp = NoFile,
         Told([x EXCEPT !.status = status, !.temp = NoFile, !.conns = {}])
  PROVE  IInv'
<1> DEFINE y == Returned(x, status)
           z == [x EXCEPT !.status = status, !.temp = NoFile, !.conns = {}]
<1>1. /\ y \in Process /\ y.pc = "ended" /\ y.status = status
      /\ y.program = x.program /\ y.wrote = x.wrote /\ y.beside = x.beside
      /\ y.cancelled = x.cancelled /\ y.live = x.live /\ y.conns = x.conns \ x.deferred
      /\ y.temp = IF "temp" \in x.deferred THEN NoFile ELSE x.temp
  BY ReturnedOk
<1>2. y.temp = NoFile /\ y.conns = {}
  <2>1. x.conns \subseteq Conn
    BY DEF Process
  <2> QED BY <1>1, <2>1 DEF Conn
<1>3. /\ z.status = status /\ z.program = x.program /\ z.wrote = x.wrote
      /\ z.cancelled = x.cancelled /\ z.live = x.live
  BY DEF Process
<1>4. Told(z) /\ Become(r, y)
  OBVIOUS
<1> HIDE DEF y, z
<1>5. Told(y)
  BY <1>1, <1>2, <1>3, <1>4 DEF Told
<1>6. ProcessOk(r, y, settings)
  BY <1>1, <1>5 DEF ProcessOk
<1> QED BY <1>1, <1>4, <1>6, BecomePreserves

\* The early returns, where everything held has been deferred.
LEMMA ExitPreserves ==
  ASSUME IInv, NEW r \in Run, Running(r), NEW status \in Statuses, Exit(r, status),
         proc[r].pc \notin {"adopt http", "adopt websocket"},
         Told([proc[r] EXCEPT !.status = status, !.temp = NoFile, !.conns = {}])
  PROVE  IInv'
<1>1. proc[r] \in Process /\ ReleaseOk(proc[r])
  BY DEF IInv, ProcessOk, Running
<1> QED BY <1>1, ReturnPreserves DEF Exit, ReleaseOk

-----------------------------------------------------------------------------
(* What each step preserves.                                               *)

LEMMA NewProcessPreserves ==
  ASSUME IInv, NEW p \in Program, NEW pc, NEW live \in BOOLEAN, NewProcess(p, pc, live), MaxRuns \in Nat,
         pc = IF p = "bellwether" THEN "load" ELSE IF p = "demo" THEN "create" ELSE "read",
         p # "bellwether" => ~live
  PROVE  IInv'
<1> DEFINE n == started + 1
           others == IF p = "experiment" THEN {r \in RunsOf(p) : Running(r)} ELSE {}
           x == [Unborn EXCEPT !.program = p, !.pc = pc, !.status = "running", !.live = live,
                               !.beside = others]
<1>1. /\ n \in Run /\ proc[n] = Unborn /\ started \in Nat /\ n \in Nat
      /\ proc' = [proc EXCEPT ![n] = x] /\ started' = n /\ UNCHANGED <<disk, settings, lost>>
  BY DEF NewProcess, IInv, Run
<1>2. others \subseteq Run
  BY DEF RunsOf
<1>3. /\ x.program = p /\ x.pc = pc /\ x.status = "running" /\ x.live = live /\ x.beside = others
      /\ x.wrote = 0 /\ x.temp = NoFile /\ x.conns = {} /\ x.deferred = {} /\ x.cancelled = FALSE
  BY DEF Unborn
<1>4. x \in Process
  <2> HIDE DEF others
  <2>1. NoFile \in File /\ pc \in Starting \cup Publishing /\ "running" \in Statuses
    BY DEF File, NoFile, Starting, Publishing, Statuses
  <2>2. Unborn \in Process
    BY DEF Unborn, Process, Statuses, File, NoFile
  <2> QED BY <1>2, <2>1, <2>2 DEF Process
<1>5. Unborn.wrote = 0 /\ Unborn.program = "none" /\ Unborn.beside = {} /\ Unborn.pc = "ended"
  BY DEF Unborn
<1> HIDE DEF x
<1>6. ProcessOk(n, x, settings)
  <2>1. 0 < Len(Outputs[p])
    BY Programs3
  <2>2. FilesOk(n, x)
    BY <1>3, <2>1 DEF FilesOk, Starting, Publishing, WithTemp
  <2>3. ReleaseOk(x)
    BY <1>3 DEF ReleaseOk, WithTemp
  <2>4. PlaceOk(x, settings)
    BY <1>3, Programs3 DEF PlaceOk, Starting, Publishing, WithTemp, LiveOnly
  <2> QED BY <1>3, <1>4, <2>2, <2>3, <2>4 DEF ProcessOk
<1>7. /\ proc' \in [Run -> Process]
      /\ proc'[n] = x /\ \A s \in Run : s # n => proc'[s] = proc[s]
  BY <1>1, <1>4 DEF IInv
<1>8. \A s \in Run : ProcessOk(s, proc'[s], settings')
  BY <1>1, <1>6, <1>7 DEF IInv
<1>9. \A s \in Run : s > started' => proc'[s] = Unborn
  BY <1>1, <1>7 DEF IInv, Run
<1>10. \A s, t \in Run : s < t /\ Experiment(s)' /\ Experiment(t)' /\ Running(s)' => s \in proc'[t].beside
  <2> SUFFICES ASSUME NEW s \in Run, NEW t \in Run, s < t, Experiment(s)', Experiment(t)', Running(s)'
               PROVE  s \in proc'[t].beside
    OBVIOUS
  <2>1. CASE t = n
    <3>1. proc'[s] = proc[s] /\ p = "experiment"
      BY <1>1, <1>3, <1>7, <2>1 DEF Experiment, Run
    <3>2. s \in others
      BY <3>1 DEF RunsOf, Experiment, Running
    <3> QED BY <1>3, <1>7, <2>1, <3>2
  <2>2. CASE s = n
    <3>1. t > started /\ proc'[t] = proc[t]
      BY <1>1, <1>7, <2>2 DEF Run
    <3>2. proc[t] = Unborn
      BY <3>1 DEF IInv
    <3> QED BY <1>5, <3>1, <3>2 DEF Experiment
  <2>3. CASE s # n /\ t # n
    BY <1>7, <2>3 DEF IInv, Experiment, Running
  <2> QED BY <2>1, <2>2, <2>3
<1>11. ASSUME ~lost PROVE Authored'
  <2>1. Authored
    BY <1>11 DEF IInv
  <2>2. \A i \in 1..3 : Author(i)' = Author(i)
    BY <1>1 DEF Author
  <2>3. \A i \in 1..3 : Author(i) # n
    BY <1>1, <1>5, <2>1 DEF Authored, Experiment
  <2>4. \A s \in Run : s # n => (Experiment(s)' <=> Experiment(s)) /\ proc'[s].wrote = proc[s].wrote
    BY <1>7 DEF Experiment
  <2>5. \A s, t \in Run : s # n /\ t # n => (Overlap(s, t)' <=> Overlap(s, t))
    BY <1>7 DEF Overlap
  <2>6. \A i \in 1..3 : Author(i)' # 0 =>
          Author(i)' \in Run /\ Experiment(Author(i))' /\ proc'[Author(i)'].wrote >= i
    BY <1>7, <2>1, <2>2, <2>3 DEF Authored, Experiment
  <2>7. ASSUME NEW i \in 1..3, NEW r \in Run, Experiment(r)', proc'[r].wrote >= i
        PROVE  Author(i)' # 0 /\ (Author(i)' >= r \/ Overlap(r, Author(i))')
    <3>1. r # n
      BY <1>3, <1>7, <2>7
    <3>2. Author(i) # 0 /\ (Author(i) >= r \/ Overlap(r, Author(i)))
      BY <2>1, <2>4, <2>7, <3>1 DEF Authored
    <3>3. Author(i) \in Run
      BY <2>1, <3>2 DEF Authored
    <3>4. proc'[r] = proc[r] /\ proc'[Author(i)] = proc[Author(i)]
      BY <1>7, <2>3, <3>1, <3>3
    <3> QED BY <2>2, <3>2, <3>4 DEF Overlap
  <2> QED BY <2>6, <2>7 DEF Authored
<1> QED BY <1>1, <1>7, <1>8, <1>9, <1>10, <1>11 DEF IInv

LEMMA CancelPreserves == ASSUME IInv, NEW r \in Run, Cancel(r) PROVE IInv'
<1> DEFINE x == [proc[r] EXCEPT !.cancelled = TRUE]
<1>1. proc[r] \in Process /\ FilesOk(r, proc[r]) /\ ReleaseOk(proc[r]) /\ PlaceOk(proc[r], settings)
      /\ Running(r) /\ Become(r, x)
  BY DEF IInv, ProcessOk, Running, Cancel
<1>2. x \in Process
  BY <1>1 DEF Process
<1>3. /\ x.program = proc[r].program /\ x.pc = proc[r].pc /\ x.wrote = proc[r].wrote /\ x.temp = proc[r].temp
      /\ x.status = proc[r].status /\ x.conns = proc[r].conns /\ x.deferred = proc[r].deferred
      /\ x.live = proc[r].live /\ x.beside = proc[r].beside
  BY <1>1 DEF Process
<1> HIDE DEF x
<1>4. ProcessOk(r, x, settings)
  BY <1>1, <1>2, <1>3 DEF ProcessOk, FilesOk, ReleaseOk, PlaceOk, Running
<1> QED BY <1>1, <1>3, <1>4, BecomePreserves

\* On to the next step, with no change of what is held or of what is deferred but a
\* connection.
LEMMA GoOn ==
  ASSUME IInv, NEW r \in Run, proc[r].pc \in Starting, NEW x \in Process, Become(r, x),
         x.pc \in Starting \cup {"create"}, PlaceOk(x, settings), ReleaseOk(x),
         x.program = proc[r].program, x.wrote = proc[r].wrote, x.beside = proc[r].beside,
         x.status = proc[r].status
  PROVE  IInv'
<1>1. Running(r) /\ FilesOk(r, proc[r])
  BY DEF IInv, ProcessOk, Running, Starting, LiveOnly
<1>2. FilesOk(r, x) /\ x.pc # "ended"
  BY <1>1 DEF FilesOk, Starting, LiveOnly, WithTemp
<1> QED BY <1>1, <1>2, BecomePreserves DEF ProcessOk

\* What cmd/bellwether knows before its file; nobody refuses what Load accepted.
LEMMA AtStart ==
  ASSUME IInv, NEW r \in Run, proc[r].pc \in Starting \ {"read"}
  PROVE  /\ proc[r] \in Process /\ proc[r].program = "bellwether" /\ Running(r)
         /\ FilesOk(r, proc[r]) /\ ReleaseOk(proc[r]) /\ PlaceOk(proc[r], settings)
         /\ proc[r].pc # "load" => /\ validate(settings) /\ NewDecoderAccepts(settings)
                                   /\ NewCoordinatorAccepts(settings) /\ NewEngineAccepts(settings)
<1>1. /\ proc[r] \in Process /\ Running(r)
      /\ FilesOk(r, proc[r]) /\ ReleaseOk(proc[r]) /\ PlaceOk(proc[r], settings)
  BY DEF IInv, ProcessOk, Running, Starting, LiveOnly
<1>2. proc[r].program = "bellwether"
  BY <1>1, Programs3 DEF FilesOk, PlaceOk, Starting, LiveOnly, Publishing, WithTemp
<1> QED BY <1>1, <1>2 DEF PlaceOk, validate, NewDecoderAccepts, NewCoordinatorAccepts, NewEngineAccepts

LEMMA GotoPreserves ==
  ASSUME IInv, NEW r \in Run, NEW next \in (Starting \ {"read", "load"}) \cup {"create"}, Goto(r, next),
         proc[r].pc \in Starting \ {"read", "adopt http", "adopt websocket"}, validate(settings),
         next \in LiveOnly => proc[r].live,
         next \in {"project", "create"} => ~proc[r].live
  PROVE  IInv'
<1> DEFINE x == [proc[r] EXCEPT !.pc = next]
<1>1. /\ proc[r] \in Process /\ proc[r].program = "bellwether"
      /\ FilesOk(r, proc[r]) /\ ReleaseOk(proc[r]) /\ PlaceOk(proc[r], settings)
  BY AtStart
<1>2. x \in Process
  BY <1>1 DEF Process, Publishing
<1>3. /\ x.program = "bellwether" /\ x.pc = next /\ x.wrote = proc[r].wrote /\ x.temp = proc[r].temp
      /\ x.status = proc[r].status /\ x.conns = proc[r].conns /\ x.deferred = proc[r].deferred
      /\ x.live = proc[r].live /\ x.beside = proc[r].beside
  BY <1>1 DEF Process
<1>4. Become(r, x)
  BY DEF Goto
<1> HIDE DEF x
<1>5. ReleaseOk(x)
  BY <1>1, <1>3 DEF ReleaseOk, WithTemp, Starting, LiveOnly
<1>6. PlaceOk(x, settings)
  BY <1>3 DEF PlaceOk, Publishing, WithTemp, Starting, LiveOnly
<1> QED BY <1>1, <1>2, <1>3, <1>4, <1>5, <1>6, GoOn

\* A connection is dialled: it is open, and only the next step may close it.
LEMMA DialPreserves ==
  ASSUME IInv, NEW r \in Run, DialHTTP(r) \/ DialWebSocket(r)
  PROVE  IInv'
<1> DEFINE conn == IF proc[r].pc = "dial http" THEN "http" ELSE "websocket"
           next == IF proc[r].pc = "dial http" THEN "adopt http" ELSE "adopt websocket"
           x == [proc[r] EXCEPT !.pc = next, !.conns = @ \cup {conn}]
<1>1. proc[r].pc \in {"dial http", "dial websocket"} /\ Become(r, x)
  BY DEF DialHTTP, DialWebSocket, At, Dial
<1>2. /\ proc[r] \in Process /\ proc[r].program = "bellwether" /\ validate(settings)
      /\ ReleaseOk(proc[r]) /\ PlaceOk(proc[r], settings)
  BY <1>1, AtStart DEF Starting, LiveOnly
<1>3. next \in Starting /\ conn \in Conn /\ next = IF conn = "http" THEN "adopt http" ELSE "adopt websocket"
  BY <1>1 DEF Starting, LiveOnly, Conn
<1>4. x \in Process
  BY <1>2, <1>3 DEF Process
<1>5. /\ x.program = "bellwether" /\ x.pc = next /\ x.wrote = proc[r].wrote /\ x.temp = proc[r].temp
      /\ x.status = proc[r].status /\ x.conns = proc[r].conns \cup {conn} /\ x.deferred = proc[r].deferred
      /\ x.live = proc[r].live /\ x.beside = proc[r].beside
  BY <1>2 DEF Process
<1> HIDE DEF x
<1>6. ReleaseOk(x)
  BY <1>1, <1>2, <1>5 DEF ReleaseOk, WithTemp
<1>7. PlaceOk(x, settings)
  BY <1>1, <1>2, <1>5 DEF PlaceOk, Publishing, WithTemp, LiveOnly
<1>8. proc[r].pc \in Starting
  BY <1>1 DEF Starting, LiveOnly
<1> QED BY <1>1, <1>2, <1>3, <1>4, <1>5, <1>6, <1>7, <1>8, GoOn

\* The connection is adopted: every return closes it from now on.
LEMMA AdoptPreserves ==
  ASSUME IInv, NEW r \in Run, AdoptHTTP(r) \/ AdoptWebSocket(r)
  PROVE  IInv'
<1> DEFINE conn == IF proc[r].pc = "adopt http" THEN "http" ELSE "websocket"
           next == IF proc[r].pc = "adopt http" THEN "construct" ELSE "coordinate"
           x == [proc[r] EXCEPT !.pc = next, !.deferred = @ \cup {conn}]
<1>1. proc[r].pc \in {"adopt http", "adopt websocket"} /\ Become(r, x)
  BY DEF AdoptHTTP, AdoptWebSocket, At, Adopt
<1>2. /\ proc[r] \in Process /\ proc[r].program = "bellwether" /\ validate(settings)
      /\ ReleaseOk(proc[r]) /\ PlaceOk(proc[r], settings)
  BY <1>1, AtStart DEF Starting, LiveOnly
<1>3. next \in Starting /\ conn \in Conn
  BY <1>1 DEF Starting, LiveOnly, Conn
<1>4. x \in Process
  BY <1>2, <1>3 DEF Process
<1>5. /\ x.program = "bellwether" /\ x.pc = next /\ x.wrote = proc[r].wrote /\ x.temp = proc[r].temp
      /\ x.status = proc[r].status /\ x.conns = proc[r].conns /\ x.deferred = proc[r].deferred \cup {conn}
      /\ x.live = proc[r].live /\ x.beside = proc[r].beside
  BY <1>2 DEF Process
<1> HIDE DEF x
<1>6. ReleaseOk(x)
  BY <1>1, <1>2, <1>5 DEF ReleaseOk, WithTemp
<1>7. PlaceOk(x, settings)
  BY <1>1, <1>2, <1>5 DEF PlaceOk, Publishing, WithTemp, LiveOnly
<1>8. proc[r].pc \in Starting
  BY <1>1 DEF Starting, LiveOnly
<1> QED BY <1>1, <1>2, <1>3, <1>4, <1>5, <1>6, <1>7, <1>8, GoOn

\* The connection is refused, and closed by that return.
LEMMA RejectPreserves ==
  ASSUME IInv, NEW r \in Run, RejectHTTP(r) \/ RejectWebSocket(r)
  PROVE  IInv'
<1> DEFINE conn == IF proc[r].pc = "adopt http" THEN "http" ELSE "websocket"
           x == [proc[r] EXCEPT !.conns = @ \ {conn}]
<1>1. proc[r].pc \in {"adopt http", "adopt websocket"} /\ Become(r, Returned(x, "client"))
  BY DEF RejectHTTP, RejectWebSocket, At, Reject
<1>2. /\ proc[r] \in Process /\ ReleaseOk(proc[r]) /\ proc[r].wrote = 0 /\ Running(r)
  BY <1>1, AtStart DEF Starting, LiveOnly, FilesOk
<1>3. x \in Process
  BY <1>2 DEF Process
<1>4. /\ x.program = proc[r].program /\ x.wrote = proc[r].wrote /\ x.temp = proc[r].temp
      /\ x.conns = proc[r].conns \ {conn} /\ x.deferred = proc[r].deferred /\ x.beside = proc[r].beside
  BY <1>2 DEF Process
<1> HIDE DEF x
<1>5. /\ "http" \in x.conns => "http" \in x.deferred
      /\ "websocket" \in x.conns => "websocket" \in x.deferred
      /\ x.temp = NoFile
  BY <1>1, <1>2, <1>4 DEF ReleaseOk, WithTemp
<1>6. Told([x EXCEPT !.status = "client", !.temp = NoFile, !.conns = {}])
  BY <1>2, <1>3, <1>4 DEF Told, Process
<1> QED BY <1>1, <1>2, <1>3, <1>4, <1>5, <1>6, ReturnPreserves DEF Statuses

\* An early return of cmd/bellwether: an error before any file, or a signal.
LEMMA EarlyReturn ==
  ASSUME IInv, NEW r \in Run, NEW status, Exit(r, status),
         proc[r].pc \in Starting \ {"read", "adopt http", "adopt websocket"},
         \/ status \in {"config", "data"}
         \/ status = "rpc" /\ ~proc[r].cancelled
         \/ status = "ok" /\ proc[r].cancelled
  PROVE  IInv'
<1>1. proc[r] \in Process /\ proc[r].program = "bellwether" /\ proc[r].wrote = 0 /\ Running(r)
  BY AtStart DEF FilesOk
<1>2. Told([proc[r] EXCEPT !.status = status, !.temp = NoFile, !.conns = {}])
  BY <1>1 DEF Told, Process
<1> QED BY <1>1, <1>2, ExitPreserves DEF Statuses

LEMMA BellwetherPreserves ==
  ASSUME IInv, NEW r \in Run, Bellwether(r) \/ FollowFails(r)
  PROVE  IInv'
<1>0. \A pc \in Starting \ {"read"} : At(r, pc) =>
        /\ proc[r].live \in BOOLEAN
        /\ pc # "load" => /\ validate(settings) /\ NewDecoderAccepts(settings)
                          /\ NewCoordinatorAccepts(settings) /\ NewEngineAccepts(settings)
        /\ pc \in LiveOnly => proc[r].live
        /\ pc = "project" => ~proc[r].live
  BY AtStart DEF At, PlaceOk, Process
<1>1. CASE Load(r)
  BY <1>1, GotoPreserves, EarlyReturn DEF Load, At, Starting, LiveOnly
<1>2. CASE DialHTTP(r) \/ DialWebSocket(r)
  BY <1>2, DialPreserves
<1>3. CASE AdoptHTTP(r) \/ AdoptWebSocket(r)
  BY <1>3, AdoptPreserves
<1>4. CASE RejectHTTP(r) \/ RejectWebSocket(r)
  BY <1>4, RejectPreserves
<1>5. CASE Construct(r)
  BY <1>0, <1>5, GotoPreserves DEF Construct, At, Starting, LiveOnly
<1>6. CASE Coordinate(r)
  BY <1>0, <1>6, GotoPreserves DEF Coordinate, At, Starting, LiveOnly
<1>7. CASE Backfilled(r)
  BY <1>0, <1>7, GotoPreserves DEF Backfilled, At, Starting, LiveOnly
<1>8. CASE RPCFails(r)
  BY <1>8, EarlyReturn DEF RPCFails, Calling, At, Starting, LiveOnly
<1>9. CASE FollowCancelled(r)
  BY <1>9, EarlyReturn DEF FollowCancelled, At, Starting, LiveOnly
<1>10. CASE FollowFails(r)
  BY <1>10, EarlyReturn DEF FollowFails, At, Starting, LiveOnly
<1>11. CASE Project(r)
  BY <1>0, <1>11, GotoPreserves DEF Project, At, Starting, LiveOnly
<1>12. CASE ProjectFails(r)
  BY <1>12, EarlyReturn DEF ProjectFails, At, Starting, LiveOnly
<1> QED BY <1>1, <1>2, <1>3, <1>4, <1>5, <1>6, <1>7, <1>8, <1>9, <1>10, <1>11, <1>12 DEF Bellwether

LEMMA ReadPreserves ==
  ASSUME IInv, NEW r \in Run, ReadData(r) \/ ReadFails(r)
  PROVE  IInv'
<1>1. /\ proc[r].pc = "read" /\ proc[r] \in Process /\ proc[r].wrote = 0 /\ Running(r)
      /\ FilesOk(r, proc[r]) /\ ReleaseOk(proc[r]) /\ PlaceOk(proc[r], settings)
  BY DEF IInv, ProcessOk, Running, ReadData, ReadFails, At, FilesOk, Starting
<1>2. proc[r].program = "experiment"
  BY <1>1, Programs3 DEF FilesOk, PlaceOk, Publishing, WithTemp
<1>3. CASE ReadFails(r)
  <2>1. Told([proc[r] EXCEPT !.status = "data", !.temp = NoFile, !.conns = {}])
    BY <1>1 DEF Told, Process
  <2> QED BY <1>1, <1>3, <2>1, ExitPreserves DEF ReadFails, Statuses
<1>4. CASE ReadData(r)
  <2> DEFINE x == [proc[r] EXCEPT !.pc = "create"]
  <2>1. /\ x \in Process /\ x.pc = "create" /\ x.program = "experiment" /\ x.wrote = proc[r].wrote
        /\ x.temp = proc[r].temp /\ x.status = proc[r].status /\ x.conns = proc[r].conns
        /\ x.deferred = proc[r].deferred /\ x.live = proc[r].live /\ x.beside = proc[r].beside
    BY <1>1, <1>2 DEF Process, Publishing
  <2>2. Become(r, x)
    BY <1>4 DEF ReadData, Goto
  <2> HIDE DEF x
  <2>3. ReleaseOk(x) /\ PlaceOk(x, settings)
    BY <1>1, <1>2, <2>1 DEF ReleaseOk, PlaceOk, Publishing, WithTemp, LiveOnly
  <2> QED BY <1>1, <1>2, <2>1, <2>2, <2>3, GoOn DEF Starting
<1> QED BY <1>3, <1>4

\* The temporary file is created, written and synchronized, and removed by every
\* return from then on; only at the end is it a file that may be published.
LEMMA TempPreserves ==
  ASSUME IInv, NEW r \in Run, CreateTemp(r) \/ Write(r) \/ Sync(r)
  PROVE  IInv'
<1> DEFINE old == proc[r]
           x == IF old.pc = "create"
                  THEN [old EXCEPT !.pc = "write", !.deferred = @ \cup {"temp"},
                                   !.temp = [run |-> r, whole |-> FALSE, synced |-> FALSE]]
                ELSE IF old.pc = "write" THEN [old EXCEPT !.pc = "sync", !.temp.whole = TRUE]
                ELSE [old EXCEPT !.pc = "replace", !.temp.synced = TRUE]
<1>1. /\ old.pc \in {"create", "write", "sync"} /\ old \in Process /\ Running(r)
      /\ FilesOk(r, old) /\ ReleaseOk(old) /\ PlaceOk(old, settings)
  BY DEF IInv, ProcessOk, Running, CreateTemp, Write, Sync, At
<1>2. Become(r, x)
  BY DEF CreateTemp, Write, Sync, At
<1>3. r \in Nat
  BY DEF Run
<1>4. /\ x \in Process /\ x.program = old.program /\ x.wrote = old.wrote /\ x.status = old.status
      /\ x.conns = old.conns /\ x.live = old.live /\ x.beside = old.beside
      /\ x.pc = IF old.pc = "create" THEN "write" ELSE IF old.pc = "write" THEN "sync" ELSE "replace"
  BY <1>1, <1>3 DEF Process, File, Publishing, WithTemp
<1>5. /\ x.temp.run = IF old.pc = "create" THEN r ELSE old.temp.run
      /\ x.pc = "sync" => x.temp.whole
      /\ x.pc = "replace" => x.temp.whole /\ x.temp.synced
      /\ x.deferred = IF old.pc = "create" THEN old.deferred \cup {"temp"} ELSE old.deferred
  BY <1>1 DEF Process, File, FilesOk
<1> HIDE DEF x
<1>6. FilesOk(r, x)
  BY <1>1, <1>4, <1>5 DEF FilesOk, Starting, LiveOnly, WithTemp
<1>7. ReleaseOk(x)
  BY <1>1, <1>4, <1>5 DEF ReleaseOk, WithTemp
<1>8. PlaceOk(x, settings)
  BY <1>1, <1>4 DEF PlaceOk, Publishing, WithTemp, LiveOnly
<1>9. ProcessOk(r, x, settings)
  BY <1>1, <1>4, <1>6, <1>7, <1>8 DEF ProcessOk
<1> QED BY <1>1, <1>2, <1>4, <1>9, BecomePreserves

LEMMA WriteFailsPreserves == ASSUME IInv, NEW r \in Run, WriteFails(r) PROVE IInv'
<1>1. /\ proc[r].pc \in Publishing /\ proc[r] \in Process /\ Running(r)
      /\ proc[r].wrote < Len(Outputs[proc[r].program])
  BY DEF IInv, ProcessOk, Running, WriteFails, Writing, At, FilesOk, Publishing, WithTemp
<1>2. Told([proc[r] EXCEPT !.status = "file", !.temp = NoFile, !.conns = {}])
  BY <1>1 DEF Told, Process
<1> QED BY <1>1, <1>2, ExitPreserves DEF WriteFails, Statuses, Publishing, WithTemp

LEMMA KilledOk ==
  ASSUME IInv, NEW r \in Run
  PROVE  LET x == Killed(proc[r])
         IN  /\ ProcessOk(r, x, settings) /\ x.pc = "ended" /\ x.program = proc[r].program
             /\ x.wrote = proc[r].wrote /\ x.beside = proc[r].beside
<1> DEFINE x == Killed(proc[r])
<1>1. proc[r] \in Process
  BY DEF IInv
<1>2. /\ x \in Process /\ x.pc = "ended" /\ x.status = "killed" /\ x.program = proc[r].program
      /\ x.wrote = proc[r].wrote /\ x.beside = proc[r].beside
  BY <1>1 DEF Killed, Process, Statuses
<1> HIDE DEF x
<1>3. ProcessOk(r, x, settings)
  BY <1>2 DEF ProcessOk, Told
<1> QED BY <1>2, <1>3 DEF x

LEMMA KillPreserves == ASSUME IInv, NEW r \in Run, Kill(r) PROVE IInv'
BY KilledOk, BecomePreserves DEF Kill

-----------------------------------------------------------------------------
(* The rename: what is published is whole, on the disk and of this process, *)
(* and an experiment's artifact is now of the last one to write it.        *)

LEMMA ReplacePreserves == ASSUME IInv, NEW r \in Run, Replace(r) PROVE IInv'
<1> DEFINE old == proc[r]
           w == old.wrote
           p == old.program
           o == Outputs[p][w + 1]
           y == [old EXCEPT !.wrote = w + 1, !.temp = NoFile, !.deferred = @ \ {"temp"}]
           last == w + 1 = Len(Outputs[p])
           x == IF last THEN Returned(y, "ok") ELSE [y EXCEPT !.pc = "create"]
<1>1. /\ old.pc = "replace" /\ old \in Process /\ Running(r)
      /\ FilesOk(r, old) /\ ReleaseOk(old) /\ PlaceOk(old, settings)
  BY DEF IInv, ProcessOk, Running, Replace, At
<1>2. p \in Program /\ w \in 0..3 /\ w < Len(Outputs[p]) /\ r \in Nat /\ o = Outcome(r)
  BY <1>1 DEF FilesOk, Process, Run, Outcome
<1>3. /\ o \in Path /\ w + 1 \in 1..3 /\ (p # "experiment" => o = "data")
      /\ \A i \in 1..3 : Outputs["experiment"][i] # "data" /\ Outputs["experiment"][i] \in Path
      /\ \A i, j \in 1..3 : Outputs["experiment"][i] = Outputs["experiment"][j] => i = j
      /\ Len(Outputs[p]) \in Nat
  <2> HIDE DEF p, w
  <2>1. Len(Outputs[p]) \in Nat
    BY <1>2, Programs3
  <2>2. w \in Nat
    BY <1>2
  <2> QED BY <1>2, <2>1, <2>2, OutcomeIsAPath
<1>4. /\ y \in Process /\ y.wrote = w + 1 /\ y.program = p /\ y.temp = NoFile /\ y.pc = "replace"
      /\ y.deferred = old.deferred \ {"temp"} /\ y.conns = old.conns /\ y.live = old.live
      /\ y.beside = old.beside /\ y.cancelled = old.cancelled /\ y.status = old.status
  <2> HIDE DEF last, o, x
  <2>1. NoFile \in File /\ w + 1 \in 0..3
    BY <1>3 DEF File, NoFile
  <2> QED BY <1>1, <2>1 DEF Process
<1>5. /\ disk' = [disk EXCEPT ![o] = [file |-> old.temp, before |-> disk[o].file]]
      /\ proc' = [proc EXCEPT ![r] = x]
      /\ UNCHANGED <<started, settings, lost>>
  <2>1. proc' = [proc EXCEPT ![r] = IF y.wrote = Len(Outputs[y.program]) THEN Returned(y, "ok")
                                     ELSE [y EXCEPT !.pc = "create"]]
    BY DEF Replace
  <2> HIDE DEF y
  <2>2. proc' = [proc EXCEPT ![r] = x]
    BY <1>4, <2>1
  <2> HIDE DEF x
  <2> QED BY <1>2, <2>2 DEF Replace
<1> HIDE DEF y
<1>6. /\ x \in Process /\ x.program = p /\ x.wrote = w + 1 /\ x.beside = old.beside
      /\ ProcessOk(r, x, settings)
  <2>1. CASE last
    <3>1. /\ x \in Process /\ x.pc = "ended" /\ x.status = "ok"
          /\ x.program = p /\ x.wrote = w + 1 /\ x.beside = old.beside
          /\ x.live = old.live /\ x.conns = old.conns \ (old.deferred \ {"temp"}) /\ x.temp = NoFile
      <4>1. x = Returned(y, "ok") /\ "ok" \in Statuses
        BY <2>1 DEF Statuses
      <4> HIDE DEF x
      <4> QED BY <1>4, <4>1, ReturnedOk
    <3> HIDE DEF x
    <3>2. x.conns = {}
      BY <1>1, <3>1 DEF ReleaseOk, Process, Conn
    <3>3. Told(x)
      BY <1>1, <2>1, <3>1, <3>2 DEF Told, PlaceOk, Publishing, WithTemp
    <3> QED BY <3>1, <3>3 DEF ProcessOk
  <2>2. CASE ~last
    <3>1. /\ x \in Process /\ x.pc = "create" /\ x.program = p /\ x.wrote = w + 1 /\ x.beside = old.beside
          /\ x.temp = NoFile /\ x.deferred = old.deferred \ {"temp"} /\ x.conns = old.conns
          /\ x.live = old.live /\ x.status = old.status
      BY <1>4, <2>2 DEF Process, Publishing
    <3> HIDE DEF x
    <3>2. FilesOk(r, x)
      BY <1>1, <1>2, <1>3, <2>2, <3>1 DEF FilesOk, Starting, LiveOnly, WithTemp
    <3>3. ReleaseOk(x) /\ PlaceOk(x, settings)
      BY <1>1, <3>1 DEF ReleaseOk, PlaceOk, Publishing, WithTemp, LiveOnly
    <3> QED BY <3>1, <3>2, <3>3 DEF ProcessOk
  <2> QED BY <2>1, <2>2
<1> HIDE DEF x
<1>7. /\ proc' \in [Run -> Process]
      /\ proc'[r] = x /\ \A s \in Run : s # r => proc'[s] = proc[s]
  BY <1>5, <1>6 DEF IInv
<1>8. \A s \in Run : /\ proc'[s].program = proc[s].program /\ proc'[s].beside = proc[s].beside
                     /\ proc'[s].wrote = IF s = r THEN w + 1 ELSE proc[s].wrote
  BY <1>6, <1>7
<1>9. \A s \in Run : s > started' => proc'[s] = Unborn
  <2> SUFFICES ASSUME NEW s \in Run, s > started' PROVE proc'[s] = Unborn
    OBVIOUS
  <2>1. proc[s] = Unborn
    BY <1>5 DEF IInv
  <2>2. s # r
    BY <1>1, <2>1 DEF Running, Unborn
  <2> QED BY <1>7, <2>1, <2>2
<1>10. \A s, t \in Run : s < t /\ Experiment(s)' /\ Experiment(t)' /\ Running(s)' => s \in proc'[t].beside
  BY <1>1, <1>7, <1>8 DEF IInv, Experiment, Running
<1>11. Kept(old.temp) /\ old.temp.run = r
  BY <1>1 DEF FilesOk, Process, Kept, WithTemp
<1>12. /\ disk' \in [Path -> [file: File, before: File]]
       /\ \A q \in Path : Kept(disk'[q].file) /\ Kept(disk'[q].before)
       /\ disk'[o].file = old.temp /\ \A q \in Path : q # o => disk'[q] = disk[q]
  <2>1. disk'[o] = [file |-> old.temp, before |-> disk[o].file] /\ Kept(disk[o].file)
        /\ \A q \in Path : q # o => disk'[q] = disk[q]
    BY <1>3, <1>5 DEF IInv
  <2>2. old.temp \in File /\ disk[o].file \in File
    BY <1>11, <2>1 DEF Kept
  <2> QED BY <1>3, <1>5, <1>11, <2>1, <2>2 DEF IInv
<1>13. ASSUME ~lost PROVE Authored'
  <2>1. Authored
    BY <1>13 DEF IInv
  <2>2. ASSUME NEW i \in 1..3
        PROVE  Author(i)' = IF p = "experiment" /\ i = w + 1 THEN r ELSE Author(i)
    <3> DEFINE q == Outputs["experiment"][i]
    <3>1. q \in Path /\ (q = o <=> p = "experiment" /\ i = w + 1)
      BY <1>3
    <3>2. disk'[q].file.run = IF q = o THEN r ELSE disk[q].file.run
      BY <1>11, <1>12, <3>1
    <3> QED BY <3>1, <3>2 DEF Author
  <2>3. \A s, t \in Run : Overlap(s, t)' <=> Overlap(s, t)
    BY <1>8 DEF Overlap
  <2>4. \A s \in Run : Experiment(s)' <=> Experiment(s)
    BY <1>8 DEF Experiment
  <2>5. ASSUME NEW i \in 1..3, NEW a, a = Author(i)', a # 0
        PROVE  a \in Run /\ Experiment(a) /\ proc'[a].wrote >= i
    <3>1. CASE p = "experiment" /\ i = w + 1
      <4>1. a = r
        BY <2>2, <2>5, <3>1
      <4> QED BY <1>2, <1>8, <3>1, <4>1 DEF Experiment
    <3>2. CASE ~(p = "experiment" /\ i = w + 1)
      <4>1. a = Author(i)
        BY <2>2, <2>5, <3>2
      <4>2. a \in Run /\ Experiment(a) /\ proc[a].wrote >= i
        BY <2>1, <2>5, <4>1 DEF Authored
      <4> QED BY <1>2, <1>8, <4>2
    <3> QED BY <3>1, <3>2
  <2>6. ASSUME NEW i \in 1..3, NEW s \in Run, Experiment(s), proc'[s].wrote >= i,
               NEW a, a = Author(i)'
        PROVE  a # 0 /\ (a >= s \/ Overlap(s, a))
    <3>1. CASE p = "experiment" /\ i = w + 1
      <4>1. a = r /\ Experiment(r)
        BY <2>2, <2>6, <3>1 DEF Experiment
      <4>2. r < s => r \in proc[s].beside
        BY <1>1, <2>6, <4>1 DEF IInv
      <4> QED BY <1>2, <4>1, <4>2 DEF Overlap, Run
    <3>2. CASE ~(p = "experiment" /\ i = w + 1)
      <4>1. a = Author(i)
        BY <2>2, <2>6, <3>2
      <4>2. proc[s].wrote >= i
        BY <1>2, <1>8, <2>6, <3>2 DEF Experiment
      <4> QED BY <2>1, <2>6, <4>1, <4>2 DEF Authored
    <3> QED BY <3>1, <3>2
  <2>7. ASSUME NEW i \in 1..3, Author(i)' # 0
        PROVE  Author(i)' \in Run /\ Experiment(Author(i))' /\ proc'[Author(i)'].wrote >= i
    <3>1. PICK a : a = Author(i)'
      OBVIOUS
    <3>2. a \in Run /\ Experiment(a) /\ proc'[a].wrote >= i
      BY <2>5, <2>7, <3>1
    <3>3. proc'[a].program = "experiment"
      BY <1>8, <3>2 DEF Experiment
    <3> QED BY <3>1, <3>2, <3>3 DEF Experiment
  <2>8. ASSUME NEW i \in 1..3, NEW s \in Run, Experiment(s)', proc'[s].wrote >= i
        PROVE  Author(i)' # 0 /\ (Author(i)' >= s \/ Overlap(s, Author(i))')
    <3>1. PICK a : a = Author(i)'
      OBVIOUS
    <3>2. a # 0 /\ (a >= s \/ Overlap(s, a))
      BY <2>4, <2>6, <2>8, <3>1
    <3>3. a \in Run
      BY <2>5, <3>1, <3>2
    <3>4. s \in proc'[a].beside \/ a \in proc'[s].beside \/ a >= s
      BY <1>8, <3>2, <3>3 DEF Overlap
    <3> QED BY <3>1, <3>2, <3>4 DEF Overlap
  <2> QED BY <2>7, <2>8 DEF Authored
<1>14. \A s \in Run : ProcessOk(s, proc'[s], settings')
  BY <1>5, <1>6, <1>7 DEF IInv
<1> QED BY <1>5, <1>7, <1>9, <1>10, <1>12, <1>13, <1>14 DEF IInv

\* What is published survives, this version or the one it replaced.
LEMMA PowerLossPreserves == ASSUME IInv, PowerLoss PROVE IInv'
<1>1. PICK undone \in SUBSET {q \in Path : disk[q].before # disk[q].file},
           torn \in SUBSET {q \in Path : ~(disk[q].file.synced /\ disk[q].before.synced)} :
        LET survivor(q) == IF q \in undone THEN disk[q].before ELSE disk[q].file
            left(q) == [survivor(q) EXCEPT !.whole = @ /\ (survivor(q).synced \/ q \notin torn)]
        IN disk' = [q \in Path |-> [file |-> left(q), before |-> left(q)]]
  BY DEF PowerLoss
<1> DEFINE survivor(q) == IF q \in undone THEN disk[q].before ELSE disk[q].file
           left(q) == [survivor(q) EXCEPT !.whole = @ /\ (survivor(q).synced \/ q \notin torn)]
<1>2. disk' = [q \in Path |-> [file |-> left(q), before |-> left(q)]]
  BY <1>1
<1>3. \A q \in Path : Kept(left(q))
  <2> SUFFICES ASSUME NEW q \in Path PROVE Kept(left(q))
    OBVIOUS
  <2>1. Kept(survivor(q))
    BY DEF IInv
  <2> HIDE DEF survivor
  <2> QED BY <2>1 DEF Kept, File
<1> HIDE DEF left
<1>4. /\ disk' \in [Path -> [file: File, before: File]]
      /\ \A q \in Path : Kept(disk'[q].file) /\ Kept(disk'[q].before)
  BY <1>2, <1>3 DEF Kept
<1>5. /\ lost' = TRUE /\ UNCHANGED <<started, settings>>
      /\ proc' = [r \in Run |-> IF Running(r) THEN Killed(proc[r]) ELSE proc[r]]
  BY DEF PowerLoss
<1>6. ASSUME NEW r \in Run
      PROVE  ProcessOk(r, proc'[r], settings) /\ ~Running(r)' /\ (~Running(r) => proc'[r] = proc[r])
  <2>1. CASE Running(r)
    <3>1. proc'[r] = Killed(proc[r])
      BY <1>5, <2>1
    <3> QED BY <2>1, <3>1, KilledOk DEF Running
  <2>2. CASE ~Running(r)
    BY <1>5, <2>2 DEF IInv, Running
  <2> QED BY <2>1, <2>2
<1>7. proc' \in [Run -> Process]
  BY <1>5, <1>6 DEF ProcessOk
<1>8. \A r \in Run : r > started' => proc'[r] = Unborn
  <2> SUFFICES ASSUME NEW r \in Run, r > started' PROVE proc'[r] = Unborn
    OBVIOUS
  <2>1. proc[r] = Unborn
    BY <1>5 DEF IInv
  <2> QED BY <1>6, <2>1 DEF Running, Unborn
<1> QED BY <1>4, <1>5, <1>6, <1>7, <1>8 DEF IInv

-----------------------------------------------------------------------------
(* The theorems.                                                           *)

LEMMA InitInv == Init => IInv
<1> SUFFICES ASSUME Init PROVE IInv
  OBVIOUS
<1>1. /\ Unborn \in Process /\ NoFile \in File /\ Kept(NoFile) /\ NoFile.run = 0
      /\ Unborn.pc = "ended" /\ Unborn.program = "none" /\ Told(Unborn)
  BY DEF Process, File, NoFile, Statuses, Kept, Unborn, Told
<1>2. \A r \in Run : proc[r] = Unborn /\ ProcessOk(r, proc[r], settings)
  BY <1>1 DEF Init, ProcessOk
<1>3. proc \in [Run -> Process] /\ started \in Nat
  BY <1>1 DEF Init
<1>4. /\ disk \in [Path -> [file: File, before: File]]
      /\ \A q \in Path : Kept(disk[q].file) /\ Kept(disk[q].before) /\ disk[q].file.run = 0
  BY <1>1 DEF Init
<1>5. \A i \in 1..3 : Author(i) = 0
  BY <1>4, Programs3 DEF Author, Path
<1>6. Authored
  BY <1>1, <1>2, <1>5 DEF Authored, Experiment
<1> QED BY <1>1, <1>2, <1>3, <1>4, <1>6 DEF IInv, Experiment

LEMMA StepPreserves == IInv /\ [Next]_vars => IInv'
<1> SUFFICES ASSUME IInv, [Next]_vars PROVE IInv'
  OBVIOUS
<1>0. MaxRuns \in Nat
  BY ProgramsAssumption
<1>1. CASE StartBellwether
  BY <1>0, <1>1, NewProcessPreserves, Programs3 DEF StartBellwether
<1>2. CASE StartDemo
  BY <1>0, <1>2, NewProcessPreserves, Programs3 DEF StartDemo
<1>3. CASE StartExperiment
  BY <1>0, <1>3, NewProcessPreserves, Programs3 DEF StartExperiment
<1>4. CASE \E r \in Run : Cancel(r) \/ FollowFails(r) \/ Bellwether(r)
  BY <1>4, CancelPreserves, BellwetherPreserves
<1>5. CASE \E r \in Run : ReadData(r) \/ ReadFails(r) \/ Publish(r) \/ Kill(r)
  BY <1>5, ReadPreserves, TempPreserves, ReplacePreserves, WriteFailsPreserves, KillPreserves DEF Publish
<1>6. CASE PowerLoss
  BY <1>6, PowerLossPreserves
<1>7. CASE UNCHANGED vars
  BY <1>7 DEF vars, IInv, Authored, Author, Overlap, Experiment, Running
<1> QED BY <1>1, <1>2, <1>3, <1>4, <1>5, <1>6, <1>7 DEF Next

\* Every reachable state satisfies the inductive invariant.
THEOREM InvariantHolds == Spec => []IInv
BY InitInv, StepPreserves, PTL DEF Spec

\* Whoever is killed and whenever power is lost, a path holds one whole write.
THEOREM PublishedFilesAreWhole == Spec => []WholeFiles
<1>1. IInv => WholeFiles
  BY DEF IInv, Kept, WholeFiles
<1> QED BY <1>1, InvariantHolds, PTL

\* Without a power loss, artifacts of two runs that never overlapped lie side by
\* side only when the later run has not come to the later artifact; several
\* experiments may be running at once.
THEOREM ArtifactsStayInOrder == Spec => []ArtifactsInOrder
<1>1. IInv => ArtifactsInOrder
  <2> SUFFICES ASSUME IInv, ~lost, NEW i \in 1..3, Author(i) # 0
               PROVE  /\ proc[Author(i)].program = "experiment" /\ proc[Author(i)].wrote >= i
                      /\ \A j \in 1..(i - 1) :
                           LET r == Author(i)  s == Author(j)
                           IN s # 0 /\ (s = r \/ Overlap(r, s) \/ (s > r /\ proc[s].wrote < i))
    BY DEF ArtifactsInOrder
  <2> DEFINE r == Author(i)
  <2>1. Authored
    BY DEF IInv
  <2>2. r \in Run /\ Experiment(r) /\ proc[r].wrote >= i /\ proc[r].wrote \in 0..3 /\ r \in Nat
    BY <2>1 DEF Authored, IInv, Process, Run
  <2>3. ASSUME NEW j \in 1..(i - 1)
        PROVE  Author(j) # 0 /\ (Author(j) = r \/ Overlap(r, Author(j))
                                 \/ (Author(j) > r /\ proc[Author(j)].wrote < i))
    <3> DEFINE s == Author(j)
    <3>1. j \in 1..3 /\ j < i
      OBVIOUS
    <3>2. s # 0 /\ (s >= r \/ Overlap(r, s))
      BY <2>1, <2>2, <3>1 DEF Authored
    <3>3. s \in Run /\ Experiment(s) /\ proc[s].wrote \in 0..3 /\ s \in Nat
      BY <2>1, <3>1, <3>2 DEF Authored, IInv, Process, Run
    <3>4. proc[s].wrote >= i => r >= s \/ Overlap(s, r)
      BY <2>1, <3>3 DEF Authored
    <3>5. Overlap(s, r) <=> Overlap(r, s)
      BY DEF Overlap
    <3> HIDE DEF r, s
    <3>6. s = r \/ Overlap(r, s) \/ (s > r /\ proc[s].wrote < i)
      BY <2>2, <3>2, <3>3, <3>4, <3>5
    <3> QED BY <3>2, <3>6 DEF r, s
  <2> QED BY <2>2, <2>3 DEF Experiment
<1> QED BY <1>1, InvariantHolds, PTL

\* From whichever of its returns a process returns, it leaves no temporary file and
\* no open connection; one that is killed may leave a temporary file.
THEOREM ReturnsLeaveNothing == Spec => []NothingLeftBehind
<1>1. IInv => NothingLeftBehind
  BY DEF IInv, ProcessOk, FilesOk, Told, NothingLeftBehind
<1> QED BY <1>1, InvariantHolds, PTL

\* What the exit status says, and that nobody refuses what Load has accepted.
THEOREM StatusTellsAll == Spec => []ExitTellsAll
<1>1. IInv => ExitTellsAll
  BY DEF IInv, ProcessOk, FilesOk, Told, ExitTellsAll
<1> QED BY <1>1, InvariantHolds, PTL
=============================================================================
