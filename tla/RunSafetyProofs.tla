--------------------------- MODULE RunSafetyProofs ---------------------------
(***************************************************************************)
(* Safety of a run, for every workflow, any number of answers and any      *)
(* bound on escalations, visits and crashes: its output comes before its   *)
(* completion and its loops end whatever the timing; it has one driver and *)
(* asks one question where people are patient and the queue is prompt.     *)
(***************************************************************************)
EXTENDS RunLifecycleProofs

-----------------------------------------------------------------------------
(* A completed run has its output.  The output is written two steps before *)
(* the status, and others write to the run in between: what has to be      *)
(* carried along is that an executor on its way to "completed" has         *)
(* written the output, and that only a deletion takes it away again.       *)

Finished(p) == pc[p] \in {"status", "write"} /\ mem[p].fin = "completed"

OutputInv ==
    /\ CompletedHasOutput
    /\ \A p \in Executors : Finished(p) => output \/ status = "deleted"

(* What a step has to satisfy.                                             *)
LEMMA OutputKept ==
    ASSUME OutputInv,
           output => output' \/ status' = "deleted",
           status = "deleted" => status' = "deleted",
           status' = "completed" => output',
           \A p \in Executors :
              Finished(p)' => Finished(p) \/ output' \/ status' = "deleted"
    PROVE  OutputInv'
BY DEF OutputInv, CompletedHasOutput

(* A step that leaves the row of the run alone.                            *)
LEMMA OutputKeptAside ==
    ASSUME OutputInv, UNCHANGED runVars,
           \A p \in Executors : Finished(p)' => Finished(p)
    PROVE  OutputInv'
BY OutputKept DEF OutputInv, CompletedHasOutput, runVars

(* A step of one executor that does not finish.                            *)
LEMMA OneMoves ==
    ASSUME TypeInv, TypeInv', NEW p \in Executors,
           NEW l \in ExecutorPCs, Goto(p, l),
           \A r \in Executors : r # p => mem'[r] = mem[r],
           l \in {"status", "write"} => mem'[p].fin # "completed"
    PROVE  \A r \in Executors : Finished(r)' => Finished(r)
BY DEF Finished, TypeInv, TypeOK, Goto

(* A step inside a node does not finish an execution as completed.         *)
LEMMA NodeStepOutput ==
    ASSUME TypeInv, TypeInv', OutputInv, NEW p \in Executors,
           NodeStep(p) \/ NodeFails(p)
    PROVE  OutputInv'
<1>0. mem[p] \in Memory /\ mem \in [Executors -> Memory]
  BY DEF TypeInv, TypeOK
<1>1. UNCHANGED runVars
  BY DEF NodeStep, NodeFails, NodeRaises, AdoptEscalation, PauseNode,
         SupersedeEscalations, CreateEscalation, RecordEscalation, Interrupt,
         TakeAnswer, CompleteNode
<1>2. \A r \in Executors : r # p => mem'[r] = mem[r]
  <2>1. \/ UNCHANGED mem
        \/ \E m : mem' = [mem EXCEPT ![p] = m]
    BY DEF NodeStep, NodeFails, NodeRaises, AdoptEscalation, PauseNode,
           SupersedeEscalations, CreateEscalation, RecordEscalation, Interrupt,
           TakeAnswer, CompleteNode, Finish
  <2> QED BY <1>0, <2>1
<1>3. \E l \in ExecutorPCs :
         /\ Goto(p, l)
         /\ l \in {"status", "write"} => mem'[p].fin # "completed"
  <2>1. CASE NodeFails(p) \/ NodeRaises(p) \/ Interrupt(p)
    BY <1>0, <2>1 DEF NodeFails, NodeRaises, Interrupt, Finish, ExecutorPCs, Memory
  <2>2. CASE TakeAnswer(p)
    <3>1. Consumed(mem[p]) \in Memory
      BY <1>0, <2>2, ConsumedType DEF TakeAnswer
    <3>2. \/ /\ Goto(p, "status")
             /\ mem' = [mem EXCEPT ![p] = [Consumed(mem[p]) EXCEPT !.fin = "failed"]]
          \/ Goto(p, "ask")
          \/ Goto(p, "complete")
      BY <2>2 DEF TakeAnswer
    <3> QED BY <1>0, <3>1, <3>2 DEF ExecutorPCs, Memory
  <2>3. CASE \/ AdoptEscalation(p) \/ PauseNode(p) \/ SupersedeEscalations(p)
             \/ CreateEscalation(p) \/ RecordEscalation(p) \/ CompleteNode(p)
    <3>1. \E l \in {"await", "create", "supersede", "record", "persist", "ask"} :
             Goto(p, l)
      BY <2>3 DEF AdoptEscalation, PauseNode, SupersedeEscalations,
                  CreateEscalation, RecordEscalation, CompleteNode
    <3> QED BY <3>1 DEF ExecutorPCs
  <2> QED BY <2>1, <2>2, <2>3 DEF NodeStep
<1>4. \A r \in Executors : Finished(r)' => Finished(r)
  BY <1>2, <1>3, OneMoves
<1> QED BY <1>1, <1>4, OutputKeptAside

(* The steps of an executor: the output is there before "completed" is     *)
(* written.                                                                *)
LEMMA DrivingOutput ==
    ASSUME TypeInv, TypeInv', OutputInv, NEW p \in Executors, Driving(p)
    PROVE  OutputInv'
<1>0. mem \in [Executors -> Memory] /\ pc \in [Executors -> ExecutorPCs]
  BY DEF TypeInv, TypeOK
<1>1. CASE ResumeRunRead(p)
  <2>1. \A r \in Executors : Finished(r)' => Finished(r)
    BY <1>0, <1>1 DEF ResumeRunRead, Goto, Finished
  <2> QED BY <1>1, <2>1, OutputKeptAside DEF ResumeRunRead
<1>2. CASE ResumeRunMark(p)
  <2>1. \A r \in Executors : Finished(r)' => Finished(r)
    BY <1>0, <1>2 DEF ResumeRunMark, Goto, Finished
  <2> QED BY <1>2, <2>1, OutputKept
      DEF ResumeRunMark, MarkedRunning, OutputInv, CompletedHasOutput
<1>3. CASE NodeStep(p)
  BY <1>3, NodeStepOutput
<1>4. CASE PersistOutput(p)
  <2>1. \A r \in Executors :
           Finished(r)' => Finished(r) \/ output' \/ status' = "deleted"
    BY <1>4 DEF PersistOutput
  <2> QED BY <1>4, <2>1, OutputKept
      DEF PersistOutput, OutputInv, CompletedHasOutput
<1>5. CASE ReadRunStatus(p)
  <2>1. \A r \in Executors : Finished(r)' => Finished(r)
    BY <1>0, <1>5 DEF ReadRunStatus, Goto, Finished
  <2> QED BY <1>5, <2>1, OutputKeptAside DEF ReadRunStatus
<1>6. CASE UpdateRunStatus(p)
  <2>1. \A r \in Executors : Finished(r)' => Finished(r)
    BY <1>0, <1>6 DEF UpdateRunStatus, Goto, Finished
  <2>2. status' = "completed" => output'
    BY <1>6 DEF UpdateRunStatus, OutputInv, Finished, CompletedHasOutput
  <2> QED BY <1>6, <2>1, <2>2, OutputKept DEF UpdateRunStatus
<1> QED BY <1>1, <1>2, <1>3, <1>4, <1>5, <1>6 DEF Driving

(* Nobody else completes a run, and only its deletion removes the output.  *)
LEMMA OtherOutput ==
    ASSUME TypeInv, TypeInv', OutputInv,
           \/ Starting \/ People \/ FindExpired \/ Sweep \/ DeleteRun
           \/ WorkerCrash \/ ApiCrash
           \/ \E q \in Requests : Handling(q)
    PROVE  OutputInv'
<1>0. mem \in [Executors -> Memory] /\ pc \in [Executors -> ExecutorPCs]
  BY DEF TypeInv, TypeOK
<1>1. CASE Starting
  <2>1. \A r \in Executors : Finished(r)' => Finished(r)
    BY <1>0, <1>1 DEF Starting, CreateRun, EnqueueExecute, ExecuteRunLoad,
                      ExecuteRunMark, Goto, Finished
  <2> QED BY <1>1, <2>1, OutputKept
      DEF Starting, CreateRun, EnqueueExecute, ExecuteRunLoad, ExecuteRunMark,
          runVars, OutputInv, CompletedHasOutput
<1>2. CASE People \/ FindExpired
  <2>1. UNCHANGED <<runVars, pc, mem>>
    BY <1>2 DEF People, LookAtEscalation, ResumeEndpoint, AbortEndpoint,
                CheckDeletable, FindExpired
  <2> QED BY <2>1, OutputKeptAside DEF Finished
<1>3. CASE Sweep \/ DeleteRun
  <2>1. \A r \in Executors : Finished(r)' => Finished(r)
    BY <1>3 DEF Sweep, TimeoutOpenEscalations, CheckTimedOutRun,
                StopTimedOutRun, DeleteRun, Finished
  <2> QED BY <1>3, <2>1, OutputKept
      DEF Sweep, TimeoutOpenEscalations, CheckTimedOutRun, StopTimedOutRun,
          DeleteRun, runVars, OutputInv, CompletedHasOutput
<1>4. CASE WorkerCrash \/ ApiCrash
  <2>1. \A r \in Executors : Finished(r)' => Finished(r)
    BY <1>0, <1>4 DEF WorkerCrash, ApiCrash, Finished, Active, Busy, WorkerJobs
  <2> QED BY <1>4, <2>1, OutputKeptAside DEF WorkerCrash, ApiCrash
<1>5. ASSUME NEW q \in Requests, Handling(q) PROVE OutputInv'
  <2>1. \A r \in Executors : Finished(r)' => Finished(r)
    BY <1>0, <1>5
    DEF Handling, ResolveEscalation, EnqueueRunResume, AbortFromEscalation,
        StopRun, EnqueueFromEndpoint, ResumeIfStillPaused, Goto, Finished
  <2> QED BY <1>5, <2>1, OutputKept
      DEF Handling, ResolveEscalation, EnqueueRunResume, AbortFromEscalation,
          StopRun, EnqueueFromEndpoint, ResumeIfStillPaused, runVars, OutputInv,
          CompletedHasOutput
<1> QED BY <1>1, <1>2, <1>3, <1>4, <1>5

(* Every step keeps the output with the status.                            *)
LEMMA NextOutput ==
    ASSUME TypeInv, TypeInv', OutputInv, [Next]_vars
    PROVE  OutputInv'
<1>1. CASE Next
  BY <1>1, DrivingOutput, OtherOutput, NodeStepOutput DEF Next, Faults
<1>2. CASE UNCHANGED vars
  BY <1>2 DEF vars, OutputInv, CompletedHasOutput, Finished
<1> QED BY <1>1, <1>2

(* At first nothing is completed.                                          *)
LEMMA InitOutput == Init => OutputInv
BY DEF Init, OutputInv, CompletedHasOutput, Finished

(* Whatever the timing of people and queue, with crashes, deadlines and    *)
(* deletions: a run that is completed has its output.                      *)
THEOREM OutputBeforeCompletion == Spec => []CompletedHasOutput
<1>1. TypeInv /\ TypeInv' /\ OutputInv /\ [Next]_vars => OutputInv'
  BY NextOutput
<1>2. OutputInv => CompletedHasOutput
  BY DEF OutputInv
<1> QED BY <1>1, <1>2, InitOutput, InitTypeInv, NextTypeInv, PTL DEF Spec

-----------------------------------------------------------------------------
(* One driver.  When people answer a run at rest only and the queue is     *)
(* prompt, whatever drives the graph does so alone.  An executor becomes   *)
(* awake from a row it read, so the invariant ties the executors to each   *)
(* other, to the requests being handled and to the status of the run.      *)

Awake(p) == pc[p] \notin {"off", "done", "sleep"}
InFlight(q) == req[q].pc \notin {"idle", "done"}

AwakeAlone == \A p, r \in Executors : Awake(p) /\ Awake(r) => p = r

(* Only fallbacks sleep, each beside its own job only.                     *)
SleepsByItsJob == \A q \in Requests :
    /\ pc[ResumeJob(q)] # "sleep"
    /\ pc[Fallback(q)] = "sleep" =>
          \A p \in Executors : Busy(p) => p = Fallback(q) \/ p = ResumeJob(q)

ActiveNotPaused == \A p \in Executors : Active(p) => status # "paused"

(* An answer is handled while nothing else is.                             *)
HandledAtRest == \A q \in Requests : InFlight(q) =>
    /\ \A p \in Executors : ~Busy(p)
    /\ \A r \in Requests : InFlight(r) => r = q

(* Nothing happens to a run before its first job is queued.                *)
QuietAtFirst == pc[ExecuteJob] = "off" =>
    /\ \A p \in Executors : ~Busy(p)
    /\ \A q \in Requests : ~InFlight(q)
    /\ OpenEscs = {}
    /\ status \in {"absent", "queued", "deleted"}
    /\ sweep.pc = "idle"

DriverInv == /\ AwakeAlone /\ SleepsByItsJob /\ ActiveNotPaused
             /\ HandledAtRest /\ QuietAtFirst

(* Jobs and fallbacks of different answers are different executors.        *)
LEMMA ExecutorsDistinct ==
    /\ \A q \in Requests : /\ ResumeJob(q) # ExecuteJob
                           /\ Fallback(q) # ExecuteJob
    /\ \A q, r \in Requests : /\ ResumeJob(q) # Fallback(r)
                              /\ (Fallback(q) = Fallback(r)) => q = r
                              /\ (ResumeJob(q) = ResumeJob(r)) => q = r
BY DEF ExecuteJob, ResumeJob, Fallback

(* A step of an executor that was already busy.                            *)
LEMMA BusyStep ==
    ASSUME TypeInv, DriverInv, NEW p \in Executors, Busy(p),
           NEW l \in ExecutorPCs \ {"off", "sleep"}, Goto(p, l),
           UNCHANGED <<req, sweep>>,
           pc[p] = "sleep" /\ l # "done" =>
              \A r \in Executors : Busy(r) => r = p,
           l \in {"queued", "loaded", "done"} \/ status' # "paused",
           status' = "paused" => status = "paused" \/ (l = "done" /\ Active(p))
    PROVE  DriverInv'
<1>0. /\ pc \in [Executors -> ExecutorPCs]
      /\ pc' = [pc EXCEPT ![p] = l]
      /\ l # "off" /\ l # "sleep"
  BY DEF TypeInv, TypeOK, Goto
<1>1. pc'[p] = l /\ \A r \in Executors : r # p => pc'[r] = pc[r]
  BY <1>0
<1>2. \A r \in Executors : Busy(r)' => Busy(r)
  BY <1>1 DEF Busy
<1>3. AwakeAlone'
  BY <1>0, <1>1 DEF DriverInv, AwakeAlone, Awake, Busy
<1>4. SleepsByItsJob'
  BY <1>0, <1>1, <1>2, ExecutorFacts DEF DriverInv, SleepsByItsJob
<1>5. ActiveNotPaused'
  <2> SUFFICES ASSUME NEW r \in Executors, Active(r)', status' = "paused"
               PROVE  FALSE
    BY DEF ActiveNotPaused
  <2>1. CASE r = p
    BY <1>1, <2>1 DEF Active
  <2>2. CASE r # p
    <3>1. Active(r)
      BY <1>1, <2>2 DEF Active
    <3> QED BY <2>2, <3>1 DEF DriverInv, ActiveNotPaused, AwakeAlone, Awake, Active
  <2> QED BY <2>1, <2>2
<1>6. HandledAtRest'
  BY DEF DriverInv, HandledAtRest, InFlight
<1>7. pc'[ExecuteJob] # "off"
  BY <1>0, <1>1, ExecutorFacts DEF DriverInv, QuietAtFirst
<1> QED BY <1>3, <1>4, <1>5, <1>6, <1>7 DEF DriverInv, QuietAtFirst

(* The steps inside a node move on without leaving the graph idle.         *)
LEMMA NodeStepDriver ==
    ASSUME TypeInv, DriverInv, NEW p \in Executors, NodeStep(p) \/ NodeFails(p)
    PROVE  DriverInv'
<1>1. /\ Active(p)
      /\ UNCHANGED <<runVars, req, restVars>>
      /\ \E l \in {"status", "persist", "await", "create", "supersede",
                   "record", "ask", "complete"} : Goto(p, l)
  BY DEF NodeStep, NodeFails, NodeRaises, AdoptEscalation, PauseNode, CanAsk,
         SupersedeEscalations, CreateEscalation, RecordEscalation, Interrupt,
         TakeAnswer, CompleteNode, Finish, Active
<1>2. PICK l \in {"status", "persist", "await", "create", "supersede",
                 "record", "ask", "complete"} : Goto(p, l)
  BY <1>1
<1>3. l \in ExecutorPCs \ {"off", "sleep"}
  BY DEF ExecutorPCs
<1>4. Busy(p) /\ pc[p] # "sleep"
  BY <1>1 DEF Active, Busy
<1>5. status # "paused"
  BY <1>1 DEF DriverInv, ActiveNotPaused
<1> QED BY <1>1, <1>2, <1>3, <1>4, <1>5, BusyStep DEF runVars, restVars

(* An executor resumes, runs and ends alone.                               *)
LEMMA DrivingDriver ==
    ASSUME TypeInv, DriverInv, NEW p \in Executors, Driving(p)
    PROVE  DriverInv'
<1>1. CASE ResumeRunRead(p)
  <2>1. PICK l \in {"loaded", "done"} : Goto(p, l)
    BY <1>1 DEF ResumeRunRead
  <2>2. l \in ExecutorPCs \ {"off", "sleep"}
    BY DEF ExecutorPCs
  <2> QED BY <1>1, <2>1, <2>2, BusyStep
      DEF ResumeRunRead, Busy, runVars, restVars
<1>2. CASE ResumeRunMark(p)
  <2>1. PICK l \in {"done", "ask", "persist"} : Goto(p, l)
    BY <1>2 DEF ResumeRunMark
  <2>2. l \in ExecutorPCs \ {"off", "sleep"}
    BY DEF ExecutorPCs
  <2> QED BY <1>2, <2>1, <2>2, BusyStep
      DEF ResumeRunMark, MarkedRunning, Busy, restVars
<1>3. CASE NodeStep(p)
  BY <1>3, NodeStepDriver
<1>4. CASE PersistOutput(p) \/ ReadRunStatus(p)
  <2>1. PICK l \in {"status", "done", "write"} : Goto(p, l)
    BY <1>4 DEF PersistOutput, ReadRunStatus
  <2>2. l \in ExecutorPCs \ {"off", "sleep"}
    BY DEF ExecutorPCs
  <2>3. Active(p) /\ Busy(p) /\ pc[p] # "sleep"
    BY <1>4 DEF PersistOutput, ReadRunStatus, Active, Busy
  <2>4. status # "paused"
    BY <2>3 DEF DriverInv, ActiveNotPaused
  <2> QED BY <1>4, <2>1, <2>2, <2>3, <2>4, BusyStep
      DEF PersistOutput, ReadRunStatus, runVars, restVars
<1>5. CASE UpdateRunStatus(p)
  <2>1. Active(p) /\ Busy(p) /\ pc[p] # "sleep" /\ Goto(p, "done")
    BY <1>5 DEF UpdateRunStatus, Active, Busy
  <2> QED BY <1>5, <2>1, BusyStep DEF UpdateRunStatus, ExecutorPCs, restVars
<1> QED BY <1>1, <1>2, <1>3, <1>4, <1>5 DEF Driving

(* The first job runs before any answer is given.                          *)
LEMMA StartingDriver ==
    ASSUME TypeInv, DriverInv, Starting
    PROVE  DriverInv'
<1>0. ExecuteJob \in Executors /\ pc \in [Executors -> ExecutorPCs]
  BY ExecutorFacts DEF TypeInv, TypeOK
<1>1. CASE CreateRun
  BY <1>1 DEF CreateRun, DriverInv, AwakeAlone, Awake, SleepsByItsJob, Busy,
              ActiveNotPaused, Active, HandledAtRest, InFlight, QuietAtFirst,
              OpenEscs, escVars, restVars
<1>2. CASE EnqueueExecute
  <2>1. /\ \A p \in Executors : ~Busy(p)
        /\ \A q \in Requests : ~InFlight(q)
        /\ UNCHANGED <<status, req>>
    BY <1>2 DEF EnqueueExecute, DriverInv, QuietAtFirst, runVars
  <2>2. PICK l \in {"queued", "done"} : pc' = [pc EXCEPT ![ExecuteJob] = l]
    BY <1>2 DEF EnqueueExecute, Goto
  <2>3. pc'[ExecuteJob] = l /\ \A r \in Executors : r # ExecuteJob => pc'[r] = pc[r]
    BY <1>0, <2>2
  <2>4. AwakeAlone' /\ ActiveNotPaused'
    BY <2>1, <2>3 DEF AwakeAlone, Awake, ActiveNotPaused, Active, Busy
  <2>5. SleepsByItsJob'
    BY <2>1, <2>3, ExecutorFacts, ExecutorsDistinct DEF SleepsByItsJob, Busy
  <2>6. HandledAtRest' /\ QuietAtFirst'
    BY <2>1, <2>3 DEF HandledAtRest, InFlight, QuietAtFirst
  <2> QED BY <2>4, <2>5, <2>6 DEF DriverInv
<1>3. CASE ExecuteRunLoad
  <2>1. PICK l \in {"loaded", "done"} : Goto(ExecuteJob, l)
    BY <1>3 DEF ExecuteRunLoad
  <2>2. l \in ExecutorPCs \ {"off", "sleep"}
    BY DEF ExecutorPCs
  <2> QED BY <1>0, <1>3, <2>1, <2>2, BusyStep
      DEF ExecuteRunLoad, Busy, runVars, restVars
<1>4. CASE ExecuteRunMark
  <2>1. "ask" \in ExecutorPCs \ {"off", "sleep"}
    BY DEF ExecutorPCs
  <2>2. Busy(ExecuteJob) /\ pc[ExecuteJob] # "sleep"
    BY <1>4 DEF ExecuteRunMark, Busy
  <2>3. status' # "paused" /\ UNCHANGED <<req, sweep>> /\ Goto(ExecuteJob, "ask")
    BY <1>4 DEF ExecuteRunMark, restVars
  <2> QED BY <1>0, <2>1, <2>2, <2>3, BusyStep
<1> QED BY <1>1, <1>2, <1>3, <1>4 DEF Starting

(* A step of the requests, the sweep or the deletion, which moves no       *)
(* executor and opens no escalation.                                       *)
LEMMA AsideStep ==
    ASSUME DriverInv, UNCHANGED pc, OpenEscs' \subseteq OpenEscs,
           status' # "paused" \/ status' = status,
           pc[ExecuteJob] = "off" =>
              /\ status' \in {"absent", "queued", "deleted"}
              /\ sweep'.pc = "idle"
              /\ \A q \in Requests : ~InFlight(q)',
           HandledAtRest'
    PROVE  DriverInv'
BY DEF DriverInv, AwakeAlone, Awake, SleepsByItsJob, Busy, ActiveNotPaused,
       Active, QuietAtFirst

(* Handling an answer wakes one executor at a time.                        *)
LEMMA HandlingDriver ==
    ASSUME TypeInv, DriverInv, Prompt, NEW q \in Requests, Handling(q)
    PROVE  DriverInv'
<1>0. /\ pc \in [Executors -> ExecutorPCs]
      /\ req \in [Requests -> [pc : RequestPCs, esc : 0 .. MaxEscalations,
                               kind : AllKinds, via : AllVias]]
      /\ ResumeJob(q) \in Executors /\ Fallback(q) \in Executors
  BY ExecutorFacts DEF TypeInv, TypeOK
<1>1. CASE ResolveEscalation(q) \/ AbortFromEscalation(q) \/ StopRun(q)
  <2>1. InFlight(q) /\ UNCHANGED pc
    BY <1>1 DEF ResolveEscalation, AbortFromEscalation, StopRun, InFlight
  <2>2. OpenEscs' \subseteq OpenEscs
    <3>1. \/ UNCHANGED escSt
          \/ escSt' = [escSt EXCEPT ![req[q].esc] = "resolved"]
      BY <1>1 DEF ResolveEscalation, AbortFromEscalation, StopRun
    <3>2. \A e \in EscIds : escSt'[e] = "open" => escSt[e] = "open"
      BY <3>1 DEF TypeInv, TypeOK
    <3> QED BY <3>2 DEF OpenEscs
  <2>3. status' # "paused" \/ status' = status
    BY <1>1 DEF ResolveEscalation, AbortFromEscalation, StopRun, runVars
  <2>4. \A r \in Requests : InFlight(r)' => InFlight(r)
    BY <1>0, <1>1, <2>1
    DEF ResolveEscalation, AbortFromEscalation, StopRun, InFlight
  <2>5. HandledAtRest'
    BY <2>1, <2>4 DEF DriverInv, HandledAtRest, Busy
  <2>6. pc[ExecuteJob] # "off"
    BY <2>1 DEF DriverInv, QuietAtFirst
  <2> QED BY <2>1, <2>2, <2>3, <2>5, <2>6, AsideStep
<1>2. CASE EnqueueRunResume(q) \/ EnqueueFromEndpoint(q)
  <2>1. InFlight(q)
    BY <1>2 DEF EnqueueRunResume, EnqueueFromEndpoint, InFlight
  <2>2. /\ \A p \in Executors : ~Busy(p)
        /\ \A r \in Requests : InFlight(r) => r = q
        /\ pc[ExecuteJob] # "off"
    BY <2>1 DEF DriverInv, HandledAtRest, QuietAtFirst
  <2>3. \A r \in Requests : ~InFlight(r)'
    BY <1>0, <1>2, <2>2 DEF EnqueueRunResume, EnqueueFromEndpoint, InFlight
  <2>4. /\ \A p \in Executors \ {ResumeJob(q), Fallback(q)} : pc'[p] = pc[p]
        /\ \/ pc'[ResumeJob(q)] = "queued" /\ pc'[Fallback(q)] = "sleep"
           \/ pc'[ResumeJob(q)] = pc[ResumeJob(q)] /\ pc'[Fallback(q)] = "queued"
           \/ /\ pc'[ResumeJob(q)] \in {"queued", "off"}
              /\ pc'[Fallback(q)] = pc[Fallback(q)]
    <3>1. ResumeJob(q) # Fallback(q)
      BY DEF ResumeJob, Fallback
    <3>2. \/ pc' = [pc EXCEPT ![ResumeJob(q)] = "queued", ![Fallback(q)] = "sleep"]
          \/ pc' = [pc EXCEPT ![Fallback(q)] = "queued"]
          \/ \E l \in {"queued", "off"} : pc' = [pc EXCEPT ![ResumeJob(q)] = l]
      BY <1>2 DEF EnqueueRunResume, EnqueueFromEndpoint, Goto
    <3>3. CASE pc' = [pc EXCEPT ![ResumeJob(q)] = "queued", ![Fallback(q)] = "sleep"]
      BY <1>0, <3>1, <3>3
    <3>4. CASE pc' = [pc EXCEPT ![Fallback(q)] = "queued"]
      BY <1>0, <3>1, <3>4
    <3>5. CASE \E l \in {"queued", "off"} : pc' = [pc EXCEPT ![ResumeJob(q)] = l]
      BY <1>0, <3>1, <3>5
    <3> QED BY <3>2, <3>3, <3>4, <3>5
  <2>5. AwakeAlone'
    BY <2>2, <2>4 DEF AwakeAlone, Awake, Busy
  <2>6. SleepsByItsJob'
    <3> SUFFICES ASSUME NEW r \in Requests
                 PROVE  /\ pc'[ResumeJob(r)] # "sleep"
                        /\ pc'[Fallback(r)] = "sleep" =>
                              \A p \in Executors : Busy(p)' =>
                                 p = Fallback(r) \/ p = ResumeJob(r)
      BY DEF SleepsByItsJob
    <3>1. \A p \in Executors :
             pc'[p] \notin {"off", "done"} => p \in {ResumeJob(q), Fallback(q)}
      BY <2>2, <2>4 DEF Busy
    <3>2. pc'[ResumeJob(q)] # "sleep"
      BY <1>0, <2>2, <2>4 DEF Busy
    <3>3. r # q => pc'[ResumeJob(r)] # "sleep" /\ pc'[Fallback(r)] # "sleep"
      <4>1. ASSUME r # q
            PROVE  /\ ResumeJob(r) \notin {ResumeJob(q), Fallback(q)}
                   /\ Fallback(r) \notin {ResumeJob(q), Fallback(q)}
        BY <4>1 DEF ResumeJob, Fallback
      <4>2. ResumeJob(r) \in Executors /\ Fallback(r) \in Executors
        BY ExecutorFacts
      <4> QED BY <3>1, <4>1, <4>2
    <3> QED BY <3>1, <3>2, <3>3 DEF Busy
  <2>7. ActiveNotPaused'
    BY <2>2, <2>4 DEF ActiveNotPaused, Active, Busy
  <2>8. HandledAtRest'
    BY <2>3 DEF HandledAtRest
  <2>9. QuietAtFirst'
    BY <2>2, <2>4, ExecutorFacts, ExecutorsDistinct DEF QuietAtFirst
  <2> QED BY <2>5, <2>6, <2>7, <2>8, <2>9 DEF DriverInv
<1>3. CASE ResumeIfStillPaused(q)
  <2>1. PICK l \in {"queued", "done"} :
           /\ Goto(Fallback(q), l)
           /\ l = "queued" => status = "paused"
    BY <1>3 DEF ResumeIfStillPaused
  <2>2. l \in ExecutorPCs \ {"off", "sleep"}
    BY DEF ExecutorPCs
  <2>3. pc[Fallback(q)] = "sleep" /\ Busy(Fallback(q))
    BY <1>3 DEF ResumeIfStillPaused, Busy
  <2>4. l = "queued" => \A r \in Executors : Busy(r) => r = Fallback(q)
    <3> SUFFICES ASSUME l = "queued", NEW r \in Executors, Busy(r), r # Fallback(q)
                 PROVE  FALSE
      OBVIOUS
    <3>1. r = ResumeJob(q)
      BY <1>0, <2>3 DEF DriverInv, SleepsByItsJob
    <3>2. pc[r] \notin {"queued", "loaded"}
      BY <1>3, <3>1 DEF ResumeIfStillPaused
    <3>3. status = "paused"
      BY <2>1
    <3>4. pc[r] = "sleep"
      BY <3>2, <3>3 DEF DriverInv, ActiveNotPaused, Active, Busy
    <3> QED BY <3>1, <3>4 DEF DriverInv, SleepsByItsJob
  <2>5. UNCHANGED <<status, req, sweep>>
    BY <1>3 DEF ResumeIfStillPaused, runVars, restVars
  <2> QED BY <1>0, <2>1, <2>2, <2>3, <2>4, <2>5, BusyStep
<1> QED BY <1>1, <1>2, <1>3 DEF Handling

(* A patient person finds nothing under way.                               *)
LEMMA PeopleDriver ==
    ASSUME TypeInv, DriverInv, Patient, Prompt, People
    PROVE  DriverInv'
<1>0. req \in [Requests -> [pc : RequestPCs, esc : 0 .. MaxEscalations,
                           kind : AllKinds, via : AllVias]]
  BY DEF TypeInv, TypeOK
<1>1. MayAct => /\ \A p \in Executors : ~Busy(p) \/ pc[p] = "loaded"
                /\ \A r \in Requests : ~InFlight(r)
  BY DEF MayAct, AtRest, NothingPending, Active, Busy, InFlight
<1>2. MayAct => \A p \in Executors : ~Busy(p)
  BY <1>1 DEF MayAct, AtRest
<1>3. ASSUME NEW q \in Requests,
             \/ \E e \in EscIds : LookAtEscalation(q, e)
             \/ ResumeEndpoint(q) \/ AbortEndpoint(q)
      PROVE  DriverInv'
  <2>1. MayAct /\ UNCHANGED <<status, escSt, pc, sweep>>
    BY <1>3 DEF LookAtEscalation, ResumeEndpoint, AbortEndpoint, runVars,
                escVars, restVars
  <2>2. \A r \in Requests : InFlight(r)' => r = q
    BY <1>0, <1>1, <1>3, <2>1
    DEF LookAtEscalation, ResumeEndpoint, AbortEndpoint, InFlight
  <2>3. HandledAtRest'
    BY <1>2, <2>1, <2>2 DEF HandledAtRest, Busy
  <2>4. pc[ExecuteJob] = "off" => \A r \in Requests : ~InFlight(r)'
    <3> SUFFICES ASSUME pc[ExecuteJob] = "off"
                 PROVE  ~InFlight(q)'
      BY <2>2
    <3>1. OpenEscs = {} /\ status # "paused"
      BY DEF DriverInv, QuietAtFirst
    <3>2. AbortEndpoint(q)
      BY <1>3, <3>1 DEF LookAtEscalation, ResumeEndpoint, OpenEscs
    <3> QED BY <1>0, <3>2 DEF AbortEndpoint, InFlight
  <2> QED BY <2>1, <2>3, <2>4, AsideStep DEF DriverInv, QuietAtFirst, OpenEscs
<1>4. CASE CheckDeletable
  BY <1>4 DEF CheckDeletable, DriverInv, AwakeAlone, Awake, SleepsByItsJob,
              Busy, ActiveNotPaused, Active, HandledAtRest, InFlight,
              QuietAtFirst, OpenEscs, runVars, escVars
<1> QED BY <1>3, <1>4 DEF People

(* The sweep and the deletion start nothing.                               *)
LEMMA SweepDriver ==
    ASSUME DriverInv, FindExpired \/ Sweep \/ DeleteRun
    PROVE  DriverInv'
<1>1. UNCHANGED <<pc, req>>
  BY DEF FindExpired, Sweep, TimeoutOpenEscalations, CheckTimedOutRun,
         StopTimedOutRun, DeleteRun
<1>2. OpenEscs' \subseteq OpenEscs
  BY DEF FindExpired, Sweep, TimeoutOpenEscalations, CheckTimedOutRun,
         StopTimedOutRun, DeleteRun, OpenEscs, escVars
<1>3. status' # "paused" \/ status' = status
  BY DEF FindExpired, Sweep, TimeoutOpenEscalations, CheckTimedOutRun,
         StopTimedOutRun, DeleteRun, runVars
<1>4. HandledAtRest'
  BY <1>1 DEF DriverInv, HandledAtRest, InFlight, Busy
<1>5. ASSUME pc[ExecuteJob] = "off"
      PROVE  /\ status' \in {"absent", "queued", "deleted"}
             /\ sweep'.pc = "idle"
  <2>1. OpenEscs = {} /\ sweep.pc = "idle" /\ status \in {"absent", "queued", "deleted"}
    BY <1>5 DEF DriverInv, QuietAtFirst
  <2>2. ~FindExpired /\ ~Sweep
    BY <2>1 DEF FindExpired, Expirable, Sweep, TimeoutOpenEscalations,
                CheckTimedOutRun, StopTimedOutRun
  <2> QED BY <2>1, <2>2 DEF DeleteRun, runVars
<1>6. \A q \in Requests : pc[ExecuteJob] = "off" => ~InFlight(q)'
  BY <1>1 DEF DriverInv, QuietAtFirst, InFlight
<1> QED BY <1>1, <1>2, <1>3, <1>4, <1>5, <1>6, AsideStep

(* A crash leaves a worker job to be delivered again, and nothing beside   *)
(* it.                                                                     *)
LEMMA CrashDriver ==
    ASSUME TypeInv, DriverInv, WorkerCrash \/ ApiCrash
    PROVE  DriverInv'
<1>0. /\ pc \in [Executors -> ExecutorPCs]
      /\ req \in [Requests -> [pc : RequestPCs, esc : 0 .. MaxEscalations,
                               kind : AllKinds, via : AllVias]]
      /\ UNCHANGED <<status, escSt>>
  BY DEF TypeInv, TypeOK, WorkerCrash, ApiCrash, runVars, escVars
<1>1. \A p \in Executors :
         \/ pc'[p] = pc[p]
         \/ pc'[p] = "queued" /\ pc[p] \notin {"off", "queued", "sleep", "done"}
         \/ pc'[p] = "done"
  BY DEF WorkerCrash, ApiCrash, Active
<1>2. \A q \in Requests : InFlight(q)' => InFlight(q)
  BY <1>0 DEF WorkerCrash, ApiCrash, InFlight
<1>3. AwakeAlone'
  BY <1>1 DEF DriverInv, AwakeAlone, Awake
<1>4. SleepsByItsJob'
  BY <1>1, ExecutorFacts DEF DriverInv, SleepsByItsJob, Busy
<1>5. ActiveNotPaused'
  BY <1>0, <1>1 DEF DriverInv, ActiveNotPaused, Active
<1>6. HandledAtRest'
  BY <1>1, <1>2 DEF DriverInv, HandledAtRest, Busy
<1>7. QuietAtFirst'
  <2> SUFFICES ASSUME pc'[ExecuteJob] = "off" PROVE QuietAtFirst'
    BY DEF QuietAtFirst
  <2>1. pc[ExecuteJob] = "off"
    BY <1>1, ExecutorFacts
  <2>2. /\ \A p \in Executors : ~Busy(p)
        /\ \A q \in Requests : ~InFlight(q)
        /\ OpenEscs = {}
        /\ status \in {"absent", "queued", "deleted"}
        /\ sweep.pc = "idle"
    BY <2>1 DEF DriverInv, QuietAtFirst
  <2>3. sweep'.pc = "idle"
    BY <2>2 DEF WorkerCrash, ApiCrash, Sweeping
  <2>4. \A p \in Executors : ~Busy(p)'
    BY <1>1, <2>2 DEF Busy
  <2> QED BY <1>0, <1>2, <2>2, <2>3, <2>4 DEF QuietAtFirst, OpenEscs
<1> QED BY <1>3, <1>4, <1>5, <1>6, <1>7 DEF DriverInv

(* What the driver invariant needs to be true at first ...                 *)
LEMMA InitDriver == Init => DriverInv
BY ExecutorFacts
   DEF Init, DriverInv, AwakeAlone, Awake, SleepsByItsJob, Busy,
       ActiveNotPaused, Active, HandledAtRest, InFlight, QuietAtFirst, OpenEscs

(* ... and after every step.                                               *)
LEMMA NextDriver ==
    ASSUME Patient, Prompt, TypeInv, DriverInv, [Next]_vars
    PROVE  DriverInv'
<1>1. CASE Next
  BY <1>1, StartingDriver, DrivingDriver, HandlingDriver, PeopleDriver,
     SweepDriver, CrashDriver, NodeStepDriver DEF Next, Faults
<1>2. CASE UNCHANGED vars
  BY <1>2 DEF vars, DriverInv, AwakeAlone, Awake, SleepsByItsJob, Busy,
              ActiveNotPaused, Active, HandledAtRest, InFlight, QuietAtFirst,
              OpenEscs
<1> QED BY <1>1, <1>2

(* The worker's jobs and the in-process fallbacks of enqueue_run_resume    *)
(* never execute the graph of one run at the same time, provided people    *)
(* answer a run at rest only and the queue is prompt; crashes of either    *)
(* process, deadlines and deletions included.                              *)
THEOREM OneDriverAtATime ==
    ASSUME Patient, Prompt PROVE Spec => []OneDriver
<1>1. TypeInv /\ DriverInv /\ [Next]_vars => DriverInv'
  BY NextDriver
<1>2. DriverInv => OneDriver
  BY DEF DriverInv, OneDriver, AwakeAlone, Awake, Active
<1> QED BY <1>1, <1>2, InitDriver, InitTypeInv, NextTypeInv, PTL DEF Spec

-----------------------------------------------------------------------------
(* One question.  Superseding reads the open escalations in one step and   *)
(* closes them in another, and creating one is a third: nobody else may    *)
(* create one in between.                                                  *)

Clears(p) ==
    /\ pc[p] = "supersede" => OpenEscs \subseteq mem[p].sup
    /\ pc[p] = "create" => OpenEscs = {}

QuestionInv ==
    /\ OneOpenQuestion
    /\ \A p \in Executors : Clears(p)

(* A step that opens nothing, and after which nobody else is about to      *)
(* supersede or create.                                                    *)
LEMMA NothingOpened ==
    ASSUME QuestionInv, OpenEscs' \subseteq OpenEscs,
           \A p \in Executors : \/ Clears(p)'
                                \/ pc'[p] = pc[p] /\ mem'[p] = mem[p]
                                \/ pc'[p] \notin {"supersede", "create"}
    PROVE  QuestionInv'
<1>1. OneOpenQuestion'
  BY DEF QuestionInv, OneOpenQuestion
<1>2. ASSUME NEW p \in Executors PROVE Clears(p)'
  BY DEF QuestionInv, Clears
<1> QED BY <1>1, <1>2 DEF QuestionInv

(* Pausing a node, superseding and creating: the three steps of a question.*)
LEMMA AskingOnce ==
    ASSUME TypeInv, DriverInv, QuestionInv, NEW p \in Executors,
           PauseNode(p) \/ SupersedeEscalations(p) \/ CreateEscalation(p)
    PROVE  QuestionInv'
<1>0. /\ mem \in [Executors -> Memory] /\ pc \in [Executors -> ExecutorPCs]
      /\ escSt \in [EscIds -> {"none", "open", "resolved", "timed_out", "gone"}]
  BY DEF TypeInv, TypeOK
<1>1. /\ Awake(p)
      /\ \A r \in Executors : r # p => pc'[r] = pc[r] /\ mem'[r] = mem[r]
  BY <1>0 DEF PauseNode, CanAsk, SupersedeEscalations, CreateEscalation, Goto, Awake
<1>2. \A r \in Executors : r # p => pc'[r] \notin {"supersede", "create"}
  BY <1>1 DEF DriverInv, AwakeAlone, Awake
<1>3. CASE PauseNode(p)
  <2>1. OpenEscs' = OpenEscs
    BY <1>3 DEF PauseNode, OpenEscs, escVars
  <2>2. Clears(p)'
    BY <1>0, <1>3, <2>1 DEF PauseNode, Superseded, Clears, Goto, Memory
  <2> QED BY <1>2, <2>1, <2>2, NothingOpened
<1>4. CASE SupersedeEscalations(p)
  <2>1. OpenEscs' = {}
    BY <1>4 DEF SupersedeEscalations, QuestionInv, Clears, Closing, OpenEscs
  <2>2. Clears(p)'
    BY <2>1 DEF Clears
  <2> QED BY <1>2, <2>1, <2>2, NothingOpened
<1>5. CASE CreateEscalation(p)
  <2>1. OpenEscs = {}
    BY <1>5 DEF CreateEscalation, QuestionInv, Clears
  <2>2. OpenEscs' \subseteq {made + 1}
    BY <1>0, <1>5, <2>1 DEF CreateEscalation, OpenEscs
  <2>3. pc'[p] \notin {"supersede", "create"}
    BY <1>0, <1>5 DEF CreateEscalation, Goto
  <2> QED BY <1>2, <2>2, <2>3 DEF QuestionInv, OneOpenQuestion, Clears
<1> QED BY <1>3, <1>4, <1>5

(* A step of one executor moves no other.                                  *)
LEMMA OneExecutorMoves ==
    ASSUME TypeInv, NEW p \in Executors, Driving(p) \/ NodeFails(p)
    PROVE  \A r \in Executors : r # p => pc'[r] = pc[r] /\ mem'[r] = mem[r]
<1>0. mem \in [Executors -> Memory] /\ pc \in [Executors -> ExecutorPCs]
  BY DEF TypeInv, TypeOK
<1>1. CASE NodeFails(p) \/ NodeRaises(p) \/ Interrupt(p)
  BY <1>0, <1>1 DEF NodeFails, NodeRaises, Interrupt, Finish, Goto
<1>2. CASE ResumeRunRead(p) \/ ResumeRunMark(p)
  BY <1>0, <1>2 DEF ResumeRunRead, ResumeRunMark, Goto
<1>3. CASE AdoptEscalation(p) \/ RecordEscalation(p) \/ CompleteNode(p)
  BY <1>0, <1>3 DEF AdoptEscalation, RecordEscalation, CompleteNode, Goto
<1>4. CASE PauseNode(p) \/ SupersedeEscalations(p) \/ CreateEscalation(p)
  BY <1>0, <1>4 DEF PauseNode, SupersedeEscalations, CreateEscalation, Goto
<1>5. CASE TakeAnswer(p)
  BY <1>0, <1>5 DEF TakeAnswer, Goto
<1>6. CASE PersistOutput(p) \/ ReadRunStatus(p) \/ UpdateRunStatus(p)
  BY <1>0, <1>6 DEF PersistOutput, ReadRunStatus, UpdateRunStatus, Goto
<1> QED BY <1>1, <1>2, <1>3, <1>4, <1>5, <1>6 DEF Driving, NodeStep

(* Everything else closes escalations or leaves them alone.                *)
LEMMA OthersOpenNothing ==
    ASSUME TypeInv, QuestionInv, Next,
           \A p \in Executors :
              ~PauseNode(p) /\ ~SupersedeEscalations(p) /\ ~CreateEscalation(p)
    PROVE  QuestionInv'
<1>0. /\ mem \in [Executors -> Memory] /\ pc \in [Executors -> ExecutorPCs]
      /\ escSt \in [EscIds -> {"none", "open", "resolved", "timed_out", "gone"}]
  BY DEF TypeInv, TypeOK
<1>1. CASE Starting
  <2>1. OpenEscs' = OpenEscs
    BY <1>1 DEF Starting, CreateRun, EnqueueExecute, ExecuteRunLoad,
                ExecuteRunMark, escVars, OpenEscs
  <2>2. \A r \in Executors : \/ pc'[r] = pc[r] /\ mem'[r] = mem[r]
                             \/ pc'[r] \notin {"supersede", "create"}
    BY <1>0, <1>1 DEF Starting, CreateRun, EnqueueExecute, ExecuteRunLoad,
                      ExecuteRunMark, Goto
  <2> QED BY <2>1, <2>2, NothingOpened
<1>2. ASSUME NEW p \in Executors, Driving(p) \/ NodeFails(p) PROVE QuestionInv'
  <2>1. OpenEscs' = OpenEscs
    BY <1>2 DEF Driving, NodeStep, NodeFails, ResumeRunRead, ResumeRunMark,
          NodeRaises, AdoptEscalation, RecordEscalation, Interrupt, TakeAnswer,
          CompleteNode, PersistOutput, ReadRunStatus, UpdateRunStatus, escVars,
          OpenEscs
  <2>2. \A r \in Executors : r # p => pc'[r] = pc[r] /\ mem'[r] = mem[r]
    BY <1>2, OneExecutorMoves
  <2>3. pc'[p] \notin {"supersede", "create"}
    <3>1. CASE NodeFails(p) \/ NodeRaises(p) \/ Interrupt(p)
      BY <1>0, <3>1 DEF NodeFails, NodeRaises, Interrupt, Finish, Goto
    <3>2. CASE ResumeRunRead(p) \/ ResumeRunMark(p)
      BY <1>0, <3>2 DEF ResumeRunRead, ResumeRunMark, Goto
    <3>3. CASE AdoptEscalation(p) \/ RecordEscalation(p) \/ CompleteNode(p)
      BY <1>0, <3>3 DEF AdoptEscalation, RecordEscalation, CompleteNode, Goto
    <3>4. CASE TakeAnswer(p)
      BY <1>0, <3>4 DEF TakeAnswer, Goto
    <3>5. CASE PersistOutput(p) \/ ReadRunStatus(p) \/ UpdateRunStatus(p)
      BY <1>0, <3>5 DEF PersistOutput, ReadRunStatus, UpdateRunStatus, Goto
    <3> QED BY <1>2, <3>1, <3>2, <3>3, <3>4, <3>5 DEF Driving, NodeStep
  <2> QED BY <2>1, <2>2, <2>3, NothingOpened
<1>3. ASSUME NEW q \in Requests, Handling(q) PROVE QuestionInv'
  <2>1. UNCHANGED mem
    BY <1>3 DEF Handling, ResolveEscalation, EnqueueRunResume,
          AbortFromEscalation, StopRun, EnqueueFromEndpoint, ResumeIfStillPaused
  <2>2. \A r \in Executors : pc'[r] = pc[r] \/ pc'[r] \notin {"supersede", "create"}
    BY <1>0, <1>3
    DEF Handling, ResolveEscalation, EnqueueRunResume, AbortFromEscalation,
        StopRun, EnqueueFromEndpoint, ResumeIfStillPaused, Goto
  <2>3. OpenEscs' \subseteq OpenEscs
    <3>1. \/ UNCHANGED escSt
          \/ escSt' = [escSt EXCEPT ![req[q].esc] = "resolved"]
      BY <1>3 DEF Handling, ResolveEscalation, EnqueueRunResume,
          AbortFromEscalation, StopRun, EnqueueFromEndpoint,
          ResumeIfStillPaused, escVars
    <3> QED BY <1>0, <3>1 DEF OpenEscs
  <2> QED BY <2>1, <2>2, <2>3, NothingOpened
<1>4. CASE People \/ FindExpired \/ Sweep \/ DeleteRun
  <2>1. UNCHANGED <<pc, mem>>
    BY <1>4 DEF People, LookAtEscalation, ResumeEndpoint, AbortEndpoint,
          CheckDeletable, FindExpired, Sweep, TimeoutOpenEscalations,
          CheckTimedOutRun, StopTimedOutRun, DeleteRun
  <2>2. OpenEscs' \subseteq OpenEscs
    BY <1>4 DEF People, LookAtEscalation, ResumeEndpoint, AbortEndpoint,
          CheckDeletable, FindExpired, Sweep, TimeoutOpenEscalations,
          CheckTimedOutRun, StopTimedOutRun, DeleteRun, escVars, OpenEscs
  <2> QED BY <2>1, <2>2, NothingOpened
<1>5. CASE WorkerCrash \/ ApiCrash
  <2>1. OpenEscs' = OpenEscs
    BY <1>5 DEF WorkerCrash, ApiCrash, escVars, OpenEscs
  <2>2. \A r \in Executors : \/ pc'[r] = pc[r] /\ mem'[r] = mem[r]
                             \/ pc'[r] \notin {"supersede", "create"}
    BY <1>0, <1>5 DEF WorkerCrash, ApiCrash, Active, Busy
  <2> QED BY <2>1, <2>2, NothingOpened
<1> QED BY <1>1, <1>2, <1>3, <1>4, <1>5 DEF Next, Faults

(* At first nothing is asked.                                              *)
LEMMA InitQuestion == Init => QuestionInv
BY DEF Init, QuestionInv, OneOpenQuestion, Clears, OpenEscs

(* Every step keeps to one question.                                       *)
LEMMA NextQuestion ==
    ASSUME TypeInv, DriverInv, QuestionInv, [Next]_vars
    PROVE  QuestionInv'
<1>1. CASE Next
  BY <1>1, AskingOnce, OthersOpenNothing
<1>2. CASE UNCHANGED vars
  BY <1>2 DEF vars, QuestionInv, OneOpenQuestion, Clears, OpenEscs
<1> QED BY <1>1, <1>2

(* The run asks one thing at a time: whoever supersedes and creates does   *)
(* so alone, provided people answer a run at rest and the queue is prompt; *)
(* crashes, redelivered jobs, deadlines and deletions included.            *)
THEOREM OneQuestionAtATime ==
    ASSUME Patient, Prompt PROVE Spec => []OneOpenQuestion
<1>1. TypeInv /\ DriverInv /\ [Next]_vars => DriverInv'
  BY NextDriver
<1>2. TypeInv /\ DriverInv /\ QuestionInv /\ [Next]_vars => QuestionInv'
  BY NextQuestion
<1>3. QuestionInv => OneOpenQuestion
  BY DEF QuestionInv
<1> QED BY <1>1, <1>2, <1>3, InitDriver, InitQuestion, InitTypeInv, NextTypeInv,
           PTL DEF Spec

-----------------------------------------------------------------------------
(* The loop limit.  It is looked at when a node is entered and the visit   *)
(* is counted when the node is left: what is carried along is that whoever *)
(* is inside a node came in below the limit, on its own copy of the counts.*)

Within(visits) == \A n \in Nodes : visits[n] <= MaxVisits

Inside(p) == \/ pc[p] \in NodePCs \ {"ask"}
             \/ pc[p] = "ask" /\ ~Entering(mem[p])

BelowLimit(p) ==
    /\ Within(mem[p].visits)
    /\ Inside(p) => mem[p].visits[mem[p].node] < MaxVisits

LoopInv == LoopLimit /\ \A p \in Executors : BelowLimit(p)

(* A step that counts no visit, after which one executor is where it was   *)
(* let in, or outside.                                                     *)
LEMMA NoVisitCounted ==
    ASSUME TypeInv, LoopInv, NEW p \in Executors,
           ckpt'.visits = ckpt.visits,
           \A r \in Executors : r # p => pc'[r] = pc[r] /\ mem'[r] = mem[r],
           mem'[p].visits = mem[p].visits \/ Within(mem'[p].visits),
           \/ ~Inside(p)'
           \/ /\ mem'[p].visits = mem[p].visits
              /\ mem'[p].node = mem[p].node
              /\ Inside(p) \/ CanAsk(p)
    PROVE  LoopInv'
<1>0. mem[p] \in Memory /\ (pc[p] = "ask" => mem[p].node \in Nodes)
  BY DEF TypeInv, TypeOK, NodeAtWork, Fits, NodePCs
<1>1. LoopLimit'
  BY DEF LoopInv, LoopLimit
<1>2. ASSUME NEW r \in Executors, r # p PROVE BelowLimit(r)'
  BY <1>2 DEF LoopInv, BelowLimit, Inside, Within
<1>3. Within(mem'[p].visits)
  BY DEF LoopInv, BelowLimit
<1>4. Inside(p)' => mem'[p].visits[mem'[p].node] < MaxVisits
  <2> SUFFICES ASSUME Inside(p)'
               PROVE  mem[p].visits[mem[p].node] < MaxVisits
    OBVIOUS
  <2>1. CASE Inside(p)
    BY <2>1 DEF LoopInv, BelowLimit
  <2>2. CASE CanAsk(p) /\ ~Inside(p)
    <3>1. mem[p].node \in Nodes /\ ~(mem[p].visits[mem[p].node] >= MaxVisits)
      BY <1>0, <2>2 DEF CanAsk, LimitReached, Inside
    <3>2. mem[p].visits[mem[p].node] \in Nat /\ MaxVisits \in Nat
      BY <1>0, <3>1, ConstantsAssumption DEF Memory
    <3> QED BY <3>1, <3>2
  <2> QED BY <2>1, <2>2
<1> QED BY <1>1, <1>2, <1>3, <1>4 DEF LoopInv, BelowLimit, Within

(* The steps inside a node look at the limit before they go in.            *)
LEMMA NodeStepLoop ==
    ASSUME TypeInv, LoopInv, NEW p \in Executors, NodeStep(p) \/ NodeFails(p),
           ~CompleteNode(p)
    PROVE  LoopInv'
<1>0. /\ mem \in [Executors -> Memory] /\ pc \in [Executors -> ExecutorPCs]
      /\ mem[p] \in Memory /\ ckpt \in Checkpoints
  BY DEF TypeInv, TypeOK
<1>1. ckpt'.visits = ckpt.visits
  BY <1>0 DEF NodeStep, NodeFails, NodeRaises, AdoptEscalation, PauseNode,
         SupersedeEscalations, CreateEscalation, RecordEscalation, Interrupt,
         TakeAnswer, grVars, Checkpoints
<1>2. CASE NodeFails(p) \/ NodeRaises(p) \/ Interrupt(p)
  <2>1. /\ \A r \in Executors : r # p => pc'[r] = pc[r] /\ mem'[r] = mem[r]
        /\ mem'[p].visits = mem[p].visits
        /\ pc'[p] \in {"persist", "status"}
    BY <1>0, <1>2 DEF NodeFails, NodeRaises, Interrupt, Finish, Goto, Memory
  <2> QED BY <1>1, <2>1, NoVisitCounted DEF Inside, NodePCs
<1>3. CASE \/ AdoptEscalation(p) \/ PauseNode(p) \/ SupersedeEscalations(p)
           \/ CreateEscalation(p) \/ RecordEscalation(p)
  <2>1. /\ \A r \in Executors : r # p => pc'[r] = pc[r] /\ mem'[r] = mem[r]
        /\ mem'[p].visits = mem[p].visits
        /\ mem'[p].node = mem[p].node
    BY <1>0, <1>3 DEF AdoptEscalation, PauseNode, SupersedeEscalations,
                      CreateEscalation, RecordEscalation, Goto, Memory
  <2>2. Inside(p) \/ CanAsk(p)
    BY <1>3 DEF AdoptEscalation, PauseNode, SupersedeEscalations,
                CreateEscalation, RecordEscalation, Inside, NodePCs
  <2> QED BY <1>1, <2>1, <2>2, NoVisitCounted
<1>4. CASE TakeAnswer(p)
  <2> DEFINE m == Consumed(mem[p])
  <2>1. m \in Memory /\ m.visits = mem[p].visits /\ m.node = mem[p].node
    BY <1>0, <1>4, ConsumedType DEF TakeAnswer, Consumed, Memory
  <2>2. Inside(p)
    BY <1>4 DEF TakeAnswer, Inside, NodePCs
  <2>3. PICK a : /\ mem' = [mem EXCEPT ![p] = a]
                 /\ a.visits = m.visits /\ a.node = m.node
    BY <1>4, <2>1 DEF TakeAnswer, Memory
  <2>4. \E l \in ExecutorPCs : Goto(p, l)
    BY <1>4 DEF TakeAnswer, ExecutorPCs
  <2>5. /\ \A r \in Executors : r # p => pc'[r] = pc[r] /\ mem'[r] = mem[r]
        /\ mem'[p] = a
    BY <1>0, <2>3, <2>4 DEF Goto
  <2> HIDE DEF m
  <2> QED BY <1>1, <2>1, <2>2, <2>3, <2>5, NoVisitCounted
<1> QED BY <1>2, <1>3, <1>4 DEF NodeStep

(* A visit is counted on the count it was let in with.                     *)
LEMMA CompleteLoop ==
    ASSUME TypeInv, LoopInv, NEW p \in Executors, CompleteNode(p)
    PROVE  LoopInv'
<1> DEFINE n == mem[p].node
           counted == [mem[p].visits EXCEPT ![n] = @ + 1]
           m == [Idle EXCEPT !.node = mem[p].next, !.visits = counted,
                             !.fin = IF mem[p].next = End THEN "completed"
                                                          ELSE "none"]
<1>0. /\ mem \in [Executors -> Memory] /\ pc \in [Executors -> ExecutorPCs]
      /\ mem[p].visits \in [Nodes -> Nat] /\ n \in Nodes
  BY DEF TypeInv, TypeOK, CompleteNode, NodeAtWork, Fits, NodePCs, Memory
<1>1. Within(counted)
  <2>1. mem[p].visits[n] < MaxVisits /\ Within(mem[p].visits)
    BY DEF CompleteNode, LoopInv, BelowLimit, Inside, NodePCs
  <2>2. mem[p].visits[n] + 1 <= MaxVisits
    BY <1>0, <2>1, ConstantsAssumption
  <2>3. /\ counted[n] = mem[p].visits[n] + 1
        /\ \A k \in Nodes : k # n => counted[k] = mem[p].visits[k]
    BY <1>0
  <2> HIDE DEF counted, n
  <2> QED BY <2>1, <2>2, <2>3 DEF Within
<1>2. /\ ckpt' = [node |-> mem[p].next, visits |-> counted, resumes |-> <<>>]
      /\ mem' = [mem EXCEPT ![p] = m]
      /\ \E l \in {"persist", "ask"} : Goto(p, l)
  BY DEF CompleteNode
<1>3. /\ m.visits = counted /\ m.phase = "task" /\ m.idx = 0
  BY DEF Idle
<1> HIDE DEF m, counted, n
<1>4. /\ mem'[p] = m /\ pc'[p] \in {"persist", "ask"}
      /\ \A r \in Executors : r # p => pc'[r] = pc[r] /\ mem'[r] = mem[r]
  BY <1>0, <1>2 DEF Goto
<1>5. LoopLimit'
  BY <1>1, <1>2 DEF LoopLimit, Within
<1>6. BelowLimit(p)'
  BY <1>1, <1>3, <1>4 DEF BelowLimit, Inside, Entering, NodePCs
<1>7. ASSUME NEW r \in Executors, r # p PROVE BelowLimit(r)'
  BY <1>4, <1>7 DEF LoopInv, BelowLimit, Inside
<1> QED BY <1>5, <1>6, <1>7 DEF LoopInv

(* Everybody else starts from the counts of the checkpoint, or from zero.  *)
LEMMA ElsewhereLoop ==
    ASSUME TypeInv, LoopInv, Next,
           \A p \in Executors : ~NodeStep(p) /\ ~NodeFails(p)
    PROVE  LoopInv'
<1>0. /\ mem \in [Executors -> Memory] /\ pc \in [Executors -> ExecutorPCs]
      /\ ckpt \in Checkpoints
  BY DEF TypeInv, TypeOK
<1>1. Within(ckpt.visits)
  BY DEF LoopInv, LoopLimit, Within
<1>2. Within(Idle.visits)
  BY ConstantsAssumption DEF Idle, Within
<1>3. CASE Starting
  <2>1. /\ ckpt'.visits = ckpt.visits
        /\ \A r \in Executors : r # ExecuteJob =>
              pc'[r] = pc[r] /\ mem'[r] = mem[r]
    BY <1>0, <1>3 DEF Starting, CreateRun, EnqueueExecute, ExecuteRunLoad,
                      ExecuteRunMark, grVars, Goto, Checkpoints
  <2>2. CASE CreateRun
    BY <1>0, <2>2, ExecutorFacts DEF CreateRun, LoopInv, LoopLimit, BelowLimit,
          Inside, grVars
  <2>3. CASE ExecuteRunMark
    <3> DEFINE m == [Idle EXCEPT !.node = Entry, !.visits = ckpt.visits]
    <3>1. m.visits = ckpt.visits /\ m.phase = "task" /\ m.idx = 0
      BY DEF Idle
    <3>2. mem' = [mem EXCEPT ![ExecuteJob] = m] /\ Goto(ExecuteJob, "ask")
      BY <2>3 DEF ExecuteRunMark
    <3> HIDE DEF m
    <3>3. mem'[ExecuteJob] = m /\ pc'[ExecuteJob] = "ask"
      BY <1>0, <3>2, ExecutorFacts DEF Goto
    <3> QED BY <1>1, <2>1, <3>1, <3>3, ExecutorFacts, NoVisitCounted
        DEF Inside, NodePCs, Entering
  <2>4. CASE EnqueueExecute \/ ExecuteRunLoad
    <3>1. mem'[ExecuteJob] = mem[ExecuteJob] /\ pc'[ExecuteJob] \in {"queued", "loaded", "done"}
      BY <1>0, <2>4, ExecutorFacts DEF EnqueueExecute, ExecuteRunLoad, Goto
    <3> QED BY <2>1, <3>1, ExecutorFacts, NoVisitCounted DEF Inside, NodePCs
  <2> QED BY <1>3, <2>2, <2>3, <2>4 DEF Starting
<1>4. ASSUME NEW p \in Executors, Driving(p) PROVE LoopInv'
  <2>1. /\ ckpt'.visits = ckpt.visits
        /\ \A r \in Executors : r # p => pc'[r] = pc[r] /\ mem'[r] = mem[r]
    BY <1>0, <1>4 DEF Next, Driving, ResumeRunRead, ResumeRunMark,
          PersistOutput, ReadRunStatus, UpdateRunStatus, grVars, Goto
  <2>2. CASE ResumeRunMark(p)
    <3> DEFINE m == [Idle EXCEPT !.node = ckpt.node, !.visits = ckpt.visits,
                                 !.resumes = ckpt.resumes, !.val = p[2]]
               f == [m EXCEPT !.fin = "completed"]
    <3>1. /\ m.visits = ckpt.visits /\ m.phase = "task" /\ m.idx = 0
          /\ f.visits = ckpt.visits
      BY DEF Idle
    <3>2. \/ Goto(p, "done") /\ UNCHANGED mem
          \/ Goto(p, "ask") /\ mem' = [mem EXCEPT ![p] = m]
          \/ Goto(p, "persist") /\ mem' = [mem EXCEPT ![p] = f]
      BY <2>2 DEF ResumeRunMark
    <3> HIDE DEF m, f
    <3>3. \/ pc'[p] = "done" /\ mem'[p] = mem[p]
          \/ pc'[p] = "ask" /\ mem'[p] = m
          \/ pc'[p] = "persist" /\ mem'[p] = f
      BY <1>0, <3>2 DEF Goto
    <3> QED BY <1>1, <2>1, <3>1, <3>3, NoVisitCounted
        DEF Inside, NodePCs, Entering
  <2>3. CASE ~ResumeRunMark(p)
    <3>1. /\ mem'[p] = mem[p] \/ mem'[p] = Idle
          /\ pc'[p] \in {"loaded", "done", "status", "write"}
      BY <1>0, <1>4, <2>3 DEF Next, Driving, ResumeRunRead, PersistOutput,
            ReadRunStatus, UpdateRunStatus, Goto
    <3> QED BY <1>2, <2>1, <3>1, NoVisitCounted DEF Inside, NodePCs
  <2> QED BY <2>2, <2>3
<1>5. ASSUME NEW q \in Requests, Handling(q) PROVE LoopInv'
  <2>1. UNCHANGED <<ckpt, mem>>
    BY <1>5 DEF Handling, ResolveEscalation, EnqueueRunResume, grVars,
          AbortFromEscalation, StopRun, EnqueueFromEndpoint, ResumeIfStillPaused
  <2>2. \A r \in Executors :
           pc'[r] = pc[r] \/ pc'[r] \in {"queued", "sleep", "off", "done"}
    BY <1>0, <1>5
    DEF Handling, ResolveEscalation, EnqueueRunResume, AbortFromEscalation,
        StopRun, EnqueueFromEndpoint, ResumeIfStillPaused, Goto
  <2> QED BY <2>1, <2>2 DEF LoopInv, LoopLimit, BelowLimit, Inside, NodePCs
<1>6. CASE People \/ FindExpired \/ Sweep \/ DeleteRun
  <2>1. UNCHANGED <<ckpt, pc, mem>>
    BY <1>6 DEF People, LookAtEscalation, ResumeEndpoint, AbortEndpoint,
          CheckDeletable, FindExpired, Sweep, TimeoutOpenEscalations,
          CheckTimedOutRun, StopTimedOutRun, DeleteRun, grVars
  <2> QED BY <2>1 DEF LoopInv, LoopLimit, BelowLimit, Inside
<1>7. CASE WorkerCrash \/ ApiCrash
  <2>1. UNCHANGED ckpt
    BY <1>7 DEF WorkerCrash, ApiCrash
  <2>2. \A r \in Executors :
           \/ pc'[r] = pc[r] /\ mem'[r] = mem[r]
           \/ pc'[r] \notin NodePCs /\ mem'[r] \in {mem[r], Idle}
           \/ pc'[r] = pc[r] /\ mem'[r] = Idle
    BY <1>0, <1>7 DEF WorkerCrash, ApiCrash, Active, Busy, NodePCs
  <2>3. \A r \in Executors : mem'[r] = Idle /\ mem'[r] # mem[r] => pc'[r] \notin NodePCs
    BY <1>0, <1>7 DEF WorkerCrash, ApiCrash, Active, Busy, NodePCs
  <2>4. ASSUME NEW r \in Executors PROVE BelowLimit(r)'
    <3>1. CASE pc'[r] = pc[r] /\ mem'[r] = mem[r]
      BY <3>1 DEF LoopInv, BelowLimit, Inside
    <3>2. CASE pc'[r] \notin NodePCs /\ mem'[r] \in {mem[r], Idle}
      BY <1>2, <3>2 DEF LoopInv, BelowLimit, Inside, NodePCs
    <3> QED BY <2>2, <2>3, <3>1, <3>2
  <2> QED BY <2>1, <2>4 DEF LoopInv, LoopLimit
<1> QED BY <1>3, <1>4, <1>5, <1>6, <1>7 DEF Next, Faults

(* However often the run is paused, resumed, redelivered or driven twice,  *)
(* no node is visited more often than MAX_NODE_VISITS_PER_RUN: whatever    *)
(* the timing of people and queue.                                         *)
THEOREM VisitsAreLimited == Spec => []LoopLimit
<1>1. Init => LoopInv
  BY ConstantsAssumption
  DEF Init, LoopInv, LoopLimit, BelowLimit, Within, Inside, NodePCs, Idle
<1>2. TypeInv /\ LoopInv /\ [Next]_vars => LoopInv'
  <2> SUFFICES ASSUME TypeInv, LoopInv, [Next]_vars PROVE LoopInv'
    OBVIOUS
  <2>1. CASE Next
    BY <2>1, NodeStepLoop, CompleteLoop, ElsewhereLoop
  <2>2. CASE UNCHANGED vars
    BY <2>2 DEF vars, LoopInv, LoopLimit, BelowLimit, Inside
  <2> QED BY <2>1, <2>2
<1>3. LoopInv => LoopLimit
  BY DEF LoopInv
<1> QED BY <1>1, <1>2, <1>3, InitTypeInv, NextTypeInv, PTL DEF Spec
=============================================================================
