---------------------------- MODULE RunLifecycle ----------------------------
(***************************************************************************)
(* One workflow run of Knotwork, from creation to a terminal status, and   *)
(* everything that acts on it concurrently:                                *)
(*                                                                         *)
(*   - the arq worker, which executes the run (tasks.execute_run), resumes *)
(*     it after an answer (tasks.resume_run) and sweeps escalations past   *)
(*     their deadline (tasks.check_escalation_timeouts);                   *)
(*   - the API process, which handles the answers people give to the       *)
(*     escalations of the run (human_review.resolve_run_escalation), and   *)
(*     re-drives a run in-process when the queue does not;                 *)
(*   - people, who answer, abort and delete when they please.              *)
(*                                                                         *)
(* Rows are shared through a database whose transactions do not block      *)
(* each other and whose updates go by primary key.  Reading what a         *)
(* decision is taken on and committing the decision are therefore two      *)
(* steps, everywhere: other actors run in between.                         *)
(***************************************************************************)
EXTENDS Integers, Sequences

CONSTANTS
    Nodes,           \* the agent nodes of the workflow
    Entry,           \* the node the start node leads to
    End,             \* the end node (LangGraph's END)
    Targets,         \* node -> sequence of targets of its outgoing edges
    Requests,        \* the answers people give, each one an API request
    NoRequest,       \* "no answer in hand"
    Kinds,           \* the resolutions people may choose
    Vias,            \* the endpoints they may use
    MaxVisits,       \* MAX_NODE_VISITS_PER_RUN
    MaxEscalations,  \* bound on the escalations of the run
    MaxCrashes,      \* bound on the crashes of either process
    Deadlines,       \* TRUE when an escalation may outlive its deadline
    Deletion,        \* TRUE when somebody may delete the run
    Patient,         \* TRUE when people answer only a run that is at rest
    Prompt           \* TRUE when jobs start before anything else happens

AllKinds == {"answer", "revise", "abort"}
AllVias  == {"message", "resolve", "resume_api", "abort_api"}

ASSUME ConstantsAssumption ==
    /\ Entry \in Nodes
    /\ End \notin Nodes
    /\ Targets \in [Nodes -> Seq(Nodes \cup {End})]
    /\ NoRequest \notin Requests
    /\ Kinds \subseteq AllKinds
    /\ Vias \subseteq AllVias
    /\ MaxVisits \in Nat \ {0}
    /\ MaxEscalations \in Nat \ {0}
    /\ MaxCrashes \in Nat
    /\ {Deadlines, Deletion, Patient, Prompt} \subseteq BOOLEAN

(* Whatever drives the graph: the worker's first job, and for each answer  *)
(* the worker's resume job and the API's in-process fallback.              *)
ExecuteJob   == <<"execute", NoRequest>>
ResumeJob(q) == <<"resume", q>>
Fallback(q)  == <<"fallback", q>>
WorkerJobs   == {ExecuteJob} \cup {ResumeJob(q) : q \in Requests}
Fallbacks    == {Fallback(q) : q \in Requests}
Executors    == WorkerJobs \cup Fallbacks

EscIds   == 1 .. MaxEscalations
NoEsc    == 0
NotDeleting == -1
Terminal == {"completed", "failed", "stopped"}
Statuses == Terminal \cup {"absent", "queued", "running", "paused", "deleted"}
Deletable == Terminal \cup {"queued", "paused"}

(* What LangGraph's checkpointer stores: the node to run next, the visit   *)
(* counts, and the answers the interrupts of that node already received.   *)
Checkpoints == [node : Nodes \cup {End},
                visits : [Nodes -> Nat],
                resumes : Seq(Requests)]

(* The local state of an executor inside graph.ainvoke.                    *)
Memory == [node : Nodes \cup {End},
           visits : [Nodes -> Nat],
           resumes : Seq(Requests),      \* answers already recorded
           val : Requests \cup {NoRequest}, \* the answer it brings
           idx : Nat,                    \* interrupts passed in this node
           phase : {"task", "route"},
           act : 0 .. MaxEscalations,    \* escalation it waits on
           sup : SUBSET EscIds,          \* escalations it read as open
           next : Nodes \cup {End},
           fin : {"none", "paused", "completed", "failed"}]

ExecutorPCs == {"off", "queued", "sleep", "loaded", "ask", "supersede",
                "create", "record", "await", "complete", "persist", "status",
                "write", "done"}
RequestPCs  == {"idle", "checked", "committed", "stopping", "done"}
SweepPCs    == {"idle", "expire", "stop", "write"}

VARIABLES
    status,    \* runs.status ("absent": not created; "deleted": row gone)
    output,    \* TRUE when runs.output is set
    escSt,     \* escalations.status by escalation, in creation order
    escNode,   \* the node the escalation was created for
    made,      \* number of escalations created so far
    msg,       \* status of the request message of an escalation
    ns,        \* latest run_node_states row of each node
    ckpt,      \* the latest checkpoint of the thread
    insync,    \* executors whose copy of the checkpoint is the latest
    pc, mem,   \* control point and local state of each executor
    req,       \* the API requests
    sweep,     \* the sweep of escalations past their deadline
    deleting,  \* escalations counted by a deletion under way, or NotDeleting
    crashes

runVars  == <<status, output>>
escVars  == <<escSt, escNode, made, msg>>
grVars   == <<ns, ckpt, insync>>
restVars == <<sweep, deleting, crashes>>
vars == <<status, output, escSt, escNode, made, msg, ns, ckpt, insync,
          pc, mem, req, sweep, deleting, crashes>>

Idle == [node |-> End, visits |-> [n \in Nodes |-> 0], resumes |-> <<>>,
         val |-> NoRequest, idx |-> 0, phase |-> "task", act |-> NoEsc,
         sup |-> {}, next |-> End, fin |-> "none"]

(* Every row and every local state keeps to the values the code writes.    *)
TypeOK ==
    /\ status \in Statuses
    /\ output \in BOOLEAN
    /\ escSt \in [EscIds -> {"none", "open", "resolved", "timed_out", "gone"}]
    /\ escNode \in [EscIds -> Nodes \cup {End}]
    /\ made \in 0 .. MaxEscalations
    /\ msg \in [EscIds -> {"none", "open", "answered", "superseded"}]
    /\ ns \in [Nodes -> [st : {"none", "paused", "completed"},
                         act : 0 .. MaxEscalations]]
    /\ ckpt \in Checkpoints
    /\ insync \subseteq Executors
    /\ pc \in [Executors -> ExecutorPCs]
    /\ mem \in [Executors -> Memory]
    /\ req \in [Requests -> [pc : RequestPCs, esc : 0 .. MaxEscalations,
                             kind : AllKinds, via : AllVias]]
    /\ sweep \in [pc : SweepPCs, set : SUBSET EscIds]
    /\ deleting \in {NotDeleting} \cup (0 .. MaxEscalations)
    /\ crashes \in 0 .. MaxCrashes

Init ==
    /\ status = "absent"
    /\ output = FALSE
    /\ escSt = [e \in EscIds |-> "none"]
    /\ escNode = [e \in EscIds |-> End]
    /\ made = 0
    /\ msg = [e \in EscIds |-> "none"]
    /\ ns = [n \in Nodes |-> [st |-> "none", act |-> NoEsc]]
    /\ ckpt = [node |-> End, visits |-> [n \in Nodes |-> 0], resumes |-> <<>>]
    /\ insync = {}
    /\ pc = [p \in Executors |-> "off"]
    /\ mem = [p \in Executors |-> Idle]
    /\ req = [q \in Requests |-> [pc |-> "idle", esc |-> NoEsc,
                                  kind |-> "answer", via |-> "message"]]
    /\ sweep = [pc |-> "idle", set |-> {}]
    /\ deleting = NotDeleting
    /\ crashes = 0

-----------------------------------------------------------------------------
OpenEscs == {e \in EscIds : escSt[e] = "open"}
Active(p) == pc[p] \notin {"off", "queued", "sleep", "loaded", "done"}
Busy(p) == pc[p] \notin {"off", "done"}

RangeOf(s) == {s[i] : i \in 1 .. Len(s)}
Goto(p, l) == pc' = [pc EXCEPT ![p] = l]

(* ainvoke returns, or raises: the final status is known, the row not yet  *)
(* written.                                                                *)
Finish(p, final) ==
    /\ Goto(p, IF final = "completed" THEN "persist" ELSE "status")
    /\ mem' = [mem EXCEPT ![p].fin = final]

-----------------------------------------------------------------------------
(* Creation: the row is committed first, the job is queued last, and a     *)
(* failure in between leaves the run queued without a job.                 *)
CreateRun ==
    /\ status = "absent"
    /\ status' = "queued"
    /\ UNCHANGED <<output, escVars, grVars, pc, mem, req, restVars>>

EnqueueExecute ==
    /\ status \in {"queued", "deleted"}
    /\ pc[ExecuteJob] = "off"
    /\ \E l \in {"queued", "done"} : Goto(ExecuteJob, l)
    /\ UNCHANGED <<runVars, escVars, grVars, mem, req, restVars>>

(* execute_run reads the run in one session ...                            *)
ExecuteRunLoad ==
    /\ pc[ExecuteJob] = "queued"
    /\ Goto(ExecuteJob,
            IF status \in Terminal \cup {"deleted"} THEN "done" ELSE "loaded")
    /\ UNCHANGED <<runVars, escVars, grVars, mem, req, restVars>>

(* ... marks it running in another, whatever its status has become, and    *)
(* invokes the graph from its start: the visit counts of an earlier        *)
(* attempt survive in the checkpoint, its position does not.               *)
ExecuteRunMark ==
    /\ pc[ExecuteJob] = "loaded"
    /\ status' = IF status = "deleted" THEN status ELSE "running"
    /\ ckpt' = [ckpt EXCEPT !.node = Entry, !.resumes = <<>>]
    /\ insync' = {ExecuteJob}
    /\ mem' = [mem EXCEPT ![ExecuteJob] =
                   [Idle EXCEPT !.node = Entry, !.visits = ckpt.visits]]
    /\ Goto(ExecuteJob, "ask")
    /\ UNCHANGED <<output, escVars, ns, req, restVars>>

(* Mutant: the status of the run is not looked at.                         *)
ResumeAnyRun(p) ==
    /\ p # ExecuteJob
    /\ pc[p] = "queued"
    /\ Goto(p, IF status = "deleted" THEN "done" ELSE "loaded")
    /\ UNCHANGED <<runVars, escVars, grVars, mem, req, restVars>>

(* resume_run: only a paused run is resumed.                               *)
ResumeRunRead(p) ==
    /\ p # ExecuteJob
    /\ pc[p] = "queued"
    /\ Goto(p, IF status = "paused" THEN "loaded" ELSE "done")
    /\ UNCHANGED <<runVars, escVars, grVars, mem, req, restVars>>

(* Mutant: the graph is resumed and the run is not marked as running.      *)
LeftPaused == IF status = "deleted" THEN status ELSE "paused"
MarkedRunning == IF status = "deleted" THEN status ELSE "running"

(* The write goes by primary key, so it lands on whatever the row holds by *)
(* now; on a deleted row it raises.  The graph then continues from the     *)
(* latest checkpoint with the answer in hand.                              *)
ResumeRunMark(p) ==
    /\ p # ExecuteJob
    /\ pc[p] = "loaded"
    /\ status' = MarkedRunning
    /\ LET m == [Idle EXCEPT !.node = ckpt.node, !.visits = ckpt.visits,
                             !.resumes = ckpt.resumes, !.val = p[2]]
       IN \/ /\ status = "deleted"
             /\ Goto(p, "done")
             /\ UNCHANGED <<insync, mem>>
          \/ /\ status # "deleted"
             /\ ckpt.node # End
             /\ Goto(p, "ask")
             /\ mem' = [mem EXCEPT ![p] = m]
             /\ insync' = insync \cup {p}
          \/ /\ status # "deleted"
             /\ ckpt.node = End
             /\ Goto(p, "persist")
             /\ mem' = [mem EXCEPT ![p] = [m EXCEPT !.fin = "completed"]]
             /\ insync' = insync \cup {p}
    /\ UNCHANGED <<output, escVars, ns, ckpt, req, restVars>>

-----------------------------------------------------------------------------
Successors(n) == RangeOf(Targets[n])
FirstTarget(n) == IF Targets[n] = <<>> THEN End ELSE Targets[n][1]
Branching(n) == Len(Targets[n]) > 1

(* The agent node.  On a resume the node function runs again from its top; *)
(* the answers of earlier interrupts come back by position.                *)

Entering(m) == m.phase = "task" /\ m.idx = 0

(* The escalation a re-entered node takes over from its node state.        *)
Adopted(m) == IF Entering(m) /\ ns[m.node].st = "paused"
              THEN ns[m.node].act ELSE NoEsc

(* A node whose participants do not resolve, or any other error inside it. *)
NodeFails(p) ==
    /\ pc[p] = "ask"
    /\ Entering(mem[p])
    /\ Finish(p, "failed")
    /\ UNCHANGED <<runVars, escVars, grVars, req, restVars>>

(* Mutant: the last visit is counted one too late.                         *)
OneVisitMore(m) == Entering(m) /\ m.visits[m.node] > MaxVisits
LimitReached(m) == Entering(m) /\ m.visits[m.node] >= MaxVisits

(* The loop limit, and writes that meet the rows of a deleted run missing.  *)
NodeRaises(p) ==
    /\ \/ pc[p] = "ask" /\ LimitReached(mem[p])
       \/ /\ status = "deleted"
          /\ \/ pc[p] \in {"ask", "supersede", "create", "record"}
             \/ pc[p] = "complete" /\ Branching(mem[p].node)
    /\ Finish(p, "failed")
    /\ UNCHANGED <<runVars, escVars, grVars, req, restVars>>

CanAsk(p) == pc[p] = "ask" /\ status # "deleted" /\ ~LimitReached(mem[p])

(* The question is already out: wait on it again.                          *)
AdoptEscalation(p) ==
    /\ CanAsk(p)
    /\ Adopted(mem[p]) # NoEsc
    /\ mem' = [mem EXCEPT ![p].act = Adopted(mem[p])]
    /\ Goto(p, "await")
    /\ UNCHANGED <<runVars, escVars, grVars, req, restVars>>

(* Mutant: escalations that were decided are superseded again.             *)
AllMade == 1 .. made
Superseded == OpenEscs

(* Otherwise the node state is paused, and the escalations of the run that *)
(* are open are superseded, with the request messages of this node only.   *)
PauseNode(p) ==
    /\ CanAsk(p)
    /\ Adopted(mem[p]) = NoEsc
    /\ ns' = [ns EXCEPT ![mem[p].node] =
                  [st |-> "paused",
                   act |-> IF mem[p].phase = "task" THEN NoEsc ELSE @.act]]
    /\ mem' = [mem EXCEPT ![p].sup = Superseded]
    /\ Goto(p, IF Superseded = {} THEN "create" ELSE "supersede")
    /\ UNCHANGED <<runVars, escVars, ckpt, insync, req, restVars>>

(* Mutant: the escalations of other nodes stay open.                       *)
OfThisNode(p) == {e \in mem[p].sup : escNode[e] = mem[p].node}
Closing(p) == mem[p].sup

SupersedeEscalations(p) ==
    /\ pc[p] = "supersede"
    /\ status # "deleted"
    /\ escSt' = [e \in EscIds |->
                   IF e \in Closing(p) THEN "timed_out" ELSE escSt[e]]
    /\ msg' = [e \in EscIds |->
                 IF /\ e \in Closing(p)
                    /\ escNode[e] = mem[p].node
                    /\ msg[e] = "open"
                 THEN "superseded" ELSE msg[e]]
    /\ mem' = [mem EXCEPT ![p].sup = {}]
    /\ Goto(p, "create")
    /\ UNCHANGED <<runVars, escNode, made, grVars, req, restVars>>

(* A routing escalation is neither recorded in the node state nor posted.  *)
CreateEscalation(p) ==
    /\ pc[p] = "create"
    /\ status # "deleted"
    /\ made < MaxEscalations
    /\ made' = made + 1
    /\ escSt' = [escSt EXCEPT ![made + 1] = "open"]
    /\ escNode' = [escNode EXCEPT ![made + 1] = mem[p].node]
    /\ mem' = [mem EXCEPT ![p].act = made + 1]
    /\ Goto(p, IF mem[p].phase = "task" THEN "record" ELSE "await")
    /\ UNCHANGED <<runVars, msg, grVars, req, restVars>>

RecordEscalation(p) ==
    /\ pc[p] = "record"
    /\ status # "deleted"
    /\ ns' = [ns EXCEPT ![mem[p].node].act = mem[p].act]
    /\ msg' = [msg EXCEPT ![mem[p].act] = "open"]
    /\ Goto(p, "await")
    /\ UNCHANGED <<runVars, escSt, escNode, made, ckpt, insync, mem, req,
                   restVars>>

(* interrupt(): a recorded answer, else the answer in hand, else a pause   *)
(* that leaves the answers of this node in the checkpoint.                 *)
Recorded(m) == m.idx < Len(m.resumes)
HasAnswer(m) == Recorded(m) \/ m.val # NoRequest
NextAnswer(m) == IF Recorded(m) THEN m.resumes[m.idx + 1] ELSE m.val

Interrupt(p) ==
    /\ pc[p] = "await"
    /\ ~HasAnswer(mem[p])
    /\ ckpt' = IF p \in insync THEN [ckpt EXCEPT !.resumes = mem[p].resumes]
                               ELSE ckpt
    /\ Finish(p, "paused")
    /\ UNCHANGED <<runVars, escVars, ns, insync, req, restVars>>

(* The interrupt returns answer q; what the node does next depends on it.  *)
Consumed(m) ==
    [m EXCEPT !.resumes = IF Recorded(m) THEN @ ELSE Append(@, m.val),
              !.val = IF Recorded(m) THEN @ ELSE NoRequest,
              !.idx = @ + 1,
              !.act = NoEsc]

TakeAnswer(p) ==
    /\ pc[p] = "await"
    /\ HasAnswer(mem[p])
    /\ LET m == Consumed(mem[p])
           kind == req[NextAnswer(mem[p])].kind
       IN \/ /\ kind = "abort"
             /\ Goto(p, "status")
             /\ mem' = [mem EXCEPT ![p] = [m EXCEPT !.fin = "failed"]]
          \/ /\ kind = "revise"
             /\ m.phase = "task"
             /\ Goto(p, "ask")
             /\ mem' = [mem EXCEPT ![p] = m]
          \/ /\ kind = "answer"
             /\ m.phase = "task"
             /\ Branching(m.node)
             /\ Goto(p, "ask")
             /\ mem' = [mem EXCEPT ![p] = [m EXCEPT !.phase = "route"]]
          \/ /\ kind = "answer"
             /\ m.phase = "task"
             /\ ~Branching(m.node)
             /\ Goto(p, "complete")
             /\ mem' = [mem EXCEPT ![p] =
                           [m EXCEPT !.next = FirstTarget(m.node)]]
          \/ /\ kind = "answer"
             /\ m.phase = "route"
             /\ Goto(p, "complete")
             /\ \E t \in Successors(m.node) :
                   mem' = [mem EXCEPT ![p] = [m EXCEPT !.next = t]]
          \/ /\ kind = "revise"
             /\ m.phase = "route"
             /\ Goto(p, "complete")
             /\ mem' = [mem EXCEPT ![p] =
                           [m EXCEPT !.next = FirstTarget(m.node)]]
    /\ UNCHANGED <<runVars, escVars, grVars, req, restVars>>

(* The node state is closed, the visit counted, and the checkpoint moves   *)
(* to the next node with no answers recorded for it.                       *)
CompleteNode(p) ==
    /\ pc[p] = "complete"
    /\ status = "deleted" => ~Branching(mem[p].node)
    /\ LET m == mem[p]
           counted == [m.visits EXCEPT ![m.node] = @ + 1]
       IN /\ ns' = IF status = "deleted" THEN ns
                   ELSE [ns EXCEPT ![m.node] =
                            [st |-> "completed", act |-> NoEsc]]
          /\ ckpt' = [node |-> m.next, visits |-> counted, resumes |-> <<>>]
          /\ insync' = {p}
          /\ mem' = [mem EXCEPT ![p] =
                       [Idle EXCEPT !.node = m.next, !.visits = counted,
                                    !.fin = IF m.next = End THEN "completed"
                                                            ELSE "none"]]
          /\ Goto(p, IF m.next = End THEN "persist" ELSE "ask")
    /\ UNCHANGED <<runVars, escVars, req, restVars>>

-----------------------------------------------------------------------------
(* Mutant: a resumed run does not write its output.                        *)
PersistUnresumed(p) ==
    /\ pc[p] = "persist"
    /\ output' = (output \/ p = ExecuteJob)
    /\ Goto(p, "status")
    /\ UNCHANGED <<status, escVars, grVars, mem, req, restVars>>

(* The end of an execution: the output of a completed graph is written     *)
(* first, then the status.                                                 *)
PersistOutput(p) ==
    /\ pc[p] = "persist"
    /\ output' = (output \/ status # "deleted")
    /\ Goto(p, "status")
    /\ UNCHANGED <<status, escVars, grVars, mem, req, restVars>>

(* Mutant: the run must still have the status the caller started from.     *)
NotFromThere(p) ==
    status # (IF p = ExecuteJob THEN "running" ELSE "paused")
(* A run read as terminal is left alone, and a status that is already the  *)
(* final one is not written again.                                         *)
NothingToWrite(p) == status \in Terminal \cup {"deleted", mem[p].fin}

ReadRunStatus(p) ==
    /\ pc[p] = "status"
    /\ \/ /\ NothingToWrite(p)
          /\ Goto(p, "done")
          /\ mem' = [mem EXCEPT ![p] = Idle]
          /\ insync' = insync \ {p}
       \/ /\ ~NothingToWrite(p)
          /\ Goto(p, "write")
          /\ UNCHANGED <<mem, insync>>
    /\ UNCHANGED <<runVars, escVars, ns, ckpt, req, restVars>>

UpdateRunStatus(p) ==
    /\ pc[p] = "write"
    /\ status' = IF status = "deleted" THEN status ELSE mem[p].fin
    /\ Goto(p, "done")
    /\ mem' = [mem EXCEPT ![p] = Idle]
    /\ insync' = insync \ {p}
    /\ UNCHANGED <<output, escVars, ns, ckpt, req, restVars>>

-----------------------------------------------------------------------------
(* People answering.  The code relies on its timing.  A patient person     *)
(* answers a run only while nothing executes it and no other answer to it  *)
(* is being handled; a prompt queue delivers a job before the next answer  *)
(* and within the delay of the in-process fallback.  Neither is enforced.  *)
AtRest == /\ \A p \in Executors : pc[p] # "loaded" /\ ~Active(p)
          /\ \A r \in Requests : req[r].pc \in {"idle", "done"}
NothingPending == \A p \in Executors : pc[p] \notin {"queued", "sleep"}

MayAct == /\ Patient => AtRest
          /\ Prompt => NothingPending

(* The request passes the "escalation is open" check.  Only an escalation  *)
(* with a request message can be answered by replying to the message.      *)
LookAtEscalation(q, e) ==
    /\ req[q].pc = "idle"
    /\ MayAct
    /\ escSt[e] = "open"
    /\ \E k \in Kinds, v \in Vias \cap {"message", "resolve"} :
          /\ v = "message" => msg[e] # "none"
          /\ req' = [req EXCEPT ![q] = [pc |-> "checked", esc |-> e,
                                        kind |-> k, via |-> v]]
    /\ UNCHANGED <<runVars, escVars, grVars, pc, mem, restVars>>

(* The status is written whatever it has become; a row deleted in between  *)
(* makes the request fail.                                                 *)
ResolveEscalation(q) ==
    /\ req[q].pc = "checked"
    /\ \/ /\ escSt[req[q].esc] = "gone"
          /\ req' = [req EXCEPT ![q].pc = "done"]
          /\ UNCHANGED escSt
       \/ /\ escSt[req[q].esc] # "gone"
          /\ escSt' = [escSt EXCEPT ![req[q].esc] = "resolved"]
          /\ req' = [req EXCEPT ![q].pc = "committed"]
    /\ UNCHANGED <<runVars, escNode, made, msg, grVars, pc, mem, restVars>>

Answered(q) ==
    IF req[q].via = "message"
    THEN [msg EXCEPT ![req[q].esc] = "answered"] ELSE msg

(* Mutant: nothing resumes the run when the queue is down.                 *)
EnqueueOrForget(q) ==
    /\ req[q].pc = "committed"
    /\ req[q].esc # NoEsc
    /\ req[q].kind # "abort"
    /\ \/ pc' = [pc EXCEPT ![ResumeJob(q)] = "queued", ![Fallback(q)] = "sleep"]
       \/ UNCHANGED pc
    /\ msg' = Answered(q)
    /\ req' = [req EXCEPT ![q].pc = "done"]
    /\ UNCHANGED <<runVars, escSt, escNode, made, grVars, mem, restVars>>

(* Mutant: the resume is queued before the answer is committed.            *)
EnqueueBeforeCommit(q) ==
    /\ req[q].pc = "checked"
    /\ req[q].kind # "abort"
    /\ \/ pc' = [pc EXCEPT ![ResumeJob(q)] = "queued", ![Fallback(q)] = "sleep"]
       \/ pc' = [pc EXCEPT ![Fallback(q)] = "queued"]
    /\ msg' = Answered(q)
    /\ req' = [req EXCEPT ![q].pc = "done"]
    /\ UNCHANGED <<runVars, escSt, escNode, made, grVars, mem, restVars>>

(* enqueue_run_resume: the job and a fallback that looks again after three *)
(* seconds, or, when the queue is down, an in-process resume at once.      *)
EnqueueRunResume(q) ==
    /\ req[q].pc = "committed"
    /\ req[q].esc # NoEsc
    /\ req[q].kind # "abort"
    /\ \/ pc' = [pc EXCEPT ![ResumeJob(q)] = "queued", ![Fallback(q)] = "sleep"]
       \/ pc' = [pc EXCEPT ![Fallback(q)] = "queued"]
    /\ msg' = Answered(q)
    /\ req' = [req EXCEPT ![q].pc = "done"]
    /\ UNCHANGED <<runVars, escSt, escNode, made, grVars, mem, restVars>>

AbortFromEscalation(q) ==
    /\ req[q].pc = "committed"
    /\ req[q].esc # NoEsc
    /\ req[q].kind = "abort"
    /\ \/ /\ status \in {"paused", "running"}
          /\ req' = [req EXCEPT ![q].pc = "stopping"]
          /\ UNCHANGED msg
       \/ /\ status \notin {"paused", "running"}
          /\ req' = [req EXCEPT ![q].pc = "done"]
          /\ msg' = Answered(q)
    /\ UNCHANGED <<runVars, escSt, escNode, made, grVars, pc, mem, restVars>>

(* Mutant: the status written is not one of the statuses of a run.         *)
MisspeltStop(q) ==
    /\ req[q].pc = "stopping"
    /\ status' = IF status = "deleted" THEN status ELSE "aborted"
    /\ msg' = IF status = "deleted" THEN msg ELSE Answered(q)
    /\ req' = [req EXCEPT ![q].pc = "done"]
    /\ UNCHANGED <<output, escSt, escNode, made, grVars, pc, mem, restVars>>

StopRun(q) ==
    /\ req[q].pc = "stopping"
    /\ status' = IF status = "deleted" THEN status ELSE "stopped"
    /\ msg' = IF status = "deleted" THEN msg ELSE Answered(q)
    /\ req' = [req EXCEPT ![q].pc = "done"]
    /\ UNCHANGED <<output, escSt, escNode, made, grVars, pc, mem, restVars>>

(* POST /runs/{id}/resume resumes a paused run without an escalation.  Its *)
(* own fallback imports a module that does not exist, so the job is all    *)
(* there is, and without a queue there is nothing.                         *)
ResumeEndpoint(q) ==
    /\ req[q].pc = "idle"
    /\ MayAct
    /\ "resume_api" \in Vias
    /\ status = "paused"
    /\ \E k \in Kinds :
          req' = [req EXCEPT ![q] = [pc |-> "committed", esc |-> NoEsc,
                                     kind |-> k, via |-> "resume_api"]]
    /\ UNCHANGED <<runVars, escVars, grVars, pc, mem, restVars>>

EnqueueFromEndpoint(q) ==
    /\ req[q].pc = "committed"
    /\ req[q].esc = NoEsc
    /\ \E l \in {"queued", "off"} : Goto(ResumeJob(q), l)
    /\ req' = [req EXCEPT ![q].pc = "done"]
    /\ UNCHANGED <<runVars, escVars, grVars, mem, restVars>>

(* POST /runs/{id}/abort: the handler's first statements import a module   *)
(* that does not exist, and the request fails before it touches the run.   *)
AbortEndpoint(q) ==
    /\ req[q].pc = "idle"
    /\ MayAct
    /\ "abort_api" \in Vias
    /\ status \notin {"absent", "deleted"}
    /\ req' = [req EXCEPT ![q] = [pc |-> "done", esc |-> NoEsc,
                                  kind |-> "abort", via |-> "abort_api"]]
    /\ UNCHANGED <<runVars, escVars, grVars, pc, mem, restVars>>

(* Mutant: the fallback does not look for a fresh open escalation.         *)
ResumeWhenPaused(q) ==
    /\ pc[Fallback(q)] = "sleep"
    /\ Prompt => pc[ResumeJob(q)] \notin {"queued", "loaded"}
    /\ Goto(Fallback(q), IF status = "paused" THEN "queued" ELSE "done")
    /\ UNCHANGED <<runVars, escVars, grVars, mem, req, restVars>>

(* The fallback wakes: a run that moved on, or waits for another answer,   *)
(* is left alone.                                                          *)
ResumeIfStillPaused(q) ==
    /\ pc[Fallback(q)] = "sleep"
    /\ Prompt => pc[ResumeJob(q)] \notin {"queued", "loaded"}
    /\ Goto(Fallback(q),
            IF status = "paused" /\ OpenEscs = {} THEN "queued" ELSE "done")
    /\ UNCHANGED <<runVars, escVars, grVars, mem, req, restVars>>

-----------------------------------------------------------------------------
(* The sweep commits the expired escalations first and stops the run in a  *)
(* second transaction.  Deadlines are hours: when one passes, whoever      *)
(* asked has long paused, and no three-second timer is still running.      *)
Sweeping(l, S) == sweep' = [pc |-> l, set |-> S]

Expirable == {e \in OpenEscs : \A p \in Executors : mem[p].act # e}

FindExpired ==
    /\ Deadlines
    /\ sweep.pc = "idle"
    /\ \A q \in Requests : pc[Fallback(q)] # "sleep"
    /\ \E S \in (SUBSET Expirable) \ {{}} : Sweeping("expire", S)
    /\ UNCHANGED <<runVars, escVars, grVars, pc, mem, req, deleting, crashes>>

TimeoutOpenEscalations ==
    /\ sweep.pc = "expire"
    /\ \/ /\ status = "deleted"
          /\ Sweeping("idle", {})
          /\ UNCHANGED escSt
       \/ /\ status # "deleted"
          /\ Sweeping("stop", {})
          /\ escSt' = [e \in EscIds |->
                         IF e \in sweep.set THEN "timed_out" ELSE escSt[e]]
    /\ UNCHANGED <<runVars, escNode, made, msg, grVars, pc, mem, req, deleting,
                   crashes>>

(* Mutant: the sweep stops running runs only.                              *)
StopRunningOnly ==
    /\ sweep.pc = "stop"
    /\ Sweeping(IF status = "running" THEN "write" ELSE "idle", {})
    /\ UNCHANGED <<runVars, escVars, grVars, pc, mem, req, deleting, crashes>>

CheckTimedOutRun ==
    /\ sweep.pc = "stop"
    /\ Sweeping(IF status \in {"paused", "running"}
                THEN "write" ELSE "idle", {})
    /\ UNCHANGED <<runVars, escVars, grVars, pc, mem, req, deleting, crashes>>

StopTimedOutRun ==
    /\ sweep.pc = "write"
    /\ status' = IF status = "deleted" THEN status ELSE "stopped"
    /\ Sweeping("idle", {})
    /\ UNCHANGED <<output, escVars, grVars, pc, mem, req, deleting, crashes>>

Sweep == TimeoutOpenEscalations \/ CheckTimedOutRun \/ StopTimedOutRun

(* The handler checks the status, the service lists the escalations, and   *)
(* everything that hangs off the run goes with it, except the messages of  *)
(* its channel and LangGraph's own tables.  An escalation that appears     *)
(* after the listing still refers to the run, and the deletion fails.      *)
CheckDeletable ==
    /\ Deletion
    /\ deleting = NotDeleting
    /\ status \in Deletable
    /\ deleting' = made
    /\ UNCHANGED <<runVars, escVars, grVars, pc, mem, req, sweep, crashes>>

DeleteRun ==
    /\ deleting # NotDeleting
    /\ deleting' = NotDeleting
    /\ \/ /\ deleting # made
          /\ UNCHANGED <<runVars, escSt, ns>>
       \/ /\ deleting = made
          /\ status' = "deleted"
          /\ output' = FALSE
          /\ escSt' = [e \in EscIds |-> IF e <= made THEN "gone" ELSE escSt[e]]
          /\ ns' = [n \in Nodes |-> [st |-> "none", act |-> NoEsc]]
    /\ UNCHANGED <<escNode, made, msg, ckpt, insync, pc, mem, req, sweep,
                   crashes>>

-----------------------------------------------------------------------------
(* The worker dies: its jobs are still in the queue and will be delivered  *)
(* again from their beginning; a sweep under way is forgotten.             *)
WorkerCrash ==
    /\ crashes < MaxCrashes
    /\ sweep.pc # "idle" \/ \E p \in WorkerJobs : Active(p) \/ pc[p] = "loaded"
    /\ crashes' = crashes + 1
    /\ Sweeping("idle", {})
    /\ pc' = [p \in Executors |->
                IF p \in WorkerJobs /\ (Active(p) \/ pc[p] = "loaded")
                THEN "queued" ELSE pc[p]]
    /\ mem' = [p \in Executors |-> IF p \in WorkerJobs THEN Idle ELSE mem[p]]
    /\ insync' = insync \ WorkerJobs
    /\ UNCHANGED <<runVars, escVars, ns, ckpt, req, deleting>>

(* The API process dies, with its requests and its in-process tasks.       *)
ApiCrash ==
    /\ crashes < MaxCrashes
    /\ crashes' = crashes + 1
    /\ pc' = [p \in Executors |->
                IF p \in Fallbacks /\ Busy(p) THEN "done"
                ELSE IF p = ExecuteJob /\ pc[p] = "off" /\ status # "absent"
                     THEN "done" ELSE pc[p]]
    /\ mem' = [p \in Executors |-> IF p \in Fallbacks THEN Idle ELSE mem[p]]
    /\ insync' = insync \ Fallbacks
    /\ req' = [q \in Requests |->
                 IF req[q].pc \in {"checked", "committed", "stopping"}
                 THEN [req[q] EXCEPT !.pc = "done"] ELSE req[q]]
    /\ deleting' = NotDeleting
    /\ UNCHANGED <<runVars, escVars, ns, ckpt, sweep>>

-----------------------------------------------------------------------------
Starting == CreateRun \/ EnqueueExecute \/ ExecuteRunLoad \/ ExecuteRunMark

NodeStep(p) ==
    \/ NodeRaises(p) \/ AdoptEscalation(p) \/ PauseNode(p)
    \/ SupersedeEscalations(p) \/ CreateEscalation(p) \/ RecordEscalation(p)
    \/ Interrupt(p) \/ TakeAnswer(p) \/ CompleteNode(p)

Driving(p) == \/ ResumeRunRead(p) \/ ResumeRunMark(p)
              \/ NodeStep(p)
              \/ PersistOutput(p) \/ ReadRunStatus(p) \/ UpdateRunStatus(p)

Handling(q) == \/ ResolveEscalation(q) \/ EnqueueRunResume(q)
               \/ AbortFromEscalation(q) \/ StopRun(q) \/ EnqueueFromEndpoint(q)
               \/ ResumeIfStillPaused(q)

People == \/ \E q \in Requests, e \in EscIds : LookAtEscalation(q, e)
          \/ \E q \in Requests : ResumeEndpoint(q) \/ AbortEndpoint(q)
          \/ CheckDeletable

Faults == \/ \E p \in Executors : NodeFails(p)
          \/ WorkerCrash \/ ApiCrash

Next == \/ Starting
        \/ \E p \in Executors : Driving(p)
        \/ \E q \in Requests : Handling(q)
        \/ People
        \/ FindExpired \/ Sweep
        \/ DeleteRun
        \/ Faults

Spec == Init /\ [][Next]_vars

(* The platform goes on with whatever it started; what people and deadlines *)
(* do, and what goes wrong, is not promised.  Only a queue that is not      *)
(* prompt may never deliver a resume job: that is what the fallback is for. *)
Fairness == /\ WF_vars(Starting)
            /\ \A p \in {ExecuteJob} \cup Fallbacks : WF_vars(Driving(p))
            /\ \A q \in Requests :
                  /\ WF_vars(/\ Prompt \/ pc[ResumeJob(q)] # "queued"
                             /\ Driving(ResumeJob(q)))
                  /\ WF_vars(Handling(q))
            /\ WF_vars(Sweep)
            /\ WF_vars(DeleteRun)

FairSpec == Spec /\ Fairness

-----------------------------------------------------------------------------
(* Safety.                                                                  *)

(* One run, one driver: the worker's jobs and the in-process fallbacks of   *)
(* enqueue_run_resume never execute the graph of the run at the same time.  *)
OneDriver == \A p, r \in Executors : Active(p) /\ Active(r) => p = r

(* The run asks one thing at a time: a new escalation of any node is        *)
(* created only after every open one was closed, whether by an answer or    *)
(* by supersede_open_node_escalations.                                      *)
OneOpenQuestion == \A e, f \in OpenEscs : e = f

(* An interrupt that is about to return the answer in hand, not one         *)
(* recorded earlier.                                                        *)
AnswerInHand(p) ==
    /\ pc[p] = "await"
    /\ ~Recorded(mem[p])
    /\ mem[p].val # NoRequest

(* An answer goes to the node that asked for it: the resolution that        *)
(* resume_run hands to the graph was given to an escalation of the node     *)
(* whose interrupt returns it.                                              *)
AnswerFitsNode == \A p \in Executors :
    AnswerInHand(p) /\ req[mem[p].val].esc # NoEsc =>
       escNode[req[mem[p].val].esc] = mem[p].node

(* One answer answers one interrupt: what the graph receives was not        *)
(* received by an earlier interrupt of the node, however often the job and  *)
(* the fallback resume the run.                                             *)
AnswerUsedOnce == \A p \in Executors :
    AnswerInHand(p) => mem[p].val \notin RangeOf(mem[p].resumes)

(* A paused run waits for somebody: when nothing is executing, queued or    *)
(* being handled any more, an escalation of the interrupted node is open,   *)
(* so the run is never parked with no way to go on.                         *)
PausedIsAnswerable ==
    status = "paused" /\ AtRest /\ NothingPending /\ sweep.pc = "idle" =>
       \E e \in OpenEscs : escNode[e] = ckpt.node

(* A completed run has its output: _persist_run_output_from_result commits  *)
(* before the status does, whoever else writes to the run.                  *)
CompletedHasOutput == status = "completed" => output

(* The loop limit counts across pauses, resumes and redelivered jobs.       *)
LoopLimit == \A n \in Nodes : ckpt.visits[n] <= MaxVisits

(* The graph receives committed answers only: the escalation an answer in   *)
(* use was given to is no longer open.                                      *)
AnswerIsCommitted == \A p \in Executors, q \in Requests :
    (/\ Active(p)
     /\ q \in RangeOf(mem[p].resumes) \cup {mem[p].val}
     /\ req[q].esc # NoEsc) => escSt[req[q].esc] # "open"

(* A decision stands: an escalation somebody resolved is not superseded or  *)
(* timed out afterwards.                                                    *)
DecisionStands ==
    [][\A e \in EscIds : escSt[e] = "resolved" =>
          escSt'[e] \in {"resolved", "gone"}]_escSt

(* A terminal status is final, until the run is deleted: late answers to    *)
(* escalations left open and late jobs do not revive the run.               *)
TerminalIsFinal ==
    [][(status \in Terminal) => status' \in {status, "deleted"}]_status

-----------------------------------------------------------------------------
(* Liveness.                                                                *)

(* An answer takes effect: once its escalation is resolved the run leaves   *)
(* "paused", through the job, the fallback after three seconds, or the      *)
(* in-process resume when the queue is down.                                *)
AnswerTakesEffect == \A q \in Requests :
    (status = "paused" /\ req[q].pc = "committed" /\ req[q].esc # NoEsc)
       ~> (status # "paused")

(* A queued run starts: when the queue was down at its creation, the run    *)
(* "stays queued until worker/queue recovers" (create_run).                 *)
QueuedRunStarts == (status = "queued") ~> (status # "queued")

(* An execution comes to an end: a run does not stay "running".             *)
ExecutionEnds == (status = "running") ~> (status # "running")

-----------------------------------------------------------------------------
(* The contract of a run, and how a state of this module is a state of it:  *)
(* what a parked run asks.  A node that runs again from its top may leave   *)
(* other questions open, which nobody waits for.                            *)
Asked == status = "paused" /\ OpenEscs # {}

Contract == INSTANCE RunContract
    WITH phase <- status, question <- Asked, output <- output

(* Whoever drives the run, people see it work, ask one question, wait for   *)
(* the decision and go on, never parked without a question, resumed before  *)
(* a decision, or completed without an output.                              *)
MeetsContract == Contract!Spec
=============================================================================
