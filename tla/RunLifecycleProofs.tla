------------------------- MODULE RunLifecycleProofs -------------------------
(***************************************************************************)
(* Theorems about RunLifecycle, for every workflow, any number of answers  *)
(* and any bound on escalations, visits and crashes.                       *)
(***************************************************************************)
EXTENDS RunLifecycle, TLAPS

NodePCs == {"ask", "supersede", "create", "record", "await", "complete"}

(* An executor inside a node function is at one of the workflow's nodes,   *)
(* so looking up the node state and the outgoing edges makes sense; one    *)
(* that has left the graph knows the status it will write.                 *)
Fits(l, m) ==
    /\ l \in NodePCs => m.node \in Nodes
    /\ l = "persist" => m.fin = "completed"
    /\ l \in {"status", "write"} => m.fin # "none"

NodeAtWork == \A p \in Executors : Fits(pc[p], mem[p])

TypeInv == TypeOK /\ NodeAtWork

(* Every job and every fallback is an executor; all but the first bring an *)
(* answer.                                                                 *)
LEMMA ExecutorFacts ==
    /\ ExecuteJob \in Executors
    /\ \A q \in Requests : ResumeJob(q) \in Executors /\ Fallback(q) \in Executors
    /\ \A p \in Executors : p # ExecuteJob => p[2] \in Requests
BY DEF Executors, WorkerJobs, Fallbacks, ExecuteJob, ResumeJob, Fallback

(* The local state an executor starts from is well formed.                 *)
LEMMA IdleType == Idle \in Memory
BY ConstantsAssumption DEF Idle, Memory, EscIds, NoEsc

(* The initial state satisfies the type invariant.                         *)
LEMMA InitTypeInv == Init => TypeInv
<1> SUFFICES ASSUME Init PROVE TypeInv
  OBVIOUS
<1>1. TypeOK
  <2>1. status \in Statuses /\ output \in BOOLEAN /\ insync \subseteq Executors
    BY DEF Init, Statuses
  <2>2. /\ escSt \in [EscIds -> {"none", "open", "resolved", "timed_out", "gone"}]
        /\ escNode \in [EscIds -> Nodes \cup {End}]
        /\ msg \in [EscIds -> {"none", "open", "answered", "superseded"}]
    BY DEF Init
  <2>3. /\ made \in 0 .. MaxEscalations
        /\ deleting \in {NotDeleting} \cup (0 .. MaxEscalations)
        /\ crashes \in 0 .. MaxCrashes
    BY ConstantsAssumption DEF Init
  <2>4. ns \in [Nodes -> [st : {"none", "paused", "completed"},
                         act : 0 .. MaxEscalations]]
    BY ConstantsAssumption DEF Init, NoEsc
  <2>5. ckpt \in Checkpoints
    BY DEF Init, Checkpoints
  <2>6. pc \in [Executors -> ExecutorPCs] /\ mem \in [Executors -> Memory]
    BY IdleType DEF Init, ExecutorPCs
  <2>7. req \in [Requests -> [pc : RequestPCs, esc : 0 .. MaxEscalations,
                             kind : AllKinds, via : AllVias]]
    BY ConstantsAssumption DEF Init, RequestPCs, NoEsc, AllKinds, AllVias
  <2>8. sweep \in [pc : SweepPCs, set : SUBSET EscIds]
    BY DEF Init, SweepPCs
  <2> QED BY <2>1, <2>2, <2>3, <2>4, <2>5, <2>6, <2>7, <2>8 DEF TypeOK
<1>2. NodeAtWork
  BY DEF Init, NodeAtWork, NodePCs, Fits
<1> QED BY <1>1, <1>2 DEF TypeInv

-----------------------------------------------------------------------------
(* The type invariant in two halves: the rows, and the executors.          *)
Rows ==
    /\ status \in Statuses
    /\ output \in BOOLEAN
    /\ escSt \in [EscIds -> {"none", "open", "resolved", "timed_out", "gone"}]
    /\ escNode \in [EscIds -> Nodes \cup {End}]
    /\ made \in 0 .. MaxEscalations
    /\ msg \in [EscIds -> {"none", "open", "answered", "superseded"}]
    /\ ns \in [Nodes -> [st : {"none", "paused", "completed"},
                         act : 0 .. MaxEscalations]]
    /\ ckpt \in Checkpoints
    /\ insync \subseteq Executors
    /\ req \in [Requests -> [pc : RequestPCs, esc : 0 .. MaxEscalations,
                             kind : AllKinds, via : AllVias]]
    /\ sweep \in [pc : SweepPCs, set : SUBSET EscIds]
    /\ deleting \in {NotDeleting} \cup (0 .. MaxEscalations)
    /\ crashes \in 0 .. MaxCrashes

Control ==
    /\ pc \in [Executors -> ExecutorPCs]
    /\ mem \in [Executors -> Memory]
    /\ NodeAtWork

(* The type invariant is its two halves ...                                *)
LEMMA TypeInvParts == TypeInv <=> Rows /\ Control
BY DEF TypeInv, TypeOK, Rows, Control

(* ... and so it is in the next state.                                     *)
LEMMA TypeInvNext == Rows' /\ Control' => TypeInv'
BY DEF TypeInv, TypeOK, Rows, Control

(* An executor moves and keeps what it holds.                              *)
LEMMA MoveOnly ==
    ASSUME Control, NEW p \in Executors, NEW l \in ExecutorPCs,
           Goto(p, l), UNCHANGED mem, Fits(l, mem[p])
    PROVE  Control'
<1>1. pc' \in [Executors -> ExecutorPCs]
  BY DEF Control, Goto
<1>2. mem' \in [Executors -> Memory]
  BY DEF Control
<1>3. ASSUME NEW r \in Executors PROVE Fits(pc'[r], mem'[r])
  <2>1. CASE r = p
    BY <1>3, <2>1 DEF Control, Goto
  <2>2. CASE r # p
    BY <1>3, <2>2 DEF Control, Goto, NodeAtWork
  <2> QED BY <2>1, <2>2
<1> QED BY <1>1, <1>2, <1>3 DEF Control, NodeAtWork

(* An executor moves and holds something else.                             *)
LEMMA MoveWith ==
    ASSUME Control, NEW p \in Executors, NEW l \in ExecutorPCs,
           NEW m \in Memory, Goto(p, l), mem' = [mem EXCEPT ![p] = m],
           Fits(l, m)
    PROVE  Control'
<1>1. pc' \in [Executors -> ExecutorPCs]
  BY DEF Control, Goto
<1>2. mem' \in [Executors -> Memory]
  BY DEF Control
<1>3. ASSUME NEW r \in Executors PROVE Fits(pc'[r], mem'[r])
  <2>1. CASE r = p
    BY <1>3, <2>1 DEF Control, Goto
  <2>2. CASE r # p
    BY <1>3, <2>2 DEF Control, Goto, NodeAtWork
  <2> QED BY <2>1, <2>2
<1> QED BY <1>1, <1>2, <1>3 DEF Control, NodeAtWork

(* Nothing about the executors changes.                                    *)
LEMMA NoMove == Control /\ UNCHANGED <<pc, mem>> => Control'
BY DEF Control, NodeAtWork

(* Changing one field of the local state.                                  *)
LEMMA FieldTypes ==
    ASSUME NEW m \in Memory
    PROVE  /\ \A a \in 0 .. MaxEscalations : [m EXCEPT !.act = a] \in Memory
           /\ \A S \in SUBSET EscIds : [m EXCEPT !.sup = S] \in Memory
           /\ \A n \in Nodes \cup {End} : [m EXCEPT !.next = n] \in Memory
           /\ \A f \in {"none", "paused", "completed", "failed"} :
                 [m EXCEPT !.fin = f] \in Memory
           /\ [m EXCEPT !.phase = "route"] \in Memory
BY DEF Memory

(* Leaving the graph, by its end or by an exception, keeps to the types.   *)
LEMMA FinishType ==
    ASSUME Control, NEW p \in Executors,
           NEW final \in {"paused", "completed", "failed"}, Finish(p, final)
    PROVE  Control'
<1> DEFINE m == [mem[p] EXCEPT !.fin = final]
<1>1. mem[p] \in Memory
  BY DEF Control
<1>2. m \in Memory
  BY <1>1, FieldTypes
<1>3. mem' = [mem EXCEPT ![p] = m] /\ m.fin = final
  BY <1>1 DEF Finish, Memory
<1> HIDE DEF m
<1>4. CASE final = "completed"
  BY <1>2, <1>3, <1>4, MoveWith DEF Finish, ExecutorPCs, NodePCs, Fits
<1>5. CASE final # "completed"
  BY <1>2, <1>3, <1>5, MoveWith DEF Finish, ExecutorPCs, NodePCs, Fits
<1> QED BY <1>4, <1>5

-----------------------------------------------------------------------------
(* Starting a run keeps to the types.                                      *)
LEMMA StartingTypes == ASSUME TypeInv, Starting PROVE TypeInv'
<1> USE ExecutorFacts
<1>0. Rows /\ Control
  BY TypeInvParts
<1>1. CASE CreateRun
  <2>1. Rows'
    BY <1>0, <1>1 DEF CreateRun, Rows, Statuses, escVars, grVars, restVars
  <2>2. Control'
    BY <1>0, <1>1, NoMove DEF CreateRun
  <2> QED BY <2>1, <2>2, TypeInvNext
<1>2. CASE EnqueueExecute
  <2>1. Rows'
    BY <1>0, <1>2 DEF EnqueueExecute, Rows, runVars, escVars, grVars, restVars
  <2>2. PICK l \in {"queued", "done"} : Goto(ExecuteJob, l)
    BY <1>2 DEF EnqueueExecute
  <2>3. Control'
    BY <1>0, <1>2, <2>2, MoveOnly DEF EnqueueExecute, ExecutorPCs, NodePCs, Fits
  <2> QED BY <2>1, <2>3, TypeInvNext
<1>3. CASE ExecuteRunLoad
  <2>1. Rows'
    BY <1>0, <1>3 DEF ExecuteRunLoad, Rows, runVars, escVars, grVars, restVars
  <2>2. PICK l \in {"loaded", "done"} : Goto(ExecuteJob, l)
    BY <1>3 DEF ExecuteRunLoad
  <2>3. Control'
    BY <1>0, <1>3, <2>2, MoveOnly DEF ExecuteRunLoad, ExecutorPCs, NodePCs, Fits
  <2> QED BY <2>1, <2>3, TypeInvNext
<1>4. CASE ExecuteRunMark
  <2> DEFINE m == [Idle EXCEPT !.node = Entry, !.visits = ckpt.visits]
  <2>1. m \in Memory
    BY <1>0, ConstantsAssumption, IdleType DEF Rows, Checkpoints, Memory
  <2>2. m.node \in Nodes
    BY ConstantsAssumption DEF Idle
  <2>3. ckpt' \in Checkpoints
    <3>1. ckpt \in Checkpoints /\ Entry \in Nodes
      BY <1>0, ConstantsAssumption DEF Rows
    <3>2. ckpt' = [ckpt EXCEPT !.node = Entry, !.resumes = <<>>]
      BY <1>4 DEF ExecuteRunMark
    <3>3. /\ ckpt.visits \in [Nodes -> Nat]
          /\ <<>> \in Seq(Requests)
      BY <3>1 DEF Checkpoints
    <3>4. ckpt' = [node |-> Entry, visits |-> ckpt.visits, resumes |-> <<>>]
      BY <3>1, <3>2 DEF Checkpoints
    <3> QED BY <3>1, <3>3, <3>4 DEF Checkpoints
  <2>4. Rows'
    BY <1>0, <1>4, <2>3 DEF ExecuteRunMark, Rows, Statuses, escVars, restVars
  <2>5. mem' = [mem EXCEPT ![ExecuteJob] = m] /\ Goto(ExecuteJob, "ask")
    BY <1>4 DEF ExecuteRunMark
  <2> HIDE DEF m
  <2>6. Control'
    BY <1>0, <2>1, <2>2, <2>5, MoveWith DEF ExecutorPCs, NodePCs, Fits
  <2> QED BY <2>4, <2>6, TypeInvNext
<1> QED BY <1>1, <1>2, <1>3, <1>4 DEF Starting

(* Resuming a run keeps to the types.                                      *)
LEMMA ResumingTypes ==
    ASSUME TypeInv, NEW p \in Executors, ResumeRunRead(p) \/ ResumeRunMark(p)
    PROVE  TypeInv'
<1>0. Rows /\ Control
  BY TypeInvParts
<1>1. CASE ResumeRunRead(p)
  <2>1. Rows'
    BY <1>0, <1>1 DEF ResumeRunRead, Rows, runVars, escVars, grVars, restVars
  <2>2. PICK l \in {"loaded", "done"} : Goto(p, l)
    BY <1>1 DEF ResumeRunRead
  <2>3. Control'
    BY <1>0, <1>1, <2>2, MoveOnly DEF ResumeRunRead, ExecutorPCs, NodePCs, Fits
  <2> QED BY <2>1, <2>3, TypeInvNext
<1>2. CASE ResumeRunMark(p)
  <2> DEFINE m == [Idle EXCEPT !.node = ckpt.node, !.visits = ckpt.visits,
                               !.resumes = ckpt.resumes, !.val = p[2]]
             f == [m EXCEPT !.fin = "completed"]
  <2>1. p[2] \in Requests
    BY <1>2, ExecutorFacts DEF ResumeRunMark
  <2>2. m \in Memory
    BY <1>0, <2>1, IdleType DEF Rows, Checkpoints, Memory
  <2>3. f \in Memory /\ f.fin = "completed"
    BY <2>2, FieldTypes DEF Memory
  <2>4. m.node = ckpt.node
    BY DEF Idle
  <2>5. Rows'
    BY <1>0, <1>2
    DEF ResumeRunMark, MarkedRunning, Rows, Statuses, escVars, restVars
  <2>6. \/ Goto(p, "done") /\ UNCHANGED mem
        \/ /\ ckpt.node # End
           /\ Goto(p, "ask")
           /\ mem' = [mem EXCEPT ![p] = m]
        \/ Goto(p, "persist") /\ mem' = [mem EXCEPT ![p] = f]
    BY <1>2 DEF ResumeRunMark
  <2>7. ckpt.node # End => m.node \in Nodes
    BY <1>0, <2>4 DEF Rows, Checkpoints
  <2> HIDE DEF m, f
  <2>8. CASE Goto(p, "done") /\ UNCHANGED mem
    BY <1>0, <2>5, <2>8, MoveOnly, TypeInvNext DEF ExecutorPCs, NodePCs, Fits
  <2>9. CASE ckpt.node # End /\ Goto(p, "ask") /\ mem' = [mem EXCEPT ![p] = m]
    <3>1. Control'
      BY <1>0, <2>2, <2>7, <2>9, MoveWith DEF ExecutorPCs, NodePCs, Fits
    <3> QED BY <2>5, <3>1, TypeInvNext
  <2>10. CASE Goto(p, "persist") /\ mem' = [mem EXCEPT ![p] = f]
    <3>1. Control'
      BY <1>0, <2>3, <2>10, MoveWith DEF ExecutorPCs, NodePCs, Fits
    <3> QED BY <2>5, <3>1, TypeInvNext
  <2> QED BY <2>6, <2>8, <2>9, <2>10
<1> QED BY <1>1, <1>2

(* Most steps of an executor leave the rows alone.                         *)
LEMMA RowsUnchanged ==
    Rows /\ UNCHANGED <<runVars, escVars, grVars, req, restVars>> => Rows'
BY DEF Rows, runVars, escVars, grVars, restVars

(* Raising, adopting and pausing keep to the types.                        *)
LEMMA AskTypes ==
    ASSUME TypeInv, NEW p \in Executors,
           NodeFails(p) \/ NodeRaises(p) \/ AdoptEscalation(p) \/ PauseNode(p)
    PROVE  TypeInv'
<1>0. Rows /\ Control
  BY TypeInvParts
<1>1. mem[p] \in Memory
  BY <1>0 DEF Control
<1>2. CASE NodeFails(p) \/ NodeRaises(p)
  <2>1. Rows'
    BY <1>0, <1>2, RowsUnchanged DEF NodeFails, NodeRaises
  <2>2. Control'
    BY <1>0, <1>2, FinishType DEF NodeFails, NodeRaises
  <2> QED BY <2>1, <2>2, TypeInvNext
<1>3. CASE AdoptEscalation(p)
  <2> DEFINE m == [mem[p] EXCEPT !.act = Adopted(mem[p])]
  <2>1. pc[p] = "ask"
    BY <1>3 DEF AdoptEscalation, CanAsk
  <2>2. mem[p].node \in Nodes
    BY <1>0, <2>1 DEF Control, NodeAtWork, NodePCs, Fits
  <2>3. ns[mem[p].node].act \in 0 .. MaxEscalations
    BY <1>0, <2>2 DEF Rows
  <2>4. Adopted(mem[p]) \in 0 .. MaxEscalations
    BY <1>3, <2>3 DEF AdoptEscalation, Adopted
  <2>5. m \in Memory
    BY <1>1, <2>4, FieldTypes
  <2>6. m.node \in Nodes
    BY <1>1, <2>2 DEF Memory
  <2>7. mem' = [mem EXCEPT ![p] = m] /\ Goto(p, "await")
    BY <1>3 DEF AdoptEscalation
  <2>8. Rows'
    BY <1>0, <1>3, RowsUnchanged DEF AdoptEscalation
  <2> HIDE DEF m
  <2>9. Control'
    BY <1>0, <2>5, <2>6, <2>7, MoveWith DEF ExecutorPCs, NodePCs, Fits
  <2> QED BY <2>8, <2>9, TypeInvNext
<1>4. CASE PauseNode(p)
  <2> DEFINE m == [mem[p] EXCEPT !.sup = OpenEscs]
  <2>1. pc[p] = "ask"
    BY <1>4 DEF PauseNode, CanAsk
  <2>2. mem[p].node \in Nodes
    BY <1>0, <2>1 DEF Control, NodeAtWork, NodePCs, Fits
  <2>3. m \in Memory
    BY <1>1, FieldTypes DEF OpenEscs
  <2>4. m.node \in Nodes
    BY <1>1, <2>2 DEF Memory
  <2>5. ns' \in [Nodes -> [st : {"none", "paused", "completed"},
                           act : 0 .. MaxEscalations]]
    <3> DEFINE row == [st |-> "paused",
                       act |-> IF mem[p].phase = "task" THEN NoEsc
                               ELSE ns[mem[p].node].act]
    <3>1. row \in [st : {"none", "paused", "completed"},
                   act : 0 .. MaxEscalations]
      BY <1>0, <2>2, ConstantsAssumption DEF Rows, NoEsc
    <3>2. ns' = [ns EXCEPT ![mem[p].node] = row]
      BY <1>0, <1>4, <2>2 DEF PauseNode, Rows
    <3> HIDE DEF row
    <3> QED BY <1>0, <3>1, <3>2 DEF Rows
  <2>6. Rows'
    BY <1>0, <1>4, <2>5 DEF PauseNode, Rows, runVars, escVars, restVars
  <2>7. /\ mem' = [mem EXCEPT ![p] = m]
        /\ Goto(p, "create") \/ Goto(p, "supersede")
    BY <1>4 DEF PauseNode, Superseded
  <2> HIDE DEF m
  <2>8. Control'
    <3>1. CASE Goto(p, "create")
      BY <1>0, <2>3, <2>4, <2>7, <3>1, MoveWith DEF ExecutorPCs, NodePCs, Fits
    <3>2. CASE Goto(p, "supersede")
      BY <1>0, <2>3, <2>4, <2>7, <3>2, MoveWith DEF ExecutorPCs, NodePCs, Fits
    <3> QED BY <2>7, <3>1, <3>2
  <2> QED BY <2>6, <2>8, TypeInvNext
<1> QED BY <1>2, <1>3, <1>4

(* Superseding, creating and recording keep to the types.                  *)
LEMMA EscalationTypes ==
    ASSUME TypeInv, NEW p \in Executors,
           SupersedeEscalations(p) \/ CreateEscalation(p) \/ RecordEscalation(p)
    PROVE  TypeInv'
<1>0. Rows /\ Control
  BY TypeInvParts
<1>1. mem[p] \in Memory
  BY <1>0 DEF Control
<1>2. mem[p].node \in Nodes
  BY <1>0 DEF Control, NodeAtWork, NodePCs, Fits, SupersedeEscalations,
              CreateEscalation, RecordEscalation
<1>3. CASE SupersedeEscalations(p)
  <2> DEFINE m == [mem[p] EXCEPT !.sup = {}]
  <2>1. m \in Memory /\ m.node \in Nodes
    BY <1>1, <1>2, FieldTypes DEF Memory
  <2>2. escSt' \in [EscIds -> {"none", "open", "resolved", "timed_out", "gone"}]
    BY <1>0, <1>3 DEF SupersedeEscalations, Rows
  <2>3. msg' \in [EscIds -> {"none", "open", "answered", "superseded"}]
    BY <1>0, <1>3 DEF SupersedeEscalations, Rows
  <2>4. Rows'
    BY <1>0, <1>3, <2>2, <2>3
    DEF SupersedeEscalations, Rows, runVars, grVars, restVars
  <2>5. mem' = [mem EXCEPT ![p] = m] /\ Goto(p, "create")
    BY <1>3 DEF SupersedeEscalations
  <2> HIDE DEF m
  <2>6. Control'
    BY <1>0, <2>1, <2>5, MoveWith DEF ExecutorPCs, NodePCs, Fits
  <2> QED BY <2>4, <2>6, TypeInvNext
<1>4. CASE CreateEscalation(p)
  <2> DEFINE m == [mem[p] EXCEPT !.act = made + 1]
  <2>1. made + 1 \in 0 .. MaxEscalations
    BY <1>0, <1>4, ConstantsAssumption DEF CreateEscalation, Rows
  <2>2. m \in Memory /\ m.node \in Nodes
    BY <1>1, <1>2, <2>1, FieldTypes DEF Memory
  <2>3. /\ escSt' \in [EscIds -> {"none", "open", "resolved", "timed_out", "gone"}]
        /\ escNode' \in [EscIds -> Nodes \cup {End}]
    BY <1>0, <1>2, <1>4 DEF CreateEscalation, Rows
  <2>4. Rows'
    BY <1>0, <1>4, <2>1, <2>3
    DEF CreateEscalation, Rows, runVars, grVars, restVars
  <2>5. /\ mem' = [mem EXCEPT ![p] = m]
        /\ Goto(p, "record") \/ Goto(p, "await")
    BY <1>4 DEF CreateEscalation
  <2> HIDE DEF m
  <2>6. Control'
    <3>1. CASE Goto(p, "record")
      BY <1>0, <2>2, <2>5, <3>1, MoveWith DEF ExecutorPCs, NodePCs, Fits
    <3>2. CASE Goto(p, "await")
      BY <1>0, <2>2, <2>5, <3>2, MoveWith DEF ExecutorPCs, NodePCs, Fits
    <3> QED BY <2>5, <3>1, <3>2
  <2> QED BY <2>4, <2>6, TypeInvNext
<1>5. CASE RecordEscalation(p)
  <2>1. mem[p].act \in 0 .. MaxEscalations
    BY <1>1 DEF Memory
  <2>2. /\ ns' \in [Nodes -> [st : {"none", "paused", "completed"},
                              act : 0 .. MaxEscalations]]
        /\ msg' \in [EscIds -> {"none", "open", "answered", "superseded"}]
    <3>1. [ns[mem[p].node] EXCEPT !.act = mem[p].act]
             \in [st : {"none", "paused", "completed"}, act : 0 .. MaxEscalations]
      BY <1>0, <1>2, <2>1 DEF Rows
    <3>2. ns' = [ns EXCEPT ![mem[p].node] =
                    [ns[mem[p].node] EXCEPT !.act = mem[p].act]]
      BY <1>5 DEF RecordEscalation
    <3>3. msg' = [msg EXCEPT ![mem[p].act] = "open"]
      BY <1>5 DEF RecordEscalation
    <3>4. ns' \in [Nodes -> [st : {"none", "paused", "completed"},
                            act : 0 .. MaxEscalations]]
      BY <1>0, <3>1, <3>2 DEF Rows
    <3>5. msg' \in [EscIds -> {"none", "open", "answered", "superseded"}]
      BY <1>0, <3>3 DEF Rows
    <3> QED BY <3>4, <3>5
  <2>3. Rows'
    BY <1>0, <1>5, <2>2 DEF RecordEscalation, Rows, runVars, restVars
  <2>4. Control'
    BY <1>0, <1>2, <1>5, MoveOnly DEF RecordEscalation, ExecutorPCs, NodePCs, Fits
  <2> QED BY <2>3, <2>4, TypeInvNext
<1> QED BY <1>3, <1>4, <1>5

(* The targets of a node are nodes, or the end.                            *)
LEMMA TargetTypes ==
    ASSUME NEW n \in Nodes
    PROVE  /\ FirstTarget(n) \in Nodes \cup {End}
           /\ Successors(n) \subseteq Nodes \cup {End}
<1>1. Targets[n] \in Seq(Nodes \cup {End})
  BY ConstantsAssumption
<1>2. FirstTarget(n) \in Nodes \cup {End}
  <2>1. CASE Targets[n] = <<>>
    BY <2>1 DEF FirstTarget
  <2>2. CASE Targets[n] # <<>>
    <3>1. 1 \in 1 .. Len(Targets[n])
      BY <1>1, <2>2
    <3> QED BY <1>1, <2>2, <3>1 DEF FirstTarget
  <2> QED BY <2>1, <2>2
<1>3. Successors(n) \subseteq Nodes \cup {End}
  BY <1>1 DEF Successors, RangeOf
<1> QED BY <1>2, <1>3

(* Taking an answer leaves a well-formed local state at the same node.     *)
LEMMA ConsumedType ==
    ASSUME NEW m \in Memory, HasAnswer(m)
    PROVE  /\ Consumed(m) \in Memory
           /\ Consumed(m).node = m.node
<1> DEFINE r == IF Recorded(m) THEN m.resumes ELSE Append(m.resumes, m.val)
           v == IF Recorded(m) THEN m.val ELSE NoRequest
<1>1. r \in Seq(Requests)
  <2>1. m.resumes \in Seq(Requests) /\ m.val \in Requests \cup {NoRequest}
    BY DEF Memory
  <2>2. CASE Recorded(m)
    BY <2>1, <2>2
  <2>3. CASE ~Recorded(m)
    BY <2>1, <2>3 DEF HasAnswer
  <2> QED BY <2>2, <2>3
<1>2. v \in Requests \cup {NoRequest}
  BY DEF Memory
<1>3. m.idx + 1 \in Nat
  BY DEF Memory
<1>4. NoEsc \in 0 .. MaxEscalations
  BY ConstantsAssumption DEF NoEsc
<1>5. Consumed(m) = [m EXCEPT !.resumes = r, !.val = v, !.idx = m.idx + 1,
                              !.act = NoEsc]
  BY DEF Consumed, Memory
<1> HIDE DEF r, v
<1> QED BY <1>1, <1>2, <1>3, <1>4, <1>5 DEF Memory

(* Pausing, taking an answer and completing a node keep to the types.      *)
LEMMA AnswerTypes ==
    ASSUME TypeInv, NEW p \in Executors,
           Interrupt(p) \/ TakeAnswer(p) \/ CompleteNode(p)
    PROVE  TypeInv'
<1>0. Rows /\ Control
  BY TypeInvParts
<1>1. mem[p] \in Memory
  BY <1>0 DEF Control
<1>2. mem[p].node \in Nodes
  BY <1>0 DEF Control, NodeAtWork, NodePCs, Fits, Interrupt, TakeAnswer, CompleteNode
<1>3. CASE Interrupt(p)
  <2>1. [ckpt EXCEPT !.resumes = mem[p].resumes] \in Checkpoints
    BY <1>0, <1>1 DEF Rows, Checkpoints, Memory
  <2>2. ckpt' \in Checkpoints
    BY <1>0, <1>3, <2>1 DEF Interrupt, Rows
  <2>3. Rows'
    BY <1>0, <1>3, <2>2 DEF Interrupt, Rows, runVars, escVars, restVars
  <2>4. Control'
    BY <1>0, <1>3, FinishType DEF Interrupt
  <2> QED BY <2>3, <2>4, TypeInvNext
<1>4. CASE TakeAnswer(p)
  <2> DEFINE m == Consumed(mem[p])
  <2>1. m \in Memory /\ m.node \in Nodes
    BY <1>1, <1>2, <1>4, ConsumedType DEF TakeAnswer
  <2>2. Rows'
    BY <1>0, <1>4, RowsUnchanged DEF TakeAnswer
  <2>3. \/ Goto(p, "status") /\ mem' = [mem EXCEPT ![p] = [m EXCEPT !.fin = "failed"]]
        \/ Goto(p, "ask") /\ mem' = [mem EXCEPT ![p] = m]
        \/ Goto(p, "ask") /\ mem' = [mem EXCEPT ![p] = [m EXCEPT !.phase = "route"]]
        \/ /\ Goto(p, "complete")
           /\ \E t \in {FirstTarget(m.node)} \cup Successors(m.node) :
                 mem' = [mem EXCEPT ![p] = [m EXCEPT !.next = t]]
    BY <1>4 DEF TakeAnswer
  <2> HIDE DEF m
  <2>4. CASE Goto(p, "status") /\ mem' = [mem EXCEPT ![p] = [m EXCEPT !.fin = "failed"]]
    <3> DEFINE f == [m EXCEPT !.fin = "failed"]
    <3>1. f \in Memory /\ f.fin = "failed"
      BY <2>1, FieldTypes DEF Memory
    <3> HIDE DEF f
    <3>2. Control'
      BY <1>0, <2>4, <3>1, MoveWith DEF ExecutorPCs, NodePCs, Fits, f
    <3> QED BY <2>2, <3>2, TypeInvNext
  <2>5. CASE Goto(p, "ask") /\ mem' = [mem EXCEPT ![p] = m]
    <3>1. Control'
      BY <1>0, <2>1, <2>5, MoveWith DEF ExecutorPCs, NodePCs, Fits
    <3> QED BY <2>2, <3>1, TypeInvNext
  <2>6. CASE Goto(p, "ask") /\ mem' = [mem EXCEPT ![p] = [m EXCEPT !.phase = "route"]]
    <3> DEFINE f == [m EXCEPT !.phase = "route"]
    <3>1. f \in Memory /\ f.node \in Nodes
      BY <2>1, FieldTypes DEF Memory
    <3> HIDE DEF f
    <3>2. Control'
      BY <1>0, <2>6, <3>1, MoveWith DEF ExecutorPCs, NodePCs, Fits, f
    <3> QED BY <2>2, <3>2, TypeInvNext
  <2>7. CASE /\ Goto(p, "complete")
             /\ \E t \in {FirstTarget(m.node)} \cup Successors(m.node) :
                   mem' = [mem EXCEPT ![p] = [m EXCEPT !.next = t]]
    <3>1. PICK t \in {FirstTarget(m.node)} \cup Successors(m.node) :
             mem' = [mem EXCEPT ![p] = [m EXCEPT !.next = t]]
      BY <2>7
    <3> DEFINE f == [m EXCEPT !.next = t]
    <3>2. t \in Nodes \cup {End}
      BY <2>1, TargetTypes
    <3>3. f \in Memory /\ f.node \in Nodes
      BY <2>1, <3>2, FieldTypes DEF Memory
    <3>4. mem' = [mem EXCEPT ![p] = f]
      BY <3>1
    <3> HIDE DEF f
    <3>5. Control'
      BY <1>0, <2>7, <3>3, <3>4, MoveWith DEF ExecutorPCs, NodePCs, Fits
    <3> QED BY <2>2, <3>5, TypeInvNext
  <2> QED BY <2>3, <2>4, <2>5, <2>6, <2>7
<1>5. CASE CompleteNode(p)
  <2> DEFINE counted == [mem[p].visits EXCEPT ![mem[p].node] = @ + 1]
             next == mem[p].next
             m == [Idle EXCEPT !.node = next, !.visits = counted,
                               !.fin = IF next = End THEN "completed" ELSE "none"]
  <2>1. counted \in [Nodes -> Nat] /\ next \in Nodes \cup {End}
    BY <1>1, <1>2 DEF Memory
  <2>2. /\ m \in Memory
        /\ m.node = next
        /\ next = End => m.fin = "completed"
    <3> HIDE DEF counted, next
    <3> QED BY <2>1, IdleType DEF Memory
  <2>3. /\ ckpt' = [node |-> next, visits |-> counted, resumes |-> <<>>]
        /\ insync' = {p}
        /\ mem' = [mem EXCEPT ![p] = m]
        /\ Goto(p, IF next = End THEN "persist" ELSE "ask")
    BY <1>5 DEF CompleteNode
  <2>4. ns' \in [Nodes -> [st : {"none", "paused", "completed"},
                          act : 0 .. MaxEscalations]]
    <3>1. [st |-> "completed", act |-> NoEsc]
             \in [st : {"none", "paused", "completed"}, act : 0 .. MaxEscalations]
      BY ConstantsAssumption DEF NoEsc
    <3>2. \/ UNCHANGED ns
          \/ ns' = [ns EXCEPT ![mem[p].node] = [st |-> "completed", act |-> NoEsc]]
      BY <1>5 DEF CompleteNode
    <3> QED BY <1>0, <3>1, <3>2 DEF Rows
  <2> HIDE DEF m, counted, next
  <2>5. ckpt' \in Checkpoints
    <3>1. <<>> \in Seq(Requests)
      OBVIOUS
    <3> QED BY <2>1, <2>3, <3>1 DEF Checkpoints
  <2>6. Rows'
    BY <1>0, <1>5, <2>3, <2>4, <2>5 DEF CompleteNode, Rows, runVars, escVars, restVars
  <2>7. Control'
    <3>1. CASE next = End
      BY <1>0, <2>2, <2>3, <3>1, MoveWith DEF ExecutorPCs, NodePCs, Fits
    <3>2. CASE next # End
      BY <1>0, <2>1, <2>2, <2>3, <3>2, MoveWith DEF ExecutorPCs, NodePCs, Fits
    <3> QED BY <3>1, <3>2
  <2> QED BY <2>6, <2>7, TypeInvNext
<1> QED BY <1>3, <1>4, <1>5

(* The end of an execution keeps to the types.                             *)
LEMMA EndingTypes ==
    ASSUME TypeInv, NEW p \in Executors,
           PersistOutput(p) \/ ReadRunStatus(p) \/ UpdateRunStatus(p)
    PROVE  TypeInv'
<1>0. Rows /\ Control
  BY TypeInvParts
<1>1. CASE PersistOutput(p)
  <2>1. Rows'
    BY <1>0, <1>1 DEF PersistOutput, Rows, escVars, grVars, restVars
  <2>2. Control'
    <3>1. mem[p].fin = "completed"
      BY <1>0, <1>1 DEF PersistOutput, Control, NodeAtWork, Fits
    <3> QED BY <1>0, <1>1, <3>1, MoveOnly
            DEF PersistOutput, ExecutorPCs, NodePCs, Fits
  <2> QED BY <2>1, <2>2, TypeInvNext
<1>2. CASE ReadRunStatus(p)
  <2>1. Rows'
    BY <1>0, <1>2 DEF ReadRunStatus, Rows, runVars, escVars, restVars
  <2>2. \/ Goto(p, "done") /\ mem' = [mem EXCEPT ![p] = Idle]
        \/ Goto(p, "write") /\ UNCHANGED mem
    BY <1>2 DEF ReadRunStatus
  <2>3. Control'
    <3>1. CASE Goto(p, "done") /\ mem' = [mem EXCEPT ![p] = Idle]
      BY <1>0, <3>1, IdleType, MoveWith DEF ExecutorPCs, NodePCs, Fits
    <3>2. CASE Goto(p, "write") /\ UNCHANGED mem
      <4>1. mem[p].fin # "none"
        BY <1>0, <1>2 DEF ReadRunStatus, Control, NodeAtWork, Fits
      <4> QED BY <1>0, <3>2, <4>1, MoveOnly DEF ExecutorPCs, NodePCs, Fits
    <3> QED BY <2>2, <3>1, <3>2
  <2> QED BY <2>1, <2>3, TypeInvNext
<1>3. CASE UpdateRunStatus(p)
  <2>1. mem[p].fin \in {"paused", "completed", "failed"}
    BY <1>0, <1>3 DEF UpdateRunStatus, Control, NodeAtWork, Fits, Memory
  <2>2. Rows'
    BY <1>0, <1>3, <2>1 DEF UpdateRunStatus, Rows, Statuses, Terminal, escVars, restVars
  <2>3. Control'
    BY <1>0, <1>3, IdleType, MoveWith DEF UpdateRunStatus, ExecutorPCs, NodePCs, Fits
  <2> QED BY <2>2, <2>3, TypeInvNext
<1> QED BY <1>1, <1>2, <1>3

(* Executors that are put to rest need nothing of their local state.       *)
LEMMA MoveOff ==
    ASSUME Control,
           pc' \in [Executors -> ExecutorPCs],
           mem' \in [Executors -> Memory],
           \A r \in Executors : \/ pc'[r] = pc[r] /\ mem'[r] = mem[r]
                               \/ pc'[r] \in {"off", "queued", "sleep", "done"}
    PROVE  Control'
<1>1. ASSUME NEW r \in Executors PROVE Fits(pc'[r], mem'[r])
  <2>1. CASE pc'[r] = pc[r] /\ mem'[r] = mem[r]
    BY <2>1 DEF Control, NodeAtWork
  <2>2. CASE pc'[r] \in {"off", "queued", "sleep", "done"}
    BY <2>2 DEF Fits, NodePCs
  <2> QED BY <2>1, <2>2
<1> QED BY <1>1 DEF Control, NodeAtWork

(* Handling an answer keeps to the types.                                  *)
LEMMA HandlingTypes ==
    ASSUME TypeInv, NEW q \in Requests, Handling(q)
    PROVE  TypeInv'
<1>0. Rows /\ Control
  BY TypeInvParts
<1>1. ResumeJob(q) \in Executors /\ Fallback(q) \in Executors
  BY ExecutorFacts
<1>2. Answered(q) \in [EscIds -> {"none", "open", "answered", "superseded"}]
  BY <1>0 DEF Answered, Rows
<1>3. \A l \in RequestPCs :
         [req EXCEPT ![q].pc = l]
            \in [Requests -> [pc : RequestPCs, esc : 0 .. MaxEscalations,
                             kind : AllKinds, via : AllVias]]
  BY <1>0 DEF Rows
<1>4. CASE ResolveEscalation(q)
  <2>1. escSt' \in [EscIds -> {"none", "open", "resolved", "timed_out", "gone"}]
    BY <1>0, <1>4 DEF ResolveEscalation, Rows
  <2>2. Rows'
    BY <1>0, <1>3, <1>4, <2>1
    DEF ResolveEscalation, Rows, RequestPCs, runVars, grVars, restVars
  <2>3. Control'
    BY <1>0, <1>4, NoMove DEF ResolveEscalation
  <2> QED BY <2>2, <2>3, TypeInvNext
<1>5. CASE EnqueueRunResume(q)
  <2>1. Rows'
    BY <1>0, <1>2, <1>3, <1>5
    DEF EnqueueRunResume, Rows, RequestPCs, runVars, grVars, restVars
  <2>2. pc' \in [Executors -> ExecutorPCs]
    BY <1>0, <1>5 DEF EnqueueRunResume, Control, ExecutorPCs
  <2>3. \A r \in Executors : pc'[r] = pc[r] \/ pc'[r] \in {"queued", "sleep"}
    BY <1>0, <1>1, <1>5 DEF EnqueueRunResume, Control
  <2>4. Control'
    BY <1>0, <1>5, <2>2, <2>3, MoveOff DEF EnqueueRunResume, Control
  <2> QED BY <2>1, <2>4, TypeInvNext
<1>6. CASE AbortFromEscalation(q)
  <2>1. Rows'
    BY <1>0, <1>2, <1>3, <1>6
    DEF AbortFromEscalation, Rows, RequestPCs, runVars, grVars, restVars
  <2>2. Control'
    BY <1>0, <1>6, NoMove DEF AbortFromEscalation
  <2> QED BY <2>1, <2>2, TypeInvNext
<1>7. CASE StopRun(q)
  <2>1. Rows'
    BY <1>0, <1>2, <1>3, <1>7
    DEF StopRun, Rows, RequestPCs, Statuses, Terminal, grVars, restVars
  <2>2. Control'
    BY <1>0, <1>7, NoMove DEF StopRun
  <2> QED BY <2>1, <2>2, TypeInvNext
<1>8. CASE EnqueueFromEndpoint(q)
  <2>1. Rows'
    BY <1>0, <1>3, <1>8
    DEF EnqueueFromEndpoint, Rows, RequestPCs, runVars, escVars, grVars, restVars
  <2>2. PICK l \in {"queued", "off"} : Goto(ResumeJob(q), l)
    BY <1>8 DEF EnqueueFromEndpoint
  <2>3. Control'
    BY <1>0, <1>1, <1>8, <2>2, MoveOnly
    DEF EnqueueFromEndpoint, ExecutorPCs, NodePCs, Fits
  <2> QED BY <2>1, <2>3, TypeInvNext
<1>9. CASE ResumeIfStillPaused(q)
  <2>1. Rows'
    BY <1>0, <1>9, RowsUnchanged DEF ResumeIfStillPaused
  <2>2. PICK l \in {"queued", "done"} : Goto(Fallback(q), l)
    BY <1>9 DEF ResumeIfStillPaused
  <2>3. Control'
    BY <1>0, <1>1, <1>9, <2>2, MoveOnly
    DEF ResumeIfStillPaused, ExecutorPCs, NodePCs, Fits
  <2> QED BY <2>1, <2>3, TypeInvNext
<1> QED BY <1>4, <1>5, <1>6, <1>7, <1>8, <1>9 DEF Handling

(* What people do keeps to the types.                                      *)
LEMMA PeopleTypes == ASSUME TypeInv, People PROVE TypeInv'
<1>0. Rows /\ Control
  BY TypeInvParts
<1> DEFINE Requested == [Requests -> [pc : RequestPCs, esc : 0 .. MaxEscalations,
                                      kind : AllKinds, via : AllVias]]
<1>1. \A q \in Requests, e \in 0 .. MaxEscalations, k \in AllKinds, v \in AllVias :
         \A l \in RequestPCs :
            [req EXCEPT ![q] = [pc |-> l, esc |-> e, kind |-> k, via |-> v]]
               \in Requested
  BY <1>0 DEF Rows
<1>2. Kinds \subseteq AllKinds /\ Vias \subseteq AllVias
  BY ConstantsAssumption
<1>3. NoEsc \in 0 .. MaxEscalations /\ EscIds \subseteq 0 .. MaxEscalations
  BY ConstantsAssumption DEF NoEsc, EscIds
<1>4. ASSUME NEW q \in Requests, NEW e \in EscIds, LookAtEscalation(q, e)
      PROVE  TypeInv'
  <2>1. req' \in Requested
    BY <1>1, <1>2, <1>3, <1>4 DEF LookAtEscalation, RequestPCs
  <2>2. Rows'
    BY <1>0, <1>4, <2>1
    DEF LookAtEscalation, Rows, runVars, escVars, grVars, restVars
  <2>3. Control'
    BY <1>0, <1>4, NoMove DEF LookAtEscalation
  <2> QED BY <2>2, <2>3, TypeInvNext
<1>5. ASSUME NEW q \in Requests, ResumeEndpoint(q) PROVE TypeInv'
  <2>1. req' \in Requested
    BY <1>1, <1>2, <1>3, <1>5 DEF ResumeEndpoint, RequestPCs, AllVias
  <2>2. Rows'
    BY <1>0, <1>5, <2>1
    DEF ResumeEndpoint, Rows, runVars, escVars, grVars, restVars
  <2>3. Control'
    BY <1>0, <1>5, NoMove DEF ResumeEndpoint
  <2> QED BY <2>2, <2>3, TypeInvNext
<1>6. ASSUME NEW q \in Requests, AbortEndpoint(q) PROVE TypeInv'
  <2>1. req' \in Requested
    BY <1>1, <1>3, <1>6 DEF AbortEndpoint, RequestPCs, AllVias, AllKinds
  <2>2. Rows'
    BY <1>0, <1>6, <2>1
    DEF AbortEndpoint, Rows, runVars, escVars, grVars, restVars
  <2>3. Control'
    BY <1>0, <1>6, NoMove DEF AbortEndpoint
  <2> QED BY <2>2, <2>3, TypeInvNext
<1>7. CASE CheckDeletable
  <2>1. Rows'
    BY <1>0, <1>7 DEF CheckDeletable, Rows, runVars, escVars, grVars
  <2>2. Control'
    BY <1>0, <1>7, NoMove DEF CheckDeletable
  <2> QED BY <2>1, <2>2, TypeInvNext
<1> QED BY <1>4, <1>5, <1>6, <1>7 DEF People

(* The sweep and the deletion keep to the types.                           *)
LEMMA SweepTypes == ASSUME TypeInv, FindExpired \/ Sweep \/ DeleteRun PROVE TypeInv'
<1>0. Rows /\ Control
  BY TypeInvParts
<1>1. Control'
  BY <1>0, NoMove DEF FindExpired, Sweep, TimeoutOpenEscalations,
                      CheckTimedOutRun, StopTimedOutRun, DeleteRun
<1>2. \A l \in SweepPCs, S \in SUBSET EscIds :
         Sweeping(l, S) => sweep' \in [pc : SweepPCs, set : SUBSET EscIds]
  BY DEF Sweeping
<1>3. CASE FindExpired
  <2>1. Rows'
    BY <1>0, <1>2, <1>3 DEF FindExpired, Rows, Expirable, OpenEscs, SweepPCs,
                            runVars, escVars, grVars
  <2> QED BY <1>1, <2>1, TypeInvNext
<1>4. CASE TimeoutOpenEscalations
  <2>1. escSt' \in [EscIds -> {"none", "open", "resolved", "timed_out", "gone"}]
    BY <1>0, <1>4 DEF TimeoutOpenEscalations, Rows
  <2>2. Rows'
    BY <1>0, <1>2, <1>4, <2>1
    DEF TimeoutOpenEscalations, Rows, SweepPCs, runVars, grVars
  <2> QED BY <1>1, <2>2, TypeInvNext
<1>5. CASE CheckTimedOutRun
  <2>1. Rows'
    BY <1>0, <1>2, <1>5
    DEF CheckTimedOutRun, Rows, SweepPCs, runVars, escVars, grVars
  <2> QED BY <1>1, <2>1, TypeInvNext
<1>6. CASE StopTimedOutRun
  <2>1. Rows'
    BY <1>0, <1>2, <1>6
    DEF StopTimedOutRun, Rows, SweepPCs, Statuses, Terminal, escVars, grVars
  <2> QED BY <1>1, <2>1, TypeInvNext
<1>7. CASE DeleteRun
  <2>1. escSt' \in [EscIds -> {"none", "open", "resolved", "timed_out", "gone"}]
    BY <1>0, <1>7 DEF DeleteRun, Rows
  <2>2. ns' \in [Nodes -> [st : {"none", "paused", "completed"},
                          act : 0 .. MaxEscalations]]
    BY <1>0, <1>7, ConstantsAssumption DEF DeleteRun, Rows, NoEsc
  <2>3. Rows'
    BY <1>0, <1>7, <2>1, <2>2 DEF DeleteRun, Rows, Statuses, runVars
  <2> QED BY <1>1, <2>3, TypeInvNext
<1> QED BY <1>3, <1>4, <1>5, <1>6, <1>7 DEF Sweep

(* A crash keeps to the types.                                             *)
LEMMA CrashTypes == ASSUME TypeInv, WorkerCrash \/ ApiCrash PROVE TypeInv'
<1>0. Rows /\ Control
  BY TypeInvParts
<1>1. CASE WorkerCrash
  <2>1. Rows'
    <3>1. crashes' \in 0 .. MaxCrashes
      BY <1>0, <1>1, ConstantsAssumption DEF WorkerCrash, Rows
    <3> QED BY <1>0, <1>1, <3>1 DEF WorkerCrash, Rows, Sweeping, SweepPCs, runVars, escVars
  <2>2. pc' \in [Executors -> ExecutorPCs] /\ mem' \in [Executors -> Memory]
    BY <1>0, <1>1, IdleType DEF WorkerCrash, Control, ExecutorPCs
  <2>3. \A r \in Executors : \/ pc'[r] = pc[r] /\ mem'[r] = mem[r]
                            \/ pc'[r] \in {"off", "queued", "sleep", "done"}
    BY <1>0, <1>1 DEF WorkerCrash, Control, Active, WorkerJobs
  <2>4. Control'
    BY <1>0, <2>2, <2>3, MoveOff
  <2> QED BY <2>1, <2>4, TypeInvNext
<1>2. CASE ApiCrash
  <2>1. req' \in [Requests -> [pc : RequestPCs, esc : 0 .. MaxEscalations,
                              kind : AllKinds, via : AllVias]]
    BY <1>0, <1>2 DEF ApiCrash, Rows, RequestPCs
  <2>2. Rows'
    <3>1. crashes' \in 0 .. MaxCrashes
      BY <1>0, <1>2, ConstantsAssumption DEF ApiCrash, Rows
    <3> QED BY <1>0, <1>2, <2>1, <3>1 DEF ApiCrash, Rows, runVars, escVars
  <2>3. pc' \in [Executors -> ExecutorPCs] /\ mem' \in [Executors -> Memory]
    BY <1>0, <1>2, IdleType DEF ApiCrash, Control, ExecutorPCs
  <2>4. \A r \in Executors : \/ pc'[r] = pc[r] /\ mem'[r] = mem[r]
                            \/ pc'[r] \in {"off", "queued", "sleep", "done"}
    BY <1>0, <1>2 DEF ApiCrash, Control, Busy
  <2>5. Control'
    BY <1>0, <2>3, <2>4, MoveOff
  <2> QED BY <2>2, <2>5, TypeInvNext
<1> QED BY <1>1, <1>2

(* Every step keeps to the types.                                          *)
LEMMA NextTypeInv == TypeInv /\ [Next]_vars => TypeInv'
<1> SUFFICES ASSUME TypeInv, [Next]_vars PROVE TypeInv'
  OBVIOUS
<1>1. CASE Starting
  BY <1>1, StartingTypes
<1>2. ASSUME NEW p \in Executors, Driving(p) PROVE TypeInv'
  BY <1>2, ResumingTypes, AskTypes, EscalationTypes, AnswerTypes, EndingTypes
  DEF Driving, NodeStep
<1>3. CASE \E q \in Requests : Handling(q)
  BY <1>3, HandlingTypes
<1>4. CASE People
  BY <1>4, PeopleTypes
<1>5. CASE FindExpired \/ Sweep \/ DeleteRun
  BY <1>5, SweepTypes
<1>6. CASE Faults
  BY <1>6, CrashTypes, AskTypes DEF Faults
<1>7. CASE UNCHANGED vars
  BY <1>7 DEF vars, TypeInv, TypeOK, NodeAtWork
<1> QED BY <1>1, <1>2, <1>3, <1>4, <1>5, <1>6, <1>7 DEF Next

(* Every row and every local state keeps to the values the code writes, in *)
(* every workflow.                                                         *)
THEOREM TypeCorrect == Spec => []TypeOK
<1>1. TypeInv => TypeOK
  BY DEF TypeInv
<1> QED BY <1>1, InitTypeInv, NextTypeInv, PTL DEF Spec
=============================================================================
