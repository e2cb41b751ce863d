------------------------- MODULE RunContractProofs -------------------------
(***************************************************************************)
(* RunLifecycle implements RunContract, for every workflow and any number  *)
(* of answers and escalations, where people answer a run at rest, the      *)
(* queue is prompt, no deadline passes, no process crashes and nobody      *)
(* resumes the run beside its escalations.  On the way: an answer reaches  *)
(* the node that asked, is used once, and a paused run can be answered.    *)
(***************************************************************************)
EXTENDS RunSafetyProofs, RunAnswerProofs

(* The setting of the results below.                                       *)
InTime == /\ Patient /\ Prompt /\ ~Deadlines
          /\ MaxCrashes = 0
          /\ "resume_api" \notin Vias

Driven(p) == pc[p] \in NodePCs
Poised(p) == pc[p] \in {"queued", "loaded"}
Answerable == \E e \in OpenEscs : escNode[e] = ckpt.node

(* Before its first job the run has done nothing; deleted, it shows        *)
(* nothing.                                                                *)
EndsInv ==
    /\ sweep.pc = "idle"
    /\ pc[ExecuteJob] \in {"off", "queued", "loaded"} =>
          /\ status \in {"absent", "queued", "deleted"}
          /\ \A n \in Nodes : ns[n].st # "paused"
    /\ pc[ExecuteJob] # "off" => status # "absent"
    /\ status = "deleted" => ~output /\ \A n \in Nodes : ns[n].st # "paused"
    /\ deleting # NotDeleting => status \notin {"absent", "deleted"}

(* A run is running exactly while somebody drives it, and an output that   *)
(* is out before the status says so has somebody about to say so.          *)
WorkInv ==
    /\ \A p \in Executors : Active(p) => status \in {"running", "deleted"}
    /\ status = "running" => \E p \in Executors : Active(p)
    /\ output => status = "completed" \/ \E p \in Executors : Finished(p)

(* Only the node the checkpoint stands at is paused; a node entered in     *)
(* that state is entered with an answer.                                   *)
PlaceInv ==
    /\ \A p \in Executors : Driven(p) => mem[p].node = ckpt.node
    /\ \A n \in Nodes : ns[n].st = "paused" => n = ckpt.node
    /\ \A p \in Executors :
          pc[p] = "ask" /\ Entering(mem[p]) /\ ns[mem[p].node].st = "paused"
             => HasAnswer(mem[p])

(* Whoever is about to pause the run has put a question, and the question  *)
(* stays until somebody deals with it.                                     *)
Asking(p) ==
    \/ pc[p] = "record"
    \/ pc[p] = "await" /\ ~HasAnswer(mem[p])
    \/ pc[p] \in {"status", "write"} /\ mem[p].fin = "paused"

Pending == \/ \E q \in Requests : InFlight(q)
           \/ \E p \in Executors : Poised(p)

AskInv ==
    /\ \A p \in Executors : Asking(p) => Answerable \/ status = "deleted"
    /\ status = "paused" => Answerable \/ (OpenEscs = {} /\ Pending)

(* An answer is given to the one open escalation, which is closed before   *)
(* the run is resumed or stopped.                                          *)
Handed(q) ==
    /\ req[q].pc = "checked" =>
          /\ req[q].esc \in EscIds
          /\ OpenEscs \subseteq {req[q].esc}
          /\ escSt[req[q].esc] = "open" \/ status = "deleted"
    /\ req[q].pc \in {"committed", "stopping"} =>
          req[q].esc # NoEsc /\ OpenEscs = {}
    /\ req[q].pc = "stopping" => status \in {"paused", "deleted"}
    /\ InFlight(q) /\ status = "paused" => escNode[req[q].esc] = ckpt.node

Readied(p) ==
    Poised(p) /\ p # ExecuteJob =>
       /\ OpenEscs = {}
       /\ req[p[2]].pc = "done" /\ req[p[2]].esc # NoEsc
       /\ pc[p] = "loaded" => status \in {"paused", "deleted"}
       /\ status = "paused" => escNode[req[p[2]].esc] = ckpt.node

HandInv == /\ \A q \in Requests : Handed(q)
           /\ \A p \in Executors : Readied(p)

(* The answer in hand is the executor's own, is meant for the node, and    *)
(* was not used before.                                                    *)
Spent(q) == /\ req[q].pc = "done"
            /\ ~Poised(ResumeJob(q)) /\ ~Poised(Fallback(q))

Carries(p) ==
    Driven(p) =>
       /\ \A q \in RangeOf(mem[p].resumes) : Spent(q)
       /\ mem[p].val # NoRequest =>
             /\ p # ExecuteJob /\ mem[p].val = p[2]
             /\ req[p[2]].pc = "done" /\ req[p[2]].esc # NoEsc
             /\ escNode[req[p[2]].esc] = mem[p].node
             /\ p[2] \notin RangeOf(mem[p].resumes)

UseInv == /\ \A q \in RangeOf(ckpt.resumes) : Spent(q)
          /\ \A p \in Executors : Carries(p)

ContractInv == EndsInv /\ WorkInv /\ PlaceInv /\ AskInv /\ HandInv /\ UseInv

(* What is known besides, from the proofs this one builds on.              *)
KnownInv == TypeInv /\ DriverInv /\ QuestionInv /\ OutputInv /\ AnswerInv

-----------------------------------------------------------------------------
(* Whoever is awake is alone.                                              *)

Resting(p) == pc[p] \in {"off", "done", "sleep"}

(* An executor at rest has no part in the invariant.                       *)
LEMMA RestingHasNoPart ==
    ASSUME NEW p \in Executors, Resting(p)
    PROVE  /\ ~Active(p) /\ ~Driven(p) /\ ~Poised(p) /\ ~Asking(p)
           /\ ~Finished(p) /\ pc[p] # "ask"
BY DEF Resting, Active, Driven, Poised, Asking, Finished, NodePCs

(* What surrounds an executor that is awake.                               *)
LEMMA Alone ==
    ASSUME KnownInv, NEW p \in Executors, ~Resting(p)
    PROVE  /\ \A r \in Executors : r # p => Resting(r)
           /\ \A q \in Requests : ~InFlight(q)
           /\ pc[ExecuteJob] # "off"
           /\ pc[ExecuteJob] \in {"queued", "loaded"} => p = ExecuteJob
<1>1. pc \in [Executors -> ExecutorPCs]
  BY DEF KnownInv, TypeInv, TypeOK
<1>2. \A r \in Executors : r # p => Resting(r)
  BY DEF KnownInv, DriverInv, AwakeAlone, Awake, Resting
<1>3. Busy(p)
  BY DEF Busy, Resting
<1>4. (\A q \in Requests : ~InFlight(q)) /\ pc[ExecuteJob] # "off"
  BY <1>3 DEF KnownInv, DriverInv, HandledAtRest, QuietAtFirst
<1> QED BY <1>2, <1>4, ExecutorFacts DEF Resting

(* Somebody inside a node: the run is running, or deleted, and shows no    *)
(* output yet.                                                             *)
LEMMA InsideNode ==
    ASSUME KnownInv, ContractInv, NEW p \in Executors, Driven(p)
    PROVE  /\ ~Resting(p) /\ Active(p)
           /\ status \in {"running", "deleted"} /\ ~output
           /\ mem[p] \in Memory /\ mem[p].node \in Nodes
           /\ mem[p].node = ckpt.node
           /\ pc[ExecuteJob] \notin {"off", "queued", "loaded"}
<1>1. ~Resting(p) /\ Active(p) /\ ~Finished(p)
  BY DEF Driven, NodePCs, Resting, Active, Finished
<1>2. \A r \in Executors : ~Finished(r)
  BY <1>1, Alone, RestingHasNoPart
<1>3. status \in {"running", "deleted"}
  BY <1>1 DEF ContractInv, WorkInv
<1>4. ~output
  BY <1>2, <1>3 DEF ContractInv, WorkInv
<1>5. mem[p] \in Memory /\ mem[p].node \in Nodes /\ mem[p].node = ckpt.node
  BY DEF Driven, KnownInv, TypeInv, TypeOK, NodeAtWork, Fits, ContractInv, PlaceInv
<1>6. pc[ExecuteJob] \notin {"off", "queued", "loaded"}
  BY <1>1, Alone DEF Driven, NodePCs
<1> QED BY <1>1, <1>3, <1>4, <1>5, <1>6

(* A step of an executor inside a node: what has to be shown of it.        *)
LEMMA NodeKept ==
    ASSUME KnownInv, ContractInv, NEW p \in Executors, Driven(p),
           NEW l \in NodePCs \cup {"persist", "status"}, Goto(p, l),
           NEW m, mem' = [mem EXCEPT ![p] = m],
           UNCHANGED <<runVars, req, restVars>>,
           status = "deleted" => \A n \in Nodes : ns'[n].st # "paused",
           \A n \in Nodes : ns'[n].st = "paused" => n = ckpt'.node,
           l \in NodePCs => m.node = ckpt'.node,
           l = "ask" /\ Entering(m) => ns'[m.node].st # "paused" \/ HasAnswer(m),
           Asking(p)' => Answerable' \/ status = "deleted",
           \A q \in RangeOf(ckpt'.resumes) :
              q \in RangeOf(ckpt.resumes) \cup RangeOf(mem[p].resumes),
           l \in NodePCs => \A q \in RangeOf(m.resumes) :
              \/ q \in RangeOf(mem[p].resumes)
              \/ q = mem[p].val /\ q # NoRequest,
           l \in NodePCs /\ m.val # NoRequest =>
              /\ m.val = mem[p].val /\ m.node = mem[p].node
              /\ \A q \in RangeOf(m.resumes) : q \in RangeOf(mem[p].resumes),
           \A e \in EscIds : e <= made => escNode'[e] = escNode[e]
    PROVE  ContractInv'
<1>0. /\ pc \in [Executors -> ExecutorPCs] /\ mem \in [Executors -> Memory]
      /\ req \in [Requests -> [pc : RequestPCs, esc : 0 .. MaxEscalations,
                               kind : AllKinds, via : AllVias]]
  BY DEF KnownInv, TypeInv, TypeOK
<1>1. /\ ~Resting(p) /\ Active(p)
      /\ status \in {"running", "deleted"} /\ ~output
      /\ pc[ExecuteJob] \notin {"off", "queued", "loaded"}
  BY InsideNode
<1>2. /\ \A r \in Executors : r # p => Resting(r)
      /\ \A q \in Requests : ~InFlight(q)
  BY <1>1, Alone
<1>3. /\ pc'[p] = l /\ mem'[p] = m
      /\ \A r \in Executors : r # p => pc'[r] = pc[r] /\ mem'[r] = mem[r]
  BY <1>0 DEF Goto
<1>4. \A r \in Executors : r # p =>
         /\ ~Active(r)' /\ ~Driven(r)' /\ ~Poised(r)' /\ ~Asking(r)'
         /\ pc'[r] # "ask"
  BY <1>2, <1>3 DEF Resting, Active, Driven, Poised, Asking, NodePCs
<1>5. Active(p)' /\ ~Poised(p)'
  BY <1>3 DEF Active, Poised, NodePCs
<1>6. \A q \in Requests : ~InFlight(q)' /\ req'[q] = req[q]
  BY <1>2 DEF InFlight
<1>7. EndsInv'
  <2>1. pc'[ExecuteJob] \notin {"off", "queued", "loaded"}
    BY <1>1, <1>3, ExecutorFacts DEF NodePCs
  <2> QED BY <1>1, <2>1 DEF ContractInv, EndsInv, runVars, restVars
<1>8. WorkInv'
  BY <1>1, <1>4, <1>5 DEF ContractInv, WorkInv, runVars
<1>9. PlaceInv'
  BY <1>3, <1>4 DEF PlaceInv, Driven
<1>10. AskInv'
  BY <1>1, <1>4 DEF AskInv, runVars
<1>11. HandInv'
  BY <1>4, <1>5, <1>6 DEF HandInv, Handed, Readied, InFlight
<1>12. UseInv'
  <2>1. ASSUME NEW q \in Requests, Spent(q) PROVE Spent(q)'
    <3>1. ~Poised(ResumeJob(q))' /\ ~Poised(Fallback(q))'
      BY <1>4, <1>5, ExecutorFacts
    <3> QED BY <1>6, <2>1, <3>1 DEF Spent
  <2>2. \A q \in RangeOf(ckpt.resumes) \cup RangeOf(mem[p].resumes) :
           q \in Requests /\ Spent(q)
    <3>1. ckpt.resumes \in Seq(Requests) /\ mem[p].resumes \in Seq(Requests)
      BY <1>0 DEF KnownInv, TypeInv, TypeOK, Checkpoints, Memory
    <3> QED BY <3>1 DEF ContractInv, UseInv, Carries, RangeOf
  <2>3. \A q \in RangeOf(ckpt'.resumes) : Spent(q)'
    BY <2>1, <2>2
  <2>4. l \in NodePCs => Carries(p)'
    <3> SUFFICES ASSUME l \in NodePCs PROVE Carries(p)'
      OBVIOUS
    <3>1. mem[p].val # NoRequest =>
             /\ p # ExecuteJob /\ mem[p].val = p[2] /\ p[2] \in Requests
             /\ req[p[2]].pc = "done" /\ req[p[2]].esc # NoEsc
             /\ escNode[req[p[2]].esc] = mem[p].node
             /\ p[2] \notin RangeOf(mem[p].resumes)
      BY ExecutorFacts DEF ContractInv, UseInv, Carries
    <3>2. ASSUME NEW q \in RangeOf(m.resumes) PROVE Spent(q)'
      <4>1. CASE q \in RangeOf(mem[p].resumes)
        BY <2>1, <2>2, <4>1
      <4>2. CASE q = mem[p].val /\ q # NoRequest
        <5>1. q \in Requests /\ req'[q].pc = "done"
          BY <1>6, <3>1, <4>2
        <5>2. ~Poised(ResumeJob(q))' /\ ~Poised(Fallback(q))'
          BY <1>4, <1>5, <5>1, ExecutorFacts
        <5> QED BY <5>1, <5>2 DEF Spent
      <4> QED BY <3>2, <4>1, <4>2
    <3>3. ASSUME m.val # NoRequest
          PROVE  escNode'[req'[p[2]].esc] = m.node
      <4>1. req[p[2]].esc \in EscIds /\ req[p[2]].esc <= made
        BY <1>0, <3>1, <3>3, ConstantsAssumption
        DEF KnownInv, AnswerInv, Known, EscIds, NoEsc
      <4> QED BY <1>6, <3>1, <3>3, <4>1
    <3> QED BY <1>3, <1>6, <3>1, <3>2, <3>3 DEF Carries
  <2>5. \A r \in Executors : Carries(r)'
    BY <1>3, <1>4, <2>4 DEF Carries, Driven
  <2> QED BY <2>3, <2>5 DEF UseInv
<1> QED BY <1>7, <1>8, <1>9, <1>10, <1>11, <1>12 DEF ContractInv

(* A step inside a node that stays at its node and takes no answer.        *)
LEMMA NodeStays ==
    ASSUME KnownInv, ContractInv, NEW p \in Executors, Driven(p),
           NEW l \in (NodePCs \ {"ask"}) \cup {"status"}, Goto(p, l),
           NEW m, mem' = [mem EXCEPT ![p] = m],
           m.node = mem[p].node, m.val = mem[p].val, m.resumes = mem[p].resumes,
           UNCHANGED <<runVars, req, restVars>>,
           \A n \in Nodes : ns'[n].st = ns[n].st,
           ckpt' = ckpt \/ ckpt' = [ckpt EXCEPT !.resumes = mem[p].resumes],
           Asking(p)' => Answerable' \/ status = "deleted",
           \A e \in EscIds : e <= made => escNode'[e] = escNode[e]
    PROVE  ContractInv'
<1>1. mem[p].node = ckpt.node
  BY InsideNode
<1>2. ckpt'.node = ckpt.node /\ ckpt'.resumes \in {ckpt.resumes, mem[p].resumes}
  BY DEF KnownInv, TypeInv, TypeOK, Checkpoints
<1>3. /\ status = "deleted" => \A n \in Nodes : ns'[n].st # "paused"
      /\ \A n \in Nodes : ns'[n].st = "paused" => n = ckpt'.node
  BY <1>2 DEF ContractInv, EndsInv, PlaceInv
<1>4. l \in NodePCs \cup {"persist", "status"} /\ l # "ask"
  BY DEF NodePCs
<1> QED BY <1>1, <1>2, <1>3, <1>4, NodeKept

(* The steps of a node up to its interrupt, but for pausing it.            *)
LEMMA AskingStays ==
    ASSUME KnownInv, ContractInv, NEW p \in Executors,
           \/ NodeFails(p) \/ NodeRaises(p) \/ AdoptEscalation(p)
           \/ SupersedeEscalations(p) \/ CreateEscalation(p)
           \/ RecordEscalation(p) \/ Interrupt(p)
    PROVE  ContractInv'
<1>0. /\ pc \in [Executors -> ExecutorPCs] /\ mem \in [Executors -> Memory]
      /\ made \in 0 .. MaxEscalations
      /\ escSt \in [EscIds -> {"none", "open", "resolved", "timed_out", "gone"}]
      /\ escNode \in [EscIds -> Nodes \cup {End}]
      /\ ns \in [Nodes -> [st : {"none", "paused", "completed"},
                           act : 0 .. MaxEscalations]]
      /\ ckpt \in Checkpoints
  BY DEF KnownInv, TypeInv, TypeOK
<1>1. Driven(p)
  BY DEF NodeFails, NodeRaises, AdoptEscalation, CanAsk, SupersedeEscalations,
         CreateEscalation, RecordEscalation, Interrupt, Driven, NodePCs
<1>2. mem[p] \in Memory /\ mem[p].node \in Nodes /\ mem[p].node = ckpt.node
  BY <1>1, InsideNode
<1>3. CASE NodeFails(p) \/ NodeRaises(p)
  <2> DEFINE m == [mem[p] EXCEPT !.fin = "failed"]
  <2>1. /\ Goto(p, "status") /\ mem' = [mem EXCEPT ![p] = m]
        /\ UNCHANGED <<runVars, escVars, grVars, req, restVars>>
    BY <1>3 DEF NodeFails, NodeRaises, Finish
  <2>2. /\ m.node = mem[p].node /\ m.val = mem[p].val
        /\ m.resumes = mem[p].resumes /\ m.fin = "failed"
    BY <1>2 DEF Memory
  <2> HIDE DEF m
  <2>3. ~Asking(p)'
    BY <1>0, <2>1, <2>2 DEF Asking, Goto
  <2> QED BY <1>1, <2>1, <2>2, <2>3, NodeStays DEF escVars, grVars
<1>4. CASE AdoptEscalation(p)
  <2> DEFINE m == [mem[p] EXCEPT !.act = Adopted(mem[p])]
  <2>1. /\ Goto(p, "await") /\ mem' = [mem EXCEPT ![p] = m]
        /\ UNCHANGED <<runVars, escVars, grVars, req, restVars>>
    BY <1>4 DEF AdoptEscalation
  <2>2. /\ m.node = mem[p].node /\ m.val = mem[p].val
        /\ m.resumes = mem[p].resumes /\ m.idx = mem[p].idx
    BY <1>2 DEF Memory
  <2> HIDE DEF m
  <2>3. HasAnswer(mem[p])
    BY <1>4 DEF AdoptEscalation, CanAsk, Adopted, ContractInv, PlaceInv
  <2>4. ~Asking(p)'
    BY <1>0, <2>1, <2>2, <2>3 DEF Asking, HasAnswer, Recorded, Goto
  <2>5. "await" \in NodePCs \ {"ask"}
    BY DEF NodePCs
  <2> QED BY <1>1, <2>1, <2>2, <2>4, <2>5, NodeStays DEF escVars, grVars
<1>5. CASE SupersedeEscalations(p)
  <2> DEFINE m == [mem[p] EXCEPT !.sup = {}]
  <2>1. /\ Goto(p, "create") /\ mem' = [mem EXCEPT ![p] = m]
        /\ UNCHANGED <<runVars, escNode, made, grVars, req, restVars>>
    BY <1>5 DEF SupersedeEscalations
  <2>2. /\ m.node = mem[p].node /\ m.val = mem[p].val
        /\ m.resumes = mem[p].resumes
    BY <1>2 DEF Memory
  <2> HIDE DEF m
  <2>3. ~Asking(p)'
    BY <1>0, <2>1 DEF Asking, Goto
  <2>4. "create" \in NodePCs \ {"ask"}
    BY DEF NodePCs
  <2> QED BY <1>1, <2>1, <2>2, <2>3, <2>4, NodeStays DEF grVars
<1>6. CASE CreateEscalation(p)
  <2> DEFINE m == [mem[p] EXCEPT !.act = made + 1]
  <2>1. /\ mem' = [mem EXCEPT ![p] = m]
        /\ UNCHANGED <<runVars, grVars, req, restVars>>
        /\ \E l \in {"record", "await"} : Goto(p, l)
    BY <1>6 DEF CreateEscalation
  <2>2. /\ m.node = mem[p].node /\ m.val = mem[p].val
        /\ m.resumes = mem[p].resumes
    BY <1>2 DEF Memory
  <2> HIDE DEF m
  <2>3. made + 1 \in EscIds
    BY <1>0, <1>6, ConstantsAssumption DEF CreateEscalation, EscIds
  <2>4. Answerable'
    BY <1>0, <1>2, <1>6, <2>1, <2>3
    DEF CreateEscalation, Answerable, OpenEscs, grVars
  <2>5. \A e \in EscIds : e <= made => escNode'[e] = escNode[e]
    BY <1>0, <1>6, ConstantsAssumption DEF CreateEscalation, EscIds
  <2>6. {"record", "await"} \subseteq NodePCs \ {"ask"}
    BY DEF NodePCs
  <2> QED BY <1>1, <2>1, <2>2, <2>4, <2>5, <2>6, NodeStays DEF grVars
<1>7. CASE RecordEscalation(p)
  <2>1. /\ Goto(p, "await") /\ mem' = [mem EXCEPT ![p] = mem[p]]
        /\ UNCHANGED <<runVars, escSt, escNode, made, ckpt, req, restVars>>
    BY <1>0, <1>7 DEF RecordEscalation
  <2>2. \A n \in Nodes : ns'[n].st = ns[n].st
    BY <1>0, <1>2, <1>7 DEF RecordEscalation
  <2>3. Answerable' \/ status = "deleted"
    BY <1>7, <2>1 DEF RecordEscalation, Asking, ContractInv, AskInv, Answerable, OpenEscs
  <2>4. "await" \in NodePCs \ {"ask"}
    BY DEF NodePCs
  <2> QED BY <1>1, <2>1, <2>2, <2>3, <2>4, NodeStays
<1>8. CASE Interrupt(p)
  <2> DEFINE m == [mem[p] EXCEPT !.fin = "paused"]
  <2>1. /\ Goto(p, "status") /\ mem' = [mem EXCEPT ![p] = m]
        /\ UNCHANGED <<runVars, escVars, ns, req, restVars>>
        /\ ckpt' = ckpt \/ ckpt' = [ckpt EXCEPT !.resumes = mem[p].resumes]
    BY <1>8 DEF Interrupt, Finish
  <2>2. /\ m.node = mem[p].node /\ m.val = mem[p].val
        /\ m.resumes = mem[p].resumes
    BY <1>2 DEF Memory
  <2> HIDE DEF m
  <2>3. ckpt'.node = ckpt.node
    BY <1>0, <2>1 DEF Checkpoints
  <2>4. Answerable' \/ status = "deleted"
    BY <1>8, <2>1, <2>3
    DEF Interrupt, Asking, ContractInv, AskInv, Answerable, OpenEscs, escVars
  <2> QED BY <1>1, <2>1, <2>2, <2>4, NodeStays DEF escVars
<1> QED BY <1>3, <1>4, <1>5, <1>6, <1>7, <1>8

(* Pausing a node: it is the one the checkpoint stands at.                 *)
LEMMA PausingStays ==
    ASSUME KnownInv, ContractInv, NEW p \in Executors, PauseNode(p)
    PROVE  ContractInv'
<1> DEFINE m == [mem[p] EXCEPT !.sup = OpenEscs]
<1>0. /\ pc \in [Executors -> ExecutorPCs] /\ mem \in [Executors -> Memory]
      /\ ns \in [Nodes -> [st : {"none", "paused", "completed"},
                           act : 0 .. MaxEscalations]]
  BY DEF KnownInv, TypeInv, TypeOK
<1>1. Driven(p) /\ status # "deleted"
  BY DEF PauseNode, CanAsk, Driven, NodePCs
<1>2. mem[p] \in Memory /\ mem[p].node \in Nodes /\ mem[p].node = ckpt.node
  BY <1>1, InsideNode
<1>3. /\ mem' = [mem EXCEPT ![p] = m]
      /\ UNCHANGED <<runVars, escVars, ckpt, req, restVars>>
  BY DEF PauseNode, Superseded
<1>4. PICK l \in {"create", "supersede"} : Goto(p, l)
  BY DEF PauseNode
<1>5. /\ m.node = mem[p].node /\ m.val = mem[p].val
      /\ m.resumes = mem[p].resumes
  BY <1>2 DEF Memory
<1> HIDE DEF m
<1>6. \A n \in Nodes : ns'[n].st = "paused" => n = ckpt'.node
  BY <1>0, <1>2, <1>3 DEF PauseNode, ContractInv, PlaceInv
<1>7. ~Asking(p)'
  BY <1>0, <1>4 DEF Asking, Goto
<1>8. l \in NodePCs /\ l # "ask"
  BY DEF NodePCs
<1> QED BY <1>1, <1>2, <1>3, <1>4, <1>5, <1>6, <1>7, <1>8, NodeKept DEF escVars

(* An interrupt returns: an answer is used, and with it in hand only the   *)
(* recorded ones came before.                                              *)
LEMMA TakingStays ==
    ASSUME KnownInv, ContractInv, NEW p \in Executors, TakeAnswer(p)
    PROVE  ContractInv'
<1> DEFINE c == Consumed(mem[p])
<1>0. /\ pc \in [Executors -> ExecutorPCs] /\ mem \in [Executors -> Memory]
      /\ ckpt \in Checkpoints
  BY DEF KnownInv, TypeInv, TypeOK
<1>1. Driven(p) /\ HasAnswer(mem[p])
  BY DEF TakeAnswer, Driven, NodePCs
<1>2. mem[p] \in Memory /\ mem[p].node \in Nodes /\ mem[p].node = ckpt.node
  BY <1>1, InsideNode
<1>3. c \in Memory /\ c.node = mem[p].node /\ c.idx = mem[p].idx + 1
  BY <1>1, <1>2, ConsumedType DEF Consumed, Memory
<1>4. PICK a : /\ mem' = [mem EXCEPT ![p] = a]
               /\ a.node = c.node /\ a.val = c.val /\ a.resumes = c.resumes
               /\ a.idx = c.idx
               /\ pc' = [pc EXCEPT ![p] = "status"] => a.fin = "failed"
  <2>1. CASE \E l \in {"ask", "complete"} : Goto(p, l)
    <3>1. pc' # [pc EXCEPT ![p] = "status"]
      BY <1>0, <2>1 DEF Goto
    <3> QED BY <1>3, <2>1, <3>1 DEF TakeAnswer, Memory
  <2>2. CASE mem' = [mem EXCEPT ![p] = [c EXCEPT !.fin = "failed"]]
    <3> DEFINE f == [c EXCEPT !.fin = "failed"]
    <3>1. /\ f.node = c.node /\ f.val = c.val /\ f.resumes = c.resumes
          /\ f.idx = c.idx /\ f.fin = "failed"
      BY <1>3 DEF Memory
    <3> HIDE DEF c
    <3> QED BY <2>2, <3>1
  <2> QED BY <2>1, <2>2 DEF TakeAnswer
<1>5. PICK l \in {"ask", "complete", "status"} : Goto(p, l)
  BY DEF TakeAnswer
<1>6. \/ c.resumes = mem[p].resumes /\ c.val = mem[p].val
      \/ /\ c.val = NoRequest /\ mem[p].val # NoRequest
         /\ RangeOf(c.resumes) \subseteq RangeOf(mem[p].resumes) \cup {mem[p].val}
  <2>1. CASE Recorded(mem[p])
    BY <1>2, <2>1 DEF Consumed, Memory
  <2>2. CASE ~Recorded(mem[p])
    <3>1. /\ c.val = NoRequest /\ c.resumes = Append(mem[p].resumes, mem[p].val)
          /\ mem[p].val \in Requests /\ mem[p].val # NoRequest
          /\ mem[p].resumes \in Seq(Requests)
      BY <1>1, <1>2, <2>2 DEF Consumed, Memory, HasAnswer
    <3> QED BY <3>1, RangeOfAppend
  <2> QED BY <2>1, <2>2
<1>7. UNCHANGED <<runVars, escVars, grVars, req, restVars>>
  BY DEF TakeAnswer
<1>8. ~Entering(a)
  BY <1>2, <1>3, <1>4 DEF Entering, Memory
<1>9. ~Asking(p)'
  <2>1. CASE l = "status"
    BY <1>0, <1>4, <1>5, <2>1 DEF Asking, Goto
  <2>2. CASE l # "status"
    BY <1>0, <1>5, <2>2 DEF Asking, Goto
  <2> QED BY <2>1, <2>2
<1>10. /\ status = "deleted" => \A n \in Nodes : ns'[n].st # "paused"
       /\ \A n \in Nodes : ns'[n].st = "paused" => n = ckpt'.node
  BY <1>7 DEF ContractInv, EndsInv, PlaceInv, grVars
<1>11. l \in NodePCs \cup {"persist", "status"}
  BY DEF NodePCs
<1> HIDE DEF c
<1> QED BY <1>1, <1>2, <1>3, <1>4, <1>5, <1>6, <1>7, <1>8, <1>9, <1>10, <1>11,
           NodeKept DEF escVars, grVars

(* A node is left: no node is paused any more, and no answer is carried on.*)
LEMMA CompletingStays ==
    ASSUME KnownInv, ContractInv, NEW p \in Executors, CompleteNode(p)
    PROVE  ContractInv'
<1> DEFINE counted == [mem[p].visits EXCEPT ![mem[p].node] = @ + 1]
           m == [Idle EXCEPT !.node = mem[p].next, !.visits = counted,
                             !.fin = IF mem[p].next = End THEN "completed"
                                                          ELSE "none"]
<1>0. /\ pc \in [Executors -> ExecutorPCs] /\ mem \in [Executors -> Memory]
      /\ ns \in [Nodes -> [st : {"none", "paused", "completed"},
                           act : 0 .. MaxEscalations]]
  BY DEF KnownInv, TypeInv, TypeOK
<1>1. Driven(p)
  BY DEF CompleteNode, Driven, NodePCs
<1>2. mem[p].node \in Nodes /\ mem[p].node = ckpt.node
  BY <1>1, InsideNode
<1>3. /\ mem' = [mem EXCEPT ![p] = m]
      /\ ckpt' = [node |-> mem[p].next, visits |-> counted, resumes |-> <<>>]
      /\ UNCHANGED <<runVars, escVars, req, restVars>>
  BY DEF CompleteNode
<1>4. PICK l \in {"persist", "ask"} : Goto(p, l)
  BY DEF CompleteNode
<1>5. m.node = mem[p].next /\ m.val = NoRequest /\ m.resumes = <<>>
  BY DEF Idle
<1> HIDE DEF m, counted
<1>6. ckpt'.node = mem[p].next /\ ckpt'.resumes = <<>>
  BY <1>3
<1>7. \A n \in Nodes : ns'[n].st # "paused"
  <2>1. CASE status = "deleted"
    BY <2>1 DEF CompleteNode, ContractInv, EndsInv
  <2>2. CASE status # "deleted"
    BY <1>0, <1>2, <2>2 DEF CompleteNode, ContractInv, PlaceInv
  <2> QED BY <2>1, <2>2
<1>8. ~Asking(p)'
  BY <1>0, <1>4 DEF Asking, Goto
<1>9. l = "ask" => m.node \in Nodes
  BY <1>0, <1>4, <1>5, <1>1, InsideNode DEF CompleteNode, Goto, Memory
<1>10. l \in NodePCs \cup {"persist", "status"} /\ RangeOf(<<>>) = {}
  BY IdleHolds DEF NodePCs
<1> QED BY <1>1, <1>3, <1>4, <1>5, <1>6, <1>7, <1>8, <1>9, <1>10, NodeKept
    DEF escVars

-----------------------------------------------------------------------------
(* The end of an execution: nothing of the graph is touched any more.      *)
LEMMA TailKept ==
    ASSUME KnownInv, ContractInv, NEW p \in Executors, Active(p),
           NEW l \in {"status", "write", "done"}, Goto(p, l),
           \A r \in Executors : r # p => mem'[r] = mem[r],
           UNCHANGED <<escVars, ns, ckpt, req, restVars>>,
           status' = status \/ status' \in Terminal \cup {"paused"},
           status' = "deleted" => ~output',
           WorkInv', AskInv'
    PROVE  ContractInv'
<1>0. pc \in [Executors -> ExecutorPCs]
  BY DEF KnownInv, TypeInv, TypeOK
<1>1. ~Resting(p) /\ pc[p] \notin {"queued", "loaded"}
  BY DEF Active, Resting
<1>2. /\ \A r \in Executors : r # p => Resting(r)
      /\ \A q \in Requests : ~InFlight(q)
      /\ pc[ExecuteJob] \notin {"off", "queued", "loaded"}
  BY <1>1, Alone
<1>3. pc'[p] = l /\ \A r \in Executors : r # p => pc'[r] = pc[r]
  BY <1>0 DEF Goto
<1>4. \A r \in Executors : ~Driven(r)' /\ ~Poised(r)' /\ pc'[r] # "ask"
  BY <1>2, <1>3 DEF Resting, Driven, Poised, NodePCs
<1>5. EndsInv'
  <2>1. pc'[ExecuteJob] \notin {"off", "queued", "loaded"}
    BY <1>2, <1>3, ExecutorFacts
  <2> QED BY <1>2, <2>1 DEF ContractInv, EndsInv, restVars, Terminal
<1>6. PlaceInv'
  BY <1>4 DEF ContractInv, PlaceInv
<1>7. HandInv'
  BY <1>2, <1>4 DEF HandInv, Handed, Readied, InFlight
<1>8. UseInv'
  <2>1. ckpt.resumes \in Seq(Requests)
    BY DEF KnownInv, TypeInv, TypeOK, Checkpoints
  <2>2. \A q \in RangeOf(ckpt.resumes) : Spent(q)'
    BY <1>4, <2>1, ExecutorFacts DEF ContractInv, UseInv, Spent, RangeOf
  <2> QED BY <1>4, <2>2 DEF UseInv, Carries
<1> QED BY <1>5, <1>6, <1>7, <1>8 DEF ContractInv

(* Output first, then the status, each by the one who ran the graph.       *)
LEMMA FinishingStays ==
    ASSUME KnownInv, ContractInv, NEW p \in Executors,
           PersistOutput(p) \/ ReadRunStatus(p) \/ UpdateRunStatus(p)
    PROVE  ContractInv'
<1>0. /\ pc \in [Executors -> ExecutorPCs] /\ mem \in [Executors -> Memory]
      /\ mem[p] \in Memory
  BY DEF KnownInv, TypeInv, TypeOK
<1>1. Active(p) /\ ~Resting(p)
  BY DEF PersistOutput, ReadRunStatus, UpdateRunStatus, Active, Resting
<1>2. \A r \in Executors : r # p => Resting(r)
  BY <1>1, Alone
<1>3. /\ status \in {"running", "deleted"}
      /\ status = "deleted" => ~output
      /\ output => Finished(p)
  BY <1>1, <1>2, RestingHasNoPart DEF ContractInv, EndsInv, WorkInv
<1>4. ASSUME NEW l \in {"status", "write", "done"}, Goto(p, l)
      PROVE  /\ pc'[p] = l
             /\ \A r \in Executors : r # p =>
                   /\ pc'[r] = pc[r] /\ Resting(r)'
                   /\ ~Active(r)' /\ ~Asking(r)' /\ ~Finished(r)'
  BY <1>0, <1>2, <1>4 DEF Goto, Resting, Active, Asking, Finished
<1>5. CASE PersistOutput(p)
  <2>1. Goto(p, "status") /\ pc'[p] = "status" /\ mem[p].fin = "completed"
    BY <1>4, <1>5 DEF PersistOutput, KnownInv, TypeInv, NodeAtWork, Fits
  <2>2. WorkInv'
    BY <1>3, <1>4, <1>5, <2>1 DEF PersistOutput, WorkInv, Active, Finished
  <2>3. AskInv'
    BY <1>3, <1>4, <1>5, <2>1 DEF PersistOutput, AskInv, Asking
  <2> QED BY <1>1, <1>3, <1>5, <2>1, <2>2, <2>3, TailKept
      DEF PersistOutput, grVars
<1>6. CASE ReadRunStatus(p) /\ NothingToWrite(p)
  <2>1. /\ Goto(p, "done") /\ mem' = [mem EXCEPT ![p] = Idle]
        /\ UNCHANGED <<runVars, escVars, ns, ckpt, req, restVars>>
    BY <1>6 DEF ReadRunStatus
  <2>2. status = "deleted" /\ pc'[p] = "done"
    BY <1>0, <1>3, <1>4, <1>6, <2>1 DEF NothingToWrite, Terminal, Memory
  <2>3. WorkInv' /\ AskInv'
    BY <1>3, <1>4, <2>1, <2>2 DEF WorkInv, AskInv, Active, Asking, runVars
  <2>4. \A r \in Executors : r # p => mem'[r] = mem[r]
    BY <1>0, <2>1
  <2> QED BY <1>1, <1>3, <2>1, <2>3, <2>4, TailKept DEF runVars
<1>7. CASE ReadRunStatus(p) /\ ~NothingToWrite(p)
  <2>1. /\ Goto(p, "write") /\ pc'[p] = "write"
        /\ UNCHANGED <<runVars, escVars, ns, ckpt, mem, req, restVars>>
    BY <1>4, <1>7 DEF ReadRunStatus
  <2>2. WorkInv'
    BY <1>3, <1>4, <2>1 DEF WorkInv, Active, Finished, runVars
  <2>3. AskInv'
    BY <1>3, <1>4, <1>7, <2>1
    DEF ReadRunStatus, AskInv, Asking, Answerable, OpenEscs, ContractInv,
        escVars, runVars
  <2> QED BY <1>1, <1>3, <2>1, <2>2, <2>3, TailKept DEF runVars
<1>8. CASE UpdateRunStatus(p)
  <2>1. /\ Goto(p, "done") /\ pc'[p] = "done"
        /\ mem' = [mem EXCEPT ![p] = Idle]
        /\ UNCHANGED <<output, escVars, ns, ckpt, req, restVars>>
    BY <1>4, <1>8 DEF UpdateRunStatus
  <2>2. /\ mem[p].fin \in {"paused", "completed", "failed"}
        /\ status' = IF status = "deleted" THEN status ELSE mem[p].fin
    BY <1>0, <1>8
    DEF UpdateRunStatus, KnownInv, TypeInv, NodeAtWork, Fits, Memory
  <2>3. WorkInv'
    BY <1>3, <1>4, <2>1, <2>2 DEF WorkInv, Active, Finished
  <2>4. AskInv'
    <3>1. mem[p].fin = "paused" => Answerable \/ status = "deleted"
      BY <1>8 DEF UpdateRunStatus, Asking, ContractInv, AskInv
    <3>2. Answerable => Answerable'
      BY <2>1 DEF Answerable, OpenEscs, escVars
    <3>3. \A r \in Executors : ~Asking(r)'
      BY <1>4, <2>1 DEF Asking
    <3> QED BY <2>2, <3>1, <3>2, <3>3 DEF AskInv
  <2>5. \A r \in Executors : r # p => mem'[r] = mem[r]
    BY <1>0, <2>1
  <2>6. /\ status' = status \/ status' \in Terminal \cup {"paused"}
        /\ status' = "deleted" => ~output'
    BY <1>3, <2>1, <2>2 DEF Terminal
  <2> QED BY <1>1, <2>1, <2>3, <2>4, <2>5, <2>6, TailKept
<1> QED BY <1>5, <1>6, <1>7, <1>8

-----------------------------------------------------------------------------
(* An executor other than the first job is the job or the fallback of its  *)
(* answer.                                                                 *)
LEMMA JobOrFallback ==
    \A p \in Executors : p # ExecuteJob =>
       /\ p[2] \in Requests
       /\ p = ResumeJob(p[2]) \/ p = Fallback(p[2])
BY DEF Executors, WorkerJobs, Fallbacks, ExecuteJob, ResumeJob, Fallback

(* An executor marks the run and invokes the graph: what has to be shown.  *)
LEMMA MarkKept ==
    ASSUME KnownInv, ContractInv, NEW p \in Executors, pc[p] = "loaded",
           NEW l \in {"ask", "persist"}, Goto(p, l),
           NEW m, mem' = [mem EXCEPT ![p] = m],
           status \in {"queued", "paused", "deleted"}, status' = MarkedRunning,
           UNCHANGED <<output, escVars, ns, req, restVars>>,
           m.node = ckpt'.node,
           Entering(m) => ns[m.node].st # "paused" \/ HasAnswer(m),
           \A n \in Nodes : ns[n].st = "paused" => n = ckpt'.node,
           RangeOf(ckpt'.resumes) \subseteq RangeOf(ckpt.resumes),
           RangeOf(m.resumes) \subseteq RangeOf(ckpt.resumes),
           m.val # NoRequest =>
              /\ p # ExecuteJob /\ m.val = p[2]
              /\ req[p[2]].pc = "done" /\ req[p[2]].esc # NoEsc
              /\ escNode[req[p[2]].esc] = m.node
              /\ p[2] \notin RangeOf(m.resumes)
    PROVE  ContractInv'
<1>0. pc \in [Executors -> ExecutorPCs] /\ mem \in [Executors -> Memory]
  BY DEF KnownInv, TypeInv, TypeOK
<1>1. ~Resting(p) /\ ~Active(p) /\ ~Finished(p)
  BY DEF Resting, Active, Finished
<1>2. /\ \A r \in Executors : r # p => Resting(r)
      /\ \A q \in Requests : ~InFlight(q)
      /\ pc[ExecuteJob] \in {"off", "queued", "loaded"} => p = ExecuteJob
  BY <1>1, Alone
<1>3. /\ pc'[p] = l /\ mem'[p] = m
      /\ \A r \in Executors : r # p => pc'[r] = pc[r] /\ mem'[r] = mem[r]
  BY <1>0 DEF Goto
<1>4. \A r \in Executors : r # p =>
         /\ ~Active(r)' /\ ~Driven(r)' /\ ~Poised(r)' /\ ~Asking(r)'
         /\ pc'[r] # "ask"
  BY <1>2, <1>3 DEF Resting, Active, Driven, Poised, Asking, NodePCs
<1>5. Active(p)' /\ ~Poised(p)' /\ ~Asking(p)'
  BY <1>3 DEF Active, Poised, Asking
<1>6. status' \in {"running", "deleted"} /\ (status' = "deleted" => status = "deleted")
  BY DEF MarkedRunning
<1>7. ~output
  BY <1>1, <1>2, RestingHasNoPart DEF ContractInv, WorkInv
<1>8. EndsInv'
  <2>1. pc'[ExecuteJob] \notin {"off", "queued", "loaded"}
    BY <1>2, <1>3, ExecutorFacts
  <2> QED BY <1>6, <1>7, <2>1 DEF ContractInv, EndsInv, restVars
<1>9. WorkInv'
  BY <1>4, <1>5, <1>6, <1>7 DEF WorkInv
<1>10. PlaceInv'
  BY <1>3, <1>4 DEF PlaceInv, Driven
<1>11. AskInv'
  BY <1>4, <1>5, <1>6 DEF AskInv
<1>12. HandInv'
  BY <1>2, <1>4, <1>5 DEF HandInv, Handed, Readied, InFlight
<1>13. UseInv'
  <2>1. \A q \in RangeOf(ckpt.resumes) : q \in Requests /\ Spent(q)
    <3>1. ckpt.resumes \in Seq(Requests)
      BY DEF KnownInv, TypeInv, TypeOK, Checkpoints
    <3> QED BY <3>1 DEF ContractInv, UseInv, RangeOf
  <2>2. \A q \in RangeOf(ckpt.resumes) : Spent(q)'
    BY <1>4, <1>5, <2>1, ExecutorFacts DEF Spent
  <2>3. Carries(p)'
    BY <1>3, <2>2 DEF Carries, escVars
  <2>4. \A r \in Executors : Carries(r)'
    BY <1>4, <2>3 DEF Carries
  <2> QED BY <2>2, <2>4 DEF UseInv
<1> QED BY <1>8, <1>9, <1>10, <1>11, <1>12, <1>13 DEF ContractInv

(* An executor that drives nothing goes from one waiting state to another, *)
(* or is done.                                                             *)
LEMMA RestsKept ==
    ASSUME KnownInv, ContractInv, NEW p \in Executors, ~Active(p),
           NEW l \in {"queued", "loaded", "done"}, Goto(p, l),
           UNCHANGED <<runVars, escSt, escNode, ns, ckpt, mem, req, restVars>>,
           status # "absent",
           status = "paused" => Answerable \/ l # "done",
           p = ExecuteJob /\ l # "done" => pc[p] \in {"off", "queued", "loaded"},
           p # ExecuteJob /\ l # "done" => Poised(p),
           Readied(p)'
    PROVE  ContractInv'
<1>0. pc \in [Executors -> ExecutorPCs]
  BY DEF KnownInv, TypeInv, TypeOK
<1>1. pc'[p] = l /\ \A r \in Executors : r # p => pc'[r] = pc[r]
  BY <1>0 DEF Goto
<1>2. /\ ~Active(p)' /\ ~Driven(p)' /\ ~Asking(p)' /\ pc'[p] # "ask"
      /\ ~Finished(p) /\ (Poised(p)' <=> l # "done")
  BY <1>1 DEF Active, Driven, Asking, Finished, Poised, NodePCs
<1>3. \A r \in Executors : r # p =>
         /\ (Active(r)' <=> Active(r)) /\ (Driven(r)' <=> Driven(r))
         /\ (Asking(r)' <=> Asking(r)) /\ (Finished(r)' <=> Finished(r))
         /\ (Poised(r)' <=> Poised(r))
  BY <1>1 DEF Active, Driven, Asking, Finished, Poised
<1>4. EndsInv'
  BY <1>1, ExecutorFacts DEF ContractInv, EndsInv, runVars, restVars
<1>5. WorkInv'
  BY <1>2, <1>3 DEF ContractInv, WorkInv, runVars
<1>6. PlaceInv'
  BY <1>1, <1>2, <1>3 DEF ContractInv, PlaceInv
<1>7. AskInv'
  <2>1. \A r \in Executors : Asking(r)' => Answerable' \/ status' = "deleted"
    BY <1>2, <1>3 DEF ContractInv, AskInv, Answerable, OpenEscs, runVars
  <2>2. status = "paused" => Answerable' \/ (OpenEscs' = {} /\ Pending')
    BY <1>2 DEF ContractInv, AskInv, Answerable, OpenEscs, Pending
  <2> QED BY <2>1, <2>2 DEF AskInv, runVars
<1>8. HandInv'
  <2>1. ASSUME NEW r \in Executors PROVE Readied(r)'
    BY <1>1, <1>3 DEF ContractInv, HandInv, Readied, OpenEscs, runVars
  <2>2. ASSUME NEW q \in Requests PROVE Handed(q)'
    BY DEF ContractInv, HandInv, Handed, InFlight, OpenEscs, runVars
  <2> QED BY <2>1, <2>2 DEF HandInv
<1>9. UseInv'
  <2>1. ASSUME NEW q \in Requests, Spent(q) PROVE Spent(q)'
    <3>1. ASSUME NEW r \in {ResumeJob(q), Fallback(q)} PROVE ~Poised(r)'
      BY <1>2, <1>3, <2>1, ExecutorFacts, ExecutorsDistinct DEF Spent
    <3> QED BY <2>1, <3>1 DEF Spent
  <2>2. ckpt.resumes \in Seq(Requests) /\ mem \in [Executors -> Memory]
    BY DEF KnownInv, TypeInv, TypeOK, Checkpoints
  <2>3. \A q \in RangeOf(ckpt.resumes) : Spent(q)'
    BY <2>1, <2>2 DEF ContractInv, UseInv, RangeOf
  <2>4. ASSUME NEW r \in Executors, Driven(r)' PROVE Carries(r)'
    <3>1. r # p /\ Driven(r)
      BY <1>2, <1>3, <2>4
    <3>2. mem[r].resumes \in Seq(Requests)
      BY <2>2 DEF Memory
    <3>3. \A q \in RangeOf(mem[r].resumes) : Spent(q)'
      BY <2>1, <3>1, <3>2 DEF ContractInv, UseInv, Carries, RangeOf
    <3> QED BY <3>1, <3>3 DEF ContractInv, UseInv, Carries
  <2> QED BY <2>3, <2>4 DEF UseInv, Carries
<1> QED BY <1>4, <1>5, <1>6, <1>7, <1>8, <1>9 DEF ContractInv

(* The first job enters the workflow, a resuming executor the node the     *)
(* checkpoint stands at.                                                   *)
LEMMA MarkingStays ==
    ASSUME KnownInv, ContractInv, NEW p \in Executors,
           (p = ExecuteJob /\ ExecuteRunMark) \/ ResumeRunMark(p)
    PROVE  ContractInv'
<1>0. /\ pc \in [Executors -> ExecutorPCs] /\ mem \in [Executors -> Memory]
      /\ ckpt \in Checkpoints /\ status \in Statuses
  BY DEF KnownInv, TypeInv, TypeOK
<1>1. CASE p = ExecuteJob /\ ExecuteRunMark
  <2> DEFINE m == [Idle EXCEPT !.node = Entry, !.visits = ckpt.visits]
  <2>1. /\ pc[p] = "loaded" /\ Goto(p, "ask") /\ mem' = [mem EXCEPT ![p] = m]
        /\ status' = MarkedRunning
        /\ UNCHANGED <<output, escVars, ns, req, restVars>>
    BY <1>1 DEF ExecuteRunMark, MarkedRunning
  <2>2. ckpt'.node = Entry /\ ckpt'.resumes = <<>>
    BY <1>0, <1>1 DEF ExecuteRunMark, Checkpoints
  <2>3. m.node = Entry /\ m.resumes = <<>> /\ m.val = NoRequest
    BY DEF Idle
  <2> HIDE DEF m
  <2>4. /\ status \in {"absent", "queued", "deleted"}
        /\ \A n \in Nodes : ns[n].st # "paused"
    BY <1>1, <2>1 DEF ContractInv, EndsInv
  <2>5. status # "absent"
    BY <1>1, <2>1 DEF ContractInv, EndsInv
  <2> QED BY <2>1, <2>2, <2>3, <2>4, <2>5, IdleHolds, ConstantsAssumption,
             MarkKept
<1>2. CASE ResumeRunMark(p)
  <2> DEFINE m == [Idle EXCEPT !.node = ckpt.node, !.visits = ckpt.visits,
                               !.resumes = ckpt.resumes, !.val = p[2]]
             f == [m EXCEPT !.fin = "completed"]
  <2>1. /\ p # ExecuteJob /\ pc[p] = "loaded" /\ status' = MarkedRunning
        /\ UNCHANGED <<output, escVars, ns, ckpt, req, restVars>>
    BY <1>2 DEF ResumeRunMark
  <2>2. /\ p[2] \in Requests /\ p[2] # NoRequest
        /\ p = ResumeJob(p[2]) \/ p = Fallback(p[2])
    BY <2>1, JobOrFallback, ConstantsAssumption
  <2>3. /\ status \in {"paused", "deleted"}
        /\ req[p[2]].pc = "done" /\ req[p[2]].esc # NoEsc
        /\ status = "paused" => escNode[req[p[2]].esc] = ckpt.node
    BY <2>1 DEF ContractInv, HandInv, Readied, Poised
  <2>4. p[2] \notin RangeOf(ckpt.resumes)
    BY <2>1, <2>2 DEF ContractInv, UseInv, Spent, Poised
  <2>5. \A n \in Nodes : ns[n].st = "paused" => n = ckpt.node
    BY DEF ContractInv, PlaceInv
  <2>6. /\ m.node = ckpt.node /\ m.resumes = ckpt.resumes /\ m.val = p[2]
        /\ f.node = ckpt.node /\ f.resumes = ckpt.resumes /\ f.val = p[2]
    BY DEF Idle
  <2>7. \/ status = "deleted" /\ Goto(p, "done") /\ UNCHANGED mem
        \/ status # "deleted" /\ Goto(p, "ask") /\ mem' = [mem EXCEPT ![p] = m]
        \/ status # "deleted" /\ Goto(p, "persist") /\ mem' = [mem EXCEPT ![p] = f]
    BY <1>2 DEF ResumeRunMark
  <2> HIDE DEF m, f
  <2>8. CASE status = "deleted" /\ Goto(p, "done") /\ UNCHANGED mem
    <3>1. UNCHANGED <<runVars, escSt, escNode, ns, ckpt, mem, req, restVars>>
      BY <2>1, <2>8 DEF MarkedRunning, runVars, escVars
    <3>2. ~Active(p) /\ ~Poised(p)'
      BY <1>0, <2>1, <2>8 DEF Active, Poised, Goto
    <3> QED BY <2>1, <2>8, <3>1, <3>2, RestsKept DEF Readied
  <2>9. CASE status # "deleted"
    <3>1. HasAnswer(m) /\ HasAnswer(f)
      BY <2>2, <2>6 DEF HasAnswer
    <3>2. /\ UNCHANGED ckpt
          /\ status \in {"queued", "paused", "deleted"}
          /\ escNode[req[p[2]].esc] = ckpt.node
      BY <2>1, <2>3, <2>9
    <3>3. CASE Goto(p, "ask") /\ mem' = [mem EXCEPT ![p] = m]
      BY <2>1, <2>2, <2>3, <2>4, <2>5, <2>6, <3>1, <3>2, <3>3, MarkKept
    <3>4. CASE Goto(p, "persist") /\ mem' = [mem EXCEPT ![p] = f]
      BY <2>1, <2>2, <2>3, <2>4, <2>5, <2>6, <3>1, <3>2, <3>4, MarkKept
    <3> QED BY <2>7, <2>9, <3>3, <3>4
  <2> QED BY <2>7, <2>8, <2>9
<1> QED BY <1>1, <1>2

(* Creating the run, queueing its first job, and the reads before a run is *)
(* marked.                                                                 *)
LEMMA WaitingStays ==
    ASSUME KnownInv, ContractInv, NEW p \in Executors,
           \/ CreateRun
           \/ p = ExecuteJob /\ (EnqueueExecute \/ ExecuteRunLoad)
           \/ ResumeRunRead(p)
    PROVE  ContractInv'
<1>0. pc \in [Executors -> ExecutorPCs]
  BY DEF KnownInv, TypeInv, TypeOK
<1>1. CASE CreateRun
  <2>1. /\ status = "absent" /\ status' = "queued"
        /\ UNCHANGED <<output, escVars, grVars, pc, mem, req, restVars>>
    BY <1>1 DEF CreateRun
  <2>2. /\ \A r \in Executors : ~Active(r) /\ ~Finished(r)
        /\ ~output
    <3>1. \A r \in Executors : ~Active(r)
      BY <2>1 DEF ContractInv, WorkInv
    <3>2. \A r \in Executors : ~Finished(r)
      BY <3>1 DEF Active, Finished
    <3> QED BY <2>1, <3>1, <3>2 DEF ContractInv, WorkInv
  <2>3. EndsInv'
    BY <2>1 DEF ContractInv, EndsInv, grVars, restVars
  <2>4. WorkInv'
    BY <2>1, <2>2 DEF WorkInv, Active
  <2>5. PlaceInv'
    BY <2>1 DEF ContractInv, PlaceInv, Driven, grVars
  <2>6. AskInv'
    BY <2>1 DEF ContractInv, AskInv, Asking, Answerable, OpenEscs, escVars, grVars
  <2>7. HandInv'
    BY <2>1 DEF ContractInv, HandInv, Handed, Readied, Poised, InFlight,
                OpenEscs, escVars, grVars
  <2>8. UseInv'
    BY <2>1 DEF ContractInv, UseInv, Spent, Carries, Driven, Poised, escVars, grVars
  <2> QED BY <2>3, <2>4, <2>5, <2>6, <2>7, <2>8 DEF ContractInv
<1>2. CASE p = ExecuteJob /\ (EnqueueExecute \/ ExecuteRunLoad)
  <2>1. PICK l \in {"queued", "loaded", "done"} : Goto(p, l)
    BY <1>2 DEF EnqueueExecute, ExecuteRunLoad
  <2>2. /\ UNCHANGED <<runVars, escVars, grVars, mem, req, restVars>>
        /\ pc[p] \in {"off", "queued"}
    BY <1>2 DEF EnqueueExecute, ExecuteRunLoad
  <2>3. status \in {"queued", "deleted"}
    BY <1>2, <2>2 DEF EnqueueExecute, ExecuteRunLoad, ContractInv, EndsInv
  <2>4. ~Active(p) /\ Readied(p)'
    BY <1>2, <2>2 DEF Active, Readied
  <2> QED BY <1>2, <2>1, <2>2, <2>3, <2>4, RestsKept DEF escVars, grVars
<1>3. CASE ResumeRunRead(p)
  <2>1. PICK l \in {"loaded", "done"} :
           /\ Goto(p, l)
           /\ l = IF status = "paused" THEN "loaded" ELSE "done"
    BY <1>3 DEF ResumeRunRead
  <2>2. /\ UNCHANGED <<runVars, escVars, grVars, mem, req, restVars>>
        /\ p # ExecuteJob /\ pc[p] = "queued"
    BY <1>3 DEF ResumeRunRead
  <2>3. ~Active(p) /\ Poised(p) /\ ~Resting(p)
    BY <2>2 DEF Active, Poised, Resting
  <2>4. status # "absent"
    BY <2>3, Alone DEF ContractInv, EndsInv
  <2>5. Readied(p)'
    BY <1>0, <2>1, <2>2, <2>3
    DEF Readied, ContractInv, HandInv, Goto, Poised, OpenEscs, runVars,
        escVars, grVars
  <2> QED BY <2>1, <2>2, <2>3, <2>4, <2>5, RestsKept DEF escVars, grVars
<1> QED BY <1>1, <1>2, <1>3

-----------------------------------------------------------------------------
(* A step of people or of the API that moves no executor.                  *)
LEMMA AsideKept ==
    ASSUME KnownInv, ContractInv, UNCHANGED <<pc, mem, ckpt, escNode>>,
           \A n \in Nodes : ns'[n].st = "paused" => ns[n].st = "paused",
           \A q \in Requests : req[q].pc = "done" => req'[q] = req[q],
           EndsInv', WorkInv', AskInv', HandInv'
    PROVE  ContractInv'
<1>0. /\ ckpt.resumes \in Seq(Requests) /\ mem \in [Executors -> Memory]
  BY DEF KnownInv, TypeInv, TypeOK, Checkpoints
<1>1. PlaceInv'
  <2>1. ASSUME NEW p \in Executors, pc[p] = "ask" PROVE mem[p].node \in Nodes
    BY <2>1 DEF KnownInv, TypeInv, NodeAtWork, Fits, NodePCs
  <2> QED BY <2>1 DEF ContractInv, PlaceInv, Driven
<1>2. ASSUME NEW q \in Requests, Spent(q) PROVE Spent(q)'
  BY <1>2 DEF Spent, Poised
<1>3. UseInv'
  <2>1. \A q \in RangeOf(ckpt.resumes) : Spent(q)'
    BY <1>0, <1>2 DEF ContractInv, UseInv, RangeOf
  <2>2. ASSUME NEW p \in Executors, Driven(p) PROVE Carries(p)'
    <3>1. mem[p].resumes \in Seq(Requests)
      BY <1>0 DEF Memory
    <3>2. \A q \in RangeOf(mem[p].resumes) : Spent(q)'
      BY <1>2, <2>2, <3>1 DEF ContractInv, UseInv, Carries, RangeOf
    <3>3. p # ExecuteJob => p[2] \in Requests
      BY ExecutorFacts
    <3> QED BY <2>2, <3>2, <3>3 DEF ContractInv, UseInv, Carries
  <2> QED BY <2>1, <2>2 DEF UseInv, Carries, Driven
<1> QED BY <1>1, <1>3 DEF ContractInv

(* While an answer is handled nobody drives the run or is about to.        *)
LEMMA HandledAlone ==
    ASSUME KnownInv, NEW q \in Requests, InFlight(q)
    PROVE  /\ \A p \in Executors : /\ pc[p] \in {"off", "done"}
                                   /\ ~Active(p) /\ ~Poised(p) /\ ~Asking(p)
                                   /\ ~Finished(p) /\ ~Driven(p)
           /\ \A r \in Requests : InFlight(r) => r = q
           /\ pc[ExecuteJob] = "done"
<1>1. \A p \in Executors : pc[p] \in {"off", "done"}
  BY DEF KnownInv, DriverInv, HandledAtRest, Busy
<1>2. pc[ExecuteJob] # "off"
  BY DEF KnownInv, DriverInv, QuietAtFirst
<1>3. \A p \in Executors : Resting(p)
  BY <1>1 DEF Resting
<1>4. \A r \in Requests : InFlight(r) => r = q
  BY DEF KnownInv, DriverInv, HandledAtRest
<1> QED BY <1>1, <1>2, <1>3, <1>4, RestingHasNoPart, ExecutorFacts

(* An answer is committed: its escalation was the one open, and is not any *)
(* more.                                                                   *)
LEMMA ResolvingStays ==
    ASSUME KnownInv, ContractInv, NEW q \in Requests, ResolveEscalation(q)
    PROVE  ContractInv'
<1>0. /\ req \in [Requests -> [pc : RequestPCs, esc : 0 .. MaxEscalations,
                             kind : AllKinds, via : AllVias]]
      /\ escSt \in [EscIds -> {"none", "open", "resolved", "timed_out", "gone"}]
  BY DEF KnownInv, TypeInv, TypeOK
<1>1. /\ InFlight(q) /\ req[q].pc = "checked"
      /\ UNCHANGED <<runVars, escNode, made, grVars, pc, mem, restVars>>
  BY DEF ResolveEscalation, InFlight
<1>2. /\ \A p \in Executors : ~Active(p) /\ ~Poised(p) /\ ~Asking(p)
      /\ \A r \in Requests : InFlight(r) => r = q
      /\ pc[ExecuteJob] = "done"
  BY <1>1, HandledAlone
<1>3. /\ req[q].esc \in EscIds /\ OpenEscs \subseteq {req[q].esc}
      /\ escSt[req[q].esc] = "open" \/ status = "deleted"
  BY <1>1 DEF ContractInv, HandInv, Handed
<1>4. /\ req'[q].pc \in {"done", "committed"} /\ req'[q].esc = req[q].esc
      /\ \A r \in Requests : r # q => req'[r] = req[r]
      /\ OpenEscs' \subseteq OpenEscs
      /\ \/ req'[q].pc = "committed" /\ OpenEscs' = {}
         \/ req'[q].pc = "done" /\ status = "deleted" /\ UNCHANGED escSt
  <2>1. CASE escSt[req[q].esc] = "gone"
    BY <1>0, <1>3, <2>1 DEF ResolveEscalation, OpenEscs
  <2>2. CASE escSt[req[q].esc] # "gone"
    <3>1. /\ req' = [req EXCEPT ![q].pc = "committed"]
          /\ escSt' = [escSt EXCEPT ![req[q].esc] = "resolved"]
      BY <2>2 DEF ResolveEscalation
    <3>2. OpenEscs' \subseteq OpenEscs \ {req[q].esc}
      BY <1>0, <3>1 DEF OpenEscs
    <3> QED BY <1>0, <1>3, <3>1, <3>2
  <2> QED BY <2>1, <2>2
<1>5. EndsInv' /\ WorkInv'
  <2>1. EndsInv'
    BY <1>1 DEF ContractInv, EndsInv, runVars, grVars, restVars
  <2>2. WorkInv'
    BY <1>1 DEF ContractInv, WorkInv, Active, Finished, runVars
  <2> QED BY <2>1, <2>2
<1>6. AskInv'
  <2>1. status = "paused" => OpenEscs' = {} /\ InFlight(q)'
    BY <1>4 DEF InFlight
  <2>2. \A p \in Executors : ~Asking(p)'
    BY <1>1, <1>2 DEF Asking
  <2> QED BY <1>1, <2>1, <2>2 DEF AskInv, Pending, runVars
<1>7. HandInv'
  <2>1. Handed(q)'
    BY <1>1, <1>3, <1>4 DEF Handed, InFlight, ContractInv, HandInv, EscIds,
                            NoEsc, runVars, grVars
  <2>2. ASSUME NEW r \in Requests, r # q PROVE Handed(r)'
    BY <1>2, <1>4, <2>2 DEF Handed, InFlight
  <2>3. \A p \in Executors : Readied(p)'
    BY <1>1, <1>2 DEF Readied, Poised
  <2> QED BY <2>1, <2>2, <2>3 DEF HandInv
<1>8. \A r \in Requests : req[r].pc = "done" => req'[r] = req[r]
  BY <1>1, <1>4
<1> QED BY <1>1, <1>5, <1>6, <1>7, <1>8, AsideKept DEF grVars

(* Aborting: the run the answer was given to is paused, or gone.           *)
LEMMA StoppingStays ==
    ASSUME KnownInv, ContractInv, NEW q \in Requests,
           AbortFromEscalation(q) \/ StopRun(q)
    PROVE  ContractInv'
<1>0. /\ req \in [Requests -> [pc : RequestPCs, esc : 0 .. MaxEscalations,
                             kind : AllKinds, via : AllVias]]
  BY DEF KnownInv, TypeInv, TypeOK
<1>1. /\ InFlight(q) /\ req[q].pc \in {"committed", "stopping"}
      /\ UNCHANGED <<output, escSt, escNode, made, grVars, pc, mem, restVars>>
  BY DEF AbortFromEscalation, StopRun, InFlight, runVars
<1>2. /\ \A p \in Executors : ~Active(p) /\ ~Poised(p) /\ ~Asking(p) /\ ~Finished(p)
      /\ \A r \in Requests : InFlight(r) => r = q
      /\ pc[ExecuteJob] = "done"
  BY <1>1, HandledAlone
<1>3. req[q].esc # NoEsc /\ OpenEscs = {} /\ status # "running"
  BY <1>1, <1>2 DEF ContractInv, HandInv, Handed, WorkInv
<1>4. /\ \A r \in Requests : r # q => req'[r] = req[r]
      /\ req'[q].esc = req[q].esc
      /\ \/ /\ UNCHANGED runVars
            /\ req'[q].pc = "stopping" /\ status = "paused"
         \/ /\ UNCHANGED runVars
            /\ req'[q].pc = "done" /\ status # "paused"
         \/ /\ req'[q].pc = "done" /\ status \in {"paused", "deleted"}
            /\ status' = IF status = "deleted" THEN status ELSE "stopped"
  <2>1. CASE AbortFromEscalation(q)
    BY <1>0, <1>3, <2>1 DEF AbortFromEscalation
  <2>2. CASE StopRun(q)
    <3>1. status \in {"paused", "deleted"}
      BY <2>2 DEF StopRun, ContractInv, HandInv, Handed
    <3> QED BY <1>0, <2>2, <3>1 DEF StopRun
  <2> QED BY <2>1, <2>2
<1>5. EndsInv'
  BY <1>1, <1>2, <1>4 DEF ContractInv, EndsInv, runVars, grVars, restVars
<1>6. WorkInv'
  <2>1. \A p \in Executors : ~Active(p)' /\ ~Finished(p)'
    BY <1>1, <1>2 DEF Active, Finished
  <2>2. output => status = "completed"
    BY <1>2 DEF ContractInv, WorkInv
  <2>3. status' # "running" /\ (status = "completed" => status' = "completed")
    BY <1>3, <1>4 DEF runVars
  <2> QED BY <1>1, <2>1, <2>2, <2>3 DEF WorkInv
<1>7. AskInv'
  <2>1. \A p \in Executors : ~Asking(p)'
    BY <1>1, <1>2 DEF Asking
  <2>2. status' = "paused" => OpenEscs' = {} /\ InFlight(q)'
    BY <1>1, <1>3, <1>4 DEF InFlight, OpenEscs, runVars
  <2> QED BY <2>1, <2>2 DEF AskInv, Pending
<1>8. HandInv'
  <2>1. OpenEscs' = {}
    BY <1>1, <1>3 DEF OpenEscs
  <2>2. Handed(q)'
    BY <1>1, <1>3, <1>4, <2>1
    DEF Handed, InFlight, ContractInv, HandInv, runVars, grVars
  <2>3. ASSUME NEW r \in Requests, r # q PROVE Handed(r)'
    BY <1>2, <1>4, <2>3 DEF Handed, InFlight
  <2>4. \A p \in Executors : Readied(p)'
    BY <1>1, <1>2 DEF Readied, Poised
  <2> QED BY <2>2, <2>3, <2>4 DEF HandInv
<1>9. \A r \in Requests : req[r].pc = "done" => req'[r] = req[r]
  BY <1>1, <1>4
<1> QED BY <1>1, <1>5, <1>6, <1>7, <1>8, <1>9, AsideKept DEF grVars

(* A committed answer is passed on, to the queue with its fallback or to   *)
(* an in-process task; requests beside the escalations do not exist here.  *)
LEMMA EnqueueingStays ==
    ASSUME KnownInv, ContractInv, NEW q \in Requests,
           EnqueueRunResume(q) \/ EnqueueFromEndpoint(q)
    PROVE  ContractInv'
<1>0. /\ req \in [Requests -> [pc : RequestPCs, esc : 0 .. MaxEscalations,
                             kind : AllKinds, via : AllVias]]
      /\ pc \in [Executors -> ExecutorPCs]
      /\ ckpt.resumes \in Seq(Requests)
      /\ ResumeJob(q) \in Executors /\ Fallback(q) \in Executors
  BY ExecutorFacts DEF KnownInv, TypeInv, TypeOK, Checkpoints
<1>1. InFlight(q) /\ req[q].pc = "committed"
  BY DEF EnqueueRunResume, EnqueueFromEndpoint, InFlight
<1>2. req[q].esc # NoEsc /\ OpenEscs = {}
  BY <1>1 DEF ContractInv, HandInv, Handed
<1>3. /\ EnqueueRunResume(q)
      /\ UNCHANGED <<runVars, escSt, escNode, made, grVars, mem, restVars>>
  BY <1>2 DEF EnqueueFromEndpoint, EnqueueRunResume
<1>4. /\ \A p \in Executors : /\ pc[p] \in {"off", "done"}
                              /\ ~Active(p) /\ ~Finished(p)
      /\ \A r \in Requests : InFlight(r) => r = q
      /\ pc[ExecuteJob] = "done"
  BY <1>1, HandledAlone
<1>5. /\ req'[q].pc = "done" /\ req'[q].esc = req[q].esc
      /\ \A r \in Requests : r # q => req'[r] = req[r]
  BY <1>0, <1>3 DEF EnqueueRunResume
<1>6. /\ \A p \in Executors \ {ResumeJob(q), Fallback(q)} : pc'[p] = pc[p]
      /\ \/ pc'[ResumeJob(q)] = "queued" /\ pc'[Fallback(q)] = "sleep"
         \/ pc'[ResumeJob(q)] = pc[ResumeJob(q)] /\ pc'[Fallback(q)] = "queued"
  <2>1. ResumeJob(q) # Fallback(q)
    BY ExecutorsDistinct
  <2>2. CASE pc' = [pc EXCEPT ![ResumeJob(q)] = "queued", ![Fallback(q)] = "sleep"]
    BY <1>0, <2>1, <2>2
  <2>3. CASE pc' = [pc EXCEPT ![Fallback(q)] = "queued"]
    BY <1>0, <2>1, <2>3
  <2> QED BY <1>3, <2>2, <2>3 DEF EnqueueRunResume
<1>7. /\ \A p \in Executors : pc'[p] \in {"off", "done", "queued", "sleep"}
      /\ \A p \in Executors : Poised(p)' => p \in {ResumeJob(q), Fallback(q)}
      /\ \E p \in Executors : Poised(p)'
  BY <1>0, <1>4, <1>6 DEF Poised
<1>8. \A p \in Executors :
         /\ ~Active(p)' /\ ~Finished(p)' /\ ~Driven(p)' /\ ~Asking(p)'
         /\ pc'[p] # "ask"
  BY <1>7 DEF Active, Finished, Driven, Asking, NodePCs
<1>9. EndsInv'
  <2>1. pc'[ExecuteJob] = "done"
    BY <1>4, <1>6, ExecutorFacts, ExecutorsDistinct
  <2> QED BY <1>3, <1>4, <2>1 DEF ContractInv, EndsInv, runVars, grVars, restVars
<1>10. WorkInv'
  BY <1>3, <1>4, <1>8 DEF ContractInv, WorkInv, runVars
<1>11. PlaceInv'
  BY <1>3, <1>8 DEF ContractInv, PlaceInv, grVars
<1>12. OpenEscs' = {}
  BY <1>2, <1>3 DEF OpenEscs
<1>13. AskInv'
  BY <1>7, <1>8, <1>12 DEF AskInv, Pending
<1>14. HandInv'
  <2>1. \A r \in Requests : Handed(r)'
    BY <1>4, <1>5 DEF Handed, InFlight
  <2>2. ASSUME NEW p \in {ResumeJob(q), Fallback(q)} PROVE Readied(p)'
    <3>1. p[2] = q /\ p \in Executors /\ pc'[p] # "loaded"
      <4>1. p[2] = q
        BY <2>2 DEF ResumeJob, Fallback
      <4> QED BY <1>0, <1>7, <2>2, <4>1
    <3>2. status = "paused" => escNode[req[q].esc] = ckpt.node
      BY <1>1 DEF ContractInv, HandInv, Handed
    <3> QED BY <1>2, <1>3, <1>5, <1>12, <3>1, <3>2 DEF Readied, runVars, grVars
  <2>3. \A p \in Executors : Readied(p)'
    BY <1>7, <2>2 DEF Readied
  <2> QED BY <2>1, <2>3 DEF HandInv
<1>15. UseInv'
  <2>1. ASSUME NEW r \in RangeOf(ckpt.resumes) PROVE Spent(r)'
    <3>1. r \in Requests /\ req[r].pc = "done" /\ r # q
      BY <1>0, <1>1 DEF ContractInv, UseInv, Spent, RangeOf
    <3>2. /\ ResumeJob(r) \in Executors \ {ResumeJob(q), Fallback(q)}
          /\ Fallback(r) \in Executors \ {ResumeJob(q), Fallback(q)}
      BY <3>1, ExecutorFacts, ExecutorsDistinct
    <3>3. ~Poised(ResumeJob(r))' /\ ~Poised(Fallback(r))'
      BY <1>7, <3>2
    <3> QED BY <1>5, <3>1, <3>3 DEF Spent
  <2> QED BY <1>3, <1>8, <2>1 DEF UseInv, Carries, grVars
<1> QED BY <1>9, <1>10, <1>11, <1>13, <1>14, <1>15 DEF ContractInv

(* The fallback wakes where its job came first: it has nothing to do.      *)
LEMMA SleepingStays ==
    ASSUME KnownInv, ContractInv, Prompt, NEW q \in Requests,
           ResumeIfStillPaused(q)
    PROVE  ContractInv'
<1>0. Fallback(q) \in Executors /\ ResumeJob(q) \in Executors
  BY ExecutorFacts
<1>1. /\ pc[Fallback(q)] = "sleep" /\ pc[ResumeJob(q)] \notin {"queued", "loaded"}
      /\ UNCHANGED <<runVars, escVars, grVars, mem, req, restVars>>
  BY DEF ResumeIfStillPaused
<1>2. ~Active(Fallback(q)) /\ Busy(Fallback(q)) /\ ~Poised(Fallback(q))
  BY <1>1 DEF Active, Busy, Poised
<1>3. \A r \in Requests : ~InFlight(r)
  BY <1>0, <1>2 DEF KnownInv, DriverInv, HandledAtRest
<1>4. \A p \in Executors : ~Poised(p)
  <2> SUFFICES ASSUME NEW p \in Executors, Poised(p) PROVE FALSE
    OBVIOUS
  <2>1. p = ResumeJob(q)
    BY <1>1, <1>2 DEF KnownInv, DriverInv, SleepsByItsJob, Busy, Poised
  <2> QED BY <1>1, <2>1 DEF Poised
<1>5. status = "paused" => Answerable /\ OpenEscs # {}
  BY <1>3, <1>4 DEF ContractInv, AskInv, Pending, Answerable
<1>6. Goto(Fallback(q), "done")
  BY <1>5 DEF ResumeIfStillPaused
<1>7. Readied(Fallback(q))'
  <2>1. pc'[Fallback(q)] = "done"
    BY <1>0, <1>6 DEF Goto, KnownInv, TypeInv, TypeOK
  <2> QED BY <2>1 DEF Readied, Poised
<1>8. status # "absent"
  <2>1. pc[ExecuteJob] # "off"
    BY <1>0, <1>2 DEF KnownInv, DriverInv, QuietAtFirst
  <2> QED BY <2>1 DEF ContractInv, EndsInv
<1> QED BY <1>0, <1>1, <1>2, <1>5, <1>6, <1>7, <1>8, RestsKept DEF escVars, grVars

(* A patient person finds the run at rest, and answers the question it is  *)
(* parked behind.                                                          *)
LEMMA PeopleStay ==
    ASSUME KnownInv, ContractInv, InTime, People
    PROVE  ContractInv'
<1>0. /\ req \in [Requests -> [pc : RequestPCs, esc : 0 .. MaxEscalations,
                             kind : AllKinds, via : AllVias]]
  BY DEF KnownInv, TypeInv, TypeOK
<1>1. ASSUME NEW q \in Requests,
             (\E e \in EscIds : LookAtEscalation(q, e)) \/ AbortEndpoint(q)
      PROVE  ContractInv'
  <2>1. /\ req[q].pc = "idle" /\ MayAct
        /\ UNCHANGED <<runVars, escVars, grVars, pc, mem, restVars>>
    BY <1>1 DEF LookAtEscalation, AbortEndpoint
  <2>2. /\ \A p \in Executors : ~Poised(p)
        /\ \A r \in Requests : ~InFlight(r)
    BY <2>1 DEF MayAct, InTime, AtRest, NothingPending, Poised, InFlight
  <2>3. \A r \in Requests : r # q => req'[r] = req[r]
    BY <1>0, <1>1 DEF LookAtEscalation, AbortEndpoint
  <2>4. \/ req'[q].pc = "done"
        \/ /\ req'[q].pc = "checked" /\ req'[q].esc \in EscIds
           /\ escSt[req'[q].esc] = "open"
    BY <1>0, <1>1 DEF LookAtEscalation, AbortEndpoint
  <2>5. EndsInv'
    BY <2>1 DEF ContractInv, EndsInv, runVars, grVars, restVars
  <2>6. WorkInv'
    BY <2>1 DEF ContractInv, WorkInv, Active, Finished, runVars
  <2>7. status = "paused" => Answerable
    BY <2>2 DEF ContractInv, AskInv, Pending
  <2>8. AskInv'
    BY <2>1, <2>7 DEF ContractInv, AskInv, Asking, Answerable, OpenEscs,
                      runVars, escVars, grVars
  <2>9. HandInv'
    <3>1. Handed(q)'
      <4>1. CASE req'[q].pc = "done"
        BY <4>1 DEF Handed, InFlight
      <4>2. CASE req'[q].pc = "checked" /\ escSt[req'[q].esc] = "open"
        <5>1. req'[q].esc \in OpenEscs
          BY <2>4, <4>2 DEF OpenEscs
        <5>2. OpenEscs \subseteq {req'[q].esc}
          BY <5>1 DEF KnownInv, QuestionInv, OneOpenQuestion
        <5>3. status = "paused" => escNode[req'[q].esc] = ckpt.node
          BY <2>7, <5>2 DEF Answerable
        <5> QED BY <2>1, <2>4, <4>2, <5>2, <5>3
            DEF Handed, InFlight, OpenEscs, runVars, escVars, grVars
      <4> QED BY <2>4, <4>1, <4>2
    <3>2. \A r \in Requests : r # q => Handed(r)'
      BY <2>2, <2>3 DEF Handed, InFlight
    <3>3. \A p \in Executors : Readied(p)'
      BY <2>1, <2>2 DEF Readied, Poised
    <3> QED BY <3>1, <3>2, <3>3 DEF HandInv
  <2>10. \A r \in Requests : req[r].pc = "done" => req'[r] = req[r]
    BY <2>1, <2>3
  <2> QED BY <2>1, <2>5, <2>6, <2>8, <2>9, <2>10, AsideKept DEF escVars, grVars
<1>2. CASE CheckDeletable
  <2>1. /\ UNCHANGED <<runVars, escVars, grVars, pc, mem, req, sweep, crashes>>
        /\ status \in Deletable
    BY <1>2 DEF CheckDeletable
  <2>2. EndsInv'
    BY <2>1 DEF ContractInv, EndsInv, Deletable, Terminal, runVars, grVars
  <2>3. WorkInv'
    BY <2>1 DEF ContractInv, WorkInv, Active, Finished, runVars
  <2>4. AskInv'
    BY <2>1 DEF ContractInv, AskInv, Asking, Answerable, OpenEscs, Pending,
                InFlight, Poised, runVars, escVars, grVars
  <2>5. HandInv'
    BY <2>1 DEF ContractInv, HandInv, Handed, Readied, InFlight, Poised,
                OpenEscs, runVars, escVars, grVars
  <2> QED BY <2>1, <2>2, <2>3, <2>4, <2>5, AsideKept DEF escVars, grVars
<1>3. \A q \in Requests : ~ResumeEndpoint(q)
  BY DEF InTime, ResumeEndpoint
<1> QED BY <1>1, <1>2, <1>3 DEF People

(* A deletion fails, or takes the run and all it asked.                    *)
LEMMA DeletingStays ==
    ASSUME KnownInv, ContractInv, DeleteRun
    PROVE  ContractInv'
<1>0. /\ escSt \in [EscIds -> {"none", "open", "resolved", "timed_out", "gone"}]
      /\ made \in 0 .. MaxEscalations
  BY DEF KnownInv, TypeInv, TypeOK
<1>1. UNCHANGED <<escNode, made, ckpt, pc, mem, req, sweep>>
  BY DEF DeleteRun
<1>2. /\ deleting' = NotDeleting
      /\ \/ UNCHANGED <<runVars, escSt, ns>>
         \/ /\ status' = "deleted" /\ ~output' /\ OpenEscs' \subseteq OpenEscs
            /\ \A n \in Nodes : ns'[n].st = "none"
            /\ status # "absent"
  <2>1. status # "absent"
    BY DEF DeleteRun, ContractInv, EndsInv
  <2> QED BY <1>0, <2>1 DEF DeleteRun, OpenEscs
<1>3. EndsInv'
  BY <1>1, <1>2 DEF ContractInv, EndsInv, runVars
<1>4. WorkInv'
  BY <1>1, <1>2 DEF ContractInv, WorkInv, Active, Finished, runVars
<1>5. AskInv'
  <2>1. CASE UNCHANGED <<runVars, escSt, ns>>
    BY <1>1, <2>1 DEF ContractInv, AskInv, Asking, Answerable, OpenEscs,
                      Pending, InFlight, Poised, runVars
  <2>2. CASE status' = "deleted"
    BY <2>2 DEF AskInv
  <2> QED BY <1>2, <2>1, <2>2
<1>6. HandInv'
  <2>1. CASE UNCHANGED <<runVars, escSt, ns>>
    BY <1>1, <2>1 DEF ContractInv, HandInv, Handed, Readied, InFlight, Poised,
                      OpenEscs, runVars
  <2>2. CASE status' = "deleted" /\ OpenEscs' \subseteq OpenEscs
    BY <1>1, <2>2 DEF ContractInv, HandInv, Handed, Readied, InFlight, Poised
  <2> QED BY <1>2, <2>1, <2>2
<1>7. \A n \in Nodes : ns'[n].st = "paused" => ns[n].st = "paused"
  BY <1>2
<1> QED BY <1>1, <1>3, <1>4, <1>5, <1>6, <1>7, AsideKept

-----------------------------------------------------------------------------
(* The invariant holds at first ...                                        *)
LEMMA InitContract == Init => KnownInv /\ ContractInv
<1> SUFFICES ASSUME Init PROVE KnownInv /\ ContractInv
  OBVIOUS
<1>1. KnownInv
  BY InitTypeInv, InitDriver, InitQuestion, InitOutput, InitAnswers DEF KnownInv
<1>2. /\ \A p \in Executors : /\ pc[p] = "off" /\ ~Active(p) /\ ~Driven(p)
                              /\ ~Asking(p) /\ ~Poised(p)
      /\ \A q \in Requests : req[q].pc = "idle"
      /\ RangeOf(ckpt.resumes) = {}
  BY IdleHolds DEF Init, Active, Driven, Asking, Poised, NodePCs
<1>3. EndsInv /\ WorkInv /\ PlaceInv
  BY <1>2, ExecutorFacts
  DEF Init, EndsInv, WorkInv, PlaceInv, NotDeleting
<1>4. AskInv /\ HandInv /\ UseInv
  BY <1>2 DEF Init, AskInv, HandInv, Handed, Readied, InFlight, UseInv, Carries
<1> QED BY <1>1, <1>3, <1>4 DEF ContractInv

(* ... what it builds on holds after every step ...                        *)
LEMMA NextKnown ==
    ASSUME InTime, KnownInv, [Next]_vars
    PROVE  KnownInv'
<1>1. TypeInv'
  BY NextTypeInv DEF KnownInv
<1> QED BY <1>1, NextDriver, NextQuestion, NextOutput, NextAnswers
    DEF KnownInv, InTime

(* In time, no deadline passes and nothing crashes.                        *)
LEMMA StepsInTime ==
    ASSUME InTime, KnownInv, ContractInv, Next
    PROVE  \/ Starting \/ People \/ DeleteRun
           \/ \E p \in Executors : Driving(p) \/ NodeFails(p)
           \/ \E q \in Requests : Handling(q)
<1>1. ~FindExpired /\ ~Sweep
  BY DEF InTime, FindExpired, Sweep, TimeoutOpenEscalations, CheckTimedOutRun,
         StopTimedOutRun, ContractInv, EndsInv
<1>2. ~WorkerCrash /\ ~ApiCrash
  BY DEF InTime, WorkerCrash, ApiCrash, KnownInv, TypeInv, TypeOK
<1> QED BY <1>1, <1>2 DEF Next, Faults

(* ... and so does the invariant.                                          *)
LEMMA NextContract ==
    ASSUME InTime, KnownInv, ContractInv, [Next]_vars
    PROVE  ContractInv'
<1>1. CASE Starting
  BY <1>1, WaitingStays, MarkingStays, ExecutorFacts DEF Starting
<1>2. ASSUME NEW p \in Executors, Driving(p) \/ NodeFails(p) PROVE ContractInv'
  BY <1>2, WaitingStays, MarkingStays, AskingStays, PausingStays, TakingStays,
     CompletingStays, FinishingStays DEF Driving, NodeStep
<1>3. ASSUME NEW q \in Requests, Handling(q) PROVE ContractInv'
  BY <1>3, ResolvingStays, StoppingStays, EnqueueingStays, SleepingStays
  DEF Handling, InTime
<1>4. CASE People \/ DeleteRun
  BY <1>4, PeopleStay, DeletingStays
<1>5. CASE UNCHANGED vars
  BY <1>5 DEF vars, ContractInv, EndsInv, WorkInv, PlaceInv, AskInv, HandInv,
     UseInv, Active, Finished, Driven, Asking, Answerable, Pending, InFlight,
     Poised, Handed, Readied, Spent, Carries, OpenEscs
<1>6. CASE Next
  BY <1>1, <1>2, <1>3, <1>4, <1>6, StepsInTime
<1> QED BY <1>5, <1>6

-----------------------------------------------------------------------------
(* The initial state is one of the contract.                               *)
LEMMA InitMeets == Init => Contract!Init
BY DEF Init, Contract!Init, Asked

(* A step that people do not see.                                          *)
LEMMA Unseen ==
    ASSUME UNCHANGED <<status, output>>,
           status = "paused" => OpenEscs' = OpenEscs
    PROVE  UNCHANGED Contract!contract
BY DEF Contract!contract, Asked

(* Starting the run: created, then started.                                *)
LEMMA StartingMeets ==
    ASSUME KnownInv, ContractInv, Starting
    PROVE  Contract!Next \/ UNCHANGED Contract!contract
<1>1. CASE CreateRun
  BY <1>1 DEF CreateRun, Contract!Next, Contract!Create, Contract!To, Asked
<1>2. CASE EnqueueExecute \/ ExecuteRunLoad
  <2>1. UNCHANGED <<status, output>> /\ OpenEscs' = OpenEscs
    BY <1>2 DEF EnqueueExecute, ExecuteRunLoad, runVars, escVars, OpenEscs
  <2> QED BY <2>1, Unseen
<1>3. CASE ExecuteRunMark
  <2>1. status \in {"queued", "deleted"}
    BY <1>3 DEF ExecuteRunMark, ContractInv, EndsInv
  <2> QED BY <1>3, <2>1
      DEF ExecuteRunMark, Contract!Next, Contract!Start, Contract!To,
          Contract!contract, Asked
<1> QED BY <1>1, <1>2, <1>3 DEF Starting

(* Driving the run: it resumes when the question is decided, and asks,     *)
(* publishes its output, completes or fails.                               *)
LEMMA DrivingMeets ==
    ASSUME KnownInv, ContractInv, NEW p \in Executors, Driving(p) \/ NodeFails(p)
    PROVE  Contract!Next \/ UNCHANGED Contract!contract
<1>1. CASE ResumeRunRead(p)
  <2>1. UNCHANGED <<status, output>> /\ OpenEscs' = OpenEscs
    BY <1>1 DEF ResumeRunRead, runVars, escVars, OpenEscs
  <2> QED BY <2>1, Unseen
<1>2. CASE ResumeRunMark(p)
  <2>1. status \in {"paused", "deleted"} /\ OpenEscs = {}
    BY <1>2 DEF ResumeRunMark, ContractInv, HandInv, Readied, Poised
  <2> QED BY <1>2, <2>1
      DEF ResumeRunMark, MarkedRunning, Contract!Next, Contract!Resume,
          Contract!To, Contract!contract, Asked
<1>3. CASE NodeStep(p) \/ NodeFails(p)
  <2>1. UNCHANGED <<status, output>> /\ Driven(p)
    BY <1>3 DEF NodeStep, NodeFails, NodeRaises, AdoptEscalation, PauseNode,
           CanAsk, SupersedeEscalations, CreateEscalation, RecordEscalation,
           Interrupt, TakeAnswer, CompleteNode, runVars, Driven, NodePCs
  <2>2. status # "paused"
    BY <2>1, InsideNode
  <2> QED BY <2>1, <2>2, Unseen
<1>4. CASE PersistOutput(p) \/ ReadRunStatus(p) \/ UpdateRunStatus(p)
  <2>1. Active(p) /\ ~Resting(p)
    BY <1>4 DEF PersistOutput, ReadRunStatus, UpdateRunStatus, Active, Resting
  <2>2. /\ status \in {"running", "deleted"}
        /\ output => Finished(p)
    BY <2>1, Alone, RestingHasNoPart DEF ContractInv, WorkInv
  <2>3. CASE PersistOutput(p)
    <3>1. output \in BOOLEAN
      BY DEF KnownInv, TypeInv, TypeOK
    <3>2. CASE status = "running"
      BY <2>3, <3>2 DEF PersistOutput, Contract!Next, Contract!Publish, Asked
    <3>3. CASE status = "deleted"
      <4>1. ~output /\ ~output' /\ output' \in BOOLEAN
        BY <2>3, <3>1, <3>3 DEF PersistOutput, ContractInv, EndsInv
      <4> QED BY <2>3, <3>1, <3>3, <4>1 DEF PersistOutput, Contract!contract, Asked
    <3> QED BY <2>2, <3>2, <3>3
  <2>4. CASE ReadRunStatus(p)
    BY <2>2, <2>4, Unseen DEF ReadRunStatus, runVars
  <2>5. CASE UpdateRunStatus(p) /\ status = "deleted"
    BY <2>5, Unseen DEF UpdateRunStatus
  <2>6. CASE UpdateRunStatus(p) /\ status = "running"
    <3>1. /\ status' = mem[p].fin /\ UNCHANGED <<output, escVars, ckpt>>
          /\ pc[p] = "write" /\ mem[p].fin \in {"paused", "completed", "failed"}
      BY <2>6 DEF UpdateRunStatus, KnownInv, TypeInv, TypeOK, NodeAtWork, Fits,
                  Memory
    <3>2. CASE mem[p].fin = "paused"
      <4>1. Answerable /\ ~output
        BY <2>2, <2>6, <3>1, <3>2 DEF Asking, ContractInv, AskInv, Finished
      <4>2. OpenEscs' # {}
        BY <3>1, <4>1 DEF Answerable, OpenEscs, escVars
      <4> QED BY <2>6, <3>1, <3>2, <4>1, <4>2
          DEF Contract!Next, Contract!Ask, Asked
    <3>3. CASE mem[p].fin = "completed"
      <4>1. output
        BY <2>6, <3>1, <3>3 DEF KnownInv, OutputInv, Finished
      <4> QED BY <2>6, <3>1, <3>3, <4>1
          DEF Contract!Next, Contract!Complete, Contract!To, Asked
    <3>4. CASE mem[p].fin = "failed"
      <4>1. ~output
        BY <2>2, <3>4 DEF Finished
      <4> QED BY <2>6, <3>1, <3>4, <4>1
          DEF Contract!Next, Contract!Fail, Contract!To, Asked
    <3> QED BY <3>1, <3>2, <3>3, <3>4
  <2> QED BY <1>4, <2>2, <2>3, <2>4, <2>5, <2>6
<1> QED BY <1>1, <1>2, <1>3, <1>4 DEF Driving

(* Handling an answer: the question is decided, and the run stopped at     *)
(* most.                                                                   *)
LEMMA HandlingMeets ==
    ASSUME KnownInv, ContractInv, NEW q \in Requests, Handling(q)
    PROVE  Contract!Next \/ UNCHANGED Contract!contract
<1>1. CASE ResolveEscalation(q)
  <2>1. UNCHANGED <<status, output>> /\ OpenEscs' \subseteq OpenEscs
    BY <1>1 DEF ResolveEscalation, runVars, OpenEscs, KnownInv, TypeInv, TypeOK
  <2> QED BY <2>1 DEF Contract!Next, Contract!Decide, Contract!contract, Asked
<1>2. CASE StopRun(q)
  <2>1. status \in {"paused", "deleted"} /\ OpenEscs = {}
    BY <1>2 DEF StopRun, ContractInv, HandInv, Handed
  <2>2. OpenEscs' = {}
    BY <1>2, <2>1 DEF StopRun, OpenEscs
  <2> QED BY <1>2, <2>1, <2>2
      DEF StopRun, Contract!Next, Contract!Stop, Contract!To,
          Contract!contract, Asked
<1>3. CASE \/ EnqueueRunResume(q) \/ AbortFromEscalation(q)
           \/ EnqueueFromEndpoint(q) \/ ResumeIfStillPaused(q)
  <2>1. UNCHANGED <<status, output>> /\ OpenEscs' = OpenEscs
    BY <1>3 DEF EnqueueRunResume, AbortFromEscalation, EnqueueFromEndpoint,
                ResumeIfStillPaused, runVars, escVars, OpenEscs
  <2> QED BY <2>1, Unseen
<1> QED BY <1>1, <1>2, <1>3 DEF Handling

(* People only look, and a deletion takes everything at once.              *)
LEMMA PeopleMeet ==
    ASSUME KnownInv, ContractInv, People \/ DeleteRun
    PROVE  Contract!Next \/ UNCHANGED Contract!contract
<1>1. CASE People
  <2>1. UNCHANGED <<status, output>> /\ OpenEscs' = OpenEscs
    BY <1>1 DEF People, LookAtEscalation, ResumeEndpoint, AbortEndpoint,
                CheckDeletable, runVars, escVars, OpenEscs
  <2> QED BY <2>1, Unseen
<1>2. CASE DeleteRun
  <2>1. status \notin {"absent", "deleted"}
    BY <1>2 DEF DeleteRun, ContractInv, EndsInv
  <2>2. CASE UNCHANGED <<runVars, escSt, ns>>
    BY <2>2, Unseen DEF runVars, OpenEscs
  <2>3. CASE status' = "deleted" /\ output' = FALSE
    BY <2>1, <2>3 DEF Contract!Next, Contract!Delete, Asked
  <2> QED BY <1>2, <2>2, <2>3 DEF DeleteRun
<1> QED BY <1>1, <1>2

(* Every step of a run is a step of its contract, or one people do not see.*)
LEMMA StepMeets ==
    ASSUME InTime, KnownInv, ContractInv, [Next]_vars
    PROVE  [Contract!Next]_(Contract!contract)
<1>1. CASE UNCHANGED vars
  BY <1>1, Unseen DEF vars, OpenEscs
<1>2. CASE Next
  BY <1>2, StepsInTime, StartingMeets, DrivingMeets, HandlingMeets, PeopleMeet
<1> QED BY <1>1, <1>2

(* RunLifecycle implements RunContract: in time, a run is created, started,*)
(* parked only behind a question, resumed or stopped only when that is     *)
(* decided, and ended once, with its output if it completed.               *)
THEOREM RunMeetsContract == ASSUME InTime PROVE Spec => MeetsContract
<1>1. KnownInv /\ ContractInv /\ [Next]_vars => KnownInv' /\ ContractInv'
  BY NextKnown, NextContract
<1>2. KnownInv /\ ContractInv /\ [Next]_vars
         => [Contract!Next]_(Contract!contract)
  BY StepMeets
<1> QED BY <1>1, <1>2, InitContract, InitMeets, PTL
        DEF Spec, MeetsContract, Contract!Spec

(* A terminal status is final in time: no late job, fallback or abort      *)
(* writes over it.                                                         *)
THEOREM EndIsFinal == ASSUME InTime PROVE Spec => TerminalIsFinal
<1>1. KnownInv /\ ContractInv /\ [Next]_vars => KnownInv' /\ ContractInv'
  BY NextKnown, NextContract
<1>2. KnownInv /\ ContractInv /\ [Next]_vars
         => [(status \in Terminal) => status' \in {status, "deleted"}]_status
  BY StepMeets
  DEF Terminal, Contract!Next, Contract!Create, Contract!Start, Contract!Ask,
      Contract!Decide, Contract!Resume, Contract!Stop, Contract!Publish,
      Contract!Complete, Contract!Fail, Contract!Delete, Contract!To,
      Contract!contract
<1> QED BY <1>1, <1>2, InitContract, PTL DEF Spec, TerminalIsFinal

(* In time, an answer reaches the node whose question it answers, whatever *)
(* the number of nodes, questions and answers.                             *)
THEOREM AnswersReachTheirNode == ASSUME InTime PROVE Spec => []AnswerFitsNode
<1>1. KnownInv /\ ContractInv /\ [Next]_vars => KnownInv' /\ ContractInv'
  BY NextKnown, NextContract
<1>2. ContractInv => AnswerFitsNode
  BY DEF ContractInv, UseInv, Carries, Driven, NodePCs, AnswerFitsNode, AnswerInHand
<1> QED BY <1>1, <1>2, InitContract, PTL DEF Spec

(* In time, job and fallback between them hand an answer to one interrupt. *)
THEOREM AnswersCountOnce == ASSUME InTime PROVE Spec => []AnswerUsedOnce
<1>1. KnownInv /\ ContractInv /\ [Next]_vars => KnownInv' /\ ContractInv'
  BY NextKnown, NextContract
<1>2. ContractInv => AnswerUsedOnce
  BY DEF ContractInv, UseInv, Carries, Driven, NodePCs, AnswerUsedOnce, AnswerInHand
<1> QED BY <1>1, <1>2, InitContract, PTL DEF Spec

(* In time, a paused run at rest has an open escalation of the node it     *)
(* waits in.                                                               *)
THEOREM ParkedBehindAQuestion == ASSUME InTime PROVE Spec => []PausedIsAnswerable
<1>1. KnownInv /\ ContractInv /\ [Next]_vars => KnownInv' /\ ContractInv'
  BY NextKnown, NextContract
<1>2. ContractInv => PausedIsAnswerable
  BY DEF ContractInv, AskInv, Answerable, Pending, InFlight, Poised, AtRest,
         NothingPending, PausedIsAnswerable
<1> QED BY <1>1, <1>2, InitContract, PTL DEF Spec

-----------------------------------------------------------------------------
(* A decision stands.  Superseding closes what was read as open a step     *)
(* earlier: it must still be open, or a decision would be overwritten.     *)
SupersedeInv ==
    /\ \A p \in Executors : pc[p] = "supersede" =>
          mem[p].sup \subseteq OpenEscs \/ status = "deleted"
    /\ \A e \in EscIds : escSt[e] = "resolved" => e <= made

(* Nobody else closes or creates an escalation while one is superseded.    *)
LEMMA NextSupersede ==
    ASSUME InTime, KnownInv, ContractInv, SupersedeInv, [Next]_vars
    PROVE  SupersedeInv'
<1>0. /\ pc \in [Executors -> ExecutorPCs] /\ mem \in [Executors -> Memory]
      /\ escSt \in [EscIds -> {"none", "open", "resolved", "timed_out", "gone"}]
      /\ made \in 0 .. MaxEscalations
  BY DEF KnownInv, TypeInv, TypeOK
<1>1. CASE Starting \/ People
  <2>1. UNCHANGED <<status, escSt, made, mem>> \/ ExecuteRunMark \/ CreateRun
    BY <1>1 DEF Starting, EnqueueExecute, ExecuteRunLoad, People,
       LookAtEscalation, ResumeEndpoint, AbortEndpoint, CheckDeletable,
       runVars, escVars
  <2>2. /\ UNCHANGED <<escSt, made>>
        /\ status = "deleted" => status' = "deleted"
    BY <1>1, <2>1 DEF ExecuteRunMark, CreateRun, escVars
  <2>3. \A r \in Executors : pc'[r] = "supersede" =>
           pc[r] = "supersede" /\ mem'[r] = mem[r]
    BY <1>0, <1>1 DEF Starting, CreateRun, EnqueueExecute, ExecuteRunLoad,
       ExecuteRunMark, Goto, People, LookAtEscalation, ResumeEndpoint,
       AbortEndpoint, CheckDeletable
  <2> QED BY <2>2, <2>3 DEF SupersedeInv, OpenEscs
<1>2. ASSUME NEW p \in Executors, Driving(p) \/ NodeFails(p) PROVE SupersedeInv'
  <2>1. ~Resting(p)
    BY <1>2 DEF Driving, NodeStep, NodeFails, ResumeRunRead, ResumeRunMark,
       NodeRaises, AdoptEscalation, PauseNode, CanAsk, SupersedeEscalations,
       CreateEscalation, RecordEscalation, Interrupt, TakeAnswer, CompleteNode,
       PersistOutput, ReadRunStatus, UpdateRunStatus, Resting
  <2>2. \A r \in Executors : r # p => pc'[r] # "supersede"
    BY <1>2, <2>1, Alone, OneExecutorMoves DEF Resting, KnownInv
  <2>3. pc'[p] = "supersede" => PauseNode(p)
    <3>1. CASE TakeAnswer(p)
      BY <1>0, <3>1 DEF TakeAnswer, Goto
    <3>2. CASE ~TakeAnswer(p)
      BY <1>0, <1>2, <3>2 DEF Driving, NodeStep, NodeFails, ResumeRunRead,
         ResumeRunMark, NodeRaises, AdoptEscalation, SupersedeEscalations,
         CreateEscalation, RecordEscalation, Interrupt, CompleteNode,
         PersistOutput, ReadRunStatus, UpdateRunStatus, Finish, Goto
    <3> QED BY <3>1, <3>2
  <2>4. PauseNode(p) => mem'[p].sup \subseteq OpenEscs'
    BY <1>0 DEF PauseNode, Superseded, OpenEscs, escVars, Memory
  <2>5. \A e \in EscIds : escSt'[e] = "resolved" => e <= made'
    <3>1. CASE CreateEscalation(p)
      BY <1>0, <3>1, ConstantsAssumption
      DEF CreateEscalation, SupersedeInv, EscIds
    <3>2. CASE SupersedeEscalations(p)
      BY <1>0, <3>2 DEF SupersedeEscalations, SupersedeInv
    <3>3. CASE ~CreateEscalation(p) /\ ~SupersedeEscalations(p)
      <4>1. UNCHANGED <<escSt, made>>
        BY <1>2, <3>3 DEF Driving, NodeStep, NodeFails, ResumeRunRead,
           ResumeRunMark, NodeRaises, AdoptEscalation, PauseNode,
           RecordEscalation, Interrupt, TakeAnswer, CompleteNode,
           PersistOutput, ReadRunStatus, UpdateRunStatus, escVars
      <4> QED BY <4>1 DEF SupersedeInv
    <3> QED BY <3>1, <3>2, <3>3
  <2> QED BY <2>2, <2>3, <2>4, <2>5 DEF SupersedeInv
<1>3. ASSUME NEW q \in Requests, Handling(q) PROVE SupersedeInv'
  <2>1. \A r \in Executors : pc'[r] # "supersede" \/ pc'[r] = pc[r]
    BY <1>0, <1>3
    DEF Handling, ResolveEscalation, EnqueueRunResume, AbortFromEscalation,
        StopRun, EnqueueFromEndpoint, ResumeIfStillPaused, Goto
  <2>2. /\ UNCHANGED <<made, mem>>
        /\ status = "deleted" => status' = "deleted"
    BY <1>3 DEF Handling, ResolveEscalation, EnqueueRunResume, runVars,
          AbortFromEscalation, StopRun, EnqueueFromEndpoint,
          ResumeIfStillPaused, escVars
  <2>3. CASE ResolveEscalation(q)
    <3>1. \A r \in Executors : pc[r] # "supersede"
      BY <2>3, HandledAlone DEF ResolveEscalation, InFlight
    <3>2. req[q].esc <= made
      BY DEF KnownInv, AnswerInv, Known
    <3>3. \A e \in EscIds : escSt'[e] = "resolved" => e <= made
      BY <1>0, <2>3, <3>2 DEF ResolveEscalation, SupersedeInv
    <3> QED BY <2>1, <2>2, <3>1, <3>3 DEF SupersedeInv
  <2>4. CASE ~ResolveEscalation(q)
    <3>1. UNCHANGED escSt
      BY <1>3, <2>4 DEF Handling, EnqueueRunResume, AbortFromEscalation,
          StopRun, EnqueueFromEndpoint, ResumeIfStillPaused, escVars
    <3> QED BY <2>1, <2>2, <3>1 DEF SupersedeInv, OpenEscs
  <2> QED BY <2>3, <2>4
<1>4. CASE DeleteRun
  <2>1. CASE UNCHANGED <<runVars, escSt, ns>>
    BY <1>4, <2>1 DEF DeleteRun, SupersedeInv, OpenEscs, runVars
  <2>2. CASE status' = "deleted" /\ deleting = made
    BY <1>0, <1>4, <2>2 DEF DeleteRun, SupersedeInv, runVars
  <2> QED BY <1>4, <2>1, <2>2 DEF DeleteRun
<1>5. CASE UNCHANGED vars
  BY <1>5 DEF vars, SupersedeInv, OpenEscs
<1>6. CASE Next
  BY <1>1, <1>2, <1>3, <1>4, <1>6, StepsInTime
<1> QED BY <1>5, <1>6

(* A step that superseded or created an escalation left decisions alone,   *)
(* and no other step takes a decision back.                                *)
LEMMA DecisionKept ==
    ASSUME InTime, KnownInv, ContractInv, SupersedeInv, [Next]_vars,
           NEW e \in EscIds, escSt[e] = "resolved"
    PROVE  escSt'[e] \in {"resolved", "gone"}
<1>0. /\ escSt \in [EscIds -> {"none", "open", "resolved", "timed_out", "gone"}]
      /\ made \in 0 .. MaxEscalations
  BY DEF KnownInv, TypeInv, TypeOK
<1>1. CASE Starting \/ People
  BY <1>1 DEF Starting, CreateRun, EnqueueExecute, ExecuteRunLoad,
     ExecuteRunMark, People, LookAtEscalation, ResumeEndpoint, AbortEndpoint,
     CheckDeletable, escVars
<1>2. ASSUME NEW p \in Executors, Driving(p) \/ NodeFails(p)
      PROVE  escSt'[e] \in {"resolved", "gone"}
  <2>1. CASE CreateEscalation(p)
    BY <1>0, <2>1, ConstantsAssumption DEF CreateEscalation, SupersedeInv, EscIds
  <2>2. CASE SupersedeEscalations(p)
    <3>1. e \notin mem[p].sup
      BY <2>2 DEF SupersedeEscalations, SupersedeInv, OpenEscs
    <3> QED BY <1>0, <2>2, <3>1 DEF SupersedeEscalations, Closing
  <2>3. CASE ~CreateEscalation(p) /\ ~SupersedeEscalations(p)
    BY <1>2, <2>3 DEF Driving, NodeStep, NodeFails, ResumeRunRead,
       ResumeRunMark, NodeRaises, AdoptEscalation, PauseNode,
       RecordEscalation, Interrupt, TakeAnswer, CompleteNode,
       PersistOutput, ReadRunStatus, UpdateRunStatus, escVars
  <2> QED BY <2>1, <2>2, <2>3
<1>3. ASSUME NEW q \in Requests, Handling(q)
      PROVE  escSt'[e] \in {"resolved", "gone"}
  <2>1. \/ UNCHANGED escSt
        \/ escSt' = [escSt EXCEPT ![req[q].esc] = "resolved"]
    BY <1>3 DEF Handling, ResolveEscalation, EnqueueRunResume,
       AbortFromEscalation, StopRun, EnqueueFromEndpoint,
       ResumeIfStillPaused, escVars
  <2> QED BY <1>0, <2>1
<1>4. CASE DeleteRun \/ UNCHANGED vars
  BY <1>0, <1>4 DEF DeleteRun, vars
<1> QED BY <1>1, <1>2, <1>3, <1>4, StepsInTime

(* In time, a decision of somebody is not superseded by the next question. *)
THEOREM DecisionsStand == ASSUME InTime PROVE Spec => DecisionStands
<1>1. Init => SupersedeInv
  BY DEF Init, SupersedeInv
<1>2. KnownInv /\ ContractInv /\ [Next]_vars => KnownInv' /\ ContractInv'
  BY NextKnown, NextContract
<1>3. KnownInv /\ ContractInv /\ SupersedeInv /\ [Next]_vars => SupersedeInv'
  BY NextSupersede
<1>4. KnownInv /\ ContractInv /\ SupersedeInv /\ [Next]_vars
         => [\A e \in EscIds : escSt[e] = "resolved" =>
                escSt'[e] \in {"resolved", "gone"}]_escSt
  BY DecisionKept
<1> QED BY <1>1, <1>2, <1>3, <1>4, InitContract, PTL DEF Spec, DecisionStands
=============================================================================
