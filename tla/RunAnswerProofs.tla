--------------------------- MODULE RunAnswerProofs ---------------------------
(***************************************************************************)
(* What becomes of the answers people give to a run, whatever their timing *)
(* and the timing of the queue, with crashes, deadlines and deletions: for *)
(* every workflow, any number of answers and any bound on escalations.     *)
(***************************************************************************)
EXTENDS RunLifecycleProofs

(* The answers a local state of an executor holds.                         *)
Held(m) == RangeOf(m.resumes) \cup {m.val}

(* The graph, or somebody who will drive it, has got an answer.            *)
InUse(q) ==
    \/ pc[ResumeJob(q)] # "off"
    \/ pc[Fallback(q)] # "off"
    \/ q \in RangeOf(ckpt.resumes)
    \/ \E p \in Executors : q \in Held(mem[p])

(* An answer was committed, and its escalation, if it has one, is closed.  *)
Settled(q) ==
    /\ req[q].pc \notin {"idle", "checked"}
    /\ req[q].esc # NoEsc => escSt[req[q].esc] # "open"

(* Whatever was asked has a number by now, so the next escalation is none  *)
(* that was answered.                                                      *)
Known ==
    /\ \A e \in EscIds : escSt[e] = "open" => e <= made
    /\ \A q \in Requests : req[q].esc <= made

Committed ==
    \A q \in Requests : req[q].pc \in {"committed", "stopping"} => Settled(q)

AnswerInv ==
    /\ Known
    /\ Committed
    /\ \A q \in Requests : InUse(q) => Settled(q)

(* What a step has to satisfy.                                             *)
LEMMA AnswersKept ==
    ASSUME AnswerInv, Known', Committed',
           \A q \in Requests : Settled(q) => Settled(q)',
           \A q \in Requests : InUse(q)' => InUse(q) \/ Settled(q)'
    PROVE  AnswerInv'
BY DEF AnswerInv

(* A step that leaves escalations and requests alone.                      *)
LEMMA AnswersAside ==
    ASSUME AnswerInv, UNCHANGED <<escSt, made, req>>,
           \A q \in Requests : InUse(q)' => InUse(q)
    PROVE  AnswerInv'
BY DEF AnswerInv, Known, Committed, Settled

-----------------------------------------------------------------------------
(* Appending adds one element to what a sequence holds.                    *)
LEMMA RangeOfAppend ==
    ASSUME NEW S, NEW s \in Seq(S), NEW v \in S
    PROVE  RangeOf(Append(s, v)) \subseteq RangeOf(s) \cup {v}
<1>1. \A i \in 1 .. Len(s) + 1 : Append(s, v)[i] = IF i <= Len(s) THEN s[i] ELSE v
  OBVIOUS
<1>2. Len(Append(s, v)) = Len(s) + 1 /\ Len(s) \in Nat
  OBVIOUS
<1> QED BY <1>1, <1>2 DEF RangeOf

(* An executor that starts holds no answer.                                *)
LEMMA IdleHolds == Held(Idle) = {NoRequest} /\ RangeOf(<<>>) = {}
BY DEF Held, Idle, RangeOf

(* An interrupt that returns moves an answer, and makes none.              *)
LEMMA ConsumedHolds ==
    ASSUME NEW m \in Memory, HasAnswer(m)
    PROVE  Held(Consumed(m)) \subseteq Held(m) \cup {NoRequest}
<1>1. m.resumes \in Seq(Requests)
  BY DEF Memory
<1>2. CASE Recorded(m)
  <2>1. Consumed(m).resumes = m.resumes /\ Consumed(m).val = m.val
    BY <1>2 DEF Consumed, Memory
  <2> QED BY <2>1 DEF Held
<1>3. CASE ~Recorded(m)
  <2>1. /\ Consumed(m).resumes = Append(m.resumes, m.val)
        /\ Consumed(m).val = NoRequest
    BY <1>3 DEF Consumed, Memory
  <2>2. m.val \in Requests
    BY <1>3 DEF HasAnswer, Memory
  <2>3. RangeOf(Append(m.resumes, m.val)) \subseteq RangeOf(m.resumes) \cup {m.val}
    BY <1>1, <2>2, RangeOfAppend
  <2> QED BY <2>1, <2>3 DEF Held
<1> QED BY <1>2, <1>3

(* The first job brings no answer.                                         *)
LEMMA FirstJob ==
    \A q \in Requests : ExecuteJob # ResumeJob(q) /\ ExecuteJob # Fallback(q)
BY DEF ExecuteJob, ResumeJob, Fallback

(* A step of one executor that is about already, and puts only answers in  *)
(* use where it writes.                                                    *)
LEMMA OneUses ==
    ASSUME NEW p \in Executors,
           p = ExecuteJob \/ pc[p] # "off",
           \A r \in Executors : r # p => pc'[r] = pc[r] /\ mem'[r] = mem[r],
           \A q \in Requests : q \in Held(mem'[p]) => InUse(q),
           \A q \in Requests : q \in RangeOf(ckpt'.resumes) => InUse(q)
    PROVE  \A q \in Requests : InUse(q)' => InUse(q)
<1> SUFFICES ASSUME NEW q \in Requests, InUse(q)' PROVE InUse(q)
  OBVIOUS
<1>0. ResumeJob(q) \in Executors /\ Fallback(q) \in Executors
  BY ExecutorFacts
<1>1. CASE pc'[ResumeJob(q)] # "off"
  BY <1>0, <1>1, FirstJob DEF InUse
<1>2. CASE pc'[Fallback(q)] # "off"
  BY <1>0, <1>2, FirstJob DEF InUse
<1>3. CASE q \in RangeOf(ckpt'.resumes)
  BY <1>3
<1>4. ASSUME NEW r \in Executors, q \in Held(mem'[r]) PROVE InUse(q)
  <2>1. CASE r = p
    BY <1>4, <2>1
  <2>2. CASE r # p
    <3>1. mem'[r] = mem[r]
      BY <2>2
    <3> QED BY <1>4, <3>1 DEF InUse
  <2> QED BY <2>1, <2>2
<1> QED BY <1>1, <1>2, <1>3, <1>4 DEF InUse

(* What an executor keeps in its memory stays in use.                      *)
LEMMA KeepsHeld ==
    ASSUME NEW p \in Executors, NEW q \in Requests, q \in Held(mem[p])
    PROVE  InUse(q)
BY DEF InUse

-----------------------------------------------------------------------------
(* Steps of an executor that do not touch escalations.                     *)
LEMMA DrivingAnswers ==
    ASSUME TypeInv, AnswerInv, NEW p \in Executors,
           \/ ResumeRunRead(p) \/ NodeFails(p) \/ NodeRaises(p)
           \/ AdoptEscalation(p) \/ PauseNode(p) \/ RecordEscalation(p)
           \/ Interrupt(p) \/ PersistOutput(p) \/ ReadRunStatus(p)
           \/ UpdateRunStatus(p)
    PROVE  AnswerInv'
<1>0. mem \in [Executors -> Memory] /\ pc \in [Executors -> ExecutorPCs]
  BY DEF TypeInv, TypeOK
<1>1. UNCHANGED <<escSt, made, req>>
  BY DEF ResumeRunRead, NodeFails, NodeRaises, AdoptEscalation, PauseNode,
         RecordEscalation, Interrupt, PersistOutput, ReadRunStatus,
         UpdateRunStatus, escVars
<1>2. pc[p] # "off"
  BY DEF ResumeRunRead, NodeFails, NodeRaises, AdoptEscalation, PauseNode,
         RecordEscalation, Interrupt, PersistOutput, ReadRunStatus,
         UpdateRunStatus, CanAsk
<1>3. \A r \in Executors : r # p => pc'[r] = pc[r]
  BY <1>0 DEF ResumeRunRead, NodeFails, NodeRaises, AdoptEscalation, PauseNode,
         RecordEscalation, Interrupt, PersistOutput, ReadRunStatus,
         UpdateRunStatus, Goto, Finish
<1>4. /\ \A r \in Executors : r # p => mem'[r] = mem[r]
      /\ Held(mem'[p]) = Held(mem[p]) \/ mem'[p] = Idle
  <2>1. CASE ResumeRunRead(p) \/ RecordEscalation(p) \/ PersistOutput(p)
    BY <2>1 DEF ResumeRunRead, RecordEscalation, PersistOutput
  <2>2. CASE NodeFails(p) \/ NodeRaises(p) \/ Interrupt(p)
    <3>1. PICK f \in {"paused", "failed"} : mem' = [mem EXCEPT ![p].fin = f]
      BY <2>2 DEF NodeFails, NodeRaises, Interrupt, Finish
    <3> QED BY <1>0, <3>1 DEF Held, Memory
  <2>3. CASE AdoptEscalation(p)
    BY <1>0, <2>3 DEF AdoptEscalation, Held, Memory
  <2>4. CASE PauseNode(p)
    BY <1>0, <2>4 DEF PauseNode, Held, Memory
  <2>5. CASE ReadRunStatus(p) \/ UpdateRunStatus(p)
    BY <1>0, <2>5 DEF ReadRunStatus, UpdateRunStatus
  <2> QED BY <2>1, <2>2, <2>3, <2>4, <2>5
<1>5. \A q \in Requests : q \in Held(mem'[p]) => InUse(q)
  BY <1>4, IdleHolds, KeepsHeld, ConstantsAssumption
<1>6. \A q \in Requests : q \in RangeOf(ckpt'.resumes) => InUse(q)
  <2>1. CASE ckpt'.resumes = ckpt.resumes
    BY <2>1 DEF InUse
  <2>2. CASE ckpt'.resumes = mem[p].resumes
    BY <2>2, KeepsHeld DEF Held
  <2>3. ckpt'.resumes = ckpt.resumes \/ ckpt'.resumes = mem[p].resumes
    <3>1. CASE Interrupt(p)
      <4>1. ckpt \in Checkpoints
        BY DEF TypeInv, TypeOK
      <4> QED BY <3>1, <4>1 DEF Interrupt, Checkpoints
    <3>2. CASE ~Interrupt(p)
      BY <3>2 DEF ResumeRunRead, NodeFails, NodeRaises, AdoptEscalation,
         PauseNode, RecordEscalation, PersistOutput, ReadRunStatus,
         UpdateRunStatus, grVars
    <3> QED BY <3>1, <3>2
  <2> QED BY <2>1, <2>2, <2>3
<1>7. \A q \in Requests : InUse(q)' => InUse(q)
  BY <1>2, <1>3, <1>4, <1>5, <1>6, OneUses
<1> QED BY <1>1, <1>7, AnswersAside

(* Starting the graph: a resume holds the answer of its executor and those *)
(* of the checkpoint.                                                      *)
LEMMA MarkingAnswers ==
    ASSUME TypeInv, AnswerInv, NEW p \in Executors,
           ResumeRunMark(p) \/ (p = ExecuteJob /\ ExecuteRunMark)
    PROVE  AnswerInv'
<1>0. /\ mem \in [Executors -> Memory] /\ pc \in [Executors -> ExecutorPCs]
      /\ ckpt \in Checkpoints
  BY DEF TypeInv, TypeOK
<1>1. UNCHANGED <<escSt, made, req>> /\ pc[p] # "off"
  BY DEF ResumeRunMark, ExecuteRunMark, escVars
<1>2. CASE p = ExecuteJob /\ ExecuteRunMark
  <2>1. /\ \A r \in Executors : r # p => pc'[r] = pc[r] /\ mem'[r] = mem[r]
        /\ mem'[p] = [Idle EXCEPT !.node = Entry, !.visits = ckpt.visits]
        /\ ckpt' = [ckpt EXCEPT !.node = Entry, !.resumes = <<>>]
    BY <1>0, <1>2 DEF ExecuteRunMark, Goto
  <2>2. Held(mem'[p]) = {NoRequest}
    BY <2>1 DEF Held, Idle, RangeOf
  <2>3. RangeOf(ckpt'.resumes) = {}
    BY <1>0, <2>1, IdleHolds DEF Checkpoints
  <2>4. \A q \in Requests : InUse(q)' => InUse(q)
    BY <1>2, <2>1, <2>2, <2>3, OneUses, ConstantsAssumption
  <2> QED BY <1>1, <2>4, AnswersAside
<1>3. CASE ResumeRunMark(p)
  <2>0. PICK a \in Requests : p = ResumeJob(a) \/ p = Fallback(a)
    BY <1>3 DEF ResumeRunMark, Executors, WorkerJobs, Fallbacks
  <2>1. p[2] = a /\ InUse(a)
    BY <1>1, <2>0 DEF InUse, ResumeJob, Fallback
  <2>2. /\ \A r \in Executors : r # p => pc'[r] = pc[r] /\ mem'[r] = mem[r]
        /\ ckpt' = ckpt
    BY <1>0, <1>3 DEF ResumeRunMark, Goto
  <2>3. mem'[p] = mem[p] \/ Held(mem'[p]) = RangeOf(ckpt.resumes) \cup {a}
    <3> DEFINE m == [Idle EXCEPT !.node = ckpt.node, !.visits = ckpt.visits,
                                 !.resumes = ckpt.resumes, !.val = p[2]]
    <3>1. mem'[p] \in {mem[p], m, [m EXCEPT !.fin = "completed"]}
      BY <1>0, <1>3 DEF ResumeRunMark
    <3>2. m.resumes = ckpt.resumes /\ m.val = a
      BY <2>1 DEF Idle
    <3>3. /\ [m EXCEPT !.fin = "completed"].resumes = ckpt.resumes
          /\ [m EXCEPT !.fin = "completed"].val = a
      BY <2>1 DEF Idle
    <3> HIDE DEF m
    <3> QED BY <3>1, <3>2, <3>3 DEF Held
  <2>4. \A q \in Requests : q \in Held(mem'[p]) => InUse(q)
    BY <2>1, <2>3, KeepsHeld DEF InUse
  <2>5. \A q \in Requests : q \in RangeOf(ckpt'.resumes) => InUse(q)
    BY <2>2 DEF InUse
  <2>6. \A q \in Requests : InUse(q)' => InUse(q)
    BY <1>1, <2>2, <2>4, <2>5, OneUses
  <2> QED BY <1>1, <2>6, AnswersAside
<1> QED BY <1>2, <1>3

(* Taking an answer and completing a node.                                 *)
LEMMA TakingAnswers ==
    ASSUME TypeInv, AnswerInv, NEW p \in Executors,
           TakeAnswer(p) \/ CompleteNode(p)
    PROVE  AnswerInv'
<1>0. /\ mem \in [Executors -> Memory] /\ pc \in [Executors -> ExecutorPCs]
      /\ ckpt \in Checkpoints
  BY DEF TypeInv, TypeOK
<1>1. UNCHANGED <<escSt, made, req>> /\ pc[p] # "off"
  BY DEF TakeAnswer, CompleteNode, escVars
<1>2. CASE TakeAnswer(p)
  <2> DEFINE m == Consumed(mem[p])
  <2>1. m \in Memory /\ Held(m) \subseteq Held(mem[p]) \cup {NoRequest}
    BY <1>0, <1>2, ConsumedType, ConsumedHolds DEF TakeAnswer
  <2>2. \/ mem' = [mem EXCEPT ![p] = [m EXCEPT !.fin = "failed"]]
        \/ mem' = [mem EXCEPT ![p] = m]
        \/ mem' = [mem EXCEPT ![p] = [m EXCEPT !.phase = "route"]]
        \/ \E t : mem' = [mem EXCEPT ![p] = [m EXCEPT !.next = t]]
    BY <1>2 DEF TakeAnswer
  <2>3. UNCHANGED ckpt /\ \A r \in Executors : r # p => pc'[r] = pc[r]
    BY <1>0, <1>2 DEF TakeAnswer, Goto, grVars
  <2> HIDE DEF m
  <2>4. /\ \A r \in Executors : r # p => mem'[r] = mem[r]
        /\ Held(mem'[p]) = Held(m)
    BY <1>0, <2>1, <2>2 DEF Held, Memory
  <2>5. \A q \in Requests : q \in Held(mem'[p]) => InUse(q)
    BY <2>1, <2>4, KeepsHeld, ConstantsAssumption
  <2>6. \A q \in Requests : q \in RangeOf(ckpt'.resumes) => InUse(q)
    BY <2>3 DEF InUse
  <2>7. \A q \in Requests : InUse(q)' => InUse(q)
    BY <1>1, <2>3, <2>4, <2>5, <2>6, OneUses
  <2> QED BY <1>1, <2>7, AnswersAside
<1>3. CASE CompleteNode(p)
  <2>1. /\ \A r \in Executors : r # p => pc'[r] = pc[r] /\ mem'[r] = mem[r]
        /\ mem'[p].resumes = <<>> /\ mem'[p].val = NoRequest
        /\ ckpt'.resumes = <<>>
    BY <1>0, <1>3 DEF CompleteNode, Goto, Idle
  <2>2. \A q \in Requests : InUse(q)' => InUse(q)
    BY <1>1, <2>1, IdleHolds, OneUses, ConstantsAssumption DEF Held
  <2> QED BY <1>1, <2>2, AnswersAside
<1> QED BY <1>2, <1>3

-----------------------------------------------------------------------------
(* Escalations that are closed stay closed: what is opened is new.         *)
LEMMA NewQuestions ==
    ASSUME TypeInv, AnswerInv, UNCHANGED req,
           \A q \in Requests : InUse(q)' => InUse(q),
           made' \in Nat, made' >= made,
           \A e \in EscIds : escSt'[e] = "open" =>
              escSt[e] = "open" \/ (made < e /\ e <= made')
    PROVE  AnswerInv'
<1>0. /\ made \in 0 .. MaxEscalations
      /\ req \in [Requests -> [pc : RequestPCs, esc : 0 .. MaxEscalations,
                               kind : AllKinds, via : AllVias]]
  BY DEF TypeInv, TypeOK
<1>1. \A q \in Requests : Settled(q) => Settled(q)'
  <2> SUFFICES ASSUME NEW q \in Requests, Settled(q), req[q].esc # NoEsc,
                      escSt'[req[q].esc] = "open"
               PROVE  FALSE
    BY DEF Settled
  <2>1. req[q].esc \in EscIds /\ req[q].esc <= made
    BY <1>0, ConstantsAssumption DEF AnswerInv, Known, EscIds, NoEsc
  <2> QED BY <1>0, <2>1, ConstantsAssumption DEF Settled, EscIds
<1>2. Known'
  BY <1>0, ConstantsAssumption DEF AnswerInv, Known, EscIds
<1>3. Committed'
  BY <1>1 DEF AnswerInv, Committed
<1> QED BY <1>1, <1>2, <1>3, AnswersKept

(* Superseding and creating an escalation.                                 *)
LEMMA AskingAnswers ==
    ASSUME TypeInv, AnswerInv, NEW p \in Executors,
           SupersedeEscalations(p) \/ CreateEscalation(p)
    PROVE  AnswerInv'
<1>0. /\ mem \in [Executors -> Memory]
      /\ made \in 0 .. MaxEscalations
      /\ escSt \in [EscIds -> {"none", "open", "resolved", "timed_out", "gone"}]
  BY DEF TypeInv, TypeOK
<1>1. UNCHANGED <<ckpt, req>>
  BY DEF SupersedeEscalations, CreateEscalation, grVars
<1>2. \A r \in Executors : Held(mem'[r]) = Held(mem[r])
  <2>1. CASE SupersedeEscalations(p)
    BY <1>0, <2>1 DEF SupersedeEscalations, Held, Memory
  <2>2. CASE CreateEscalation(p)
    <3> DEFINE m == [mem[p] EXCEPT !.act = made + 1]
    <3>1. mem' = [mem EXCEPT ![p] = m]
      BY <2>2 DEF CreateEscalation
    <3>2. Held(m) = Held(mem[p])
      BY <1>0 DEF Held, Memory
    <3> HIDE DEF m
    <3> QED BY <1>0, <3>1, <3>2
  <2> QED BY <2>1, <2>2
<1>3. \A q \in Requests : InUse(q)' => InUse(q)
  <2>1. pc[p] # "off" /\ \A r \in Executors : r # p => pc'[r] = pc[r]
    BY DEF SupersedeEscalations, CreateEscalation, Goto, TypeInv, TypeOK
  <2>2. \A r \in Executors : r # p => mem'[r] = mem[r]
    BY <1>0 DEF SupersedeEscalations, CreateEscalation
  <2> QED BY <1>1, <1>2, <2>1, <2>2, OneUses, KeepsHeld DEF InUse
<1>4. /\ made' \in Nat /\ made' >= made
      /\ \A e \in EscIds : escSt'[e] = "open" =>
            escSt[e] = "open" \/ (made < e /\ e <= made')
  <2>1. CASE SupersedeEscalations(p)
    BY <1>0, <2>1 DEF SupersedeEscalations
  <2>2. CASE CreateEscalation(p)
    BY <1>0, <2>2 DEF CreateEscalation, EscIds
  <2> QED BY <2>1, <2>2
<1> QED BY <1>1, <1>3, <1>4, NewQuestions

(* The sweep and the deletion close escalations.                           *)
LEMMA ClosingAnswers ==
    ASSUME TypeInv, AnswerInv, FindExpired \/ Sweep \/ DeleteRun
    PROVE  AnswerInv'
<1>0. made \in 0 .. MaxEscalations
  BY DEF TypeInv, TypeOK
<1>1. UNCHANGED <<made, req, pc, mem, ckpt>>
  BY DEF FindExpired, Sweep, TimeoutOpenEscalations, CheckTimedOutRun,
         StopTimedOutRun, DeleteRun, escVars, grVars
<1>2. \A q \in Requests : InUse(q)' => InUse(q)
  BY <1>1 DEF InUse
<1>3. \A e \in EscIds : escSt'[e] = "open" => escSt[e] = "open"
  BY DEF FindExpired, Sweep, TimeoutOpenEscalations, CheckTimedOutRun,
         StopTimedOutRun, DeleteRun, escVars
<1> QED BY <1>0, <1>1, <1>2, <1>3, NewQuestions, ConstantsAssumption

(* A request that is looked at, committed or handled.                      *)
LEMMA HandlingAnswers ==
    ASSUME TypeInv, AnswerInv, NEW q \in Requests, Handling(q)
    PROVE  AnswerInv'
<1>0. /\ pc \in [Executors -> ExecutorPCs]
      /\ escSt \in [EscIds -> {"none", "open", "resolved", "timed_out", "gone"}]
      /\ req \in [Requests -> [pc : RequestPCs, esc : 0 .. MaxEscalations,
                               kind : AllKinds, via : AllVias]]
  BY DEF TypeInv, TypeOK
<1>1. UNCHANGED <<made, mem, ckpt>>
  BY DEF Handling, ResolveEscalation, EnqueueRunResume, AbortFromEscalation,
         StopRun, EnqueueFromEndpoint, ResumeIfStillPaused, escVars, grVars
<1>2. ResumeJob(q) \in Executors /\ Fallback(q) \in Executors
  BY ExecutorFacts
<1>3. CASE ResumeIfStillPaused(q)
  <2>1. UNCHANGED <<escSt, made, req>>
    BY <1>3 DEF ResumeIfStillPaused, escVars
  <2>2. \A r \in Requests : InUse(r)' => InUse(r)
    <3>1. \A p \in Executors : pc'[p] # "off" => pc[p] # "off"
      BY <1>0, <1>3 DEF ResumeIfStillPaused, Goto
    <3> QED BY <1>1, <3>1, ExecutorFacts DEF InUse
  <2> QED BY <2>1, <2>2, AnswersAside
<1>4. CASE ResolveEscalation(q)
  <2>1. UNCHANGED pc
    BY <1>4 DEF ResolveEscalation
  <2>2. \A r \in Requests : InUse(r)' => InUse(r)
    BY <1>1, <2>1 DEF InUse
  <2>3. \A e \in EscIds : escSt'[e] = "open" => escSt[e] = "open"
    BY <1>0, <1>4 DEF ResolveEscalation
  <2>4. \A r \in Requests : req'[r].esc = req[r].esc
    BY <1>0, <1>4 DEF ResolveEscalation
  <2>5. Known'
    BY <1>1, <2>3, <2>4 DEF AnswerInv, Known
  <2>6. ASSUME NEW r \in Requests, Settled(r) PROVE Settled(r)'
    <3>1. req'[r] = req[r]
      BY <1>0, <1>4, <2>6 DEF ResolveEscalation, Settled
    <3>2. req[r].esc # NoEsc => req[r].esc \in EscIds
      BY <1>0, ConstantsAssumption DEF EscIds, NoEsc
    <3> QED BY <2>3, <2>6, <3>1, <3>2 DEF Settled
  <2>7. ASSUME NEW r \in Requests, req'[r].pc \in {"committed", "stopping"}
        PROVE  Settled(r)'
    <3>1. CASE r # q
      <4>1. req'[r] = req[r]
        BY <1>0, <1>4, <3>1 DEF ResolveEscalation
      <4> QED BY <2>6, <2>7, <4>1 DEF AnswerInv, Committed
    <3>2. CASE r = q
      <4>1. escSt' = [escSt EXCEPT ![req[q].esc] = "resolved"]
        BY <1>0, <1>4, <2>7, <3>2 DEF ResolveEscalation
      <4>2. req[q].esc # NoEsc => req[q].esc \in EscIds
        BY <1>0, ConstantsAssumption DEF EscIds, NoEsc
      <4> QED BY <1>0, <2>4, <2>7, <3>2, <4>1, <4>2 DEF Settled
    <3> QED BY <3>1, <3>2
  <2> QED BY <2>2, <2>5, <2>6, <2>7, AnswersKept DEF Committed
<1>5. CASE \/ EnqueueRunResume(q) \/ AbortFromEscalation(q)
           \/ StopRun(q) \/ EnqueueFromEndpoint(q)
  <2>1. UNCHANGED escSt
    BY <1>5 DEF EnqueueRunResume, AbortFromEscalation, StopRun,
                EnqueueFromEndpoint, escVars
  <2>2. req[q].pc \in {"committed", "stopping"} /\ Settled(q)
    BY <1>5 DEF EnqueueRunResume, AbortFromEscalation, StopRun,
                EnqueueFromEndpoint, AnswerInv, Committed
  <2>3. \E l \in {"stopping", "done"} : req' = [req EXCEPT ![q].pc = l]
    BY <1>5 DEF EnqueueRunResume, AbortFromEscalation, StopRun,
                EnqueueFromEndpoint
  <2>4. \A r \in Requests : Settled(r) => Settled(r)'
    BY <1>0, <2>1, <2>3 DEF Settled
  <2>5. Known' /\ Committed'
    BY <1>0, <1>1, <2>1, <2>2, <2>3, <2>4 DEF AnswerInv, Known, Committed
  <2>6. \A r \in Requests : r # q /\ InUse(r)' => InUse(r)
    <3>1. \A p \in Executors :
             p \notin {ResumeJob(q), Fallback(q)} => pc'[p] = pc[p]
      BY <1>0, <1>5 DEF EnqueueRunResume, AbortFromEscalation, StopRun,
                        EnqueueFromEndpoint, Goto
    <3>2. \A r \in Requests : r # q =>
             /\ ResumeJob(r) \notin {ResumeJob(q), Fallback(q)}
             /\ Fallback(r) \notin {ResumeJob(q), Fallback(q)}
      BY DEF ResumeJob, Fallback
    <3> QED BY <1>1, <3>1, <3>2, ExecutorFacts DEF InUse
  <2> QED BY <2>2, <2>4, <2>5, <2>6, AnswersKept
<1> QED BY <1>3, <1>4, <1>5 DEF Handling

(* A request begins with an escalation that is open, or with none.         *)
LEMMA PeopleAnswers ==
    ASSUME TypeInv, AnswerInv, People
    PROVE  AnswerInv'
<1>0. /\ made \in 0 .. MaxEscalations
      /\ req \in [Requests -> [pc : RequestPCs, esc : 0 .. MaxEscalations,
                               kind : AllKinds, via : AllVias]]
  BY DEF TypeInv, TypeOK
<1>1. UNCHANGED <<escSt, made, pc, mem, ckpt>>
  BY DEF People, LookAtEscalation, ResumeEndpoint, AbortEndpoint,
         CheckDeletable, escVars, grVars
<1>2. \A r \in Requests : InUse(r)' => InUse(r)
  BY <1>1 DEF InUse
<1>3. CASE CheckDeletable
  BY <1>1, <1>2, <1>3, AnswersAside DEF CheckDeletable
<1>4. ASSUME NEW q \in Requests, NEW a,
             req[q].pc = "idle", req' = [req EXCEPT ![q] = a],
             \/ a.pc = "checked" /\ a.esc \in EscIds /\ escSt[a.esc] = "open"
             \/ a.esc = NoEsc
      PROVE  AnswerInv'
  <2>1. Known'
    BY <1>0, <1>1, <1>4 DEF AnswerInv, Known, NoEsc
  <2>2. \A r \in Requests : Settled(r) => Settled(r)'
    BY <1>0, <1>1, <1>4 DEF Settled
  <2>3. Committed'
    BY <1>0, <1>1, <1>4, <2>2 DEF AnswerInv, Committed, Settled
  <2> QED BY <1>2, <2>1, <2>2, <2>3, AnswersKept
<1>5. ASSUME NEW q \in Requests, NEW e \in EscIds, LookAtEscalation(q, e)
      PROVE  AnswerInv'
  <2>1. PICK k \in Kinds, v \in Vias :
           req' = [req EXCEPT ![q] = [pc |-> "checked", esc |-> e,
                                      kind |-> k, via |-> v]]
    BY <1>5 DEF LookAtEscalation
  <2> QED BY <1>4, <1>5, <2>1 DEF LookAtEscalation
<1>6. ASSUME NEW q \in Requests, ResumeEndpoint(q) \/ AbortEndpoint(q)
      PROVE  AnswerInv'
  BY <1>4, <1>6 DEF ResumeEndpoint, AbortEndpoint
<1> QED BY <1>3, <1>5, <1>6 DEF People

(* Starting a run and crashes bring no answers.                            *)
LEMMA OtherAnswers ==
    ASSUME TypeInv, AnswerInv,
           CreateRun \/ EnqueueExecute \/ ExecuteRunLoad \/ WorkerCrash
    PROVE  AnswerInv'
<1>0. mem \in [Executors -> Memory] /\ pc \in [Executors -> ExecutorPCs]
  BY DEF TypeInv, TypeOK
<1>1. UNCHANGED <<escSt, made, req, ckpt>>
  BY DEF CreateRun, EnqueueExecute, ExecuteRunLoad, WorkerCrash, escVars, grVars
<1>2. \A p \in Executors : mem'[p] = mem[p] \/ mem'[p] = Idle
  BY <1>0 DEF CreateRun, EnqueueExecute, ExecuteRunLoad, WorkerCrash
<1>3. \A p \in Executors : p = ExecuteJob \/ (pc'[p] # "off" => pc[p] # "off")
  BY <1>0 DEF CreateRun, EnqueueExecute, ExecuteRunLoad, WorkerCrash, Goto, Active
<1>4. \A q \in Requests : InUse(q)' => InUse(q)
  BY <1>1, <1>2, <1>3, IdleHolds, FirstJob, ExecutorFacts, ConstantsAssumption
  DEF InUse
<1> QED BY <1>1, <1>4, AnswersAside

(* A crash of the API forgets the requests, whether committed or not.      *)
LEMMA ApiCrashAnswers ==
    ASSUME TypeInv, AnswerInv, ApiCrash
    PROVE  AnswerInv'
<1>0. /\ mem \in [Executors -> Memory] /\ pc \in [Executors -> ExecutorPCs]
      /\ req \in [Requests -> [pc : RequestPCs, esc : 0 .. MaxEscalations,
                               kind : AllKinds, via : AllVias]]
  BY DEF TypeInv, TypeOK
<1>1. UNCHANGED <<escSt, made, ckpt>>
  BY DEF ApiCrash, escVars
<1>2. \A p \in Executors : mem'[p] = mem[p] \/ mem'[p] = Idle
  BY <1>0 DEF ApiCrash
<1>3. \A p \in Executors : p = ExecuteJob \/ (pc'[p] # "off" => pc[p] # "off")
  BY <1>0 DEF ApiCrash, Busy
<1>4. \A q \in Requests : InUse(q)' => InUse(q)
  BY <1>1, <1>2, <1>3, IdleHolds, FirstJob, ExecutorFacts, ConstantsAssumption
  DEF InUse
<1>5. \A q \in Requests :
         /\ req'[q].esc = req[q].esc
         /\ req'[q].pc = req[q].pc \/ req'[q].pc = "done"
         /\ req'[q].pc \notin {"committed", "stopping"}
  BY <1>0 DEF ApiCrash, RequestPCs
<1>6. Known' /\ Committed' /\ \A q \in Requests : Settled(q) => Settled(q)'
  BY <1>1, <1>5 DEF AnswerInv, Known, Committed, Settled
<1> QED BY <1>4, <1>6, AnswersKept

(* At first nothing was asked and nothing is in use.                       *)
LEMMA InitAnswers == Init => AnswerInv
<1> SUFFICES ASSUME Init PROVE AnswerInv
  OBVIOUS
<1>1. Known /\ Committed
  BY DEF Init, Known, Committed, NoEsc
<1>2. \A q \in Requests : ~InUse(q)
  BY IdleHolds, ExecutorFacts, ConstantsAssumption DEF Init, InUse
<1> QED BY <1>1, <1>2 DEF AnswerInv

(* Every step keeps to what was committed.                                 *)
LEMMA NextAnswers ==
    ASSUME TypeInv, AnswerInv, [Next]_vars
    PROVE  AnswerInv'
<1>1. CASE Starting
  BY <1>1, OtherAnswers, MarkingAnswers, ExecutorFacts DEF Starting
<1>2. ASSUME NEW p \in Executors, Driving(p) PROVE AnswerInv'
  BY <1>2, DrivingAnswers, MarkingAnswers, TakingAnswers, AskingAnswers
  DEF Driving, NodeStep
<1>3. CASE \E q \in Requests : Handling(q)
  BY <1>3, HandlingAnswers
<1>4. CASE People
  BY <1>4, PeopleAnswers
<1>5. CASE FindExpired \/ Sweep \/ DeleteRun
  BY <1>5, ClosingAnswers
<1>6. CASE Faults
  BY <1>6, DrivingAnswers, OtherAnswers, ApiCrashAnswers DEF Faults
<1>7. CASE UNCHANGED vars
  <2>1. UNCHANGED <<escSt, made, req, pc, mem, ckpt>>
    BY <1>7 DEF vars
  <2>2. \A q \in Requests : InUse(q)' => InUse(q)
    BY <2>1 DEF InUse
  <2> QED BY <2>1, <2>2, AnswersAside
<1> QED BY <1>1, <1>2, <1>3, <1>4, <1>5, <1>6, <1>7 DEF Next

(* Two people may pass the same check, a job and its fallback may both run *)
(* late, and either process may die in between: what the graph gets hold   *)
(* of was committed before.                                                *)
THEOREM OnlyCommittedAnswers == Spec => []AnswerIsCommitted
<1>1. TypeInv /\ AnswerInv /\ [Next]_vars => AnswerInv'
  BY NextAnswers
<1>2. AnswerInv => AnswerIsCommitted
  BY DEF AnswerInv, AnswerIsCommitted, InUse, Held, Settled
<1> QED BY <1>1, <1>2, InitAnswers, InitTypeInv, NextTypeInv, PTL DEF Spec
=============================================================================
