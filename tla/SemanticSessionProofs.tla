------------------------ MODULE SemanticSessionProofs ------------------------
(***************************************************************************)
(* Proofs about SemanticSession, for any number of tasks, channels, turns  *)
(* and actions: types, that no action of a task is sent twice, and that a  *)
(* task in a channel acts on replies to its own prompts.                   *)
(***************************************************************************)
EXTENDS SemanticSession, TLAPS

(* Nothing is sent before the dispatch, and while it goes on nothing       *)
(* beyond the action it has come to.                                       *)
SentInv == \A t \in Tasks : \A i \in 1 .. MaxActions :
    /\ sent[t][i] <= 1
    /\ pc[t] \in {"idle", "task", "taskWait", "action", "actionWait"} =>
          sent[t][i] = 0
    /\ pc[t] = "dispatch" /\ i > Len(results[t]) => sent[t][i] = 0

(* A channel is used by one task at a time.                                *)
Serial == \A t, u \in Tasks :
    UnderWay(t) /\ UnderWay(u) /\ ChannelOf[t] # NoChannel
       /\ ChannelOf[t] = ChannelOf[u] => t = u

InQueue(t, c) == \E i \in DOMAIN queue[c] : queue[c][i] = run[t]

(* A run of another task is answered before the run the task waits for.    *)
Behind(t, c) == \A j \in DOMAIN queue[c] :
    queue[c][j].task # t => \E i \in DOMAIN queue[c] : i > j /\ queue[c][i] = run[t]

(* The task has put its first prompt into the session.                     *)
Spoke(t) == \/ pc[t] \in {"taskWait", "action", "actionWait"}
            \/ pc[t] = "task" /\ turn[t] > 1

(* Once the run it waits for is over, the latest message is its own.       *)
Latest(t, c) ==
    /\ run[t].task = t
    /\ pc[t] \in {"task", "taskWait"} => run[t].phase = "task"
    /\ pc[t] = "actionWait" => run[t].phase = "action"
    /\ Behind(t, c)
    /\ t \notin deaf =>
          /\ ~InQueue(t, c) => latest[c].run.task = t
          /\ pc[t] \in {"task", "action"} => ~InQueue(t, c)

LatestInv == \A t \in Tasks :
    ChannelOf[t] # NoChannel /\ Spoke(t) => Latest(t, ChannelOf[t])

-----------------------------------------------------------------------------
USE SessionAssumption

(* The constant envelopes and messages have their types.                   *)
LEMMA DataTypes ==
    /\ NoopEnvelope \in Envelopes
    /\ FailEnvelope \in Envelopes
    /\ NoRun \notin Runs
    /\ Garbled \in TaskReplies \cup ActionReplies
    /\ \A p \in Phases : Replies(p) \subseteq TaskReplies \cup ActionReplies
    /\ \A m \in TaskReplies \cup ActionReplies :
          m.kind = "writes" => m.plan \in Envelopes
  BY DEF NoopEnvelope, FailEnvelope, Envelopes, NoRun, Runs, Phases, Garbled,
         TaskReplies, ActionReplies, Saying, Replies

LEMMA SessionKeyType ==
    ASSUME NEW t \in Tasks, NEW phase \in Phases
    PROVE  /\ SessionKey(t, phase) \in Sessions
           /\ ChannelOf[t] # NoChannel => SessionKey(t, phase) = ChannelOf[t]
           /\ SessionKey(t, phase) \in Channels =>
                 ChannelOf[t] = SessionKey(t, phase)
  BY DEF SessionKey, Sessions, Phases

(* What a task makes of the latest message has the type of a reply, and    *)
(* unless it is garbled the message is the answer to some run.             *)
LEMMA SaidType ==
    ASSUME TypeOK, NEW t \in Tasks, NEW phase \in Phases
    PROVE  /\ Said(t, phase) \in TaskReplies \cup ActionReplies
           /\ Said(t, phase).kind # "garbled" =>
                 latest[SessionKey(t, phase)].run \in Runs
  <1>1. SessionKey(t, phase) \in Sessions
    BY SessionKeyType
  <1>2. latest[SessionKey(t, phase)] \in
          [run : Runs \cup {NoRun}, says : TaskReplies \cup ActionReplies]
    BY <1>1 DEF TypeOK
  <1>3. NoRun.phase # phase /\ Garbled.kind = "garbled"
    BY DEF NoRun, Phases, Garbled
  <1> QED
    BY <1>2, <1>3, DataTypes DEF Said

LEMMA TypeInit == Init => TypeOK
  BY DataTypes DEF Init, TypeOK, NoReply, Turns

(* The part of the types that every step of a task changes.                *)
ControlTypes ==
    /\ pc \in [Tasks -> {"idle", "task", "taskWait", "action", "actionWait",
                         "dispatch", "report", "done"}]
    /\ turn \in [Tasks -> Turns]
    /\ envelope \in [Tasks -> Envelopes \cup {NoEnvelope}]
    /\ results \in [Tasks -> Seq({"applied", "failed"})]
    /\ outcome \in [Tasks -> {"none", "completed", "failed"}]

OtherTypes ==
    /\ run \in [Tasks -> Runs \cup {NoRun}]
    /\ told \in [Tasks -> {"no", "told", "unposted"}]
    /\ queue \in [Sessions -> Seq(Runs)]
    /\ latest \in [Sessions -> [run : Runs \cup {NoRun},
                               says : TaskReplies \cup ActionReplies]]
    /\ sent \in [Tasks -> [1 .. MaxActions -> Nat]]
    /\ basis \in [Tasks -> SUBSET Tasks]
    /\ deaf \subseteq Tasks

LEMMA TypeParts == TypeOK <=> ControlTypes /\ OtherTypes
  BY DEF TypeOK, ControlTypes, OtherTypes

LEMMA TypePartsPrimed == TypeOK' <=> ControlTypes' /\ OtherTypes'
  BY DEF TypeOK, ControlTypes, OtherTypes

LEMMA ThrowType ==
    ASSUME ControlTypes, NEW t \in Tasks, Throw(t)
    PROVE  ControlTypes'
  BY DEF ControlTypes, Throw, Goto

LEMMA DispatchType ==
    ASSUME ControlTypes, NEW t \in Tasks, NEW e \in Envelopes, Dispatch(t, e)
    PROVE  ControlTypes'
  BY DEF ControlTypes, Dispatch, Goto

LEMMA TurnType ==
    ASSUME ControlTypes, NEW t \in Tasks, NEW phase \in Phases, NEW n \in Turns,
           Turn(t, phase, n)
    PROVE  ControlTypes'
  BY DEF ControlTypes, Turn, Goto, Phases

LEMMA RecordType ==
    ASSUME ControlTypes, NEW t \in Tasks, NEW status \in {"applied", "failed"},
           Record(t, status)
    PROVE  ControlTypes'
  <1>1. results' \in [Tasks -> Seq({"applied", "failed"})]
    <2>1. Append(results[t], status) \in Seq({"applied", "failed"})
      BY DEF ControlTypes
    <2> QED
      BY <2>1 DEF Record, ControlTypes
  <1>2. NextTaskStatus(t, Append(results[t], status)) \in {"completed", "failed"}
    BY DEF NextTaskStatus
  <1> QED
    BY <1>1, <1>2 DEF Record, Goto, ControlTypes

LEMMA BasisGrows ==
    ASSUME NEW f \in [Tasks -> SUBSET Tasks], NEW t \in Tasks,
           NEW X \in SUBSET Tasks
    PROVE  [f EXCEPT ![t] = X] \in [Tasks -> SUBSET Tasks]
  <1> DEFINE S == SUBSET Tasks
  <1>1. f \in [Tasks -> S] /\ X \in S
    OBVIOUS
  <1> HIDE DEF S
  <1>2. [f EXCEPT ![t] = X] \in [Tasks -> S]
    BY <1>1
  <1> QED
    BY <1>2 DEF S

LEMMA Incremented ==
    ASSUME NEW n \in Nat, NEW f \in [1 .. n -> Nat], NEW k \in Nat
    PROVE  [f EXCEPT ![k] = @ + 1] \in [1 .. n -> Nat]
  <1> DEFINE D == 1 .. n
             g == [f EXCEPT ![k] = f[k] + 1]
  <1>1. f \in [D -> Nat]
    OBVIOUS
  <1> HIDE DEF D
  <1>2. \A i \in D : f[i] \in Nat /\ f[i] + 1 \in Nat
    BY <1>1
  <1>3. g = [i \in D |-> IF i = k THEN f[k] + 1 ELSE f[i]]
    BY <1>1
  <1>4. g \in [D -> Nat]
    BY <1>2, <1>3
  <1> QED
    BY <1>4 DEF D

LEMMA LimitTypes ==
    /\ {1, ReadLimit, FormatLimit} \subseteq Turns
    /\ \A n \in Turns : n < ReadLimit \/ n < FormatLimit => n + 1 \in Turns
    /\ "task" \in Phases /\ "action" \in Phases
  BY DEF Turns, Phases

LEMMA TypeNext == TypeOK /\ [Next]_vars => TypeOK'
  <1> SUFFICES ASSUME TypeOK, [Next]_vars PROVE ControlTypes' /\ OtherTypes'
    BY TypePartsPrimed
  <1>a. ControlTypes /\ OtherTypes
    BY TypeParts
  <1>1. ASSUME NEW t \in Tasks, Start(t) PROVE ControlTypes' /\ OtherTypes'
    <2>1. ControlTypes'
      BY <1>1, <1>a, DataTypes, LimitTypes, ThrowType, DispatchType, TurnType
      DEF Start
    <2> QED
      BY <1>1, <1>a, <2>1 DEF Start, agentVars, OtherTypes
  <1>2. ASSUME NEW t \in Tasks, NEW phase \in Phases, Send(t, phase)
        PROVE  ControlTypes' /\ OtherTypes'
    <2>1. [task |-> t, phase |-> phase, turn |-> turn[t]] \in Runs
      BY <1>2, <1>a DEF ControlTypes, Runs
    <2>2. SessionKey(t, phase) \in Sessions
      BY SessionKeyType
    <2>3. WaitOf(phase) \in {"taskWait", "actionWait"}
      BY DEF WaitOf
    <2>4. ControlTypes'
      BY <1>2, <1>a, <2>3 DEF Send, Goto, ControlTypes
    <2>5. run' \in [Tasks -> Runs \cup {NoRun}]
      BY <1>2, <1>a, <2>1 DEF Send, OtherTypes
    <2>6. queue' \in [Sessions -> Seq(Runs)]
      <3>1. Append(queue[SessionKey(t, phase)],
                   [task |-> t, phase |-> phase, turn |-> turn[t]]) \in Seq(Runs)
        BY <1>a, <2>1, <2>2 DEF OtherTypes
      <3> QED
        BY <1>2, <1>a, <3>1 DEF Send, OtherTypes
    <2> QED
      BY <1>2, <1>a, <2>4, <2>5, <2>6 DEF Send, OtherTypes
  <1>3. ASSUME NEW t \in Tasks, ThinkFails(t) PROVE ControlTypes' /\ OtherTypes'
    BY <1>3, <1>a, ThrowType DEF ThinkFails, agentVars, OtherTypes
  <1>4. ASSUME NEW t \in Tasks, TaskTurn(t) PROVE ControlTypes' /\ OtherTypes'
    <2>1. deaf' \subseteq Tasks
      BY <1>4, <1>a DEF TaskTurn, Heard, OtherTypes
    <2>2. Said(t, "task").kind # "garbled" =>
            latest[SessionKey(t, "task")].run.task \in Tasks
      BY LimitTypes, SaidType DEF Runs
    <2>3. basis' \in [Tasks -> SUBSET Tasks]
      <3>1. \/ basis' = basis
            \/ Said(t, "task").kind # "garbled" /\ ActsOnReply(t, "task")
        BY <1>4 DEF TaskTurn
      <3>2. ASSUME Said(t, "task").kind # "garbled"
            PROVE  basis[t] \cup {latest[SessionKey(t, "task")].run.task}
                     \in SUBSET Tasks
        BY <1>a, <2>2, <3>2 DEF OtherTypes
      <3>3. basis \in [Tasks -> SUBSET Tasks]
        BY <1>a DEF OtherTypes
      <3>4. ASSUME ActsOnReply(t, "task")
            PROVE  basis' = [basis EXCEPT ![t] =
                       basis[t] \cup {latest[SessionKey(t, "task")].run.task}]
        BY <3>4 DEF ActsOnReply
      <3> QED
        BY <3>1, <3>2, <3>3, <3>4, BasisGrows
    <2>4. ControlTypes'
      <3>1. turn[t] \in Turns
        BY <1>a DEF ControlTypes
      <3> QED
        BY <1>4, <1>a, <3>1, DataTypes, LimitTypes, ThrowType, DispatchType, TurnType
        DEF TaskTurn
    <2> QED
      BY <1>4, <1>a, <2>1, <2>3, <2>4 DEF TaskTurn, agentVars, OtherTypes
  <1>5. ASSUME NEW t \in Tasks, ActionTurn(t) PROVE ControlTypes' /\ OtherTypes'
    <2>1. deaf' \subseteq Tasks
      BY <1>5, <1>a DEF ActionTurn, Heard, OtherTypes
    <2>2. Said(t, "action").kind # "garbled" =>
            latest[SessionKey(t, "action")].run.task \in Tasks
      BY LimitTypes, SaidType DEF Runs
    <2>3. basis' \in [Tasks -> SUBSET Tasks]
      <3>1. \/ basis' = basis
            \/ Said(t, "action").kind # "garbled" /\ ActsOnReply(t, "action")
        BY <1>5 DEF ActionTurn
      <3>2. ASSUME Said(t, "action").kind # "garbled"
            PROVE  basis[t] \cup {latest[SessionKey(t, "action")].run.task}
                     \in SUBSET Tasks
        BY <1>a, <2>2, <3>2 DEF OtherTypes
      <3>3. basis \in [Tasks -> SUBSET Tasks]
        BY <1>a DEF OtherTypes
      <3>4. ASSUME ActsOnReply(t, "action")
            PROVE  basis' = [basis EXCEPT ![t] =
                       basis[t] \cup {latest[SessionKey(t, "action")].run.task}]
        BY <3>4 DEF ActsOnReply
      <3> QED
        BY <3>1, <3>2, <3>3, <3>4, BasisGrows
    <2>4. ControlTypes'
      <3>1. turn[t] \in Turns
        BY <1>a DEF ControlTypes
      <3>2. Said(t, "action").kind = "writes" =>
              Said(t, "action").plan \in Envelopes
        BY LimitTypes, SaidType, DataTypes
      <3> QED
        BY <1>5, <1>a, <3>1, <3>2, LimitTypes, ThrowType, DispatchType, TurnType
        DEF ActionTurn, NextFormatTurn
    <2> QED
      BY <1>5, <1>a, <2>1, <2>3, <2>4 DEF ActionTurn, agentVars, OtherTypes
  <1>6. ASSUME NEW t \in Tasks, SendAction(t) PROVE ControlTypes' /\ OtherTypes'
    <2>1. ControlTypes'
      BY <1>6, <1>a, RecordType DEF SendAction
    <2>2. sent' \in [Tasks -> [1 .. MaxActions -> Nat]]
      <3> DEFINE k == Len(results[t]) + 1
      <3>1. sent[t] \in [1 .. MaxActions -> Nat]
        BY <1>a DEF OtherTypes
      <3>2. [sent[t] EXCEPT ![k] = @ + 1] \in [1 .. MaxActions -> Nat]
        <4>1. results[t] \in Seq({"applied", "failed"})
          BY <1>a DEF ControlTypes
        <4>2. k \in Nat /\ MaxActions \in Nat
          BY <4>1
        <4> HIDE DEF k
        <4> QED
          BY <3>1, <4>2, Incremented
      <3>3. sent' = sent \/ sent' = [sent EXCEPT ![t] = [sent[t] EXCEPT ![k] = @ + 1]]
        BY <1>6 DEF SendAction, TakesEffect
      <3> QED
        BY <1>a, <3>2, <3>3 DEF OtherTypes
    <2> QED
      BY <1>6, <1>a, <2>1, <2>2 DEF SendAction, agentVars, OtherTypes
  <1>7. ASSUME NEW t \in Tasks, Report(t) PROVE ControlTypes' /\ OtherTypes'
    <2>1. ControlTypes'
      BY <1>7, <1>a DEF Report, Goto, ControlTypes, Turns
    <2> QED
      BY <1>7, <1>a, <2>1 DEF Report, agentVars, OtherTypes
  <1>8. ASSUME NEW s \in Sessions, Reply(s) PROVE ControlTypes' /\ OtherTypes'
    <2>1. Head(queue[s]) \in Runs /\ Tail(queue[s]) \in Seq(Runs)
      BY <1>8, <1>a DEF Reply, OtherTypes
    <2>2. Head(queue[s]).task \in Tasks /\ Head(queue[s]).phase \in Phases
      BY <2>1 DEF Runs
    <2>3. latest' \in [Sessions -> [run : Runs \cup {NoRun},
                               says : TaskReplies \cup ActionReplies]]
      <3>1. CASE latest' = latest
        BY <1>a, <3>1 DEF OtherTypes
      <3>2. CASE \E m \in Replies(Head(queue[s]).phase) :
                   latest' = [latest EXCEPT ![s] = [run |-> Head(queue[s]), says |-> m]]
        <4>1. PICK m \in Replies(Head(queue[s]).phase) :
                   latest' = [latest EXCEPT ![s] = [run |-> Head(queue[s]), says |-> m]]
          BY <3>2
        <4>2. [run |-> Head(queue[s]), says |-> m] \in
                [run : Runs \cup {NoRun}, says : TaskReplies \cup ActionReplies]
          BY <2>1, <2>2, DataTypes
        <4> QED
          BY <1>a, <4>1, <4>2 DEF OtherTypes
      <3> QED
        BY <1>8, <3>1, <3>2 DEF Reply
    <2> QED
      BY <1>8, <1>a, <2>1, <2>2, <2>3
      DEF Reply, taskVars, ControlTypes, OtherTypes
  <1>9. ASSUME NEW s \in Sessions, RunFails(s) PROVE ControlTypes' /\ OtherTypes'
    <2>1. Head(queue[s]) \in Runs /\ Tail(queue[s]) \in Seq(Runs)
      BY <1>9, <1>a DEF RunFails, OtherTypes
    <2>2. Head(queue[s]).task \in Tasks
      BY <2>1 DEF Runs
    <2>3. ControlTypes'
      BY <1>9, <1>a, <2>2, ThrowType DEF RunFails, ControlTypes
    <2> QED
      BY <1>9, <1>a, <2>1, <2>3 DEF RunFails, OtherTypes
  <1>10. ASSUME UNCHANGED vars PROVE ControlTypes' /\ OtherTypes'
    BY <1>10, <1>a DEF vars, taskVars, agentVars, ControlTypes, OtherTypes
  <1> QED
    BY <1>1, <1>2, <1>3, <1>4, <1>5, <1>6, <1>7, <1>8, <1>9, <1>10 DEF Next, Step

(* Type correctness, for every number of tasks and turns.                  *)
THEOREM TypeCorrect == Spec => []TypeOK
  <1>1. Init => TypeOK
    BY TypeInit
  <1>2. TypeOK /\ [Next]_vars => TypeOK'
    BY TypeNext
  <1> QED
    BY <1>1, <1>2, PTL DEF Spec

-----------------------------------------------------------------------------
(* No action is sent twice.                                                *)
BeforeDispatch(t) ==
    pc[t] \in {"idle", "task", "taskWait", "action", "actionWait"}

LEMMA SentFrame ==
    ASSUME SentInv, UNCHANGED sent,
           \A t \in Tasks :
              /\ BeforeDispatch(t)' => BeforeDispatch(t)
              /\ pc'[t] = "dispatch" =>
                    \/ BeforeDispatch(t)
                    \/ pc[t] = "dispatch" /\ results'[t] = results[t]
    PROVE  SentInv'
  BY DEF SentInv, BeforeDispatch

LEMMA SentSendAction ==
    ASSUME TypeOK, SentInv, NEW u \in Tasks, SendAction(u)
    PROVE  SentInv'
  <1> DEFINE n == Len(results[u])
  <1>1. results[u] \in Seq({"applied", "failed"}) /\ n \in Nat
    BY DEF TypeOK
  <1>2. pc[u] = "dispatch"
    BY DEF SendAction
  <1>3. \A i \in 1 .. MaxActions : i > n => sent[u][i] = 0
    BY <1>2 DEF SentInv
  <1>4. pc'[u] \in {"dispatch", "report"} /\ Len(results'[u]) = n + 1
    BY <1>1, <1>2 DEF SendAction, Record, Goto, TypeOK
  <1>5. \A t \in Tasks \ {u} : /\ pc'[t] = pc[t]
                              /\ results'[t] = results[t]
                              /\ sent'[t] = sent[t]
    BY DEF SendAction, Record, Goto, TakesEffect, TypeOK
  <1>6. \A i \in 1 .. MaxActions :
          sent'[u][i] = sent[u][i] \/ (i = n + 1 /\ sent'[u][i] = sent[u][i] + 1)
    BY DEF SendAction, TakesEffect, TypeOK
  <1>7. \A i \in 1 .. MaxActions : sent'[u][i] <= 1 /\ (i > n + 1 => sent'[u][i] = 0)
    <2> HIDE DEF n
    <2> TAKE i \in 1 .. MaxActions
    <2>1. sent[u][i] <= 1
      BY DEF SentInv
    <2>2. i \in Nat /\ (i = n + 1 => sent[u][i] = 0) /\ (i > n + 1 => sent[u][i] = 0)
      BY <1>1, <1>3
    <2> QED
      BY <1>1, <1>6, <2>1, <2>2
  <1> HIDE DEF n
  <1> QED
    BY <1>4, <1>5, <1>7 DEF SentInv

LEMMA SentNext == TypeOK /\ SentInv /\ [Next]_vars => SentInv'
  <1> SUFFICES ASSUME TypeOK, SentInv, [Next]_vars PROVE SentInv'
    OBVIOUS
  <1>1. ASSUME NEW u \in Tasks, Start(u) PROVE SentInv'
    BY <1>1, SentFrame
    DEF Start, Throw, Dispatch, Turn, Goto, BeforeDispatch, TypeOK
  <1>2. ASSUME NEW u \in Tasks, NEW phase \in Phases, Send(u, phase) PROVE SentInv'
    BY <1>2, SentFrame DEF Send, WaitOf, Goto, BeforeDispatch, Phases, TypeOK
  <1>3. ASSUME NEW u \in Tasks, ThinkFails(u) PROVE SentInv'
    BY <1>3, SentFrame DEF ThinkFails, Throw, Goto, BeforeDispatch, TypeOK
  <1>4. ASSUME NEW u \in Tasks, TaskTurn(u) PROVE SentInv'
    <2>1. BeforeDispatch(u)
      BY <1>4 DEF TaskTurn, Heard, WaitOf, BeforeDispatch
    <2>2. UNCHANGED sent /\ \A t \in Tasks \ {u} : /\ pc'[t] = pc[t]
                                                /\ results'[t] = results[t]
      BY <1>4 DEF TaskTurn, Throw, Dispatch, Turn, Goto, TypeOK
    <2> QED
      BY <2>1, <2>2, SentFrame DEF BeforeDispatch
  <1>5. ASSUME NEW u \in Tasks, ActionTurn(u) PROVE SentInv'
    <2>1. BeforeDispatch(u)
      BY <1>5 DEF ActionTurn, Heard, WaitOf, BeforeDispatch
    <2>2. UNCHANGED sent /\ \A t \in Tasks \ {u} : /\ pc'[t] = pc[t]
                                                /\ results'[t] = results[t]
      BY <1>5 DEF ActionTurn, NextFormatTurn, Throw, Dispatch, Turn, Goto, TypeOK
    <2> QED
      BY <2>1, <2>2, SentFrame DEF BeforeDispatch
  <1>6. ASSUME NEW u \in Tasks, SendAction(u) PROVE SentInv'
    BY <1>6, SentSendAction
  <1>7. ASSUME NEW u \in Tasks, Report(u) PROVE SentInv'
    BY <1>7, SentFrame DEF Report, Goto, BeforeDispatch, TypeOK
  <1>8. ASSUME NEW s \in Sessions, Reply(s) PROVE SentInv'
    BY <1>8, SentFrame DEF Reply, taskVars, BeforeDispatch
  <1>9. ASSUME NEW s \in Sessions, RunFails(s) PROVE SentInv'
    BY <1>9, SentFrame DEF RunFails, Throw, Goto, BeforeDispatch, TypeOK
  <1>10. ASSUME UNCHANGED vars PROVE SentInv'
    BY <1>10, SentFrame DEF vars, taskVars, BeforeDispatch
  <1> QED
    BY <1>1, <1>2, <1>3, <1>4, <1>5, <1>6, <1>7, <1>8, <1>9, <1>10 DEF Next, Step

(* No action of a task is sent twice, however many turns it took, however  *)
(* many answers were lost and whatever failed in the middle of a batch.    *)
THEOREM SendsOnce == Spec => []ActsOnce
  <1>1. Init => TypeOK /\ SentInv
    BY TypeInit DEF Init, SentInv
  <1>2. TypeOK /\ SentInv /\ [Next]_vars => (TypeOK /\ SentInv)'
    BY TypeNext, SentNext
  <1>3. SentInv => ActsOnce
    BY DEF SentInv, ActsOnce
  <1> QED
    BY <1>1, <1>2, <1>3, PTL DEF Spec

-----------------------------------------------------------------------------
(* One task at a time in a channel.                                        *)
LEMMA SerialFrame ==
    ASSUME Serial, \A t \in Tasks : UnderWay(t)' => UnderWay(t)
    PROVE  Serial'
  BY DEF Serial

LEMMA SerialNext == TypeOK /\ Serial /\ [Next]_vars => Serial'
  <1> SUFFICES ASSUME TypeOK, Serial, [Next]_vars PROVE Serial'
    OBVIOUS
  <1>1. ASSUME NEW u \in Tasks, Start(u) PROVE Serial'
    <2>1. \A t \in Tasks \ {u} : UnderWay(t)' => UnderWay(t)
      BY <1>1 DEF Start, Throw, Dispatch, Turn, Goto, UnderWay, TypeOK
    <2>2. \A t \in Tasks : UnderWay(t) =>
             ChannelOf[u] = NoChannel \/ ChannelOf[t] # ChannelOf[u]
      BY <1>1 DEF Start
    <2> QED
      BY <2>1, <2>2 DEF Serial
  <1>2. ASSUME NEW u \in Tasks, Step(u) PROVE Serial'
    <2>1. UnderWay(u)
      BY <1>2 DEF Step, Send, ThinkFails, TaskTurn, ActionTurn, SendAction, Report,
                  Heard, WaitOf, Phases, UnderWay
    <2>2. \A t \in Tasks \ {u} : pc'[t] = pc[t]
      <3>1. CASE \E phase \in Phases : Send(u, phase)
        BY <3>1 DEF Send, Goto, TypeOK
      <3>2. CASE ThinkFails(u)
        BY <3>2 DEF ThinkFails, Throw, Goto, TypeOK
      <3>3. CASE TaskTurn(u)
        BY <3>3 DEF TaskTurn, Throw, Dispatch, Turn, Goto, TypeOK
      <3>4. CASE ActionTurn(u)
        BY <3>4 DEF ActionTurn, NextFormatTurn, Throw, Dispatch, Turn, Goto, TypeOK
      <3>5. CASE SendAction(u)
        BY <3>5 DEF SendAction, Record, Goto, TypeOK
      <3>6. CASE Report(u)
        BY <3>6 DEF Report, Goto, TypeOK
      <3> QED
        BY <1>2, <3>1, <3>2, <3>3, <3>4, <3>5, <3>6 DEF Step
    <2> QED
      BY <2>1, <2>2, SerialFrame DEF UnderWay
  <1>3. ASSUME NEW s \in Sessions, Reply(s) \/ RunFails(s) PROVE Serial'
    <2>1. CASE Reply(s)
      BY <2>1, SerialFrame DEF Reply, taskVars, UnderWay
    <2>2. CASE RunFails(s)
      <3>1. Head(queue[s]) \in Runs
        BY <2>2 DEF RunFails, TypeOK
      <3>2. Head(queue[s]).phase \in Phases /\ Head(queue[s]).task \in Tasks
        BY <3>1 DEF Runs
      <3> QED
        BY <2>2, <3>2, SerialFrame
        DEF RunFails, Throw, Goto, UnderWay, WaitOf, TypeOK, Phases
    <2> QED
      BY <1>3, <2>1, <2>2
  <1>4. ASSUME UNCHANGED vars PROVE Serial'
    BY <1>4, SerialFrame DEF vars, taskVars, UnderWay
  <1> QED
    BY <1>1, <1>2, <1>3, <1>4 DEF Next

-----------------------------------------------------------------------------
(* The latest message of a channel once a task has spoken in it.           *)

LEMMA SpokeUnderWay == \A t : Spoke(t) => UnderWay(t)
  BY DEF Spoke, UnderWay

(* Nothing of the task or its channel changes.                             *)
LEMMA LatestFrame ==
    ASSUME NEW t, NEW c, Spoke(t)' => Latest(t, c),
           pc'[t] = pc[t], turn'[t] = turn[t], run'[t] = run[t],
           queue'[c] = queue[c], latest'[c] = latest[c], deaf \subseteq deaf'
    PROVE  Spoke(t)' => Latest(t, c)'
  BY DEF Latest, Spoke, Behind, InQueue

(* The first run of the session is over.                                   *)
LEMMA TailQueue ==
    ASSUME TypeOK, NEW c \in Sessions, queue[c] # <<>>,
           queue' = [queue EXCEPT ![c] = Tail(@)],
           NEW t \in Tasks, run'[t] = run[t]
    PROVE  /\ Behind(t, c) => Behind(t, c)'
           /\ InQueue(t, c)' => InQueue(t, c)
           /\ Head(queue[c]) # run[t] /\ InQueue(t, c) => InQueue(t, c)'
           /\ Head(queue[c]) = run[t] => InQueue(t, c)
           /\ Behind(t, c) /\ ~InQueue(t, c) => Head(queue[c]).task = t
  <1> DEFINE q == queue[c]
  <1>1. q \in Seq(Runs) /\ q # <<>> /\ queue'[c] = Tail(q)
    BY DEF TypeOK
  <1>2. /\ Len(q) \in Nat \ {0}
        /\ DOMAIN q = 1 .. Len(q)
        /\ DOMAIN queue'[c] = 1 .. Len(q) - 1
        /\ \A i \in 1 .. Len(q) - 1 : queue'[c][i] = q[i + 1]
        /\ Head(q) = q[1]
    <2>1. Len(q) \in Nat \ {0} /\ DOMAIN q = 1 .. Len(q) /\ Head(q) = q[1]
      BY <1>1
    <2>2. /\ Tail(q) \in Seq(Runs)
          /\ Len(Tail(q)) = Len(q) - 1
          /\ \A i \in 1 .. Len(q) - 1 : Tail(q)[i] = q[i + 1]
      BY <1>1, <2>1
    <2>3. DOMAIN Tail(q) = 1 .. Len(q) - 1
      BY <2>2
    <2> QED
      BY <1>1, <2>1, <2>2, <2>3
  <1> HIDE DEF q
  <1>3. Behind(t, c) => Behind(t, c)'
    <2> SUFFICES ASSUME Behind(t, c), NEW j \in DOMAIN queue'[c], queue'[c][j].task # t
                 PROVE  \E i \in DOMAIN queue'[c] : i > j /\ queue'[c][i] = run'[t]
      BY DEF Behind
    <2>1. j \in 1 .. Len(q) - 1 /\ j + 1 \in DOMAIN q /\ q[j + 1].task # t
      BY <1>2
    <2>2. PICK i \in DOMAIN q : i > j + 1 /\ q[i] = run[t]
      BY <2>1 DEF Behind, q
    <2>3. i - 1 \in DOMAIN queue'[c] /\ i - 1 > j /\ queue'[c][i - 1] = run[t]
      <3>1. i \in 1 .. Len(q) /\ i - 1 \in 1 .. Len(q) - 1 /\ i - 1 > j /\ (i - 1) + 1 = i
        BY <1>2, <2>1, <2>2
      <3>2. queue'[c][i - 1] = q[(i - 1) + 1]
        BY <1>2, <3>1
      <3> QED
        BY <1>2, <2>2, <3>1, <3>2
    <2> QED
      BY <2>3
  <1>4. InQueue(t, c)' => InQueue(t, c)
    <2> SUFFICES ASSUME NEW i \in 1 .. Len(q) - 1, q[i + 1] = run[t]
                 PROVE  \E k \in DOMAIN q : q[k] = run[t]
      BY <1>2 DEF InQueue, q
    <2>1. i + 1 \in DOMAIN q
      BY <1>2
    <2> QED
      BY <2>1
  <1>5. Head(q) # run[t] /\ InQueue(t, c) => InQueue(t, c)'
    <2> SUFFICES ASSUME q[1] # run[t], NEW i \in DOMAIN q, q[i] = run[t]
                 PROVE  \E k \in DOMAIN queue'[c] : queue'[c][k] = run[t]
      BY <1>2 DEF InQueue, q
    <2>1. i - 1 \in 1 .. Len(q) - 1 /\ (i - 1) + 1 = i
      BY <1>2
    <2>2. queue'[c][i - 1] = q[i]
      BY <1>2, <2>1
    <2> QED
      BY <1>2, <2>1, <2>2
  <1>6. 1 \in DOMAIN q
    BY <1>2
  <1>7. Head(q) = run[t] => InQueue(t, c)
    BY <1>2, <1>6 DEF InQueue, q
  <1>8. Behind(t, c) /\ ~InQueue(t, c) => Head(q).task = t
    BY <1>2, <1>6 DEF Behind, InQueue, q
  <1> QED
    BY <1>3, <1>4, <1>5, <1>7, <1>8 DEF q

(* A new run goes behind all others.                                       *)
LEMMA AppendQueue ==
    ASSUME TypeOK, NEW c \in Sessions, NEW t \in Tasks, NEW r \in Runs, r.task = t,
           queue' = [queue EXCEPT ![c] = Append(@, r)], run'[t] = r
    PROVE  Behind(t, c)' /\ InQueue(t, c)'
  <1> DEFINE q == queue[c]
             n == Len(q) + 1
  <1>1. q \in Seq(Runs) /\ queue'[c] = Append(q, r)
    BY DEF TypeOK
  <1>2. /\ n \in Nat
        /\ DOMAIN queue'[c] = 1 .. n
        /\ n \in 1 .. n
        /\ queue'[c][n] = r
    BY <1>1
  <1> HIDE DEF n, q
  <1>3. \A j \in 1 .. n : j # n => n > j
    BY <1>2
  <1> QED
    BY <1>2, <1>3 DEF Behind, InQueue

(* A finished wait of a task that is not deaf hands over its own message.  *)
LEMMA HeardOwn ==
    ASSUME NEW t \in Tasks, NEW phase \in Phases, Heard(t, phase),
           ChannelOf[t] # NoChannel, LatestInv, t \notin deaf'
    PROVE  /\ t \notin deaf
           /\ ~InQueue(t, ChannelOf[t])
           /\ SessionKey(t, phase) = ChannelOf[t]
           /\ latest[ChannelOf[t]].run.task = t
  <1>1. SessionKey(t, phase) = ChannelOf[t]
    BY SessionKeyType
  <1>2. ~Pending(t, phase) /\ UNCHANGED deaf
    BY DEF Heard
  <1>3. ~InQueue(t, ChannelOf[t])
    BY <1>1, <1>2 DEF Pending, InQueue
  <1>4. Latest(t, ChannelOf[t])
    BY DEF Heard, WaitOf, Phases, LatestInv, Spoke
  <1> QED
    BY <1>1, <1>2, <1>3, <1>4 DEF Latest

LEMMA LatestNext == TypeOK /\ Serial /\ LatestInv /\ [Next]_vars => LatestInv'
  <1> SUFFICES ASSUME TypeOK, Serial, LatestInv, [Next]_vars,
                      NEW t \in Tasks, ChannelOf[t] # NoChannel
               PROVE  Spoke(t)' => Latest(t, ChannelOf[t])'
    BY DEF LatestInv
  <1> DEFINE c == ChannelOf[t]
  <1>a. c \in Channels /\ c \in Sessions
    BY DEF Sessions
  <1>b. Spoke(t) => Latest(t, c)
    BY DEF LatestInv
  <1>c. \A u \in Tasks, phase \in Phases :
          u # t /\ UnderWay(u) /\ Spoke(t) => SessionKey(u, phase) # c
    BY <1>a, SessionKeyType, SpokeUnderWay DEF Serial
  <1> HIDE DEF c
  <1> SUFFICES Spoke(t)' => Latest(t, c)'
    BY DEF c
  <1>1. ASSUME NEW u \in Tasks, Start(u) PROVE Spoke(t)' => Latest(t, c)'
    <2>1. CASE u = t
      BY <1>1, <2>1 DEF Start, Throw, Dispatch, Turn, Goto, Spoke, TypeOK
    <2>2. CASE u # t
      <3>1. pc'[t] = pc[t] /\ turn'[t] = turn[t]
        BY <1>1, <2>2 DEF Start, Throw, Dispatch, Turn, Goto, TypeOK
      <3>2. UNCHANGED <<run, queue, latest, deaf>>
        BY <1>1 DEF Start, agentVars
      <3>3. Spoke(t)' => Latest(t, c)
        BY <1>b, <3>1 DEF Spoke
      <3> QED
        BY <3>1, <3>2, <3>3, LatestFrame
    <2> QED
      BY <2>1, <2>2
  <1>2. ASSUME NEW u \in Tasks, NEW phase \in Phases, Send(u, phase)
        PROVE  Spoke(t)' => Latest(t, c)'
    <2>1. CASE u = t
      <3>1. SessionKey(t, phase) = c /\ pc[t] = phase /\ pc'[t] = WaitOf(phase)
        BY <1>2, <2>1, SessionKeyType DEF Send, Goto, TypeOK, c
      <3> DEFINE r == [task |-> t, phase |-> phase, turn |-> turn[t]]
      <3>2. CASE run' = [run EXCEPT ![t] = r] /\ queue' = [queue EXCEPT ![c] = Append(@, r)]
        <4>1. r \in Runs /\ r.task = t /\ r.phase = phase
          BY DEF Runs, TypeOK
        <4>2. run'[t] = r
          BY <3>2 DEF TypeOK
        <4> HIDE DEF r
        <4>3. Behind(t, c)' /\ InQueue(t, c)'
          BY <1>a, <3>2, <4>1, <4>2, AppendQueue
        <4> QED
          BY <3>1, <4>1, <4>2, <4>3 DEF Latest, WaitOf, Phases
      <3>3. CASE KeyUsedBefore(t, phase) /\ UNCHANGED <<run, queue>>
        <4>1. pc[t] = "task" /\ pc'[t] = "taskWait" /\ Spoke(t)
          BY <3>1, <3>3 DEF KeyUsedBefore, WaitOf, Spoke
        <4>2. Latest(t, c)
          BY <1>b, <4>1
        <4>3. UNCHANGED <<latest, deaf>>
          BY <1>2 DEF Send
        <4> QED
          BY <3>3, <4>1, <4>2, <4>3 DEF Latest, Behind, InQueue
      <3> QED
        BY <1>2, <2>1, <3>1, <3>2, <3>3 DEF Send
    <2>2. CASE u # t
      <3>1. UnderWay(u)
        BY <1>2 DEF Send, UnderWay, Phases
      <3>2. pc'[t] = pc[t] /\ turn'[t] = turn[t] /\ run'[t] = run[t]
        BY <1>2, <2>2 DEF Send, Goto, TypeOK
      <3>3. UNCHANGED <<latest, deaf>>
        BY <1>2 DEF Send
      <3>4. Spoke(t) => queue'[c] = queue[c]
        BY <1>2, <1>a, <1>c, <2>2, <3>1 DEF Send, TypeOK
      <3>5. Spoke(t)' => Spoke(t)
        BY <3>2 DEF Spoke
      <3> QED
        BY <1>b, <3>2, <3>3, <3>4, <3>5, LatestFrame
    <2> QED
      BY <2>1, <2>2
  <1>3. ASSUME NEW u \in Tasks, ThinkFails(u) \/ SendAction(u) \/ Report(u)
        PROVE  Spoke(t)' => Latest(t, c)'
    <2>1. CASE u = t
      BY <1>3, <2>1
      DEF ThinkFails, SendAction, Record, Report, Throw, Goto, Spoke, TypeOK
    <2>2. CASE u # t
      <3>1. pc'[t] = pc[t] /\ turn'[t] = turn[t] /\ run'[t] = run[t]
        BY <1>3, <2>2
        DEF ThinkFails, SendAction, Record, Report, Throw, Goto, agentVars, TypeOK
      <3>2. UNCHANGED <<queue, latest, deaf>>
        BY <1>3 DEF ThinkFails, SendAction, Report, agentVars
      <3>3. Spoke(t)' => Latest(t, c)
        BY <1>b, <3>1 DEF Spoke
      <3> QED
        BY <3>1, <3>2, <3>3, LatestFrame
    <2> QED
      BY <2>1, <2>2
  <1>4. ASSUME NEW u \in Tasks, TaskTurn(u) \/ ActionTurn(u)
        PROVE  Spoke(t)' => Latest(t, c)'
    <2>1. UNCHANGED <<run, queue, latest>>
      BY <1>4 DEF TaskTurn, ActionTurn, agentVars
    <2>2. deaf \subseteq deaf'
      BY <1>4 DEF TaskTurn, ActionTurn, Heard
    <2>3. CASE u = t
      <3>1. PICK phase \in Phases : Heard(t, phase) /\ pc[t] = WaitOf(phase)
        BY <1>4, <2>3, LimitTypes DEF TaskTurn, ActionTurn, Heard
      <3>2. Latest(t, c)
        BY <1>b, <3>1 DEF WaitOf, Phases, Spoke
      <3>3. pc'[t] = "task" => pc[t] = "taskWait"
        BY <1>4, <2>3
        DEF TaskTurn, ActionTurn, NextFormatTurn, Heard, WaitOf, Throw, Dispatch,
            Turn, Goto, TypeOK
      <3>4. pc'[t] \notin {"taskWait", "actionWait"}
        BY <1>4, <2>3
        DEF TaskTurn, ActionTurn, NextFormatTurn, Throw, Dispatch, Turn, Goto, TypeOK
      <3>5. t \notin deaf' => ~InQueue(t, c) /\ latest[c].run.task = t
        BY <3>1, HeardOwn DEF c
      <3> QED
        BY <2>1, <3>2, <3>3, <3>4, <3>5 DEF Latest, Behind, InQueue
    <2>4. CASE u # t
      <3>1. pc'[t] = pc[t] /\ turn'[t] = turn[t]
        <4>1. CASE TaskTurn(u)
          BY <4>1, <2>4 DEF TaskTurn, Throw, Dispatch, Turn, Goto, TypeOK
        <4>2. CASE ActionTurn(u)
          BY <4>2, <2>4 DEF ActionTurn, NextFormatTurn, Throw, Dispatch, Turn, Goto, TypeOK
        <4> QED
          BY <1>4, <4>1, <4>2
      <3>2. Spoke(t)' => Latest(t, c)
        BY <1>b, <3>1 DEF Spoke
      <3> QED
        BY <2>1, <2>2, <3>1, <3>2, LatestFrame
    <2> QED
      BY <2>3, <2>4
  <1>5. ASSUME NEW s \in Sessions, Reply(s) PROVE Spoke(t)' => Latest(t, c)'
    <2>1. UNCHANGED <<pc, turn, run>> /\ deaf \subseteq deaf'
      BY <1>5 DEF Reply, taskVars
    <2>2. CASE s # c
      <3>1. queue'[c] = queue[c] /\ latest'[c] = latest[c]
        BY <1>5, <2>2, <1>a DEF Reply, TypeOK
      <3>2. Spoke(t)' => Latest(t, c)
        BY <1>b, <2>1 DEF Spoke
      <3> QED
        BY <2>1, <3>1, <3>2, LatestFrame
    <2>3. CASE s = c
      <3> SUFFICES ASSUME Spoke(t) PROVE Latest(t, c)'
        BY <2>1 DEF Spoke
      <3>1. Latest(t, c)
        BY <1>b
      <3>2. queue[c] # <<>> /\ queue' = [queue EXCEPT ![c] = Tail(@)]
        BY <1>5, <2>3 DEF Reply
      <3>3. /\ Behind(t, c)'
            /\ InQueue(t, c)' => InQueue(t, c)
            /\ ~InQueue(t, c)' => Head(queue[c]).task = t
        BY <1>a, <2>1, <3>1, <3>2, TailQueue DEF Latest
      <3>4. Head(queue[c]).task = t => latest'[c].run.task = t \/ t \in deaf'
        BY <1>5, <2>3, <1>a DEF Reply, TypeOK
      <3> QED
        BY <2>1, <3>1, <3>3, <3>4 DEF Latest
    <2> QED
      BY <2>2, <2>3
  <1>6. ASSUME NEW s \in Sessions, RunFails(s) PROVE Spoke(t)' => Latest(t, c)'
    <2> DEFINE r == Head(queue[s])
    <2>1. r \in Runs /\ r.task \in Tasks
      <3>1. r \in Runs
        BY <1>6 DEF RunFails, TypeOK
      <3> QED
        BY <3>1 DEF Runs
    <2>2. UNCHANGED <<turn, run, latest, deaf>>
      BY <1>6 DEF RunFails, Throw
    <2>3. pc'[t] = pc[t] \/ pc'[t] = "report"
      BY <1>6, <2>1 DEF RunFails, Throw, Goto, TypeOK
    <2>4. CASE pc'[t] = "report"
      BY <2>4 DEF Spoke
    <2>5. CASE pc'[t] = pc[t] /\ s # c
      <3>1. queue'[c] = queue[c]
        BY <1>6, <2>5, <1>a DEF RunFails, TypeOK
      <3>2. Spoke(t)' => Latest(t, c)
        BY <1>b, <2>2, <2>5 DEF Spoke
      <3> QED
        BY <2>2, <2>5, <3>1, <3>2, LatestFrame
    <2>6. CASE pc'[t] = pc[t] /\ s = c
      <3> SUFFICES ASSUME Spoke(t) PROVE Latest(t, c)'
        BY <2>2, <2>6 DEF Spoke
      <3>1. Latest(t, c)
        BY <1>b
      <3>2. queue[c] # <<>> /\ queue' = [queue EXCEPT ![c] = Tail(@)]
        BY <1>6, <2>6 DEF RunFails
      <3>3. /\ Behind(t, c)'
            /\ InQueue(t, c)' => InQueue(t, c)
            /\ Head(queue[c]) # run[t] /\ ~InQueue(t, c)' => ~InQueue(t, c)
            /\ Head(queue[c]) = run[t] => InQueue(t, c)
        BY <1>a, <2>2, <3>1, <3>2, TailQueue DEF Latest
      <3>4. Head(queue[c]) = run[t] => pc[t] \in {"task", "action"}
        <4>1. CASE r = run[t] /\ pc[t] = WaitOf(r.phase)
          <5>1. pc'[t] = "report"
            BY <1>6, <4>1, <3>1 DEF RunFails, Throw, Goto, TypeOK, Latest
          <5> QED
            BY <2>6, <5>1, <4>1 DEF WaitOf
        <4>2. CASE r = run[t] /\ pc[t] # WaitOf(r.phase)
          BY <4>2, <3>1 DEF Latest, WaitOf, Spoke
        <4> QED
          BY <2>6, <4>1, <4>2
      <3> QED
        BY <2>2, <2>6, <3>1, <3>3, <3>4 DEF Latest
    <2> QED
      BY <2>3, <2>4, <2>5, <2>6
  <1>7. ASSUME UNCHANGED vars PROVE Spoke(t)' => Latest(t, c)'
    BY <1>7, <1>b DEF vars, taskVars, agentVars, Spoke, Latest, Behind, InQueue
  <1> QED
    BY <1>1, <1>2, <1>3, <1>4, <1>5, <1>6, <1>7 DEF Next, Step

LEMMA OwnReplyNext ==
    TypeOK /\ LatestInv /\ OwnReply /\ [Next]_vars => OwnReply'
  <1> SUFFICES ASSUME TypeOK, LatestInv, OwnReply, [Next]_vars,
                      NEW t \in Tasks, ChannelOf[t] # NoChannel, t \notin deaf'
               PROVE  basis'[t] \subseteq {t}
    BY DEF OwnReply
  <1>1. ASSUME NEW u \in Tasks, NEW phase \in Phases, Heard(u, phase),
               UNCHANGED basis \/ ActsOnReply(u, phase)
        PROVE  basis'[t] \subseteq {t}
    <2>1. t \notin deaf /\ basis[t] \subseteq {t}
      BY <1>1 DEF Heard, OwnReply
    <2>2. CASE basis'[t] = basis[t]
      BY <2>1, <2>2
    <2>3. CASE u = t /\ ActsOnReply(t, phase)
      <3>1. latest[SessionKey(t, phase)].run.task = t
        BY <1>1, <2>3, HeardOwn
      <3> QED
        BY <2>1, <2>3, <3>1 DEF ActsOnReply, TypeOK
    <2> QED
      BY <1>1, <2>2, <2>3 DEF ActsOnReply, TypeOK
  <1>2. ASSUME NEW u \in Tasks, TaskTurn(u) \/ ActionTurn(u)
        PROVE  basis'[t] \subseteq {t}
    BY <1>1, <1>2, LimitTypes DEF TaskTurn, ActionTurn
  <1>3. ASSUME UNCHANGED basis, deaf \subseteq deaf' PROVE basis'[t] \subseteq {t}
    BY <1>3 DEF OwnReply
  <1>4. ASSUME NEW u \in Tasks, Start(u) PROVE UNCHANGED <<basis, deaf>>
    BY <1>4 DEF Start
  <1>5. ASSUME NEW u \in Tasks, Step(u), ~TaskTurn(u), ~ActionTurn(u)
        PROVE  UNCHANGED <<basis, deaf>>
    BY <1>5 DEF Step, Send, ThinkFails, SendAction, Report
  <1>6. ASSUME NEW s \in Sessions, Reply(s) \/ RunFails(s)
        PROVE  UNCHANGED basis /\ deaf \subseteq deaf'
    BY <1>6 DEF Reply, RunFails
  <1>7. ASSUME UNCHANGED vars PROVE UNCHANGED <<basis, deaf>>
    BY <1>7 DEF vars
  <1> QED
    BY <1>2, <1>3, <1>4, <1>5, <1>6, <1>7 DEF Next

(* A task in a channel acts on replies to its own prompts, whatever other  *)
(* tasks left behind in the session of the channel.                        *)
THEOREM ActsOnOwnReplies == Spec => []OwnReply
  <1> DEFINE IInv == TypeOK /\ Serial /\ LatestInv /\ OwnReply
  <1>1. Init => IInv
    BY TypeInit DEF Init, Serial, LatestInv, Spoke, UnderWay, OwnReply
  <1>2. IInv /\ [Next]_vars => IInv'
    BY TypeNext, SerialNext, LatestNext, OwnReplyNext
  <1>3. IInv => OwnReply
    OBVIOUS
  <1> QED
    BY <1>1, <1>2, <1>3, PTL DEF Spec

=============================================================================
