---------------------------- MODULE SemanticSession ----------------------------
(***************************************************************************)
(* What a child of the plugin bridge does with one claimed task: fetch the *)
(* work packet and the contract, let the agent think (task phase: read     *)
(* context until it has a result; action phase: turn the result into an    *)
(* envelope of actions), send the actions to Knotwork one by one, tell the *)
(* channel about a failure, and archive the deliveries.                    *)
(*                                                                         *)
(* Tasks run side by side, but not two of one channel (PluginBridge).  The *)
(* agent's sessions belong to OpenClaw, which is modelled from how the     *)
(* code uses it: a session answers its messages in order, a run can go on  *)
(* after its caller stopped waiting, and a message with the idempotency    *)
(* key of an earlier one may be taken for a repetition of it.              *)
(***************************************************************************)
EXTENDS Naturals, Sequences

CONSTANTS
    Tasks,        \* claimed tasks
    Channels,     \* channels of the workspace
    NoChannel,    \* the task is about a run, proposal or asset
    Formatter,    \* the session name knotwork:formatter
    ChannelOf,    \* task -> channel
    ReadLimit,    \* turns of the task phase (6)
    FormatLimit,  \* turns of the action phase (3)
    MaxActions    \* bound: actions of an envelope

ASSUME SessionAssumption ==
    /\ NoChannel \notin Channels
    /\ Channels \cap Tasks = {}
    /\ Formatter \notin Channels \cup Tasks
    /\ ChannelOf \in [Tasks -> Channels \cup {NoChannel}]
    /\ {ReadLimit, FormatLimit, MaxActions} \subseteq Nat \ {0}

VARIABLES
    pc,        \* where SemanticOrchestrator.run and runClaimedTask are
    turn,      \* the iteration of the phase
    run,       \* the run of the agent whose end the task waits for
    envelope,  \* the envelope under dispatch
    results,   \* action_results of the dispatch
    outcome,   \* next_task_status, "failed" as well after an exception
    told,      \* the failure message in the channel
    queue,     \* runs a session has not answered yet
    latest,    \* the latest assistant message of a session
    sent,      \* calls of the i-th action of an envelope that took effect
    basis,     \* the tasks whose replies a task acted on
    deaf       \* tasks that did not get an answer to one of their prompts

taskVars  == <<pc, turn, run, envelope, results, outcome, told>>
agentVars == <<queue, latest>>
vars == <<taskVars, agentVars, sent, basis, deaf>>

Phases   == {"task", "action"}
Turns    == 0 .. ReadLimit + FormatLimit
Runs     == [task : Tasks, phase : Phases, turn : Turns]
Sessions == Channels \cup Tasks \cup {Formatter}
NoRun    == [task |-> NoChannel, phase |-> "none", turn |-> 0]
NoEnvelope   == [acts |-> 0, ends |-> "none"]
NoopEnvelope == [acts |-> 1, ends |-> "completed"]
FailEnvelope == [acts |-> 1, ends |-> "failed"]
Envelopes == [acts : 1 .. MaxActions, ends : {"completed", "failed"}]

(* What the parsers make of a message: a message of the other phase has    *)
(* not the fence they look for, and an action the contract does not allow, *)
(* a mixed batch and a malformed message are garbled alike.                *)
Saying(kinds)  == [kind : kinds, plan : {NoEnvelope}]
TaskReplies    == Saying({"read", "result", "fail", "garbled"})
ActionReplies  == Saying({"reads", "garbled"})
                  \cup [kind : {"writes"}, plan : Envelopes]
Replies(phase) == IF phase = "task" THEN TaskReplies ELSE ActionReplies
Garbled == [kind |-> "garbled", plan |-> NoEnvelope]
NoReply == [run |-> NoRun, says |-> Garbled]

TypeOK ==
    /\ pc \in [Tasks -> {"idle", "task", "taskWait", "action", "actionWait",
                         "dispatch", "report", "done"}]
    /\ turn \in [Tasks -> Turns]
    /\ run \in [Tasks -> Runs \cup {NoRun}]
    /\ envelope \in [Tasks -> Envelopes \cup {NoEnvelope}]
    /\ results \in [Tasks -> Seq({"applied", "failed"})]
    /\ outcome \in [Tasks -> {"none", "completed", "failed"}]
    /\ told \in [Tasks -> {"no", "told", "unposted"}]
    /\ queue \in [Sessions -> Seq(Runs)]
    /\ latest \in [Sessions -> [run : Runs \cup {NoRun},
                               says : TaskReplies \cup ActionReplies]]
    /\ sent \in [Tasks -> [1 .. MaxActions -> Nat]]
    /\ basis \in [Tasks -> SUBSET Tasks]
    /\ deaf \subseteq Tasks

Init ==
    /\ pc = [t \in Tasks |-> "idle"]
    /\ turn = [t \in Tasks |-> 0]
    /\ run = [t \in Tasks |-> NoRun]
    /\ envelope = [t \in Tasks |-> NoEnvelope]
    /\ results = [t \in Tasks |-> <<>>]
    /\ outcome = [t \in Tasks |-> "none"]
    /\ told = [t \in Tasks |-> "no"]
    /\ queue = [s \in Sessions |-> <<>>]
    /\ latest = [s \in Sessions |-> NoReply]
    /\ sent = [t \in Tasks |-> [i \in 1 .. MaxActions |-> 0]]
    /\ basis = [t \in Tasks |-> {}]
    /\ deaf = {}

-----------------------------------------------------------------------------
Goto(t, l) == pc' = [pc EXCEPT ![t] = l]
UnderWay(t) == pc[t] \notin {"idle", "done"}

(* An exception that leaves run(): the worker makes the task a failed one. *)
Throw(t) ==
    /\ Goto(t, "report")
    /\ outcome' = [outcome EXCEPT ![t] = "failed"]
    /\ UNCHANGED <<turn, envelope, results>>

Dispatch(t, e) ==
    /\ Goto(t, "dispatch")
    /\ envelope' = [envelope EXCEPT ![t] = e]
    /\ results' = [results EXCEPT ![t] = <<>>]
    /\ UNCHANGED <<turn, outcome>>

Turn(t, phase, n) ==
    /\ Goto(t, phase)
    /\ turn' = [turn EXCEPT ![t] = n]
    /\ UNCHANGED <<envelope, results, outcome>>

(* The work packet, the contract with the packet's checksum and the        *)
(* capabilities are fetched; a message that mentions others is not         *)
(* answered at all.  A task has its channel to itself.                     *)
Start(t) ==
    /\ pc[t] = "idle"
    /\ \A u \in Tasks : UnderWay(u) =>
          ChannelOf[t] = NoChannel \/ ChannelOf[u] # ChannelOf[t]
    /\ \/ Throw(t)
       \/ Dispatch(t, NoopEnvelope)
       \/ Turn(t, "task", 1)
    /\ UNCHANGED <<run, told, agentVars, sent, basis, deaf>>

-----------------------------------------------------------------------------
(* think(), by way of executeTaskRaw.                                      *)

(* A channel decides the session, also that of the action phase; the       *)
(* formatter session is shared by all tasks without a channel.             *)
SessionKey(t, phase) ==
    CASE ChannelOf[t] # NoChannel -> ChannelOf[t]
      [] ChannelOf[t] = NoChannel /\ phase = "task" -> t
      [] OTHER -> Formatter

(* All turns of the task phase have the same idempotency key, those of the *)
(* action phase each their own.                                            *)
KeyUsedBefore(t, phase) == phase = "task" /\ turn[t] > 1

WaitOf(phase) == IF phase = "task" THEN "taskWait" ELSE "actionWait"

(* subagent.run starts a run, or takes the message for one it knows.       *)
Send(t, phase) ==
    /\ pc[t] = phase
    /\ Goto(t, WaitOf(phase))
    /\ LET r == [task |-> t, phase |-> phase, turn |-> turn[t]]
           s == SessionKey(t, phase)
       IN \/ /\ run' = [run EXCEPT ![t] = r]
             /\ queue' = [queue EXCEPT ![s] = Append(@, r)]
          \/ /\ KeyUsedBefore(t, phase)
             /\ UNCHANGED <<run, queue>>
    /\ UNCHANGED <<turn, envelope, results, outcome, told, latest, sent, basis,
                   deaf>>

(* The agent answers the first message of a session; its run can also end  *)
(* well without a text.                                                    *)
Reply(s) ==
    /\ queue[s] # <<>>
    /\ queue' = [queue EXCEPT ![s] = Tail(@)]
    /\ LET r == Head(queue[s]) IN
       \/ /\ \E m \in Replies(r.phase) :
                latest' = [latest EXCEPT ![s] = [run |-> r, says |-> m]]
          /\ UNCHANGED deaf
       \/ /\ deaf' = deaf \cup {r.task}
          /\ UNCHANGED latest
    /\ UNCHANGED <<taskVars, sent, basis>>

Pending(t, phase) ==
    \E i \in DOMAIN queue[SessionKey(t, phase)] :
        queue[SessionKey(t, phase)][i] = run[t]

(* A run that ends with an error ends the task that waits for it.          *)
RunFails(s) ==
    /\ queue[s] # <<>>
    /\ queue' = [queue EXCEPT ![s] = Tail(@)]
    /\ LET r == Head(queue[s]) IN
       IF pc[r.task] = WaitOf(r.phase) /\ run[r.task] = r
       THEN Throw(r.task)
       ELSE UNCHANGED <<pc, turn, envelope, results, outcome>>
    /\ UNCHANGED <<run, told, latest, sent, basis, deaf>>

(* A call of think() fails, or the wait ends without any message.          *)
ThinkFails(t) ==
    /\ pc[t] \in {"task", "taskWait", "action", "actionWait"}
    /\ Throw(t)
    /\ UNCHANGED <<run, told, agentVars, sent, basis, deaf>>

(* Mutant: the latest message is fetched without waiting for the run.      *)
HeardAtOnce(t, phase) ==
    /\ pc[t] = WaitOf(phase)
    /\ UNCHANGED deaf

(* The message a finished wait hands over: when the run ended the latest   *)
(* one of the session, after 15 minutes just the same, should there be one. *)
Heard(t, phase) ==
    LET s == SessionKey(t, phase) IN
    /\ pc[t] = WaitOf(phase)
    /\ \/ ~Pending(t, phase) /\ UNCHANGED deaf
       \/ /\ Pending(t, phase)
          /\ latest[s].run # NoRun
          /\ deaf' = deaf \cup {t}

Said(t, phase) ==
    LET m == latest[SessionKey(t, phase)]
    IN IF m.run.phase = phase THEN m.says ELSE Garbled

ActsOnReply(t, phase) ==
    basis' = [basis EXCEPT ![t] =
                @ \cup {latest[SessionKey(t, phase)].run.task}]

(* Task phase: read once more, go on with the result, or report a failure; *)
(* nothing is tried again.                                                 *)
TaskTurn(t) ==
    /\ Heard(t, "task")
    /\ \/ /\ Said(t, "task").kind = "result"
          /\ Turn(t, "action", 1)
          /\ ActsOnReply(t, "task")
       \/ /\ Said(t, "task").kind = "fail"
          /\ Dispatch(t, FailEnvelope)
          /\ ActsOnReply(t, "task")
       \/ /\ Said(t, "task").kind = "read"
          /\ turn[t] < ReadLimit
          /\ Turn(t, "task", turn[t] + 1)
          /\ ActsOnReply(t, "task")
       \/ /\ \/ Said(t, "task").kind = "garbled"
             \/ Said(t, "task").kind = "read"   \* refused, or the last turn
          /\ Throw(t)
          /\ UNCHANGED basis
    /\ UNCHANGED <<run, told, agentVars, sent>>

NextFormatTurn(t) ==
    \/ turn[t] < FormatLimit /\ Turn(t, "action", turn[t] + 1)
    \/ turn[t] = FormatLimit /\ Throw(t)

(* Action phase: an envelope of writes is dispatched, reads and whatever   *)
(* does not parse take another turn.  An envelope written for another task *)
(* passes when the contract of this one allows its actions.                *)
ActionTurn(t) ==
    /\ Heard(t, "action")
    /\ \/ /\ Said(t, "action").kind = "writes"
          /\ Dispatch(t, Said(t, "action").plan)
          /\ ActsOnReply(t, "action")
       \/ /\ \/ Said(t, "action").kind \in {"reads", "garbled"}
             \/ latest[SessionKey(t, "action")].run.task # t
          /\ NextFormatTurn(t)
          /\ UNCHANGED basis
    /\ UNCHANGED <<run, told, agentVars, sent>>

-----------------------------------------------------------------------------
(* dispatchEnvelope: the actions of the batch, each sent once.             *)

(* Mutant: a batch fails only when nothing of it worked.                   *)
NothingWorked(rs) == \A i \in DOMAIN rs : rs[i] = "failed"

(* Knotwork answers "applied" or "failed", and an action the contract does *)
(* not allow was refused by the parser: no result is "rejected".           *)
BatchFailed(rs) == \E i \in DOMAIN rs : rs[i] = "failed"

NextTaskStatus(t, rs) ==
    IF BatchFailed(rs) \/ envelope[t].ends = "failed"
    THEN "failed" ELSE "completed"

(* Mutant: an exception of an action leaves the dispatch, and the action   *)
(* phase takes it for a format error.                                      *)
RetriesBatch(t, status) ==
    IF status = "failed" /\ turn[t] < FormatLimit
    THEN Turn(t, "action", turn[t] + 1)
    ELSE /\ results' = [results EXCEPT ![t] = Append(@, status)]
         /\ IF Len(results[t]) + 1 = envelope[t].acts
            THEN /\ Goto(t, "report")
                 /\ outcome' = [outcome EXCEPT
                                  ![t] = NextTaskStatus(t, results'[t])]
            ELSE UNCHANGED <<pc, outcome>>
         /\ UNCHANGED <<turn, envelope>>

Record(t, status) ==
    /\ results' = [results EXCEPT ![t] = Append(@, status)]
    /\ \/ /\ Len(results[t]) + 1 < envelope[t].acts
          /\ UNCHANGED <<pc, outcome>>
       \/ /\ Len(results[t]) + 1 = envelope[t].acts
          /\ Goto(t, "report")
          /\ outcome' = [outcome EXCEPT
                           ![t] = NextTaskStatus(t, Append(results[t], status))]
    /\ UNCHANGED <<turn, envelope>>

TakesEffect(t) == sent' = [sent EXCEPT ![t][Len(results[t]) + 1] = @ + 1]

(* The action is applied; it fails; or it is applied and the answer lost.  *)
SendAction(t) ==
    /\ pc[t] = "dispatch"
    /\ \/ Record(t, "applied") /\ TakesEffect(t)
       \/ Record(t, "failed") /\ TakesEffect(t)
       \/ Record(t, "failed") /\ UNCHANGED sent
    /\ UNCHANGED <<run, told, agentVars, basis, deaf>>

(* runClaimedTask: a failure goes to the channel, a failing post to the    *)
(* log; every delivery is archived, a failing request is logged too.       *)
Report(t) ==
    /\ pc[t] = "report"
    /\ Goto(t, "done")
    /\ IF outcome[t] = "failed" /\ ChannelOf[t] # NoChannel
       THEN \E r \in {"told", "unposted"} : told' = [told EXCEPT ![t] = r]
       ELSE UNCHANGED told
    /\ turn' = [turn EXCEPT ![t] = 0]
    /\ run' = [run EXCEPT ![t] = NoRun]
    /\ UNCHANGED <<envelope, results, outcome, agentVars, sent, basis, deaf>>

Step(t) ==
    \/ \E phase \in Phases : Send(t, phase)
    \/ ThinkFails(t) \/ TaskTurn(t) \/ ActionTurn(t)
    \/ SendAction(t) \/ Report(t)

Next ==
    \/ \E t \in Tasks : Start(t) \/ Step(t)
    \/ \E s \in Sessions : Reply(s) \/ RunFails(s)

Spec == Init /\ [][Next]_vars

(* Only the plugin's own steps: an agent need not ever answer, since every *)
(* wait ends after 15 minutes.                                             *)
FairSpec == Spec /\ \A t \in Tasks : WF_vars(Step(t))

-----------------------------------------------------------------------------
(* A task's actions are sent once: neither a lost answer nor a failure in  *)
(* the middle of a batch makes the action phase send the batch again       *)
(* (dispatcher.ts:36-57 inside orchestrator.ts:268-311).                   *)
ActsOnce == \A t \in Tasks : \A i \in 1 .. MaxActions : sent[t][i] <= 1

(* A task in a channel acts on replies to its own prompts only, whatever   *)
(* the tasks before it left behind in the channel's session, unless the    *)
(* agent left one of its own prompts without an answer.  (Tasks without a  *)
(* channel share the formatter session and have no such promise.)          *)
OwnReply == \A t \in Tasks :
    ChannelOf[t] # NoChannel /\ t \notin deaf => basis[t] \subseteq {t}

(* A task that was started ends, and not in silence: everything it         *)
(* intended was applied, or its channel was told that it failed, unless    *)
(* there is no channel or the message could not be posted.                 *)
WorkDone(t) ==
    /\ envelope[t].acts > 0
    /\ Len(results[t]) = envelope[t].acts
    /\ \A i \in DOMAIN results[t] : results[t][i] = "applied"

Concluded(t) ==
    /\ pc[t] = "done"
    /\ WorkDone(t) \/ told[t] # "no" \/ ChannelOf[t] = NoChannel

EndsKnown == \A t \in Tasks : UnderWay(t) ~> Concluded(t)
=============================================================================
