---------------------------- MODULE PluginBridge ----------------------------
(***************************************************************************)
(* The background worker of the OpenClaw plugin: runtime processes of one  *)
(* machine poll the inbox of an agent, bundle its deliveries by channel    *)
(* (or run, proposal, ...), claim a bundle with a file, and hand it to the *)
(* gateway in a child process that runs an agent session and archives the  *)
(* deliveries of the bundle.  Which process polls is decided by the lease  *)
(* of RuntimeLease; a runtime process is also the gateway its children     *)
(* call, so its sessions end with it.                                      *)
(*                                                                         *)
(* Every await of the code is a point where another poll, a child or       *)
(* another process goes on, and is the end of a step here.                 *)
(***************************************************************************)
EXTENDS RuntimeLease, Sequences

CONSTANTS
    Keys,            \* claim keys (claimKeyForInboxEvent)
    NoKey,           \* "no claim key"
    Deliveries,      \* inbox deliveries
    KeyOf,           \* delivery -> claim key
    Rank,            \* delivery -> place in the order of compareInboxEvents
    MentionOf,       \* delivery -> the mention it is a sibling of, or itself
    MaxConcurrent,   \* maxConcurrentTasks
    MaxAttempts,     \* maxGatewayAttempts
    MaxRecent,       \* MAX_RECENT_TASKS
    Polls,           \* slots for polls of one process that overlap
    Jobs             \* slots for spawned tasks, 1 .. n

ASSUME BridgeAssumption ==
    /\ NoKey \notin Keys
    /\ IsFiniteSet(Keys)
    /\ IsFiniteSet(Polls)
    /\ KeyOf \in [Deliveries -> Keys]
    /\ Rank \in [Deliveries -> Nat]
    /\ \A d, e \in Deliveries : Rank[d] = Rank[e] => d = e
    /\ MentionOf \in [Deliveries -> Deliveries]
    /\ {MaxConcurrent, MaxAttempts, MaxRecent} \subseteq Nat \ {0}
    /\ Jobs \subseteq Nat

VARIABLES
    inbox,    \* state of each delivery in the backend
    claim,    \* the claim file of each key
    poll,     \* the polls under way, by process and slot
    active,   \* activeSpawns: the claim keys in the pool of a process
    job,      \* the spawned tasks: spawnExecuteTask and its children
    orphans,  \* sessions that go on although their call ended
    recent,   \* recentTasks of a process within the last five minutes
    evicted,  \* keys the watchdog ever dropped from a pool
    starts    \* sessions started for a task, by its id (the primary event)

poolVars == <<inbox, claim, poll, active, job, orphans, recent, evicted,
              starts>>
vars == <<leaseVars, poolVars>>

processVars == <<up, used, asleep, owner, acq, lock>>  \* all but the faults

NoClaim == [st |-> "none", pid |-> NoPid, prev |-> FALSE]
NoPoll  == [pc |-> "idle", seen |-> {}, todo |-> {}, key |-> NoKey, began |-> {}]
NoJob   == [st |-> "free", pid |-> NoPid, key |-> NoKey, items |-> {}, tries |-> 0]

PollPCs == {"idle", "loop", "open", "inspect", "remove", "write"}
JobSts  == {"free", "calling", "waiting", "session", "hung", "answered",
            "releasing"}

PoolTypeOK ==
    /\ inbox \in [Deliveries -> {"absent", "unread", "archived"}]
    /\ claim \in [Keys -> [st : {"none", "empty", "held", "aged"},
                           pid : Pids \cup {NoPid}, prev : BOOLEAN]]
    /\ poll \in [Pids \X Polls ->
                   [pc : PollPCs, seen : SUBSET Deliveries, todo : SUBSET Keys,
                    key : Keys \cup {NoKey}, began : SUBSET Keys]]
    /\ active \in [Pids -> SUBSET Keys]
    /\ job \in [Jobs -> [st : JobSts, pid : Pids \cup {NoPid},
                         key : Keys \cup {NoKey}, items : SUBSET Deliveries,
                         tries : 0 .. MaxAttempts]]
    /\ orphans \subseteq [pid : Pids, items : SUBSET Deliveries]
    /\ recent \in [Pids -> Seq(Deliveries)]
    /\ evicted \subseteq Keys
    /\ starts \in [Deliveries -> Nat]

TypeOK == LeaseTypeOK /\ PoolTypeOK

PoolInit ==
    /\ inbox = [d \in Deliveries |-> "absent"]
    /\ claim = [k \in Keys |-> NoClaim]
    /\ poll = [s \in Pids \X Polls |-> NoPoll]
    /\ active = [p \in Pids |-> {}]
    /\ job = [j \in Jobs |-> NoJob]
    /\ orphans = {}
    /\ recent = [p \in Pids |-> <<>>]
    /\ evicted = {}
    /\ starts = [d \in Deliveries |-> 0]

Init == LeaseInit /\ PoolInit

-----------------------------------------------------------------------------
(* What a poll makes of the deliveries it was sent: messages whose mention *)
(* is among them are dropped (collapseSiblingEvents), the rest is bundled  *)
(* by claim key, and the best event of a bundle names its task.            *)
Collapsed(S) == {d \in S : MentionOf[d] = d \/ MentionOf[d] \notin S}
Bundle(S, k) == {d \in S : KeyOf[d] = k}
Best(S)      == CHOOSE d \in S : \A e \in S : Rank[d] <= Rank[e]
TaskId(items) == Best(items)
NextKey(S, K) == KeyOf[Best({d \in S : KeyOf[d] \in K})]

InPool(p) == Cardinality(active[p])
PollGoto(s, l) == poll' = [poll EXCEPT ![s].pc = l]
RecentlyHandled(p, d) == \E i \in 1 .. Len(recent[p]) : recent[p][i] = d

Arrive(d) ==
    /\ inbox[d] = "absent"
    /\ inbox' = [inbox EXCEPT ![d] = "unread"]
    /\ UNCHANGED <<leaseVars, claim, poll, active, job, orphans, recent,
                   evicted, starts>>

(* A timer tick of the poll loop, up to the answer of the inbox request.   *)
StartPoll(p, i) ==
    /\ Awake(p)
    /\ owner[p]
    /\ poll[<<p, i>>].pc = "idle"
    /\ InPool(p) < MaxConcurrent
    /\ LET S == Collapsed({d \in Deliveries : inbox[d] = "unread"})
       IN /\ S # {}
          /\ poll' = [poll EXCEPT ![<<p, i>>] =
                        [pc |-> "loop", seen |-> S, todo |-> {KeyOf[d] : d \in S},
                         key |-> NoKey, began |-> active[p]]]
    /\ UNCHANGED <<leaseVars, inbox, claim, active, job, orphans, recent,
                   evicted, starts>>

(* Mutant: the pool is not looked at again between two tasks of a poll.    *)
NeverFull(p) == FALSE
PoolFull(p) == InPool(p) >= MaxConcurrent

(* Mutant: what was handled a moment ago is not remembered.                *)
NotRemembered(p, k, items) == k \in active[p]
Skipped(p, k, items) == k \in active[p] \/ RecentlyHandled(p, TaskId(items))

(* The next task of the loop: not when the pool is full, its key is in the *)
(* pool, or a task of its id ended within the last five minutes.           *)
NextTask(p, i) ==
    /\ Awake(p)
    /\ poll[<<p, i>>].pc = "loop"
    /\ LET r == poll[<<p, i>>] IN
       \/ /\ PoolFull(p) \/ r.todo = {}
          /\ poll' = [poll EXCEPT ![<<p, i>>] = NoPoll]
       \/ /\ ~PoolFull(p)
          /\ r.todo # {}
          /\ LET k == NextKey(r.seen, r.todo) IN
             poll' = [poll EXCEPT ![<<p, i>>].todo = @ \ {k},
                        ![<<p, i>>].key = k,
                        ![<<p, i>>].pc = IF Skipped(p, k, Bundle(r.seen, k))
                                         THEN "loop" ELSE "open"]
    /\ UNCHANGED <<leaseVars, inbox, claim, active, job, orphans, recent,
                   evicted, starts>>

-----------------------------------------------------------------------------
(* claimTask: create the file, or look at who has it.                      *)
OpenClaim(p, i) ==
    /\ Awake(p)
    /\ poll[<<p, i>>].pc = "open"
    /\ LET k == poll[<<p, i>>].key IN
       \/ /\ claim[k].st = "none"
          /\ claim' = [claim EXCEPT ![k] =
                         [st |-> "empty", pid |-> p, prev |-> FALSE]]
          /\ PollGoto(<<p, i>>, "write")
       \/ /\ claim[k].st # "none"
          /\ PollGoto(<<p, i>>, "inspect")
          /\ UNCHANGED claim
    /\ UNCHANGED <<leaseVars, inbox, active, job, orphans, recent, evicted,
                   starts>>

(* Mutant: the claim of a live process counts as abandoned.                *)
AnyClaim(p, c) == c.st \in {"held", "aged"}

(* Mutant: claims of a dead process are never taken over.                  *)
OwnPreviousOnly(p, c) == c.st = "held" /\ c.pid = p /\ c.prev

(* A claim is abandoned when its process is dead, when this process made   *)
(* it before the lease was acquired, or when it has no content and is old. *)
Abandoned(p, c) ==
    \/ c.st = "aged"
    \/ /\ c.st = "held"
       /\ \/ c.pid = p /\ c.prev /\ lock.st = "held"
          \/ c.pid \notin up

InspectClaim(p, i) ==
    /\ Awake(p)
    /\ poll[<<p, i>>].pc = "inspect"
    /\ PollGoto(<<p, i>>, IF Abandoned(p, claim[poll[<<p, i>>].key])
                          THEN "remove" ELSE "loop")
    /\ UNCHANGED <<leaseVars, inbox, claim, active, job, orphans, recent,
                   evicted, starts>>

RemoveClaim(p, i) ==
    /\ Awake(p)
    /\ poll[<<p, i>>].pc = "remove"
    /\ claim' = [claim EXCEPT ![poll[<<p, i>>].key] = NoClaim]
    /\ PollGoto(<<p, i>>, "open")
    /\ UNCHANGED <<leaseVars, inbox, active, job, orphans, recent, evicted,
                   starts>>

FreeJobs == {j \in Jobs : job[j].st = "free"}

(* The claim is written and, with no await in between, spawnExecuteTask    *)
(* enters the key into the pool and starts a child, unless another poll    *)
(* was faster.                                                             *)
WriteClaim(p, i) ==
    /\ Awake(p)
    /\ poll[<<p, i>>].pc = "write"
    /\ LET r == poll[<<p, i>>]
           k == r.key
       IN /\ claim' = IF claim[k].st = "empty" /\ claim[k].pid = p
                      THEN [claim EXCEPT ![k].st = "held"] ELSE claim
          /\ \/ /\ k \in active[p]
                /\ UNCHANGED <<active, job>>
             \/ /\ k \notin active[p]
                /\ FreeJobs # {}
                /\ active' = [active EXCEPT ![p] = @ \cup {k}]
                /\ job' = [job EXCEPT
                     ![CHOOSE j \in FreeJobs : \A l \in FreeJobs : j <= l] =
                       [st |-> "calling", pid |-> p, key |-> k,
                        items |-> Bundle(r.seen, k), tries |-> 0]]
    /\ PollGoto(<<p, i>>, "loop")
    /\ UNCHANGED <<leaseVars, inbox, orphans, recent, evicted, starts>>

(* A claim file whose writer is gone before it wrote becomes ten minutes   *)
(* old.                                                                    *)
ClaimAges(k) ==
    /\ claim[k].st = "empty"
    /\ \A i \in Polls : ~(/\ Awake(claim[k].pid)
                          /\ poll[<<claim[k].pid, i>>].pc = "write"
                          /\ poll[<<claim[k].pid, i>>].key = k)
    /\ claim' = [claim EXCEPT ![k].st = "aged"]
    /\ UNCHANGED <<leaseVars, inbox, poll, active, job, orphans, recent,
                   evicted, starts>>

-----------------------------------------------------------------------------
(* The child of job j and the session it asks the gateway for.             *)
Running(j) == Awake(job[j].pid)
JobGoto(j, l) == job' = [job EXCEPT ![j].st = l]

(* The gateway takes the call: handleExecuteTask runs the task.            *)
StartSession(j) ==
    /\ job[j].st = "calling"
    /\ Running(j)
    /\ JobGoto(j, "session")
    /\ starts' = [starts EXCEPT ![TaskId(job[j].items)] = @ + 1]
    /\ UNCHANGED <<leaseVars, inbox, claim, poll, active, orphans, recent,
                   evicted>>

(* A call takes longer than an attempt to claim its key that had passed    *)
(* the look at the pool before the task was spawned: a session takes       *)
(* seconds, a timeout minutes, and repeated calls are seconds apart.       *)
Claiming(p, k) == \E i \in Polls :
    poll[<<p, i>>].key = k /\ poll[<<p, i>>].pc \notin {"idle", "loop"}
Outlasted(j) == ~Claiming(job[j].pid, job[j].key)

Leaves(j) == active' = [active EXCEPT ![job[j].pid] = @ \ {job[j].key}]

Saturated(p) == InPool(p) >= MaxConcurrent

(* Mutant: the attempts are counted but never run out.                     *)
KeepsCalling(j) ==
    /\ job' = [job EXCEPT ![j].st = "waiting",
                 ![j].tries = IF Saturated(job[j].pid) THEN @ ELSE @ + 1]
    /\ UNCHANGED active

(* The close handler for a child that could not connect: a full pool means *)
(* a busy gateway, and the call is repeated without limit; otherwise the   *)
(* attempt counts, and the last one gives the claim back.                  *)
ConnectionError(j) ==
    \/ /\ Saturated(job[j].pid)
       /\ JobGoto(j, "waiting")
       /\ UNCHANGED active
    \/ /\ ~Saturated(job[j].pid)
       /\ job[j].tries + 1 < MaxAttempts
       /\ job' = [job EXCEPT ![j].st = "waiting", ![j].tries = @ + 1]
       /\ UNCHANGED active
    \/ /\ ~Saturated(job[j].pid)
       /\ job[j].tries + 1 >= MaxAttempts
       /\ Outlasted(j)
       /\ JobGoto(j, "releasing")
       /\ Leaves(j)

(* The gateway is down or busy, as often as it likes.                      *)
RefuseCall(j) ==
    /\ job[j].st = "calling"
    /\ Running(j)
    /\ ConnectionError(j)
    /\ UNCHANGED <<leaseVars, inbox, claim, poll, orphans, recent, evicted,
                   starts>>

(* The gateway closes the connection of a call whose session goes on; the  *)
(* close handler takes that for a gateway that cannot be reached.          *)
DropCall(j) ==
    /\ job[j].st = "session"
    /\ Running(j)
    /\ Fault("lost")
    /\ ConnectionError(j)
    /\ orphans' = orphans \cup {[pid |-> job[j].pid, items |-> job[j].items]}
    /\ UNCHANGED <<processVars, inbox, claim, poll, recent, evicted, starts>>

(* The child gives up after GATEWAY_CALL_TIMEOUT_MS, or fails otherwise.   *)
TimeOutCall(j) ==
    /\ job[j].st = "session"
    /\ Running(j)
    /\ Outlasted(j)
    /\ Fault("lost")
    /\ JobGoto(j, "releasing")
    /\ Leaves(j)
    /\ orphans' = orphans \cup {[pid |-> job[j].pid, items |-> job[j].items]}
    /\ UNCHANGED <<processVars, inbox, claim, poll, recent, evicted, starts>>

RetryCall(j) ==
    /\ job[j].st = "waiting"
    /\ Running(j)
    /\ JobGoto(j, "calling")
    /\ UNCHANGED <<leaseVars, inbox, claim, poll, active, orphans, recent,
                   evicted, starts>>

(* runClaimedTask archives every delivery of its bundle, after a failed    *)
(* session as well; a failing archive request is logged.                   *)
Archive(items) ==
    \/ /\ inbox' = [d \in Deliveries |->
                      IF d \in items THEN "archived" ELSE inbox[d]]
       /\ UNCHANGED <<faults, budget>>
    \/ /\ Fault("unarchived")
       /\ \E d \in items : inbox' = [e \in Deliveries |->
                      IF e \in items \ {d} THEN "archived" ELSE inbox[e]]

EndSession(j) ==
    /\ job[j].st = "session"
    /\ Running(j)
    /\ Outlasted(j)
    /\ Archive(job[j].items)
    /\ JobGoto(j, "answered")
    /\ UNCHANGED <<processVars, claim, poll, active, orphans, recent, evicted,
                   starts>>

EndOrphan(o) ==
    /\ Awake(o.pid)
    /\ orphans' = orphans \ {o}
    /\ Archive(o.items)
    /\ UNCHANGED <<processVars, claim, poll, active, job, recent, evicted,
                   starts>>

HangSession(j) ==
    /\ job[j].st = "session"
    /\ Fault("hung")
    /\ JobGoto(j, "hung")
    /\ UNCHANGED <<processVars, inbox, claim, poll, active, orphans, recent,
                   evicted, starts>>

(* upsertRecentTask: the task comes first, without its earlier entry, and  *)
(* the newest entries are kept.                                            *)
Remembered(p, d) ==
    LET s  == recent[p]
        at == IF RecentlyHandled(p, d) THEN CHOOSE i \in 1 .. Len(s) : s[i] = d
              ELSE Len(s) + 1
        t  == <<d>> \o SubSeq(s, 1, at - 1) \o SubSeq(s, at + 1, Len(s))
    IN IF Len(t) > MaxRecent THEN SubSeq(t, 1, MaxRecent) ELSE t

(* The child closes after the answer: the key leaves the pool, the task is *)
(* remembered, and the claim is released in the background.                *)
CloseChild(j) ==
    /\ job[j].st = "answered"
    /\ Running(j)
    /\ Leaves(j)
    /\ recent' = [recent EXCEPT ![job[j].pid] =
                    Remembered(job[j].pid, TaskId(job[j].items))]
    /\ JobGoto(j, "releasing")
    /\ UNCHANGED <<leaseVars, inbox, claim, poll, orphans, evicted, starts>>

(* releaseTaskClaim: not the claim of another process.                     *)
ReleaseClaim(j) ==
    /\ job[j].st = "releasing"
    /\ Running(j)
    /\ LET k == job[j].key IN
       claim' = IF claim[k].st = "held" /\ claim[k].pid # job[j].pid
                THEN claim ELSE [claim EXCEPT ![k] = NoClaim]
    /\ job' = [job EXCEPT ![j] = NoJob]
    /\ UNCHANGED <<leaseVars, inbox, poll, active, orphans, recent, evicted,
                   starts>>

(* Mutant: the watchdog gives the claim back as well.                      *)
EvictsWithClaim(p, k) ==
    /\ Awake(p)
    /\ k \in active[p]
    /\ \A i \in Polls : poll[<<p, i>>].pc = "idle" \/ k \in poll[<<p, i>>].began
    /\ \E j \in Jobs : job[j].pid = p /\ job[j].key = k /\ job[j].st = "hung"
    /\ active' = [active EXCEPT ![p] = @ \ {k}]
    /\ evicted' = evicted \cup {k}
    /\ claim' = [claim EXCEPT ![k] = NoClaim]
    /\ UNCHANGED <<leaseVars, inbox, poll, job, orphans, recent, starts>>

(* The watchdog drops a key from the pool when its job is older than two   *)
(* hours, longer than any poll takes; the claim stays.  A session hangs,   *)
(* or the gateway was busy or down for that long.                          *)
WatchdogEvicts(p, k) ==
    /\ Awake(p)
    /\ k \in active[p]
    /\ \A i \in Polls : poll[<<p, i>>].pc = "idle" \/ k \in poll[<<p, i>>].began
    /\ \E j \in Jobs :
          /\ job[j].pid = p
          /\ job[j].key = k
          /\ \/ job[j].st = "hung" /\ UNCHANGED <<faults, budget>>
             \/ job[j].st = "waiting" /\ Fault("stalled")
    /\ active' = [active EXCEPT ![p] = @ \ {k}]
    /\ evicted' = evicted \cup {k}
    /\ UNCHANGED <<processVars, inbox, claim, poll, job, orphans, recent,
                   starts>>

(* Five minutes, longer than any poll takes.                               *)
ForgetTask(p) ==
    /\ Awake(p)
    /\ recent[p] # <<>>
    /\ \A i \in Polls : recent[p][Len(recent[p])] \notin poll[<<p, i>>].seen
    /\ recent' = [recent EXCEPT ![p] = SubSeq(@, 1, Len(@) - 1)]
    /\ UNCHANGED <<leaseVars, inbox, claim, poll, active, job, orphans, evicted,
                   starts>>

-----------------------------------------------------------------------------
(* The end of a process takes its polls, children and sessions with it;    *)
(* claims stay behind, and the recent tasks as far as a snapshot was made. *)
ProcessEnds(p) ==
    /\ CrashProcess(p) \/ ShutdownProcess(p)
    /\ poll' = [s \in Pids \X Polls |-> IF s[1] = p THEN NoPoll ELSE poll[s]]
    /\ active' = [active EXCEPT ![p] = {}]
    /\ job' = [j \in Jobs |-> IF job[j].pid = p THEN NoJob ELSE job[j]]
    /\ orphans' = {o \in orphans : o.pid # p}
    /\ \/ UNCHANGED recent
       \/ recent' = [recent EXCEPT ![p] = <<>>]
    /\ UNCHANGED <<inbox, claim, evicted, starts>>

(* Whoever acquires the lease makes every earlier claim one of a previous  *)
(* runtime.                                                                *)
LeaseAcquired(p) ==
    /\ WriteLock(p)
    /\ claim' = IF lock'.pid = p /\ lock'.st = "held"
                THEN [k \in Keys |-> IF claim[k].st = "held"
                                     THEN [claim[k] EXCEPT !.prev = TRUE]
                                     ELSE claim[k]]
                ELSE claim
    /\ UNCHANGED <<inbox, poll, active, job, orphans, recent, evicted, starts>>

LeaseStep ==
    /\ \/ LockAges
       \/ \E p \in Pids : \/ StartProcess(p) \/ Acquiring(p) \/ RenewLease(p)
                          \/ Suspend(p) \/ WakeUp(p)
    /\ UNCHANGED poolVars

Polling(p, i) ==
    \/ StartPoll(p, i) \/ NextTask(p, i)
    \/ OpenClaim(p, i) \/ InspectClaim(p, i) \/ RemoveClaim(p, i)
    \/ WriteClaim(p, i)

Serving(j) ==
    \/ StartSession(j) \/ RetryCall(j) \/ EndSession(j)
    \/ CloseChild(j) \/ ReleaseClaim(j)

Failing(j) == RefuseCall(j) \/ DropCall(j) \/ TimeOutCall(j) \/ HangSession(j)

Next ==
    \/ LeaseStep
    \/ \E p \in Pids : LeaseAcquired(p) \/ ProcessEnds(p) \/ ForgetTask(p)
    \/ \E p \in Pids, i \in Polls : Polling(p, i)
    \/ \E p \in Pids, k \in Keys : WatchdogEvicts(p, k)
    \/ \E j \in Jobs : Serving(j) \/ Failing(j)
    \/ \E o \in orphans : EndOrphan(o)
    \/ \E k \in Keys : ClaimAges(k)
    \/ \E d \in Deliveries : Arrive(d)

Spec == Init /\ [][Next]_vars

(* Timers keep firing, file operations end, sessions end or hang, and      *)
(* somebody restarts the gateway; failures and new deliveries are not      *)
(* promised.  Strong fairness is for what a periodic timer does whenever   *)
(* the moment suits: asking for the lease, forgetting a recent task; for   *)
(* the gateway, which does not refuse every call for ever; and for the end *)
(* of a session, which does not wait for polls.                            *)
Fairness ==
    /\ WF_vars(up = {} /\ \E p \in Pids : StartProcess(p) /\ UNCHANGED poolVars)
    /\ WF_vars(\/ LockAges /\ UNCHANGED poolVars
               \/ \E p \in Pids :
                     \/ LeaseAcquired(p)
                     \/ /\ WakeUp(p) \/ RemoveLock(p) \/ RetryAcquire(p)
                        /\ UNCHANGED poolVars)
    /\ SF_vars(\E p \in Pids : AskForLease(p) /\ UNCHANGED poolVars)
    /\ \A p \in Pids :
          /\ SF_vars(ForgetTask(p))
          /\ WF_vars(\E i \in Polls : Polling(p, i))
    /\ WF_vars(\/ \E p \in Pids, k \in Keys : WatchdogEvicts(p, k)
               \/ \E o \in orphans : EndOrphan(o)
               \/ \E k \in Keys : ClaimAges(k))
    /\ \A j \in Jobs : /\ WF_vars(Serving(j))
                       /\ SF_vars(StartSession(j) \/ EndSession(j))

FairSpec == Spec /\ Fairness

-----------------------------------------------------------------------------
(* Safety.                                                                 *)

InSession(j) == job[j].st \in {"session", "hung"}
Spawned(j)   == job[j].st \notin {"free", "releasing"}

(* One conversation, one session: as long as no process is suspended, no   *)
(* two calls have a session for the same claim key, whatever crashes,      *)
(* restarts, abandoned claims, evictions and overlapping polls do.         *)
OneSessionPerKey ==
    "slept" \notin faults =>
       \A i, j \in Jobs :
          InSession(i) /\ InSession(j) /\ job[i].key = job[j].key => i = j

(* The claim outlives the pool entry: a task that was spawned holds the    *)
(* claim file of its key until its child ends, also after the watchdog     *)
(* evicted it and across the takeover of the lease by another process.     *)
ClaimHeld ==
    "slept" \notin faults =>
       \A j \in Jobs : Spawned(j) =>
          \/ /\ claim[job[j].key].st = "held"
             /\ claim[job[j].key].pid = job[j].pid
          \/ Claiming(job[j].pid, job[j].key)

(* The pool exceeds maxConcurrent only by the polls that overlap: each has *)
(* looked at the pool before it waits for a claim (timers.ts:111).         *)
PoolBound == \A p \in Pids :
    InPool(p) <= MaxConcurrent + Cardinality(Polls) - 1

(* A task is started once: a poll that works on an outdated inbox does not *)
(* start a task again whose deliveries were archived in the meantime, as   *)
(* long as calls are not lost, archiving works and no process ends.        *)
Undisturbed(d) ==
    /\ faults \cap {"lost", "unarchived", "ended", "slept"} = {}
    /\ KeyOf[d] \notin evicted

TaskStartedOnce == \A d \in Deliveries : Undisturbed(d) => starts[d] <= 1

-----------------------------------------------------------------------------
(* Liveness.                                                               *)

(* What blocks a channel for good: its session hangs, or the claim a dead  *)
(* runtime left behind names a process id that a process without the lease *)
(* got when the container restarted, which passes for its live holder.     *)
Blocked(k) ==
    \/ \E j \in Jobs : job[j].st = "hung" /\ job[j].key = k
    \/ /\ claim[k].st = "held"
       /\ claim[k].pid \in up
       /\ ~owner[claim[k].pid]
       /\ \E p \in Pids : owner[p]

(* No delivery is lost, and none waits for ever behind another one: it is  *)
(* archived in the end, unless its own claim key is blocked for good. Half *)
(* written files, dead owners, a suspended poller, refused and lost calls, *)
(* and a pool that is full of hung sessions only delay it.                 *)
Handled == \A d \in Deliveries :
    inbox[d] = "unread" ~> (inbox[d] = "archived" \/ Blocked(KeyOf[d]))
=============================================================================
