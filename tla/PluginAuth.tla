----------------------------- MODULE PluginAuth -----------------------------
(***************************************************************************)
(* The token a runtime process of the OpenClaw plugin polls with: it is    *)
(* cached in the state file, fetched at startup when there is none, given  *)
(* up when Knotwork answers 401, and fetched again, with a retry timer for *)
(* attempts that fail (auth.ts, startup.ts, timers.ts, worker.ts).  Polls  *)
(* overlap, so a 401 may come when the token was already replaced; two     *)
(* polls, the timer, an operator and the startup may all authenticate at   *)
(* the same time.                                                          *)
(*                                                                         *)
(* Of a token only what Knotwork would answer matters.  Knotwork accepts a *)
(* signed challenge once, and a second challenge leaves the first one as   *)
(* it is: two attempts do not get into each other's way.                   *)
(***************************************************************************)
EXTENDS Naturals

CONSTANTS
    Polls,      \* slots for polls that overlap
    Attempts,   \* slots for attempts to authenticate (runAuth)
    AutoAuth,   \* autoAuthOnStart
    MaxEvents   \* bound on what operators, clocks and crashes do

ASSUME AuthAssumption ==
    /\ AutoAuth \in BOOLEAN
    /\ MaxEvents \in Nat

VARIABLES
    process,  \* the runtime process, up to backgroundWorkerEnabled
    token,    \* state.jwt
    poll,     \* the token a tick of the poll loop sent, while it waits
    call,     \* pollAndRun: knotwork.execute_task without a task
    auth,     \* the attempts under way, and who made them
    timer,    \* timerRef of scheduleAuthRetry is set
    reauth,   \* reAuthInProgress of the poll loop
    parked,   \* it is up to the operator to authenticate
    disk,     \* a snapshot of the state could not be written
    events    \* how much may still happen

vars == <<process, token, poll, call, auth, timer, reauth, parked, disk, events>>

Tokens  == {"none", "valid", "rejected"}
Sources == {"startup", "poll", "call", "retry", "operator"}
NoAuth  == [pc |-> "idle", by |-> "startup"]

TypeOK ==
    /\ process \in {"down", "waiting", "enabling", "on"}
    /\ token \in Tokens
    /\ poll \in [Polls -> {"idle", "valid", "rejected"}]
    /\ call \in {"idle", "valid", "rejected", "resetting", "recovering"}
    /\ auth \in [Attempts -> [pc : {"idle", "ask", "store"}, by : Sources]]
    /\ timer \in BOOLEAN
    /\ reauth \in BOOLEAN
    /\ parked \in BOOLEAN
    /\ disk \in BOOLEAN
    /\ events \in 0 .. MaxEvents

Down ==
    /\ process' = "down"
    /\ token' = "none"
    /\ poll' = [i \in Polls |-> "idle"]
    /\ call' = "idle"
    /\ auth' = [a \in Attempts |-> NoAuth]
    /\ timer' = FALSE
    /\ reauth' = FALSE
    /\ parked' = FALSE
    /\ disk' = FALSE

Init ==
    /\ process = "down"
    /\ token = "none"
    /\ poll = [i \in Polls |-> "idle"]
    /\ call = "idle"
    /\ auth = [a \in Attempts |-> NoAuth]
    /\ timer = FALSE
    /\ reauth = FALSE
    /\ parked = FALSE
    /\ disk = FALSE
    /\ events = MaxEvents

Event == events > 0 /\ events' = events - 1
Working == process \in {"enabling", "on"}

(* An attempt begins: challenge, signature and exchange for a token.       *)
Begin(by) == \E a \in Attempts :
    /\ auth[a].pc = "idle"
    /\ auth' = [auth EXCEPT ![a] = [pc |-> "ask", by |-> by]]

-----------------------------------------------------------------------------
(* The state file has the last token, or one a snapshot of another process *)
(* or an earlier moment left in it, or cannot be read.                     *)
Hydrate ==
    /\ process = "down"
    /\ process' = "waiting"
    /\ token' \in Tokens
    /\ UNCHANGED <<poll, call, auth, timer, reauth, parked, disk, events>>

(* The runtime lease is acquired, the worker enabled ...                   *)
AcquireLease ==
    /\ process = "waiting"
    /\ process' = "enabling"
    /\ UNCHANGED <<token, poll, call, auth, timer, reauth, parked, disk, events>>

(* ... and, once that is in the state file, a missing token fetched.       *)
Enable ==
    /\ process = "enabling"
    /\ process' = "on"
    /\ \/ /\ token = "none" /\ AutoAuth
          /\ Begin("startup")
          /\ UNCHANGED <<parked, disk>>
       \/ /\ token = "none" => ~AutoAuth
          /\ parked' = (parked \/ token = "none")
          /\ UNCHANGED <<auth, disk>>
       \/ /\ disk' = TRUE
          /\ UNCHANGED <<auth, parked>>
    /\ UNCHANGED <<token, poll, call, timer, reauth, events>>

-----------------------------------------------------------------------------
StartPoll(i) ==
    /\ Working
    /\ token # "none"
    /\ poll[i] = "idle"
    /\ poll' = [poll EXCEPT ![i] = token]
    /\ UNCHANGED <<process, token, call, auth, timer, reauth, parked, disk,
                   events>>

(* An inbox, or an error that says nothing about the token.                *)
PollAnswered(i) ==
    /\ poll[i] # "idle"
    /\ poll' = [poll EXCEPT ![i] = "idle"]
    /\ UNCHANGED <<process, token, call, auth, timer, reauth, parked, disk,
                   events>>

(* 401: whatever the token is by now, it is given up, unless a poll is     *)
(* already getting another one.                                            *)
PollRejected(i) ==
    /\ poll[i] = "rejected"
    /\ poll' = [poll EXCEPT ![i] = "idle"]
    /\ \/ /\ reauth
          /\ UNCHANGED <<token, auth, reauth>>
       \/ /\ ~reauth
          /\ token' = "none"
          /\ reauth' = TRUE
          /\ Begin("poll")
    /\ UNCHANGED <<process, call, timer, parked, disk, events>>

(* pollAndRun; it resets the token, and recovers when that is in the file. *)
CallPoll ==
    /\ process # "down"
    /\ token # "none"
    /\ call = "idle"
    /\ call' = token
    /\ UNCHANGED <<process, token, poll, auth, timer, reauth, parked, disk,
                   events>>

CallAnswered ==
    /\ call \in {"valid", "rejected"}
    /\ call' = "idle"
    /\ UNCHANGED <<process, token, poll, auth, timer, reauth, parked, disk,
                   events>>

CallRejected ==
    /\ call = "rejected"
    /\ call' = "resetting"
    /\ token' = "none"
    /\ UNCHANGED <<process, poll, auth, timer, reauth, parked, disk, events>>

CallRecovers ==
    /\ call = "resetting"
    /\ \/ /\ call' = "recovering"
          /\ Begin("call")
          /\ UNCHANGED disk
       \/ /\ call' = "idle"
          /\ disk' = TRUE
          /\ UNCHANGED auth
    /\ UNCHANGED <<process, token, poll, timer, reauth, parked, events>>

-----------------------------------------------------------------------------
(* runAuth.                                                                *)

(* Knotwork hands out a token, which is used at once ...                   *)
TokenIssued(a) ==
    /\ auth[a].pc = "ask"
    /\ auth' = [auth EXCEPT ![a].pc = "store"]
    /\ token' = "valid"
    /\ parked' = FALSE
    /\ UNCHANGED <<process, poll, call, timer, reauth, disk, events>>

(* Whoever made the attempt goes on.                                       *)
Ended(by) ==
    /\ reauth' = (reauth /\ by # "poll")
    /\ call' = IF by = "call" THEN "idle" ELSE call

(* Mutant: a timer is set after every attempt.                             *)
AlwaysRetry(a) ==
    /\ auth[a].pc = "store"
    /\ auth' = [auth EXCEPT ![a] = NoAuth]
    /\ Ended(auth[a].by)
    /\ timer' = TRUE
    /\ UNCHANGED <<process, token, poll, parked, disk, events>>

(* ... and written into the state file.                                    *)
TokenStored(a) ==
    /\ auth[a].pc = "store"
    /\ auth' = [auth EXCEPT ![a] = NoAuth]
    /\ Ended(auth[a].by)
    /\ UNCHANGED <<process, token, poll, timer, parked, disk, events>>

(* Mutant: only the poll loop tries again.                                 *)
PollRetries(by) == timer' = (timer \/ by = "poll")

(* scheduleAuthRetry, but not for an operator.                             *)
Retries(by) == timer' = (timer \/ by # "operator")

(* No answer, a refusal, or a state file that cannot be written.           *)
AuthFails(a) ==
    /\ \/ auth[a].pc = "ask" /\ UNCHANGED disk
       \/ auth[a].pc = "store" /\ disk' = TRUE
    /\ auth' = [auth EXCEPT ![a] = NoAuth]
    /\ Ended(auth[a].by)
    /\ Retries(auth[a].by)
    /\ UNCHANGED <<process, token, poll, parked, events>>

RetryFires ==
    /\ timer
    /\ timer' = FALSE
    /\ Begin("retry")
    /\ UNCHANGED <<process, token, poll, call, reauth, parked, disk, events>>

-----------------------------------------------------------------------------
(* knotwork.auth and knotwork.reset_connection.                            *)
OperatorAuth ==
    /\ process # "down"
    /\ Event
    /\ Begin("operator")
    /\ UNCHANGED <<process, token, poll, call, timer, reauth, parked, disk>>

OperatorReset ==
    /\ process # "down"
    /\ Event
    /\ token' = "none"
    /\ parked' = TRUE
    /\ UNCHANGED <<process, poll, call, auth, timer, reauth, disk>>

(* Knotwork does not accept the tokens any more it issued so far.          *)
Revoked(t) == IF t = "valid" THEN "rejected" ELSE t

Expire ==
    /\ Event
    /\ token' = Revoked(token)
    /\ poll' = [i \in Polls |-> Revoked(poll[i])]
    /\ call' = Revoked(call)
    /\ UNCHANGED <<process, auth, timer, reauth, parked, disk>>

Crash ==
    /\ process # "down"
    /\ Event
    /\ Down

Next ==
    \/ Hydrate \/ AcquireLease \/ Enable
    \/ \E i \in Polls : StartPoll(i) \/ PollAnswered(i) \/ PollRejected(i)
    \/ CallPoll \/ CallAnswered \/ CallRejected \/ CallRecovers
    \/ \E a \in Attempts : TokenIssued(a) \/ TokenStored(a) \/ AuthFails(a)
    \/ RetryFires
    \/ OperatorAuth \/ OperatorReset \/ Expire \/ Crash

Spec == Init /\ [][Next]_vars

(* Ticks and timers fire, and what waits for an answer gets one; Knotwork, *)
(* where the account stays active, does not fail every attempt, and does   *)
(* not answer every poll with an error that hides the 401.                 *)
Fairness ==
    /\ WF_vars(Enable)
    /\ WF_vars(CallRecovers)
    /\ \A i \in Polls : WF_vars(StartPoll(i)) /\ SF_vars(PollRejected(i))
    /\ \A a \in Attempts : SF_vars(TokenIssued(a)) /\ WF_vars(TokenStored(a))
    /\ SF_vars(RetryFires)

FairSpec == Spec /\ Fairness

-----------------------------------------------------------------------------
(* A worker without a token is about to get one, and will try again should *)
(* that fail, whoever took the token away: the poll loop itself does       *)
(* nothing without a token (timers.ts:91).  And its flag that somebody is  *)
(* at it is never left behind, for then no 401 would be heard any more     *)
(* (timers.ts:133).  The operator may have parked the plugin, and a state  *)
(* file that cannot be written does strand it.                             *)
Coming ==
    \/ process = "enabling" \/ timer \/ call = "resetting"
    \/ \E a \in Attempts : auth[a].pc = "ask" /\ auth[a].by # "operator"

NeverStranded ==
    /\ Working /\ token = "none" /\ ~parked /\ ~disk => Coming
    /\ reauth => \E a \in Attempts : auth[a].pc # "idle" /\ auth[a].by = "poll"

(* Late 401s, attempts that fail after another one succeeded and timers    *)
(* that were set in between do not keep the plugin busy: once tokens stay  *)
(* valid, the worker has one, for good, and nobody asks for another.       *)
Calms ==
    <>[](Working /\ ~parked /\ ~disk =>
           /\ token = "valid"
           /\ ~timer
           /\ \A a \in Attempts : auth[a].pc = "idle")
=============================================================================
