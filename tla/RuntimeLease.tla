---------------------------- MODULE RuntimeLease ----------------------------
(***************************************************************************)
(* The runtime lease of the OpenClaw plugin (state/lease.ts), a file that  *)
(* decides which of the runtime processes on a machine polls the inbox,    *)
(* with the way startup.ts asks for it: once after activation and every    *)
(* ten seconds while another process has it.                               *)
(*                                                                         *)
(* Times are abstracted to the two facts the code derives from them: the   *)
(* lease is stale when nobody renewed it for LEASE_TTL_MS, and a lock file *)
(* without content is abandoned when it is older than LOCK_WRITE_GRACE_MS. *)
(* Both need an owner, or a writer, that is gone or suspended: renewals    *)
(* come every third of the period, a write takes milliseconds.             *)
(***************************************************************************)
EXTENDS Integers, FiniteSets

CONSTANTS
    Pids,            \* the process ids runtime processes may get
    NoPid,           \* "no process"
    MaxFaults,       \* bound on everything that goes wrong, taken together
    Staggered        \* TRUE when two processes never ask at the same moment

ASSUME LeaseAssumption ==
    /\ NoPid \notin Pids
    /\ MaxFaults \in Nat
    /\ Staggered \in BOOLEAN

VARIABLES
    up,      \* the processes that run
    used,    \* the process ids that were given out before
    asleep,  \* the running processes that are suspended
    owner,   \* lockOwnerRef.value and backgroundWorkerEnabled of a process
    acq,     \* where a process is in acquireRuntimeLease
    lock,    \* the lock file
    faults,  \* the kinds of things that went wrong so far
    budget   \* how many more things may go wrong

leaseVars == <<up, used, asleep, owner, acq, lock, faults, budget>>

(* What may go wrong: a process ends or is suspended; the others are       *)
(* failures of the tasks a process runs (PluginBridge).                    *)
FaultKinds == {"ended", "slept", "lost", "hung", "stalled", "unarchived"}

AcquirePCs == {"idle", "write", "remove", "retry"}
NoLock == [st |-> "absent", pid |-> NoPid, stale |-> FALSE]

LeaseTypeOK ==
    /\ up \subseteq Pids
    /\ used \subseteq Pids
    /\ asleep \subseteq up
    /\ owner \in [Pids -> BOOLEAN]
    /\ acq \in [Pids -> AcquirePCs]
    /\ lock \in [st : {"absent", "empty", "held"},
                 pid : Pids \cup {NoPid}, stale : BOOLEAN]
    /\ faults \subseteq FaultKinds
    /\ budget \in 0 .. MaxFaults

LeaseInit ==
    /\ up = {}
    /\ used = {}
    /\ asleep = {}
    /\ owner = [p \in Pids |-> FALSE]
    /\ acq = [p \in Pids |-> "idle"]
    /\ lock = NoLock
    /\ faults = {}
    /\ budget = MaxFaults

Awake(p) == p \in up \ asleep
Fault(f) ==
    /\ budget > 0
    /\ budget' = budget - 1
    /\ faults' = faults \cup {f}
AcqGoto(p, l) == acq' = [acq EXCEPT ![p] = l]

-----------------------------------------------------------------------------
(* A process id comes back only when the whole container restarts.         *)
StartProcess(p) ==
    /\ p \notin up
    /\ p \in used => up = {}
    /\ up' = up \cup {p}
    /\ used' = used \cup {p}
    /\ UNCHANGED <<asleep, owner, acq, lock, faults, budget>>

(* Mutant: a live holder is not told from a dead one.                      *)
AnyLock(p) == lock.st # "absent"

(* What may be removed: a lock without content that was abandoned, a stale *)
(* one, and the lock of a dead process.                                    *)
Removable(p) ==
    \/ lock.st # "absent" /\ lock.stale
    \/ lock.st = "held" /\ lock.pid \notin up

(* Create the lock file (open 'wx'), without content yet, or decide to     *)
(* remove the one that is there.                                           *)
TryAcquire(p) ==
    \/ /\ lock.st = "absent"
       /\ lock' = [st |-> "empty", pid |-> p, stale |-> FALSE]
       /\ AcqGoto(p, "write")
    \/ /\ Removable(p)
       /\ AcqGoto(p, "remove")
       /\ UNCHANGED lock

(* enableBackgroundWorker, after hydration and on every retry.  A lock     *)
(* that may not be removed leaves everything as it is: between an open     *)
(* that fails and the look at the file nothing of this process changes.    *)
AskForLease(p) ==
    /\ Awake(p)
    /\ ~owner[p]
    /\ acq[p] = "idle"
    /\ Staggered => \A q \in Pids : acq[q] = "idle"
    /\ TryAcquire(p)
    /\ UNCHANGED <<up, used, asleep, owner, faults, budget>>

(* rm(lockPath), whatever the file is by now ...                           *)
RemoveLock(p) ==
    /\ Awake(p)
    /\ acq[p] = "remove"
    /\ lock' = NoLock
    /\ AcqGoto(p, "retry")
    /\ UNCHANGED <<up, used, asleep, owner, faults, budget>>

(* ... and another attempt, unless somebody else was faster.               *)
RetryAcquire(p) ==
    /\ Awake(p)
    /\ acq[p] = "retry"
    /\ \/ TryAcquire(p)
       \/ /\ lock.st # "absent"
          /\ ~Removable(p)
          /\ AcqGoto(p, "idle")
          /\ UNCHANGED lock
    /\ UNCHANGED <<up, used, asleep, owner, faults, budget>>

(* The content goes to the file that was opened, even if its name is gone  *)
(* or names another file by now; either way the process is the owner.      *)
WriteLock(p) ==
    /\ Awake(p)
    /\ acq[p] = "write"
    /\ lock' = IF lock.st = "empty" /\ lock.pid = p
               THEN [lock EXCEPT !.st = "held", !.stale = FALSE] ELSE lock
    /\ owner' = [owner EXCEPT ![p] = TRUE]
    /\ AcqGoto(p, "idle")
    /\ UNCHANGED <<up, used, asleep, faults, budget>>

(* renewRuntimeLease: an owner renews the lease, whoever holds it.         *)
RenewLease(p) ==
    /\ Awake(p)
    /\ owner[p]
    /\ lock.st = "held"
    /\ lock.stale
    /\ lock' = [lock EXCEPT !.stale = FALSE]
    /\ UNCHANGED <<up, used, asleep, owner, acq, faults, budget>>

(* Nobody who would keep the lock fresh is awake for long enough.          *)
LockAges ==
    /\ lock.st # "absent"
    /\ ~lock.stale
    /\ IF lock.st = "held" THEN \A p \in Pids : Awake(p) => ~owner[p]
       ELSE ~(Awake(lock.pid) /\ acq[lock.pid] = "write")
    /\ lock' = [lock EXCEPT !.stale = TRUE]
    /\ UNCHANGED <<up, used, asleep, owner, acq, faults, budget>>

-----------------------------------------------------------------------------
Gone(p) ==
    /\ Fault("ended")
    /\ up' = up \ {p}
    /\ owner' = [owner EXCEPT ![p] = FALSE]
    /\ AcqGoto(p, "idle")

CrashProcess(p) ==
    /\ p \in up
    /\ Gone(p)
    /\ asleep' = asleep \ {p}
    /\ UNCHANGED <<used, lock>>

(* SIGINT, SIGTERM and exit: an owner removes the lock, whoever holds it.  *)
ShutdownProcess(p) ==
    /\ Awake(p)
    /\ Gone(p)
    /\ lock' = IF owner[p] THEN NoLock ELSE lock
    /\ UNCHANGED <<used, asleep>>

(* Only where it matters: an owner, or a process that is asking.           *)
Suspend(p) ==
    /\ Awake(p)
    /\ owner[p] \/ acq[p] # "idle"
    /\ Fault("slept")
    /\ asleep' = asleep \cup {p}
    /\ UNCHANGED <<up, used, owner, acq, lock>>

WakeUp(p) ==
    /\ p \in asleep
    /\ asleep' = asleep \ {p}
    /\ UNCHANGED <<up, used, owner, acq, lock, faults, budget>>

Acquiring(p) == AskForLease(p) \/ RemoveLock(p) \/ RetryAcquire(p)

LeaseNext ==
    \/ \E p \in Pids : \/ StartProcess(p) \/ Acquiring(p) \/ WriteLock(p)
                       \/ RenewLease(p)
                       \/ CrashProcess(p) \/ ShutdownProcess(p)
                       \/ Suspend(p) \/ WakeUp(p)
    \/ LockAges

LeaseSpec == LeaseInit /\ [][LeaseNext]_leaseVars

-----------------------------------------------------------------------------
(* One process polls: while no process has been suspended, crashes,        *)
(* shutdowns, abandoned lock files and recycled process ids never make two *)
(* processes the owner of the lease (lease.ts, "only one process runs the  *)
(* poll loop").                                                            *)
OnePoller ==
    "slept" \notin faults => \A p, q \in Pids : owner[p] /\ owner[q] => p = q
=============================================================================
