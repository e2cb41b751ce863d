-------------------------- MODULE PluginBridgeProofs --------------------------
(***************************************************************************)
(* Proofs about RuntimeLease and PluginBridge, for any number of processes,*)
(* polls, tasks, claim keys and faults: one process polls, the pool is     *)
(* bounded, no two sessions have the same claim key, a task keeps its      *)
(* claim, and a task is started once.                                      *)
(*                                                                         *)
(* The invariants build on each other: LeaseInv (who may poll), TypeInv    *)
(* (what polls and tasks are about), Claims (who has the claim file of a   *)
(* key, and who may still remove it) and StartInv (what is known of a      *)
(* delivery whose task was started).                                       *)
(***************************************************************************)
EXTENDS PluginBridge, FiniteSetTheorems, FunctionTheorems, SequenceTheorems,
        WellFoundedInduction, TLAPS

-----------------------------------------------------------------------------
(* Sequences that hold nothing twice.                                      *)
NoneTwice(s) == \A a, b \in 1 .. Len(s) : s[a] = s[b] => a = b

LEMMA NoneTwiceIsShort ==
    ASSUME NEW S, IsFiniteSet(S), NEW s \in Seq(S), NoneTwice(s)
    PROVE  Len(s) <= Cardinality(S)
  <1>1. Len(s) \in Nat /\ s \in [1 .. Len(s) -> S]
    OBVIOUS
  <1>2. \A a, b \in 1 .. Len(s) : s[a] = s[b] => a = b
    BY DEF NoneTwice
  <1>3. s \in Injection(1 .. Len(s), S)
    BY <1>1, <1>2, Fun_IsInj
  <1>4. Cardinality(1 .. Len(s)) <= Cardinality(S)
    BY <1>3, FS_Injection
  <1>5. Cardinality(1 .. Len(s)) = Len(s)
    BY <1>1, FS_Interval
  <1> QED
    BY <1>4, <1>5

(* An element that goes to the front of a sequence and leaves its place.   *)
Fronted(s, d, at) == <<d>> \o SubSeq(s, 1, at - 1) \o SubSeq(s, at + 1, Len(s))

LEMMA MovedToFront ==
    ASSUME NEW S, NEW s \in Seq(S), NEW d \in S, NEW n \in Nat, n = Len(s),
           NEW at \in 1 .. n + 1, NEW t,
           t = Fronted(s, d, at)
    PROVE  /\ t \in Seq(S)
           /\ \/ at <= n /\ Len(t) = n
              \/ at = n + 1 /\ Len(t) = n + 1
           /\ t[1] = d
           /\ \A i \in 2 .. at : t[i] = s[i - 1]
           /\ \A i \in at + 1 .. Len(t) : t[i] = s[i]
  <1>0. at \in Nat /\ 1 <= at /\ at <= n + 1 /\ \A i \in 1 .. n : s[i] \in S
    OBVIOUS
  <1>1. PICK u : u = SubSeq(s, 1, at - 1)
    OBVIOUS
  <1>2. PICK v : v = SubSeq(s, at + 1, n)
    OBVIOUS
  <1>3. u \in Seq(S) /\ Len(u) = at - 1 /\ \A i \in 1 .. at - 1 : u[i] = s[i]
    <2>1. \A i \in 1 .. at - 1 : s[i] \in S
      BY <1>0
    <2>2. /\ u \in Seq(S)
          /\ Len(u) = IF 1 <= at - 1 THEN at - 1 - 1 + 1 ELSE 0
          /\ \A i \in 1 .. at - 1 - 1 + 1 : u[i] = s[1 + i - 1]
      BY <1>0, <1>1, <2>1, SubSeqProperties
    <2>3. at - 1 - 1 + 1 = at - 1 /\ \A i \in 1 .. at - 1 : 1 + i - 1 = i
      BY <1>0
    <2> QED
      BY <1>0, <2>2, <2>3
  <1>4. /\ v \in Seq(S)
        /\ \/ at <= n /\ Len(v) = n - at
           \/ at = n + 1 /\ Len(v) = 0
        /\ \A i \in 1 .. n - at : v[i] = s[at + i]
    <2>1. \A i \in at + 1 .. n : s[i] \in S
      BY <1>0
    <2>2. /\ v \in Seq(S)
          /\ Len(v) = IF at + 1 <= n THEN n - (at + 1) + 1 ELSE 0
          /\ \A i \in 1 .. n - (at + 1) + 1 : v[i] = s[at + 1 + i - 1]
      BY <1>0, <1>2, <2>1, SubSeqProperties
    <2>3. n - (at + 1) + 1 = n - at /\ \A i \in 1 .. n - at : at + 1 + i - 1 = at + i
      BY <1>0
    <2> QED
      BY <1>0, <2>2, <2>3
  <1>5. PICK w : w = <<d>> \o u
    OBVIOUS
  <1>6. w \in Seq(S) /\ Len(w) = at /\ w[1] = d /\ \A i \in 2 .. at : w[i] = s[i - 1]
    <2>1. <<d>> \in Seq(S) /\ Len(<<d>>) = 1 /\ <<d>>[1] = d
      OBVIOUS
    <2>2. /\ w \in Seq(S)
          /\ Len(w) = 1 + (at - 1)
          /\ \A i \in 1 .. 1 + (at - 1) : w[i] = IF i <= 1 THEN <<d>>[i] ELSE u[i - 1]
      BY <1>3, <1>5, <2>1, ConcatProperties
    <2>3. 1 + (at - 1) = at
      BY <1>0
    <2>4. w[1] = d
      BY <1>0, <2>1, <2>2, <2>3
    <2>5. ASSUME NEW i \in 2 .. at PROVE w[i] = s[i - 1]
      <3>1. i \in 1 .. at /\ ~(i <= 1) /\ i - 1 \in 1 .. at - 1
        BY <1>0
      <3> QED
        BY <1>3, <2>2, <2>3, <3>1
    <2> QED
      BY <2>2, <2>3, <2>4, <2>5
  <1>7. t = w \o v
    BY <1>1, <1>2, <1>5 DEF Fronted
  <1>8. /\ t \in Seq(S)
        /\ Len(t) = at + Len(v)
        /\ \A i \in 1 .. at + Len(v) : t[i] = IF i <= at THEN w[i] ELSE v[i - at]
    BY <1>4, <1>6, <1>7, ConcatProperties
  <1>9. \/ at <= n /\ Len(t) = n
        \/ at = n + 1 /\ Len(t) = n + 1
    BY <1>0, <1>4, <1>8
  <1>10. Len(v) \in Nat
    BY <1>4
  <1>11. t[1] = d
    BY <1>0, <1>6, <1>8, <1>10
  <1>12. ASSUME NEW i \in 2 .. at PROVE t[i] = s[i - 1]
    <2>1. i \in 1 .. at + Len(v) /\ i <= at
      BY <1>0, <1>10
    <2> QED
      BY <1>6, <1>8, <2>1
  <1>13. ASSUME NEW i \in at + 1 .. Len(t) PROVE t[i] = s[i]
    <2>1. i \in 1 .. at + Len(v) /\ ~(i <= at) /\ i \in Int
      BY <1>0, <1>8, <1>10
    <2>2. i - at \in 1 .. n - at /\ at + (i - at) = i
      BY <1>0, <1>4, <1>8, <1>10, <2>1
    <2>3. t[i] = v[i - at]
      BY <1>8, <2>1
    <2>4. v[i - at] = s[at + (i - at)]
      BY <1>4, <2>2
    <2> QED
      BY <2>2, <2>3, <2>4
  <1> QED
    BY <1>8, <1>9, <1>11, <1>12, <1>13

LEMMA FrontedIsKept ==
    ASSUME NEW S, NEW s \in Seq(S), NEW d \in S, NEW at \in 1 .. Len(s) + 1,
           NoneTwice(s),
           at <= Len(s) => s[at] = d,
           at = Len(s) + 1 => \A i \in 1 .. Len(s) : s[i] # d
    PROVE  /\ Fronted(s, d, at) \in Seq(S)
           /\ NoneTwice(Fronted(s, d, at))
           /\ \E i \in 1 .. Len(Fronted(s, d, at)) : Fronted(s, d, at)[i] = d
           /\ \A i \in 1 .. Len(s) :
                 \E m \in 1 .. Len(Fronted(s, d, at)) : Fronted(s, d, at)[m] = s[i]
  <1>n. PICK n \in Nat : n = Len(s)
    OBVIOUS
  <1>t. PICK t : t = Fronted(s, d, at)
    OBVIOUS
  <1>0. at \in Nat /\ 1 <= at /\ at <= n + 1
    BY <1>n
  <1>1. /\ t \in Seq(S)
        /\ \/ at <= n /\ Len(t) = n
           \/ at = n + 1 /\ Len(t) = n + 1
        /\ t[1] = d
        /\ \A i \in 2 .. at : t[i] = s[i - 1]
        /\ \A i \in at + 1 .. Len(t) : t[i] = s[i]
    BY <1>n, <1>t, MovedToFront
  <1>2. \A i \in 1 .. n : s[i] = d => i = at
    BY <1>0, <1>n DEF NoneTwice
  <1> DEFINE old(i) == IF i <= at THEN i - 1 ELSE i
  <1>3. ASSUME NEW i \in 2 .. Len(t)
        PROVE  t[i] = s[old(i)] /\ old(i) \in 1 .. n /\ old(i) # at
    BY <1>0, <1>1
  <1>4. ASSUME NEW a \in 1 .. Len(t), NEW b \in 1 .. Len(t), t[a] = t[b], a < b PROVE FALSE
    <2>1. b \in 2 .. Len(t)
      BY <1>1, <1>4
    <2>2. CASE a = 1
      BY <1>1, <1>2, <1>3, <1>4, <2>1, <2>2
    <2>3. CASE a # 1
      <3>1. a \in 2 .. Len(t)
        BY <1>1, <2>3
      <3>2. s[old(a)] = s[old(b)] /\ old(a) \in 1 .. n /\ old(b) \in 1 .. n
        BY <1>3, <1>4, <2>1, <3>1
      <3>3. old(a) = old(b)
        BY <1>n, <3>2 DEF NoneTwice
      <3>4. old(a) < old(b)
        BY <1>0, <1>3, <1>4, <2>1, <3>1
      <3> QED
        BY <3>2, <3>3, <3>4
    <2> QED
      BY <2>2, <2>3
  <1>5. NoneTwice(t)
    BY <1>1, <1>4 DEF NoneTwice
  <1>6. 1 \in 1 .. Len(t)
    BY <1>0, <1>1
  <1>7. ASSUME NEW i \in 1 .. n PROVE \E m \in 1 .. Len(t) : t[m] = s[i]
    <2>1. CASE i < at
      <3>1. i + 1 \in 2 .. at /\ i + 1 \in 1 .. Len(t) /\ (i + 1) - 1 = i
        BY <1>0, <1>1, <2>1
      <3>2. t[i + 1] = s[i]
        BY <1>1, <3>1
      <3> QED
        BY <3>1, <3>2
    <2>2. CASE i = at
      BY <1>0, <1>1, <1>6, <1>n, <2>2
    <2>3. CASE i > at
      <3>1. i \in at + 1 .. Len(t) /\ i \in 1 .. Len(t)
        BY <1>0, <1>1, <2>3
      <3> QED
        BY <1>1, <3>1
    <2> QED
      BY <1>0, <2>1, <2>2, <2>3
  <1>8. \A i \in 1 .. Len(s) : \E m \in 1 .. Len(t) : t[m] = s[i]
    BY <1>7, <1>n
  <1> QED
    BY <1>1, <1>5, <1>6, <1>8, <1>t, Zenon

LEMMA LastIsDropped ==
    ASSUME NEW S, NEW s \in Seq(S), s # <<>>, NoneTwice(s)
    PROVE  /\ NoneTwice(SubSeq(s, 1, Len(s) - 1))
           /\ \A i \in 1 .. Len(s) : s[i] # s[Len(s)] =>
                 \E m \in 1 .. Len(SubSeq(s, 1, Len(s) - 1)) : SubSeq(s, 1, Len(s) - 1)[m] = s[i]
  <1>1. PICK n \in Nat : n = Len(s) /\ n >= 1
    OBVIOUS
  <1>2. PICK t : t = SubSeq(s, 1, n - 1)
    OBVIOUS
  <1>3. \A i \in 1 .. n - 1 : s[i] \in S
    BY <1>1
  <1>4. /\ Len(t) = IF 1 <= n - 1 THEN n - 1 - 1 + 1 ELSE 0
        /\ \A i \in 1 .. n - 1 - 1 + 1 : t[i] = s[1 + i - 1]
    BY <1>1, <1>2, <1>3, SubSeqProperties
  <1>5. n - 1 - 1 + 1 = n - 1 /\ \A i \in 1 .. n - 1 : 1 + i - 1 = i
    BY <1>1
  <1>6. Len(t) = n - 1 /\ \A i \in 1 .. n - 1 : t[i] = s[i]
    BY <1>1, <1>4, <1>5
  <1>7. NoneTwice(t)
    BY <1>1, <1>6 DEF NoneTwice
  <1>8. \A i \in 1 .. n : s[i] # s[n] => \E m \in 1 .. Len(t) : t[m] = s[i]
    <2> SUFFICES ASSUME NEW i \in 1 .. n, s[i] # s[n] PROVE \E m \in 1 .. Len(t) : t[m] = s[i]
      OBVIOUS
    <2>1. i # n
      OBVIOUS
    <2>2. i \in 1 .. Len(t)
      BY <1>1, <1>6, <2>1
    <2> QED
      BY <1>6, <2>2
  <1> QED
    BY <1>1, <1>2, <1>7, <1>8, Zenon

-----------------------------------------------------------------------------
(* The recent tasks.  No task is listed twice, so the list is no longer    *)
(* than there are deliveries, and nothing is cut off when it may be so long*)
RecentSuffices == IsFiniteSet(Deliveries) /\ Cardinality(Deliveries) <= MaxRecent

(* Where a task is in the list, or the place after its end.                *)
Earlier(p, d) ==
    IF RecentlyHandled(p, d) THEN CHOOSE i \in 1 .. Len(recent[p]) : recent[p][i] = d
    ELSE Len(recent[p]) + 1

LEMMA RememberedIsKept ==
    ASSUME RecentSuffices, NEW p \in Pids, recent[p] \in Seq(Deliveries),
           NoneTwice(recent[p]), NEW d \in Deliveries
    PROVE  /\ NoneTwice(Remembered(p, d))
           /\ \A e : e = d \/ RecentlyHandled(p, e) =>
                \E n \in 1 .. Len(Remembered(p, d)) : Remembered(p, d)[n] = e
  <1>1. PICK s : s = recent[p]
    OBVIOUS
  <1>2. PICK n : n = Len(s)
    OBVIOUS
  <1>3. PICK at : at = Earlier(p, d)
    OBVIOUS
  <1>4. PICK t : t = Fronted(s, d, at)
    OBVIOUS
  <1>5. n \in Nat /\ s \in Seq(Deliveries) /\ NoneTwice(s)
    BY <1>1, <1>2
  <1>6. /\ at \in 1 .. n + 1
        /\ at <= n => s[at] = d
        /\ at = n + 1 => \A i \in 1 .. n : s[i] # d
    <2>1. CASE RecentlyHandled(p, d)
      <3>1. \E i \in 1 .. Len(s) : s[i] = d
        BY <1>1, <2>1 DEF RecentlyHandled
      <3>2. at \in 1 .. Len(s) /\ s[at] = d
        BY <1>1, <1>3, <2>1, <3>1 DEF Earlier
      <3> QED
        BY <1>2, <1>5, <3>2
    <2>2. CASE ~RecentlyHandled(p, d)
      <3>1. \A i \in 1 .. Len(s) : s[i] # d
        BY <1>1, <2>2 DEF RecentlyHandled
      <3>2. at = n + 1
        BY <1>1, <1>2, <1>3, <2>2 DEF Earlier
      <3> QED
        BY <1>2, <1>5, <3>1, <3>2
    <2> QED
      BY <2>1, <2>2
  <1>7. /\ t \in Seq(Deliveries)
        /\ NoneTwice(t)
        /\ \E i \in 1 .. Len(t) : t[i] = d
        /\ \A i \in 1 .. n : \E m \in 1 .. Len(t) : t[m] = s[i]
    <2>1. /\ at \in 1 .. Len(s) + 1
          /\ at <= Len(s) => s[at] = d
          /\ at = Len(s) + 1 => \A i \in 1 .. Len(s) : s[i] # d
      BY <1>2, <1>6, Zenon
    <2>2. /\ Fronted(s, d, at) \in Seq(Deliveries)
          /\ NoneTwice(Fronted(s, d, at))
          /\ \E i \in 1 .. Len(Fronted(s, d, at)) : Fronted(s, d, at)[i] = d
          /\ \A i \in 1 .. Len(s) :
                \E m \in 1 .. Len(Fronted(s, d, at)) : Fronted(s, d, at)[m] = s[i]
      BY <1>5, <2>1, FrontedIsKept
    <2> QED
      BY <1>2, <1>4, <2>2, Zenon
  <1>8. Remembered(p, d) = t
    <2>1. Remembered(p, d) = IF Len(t) > MaxRecent THEN SubSeq(t, 1, MaxRecent) ELSE t
      BY <1>1, <1>3, <1>4 DEF Remembered, Fronted, Earlier
    <2>2. Len(t) <= Cardinality(Deliveries)
      BY <1>7, NoneTwiceIsShort DEF RecentSuffices
    <2>3. Len(t) \in Nat /\ Cardinality(Deliveries) \in Nat /\ MaxRecent \in Nat
      BY <1>7, FS_CardinalityType, BridgeAssumption DEF RecentSuffices
    <2> QED
      BY <2>1, <2>2, <2>3 DEF RecentSuffices
  <1>9. \A e : RecentlyHandled(p, e) => \E i \in 1 .. n : s[i] = e
    BY <1>1, <1>2 DEF RecentlyHandled
  <1>10. \A e : e = d \/ RecentlyHandled(p, e) => \E i \in 1 .. Len(t) : t[i] = e
    BY <1>7, <1>9
  <1> QED
    BY <1>7, <1>8, <1>10, Zenon

LEMMA RecentForgotten ==
    ASSUME NEW p \in Pids, recent \in [Pids -> Seq(Deliveries)], NoneTwice(recent[p]),
           recent[p] # <<>>,
           recent' = [recent EXCEPT ![p] = SubSeq(@, 1, Len(@) - 1)]
    PROVE  /\ NoneTwice(recent'[p])
           /\ \A d : RecentlyHandled(p, d) /\ d # recent[p][Len(recent[p])] => RecentlyHandled(p, d)'
  <1>1. PICK s \in Seq(Deliveries) : s = recent[p]
    OBVIOUS
  <1>2. PICK t : t = SubSeq(s, 1, Len(s) - 1)
    OBVIOUS
  <1>3. recent'[p] = t
    BY <1>1, <1>2
  <1>4. /\ NoneTwice(t)
        /\ \A i \in 1 .. Len(s) : s[i] # s[Len(s)] => \E m \in 1 .. Len(t) : t[m] = s[i]
    <2>1. s # <<>> /\ NoneTwice(s)
      BY <1>1
    <2>2. /\ NoneTwice(SubSeq(s, 1, Len(s) - 1))
          /\ \A i \in 1 .. Len(s) : s[i] # s[Len(s)] =>
                \E m \in 1 .. Len(SubSeq(s, 1, Len(s) - 1)) : SubSeq(s, 1, Len(s) - 1)[m] = s[i]
      BY <2>1, LastIsDropped
    <2> QED
      BY <1>2, <2>2, Zenon
  <1>5. \A d : (\E i \in 1 .. Len(s) : s[i] = d) /\ d # s[Len(s)] =>
             \E m \in 1 .. Len(t) : t[m] = d
    BY <1>4
  <1>6. \A d : RecentlyHandled(p, d) <=> \E i \in 1 .. Len(s) : s[i] = d
    BY <1>1 DEF RecentlyHandled
  <1>7. \A d : RecentlyHandled(p, d)' <=> \E m \in 1 .. Len(t) : t[m] = d
    BY <1>3 DEF RecentlyHandled
  <1> QED
    BY <1>1, <1>3, <1>4, <1>5, <1>6, <1>7, Zenon


-----------------------------------------------------------------------------
USE LeaseAssumption, BridgeAssumption

-----------------------------------------------------------------------------
(* The lease.  A step of the bridge that is not one of the lease leaves    *)
(* the processes and the lock alone, and at most adds a fault.             *)
OutsideLease == UNCHANGED processVars /\ faults \subseteq faults'
LeaseMove == LeaseNext \/ OutsideLease

NoOwner == \A q \in Pids : ~owner[q]

(* While nobody was suspended: an owner holds a fresh lock file of its own,*)
(* a process that created the file still has it, and a process that was    *)
(* going to remove a file, or has done so, finds nobody who owns it.       *)
LeaseInv ==
    /\ asleep \subseteq up
    /\ acq \in [Pids -> AcquirePCs]
    /\ owner \in [Pids -> BOOLEAN]
    /\ lock \in [st : {"absent", "empty", "held"},
                 pid : Pids \cup {NoPid}, stale : BOOLEAN]
    /\ \A p \in Pids : owner[p] \/ acq[p] # "idle" => p \in up
    /\ \A p, q \in Pids : acq[p] # "idle" /\ acq[q] # "idle" => p = q
    /\ "slept" \notin faults =>
          /\ asleep = {}
          /\ \A p \in Pids :
                /\ owner[p] => lock.st = "held" /\ lock.pid = p /\ ~lock.stale
                /\ acq[p] = "write" => lock.st = "empty" /\ lock.pid = p
                /\ acq[p] \in {"remove", "retry"} => NoOwner

LEMMA LeaseInvInit == LeaseInit => LeaseInv
  BY DEF LeaseInit, LeaseInv, NoLock, AcquirePCs, NoOwner

LEMMA LeaseInvTryAcquire ==
    ASSUME LeaseInv, NEW p \in Pids, p \in up, ~owner[p], acq[p] \in {"idle", "retry"},
           \A q \in Pids \ {p} : acq[q] = "idle",
           TryAcquire(p), UNCHANGED <<up, asleep, owner, faults>>
    PROVE  LeaseInv'
  <1>1. CASE lock.st = "absent" /\ lock' = [st |-> "empty", pid |-> p, stale |-> FALSE]
                /\ AcqGoto(p, "write")
    BY <1>1 DEF LeaseInv, AcqGoto, AcquirePCs, NoOwner
  <1>2. CASE Removable(p) /\ AcqGoto(p, "remove") /\ UNCHANGED lock
    <2>1. "slept" \notin faults => NoOwner
      BY <1>2 DEF Removable, LeaseInv, NoOwner
    <2> QED
      BY <1>2, <2>1 DEF LeaseInv, AcqGoto, AcquirePCs, NoOwner
  <1> QED
    BY <1>1, <1>2 DEF TryAcquire

LEMMA LeaseInvNext == Staggered /\ LeaseInv /\ LeaseMove => LeaseInv'
  <1> SUFFICES ASSUME Staggered, LeaseInv, LeaseMove PROVE LeaseInv'
    OBVIOUS
  <1>1. ASSUME NEW p \in Pids, StartProcess(p) PROVE LeaseInv'
    BY <1>1 DEF StartProcess, LeaseInv, NoOwner
  <1>2. ASSUME NEW p \in Pids, AskForLease(p) PROVE LeaseInv'
    BY <1>2, LeaseInvTryAcquire DEF AskForLease, Awake
  <1>3. ASSUME NEW p \in Pids, RemoveLock(p) PROVE LeaseInv'
    BY <1>3 DEF RemoveLock, Awake, AcqGoto, LeaseInv, NoLock, NoOwner, AcquirePCs
  <1>4. ASSUME NEW p \in Pids, RetryAcquire(p) PROVE LeaseInv'
    <2>1. p \in up /\ acq[p] = "retry" /\ UNCHANGED <<up, asleep, owner, faults>>
      BY <1>4 DEF RetryAcquire, Awake
    <2>2. \A q \in Pids \ {p} : acq[q] = "idle"
      BY <2>1 DEF LeaseInv
    <2>3. CASE TryAcquire(p)
      <3>1. CASE ~owner[p]
        BY <2>1, <2>2, <2>3, <3>1, LeaseInvTryAcquire
      <3>2. CASE owner[p]
        <4>1. "slept" \in faults
          BY <2>1, <3>2 DEF LeaseInv, NoOwner
        <4>2. CASE /\ lock' = [st |-> "empty", pid |-> p, stale |-> FALSE]
                   /\ AcqGoto(p, "write")
          BY <2>1, <2>2, <4>1, <4>2 DEF LeaseInv, AcqGoto, AcquirePCs
        <4>3. CASE AcqGoto(p, "remove") /\ UNCHANGED lock
          BY <2>1, <2>2, <4>1, <4>3 DEF LeaseInv, AcqGoto, AcquirePCs
        <4> QED
          BY <2>3, <4>2, <4>3 DEF TryAcquire
      <3> QED
        BY <3>1, <3>2
    <2>4. CASE AcqGoto(p, "idle") /\ UNCHANGED lock
      BY <2>1, <2>4 DEF AcqGoto, LeaseInv, NoOwner, AcquirePCs
    <2> QED
      BY <1>4, <2>3, <2>4 DEF RetryAcquire
  <1>5. ASSUME NEW p \in Pids, WriteLock(p) PROVE LeaseInv'
    BY <1>5 DEF WriteLock, Awake, AcqGoto, LeaseInv, NoOwner, AcquirePCs
  <1>6. ASSUME NEW p \in Pids, RenewLease(p) PROVE LeaseInv'
    BY <1>6 DEF RenewLease, LeaseInv, NoOwner
  <1>7. ASSUME NEW p \in Pids, CrashProcess(p) \/ ShutdownProcess(p) PROVE LeaseInv'
    <2>1. Gone(p)
      BY <1>7 DEF CrashProcess, ShutdownProcess
    <2>2. CASE CrashProcess(p)
      BY <2>1, <2>2 DEF CrashProcess, Gone, Fault, AcqGoto, LeaseInv, NoOwner, AcquirePCs
    <2>3. CASE ShutdownProcess(p) /\ owner[p]
      BY <2>1, <2>3
      DEF ShutdownProcess, Gone, Fault, Awake, AcqGoto, LeaseInv, NoLock, NoOwner,
          AcquirePCs
    <2>4. CASE ShutdownProcess(p) /\ ~owner[p]
      BY <2>1, <2>4
      DEF ShutdownProcess, Gone, Fault, Awake, AcqGoto, LeaseInv, NoOwner, AcquirePCs
    <2> QED
      BY <1>7, <2>2, <2>3, <2>4
  <1>8. ASSUME NEW p \in Pids, Suspend(p) PROVE LeaseInv'
    BY <1>8 DEF Suspend, Fault, Awake, LeaseInv
  <1>9. ASSUME NEW p \in Pids, WakeUp(p) PROVE LeaseInv'
    BY <1>9 DEF WakeUp, LeaseInv, NoOwner
  <1>10. CASE LockAges
    BY <1>10 DEF LockAges, Awake, LeaseInv, NoOwner
  <1>11. CASE OutsideLease
    BY <1>11 DEF OutsideLease, processVars, LeaseInv, NoOwner
  <1> QED
    BY <1>1, <1>2, <1>3, <1>4, <1>5, <1>6, <1>7, <1>8, <1>9, <1>10, <1>11
    DEF LeaseMove, LeaseNext, Acquiring

(* Every step of the bridge is one of the lease or leaves it alone.        *)
LEMMA BridgeMovesLease == [Next]_vars => LeaseMove
  <1> SUFFICES ASSUME [Next]_vars PROVE LeaseMove
    OBVIOUS
  <1>1. CASE LeaseStep
    BY <1>1 DEF LeaseStep, LeaseMove, LeaseNext
  <1>2. ASSUME NEW p \in Pids, LeaseAcquired(p) \/ ProcessEnds(p) PROVE LeaseMove
    BY <1>2 DEF LeaseAcquired, ProcessEnds, LeaseMove, LeaseNext
  <1>3. ASSUME UNCHANGED leaseVars PROVE LeaseMove
    BY <1>3 DEF leaseVars, processVars, OutsideLease, LeaseMove
  <1>4. ASSUME NEW p \in Pids, ForgetTask(p) PROVE LeaseMove
    BY <1>3, <1>4 DEF ForgetTask
  <1>5. ASSUME NEW p \in Pids, NEW i \in Polls, Polling(p, i) PROVE LeaseMove
    BY <1>3, <1>5
    DEF Polling, StartPoll, NextTask, OpenClaim, InspectClaim, RemoveClaim, WriteClaim
  <1>6. ASSUME NEW p \in Pids, NEW k \in Keys, WatchdogEvicts(p, k) PROVE LeaseMove
    BY <1>6 DEF WatchdogEvicts, Fault, OutsideLease, LeaseMove
  <1>7. ASSUME NEW j \in Jobs, Serving(j) PROVE LeaseMove
    <2>1. CASE EndSession(j)
      BY <2>1 DEF EndSession, Archive, Fault, OutsideLease, LeaseMove
    <2> QED
      BY <1>3, <1>7, <2>1
      DEF Serving, StartSession, RetryCall, CloseChild, ReleaseClaim
  <1>8. ASSUME NEW j \in Jobs, Failing(j) PROVE LeaseMove
    <2>1. CASE RefuseCall(j)
      BY <1>3, <2>1 DEF RefuseCall
    <2> QED
      BY <1>8, <2>1
      DEF Failing, DropCall, TimeOutCall, HangSession, Fault, OutsideLease, LeaseMove
  <1>9. ASSUME NEW o \in orphans, EndOrphan(o) PROVE LeaseMove
    BY <1>9 DEF EndOrphan, Archive, Fault, OutsideLease, LeaseMove
  <1>10. ASSUME NEW k \in Keys, ClaimAges(k) PROVE LeaseMove
    BY <1>3, <1>10 DEF ClaimAges
  <1>11. ASSUME NEW d \in Deliveries, Arrive(d) PROVE LeaseMove
    BY <1>3, <1>11 DEF Arrive
  <1>12. CASE UNCHANGED vars
    BY <1>3, <1>12 DEF vars
  <1> QED
    BY <1>1, <1>2, <1>4, <1>5, <1>6, <1>7, <1>8, <1>9, <1>10, <1>11, <1>12 DEF Next

(* While no process has been suspended, one process polls, whatever        *)
(* crashes, shutdowns, abandoned lock files and recycled process ids do:   *)
(* as long as no two processes ask for the lease at the same moment.       *)
THEOREM OneProcessPolls == Staggered /\ Spec => []OnePoller
  <1> SUFFICES ASSUME Staggered PROVE Spec => []OnePoller
    OBVIOUS
  <1>1. Init => LeaseInv
    BY LeaseInvInit DEF Init
  <1>2. LeaseInv /\ [Next]_vars => LeaseInv'
    BY LeaseInvNext, BridgeMovesLease
  <1>3. LeaseInv => OnePoller
    BY DEF LeaseInv, OnePoller
  <1> QED
    BY <1>1, <1>2, <1>3, PTL DEF Spec

-----------------------------------------------------------------------------
(* The pool.  Every poll that passed the look at the pool may still add a  *)
(* task, so it counts like one: what bounds the pool is the sum.           *)
Working == {"open", "inspect", "remove", "write"}
Workers(p) == {i \in Polls : poll[<<p, i>>].pc \in Working}
Committed(p) == InPool(p) + Cardinality(Workers(p))

Shape ==
    /\ active = [p \in Pids |-> active[p]]
    /\ poll = [s \in Pids \X Polls |-> poll[s]]
    /\ \A s \in Pids \X Polls : "pc" \in DOMAIN poll[s]

PoolInv ==
    /\ Shape
    /\ \A p \in Pids :
          /\ IsFiniteSet(active[p])
          /\ Committed(p) <= MaxConcurrent + Cardinality(Polls) - 1

LEMMA BoundTypes == MaxConcurrent \in Nat \ {0} /\ Cardinality(Polls) \in Nat
  BY FS_CardinalityType

LEMMA WorkersFinite ==
    ASSUME NEW p \in Pids
    PROVE  /\ IsFiniteSet(Workers(p))
           /\ Cardinality(Workers(p)) \in Nat
           /\ Cardinality(Workers(p)) <= Cardinality(Polls)
  BY FS_Subset, FS_CardinalityType DEF Workers

LEMMA PoolInvInit == PoolInit => PoolInv
  <1> SUFFICES ASSUME PoolInit PROVE PoolInv
    OBVIOUS
  <1>1. Shape
    BY DEF PoolInit, Shape, NoPoll
  <1>2. ASSUME NEW p \in Pids
        PROVE  IsFiniteSet(active[p]) /\ Committed(p) = 0
    <2>1. active[p] = {} /\ Workers(p) = {}
      BY DEF PoolInit, Workers, Working, NoPoll
    <2> QED
      BY <2>1, FS_EmptySet DEF Committed, InPool
  <1> QED
    BY <1>1, <1>2, BoundTypes DEF PoolInv

(* Whatever adds neither a task nor a worker keeps the bound.              *)
Shrinks ==
    /\ Shape'
    /\ \A p \in Pids : active'[p] \subseteq active[p] /\ Workers(p)' \subseteq Workers(p)

LEMMA ShrinkingKeepsBound == PoolInv /\ Shrinks => PoolInv'
  <1> SUFFICES ASSUME PoolInv, Shrinks, NEW p \in Pids
               PROVE  /\ IsFiniteSet(active'[p])
                      /\ Committed(p)' <= MaxConcurrent + Cardinality(Polls) - 1
    BY DEF PoolInv, Shrinks
  <1>1. /\ IsFiniteSet(active'[p])
        /\ Cardinality(active'[p]) <= Cardinality(active[p])
        /\ Cardinality(active'[p]) \in Nat
        /\ Cardinality(active[p]) \in Nat
    BY FS_Subset, FS_CardinalityType DEF PoolInv, Shrinks
  <1>2. /\ Cardinality(Workers(p)') <= Cardinality(Workers(p))
        /\ Cardinality(Workers(p)') \in Nat
        /\ Cardinality(Workers(p)) \in Nat
    BY WorkersFinite, FS_Subset, FS_CardinalityType DEF Shrinks
  <1>3. Committed(p) <= MaxConcurrent + Cardinality(Polls) - 1
    BY DEF PoolInv
  <1> QED
    BY <1>1, <1>2, <1>3, BoundTypes DEF Committed, InPool

LEMMA NextTaskKeepsBound ==
    ASSUME PoolInv, NEW p \in Pids, NEW i \in Polls, NextTask(p, i)
    PROVE  PoolInv'
  <1> DEFINE k == NextKey(poll[<<p, i>>].seen, poll[<<p, i>>].todo)
  <1>1. UNCHANGED active /\ poll[<<p, i>>].pc = "loop"
    BY DEF NextTask
  <1>2. CASE poll' = [poll EXCEPT ![<<p, i>>] = NoPoll]
    <2>1. Shape'
      BY <1>1, <1>2 DEF PoolInv, Shape, NoPoll
    <2>2. \A q \in Pids : Workers(q)' \subseteq Workers(q)
      BY <1>2 DEF PoolInv, Shape, Workers, Working, NoPoll
    <2> QED
      BY <1>1, <2>1, <2>2, ShrinkingKeepsBound DEF Shrinks
  <1>3. CASE /\ ~PoolFull(p)
             /\ poll' = [poll EXCEPT ![<<p, i>>].todo = @ \ {k},
                           ![<<p, i>>].key = k,
                           ![<<p, i>>].pc = IF Skipped(p, k, Bundle(poll[<<p, i>>].seen, k))
                                            THEN "loop" ELSE "open"]
    <2>1. Shape'
      BY <1>1, <1>3 DEF PoolInv, Shape
    <2>2. \A q \in Pids \ {p} : Workers(q)' = Workers(q)
      BY <1>3 DEF PoolInv, Shape, Workers
    <2>3. ASSUME NEW q \in Pids
          PROVE  Committed(q)' <= MaxConcurrent + Cardinality(Polls) - 1
      <3>1. CASE q # p
        BY <1>1, <2>2, <3>1 DEF PoolInv, Committed, InPool
      <3>2. CASE q = p
        <4>1. InPool(p) \in Nat /\ InPool(p) < MaxConcurrent
          BY <1>3, BoundTypes, FS_CardinalityType DEF PoolFull, InPool, PoolInv
        <4>2. /\ Cardinality(Workers(p)') \in Nat
              /\ Cardinality(Workers(p)') <= Cardinality(Polls)
          BY FS_Subset, FS_CardinalityType DEF Workers
        <4> QED
          BY <1>1, <3>2, <4>1, <4>2, BoundTypes DEF Committed, InPool
      <3> QED
        BY <3>1, <3>2
    <2> QED
      BY <1>1, <2>1, <2>3 DEF PoolInv
  <1> QED
    BY <1>2, <1>3 DEF NextTask

(* A poll that adds a task stops being a worker in the same step.          *)
LEMMA WriteClaimKeepsBound ==
    ASSUME PoolInv, NEW p \in Pids, NEW i \in Polls, WriteClaim(p, i)
    PROVE  PoolInv'
  <1> DEFINE k == poll[<<p, i>>].key
  <1>1. /\ poll' = [poll EXCEPT ![<<p, i>>].pc = "loop"]
        /\ poll[<<p, i>>].pc = "write"
        /\ UNCHANGED active \/ active' = [active EXCEPT ![p] = @ \cup {k}]
    BY DEF WriteClaim, PollGoto
  <1>2. Shape'
    BY <1>1 DEF PoolInv, Shape
  <1>3. \A q \in Pids \ {p} : active'[q] = active[q] /\ Workers(q)' = Workers(q)
    BY <1>1 DEF PoolInv, Shape, Workers
  <1>4. i \in Workers(p) /\ Workers(p)' = Workers(p) \ {i}
    BY <1>1 DEF PoolInv, Shape, Workers, Working
  <1>5. /\ Cardinality(Workers(p)') = Cardinality(Workers(p)) - 1
        /\ Cardinality(Workers(p)) \in Nat
    BY <1>4, WorkersFinite, FS_RemoveElement
  <1>6. /\ IsFiniteSet(active'[p])
        /\ InPool(p)' \in Nat
        /\ InPool(p) \in Nat
        /\ InPool(p)' <= InPool(p) + 1
    <2> DEFINE A == active[p]
               B == active[p] \cup {k}
    <2> SUFFICES /\ IsFiniteSet(active'[p])
                 /\ Cardinality(active'[p]) \in Nat
                 /\ Cardinality(A) \in Nat
                 /\ Cardinality(active'[p]) <= Cardinality(A) + 1
      BY DEF InPool
    <2>1. active'[p] = A \/ active'[p] = B
      BY <1>1 DEF PoolInv, Shape
    <2>2. IsFiniteSet(A)
      BY DEF PoolInv
    <2> HIDE DEF A
    <2>3. Cardinality(A) \in Nat
      BY <2>2, FS_CardinalityType
    <2>4. IsFiniteSet(A \cup {k})
          /\ Cardinality(A \cup {k}) = IF k \in A THEN Cardinality(A) ELSE Cardinality(A) + 1
      <3> HIDE DEF k
      <3> QED
        BY <2>2, FS_AddElement
    <2>5. IsFiniteSet(B) /\ Cardinality(B) \in Nat /\ Cardinality(B) <= Cardinality(A) + 1
      BY <2>3, <2>4 DEF A
    <2> HIDE DEF B
    <2> QED
      BY <2>1, <2>2, <2>3, <2>5
  <1>7. ASSUME NEW q \in Pids
        PROVE  /\ IsFiniteSet(active'[q])
               /\ Committed(q)' <= MaxConcurrent + Cardinality(Polls) - 1
    <2>1. CASE q # p
      BY <1>3, <2>1 DEF PoolInv, Committed, InPool
    <2>2. CASE q = p
      <3>1. Committed(p) <= MaxConcurrent + Cardinality(Polls) - 1
        BY DEF PoolInv
      <3> QED
        BY <1>5, <1>6, <2>2, <3>1, BoundTypes DEF Committed
    <2> QED
      BY <2>1, <2>2
  <1> QED
    BY <1>2, <1>7 DEF PoolInv

LEMMA PoolInvNext == PoolInv /\ [Next]_vars => PoolInv'
  <1> SUFFICES ASSUME PoolInv, [Next]_vars PROVE PoolInv'
    OBVIOUS
  <1>1. ASSUME UNCHANGED <<poll, active>> PROVE PoolInv'
    BY <1>1, ShrinkingKeepsBound DEF Shrinks, PoolInv, Shape, Workers
  <1>2. ASSUME UNCHANGED poll, NEW q, NEW k, active' = [active EXCEPT ![q] = @ \ {k}]
        PROVE  PoolInv'
    BY <1>2, ShrinkingKeepsBound DEF Shrinks, PoolInv, Shape, Workers
  <1>3. CASE LeaseStep
    BY <1>1, <1>3 DEF LeaseStep, poolVars
  <1>4. ASSUME NEW p \in Pids, LeaseAcquired(p) \/ ForgetTask(p) PROVE PoolInv'
    BY <1>1, <1>4 DEF LeaseAcquired, ForgetTask
  <1>5. ASSUME NEW p \in Pids, ProcessEnds(p) PROVE PoolInv'
    <2>1. Shape'
      BY <1>5 DEF ProcessEnds, PoolInv, Shape, NoPoll
    <2>2. \A q \in Pids : active'[q] \subseteq active[q] /\ Workers(q)' \subseteq Workers(q)
      BY <1>5 DEF ProcessEnds, PoolInv, Shape, Workers, Working, NoPoll
    <2> QED
      BY <2>1, <2>2, ShrinkingKeepsBound DEF Shrinks
  <1>6. ASSUME NEW p \in Pids, NEW i \in Polls, Polling(p, i) PROVE PoolInv'
    <2>1. CASE StartPoll(p, i)
      <3>1. Shape'
        BY <2>1 DEF StartPoll, PoolInv, Shape
      <3>2. UNCHANGED active /\ \A q \in Pids : Workers(q)' \subseteq Workers(q)
        BY <2>1 DEF StartPoll, PoolInv, Shape, Workers, Working
      <3> QED
        BY <3>1, <3>2, ShrinkingKeepsBound DEF Shrinks
    <2>2. ASSUME NEW l \in PollPCs, UNCHANGED active, poll[<<p, i>>].pc \in Working,
                 PollGoto(<<p, i>>, l)
          PROVE  PoolInv'
      <3>1. Shape'
        BY <2>2 DEF PollGoto, PoolInv, Shape
      <3>2. \A q \in Pids : Workers(q)' \subseteq Workers(q)
        BY <2>2 DEF PollGoto, PoolInv, Shape, Workers
      <3> QED
        BY <2>2, <3>1, <3>2, ShrinkingKeepsBound DEF Shrinks
    <2>3. CASE OpenClaim(p, i) \/ InspectClaim(p, i) \/ RemoveClaim(p, i)
      BY <2>2, <2>3 DEF OpenClaim, InspectClaim, RemoveClaim, Working, PollPCs
    <2> QED
      BY <1>6, <2>1, <2>3, NextTaskKeepsBound, WriteClaimKeepsBound DEF Polling
  <1>7. ASSUME NEW p \in Pids, NEW k \in Keys, WatchdogEvicts(p, k) PROVE PoolInv'
    BY <1>2, <1>7 DEF WatchdogEvicts
  <1>8. ASSUME NEW j \in Jobs, Serving(j) PROVE PoolInv'
    <2>1. CASE CloseChild(j)
      BY <1>2, <2>1 DEF CloseChild, Leaves
    <2> QED
      BY <1>1, <1>8, <2>1
      DEF Serving, StartSession, RetryCall, EndSession, ReleaseClaim
  <1>9. ASSUME NEW j \in Jobs, Failing(j) PROVE PoolInv'
    BY <1>1, <1>2, <1>9
    DEF Failing, RefuseCall, DropCall, TimeOutCall, HangSession, ConnectionError, Leaves
  <1>10. ASSUME NEW o \in orphans, EndOrphan(o) PROVE PoolInv'
    BY <1>1, <1>10 DEF EndOrphan
  <1>11. ASSUME NEW k \in Keys, ClaimAges(k) PROVE PoolInv'
    BY <1>1, <1>11 DEF ClaimAges
  <1>12. ASSUME NEW d \in Deliveries, Arrive(d) PROVE PoolInv'
    BY <1>1, <1>12 DEF Arrive
  <1>13. CASE UNCHANGED vars
    BY <1>1, <1>13 DEF vars, poolVars
  <1> QED
    BY <1>3, <1>4, <1>5, <1>6, <1>7, <1>8, <1>9, <1>10, <1>11, <1>12, <1>13 DEF Next

(* The pool of a process exceeds maxConcurrent by at most the number of    *)
(* polls that overlap less one, for any number of processes, polls, keys   *)
(* and tasks, and whatever fails: each poll that looked at the pool before *)
(* it waited for a claim adds at most one task before it looks again.      *)
THEOREM PoolIsBounded == Spec => []PoolBound
  <1>1. Init => PoolInv
    BY PoolInvInit DEF Init
  <1>2. PoolInv /\ [Next]_vars => PoolInv'
    BY PoolInvNext
  <1>3. PoolInv => PoolBound
    <2> SUFFICES ASSUME PoolInv, NEW p \in Pids
                 PROVE  InPool(p) <= MaxConcurrent + Cardinality(Polls) - 1
      BY DEF PoolBound
    <2>1. InPool(p) \in Nat
      BY FS_CardinalityType DEF PoolInv, InPool
    <2> QED
      BY <2>1, WorkersFinite, BoundTypes DEF PoolInv, Committed
  <1> QED
    BY <1>1, <1>2, <1>3, PTL DEF Spec

LEMMA LeastElement ==
    ASSUME NEW S, S \subseteq Nat, S # {}
    PROVE  \E n \in S : \A m \in S : n <= m
  <1>1. PICK n \in S : \A m \in S : ~ (<<m, n>> \in OpToRel(<, Nat))
    BY NatLessThanWellFounded, WFMin
  <1>2. \A m \in S : ~ (m < n)
    BY <1>1 DEF OpToRel
  <1> QED
    BY <1>2

LEMMA BestIsOne ==
    ASSUME NEW S, S \subseteq Deliveries, S # {}
    PROVE  Best(S) \in S
  <1> DEFINE R == {Rank[d] : d \in S}
  <1>1. R \subseteq Nat /\ R # {}
    OBVIOUS
  <1>2. PICK n \in R : \A m \in R : n <= m
    BY <1>1, LeastElement
  <1>3. \E d \in S : \A e \in S : Rank[d] <= Rank[e]
    BY <1>2
  <1> QED
    BY <1>3 DEF Best

-----------------------------------------------------------------------------
Claimings == {"open", "inspect", "remove", "write"}
Taken(j) == job[j].st # "free"

(* Every poll knows a delivery for each key it has left to do, and so does *)
(* every task for its own key.                                             *)
Bundled ==
    /\ \A s \in Pids \X Polls :
          /\ poll[s].todo \subseteq {KeyOf[d] : d \in poll[s].seen}
          /\ poll[s].pc \in Claimings =>
                /\ poll[s].key \in Keys
                /\ Bundle(poll[s].seen, poll[s].key) # {}
    /\ \A j \in Jobs : Taken(j) =>
          /\ job[j].pid \in Pids
          /\ job[j].key \in Keys
          /\ job[j].items # {}
          /\ \A d \in job[j].items : KeyOf[d] = job[j].key

TypeInv == TypeOK /\ Bundled

LEMMA TypeInvInit == Init => TypeInv
  <1> SUFFICES ASSUME Init PROVE TypeInv
    OBVIOUS
  <1>1. LeaseTypeOK
    BY DEF Init, LeaseInit, LeaseTypeOK, NoLock, AcquirePCs
  <1>2. PoolTypeOK
    BY DEF Init, PoolInit, PoolTypeOK, NoClaim, NoPoll, NoJob, PollPCs, JobSts
  <1>3. Bundled
    BY DEF Init, PoolInit, Bundled, NoPoll, NoJob, Claimings, Taken
  <1> QED
    BY <1>1, <1>2, <1>3 DEF TypeInv, TypeOK

LockType == [st : {"absent", "empty", "held"}, pid : Pids \cup {NoPid}, stale : BOOLEAN]

LEMMA LockTypes ==
    /\ NoLock \in LockType
    /\ \A p \in Pids : [st |-> "empty", pid |-> p, stale |-> FALSE] \in LockType
    /\ \A l \in LockType, b \in BOOLEAN :
          /\ [l EXCEPT !.stale = b] \in LockType
          /\ [l EXCEPT !.st = "held", !.stale = FALSE] \in LockType
  BY DEF LockType, NoLock

LEMMA LeaseTypeNext == LeaseTypeOK /\ LeaseNext => LeaseTypeOK'
  <1> SUFFICES ASSUME LeaseTypeOK, LeaseNext PROVE LeaseTypeOK'
    OBVIOUS
  <1>0. lock \in LockType
    BY DEF LeaseTypeOK, LockType
  <1>1. ASSUME NEW p \in Pids, TryAcquire(p), UNCHANGED <<up, used, asleep, owner, faults, budget>>
        PROVE  LeaseTypeOK'
    <2>1. lock' \in LockType
      BY <1>0, <1>1, LockTypes DEF TryAcquire
    <2>2. acq' \in [Pids -> AcquirePCs]
      BY <1>1 DEF TryAcquire, LeaseTypeOK, AcqGoto, AcquirePCs
    <2> QED
      BY <1>1, <2>1, <2>2 DEF LeaseTypeOK, LockType
  <1>2. ASSUME NEW p \in Pids, StartProcess(p) \/ WakeUp(p) \/ RenewLease(p) PROVE LeaseTypeOK'
    <2>1. lock' \in LockType
      BY <1>0, <1>2, LockTypes DEF StartProcess, WakeUp, RenewLease
    <2> QED
      BY <1>2, <2>1 DEF StartProcess, WakeUp, RenewLease, LeaseTypeOK, LockType
  <1>3. ASSUME NEW p \in Pids, Acquiring(p) PROVE LeaseTypeOK'
    <2>1. CASE TryAcquire(p)
      BY <1>1, <1>3, <2>1 DEF Acquiring, AskForLease, RemoveLock, RetryAcquire
    <2>2. CASE ~TryAcquire(p)
      <3>1. lock' \in LockType
        BY <1>0, <1>3, <2>2, LockTypes DEF Acquiring, AskForLease, RemoveLock, RetryAcquire
      <3>2. acq' \in [Pids -> AcquirePCs]
        BY <1>3, <2>2 
        DEF Acquiring, AskForLease, RemoveLock, RetryAcquire, LeaseTypeOK, AcqGoto, AcquirePCs
      <3> QED
        BY <1>3, <2>2, <3>1, <3>2
        DEF Acquiring, AskForLease, RemoveLock, RetryAcquire, LeaseTypeOK, LockType
    <2> QED
      BY <2>1, <2>2
  <1>4. ASSUME NEW p \in Pids, WriteLock(p) PROVE LeaseTypeOK'
    <2>1. lock' \in LockType
      BY <1>0, <1>4, LockTypes DEF WriteLock
    <2> QED
      BY <1>4, <2>1 DEF WriteLock, LeaseTypeOK, LockType, AcqGoto, AcquirePCs
  <1>5. ASSUME NEW f \in FaultKinds, Fault(f)
        PROVE  faults' \subseteq FaultKinds /\ budget' \in 0 .. MaxFaults
    BY <1>5 DEF Fault, LeaseTypeOK
  <1>6. ASSUME NEW p \in Pids, CrashProcess(p) \/ ShutdownProcess(p) PROVE LeaseTypeOK'
    <2>1. lock' \in LockType
      BY <1>0, <1>6, LockTypes DEF CrashProcess, ShutdownProcess
    <2>2. Gone(p)
      BY <1>6 DEF CrashProcess, ShutdownProcess
    <2>3. faults' \subseteq FaultKinds /\ budget' \in 0 .. MaxFaults
      BY <1>5, <2>2 DEF Gone, FaultKinds
    <2>4. asleep' \subseteq up'
      BY <1>6, <2>2 DEF CrashProcess, ShutdownProcess, Gone, LeaseTypeOK, Awake
    <2> QED
      BY <1>6, <2>1, <2>2, <2>3, <2>4
      DEF CrashProcess, ShutdownProcess, Gone, LeaseTypeOK, LockType, AcqGoto, AcquirePCs
  <1>7. ASSUME NEW p \in Pids, Suspend(p) PROVE LeaseTypeOK'
    BY <1>5, <1>7 DEF Suspend, LeaseTypeOK, FaultKinds, Awake
  <1>8. CASE LockAges
    <2>1. lock' \in LockType
      BY <1>0, <1>8, LockTypes DEF LockAges
    <2> QED
      BY <1>8, <2>1 DEF LockAges, LeaseTypeOK, LockType
  <1> QED
    BY <1>2, <1>3, <1>4, <1>6, <1>7, <1>8 DEF LeaseNext


-----------------------------------------------------------------------------
(* The records of the pool, and what the steps make of them.               *)
ClaimType == [st : {"none", "empty", "held", "aged"}, pid : Pids \cup {NoPid}, prev : BOOLEAN]
PollType  == [pc : PollPCs, seen : SUBSET Deliveries, todo : SUBSET Keys,
              key : Keys \cup {NoKey}, began : SUBSET Keys]
JobType   == [st : JobSts, pid : Pids \cup {NoPid}, key : Keys \cup {NoKey},
              items : SUBSET Deliveries, tries : 0 .. MaxAttempts]

LEMMA ClaimTypes ==
    /\ NoClaim \in ClaimType
    /\ \A p \in Pids : [st |-> "empty", pid |-> p, prev |-> FALSE] \in ClaimType
    /\ \A c \in ClaimType :
          /\ [c EXCEPT !.st = "held"] \in ClaimType
          /\ [c EXCEPT !.st = "aged"] \in ClaimType
          /\ [c EXCEPT !.prev = TRUE] \in ClaimType
  BY DEF ClaimType, NoClaim

LEMMA PollTypes ==
    /\ NoPoll \in PollType
    /\ \A r \in PollType, l \in PollPCs : [r EXCEPT !.pc = l] \in PollType
    /\ \A r \in PollType, l \in PollPCs, k \in Keys :
          [r EXCEPT !.todo = @ \ {k}, !.key = k, !.pc = l] \in PollType
  BY DEF PollType, NoPoll, PollPCs

LEMMA JobTypes ==
    /\ NoJob \in JobType
    /\ \A r \in JobType, l \in JobSts : [r EXCEPT !.st = l] \in JobType
    /\ \A r \in JobType :
          r.tries + 1 < MaxAttempts => [r EXCEPT !.st = "waiting", !.tries = @ + 1] \in JobType
    /\ \A p \in Pids, k \in Keys, S \in SUBSET Deliveries :
          [st |-> "calling", pid |-> p, key |-> k, items |-> S, tries |-> 0] \in JobType
  <1>1. NoJob \in JobType
    BY DEF JobType, NoJob, JobSts
  <1>2. \A r \in JobType, l \in JobSts : [r EXCEPT !.st = l] \in JobType
    BY DEF JobType
  <1>3. ASSUME NEW r \in JobType, r.tries + 1 < MaxAttempts
        PROVE  [r EXCEPT !.st = "waiting", !.tries = @ + 1] \in JobType
    <2>1. r.tries + 1 \in 0 .. MaxAttempts
      BY <1>3 DEF JobType
    <2> QED
      BY <2>1 DEF JobType, JobSts
  <1>4. ASSUME NEW p \in Pids, NEW k \in Keys, NEW S \in SUBSET Deliveries
        PROVE  [st |-> "calling", pid |-> p, key |-> k, items |-> S, tries |-> 0] \in JobType
    BY DEF JobType, JobSts
  <1> QED
    BY <1>1, <1>2, <1>3, <1>4

LEMMA PoolTypes ==
    PoolTypeOK =>
       /\ claim \in [Keys -> ClaimType]
       /\ poll \in [Pids \X Polls -> PollType]
       /\ job \in [Jobs -> JobType]
  BY DEF PoolTypeOK, ClaimType, PollType, JobType

(* What a poll that goes on with its loop makes of itself.                 *)
LEMMA NextKeyIsLeft ==
    ASSUME TypeInv, NEW s \in Pids \X Polls, poll[s].todo # {}
    PROVE  NextKey(poll[s].seen, poll[s].todo) \in poll[s].todo
  <1> DEFINE S == {d \in poll[s].seen : KeyOf[d] \in poll[s].todo}
  <1>1. poll[s].todo \subseteq {KeyOf[d] : d \in poll[s].seen} /\ poll[s] \in PollType
    BY PoolTypes DEF TypeInv, TypeOK, Bundled
  <1>2. S \subseteq Deliveries /\ S # {}
    BY <1>1 DEF PollType
  <1>3. Best(S) \in S
    BY <1>2, BestIsOne
  <1> QED
    BY <1>3 DEF NextKey

(* The loop of a poll either ends it, passes over a key, or goes for one.  *)
LEMMA NextTaskMakes ==
    ASSUME TypeInv, NEW p \in Pids, NEW i \in Polls, NextTask(p, i)
    PROVE  \/ poll' = [poll EXCEPT ![<<p, i>>] = NoPoll]
           \/ \E k \in poll[<<p, i>>].todo, l \in {"loop", "open"} :
                 /\ poll' = [poll EXCEPT ![<<p, i>>] =
                              [poll[<<p, i>>] EXCEPT !.todo = @ \ {k}, !.key = k, !.pc = l]]
                 /\ l = "open" => ~ Skipped(p, k, Bundle(poll[<<p, i>>].seen, k))
                 /\ k \in Keys
  <1> DEFINE k == NextKey(poll[<<p, i>>].seen, poll[<<p, i>>].todo)
             l == IF Skipped(p, k, Bundle(poll[<<p, i>>].seen, k)) THEN "loop" ELSE "open"
  <1> SUFFICES ASSUME poll[<<p, i>>].todo # {},
                      poll' = [poll EXCEPT ![<<p, i>>].todo = @ \ {k},
                        ![<<p, i>>].key = k, ![<<p, i>>].pc = l]
               PROVE  \E kk \in poll[<<p, i>>].todo, ll \in {"loop", "open"} :
                 /\ poll' = [poll EXCEPT ![<<p, i>>] =
                              [poll[<<p, i>>] EXCEPT !.todo = @ \ {kk}, !.key = kk, !.pc = ll]]
                 /\ ll = "open" => ~ Skipped(p, kk, Bundle(poll[<<p, i>>].seen, kk))
                 /\ kk \in Keys
    BY DEF NextTask
  <1>1. <<p, i>> \in Pids \X Polls /\ poll \in [Pids \X Polls -> PollType]
    BY PoolTypes DEF TypeInv, TypeOK
  <1>2. k \in poll[<<p, i>>].todo /\ k \in Keys
    BY <1>1, NextKeyIsLeft DEF PollType
  <1>3. l \in {"loop", "open"} /\ (l = "open" => ~ Skipped(p, k, Bundle(poll[<<p, i>>].seen, k)))
    OBVIOUS
  <1> HIDE DEF k, l
  <1>4. poll' = [poll EXCEPT ![<<p, i>>] =
                   [poll[<<p, i>>] EXCEPT !.todo = @ \ {k}, !.key = k, !.pc = l]]
    BY <1>1
  <1> QED
    BY <1>2, <1>3, <1>4

(* A task gets a slot that is free.                                        *)
FirstFree == CHOOSE j \in FreeJobs : \A l \in FreeJobs : j <= l

LEMMA FirstFreeIsFree == FreeJobs # {} => FirstFree \in FreeJobs
  <1> SUFFICES ASSUME FreeJobs # {} PROVE FirstFree \in FreeJobs
    OBVIOUS
  <1>1. FreeJobs \subseteq Nat
    BY DEF FreeJobs
  <1>2. \E n \in FreeJobs : \A m \in FreeJobs : n <= m
    BY <1>1, LeastElement
  <1> QED
    BY <1>2 DEF FirstFree

(* A task changes its state and nothing else that matters.                 *)
Moves(j, l) ==
    /\ job' \in [Jobs -> JobType]
    /\ \A i \in Jobs : job'[i] # job[i] => i = j
    /\ job'[j].st = l
    /\ job'[j].pid = job[j].pid
    /\ job'[j].key = job[j].key
    /\ job'[j].items = job[j].items

LEMMA GotoMoves ==
    ASSUME job \in [Jobs -> JobType], NEW j \in Jobs, NEW l \in JobSts, JobGoto(j, l)
    PROVE  Moves(j, l)
  <1>1. job[j] \in JobType
    OBVIOUS
  <1>2. job' = [job EXCEPT ![j] = [job[j] EXCEPT !.st = l]]
    BY DEF JobGoto
  <1> QED
    BY <1>1, <1>2, JobTypes DEF Moves, JobType

LEMMA ErrorMoves ==
    ASSUME job \in [Jobs -> JobType], NEW j \in Jobs, ConnectionError(j)
    PROVE  \/ Moves(j, "waiting") /\ UNCHANGED active
           \/ Moves(j, "releasing") /\ Leaves(j) /\ Outlasted(j)
  <1>1. CASE JobGoto(j, "waiting") /\ UNCHANGED active
    BY <1>1, GotoMoves DEF JobSts
  <1>2. CASE /\ job[j].tries + 1 < MaxAttempts
             /\ job' = [job EXCEPT ![j].st = "waiting", ![j].tries = @ + 1]
             /\ UNCHANGED active
    <2>1. job' = [job EXCEPT ![j] = [job[j] EXCEPT !.st = "waiting", !.tries = @ + 1]]
      BY <1>2
    <2>2. [job[j] EXCEPT !.st = "waiting", !.tries = @ + 1] \in JobType
      BY <1>2, JobTypes
    <2> QED
      BY <1>2, <2>1, <2>2 DEF Moves, JobType
  <1>3. CASE JobGoto(j, "releasing") /\ Leaves(j) /\ Outlasted(j)
    BY <1>3, GotoMoves DEF JobSts
  <1> QED
    BY <1>1, <1>2, <1>3 DEF ConnectionError

(* Which step a task takes, and what else the step does.                   *)
LEMMA SessionMoves ==
    ASSUME job \in [Jobs -> JobType], NEW j \in Jobs
    PROVE  /\ StartSession(j) => Moves(j, "session")
           /\ RetryCall(j) => Moves(j, "calling")
           /\ EndSession(j) => Moves(j, "answered")
           /\ CloseChild(j) => Moves(j, "releasing")
           /\ TimeOutCall(j) => Moves(j, "releasing")
           /\ HangSession(j) => Moves(j, "hung")
  BY GotoMoves
  DEF StartSession, RetryCall, EndSession, CloseChild, TimeOutCall, HangSession, JobSts

LEMMA MovesKeepBundled ==
    ASSUME TypeInv, NEW j \in Jobs, NEW l, Moves(j, l), Taken(j), UNCHANGED poll
    PROVE  Bundled'
  <1>1. \A i \in Jobs : /\ Taken(i)' => Taken(i)
                        /\ job'[i].pid = job[i].pid
                        /\ job'[i].key = job[i].key
                        /\ job'[i].items = job[i].items
    BY DEF Moves, Taken
  <1>2. \A i \in Jobs : Taken(i)' =>
          /\ job'[i].pid \in Pids
          /\ job'[i].key \in Keys
          /\ job'[i].items # {}
          /\ \A d \in job'[i].items : KeyOf[d] = job'[i].key
    <2> SUFFICES ASSUME NEW i \in Jobs, Taken(i)'
                 PROVE  /\ job'[i].pid \in Pids
                        /\ job'[i].key \in Keys
                        /\ job'[i].items # {}
                        /\ \A d \in job'[i].items : KeyOf[d] = job'[i].key
      OBVIOUS
    <2>1. Taken(i) /\ job'[i].pid = job[i].pid /\ job'[i].key = job[i].key /\ job'[i].items = job[i].items
      BY <1>1
    <2> QED
      BY <2>1 DEF TypeInv, Bundled
  <1>3. \A s \in Pids \X Polls :
          /\ poll'[s].todo \subseteq {KeyOf[d] : d \in poll'[s].seen}
          /\ poll'[s].pc \in Claimings =>
                /\ poll'[s].key \in Keys
                /\ Bundle(poll'[s].seen, poll'[s].key) # {}
    BY DEF TypeInv, Bundled
  <1> QED
    BY <1>2, <1>3 DEF Bundled

LEMMA PollStepKeepsTypes ==
    ASSUME TypeInv, NEW p \in Pids, NEW i \in Polls, NEW r \in PollType,
           poll' = [poll EXCEPT ![<<p, i>>] = r],
           r.todo \subseteq {KeyOf[d] : d \in r.seen},
           r.pc \in Claimings => r.key \in Keys /\ Bundle(r.seen, r.key) # {},
           UNCHANGED <<inbox, claim, active, job, orphans, recent, evicted, starts>>
    PROVE  PoolTypeOK' /\ Bundled'
  <1>1. poll \in [Pids \X Polls -> PollType] /\ poll' \in [Pids \X Polls -> PollType]
    BY PoolTypes DEF TypeInv, TypeOK
  <1>2. PoolTypeOK'
    BY <1>1 DEF TypeInv, TypeOK, PoolTypeOK, PollType
  <1>3. ASSUME NEW s \in Pids \X Polls
        PROVE  /\ poll'[s].todo \subseteq {KeyOf[d] : d \in poll'[s].seen}
               /\ poll'[s].pc \in Claimings =>
                    poll'[s].key \in Keys /\ Bundle(poll'[s].seen, poll'[s].key) # {}
    <2>1. CASE s = <<p, i>>
      BY <1>1, <2>1
    <2>2. CASE s # <<p, i>>
      BY <1>1, <2>2 DEF TypeInv, Bundled
    <2> QED
      BY <2>1, <2>2
  <1> QED
    BY <1>2, <1>3 DEF TypeInv, Bundled, Taken

(* A poll keeps what it has seen when it only goes on.                     *)
LEMMA GotoKeepsPolls ==
    ASSUME TypeInv, NEW p \in Pids, NEW i \in Polls, NEW l \in PollPCs, PollGoto(<<p, i>>, l),
           poll[<<p, i>>].pc \in Claimings
    PROVE  /\ poll' \in [Pids \X Polls -> PollType]
           /\ \A s \in Pids \X Polls :
                 /\ poll'[s].todo \subseteq {KeyOf[d] : d \in poll'[s].seen}
                 /\ poll'[s].pc \in Claimings =>
                      poll'[s].key \in Keys /\ Bundle(poll'[s].seen, poll'[s].key) # {}
  <1>1. poll \in [Pids \X Polls -> PollType] /\ <<p, i>> \in Pids \X Polls
    BY PoolTypes DEF TypeInv, TypeOK
  <1>2. poll' = [poll EXCEPT ![<<p, i>>] = [poll[<<p, i>>] EXCEPT !.pc = l]]
    BY <1>1 DEF PollGoto
  <1>3. [poll[<<p, i>>] EXCEPT !.pc = l] \in PollType
    BY <1>1, PollTypes
  <1>4. poll' \in [Pids \X Polls -> PollType]
    BY <1>1, <1>2, <1>3
  <1>5. \A s \in Pids \X Polls :
           /\ poll'[s].todo = poll[s].todo
           /\ poll'[s].seen = poll[s].seen
           /\ poll'[s].key = poll[s].key
           /\ poll'[s].pc \in Claimings => poll[s].pc \in Claimings
    <2> SUFFICES ASSUME NEW s \in Pids \X Polls
                 PROVE  /\ poll'[s].todo = poll[s].todo
                        /\ poll'[s].seen = poll[s].seen
                        /\ poll'[s].key = poll[s].key
                        /\ poll'[s].pc \in Claimings => poll[s].pc \in Claimings
      OBVIOUS
    <2>1. CASE s = <<p, i>>
      <3>1. poll'[s] = [poll[s] EXCEPT !.pc = l] /\ poll[s] \in PollType
        BY <1>1, <1>2, <2>1
      <3> QED
        BY <2>1, <3>1 DEF PollType
    <2>2. CASE s # <<p, i>>
      BY <1>1, <1>2, <2>2
    <2> QED
      BY <2>1, <2>2
  <1>6. ASSUME NEW s \in Pids \X Polls
        PROVE  /\ poll[s].todo \subseteq {KeyOf[d] : d \in poll[s].seen}
               /\ poll[s].pc \in Claimings =>
                    poll[s].key \in Keys /\ Bundle(poll[s].seen, poll[s].key) # {}
    BY DEF TypeInv, Bundled
  <1> QED
    BY <1>4, <1>5, <1>6

LEMMA PollingTypes ==
    ASSUME TypeInv, NEW p \in Pids, NEW i \in Polls, Polling(p, i)
    PROVE  PoolTypeOK' /\ Bundled'
  <1> DEFINE s == <<p, i>>
  <1>0. s \in Pids \X Polls /\ poll \in [Pids \X Polls -> PollType] /\ poll[s] \in PollType
    BY PoolTypes DEF TypeInv, TypeOK
  <1>1. CASE StartPoll(p, i)
    <2> DEFINE S == Collapsed({d \in Deliveries : inbox[d] = "unread"})
               r == [pc |-> "loop", seen |-> S, todo |-> {KeyOf[d] : d \in S},
                     key |-> NoKey, began |-> active[p]]
    <2>1. S \subseteq Deliveries
      BY DEF Collapsed
    <2>2. r \in PollType
      <3>1. active[p] \subseteq Keys
        BY DEF TypeInv, TypeOK, PoolTypeOK
      <3> HIDE DEF S
      <3>2. {KeyOf[d] : d \in S} \subseteq Keys
        BY <2>1
      <3> QED
        BY <2>1, <3>1, <3>2 DEF PollType, PollPCs
    <2>3. poll' = [poll EXCEPT ![<<p, i>>] = r]
      BY <1>1 DEF StartPoll
    <2>4. r.todo \subseteq {KeyOf[d] : d \in r.seen} /\ r.pc \notin Claimings
      BY DEF Claimings
    <2>5. UNCHANGED <<inbox, claim, active, job, orphans, recent, evicted, starts>>
      BY <1>1 DEF StartPoll
    <2> HIDE DEF r
    <2> QED
      BY <2>2, <2>3, <2>4, <2>5, PollStepKeepsTypes
  <1>2. CASE NextTask(p, i)
    <2>1. UNCHANGED <<inbox, claim, active, job, orphans, recent, evicted, starts>>
      BY <1>2 DEF NextTask
    <2>2. CASE poll' = [poll EXCEPT ![<<p, i>>] = NoPoll]
      <3>1. NoPoll.todo \subseteq {KeyOf[d] : d \in NoPoll.seen} /\ NoPoll.pc \notin Claimings
        BY DEF NoPoll, Claimings
      <3> QED
        BY <2>1, <2>2, <3>1, PollTypes, PollStepKeepsTypes
    <2>3. ASSUME NEW k \in poll[s].todo, NEW l \in {"loop", "open"}, k \in Keys,
                 poll' = [poll EXCEPT ![<<p, i>>] =
                            [poll[<<p, i>>] EXCEPT !.todo = @ \ {k}, !.key = k, !.pc = l]]
          PROVE  PoolTypeOK' /\ Bundled'
      <3> DEFINE r == [poll[<<p, i>>] EXCEPT !.todo = @ \ {k}, !.key = k, !.pc = l]
      <3>1. r \in PollType
        BY <1>0, <2>3, PollTypes DEF PollPCs
      <3>2. r.seen = poll[s].seen /\ r.todo \subseteq poll[s].todo /\ r.key = k
        BY <1>0 DEF PollType
      <3>3. poll[s].todo \subseteq {KeyOf[d] : d \in poll[s].seen}
        BY <1>0 DEF TypeInv, Bundled
      <3>4. Bundle(poll[s].seen, k) # {}
        BY <3>3 DEF Bundle
      <3> HIDE DEF r
      <3>5. poll' = [poll EXCEPT ![<<p, i>>] = r]
        BY <2>3 DEF r
      <3>6. r.todo \subseteq {KeyOf[d] : d \in r.seen}
        BY <3>2, <3>3
      <3>7. r.key \in Keys /\ Bundle(r.seen, r.key) # {}
        BY <2>3, <3>2, <3>4
      <3> QED
        BY <2>1, <3>1, <3>5, <3>6, <3>7, PollStepKeepsTypes
    <2>4. CASE \E k \in poll[<<p, i>>].todo, l \in {"loop", "open"} :
                 /\ poll' = [poll EXCEPT ![<<p, i>>] =
                              [poll[<<p, i>>] EXCEPT !.todo = @ \ {k}, !.key = k, !.pc = l]]
                 /\ k \in Keys
      BY <2>3, <2>4
    <2> QED
      BY <1>2, <2>2, <2>4, NextTaskMakes
  <1>3. ASSUME NEW l \in PollPCs, PollGoto(s, l), poll[s].pc \in Claimings,
               claim' \in [Keys -> ClaimType],
               UNCHANGED <<inbox, active, job, orphans, recent, evicted, starts>>
        PROVE  PoolTypeOK' /\ Bundled'
    <2>1. poll' \in [Pids \X Polls -> PollType]
      BY <1>3, GotoKeepsPolls
    <2>2. PoolTypeOK'
      BY <1>3, <2>1 DEF TypeInv, TypeOK, PoolTypeOK, PollType, ClaimType
    <2>3. Bundled'
      BY <1>3, GotoKeepsPolls DEF TypeInv, Bundled, Taken
    <2> QED
      BY <2>2, <2>3
  <1>4. claim \in [Keys -> ClaimType]
    BY PoolTypes DEF TypeInv, TypeOK
  <1>5. CASE OpenClaim(p, i)
    <2>1. claim' \in [Keys -> ClaimType]
      BY <1>4, <1>5, ClaimTypes DEF OpenClaim
    <2> QED
      BY <1>3, <1>5, <2>1 DEF OpenClaim, Claimings, PollPCs
  <1>6. CASE InspectClaim(p, i)
    BY <1>3, <1>4, <1>6 DEF InspectClaim, Claimings, PollPCs
  <1>7. CASE RemoveClaim(p, i)
    <2>1. claim' \in [Keys -> ClaimType]
      BY <1>4, <1>7, ClaimTypes DEF RemoveClaim
    <2> QED
      BY <1>3, <1>7, <2>1 DEF RemoveClaim, Claimings, PollPCs
  <1>8. CASE WriteClaim(p, i)
    <2> DEFINE k == poll[s].key
               new == [st |-> "calling", pid |-> p, key |-> k,
                       items |-> Bundle(poll[s].seen, k), tries |-> 0]
    <2>1. k \in Keys /\ Bundle(poll[s].seen, k) # {} /\ Bundle(poll[s].seen, k) \subseteq Deliveries
      BY <1>0, <1>8 DEF WriteClaim, TypeInv, Bundled, Claimings, Bundle, PollType
    <2>2. claim' \in [Keys -> ClaimType]
      BY <1>4, <1>8, <2>1, ClaimTypes DEF WriteClaim
    <2>3. PollGoto(s, "loop") /\ poll[s].pc \in Claimings
      BY <1>8 DEF WriteClaim, Claimings
    <2>4. /\ poll' \in [Pids \X Polls -> PollType]
          /\ \A t \in Pids \X Polls :
                 /\ poll'[t].todo \subseteq {KeyOf[d] : d \in poll'[t].seen}
                 /\ poll'[t].pc \in Claimings =>
                      poll'[t].key \in Keys /\ Bundle(poll'[t].seen, poll'[t].key) # {}
      BY <2>3, GotoKeepsPolls DEF PollPCs
    <2>5. CASE UNCHANGED <<active, job>>
      <3>1. PoolTypeOK'
        BY <1>8, <2>2, <2>4, <2>5
        DEF WriteClaim, TypeInv, TypeOK, PoolTypeOK, PollType, ClaimType
      <3> QED
        BY <2>4, <2>5, <3>1 DEF TypeInv, Bundled, Taken
    <2>6. CASE /\ FreeJobs # {}
               /\ active' = [active EXCEPT ![p] = @ \cup {k}]
               /\ job' = [job EXCEPT ![FirstFree] = new]
      <3>1. job \in [Jobs -> JobType]
        BY PoolTypes DEF TypeInv, TypeOK
      <3>2. new \in JobType
        BY <2>1, JobTypes
      <3>3. job' \in [Jobs -> JobType]
        BY <2>6, <3>1, <3>2
      <3>4. active' \in [Pids -> SUBSET Keys]
        BY <2>1, <2>6 DEF TypeInv, TypeOK, PoolTypeOK
      <3>5. PoolTypeOK'
        BY <1>8, <2>2, <2>4, <3>3, <3>4
        DEF WriteClaim, TypeInv, TypeOK, PoolTypeOK, PollType, ClaimType, JobType
      <3>6. \A d \in Bundle(poll[s].seen, k) : KeyOf[d] = k
        BY DEF Bundle
      <3>7. \A j \in Jobs : job'[j] = job[j] \/ job'[j] = new
        BY <2>6, <3>1
      <3>8. new.pid = p /\ new.key = k /\ new.items = Bundle(poll[s].seen, k)
        OBVIOUS
      <3> HIDE DEF new, k
      <3>9. \A j \in Jobs : Taken(j)' =>
               /\ job'[j].pid \in Pids
               /\ job'[j].key \in Keys
               /\ job'[j].items # {}
               /\ \A d \in job'[j].items : KeyOf[d] = job'[j].key
        BY <2>1, <3>6, <3>7, <3>8 DEF TypeInv, Bundled, Taken
      <3> QED
        BY <2>4, <3>5, <3>9 DEF Bundled
    <2> QED
      BY <1>8, <2>5, <2>6 DEF WriteClaim, FirstFree
  <1> QED
    BY <1>1, <1>2, <1>5, <1>6, <1>7, <1>8 DEF Polling

(* The list of recent tasks stays a list, and a short one.                 *)
LEMMA RememberedType ==
    ASSUME NEW p \in Pids, recent[p] \in Seq(Deliveries), NEW d \in Deliveries
    PROVE  /\ Remembered(p, d) \in Seq(Deliveries)
           /\ Len(Remembered(p, d)) <= MaxRecent
  <1> DEFINE s  == recent[p]
             at == IF RecentlyHandled(p, d) THEN CHOOSE i \in 1 .. Len(s) : s[i] = d
                   ELSE Len(s) + 1
             t  == <<d>> \o SubSeq(s, 1, at - 1) \o SubSeq(s, at + 1, Len(s))
  <1>1. at \in 1 .. Len(s) + 1
    <2>0. Len(s) \in Nat
      OBVIOUS
    <2>1. CASE RecentlyHandled(p, d)
      BY <2>0, <2>1 DEF RecentlyHandled
    <2>2. CASE ~RecentlyHandled(p, d)
      BY <2>0, <2>2
    <2> QED
      BY <2>1, <2>2
  <1> HIDE DEF at
  <1>2. SubSeq(s, 1, at - 1) \in Seq(Deliveries) /\ SubSeq(s, at + 1, Len(s)) \in Seq(Deliveries)
    BY <1>1, SubSeqProperties
  <1>3. t \in Seq(Deliveries)
    BY <1>2
  <1> HIDE DEF t
  <1>4. MaxRecent \in Nat
    OBVIOUS
  <1>5. Len(t) > MaxRecent =>
          /\ SubSeq(t, 1, MaxRecent) \in Seq(Deliveries)
          /\ Len(SubSeq(t, 1, MaxRecent)) = MaxRecent
    BY <1>3, <1>4
  <1>6. Remembered(p, d) = IF Len(t) > MaxRecent THEN SubSeq(t, 1, MaxRecent) ELSE t
    BY DEF Remembered, t, at
  <1>7. Len(t) \in Nat
    BY <1>3
  <1> QED
    BY <1>3, <1>4, <1>5, <1>6, <1>7

LEMMA ArchiveTypes ==
    ASSUME TypeInv, NEW S, Archive(S)
    PROVE  inbox' \in [Deliveries -> {"absent", "unread", "archived"}]
  BY DEF Archive, TypeInv, TypeOK, PoolTypeOK

LEMMA LeavesTypes ==
    ASSUME TypeInv, NEW j \in Jobs, Leaves(j)
    PROVE  active' \in [Pids -> SUBSET Keys]
  BY DEF Leaves, TypeInv, TypeOK, PoolTypeOK

LEMMA TaskIdIsOne ==
    ASSUME TypeInv, NEW j \in Jobs, Taken(j)
    PROVE  /\ TaskId(job[j].items) \in Deliveries
           /\ TaskId(job[j].items) \in job[j].items
           /\ KeyOf[TaskId(job[j].items)] = job[j].key
  <1>1. job[j].items # {} /\ job[j].items \subseteq Deliveries
    BY PoolTypes DEF TypeInv, TypeOK, Bundled, JobType
  <1> QED
    BY <1>1, BestIsOne DEF TaskId, TypeInv, Bundled

(* The steps of a task.                                                    *)
LEMMA TaskStepTypes ==
    ASSUME TypeInv, NEW j \in Jobs, Serving(j) \/ Failing(j)
    PROVE  PoolTypeOK' /\ Bundled'
  <1>0. job \in [Jobs -> JobType] /\ claim \in [Keys -> ClaimType]
    BY PoolTypes DEF TypeInv, TypeOK
  <1> DEFINE Others ==
               /\ inbox' \in [Deliveries -> {"absent", "unread", "archived"}]
               /\ claim' \in [Keys -> ClaimType]
               /\ active' \in [Pids -> SUBSET Keys]
               /\ orphans' \subseteq [pid : Pids, items : SUBSET Deliveries]
               /\ recent' \in [Pids -> Seq(Deliveries)]
               /\ starts' \in [Deliveries -> Nat]
               /\ UNCHANGED <<poll, evicted>>
  <1>1. ASSUME NEW l \in JobSts, Moves(j, l), Taken(j), Others PROVE PoolTypeOK' /\ Bundled'
    <2>1. Bundled'
      BY <1>1, MovesKeepBundled
    <2>2. job' \in [Jobs -> JobType]
      BY <1>1 DEF Moves
    <2> QED
      BY <1>1, <2>1, <2>2 DEF TypeInv, TypeOK, PoolTypeOK, ClaimType, JobType
  <1>2. Taken(j) => [pid |-> job[j].pid, items |-> job[j].items] \in [pid : Pids, items : SUBSET Deliveries]
    BY <1>0 DEF TypeInv, Bundled, JobType
  <1>3. inbox \in [Deliveries -> {"absent", "unread", "archived"}]
        /\ active \in [Pids -> SUBSET Keys]
        /\ orphans \subseteq [pid : Pids, items : SUBSET Deliveries]
        /\ recent \in [Pids -> Seq(Deliveries)]
        /\ starts \in [Deliveries -> Nat]
    BY DEF TypeInv, TypeOK, PoolTypeOK
  <1>4. CASE StartSession(j)
    <2>1. Taken(j) /\ Moves(j, "session")
      BY <1>0, <1>4, SessionMoves DEF StartSession, Taken
    <2>2. starts' \in [Deliveries -> Nat]
      <3>1. TaskId(job[j].items) \in Deliveries
        BY <2>1, TaskIdIsOne
      <3>2. starts' = [starts EXCEPT ![TaskId(job[j].items)] = @ + 1]
        BY <1>4 DEF StartSession
      <3> QED
        BY <1>3, <3>1, <3>2
    <2>3. Others
      BY <1>0, <1>3, <1>4, <2>2 DEF StartSession
    <2> QED
      BY <1>1, <2>1, <2>3 DEF JobSts
  <1>5. CASE RetryCall(j)
    <2>1. Taken(j) /\ Moves(j, "calling") /\ Others
      BY <1>0, <1>3, <1>5, SessionMoves DEF RetryCall, Taken
    <2> QED
      BY <1>1, <2>1 DEF JobSts
  <1>6. CASE EndSession(j)
    <2>1. Taken(j) /\ Moves(j, "answered")
      BY <1>0, <1>6, SessionMoves DEF EndSession, Taken
    <2>2. Others
      BY <1>0, <1>3, <1>6, ArchiveTypes DEF EndSession
    <2> QED
      BY <1>1, <2>1, <2>2 DEF JobSts
  <1>7. CASE CloseChild(j)
    <2>1. Taken(j) /\ Moves(j, "releasing")
      BY <1>0, <1>7, SessionMoves DEF CloseChild, Taken
    <2>2. job[j].pid \in Pids
      BY <2>1 DEF TypeInv, Bundled
    <2>3. TaskId(job[j].items) \in Deliveries
      BY <2>1, TaskIdIsOne
    <2>4. Remembered(job[j].pid, TaskId(job[j].items)) \in Seq(Deliveries)
      BY <1>3, <2>2, <2>3, RememberedType
    <2>5. recent' \in [Pids -> Seq(Deliveries)]
      BY <1>3, <1>7, <2>4 DEF CloseChild
    <2>6. active' \in [Pids -> SUBSET Keys]
      BY <1>7, LeavesTypes DEF CloseChild
    <2>7. Others
      BY <1>0, <1>3, <1>7, <2>5, <2>6 DEF CloseChild
    <2> QED
      BY <1>1, <2>1, <2>7 DEF JobSts
  <1>8. CASE ReleaseClaim(j)
    <2>1. claim' \in [Keys -> ClaimType]
      BY <1>0, <1>8, ClaimTypes DEF ReleaseClaim
    <2>2. job' \in [Jobs -> JobType] /\ \A i \in Jobs : job'[i] = job[i] \/ job'[i] = NoJob
      BY <1>0, <1>8, JobTypes DEF ReleaseClaim
    <2>3. PoolTypeOK'
      BY <1>8, <2>1, <2>2 DEF ReleaseClaim, TypeInv, TypeOK, PoolTypeOK, ClaimType, JobType
    <2>4. \A i \in Jobs : Taken(i)' => Taken(i) /\ job'[i] = job[i]
      BY <2>2 DEF Taken, NoJob
    <2>5. UNCHANGED poll
      BY <1>8 DEF ReleaseClaim
    <2> QED
      BY <2>3, <2>4, <2>5 DEF TypeInv, Bundled
  <1>9. CASE RefuseCall(j)
    <2>1. Taken(j) /\ ConnectionError(j)
      BY <1>9 DEF RefuseCall, Taken
    <2>2. Others
      BY <1>0, <1>3, <1>9, <2>1, LeavesTypes, ErrorMoves DEF RefuseCall
    <2> QED
      BY <1>0, <1>1, <2>1, <2>2, ErrorMoves DEF JobSts
  <1>10. CASE DropCall(j)
    <2>1. Taken(j) /\ ConnectionError(j)
      BY <1>10 DEF DropCall, Taken
    <2>2. Others
      BY <1>0, <1>2, <1>3, <1>10, <2>1, LeavesTypes, ErrorMoves DEF DropCall
    <2> QED
      BY <1>0, <1>1, <2>1, <2>2, ErrorMoves DEF JobSts
  <1>11. CASE TimeOutCall(j)
    <2>1. Taken(j) /\ Moves(j, "releasing")
      BY <1>0, <1>11, SessionMoves DEF TimeOutCall, Taken
    <2>2. Others
      BY <1>0, <1>2, <1>3, <1>11, <2>1, LeavesTypes DEF TimeOutCall
    <2> QED
      BY <1>1, <2>1, <2>2 DEF JobSts
  <1>12. CASE HangSession(j)
    <2>1. Taken(j) /\ Moves(j, "hung") /\ Others
      BY <1>0, <1>3, <1>12, SessionMoves DEF HangSession, Taken
    <2> QED
      BY <1>1, <2>1 DEF JobSts
  <1> QED
    BY <1>4, <1>5, <1>6, <1>7, <1>8, <1>9, <1>10, <1>11, <1>12 DEF Serving, Failing

LEMMA PoolTypeNext == TypeInv /\ Next => PoolTypeOK' /\ Bundled'
  <1> SUFFICES ASSUME TypeInv, Next PROVE PoolTypeOK' /\ Bundled'
    OBVIOUS
  <1>1. ASSUME UNCHANGED poolVars PROVE PoolTypeOK' /\ Bundled'
    BY <1>1 DEF poolVars, TypeInv, TypeOK, PoolTypeOK, Bundled, Taken
  <1>2. CASE LeaseStep
    BY <1>1, <1>2 DEF LeaseStep
  <1>3. ASSUME NEW p \in Pids, LeaseAcquired(p) PROVE PoolTypeOK' /\ Bundled'
    <2>1. claim \in [Keys -> ClaimType]
      BY PoolTypes DEF TypeInv, TypeOK
    <2>2. claim' \in [Keys -> ClaimType]
      BY <1>3, <2>1, ClaimTypes DEF LeaseAcquired
    <2> QED
      BY <1>3, <2>2 DEF LeaseAcquired, TypeInv, TypeOK, PoolTypeOK, ClaimType, Bundled, Taken
  <1>4. ASSUME NEW p \in Pids, ProcessEnds(p) PROVE PoolTypeOK' /\ Bundled'
    <2>1. poll' \in [Pids \X Polls -> PollType]
      BY <1>4, PoolTypes, PollTypes DEF ProcessEnds, TypeInv, TypeOK
    <2>2. job' \in [Jobs -> JobType]
      BY <1>4, PoolTypes, JobTypes DEF ProcessEnds, TypeInv, TypeOK
    <2>3. recent' \in [Pids -> Seq(Deliveries)]
      <3>1. <<>> \in Seq(Deliveries) /\ recent \in [Pids -> Seq(Deliveries)]
        BY DEF TypeInv, TypeOK, PoolTypeOK
      <3> QED
        BY <1>4, <3>1 DEF ProcessEnds
    <2>4. PoolTypeOK'
      BY <1>4, <2>1, <2>2, <2>3
      DEF ProcessEnds, TypeInv, TypeOK, PoolTypeOK, PollType, JobType
    <2>5. \A s \in Pids \X Polls : poll'[s] = poll[s] \/ poll'[s] = NoPoll
      BY <1>4 DEF ProcessEnds
    <2>6. \A j \in Jobs : job'[j] = job[j] \/ job'[j] = NoJob
      BY <1>4 DEF ProcessEnds
    <2>7. \A j \in Jobs : Taken(j)' => Taken(j) /\ job'[j] = job[j]
      BY <2>6 DEF Taken, NoJob
    <2>8. /\ NoPoll.todo \subseteq {KeyOf[d] : d \in NoPoll.seen}
          /\ NoPoll.pc \notin Claimings
      BY DEF NoPoll, Claimings
    <2>9. ASSUME NEW s \in Pids \X Polls
          PROVE  /\ poll'[s].todo \subseteq {KeyOf[d] : d \in poll'[s].seen}
                 /\ poll'[s].pc \in Claimings =>
                      poll'[s].key \in Keys /\ Bundle(poll'[s].seen, poll'[s].key) # {}
      <3>1. CASE poll'[s] = poll[s]
        BY <3>1 DEF TypeInv, Bundled
      <3> QED
        BY <2>5, <2>8, <3>1
    <2> QED
      BY <2>4, <2>7, <2>9 DEF TypeInv, Bundled
  <1>5. ASSUME NEW p \in Pids, ForgetTask(p) PROVE PoolTypeOK' /\ Bundled'
    <2>1. recent[p] \in Seq(Deliveries) /\ recent[p] # <<>>
      BY <1>5 DEF ForgetTask, TypeInv, TypeOK, PoolTypeOK
    <2>2. SubSeq(recent[p], 1, Len(recent[p]) - 1) \in Seq(Deliveries)
      BY <2>1
    <2>3. recent' \in [Pids -> Seq(Deliveries)]
      BY <1>5, <2>2 DEF ForgetTask, TypeInv, TypeOK, PoolTypeOK
    <2> QED
      BY <1>5, <2>3 DEF ForgetTask, TypeInv, TypeOK, PoolTypeOK, Bundled, Taken
  <1>6. ASSUME NEW p \in Pids, NEW i \in Polls, Polling(p, i) PROVE PoolTypeOK' /\ Bundled'
    BY <1>6, PollingTypes
  <1>7. ASSUME NEW p \in Pids, NEW k \in Keys, WatchdogEvicts(p, k)
        PROVE  PoolTypeOK' /\ Bundled'
    BY <1>7 DEF WatchdogEvicts, TypeInv, TypeOK, PoolTypeOK, Bundled, Taken
  <1>8. ASSUME NEW j \in Jobs, Serving(j) \/ Failing(j) PROVE PoolTypeOK' /\ Bundled'
    BY <1>8, TaskStepTypes
  <1>9. ASSUME NEW o \in orphans, EndOrphan(o) PROVE PoolTypeOK' /\ Bundled'
    BY <1>9, ArchiveTypes DEF EndOrphan, TypeInv, TypeOK, PoolTypeOK, Bundled, Taken
  <1>10. ASSUME NEW k \in Keys, ClaimAges(k) PROVE PoolTypeOK' /\ Bundled'
    <2>1. claim \in [Keys -> ClaimType]
      BY PoolTypes DEF TypeInv, TypeOK
    <2>2. claim' = [claim EXCEPT ![k] = [claim[k] EXCEPT !.st = "aged"]]
      BY <1>10, <2>1 DEF ClaimAges
    <2>3. claim' \in [Keys -> ClaimType]
      BY <2>1, <2>2, ClaimTypes
    <2> QED
      BY <1>10, <2>3 DEF ClaimAges, TypeInv, TypeOK, PoolTypeOK, ClaimType, Bundled, Taken
  <1>11. ASSUME NEW d \in Deliveries, Arrive(d) PROVE PoolTypeOK' /\ Bundled'
    BY <1>11 DEF Arrive, TypeInv, TypeOK, PoolTypeOK, Bundled, Taken
  <1> QED
    BY <1>2, <1>3, <1>4, <1>5, <1>6, <1>7, <1>8, <1>9, <1>10, <1>11 DEF Next

(* A step of the bridge outside the lease may count a fault.               *)
LEMMA LeaseTypeStays == LeaseTypeOK /\ Next => LeaseTypeOK'
  <1> SUFFICES ASSUME LeaseTypeOK, Next PROVE LeaseTypeOK'
    OBVIOUS
  <1>1. ASSUME UNCHANGED processVars,
               \/ UNCHANGED <<faults, budget>>
               \/ \E f \in FaultKinds : Fault(f)
        PROVE  LeaseTypeOK'
    <2>1. faults' \subseteq FaultKinds /\ budget' \in 0 .. MaxFaults
      BY <1>1 DEF LeaseTypeOK, Fault
    <2> QED
      BY <1>1, <2>1 DEF LeaseTypeOK, processVars
  <1>2. ASSUME NEW j \in Jobs, Serving(j) \/ Failing(j) PROVE LeaseTypeOK'
    BY <1>1, <1>2
    DEF Serving, StartSession, RetryCall, EndSession, Archive, CloseChild, ReleaseClaim,
        Failing, RefuseCall, DropCall, TimeOutCall, HangSession, FaultKinds, leaseVars,
        processVars
  <1>3. ASSUME NEW p \in Pids, NEW i \in Polls, Polling(p, i) PROVE LeaseTypeOK'
    BY <1>1, <1>3
    DEF Polling, StartPoll, NextTask, OpenClaim, InspectClaim, RemoveClaim, WriteClaim,
        leaseVars, processVars
  <1>4. CASE LeaseStep
    BY <1>4, LeaseTypeNext DEF LeaseStep, LeaseNext
  <1>5. ASSUME NEW p \in Pids, LeaseAcquired(p) \/ ProcessEnds(p) PROVE LeaseTypeOK'
    BY <1>5, LeaseTypeNext DEF LeaseAcquired, ProcessEnds, LeaseNext
  <1>6. ASSUME NEW p \in Pids, NEW k \in Keys, WatchdogEvicts(p, k) PROVE LeaseTypeOK'
    BY <1>1, <1>6 DEF WatchdogEvicts, FaultKinds
  <1>7. ASSUME NEW o \in orphans, EndOrphan(o) PROVE LeaseTypeOK'
    BY <1>1, <1>7 DEF EndOrphan, Archive, FaultKinds
  <1>8. ASSUME UNCHANGED leaseVars PROVE LeaseTypeOK'
    BY <1>1, <1>8 DEF leaseVars, processVars
  <1> QED
    BY <1>2, <1>3, <1>4, <1>5, <1>6, <1>7, <1>8
    DEF Next, ForgetTask, ClaimAges, Arrive

LEMMA TypeInvNext == TypeInv /\ [Next]_vars => TypeInv'
  <1> SUFFICES ASSUME TypeInv, [Next]_vars PROVE TypeInv'
    OBVIOUS
  <1>1. CASE Next
    BY <1>1, PoolTypeNext, LeaseTypeStays DEF TypeInv, TypeOK
  <1>2. CASE UNCHANGED vars
    BY <1>2
    DEF vars, leaseVars, poolVars, TypeInv, TypeOK, LeaseTypeOK, PoolTypeOK, Bundled, Taken
  <1> QED
    BY <1>1, <1>2

(* The variables of the bridge keep their types: a task's attempts never   *)
(* exceed the limit of the gateway calls, the list of recent tasks stays a *)
(* list of tasks, and every poll and every task is about deliveries it has.*)
THEOREM TypeCorrect == Spec => []TypeOK
  <1>1. TypeInv => TypeOK
    BY DEF TypeInv
  <1> QED
    BY <1>1, TypeInvInit, TypeInvNext, PTL DEF Spec

-----------------------------------------------------------------------------
(* The claims.  Which polls of process p are at key k, and how far.        *)
At(p, i, k, pcs) == poll[<<p, i>>].key = k /\ poll[<<p, i>>].pc \in pcs
SomeAt(p, k, pcs) == \E i \in Polls : At(p, i, k, pcs)
NoTask(k) == \A j \in Jobs : Taken(j) => job[j].key # k
Own(p, st) == [st |-> st, pid |-> p, prev |-> FALSE]

(* A claim that is kept: nobody is about to remove or to write it.         *)
Kept(p, k) == claim[k] = Own(p, "held") /\ ~SomeAt(p, k, {"remove", "write"})

(* A key whose old claims are gone: nobody removes what somebody made.     *)
Clean(p, k) ==
    \/ /\ claim[k].st = "none"
       /\ ~SomeAt(p, k, {"remove", "write"})
       /\ NoTask(k)
    \/ /\ claim[k] = Own(p, "empty")
       /\ ~SomeAt(p, k, {"remove"})
       /\ SomeAt(p, k, {"write"})
       /\ \A i, l \in Polls : At(p, i, k, {"write"}) /\ At(p, l, k, {"write"}) => i = l
       /\ NoTask(k)
    \/ Kept(p, k)

(* Only the owner of the lease polls and has tasks.                        *)
OnlyOwnersWork == \A p \in Pids : ~owner[p] =>
    /\ active[p] = {}
    /\ \A i \in Polls : poll[<<p, i>>] = NoPoll
    /\ \A j \in Jobs : Taken(j) => job[j].pid # p

OneTaskPerKey ==
    \A i, j \in Jobs : Taken(i) /\ Taken(j) /\ job[i].key = job[j].key => i = j

(* A key with a task, or with a poll that writes its claim, has a claim of *)
(* the process, or a poll of the process is about to create it.            *)
Wanted(p, k) ==
    \/ SomeAt(p, k, {"write"})
    \/ \E j \in Jobs : Taken(j) /\ job[j].key = k /\ job[j].pid = p

ClaimsAreOwn == \A p \in Pids, k \in Keys : Wanted(p, k) =>
    \/ claim[k].st = "none" /\ SomeAt(p, k, {"open"})
    \/ claim[k] = Own(p, "empty") /\ SomeAt(p, k, {"write"})
    \/ claim[k] = Own(p, "held")

(* While a claim may still be lost to a poll that saw an older one, its    *)
(* task is in the pool and does not end.                                   *)
Unanswered == {"calling", "waiting", "session", "hung"}
TasksWait == \A j \in Jobs : Taken(j) =>
    \/ Kept(job[j].pid, job[j].key)
    \/ job[j].key \in active[job[j].pid] /\ job[j].st \in Unanswered

(* A key that was in the pool when a poll began is clean once it left the  *)
(* pool, so that the poll never removes its claim.                         *)
CleanOnceLeft == \A p \in Pids, i \in Polls, k \in Keys :
    k \in poll[<<p, i>>].began =>
       /\ k \in active[p] \/ Clean(p, k)
       /\ At(p, i, k, Claimings) => Clean(p, k)

Claims == OnlyOwnersWork /\ OneTaskPerKey /\ ClaimsAreOwn /\ TasksWait /\ CleanOnceLeft

(* Before anybody owns the lease, and when its owner has gone.             *)
Resting ==
    /\ \A p \in Pids, i \in Polls : poll[<<p, i>>] = NoPoll
    /\ \A j \in Jobs : ~Taken(j)
    /\ \A p \in Pids : active[p] = {}

LEMMA ClaimsAtRest == Resting => Claims
  <1> SUFFICES ASSUME Resting PROVE Claims
    OBVIOUS
  <1>0. ASSUME NEW p \in Pids, NEW i \in Polls
        PROVE  poll[<<p, i>>].pc = "idle" /\ poll[<<p, i>>].began = {}
    <2>1. poll[<<p, i>>] = NoPoll
      BY DEF Resting
    <2> QED
      BY <2>1 DEF NoPoll
  <1>1. \A p \in Pids, k \in Keys : ~Wanted(p, k)
    BY <1>0 DEF Resting, Wanted, SomeAt, At
  <1> QED
    BY <1>0, <1>1
    DEF Resting, Claims, OnlyOwnersWork, OneTaskPerKey, ClaimsAreOwn, TasksWait, CleanOnceLeft

LEMMA RestingAfter == Resting' => Claims'
  BY ClaimsAtRest, PTL

LEMMA ClaimsInit == PoolInit => Claims
  BY ClaimsAtRest DEF PoolInit, Resting, Taken, NoJob

(* Tasks that go on or end, and keys that leave the pool, where the claims *)
(* are kept.                                                               *)
LEMMA ClaimsOfTasks ==
    ASSUME TypeInv, Claims, UNCHANGED <<claim, poll, owner>>,
           \A j \in Jobs : Taken(j)' =>
              /\ Taken(j)
              /\ job'[j].pid = job[j].pid
              /\ job'[j].key = job[j].key
              /\ \/ job'[j].st = job[j].st
                 \/ job'[j].st \in Unanswered
                 \/ Kept(job[j].pid, job[j].key),
           \A p \in Pids : active'[p] \subseteq active[p],
           \A p \in Pids : \A k \in active[p] \ active'[p] : Kept(p, k)
    PROVE  Claims'
  <1>0. \A p \in Pids : \A k : Kept(p, k)' <=> Kept(p, k)
    BY DEF Kept, SomeAt, At
  <1>1. \A k : NoTask(k) => NoTask(k)'
    BY DEF NoTask
  <1>2. \A p \in Pids : \A k : Clean(p, k) => Clean(p, k)'
    BY <1>0, <1>1 DEF Clean, SomeAt, At
  <1>3. OnlyOwnersWork'
    BY DEF Claims, OnlyOwnersWork
  <1>4. OneTaskPerKey'
    BY DEF Claims, OneTaskPerKey
  <1>5. ClaimsAreOwn'
    <2>1. \A p \in Pids, k \in Keys : Wanted(p, k)' => Wanted(p, k)
      BY DEF Wanted, SomeAt, At
    <2> QED
      BY <2>1 DEF Claims, ClaimsAreOwn, SomeAt, At
  <1>6. TasksWait'
    <2> SUFFICES ASSUME NEW j \in Jobs, Taken(j)', ~Kept(job[j].pid, job[j].key)
                 PROVE  job[j].key \in active'[job[j].pid] /\ job'[j].st \in Unanswered
      <3>1. \A j \in Jobs : Taken(j)' => job[j].pid \in Pids
        BY DEF TypeInv, Bundled
      <3> QED
        BY <1>0, <3>1 DEF TasksWait
    <2>1. Taken(j) /\ job[j].pid \in Pids
      BY DEF TypeInv, Bundled
    <2> QED
      BY <2>1 DEF Claims, TasksWait
  <1>7. CleanOnceLeft'
    <2> SUFFICES ASSUME NEW p \in Pids, NEW i \in Polls, NEW k \in Keys, k \in poll[<<p, i>>].began
                 PROVE  /\ k \in active'[p] \/ Clean(p, k)'
                        /\ At(p, i, k, Claimings) => Clean(p, k)'
      BY DEF CleanOnceLeft, At
    <2>1. /\ k \in active[p] \/ Clean(p, k)
          /\ At(p, i, k, Claimings) => Clean(p, k)
      BY DEF Claims, CleanOnceLeft
    <2> QED
      BY <1>2, <2>1 DEF Clean
  <1> QED
    BY <1>3, <1>4, <1>5, <1>6, <1>7 DEF Claims

LEMMA ClaimsStay ==
    ASSUME TypeInv, Claims, UNCHANGED <<claim, poll, active, job, owner>> PROVE Claims'
  BY ClaimsOfTasks DEF Taken

(* Nobody but the owner is anywhere near a claim.                          *)
OneOwner == \A p, q \in Pids : owner[p] /\ owner[q] => p = q

LEMMA OthersIdle ==
    ASSUME OneOwner, OnlyOwnersWork, NEW p \in Pids, owner[p], NEW q \in Pids, q # p
    PROVE  /\ \A k, S : SomeAt(q, k, S) => "idle" \in S
           /\ \A k : ~Wanted(q, k)
           /\ \A i \in Polls : poll[<<q, i>>].began = {}
           /\ active[q] = {}
  <1>1. \A i \in Polls : poll[<<q, i>>].pc = "idle" /\ poll[<<q, i>>].began = {}
    BY DEF OneOwner, OnlyOwnersWork, NoPoll
  <1>2. \A k, S : SomeAt(q, k, S) => "idle" \in S
    BY <1>1 DEF SomeAt, At
  <1>3. \A k : ~SomeAt(q, k, {"write"})
    BY <1>2
  <1> QED
    BY <1>1, <1>2, <1>3 DEF OneOwner, OnlyOwnersWork, Wanted

(* A kept claim is the last thing of its task to go.                       *)
LEMMA ClaimsOfRelease ==
    ASSUME TypeInv, Claims, OneOwner, NEW j \in Jobs, ReleaseClaim(j)
    PROVE  Claims'
  <1>0. PICK p \in Pids, k \in Keys : p = job[j].pid /\ k = job[j].key
    BY DEF ReleaseClaim, Taken, TypeInv, Bundled
  <1>1. Taken(j) /\ Kept(p, k) /\ owner[p]
    BY <1>0 DEF ReleaseClaim, Taken, Claims, TasksWait, Unanswered, OnlyOwnersWork
  <1>2. claim \in [Keys -> ClaimType] /\ job \in [Jobs -> JobType]
    BY PoolTypes DEF TypeInv, TypeOK
  <1>3. claim' = [claim EXCEPT ![k] = NoClaim]
    BY <1>0, <1>1 DEF ReleaseClaim, Kept, Own
  <1>4. /\ ~Taken(j)'
        /\ \A i \in Jobs : Taken(i)' => i # j /\ Taken(i) /\ job'[i] = job[i]
    BY <1>2 DEF ReleaseClaim, Taken, NoJob
  <1>5. UNCHANGED <<poll, active, owner>>
    BY DEF ReleaseClaim, leaseVars
  <1>6. NoTask(k)' /\ \A l : NoTask(l) => NoTask(l)'
    BY <1>0, <1>1, <1>4 DEF NoTask, Claims, OneTaskPerKey
  <1>7. \A q \in Pids : \A l, S : SomeAt(q, l, S)' <=> SomeAt(q, l, S)
    BY <1>5 DEF SomeAt, At
  <1>8. claim'[k].st = "none" /\ \A l \in Keys : l # k => claim'[l] = claim[l]
    BY <1>2, <1>3 DEF NoClaim
  <1>9. \A q \in Pids : ~Wanted(q, k)'
    <2>1. ~SomeAt(p, k, {"write"})
      BY <1>1 DEF Kept, SomeAt, At
    <2>2. \A q \in Pids : ~SomeAt(q, k, {"write"})
      BY <1>1, <2>1, OthersIdle DEF Wanted, Claims
    <2> QED
      BY <1>6, <1>7, <2>2 DEF Wanted, NoTask
  <1>10. Clean(p, k)'
    BY <1>1, <1>6, <1>7, <1>8 DEF Clean, Kept
  <1>11. \A l \in Keys : l # k =>
           /\ Kept(p, l) => Kept(p, l)'
           /\ Clean(p, l) => Clean(p, l)'
    BY <1>5, <1>6, <1>8 DEF Clean, Kept, SomeAt, At
  <1>12. OnlyOwnersWork'
    BY <1>4, <1>5 DEF Claims, OnlyOwnersWork
  <1>13. OneTaskPerKey'
    BY <1>4 DEF Claims, OneTaskPerKey
  <1>14. ClaimsAreOwn'
    <2>1. \A q \in Pids : \A l : Wanted(q, l)' => Wanted(q, l)
      BY <1>4, <1>7 DEF Wanted
    <2> QED
      BY <1>7, <1>8, <1>9, <2>1 DEF Claims, ClaimsAreOwn
  <1>15. TasksWait'
    <2> SUFFICES ASSUME NEW i \in Jobs, Taken(i)'
                 PROVE  (\/ Kept(job[i].pid, job[i].key)
                         \/ job[i].key \in active[job[i].pid] /\ job[i].st \in Unanswered)'
      BY DEF TasksWait
    <2>0. PICK l \in Keys : l = job[i].key
      BY <1>4 DEF TypeInv, Bundled
    <2>1. Taken(i) /\ job'[i] = job[i] /\ job[i].pid = p
      BY <1>1, <1>4 DEF TypeInv, Bundled, Claims, OnlyOwnersWork, OneOwner
    <2>2. l # k
      BY <1>4, <1>6, <2>0, <2>1 DEF NoTask
    <2> QED
      BY <1>5, <1>11, <2>0, <2>1, <2>2 DEF Claims, TasksWait
  <1>16. CleanOnceLeft'
    <2> SUFFICES ASSUME NEW q \in Pids, NEW i \in Polls, NEW l \in Keys,
                        l \in poll[<<q, i>>].began
                 PROVE  /\ l \in active[q] \/ Clean(q, l)'
                        /\ At(q, i, l, Claimings) => Clean(q, l)'
      BY <1>5 DEF CleanOnceLeft, At
    <2>1. q = p
      BY <1>1, OthersIdle DEF Claims
    <2> QED
      BY <1>10, <1>11, <2>1 DEF Claims, CleanOnceLeft
  <1> QED
    BY <1>12, <1>13, <1>14, <1>15, <1>16 DEF Claims

(* A claim that ages is nobody's.                                          *)
LEMMA ClaimsOfAging ==
    ASSUME TypeInv, Claims, OneOwner, \A p \in Pids : owner[p] => Awake(p),
           NEW k \in Keys, ClaimAges(k)
    PROVE  Claims'
  <1>1. claim \in [Keys -> ClaimType]
    BY PoolTypes DEF TypeInv, TypeOK
  <1>2. UNCHANGED <<poll, active, job, owner>> /\ claim[k].st = "empty"
        /\ \A l \in Keys : l # k => claim'[l] = claim[l]
    BY <1>1 DEF ClaimAges, leaseVars
  <1>3. ASSUME NEW p \in Pids, owner[p]
        PROVE  ~(claim[k].pid = p /\ SomeAt(p, k, {"write"}))
    BY <1>3 DEF ClaimAges, SomeAt, At
  <1>4. ASSUME NEW p \in Pids, owner[p]
        PROVE  ~Wanted(p, k) /\ ~Clean(p, k) /\ ~Kept(p, k)
    BY <1>2, <1>3, <1>4 DEF Claims, ClaimsAreOwn, Own, Clean, Kept
  <1>5. \A q \in Pids : ~Wanted(q, k)
    <2> SUFFICES ASSUME NEW q \in Pids, Wanted(q, k) PROVE FALSE
      OBVIOUS
    <2>1. SUFFICES ASSUME ~owner[q] PROVE FALSE
      BY <1>4
    <2>2. PICK i \in Polls : poll[<<q, i>>].pc = "write"
      BY <2>1 DEF Wanted, SomeAt, At, Claims, OnlyOwnersWork
    <2>3. poll[<<q, i>>] = NoPoll
      BY <2>1 DEF Claims, OnlyOwnersWork
    <2> QED
      BY <2>2, <2>3 DEF NoPoll
  <1>6. \A q \in Pids, l \in Keys : l # k =>
           /\ Kept(q, l) => Kept(q, l)'
           /\ Clean(q, l) => Clean(q, l)'
    <2> SUFFICES ASSUME NEW q \in Pids, NEW l \in Keys, l # k
                 PROVE  /\ Kept(q, l) => Kept(q, l)'
                        /\ Clean(q, l) => Clean(q, l)'
      OBVIOUS
    <2>1. claim'[l] = claim[l] /\ (NoTask(l)' <=> NoTask(l))
      BY <1>2 DEF NoTask, Taken
    <2>2. \A S : SomeAt(q, l, S)' <=> SomeAt(q, l, S)
      BY <1>2 DEF SomeAt, At
    <2>3. \A i, S : At(q, i, l, S)' <=> At(q, i, l, S)
      BY <1>2 DEF At
    <2> QED
      BY <2>1, <2>2, <2>3 DEF Clean, Kept
  <1>7. OnlyOwnersWork' /\ OneTaskPerKey'
    BY <1>2 DEF Claims, OnlyOwnersWork, OneTaskPerKey, Taken
  <1>8. ClaimsAreOwn'
    <2>1. \A q \in Pids : \A l, S : SomeAt(q, l, S)' <=> SomeAt(q, l, S)
      BY <1>2 DEF SomeAt, At
    <2>2. \A q \in Pids : \A l : Wanted(q, l)' <=> Wanted(q, l)
      BY <1>2, <2>1 DEF Wanted, Taken
    <2> QED
      BY <1>2, <1>5, <2>1, <2>2 DEF Claims, ClaimsAreOwn
  <1>9. TasksWait'
    <2> SUFFICES ASSUME NEW j \in Jobs, Taken(j)
                 PROVE  \/ Kept(job[j].pid, job[j].key)'
                        \/ job[j].key \in active[job[j].pid] /\ job[j].st \in Unanswered
      BY <1>2 DEF TasksWait, Taken
    <2>1. job[j].pid \in Pids /\ job[j].key \in Keys /\ job[j].key # k
      BY <1>5 DEF TypeInv, Bundled, Wanted
    <2>2. Kept(job[j].pid, job[j].key) => Kept(job[j].pid, job[j].key)'
      <3>1. PICK p \in Pids, l \in Keys : p = job[j].pid /\ l = job[j].key
        BY <2>1
      <3>2. Kept(p, l) => Kept(p, l)'
        BY <1>6, <2>1, <3>1
      <3> QED
        BY <1>2, <3>1, <3>2
    <2> QED
      BY <2>2 DEF Claims, TasksWait
  <1>10. CleanOnceLeft'
    <2> SUFFICES ASSUME NEW q \in Pids, NEW i \in Polls, NEW l \in Keys,
                        l \in poll[<<q, i>>].began
                 PROVE  /\ l \in active[q] \/ Clean(q, l)'
                        /\ At(q, i, l, Claimings) => Clean(q, l)'
      BY <1>2 DEF CleanOnceLeft, At
    <2>1. owner[q]
      BY DEF Claims, OnlyOwnersWork, NoPoll
    <2>2. l = k => ~Clean(q, l)
      BY <1>4, <2>1
    <2> QED
      BY <1>6, <2>2 DEF Claims, CleanOnceLeft
  <1> QED
    BY <1>7, <1>8, <1>9, <1>10 DEF Claims

(* The lease is acquired when nobody works.                                *)
LEMMA ClaimsOfLease ==
    ASSUME Claims, NEW p \in Pids, LeaseAcquired(p), \A q \in Pids : ~owner[q], TypeInv
    PROVE  Claims'
  <1>1. Resting
    BY DEF Claims, OnlyOwnersWork, Resting, TypeInv, Bundled
  <1>2. Resting'
    BY <1>1 DEF LeaseAcquired, Resting, Taken
  <1> QED
    BY <1>2, RestingAfter

LEMMA ClaimsOfEnd ==
    ASSUME TypeInv, Claims, OneOwner, NEW p \in Pids, ProcessEnds(p)
    PROVE  Claims'
  <1>1. CASE owner[p]
    <2>1. \A q \in Pids, i \in Polls : poll'[<<q, i>>] = NoPoll
      BY <1>1 DEF ProcessEnds, OneOwner, Claims, OnlyOwnersWork
    <2>2. \A j \in Jobs : ~Taken(j)'
      BY <1>1 DEF ProcessEnds, OneOwner, Claims, OnlyOwnersWork, Taken, NoJob, TypeInv, Bundled
    <2>3. \A q \in Pids : active'[q] = {}
      BY <1>1 DEF ProcessEnds, OneOwner, Claims, OnlyOwnersWork, TypeInv, TypeOK, PoolTypeOK
    <2> QED
      BY <2>1, <2>2, <2>3, RestingAfter DEF Resting
  <1>2. CASE ~owner[p]
    <2>1. poll \in [Pids \X Polls -> PollType] /\ job \in [Jobs -> JobType]
          /\ active \in [Pids -> SUBSET Keys] /\ owner \in [Pids -> BOOLEAN]
      BY PoolTypes DEF TypeInv, TypeOK, PoolTypeOK, LeaseTypeOK
    <2>2. poll' = poll
      <3>1. \A s \in Pids \X Polls : poll'[s] = poll[s]
        <4> SUFFICES ASSUME NEW q \in Pids, NEW i \in Polls
                     PROVE  poll'[<<q, i>>] = poll[<<q, i>>]
          OBVIOUS
        <4> QED
          BY <1>2 DEF ProcessEnds, Claims, OnlyOwnersWork
      <3> QED
        BY <2>1, <3>1 DEF ProcessEnds
    <2>3. \A j \in Jobs : Taken(j)' => Taken(j) /\ job'[j] = job[j]
      BY DEF ProcessEnds, Taken, NoJob
    <2>4. active' = active
      BY <1>2, <2>1 DEF ProcessEnds, Claims, OnlyOwnersWork
    <2>5. owner' = [owner EXCEPT ![p] = FALSE] /\ claim' = claim
      BY DEF ProcessEnds, CrashProcess, ShutdownProcess, Gone
    <2>6. owner' = owner
      BY <1>2, <2>1, <2>5
    <2> QED
      BY <2>2, <2>3, <2>4, <2>5, <2>6, ClaimsOfTasks
  <1> QED
    BY <1>1, <1>2

-----------------------------------------------------------------------------
(* The claims of the one process that polls, key by key.                   *)
KeyClaims(p, k) ==
    /\ Wanted(p, k) =>
          \/ claim[k].st = "none" /\ SomeAt(p, k, {"open"})
          \/ claim[k] = Own(p, "empty") /\ SomeAt(p, k, {"write"})
          \/ claim[k] = Own(p, "held")
    /\ \A i, j \in Jobs : Taken(i) /\ Taken(j) /\ job[i].key = k /\ job[j].key = k => i = j
    /\ \A j \in Jobs : Taken(j) /\ job[j].key = k =>
          Kept(p, k) \/ (k \in active[p] /\ job[j].st \in Unanswered)
    /\ \A i \in Polls : k \in poll[<<p, i>>].began =>
          /\ k \in active[p] \/ Clean(p, k)
          /\ At(p, i, k, Claimings) => Clean(p, k)

OwnerClaims(p) == OnlyOwnersWork /\ \A k \in Keys : KeyClaims(p, k)

LEMMA ClaimsOfOwner ==
    \A p \in Pids : TypeInv /\ OneOwner /\ owner[p] => (Claims <=> OwnerClaims(p))
  <1> SUFFICES ASSUME NEW p \in Pids, TypeInv, OneOwner, owner[p], OnlyOwnersWork
               PROVE  Claims <=> OwnerClaims(p)
    BY DEF Claims, OwnerClaims
  <1>1. \A j \in Jobs : Taken(j) => job[j].pid = p /\ job[j].key \in Keys
    BY DEF TypeInv, Bundled, OneOwner, OnlyOwnersWork
  <1>2. OneTaskPerKey <=> \A k \in Keys : \A i, j \in Jobs :
           Taken(i) /\ Taken(j) /\ job[i].key = k /\ job[j].key = k => i = j
    BY <1>1 DEF OneTaskPerKey
  <1>3. ClaimsAreOwn <=> \A k \in Keys : Wanted(p, k) =>
           \/ claim[k].st = "none" /\ SomeAt(p, k, {"open"})
           \/ claim[k] = Own(p, "empty") /\ SomeAt(p, k, {"write"})
           \/ claim[k] = Own(p, "held")
    BY OthersIdle DEF ClaimsAreOwn
  <1>4. TasksWait <=> \A k \in Keys : \A j \in Jobs : Taken(j) /\ job[j].key = k =>
           Kept(p, k) \/ (k \in active[p] /\ job[j].st \in Unanswered)
    BY <1>1 DEF TasksWait
  <1>5. CleanOnceLeft <=> \A k \in Keys : \A i \in Polls : k \in poll[<<p, i>>].began =>
           /\ k \in active[p] \/ Clean(p, k)
           /\ At(p, i, k, Claimings) => Clean(p, k)
    BY OthersIdle DEF CleanOnceLeft
  <1> QED
    BY <1>2, <1>3, <1>4, <1>5 DEF Claims, OwnerClaims, KeyClaims

LEMMA ClaimsOfOwnerAfter ==
    \A p \in Pids : TypeInv' /\ OneOwner' /\ owner'[p] => (Claims' <=> OwnerClaims(p)')
  <1>1. (\A p \in Pids : TypeInv /\ OneOwner /\ owner[p] => (Claims <=> OwnerClaims(p)))'
    BY ClaimsOfOwner, PTL
  <1> QED
    BY <1>1

(* Where a poll stands, and the keys a step has nothing to do with.        *)
Stands(p, i, k, l) == poll[<<p, i>>].key = k /\ poll[<<p, i>>].pc = l

LEMMA AtStands ==
    ASSUME NEW p, NEW i, NEW k
    PROVE  /\ At(p, i, k, {"open"}) <=> Stands(p, i, k, "open")
           /\ At(p, i, k, {"write"}) <=> Stands(p, i, k, "write")
           /\ At(p, i, k, {"remove"}) <=> Stands(p, i, k, "remove")
           /\ At(p, i, k, {"remove", "write"}) <=>
                 Stands(p, i, k, "remove") \/ Stands(p, i, k, "write")
           /\ At(p, i, k, Claimings) <=> \E l \in Claimings : Stands(p, i, k, l)
  BY DEF At, Stands, Claimings

LEMMA AtStandsAfter ==
    ASSUME NEW p, NEW i, NEW k
    PROVE  /\ At(p, i, k, {"open"})' <=> Stands(p, i, k, "open")'
           /\ At(p, i, k, {"write"})' <=> Stands(p, i, k, "write")'
           /\ At(p, i, k, {"remove"})' <=> Stands(p, i, k, "remove")'
           /\ At(p, i, k, {"remove", "write"})' <=>
                 Stands(p, i, k, "remove")' \/ Stands(p, i, k, "write")'
           /\ At(p, i, k, Claimings)' <=> \E l \in Claimings : Stands(p, i, k, l)'
  BY DEF At, Stands, Claimings

LEMMA KeptAndClean ==
    ASSUME NEW p \in Pids, NEW k \in Keys, claim'[k] = claim[k],
           \A j \in Jobs : Taken(j)' /\ job'[j].key = k <=> Taken(j) /\ job[j].key = k,
           \A i \in Polls, l \in {"remove", "write"} : Stands(p, i, k, l)' <=> Stands(p, i, k, l)
    PROVE  (Kept(p, k)' <=> Kept(p, k)) /\ (Clean(p, k)' <=> Clean(p, k))
  <1>1. NoTask(k)' <=> NoTask(k)
    BY DEF NoTask
  <1>2. \A i \in Polls :
           /\ At(p, i, k, {"write"})' <=> At(p, i, k, {"write"})
           /\ At(p, i, k, {"remove"})' <=> At(p, i, k, {"remove"})
           /\ At(p, i, k, {"remove", "write"})' <=> At(p, i, k, {"remove", "write"})
    BY AtStands, AtStandsAfter
  <1>3. /\ SomeAt(p, k, {"write"})' <=> SomeAt(p, k, {"write"})
        /\ SomeAt(p, k, {"remove"})' <=> SomeAt(p, k, {"remove"})
        /\ SomeAt(p, k, {"remove", "write"})' <=> SomeAt(p, k, {"remove", "write"})
    BY <1>2 DEF SomeAt
  <1>4. Kept(p, k)' <=> Kept(p, k)
    BY <1>3 DEF Kept
  <1> QED
    BY <1>1, <1>2, <1>3, <1>4 DEF Clean

(* A key whose claim, tasks and pool entry stay: polls may go from one     *)
(* place to another that neither removes nor writes, and none stops being  *)
(* about to create the claim where that matters.                           *)
LEMMA KeyStays ==
    ASSUME NEW p \in Pids, NEW k \in Keys, KeyClaims(p, k),
           claim'[k] = claim[k],
           \A j \in Jobs : Taken(j)' /\ job'[j].key = k <=> Taken(j) /\ job[j].key = k,
           \A j \in Jobs : Taken(j) /\ job[j].key = k => job'[j] = job[j],
           k \in active'[p] <=> k \in active[p],
           \A i \in Polls, l \in {"remove", "write"} : Stands(p, i, k, l)' <=> Stands(p, i, k, l),
           \A i \in Polls : Stands(p, i, k, "open") /\ claim[k].st = "none" => Stands(p, i, k, "open")',
           \A i \in Polls : k \in poll'[<<p, i>>].began =>
              \/ /\ k \in poll[<<p, i>>].began
                 /\ At(p, i, k, Claimings)' => At(p, i, k, Claimings) \/ k \notin active[p]
              \/ k \in active[p] /\ ~At(p, i, k, Claimings)'
    PROVE  KeyClaims(p, k)'
  <1>1. (Kept(p, k)' <=> Kept(p, k)) /\ (Clean(p, k)' <=> Clean(p, k))
    BY KeptAndClean
  <1>2. SomeAt(p, k, {"write"})' <=> SomeAt(p, k, {"write"})
    BY AtStands, AtStandsAfter DEF SomeAt
  <1>3. claim[k].st = "none" /\ SomeAt(p, k, {"open"}) => SomeAt(p, k, {"open"})'
    BY AtStands, AtStandsAfter DEF SomeAt
  <1>4. Wanted(p, k)' => Wanted(p, k)
    BY <1>2 DEF Wanted
  <1>5. Wanted(p, k)' =>
          \/ claim'[k].st = "none" /\ SomeAt(p, k, {"open"})'
          \/ claim'[k] = Own(p, "empty") /\ SomeAt(p, k, {"write"})'
          \/ claim'[k] = Own(p, "held")
    BY <1>2, <1>3, <1>4 DEF KeyClaims
  <1>6. \A i \in Polls : k \in poll'[<<p, i>>].began =>
          /\ k \in active'[p] \/ Clean(p, k)'
          /\ At(p, i, k, Claimings)' => Clean(p, k)'
    BY <1>1 DEF KeyClaims
  <1>7. \A j \in Jobs : Taken(j)' /\ job'[j].key = k =>
          Kept(p, k)' \/ (k \in active'[p] /\ job'[j].st \in Unanswered)
    BY <1>1 DEF KeyClaims
  <1>8. \A i, j \in Jobs : Taken(i)' /\ Taken(j)' /\ job'[i].key = k /\ job'[j].key = k => i = j
    BY DEF KeyClaims
  <1>9. Own(p, "empty")' = Own(p, "empty") /\ Own(p, "held")' = Own(p, "held")
    BY DEF Own
  <1> QED
    BY <1>5, <1>6, <1>7, <1>8, <1>9 DEF KeyClaims

-----------------------------------------------------------------------------
(* A poll that moves on at its key, and the polls beside it.               *)
LEMMA PollMoves ==
    ASSUME TypeInv, NEW p \in Pids, NEW i \in Polls, NEW l \in PollPCs, PollGoto(<<p, i>>, l)
    PROVE  /\ \A q \in Pids, n \in Polls : <<q, n>> # <<p, i>> => poll'[<<q, n>>] = poll[<<q, n>>]
           /\ \A q \in Pids, n \in Polls : poll'[<<q, n>>].began = poll[<<q, n>>].began
           /\ \A n \in Polls : \A k, m : n # i => (Stands(p, n, k, m)' <=> Stands(p, n, k, m))
           /\ \A k, m : Stands(p, i, k, m)' <=> k = poll[<<p, i>>].key /\ m = l
  <1>1. poll \in [Pids \X Polls -> PollType]
    BY PoolTypes DEF TypeInv, TypeOK
  <1>2. poll' = [poll EXCEPT ![<<p, i>>] = [poll[<<p, i>>] EXCEPT !.pc = l]]
    BY <1>1 DEF PollGoto
  <1>3. [poll[<<p, i>>] EXCEPT !.pc = l].pc = l
        /\ [poll[<<p, i>>] EXCEPT !.pc = l].key = poll[<<p, i>>].key
        /\ [poll[<<p, i>>] EXCEPT !.pc = l].began = poll[<<p, i>>].began
    BY <1>1 DEF PollType
  <1> QED
    BY <1>1, <1>2, <1>3 DEF Stands

LEMMA PollerOwns ==
    ASSUME OnlyOwnersWork, NEW p \in Pids, NEW i \in Polls, poll[<<p, i>>].pc # "idle"
    PROVE  owner[p]
  BY DEF OnlyOwnersWork, NoPoll

(* A step of a poll leaves the other processes alone.                      *)
LEMMA OthersStayIdle ==
    ASSUME OnlyOwnersWork, TypeInv, NEW p \in Pids, owner[p], UNCHANGED owner,
           \A q \in Pids, n \in Polls : q # p => poll'[<<q, n>>] = poll[<<q, n>>],
           \A q \in Pids : q # p => active'[q] = active[q],
           \A j \in Jobs : Taken(j)' => job'[j].pid = p \/ (Taken(j) /\ job'[j] = job[j])
    PROVE  OnlyOwnersWork'
  BY DEF OnlyOwnersWork

LEMMA StartPollClaims ==
    ASSUME TypeInv, OneOwner, NEW p \in Pids, owner[p], OwnerClaims(p),
           NEW i \in Polls, StartPoll(p, i)
    PROVE  OwnerClaims(p)'
  <1>0. poll \in [Pids \X Polls -> PollType]
    BY PoolTypes DEF TypeInv, TypeOK
  <1>1. UNCHANGED <<claim, active, job, owner>>
    BY DEF StartPoll, leaseVars
  <1>2. /\ \A q \in Pids, n \in Polls : <<q, n>> # <<p, i>> => poll'[<<q, n>>] = poll[<<q, n>>]
        /\ poll'[<<p, i>>].pc = "loop" /\ poll'[<<p, i>>].began = active[p]
        /\ poll[<<p, i>>].pc = "idle"
    BY <1>0 DEF StartPoll
  <1>3. OnlyOwnersWork'
    BY <1>1, <1>2, OthersStayIdle DEF OwnerClaims, Taken
  <1>4. \A k \in Keys, n \in Polls, l \in Claimings : Stands(p, n, k, l)' <=> Stands(p, n, k, l)
    BY <1>2 DEF Stands, Claimings
  <1>5. ASSUME NEW k \in Keys PROVE KeyClaims(p, k)'
    <2>1. \A n \in Polls : At(p, n, k, Claimings)' <=> At(p, n, k, Claimings)
      BY <1>4, AtStands, AtStandsAfter
    <2>2. ~ At(p, i, k, Claimings)'
      BY <1>2 DEF At, Claimings
    <2>3. \A n \in Polls : k \in poll'[<<p, n>>].began =>
            \/ /\ k \in poll[<<p, n>>].began
               /\ At(p, n, k, Claimings)' => At(p, n, k, Claimings)
            \/ k \in active[p] /\ ~At(p, n, k, Claimings)'
      BY <1>2, <2>1, <2>2
    <2>4. \A n \in Polls, l \in {"remove", "write", "open"} : Stands(p, n, k, l)' <=> Stands(p, n, k, l)
      BY <1>4 DEF Claimings
    <2> QED
      BY <1>1, <2>3, <2>4, KeyStays DEF OwnerClaims, Taken
  <1> QED
    BY <1>3, <1>5 DEF OwnerClaims

LEMMA NextTaskClaims ==
    ASSUME TypeInv, OneOwner, NEW p \in Pids, owner[p], OwnerClaims(p),
           NEW i \in Polls, NextTask(p, i)
    PROVE  OwnerClaims(p)'
  <1>0. poll \in [Pids \X Polls -> PollType]
    BY PoolTypes DEF TypeInv, TypeOK
  <1>1. UNCHANGED <<claim, active, job, owner>> /\ poll[<<p, i>>].pc = "loop"
    BY DEF NextTask, leaseVars
  <1>2. \A k \in Keys, l \in Claimings : ~Stands(p, i, k, l)
    BY <1>1 DEF Stands, Claimings
  <1>3. ASSUME \A q \in Pids, n \in Polls : <<q, n>> # <<p, i>> => poll'[<<q, n>>] = poll[<<q, n>>],
               poll'[<<p, i>>].began \subseteq poll[<<p, i>>].began,
               \A k \in Keys, l \in Claimings : Stands(p, i, k, l)' =>
                  l = "open" /\ k \notin active[p]
        PROVE  OwnerClaims(p)'
    <2>1. OnlyOwnersWork'
      BY <1>1, <1>3, OthersStayIdle DEF OwnerClaims, Taken
    <2>2. \A n \in Polls, k \in Keys, l \in Claimings : n # i => (Stands(p, n, k, l)' <=> Stands(p, n, k, l))
      BY <1>3 DEF Stands
    <2>3. ASSUME NEW k \in Keys PROVE KeyClaims(p, k)'
      <3>1. \A n \in Polls : At(p, n, k, Claimings)' => At(p, n, k, Claimings) \/ k \notin active[p]
        BY <1>3, <2>2, AtStands, AtStandsAfter
      <3>2. \A n \in Polls : k \in poll'[<<p, n>>].began => k \in poll[<<p, n>>].began
        BY <1>3
      <3>3. \A n \in Polls, l \in {"remove", "write"} : Stands(p, n, k, l)' <=> Stands(p, n, k, l)
        BY <1>2, <1>3, <2>2 DEF Claimings
      <3>4. \A n \in Polls : Stands(p, n, k, "open") => Stands(p, n, k, "open")'
        BY <1>2, <2>2 DEF Claimings
      <3> QED
        BY <1>1, <3>1, <3>2, <3>3, <3>4, KeyStays DEF OwnerClaims, Taken
    <2> QED
      BY <2>1, <2>3 DEF OwnerClaims
  <1>4. CASE poll' = [poll EXCEPT ![<<p, i>>] = NoPoll]
    <2>1. poll'[<<p, i>>] = NoPoll
          /\ \A q \in Pids, n \in Polls : <<q, n>> # <<p, i>> => poll'[<<q, n>>] = poll[<<q, n>>]
      BY <1>0, <1>4
    <2>2. poll'[<<p, i>>].pc = "idle" /\ poll'[<<p, i>>].began = {}
      BY <2>1 DEF NoPoll
    <2>3. \A k \in Keys, l \in Claimings : ~Stands(p, i, k, l)'
      BY <2>2 DEF Stands, Claimings
    <2> QED
      BY <1>3, <2>1, <2>2, <2>3
  <1>5. ASSUME NEW k \in poll[<<p, i>>].todo, NEW l \in {"loop", "open"},
               poll' = [poll EXCEPT ![<<p, i>>] =
                         [poll[<<p, i>>] EXCEPT !.todo = @ \ {k}, !.key = k, !.pc = l]],
               l = "open" => ~Skipped(p, k, Bundle(poll[<<p, i>>].seen, k))
        PROVE  OwnerClaims(p)'
    <2>1. poll'[<<p, i>>].pc = l /\ poll'[<<p, i>>].key = k
          /\ poll'[<<p, i>>].began = poll[<<p, i>>].began
          /\ \A q \in Pids, n \in Polls : <<q, n>> # <<p, i>> => poll'[<<q, n>>] = poll[<<q, n>>]
      BY <1>0, <1>5 DEF PollType
    <2>2. l = "open" => k \notin active[p]
      BY <1>5 DEF Skipped
    <2>3. \A m \in Keys, n \in Claimings : Stands(p, i, m, n)' => n = "open" /\ m \notin active[p]
      BY <2>1, <2>2 DEF Stands, Claimings
    <2> QED
      BY <1>3, <2>1, <2>3
  <1> QED
    BY <1>4, <1>5, NextTaskMakes

(* What the keys a poll is not at have to do with its step.                *)
LEMMA OtherKeysStay ==
    ASSUME TypeInv, NEW p \in Pids, NEW i \in Polls, NEW l \in PollPCs, PollGoto(<<p, i>>, l),
           NEW k \in Keys, k # poll[<<p, i>>].key, KeyClaims(p, k),
           claim'[k] = claim[k], k \in active'[p] <=> k \in active[p],
           \A j \in Jobs : Taken(j)' /\ job'[j].key = k <=> Taken(j) /\ job[j].key = k,
           \A j \in Jobs : Taken(j) /\ job[j].key = k => job'[j] = job[j]
    PROVE  KeyClaims(p, k)'
  <1>1. \A n \in Polls : \A m : Stands(p, n, k, m)' <=> Stands(p, n, k, m)
    <2>1. \A m : ~Stands(p, i, k, m)
      BY DEF Stands
    <2>2. \A m : ~Stands(p, i, k, m)'
      BY PollMoves
    <2> QED
      BY <2>1, <2>2, PollMoves
  <1>2. \A n \in Polls : At(p, n, k, Claimings)' <=> At(p, n, k, Claimings)
    BY <1>1, AtStands, AtStandsAfter
  <1>3. \A n \in Polls : poll'[<<p, n>>].began = poll[<<p, n>>].began
    BY PollMoves
  <1> QED
    BY <1>1, <1>2, <1>3, KeyStays

-----------------------------------------------------------------------------
(* A step of a poll at its key: what is left to show is that key.          *)
LEMMA AtItsKey ==
    ASSUME TypeInv, OneOwner, NEW p \in Pids, owner[p], OwnerClaims(p), UNCHANGED owner,
           NEW i \in Polls, poll[<<p, i>>].pc \in Claimings,
           NEW l \in PollPCs, PollGoto(<<p, i>>, l),
           NEW k \in Keys, k = poll[<<p, i>>].key,
           \A m \in Keys : m # k => claim'[m] = claim[m],
           \A q \in Pids : q # p => active'[q] = active[q],
           \A m \in Keys : m # k => (m \in active'[p] <=> m \in active[p]),
           \A j \in Jobs : \/ Taken(j) /\ job'[j] = job[j]
                           \/ ~Taken(j) /\ ~Taken(j)'
                           \/ ~Taken(j) /\ job'[j].key = k /\ job'[j].pid = p,
           KeyClaims(p, k)'
    PROVE  OwnerClaims(p)'
  <1>1. OnlyOwnersWork'
    BY PollMoves, OthersStayIdle DEF OwnerClaims
  <1>2. ASSUME NEW m \in Keys, m # k PROVE KeyClaims(p, m)'
    <2>1. /\ \A j \in Jobs : Taken(j)' /\ job'[j].key = m <=> Taken(j) /\ job[j].key = m
          /\ \A j \in Jobs : Taken(j) /\ job[j].key = m => job'[j] = job[j]
      BY <1>2 DEF Taken
    <2> QED
      BY <1>2, <2>1, OtherKeysStay DEF OwnerClaims
  <1> QED
    BY <1>1, <1>2 DEF OwnerClaims

LEMMA MovesAtKey ==
    ASSUME TypeInv, NEW p \in Pids, NEW i \in Polls, NEW l \in PollPCs, PollGoto(<<p, i>>, l),
           NEW k, k = poll[<<p, i>>].key
    PROVE  /\ \A n \in Polls : n # i => poll'[<<p, n>>] = poll[<<p, n>>]
           /\ poll'[<<p, i>>].pc = l
           /\ poll'[<<p, i>>].key = k
           /\ poll'[<<p, i>>].began = poll[<<p, i>>].began
  <1>1. poll \in [Pids \X Polls -> PollType]
    BY PoolTypes DEF TypeInv, TypeOK
  <1>2. poll' = [poll EXCEPT ![<<p, i>>] = [poll[<<p, i>>] EXCEPT !.pc = l]]
    BY <1>1 DEF PollGoto
  <1> QED
    BY <1>1, <1>2 DEF PollType

LEMMA OpenClaimClaims ==
    ASSUME TypeInv, OneOwner, NEW p \in Pids, owner[p], OwnerClaims(p),
           NEW i \in Polls, OpenClaim(p, i)
    PROVE  OwnerClaims(p)'
  <1>1. UNCHANGED <<active, job, owner>> /\ poll[<<p, i>>].pc = "open"
    BY DEF OpenClaim, leaseVars
  <1>2. claim \in [Keys -> ClaimType]
    BY PoolTypes DEF TypeInv, TypeOK
  <1>3. PICK k \in Keys : k = poll[<<p, i>>].key
    BY <1>1 DEF TypeInv, Bundled, Claimings
  <1>4. KeyClaims(p, k) /\ Stands(p, i, k, "open")
    BY <1>1, <1>3 DEF OwnerClaims, Stands
  <1>5. \A j \in Jobs : job'[j] = job[j] /\ (Taken(j)' <=> Taken(j))
    BY <1>1 DEF Taken
  <1>6. poll[<<p, i>>].pc \in Claimings
    BY <1>1 DEF Claimings
  <1>7. CASE /\ claim[k].st = "none"
             /\ claim' = [claim EXCEPT ![k] = Own(p, "empty")]
             /\ PollGoto(<<p, i>>, "write")
    <2>1. claim'[k] = Own(p, "empty") /\ \A m \in Keys : m # k => claim'[m] = claim[m]
      BY <1>2, <1>7
    <2>2. /\ \A n \in Polls : n # i => \A m : Stands(p, n, k, m)' <=> Stands(p, n, k, m)
          /\ \A m : Stands(p, i, k, m)' <=> m = "write"
          /\ \A n \in Polls : poll'[<<p, n>>].began = poll[<<p, n>>].began
      <3>1. /\ \A n \in Polls : n # i => poll'[<<p, n>>] = poll[<<p, n>>]
            /\ poll'[<<p, i>>].pc = "write"
            /\ poll'[<<p, i>>].key = k
            /\ poll'[<<p, i>>].began = poll[<<p, i>>].began
        <4>1. PollGoto(<<p, i>>, "write") /\ "write" \in PollPCs
          BY <1>7 DEF PollPCs
        <4> QED
          BY <1>3, <4>1, MovesAtKey
      <3> QED
        BY <3>1 DEF Stands
    <2>3. SomeAt(p, k, {"write"})'
      BY <2>2, AtStandsAfter DEF SomeAt
    <2>4. ~Kept(p, k)
      BY <1>7 DEF Kept, Own
    <2>5. Clean(p, k) => Clean(p, k)'
      <3> SUFFICES ASSUME Clean(p, k) PROVE Clean(p, k)'
        OBVIOUS
      <3>1. ~SomeAt(p, k, {"remove", "write"}) /\ NoTask(k)
        BY <1>7, <2>4 DEF Clean, Own
      <3>2. \A n \in Polls : ~Stands(p, n, k, "remove") /\ ~Stands(p, n, k, "write")
        BY <3>1, AtStands DEF SomeAt
      <3>3. ~SomeAt(p, k, {"remove"})'
        BY <2>2, <3>2, AtStandsAfter DEF SomeAt
      <3>4. \A n, m \in Polls : At(p, n, k, {"write"})' /\ At(p, m, k, {"write"})' => n = m
        BY <2>2, <3>2, AtStandsAfter
      <3>5. NoTask(k)'
        BY <1>5, <3>1 DEF NoTask
      <3> QED
        BY <2>1, <2>3, <3>3, <3>4, <3>5 DEF Clean, Own
    <2>6. \A n \in Polls : At(p, n, k, Claimings)' => At(p, n, k, Claimings)
      BY <1>4, <2>2, AtStands, AtStandsAfter DEF Claimings
    <2>7. \A n \in Polls : k \in poll'[<<p, n>>].began =>
            /\ k \in active'[p] \/ Clean(p, k)'
            /\ At(p, n, k, Claimings)' => Clean(p, k)'
      BY <1>1, <1>4, <2>2, <2>5, <2>6 DEF KeyClaims
    <2>8. KeyClaims(p, k)'
      BY <1>1, <1>4, <1>5, <2>1, <2>3, <2>4, <2>7 DEF KeyClaims, Own
    <2> QED
      BY <1>1, <1>3, <1>5, <1>6, <1>7, <2>1, <2>8, AtItsKey DEF PollPCs
  <1>8. CASE claim[k].st # "none" /\ UNCHANGED claim /\ PollGoto(<<p, i>>, "inspect")
    <2>1. /\ \A n \in Polls : n # i => \A m : Stands(p, n, k, m)' <=> Stands(p, n, k, m)
          /\ \A m : Stands(p, i, k, m)' <=> m = "inspect"
          /\ \A n \in Polls : poll'[<<p, n>>].began = poll[<<p, n>>].began
      <3>1. /\ \A n \in Polls : n # i => poll'[<<p, n>>] = poll[<<p, n>>]
            /\ poll'[<<p, i>>].pc = "inspect"
            /\ poll'[<<p, i>>].key = k
            /\ poll'[<<p, i>>].began = poll[<<p, i>>].began
        BY <1>3, <1>8, MovesAtKey DEF PollPCs
      <3> QED
        BY <3>1 DEF Stands
    <2>2. \A n \in Polls : At(p, n, k, Claimings)' => At(p, n, k, Claimings)
      BY <1>4, <2>1, AtStands, AtStandsAfter DEF Claimings
    <2>3. \A n \in Polls, m \in {"remove", "write"} : Stands(p, n, k, m)' <=> Stands(p, n, k, m)
      BY <1>1, <2>1 DEF Stands
    <2>4. KeyClaims(p, k)'
      BY <1>1, <1>4, <1>5, <1>8, <2>1, <2>2, <2>3, KeyStays
    <2> QED
      BY <1>1, <1>3, <1>5, <1>6, <1>8, <2>4, AtItsKey DEF PollPCs
  <1> QED
    BY <1>3, <1>7, <1>8 DEF OpenClaim, Own

(* A claim that counts as abandoned is no claim of a task or a writer, and *)
(* a poll that began while the key was in the pool never sees one.         *)
LEMMA InspectClaimClaims ==
    ASSUME TypeInv, OneOwner, NEW p \in Pids, owner[p], OwnerClaims(p),
           NEW i \in Polls, InspectClaim(p, i)
    PROVE  OwnerClaims(p)'
  <1>1. UNCHANGED <<claim, active, job, owner>> /\ poll[<<p, i>>].pc = "inspect" /\ p \in up
    BY DEF InspectClaim, leaseVars, Awake
  <1>2. PICK k \in Keys : k = poll[<<p, i>>].key
    BY <1>1 DEF TypeInv, Bundled, Claimings
  <1>3. KeyClaims(p, k) /\ Stands(p, i, k, "inspect")
    BY <1>1, <1>2 DEF OwnerClaims, Stands
  <1>4. \A j \in Jobs : job'[j] = job[j] /\ (Taken(j)' <=> Taken(j))
    BY <1>1 DEF Taken
  <1>5. poll[<<p, i>>].pc \in Claimings
    BY <1>1 DEF Claimings
  <1>6. CASE ~Abandoned(p, claim[k]) /\ PollGoto(<<p, i>>, "loop")
    <2>1. /\ \A n \in Polls : n # i => \A m : Stands(p, n, k, m)' <=> Stands(p, n, k, m)
          /\ \A m : Stands(p, i, k, m)' <=> m = "loop"
          /\ \A n \in Polls : poll'[<<p, n>>].began = poll[<<p, n>>].began
      <3>1. /\ \A n \in Polls : n # i => poll'[<<p, n>>] = poll[<<p, n>>]
            /\ poll'[<<p, i>>].pc = "loop"
            /\ poll'[<<p, i>>].key = k
            /\ poll'[<<p, i>>].began = poll[<<p, i>>].began
        BY <1>2, <1>6, MovesAtKey DEF PollPCs
      <3> QED
        BY <3>1 DEF Stands
    <2>2. \A n \in Polls : At(p, n, k, Claimings)' => At(p, n, k, Claimings)
      BY <1>3, <2>1, AtStands, AtStandsAfter DEF Claimings
    <2>3. \A n \in Polls, m \in {"remove", "write", "open"} : Stands(p, n, k, m)' <=> Stands(p, n, k, m)
      BY <1>1, <2>1 DEF Stands
    <2>4. KeyClaims(p, k)'
      BY <1>1, <1>3, <1>4, <2>1, <2>2, <2>3, KeyStays
    <2> QED
      BY <1>1, <1>2, <1>4, <1>5, <1>6, <2>4, AtItsKey DEF PollPCs
  <1>7. CASE Abandoned(p, claim[k]) /\ PollGoto(<<p, i>>, "remove")
    <2>1. /\ \A n \in Polls : n # i => \A m : Stands(p, n, k, m)' <=> Stands(p, n, k, m)
          /\ \A m : Stands(p, i, k, m)' <=> m = "remove"
          /\ \A n \in Polls : poll'[<<p, n>>].began = poll[<<p, n>>].began
      <3>1. /\ \A n \in Polls : n # i => poll'[<<p, n>>] = poll[<<p, n>>]
            /\ poll'[<<p, i>>].pc = "remove"
            /\ poll'[<<p, i>>].key = k
            /\ poll'[<<p, i>>].began = poll[<<p, i>>].began
        BY <1>2, <1>7, MovesAtKey DEF PollPCs
      <3> QED
        BY <3>1 DEF Stands
    <2>2. claim[k].st # "none" /\ claim[k] # Own(p, "empty") /\ claim[k] # Own(p, "held")
      BY <1>1, <1>7 DEF Abandoned, Own
    <2>3. ~Wanted(p, k) /\ ~Clean(p, k)
      BY <1>3, <2>2 DEF KeyClaims, Clean, Kept
    <2>4. \A j \in Jobs : Taken(j) => job[j].key # k
      BY <2>3, OthersIdle DEF Wanted, TypeInv, Bundled, OneOwner, OwnerClaims, OnlyOwnersWork
    <2>5. ~SomeAt(p, k, {"write"})
      BY <2>3 DEF Wanted
    <2>6. ~SomeAt(p, k, {"write"})'
      BY <2>1, <2>5, AtStands, AtStandsAfter DEF SomeAt
    <2>7. ~Wanted(p, k)'
      BY <1>4, <2>4, <2>6 DEF Wanted
    <2>8. At(p, i, k, Claimings)
      BY <1>3, AtStands DEF Claimings
    <2>9. \A n \in Polls : At(p, n, k, Claimings)' => At(p, n, k, Claimings)
      BY <2>1, <2>8, AtStands, AtStandsAfter
    <2>10. \A n \in Polls : k \in poll'[<<p, n>>].began =>
            /\ k \in active'[p]
            /\ ~At(p, n, k, Claimings)'
      BY <1>1, <1>3, <2>1, <2>3, <2>9 DEF KeyClaims
    <2>11. KeyClaims(p, k)'
      BY <1>4, <2>4, <2>7, <2>10 DEF KeyClaims
    <2> QED
      BY <1>1, <1>2, <1>4, <1>5, <1>7, <2>11, AtItsKey DEF PollPCs
  <1> QED
    BY <1>2, <1>6, <1>7 DEF InspectClaim

-----------------------------------------------------------------------------
(* Nobody keeps the claim of a key that is removed, so a task at that key  *)
(* is in the pool, and so is the key of a poll that began with it.         *)
LEMMA RemoveClaimClaims ==
    ASSUME TypeInv, OneOwner, NEW p \in Pids, owner[p], OwnerClaims(p),
           NEW i \in Polls, RemoveClaim(p, i)
    PROVE  OwnerClaims(p)'
  <1>1. UNCHANGED <<active, job, owner>> /\ poll[<<p, i>>].pc = "remove"
    BY DEF RemoveClaim, leaseVars
  <1>2. PICK k \in Keys : k = poll[<<p, i>>].key
    BY <1>1 DEF TypeInv, Bundled, Claimings
  <1>3. KeyClaims(p, k) /\ Stands(p, i, k, "remove")
    BY <1>1, <1>2 DEF OwnerClaims, Stands
  <1>4. \A j \in Jobs : job'[j] = job[j] /\ (Taken(j)' <=> Taken(j))
    BY <1>1 DEF Taken
  <1>5. poll[<<p, i>>].pc \in Claimings
    BY <1>1 DEF Claimings
  <1>6. PollGoto(<<p, i>>, "open") /\ claim' = [claim EXCEPT ![k] = NoClaim]
    BY <1>2 DEF RemoveClaim
  <1>7. claim'[k].st = "none" /\ \A m \in Keys : m # k => claim'[m] = claim[m]
    <2>1. claim \in [Keys -> ClaimType]
      BY PoolTypes DEF TypeInv, TypeOK
    <2> QED
      BY <1>6, <2>1 DEF NoClaim
  <1>8. /\ \A n \in Polls : n # i => poll'[<<p, n>>] = poll[<<p, n>>]
        /\ poll'[<<p, i>>].pc = "open"
        /\ poll'[<<p, i>>].key = k
        /\ poll'[<<p, i>>].began = poll[<<p, i>>].began
    <2>1. PollGoto(<<p, i>>, "open") /\ "open" \in PollPCs
      BY <1>6 DEF PollPCs
    <2> QED
      BY <1>2, <2>1, MovesAtKey
  <1>9. SomeAt(p, k, {"remove"}) /\ SomeAt(p, k, {"remove", "write"})
    BY <1>3, AtStands DEF SomeAt
  <1>10. ~Kept(p, k) /\ ~Clean(p, k)
    BY <1>9 DEF Kept, Clean
  <1>11. SomeAt(p, k, {"open"})'
    BY <1>8 DEF SomeAt, At
  <1>12. At(p, i, k, Claimings)
    BY <1>3, AtStands DEF Claimings
  <1>13. \A n \in Polls : At(p, n, k, Claimings)' => At(p, n, k, Claimings)
    BY <1>8, <1>12 DEF At
  <1>14. \A n \in Polls : k \in poll'[<<p, n>>].began =>
            k \in active'[p] /\ ~At(p, n, k, Claimings)'
    BY <1>1, <1>3, <1>8, <1>10, <1>13 DEF KeyClaims
  <1>15. KeyClaims(p, k)'
    BY <1>1, <1>3, <1>4, <1>7, <1>10, <1>11, <1>14 DEF KeyClaims
  <1>16. "open" \in PollPCs
    BY DEF PollPCs
  <1> QED
    BY <1>1, <1>2, <1>4, <1>5, <1>6, <1>7, <1>15, <1>16, AtItsKey

LEMMA WrittenClaim ==
    ASSUME NEW p, NEW c, c = Own(p, "empty")
    PROVE  [c EXCEPT !.st = "held"] = Own(p, "held")
  <1> DEFINE d == [c EXCEPT !.st = "held"]
  <1>1. d \in [st : {"held"}, pid : {p}, prev : {FALSE}]
    BY DEF Own
  <1>2. d.st = "held" /\ d.pid = p /\ d.prev = FALSE
    BY <1>1
  <1>3. d = [st |-> d.st, pid |-> d.pid, prev |-> d.prev]
    BY <1>1
  <1> QED
    BY <1>2, <1>3 DEF Own

(* The claim is written.  A task whose key left the pool in between would  *)
(* have kept its claim from this poll, so there is none.                   *)
LEMMA WriteClaimClaims ==
    ASSUME TypeInv, OneOwner, NEW p \in Pids, owner[p], OwnerClaims(p),
           NEW i \in Polls, WriteClaim(p, i)
    PROVE  OwnerClaims(p)'
  <1>0. claim \in [Keys -> ClaimType] /\ job \in [Jobs -> JobType]
        /\ active \in [Pids -> SUBSET Keys]
    BY PoolTypes DEF TypeInv, TypeOK, PoolTypeOK
  <1>1. UNCHANGED owner /\ poll[<<p, i>>].pc = "write" /\ PollGoto(<<p, i>>, "loop")
    BY DEF WriteClaim, leaseVars
  <1>2. PICK k \in Keys : k = poll[<<p, i>>].key
    BY <1>1 DEF TypeInv, Bundled, Claimings
  <1>3. KeyClaims(p, k) /\ Stands(p, i, k, "write")
    BY <1>1, <1>2 DEF OwnerClaims, Stands
  <1>4. claim' = IF claim[k].st = "empty" /\ claim[k].pid = p
                 THEN [claim EXCEPT ![k].st = "held"] ELSE claim
    BY <1>2 DEF WriteClaim
  <1>5. \A m \in Keys : m # k => claim'[m] = claim[m]
    BY <1>0, <1>4
  <1>6. /\ \A n \in Polls : n # i => poll'[<<p, n>>] = poll[<<p, n>>]
        /\ poll'[<<p, i>>].pc = "loop"
        /\ poll'[<<p, i>>].key = k
        /\ poll'[<<p, i>>].began = poll[<<p, i>>].began
    <2>1. PollGoto(<<p, i>>, "loop") /\ "loop" \in PollPCs
      BY <1>1 DEF PollPCs
    <2> QED
      BY <1>2, <2>1, MovesAtKey
  <1>7. SomeAt(p, k, {"write"}) /\ SomeAt(p, k, {"remove", "write"}) /\ Wanted(p, k)
    BY <1>3, AtStands DEF SomeAt, Wanted
  <1>8. ~Kept(p, k)
    BY <1>7 DEF Kept
  <1>9. /\ claim'[k] = Own(p, "held") \/ (claim'[k].st = "none" /\ SomeAt(p, k, {"open"})')
        /\ Clean(p, k) => claim'[k] = Own(p, "held")
    <2>1. CASE claim[k].st = "none" /\ SomeAt(p, k, {"open"})
      <3>1. SomeAt(p, k, {"open"})'
        <4>1. PICK n \in Polls : Stands(p, n, k, "open")
          BY <2>1, AtStands DEF SomeAt
        <4>2. n # i
          BY <1>1, <4>1 DEF Stands
        <4> QED
          BY <1>6, <4>1, <4>2 DEF SomeAt, At, Stands
      <3>2. claim' = claim
        BY <1>4, <2>1
      <3>3. ~Clean(p, k)
        BY <1>7, <1>8, <2>1 DEF Clean, Own
      <3> QED
        BY <2>1, <3>1, <3>2, <3>3
    <2>2. CASE claim[k] = Own(p, "empty")
      <3>1. claim'[k] = [claim[k] EXCEPT !.st = "held"]
        BY <1>0, <1>4, <2>2 DEF Own
      <3> QED
        BY <2>2, <3>1, WrittenClaim
    <2>3. CASE claim[k] = Own(p, "held")
      BY <1>4, <2>3 DEF Own
    <2> QED
      BY <1>3, <1>7, <2>1, <2>2, <2>3 DEF KeyClaims
  <1>10. Clean(p, k) => Kept(p, k)'
    <2> SUFFICES ASSUME Clean(p, k) PROVE ~SomeAt(p, k, {"remove", "write"})'
      BY <1>9 DEF Kept, Own
    <2>1. ~SomeAt(p, k, {"remove"})
          /\ \A n, m \in Polls : At(p, n, k, {"write"}) /\ At(p, m, k, {"write"}) => n = m
      BY <1>7, <1>8 DEF Clean
    <2>2. \A n \in Polls : n # i => ~Stands(p, n, k, "remove") /\ ~Stands(p, n, k, "write")
      BY <1>3, <2>1, AtStands DEF SomeAt
    <2> QED
      BY <1>6, <2>2 DEF SomeAt, At, Stands
  <1>11. Wanted(p, k)' =>
          \/ claim'[k].st = "none" /\ SomeAt(p, k, {"open"})'
          \/ claim'[k] = Own(p, "held")
    BY <1>9
  <1>12. \A n \in Polls : At(p, n, k, Claimings)' => At(p, n, k, Claimings)
    BY <1>6 DEF At, Claimings
  <1>13. CASE k \in active[p] /\ UNCHANGED <<active, job>>
    <2>1. \A j \in Jobs : job'[j] = job[j] /\ (Taken(j)' <=> Taken(j))
      BY <1>13 DEF Taken
    <2>2. \A n \in Polls : k \in poll'[<<p, n>>].began =>
            /\ k \in active'[p] \/ Clean(p, k)'
            /\ At(p, n, k, Claimings)' => Clean(p, k)'
      BY <1>3, <1>6, <1>10, <1>12, <1>13 DEF KeyClaims, Clean
    <2>3. KeyClaims(p, k)'
      BY <1>3, <1>8, <1>11, <1>13, <2>1, <2>2 DEF KeyClaims, Own
    <2>4. "loop" \in PollPCs /\ poll[<<p, i>>].pc \in Claimings
      BY <1>1 DEF PollPCs, Claimings
    <2> QED
      BY <1>1, <1>2, <1>5, <1>13, <2>1, <2>3, <2>4, AtItsKey
  <1> DEFINE new == [st |-> "calling", pid |-> p, key |-> k,
                     items |-> Bundle(poll[<<p, i>>].seen, k), tries |-> 0]
  <1>14. CASE /\ k \notin active[p]
              /\ FreeJobs # {}
              /\ active' = [active EXCEPT ![p] = @ \cup {k}]
              /\ job' = [job EXCEPT ![FirstFree] = new]
    <2>0. new.st = "calling" /\ new.pid = p /\ new.key = k
      OBVIOUS
    <2>1. FirstFree \in Jobs /\ ~Taken(FirstFree)
      BY <1>14, FirstFreeIsFree DEF FreeJobs, Taken
    <2> HIDE DEF new
    <2>2. \A j \in Jobs : job'[j] = IF j = FirstFree THEN new ELSE job[j]
      BY <1>0, <1>14
    <2>3. \A j \in Jobs : Taken(j) => job[j].key # k
      BY <1>3, <1>8, <1>14 DEF KeyClaims
    <2>4. \A j \in Jobs : Taken(j)' => j = FirstFree \/ Taken(j)
      BY <2>2 DEF Taken
    <2>5. \A j \in Jobs : Taken(j)' /\ job'[j].key = k => j = FirstFree
      BY <2>2, <2>3, <2>4
    <2>6. k \in active'[p] /\ \A q \in Pids : q # p => active'[q] = active[q]
          /\ \A m \in Keys : m # k => (m \in active'[p] <=> m \in active[p])
      BY <1>0, <1>14
    <2>7. \A n \in Polls : k \in poll'[<<p, n>>].began =>
            /\ k \in active'[p]
            /\ At(p, n, k, Claimings)' => Clean(p, k)'
      BY <1>3, <1>6, <1>10, <1>12, <2>6 DEF KeyClaims, Clean
    <2>8. \A j \in Jobs : Taken(j)' /\ job'[j].key = k =>
            k \in active'[p] /\ job'[j].st \in Unanswered
      BY <2>0, <2>2, <2>5, <2>6 DEF Unanswered
    <2>9. \A j, l \in Jobs : Taken(j)' /\ Taken(l)' /\ job'[j].key = k /\ job'[l].key = k => j = l
      BY <2>5
    <2>10. KeyClaims(p, k)'
      BY <1>11, <2>7, <2>8, <2>9 DEF KeyClaims, Own
    <2>11. "loop" \in PollPCs /\ poll[<<p, i>>].pc \in Claimings
      BY <1>1 DEF PollPCs, Claimings
    <2>12. \A j \in Jobs : \/ Taken(j) /\ job'[j] = job[j]
                           \/ ~Taken(j) /\ ~Taken(j)'
                           \/ ~Taken(j) /\ job'[j].key = k /\ job'[j].pid = p
      BY <2>0, <2>1, <2>2, <2>4
    <2>13. \A q \in Pids : q # p => active'[q] = active[q]
      BY <2>6
    <2>14. \A m \in Keys : m # k => (m \in active'[p] <=> m \in active[p])
      BY <1>0, <1>14
    <2> QED
      BY <1>1, <1>2, <1>5, <2>10, <2>11, <2>12, <2>13, <2>14, AtItsKey
  <1> QED
    BY <1>2, <1>13, <1>14 DEF WriteClaim, FirstFree

-----------------------------------------------------------------------------
(* A task that outlasted the polls at its key has its claim for itself.    *)
LEMMA OutlastedIsKept ==
    ASSUME TypeInv, Claims, NEW j \in Jobs, Taken(j), Outlasted(j)
    PROVE  Kept(job[j].pid, job[j].key)
  <1>1. PICK p \in Pids, k \in Keys : p = job[j].pid /\ k = job[j].key
    BY DEF TypeInv, Bundled
  <1>2. \A i \in Polls : poll[<<p, i>>].pc \in PollPCs
    BY PoolTypes DEF TypeInv, TypeOK, PollType
  <1>3. \A i \in Polls : ~At(p, i, k, {"open"}) /\ ~At(p, i, k, {"write"})
                         /\ ~At(p, i, k, {"remove", "write"})
    BY <1>1, <1>2 DEF Outlasted, Claiming, At, PollPCs
  <1>4. Wanted(p, k)
    BY <1>1 DEF Wanted
  <1>5. claim[k] = Own(p, "held")
    BY <1>3, <1>4 DEF Claims, ClaimsAreOwn, SomeAt
  <1> QED
    BY <1>1, <1>3, <1>5 DEF Kept, SomeAt

LEMMA ClaimsOfMove ==
    ASSUME TypeInv, Claims, UNCHANGED <<claim, poll, owner>>,
           NEW j \in Jobs, Taken(j), NEW l \in JobSts, Moves(j, l),
           l \in Unanswered \/ Kept(job[j].pid, job[j].key),
           \/ UNCHANGED active
           \/ Leaves(j) /\ Kept(job[j].pid, job[j].key)
    PROVE  Claims'
  <1>1. \A i \in Jobs : Taken(i)' =>
           /\ Taken(i)
           /\ job'[i].pid = job[i].pid
           /\ job'[i].key = job[i].key
           /\ \/ job'[i].st = job[i].st
              \/ job'[i].st \in Unanswered
              \/ Kept(job[i].pid, job[i].key)
    <2> SUFFICES ASSUME NEW i \in Jobs, Taken(i)'
                 PROVE  /\ Taken(i)
                        /\ job'[i].pid = job[i].pid
                        /\ job'[i].key = job[i].key
                        /\ \/ job'[i].st = job[i].st
                           \/ job'[i].st \in Unanswered
                           \/ Kept(job[i].pid, job[i].key)
      OBVIOUS
    <2>1. CASE i = j
      BY <2>1 DEF Moves
    <2>2. CASE i # j
      BY <2>2 DEF Moves, Taken
    <2> QED
      BY <2>1, <2>2
  <1>2. active \in [Pids -> SUBSET Keys]
    BY DEF TypeInv, TypeOK, PoolTypeOK
  <1>3. CASE UNCHANGED active
    BY <1>1, <1>3, ClaimsOfTasks
  <1>4. CASE Leaves(j) /\ Kept(job[j].pid, job[j].key)
    <2>1. PICK p \in Pids, k \in Keys : p = job[j].pid /\ k = job[j].key
      BY DEF TypeInv, Bundled
    <2>2. active' = [active EXCEPT ![p] = @ \ {k}] /\ Kept(p, k)
      BY <1>4, <2>1 DEF Leaves
    <2>3. /\ \A q \in Pids : active'[q] \subseteq active[q]
          /\ \A q \in Pids : \A m \in active[q] \ active'[q] : q = p /\ m = k
      BY <1>2, <2>2
    <2> QED
      BY <1>1, <2>2, <2>3, ClaimsOfTasks
  <1> QED
    BY <1>3, <1>4

LEMMA ClaimsOfTaskSteps ==
    ASSUME TypeInv, Claims, OneOwner, NEW j \in Jobs, Serving(j) \/ Failing(j)
    PROVE  Claims'
  <1>0. job \in [Jobs -> JobType]
    BY PoolTypes DEF TypeInv, TypeOK
  <1>1. CASE StartSession(j)
    <2>1. Taken(j) /\ Moves(j, "session") /\ UNCHANGED <<claim, poll, active, owner>>
      BY <1>0, <1>1, SessionMoves DEF StartSession, Taken, leaseVars
    <2> QED
      BY <2>1, ClaimsOfMove DEF JobSts, Unanswered
  <1>2. CASE RetryCall(j)
    <2>1. Taken(j) /\ Moves(j, "calling") /\ UNCHANGED <<claim, poll, active, owner>>
      BY <1>0, <1>2, SessionMoves DEF RetryCall, Taken, leaseVars
    <2> QED
      BY <2>1, ClaimsOfMove DEF JobSts, Unanswered
  <1>3. CASE EndSession(j)
    <2>1. Taken(j) /\ Moves(j, "answered") /\ UNCHANGED <<claim, poll, active, owner>>
          /\ Outlasted(j)
      BY <1>0, <1>3, SessionMoves DEF EndSession, Taken, processVars
    <2>2. "answered" \in JobSts
      BY DEF JobSts
    <2> QED
      BY <2>1, <2>2, OutlastedIsKept, ClaimsOfMove
  <1>4. CASE CloseChild(j)
    <2>1. Taken(j) /\ Moves(j, "releasing") /\ Leaves(j) /\ UNCHANGED <<claim, poll, owner>>
          /\ job[j].st = "answered"
      BY <1>0, <1>4, SessionMoves DEF CloseChild, Taken, leaseVars
    <2>2. Kept(job[j].pid, job[j].key)
      BY <2>1 DEF Claims, TasksWait, Unanswered
    <2>3. "releasing" \in JobSts
      BY DEF JobSts
    <2> QED
      BY <2>1, <2>2, <2>3, ClaimsOfMove
  <1>5. CASE ReleaseClaim(j)
    BY <1>5, ClaimsOfRelease
  <1>6. ASSUME ConnectionError(j), Taken(j), UNCHANGED <<claim, poll, owner>>
        PROVE  Claims'
    <2>1. CASE Moves(j, "waiting") /\ UNCHANGED active
      BY <1>6, <2>1, ClaimsOfMove DEF JobSts, Unanswered
    <2>2. CASE Moves(j, "releasing") /\ Leaves(j) /\ Outlasted(j)
      <3>1. "releasing" \in JobSts
        BY DEF JobSts
      <3> QED
        BY <1>6, <2>2, <3>1, OutlastedIsKept, ClaimsOfMove
    <2> QED
      BY <1>0, <1>6, <2>1, <2>2, ErrorMoves
  <1>7. CASE RefuseCall(j)
    BY <1>6, <1>7 DEF RefuseCall, Taken, leaseVars
  <1>8. CASE DropCall(j)
    BY <1>6, <1>8 DEF DropCall, Taken, processVars
  <1>9. CASE TimeOutCall(j)
    <2>1. Taken(j) /\ Moves(j, "releasing") /\ Leaves(j) /\ UNCHANGED <<claim, poll, owner>>
          /\ Outlasted(j)
      BY <1>0, <1>9, SessionMoves DEF TimeOutCall, Taken, processVars
    <2>2. "releasing" \in JobSts
      BY DEF JobSts
    <2> QED
      BY <2>1, <2>2, OutlastedIsKept, ClaimsOfMove
  <1>10. CASE HangSession(j)
    <2>1. Taken(j) /\ Moves(j, "hung") /\ UNCHANGED <<claim, poll, active, owner>>
      BY <1>0, <1>10, SessionMoves DEF HangSession, Taken, processVars
    <2> QED
      BY <2>1, ClaimsOfMove DEF JobSts, Unanswered
  <1> QED
    BY <1>1, <1>2, <1>3, <1>4, <1>5, <1>7, <1>8, <1>9, <1>10 DEF Serving, Failing

(* The watchdog waits until every poll under way began with the key in the *)
(* pool, and those leave its claim alone.                                  *)
LEMMA ClaimsOfWatchdog ==
    ASSUME TypeInv, Claims, NEW p \in Pids, NEW k \in Keys, WatchdogEvicts(p, k)
    PROVE  Claims'
  <1>1. PICK j \in Jobs : job[j].pid = p /\ job[j].key = k /\ job[j].st \in {"hung", "waiting"}
    BY DEF WatchdogEvicts
  <1>2. Taken(j) /\ ~NoTask(k)
    BY <1>1 DEF Taken, NoTask
  <1>3. Kept(p, k)
    <2>1. CASE Outlasted(j)
      BY <1>1, <1>2, <2>1, OutlastedIsKept
    <2>2. CASE ~Outlasted(j)
      <3>1. PICK i \in Polls : poll[<<p, i>>].key = k /\ poll[<<p, i>>].pc \notin {"idle", "loop"}
        BY <1>1, <2>2 DEF Outlasted, Claiming
      <3>2. poll[<<p, i>>].pc \in PollPCs
        BY PoolTypes DEF TypeInv, TypeOK, PollType
      <3>3. At(p, i, k, Claimings)
        BY <3>1, <3>2 DEF At, Claimings, PollPCs
      <3>4. k \in poll[<<p, i>>].began
        BY <3>1 DEF WatchdogEvicts
      <3>5. Clean(p, k)
        BY <3>3, <3>4 DEF Claims, CleanOnceLeft
      <3> QED
        BY <1>2, <3>5 DEF Clean
    <2> QED
      BY <2>1, <2>2
  <1>4. active' = [active EXCEPT ![p] = @ \ {k}] /\ UNCHANGED <<claim, poll, job, owner>>
    BY DEF WatchdogEvicts, processVars
  <1>5. active \in [Pids -> SUBSET Keys]
    BY DEF TypeInv, TypeOK, PoolTypeOK
  <1>6. /\ \A q \in Pids : active'[q] \subseteq active[q]
        /\ \A q \in Pids : \A m \in active[q] \ active'[q] : q = p /\ m = k
    BY <1>4, <1>5
  <1> QED
    BY <1>3, <1>4, <1>6, ClaimsOfTasks DEF Taken

LEMMA ClaimsOfPolling ==
    ASSUME TypeInv, TypeInv', Claims, OneOwner, NEW p \in Pids, NEW i \in Polls, Polling(p, i)
    PROVE  Claims'
  <1>1. UNCHANGED owner
    BY DEF Polling, StartPoll, NextTask, OpenClaim, InspectClaim, RemoveClaim, WriteClaim, leaseVars
  <1>2. owner[p]
    <2>1. CASE StartPoll(p, i)
      BY <2>1 DEF StartPoll
    <2>2. CASE ~StartPoll(p, i)
      <3>1. poll[<<p, i>>].pc # "idle"
        BY <2>2 DEF Polling, NextTask, OpenClaim, InspectClaim, RemoveClaim, WriteClaim
      <3> QED
        BY <3>1, PollerOwns DEF Claims
    <2> QED
      BY <2>1, <2>2
  <1>3. OneOwner' /\ owner'[p]
    BY <1>1, <1>2 DEF OneOwner
  <1>4. OwnerClaims(p)
    BY <1>2, ClaimsOfOwner
  <1>5. OwnerClaims(p)'
    BY <1>2, <1>4, StartPollClaims, NextTaskClaims, OpenClaimClaims, InspectClaimClaims,
       RemoveClaimClaims, WriteClaimClaims DEF Polling
  <1> QED
    BY <1>3, <1>5, ClaimsOfOwnerAfter

LEMMA FaultsStay == [Next]_vars => faults \subseteq faults'
  BY BridgeMovesLease
  DEF LeaseMove, LeaseNext, OutsideLease, StartProcess, Acquiring, AskForLease, RemoveLock,
      RetryAcquire, WriteLock, RenewLease, CrashProcess, ShutdownProcess, Gone, Suspend,
      WakeUp, LockAges, Fault

(* While nobody was suspended, the claims are in order.                    *)
ClaimInv == TypeInv /\ LeaseInv /\ ("slept" \notin faults => Claims)

LEMMA ClaimInvNext == Staggered /\ ClaimInv /\ [Next]_vars => ClaimInv'
  <1> SUFFICES ASSUME Staggered, ClaimInv, [Next]_vars PROVE ClaimInv'
    OBVIOUS
  <1>1. TypeInv' /\ LeaseInv' /\ TypeInv /\ LeaseInv
    BY TypeInvNext, LeaseInvNext, BridgeMovesLease DEF ClaimInv
  <1>2. faults \subseteq faults'
    BY FaultsStay
  <1> SUFFICES ASSUME "slept" \notin faults' PROVE Claims'
    BY <1>1 DEF ClaimInv
  <1>3. Claims /\ "slept" \notin faults
    BY <1>2 DEF ClaimInv
  <1>4. OneOwner /\ \A p \in Pids : owner[p] => Awake(p)
    BY <1>1, <1>3 DEF LeaseInv, OneOwner, Awake
  <1>5. ASSUME UNCHANGED poolVars, UNCHANGED owner PROVE Claims'
    BY <1>1, <1>3, <1>5, ClaimsStay DEF poolVars
  <1>6. CASE LeaseStep
    <2>1. UNCHANGED owner /\ UNCHANGED poolVars
      BY <1>6
      DEF LeaseStep, LockAges, StartProcess, Acquiring, AskForLease, RemoveLock,
          RetryAcquire, RenewLease, Suspend, WakeUp
    <2> QED
      BY <1>5, <2>1
  <1>7. ASSUME NEW p \in Pids, LeaseAcquired(p) PROVE Claims'
    <2>1. acq[p] = "write"
      BY <1>7 DEF LeaseAcquired, WriteLock
    <2>2. \A q \in Pids : ~owner[q]
      BY <1>1, <1>3, <2>1 DEF LeaseInv
    <2> QED
      BY <1>1, <1>3, <1>7, <2>2, ClaimsOfLease
  <1>8. ASSUME NEW p \in Pids, ProcessEnds(p) PROVE Claims'
    BY <1>1, <1>3, <1>4, <1>8, ClaimsOfEnd
  <1>9. ASSUME NEW p \in Pids, ForgetTask(p) PROVE Claims'
    BY <1>1, <1>3, <1>9, ClaimsStay DEF ForgetTask, leaseVars
  <1>10. ASSUME NEW p \in Pids, NEW i \in Polls, Polling(p, i) PROVE Claims'
    BY <1>1, <1>3, <1>4, <1>10, ClaimsOfPolling
  <1>11. ASSUME NEW p \in Pids, NEW k \in Keys, WatchdogEvicts(p, k) PROVE Claims'
    BY <1>1, <1>3, <1>11, ClaimsOfWatchdog
  <1>12. ASSUME NEW j \in Jobs, Serving(j) \/ Failing(j) PROVE Claims'
    BY <1>1, <1>3, <1>4, <1>12, ClaimsOfTaskSteps
  <1>13. ASSUME NEW o \in orphans, EndOrphan(o) PROVE Claims'
    BY <1>1, <1>3, <1>13, ClaimsStay DEF EndOrphan, processVars
  <1>14. ASSUME NEW k \in Keys, ClaimAges(k) PROVE Claims'
    BY <1>1, <1>3, <1>4, <1>14, ClaimsOfAging
  <1>15. ASSUME NEW d \in Deliveries, Arrive(d) PROVE Claims'
    BY <1>1, <1>3, <1>15, ClaimsStay DEF Arrive, leaseVars
  <1>16. CASE UNCHANGED vars
    BY <1>5, <1>16 DEF vars, leaseVars
  <1> QED
    BY <1>6, <1>7, <1>8, <1>9, <1>10, <1>11, <1>12, <1>13, <1>14, <1>15, <1>16 DEF Next

LEMMA ClaimInvHolds == Staggered /\ Spec => []ClaimInv
  <1> SUFFICES ASSUME Staggered PROVE Spec => []ClaimInv
    OBVIOUS
  <1>1. Init => ClaimInv
    BY TypeInvInit, LeaseInvInit, ClaimsInit DEF Init, ClaimInv
  <1>2. ClaimInv /\ [Next]_vars => ClaimInv'
    BY ClaimInvNext
  <1> QED
    BY <1>1, <1>2, PTL DEF Spec

(* One conversation, one session, for any number of processes, overlapping *)
(* polls, claim keys and tasks: the claim files keep two calls from having *)
(* a session for the same key, whatever crashes, restarts, is evicted from *)
(* the pool or was left behind by a dead process, as long as no process is *)
(* suspended and no two ask for the lease at the same moment.              *)
THEOREM OneSession == Staggered /\ Spec => []OneSessionPerKey
  <1>1. ClaimInv => OneSessionPerKey
    BY DEF ClaimInv, Claims, OneTaskPerKey, OneSessionPerKey, InSession, Taken
  <1> QED
    BY <1>1, ClaimInvHolds, PTL

(* The claim outlives the pool entry: under the same hypotheses a task that*)
(* was spawned holds the claim file of its key until its child ends, or a  *)
(* poll of its own process is just about to write that file again.         *)
THEOREM ClaimIsHeld == Staggered /\ Spec => []ClaimHeld
  <1>1. ClaimInv => ClaimHeld
    <2> SUFFICES ASSUME ClaimInv, "slept" \notin faults, NEW j \in Jobs, Spawned(j)
                 PROVE  \/ /\ claim[job[j].key].st = "held"
                           /\ claim[job[j].key].pid = job[j].pid
                        \/ Claiming(job[j].pid, job[j].key)
      BY DEF ClaimHeld
    <2>1. Taken(j) /\ TypeInv /\ Claims
      BY DEF Spawned, Taken, ClaimInv
    <2>2. CASE Outlasted(j)
      <3>1. Kept(job[j].pid, job[j].key)
        BY <2>1, <2>2, OutlastedIsKept
      <3> QED
        BY <3>1 DEF Kept, Own
    <2> QED
      BY <2>2 DEF Outlasted
  <1> QED
    BY <1>1, ClaimInvHolds, PTL

-----------------------------------------------------------------------------
(* A task is started once.  A started task is in its session, or its       *)
(* deliveries are archived and its key is still in the pool, or every poll *)
(* that knows the delivery from an older inbox is past it for good.        *)
Steady == {"ended", "slept"} \cap faults = {}

InPoolUntilEvicted == \A j \in Jobs :
    Spawned(j) /\ job[j].key \notin evicted => job[j].key \in active[job[j].pid]

HasTask(j, d) ==
    /\ Taken(j)
    /\ TaskId(job[j].items) = d
    /\ \/ job[j].st \in {"session", "hung"}
       \/ /\ job[j].st = "answered"
          /\ inbox[d] = "archived"
          /\ ~Claiming(job[j].pid, job[j].key)

AboutToStart(p, i, d) ==
    At(p, i, KeyOf[d], Claimings) /\ Best(Bundle(poll[<<p, i>>].seen, KeyOf[d])) = d

Over(d) ==
    /\ inbox[d] = "archived"
    /\ \A p \in Pids, i \in Polls : d \in poll[<<p, i>>].seen =>
          RecentlyHandled(p, d) /\ ~AboutToStart(p, i, d)

Waits(j, d) == Taken(j) /\ TaskId(job[j].items) = d /\ job[j].st \in {"calling", "waiting"}

StartsOf(d) ==
    /\ starts[d] <= 1
    /\ \A j \in Jobs : Waits(j, d) => starts[d] = 0
    /\ starts[d] >= 1 => Over(d) \/ \E j \in Jobs : HasTask(j, d)

StartsOnce == \A d \in Deliveries : Undisturbed(d) => StartsOf(d)

(* Where a delivery is neither started nor forgotten.                      *)
LEMMA StartsStay ==
    ASSUME NEW d, StartsOf(d), UNCHANGED starts,
           \A j \in Jobs : Waits(j, d)' => Waits(j, d),
           \A j \in Jobs : HasTask(j, d) => HasTask(j, d)' \/ Over(d)',
           Over(d) => Over(d)'
    PROVE  StartsOf(d)'
  BY DEF StartsOf

LEMMA OverStays ==
    ASSUME NEW d \in Deliveries, Over(d), inbox'[d] = "archived",
           \A p \in Pids, i \in Polls : d \in poll'[<<p, i>>].seen =>
              /\ d \in poll[<<p, i>>].seen
              /\ AboutToStart(p, i, d)' => AboutToStart(p, i, d)
              /\ RecentlyHandled(p, d) => RecentlyHandled(p, d)'
    PROVE  Over(d)'
  BY DEF Over

LEMMA HasTaskStays ==
    ASSUME NEW d, NEW j \in Jobs, job'[j] = job[j], HasTask(j, d),
           NEW p, NEW k, p = job[j].pid, k = job[j].key,
           inbox[d] = "archived" => inbox'[d] = "archived",
           job[j].st = "answered" /\ ~Claiming(p, k) =>
              \A i \in Polls : poll'[<<p, i>>].key = k => poll'[<<p, i>>].pc \in {"idle", "loop"}
    PROVE  HasTask(j, d)'
  <1>1. Taken(j)' /\ TaskId(job'[j].items) = d
    BY DEF HasTask, Taken
  <1>2. CASE job[j].st \in {"session", "hung"}
    BY <1>1, <1>2 DEF HasTask
  <1>3. CASE job[j].st = "answered" /\ inbox[d] = "archived" /\ ~Claiming(job[j].pid, job[j].key)
    <2>1. Claiming(p, k)' <=> \E i \in Polls : poll'[<<p, i>>].key = k /\ poll'[<<p, i>>].pc \notin {"idle", "loop"}
      BY DEF Claiming
    <2>2. ~Claiming(p, k)'
      BY <1>3, <2>1
    <2>3. job'[j].pid = p /\ job'[j].key = k
      OBVIOUS
    <2>4. ~Claiming(job[j].pid, job[j].key)'
      BY <2>2, <2>3 DEF Claiming
    <2> QED
      BY <1>1, <1>3, <2>4 DEF HasTask
  <1> QED
    BY <1>2, <1>3 DEF HasTask

LEMMA WaitsStays ==
    ASSUME NEW d, NEW j \in Jobs, job'[j] = job[j], Waits(j, d)' PROVE Waits(j, d)
  BY DEF Waits, Taken

(* Steps that touch neither the tasks nor the polls.                       *)
LEMMA StartsElsewhere ==
    ASSUME NEW d \in Deliveries, StartsOf(d), UNCHANGED <<starts, job, poll>>,
           inbox[d] = "archived" => inbox'[d] = "archived",
           \A p \in Pids : (\E i \in Polls : d \in poll[<<p, i>>].seen) /\ RecentlyHandled(p, d) =>
              RecentlyHandled(p, d)'
    PROVE  StartsOf(d)'
  <1>1. \A j \in Jobs : job'[j] = job[j]
    OBVIOUS
  <1>2. \A j \in Jobs : HasTask(j, d) => HasTask(j, d)'
    <2> SUFFICES ASSUME NEW j \in Jobs, HasTask(j, d) PROVE HasTask(j, d)'
      OBVIOUS
    <2>1. PICK p, k : p = job[j].pid /\ k = job[j].key
      OBVIOUS
    <2>2. ~Claiming(p, k) => \A i \in Polls : poll'[<<p, i>>].key = k => poll'[<<p, i>>].pc \in {"idle", "loop"}
      BY DEF Claiming
    <2> QED
      BY <1>1, <2>1, <2>2, HasTaskStays
  <1>3. \A j \in Jobs : Waits(j, d)' => Waits(j, d)
    BY <1>1, WaitsStays
  <1>4. Over(d) => Over(d)'
    <2>1. \A p \in Pids, i \in Polls : AboutToStart(p, i, d)' => AboutToStart(p, i, d)
      BY DEF AboutToStart, At
    <2>2. Over(d) => inbox[d] = "archived"
      BY DEF Over
    <2> QED
      BY <2>1, <2>2, OverStays
  <1> QED
    BY <1>2, <1>3, <1>4, StartsStay

LEMMA ArchivedStays ==
    ASSUME TypeInv, NEW S, Archive(S), NEW d \in Deliveries
    PROVE  /\ inbox[d] = "archived" => inbox'[d] = "archived"
           /\ "unarchived" \notin faults' /\ d \in S => inbox'[d] = "archived"
  BY DEF Archive, TypeInv, TypeOK, PoolTypeOK, Fault

-----------------------------------------------------------------------------
(* Where one task moves and the polls stay.                                *)
LEMMA StartsOfTask ==
    ASSUME NEW d \in Deliveries, StartsOf(d), NEW j \in Jobs, UNCHANGED <<starts, poll>>,
           \A i \in Jobs : i # j => job'[i] = job[i],
           inbox[d] = "archived" => inbox'[d] = "archived",
           \A p \in Pids : (\E i \in Polls : d \in poll[<<p, i>>].seen) /\ RecentlyHandled(p, d) =>
              RecentlyHandled(p, d)',
           Waits(j, d)' => Waits(j, d),
           HasTask(j, d) => HasTask(j, d)' \/ Over(d)'
    PROVE  StartsOf(d)'
  <1>1. \A i \in Jobs : HasTask(i, d) => HasTask(i, d)' \/ Over(d)'
    <2> SUFFICES ASSUME NEW i \in Jobs, i # j, HasTask(i, d) PROVE HasTask(i, d)'
      OBVIOUS
    <2>1. PICK p, k : p = job[i].pid /\ k = job[i].key
      OBVIOUS
    <2>2. ~Claiming(p, k) => \A n \in Polls : poll'[<<p, n>>].key = k => poll'[<<p, n>>].pc \in {"idle", "loop"}
      BY DEF Claiming
    <2> QED
      BY <2>1, <2>2, HasTaskStays
  <1>2. \A i \in Jobs : Waits(i, d)' => Waits(i, d)
    BY WaitsStays
  <1>3. Over(d) => Over(d)'
    <2>1. \A p \in Pids, i \in Polls : AboutToStart(p, i, d)' => AboutToStart(p, i, d)
      BY DEF AboutToStart, At
    <2>2. Over(d) => inbox[d] = "archived"
      BY DEF Over
    <2> QED
      BY <2>1, <2>2, OverStays
  <1> QED
    BY <1>1, <1>2, <1>3, StartsStay

(* Where one poll goes on and the tasks stay.                              *)
LEMMA StartsOfPoll ==
    ASSUME NEW d \in Deliveries, StartsOf(d), UNCHANGED <<starts, job, inbox, recent>>,
           \A j \in Jobs : \A q, k : HasTask(j, d) /\ job[j].st = "answered" /\ q = job[j].pid /\ k = job[j].key =>
              \A n \in Polls : poll'[<<q, n>>].key = k /\ poll'[<<q, n>>].pc \notin {"idle", "loop"} =>
                 poll[<<q, n>>].key = k /\ poll[<<q, n>>].pc \notin {"idle", "loop"},
           Over(d) => \A q \in Pids, n \in Polls : d \in poll'[<<q, n>>].seen =>
              d \in poll[<<q, n>>].seen /\ (AboutToStart(q, n, d)' => AboutToStart(q, n, d))
    PROVE  StartsOf(d)'
  <1>1. \A i \in Jobs : HasTask(i, d) => HasTask(i, d)'
    <2> SUFFICES ASSUME NEW i \in Jobs, HasTask(i, d) PROVE HasTask(i, d)'
      OBVIOUS
    <2>1. PICK p, k : p = job[i].pid /\ k = job[i].key
      OBVIOUS
    <2>2. job[i].st = "answered" /\ ~Claiming(p, k) =>
             \A n \in Polls : poll'[<<p, n>>].key = k => poll'[<<p, n>>].pc \in {"idle", "loop"}
      BY <2>1 DEF Claiming
    <2> QED
      BY <2>1, <2>2, HasTaskStays
  <1>2. \A i \in Jobs : Waits(i, d)' => Waits(i, d)
    BY WaitsStays
  <1>3. Over(d) => Over(d)'
    <2>1. \A q \in Pids : RecentlyHandled(q, d) => RecentlyHandled(q, d)'
      BY DEF RecentlyHandled
    <2>2. Over(d) => inbox[d] = "archived"
      BY DEF Over
    <2> QED
      BY <2>1, <2>2, OverStays
  <1> QED
    BY <1>1, <1>2, <1>3, StartsStay

(* What is known of a delivery whose task is there.                        *)
StartInv ==
    /\ ClaimInv
    /\ \A p \in Pids : NoneTwice(recent[p])
    /\ Steady => InPoolUntilEvicted
    /\ StartsOnce

(* A poll that goes back to its loop, or reads the claim of its key.       *)
LEMMA StartsOfGoto ==
    ASSUME TypeInv, NEW p \in Pids, NEW i \in Polls, NEW l \in PollPCs, PollGoto(<<p, i>>, l),
           poll[<<p, i>>].pc \in Claimings, UNCHANGED <<starts, job, inbox, recent>>,
           NEW d \in Deliveries, StartsOf(d)
    PROVE  StartsOf(d)'
  <1>1. poll \in [Pids \X Polls -> PollType]
    BY PoolTypes DEF TypeInv, TypeOK
  <1>2. \A q \in Pids, n \in Polls :
           /\ poll'[<<q, n>>].key = poll[<<q, n>>].key
           /\ poll'[<<q, n>>].seen = poll[<<q, n>>].seen
           /\ poll'[<<q, n>>].pc # poll[<<q, n>>].pc => poll[<<q, n>>].pc \in Claimings
    BY <1>1 DEF PollGoto, PollType
  <1>3. \A q \in Pids, n \in Polls :
           /\ d \in poll'[<<q, n>>].seen => d \in poll[<<q, n>>].seen
           /\ AboutToStart(q, n, d)' => AboutToStart(q, n, d)
    BY <1>2 DEF AboutToStart, At
  <1>4. \A j \in Jobs : \A q, k : HasTask(j, d) /\ job[j].st = "answered" /\ q = job[j].pid /\ k = job[j].key =>
          \A n \in Polls : poll'[<<q, n>>].key = k /\ poll'[<<q, n>>].pc \notin {"idle", "loop"} =>
             poll[<<q, n>>].key = k /\ poll[<<q, n>>].pc \notin {"idle", "loop"}
    <2>1. \A j \in Jobs : HasTask(j, d) => job[j].pid \in Pids
      BY DEF HasTask, TypeInv, Bundled
    <2> QED
      BY <1>2, <2>1 DEF Claimings
  <1> QED
    BY <1>3, <1>4, StartsOfPoll

LEMMA StartsOfStartPoll ==
    ASSUME TypeInv, NEW p \in Pids, NEW i \in Polls, StartPoll(p, i),
           NEW d \in Deliveries, StartsOf(d)
    PROVE  StartsOf(d)'
  <1> DEFINE S == Collapsed({e \in Deliveries : inbox[e] = "unread"})
  <1>1. poll \in [Pids \X Polls -> PollType]
    BY PoolTypes DEF TypeInv, TypeOK
  <1>2. /\ \A q \in Pids, n \in Polls : <<q, n>> # <<p, i>> => poll'[<<q, n>>] = poll[<<q, n>>]
        /\ poll'[<<p, i>>].pc = "loop"
        /\ poll'[<<p, i>>].seen = S
    BY <1>1 DEF StartPoll
  <1>3. Over(d) => d \notin S
    BY DEF Over, Collapsed
  <1> HIDE DEF S
  <1>4. Over(d) => \A q \in Pids, n \in Polls : d \in poll'[<<q, n>>].seen =>
              d \in poll[<<q, n>>].seen /\ (AboutToStart(q, n, d)' => AboutToStart(q, n, d))
    <2> SUFFICES ASSUME Over(d), NEW q \in Pids, NEW n \in Polls, d \in poll'[<<q, n>>].seen
                 PROVE  d \in poll[<<q, n>>].seen /\ (AboutToStart(q, n, d)' => AboutToStart(q, n, d))
      OBVIOUS
    <2>1. <<q, n>> # <<p, i>>
      BY <1>2, <1>3
    <2> QED
      BY <1>2, <2>1 DEF AboutToStart, At
  <1>5. \A j \in Jobs : \A q, k : HasTask(j, d) /\ job[j].st = "answered" /\ q = job[j].pid /\ k = job[j].key =>
          \A n \in Polls : poll'[<<q, n>>].key = k /\ poll'[<<q, n>>].pc \notin {"idle", "loop"} =>
             poll[<<q, n>>].key = k /\ poll[<<q, n>>].pc \notin {"idle", "loop"}
    <2>1. \A j \in Jobs : HasTask(j, d) => job[j].pid \in Pids
      BY DEF HasTask, TypeInv, Bundled
    <2>2. \A q \in Pids, n \in Polls : poll'[<<q, n>>].pc \notin {"idle", "loop"} => poll'[<<q, n>>] = poll[<<q, n>>]
      BY <1>2
    <2> QED
      BY <2>1, <2>2
  <1>6. UNCHANGED <<starts, job, inbox, recent>>
    BY DEF StartPoll
  <1> QED
    BY <1>4, <1>5, <1>6, StartsOfPoll

(* A poll passes over a key in the pool, and a task handled a moment ago.  *)
LEMMA StartsOfNextTask ==
    ASSUME TypeInv, NEW p \in Pids, NEW i \in Polls, NextTask(p, i), InPoolUntilEvicted,
           NEW d \in Deliveries, KeyOf[d] \notin evicted, StartsOf(d)
    PROVE  StartsOf(d)'
  <1>1. poll \in [Pids \X Polls -> PollType]
    BY PoolTypes DEF TypeInv, TypeOK
  <1>6. UNCHANGED <<starts, job, inbox, recent>>
    BY DEF NextTask
  <1>2. CASE poll' = [poll EXCEPT ![<<p, i>>] = NoPoll]
    <2>1. /\ \A q \in Pids, n \in Polls : <<q, n>> # <<p, i>> => poll'[<<q, n>>] = poll[<<q, n>>]
          /\ poll'[<<p, i>>].pc = "idle"
          /\ poll'[<<p, i>>].seen = {}
      BY <1>1, <1>2 DEF NoPoll
    <2>2. \A q \in Pids, n \in Polls : d \in poll'[<<q, n>>].seen =>
              d \in poll[<<q, n>>].seen /\ (AboutToStart(q, n, d)' => AboutToStart(q, n, d))
      BY <2>1 DEF AboutToStart, At
    <2>3. \A j \in Jobs : HasTask(j, d) => job[j].pid \in Pids
      BY DEF HasTask, TypeInv, Bundled
    <2>4. \A q \in Pids, n \in Polls : poll'[<<q, n>>].pc \notin {"idle", "loop"} => poll'[<<q, n>>] = poll[<<q, n>>]
      BY <2>1
    <2>5. \A j \in Jobs : \A q, k : HasTask(j, d) /\ job[j].st = "answered" /\ q = job[j].pid /\ k = job[j].key =>
          \A n \in Polls : poll'[<<q, n>>].key = k /\ poll'[<<q, n>>].pc \notin {"idle", "loop"} =>
             poll[<<q, n>>].key = k /\ poll[<<q, n>>].pc \notin {"idle", "loop"}
      BY <2>3, <2>4
    <2> QED
      BY <1>6, <2>2, <2>5, StartsOfPoll
  <1>3. ASSUME NEW m \in Keys, NEW l \in {"loop", "open"},
               poll' = [poll EXCEPT ![<<p, i>>] =
                         [poll[<<p, i>>] EXCEPT !.todo = @ \ {m}, !.key = m, !.pc = l]],
               l = "open" => ~ Skipped(p, m, Bundle(poll[<<p, i>>].seen, m))
        PROVE  StartsOf(d)'
    <2>1. /\ \A q \in Pids, n \in Polls : <<q, n>> # <<p, i>> => poll'[<<q, n>>] = poll[<<q, n>>]
          /\ poll'[<<p, i>>].pc = l
          /\ poll'[<<p, i>>].key = m
          /\ poll'[<<p, i>>].seen = poll[<<p, i>>].seen
      BY <1>1, <1>3 DEF PollType
    <2>2. \A q \in Pids, n \in Polls : d \in poll'[<<q, n>>].seen => d \in poll[<<q, n>>].seen
      BY <2>1
    <2>3. ASSUME Over(d), NEW q \in Pids, NEW n \in Polls, d \in poll'[<<q, n>>].seen,
                 AboutToStart(q, n, d)'
          PROVE  AboutToStart(q, n, d)
      <3>1. CASE <<q, n>> # <<p, i>>
        BY <2>1, <2>3, <3>1 DEF AboutToStart, At
      <3>2. CASE <<q, n>> = <<p, i>>
        <4>1. l = "open" /\ m = KeyOf[d] /\ Best(Bundle(poll[<<p, i>>].seen, m)) = d
          BY <2>1, <2>3, <3>2 DEF AboutToStart, At, Claimings
        <4>2. RecentlyHandled(p, d)
          BY <2>2, <2>3, <3>2 DEF Over
        <4> QED
          BY <1>3, <4>1, <4>2 DEF Skipped, TaskId
      <3> QED
        BY <3>1, <3>2
    <2>4. ASSUME NEW j \in Jobs, HasTask(j, d), job[j].st = "answered", NEW q, NEW k,
                 q = job[j].pid, k = job[j].key,
                 NEW n \in Polls, poll'[<<q, n>>].key = k, poll'[<<q, n>>].pc \notin {"idle", "loop"}
          PROVE  poll[<<q, n>>].key = k /\ poll[<<q, n>>].pc \notin {"idle", "loop"}
      <3>1. q \in Pids /\ k = KeyOf[d]
        BY <2>4, TaskIdIsOne DEF HasTask, TypeInv, Bundled
      <3>2. k \in active[q]
        BY <2>4, <3>1 DEF InPoolUntilEvicted, Spawned
      <3>3. CASE <<q, n>> # <<p, i>>
        BY <2>1, <2>4, <3>1, <3>3
      <3>4. CASE <<q, n>> = <<p, i>>
        BY <1>3, <2>1, <2>4, <3>2, <3>4 DEF Skipped
      <3> QED
        BY <3>3, <3>4
    <2> QED
      BY <1>6, <2>2, <2>3, <2>4, StartsOfPoll
  <1> QED
    BY <1>2, <1>3, NextTaskMakes

-----------------------------------------------------------------------------
(* A new task is no second one: its key would be in the pool, or its poll  *)
(* would have passed over it.                                              *)
LEMMA StartsOfWrite ==
    ASSUME TypeInv, Claims, OneOwner, NEW p \in Pids, NEW i \in Polls, WriteClaim(p, i),
           InPoolUntilEvicted, NEW d \in Deliveries, KeyOf[d] \notin evicted, StartsOf(d)
    PROVE  StartsOf(d)'
  <1>0. PollGoto(<<p, i>>, "loop") /\ "loop" \in PollPCs /\ poll[<<p, i>>].pc = "write"
        /\ UNCHANGED <<starts, inbox, recent>>
    BY DEF WriteClaim, PollPCs
  <1>1. CASE UNCHANGED job
    BY <1>0, <1>1, StartsOfGoto DEF Claimings
  <1>2. CASE ~ UNCHANGED job
    <2> DEFINE k == poll[<<p, i>>].key
               N == [st |-> "calling", pid |-> p, key |-> k,
                     items |-> Bundle(poll[<<p, i>>].seen, k), tries |-> 0]
    <2>1. FreeJobs # {} /\ k \notin active[p] /\ job' = [job EXCEPT ![FirstFree] = N]
      BY <1>2 DEF WriteClaim, FirstFree
    <2>2. PICK f \in Jobs : f = FirstFree /\ ~Taken(f)
      BY <2>1, FirstFreeIsFree DEF FreeJobs, Taken
    <2>3. job \in [Jobs -> JobType] /\ poll \in [Pids \X Polls -> PollType]
      BY PoolTypes DEF TypeInv, TypeOK
    <2>4. job'[f] = N /\ \A j \in Jobs : j # f => job'[j] = job[j]
      <3> HIDE DEF N
      <3> QED
        BY <2>1, <2>2, <2>3
    <2>5. k \in Keys /\ Bundle(poll[<<p, i>>].seen, k) # {} /\ poll[<<p, i>>].seen \subseteq Deliveries
      BY <1>0, <2>3 DEF TypeInv, Bundled, Claimings, PollType
    <2>6. \A q \in Pids, n \in Polls :
             /\ poll'[<<q, n>>].key = poll[<<q, n>>].key
             /\ poll'[<<q, n>>].seen = poll[<<q, n>>].seen
             /\ poll'[<<q, n>>].pc # poll[<<q, n>>].pc =>
                   poll[<<q, n>>].pc = "write" /\ poll'[<<q, n>>].pc = "loop"
      <3> HIDE DEF k, N
      <3>1. poll' = [poll EXCEPT ![<<p, i>>].pc = "loop"] /\ poll[<<p, i>>].pc = "write"
        BY <1>0 DEF PollGoto
      <3>2. ASSUME NEW q \in Pids, NEW n \in Polls, <<q, n>> # <<p, i>>
            PROVE  poll'[<<q, n>>] = poll[<<q, n>>]
        BY <2>3, <3>1, <3>2
      <3>3. /\ poll'[<<p, i>>].key = poll[<<p, i>>].key
            /\ poll'[<<p, i>>].seen = poll[<<p, i>>].seen
            /\ poll'[<<p, i>>].pc = "loop"
        BY <2>3, <3>1 DEF PollType
      <3> QED
        BY <3>1, <3>2, <3>3
    <2>7. ASSUME NEW j \in Jobs, HasTask(j, d) PROVE HasTask(j, d)'
      <3>1. j # f /\ job[j].pid \in Pids /\ job[j].key \in Keys
        BY <2>2, <2>7 DEF HasTask, TypeInv, Bundled
      <3>2. PICK q \in Pids, m \in Keys : q = job[j].pid /\ m = job[j].key
        BY <3>1
      <3>3. ~Claiming(q, m) => \A n \in Polls : poll'[<<q, n>>].key = m => poll'[<<q, n>>].pc \in {"idle", "loop"}
        <4> HIDE DEF k, N
        <4>1. poll[<<p, i>>].pc = "write"
          BY <1>0
        <4> QED
          BY <2>6, <3>2 DEF Claiming
      <3> QED
        BY <1>0, <2>4, <2>7, <3>1, <3>2, <3>3, HasTaskStays
    <2>8. Over(d) => Over(d)'
      <3>1. Over(d) => inbox'[d] = "archived"
        BY <1>0 DEF Over
      <3>2. \A q \in Pids, n \in Polls : AboutToStart(q, n, d)' => AboutToStart(q, n, d)
        BY <2>6 DEF AboutToStart, At, Claimings
      <3>3. \A q \in Pids : RecentlyHandled(q, d) => RecentlyHandled(q, d)'
        BY <1>0 DEF RecentlyHandled
      <3> QED
        BY <2>6, <3>1, <3>2, <3>3, OverStays
    <2>9. CASE TaskId(N.items) # d
      <3>1. \A j \in Jobs : Waits(j, d)' => Waits(j, d)
        BY <2>4, <2>9 DEF Waits, Taken
      <3> QED
        BY <1>0, <2>7, <2>8, <3>1, StartsStay
    <2>10. CASE TaskId(N.items) = d
      <3>1. KeyOf[d] = k /\ Best(Bundle(poll[<<p, i>>].seen, k)) = d /\ d \in poll[<<p, i>>].seen
        <4>1. Bundle(poll[<<p, i>>].seen, k) \subseteq Deliveries
          BY <2>5 DEF Bundle
        <4>2. Best(Bundle(poll[<<p, i>>].seen, k)) = d
          BY <2>10 DEF TaskId
        <4>3. d \in Bundle(poll[<<p, i>>].seen, k)
          BY <2>5, <4>1, <4>2, BestIsOne
        <4> QED
          BY <4>2, <4>3 DEF Bundle
      <3>2. AboutToStart(p, i, d)
        BY <1>0, <3>1 DEF AboutToStart, At, Claimings
      <3>3. ~Over(d)
        BY <3>1, <3>2 DEF Over
      <3>4. \A j \in Jobs : ~HasTask(j, d)
        <4> SUFFICES ASSUME NEW j \in Jobs, HasTask(j, d) PROVE FALSE
          OBVIOUS
        <4>1. job[j].key = k /\ job[j].pid \in Pids /\ Taken(j) /\ Spawned(j)
          BY <3>1, TaskIdIsOne DEF HasTask, TypeInv, Bundled, Spawned
        <4>2. owner[p] /\ owner[job[j].pid]
          BY <1>0, <4>1, PollerOwns DEF Claims, OnlyOwnersWork
        <4>3. job[j].pid = p
          BY <4>1, <4>2 DEF OneOwner
        <4> QED
          BY <2>1, <3>1, <4>1, <4>3 DEF InPoolUntilEvicted
      <3>5. ~(starts[d] >= 1) /\ starts[d] \in Nat
        BY <3>3, <3>4 DEF StartsOf, TypeInv, TypeOK, PoolTypeOK
      <3>6. starts'[d] = 0
        BY <1>0, <3>5
      <3> QED
        BY <3>6 DEF StartsOf
    <2> QED
      BY <2>9, <2>10
  <1> QED
    BY <1>1, <1>2

LEMMA StartsOfPolling ==
    ASSUME TypeInv, Claims, OneOwner, NEW p \in Pids, NEW i \in Polls, Polling(p, i),
           InPoolUntilEvicted, NEW d \in Deliveries, KeyOf[d] \notin evicted, StartsOf(d)
    PROVE  StartsOf(d)'
  <1>1. CASE OpenClaim(p, i)
    <2>1. \E l \in PollPCs : PollGoto(<<p, i>>, l)
      BY <1>1 DEF OpenClaim, PollPCs
    <2> QED
      BY <1>1, <2>1, StartsOfGoto DEF OpenClaim, Claimings
  <1>2. CASE InspectClaim(p, i)
    <2>1. \E l \in PollPCs : PollGoto(<<p, i>>, l)
      BY <1>2 DEF InspectClaim, PollPCs
    <2> QED
      BY <1>2, <2>1, StartsOfGoto DEF InspectClaim, Claimings
  <1>3. CASE RemoveClaim(p, i)
    <2>1. \E l \in PollPCs : PollGoto(<<p, i>>, l)
      BY <1>3 DEF RemoveClaim, PollPCs
    <2> QED
      BY <1>3, <2>1, StartsOfGoto DEF RemoveClaim, Claimings
  <1> QED
    BY <1>1, <1>2, <1>3, StartsOfStartPoll, StartsOfNextTask, StartsOfWrite DEF Polling

(* A call that is taken: the first one for its task.                       *)
LEMMA StartsOfSession ==
    ASSUME TypeInv, Claims, NEW j \in Jobs, StartSession(j), NEW d \in Deliveries, StartsOf(d)
    PROVE  StartsOf(d)'
  <1>0. job \in [Jobs -> JobType] /\ starts \in [Deliveries -> Nat]
    BY PoolTypes DEF TypeInv, TypeOK, PoolTypeOK
  <1>1. Taken(j) /\ job[j].st = "calling" /\ Moves(j, "session") /\ UNCHANGED <<poll, inbox, recent>>
    BY <1>0, SessionMoves DEF StartSession, Taken
  <1>2. PICK e \in Deliveries : e = TaskId(job[j].items)
    BY <1>1, TaskIdIsOne
  <1>3. starts' = [starts EXCEPT ![e] = @ + 1]
    BY <1>2 DEF StartSession
  <1>4. \A i \in Jobs : i # j => job'[i] = job[i]
    BY <1>1 DEF Moves
  <1>5. CASE d # e
    <2>1. UNCHANGED starts[d]
      BY <1>0, <1>3, <1>5
    <2>2. ~Waits(j, d)' /\ ~HasTask(j, d)
      BY <1>1, <1>2, <1>5 DEF Waits, HasTask, Moves
    <2>3. \A i \in Jobs : HasTask(i, d) => HasTask(i, d)'
      <3> SUFFICES ASSUME NEW i \in Jobs, HasTask(i, d) PROVE HasTask(i, d)'
        OBVIOUS
      <3>1. PICK p, k : p = job[i].pid /\ k = job[i].key
        OBVIOUS
      <3>2. ~Claiming(p, k) => \A n \in Polls : poll'[<<p, n>>].key = k => poll'[<<p, n>>].pc \in {"idle", "loop"}
        BY <1>1 DEF Claiming
      <3> QED
        BY <1>1, <1>4, <2>2, <3>1, <3>2, HasTaskStays
    <2>4. \A i \in Jobs : Waits(i, d)' => Waits(i, d)
      BY <1>4, <2>2, WaitsStays
    <2>5. Over(d) => Over(d)'
      BY <1>1 DEF Over, AboutToStart, At, RecentlyHandled
    <2> QED
      BY <2>1, <2>3, <2>4, <2>5 DEF StartsOf
  <1>6. CASE d = e
    <2>1. Waits(j, d)
      BY <1>1, <1>2, <1>6 DEF Waits
    <2>2. starts[d] = 0 /\ starts'[d] = 1
      BY <1>0, <1>3, <1>6, <2>1 DEF StartsOf
    <2>3. HasTask(j, d)'
      BY <1>1, <1>2, <1>6 DEF Moves, HasTask, Taken
    <2>4. \A i \in Jobs : ~Waits(i, d)'
      <3> SUFFICES ASSUME NEW i \in Jobs, Waits(i, d)' PROVE FALSE
        OBVIOUS
      <3>1. i # j
        BY <1>1 DEF Waits, Moves
      <3>2. Waits(i, d)
        BY <1>4, <3>1, WaitsStays
      <3>3. job[i].key = job[j].key
        BY <2>1, <3>2, TaskIdIsOne DEF Waits
      <3> QED
        BY <1>1, <3>1, <3>2, <3>3 DEF Waits, Claims, OneTaskPerKey
    <2> QED
      BY <2>2, <2>3, <2>4 DEF StartsOf
  <1> QED
    BY <1>5, <1>6

-----------------------------------------------------------------------------
(* A session that ends leaves its deliveries archived.                     *)
LEMMA StartsOfEnd ==
    ASSUME TypeInv, NEW j \in Jobs, EndSession(j), "unarchived" \notin faults',
           NEW d \in Deliveries, StartsOf(d)
    PROVE  StartsOf(d)'
  <1>0. job \in [Jobs -> JobType]
    BY PoolTypes DEF TypeInv, TypeOK
  <1>1. Moves(j, "answered") /\ Taken(j) /\ Outlasted(j) /\ job[j].st = "session"
        /\ UNCHANGED <<starts, poll, recent>>
    BY <1>0, SessionMoves DEF EndSession, Taken
  <1>2. /\ inbox[d] = "archived" => inbox'[d] = "archived"
        /\ d \in job[j].items => inbox'[d] = "archived"
    BY ArchivedStays DEF EndSession
  <1>3. \A i \in Jobs : i # j => job'[i] = job[i]
    BY <1>1 DEF Moves
  <1>4. ~Waits(j, d)'
    BY <1>1 DEF Waits, Moves
  <1>5. ASSUME HasTask(j, d) PROVE HasTask(j, d)'
    <2>1. inbox'[d] = "archived"
      BY <1>1, <1>2, <1>5, TaskIdIsOne DEF HasTask
    <2>2. PICK p, k : p = job[j].pid /\ k = job[j].key
      OBVIOUS
    <2>3. ~Claiming(p, k)
      BY <1>1, <2>2 DEF Outlasted
    <2>4. ~Claiming(p, k)'
      BY <1>1, <2>3 DEF Claiming
    <2>5. job'[j].pid = p /\ job'[j].key = k
      BY <1>1, <2>2 DEF Moves
    <2>6. ~Claiming(job[j].pid, job[j].key)'
      BY <2>4, <2>5 DEF Claiming
    <2>7. Taken(j)' /\ TaskId(job'[j].items) = d /\ job'[j].st = "answered"
      BY <1>1, <1>5 DEF HasTask, Moves, Taken
    <2> QED
      BY <2>1, <2>6, <2>7 DEF HasTask
  <1>6. \A p \in Pids : RecentlyHandled(p, d) => RecentlyHandled(p, d)'
    BY <1>1 DEF RecentlyHandled
  <1> QED
    BY <1>1, <1>2, <1>3, <1>4, <1>5, <1>6, StartsOfTask

(* A task whose child closes is remembered, and no poll is at its key.     *)
LEMMA StartsOfClose ==
    ASSUME TypeInv, Claims, OneOwner, RecentSuffices, \A p \in Pids : NoneTwice(recent[p]),
           NEW j \in Jobs, CloseChild(j), NEW d \in Deliveries, StartsOf(d)
    PROVE  StartsOf(d)'
  <1>0. job \in [Jobs -> JobType] /\ recent \in [Pids -> Seq(Deliveries)]
    BY PoolTypes DEF TypeInv, TypeOK, PoolTypeOK
  <1>1. Moves(j, "releasing") /\ Taken(j) /\ job[j].st = "answered"
        /\ UNCHANGED <<starts, poll, inbox, owner>>
    BY <1>0, SessionMoves DEF CloseChild, Taken, leaseVars
  <1>2. PICK p \in Pids, e \in Deliveries : p = job[j].pid /\ e = TaskId(job[j].items)
    BY <1>1, TaskIdIsOne DEF TypeInv, Bundled
  <1>3. recent' = [recent EXCEPT ![p] = Remembered(p, e)]
    BY <1>2 DEF CloseChild
  <1>4. \A b : b = e \/ RecentlyHandled(p, b) => RecentlyHandled(p, b)'
    <2>1. \A b : b = e \/ RecentlyHandled(p, b) =>
            \E n \in 1 .. Len(Remembered(p, e)) : Remembered(p, e)[n] = b
      BY <1>0, RememberedIsKept
    <2>2. recent'[p] = Remembered(p, e)
      BY <1>0, <1>3
    <2> QED
      BY <2>1, <2>2 DEF RecentlyHandled
  <1>5. \A q \in Pids : RecentlyHandled(q, d) => RecentlyHandled(q, d)'
    <2>1. \A q \in Pids : q # p => recent'[q] = recent[q]
      BY <1>0, <1>3
    <2> QED
      BY <1>4, <2>1 DEF RecentlyHandled
  <1>6. \A i \in Jobs : i # j => job'[i] = job[i]
    BY <1>1 DEF Moves
  <1>7. ~Waits(j, d)'
    BY <1>1 DEF Waits, Moves
  <1>8. ASSUME HasTask(j, d) PROVE Over(d)'
    <2>1. e = d /\ inbox[d] = "archived" /\ ~Claiming(p, job[j].key) /\ KeyOf[d] = job[j].key
      BY <1>1, <1>2, <1>8, TaskIdIsOne DEF HasTask
    <2>2. RecentlyHandled(p, d)'
      BY <1>4, <2>1
    <2>3. \A i \in Polls : ~AboutToStart(p, i, d)
      BY <2>1 DEF Claiming, AboutToStart, At, Claimings
    <2>4. ASSUME NEW q \in Pids, q # p, NEW i \in Polls PROVE poll[<<q, i>>] = NoPoll
      <3>1. owner[p]
        BY <1>1, <1>2 DEF Claims, OnlyOwnersWork
      <3> QED
        BY <2>4, <3>1 DEF Claims, OnlyOwnersWork, OneOwner
    <2>5. \A q \in Pids, i \in Polls : d \in poll[<<q, i>>].seen => q = p
      BY <2>4 DEF NoPoll
    <2>6. \A q \in Pids, i \in Polls : AboutToStart(q, i, d)' => AboutToStart(q, i, d)
      BY <1>1 DEF AboutToStart, At
    <2> QED
      BY <1>1, <2>1, <2>2, <2>3, <2>5, <2>6 DEF Over
  <1> QED
    BY <1>1, <1>5, <1>6, <1>7, <1>8, StartsOfTask

(* The steps of a task.                                                    *)
LEMMA StartsOfTaskSteps ==
    ASSUME TypeInv, Claims, OneOwner, RecentSuffices, \A p \in Pids : NoneTwice(recent[p]),
           NEW j \in Jobs, Serving(j) \/ Failing(j),
           faults' \cap {"lost", "unarchived"} = {}, NEW d \in Deliveries, StartsOf(d)
    PROVE  StartsOf(d)'
  <1>0. job \in [Jobs -> JobType]
    BY PoolTypes DEF TypeInv, TypeOK
  <1>1. ASSUME UNCHANGED <<starts, poll, inbox, recent>>,
               \A i \in Jobs : i # j => job'[i] = job[i],
               Waits(j, d)' => Waits(j, d),
               HasTask(j, d) => HasTask(j, d)'
        PROVE  StartsOf(d)'
    <2>1. \A p \in Pids : RecentlyHandled(p, d) => RecentlyHandled(p, d)'
      BY <1>1 DEF RecentlyHandled
    <2> QED
      BY <1>1, <2>1, StartsOfTask
  <1>2. CASE RetryCall(j)
    <2>1. Moves(j, "calling") /\ job[j].st = "waiting"
      BY <1>0, <1>2, SessionMoves DEF RetryCall
    <2>2. ~HasTask(j, d) /\ (Waits(j, d)' => Waits(j, d))
      BY <2>1 DEF HasTask, Waits, Moves, Taken
    <2> QED
      BY <1>1, <1>2, <2>1, <2>2 DEF RetryCall, Moves
  <1>3. CASE RefuseCall(j)
    <2>1. job[j].st = "calling" /\ (Moves(j, "waiting") \/ Moves(j, "releasing"))
      BY <1>0, <1>3, ErrorMoves DEF RefuseCall
    <2>2. ~HasTask(j, d) /\ (Waits(j, d)' => Waits(j, d))
      BY <2>1 DEF HasTask, Waits, Moves, Taken
    <2> QED
      BY <1>1, <1>3, <2>1, <2>2 DEF RefuseCall, Moves
  <1>4. CASE HangSession(j)
    <2>1. job[j].st = "session" /\ Moves(j, "hung")
      BY <1>0, <1>4, SessionMoves DEF HangSession
    <2>2. ~Waits(j, d)' /\ (HasTask(j, d) => HasTask(j, d)')
      BY <2>1 DEF HasTask, Waits, Moves, Taken
    <2> QED
      BY <1>1, <1>4, <2>1, <2>2 DEF HangSession, Moves
  <1>5. CASE ReleaseClaim(j)
    <2>1. job[j].st = "releasing" /\ job' = [job EXCEPT ![j] = NoJob]
      BY <1>5 DEF ReleaseClaim
    <2>2. job'[j].st = "free" /\ \A i \in Jobs : i # j => job'[i] = job[i]
      BY <1>0, <2>1 DEF NoJob
    <2>3. ~HasTask(j, d) /\ ~Waits(j, d)'
      BY <2>1, <2>2 DEF HasTask, Waits
    <2> QED
      BY <1>1, <1>5, <2>2, <2>3 DEF ReleaseClaim
  <1>6. CASE DropCall(j) \/ TimeOutCall(j)
    BY <1>6 DEF DropCall, TimeOutCall, Fault
  <1>7. CASE EndSession(j)
    BY <1>7, StartsOfEnd
  <1>8. CASE CloseChild(j)
    BY <1>8, StartsOfClose
  <1>9. CASE StartSession(j)
    BY <1>9, StartsOfSession
  <1> QED
    BY <1>2, <1>3, <1>4, <1>5, <1>6, <1>7, <1>8, <1>9 DEF Serving, Failing

LEMMA NoneTwiceNext ==
    ASSUME TypeInv, RecentSuffices, \A p \in Pids : NoneTwice(recent[p]), [Next]_vars
    PROVE  \A p \in Pids : NoneTwice(recent'[p])
  <1>0. recent \in [Pids -> Seq(Deliveries)]
    BY DEF TypeInv, TypeOK, PoolTypeOK
  <1>1. CASE UNCHANGED recent
    BY <1>1
  <1>2. ASSUME NEW p \in Pids, ProcessEnds(p), ~UNCHANGED recent PROVE \A q \in Pids : NoneTwice(recent'[q])
    <2>1. recent' = [recent EXCEPT ![p] = <<>>]
      BY <1>2 DEF ProcessEnds
    <2>2. NoneTwice(<<>>)
      BY DEF NoneTwice
    <2> QED
      BY <1>0, <2>1, <2>2
  <1>3. ASSUME NEW p \in Pids, ForgetTask(p) PROVE \A q \in Pids : NoneTwice(recent'[q])
    <2>1. recent[p] # <<>> /\ recent' = [recent EXCEPT ![p] = SubSeq(@, 1, Len(@) - 1)]
      BY <1>3 DEF ForgetTask
    <2>2. NoneTwice(recent'[p])
      BY <1>0, <2>1, RecentForgotten
    <2>3. \A q \in Pids : q # p => recent'[q] = recent[q]
      BY <1>0, <2>1
    <2> QED
      BY <2>2, <2>3, Zenon
  <1>4. ASSUME NEW j \in Jobs, CloseChild(j) PROVE \A q \in Pids : NoneTwice(recent'[q])
    <2>1. job[j].st = "answered" /\ Taken(j)
      BY <1>4 DEF CloseChild, Taken
    <2>2. PICK p \in Pids, e \in Deliveries : p = job[j].pid /\ e = TaskId(job[j].items)
      BY <2>1, TaskIdIsOne DEF TypeInv, Bundled
    <2>3. recent' = [recent EXCEPT ![p] = Remembered(p, e)]
      BY <1>4, <2>2 DEF CloseChild
    <2>4. NoneTwice(Remembered(p, e))
      BY <1>0, RememberedIsKept
    <2>5. \A q \in Pids : recent'[q] = IF q = p THEN Remembered(p, e) ELSE recent[q]
      BY <1>0, <2>3
    <2> QED
      BY <2>4, <2>5, Zenon
  <1>5. ASSUME LeaseStep \/ (\E p \in Pids : LeaseAcquired(p)) PROVE UNCHANGED recent
    BY <1>5 DEF LeaseStep, LeaseAcquired, poolVars
  <1>6. ASSUME NEW p \in Pids, NEW i \in Polls, Polling(p, i) PROVE UNCHANGED recent
    BY <1>6 DEF Polling, StartPoll, NextTask, OpenClaim, InspectClaim, RemoveClaim, WriteClaim
  <1>7. ASSUME NEW j \in Jobs, Serving(j) \/ Failing(j) PROVE UNCHANGED recent \/ CloseChild(j)
    BY <1>7 DEF Serving, Failing, StartSession, RetryCall, EndSession, ReleaseClaim, RefuseCall,
                DropCall, TimeOutCall, HangSession
  <1>8. ASSUME \/ \E p \in Pids, k \in Keys : WatchdogEvicts(p, k)
               \/ \E o \in orphans : EndOrphan(o)
               \/ \E k \in Keys : ClaimAges(k)
               \/ \E d \in Deliveries : Arrive(d)
        PROVE  UNCHANGED recent
    BY <1>8 DEF WatchdogEvicts, EndOrphan, ClaimAges, Arrive
  <1>9. UNCHANGED vars => UNCHANGED recent
    BY DEF vars, poolVars
  <1> QED
    BY <1>1, <1>2, <1>3, <1>4, <1>5, <1>6, <1>7, <1>8, <1>9 DEF Next

-----------------------------------------------------------------------------
LEMMA EvictedStay == [Next]_vars => evicted \subseteq evicted'
  <1> SUFFICES ASSUME [Next]_vars PROVE evicted \subseteq evicted'
    OBVIOUS
  <1>1. ASSUME LeaseStep \/ (\E p \in Pids : LeaseAcquired(p) \/ ProcessEnds(p) \/ ForgetTask(p))
        PROVE  UNCHANGED evicted
    BY <1>1 DEF LeaseStep, LeaseAcquired, ProcessEnds, ForgetTask, poolVars
  <1>2. ASSUME NEW p \in Pids, NEW i \in Polls, Polling(p, i) PROVE UNCHANGED evicted
    BY <1>2 DEF Polling, StartPoll, NextTask, OpenClaim, InspectClaim, RemoveClaim, WriteClaim
  <1>3. ASSUME NEW j \in Jobs, Serving(j) \/ Failing(j) PROVE UNCHANGED evicted
    BY <1>3 DEF Serving, Failing, StartSession, RetryCall, EndSession, ReleaseClaim, CloseChild,
                RefuseCall, DropCall, TimeOutCall, HangSession
  <1>4. ASSUME \/ \E o \in orphans : EndOrphan(o)
               \/ \E k \in Keys : ClaimAges(k)
               \/ \E d \in Deliveries : Arrive(d)
        PROVE  UNCHANGED evicted
    BY <1>4 DEF EndOrphan, ClaimAges, Arrive
  <1>5. ASSUME NEW p \in Pids, NEW k \in Keys, WatchdogEvicts(p, k) PROVE evicted \subseteq evicted'
    BY <1>5 DEF WatchdogEvicts
  <1>6. UNCHANGED vars => UNCHANGED evicted
    BY DEF vars, poolVars
  <1> QED
    BY <1>1, <1>2, <1>3, <1>4, <1>5, <1>6 DEF Next

(* The key of a task leaves the pool when the task ends, or is evicted.    *)
LEMMA InPoolOfMove ==
    ASSUME TypeInv, Claims, InPoolUntilEvicted, NEW j \in Jobs, NEW l, Moves(j, l),
           job[j].st \notin {"free", "releasing"}, UNCHANGED evicted,
           UNCHANGED active \/ (Leaves(j) /\ l = "releasing")
    PROVE  InPoolUntilEvicted'
  <1>0. active \in [Pids -> SUBSET Keys]
    BY DEF TypeInv, TypeOK, PoolTypeOK
  <1>1. \A i \in Jobs : Spawned(i)' =>
           /\ Spawned(i)
           /\ job'[i].pid = job[i].pid
           /\ job'[i].key = job[i].key
           /\ l = "releasing" => i # j
    <2> SUFFICES ASSUME NEW i \in Jobs, Spawned(i)'
                 PROVE  /\ Spawned(i)
                        /\ job'[i].pid = job[i].pid
                        /\ job'[i].key = job[i].key
                        /\ l = "releasing" => i # j
      OBVIOUS
    <2>1. CASE i = j
      BY <2>1 DEF Moves, Spawned
    <2>2. CASE i # j
      BY <2>2 DEF Moves, Spawned
    <2> QED
      BY <2>1, <2>2
  <1>2. CASE UNCHANGED active
    BY <1>1, <1>2 DEF InPoolUntilEvicted
  <1>3. CASE Leaves(j) /\ l = "releasing"
    <2>1. PICK p \in Pids, k \in Keys : p = job[j].pid /\ k = job[j].key
      BY DEF TypeInv, Bundled, Taken
    <2>2. active' = [active EXCEPT ![p] = @ \ {k}]
      BY <1>3, <2>1 DEF Leaves
    <2> SUFFICES ASSUME NEW i \in Jobs, Spawned(i)', job'[i].key \notin evicted
                 PROVE  job'[i].key \in active'[job'[i].pid]
      BY DEF InPoolUntilEvicted
    <2>3. Spawned(i) /\ i # j /\ job'[i].pid = job[i].pid /\ job'[i].key = job[i].key
      BY <1>1, <1>3
    <2>4. job[i].key # k
      BY <2>1, <2>3 DEF Claims, OneTaskPerKey, Taken, Spawned
    <2>5. job[i].key \in active[job[i].pid] /\ job[i].pid \in Pids
      BY <2>3 DEF InPoolUntilEvicted, TypeInv, Bundled, Taken, Spawned
    <2> QED
      BY <1>0, <2>2, <2>3, <2>4, <2>5
  <1> QED
    BY <1>2, <1>3

LEMMA InPoolOfWrite ==
    ASSUME TypeInv, InPoolUntilEvicted, NEW p \in Pids, NEW i \in Polls, WriteClaim(p, i)
    PROVE  InPoolUntilEvicted'
  <1>0. active \in [Pids -> SUBSET Keys] /\ job \in [Jobs -> JobType]
    BY PoolTypes DEF TypeInv, TypeOK, PoolTypeOK
  <1>1. UNCHANGED evicted
    BY DEF WriteClaim
  <1>2. CASE UNCHANGED <<active, job>>
    BY <1>1, <1>2 DEF InPoolUntilEvicted, Spawned
  <1>3. CASE ~ UNCHANGED <<active, job>>
    <2>1. PICK k, N : /\ FreeJobs # {} /\ N.pid = p /\ N.key = k
                      /\ active' = [active EXCEPT ![p] = @ \cup {k}]
                      /\ job' = [job EXCEPT ![FirstFree] = N]
      BY <1>3 DEF WriteClaim, FirstFree
    <2>2. PICK f \in Jobs : f = FirstFree
      BY <2>1, FirstFreeIsFree DEF FreeJobs
    <2>3. job'[f] = N /\ \A j \in Jobs : j # f => job'[j] = job[j]
      BY <1>0, <2>1, <2>2
    <2>4. k \in active'[p] /\ \A q \in Pids : active[q] \subseteq active'[q]
      BY <1>0, <2>1
    <2> SUFFICES ASSUME NEW j \in Jobs, Spawned(j)', job'[j].key \notin evicted
                 PROVE  job'[j].key \in active'[job'[j].pid]
      BY <1>1 DEF InPoolUntilEvicted
    <2>5. CASE j = f
      BY <2>1, <2>3, <2>4, <2>5
    <2>6. CASE j # f
      <3>1. job'[j] = job[j] /\ Spawned(j) /\ job[j].pid \in Pids
        BY <2>3, <2>6 DEF Spawned, TypeInv, Bundled, Taken
      <3>2. job[j].key \in active[job[j].pid]
        BY <3>1 DEF InPoolUntilEvicted
      <3> QED
        BY <2>4, <3>1, <3>2
    <2> QED
      BY <2>5, <2>6
  <1> QED
    BY <1>2, <1>3

LEMMA InPoolNext ==
    ASSUME TypeInv, Claims, InPoolUntilEvicted, [Next]_vars, "ended" \notin faults'
    PROVE  InPoolUntilEvicted'
  <1>0. job \in [Jobs -> JobType] /\ active \in [Pids -> SUBSET Keys]
    BY PoolTypes DEF TypeInv, TypeOK, PoolTypeOK
  <1>1. ASSUME UNCHANGED <<active, job, evicted>> PROVE InPoolUntilEvicted'
    BY <1>1 DEF InPoolUntilEvicted, Spawned
  <1>2. ASSUME LeaseStep \/ (\E p \in Pids : LeaseAcquired(p) \/ ForgetTask(p))
        PROVE  UNCHANGED <<active, job, evicted>>
    BY <1>2 DEF LeaseStep, LeaseAcquired, ForgetTask, poolVars
  <1>3. ASSUME NEW p \in Pids, ProcessEnds(p) PROVE FALSE
    BY <1>3 DEF ProcessEnds, CrashProcess, ShutdownProcess, Gone, Fault
  <1>4. ASSUME NEW p \in Pids, NEW i \in Polls, Polling(p, i), ~WriteClaim(p, i)
        PROVE  UNCHANGED <<active, job, evicted>>
    BY <1>4 DEF Polling, StartPoll, NextTask, OpenClaim, InspectClaim, RemoveClaim
  <1>5. ASSUME \/ \E o \in orphans : EndOrphan(o)
               \/ \E k \in Keys : ClaimAges(k)
               \/ \E d \in Deliveries : Arrive(d)
        PROVE  UNCHANGED <<active, job, evicted>>
    BY <1>5 DEF EndOrphan, ClaimAges, Arrive
  <1>6. UNCHANGED vars => UNCHANGED <<active, job, evicted>>
    BY DEF vars, poolVars
  <1>7. ASSUME NEW p \in Pids, NEW k \in Keys, WatchdogEvicts(p, k) PROVE InPoolUntilEvicted'
    <2>1. active' = [active EXCEPT ![p] = @ \ {k}] /\ evicted' = evicted \cup {k} /\ UNCHANGED job
      BY <1>7 DEF WatchdogEvicts
    <2>2. \A j \in Jobs : Spawned(j)' /\ job[j].key \notin evicted' =>
             /\ job[j].key \in active[job[j].pid]
             /\ job[j].pid \in Pids
             /\ job[j].key # k
      BY <2>1 DEF InPoolUntilEvicted, Spawned, TypeInv, Bundled, Taken
    <2>3. \A j \in Jobs : Spawned(j)' /\ job[j].key \notin evicted' => job[j].key \in active'[job[j].pid]
      BY <1>0, <2>1, <2>2
    <2> QED
      BY <2>1, <2>3 DEF InPoolUntilEvicted
  <1>8. ASSUME NEW j \in Jobs, Serving(j) \/ Failing(j) PROVE InPoolUntilEvicted'
    <2>1. UNCHANGED evicted
      BY <1>8 DEF Serving, Failing, StartSession, RetryCall, EndSession, ReleaseClaim, CloseChild,
                RefuseCall, DropCall, TimeOutCall, HangSession
    <2>2. CASE ReleaseClaim(j)
      <3>1. \A i \in Jobs : job'[i] = IF i = j THEN NoJob ELSE job[i]
        BY <1>0, <2>2 DEF ReleaseClaim
      <3>2. \A i \in Jobs : Spawned(i)' => Spawned(i) /\ job'[i] = job[i]
        BY <3>1 DEF Spawned, NoJob
      <3> QED
        BY <2>1, <2>2, <3>2 DEF InPoolUntilEvicted, ReleaseClaim
    <2>3. CASE \/ StartSession(j) \/ RetryCall(j) \/ EndSession(j) \/ HangSession(j)
      <3>1. /\ \E l \in JobSts : Moves(j, l)
            /\ job[j].st \notin {"free", "releasing"}
            /\ UNCHANGED active
        BY <1>0, <2>3, SessionMoves DEF StartSession, RetryCall, EndSession, HangSession, JobSts
      <3> QED
        BY <2>1, <3>1, InPoolOfMove
    <2>4. CASE CloseChild(j) \/ TimeOutCall(j)
      <3>1. Moves(j, "releasing") /\ job[j].st \notin {"free", "releasing"} /\ Leaves(j)
        BY <1>0, <2>4, SessionMoves DEF CloseChild, TimeOutCall
      <3> QED
        BY <2>1, <3>1, InPoolOfMove
    <2>5. CASE RefuseCall(j) \/ DropCall(j)
      <3>1. job[j].st \notin {"free", "releasing"} /\ ConnectionError(j)
        BY <2>5 DEF RefuseCall, DropCall
      <3>2. \/ Moves(j, "waiting") /\ UNCHANGED active
            \/ Moves(j, "releasing") /\ Leaves(j)
        BY <1>0, <3>1, ErrorMoves
      <3> QED
        BY <2>1, <3>1, <3>2, InPoolOfMove
    <2> QED
      BY <1>8, <2>2, <2>3, <2>4, <2>5 DEF Serving, Failing
  <1> QED
    BY <1>1, <1>2, <1>3, <1>4, <1>5, <1>6, <1>7, <1>8, InPoolOfWrite DEF Next

-----------------------------------------------------------------------------
LEMMA StartsOnceNext ==
    ASSUME RecentSuffices, StartInv, [Next]_vars, NEW d \in Deliveries, Undisturbed(d)'
    PROVE  StartsOf(d)'
  <1>1. /\ Undisturbed(d)
        /\ KeyOf[d] \notin evicted
        /\ faults' \cap {"lost", "unarchived", "ended", "slept"} = {}
        /\ {"slept", "ended"} \cap faults = {}
    BY FaultsStay, EvictedStay DEF Undisturbed
  <1>2. TypeInv /\ LeaseInv /\ Claims /\ StartsOf(d) /\ \A p \in Pids : NoneTwice(recent[p])
    BY <1>1 DEF StartInv, ClaimInv, StartsOnce
  <1>3. InPoolUntilEvicted /\ OneOwner
    BY <1>1, <1>2 DEF StartInv, Steady, LeaseInv, OneOwner
  <1>4. ASSUME UNCHANGED <<starts, job, poll>>, inbox[d] = "archived" => inbox'[d] = "archived",
               UNCHANGED recent
        PROVE  StartsOf(d)'
    <2>1. \A p \in Pids : RecentlyHandled(p, d) => RecentlyHandled(p, d)'
      BY <1>4 DEF RecentlyHandled
    <2> QED
      BY <1>2, <1>4, <2>1, StartsElsewhere
  <1>5. CASE LeaseStep \/ \E p \in Pids : LeaseAcquired(p)
    BY <1>4, <1>5 DEF LeaseStep, LeaseAcquired, poolVars
  <1>6. ASSUME NEW p \in Pids, ProcessEnds(p) PROVE FALSE
    BY <1>1, <1>6 DEF ProcessEnds, CrashProcess, ShutdownProcess, Gone, Fault
  <1>7. ASSUME NEW p \in Pids, ForgetTask(p) PROVE StartsOf(d)'
    <2>1. /\ recent[p] # <<>>
          /\ recent' = [recent EXCEPT ![p] = SubSeq(@, 1, Len(@) - 1)]
          /\ \A i \in Polls : recent[p][Len(recent[p])] \notin poll[<<p, i>>].seen
          /\ UNCHANGED <<starts, job, poll, inbox>>
      BY <1>7 DEF ForgetTask
    <2>2. recent \in [Pids -> Seq(Deliveries)]
      BY <1>2 DEF TypeInv, TypeOK, PoolTypeOK
    <2>3. RecentlyHandled(p, d) /\ d # recent[p][Len(recent[p])] => RecentlyHandled(p, d)'
      BY <1>2, <2>1, <2>2, RecentForgotten
    <2>4. ASSUME NEW q \in Pids, NEW i \in Polls, d \in poll[<<q, i>>].seen, RecentlyHandled(q, d)
          PROVE  RecentlyHandled(q, d)'
      <3>1. CASE q = p
        BY <2>1, <2>3, <2>4, <3>1
      <3>2. CASE q # p
        <4>1. recent'[q] = recent[q]
          BY <2>1, <2>2, <3>2
        <4> QED
          BY <2>4, <4>1 DEF RecentlyHandled
      <3> QED
        BY <3>1, <3>2
    <2> QED
      BY <1>2, <2>1, <2>4, StartsElsewhere
  <1>8. ASSUME NEW p \in Pids, NEW i \in Polls, Polling(p, i) PROVE StartsOf(d)'
    BY <1>1, <1>2, <1>3, <1>8, StartsOfPolling
  <1>9. ASSUME NEW p \in Pids, NEW k \in Keys, WatchdogEvicts(p, k) PROVE StartsOf(d)'
    BY <1>4, <1>9 DEF WatchdogEvicts
  <1>10. ASSUME NEW j \in Jobs, Serving(j) \/ Failing(j) PROVE StartsOf(d)'
    <2>1. faults' \cap {"lost", "unarchived"} = {}
      BY <1>1
    <2> QED
      BY <1>2, <1>3, <1>10, <2>1, StartsOfTaskSteps
  <1>11. ASSUME NEW o \in orphans, EndOrphan(o) PROVE StartsOf(d)'
    <2>1. inbox[d] = "archived" => inbox'[d] = "archived"
      BY <1>2, <1>11, ArchivedStays DEF EndOrphan
    <2> QED
      BY <1>4, <1>11, <2>1 DEF EndOrphan
  <1>12. ASSUME NEW k \in Keys, ClaimAges(k) PROVE StartsOf(d)'
    BY <1>4, <1>12 DEF ClaimAges
  <1>13. ASSUME NEW e \in Deliveries, Arrive(e) PROVE StartsOf(d)'
    <2>1. inbox' = [inbox EXCEPT ![e] = "unread"] /\ inbox[e] = "absent"
      BY <1>13 DEF Arrive
    <2>2. inbox[d] = "archived" => inbox'[d] = "archived"
      BY <1>2, <2>1 DEF TypeInv, TypeOK, PoolTypeOK
    <2> QED
      BY <1>4, <1>13, <2>2 DEF Arrive
  <1>14. CASE UNCHANGED vars
    BY <1>4, <1>14 DEF vars, poolVars
  <1> QED
    BY <1>5, <1>6, <1>7, <1>8, <1>9, <1>10, <1>11, <1>12, <1>13, <1>14 DEF Next

LEMMA StartInvInit == Init => StartInv
  <1> SUFFICES ASSUME Init PROVE StartInv
    OBVIOUS
  <1>1. ClaimInv
    BY TypeInvInit, LeaseInvInit, ClaimsInit DEF Init, ClaimInv
  <1>2. \A j \in Jobs : job[j].st = "free"
    BY DEF Init, PoolInit, NoJob
  <1>3. \A p \in Pids : recent[p] = <<>>
    BY DEF Init, PoolInit
  <1>4. \A p \in Pids : NoneTwice(recent[p])
    BY <1>3 DEF NoneTwice
  <1>5. InPoolUntilEvicted
    BY <1>2 DEF InPoolUntilEvicted, Spawned
  <1>6. StartsOnce
    BY <1>2 DEF Init, PoolInit, StartsOnce, StartsOf, Waits, Taken
  <1> QED
    BY <1>1, <1>4, <1>5, <1>6 DEF StartInv

LEMMA StartInvNext == Staggered /\ RecentSuffices /\ StartInv /\ [Next]_vars => StartInv'
  <1> SUFFICES ASSUME Staggered, RecentSuffices, StartInv, [Next]_vars PROVE StartInv'
    OBVIOUS
  <1>1. ClaimInv'
    BY ClaimInvNext DEF StartInv
  <1>2. \A p \in Pids : NoneTwice(recent[p])'
    <2>1. \A p \in Pids : NoneTwice(recent'[p])
      BY NoneTwiceNext DEF StartInv, ClaimInv
    <2> QED
      BY <2>1 DEF NoneTwice
  <1>3. Steady' => InPoolUntilEvicted'
    <2> SUFFICES ASSUME Steady' PROVE InPoolUntilEvicted'
      OBVIOUS
    <2>1. "ended" \notin faults' /\ "slept" \notin faults /\ Steady
      BY FaultsStay DEF Steady
    <2> QED
      BY <2>1, InPoolNext DEF StartInv, ClaimInv
  <1>4. StartsOnce'
    BY StartsOnceNext DEF StartsOnce
  <1> QED
    BY <1>1, <1>2, <1>3, <1>4 DEF StartInv

(* A task is started once, for any number of deliveries, overlapping polls *)
(* and tasks: a poll that works on an outdated inbox finds the key in the  *)
(* pool or the task among the recent ones, and does not start it again, as *)
(* long as the calls arrive, archiving works, no process ends, and the     *)
(* list of recent tasks does not drop one early.                           *)
THEOREM StartedOnce == Staggered /\ RecentSuffices /\ Spec => []TaskStartedOnce
  <1> SUFFICES ASSUME Staggered, RecentSuffices PROVE Spec => []TaskStartedOnce
    OBVIOUS
  <1>1. Init => StartInv
    BY StartInvInit
  <1>2. StartInv /\ [Next]_vars => StartInv'
    BY StartInvNext
  <1>3. StartInv => TaskStartedOnce
    BY DEF StartInv, StartsOnce, StartsOf, TaskStartedOnce
  <1> QED
    BY <1>1, <1>2, <1>3, PTL DEF Spec
=============================================================================
