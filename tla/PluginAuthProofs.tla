-------------------------- MODULE PluginAuthProofs --------------------------
(***************************************************************************)
(* A worker without a token is about to get one, for any number of         *)
(* overlapping polls and attempts to authenticate.                         *)
(***************************************************************************)
EXTENDS PluginAuth, TLAPS

(* The two parts of NeverStranded.                                         *)
OnItsWay == Working /\ token = "none" /\ ~parked /\ ~disk => Coming
FlagIsHeld ==
    reauth => \E a \in Attempts : auth[a].pc # "idle" /\ auth[a].by = "poll"

(* The attempt of pollAndRun is the only one of its kind, and pollAndRun   *)
(* waits for it.                                                           *)
CallWaits == \A a \in Attempts : auth[a].pc # "idle" /\ auth[a].by = "call" =>
    /\ call = "recovering"
    /\ \A b \in Attempts : auth[b].pc # "idle" /\ auth[b].by = "call" => b = a

AuthInv == TypeOK /\ OnItsWay /\ FlagIsHeld /\ CallWaits

LEMMA InitAuthInv == Init => AuthInv
  <1> SUFFICES ASSUME Init PROVE AuthInv
    OBVIOUS
  <1>1. events \in 0 .. MaxEvents
    BY AuthAssumption DEF Init
  <1>2. TypeOK
    BY <1>1 DEF Init, TypeOK, Tokens, NoAuth, Sources
  <1>3. OnItsWay /\ FlagIsHeld
    BY DEF Init, OnItsWay, FlagIsHeld, Working
  <1>4. CallWaits
    BY DEF Init, CallWaits, NoAuth
  <1> QED
    BY <1>2, <1>3, <1>4 DEF AuthInv

(* An attempt somebody other than an operator makes keeps a token coming,  *)
(* and takes no slot that is in use.                                       *)
LEMMA BeginKeeps ==
    ASSUME TypeOK, NEW by \in Sources, Begin(by)
    PROVE  /\ auth' \in [Attempts -> [pc : {"idle", "ask", "store"}, by : Sources]]
           /\ by # "operator" =>
                 \E a \in Attempts : auth'[a].pc = "ask" /\ auth'[a].by # "operator"
           /\ \E a \in Attempts : auth'[a].pc # "idle" /\ auth'[a].by = by
           /\ \A a \in Attempts : auth[a].pc # "idle" => auth'[a] = auth[a]
  <1>1. PICK a \in Attempts :
           /\ auth[a].pc = "idle"
           /\ auth' = [auth EXCEPT ![a] = [pc |-> "ask", by |-> by]]
    BY DEF Begin
  <1>2. auth'[a] = [pc |-> "ask", by |-> by]
    BY <1>1 DEF TypeOK
  <1>3. \A b \in Attempts : b # a => auth'[b] = auth[b]
    BY <1>1 DEF TypeOK
  <1>4. auth' \in [Attempts -> [pc : {"idle", "ask", "store"}, by : Sources]]
    BY <1>1 DEF TypeOK
  <1> QED
    BY <1>1, <1>2, <1>3, <1>4

(* What holds after an attempt began still holds of the earlier ones.      *)
LEMMA BeginHolds ==
    ASSUME TypeOK, NEW by \in Sources, Begin(by), FlagIsHeld
    PROVE  reauth => \E a \in Attempts : auth'[a].pc # "idle" /\ auth'[a].by = "poll"
  BY BeginKeeps DEF FlagIsHeld

LEMMA ComingStays ==
    ASSUME TypeOK, NEW by \in Sources, Begin(by),
           \E a \in Attempts : auth[a].pc = "ask" /\ auth[a].by # "operator"
    PROVE  \E a \in Attempts : auth'[a].pc = "ask" /\ auth'[a].by # "operator"
  <1>1. PICK a \in Attempts : auth[a].pc = "ask" /\ auth[a].by # "operator"
    OBVIOUS
  <1>2. auth'[a] = auth[a]
    BY <1>1, BeginKeeps
  <1> QED
    BY <1>1, <1>2

LEMMA BeginCallWaits ==
    ASSUME TypeOK, NEW by \in Sources, Begin(by), CallWaits,
           IF by = "call" THEN call = "resetting" /\ call' = "recovering"
           ELSE call' = call
    PROVE  CallWaits'
  <1>1. PICK a \in Attempts :
           /\ auth[a].pc = "idle"
           /\ auth' = [auth EXCEPT ![a] = [pc |-> "ask", by |-> by]]
    BY DEF Begin
  <1>2. auth'[a].by = by
    BY <1>1 DEF TypeOK
  <1>3. \A b \in Attempts : b # a => auth'[b] = auth[b]
    BY <1>1 DEF TypeOK
  <1> QED
    BY <1>2, <1>3 DEF CallWaits

(* Slots other than that of an attempt that goes on or ends stay.          *)
LEMMA OtherSlots ==
    ASSUME TypeOK, NEW a \in Attempts, NEW r, auth' = [auth EXCEPT ![a] = r]
    PROVE  /\ \A b \in Attempts : b # a => auth'[b] = auth[b]
           /\ auth'[a] = r
  BY DEF TypeOK

LEMMA AuthInvStep == AuthInv /\ [Next]_vars => AuthInv'
  <1> SUFFICES ASSUME AuthInv, [Next]_vars PROVE AuthInv'
    OBVIOUS
  <1> USE AuthAssumption DEF AuthInv
  <1>1. CASE Hydrate
    BY <1>1 DEF Hydrate, TypeOK, Tokens, OnItsWay, FlagIsHeld, CallWaits, Working
  <1>2. CASE AcquireLease
    BY <1>2 DEF AcquireLease, TypeOK, OnItsWay, FlagIsHeld, CallWaits, Working, Coming
  <1>3. CASE Enable
    <2>1. CASE token = "none" /\ AutoAuth /\ Begin("startup") /\ UNCHANGED <<parked, disk>>
      <3>1. "startup" \in Sources
        BY DEF Sources
      <3>2. /\ auth' \in [Attempts -> [pc : {"idle", "ask", "store"}, by : Sources]]
            /\ \E a \in Attempts : auth'[a].pc = "ask" /\ auth'[a].by # "operator"
        BY <2>1, <3>1, BeginKeeps
      <3>3. TypeOK'
        BY <1>3, <2>1, <3>2 DEF Enable, TypeOK, Tokens
      <3>4. OnItsWay'
        BY <3>2 DEF OnItsWay, Coming
      <3>5. FlagIsHeld'
        BY <1>3, <2>1, <3>1, BeginHolds DEF Enable, FlagIsHeld
      <3>6. CallWaits'
        BY <1>3, <2>1, <3>1, BeginCallWaits DEF Enable
      <3> QED
        BY <3>3, <3>4, <3>5, <3>6
    <2>2. CASE /\ token = "none" => ~AutoAuth
               /\ parked' = (parked \/ token = "none")
               /\ UNCHANGED <<auth, disk>>
      <3>1. token' = "none" => parked'
        BY <1>3, <2>2 DEF Enable, TypeOK
      <3>2. TypeOK'
        BY <1>3, <2>2 DEF Enable, TypeOK, Tokens
      <3> QED
        BY <1>3, <2>2, <3>1, <3>2 DEF Enable, OnItsWay, FlagIsHeld, CallWaits
    <2>3. CASE disk' = TRUE /\ UNCHANGED <<auth, parked>>
      BY <1>3, <2>3 DEF Enable, TypeOK, Tokens, OnItsWay, FlagIsHeld, CallWaits
    <2> QED
      BY <1>3, <2>1, <2>2, <2>3 DEF Enable
  <1>4. ASSUME NEW i \in Polls, StartPoll(i) PROVE AuthInv'
    BY <1>4 DEF StartPoll, TypeOK, Tokens, OnItsWay, FlagIsHeld, CallWaits, Working, Coming
  <1>5. ASSUME NEW i \in Polls, PollAnswered(i) PROVE AuthInv'
    BY <1>5 DEF PollAnswered, TypeOK, OnItsWay, FlagIsHeld, CallWaits, Working, Coming
  <1>6. ASSUME NEW i \in Polls, PollRejected(i) PROVE AuthInv'
    <2>1. CASE reauth /\ UNCHANGED <<token, auth, reauth>>
      BY <1>6, <2>1
         DEF PollRejected, TypeOK, OnItsWay, FlagIsHeld, CallWaits, Working, Coming
    <2>2. CASE ~reauth /\ token' = "none" /\ reauth' = TRUE /\ Begin("poll")
      <3>1. "poll" \in Sources
        BY DEF Sources
      <3>2. /\ auth' \in [Attempts -> [pc : {"idle", "ask", "store"}, by : Sources]]
            /\ \E a \in Attempts : auth'[a].pc = "ask" /\ auth'[a].by # "operator"
            /\ \E a \in Attempts : auth'[a].pc # "idle" /\ auth'[a].by = "poll"
        BY <2>2, <3>1, BeginKeeps
      <3>3. TypeOK'
        BY <1>6, <2>2, <3>2 DEF PollRejected, TypeOK, Tokens
      <3>4. OnItsWay'
        BY <3>2 DEF OnItsWay, Coming
      <3>5. FlagIsHeld'
        BY <3>2 DEF FlagIsHeld
      <3>6. CallWaits'
        BY <1>6, <2>2, <3>1, BeginCallWaits DEF PollRejected
      <3> QED
        BY <3>3, <3>4, <3>5, <3>6
    <2> QED
      BY <1>6, <2>1, <2>2 DEF PollRejected
  <1>7. CASE CallPoll
    BY <1>7 DEF CallPoll, TypeOK, Tokens, OnItsWay, FlagIsHeld, CallWaits, Working, Coming
  <1>8. CASE CallAnswered
    BY <1>8 DEF CallAnswered, TypeOK, OnItsWay, FlagIsHeld, CallWaits, Working, Coming
  <1>9. CASE CallRejected
    BY <1>9 DEF CallRejected, TypeOK, Tokens, OnItsWay, FlagIsHeld, CallWaits, Coming
  <1>10. CASE CallRecovers
    <2>1. CASE call' = "recovering" /\ Begin("call") /\ UNCHANGED disk
      <3>1. "call" \in Sources
        BY DEF Sources
      <3>2. /\ auth' \in [Attempts -> [pc : {"idle", "ask", "store"}, by : Sources]]
            /\ \E a \in Attempts : auth'[a].pc = "ask" /\ auth'[a].by # "operator"
        BY <2>1, <3>1, BeginKeeps
      <3>3. TypeOK'
        BY <1>10, <2>1, <3>2 DEF CallRecovers, TypeOK
      <3>4. OnItsWay'
        BY <3>2 DEF OnItsWay, Coming
      <3>5. FlagIsHeld'
        BY <1>10, <2>1, <3>1, BeginHolds DEF CallRecovers, FlagIsHeld
      <3>6. CallWaits'
        BY <1>10, <2>1, <3>1, BeginCallWaits DEF CallRecovers
      <3> QED
        BY <3>3, <3>4, <3>5, <3>6
    <2>2. CASE call' = "idle" /\ disk' = TRUE /\ UNCHANGED auth
      BY <1>10, <2>2 DEF CallRecovers, TypeOK, OnItsWay, FlagIsHeld, CallWaits
    <2> QED
      BY <1>10, <2>1, <2>2 DEF CallRecovers
  <1>11. ASSUME NEW a \in Attempts, TokenIssued(a) PROVE AuthInv'
    <2>1. TypeOK'
      BY <1>11 DEF TokenIssued, TypeOK, Tokens
    <2>2. OnItsWay'
      BY <1>11 DEF TokenIssued, OnItsWay
    <2>3. /\ \A b \in Attempts : b # a => auth'[b] = auth[b]
          /\ auth'[a].pc = "store" /\ auth'[a].by = auth[a].by
      BY <1>11 DEF TokenIssued, TypeOK
    <2>4. FlagIsHeld'
      BY <1>11, <2>3 DEF TokenIssued, FlagIsHeld
    <2>5. CallWaits'
      BY <1>11, <2>3 DEF TokenIssued, CallWaits
    <2> QED
      BY <2>1, <2>2, <2>4, <2>5
  <1>12. ASSUME NEW a \in Attempts, TokenStored(a) PROVE AuthInv'
    <2>1. TypeOK'
      BY <1>12 DEF TokenStored, Ended, NoAuth, Sources, TypeOK
    <2>2. \A b \in Attempts : b # a => auth'[b] = auth[b]
      BY <1>12, OtherSlots DEF TokenStored
    <2>3. OnItsWay'
      BY <1>12, <2>2 DEF TokenStored, Ended, OnItsWay, CallWaits, Coming, Working
    <2>4. FlagIsHeld'
      BY <1>12, <2>2 DEF TokenStored, Ended, FlagIsHeld
    <2>5. CallWaits'
      <3>0. auth'[a] = NoAuth
        BY <1>12, OtherSlots DEF TokenStored
      <3>1. auth'[a].pc = "idle"
        BY <3>0 DEF NoAuth
      <3>2. call' = IF auth[a].by = "call" THEN "idle" ELSE call
        BY <1>12 DEF TokenStored, Ended
      <3>3. auth[a].pc # "idle"
        BY <1>12 DEF TokenStored
      <3> QED
        BY <2>2, <3>1, <3>2, <3>3 DEF CallWaits
    <2> QED
      BY <2>1, <2>3, <2>4, <2>5
  <1>13. ASSUME NEW a \in Attempts, AuthFails(a) PROVE AuthInv'
    <2>1. auth' = [auth EXCEPT ![a] = NoAuth]
      BY <1>13 DEF AuthFails
    <2>2. \A b \in Attempts : b # a => auth'[b] = auth[b]
      BY <2>1, OtherSlots
    <2>3. timer' = (timer \/ auth[a].by # "operator")
      BY <1>13 DEF AuthFails, Retries
    <2>4. UNCHANGED <<process, token, poll, parked, events>>
      BY <1>13 DEF AuthFails
    <2>5. disk' \in BOOLEAN /\ (disk => disk')
      <3>1. disk' = disk \/ disk' = TRUE
        BY <1>13 DEF AuthFails
      <3>2. disk \in BOOLEAN
        BY DEF TypeOK
      <3>3. CASE disk' = disk
        BY <3>2, <3>3
      <3>4. CASE disk' = TRUE
        BY <3>4
      <3> QED
        BY <3>1, <3>3, <3>4
    <2>6. /\ reauth' = (reauth /\ auth[a].by # "poll")
          /\ call' = IF auth[a].by = "call" THEN "idle" ELSE call
      BY <1>13 DEF AuthFails, Ended
    <2>7. TypeOK'
      BY <2>1, <2>3, <2>4, <2>5, <2>6 DEF NoAuth, Sources, TypeOK
    <2>8. OnItsWay'
      <3> SUFFICES ASSUME Working', token' = "none", ~parked', ~disk' PROVE Coming'
        BY DEF OnItsWay
      <3>1. Coming
        BY <2>4, <2>5 DEF OnItsWay, Working
      <3>2. CASE auth[a].by # "operator"
        BY <2>3, <3>2 DEF Coming
      <3>3. CASE auth[a].by = "operator"
        BY <2>2, <2>3, <2>4, <2>6, <3>1, <3>3 DEF Coming
      <3> QED
        BY <3>2, <3>3
    <2>9. FlagIsHeld'
      BY <2>2, <2>6 DEF FlagIsHeld
    <2>10. CallWaits'
      <3>0. auth'[a] = NoAuth
        BY <2>1, OtherSlots
      <3>1. auth'[a].pc = "idle"
        BY <3>0 DEF NoAuth
      <3>2. auth[a].pc # "idle"
        BY <1>13 DEF AuthFails
      <3> QED
        BY <2>2, <2>6, <3>1, <3>2 DEF CallWaits
    <2> QED
      BY <2>7, <2>8, <2>9, <2>10
  <1>14. CASE RetryFires
    <2>1. "retry" \in Sources /\ Begin("retry")
      BY <1>14 DEF Sources, RetryFires
    <2>2. /\ auth' \in [Attempts -> [pc : {"idle", "ask", "store"}, by : Sources]]
          /\ \E a \in Attempts : auth'[a].pc = "ask" /\ auth'[a].by # "operator"
      BY <2>1, BeginKeeps
    <2>3. TypeOK'
      BY <1>14, <2>2 DEF RetryFires, TypeOK
    <2>4. OnItsWay'
      BY <2>2 DEF OnItsWay, Coming
    <2>5. FlagIsHeld'
      BY <1>14, <2>1, BeginHolds DEF RetryFires, FlagIsHeld
    <2>6. CallWaits'
      BY <1>14, <2>1, BeginCallWaits DEF RetryFires
    <2> QED
      BY <2>3, <2>4, <2>5, <2>6
  <1>15. CASE OperatorAuth
    <2>1. "operator" \in Sources /\ Begin("operator")
      BY <1>15 DEF Sources, OperatorAuth
    <2>2. auth' \in [Attempts -> [pc : {"idle", "ask", "store"}, by : Sources]]
      BY <2>1, BeginKeeps
    <2>3. TypeOK'
      BY <1>15, <2>2 DEF OperatorAuth, Event, TypeOK
    <2>4. OnItsWay'
      BY <1>15, <2>1, ComingStays DEF OperatorAuth, OnItsWay, Working, Coming
    <2>5. FlagIsHeld'
      BY <1>15, <2>1, BeginHolds DEF OperatorAuth, FlagIsHeld
    <2>6. CallWaits'
      BY <1>15, <2>1, BeginCallWaits DEF OperatorAuth
    <2> QED
      BY <2>3, <2>4, <2>5, <2>6
  <1>16. CASE OperatorReset
    BY <1>16 DEF OperatorReset, Event, TypeOK, Tokens, OnItsWay, FlagIsHeld, CallWaits
  <1>17. CASE Expire
    <2>1. TypeOK'
      BY <1>17 DEF Expire, Event, Revoked, TypeOK, Tokens
    <2>2. token' = "none" => token = "none"
      BY <1>17 DEF Expire, Revoked
    <2>3. \A c \in {"resetting", "recovering"} : call = c => call' = c
      BY <1>17 DEF Expire, Revoked
    <2>4. UNCHANGED <<process, auth, timer, reauth, parked, disk>>
      BY <1>17 DEF Expire
    <2>5. OnItsWay'
      BY <2>2, <2>3, <2>4 DEF OnItsWay, Working, Coming
    <2>6. FlagIsHeld' /\ CallWaits'
      BY <2>3, <2>4 DEF FlagIsHeld, CallWaits
    <2> QED
      BY <2>1, <2>5, <2>6
  <1>18. CASE Crash
    <2>1. events' \in 0 .. MaxEvents
      BY <1>18 DEF Crash, Event, TypeOK
    <2>2. TypeOK'
      BY <1>18, <2>1 DEF Crash, Down, NoAuth, Sources, TypeOK, Tokens
    <2>3. OnItsWay' /\ FlagIsHeld'
      BY <1>18 DEF Crash, Down, OnItsWay, FlagIsHeld, Working
    <2>4. CallWaits'
      BY <1>18 DEF Crash, Down, NoAuth, CallWaits
    <2> QED
      BY <2>2, <2>3, <2>4
  <1>19. CASE UNCHANGED vars
    BY <1>19 DEF vars, TypeOK, OnItsWay, FlagIsHeld, CallWaits, Working, Coming
  <1> QED
    BY <1>1, <1>2, <1>3, <1>4, <1>5, <1>6, <1>7, <1>8, <1>9, <1>10, <1>11,
       <1>12, <1>13, <1>14, <1>15, <1>16, <1>17, <1>18, <1>19 DEF Next

(* Whoever took the token away, a worker without one is about to get one,  *)
(* and the flag of the poll loop is never left behind (timers.ts:90-138,   *)
(* auth.ts:125-155, worker.ts:567-577), for any number of polls, attempts  *)
(* and events.                                                             *)
THEOREM TokenIsComing == Spec => []NeverStranded
  <1>1. AuthInv => NeverStranded
    BY DEF AuthInv, OnItsWay, FlagIsHeld, NeverStranded
  <1> QED
    BY <1>1, InitAuthInv, AuthInvStep, PTL DEF Spec
=============================================================================
