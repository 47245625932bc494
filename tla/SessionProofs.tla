---------------------------- MODULE SessionProofs ----------------------------
(***************************************************************************)
(* The safety properties of the feed, its login, the timer and the wait    *)
(* for orders, proved.  The parts share nothing, so each has an inductive  *)
(* invariant of its own, preserved by its steps whatever the others do.    *)
(***************************************************************************)
EXTENDS Session, TLAPS

\* After a callback that began after stop the socket is not read again.
FeedInv ==
    /\ FeedTypeOK
    /\ BeatsEndWithConnection
    /\ OneTickAfterStop
    /\ running \/ run = "read" => late = 0

\* One loop of the timer is alive at most: a callback never runs beside another.
OneLoop == \A g, h \in Loops : Alive(g) /\ Alive(h) => g = h

\* Where no callback calls stop, a live loop is the timer's task, and the loop the
\* owner waits for as well.
TimerInv ==
    /\ TimerTypeOK
    /\ CallbackMayStop \/
         /\ \A g \in Loops : Alive(g) => task = g
         /\ \A g \in Loops : awaited[g] = NoLoop
         /\ awaited[Owner] # NoLoop => task = awaited[Owner]

\* An order that is not open any more stays as it is, so what an update says of
\* it remains true.
OrdersInv ==
    /\ OrdersTypeOK
    /\ \A o \in Orders, s \in States : <<o, s>> \in updates /\ s # "open" => state[o] = s
    /\ \A o \in complete : state[o] = "complete"
    /\ AnswerIsTrue

\* The accounts that have refused a call are those before its current one.
LoginInv ==
    /\ LoginTypeOK
    /\ refused = {Account(i) : i \in 0 .. tries - 1}
    /\ call \in {"trying", "account"} => tries < FeedAccounts
    /\ call = "none" => tries = FeedAccounts

Inductive == FeedInv /\ TimerInv /\ OrdersInv /\ LoginInv

-----------------------------------------------------------------------------
\* Every step of the feed, of a heartbeat, of the server and of stop preserves the
\* feed's invariant (feed_ws.py 45-148).
LEMMA FeedStep == FeedInv /\ FeedNext => FeedInv'
<1> SUFFICES ASSUME FeedInv, FeedNext PROVE FeedInv'
  OBVIOUS
<1> USE FeedAssumption DEF FeedInv, FeedTypeOK, BeatsEndWithConnection, OneTickAfterStop, Reading
<1>1. CASE ConnectOk
  BY <1>1 DEF ConnectOk, Conns
<1>2. CASE ConnectFails
  BY <1>2 DEF ConnectFails
<1>3. CASE Subscribe
  BY <1>3 DEF Subscribe
<1>4. CASE SubscribeFails
  BY <1>4 DEF SubscribeFails
<1>5. CASE Tick
  BY <1>5 DEF Tick
<1>6. CASE TickDone
  BY <1>6 DEF TickDone, NextRead
<1>7. CASE Ignore
  BY <1>7 DEF Ignore, NextRead
<1>8. CASE ParseFails \/ ReadEnds
  BY <1>8 DEF ParseFails, ReadEnds
<1>9. CASE CancelBeat
  BY <1>9 DEF CancelBeat, EndBeat
<1>10. CASE Close
  BY <1>10 DEF Close, CloseSocket, Again
<1>11. CASE Retry
  BY <1>11 DEF Retry, Again
<1>12. ASSUME NEW c \in Conns, BeatEnds(c) PROVE FeedInv'
  BY <1>12 DEF BeatEnds
<1>13. CASE Stop
  BY <1>13 DEF Stop
<1>14. CASE Dropped
  BY <1>14 DEF Dropped
<1> QED
  BY <1>1, <1>2, <1>3, <1>4, <1>5, <1>6, <1>7, <1>8, <1>9, <1>10, <1>11, <1>12, <1>13, <1>14
  DEF FeedNext, RunStep

\* Every call of start and stop, by the owner or the callback, and every step of a
\* loop preserves the timer's invariant (timer.py 20-44).
LEMMA TimerStepPreserves == TimerInv /\ TimerNext => TimerInv'
<1> SUFFICES ASSUME TimerInv, TimerNext PROVE TimerInv'
  OBVIOUS
<1> USE TimerAssumption DEF TimerInv, TimerTypeOK, Alive, Callers
<1>1. CASE StartTimer
  BY <1>1 DEF StartTimer, MayCall
<1>2. ASSUME NEW c \in Callers, StopTimer(c) PROVE TimerInv'
  <2>1. TimerTypeOK'
    BY <1>2 DEF StopTimer, MayCall, MustWait
  <2>2. CASE ~CallbackMayStop
    BY <1>2, <2>1, <2>2 DEF StopTimer, MayCall, MustWait
  <2> QED
    BY <2>1, <2>2
<1>3. ASSUME NEW c \in Callers, StopReturns(c) PROVE TimerInv'
  BY <1>3 DEF StopReturns
<1>4. ASSUME NEW g \in Loops, Awake(g) PROVE TimerInv'
  BY <1>4 DEF Awake
<1>5. ASSUME NEW g \in Loops, CallbackEnds(g) PROVE TimerInv'
  BY <1>5 DEF CallbackEnds, MayCall
<1> QED
  BY <1>1, <1>2, <1>3, <1>4, <1>5 DEF TimerNext, TimerStep

\* Every update, received or not, and every change of an order preserves what is
\* known of the orders (order_status.py 28-76).
LEMMA OrdersStep == OrdersInv /\ OrdersNext => OrdersInv'
<1> SUFFICES ASSUME OrdersInv, OrdersNext PROVE OrdersInv'
  OBVIOUS
<1> USE OrdersAssumption DEF OrdersInv, OrdersTypeOK, States, Answers, AnswerIsTrue
<1>1. ASSUME NEW o \in Orders, OrderChanges(o) PROVE OrdersInv'
  BY <1>1 DEF OrderChanges
<1>2. CASE Open
  BY <1>2 DEF Open, Waiting
<1>3. CASE SocketCloses
  BY <1>3 DEF SocketCloses
<1>4. ASSUME NEW o \in Orders, NEW s \in States, AnyUpdate(o, s) PROVE OrdersInv'
  BY <1>4 DEF AnyUpdate, Receives, Waiting
<1>5. ASSUME NEW o \in Orders, NEW s \in States, RejectionSeen(o, s) PROVE OrdersInv'
  BY <1>5 DEF RejectionSeen, Receives, Waiting
<1>6. ASSUME NEW o \in Orders, NEW s \in States, CompletionSeen(o, s) PROVE OrdersInv'
  BY <1>6 DEF CompletionSeen, Receives, Waiting, Seen, AllSeen
<1> QED
  BY <1>1, <1>2, <1>3, <1>4, <1>5, <1>6 DEF OrdersNext, Update

\* From any start the order visits every feed account once: no two tries ask the
\* same one, and every account has its turn (feed_login.py 39).
LEMMA OrderIsRound ==
    ASSUME FeedAccounts # 0, preferred \in Indices
    PROVE  /\ \A i \in Indices : Account(i) \in Indices
           /\ \A i, j \in Indices : Account(i) = Account(j) => i = j
           /\ \A j \in Indices : \E i \in Indices : Account(i) = j
<1> USE FeedLoginAssumption DEF Indices
<1>1. ASSUME NEW i \in Indices
      PROVE  Account(i) = IF preferred + i < FeedAccounts THEN preferred + i
                          ELSE preferred + i - FeedAccounts
  <2>1. CASE preferred + i < FeedAccounts
    BY <2>1 DEF Account
  <2>2. CASE preferred + i >= FeedAccounts
    BY <2>2 DEF Account
  <2> QED
    BY <2>1, <2>2
<1>2. ASSUME NEW j \in Indices PROVE \E i \in Indices : Account(i) = j
  <2>1. CASE preferred <= j
    <3>1. Account(j - preferred) = j
      BY <2>1, <1>1
    <3> QED
      BY <2>1, <3>1
  <2>2. CASE j < preferred
    <3>1. Account(j + FeedAccounts - preferred) = j
      BY <2>2, <1>1
    <3> QED
      BY <2>2, <3>1
  <2> QED
    BY <2>1, <2>2
<1>3. ASSUME NEW i \in Indices PROVE Account(i) \in Indices
  BY <1>1
<1>4. ASSUME NEW i \in Indices, NEW j \in Indices, Account(i) = Account(j) PROVE i = j
  BY <1>1, <1>4
<1> QED
  BY <1>2, <1>3, <1>4

\* Every step of a call, and every change at the broker, preserves what is known of
\* the accounts that have refused it (feed_login.py 25-63).
LEMMA LoginStep == LoginInv /\ LoginNext => LoginInv'
<1> SUFFICES ASSUME LoginInv, LoginNext PROVE LoginInv'
  OBVIOUS
<1> USE FeedLoginAssumption DEF LoginInv, LoginTypeOK
<1>1. CASE CallLogin
  <2>1. tries' = 0 /\ refused' = {} /\ UNCHANGED admits
    BY <1>1 DEF CallLogin
  <2>2. refused' = {Account(i)' : i \in 0 .. tries' - 1}
    BY <2>1
  <2>3. CASE FeedAccounts = 0 /\ call' = "none" /\ UNCHANGED preferred
    BY <2>1, <2>2, <2>3
  <2>4. CASE preferred' \in Preferred /\ call' = "trying"
    <3>1. FeedAccounts > 0
      BY <2>4 DEF Indices
    <3> QED
      BY <2>1, <2>2, <2>4, <3>1
  <2> QED
    BY <1>1, <2>3, <2>4 DEF CallLogin
<1>2. CASE LetIn
  BY <1>2 DEF LetIn, Account
<1>3. CASE Refuse
  <2>1. tries \in Indices /\ tries' = tries + 1 /\ UNCHANGED preferred
    BY <1>3 DEF Refuse, Indices
  <2>2. Account(tries) \in Indices
    <3>1. FeedAccounts # 0 /\ preferred \in Indices
      BY <2>1 DEF Indices
    <3> QED
      BY <2>1, <3>1, OrderIsRound
  <2>3. \A i : Account(i)' = Account(i)
    BY <2>1 DEF Account
  <2>4. refused' = {Account(i)' : i \in 0 .. tries' - 1}
    <3>1. 0 .. tries' - 1 = (0 .. tries - 1) \cup {tries}
      BY <2>1 DEF Indices
    <3> QED
      BY <1>3, <2>3, <3>1 DEF Refuse
  <2>5. LoginTypeOK' /\ (call' \in {"trying", "account"} => tries' < FeedAccounts)
                     /\ (call' = "none" => tries' = FeedAccounts)
    BY <1>3, <2>1, <2>2 DEF Refuse, Indices
  <2> QED
    BY <2>4, <2>5
<1>4. CASE BrokerChanges
  BY <1>4 DEF BrokerChanges, Account
<1> QED
  BY <1>1, <1>2, <1>3, <1>4 DEF LoginNext

-----------------------------------------------------------------------------
\* What a part's invariant speaks of is left alone by the steps of the others.
LEMMA Untouched ==
    /\ FeedInv /\ UNCHANGED feedVars => FeedInv'
    /\ TimerInv /\ UNCHANGED timerVars => TimerInv'
    /\ OrdersInv /\ UNCHANGED orderVars => OrdersInv'
    /\ LoginInv /\ UNCHANGED loginVars => LoginInv'
<1>1. FeedInv /\ UNCHANGED feedVars => FeedInv'
  BY DEF FeedInv, FeedTypeOK, BeatsEndWithConnection, OneTickAfterStop, feedVars
<1>2. TimerInv /\ UNCHANGED timerVars => TimerInv'
  BY DEF TimerInv, TimerTypeOK, Alive, timerVars
<1>3. OrdersInv /\ UNCHANGED orderVars => OrdersInv'
  BY DEF OrdersInv, OrdersTypeOK, AnswerIsTrue, orderVars
<1>4. LoginInv /\ UNCHANGED loginVars => LoginInv'
  BY DEF LoginInv, LoginTypeOK, Account, loginVars
<1> QED
  BY <1>1, <1>2, <1>3, <1>4

\* The invariants hold throughout, whichever part moves.
THEOREM SessionInvariance == Spec => []Inductive
<1>1. Init => Inductive
  <2> SUFFICES ASSUME Init PROVE Inductive
    OBVIOUS
  <2>1. FeedInv
    <3>1. 0 \in Conns
      BY FeedAssumption DEF Conns
    <3>2. FeedTypeOK
      BY <3>1 DEF Init, FeedInit, FeedTypeOK
    <3> QED
      BY <3>2 DEF Init, FeedInit, FeedInv, BeatsEndWithConnection, OneTickAfterStop
  <2>2. TimerInv
    BY TimerAssumption DEF Init, TimerInit, TimerInv, TimerTypeOK, Alive, Callers
  <2>3. OrdersInv
    BY DEF Init, OrdersInit, OrdersInv, OrdersTypeOK, AnswerIsTrue, States, Answers
  <2>4. LoginInv
    BY FeedLoginAssumption DEF Init, LoginInit, LoginInv, LoginTypeOK
  <2> QED
    BY <2>1, <2>2, <2>3, <2>4 DEF Inductive
<1>2. Inductive /\ [Next]_vars => Inductive'
  <2> SUFFICES ASSUME Inductive, [Next]_vars PROVE Inductive'
    OBVIOUS
  <2>1. CASE FeedNext /\ UNCHANGED <<timerVars, orderVars, loginVars>>
    BY <2>1, FeedStep, Untouched DEF Inductive
  <2>2. CASE TimerNext /\ UNCHANGED <<feedVars, orderVars, loginVars>>
    BY <2>2, TimerStepPreserves, Untouched DEF Inductive
  <2>3. CASE OrdersNext /\ UNCHANGED <<feedVars, timerVars, loginVars>>
    BY <2>3, OrdersStep, Untouched DEF Inductive
  <2>4. CASE LoginNext /\ UNCHANGED <<feedVars, timerVars, orderVars>>
    BY <2>4, LoginStep, Untouched DEF Inductive
  <2>5. CASE UNCHANGED vars
    BY <2>5, Untouched DEF Inductive, vars
  <2> QED
    BY <2>1, <2>2, <2>3, <2>4, <2>5 DEF Next
<1> QED
  BY <1>1, <1>2, PTL DEF Spec

\* The type invariant, for any number of loops and orders.
THEOREM SessionTypeCorrect == Spec => []TypeOK
<1>1. Inductive => TypeOK
  BY DEF Inductive, FeedInv, TimerInv, OrdersInv, LoginInv, TypeOK
<1> QED
  BY <1>1, SessionInvariance, PTL

\* No heartbeat outlives its connection, for any faults of the feed.
THEOREM BeatsEnd == Spec => []BeatsEndWithConnection
<1>1. Inductive => BeatsEndWithConnection
  BY DEF Inductive, FeedInv
<1> QED
  BY <1>1, SessionInvariance, PTL

\* A strategy is called back once at most after it has called stop.
THEOREM TicksStop == Spec => []OneTickAfterStop
<1>1. Inductive => OneTickAfterStop
  BY DEF Inductive, FeedInv
<1> QED
  BY <1>1, SessionInvariance, PTL

\* A timer whose callback does not call stop has one live loop at most, however often
\* its owner starts and stops it and wherever the loop is then: stop waits for the
\* loop it has cancelled (timer.py 30-44).
THEOREM SingleLoop == ASSUME ~CallbackMayStop PROVE Spec => []OneLoop
<1>1. Inductive => OneLoop
  BY DEF Inductive, TimerInv, OneLoop
<1> QED
  BY <1>1, SessionInvariance, PTL

\* What wait_for_orders returns is so at the broker, for any orders and any order
\* and repetition of the updates.
THEOREM AnswersHold == Spec => []AnswerIsTrue
<1>1. Inductive => AnswerIsTrue
  BY DEF Inductive, OrdersInv
<1> QED
  BY <1>1, SessionInvariance, PTL

\* A call asks every feed account once before it gives up, for any number of
\* accounts, any preference and however the broker changes its mind meanwhile.
THEOREM LoginFallsBack == Spec => []FeedFallsBack
<1>1. Inductive => FeedFallsBack
  <2> SUFFICES ASSUME LoginInv PROVE FeedFallsBack
    BY DEF Inductive
  <2> USE FeedLoginAssumption DEF LoginInv, LoginTypeOK
  <2>1. CASE call = "none" /\ FeedAccounts # 0
    <3>1. preferred \in Indices /\ 0 .. tries - 1 = Indices
      BY <2>1 DEF Indices
    <3> QED
      BY <2>1, <3>1, OrderIsRound DEF FeedFallsBack
  <2>2. CASE call = "none" /\ FeedAccounts = 0
    BY <2>2 DEF FeedFallsBack, Indices
  <2>3. CASE call = "account"
    <3>1. preferred \in Indices /\ FeedAccounts # 0
             /\ tries \in Indices /\ \A i \in 0 .. tries - 1 : i \in Indices /\ i # tries
      BY <2>3 DEF Indices
    <3> QED
      BY <2>3, <3>1, OrderIsRound DEF FeedFallsBack
  <2> QED
    BY <2>1, <2>2, <2>3 DEF FeedFallsBack
<1> QED
  BY <1>1, SessionInvariance, PTL

=============================================================================
