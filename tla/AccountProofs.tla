---------------------------- MODULE AccountProofs ----------------------------
(***************************************************************************)
(* The safety properties of the users' broker sessions, proved: an         *)
(* inductive invariant of the rows, the requests and the refresh, which    *)
(* the other part of Operations leaves alone but for the clock.            *)
(***************************************************************************)
EXTENDS Operations, TLAPS

\* From the first tick of a day on, before which no refresh runs, every request under
\* way began today, and so what it is about to store is good today.
GoodVisit(v) ==
    /\ visit[v].since <= day
    /\ Underway(v) /\ 0 < time => visit[v].since = day
    /\ visit[v].pc \in {"store", "again"} /\ visit[v].since = day
         => visit[v].token = Token(v.user, day)
    /\ v.kind = "app" /\ visit[v].since = day /\ Credentials[v.user] = "good"
         => visit[v].pc # "stale"

VisitsInv == \A v \in Visits : GoodVisit(v)

\* Before that nothing counts as refreshed.
RefreshInv ==
    /\ ok # {} \/ refresh.pc # "idle" => 0 < time
    /\ refresh.pc \in {"login", "store"} => refresh.at \in Users
    /\ refresh.pc = "store" => refresh.token = Token(refresh.at, day)

AccountsInv ==
    /\ ClockTypeOK
    /\ AccountsTypeOK
    /\ VisitsInv
    /\ RefreshInv
    /\ RefreshedTokensWork

-----------------------------------------------------------------------------
\* The clock's values, as numbers.
LEMMA ClockNumbers ==
    /\ DayLength \in Nat /\ FirstDay \in Nat /\ LastDay \in Nat /\ RefreshAt \in Nat
    /\ 0 < FirstDay /\ FirstDay <= LastDay /\ 0 < RefreshAt /\ RefreshAt < DayLength
    /\ ClockTypeOK <=> /\ day \in Nat /\ FirstDay <= day /\ day <= LastDay
                       /\ time \in Nat /\ time < DayLength
<1>1. /\ DayLength \in Nat /\ FirstDay \in Nat /\ LastDay \in Nat
      /\ 0 < FirstDay /\ FirstDay <= LastDay
  BY CalendarAssumption
<1>2. RefreshAt \in Nat /\ 0 < RefreshAt /\ RefreshAt < DayLength
  BY CalendarAssumption, AccountsAssumption
<1>3. ClockTypeOK <=> /\ day \in Nat /\ FirstDay <= day /\ day <= LastDay
                     /\ time \in Nat /\ time < DayLength
  BY <1>1 DEF ClockTypeOK, Days, Ticks
<1> QED
  BY <1>1, <1>2, <1>3

\* A token the broker issues for an account is one a row can hold.
LEMMA TokenType ==
    ASSUME NEW a \in Users, NEW d \in Nat, d <= LastDay
    PROVE  Token(a, d) \in Tokens
<1>1. d \in 0 .. LastDay
  BY ClockNumbers
<1>2. a \in Users \cup {""}
  OBVIOUS
<1> QED
  BY <1>1, <1>2, Zenon DEF Token, Tokens

\* A part that has not begun keeps the invariant at any time.
LEMMA AccountsInitial == ClockTypeOK /\ AccountsInit => AccountsInv
<1> SUFFICES ASSUME ClockTypeOK, AccountsInit PROVE AccountsInv
  OBVIOUS
<1>1. ClockTypeOK
  OBVIOUS
<1>2. NoToken \in Tokens /\ \A a \in Users : Token(a, FirstDay - 1) \in Tokens
  <2>1. 0 \in 0 .. LastDay /\ FirstDay - 1 \in Nat /\ FirstDay - 1 <= LastDay
    BY ClockNumbers
  <2>2. NoToken \in Tokens
    BY <2>1 DEF NoToken, Tokens
  <2> QED
    BY <2>1, <2>2, TokenType
<1>3. row \in [Users -> Row]
  BY <1>2 DEF AccountsInit, Row
<1>4. visit \in [Visits -> VisitState]
  BY <1>2, ClockNumbers DEF AccountsInit, VisitState, NoVisit
<1>5. refresh \in RefreshState
  BY <1>2 DEF AccountsInit, RefreshState, NoRefresh
<1>6. refresh.pc = "idle" /\ ok = {} /\ failed = {}
  BY DEF AccountsInit, NoRefresh
<1>7. \A v \in Visits : visit[v].pc = "idle" /\ visit[v].since = 0
  BY DEF AccountsInit, NoVisit
<1>8. VisitsInv
  BY <1>1, <1>7, ClockNumbers DEF VisitsInv, GoodVisit, Underway
<1> QED
  BY <1>1, <1>3, <1>4, <1>5, <1>6, <1>7, <1>8
  DEF AccountsInv, AccountsTypeOK, RefreshInv, RefreshedTokensWork

-----------------------------------------------------------------------------
\* A request that goes one step on changes nothing for the others.
LEMMA OneVisit ==
    ASSUME AccountsInv, UNCHANGED clockVars, NEW v \in Visits, NEW x \in VisitState,
           visit' = [visit EXCEPT ![v] = x], GoodVisit(v)'
    PROVE  visit' \in [Visits -> VisitState] /\ VisitsInv'
<1>1. visit \in [Visits -> VisitState] /\ VisitsInv
  BY DEF AccountsInv, AccountsTypeOK
<1>2. visit' \in [Visits -> VisitState]
  BY <1>1
<1>3. ASSUME NEW u \in Visits, u # v PROVE GoodVisit(u)'
  <2>1. visit'[u] = visit[u] /\ GoodVisit(u) /\ day' = day /\ time' = time
    BY <1>1, <1>3 DEF VisitsInv, clockVars
  <2> QED
    BY <2>1 DEF GoodVisit, Underway
<1> QED
  BY <1>2, <1>3 DEF VisitsInv

\* Each step of a request leaves a request that keeps the invariant (balance.py
\* 20-124, accounts/views.py 34-119).
LEMMA VisitGoesOn ==
    ASSUME AccountsInv, UNCHANGED clockVars, NEW v \in Visits, VisitStep(v)
    PROVE  visit' \in [Visits -> VisitState] /\ VisitsInv'
<1>1. /\ visit \in [Visits -> VisitState] /\ row \in [Users -> Row] /\ v.user \in Users
      /\ GoodVisit(v) /\ visit[v] \in VisitState /\ row[v.user].token \in Tokens
      /\ v.kind \in {"app", "page", "validate"}
  BY AccountsAssumption DEF AccountsInv, AccountsTypeOK, VisitsInv, Row
<1>2. /\ day' = day /\ time' = time /\ day \in 0 .. LastDay /\ 0 \in 0 .. LastDay
      /\ 0 <= day /\ 0 # day
  BY ClockNumbers DEF AccountsInv, clockVars
<1>3. Token(v.user, day) \in Tokens /\ NoToken \in Tokens
  <2>1. day \in Nat /\ day <= LastDay
    BY <1>2, ClockNumbers
  <2>2. NoToken \in Tokens
    BY <1>2 DEF NoToken, Tokens
  <2> QED
    BY <1>1, <2>1, <2>2, TokenType
<1>4. ASSUME Answers(v) PROVE visit' \in [Visits -> VisitState] /\ VisitsInv'
  <2> DEFINE x == [NoVisit EXCEPT !.pc = "over"]
  <2>1. x = [pc |-> "over", token |-> NoToken, since |-> 0]
    BY DEF NoVisit
  <2>2. x \in VisitState
    BY <1>2, <1>3, <2>1 DEF VisitState
  <2>3. visit' = [visit EXCEPT ![v] = x] /\ visit'[v] = x
    BY <1>1, <1>4 DEF Answers
  <2>4. GoodVisit(v)'
    BY <1>2, <2>1, <2>3 DEF GoodVisit, Underway
  <2> QED
    BY <2>2, <2>3, <2>4, OneVisit
<1>5. ASSUME NEW pc \in {"login", "again", "stale"}, Goes(v, pc), Underway(v),
             pc = "again" => visit[v].pc = "store",
             pc = "stale" =>
               (v.kind = "app" /\ Credentials[v.user] = "good" => visit[v].since # day)
      PROVE  visit' \in [Visits -> VisitState] /\ VisitsInv'
  <2> DEFINE x == [visit[v] EXCEPT !.pc = pc]
  <2>1. x = [pc |-> pc, token |-> visit[v].token, since |-> visit[v].since]
    BY <1>1 DEF VisitState
  <2>2. x \in VisitState
    BY <1>1, <2>1 DEF VisitState
  <2>3. visit' = [visit EXCEPT ![v] = x] /\ visit'[v] = x
    BY <1>1, <1>5 DEF Goes
  <2>4. GoodVisit(v)'
    BY <1>1, <1>2, <1>5, <2>1, <2>3 DEF GoodVisit, Underway
  <2> QED
    BY <2>2, <2>3, <2>4, OneVisit
<1>6. CASE VisitBegins(v)
  <2>1. CASE Readable(v)
    <3> DEFINE x == [pc    |-> IF v.kind = "validate" THEN "login" ELSE "call",
                     token |-> row[v.user].token, since |-> day]
    <3>1. x \in VisitState
      BY <1>1, <1>2 DEF VisitState
    <3>2. visit' = [visit EXCEPT ![v] = x] /\ visit'[v] = x
      BY <1>1, <1>6, <2>1 DEF VisitBegins
    <3>3. GoodVisit(v)'
      BY <1>2, <3>2 DEF GoodVisit, Underway
    <3> QED
      BY <3>1, <3>2, <3>3, OneVisit
  <2>2. CASE ~Readable(v)
    BY <1>4, <1>6, <2>2 DEF VisitBegins
  <2> QED
    BY <2>1, <2>2
<1>7. CASE AskFunds(v)
  <2>1. Underway(v)
    BY <1>7 DEF AskFunds, Underway
  <2>2. CASE Goes(v, "stale") /\ ~Live(v.user, visit[v].token)
                /\ (v.kind = "page" \/ visit[v].pc = "again" \/ Credentials[v.user] # "good")
    <3>1. v.kind = "app" /\ Credentials[v.user] = "good" => visit[v].since # day
      BY <1>1, <2>2 DEF GoodVisit, Live
    <3> QED
      BY <1>5, <2>1, <2>2, <3>1
  <2>3. CASE Goes(v, "login")
    BY <1>5, <2>1, <2>3
  <2> QED
    BY <1>4, <1>7, <2>2, <2>3 DEF AskFunds
<1>8. CASE LogIn(v)
  <2>1. CASE visit' = [visit EXCEPT ![v] =
                         [pc |-> "store", token |-> NewToken(v), since |-> @.since]]
    <3> DEFINE x == [pc |-> "store", token |-> Token(v.user, day), since |-> visit[v].since]
    <3>2. x \in VisitState
      BY <1>1, <1>3 DEF VisitState
    <3>3. visit' = [visit EXCEPT ![v] = x] /\ visit'[v] = x
      BY <1>1, <2>1 DEF NewToken
    <3>4. GoodVisit(v)'
      BY <1>1, <1>2, <1>8, <3>3 DEF GoodVisit, Underway, LogIn, Token
    <3> QED
      BY <3>2, <3>3, <3>4, OneVisit
  <2> QED
    BY <1>4, <1>8, <2>1 DEF LogIn
<1>9. CASE StoreToken(v)
  <2>1. Underway(v) /\ visit[v].pc = "store"
    BY <1>9 DEF StoreToken, Underway
  <2>2. CASE Goes(v, "again")
    BY <1>5, <2>1, <2>2
  <2> QED
    BY <1>4, <1>9, <2>2 DEF StoreToken
<1> QED
  BY <1>6, <1>7, <1>8, <1>9 DEF VisitStep

-----------------------------------------------------------------------------
\* What a request stores is good today if the refresh may have run, so it cannot
\* undo what the refresh has done.
LEMMA VisitPreserves ==
    ASSUME AccountsInv, UNCHANGED clockVars, NEW v \in Visits, VisitStep(v)
    PROVE  AccountsInv'
<1>1. visit' \in [Visits -> VisitState] /\ VisitsInv'
  BY VisitGoesOn
<1>2. /\ refresh' = refresh /\ ok' = ok /\ failed' = failed /\ day' = day /\ time' = time
      /\ row \in [Users -> Row] /\ visit[v] \in VisitState /\ v.user \in Users
      /\ GoodVisit(v) /\ RefreshedTokensWork /\ RefreshInv
  BY AccountsAssumption DEF AccountsInv, AccountsTypeOK, VisitsInv, VisitStep, clockVars
<1>3. row' \in [Users -> Row] /\ RefreshedTokensWork'
  <2>1. CASE row' = row
    BY <1>2, <2>1 DEF RefreshedTokensWork
  <2>2. CASE /\ StoreToken(v)
             /\ row' = [row EXCEPT ![v.user] = [token    |-> visit[v].token,
                                               verified |-> @.verified \/ v.kind = "validate"]]
    <3>1. visit[v].token \in Tokens /\ visit[v].pc = "store"
      BY <1>2, <2>2 DEF VisitState, StoreToken
    <3>2. row[v.user].verified \in BOOLEAN
      BY <1>2 DEF Row
    <3>3. row' \in [Users -> Row]
      BY <1>2, <2>2, <3>1, <3>2 DEF Row
    <3>4. ASSUME NEW a \in ok PROVE row'[a].token = Token(a, day)
      <4>1. visit[v].token = Token(v.user, day)
        BY <1>2, <3>1, <3>4 DEF RefreshInv, GoodVisit, Underway
      <4>2. a \in Users
        BY <3>4 DEF AccountsInv, AccountsTypeOK
      <4>3. CASE a = v.user
        BY <1>2, <2>2, <4>1, <4>3
      <4>4. CASE a # v.user
        BY <1>2, <2>2, <3>4, <4>2, <4>4 DEF RefreshedTokensWork
      <4> QED
        BY <4>3, <4>4
    <3> QED
      BY <1>2, <3>3, <3>4 DEF RefreshedTokensWork
  <2> QED
    BY <2>1, <2>2 DEF VisitStep, VisitBegins, AskFunds, LogIn, StoreToken
<1> QED
  BY <1>1, <1>2, <1>3
  DEF AccountsInv, AccountsTypeOK, RefreshInv, ClockTypeOK

\* The user changes credentials: the token stays as it is.
LEMMA UnverifyPreserves ==
    ASSUME AccountsInv, UNCHANGED clockVars, NEW a \in Users, Unverify(a)
    PROVE  AccountsInv'
<1>1. /\ row \in [Users -> Row] /\ row' = [row EXCEPT ![a].verified = FALSE]
      /\ UNCHANGED <<visit, refresh, ok, failed, day, time>>
  BY DEF AccountsInv, AccountsTypeOK, Unverify, clockVars
<1>2. row' \in [Users -> Row]
  BY <1>1 DEF Row
<1>3. \A u \in Users : row'[u].token = row[u].token
  BY <1>1 DEF Row
<1> QED
  BY <1>1, <1>2, <1>3
  DEF AccountsInv, AccountsTypeOK, VisitsInv, GoodVisit, Underway, RefreshInv,
      RefreshedTokensWork, ClockTypeOK

-----------------------------------------------------------------------------
\* A step of the refresh keeps the requests as they are.
LEMMA RequestsWait ==
    ASSUME VisitsInv, UNCHANGED clockVars, UNCHANGED visit
    PROVE  VisitsInv'
  BY DEF VisitsInv, GoodVisit, Underway, clockVars

\* Where the refresh goes is typed.
LEMMA RefreshTyped ==
    ASSUME NEW pc \in {"idle", "next", "login", "store", "over"}, NEW todo \in SUBSET Users,
           NEW a \in Users \cup {""}, NEW token \in Tokens, RefreshGoes(pc, todo, a, token)
    PROVE  /\ refresh' \in RefreshState
           /\ refresh'.pc = pc /\ refresh'.at = a /\ refresh'.token = token
  BY DEF RefreshGoes, RefreshState

\* Each step of the refresh, and its end, keeps the invariant: what it counts as
\* success it has stored (tasks.py 30-90).
LEMMA RefreshPreserves ==
    ASSUME AccountsInv, UNCHANGED clockVars, UNCHANGED visit,
           (RefreshStep \/ RefreshDies)
    PROVE  AccountsInv'
<1>1. /\ day' = day /\ time' = time
      /\ row \in [Users -> Row] /\ visit \in [Visits -> VisitState] /\ refresh \in RefreshState
      /\ ok \subseteq Users /\ failed \subseteq Users
      /\ RefreshedTokensWork /\ RefreshInv /\ VisitsInv'
  BY RequestsWait DEF AccountsInv, AccountsTypeOK, clockVars
<1>2. /\ refresh.todo \in SUBSET Users /\ refresh.at \in Users \cup {""}
      /\ refresh.token \in Tokens
  BY <1>1 DEF RefreshState
<1>3. NoToken \in Tokens /\ \A a \in Users : Token(a, day) \in Tokens
  <2>1. day \in Nat /\ day <= LastDay /\ 0 \in 0 .. LastDay
    BY ClockNumbers DEF AccountsInv
  <2>2. NoToken \in Tokens
    BY <2>1 DEF NoToken, Tokens
  <2> QED
    BY <2>1, <2>2, TokenType
<1>4. SUFFICES /\ row' \in [Users -> Row] /\ refresh' \in RefreshState
               /\ ok' \subseteq Users /\ failed' \subseteq Users
               /\ RefreshInv' /\ RefreshedTokensWork'
  BY <1>1 DEF AccountsInv, AccountsTypeOK, ClockTypeOK
<1>5. ASSUME 0 < time, UNCHANGED row, ok' \subseteq ok, failed' \subseteq Users,
             NEW todo \in SUBSET Users, NEW token \in Tokens, NEW pc \in {"next", "over"},
             RefreshGoes(pc, todo, "", token)
      PROVE  /\ row' \in [Users -> Row] /\ refresh' \in RefreshState
             /\ ok' \subseteq Users /\ failed' \subseteq Users
             /\ RefreshInv' /\ RefreshedTokensWork'
  <2>1. refresh' \in RefreshState /\ refresh'.pc = pc
    BY <1>5, RefreshTyped
  <2>2. RefreshInv'
    BY <1>1, <1>5, <2>1 DEF RefreshInv
  <2> QED
    BY <1>1, <1>5, <2>1, <2>2 DEF RefreshedTokensWork
<1>6. ASSUME 0 < time, UNCHANGED <<row, ok, failed>>, NEW a \in Users,
             NEW token \in Tokens, NEW pc \in {"login", "store"}, NEW todo \in SUBSET Users,
             pc = "store" => token = Token(a, day), RefreshGoes(pc, todo, a, token)
      PROVE  /\ row' \in [Users -> Row] /\ refresh' \in RefreshState
             /\ ok' \subseteq Users /\ failed' \subseteq Users
             /\ RefreshInv' /\ RefreshedTokensWork'
  <2>1. refresh' \in RefreshState /\ refresh'.pc = pc /\ refresh'.at = a /\ refresh'.token = token
    BY <1>6, RefreshTyped
  <2>2. RefreshInv'
    BY <1>1, <1>6, <2>1 DEF RefreshInv
  <2> QED
    BY <1>1, <1>6, <2>1, <2>2 DEF RefreshedTokensWork
<1>7. CASE RefreshBegins
  <2> DEFINE listed == {a \in Users : row[a].verified}
  <2>1. listed \in SUBSET Users /\ {} \in SUBSET Users
    OBVIOUS
  <2>2. 0 < time
    <3>1. time \in Nat /\ RefreshAt \in Nat /\ 0 < RefreshAt
      BY ClockNumbers DEF AccountsInv
    <3>2. RefreshAt <= time \/ 0 < time
      BY <1>7 DEF RefreshBegins, Scheduled, Refired
    <3> QED
      BY <3>1, <3>2
  <2>4. UNCHANGED row /\ ok' \subseteq ok /\ failed' \subseteq Users
    BY <1>7 DEF RefreshBegins
  <2>3. RefreshGoes("next", listed, "", NoToken) \/ RefreshGoes("over", {}, "", NoToken)
    BY <1>7 DEF RefreshBegins
  <2> HIDE DEF listed
  <2> QED
    BY <1>3, <1>5, <2>1, <2>2, <2>3, <2>4
<1>8. refresh.pc \in {"next", "login", "store"} => 0 < time
  BY <1>1 DEF RefreshInv
<1>9. CASE NextAccount
  <2>1. PICK a \in refresh.todo :
          \/ RefreshGoes("login", refresh.todo \ {a}, a, refresh.token) /\ UNCHANGED failed
          \/ SkipAccount(a)
    BY <1>9 DEF NextAccount
  <2>2. a \in Users /\ refresh.todo \ {a} \in SUBSET Users /\ failed \cup {a} \subseteq Users
    BY <1>1, <1>2
  <2>3. 0 < time /\ UNCHANGED <<row, ok>>
    BY <1>8, <1>9 DEF NextAccount
  <2>4. CASE RefreshGoes("login", refresh.todo \ {a}, a, refresh.token) /\ UNCHANGED failed
    BY <1>2, <1>6, <2>2, <2>3, <2>4
  <2>5. CASE SkipAccount(a)
    BY <1>2, <1>5, <2>2, <2>3, <2>5 DEF SkipAccount
  <2> QED
    BY <2>1, <2>4, <2>5
<1>10. CASE RefreshLogsIn
  <2>1. refresh.at \in Users /\ 0 < time /\ UNCHANGED <<row, ok>>
    BY <1>1, <1>8, <1>10 DEF RefreshLogsIn, RefreshInv
  <2>2. CASE /\ RefreshGoes("store", refresh.todo, refresh.at, Token(refresh.at, day))
             /\ UNCHANGED failed
    BY <1>2, <1>3, <1>6, <2>1, <2>2
  <2>3. CASE SkipAccount(refresh.at)
    <3>1. refresh.todo \ {refresh.at} \in SUBSET Users /\ failed \cup {refresh.at} \subseteq Users
      BY <1>1, <1>2, <2>1
    <3> QED
      BY <1>2, <1>5, <2>1, <2>3, <3>1 DEF SkipAccount
  <2> QED
    BY <1>10, <2>2, <2>3 DEF RefreshLogsIn, Refused
<1>11. CASE RefreshStores
  <2> DEFINE a == refresh.at
             stored == [row EXCEPT ![a] = Renewed(@, refresh.token)]
  <2>1. /\ a \in Users /\ 0 < time /\ refresh.token = Token(a, day)
        /\ refresh.todo \ {a} \in SUBSET Users /\ failed \cup {a} \subseteq Users
    BY <1>1, <1>2, <1>8, <1>11 DEF RefreshStores, RefreshInv
  <2>2. /\ stored \in [Users -> Row] /\ stored[a].token = Token(a, day)
        /\ \A u \in Users : u # a => stored[u] = row[u]
    BY <1>1, <1>2, <2>1 DEF Renewed, Row
  <2>3. /\ row' \in {row, stored} /\ ok' \subseteq ok \cup {a} /\ (ok' # ok => row' = stored)
        /\ ok' \subseteq Users
    BY <1>1, <1>11, <2>1 DEF RefreshStores
  <2>4. RefreshedTokensWork'
    BY <1>1, <2>1, <2>2, <2>3 DEF RefreshedTokensWork
  <2>5. /\ failed' \subseteq Users
        /\ \E todo \in SUBSET Users : RefreshGoes("next", todo, "", refresh.token)
    BY <1>1, <1>2, <1>11, <2>1 DEF RefreshStores, SkipAccount
  <2>6. refresh' \in RefreshState /\ refresh'.pc = "next"
    BY <1>2, <2>5, RefreshTyped
  <2>7. RefreshInv'
    BY <1>1, <2>1, <2>6 DEF RefreshInv
  <2> QED
    BY <1>1, <2>2, <2>3, <2>4, <2>5, <2>6, <2>7
<1>12. CASE RefreshEnds
  BY <1>1, <1>3, <1>5, <1>8, <1>12 DEF RefreshEnds
<1>13. CASE RefreshDies
  <2>1. failed \cup refresh.todo \cup ({refresh.at} \ {""}) \subseteq Users
    BY <1>1, <1>2
  <2> QED
    BY <1>3, <1>5, <1>8, <1>13, <2>1 DEF RefreshDies
<1> QED
  BY <1>7, <1>9, <1>10, <1>11, <1>12, <1>13 DEF RefreshStep

-----------------------------------------------------------------------------
\* The clock of either part steps within the days that are explored.
LEMMA ClockSteps ==
    ASSUME ClockTypeOK, Tick \/ Midnight
    PROVE  ClockTypeOK'
<1>1. /\ day \in Nat /\ FirstDay <= day /\ day <= LastDay /\ time \in Nat /\ time < DayLength
      /\ DayLength \in Nat /\ FirstDay \in Nat /\ LastDay \in Nat /\ 0 < DayLength
  BY ClockNumbers
<1>2. /\ day' \in Nat /\ FirstDay <= day' /\ day' <= LastDay /\ time' \in Nat
      /\ time' < DayLength
  BY <1>1 DEF Tick, Midnight
<1> QED
  BY <1>1, <1>2 DEF ClockTypeOK, Days, Ticks

\* What is under way after the first tick has begun today: the tick waits for it.
LEMMA TickPreserves ==
    ASSUME AccountsInv, AccountsTick
    PROVE  AccountsInv'
<1>1. /\ ClockTypeOK /\ ClockTypeOK' /\ time' = time + 1 /\ day' = day
      /\ UNCHANGED <<row, visit, refresh, ok, failed>>
      /\ time = 0 => \A v \in Visits : Underway(v) => visit[v].since = day
  BY ClockSteps DEF AccountsInv, AccountsTick, accountVars, Tick
<1>2. day \in Nat /\ time \in Nat /\ RefreshAt \in Nat
  BY <1>1, ClockNumbers
<1>3. ASSUME NEW v \in Visits PROVE GoodVisit(v)'
  <2>1. GoodVisit(v)
    BY DEF AccountsInv, VisitsInv
  <2>2. 0 < time \/ time = 0
    BY <1>1, <1>2
  <2>3. Underway(v)' <=> Underway(v)
    BY <1>1 DEF Underway
  <2> QED
    BY <1>1, <2>1, <2>2, <2>3 DEF GoodVisit
<1>4. RefreshInv'
  BY <1>1, <1>2 DEF AccountsInv, RefreshInv
<1> QED
  BY <1>1, <1>3, <1>4
  DEF AccountsInv, AccountsTypeOK, VisitsInv, RefreshedTokensWork

\* The day that is over is behind every request, and nothing is refreshed yet.
LEMMA MidnightPreserves ==
    ASSUME AccountsInv, AccountsMidnight
    PROVE  AccountsInv'
<1>1. /\ ClockTypeOK /\ ClockTypeOK' /\ time' = 0 /\ day' = day + 1
      /\ UNCHANGED <<row, visit>> /\ refresh' = NoRefresh /\ ok' = {} /\ failed' = {}
  BY ClockSteps DEF AccountsInv, AccountsMidnight, Midnight
<1>2. day \in Nat /\ time \in Nat /\ RefreshAt \in Nat /\ 0 < RefreshAt /\ 0 \in 0 .. LastDay
  BY <1>1, ClockNumbers
<1>3. ASSUME NEW v \in Visits PROVE GoodVisit(v)'
  <2>1. visit[v].since <= day /\ visit[v].since \in Nat
    BY DEF AccountsInv, VisitsInv, GoodVisit, AccountsTypeOK, VisitState
  <2>2. visit'[v].since <= day' /\ visit'[v].since # day' /\ ~(0 < time')
    BY <1>1, <1>2, <2>1
  <2> QED
    BY <2>2 DEF GoodVisit
<1>4. refresh' \in RefreshState /\ RefreshInv'
  <2>1. NoToken \in Tokens
    BY <1>2 DEF NoToken, Tokens
  <2> QED
    BY <1>1, <2>1 DEF NoRefresh, RefreshState, RefreshInv
<1> QED
  BY <1>1, <1>3, <1>4
  DEF AccountsInv, AccountsTypeOK, VisitsInv, RefreshedTokensWork

-----------------------------------------------------------------------------
\* The part that is not explored is where it was at the start.
AccountsKeptApart == part = "tasks" => AccountsInit

SessionsInv == AccountsInv /\ AccountsKeptApart

LEMMA SessionsStep == SessionsInv /\ [Next]_vars => SessionsInv'
<1> SUFFICES ASSUME SessionsInv, [Next]_vars PROVE SessionsInv'
  OBVIOUS
<1>1. AccountsInv /\ AccountsKeptApart
  BY DEF SessionsInv
<1>2. CASE part = "tasks" /\ SchedulingNext /\ UNCHANGED <<accountVars, part>>
  <2>1. AccountsInit'
    BY <1>1, <1>2 DEF AccountsKeptApart, AccountsInit, accountVars
  <2>2. ClockTypeOK'
    <3>1. CASE UNCHANGED clockVars
      BY <1>1, <3>1 DEF AccountsInv, ClockTypeOK, clockVars
    <3>2. CASE Tick \/ Midnight
      BY <1>1, <3>2, ClockSteps DEF AccountsInv
    <3> QED
      BY <1>2, <3>1, <3>2 DEF SchedulingNext, SchedulingClock
  <2>3. ASSUME ClockTypeOK', AccountsInit' PROVE AccountsInv'
    BY <2>3, AccountsInitial, PTL
  <2> QED
    BY <2>1, <2>2, <2>3 DEF SessionsInv, AccountsKeptApart
<1>3. CASE part = "accounts" /\ AccountsNext /\ UNCHANGED part
  <2>1. AccountsInv'
    BY <1>1, <1>3, TickPreserves, MidnightPreserves, VisitPreserves, UnverifyPreserves,
       RefreshPreserves
    DEF AccountsNext, RefreshStep
  <2> QED
    BY <1>3, <2>1 DEF SessionsInv, AccountsKeptApart
<1>4. CASE UNCHANGED vars
  BY <1>1, <1>4
  DEF vars, clockVars, accountVars, SessionsInv, AccountsKeptApart, AccountsInit, AccountsInv,
      ClockTypeOK, AccountsTypeOK, VisitsInv, GoodVisit, Underway, RefreshInv,
      RefreshedTokensWork
<1> QED
  BY <1>2, <1>3, <1>4 DEF Next

\* The rows, the requests and the refresh keep the invariant.
THEOREM SessionsInvariant == Spec => []SessionsInv
<1>1. Init => SessionsInv
  <2>1. Init => ClockTypeOK
    BY ClockNumbers DEF Init, ClockInit
  <2> QED
    BY <2>1, AccountsInitial DEF Init, SessionsInv, AccountsKeptApart
<1> QED
  BY <1>1, SessionsStep, PTL DEF Spec

\* An account the refresh has counted as success has a token of its own, good for
\* the day, for any number of accounts and requests.
THEOREM TokensWork == Spec => []RefreshedTokensWork
<1>1. SessionsInv => RefreshedTokensWork
  BY DEF SessionsInv, AccountsInv
<1> QED
  BY <1>1, SessionsInvariant, PTL

\* The app's balance is not refused for an old token within a day.
THEOREM TheBalanceRecovers == Spec => []BalanceRecovers
<1>1. SessionsInv => BalanceRecovers
  BY DEF SessionsInv, AccountsInv, VisitsInv, GoodVisit, BalanceRecovers
<1> QED
  BY <1>1, SessionsInvariant, PTL

\* What a step may do to an account that waits to be verified.
VerifiedWhenAsked ==
    \A a \in Users : ~row[a].verified /\ row'[a].verified =>
        \E v \in Visits : v.kind = "validate" /\ v.user = a /\ visit[v].pc = "store"

LEMMA VerifiedStep == SessionsInv /\ [Next]_vars => VerifiedWhenAsked
<1> SUFFICES ASSUME SessionsInv, [Next]_vars PROVE VerifiedWhenAsked
  OBVIOUS
<1>1. row \in [Users -> Row]
  BY DEF SessionsInv, AccountsInv, AccountsTypeOK
<1>2. CASE row' = row
  BY <1>2 DEF VerifiedWhenAsked
<1>3. ASSUME NEW v \in Visits, visit[v].pc = "store",
             row' = [row EXCEPT ![v.user] = [token    |-> visit[v].token,
                                             verified |-> @.verified \/ v.kind = "validate"]]
      PROVE  VerifiedWhenAsked
  BY <1>1, <1>3 DEF VerifiedWhenAsked
<1>4. ASSUME row' = [row EXCEPT ![refresh.at] = Renewed(@, refresh.token)]
      PROVE  VerifiedWhenAsked
  BY <1>1, <1>4 DEF VerifiedWhenAsked, Renewed, Row
<1>5. ASSUME NEW a \in Users, Unverify(a) PROVE VerifiedWhenAsked
  BY <1>1, <1>5 DEF VerifiedWhenAsked, Unverify, Row
<1>6. ASSUME NEW v \in Visits, VisitStep(v) PROVE VerifiedWhenAsked
  BY <1>2, <1>3, <1>6 DEF VisitStep, VisitBegins, AskFunds, LogIn, StoreToken
<1>7. CASE RefreshStep \/ RefreshDies
  BY <1>2, <1>4, <1>7
  DEF RefreshStep, RefreshBegins, NextAccount, RefreshLogsIn, RefreshStores, RefreshEnds,
      RefreshDies
<1>8. row' = row \/ AccountsNext
  BY DEF Next, vars, accountVars
<1>9. CASE AccountsNext
  BY <1>2, <1>5, <1>6, <1>7, <1>9 DEF AccountsNext, AccountsTick, AccountsMidnight, accountVars
<1> QED
  BY <1>2, <1>8, <1>9

\* A refresh or a balance never makes an account verified, and a validation only its
\* own.
THEOREM ValidationVerifies == Spec => OnlyValidationVerifies
<1>1. SessionsInv /\ [Next]_vars => [VerifiedWhenAsked]_vars
  BY VerifiedStep
<1> QED
  BY <1>1, SessionsInvariant, PTL DEF Spec, OnlyValidationVerifies, VerifiedWhenAsked

=============================================================================
