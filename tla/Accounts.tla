------------------------------ MODULE Accounts -------------------------------
(***************************************************************************)
(* The users' broker sessions: the rows of angel_accounts, the task that   *)
(* logs every verified account in each morning, and the requests that read *)
(* and write the same rows meanwhile: validate_account, the balance of the *)
(* app, which logs in again when it has to, and the page that shows it.    *)
(* A token the broker has issued is good until the day is over.            *)
(***************************************************************************)
EXTENDS Calendar

CONSTANTS
    Users,          \* accounts
    Credentials,    \* of an account: whether pin, secret and key can be read
    Visits,         \* requests, each made once
    RefreshAt,      \* the tick at which Beat sends the refresh
    Trouble         \* what may fail: see TroubleKinds

TroubleKinds == {"broker", "store", "crash", "stale_beat"}

\* With "pinless" the key can be read, the pin or the secret is not there.
ASSUME AccountsAssumption ==
    /\ Credentials \in [Users -> {"good", "pinless", "sealed"}]
    /\ Visits \subseteq [kind : {"app", "page", "validate"}, user : Users]
    /\ RefreshAt \in Nat /\ Dawn <= RefreshAt /\ RefreshAt < DayLength
    /\ Trouble \subseteq TroubleKinds

VARIABLES
    row,        \* an account's row: its token and whether it is verified
    visit,      \* where a request is
    refresh,    \* where the last refresh is
    ok, failed  \* the accounts it has counted as success and as failed

accountVars == <<row, visit, refresh, ok, failed>>

Token(a, d) == [of |-> a, day |-> d]

NoToken == [of |-> "", day |-> 0]

Tokens == [of : Users \cup {""}, day : 0 .. LastDay]

Live(a, token) == token = Token(a, day)

Row == [token : Tokens, verified : BOOLEAN]

VisitState == [pc : {"idle", "call", "login", "store", "again", "stale", "over"},
               token : Tokens, since : 0 .. LastDay]

RefreshState == [pc : {"idle", "next", "login", "store", "over"},
                 todo : SUBSET Users, at : Users \cup {""}, token : Tokens]

AccountsTypeOK ==
    /\ row \in [Users -> Row]
    /\ visit \in [Visits -> VisitState]
    /\ refresh \in RefreshState
    /\ ok \subseteq Users /\ failed \subseteq Users

NoVisit == [pc |-> "idle", token |-> NoToken, since |-> 0]

NoRefresh == [pc |-> "idle", todo |-> {}, at |-> "", token |-> NoToken]

\* Verified accounts have yesterday's token.
AccountsInit ==
    /\ \E verified \in SUBSET Users :
         row = [a \in Users |->
                  IF a \in verified THEN [token |-> Token(a, FirstDay - 1), verified |-> TRUE]
                  ELSE [token |-> NoToken, verified |-> FALSE]]
    /\ visit = [v \in Visits |-> NoVisit]
    /\ refresh = NoRefresh
    /\ ok = {} /\ failed = {}

-----------------------------------------------------------------------------
Goes(v, pc) == visit' = [visit EXCEPT ![v].pc = pc]

\* Any answer but that of an old token.
Answers(v) == visit' = [visit EXCEPT ![v] = [NoVisit EXCEPT !.pc = "over"]]

\* validate_account reads the credentials alone; the others want a verified account
\* with a token, and only the app's balance looks at pin and secret as well.
Readable(v) ==
    IF v.kind = "validate" THEN Credentials[v.user] = "good"
    ELSE row[v.user].verified /\ row[v.user].token # NoToken /\ Credentials[v.user] # "sealed"

VisitBegins(v) ==
    /\ visit[v].pc = "idle"
    /\ IF Readable(v)
       THEN visit' = [visit EXCEPT ![v] = [pc |-> IF v.kind = "validate" THEN "login" ELSE "call",
                                           token |-> row[v.user].token, since |-> day]]
       ELSE Answers(v)
    /\ UNCHANGED row

\* The broker is asked for the funds: with a token that has expired the app logs in
\* again, once, if pin and secret are there, and the page says so.
AskFunds(v) ==
    /\ visit[v].pc \in {"call", "again"}
    /\ \/ /\ Live(v.user, visit[v].token) \/ "broker" \in Trouble
          /\ Answers(v)
       \/ /\ ~Live(v.user, visit[v].token)
          /\ v.kind = "page" \/ visit[v].pc = "again" \/ Credentials[v.user] # "good"
          /\ Goes(v, "stale")
       \/ /\ ~Live(v.user, visit[v].token)
          /\ v.kind = "app" /\ visit[v].pc = "call" /\ Credentials[v.user] = "good"
          /\ Goes(v, "login")
    /\ UNCHANGED row

\* Fault: the token that was read is handed on.
TokenRead(v) == visit[v].token

NewToken(v) == Token(v.user, day)

LogIn(v) ==
    /\ visit[v].pc = "login"
    /\ \/ visit' = [visit EXCEPT ![v] = [pc |-> "store", token |-> NewToken(v), since |-> @.since]]
       \/ "broker" \in Trouble /\ Answers(v)
    /\ UNCHANGED row

StoreToken(v) ==
    /\ visit[v].pc = "store"
    /\ LET stored == [row EXCEPT ![v.user] = [token    |-> visit[v].token,
                                             verified |-> @.verified \/ v.kind = "validate"]]
       IN  \/ row' = stored /\ (IF v.kind = "validate" THEN Answers(v) ELSE Goes(v, "again"))
           \/ "store" \in Trouble /\ row' \in {row, stored} /\ Answers(v)

VisitStep(v) ==
    /\ VisitBegins(v) \/ AskFunds(v) \/ LogIn(v) \/ StoreToken(v)
    /\ UNCHANGED <<refresh, ok, failed>>

\* The user gives the app other credentials: the account waits to be verified.
Unverify(a) ==
    /\ row[a].verified
    /\ row' = [row EXCEPT ![a].verified = FALSE]
    /\ UNCHANGED <<visit, refresh, ok, failed>>

-----------------------------------------------------------------------------
RefreshGoes(pc, todo, a, token) == refresh' = [pc |-> pc, todo |-> todo, at |-> a, token |-> token]

\* Beat sends the task Monday to Friday.
Scheduled == refresh.pc = "idle" /\ RefreshAt <= time /\ ~IsWeekend(day)

\* With a stale celerybeat-schedule file it sends the task again, whenever it is
\* restarted (bounds: not in the first tick of a day, nor while a refresh is running).
Refired == "stale_beat" \in Trouble /\ refresh.pc \in {"idle", "over"} /\ 0 < time

\* The task looks at the calendar, lists the verified accounts and counts anew.
RefreshBegins ==
    /\ Scheduled \/ Refired
    /\ \/ IsTradingDay(day) /\ RefreshGoes("next", {a \in Users : row[a].verified}, "", NoToken)
       \/ /\ ~IsTradingDay(day) \/ "store" \in Trouble
          /\ RefreshGoes("over", {}, "", NoToken)
    /\ ok' = {} /\ failed' = {}
    /\ UNCHANGED row

\* Fault: an account that fails ends the task.
EndTask(a) == failed' = failed \cup {a} /\ RefreshGoes("over", {}, "", NoToken)

\* What fails for an account is counted, and the loop goes on.
SkipAccount(a) ==
    failed' = failed \cup {a} /\ RefreshGoes("next", refresh.todo \ {a}, "", refresh.token)

NextAccount ==
    /\ refresh.pc = "next"
    /\ \E a \in refresh.todo :
         \/ /\ Credentials[a] = "good"
            /\ RefreshGoes("login", refresh.todo \ {a}, a, refresh.token)
            /\ UNCHANGED failed
         \/ Credentials[a] # "good" /\ SkipAccount(a)
    /\ UNCHANGED <<row, ok>>

\* Fault: a login that is refused goes unnoticed, with the tokens of the account
\* before.
GoOn == RefreshGoes("store", refresh.todo, refresh.at, refresh.token) /\ UNCHANGED failed

Refused == SkipAccount(refresh.at)

RefreshLogsIn ==
    /\ refresh.pc = "login"
    /\ \/ /\ RefreshGoes("store", refresh.todo, refresh.at, Token(refresh.at, day))
          /\ UNCHANGED failed
       \/ "broker" \in Trouble /\ Refused
    /\ UNCHANGED <<row, ok>>

\* Fault: the row is written as it was listed.
AsListed(r, token) == [token |-> token, verified |-> TRUE]

Renewed(r, token) == [r EXCEPT !.token = token]

RefreshStores ==
    /\ refresh.pc = "store"
    /\ LET stored == [row EXCEPT ![refresh.at] = Renewed(@, refresh.token)]
       IN  \/ /\ row' = stored
              /\ ok' = ok \cup {refresh.at}
              /\ RefreshGoes("next", refresh.todo, "", refresh.token)
              /\ UNCHANGED failed
           \/ /\ "store" \in Trouble
              /\ row' \in {row, stored}
              /\ SkipAccount(refresh.at)
              /\ UNCHANGED ok

RefreshEnds ==
    /\ refresh.pc = "next" /\ refresh.todo = {}
    /\ RefreshGoes("over", {}, "", NoToken)
    /\ UNCHANGED <<row, ok, failed>>

\* The worker dies: nothing takes up what is left.
RefreshDies ==
    /\ "crash" \in Trouble
    /\ refresh.pc \in {"next", "login", "store"}
    /\ failed' = failed \cup refresh.todo \cup ({refresh.at} \ {""})
    /\ RefreshGoes("over", {}, "", NoToken)
    /\ UNCHANGED <<row, ok>>

RefreshStep ==
    /\ RefreshBegins \/ NextAccount \/ RefreshLogsIn \/ RefreshStores \/ RefreshEnds
    /\ UNCHANGED visit

-----------------------------------------------------------------------------
Underway(v) == visit[v].pc \in {"call", "login", "store", "again"}

\* A request takes seconds: one that midnight finds under way is over when the first
\* tick of the day is.
AccountsTick ==
    /\ Tick
    /\ time = 0 => \A v \in Visits : Underway(v) => visit[v].since = day
    /\ UNCHANGED accountVars

\* The refresh takes minutes: it does not run into the next day.
AccountsMidnight ==
    /\ Midnight
    /\ refresh.pc \in {"idle", "over"}
    /\ refresh' = NoRefresh
    /\ ok' = {} /\ failed' = {}
    /\ UNCHANGED <<row, visit>>

AccountsNext ==
    \/ AccountsTick \/ AccountsMidnight
    \/ UNCHANGED clockVars
         /\ \/ \E v \in Visits : VisitStep(v)
            \/ \E a \in Users : Unverify(a)
            \/ RefreshStep
            \/ RefreshDies /\ UNCHANGED visit

AccountsWork ==
    /\ UNCHANGED clockVars
    /\ RefreshStep \/ \E v \in Visits : visit[v].pc # "idle" /\ VisitStep(v)

=============================================================================
