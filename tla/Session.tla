------------------------------- MODULE Session -------------------------------
(***************************************************************************)
(* The long-lived parts of a strategy's session beside the executor: its   *)
(* feed, the login it needs, a timer, and the wait for an order.  They     *)
(* have nothing in common but the event loop they run in, so a behaviour   *)
(* moves one of them, the part, and leaves the others where they are.      *)
(***************************************************************************)
EXTENDS Feed, AsyncTimer, OrderStatus, FeedLogin

VARIABLE part

vars == <<feedVars, timerVars, orderVars, loginVars, part>>

Init ==
    /\ FeedInit
    /\ TimerInit
    /\ OrdersInit
    /\ LoginInit
    /\ part \in {"feed", "timer", "orders", "login"}

Next ==
    /\ \/ part = "feed"   /\ FeedNext   /\ UNCHANGED <<timerVars, orderVars, loginVars>>
       \/ part = "timer"  /\ TimerNext  /\ UNCHANGED <<feedVars, orderVars, loginVars>>
       \/ part = "orders" /\ OrdersNext /\ UNCHANGED <<feedVars, timerVars, loginVars>>
       \/ part = "login"  /\ LoginNext  /\ UNCHANGED <<feedVars, timerVars, orderVars>>
    /\ UNCHANGED part

Spec == Init /\ [][Next]_vars

FairSpec ==
    /\ Spec
    /\ part = "feed" => FeedFairness
    /\ part = "timer" => TimerFairness
    /\ part = "orders" => OrdersFairness
    /\ part = "login" => LoginFairness

-----------------------------------------------------------------------------
TypeOK == FeedTypeOK /\ TimerTypeOK /\ OrdersTypeOK /\ LoginTypeOK

\* No heartbeat outlives its connection, however reads, reconnects, failures and
\* stop follow one another: none is alive while the next connection is opened, nor
\* after run_forever has returned or raised (feed_ws.py 128-140).
BeatsEndWithConnection == beats \subseteq {conn} /\ (beats # {} => run \in Reading)

\* After stop a strategy is called back once more at most, for the read that was
\* pending (feed_ws.py 84-119, 147-148).
OneTickAfterStop == late <= 1

\* The answer is what the broker says of the orders: "completed" if every wanted
\* order is, "rejected" if the order named is (order_status.py 51-71).
AnswerIsTrue ==
    /\ answer[1] = "completed" => \A o \in wanted : state[o] = "complete"
    /\ answer[1] = "rejected" => answer[2] \in wanted /\ state[answer[2]] = "rejected"

\* A strategy goes without market data only when every feed account has refused it
\* in this call, whichever it prefers and however the broker's limits come and go;
\* no account is asked again after it has refused (feed_login.py 35-63).
FeedFallsBack ==
    /\ call = "none" => refused = Indices
    /\ call = "account" => Account(tries) \notin refused

\* stop ends run_forever, wherever it is (feed_ws.py 121-148).
StopEndsFeed == ~running ~> run \in {"over", "raised"}

\* stop ends the timer, unless it is started again: every loop comes to an end, the
\* one stop has cancelled and those that go on beside it because a callback's own
\* stop made the timer forget them (timer.py 20-44).
StopEndsTimer == stopped ~> ~stopped \/ \A g \in Loops : ~Alive(g)

\* A lost connection is replaced by one that is subscribed and read, unless the
\* feed is stopped or ends with an exception (feed_ws.py 89-96, 143-145).
FeedReconnects == run = "cancel" /\ running ~> run \in {"read", "raised"} \/ ~running

\* If all wanted orders are complete and the socket has told so, the wait ends, in
\* whatever order the updates come (order_status.py 66-71).
WaitEnds ==
    /\ Waiting /\ wanted # {} /\ \A o \in wanted : <<o, "complete">> \in updates
    ~> ~Waiting \/ socket = "closed"

=============================================================================
