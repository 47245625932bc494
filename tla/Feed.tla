-------------------------------- MODULE Feed ---------------------------------
(***************************************************************************)
(* The market-data stream: AngelWSStream of apps/marketdata/feed_ws.py.    *)
(* run_forever, its heartbeat tasks and the strategy that calls stop are   *)
(* coroutines of one event loop, so an action is what happens between two  *)
(* awaits.  Connections are numbered in a ring of ConnRing numbers, which  *)
(* tells the present connection from the ones before it.                   *)
(***************************************************************************)
EXTENDS Integers

CONSTANTS
    ConnRing,   \* how many connections are told apart
    FeedFaults  \* "connect", "subscribe", "close", "beat", "garbled"

ASSUME FeedAssumption == ConnRing \in Nat \ {0, 1}

VARIABLES
    running,    \* self._running
    run,        \* where run_forever is
    conn,       \* the number of the latest connection
    open,       \* whether its socket is open
    failing,    \* an exception is on its way out of run_forever
    beats,      \* the connections whose heartbeat task is alive
    late        \* callbacks begun after stop

feedVars == <<running, run, conn, open, failing, beats, late>>

Conns == 0 .. ConnRing - 1

Reading == {"read", "tick", "cancel"}

FeedTypeOK ==
    /\ running \in BOOLEAN
    /\ run \in {"connect", "subscribe", "close", "retry", "over", "raised"} \cup Reading
    /\ conn \in Conns
    /\ open \in BOOLEAN
    /\ open => run \notin {"connect", "retry", "over"}
    /\ failing \in BOOLEAN
    /\ beats \subseteq Conns
    /\ late \in Nat

FeedInit ==
    /\ running = TRUE
    /\ run = "connect"
    /\ conn = 0
    /\ open = FALSE
    /\ failing = FALSE
    /\ beats = {}
    /\ late = 0

-----------------------------------------------------------------------------
ConnectOk ==
    /\ run = "connect"
    /\ conn' = (conn + 1) % ConnRing
    /\ open' = TRUE
    /\ run' = "subscribe"
    /\ UNCHANGED <<running, failing, beats, late>>

ConnectFails ==
    /\ run = "connect" /\ "connect" \in FeedFaults
    /\ run' = "retry"
    /\ UNCHANGED <<running, conn, open, failing, beats, late>>

\* The heartbeat task is created whether or not stop has been called meanwhile.
Subscribe ==
    /\ run = "subscribe" /\ open
    /\ beats' = beats \cup {conn}
    /\ run' = IF running THEN "read" ELSE "cancel"
    /\ UNCHANGED <<running, conn, open, failing, late>>

\* send_subscription is called outside the try of run_forever.
SubscribeFails ==
    /\ run = "subscribe" /\ (~open \/ "subscribe" \in FeedFaults)
    /\ run' = "raised"
    /\ UNCHANGED <<running, conn, open, failing, beats, late>>

\* Fault: the loop of read_messages does not look at _running.
ReadOn == "read"

\* The test of the loop in read_messages.
NextRead == IF running THEN "read" ELSE "cancel"

Tick ==
    /\ run = "read" /\ open
    /\ run' = "tick"
    /\ late' = IF running THEN late ELSE late + 1
    /\ UNCHANGED <<running, conn, open, failing, beats>>

\* The callback returns or raises, which is logged.
TickDone ==
    /\ run = "tick"
    /\ run' = NextRead
    /\ UNCHANGED <<running, conn, open, failing, beats, late>>

\* A text frame, a short frame, or a token nobody has metadata for.
Ignore ==
    /\ run = "read" /\ open
    /\ run' = NextRead
    /\ UNCHANGED <<running, conn, open, failing, beats, late>>

\* parse_ltp_tick raises, outside the try around the read.
ParseFails ==
    /\ run = "read" /\ open /\ "garbled" \in FeedFaults
    /\ failing' = TRUE
    /\ run' = "cancel"
    /\ UNCHANGED <<running, conn, open, beats, late>>

\* A timeout, a closed connection, or any other error of the read.
ReadEnds ==
    /\ run = "read"
    /\ run' = "cancel"
    /\ UNCHANGED <<running, conn, open, failing, beats, late>>

\* Fault: the heartbeat is left to end by itself.
LeaveBeat == UNCHANGED beats

\* The heartbeat is cancelled and awaited.
EndBeat == beats' = beats \ {conn}

CancelBeat ==
    /\ run = "cancel"
    /\ EndBeat
    /\ run' = "close"
    /\ UNCHANGED <<running, conn, open, failing, late>>

\* Fault: run_forever makes one connection.
GiveUp == "over"

\* Fault: run_forever does not look at _running.
KeepOn == "connect"

\* The test of the loop in run_forever.
Again == IF running THEN "connect" ELSE "over"

\* Fault: the socket is left open.
LeaveOpen == UNCHANGED open

CloseSocket == open' = FALSE

Close ==
    /\ run = "close"
    /\ CloseSocket
    /\ run' = IF failing THEN "raised" ELSE IF running THEN "retry" ELSE Again
    /\ UNCHANGED <<running, conn, failing, beats, late>>

\* The sleep of reconnect_delay is over.
Retry ==
    /\ run = "retry"
    /\ run' = Again
    /\ UNCHANGED <<running, conn, open, failing, beats, late>>

RunStep ==
    \/ ConnectOk
    \/ ConnectFails
    \/ Subscribe
    \/ SubscribeFails
    \/ Tick
    \/ TickDone
    \/ Ignore
    \/ ParseFails
    \/ ReadEnds
    \/ CancelBeat
    \/ Close
    \/ Retry

\* A heartbeat ends on a failed send, or when it finds _running reset.
BeatEnds(c) ==
    /\ c \in beats
    /\ ~running \/ ~open \/ "beat" \in FeedFaults
    /\ beats' = beats \ {c}
    /\ UNCHANGED <<running, run, conn, open, failing, late>>

Stop ==
    /\ running
    /\ running' = FALSE
    /\ UNCHANGED <<run, conn, open, failing, beats, late>>

\* The server closes the socket.
Dropped ==
    /\ open /\ "close" \in FeedFaults
    /\ open' = FALSE
    /\ UNCHANGED <<running, run, conn, failing, beats, late>>

FeedNext == RunStep \/ (\E c \in Conns : BeatEnds(c)) \/ Stop \/ Dropped

\* Every await of run_forever ends: the read by its timeout of 40 s, opening and
\* closing by those of the library.  The server accepts a connection now and then.
FeedFairness == WF_feedVars(RunStep) /\ SF_feedVars(ConnectOk)

=============================================================================
