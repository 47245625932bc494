--------------------------- MODULE CacheProperties ---------------------------
(***************************************************************************)
(* What should be true of the two caches.                                  *)
(***************************************************************************)
EXTENDS InstrumentSelector

\* Whatever a call returns is a list downloaded on the day the call began or
\* later: "a new calendar day naturally invalidates it via the date check"
\* (instruments.py 119, 141-143, 179-191).
MasterIsOfTheDay == \A t \in Threads : fetch[t] = "returned" => got[t] >= began[t]

\* Two threads of one process do not download one after the other: whoever goes
\* to the network does so because memory, as it is then, is of another day
\* (instruments.py 176-181, "fetched once and cached for the trading day").
DownloadsAreNeeded ==
    \A t \in Threads :
        fetch[t] = "request" /\ t \notin Forced =>
            memory[ProcOf[t]].date # began[t]

\* SENSEX has an expiry that is before every expiry NIFTY has left.
SensexIsSooner(d) ==
    \E e \in Listed[d]["SENSEX"] :
        e >= d /\ \A f \in Listed[d]["NIFTY"] : f >= d => e < f

\* Whoever asks for the index of a day, by computing it or by reading what
\* another worker stored, is told the one whose expiry in that day's list is
\* sooner, NIFTY on ties, so that all strategies of a day trade the same one
\* (celery.py 64-67, instrument_selector.py 60-113).
PickIsOfTheDay ==
    \A t \in Threads :
        job[t] = "done" /\ JobOf[t] # "preload" =>
            pick[t] = IF SensexIsSooner(asked[t]) THEN "SENSEX" ELSE "NIFTY"

\* Every job that starts ends: three failed attempts, an unreadable object or a
\* failed upload leave nobody waiting for the lock (instruments.py 176-209).
JobsEnd == \A t \in Threads : job[t] # "idle" ~> Ended(t)

=============================================================================
