------------------------------ MODULE MCCaches ------------------------------
(* Instances of the caches for TLC.                                          *)
EXTENDS CacheInvariant

\* Two workers and the web process' second thread beside the first worker.
Workers == [t \in Threads |-> IF t \in {"t1", "t2"} THEN "p1" ELSE "p2"]

EachJob ==
    [t \in Threads |-> CASE t = "t1" -> "select" [] t = "t3" -> "pick" [] OTHER -> "preload"]

\* SENSEX expires on days 1 and 3, NIFTY on days 2 and 5 or, by the list of day
\* 3, on days 3 and 5: the choice is SENSEX on day 1 and, by the tie, NIFTY on day 3.
Weeks ==
    [d \in Days |-> [i \in Indices |->
        CASE i = "SENSEX" -> {1, 3}
          [] i = "NIFTY"  -> IF d = 3 THEN {3, 5} ELSE {2, 5}]]

=============================================================================
