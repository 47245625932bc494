--------------------------- MODULE CacheInvariant ----------------------------
(***************************************************************************)
(* The inductive invariants behind the safety properties of the caches.    *)
(***************************************************************************)
EXTENDS CacheProperties

\* Whoever is in the critical section holds the lock of its process.
LockInv ==
    \A t \in Threads : fetch[t] \in Critical => lock[ProcOf[t]] = t

\* What a thread saw of its process' memory stays true until it fills it.
MissInv ==
    \A t \in Threads :
        fetch[t] \in {"storage", "request", "receive"} /\ t \notin Forced =>
            memory[ProcOf[t]].date # began[t]

\* A list that is dated was downloaded, and not in the future.
PastInv ==
    /\ \A p \in Procs :
         memory[p].data <= today /\ (memory[p].date # 0 => memory[p].data # 0)
    /\ object.data <= today /\ (object.date # 0 => object.data # 0)
    /\ \A t \in Threads :
         /\ got[t] <= today
         /\ fetch[t] # "out" => began[t] # 0
         /\ fetch[t] \in {"receive", "upload", "returned"} => got[t] # 0

\* Without a call across midnight the date on a copy is that of its list.
FreshInv ==
    /\ \A p \in Procs : memory[p].data >= memory[p].date
    /\ object.data >= object.date
    /\ \A t \in Threads :
         /\ fetch[t] \in Under => began[t] = today
         /\ fetch[t] \in {"receive", "upload"} => got[t] = today
         /\ fetch[t] = "upload" => stamp[t] = today
         /\ fetch[t] = "returned" => got[t] >= began[t]

MasterInv ==
    /\ MasterTypeOK
    /\ LockInv
    /\ MissInv
    /\ PastInv
    /\ QuietMidnight => FreshInv

\* The index the strategies should trade on day d.
IndexOf(d) == IF SensexIsSooner(d) THEN "SENSEX" ELSE "NIFTY"

\* A job under way was asked today, and calls the scrip master if it is to.
JobInv ==
    \A t \in Threads :
        /\ ~Ended(t) => asked[t] = today
        /\ job[t] \in Fetching => fetch[t] # "out" /\ began[t] = today
        /\ job[t] \notin Fetching => fetch[t] \notin Under

ChoiceInv ==
    /\ choice.date # 0 => choice.index = IndexOf(choice.date)
    /\ \A t \in Threads :
         /\ job[t] = "sensex" =>
              near[t] = NearestExpiry(Listed[today]["NIFTY"], today)
         /\ job[t] = "store" => label[t] = today /\ pick[t] = IndexOf(today)
         /\ job[t] = "done" /\ JobOf[t] # "preload" => pick[t] = IndexOf(asked[t])
         /\ job[t] = "preload" => JobOf[t] = "preload"

SelectorInv == QuietMidnight => JobInv /\ ChoiceInv

Inductive == TypeOK /\ MasterInv /\ SelectorInv

=============================================================================
