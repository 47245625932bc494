----------------------------- MODULE CacheProofs -----------------------------
(***************************************************************************)
(* The safety properties of the caches, for any processes, threads, jobs,  *)
(* expiries, days and faults.                                              *)
(***************************************************************************)
EXTENDS CacheInvariant, ExpiryProofs

-----------------------------------------------------------------------------
(* Nearest expiries.                                                         *)

\* The two nearest expiries decide as the whole lists do.
LEMMA SoonerIsSooner ==
    ASSUME NEW d \in Days
    PROVE  Sooner(NearestExpiry(Listed[d]["NIFTY"], d),
                  NearestExpiry(Listed[d]["SENSEX"], d)) = IndexOf(d)
<1> DEFINE N == {e \in Listed[d]["NIFTY"] : e >= d}
           S == {e \in Listed[d]["SENSEX"] : e >= d}
<1>1. N \in SUBSET (Nat \ {NoExpiry}) /\ S \in SUBSET (Nat \ {NoExpiry})
  <2>1. Listed[d] \in [Indices -> SUBSET (Nat \ {NoExpiry})]
    BY SelectorAssumption
  <2> QED BY <2>1 DEF Indices
<1>2. SensexIsSooner(d) <=> \E e \in S : \A f \in N : e < f
  BY DEF SensexIsSooner
<1> HIDE DEF N, S
<1>3. (\E e \in S : \A f \in N : e < f)
         <=> /\ Earliest(S) # NoExpiry
             /\ Earliest(N) = NoExpiry \/ Earliest(S) < Earliest(N)
  BY <1>1, EarliestIsLeast
<1>4. NearestExpiry(Listed[d]["NIFTY"], d) = Earliest(N)
  BY DEF NearestExpiry, N
<1>5. NearestExpiry(Listed[d]["SENSEX"], d) = Earliest(S)
  BY DEF NearestExpiry, S
<1> QED BY <1>2, <1>3, <1>4, <1>5 DEF Sooner, IndexOf

-----------------------------------------------------------------------------
(* The scrip master.                                                         *)

\* The invariant holds when nobody has called yet.
LEMMA MasterInitially == MasterInit => MasterInv
<1> SUFFICES ASSUME MasterInit PROVE MasterInv
  OBVIOUS
<1>1. MasterTypeOK
  BY MasterAssumption DEF MasterInit, MasterTypeOK, Days, Copies, Empty, MaxRetries
<1> QED
  BY <1>1, MasterAssumption
  DEF MasterInit, MasterInv, LockInv, MissInv, PastInv, FreshInv, Critical, Under, Empty

\* Every step of a call, of a crash and of the clock keeps the types.
LEMMA MasterTypes == MasterTypeOK /\ MasterNext => MasterTypeOK'
<1> SUFFICES ASSUME MasterTypeOK, MasterNext PROVE MasterTypeOK'
  OBVIOUS
<1> USE MasterAssumption DEF MasterTypeOK, Days, Copies, Under, Critical
<1>1. ASSUME NEW t \in Threads, StartFetch(t) PROVE MasterTypeOK'
  BY <1>1 DEF StartFetch, MaxRetries
<1>2. ASSUME NEW t \in Threads, ReadMemory(t) PROVE MasterTypeOK'
  BY <1>2 DEF ReadMemory
<1>3. ASSUME NEW t \in Threads, MissMemory(t) PROVE MasterTypeOK'
  BY <1>3 DEF MissMemory
<1>4. ASSUME NEW t \in Threads, ReadStorage(t) PROVE MasterTypeOK'
  BY <1>4 DEF ReadStorage, Leave
<1>5. ASSUME NEW t \in Threads, MissStorage(t) PROVE MasterTypeOK'
  BY <1>5 DEF MissStorage
<1>6. ASSUME NEW t \in Threads, Request(t) PROVE MasterTypeOK'
  BY <1>6 DEF Request
<1>7. ASSUME NEW t \in Threads, Receive(t) PROVE MasterTypeOK'
  BY <1>7 DEF Receive
<1>8. ASSUME NEW t \in Threads, DownloadFails(t) PROVE MasterTypeOK'
  BY <1>8 DEF DownloadFails, AttemptsLeft, MaxRetries, Leave
<1>9. ASSUME NEW t \in Threads, Upload(t) PROVE MasterTypeOK'
  BY <1>9 DEF Upload, Leave
<1>10. ASSUME NEW p \in Procs, Crash(p) PROVE MasterTypeOK'
  BY <1>10 DEF Crash, Empty
<1>11. CASE NewDay
  BY <1>11 DEF NewDay
<1> QED
  BY <1>1, <1>2, <1>3, <1>4, <1>5, <1>6, <1>7, <1>8, <1>9, <1>10, <1>11
  DEF MasterNext, FetchStep

\* Only the thread that holds the lock moves in the critical section, and it is
\* the one that gives the lock back.
LEMMA MasterLocks == MasterInv /\ MasterNext => LockInv'
<1> SUFFICES ASSUME MasterInv, MasterNext PROVE LockInv'
  OBVIOUS
<1> USE MasterAssumption DEF MasterInv, MasterTypeOK, LockInv, Under, Critical
<1>1. ASSUME NEW t \in Threads, StartFetch(t) PROVE LockInv'
  BY <1>1 DEF StartFetch
<1>2. ASSUME NEW t \in Threads, ReadMemory(t) PROVE LockInv'
  BY <1>2 DEF ReadMemory
<1>3. ASSUME NEW t \in Threads, MissMemory(t) PROVE LockInv'
  BY <1>3 DEF MissMemory, LockIsFree
<1>4. ASSUME NEW t \in Threads, ReadStorage(t) PROVE LockInv'
  BY <1>4 DEF ReadStorage, Leave
<1>5. ASSUME NEW t \in Threads, MissStorage(t) PROVE LockInv'
  BY <1>5 DEF MissStorage
<1>6. ASSUME NEW t \in Threads, Request(t) PROVE LockInv'
  BY <1>6 DEF Request
<1>7. ASSUME NEW t \in Threads, Receive(t) PROVE LockInv'
  BY <1>7 DEF Receive
<1>8. ASSUME NEW t \in Threads, DownloadFails(t) PROVE LockInv'
  BY <1>8 DEF DownloadFails, Leave
<1>9. ASSUME NEW t \in Threads, Upload(t) PROVE LockInv'
  BY <1>9 DEF Upload, Leave
<1>10. ASSUME NEW p \in Procs, Crash(p) PROVE LockInv'
  BY <1>10 DEF Crash
<1>11. CASE NewDay
  BY <1>11 DEF NewDay
<1> QED
  BY <1>1, <1>2, <1>3, <1>4, <1>5, <1>6, <1>7, <1>8, <1>9, <1>10, <1>11
  DEF MasterNext, FetchStep

\* Memory is filled by the holder of the lock only, so what another thread missed
\* is still missing: there is no other thread between its miss and its fill.
LEMMA MasterMisses == MasterInv /\ MasterNext => MissInv'
<1> SUFFICES ASSUME MasterInv, MasterNext PROVE MissInv'
  OBVIOUS
<1> USE MasterAssumption DEF MasterInv, MasterTypeOK, LockInv, MissInv, Under, Critical, Copies
<1>1. ASSUME NEW t \in Threads, StartFetch(t) PROVE MissInv'
  BY <1>1 DEF StartFetch
<1>2. ASSUME NEW t \in Threads, ReadMemory(t) PROVE MissInv'
  BY <1>2 DEF ReadMemory
<1>3. ASSUME NEW t \in Threads, MissMemory(t) PROVE MissInv'
  BY <1>3 DEF MissMemory, MemoryHits, IsOf
<1>4. ASSUME NEW t \in Threads, ReadStorage(t) PROVE MissInv'
  BY <1>4 DEF ReadStorage, Leave
<1>5. ASSUME NEW t \in Threads, MissStorage(t) PROVE MissInv'
  BY <1>5 DEF MissStorage
<1>6. ASSUME NEW t \in Threads, Request(t) PROVE MissInv'
  BY <1>6 DEF Request
<1>7. ASSUME NEW t \in Threads, Receive(t) PROVE MissInv'
  BY <1>7 DEF Receive
<1>8. ASSUME NEW t \in Threads, DownloadFails(t) PROVE MissInv'
  BY <1>8 DEF DownloadFails, Leave
<1>9. ASSUME NEW t \in Threads, Upload(t) PROVE MissInv'
  BY <1>9 DEF Upload, Leave
<1>10. ASSUME NEW p \in Procs, Crash(p) PROVE MissInv'
  BY <1>10 DEF Crash, Empty
<1>11. CASE NewDay
  BY <1>11 DEF NewDay
<1> QED
  BY <1>1, <1>2, <1>3, <1>4, <1>5, <1>6, <1>7, <1>8, <1>9, <1>10, <1>11
  DEF MasterNext, FetchStep

\* A list is of the day on which its download began.
LEMMA MasterPast == MasterInv /\ MasterNext => PastInv'
<1> SUFFICES ASSUME MasterInv, MasterNext PROVE PastInv'
  OBVIOUS
<1> USE MasterAssumption DEF MasterInv, MasterTypeOK, PastInv, Days, Copies, Under, Critical
<1>1. ASSUME NEW t \in Threads, StartFetch(t) PROVE PastInv'
  BY <1>1 DEF StartFetch
<1>2. ASSUME NEW t \in Threads, ReadMemory(t) PROVE PastInv'
  BY <1>2 DEF ReadMemory, MemoryHits, IsOf
<1>3. ASSUME NEW t \in Threads, MissMemory(t) \/ MissStorage(t) PROVE PastInv'
  BY <1>3 DEF MissMemory, MissStorage
<1>4. ASSUME NEW t \in Threads, ReadStorage(t) PROVE PastInv'
  BY <1>4 DEF ReadStorage, IsOf, Leave
<1>5. ASSUME NEW t \in Threads, Request(t) PROVE PastInv'
  BY <1>5 DEF Request
<1>6. ASSUME NEW t \in Threads, Receive(t) PROVE PastInv'
  BY <1>6 DEF Receive
<1>7. ASSUME NEW t \in Threads, DownloadFails(t) PROVE PastInv'
  BY <1>7 DEF DownloadFails, Leave
<1>8. ASSUME NEW t \in Threads, Upload(t) PROVE PastInv'
  BY <1>8 DEF Upload, Leave
<1>9. ASSUME NEW p \in Procs, Crash(p) PROVE PastInv'
  BY <1>9 DEF Crash, Empty
<1>10. CASE NewDay
  BY <1>10 DEF NewDay
<1> QED
  BY <1>1, <1>2, <1>3, <1>4, <1>5, <1>6, <1>7, <1>8, <1>9, <1>10
  DEF MasterNext, FetchStep

\* As no call is under way at midnight, the dates a call reads at its beginning,
\* at the check of the object and at the upload are the same.
LEMMA MasterFresh == MasterInv /\ QuietMidnight /\ MasterNext => FreshInv'
<1> SUFFICES ASSUME MasterInv, QuietMidnight, MasterNext PROVE FreshInv'
  OBVIOUS
<1> USE MasterAssumption DEF MasterInv, MasterTypeOK, FreshInv, Days, Copies, Under, Critical
<1>1. ASSUME NEW t \in Threads, StartFetch(t) PROVE FreshInv'
  BY <1>1 DEF StartFetch
<1>2. ASSUME NEW t \in Threads, ReadMemory(t) PROVE FreshInv'
  BY <1>2 DEF ReadMemory, MemoryHits, IsOf
<1>3. ASSUME NEW t \in Threads, MissMemory(t) PROVE FreshInv'
  BY <1>3 DEF MissMemory
<1>4. ASSUME NEW t \in Threads, ReadStorage(t) PROVE FreshInv'
  BY <1>4 DEF ReadStorage, IsOf, Leave
<1>5. ASSUME NEW t \in Threads, MissStorage(t) PROVE FreshInv'
  BY <1>5 DEF MissStorage
<1>6. ASSUME NEW t \in Threads, Request(t) PROVE FreshInv'
  BY <1>6 DEF Request
<1>7. ASSUME NEW t \in Threads, Receive(t) PROVE FreshInv'
  BY <1>7 DEF Receive
<1>8. ASSUME NEW t \in Threads, DownloadFails(t) PROVE FreshInv'
  BY <1>8 DEF DownloadFails, Leave
<1>9. ASSUME NEW t \in Threads, Upload(t) PROVE FreshInv'
  BY <1>9 DEF Upload, Leave
<1>10. ASSUME NEW p \in Procs, Crash(p) PROVE FreshInv'
  BY <1>10 DEF Crash, Empty
<1>11. CASE NewDay
  BY <1>11 DEF NewDay
<1> QED
  BY <1>1, <1>2, <1>3, <1>4, <1>5, <1>6, <1>7, <1>8, <1>9, <1>10, <1>11
  DEF MasterNext, FetchStep

\* The invariant of the scrip master is inductive.
LEMMA MasterStep == MasterInv /\ [MasterNext]_masterVars => MasterInv'
<1> SUFFICES ASSUME MasterInv, [MasterNext]_masterVars PROVE MasterInv'
  OBVIOUS
<1>1. CASE MasterNext
  BY <1>1, MasterTypes, MasterLocks, MasterMisses, MasterPast, MasterFresh DEF MasterInv
<1>2. CASE UNCHANGED masterVars
  BY <1>2
  DEF masterVars, MasterInv, MasterTypeOK, LockInv, MissInv, PastInv, FreshInv
<1> QED BY <1>1, <1>2

-----------------------------------------------------------------------------
(* The selector.                                                             *)

\* The selector reaches the scrip master through its calls only: every step of a
\* job is a step of the scrip master or leaves it alone.
LEMMA SelectorUsesMaster == [Next]_vars => [MasterNext]_masterVars
<1> SUFFICES ASSUME [Next]_vars PROVE [MasterNext]_masterVars
  OBVIOUS
<1>1. ASSUME NEW t \in Threads, Skip(t) PROVE UNCHANGED masterVars
  BY <1>1 DEF Skip
<1>2. ASSUME NEW t \in Threads, Start(t) PROVE StartFetch(t) \/ UNCHANGED masterVars
  BY <1>2, SelectorAssumption DEF Start
<1>3. ASSUME NEW t \in Threads, Step(t)
      PROVE  StartFetch(t) \/ FetchStep(t) \/ UNCHANGED masterVars
  BY <1>3
  DEF Step, ReadChoice, MissChoice, Fetch, Preloaded, ResolveNifty, ResolveSensex,
      StoreChoice, GiveUp
<1>4. ASSUME NEW p \in Procs, WorkerDies(p) PROVE Crash(p)
  BY <1>4 DEF WorkerDies
<1>5. CASE Midnight
  BY <1>5 DEF Midnight, MasterNext
<1>6. CASE UNCHANGED vars
  BY <1>6 DEF vars
<1> QED
  BY <1>1, <1>2, <1>3, <1>4, <1>5, <1>6 DEF Next, MasterNext

\* The nearest expiry is a date or none.
LEMMA NearestIsNatural ==
    ASSUME NEW d \in Days, NEW i \in Indices, NEW day
    PROVE  NearestExpiry(Listed[d][i], day) \in Nat
<1> DEFINE S == {e \in Listed[d][i] : e >= day}
<1>1. S \in SUBSET (Nat \ {NoExpiry})
  BY SelectorAssumption
<1> HIDE DEF S
<1>2. Earliest(S) \in Nat
  BY <1>1, EarliestIsLeast
<1> QED BY <1>2 DEF NearestExpiry, S

\* Jobs keep to their types.
LEMMA SelectorTypes == TypeOK /\ MasterInv /\ [Next]_vars => TypeOK'
<1> SUFFICES ASSUME TypeOK, MasterInv, [Next]_vars PROVE TypeOK'
  OBVIOUS
<1> DEFINE JobTypeOK ==
      /\ job \in [Threads -> Jobs]
      /\ asked \in [Threads -> 0 .. LastDay]
      /\ near \in [Threads -> Nat]
      /\ pick \in [Threads -> Indices \cup {"None"}]
      /\ label \in [Threads -> 0 .. LastDay]
      /\ choice \in [date : 0 .. LastDay, index : Indices \cup {"None"}]
<1>a. JobTypeOK /\ today \in 0 .. LastDay
  BY MasterAssumption DEF TypeOK, MasterTypeOK, Days
<1>b. MasterTypeOK'
  BY SelectorUsesMaster, MasterStep DEF MasterInv
<1> SUFFICES JobTypeOK'
  BY <1>b DEF TypeOK
<1> USE DEF Jobs, Fetching, Goto
<1>1. ASSUME NEW t \in Threads, Skip(t) PROVE JobTypeOK'
  BY <1>1, <1>a DEF Skip
<1>2. ASSUME NEW t \in Threads, Start(t) PROVE JobTypeOK'
  BY <1>2, <1>a, SelectorAssumption DEF Start
<1>3. ASSUME NEW t \in Threads, ReadChoice(t) PROVE JobTypeOK'
  BY <1>3, <1>a DEF ReadChoice
<1>4. ASSUME NEW t \in Threads, MissChoice(t) PROVE JobTypeOK'
  <2>1. /\ job' = [job EXCEPT ![t] = "nifty"]
        /\ UNCHANGED <<asked, near, pick, label, choice>>
    BY <1>4, Zenon DEF MissChoice
  <2> QED BY <2>1, <1>a
<1>5. ASSUME NEW t \in Threads, Fetch(t) PROVE JobTypeOK'
  BY <1>5, <1>a DEF Fetch, jobVars
<1>6. ASSUME NEW t \in Threads, Preloaded(t) \/ GiveUp(t) PROVE JobTypeOK'
  BY <1>6, <1>a DEF Preloaded, GiveUp
<1>7. ASSUME NEW t \in Threads, ResolveNifty(t) PROVE JobTypeOK'
  <2>1. got[t] \in Days
    BY <1>7 DEF ResolveNifty, MasterInv, MasterTypeOK, PastInv, Days
  <2>2. NearestExpiry(Listed[got[t]]["NIFTY"], began[t]) \in Nat
    BY <2>1, NearestIsNatural DEF Indices
  <2> QED BY <1>7, <1>a, <2>2 DEF ResolveNifty
<1>8. ASSUME NEW t \in Threads, ResolveSensex(t) PROVE JobTypeOK'
  <2>1. \A n, s : Sooner(n, s) \in Indices
    BY DEF Sooner, Indices
  <2> QED BY <1>8, <1>a, <2>1 DEF ResolveSensex
<1>9. ASSUME NEW t \in Threads, StoreChoice(t) PROVE JobTypeOK'
  BY <1>9, <1>a DEF StoreChoice
<1>10. ASSUME NEW p \in Procs, WorkerDies(p) PROVE JobTypeOK'
  BY <1>10, <1>a DEF WorkerDies
<1>11. CASE Midnight
  BY <1>11, <1>a DEF Midnight, jobVars
<1>12. CASE UNCHANGED vars
  BY <1>12, <1>a DEF vars, jobVars
<1> QED
  BY <1>1, <1>2, <1>3, <1>4, <1>5, <1>6, <1>7, <1>8, <1>9, <1>10, <1>11, <1>12
  DEF Next, Step

\* A job is asked, calls and answers on one day.
LEMMA SelectorJobs ==
    Inductive /\ QuietMidnight /\ [Next]_vars => JobInv'
<1> SUFFICES ASSUME Inductive, QuietMidnight, [Next]_vars PROVE JobInv'
  OBVIOUS
<1> USE DEF Inductive, SelectorInv, TypeOK, MasterTypeOK, JobInv, Ended, Fetching, Goto,
            Jobs, Under, Critical
<1>1. ASSUME NEW t \in Threads, Skip(t) PROVE JobInv'
  BY <1>1 DEF Skip, masterVars
<1>2. ASSUME NEW t \in Threads, Start(t) PROVE JobInv'
  <2>1. CASE JobOf[t] = "pick"
    BY <1>2, <2>1 DEF Start, masterVars
  <2>2. CASE JobOf[t] # "pick"
    BY <1>2, <2>2 DEF Start, StartFetch
  <2> QED BY <2>1, <2>2
<1>3. ASSUME NEW t \in Threads, ReadChoice(t) PROVE JobInv'
  BY <1>3 DEF ReadChoice, masterVars
<1>4. ASSUME NEW t \in Threads, MissChoice(t) PROVE JobInv'
  BY <1>4 DEF MissChoice, StartFetch
<1>5. ASSUME NEW t \in Threads, Fetch(t) PROVE JobInv'
  <2>1. /\ fetch' \in [Threads -> {"out", "returned", "raised"} \cup Under]
        /\ \A u \in Threads : u # t => fetch'[u] = fetch[u]
        /\ fetch[t] \in Under /\ fetch'[t] # "out"
        /\ UNCHANGED <<today, began>>
    BY <1>5
    DEF Fetch, FetchStep, ReadMemory, MissMemory, ReadStorage, MissStorage, Request,
        Receive, DownloadFails, Upload, Leave
  <2> QED BY <1>5, <2>1 DEF Fetch, jobVars
<1>6. ASSUME NEW t \in Threads, Preloaded(t) \/ GiveUp(t) PROVE JobInv'
  BY <1>6 DEF Preloaded, GiveUp, masterVars
<1>7. ASSUME NEW t \in Threads, ResolveNifty(t) PROVE JobInv'
  BY <1>7 DEF ResolveNifty, StartFetch
<1>8. ASSUME NEW t \in Threads, ResolveSensex(t) PROVE JobInv'
  BY <1>8 DEF ResolveSensex, masterVars
<1>9. ASSUME NEW t \in Threads, StoreChoice(t) PROVE JobInv'
  BY <1>9 DEF StoreChoice, masterVars
<1>10. ASSUME NEW p \in Procs, WorkerDies(p) PROVE JobInv'
  BY <1>10 DEF WorkerDies, Crash
<1>11. CASE Midnight
  BY <1>11 DEF Midnight, NewDay, jobVars
<1>12. CASE UNCHANGED vars
  BY <1>12 DEF vars, jobVars, masterVars
<1> QED
  BY <1>1, <1>2, <1>3, <1>4, <1>5, <1>6, <1>7, <1>8, <1>9, <1>10, <1>11, <1>12
  DEF Next, Step

\* What is chosen, stored and read is the index of the day.
LEMMA SelectorChoices ==
    Inductive /\ QuietMidnight /\ [Next]_vars => ChoiceInv'
<1> SUFFICES ASSUME Inductive, QuietMidnight, [Next]_vars PROVE ChoiceInv'
  OBVIOUS
<1>a. TypeOK /\ today \in Days /\ today # 0 /\ JobInv /\ ChoiceInv
  BY DEF Inductive, SelectorInv, TypeOK, MasterTypeOK, Days
<1>b. ASSUME NEW t \in Threads, job[t] \in Fetching, fetch[t] = "returned"
      PROVE  got[t] = today /\ began[t] = today
  BY <1>a, <1>b DEF Inductive, MasterInv, MasterTypeOK, PastInv, FreshInv, JobInv, Days
<1>c. choice.date # 0 => choice.index = IndexOf(choice.date)
  BY <1>a DEF ChoiceInv
<1> USE DEF ChoiceInv, TypeOK, Jobs, Fetching, Goto
<1>1. ASSUME NEW t \in Threads, Skip(t) PROVE ChoiceInv'
  BY <1>1, <1>a DEF Skip, masterVars
<1>2. ASSUME NEW t \in Threads, Start(t) PROVE ChoiceInv'
  <2>1. CASE JobOf[t] = "pick"
    BY <1>2, <1>a, <2>1 DEF Start, masterVars
  <2>2. CASE JobOf[t] # "pick"
    BY <1>2, <1>a, <2>2 DEF Start, StartFetch
  <2> QED BY <2>1, <2>2
<1>3. ASSUME NEW t \in Threads, ReadChoice(t) PROVE ChoiceInv'
  <2>1. asked[t] = today /\ choice.index = IndexOf(today)
    BY <1>3, <1>a DEF ReadChoice, ChoiceIsOfToday, JobInv, Ended
  <2> QED BY <1>3, <1>a, <2>1 DEF ReadChoice, masterVars
<1>4. ASSUME NEW t \in Threads, MissChoice(t) PROVE ChoiceInv'
  BY <1>4, <1>a DEF MissChoice, StartFetch
<1>5. ASSUME NEW t \in Threads, Fetch(t) PROVE ChoiceInv'
  <2>1. UNCHANGED today
    BY <1>5
    DEF Fetch, FetchStep, ReadMemory, MissMemory, ReadStorage, MissStorage, Request,
        Receive, DownloadFails, Upload
  <2> QED BY <1>5, <1>a, <2>1 DEF Fetch, jobVars
<1>6. ASSUME NEW t \in Threads, Preloaded(t) \/ GiveUp(t) PROVE ChoiceInv'
  BY <1>6, <1>a DEF Preloaded, GiveUp, masterVars
<1>7. ASSUME NEW t \in Threads, ResolveNifty(t) PROVE ChoiceInv'
  <2>1. got[t] = today /\ began[t] = today
    BY <1>7, <1>b DEF ResolveNifty
  <2> QED BY <1>7, <1>a, <2>1 DEF ResolveNifty, StartFetch
<1>8. ASSUME NEW t \in Threads, ResolveSensex(t) PROVE ChoiceInv'
  <2>1. got[t] = today /\ began[t] = today
    BY <1>8, <1>b DEF ResolveSensex
  <2>2. Sooner(near[t], NearestExpiry(Listed[today]["SENSEX"], today)) = IndexOf(today)
    BY <1>8, <1>a, SoonerIsSooner DEF ResolveSensex
  <2> QED BY <1>8, <1>a, <2>1, <2>2 DEF ResolveSensex, masterVars
<1>9. ASSUME NEW t \in Threads, StoreChoice(t) PROVE ChoiceInv'
  <2>1. pick[t] = IndexOf(today) /\ label[t] = today /\ asked[t] = today
    BY <1>9, <1>a DEF StoreChoice, JobInv, Ended
  <2>2. choice'.date # 0 => choice'.index = IndexOf(choice'.date)
    BY <1>9, <1>c, <2>1 DEF StoreChoice
  <2> QED BY <1>9, <1>a, <2>1, <2>2 DEF StoreChoice, masterVars
<1>10. ASSUME NEW p \in Procs, WorkerDies(p) PROVE ChoiceInv'
  BY <1>10, <1>a DEF WorkerDies, Crash
<1>11. CASE Midnight
  BY <1>11, <1>a DEF Midnight, NewDay, jobVars, Ended
<1>12. CASE UNCHANGED vars
  BY <1>12, <1>a DEF vars, jobVars, masterVars
<1> QED
  BY <1>1, <1>2, <1>3, <1>4, <1>5, <1>6, <1>7, <1>8, <1>9, <1>10, <1>11, <1>12
  DEF Next, Step

\* The invariant holds before the first job.
LEMMA SelectorInitially == Init => Inductive
<1> SUFFICES ASSUME Init PROVE Inductive
  OBVIOUS
<1>1. MasterInv
  BY MasterInitially DEF Init
<1>2. TypeOK
  BY <1>1, MasterAssumption DEF Init, TypeOK, MasterInv, Jobs, NoExpiry
<1>3. SelectorInv
  BY DEF Init, MasterInit, SelectorInv, JobInv, ChoiceInv, Ended, Fetching, Under, Critical
<1> QED BY <1>1, <1>2, <1>3 DEF Inductive

-----------------------------------------------------------------------------
(* The theorems.                                                             *)

\* The scrip master keeps its invariant whatever program calls it.
THEOREM MasterSafe == MasterSpec => []MasterInv
<1>1. MasterInit => MasterInv
  BY MasterInitially
<1>2. MasterInv /\ [MasterNext]_masterVars => MasterInv'
  BY MasterStep
<1> QED BY <1>1, <1>2, PTL DEF MasterSpec

\* The selector is such a program: its behaviours are behaviours of the scrip
\* master with the calls the jobs make (instrument_selector.py 60-113).
THEOREM SelectorCallsMaster == Spec => MasterSpec
<1>1. Init => MasterInit
  BY DEF Init
<1>2. [Next]_vars => [MasterNext]_masterVars
  BY SelectorUsesMaster
<1> QED BY <1>1, <1>2, PTL DEF Spec, MasterSpec

\* The inductive invariant of the selector and the scrip master together.
THEOREM CachesInvariance == Spec => []Inductive
<1>1. Init => Inductive
  BY SelectorInitially
<1>2. Inductive /\ [Next]_vars => Inductive'
  <2> SUFFICES ASSUME Inductive, [Next]_vars PROVE Inductive'
    OBVIOUS
  <2>1. MasterInv'
    BY SelectorUsesMaster, MasterStep DEF Inductive
  <2>2. TypeOK'
    BY SelectorTypes DEF Inductive
  <2>3. SelectorInv'
    BY SelectorJobs, SelectorChoices DEF SelectorInv
  <2> QED BY <2>1, <2>2, <2>3 DEF Inductive
<1> QED BY <1>1, <1>2, PTL DEF Spec

\* The types of the caches.
THEOREM CachesTypeCorrect == Spec => []TypeOK
<1>1. Inductive => TypeOK
  BY DEF Inductive
<1> QED BY <1>1, CachesInvariance, PTL

\* A call returns a list downloaded on the day of the call or later, if no call
\* is under way at midnight (instruments.py 119).
THEOREM MasterCurrent ==
    ASSUME QuietMidnight PROVE Spec => []MasterIsOfTheDay
<1>1. Inductive => MasterIsOfTheDay
  BY DEF Inductive, MasterInv, FreshInv, MasterIsOfTheDay
<1> QED BY <1>1, CachesInvariance, PTL

\* No thread downloads what its process already has (instruments.py 176-181),
\* midnight or not.
THEOREM DownloadsNeeded == Spec => []DownloadsAreNeeded
<1>1. Inductive => DownloadsAreNeeded
  BY DEF Inductive, MasterInv, MissInv, DownloadsAreNeeded
<1> QED BY <1>1, CachesInvariance, PTL

\* Every strategy of a day is told the index whose expiry is sooner
\* (instrument_selector.py 60-113), if no job is under way at midnight.
THEOREM PickCurrent ==
    ASSUME QuietMidnight PROVE Spec => []PickIsOfTheDay
<1>1. Inductive => PickIsOfTheDay
  BY DEF Inductive, SelectorInv, ChoiceInv, PickIsOfTheDay, IndexOf
<1> QED BY <1>1, CachesInvariance, PTL

=============================================================================
