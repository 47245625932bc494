----------------------------- MODULE ScripMaster -----------------------------
(***************************************************************************)
(* The cache of the broker's instrument list: fetch_scrip_master of        *)
(* apps/marketdata/instruments.py.  Every worker process has a copy in     *)
(* memory behind a lock its threads share; all processes share one object  *)
(* in storage.  Both carry the date they are taken to be of.  The list     *)
(* itself is represented by the day on which it was downloaded.            *)
(*                                                                         *)
(* Days are numbered from 1; date 0 stands for an empty cache.             *)
(***************************************************************************)
EXTENDS Integers

CONSTANTS
    Procs,          \* worker processes, the web process among them
    Threads,        \* threads that call fetch_scrip_master
    ProcOf,         \* the process of a thread
    Forced,         \* the threads that call with force = True
    Faults,         \* what may fail: "storage", "network", "crash"
    LastDay,        \* bound on the days
    QuietMidnight,  \* no call is under way when a day ends
    NoThread

ASSUME MasterAssumption ==
    /\ ProcOf \in [Threads -> Procs]
    /\ Forced \subseteq Threads
    /\ LastDay \in Nat \ {0}
    /\ QuietMidnight \in BOOLEAN
    /\ NoThread \notin Threads

VARIABLES
    today,      \* the day it is
    memory,     \* memory[p]: the module-level cache of process p
    object,     \* the object in storage
    lock,       \* lock[p]: the thread of p inside the critical section
    fetch,      \* fetch[t]: where the latest call of thread t is
    began,      \* began[t]: date.today() when that call began
    attempt,    \* attempt[t]: the download attempt it is at
    got,        \* got[t]: the list it has in hand
    stamp       \* stamp[t]: the date it writes into the object

masterVars == <<today, memory, object, lock, fetch, began, attempt, got, stamp>>

MaxRetries == 3

Days == 1 .. LastDay

Copies == [date : 0 .. LastDay, data : 0 .. LastDay]

Empty == [date |-> 0, data |-> 0]

Critical == {"storage", "request", "receive", "upload"}

Under == {"lock"} \cup Critical

MasterTypeOK ==
    /\ today \in Days
    /\ memory \in [Procs -> Copies]
    /\ object \in Copies
    /\ lock \in [Procs -> Threads \cup {NoThread}]
    /\ fetch \in [Threads -> {"out", "returned", "raised"} \cup Under]
    /\ began \in [Threads -> 0 .. LastDay]
    /\ attempt \in [Threads -> 1 .. MaxRetries]
    /\ got \in [Threads -> 0 .. LastDay]
    /\ stamp \in [Threads -> 0 .. LastDay]

MasterInit ==
    /\ today = 1
    /\ memory = [p \in Procs |-> Empty]
    /\ object = Empty
    /\ lock = [p \in Procs |-> NoThread]
    /\ fetch = [t \in Threads |-> "out"]
    /\ began = [t \in Threads |-> 0]
    /\ attempt = [t \in Threads |-> 1]
    /\ got = [t \in Threads |-> 0]
    /\ stamp = [t \in Threads |-> 0]

-----------------------------------------------------------------------------
\* A call: it notes the date, then waits for the lock.
StartFetch(t) ==
    /\ fetch[t] \notin Under
    /\ fetch' = [fetch EXCEPT ![t] = "lock"]
    /\ began' = [began EXCEPT ![t] = today]
    /\ attempt' = [attempt EXCEPT ![t] = 1]
    /\ UNCHANGED <<today, memory, object, lock, got, stamp>>

\* Fault: the lock is not waited for.
Unlocked(p) == TRUE

LockIsFree(p) == lock[p] = NoThread

\* Fault: any copy counts as today's.
AnyCopy(copy, day) == copy.date # 0

IsOf(copy, day) == copy.date = day

MemoryHits(t) == t \notin Forced /\ IsOf(memory[ProcOf[t]], began[t])

\* The lock is taken and released again: memory has the list of the day.
ReadMemory(t) ==
    /\ fetch[t] = "lock" /\ LockIsFree(ProcOf[t])
    /\ MemoryHits(t)
    /\ got' = [got EXCEPT ![t] = memory[ProcOf[t]].data]
    /\ fetch' = [fetch EXCEPT ![t] = "returned"]
    /\ UNCHANGED <<today, memory, object, lock, began, attempt, stamp>>

MissMemory(t) ==
    /\ fetch[t] = "lock" /\ LockIsFree(ProcOf[t])
    /\ ~MemoryHits(t)
    /\ lock' = [lock EXCEPT ![ProcOf[t]] = t]
    /\ fetch' = [fetch EXCEPT ![t] = IF t \in Forced THEN "request" ELSE "storage"]
    /\ UNCHANGED <<today, memory, object, began, attempt, got, stamp>>

\* Fault: the critical section is left with the lock held.
Jam(t, end) ==
    /\ fetch' = [fetch EXCEPT ![t] = end]
    /\ UNCHANGED lock

\* The end of the critical section, by a return or an exception.
Leave(t, end) ==
    /\ lock' = [lock EXCEPT ![ProcOf[t]] = NoThread]
    /\ fetch' = [fetch EXCEPT ![t] = end]

\* The object is compared with the date at that moment and kept in memory under
\* the date at which the call began.
ReadStorage(t) ==
    /\ fetch[t] = "storage"
    /\ IsOf(object, today)
    /\ memory' = [memory EXCEPT ![ProcOf[t]] = [date |-> began[t], data |-> object.data]]
    /\ got' = [got EXCEPT ![t] = object.data]
    /\ Leave(t, "returned")
    /\ UNCHANGED <<today, object, began, attempt, stamp>>

\* No object, one of another day, or one that cannot be read.
MissStorage(t) ==
    /\ fetch[t] = "storage"
    /\ ~IsOf(object, today) \/ "storage" \in Faults
    /\ fetch' = [fetch EXCEPT ![t] = "request"]
    /\ UNCHANGED <<today, memory, object, lock, began, attempt, got, stamp>>

Request(t) ==
    /\ fetch[t] = "request"
    /\ got' = [got EXCEPT ![t] = today]
    /\ fetch' = [fetch EXCEPT ![t] = "receive"]
    /\ UNCHANGED <<today, memory, object, lock, began, attempt, stamp>>

Receive(t) ==
    /\ fetch[t] = "receive"
    /\ memory' = [memory EXCEPT ![ProcOf[t]] = [date |-> began[t], data |-> got[t]]]
    /\ stamp' = [stamp EXCEPT ![t] = today]
    /\ fetch' = [fetch EXCEPT ![t] = "upload"]
    /\ UNCHANGED <<today, object, lock, began, attempt, got>>

\* Fault: one attempt too many.
OneMore(t) == attempt[t] <= MaxRetries

AttemptsLeft(t) == attempt[t] < MaxRetries

DownloadFails(t) ==
    /\ fetch[t] = "receive" /\ "network" \in Faults
    /\ IF AttemptsLeft(t)
       THEN /\ fetch' = [fetch EXCEPT ![t] = "request"]
            /\ attempt' = [attempt EXCEPT ![t] = @ + 1]
            /\ UNCHANGED lock
       ELSE Leave(t, "raised") /\ UNCHANGED attempt
    /\ UNCHANGED <<today, memory, object, began, got, stamp>>

\* The upload may fail, which nobody is told of.
Upload(t) ==
    /\ fetch[t] = "upload"
    /\ \/ object' = [date |-> stamp[t], data |-> got[t]]
       \/ "storage" \in Faults /\ UNCHANGED object
    /\ Leave(t, "returned")
    /\ UNCHANGED <<today, memory, began, attempt, got, stamp>>

FetchStep(t) ==
    \/ ReadMemory(t)
    \/ MissMemory(t)
    \/ ReadStorage(t)
    \/ MissStorage(t)
    \/ Request(t)
    \/ Receive(t)
    \/ DownloadFails(t)
    \/ Upload(t)

-----------------------------------------------------------------------------
NewDay ==
    /\ today < LastDay
    /\ QuietMidnight => \A t \in Threads : fetch[t] \notin Under
    /\ today' = today + 1
    /\ UNCHANGED <<memory, object, lock, fetch, began, attempt, got, stamp>>

\* A worker process dies, with its memory and its calls, and is replaced.
Crash(p) ==
    /\ "crash" \in Faults
    /\ memory' = [memory EXCEPT ![p] = Empty]
    /\ lock' = [lock EXCEPT ![p] = NoThread]
    /\ fetch' = [t \in Threads |-> IF ProcOf[t] = p /\ fetch[t] \in Under
                                   THEN "out" ELSE fetch[t]]
    /\ UNCHANGED <<today, object, began, attempt, got, stamp>>

MasterNext ==
    \/ \E t \in Threads : StartFetch(t) \/ FetchStep(t)
    \/ \E p \in Procs : Crash(p)
    \/ NewDay

MasterSpec == MasterInit /\ [][MasterNext]_masterVars

=============================================================================
