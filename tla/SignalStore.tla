---------------------------- MODULE SignalStore -----------------------------
(***************************************************************************)
(* The two tables behind apps/execution/signals.py and the queries the     *)
(* executor makes on them.  The uniqueness the module documents,           *)
(*     signals           : UNIQUE (strategy_id, trading_day, kind,         *)
(*                                 instrument)                             *)
(*     signal_executions : UNIQUE (signal_id, user_id, leg)                *)
(* is enforced by the database: an insert that would break it raises, and  *)
(* create_signal and record_execution turn that into None.                 *)
(*                                                                         *)
(* A slot is a triple (strategy, trading day, instrument).  A signal row   *)
(* is named by the task invocation that inserted it and by its kind, and   *)
(* an execution row by its signal, user and leg.                           *)
(***************************************************************************)
EXTENDS Legs

CONSTANTS
    Runs,       \* task invocations, each one a call of run_xxx
    Users,      \* the platform's users
    Slots       \* (strategy, trading day, instrument) triples

VARIABLES
    signals,    \* the rows of table signals
    status      \* the status of each row of table signal_executions

storeVars == <<signals, status>>

SignalRows == [run : Runs, kind : Kinds, slot : Slots]

Keys == Runs \X Kinds \X Users \X Legs

\* "none": the row does not exist.
Statuses == {"none", "pending", "placed", "dry", "failed"}

StoreTypeOK ==
    /\ signals \subseteq SignalRows
    /\ status \in [Keys -> Statuses]

StoreInit ==
    /\ signals = {}
    /\ status = [key \in Keys |-> "none"]

-----------------------------------------------------------------------------
\* The unique index on signals refuses a second row of a slot and kind.
SignalExists(slot, kind) == \E s \in signals : s.slot = slot /\ s.kind = kind

InsertSignal(run, kind, slot) ==
    signals' = signals \cup {[run |-> run, kind |-> kind, slot |-> slot]}

\* Fault: only an execution that went through counts as a duplicate.
PlacedOnly(key) == status[key] = "placed"

\* The unique index on signal_executions refuses a second row of a key.
ExecutionExists(key) == status[key] # "none"

\* Fault: the row starts with the status a signal starts with.
InsertCreated(key) == status' = [status EXCEPT ![key] = "created"]

InsertExecution(key) == status' = [status EXCEPT ![key] = "pending"]

UpdateExecution(key, s) == status' = [status EXCEPT ![key] = s]

\* The runs whose ENTRY row an EXIT signal of the slot is matched with.
MatchingEntries(slot) ==
    {run \in Runs : [run |-> run, kind |-> "ENTRY", slot |-> slot] \in signals}

\* Fault: every recorded leg counts as held.
RecordedLegs(entryRun, user) ==
    {leg \in Legs : status[<<entryRun, "ENTRY", user, leg>>] # "none"}

\* Fault: a position of which a leg failed does not count at all.
WholePositions(entryRun, user) ==
    IF \E leg \in Legs : status[<<entryRun, "ENTRY", user, leg>>] = "failed"
    THEN {}
    ELSE {leg \in Legs : status[<<entryRun, "ENTRY", user, leg>>] \in {"placed", "dry"}}

\* The legs the user is taken to hold: placed (LIVE) or dry (DRY).
PlacedLegs(entryRun, user) ==
    {leg \in Legs : status[<<entryRun, "ENTRY", user, leg>>] \in {"placed", "dry"}}

=============================================================================
