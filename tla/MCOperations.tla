---------------------------- MODULE MCOperations -----------------------------
(***************************************************************************)
(* An instance of Operations: a Monday that is a holiday and a trading     *)
(* day, of three ticks each: the night and two of the session.             *)
(***************************************************************************)
EXTENDS Operations, TLC

Closed == {8}

Schedule == "bell" :> 1 @@ "snapshot" :> 2

Nifty == [d \in 8 .. 9 |-> "NIFTY"]

Overnights == "t1" :> "DRY" @@ "t2" :> ""

\* A test order at once and at a later time, a preview, and two live hedges, one of
\* a user who is no admin.
Asking ==
    LET Ask(task, mode, at) ==
          [role |-> "AP", confirmed |-> TRUE, task |-> task, instrument |-> "NIFTY",
           side |-> IF task = "test" THEN "ENTRY" ELSE "", mode |-> mode, at |-> at]
    IN  {Ask("test", "", 2), Ask("bell", "", 0), Ask("hedge", "LIVE", 0),
         [Ask("test", "LIVE", 0) EXCEPT !.confirmed = FALSE],
         [Ask("hedge", "LIVE", 0) EXCEPT !.role = ""]}

Accountholders == {"u1", "u2"}

Readability == "u1" :> "good" @@ "u2" :> "pinless"

Visiting == {[kind |-> "app", user |-> "u1"], [kind |-> "validate", user |-> "u1"],
             [kind |-> "page", user |-> "u2"]}

=============================================================================
