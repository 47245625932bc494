---------------------------- MODULE OrderLedger -----------------------------
(***************************************************************************)
(* What the execution pipeline promises about orders, without saying how.  *)
(* Whoever runs a strategy, however often, each signal of a slot is        *)
(* claimed once; a claimed signal posts at most one order per user and     *)
(* leg; and outside the Test strategy the EXIT belongs to the run that     *)
(* opened the position and sells only legs the broker accepted a BUY for.  *)
(***************************************************************************)
EXTENDS Legs

CONSTANTS Runs, Users, Slots, TestSlots

VARIABLES
    claims,     \* the signals there are
    orders,     \* orders posted, per run, kind, user and leg
    accepted    \* those the broker accepted

ledgerVars == <<claims, orders, accepted>>

OrderKeys == Runs \X Kinds \X Users \X Legs

LedgerInit ==
    /\ claims = {}
    /\ orders = [key \in OrderKeys |-> 0]
    /\ accepted = {}

Claim(r, kind, slot) ==
    /\ \A c \in claims : c.slot # slot \/ c.kind # kind
    /\ \A c \in claims : c.run = r => c.slot = slot
    /\ kind = "EXIT" /\ slot \notin TestSlots =>
         [run |-> r, kind |-> "ENTRY", slot |-> slot] \in claims
    /\ claims' = claims \cup {[run |-> r, kind |-> kind, slot |-> slot]}
    /\ UNCHANGED <<orders, accepted>>

Post(c, user, leg) ==
    LET key == <<c.run, c.kind, user, leg>> IN
    /\ orders[key] = 0
    /\ c.kind = "EXIT" /\ c.slot \notin TestSlots =>
         <<c.run, "ENTRY", user, leg>> \in accepted
    /\ orders' = [orders EXCEPT ![key] = 1]
    /\ accepted' \in {accepted, accepted \cup {key}}
    /\ UNCHANGED claims

LedgerNext ==
    \/ \E r \in Runs, kind \in Kinds, slot \in Slots : Claim(r, kind, slot)
    \/ \E c \in claims, user \in Users, leg \in Legs : Post(c, user, leg)

LedgerSpec == LedgerInit /\ [][LedgerNext]_ledgerVars

=============================================================================
