-------------------------------- MODULE Legs --------------------------------
(***************************************************************************)
(* The vocabulary of a trade signal: its kind, the legs it may carry and   *)
(* the order in which executor._build_legs lists them.                     *)
(***************************************************************************)
EXTENDS Naturals

\* A signal opens (ENTRY, every leg a BUY) or closes (EXIT, every leg a SELL).
Kinds == {"ENTRY", "EXIT"}

Legs == {"CE", "PE", "FUT"}

\* Fault: one order for both kinds.
OneOrder(kind) == [CE |-> 1, PE |-> 2, FUT |-> 3]

\* The position of a leg in the list: the call first, then the compulsory
\* order of a hedge, put before future on ENTRY and future before put on EXIT.
LegRank(kind) ==
    [CE  |-> 1,
     PE  |-> IF kind = "ENTRY" THEN 2 ELSE 3,
     FUT |-> IF kind = "ENTRY" THEN 3 ELSE 2]

\* The next leg of a loop over the legs S of a signal.
NextLeg(S, kind) ==
    CHOOSE leg \in S : \A other \in S : LegRank(kind)[leg] <= LegRank(kind)[other]

\* The two modes, however the payload spells them.
Upper(mode) ==
    CASE mode \in {"LIVE", "live"} -> "LIVE"
      [] mode \in {"DRY", "dry"} -> "DRY"
      [] OTHER -> mode

\* Fault: whatever is not DRY is LIVE.
NotDry(mode) == IF Upper(mode) = "DRY" THEN "DRY" ELSE "LIVE"

\* A mode that is neither DRY nor LIVE is downgraded to DRY.
EffectiveMode(mode) == IF Upper(mode) \in {"DRY", "LIVE"} THEN Upper(mode) ELSE "DRY"

=============================================================================
