---------------------------- MODULE OrderStatus ------------------------------
(***************************************************************************)
(* wait_for_orders of core/angel/order_status.py: wait on the broker's     *)
(* order-status socket until one of the wanted orders is rejected or all   *)
(* are complete, or, with no order wanted, for any update.                 *)
(***************************************************************************)
CONSTANTS
    Orders,     \* the account's orders
    NoOrder

ASSUME OrdersAssumption == NoOrder \notin Orders

VARIABLES
    wanted,     \* order_ids
    state,      \* state[o]: the order at the broker
    updates,    \* the updates the socket may deliver, again and in any order
    socket,     \* "new", "open", "closed"
    complete,   \* filled: the orders seen complete
    answer      \* what wait_for_orders returned, about which order

orderVars == <<wanted, state, updates, socket, complete, answer>>

States == {"open", "complete", "rejected", "cancelled"}

Answers == {"none", "any", "completed", "rejected", "raised"}

OrdersTypeOK ==
    /\ wanted \subseteq Orders
    /\ state \in [Orders -> States]
    /\ updates \subseteq Orders \X States
    /\ socket \in {"new", "open", "closed"}
    /\ complete \subseteq Orders
    /\ answer \in Answers \X (Orders \cup {NoOrder})

OrdersInit ==
    /\ wanted \in SUBSET Orders
    /\ state = [o \in Orders |-> "open"]
    /\ updates = {}
    /\ socket = "new"
    /\ complete = {}
    /\ answer = <<"none", NoOrder>>

Waiting == answer = <<"none", NoOrder>>

-----------------------------------------------------------------------------
\* An update goes to the sockets that are open when the order changes.
OrderChanges(o) ==
    /\ state[o] = "open"
    /\ \E s \in States :
         /\ state' = [state EXCEPT ![o] = s]
         /\ updates' = IF socket = "open" THEN updates \cup {<<o, s>>} ELSE updates
    /\ UNCHANGED <<wanted, socket, complete, answer>>

Open ==
    /\ Waiting /\ socket = "new"
    /\ \/ socket' = "open" /\ UNCHANGED answer
       \/ answer' = <<"raised", NoOrder>> /\ UNCHANGED socket
    /\ UNCHANGED <<wanted, state, updates, complete>>

Receives(o, s) == Waiting /\ socket = "open" /\ <<o, s>> \in updates

\* No order is wanted: the first update is the answer.
AnyUpdate(o, s) ==
    /\ Receives(o, s) /\ wanted = {}
    /\ answer' = <<"any", o>>
    /\ UNCHANGED <<wanted, state, updates, socket, complete>>

RejectionSeen(o, s) ==
    /\ Receives(o, s) /\ o \in wanted /\ s = "rejected"
    /\ answer' = <<"rejected", o>>
    /\ UNCHANGED <<wanted, state, updates, socket, complete>>

\* Fault: only the order of the update is looked at.
ThisOne(seen, o) == o \in seen

AllSeen(seen, o) == wanted \subseteq seen

\* Fault: a completion is remembered until the next one.
LastOnly(o) == {o}

Seen(o) == complete \cup {o}

CompletionSeen(o, s) ==
    /\ Receives(o, s) /\ o \in wanted /\ s = "complete"
    /\ complete' = Seen(o)
    /\ answer' = IF AllSeen(complete', o) THEN <<"completed", NoOrder>> ELSE answer
    /\ UNCHANGED <<wanted, state, updates, socket>>

\* Once closed, every read raises, is printed and tried again after 2 s.
SocketCloses ==
    /\ socket = "open"
    /\ socket' = "closed"
    /\ UNCHANGED <<wanted, state, updates, complete, answer>>

Update(o, s) == AnyUpdate(o, s) \/ RejectionSeen(o, s) \/ CompletionSeen(o, s)

OrdersNext ==
    \/ Open
    \/ SocketCloses
    \/ \E o \in Orders : OrderChanges(o) \/ \E s \in States : Update(o, s)

\* Updates that were sent arrive while the socket is open.
OrdersFairness ==
    /\ WF_orderVars(Open)
    /\ \A o \in Orders, s \in States : WF_orderVars(Update(o, s))

=============================================================================
