------------------------------ MODULE FeedLogin ------------------------------
(***************************************************************************)
(* login_feed_account of core/angel/feed_login.py: the feed accounts are   *)
(* tried in turn, from the preferred one round to it.  An account may let  *)
(* in one moment and refuse the next.                                      *)
(***************************************************************************)
EXTENDS Integers

CONSTANTS
    FeedAccounts,   \* the number of configured feed accounts
    Preferred       \* the indices strategies start at

Indices == 0 .. FeedAccounts - 1

ASSUME FeedLoginAssumption ==
    /\ FeedAccounts \in Nat
    /\ Preferred \subseteq Indices

VARIABLES
    admits,     \* the accounts the broker lets in now
    call,       \* whether a call is under way, or what it has answered
    preferred,  \* the index the call starts at
    tries,      \* the number of accounts that have refused it
    refused     \* which they are

loginVars == <<admits, call, preferred, tries, refused>>

LoginTypeOK ==
    /\ admits \subseteq Indices
    /\ call \in {"idle", "trying", "account", "none"}
    /\ preferred \in Preferred \cup {0}
    /\ tries \in 0 .. FeedAccounts
    /\ refused \subseteq Indices

LoginInit ==
    /\ admits = Indices
    /\ call = "idle"
    /\ preferred = 0
    /\ tries = 0
    /\ refused = {}

-----------------------------------------------------------------------------
\* With no account configured the answer is None at once.
CallLogin ==
    /\ call # "trying"
    /\ \/ FeedAccounts = 0 /\ call' = "none" /\ UNCHANGED preferred
       \/ preferred' \in Preferred /\ call' = "trying"
    /\ tries' = 0
    /\ refused' = {}
    /\ UNCHANGED admits

\* Fault: the accounts before the preferred one are not tried, the last is again.
NoWrap(i) == IF preferred + i < FeedAccounts THEN preferred + i ELSE FeedAccounts - 1

\* The i-th account of the order.
Account(i) == (preferred + i) % FeedAccounts

LetIn ==
    /\ call = "trying" /\ Account(tries) \in admits
    /\ call' = "account"
    /\ UNCHANGED <<admits, preferred, tries, refused>>

Refuse ==
    /\ call = "trying" /\ Account(tries) \notin admits
    /\ tries' = tries + 1
    /\ refused' = refused \cup {Account(tries)}
    /\ call' = IF tries' = FeedAccounts THEN "none" ELSE "trying"
    /\ UNCHANGED <<admits, preferred>>

\* Rate limits and blocks come and go.
BrokerChanges ==
    /\ admits' \in SUBSET Indices
    /\ UNCHANGED <<call, preferred, tries, refused>>

LoginNext == CallLogin \/ LetIn \/ Refuse \/ BrokerChanges

LoginFairness == WF_loginVars(LetIn \/ Refuse)

=============================================================================
