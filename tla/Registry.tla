------------------------------ MODULE Registry ------------------------------
(***************************************************************************)
(* What sign-up, registration, creation and deletion promise together: one *)
(* registry of identities and accounts.  An identity is issued once and    *)
(* withdrawn once.  An account opens under a key that no account has ever  *)
(* had, for the identity of its address; it closes after its identity has  *)
(* been withdrawn.                                                         *)
(*                                                                         *)
(* Identities and accounts are in two stores, so an identity can go while  *)
(* somebody else is at work with it.  Such identities are doubtful: for    *)
(* them alone an account may still open.                                   *)
(***************************************************************************)
CONSTANTS
    Address,    \* e-mail addresses
    Identity,   \* identities
    Account,    \* accounts: records of id, uid and email
    NoIdentity  \* nobody has signed up with the address

VARIABLES
    identity,  \* the identity of each address
    issued,    \* identities there have been
    open,      \* accounts there are
    used,      \* keys of the accounts there have been
    doubtful   \* identities an account may lack

Distinct(a, b) == a.uid # b.uid /\ a.email # b.email

Init ==
    /\ identity = [e \in Address |-> NoIdentity]
    /\ issued = {} /\ open = {} /\ used = {} /\ doubtful = {}

\* A person signs up, or an administrator creates them.
Issue(e, uid) ==
    /\ identity[e] = NoIdentity
    /\ uid \notin issued
    /\ identity' = [identity EXCEPT ![e] = uid]
    /\ issued' = issued \cup {uid}
    /\ UNCHANGED <<open, used, doubtful>>

\* A deletion, or a creation that is taken back.
Withdraw(e) ==
    /\ identity[e] # NoIdentity
    /\ identity' = [identity EXCEPT ![e] = NoIdentity]
    /\ doubtful' \in {doubtful, doubtful \cup {identity[e]}}
    /\ UNCHANGED <<issued, open, used>>

\* A deletion breaks off after its identity has gone.
Doubt(uid) ==
    /\ uid \in issued /\ \A e \in Address : identity[e] # uid
    /\ doubtful' = doubtful \cup {uid}
    /\ UNCHANGED <<identity, issued, open, used>>

\* POST /auth/register and POST /admin/users
Open(account) ==
    /\ account.id \notin used
    /\ \A other \in open : Distinct(account, other)
    /\ identity[account.email] = account.uid \/ account.uid \in doubtful
    /\ open' = open \cup {account}
    /\ used' = used \cup {account.id}
    /\ UNCHANGED <<identity, issued, doubtful>>

\* DELETE /admin/users/{id}
Close(account) ==
    /\ account \in open
    /\ \A e \in Address : identity[e] # account.uid
    /\ open' = open \ {account}
    /\ UNCHANGED <<identity, issued, used, doubtful>>

OfIdentities ==
    \/ \E e \in Address, uid \in Identity : Issue(e, uid)
    \/ \E e \in Address : Withdraw(e)
    \/ \E uid \in Identity : Doubt(uid)

OfAccounts == \E account \in Account : Open(account) \/ Close(account)

Spec == Init /\ [][OfIdentities \/ OfAccounts]_<<identity, issued, open, used, doubtful>>

=============================================================================
