------------------------------ MODULE AuthCache ------------------------------
(***************************************************************************)
(* The token cache in Redis.  get_current_user (shared/auth/dependencies)  *)
(* looks a token up, and on a miss verifies it with Firebase, reads the    *)
(* account's row and stores what it read under the token, together with an *)
(* index of the account's cached tokens.  Every administrator endpoint     *)
(* that changes access ends in _invalidate_auth_cache, which deletes the   *)
(* indexed tokens BEFORE the row's change is committed.  register and      *)
(* update_me change the row and leave the token entries alone.             *)
(*                                                                         *)
(* Each Redis command is atomic; between two commands, and between a       *)
(* command and its reply, other requests run.  Redis is optional: an error *)
(* in any command is swallowed and abandons the rest of its helper.        *)
(*                                                                         *)
(* A row is represented by its version, the number of its committed        *)
(* changes; which roles and columns they are is left to AdminAccess.       *)
(***************************************************************************)
EXTENDS Naturals, FiniteSets

CONSTANTS
    User,       \* accounts
    Token,      \* ID tokens Firebase may issue
    Owner,      \* the account each token is for
    Fill,       \* slots for requests through get_current_user
    Writer,     \* slots for requests that change a row and invalidate
    Lifetime,   \* clock ticks a cached entry and an index live
    MaxWrites,  \* bound: how many changes of rows a behaviour attempts
    Faults,     \* whether Redis errs and evicts, and requests fail half-way
    OwnEdits,   \* whether accounts change their own rows meanwhile
    NoCall      \* the slot holds no request

Forever == Lifetime + 1
Status == {"active", "inactive", "deleted"}
Version == 0..MaxWrites

\* Redis holds nothing under a key: the record whose time to live is zero.
NoEntry == [version |-> 0, ttl |-> 0]
NoIndex == [tokens |-> {}, ttl |-> 0]

Entry == [version: Version, ttl: 1..Forever] \cup {NoEntry}
Index == [tokens: (SUBSET Token) \ {{}}, ttl: 1..Forever] \cup {NoIndex}

(***************************************************************************)
(* A request in get_current_user: `version' is the row's as it was read,   *)
(* until it is stored.  `raced' is history: an invalidation of the account *)
(* had begun by the read, or did begin, or failed, before the SETEX.       *)
(***************************************************************************)
FillStage == {"verify", "read", "setex", "sadd", "expire"}
FillState == [step: FillStage, token: Token, version: Version, raced: BOOLEAN]

(***************************************************************************)
(* A request that changes a row.  `edit' tells the columns its UPDATE sets *)
(* and `status' the value the handler holds; `first' is where the identity *)
(* is synchronised, before the flush or after it; `keys' the indexed       *)
(* tokens it found.                                                        *)
(***************************************************************************)
WriteStage == {"status", "revoke", "flush", "smembers", "keys", "index", "commit"}
WriteState == [step: WriteStage, target: User, status: Status,
               edit: {"none", "access", "status", "delete"},
               first: {"firebase", "row"}, keys: SUBSET Token, locked: BOOLEAN]

ASSUME OwnerAssumption == Owner \in [Token -> User]
ASSUME LifetimeAssumption == Lifetime \in Nat \ {0}
ASSUME MaxWritesAssumption == MaxWrites \in Nat
ASSUME AbsentAssumption == NoCall \notin FillState \cup WriteState
ASSUME SwitchAssumption == Faults \in BOOLEAN /\ OwnEdits \in BOOLEAN

VARIABLES
    row,       \* PostgreSQL: status and version of each account, committed
    identity,  \* Firebase: each account's identity
    issued,    \* Firebase: tokens handed out
    valid,     \* Firebase: tokens that are not revoked
    entry,     \* Redis: firebase:token:{hash}
    index,     \* Redis: firebase:user:{id}:tokens
    fill,      \* requests in get_current_user
    write,     \* requests that change a row
    writes,    \* how many changes have been attempted (for the bound only)
    escaped    \* history: tokens whose entry an invalidation may have missed

stores == <<row, identity, issued, valid>>
redis == <<entry, index>>
vars == <<stores, redis, fill, write, writes, escaped>>

TokensOf(u) == {t \in Token : Owner[t] = u}
Cached(t) == entry[t].ttl > 0
Stale(t) == Cached(t) /\ entry[t].version # row[Owner[t]].version

FillsOf(u) == {p \in Fill : fill[p] # NoCall /\ Owner[fill[p].token] = u}

\* An invalidation of u that has looked at the index and not yet committed.
Sweeping(w, u) ==
    /\ write[w] # NoCall
    /\ write[w].target = u
    /\ write[w].step \in {"keys", "index", "commit"}

Holds(w, u) == write[w] # NoCall /\ write[w].target = u /\ write[w].locked
RowLocked(u) == \E w \in Writer : Holds(w, u)
BeingDeleted(u) == \E w \in Writer : Holds(w, u) /\ write[w].edit = "delete"

Fills(p, step) == fill[p] # NoCall /\ fill[p].step = step
Writes(w, step) == write[w] # NoCall /\ write[w].step = step

Goes(p, step) == fill' = [fill EXCEPT ![p].step = step]
Proceeds(w, step) == write' = [write EXCEPT ![w].step = step]
Ends(p) == fill' = [fill EXCEPT ![p] = NoCall]

\* The requests once those that carry u's row to the cache are marked.
Racing(u) ==
    [p \in Fill |-> IF p \in FillsOf(u) /\ Fills(p, "setex")
                    THEN [fill[p] EXCEPT !.raced = TRUE] ELSE fill[p]]

\* History: what is cached of u, or on its way there, may outlive a change.
Escape(u) ==
    /\ fill' = Racing(u)
    /\ escaped' = escaped \cup {t \in TokensOf(u) : Cached(t)}

Init ==
    /\ row = [u \in User |-> [status |-> "active", version |-> 0]]
    /\ identity = [u \in User |-> "enabled"]
    /\ issued = {} /\ valid = {}
    /\ entry = [t \in Token |-> NoEntry]
    /\ index = [u \in User |-> NoIndex]
    /\ fill = [p \in Fill |-> NoCall]
    /\ write = [w \in Writer |-> NoCall]
    /\ writes = 0
    /\ escaped = {}

(***************************************************************************)
(* Firebase and the clock                                                  *)
(***************************************************************************)

\* The client signs in, or refreshes its session, and gets a new token.
SignIn(t) ==
    /\ t \notin issued
    /\ identity[Owner[t]] = "enabled"
    /\ issued' = issued \cup {t}
    /\ valid' = valid \cup {t}
    /\ UNCHANGED <<row, identity, redis, fill, write, writes, escaped>>

\* What is left of a time to live after one tick.
Older(ttl) == IF ttl = Forever THEN ttl ELSE ttl - 1

\* The clock ticks and Redis drops what has expired.  An index may run out
\* between a request's SADD and its EXPIRE.
Tick ==
    /\ \E t \in Token : entry[t].ttl \in 1..Lifetime
    /\ entry' = [t \in Token |->
                    IF Older(entry[t].ttl) = 0 \/ ~Cached(t) THEN NoEntry
                    ELSE [entry[t] EXCEPT !.ttl = Older(@)]]
    /\ index' = [u \in User |->
                    IF index[u] = NoIndex \/ Older(index[u].ttl) = 0 THEN NoIndex
                    ELSE [index[u] EXCEPT !.ttl = Older(@)]]
    /\ escaped' = {t \in Token :
            /\ entry'[t] # NoEntry
            /\ \/ t \in escaped
               \/ \E p \in FillsOf(Owner[t]) : /\ Fills(p, "expire")
                                              /\ fill[p].token = t
                                              /\ index'[Owner[t]] = NoIndex}
    /\ UNCHANGED <<stores, fill, write, writes>>

\* allkeys-lru evicts an entry; or POST /auth/logout deletes entries, those of
\* every account, with KEYS firebase:token:* and DEL.
RemoveEntry(t) ==
    /\ Cached(t)
    /\ entry' = [entry EXCEPT ![t] = NoEntry]
    /\ escaped' = escaped \ {t}
    /\ UNCHANGED <<stores, index, fill, write, writes>>

\* allkeys-lru evicts an index.
EvictIndex(u) ==
    /\ Faults
    /\ index[u] # NoIndex
    /\ index' = [index EXCEPT ![u] = NoIndex]
    /\ escaped' = escaped \cup {t \in TokensOf(u) : Cached(t)}
    /\ UNCHANGED <<stores, entry, fill, write, writes>>

(***************************************************************************)
(* get_current_user                                                        *)
(***************************************************************************)

\* _get_user_from_cache finds nothing, or Redis errs.  A hit is served as it is
\* and changes nothing.
Miss(p) ==
    /\ fill[p] = NoCall
    /\ \E t \in issued :
        /\ ~Cached(t) \/ Faults
        /\ fill' = [fill EXCEPT ![p] = [step |-> "verify", token |-> t,
                                        version |-> 0, raced |-> FALSE]]
    /\ UNCHANGED <<stores, redis, write, writes, escaped>>

\* verify_id_token(check_revoked=True) rejects revoked tokens and identities
\* that are disabled or gone.
Verify(p) ==
    /\ Fills(p, "verify")
    /\ \/ /\ fill[p].token \in valid
          /\ identity[Owner[fill[p].token]] = "enabled"
          /\ Goes(p, "read")
       \/ /\ \/ fill[p].token \notin valid
             \/ identity[Owner[fill[p].token]] # "enabled"
          /\ Ends(p)
    /\ UNCHANGED <<stores, redis, write, writes, escaped>>

\* The committed row, in a session of its own: 404 when it is gone, 403 when
\* it is inactive.
Read(p) ==
    /\ Fills(p, "read")
    /\ LET u == Owner[fill[p].token]
       IN  \/ /\ row[u].status = "active"
              /\ fill' = [fill EXCEPT
                    ![p].step = "setex",
                    ![p].version = row[u].version,
                    ![p].raced = \E w \in Writer : Sweeping(w, u)]
           \/ /\ row[u].status # "active"
              /\ Ends(p)
    /\ UNCHANGED <<stores, redis, write, writes, escaped>>

\* SETEX
\* Faulty: SET, without a time to live.
StoredForever(version) == [version |-> version, ttl |-> Forever]

Stored(version) == [version |-> version, ttl |-> Lifetime]

SetEx(p) ==
    /\ Fills(p, "setex")
    /\ LET t == fill[p].token
       IN  /\ entry' = [entry EXCEPT ![t] = Stored(fill[p].version)]
           /\ escaped' = IF fill[p].raced THEN escaped \cup {t} ELSE escaped \ {t}
           /\ fill' = [fill EXCEPT ![p] = [step |-> "sadd", token |-> t,
                                          version |-> 0, raced |-> FALSE]]
    /\ UNCHANGED <<stores, index, write, writes>>

\* SADD: a new set has no time to live, an existing one keeps its own.
SAdd(p) ==
    /\ Fills(p, "sadd")
    /\ LET t == fill[p].token
           old == index[Owner[t]]
       IN  index' = [index EXCEPT ![Owner[t]] =
                        [tokens |-> old.tokens \cup {t},
                         ttl |-> IF old = NoIndex THEN Forever ELSE old.ttl]]
    /\ Goes(p, "expire")
    /\ UNCHANGED <<stores, entry, write, writes, escaped>>

\* EXPIRE: without effect on a key that is gone.
\* Faulty: only a set that has no time to live gets one.
ExpiringOnce(old) ==
    IF old = NoIndex \/ old.ttl # Forever THEN old
    ELSE [old EXCEPT !.ttl = Lifetime]

\* Faulty: a time to live brings back an index that is gone.
ExpiringMissing(old) == [old EXCEPT !.ttl = Lifetime]

Expiring(old) == IF old = NoIndex THEN old ELSE [old EXCEPT !.ttl = Lifetime]

\* Faulty: the token's key gets it, and not the index.
ExpireToken(p) ==
    /\ Fills(p, "expire")
    /\ entry' = [entry EXCEPT ![fill[p].token] =
                    IF @ = NoEntry THEN @ ELSE [@ EXCEPT !.ttl = Lifetime]]
    /\ Ends(p)
    /\ UNCHANGED <<stores, index, write, writes, escaped>>

Expire(p) ==
    /\ Fills(p, "expire")
    /\ LET u == Owner[fill[p].token]
       IN  index' = [index EXCEPT ![u] = Expiring(index[u])]
    /\ Ends(p)
    /\ UNCHANGED <<stores, entry, write, writes, escaped>>

\* Redis errs, or the process dies, before a command (a command whose reply is
\* lost is one that fails before the next).  An entry that is stored by then
\* stays without its index.
GiveUp(p) ==
    /\ Faults
    /\ fill[p] # NoCall
    /\ Ends(p)
    /\ escaped' = IF fill[p].step \in {"sadd", "expire"} /\ Cached(fill[p].token)
                  THEN escaped \cup {fill[p].token} ELSE escaped
    /\ UNCHANGED <<stores, redis, write, writes>>

(***************************************************************************)
(* Requests that change a row                                              *)
(***************************************************************************)

\* update_user and delete_user change the identity first, the other endpoints
\* flush first.  A roles update that grants what the row has changes no column.
Begin(w) ==
    /\ write[w] = NoCall
    /\ writes < MaxWrites
    /\ writes' = writes + 1
    /\ \E u \in User, first \in {"firebase", "row"},
          edit \in {"none", "access", "status", "delete"} :
        /\ row[u].status # "deleted"
        /\ edit = "delete" => first = "firebase"
        /\ write' = [write EXCEPT ![w] =
            [step |-> IF first = "firebase" THEN "status" ELSE "flush",
             target |-> u,
             status |-> CASE edit = "delete" -> "deleted"
                          [] edit = "status" ->
                                IF row[u].status = "active" THEN "inactive" ELSE "active"
                          [] OTHER -> row[u].status,
             edit |-> edit, first |-> first, keys |-> {}, locked |-> FALSE]]
    /\ UNCHANGED <<stores, redis, fill, escaped>>

\* The request ends in an exception: the row is unchanged, Firebase is not.
Abort(w) ==
    /\ write' = [write EXCEPT ![w] = NoCall]
    /\ UNCHANGED <<stores, redis, fill, writes, escaped>>

\* firebase_auth.update_user(disabled) or delete_user, which raise when the
\* identity is gone.  The claims, set before, do not matter to the cache.
SyncStatus(w) ==
    /\ Writes(w, "status")
    /\ LET u == write[w].target
       IN  \/ identity[u] = "deleted" /\ Abort(w)
           \/ /\ identity[u] # "deleted"
              /\ identity' = [identity EXCEPT ![u] =
                    CASE write[w].status = "active"   -> "enabled"
                      [] write[w].status = "inactive" -> "disabled"
                      [] write[w].status = "deleted"  -> "deleted"]
              /\ Proceeds(w, IF write[w].edit = "delete" THEN "flush" ELSE "revoke")
              /\ UNCHANGED <<row, issued, valid, redis, fill, writes, escaped>>

\* revoke_refresh_tokens: the tokens issued so far no longer verify.
Revoke(w) ==
    /\ Writes(w, "revoke")
    /\ LET u == write[w].target
       IN  \/ identity[u] = "deleted" /\ Abort(w)
           \/ /\ identity[u] # "deleted"
              /\ valid' = valid \ TokensOf(u)
              /\ Proceeds(w, IF write[w].first = "firebase" THEN "flush"
                             ELSE "smembers")
              /\ UNCHANGED <<row, identity, issued, redis, fill, writes, escaped>>

\* session.flush(): an UPDATE waits for the row's lock and finds the row or
\* raises; a DELETE that finds none passes.
Flush(w) ==
    /\ Writes(w, "flush")
    /\ LET u    == write[w].target
           next == IF write[w].first = "firebase" THEN "smembers" ELSE "status"
       IN  \/ /\ write[w].edit = "none"
              /\ Proceeds(w, next)
              /\ UNCHANGED <<stores, redis, fill, writes, escaped>>
           \/ /\ write[w].edit \in {"access", "status"}
              /\ ~RowLocked(u)
              /\ row[u].status = "deleted"
              /\ Abort(w)
           \/ /\ write[w].edit # "none"
              /\ ~RowLocked(u)
              /\ row[u].status # "deleted" \/ write[w].edit = "delete"
              /\ write' = [write EXCEPT ![w].step = next, ![w].locked = TRUE]
              /\ UNCHANGED <<stores, redis, fill, writes, escaped>>

\* _invalidate_auth_cache: SMEMBERS.  Requests that have read the row and are
\* not in the index yet escape it.
SMembers(w) ==
    /\ Writes(w, "smembers")
    /\ LET u    == write[w].target
           keys == index[u].tokens
           late == {p \in FillsOf(u) : Fills(p, "sadd")}
       IN  /\ write' = [write EXCEPT ![w].keys = keys,
                            ![w].step = IF keys = {} THEN "index" ELSE "keys"]
           /\ fill' = Racing(u)
           /\ escaped' = escaped \cup
                {t \in TokensOf(u) : /\ Cached(t) /\ t \notin keys
                                     /\ \E p \in late : fill[p].token = t}
    /\ UNCHANGED <<stores, redis, writes>>

\* DEL of the tokens found.
\* Faulty: only the index is deleted, the tokens stay.
RemainingAll(keys) == entry

Remaining(keys) == [t \in Token |-> IF t \in keys THEN NoEntry ELSE entry[t]]

DeleteKeys(w) ==
    /\ Writes(w, "keys")
    /\ entry' = Remaining(write[w].keys)
    /\ escaped' = escaped \ write[w].keys
    /\ Proceeds(w, "index")
    /\ UNCHANGED <<stores, index, fill, writes>>

\* DEL of the index.
DeleteIndex(w) ==
    /\ Writes(w, "index")
    /\ index' = [index EXCEPT ![write[w].target] = NoIndex]
    /\ write' = [write EXCEPT ![w].step = "commit", ![w].keys = {}]
    /\ UNCHANGED <<stores, entry, fill, writes, escaped>>

\* Redis errs before one of the three commands; the request goes on.  What it
\* had not deleted by then stays.
InvalidationFails(w) ==
    /\ Faults
    /\ write[w] # NoCall
    /\ write[w].step \in {"smembers", "keys", "index"}
    /\ write' = [write EXCEPT ![w].step = "commit", ![w].keys = {}]
    /\ LET u == write[w].target
       IN  IF Writes(w, "index") THEN UNCHANGED <<fill, escaped>>
           ELSE Escape(u)
    /\ UNCHANGED <<stores, redis, writes>>

Changed(old, edit, status) ==
    IF old.status = "deleted" \/ edit = "none" THEN old
    ELSE [status |-> IF edit = "access" THEN old.status ELSE status,
          version |-> old.version + 1]

\* get_db after the handler has returned.
Commit(w) ==
    /\ Writes(w, "commit")
    /\ LET u == write[w].target
       IN  row' = [row EXCEPT ![u] = Changed(row[u], write[w].edit, write[w].status)]
    /\ write' = [write EXCEPT ![w] = NoCall]
    /\ UNCHANGED <<identity, issued, valid, redis, fill, writes, escaped>>

\* The request fails, or the process dies, between two steps.
Fail(w) ==
    /\ Faults
    /\ write[w] # NoCall
    /\ Abort(w)

\* The account changes what is cached of it and commits; nothing is invalidated.
ChangeOwn(u) ==
    /\ OwnEdits
    /\ writes < MaxWrites
    /\ writes' = writes + 1
    /\ row[u].status # "deleted"
    /\ row' = [row EXCEPT ![u].version = @ + 1]
    /\ Escape(u)
    /\ UNCHANGED <<identity, issued, valid, redis, write>>

\* register on an existing account, and update_me, which deletes profile:{id}, a key
\* nothing stores.  Both change the account's row (update_me sets its updated_at),
\* so that its lock holds them up.
EditOwn(u) == ~RowLocked(u) /\ ChangeOwn(u)

\* POST /companies/register puts the company's name in the profile.  Of the account's
\* row it takes a shared lock (the foreign keys), for which only a deletion holds it up.
\* (An edit that writes the profile as well would; it is let pass here.)
RegisterCompany(u) == ~BeingDeleted(u) /\ ChangeOwn(u)

FillStep(p) ==
    Miss(p) \/ Verify(p) \/ Read(p) \/ SetEx(p) \/ SAdd(p) \/ Expire(p) \/ GiveUp(p)

WriteStep(w) ==
    \/ Begin(w) \/ SyncStatus(w) \/ Revoke(w) \/ Flush(w)
    \/ SMembers(w) \/ DeleteKeys(w) \/ DeleteIndex(w) \/ InvalidationFails(w)
    \/ Commit(w) \/ Fail(w)

Next ==
    \/ \E t \in Token : SignIn(t) \/ RemoveEntry(t)
    \/ \E u \in User : EvictIndex(u) \/ EditOwn(u) \/ RegisterCompany(u)
    \/ \E p \in Fill : FillStep(p)
    \/ \E w \in Writer : WriteStep(w)
    \/ Tick

\* Time passes.  Nothing else has to happen: a client may never come back, and
\* a request that hangs stores nothing.
Spec == Init /\ [][Next]_vars /\ WF_vars(Tick)

(***************************************************************************)
(* Properties                                                              *)
(***************************************************************************)

\* Every store and every request has its shape.
TypeOK ==
    /\ row \in [User -> [status: Status, version: Version]]
    /\ identity \in [User -> {"enabled", "disabled", "deleted"}]
    /\ issued \subseteq Token /\ valid \subseteq issued
    /\ entry \in [Token -> Entry]
    /\ index \in [User -> Index]
    /\ fill \in [Fill -> FillState \cup {NoCall}]
    /\ write \in [Writer -> WriteState \cup {NoCall}]
    /\ writes \in 0..MaxWrites
    /\ escaped \subseteq Token

\* Invalidation finds every entry it has to find: the index of an account names
\* each cached token and lives at least as long as its entry, although the
\* index is filled by three commands, shared by all the account's tokens and
\* refreshed by each.  Exempt are requests between SETEX and EXPIRE and entries
\* that a fault or a concurrent invalidation cut off from the index.
IndexOutlivesEntries ==
    \A t \in Token :
        \/ ~Cached(t)
        \/ t \in escaped
        \/ \E p \in Fill : fill[p] # NoCall /\ fill[p].token = t /\ fill[p].step \in {"sadd", "expire"}
        \/ /\ t \in index[Owner[t]].tokens
           /\ index[Owner[t]].ttl >= entry[t].ttl

\* An access change is in force for every cached token once it has committed,
\* although the tokens are deleted before the commit: an outdated answer stays
\* in the cache only if its request read the row before the commit and stored
\* it after the invalidation looked, if a Redis fault or a failed request cut
\* the invalidation short, or after a change that does not invalidate.
StaleOnlyIfEscaped == \A t \in Token : Stale(t) => t \in escaped

\* What the docstring of _invalidate_auth_cache promises: with Redis up and no
\* request in flight, no cached token predates the last change of its row.
ChangesTakeEffect ==
    (/\ \A p \in Fill : fill[p] = NoCall
     /\ \A w \in Writer : write[w] = NoCall)
    => \A t \in Token : ~Stale(t)

\* Whatever escaped the invalidation, once the rows no longer change the cache
\* ends up without outdated answers for good: they expire, and no request puts
\* them back.
CacheConverges == <>[](\A t \in Token : ~Stale(t))

\* Lookups on their way to the cache with a row that has changed since.
Carrying ==
    {p \in Fill : Fills(p, "setex") /\ fill[p].version # row[Owner[fill[p].token]].version}

\* Why it does: while the rows stay as they are, no lookup comes to carry an
\* outdated row, and an outdated answer gets less time to live with each tick and
\* never more, unless one of those that carry one stores it and carries it no more.
OutdatedFades ==
    [][row' = row =>
        /\ Carrying' \subseteq Carrying
        /\ \A t \in Token : Stale(t)' =>
            \/ /\ Stale(t) /\ entry'[t].ttl <= entry[t].ttl
               /\ Tick => entry'[t].ttl < entry[t].ttl
            \/ \E p \in Carrying \ Carrying' : fill[p].token = t]_vars

=============================================================================
