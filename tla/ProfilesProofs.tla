---------------------------- MODULE ProfilesProofs ----------------------------
(***************************************************************************)
(* Proofs about Profiles, for any accounts, columns, tokens and number of  *)
(* requests: its types, push tokens, what edits keep and what they change, *)
(* and that edits of profiles do not wait for each other in a circle.      *)
(***************************************************************************)
EXTENDS Profiles, TLAPS

(***************************************************************************)
(* Statements                                                              *)
(***************************************************************************)

\* What a request may have left to send.
EditTodo == {<<"users", "member", "profile", "commit">>, <<"users", "profile", "commit">>,
             <<"member", "profile", "commit">>, <<"profile", "commit">>, <<"commit">>}
TokenTodo == {<<"find", "insert", "commit">>, <<"insert", "commit">>, <<"commit">>}
DeleteTodo == {<<"children", "parent", "commit">>, <<"parent", "commit">>, <<"commit">>}

LEMMA EditTodos ==
    ASSUME NEW todo \in EditTodo
    PROVE  /\ todo \in Seq(Statement)
           /\ Head(todo) \in {"users", "member", "profile", "commit"}
           /\ Head(todo) = "users" => Tail(todo) \in EditTodo /\ Head(Tail(todo)) # "users"
           /\ Head(todo) = "users" => Head(Tail(todo)) # "commit"
           /\ Head(todo) = "member" => Tail(todo) \in EditTodo /\ Head(Tail(todo)) = "profile"
           /\ Head(todo) = "profile" => Tail(todo) \in EditTodo /\ Head(Tail(todo)) = "commit"
<1>1. CASE todo = <<"users", "member", "profile", "commit">>
    <2>1. Tail(todo) = <<"member", "profile", "commit">> /\ Head(Tail(todo)) = "member"
        BY <1>1
    <2> QED BY <1>1, <2>1 DEF EditTodo, Statement
<1>2. CASE todo = <<"users", "profile", "commit">>
    <2>1. Tail(todo) = <<"profile", "commit">> /\ Head(Tail(todo)) = "profile"
        BY <1>2
    <2> QED BY <1>2, <2>1 DEF EditTodo, Statement
<1>3. CASE todo = <<"member", "profile", "commit">>
    <2>1. Tail(todo) = <<"profile", "commit">> /\ Head(Tail(todo)) = "profile"
        BY <1>3
    <2> QED BY <1>3, <2>1 DEF EditTodo, Statement
<1>4. CASE todo = <<"profile", "commit">>
    <2>1. Tail(todo) = <<"commit">> /\ Head(Tail(todo)) = "commit"
        BY <1>4
    <2> QED BY <1>4, <2>1 DEF EditTodo, Statement
<1>5. CASE todo = <<"commit">>
    BY <1>5 DEF EditTodo, Statement
<1> QED BY <1>1, <1>2, <1>3, <1>4, <1>5 DEF EditTodo

LEMMA TokenTodos ==
    ASSUME NEW todo \in TokenTodo
    PROVE  /\ todo \in Seq(Statement)
           /\ Head(todo) \in {"find", "insert", "commit"}
           /\ Head(todo) = "find" => Tail(todo) \in TokenTodo /\ Head(Tail(todo)) = "insert"
           /\ Head(todo) = "insert" => Tail(todo) \in TokenTodo /\ Head(Tail(todo)) = "commit"
<1>1. CASE todo = <<"find", "insert", "commit">>
    <2>1. Tail(todo) = <<"insert", "commit">> /\ Head(Tail(todo)) = "insert"
        BY <1>1
    <2> QED BY <1>1, <2>1 DEF TokenTodo, Statement
<1>2. CASE todo = <<"insert", "commit">>
    <2>1. Tail(todo) = <<"commit">> /\ Head(Tail(todo)) = "commit"
        BY <1>2
    <2> QED BY <1>2, <2>1 DEF TokenTodo, Statement
<1>3. CASE todo = <<"commit">>
    BY <1>3 DEF TokenTodo, Statement
<1> QED BY <1>1, <1>2, <1>3 DEF TokenTodo

LEMMA DeleteTodos ==
    ASSUME NEW todo \in DeleteTodo
    PROVE  /\ todo \in Seq(Statement)
           /\ Head(todo) \in {"children", "parent", "commit"}
           /\ Head(todo) = "children" => Tail(todo) \in DeleteTodo /\ Head(Tail(todo)) = "parent"
           /\ Head(todo) = "parent" => Tail(todo) \in DeleteTodo /\ Head(Tail(todo)) = "commit"
<1>1. CASE todo = <<"children", "parent", "commit">>
    <2>1. Tail(todo) = <<"parent", "commit">> /\ Head(Tail(todo)) = "parent"
        BY <1>1
    <2> QED BY <1>1, <2>1 DEF DeleteTodo, Statement
<1>2. CASE todo = <<"parent", "commit">>
    <2>1. Tail(todo) = <<"commit">> /\ Head(Tail(todo)) = "commit"
        BY <1>2
    <2> QED BY <1>2, <2>1 DEF DeleteTodo, Statement
<1>3. CASE todo = <<"commit">>
    BY <1>3 DEF DeleteTodo, Statement
<1> QED BY <1>1, <1>2, <1>3 DEF DeleteTodo

LEMMA FlushesTodo ==
    ASSUME NEW endpoint, NEW access \in BOOLEAN
    PROVE  /\ Flushes(endpoint, access) \in EditTodo
           /\ Head(Flushes(endpoint, access)) # "commit"
<1> DEFINE long == <<"users">> \o <<"member", "profile", "commit">>
           short == <<"users">> \o <<"profile", "commit">>
<1>1. long = <<"users", "member", "profile", "commit">>
    <2>1. /\ long \in Seq(Statement) /\ Len(long) = 4
          /\ long[1] = "users" /\ long[2] = "member"
          /\ long[3] = "profile" /\ long[4] = "commit"
        BY DEF Statement
    <2> HIDE DEF long
    <2> QED BY <2>1
<1>2. short = <<"users", "profile", "commit">>
    <2>1. /\ short \in Seq(Statement) /\ Len(short) = 3
          /\ short[1] = "users" /\ short[2] = "profile" /\ short[3] = "commit"
        BY DEF Statement
    <2> HIDE DEF short
    <2> QED BY <2>1
<1>3. \/ Flushes(endpoint, access) = long \/ Flushes(endpoint, access) = short
      \/ Flushes(endpoint, access) = <<"member", "profile", "commit">>
      \/ Flushes(endpoint, access) = <<"profile", "commit">>
    BY Zenon DEF Flushes
<1> QED BY <1>1, <1>2, <1>3 DEF EditTodo

(***************************************************************************)
(* The invariants                                                          *)
(***************************************************************************)

\* A request holds the locks of the statements it has sent, and sends them in the
\* order of its endpoint.
EditOrder(c) ==
    /\ c.todo \in EditTodo
    /\ c.held \subseteq {"updated", "shared", "member", "profile"}
    /\ "updated" \in c.held => Head(c.todo) # "users"
    /\ c.held \cap {"shared", "member"} # {} => Head(c.todo) \in {"profile", "commit"}
    /\ "profile" \in c.held => Head(c.todo) = "commit"
    /\ Head(c.todo) = "commit" /\ c.dirty # {} => "profile" \in c.held

TokenOrder(c) ==
    /\ c.todo \in TokenTodo
    /\ c.token \in Token
    /\ c.dirty = {} /\ DOMAIN c.given = {}
    /\ c.held = IF Head(c.todo) = "commit" THEN {"entry", "shared"} ELSE {}

DeleteOrder(c) ==
    /\ c.todo \in DeleteTodo
    /\ c.dirty = {} /\ DOMAIN c.given = {}
    /\ c.held \subseteq {"member", "profile", "tokens", "deleted"}
    /\ c.held # {} => {"member", "profile", "tokens"} \subseteq c.held
    /\ Head(c.todo) = "children" => c.held = {}
    /\ "deleted" \in c.held => Head(c.todo) = "commit"
    /\ Head(c.todo) # "children" /\ Alive(c.user) => c.held # {}

Ordered(r) ==
    /\ req[r].endpoint \in Edit => EditOrder(req[r])
    /\ req[r].endpoint = "fcm_token" => TokenOrder(req[r])
    /\ req[r].endpoint = "delete_user" => DeleteOrder(req[r])

Orderly == \A r \in Request : req[r] # NoCall => Ordered(r)

\* Two requests in flight hold no locks that exclude each other.
Exclusive ==
    \A r, q \in Request : r # q /\ req[r] # NoCall /\ req[q] # NoCall =>
        /\ req[r].user = req[q].user =>
            /\ req[r].held \cap req[q].held \cap {"updated", "member", "profile"} = {}
            /\ "deleted" \in req[r].held => req[q].held = {}
        /\ "entry" \in req[r].held /\ "entry" \in req[q].held =>
            req[r].token # req[q].token

\* The token of an open INSERT is in no committed row.
Fresh ==
    \A r \in Request : req[r] # NoCall /\ "entry" \in req[r].held =>
        \A row \in tokens : row.token # req[r].token

(***************************************************************************)
(* What a step does to the requests                                        *)
(***************************************************************************)

\* r goes on to its next statement with these locks in addition.
Continues(r, locks) ==
    /\ req'[r] \in Call
    /\ req'[r].endpoint = req[r].endpoint /\ req'[r].user = req[r].user
    /\ req'[r].token = req[r].token /\ req'[r].given = req[r].given
    /\ req'[r].copy = req[r].copy /\ req'[r].dirty = req[r].dirty
    /\ req'[r].overtaken = req[r].overtaken
    /\ req'[r].todo = Tail(req[r].todo)
    /\ req'[r].held = req[r].held \cup locks
    /\ \A q \in Request \ {r} : req'[q] = req[q]

LEMMA SentContinues ==
    ASSUME TypeOK, Orderly, NEW r \in Request, req[r] # NoCall,
           Head(req[r].todo) # "commit",
           NEW locks \in SUBSET Lock, Sent(r, locks)
    PROVE  /\ Continues(r, locks)
           /\ req' \in [Request -> Call \cup {NoCall}]
           /\ UNCHANGED <<profile, tokens, calls>>
<1>1. req[r] \in Call
    BY DEF TypeOK
<1>2. req[r].endpoint \in Endpoint /\ req[r].todo \in Seq(Statement)
    BY <1>1 DEF Call
<1>3. Tail(req[r].todo) \in Seq(Statement)
    <2>1. CASE req[r].endpoint \in Edit
        <3>1. req[r].todo \in EditTodo
            BY <2>1 DEF Orderly, Ordered, EditOrder
        <3>2. Tail(req[r].todo) \in EditTodo
            BY <3>1, EditTodos
        <3> QED BY <3>2, EditTodos
    <2>2. CASE req[r].endpoint = "fcm_token"
        <3>1. req[r].todo \in TokenTodo
            BY <2>2 DEF Orderly, Ordered, TokenOrder
        <3>2. Tail(req[r].todo) \in TokenTodo
            BY <3>1, TokenTodos
        <3> QED BY <3>2, TokenTodos
    <2>3. CASE req[r].endpoint = "delete_user"
        <3>1. req[r].todo \in DeleteTodo
            BY <2>3 DEF Orderly, Ordered, DeleteOrder
        <3>2. Tail(req[r].todo) \in DeleteTodo
            BY <3>1, DeleteTodos
        <3> QED BY <3>2, DeleteTodos
    <2> QED BY <1>2, <2>1, <2>2, <2>3 DEF Endpoint
<1>4. req' = [req EXCEPT ![r].todo = Tail(@), ![r].held = @ \cup locks]
    BY DEF Sent
<1>5. req'[r] = [req[r] EXCEPT !.todo = Tail(@), !.held = @ \cup locks]
    BY <1>4 DEF TypeOK
<1>6. req'[r] \in Call
    BY <1>1, <1>3, <1>5 DEF Call
<1>7. \A q \in Request \ {r} : req'[q] = req[q]
    BY <1>4 DEF TypeOK
<1>8. req' \in [Request -> Call \cup {NoCall}]
    BY <1>4, <1>6, <1>7 DEF TypeOK
<1> QED BY <1>1, <1>5, <1>6, <1>7, <1>8 DEF Continues, Sent, tables, Call

\* A statement of r, what it found no other request to hold, and what it locks.
Takes(r, locks) ==
    LET u == req[r].user
    IN  \/ /\ At(r, "users") /\ locks = {"updated"}
           /\ Alive(u) /\ Holders(r, u, {"updated", "deleted"}) = {}
        \/ /\ At(r, "member") /\ locks \in {{"member"}, {"member", "shared"}}
           /\ Alive(u) /\ Holders(r, u, {"member", "deleted"}) = {}
        \/ At(r, "profile") /\ req[r].dirty = {} /\ locks = {}
        \/ /\ At(r, "profile") /\ req[r].dirty # {} /\ locks = {"profile"}
           /\ Alive(u) /\ Holders(r, u, {"profile"}) = {}
        \/ At(r, "find") /\ locks = {}
        \/ /\ At(r, "insert") /\ locks = {"entry", "shared"}
           /\ Alive(u) /\ Holders(r, u, {"deleted"}) = {}
           /\ TokenHolders(r) = {} /\ ~TokenTaken(r)
        \/ At(r, "children") /\ ~Alive(u) /\ locks = {}
        \/ /\ At(r, "children") /\ locks = {"member", "profile", "tokens"}
           /\ Alive(u) /\ Holders(r, u, {"member", "profile"}) = {}
        \/ At(r, "parent") /\ ~Alive(u) /\ locks = {}
        \/ /\ At(r, "parent") /\ locks = {"deleted"}
           /\ Alive(u) /\ Holders(r, u, {"updated", "deleted", "shared"}) = {}

StatementStep(r) ==
    \/ UpdateUsers(r) \/ WriteMembership(r) \/ UpdateProfile(r)
    \/ FindToken(r) \/ InsertToken(r) \/ DeleteChildren(r) \/ DeleteParent(r)

LEMMA Statements ==
    ASSUME TypeOK, NEW r \in Request, StatementStep(r), ~Abort(r)
    PROVE  \E locks \in SUBSET Lock :
                Takes(r, locks) /\ Sent(r, locks) /\ req[r] # NoCall
                /\ Head(req[r].todo) # "commit"
<1> USE DEF Lock, Proceeds, Takes
<1>1. CASE UpdateUsers(r)
    <2>1. At(r, "users") /\ Alive(req[r].user) /\ Sent(r, {"updated"})
        BY <1>1 DEF UpdateUsers
    <2>2. Holders(r, req[r].user, {"updated", "deleted"}) = {}
        BY <1>1, <2>1 DEF UpdateUsers, BlockedBy, At
    <2> QED BY <2>1, <2>2 DEF At
<1>2. CASE WriteMembership(r)
    <2>1. PICK locks \in {{"member"}, {"member", "shared"}} :
                At(r, "member") /\ Alive(req[r].user) /\ Sent(r, locks)
        BY <1>2, Zenon DEF WriteMembership
    <2>2. Holders(r, req[r].user, {"member", "deleted"}) = {}
        BY <1>2, <2>1 DEF WriteMembership, BlockedBy, At
    <2>3. locks \in SUBSET Lock /\ Head(req[r].todo) # "commit" /\ req[r] # NoCall
        BY <2>1 DEF At
    <2>4. Takes(r, locks)
        BY <2>1, <2>2, Zenon
    <2> QED BY <2>1, <2>3, <2>4
<1>3. CASE UpdateProfile(r)
    <2>1. CASE req[r].dirty = {}
        BY <1>3, <2>1 DEF UpdateProfile, At
    <2>2. CASE req[r].dirty # {}
        <3>1. At(r, "profile") /\ Alive(req[r].user) /\ Sent(r, {"profile"})
            BY <1>3, <2>2 DEF UpdateProfile
        <3>2. Holders(r, req[r].user, {"profile"}) = {}
            BY <1>3, <2>2, <3>1 DEF UpdateProfile, BlockedBy, At
        <3> QED BY <2>2, <3>1, <3>2 DEF At
    <2> QED BY <2>1, <2>2
<1>4. CASE FindToken(r)
    BY <1>4 DEF FindToken, At
<1>5. CASE InsertToken(r)
    <2>1. /\ At(r, "insert") /\ Alive(req[r].user) /\ ~TokenTaken(r)
          /\ Sent(r, {"entry", "shared"})
        BY <1>5 DEF InsertToken
    <2>2. TokenHolders(r) \cup Holders(r, req[r].user, {"deleted"}) = {}
        BY <1>5, <2>1 DEF InsertToken, BlockedBy, At
    <2>3. TokenHolders(r) = {} /\ Holders(r, req[r].user, {"deleted"}) = {}
        BY <2>2
    <2> QED BY <2>1, <2>3 DEF At
<1>6. CASE DeleteChildren(r)
    <2>1. CASE ~Alive(req[r].user)
        BY <1>6, <2>1 DEF DeleteChildren, At
    <2>2. CASE Alive(req[r].user)
        <3>1. At(r, "children") /\ Sent(r, {"member", "profile", "tokens"})
            BY <1>6, <2>2 DEF DeleteChildren
        <3>2. Holders(r, req[r].user, {"member", "profile"}) = {}
            BY <1>6, <3>1 DEF DeleteChildren, BlockedBy, At
        <3> QED BY <2>2, <3>1, <3>2 DEF At
    <2> QED BY <2>1, <2>2
<1>7. CASE DeleteParent(r)
    <2>1. CASE ~Alive(req[r].user)
        BY <1>7, <2>1 DEF DeleteParent, At
    <2>2. CASE Alive(req[r].user)
        <3>1. At(r, "parent") /\ Sent(r, {"deleted"})
            BY <1>7, <2>2 DEF DeleteParent
        <3>2. Holders(r, req[r].user, {"updated", "deleted", "shared"}) = {}
            BY <1>7, <3>1 DEF DeleteParent, BlockedBy, At
        <3> QED BY <2>2, <3>1, <3>2 DEF At
    <2> QED BY <2>1, <2>2
<1> QED BY <1>1, <1>2, <1>3, <1>4, <1>5, <1>6, <1>7 DEF StatementStep

\* A new request.
Admitted(r) ==
    /\ req[r] = NoCall /\ req'[r] \in Call
    /\ calls < MaxCalls /\ calls' = calls + 1
    /\ \A q \in Request \ {r} : req'[q] = req[q]
    /\ req'[r].held = {} /\ req'[r].overtaken = {}
    /\ Alive(req'[r].user)
    /\ \/ /\ req'[r].endpoint \in Edit
          /\ req'[r].todo \in EditTodo /\ Head(req'[r].todo) # "commit"
          /\ req'[r].dirty = Dirty(profile[req'[r].user], req'[r].copy)
          /\ req'[r].copy = Assigned(req'[r].given, profile[req'[r].user])
       \/ /\ req'[r].endpoint = "fcm_token" /\ req'[r].token \in Token
          /\ req'[r].todo = <<"find", "insert", "commit">>
          /\ req'[r].dirty = {} /\ DOMAIN req'[r].given = {}
       \/ /\ req'[r].endpoint = "delete_user"
          /\ req'[r].todo = <<"children", "parent", "commit">>
          /\ req'[r].dirty = {} /\ DOMAIN req'[r].given = {}

LEMMA Asking ==
    ASSUME NEW endpoint \in Edit, NEW given \in Asked(endpoint)
    PROVE  given \in SomeColumns
<1> USE FieldsAssumption DEF SomeColumns, Asked
<1>1. CASE endpoint = "update_me"
    BY <1>1
<1>2. CASE endpoint = "update_user"
    BY <1>2
<1>3. CASE endpoint = "update_employer"
    BY <1>3
<1>4. CASE endpoint = "register_company"
    BY <1>4
<1> QED BY <1>1, <1>2, <1>3, <1>4 DEF Edit, Membership

LEMMA Admission ==
    ASSUME TypeOK, NEW r \in Request, EditProfile(r) \/ RegisterToken(r) \/ DeleteUser(r)
    PROVE  /\ Admitted(r)
           /\ req' \in [Request -> Call \cup {NoCall}]
           /\ UNCHANGED <<profile, tokens>>
<1>1. /\ req[r] = NoCall /\ calls < MaxCalls /\ calls' = calls + 1
      /\ UNCHANGED <<profile, tokens>>
    BY DEF EditProfile, RegisterToken, DeleteUser, Admit, tables
<1>2. CASE EditProfile(r)
    <2>0. PICK u \in User, endpoint \in Edit, access \in BOOLEAN :
            /\ Alive(u)
            /\ \E given \in Asked(endpoint) :
                LET copy == Assigned(given, profile[u])
                IN  req' = [req EXCEPT ![r] =
                    [endpoint |-> endpoint, todo |-> Flushes(endpoint, access), user |-> u,
                     token |-> NoToken, given |-> given, copy |-> copy,
                     dirty |-> Dirty(profile[u], copy), held |-> {},
                     overtaken |-> {}]]
        BY <1>2, Zenon DEF EditProfile
    <2>1. PICK given \in Asked(endpoint) :
            req' = [req EXCEPT ![r] =
                  [endpoint |-> endpoint, todo |-> Flushes(endpoint, access), user |-> u,
                   token |-> NoToken, given |-> given, copy |-> Assigned(given, profile[u]),
                   dirty |-> Dirty(profile[u], Assigned(given, profile[u])), held |-> {},
                   overtaken |-> {}]]
        BY <2>0, Zenon
    <2>2. given \in SomeColumns
        BY Asking
    <2>3. Assigned(given, profile[u]) \in Columns
        BY <2>0, <2>2 DEF Assigned, Alive, TypeOK, Columns, SomeColumns
    <2>4. Dirty(profile[u], Assigned(given, profile[u])) \in SUBSET Field
        BY DEF Dirty
    <2>5. /\ Flushes(endpoint, access) \in EditTodo
          /\ Flushes(endpoint, access) \in Seq(Statement)
          /\ Head(Flushes(endpoint, access)) # "commit"
        BY FlushesTodo, EditTodos
    <2> HIDE DEF Flushes
    <2>6. req'[r] = [endpoint |-> endpoint, todo |-> Flushes(endpoint, access), user |-> u,
                     token |-> NoToken, given |-> given, copy |-> Assigned(given, profile[u]),
                     dirty |-> Dirty(profile[u], Assigned(given, profile[u])), held |-> {},
                     overtaken |-> {}]
        BY <2>1 DEF TypeOK
    <2>7. endpoint \in Endpoint
        BY DEF Endpoint
    <2>8. req'[r] \in Call
        BY <2>2, <2>3, <2>4, <2>5, <2>6, <2>7 DEF Call
    <2>9. \A q \in Request \ {r} : req'[q] = req[q]
        BY <2>1 DEF TypeOK
    <2>10. req' \in [Request -> Call \cup {NoCall}]
        BY <2>1, <2>8, <2>9 DEF TypeOK
    <2> QED BY <1>1, <2>0, <2>5, <2>6, <2>8, <2>9, <2>10 DEF Admitted
<1>3. <<>> \in SomeColumns /\ DOMAIN <<>> = {}
    BY DEF SomeColumns
<1>4. CASE RegisterToken(r)
    <2>1. PICK u \in User, t \in Token :
            /\ Alive(u)
            /\ req' = [req EXCEPT ![r] =
                  Plain("fcm_token", <<"find", "insert", "commit">>, u, t)]
        BY <1>4 DEF RegisterToken
    <2>2. <<"find", "insert", "commit">> \in Seq(Statement) /\ profile[u] \in Columns
        BY <2>1 DEF Statement, Alive, TypeOK
    <2>3. req'[r] = Plain("fcm_token", <<"find", "insert", "commit">>, u, t)
        BY <2>1 DEF TypeOK
    <2>4. req'[r] \in Call
        BY <1>3, <2>2, <2>3 DEF Plain, Call, Endpoint
    <2>5. /\ \A q \in Request \ {r} : req'[q] = req[q]
          /\ req' \in [Request -> Call \cup {NoCall}]
        BY <2>1, <2>3, <2>4 DEF TypeOK
    <2> QED BY <1>1, <1>3, <2>1, <2>3, <2>4, <2>5 DEF Admitted, Plain
<1>5. CASE DeleteUser(r)
    <2>1. PICK u \in User :
            /\ Alive(u)
            /\ req' = [req EXCEPT ![r] =
                  Plain("delete_user", <<"children", "parent", "commit">>, u, NoToken)]
        BY <1>5 DEF DeleteUser
    <2>2. <<"children", "parent", "commit">> \in Seq(Statement) /\ profile[u] \in Columns
        BY <2>1 DEF Statement, Alive, TypeOK
    <2>3. req'[r] = Plain("delete_user", <<"children", "parent", "commit">>, u, NoToken)
        BY <2>1 DEF TypeOK
    <2>4. req'[r] \in Call
        BY <1>3, <2>2, <2>3 DEF Plain, Call, Endpoint
    <2>5. /\ \A q \in Request \ {r} : req'[q] = req[q]
          /\ req' \in [Request -> Call \cup {NoCall}]
        BY <2>1, <2>3, <2>4 DEF TypeOK
    <2> QED BY <1>1, <1>3, <2>1, <2>3, <2>4, <2>5 DEF Admitted, Plain
<1> QED BY <1>2, <1>4, <1>5

\* A step of another request leaves q where it was.
Stays(q) ==
    IF req[q] = NoCall THEN req'[q] = NoCall
    ELSE /\ req'[q] \in Call
         /\ req'[q].endpoint = req[q].endpoint /\ req'[q].todo = req[q].todo
         /\ req'[q].user = req[q].user /\ req'[q].token = req[q].token
         /\ req'[q].given = req[q].given /\ req'[q].copy = req[q].copy
         /\ req'[q].dirty = req[q].dirty /\ req'[q].held = req[q].held

LEMMA Committing ==
    ASSUME TypeOK, NEW r \in Request, Commit(r)
    PROVE  /\ req[r] \in Call /\ Head(req[r].todo) = "commit" /\ req'[r] = NoCall
           /\ \A q \in Request \ {r} : Stays(q)
           /\ req' \in [Request -> Call \cup {NoCall}]
           /\ UNCHANGED calls
<1> DEFINE seen(q) == {f \in Field : /\ "profile" \in req[r].held
                                     /\ Written(r)[f] # profile[req[r].user][f]}
<1>1. req[r] # NoCall /\ req[r] \in Call /\ Head(req[r].todo) = "commit"
    BY DEF Commit, At, TypeOK
<1>2. req'[r] = NoCall
    BY DEF Commit
<1>3. ASSUME NEW q \in Request \ {r}
      PROVE  /\ Stays(q)
             /\ req'[q] \in Call \cup {NoCall}
    <2>1. \/ req'[q] = req[q]
          \/ /\ req[q] # NoCall
             /\ req'[q] = [req[q] EXCEPT !.overtaken = @ \cup seen(q)]
        BY DEF Commit
    <2>2. seen(q) \subseteq Field
        OBVIOUS
    <2> HIDE DEF seen
    <2>3. CASE req'[q] = req[q]
        BY <2>3 DEF Stays, TypeOK
    <2>4. CASE /\ req[q] # NoCall
               /\ req'[q] = [req[q] EXCEPT !.overtaken = @ \cup seen(q)]
        <3>1. req[q] \in Call
            BY <2>4 DEF TypeOK
        <3>2. req'[q] \in Call
            BY <2>2, <2>4, <3>1 DEF Call
        <3> QED BY <2>4, <3>1, <3>2 DEF Stays, Call
    <2> QED BY <2>1, <2>3, <2>4
<1>4. req' \in [Request -> Call \cup {NoCall}]
    <2>1. req' = [q \in Request |-> req'[q]]
        BY DEF Commit
    <2> QED BY <1>2, <1>3, <2>1
<1> QED BY <1>1, <1>2, <1>3, <1>4 DEF Commit

LEMMA Aborting ==
    ASSUME TypeOK, NEW r \in Request, Abort(r)
    PROVE  /\ req'[r] = NoCall
           /\ \A q \in Request \ {r} : req'[q] = req[q]
           /\ req' \in [Request -> Call \cup {NoCall}]
           /\ UNCHANGED <<profile, tokens, calls>>
BY DEF Abort, TypeOK, tables

\* What any step is.
LEMMA StepCases ==
    ASSUME TypeOK, Orderly, [Next]_vars
    PROVE  \/ UNCHANGED vars
           \/ \E r \in Request : Abort(r)
           \/ \E r \in Request : /\ Admitted(r)
                                /\ req' \in [Request -> Call \cup {NoCall}]
                                /\ UNCHANGED <<profile, tokens>>
           \/ \E r \in Request, locks \in SUBSET Lock :
                /\ req[r] # NoCall /\ Takes(r, locks) /\ Continues(r, locks)
                /\ req' \in [Request -> Call \cup {NoCall}]
                /\ UNCHANGED <<profile, tokens, calls>>
           \/ \E r \in Request : Commit(r)
<1>1. CASE UNCHANGED vars
    BY <1>1
<1>2. ASSUME NEW r \in Request, HandlerStep(r)
      PROVE  \/ Abort(r) \/ Commit(r)
             \/ EditProfile(r) \/ RegisterToken(r) \/ DeleteUser(r)
             \/ StatementStep(r) /\ ~Abort(r)
    BY <1>2, Zenon DEF HandlerStep, StatementStep, Fail
<1>3. ASSUME NEW r \in Request, StatementStep(r), ~Abort(r)
      PROVE  \E locks \in SUBSET Lock :
                /\ req[r] # NoCall /\ Takes(r, locks) /\ Continues(r, locks)
                /\ req' \in [Request -> Call \cup {NoCall}]
                /\ UNCHANGED <<profile, tokens, calls>>
    <2>1. PICK locks \in SUBSET Lock :
                /\ Takes(r, locks) /\ Sent(r, locks) /\ req[r] # NoCall
                /\ Head(req[r].todo) # "commit"
        BY <1>3, Statements
    <2>2. /\ Continues(r, locks)
          /\ req' \in [Request -> Call \cup {NoCall}]
          /\ UNCHANGED <<profile, tokens, calls>>
        BY <2>1, SentContinues
    <2> QED BY <2>1, <2>2
<1>4. ASSUME NEW r \in Request, EditProfile(r) \/ RegisterToken(r) \/ DeleteUser(r)
      PROVE  /\ Admitted(r)
             /\ req' \in [Request -> Call \cup {NoCall}]
             /\ UNCHANGED <<profile, tokens>>
    BY <1>4, Admission
<1> QED BY <1>1, <1>2, <1>3, <1>4, Zenon DEF Next

(***************************************************************************)
(* Types                                                                   *)
(***************************************************************************)

LEMMA TypeInit == Init => TypeOK
BY BoundsAssumption DEF Init, TypeOK

LEMMA WrittenType ==
    ASSUME TypeOK, NEW r \in Request, req[r] # NoCall, Alive(req[r].user)
    PROVE  Written(r) \in Columns
<1>1. req[r].copy \in Columns /\ req[r].user \in User
    BY DEF TypeOK, Call
<1>2. profile[req[r].user] \in Columns
    BY <1>1 DEF TypeOK, Alive
<1> QED BY <1>1, <1>2 DEF Written, Columns

LEMMA TypeStep ==
    ASSUME TypeOK, Orderly, Exclusive, [Next]_vars
    PROVE  TypeOK'
<1>1. CASE UNCHANGED vars
    BY <1>1 DEF TypeOK, vars, tables, Alive
<1>2. ASSUME NEW r \in Request, Abort(r)
      PROVE  TypeOK'
    BY <1>2, Aborting DEF TypeOK, Alive
<1>3. ASSUME NEW r \in Request, Admitted(r),
             req' \in [Request -> Call \cup {NoCall}], UNCHANGED <<profile, tokens>>
      PROVE  TypeOK'
    <2>1. calls' \in 0..MaxCalls
        BY <1>3, BoundsAssumption DEF Admitted, TypeOK
    <2>2. req'[r].dirty \subseteq DOMAIN req'[r].given /\ req'[r].held = {}
        BY <1>3 DEF Admitted, Dirty, Assigned
    <2>3. \A q \in Request \ {r} : req'[q] = req[q]
        BY <1>3 DEF Admitted
    <2> QED BY <1>3, <2>1, <2>2, <2>3 DEF TypeOK, Alive
<1>4. ASSUME NEW r \in Request, NEW locks \in SUBSET Lock,
             req[r] # NoCall, Takes(r, locks), Continues(r, locks),
             req' \in [Request -> Call \cup {NoCall}],
             UNCHANGED <<profile, tokens, calls>>
      PROVE  TypeOK'
    <2>1. locks # {} => Alive(req[r].user)
        BY <1>4 DEF Takes
    <2>2. /\ req'[r].dirty \subseteq DOMAIN req'[r].given
          /\ req'[r].held # {} => Alive(req'[r].user)
        BY <1>4, <2>1 DEF Continues, TypeOK
    <2>3. \A q \in Request \ {r} : req'[q] = req[q]
        BY <1>4 DEF Continues
    <2> QED BY <1>4, <2>2, <2>3 DEF TypeOK, Alive
<1>5. ASSUME NEW r \in Request, Commit(r)
      PROVE  TypeOK'
    <2>1. /\ req[r] \in Call /\ req[r] # NoCall /\ req'[r] = NoCall
          /\ \A q \in Request \ {r} : Stays(q)
          /\ req' \in [Request -> Call \cup {NoCall}]
          /\ UNCHANGED calls
        BY <1>5, Committing DEF Commit, At
    <2>2. req[r].user \in User /\ req[r].token \in Token \cup {NoToken}
        BY <2>1 DEF Call
    <2>3. profile' \in [User -> Columns \cup {NoProfile}]
        <3>1. "profile" \in req[r].held => Written(r) \in Columns
            BY <2>1, WrittenType DEF TypeOK
        <3> QED BY <1>5, <2>2, <3>1 DEF Commit, TypeOK
    <2>4. tokens' \subseteq TokenRow
        <3>1. "entry" \in req[r].held => req[r].token \in Token
            BY <2>1 DEF Orderly, Ordered, EditOrder, TokenOrder, DeleteOrder, Call, Endpoint
        <3>2. \/ tokens' \subseteq tokens
              \/ /\ "entry" \in req[r].held
                 /\ tokens' = tokens \cup {[token |-> req[r].token, user |-> req[r].user]}
            BY <1>5 DEF Commit, Cascaded
        <3> QED BY <2>2, <3>1, <3>2 DEF TypeOK, TokenRow
    <2>5. ASSUME NEW q \in Request, req'[q] # NoCall
          PROVE  /\ req'[q].dirty \subseteq DOMAIN req'[q].given
                 /\ req'[q].held # {} => profile'[req'[q].user] # NoProfile
        <3>1. q # r /\ Stays(q)
            BY <2>1, <2>5
        <3>2. /\ req[q] # NoCall /\ req'[q].dirty = req[q].dirty
              /\ req'[q].given = req[q].given /\ req'[q].held = req[q].held
              /\ req'[q].user = req[q].user
            BY <2>5, <3>1 DEF Stays
        <3>3. /\ req[q].dirty \subseteq DOMAIN req[q].given
              /\ req[q].held # {} => Alive(req[q].user)
            BY <3>2 DEF TypeOK
        <3>4. ASSUME req[q].held # {}
              PROVE  profile'[req[q].user] # NoProfile
            <4>1. Alive(req[q].user) /\ req[q].user \in User
                BY <3>2, <3>3, <3>4 DEF TypeOK, Call
            <4>2. CASE req[q].user # req[r].user
                BY <1>5, <4>1, <4>2 DEF Commit, Alive, TypeOK
            <4>3. CASE req[q].user = req[r].user
                <5>1. "deleted" \notin req[r].held
                    BY <2>1, <3>1, <3>2, <3>4, <4>3 DEF Exclusive
                <5>2. Written(r) \in Columns
                    BY <2>1, <4>1, <4>3, WrittenType
                <5>3. profile'[req[r].user] \in {Written(r), profile[req[r].user]}
                    BY <1>5, <2>2, <5>1 DEF Commit, TypeOK
                <5> QED BY <4>1, <4>3, <5>2, <5>3, AbsentAssumption DEF Alive
            <4> QED BY <4>2, <4>3
        <3> QED BY <3>2, <3>3, <3>4
    <2> QED BY <2>1, <2>3, <2>4, <2>5 DEF TypeOK, Alive
<1> QED BY <1>1, <1>2, <1>3, <1>4, <1>5, StepCases

(***************************************************************************)
(* The order of statements and locks                                       *)
(***************************************************************************)

LEMMA OrderlyInit == Init => Orderly
BY DEF Init, Orderly

\* No step brings an account back.
LEMMA DeadStay ==
    ASSUME TypeOK, NEW r \in Request, Commit(r), NEW u \in User, ~Alive(u)
    PROVE  profile'[u] = NoProfile
<1>1. req[r] # NoCall
    BY DEF Commit, At
<1>2. CASE u # req[r].user
    BY <1>2 DEF Commit, TypeOK, Alive
<1>3. CASE u = req[r].user
    <2>1. req[r].held = {}
        BY <1>1, <1>3 DEF TypeOK
    <2> QED BY <1>3, <2>1 DEF Commit, TypeOK, Alive
<1> QED BY <1>2, <1>3

LEMMA OrderlyMove ==
    ASSUME TypeOK, Orderly, NEW r \in Request, NEW locks \in SUBSET Lock,
           req[r] # NoCall, Takes(r, locks), Continues(r, locks), UNCHANGED profile
    PROVE  Orderly'
<1> SUFFICES Ordered(r)'
    <2>1. ASSUME NEW q \in Request \ {r}, req'[q] # NoCall
          PROVE  Ordered(q)'
        <3>1. req'[q] = req[q] /\ Ordered(q)
            BY <2>1 DEF Orderly, Continues
        <3> QED BY <3>1 DEF Ordered, EditOrder, TokenOrder, DeleteOrder, Alive
    <2> QED BY <2>1 DEF Orderly
<1>1. /\ req[r].endpoint \in Endpoint
      /\ req'[r].endpoint = req[r].endpoint /\ req'[r].user = req[r].user
      /\ req'[r].token = req[r].token /\ req'[r].given = req[r].given
      /\ req'[r].dirty = req[r].dirty
      /\ req'[r].todo = Tail(req[r].todo) /\ req'[r].held = req[r].held \cup locks
      /\ \A q \in Request \ {r} : req'[q] = req[q]
    BY DEF Continues, TypeOK, Call
<1>3. CASE req[r].endpoint \in Edit
    <2>1. EditOrder(req[r]) /\ req[r].todo \in EditTodo
        BY <1>3 DEF Orderly, Ordered, EditOrder
    <2>2. EditOrder(req[r])'
        <3>1. CASE Head(req[r].todo) = "users"
            <4>1. locks = {"updated"}
                BY <3>1 DEF Takes, At
            <4>2. Tail(req[r].todo) \in EditTodo /\ Head(Tail(req[r].todo)) # "users"
                BY <2>1, <3>1, EditTodos
            <4>3. Head(Tail(req[r].todo)) # "commit"
                BY <2>1, <3>1, EditTodos
            <4> QED BY <1>1, <2>1, <3>1, <4>1, <4>2, <4>3 DEF EditOrder
        <3>2. CASE Head(req[r].todo) = "member"
            <4>1. locks \subseteq {"member", "shared"}
                BY <3>2 DEF Takes, At
            <4>3. Tail(req[r].todo) \in EditTodo /\ Head(Tail(req[r].todo)) = "profile"
                BY <2>1, <3>2, EditTodos
            <4> QED BY <1>1, <2>1, <3>2, <4>1, <4>3 DEF EditOrder
        <3>3. CASE Head(req[r].todo) = "profile"
            <4>1. locks = IF req[r].dirty = {} THEN {} ELSE {"profile"}
                BY <3>3 DEF Takes, At
            <4>3. Tail(req[r].todo) \in EditTodo /\ Head(Tail(req[r].todo)) = "commit"
                BY <2>1, <3>3, EditTodos
            <4> QED BY <1>1, <2>1, <3>3, <4>1, <4>3 DEF EditOrder
        <3>4. Head(req[r].todo) # "commit"
            BY DEF Takes, At
        <3> QED BY <2>1, <3>1, <3>2, <3>3, <3>4, EditTodos
    <2>3. req[r].endpoint # "fcm_token" /\ req[r].endpoint # "delete_user"
        BY <1>3 DEF Edit, Membership
    <2> QED BY <1>1, <1>3, <2>2, <2>3 DEF Ordered
<1>4. CASE req[r].endpoint = "fcm_token"
    <2>1. TokenOrder(req[r]) /\ req[r].todo \in TokenTodo
        BY <1>4 DEF Orderly, Ordered, TokenOrder
    <2>2. TokenOrder(req[r])'
        <3>1. CASE Head(req[r].todo) = "find"
            <4>1. locks = {}
                BY <3>1 DEF Takes, At
            <4>3. Tail(req[r].todo) \in TokenTodo /\ Head(Tail(req[r].todo)) = "insert"
                BY <2>1, <3>1, TokenTodos
            <4> QED BY <1>1, <2>1, <3>1, <4>1, <4>3 DEF TokenOrder
        <3>2. CASE Head(req[r].todo) = "insert"
            <4>1. locks = {"entry", "shared"}
                BY <3>2 DEF Takes, At
            <4>3. Tail(req[r].todo) \in TokenTodo /\ Head(Tail(req[r].todo)) = "commit"
                BY <2>1, <3>2, TokenTodos
            <4> QED BY <1>1, <2>1, <3>2, <4>1, <4>3 DEF TokenOrder
        <3>3. Head(req[r].todo) # "commit"
            BY DEF Takes, At
        <3> QED BY <2>1, <3>1, <3>2, <3>3, TokenTodos
    <2>3. req[r].endpoint \notin Edit /\ req[r].endpoint # "delete_user"
        BY <1>4 DEF Edit, Membership
    <2> QED BY <1>1, <1>4, <2>2, <2>3 DEF Ordered
<1>5. CASE req[r].endpoint = "delete_user"
    <2>1. DeleteOrder(req[r]) /\ req[r].todo \in DeleteTodo
        BY <1>5 DEF Orderly, Ordered, DeleteOrder
    <2>2. DeleteOrder(req[r])'
        <3>1. CASE Head(req[r].todo) = "children"
            <4>1. locks = IF Alive(req[r].user) THEN {"member", "profile", "tokens"} ELSE {}
                BY <3>1 DEF Takes, At
            <4>3. Tail(req[r].todo) \in DeleteTodo /\ Head(Tail(req[r].todo)) = "parent"
                BY <2>1, <3>1, DeleteTodos
            <4> QED BY <1>1, <2>1, <3>1, <4>1, <4>3 DEF DeleteOrder, Alive
        <3>2. CASE Head(req[r].todo) = "parent"
            <4>1. locks = IF Alive(req[r].user) THEN {"deleted"} ELSE {}
                BY <3>2 DEF Takes, At
            <4>3. Tail(req[r].todo) \in DeleteTodo /\ Head(Tail(req[r].todo)) = "commit"
                BY <2>1, <3>2, DeleteTodos
            <4> QED BY <1>1, <2>1, <3>2, <4>1, <4>3 DEF DeleteOrder, Alive
        <3>3. Head(req[r].todo) # "commit"
            BY DEF Takes, At
        <3> QED BY <2>1, <3>1, <3>2, <3>3, DeleteTodos
    <2>3. req[r].endpoint \notin Edit /\ req[r].endpoint # "fcm_token"
        BY <1>5 DEF Edit, Membership
    <2> QED BY <1>1, <1>5, <2>2, <2>3 DEF Ordered
<1> QED BY <1>1, <1>3, <1>4, <1>5 DEF Endpoint

LEMMA OrderlyStep ==
    ASSUME TypeOK, Orderly, [Next]_vars
    PROVE  Orderly'
<1> USE DEF Orderly, Ordered, EditOrder, TokenOrder, DeleteOrder, Alive
<1>1. CASE UNCHANGED vars
    BY <1>1 DEF vars, tables
<1>2. ASSUME NEW r \in Request, Abort(r)
      PROVE  Orderly'
    BY <1>2, Aborting
<1>3. ASSUME NEW r \in Request, Admitted(r), UNCHANGED <<profile, tokens>>
      PROVE  Orderly'
    <2>1. \A q \in Request \ {r} : req'[q] = req[q]
        BY <1>3 DEF Admitted
    <2>2. /\ req'[r].held = {} /\ req'[r].endpoint \in Endpoint
          /\ Alive(req'[r].user)
        BY <1>3 DEF Admitted, Call
    <2>6. ASSUME NEW q \in Request \ {r}, req'[q] # NoCall
          PROVE  Ordered(q)'
        <3>1. req'[q] = req[q] /\ Ordered(q)
            BY <2>1, <2>6
        <3> QED BY <1>3, <3>1
    <2> SUFFICES Ordered(r)'
        BY <2>6
    <2>3. CASE req'[r].endpoint \in Edit
        BY <1>3, <2>1, <2>2, <2>3 DEF Admitted, Edit, Membership
    <2>7. <<"find", "insert", "commit">> \in TokenTodo
          /\ <<"children", "parent", "commit">> \in DeleteTodo
        BY DEF TokenTodo, DeleteTodo
    <2>4. CASE req'[r].endpoint = "fcm_token"
        BY <1>3, <2>1, <2>2, <2>4, <2>7 DEF Admitted, Edit, Membership
    <2>5. CASE req'[r].endpoint = "delete_user"
        BY <1>3, <2>1, <2>2, <2>5, <2>7 DEF Admitted, Edit, Membership
    <2> QED BY <2>2, <2>3, <2>4, <2>5 DEF Endpoint
<1>4. ASSUME NEW r \in Request, NEW locks \in SUBSET Lock,
             req[r] # NoCall, Takes(r, locks), Continues(r, locks),
             UNCHANGED <<profile, tokens, calls>>
      PROVE  Orderly'
    BY <1>4, OrderlyMove
<1>5. ASSUME NEW r \in Request, Commit(r)
      PROVE  Orderly'
    <2>1. /\ req'[r] = NoCall
          /\ \A q \in Request \ {r} : Stays(q)
        BY <1>5, Committing
    <2> SUFFICES ASSUME NEW q \in Request, req'[q] # NoCall
                 PROVE  Ordered(q)'
        OBVIOUS
    <2>2. /\ req[q] # NoCall /\ req[q] \in Call
          /\ req'[q].endpoint = req[q].endpoint /\ req'[q].todo = req[q].todo
          /\ req'[q].user = req[q].user /\ req'[q].token = req[q].token
          /\ req'[q].given = req[q].given /\ req'[q].dirty = req[q].dirty
          /\ req'[q].held = req[q].held
        BY <2>1 DEF Stays, TypeOK
    <2>3. profile'[req[q].user] # NoProfile => profile[req[q].user] # NoProfile
        BY <1>5, <2>2, DeadStay DEF Call
    <2> QED BY <2>2, <2>3
<1> QED BY <1>1, <1>2, <1>3, <1>4, <1>5, StepCases

(***************************************************************************)
(* Locks exclude each other                                                *)
(***************************************************************************)

LEMMA HeldTogether ==
    ASSUME TypeOK, Orderly, NEW r \in Request, req[r] # NoCall
    PROVE  /\ req[r].held \subseteq Lock
           /\ "deleted" \in req[r].held => {"member", "profile"} \subseteq req[r].held
           /\ "tokens" \in req[r].held => "member" \in req[r].held
           /\ "entry" \in req[r].held => "shared" \in req[r].held
<1>1. req[r].held \subseteq Lock /\ req[r].endpoint \in Endpoint
    BY DEF TypeOK, Call
<1>2. Ordered(r)
    BY DEF Orderly
<1>3. CASE req[r].endpoint \in Edit
    BY <1>1, <1>2, <1>3 DEF Ordered, EditOrder
<1>4. CASE req[r].endpoint = "fcm_token"
    BY <1>1, <1>2, <1>4 DEF Ordered, TokenOrder
<1>5. CASE req[r].endpoint = "delete_user"
    BY <1>1, <1>2, <1>5 DEF Ordered, DeleteOrder
<1> QED BY <1>1, <1>3, <1>4, <1>5 DEF Endpoint

LEMMA ExclusiveMove ==
    ASSUME TypeOK, Orderly, Exclusive, NEW r \in Request, NEW locks \in SUBSET Lock,
           req[r] # NoCall, Takes(r, locks), NEW q \in Request \ {r}, req[q] # NoCall
    PROVE  /\ req[r].user = req[q].user =>
                /\ (req[r].held \cup locks) \cap req[q].held
                        \cap {"updated", "member", "profile"} = {}
                /\ "deleted" \in req[r].held \cup locks => req[q].held = {}
                /\ "deleted" \in req[q].held => req[r].held \cup locks = {}
           /\ "entry" \in req[r].held \cup locks /\ "entry" \in req[q].held =>
                req[r].token # req[q].token
<1>1. /\ req[r].user = req[q].user =>
            /\ req[r].held \cap req[q].held \cap {"updated", "member", "profile"} = {}
            /\ "deleted" \in req[r].held => req[q].held = {}
            /\ "deleted" \in req[q].held => req[r].held = {}
      /\ "entry" \in req[r].held /\ "entry" \in req[q].held => req[r].token # req[q].token
    BY DEF Exclusive
<1>2. /\ req[q].held \subseteq Lock
      /\ "deleted" \in req[q].held => {"member", "profile"} \subseteq req[q].held
      /\ "tokens" \in req[q].held => "member" \in req[q].held
      /\ "entry" \in req[q].held => "shared" \in req[q].held
    BY HeldTogether
<1>3. \A some : Holders(r, req[r].user, some) = {} /\ req[r].user = req[q].user
                => req[q].held \cap some = {}
    BY DEF Holders
<1>4. CASE locks = {}
    BY <1>1, <1>4
<1>5. CASE locks = {"updated"}
    <2>1. req[r].user = req[q].user => req[q].held \cap {"updated", "deleted"} = {}
        BY <1>3, <1>5 DEF Takes
    <2> QED BY <1>1, <1>5, <2>1
<1>6. CASE locks \in {{"member"}, {"member", "shared"}}
    <2>1. req[r].user = req[q].user => req[q].held \cap {"member", "deleted"} = {}
        BY <1>3, <1>6 DEF Takes
    <2> QED BY <1>1, <1>6, <2>1
<1>7. CASE locks = {"profile"}
    <2>1. req[r].user = req[q].user => req[q].held \cap {"profile"} = {}
        BY <1>3, <1>7 DEF Takes
    <2> QED BY <1>1, <1>2, <1>7, <2>1
<1>8. CASE locks = {"entry", "shared"}
    <2>1. /\ req[r].user = req[q].user => req[q].held \cap {"deleted"} = {}
          /\ TokenHolders(r) = {}
        BY <1>3, <1>8 DEF Takes
    <2>2. "entry" \in req[q].held => req[r].token # req[q].token
        BY <2>1 DEF TokenHolders
    <2> QED BY <1>1, <1>8, <2>1, <2>2
<1>9. CASE locks = {"member", "profile", "tokens"}
    <2>1. req[r].user = req[q].user => req[q].held \cap {"member", "profile"} = {}
        BY <1>3, <1>9 DEF Takes
    <2> QED BY <1>1, <1>2, <1>9, <2>1
<1>10. CASE locks = {"deleted"}
    <2>1. /\ req[r].user = req[q].user =>
                req[q].held \cap {"updated", "deleted", "shared"} = {}
          /\ At(r, "parent") /\ Alive(req[r].user)
        BY <1>3, <1>10 DEF Takes
    <2>2. {"member", "profile"} \subseteq req[r].held
        <3>1. req[r].endpoint = "delete_user"
            <4>1. req[r].endpoint \in Endpoint /\ Ordered(r) /\ Head(req[r].todo) = "parent"
                BY <2>1 DEF Orderly, TypeOK, Call, At
            <4> QED BY <4>1, EditTodos, TokenTodos
                    DEF Ordered, EditOrder, TokenOrder, Endpoint
        <3>2. DeleteOrder(req[r])
            BY <3>1 DEF Orderly, Ordered
        <3> QED BY <2>1, <3>2 DEF DeleteOrder, At
    <2>3. req[r].user = req[q].user => req[q].held = {}
        BY <1>1, <1>2, <2>1, <2>2 DEF Lock
    <2> QED BY <1>1, <1>10, <2>3
<1> QED BY <1>4, <1>5, <1>6, <1>7, <1>8, <1>9, <1>10 DEF Takes

LEMMA ExclusiveStep ==
    ASSUME TypeOK, Orderly, Exclusive, [Next]_vars
    PROVE  Exclusive'
<1>1. CASE UNCHANGED vars
    BY <1>1 DEF Exclusive, vars
<1>2. ASSUME NEW r \in Request, Abort(r)
      PROVE  Exclusive'
    BY <1>2, Aborting DEF Exclusive
<1>3. ASSUME NEW r \in Request, Admitted(r)
      PROVE  Exclusive'
    BY <1>3 DEF Exclusive, Admitted
<1>4. ASSUME NEW r \in Request, NEW locks \in SUBSET Lock,
             req[r] # NoCall, Takes(r, locks), Continues(r, locks)
      PROVE  Exclusive'
    <2>1. /\ req'[r].user = req[r].user /\ req'[r].token = req[r].token
          /\ req'[r].held = req[r].held \cup locks
          /\ \A q \in Request \ {r} : req'[q] = req[q]
        BY <1>4 DEF Continues
    <2>2. ASSUME NEW q \in Request \ {r}, req'[q] # NoCall
          PROVE  /\ req'[r].user = req'[q].user =>
                    /\ req'[r].held \cap req'[q].held \cap {"updated", "member", "profile"} = {}
                    /\ "deleted" \in req'[r].held => req'[q].held = {}
                    /\ "deleted" \in req'[q].held => req'[r].held = {}
                 /\ "entry" \in req'[r].held /\ "entry" \in req'[q].held =>
                    req'[r].token # req'[q].token
        BY <1>4, <2>1, <2>2, ExclusiveMove
    <2> QED BY <2>1, <2>2 DEF Exclusive
<1>5. ASSUME NEW r \in Request, Commit(r)
      PROVE  Exclusive'
    <2>1. req'[r] = NoCall /\ \A q \in Request \ {r} : Stays(q)
        BY <1>5, Committing
    <2> QED BY <2>1 DEF Stays, Exclusive
<1> QED BY <1>1, <1>2, <1>3, <1>4, <1>5, StepCases

\* What all the theorems about Profiles rest on.
Sound == TypeOK /\ Orderly /\ Exclusive

LEMMA SoundInvariant == Spec => []Sound
<1>1. Init => Sound
    BY TypeInit, OrderlyInit DEF Sound, Init, Exclusive
<1>2. Sound /\ [Next]_vars => Sound'
    BY TypeStep, OrderlyStep, ExclusiveStep DEF Sound
<1> QED BY <1>1, <1>2, PTL DEF Spec

\* Every reachable state of Profiles has its type; no request writes a column it was
\* not asked to change, and no locked row goes away.
THEOREM TypeCorrect == Spec => []TypeOK
<1>1. Sound => TypeOK
    BY DEF Sound
<1> QED BY <1>1, SoundInvariant, PTL

(***************************************************************************)
(* Push tokens                                                             *)
(***************************************************************************)

LEMMA TokenCommit ==
    ASSUME Sound, Fresh, PushTokens, NEW r \in Request, Commit(r)
    PROVE  Fresh' /\ PushTokens'
<1>1. /\ req[r] \in Call /\ req[r] # NoCall /\ req'[r] = NoCall
      /\ \A q \in Request \ {r} : Stays(q)
    BY Committing DEF Sound, Commit, At
<1>2. req[r].user \in User
    BY <1>1 DEF Call
<1>3. profile \in [User -> Columns \cup {NoProfile}] /\ tokens \subseteq TokenRow
    BY DEF Sound, TypeOK
<1>4. CASE "deleted" \in req[r].held
    <2>1. tokens' = {row \in tokens : row.user # req[r].user}
        BY <1>4 DEF Commit, Cascaded
    <2>2. \A u \in User : u # req[r].user => profile'[u] = profile[u]
        BY <1>2, <1>3 DEF Commit
    <2>3. PushTokens'
        BY <1>3, <2>1, <2>2 DEF PushTokens, TokenRow, Alive
    <2>4. Fresh'
        BY <1>1, <2>1 DEF Fresh, Stays
    <2> QED BY <2>3, <2>4
<1>5. CASE "deleted" \notin req[r].held
    <2>1. \A u \in User : Alive(u) => profile'[u] # NoProfile
        <3>1. "profile" \in req[r].held => Written(r) # NoProfile
            BY <1>1, WrittenType, AbsentAssumption DEF Sound, TypeOK
        <3> QED BY <1>2, <1>3, <1>5, <3>1 DEF Commit, Alive
    <2>2. CASE "entry" \notin req[r].held
        <3>1. tokens' = tokens
            BY <1>5, <2>2 DEF Commit
        <3> QED BY <1>1, <1>3, <2>1, <3>1 DEF PushTokens, Fresh, Stays, TokenRow, Alive
    <2>3. CASE "entry" \in req[r].held
        <3>1. tokens' = tokens \cup {[token |-> req[r].token, user |-> req[r].user]}
            BY <1>5, <2>3 DEF Commit
        <3>2. Alive(req[r].user)
            BY <1>1, <2>3 DEF Sound, TypeOK
        <3>3. PushTokens'
            <4>1. \A row \in tokens : row.token # req[r].token
                BY <1>1, <2>3 DEF Fresh
            <4> QED BY <1>2, <1>3, <2>1, <3>1, <3>2, <4>1 DEF PushTokens, TokenRow, Alive
        <3>4. Fresh'
            <4>1. \A q \in Request \ {r} : req[q] # NoCall /\ "entry" \in req[q].held
                        => req[q].token # req[r].token
                BY <1>1, <2>3 DEF Sound, Exclusive
            <4> QED BY <1>1, <3>1, <4>1 DEF Fresh, Stays
        <3> QED BY <3>3, <3>4
    <2> QED BY <2>2, <2>3
<1> QED BY <1>4, <1>5

\* A push token has one row, of an account that exists: the unique index makes an
\* INSERT wait for the others of its token, and the foreign key a deletion for the
\* INSERTs of its account.
THEOREM PushTokensKept == Spec => []PushTokens
<1>1. Init => Fresh /\ PushTokens
    BY DEF Init, Fresh, PushTokens
<1>2. Sound /\ Fresh /\ PushTokens /\ [Next]_vars => Fresh' /\ PushTokens'
    <2> SUFFICES ASSUME Sound, Fresh, PushTokens, [Next]_vars
                 PROVE  Fresh' /\ PushTokens'
        OBVIOUS
    <2> USE DEF Fresh, PushTokens, Alive
    <2>1. CASE UNCHANGED vars
        BY <2>1 DEF vars, tables
    <2>2. ASSUME NEW r \in Request, Abort(r)
          PROVE  Fresh' /\ PushTokens'
        BY <2>2, Aborting DEF Sound
    <2>3. ASSUME NEW r \in Request, Admitted(r), UNCHANGED <<profile, tokens>>
          PROVE  Fresh' /\ PushTokens'
        BY <2>3 DEF Admitted
    <2>4. ASSUME NEW r \in Request, NEW locks \in SUBSET Lock,
                 req[r] # NoCall, Takes(r, locks), Continues(r, locks),
                 UNCHANGED <<profile, tokens, calls>>
          PROVE  Fresh' /\ PushTokens'
        <3>1. "entry" \in locks => \A row \in tokens : row.token # req[r].token
            BY <2>4 DEF Takes, TokenTaken
        <3> QED BY <2>4, <3>1 DEF Continues
    <2>5. ASSUME NEW r \in Request, Commit(r)
          PROVE  Fresh' /\ PushTokens'
        BY <2>5, TokenCommit
    <2> QED BY <2>1, <2>2, <2>3, <2>4, <2>5, StepCases DEF Sound
<1> QED BY <1>1, <1>2, SoundInvariant, PTL DEF Spec

(***************************************************************************)
(* What edits change                                                       *)
(***************************************************************************)

\* What a request was asked to set is in its copy, and in the profile already where
\* it writes nothing, but for columns that others have changed since.
Based ==
    \A r \in Request : req[r] # NoCall =>
        /\ \A f \in DOMAIN req[r].given : req[r].copy[f] = req[r].given[f]
        /\ \A f \in DOMAIN req[r].given :
            Alive(req[r].user) => \/ f \in req[r].dirty
                                  \/ profile[req[r].user][f] = req[r].given[f]
                                  \/ f \in req[r].overtaken

\* Only a commit changes a profile.
LEMMA ProfileChanges ==
    ASSUME TypeOK, Orderly, [Next]_vars, profile' # profile
    PROVE  \E r \in Request : Commit(r)
BY StepCases, Aborting DEF vars, tables

LEMMA CommitColumns ==
    ASSUME Sound, NEW r \in Request, Commit(r), NEW u \in User, Alive(u),
           profile'[u] # NoProfile, NEW f \in Field
    PROVE  /\ u = req[r].user /\ f \in req[r].dirty /\ "profile" \in req[r].held
                => profile'[u][f] = req[r].copy[f]
           /\ ~(u = req[r].user /\ f \in req[r].dirty /\ "profile" \in req[r].held)
                => profile'[u][f] = profile[u][f]
<1>1. req[r] # NoCall /\ req[r].user \in User
    BY DEF Sound, TypeOK, Commit, At, Call
<1>2. CASE u # req[r].user
    BY <1>1, <1>2 DEF Commit, Sound, TypeOK
<1>3. CASE u = req[r].user
    <2>1. profile'[u] = IF "profile" \in req[r].held THEN Written(r) ELSE profile[u]
        BY <1>1, <1>3 DEF Commit, Sound, TypeOK
    <2> QED BY <1>3, <2>1 DEF Written
<1> QED BY <1>2, <1>3

\* A commit changes no column of a profile that its request was not asked to change,
\* although it works on a copy of the whole row.
THEOREM OtherColumnsKept == Spec => OtherColumnsStay
<1> DEFINE Kept == \A u \in User, f \in Field :
        Alive(u) /\ profile'[u] # NoProfile /\ profile'[u][f] # profile[u][f] =>
            \E r \in Request :
                Commit(r) /\ req[r].user = u /\ f \in DOMAIN req[r].given
<1>1. Sound /\ [Next]_vars => Kept
    <2> SUFFICES ASSUME Sound, [Next]_vars, NEW u \in User, NEW f \in Field,
                        Alive(u), profile'[u] # NoProfile,
                        profile'[u][f] # profile[u][f]
                 PROVE  \E r \in Request :
                            Commit(r) /\ req[r].user = u /\ f \in DOMAIN req[r].given
        OBVIOUS
    <2>1. PICK r \in Request : Commit(r)
        BY ProfileChanges DEF Sound
    <2>2. req[r].user = u /\ f \in req[r].dirty
        BY <2>1, CommitColumns
    <2>3. req[r].dirty \subseteq DOMAIN req[r].given
        BY <2>1 DEF Sound, TypeOK, Commit, At
    <2> QED BY <2>1, <2>2, <2>3
<1>2. Kept => [Kept]_vars
    OBVIOUS
<1> QED BY <1>1, SoundInvariant, PTL DEF Spec, OtherColumnsStay

LEMMA BasedAdmission ==
    ASSUME TypeOK, Based, NEW r \in Request, Admitted(r), UNCHANGED profile
    PROVE  Based'
<1>1. \A q \in Request \ {r} : req'[q] = req[q]
    BY DEF Admitted
<1>2. CASE req'[r].endpoint \notin Edit
    <2>1. DOMAIN req'[r].given = {}
        BY <1>2 DEF Admitted
    <2> QED BY <1>1, <2>1 DEF Based, Alive
<1>3. CASE req'[r].endpoint \in Edit
    <2>1. /\ req'[r].dirty = Dirty(profile[req'[r].user], req'[r].copy)
          /\ req'[r].copy = Assigned(req'[r].given, profile[req'[r].user])
          /\ req'[r] \in Call
        BY <1>3 DEF Admitted, Edit, Membership
    <2>2. DOMAIN req'[r].given \subseteq Field
        BY <2>1 DEF Call, SomeColumns
    <2>3. \A f \in DOMAIN req'[r].given :
            /\ req'[r].copy[f] = req'[r].given[f]
            /\ f \in req'[r].dirty \/ profile[req'[r].user][f] = req'[r].given[f]
        BY <2>1, <2>2 DEF Assigned, Dirty
    <2> QED BY <1>1, <2>3 DEF Based, Alive
<1> QED BY <1>2, <1>3

LEMMA BasedCommit ==
    ASSUME Sound, Based, NEW r \in Request, Commit(r)
    PROVE  Based'
<1>1. /\ req[r] \in Call /\ req[r] # NoCall /\ req'[r] = NoCall
      /\ \A q \in Request \ {r} : Stays(q)
    BY Committing DEF Sound, Commit, At
<1> SUFFICES ASSUME NEW q \in Request, req'[q] # NoCall
             PROVE  \A f \in DOMAIN req'[q].given :
                    /\ req'[q].copy[f] = req'[q].given[f]
                    /\ profile'[req'[q].user] # NoProfile =>
                            \/ f \in req'[q].dirty
                            \/ profile'[req'[q].user][f] = req'[q].given[f]
                            \/ f \in req'[q].overtaken
    BY DEF Based, Alive
<1>2. /\ q # r /\ req[q] # NoCall /\ req[q] \in Call
      /\ req'[q].given = req[q].given /\ req'[q].copy = req[q].copy
      /\ req'[q].user = req[q].user /\ req'[q].dirty = req[q].dirty
    BY <1>1 DEF Stays, Sound, TypeOK
<1> SUFFICES ASSUME NEW f \in DOMAIN req[q].given,
                    profile'[req[q].user] # NoProfile, f \notin req[q].dirty
             PROVE  \/ profile'[req[q].user][f] = req[q].given[f]
                    \/ f \in req'[q].overtaken
    BY <1>2 DEF Based
<1>3. f \in Field /\ req[q].user \in User
    BY <1>2 DEF Call, SomeColumns
<1>4. Alive(req[q].user)
    BY <1>3, DeadStay DEF Sound
<1>5. profile[req[q].user][f] = req[q].given[f] \/ f \in req[q].overtaken
    BY <1>2, <1>4 DEF Based
<1>6. CASE req[q].user # req[r].user
    <2>1. req'[q] = req[q]
        BY <1>2, <1>6 DEF Commit
    <2>2. profile'[req[q].user][f] = profile[req[q].user][f]
        BY <1>3, <1>4, <1>6, CommitColumns
    <2> QED BY <1>5, <2>1, <2>2
<1>7. CASE req[q].user = req[r].user
    <2> DEFINE seen == {g \in Field : /\ "profile" \in req[r].held
                                      /\ Written(r)[g] # profile[req[r].user][g]}
    <2>1. "deleted" \notin req[r].held
        BY <1>3, <1>7 DEF Commit, Sound, TypeOK
    <2>2. req'[q] = [req[q] EXCEPT !.overtaken = @ \cup seen]
        BY <1>2, <1>7, <2>1 DEF Commit
    <2>3. req'[q].overtaken = req[q].overtaken \cup seen
        <3> HIDE DEF seen
        <3> QED BY <1>2, <2>2 DEF Call
    <2>4. profile'[req[q].user] = IF "profile" \in req[r].held THEN Written(r)
                                  ELSE profile[req[q].user]
        BY <1>3, <1>7, <2>1 DEF Commit, Sound, TypeOK
    <2>5. profile'[req[q].user][f] = profile[req[q].user][f] \/ f \in seen
        BY <1>3, <1>7, <2>4
    <2> QED BY <1>5, <2>3, <2>5
<1> QED BY <1>6, <1>7

LEMMA BasedStep ==
    ASSUME Sound, Based, [Next]_vars
    PROVE  Based'
<1>1. CASE UNCHANGED vars
    BY <1>1 DEF Based, vars, tables, Alive
<1>2. ASSUME NEW r \in Request, Abort(r)
      PROVE  Based'
    BY <1>2, Aborting DEF Based, Alive, Sound
<1>3. ASSUME NEW r \in Request, NEW locks \in SUBSET Lock,
             req[r] # NoCall, Continues(r, locks), UNCHANGED <<profile, tokens, calls>>
      PROVE  Based'
    BY <1>3 DEF Based, Continues, Alive
<1> QED BY <1>1, <1>2, <1>3, BasedAdmission, BasedCommit, StepCases DEF Sound

\* What an edit is asked to set is in the profile once it has committed, but for a
\* column that it did not have to write and that others have changed since.
THEOREM EditsHold == Spec => EditsTakeEffect
<1> DEFINE Effect == \A r \in Request : Commit(r) /\ Alive(req[r].user) =>
        \A f \in DOMAIN req[r].given :
            \/ profile'[req[r].user][f] = req[r].given[f]
            \/ f \in req[r].overtaken /\ f \notin req[r].dirty
<1>1. Init => Based
    BY DEF Init, Based
<1>2. Sound /\ Based => Effect
    <2> SUFFICES ASSUME Sound, Based, NEW r \in Request, Commit(r), Alive(req[r].user),
                        NEW f \in DOMAIN req[r].given
                 PROVE  \/ profile'[req[r].user][f] = req[r].given[f]
                        \/ f \in req[r].overtaken /\ f \notin req[r].dirty
        OBVIOUS
    <2>1. /\ req[r] # NoCall /\ Head(req[r].todo) = "commit" /\ Ordered(r)
          /\ req[r] \in Call /\ req[r].user \in User /\ req[r].endpoint \in Endpoint
        BY DEF Sound, TypeOK, Orderly, Commit, At, Call
    <2>2. f \in Field
        BY <2>1 DEF Call, SomeColumns
    <2>3. EditOrder(req[r])
        BY <2>1 DEF Ordered, TokenOrder, DeleteOrder, Endpoint
    <2>4. profile'[req[r].user] # NoProfile
        <3>1. "deleted" \notin req[r].held
            BY <2>3 DEF EditOrder
        <3>2. Written(r) # NoProfile
            BY <2>1, WrittenType, AbsentAssumption DEF Sound
        <3> QED BY <2>1, <3>1, <3>2 DEF Commit, Sound, TypeOK, Alive
    <2>5. CASE f \in req[r].dirty
        <3>1. "profile" \in req[r].held
            BY <2>1, <2>3, <2>5 DEF EditOrder
        <3>2. profile'[req[r].user][f] = req[r].copy[f]
            BY <2>1, <2>2, <2>4, <2>5, <3>1, CommitColumns
        <3> QED BY <2>1, <3>2 DEF Based
    <2>6. CASE f \notin req[r].dirty
        <3>1. profile'[req[r].user][f] = profile[req[r].user][f]
            BY <2>1, <2>2, <2>4, <2>6, CommitColumns
        <3> QED BY <2>1, <2>6, <3>1 DEF Based
    <2> QED BY <2>5, <2>6
<1>3. Effect => [Effect]_vars
    OBVIOUS
<1> QED BY <1>1, <1>2, <1>3, BasedStep, SoundInvariant, PTL DEF Spec, EditsTakeEffect

(***************************************************************************)
(* Deadlocks                                                               *)
(***************************************************************************)

\* Edits send their statements, and so take their locks, in one order, account before
\* membership before profile: of requests that wait for each other in a circle one
\* is a deletion.
THEOREM NoCircleOfEdits == Spec => []DeadlockNeedsDeletion
<1>1. Sound => DeadlockNeedsDeletion
    <2> SUFFICES ASSUME Sound, NEW waiting \in SUBSET Request, Stuck(waiting),
                        \A r \in waiting : req[r].endpoint # "delete_user"
                 PROVE  FALSE
        BY DEF DeadlockNeedsDeletion
    <2>1. \A r \in waiting :
            /\ req[r] # NoCall /\ Ordered(r) /\ req[r].endpoint \in Endpoint
            /\ "deleted" \notin req[r].held /\ "tokens" \notin req[r].held
            /\ req[r].endpoint \in Edit \/ req[r].endpoint = "fcm_token"
        <3> SUFFICES ASSUME NEW r \in waiting
                     PROVE  /\ req[r] # NoCall /\ Ordered(r) /\ req[r].endpoint \in Endpoint
                            /\ "deleted" \notin req[r].held /\ "tokens" \notin req[r].held
                            /\ req[r].endpoint \in Edit \/ req[r].endpoint = "fcm_token"
            OBVIOUS
        <3>1. req[r] # NoCall /\ Ordered(r) /\ req[r].endpoint \in Endpoint
            BY DEF Stuck, Sound, Orderly, TypeOK, Call
        <3> QED BY <3>1 DEF Ordered, EditOrder, TokenOrder, Endpoint
    <2>2. ASSUME NEW r \in waiting, Head(req[r].todo) = "commit"
          PROVE  FALSE
        <3>1. BlockedBy(r) = {}
            BY <2>2 DEF BlockedBy, At
        <3> QED BY <3>1 DEF Stuck
    <2>3. ASSUME NEW r \in waiting, Head(req[r].todo) = "profile"
          PROVE  FALSE
        <3>1. PICK q \in waiting : q \in Holders(r, req[r].user, {"profile"})
            BY <2>1, <2>3 DEF Stuck, BlockedBy, At
        <3>2. "profile" \in req[q].held
            BY <3>1 DEF Holders
        <3>3. Head(req[q].todo) = "commit"
            BY <2>1, <3>2 DEF Ordered, EditOrder, TokenOrder
        <3> QED BY <2>2, <3>3
    <2>4. ASSUME NEW r \in waiting, Head(req[r].todo) = "member"
          PROVE  FALSE
        <3>1. PICK q \in waiting : q \in Holders(r, req[r].user, {"member", "deleted"})
            BY <2>1, <2>4 DEF Stuck, BlockedBy, At
        <3>2. "member" \in req[q].held
            BY <2>1, <3>1 DEF Holders
        <3>3. Head(req[q].todo) \in {"profile", "commit"}
            BY <2>1, <3>2 DEF Ordered, EditOrder, TokenOrder
        <3> QED BY <2>2, <2>3, <3>3
    <2>5. ASSUME NEW r \in waiting, Head(req[r].todo) = "users"
          PROVE  FALSE
        <3>1. PICK q \in waiting : q \in Holders(r, req[r].user, {"updated", "deleted"})
            BY <2>1, <2>5 DEF Stuck, BlockedBy, At
        <3>2. "updated" \in req[q].held
            BY <2>1, <3>1 DEF Holders
        <3>3. req[q].endpoint \in Edit /\ Head(req[q].todo) # "users"
            BY <2>1, <3>2 DEF Ordered, EditOrder, TokenOrder
        <3>4. Head(req[q].todo) \in {"users", "member", "profile", "commit"}
            BY <2>1, <3>3, EditTodos DEF Ordered, EditOrder
        <3> QED BY <2>2, <2>3, <2>4, <3>3, <3>4
    <2>6. ASSUME NEW r \in waiting, Head(req[r].todo) = "insert"
          PROVE  FALSE
        <3>1. PICK q \in waiting : q \in TokenHolders(r) \cup Holders(r, req[r].user, {"deleted"})
            BY <2>1, <2>6 DEF Stuck, BlockedBy, At
        <3>2. "entry" \in req[q].held
            BY <2>1, <3>1 DEF TokenHolders, Holders
        <3>3. Head(req[q].todo) = "commit"
            BY <2>1, <3>2 DEF Ordered, EditOrder, TokenOrder
        <3> QED BY <2>2, <3>3
    <2>7. ASSUME NEW r \in waiting, Head(req[r].todo) = "find"
          PROVE  FALSE
        <3>1. BlockedBy(r) = {}
            BY <2>7 DEF BlockedBy, At
        <3> QED BY <3>1 DEF Stuck
    <2>8. PICK r \in waiting : TRUE
        BY DEF Stuck
    <2>9. Head(req[r].todo) \in {"users", "member", "profile", "commit", "find", "insert"}
        BY <2>1, EditTodos, TokenTodos DEF Ordered, EditOrder, TokenOrder
    <2> QED BY <2>2, <2>3, <2>4, <2>5, <2>6, <2>7, <2>9
<1> QED BY <1>1, SoundInvariant, PTL

=============================================================================
