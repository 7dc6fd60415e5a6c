-------------------------- MODULE ProvisioningProofs ---------------------------
(***************************************************************************)
(* Proofs about Provisioning, for any addresses, identities and requests:  *)
(* its types, that a person has one account, and what becomes of the       *)
(* identities, documents and events that handlers leave when they break    *)
(* off; and that the handlers add up to Registry.                          *)
(***************************************************************************)
EXTENDS Provisioning, FiniteSetTheorems, TLAPS

(***************************************************************************)
(* The invariant                                                           *)
(***************************************************************************)

\* Which steps a request goes through, and when it has a row of its own.
Shape(c) ==
    /\ c.endpoint = "register" =>
        /\ c.step \in {"lookup", "insert", "profile", "emit", "commit"}
        /\ c.step \in {"lookup", "insert"} => c.id = NoId
        /\ c.step \in {"profile", "emit", "commit"} => c.id \in Id
    /\ c.endpoint = "create_user" =>
        /\ c.step \in {"insert", "sync", "compensate", "commit"}
        /\ c.step = "insert" => c.id = NoId
        /\ c.step \in {"sync", "commit"} => c.pending
    /\ c.endpoint = "delete_user" =>
        /\ c.step \in {"profile", "identity", "delete", "commit"}
        /\ c.id \in Id
        /\ c.pending <=> c.step = "commit"
    /\ c.pending => c.id \in Id

Shapes == \A r \in Request : req[r] # NoCall => Shape(req[r])

\* r's open transaction has inserted a row.
Inserting(r) == req[r] # NoCall /\ req[r].pending /\ req[r].endpoint # "delete_user"

\* Identities and keys have been given out before they are used; a key is that of
\* an account or of the row its request has inserted.
Known ==
    /\ \A e \in Email : identities[e] \in (1..uids) \cup {NoUid}
    /\ \A row \in rows : row.uid \in 1..uids
    /\ \A r \in Request : req[r] # NoCall =>
        /\ req[r].uid \in 1..uids
        /\ req[r].endpoint = "create_user" => req[r].uid \in provisioned
        /\ req[r].id # NoId /\ ~Inserting(r) => req[r].id \in accounts

\* The inserted rows keep apart from the committed ones and from each other.
Separate ==
    /\ \A r \in Request : Inserting(r) =>
        /\ req[r].id \in (1..ids) \ accounts
        /\ \A row \in rows : ~Clashes(row, req[r])
    /\ \A r, q \in Request : r # q /\ Inserting(r) /\ Inserting(q) =>
        req[r].id # req[q].id /\ ~Clashes(RowOf(req[q]), req[r])

\* Each request makes at most one row.
Keyless == {r \in Request : req[r] # NoCall /\ req[r].id = NoId}
Counted == IsFiniteSet(Keyless) /\ ids + Cardinality(Keyless) <= calls

Sound == TypeOK /\ Shapes /\ Known /\ Separate /\ Counted /\ UniqueAccounts

(***************************************************************************)
(* What a step does to the requests and the rows                           *)
(***************************************************************************)

\* r's request becomes c, or ends when that is NoCall, and no row is committed.
Becomes(r, c) ==
    /\ req' = [req EXCEPT ![r] = c]
    /\ UNCHANGED <<rows, accounts>>
    /\ c # NoCall => Shape(c)
    /\ \/ /\ req[r] = NoCall /\ c # NoCall /\ ~c.pending
          /\ calls' = calls + 1 /\ ids' = ids
          /\ c.uid \in 1..uids'
          /\ c.endpoint = "create_user" => c.uid \in provisioned'
          /\ c.id # NoId => c.id \in accounts
       \/ c = NoCall /\ UNCHANGED <<calls, ids>>
       \/ /\ req[r] # NoCall /\ c # NoCall /\ UNCHANGED <<calls, ids>>
          /\ c.endpoint = req[r].endpoint /\ c.uid = req[r].uid /\ c.email = req[r].email
          /\ c.pending = req[r].pending \/ c.endpoint = "delete_user"
          /\ c.id = req[r].id \/ (c.id \in accounts /\ ~c.pending)
       \/ /\ req[r] # NoCall /\ req[r].id = NoId /\ c # NoCall
          /\ ids' = ids + 1 /\ calls' = calls
          /\ c.endpoint = req[r].endpoint /\ c.uid = req[r].uid /\ c.email = req[r].email
          /\ c.endpoint # "delete_user"
          /\ c.id = ids + 1 /\ c.pending
          /\ ~Blocked(r, req[r]) /\ \A row \in rows : ~Clashes(row, req[r])

\* Sign-ups, and creations that end in the call that creates the identity.
Aside == UNCHANGED <<req, rows, accounts, ids>> /\ calls' \in {calls, calls + 1}

LEMMA Admissions ==
    ASSUME Sound, NEW r \in Request, Register(r) \/ CreateUser(r) \/ DeleteUser(r)
    PROVE  Aside \/ \E c \in Call : Becomes(r, c)
<1>1. req[r] = NoCall /\ calls' = calls + 1 /\ ids' = ids
    BY DEF Register, CreateUser, DeleteUser, Admit
<1>2. CASE Register(r)
    <2>1. PICK e \in Email :
            /\ identities[e] # NoUid
            /\ req' = [req EXCEPT ![r] =
                    [endpoint |-> "register", step |-> "lookup", email |-> e,
                     uid |-> identities[e], id |-> NoId, pending |-> FALSE]]
        BY <1>2 DEF Register
    <2> DEFINE c == [endpoint |-> "register", step |-> "lookup", email |-> e,
                     uid |-> identities[e], id |-> NoId, pending |-> FALSE]
    <2>2. identities[e] \in Uid /\ identities[e] \in 1..uids
        BY <2>1 DEF Sound, TypeOK, Known
    <2>3. c \in Call /\ Shape(c)
        BY <2>2 DEF Call, Endpoint, Step, Shape
    <2>4. c.id = NoId /\ ~c.pending /\ c.uid = identities[e] /\ c.endpoint = "register"
        OBVIOUS
    <2>5. req' = [req EXCEPT ![r] = c]
        BY <2>1
    <2> HIDE DEF c
    <2>6. uids' = uids /\ UNCHANGED <<rows, accounts>>
        BY <1>2 DEF Register, registry
    <2> QED BY <1>1, <2>2, <2>3, <2>4, <2>5, <2>6, AbsentAssumption DEF Becomes
<1>3. CASE DeleteUser(r)
    <2>1. PICK row \in rows :
            req' = [req EXCEPT ![r] =
            [endpoint |-> "delete_user", step |-> "profile", email |-> row.email,
             uid |-> row.uid, id |-> row.id, pending |-> FALSE]]
        BY <1>3 DEF DeleteUser
    <2> DEFINE c == [endpoint |-> "delete_user", step |-> "profile", email |-> row.email,
             uid |-> row.uid, id |-> row.id, pending |-> FALSE]
    <2>2. row \in Row /\ row.uid \in 1..uids /\ row.id \in accounts
        BY DEF Sound, TypeOK, Known
    <2>3. c \in Call /\ Shape(c)
        BY <2>2 DEF Call, Endpoint, Step, Shape, Row
    <2>4. c.id = row.id /\ ~c.pending /\ c.uid = row.uid /\ c.endpoint = "delete_user"
        OBVIOUS
    <2>5. req' = [req EXCEPT ![r] = c]
        BY <2>1
    <2> HIDE DEF c
    <2>6. uids' = uids /\ UNCHANGED <<rows, accounts>>
        BY <1>3 DEF DeleteUser, registry
    <2> QED BY <1>1, <2>2, <2>3, <2>4, <2>5, <2>6, AbsentAssumption DEF Becomes
<1>4. CASE CreateUser(r)
    <2>1. PICK e \in Email :
            \/ UNCHANGED req
            \/ /\ uids < MaxUids /\ uids' = uids + 1
               /\ provisioned' = provisioned \cup {uids'}
               /\ req' = [req EXCEPT ![r] =
                        [endpoint |-> "create_user", step |-> "insert", email |-> e,
                         uid |-> uids', id |-> NoId, pending |-> FALSE]]
        BY <1>4 DEF CreateUser
    <2>2. UNCHANGED <<rows, accounts>>
        BY <1>4 DEF CreateUser, registry
    <2>3. CASE UNCHANGED req
        BY <1>1, <2>2, <2>3 DEF Aside
    <2>4. CASE ~UNCHANGED req
        <3> DEFINE c == [endpoint |-> "create_user", step |-> "insert", email |-> e,
                         uid |-> uids', id |-> NoId, pending |-> FALSE]
        <3>1. uids' \in Uid /\ uids' \in 1..uids'
            BY <2>1, <2>4, BoundsAssumption DEF Sound, TypeOK, Uid
        <3>2. c \in Call /\ Shape(c)
            BY <3>1 DEF Call, Endpoint, Step, Shape
        <3>3. c.id = NoId /\ ~c.pending /\ c.uid = uids' /\ c.endpoint = "create_user"
            OBVIOUS
        <3>4. req' = [req EXCEPT ![r] = c] /\ uids' \in provisioned'
            BY <2>1, <2>4
        <3> HIDE DEF c
        <3> QED BY <1>1, <2>2, <3>1, <3>2, <3>3, <3>4, AbsentAssumption DEF Becomes
    <2> QED BY <2>3, <2>4
<1> QED BY <1>2, <1>3, <1>4

\* A request goes on with the row it has or has not.
LEMMA GoToBecomes ==
    ASSUME Sound, NEW r \in Request, req[r] # NoCall, NEW step \in Step, GoTo(r, step),
           UNCHANGED <<rows, accounts, calls, ids>>, Shape([req[r] EXCEPT !.step = step])
    PROVE  \E c \in Call : Becomes(r, c)
<1> DEFINE c == [req[r] EXCEPT !.step = step]
<1>1. c \in Call /\ req[r] \in Call
    BY DEF Sound, TypeOK, Call
<1>2. req' = [req EXCEPT ![r] = c]
    BY DEF GoTo
<1>3. /\ c.endpoint = req[r].endpoint /\ c.uid = req[r].uid /\ c.email = req[r].email
      /\ c.pending = req[r].pending /\ c.id = req[r].id
    BY <1>1 DEF Call
<1> HIDE DEF c
<1> QED BY <1>1, <1>2, <1>3, AbsentAssumption DEF Becomes, c

LEMMA EndBecomes ==
    ASSUME Sound, NEW r \in Request, End(r), UNCHANGED <<rows, accounts, calls, ids>>
    PROVE  Becomes(r, NoCall)
BY DEF End, Becomes

LEMMA FailsBecomes ==
    ASSUME Sound, NEW r \in Request, req[r] # NoCall, Fails(r),
           UNCHANGED <<rows, accounts, calls, ids>>
    PROVE  \E c \in Call \cup {NoCall} : Becomes(r, c)
<1>1. CASE req[r].endpoint = "create_user"
    <2>1. req[r] \in Call /\ Shape(req[r])
        BY DEF Sound, TypeOK, Shapes
    <2>2. Shape([req[r] EXCEPT !.step = "compensate"])
        BY <1>1, <2>1 DEF Shape, Call
    <2> QED BY <1>1, <2>2, GoToBecomes DEF Fails, Step
<1>2. CASE req[r].endpoint # "create_user"
    BY <1>2, EndBecomes DEF Fails
<1> QED BY <1>1, <1>2

LEMMA Steps ==
    ASSUME Sound, NEW r \in Request,
           Lookup(r) \/ Insert(r) \/ UpsertProfile(r) \/ Emit(r) \/ Sync(r) \/ Compensate(r)
            \/ DeleteProfile(r) \/ DeleteIdentity(r) \/ DeleteRow(r) \/ Raise(r) \/ Break(r)
    PROVE  \E c \in Call \cup {NoCall} : Becomes(r, c)
<1>1. req[r] # NoCall
    BY DEF Lookup, Insert, UpsertProfile, Emit, Sync, Compensate, DeleteProfile,
           DeleteIdentity, DeleteRow, Raise, Break, At
<1>2. req[r] \in Call /\ Shape(req[r]) /\ req[r].endpoint \in Endpoint
    BY <1>1 DEF Sound, TypeOK, Shapes, Call
<1>3. CASE Lookup(r)
    <2>1. req[r].step = "lookup" /\ UNCHANGED <<rows, accounts, calls, ids>>
        BY <1>3 DEF Lookup, At, registry
    <2>2. req[r].endpoint = "register" /\ ~req[r].pending /\ req[r].id = NoId
        BY <1>2, <2>1, AbsentAssumption DEF Shape, Endpoint, Call
    <2>3. CASE GoTo(r, "insert")
        <3>1. Shape([req[r] EXCEPT !.step = "insert"])
            BY <1>2, <2>2 DEF Shape, Call
        <3> QED BY <1>1, <2>1, <2>3, <3>1, GoToBecomes DEF Step
    <2>4. ASSUME NEW row \in rows, req' = [req EXCEPT ![r].step = "profile", ![r].id = row.id]
          PROVE  \E c \in Call : Becomes(r, c)
        <3> DEFINE c == [req[r] EXCEPT !.step = "profile", !.id = row.id]
        <3>1. row.id \in Id /\ row.id \in accounts
            BY DEF Sound, TypeOK, Row
        <3>2. c \in Call /\ Shape(c)
            BY <1>2, <2>2, <3>1 DEF Call, Step, Shape
        <3>3. /\ c.endpoint = req[r].endpoint /\ c.uid = req[r].uid /\ c.email = req[r].email
              /\ c.pending = req[r].pending /\ c.id = row.id
            BY <1>2 DEF Call
        <3>4. req' = [req EXCEPT ![r] = c]
            BY <2>4
        <3> HIDE DEF c
        <3> QED BY <1>1, <2>1, <2>2, <3>1, <3>2, <3>3, <3>4, AbsentAssumption DEF Becomes
    <2> QED BY <1>3, <2>3, <2>4 DEF Lookup
<1>4. CASE Insert(r)
    <2>1. req[r].step = "insert" /\ UNCHANGED <<rows, accounts, calls>> /\ ~Blocked(r, req[r])
        BY <1>4 DEF Insert, At, registry
    <2>2. req[r].endpoint \in {"register", "create_user"} /\ req[r].id = NoId
        BY <1>2, <2>1 DEF Shape, Endpoint
    <2>3. CASE Fails(r) /\ UNCHANGED ids
        BY <1>1, <2>1, <2>3, FailsBecomes
    <2>4. CASE /\ \A row \in rows : ~Clashes(row, req[r])
               /\ ids' = ids + 1
               /\ req' = [req EXCEPT
                    ![r].step = IF req[r].endpoint = "register" THEN "profile" ELSE "sync",
                    ![r].id = ids + 1, ![r].pending = TRUE]
        <3> DEFINE c == [req[r] EXCEPT
                !.step = IF req[r].endpoint = "register" THEN "profile" ELSE "sync",
                !.id = ids + 1, !.pending = TRUE]
        <3>1. r \in Keyless
            BY <1>1, <2>2 DEF Keyless
        <3>2. Cardinality(Keyless) >= 1 /\ Cardinality(Keyless) \in Nat
            BY <3>1, FS_CardinalityType, FS_EmptySet DEF Sound, Counted
        <3>3. ids + 1 \in Id
            BY <3>2, BoundsAssumption DEF Sound, Counted, TypeOK, Id
        <3>4. c \in Call /\ Shape(c)
            BY <1>2, <2>2, <3>3 DEF Call, Step, Shape
        <3>5. /\ c.endpoint = req[r].endpoint /\ c.uid = req[r].uid /\ c.email = req[r].email
              /\ c.pending /\ c.id = ids + 1
            BY <1>2 DEF Call
        <3>6. req' = [req EXCEPT ![r] = c]
            BY <2>4
        <3> HIDE DEF c
        <3>7. c # NoCall
            BY <3>4, AbsentAssumption
        <3> QED BY <1>1, <2>1, <2>2, <2>4, <3>4, <3>5, <3>6, <3>7 DEF Becomes
    <2> QED BY <1>4, <2>3, <2>4 DEF Insert
<1>5. CASE UpsertProfile(r)
    <2>1. /\ req[r].endpoint = "register" /\ req[r].step = "profile"
          /\ GoTo(r, "emit") /\ UNCHANGED <<rows, accounts, calls, ids>>
        BY <1>5 DEF UpsertProfile, At
    <2>2. Shape([req[r] EXCEPT !.step = "emit"])
        BY <1>2, <2>1 DEF Shape, Call
    <2> QED BY <1>1, <2>1, <2>2, GoToBecomes DEF Step
<1>6. CASE Emit(r)
    <2>1. /\ req[r].step = "emit"
          /\ GoTo(r, "commit") /\ UNCHANGED <<rows, accounts, calls, ids>>
        BY <1>6 DEF Emit, At, registry
    <2>2. Shape([req[r] EXCEPT !.step = "commit"])
        BY <1>2, <2>1 DEF Shape, Call, Endpoint
    <2> QED BY <1>1, <2>1, <2>2, GoToBecomes DEF Step
<1>7. CASE Sync(r)
    <2>1. /\ req[r].step = "sync" /\ UNCHANGED <<rows, accounts, calls, ids>>
          /\ GoTo(r, "commit") \/ Fails(r)
        BY <1>7 DEF Sync, At, registry
    <2>2. Shape([req[r] EXCEPT !.step = "commit"])
        BY <1>2, <2>1 DEF Shape, Call, Endpoint
    <2> QED BY <1>1, <2>1, <2>2, GoToBecomes, FailsBecomes DEF Step
<1>8. CASE Compensate(r) \/ Break(r)
    <2>1. End(r) /\ UNCHANGED <<rows, accounts, calls, ids>>
        BY <1>8 DEF Compensate, Break, Strand, registry
    <2> QED BY <2>1, EndBecomes
<1>9. CASE DeleteProfile(r)
    <2>1. /\ req[r].endpoint = "delete_user" /\ req[r].step = "profile"
          /\ GoTo(r, "identity") /\ UNCHANGED <<rows, accounts, calls, ids>>
        BY <1>9 DEF DeleteProfile, At, registry
    <2>2. Shape([req[r] EXCEPT !.step = "identity"])
        BY <1>2, <2>1 DEF Shape, Call
    <2> QED BY <1>1, <2>1, <2>2, GoToBecomes DEF Step
<1>10. CASE DeleteIdentity(r)
    <2>1. /\ req[r].step = "identity" /\ UNCHANGED <<rows, accounts, calls, ids>>
          /\ GoTo(r, "delete") \/ Fails(r)
        BY <1>10 DEF DeleteIdentity, At, registry
    <2>2. Shape([req[r] EXCEPT !.step = "delete"])
        BY <1>2, <2>1 DEF Shape, Call, Endpoint
    <2> QED BY <1>1, <2>1, <2>2, GoToBecomes, FailsBecomes DEF Step
<1>11. CASE DeleteRow(r)
    <2>1. /\ req[r].step = "delete" /\ UNCHANGED <<rows, accounts, calls, ids>>
          /\ req' = [req EXCEPT ![r].step = "commit", ![r].pending = TRUE]
        BY <1>11 DEF DeleteRow, At, registry
    <2> DEFINE c == [req[r] EXCEPT !.step = "commit", !.pending = TRUE]
    <2>2. c \in Call /\ Shape(c)
        BY <1>2, <2>1 DEF Call, Step, Shape, Endpoint
    <2>3. req[r].endpoint = "delete_user"
        BY <1>2, <2>1 DEF Shape, Endpoint
    <2>4. /\ c.endpoint = req[r].endpoint /\ c.uid = req[r].uid /\ c.email = req[r].email
          /\ c.id = req[r].id
        BY <1>2 DEF Call
    <2>5. req' = [req EXCEPT ![r] = c]
        BY <2>1
    <2> HIDE DEF c
    <2> QED BY <1>1, <2>1, <2>2, <2>3, <2>4, <2>5, AbsentAssumption DEF Becomes
<1>12. CASE Raise(r)
    <2>1. Fails(r) /\ UNCHANGED <<rows, accounts, calls, ids>>
        BY <1>12 DEF Raise, Strand
    <2> QED BY <1>1, <2>1, FailsBecomes
<1> QED BY <1>3, <1>4, <1>5, <1>6, <1>7, <1>8, <1>9, <1>10, <1>11, <1>12

LEMMA StepCases ==
    ASSUME Sound, [Next]_vars
    PROVE  \/ UNCHANGED vars \/ Aside
           \/ \E r \in Request : Commit(r) \/ \E c \in Call \cup {NoCall} : Becomes(r, c)
<1>1. CASE Next
    <2>1. CASE \E e \in Email : SignUp(e)
        BY <2>1 DEF SignUp, Aside, registry
    <2>2. ASSUME NEW r \in Request, HandlerStep(r)
          PROVE  Aside \/ Commit(r) \/ \E c \in Call \cup {NoCall} : Becomes(r, c)
        BY <2>2, Admissions, Steps DEF HandlerStep
    <2> QED BY <1>1, <2>1, <2>2 DEF Next
<1> QED BY <1>1

(***************************************************************************)
(* Types and uniqueness                                                    *)
(***************************************************************************)

\* Identities and histories stay within what has been given out.
LEMMA StoresTyped ==
    ASSUME Sound, [Next]_vars
    PROVE  /\ identities' \in [Email -> Uid \cup {NoUid}]
           /\ \A e \in Email : identities'[e] \in (1..uids') \cup {NoUid}
           /\ profiles' \subseteq Id /\ announced' \subseteq Id
           /\ uids' \in 0..MaxUids /\ uids <= uids'
           /\ provisioned \subseteq provisioned' /\ provisioned' \subseteq 1..uids'
           /\ abandoned' \subseteq provisioned' /\ stranded' \subseteq 1..uids'
           /\ orphaned' \subseteq 1..ids
<1> DEFINE Typed ==
           /\ identities' \in [Email -> Uid \cup {NoUid}]
           /\ \A e \in Email : identities'[e] \in (1..uids') \cup {NoUid}
           /\ profiles' \subseteq Id /\ announced' \subseteq Id
           /\ uids' \in 0..MaxUids /\ uids <= uids'
           /\ provisioned \subseteq provisioned' /\ provisioned' \subseteq 1..uids'
           /\ abandoned' \subseteq provisioned' /\ stranded' \subseteq 1..uids'
           /\ orphaned' \subseteq 1..ids
<1>1. /\ identities \in [Email -> Uid \cup {NoUid}]
      /\ \A e \in Email : identities[e] \in (1..uids) \cup {NoUid}
      /\ profiles \subseteq Id /\ announced \subseteq Id
      /\ uids \in 0..MaxUids /\ MaxUids \in Nat
      /\ provisioned \subseteq 1..uids
      /\ abandoned \subseteq provisioned /\ stranded \subseteq 1..uids
      /\ orphaned \subseteq 1..ids
    BY BoundsAssumption DEF Sound, TypeOK, Known
<1>2. \A r \in Request : req[r] # NoCall =>
        /\ req[r] \in Call /\ Shape(req[r]) /\ req[r].uid \in 1..uids
        /\ req[r].endpoint = "create_user" => req[r].uid \in provisioned
        /\ req[r].id # NoId => req[r].id \in 1..ids
    BY DEF Sound, TypeOK, Shapes, Known, Separate, Inserting
<1>3. CASE UNCHANGED <<identities, profiles, announced, uids, provisioned,
                       abandoned, stranded, orphaned>>
    BY <1>1, <1>3
<1>4. ASSUME NEW e \in Email, uids < MaxUids, uids' = uids + 1,
             identities' = [identities EXCEPT ![e] = uids + 1],
             provisioned' \in {provisioned, provisioned \cup {uids + 1}},
             abandoned' \in {abandoned, abandoned \cup {uids + 1}},
             abandoned' \subseteq provisioned',
             UNCHANGED <<profiles, announced, stranded, orphaned>>
      PROVE  Typed
    <2>1. uids + 1 \in Uid /\ uids' \in 0..MaxUids /\ uids <= uids' /\ 1..uids \subseteq 1..uids'
          /\ uids + 1 \in 1..uids'
        BY <1>1, <1>4 DEF Uid
    <2>2. \A f \in Email : identities'[f] \in {identities[f], uids + 1}
        BY <1>1, <1>4
    <2>3. identities' \in [Email -> Uid \cup {NoUid}]
        BY <1>1, <1>4, <2>1
    <2>4. \A f \in Email : identities'[f] \in (1..uids') \cup {NoUid}
        BY <1>1, <2>1, <2>2
    <2>5. provisioned' \subseteq 1..uids' /\ stranded' \subseteq 1..uids'
        BY <1>1, <1>4, <2>1
    <2> QED BY <1>1, <1>4, <2>1, <2>3, <2>4, <2>5
<1>5. ASSUME NEW r \in Request, req[r] # NoCall,
             identities' \in {identities, Without(req[r])},
             profiles' \subseteq profiles \cup (Id \cap {req[r].id}),
             announced' \subseteq announced \cup (Id \cap {req[r].id}),
             abandoned' \subseteq abandoned \cup (provisioned \cap {req[r].uid}),
             stranded' \subseteq stranded \cup {req[r].uid},
             orphaned' \subseteq orphaned \cup ({req[r].id} \ {NoId}),
             UNCHANGED <<uids, provisioned>>
      PROVE  Typed
    <2>1. Without(req[r]) \in [Email -> Uid \cup {NoUid}]
          /\ \A e \in Email : Without(req[r])[e] \in {identities[e], NoUid}
        BY <1>1 DEF Without
    <2> QED BY <1>1, <1>2, <1>5, <2>1
<1>6. CASE \E e \in Email : SignUp(e)
    BY <1>1, <1>4, <1>6 DEF SignUp, registry
<1>7. ASSUME NEW r \in Request, HandlerStep(r)
      PROVE  Typed
    <2>1. CASE Register(r) \/ Lookup(r) \/ Insert(r) \/ Sync(r) \/ DeleteUser(r) \/ DeleteRow(r)
                \/ Commit(r)
        BY <1>3, <2>1 DEF Register, Lookup, Insert, Sync, DeleteUser, DeleteRow, Commit, registry
    <2>2. CASE CreateUser(r)
        <3>1. CASE UNCHANGED <<identities, req, uids, provisioned, abandoned>>
            BY <1>3, <2>2, <3>1 DEF CreateUser, registry
        <3>2. CASE ~UNCHANGED <<identities, req, uids, provisioned, abandoned>>
            <4>1. PICK e \in Email :
                    /\ uids < MaxUids /\ uids' = uids + 1
                    /\ identities' = [identities EXCEPT ![e] = uids']
                    /\ provisioned' = provisioned \cup {uids'}
                    /\ abandoned' \in {abandoned, abandoned \cup {uids'}}
                BY <2>2, <3>2 DEF CreateUser
            <4>2. UNCHANGED <<profiles, announced, stranded, orphaned>>
                BY <2>2 DEF CreateUser, registry
            <4> QED BY <1>1, <1>4, <4>1, <4>2
        <3> QED BY <3>1, <3>2
    <2>3. CASE UpsertProfile(r) \/ Emit(r)
        <3>1. req[r] # NoCall /\ req[r].id \in Id /\ req[r].id # NoId
            BY <1>2, <2>3, AbsentAssumption DEF UpsertProfile, Emit, At, Shape, Call, Endpoint
        <3>2. /\ profiles' \subseteq profiles \cup {req[r].id}
              /\ announced' \subseteq announced \cup {req[r].id}
              /\ orphaned' \subseteq orphaned \cup {req[r].id}
              /\ UNCHANGED <<identities, uids, provisioned, abandoned, stranded>>
            BY <2>3, Zenon DEF UpsertProfile, Emit, registry
        <3> QED BY <1>5, <3>1, <3>2
    <2>4. CASE Compensate(r)
        <3>1. req[r] # NoCall /\ req[r].endpoint = "create_user"
            BY <1>2, <2>4 DEF Compensate, At, Shape, Call, Endpoint
        <3>2. /\ identities' \in {identities, Without(req[r])}
              /\ abandoned' \subseteq abandoned \cup {req[r].uid}
              /\ stranded' \subseteq stranded \cup {req[r].uid}
              /\ UNCHANGED <<profiles, announced, uids, provisioned, orphaned>>
            BY <2>4 DEF Compensate, Remove, registry
        <3> QED BY <1>2, <1>5, <3>1, <3>2
    <2>5. CASE DeleteProfile(r)
        <3>1. /\ req[r] # NoCall /\ profiles' \subseteq profiles
              /\ UNCHANGED <<identities, announced, uids, provisioned, abandoned, stranded, orphaned>>
            BY <2>5 DEF DeleteProfile, At, ProfilesWithout, registry
        <3> QED BY <1>5, <3>1
    <2>6. CASE DeleteIdentity(r)
        <3>1. /\ req[r] # NoCall /\ identities' \in {identities, Without(req[r])}
              /\ stranded' \subseteq stranded \cup {req[r].uid}
              /\ UNCHANGED <<profiles, announced, uids, provisioned, abandoned, orphaned>>
            BY <2>6 DEF DeleteIdentity, At, Remove, registry
        <3> QED BY <1>5, <3>1
    <2>7. CASE Raise(r) \/ Break(r)
        <3>1. /\ req[r] # NoCall
              /\ abandoned' \subseteq abandoned \cup (provisioned \cap {req[r].uid})
              /\ stranded' \subseteq stranded \cup {req[r].uid}
              /\ UNCHANGED <<identities, profiles, announced, uids, provisioned>>
            BY <1>2, <2>7 DEF Raise, Break, Strand
        <3>2. orphaned' \subseteq orphaned \cup ({req[r].id} \ {NoId})
            BY <1>2, <2>7, <3>1, AbsentAssumption DEF Raise, Break, Strand, Shape
        <3> QED BY <1>5, <3>1, <3>2
    <2> QED BY <1>7, <2>1, <2>2, <2>3, <2>4, <2>5, <2>6, <2>7 DEF HandlerStep
<1> QED BY <1>3, <1>6, <1>7 DEF Next, vars, registry

LEMMA CallsTyped ==
    ASSUME Sound, [Next]_vars
    PROVE  calls' \in 0..MaxCalls
<1>1. calls \in 0..MaxCalls /\ MaxCalls \in Nat
    BY BoundsAssumption DEF Sound, TypeOK
<1>2. UNCHANGED calls \/ (calls < MaxCalls /\ calls' = calls + 1)
    BY DEF Next, vars, SignUp, HandlerStep, Register, Lookup, Insert, UpsertProfile, Emit,
           CreateUser, Sync, Compensate, DeleteUser, DeleteProfile, DeleteIdentity, DeleteRow,
           Commit, Raise, Break, Admit
<1> QED BY <1>1, <1>2

LEMMA Counting ==
    ASSUME Sound, NEW r \in Request, NEW c \in Call \cup {NoCall}, Becomes(r, c)
    PROVE  Counted'
<1>1. /\ IsFiniteSet(Keyless) /\ ids + Cardinality(Keyless) <= calls
      /\ ids \in Nat /\ calls \in Nat /\ Cardinality(Keyless) \in Nat
    BY FS_CardinalityType, BoundsAssumption DEF Sound, Counted, TypeOK
<1>2. req \in [Request -> Call \cup {NoCall}] /\ req' = [req EXCEPT ![r] = c]
    BY DEF Sound, TypeOK, Becomes
<1>3. Keyless' \subseteq Keyless \cup {r} /\ Keyless \ {r} \subseteq Keyless'
    BY <1>2 DEF Keyless
<1>4. CASE req[r] = NoCall /\ c # NoCall /\ calls' = calls + 1 /\ ids' = ids
    <2>1. IsFiniteSet(Keyless \cup {r}) /\ Cardinality(Keyless \cup {r}) \in Nat
          /\ Cardinality(Keyless \cup {r}) <= Cardinality(Keyless) + 1
        <3>1. r \notin Keyless
            BY <1>4 DEF Keyless
        <3>2. /\ IsFiniteSet(Keyless \cup {r})
              /\ Cardinality(Keyless \cup {r}) = Cardinality(Keyless) + 1
            BY <1>1, <3>1, FS_AddElement
        <3> QED BY <1>1, <3>2
    <2>2. IsFiniteSet(Keyless') /\ Cardinality(Keyless') <= Cardinality(Keyless \cup {r})
        BY <1>3, <2>1, FS_Subset
    <2>3. Cardinality(Keyless') \in Nat
        BY <2>2, FS_CardinalityType
    <2> QED BY <1>1, <1>4, <2>1, <2>2, <2>3 DEF Counted
<1>5. CASE Keyless' \subseteq Keyless /\ UNCHANGED <<calls, ids>>
    <2>1. IsFiniteSet(Keyless') /\ Cardinality(Keyless') <= Cardinality(Keyless)
        BY <1>1, <1>5, FS_Subset
    <2>2. Cardinality(Keyless') \in Nat
        BY <2>1, FS_CardinalityType
    <2> QED BY <1>1, <1>5, <2>1, <2>2 DEF Counted
<1>6. CASE r \in Keyless /\ c.id = ids + 1 /\ c # NoCall /\ ids' = ids + 1 /\ calls' = calls
    <2>1. c.id # NoId
        BY <1>6, AbsentAssumption DEF Becomes, Shape, Keyless
    <2>2. Keyless' = Keyless \ {r}
        BY <1>2, <1>3, <1>6, <2>1 DEF Keyless
    <2>3. IsFiniteSet(Keyless \ {r}) /\ Cardinality(Keyless \ {r}) = Cardinality(Keyless) - 1
        BY <1>1, <1>6, FS_RemoveElement
    <2> QED BY <1>1, <1>6, <2>2, <2>3 DEF Counted
<1>7. CASE c = NoCall /\ UNCHANGED <<calls, ids>>
    <2>1. Keyless' \subseteq Keyless
        BY <1>2, <1>7 DEF Keyless
    <2> QED BY <1>5, <1>7, <2>1
<1>8. CASE /\ req[r] # NoCall /\ c # NoCall /\ UNCHANGED <<calls, ids>>
           /\ c.id = req[r].id \/ c.id \in accounts
    <2>1. accounts \subseteq Id
        BY <1>1, BoundsAssumption DEF Sound, TypeOK, Id
    <2>2. Keyless' \subseteq Keyless
        BY <1>2, <1>8, <2>1, AbsentAssumption DEF Keyless
    <2> QED BY <1>5, <1>8, <2>2
<1>9. CASE /\ req[r] # NoCall /\ req[r].id = NoId /\ c # NoCall
           /\ ids' = ids + 1 /\ calls' = calls /\ c.id = ids + 1 /\ c.pending
    <2>1. r \in Keyless
        BY <1>9 DEF Keyless
    <2> QED BY <1>6, <1>9, <2>1
<1> QED BY <1>4, <1>7, <1>8, <1>9 DEF Becomes

\* An inserted row has met every clashing one that was there or on its way.
LEMMA Inserts ==
    ASSUME Sound, NEW r \in Request, NEW c \in Call \cup {NoCall}, Becomes(r, c)
    PROVE  Separate'
<1>1. /\ req \in [Request -> Call \cup {NoCall}] /\ req' = [req EXCEPT ![r] = c]
      /\ rows' = rows /\ accounts' = accounts /\ accounts \subseteq 1..ids
      /\ ids \in Nat /\ ids' \in {ids, ids + 1}
    BY BoundsAssumption DEF Sound, TypeOK, Becomes
<1>2. \A q \in Request : q # r => (Inserting(q)' <=> Inserting(q)) /\ req'[q] = req[q]
    BY <1>1 DEF Inserting
<1>3. CASE ~Inserting(r)'
    BY <1>1, <1>2, <1>3 DEF Sound, Separate, Clashes, RowOf
<1>4. CASE Inserting(r)' /\ Inserting(r)
    <2>1. /\ c # NoCall /\ c.uid = req[r].uid /\ c.email = req[r].email /\ c.id = req[r].id
        BY <1>1, <1>4, AbsentAssumption DEF Becomes, Inserting, Sound, Shapes, Shape
    <2> QED BY <1>1, <1>2, <1>4, <2>1 DEF Sound, Separate, Clashes, RowOf
<1>5. CASE Inserting(r)' /\ ~Inserting(r)
    <2>1. /\ c # NoCall /\ c.uid = req[r].uid /\ c.email = req[r].email
          /\ c.id = ids + 1 /\ ids' = ids + 1
          /\ ~Blocked(r, req[r]) /\ \A row \in rows : ~Clashes(row, req[r])
        BY <1>1, <1>5 DEF Becomes, Inserting
    <2>2. \A q \in Request : q # r /\ Inserting(q) =>
            /\ ~Clashes(RowOf(req[q]), c) /\ ~Clashes(RowOf(c), req[q])
            /\ req[q].id # ids + 1
        BY <1>1, <2>1 DEF Blocked, Pending, Inserting, Clashes, RowOf, Sound, Separate
    <2>3. ids + 1 \notin accounts /\ ids + 1 \in 1..ids'
        BY <1>1, <2>1
    <2>4. \A q \in Request : Inserting(q)' =>
        /\ req'[q].id \in (1..ids') \ accounts
        /\ \A row \in rows : ~Clashes(row, req'[q])
        BY <1>1, <1>2, <2>1, <2>3 DEF Sound, Separate, Clashes
    <2>5. \A p, q \in Request : p # q /\ Inserting(p)' /\ Inserting(q)' =>
            req'[p].id # req'[q].id /\ ~Clashes(RowOf(req'[q]), req'[p])
        BY <1>1, <1>2, <2>1, <2>2 DEF Sound, Separate, Clashes, RowOf
    <2> QED BY <1>1, <2>4, <2>5 DEF Separate, Clashes, RowOf
<1> QED BY <1>3, <1>4, <1>5

LEMMA BecomesSound ==
    ASSUME Sound, [Next]_vars, NEW r \in Request, NEW c \in Call \cup {NoCall}, Becomes(r, c)
    PROVE  Sound'
<1> USE StoresTyped, CallsTyped
<1>1. /\ req \in [Request -> Call \cup {NoCall}] /\ req' = [req EXCEPT ![r] = c]
      /\ rows' = rows /\ accounts' = accounts /\ accounts \subseteq 1..ids
      /\ ids \in Nat /\ ids' \in {ids, ids + 1} /\ uids \in Nat /\ uids' \in Nat /\ uids <= uids'
    BY BoundsAssumption DEF Sound, TypeOK, Becomes
<1>2. Counted' /\ Separate'
    BY Counting, Inserts
<1>3. TypeOK'
    <2>1. ids' <= calls' /\ ids' \in Nat
        BY <1>1, <1>2, FS_CardinalityType, BoundsAssumption DEF Counted
    <2>2. req' \in [Request -> Call \cup {NoCall}]
        BY <1>1
    <2>3. 1..ids \subseteq 1..ids'
        BY <1>1
    <2> QED BY <1>1, <2>1, <2>2, <2>3, BoundsAssumption DEF Sound, TypeOK
<1>4. Shapes'
    BY <1>1 DEF Sound, Shapes, Shape, Becomes
<1>5. Known'
    <2>1. 1..uids \subseteq 1..uids'
        BY <1>1
    <2>2. ASSUME NEW q \in Request, req'[q] # NoCall
          PROVE  /\ req'[q].uid \in 1..uids'
                 /\ req'[q].endpoint = "create_user" => req'[q].uid \in provisioned'
                 /\ req'[q].id # NoId /\ ~Inserting(q)' => req'[q].id \in accounts
        <3>1. CASE q # r
            <4>1. req'[q] = req[q] /\ (Inserting(q)' <=> Inserting(q))
                BY <1>1, <3>1 DEF Inserting
            <4> QED BY <2>1, <2>2, <4>1 DEF Sound, Known
        <3>2. CASE q = r
            <4>1. c # NoCall /\ req'[q] = c
                BY <1>1, <2>2, <3>2
            <4>2. Inserting(q)' <=> c.pending /\ c.endpoint # "delete_user"
                BY <4>1 DEF Inserting
            <4>3. c.uid \in 1..uids'
                BY <2>1, <4>1 DEF Becomes, Sound, Known
            <4>4. c.endpoint = "create_user" => c.uid \in provisioned'
                BY <4>1 DEF Becomes, Sound, Known
            <4>5. c.id # NoId /\ ~(c.pending /\ c.endpoint # "delete_user") => c.id \in accounts
                BY <4>1 DEF Becomes, Sound, Known, Inserting
            <4> QED BY <4>1, <4>2, <4>3, <4>4, <4>5
        <3> QED BY <3>1, <3>2
    <2> QED BY <1>1, <2>1, <2>2 DEF Known, Sound
<1>6. UniqueAccounts'
    BY <1>1 DEF Sound, UniqueAccounts
<1> QED BY <1>2, <1>3, <1>4, <1>5, <1>6 DEF Sound

LEMMA AsideSound ==
    ASSUME Sound, [Next]_vars, Aside
    PROVE  Sound'
<1> USE StoresTyped, CallsTyped
<1>1. /\ UNCHANGED <<req, rows, accounts, ids>> /\ calls' \in {calls, calls + 1}
      /\ ids \in Nat /\ calls \in Nat /\ calls' \in Nat /\ ids <= calls
      /\ uids \in Nat /\ uids' \in Nat /\ uids <= uids'
    BY BoundsAssumption DEF Sound, TypeOK, Aside
<1>2. TypeOK'
    <2>1. ids' \in 0..calls'
        BY <1>1
    <2> QED BY <1>1, <2>1 DEF Sound, TypeOK
<1>3. Counted'
    <2>1. Keyless' = Keyless /\ Cardinality(Keyless) \in Nat
        BY <1>1, FS_CardinalityType DEF Keyless, Sound, Counted
    <2> QED BY <1>1, <2>1 DEF Sound, Counted
<1>4. Known'
    <2>1. 1..uids \subseteq 1..uids'
        BY <1>1
    <2> QED BY <1>1, <2>1 DEF Sound, Known, Inserting
<1>5. Shapes' /\ Separate' /\ UniqueAccounts'
    BY <1>1 DEF Sound, Shapes, Shape, Separate, Inserting, Clashes, RowOf, UniqueAccounts
<1> QED BY <1>2, <1>3, <1>4, <1>5 DEF Sound

LEMMA CommitSound ==
    ASSUME Sound, [Next]_vars, NEW r \in Request, Commit(r)
    PROVE  Sound'
<1> USE StoresTyped
<1>1. /\ req[r] # NoCall /\ req[r].step = "commit" /\ req[r] \in Call /\ Shape(req[r])
      /\ req[r].endpoint \in Endpoint
    BY DEF Commit, At, Sound, TypeOK, Shapes, Call
<1>2. /\ req' = [req EXCEPT ![r] = NoCall] /\ req \in [Request -> Call \cup {NoCall}]
      /\ UNCHANGED <<uids, calls, ids, provisioned, identities>>
      /\ accounts' = accounts \cup {row.id : row \in rows'}
      /\ ids \in Nat
    BY BoundsAssumption DEF Commit, End, Sound, TypeOK
<1>3. \A q \in Request : req'[q] # NoCall =>
        q # r /\ req[q] # NoCall /\ req'[q] = req[q] /\ (Inserting(q)' <=> Inserting(q))
    BY <1>2 DEF Inserting
<1>4. /\ RowOf(req[r]).uid = req[r].uid /\ RowOf(req[r]).email = req[r].email
      /\ RowOf(req[r]).id = req[r].id
      /\ Inserting(r) => RowOf(req[r]) \in Row /\ req[r].id \in 1..ids
    BY <1>1 DEF RowOf, Row, Call, Inserting, Shape, Sound, Separate
<1>5. \A row \in rows' : row \in rows \/ (Inserting(r) /\ row = RowOf(req[r]))
    BY <1>1 DEF Commit, Inserting
<1>6. accounts' \subseteq accounts \cup {row.id : row \in {row \in rows' : row \notin rows}}
    BY <1>2 DEF Sound, TypeOK
<1>7. \A id \in accounts' : id \in accounts \/ (Inserting(r) /\ id = req[r].id)
    BY <1>4, <1>5, <1>6
<1>8. TypeOK'
    <2>1. rows' \subseteq Row
        BY <1>4, <1>5 DEF Sound, TypeOK
    <2>2. accounts' \subseteq 1..ids' /\ {row.id : row \in rows'} \subseteq accounts'
        BY <1>2, <1>4, <1>7 DEF Sound, TypeOK
    <2>3. req' \in [Request -> Call \cup {NoCall}]
        BY <1>2
    <2> QED BY <1>2, <2>1, <2>2, <2>3 DEF Sound, TypeOK
<1>9. Counted'
    <2>1. Keyless' \subseteq Keyless
        BY <1>3 DEF Keyless
    <2>2. /\ IsFiniteSet(Keyless') /\ Cardinality(Keyless') <= Cardinality(Keyless)
          /\ Cardinality(Keyless) \in Nat
        BY <2>1, FS_Subset, FS_CardinalityType DEF Sound, Counted
    <2>3. Cardinality(Keyless') \in Nat /\ calls \in Nat
        BY <2>2, FS_CardinalityType, BoundsAssumption DEF Sound, TypeOK
    <2> QED BY <1>2, <2>2, <2>3 DEF Sound, Counted
<1>10. Shapes'
    BY <1>3 DEF Sound, Shapes, Shape
<1>11. Known'
    <2>1. req[r].uid \in 1..uids /\ \A e \in Email : identities[e] \in (1..uids) \cup {NoUid}
        BY <1>1 DEF Sound, Known
    <2>2. \A row \in rows' : row.uid \in 1..uids
        BY <1>4, <1>5, <2>1 DEF Sound, Known
    <2>3. ASSUME NEW q \in Request, req'[q] # NoCall
          PROVE  /\ req'[q].uid \in 1..uids
                 /\ req'[q].endpoint = "create_user" => req'[q].uid \in provisioned
                 /\ req'[q].id # NoId /\ ~Inserting(q)' => req'[q].id \in accounts
        BY <1>3, <2>3 DEF Sound, Known
    <2> QED BY <1>2, <2>1, <2>2, <2>3 DEF Known
<1>12. Separate'
    <2>1. ASSUME NEW q \in Request, Inserting(q)'
          PROVE  req'[q].id \in (1..ids') \ accounts'
                 /\ \A row \in rows' : ~Clashes(row, req'[q])
        <3>1. q # r /\ Inserting(q) /\ req'[q] = req[q]
            BY <1>3, <2>1 DEF Inserting
        <3>2. Inserting(r) => req[q].id # req[r].id /\ ~Clashes(RowOf(req[r]), req[q])
            BY <3>1 DEF Sound, Separate
        <3>3. req[q].id \in (1..ids) \ accounts /\ \A row \in rows : ~Clashes(row, req[q])
            BY <3>1 DEF Sound, Separate
        <3> QED BY <1>2, <1>5, <1>7, <3>1, <3>2, <3>3
    <2>2. ASSUME NEW p \in Request, NEW q \in Request, p # q, Inserting(p)', Inserting(q)'
          PROVE  req'[p].id # req'[q].id /\ ~Clashes(RowOf(req'[q]), req'[p])
        <3>1. /\ Inserting(p) /\ req'[p] = req[p]
              /\ Inserting(q) /\ req'[q] = req[q]
            BY <1>3, <2>2 DEF Inserting
        <3> QED BY <2>2, <3>1 DEF Sound, Separate
    <2> QED BY <2>1, <2>2 DEF Separate, Clashes, RowOf
<1>13. UniqueAccounts'
    <2> SUFFICES ASSUME NEW a \in rows', NEW b \in rows', a.uid = b.uid \/ a.email = b.email
                 PROVE  a = b
        BY DEF UniqueAccounts
    <2>1. Inserting(r) => \A row \in rows : ~Clashes(row, req[r])
        BY DEF Sound, Separate
    <2> QED BY <1>4, <1>5, <2>1 DEF Sound, UniqueAccounts, Clashes
<1> QED BY <1>8, <1>9, <1>10, <1>11, <1>12, <1>13 DEF Sound

LEMMA SoundStep ==
    ASSUME Sound, [Next]_vars
    PROVE  Sound'
<1>1. CASE UNCHANGED vars
    BY <1>1, AsideSound DEF vars, Aside
<1>2. CASE Aside
    BY <1>2, AsideSound
<1>3. ASSUME NEW r \in Request, Commit(r) \/ \E c \in Call \cup {NoCall} : Becomes(r, c)
      PROVE  Sound'
    BY <1>3, CommitSound, BecomesSound
<1> QED BY <1>1, <1>2, <1>3, StepCases

LEMMA SoundInvariant == Spec => []Sound
<1>1. Init => Sound
    <2> SUFFICES ASSUME Init
                 PROVE  Sound
        OBVIOUS
    <2>1. Keyless = {}
        BY DEF Init, Keyless
    <2>2. Counted
        BY <2>1, FS_EmptySet DEF Counted, Init
    <2> QED BY <2>2, BoundsAssumption
        DEF Init, Sound, TypeOK, Shapes, Known, Separate, Inserting, UniqueAccounts
<1>2. Sound /\ [Next]_vars => Sound'
    BY SoundStep
<1> QED BY <1>1, <1>2, PTL DEF Spec

\* Every store and every request in flight keeps its shape.
THEOREM TypeCorrect == Spec => []TypeOK
<1>1. Sound => TypeOK
    BY DEF Sound
<1> QED BY <1>1, SoundInvariant, PTL

\* However registrations and creations of one person overlap, one account comes of
\* it.
THEOREM AccountsAreUnique == Spec => []UniqueAccounts
<1>1. Sound => UniqueAccounts
    BY DEF Sound
<1> QED BY <1>1, SoundInvariant, PTL

(***************************************************************************)
(* How requests and identities go on from step to step                     *)
(***************************************************************************)

Acts(r) ==
    \/ Lookup(r) \/ Insert(r) \/ UpsertProfile(r) \/ Emit(r) \/ Sync(r) \/ Compensate(r)
    \/ DeleteProfile(r) \/ DeleteIdentity(r) \/ DeleteRow(r)
    \/ Commit(r) \/ Raise(r) \/ Break(r)

\* A deletion that has removed the identity.
Late(r) ==
    /\ req[r] # NoCall /\ req[r].endpoint = "delete_user"
    /\ req[r].step \in {"delete", "commit"}

LEMMA Locality ==
    ASSUME Sound, [Next]_vars, NEW r \in Request, req[r] # NoCall
    PROVE  req'[r] = req[r] \/ Acts(r)
<1>1. CASE UNCHANGED vars \/ \E e \in Email : SignUp(e)
    BY <1>1 DEF vars, SignUp
<1>2. ASSUME NEW p \in Request, p # r, HandlerStep(p)
      PROVE  req'[r] = req[r]
    <2>1. CASE Commit(p)
        BY <1>2, <2>1 DEF Commit, End, Sound, TypeOK
    <2>2. CASE ~Commit(p)
        <3>1. Aside \/ \E c \in Call \cup {NoCall} : Becomes(p, c)
            BY <1>2, <2>2, Admissions, Steps DEF HandlerStep
        <3> QED BY <1>2, <3>1 DEF Aside, Becomes, Sound, TypeOK
    <2> QED BY <2>1, <2>2
<1>3. CASE HandlerStep(r)
    BY <1>3 DEF HandlerStep, Acts, Register, CreateUser, DeleteUser, Admit
<1> QED BY <1>1, <1>2, <1>3 DEF Next

\* A request ends when the handler's part is over or breaks off.
LEMMA Ending ==
    ASSUME Sound, [Next]_vars, NEW r \in Request, req[r] # NoCall, req'[r] = NoCall
    PROVE  /\ Compensate(r) \/ Commit(r) \/ Break(r)
                \/ Insert(r) \/ Sync(r) \/ DeleteIdentity(r) \/ Raise(r)
           /\ req[r].endpoint = "create_user" => Compensate(r) \/ Commit(r) \/ Break(r)
           /\ Late(r) => Commit(r) \/ Break(r) \/ Raise(r)
           /\ Inserting(r) => Compensate(r) \/ Commit(r) \/ Break(r) \/ Raise(r)
<1>1. /\ req[r] \in Call /\ Shape(req[r]) /\ req[r].endpoint \in Endpoint
      /\ req \in [Request -> Call \cup {NoCall}]
    BY DEF Sound, TypeOK, Shapes, Call
<1>2. \A step \in Step : ~GoTo(r, step)
    <2> SUFFICES ASSUME NEW step \in Step, GoTo(r, step)
                 PROVE  FALSE
        OBVIOUS
    <2>1. req'[r] = [req[r] EXCEPT !.step = step]
        BY <1>1 DEF GoTo
    <2>2. [req[r] EXCEPT !.step = step] \in Call
        BY <1>1 DEF Call
    <2> QED BY <2>1, <2>2, AbsentAssumption
<1>3. ~Lookup(r) /\ ~DeleteRow(r)
    <2>1. ASSUME NEW row \in rows, req' = [req EXCEPT ![r].step = "profile", ![r].id = row.id]
          PROVE  FALSE
        <3>1. req'[r] = [req[r] EXCEPT !.step = "profile", !.id = row.id]
            BY <1>1, <2>1
        <3>2. [req[r] EXCEPT !.step = "profile", !.id = row.id] \in Call
            BY <1>1 DEF Call, Sound, TypeOK, Row, Step
        <3> QED BY <3>1, <3>2, AbsentAssumption
    <2>2. ASSUME req' = [req EXCEPT ![r].step = "commit", ![r].pending = TRUE]
          PROVE  FALSE
        <3>1. req'[r] = [req[r] EXCEPT !.step = "commit", !.pending = TRUE]
            BY <1>1, <2>2
        <3>2. [req[r] EXCEPT !.step = "commit", !.pending = TRUE] \in Call
            BY <1>1 DEF Call, Step
        <3> QED BY <3>1, <3>2, AbsentAssumption
    <2> QED BY <1>2, <2>1, <2>2 DEF Lookup, DeleteRow, Step
<1>4. ~UpsertProfile(r) /\ ~Emit(r) /\ ~DeleteProfile(r)
    BY <1>2 DEF UpsertProfile, Emit, DeleteProfile, Step
<1>5. /\ Compensate(r) \/ Commit(r) \/ Break(r)
      \/ Insert(r) \/ Sync(r) \/ DeleteIdentity(r) \/ Raise(r)
    BY <1>3, <1>4, Locality, AbsentAssumption DEF Acts
<1>6. ASSUME Insert(r) \/ Sync(r) \/ DeleteIdentity(r) \/ Raise(r)
      PROVE  Fails(r)
    <2>1. CASE Insert(r)
        <3>1. PICK c \in Call \cup {NoCall} : Becomes(r, c)
            BY <2>1, Steps
        <3>2. c = NoCall
            BY <1>1, <3>1 DEF Becomes
        <3>3. ids' = ids /\ ids \in Nat
            BY <3>1, <3>2, BoundsAssumption DEF Becomes, Sound, TypeOK
        <3> QED BY <2>1, <3>3 DEF Insert
    <2> QED BY <1>2, <1>6, <2>1 DEF Sync, DeleteIdentity, Raise, Step
<1>7. Insert(r) \/ Sync(r) \/ DeleteIdentity(r) \/ Raise(r) => req[r].endpoint # "create_user"
    BY <1>2, <1>6 DEF Fails, Step
<1>8. Insert(r) \/ Sync(r) \/ DeleteIdentity(r) => ~Late(r)
    BY DEF Late, Insert, Sync, DeleteIdentity, At
<1>9. Insert(r) \/ Sync(r) \/ DeleteIdentity(r) => ~Inserting(r)
    BY <1>1, <1>7, AbsentAssumption DEF Inserting, Insert, Sync, DeleteIdentity, At, Shape, Endpoint
<1>10. Late(r) => Commit(r) \/ Break(r) \/ Raise(r)
    <2>1. Late(r) => ~Compensate(r)
        BY <1>1 DEF Late, Compensate, At, Shape
    <2> QED BY <1>5, <1>8, <2>1, Zenon
<1>11. req[r].endpoint = "create_user" => Compensate(r) \/ Commit(r) \/ Break(r)
    BY <1>5, <1>7, Zenon
<1>12. Inserting(r) => Compensate(r) \/ Commit(r) \/ Break(r) \/ Raise(r)
    BY <1>5, <1>9, Zenon
<1> QED BY <1>5, <1>10, <1>11, <1>12, Zenon

\* Until then it stays what it is, and keeps the row it has.
LEMMA Staying ==
    ASSUME Sound, [Next]_vars, NEW r \in Request, req[r] # NoCall, req'[r] # NoCall
    PROVE  /\ req'[r].endpoint = req[r].endpoint
           /\ req'[r].uid = req[r].uid /\ req'[r].email = req[r].email
           /\ req[r].endpoint = "delete_user" \/ req[r].pending => req'[r].id = req[r].id
           /\ req[r].pending => req'[r].pending
           /\ Late(r) => Late(r)'
           /\ Late(r)' => Late(r) \/ (DeleteIdentity(r) /\ Remove(r))
           /\ req[r].endpoint = "delete_user" /\ req'[r].step # "profile" =>
                req[r].step # "profile" \/ DeleteProfile(r)
           /\ Inserting(r)' /\ ~Inserting(r) => req'[r].id = ids + 1
           /\ req'[r].step \in {"emit", "commit"} /\ req[r].endpoint = "register" =>
                req[r].step \in {"emit", "commit"} \/ UpsertProfile(r)
           /\ req[r].step \in {"emit", "commit"} /\ req[r].endpoint = "register" =>
                req'[r].step \in {"emit", "commit"}
<1>1. /\ req[r] \in Call /\ Shape(req[r]) /\ req[r].endpoint \in Endpoint
      /\ req \in [Request -> Call \cup {NoCall}]
    BY DEF Sound, TypeOK, Shapes, Call
<1>2. CASE req'[r] = req[r]
    BY <1>2 DEF Late, Inserting
<1>3. ~End(r)
    BY <1>1 DEF End
<1>4. ~Compensate(r) /\ ~Commit(r) /\ ~Break(r)
    BY <1>3 DEF Compensate, Commit, Break
<1>5. ASSUME NEW step \in Step, GoTo(r, step)
      PROVE  /\ req'[r] = [req[r] EXCEPT !.step = step]
             /\ req'[r].endpoint = req[r].endpoint /\ req'[r].step = step
             /\ req'[r].uid = req[r].uid /\ req'[r].email = req[r].email
             /\ req'[r].id = req[r].id /\ req'[r].pending = req[r].pending
    BY <1>1, <1>5 DEF GoTo, Call
<1>6. Fails(r) => req[r].endpoint = "create_user" /\ GoTo(r, "compensate")
    BY <1>3 DEF Fails
<1>7. CASE Fails(r)
    BY <1>1, <1>5, <1>6, <1>7 DEF Late, Inserting, Step
<1>8. CASE Lookup(r)
    <2>1. req[r].step = "lookup"
        BY <1>8 DEF Lookup, At
    <2>2. req[r].endpoint = "register" /\ ~req[r].pending
        BY <1>1, <2>1, AbsentAssumption DEF Shape, Endpoint
    <2>3. CASE GoTo(r, "insert")
        BY <2>1, <2>2, <2>3, <1>5 DEF Late, Inserting, Step
    <2>4. ASSUME NEW row \in rows, req' = [req EXCEPT ![r].step = "profile", ![r].id = row.id]
          PROVE  /\ req'[r].endpoint = req[r].endpoint /\ req'[r].step = "profile"
                 /\ req'[r].uid = req[r].uid /\ req'[r].email = req[r].email
                 /\ req'[r].pending = req[r].pending
        BY <1>1, <2>4 DEF Call
    <2>5. CASE \E row \in rows : req' = [req EXCEPT ![r].step = "profile", ![r].id = row.id]
        BY <2>1, <2>2, <2>4, <2>5 DEF Late, Inserting
    <2> QED BY <1>8, <2>3, <2>5 DEF Lookup
<1>9. CASE Insert(r) /\ ~Fails(r)
    <2>1. req[r].step = "insert"
        BY <1>9 DEF Insert, At
    <2>2. req[r].endpoint \in {"register", "create_user"} /\ ~req[r].pending
        BY <1>1, <2>1, AbsentAssumption DEF Shape, Endpoint
    <2>3. req' = [req EXCEPT
                ![r].step = IF req[r].endpoint = "register" THEN "profile" ELSE "sync",
                ![r].id = ids + 1, ![r].pending = TRUE]
        BY <1>9 DEF Insert
    <2>4. /\ req'[r].endpoint = req[r].endpoint /\ req'[r].id = ids + 1
          /\ req'[r].uid = req[r].uid /\ req'[r].email = req[r].email
          /\ req'[r].step \in {"profile", "sync"}
        BY <1>1, <2>3 DEF Call
    <2> QED BY <2>1, <2>2, <2>4 DEF Late, Inserting
<1>10. CASE UpsertProfile(r)
    BY <1>1, <1>5, <1>10 DEF UpsertProfile, At, Late, Inserting, Step
<1>11. CASE Emit(r)
    <2>1. req[r].endpoint = "register" /\ req[r].step = "emit" /\ GoTo(r, "commit")
        BY <1>1, <1>11 DEF Emit, At, Shape, Endpoint
    <2> QED BY <1>5, <2>1 DEF Late, Inserting, Step
<1>12. CASE Sync(r) /\ ~Fails(r)
    <2>1. req[r].endpoint = "create_user" /\ GoTo(r, "commit")
        BY <1>1, <1>12 DEF Sync, At, Shape, Endpoint
    <2> QED BY <1>5, <2>1 DEF Late, Inserting, Step
<1>13. CASE DeleteProfile(r)
    BY <1>5, <1>13 DEF DeleteProfile, At, Late, Inserting, Step
<1>14. CASE DeleteIdentity(r) /\ ~Fails(r)
    <2>1. /\ req[r].endpoint = "delete_user" /\ req[r].step = "identity"
          /\ GoTo(r, "delete") /\ Remove(r)
        BY <1>1, <1>14 DEF DeleteIdentity, At, Shape, Endpoint
    <2> QED BY <1>5, <1>14, <2>1 DEF Late, Inserting, Step
<1>15. CASE DeleteRow(r)
    <2>1. req[r].endpoint = "delete_user" /\ req[r].step = "delete"
        BY <1>1, <1>15 DEF DeleteRow, At, Shape, Endpoint
    <2>2. /\ req'[r].endpoint = req[r].endpoint /\ req'[r].step = "commit"
          /\ req'[r].uid = req[r].uid /\ req'[r].email = req[r].email
          /\ req'[r].id = req[r].id /\ req'[r].pending
        BY <1>1, <1>15 DEF DeleteRow, Call
    <2> QED BY <2>1, <2>2 DEF Late, Inserting
<1>16. Raise(r) => Fails(r)
    BY DEF Raise
<1> QED BY <1>2, <1>4, <1>7, <1>8, <1>9, <1>10, <1>11, <1>12, <1>13, <1>14, <1>15, <1>16,
        Locality DEF Acts

\* An identity is new, or was there before; it goes when a request removes it.
LEMMA Identities ==
    ASSUME Sound, [Next]_vars, NEW uid \in 1..uids
    PROVE  /\ Exists(uid)' => Exists(uid)
           /\ Exists(uid) => \/ Exists(uid)'
                             \/ \E r \in Request :
                                /\ Compensate(r) \/ DeleteIdentity(r)
                                /\ Remove(r) /\ req[r].uid = uid
<1>1. /\ identities \in [Email -> Uid \cup {NoUid}] /\ uid \in Uid /\ uid # NoUid /\ uid # uids + 1
    BY BoundsAssumption, AbsentAssumption DEF Sound, TypeOK, Uid
<1>2. CASE UNCHANGED identities
    BY <1>2 DEF Exists
<1>3. ASSUME NEW e \in Email, identities[e] = NoUid,
             identities' = [identities EXCEPT ![e] = uids + 1]
      PROVE  Exists(uid)' <=> Exists(uid)
    BY <1>1, <1>3 DEF Exists
<1>4. ASSUME NEW r \in Request, Compensate(r) \/ DeleteIdentity(r), Remove(r)
      PROVE  /\ Exists(uid)' => Exists(uid)
             /\ Exists(uid) /\ ~Exists(uid)' => req[r].uid = uid
    BY <1>1, <1>4 DEF Exists, Remove, Without
<1>5. \/ UNCHANGED identities
      \/ \E e \in Email : identities[e] = NoUid /\ identities' = [identities EXCEPT ![e] = uids + 1]
      \/ \E r \in Request : (Compensate(r) \/ DeleteIdentity(r)) /\ Remove(r)
    <2>1. CASE UNCHANGED vars
        BY <2>1 DEF vars
    <2>2. CASE \E e \in Email : SignUp(e)
        BY <2>2 DEF SignUp
    <2>3. ASSUME NEW r \in Request, HandlerStep(r)
          PROVE  \/ UNCHANGED identities
                 \/ \E e \in Email : identities[e] = NoUid /\ identities' = [identities EXCEPT ![e] = uids + 1]
                 \/ (Compensate(r) \/ DeleteIdentity(r)) /\ Remove(r)
        BY <2>3 DEF HandlerStep, Register, Lookup, Insert, UpsertProfile, Emit, CreateUser, Sync,
            Compensate, DeleteUser, DeleteProfile, DeleteIdentity, DeleteRow, Commit, Raise, Break
    <2> QED BY <2>1, <2>2, <2>3 DEF Next
<1> QED BY <1>2, <1>3, <1>4, <1>5

LEMMA Removing ==
    ASSUME Sound, NEW r \in Request, Remove(r), NEW uid \in Uid, req[r].uid = uid
    PROVE  ~Exists(uid)'
BY AbsentAssumption DEF Remove, Without, Exists

\* What a request is when it begins.
LEMMA Beginning ==
    ASSUME Sound, [Next]_vars, NEW r \in Request, req[r] = NoCall, req'[r] # NoCall
    PROVE  /\ ~Inserting(r)' /\ ~Late(r)' /\ rows' = rows
           /\ \/ /\ req'[r].endpoint \in {"register", "create_user"}
                 /\ \E e \in Email : identities'[e] = req'[r].uid /\ req'[r].email = e
              \/ /\ req'[r].endpoint = "delete_user" /\ req'[r].step = "profile"
                 /\ req'[r].id \in accounts
                 /\ \E row \in rows : row = RowOf(req'[r])
<1>1. Register(r) \/ CreateUser(r) \/ DeleteUser(r)
    <2>1. CASE UNCHANGED vars \/ \E e \in Email : SignUp(e)
        BY <2>1 DEF vars, SignUp
    <2>2. ASSUME NEW p \in Request, HandlerStep(p), p # r
          PROVE  FALSE
        <3>1. CASE Commit(p)
            BY <2>2, <3>1 DEF Commit, End, Sound, TypeOK
        <3>2. CASE ~Commit(p)
            <4>1. Aside \/ \E c \in Call \cup {NoCall} : Becomes(p, c)
                BY <2>2, <3>2, Admissions, Steps DEF HandlerStep
            <4> QED BY <2>2, <4>1 DEF Aside, Becomes, Sound, TypeOK
        <3> QED BY <3>1, <3>2
    <2>3. CASE HandlerStep(r)
        BY <2>3 DEF HandlerStep, Lookup, Insert, UpsertProfile, Emit, Sync, Compensate,
            DeleteProfile, DeleteIdentity, DeleteRow, Commit, Raise, Break, At
    <2> QED BY <2>1, <2>2, <2>3 DEF Next
<1>2. rows' = rows /\ req \in [Request -> Call \cup {NoCall}]
      /\ identities \in [Email -> Uid \cup {NoUid}]
    BY <1>1 DEF Register, CreateUser, DeleteUser, Sound, TypeOK
<1>3. CASE Register(r)
    <2>1. PICK e \in Email :
            /\ identities[e] # NoUid
            /\ req' = [req EXCEPT ![r] =
                    [endpoint |-> "register", step |-> "lookup", email |-> e,
                     uid |-> identities[e], id |-> NoId, pending |-> FALSE]]
        BY <1>3 DEF Register
    <2>2. /\ req'[r].endpoint = "register" /\ ~req'[r].pending
          /\ req'[r].uid = identities[e] /\ req'[r].email = e
        BY <1>2, <2>1
    <2>3. identities' = identities
        BY <1>3 DEF Register
    <2> QED BY <1>2, <2>2, <2>3 DEF Exists, Inserting, Late
<1>4. CASE CreateUser(r)
    <2>1. PICK e \in Email :
            /\ identities' = [identities EXCEPT ![e] = uids']
            /\ req' = [req EXCEPT ![r] =
                        [endpoint |-> "create_user", step |-> "insert", email |-> e,
                         uid |-> uids', id |-> NoId, pending |-> FALSE]]
        BY <1>4 DEF CreateUser
    <2>2. /\ req'[r].endpoint = "create_user" /\ ~req'[r].pending
          /\ req'[r].uid = uids' /\ req'[r].email = e /\ identities'[e] = uids'
        BY <1>2, <2>1
    <2> QED BY <1>2, <2>2 DEF Exists, Inserting, Late
<1>5. CASE DeleteUser(r)
    <2>1. PICK row \in rows :
            req' = [req EXCEPT ![r] =
            [endpoint |-> "delete_user", step |-> "profile", email |-> row.email,
             uid |-> row.uid, id |-> row.id, pending |-> FALSE]]
        BY <1>5 DEF DeleteUser
    <2>2. /\ req'[r].endpoint = "delete_user" /\ ~req'[r].pending
          /\ req'[r].step = "profile" /\ req'[r].email = row.email
          /\ req'[r].uid = row.uid /\ req'[r].id = row.id
        BY <1>2, <2>1
    <2>3. row \in Row /\ row.id \in accounts
        BY DEF Sound, TypeOK
    <2>4. row = RowOf(req'[r])
        BY <2>2, <2>3 DEF RowOf, Row
    <2> QED BY <1>2, <2>2, <2>3, <2>4 DEF Inserting, Late
<1> QED BY <1>1, <1>3, <1>4, <1>5

\* Rows change by commits alone.
LEMMA Rows ==
    ASSUME Sound, [Next]_vars
    PROVE  \/ rows' = rows
           \/ \E r \in Request :
                /\ Commit(r) /\ Inserting(r) /\ rows' = rows \cup {RowOf(req[r])}
           \/ \E r \in Request :
                /\ Commit(r) /\ Late(r) /\ rows' = rows \ {RowOf(req[r])}
<1>1. ASSUME NEW r \in Request, Commit(r)
      PROVE  \/ rows' = rows
             \/ Inserting(r) /\ rows' = rows \cup {RowOf(req[r])}
             \/ Late(r) /\ rows' = rows \ {RowOf(req[r])}
    BY <1>1 DEF Commit, At, Inserting, Late
<1>2. UNCHANGED vars \/ Aside \/ (\E r \in Request : \E c \in Call \cup {NoCall} : Becomes(r, c))
        => rows' = rows
    BY DEF vars, Aside, Becomes
<1> QED BY <1>1, <1>2, StepCases

LEMMA Histories ==
    ASSUME Sound, [Next]_vars
    PROVE  /\ abandoned \subseteq abandoned' /\ stranded \subseteq stranded'
           /\ orphaned \subseteq orphaned' /\ accounts \subseteq accounts'
           /\ \A uid \in provisioned' \ provisioned :
                \/ uid \in abandoned'
                \/ \E r \in Request : /\ req'[r] # NoCall
                                     /\ req'[r].endpoint = "create_user"
                                     /\ req'[r].uid = uid
<1>1. CASE UNCHANGED vars
    BY <1>1 DEF vars
<1>2. CASE \E e \in Email : SignUp(e)
    BY <1>2 DEF SignUp, registry
<1>3. ASSUME NEW r \in Request, CreateUser(r)
      PROVE  /\ UNCHANGED <<stranded, orphaned, accounts>>
             /\ \/ UNCHANGED <<abandoned, provisioned>>
                \/ /\ provisioned' = provisioned \cup {uids'}
                   /\ \/ abandoned' = abandoned \cup {uids'}
                      \/ /\ abandoned' = abandoned /\ req'[r] # NoCall
                         /\ req'[r].endpoint = "create_user" /\ req'[r].uid = uids'
    <2>1. UNCHANGED <<stranded, orphaned, accounts>>
        BY <1>3 DEF CreateUser, registry
    <2>2. ASSUME UNCHANGED abandoned, provisioned' # provisioned
          PROVE  /\ provisioned' = provisioned \cup {uids'} /\ req'[r] # NoCall
                 /\ req'[r].endpoint = "create_user" /\ req'[r].uid = uids'
        <3>1. PICK e \in Email :
            /\ uids < MaxUids /\ uids' = uids + 1
            /\ provisioned' = provisioned \cup {uids'}
            /\ \/ req' = [req EXCEPT ![r] =
                        [endpoint |-> "create_user", step |-> "insert", email |-> e,
                         uid |-> uids', id |-> NoId, pending |-> FALSE]]
               \/ abandoned' = abandoned \cup {uids'}
            BY <1>3, <2>2 DEF CreateUser
        <3>2. abandoned \subseteq 1..uids /\ provisioned \subseteq 1..uids /\ uids \in Nat
            BY BoundsAssumption DEF Sound, TypeOK
        <3>3. uids' \notin abandoned
            BY <3>1, <3>2
        <3>4. req' = [req EXCEPT ![r] =
                        [endpoint |-> "create_user", step |-> "insert", email |-> e,
                         uid |-> uids', id |-> NoId, pending |-> FALSE]]
            BY <2>2, <3>1, <3>3
        <3> DEFINE c == [endpoint |-> "create_user", step |-> "insert", email |-> e,
                         uid |-> uids', id |-> NoId, pending |-> FALSE]
        <3>5. uids' \in Uid
            BY <3>1, <3>2, BoundsAssumption DEF Uid
        <3>6. c \in Call /\ c.endpoint = "create_user" /\ c.uid = uids'
            BY <3>5 DEF Call, Endpoint, Step
        <3>7. req'[r] = c
            BY <3>4 DEF Sound, TypeOK
        <3> QED BY <3>1, <3>6, <3>7, AbsentAssumption
    <2>3. UNCHANGED abandoned \/ /\ abandoned' = abandoned \cup {uids'}
                                 /\ provisioned' = provisioned \cup {uids'}
        BY <1>3 DEF CreateUser
    <2> QED BY <2>1, <2>2, <2>3
<1>4. ASSUME NEW r \in Request, HandlerStep(r), ~CreateUser(r)
      PROVE  /\ abandoned \subseteq abandoned' /\ stranded \subseteq stranded'
             /\ orphaned \subseteq orphaned' /\ accounts \subseteq accounts'
             /\ provisioned' = provisioned
    BY <1>4 DEF HandlerStep, Register, Lookup, Insert, UpsertProfile, Emit, Sync, Remove,
        Compensate, DeleteUser, DeleteProfile, DeleteIdentity, DeleteRow, Commit, Raise, Break,
        Strand, registry
<1> QED BY <1>1, <1>2, <1>3, <1>4 DEF Next

(***************************************************************************)
(* Creations and deletions that break off                                  *)
(***************************************************************************)

Creating(uid) ==
    \E r \in Request : /\ req[r] # NoCall
                      /\ req[r].endpoint = "create_user"
                      /\ req[r].uid = uid

\* What a deletion has removed does not come back: Firebase gives every identity a
\* new uid.
Removed == \A r \in Request : Late(r) => ~Exists(req[r].uid)

LEMMA StaysRemoved ==
    ASSUME Sound, [Next]_vars, Removed
    PROVE  Removed'
<1> SUFFICES ASSUME NEW r \in Request, Late(r)'
             PROVE  ~\E e \in Email : identities'[e] = req'[r].uid
    BY DEF Removed, Exists
<1>1. req'[r] # NoCall
    BY DEF Late
<1>2. req[r] # NoCall
    BY <1>1, Beginning
<1>3. req'[r].uid = req[r].uid /\ (Late(r) \/ (DeleteIdentity(r) /\ Remove(r)))
    BY <1>1, <1>2, Staying
<1>4. PICK uid \in 1..uids : uid = req[r].uid /\ uid \in Uid
    BY <1>2 DEF Sound, TypeOK, Known, Call
<1>5. CASE Late(r)
    <2>1. ~Exists(uid)
        BY <1>4, <1>5 DEF Removed
    <2>2. ~Exists(uid)'
        BY <1>4, <2>1, Identities
    <2> QED BY <1>3, <1>4, <2>2 DEF Exists
<1>6. CASE Remove(r)
    <2>1. ~Exists(uid)'
        BY <1>4, <1>6, Removing
    <2> QED BY <1>3, <1>4, <2>1 DEF Exists
<1> QED BY <1>3, <1>5, <1>6

LEMMA StaysTogether ==
    ASSUME Sound, [Next]_vars, Removed, ProvisionedTogether
    PROVE  ProvisionedTogether'
<1> SUFFICES ASSUME NEW uid \in provisioned', Exists(uid)'
             PROVE  \/ \E row \in rows' : row.uid = uid
                    \/ uid \in abandoned'
                    \/ Creating(uid)'
    BY DEF ProvisionedTogether, Creating
<1>1. CASE uid \notin provisioned
    BY <1>1, Histories DEF Creating
<1>2. CASE uid \in provisioned
    <2>1. uid \in 1..uids /\ uid \in Uid
        BY <1>2, BoundsAssumption DEF Sound, TypeOK, Uid
    <2>2. Exists(uid)
        BY <2>1, Identities
    <2>3. CASE \E row \in rows : row.uid = uid
        <3>1. PICK row \in rows : row.uid = uid
            BY <2>3
        <3>2. ASSUME NEW r \in Request, Late(r), row = RowOf(req[r])
              PROVE  FALSE
            BY <2>2, <3>1, <3>2 DEF Removed, RowOf
        <3>3. row \in rows'
            BY <3>2, Rows
        <3> QED BY <3>1, <3>3
    <2>4. CASE uid \in abandoned
        BY <2>4, Histories
    <2>5. CASE Creating(uid)
        <3>1. PICK r \in Request : /\ req[r] # NoCall
                                  /\ req[r].endpoint = "create_user"
                                  /\ req[r].uid = uid
            BY <2>5 DEF Creating
        <3>2. CASE req'[r] # NoCall
            BY <3>1, <3>2, Staying DEF Creating
        <3>3. CASE req'[r] = NoCall /\ Commit(r)
            <4>1. req[r].pending
                BY <3>1, <3>3 DEF Commit, At, Sound, Shapes, Shape
            <4>2. RowOf(req[r]) \in rows' /\ RowOf(req[r]).uid = uid
                BY <3>1, <3>3, <4>1 DEF Commit, RowOf
            <4> QED BY <4>2
        <3>4. CASE req'[r] = NoCall /\ Break(r)
            BY <3>1, <3>4 DEF Break
        <3>5. CASE req'[r] = NoCall /\ Compensate(r)
            <4>1. ~Remove(r)
                BY <2>1, <3>1, Removing
            <4> QED BY <3>1, <3>5, <4>1 DEF Compensate
        <3> QED BY <3>1, <3>2, <3>3, <3>4, <3>5, Ending
    <2> QED BY <1>2, <2>2, <2>3, <2>4, <2>5 DEF ProvisionedTogether, Creating
<1> QED BY <1>1, <1>2

\* However creations by administrators break off and whoever deletes what they
\* created: only identities that no code of the handler could take back are left
\* without a row.
THEOREM ProvisionsTogether == Spec => []ProvisionedTogether
<1>1. Init => Removed /\ ProvisionedTogether
    BY DEF Init, Removed, Late, ProvisionedTogether
<1>2. Sound /\ Removed /\ ProvisionedTogether /\ [Next]_vars
        => Removed' /\ ProvisionedTogether'
    BY StaysRemoved, StaysTogether
<1> QED BY <1>1, <1>2, SoundInvariant, PTL DEF Spec

\* A request that may yet insert a row has its identity.
Identified == \A r \in Request : req[r] # NoCall /\ req[r].endpoint # "delete_user" =>
    Exists(req[r].uid) \/ req[r].uid \in stranded

\* A deletion is about the committed row of its identity, unless that has gone, and
\* then the identity has as well.
Targeted == \A r \in Request : req[r] # NoCall /\ req[r].endpoint = "delete_user" =>
    \/ RowOf(req[r]) \in rows
    \/ req[r].uid \in stranded
    \/ ~Exists(req[r].uid) /\ \A row \in rows : row.uid # req[r].uid

\* As DeletionCanBeRetried, with deletions that have removed the identity.
Retriable == \A row \in rows :
    \/ Exists(row.uid) \/ row.uid \in stranded
    \/ \E r \in Request : Late(r) /\ req[r].uid = row.uid

LEMMA StaysIdentified ==
    ASSUME Sound, [Next]_vars, Identified
    PROVE  Identified'
<1> SUFFICES ASSUME NEW r \in Request, req'[r] # NoCall, req'[r].endpoint # "delete_user"
             PROVE  (\E e \in Email : identities'[e] = req'[r].uid) \/ req'[r].uid \in stranded'
    BY DEF Identified, Exists
<1>1. CASE req[r] = NoCall
    BY <1>1, Beginning
<1>2. CASE req[r] # NoCall
    <2>1. PICK uid \in 1..uids : uid = req[r].uid
        BY <1>2 DEF Sound, Known
    <2>2. req'[r].uid = uid /\ req[r].endpoint # "delete_user"
        BY <1>2, <2>1, Staying
    <2>3. Exists(uid) \/ uid \in stranded
        BY <1>2, <2>1, <2>2 DEF Identified
    <2>4. ASSUME NEW p \in Request, Remove(p), req[p].uid = uid,
                 Compensate(p) \/ DeleteIdentity(p)
          PROVE  uid \in stranded'
        <3>1. CASE p = r
            <4>1. ~Compensate(r)
                BY DEF Compensate, End, Sound, TypeOK
            <4>2. ~DeleteIdentity(r)
                BY <1>2, <2>2 DEF DeleteIdentity, At, Sound, Shapes, Shape, TypeOK, Call, Endpoint
            <4> QED BY <2>4, <3>1, <4>1, <4>2
        <3>2. CASE p # r
            BY <1>2, <2>1, <2>4, <3>2 DEF Remove, Shared
        <3> QED BY <3>1, <3>2
    <2>5. Exists(uid)' \/ uid \in stranded'
        BY <2>1, <2>3, <2>4, Identities, Histories
    <2> QED BY <2>2, <2>5 DEF Exists
<1> QED BY <1>1, <1>2

LEMMA StaysTargeted ==
    ASSUME Sound, [Next]_vars, Removed, Identified, Targeted
    PROVE  Targeted'
<1> SUFFICES ASSUME NEW r \in Request, req'[r] # NoCall, req'[r].endpoint = "delete_user"
             PROVE  \/ RowOf(req'[r]) \in rows'
                    \/ req'[r].uid \in stranded'
                    \/ /\ ~\E e \in Email : identities'[e] = req'[r].uid
                       /\ \A row \in rows' : row.uid # req'[r].uid
    BY DEF Targeted, Exists, RowOf
<1>1. CASE req[r] = NoCall
    BY <1>1, Beginning
<1>2. CASE req[r] # NoCall
    <2>1. PICK uid \in 1..uids : uid = req[r].uid
        BY <1>2 DEF Sound, Known
    <2>2. /\ req'[r].uid = uid /\ req[r].endpoint = "delete_user"
          /\ RowOf(req'[r]) = RowOf(req[r]) /\ RowOf(req[r]).uid = uid
        BY <1>2, <2>1, Staying DEF RowOf
    <2>3. \/ RowOf(req[r]) \in rows \/ uid \in stranded
          \/ ~Exists(uid) /\ \A row \in rows : row.uid # uid
        BY <1>2, <2>1, <2>2 DEF Targeted
    <2>4. CASE uid \in stranded
        BY <2>2, <2>4, Histories
    <2>5. CASE RowOf(req[r]) \in rows
        <3>1. CASE RowOf(req[r]) \in rows'
            BY <2>2, <3>1
        <3>2. CASE RowOf(req[r]) \notin rows'
            <4>1. PICK p \in Request : Late(p) /\ rows' = rows \ {RowOf(req[r])}
                                        /\ RowOf(req[p]) = RowOf(req[r])
                BY <2>5, <3>2, Rows
            <4>2. ~Exists(uid)
                BY <2>2, <4>1 DEF Removed, RowOf
            <4>3. ~Exists(uid)'
                BY <2>1, <4>2, Identities
            <4>4. \A row \in rows' : row.uid # uid
                BY <2>2, <2>5, <4>1 DEF Sound, UniqueAccounts
            <4> QED BY <2>2, <4>3, <4>4 DEF Exists
        <3> QED BY <3>1, <3>2
    <2>6. CASE ~Exists(uid) /\ \A row \in rows : row.uid # uid
        <3>1. ~Exists(uid)'
            BY <2>1, <2>6, Identities
        <3>2. CASE \A row \in rows' : row.uid # uid
            BY <2>2, <3>1, <3>2 DEF Exists
        <3>3. ASSUME NEW row \in rows', row.uid = uid
              PROVE  uid \in stranded'
            <4>1. PICK q \in Request : Inserting(q) /\ row = RowOf(req[q])
                BY <2>6, <3>3, Rows
            <4>2. req[q].uid = uid
                BY <3>3, <4>1 DEF RowOf
            <4>3. uid \in stranded
                BY <2>6, <4>1, <4>2 DEF Identified, Inserting
            <4> QED BY <4>3, Histories
        <3> QED BY <2>2, <3>2, <3>3
    <2> QED BY <2>3, <2>4, <2>5, <2>6
<1> QED BY <1>1, <1>2

LEMMA StaysRetriable ==
    ASSUME Sound, [Next]_vars, Identified, Targeted, Retriable
    PROVE  Retriable'
<1> SUFFICES ASSUME NEW row \in rows', NEW uid, row.uid = uid
             PROVE  \/ Exists(uid)' \/ uid \in stranded'
                    \/ \E r \in Request : Late(r)' /\ req'[r].uid = uid
    BY DEF Retriable, Exists
<1>1. CASE row \notin rows
    <2>1. PICK q \in Request : Commit(q) /\ Inserting(q) /\ row = RowOf(req[q])
        BY <1>1, Rows
    <2>2. req[q].uid = uid
        BY <2>1 DEF RowOf
    <2>3. Exists(uid) \/ uid \in stranded
        BY <2>1, <2>2 DEF Identified, Inserting
    <2>4. Exists(uid)' <=> Exists(uid)
        BY <2>1 DEF Commit, Exists
    <2> QED BY <2>3, <2>4, Histories
<1>2. CASE row \in rows
    <2>1. uid \in 1..uids /\ uid \in Uid
        BY <1>2, BoundsAssumption DEF Sound, TypeOK, Known, Row
    <2>2. CASE Exists(uid)
        <3>1. ASSUME NEW p \in Request, Compensate(p) \/ DeleteIdentity(p), Remove(p),
                     req[p].uid = uid
              PROVE  uid \in stranded' \/ (Late(p)' /\ req'[p].uid = uid)
            <4>1. CASE Compensate(p)
                <5>1. req[p].endpoint = "create_user"
                    BY <4>1 DEF Compensate, At, Sound, Shapes, Shape, TypeOK, Call, Endpoint
                <5>2. Overtaken(p)
                    BY <1>2, <3>1, <5>1 DEF Overtaken
                <5> QED BY <3>1, <5>2 DEF Remove
            <4>2. CASE DeleteIdentity(p)
                <5>1. req[p] # NoCall /\ req[p] \in Call /\ req[p].endpoint = "delete_user"
                    BY <4>2 DEF DeleteIdentity, At, Sound, Shapes, Shape, TypeOK, Call, Endpoint
                <5>2. GoTo(p, "delete")
                    <6>1. Exists(req[p].uid)
                        BY <2>2, <3>1
                    <6> QED BY <4>2, <6>1 DEF DeleteIdentity
                <5>3. req'[p] = [req[p] EXCEPT !.step = "delete"]
                    BY <5>2 DEF GoTo, Sound, TypeOK
                <5>4. [req[p] EXCEPT !.step = "delete"] \in Call
                    BY <5>1 DEF Call, Step
                <5>5. /\ req'[p].endpoint = "delete_user" /\ req'[p].step = "delete"
                      /\ req'[p].uid = uid /\ req'[p] # NoCall
                    BY <3>1, <5>1, <5>3, <5>4, AbsentAssumption DEF Call
                <5> QED BY <5>5 DEF Late
            <4> QED BY <3>1, <4>1, <4>2
        <3> QED BY <2>1, <2>2, <3>1, Identities
    <2>3. CASE uid \in stranded
        BY <2>3, Histories
    <2>4. ASSUME NEW r \in Request, Late(r), req[r].uid = uid
          PROVE  uid \in stranded' \/ (Late(r)' /\ req'[r].uid = uid)
        <3>1. CASE req'[r] # NoCall
            BY <2>4, <3>1, Staying DEF Late
        <3>2. CASE req'[r] = NoCall /\ Commit(r)
            <4>1. rows' = rows \ {RowOf(req[r])}
                BY <2>4, <3>2 DEF Late, Commit, At, Sound, Shapes, Shape
            <4>2. RowOf(req[r]).uid = uid
                BY <2>4 DEF RowOf
            <4>3. RowOf(req[r]) \notin rows
                BY <1>2, <4>1, <4>2 DEF Sound, UniqueAccounts
            <4>4. uid \in stranded
                BY <1>2, <2>4, <4>3 DEF Targeted, Late
            <4> QED BY <4>4, Histories
        <3>3. CASE req'[r] = NoCall /\ (Break(r) \/ Raise(r))
            BY <2>4, <3>3 DEF Late, Break, Raise, Strand
        <3> QED BY <2>4, <3>1, <3>2, <3>3, Ending DEF Late
    <2> QED BY <1>2, <2>2, <2>3, <2>4 DEF Retriable
<1> QED BY <1>1, <1>2

\* However deletions fail, and whatever else happens to the account meanwhile: its
\* row can be deleted by another try, or the identity went under another request
\* or in a deletion that failed after it.
THEOREM DeletionsAreRetriable == Spec => []DeletionCanBeRetried
<1>1. Init => Removed /\ Identified /\ Targeted /\ Retriable
    BY DEF Init, Removed, Late, Identified, Targeted, Retriable
<1>2. Sound /\ Removed /\ Identified /\ Targeted /\ Retriable /\ [Next]_vars
        => Removed' /\ Identified' /\ Targeted' /\ Retriable'
    BY StaysRemoved, StaysIdentified, StaysTargeted, StaysRetriable
<1>3. Retriable => DeletionCanBeRetried
    BY DEF Retriable, DeletionCanBeRetried, Late
<1> QED BY <1>1, <1>2, <1>3, SoundInvariant, PTL DEF Spec

(***************************************************************************)
(* Documents and events that a registration writes before its commit       *)
(***************************************************************************)

\* A registration whose row is not committed yet, by that row's key.
Registering(id) ==
    \E r \in Request : /\ req[r] # NoCall /\ req[r].endpoint = "register"
                      /\ req[r].pending /\ req[r].id = id

\* The registration has written nothing of its row yet.
Unwritten(r) == Inserting(r) /\ req[r].endpoint = "register" /\ req[r].step = "profile"

Written ==
    /\ profiles \subseteq 1..ids /\ announced \subseteq 1..ids
    /\ \A r \in Request : Unwritten(r) => req[r].id \notin profiles \cup announced
    /\ \A r \in Request :
        req[r] # NoCall /\ req[r].endpoint = "delete_user" /\ req[r].step # "profile" =>
            req[r].id \notin profiles \/ req[r].id \in orphaned
    /\ \A id \in profiles :
        (\E row \in rows : row.id = id) \/ Registering(id) \/ id \in orphaned
    /\ \A id \in announced : id \in accounts \/ Registering(id) \/ id \in orphaned

LEMMA Writers ==
    ASSUME Sound, [Next]_vars, NEW q \in Request, UpsertProfile(q) \/ Emit(q)
    PROVE  /\ req[q] # NoCall /\ req[q].endpoint = "register" /\ req[q].id \in 1..ids
           /\ req[q].pending => Inserting(q) /\ req[q].id \notin accounts
           /\ ~req[q].pending => req[q].id \in accounts
           /\ req'[q] # NoCall /\ req'[q].step # "profile"
           /\ UpsertProfile(q) => req[q].step = "profile"
           /\ Emit(q) => req[q].step = "emit"
           /\ rows' = rows
<1>1. /\ req[q] # NoCall /\ req[q] \in Call /\ Shape(req[q]) /\ req[q].endpoint \in Endpoint
      /\ rows' = rows
      /\ UpsertProfile(q) => req[q].step = "profile"
      /\ Emit(q) => req[q].step = "emit"
    BY DEF UpsertProfile, Emit, At, Sound, TypeOK, Shapes, Call
<1>2. req[q].endpoint = "register" /\ req[q].id \in Id
    BY <1>1 DEF UpsertProfile, Shape, Endpoint
<1>3. /\ req[q].pending => Inserting(q) /\ req[q].id \in (1..ids) \ accounts
      /\ ~req[q].pending => req[q].id \in accounts
    BY <1>1, <1>2, AbsentAssumption DEF Sound, Separate, Known, Inserting
<1>4. ASSUME NEW step \in Step \ {"profile"}, GoTo(q, step)
      PROVE  req'[q] # NoCall /\ req'[q].step # "profile"
    <2>1. req'[q] = [req[q] EXCEPT !.step = step] /\ [req[q] EXCEPT !.step = step] \in Call
        BY <1>1, <1>4 DEF GoTo, Sound, TypeOK, Call
    <2>2. [req[q] EXCEPT !.step = step].step = step
        BY <1>1 DEF Call
    <2> QED BY <2>1, <2>2, AbsentAssumption
<1>5. req'[q] # NoCall /\ req'[q].step # "profile"
    BY <1>4 DEF UpsertProfile, Emit, Step
<1>6. accounts \subseteq 1..ids
    BY DEF Sound, TypeOK
<1> QED BY <1>1, <1>2, <1>3, <1>5, <1>6

LEMMA Writes ==
    ASSUME Sound, [Next]_vars
    PROVE  /\ \/ profiles' \subseteq profiles
              \/ \E q \in Request : UpsertProfile(q) /\ profiles' \subseteq profiles \cup {req[q].id}
           /\ \/ announced' = announced
              \/ \E q \in Request : Emit(q) /\ announced' \subseteq announced \cup {req[q].id}
           /\ ids' \in Nat /\ ids \in Nat /\ ids <= ids'
<1>1. CASE UNCHANGED vars \/ \E e \in Email : SignUp(e)
    BY <1>1, BoundsAssumption DEF vars, SignUp, Sound, TypeOK
<1>2. ASSUME NEW r \in Request, HandlerStep(r)
      PROVE  /\ profiles' \subseteq profiles
                \/ (UpsertProfile(r) /\ profiles' \subseteq profiles \cup {req[r].id})
             /\ announced' = announced
                \/ (Emit(r) /\ announced' \subseteq announced \cup {req[r].id})
    BY <1>2 DEF HandlerStep, Register, Lookup, Insert, UpsertProfile, Emit, CreateUser, Sync,
        Compensate, DeleteUser, DeleteProfile, ProfilesWithout, DeleteIdentity, DeleteRow,
        Commit, Raise, Break
<1>3. ids \in Nat /\ (ids' = ids \/ ids' = ids + 1)
    BY StepCases, BoundsAssumption DEF vars, Aside, Commit, Becomes, Sound, TypeOK
<1> QED BY <1>1, <1>2, <1>3 DEF Next

\* A registration that has written ends in a row, or in orphaned.
LEMMA Registrations ==
    ASSUME Sound, [Next]_vars, NEW id, Registering(id), Written, id \in profiles \cup announced
    PROVE  \/ Registering(id)' \/ id \in orphaned'
           \/ id \in accounts' /\ \E row \in rows' : row.id = id
<1>1. PICK r \in Request : /\ req[r] # NoCall /\ req[r].endpoint = "register"
                          /\ req[r].pending /\ req[r].id = id
    BY DEF Registering
<1>2. CASE req'[r] # NoCall
    BY <1>1, <1>2, Staying DEF Registering
<1>3. CASE req'[r] = NoCall
    <2>1. Shape(req[r]) /\ req[r] \in Call /\ Inserting(r)
        BY <1>1 DEF Sound, TypeOK, Shapes, Inserting
    <2>2. req[r].step \in {"profile", "emit", "commit"}
        BY <1>1, <2>1, AbsentAssumption DEF Shape
    <2>3. req[r].step # "profile"
        BY <1>1, <2>1 DEF Written, Unwritten
    <2>4. Commit(r) \/ Break(r) \/ Raise(r)
        <3>1. ~Compensate(r)
            BY <2>2 DEF Compensate, At
        <3> QED BY <1>1, <1>3, <2>1, <3>1, Ending
    <2>5. CASE Commit(r)
        <3>1. RowOf(req[r]) \in rows' /\ RowOf(req[r]).id = id
            BY <1>1, <2>5 DEF Commit, RowOf
        <3>2. accounts' = accounts \cup {row.id : row \in rows'}
            BY <2>5 DEF Commit
        <3> QED BY <3>1, <3>2
    <2>6. CASE Break(r) \/ Raise(r)
        BY <1>1, <2>2, <2>3, <2>6 DEF Break, Raise, Strand
    <2> QED BY <2>4, <2>5, <2>6
<1> QED BY <1>2, <1>3

LEMMA StaysWritten ==
    ASSUME Sound, [Next]_vars, Written
    PROVE  Written'
<1>1. ASSUME NEW id \in profiles' \cup announced', id \notin profiles \cup announced
      PROVE  \E q \in Request : (UpsertProfile(q) \/ Emit(q)) /\ req[q].id = id
    BY <1>1, Writes
<1>2. profiles' \subseteq 1..ids' /\ announced' \subseteq 1..ids'
    <2>1. 1..ids \subseteq 1..ids'
        BY Writes
    <2>2. ASSUME NEW id \in profiles' \cup announced'
          PROVE  id \in 1..ids
        <3>1. CASE id \in profiles \cup announced
            BY <3>1 DEF Written
        <3>2. CASE id \notin profiles \cup announced
            <4>1. PICK q \in Request : (UpsertProfile(q) \/ Emit(q)) /\ req[q].id = id
                BY <1>1, <3>2
            <4> QED BY <4>1, Writers
        <3> QED BY <3>1, <3>2
    <2> QED BY <2>1, <2>2
<1>3. ASSUME NEW r \in Request, Unwritten(r)'
      PROVE  req'[r].id \notin profiles' \cup announced'
    <2>1. req'[r] # NoCall /\ req'[r].endpoint = "register" /\ req'[r].step = "profile"
          /\ Inserting(r)'
        BY <1>3 DEF Unwritten, Inserting
    <2>2. req[r] # NoCall
        BY <2>1, Beginning
    <2>3. CASE ~Inserting(r)
        <3>1. req'[r].id = ids + 1
            BY <2>1, <2>2, <2>3, Staying
        <3>2. ids + 1 \notin 1..ids
            BY Writes
        <3> QED BY <1>1, <3>1, <3>2, Writers DEF Written
    <2>4. CASE Inserting(r)
        <3>1. /\ req[r].endpoint = "register" /\ req'[r].id = req[r].id
              /\ req[r].step \notin {"emit", "commit"} /\ req[r].pending
            BY <2>1, <2>2, <2>4, Staying DEF Inserting
        <3>2. req[r].step = "profile"
            BY <2>2, <3>1, AbsentAssumption DEF Sound, Shapes, Shape
        <3>3. req[r].id \notin profiles \cup announced
            BY <2>4, <3>1, <3>2 DEF Written, Unwritten
        <3>4. ASSUME NEW q \in Request, UpsertProfile(q) \/ Emit(q)
              PROVE  req[q].id # req[r].id
            <4>1. q # r
                BY <2>1, <3>4, Writers
            <4>2. req[r].id \notin accounts
                BY <2>4 DEF Sound, Separate
            <4>3. CASE Inserting(q)
                BY <2>4, <4>1, <4>3 DEF Sound, Separate
            <4>4. CASE ~Inserting(q)
                BY <3>4, <4>2, <4>4, Writers
            <4> QED BY <4>3, <4>4
        <3> QED BY <1>1, <3>1, <3>3, <3>4
    <2> QED BY <2>3, <2>4
<1>4. ASSUME NEW r \in Request, req'[r] # NoCall, req'[r].endpoint = "delete_user",
             req'[r].step # "profile", req'[r].id \in profiles'
      PROVE  req'[r].id \in orphaned'
    <2>1. req[r] # NoCall
        BY <1>4, Beginning
    <2>2. /\ req[r].endpoint = "delete_user" /\ req'[r].id = req[r].id
          /\ req[r].step # "profile" \/ DeleteProfile(r)
        BY <1>4, <2>1, Staying
    <2>3. ~DeleteProfile(r)
        BY <1>4, <2>2 DEF DeleteProfile, ProfilesWithout
    <2>4. CASE req[r].id \in orphaned
        BY <2>2, <2>4, Histories
    <2>5. CASE req[r].id \notin orphaned
        <3>1. req[r].id \notin profiles
            BY <2>1, <2>2, <2>3, <2>5 DEF Written
        <3>2. PICK q \in Request : UpsertProfile(q) /\ req[q].id = req[r].id
            BY <1>4, <2>2, <3>1, Writes
        <3>3. req[r].id \in accounts
            BY <2>1, <2>2, AbsentAssumption DEF Sound, Known, Inserting, Shapes, Shape
        <3>4. ~req[q].pending
            BY <3>2, <3>3, Writers
        <3>5. Vanishing(q)
            BY <2>1, <2>2, <2>3, <3>2, <3>4 DEF Vanishing
        <3> QED BY <2>2, <3>2, <3>5 DEF UpsertProfile
    <2> QED BY <2>4, <2>5
<1>5. ASSUME NEW id \in profiles'
      PROVE  (\E row \in rows' : row.id = id) \/ Registering(id)' \/ id \in orphaned'
    <2>1. CASE id \in profiles
        <3>1. CASE \E row \in rows : row.id = id
            <4>1. PICK row \in rows : row.id = id
                BY <3>1
            <4>2. CASE row \in rows'
                BY <4>1, <4>2
            <4>3. CASE row \notin rows'
                <5>1. PICK r \in Request : Late(r) /\ row = RowOf(req[r])
                    BY <4>3, Rows
                <5>2. req[r].id = id
                    BY <4>1, <5>1 DEF RowOf
                <5>3. id \in orphaned
                    BY <2>1, <5>1, <5>2 DEF Late, Written
                <5> QED BY <5>3, Histories
            <4> QED BY <4>2, <4>3
        <3>2. CASE Registering(id)
            BY <2>1, <3>2, Registrations
        <3>3. CASE id \in orphaned
            BY <3>3, Histories
        <3> QED BY <2>1, <3>1, <3>2, <3>3 DEF Written
    <2>2. CASE id \notin profiles
        <3>1. PICK q \in Request : UpsertProfile(q) /\ req[q].id = id
            BY <2>2, Writes
        <3>2. CASE req[q].pending
            BY <3>1, <3>2, Writers, Staying DEF Registering
        <3>3. CASE ~req[q].pending /\ Vanishing(q)
            BY <3>1, <3>3 DEF UpsertProfile
        <3>4. CASE ~req[q].pending /\ ~Vanishing(q)
            BY <3>1, <3>4, Writers DEF Vanishing
        <3> QED BY <3>2, <3>3, <3>4
    <2> QED BY <2>1, <2>2
<1>6. ASSUME NEW id \in announced'
      PROVE  id \in accounts' \/ Registering(id)' \/ id \in orphaned'
    <2>1. CASE id \in announced
        <3>1. CASE Registering(id)
            BY <2>1, <3>1, Registrations
        <3> QED BY <2>1, <3>1, Histories DEF Written
    <2>2. CASE id \notin announced
        <3>1. PICK q \in Request : Emit(q) /\ req[q].id = id
            BY <2>2, Writes
        <3>2. CASE req[q].pending
            BY <3>1, <3>2, Writers, Staying DEF Registering
        <3>3. CASE ~req[q].pending
            BY <3>1, <3>3, Writers, Histories
        <3> QED BY <3>2, <3>3
    <2> QED BY <2>1, <2>2
<1> QED BY <1>2, <1>3, <1>4, <1>5, <1>6 DEF Written

\* Documents and events that register writes ahead of its commit are about accounts,
\* unless the registration failed after it wrote them or met a deletion.
THEOREM WritingsAreOfAccounts == Spec => []WrittenOfAccounts
<1>1. Init => Written
    BY DEF Init, Written, Unwritten, Inserting
<1>2. Sound /\ Written /\ [Next]_vars => Written'
    BY StaysWritten
<1>3. Written => WrittenOfAccounts
    BY DEF Written, WrittenOfAccounts, Registering
<1> QED BY <1>1, <1>2, <1>3, SoundInvariant, PTL DEF Spec

(***************************************************************************)
(* The registry of identities and accounts                                 *)
(***************************************************************************)

\* Steps by what they do to the registry: nothing, an identity more, an identity
\* less, a deletion that breaks off, a commit.
LEMMA RegistrySteps ==
    ASSUME Sound, [Next]_vars
    PROVE  \/ UNCHANGED <<identities, uids, rows, accounts, stranded>>
           \/ \E e \in Email :
                /\ identities[e] = NoUid /\ uids < MaxUids
                /\ identities' = [identities EXCEPT ![e] = uids + 1]
                /\ uids' = uids + 1 /\ UNCHANGED <<rows, accounts, stranded>>
           \/ \E r \in Request :
                /\ req[r] # NoCall /\ Remove(r) /\ UNCHANGED <<uids, rows, accounts>>
           \/ \E r \in Request :
                /\ Late(r) /\ stranded' = stranded \cup {req[r].uid}
                /\ UNCHANGED <<identities, uids, rows, accounts>>
           \/ \E r \in Request : Commit(r)
<1>1. CASE UNCHANGED vars
    BY <1>1 DEF vars
<1>2. CASE \E e \in Email : SignUp(e)
    BY <1>2 DEF SignUp, registry
<1>3. ASSUME NEW r \in Request, CreateUser(r)
      PROVE  \/ UNCHANGED <<identities, uids, rows, accounts, stranded>>
             \/ \E e \in Email :
                /\ identities[e] = NoUid /\ uids < MaxUids
                /\ identities' = [identities EXCEPT ![e] = uids + 1]
                /\ uids' = uids + 1 /\ UNCHANGED <<rows, accounts, stranded>>
    BY <1>3 DEF CreateUser, registry
<1>4. ASSUME NEW r \in Request, Compensate(r) \/ DeleteIdentity(r)
      PROVE  \/ UNCHANGED <<identities, uids, rows, accounts, stranded>>
             \/ /\ req[r] # NoCall /\ Remove(r) /\ UNCHANGED <<uids, rows, accounts>>
    BY <1>4 DEF Compensate, DeleteIdentity, At, registry
<1>5. ASSUME NEW r \in Request, Raise(r) \/ Break(r)
      PROVE  \/ UNCHANGED <<identities, uids, rows, accounts, stranded>>
             \/ /\ Late(r) /\ stranded' = stranded \cup {req[r].uid}
                /\ UNCHANGED <<identities, uids, rows, accounts>>
    BY <1>5 DEF Raise, Break, Strand, Late
<1>6. ASSUME NEW r \in Request,
             Register(r) \/ Lookup(r) \/ Insert(r) \/ UpsertProfile(r) \/ Emit(r)
                \/ Sync(r) \/ DeleteUser(r) \/ DeleteProfile(r) \/ DeleteRow(r)
      PROVE  UNCHANGED <<identities, uids, rows, accounts, stranded>>
    BY <1>6 DEF Register, Lookup, Insert, UpsertProfile, Emit, Sync, DeleteUser,
        DeleteProfile, DeleteRow, registry
<1> QED BY <1>1, <1>2, <1>3, <1>4, <1>5, <1>6 DEF Next, HandlerStep

\* An identity belongs to one address, which is that of every request for it.
Addressed ==
    /\ \A e, f \in Email : identities[e] = identities[f] /\ identities[e] # NoUid => e = f
    /\ \A r \in Request : req[r] # NoCall /\ req[r].endpoint # "delete_user" =>
        \A e \in Email : identities[e] = req[r].uid => e = req[r].email

LEMMA IdentitiesFade ==
    ASSUME Sound, [Next]_vars, NEW e \in Email
    PROVE  \/ identities'[e] \in {identities[e], NoUid}
           \/ identities'[e] = uids + 1 /\ uids + 1 # NoUid
              /\ \A f \in Email \ {e} : identities'[f] = identities[f]
<1>1. identities \in [Email -> Uid \cup {NoUid}] /\ uids \in 0..MaxUids
    BY DEF Sound, TypeOK
<1>2. ASSUME NEW f \in Email, uids < MaxUids,
             identities' = [identities EXCEPT ![f] = uids + 1]
      PROVE  \/ identities'[e] = identities[e]
             \/ identities'[e] = uids + 1 /\ uids + 1 # NoUid
              /\ \A g \in Email \ {e} : identities'[g] = identities[g]
    BY <1>1, <1>2, BoundsAssumption, AbsentAssumption DEF Uid
<1>3. ASSUME NEW r \in Request, Remove(r)
      PROVE  identities'[e] \in {identities[e], NoUid}
    BY <1>3 DEF Remove, Without
<1>4. ASSUME NEW r \in Request, Commit(r)
      PROVE  identities' = identities
    BY <1>4 DEF Commit
<1> QED BY <1>2, <1>3, <1>4, RegistrySteps

LEMMA StaysAddressed ==
    ASSUME Sound, [Next]_vars, Addressed
    PROVE  Addressed'
<1>1. \A e \in Email : identities[e] # NoUid => identities[e] # uids + 1
    BY BoundsAssumption DEF Sound, TypeOK, Known
<1>2. ASSUME NEW e \in Email, NEW f \in Email,
             identities'[e] = identities'[f], identities'[e] # NoUid
      PROVE  e = f
    BY <1>1, <1>2, IdentitiesFade DEF Addressed
<1>3. ASSUME NEW r \in Request, req'[r] # NoCall, req'[r].endpoint # "delete_user",
             NEW e \in Email, identities'[e] = req'[r].uid
      PROVE  e = req'[r].email
    <2>1. CASE req[r] = NoCall
        <3>1. PICK f \in Email : identities'[f] = req'[r].uid /\ req'[r].email = f
            BY <1>3, <2>1, Beginning
        <3>2. req'[r].uid # NoUid
            <4>1. Sound'
                BY SoundStep
            <4> QED BY <1>3, <4>1, AbsentAssumption DEF Sound, TypeOK, Call
        <3> QED BY <1>2, <1>3, <3>1, <3>2
    <2>2. CASE req[r] # NoCall
        <3>1. /\ req[r].endpoint # "delete_user"
              /\ req'[r].uid = req[r].uid /\ req'[r].email = req[r].email
            BY <1>3, <2>2, Staying
        <3>2. req[r].uid # NoUid /\ req[r].uid # uids + 1
            BY <2>2, BoundsAssumption, AbsentAssumption DEF Sound, TypeOK, Known, Call
        <3>3. identities[e] = req[r].uid
            BY <1>3, <3>1, <3>2, IdentitiesFade
        <3> QED BY <2>2, <3>1, <3>3 DEF Addressed
    <2> QED BY <2>1, <2>2
<1> QED BY <1>2, <1>3 DEF Addressed

Registered == <<identities, 1..uids, rows, accounts, stranded>>

\* With the identity that a request removes goes the one of its address.
LEMMA RemoveWithdraws ==
    ASSUME Sound, Addressed, NEW r \in Request, req[r] # NoCall, Remove(r),
           UNCHANGED <<uids, rows, accounts>>
    PROVE  UNCHANGED Registered \/ R!OfIdentities
<1> DEFINE uid == req[r].uid
<1>1. identities \in [Email -> Uid \cup {NoUid}] /\ uid \in Uid /\ uid \in 1..uids /\ uid # NoUid
    BY AbsentAssumption DEF Sound, TypeOK, Known, Call
<1>2. /\ identities' = [e \in Email |-> IF identities[e] = uid THEN NoUid ELSE identities[e]]
      /\ stranded' \in {stranded, stranded \cup {uid}}
    BY DEF Remove, Without
<1> HIDE DEF uid
<1>3. ASSUME NEW e \in Email, identities[e] = uid
      PROVE  R!Withdraw(e)
    <2>1. \A f \in Email : identities[f] = uid => f = e
        BY <1>1, <1>3 DEF Addressed
    <2>2. identities' = [identities EXCEPT ![e] = NoUid]
        BY <1>1, <1>2, <1>3, <2>1
    <2> QED BY <1>1, <1>2, <1>3, <2>2 DEF R!Withdraw
<1>4. CASE \A e \in Email : identities[e] # uid
    <2>1. identities' = identities
        BY <1>1, <1>2, <1>4
    <2>2. stranded' = stranded \/ R!Doubt(uid)
        BY <1>1, <1>2, <1>4, <2>1 DEF R!Doubt
    <2> QED BY <1>1, <2>1, <2>2 DEF Registered, R!OfIdentities
<1> QED BY <1>3, <1>4 DEF R!OfIdentities

\* A commit opens the account it has inserted, closes the one it has deleted, or
\* finds that one gone.
LEMMA CommitOpensOrCloses ==
    ASSUME Sound, Addressed, Removed, Identified, NEW r \in Request, Commit(r)
    PROVE  UNCHANGED Registered \/ R!OfAccounts
<1> DEFINE row == RowOf(req[r])
<1>1. /\ req[r] # NoCall /\ req[r] \in Call /\ Shape(req[r]) /\ req[r].step = "commit"
      /\ UNCHANGED <<identities, uids, stranded>>
      /\ accounts' = accounts \cup {w.id : w \in rows'}
      /\ {w.id : w \in rows} \subseteq accounts
    BY DEF Commit, At, Sound, TypeOK, Shapes
<1>2. CASE Inserting(r)
    <2>1. rows' = rows \cup {row}
        BY <1>2 DEF Commit, Inserting
    <2>2. /\ row \in Row /\ row.id = req[r].id /\ row.uid = req[r].uid
          /\ row.email = req[r].email
        BY <1>1, <1>2 DEF RowOf, Row, Call, Inserting, Shape
    <2>3. row.id \notin accounts /\ \A other \in rows : R!Distinct(row, other)
        BY <1>2, <2>2 DEF Sound, Separate, Clashes, R!Distinct
    <2>4. accounts' = accounts \cup {row.id}
        BY <1>1, <2>1
    <2>5. identities[row.email] = row.uid \/ row.uid \in stranded
        BY <1>1, <1>2, <2>2 DEF Identified, Addressed, Exists, Inserting
    <2> HIDE DEF row
    <2>6. R!Open(row)
        BY <1>1, <2>1, <2>3, <2>4, <2>5 DEF R!Open
    <2> QED BY <2>2, <2>6 DEF R!OfAccounts
<1>3. CASE req[r].pending /\ req[r].endpoint = "delete_user"
    <2>1. rows' = rows \ {row}
        BY <1>3 DEF Commit
    <2>2. accounts' = accounts
        BY <1>1, <2>1
    <2>3. \A e \in Email : identities[e] # row.uid
        BY <1>1, <1>3 DEF Removed, Late, Exists, RowOf
    <2>4. row \in rows => row \in Row
        BY DEF Sound, TypeOK
    <2> HIDE DEF row
    <2>5. CASE row \in rows
        <3>1. R!Close(row)
            BY <1>1, <2>1, <2>2, <2>3, <2>5 DEF R!Close
        <3> QED BY <2>4, <2>5, <3>1 DEF R!OfAccounts
    <2>6. CASE row \notin rows
        BY <1>1, <2>1, <2>2, <2>6 DEF Registered
    <2> QED BY <2>5, <2>6
<1>4. CASE ~req[r].pending
    <2>1. rows' = rows
        BY <1>4 DEF Commit
    <2> QED BY <1>1, <2>1 DEF Registered
<1> QED BY <1>1, <1>2, <1>3, <1>4 DEF Inserting

\* The four stores, each handler writing them one after the other, failing and dying
\* anywhere, are one registry: identities and keys are used once, an account opens
\* for the identity of its address and closes after that has gone.
THEOREM ImplementsRegistry == Spec => OneRegistry
<1>1. Init => R!Init /\ Removed /\ Identified /\ Addressed
    BY BoundsAssumption DEF Init, R!Init, Removed, Late, Identified, Addressed
<1>2. Sound /\ Removed /\ Identified /\ Addressed /\ [Next]_vars
        => Removed' /\ Identified' /\ Addressed'
    BY StaysRemoved, StaysIdentified, StaysAddressed
<1>3. Sound /\ Removed /\ Identified /\ Addressed /\ [Next]_vars
        => [R!OfIdentities \/ R!OfAccounts]_Registered
    <2> SUFFICES ASSUME Sound, Removed, Identified, Addressed, [Next]_vars
                 PROVE  UNCHANGED Registered \/ R!OfIdentities \/ R!OfAccounts
        OBVIOUS
    <2>1. CASE UNCHANGED <<identities, uids, rows, accounts, stranded>>
        BY <2>1 DEF Registered
    <2>2. ASSUME NEW e \in Email, identities[e] = NoUid, uids < MaxUids,
                 identities' = [identities EXCEPT ![e] = uids + 1],
                 uids' = uids + 1, UNCHANGED <<rows, accounts, stranded>>
          PROVE  R!OfIdentities
        <3>1. uids \in Nat /\ uids + 1 \in Uid
            BY <2>2, BoundsAssumption DEF Sound, TypeOK, Uid
        <3>2. uids + 1 \notin 1..uids /\ 1..uids' = 1..uids \cup {uids + 1}
            BY <2>2, <3>1
        <3>3. R!Issue(e, uids + 1)
            BY <2>2, <3>2 DEF R!Issue
        <3> QED BY <3>1, <3>3 DEF R!OfIdentities
    <2>3. ASSUME NEW r \in Request, Late(r), stranded' = stranded \cup {req[r].uid},
                 UNCHANGED <<identities, uids, rows, accounts>>
          PROVE  R!OfIdentities
        <3>1. req[r].uid \in 1..uids /\ req[r].uid \in Uid
            BY <2>3 DEF Late, Sound, Known, TypeOK, Call
        <3>2. R!Doubt(req[r].uid)
            BY <2>3, <3>1 DEF R!Doubt, Removed, Exists
        <3> QED BY <3>1, <3>2 DEF R!OfIdentities
    <2> QED BY <2>1, <2>2, <2>3, RemoveWithdraws, CommitOpensOrCloses, RegistrySteps
<1> QED BY <1>1, <1>2, <1>3, SoundInvariant, PTL DEF Spec, OneRegistry, R!Spec, Registered

=============================================================================
