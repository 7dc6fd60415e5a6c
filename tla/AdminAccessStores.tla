-------------------------- MODULE AdminAccessStores --------------------------
(***************************************************************************)
(* The theorem that Firebase and MongoDB follow PostgreSQL (StoresAgree),  *)
(* with the inductive invariant it needs: who works on a row alone works   *)
(* on its current version, and knows how far the other stores have come.   *)
(***************************************************************************)
EXTENDS AdminAccessProofs

\* Facts about one call that follow from the order of its handler's steps.
CallStages(c) ==
    /\ c.step \in {"load", "check"} => ~c.exposed
    /\ c.step \in {"status", "identity"} => c.exposed
    /\ c.endpoint = "register" => ~c.exposed
    /\ (\/ c.step = "commit"
        \/ c.step \in {"claims", "status"} /\ c.endpoint # "update_user"
        \/ c.step = "profile" /\ c.endpoint = "register")
          => c.written \/ c.next = c.snap

Stages == \A r \in Request : req[r] # NoCall => CallStages(req[r])

\* Two requests on one row know of each other.
Exclusive ==
    \A r, q \in Request, u \in User :
        r # q /\ Holds(r, u) /\ Holds(q, u) => req[r].contended

\* Alone on a row, a request works on its current version.
Fresh ==
    \A r \in Request, u \in User :
        Holds(r, u) /\ ~req[r].contended => req[r].snap = users[u]

\* A row that vanished under a request is marked.
Gone ==
    \A r \in Request, u \in User :
        Holds(r, u) /\ users[u] = NoUser => u \in torn

\* An unmarked account whose requests have touched no other store is in step.
Calm ==
    \A u \in User \ torn :
        (\A r \in Request : Holds(r, u) => ~req[r].exposed) => Agree(u)

\* How far the other stores are with a call that is alone on its row.
Underway(c) ==
    LET u == c.target
    IN  /\ c.endpoint \in SyncHandler /\ c.step = "status" =>
             firebase[u] # NoIdentity /\ firebase[u].roles = c.next.roles
        /\ (/\ c.endpoint \in SyncHandler
            /\ \/ c.step = "commit"
               \/ c.step = "write" /\ c.endpoint = "update_user") =>
             /\ firebase[u] # NoIdentity
             /\ firebase[u].roles = c.next.roles
             /\ firebase[u].disabled = ~c.next.active
        /\ c.endpoint = "delete_user" /\ c.step \in {"identity", "write", "commit"} =>
             u \notin profiles
        /\ c.endpoint = "delete_user" /\ c.step \in {"write", "commit"} =>
             firebase[u] = NoIdentity

AloneUnderway ==
    \A r \in Request, u \in User :
        Holds(r, u) /\ ~req[r].contended => Underway(req[r])

StoresInv == Stages /\ Exclusive /\ Fresh /\ Gone /\ Calm /\ AloneUnderway

\* What a bystander keeps.
LEMMA Bystander ==
    ASSUME NEW q \in Request, Untouched(q), NEW u \in User
    PROVE  /\ Holds(q, u)' <=> Holds(q, u)
           /\ Holds(q, u) => /\ req'[q] # NoCall
                             /\ SameCall(req'[q], req[q])
                             /\ req[q].contended => req'[q].contended
BY DEF Untouched, SameCall, Holds

\* Every call goes through its handler's steps in the handler's order.
LEMMA NextStages ==
    ASSUME TypeOK, Shape, Stages, NEW r \in Request, HandlerStep(r)
    PROVE  Stages'
<1>1. \A q \in Request \ {r} : Untouched(q)
    BY MovesAlone
<1>2. SUFFICES req'[r] # NoCall => CallStages(req'[r])
    BY <1>1 DEF Stages, Untouched, SameCall, CallStages
<1>3. CASE Abort(r) \/ Commit(r)
    BY <1>3 DEF Abort, Commit, TypeOK
<1>4. CASE Authorize(r) \/ RegisterStart(r)
    BY <1>4, StartMove DEF Starts, CallStages, AdminHandler, SyncHandler
<1>5. CASE Loads(r)
    BY <1>5 DEF Loads, At, Stages, CallStages, Shape, CallShape, AfterLoad,
                AdminHandler, SyncHandler
<1>6. CASE Middle(r) /\ ~Abort(r)
    <2>1. GoesOn(r) /\ CallStages(req[r]) /\ CallShape(req[r]) /\ req[r] \in Call
        BY <1>6, MiddleMove DEF GoesOn, Stages, Shape, TypeOK
    <2>2. CASE EnsureAdminInvariants(r)
        <3>1. /\ req[r].step = "check"
              /\ req'[r].step = AfterCheck(req[r].endpoint)
              /\ req'[r].exposed = req[r].exposed
            BY <1>6, <2>1, <2>2 DEF EnsureAdminInvariants, At, GoTo, TypeOK, Call
        <3> QED BY <2>1, <3>1
                DEF GoesOn, CallStages, CallShape, AfterCheck, CheckedHandler,
                    AdminHandler, SyncHandler
    <2>3. CASE SyncClaims(r)
        <3>1. /\ req[r].step = "claims" /\ req'[r].step = "status"
              /\ req'[r].exposed
            BY <1>6, <2>1, <2>3 DEF SyncClaims, At, TypeOK, Call
        <3> QED BY <2>1, <3>1 DEF GoesOn, CallStages, CallShape, SyncHandler
    <2>4. CASE SyncStatus(r)
        <3>1. /\ req[r].step = "status"
              /\ req'[r].step = AfterSync(req[r].endpoint)
              /\ req'[r].exposed = req[r].exposed
            BY <1>6, <2>1, <2>4 DEF SyncStatus, At, GoTo, TypeOK, Call
        <3> QED BY <2>1, <3>1
                DEF GoesOn, CallStages, CallShape, AfterSync, SyncHandler
    <2>5. CASE DeleteProfile(r)
        <3>1. /\ req[r].endpoint = "delete_user" /\ req'[r].step = "identity"
              /\ req'[r].exposed
            BY <2>1, <2>5 DEF DeleteProfile, TypeOK, Call
        <3> QED BY <2>1, <3>1 DEF GoesOn, CallStages
    <2>6. CASE UpsertProfile(r)
        <3>1. /\ req[r].endpoint = "register" /\ req[r].step = "profile"
              /\ req'[r].step = "commit" /\ req'[r].exposed = req[r].exposed
            BY <2>1, <2>6 DEF UpsertProfile, At, GoTo, TypeOK, Call
        <3> QED BY <2>1, <3>1 DEF GoesOn, CallStages
    <2>7. CASE DeleteIdentity(r)
        <3>1. /\ req[r].step = "identity" /\ req'[r].step = "write"
              /\ req'[r].exposed = req[r].exposed
            BY <1>6, <2>1, <2>7 DEF DeleteIdentity, At, GoTo, TypeOK, Call
        <3> QED BY <2>1, <3>1 DEF GoesOn, CallStages, CallShape
    <2> QED BY <1>6, <2>2, <2>3, <2>4, <2>5, <2>6, <2>7 DEF Middle
<1>7. CASE Flush(r) /\ ~Abort(r)
    <2>1. CallStages(req[r]) /\ req[r] \in Call /\ req[r].step = "write"
        BY <1>7 DEF Flush, At, Stages, TypeOK
    <2> QED BY <1>7, <2>1, FlushMove
            DEF CallStages, AfterWrite, Call, Handler, AdminHandler, SyncHandler
<1> QED BY <1>3, <1>4, <1>5, <1>6, <1>7, LoadMove DEF HandlerStep, Middle, Fail

\* What a request that goes on, writes or ends does to its hold.
LEMMA OwnHold ==
    ASSUME TypeOK, NEW r \in Request, NEW u \in User, HandlerStep(r),
           ~Authorize(r), ~RegisterStart(r), ~Loads(r), Holds(r, u)'
    PROVE  /\ Holds(r, u) /\ req[r].target = u
           /\ req'[r].contended = req[r].contended
           /\ req'[r].snap = req[r].snap /\ UNCHANGED <<users, torn>>
<1>1. ~Abort(r) /\ ~Commit(r)
    BY DEF Abort, Commit, Holds, TypeOK
<1>2. CASE Middle(r)
    <2>1. req[r].step # "load"
        BY <1>2 DEF Middle, EnsureAdminInvariants, SyncClaims, SyncStatus,
                    DeleteProfile, UpsertProfile, DeleteIdentity, At
    <2> QED BY <1>1, <1>2, <2>1, MiddleMove DEF GoesOn, Holds
<1>3. CASE Flush(r)
    <2>1. req[r].step # "load"
        BY <1>3 DEF Flush, At
    <2> QED BY <1>1, <1>3, <2>1, FlushMove DEF Holds
<1> QED BY <1>1, <1>2, <1>3, LoadMove DEF HandlerStep, Middle, Fail

\* Entering a row's work marks everybody who is already there.
LEMMA NextExclusive ==
    ASSUME TypeOK, Exclusive, NEW r \in Request, HandlerStep(r)
    PROVE  Exclusive'
<1>1. \A q \in Request \ {r} : Untouched(q)
    BY MovesAlone
<1>2. ASSUME NEW p \in Request \ {r}, NEW q \in Request \ {r}, NEW u \in User,
             p # q, Holds(p, u)', Holds(q, u)'
      PROVE  req'[p].contended
    BY <1>1, <1>2, Bystander DEF Exclusive
<1>3. ASSUME NEW q \in Request \ {r}, NEW u \in User, Holds(r, u)', Holds(q, u)'
      PROVE  req'[r].contended /\ req'[q].contended
    <2>1. Holds(q, u) /\ (req[q].contended => req'[q].contended)
        BY <1>1, <1>3, Bystander
    <2>2. CASE (Authorize(r) \/ RegisterStart(r)) /\ Starts(r)
        <3>1. req'[r].target = u /\ Contends(r)
            BY <1>3, <2>2 DEF Holds, Starts
        <3> QED BY <2>1, <3>1 DEF Contends
    <2>3. CASE Loads(r)
        <3>1. req'[r].target = u /\ Contends(r)
            BY <1>3, <2>3 DEF Holds, Loads
        <3> QED BY <2>1, <3>1 DEF Contends
    <2>4. CASE ~Authorize(r) /\ ~RegisterStart(r) /\ ~Loads(r)
        <3>1. Holds(r, u) /\ req'[r].contended = req[r].contended
            BY <1>3, <2>4, OwnHold
        <3> QED BY <2>1, <3>1 DEF Exclusive
    <2> QED BY <2>2, <2>3, <2>4, StartMove
<1> QED BY <1>2, <1>3 DEF Exclusive

\* Nobody works unmarked on a row that changed or vanished.
LEMMA NextFresh ==
    ASSUME TypeOK, Exclusive, Fresh, Gone, NEW r \in Request, HandlerStep(r)
    PROVE  Fresh' /\ Gone'
<1>1. \A q \in Request \ {r} : Untouched(q)
    BY MovesAlone
<1>2. ASSUME NEW q \in Request \ {r}, NEW u \in User, Holds(q, u)'
      PROVE  /\ ~req'[q].contended => req'[q].snap = users'[u]
             /\ users'[u] = NoUser => u \in torn'
    <2>1. /\ Holds(q, u) /\ req'[q].snap = req[q].snap
          /\ req[q].contended => req'[q].contended
        BY <1>1, <1>2, Bystander DEF SameCall
    <2>2. CASE UNCHANGED users /\ torn \subseteq torn'
        BY <2>1, <2>2 DEF Fresh, Gone
    <2>3. CASE Commit(r)
        <3>1. /\ Holds(r, req[r].target) /\ req[r].target \in User
              /\ \A v \in User \ {req[r].target} :
                    users'[v] = users[v] /\ (v \in torn => v \in torn')
              /\ req[r].contended => req[r].target \in torn'
            BY <2>3 DEF Commit, At, Holds, TypeOK, Call
        <3>2. CASE u = req[r].target
            <4>1. req[r].contended /\ req[q].contended
                BY <2>1, <3>1, <3>2 DEF Exclusive
            <4> QED BY <2>1, <3>1, <3>2, <4>1
        <3>3. CASE u # req[r].target
            BY <2>1, <3>1, <3>3 DEF Fresh, Gone
        <3> QED BY <3>2, <3>3
    <2>4. Commit(r) \/ (UNCHANGED users /\ torn \subseteq torn')
        <3>1. CASE Abort(r)
            BY <3>1 DEF Abort
        <3>2. CASE Middle(r) /\ ~Abort(r)
            BY <3>2, MiddleMove DEF GoesOn
        <3>3. CASE Flush(r) /\ ~Abort(r)
            BY <3>3, FlushMove
        <3> QED BY <3>1, <3>2, <3>3, StartMove, LoadMove
                DEF HandlerStep, Middle, Fail, Starts, Loads
    <2> QED BY <2>2, <2>3, <2>4
<1>3. ASSUME NEW u \in User, Holds(r, u)'
      PROVE  /\ ~req'[r].contended => req'[r].snap = users'[u]
             /\ users'[u] = NoUser => u \in torn'
    <2>1. CASE Starts(r)
        BY <1>3, <2>1 DEF Starts, Holds
    <2>2. CASE Loads(r)
        <3>1. /\ req'[r].target = u /\ req[r].target = u /\ users[u] # NoUser
              /\ UNCHANGED users
              /\ req[r].contended => req'[r].contended
            BY <1>3, <2>2 DEF Loads, Holds
        <3>2. CASE req[r].actor = u
            <4>1. Holds(r, u) /\ req'[r].snap = req[r].snap
                BY <2>2, <3>1, <3>2 DEF Loads, Holds, At
            <4> QED BY <3>1, <4>1 DEF Fresh
        <3>3. CASE req[r].actor # u
            BY <2>2, <3>1, <3>3 DEF Loads
        <3> QED BY <3>2, <3>3
    <2>3. CASE ~Authorize(r) /\ ~RegisterStart(r) /\ ~Loads(r)
        BY <1>3, <2>3, OwnHold DEF Fresh, Gone
    <2> QED BY <2>1, <2>2, <2>3, StartMove
<1> QED BY <1>2, <1>3 DEF Fresh, Gone

\* A step changes no store on accounts the request does not hold.
LEMMA Local ==
    ASSUME TypeOK, Stages, NEW r \in Request, HandlerStep(r),
           NEW u \in User, ~Holds(r, u)
    PROVE  /\ users'[u] = users[u] /\ firebase'[u] = firebase[u]
           /\ u \in profiles' <=> u \in profiles
           /\ u \in torn' <=> u \in torn
<1>1. CASE Abort(r) /\ req[r] # NoCall
    BY <1>1 DEF Abort, Stages, CallStages, Holds
<1>2. CASE Starts(r) \/ Loads(r)
    BY <1>2 DEF Starts, Loads
<1>3. CASE Middle(r) /\ ~Abort(r)
    BY <1>3 DEF Middle, EnsureAdminInvariants, SyncClaims, SyncStatus,
                DeleteProfile, UpsertProfile, DeleteIdentity, At, Holds, TypeOK
<1>4. CASE Flush(r) /\ ~Abort(r)
    BY <1>4, FlushMove
<1>5. CASE Commit(r)
    BY <1>5 DEF Commit, At, Holds, TypeOK
<1>6. Abort(r) => req[r] # NoCall \/ Starts(r)
    BY StartMove DEF HandlerStep, LoadTarget, EnsureAdminInvariants, SyncClaims,
            SyncStatus, DeleteProfile, UpsertProfile, DeleteIdentity, Flush,
            Commit, Fail, At
<1> QED BY <1>1, <1>2, <1>3, <1>4, <1>5, <1>6, StartMove, LoadMove
        DEF HandlerStep, Middle, Fail

\* The other stores are where the order of the handler's calls puts them.
LEMMA NextUnderway ==
    ASSUME TypeOK, Shape, Stages, Exclusive, AloneUnderway,
           NEW r \in Request, HandlerStep(r)
    PROVE  AloneUnderway'
<1>1. \A q \in Request \ {r} : Untouched(q)
    BY MovesAlone
<1>2. ASSUME NEW q \in Request \ {r}, NEW u \in User,
             Holds(q, u)', ~req'[q].contended
      PROVE  Underway(req[q])' 
    <2>1. /\ Holds(q, u) /\ ~req[q].contended /\ SameCall(req'[q], req[q])
          /\ req[q].target = u
        BY <1>1, <1>2, Bystander DEF Holds
    <2>2. ~Holds(r, u)
        BY <2>1 DEF Exclusive
    <2>3. firebase'[u] = firebase[u] /\ (u \in profiles' <=> u \in profiles)
        BY <2>2, Local
    <2>4. Underway(req[q])
        BY <2>1 DEF AloneUnderway
    <2> QED BY <2>1, <2>3, <2>4 DEF Underway, SameCall
<1>3. ASSUME NEW u \in User, Holds(r, u)', ~req'[r].contended
      PROVE  Underway(req[r])'
    <2>1. CASE Starts(r)
        BY <1>3, <2>1 DEF Starts, Underway, SyncHandler
    <2>2. CASE Loads(r)
        BY <1>3, <2>2 DEF Loads, Underway, AfterLoad
    <2>3. CASE ~Authorize(r) /\ ~RegisterStart(r) /\ ~Loads(r)
        <3>1. /\ Holds(r, u) /\ req[r].target = u /\ ~req[r].contended
              /\ Underway(req[r]) /\ req[r] # NoCall /\ req[r] \in Call
              /\ CallShape(req[r])
            BY <1>3, <2>3, OwnHold DEF AloneUnderway, Holds, TypeOK, Shape
        <3>2. ~Abort(r) /\ ~Commit(r)
            BY <1>3 DEF Abort, Commit, Holds, TypeOK
        <3>3. CASE EnsureAdminInvariants(r)
            <4>1. GoesOn(r) /\ req'[r].step = AfterCheck(req[r].endpoint)
                BY <3>1, <3>2, <3>3, MiddleMove
                DEF Middle, EnsureAdminInvariants, GoTo, TypeOK, Call
            <4> QED BY <4>1 DEF GoesOn, Underway, AfterCheck
        <3>4. CASE SyncClaims(r)
            <4>1. /\ GoesOn(r) /\ req'[r].step = "status"
                  /\ firebase[u] # NoIdentity
                  /\ firebase' = [firebase EXCEPT ![u].primary = req[r].next.primary,
                                                  ![u].roles = req[r].next.roles]
                BY <3>1, <3>2, <3>4, MiddleMove DEF Middle, SyncClaims, TypeOK, Call
            <4>2. firebase[u] \in Identity
                BY <4>1 DEF TypeOK
            <4>3. /\ firebase'[u] # NoIdentity
                  /\ firebase'[u].roles = req[r].next.roles
                <5>1. firebase'[u] = [firebase[u] EXCEPT !.primary = req[r].next.primary,
                                                         !.roles = req[r].next.roles]
                    BY <4>1 DEF TypeOK
                <5>2. req[r].next \in Row
                    BY <3>1, <3>4 DEF CallShape, Call, SyncClaims, At, SyncHandler
                <5>3. firebase'[u] \in Identity /\ firebase'[u].roles = req[r].next.roles
                    BY <4>2, <5>1, <5>2 DEF Identity, Row
                <5> QED BY <5>3, AbsentAssumption
            <4> QED BY <3>1, <4>1, <4>3 DEF GoesOn, Underway
        <3>5. CASE SyncStatus(r)
            <4>1. /\ GoesOn(r) /\ req[r].step = "status"
                  /\ req'[r].step = AfterSync(req[r].endpoint)
                  /\ firebase[u] # NoIdentity
                  /\ firebase' = [firebase EXCEPT ![u].disabled = ~req[r].next.active]
                BY <3>1, <3>2, <3>5, MiddleMove
                DEF Middle, SyncStatus, At, GoTo, TypeOK, Call
            <4>2. firebase[u] \in Identity
                  /\ req[r].endpoint \in SyncHandler
                  /\ req[r].next \in Row
                BY <3>1, <4>1 DEF TypeOK, CallShape, Call, SyncHandler
            <4>3. /\ firebase'[u] # NoIdentity
                  /\ firebase'[u].roles = req[r].next.roles
                  /\ firebase'[u].disabled = ~req[r].next.active
                <5>1. firebase'[u] = [firebase[u] EXCEPT !.disabled = ~req[r].next.active]
                    BY <4>1 DEF TypeOK
                <5>2. firebase[u].roles = req[r].next.roles
                    BY <3>1, <4>1, <4>2 DEF Underway
                <5>3. /\ firebase'[u] \in Identity
                      /\ firebase'[u].roles = firebase[u].roles
                      /\ firebase'[u].disabled = ~req[r].next.active
                    BY <4>2, <5>1 DEF Identity, Row
                <5> QED BY <5>2, <5>3, AbsentAssumption
            <4> QED BY <3>1, <4>1, <4>2, <4>3
                    DEF GoesOn, Underway, AfterSync, SyncHandler
        <3>6. CASE DeleteProfile(r)
            <4>1. /\ GoesOn(r) /\ req'[r].step = "identity"
                  /\ req[r].endpoint = "delete_user" /\ u \notin profiles'
                BY <3>1, <3>2, <3>6, MiddleMove
                DEF Middle, DeleteProfile, TypeOK, Call
            <4> QED BY <3>1, <4>1 DEF GoesOn, Underway, SyncHandler
        <3>7. CASE UpsertProfile(r)
            <4>1. GoesOn(r) /\ req[r].endpoint = "register"
                BY <3>1, <3>2, <3>7, MiddleMove DEF Middle, UpsertProfile
            <4> QED BY <4>1 DEF GoesOn, Underway, SyncHandler
        <3>8. CASE DeleteIdentity(r)
            <4>1. /\ GoesOn(r) /\ req'[r].step = "write"
                  /\ req[r].step = "identity"
                  /\ firebase'[u] = NoIdentity /\ UNCHANGED profiles
                BY <3>1, <3>2, <3>8, MiddleMove
                DEF Middle, DeleteIdentity, At, GoTo, TypeOK, Call
            <4> QED BY <3>1, <4>1 DEF GoesOn, Underway, CallShape, SyncHandler
        <3>9. CASE Flush(r)
            <4>1. req[r].step = "write"
                BY <3>9 DEF Flush, At
            <4> QED BY <3>1, <3>2, <3>9, <4>1, FlushMove
                    DEF Underway, AfterWrite, SyncHandler
        <3> QED BY <2>3, <3>2, <3>3, <3>4, <3>5, <3>6, <3>7, <3>8, <3>9, LoadMove
                DEF HandlerStep, Fail
    <2> QED BY <2>1, <2>2, <2>3, StartMove
<1> QED BY <1>1, <1>2, <1>3 DEF AloneUnderway

\* A registration keeps the status and takes no role away.
LEMMA RegisterAdds ==
    ASSUME NEW row \in Row, NEW next \in Changes("register", row)
    PROVE  /\ next \in Row /\ next.active = row.active
           /\ Range(row.roles) \subseteq Range(next.roles)
<1>1. PICK role \in Requested : next = [row EXCEPT !.roles = WithRole(row.roles, role)]
    BY DEF Changes
<1>2. /\ WithRole(row.roles, role) \in RoleList
      /\ Range(row.roles) \subseteq Range(WithRole(row.roles, role))
    BY WithRoleList, RequestedAssumption DEF Row, SelfServiceRoles, Role
<1> QED BY <1>1, <1>2 DEF Row

\* A commit by a request that is alone on its row leaves the stores in step.
LEMMA LoneCommit ==
    ASSUME TypeOK, Shape, CopyInv, StoresInv, NEW r \in Request, Commit(r),
           NEW u \in User, req[r].target = u, ~req[r].contended, u \notin torn'
    PROVE  Agree(u)'
<1> DEFINE c == req[r]
<1>1. /\ c.target = u /\ c \in Call /\ c # NoCall /\ c.step = "commit" /\ u \in User
      /\ Holds(r, u) /\ CallStages(c) /\ c.next \in Changes(c.endpoint, c.snap)
      /\ c.snap = users[u] /\ Underway(c)
    BY DEF Commit, At, TypeOK, Call, Holds, StoresInv, Stages, CopyInv, Fresh,
           AloneUnderway
<1>2. users'[u] = c.next
    <2>1. users'[u] = IF c.written THEN Merged(users[u], c.snap, c.next)
                      ELSE users[u]
        BY <1>1 DEF Commit, TypeOK
    <2>2. Merged(users[u], c.snap, c.next) = c.next
        BY <1>1, MergedAlone DEF Call
    <2> QED BY <1>1, <2>1, <2>2 DEF CallStages
<1>3. UNCHANGED <<firebase, profiles>>
    BY DEF Commit
<1>4. CASE c.endpoint = "delete_user"
    <2>1. users'[u] = NoUser
        BY <1>1, <1>2, <1>4 DEF Changes
    <2>2. firebase'[u] = NoIdentity /\ u \notin profiles'
        BY <1>1, <1>3, <1>4 DEF Underway
    <2> QED BY <2>1, <2>2 DEF Agree
<1>5. CASE c.endpoint \in SyncHandler
    <2>1. c.next # NoUser
        BY <1>1, <1>5 DEF Shape, CallShape, SyncHandler
    <2>2. /\ firebase[u] # NoIdentity /\ firebase[u].roles = c.next.roles
          /\ firebase[u].disabled = ~c.next.active
        BY <1>1, <1>5 DEF Underway
    <2>3. /\ users'[u] # NoUser /\ firebase'[u] # NoIdentity
          /\ firebase'[u].roles = users'[u].roles
          /\ firebase'[u].disabled = ~users'[u].active
        BY <1>2, <1>3, <2>1, <2>2
    <2> QED BY <2>3 DEF Agree
<1>6. CASE c.endpoint = "register"
    <2>1. u \notin torn
        BY <1>6 DEF Commit, SyncHandler
    <2>2. \A q \in Request : Holds(q, u) => q = r
        BY <1>1 DEF StoresInv, Exclusive
    <2>3. Agree(u)
        BY <1>1, <1>6, <2>1, <2>2 DEF StoresInv, Calm, CallStages
    <2>4. /\ c.snap \in Row /\ c.next \in Row /\ c.snap # NoUser /\ c.next # NoUser
          /\ c.next.active = c.snap.active
          /\ Range(c.snap.roles) \subseteq Range(c.next.roles)
        BY <1>1, <1>6, RegisterAdds, AbsentAssumption DEF Call
    <2>5. /\ users[u] = c.snap /\ users'[u] = c.next
          /\ firebase'[u] = firebase[u]
        BY <1>1, <1>2, <1>3
    <2>6. /\ firebase[u] # NoIdentity
          /\ firebase[u].disabled = ~c.snap.active
          /\ Range(firebase[u].roles) \subseteq Range(c.snap.roles)
        BY <2>3, <2>4, <2>5 DEF Agree
    <2>7. /\ users'[u] # NoUser /\ firebase'[u] # NoIdentity
          /\ firebase'[u].disabled = ~users'[u].active
        BY <2>4, <2>5, <2>6
    <2>8. Range(firebase'[u].roles) \subseteq Range(users'[u].roles)
        BY <2>4, <2>5, <2>6
    <2> QED BY <2>7, <2>8 DEF Agree
<1> QED BY <1>1, <1>4, <1>5, <1>6 DEF Call, Handler, AdminHandler

\* Only a request that has touched another store, and is still at work or has
\* marked the account, separates the stores.
LEMMA NextCalm ==
    ASSUME TypeOK, Shape, CopyInv, StoresInv, NEW r \in Request, HandlerStep(r)
    PROVE  Calm'
<1>1. \A q \in Request \ {r} : Untouched(q)
    BY MovesAlone
<1>2. SUFFICES ASSUME NEW u \in User, u \notin torn',
                      \A q \in Request : Holds(q, u)' => ~req'[q].exposed
               PROVE  Agree(u)'
    BY DEF Calm
<1>3. \A q \in Request \ {r} : Holds(q, u) => ~req[q].exposed
    BY <1>1, <1>2, Bystander DEF SameCall
\* As long as r neither held the account exposed nor changed a store of it.
<1>4. ASSUME Holds(r, u) => ~req[r].exposed, u \notin torn,
             users'[u] = users[u], firebase'[u] = firebase[u],
             users[u] = NoUser => (u \in profiles' <=> u \in profiles)
      PROVE  Agree(u)'
    <2>1. Agree(u)
        BY <1>3, <1>4 DEF StoresInv, Calm
    <2> QED BY <1>4, <2>1 DEF Agree
<1>5. CASE ~Holds(r, u)
    <2>1. /\ users'[u] = users[u] /\ firebase'[u] = firebase[u]
          /\ u \in profiles' <=> u \in profiles
          /\ u \in torn' <=> u \in torn
        BY <1>5, Local DEF StoresInv
    <2> QED BY <1>2, <1>4, <1>5, <2>1
<1>6. CASE Holds(r, u)
    <2>1. /\ req[r] # NoCall /\ req[r].target = u /\ req[r] \in Call
          /\ CallStages(req[r])
        BY <1>6 DEF Holds, TypeOK, StoresInv, Stages
    <2>2. CASE Abort(r)
        BY <1>2, <1>4, <2>1, <2>2 DEF Abort
    <2>3. CASE Loads(r)
        <3>1. ~req[r].exposed
            BY <2>1, <2>3 DEF Loads, At, CallStages
        <3> QED BY <1>2, <1>4, <2>3, <3>1 DEF Loads
    <2>4. CASE Middle(r) /\ ~Abort(r)
        <3>1. GoesOn(r) /\ Holds(r, u)'
            <4>1. GoesOn(r)
                BY <2>4, MiddleMove
            <4>2. req'[r].step # "load"
                BY <2>1, <2>4
                DEF Middle, EnsureAdminInvariants, SyncClaims, SyncStatus,
                    DeleteProfile, UpsertProfile, DeleteIdentity, GoTo, TypeOK,
                    AfterCheck, AfterSync, Call
            <4> QED BY <2>1, <4>1, <4>2 DEF GoesOn, Holds
        <3>2. ~req[r].exposed /\ ~req'[r].exposed
            BY <1>2, <3>1 DEF GoesOn
        <3>3. CASE EnsureAdminInvariants(r)
            BY <1>2, <1>4, <2>4, <3>2, <3>3 DEF EnsureAdminInvariants
        <3>4. CASE SyncClaims(r) \/ DeleteProfile(r)
            <4>1. req'[r].exposed
                BY <2>1, <2>4, <3>4 DEF SyncClaims, DeleteProfile, TypeOK, Call
            <4> QED BY <3>2, <4>1
        <3>5. CASE SyncStatus(r) \/ DeleteIdentity(r)
            BY <2>1, <3>2, <3>5 DEF SyncStatus, DeleteIdentity, At, CallStages
        <3>6. CASE UpsertProfile(r)
            <4>1. users[u] # NoUser
                BY <1>2, <1>6, <3>6 DEF UpsertProfile, StoresInv, Gone
            <4> QED BY <1>2, <1>4, <3>2, <3>6, <4>1 DEF UpsertProfile
        <3> QED BY <2>4, <3>3, <3>4, <3>5, <3>6 DEF Middle
    <2>5. CASE Flush(r) /\ ~Abort(r)
        <3>1. req'[r].step # "load"
            BY <2>5, FlushMove DEF AfterWrite
        <3>2. ~req[r].exposed
            BY <1>2, <2>1, <2>5, <3>1, FlushMove DEF Holds
        <3> QED BY <1>2, <1>4, <2>5, <3>2, FlushMove
    <2>6. CASE Commit(r)
        <3>1. CASE req[r].contended
            BY <1>2, <2>1, <2>6, <3>1 DEF Commit
        <3>2. CASE ~req[r].contended
            BY <1>2, <2>1, <2>6, <3>2, LoneCommit
        <3> QED BY <3>1, <3>2
    <2>7. ~Authorize(r) /\ ~RegisterStart(r)
        BY <2>1 DEF Authorize, RegisterStart, Admit
    <2> QED BY <2>2, <2>3, <2>4, <2>5, <2>6, <2>7, LoadMove
            DEF HandlerStep, Middle, Fail
<1> QED BY <1>5, <1>6

\* Firebase and MongoDB follow PostgreSQL on every account nobody is at work on,
\* unless overlapping requests or a half-way failure split them, and a later
\* access update that runs alone mends what was split.
THEOREM StoresFollow == Spec => []StoresAgree
<1>1. Init => StoresInv
    <2> SUFFICES ASSUME Init PROVE StoresInv
        OBVIOUS
    <2>1. \A r \in Request : req[r] = NoCall
        BY DEF Init
    <2>2. \A u \in User : users[u] \in Row /\ firebase[u] = Synced(users[u])
        BY GrantsAssumption DEF Init, Row
    <2>3. \A u \in User : Synced(users[u]) \in Identity
        BY <2>2 DEF Synced, Row, Identity
    <2>4. ASSUME NEW u \in User PROVE Agree(u)
        <3>1. /\ users[u] # NoUser /\ firebase[u] # NoIdentity
              /\ firebase[u] = Synced(users[u])
            BY <2>2, <2>3, AbsentAssumption
        <3>2. /\ firebase[u].disabled = ~users[u].active
              /\ firebase[u].roles = users[u].roles
            BY <3>1 DEF Synced
        <3> QED BY <3>1, <3>2 DEF Agree
    <2> QED BY <2>1, <2>4
            DEF StoresInv, Stages, Exclusive, Fresh, Gone, Calm, AloneUnderway, Holds
<1>2. (TypeOK /\ Shape) /\ CopyInv /\ StoresInv /\ [Next]_vars => StoresInv'
    <2> SUFFICES ASSUME TypeOK, Shape, CopyInv, StoresInv, [Next]_vars
                 PROVE  StoresInv'
        OBVIOUS
    <2>1. ASSUME NEW r \in Request, HandlerStep(r) PROVE StoresInv'
        BY <2>1, NextStages, NextExclusive, NextFresh, NextUnderway, NextCalm
        DEF StoresInv
    <2>2. CASE UNCHANGED vars
        BY <2>2 DEF vars, StoresInv, Stages, Exclusive, Fresh, Gone, Calm,
                    AloneUnderway, Holds, Underway, Agree
    <2> QED BY <2>1, <2>2 DEF Next
<1>3. StoresInv => StoresAgree
    BY DEF StoresInv, Calm, StoresAgree
<1> QED BY <1>1, <1>2, <1>3, TypeCorrect, CopiesSound, PTL DEF Spec

=============================================================================
