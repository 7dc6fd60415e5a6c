-------------------------- MODULE AdminAccessProofs --------------------------
(***************************************************************************)
(* Proofs about AdminAccess, for any accounts, any number of requests in   *)
(* flight and any request bodies: the types, how one step changes a        *)
(* request and a row, and the safety theorems about PostgreSQL's rows.     *)
(***************************************************************************)
EXTENDS AdminAccess, FiniteSetTheorems, TLAPS

(***************************************************************************)
(* Operators on rows and role lists                                        *)
(***************************************************************************)

\* Appending a role an account lacks keeps its list free of repetitions and
\* adds exactly that role.
LEMMA WithRoleList ==
    ASSUME NEW roles \in RoleList, NEW role \in Role
    PROVE  /\ WithRole(roles, role) \in RoleList
           /\ Range(WithRole(roles, role)) = Range(roles) \cup {role}
<1>1. CASE role \in Range(roles)
    BY <1>1 DEF WithRole
<1>2. CASE role \notin Range(roles)
    <2> DEFINE list == Append(roles, role)
    <2>1. /\ roles \in Seq(Role) /\ IsInjective(roles)
          /\ list \in Seq(Role) /\ WithRole(roles, role) = list
        BY <1>2 DEF WithRole, RoleList
    <2>2. /\ DOMAIN list = 1..Len(roles) + 1
          /\ DOMAIN roles = 1..Len(roles)
          /\ list[Len(roles) + 1] = role
          /\ \A i \in 1..Len(roles) : list[i] = roles[i]
          /\ Len(roles) \in Nat
        BY <2>1
    <2> HIDE DEF list
    <2>3. IsInjective(list)
        BY <1>2, <2>1, <2>2 DEF IsInjective, Range
    <2>4. Range(list) = Range(roles) \cup {role}
        BY <1>2, <2>1, <2>2 DEF Range
    <2> QED BY <2>1, <2>3, <2>4 DEF RoleList
<1> QED BY <1>1, <1>2

\* What a handler assigns is a row, or the absence of one for delete_user.
LEMMA ChangesType ==
    ASSUME NEW endpoint \in Handler, NEW row \in Row,
           NEW next \in Changes(endpoint, row)
    PROVE  /\ next \in Row \cup {NoUser}
           /\ next = NoUser <=> endpoint = "delete_user"
<1> USE DEF Handler, AdminHandler, SyncHandler
<1>1. CASE endpoint = "update_user"
    BY <1>1, GrantsAssumption, AbsentAssumption DEF Changes, Row
<1>2. CASE endpoint = "update_user_roles"
    BY <1>2, GrantsAssumption, AbsentAssumption DEF Changes, Row
<1>3. CASE endpoint \in {"update_user_status", "update_employer"}
    BY <1>3, AbsentAssumption DEF Changes, Row
<1>4. CASE endpoint = "delete_user"
    BY <1>4 DEF Changes
<1>5. CASE endpoint = "register"
    <2>1. PICK role \in Requested :
                next = [row EXCEPT !.roles = WithRole(row.roles, role)]
        BY <1>5 DEF Changes
    <2>2. WithRole(row.roles, role) \in RoleList
        BY WithRoleList, RequestedAssumption DEF Row, SelfServiceRoles, Role
    <2> QED BY <1>5, <2>1, <2>2, AbsentAssumption DEF Row
<1> QED BY <1>1, <1>2, <1>3, <1>4, <1>5

\* Merging a change into a row gives a row again.
LEMMA MergedType ==
    ASSUME NEW current \in Row \cup {NoUser}, NEW old \in Row,
           NEW new \in Row \cup {NoUser}
    PROVE  /\ Merged(current, old, new) \in Row \cup {NoUser}
           /\ Merged(current, old, new) = NoUser
                <=> current = NoUser \/ new = NoUser
BY AbsentAssumption DEF Merged, Column, Row

(***************************************************************************)
(* Types, and which steps each endpoint can be at                          *)
(***************************************************************************)

\* Two calls that differ at most in the history field.
SameCall(c, d) ==
    /\ c.step = d.step /\ c.endpoint = d.endpoint
    /\ c.actor = d.actor /\ c.target = d.target
    /\ c.snap = d.snap /\ c.next = d.next
    /\ c.written = d.written /\ c.exposed = d.exposed

\* A call whose endpoint has the step it is at, and whose changed copy is
\* absent exactly when the target is being deleted.
CallShape(c) ==
    /\ c.next = NoUser <=> c.endpoint = "delete_user" /\ c.step # "load"
    /\ c.step = "load" => c.endpoint \in AdminHandler /\ ~c.written
    /\ c.step = "check" => c.endpoint \in CheckedHandler
    /\ c.step \in {"claims", "status"} => c.endpoint \in SyncHandler
    /\ c.step = "identity" => c.endpoint = "delete_user"

Shape == \A r \in Request : req[r] # NoCall => CallShape(req[r])

\* Going on with a call leaves the other requests as they are, but for history.
LEMMA EnterType ==
    ASSUME TypeOK, NEW r \in Request, NEW call \in Call
    PROVE  LET after == Enter(r, call)
           IN  /\ after \in [Request -> Call \cup {NoCall}]
               /\ after[r] \in Call /\ SameCall(after[r], call)
               /\ call.contended => after[r].contended
               /\ \A q \in Request \ {r} :
                    /\ req[q] = NoCall => after[q] = NoCall
                    /\ req[q] # NoCall =>
                         /\ after[q] \in Call /\ SameCall(after[q], req[q])
                         /\ req[q].contended => after[q].contended
                    /\ Holds(q, call.target) =>
                         after[q].contended /\ after[r].contended
<1> DEFINE after == Enter(r, call)
           peers == {q \in Request : q # r /\ Holds(q, call.target)}
<1>1. /\ after[r] \in Call /\ SameCall(after[r], call)
      /\ DOMAIN after = Request
      /\ after = [q \in Request |-> after[q]]
      /\ call.contended \/ peers # {} => after[r].contended
    BY DEF Enter, Call, SameCall
<1>2. ASSUME NEW q \in Request \ {r}
      PROVE  /\ req[q] = NoCall => after[q] = NoCall
             /\ req[q] # NoCall =>
                  /\ after[q] \in Call /\ SameCall(after[q], req[q])
                  /\ req[q].contended => after[q].contended
             /\ Holds(q, call.target) => after[q].contended
    <2>1. CASE q \in peers
        <3>1. after[q] = [req[q] EXCEPT !.contended = TRUE] /\ req[q] # NoCall
            BY <2>1 DEF Enter, Holds
        <3>2. req[q] \in Call
            BY <3>1 DEF TypeOK
        <3> QED BY <3>1, <3>2, AbsentAssumption DEF Call, SameCall
    <2>2. CASE q \notin peers
        <3>1. after[q] = req[q] /\ ~Holds(q, call.target)
            BY <2>2 DEF Enter
        <3> QED BY <3>1 DEF TypeOK, SameCall
    <2> QED BY <2>1, <2>2
<1>3. \A q \in Request \ {r} : Holds(q, call.target) => peers # {}
    OBVIOUS
<1> HIDE DEF after, peers
<1>4. \A q \in Request : after[q] \in Call \cup {NoCall}
    BY <1>1, <1>2 DEF TypeOK
<1>5. \A q \in Request \ {r} :
        Holds(q, call.target) => after[q].contended /\ after[r].contended
    BY <1>1, <1>2, <1>3
<1>6. \A q \in Request \ {r} :
        /\ req[q] = NoCall => after[q] = NoCall
        /\ req[q] # NoCall =>
             /\ after[q] \in Call /\ SameCall(after[q], req[q])
             /\ req[q].contended => after[q].contended
    BY <1>2
<1> QED BY <1>1, <1>4, <1>5, <1>6 DEF after

(***************************************************************************)
(* What one step of a request does to the others and to itself             *)
(***************************************************************************)

\* Request q is untouched, but for the history field.
Untouched(q) ==
    /\ req'[q] = NoCall <=> req[q] = NoCall
    /\ req[q] # NoCall =>
         SameCall(req'[q], req[q]) /\ (req[q].contended => req'[q].contended)

\* The request takes up its target's row, and so does nobody unnoticed.
Contends(r) ==
    \A q \in Request \ {r} :
        Holds(q, req'[r].target) => req'[q].contended /\ req'[r].contended

\* The request in slot r begins.
Starts(r) ==
    /\ req[r] = NoCall
    /\ req' \in [Request -> Call \cup {NoCall}]
    /\ LET d == req'[r]
       IN  /\ d \in Call /\ ~d.written /\ ~d.exposed
           /\ users[d.actor] # NoUser /\ d.snap = users[d.actor]
           /\ \/ /\ d.step = "load" /\ d.endpoint \in AdminHandler
                 /\ d.next = d.snap /\ IsAdmin(d.snap)
                 /\ d.actor = d.target => Contends(r)
              \/ /\ d.step = "write" /\ d.endpoint = "register"
                 /\ d.actor = d.target /\ d.next \in Changes("register", d.snap)
                 /\ Contends(r)
    /\ \A q \in Request \ {r} : Untouched(q)
    /\ calls' \in 0..MaxCalls
    /\ UNCHANGED <<users, firebase, profiles, torn, slipped>>

\* The request in slot r has its target's row and has assigned to it.
Loads(r) ==
    /\ At(r, "load")
    /\ req' \in [Request -> Call \cup {NoCall}]
    /\ LET c == req[r]
           d == req'[r]
       IN  /\ d \in Call /\ users[c.target] # NoUser
           /\ d.step = AfterLoad(c.endpoint)
           /\ d.endpoint = c.endpoint /\ d.actor = c.actor /\ d.target = c.target
           /\ d.written = c.written /\ d.exposed = c.exposed
           /\ c.contended => d.contended
           /\ d.snap = IF c.actor = c.target THEN c.snap ELSE users[c.target]
           /\ d.next \in Changes(c.endpoint, d.snap)
    /\ Contends(r)
    /\ \A q \in Request \ {r} : Untouched(q)
    /\ UNCHANGED <<users, firebase, profiles, calls, torn, slipped>>

\* Authorize and RegisterStart begin a request.
LEMMA StartMove ==
    ASSUME TypeOK, NEW r \in Request, Authorize(r) \/ RegisterStart(r)
    PROVE  Starts(r)
<1>1. req[r] = NoCall /\ calls' \in 0..MaxCalls
      /\ UNCHANGED <<users, firebase, profiles, torn, slipped>>
    BY MaxCallsAssumption DEF Authorize, RegisterStart, Admit, TypeOK
<1>2. CASE Authorize(r)
    <2>1. PICK endpoint \in Endpoints \cap AdminHandler, actor \in ActiveAdmins,
               target \in User :
            LET call == [step |-> "load", endpoint |-> endpoint,
                         actor |-> actor, target |-> target,
                         snap |-> users[actor], next |-> users[actor],
                         written |-> FALSE, exposed |-> FALSE,
                         contended |-> FALSE]
            IN  req' = IF actor = target THEN Enter(r, call)
                       ELSE [req EXCEPT ![r] = call]
        BY <1>2 DEF Authorize
    <2> DEFINE call == [step |-> "load", endpoint |-> endpoint,
                        actor |-> actor, target |-> target,
                        snap |-> users[actor], next |-> users[actor],
                        written |-> FALSE, exposed |-> FALSE,
                        contended |-> FALSE]
    <2>2. /\ actor \in User /\ IsAdmin(users[actor])
          /\ users[actor] \in Row /\ users[actor] # NoUser
        BY DEF ActiveAdmins, IsAdmin, TypeOK
    <2>3. /\ call \in Call /\ ~call.written /\ ~call.exposed
          /\ call.actor = actor /\ call.target = target
          /\ call.snap = users[actor] /\ call.next = call.snap
          /\ call.step = "load" /\ call.endpoint \in AdminHandler
        BY <2>2 DEF Call, Step, Handler
    <2>4. CASE actor = target
        <3>1. req' = Enter(r, call)
            BY <2>1, <2>4
        <3> HIDE DEF call
        <3>2. /\ req' \in [Request -> Call \cup {NoCall}]
              /\ req'[r] \in Call /\ SameCall(req'[r], call)
              /\ \A q \in Request \ {r} : Untouched(q)
            BY <2>3, <3>1, EnterType, AbsentAssumption DEF Untouched
        <3>3. \A q \in Request \ {r} :
                Holds(q, call.target) => req'[q].contended /\ req'[r].contended
            BY <2>3, <3>1, EnterType
        <3>4. Contends(r)
            BY <3>2, <3>3 DEF Contends, SameCall
        <3> QED BY <1>1, <2>2, <2>3, <3>2, <3>4 DEF Starts, SameCall
    <2>5. CASE actor # target
        <3>1. req' = [req EXCEPT ![r] = call]
            BY <2>1, <2>5
        <3> HIDE DEF call
        <3>2. /\ req' \in [Request -> Call \cup {NoCall}]
              /\ req'[r] = call
              /\ \A q \in Request \ {r} : Untouched(q)
            BY <2>3, <3>1 DEF TypeOK, Untouched, SameCall
        <3> QED BY <1>1, <2>2, <2>3, <2>5, <3>2 DEF Starts
    <2> QED BY <2>4, <2>5
<1>3. CASE RegisterStart(r)
    <2>1. PICK u \in User :
            /\ users[u] # NoUser
            /\ \E next \in Changes("register", users[u]) :
                 req' = Enter(r, [step |-> "write", endpoint |-> "register",
                                  actor |-> u, target |-> u,
                                  snap |-> users[u], next |-> next,
                                  written |-> FALSE, exposed |-> FALSE,
                                  contended |-> FALSE])
        BY <1>3 DEF RegisterStart
    <2>2. PICK next \in Changes("register", users[u]) :
            req' = Enter(r, [step |-> "write", endpoint |-> "register",
                             actor |-> u, target |-> u,
                             snap |-> users[u], next |-> next,
                             written |-> FALSE, exposed |-> FALSE,
                             contended |-> FALSE])
        BY <2>1
    <2> DEFINE call == [step |-> "write", endpoint |-> "register",
                        actor |-> u, target |-> u,
                        snap |-> users[u], next |-> next,
                        written |-> FALSE, exposed |-> FALSE,
                        contended |-> FALSE]
    <2>3. users[u] \in Row /\ next \in Row \cup {NoUser}
        BY <2>1, ChangesType DEF TypeOK, Handler
    <2>4. /\ call \in Call /\ ~call.written /\ ~call.exposed
          /\ call.actor = u /\ call.target = u
          /\ call.snap = users[u] /\ call.next = next
          /\ call.step = "write" /\ call.endpoint = "register"
        BY <2>3 DEF Call, Step, Handler
    <2>5. req' = Enter(r, call)
        BY <2>2
    <2> HIDE DEF call
    <2>6. /\ req' \in [Request -> Call \cup {NoCall}]
          /\ req'[r] \in Call /\ SameCall(req'[r], call)
          /\ \A q \in Request \ {r} : Untouched(q)
        BY <2>4, <2>5, EnterType, AbsentAssumption DEF Untouched
    <2>7. \A q \in Request \ {r} :
            Holds(q, call.target) => req'[q].contended /\ req'[r].contended
        BY <2>4, <2>5, EnterType
    <2>8. Contends(r)
        BY <2>6, <2>7 DEF Contends, SameCall
    <2> QED BY <1>1, <2>1, <2>4, <2>6, <2>8 DEF Starts, SameCall
<1> QED BY <1>2, <1>3

\* LoadTarget either ends the request or loads the row.
LEMMA LoadMove ==
    ASSUME TypeOK, NEW r \in Request, LoadTarget(r)
    PROVE  Abort(r) \/ Loads(r)
<1> DEFINE c == req[r]
           copy == IF c.actor = c.target THEN c.snap ELSE users[c.target]
<1>1. c \in Call /\ At(r, "load")
    BY DEF LoadTarget, At, TypeOK
<1>2. SUFFICES ASSUME ~Abort(r) PROVE Loads(r)
    OBVIOUS
<1>3. /\ users[c.target] # NoUser
      /\ UNCHANGED <<users, firebase, profiles, calls, torn, slipped>>
    BY <1>2 DEF LoadTarget
<1>4. PICK next \in Changes(c.endpoint, copy) :
            req' = Enter(r, [c EXCEPT !.step = AfterLoad(c.endpoint),
                                      !.snap = copy, !.next = next])
    BY <1>2 DEF LoadTarget
<1> DEFINE call == [c EXCEPT !.step = AfterLoad(c.endpoint),
                             !.snap = copy, !.next = next]
<1>5. copy \in Row
    BY <1>1, <1>3 DEF TypeOK, Call
<1>6. next \in Row \cup {NoUser}
    BY <1>1, <1>4, <1>5, ChangesType DEF Call
<1>7. /\ call \in Call /\ call.step = AfterLoad(c.endpoint)
      /\ call.endpoint = c.endpoint /\ call.actor = c.actor
      /\ call.target = c.target /\ call.written = c.written
      /\ call.exposed = c.exposed /\ call.contended = c.contended
      /\ call.snap = copy /\ call.next = next
    BY <1>1, <1>5, <1>6 DEF Call, Step, AfterLoad
<1>8. req' = Enter(r, call)
    BY <1>4
<1> HIDE DEF call
<1>9. /\ req' \in [Request -> Call \cup {NoCall}]
      /\ req'[r] \in Call /\ SameCall(req'[r], call)
      /\ call.contended => req'[r].contended
      /\ \A q \in Request \ {r} : Untouched(q)
    BY <1>7, <1>8, EnterType, AbsentAssumption DEF Untouched
<1>10. \A q \in Request \ {r} :
         Holds(q, call.target) => req'[q].contended /\ req'[r].contended
    BY <1>7, <1>8, EnterType
<1>11. Contends(r)
    BY <1>9, <1>10 DEF Contends, SameCall
<1> QED BY <1>1, <1>3, <1>4, <1>7, <1>9, <1>11 DEF Loads, SameCall

(***************************************************************************)
(* Type correctness                                                        *)
(***************************************************************************)

\* The first state is well typed.
LEMMA InitType == Init => TypeOK /\ Shape
<1> SUFFICES ASSUME Init PROVE TypeOK /\ Shape
    OBVIOUS
<1>1. users \in [User -> Row]
    BY GrantsAssumption DEF Init, Row
<1>2. firebase \in [User -> Identity]
    <2>1. \A u \in User : Synced(users[u]) \in Identity
        BY <1>1 DEF Synced, Row, Identity
    <2> QED BY <2>1 DEF Init
<1>3. calls \in 0..MaxCalls
    BY MaxCallsAssumption DEF Init
<1>4. /\ req \in [Request -> Call \cup {NoCall}] /\ Shape
      /\ profiles \subseteq User /\ torn \subseteq User /\ slipped \in BOOLEAN
    BY DEF Init, Shape
<1> QED BY <1>1, <1>2, <1>3, <1>4 DEF TypeOK

\* What an aborted request leaves behind.
LEMMA AbortType ==
    ASSUME TypeOK, Shape, NEW r \in Request, req[r] # NoCall, Abort(r)
    PROVE  TypeOK' /\ Shape'
<1>1. req[r] \in Call
    BY DEF TypeOK
<1> QED BY <1>1 DEF Abort, TypeOK, Shape, Call

\* Every step keeps the types and the shapes.
LEMMA NextType == TypeOK /\ Shape /\ [Next]_vars => TypeOK' /\ Shape'
<1> SUFFICES ASSUME TypeOK, Shape, [Next]_vars PROVE TypeOK' /\ Shape'
    OBVIOUS
<1> USE DEF At, GoTo
<1>1. ASSUME NEW r \in Request, Authorize(r) \/ RegisterStart(r)
      PROVE  TypeOK' /\ Shape'
    <2>1. Starts(r)
        BY <1>1, StartMove
    <2>2. CallShape(req'[r])
        <3>1. req'[r].endpoint = "register" => req'[r].next # NoUser
            BY <2>1, ChangesType DEF Starts, Call, Handler
        <3> QED BY <2>1, <3>1, AbsentAssumption
                DEF Starts, CallShape, Call, AdminHandler, SyncHandler
    <2>3. \A q \in Request : req'[q] # NoCall => CallShape(req'[q])
        BY <2>1, <2>2 DEF Starts, Untouched, Shape, CallShape, SameCall
    <2> QED BY <2>1, <2>3 DEF Starts, TypeOK, Shape
<1>2. ASSUME NEW r \in Request, LoadTarget(r) PROVE TypeOK' /\ Shape'
    <2>1. req[r] \in Call /\ CallShape(req[r]) /\ req[r] # NoCall
        BY <1>2 DEF LoadTarget, TypeOK, Shape
    <2>2. CASE Abort(r)
        BY <2>1, <2>2, AbortType
    <2>3. CASE Loads(r)
        <3>1. req'[r].next = NoUser <=> req[r].endpoint = "delete_user"
            BY <2>1, <2>3, ChangesType DEF Loads, Call
        <3>2. CallShape(req'[r])
            BY <2>1, <2>3, <3>1
            DEF Loads, CallShape, AfterLoad, CheckedHandler
        <3>3. \A q \in Request : req'[q] # NoCall => CallShape(req'[q])
            BY <2>3, <3>2 DEF Loads, Untouched, Shape, CallShape, SameCall
        <3> QED BY <2>3, <3>3 DEF Loads, TypeOK, Shape
    <2> QED BY <1>2, <2>2, <2>3, LoadMove
<1>3. ASSUME NEW r \in Request, EnsureAdminInvariants(r) PROVE TypeOK' /\ Shape'
    <2>1. req[r] \in Call /\ CallShape(req[r]) /\ req[r] # NoCall
        BY <1>3 DEF EnsureAdminInvariants, TypeOK, Shape
    <2>2. CASE Abort(r)
        BY <2>1, <2>2, AbortType
    <2>3. CASE ~Abort(r)
        <3>1. /\ req' = [req EXCEPT ![r].step = AfterCheck(req[r].endpoint)]
              /\ slipped' \in BOOLEAN
              /\ UNCHANGED <<users, firebase, profiles, calls, torn>>
            BY <1>3, <2>3 DEF EnsureAdminInvariants, TypeOK
        <3>2. req[r].step = "check"
            BY <1>3 DEF EnsureAdminInvariants
        <3>3. LET d == [req[r] EXCEPT !.step = AfterCheck(req[r].endpoint)]
              IN  d \in Call /\ CallShape(d)
            BY <2>1, <3>2 DEF Call, CallShape, Step, AfterCheck,
                              CheckedHandler, AdminHandler
        <3> QED BY <3>1, <3>3 DEF TypeOK, Shape
    <2> QED BY <2>2, <2>3
<1>4. ASSUME NEW r \in Request, SyncClaims(r) PROVE TypeOK' /\ Shape'
    <2>1. /\ req[r] \in Call /\ CallShape(req[r]) /\ req[r] # NoCall
          /\ req[r].step = "claims"
        BY <1>4 DEF SyncClaims, TypeOK, Shape
    <2>2. CASE Abort(r)
        BY <2>1, <2>2, AbortType
    <2>3. CASE ~Abort(r)
        <3> DEFINE u == req[r].target
        <3>1. /\ firebase[u] # NoIdentity
              /\ firebase' = [firebase EXCEPT ![u].primary = req[r].next.primary,
                                              ![u].roles = req[r].next.roles]
              /\ req' = [req EXCEPT ![r].step = "status", ![r].exposed = TRUE]
              /\ UNCHANGED <<users, profiles, calls, torn, slipped>>
            BY <1>4, <2>3 DEF SyncClaims
        <3>2. req[r].next \in Row /\ u \in User
            BY <2>1 DEF CallShape, Call, SyncHandler
        <3>3. firebase' \in [User -> Identity \cup {NoIdentity}]
            BY <3>1, <3>2 DEF TypeOK, Row, Identity
        <3>4. LET d == [req[r] EXCEPT !.step = "status", !.exposed = TRUE]
              IN  d \in Call /\ CallShape(d)
            BY <2>1 DEF Call, CallShape, Step
        <3>5. req' = [req EXCEPT ![r] = [req[r] EXCEPT !.step = "status",
                                                       !.exposed = TRUE]]
            BY <3>1
        <3> QED BY <3>1, <3>3, <3>4, <3>5 DEF TypeOK, Shape
    <2> QED BY <2>2, <2>3
<1>5. ASSUME NEW r \in Request, SyncStatus(r) PROVE TypeOK' /\ Shape'
    <2>1. /\ req[r] \in Call /\ CallShape(req[r]) /\ req[r] # NoCall
          /\ req[r].step = "status"
        BY <1>5 DEF SyncStatus, TypeOK, Shape
    <2>2. CASE Abort(r)
        BY <2>1, <2>2, AbortType
    <2>3. CASE ~Abort(r)
        <3> DEFINE u == req[r].target
        <3>1. /\ firebase[u] # NoIdentity
              /\ firebase' = [firebase EXCEPT ![u].disabled = ~req[r].next.active]
              /\ req' = [req EXCEPT ![r].step = AfterSync(req[r].endpoint)]
              /\ UNCHANGED <<users, profiles, calls, torn, slipped>>
            BY <1>5, <2>3 DEF SyncStatus
        <3>2. req[r].next \in Row /\ u \in User
            BY <2>1 DEF CallShape, Call, SyncHandler
        <3>3. firebase' \in [User -> Identity \cup {NoIdentity}]
            BY <3>1, <3>2 DEF TypeOK, Row, Identity
        <3>4. LET d == [req[r] EXCEPT !.step = AfterSync(req[r].endpoint)]
              IN  d \in Call /\ CallShape(d)
            BY <2>1 DEF Call, CallShape, Step, AfterSync
        <3> QED BY <3>1, <3>3, <3>4 DEF TypeOK, Shape
    <2> QED BY <2>2, <2>3
<1>6. ASSUME NEW r \in Request, DeleteProfile(r) PROVE TypeOK' /\ Shape'
    <2>1. req[r] \in Call /\ CallShape(req[r]) /\ req[r] # NoCall
        BY <1>6 DEF DeleteProfile, TypeOK, Shape
    <2>2. LET d == [req[r] EXCEPT !.step = "identity", !.exposed = TRUE]
          IN  /\ d \in Call /\ CallShape(d)
              /\ req' = [req EXCEPT ![r] = d]
        BY <1>6, <2>1 DEF DeleteProfile, Call, CallShape, Step
    <2> QED BY <1>6, <2>2 DEF DeleteProfile, TypeOK, Shape
<1>7. ASSUME NEW r \in Request, UpsertProfile(r) PROVE TypeOK' /\ Shape'
    <2>1. req[r] \in Call /\ CallShape(req[r]) /\ req[r] # NoCall
        BY <1>7 DEF UpsertProfile, TypeOK, Shape
    <2>2. LET d == [req[r] EXCEPT !.step = "commit"]
          IN  /\ d \in Call /\ CallShape(d)
              /\ req' = [req EXCEPT ![r] = d]
        BY <1>7, <2>1 DEF UpsertProfile, Call, CallShape, Step
    <2>3. profiles' \subseteq User
        BY <1>7, <2>1 DEF UpsertProfile, TypeOK, Call
    <2> QED BY <1>7, <2>2, <2>3 DEF UpsertProfile, TypeOK, Shape
<1>8. ASSUME NEW r \in Request, DeleteIdentity(r) PROVE TypeOK' /\ Shape'
    <2>1. req[r] \in Call /\ CallShape(req[r]) /\ req[r] # NoCall
        BY <1>8 DEF DeleteIdentity, TypeOK, Shape
    <2>2. CASE Abort(r)
        BY <2>1, <2>2, AbortType
    <2>3. CASE ~Abort(r)
        <3>1. /\ firebase' = [firebase EXCEPT ![req[r].target] = NoIdentity]
              /\ req' = [req EXCEPT ![r].step = "write"]
              /\ UNCHANGED <<users, profiles, calls, torn, slipped>>
              /\ req[r].step = "identity"
            BY <1>8, <2>3 DEF DeleteIdentity
        <3>2. LET d == [req[r] EXCEPT !.step = "write"]
              IN  d \in Call /\ CallShape(d)
            BY <2>1, <3>1 DEF Call, CallShape, Step
        <3> QED BY <3>1, <3>2 DEF TypeOK, Shape
    <2> QED BY <2>2, <2>3
<1>9. ASSUME NEW r \in Request, Flush(r) PROVE TypeOK' /\ Shape'
    <2>1. /\ req[r] \in Call /\ CallShape(req[r]) /\ req[r] # NoCall
          /\ req[r].step = "write"
        BY <1>9 DEF Flush, TypeOK, Shape
    <2>2. CASE Abort(r)
        BY <2>1, <2>2, AbortType
    <2>3. CASE ~Abort(r)
        <3>1. PICK w \in BOOLEAN :
                /\ req' = [req EXCEPT ![r] =
                            [@ EXCEPT !.step = AfterWrite(req[r].endpoint),
                                      !.written = w]]
                /\ UNCHANGED <<users, firebase, profiles, calls, torn, slipped>>
            <4>1. \/ /\ req' = [req EXCEPT ![r].step = AfterWrite(req[r].endpoint)]
                     /\ UNCHANGED <<users, firebase, profiles, calls, torn, slipped>>
                  \/ /\ req' = [req EXCEPT ![r].step = AfterWrite(req[r].endpoint),
                                           ![r].written = TRUE]
                     /\ UNCHANGED <<users, firebase, profiles, calls, torn, slipped>>
                BY <1>9, <2>3 DEF Flush
            <4>2. CASE req' = [req EXCEPT ![r].step = AfterWrite(req[r].endpoint)]
                <5>1. /\ req[r].written \in BOOLEAN
                      /\ [req[r] EXCEPT !.step = AfterWrite(req[r].endpoint)]
                            = [req[r] EXCEPT !.step = AfterWrite(req[r].endpoint),
                                             !.written = req[r].written]
                    BY <2>1 DEF Call
                <5> QED BY <4>1, <4>2, <5>1
            <4>3. CASE req' = [req EXCEPT ![r].step = AfterWrite(req[r].endpoint),
                                          ![r].written = TRUE]
                <5>1. req' = [req EXCEPT ![r] =
                                [@ EXCEPT !.step = AfterWrite(req[r].endpoint),
                                          !.written = TRUE]]
                    BY <4>3, <2>1 DEF TypeOK
                <5> QED BY <4>1, <5>1
            <4> QED BY <4>1, <4>2, <4>3
        <3>2. LET d == [req[r] EXCEPT !.step = AfterWrite(req[r].endpoint),
                                      !.written = w]
              IN  d \in Call /\ CallShape(d)
            BY <2>1 DEF Call, CallShape, Step, AfterWrite, SyncHandler,
                        Handler, AdminHandler
        <3> QED BY <3>1, <3>2 DEF TypeOK, Shape
    <2> QED BY <2>2, <2>3
<1>10. ASSUME NEW r \in Request, Commit(r) PROVE TypeOK' /\ Shape'
    <2> DEFINE c == req[r]
               row == IF c.written THEN Merged(users[c.target], c.snap, c.next)
                      ELSE users[c.target]
    <2>1. c \in Call /\ c # NoCall
        BY <1>10 DEF Commit, TypeOK
    <2>2. row \in Row \cup {NoUser}
        BY <2>1, MergedType DEF TypeOK, Call
    <2>3. /\ users' = [users EXCEPT ![c.target] = row]
          /\ torn' \subseteq User
          /\ slipped' \in BOOLEAN
          /\ req' = [req EXCEPT ![r] = NoCall]
          /\ UNCHANGED <<firebase, profiles, calls>>
        BY <1>10, <2>1 DEF Commit, TypeOK, Call
    <2> HIDE DEF row
    <2> QED BY <2>2, <2>3 DEF TypeOK, Shape
<1>11. ASSUME NEW r \in Request, Fail(r) PROVE TypeOK' /\ Shape'
    BY <1>11, AbortType DEF Fail
<1>12. CASE UNCHANGED vars
    BY <1>12 DEF vars, TypeOK, Shape
<1> QED BY <1>1, <1>2, <1>3, <1>4, <1>5, <1>6, <1>7, <1>8, <1>9,
           <1>10, <1>11, <1>12 DEF Next, HandlerStep

\* Every reachable state is well typed: no handler stores a role list with a
\* repetition, and no handler pushes an absent row to Firebase.
THEOREM TypeCorrect == Spec => [](TypeOK /\ Shape)
<1>1. Init => TypeOK /\ Shape
    BY InitType
<1>2. TypeOK /\ Shape /\ [Next]_vars => (TypeOK /\ Shape)'
    BY NextType
<1> QED BY <1>1, <1>2, PTL DEF Spec

\* A request moves alone.
LEMMA MovesAlone ==
    ASSUME TypeOK, NEW r \in Request, HandlerStep(r)
    PROVE  \A q \in Request \ {r} : Untouched(q)
<1> USE DEF At, GoTo
<1>1. CASE Authorize(r) \/ RegisterStart(r)
    BY <1>1, StartMove DEF Starts
<1>2. CASE LoadTarget(r)
    <2>1. CASE Abort(r)
        BY <2>1 DEF Abort, TypeOK, Untouched, SameCall
    <2> QED BY <1>2, <2>1, LoadMove DEF Loads
<1>3. CASE EnsureAdminInvariants(r)
    BY <1>3 DEF EnsureAdminInvariants, Abort, TypeOK, Untouched, SameCall
<1>4. CASE SyncClaims(r)
    BY <1>4 DEF SyncClaims, Abort, TypeOK, Untouched, SameCall
<1>5. CASE SyncStatus(r)
    BY <1>5 DEF SyncStatus, Abort, TypeOK, Untouched, SameCall
<1>6. CASE DeleteProfile(r)
    BY <1>6 DEF DeleteProfile, TypeOK, Untouched, SameCall
<1>7. CASE UpsertProfile(r)
    BY <1>7 DEF UpsertProfile, TypeOK, Untouched, SameCall
<1>8. CASE DeleteIdentity(r)
    BY <1>8 DEF DeleteIdentity, Abort, TypeOK, Untouched, SameCall
<1>9. CASE Flush(r)
    BY <1>9 DEF Flush, Abort, TypeOK, Untouched, SameCall
<1>10. CASE Commit(r)
    BY <1>10 DEF Commit, TypeOK, Untouched, SameCall
<1>11. CASE Fail(r)
    BY <1>11 DEF Fail, Abort, TypeOK, Untouched, SameCall
<1> QED BY <1>1, <1>2, <1>3, <1>4, <1>5, <1>6, <1>7, <1>8, <1>9,
           <1>10, <1>11 DEF HandlerStep

\* A request in the middle of its work goes on with the same copies and the same
\* lock; PostgreSQL does not change.
GoesOn(r) ==
    /\ req[r] # NoCall /\ req'[r] # NoCall
    /\ LET c == req[r]
           d == req'[r]
       IN  /\ d.endpoint = c.endpoint /\ d.actor = c.actor
           /\ d.target = c.target /\ d.snap = c.snap /\ d.next = c.next
           /\ d.written = c.written /\ d.contended = c.contended
           /\ c.exposed => d.exposed
    /\ UNCHANGED <<users, torn>>

Middle(r) ==
    \/ EnsureAdminInvariants(r) \/ SyncClaims(r) \/ SyncStatus(r)
    \/ DeleteProfile(r) \/ UpsertProfile(r) \/ DeleteIdentity(r)

\* The steps between the load and the write, and those after it, are of that kind.
LEMMA MiddleMove ==
    ASSUME TypeOK, NEW r \in Request, Middle(r), ~Abort(r)
    PROVE  GoesOn(r)
<1>1. \/ \E step \in Step : req' = [req EXCEPT ![r].step = step]
      \/ \E step \in Step :
            req' = [req EXCEPT ![r].step = step, ![r].exposed = TRUE]
    <2>1. CASE EnsureAdminInvariants(r)
        BY <2>1 DEF EnsureAdminInvariants, GoTo, Step, AfterCheck
    <2>2. CASE SyncClaims(r)
        BY <2>2 DEF SyncClaims, Step
    <2>3. CASE SyncStatus(r)
        BY <2>3 DEF SyncStatus, GoTo, Step, AfterSync
    <2>4. CASE DeleteProfile(r)
        BY <2>4 DEF DeleteProfile, Step
    <2>5. CASE UpsertProfile(r)
        BY <2>5 DEF UpsertProfile, GoTo, Step
    <2>6. CASE DeleteIdentity(r)
        BY <2>6 DEF DeleteIdentity, GoTo, Step
    <2> QED BY <2>1, <2>2, <2>3, <2>4, <2>5, <2>6 DEF Middle
<1>2. req[r] # NoCall /\ UNCHANGED <<users, torn>>
    BY DEF Middle, EnsureAdminInvariants, SyncClaims, SyncStatus, DeleteProfile,
           UpsertProfile, DeleteIdentity, At
<1>3. req[r] \in Call
    BY <1>2 DEF TypeOK
<1>4. CASE \E step \in Step : req' = [req EXCEPT ![r].step = step]
    <2>1. PICK step \in Step : req' = [req EXCEPT ![r].step = step]
        BY <1>4
    <2> QED BY <1>2, <1>3, <2>1, AbsentAssumption DEF TypeOK, GoesOn, Call
<1>5. CASE \E step \in Step :
              req' = [req EXCEPT ![r].step = step, ![r].exposed = TRUE]
    <2>1. PICK step \in Step :
              req' = [req EXCEPT ![r].step = step, ![r].exposed = TRUE]
        BY <1>5
    <2> QED BY <1>2, <1>3, <2>1, AbsentAssumption DEF TypeOK, GoesOn, Call
<1> QED BY <1>1, <1>4, <1>5

\* Flush goes on, and takes the lock only on a row nobody has written.
LEMMA FlushMove ==
    ASSUME TypeOK, NEW r \in Request, Flush(r), ~Abort(r)
    PROVE  /\ req[r] # NoCall /\ req'[r] # NoCall
           /\ req'[r].step = AfterWrite(req[r].endpoint)
           /\ req'[r].endpoint = req[r].endpoint
           /\ req'[r].actor = req[r].actor /\ req'[r].target = req[r].target
           /\ req'[r].snap = req[r].snap /\ req'[r].next = req[r].next
           /\ req'[r].exposed = req[r].exposed
           /\ req'[r].contended = req[r].contended
           /\ \/ req'[r].written = req[r].written /\ req[r].next = req[r].snap
              \/ /\ ~RowLocked(req[r].target) /\ ~Refused(req[r])
                 /\ req'[r].written
           /\ UNCHANGED <<users, firebase, profiles, calls, torn, slipped>>
<1>1. req[r] \in Call /\ req[r] # NoCall
    BY DEF Flush, At, TypeOK
<1>2. CASE /\ req[r].next = req[r].snap
           /\ req' = [req EXCEPT ![r].step = AfterWrite(req[r].endpoint)]
           /\ UNCHANGED <<users, firebase, profiles, calls, torn, slipped>>
    <2>1. [req[r] EXCEPT !.step = AfterWrite(req[r].endpoint)] \in Call
        BY <1>1 DEF Call, AfterWrite, Step
    <2> QED BY <1>1, <1>2, <2>1, AbsentAssumption DEF TypeOK, Call
<1>3. CASE /\ ~RowLocked(req[r].target) /\ ~Refused(req[r])
           /\ req' = [req EXCEPT ![r].step = AfterWrite(req[r].endpoint),
                                 ![r].written = TRUE]
           /\ UNCHANGED <<users, firebase, profiles, calls, torn, slipped>>
    <2>1. [req[r] EXCEPT !.step = AfterWrite(req[r].endpoint),
                         !.written = TRUE] \in Call
        BY <1>1 DEF Call, AfterWrite, Step
    <2> QED BY <1>1, <1>3, <2>1, AbsentAssumption DEF TypeOK, Call
<1> QED BY <1>2, <1>3 DEF Flush, GoTo

(***************************************************************************)
(* Merging                                                                 *)
(***************************************************************************)

\* Merging an administrator's row into an administrator's row leaves one.
LEMMA MergedAdmin ==
    ASSUME NEW current \in Row \cup {NoUser}, NEW old \in Row,
           NEW new \in Row \cup {NoUser}, IsAdmin(current), IsAdmin(new)
    PROVE  IsAdmin(Merged(current, old, new))
<1>1. /\ current \in Row /\ new \in Row
      /\ current # NoUser /\ new # NoUser
      /\ current.active = TRUE /\ new.active = TRUE
    BY DEF IsAdmin, Row
<1>2. /\ Merged(current, old, new) # NoUser
      /\ Merged(current, old, new).active = TRUE
      /\ Merged(current, old, new).roles \in {current.roles, new.roles}
    BY <1>1, MergedType DEF Merged, Column
<1> QED BY <1>2 DEF IsAdmin

\* A change made to the row's current version is taken over as it is.
LEMMA MergedAlone ==
    ASSUME NEW old \in Row, NEW new \in Row \cup {NoUser}
    PROVE  Merged(old, old, new) = new
BY AbsentAssumption DEF Merged, Column, Row

(***************************************************************************)
(* The CHECK constraint and the row lock                                   *)
(***************************************************************************)

\* One transaction at a time has written a row, and what it will commit there
\* satisfies the constraint.
LockInv ==
    /\ \A r, q \in Request :
         (/\ req[r] # NoCall /\ req[r].written
          /\ req[q] # NoCall /\ req[q].written
          /\ req[r].target = req[q].target) => r = q
    /\ \A r \in Request :
         req[r] # NoCall /\ req[r].written =>
            LET c == req[r]
                row == Merged(users[c.target], c.snap, c.next)
            IN  row = NoUser \/ RolesConstraint(row)
    /\ PrimaryRoleAvailable

\* LockInv is inductive, given the types.
LEMMA NextLock ==
    ASSUME TypeOK, Shape, LockInv, [Next]_vars
    PROVE  LockInv'
<1> DEFINE Writes(r) == req[r] # NoCall /\ req[r].written
           Fits(r) == LET c == req[r]
                          row == Merged(users[c.target], c.snap, c.next)
                      IN  row = NoUser \/ RolesConstraint(row)
\* A step that writes no row and lets no request take a lock.
<1>1. ASSUME NEW r \in Request, UNCHANGED users,
             \A q \in Request \ {r} : Untouched(q),
             Writes(r)' => /\ Writes(r) /\ req'[r].target = req[r].target
                           /\ req'[r].snap = req[r].snap
                           /\ req'[r].next = req[r].next
      PROVE  LockInv'
    <2>1. \A q \in Request : Writes(q)' =>
            /\ Writes(q) /\ req'[q].target = req[q].target
            /\ req'[q].snap = req[q].snap /\ req'[q].next = req[q].next
        BY <1>1 DEF Untouched, SameCall
    <2> QED BY <1>1, <2>1 DEF LockInv, PrimaryRoleAvailable
<1>2. CASE UNCHANGED vars
    BY <1>2 DEF vars, LockInv, PrimaryRoleAvailable
<1>3. ASSUME NEW r \in Request, HandlerStep(r) PROVE LockInv'
    <2>1. \A q \in Request \ {r} : Untouched(q)
        BY <1>3, MovesAlone
    <2>2. CASE Abort(r)
        <3>1. UNCHANGED users /\ ~Writes(r)'
            BY <2>2 DEF Abort, TypeOK
        <3> QED BY <1>1, <2>1, <3>1
    <2>3. CASE Authorize(r) \/ RegisterStart(r)
        <3>1. UNCHANGED users /\ ~Writes(r)'
            BY <2>3, StartMove DEF Starts
        <3> QED BY <1>1, <2>1, <3>1
    <2>4. CASE Loads(r)
        <3>1. UNCHANGED users /\ ~Writes(r)'
            BY <2>4 DEF Loads, At, Shape, CallShape
        <3> QED BY <1>1, <2>1, <3>1
    <2>5. CASE Middle(r) /\ ~Abort(r)
        <3>1. GoesOn(r)
            BY <2>5, MiddleMove
        <3> QED BY <1>1, <2>1, <3>1 DEF GoesOn
    <2>6. CASE Flush(r) /\ ~Abort(r)
        <3> DEFINE c == req[r]
        <3>1. /\ c \in Call /\ c # NoCall /\ UNCHANGED users
              /\ req'[r].target = c.target /\ req'[r].snap = c.snap
              /\ req'[r].next = c.next
            BY <2>6, FlushMove DEF TypeOK
        <3>2. CASE req'[r].written = c.written
            BY <1>1, <2>1, <3>1, <3>2
        <3>3. CASE ~RowLocked(c.target) /\ ~Refused(c)
            <4>1. \A q \in Request \ {r} : Writes(q)' =>
                    /\ Writes(q) /\ req'[q].target = req[q].target
                    /\ req'[q].snap = req[q].snap /\ req'[q].next = req[q].next
                BY <2>1 DEF Untouched, SameCall
            <4>2. \A q \in Request \ {r} : Writes(q) => req[q].target # c.target
                BY <3>3 DEF RowLocked
            <4>3. Fits(r)
                <5>1. users[c.target] \in Row \cup {NoUser}
                    BY <3>1 DEF TypeOK, Call
                <5> QED BY <3>1, <3>3, <5>1, MergedType DEF Refused, Call
            <4> QED BY <3>1, <4>1, <4>2, <4>3 DEF LockInv, PrimaryRoleAvailable
        <3> QED BY <2>6, <3>2, <3>3, FlushMove
    <2>7. CASE Commit(r)
        <3> DEFINE c == req[r]
                   row == IF c.written THEN Merged(users[c.target], c.snap, c.next)
                          ELSE users[c.target]
        <3>1. /\ users' = [users EXCEPT ![c.target] = row]
              /\ c # NoCall /\ c.target \in User
              /\ req'[r] = NoCall
            BY <2>7 DEF Commit, At, TypeOK, Call
        <3>2. row = NoUser \/ RolesConstraint(row)
            BY <3>1 DEF LockInv, PrimaryRoleAvailable
        <3> HIDE DEF row
        <3>3. PrimaryRoleAvailable'
            <4>1. \A u \in User : users'[u] = IF u = c.target THEN row ELSE users[u]
                BY <3>1 DEF TypeOK
            <4> QED BY <3>2, <4>1 DEF LockInv, PrimaryRoleAvailable
        <3>4. \A q \in Request : Writes(q)' =>
                /\ q # r /\ Writes(q) /\ req'[q].target = req[q].target
                /\ req'[q].snap = req[q].snap /\ req'[q].next = req[q].next
            BY <2>1, <3>1 DEF Untouched, SameCall
        <3>5. ASSUME NEW q \in Request, Writes(q)'
              PROVE  users'[req'[q].target] = users[req[q].target]
            <4>1. CASE c.written
                <5>1. req[q].target # c.target
                    BY <3>1, <3>4, <3>5, <4>1 DEF LockInv
                <5> QED BY <3>1, <3>4, <3>5, <5>1 DEF TypeOK
            <4>2. CASE ~c.written
                BY <3>1, <3>4, <3>5, <4>2 DEF TypeOK, row
            <4> QED BY <4>1, <4>2
        <3> QED BY <3>3, <3>4, <3>5 DEF LockInv
    <2> QED BY <1>3, <2>2, <2>3, <2>4, <2>5, <2>6, <2>7, LoadMove
            DEF HandlerStep, Middle, Fail
<1> QED BY <1>2, <1>3 DEF Next

\* Every committed row lists its primary role among its available ones, although
\* concurrent requests write the two columns independently.
THEOREM PrimaryRoleStays == Spec => []PrimaryRoleAvailable
<1>1. Init => LockInv
    BY GrantsAssumption DEF Init, LockInv, PrimaryRoleAvailable, RolesConstraint
<1>2. (TypeOK /\ Shape) /\ LockInv /\ [Next]_vars => LockInv'
    BY NextLock
<1>3. LockInv => PrimaryRoleAvailable
    BY DEF LockInv
<1> QED BY <1>1, <1>2, <1>3, TypeCorrect, PTL DEF Spec

(***************************************************************************)
(* The copies requests work on                                             *)
(***************************************************************************)

\* What a request will write is a change of the copy it read; who works on the
\* own account read an administrator's row, and once past the check keeps one.
CopyInv ==
    \A r \in Request :
        req[r] # NoCall =>
            LET c == req[r]
            IN  /\ c.step # "load" => c.next \in Changes(c.endpoint, c.snap)
                /\ c.endpoint \in AdminHandler /\ c.actor = c.target
                     => IsAdmin(c.snap)
                /\ (/\ c.endpoint \in CheckedHandler /\ c.actor = c.target
                    /\ c.step \notin {"load", "check"})
                     => IsAdmin(c.next)

\* CopyInv is inductive, given the types.
LEMMA NextCopy ==
    ASSUME TypeOK, Shape, CopyInv, [Next]_vars
    PROVE  CopyInv'
<1> DEFINE CopyOK(c) ==
             /\ c.step # "load" => c.next \in Changes(c.endpoint, c.snap)
             /\ c.endpoint \in AdminHandler /\ c.actor = c.target
                  => IsAdmin(c.snap)
             /\ (/\ c.endpoint \in CheckedHandler /\ c.actor = c.target
                 /\ c.step \notin {"load", "check"})
                  => IsAdmin(c.next)
<1>1. CASE UNCHANGED vars
    BY <1>1 DEF vars, CopyInv
<1>2. ASSUME NEW r \in Request, HandlerStep(r) PROVE CopyInv'
    <2>1. \A q \in Request \ {r} : Untouched(q)
        BY <1>2, MovesAlone
    <2>2. SUFFICES req'[r] # NoCall => CopyOK(req'[r])
        BY <2>1 DEF CopyInv, Untouched, SameCall
    <2>3. CASE Abort(r) \/ Commit(r)
        BY <2>3 DEF Abort, Commit, TypeOK
    <2>4. CASE Authorize(r) \/ RegisterStart(r)
        BY <2>4, StartMove
        DEF Starts, CheckedHandler, AdminHandler, SyncHandler
    <2>5. CASE Loads(r)
        <3>1. CopyOK(req[r]) /\ req[r].step = "load"
              /\ req[r].endpoint \in AdminHandler
            BY <2>5 DEF Loads, At, CopyInv, Shape, CallShape
        <3>2. req'[r].step = "check" \/ req'[r].endpoint \notin CheckedHandler
            BY <2>5 DEF Loads, AfterLoad, CheckedHandler
        <3> QED BY <2>5, <3>1, <3>2 DEF Loads
    <2>6. CASE Middle(r) /\ ~Abort(r)
        <3>1. GoesOn(r) /\ req[r].step # "load" /\ CopyOK(req[r])
            BY <2>6, MiddleMove
            DEF Middle, EnsureAdminInvariants, SyncClaims, SyncStatus,
                DeleteProfile, UpsertProfile, DeleteIdentity, At, CopyInv
        <3>2. req[r].step = "check" /\ req[r].actor = req[r].target
                => IsAdmin(req[r].next)
            BY <2>6
            DEF Middle, EnsureAdminInvariants, SyncClaims, SyncStatus,
                DeleteProfile, UpsertProfile, DeleteIdentity, At, SelfLockout
        <3> QED BY <3>1, <3>2 DEF GoesOn
    <2>7. CASE Flush(r) /\ ~Abort(r)
        <3>1. CopyOK(req[r]) /\ req[r].step = "write"
            BY <2>7 DEF Flush, At, CopyInv
        <3> QED BY <2>7, <3>1, FlushMove
    <2> QED BY <1>2, <2>3, <2>4, <2>5, <2>6, <2>7, LoadMove
            DEF HandlerStep, Middle, Fail
<1> QED BY <1>1, <1>2 DEF Next

\* The copies are sound in every reachable state.
LEMMA CopiesSound == Spec => []CopyInv
<1>1. Init => CopyInv
    BY DEF Init, CopyInv
<1>2. (TypeOK /\ Shape) /\ CopyInv /\ [Next]_vars => CopyInv'
    BY NextCopy
<1> QED BY <1>1, <1>2, TypeCorrect, PTL DEF Spec

\* A request leaves the commit step for good through Commit, or aborts and
\* leaves the rows alone.
LEMMA CommitStep ==
    ASSUME TypeOK, Next, NEW r \in Request, At(r, "commit"), req'[r] = NoCall
    PROVE  Commit(r) \/ UNCHANGED users
<1>1. PICK q \in Request : HandlerStep(q)
    BY DEF Next
<1>2. q = r
    BY <1>1, MovesAlone DEF Untouched, At
<1>3. Commit(r) \/ Fail(r)
    <2>1. ~Authorize(r) /\ ~RegisterStart(r)
        BY DEF At, Authorize, RegisterStart, Admit
    <2> QED BY <1>1, <1>2, <2>1
            DEF HandlerStep, At, LoadTarget, EnsureAdminInvariants, SyncClaims,
                SyncStatus, DeleteProfile, UpsertProfile, DeleteIdentity, Flush
<1> QED BY <1>3 DEF Fail, Abort

\* No handler that calls _ensure_admin_invariants takes its caller's own
\* administrator access, whatever runs beside it.
THEOREM SelfLockoutPrevented == Spec => CheckedNoSelfLockout
<1>1. ASSUME TypeOK, Shape, CopyInv, [Next]_vars, NEW r \in Request,
             LocksOutActor(r)
      PROVE  req[r].endpoint \notin CheckedHandler
    <2> DEFINE c == req[r]
    <2>1. /\ At(r, "commit") /\ req'[r] = NoCall /\ c.actor = c.target
          /\ IsAdmin(users[c.target]) /\ ~IsAdmin(users'[c.target])
        BY <1>1 DEF LocksOutActor
    <2>2. Commit(r)
        BY <1>1, <2>1, CommitStep DEF vars, At
    <2>3. c \in Call /\ c # NoCall /\ c.step = "commit"
          /\ users[c.target] \in Row \cup {NoUser}
        BY <1>1, <2>1 DEF At, TypeOK, Call
    <2>4. ~IsAdmin(Merged(users[c.target], c.snap, c.next))
        BY <1>1, <2>1, <2>2, <2>3 DEF Commit, TypeOK, Call
    <2>5. ~IsAdmin(c.next)
        BY <2>1, <2>3, <2>4, MergedAdmin DEF Call
    <2> QED BY <1>1, <2>1, <2>3, <2>5 DEF CopyInv
<1>2. (TypeOK /\ Shape) /\ CopyInv /\ [Next]_vars =>
        \A r \in Request :
            LocksOutActor(r) => req[r].endpoint \notin CheckedHandler
    BY <1>1
<1> QED BY <1>2, TypeCorrect, CopiesSound, PTL DEF Spec, CheckedNoSelfLockout

\* A role edit never restores a stale status and a status edit never restores
\* stale roles, however the two overlap on one account.
THEOREM EditsCommute == Spec => DisjointEditsCommute
<1> DEFINE Commutes(r) ==
        (/\ At(r, "commit")
         /\ req'[r] = NoCall
         /\ users[req[r].target] # NoUser
         /\ req[r].next # NoUser)
        => LET old == users[req[r].target]
               new == users'[req[r].target]
           IN  /\ req[r].endpoint \in {"update_user_roles", "register"}
                    => new.active = old.active
               /\ req[r].endpoint \in {"update_user_status", "update_employer"}
                    => new.roles = old.roles /\ new.primary = old.primary
<1>1. ASSUME TypeOK, Shape, CopyInv, [Next]_vars, NEW r \in Request,
             At(r, "commit"), req'[r] = NoCall,
             users[req[r].target] # NoUser, req[r].next # NoUser
      PROVE  Commutes(r)
    <2> DEFINE c == req[r]
               old == users[c.target]
    <2>1. CASE UNCHANGED users
        BY <2>1
    <2>2. CASE Commit(r)
        <3>1. /\ c \in Call /\ c # NoCall /\ old \in Row /\ c.next \in Row
              /\ c.snap \in Row /\ c.next \in Changes(c.endpoint, c.snap)
            BY <1>1 DEF At, TypeOK, Call, CopyInv
        <3>2. users'[c.target] \in {old, Merged(old, c.snap, c.next)}
            BY <2>2, <3>1 DEF Commit, TypeOK, Call
        <3>3. CASE c.endpoint \in {"update_user_roles", "register"}
            <4>1. c.next.active = c.snap.active
                BY <3>1, <3>3 DEF Changes, Row
            <4> QED BY <1>1, <3>1, <3>2, <3>3, <4>1 DEF Merged, Column
        <3>4. CASE c.endpoint \in {"update_user_status", "update_employer"}
            <4>1. c.next.roles = c.snap.roles /\ c.next.primary = c.snap.primary
                BY <3>1, <3>4 DEF Changes, Row
            <4> QED BY <1>1, <3>1, <3>2, <3>4, <4>1 DEF Merged, Column
        <3> QED BY <3>3, <3>4
    <2> QED BY <1>1, <2>1, <2>2, CommitStep DEF vars
<1>2. (TypeOK /\ Shape) /\ CopyInv /\ [Next]_vars => \A r \in Request : Commutes(r)
    BY <1>1
<1> QED BY <1>2, TypeCorrect, CopiesSound, PTL DEF Spec, DisjointEditsCommute

(***************************************************************************)
(* The last administrator                                                  *)
(***************************************************************************)

\* As long as no demotion slipped past the count: an administrator remains, every
\* demotion between its check and its commit leaves another one, and all of these
\* demotions are of the same account.
SurvivalInv ==
    ~slipped =>
        /\ ActiveAdmins # {}
        /\ \A r \in Request :
             Demoting(r) => ActiveAdmins \ {req[r].target} # {}
        /\ \A r, q \in Request :
             Demoting(r) /\ Demoting(q) => req[r].target = req[q].target

\* More than one active administrator means one besides any given account.
LEMMA AnotherAdmin ==
    ASSUME NEW u, ~(Cardinality(ActiveAdmins) <= 1)
    PROVE  ActiveAdmins \ {u} # {}
<1> SUFFICES ASSUME ActiveAdmins \subseteq {u} PROVE FALSE
    OBVIOUS
<1>1. IsFiniteSet({u}) /\ Cardinality({u}) = 1
    BY FS_Singleton
<1>2. Cardinality(ActiveAdmins) <= 1 /\ Cardinality(ActiveAdmins) \in Nat
    BY <1>1, FS_Subset, FS_CardinalityType
<1> QED BY <1>2

\* SurvivalInv is inductive, given the types and the soundness of the copies.
LEMMA NextSurvival ==
    ASSUME TypeOK, Shape, SurvivalInv, [Next]_vars
    PROVE  SurvivalInv'
<1>1. CASE UNCHANGED vars
    BY <1>1 DEF vars, SurvivalInv, ActiveAdmins, Demoting
\* Steps that neither change a row nor let a demotion pass the check.
<1>2. ASSUME NEW r \in Request, UNCHANGED users, slipped' = slipped,
             \A q \in Request \ {r} : Untouched(q),
             Demoting(r)' => Demoting(r) /\ req'[r].target = req[r].target
      PROVE  SurvivalInv'
    <2>1. \A q \in Request :
            Demoting(q)' => Demoting(q) /\ req'[q].target = req[q].target
        BY <1>2 DEF Untouched, SameCall, Demoting
    <2>2. ActiveAdmins' = ActiveAdmins
        BY <1>2 DEF ActiveAdmins
    <2> QED BY <1>2, <2>1, <2>2 DEF SurvivalInv
<1>3. ASSUME NEW r \in Request, HandlerStep(r) PROVE SurvivalInv'
    <2>1. \A q \in Request \ {r} : Untouched(q)
        BY <1>3, MovesAlone
    <2>2. CASE Abort(r)
        BY <1>2, <2>1, <2>2 DEF Abort, Demoting, TypeOK
    <2>3. CASE Authorize(r) \/ RegisterStart(r)
        <3>1. ~Demoting(r)'
            BY <2>3, StartMove
            DEF Starts, Demoting, CheckedHandler, AdminHandler, SyncHandler
        <3> QED BY <1>2, <2>1, <2>3, <3>1, StartMove DEF Starts
    <2>4. CASE Loads(r)
        <3>1. ~Demoting(r)'
            BY <2>4 DEF Loads, Demoting, AfterLoad, CheckedHandler
        <3> QED BY <1>2, <2>1, <2>4, <3>1 DEF Loads
    <2>5. CASE EnsureAdminInvariants(r) /\ ~Abort(r)
        <3> DEFINE c == req[r]
        <3>1. /\ ~LastAdmin(c) /\ UNCHANGED users
              /\ slipped' = (slipped \/ (/\ IsAdmin(c.snap)
                                         /\ ~IsAdmin(c.next)
                                         /\ \E q \in Request \ {r} :
                                              /\ Demoting(q)
                                              /\ req[q].target # c.target))
            BY <2>5 DEF EnsureAdminInvariants
        <3>2. GoesOn(r)
            BY <2>5, MiddleMove DEF Middle
        <3>3. CASE IsAdmin(c.snap) /\ ~IsAdmin(c.next)
            <4>1. ActiveAdmins' = ActiveAdmins
                BY <3>1 DEF ActiveAdmins
            <4>2. ActiveAdmins \ {c.target} # {}
                BY <3>1, <3>3, AnotherAdmin DEF LastAdmin
            <4>3. \A q \in Request \ {r} :
                    Demoting(q)' => Demoting(q) /\ req'[q].target = req[q].target
                BY <2>1 DEF Untouched, SameCall, Demoting
            <4>4. ~slipped' => /\ ~slipped
                               /\ \A q \in Request \ {r} :
                                    Demoting(q) => req[q].target = c.target
                BY <3>1, <3>3
            <4>5. req'[r].target = c.target
                BY <3>2 DEF GoesOn
            <4> HIDE DEF c
            <4>6. ASSUME ~slipped', NEW q \in Request, Demoting(q)'
                  PROVE  req'[q].target = c.target
                BY <4>3, <4>4, <4>5, <4>6
            <4> QED BY <4>1, <4>2, <4>4, <4>6 DEF SurvivalInv
        <3>4. CASE ~(IsAdmin(c.snap) /\ ~IsAdmin(c.next))
            <4>1. ~Demoting(r)'
                BY <3>2, <3>4 DEF GoesOn, Demoting
            <4>2. slipped' = slipped
                BY <3>1, <3>4 DEF TypeOK
            <4> QED BY <1>2, <2>1, <3>1, <4>1, <4>2
        <3> QED BY <3>3, <3>4
    <2>6. CASE Middle(r) /\ ~EnsureAdminInvariants(r) /\ ~Abort(r)
        <3>1. /\ GoesOn(r) /\ slipped' = slipped
              /\ req[r].step \notin {"load", "check"}
            BY <2>6, MiddleMove
            DEF Middle, SyncClaims, SyncStatus, DeleteProfile, UpsertProfile,
                DeleteIdentity, At
        <3> QED BY <1>2, <2>1, <3>1 DEF GoesOn, Demoting
    <2>7. CASE Flush(r) /\ ~Abort(r)
        <3>1. req[r].step = "write"
            BY <2>7 DEF Flush, At
        <3> QED BY <1>2, <2>1, <2>7, <3>1, FlushMove DEF Demoting
    <2>8. CASE Commit(r)
        <3> DEFINE c == req[r]
                   row == IF c.written THEN Merged(users[c.target], c.snap, c.next)
                          ELSE users[c.target]
                   strips == IsAdmin(users[c.target]) /\ ~IsAdmin(row)
        <3>1. /\ c \in Call /\ c # NoCall /\ c.step = "commit"
              /\ req'[r] = NoCall
              /\ users' = [users EXCEPT ![c.target] = row]
              /\ slipped' = (slipped \/ (/\ IsAdmin(users[c.target])
                                         /\ ~IsAdmin(row)
                                         /\ \/ ~IsAdmin(c.snap)
                                            \/ c.endpoint \notin CheckedHandler))
            BY <2>8 DEF Commit, At, TypeOK
        <3>2. \A q \in Request : Demoting(q)' =>
                q # r /\ Demoting(q) /\ req'[q].target = req[q].target
            BY <2>1, <3>1 DEF Untouched, SameCall, Demoting
        <3>3. CASE strips /\ ~slipped'
            <4>1. ~slipped /\ IsAdmin(c.snap) /\ c.endpoint \in CheckedHandler
                BY <3>1, <3>3
            <4>2. ~IsAdmin(c.next)
                <5>1. users[c.target] \in Row \cup {NoUser}
                    BY <3>1 DEF TypeOK, Call
                <5> QED BY <3>1, <3>3, <5>1, MergedAdmin DEF Call
            <4>3. Demoting(r)
                BY <3>1, <4>1, <4>2 DEF Demoting
            <4> HIDE DEF row
            <4>4. ActiveAdmins' = ActiveAdmins \ {c.target}
                BY <3>1, <3>3 DEF ActiveAdmins, TypeOK
            <4> QED BY <3>2, <4>1, <4>3, <4>4 DEF SurvivalInv
        <3>4. CASE ~strips
            <4> HIDE DEF row
            <4>1. ActiveAdmins \subseteq ActiveAdmins'
                BY <3>1, <3>4 DEF ActiveAdmins, TypeOK
            <4>2. ~slipped' => ~slipped
                BY <3>1
            <4> QED BY <3>2, <4>1, <4>2 DEF SurvivalInv
        <3> QED BY <3>3, <3>4 DEF SurvivalInv
    <2> QED BY <1>3, <2>2, <2>3, <2>4, <2>5, <2>6, <2>7, <2>8, LoadMove
            DEF HandlerStep, Middle, Fail
<1> QED BY <1>1, <1>3 DEF Next

\* The count of administrators can be defeated in three ways only; without them
\* every reachable state has an active administrator.
THEOREM AdminSurvives == Spec => []AdminRemainsUnlessSlipped
<1>1. Init => SurvivalInv
    BY DEF Init, SurvivalInv, Demoting
<1>2. (TypeOK /\ Shape) /\ SurvivalInv /\ [Next]_vars => SurvivalInv'
    BY NextSurvival
<1>3. SurvivalInv => AdminRemainsUnlessSlipped
    BY DEF SurvivalInv, AdminRemainsUnlessSlipped
<1> QED BY <1>1, <1>2, <1>3, TypeCorrect, PTL DEF Spec

=============================================================================
