---------------------------- MODULE AuthCacheProofs ----------------------------
(***************************************************************************)
(* Proofs about AuthCache, for any accounts, tokens, lookups and changes   *)
(* in flight: its types, that the index an invalidation goes by covers the *)
(* cached tokens, that an outdated answer is in the cache only where       *)
(* `escaped' says why, and that it fades.                                  *)
(***************************************************************************)
EXTENDS AuthCache, FiniteSetTheorems, TLAPS

(***************************************************************************)
(* Types                                                                   *)
(***************************************************************************)

\* Each change in flight may raise a version once.
Active == {w \in Writer : write[w] # NoCall}
Counted ==
    /\ IsFiniteSet(Active)
    /\ \A u \in User : row[u].version + Cardinality(Active) <= writes

Typed == TypeOK /\ Counted

\* w's request becomes c, or ends when that is NoCall.
Turns(w, c) ==
    /\ write' = [write EXCEPT ![w] = c]
    /\ write[w] # NoCall /\ c # NoCall => c.target = write[w].target

Sweeps(c) == c # NoCall /\ c.step \in {"keys", "index", "commit"}

LEMMA Going ==
    ASSUME Typed, NEW p \in Fill, fill[p] # NoCall, NEW step \in FillStage, Goes(p, step)
    PROVE  /\ fill' \in [Fill -> FillState \cup {NoCall}]
           /\ fill'[p] # NoCall /\ fill'[p].step = step /\ fill'[p].token = fill[p].token
           /\ fill'[p].version = fill[p].version /\ fill'[p].raced = fill[p].raced
           /\ \A q \in Fill \ {p} : fill'[q] = fill[q]
<1> DEFINE c == [fill[p] EXCEPT !.step = step]
<1>1. fill \in [Fill -> FillState \cup {NoCall}] /\ fill[p] \in FillState
    BY DEF Typed, TypeOK
<1>2. /\ c \in FillState /\ c.step = step /\ c.token = fill[p].token
      /\ c.version = fill[p].version /\ c.raced = fill[p].raced
    BY <1>1 DEF FillState
<1>3. fill' = [fill EXCEPT ![p] = c]
    BY DEF Goes
<1> HIDE DEF c
<1> QED BY <1>1, <1>2, <1>3, AbsentAssumption

LEMMA Proceeding ==
    ASSUME Typed, NEW w \in Writer, write[w] # NoCall, NEW step \in WriteStage,
           Proceeds(w, step)
    PROVE  \E c \in WriteState : Turns(w, c) /\ c.step = step /\ c.keys = write[w].keys
<1> DEFINE c == [write[w] EXCEPT !.step = step]
<1>1. write[w] \in WriteState
    BY DEF Typed, TypeOK
<1>2. c \in WriteState /\ c.step = step /\ c.target = write[w].target /\ c.keys = write[w].keys
    BY <1>1 DEF WriteState
<1>3. write' = [write EXCEPT ![w] = c]
    BY DEF Proceeds
<1> HIDE DEF c
<1> QED BY <1>2, <1>3 DEF Turns

\* Marking the requests on their way changes nothing else about them.
LEMMA Marking ==
    ASSUME Typed, NEW u \in User
    PROVE  /\ Racing(u) \in [Fill -> FillState \cup {NoCall}]
           /\ \A p \in Fill :
                /\ (Racing(u)[p] = NoCall) <=> (fill[p] = NoCall)
                /\ fill[p] # NoCall =>
                    /\ Racing(u)[p].step = fill[p].step /\ Racing(u)[p].token = fill[p].token
                    /\ Racing(u)[p].version = fill[p].version
                    /\ Racing(u)[p].raced =
                        (fill[p].raced \/ (fill[p].step = "setex" /\ Owner[fill[p].token] = u))
<1> SUFFICES ASSUME NEW p \in Fill
             PROVE  /\ Racing(u)[p] \in FillState \cup {NoCall}
                    /\ (Racing(u)[p] = NoCall) <=> (fill[p] = NoCall)
                    /\ fill[p] # NoCall =>
                        /\ Racing(u)[p].step = fill[p].step
                        /\ Racing(u)[p].token = fill[p].token
                        /\ Racing(u)[p].version = fill[p].version
                        /\ Racing(u)[p].raced =
                            (fill[p].raced \/ (fill[p].step = "setex" /\ Owner[fill[p].token] = u))
    BY DEF Racing
<1> DEFINE c == [fill[p] EXCEPT !.raced = TRUE]
<1>1. fill[p] \in FillState \cup {NoCall}
    BY DEF Typed, TypeOK
<1>2. fill[p] # NoCall =>
        /\ c \in FillState /\ c # NoCall /\ c.step = fill[p].step /\ c.token = fill[p].token
        /\ c.version = fill[p].version /\ c.raced = TRUE
    BY <1>1, AbsentAssumption DEF FillState
<1>3. fill[p] # NoCall => fill[p].raced \in BOOLEAN
    BY <1>1 DEF FillState
<1>4. Racing(u)[p] = IF fill[p] # NoCall /\ Owner[fill[p].token] = u /\ fill[p].step = "setex"
                     THEN c ELSE fill[p]
    BY DEF Racing, FillsOf, Fills
<1> HIDE DEF c
<1> QED BY <1>1, <1>2, <1>3, <1>4

LEMMA FillTyped ==
    ASSUME Typed, [Next]_vars
    PROVE  fill' \in [Fill -> FillState \cup {NoCall}]
<1>1. fill \in [Fill -> FillState \cup {NoCall}] /\ 0 \in Version /\ issued \subseteq Token
    BY MaxWritesAssumption DEF Typed, TypeOK, Version
<1>2. ASSUME NEW p \in Fill, FillStep(p)
      PROVE  fill' \in [Fill -> FillState \cup {NoCall}]
    <2>1. CASE Ends(p)
        BY <1>1, <2>1 DEF Ends
    <2>2. CASE Miss(p)
        <3>1. PICK t \in issued : fill' = [fill EXCEPT ![p] = [step |-> "verify", token |-> t,
                                        version |-> 0, raced |-> FALSE]]
            BY <2>2 DEF Miss
        <3>2. [step |-> "verify", token |-> t, version |-> 0, raced |-> FALSE] \in FillState
            BY <1>1 DEF FillState, FillStage
        <3> QED BY <1>1, <3>1, <3>2
    <2>3. CASE fill[p] # NoCall /\ (Goes(p, "read") \/ Goes(p, "expire"))
        BY <2>3, Going DEF FillStage
    <2>4. CASE Read(p) /\ ~Ends(p)
        <3> DEFINE u == Owner[fill[p].token]
                   c == [fill[p] EXCEPT !.step = "setex", !.version = row[u].version,
                                        !.raced = \E w \in Writer : Sweeping(w, u)]
        <3>1. fill[p] \in FillState /\ row[u].version \in Version
            BY <1>1, <2>4, OwnerAssumption DEF Read, Fills, Typed, TypeOK, FillState
        <3>2. c \in FillState
            BY <3>1 DEF FillState, FillStage
        <3>3. fill' = [fill EXCEPT ![p] = c]
            BY <2>4 DEF Read
        <3> QED BY <1>1, <3>2, <3>3
    <2>5. CASE SetEx(p)
        <3> DEFINE c == [step |-> "sadd", token |-> fill[p].token, version |-> 0, raced |-> FALSE]
        <3>1. fill[p] \in FillState
            BY <1>1, <2>5 DEF SetEx, Fills
        <3>2. c \in FillState
            BY <1>1, <3>1 DEF FillState, FillStage
        <3>3. fill' = [fill EXCEPT ![p] = c]
            BY <2>5 DEF SetEx
        <3> QED BY <1>1, <3>2, <3>3
    <2> QED BY <1>2, <2>1, <2>2, <2>3, <2>4, <2>5
        DEF FillStep, Verify, SAdd, Expire, GiveUp, Fills, Read
<1>3. ASSUME NEW w \in Writer, WriteStep(w)
      PROVE  fill' = fill \/ \E u \in User : fill' = Racing(u)
    <2>1. write[w] # NoCall => write[w].target \in User
        BY DEF Typed, TypeOK, WriteState
    <2> QED BY <1>3, <2>1 DEF WriteStep, Begin, SyncStatus, Revoke, Flush, SMembers, DeleteKeys,
        DeleteIndex, InvalidationFails, Commit, Fail, Abort, Escape, Writes
<1>4. ASSUME NEW u \in User, EvictIndex(u) \/ EditOwn(u) \/ RegisterCompany(u)
      PROVE  fill' = fill \/ fill' = Racing(u)
    BY <1>4 DEF EvictIndex, EditOwn, RegisterCompany, ChangeOwn, Escape
<1>5. CASE (\E t \in Token : SignIn(t) \/ RemoveEntry(t)) \/ Tick \/ UNCHANGED vars
    BY <1>1, <1>5 DEF SignIn, RemoveEntry, Tick, vars
<1> QED BY <1>1, <1>2, <1>3, <1>4, <1>5, Marking DEF Next

\* A change goes on with its target, or ends; only an invalidation is a sweep.
LEMMA Writing ==
    ASSUME Typed, NEW w \in Writer, WriteStep(w)
    PROVE  \E c \in WriteState \cup {NoCall} :
             /\ Turns(w, c)
             /\ Sweeps(c) =>
                    SMembers(w) \/ DeleteKeys(w) \/ DeleteIndex(w) \/ InvalidationFails(w)
             /\ write[w] = NoCall => Begin(w)
             /\ Commit(w) => c = NoCall
<1>1. write \in [Writer -> WriteState \cup {NoCall}]
    BY DEF Typed, TypeOK
<1>2. CASE Begin(w)
    <2>1. PICK u \in User, first \in {"firebase", "row"},
               edit \in {"none", "access", "status", "delete"} :
            /\ row[u].status # "deleted"
            /\ write' = [write EXCEPT ![w] =
                [step |-> IF first = "firebase" THEN "status" ELSE "flush",
                 target |-> u,
                 status |-> CASE edit = "delete" -> "deleted"
                              [] edit = "status" ->
                                    IF row[u].status = "active" THEN "inactive" ELSE "active"
                              [] OTHER -> row[u].status,
                 edit |-> edit, first |-> first, keys |-> {}, locked |-> FALSE]]
        BY <1>2 DEF Begin
    <2> DEFINE status == CASE edit = "delete" -> "deleted"
                           [] edit = "status" ->
                                IF row[u].status = "active" THEN "inactive" ELSE "active"
                           [] OTHER -> row[u].status
               c == [step |-> IF first = "firebase" THEN "status" ELSE "flush",
                     target |-> u, status |-> status, edit |-> edit, first |-> first,
                     keys |-> {}, locked |-> FALSE]
    <2>2. row[u].status \in Status
        BY DEF Typed, TypeOK
    <2>3. status \in Status
        BY <2>2 DEF Status
    <2>4. write' = [write EXCEPT ![w] = c]
        BY <2>1
    <2> HIDE DEF status
    <2>5. c \in WriteState /\ c.step \in {"status", "flush"}
        BY <2>3 DEF WriteState, WriteStage
    <2>6. write[w] = NoCall /\ ~Commit(w)
        BY <1>2 DEF Begin, Commit, Writes
    <2> HIDE DEF c
    <2> QED BY <1>2, <2>4, <2>5, <2>6 DEF Turns, Sweeps
<1>3. write[w] = NoCall => Begin(w)
    BY DEF WriteStep, SyncStatus, Revoke, Flush, SMembers, DeleteKeys, DeleteIndex,
           InvalidationFails, Commit, Fail, Writes
<1>4. CASE write' = [write EXCEPT ![w] = NoCall]
    BY <1>3, <1>4 DEF Turns, Sweeps
<1>5. CASE write[w] # NoCall /\ (SyncStatus(w) \/ Revoke(w) \/ Flush(w))
    <2>1. ~Commit(w)
        BY <1>5 DEF SyncStatus, Revoke, Flush, Commit, Writes
    <2>2. ASSUME NEW step \in {"revoke", "flush", "smembers", "status"}, Proceeds(w, step)
          PROVE  \E c \in WriteState \cup {NoCall} : Turns(w, c) /\ ~Sweeps(c)
        BY <1>5, <2>2, Proceeding DEF WriteStage, Sweeps
    <2>3. CASE SyncStatus(w)
        BY <1>3, <1>4, <1>5, <2>1, <2>2, <2>3 DEF SyncStatus, Abort
    <2>4. CASE Revoke(w)
        BY <1>3, <1>4, <1>5, <2>1, <2>2, <2>4 DEF Revoke, Abort
    <2>5. ASSUME NEW next \in {"smembers", "status"},
                 write' = [write EXCEPT ![w].step = next, ![w].locked = TRUE]
          PROVE  \E c \in WriteState \cup {NoCall} : Turns(w, c) /\ ~Sweeps(c)
        <3> DEFINE c == [write[w] EXCEPT !.step = next, !.locked = TRUE]
        <3>1. write[w] \in WriteState
            BY <1>1, <1>5
        <3>2. c \in WriteState /\ c.step = next /\ c.target = write[w].target
            BY <3>1 DEF WriteState, WriteStage
        <3>3. write' = [write EXCEPT ![w] = c]
            BY <2>5
        <3> HIDE DEF c
        <3> QED BY <3>2, <3>3 DEF Turns, Sweeps
    <2>6. CASE Flush(w)
        BY <1>3, <1>4, <1>5, <2>1, <2>2, <2>5, <2>6 DEF Flush, Abort
    <2> QED BY <1>5, <2>3, <2>4, <2>6
<1>6. ASSUME write[w] # NoCall,
             SMembers(w) \/ DeleteKeys(w) \/ DeleteIndex(w) \/ InvalidationFails(w)
      PROVE  (\E c \in WriteState : Turns(w, c)) /\ ~Commit(w)
    <2>1. write[w] \in WriteState /\ write[w].target \in User
        BY <1>1, <1>6 DEF WriteState
    <2>2. ~Commit(w)
        BY <1>6 DEF SMembers, DeleteKeys, DeleteIndex, InvalidationFails, Commit, Writes
    <2>3. ASSUME NEW step \in WriteStage, NEW keys \in SUBSET Token,
                 write' = [write EXCEPT ![w].step = step, ![w].keys = keys]
          PROVE  \E c \in WriteState : Turns(w, c)
        <3> DEFINE c == [write[w] EXCEPT !.step = step, !.keys = keys]
        <3>1. c \in WriteState /\ c.target = write[w].target
            BY <2>1 DEF WriteState
        <3>2. write' = [write EXCEPT ![w] = c]
            BY <2>3
        <3> HIDE DEF c
        <3> QED BY <3>1, <3>2 DEF Turns
    <2>4. CASE SMembers(w)
        <3> DEFINE keys == index[write[w].target].tokens
                   step == IF keys = {} THEN "index" ELSE "keys"
        <3>1. keys \in SUBSET Token
            BY <2>1 DEF Typed, TypeOK, Index, NoIndex
        <3>2. step \in WriteStage
            BY DEF WriteStage
        <3>3. write' = [write EXCEPT ![w].step = step, ![w].keys = keys]
            BY <2>1, <2>4 DEF SMembers
        <3> HIDE DEF keys, step
        <3> QED BY <2>2, <2>3, <3>1, <3>2, <3>3
    <2>5. CASE DeleteKeys(w)
        BY <1>6, <2>2, <2>5, Proceeding DEF DeleteKeys, WriteStage
    <2>6. CASE DeleteIndex(w) \/ InvalidationFails(w)
        BY <2>2, <2>3, <2>6 DEF DeleteIndex, InvalidationFails, WriteStage
    <2> QED BY <1>6, <2>4, <2>5, <2>6
<1>7. CASE Commit(w) \/ Fail(w)
    BY <1>4, <1>7 DEF Commit, Fail, Abort
<1> QED BY <1>2, <1>3, <1>5, <1>6, <1>7 DEF WriteStep

LEMMA WriteTyped ==
    ASSUME Typed, [Next]_vars
    PROVE  write' \in [Writer -> WriteState \cup {NoCall}]
<1>1. write \in [Writer -> WriteState \cup {NoCall}]
    BY DEF Typed, TypeOK
<1>2. ASSUME NEW w \in Writer, WriteStep(w)
      PROVE  write' \in [Writer -> WriteState \cup {NoCall}]
    BY <1>1, <1>2, Writing DEF Turns
<1>3. CASE UNCHANGED write
    BY <1>1, <1>3
<1>4. ASSUME NEW p \in Fill, FillStep(p)
      PROVE  UNCHANGED write
    BY <1>4 DEF FillStep, Miss, Verify, Read, SetEx, SAdd, Expire, GiveUp
<1> QED BY <1>2, <1>3, <1>4 DEF Next, vars, SignIn, RemoveEntry, EvictIndex,
    EditOwn, RegisterCompany, ChangeOwn, Tick

\* Versions count what has been committed of the changes attempted.
LEMMA Counting ==
    ASSUME Typed, [Next]_vars
    PROVE  Counted' /\ writes' \in 0..MaxWrites
           /\ row' \in [User -> [status: Status, version: Version]]
<1>1. /\ row \in [User -> [status: Status, version: Version]]
      /\ writes \in Nat /\ MaxWrites \in Nat /\ writes <= MaxWrites
      /\ IsFiniteSet(Active) /\ Cardinality(Active) \in Nat
      /\ \A u \in User : row[u].version \in Nat /\ row[u].version + Cardinality(Active) <= writes
      /\ write \in [Writer -> WriteState \cup {NoCall}]
    BY FS_CardinalityType, MaxWritesAssumption DEF Typed, TypeOK, Counted, Version
<1>2. CASE UNCHANGED <<write, row, writes>>
    BY <1>1, <1>2 DEF Counted, Active
<1>3. ASSUME NEW w \in Writer, Begin(w)
      PROVE  Counted' /\ writes' \in 0..MaxWrites /\ row' = row
    <2>1. w \notin Active /\ writes' = writes + 1 /\ writes < MaxWrites /\ row' = row
        BY <1>3 DEF Begin, Active, stores
    <2>2. Active' \subseteq Active \cup {w}
        <3>1. PICK c \in WriteState \cup {NoCall} : Turns(w, c)
            BY <1>3, Writing DEF WriteStep
        <3> QED BY <1>1, <3>1 DEF Turns, Active
    <2>3. /\ IsFiniteSet(Active \cup {w})
          /\ Cardinality(Active \cup {w}) = Cardinality(Active) + 1
        BY <1>1, <2>1, FS_AddElement
    <2>4. /\ IsFiniteSet(Active') /\ Cardinality(Active') <= Cardinality(Active) + 1
          /\ Cardinality(Active') \in Nat
        BY <2>2, <2>3, FS_Subset, FS_CardinalityType
    <2> QED BY <1>1, <2>1, <2>4 DEF Counted
<1>4. ASSUME NEW w \in Writer, WriteStep(w), ~Begin(w), ~Commit(w)
      PROVE  Counted' /\ writes' = writes /\ row' = row
    <2>1. writes' = writes /\ row' = row /\ write[w] # NoCall
        BY <1>4, Writing DEF WriteStep, SyncStatus, Revoke, Flush, SMembers, DeleteKeys,
            DeleteIndex, InvalidationFails, Fail, Abort, stores
    <2>2. Active' \subseteq Active
        <3>1. PICK c \in WriteState \cup {NoCall} : Turns(w, c)
            BY <1>4, Writing
        <3> QED BY <1>1, <2>1, <3>1 DEF Turns, Active
    <2>3. /\ IsFiniteSet(Active') /\ Cardinality(Active') <= Cardinality(Active)
          /\ Cardinality(Active') \in Nat
        BY <1>1, <2>2, FS_Subset, FS_CardinalityType
    <2> QED BY <1>1, <2>1, <2>3 DEF Counted
<1>5. ASSUME NEW w \in Writer, Commit(w)
      PROVE  /\ Counted' /\ writes' = writes
             /\ row' \in [User -> [status: Status, version: Version]]
    <2>1. write[w] # NoCall /\ write[w] \in WriteState /\ w \in Active /\ writes' = writes
        BY <1>1, <1>5 DEF Commit, Writes, Active
    <2>2. Active' = Active \ {w}
        BY <1>1, <1>5 DEF Commit, Active
    <2>3. /\ IsFiniteSet(Active') /\ Cardinality(Active') = Cardinality(Active) - 1
          /\ Cardinality(Active') \in Nat
        BY <1>1, <2>1, <2>2, FS_RemoveElement, FS_CardinalityType
    <2> DEFINE u == write[w].target
               new == Changed(row[u], write[w].edit, write[w].status)
    <2>4. u \in User /\ write[w].status \in Status
        BY <2>1 DEF WriteState
    <2>5. row[u].version + 1 <= writes
        BY <1>1, <2>3, <2>4
    <2>6. row[u] \in [status: Status, version: Version] /\ row[u].version + 1 \in Version
        BY <1>1, <2>4, <2>5 DEF Version
    <2>7. /\ new \in [status: Status, version: Version]
          /\ new.version \in {row[u].version, row[u].version + 1}
        BY <2>4, <2>6 DEF Changed
    <2>8. row' = [row EXCEPT ![u] = new]
        BY <1>5 DEF Commit
    <2> HIDE DEF u, new
    <2>9. row' \in [User -> [status: Status, version: Version]]
        BY <1>1, <2>4, <2>7, <2>8
    <2>10. \A v \in User : row'[v].version + Cardinality(Active') <= writes
        BY <1>1, <2>3, <2>4, <2>7, <2>8
    <2> QED BY <2>1, <2>3, <2>9, <2>10 DEF Counted
<1>6. ASSUME NEW u \in User, ChangeOwn(u)
      PROVE  /\ Counted' /\ writes' \in 0..MaxWrites
             /\ row' \in [User -> [status: Status, version: Version]]
    <2> DEFINE new == [row[u] EXCEPT !.version = @ + 1]
    <2>1. writes' = writes + 1 /\ writes < MaxWrites /\ write' = write
          /\ row' = [row EXCEPT ![u] = new]
        BY <1>6 DEF ChangeOwn
    <2>2. row[u].version + 1 \in Version /\ row[u] \in [status: Status, version: Version]
        BY <1>1, <2>1 DEF Version
    <2>3. new \in [status: Status, version: Version] /\ new.version = row[u].version + 1
        BY <2>2
    <2>4. Active' = Active
        BY <2>1 DEF Active
    <2> HIDE DEF new
    <2> QED BY <1>1, <2>1, <2>3, <2>4 DEF Counted
<1>7. ASSUME NEW p \in Fill, FillStep(p)
      PROVE  UNCHANGED <<write, row, writes>>
    BY <1>7 DEF FillStep, Miss, Verify, Read, SetEx, SAdd, Expire, GiveUp, stores
<1>8. (\E t \in Token : SignIn(t) \/ RemoveEntry(t)) \/ Tick \/ (\E u \in User : EvictIndex(u))
        \/ UNCHANGED vars => UNCHANGED <<write, row, writes>>
    BY DEF SignIn, RemoveEntry, Tick, EvictIndex, vars, stores
<1>9. writes \in 0..MaxWrites
    BY <1>1
<1> QED BY <1>1, <1>2, <1>3, <1>4, <1>5, <1>6, <1>7, <1>8, <1>9
    DEF Next, WriteStep, EditOwn, RegisterCompany

LEMMA RedisTyped ==
    ASSUME Typed, [Next]_vars
    PROVE  entry' \in [Token -> Entry] /\ index' \in [User -> Index]
<1>1. /\ entry \in [Token -> Entry] /\ index \in [User -> Index]
      /\ NoEntry \in Entry /\ NoIndex \in Index
      /\ Lifetime \in Nat /\ Lifetime >= 1 /\ Owner \in [Token -> User]
    BY LifetimeAssumption, OwnerAssumption DEF Typed, TypeOK, Entry, Index
<1>2. CASE Tick
    <2>1. ASSUME NEW t \in Token
          PROVE  entry'[t] \in Entry
        <3>1. CASE Older(entry[t].ttl) = 0 \/ ~Cached(t)
            BY <1>1, <1>2, <3>1 DEF Tick
        <3>2. CASE Older(entry[t].ttl) # 0 /\ Cached(t)
            <4>1. entry[t] \in [version: Version, ttl: 1..Forever]
                BY <1>1, <3>2 DEF Cached, NoEntry, Entry
            <4>2. Older(entry[t].ttl) \in 1..Forever
                BY <1>1, <3>2, <4>1 DEF Older, Forever
            <4>3. [entry[t] EXCEPT !.ttl = Older(@)] \in [version: Version, ttl: 1..Forever]
                BY <4>1, <4>2
            <4> QED BY <1>2, <3>2, <4>3 DEF Tick, Entry
        <3> QED BY <3>1, <3>2
    <2>2. ASSUME NEW u \in User
          PROVE  index'[u] \in Index
        <3>1. CASE index[u] = NoIndex \/ Older(index[u].ttl) = 0
            BY <1>1, <1>2, <3>1 DEF Tick
        <3>2. CASE index[u] # NoIndex /\ Older(index[u].ttl) # 0
            <4>1. index[u] \in [tokens: (SUBSET Token) \ {{}}, ttl: 1..Forever]
                BY <1>1, <3>2 DEF Index
            <4>2. Older(index[u].ttl) \in 1..Forever
                BY <1>1, <3>2, <4>1 DEF Older, Forever
            <4>3. [index[u] EXCEPT !.ttl = Older(@)]
                    \in [tokens: (SUBSET Token) \ {{}}, ttl: 1..Forever]
                BY <4>1, <4>2
            <4> QED BY <1>2, <3>2, <4>3 DEF Tick, Index
        <3> QED BY <3>1, <3>2
    <2>3. /\ entry' = [t \in Token |-> entry'[t]]
          /\ index' = [u \in User |-> index'[u]]
        BY <1>2 DEF Tick
    <2> QED BY <2>1, <2>2, <2>3
<1>3. ASSUME NEW p \in Fill, SetEx(p)
      PROVE  entry' \in [Token -> Entry] /\ index' = index
    <2>1. fill[p] \in FillState
        BY <1>3 DEF SetEx, Fills, Typed, TypeOK
    <2>2. Stored(fill[p].version) \in Entry
        BY <1>1, <2>1 DEF Stored, Entry, FillState, Forever
    <2>3. fill[p].token \in Token
        BY <2>1 DEF FillState
    <2> QED BY <1>1, <1>3, <2>2, <2>3 DEF SetEx
<1>4. ASSUME NEW p \in Fill, SAdd(p) \/ Expire(p)
      PROVE  index' \in [User -> Index] /\ entry' = entry
    <2>1. fill[p] \in FillState
        BY <1>4 DEF SAdd, Expire, Fills, Typed, TypeOK
    <2> DEFINE t == fill[p].token  u == Owner[t]
    <2>2. t \in Token /\ u \in User
        BY <1>1, <2>1 DEF FillState
    <2>3. index[u] \in Index
        BY <1>1, <2>2
    <2>4. CASE SAdd(p)
        <3> DEFINE new == [tokens |-> index[u].tokens \cup {t},
                           ttl |-> IF index[u] = NoIndex THEN Forever ELSE index[u].ttl]
        <3>1. index' = [index EXCEPT ![u] = new] /\ entry' = entry
            BY <2>4 DEF SAdd
        <3> HIDE DEF t, u
        <3>2. index[u].tokens \subseteq Token
            BY <2>3 DEF Index, NoIndex
        <3>3. index[u].tokens \cup {t} \in (SUBSET Token) \ {{}}
            BY <2>2, <3>2
        <3>4. (IF index[u] = NoIndex THEN Forever ELSE index[u].ttl) \in 1..Forever
            BY <1>1, <2>3 DEF Index, Forever
        <3>5. new \in Index
            BY <3>3, <3>4 DEF Index
        <3> HIDE DEF new
        <3> QED BY <1>1, <2>2, <3>1, <3>5
    <2>5. CASE Expire(p)
        <3>1. Expiring(index[u]) \in Index
            BY <1>1, <2>3 DEF Expiring, Index, Forever
        <3> QED BY <1>1, <2>5, <3>1 DEF Expire
    <2> QED BY <1>4, <2>4, <2>5
<1>5. ASSUME NEW w \in Writer, WriteStep(w)
      PROVE  entry' \in [Token -> Entry] /\ index' \in [User -> Index]
    <2>1. CASE DeleteKeys(w)
        BY <1>1, <2>1 DEF DeleteKeys, Remaining
    <2>2. CASE DeleteIndex(w)
        BY <1>1, <2>2 DEF DeleteIndex
    <2>3. CASE ~DeleteKeys(w) /\ ~DeleteIndex(w)
        BY <1>1, <1>5, <2>3 DEF WriteStep, Begin, SyncStatus, Revoke, Flush, SMembers,
            InvalidationFails, Commit, Fail, Abort, redis
    <2> QED BY <2>1, <2>2, <2>3
<1>6. ASSUME NEW p \in Fill, FillStep(p), ~SetEx(p), ~SAdd(p), ~Expire(p)
      PROVE  UNCHANGED redis
    BY <1>6 DEF FillStep, Miss, Verify, Read, GiveUp
<1>7. CASE (\E t \in Token : SignIn(t) \/ RemoveEntry(t)) \/ UNCHANGED vars
            \/ (\E u \in User : EvictIndex(u) \/ EditOwn(u) \/ RegisterCompany(u))
    BY <1>1, <1>7
        DEF SignIn, RemoveEntry, EvictIndex, EditOwn, RegisterCompany, ChangeOwn, redis, vars
<1> QED BY <1>1, <1>2, <1>3, <1>4, <1>5, <1>6, <1>7 DEF Next, FillStep, redis

LEMMA FirebaseTyped ==
    ASSUME Typed, [Next]_vars
    PROVE  /\ identity' \in [User -> {"enabled", "disabled", "deleted"}]
           /\ issued' \subseteq Token /\ valid' \subseteq issued' /\ escaped' \subseteq Token
<1>1. /\ identity \in [User -> {"enabled", "disabled", "deleted"}]
      /\ issued \subseteq Token /\ valid \subseteq issued /\ escaped \subseteq Token
    BY DEF Typed, TypeOK
<1>2. ASSUME NEW p \in Fill, FillStep(p)
      PROVE  escaped' \subseteq Token /\ UNCHANGED stores
    <2>1. fill[p] # NoCall => fill[p].token \in Token
        BY DEF Typed, TypeOK, FillState
    <2> QED BY <1>1, <1>2, <2>1 DEF FillStep, Miss, Verify, Read, SetEx, SAdd, Expire, GiveUp, Fills
<1>3. ASSUME NEW w \in Writer, SyncStatus(w)
      PROVE  identity' \in [User -> {"enabled", "disabled", "deleted"}] /\ UNCHANGED escaped
             /\ UNCHANGED <<issued, valid>>
    <2>1. write[w].status \in Status
        BY <1>3 DEF SyncStatus, Writes, Typed, TypeOK, WriteState
    <2>2. (CASE write[w].status = "active"   -> "enabled"
             [] write[w].status = "inactive" -> "disabled"
             [] write[w].status = "deleted"  -> "deleted")
            \in {"enabled", "disabled", "deleted"}
        BY <2>1 DEF Status
    <2> QED BY <1>1, <1>3, <2>2 DEF SyncStatus, Abort, stores
<1>4. ASSUME NEW w \in Writer, WriteStep(w), ~SyncStatus(w)
      PROVE  /\ identity' = identity /\ issued' = issued /\ valid' \subseteq valid
             /\ escaped' \subseteq escaped \cup Token
    BY <1>4 DEF WriteStep, Begin, Revoke, Flush, SMembers, DeleteKeys, DeleteIndex,
        InvalidationFails, Commit, Fail, Abort, Escape, TokensOf, stores
<1>5. CASE \E t \in Token : SignIn(t)
    BY <1>1, <1>5 DEF SignIn
<1>6. CASE (\E t \in Token : RemoveEntry(t)) \/ UNCHANGED vars \/ Tick
            \/ (\E u \in User : EvictIndex(u) \/ EditOwn(u) \/ RegisterCompany(u))
    BY <1>1, <1>6
        DEF RemoveEntry, Tick, EvictIndex, EditOwn, RegisterCompany, ChangeOwn, Escape,
            TokensOf, stores, vars
<1> QED BY <1>1, <1>2, <1>3, <1>4, <1>5, <1>6 DEF Next, stores

LEMMA TypedInvariant == Spec => []Typed
<1>1. Init => Typed
    <2> SUFFICES ASSUME Init
                 PROVE  Typed
        OBVIOUS
    <2>1. Active = {}
        BY DEF Init, Active
    <2>2. Counted
        BY <2>1, FS_EmptySet DEF Counted, Init
    <2> QED BY <2>2, MaxWritesAssumption DEF Init, Typed, TypeOK, Status, Version, Entry, Index
<1>2. Typed /\ [Next]_vars => Typed'
    BY FillTyped, WriteTyped, Counting, RedisTyped, FirebaseTyped DEF Typed, TypeOK
<1> QED BY <1>1, <1>2, PTL DEF Spec

\* Every store and every request in flight keeps its shape.
THEOREM TypeCorrect == Spec => []TypeOK
<1>1. Typed => TypeOK
    BY DEF Typed
<1> QED BY <1>1, TypedInvariant, PTL

(***************************************************************************)
(* The index and the age of the entries                                    *)
(***************************************************************************)

Storing(t) == \E p \in Fill : fill[p] # NoCall /\ fill[p].token = t /\ fill[p].step = "sadd"
Indexing(t) ==
    \E p \in Fill : /\ fill[p] # NoCall /\ fill[p].token = t
                   /\ fill[p].step \in {"sadd", "expire"}

\* A cached token that is not excused is as new as its row; the index names it, or a
\* request is about to see to it; and an invalidation under way will delete it.
Kept(t) ==
    /\ entry[t].ttl <= Lifetime
    /\ Cached(t) /\ t \notin escaped =>
        /\ entry[t].version = row[Owner[t]].version
        /\ Storing(t) \/ t \in index[Owner[t]].tokens
        /\ Indexing(t) \/ (t \in index[Owner[t]].tokens /\ index[Owner[t]].ttl >= entry[t].ttl)
        /\ \A w \in Writer : Sweeping(w, Owner[t]) =>
                write[w].step = "keys" /\ t \in write[w].keys

\* A request that stores without being marked carries the row as it is, and no
\* invalidation has looked past it.
Coming(p) ==
    Fills(p, "setex") /\ ~fill[p].raced =>
        /\ fill[p].version = row[Owner[fill[p].token]].version
        /\ \A w \in Writer : ~Sweeping(w, Owner[fill[p].token])

Coherent == (\A t \in Token : Kept(t)) /\ (\A p \in Fill : Coming(p))

\* Sweeps begin with no step but those of an invalidation.
NoNewSweep ==
    \A w \in Writer, u \in User : Sweeping(w, u)' =>
        Sweeping(w, u) /\ write'[w].step = write[w].step /\ write'[w].keys = write[w].keys

LEMMA Owned ==
    ASSUME Typed
    PROVE  /\ \A t \in Token : Owner[t] \in User
           /\ \A p \in Fill : fill[p] # NoCall =>
                fill[p] \in FillState /\ fill[p].token \in Token /\ Owner[fill[p].token] \in User
BY OwnerAssumption DEF Typed, TypeOK, FillState

LEMMA QuietCoherent ==
    ASSUME Typed, Coherent, UNCHANGED <<row, entry, index, fill, escaped>>, NoNewSweep
    PROVE  Coherent'
<1>1. ASSUME NEW t \in Token
      PROVE  Kept(t)'
    BY Owned DEF Coherent, Kept, Cached, Storing, Indexing, NoNewSweep
<1>2. ASSUME NEW p \in Fill
      PROVE  Coming(p)'
    <2> SUFFICES ASSUME Fills(p, "setex"), ~fill[p].raced
                 PROVE  /\ fill[p].version = row[Owner[fill[p].token]].version
                        /\ \A w \in Writer : ~Sweeping(w, Owner[fill[p].token])'
        BY DEF Coming, Fills, Sweeping
    <2>1. PICK u \in User : u = Owner[fill[p].token]
        BY Owned DEF Fills
    <2> QED BY <2>1 DEF Coherent, Coming, NoNewSweep, Sweeping
<1> QED BY <1>1, <1>2 DEF Coherent

\* Steps of a lookup that neither store nor index.
LEMMA EarlyCoherent ==
    ASSUME Typed, Coherent, UNCHANGED <<row, entry, index, write, escaped>>,
           NEW p \in Fill, Miss(p) \/ Verify(p) \/ Read(p)
    PROVE  Coherent'
<1>1. fill \in [Fill -> FillState \cup {NoCall}]
    BY DEF Typed, TypeOK
<1>2. fill[p] # NoCall => fill[p].step \in {"verify", "read"}
    BY DEF Miss, Verify, Read, Fills
<1>3. /\ \A q \in Fill \ {p} : fill'[q] = fill[q]
      /\ fill'[p] # NoCall => fill'[p].step \notin {"sadd", "expire"}
      /\ Fills(p, "setex")' =>
            LET u == Owner[fill'[p].token]
            IN  /\ fill'[p].version = row[u].version
                /\ fill'[p].raced = \E w \in Writer : Sweeping(w, u)
    <2>1. CASE Miss(p)
        BY <1>1, <2>1 DEF Miss, Fills
    <2>2. CASE Ends(p)
        BY <1>1, <2>2 DEF Ends, Fills
    <2>3. CASE Verify(p) /\ ~Ends(p)
        BY <2>3, Going DEF Verify, FillStage, Fills
    <2>4. CASE Read(p) /\ ~Ends(p)
        <3> DEFINE u == Owner[fill[p].token]
                   c == [fill[p] EXCEPT !.step = "setex", !.version = row[u].version,
                                        !.raced = \E w \in Writer : Sweeping(w, u)]
        <3>1. fill[p] \in FillState
            BY <2>4, Owned DEF Read, Fills
        <3>2. /\ c.step = "setex" /\ c.token = fill[p].token /\ c.version = row[u].version
              /\ c.raced = \E w \in Writer : Sweeping(w, u)
            BY <3>1 DEF FillState
        <3>3. fill'[p] = c /\ \A q \in Fill \ {p} : fill'[q] = fill[q]
            BY <1>1, <2>4 DEF Read
        <3> HIDE DEF c
        <3> QED BY <3>2, <3>3
    <2> QED BY <2>1, <2>2, <2>3, <2>4
<1>4. ASSUME NEW t \in Token
      PROVE  Kept(t)'
    <2>1. (Storing(t)' <=> Storing(t)) /\ (Indexing(t)' <=> Indexing(t))
        BY <1>2, <1>3 DEF Storing, Indexing
    <2> QED BY <2>1 DEF Coherent, Kept, Cached, Sweeping
<1>5. ASSUME NEW q \in Fill
      PROVE  Coming(q)'
    <2>1. CASE q = p
        BY <1>3, <2>1 DEF Coming, Sweeping
    <2>2. CASE q # p
        BY <1>3, <2>2 DEF Coherent, Coming, Fills, Sweeping
    <2> QED BY <2>1, <2>2
<1> QED BY <1>4, <1>5 DEF Coherent

LEMMA SetExCoherent ==
    ASSUME Typed, Coherent, NEW p \in Fill, SetEx(p)
    PROVE  Coherent'
<1> DEFINE c == [step |-> "sadd", token |-> fill[p].token, version |-> 0, raced |-> FALSE]
<1>1. PICK t \in Token : t = fill[p].token
    BY Owned DEF SetEx, Fills
<1>2. /\ UNCHANGED <<row, index, write>> /\ Fills(p, "setex")
      /\ entry' = [entry EXCEPT ![t] = Stored(fill[p].version)]
      /\ escaped' = IF fill[p].raced THEN escaped \cup {t} ELSE escaped \ {t}
      /\ entry \in [Token -> Entry] /\ Lifetime \in Nat /\ Lifetime >= 1
    BY <1>1, LifetimeAssumption DEF SetEx, stores, Typed, TypeOK
<1>3. /\ \A q \in Fill \ {p} : fill'[q] = fill[q]
      /\ fill'[p] = c
    BY DEF SetEx, Typed, TypeOK
<1>4. fill'[p] # NoCall /\ fill'[p].step = "sadd" /\ fill'[p].token = t
    <2>1. c \in FillState
        BY <1>1, MaxWritesAssumption DEF FillState, FillStage, Version
    <2>2. c.step = "sadd" /\ c.token = t
        BY <1>1
    <2> HIDE DEF c
    <2> QED BY <1>3, <2>1, <2>2, AbsentAssumption
<1> HIDE DEF c
<1>5. Kept(t)'
    <2>1. entry'[t].ttl = Lifetime /\ entry'[t].version = fill[p].version
        BY <1>2 DEF Stored
    <2>2. Storing(t)' /\ Indexing(t)'
        BY <1>4 DEF Storing, Indexing
    <2>3. t \notin escaped' => ~fill[p].raced
        BY <1>2
    <2>4. Coming(p)
        BY DEF Coherent
    <2>5. ~fill[p].raced => /\ fill[p].version = row[Owner[t]].version
                            /\ \A w \in Writer : ~Sweeping(w, Owner[t])
        BY <1>1, <1>2, <2>4 DEF Coming
    <2> QED BY <1>2, <2>1, <2>2, <2>3, <2>5 DEF Kept, Sweeping
<1>6. ASSUME NEW s \in Token, s # t
      PROVE  Kept(s)'
    <2>1. (Storing(s) => Storing(s)') /\ (Indexing(s) => Indexing(s)')
        BY <1>1, <1>3, <1>6 DEF Storing, Indexing
    <2>2. entry'[s] = entry[s] /\ (s \in escaped' <=> s \in escaped)
        BY <1>2, <1>6
    <2> QED BY <1>2, <2>1, <2>2 DEF Coherent, Kept, Cached, Sweeping
<1>7. ASSUME NEW q \in Fill
      PROVE  Coming(q)'
    <2>1. CASE q = p
        BY <1>4, <2>1 DEF Coming, Fills
    <2>2. CASE q # p
        BY <1>2, <1>3, <2>2 DEF Coherent, Coming, Fills, Sweeping
    <2> QED BY <2>1, <2>2
<1> QED BY <1>5, <1>6, <1>7 DEF Coherent

LEMMA SAddCoherent ==
    ASSUME Typed, Coherent, NEW p \in Fill, SAdd(p)
    PROVE  Coherent'
<1>1. PICK t \in Token : t = fill[p].token
    BY Owned DEF SAdd, Fills
<1> DEFINE new == [tokens |-> index[Owner[t]].tokens \cup {t},
                   ttl |-> IF index[Owner[t]] = NoIndex THEN Forever ELSE index[Owner[t]].ttl]
<1>2. /\ UNCHANGED <<row, entry, write, escaped>> /\ Fills(p, "sadd")
      /\ index' = [index EXCEPT ![Owner[t]] = new]
      /\ index \in [User -> Index] /\ Lifetime \in Nat
    BY <1>1, LifetimeAssumption DEF SAdd, stores, Typed, TypeOK
<1>3. /\ fill'[p] # NoCall /\ fill'[p].step = "expire" /\ fill'[p].token = t
      /\ \A q \in Fill \ {p} : fill'[q] = fill[q]
    BY <1>1, Going DEF SAdd, Fills, FillStage
<1>4. /\ new.tokens = index[Owner[t]].tokens \cup {t}
      /\ index[Owner[t]] # NoIndex => new.ttl = index[Owner[t]].ttl
      /\ index[Owner[t]] = NoIndex => index[Owner[t]].tokens = {}
    BY DEF NoIndex
<1> HIDE DEF new
<1>5. ASSUME NEW s \in Token
      PROVE  Kept(s)'
    <2>1. Kept(s) /\ Owner[s] \in User /\ Owner[t] \in User
        BY Owned DEF Coherent
    <2>2. /\ index[Owner[s]].tokens \subseteq index'[Owner[s]].tokens
          /\ index[Owner[s]] # NoIndex => index'[Owner[s]].ttl = index[Owner[s]].ttl
          /\ index[Owner[s]] = NoIndex => index[Owner[s]].tokens = {}
        BY <1>2, <1>4, <2>1 DEF NoIndex
    <2>3. CASE s = t
        <3>1. t \in index'[Owner[t]].tokens /\ Indexing(t)'
            BY <1>2, <1>3, <1>4, <2>1 DEF Indexing
        <3> QED BY <1>2, <2>1, <2>3, <3>1 DEF Kept, Cached, Sweeping
    <2>4. CASE s # t
        <3>1. (Storing(s) => Storing(s)') /\ (Indexing(s) => Indexing(s)')
            BY <1>1, <1>3, <2>4 DEF Storing, Indexing
        <3> QED BY <1>2, <2>1, <2>2, <3>1 DEF Kept, Cached, Sweeping
    <2> QED BY <2>3, <2>4
<1>6. ASSUME NEW q \in Fill
      PROVE  Coming(q)'
    <2>1. CASE q = p
        BY <1>3, <2>1 DEF Coming, Fills
    <2>2. CASE q # p
        BY <1>2, <1>3, <2>2 DEF Coherent, Coming, Fills, Sweeping
    <2> QED BY <2>1, <2>2
<1> QED BY <1>5, <1>6 DEF Coherent

LEMMA ExpireCoherent ==
    ASSUME Typed, Coherent, NEW p \in Fill, Expire(p)
    PROVE  Coherent'
<1>1. PICK t \in Token : t = fill[p].token
    BY Owned DEF Expire, Fills
<1>2. /\ UNCHANGED <<row, entry, write, escaped>> /\ Fills(p, "expire")
      /\ index' = [index EXCEPT ![Owner[t]] = Expiring(index[Owner[t]])]
      /\ index \in [User -> Index] /\ Lifetime \in Nat
      /\ fill' = [fill EXCEPT ![p] = NoCall]
      /\ fill \in [Fill -> FillState \cup {NoCall}]
    BY <1>1, LifetimeAssumption DEF Expire, Ends, stores, Typed, TypeOK
<1>3. fill'[p] = NoCall /\ \A q \in Fill \ {p} : fill'[q] = fill[q]
    BY <1>2
<1>4. ASSUME NEW u \in User
      PROVE  /\ index'[u].tokens = index[u].tokens
             /\ index'[u] = index[u] \/ (index'[u].ttl = Lifetime /\ u = Owner[t])
             /\ u = Owner[t] /\ index[u].tokens # {} => index'[u].ttl = Lifetime
    <2>1. CASE index[u] = NoIndex
        BY <1>2, <2>1 DEF Expiring, NoIndex
    <2>2. CASE index[u] # NoIndex
        <3>1. index[u] \in [tokens: (SUBSET Token) \ {{}}, ttl: 1..Forever]
            BY <1>2, <2>2 DEF Index
        <3>2. /\ Expiring(index[u]).tokens = index[u].tokens
              /\ Expiring(index[u]).ttl = Lifetime
            BY <2>2, <3>1 DEF Expiring
        <3> QED BY <1>2, <3>2
    <2> QED BY <2>1, <2>2
<1>5. ASSUME NEW s \in Token
      PROVE  Kept(s)'
    <2>1. Kept(s) /\ Owner[s] \in User
        BY Owned DEF Coherent
    <2>2. Storing(s) => Storing(s)'
        BY <1>2, <1>3 DEF Storing, Fills
    <2>3. Storing(s)' => Indexing(s)'
        BY DEF Storing, Indexing
    <2>4. s # t => (Indexing(s) => Indexing(s)')
        BY <1>1, <1>3 DEF Indexing
    <2> QED BY <1>2, <1>4, <2>1, <2>2, <2>3, <2>4 DEF Kept, Cached, Sweeping
<1>6. ASSUME NEW q \in Fill
      PROVE  Coming(q)'
    BY <1>2, <1>3 DEF Coherent, Coming, Fills, Sweeping
<1> QED BY <1>5, <1>6 DEF Coherent

LEMMA GiveUpCoherent ==
    ASSUME Typed, Coherent, NEW p \in Fill, GiveUp(p)
    PROVE  Coherent'
<1>1. PICK t \in Token : t = fill[p].token
    BY Owned DEF GiveUp
<1>2. /\ UNCHANGED <<row, entry, index, write>>
      /\ escaped' = IF fill[p].step \in {"sadd", "expire"} /\ Cached(t)
                    THEN escaped \cup {t} ELSE escaped
      /\ fill' = [fill EXCEPT ![p] = NoCall]
      /\ fill \in [Fill -> FillState \cup {NoCall}]
    BY <1>1 DEF GiveUp, Ends, stores, redis, Typed, TypeOK
<1>3. fill'[p] = NoCall /\ \A q \in Fill \ {p} : fill'[q] = fill[q]
    BY <1>2
<1>4. ASSUME NEW s \in Token
      PROVE  Kept(s)'
    <2>1. Kept(s)
        BY DEF Coherent
    <2>2. CASE s = t /\ fill[p].step \in {"sadd", "expire"}
        BY <1>2, <2>1, <2>2 DEF Kept, Cached
    <2>3. CASE ~(s = t /\ fill[p].step \in {"sadd", "expire"})
        <3>1. (Storing(s) => Storing(s)') /\ (Indexing(s) => Indexing(s)')
            BY <1>1, <1>3, <2>3 DEF Storing, Indexing
        <3> QED BY <1>2, <2>1, <3>1 DEF Kept, Cached, Sweeping
    <2> QED BY <2>2, <2>3
<1>5. ASSUME NEW q \in Fill
      PROVE  Coming(q)'
    BY <1>2, <1>3 DEF Coherent, Coming, Fills, Sweeping
<1> QED BY <1>4, <1>5 DEF Coherent

LEMMA SMembersCoherent ==
    ASSUME Typed, Coherent, NEW w \in Writer, SMembers(w)
    PROVE  Coherent'
<1>1. PICK u \in User : u = write[w].target
    BY DEF SMembers, Writes, Typed, TypeOK, WriteState
<1> DEFINE keys == index[u].tokens
           c == [write[w] EXCEPT !.keys = keys, !.step = IF keys = {} THEN "index" ELSE "keys"]
<1>2. /\ UNCHANGED <<row, entry, index>> /\ fill' = Racing(u)
      /\ write' = [write EXCEPT ![w] = c]
      /\ write \in [Writer -> WriteState \cup {NoCall}] /\ write[w] \in WriteState
    BY <1>1 DEF SMembers, Writes, stores, redis, Typed, TypeOK
<1>3. /\ c.keys = keys /\ c.target = u /\ c.step \in {"index", "keys"}
      /\ keys # {} => c.step = "keys"
    BY <1>1, <1>2 DEF WriteState
<1>4. escaped \subseteq escaped'
      /\ \A t \in Token : Owner[t] = u /\ Cached(t) /\ t \notin keys /\ Storing(t) => t \in escaped'
    BY <1>1 DEF SMembers, TokensOf, Storing, FillsOf, Fills
<1> HIDE DEF keys, c
<1>5. /\ write'[w] = c
      /\ \A x \in Writer \ {w} : write'[x] = write[x]
    BY <1>2
<1>6. ASSUME NEW t \in Token
      PROVE  Kept(t)'
    <2>1. Kept(t) /\ Owner[t] \in User
        BY Owned DEF Coherent
    <2>2. (Storing(t)' <=> Storing(t)) /\ (Indexing(t)' <=> Indexing(t))
        BY <1>2, Marking DEF Storing, Indexing
    <2>3. ASSUME t \notin escaped', Cached(t), NEW x \in Writer, Sweeping(x, Owner[t])'
          PROVE  write'[x].step = "keys" /\ t \in write'[x].keys
        <3>1. CASE x = w
            <4>1. Owner[t] = u
                BY <1>3, <1>5, <2>3, <3>1 DEF Sweeping
            <4>2. t \in keys
                BY <1>4, <2>1, <2>3, <4>1 DEF Kept, keys
            <4> QED BY <1>3, <1>5, <3>1, <4>2
        <3>2. CASE x # w
            BY <1>4, <1>5, <2>1, <2>3, <3>2 DEF Kept, Sweeping
        <3> QED BY <3>1, <3>2
    <2> QED BY <1>2, <1>4, <2>1, <2>2, <2>3 DEF Kept, Cached
<1>7. ASSUME NEW p \in Fill
      PROVE  Coming(p)'
    <2> SUFFICES ASSUME Fills(p, "setex")', ~fill'[p].raced
                 PROVE  /\ fill'[p].version = row[Owner[fill'[p].token]].version
                        /\ \A x \in Writer : Sweeps(write'[x]) =>
                                write'[x].target # Owner[fill'[p].token]
        BY <1>2 DEF Coming, Sweeping, Sweeps
    <2>1. PICK t \in Token : t = fill[p].token
        BY <1>2, Marking, Owned DEF Fills
    <2>2. /\ Fills(p, "setex") /\ ~fill[p].raced /\ Owner[t] # u
          /\ fill'[p].version = fill[p].version /\ fill'[p].token = t
        BY <1>2, <2>1, Marking DEF Fills
    <2>3. Coming(p)
        BY DEF Coherent
    <2>4. \A x \in Writer : Sweeps(write[x]) => write[x].target # Owner[t]
        BY <2>1, <2>2, <2>3 DEF Coming, Sweeping, Sweeps
    <2> QED BY <1>2, <1>3, <1>5, <2>1, <2>2, <2>3, <2>4 DEF Coming
<1> QED BY <1>6, <1>7 DEF Coherent

LEMMA DeleteKeysCoherent ==
    ASSUME Typed, Coherent, NEW w \in Writer, DeleteKeys(w)
    PROVE  Coherent'
<1> DEFINE c == [write[w] EXCEPT !.step = "index"]
<1>1. /\ UNCHANGED <<row, index, fill>> /\ Writes(w, "keys")
      /\ entry' = Remaining(write[w].keys) /\ escaped' = escaped \ write[w].keys
      /\ write' = [write EXCEPT ![w] = c] /\ write[w] \in WriteState
      /\ write \in [Writer -> WriteState \cup {NoCall}]
    BY DEF DeleteKeys, Proceeds, Writes, stores, Typed, TypeOK
<1>2. c.target = write[w].target /\ c.step = "index"
    BY <1>1 DEF WriteState
<1> HIDE DEF c
<1>3. write'[w] = c /\ \A x \in Writer \ {w} : write'[x] = write[x]
    BY <1>1
<1>4. ASSUME NEW t \in Token
      PROVE  Kept(t)'
    <2>1. Kept(t) /\ Owner[t] \in User /\ 0 <= Lifetime
        BY Owned, LifetimeAssumption DEF Coherent
    <2>2. CASE t \in write[w].keys
        <3>1. entry'[t].ttl = 0
            BY <1>1, <2>2 DEF Remaining, NoEntry
        <3> QED BY <2>1, <3>1 DEF Kept, Cached
    <2>3. CASE t \notin write[w].keys
        <3>1. entry'[t] = entry[t] /\ (t \in escaped' <=> t \in escaped)
            BY <1>1, <2>3 DEF Remaining
        <3>2. ASSUME Cached(t), t \notin escaped, NEW x \in Writer, Sweeping(x, Owner[t])'
              PROVE  write'[x].step = "keys" /\ t \in write'[x].keys
            <4>1. CASE x = w
                <5>1. Sweeping(w, Owner[t])
                    BY <1>1, <1>2, <1>3, <3>2, <4>1 DEF Sweeping, Writes
                <5> QED BY <2>1, <2>3, <3>2, <5>1 DEF Kept
            <4>2. CASE x # w
                BY <1>3, <2>1, <3>2, <4>2 DEF Kept, Sweeping
            <4> QED BY <4>1, <4>2
        <3> QED BY <1>1, <2>1, <3>1, <3>2 DEF Kept, Cached, Storing, Indexing
    <2> QED BY <2>2, <2>3
<1>5. ASSUME NEW p \in Fill
      PROVE  Coming(p)'
    <2>1. Coming(p)
        BY DEF Coherent
    <2>2. ASSUME NEW x \in Writer, NEW u \in User, Sweeping(x, u)'
          PROVE  Sweeping(x, u)
        BY <1>1, <1>2, <1>3, <2>2 DEF Sweeping, Writes
    <2>3. Fills(p, "setex") => Owner[fill[p].token] \in User
        BY Owned DEF Fills
    <2> SUFFICES ASSUME Fills(p, "setex"), ~fill[p].raced
                 PROVE  /\ fill[p].version = row[Owner[fill[p].token]].version
                        /\ \A x \in Writer : ~Sweeping(x, Owner[fill[p].token])'
        BY <1>1 DEF Coming, Fills, Sweeping
    <2>4. PICK u \in User : u = Owner[fill[p].token]
        BY <2>3
    <2> QED BY <1>1, <2>1, <2>2, <2>4 DEF Coming, Sweeping
<1> QED BY <1>4, <1>5 DEF Coherent

LEMMA DeleteIndexCoherent ==
    ASSUME Typed, Coherent, NEW w \in Writer, DeleteIndex(w)
    PROVE  Coherent'
<1> DEFINE c == [write[w] EXCEPT !.step = "commit", !.keys = {}]
<1>1. /\ UNCHANGED <<row, entry, fill, escaped>> /\ Writes(w, "index")
      /\ index' = [index EXCEPT ![write[w].target] = NoIndex]
      /\ write' = [write EXCEPT ![w] = c] /\ write[w] \in WriteState
      /\ write \in [Writer -> WriteState \cup {NoCall}] /\ index \in [User -> Index]
    BY DEF DeleteIndex, Writes, stores, Typed, TypeOK
<1>2. c.target = write[w].target /\ c.step = "commit"
    BY <1>1 DEF WriteState
<1> HIDE DEF c
<1>3. write'[w] = c /\ \A x \in Writer \ {w} : write'[x] = write[x]
    BY <1>1
<1>4. ASSUME NEW x \in Writer, NEW u \in User, Sweeping(x, u)'
      PROVE  Sweeping(x, u) /\ (x # w => write'[x] = write[x])
    BY <1>1, <1>2, <1>3, <1>4 DEF Sweeping, Writes
<1>5. ASSUME NEW t \in Token
      PROVE  Kept(t)'
    <2>1. Kept(t) /\ Owner[t] \in User
        BY Owned DEF Coherent
    <2>2. Owner[t] = write[w].target => ~(Cached(t) /\ t \notin escaped)
        BY <1>1, <2>1 DEF Kept, Sweeping, Writes
    <2>3. Owner[t] # write[w].target =>
            index'[Owner[t]] = index[Owner[t]] /\ ~Sweeping(w, Owner[t])
        BY <1>1, <2>1 DEF Sweeping
    <2> QED BY <1>1, <1>4, <2>1, <2>2, <2>3 DEF Kept, Cached, Storing, Indexing
<1>6. ASSUME NEW p \in Fill
      PROVE  Coming(p)'
    <2> SUFFICES ASSUME Fills(p, "setex"), ~fill[p].raced
                 PROVE  /\ fill[p].version = row[Owner[fill[p].token]].version
                        /\ \A x \in Writer : ~Sweeping(x, Owner[fill[p].token])'
        BY <1>1 DEF Coming, Fills, Sweeping
    <2>1. PICK u \in User : u = Owner[fill[p].token]
        BY Owned DEF Fills
    <2> QED BY <1>1, <1>4, <2>1 DEF Coherent, Coming, Sweeping
<1> QED BY <1>5, <1>6 DEF Coherent

\* What is cached of u is excused and what is on its way is marked.
LEMMA Escaping ==
    ASSUME Typed, Coherent, NEW u \in User, Escape(u), UNCHANGED <<entry, index>>,
           \A v \in User \ {u} : row'[v] = row[v],
           \A x \in Writer, v \in User \ {u} : Sweeping(x, v)' =>
                Sweeping(x, v) /\ write'[x].step = write[x].step /\ write'[x].keys = write[x].keys
    PROVE  Coherent'
<1>1. /\ fill' = Racing(u)
      /\ escaped \subseteq escaped'
      /\ \A t \in Token : Owner[t] = u /\ Cached(t) => t \in escaped'
    BY DEF Escape, TokensOf
<1>2. ASSUME NEW t \in Token
      PROVE  Kept(t)'
    <2>1. Kept(t) /\ Owner[t] \in User
        BY Owned DEF Coherent
    <2>2. (Storing(t)' <=> Storing(t)) /\ (Indexing(t)' <=> Indexing(t))
        BY <1>1, Marking DEF Storing, Indexing
    <2> QED BY <1>1, <2>1, <2>2 DEF Kept, Cached
<1>3. ASSUME NEW p \in Fill, fill'[p] # NoCall, fill'[p].step = "setex", ~fill'[p].raced
      PROVE  /\ fill'[p].version = row'[Owner[fill'[p].token]].version
             /\ \A x \in Writer : Sweeps(write'[x]) => write'[x].target # Owner[fill'[p].token]
    <2>1. PICK t \in Token : t = fill[p].token
        BY <1>1, <1>3, Marking, Owned
    <2>2. /\ Fills(p, "setex") /\ ~fill[p].raced /\ Owner[t] # u /\ Owner[t] \in User
          /\ fill'[p].version = fill[p].version /\ fill'[p].token = t
        BY <1>1, <1>3, <2>1, Marking, Owned DEF Fills
    <2>3. /\ fill[p].version = row[Owner[t]].version
          /\ \A x \in Writer : ~Sweeping(x, Owner[t])
        BY <2>1, <2>2 DEF Coherent, Coming
    <2>4. \A x \in Writer : ~Sweeping(x, Owner[t])'
        BY <2>2, <2>3
    <2> QED BY <2>2, <2>3, <2>4 DEF Sweeping, Sweeps
<1>4. ASSUME NEW p \in Fill
      PROVE  Coming(p)'
    BY <1>3 DEF Coming, Fills, Sweeping, Sweeps
<1> QED BY <1>2, <1>4 DEF Coherent

LEMMA InvalidationFailsCoherent ==
    ASSUME Typed, Coherent, NEW w \in Writer, InvalidationFails(w)
    PROVE  Coherent'
<1> DEFINE c == [write[w] EXCEPT !.step = "commit", !.keys = {}]
<1>1. PICK u \in User : u = write[w].target
    BY DEF InvalidationFails, Typed, TypeOK, WriteState
<1>2. /\ UNCHANGED <<row, entry, index>> /\ write[w] # NoCall
      /\ write' = [write EXCEPT ![w] = c] /\ write[w] \in WriteState
      /\ write \in [Writer -> WriteState \cup {NoCall}]
      /\ (write[w].step = "index" /\ UNCHANGED <<fill, escaped>>) \/ Escape(u)
    BY <1>1 DEF InvalidationFails, Writes, stores, redis, Typed, TypeOK
<1>3. c.target = u /\ c.step = "commit"
    BY <1>1, <1>2 DEF WriteState
<1> HIDE DEF c
<1>4. write'[w] = c /\ \A x \in Writer \ {w} : write'[x] = write[x]
    BY <1>2
<1>5. ASSUME NEW x \in Writer, NEW v \in User \ {u}, Sweeping(x, v)'
      PROVE  Sweeping(x, v) /\ write'[x].step = write[x].step /\ write'[x].keys = write[x].keys
    BY <1>3, <1>4, <1>5 DEF Sweeping
<1>6. CASE Escape(u)
    BY <1>2, <1>5, <1>6, Escaping
<1>7. CASE write[w].step = "index" /\ UNCHANGED <<fill, escaped>>
    <2>1. Sweeping(w, u)
        BY <1>1, <1>2, <1>7 DEF Sweeping
    <2>2. ASSUME NEW x \in Writer, NEW v \in User, Sweeping(x, v)'
          PROVE  Sweeping(x, v) /\ (x # w => write'[x] = write[x])
        BY <1>1, <1>3, <1>4, <2>1, <2>2 DEF Sweeping
    <2>3. ASSUME NEW t \in Token
          PROVE  Kept(t)'
        <3>1. Kept(t) /\ Owner[t] \in User
            BY Owned DEF Coherent
        <3>2. Owner[t] = u => ~(Cached(t) /\ t \notin escaped)
            BY <1>7, <2>1, <3>1 DEF Kept
        <3>3. Owner[t] # u => ~Sweeping(w, Owner[t])
            BY <1>1 DEF Sweeping
        <3> QED BY <1>2, <1>7, <2>2, <3>1, <3>2, <3>3 DEF Kept, Cached, Storing, Indexing
    <2>4. ASSUME NEW p \in Fill
          PROVE  Coming(p)'
        <3> SUFFICES ASSUME Fills(p, "setex"), ~fill[p].raced
                     PROVE  /\ fill[p].version = row[Owner[fill[p].token]].version
                            /\ \A x \in Writer : Sweeps(write'[x]) =>
                                    write'[x].target # Owner[fill[p].token]
            BY <1>2, <1>7 DEF Coming, Fills, Sweeping, Sweeps
        <3>1. PICK v \in User : v = Owner[fill[p].token]
            BY Owned DEF Fills
        <3>2. \A x \in Writer : ~Sweeping(x, v)'
            BY <2>2, <3>1 DEF Coherent, Coming
        <3> QED BY <3>1, <3>2 DEF Coherent, Coming, Sweeping, Sweeps
    <2> QED BY <2>3, <2>4 DEF Coherent
<1> QED BY <1>2, <1>6, <1>7

LEMMA CommitCoherent ==
    ASSUME Typed, Coherent, NEW w \in Writer, Commit(w)
    PROVE  Coherent'
<1>1. PICK u \in User : u = write[w].target
    BY DEF Commit, Writes, Typed, TypeOK, WriteState
<1>2. /\ UNCHANGED <<entry, index, fill, escaped>> /\ Sweeping(w, u) /\ write[w].step = "commit"
      /\ \A v \in User \ {u} : row'[v] = row[v]
      /\ write' = [write EXCEPT ![w] = NoCall]
      /\ write \in [Writer -> WriteState \cup {NoCall}]
    BY <1>1 DEF Commit, Writes, Sweeping, redis, Typed, TypeOK
<1>3. \A x \in Writer : write'[x] = NoCall \/ write'[x] = write[x]
    BY <1>2
<1>4. ASSUME NEW t \in Token
      PROVE  Kept(t)'
    <2>1. Kept(t) /\ Owner[t] \in User
        BY Owned DEF Coherent
    <2>2. Owner[t] = u => ~(Cached(t) /\ t \notin escaped)
        BY <1>2, <2>1 DEF Kept
    <2> QED BY <1>2, <1>3, <2>1, <2>2 DEF Kept, Cached, Storing, Indexing, Sweeping
<1>5. ASSUME NEW p \in Fill
      PROVE  Coming(p)'
    <2> SUFFICES ASSUME Fills(p, "setex"), ~fill[p].raced
                 PROVE  /\ fill[p].version = row'[Owner[fill[p].token]].version
                        /\ \A x \in Writer : Sweeps(write'[x]) =>
                                write'[x].target # Owner[fill[p].token]
        BY <1>2 DEF Coming, Fills, Sweeping, Sweeps
    <2>1. PICK v \in User : v = Owner[fill[p].token]
        BY Owned DEF Fills
    <2>2. /\ fill[p].version = row[v].version /\ \A x \in Writer : ~Sweeping(x, v)
        BY <2>1 DEF Coherent, Coming
    <2>3. v # u
        BY <1>2, <2>2
    <2> QED BY <1>2, <1>3, <2>1, <2>2, <2>3 DEF Sweeping, Sweeps
<1> QED BY <1>4, <1>5 DEF Coherent

LEMMA ChangeOwnCoherent ==
    ASSUME Typed, Coherent, NEW u \in User, ChangeOwn(u)
    PROVE  Coherent'
<1>1. /\ UNCHANGED <<entry, index, write>> /\ Escape(u)
      /\ \A v \in User \ {u} : row'[v] = row[v]
    BY DEF ChangeOwn, redis, Typed, TypeOK
<1> QED BY <1>1, Escaping DEF Sweeping

\* Removals from Redis: an entry, or an index whose tokens are excused.
LEMMA RemovalsCoherent ==
    ASSUME Typed, Coherent,
           (\E t \in Token : RemoveEntry(t)) \/ (\E u \in User : EvictIndex(u))
    PROVE  Coherent'
<1>1. UNCHANGED <<row, fill, write>>
    BY DEF RemoveEntry, EvictIndex, stores
<1>2. ASSUME NEW p \in Fill
      PROVE  Coming(p)'
    BY <1>1 DEF Coherent, Coming, Fills, Sweeping
<1>3. ASSUME NEW t \in Token
      PROVE  Kept(t)'
    <2>1. Kept(t) /\ Owner[t] \in User /\ 0 <= Lifetime
        BY Owned, LifetimeAssumption DEF Coherent
    <2>2. ASSUME NEW s \in Token, RemoveEntry(s)
          PROVE  index' = index
                 /\ (entry'[t].ttl = 0 \/ (entry'[t] = entry[t] /\ (t \in escaped' <=> t \in escaped)))
        BY <2>2 DEF RemoveEntry, NoEntry, Typed, TypeOK
    <2>3. ASSUME NEW u \in User, EvictIndex(u)
          PROVE  /\ entry' = entry /\ escaped \subseteq escaped'
                 /\ Owner[t] = u /\ Cached(t) => t \in escaped'
                 /\ Owner[t] # u => index'[Owner[t]] = index[Owner[t]]
        BY <2>1, <2>3 DEF EvictIndex, TokensOf, Typed, TypeOK
    <2>4. CASE \E s \in Token : RemoveEntry(s)
        BY <1>1, <2>1, <2>2, <2>4 DEF Kept, Cached, Storing, Indexing, Sweeping
    <2>5. CASE \E u \in User : EvictIndex(u)
        BY <1>1, <2>1, <2>3, <2>5 DEF Kept, Cached, Storing, Indexing, Sweeping
    <2> QED BY <2>4, <2>5
<1> QED BY <1>2, <1>3 DEF Coherent

LEMMA TickCoherent ==
    ASSUME Typed, Coherent, Tick
    PROVE  Coherent'
<1>1. UNCHANGED <<row, fill, write>> /\ Lifetime \in Nat /\ Lifetime >= 1
    BY LifetimeAssumption DEF Tick, stores
<1>2. ASSUME NEW p \in Fill
      PROVE  Coming(p)'
    BY <1>1 DEF Coherent, Coming, Fills, Sweeping
<1>3. ASSUME NEW t \in Token
      PROVE  Kept(t)'
    <2>1. /\ Kept(t) /\ Owner[t] \in User /\ entry[t] \in Entry /\ index[Owner[t]] \in Index
        BY Owned DEF Coherent, Typed, TypeOK
    <2> DEFINE i == index[Owner[t]]
    <2>2. CASE entry'[t] = NoEntry
        BY <1>1, <2>2 DEF Kept, Cached, NoEntry
    <2>3. CASE entry'[t] # NoEntry
        <3>1. /\ Cached(t) /\ Older(entry[t].ttl) # 0
              /\ entry'[t] = [entry[t] EXCEPT !.ttl = Older(@)]
            BY <2>3 DEF Tick
        <3>2. entry[t] \in [version: Version, ttl: 1..Forever] /\ entry[t].ttl <= Lifetime
            BY <2>1, <3>1 DEF Entry, Cached, NoEntry, Kept
        <3>3. /\ entry'[t].ttl = entry[t].ttl - 1 /\ entry'[t].ttl >= 1
              /\ entry'[t].version = entry[t].version
            BY <1>1, <3>1, <3>2 DEF Older, Forever
        <3>4. entry'[t].ttl <= Lifetime
            BY <1>1, <3>2, <3>3
        <3> SUFFICES ASSUME t \notin escaped'
                     PROVE  /\ entry'[t].version = row[Owner[t]].version
                            /\ Storing(t) \/ t \in index'[Owner[t]].tokens
                            /\ Indexing(t) \/ (t \in index'[Owner[t]].tokens
                                                /\ index'[Owner[t]].ttl >= entry'[t].ttl)
                            /\ \A w \in Writer : Sweeping(w, Owner[t]) =>
                                    write[w].step = "keys" /\ t \in write[w].keys
            BY <1>1, <3>4 DEF Kept, Cached, Storing, Indexing, Sweeping
        <3>5. /\ t \notin escaped
              /\ index'[Owner[t]] = NoIndex => ~\E p \in FillsOf(Owner[t]) :
                    Fills(p, "expire") /\ fill[p].token = t
            BY <2>3 DEF Tick
        <3>6. /\ entry[t].version = row[Owner[t]].version
              /\ Storing(t) \/ t \in i.tokens
              /\ Indexing(t) \/ (t \in i.tokens /\ i.ttl >= entry[t].ttl)
              /\ \A w \in Writer : Sweeping(w, Owner[t]) =>
                    write[w].step = "keys" /\ t \in write[w].keys
            BY <2>1, <3>1, <3>5 DEF Kept
        <3>7. /\ index'[Owner[t]] = NoIndex => i = NoIndex \/ Older(i.ttl) = 0
              /\ index'[Owner[t]] # NoIndex =>
                    i # NoIndex /\ index'[Owner[t]] = [i EXCEPT !.ttl = Older(@)]
            <4>1. \/ (i = NoIndex \/ Older(i.ttl) = 0) /\ index'[Owner[t]] = NoIndex
                  \/ i # NoIndex /\ index'[Owner[t]] = [i EXCEPT !.ttl = Older(@)]
                        /\ Older(i.ttl) # 0
                BY <2>1 DEF Tick
            <4>2. i # NoIndex => [i EXCEPT !.ttl = Older(@)].ttl = Older(i.ttl)
                BY <2>1 DEF Index
            <4> HIDE DEF i
            <4> QED BY <4>1, <4>2 DEF NoIndex
        <3> HIDE DEF i
        <3>8. CASE index'[Owner[t]] # NoIndex
            <4>1. i \in [tokens: (SUBSET Token) \ {{}}, ttl: 1..Forever]
                BY <2>1, <3>7, <3>8 DEF Index, i
            <4>2. index'[Owner[t]].tokens = i.tokens /\ index'[Owner[t]].ttl = Older(i.ttl)
                BY <3>7, <3>8, <4>1
            <4>3. i.ttl >= entry[t].ttl => Older(i.ttl) >= entry'[t].ttl
                BY <1>1, <3>2, <3>3, <4>1 DEF Older, Forever
            <4> QED BY <3>3, <3>6, <4>2, <4>3
        <3>9. CASE index'[Owner[t]] = NoIndex
            <4>1. ~\E p \in Fill : fill[p] # NoCall /\ fill[p].token = t /\ fill[p].step = "expire"
                BY <3>5, <3>9 DEF FillsOf, Fills
            <4>2. Indexing(t) => Storing(t)
                BY <4>1 DEF Indexing, Storing
            <4>3. ~(t \in i.tokens /\ i.ttl >= entry[t].ttl)
                <5>1. CASE i = NoIndex
                    BY <5>1 DEF NoIndex
                <5>2. CASE i # NoIndex
                    <6>1. i.ttl \in 1..Forever /\ Older(i.ttl) = 0
                        BY <2>1, <3>7, <3>9, <5>2 DEF Index, i
                    <6> QED BY <1>1, <3>2, <3>3, <6>1 DEF Older, Forever
                <5> QED BY <5>1, <5>2
            <4>4. Storing(t) => Indexing(t)
                BY DEF Storing, Indexing
            <4> QED BY <3>3, <3>6, <4>2, <4>3, <4>4
        <3> QED BY <3>8, <3>9
    <2> QED BY <2>2, <2>3
<1> QED BY <1>2, <1>3 DEF Coherent

LEMMA CoherentInvariant == Spec => []Coherent
<1>1. Init => Coherent
    BY LifetimeAssumption DEF Init, Coherent, Kept, Coming, Cached, Fills, NoEntry
<1>2. ASSUME Typed, Coherent, [Next]_vars
      PROVE  Coherent'
    <2>1. CASE UNCHANGED vars \/ \E t \in Token : SignIn(t)
        <3>1. UNCHANGED <<row, entry, index, fill, escaped, write>>
            BY <2>1 DEF vars, SignIn, stores, redis
        <3> QED BY <1>2, <3>1, QuietCoherent DEF NoNewSweep, Sweeping
    <2>2. ASSUME NEW p \in Fill, FillStep(p)
          PROVE  Coherent'
        <3>1. CASE Miss(p) \/ Verify(p) \/ Read(p)
            <4>1. UNCHANGED <<row, entry, index, write, escaped>>
                BY <3>1 DEF Miss, Verify, Read, stores, redis
            <4> QED BY <1>2, <3>1, <4>1, EarlyCoherent
        <3> QED BY <1>2, <2>2, <3>1, SetExCoherent, SAddCoherent, ExpireCoherent, GiveUpCoherent
            DEF FillStep
    <2>3. ASSUME NEW w \in Writer, Begin(w) \/ SyncStatus(w) \/ Revoke(w) \/ Flush(w) \/ Fail(w)
          PROVE  Coherent'
        <3>1. UNCHANGED <<row, entry, index, fill, escaped>>
            BY <2>3 DEF Begin, SyncStatus, Revoke, Flush, Fail, Abort, stores, redis
        <3>2. PICK c \in WriteState \cup {NoCall} : Turns(w, c) /\ ~Sweeps(c)
            <4>1. ~(SMembers(w) \/ DeleteKeys(w) \/ DeleteIndex(w) \/ InvalidationFails(w))
                    \/ write' = [write EXCEPT ![w] = NoCall]
                BY <2>3 DEF Begin, SyncStatus, Revoke, Flush, Fail, Abort, SMembers, DeleteKeys,
                    DeleteIndex, InvalidationFails, Writes
            <4>2. write' = [write EXCEPT ![w] = NoCall] => Turns(w, NoCall) /\ ~Sweeps(NoCall)
                BY DEF Turns, Sweeps
            <4> QED BY <1>2, <2>3, <4>1, <4>2, Writing DEF WriteStep
        <3>3. NoNewSweep
            <4>1. write'[w] = c /\ \A x \in Writer \ {w} : write'[x] = write[x]
                BY <1>2, <3>2 DEF Turns, Typed, TypeOK
            <4> QED BY <3>2, <4>1 DEF NoNewSweep, Sweeping, Sweeps
        <3> QED BY <1>2, <3>1, <3>3, QuietCoherent
    <2>4. ASSUME NEW w \in Writer, WriteStep(w)
          PROVE  Coherent'
        BY <1>2, <2>3, <2>4, SMembersCoherent, DeleteKeysCoherent, DeleteIndexCoherent,
           InvalidationFailsCoherent, CommitCoherent DEF WriteStep
    <2> QED BY <1>2, <2>1, <2>2, <2>4, ChangeOwnCoherent, RemovalsCoherent, TickCoherent
        DEF Next, EditOwn, RegisterCompany
<1> QED BY <1>1, <1>2, TypedInvariant, PTL DEF Spec

\* However lookups, invalidations, expiry and eviction interleave, the index of an
\* account covers its cached tokens and outlives them, with the exceptions named.
THEOREM IndexCoversEntries == Spec => []IndexOutlivesEntries
<1>1. Coherent => IndexOutlivesEntries
    BY DEF Coherent, Kept, Indexing, IndexOutlivesEntries
<1> QED BY <1>1, CoherentInvariant, PTL

\* An outdated answer is in the cache only where an invalidation could not see it.
THEOREM OutdatedOnlyIfEscaped == Spec => []StaleOnlyIfEscaped
<1>1. Coherent => StaleOnlyIfEscaped
    BY DEF Coherent, Kept, Stale, StaleOnlyIfEscaped
<1> QED BY <1>1, CoherentInvariant, PTL

(***************************************************************************)
(* Outdated answers fade                                                   *)
(***************************************************************************)

\* A lookup about to store is one that was about to, with the same row, or has just
\* read the row as it is.
LEMMA AboutToStore ==
    ASSUME Typed, [Next]_vars, NEW q \in Fill, Fills(q, "setex")'
    PROVE  \/ /\ Fills(q, "setex") /\ fill'[q].token = fill[q].token
              /\ fill'[q].version = fill[q].version
           \/ fill'[q].version = row[Owner[fill'[q].token]].version
<1>1. fill \in [Fill -> FillState \cup {NoCall}]
    BY DEF Typed, TypeOK
<1> DEFINE Same == /\ Fills(q, "setex") /\ fill'[q].token = fill[q].token
                   /\ fill'[q].version = fill[q].version
<1>2. CASE fill' = fill
    BY <1>2 DEF Fills
<1>3. ASSUME NEW u \in User, fill' = Racing(u)
      PROVE  Same
    BY <1>3, Marking DEF Fills
<1>4. ASSUME NEW p \in Fill, FillStep(p)
      PROVE  Same \/ fill'[q].version = row[Owner[fill'[q].token]].version
    <2>1. CASE Ends(p) \/ Miss(p) \/ SetEx(p)
        BY <1>1, <2>1 DEF Ends, Miss, SetEx, Fills
    <2>2. CASE fill[p] # NoCall /\ (Goes(p, "read") \/ Goes(p, "expire"))
        BY <2>2, Going DEF Fills, FillStage
    <2>3. CASE Read(p) /\ ~Ends(p)
        <3> DEFINE u == Owner[fill[p].token]
                   c == [fill[p] EXCEPT !.step = "setex", !.version = row[u].version,
                                        !.raced = \E w \in Writer : Sweeping(w, u)]
        <3>1. fill[p] \in FillState
            BY <2>3, Owned DEF Read, Fills
        <3>2. c.token = fill[p].token /\ c.version = row[u].version
            BY <3>1 DEF FillState
        <3>3. fill'[p] = c /\ \A x \in Fill \ {p} : fill'[x] = fill[x]
            BY <1>1, <2>3 DEF Read
        <3> HIDE DEF c
        <3> QED BY <3>2, <3>3 DEF Fills
    <2> QED BY <1>4, <2>1, <2>2, <2>3
        DEF FillStep, Verify, SAdd, Expire, GiveUp, Fills, Read
<1>5. ASSUME NEW w \in Writer, WriteStep(w)
      PROVE  fill' = fill \/ \E u \in User : fill' = Racing(u)
    <2>1. write[w] # NoCall => write[w].target \in User
        BY DEF Typed, TypeOK, WriteState
    <2> QED BY <1>5, <2>1
        DEF WriteStep, Begin, SyncStatus, Revoke, Flush, SMembers, DeleteKeys, DeleteIndex,
            InvalidationFails, Commit, Fail, Abort, Escape, Writes
<1>6. ASSUME NEW u \in User, ChangeOwn(u)
      PROVE  fill' = Racing(u)
    BY <1>6 DEF ChangeOwn, Escape
<1> QED BY <1>2, <1>3, <1>4, <1>5, <1>6
    DEF Next, SignIn, RemoveEntry, EvictIndex, EditOwn, RegisterCompany, Tick, vars

\* What a step makes of a token's entry.
LEMMA EntryAfter ==
    ASSUME Typed, [Next]_vars, NEW t \in Token
    PROVE  \/ entry'[t] = entry[t] /\ ~Tick
           \/ entry'[t] = NoEntry
           \/ Tick /\ Cached(t) /\ entry'[t] = [entry[t] EXCEPT !.ttl = Older(@)]
           \/ \E p \in Fill : SetEx(p) /\ fill[p].token = t
<1>1. entry \in [Token -> Entry]
    BY DEF Typed, TypeOK
<1>2. CASE Tick
    BY <1>2 DEF Tick
<1>3. ASSUME ~Tick, NEW p \in Fill, SetEx(p)
      PROVE  entry'[t] = entry[t] \/ fill[p].token = t
    BY <1>1, <1>3 DEF SetEx
<1>4. ASSUME ~Tick, NEW x \in Token, RemoveEntry(x)
      PROVE  entry'[t] = entry[t] \/ entry'[t] = NoEntry
    BY <1>1, <1>4 DEF RemoveEntry
<1>5. ASSUME ~Tick, NEW w \in Writer, DeleteKeys(w)
      PROVE  entry'[t] = entry[t] \/ entry'[t] = NoEntry
    BY <1>5 DEF DeleteKeys, Remaining
<1>6. ASSUME NEW p \in Fill, FillStep(p), ~SetEx(p)
      PROVE  entry' = entry
    BY <1>6 DEF FillStep, Miss, Verify, Read, SAdd, Expire, GiveUp, redis
<1>7. ASSUME NEW w \in Writer, WriteStep(w), ~DeleteKeys(w)
      PROVE  entry' = entry
    BY <1>7 DEF WriteStep, Begin, SyncStatus, Revoke, Flush, SMembers, DeleteIndex,
        InvalidationFails, Commit, Fail, Abort, redis
<1>8. ASSUME UNCHANGED vars \/ (\E x \in Token : SignIn(x))
                \/ \E u \in User : EvictIndex(u) \/ EditOwn(u) \/ RegisterCompany(u)
      PROVE  entry' = entry
    BY <1>8 DEF vars, SignIn, EvictIndex, EditOwn, RegisterCompany, ChangeOwn, redis
<1> QED BY <1>2, <1>3, <1>4, <1>5, <1>6, <1>7, <1>8 DEF Next

\* While the rows stay as they are, outdated answers only lose time to live, and
\* those that may bring in another become fewer: the variant of CacheConverges.
THEOREM OutdatedFade == Spec => OutdatedFades
<1> DEFINE Fades == row' = row =>
        /\ Carrying' \subseteq Carrying
        /\ \A t \in Token : Stale(t)' =>
            \/ /\ Stale(t) /\ entry'[t].ttl <= entry[t].ttl
               /\ Tick => entry'[t].ttl < entry[t].ttl
            \/ \E p \in Carrying \ Carrying' : fill[p].token = t
<1>1. Typed /\ Coherent /\ [Next]_vars => Fades
    <2> SUFFICES ASSUME Typed, Coherent, [Next]_vars, row' = row
                 PROVE  Fades
        OBVIOUS
    <2>1. Carrying' \subseteq Carrying
        BY AboutToStore DEF Carrying, Fills
    <2>2. ASSUME NEW t \in Token, Stale(t)'
          PROVE  \/ /\ Stale(t) /\ entry'[t].ttl <= entry[t].ttl
                    /\ Tick => entry'[t].ttl < entry[t].ttl
                 \/ \E p \in Carrying \ Carrying' : fill[p].token = t
        <3>1. /\ entry[t] \in Entry /\ entry[t].ttl <= Lifetime
              /\ Lifetime \in Nat /\ Lifetime >= 1
            BY LifetimeAssumption DEF Typed, TypeOK, Coherent, Kept
        <3>2. CASE entry'[t] = entry[t] /\ ~Tick
            <4>1. entry[t].ttl \in Nat
                BY <3>1 DEF Entry, NoEntry, Forever
            <4> QED BY <2>2, <3>2, <4>1 DEF Stale, Cached
        <3>3. CASE entry'[t] = NoEntry
            BY <2>2, <3>3 DEF Stale, Cached, NoEntry
        <3>4. CASE Cached(t) /\ entry'[t] = [entry[t] EXCEPT !.ttl = Older(@)]
            <4>1. entry[t] \in [version: Version, ttl: 1..Forever]
                BY <3>1, <3>4 DEF Entry, NoEntry, Cached
            <4>2. /\ entry'[t].version = entry[t].version
                  /\ entry'[t].ttl = entry[t].ttl - 1
                BY <3>1, <3>4, <4>1 DEF Older, Forever
            <4> QED BY <2>2, <3>4, <4>1, <4>2 DEF Stale
        <3>5. ASSUME NEW p \in Fill, SetEx(p), fill[p].token = t
              PROVE  p \in Carrying \ Carrying'
            <4>1. entry'[t].version = fill[p].version
                BY <3>1, <3>5 DEF SetEx, Stored, Typed, TypeOK
            <4>2. p \in Carrying
                BY <2>2, <3>5, <4>1 DEF Carrying, Stale, SetEx
            <4>3. fill'[p].step = "sadd"
                BY <3>5 DEF SetEx, Typed, TypeOK
            <4> QED BY <4>2, <4>3 DEF Carrying, Fills
        <3> QED BY <3>2, <3>3, <3>4, <3>5, EntryAfter
    <2> QED BY <2>1, <2>2
<1>2. Fades => [Fades]_vars
    OBVIOUS
<1> QED BY <1>1, <1>2, TypedInvariant, CoherentInvariant, PTL DEF Spec, OutdatedFades

=============================================================================
