--------------------------- MODULE MessagingProofs ---------------------------
(***************************************************************************)
(* Proofs about Messaging, for any number of registrations, events, deaths *)
(* and restarts: its types, the one producer, what a death of the consumer *)
(* may lose, and that it implements Delivery.                              *)
(***************************************************************************)
EXTENDS Messaging, FiniteSetTheorems, TLAPS

(***************************************************************************)
(* Types                                                                   *)
(***************************************************************************)

LEMMA TypeInit == Init => TypeOK
<1> SUFFICES ASSUME Init
             PROVE  TypeOK
    OBVIOUS
<1>1. /\ topic \in Seq(Event) /\ Len(topic) = 0
      /\ handed \subseteq 1..Len(topic)
    BY DEF Init
<1>2. sends \in 0..MaxEvents /\ restarts \in 0..MaxRestarts /\ crashes \in 0..MaxCrashes
    BY BoundsAssumption DEF Init
<1>3. req \in [Request -> Call \cup {NoCall}]
    BY DEF Init
<1> QED BY <1>1, <1>2, <1>3 DEF Init, TypeOK

\* The producer's steps keep the types.
LEMMA TypeService ==
    ASSUME TypeOK, NEW r \in Request, RegisterStep(r) \/ RestartService
    PROVE  TypeOK'
<1> USE BoundsAssumption, AbsentAssumption DEF TypeOK
<1>1. CASE Register(r)
    BY <1>1 DEF Register, consumer, Call, Event
<1>2. CASE EnsureStarted(r)
    BY <1>2 DEF EnsureStarted, At, GoTo, Assigned, consumer, Call
<1>3. CASE Started(r)
    BY <1>3 DEF Started, At, GoTo, End, consumer, Call
<1>4. CASE Send(r)
    <2>1. /\ req[r].event \in Event
          /\ req' \in [Request -> Call \cup {NoCall}]
        BY <1>4 DEF Send, At, End, Call
    <2>2. topic' \in Seq(Event) /\ Len(topic') \in Nat /\ Len(topic) <= Len(topic')
        BY <1>4, <2>1 DEF Send
    <2> QED BY <1>4, <2>1, <2>2 DEF Send, consumer
<1>5. CASE RestartService
    BY <1>5 DEF RestartService, consumer
<1> QED BY <1>1, <1>2, <1>3, <1>4, <1>5 DEF RegisterStep

\* The consumer's steps keep the types.
LEMMA TypeConsumer ==
    ASSUME TypeOK, ConsumerStep
    PROVE  TypeOK'
<1> USE BoundsAssumption, AbsentAssumption DEF TypeOK, service
<1>1. CASE Start
    BY <1>1 DEF Start, Resume
<1>2. CASE Handle
    BY <1>2 DEF Handle
<1>3. CASE Handled
    BY <1>3 DEF Handled, Survives
<1>4. CASE AutoCommit
    BY <1>4 DEF AutoCommit
<1>5. CASE LoopEnds
    BY <1>5 DEF LoopEnds
<1>6. CASE Crash
    BY <1>6 DEF Crash
<1> QED BY <1>1, <1>2, <1>3, <1>4, <1>5, <1>6 DEF ConsumerStep

LEMMA TypeStep ==
    ASSUME TypeOK, [Next]_vars
    PROVE  TypeOK'
<1>1. CASE UNCHANGED vars
    BY <1>1 DEF TypeOK, vars, service, consumer
<1>2. CASE \E r \in Request : RegisterStep(r)
    BY <1>2, TypeService
<1>3. CASE RestartService
    BY <1>3, BoundsAssumption, AbsentAssumption DEF TypeOK, RestartService, consumer
<1>4. CASE ConsumerStep
    BY <1>4, TypeConsumer
<1> QED BY <1>1, <1>2, <1>3, <1>4 DEF Next

\* Every reachable state of Messaging has its type, for any registrations and
\* bounds.
THEOREM TypeCorrect == Spec => []TypeOK
<1>1. Init => TypeOK
    BY TypeInit
<1>2. TypeOK /\ [Next]_vars => TypeOK'
    BY TypeStep
<1> QED BY <1>1, <1>2, PTL DEF Spec

(***************************************************************************)
(* The producer                                                            *)
(***************************************************************************)

\* None has been made before one is assigned.
MadeWhenAssigned == made <= 1 /\ (producer = "none" => made = 0)

\* The process makes one producer, however many registrations send at once:
\* _ensure_started assigns it before it awaits its start.
THEOREM OneProducerMade == Spec => []OneProducer
<1>1. Init => MadeWhenAssigned
    BY DEF Init, MadeWhenAssigned
<1>2. TypeOK /\ MadeWhenAssigned /\ [Next]_vars => MadeWhenAssigned'
    <2> SUFFICES ASSUME TypeOK, MadeWhenAssigned, [Next]_vars
                 PROVE  MadeWhenAssigned'
        OBVIOUS
    <2> USE DEF MadeWhenAssigned
    <2>1. CASE UNCHANGED vars
        BY <2>1 DEF vars, service
    <2>2. ASSUME NEW r \in Request, RegisterStep(r)
          PROVE  MadeWhenAssigned'
        <3>1. CASE Register(r)
            BY <3>1 DEF Register
        <3>2. CASE EnsureStarted(r)
            BY <3>2 DEF EnsureStarted, Assigned
        <3>3. CASE Started(r)
            BY <3>3 DEF Started
        <3>4. CASE Send(r)
            BY <3>4 DEF Send
        <3> QED BY <2>2, <3>1, <3>2, <3>3, <3>4 DEF RegisterStep
    <2>3. CASE RestartService
        BY <2>3 DEF RestartService
    <2>4. CASE ConsumerStep
        BY <2>4 DEF ConsumerStep, Start, Handle, Handled, AutoCommit, LoopEnds,
                    Crash, service
    <2> QED BY <2>1, <2>2, <2>3, <2>4 DEF Next
<1>3. MadeWhenAssigned => OneProducer
    BY DEF MadeWhenAssigned, OneProducer
<1> QED BY <1>1, <1>2, <1>3, TypeCorrect, PTL DEF Spec

(***************************************************************************)
(* The consumer                                                            *)
(***************************************************************************)

\* What the loop has fetched and what the group has committed has been handed to
\* the handler; the loop goes on from no earlier than what it committed, and its
\* handler is at work on one event at most.
Progress ==
    /\ 1..position \subseteq handed
    /\ committed # NoOffset => 1..committed \subseteq handed
    /\ loop = "running" /\ committed # NoOffset => committed <= position
    /\ handling # {} => loop = "running"
    /\ \A a, b \in handling : a = b

LEMMA ProgressInit == Init => Progress
BY DEF Init, Progress

LEMMA ProgressStep ==
    ASSUME TypeOK, Progress, [Next]_vars
    PROVE  Progress'
<1> USE AbsentAssumption DEF TypeOK, Progress
<1>1. CASE UNCHANGED consumer
    BY <1>1 DEF consumer
<1>2. CASE Start
    BY <1>2 DEF Start, Resume
<1>3. CASE Handle
    BY <1>3 DEF Handle, Busy
<1>4. CASE Handled
    BY <1>4 DEF Handled, Survives
<1>5. CASE AutoCommit
    BY <1>5 DEF AutoCommit
<1>6. CASE LoopEnds
    BY <1>6 DEF LoopEnds, Busy
<1>7. CASE Crash
    BY <1>7 DEF Crash
<1> QED
    BY <1>1, <1>2, <1>3, <1>4, <1>5, <1>6, <1>7
    DEF Next, RegisterStep, Register, EnsureStarted, Started, Send, RestartService,
        ConsumerStep, vars

\* Messaging implements Delivery: the topic is a log, and events are handed over
\* in its order and without a gap, whatever is committed when, dies or is handed
\* over again.
THEOREM ImplementsDelivery == Spec => DeliversInOrder
<1>1. Init => Log!Init
    BY DEF Init, Log!Init
<1>2. TypeOK /\ Progress /\ [Next]_vars => [Log!Publish \/ Log!Deliver]_<<topic, handed>>
    <2> SUFFICES ASSUME TypeOK, Progress, [Next]_vars
                 PROVE  [Log!Publish \/ Log!Deliver]_<<topic, handed>>
        OBVIOUS
    <2>1. ASSUME NEW r \in Request, Send(r)
          PROVE  Log!Publish \/ UNCHANGED <<topic, handed>>
        <3>1. req[r].event \in Event
            BY <2>1 DEF Send, At, TypeOK, Call
        <3> QED BY <2>1, <3>1 DEF Send, consumer, Log!Publish
    <2>2. ASSUME Handle
          PROVE  Log!Deliver \/ UNCHANGED <<topic, handed>>
        <3>1. CASE position + 1 \in handed
            BY <2>2, <3>1 DEF Handle
        <3>2. CASE position + 1 \notin handed
            <4>1. position + 1 \in 1..Len(topic) /\ (position + 1) - 1 = position
                BY <2>2 DEF Handle, TypeOK
            <4> QED BY <2>2, <3>2, <4>1 DEF Handle, Progress, Log!Deliver
        <3> QED BY <3>1, <3>2
    <2>3. \/ \E r \in Request : Send(r)
          \/ Handle
          \/ UNCHANGED <<topic, handed>>
        BY DEF Next, RegisterStep, Register, EnsureStarted, Started, RestartService,
               ConsumerStep, Start, Handled, AutoCommit, LoopEnds, Crash, vars, consumer
    <2> QED BY <2>1, <2>2, <2>3
<1> QED BY <1>1, <1>2, TypeCorrect, ProgressInit, ProgressStep, TypeInit, TypeStep, PTL
        DEF Spec, DeliversInOrder, Log!Spec

(***************************************************************************)
(* What is lost                                                            *)
(***************************************************************************)

\* Only a death adds to what is lost, and it adds no more than the event the
\* handler was at work on.
LEMMA LostStep ==
    ASSUME TypeOK, Progress, [Next]_vars
    PROVE  \/ Lost' \subseteq Lost /\ crashes' = crashes
           \/ Lost' \subseteq Lost \cup handling /\ crashes' = crashes + 1
<1> USE AbsentAssumption DEF TypeOK, Progress, Lost, Resume
<1>1. CASE UNCHANGED consumer
    BY <1>1 DEF consumer
<1>2. CASE Start
    BY <1>2 DEF Start
<1>3. CASE Handle
    BY <1>3 DEF Handle, Busy
<1>4. CASE Handled
    BY <1>4 DEF Handled, Survives
<1>5. CASE AutoCommit
    BY <1>5 DEF AutoCommit
<1>6. CASE LoopEnds
    BY <1>6 DEF LoopEnds, Busy
<1>7. CASE Crash
    BY <1>7 DEF Crash
<1> QED
    BY <1>1, <1>2, <1>3, <1>4, <1>5, <1>6, <1>7
    DEF Next, RegisterStep, Register, EnsureStarted, Started, Send, RestartService,
        ConsumerStep, vars

\* A death of the consumer loses one event at most, and nothing else loses any but
\* an event whose handler raised.
THEOREM OneLostPerCrash == Spec => []OneLossPerCrash
<1>1. Init => OneLossPerCrash
    <2> SUFFICES ASSUME Init
                 PROVE  OneLossPerCrash
        OBVIOUS
    <2>1. Lost = {}
        BY DEF Init, Lost, Resume
    <2> QED BY <2>1, FS_EmptySet DEF Init, OneLossPerCrash
<1>2. TypeOK /\ Progress /\ OneLossPerCrash /\ [Next]_vars => OneLossPerCrash'
    <2> SUFFICES ASSUME TypeOK, Progress, OneLossPerCrash, [Next]_vars
                 PROVE  Cardinality(Lost') <= crashes'
        BY DEF OneLossPerCrash
    <2>1. crashes \in Nat /\ Cardinality(Lost) <= crashes
        BY BoundsAssumption DEF TypeOK, OneLossPerCrash
    <2>2. IsFiniteSet(Lost)
        <3> DEFINE base == IF loop = "running" THEN position ELSE Resume
        <3>1. base \in Int
            BY AbsentAssumption DEF TypeOK, Resume
        <3>2. IsFiniteSet(1..base)
            BY <3>1, FS_Interval
        <3>3. Lost \subseteq 1..base
            BY DEF Lost
        <3> QED BY <3>2, <3>3, FS_Subset
    <2>3. IsFiniteSet(handling) /\ Cardinality(handling) <= 1
        <3>1. CASE handling = {}
            BY <3>1, FS_EmptySet
        <3>2. CASE handling # {}
            <4>1. PICK o : o \in handling
                BY <3>2
            <4>2. handling = {o}
                BY <4>1 DEF Progress
            <4>3. IsFiniteSet({o}) /\ Cardinality({o}) = 1
                BY FS_Singleton
            <4> QED BY <4>2, <4>3
        <3> QED BY <3>1, <3>2
    <2>4. CASE Lost' \subseteq Lost /\ crashes' = crashes
        <3>1. Cardinality(Lost') <= Cardinality(Lost) /\ Cardinality(Lost') \in Nat
            BY <2>2, <2>4, FS_Subset, FS_CardinalityType
        <3> QED BY <2>1, <2>2, <2>4, <3>1, FS_CardinalityType
    <2>5. CASE Lost' \subseteq Lost \cup handling /\ crashes' = crashes + 1
        <3>1. /\ IsFiniteSet(Lost \cup handling)
              /\ Cardinality(Lost \cup handling)
                    = Cardinality(Lost) + Cardinality(handling)
                        - Cardinality(Lost \cap handling)
            BY <2>2, <2>3, FS_Union
        <3>2. /\ Cardinality(Lost') <= Cardinality(Lost \cup handling)
              /\ Cardinality(Lost') \in Nat
            BY <2>5, <3>1, FS_Subset, FS_CardinalityType
        <3>3. /\ Cardinality(Lost \cap handling) \in Nat
              /\ Cardinality(Lost) \in Nat /\ Cardinality(handling) \in Nat
            BY <2>2, <2>3, FS_Subset, FS_CardinalityType
        <3> QED BY <2>1, <2>3, <2>5, <3>1, <3>2, <3>3
    <2> QED BY <2>4, <2>5, LostStep
<1> QED BY <1>1, <1>2, TypeInit, TypeStep, ProgressInit, ProgressStep, PTL DEF Spec

=============================================================================
