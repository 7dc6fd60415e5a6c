------------------------------ MODULE Messaging ------------------------------
(***************************************************************************)
(* shared/messaging: how register announces accounts on the topic          *)
(* user.registered, and how a service that subclasses BaseKafkaConsumer    *)
(* handles the announcements.                                              *)
(*                                                                         *)
(* The process has one AIOKafkaProducer, made by the first send and        *)
(* assigned before its start() is awaited.  register swallows what a send  *)
(* raises; where it sends, and what it does before and after, is           *)
(* Provisioning's subject.  The consumer is another process: one loop that *)
(* hands over an event at a time and swallows what its handler raises,     *)
(* while aiokafka commits the position of the group by a timer, whatever   *)
(* has become of the event last handed over.                               *)
(*                                                                         *)
(* One partition and one member of the group.                              *)
(***************************************************************************)
EXTENDS Naturals, Sequences, FiniteSets

CONSTANTS
    Request,    \* slots for registrations that send
    MaxEvents,  \* bound: how many events are ever sent
    MaxCrashes, \* bound: how often the consumer's process dies
    MaxRestarts,\* bound: how often the auth service's process does
    NoOffset,   \* the group has committed no offset
    NoCall      \* the slot holds no request

Event == 1..MaxEvents
Offset == 1..MaxEvents

\* A registration in send_event.
Call == [step: {"ensure", "start", "send"}, event: Event]

ASSUME BoundsAssumption == /\ MaxEvents \in Nat /\ MaxCrashes \in Nat
                           /\ MaxRestarts \in Nat
ASSUME AbsentAssumption == NoOffset \notin Nat /\ NoCall \notin Call

VARIABLES
    producer,  \* the global _producer
    made,      \* history: how many producers this process has made
    req,       \* the registrations in send_event
    sends,     \* how many events registrations have made
    restarts,  \* how often the auth service has been restarted
    topic,     \* Kafka: the events of the topic
    committed, \* Kafka: how many events the group has committed
    loop,      \* the consumer's loop
    position,  \* how many events the loop has fetched
    handling,  \* offsets the handler is at work on
    handed,    \* history: offsets handed to the handler
    finished,  \* history: offsets whose handler returned
    spoiled,   \* history: offsets whose handler raised
    crashes,   \* how often the consumer's process has died
    ends       \* history: how often Kafka has ended a loop

service == <<producer, made, req, sends, restarts>>
consumer == <<committed, loop, position, handling, handed, finished, spoiled,
              crashes, ends>>
vars == <<service, topic, consumer>>

At(r, step) == req[r] # NoCall /\ req[r].step = step
GoTo(r, step) == req' = [req EXCEPT ![r].step = step]
End(r) == req' = [req EXCEPT ![r] = NoCall]

Init ==
    /\ producer = "none" /\ made = 0
    /\ req = [r \in Request |-> NoCall]
    /\ sends = 0 /\ restarts = 0
    /\ topic = <<>>
    /\ committed = NoOffset
    /\ loop = "down" /\ position = 0
    /\ handling = {} /\ handed = {} /\ finished = {} /\ spoiled = {}
    /\ crashes = 0 /\ ends = 0

(***************************************************************************)
(* The producer                                                            *)
(***************************************************************************)

\* register calls send_event.
Register(r) ==
    /\ req[r] = NoCall
    /\ sends < MaxEvents
    /\ sends' = sends + 1
    /\ req' = [req EXCEPT ![r] = [step |-> "ensure", event |-> sends + 1]]
    /\ UNCHANGED <<producer, made, restarts, topic, consumer>>

\* _ensure_started: what others find in _producer while start() is awaited.
\* Faulty: it is assigned once it has started.
AssignedLate == "none"

Assigned == "starting"

EnsureStarted(r) ==
    /\ At(r, "ensure")
    /\ \/ /\ producer = "none"
          /\ producer' = Assigned
          /\ made' = made + 1
          /\ GoTo(r, "start")
       \/ /\ producer # "none"
          /\ GoTo(r, "send")
          /\ UNCHANGED <<producer, made>>
    /\ UNCHANGED <<sends, restarts, topic, consumer>>

\* start() returns; or it raises, and what has not started stays assigned.
Started(r) ==
    /\ At(r, "start")
    /\ \/ producer' = "ready" /\ GoTo(r, "send")
       \/ producer' = "failed" /\ End(r)
    /\ UNCHANGED <<made, sends, restarts, topic, consumer>>

\* send_and_wait: acknowledged; or a KafkaError, of an event that is in the
\* topic nevertheless or is not, and register goes on.  A producer that is
\* starting keeps a send waiting until it is ready or the send times out; one
\* that failed to start lets it time out, or never answers.
Send(r) ==
    /\ At(r, "send")
    /\ \/ producer = "ready" /\ topic' = Append(topic, req[r].event)
       \/ UNCHANGED topic
    /\ End(r)
    /\ UNCHANGED <<producer, made, sends, restarts, consumer>>

\* The process ends and another one begins.
RestartService ==
    /\ restarts < MaxRestarts
    /\ restarts' = restarts + 1
    /\ producer' = "none" /\ made' = 0
    /\ req' = [r \in Request |-> NoCall]
    /\ UNCHANGED <<sends, topic, consumer>>

(***************************************************************************)
(* The consumer                                                            *)
(***************************************************************************)

\* auto_offset_reset: where a group begins that has committed nothing.
\* Faulty: "latest".
Latest == IF committed = NoOffset THEN Len(topic) ELSE committed

\* Faulty: what is committed is taken for the offset last handled.
PastCommitted == IF committed = NoOffset THEN 0 ELSE committed + 1

Resume == IF committed = NoOffset THEN 0 ELSE committed

\* start(): when it raises, run() does too, and nothing tries again.
Start ==
    /\ loop = "down"
    /\ \/ loop' = "running" /\ position' = Resume /\ UNCHANGED ends
       \/ loop' = "ended" /\ ends' = ends + 1 /\ UNCHANGED position
    /\ UNCHANGED <<service, topic, committed, handling, handed, finished,
                   spoiled, crashes>>

\* `await self._process(record)' holds the loop up.
\* Faulty: the handlers run as tasks of their own.
NeverBusy == FALSE

Busy == handling # {}

\* The loop fetches the next event and calls handle_message.
Handle ==
    /\ loop = "running"
    /\ ~Busy
    /\ position < Len(topic)
    /\ position' = position + 1
    /\ handling' = handling \cup {position + 1}
    /\ handed' = handed \cup {position + 1}
    /\ UNCHANGED <<service, topic, committed, loop, finished, spoiled, crashes,
                   ends>>

\* What becomes of the loop when its handler raises.
\* Faulty: the exception ends it.
Killed == "ended"

Survives == "running"

\* _process: handle_message returns, or raises and is logged.
Handled ==
    /\ \E o \in handling :
        /\ handling' = handling \ {o}
        /\ \/ /\ finished' = finished \cup {o}
              /\ UNCHANGED <<loop, spoiled>>
           \/ /\ spoiled' = spoiled \cup {o}
              /\ loop' = Survives
              /\ UNCHANGED finished
    /\ UNCHANGED <<service, topic, committed, position, handed, crashes, ends>>

\* enable_auto_commit: the position, at any time.
AutoCommit ==
    /\ loop = "running"
    /\ committed' = position
    /\ UNCHANGED <<service, topic, loop, position, handling, handed, finished,
                   spoiled, crashes, ends>>

\* The fetch raises a KafkaError: the loop ends, and stop() commits the position
\* for the last time, or fails to.
LoopEnds ==
    /\ loop = "running"
    /\ ~Busy
    /\ loop' = "ended" /\ ends' = ends + 1
    /\ committed' \in {committed, position}
    /\ UNCHANGED <<service, topic, position, handling, handed, finished, spoiled,
                   crashes>>

\* The consumer's process dies, or is stopped, and comes up again.
Crash ==
    /\ loop # "down"
    /\ crashes < MaxCrashes
    /\ crashes' = crashes + 1
    /\ loop' = "down" /\ position' = 0 /\ handling' = {}
    /\ UNCHANGED <<service, topic, committed, handed, finished, spoiled, ends>>

RegisterStep(r) == Register(r) \/ EnsureStarted(r) \/ Started(r) \/ Send(r)

ConsumerStep == Start \/ Handle \/ Handled \/ AutoCommit \/ LoopEnds \/ Crash

Next == (\E r \in Request : RegisterStep(r)) \/ RestartService \/ ConsumerStep

\* The consumer's process is brought up again, its loop asks for the next event
\* as soon as the handler is done, and handlers return.
Spec == Init /\ [][Next]_vars /\ WF_vars(Start) /\ WF_vars(Handle) /\ WF_vars(Handled)

(***************************************************************************)
(* Properties                                                              *)
(***************************************************************************)

\* Every variable has its shape.
TypeOK ==
    /\ producer \in {"none", "starting", "ready", "failed"}
    /\ made \in Nat
    /\ req \in [Request -> Call \cup {NoCall}]
    /\ sends \in 0..MaxEvents /\ restarts \in 0..MaxRestarts
    /\ topic \in Seq(Event)
    /\ committed \in 0..Len(topic) \cup {NoOffset}
    /\ loop \in {"down", "running", "ended"}
    /\ position \in 0..Len(topic)
    /\ handed \subseteq 1..Len(topic) /\ handling \subseteq handed
    /\ finished \subseteq handed /\ spoiled \subseteq handed
    /\ crashes \in 0..MaxCrashes
    /\ ends \in Nat

\* However many registrations send their first event at once, before the start
\* of the producer has returned, the process makes one producer: _ensure_started
\* assigns it before it awaits, so that no second connection, with a sequence of
\* its own and without anybody to stop it, comes up.
OneProducer == made <= 1

\* The events below what the loop goes on from, that no handler has worked off
\* or is at work on.
Lost ==
    1..(IF loop = "running" THEN position ELSE Resume)
        \ (finished \cup spoiled \cup handling)

\* Although offsets are committed by a timer and before the handler has returned,
\* a death of the consumer loses one event at most, and nothing else loses any
\* but the event whose handler raised: the loop waits for the handler before it
\* fetches the next event.
OneLossPerCrash == Cardinality(Lost) <= crashes

\* The topic and the loop implement a log whose events are handed over in order
\* and without a gap, through auto-commit, crashes, redelivery and the first
\* start of a group on a topic that has events already.
Log == INSTANCE Delivery WITH log <- topic, delivered <- handed

DeliversInOrder == Log!Spec

\* "A failing handler must not kill the consume loop": each announcement in the
\* topic is handed to the handler in the end, whichever handlers raise and
\* whenever the process dies, unless a KafkaError ended the loop, which nothing
\* starts again.
AnnouncementsHandled ==
    \A o \in Offset : Len(topic) >= o ~> (o \in handed \/ ends > 0)

=============================================================================
