------------------------------ MODULE Delivery ------------------------------
(***************************************************************************)
(* What a topic and one consumer group promise their users: events are     *)
(* kept in the order of their publication, and each is handed to the       *)
(* handler after all the events before it.  An event may be handed over    *)
(* more than once (which is a stuttering step here), but none is skipped.  *)
(***************************************************************************)
EXTENDS Naturals, Sequences

CONSTANT Event

VARIABLES
    log,       \* the events published
    delivered  \* positions in the log of the events handed to the handler

Init == log = <<>> /\ delivered = {}

Publish ==
    /\ \E e \in Event : log' = Append(log, e)
    /\ UNCHANGED delivered

Deliver ==
    /\ \E o \in 1..Len(log) :
        /\ o \notin delivered
        /\ 1..(o - 1) \subseteq delivered
        /\ delivered' = delivered \cup {o}
    /\ UNCHANGED log

Spec == Init /\ [][Publish \/ Deliver]_<<log, delivered>>

=============================================================================
