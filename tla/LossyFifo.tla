----------------------------- MODULE LossyFifo -----------------------------
(***************************************************************************)
(* What the event queue between the touch button and the injector promises *)
(* in every execution, whatever the two threads' timing: events come out   *)
(* at most once and in the order they were pushed, the newest pending ones *)
(* may be lost, and once the queue is stopped at most one more event comes *)
(* out.  EventQueueHandler implements this specification.                  *)
(***************************************************************************)
EXTENDS Naturals, Sequences

VARIABLES
    pushed,     \* number of events pushed so far; event i is the i-th one
    pending,    \* accepted events that have not come out
    delivered,  \* events that came out, in order
    stopped,    \* the queue has been told to stop
    late        \* number of events that came out after that

vars == <<pushed, pending, delivered, stopped, late>>

Init ==
    /\ pushed = 0
    /\ pending = <<>>
    /\ delivered = <<>>
    /\ stopped = FALSE
    /\ late = 0

(* A push announces the next event ...                                     *)
Push ==
    /\ pushed' = pushed + 1
    /\ UNCHANGED <<pending, delivered, stopped, late>>

(* ... which is accepted later, or never, and in its turn: nothing pending *)
(* and nothing that came out is as new, so no event comes out twice.       *)
Accept ==
    /\ pushed > 0
    /\ \A i \in 1..Len(pending) : pending[i] < pushed
    /\ \A i \in 1..Len(delivered) : delivered[i] < pushed
    /\ pending' = Append(pending, pushed)
    /\ UNCHANGED <<pushed, delivered, stopped, late>>

Lose ==
    /\ \E k \in 0..Len(pending) : pending' = SubSeq(pending, 1, k)
    /\ UNCHANGED <<pushed, delivered, stopped, late>>

Deliver ==
    /\ pending # <<>>
    /\ stopped => late = 0
    /\ delivered' = Append(delivered, Head(pending))
    /\ pending' = Tail(pending)
    /\ late' = IF stopped THEN late + 1 ELSE late
    /\ UNCHANGED <<pushed, stopped>>

Stop ==
    /\ stopped' = TRUE
    /\ UNCHANGED <<pushed, pending, delivered, late>>

Next == Push \/ Accept \/ Lose \/ Deliver \/ Stop

Spec == Init /\ [][Next]_vars
=============================================================================
