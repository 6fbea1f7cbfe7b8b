----------------------------- MODULE Injection -----------------------------
(***************************************************************************)
(* What the rest of the system sees of the mouse: run() of                 *)
(* button/EventQueueHandler.java takes the events off the queue one by one *)
(* and injects them; a zoom becomes the fourteen events of                 *)
(* generateZoomGesture, two fingers that move apart or together.           *)
(*                                                                         *)
(* The queue is a FIFO that may lose what is pushed, which is what         *)
(* EventQueueHandler and LossyFifo say of it.  Pushed are strokes (a tap   *)
(* is a short one) and, between them, gestures, as ButtonEventListener     *)
(* shows.  The window that receives the events keeps the fingers that are  *)
(* down; x, pressure and times are left out.                               *)
(***************************************************************************)
EXTENDS Naturals, Integers, Sequences, FiniteSets

CONSTANT MaxPush    \* bound: number of events pushed

ASSUME InjectionAssumption == MaxPush \in Nat

VARIABLES
    queue,      \* pushed events that have not been taken
    stroke,     \* the last pointer event pushed was not an UP
    pushed,     \* number of events pushed
    lost,       \* history: the queue has lost an event
    goon,       \* EventQueueHandler.goon
    runPc,      \* where run() is: at the loop test, in the round that it
                \* has let in, at a step of the gesture, or at its end
    direction,  \* direction of the gesture: 1 is a zoom, -1 a pinch
    i,          \* number of moves of the gesture
    downY1, downY2, \* its two variables
    fingers,    \* the fingers that the receiver has down
    pc1, pc2,   \* where it saw them last (y)
    apart,      \* history: how far apart they were at first
    confused    \* the receiver got an event that does not fit its fingers

producer == <<queue, stroke, pushed, lost, goon>>
gesture == <<direction, i, downY1, downY2>>
receiver == <<fingers, pc1, pc2, confused>>
vars == <<producer, runPc, gesture, receiver, apart>>

Moves == 10
StepY == 10

Init ==
    /\ queue = <<>>
    /\ stroke = FALSE
    /\ pushed = 0
    /\ lost = FALSE
    /\ goon = TRUE
    /\ runPc = "while"
    /\ direction = 1
    /\ i = 0
    /\ downY1 = 0 /\ downY2 = 0
    /\ fingers = {}
    /\ pc1 = 0 /\ pc2 = 0
    /\ apart = 0
    /\ confused = FALSE
-----------------------------------------------------------------------------
(* What ButtonEventListener pushes.                                        *)

Push(kind) ==
    /\ pushed < MaxPush
    /\ pushed' = pushed + 1
    /\ queue' = Append(queue, kind)
    /\ UNCHANGED <<lost, goon, runPc, gesture, receiver, apart>>

PushDown == ~stroke /\ stroke' = TRUE /\ Push("DOWN")
PushMove == stroke /\ Push("MOVE") /\ UNCHANGED stroke
PushUp == stroke /\ stroke' = FALSE /\ Push("UP")
PushGesture(kind) == ~stroke /\ Push(kind) /\ UNCHANGED stroke

(* A race of push and run: see LossyFifo.                                  *)
Lose ==
    /\ \E k \in 0 .. Len(queue) - 1 : queue' = SubSeq(queue, 1, k)
    /\ lost' = TRUE
    /\ UNCHANGED <<stroke, pushed, goon, runPc, gesture, receiver, apart>>

StopThread ==
    /\ goon
    /\ goon' = FALSE
    /\ UNCHANGED <<queue, stroke, pushed, lost, runPc, gesture, receiver, apart>>
-----------------------------------------------------------------------------
(* inst.sendPointerSync: the receiver takes an event of one or two fingers *)
(* with the action on the last of them.                                    *)

Fits(action, count) ==
    CASE action = "DOWN" -> fingers = 1 .. count - 1
      [] OTHER -> fingers = 1..count

Send(action, count, y1, y2) ==
    /\ fingers' = CASE action = "DOWN" -> fingers \cup {count}
                    [] action = "UP" -> fingers \ {count}
                    [] OTHER -> fingers
    /\ confused' = (confused \/ ~Fits(action, count))
    /\ pc1' = y1
    /\ pc2' = y2

TestGoon ==
    /\ runPc = "while"
    /\ runPc' = IF goon THEN "round" ELSE "exited"
    /\ UNCHANGED <<producer, gesture, receiver, apart>>

(* wait(), and nothing to take after it                                    *)
NothingToTake ==
    /\ runPc = "round"
    /\ queue = <<>>
    /\ runPc' = "while"
    /\ UNCHANGED <<producer, gesture, receiver, apart>>

(* A race of push and run: the size lies, poll returns null.               *)
NullEvent ==
    /\ runPc = "round"
    /\ queue = <<>>
    /\ lost' = TRUE
    /\ runPc' = "crashed"
    /\ UNCHANGED <<queue, stroke, pushed, goon, gesture, receiver, apart>>

Take ==
    /\ runPc = "round"
    /\ queue # <<>>
    /\ queue' = Tail(queue)
    /\ UNCHANGED <<stroke, pushed, lost, goon>>

(* A pointer event, somewhere on the screen.                               *)
DispatchPointer ==
    /\ Take
    /\ Head(queue) \in {"DOWN", "MOVE", "UP"}
    /\ Send(Head(queue), 1, 0, 0)
    /\ runPc' = "while"
    /\ UNCHANGED <<gesture, apart>>

(* A key, or a message to ButtonManager.handler.                           *)
DispatchOther ==
    /\ Take
    /\ Head(queue) \in {"KEY", "FLIP"}
    /\ runPc' = "while"
    /\ UNCHANGED <<gesture, receiver, apart>>

(* generateZoomGesture: the start points and step 1.                       *)
BeginGesture ==
    LET d == IF Head(queue) = "ZOOM" THEN 1 ELSE -1 IN
    /\ Take
    /\ Head(queue) \in {"ZOOM", "PINCH"}
    /\ direction' = d
    /\ i' = 0
    /\ downY1' = 150 + d * 50
    /\ downY2' = 300 - d * 50
    /\ Send("DOWN", 1, downY1', downY2')
    /\ apart' = downY2' - downY1'
    /\ runPc' = "pointerDown"

(* step 2                                                                  *)
PointerDown ==
    /\ runPc = "pointerDown"
    /\ Send("DOWN", 2, downY1, downY2)
    /\ runPc' = "move"
    /\ UNCHANGED <<producer, gesture, apart>>

Moved == <<downY1 - StepY * direction, downY2 + StepY * direction>>

MovesLeft(n) == n < Moves

(* steps 3 and 4                                                           *)
Move ==
    /\ runPc = "move"
    /\ downY1' = Moved[1]
    /\ downY2' = Moved[2]
    /\ Send("MOVE", 2, downY1', downY2')
    /\ i' = i + 1
    /\ runPc' = IF MovesLeft(i') THEN "move" ELSE "pointerUp"
    /\ UNCHANGED <<producer, direction, apart>>

(* Mutant of PointerUp: step 5 is missing.                                 *)
NoPointerUp ==
    /\ runPc = "pointerUp"
    /\ runPc' = "up"
    /\ UNCHANGED <<producer, gesture, receiver, apart>>

(* step 5: back by one step                                                *)
PointerUp ==
    /\ runPc = "pointerUp"
    /\ Send("UP", 2, downY1 + 10 * direction, downY2 - 10 * direction)
    /\ runPc' = "up"
    /\ UNCHANGED <<producer, gesture, apart>>

(* step 6                                                                  *)
Up ==
    /\ runPc = "up"
    /\ Send("UP", 1, pc1, pc2)
    /\ runPc' = "while"
    /\ UNCHANGED <<producer, gesture, apart>>

Next ==
    \/ PushDown \/ PushMove \/ PushUp
    \/ \E kind \in {"KEY", "FLIP", "ZOOM", "PINCH"} : PushGesture(kind)
    \/ Lose \/ StopThread
    \/ TestGoon \/ NothingToTake \/ NullEvent
    \/ DispatchPointer \/ DispatchOther
    \/ BeginGesture \/ PointerDown \/ Move \/ PointerUp \/ Up

Spec == Init /\ [][Next]_vars
-----------------------------------------------------------------------------
(* Properties *)

InGesture == runPc \in {"pointerDown", "move", "pointerUp", "up"}

(* Every variable keeps its kind of value; both fingers of a gesture stay  *)
(* between 100 and 350.                                                    *)
TypeOK ==
    /\ queue \in Seq({"DOWN", "MOVE", "UP", "KEY", "FLIP", "ZOOM", "PINCH"})
    /\ stroke \in BOOLEAN /\ lost \in BOOLEAN /\ goon \in BOOLEAN
    /\ pushed \in 0..MaxPush
    /\ runPc \in {"while", "round", "pointerDown", "move", "pointerUp", "up",
                  "exited", "crashed"}
    /\ direction \in {1, -1}
    /\ i \in 0..Moves
    /\ InGesture => {downY1, downY2, pc1, pc2} \subseteq 100..350
    /\ fingers \subseteq {1, 2}
    /\ confused \in BOOLEAN

(* What is injected is a legal stream of touches: each event fits the      *)
(* fingers that are down, whatever clicks, gestures and stops are mixed,   *)
(* as long as the queue has lost nothing.                                  *)
StreamIsLegal == confused => lost

(* A gesture is never left half done, not even by a stopThread() during it *)
(* or in a damaged stream: outside of it the second finger is up.  And     *)
(* when everything pushed is injected and no stroke is open, the first     *)
(* one is up too.                                                          *)
GestureCompletes ==
    /\ 2 \in fingers => InGesture
    /\ queue = <<>> /\ ~InGesture /\ ~stroke /\ ~lost => fingers = {}

(* The fingers of a zoom end further apart than they began and those of a  *)
(* pinch closer together; they never meet.                                 *)
RightWay ==
    /\ InGesture => pc1 < pc2
    /\ runPc = "up" => (pc2 - pc1 > apart <=> direction = 1) /\ pc2 - pc1 # apart
=============================================================================
