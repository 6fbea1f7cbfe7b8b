-------------------------- MODULE Injection_proof --------------------------
(***************************************************************************)
(* Theorems of Injection, for any number of pushed events.  The invariant  *)
(* has three independent parts: the second finger belongs to the gesture;  *)
(* the points of a gesture are a function of its moves; and, while nothing *)
(* is lost, the queue is a chain in which each event fits the one before.  *)
(***************************************************************************)
EXTENDS Injection, SequenceTheorems, TLAPS

Kinds == {"DOWN", "MOVE", "UP", "KEY", "FLIP", "ZOOM", "PINCH"}

(* An event that needs a stroke to be open, and one that leaves it open.   *)
NeedsOpen(e) == e \in {"MOVE", "UP"}
LeavesOpen(e) == e \in {"DOWN", "MOVE"}

(* q is a chain that ends with the stroke open or not, as s says.          *)
Linked(q, s) ==
    /\ \A k \in 1 .. Len(q) - 1 : LeavesOpen(q[k]) <=> NeedsOpen(q[k + 1])
    /\ q # <<>> => (s <=> LeavesOpen(q[Len(q)]))

(* What is open before the first event of q.                               *)
Before(q, s) == IF q = <<>> THEN s ELSE NeedsOpen(q[1])

SecondFinger == 2 \in fingers => runPc \in {"move", "pointerUp"}

Points ==
    /\ InGesture /\ direction = 1 =>
          downY1 = 200 - 10 * i /\ downY2 = 250 + 10 * i /\ apart = 50
    /\ InGesture /\ direction = -1 =>
          downY1 = 100 + 10 * i /\ downY2 = 350 - 10 * i /\ apart = 250
    /\ runPc = "pointerDown" => i = 0
    /\ runPc = "move" => i < Moves
    /\ runPc \in {"pointerUp", "up"} => i = Moves
    /\ runPc \in {"pointerDown", "move", "pointerUp"} => pc1 = downY1 /\ pc2 = downY2
    /\ runPc = "up" => pc1 = downY1 + 10 * direction /\ pc2 = downY2 - 10 * direction

Down ==
    CASE runPc \in {"pointerDown", "up"} -> {1}
      [] runPc \in {"move", "pointerUp"} -> {1, 2}
      [] OTHER -> IF Before(queue, stroke) THEN {1} ELSE {}

Intact ==
    /\ ~confused
    /\ Linked(queue, stroke)
    /\ fingers = Down
    /\ InGesture => ~Before(queue, stroke)

Inv == TypeOK /\ SecondFinger /\ Points /\ (~lost => Intact)
-----------------------------------------------------------------------------
(* Chains.                                                                 *)

LEMMA AppendLinked ==
    ASSUME NEW q \in Seq(Kinds), NEW e \in Kinds, NEW s \in BOOLEAN,
           Linked(q, s), s <=> NeedsOpen(e)
    PROVE  /\ Linked(Append(q, e), LeavesOpen(e))
           /\ Before(Append(q, e), LeavesOpen(e)) <=> Before(q, s)
<1> DEFINE r == Append(q, e)
<1>1. /\ r \in Seq(Kinds) /\ Len(r) = Len(q) + 1 /\ r[Len(r)] = e /\ r # <<>>
      /\ \A k \in 1 .. Len(q) : r[k] = q[k]
  OBVIOUS
<1>2. ASSUME NEW k \in 1 .. Len(r) - 1
      PROVE  LeavesOpen(r[k]) <=> NeedsOpen(r[k + 1])
  <2>1. CASE k < Len(q)
    BY <2>1, <1>1 DEF Linked
  <2>2. CASE k = Len(q)
    BY <2>2, <1>1 DEF Linked
  <2> QED
    BY <2>1, <2>2, <1>1
<1>3. Before(r, LeavesOpen(e)) <=> Before(q, s)
  BY <1>1 DEF Before
<1> QED
  BY <1>1, <1>2, <1>3 DEF Linked

LEMMA TailLinked ==
    ASSUME NEW q \in Seq(Kinds), q # <<>>, NEW s \in BOOLEAN, Linked(q, s)
    PROVE  /\ Linked(Tail(q), s)
           /\ Before(Tail(q), s) <=> LeavesOpen(q[1])
<1> DEFINE r == Tail(q)
<1>1. /\ r \in Seq(Kinds) /\ Len(r) = Len(q) - 1 /\ Len(q) \in Nat \ {0}
      /\ \A k \in 1 .. Len(r) : r[k] = q[k + 1]
      /\ r = <<>> <=> Len(q) = 1
  <2>1. r \in Seq(Kinds) /\ Len(r) = Len(q) - 1 /\ Len(q) \in Nat \ {0}
    OBVIOUS
  <2>2. \A k \in 1 .. Len(r) : r[k] = q[k + 1]
    OBVIOUS
  <2>3. r = <<>> <=> Len(r) = 0
    BY <2>1, EmptySeq
  <2> QED
    BY <2>1, <2>2, <2>3
<1>2. ASSUME NEW k \in 1 .. Len(r) - 1
      PROVE  LeavesOpen(r[k]) <=> NeedsOpen(r[k + 1])
  <2>1. k + 1 \in 1 .. Len(q) - 1 /\ r[k] = q[k + 1] /\ r[k + 1] = q[k + 2]
    BY <1>1
  <2> QED
    BY <2>1 DEF Linked
<1>3. r # <<>> => (s <=> LeavesOpen(r[Len(r)]))
  BY <1>1 DEF Linked
<1>4. Before(r, s) <=> LeavesOpen(q[1])
  BY <1>1 DEF Before, Linked
<1> QED
  BY <1>2, <1>3, <1>4 DEF Linked
-----------------------------------------------------------------------------
(* One step of the specification.                                          *)

LEMMA InitInv == Init => Inv
<1> SUFFICES ASSUME Init PROVE Inv
  OBVIOUS
<1>1. TypeOK
  <2>1. queue \in Seq(Kinds)
    BY EmptySeq DEF Init
  <2>2. stroke \in BOOLEAN /\ lost \in BOOLEAN /\ goon \in BOOLEAN /\ confused \in BOOLEAN
    BY DEF Init
  <2>3. pushed \in 0..MaxPush /\ i \in 0..Moves /\ direction \in {1, -1}
    BY InjectionAssumption DEF Init, Moves, InjectionAssumption
  <2> QED
    BY <2>1, <2>2, <2>3 DEF Init, TypeOK, Kinds, InGesture
<1>2. SecondFinger /\ Points
  BY DEF Init, SecondFinger, Points, InGesture
<1>3. Intact
  BY DEF Init, Intact, Linked, Before, Down, InGesture
<1> QED
  BY <1>1, <1>2, <1>3 DEF Inv

(* A push changes nothing but the end of the chain.                        *)
LEMMA PushInv ==
    ASSUME Inv, NEW kind \in Kinds, Push(kind),
           stroke <=> NeedsOpen(kind), stroke' = LeavesOpen(kind)
    PROVE  Inv'
<1> USE DEF Push, gesture, receiver
<1>1. TypeOK'
  <2>1. queue' \in Seq(Kinds) /\ stroke' \in BOOLEAN
    BY DEF Inv, TypeOK, Kinds, LeavesOpen
  <2>2. pushed' \in 0..MaxPush
    BY InjectionAssumption DEF Inv, TypeOK, InjectionAssumption
  <2> QED
    BY <2>1, <2>2 DEF Inv, TypeOK, Kinds, InGesture
<1>2. SecondFinger' /\ Points'
  BY DEF Inv, SecondFinger, Points, InGesture
<1>3. ASSUME ~lost PROVE Intact'
  <2>1. queue \in Seq(Kinds) /\ stroke \in BOOLEAN /\ Linked(queue, stroke)
    BY <1>3 DEF Inv, Intact, TypeOK, Kinds
  <2>2. /\ Linked(queue', stroke')
        /\ Before(queue', stroke') <=> Before(queue, stroke)
    BY <2>1, AppendLinked
  <2>3. Down' = Down
    BY <2>2 DEF Down
  <2> QED
    BY <2>2, <2>3, <1>3 DEF Inv, Intact, InGesture
<1> QED
  BY <1>1, <1>2, <1>3 DEF Inv

(* What taking the first event does to the chain.                          *)
LEMMA TakeLinked ==
    ASSUME Inv, Take
    PROVE  /\ queue' \in Seq(Kinds)
           /\ Head(queue) \in Kinds /\ Head(queue) = queue[1]
           /\ ~lost => /\ Linked(queue', stroke')
                       /\ Before(queue', stroke') <=> LeavesOpen(Head(queue))
                       /\ fingers = IF NeedsOpen(Head(queue)) THEN {1} ELSE {}
<1>1. queue \in Seq(Kinds) /\ queue # <<>> /\ stroke \in BOOLEAN
  BY DEF Inv, TypeOK, Take, Kinds
<1>2. queue' \in Seq(Kinds) /\ Head(queue) \in Kinds /\ Head(queue) = queue[1]
  BY <1>1 DEF Take
<1>3. ASSUME ~lost
      PROVE  /\ Linked(queue', stroke')
             /\ Before(queue', stroke') <=> LeavesOpen(Head(queue))
             /\ fingers = IF NeedsOpen(Head(queue)) THEN {1} ELSE {}
  <2>1. Linked(queue, stroke)
    BY <1>3 DEF Inv, Intact
  <2>2. Linked(Tail(queue), stroke) /\ (Before(Tail(queue), stroke) <=> LeavesOpen(queue[1]))
    BY <1>1, <2>1, TailLinked
  <2>3. fingers = IF NeedsOpen(Head(queue)) THEN {1} ELSE {}
    BY <1>1, <1>2, <1>3 DEF Inv, Intact, Down, Before, Take
  <2> QED
    BY <2>2, <2>3, <1>2 DEF Take
<1> QED
  BY <1>2, <1>3

(* The fingers that an event fits.                                         *)
LEMMA FitsDown == (Fits("DOWN", 1) <=> fingers = {}) /\ (Fits("DOWN", 2) <=> fingers = {1})
<1>1. 1 .. 1 - 1 = {} /\ 1 .. 2 - 1 = {1}
  OBVIOUS
<1> QED
  BY <1>1 DEF Fits

LEMMA FitsOther ==
    ASSUME NEW action \in {"MOVE", "UP"}
    PROVE  (Fits(action, 1) <=> fingers = {1}) /\ (Fits(action, 2) <=> fingers = {1, 2})
<1>1. 1..1 = {1} /\ 1..2 = {1, 2}
  OBVIOUS
<1> QED
  BY <1>1 DEF Fits

LEMMA PointerInv == Inv /\ DispatchPointer => Inv'
<1> SUFFICES ASSUME Inv, DispatchPointer PROVE Inv'
  OBVIOUS
<1> USE DEF DispatchPointer, gesture
<1> DEFINE e == Head(queue)
<1>1. /\ queue' \in Seq(Kinds) /\ e \in {"DOWN", "MOVE", "UP"}
      /\ ~lost => /\ Linked(queue', stroke')
                  /\ Before(queue', stroke') <=> LeavesOpen(e)
                  /\ fingers = IF NeedsOpen(e) THEN {1} ELSE {}
  BY TakeLinked
<1>2. fingers' \in {fingers, fingers \cup {1}, fingers \ {1}}
  BY DEF Send
<1>3. TypeOK'
  BY <1>1, <1>2 DEF Inv, TypeOK, Take, Send, InGesture, Kinds
<1>4. SecondFinger' /\ Points'
  BY <1>2 DEF Inv, SecondFinger, Points, InGesture, Take
<1>5. ASSUME ~lost PROVE Intact'
  <2>1. ~confused' /\ fingers' = IF LeavesOpen(e) THEN {1} ELSE {}
    <3>1. ~confused /\ fingers = IF e = "DOWN" THEN {} ELSE {1}
      BY <1>1, <1>5 DEF Inv, Intact, NeedsOpen
    <3>2. Fits(e, 1)
      <4>1. CASE e = "DOWN"
        BY <4>1, <3>1, FitsDown
      <4>2. CASE e # "DOWN"
        <5>1. fingers = {1} /\ e \in {"MOVE", "UP"}
          BY <4>2, <3>1, <1>1
        <5>2. Fits(e, 1) <=> fingers = {1}
          BY <5>1, FitsOther
        <5> QED
          BY <5>1, <5>2
      <4> QED
        BY <1>1, <4>1, <4>2
    <3> QED
      BY <1>1, <3>1, <3>2 DEF Send, LeavesOpen
  <2>2. fingers' = Down'
    BY <1>1, <1>5, <2>1 DEF Down
  <2> QED
    BY <1>1, <1>5, <2>1, <2>2 DEF Intact, InGesture
<1> QED
  BY <1>3, <1>4, <1>5 DEF Inv, Take

LEMMA OtherInv == Inv /\ DispatchOther => Inv'
<1> SUFFICES ASSUME Inv, DispatchOther PROVE Inv'
  OBVIOUS
<1> USE DEF DispatchOther, gesture, receiver
<1> DEFINE e == Head(queue)
<1>1. /\ queue' \in Seq(Kinds) /\ e \in {"KEY", "FLIP"}
      /\ ~lost => /\ Linked(queue', stroke')
                  /\ Before(queue', stroke') <=> LeavesOpen(e)
                  /\ fingers = IF NeedsOpen(e) THEN {1} ELSE {}
  BY TakeLinked
<1>2. TypeOK'
  BY <1>1 DEF Inv, TypeOK, Take, InGesture, Kinds
<1>3. SecondFinger' /\ Points'
  BY DEF Inv, SecondFinger, Points, InGesture, Take
<1>4. ASSUME ~lost PROVE Intact'
  <2>1. fingers' = Down'
    BY <1>1, <1>4 DEF Down, NeedsOpen, LeavesOpen
  <2> QED
    BY <1>1, <1>4, <2>1 DEF Inv, Intact, InGesture
<1> QED
  BY <1>2, <1>3, <1>4 DEF Inv, Take

LEMMA BeginInv == Inv /\ BeginGesture => Inv'
<1> SUFFICES ASSUME Inv, BeginGesture PROVE Inv'
  OBVIOUS
<1> USE DEF BeginGesture
<1> DEFINE e == Head(queue)
<1>1. /\ queue' \in Seq(Kinds) /\ e \in {"ZOOM", "PINCH"}
      /\ ~lost => /\ Linked(queue', stroke')
                  /\ Before(queue', stroke') <=> LeavesOpen(e)
                  /\ fingers = IF NeedsOpen(e) THEN {1} ELSE {}
  BY TakeLinked
<1>2. /\ fingers' = fingers \cup {1} /\ pc1' = downY1' /\ pc2' = downY2'
      /\ confused' = (confused \/ fingers # {}) /\ 2 \notin fingers
  <2>1. Fits("DOWN", 1) <=> fingers = {}
    BY FitsDown
  <2> QED
    BY <2>1 DEF Send, Inv, SecondFinger, Take
<1>3. \/ direction' = 1 /\ downY1' = 200 /\ downY2' = 250 /\ apart' = 50
      \/ direction' = -1 /\ downY1' = 100 /\ downY2' = 350 /\ apart' = 250
  BY DEF BeginGesture
<1>4. TypeOK'
  BY <1>1, <1>2, <1>3 DEF Inv, TypeOK, Take, InGesture, Kinds, Moves
<1>5. SecondFinger' /\ Points'
  BY <1>2, <1>3 DEF SecondFinger, Points, InGesture
<1>6. ASSUME ~lost PROVE Intact'
  <2>1. fingers' = Down' /\ ~confused'
    BY <1>1, <1>2, <1>6 DEF Down, NeedsOpen, Inv, Intact
  <2> QED
    BY <1>1, <1>6, <2>1 DEF Intact, InGesture, LeavesOpen
<1> QED
  BY <1>4, <1>5, <1>6 DEF Inv, Take

(* The other steps of the gesture: the queue and the chain stay.           *)
LEMMA PointerDownInv == Inv /\ PointerDown => Inv'
<1> SUFFICES ASSUME Inv, PointerDown PROVE Inv'
  OBVIOUS
<1> USE DEF PointerDown, producer, gesture
<1>1. /\ fingers' = fingers \cup {2} /\ pc1' = downY1 /\ pc2' = downY2
      /\ confused' = (confused \/ fingers # {1})
  BY FitsDown DEF Send
<1>2. TypeOK'
  BY <1>1 DEF Inv, TypeOK, InGesture
<1>3. SecondFinger' /\ Points'
  BY <1>1 DEF Inv, Points, SecondFinger, InGesture, Moves
<1>4. ASSUME ~lost PROVE Intact'
  <2>1. ~confused /\ fingers = {1} /\ Linked(queue, stroke) /\ ~Before(queue, stroke)
    BY <1>4 DEF Inv, Intact, Down, InGesture
  <2>2. fingers' = Down'
    BY <1>1, <2>1 DEF Down
  <2> QED
    BY <1>1, <2>1, <2>2 DEF Intact
<1> QED
  BY <1>2, <1>3, <1>4 DEF Inv

LEMMA MoveInv == Inv /\ Move => Inv'
<1> SUFFICES ASSUME Inv, Move PROVE Inv'
  OBVIOUS
<1> USE DEF Move, producer
<1>1. /\ fingers' = fingers /\ pc1' = downY1' /\ pc2' = downY2'
      /\ confused' = (confused \/ fingers # {1, 2})
  BY FitsOther DEF Send
<1>2. i \in 0..9 /\ i' = i + 1 /\ direction' = direction /\ direction \in {1, -1}
  BY DEF Inv, TypeOK, Points, Moves
<1>3. runPc' = IF i' < 10 THEN "move" ELSE "pointerUp"
  BY DEF MovesLeft, Moves
<1>4. /\ direction = 1 => /\ downY1 = 200 - 10 * i /\ downY2 = 250 + 10 * i
                          /\ downY1' = 200 - 10 * i' /\ downY2' = 250 + 10 * i'
      /\ direction = -1 => /\ downY1 = 100 + 10 * i /\ downY2 = 350 - 10 * i
                           /\ downY1' = 100 + 10 * i' /\ downY2' = 350 - 10 * i'
  BY <1>2 DEF Inv, Points, InGesture, Moved, StepY
<1>5. TypeOK'
  <2>1. downY1' \in 100..350 /\ downY2' \in 100..350
    BY <1>2, <1>4
  <2>2. i' \in 0..Moves /\ runPc' \in {"move", "pointerUp"}
    BY <1>2, <1>3 DEF Moves
  <2> QED
    BY <1>1, <1>2, <2>1, <2>2 DEF Inv, TypeOK, InGesture
<1>6. SecondFinger'
  BY <1>3 DEF SecondFinger
<1>7. Points'
  <2>1. runPc' = "move" => i' < Moves
    BY <1>3 DEF Moves
  <2>2. runPc' = "pointerUp" => i' = Moves
    BY <1>2, <1>3 DEF Moves
  <2>3. /\ direction = 1 => apart = 50
        /\ direction = -1 => apart = 250
    BY DEF Inv, Points, InGesture
  <2> QED
    BY <1>1, <1>2, <1>3, <1>4, <2>1, <2>2, <2>3 DEF Points, InGesture
<1>8. ASSUME ~lost PROVE Intact'
  <2>1. ~confused /\ fingers = {1, 2} /\ Linked(queue, stroke) /\ ~Before(queue, stroke)
    BY <1>8 DEF Inv, Intact, Down, InGesture
  <2>2. fingers' = Down'
    BY <1>1, <1>3, <2>1 DEF Down
  <2> QED
    BY <1>1, <2>1, <2>2 DEF Intact
<1> QED
  BY <1>5, <1>6, <1>7, <1>8 DEF Inv

LEMMA PointerUpInv == Inv /\ PointerUp => Inv'
<1> SUFFICES ASSUME Inv, PointerUp PROVE Inv'
  OBVIOUS
<1> USE DEF PointerUp, producer, gesture
<1>1. /\ fingers' = fingers \ {2}
      /\ pc1' = downY1 + 10 * direction /\ pc2' = downY2 - 10 * direction
      /\ confused' = (confused \/ fingers # {1, 2})
  BY FitsOther DEF Send
<1>2. i = 10 /\ direction \in {1, -1}
  BY DEF Inv, TypeOK, Points, Moves
<1>3. /\ direction = 1 => downY1 = 100 /\ downY2 = 350
      /\ direction = -1 => downY1 = 200 /\ downY2 = 250
  BY <1>2 DEF Inv, Points, InGesture
<1>4. TypeOK'
  <2>1. pc1' \in 100..350 /\ pc2' \in 100..350
    BY <1>1, <1>2, <1>3
  <2> QED
    BY <1>1, <2>1 DEF Inv, TypeOK, InGesture
<1>5. SecondFinger' /\ Points'
  BY <1>1, <1>2 DEF Inv, Points, SecondFinger, InGesture, Moves
<1>6. ASSUME ~lost PROVE Intact'
  <2>1. ~confused /\ fingers = {1, 2} /\ Linked(queue, stroke) /\ ~Before(queue, stroke)
    BY <1>6 DEF Inv, Intact, Down, InGesture
  <2>2. fingers' = Down'
    BY <1>1, <2>1 DEF Down
  <2> QED
    BY <1>1, <2>1, <2>2 DEF Intact
<1> QED
  BY <1>4, <1>5, <1>6 DEF Inv

LEMMA UpInv == Inv /\ Up => Inv'
<1> SUFFICES ASSUME Inv, Up PROVE Inv'
  OBVIOUS
<1> USE DEF Up, producer, gesture
<1>1. fingers' = fingers \ {1} /\ confused' = (confused \/ fingers # {1})
  BY FitsOther DEF Send
<1>2. TypeOK' /\ SecondFinger' /\ Points'
  BY <1>1 DEF Inv, TypeOK, Points, SecondFinger, InGesture
<1>3. ASSUME ~lost PROVE Intact'
  <2>1. ~confused /\ fingers = {1} /\ Linked(queue, stroke) /\ ~Before(queue, stroke)
    BY <1>3 DEF Inv, Intact, Down, InGesture
  <2>2. fingers' = Down'
    BY <1>1, <2>1 DEF Down
  <2> QED
    BY <1>1, <2>1, <2>2 DEF Intact, InGesture
<1> QED
  BY <1>2, <1>3 DEF Inv

(* A loss keeps the front of the queue, and ends the last part of Inv.     *)
LEMMA LoseInv == Inv /\ Lose => Inv'
<1> SUFFICES ASSUME Inv, Lose PROVE Inv'
  OBVIOUS
<1> USE DEF Lose, gesture, receiver
<1>1. queue \in Seq(Kinds)
  BY DEF Inv, TypeOK, Kinds
<1>2. PICK k \in 0 .. Len(queue) - 1 : queue' = SubSeq(queue, 1, k)
  OBVIOUS
<1>3. queue' \in Seq(Kinds)
  BY <1>1, <1>2, SubSeqProperties
<1> QED
  <2>1. TypeOK'
    BY <1>3 DEF Inv, TypeOK, Kinds, InGesture
  <2>2. SecondFinger' /\ Points'
    BY DEF Inv, SecondFinger, Points, InGesture
  <2> QED
    BY <2>1, <2>2 DEF Inv

(* The steps that touch neither the receiver nor the queue.                *)
LEMMA QuietInv ==
    Inv /\ (StopThread \/ TestGoon \/ NothingToTake \/ NullEvent \/ UNCHANGED vars) => Inv'
<1> SUFFICES ASSUME Inv,
                    StopThread \/ TestGoon \/ NothingToTake \/ NullEvent \/ UNCHANGED vars
             PROVE  Inv'
  OBVIOUS
<1> USE DEF StopThread, TestGoon, NothingToTake, NullEvent, vars, producer, gesture, receiver
<1>1. /\ UNCHANGED <<queue, stroke, pushed, gesture, receiver, apart>>
      /\ lost' = lost \/ lost' = TRUE
      /\ \/ UNCHANGED runPc
         \/ /\ runPc \in {"while", "round"}
            /\ runPc' \in {"while", "round", "exited", "crashed"}
  OBVIOUS
<1>2. TypeOK'
  <2>1. TypeOK
    BY DEF Inv
  <2>2. goon' \in BOOLEAN
    <3>1. goon' = goon \/ goon' = FALSE
      OBVIOUS
    <3> QED BY <2>1, <3>1 DEF TypeOK
  <2>3. lost' \in BOOLEAN
    BY <1>1, <2>1 DEF TypeOK
  <2> HIDE DEF StopThread, TestGoon, NothingToTake, NullEvent, vars, producer
  <2>4. InGesture' = InGesture
    BY <1>1 DEF InGesture
  <2>5. runPc' \in {"while", "round", "pointerDown", "move", "pointerUp", "up",
                    "exited", "crashed"}
    BY <1>1, <2>1 DEF TypeOK
  <2> QED
    BY <1>1, <2>1, <2>2, <2>3, <2>4, <2>5 DEF TypeOK
<1>3. SecondFinger' /\ Points'
  BY <1>1 DEF Inv, SecondFinger, Points, InGesture
<1>4. ASSUME ~lost' PROVE Intact'
  <2>1. ~lost /\ Intact
    BY <1>1, <1>4 DEF Inv
  <2>2. Down' = Down
    BY <1>1 DEF Down
  <2> QED
    BY <1>1, <2>1, <2>2 DEF Intact, InGesture
<1> QED
  BY <1>2, <1>3, <1>4 DEF Inv

LEMMA NextInv == Inv /\ [Next]_vars => Inv'
<1> SUFFICES ASSUME Inv, [Next]_vars PROVE Inv'
  OBVIOUS
<1>1. stroke \in BOOLEAN
  BY DEF Inv, TypeOK
<1>2. CASE PushDown
  BY <1>1, <1>2, PushInv DEF PushDown, Kinds, NeedsOpen, LeavesOpen
<1>3. CASE PushMove
  BY <1>1, <1>3, PushInv DEF PushMove, Kinds, NeedsOpen, LeavesOpen
<1>4. CASE PushUp
  <2>1. "UP" \in Kinds /\ NeedsOpen("UP") /\ LeavesOpen("UP") = FALSE
    BY DEF Kinds, NeedsOpen, LeavesOpen
  <2> QED
    BY <1>1, <1>4, <2>1, PushInv DEF PushUp
<1>5. ASSUME NEW kind \in {"KEY", "FLIP", "ZOOM", "PINCH"}, PushGesture(kind)
      PROVE  Inv'
  BY <1>1, <1>5, PushInv DEF PushGesture, Kinds, NeedsOpen, LeavesOpen
<1> QED
  BY <1>2, <1>3, <1>4, <1>5, LoseInv, QuietInv, PointerInv, OtherInv, BeginInv,
     PointerDownInv, MoveInv, PointerUpInv, UpInv
     DEF Next

LEMMA InvHolds == Spec => []Inv
<1> QED
  BY InitInv, NextInv, PTL DEF Spec
-----------------------------------------------------------------------------
(* The variables keep their kinds of values; the points of a gesture stay  *)
(* between 100 and 350 through all of generateZoomGesture.                 *)
THEOREM TypeCorrect == Spec => []TypeOK
<1>1. Inv => TypeOK
  BY DEF Inv
<1> QED
  BY <1>1, InvHolds, PTL

(* However many events are pushed, and wherever run() is stopped, every    *)
(* injected event fits the fingers that are down unless the queue has lost *)
(* one.                                                                    *)
THEOREM LegalStream == Spec => []StreamIsLegal
<1>1. Inv => StreamIsLegal
  BY DEF Inv, Intact, StreamIsLegal
<1> QED
  BY <1>1, InvHolds, PTL

(* The second finger is only down during generateZoomGesture, which a stop *)
(* does not interrupt; also after a loss.                                  *)
THEOREM CompleteGestures == Spec => []GestureCompletes
<1>1. Inv => GestureCompletes
  BY DEF Inv, SecondFinger, Intact, Down, Before, GestureCompletes, InGesture
<1> QED
  BY <1>1, InvHolds, PTL

(* A zoom moves the fingers apart and a pinch moves them together.         *)
THEOREM GesturesGoTheRightWay == Spec => []RightWay
<1>1. ASSUME Inv PROVE RightWay
  <2>1. i \in 0..10 /\ direction \in {1, -1}
    BY <1>1 DEF Inv, TypeOK, Moves
  <2>2. InGesture => pc1 < pc2
    BY <1>1, <2>1 DEF Inv, Points, InGesture, Moves
  <2>3. runPc = "up" => (pc2 - pc1 > apart <=> direction = 1) /\ pc2 - pc1 # apart
    BY <1>1, <2>1 DEF Inv, Points, InGesture, Moves
  <2> QED
    BY <2>2, <2>3 DEF RightWay
<1> QED
  BY <1>1, InvHolds, PTL
=============================================================================
