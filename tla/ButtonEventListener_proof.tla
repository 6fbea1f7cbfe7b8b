--------------------- MODULE ButtonEventListener_proof ---------------------
(***************************************************************************)
(* For every delay, gap and number of touches, and also when the looper is *)
(* late, the pointer events ButtonEventListener pushes never contain an UP *)
(* or a MOVE without an open DOWN; until a touch overtakes pending work    *)
(* they alternate, every touch has one meaning and nothing is left half    *)
(* done; and no touch overtakes anything if the looper is prompt and the   *)
(* touches are further apart than the longest of the timers.               *)
(***************************************************************************)
EXTENDS ButtonEventListener, SequenceTheorems, TLAPS

(* NoStrayUpOrMove is inductive together with the types of the two         *)
(* variables it relates.                                                   *)
StrokeInv ==
    /\ balance \in Int
    /\ balance >= 0
    /\ eventSendState \in {"up", "downed"} => balance >= 1

LEMMA AfterUpKeeps ==
    ASSUME NEW s, AfterUp(s) \in {"up", "downed"}
    PROVE  s \in {"up", "downed"}
  BY DEF AfterUp

LEMMA NextStrokeInv == StrokeInv /\ [Next]_vars => StrokeInv'
  <1> SUFFICES ASSUME StrokeInv, [Next]_vars PROVE StrokeInv'
    OBVIOUS
  <1> USE DEF StrokeInv
  <1>1. CASE UNCHANGED vars
    BY <1>1 DEF vars, machine, history
  <1>2. CASE TouchDown
    BY <1>2 DEF TouchDown
  <1>3. ASSUME NEW gesture \in Gestures, TouchMove(gesture) PROVE StrokeInv'
    BY <1>3 DEF TouchMove
  <1>4. CASE TouchUp \/ BroadcastArrives \/ Tick
    BY <1>4 DEF TouchUp, BroadcastArrives, Tick, machine, history
  <1>5. CASE OnReceive
    <2>1. eventSendState' = AfterUp(eventSendState) /\ balance' = balance
      BY <1>5 DEF OnReceive, history
    <2>2. QED BY <2>1, AfterUpKeeps
  <1>6. CASE SendEventRun
    <2>1. CASE SendDown
      BY <2>1 DEF SendDown
    <2>2. CASE SendUp
      BY <2>2 DEF SendUp
    <2>3. CASE SendDownAndUp
      BY <2>3 DEF SendDownAndUp
    <2>4. CASE SendMove
      BY <2>4 DEF SendMove
    <2>5. CASE SendNothing
      BY <2>5 DEF SendNothing
    <2>6. QED BY <1>6, <2>1, <2>2, <2>3, <2>4, <2>5 DEF SendEventRun
  <1>7. CASE ModeHandle
    BY <1>7 DEF ModeHandle
  <1>8. QED
    BY <1>1, <1>2, <1>3, <1>4, <1>5, <1>6, <1>7 DEF Next, HandleMessage

(* The runnable pushes an UP or a MOVE only into an open DOWN: a late      *)
(* broadcast or runnable cannot inject half a click.                       *)
THEOREM StrokesAreOpened == Spec => []NoStrayUpOrMove
  <1>1. Init => StrokeInv
    BY DEF Init, StrokeInv
  <1>2. StrokeInv => NoStrayUpOrMove
    BY DEF StrokeInv, NoStrayUpOrMove
  <1>3. QED
    BY <1>1, <1>2, NextStrokeInv, PTL DEF Spec

-----------------------------------------------------------------------------
(* The looper's queue, as long as no touch has overtaken pending work: at  *)
(* most one message of the button's own and at most one TOUCH_ACTION_UP.   *)

Kinds == {"send", "start", "move", "up"}
Message == [what : Kinds, when : Nat]

Has(q, what) == \E i \in DOMAIN q : q[i].what = what

Short(q) ==
    /\ q \in Seq(Message)
    /\ Len(q) <= 2
    /\ Len(q) = 2 => (q[1].what = "up" <=> q[2].what # "up")

Ordered(q) == Len(q) = 2 => q[1].when <= q[2].when

LEMMA EmptyIsShort == Short(<<>>) /\ \A v : ~Has(<<>>, v)
  <1>1. <<>> \in Seq(Message) /\ Len(<<>>) = 0 /\ DOMAIN <<>> = {}
    OBVIOUS
  <1>2. QED BY <1>1 DEF Short, Has

LEMMA OneIsShort ==
    ASSUME NEW w \in Kinds, NEW d \in Nat,
           NEW q, q = <<[what |-> w, when |-> d]>>
    PROVE  /\ Short(q)
           /\ \A v : Has(q, v) <=> v = w
           /\ DOMAIN q = {1} /\ q[1] = [what |-> w, when |-> d]
           /\ Len(q) = 1
  <1>1. [what |-> w, when |-> d] \in Message
    BY DEF Message
  <1>2. q \in Seq(Message) /\ Len(q) = 1 /\ DOMAIN q = {1}
        /\ q[1] = [what |-> w, when |-> d]
    BY <1>1
  <1>3. QED BY <1>2 DEF Short, Has

(* A queue without an UP has one message, and one that holds nothing of    *)
(* any kind is empty.                                                      *)
LEMMA LoneWork ==
    ASSUME NEW q, Short(q), ~Has(q, "up")
    PROVE  /\ Len(q) <= 1
           /\ q # <<>> => Len(q) = 1 /\ DOMAIN q = {1}
           /\ \A v : Has(q, v) => q # <<>> /\ q[1].what = v
  <1>1. q \in Seq(Message) /\ Len(q) \in Nat /\ DOMAIN q = 1 .. Len(q)
    BY DEF Short
  <1>2. Len(q) # 2
    <2>1. Len(q) = 2 => 1 \in DOMAIN q /\ 2 \in DOMAIN q
      BY <1>1
    <2>2. QED BY <2>1 DEF Short, Has
  <1>3. Len(q) <= 1
    BY <1>1, <1>2 DEF Short
  <1>4. q # <<>> => Len(q) = 1 /\ DOMAIN q = {1}
    BY <1>1, <1>3
  <1>5. \A v : Has(q, v) => q # <<>> /\ q[1].what = v
    BY <1>1, <1>3, <1>4 DEF Has
  <1>6. QED BY <1>3, <1>4, <1>5

LEMMA NothingIsEmpty ==
    ASSUME NEW q, Short(q), \A v \in Kinds : ~Has(q, v)
    PROVE  q = <<>>
  <1> SUFFICES ASSUME q # <<>> PROVE FALSE
    OBVIOUS
  <1>1. 1 \in DOMAIN q /\ q[1] \in Message
    BY DEF Short
  <1>2. QED BY <1>1 DEF Has, Message

(* Messages leave the queue at its head.                                   *)
LEMMA TailIsShort ==
    ASSUME NEW q, Short(q), q # <<>>
    PROVE  /\ Short(Tail(q)) /\ Len(Tail(q)) <= 1
           /\ Head(q) \in Message
           /\ Len(Tail(q)) = 1 =>
                (Tail(q)[1].what = "up" <=> Head(q).what # "up")
           /\ \A v : Has(Tail(q), v) <=> Has(q, v) /\ v # Head(q).what
           /\ Has(q, Head(q).what)
           /\ \A i \in DOMAIN Tail(q) : i = 1 /\ 2 \in DOMAIN q /\ Tail(q)[i] = q[2]
  <1>1. q \in Seq(Message) /\ Len(q) \in {1, 2} /\ DOMAIN q = 1 .. Len(q)
    <2>1. q \in Seq(Message) /\ Len(q) <= 2
      BY DEF Short
    <2>2. Len(q) \in Nat /\ Len(q) # 0 /\ DOMAIN q = 1 .. Len(q)
      BY <2>1
    <2>3. QED BY <2>1, <2>2
  <1>2. /\ Tail(q) \in Seq(Message) /\ Len(Tail(q)) = Len(q) - 1
        /\ Head(q) = q[1] /\ Head(q) \in Message
        /\ DOMAIN Tail(q) = 1 .. Len(q) - 1
        /\ \A i \in 1 .. Len(q) - 1 : Tail(q)[i] = q[i + 1]
    BY <1>1
  <1>3. CASE Len(q) = 1
    <2>1. Len(Tail(q)) = 0 /\ DOMAIN Tail(q) = {} /\ DOMAIN q = {1}
      BY <1>1, <1>2, <1>3
    <2>2. QED BY <1>2, <2>1 DEF Short, Has
  <1>4. CASE Len(q) = 2
    <2>1. Len(Tail(q)) = 1 /\ DOMAIN Tail(q) = {1} /\ DOMAIN q = {1, 2}
          /\ Tail(q)[1] = q[2]
      BY <1>1, <1>2, <1>4
    <2>2. q[1].what = "up" <=> q[2].what # "up"
      BY <1>4 DEF Short
    <2>3. q[1].what # q[2].what
      BY <2>2
    <2>4. \A v : Has(Tail(q), v) <=> v = q[2].what
      BY <2>1 DEF Has
    <2>5. \A v : Has(q, v) <=> v = q[1].what \/ v = q[2].what
      BY <2>1 DEF Has
    <2>6. QED BY <1>2, <2>1, <2>2, <2>3, <2>4, <2>5 DEF Short
  <1>5. QED BY <1>1, <1>3, <1>4

(* Post puts a message into a queue of at most one.                        *)
LEMMA PostIntoEmpty ==
    ASSUME NEW w, NEW d \in Nat
    PROVE  Post(w, d, <<>>) = <<[what |-> w, when |-> d]>>
  <1> DEFINE m == [what |-> w, when |-> d]
             q == <<>>
             Fits(k) == \A i \in DOMAIN q : q[i].when <= d <=> i <= k
             k == CHOOSE k \in 0 .. Len(q) : Fits(k)
  <1>1. k = 0
    <2>1. DOMAIN q = {} /\ 0 .. Len(q) = {0}
      OBVIOUS
    <2>2. 0 \in 0 .. Len(q) /\ Fits(0)
      BY <2>1
    <2>3. QED BY <2>1, <2>2
  <1>2. SubSeq(q, 1, 0) = <<>> /\ SubSeq(q, 0 + 1, Len(q)) = <<>>
    OBVIOUS
  <1>3. Post(w, d, q) = SubSeq(q, 1, k) \o <<m>> \o SubSeq(q, k + 1, Len(q))
    BY DEF Post
  <1>4. <<>> \o <<m>> \o <<>> = <<m>>
    OBVIOUS
  <1>5. QED BY <1>1, <1>2, <1>3, <1>4

LEMMA TwoInARow ==
    \A a, b : <<a>> \o <<b>> \o <<>> = <<a, b>> /\ <<>> \o <<a>> \o <<b>> = <<a, b>>
  <1> TAKE a, b
  <1> DEFINE S == {a, b}
  <1>1. <<a>> \in Seq(S) /\ <<b>> \in Seq(S) /\ <<>> \in Seq(S)
    OBVIOUS
  <1> DEFINE c == <<a>> \o <<b>>
  <1>2. c = <<a, b>>
    <2>1. /\ c \in Seq(S) /\ Len(c) = 2
          /\ c[1] = <<a>>[1] /\ c[2] = <<b>>[1]
      BY <1>1
    <2>2. <<a, b>> \in Seq(S) /\ Len(<<a, b>>) = 2
          /\ <<a, b>>[1] = a /\ <<a, b>>[2] = b
      OBVIOUS
    <2>3. <<a>>[1] = a /\ <<b>>[1] = b
      OBVIOUS
    <2> DEFINE e == <<a, b>>
    <2> HIDE DEF c, e, S
    <2>4. \A i \in 1 .. Len(c) : c[i] = e[i]
      BY <2>1, <2>2, <2>3 DEF e
    <2>5. e \in Seq(S) /\ Len(c) = Len(e)
      BY <2>1, <2>2 DEF e
    <2>6. c = e
      BY <2>1, <2>4, <2>5, SeqEqual
    <2>7. QED BY <2>6 DEF e
  <1>5. <<>> \o <<a>> = <<a>>
    OBVIOUS
  <1>3. <<a, b>> \o <<>> = <<a, b>>
    OBVIOUS
  <1>4. QED BY <1>2, <1>3, <1>5

LEMMA PostIntoOne ==
    ASSUME NEW w, NEW d \in Nat, NEW q \in Seq(Message), Len(q) = 1
    PROVE  Post(w, d, q) = IF q[1].when <= d
                           THEN <<q[1], [what |-> w, when |-> d]>>
                           ELSE <<[what |-> w, when |-> d], q[1]>>
  <1> DEFINE m == [what |-> w, when |-> d]
             Fits(k) == \A i \in DOMAIN q : q[i].when <= d <=> i <= k
             k == CHOOSE k \in 0 .. Len(q) : Fits(k)
  <1>1. DOMAIN q = {1} /\ 0 .. Len(q) = {0, 1} /\ q = <<q[1]>>
    OBVIOUS
  <1>2. Post(w, d, q) = SubSeq(q, 1, k) \o <<m>> \o SubSeq(q, k + 1, Len(q))
    BY DEF Post
  <1>3. CASE q[1].when <= d
    <2>1. Fits(1) /\ ~Fits(0)
      BY <1>1, <1>3
    <2>2. k = 1
      BY <1>1, <2>1
    <2>3. SubSeq(q, 1, 1) = q /\ SubSeq(q, 1 + 1, Len(q)) = <<>>
      OBVIOUS
    <2>4. <<q[1]>> \o <<m>> \o <<>> = <<q[1], m>>
      BY TwoInARow
    <2>5. QED BY <1>1, <1>2, <1>3, <2>2, <2>3, <2>4
  <1>4. CASE ~(q[1].when <= d)
    <2>1. Fits(0) /\ ~Fits(1)
      BY <1>1, <1>4
    <2>2. k = 0
      BY <1>1, <2>1
    <2>3. SubSeq(q, 1, 0) = <<>> /\ SubSeq(q, 0 + 1, Len(q)) = q
      OBVIOUS
    <2>4. <<>> \o <<m>> \o <<q[1]>> = <<m, q[1]>>
      BY TwoInARow
    <2>5. QED BY <1>1, <1>2, <1>4, <2>2, <2>3, <2>4
  <1>5. QED BY <1>3, <1>4

LEMMA PostKeepsShort ==
    ASSUME NEW q, Short(q), Len(q) <= 1, NEW w \in Kinds, NEW d \in Nat,
           Len(q) = 1 => (q[1].what = "up" <=> w # "up"),
           NEW r, r = Post(w, d, q)
    PROVE  /\ Short(r) /\ Ordered(r)
           /\ \A v : Has(r, v) <=> v = w \/ Has(q, v)
           /\ \A i \in DOMAIN r : \/ r[i] = [what |-> w, when |-> d]
                                  \/ 1 \in DOMAIN q /\ r[i] = q[1]
  <1> DEFINE m == [what |-> w, when |-> d]
  <1>1. q \in Seq(Message) /\ Len(q) \in {0, 1} /\ DOMAIN q = 1 .. Len(q)
    <2>1. q \in Seq(Message) /\ Len(q) <= 1
      BY DEF Short
    <2>2. Len(q) \in Nat /\ DOMAIN q = 1 .. Len(q)
      BY <2>1
    <2>3. QED BY <2>1, <2>2
  <1>2. CASE Len(q) = 0
    <2>1. q = <<>>
      BY <1>1, <1>2
    <2>2. r = <<m>>
      BY <2>1, PostIntoEmpty
    <2>3. Short(r) /\ (\A v : Has(r, v) <=> v = w) /\ DOMAIN r = {1} /\ r[1] = m
          /\ Len(r) = 1
      BY <2>2, OneIsShort
    <2>4. QED BY <2>1, <2>3, EmptyIsShort DEF Ordered
  <1>3. CASE Len(q) = 1
    <2>0. m \in Message
      BY DEF Message
    <2>1. m \in Message /\ q[1] \in Message /\ DOMAIN q = {1}
      BY <1>1, <1>3, <2>0
    <2>2. m.what = w /\ m.when = d
      OBVIOUS
    <2>3. q[1].when \in Nat
      BY <2>1 DEF Message
    <2>4. r = IF q[1].when <= d THEN <<q[1], m>> ELSE <<m, q[1]>>
      BY <1>1, <1>3, PostIntoOne
    <2>5. q[1].what = "up" <=> w # "up"
      BY <1>3
    <2>6. \A v : Has(q, v) <=> v = q[1].what
      BY <2>1 DEF Has
    <2>7. CASE q[1].when <= d
      <3>1. r = <<q[1], m>>
        BY <2>4, <2>7
      <3>2. r \in Seq(Message) /\ Len(r) = 2 /\ DOMAIN r = {1, 2}
            /\ r[1] = q[1] /\ r[2] = m
        BY <3>1, <2>1
      <3>3. \A v : Has(r, v) <=> v = q[1].what \/ v = w
        BY <3>2, <2>2 DEF Has
      <3>4. Short(r)
        BY <3>2, <2>2, <2>5 DEF Short
      <3>5. Ordered(r)
        BY <3>2, <2>2, <2>7 DEF Ordered
      <3>6. QED BY <3>2, <3>3, <3>4, <3>5, <2>6, <2>1
    <2>8. CASE ~(q[1].when <= d)
      <3>1. r = <<m, q[1]>>
        BY <2>4, <2>8
      <3>2. r \in Seq(Message) /\ Len(r) = 2 /\ DOMAIN r = {1, 2}
            /\ r[1] = m /\ r[2] = q[1]
        BY <3>1, <2>1
      <3>3. \A v : Has(r, v) <=> v = q[1].what \/ v = w
        BY <3>2, <2>2 DEF Has
      <3>4. Short(r)
        BY <3>2, <2>2, <2>5 DEF Short
      <3>5. Ordered(r)
        BY <3>2, <2>2, <2>3, <2>8 DEF Ordered
      <3>6. QED BY <3>2, <3>3, <3>4, <3>5, <2>6, <2>1
    <2>9. QED BY <2>7, <2>8
  <1>4. QED BY <1>1, <1>2, <1>3

(* A callback that posts another message instead of the one it runs.       *)
LEMMA RepostKeepsShort ==
    ASSUME NEW q, Short(q), q # <<>>, Head(q).what # "up",
           NEW w \in Kinds \ {"up"}, NEW d \in Nat,
           NEW r, r = Post(w, d, Tail(q))
    PROVE  /\ Short(r) /\ Ordered(r)
           /\ \A v : Has(r, v) <=> v = w \/ (Has(q, v) /\ v # Head(q).what)
           /\ \A i \in DOMAIN r : \/ r[i] = [what |-> w, when |-> d]
                                  \/ 2 \in DOMAIN q /\ r[i] = q[2]
  <1> DEFINE t == Tail(q)
  <1>1. /\ Short(t) /\ Len(t) <= 1
        /\ Len(t) = 1 => (t[1].what = "up" <=> Head(q).what # "up")
        /\ \A v : Has(t, v) <=> Has(q, v) /\ v # Head(q).what
        /\ \A i \in DOMAIN t : 2 \in DOMAIN q /\ t[i] = q[2]
    BY TailIsShort
  <1>2. Len(t) = 1 => (t[1].what = "up" <=> w # "up")
    BY <1>1
  <1>3. w \in Kinds /\ w # "up"
    OBVIOUS
  <1> HIDE DEF t
  <1>4. /\ Short(Post(w, d, t)) /\ Ordered(Post(w, d, t))
        /\ \A v : Has(Post(w, d, t), v) <=> v = w \/ Has(t, v)
        /\ \A i \in DOMAIN Post(w, d, t) :
              \/ Post(w, d, t)[i] = [what |-> w, when |-> d]
              \/ 1 \in DOMAIN t /\ Post(w, d, t)[i] = t[1]
    BY <1>1, <1>2, <1>3, PostKeepsShort
  <1>5. r = Post(w, d, t)
    BY DEF t
  <1>6. QED BY <1>1, <1>4, <1>5

(* removeCallbacks on a queue with nothing but the runnable.               *)
LEMMA RemoveTheOnly ==
    ASSUME NEW q \in Seq(Message), Len(q) = 1, q[1].what = "send"
    PROVE  RemoveCallbacks(q) = <<>>
  <1> DEFINE F(g) == [n \in 0 .. Len(q) |->
                        IF n = 0 THEN <<>>
                        ELSE IF q[n].what = "send" THEN g[n - 1]
                        ELSE Append(g[n - 1], q[n])]
             Kept == CHOOSE g : g = F(g)
             h == [n \in 0 .. Len(q) |-> <<>>]
  <1>1. 0 .. Len(q) = {0, 1}
    OBVIOUS
  <1>2. h = F(h)
    <2>1. \A n \in 0 .. Len(q) : F(h)[n] = <<>>
      BY <1>1
    <2>2. QED BY <2>1
  <1>3. Kept = F(Kept)
    BY <1>2
  <1>4. RemoveCallbacks(q) = Kept[Len(q)]
    BY DEF RemoveCallbacks
  <1> HIDE DEF Kept
  <1>5. Kept[0] = <<>> /\ Kept[1] = Kept[0]
    BY <1>1, <1>3
  <1>6. QED BY <1>4, <1>5

(* Time passes for every message of the queue.                             *)
LEMMA AgingKeepsShort ==
    ASSUME NEW q, Short(q), NEW r,
           r = [i \in DOMAIN q |-> [q[i] EXCEPT !.when = Later(@)]]
    PROVE  /\ Short(r)
           /\ \A v : Has(r, v) <=> Has(q, v)
           /\ q = <<>> <=> r = <<>>
           /\ DOMAIN r = DOMAIN q /\ Len(r) = Len(q)
           /\ \A i \in DOMAIN q : r[i].what = q[i].what /\ r[i].when = Later(q[i].when)
  <1>1. q \in Seq(Message) /\ Len(q) \in Nat /\ DOMAIN q = 1 .. Len(q)
    BY DEF Short
  <1>2. \A i \in DOMAIN q : q[i] \in Message
    BY <1>1
  <1>3. \A n \in Nat : Later(n) \in Nat
    BY DEF Later
  <1>4. \A i \in DOMAIN q : /\ r[i].what = q[i].what /\ r[i].when = Later(q[i].when)
                            /\ r[i] \in Message
    BY <1>2, <1>3 DEF Message
  <1>5. r \in Seq(Message) /\ Len(r) = Len(q) /\ DOMAIN r = DOMAIN q
    <2>1. r \in [1 .. Len(q) -> Message]
      BY <1>1, <1>4
    <2>2. QED BY <2>1, <1>1
  <1>6. \A v : Has(r, v) <=> Has(q, v)
    BY <1>4, <1>5 DEF Has
  <1>7. q = <<>> <=> r = <<>>
    BY <1>1, <1>5
  <1>8. Short(r)
    <2>1. Len(q) = 2 => 1 \in DOMAIN q /\ 2 \in DOMAIN q
      BY <1>1
    <2>2. QED BY <1>4, <1>5, <2>1 DEF Short
  <1>9. QED BY <1>4, <1>5, <1>6, <1>7, <1>8

-----------------------------------------------------------------------------
(* What a touch means, as long as none has overtaken pending work.         *)

(* A press is released once TOUCH_ACTION_UP has been run; that is a single *)
(* broadcast, which turns STATE_DOWN and STATE_DOWNED into something else. *)
Released == finger = "up" /\ flying = <<>> /\ ~Has(messages, "up")

Release ==
    /\ finger \in {"up", "down"}
    /\ finger = "down" => flying = <<>> /\ ~Has(messages, "up")
    /\ flying # <<>> => Len(flying) = 1 /\ ~Has(messages, "up")
    /\ flying \in Seq(Nat)
    /\ eventSendState \in {"init", "up", "downAndUp"} => Released
    /\ Released => eventSendState \notin {"down", "downed"}
    /\ Released /\ pressed => eventSendState = "mode"

(* The state tells what has been pushed since the press.                   *)
Stroke ==
    /\ eventSendState \in {"init", "down", "up", "downAndUp", "downed", "cancel", "mode"}
    /\ eventSendState \in {"downed", "up"} => balance = 1 /\ answered
    /\ eventSendState \notin {"downed", "up"} => balance = 0
    /\ eventSendState \in {"down", "downAndUp", "cancel", "mode"} => ~answered
    /\ eventSendState = "init" => answered \/ touches = 0
    /\ moved <=> eventSendState \in {"cancel", "mode"}
    /\ gestures = 0 \/ (gestures = 1 /\ eventSendState = "mode")

(* And it tells which of the button's messages can be pending.             *)
NoneBut(whats) == \A w \in {"send", "start", "move"} \ whats : ~Has(messages, w)

Chain ==
    /\ eventSendState \in {"down", "downed", "up", "downAndUp"} =>
           Has(messages, "send") /\ NoneBut({"send"})
    /\ eventSendState = "init" => NoneBut({})
    /\ eventSendState = "cancel" => NoneBut({"start"})
    /\ eventSendState = "mode" => NoneBut({"move"})
    /\ Has(messages, "start") => modeFlag \in ModeGestures
    /\ Has(messages, "move") => gestures = 0 /\ modeFlag \in {"key", "photo"}

OneMeaning == Short(messages) /\ Release /\ Stroke /\ Chain

TouchInv == ~overlap => OneMeaning

LEMMA InitTouchInv == Init => TouchInv
  <1> SUFFICES ASSUME Init PROVE OneMeaning
    BY DEF TouchInv
  <1> USE DEF Init
  <1>1. Short(messages) /\ \A v : ~Has(messages, v)
    BY EmptyIsShort
  <1>2. Release
    <2>1. <<>> \in Seq(Nat)
      OBVIOUS
    <2>2. QED BY <1>1, <2>1 DEF Release, Released
  <1>3. Stroke
    BY DEF Stroke
  <1>4. Chain
    BY <1>1 DEF Chain, NoneBut
  <1>5. QED BY <1>1, <1>2, <1>3, <1>4 DEF OneMeaning

LEMMA TouchDownKeeps ==
    ASSUME TouchInv, TouchDown PROVE TouchInv'
  <1> SUFFICES ASSUME ~overlap' PROVE OneMeaning'
    BY DEF TouchInv
  <1>1. /\ ~overlap /\ messages = <<>> /\ flying = <<>> /\ flying' = <<>>
        /\ finger = "up" /\ finger' = "down" /\ eventSendState' = "down"
        /\ ~answered' /\ ~moved' /\ gestures' = 0 /\ balance' = balance
        /\ messages' = Post("send", PressDelay, <<>>)
    BY DEF TouchDown
  <1>2. OneMeaning
    BY <1>1 DEF TouchInv
  <1>3. \A v : ~Has(messages, v)
    BY <1>1, EmptyIsShort
  <1>4. balance = 0
    <2>1. Released
      BY <1>1, <1>3 DEF Released
    <2>2. eventSendState \notin {"downed", "up"}
      BY <1>2, <1>3, <2>1 DEF OneMeaning, Release, Chain
    <2>3. QED BY <1>2, <2>2 DEF OneMeaning, Stroke
  <1>5. PressDelay \in Nat /\ "send" \in Kinds
    BY DelayAssumption DEF Kinds
  <1>6. Short(messages') /\ \A v : Has(messages', v) <=> v = "send"
    <2>1. messages' = <<[what |-> "send", when |-> PressDelay]>>
      BY <1>1, <1>5, PostIntoEmpty
    <2>2. QED BY <1>5, <2>1, OneIsShort
  <1>7. Release'
    BY <1>1, <1>6, EmptyIsShort DEF Release, Released
  <1>8. Stroke'
    BY <1>1, <1>4 DEF Stroke
  <1>9. Chain'
    BY <1>1, <1>6 DEF Chain, NoneBut
  <1>10. QED BY <1>6, <1>7, <1>8, <1>9 DEF OneMeaning

(* A move leaves the queue with MODE_STATE_START alone, empty, or as it    *)
(* was.                                                                    *)
LEMMA TouchMoveLeaves ==
    ASSUME OneMeaning, NEW gesture \in Gestures, TouchMove(gesture), ~overlap'
    PROVE  /\ flying = <<>> /\ ~Has(messages, "up")
           /\ \/ /\ messages' = <<[what |-> "start", when |-> 0]>>
                 /\ eventSendState \in {"down", "cancel"} /\ eventSendState' = "cancel"
                 /\ modeFlag' \in ModeGestures /\ moved'
              \/ /\ messages' = <<>>
                 /\ eventSendState = "down" /\ eventSendState' = "cancel"
                 /\ moved'
              \/ /\ messages' = messages /\ eventSendState' = eventSendState
                 /\ modeFlag' = modeFlag /\ (moved' <=> moved)
  <1> DEFINE cancels == Cancels(gesture)
             kept == IF cancels THEN RemoveCallbacks(messages) ELSE messages
             starts == (cancels \/ eventSendState = "cancel") /\ gesture \in ModeGestures
  <1>1. /\ finger = "down" /\ ~(starts /\ Pending("start"))
        /\ eventSendState' = IF cancels THEN "cancel" ELSE eventSendState
        /\ modeFlag' = IF starts THEN gesture ELSE modeFlag
        /\ messages' = IF starts THEN Post("start", 0, kept) ELSE kept
        /\ moved' = (moved \/ cancels)
    BY DEF TouchMove, environment, Cancels
  <1>2. flying = <<>> /\ ~Has(messages, "up")
    BY <1>1 DEF OneMeaning, Release
  <1>3. Short(messages) /\ (messages # <<>> => Len(messages) = 1)
        /\ \A v : Has(messages, v) => messages # <<>> /\ messages[1].what = v
    BY <1>2, LoneWork DEF OneMeaning
  <1>4. cancels => RemoveCallbacks(messages) = <<>>
    <2>1. cancels => eventSendState = "down"
      BY DEF Cancels
    <2>2. cancels => Has(messages, "send")
      BY <2>1 DEF OneMeaning, Chain
    <2>3. messages \in Seq(Message)
      BY <1>3 DEF Short
    <2>4. QED BY <1>3, <2>2, <2>3, RemoveTheOnly
  <1>5. ~cancels /\ starts => messages = <<>>
    <2> SUFFICES ASSUME ~cancels, starts PROVE messages = <<>>
      OBVIOUS
    <2>1. eventSendState = "cancel" /\ ~Has(messages, "start")
      BY <1>1 DEF Pending, Has
    <2>2. \A v \in Kinds : ~Has(messages, v)
      BY <1>2, <2>1 DEF OneMeaning, Chain, NoneBut, Kinds
    <2>3. QED BY <1>3, <2>2, NothingIsEmpty
  <1>6. CASE starts
    <2>1. messages' = Post("start", 0, <<>>)
      BY <1>1, <1>4, <1>5, <1>6
    <2>2. messages' = <<[what |-> "start", when |-> 0]>>
      BY <2>1, PostIntoEmpty
    <2>3. eventSendState' = "cancel" /\ modeFlag' \in ModeGestures
          /\ eventSendState \in {"down", "cancel"}
      BY <1>1, <1>6 DEF Cancels
    <2>4. moved'
      BY <1>1, <1>6 DEF OneMeaning, Stroke
    <2>5. QED BY <1>2, <2>2, <2>3, <2>4
  <1>7. CASE cancels /\ ~starts
    BY <1>1, <1>2, <1>4, <1>7 DEF Cancels
  <1>8. CASE ~cancels /\ ~starts
    BY <1>1, <1>2, <1>8
  <1>9. QED BY <1>6, <1>7, <1>8

LEMMA TouchMoveKeeps ==
    ASSUME TouchInv, NEW gesture \in Gestures, TouchMove(gesture) PROVE TouchInv'
  <1> SUFFICES ASSUME ~overlap' PROVE OneMeaning'
    BY DEF TouchInv
  <1>1. /\ finger = "down" /\ finger' = finger /\ flying' = flying /\ ~overlap
        /\ balance' = balance /\ gestures' = gestures /\ touches' = touches
        /\ answered' = answered /\ pressed' = pressed
    BY DEF TouchMove, environment
  <1>2. OneMeaning
    BY <1>1 DEF TouchInv
  <1>3. flying = <<>> /\ ~Has(messages, "up")
    BY <1>2, TouchMoveLeaves
  <1>4. CASE /\ messages' = <<[what |-> "start", when |-> 0]>>
             /\ eventSendState \in {"down", "cancel"} /\ eventSendState' = "cancel"
             /\ modeFlag' \in ModeGestures /\ moved'
    <2>1. "start" \in Kinds
      BY DEF Kinds
    <2>2. Short(messages') /\ \A v : Has(messages', v) <=> v = "start"
      BY <1>4, <2>1, OneIsShort
    <2>3. Release'
      BY <1>1, <1>2, <1>3, <1>4, <2>2 DEF Release, Released, OneMeaning
    <2>4. Stroke'
      BY <1>1, <1>2, <1>4 DEF Stroke, OneMeaning
    <2>5. Chain'
      BY <1>4, <2>2 DEF Chain, NoneBut
    <2>6. QED BY <2>2, <2>3, <2>4, <2>5 DEF OneMeaning
  <1>5. CASE /\ messages' = <<>>
             /\ eventSendState = "down" /\ eventSendState' = "cancel"
             /\ moved'
    <2>1. Short(messages') /\ \A v : ~Has(messages', v)
      BY <1>5, EmptyIsShort
    <2>2. Release'
      BY <1>1, <1>2, <1>3, <1>5, <2>1 DEF Release, Released, OneMeaning
    <2>3. Stroke'
      BY <1>1, <1>2, <1>5 DEF Stroke, OneMeaning
    <2>4. Chain'
      BY <1>5, <2>1 DEF Chain, NoneBut
    <2>5. QED BY <2>1, <2>2, <2>3, <2>4 DEF OneMeaning
  <1>6. CASE /\ messages' = messages /\ eventSendState' = eventSendState
             /\ modeFlag' = modeFlag /\ (moved' <=> moved)
    <2>1. Release'
      BY <1>1, <1>2, <1>6 DEF Release, Released, OneMeaning
    <2>2. Stroke'
      BY <1>1, <1>2, <1>6 DEF Stroke, OneMeaning
    <2>3. Chain' /\ Short(messages')
      BY <1>1, <1>2, <1>6 DEF Chain, NoneBut, OneMeaning
    <2>4. QED BY <2>1, <2>2, <2>3 DEF OneMeaning
  <1>7. QED BY <1>2, <1>4, <1>5, <1>6, TouchMoveLeaves

LEMMA TouchUpKeeps ==
    ASSUME TouchInv, TouchUp PROVE TouchInv'
  <1> SUFFICES ASSUME ~overlap' PROVE OneMeaning'
    BY DEF TouchInv
  <1>1. /\ finger = "down" /\ finger' = "up" /\ flying' = Append(flying, BroadcastDelay)
        /\ overlap' = overlap /\ messages' = messages /\ eventSendState' = eventSendState
        /\ modeFlag' = modeFlag /\ pressed' = pressed /\ touches' = touches
        /\ balance' = balance /\ answered' = answered /\ moved' = moved
        /\ gestures' = gestures
    BY DEF TouchUp, machine, history
  <1>2. OneMeaning
    BY <1>1 DEF TouchInv
  <1>3. flying = <<>> /\ ~Has(messages, "up")
    BY <1>1, <1>2 DEF OneMeaning, Release
  <1>4. flying' = <<BroadcastDelay>> /\ BroadcastDelay \in Nat
    BY <1>1, <1>3, DelayAssumption
  <1>5. flying' \in Seq(Nat) /\ Len(flying') = 1 /\ flying' # <<>>
    BY <1>4
  <1>6. eventSendState \notin {"init", "up", "downAndUp"}
    BY <1>1, <1>2 DEF OneMeaning, Release, Released
  <1>7. Release'
    BY <1>1, <1>3, <1>5, <1>6 DEF Release, Released
  <1>8. Stroke' /\ Chain' /\ Short(messages')
    BY <1>1, <1>2 DEF OneMeaning, Stroke, Chain, NoneBut
  <1>9. QED BY <1>7, <1>8 DEF OneMeaning

LEMMA BroadcastArrivesKeeps ==
    ASSUME TouchInv, BroadcastArrives PROVE TouchInv'
  <1> SUFFICES ASSUME ~overlap' PROVE OneMeaning'
    BY DEF TouchInv
  <1>1. /\ flying # <<>> /\ flying' = Tail(flying)
        /\ messages' = Post("up", 0, messages) /\ finger' = finger
        /\ overlap' = overlap /\ eventSendState' = eventSendState
        /\ modeFlag' = modeFlag /\ pressed' = pressed /\ touches' = touches
        /\ balance' = balance /\ answered' = answered /\ moved' = moved
        /\ gestures' = gestures
    BY DEF BroadcastArrives, machine, history
  <1>2. OneMeaning
    BY <1>1 DEF TouchInv
  <1>3. ~Has(messages, "up") /\ Len(flying) = 1 /\ flying \in Seq(Nat)
        /\ finger = "up" /\ ~Released
    BY <1>1, <1>2 DEF OneMeaning, Release, Released
  <1>4. Short(messages) /\ Len(messages) <= 1
        /\ (Len(messages) = 1 => messages[1].what # "up")
    <2>1. Short(messages) /\ Len(messages) <= 1
      BY <1>2, <1>3, LoneWork DEF OneMeaning
    <2>2. Len(messages) = 1 => 1 \in DOMAIN messages
      BY <2>1 DEF Short
    <2>3. QED BY <1>3, <2>1, <2>2 DEF Has
  <1>5. "up" \in Kinds /\ 0 \in Nat
    BY DEF Kinds
  <1>6. Short(messages') /\ \A v : Has(messages', v) <=> v = "up" \/ Has(messages, v)
    BY <1>1, <1>4, <1>5, PostKeepsShort
  <1>7. flying' = <<>>
    BY <1>1, <1>3
  <1>8. Release'
    <2>1. <<>> \in Seq(Nat)
      OBVIOUS
    <2>2. eventSendState \notin {"init", "up", "downAndUp"} /\ finger' = "up"
      BY <1>1, <1>2, <1>3 DEF OneMeaning, Release
    <2>3. QED BY <1>1, <1>6, <1>7, <2>1, <2>2 DEF Release, Released
  <1>9. Stroke' /\ Chain'
    <2>1. \A w \in {"send", "start", "move"} : Has(messages', w) <=> Has(messages, w)
      BY <1>6
    <2>2. Stroke'
      BY <1>1, <1>2 DEF OneMeaning, Stroke
    <2>3. Chain'
      BY <1>1, <1>2, <2>1 DEF OneMeaning, Chain, NoneBut
    <2>4. QED BY <2>2, <2>3
  <1>10. QED BY <1>6, <1>8, <1>9 DEF OneMeaning

(* What a message of the queue leaves behind when it is run.               *)
LEMMA HeadRuns ==
    ASSUME OneMeaning, NEW w, NextMessage(w)
    PROVE  /\ messages # <<>> /\ Short(messages) /\ Head(messages).what = w
           /\ Has(messages, w)
           /\ Short(Tail(messages))
           /\ \A v : Has(Tail(messages), v) <=> Has(messages, v) /\ v # w
  <1>1. messages # <<>> /\ Head(messages).what = w /\ Short(messages)
    BY DEF NextMessage, Due, OneMeaning
  <1>2. QED BY <1>1, TailIsShort

LEMMA OnReceiveKeeps ==
    ASSUME TouchInv, OnReceive PROVE TouchInv'
  <1> SUFFICES ASSUME ~overlap' PROVE OneMeaning'
    BY DEF TouchInv
  <1>1. /\ NextMessage("up") /\ messages' = Tail(messages)
        /\ eventSendState' = AfterUp(eventSendState)
        /\ pressed' = (pressed /\ eventSendState = "mode")
        /\ flying' = flying /\ finger' = finger /\ touches' = touches
        /\ overlap' = overlap /\ modeFlag' = modeFlag
        /\ balance' = balance /\ answered' = answered /\ moved' = moved
        /\ gestures' = gestures
    BY DEF OnReceive, environment, history
  <1>2. OneMeaning
    BY <1>1 DEF TouchInv
  <1>3. /\ Has(messages, "up") /\ Short(messages')
        /\ \A v : Has(messages', v) <=> Has(messages, v) /\ v # "up"
    BY <1>1, <1>2, HeadRuns
  <1>4. finger = "up" /\ flying = <<>>
    BY <1>2, <1>3 DEF OneMeaning, Release
  <1>5. eventSendState \in {"down", "downed", "cancel", "mode"}
    BY <1>2, <1>3 DEF OneMeaning, Release, Released, Stroke
  <1>6. \/ eventSendState = "down" /\ eventSendState' = "downAndUp"
        \/ eventSendState = "downed" /\ eventSendState' = "up"
        \/ eventSendState \in {"cancel", "mode"} /\ eventSendState' = eventSendState
    BY <1>1, <1>5 DEF AfterUp
  <1>7. Release'
    BY <1>1, <1>2, <1>3, <1>4, <1>6 DEF OneMeaning, Release, Released
  <1>8. Stroke'
    BY <1>1, <1>2, <1>6 DEF OneMeaning, Stroke
  <1>9. Chain'
    BY <1>1, <1>2, <1>3, <1>6 DEF OneMeaning, Chain, NoneBut
  <1>10. QED BY <1>3, <1>7, <1>8, <1>9 DEF OneMeaning

(* A callback of the button's own changes neither finger nor broadcast, so *)
(* a press is released after it if it was before.                          *)
LEMMA WorkKeepsRelease ==
    ASSUME OneMeaning, Has(messages', "up") <=> Has(messages, "up"),
           flying' = flying, finger' = finger, pressed' = pressed,
           eventSendState' \in {"init", "up", "downAndUp"} => Released,
           eventSendState' \in {"down", "downed"} => eventSendState \in {"down", "downed"},
           eventSendState = "mode" => eventSendState' = "mode"
    PROVE  Release' /\ (Released' <=> Released)
  BY DEF OneMeaning, Release, Released

LEMMA SendEventRunKeeps ==
    ASSUME TouchInv, SendEventRun PROVE TouchInv'
  <1> SUFFICES ASSUME ~overlap' PROVE OneMeaning'
    BY DEF TouchInv
  <1>1. /\ NextMessage("send") /\ overlap' = overlap
        /\ flying' = flying /\ finger' = finger /\ touches' = touches
        /\ modeFlag' = modeFlag /\ moved' = moved /\ gestures' = gestures
        /\ pressed' = pressed
        /\ SendDown \/ SendUp \/ SendDownAndUp \/ SendMove \/ SendNothing
    BY DEF SendEventRun, environment
  <1>2. OneMeaning
    BY <1>1 DEF TouchInv
  <1>3. /\ messages # <<>> /\ Short(messages) /\ Head(messages).what = "send"
        /\ Has(messages, "send")
        /\ Short(Tail(messages))
        /\ \A v : Has(Tail(messages), v) <=> Has(messages, v) /\ v # "send"
    BY <1>1, <1>2, HeadRuns
  <1>4. eventSendState \in {"down", "downed", "up", "downAndUp"}
        /\ NoneBut({"send"})
    BY <1>2, <1>3 DEF OneMeaning, Chain, NoneBut, Stroke
  <1>5. "send" \in Kinds \ {"up"} /\ SendDownDelay \in Nat /\ SendMoveDelay \in Nat
    BY DelayAssumption DEF Kinds
  <1>6. ASSUME NEW d \in Nat, messages' = Post("send", d, Tail(messages))
        PROVE  Short(messages') /\ \A v : Has(messages', v) <=> Has(messages, v)
    BY <1>3, <1>5, <1>6, RepostKeepsShort
  <1>7. CASE SendDown
    <2>1. /\ eventSendState = "down" /\ eventSendState' = "downed"
          /\ messages' = Post("send", SendDownDelay, Tail(messages))
          /\ balance' = balance + 1 /\ answered'
      BY <1>7 DEF SendDown
    <2>2. Short(messages') /\ \A v : Has(messages', v) <=> Has(messages, v)
      BY <1>5, <1>6, <2>1
    <2>3. Release'
      BY <1>1, <1>2, <2>1, <2>2, WorkKeepsRelease
    <2>4. Stroke'
      BY <1>1, <1>2, <2>1 DEF OneMeaning, Stroke
    <2>5. Chain'
      BY <1>1, <1>2, <2>1, <2>2 DEF OneMeaning, Chain, NoneBut
    <2>6. QED BY <2>2, <2>3, <2>4, <2>5 DEF OneMeaning
  <1>8. CASE SendMove
    <2>1. /\ eventSendState = "downed" /\ eventSendState' = "downed"
          /\ messages' = Post("send", SendMoveDelay, Tail(messages))
          /\ balance' = balance /\ answered' = answered
      BY <1>8 DEF SendMove
    <2>2. Short(messages') /\ \A v : Has(messages', v) <=> Has(messages, v)
      BY <1>5, <1>6, <2>1
    <2>3. Release'
      BY <1>1, <1>2, <2>1, <2>2, WorkKeepsRelease
    <2>4. Stroke'
      BY <1>1, <1>2, <2>1 DEF OneMeaning, Stroke
    <2>5. Chain'
      BY <1>1, <1>2, <2>1, <2>2 DEF OneMeaning, Chain, NoneBut
    <2>6. QED BY <2>2, <2>3, <2>4, <2>5 DEF OneMeaning
  <1>9. CASE SendUp \/ SendDownAndUp
    <2>1. /\ eventSendState \in {"up", "downAndUp"} /\ eventSendState' = "init"
          /\ messages' = Tail(messages) /\ balance' = 0 /\ answered'
      <3>1. CASE SendUp
        <4>1. eventSendState = "up" /\ balance' = balance - 1 /\ answered' = answered
              /\ eventSendState' = "init" /\ messages' = Tail(messages)
          BY <3>1 DEF SendUp
        <4>2. balance = 1 /\ answered
          BY <1>2, <4>1 DEF OneMeaning, Stroke
        <4>3. QED BY <4>1, <4>2
      <3>2. CASE SendDownAndUp
        <4>1. eventSendState = "downAndUp" /\ balance' = balance /\ answered'
              /\ eventSendState' = "init" /\ messages' = Tail(messages)
          BY <3>2 DEF SendDownAndUp
        <4>2. balance = 0
          BY <1>2, <4>1 DEF OneMeaning, Stroke
        <4>3. QED BY <4>1, <4>2
      <3>3. QED BY <1>9, <3>1, <3>2
    <2>2. Short(messages') /\ \A v : Has(messages', v) <=> Has(messages, v) /\ v # "send"
      BY <1>3, <2>1
    <2>3. Release'
      <3>1. Released
        BY <1>2, <2>1 DEF OneMeaning, Release
      <3>2. QED BY <1>1, <1>2, <2>1, <2>2, <3>1, WorkKeepsRelease
    <2>4. Stroke'
      BY <1>1, <1>2, <2>1 DEF OneMeaning, Stroke
    <2>5. Chain'
      BY <1>1, <1>4, <2>1, <2>2 DEF Chain, NoneBut
    <2>6. QED BY <2>2, <2>3, <2>4, <2>5 DEF OneMeaning
  <1>10. ~SendNothing
    BY <1>4 DEF SendNothing
  <1>11. QED BY <1>1, <1>7, <1>8, <1>9, <1>10

LEMMA ModeHandleKeeps ==
    ASSUME TouchInv, ModeHandle PROVE TouchInv'
  <1> SUFFICES ASSUME ~overlap' PROVE OneMeaning'
    BY DEF TouchInv
  <1>1. /\ NextMessage("start") \/ NextMessage("move")
        /\ eventSendState' = "mode" /\ overlap' = overlap
        /\ flying' = flying /\ finger' = finger /\ touches' = touches
        /\ modeFlag' = modeFlag /\ moved' = moved /\ pressed' = pressed
        /\ balance' = balance /\ answered' = answered
        /\ StartScan \/ Scan \/ Flip \/ NoMode
    BY DEF ModeHandle, environment
  <1>2. OneMeaning
    BY <1>1 DEF TouchInv
  <1>3. PICK w \in {"start", "move"} : NextMessage(w)
    BY <1>1
  <1>4. /\ messages # <<>> /\ Short(messages) /\ Head(messages).what = w
        /\ Has(messages, w)
        /\ Short(Tail(messages))
        /\ \A v : Has(Tail(messages), v) <=> Has(messages, v) /\ v # w
    BY <1>2, <1>3, HeadRuns
  <1>5. /\ w = "start" => eventSendState = "cancel"
        /\ w = "move" => eventSendState = "mode"
    BY <1>2, <1>4 DEF OneMeaning, Chain, NoneBut, Stroke
  <1>6. eventSendState \in {"cancel", "mode"} /\ NoneBut({w})
        /\ modeFlag \in ModeGestures /\ gestures = 0
    <2>1. eventSendState \in {"cancel", "mode"} /\ NoneBut({w})
      BY <1>2, <1>5 DEF OneMeaning, Chain
    <2>2. modeFlag \in ModeGestures
      BY <1>2, <1>4 DEF OneMeaning, Chain, ModeGestures
    <2>3. gestures = 0
      BY <1>2, <1>4, <1>5 DEF OneMeaning, Chain, Stroke
    <2>4. QED BY <2>1, <2>2, <2>3
  <1>7. \/ /\ modeFlag \in {"key", "photo"} /\ gestures' = gestures
           /\ messages' = Post("move", ModeScanDelay, Tail(messages))
        \/ /\ gestures' \in {gestures, gestures + 1}
           /\ messages' = Tail(messages)
    <2>1. CASE StartScan
      BY <2>1 DEF StartScan
    <2>2. CASE Scan
      BY <2>2 DEF Scan
    <2>3. CASE Flip
      BY <2>3 DEF Flip
    <2>4. CASE NoMode
      BY <1>6, <2>4 DEF NoMode, ModeGestures
    <2>5. QED BY <1>1, <2>1, <2>2, <2>3, <2>4
  <1>8. gestures' = 0 \/ gestures' = 1
    BY <1>6, <1>7
  <1>9. Short(messages') /\ (Has(messages', "up") <=> Has(messages, "up"))
        /\ ~Has(messages', "send") /\ ~Has(messages', "start")
        /\ (Has(messages', "move") => gestures' = 0 /\ modeFlag' \in {"key", "photo"})
    <2>0. ~Has(messages, "send") /\ ~Has(Tail(messages), "start")
          /\ ~Has(Tail(messages), "move")
      BY <1>3, <1>4, <1>6 DEF NoneBut
    <2>1. CASE messages' = Tail(messages)
      BY <1>3, <1>4, <2>0, <2>1
    <2>2. CASE /\ modeFlag \in {"key", "photo"} /\ gestures' = gestures
               /\ messages' = Post("move", ModeScanDelay, Tail(messages))
      <3>1. "move" \in Kinds \ {"up"} /\ ModeScanDelay \in Nat
        BY DelayAssumption DEF Kinds
      <3>2. Head(messages).what # "up"
        BY <1>3, <1>4
      <3>3. /\ Short(messages')
            /\ \A v : Has(messages', v) <=>
                  v = "move" \/ (Has(messages, v) /\ v # Head(messages).what)
        BY <1>4, <2>2, <3>1, <3>2, RepostKeepsShort
      <3>4. QED BY <1>1, <1>3, <1>4, <1>6, <2>0, <2>2, <3>3
    <2>3. QED BY <1>7, <2>1, <2>2
  <1>10. Release'
    BY <1>1, <1>2, <1>9, WorkKeepsRelease
  <1>11. Stroke'
    BY <1>1, <1>2, <1>6, <1>8 DEF OneMeaning, Stroke
  <1>12. Chain'
    BY <1>1, <1>9 DEF Chain, NoneBut
  <1>13. QED BY <1>9, <1>10, <1>11, <1>12 DEF OneMeaning

LEMMA TickKeeps ==
    ASSUME TouchInv, Tick PROVE TouchInv'
  <1> SUFFICES ASSUME ~overlap' PROVE OneMeaning'
    BY DEF TouchInv
  <1>1. /\ messages' = [i \in DOMAIN messages |->
                          [messages[i] EXCEPT !.when = Later(@)]]
        /\ flying' = [i \in DOMAIN flying |-> Later(flying[i])]
        /\ overlap' = overlap /\ finger' = finger /\ touches' = touches
        /\ eventSendState' = eventSendState /\ modeFlag' = modeFlag
        /\ pressed' = pressed
        /\ balance' = balance /\ answered' = answered /\ moved' = moved
        /\ gestures' = gestures
    BY DEF Tick, machine, history
  <1>2. OneMeaning
    BY <1>1 DEF TouchInv
  <1>3. Short(messages') /\ \A v : Has(messages', v) <=> Has(messages, v)
    BY <1>1, <1>2, AgingKeepsShort DEF OneMeaning
  <1>4. flying' \in Seq(Nat) /\ Len(flying') = Len(flying)
        /\ (flying' = <<>> <=> flying = <<>>)
    <2>1. flying \in Seq(Nat)
      BY <1>2 DEF OneMeaning, Release
    <2>2. flying' \in [1 .. Len(flying) -> Nat] /\ Len(flying) \in Nat
      BY <1>1, <2>1 DEF Later
    <2>3. flying' \in Seq(Nat) /\ Len(flying') = Len(flying)
      BY <2>2
    <2>4. QED BY <2>1, <2>3
  <1>5. Release'
    BY <1>1, <1>2, <1>3, <1>4 DEF OneMeaning, Release, Released
  <1>6. Stroke'
    BY <1>1, <1>2 DEF OneMeaning, Stroke
  <1>7. Chain'
    BY <1>1, <1>2, <1>3 DEF OneMeaning, Chain, NoneBut
  <1>8. QED BY <1>3, <1>5, <1>6, <1>7 DEF OneMeaning

LEMMA NextTouchInv == TouchInv /\ [Next]_vars => TouchInv'
  <1> SUFFICES ASSUME TouchInv, [Next]_vars PROVE TouchInv'
    OBVIOUS
  <1>1. CASE UNCHANGED vars
    BY <1>1 DEF vars, machine, environment, history, TouchInv, OneMeaning,
                Release, Released, Stroke, Chain, NoneBut
  <1>2. CASE Next
    BY <1>2, TouchDownKeeps, TouchMoveKeeps, TouchUpKeeps, BroadcastArrivesKeeps,
       OnReceiveKeeps, SendEventRunKeeps, ModeHandleKeeps, TickKeeps
       DEF Next, HandleMessage
  <1>3. QED BY <1>1, <1>2

(* The pushed pointer events alternate between DOWN and UP until a touch   *)
(* overtakes pending work, for all delays and however late the looper and  *)
(* the broadcasts are.                                                     *)
THEOREM DownsAndUpsAlternate == Spec => []DownsAlternate
  <1>1. TouchInv => DownsAlternate
    BY DEF TouchInv, OneMeaning, Stroke, DownsAlternate
  <1>2. QED
    BY <1>1, InitTouchInv, NextTouchInv, PTL DEF Spec

(* Until then a touch is a click or at most one gesture, never both.       *)
THEOREM TouchHasOneIntent == Spec => []OneIntentPerTouch
  <1>1. TouchInv => OneIntentPerTouch
    BY DEF TouchInv, OneMeaning, Stroke, OneIntentPerTouch
  <1>2. QED
    BY <1>1, InitTouchInv, NextTouchInv, PTL DEF Spec

(* Until then nothing is left half done when all has settled: every press  *)
(* has become a complete click or a gesture, and only a gesture leaves the *)
(* button pressed.                                                         *)
THEOREM RestIsClean == Spec => []CleanAtRest
  <1>1. TouchInv => CleanAtRest
    <2> SUFFICES ASSUME OneMeaning, AtRest
                 PROVE  /\ balance = 0
                        /\ touches > 0 => answered \/ moved
                        /\ pressed => eventSendState = "mode"
      BY DEF TouchInv, CleanAtRest
    <2>1. Released /\ \A v : ~Has(messages, v)
      BY EmptyIsShort DEF AtRest, Released
    <2>2. eventSendState \in {"init", "cancel", "mode"}
      BY <2>1 DEF OneMeaning, Stroke, Chain
    <2>3. pressed => eventSendState = "mode"
      BY <2>1 DEF OneMeaning, Release
    <2>4. balance = 0
      BY <2>2 DEF OneMeaning, Stroke
    <2>5. touches = 0 \/ answered \/ moved
      BY <2>2 DEF OneMeaning, Stroke
    <2>6. touches = 0 => ~(touches > 0)
      OBVIOUS
    <2>7. QED BY <2>3, <2>4, <2>5, <2>6
  <1>2. QED
    BY <1>1, InitTouchInv, NextTouchInv, PTL DEF Spec

(* Until then a key, a zoom or a flip is pushed only while the pointer is  *)
(* up: the message that does it finds the state machine in STATE_CANCEL or *)
(* one of the modes.                                                       *)
THEOREM GesturesAreBetweenStrokes == Spec => GesturesBetweenStrokes
  <1>1. TouchInv /\ [Next]_vars => [gestures' > gestures => overlap \/ balance = 0]_vars
    <2> SUFFICES ASSUME TouchInv, Next, gestures' > gestures, ~overlap
                 PROVE  balance = 0
      OBVIOUS
    <2>1. OneMeaning
      BY DEF TouchInv
    <2>2. gestures \in Nat
      BY <2>1 DEF OneMeaning, Stroke
    <2>3. ~(gestures > gestures) /\ ~(0 > gestures)
      BY <2>2
    <2>4. ModeHandle
      BY <2>3 DEF Next, TouchDown, TouchMove, TouchUp, BroadcastArrives, Tick,
                  HandleMessage, OnReceive, SendEventRun, history
    <2>5. Has(messages, "start") \/ Has(messages, "move")
      BY <2>1, <2>4, HeadRuns DEF ModeHandle
    <2>6. eventSendState \in {"cancel", "mode"}
      BY <2>1, <2>5 DEF OneMeaning, Chain, NoneBut, Stroke
    <2>7. QED BY <2>1, <2>6 DEF OneMeaning, Stroke
  <1>2. QED
    BY <1>1, InitTouchInv, NextTouchInv, PTL DEF Spec, GesturesBetweenStrokes

-----------------------------------------------------------------------------
(* With a prompt looper and touches far enough apart no touch overtakes    *)
(* what is pending from the one before.                                    *)

(* The longest a touch leaves something pending after the finger has gone: *)
(* the runnable of a short tap, the UP of a click that was under way when  *)
(* the broadcast came, the last scan of a gesture.                         *)
GapIsLong ==
    /\ BroadcastDelay < MinGap
    /\ PressDelay <= MinGap
    /\ BroadcastDelay + SendDownDelay <= MinGap
    /\ BroadcastDelay + SendMoveDelay <= MinGap
    /\ ModeScanDelay <= MinGap
    /\ ModeCounterThreshold * ModeScanDelay <= MinGap

(* How long the scans after the next one can take.                         *)
Remaining(count) ==
    IF count + 1 < ModeCounterThreshold
    THEN (ModeCounterThreshold - 1 - count) * ModeScanDelay
    ELSE 0

OffTime == IF finger = "up" THEN idle ELSE 0

(* A message is run before the finger can be back, and the runnable of a   *)
(* press before PressDelay is over.                                        *)
InTime(m) ==
    /\ m.what \in {"up", "start"} => m.when = 0
    /\ m.what = "send" => m.when + OffTime <= MinGap
    /\ m.what = "send" /\ eventSendState \in {"down", "downAndUp"} =>
           age + m.when <= PressDelay
    /\ m.what = "move" => m.when + Remaining(modeStateCount) + OffTime <= MinGap

Timely ==
    /\ idle \in Nat /\ age \in Nat /\ modeStateCount \in Nat
    /\ Ordered(messages)
    /\ \A i \in DOMAIN messages : InTime(messages[i])
    /\ Has(messages, "start") => finger = "down"
    /\ Has(messages, "up") => idle <= BroadcastDelay
    /\ flying # <<>> => idle + flying[1] <= BroadcastDelay

Punctual == ~overlap /\ OneMeaning /\ Timely

LEMMA Delays ==
    /\ PressDelay \in Nat /\ SendDownDelay \in Nat /\ SendMoveDelay \in Nat
    /\ ModeScanDelay \in Nat /\ BroadcastDelay \in Nat /\ MinGap \in Nat
    /\ ModeCounterThreshold \in Nat
  BY DelayAssumption

LEMMA RemainingIsNat == \A c \in Nat : Remaining(c) \in Nat
  <1> SUFFICES ASSUME NEW c \in Nat PROVE Remaining(c) \in Nat
    OBVIOUS
  <1>1. CASE c + 1 < ModeCounterThreshold
    <2>1. ModeCounterThreshold - 1 - c \in Nat
      BY <1>1, Delays
    <2>2. \A a, b \in Nat : a * b \in Nat
      OBVIOUS
    <2>3. QED BY <1>1, <2>1, <2>2, Delays DEF Remaining
  <1>2. CASE ~(c + 1 < ModeCounterThreshold)
    BY <1>2 DEF Remaining
  <1>3. QED BY <1>1, <1>2

LEMMA Distributes == \A n \in Int, d \in Nat : n * d = d + (n - 1) * d
  OBVIOUS

(* Each scan uses up one of the remaining ones.                            *)
LEMMA RemainingShrinks ==
    ASSUME NEW c \in Nat, c + 1 < ModeCounterThreshold
    PROVE  Remaining(c) = ModeScanDelay + Remaining(c + 1)
  <1> DEFINE n == ModeCounterThreshold - 1 - c
  <1>1. n \in Int /\ n >= 1 /\ ModeCounterThreshold - 1 - (c + 1) = n - 1
    BY Delays
  <1>2. Remaining(c) = n * ModeScanDelay
    BY DEF Remaining
  <1>3. n * ModeScanDelay = ModeScanDelay + (n - 1) * ModeScanDelay
    BY <1>1, Delays, Distributes
  <1>4. CASE (c + 1) + 1 < ModeCounterThreshold
    <2>1. Remaining(c + 1) = (n - 1) * ModeScanDelay
      BY <1>1, <1>4 DEF Remaining
    <2>2. QED BY <1>2, <1>3, <2>1
  <1>5. CASE ~((c + 1) + 1 < ModeCounterThreshold)
    <2>1. n - 1 = 0
      BY <1>5, Delays
    <2>2. Remaining(c + 1) = 0
      BY <1>5 DEF Remaining
    <2>3. (n - 1) * ModeScanDelay = 0
      BY <2>1, Delays
    <2>4. QED BY <1>2, <1>3, <2>2, <2>3
  <1>6. QED BY <1>4, <1>5

LEMMA ScansFitTheGap ==
    ASSUME GapIsLong PROVE ModeScanDelay + Remaining(0) <= MinGap
  <1>1. CASE 1 < ModeCounterThreshold
    <2>1. Remaining(0) = (ModeCounterThreshold - 1) * ModeScanDelay
      BY <1>1, Delays DEF Remaining
    <2>2. ModeCounterThreshold * ModeScanDelay
            = ModeScanDelay + (ModeCounterThreshold - 1) * ModeScanDelay
      BY Delays, Distributes
    <2>3. QED BY <2>1, <2>2 DEF GapIsLong
  <1>2. CASE ~(1 < ModeCounterThreshold)
    BY <1>2, Delays DEF Remaining, GapIsLong
  <1>3. QED BY <1>1, <1>2

(* The messages of a looper with nothing due are all due later.            *)
LEMMA NothingDue ==
    ASSUME OneMeaning, Timely, ~Due
    PROVE  /\ \A i \in DOMAIN messages : /\ messages[i] \in Message
                                         /\ messages[i].when >= 1
           /\ ~Has(messages, "up") /\ ~Has(messages, "start")
  <1>1. messages \in Seq(Message) /\ Len(messages) <= 2
        /\ (Len(messages) = 2 => messages[1].when <= messages[2].when)
    BY DEF OneMeaning, Short, Timely, Ordered
  <1>2. \A i \in DOMAIN messages : messages[i] \in Message /\ i \in {1, 2}
                                   /\ messages # <<>> /\ (i = 2 => Len(messages) = 2)
    <2>1. Len(messages) \in Nat /\ DOMAIN messages = 1 .. Len(messages)
      BY <1>1
    <2>2. \A i \in DOMAIN messages : messages[i] \in Message
      BY <1>1
    <2>3. \A i \in 1 .. Len(messages) : i \in {1, 2} /\ (i = 2 => Len(messages) = 2)
      BY <1>1, <2>1
    <2>4. messages = <<>> => DOMAIN messages = {}
      BY <2>1
    <2>5. QED BY <2>1, <2>2, <2>3, <2>4
  <1>3. \A m \in Message : m.when \in Nat
    BY DEF Message
  <1>4. messages # <<>> => /\ Head(messages) = messages[1] /\ 1 \in DOMAIN messages
                           /\ messages[1].when # 0
    BY <1>1 DEF Due
  <1>5. \A i \in DOMAIN messages : messages[i].when >= 1
    BY <1>1, <1>2, <1>3, <1>4
  <1>6. \A i \in DOMAIN messages : messages[i].what \notin {"up", "start"}
    BY <1>2, <1>3, <1>5 DEF Timely, InTime
  <1>7. QED BY <1>2, <1>5, <1>6 DEF Has

(* So a touch finds nothing that it could overtake.                        *)
LEMMA NotOvertaken ==
    ASSUME Punctual, Prompt, GapIsLong, Next PROVE ~overlap'
  <1>1. ~overlap /\ OneMeaning /\ Timely
    BY DEF Punctual
  <1>2. CASE TouchDown
    <2>1. finger = "up" /\ idle >= MinGap /\ ~Due
          /\ overlap' = (overlap \/ messages # <<>> \/ flying # <<>>)
      BY <1>2 DEF TouchDown
    <2>2. /\ \A i \in DOMAIN messages : /\ messages[i] \in Message
                                        /\ messages[i].when >= 1
          /\ ~Has(messages, "up") /\ ~Has(messages, "start")
      BY <1>1, <2>1, NothingDue
    <2>3. idle \in Nat /\ OffTime = idle
      BY <1>1, <2>1 DEF Timely, OffTime
    <2>4. Remaining(modeStateCount) \in Nat
      BY <1>1, RemainingIsNat DEF Timely
    <2>5. \A i \in DOMAIN messages : messages[i].when \in Nat
      BY <2>2 DEF Message
    <2>6. ~Has(messages, "send")
      <3> SUFFICES ASSUME NEW i \in DOMAIN messages, messages[i].what = "send" PROVE FALSE
        BY DEF Has
      <3>1. messages[i].when + OffTime <= MinGap
        BY <1>1 DEF Timely, InTime
      <3>2. QED BY <2>1, <2>2, <2>3, <2>5, <3>1, Delays
    <2>7. ~Has(messages, "move")
      <3> SUFFICES ASSUME NEW i \in DOMAIN messages, messages[i].what = "move" PROVE FALSE
        BY DEF Has
      <3>1. messages[i].when + Remaining(modeStateCount) + OffTime <= MinGap
        BY <1>1 DEF Timely, InTime
      <3>2. QED BY <2>1, <2>2, <2>3, <2>4, <2>5, <3>1, Delays
    <2>8. messages = <<>>
      BY <1>1, <2>2, <2>6, <2>7, NothingIsEmpty DEF OneMeaning, Kinds
    <2>9. flying = <<>>
      <3> SUFFICES ASSUME flying # <<>> PROVE FALSE
        OBVIOUS
      <3>1. flying \in Seq(Nat) /\ idle + flying[1] <= BroadcastDelay
        BY <1>1 DEF OneMeaning, Release, Timely
      <3>2. flying[1] \in Nat
        BY <3>1
      <3>3. QED BY <2>1, <2>3, <3>1, <3>2, Delays DEF GapIsLong
    <2>10. QED BY <1>1, <2>1, <2>8, <2>9
  <1>3. ASSUME NEW gesture \in Gestures, TouchMove(gesture) PROVE ~overlap'
    <2>1. ~Due /\ (overlap' => overlap \/ Pending("start"))
      BY <1>3 DEF TouchMove
    <2>2. ~Has(messages, "start")
      BY <1>1, <2>1, NothingDue
    <2>3. QED BY <1>1, <2>1, <2>2 DEF Pending, Has
  <1>4. CASE TouchUp \/ BroadcastArrives \/ Tick
    BY <1>1, <1>4 DEF TouchUp, BroadcastArrives, Tick, history
  <1>5. CASE HandleMessage
    BY <1>1, <1>5 DEF HandleMessage, OnReceive, SendEventRun, ModeHandle, history
  <1>6. QED BY <1>2, <1>3, <1>4, <1>5 DEF Next

(* What is left of the queue when the message at its head has been run.    *)
LEMMA RestInTime ==
    ASSUME OneMeaning, Timely, messages # <<>>, NEW r, r = Tail(messages)
    PROVE  /\ Ordered(r)
           /\ \A i \in DOMAIN r : /\ 2 \in DOMAIN messages /\ r[i] = messages[2]
                                  /\ Head(messages).what # "up" => r[i].what = "up"
                                  /\ Head(messages).what = "up" => r[i].what # "up"
                                  /\ InTime(r[i])
  <1>1. Short(messages)
    BY DEF OneMeaning
  <1>2. /\ Short(r) /\ Len(r) <= 1
        /\ \A i \in DOMAIN r : i = 1 /\ 2 \in DOMAIN messages /\ r[i] = messages[2]
    BY <1>1, TailIsShort
  <1>3. Ordered(r)
    <2>1. Len(r) # 2
      BY <1>2
    <2>2. QED BY <2>1 DEF Ordered
  <1>4. 2 \in DOMAIN messages =>
            /\ Head(messages) = messages[1]
            /\ messages[1].what = "up" <=> messages[2].what # "up"
    <2>1. messages \in Seq(Message) /\ Len(messages) <= 2
      BY <1>1 DEF Short
    <2>2. Len(messages) \in Nat /\ DOMAIN messages = 1 .. Len(messages)
      BY <2>1
    <2>3. 2 \in DOMAIN messages => Len(messages) = 2
      BY <2>1, <2>2
    <2>4. 2 \in DOMAIN messages => Head(messages) = messages[1]
      BY <2>1, <2>2
    <2>5. QED BY <1>1, <2>3, <2>4 DEF Short
  <1>5. QED BY <1>2, <1>3, <1>4 DEF Timely

(* How long the finger has been off the button when TOUCH_ACTION_UP has    *)
(* not been run yet.                                                       *)
LEMMA ReleaseIsRecent ==
    ASSUME OneMeaning, Timely, ~Released
    PROVE  OffTime \in Nat /\ OffTime <= BroadcastDelay
  <1>1. CASE finger = "up"
    <2>1. OffTime = idle /\ idle \in Nat
      BY <1>1 DEF OffTime, Timely
    <2>2. CASE flying # <<>>
      <3>1. flying \in Seq(Nat) /\ idle + flying[1] <= BroadcastDelay
        BY <2>2 DEF OneMeaning, Release, Timely
      <3>2. flying[1] \in Nat
        BY <2>2, <3>1
      <3>3. QED BY <2>1, <3>1, <3>2, Delays
    <2>3. CASE Has(messages, "up")
      BY <2>1, <2>3 DEF Timely
    <2>4. QED BY <1>1, <2>2, <2>3 DEF Released
  <1>2. CASE finger # "up"
    BY <1>2, Delays DEF OffTime
  <1>3. QED BY <1>1, <1>2

LEMMA OffTimeIsNat == ASSUME Timely PROVE OffTime \in Nat
  BY DEF Timely, OffTime

LEMMA TouchDownInTime ==
    ASSUME Punctual, GapIsLong, TouchDown, ~overlap' PROVE Timely'
  <1>1. /\ messages = <<>> /\ flying' = <<>> /\ finger' = "down" /\ age' = 0
        /\ idle' = idle /\ modeStateCount' = modeStateCount
        /\ messages' = Post("send", PressDelay, <<>>)
    BY DEF TouchDown
  <1>2. Timely
    BY DEF Punctual
  <1>3. "send" \in Kinds
    BY DEF Kinds
  <1>4. messages' = <<[what |-> "send", when |-> PressDelay]>>
    BY <1>1, Delays, PostIntoEmpty
  <1>5. /\ \A v : Has(messages', v) <=> v = "send"
        /\ DOMAIN messages' = {1} /\ messages'[1] = [what |-> "send", when |-> PressDelay]
        /\ Len(messages') = 1
    BY <1>3, <1>4, Delays, OneIsShort
  <1>6. OffTime' = 0
    BY <1>1 DEF OffTime
  <1>7. PressDelay + 0 <= MinGap /\ 0 + PressDelay <= PressDelay
    BY Delays DEF GapIsLong
  <1>8. \A i \in DOMAIN messages' : InTime(messages[i])'
    BY <1>1, <1>5, <1>6, <1>7 DEF InTime
  <1>9. QED BY <1>1, <1>2, <1>5, <1>8 DEF Timely, Ordered

LEMMA TouchMoveInTime ==
    ASSUME Punctual, NEW gesture \in Gestures, TouchMove(gesture), ~overlap'
    PROVE  Timely'
  <1>1. OneMeaning /\ Timely
    BY DEF Punctual
  <1>2. /\ finger = "down" /\ finger' = finger /\ flying' = flying /\ idle' = idle
        /\ age' = age /\ modeStateCount' = modeStateCount
    BY DEF TouchMove, environment
  <1>3. CASE messages' = <<[what |-> "start", when |-> 0]>>
    <2>1. "start" \in Kinds
      BY DEF Kinds
    <2>2. /\ \A v : Has(messages', v) <=> v = "start"
          /\ DOMAIN messages' = {1} /\ messages'[1] = [what |-> "start", when |-> 0]
          /\ Len(messages') = 1
      BY <1>3, <2>1, OneIsShort
    <2>3. \A i \in DOMAIN messages' : InTime(messages[i])'
      BY <2>2 DEF InTime
    <2>4. QED BY <1>1, <1>2, <2>2, <2>3 DEF Timely, Ordered
  <1>4. CASE messages' = <<>>
    <2>1. DOMAIN messages' = {} /\ Len(messages') = 0 /\ \A v : ~Has(messages', v)
      BY <1>4, EmptyIsShort
    <2>2. QED BY <1>1, <1>2, <2>1 DEF Timely, Ordered
  <1>5. CASE messages' = messages /\ eventSendState' = eventSendState
    BY <1>1, <1>2, <1>5 DEF Timely, Ordered, InTime, OffTime
  <1>6. QED BY <1>1, <1>3, <1>4, <1>5, TouchMoveLeaves

LEMMA TouchUpInTime ==
    ASSUME Punctual, Prompt, TouchUp PROVE Timely'
  <1>1. OneMeaning /\ Timely
    BY DEF Punctual
  <1>2. /\ finger = "down" /\ finger' = "up" /\ flying' = Append(flying, BroadcastDelay)
        /\ idle' = 0 /\ ~Due
        /\ messages' = messages /\ age' = age /\ modeStateCount' = modeStateCount
        /\ eventSendState' = eventSendState
    BY DEF TouchUp, machine
  <1>3. ~Has(messages, "start") /\ ~Has(messages, "up")
    BY <1>1, <1>2, NothingDue
  <1>4. flying = <<>>
    BY <1>1, <1>2 DEF OneMeaning, Release
  <1>5. flying' = <<BroadcastDelay>> /\ flying'[1] = BroadcastDelay
    BY <1>2, <1>4
  <1>6. 0 + BroadcastDelay <= BroadcastDelay
    BY Delays
  <1>7. OffTime = 0 /\ OffTime' = 0
    BY <1>2 DEF OffTime
  <1>8. \A i \in DOMAIN messages' : InTime(messages[i])'
    BY <1>1, <1>2, <1>7 DEF Timely, InTime
  <1>9. Ordered(messages')
    BY <1>1, <1>2 DEF Timely
  <1>10. QED BY <1>1, <1>2, <1>3, <1>5, <1>6, <1>8, <1>9 DEF Timely

LEMMA BroadcastArrivesInTime ==
    ASSUME Punctual, BroadcastArrives PROVE Timely'
  <1>1. OneMeaning /\ Timely
    BY DEF Punctual
  <1>2. /\ flying # <<>> /\ flying' = Tail(flying)
        /\ messages' = Post("up", 0, messages) /\ finger' = finger /\ idle' = idle
        /\ age' = age /\ modeStateCount' = modeStateCount
        /\ eventSendState' = eventSendState
    BY DEF BroadcastArrives, machine
  <1>3. ~Has(messages, "up") /\ Len(flying) = 1 /\ flying \in Seq(Nat)
        /\ finger = "up" /\ idle + flying[1] <= BroadcastDelay /\ flying[1] \in Nat
    <2>1. ~Has(messages, "up") /\ Len(flying) = 1 /\ flying \in Seq(Nat)
          /\ finger = "up" /\ idle + flying[1] <= BroadcastDelay
      BY <1>1, <1>2 DEF OneMeaning, Release, Timely
    <2>2. \A f \in Seq(Nat) : Len(f) = 1 => f[1] \in Nat
      <3>1. \A f \in Seq(Nat) : f \in [1 .. Len(f) -> Nat]
        OBVIOUS
      <3>2. \A n : n = 1 => 1 \in 1 .. n
        OBVIOUS
      <3>3. QED BY <3>1, <3>2
    <2>3. QED BY <2>1, <2>2
  <1>4. Short(messages) /\ Len(messages) <= 1
        /\ (Len(messages) = 1 => messages[1].what # "up")
    <2>1. Short(messages) /\ Len(messages) <= 1
      BY <1>1, <1>3, LoneWork DEF OneMeaning
    <2>2. Len(messages) = 1 => 1 \in DOMAIN messages
      BY <2>1 DEF Short
    <2>3. QED BY <1>3, <2>1, <2>2 DEF Has
  <1>5. "up" \in Kinds /\ 0 \in Nat
    BY DEF Kinds
  <1>6. /\ Ordered(messages')
        /\ \A v : Has(messages', v) <=> v = "up" \/ Has(messages, v)
        /\ \A i \in DOMAIN messages' : \/ messages'[i] = [what |-> "up", when |-> 0]
                                       \/ 1 \in DOMAIN messages /\ messages'[i] = messages[1]
    BY <1>2, <1>4, <1>5, PostKeepsShort
  <1>7. \A i \in DOMAIN messages' : InTime(messages[i])'
    <2> SUFFICES ASSUME NEW i \in DOMAIN messages' PROVE InTime(messages[i])'
      OBVIOUS
    <2>1. CASE messages'[i] = [what |-> "up", when |-> 0]
      BY <2>1 DEF InTime
    <2>2. CASE 1 \in DOMAIN messages /\ messages'[i] = messages[1]
      <3>1. InTime(messages[1])
        BY <1>1, <2>2 DEF Timely
      <3>2. QED BY <1>2, <2>2, <3>1 DEF InTime, OffTime
    <2>3. QED BY <1>6, <2>1, <2>2
  <1>8. idle <= BroadcastDelay /\ idle \in Nat
    <2>1. idle \in Nat
      BY <1>1 DEF Timely
    <2>2. QED BY <1>3, <2>1, Delays
  <1>9. flying' = <<>>
    BY <1>2, <1>3
  <1>10. QED BY <1>1, <1>2, <1>6, <1>7, <1>8, <1>9 DEF Timely

LEMMA OnReceiveInTime ==
    ASSUME Punctual, OnReceive PROVE Timely'
  <1>1. OneMeaning /\ Timely
    BY DEF Punctual
  <1>2. /\ NextMessage("up") /\ messages' = Tail(messages)
        /\ eventSendState' = AfterUp(eventSendState)
        /\ flying' = flying /\ finger' = finger /\ idle' = idle /\ age' = age
        /\ modeStateCount' = modeStateCount
    BY DEF OnReceive, environment
  <1>3. /\ messages # <<>> /\ Head(messages).what = "up"
        /\ \A v : Has(messages', v) <=> Has(messages, v) /\ v # "up"
    BY <1>1, <1>2, HeadRuns
  <1>4. /\ Ordered(messages')
        /\ \A i \in DOMAIN messages' : InTime(messages'[i])
    BY <1>1, <1>2, <1>3, RestInTime
  <1>5. eventSendState' \in {"down", "downAndUp"} =>
            eventSendState \in {"down", "downAndUp"}
    BY <1>2 DEF AfterUp
  <1>6. \A i \in DOMAIN messages' : InTime(messages[i])'
    BY <1>2, <1>4, <1>5 DEF InTime, OffTime
  <1>7. QED BY <1>1, <1>2, <1>3, <1>4, <1>6 DEF Timely

LEMMA SendEventRunInTime ==
    ASSUME Punctual, GapIsLong, SendEventRun PROVE Timely'
  <1>1. OneMeaning /\ Timely
    BY DEF Punctual
  <1>2. /\ NextMessage("send")
        /\ flying' = flying /\ finger' = finger /\ idle' = idle /\ age' = age
        /\ modeStateCount' = modeStateCount
        /\ SendDown \/ SendUp \/ SendDownAndUp \/ SendMove \/ SendNothing
    BY DEF SendEventRun, environment
  <1>3. /\ messages # <<>> /\ Short(messages) /\ Head(messages).what = "send"
        /\ Has(messages, "send") /\ Short(Tail(messages))
        /\ \A v : Has(Tail(messages), v) <=> Has(messages, v) /\ v # "send"
    BY <1>1, <1>2, HeadRuns
  <1>4. eventSendState' \notin {"down", "downAndUp"}
    <2>1. eventSendState \in {"down", "downed", "up", "downAndUp"}
      BY <1>1, <1>3 DEF OneMeaning, Chain, NoneBut, Stroke
    <2>2. QED BY <1>2, <2>1 DEF SendDown, SendUp, SendDownAndUp, SendMove, SendNothing
  <1>5. OffTime' = OffTime
    BY <1>2 DEF OffTime
  <1>6. \A i \in DOMAIN Tail(messages) : /\ 2 \in DOMAIN messages
                                         /\ Tail(messages)[i] = messages[2]
                                         /\ Tail(messages)[i].what = "up"
                                         /\ InTime(Tail(messages)[i])
    BY <1>1, <1>3, RestInTime
  <1>7. CASE messages' = Tail(messages)
    <2>1. Ordered(messages')
      BY <1>1, <1>3, <1>7, RestInTime
    <2>2. \A i \in DOMAIN messages' : InTime(messages[i])'
      BY <1>6, <1>7 DEF InTime
    <2>3. QED BY <1>1, <1>2, <1>3, <1>7, <2>1, <2>2 DEF Timely
  <1>8. ASSUME NEW d \in {SendDownDelay, SendMoveDelay},
               messages' = Post("send", d, Tail(messages)),
               eventSendState \in {"down", "downed"}
        PROVE  Timely'
    <2>1. d \in Nat /\ BroadcastDelay + d <= MinGap
      BY Delays DEF GapIsLong
    <2>2. "send" \in Kinds \ {"up"}
      BY DEF Kinds
    <2>3. /\ Ordered(messages')
          /\ \A v : Has(messages', v) <=>
                v = "send" \/ (Has(messages, v) /\ v # Head(messages).what)
          /\ \A i \in DOMAIN messages' :
                \/ messages'[i] = [what |-> "send", when |-> d]
                \/ 2 \in DOMAIN messages /\ messages'[i] = messages[2]
      BY <1>3, <1>8, <2>1, <2>2, RepostKeepsShort
    <2>4. OffTime \in Nat /\ OffTime <= BroadcastDelay
      <3>1. ~Released
        BY <1>1, <1>8 DEF OneMeaning, Release
      <3>2. QED BY <1>1, <3>1, ReleaseIsRecent
    <2>5. d + OffTime <= MinGap
      BY <2>1, <2>4, Delays
    <2>6. 2 \in DOMAIN messages => messages[2].what # "send" /\ InTime(messages[2])
      <3>1. 2 \in DOMAIN messages =>
                1 \in DOMAIN Tail(messages) /\ Tail(messages)[1] = messages[2]
        BY <1>3 DEF Short
      <3>2. QED BY <1>6, <3>1
    <2>7. \A i \in DOMAIN messages' : InTime(messages[i])'
      <3> SUFFICES ASSUME NEW i \in DOMAIN messages' PROVE InTime(messages[i])'
        OBVIOUS
      <3>1. CASE messages'[i] = [what |-> "send", when |-> d]
        BY <1>4, <1>5, <2>5, <3>1 DEF InTime
      <3>2. CASE 2 \in DOMAIN messages /\ messages'[i] = messages[2]
        BY <1>2, <1>5, <2>6, <3>2 DEF InTime
      <3>3. QED BY <2>3, <3>1, <3>2
    <2>8. QED BY <1>1, <1>2, <2>3, <2>7 DEF Timely
  <1>9. CASE SendDown
    BY <1>8, <1>9 DEF SendDown
  <1>10. CASE SendMove
    BY <1>8, <1>10 DEF SendMove
  <1>11. CASE SendUp \/ SendDownAndUp \/ SendNothing
    BY <1>7, <1>11 DEF SendUp, SendDownAndUp, SendNothing
  <1>12. QED BY <1>2, <1>9, <1>10, <1>11

LEMMA ModeHandleInTime ==
    ASSUME Punctual, GapIsLong, ModeHandle PROVE Timely'
  <1>1. OneMeaning /\ Timely
    BY DEF Punctual
  <1>2. /\ Due
        /\ NextMessage("start") \/ NextMessage("move")
        /\ eventSendState' = "mode"
        /\ flying' = flying /\ finger' = finger /\ idle' = idle /\ age' = age
        /\ StartScan \/ Scan \/ Flip \/ NoMode
    BY DEF ModeHandle, environment, NextMessage
  <1>3. PICK w \in {"start", "move"} : NextMessage(w)
    BY <1>2
  <1>4. /\ messages # <<>> /\ Short(messages) /\ Head(messages).what = w
        /\ Has(messages, w) /\ Short(Tail(messages))
        /\ \A v : Has(Tail(messages), v) <=> Has(messages, v) /\ v # w
    BY <1>1, <1>3, HeadRuns
  <1>5. OffTime' = OffTime
    BY <1>2 DEF OffTime
  <1>6. \A i \in DOMAIN Tail(messages) : /\ 2 \in DOMAIN messages
                                         /\ Tail(messages)[i] = messages[2]
                                         /\ Tail(messages)[i].what = "up"
                                         /\ InTime(Tail(messages)[i])
    BY <1>1, <1>3, <1>4, RestInTime
  <1>7. modeStateCount \in Nat /\ modeStateCount' \in Nat
    <2>1. modeStateCount \in Nat
      BY <1>1 DEF Timely
    <2>2. modeStateCount' \in {0, modeStateCount + 1, modeStateCount}
      BY <1>2 DEF StartScan, Scan, Flip, NoMode
    <2>3. QED BY <2>1, <2>2
  <1>8. CASE messages' = Tail(messages)
    <2>1. Ordered(messages')
      BY <1>1, <1>4, <1>8, RestInTime
    <2>2. \A i \in DOMAIN messages' : InTime(messages[i])'
      BY <1>6, <1>8 DEF InTime
    <2>3. QED BY <1>1, <1>2, <1>4, <1>7, <1>8, <2>1, <2>2 DEF Timely
  <1>9. ASSUME messages' = Post("move", ModeScanDelay, Tail(messages)),
               ModeScanDelay + Remaining(modeStateCount') + OffTime <= MinGap
        PROVE  Timely'
    <2>1. "move" \in Kinds \ {"up"} /\ Head(messages).what # "up"
      BY <1>3, <1>4 DEF Kinds
    <2>2. /\ Ordered(messages')
          /\ \A v : Has(messages', v) <=>
                v = "move" \/ (Has(messages, v) /\ v # Head(messages).what)
          /\ \A i \in DOMAIN messages' :
                \/ messages'[i] = [what |-> "move", when |-> ModeScanDelay]
                \/ 2 \in DOMAIN messages /\ messages'[i] = messages[2]
      BY <1>4, <1>9, <2>1, Delays, RepostKeepsShort
    <2>3. 2 \in DOMAIN messages => messages[2].what = "up" /\ InTime(messages[2])
      <3>1. 2 \in DOMAIN messages =>
                1 \in DOMAIN Tail(messages) /\ Tail(messages)[1] = messages[2]
        BY <1>4 DEF Short
      <3>2. QED BY <1>6, <3>1
    <2>4. \A i \in DOMAIN messages' : InTime(messages[i])'
      <3> SUFFICES ASSUME NEW i \in DOMAIN messages' PROVE InTime(messages[i])'
        OBVIOUS
      <3>1. CASE messages'[i] = [what |-> "move", when |-> ModeScanDelay]
        <4>1. Remaining(modeStateCount)' = Remaining(modeStateCount')
          BY DEF Remaining
        <4>2. QED BY <1>5, <1>9, <3>1, <4>1 DEF InTime
      <3>2. CASE 2 \in DOMAIN messages /\ messages'[i] = messages[2]
        BY <2>3, <3>2 DEF InTime
      <3>3. QED BY <2>2, <3>1, <3>2
    <2>5. QED BY <1>1, <1>2, <1>7, <2>2, <2>4 DEF Timely
  <1>10. CASE StartScan
    <2>1. /\ modeStateCount' = 0 /\ Head(messages).what = "start"
          /\ messages' = Post("move", ModeScanDelay, Tail(messages))
      BY <1>10 DEF StartScan
    <2>2. OffTime = 0
      <3>1. Has(messages, "start")
        BY <1>4, <2>1
      <3>2. QED BY <1>1, <3>1 DEF Timely, OffTime
    <2>3. ModeScanDelay + Remaining(0) + 0 <= MinGap
      <3>1. Remaining(0) \in Nat
        BY RemainingIsNat
      <3>2. QED BY <3>1, Delays, ScansFitTheGap
    <2>4. QED BY <1>9, <2>1, <2>2, <2>3
  <1>11. CASE Scan /\ messages' # Tail(messages)
    <2>1. /\ modeStateCount' = modeStateCount + 1 /\ ScansLeft
          /\ Head(messages).what = "move"
          /\ messages' = Post("move", ModeScanDelay, Tail(messages))
      BY <1>11 DEF Scan
    <2>2. Head(messages).when = 0 /\ 1 \in DOMAIN messages /\ Head(messages) = messages[1]
      BY <1>2, <1>4 DEF Due, Short
    <2>3. 0 + Remaining(modeStateCount) + OffTime <= MinGap
      BY <1>1, <2>1, <2>2 DEF Timely, InTime
    <2>4. Remaining(modeStateCount) = ModeScanDelay + Remaining(modeStateCount + 1)
      BY <1>7, <2>1, RemainingShrinks DEF ScansLeft
    <2>5. Remaining(modeStateCount + 1) \in Nat /\ OffTime \in Nat
      BY <1>1, <1>7, RemainingIsNat, OffTimeIsNat
    <2>6. ModeScanDelay + Remaining(modeStateCount') + OffTime <= MinGap
      BY <2>1, <2>3, <2>4, <2>5, Delays
    <2>7. QED BY <1>9, <2>1, <2>6
  <1>12. CASE Flip \/ NoMode
    BY <1>8, <1>12 DEF Flip, NoMode
  <1>13. QED BY <1>2, <1>8, <1>10, <1>11, <1>12

LEMMA TickInTime ==
    ASSUME Punctual, Prompt, Tick PROVE Timely'
  <1>1. OneMeaning /\ Timely
    BY DEF Punctual
  <1>2. /\ ~Due /\ (flying # <<>> => Head(flying) > 0)
        /\ messages' = [i \in DOMAIN messages |->
                          [messages[i] EXCEPT !.when = Later(@)]]
        /\ flying' = [i \in DOMAIN flying |-> Later(flying[i])]
        /\ idle' = IF finger = "up" THEN Sooner(idle, MinGap) ELSE idle
        /\ age' = Sooner(age, PressDelay + 1)
        /\ finger' = finger /\ eventSendState' = eventSendState
        /\ modeStateCount' = modeStateCount
    BY DEF Tick, machine
  <1>3. /\ \A i \in DOMAIN messages : messages[i] \in Message /\ messages[i].when >= 1
        /\ ~Has(messages, "up") /\ ~Has(messages, "start")
    BY <1>1, <1>2, NothingDue
  <1>4. /\ \A v : Has(messages', v) <=> Has(messages, v)
        /\ DOMAIN messages' = DOMAIN messages /\ Len(messages') = Len(messages)
        /\ \A i \in DOMAIN messages : /\ messages'[i].what = messages[i].what
                                      /\ messages'[i].when = Later(messages[i].when)
    <2>1. Short(messages)
      BY <1>1 DEF OneMeaning
    <2>2. messages' = [i \in DOMAIN messages |->
                         [messages[i] EXCEPT !.when = Later(@)]]
      BY <1>2
    <2>3. QED BY <2>1, <2>2, AgingKeepsShort
  <1>5. \A i \in DOMAIN messages : /\ messages[i].when \in Nat
                                   /\ messages'[i].when = messages[i].when - 1
    <2>1. \A i \in DOMAIN messages : messages[i].when \in Nat
      BY <1>3 DEF Message
    <2>2. QED BY <1>3, <1>4, <2>1 DEF Later
  <1>6. /\ idle \in Nat /\ age \in Nat /\ modeStateCount \in Nat
        /\ idle' \in Nat /\ age' \in Nat
        /\ idle' <= idle + 1 /\ age' <= age + 1
    <2>1. idle \in Nat /\ age \in Nat /\ modeStateCount \in Nat
      BY <1>1 DEF Timely
    <2>2. \A n, b \in Nat : Sooner(n, b) \in Nat /\ Sooner(n, b) <= n + 1
      BY DEF Sooner
    <2>3. PressDelay + 1 \in Nat
      BY Delays
    <2>4. QED BY <1>2, <2>1, <2>2, <2>3, Delays
  <1>7. OffTime \in Nat /\ OffTime' \in Nat /\ OffTime' <= OffTime + 1
    BY <1>2, <1>6 DEF OffTime
  <1>8. Ordered(messages')
    <2>1. Short(messages) /\ Ordered(messages)
      BY <1>1 DEF OneMeaning, Timely
    <2>2. Len(messages) = 2 => 1 \in DOMAIN messages /\ 2 \in DOMAIN messages
      BY <2>1 DEF Short
    <2>3. QED BY <1>4, <1>5, <2>1, <2>2 DEF Ordered
  <1>9. \A i \in DOMAIN messages' : InTime(messages[i])'
    <2> SUFFICES ASSUME NEW i \in DOMAIN messages PROVE InTime(messages[i])'
      BY <1>4
    <2>1. InTime(messages[i]) /\ messages[i].what \notin {"up", "start"}
      BY <1>1, <1>3 DEF Timely, Has
    <2>2. messages'[i].what = messages[i].what
      BY <1>4
    <2>3. messages[i].what = "send" => messages'[i].when + OffTime' <= MinGap
      <3>1. messages[i].what = "send" => messages[i].when + OffTime <= MinGap
        BY <2>1 DEF InTime
      <3>2. QED BY <1>5, <1>7, <3>1, Delays
    <2>4. messages[i].what = "send" /\ eventSendState \in {"down", "downAndUp"} =>
              age' + messages'[i].when <= PressDelay
      <3>1. messages[i].what = "send" /\ eventSendState \in {"down", "downAndUp"} =>
                age + messages[i].when <= PressDelay
        BY <2>1 DEF InTime
      <3>2. QED BY <1>5, <1>6, <3>1, Delays
    <2>5. messages[i].what = "move" =>
              messages'[i].when + Remaining(modeStateCount)' + OffTime' <= MinGap
      <3>1. messages[i].what = "move" =>
                messages[i].when + Remaining(modeStateCount) + OffTime <= MinGap
        BY <2>1 DEF InTime
      <3>2. Remaining(modeStateCount) \in Nat
        BY <1>6, RemainingIsNat
      <3>3. Remaining(modeStateCount)' = Remaining(modeStateCount)
        BY <1>2 DEF Remaining
      <3>4. QED BY <1>5, <1>7, <3>1, <3>2, <3>3, Delays
    <2>6. QED BY <1>2, <2>1, <2>2, <2>3, <2>4, <2>5 DEF InTime
  <1>10. flying' # <<>> => idle' + flying'[1] <= BroadcastDelay
    <2>1. flying \in Seq(Nat)
      BY <1>1 DEF OneMeaning, Release
    <2>2. CASE flying = <<>>
      <3>1. DOMAIN flying = {}
        BY <2>2
      <3>2. flying' = <<>>
        BY <1>2, <3>1
      <3>3. QED BY <3>2
    <2>3. CASE flying # <<>>
      <3>1. Head(flying) = flying[1] /\ flying[1] \in Nat /\ 1 \in DOMAIN flying
        BY <2>1, <2>3
      <3>2. flying'[1] = flying[1] - 1
        BY <1>2, <2>3, <3>1 DEF Later
      <3>3. idle + flying[1] <= BroadcastDelay
        BY <1>1, <2>3 DEF Timely
      <3>4. QED BY <1>6, <3>1, <3>2, <3>3, Delays
    <2>4. QED BY <2>2, <2>3
  <1>11. QED BY <1>1, <1>2, <1>3, <1>4, <1>6, <1>8, <1>9, <1>10 DEF Timely

LEMMA InitPunctual == Init => Punctual
  <1> SUFFICES ASSUME Init PROVE Punctual
    OBVIOUS
  <1>1. ~overlap /\ OneMeaning
    BY InitTouchInv DEF Init, TouchInv
  <1>2. DOMAIN messages = {} /\ Len(messages) = 0 /\ \A v : ~Has(messages, v)
    BY EmptyIsShort DEF Init
  <1>3. Timely
    BY <1>2, Delays DEF Init, Timely, Ordered
  <1>4. QED BY <1>1, <1>3 DEF Punctual

LEMMA NextPunctual ==
    ASSUME Prompt, GapIsLong PROVE Punctual /\ [Next]_vars => Punctual'
  <1> SUFFICES ASSUME Punctual, [Next]_vars PROVE Punctual'
    OBVIOUS
  <1>1. CASE UNCHANGED vars
    BY <1>1 DEF vars, machine, environment, history, Punctual, OneMeaning, Release,
                Released, Stroke, Chain, NoneBut, Timely, Ordered, InTime, OffTime
  <1>2. CASE Next
    <2>1. ~overlap'
      BY <1>2, NotOvertaken
    <2>2. OneMeaning'
      <3>1. TouchInv
        BY DEF Punctual, TouchInv
      <3>2. TouchInv'
        BY <1>2, <3>1, NextTouchInv
      <3>3. QED BY <2>1, <3>2 DEF TouchInv
    <2>3. Timely'
      BY <1>2, <2>1, TouchDownInTime, TouchMoveInTime, TouchUpInTime,
         BroadcastArrivesInTime, OnReceiveInTime, SendEventRunInTime,
         ModeHandleInTime, TickInTime DEF Next, HandleMessage
    <2>4. QED BY <2>1, <2>2, <2>3 DEF Punctual
  <1>3. QED BY <1>1, <1>2

(* With a prompt looper, and touches further apart than the longest of the *)
(* timers, no touch overtakes work that is pending from an earlier one,    *)
(* whatever the delays are.                                                *)
THEOREM SpacedTouchesNeverOverlap ==
    ASSUME Prompt, GapIsLong PROVE Spec => []NeverOverlaps
  <1>1. Punctual => NeverOverlaps
    BY DEF Punctual, NeverOverlaps
  <1>2. Punctual /\ [Next]_vars => Punctual'
    BY NextPunctual
  <1>3. QED
    BY <1>1, <1>2, InitPunctual, PTL DEF Spec

(* And a finger that stays in place is answered by a DOWN when PressDelay  *)
(* is over.                                                                *)
THEOREM TouchIsAnsweredInTime ==
    ASSUME Prompt, GapIsLong PROVE Spec => []AnsweredInTime
  <1>1. Punctual => AnsweredInTime
    <2> SUFFICES ASSUME OneMeaning, Timely, age > PressDelay, touches > 0
                 PROVE  answered \/ moved
      BY DEF Punctual, AnsweredInTime
    <2>1. CASE eventSendState \in {"down", "downAndUp"}
      <3>1. PICK i \in DOMAIN messages : messages[i].what = "send"
        BY <2>1 DEF OneMeaning, Chain, Has
      <3>2. age + messages[i].when <= PressDelay
        BY <2>1, <3>1 DEF Timely, InTime
      <3>3. messages[i] \in Message
        BY DEF OneMeaning, Short
      <3>4. messages[i].when \in Nat /\ age \in Nat
        BY <3>3 DEF Message, Timely
      <3>5. QED BY <3>2, <3>4, Delays
    <2>2. CASE eventSendState \in {"downed", "up", "cancel", "mode"}
      BY <2>2 DEF OneMeaning, Stroke
    <2>3. CASE eventSendState = "init"
      <3>1. touches # 0
        OBVIOUS
      <3>2. QED BY <2>3, <3>1 DEF OneMeaning, Stroke
    <2>4. QED BY <2>1, <2>2, <2>3 DEF OneMeaning, Stroke
  <1>2. Punctual /\ [Next]_vars => Punctual'
    BY NextPunctual
  <1>3. QED
    BY <1>1, <1>2, InitPunctual, PTL DEF Spec
=============================================================================
