------------------------ MODULE ButtonEventListener ------------------------
(***************************************************************************)
(* button/ButtonEventListener.java: the state machine that turns what a    *)
(* finger does on the floating button into pointer, key and gesture events *)
(* for EventQueueHandler.  All of it runs on the main looper: the touch    *)
(* callback, the TOUCH_ACTION_UP broadcast, the delayed sendEventRunnable  *)
(* and the messages of modeHandler.  The looper keeps one queue, ordered   *)
(* by due time and, among equals, by arrival.                              *)
(*                                                                         *)
(* Where the finger and the cursor are is abstracted to what the code      *)
(* makes of it: onTouch classifies a move into a gesture, modeHandler and  *)
(* the runnable ask whether the cursor has left a box.                     *)
(***************************************************************************)
EXTENDS Naturals, Integers, Sequences

CONSTANTS
    PressDelay,             \* postDelayed(sendEventRunnable, 100)
    SendDownDelay,          \* SEND_DOWN_DELAY
    SendMoveDelay,          \* SEND_MOVE_DELAY
    ModeScanDelay,          \* MODE_SCAN_DELAY
    ModeCounterThreshold,   \* MODE_COUNTER_THRESHOLD
    BroadcastDelay,         \* TOUCH_ACTION_UP is on its way at most this long
    MinGap,                 \* the finger stays off the button at least this long
    Prompt,                 \* the looper and the broadcasts are never late, and
                            \* a due message runs before the next touch event
    MaxTouches,             \* bound: number of touches
    MaxMessages             \* bound: no move is reported on a longer looper queue

ASSUME DelayAssumption ==
    /\ {PressDelay, SendDownDelay, SendMoveDelay, ModeScanDelay,
        BroadcastDelay, MinGap} \subseteq Nat
    /\ {ModeCounterThreshold, MaxTouches, MaxMessages} \subseteq Nat
    /\ Prompt \in BOOLEAN

VARIABLES
    eventSendState, \* the state machine: eventSendState, without STATE_ / MODE
    modeFlag,       \* the gesture recognized: "init", "key", "photo", "left", "right"
    modeStateCount, \* scans of the cursor made for that gesture
    pressed,        \* the button is drawn pressed
    messages,       \* the looper's queue: what to run, and in how long
    finger,         \* environment: the finger is on the button
    flying,         \* environment: TOUCH_ACTION_UP broadcasts on their way
    idle,           \* time since the finger left, up to MinGap
    age,            \* time since the last press, up to PressDelay + 1
    touches,        \* number of touches so far
    balance,        \* history: ACTION_DOWNs pushed minus ACTION_UPs pushed
    answered,       \* history: a DOWN has been pushed since the last press
    moved,          \* history: a move has turned the last press into a gesture
    gestures,       \* history: keys, zooms and flips pushed since the last press
    overlap         \* history: a touch has overtaken work that was pending

machine == <<eventSendState, modeFlag, modeStateCount, pressed>>
environment == <<finger, flying, idle, age, touches>>
history == <<balance, answered, moved, gestures, overlap>>
vars == <<machine, messages, environment, history>>

ModeGestures == {"key", "photo", "left", "right"}
Gestures == {"still", "drag"} \cup ModeGestures

(* The looper's queue: a new message comes before those that are due later *)
(* and after those that are due at the same time.                          *)
Post(what, delay, queue) ==
    LET k == CHOOSE k \in 0 .. Len(queue) :
                \A i \in DOMAIN queue : queue[i].when <= delay <=> i <= k
    IN  SubSeq(queue, 1, k) \o <<[what |-> what, when |-> delay]>>
            \o SubSeq(queue, k + 1, Len(queue))

RemoveCallbacks(queue) ==
    LET Kept[n \in 0 .. Len(queue)] ==
            IF n = 0 THEN <<>>
            ELSE IF queue[n].what = "send" THEN Kept[n - 1]
            ELSE Append(Kept[n - 1], queue[n])
    IN  Kept[Len(queue)]

Pending(what) == \E i \in DOMAIN messages : messages[i].what = what
Due == messages # <<>> /\ Head(messages).when = 0

Init ==
    /\ eventSendState = "init"
    /\ modeFlag = "init"
    /\ modeStateCount = 0
    /\ pressed = FALSE
    /\ messages = <<>>
    /\ finger = "up"
    /\ flying = <<>>
    /\ idle = MinGap
    /\ age = 0
    /\ touches = 0
    /\ balance = 0
    /\ answered = FALSE
    /\ moved = FALSE
    /\ gestures = 0
    /\ overlap = FALSE

-----------------------------------------------------------------------------
(* onTouch                                                                 *)

(* ACTION_DOWN.  An older sendEventRunnable is left in the queue.          *)
TouchDown ==
    /\ finger = "up"
    /\ idle >= MinGap
    /\ touches < MaxTouches
    /\ Prompt => ~Due
    /\ eventSendState' = "down"
    /\ modeFlag' = "init"
    /\ pressed' = TRUE
    /\ messages' = Post("send", PressDelay, messages)
    /\ finger' = "down"
    /\ touches' = touches + 1
    /\ age' = 0
    /\ answered' = FALSE
    /\ moved' = FALSE
    /\ gestures' = 0
    /\ overlap' = (overlap \/ messages # <<>> \/ flying # <<>>)
    /\ UNCHANGED <<modeStateCount, flying, idle, balance>>

(* Mutants of Cancels: a move cancels however short it is; it also cancels *)
(* a click that has begun.                                                 *)
CancelsAtOnce(gesture) == eventSendState = "down"
CancelsDowned(gesture) == eventSendState \in {"down", "downed"} /\ gesture # "still"

(* The move is more than BUTTON_MOVE_OFFSET and the DOWN has not gone out. *)
Cancels(gesture) == eventSendState = "down" /\ gesture # "still"

(* ACTION_MOVE: leaving the spot before the DOWN went out cancels it; from *)
(* then on every move that looks like a gesture posts MODE_STATE_START.    *)
TouchMove(gesture) ==
    LET cancels == Cancels(gesture)
        kept == IF cancels THEN RemoveCallbacks(messages) ELSE messages
        starts == (cancels \/ eventSendState = "cancel") /\ gesture \in ModeGestures
    IN
    /\ finger = "down"
    /\ Len(messages) < MaxMessages
    /\ Prompt => ~Due
    /\ eventSendState' = IF cancels THEN "cancel" ELSE eventSendState
    /\ modeFlag' = IF starts THEN gesture ELSE modeFlag
    /\ messages' = IF starts THEN Post("start", 0, kept) ELSE kept
    /\ moved' = (moved \/ (eventSendState = "down" /\ gesture # "still"))
    /\ overlap' = (overlap \/ (starts /\ Pending("start")))
    /\ UNCHANGED <<modeStateCount, pressed, environment, balance, answered, gestures>>

(* The finger leaves: onTouch ignores ACTION_UP, the input dispatcher of   *)
(* the platform sends the TOUCH_ACTION_UP broadcast instead.               *)
TouchUp ==
    /\ finger = "down"
    /\ Prompt => ~Due
    /\ finger' = "up"
    /\ idle' = 0
    /\ flying' = Append(flying, BroadcastDelay)
    /\ UNCHANGED <<machine, messages, age, touches, history>>

(* The broadcast reaches the process, as a message to its main looper.     *)
BroadcastArrives ==
    /\ flying # <<>>
    /\ flying' = Tail(flying)
    /\ messages' = Post("up", 0, messages)
    /\ UNCHANGED <<machine, finger, idle, age, touches, history>>
-----------------------------------------------------------------------------
(* The messages the looper runs.                                           *)

NextMessage(what) == Due /\ Head(messages).what = what

(* Mutants of AfterUp: a short tap is not noted, or as an UP only; the end *)
(* of a click returns to STATE_INIT at once.                               *)
AfterUpNoTap(state) == IF state = "downed" THEN "up" ELSE state
AfterUpTapIsUp(state) == IF state \in {"down", "downed"} THEN "up" ELSE state
AfterUpForgets(state) == CASE state = "downed" -> "init"
                           [] state = "down" -> "downAndUp"
                           [] OTHER -> state

AfterUp(state) == CASE state = "downed" -> "up"
                    [] state = "down" -> "downAndUp"
                    [] OTHER -> state

(* onReceive of TOUCH_ACTION_UP                                            *)
OnReceive ==
    /\ NextMessage("up")
    /\ messages' = Tail(messages)
    /\ eventSendState' = AfterUp(eventSendState)
    /\ pressed' = (pressed /\ eventSendState = "mode")
    /\ UNCHANGED <<modeFlag, modeStateCount, environment, history>>

(* sendEventRunnable, one disjunct per case of its switch.                 *)

(* Mutant of SendDown: the runnable is not posted again.                   *)
SendDownOnce ==
    /\ eventSendState = "down"
    /\ eventSendState' = "downed"
    /\ messages' = Tail(messages)
    /\ balance' = balance + 1
    /\ answered' = TRUE

SendDown ==
    /\ eventSendState = "down"
    /\ eventSendState' = "downed"
    /\ messages' = Post("send", SendDownDelay, Tail(messages))
    /\ balance' = balance + 1
    /\ answered' = TRUE

SendUp ==
    /\ eventSendState = "up"
    /\ eventSendState' = "init"
    /\ messages' = Tail(messages)
    /\ balance' = balance - 1
    /\ UNCHANGED answered

(* Mutant of SendDownAndUp: the second push is missing.                    *)
SendDownNoUp ==
    /\ eventSendState = "downAndUp"
    /\ eventSendState' = "init"
    /\ messages' = Tail(messages)
    /\ answered' = TRUE
    /\ balance' = balance + 1

SendDownAndUp ==
    /\ eventSendState = "downAndUp"
    /\ eventSendState' = "init"
    /\ messages' = Tail(messages)
    /\ answered' = TRUE
    /\ UNCHANGED balance

(* Pushes an ACTION_MOVE if the cursor is far from where the DOWN was.     *)
SendMove ==
    /\ eventSendState = "downed"
    /\ messages' = Post("send", SendMoveDelay, Tail(messages))
    /\ UNCHANGED <<eventSendState, balance, answered>>

SendNothing ==
    /\ eventSendState \in {"init", "cancel", "mode"}
    /\ messages' = Tail(messages)
    /\ UNCHANGED <<eventSendState, balance, answered>>

SendEventRun ==
    /\ NextMessage("send")
    /\ SendDown \/ SendUp \/ SendDownAndUp \/ SendMove \/ SendNothing
    /\ UNCHANGED <<modeFlag, modeStateCount, pressed, environment,
                   moved, gestures, overlap>>

(* modeHandler: what it does with a message, case by case.                 *)

StartScan ==
    /\ modeFlag \in {"key", "photo"}
    /\ Head(messages).what = "start"
    /\ modeStateCount' = 0
    /\ messages' = Post("move", ModeScanDelay, Tail(messages))
    /\ UNCHANGED gestures

(* Mutant of ScansLeft: the scans are not counted.                         *)
ScansForever == modeStateCount + 1 >= 0

ScansLeft == modeStateCount + 1 < ModeCounterThreshold

(* A key or a zoom if the cursor has left the box around where it was at   *)
(* the start, another scan if not.                                         *)
Scan ==
    /\ modeFlag \in {"key", "photo"}
    /\ Head(messages).what = "move"
    /\ modeStateCount' = modeStateCount + 1
    /\ IF ScansLeft
       THEN \/ /\ gestures' = gestures + 1
               /\ messages' = Tail(messages)
            \/ /\ messages' = Post("move", ModeScanDelay, Tail(messages))
               /\ UNCHANGED gestures
       ELSE /\ messages' = Tail(messages)
            /\ UNCHANGED gestures

Flip ==
    /\ modeFlag \in {"left", "right"}
    /\ gestures' = gestures + 1
    /\ messages' = Tail(messages)
    /\ UNCHANGED modeStateCount

NoMode ==
    /\ modeFlag = "init"
    /\ messages' = Tail(messages)
    /\ UNCHANGED <<modeStateCount, gestures>>

ModeHandle ==
    /\ NextMessage("start") \/ NextMessage("move")
    /\ eventSendState' = "mode"
    /\ StartScan \/ Scan \/ Flip \/ NoMode
    /\ UNCHANGED <<modeFlag, pressed, environment, balance, answered, moved, overlap>>

HandleMessage == OnReceive \/ SendEventRun \/ ModeHandle

Later(n) == IF n > 0 THEN n - 1 ELSE 0
Sooner(n, bound) == IF n < bound THEN n + 1 ELSE bound

Tick ==
    /\ Prompt => ~Due /\ (flying # <<>> => Head(flying) > 0)
    /\ messages' = [i \in DOMAIN messages |->
                      [messages[i] EXCEPT !.when = Later(@)]]
    /\ flying' = [i \in DOMAIN flying |-> Later(flying[i])]
    /\ idle' = IF finger = "up" THEN Sooner(idle, MinGap) ELSE idle
    /\ age' = Sooner(age, PressDelay + 1)
    /\ UNCHANGED <<machine, finger, touches, history>>

Next ==
    \/ TouchDown
    \/ \E gesture \in Gestures : TouchMove(gesture)
    \/ TouchUp
    \/ BroadcastArrives
    \/ HandleMessage
    \/ Tick

(* Time passes, the looper runs what is due and broadcasts arrive; nobody  *)
(* is obliged to touch the button or to let it go.                         *)
Fairness == WF_vars(Tick) /\ WF_vars(HandleMessage) /\ WF_vars(BroadcastArrives)

Spec == Init /\ [][Next]_vars /\ Fairness
-----------------------------------------------------------------------------
(* Properties *)

(* Every variable keeps its kind of value.  In particular modeStateCount   *)
(* starts at 0 with every gesture, and the state machine stays in its      *)
(* seven states under any order of callbacks and messages.                 *)
TypeOK ==
    /\ eventSendState \in {"init", "down", "up", "downAndUp", "downed", "cancel", "mode"}
    /\ modeFlag \in {"init"} \cup ModeGestures
    /\ modeStateCount \in Nat
    /\ pressed \in BOOLEAN
    /\ messages \in Seq([what : {"send", "start", "move", "up"}, when : Nat])
    /\ finger \in {"up", "down"}
    /\ flying \in Seq(Nat)
    /\ idle \in Nat
    /\ age \in Nat
    /\ touches \in Nat
    /\ balance \in Int
    /\ answered \in BOOLEAN
    /\ moved \in BOOLEAN
    /\ gestures \in Nat
    /\ overlap \in BOOLEAN

(* The runnable pushes an ACTION_UP in STATE_UP and an ACTION_MOVE in      *)
(* STATE_DOWNED.  Whatever the timing of touches, broadcasts and messages, *)
(* it never does so without a DOWN that is still open.                     *)
NoStrayUpOrMove ==
    /\ balance >= 0
    /\ eventSendState \in {"up", "downed"} => balance >= 1

(* As long as no touch has overtaken pending work, the pushed pointer      *)
(* events alternate between DOWN and UP.                                   *)
DownsAlternate == ~overlap => balance \in {0, 1}

(* Until then every touch means one thing: a click, or at most one key,    *)
(* zoom or flip.                                                           *)
OneIntentPerTouch ==
    ~overlap => gestures <= 1 /\ ~(answered /\ moved) /\ (answered => gestures = 0)

(* Until then a key, a zoom or a flip is only pushed between two strokes,  *)
(* never into one: the pointer is up when the gesture begins.              *)
GesturesBetweenStrokes == [][gestures' > gestures => overlap \/ balance = 0]_vars

AtRest == messages = <<>> /\ flying = <<>> /\ finger = "up"

(* And when everything has settled, each press that was not turned into a  *)
(* gesture has been clicked, the click is complete, and the button is only *)
(* left pressed by a gesture (onReceive ignores the release then).         *)
CleanAtRest ==
    AtRest /\ ~overlap =>
        /\ balance = 0
        /\ touches > 0 => answered \/ moved
        /\ pressed => eventSendState = "mode"

(* The runnable and the scans repost themselves; all the chains end once   *)
(* the finger is off the button, even those that a hasty touch has doubled.*)
Settles == finger = "up" ~> (messages = <<>> \/ finger = "down")

(* With a prompt looper and touches MinGap apart none overtakes another.   *)
NeverOverlaps == ~overlap

(* With those, a finger that stays in place is answered by a DOWN after    *)
(* PressDelay.                                                             *)
AnsweredInTime == age > PressDelay /\ touches > 0 => answered \/ moved

(* And every DOWN is followed by an UP after the release.                  *)
ReleaseCloses == (balance = 1 /\ finger = "up") ~> balance = 0
=============================================================================
