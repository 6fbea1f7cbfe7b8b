------------------------- MODULE ControllerService -------------------------
(***************************************************************************)
(* activity/ControllerService.java and button/ButtonManager.java: how the  *)
(* service puts the cursor and the button on the screen, starts the        *)
(* threads behind them, and takes them away again.  The service lives in a *)
(* process of its own; the screens of the application ask the system to    *)
(* start and to stop it, the system tells its main looper, and may kill    *)
(* and restart the process.                                                *)
(*                                                                         *)
(* Each onStartCommand makes a new ButtonManager, with a window, a         *)
(* listener, an event queue and a sampling thread.  They are numbered in   *)
(* this order and outlive their service in part, which is what this module *)
(* is about.  A MouseManager has the number of the start that made it.     *)
(* What the button, the queue and the sampling thread do in detail is in   *)
(* modules of their own; here they are reduced to the work they leave      *)
(* behind: one posted callback, a short queue, a thread that lives.        *)
(***************************************************************************)
EXTENDS Naturals, Sequences, FiniteSets

CONSTANTS
    MaxStarts,      \* bound: number of times the start screen is opened
    MaxTouches,     \* bound: number of touches of the button
    MaxQueue        \* bound: no MOVE is pushed to a longer event queue

ASSUME ServiceAssumption == {MaxStarts, MaxTouches, MaxQueue} \subseteq Nat

VARIABLES
    started,    \* system: the service is started and not stopped
    owed,       \* system: what a restarted process is to be told
    requests,   \* system: number of start requests
    up,         \* the service's process exists
    looper,     \* messages to its main looper: the system's, and flips
    service,    \* mouseManager and buttonManager of the service object
    instance,   \* the static field, by the start that set it last
    starts,     \* number of onStartCommand calls with an intent
    mouseOf,    \* the MouseManager of each start
    mouseOn,    \* MouseManagers whose cursor is on the screen (alreadyAdded)
    buttonOn,   \* ButtonManagers whose button is (alreadyAdded)
    goon,       \* event queues whose goon is set
    thread,     \* where the thread of each event queue is
    queue,      \* what each event queue holds: events, and flips of the button
    sampler,    \* starts whose sampling thread has not been told to stop
    pending,    \* what the callback posted by each listener will do
    finger,     \* the button the finger is on, 0 for none
    touches,    \* number of touches
    dirty,      \* history: this process has stopped a button with work left
    lastDeath   \* history: what ended the process last

system == <<started, owed, requests>>
objects == <<service, instance, starts, mouseOf>>
windows == <<mouseOn, buttonOn>>
queues == <<goon, thread, queue>>
touch == <<pending, finger, touches>>
history == <<dirty, lastDeath>>
vars == <<system, up, looper, objects, windows, queues, sampler, touch, history>>

Gens == 1..MaxStarts
NoService == [mouse |-> 0, button |-> 0]
Message(what) == [what |-> what, gen |-> 0]
FlipMessage(g) == [what |-> "flip", gen |-> g]
NextMessage(what) == up /\ looper # <<>> /\ Head(looper).what = what

Init ==
    /\ looper = <<>>
    /\ service = NoService
    /\ instance = 0
    /\ mouseOf = [g \in Gens |-> 0]
    /\ mouseOn = {}
    /\ buttonOn = {}
    /\ goon = {}
    /\ thread = [g \in Gens |-> "none"]
    /\ queue = [g \in Gens |-> <<>>]
    /\ sampler = {}
    /\ pending = [g \in Gens |-> "none"]
    /\ finger = 0
    /\ started = FALSE
    /\ owed = "restart"
    /\ requests = 0
    /\ up = FALSE
    /\ starts = 0
    /\ touches = 0
    /\ dirty = FALSE
    /\ lastDeath = "none"

-----------------------------------------------------------------------------
(* The screens, and what the system makes of their calls.  A stop and a    *)
(* start always concern different service objects.                         *)

StopSent == IF started /\ up THEN Append(looper, Message("destroy")) ELSE looper

StartSent == <<Message("create"), Message("start")>>

StartMessages == StopSent \o StartSent

(* MouseStartActivity.onCreate: stopService(intent); startService(intent). *)
StartScreen ==
    /\ requests < MaxStarts
    /\ requests' = requests + 1
    /\ started' = TRUE
    /\ up' = TRUE
    /\ looper' = StartMessages
    /\ dirty' = (dirty /\ up)
    /\ lastDeath' = IF up THEN lastDeath ELSE "none"
    /\ UNCHANGED <<owed, objects, windows, queues, sampler, touch>>

(* stopService, from the main menu and from both setting screens.          *)
StopScreen ==
    /\ started
    /\ started' = FALSE
    /\ looper' = StopSent
    /\ UNCHANGED <<owed, requests, up, objects, windows, queues, sampler, touch, history>>

(* The process ends, with all that is in it.  A start that onStartCommand  *)
(* has not seen is delivered again, one that it has seen (it has returned  *)
(* START_STICKY) is repeated without the intent.                           *)
Die(cause) ==
    /\ up' = FALSE
    /\ looper' = <<>>
    /\ service' = NoService
    /\ instance' = 0
    /\ mouseOf' = [g \in Gens |-> 0]
    /\ mouseOn' = {}
    /\ buttonOn' = {}
    /\ goon' = {}
    /\ thread' = [g \in Gens |-> "none"]
    /\ queue' = [g \in Gens |-> <<>>]
    /\ sampler' = {}
    /\ pending' = [g \in Gens |-> "none"]
    /\ finger' = 0
    /\ owed' = IF \E i \in DOMAIN looper : looper[i].what = "start"
               THEN "start" ELSE "restart"
    /\ lastDeath' = cause
    /\ UNCHANGED <<started, requests, starts, touches, dirty>>

Kill == up /\ Die("killed")

Restart ==
    /\ started
    /\ ~up
    /\ up' = TRUE
    /\ looper' = <<Message("create"), Message(owed)>>
    /\ dirty' = FALSE
    /\ lastDeath' = "none"
    /\ UNCHANGED <<system, objects, windows, queues, sampler, touch>>

(* A process that keeps dying is not restarted for ever.                   *)
GiveUp ==
    /\ started
    /\ ~up
    /\ started' = FALSE
    /\ UNCHANGED <<owed, requests, up, looper, objects, windows, queues, sampler,
                   touch, history>>
-----------------------------------------------------------------------------
(* ControllerService, on its main looper.                                  *)

(* A new service object.                                                   *)
OnCreate ==
    /\ NextMessage("create")
    /\ looper' = Tail(looper)
    /\ service' = NoService
    /\ UNCHANGED <<system, up, instance, starts, mouseOf, windows, queues, sampler,
                   touch, history>>

MouseFor(g) == IF service.mouse = 0 THEN g ELSE service.mouse

(* onStartCommand with an intent: startMouse, then a new ButtonManager and *)
(* its startButton, which starts the two threads.                          *)
OnStartCommand ==
    LET g == starts + 1
        mouse == MouseFor(g)
    IN
    /\ NextMessage("start")
    /\ looper' = Tail(looper)
    /\ starts' = g
    /\ service' = [mouse |-> mouse, button |-> g]
    /\ instance' = g
    /\ mouseOf' = [mouseOf EXCEPT ![g] = mouse]
    /\ mouseOn' = mouseOn \cup {mouse}
    /\ buttonOn' = buttonOn \cup {g}
    /\ goon' = goon \cup {g}
    /\ thread' = [thread EXCEPT ![g] = "while"]
    /\ sampler' = sampler \cup {g}
    /\ UNCHANGED <<system, up, queue, touch, history>>

(* Mutant of OnStartCommandNull: it returns without starting anything.     *)
OnStartCommandIgnored ==
    /\ NextMessage("restart")
    /\ looper' = Tail(looper)
    /\ UNCHANGED <<system, up, objects, windows, queues, sampler, touch, history>>

(* onStartCommand after a restart by the system: intent is null.           *)
OnStartCommandNull == NextMessage("restart") /\ Die("null intent")

FlipPosted(g) == FlipMessage(g) \in {looper[i] : i \in DOMAIN looper}

(* Work that will touch a window: a DOWN or a flip on its way.             *)
WorkLeft(g) ==
    \/ pending[g] \in {"down", "flip"}
    \/ "flip" \in {queue[g][i] : i \in DOMAIN queue[g]}
    \/ FlipPosted(g)

(* Mutant of OnDestroy: stopButton is not called.                          *)
OnDestroyMouseOnly ==
    /\ NextMessage("destroy")
    /\ looper' = Tail(looper)
    /\ mouseOn' = mouseOn \ {service.mouse}
    /\ dirty' = (dirty \/ WorkLeft(service.button))
    /\ UNCHANGED <<system, up, objects, buttonOn, queues, sampler, touch, lastDeath>>

(* onDestroy: stopMouse and stopButton.                                    *)
OnDestroy ==
    /\ NextMessage("destroy")
    /\ looper' = Tail(looper)
    /\ mouseOn' = mouseOn \ {service.mouse}
    /\ buttonOn' = buttonOn \ {service.button}
    /\ goon' = goon \ {service.button}
    /\ dirty' = (dirty \/ WorkLeft(service.button))
    /\ UNCHANGED <<system, up, objects, thread, queue, sampler, touch, lastDeath>>

(* ButtonManager.handler: updateViewLayout throws if the button is gone.   *)
HandleFlip ==
    /\ NextMessage("flip")
    /\ IF Head(looper).gen \in buttonOn
       THEN /\ looper' = Tail(looper)
            /\ UNCHANGED <<system, up, objects, windows, queues, sampler, touch, history>>
       ELSE Die("window")

MainLooper == \/ OnCreate \/ OnStartCommand \/ OnStartCommandNull
              \/ OnDestroy \/ HandleFlip
-----------------------------------------------------------------------------
(* The listener of a button, reduced to its posted callback.               *)

(* pushMotionEvent of each of the events.                                  *)
Push(g, events) ==
    /\ queue' = [queue EXCEPT ![g] = @ \o events]
    /\ thread' = [thread EXCEPT ![g] = IF @ = "waiting" THEN "woken" ELSE @]
    /\ UNCHANGED goon

Becomes(g, what) == pending' = [pending EXCEPT ![g] = what]

Press(g) ==
    /\ g \in buttonOn
    /\ finger = 0
    /\ touches < MaxTouches
    /\ pending[g] = "none"
    /\ Becomes(g, "down")
    /\ finger' = g
    /\ touches' = touches + 1
    /\ UNCHANGED <<system, up, looper, objects, windows, queues, sampler, history>>

(* A drag before the DOWN went out is a flip of the button, or a key.      *)
Drag(g) ==
    /\ finger = g
    /\ g \in buttonOn
    /\ pending[g] = "down"
    /\ \E gesture \in {"flip", "key"} : Becomes(g, gesture)
    /\ UNCHANGED <<system, up, looper, objects, windows, queues, sampler,
                   finger, touches, history>>

(* The broadcast of the release reaches the listener only as long as its   *)
(* service has not been destroyed.                                         *)
Release(g) ==
    /\ finger = g
    /\ finger' = 0
    /\ CASE g \in buttonOn /\ pending[g] = "down" -> Becomes(g, "downAndUp")
         [] g \in buttonOn /\ pending[g] = "move" -> Becomes(g, "up")
         [] OTHER -> UNCHANGED pending
    /\ UNCHANGED <<system, up, looper, objects, windows, queues, sampler, touches, history>>

(* The DOWN, then lockMouseAWhile: it throws if the cursor is gone.        *)
RunDown(g) ==
    /\ pending[g] = "down"
    /\ IF mouseOf[g] \in mouseOn
       THEN /\ Push(g, <<"event">>)
            /\ Becomes(g, "move")
            /\ UNCHANGED <<system, up, looper, objects, windows, sampler,
                           finger, touches, history>>
       ELSE Die("window")

(* A MOVE if the cursor has moved; the callback is posted again.           *)
RunMove(g) ==
    /\ pending[g] = "move"
    /\ Len(queue[g]) < MaxQueue
    /\ Push(g, <<"event">>)
    /\ UNCHANGED <<system, up, looper, objects, windows, sampler, touch, history>>

(* The scan for a key may also end with nothing.                           *)
LastPush(g) ==
    /\ pending[g] \in {"up", "downAndUp", "flip", "key"}
    /\ \E events \in CASE pending[g] = "up" -> {<<"event">>}
                       [] pending[g] = "downAndUp" -> {<<"event", "event">>}
                       [] pending[g] = "flip" -> {<<"flip">>}
                       [] pending[g] = "key" -> {<<>>, <<"event">>} :
            IF events = <<>> THEN UNCHANGED queues ELSE Push(g, events)
    /\ Becomes(g, "none")
    /\ UNCHANGED <<system, up, looper, objects, windows, sampler, finger, touches, history>>

Callback(g) == RunDown(g) \/ RunMove(g) \/ LastPush(g)
-----------------------------------------------------------------------------
(* The threads.                                                            *)

GoesTo(g, pc) ==
    /\ thread' = [thread EXCEPT ![g] = pc]
    /\ UNCHANGED <<system, up, looper, objects, windows, goon, queue, sampler, touch, history>>

TestGoon(g) == thread[g] = "while" /\ GoesTo(g, IF g \in goon THEN "round" ELSE "exited")

TestEmpty(g) == thread[g] = "round" /\ queue[g] = <<>> /\ GoesTo(g, "wait")

Wait(g) == thread[g] = "wait" /\ GoesTo(g, "waiting")

SpuriousWakeup(g) == thread[g] = "waiting" /\ GoesTo(g, "woken")

Recheck(g) == thread[g] = "woken" /\ queue[g] = <<>> /\ GoesTo(g, "while")

(* A flip is passed on to the main looper.                                 *)
Dispatch(g) ==
    /\ thread[g] \in {"round", "woken"}
    /\ queue[g] # <<>>
    /\ looper' = IF Head(queue[g]) = "flip" THEN Append(looper, FlipMessage(g)) ELSE looper
    /\ queue' = [queue EXCEPT ![g] = Tail(@)]
    /\ thread' = [thread EXCEPT ![g] = "while"]
    /\ UNCHANGED <<system, up, objects, windows, goon, sampler, touch, history>>

QueueThread(g) == TestGoon(g) \/ TestEmpty(g) \/ Wait(g) \/ Recheck(g) \/ Dispatch(g)

(* What keeps a ButtonEventListener reachable: the static instance, the    *)
(* thread of its queue, a callback or a flip that is posted.  A sampling   *)
(* thread that runs reaches it too, by the view context of mouseManager,   *)
(* so that as the application is Finalize never happens.  That reference   *)
(* is left out here: Next allows more than the code does, and what holds   *)
(* does not rest on a thread that nobody can stop.                         *)
Reachable(g) ==
    \/ instance = g \/ service.button = g \/ g \in buttonOn
    \/ thread[g] # "exited" \/ pending[g] # "none" \/ FlipPosted(g)

(* ButtonEventListener.finalize, if the garbage collector gets that far.   *)
Finalize(g) ==
    /\ g \in sampler
    /\ ~Reachable(g)
    /\ sampler' = sampler \ {g}
    /\ UNCHANGED <<system, up, looper, objects, windows, queues, touch, history>>

Next ==
    \/ StartScreen \/ StopScreen
    \/ Kill \/ Restart \/ GiveUp
    \/ MainLooper
    \/ \E g \in Gens : Press(g) \/ Drag(g) \/ Release(g) \/ Callback(g)
    \/ \E g \in Gens : QueueThread(g) \/ SpuriousWakeup(g)
    \/ \E g \in Gens : Finalize(g)

(* The looper, the posted callbacks and the threads run.  Nobody need      *)
(* touch, start or stop anything, or kill or restart the process.          *)
Fairness ==
    /\ WF_vars(MainLooper)
    /\ \A g \in Gens : WF_vars(Callback(g)) /\ WF_vars(QueueThread(g))

Spec == Init /\ [][Next]_vars /\ Fairness
-----------------------------------------------------------------------------
(* Properties *)

(* Every variable keeps its kind of value; a ButtonManager has a thread    *)
(* and a MouseManager once onStartCommand has made it.                     *)
TypeOK ==
    /\ started \in BOOLEAN /\ up \in BOOLEAN /\ dirty \in BOOLEAN
    /\ owed \in {"start", "restart"}
    /\ requests \in 0..MaxStarts /\ starts \in 0..requests /\ touches \in 0..MaxTouches
    /\ looper \in Seq([what : {"create", "start", "restart", "destroy", "flip"},
                        gen : 0..MaxStarts])
    /\ service \in [mouse : 0..starts, button : 0..starts]
    /\ instance \in 0..starts
    /\ mouseOf \in [Gens -> 0..starts]
    /\ mouseOn \subseteq 1..starts /\ buttonOn \subseteq 1..starts
    /\ goon \subseteq Gens /\ sampler \subseteq 1..starts
    /\ thread \in [Gens -> {"none", "while", "round", "wait", "waiting", "woken", "exited"}]
    /\ queue \in [Gens -> Seq({"event", "flip"})]
    /\ pending \in [Gens -> {"none", "down", "downAndUp", "move", "up", "flip", "key"}]
    /\ finger \in 0..MaxStarts
    /\ lastDeath \in {"none", "killed", "null intent", "window"}

Told == {looper[i].what : i \in DOMAIN looper} \subseteq {"flip"}

(* Once the process has handled what the system told it, the cursor and    *)
(* the button are on the screen if and only if the service is started,     *)
(* and those of the last start; also after a crash and a restart, which    *)
(* onStartCommand does not survive.                                        *)
ShownIffStarted ==
    up /\ Told => LET shown == IF started THEN {starts} ELSE {}
                  IN  mouseOn = shown /\ buttonOn = shown /\ goon = shown

(* updateViewLayout throws on a window that has been removed.  That can    *)
(* only end the process if a stop has cut off a press or a flip.           *)
CleanStopNeverCrashes == lastDeath = "window" => dirty

(* A stopped service disappears from the screen, unless it is started      *)
(* again.                                                                  *)
StopTakesEffect == ~started ~> ((mouseOn = {} /\ buttonOn = {}) \/ started)

(* onDestroy reports "Mouse service be stopped!".  So the event queue of a *)
(* stopped button would be expected to end its thread.                     *)
StopEndsThreads ==
    \A g \in Gens : (thread[g] # "none" /\ g \notin goon)
                        ~> thread[g] \in {"exited", "none"}
=============================================================================
