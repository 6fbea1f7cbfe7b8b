------------------------- MODULE EventQueueHandler -------------------------
(***************************************************************************)
(* button/EventQueueHandler.java: the thread that injects the events which *)
(* the main thread pushes.  The two threads share an unsynchronized        *)
(* java.util.LinkedList; the monitor of the handler only guards wait() and *)
(* notify().  The accesses the threads make to the list are steps of their *)
(* own: the links, and the size field that offer() increments and poll()   *)
(* decrements, are read and written separately.                            *)
(*                                                                         *)
(* An event is its number in push order.  What it is (a pointer event, a   *)
(* key, a zoom, a move of the button) only selects the call that run()     *)
(* makes with it, which is one step here.                                  *)
(***************************************************************************)
EXTENDS Naturals, Integers, Sequences

CONSTANT MaxPush    \* bound: pushMotionEvent is called at most MaxPush times

ASSUME MaxPushAssumption == MaxPush \in Nat

VARIABLES
    queue,      \* the events reachable from the head of the LinkedList
    size,       \* its size field, which size() returns and poll() updates
    detached,   \* a racing offer left the tail unreachable from the head
    goon,       \* EventQueueHandler.goon (volatile)
    mainPc,     \* where the main thread is in pushMotionEvent
    mainReg,    \* what it read before its next write: a link or the size
    queuePc,    \* where the handler thread is in run
    queueReg,   \* what it read before its next write
    event,      \* the event run() polled last
    pushed,     \* number of calls of pushMotionEvent so far
    delivered,  \* history: the events dispatched, in order
    late,       \* history: number of them dispatched after stopThread
    raced       \* history: an offer() and a poll() have overlapped

mainVars == <<mainPc, mainReg, pushed>>
queueVars == <<queuePc, queueReg, event, delivered, late>>
vars == <<queue, size, detached, goon, mainVars, queueVars, raced>>

Last(s) == s[Len(s)]

(* What the two threads' program counters range over.                      *)
MainPcs == {"idle", "link", "readSize", "writeSize", "notify"}
QueuePcs == {"loop", "checkSize", "wait", "waiting", "recheck", "poll",
             "unlink", "readSize", "writeSize", "dispatch", "exited", "crashed"}

MidOffer == mainPc \in {"link", "readSize", "writeSize"}
MidPoll  == queuePc \in {"unlink", "readSize", "writeSize"}

Init ==
    /\ queue = <<>>
    /\ size = 0
    /\ detached = FALSE
    /\ goon = TRUE
    /\ mainPc = "idle"
    /\ mainReg = 0
    /\ queuePc = "loop"
    /\ queueReg = 0
    /\ event = 0
    /\ pushed = 0
    /\ delivered = <<>>
    /\ late = 0
    /\ raced = FALSE

-----------------------------------------------------------------------------
(* The main thread: pushMotionEvent -> offer -> LinkedList.offer; notify(). *)

(* offer() looks up the last link (0: the list is empty).                  *)
PushMotionEvent ==
    /\ mainPc = "idle"
    /\ pushed < MaxPush
    /\ pushed' = pushed + 1
    /\ mainReg' = IF queue = <<>> THEN 0 ELSE Last(queue)
    /\ mainPc' = "link"
    /\ UNCHANGED <<queue, size, detached, goon, queueVars>>

(* It links the event behind the one it found.  If that one has been       *)
(* unlinked meanwhile, the event is appended to a node off the list: it is *)
(* lost, and so may be everything offered later.                           *)
OfferLink ==
    /\ mainPc = "link"
    /\ IF detached \/ (mainReg # 0 /\ queue = <<>>)
       THEN /\ detached' \in {detached, TRUE}
            /\ queue' = queue
       ELSE /\ queue' = Append(queue, pushed)
            /\ UNCHANGED detached
    /\ mainPc' = "readSize"
    /\ UNCHANGED <<size, goon, mainReg, pushed, queueVars>>

OfferReadSize ==
    /\ mainPc = "readSize"
    /\ mainReg' = size
    /\ mainPc' = "writeSize"
    /\ UNCHANGED <<queue, size, detached, goon, pushed, queueVars>>

OfferWriteSize ==
    /\ mainPc = "writeSize"
    /\ size' = mainReg + 1
    /\ mainPc' = "notify"
    /\ UNCHANGED <<queue, detached, goon, mainReg, pushed, queueVars>>

(* Mutant of OfferNotify: the notify() is missing.                         *)
OfferNoNotify ==
    /\ mainPc = "notify"
    /\ mainPc' = "idle"
    /\ UNCHANGED <<queue, size, detached, goon, mainReg, pushed, queueVars>>

(* synchronized (this) { notify(); }                                       *)
OfferNotify ==
    /\ mainPc = "notify"
    /\ mainPc' = "idle"
    /\ queuePc' = IF queuePc = "waiting" THEN "recheck" ELSE queuePc
    /\ UNCHANGED <<queue, size, detached, goon, mainReg, pushed,
                   queueReg, event, delivered, late>>

(* stopThread() clears the flag and wakes nobody.                          *)
StopThread ==
    /\ mainPc = "idle"
    /\ goon
    /\ goon' = FALSE
    /\ UNCHANGED <<queue, size, detached, mainVars, queueVars>>

MainStep == \/ PushMotionEvent \/ OfferLink \/ OfferReadSize
            \/ OfferWriteSize \/ OfferNotify \/ StopThread

-----------------------------------------------------------------------------
(* The handler thread: run().                                              *)

Goto(pc) ==
    /\ queuePc' = pc
    /\ UNCHANGED <<queue, size, detached, goon, mainVars,
                   queueReg, event, delivered, late>>

(* Mutant of Recheck: no second size test.                                 *)
RecheckNothing == queuePc = "recheck" /\ Goto("poll")

TestGoon == queuePc = "loop" /\ Goto(IF goon THEN "checkSize" ELSE "exited")

TestEmpty == queuePc = "checkSize" /\ Goto(IF size = 0 THEN "wait" ELSE "recheck")

Wait == queuePc = "wait" /\ Goto("waiting")

(* wait() may return without a notify(): the Java memory model allows it.  *)
SpuriousWakeup == queuePc = "waiting" /\ Goto("recheck")

Recheck == queuePc = "recheck" /\ Goto(IF size # 0 THEN "poll" ELSE "loop")

(* poll() finds the first link, and whether a second one follows it.  With *)
(* nothing linked there is no event and run() dies on it.                  *)
PollFirst ==
    /\ queuePc = "poll"
    /\ IF queue = <<>>
       THEN /\ queuePc' = "crashed"
            /\ UNCHANGED <<queueReg, event>>
       ELSE /\ queuePc' = "unlink"
            /\ queueReg' = Len(queue) - 1
            /\ event' = Head(queue)
    /\ UNCHANGED <<queue, size, detached, goon, mainVars, delivered, late>>

(* Mutants of PollUnlink: peek() leaves the event, clear() drops them all. *)
PollKeep == queuePc = "unlink" /\ Goto("readSize")
PollClear ==
    /\ queuePc = "unlink"
    /\ queue' = <<>>
    /\ queuePc' = "readSize"
    /\ UNCHANGED <<size, detached, goon, mainVars, queueReg, event, delivered, late>>

(* The head now points to the second link it found.  Having found none it  *)
(* resets both ends, which drops a link added since then.                  *)
PollUnlink ==
    /\ queuePc = "unlink"
    /\ queue' = IF queueReg = 0 THEN <<>> ELSE Tail(queue)
    /\ queuePc' = "readSize"
    /\ UNCHANGED <<size, detached, goon, mainVars, queueReg, event, delivered, late>>

PollReadSize ==
    /\ queuePc = "readSize"
    /\ queueReg' = size
    /\ queuePc' = "writeSize"
    /\ UNCHANGED <<queue, size, detached, goon, mainVars, event, delivered, late>>

PollWriteSize ==
    /\ queuePc = "writeSize"
    /\ size' = queueReg - 1
    /\ queuePc' = "dispatch"
    /\ UNCHANGED <<queue, detached, goon, mainVars, queueReg, event, delivered, late>>

(* sendPointerSync, generateZoomGesture, sendKeyDownUpSync or a message to *)
(* ButtonManager.handler, whichever the event's action asks for.           *)
Dispatch ==
    /\ queuePc = "dispatch"
    /\ delivered' = Append(delivered, event)
    /\ late' = IF goon THEN late ELSE late + 1
    /\ queuePc' = "loop"
    /\ UNCHANGED <<queue, size, detached, goon, mainVars, queueReg, event>>

QueueStep == \/ TestGoon \/ TestEmpty \/ Wait \/ Recheck
             \/ PollFirst \/ PollUnlink \/ PollReadSize \/ PollWriteSize \/ Dispatch

Next ==
    /\ MainStep \/ QueueStep \/ SpuriousWakeup
    /\ raced' = (raced \/ (MidOffer /\ MidPoll)')

(* The scheduler runs both threads; nobody is obliged to push or to stop,  *)
(* and no spurious wakeup is owed.                                         *)
Fairness ==
    /\ WF_vars(Next /\ QueueStep)
    /\ WF_vars(Next /\ (OfferLink \/ OfferReadSize \/ OfferWriteSize \/ OfferNotify))

Spec == Init /\ [][Next]_vars /\ Fairness
-----------------------------------------------------------------------------
(* Properties *)

(* Every variable keeps its kind of value; in particular the size field    *)
(* never turns negative, whatever the two unsynchronized writers do to it. *)
TypeOK ==
    /\ queue \in Seq(1..MaxPush)
    /\ size \in Nat
    /\ detached \in BOOLEAN
    /\ goon \in BOOLEAN
    /\ mainPc \in MainPcs
    /\ mainReg \in Nat
    /\ queuePc \in QueuePcs
    /\ queueReg \in Nat
    /\ event \in 0..MaxPush
    /\ pushed \in 0..MaxPush
    /\ delivered \in Seq(1..MaxPush)
    /\ late \in Nat
    /\ raced \in BOOLEAN

(* offer()/poll() use the list as a FIFO: events are injected in the order *)
(* in which they were pushed and none twice, even when the two threads     *)
(* race and events get lost.                                               *)
InOrder == \A i, j \in 1..Len(delivered) : i < j => delivered[i] < delivered[j]

(* run() tests goon once per round: after stopThread() it can only finish  *)
(* the round it is in, so at most one more event reaches the screen.       *)
AtMostOneLate == late <= 1

(* run() dereferences what poll() returns without a null test; that is     *)
(* safe as long as no offer() has overlapped a poll().                     *)
CrashNeedsRace == queuePc = "crashed" => raced

(* The event run() has taken off the list and not yet dispatched.          *)
InFlight == IF queuePc \in {"readSize", "writeSize", "dispatch"} THEN <<event>> ELSE <<>>

(* As long as no offer() has overlapped a poll(), every pushed event is    *)
(* linked in the list, in the hands of run() or dispatched.                *)
NoLossWithoutRace ==
    ~raced => Len(delivered) + Len(InFlight) + Len(queue)
                = IF mainPc = "link" THEN pushed - 1 ELSE pushed

(* run() tests the size outside the monitor, so the notify() of a push can *)
(* fall before its wait() and leave events behind.  The next push that     *)
(* finds it waiting gets all of them out.                                  *)
NextPushDrains ==
    (queuePc = "waiting" /\ mainPc = "notify") ~> (queue = <<>> \/ ~goon \/ raced)

(* The handler implements the lossy FIFO: Push is pushMotionEvent, Accept  *)
(* the link it leaves, Lose a link that a race drops, Deliver a dispatch.  *)
Fifo == INSTANCE LossyFifo WITH pending <- InFlight \o queue, stopped <- ~goon
ImplementsLossyFifo == Fifo!Spec
=============================================================================
