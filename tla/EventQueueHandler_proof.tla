---------------------- MODULE EventQueueHandler_proof ----------------------
(***************************************************************************)
(* Proofs about EventQueueHandler, for any number of pushes.               *)
(***************************************************************************)
EXTENDS EventQueueHandler, SequenceTheorems, TLAPS

(* The part of the inductive invariant that the types rest on: run() polls *)
(* only after it has seen a size that is not zero, the main thread never   *)
(* writes a size of zero, so the decrement starts from one at least.       *)
TypeInv ==
    /\ TypeOK
    /\ queuePc \in {"poll", "unlink", "readSize"} => size >= 1
    /\ queuePc = "writeSize" => queueReg >= 1
    /\ queuePc = "unlink" => queue # <<>>
    /\ queuePc \in {"unlink", "readSize", "writeSize", "dispatch"} => event >= 1
    /\ mainPc = "link" => pushed >= 1

LEMMA InitTypeInv == Init => TypeInv
  <1>1. <<>> \in Seq(1..MaxPush)
    BY EmptySeq
  <1>2. SUFFICES ASSUME Init PROVE TypeInv
    OBVIOUS
  <1>3. queue \in Seq(1..MaxPush) /\ delivered \in Seq(1..MaxPush)
    BY <1>1, <1>2 DEF Init
  <1>4. event \in 0..MaxPush /\ pushed \in 0..MaxPush
    BY <1>2, MaxPushAssumption DEF Init
  <1>5. goon \in BOOLEAN /\ detached \in BOOLEAN /\ raced \in BOOLEAN
    BY <1>2 DEF Init
  <1>6. QED
    BY <1>2, <1>3, <1>4, <1>5 DEF Init, TypeInv, TypeOK, MainPcs, QueuePcs

LEMMA NextTypeInv == TypeInv /\ [Next]_vars => TypeInv'
  <1> USE MaxPushAssumption DEF TypeInv, TypeOK, MainPcs, QueuePcs
  <1> SUFFICES ASSUME TypeInv, [Next]_vars PROVE TypeInv'
    OBVIOUS
  <1>1. CASE UNCHANGED vars
    BY <1>1 DEF vars, mainVars, queueVars
  <1>r. ASSUME Next PROVE raced' \in BOOLEAN
    BY <1>r DEF Next
  <1>2. ASSUME Next, PushMotionEvent PROVE TypeInv'
    <2>1. queue # <<>> => Last(queue) \in 1..MaxPush
      BY DEF Last
    <2>2. mainReg' \in Nat
      BY <1>2, <2>1 DEF PushMotionEvent
    <2>3. QED
      BY <1>2, <1>r, <2>2 DEF PushMotionEvent, queueVars
  <1>3. ASSUME Next, OfferLink PROVE TypeInv'
    <2>0. pushed \in 1..MaxPush
      BY <1>3 DEF OfferLink
    <2>a. Append(queue, pushed) \in Seq(1..MaxPush)
      BY <2>0
    <2>d. Append(queue, pushed) # <<>>
      BY <2>0, AppendProperties
    <2>b. detached' \in BOOLEAN
      BY <1>3 DEF OfferLink
    <2>c. queue' = queue \/ queue' = Append(queue, pushed)
      BY <1>3 DEF OfferLink
    <2>1. queue' \in Seq(1..MaxPush) /\ (queue # <<>> => queue' # <<>>) /\ detached' \in BOOLEAN
      BY <2>a, <2>b, <2>c, <2>d
    <2>2. QED
      BY <1>3, <1>r, <2>1 DEF OfferLink, queueVars
  <1>4. ASSUME Next, OfferReadSize PROVE TypeInv'
    BY <1>4, <1>r DEF OfferReadSize, queueVars
  <1>5. ASSUME Next, OfferWriteSize PROVE TypeInv'
    BY <1>5, <1>r DEF OfferWriteSize, queueVars
  <1>6. ASSUME Next, OfferNotify PROVE TypeInv'
    BY <1>6, <1>r DEF OfferNotify
  <1>7. ASSUME Next, StopThread PROVE TypeInv'
    BY <1>7, <1>r DEF StopThread, mainVars, queueVars
  <1>8. ASSUME Next, TestGoon \/ TestEmpty \/ Wait \/ Recheck \/ SpuriousWakeup
        PROVE TypeInv'
    BY <1>8, <1>r, SMTT(30) DEF TestGoon, TestEmpty, Wait, Recheck, SpuriousWakeup, Goto, mainVars
  <1>9. ASSUME Next, PollFirst PROVE TypeInv'
    <2>1. CASE queue = <<>>
      BY <1>9, <1>r, <2>1 DEF PollFirst, mainVars
    <2>2. CASE queue # <<>>
      <3>1. Len(queue) - 1 \in Nat /\ Head(queue) \in 1..MaxPush
        BY <2>2
      <3>2. QED
        BY <1>9, <1>r, <2>2, <3>1 DEF PollFirst, mainVars
    <2>3. QED BY <2>1, <2>2
  <1>10. ASSUME Next, PollUnlink PROVE TypeInv'
    <2>1. queue' \in Seq(1..MaxPush)
      BY <1>10, EmptySeq, HeadTailProperties DEF PollUnlink
    <2>2. QED
      BY <1>10, <1>r, <2>1 DEF PollUnlink, mainVars
  <1>11. ASSUME Next, PollReadSize PROVE TypeInv'
    BY <1>11, <1>r DEF PollReadSize, mainVars
  <1>12. ASSUME Next, PollWriteSize PROVE TypeInv'
    BY <1>12, <1>r DEF PollWriteSize, mainVars
  <1>13. ASSUME Next, Dispatch PROVE TypeInv'
    <2>1. delivered' \in Seq(1..MaxPush)
      BY <1>13 DEF Dispatch
    <2>2. QED
      BY <1>13, <1>r, <2>1 DEF Dispatch, mainVars
  <1>14. QED
    BY <1>1, <1>2, <1>3, <1>4, <1>5, <1>6, <1>7, <1>8, <1>9, <1>10, <1>11, <1>12, <1>13
    DEF Next, MainStep, QueueStep

LEMMA AlwaysTypeInv == Spec => []TypeInv
  BY InitTypeInv, NextTypeInv, PTL DEF Spec

(* Type correctness: whatever the race between offer() and poll() does to  *)
(* the list, every variable keeps its type and the size stays a natural.   *)
THEOREM TypeCorrect == Spec => []TypeOK
  <1>1. TypeInv => TypeOK
    BY DEF TypeInv
  <1>2. QED
    BY <1>1, AlwaysTypeInv, PTL

-----------------------------------------------------------------------------
(* goon is tested at the top of every round, so a round that starts after  *)
(* stopThread ends at once, and the one under way dispatches one event.    *)
LateInv ==
    /\ goon => late = 0
    /\ late = 0 \/ (late = 1 /\ queuePc \in {"loop", "exited"})

LEMMA AlwaysLateInv == Spec => []LateInv
  <1>1. Init => LateInv
    BY DEF Init, LateInv
  <1>2. LateInv /\ [Next]_vars => LateInv'
    <2> SUFFICES ASSUME LateInv, [Next]_vars PROVE LateInv'
      OBVIOUS
    <2> USE DEF LateInv
    <2>1. CASE UNCHANGED vars
      BY <2>1 DEF vars, queueVars
    <2>2. CASE MainStep
      <3>1. CASE PushMotionEvent \/ OfferReadSize \/ OfferWriteSize
        BY <3>1 DEF PushMotionEvent, OfferReadSize, OfferWriteSize, queueVars
      <3>2. CASE OfferLink
        BY <3>2 DEF OfferLink, queueVars
      <3>3. CASE OfferNotify
        BY <3>3 DEF OfferNotify
      <3>4. CASE StopThread
        BY <3>4 DEF StopThread, queueVars
      <3>5. QED BY <2>2, <3>1, <3>2, <3>3, <3>4 DEF MainStep
    <2>3. CASE QueueStep \/ SpuriousWakeup
      <3>1. CASE Dispatch
        BY <3>1 DEF Dispatch
      <3>2. CASE QueueStep /\ ~Dispatch
        BY <3>2 DEF QueueStep, TestGoon, TestEmpty, Wait, Recheck, PollFirst,
                    PollUnlink, PollReadSize, PollWriteSize, Goto
      <3>3. CASE SpuriousWakeup
        BY <3>3 DEF SpuriousWakeup, Goto
      <3>4. QED BY <2>3, <3>1, <3>2, <3>3
    <2>4. QED
      BY <2>1, <2>2, <2>3 DEF Next
  <1>3. QED
    BY <1>1, <1>2, PTL DEF Spec

(* After stopThread() at most one more event is injected.                  *)
THEOREM StopIsPrompt == Spec => []AtMostOneLate
  <1>1. LateInv => AtMostOneLate
    BY DEF LateInv, AtMostOneLate
  <1>2. QED
    BY <1>1, AlwaysLateInv, PTL

-----------------------------------------------------------------------------
(* Without an overlap each thread finds the list as it left it: the size   *)
(* differs from the number of links by the operation under way, the links  *)
(* and the size that a thread has read are still current.                  *)
ExactInv ==
    ~raced =>
      /\ ~detached
      /\ ~(MidOffer /\ MidPoll)
      /\ size = Len(queue)
                  - (IF mainPc \in {"readSize", "writeSize"} THEN 1 ELSE 0)
                  + (IF queuePc \in {"readSize", "writeSize"} THEN 1 ELSE 0)
      /\ mainPc = "writeSize" => mainReg = size
      /\ mainPc = "link" => (mainReg # 0 => queue # <<>>)
      /\ queuePc = "writeSize" => queueReg = size
      /\ queuePc = "unlink" => queueReg = Len(queue) - 1
      /\ queuePc # "crashed"

LEMMA NextExactInv == TypeInv /\ ExactInv /\ [Next]_vars => ExactInv'
  <1> USE DEF ExactInv, TypeInv, TypeOK, MidOffer, MidPoll, MainPcs, QueuePcs
  <1> SUFFICES ASSUME TypeInv, ExactInv, [Next]_vars, ~raced' PROVE ExactInv'
    BY DEF ExactInv
  <1>1. CASE UNCHANGED vars
    BY <1>1 DEF vars, mainVars, queueVars
  <1>a. ASSUME Next PROVE ~raced /\ ~(MidOffer' /\ MidPoll')
    BY <1>a DEF Next
  <1>2. ASSUME Next, PushMotionEvent PROVE ExactInv'
    BY <1>2, <1>a DEF PushMotionEvent, queueVars
  <1>3. ASSUME Next, OfferLink PROVE ExactInv'
    <2>1. queue' = Append(queue, pushed) /\ detached' = detached
      BY <1>3, <1>a DEF OfferLink
    <2>2. queue' # <<>> /\ Len(queue') = Len(queue) + 1
      BY <2>1, AppendProperties
    <2>3. QED
      BY <1>3, <1>a, <2>1, <2>2 DEF OfferLink, queueVars
  <1>4. ASSUME Next, OfferReadSize PROVE ExactInv'
    BY <1>4, <1>a DEF OfferReadSize, queueVars
  <1>5. ASSUME Next, OfferWriteSize PROVE ExactInv'
    BY <1>5, <1>a DEF OfferWriteSize, queueVars
  <1>6. ASSUME Next, OfferNotify PROVE ExactInv'
    BY <1>6, <1>a DEF OfferNotify
  <1>7. ASSUME Next, StopThread PROVE ExactInv'
    BY <1>7, <1>a DEF StopThread, mainVars, queueVars
  <1>8. ASSUME Next, TestGoon \/ TestEmpty \/ Wait \/ Recheck \/ SpuriousWakeup
        PROVE ExactInv'
    BY <1>8, <1>a DEF TestGoon, TestEmpty, Wait, Recheck, SpuriousWakeup, Goto, mainVars
  <1>9. ASSUME Next, PollFirst PROVE ExactInv'
    <2>1. queuePc = "poll" /\ size >= 1
      BY <1>9 DEF PollFirst
    <2>2. Len(queue) >= 1
      BY <2>1, <1>a, <1>9
    <2>3. queue # <<>>
      BY <2>2
    <2>4. QED
      BY <1>9, <1>a, <2>1, <2>3 DEF PollFirst, mainVars
  <1>10. ASSUME Next, PollUnlink PROVE ExactInv'
    <2>1. queuePc = "unlink" /\ queueReg = Len(queue) - 1 /\ queue # <<>>
      BY <1>10, <1>a DEF PollUnlink
    <2>2. Len(queue') = Len(queue) - 1
      BY <1>10, <2>1, HeadTailProperties, EmptySeq DEF PollUnlink
    <2>3. ~MidOffer
      BY <2>1, <1>a, <1>10
    <2>4. QED
      BY <1>10, <1>a, <2>1, <2>2, <2>3 DEF PollUnlink, mainVars
  <1>11. ASSUME Next, PollReadSize PROVE ExactInv'
    BY <1>11, <1>a DEF PollReadSize, mainVars
  <1>12. ASSUME Next, PollWriteSize PROVE ExactInv'
    BY <1>12, <1>a DEF PollWriteSize, mainVars
  <1>13. ASSUME Next, Dispatch PROVE ExactInv'
    BY <1>13, <1>a DEF Dispatch, mainVars
  <1>14. QED
    BY <1>1, <1>2, <1>3, <1>4, <1>5, <1>6, <1>7, <1>8, <1>9, <1>10, <1>11, <1>12, <1>13
    DEF Next, MainStep, QueueStep

LEMMA AlwaysExactInv == Spec => []ExactInv
  <1>1. Init => ExactInv
    BY EmptySeq DEF Init, ExactInv, MidOffer, MidPoll
  <1>2. QED
    BY <1>1, AlwaysTypeInv, NextExactInv, PTL DEF Spec

(* run() never dies on an empty poll() unless offer() and poll() raced.    *)
THEOREM NoCrashWithoutRace == Spec => []CrashNeedsRace
  <1>1. ExactInv => CrashNeedsRace
    BY DEF ExactInv, CrashNeedsRace
  <1>2. QED
    BY <1>1, AlwaysExactInv, PTL

(* How many events run() holds follows from where it is.                   *)
LEMMA InFlightLen ==
    Len(InFlight) = IF queuePc \in {"readSize", "writeSize", "dispatch"} THEN 1 ELSE 0
  <1>1. CASE queuePc \in {"readSize", "writeSize", "dispatch"}
    BY <1>1 DEF InFlight
  <1>2. CASE queuePc \notin {"readSize", "writeSize", "dispatch"}
    BY <1>2, EmptySeq DEF InFlight
  <1>3. QED BY <1>1, <1>2

(* The same, of the next state.                                            *)
LEMMA InFlightLenPrime ==
    Len(InFlight') = IF queuePc' \in {"readSize", "writeSize", "dispatch"} THEN 1 ELSE 0
  <1>1. CASE queuePc' \in {"readSize", "writeSize", "dispatch"}
    BY <1>1 DEF InFlight
  <1>2. CASE queuePc' \notin {"readSize", "writeSize", "dispatch"}
    BY <1>2, EmptySeq DEF InFlight
  <1>3. QED BY <1>1, <1>2

(* Every step that takes an event from one place puts it in the next one,  *)
(* so nothing pushed is missing as long as the threads have not raced.     *)
THEOREM NoLoss == Spec => []NoLossWithoutRace
  <1> USE DEF NoLossWithoutRace
  <1>1. Init => NoLossWithoutRace
    BY EmptySeq, InFlightLen DEF Init
  <1>2. TypeInv /\ ExactInv /\ NoLossWithoutRace /\ [Next]_vars => NoLossWithoutRace'
    <2> SUFFICES ASSUME TypeInv, ExactInv, NoLossWithoutRace, [Next]_vars, ~raced'
                 PROVE  NoLossWithoutRace'
      BY DEF NoLossWithoutRace
    <2> USE InFlightLen, InFlightLenPrime DEF TypeInv, TypeOK
    <2>1. CASE UNCHANGED vars
      BY <2>1 DEF vars, mainVars, queueVars
    <2>a. ASSUME Next PROVE ~raced
      BY <2>a DEF Next
    <2>2. ASSUME Next, OfferLink PROVE NoLossWithoutRace'
      <3>1. queue' = Append(queue, pushed)
        BY <2>2, <2>a DEF OfferLink, ExactInv
      <3>2. Len(queue') = Len(queue) + 1
        BY <3>1, AppendProperties
      <3>3. /\ mainPc = "link" /\ mainPc' = "readSize"
            /\ UNCHANGED <<pushed, delivered, queuePc>>
        BY <2>2 DEF OfferLink, queueVars
      <3>4. /\ pushed \in Nat /\ Len(queue) \in Nat
            /\ Len(delivered) \in Nat /\ Len(InFlight) \in Nat
        BY MaxPushAssumption
      <3>5. \A a, b, c, n \in Nat : a + b + c = n - 1 => a + b + (c + 1) = n
        OBVIOUS
      <3>6. Len(delivered) + Len(InFlight) + (Len(queue) + 1) = pushed
        BY <2>a, <2>2, <3>3, <3>4, <3>5
      <3>7. QED
        BY <3>2, <3>3, <3>6
    <2>3. ASSUME Next, MainStep, ~OfferLink PROVE NoLossWithoutRace'
      <3>1. CASE PushMotionEvent
        BY <2>3, <2>a, <3>1 DEF PushMotionEvent, queueVars
      <3>2. CASE OfferReadSize \/ OfferWriteSize \/ StopThread
        BY <2>3, <2>a, <3>2 DEF OfferReadSize, OfferWriteSize, StopThread, mainVars, queueVars
      <3>3. CASE OfferNotify
        BY <2>3, <2>a, <3>3 DEF OfferNotify
      <3>4. QED BY <2>3, <3>1, <3>2, <3>3 DEF MainStep
    <2>4. ASSUME Next, TestGoon \/ TestEmpty \/ Wait \/ Recheck \/ SpuriousWakeup
          PROVE NoLossWithoutRace'
      BY <2>4, <2>a DEF TestGoon, TestEmpty, Wait, Recheck, SpuriousWakeup, Goto, mainVars
    <2>5. ASSUME Next, PollFirst PROVE NoLossWithoutRace'
      BY <2>5, <2>a DEF PollFirst, mainVars
    <2>6. ASSUME Next, PollUnlink PROVE NoLossWithoutRace'
      <3>1. queuePc = "unlink" /\ queueReg = Len(queue) - 1 /\ queue # <<>>
        BY <2>6, <2>a DEF PollUnlink, ExactInv
      <3>2. Len(queue') = Len(queue) - 1
        BY <2>6, <3>1, HeadTailProperties, EmptySeq DEF PollUnlink
      <3>3. /\ queuePc = "unlink" /\ queuePc' = "readSize"
            /\ UNCHANGED <<pushed, delivered, mainPc>>
        BY <2>6 DEF PollUnlink, mainVars
      <3>4. QED
        BY <2>a, <2>6, <3>2, <3>3
    <2>7. ASSUME Next, PollReadSize \/ PollWriteSize PROVE NoLossWithoutRace'
      BY <2>7, <2>a DEF PollReadSize, PollWriteSize, mainVars
    <2>8. ASSUME Next, Dispatch PROVE NoLossWithoutRace'
      <3>1. event \in 1..MaxPush /\ delivered' = Append(delivered, event)
        BY <2>8 DEF Dispatch
      <3>2. Len(delivered') = Len(delivered) + 1
        BY <3>1, AppendProperties
      <3>3. QED
        BY <2>8, <2>a, <3>2 DEF Dispatch, mainVars
    <2>9. QED
      BY <2>1, <2>2, <2>3, <2>4, <2>5, <2>6, <2>7, <2>8 DEF Next, QueueStep
  <1>3. QED
    BY <1>1, <1>2, AlwaysTypeInv, AlwaysExactInv, PTL DEF Spec

-----------------------------------------------------------------------------
(* The event that the next link will carry is newer than every other one:  *)
(* Older(n) says that n was pushed before it.                              *)
Older(n) == n <= pushed /\ (mainPc = "link" => n < pushed)
Holding == queuePc \in {"readSize", "writeSize", "dispatch"}

(* Dispatched events, the event run() holds and the list, in this order,   *)
(* are sorted, also after a race has dropped some of them.                 *)
OrderInv ==
    /\ \A i, j \in 1..Len(queue) : i < j => queue[i] < queue[j]
    /\ \A i, j \in 1..Len(delivered) : i < j => delivered[i] < delivered[j]
    /\ \A i \in 1..Len(delivered), j \in 1..Len(queue) : delivered[i] < queue[j]
    /\ \A j \in 1..Len(queue) : Older(queue[j])
    /\ \A i \in 1..Len(delivered) : Older(delivered[i])
    /\ Holding => /\ Older(event)
                  /\ \A i \in 1..Len(delivered) : delivered[i] < event
                  /\ \A j \in 1..Len(queue) : event < queue[j]
    /\ queuePc = "unlink" => event = queue[1]

LEMMA NextOrderInv == TypeInv /\ OrderInv /\ [Next]_vars => OrderInv'
  <1> SUFFICES ASSUME TypeInv, OrderInv, [Next]_vars PROVE OrderInv'
    OBVIOUS
  <1> USE MaxPushAssumption DEF TypeInv, TypeOK, OrderInv, Older, Holding
  <1>1. CASE UNCHANGED vars
    BY <1>1 DEF vars, mainVars, queueVars
  <1>2. CASE PushMotionEvent
    BY <1>2 DEF PushMotionEvent, queueVars
  <1>3. CASE OfferLink
    <2>1. /\ mainPc = "link" /\ mainPc' = "readSize" /\ pushed \in 1..MaxPush
          /\ UNCHANGED <<pushed, queuePc, event, delivered>>
      BY <1>3 DEF OfferLink, queueVars
    <2>2. CASE queue' = queue
      BY <2>1, <2>2
    <2>3. CASE queue' = Append(queue, pushed)
      <3>1. /\ Len(queue') = Len(queue) + 1
            /\ \A i \in 1..Len(queue) : queue'[i] = queue[i]
            /\ queue'[Len(queue) + 1] = pushed
        BY <2>1, <2>3, AppendProperties
      <3>2. Len(queue) \in Nat /\ \A i \in 1..Len(queue) : queue[i] \in Nat
        OBVIOUS
      <3>3. queuePc = "unlink" => Len(queue) >= 1
        BY EmptySeq
      <3>4. \A j \in 1..Len(queue') : IF j <= Len(queue) THEN queue'[j] = queue[j]
                                                          ELSE queue'[j] = pushed
        BY <3>1, <3>2
      <3>5. \A i \in 1..Len(queue) : queue[i] < pushed
        BY <2>1, <3>2
      <3>6. \A i, j \in 1..Len(queue') : i < j => queue'[i] < queue'[j]
        <4> SUFFICES ASSUME NEW i \in 1..Len(queue'), NEW j \in 1..Len(queue'), i < j
                     PROVE  queue'[i] < queue'[j]
          OBVIOUS
        <4>1. i \in 1..Len(queue) /\ queue'[i] = queue[i]
          BY <3>1, <3>2
        <4>2. CASE j \in 1..Len(queue)
          <5>1. queue[i] < queue[j]
            BY <4>1, <4>2
          <5>2. QED BY <3>1, <4>1, <4>2, <5>1
        <4>3. CASE j = Len(queue) + 1
          BY <3>1, <3>5, <4>1, <4>3
        <4>4. QED BY <3>1, <3>2, <4>2, <4>3
      <3>7. \A i \in 1..Len(delivered), j \in 1..Len(queue') : delivered[i] < queue'[j]
        BY <2>1, <3>1, <3>2, <3>4
      <3>8. \A j \in 1..Len(queue') : queue'[j] <= pushed
        BY <2>1, <3>1, <3>2, <3>4, <3>5
      <3>9. Holding => \A j \in 1..Len(queue') : event < queue'[j]
        BY <2>1, <3>1, <3>2, <3>4
      <3>10. queuePc = "unlink" => event = queue'[1]
        BY <3>1, <3>3
      <3>11. QED
        BY <2>1, <3>6, <3>7, <3>8, <3>9, <3>10
    <2>4. QED
      BY <1>3, <2>2, <2>3 DEF OfferLink
  <1>4. CASE OfferReadSize \/ OfferWriteSize
    BY <1>4 DEF OfferReadSize, OfferWriteSize, queueVars
  <1>5. CASE OfferNotify
    BY <1>5 DEF OfferNotify
  <1>6. CASE StopThread
    BY <1>6 DEF StopThread, mainVars, queueVars
  <1>7. CASE TestGoon \/ TestEmpty \/ Wait \/ Recheck \/ SpuriousWakeup
    BY <1>7 DEF TestGoon, TestEmpty, Wait, Recheck, SpuriousWakeup, Goto, mainVars
  <1>8. CASE PollFirst
    <2>1. queue # <<>> => Head(queue) = queue[1]
      OBVIOUS
    <2>2. QED
      BY <1>8, <2>1 DEF PollFirst, mainVars
  <1>9. CASE PollUnlink
    <2>1. /\ queuePc = "unlink" /\ queuePc' = "readSize"
          /\ UNCHANGED <<pushed, mainPc, event, delivered>>
          /\ queue # <<>>
          /\ queue' = <<>> \/ queue' = Tail(queue)
      BY <1>9 DEF PollUnlink, mainVars
    <2>2. \A j \in 1..Len(queue') : j + 1 \in 1..Len(queue) /\ queue'[j] = queue[j + 1]
      <3>1. CASE queue' = <<>>
        BY <3>1, EmptySeq
      <3>2. CASE queue' = Tail(queue)
        <4>1. /\ Len(queue') = Len(queue) - 1
              /\ \A j \in 1..Len(queue') : queue'[j] = queue[j + 1]
          BY <2>1, <3>2, HeadTailProperties
        <4>2. Len(queue) \in Nat
          OBVIOUS
        <4>3. QED BY <4>1, <4>2
      <3>3. QED BY <2>1, <3>1, <3>2
    <2>3. Len(queue) \in Nat /\ Len(queue) >= 1 /\ Len(queue') \in Nat
      BY <2>1, EmptySeq, HeadTailProperties
    <2>4. \A i, j \in 1..Len(queue') : i < j => queue'[i] < queue'[j]
      <3> SUFFICES ASSUME NEW i \in 1..Len(queue'), NEW j \in 1..Len(queue'), i < j
                   PROVE  queue'[i] < queue'[j]
        OBVIOUS
      <3>1. i + 1 \in 1..Len(queue) /\ j + 1 \in 1..Len(queue) /\ i + 1 < j + 1
        BY <2>2
      <3>2. queue[i + 1] < queue[j + 1]
        BY <3>1
      <3>3. QED BY <2>2, <3>2
    <2>5. \A j \in 1..Len(queue') : event < queue'[j] /\ Older(queue'[j])
      <3> SUFFICES ASSUME NEW j \in 1..Len(queue')
                   PROVE  event < queue'[j] /\ Older(queue'[j])
        OBVIOUS
      <3>1. j + 1 \in 1..Len(queue) /\ 1 \in 1..Len(queue) /\ 1 < j + 1
        BY <2>2, <2>3
      <3>2. queue[1] < queue[j + 1] /\ Older(queue[j + 1])
        BY <3>1
      <3>3. event = queue[1]
        BY <2>1
      <3>4. QED BY <2>2, <3>2, <3>3
    <2>6. \A i \in 1..Len(delivered), j \in 1..Len(queue') : delivered[i] < queue'[j]
      BY <2>2, <2>3
    <2>7. Older(event) /\ \A i \in 1..Len(delivered) : delivered[i] < event
      <3>1. 1 \in 1..Len(queue) /\ event = queue[1]
        BY <2>1, <2>3
      <3>2. Older(queue[1]) /\ \A i \in 1..Len(delivered) : delivered[i] < queue[1]
        BY <3>1
      <3>3. QED BY <3>1, <3>2
    <2>8. QED
      BY <2>1, <2>4, <2>5, <2>6, <2>7
  <1>10. CASE PollReadSize \/ PollWriteSize
    BY <1>10 DEF PollReadSize, PollWriteSize, mainVars
  <1>11. CASE Dispatch
    <2>1. /\ queuePc = "dispatch" /\ queuePc' = "loop" /\ event \in 1..MaxPush
          /\ UNCHANGED <<queue, pushed, mainPc>>
          /\ delivered' = Append(delivered, event)
      BY <1>11 DEF Dispatch, mainVars
    <2>2. /\ Len(delivered') = Len(delivered) + 1
          /\ \A i \in 1..Len(delivered) : delivered'[i] = delivered[i]
          /\ delivered'[Len(delivered) + 1] = event
      BY <2>1, AppendProperties
    <2>3. Len(delivered) \in Nat
      OBVIOUS
    <2>4. QED
      BY <2>1, <2>2, <2>3
  <1>12. QED
    BY <1>1, <1>2, <1>3, <1>4, <1>5, <1>6, <1>7, <1>8, <1>9, <1>10, <1>11
    DEF Next, MainStep, QueueStep

LEMMA AlwaysOrderInv == Spec => []OrderInv
  <1>1. Init => OrderInv
    BY EmptySeq DEF Init, OrderInv, Older, Holding
  <1>2. QED
    BY <1>1, AlwaysTypeInv, NextOrderInv, PTL DEF Spec

(* The list stays a FIFO under every interleaving of offer() and poll():   *)
(* no event is injected twice or before an older one.                      *)
THEOREM OrderKept == Spec => []InOrder
  <1>1. OrderInv => InOrder
    BY DEF OrderInv, InOrder
  <1>2. QED
    BY <1>1, AlwaysOrderInv, PTL

-----------------------------------------------------------------------------
(* The refinement of LossyFifo.  What run() holds and what is linked make  *)
(* up the events pending there.                                            *)
Pending == InFlight \o queue

LEMMA PendingHeld ==
    ASSUME TypeInv, queuePc \in {"readSize", "writeSize", "dispatch"}
    PROVE  /\ Pending = <<event>> \o queue
           /\ Pending # <<>> /\ Head(Pending) = event /\ Tail(Pending) = queue
  <1>1. Pending = <<event>> \o queue /\ queue \in Seq(1..MaxPush) /\ event \in 1..MaxPush
    BY DEF Pending, InFlight, TypeInv, TypeOK
  <1>2. QED BY <1>1

LEMMA PendingFree ==
    ASSUME TypeInv, queuePc \notin {"readSize", "writeSize", "dispatch"}
    PROVE  Pending = queue
  <1>1. Pending = <<>> \o queue /\ queue \in Seq(1..MaxPush)
    BY DEF Pending, InFlight, TypeInv, TypeOK
  <1>2. QED BY <1>1

LEMMA InitRefines == Init => Fifo!Init
  <1> SUFFICES ASSUME Init PROVE Fifo!Init
    OBVIOUS
  <1>1. InFlight \o queue = <<>>
    BY DEF Init, InFlight
  <1>2. QED BY <1>1 DEF Init, Fifo!Init

(* Each step of one of the two threads is one step of the lossy FIFO or    *)
(* leaves it unchanged.                                                    *)
LEMMA NextRefines ==
    TypeInv /\ TypeInv' /\ LateInv /\ OrderInv /\ [Next]_vars => [Fifo!Next]_(Fifo!vars)
  <1> SUFFICES ASSUME TypeInv, TypeInv', LateInv, OrderInv, [Next]_vars
               PROVE  Fifo!Next \/ UNCHANGED <<pushed, Pending, delivered, ~goon, late>>
    BY DEF Fifo!vars, Pending
  <1>0. /\ queue \in Seq(1..MaxPush) /\ queue' \in Seq(1..MaxPush)
        /\ queuePc \in {"unlink", "readSize", "writeSize", "dispatch"} => event \in 1..MaxPush
    BY DEF TypeInv, TypeOK
  <1>1. CASE UNCHANGED vars
    BY <1>1 DEF vars, mainVars, queueVars, Pending, InFlight
  <1>2. CASE PushMotionEvent
    <2>1. UNCHANGED <<queue, queueVars, goon>> /\ pushed' = pushed + 1
      BY <1>2 DEF PushMotionEvent
    <2>2. QED BY <2>1 DEF Fifo!Next, Fifo!Push, queueVars, InFlight
  <1>3. CASE OfferLink
    <2>1. UNCHANGED <<queueVars, goon, pushed>> /\ pushed \in 1..MaxPush
      BY <1>3, MaxPushAssumption DEF OfferLink, TypeInv, TypeOK
    <2>2. CASE queue' = queue
      BY <2>1, <2>2 DEF queueVars, Pending, InFlight
    <2>3. CASE queue' = Append(queue, pushed)
      <3>1. InFlight' = InFlight
        BY <2>1 DEF queueVars, InFlight
      <3>2. InFlight \in Seq(1..MaxPush)
        <4>1. CASE InFlight = <<>>
          BY <4>1
        <4>2. CASE InFlight # <<>>
          <5>1. event \in 1..MaxPush /\ InFlight = <<event>>
            BY <1>0, <4>2 DEF InFlight
          <5>2. QED BY <5>1
        <4>3. QED BY <4>1, <4>2
      <3>3. InFlight \o Append(queue, pushed) = Append(InFlight \o queue, pushed)
        BY <1>0, <2>1, <3>2
      <3>4. (InFlight \o queue)' = Append(InFlight \o queue, pushed)
        BY <2>3, <3>1, <3>3
      <3>5. \A i \in 1..Len(delivered) : delivered[i] < pushed
        BY <1>3 DEF OfferLink, OrderInv, Older
      <3>6. \A i \in 1..Len(InFlight \o queue) : (InFlight \o queue)[i] < pushed
        <4>1. \A j \in 1..Len(queue) : queue[j] < pushed
          BY <1>3 DEF OfferLink, OrderInv, Older
        <4>2. CASE queuePc \in {"readSize", "writeSize", "dispatch"}
          <5>1. event < pushed /\ event \in 1..MaxPush
            BY <1>0, <1>3, <4>2 DEF OfferLink, OrderInv, Older, Holding
          <5>2. InFlight \o queue = <<event>> \o queue
            BY <4>2 DEF InFlight
          <5>3. \A i \in 1..Len(<<event>> \o queue) :
                  (<<event>> \o queue)[i] = IF i = 1 THEN event ELSE queue[i - 1]
            BY <1>0, <5>1
          <5>4. Len(<<event>> \o queue) = Len(queue) + 1 /\ Len(queue) \in Nat
            BY <1>0, <5>1
          <5>5. QED BY <4>1, <5>1, <5>2, <5>3, <5>4
        <4>3. CASE queuePc \notin {"readSize", "writeSize", "dispatch"}
          <5>1. InFlight \o queue = queue
            BY <4>3, PendingFree DEF Pending
          <5>2. QED BY <4>1, <5>1
        <4>4. QED BY <4>2, <4>3
      <3>7. pushed > 0
        BY <2>1
      <3>8. QED BY <2>1, <3>4, <3>5, <3>6, <3>7 DEF Fifo!Next, Fifo!Accept, queueVars
    <2>4. QED BY <1>3, <2>2, <2>3 DEF OfferLink
  <1>4. CASE OfferReadSize \/ OfferWriteSize \/ OfferNotify
    BY <1>4 DEF OfferReadSize, OfferWriteSize, OfferNotify, queueVars, Pending, InFlight
  <1>5. CASE StopThread
    <2>1. UNCHANGED <<queue, queueVars, mainVars>> /\ goon' = FALSE
      BY <1>5 DEF StopThread
    <2>2. QED BY <2>1 DEF Fifo!Next, Fifo!Stop, queueVars, mainVars, InFlight
  <1>6. CASE TestGoon \/ TestEmpty \/ Wait \/ Recheck \/ SpuriousWakeup \/ PollFirst
    <2>1. /\ UNCHANGED <<queue, pushed, delivered, goon, late>>
          /\ queuePc \notin {"readSize", "writeSize", "dispatch"}
          /\ queuePc' \notin {"readSize", "writeSize", "dispatch"}
      BY <1>6 DEF TestGoon, TestEmpty, Wait, Recheck, SpuriousWakeup, PollFirst, Goto, mainVars
    <2>2. UNCHANGED Pending
      BY <2>1 DEF Pending, InFlight
    <2>3. QED BY <2>1, <2>2
  <1>7. CASE PollUnlink
    <2>1. /\ queuePc = "unlink" /\ queuePc' = "readSize" /\ queue # <<>> /\ event = queue[1]
          /\ UNCHANGED <<pushed, delivered, goon, late, event>>
          /\ queue' = <<>> \/ queue' = Tail(queue)
      BY <1>7 DEF PollUnlink, mainVars, TypeInv, OrderInv
    <2>2. Pending = queue
      BY <2>1, PendingFree
    <2>3. Pending' = <<event>> \o queue'
      BY <2>1 DEF Pending, InFlight
    <2>4. CASE queue' = Tail(queue)
      <3>1. <<queue[1]>> \o Tail(queue) = queue
        BY <1>0, <2>1
      <3>2. QED BY <2>1, <2>2, <2>3, <2>4, <3>1
    <2>5. CASE queue' = <<>>
      <3>1. <<event>> \o <<>> = SubSeq(queue, 1, 1) /\ 1 \in 0..Len(queue)
        BY <1>0, <2>1
      <3>2. (InFlight \o queue)' = SubSeq(InFlight \o queue, 1, 1)
            /\ 1 \in 0..Len(InFlight \o queue)
        BY <2>2, <2>3, <2>5, <3>1 DEF Pending
      <3>3. QED BY <2>1, <3>2 DEF Fifo!Next, Fifo!Lose
    <2>6. QED BY <2>1, <2>4, <2>5
  <1>8. CASE PollReadSize \/ PollWriteSize
    BY <1>8 DEF PollReadSize, PollWriteSize, mainVars, Pending, InFlight
  <1>9. CASE Dispatch
    <2>1. /\ queuePc = "dispatch" /\ queuePc' = "loop"
          /\ UNCHANGED <<queue, pushed, goon>>
          /\ delivered' = Append(delivered, event)
          /\ late' = IF goon THEN late ELSE late + 1
      BY <1>9 DEF Dispatch, mainVars
    <2>2. Pending # <<>> /\ Head(Pending) = event /\ Tail(Pending) = queue
      BY <2>1, PendingHeld
    <2>3. Pending' = queue
      BY <1>0, <2>1 DEF Pending, InFlight
    <2>4. late = 0
      BY <2>1 DEF LateInv
    <2>5. QED BY <2>1, <2>2, <2>3, <2>4 DEF Fifo!Next, Fifo!Deliver, Pending
  <1>10. QED
    BY <1>1, <1>2, <1>3, <1>4, <1>5, <1>6, <1>7, <1>8, <1>9 DEF Next, MainStep, QueueStep

(* The two threads and their unsynchronized list implement the lossy FIFO. *)
THEOREM Refinement == Spec => ImplementsLossyFifo
  BY InitRefines, NextRefines, AlwaysTypeInv, AlwaysLateInv, AlwaysOrderInv, PTL
  DEF Spec, ImplementsLossyFifo, Fifo!Spec
=============================================================================
