----------------------- MODULE ControllerService_proof -----------------------
(***************************************************************************)
(* Theorems of ControllerService for any number of starts, touches and     *)
(* queued events: what the main looper leads the service to, and that only *)
(* a stop that cuts off work can end the process with a window.            *)
(*                                                                         *)
(* What the looper still holds is a Plan: read in order, its messages take *)
(* the service from the phase it is in now to the phase the system has     *)
(* asked for.  The system sends messages only in pairs and triples that    *)
(* continue a plan, the looper takes them from the front, and flips change *)
(* nothing; when only flips are left, the two phases are the same one.     *)
(***************************************************************************)
EXTENDS ControllerService, TLAPS

(***************************************************************************)
(* Plans                                                                   *)
(***************************************************************************)
Messages == [what : {"create", "start", "restart", "destroy", "flip"}, gen : 0..MaxStarts]

Phases == {"off", "fresh", "on"}

Leads(what, p, q) ==
    \/ what = "create" /\ p = "off" /\ q = "fresh"
    \/ what \in {"start", "restart"} /\ p = "fresh" /\ q = "on"
    \/ what = "destroy" /\ p = "on" /\ q = "off"
    \/ what = "flip" /\ p = q

AddsStart(what) == IF what = "start" THEN 1 ELSE 0

AllFlips(l, i) == \A k \in i+1 .. Len(l) : l[k].what = "flip"

(* The phase after each message, from now to then.                         *)
PhasesOf(l, now, then, phase) ==
    /\ phase[0] = now /\ phase[Len(l)] = then
    /\ \A i \in 1..Len(l) : Leads(l[i].what, phase[i - 1], phase[i])
    /\ \A i \in 0..Len(l) : AllFlips(l, i) => phase[i] = then

(* The number of starts after each message, from done to due.              *)
StartsOf(l, done, due, count) ==
    /\ count[0] = done /\ count[Len(l)] = due
    /\ \A i \in 1..Len(l) : count[i] = count[i - 1] + AddsStart(l[i].what)
    /\ \A i, j \in 0..Len(l) : i <= j => count[i] <= count[j]

Plan(l, now, then) == \E phase \in [0..Len(l) -> Phases] : PhasesOf(l, now, then, phase)

Room(l, done, due) == \E count \in [0..Len(l) -> Nat] : StartsOf(l, done, due, count)

LEMMA NoPlan ==
    ASSUME NEW p \in Phases
    PROVE  Plan(<<>>, p, p)
<1> DEFINE phase == [i \in 0..0 |-> p]
<1>1. phase \in [0..Len(<<>>) -> Phases] /\ PhasesOf(<<>>, p, p, phase)
  BY DEF PhasesOf
<1> QED BY <1>1 DEF Plan

LEMMA PlanSend ==
    ASSUME NEW l \in Seq(Messages), NEW x \in Messages, NEW now, NEW then, NEW next \in Phases,
           Plan(l, now, then), Leads(x.what, then, next)
    PROVE  Plan(Append(l, x), now, next)
<1>1. PICK phase \in [0..Len(l) -> Phases] : PhasesOf(l, now, then, phase)
  BY DEF Plan
<1> DEFINE n == Len(l) + 1
           longer == [i \in 0..n |-> IF i = n THEN next ELSE phase[i]]
           m == Append(l, x)
<1>2. /\ n \in Nat /\ Len(m) = n /\ m[n] = x
      /\ \A i \in 1..Len(l) : m[i] = l[i] /\ i # n /\ i \in 1..n
  OBVIOUS
<1>3. longer \in [0..Len(m) -> Phases]
  BY <1>2
<1>4. longer[0] = now /\ longer[Len(m)] = next
  BY <1>1, <1>2 DEF PhasesOf
<1>5. ASSUME NEW i \in 1..Len(m)
      PROVE  Leads(m[i].what, longer[i - 1], longer[i])
  <2>1. CASE i = n
    <3>1. longer[i - 1] = then /\ longer[i] = next
      BY <1>1, <1>2, <2>1 DEF PhasesOf
    <3> QED BY <1>2, <2>1, <3>1
  <2>2. CASE i \in 1..Len(l)
    <3>1. longer[i - 1] = phase[i - 1] /\ longer[i] = phase[i] /\ m[i] = l[i]
      BY <1>2, <2>2
    <3> QED BY <1>1, <2>2, <3>1 DEF PhasesOf
  <2> QED BY <1>2, <2>1, <2>2
<1>6. ASSUME NEW i \in 0..Len(m), AllFlips(m, i)
      PROVE  longer[i] = next
  <2>1. CASE i = n
    BY <1>2, <2>1
  <2>2. CASE i \in 0..Len(l)
    <3>1. \A k \in i+1 .. Len(m) : m[k].what = "flip"
      BY <1>6 DEF AllFlips
    <3>2. x.what = "flip"
      BY <1>2, <2>2, <3>1
    <3>3. AllFlips(l, i)
      BY <1>2, <2>2, <3>1 DEF AllFlips
    <3>4. phase[i] = then
      BY <1>1, <2>2, <3>3 DEF PhasesOf
    <3> QED BY <1>2, <2>2, <3>2, <3>4 DEF Leads
  <2> QED BY <1>2, <2>1, <2>2
<1> QED BY <1>3, <1>4, <1>5, <1>6 DEF Plan, PhasesOf

LEMMA PlanTake ==
    ASSUME NEW l \in Seq(Messages), l # <<>>, NEW now, NEW then, Plan(l, now, then)
    PROVE  \E next \in Phases : Leads(Head(l).what, now, next) /\ Plan(Tail(l), next, then)
<1>1. PICK phase \in [0..Len(l) -> Phases] : PhasesOf(l, now, then, phase)
  BY DEF Plan
<1> DEFINE n == Len(l) - 1
           m == Tail(l)
           later == [i \in 0..n |-> phase[i + 1]]
<1>2. /\ n \in Nat /\ Len(l) = n + 1 /\ Len(m) = n /\ Head(l) = l[1]
      /\ \A i \in 1..n : m[i] = l[i + 1]
  OBVIOUS
<1>3. phase[1] \in Phases /\ Leads(Head(l).what, now, phase[1])
  BY <1>1, <1>2 DEF PhasesOf
<1>4. later \in [0..Len(m) -> Phases]
  BY <1>2
<1>5. later[0] = phase[1] /\ later[Len(m)] = then
  BY <1>1, <1>2 DEF PhasesOf
<1>6. ASSUME NEW i \in 1..Len(m)
      PROVE  Leads(m[i].what, later[i - 1], later[i])
  <2>1. later[i - 1] = phase[i] /\ later[i] = phase[i + 1] /\ m[i] = l[i + 1]
    BY <1>2
  <2>2. i + 1 \in 1..Len(l) /\ (i + 1) - 1 = i
    BY <1>2
  <2> QED BY <1>1, <2>1, <2>2 DEF PhasesOf
<1>7. ASSUME NEW i \in 0..Len(m), AllFlips(m, i)
      PROVE  later[i] = then
  <2>1. AllFlips(l, i + 1)
    <3> SUFFICES ASSUME NEW k \in (i + 1) + 1 .. Len(l) PROVE l[k].what = "flip"
      BY DEF AllFlips
    <3>1. k - 1 \in i + 1 .. Len(m) /\ k - 1 \in 1..n /\ (k - 1) + 1 = k
      BY <1>2
    <3> QED BY <1>2, <1>7, <3>1 DEF AllFlips
  <2>2. i + 1 \in 0..Len(l)
    BY <1>2
  <2>3. phase[i + 1] = then
    BY <1>1, <2>1, <2>2 DEF PhasesOf
  <2> QED BY <1>2, <2>3
<1>8. PhasesOf(m, phase[1], then, later)
  BY <1>5, <1>6, <1>7 DEF PhasesOf
<1>9. Plan(m, phase[1], then)
  BY <1>4, <1>8 DEF Plan
<1> QED BY <1>3, <1>9

LEMMA PlanFlips ==
    ASSUME NEW l \in Seq(Messages), NEW now, NEW then, Plan(l, now, then),
           \A i \in DOMAIN l : l[i].what = "flip"
    PROVE  now = then
<1>1. PICK phase \in [0..Len(l) -> Phases] : PhasesOf(l, now, then, phase)
  BY DEF Plan
<1>2. 0 \in 0..Len(l) /\ AllFlips(l, 0)
  BY DEF AllFlips
<1> QED BY <1>1, <1>2 DEF PhasesOf

LEMMA NoRoom ==
    ASSUME NEW n \in Nat
    PROVE  Room(<<>>, n, n)
<1> DEFINE count == [i \in 0..0 |-> n]
<1>1. count \in [0..Len(<<>>) -> Nat] /\ StartsOf(<<>>, n, n, count)
  BY DEF StartsOf
<1> QED BY <1>1 DEF Room

LEMMA RoomSend ==
    ASSUME NEW l \in Seq(Messages), NEW x \in Messages, NEW done, NEW due, Room(l, done, due)
    PROVE  Room(Append(l, x), done, due + AddsStart(x.what))
<1>1. PICK count \in [0..Len(l) -> Nat] : StartsOf(l, done, due, count)
  BY DEF Room
<1> DEFINE n == Len(l) + 1
           one == AddsStart(x.what)
           longer == [i \in 0..n |-> IF i = n THEN due + one ELSE count[i]]
           m == Append(l, x)
<1>2. /\ n \in Nat /\ Len(m) = n /\ m[n] = x
      /\ \A i \in 1..Len(l) : m[i] = l[i] /\ i # n /\ i \in 1..n
  OBVIOUS
<1>3. one \in Nat /\ due \in Nat
  BY <1>1 DEF AddsStart, StartsOf
<1>4. longer \in [0..Len(m) -> Nat]
  BY <1>2, <1>3
<1>5. longer[0] = done /\ longer[Len(m)] = due + one
  BY <1>1, <1>2 DEF StartsOf
<1>6. ASSUME NEW i \in 1..Len(m)
      PROVE  longer[i] = longer[i - 1] + AddsStart(m[i].what)
  <2>1. CASE i = n
    <3>1. longer[i - 1] = due /\ longer[i] = due + one
      BY <1>1, <1>2, <2>1 DEF StartsOf
    <3> QED BY <1>2, <2>1, <3>1
  <2>2. CASE i \in 1..Len(l)
    <3>1. longer[i - 1] = count[i - 1] /\ longer[i] = count[i] /\ m[i] = l[i]
      BY <1>2, <2>2
    <3> QED BY <1>1, <2>2, <3>1 DEF StartsOf
  <2> QED BY <1>2, <2>1, <2>2
<1>7. ASSUME NEW i \in 0..Len(m), NEW j \in 0..Len(m), i <= j
      PROVE  longer[i] <= longer[j]
  <2>1. CASE j \in 0..Len(l)
    <3>1. i \in 0..Len(l) /\ longer[i] = count[i] /\ longer[j] = count[j]
      BY <1>2, <1>7, <2>1
    <3> QED BY <1>1, <1>7, <2>1, <3>1 DEF StartsOf
  <2>2. CASE j = n /\ i \in 0..Len(l)
    <3>1. longer[i] = count[i] /\ longer[j] = due + one /\ count[i] \in Nat
      BY <1>2, <2>2
    <3>2. count[i] <= due
      BY <1>1, <2>2 DEF StartsOf
    <3> QED BY <1>3, <3>1, <3>2
  <2>3. CASE i = n /\ j = n
    BY <1>3, <2>3
  <2> QED BY <1>2, <1>7, <2>1, <2>2, <2>3
<1> QED BY <1>4, <1>5, <1>6, <1>7 DEF Room, StartsOf

LEMMA RoomTake ==
    ASSUME NEW l \in Seq(Messages), l # <<>>, NEW done, NEW due, Room(l, done, due)
    PROVE  Room(Tail(l), done + AddsStart(Head(l).what), due)
<1>1. PICK count \in [0..Len(l) -> Nat] : StartsOf(l, done, due, count)
  BY DEF Room
<1> DEFINE n == Len(l) - 1
           m == Tail(l)
           later == [i \in 0..n |-> count[i + 1]]
<1>2. /\ n \in Nat /\ Len(l) = n + 1 /\ Len(m) = n /\ Head(l) = l[1]
      /\ \A i \in 1..n : m[i] = l[i + 1]
  OBVIOUS
<1>3. later \in [0..Len(m) -> Nat]
  BY <1>2
<1>4. later[0] = done + AddsStart(Head(l).what) /\ later[Len(m)] = due
  BY <1>1, <1>2 DEF StartsOf
<1>5. ASSUME NEW i \in 1..Len(m)
      PROVE  later[i] = later[i - 1] + AddsStart(m[i].what)
  <2>1. later[i - 1] = count[i] /\ later[i] = count[i + 1] /\ m[i] = l[i + 1]
    BY <1>2
  <2>2. i + 1 \in 1..Len(l) /\ (i + 1) - 1 = i
    BY <1>2
  <2> QED BY <1>1, <2>1, <2>2 DEF StartsOf
<1>6. ASSUME NEW i \in 0..Len(m), NEW j \in 0..Len(m), i <= j
      PROVE  later[i] <= later[j]
  <2>1. i + 1 \in 0..Len(l) /\ j + 1 \in 0..Len(l) /\ i + 1 <= j + 1
    BY <1>2, <1>6
  <2>2. later[i] = count[i + 1] /\ later[j] = count[j + 1]
    BY <1>2
  <2> QED BY <1>1, <2>1, <2>2 DEF StartsOf
<1> QED BY <1>3, <1>4, <1>5, <1>6 DEF Room, StartsOf

LEMMA RoomBound ==
    ASSUME NEW l \in Seq(Messages), NEW done, NEW due, Room(l, done, due)
    PROVE  /\ done \in Nat /\ due \in Nat /\ done <= due
           /\ (\E i \in DOMAIN l : l[i].what = "start") => done + 1 <= due
<1>1. PICK count \in [0..Len(l) -> Nat] : StartsOf(l, done, due, count)
  BY DEF Room
<1>2. Len(l) \in Nat /\ 0 \in 0..Len(l) /\ Len(l) \in 0..Len(l)
  OBVIOUS
<1>3. done \in Nat /\ due \in Nat /\ done <= due
  BY <1>1, <1>2 DEF StartsOf
<1>4. ASSUME NEW i \in DOMAIN l, l[i].what = "start"
      PROVE  done + 1 <= due
  <2>1. i \in 1..Len(l) /\ i - 1 \in 0..Len(l) /\ i \in 0..Len(l)
    OBVIOUS
  <2>2. count[i] = count[i - 1] + 1
    BY <1>1, <1>4, <2>1 DEF StartsOf, AddsStart
  <2>3. done <= count[i - 1] /\ count[i] <= due
    BY <1>1, <1>2, <2>1 DEF StartsOf
  <2>4. count[i - 1] \in Nat
    BY <2>1
  <2> QED BY <1>3, <2>2, <2>3, <2>4
<1> QED BY <1>3, <1>4

(***************************************************************************)
(* The inductive invariant                                                 *)
(***************************************************************************)
FlagsTyped ==
    /\ started \in BOOLEAN /\ up \in BOOLEAN /\ dirty \in BOOLEAN
    /\ owed \in {"start", "restart"}
    /\ lastDeath \in {"none", "killed", "null intent", "window"}

CountersTyped ==
    requests \in 0..MaxStarts /\ starts \in 0..requests /\ touches \in 0..MaxTouches

LooperTyped ==
    /\ looper \in Seq(Messages)
    /\ \A i \in DOMAIN looper : looper[i].what = "flip" => looper[i].gen \in Gens

ServiceTyped ==
    /\ service \in [mouse : 0..starts, button : 0..starts]
    /\ instance \in 0..starts
    /\ mouseOf \in [Gens -> 0..starts]
    /\ mouseOn \subseteq 1..starts /\ buttonOn \subseteq 1..starts
    /\ goon \subseteq Gens /\ sampler \subseteq 1..starts

Pcs == {"none", "while", "round", "wait", "waiting", "woken", "exited"}
Callbacks == {"none", "down", "downAndUp", "move", "up", "flip", "key"}

ButtonTyped ==
    /\ thread \in [Gens -> Pcs]
    /\ queue \in [Gens -> Seq({"event", "flip"})]
    /\ pending \in [Gens -> Callbacks]
    /\ finger \in 0..MaxStarts

Typed == FlagsTyped /\ CountersTyped /\ LooperTyped /\ ServiceTyped /\ ButtonTyped

Shown(S) == mouseOn = S /\ buttonOn = S /\ goon = S

(* What is on the screen in a phase of the service.                        *)
NowIn(p) ==
    /\ p = "on" => /\ starts \in Gens
                   /\ Shown({starts})
                   /\ service = [mouse |-> starts, button |-> starts]
                   /\ mouseOf[starts] = starts
    /\ p # "on" => Shown({})
    /\ p = "fresh" => service = NoService

Final == IF started THEN "on" ELSE "off"

(* What the looper holds leads from what is shown to what was asked for.   *)
OnItsWay == up => \E p \in Phases : NowIn(p) /\ Plan(looper, p, Final)

(* No start is made that was not requested.                                *)
Requested == up => \E due \in 0..requests : Room(looper, starts, due)

(* Without its process nothing of the service is left.                     *)
Asleep ==
    ~up => /\ looper = <<>> /\ service = NoService /\ Shown({})
           /\ finger = 0 /\ sampler = {}
           /\ \A g \in Gens : pending[g] = "none" /\ queue[g] = <<>> /\ thread[g] = "none"
           /\ owed = "start" => starts + 1 <= requests

(* Work is left for a button on the screen only, until a stop cuts it off. *)
Covered ==
    /\ up => lastDeath = "none"
    /\ up /\ ~dirty => \A g \in Gens : WorkLeft(g) => g \in buttonOn
    /\ lastDeath = "window" => dirty

IInv == Typed /\ OnItsWay /\ Requested /\ Asleep /\ Covered

LEMMA Bounds == MaxStarts \in Nat /\ MaxTouches \in Nat /\ Gens \subseteq Nat
  BY ServiceAssumption DEF Gens

LEMMA NothingSent ==
    ASSUME NEW S
    PROVE  <<>> \in Seq(S) /\ DOMAIN <<>> = {} /\ {<<>>[i] : i \in DOMAIN <<>>} = {}
  OBVIOUS

LEMMA InitInv == Init => IInv
<1> SUFFICES ASSUME Init PROVE IInv
  OBVIOUS
<1>1. FlagsTyped
  BY DEF Init, FlagsTyped
<1>1b. CountersTyped
  BY Bounds DEF Init, CountersTyped
<1>2. LooperTyped
  BY DEF Init, LooperTyped, Messages
<1>3. ServiceTyped
  BY DEF Init, ServiceTyped, NoService
<1>4. ButtonTyped
  BY Bounds DEF Init, ButtonTyped, Pcs, Callbacks
<1>5. OnItsWay /\ Requested /\ Asleep /\ Covered
  BY DEF Init, OnItsWay, Requested, Asleep, Covered, Shown, NoService
<1> QED BY <1>1, <1>1b, <1>2, <1>3, <1>4, <1>5 DEF IInv, Typed

LEMMA MessageTyped ==
    ASSUME NEW what \in {"create", "start", "restart", "destroy"}
    PROVE  Message(what) \in Messages /\ Message(what).what = what
  BY ServiceAssumption DEF Message, Messages

(* A message behind the others.                                            *)
LEMMA SendTyped ==
    ASSUME NEW l \in Seq(Messages), NEW x \in Messages,
           \A i \in DOMAIN l : l[i].what = "flip" => l[i].gen \in Gens,
           x.what = "flip" => x.gen \in Gens
    PROVE  /\ Append(l, x) \in Seq(Messages)
           /\ \A i \in DOMAIN Append(l, x) :
                  Append(l, x)[i].what = "flip" => Append(l, x)[i].gen \in Gens
<1>1. Len(Append(l, x)) = Len(l) + 1 /\ Append(l, x)[Len(l) + 1] = x
  OBVIOUS
<1>2. \A i \in DOMAIN Append(l, x) : i = Len(l) + 1 \/ (i \in DOMAIN l /\ Append(l, x)[i] = l[i])
  OBVIOUS
<1> QED BY <1>1, <1>2

LEMMA TakeTyped ==
    ASSUME NEW l \in Seq(Messages), l # <<>>,
           \A i \in DOMAIN l : l[i].what = "flip" => l[i].gen \in Gens
    PROVE  /\ Head(l) \in Messages /\ Tail(l) \in Seq(Messages)
           /\ Head(l).what = "flip" => Head(l).gen \in Gens
           /\ \A i \in DOMAIN Tail(l) : Tail(l)[i].what = "flip" => Tail(l)[i].gen \in Gens
           /\ \A i \in DOMAIN Tail(l) : \E j \in DOMAIN l : Tail(l)[i] = l[j]
<1>1. Head(l) = l[1] /\ 1 \in DOMAIN l /\ Tail(l) \in Seq(Messages)
  OBVIOUS
<1>2. \A i \in DOMAIN Tail(l) : i + 1 \in DOMAIN l /\ Tail(l)[i] = l[i + 1]
  OBVIOUS
<1> QED BY <1>1, <1>2

(***************************************************************************)
(* The process ends                                                        *)
(***************************************************************************)
LEMMA ResetTyped ==
    ASSUME CountersTyped, starts' = starts,
           service' = NoService, instance' = 0, mouseOf' = [g \in Gens |-> 0],
           mouseOn' = {}, buttonOn' = {}, goon' = {}, sampler' = {},
           thread' = [g \in Gens |-> "none"],
           queue' = [g \in Gens |-> <<>>],
           pending' = [g \in Gens |-> "none"],
           finger' = 0
    PROVE  ServiceTyped' /\ ButtonTyped'
<1>1. starts \in Nat /\ 0 \in 0..starts /\ 0 \in 0..MaxStarts
  BY Bounds DEF CountersTyped
<1>2. ServiceTyped'
  BY <1>1 DEF ServiceTyped, NoService
<1>3. ButtonTyped'
  BY <1>1 DEF ButtonTyped, Pcs, Callbacks
<1> QED BY <1>2, <1>3

(* A start that has been sent and not been seen fits under the bound.      *)
LEMMA UnseenStart ==
    ASSUME Typed, NEW due \in 0..requests, Room(looper, starts, due),
           \E i \in DOMAIN looper : looper[i].what = "start"
    PROVE  starts + 1 <= requests
<1>1. starts + 1 <= due
  BY RoomBound DEF Typed, LooperTyped
<1>2. due \in Nat /\ requests \in Nat /\ starts \in Nat /\ due <= requests
  BY Bounds DEF Typed, CountersTyped
<1> QED BY <1>1, <1>2

LEMMA DieKeeps ==
    ASSUME IInv, up, NEW cause \in {"killed", "null intent", "window"}, Die(cause),
           cause = "window" => dirty
    PROVE  IInv'
<1>1. FlagsTyped'
  BY DEF IInv, Typed, FlagsTyped, Die
<1>2. CountersTyped'
  <2>1. UNCHANGED <<requests, starts, touches>>
    BY DEF Die
  <2> QED BY <2>1 DEF IInv, Typed, CountersTyped
<1>3. LooperTyped'
  <2>1. looper' = <<>>
    BY DEF Die
  <2> QED BY <2>1, NothingSent DEF LooperTyped
<1>4. ServiceTyped' /\ ButtonTyped'
  BY ResetTyped DEF Die, IInv, Typed
<1>5. OnItsWay' /\ Requested'
  BY DEF Die, OnItsWay, Requested
<1>6. owed' = "start" => starts + 1 <= requests
  <2>1. PICK due \in 0..requests : Room(looper, starts, due)
    BY DEF IInv, Requested
  <2>2. owed' = "start" => \E i \in DOMAIN looper : looper[i].what = "start"
    BY DEF Die
  <2> QED BY <2>1, <2>2, UnseenStart DEF IInv
<1>7. Asleep'
  <2>1. UNCHANGED <<starts, requests>>
    BY DEF Die
  <2> QED BY <1>6, <2>1 DEF Asleep, Die, Shown
<1>8. Covered'
  BY DEF IInv, Covered, Die
<1> QED BY <1>1, <1>2, <1>3, <1>4, <1>5, <1>7, <1>8 DEF IInv, Typed

(***************************************************************************)
(* The system: starts, stops and restarts                                  *)
(***************************************************************************)
PostedIn(l, g) == FlipMessage(g) \in {l[i] : i \in DOMAIN l}

LEMMA SendPosts ==
    ASSUME NEW l \in Seq(Messages), NEW x \in Messages, NEW g
    PROVE  PostedIn(Append(l, x), g) => PostedIn(l, g) \/ x = FlipMessage(g)
<1>1. \A i \in DOMAIN Append(l, x) :
          Append(l, x)[i] = x \/ (i \in DOMAIN l /\ Append(l, x)[i] = l[i])
  OBVIOUS
<1> QED BY <1>1 DEF PostedIn

LEMMA TakePosts ==
    ASSUME NEW l \in Seq(Messages), l # <<>>, NEW g
    PROVE  PostedIn(Tail(l), g) => PostedIn(l, g)
<1>1. \A i \in DOMAIN Tail(l) : i + 1 \in DOMAIN l /\ Tail(l)[i] = l[i + 1]
  OBVIOUS
<1> QED BY <1>1 DEF PostedIn

(* What the system sends is not a flip.                                    *)
LEMMA SystemSends ==
    ASSUME NEW l \in Seq(Messages), NEW what \in {"create", "start", "restart", "destroy"},
           \A i \in DOMAIN l : l[i].what = "flip" => l[i].gen \in Gens
    PROVE  LET m == Append(l, Message(what)) IN
           /\ m \in Seq(Messages)
           /\ \A i \in DOMAIN m : m[i].what = "flip" => m[i].gen \in Gens
           /\ \A g \in Gens : PostedIn(m, g) => PostedIn(l, g)
<1>1. Message(what) \in Messages /\ Message(what).what # "flip"
  BY MessageTyped
<1>2. \A g \in Gens : Message(what) # FlipMessage(g)
  BY DEF Message, FlipMessage
<1> QED BY <1>1, <1>2, SendTyped, SendPosts

(* A service that is to be stopped, whatever it is doing now.              *)
LEMMA Stopped ==
    ASSUME IInv
    PROVE  /\ StopSent \in Seq(Messages)
           /\ \A i \in DOMAIN StopSent : StopSent[i].what = "flip" => StopSent[i].gen \in Gens
           /\ \A g \in Gens : PostedIn(StopSent, g) => PostedIn(looper, g)
           /\ \E p \in Phases : NowIn(p) /\ Plan(StopSent, p, "off")
           /\ \E due \in 0..requests : Room(StopSent, starts, due)
<1>1. /\ looper \in Seq(Messages)
      /\ \A i \in DOMAIN looper : looper[i].what = "flip" => looper[i].gen \in Gens
  BY DEF IInv, Typed, LooperTyped
<1>2. CASE up /\ started
  <2>1. StopSent = Append(looper, Message("destroy"))
    BY <1>2 DEF StopSent
  <2>2. PICK p \in Phases : NowIn(p) /\ Plan(looper, p, "on")
    BY <1>2 DEF IInv, OnItsWay, Final
  <2>3. Plan(StopSent, p, "off")
    BY <1>1, <2>1, <2>2, PlanSend, MessageTyped DEF Leads, Phases
  <2>4. PICK due \in 0..requests : Room(looper, starts, due)
    BY <1>2 DEF IInv, Requested
  <2>5. Room(StopSent, starts, due + 0)
    BY <1>1, <2>1, <2>4, RoomSend, MessageTyped DEF AddsStart
  <2>6. due + 0 = due
    BY Bounds, <2>4 DEF IInv, Typed, CountersTyped
  <2> QED BY <1>1, <2>1, <2>2, <2>3, <2>5, <2>6, SystemSends
<1>3. CASE up /\ ~started
  <2>1. StopSent = looper
    BY <1>3 DEF StopSent
  <2>2. \E p \in Phases : NowIn(p) /\ Plan(looper, p, "off")
    BY <1>3 DEF IInv, OnItsWay, Final
  <2>3. \E due \in 0..requests : Room(looper, starts, due)
    BY <1>3 DEF IInv, Requested
  <2> QED BY <1>1, <2>1, <2>2, <2>3
<1>4. CASE ~up
  <2>1. StopSent = <<>> /\ looper = <<>>
    BY <1>4 DEF StopSent, IInv, Asleep
  <2>2. NowIn("off") /\ "off" \in Phases
    BY <1>4 DEF IInv, Asleep, NowIn, Phases
  <2>3. Plan(StopSent, "off", "off")
    BY <2>1, <2>2, NoPlan
  <2>4. starts \in Nat /\ starts \in 0..requests
    BY Bounds DEF IInv, Typed, CountersTyped
  <2>5. Room(StopSent, starts, starts)
    BY <2>1, <2>4, NoRoom
  <2> QED BY <1>1, <2>1, <2>2, <2>3, <2>4, <2>5
<1> QED BY <1>2, <1>3, <1>4 DEF IInv, Typed, CountersTyped

LEMMA TwoMore ==
    ASSUME NEW l \in Seq(Messages), NEW x \in Messages, NEW y \in Messages
    PROVE  l \o <<x, y>> = Append(Append(l, x), y)
  OBVIOUS

LEMMA StartScreenKeeps ==
    ASSUME IInv, StartScreen
    PROVE  IInv'
<1> DEFINE created == Append(StopSent, Message("create"))
           sent == Append(created, Message("start"))
<1>1. /\ StopSent \in Seq(Messages)
      /\ \A i \in DOMAIN StopSent : StopSent[i].what = "flip" => StopSent[i].gen \in Gens
      /\ \A g \in Gens : PostedIn(StopSent, g) => PostedIn(looper, g)
  BY Stopped
<1>2. Message("create") \in Messages /\ Message("create").what = "create"
  BY MessageTyped
<1>3. Message("start") \in Messages /\ Message("start").what = "start"
  BY MessageTyped
<1>4. /\ created \in Seq(Messages)
      /\ \A i \in DOMAIN created : created[i].what = "flip" => created[i].gen \in Gens
      /\ \A g \in Gens : PostedIn(created, g) => PostedIn(looper, g)
  BY <1>1, SystemSends
<1>5. /\ sent \in Seq(Messages)
      /\ \A i \in DOMAIN sent : sent[i].what = "flip" => sent[i].gen \in Gens
      /\ \A g \in Gens : PostedIn(sent, g) => PostedIn(looper, g)
  <2> HIDE DEF created
  <2> QED BY <1>4, SystemSends
<1>6. looper' = sent
  BY <1>1, <1>2, <1>3, TwoMore DEF StartScreen, StartMessages, StartSent
<1>7. FlagsTyped'
  BY DEF IInv, Typed, FlagsTyped, StartScreen, objects
<1>7b. CountersTyped'
  <2>1. requests < MaxStarts /\ requests' = requests + 1 /\ UNCHANGED <<starts, touches>>
    BY DEF StartScreen, objects, touch
  <2>2. /\ requests \in Nat /\ starts \in Nat /\ starts <= requests
        /\ touches \in 0..MaxTouches
    BY Bounds DEF IInv, Typed, CountersTyped
  <2> QED BY <2>1, <2>2, Bounds DEF CountersTyped
<1>8. LooperTyped'
  <2> HIDE DEF sent
  <2> QED BY <1>5, <1>6 DEF LooperTyped
<1>9. ServiceTyped' /\ ButtonTyped'
  BY DEF IInv, Typed, ServiceTyped, ButtonTyped, StartScreen, objects, windows, queues, touch
<1>10. OnItsWay'
  <2>1. PICK p \in Phases : NowIn(p) /\ Plan(StopSent, p, "off")
    BY Stopped
  <2>2. Plan(created, p, "fresh")
    BY <1>1, <1>2, <2>1, PlanSend DEF Leads, Phases
  <2>3. Plan(sent, p, "on")
    <3> HIDE DEF created
    <3> QED BY <1>3, <1>4, <2>2, PlanSend DEF Leads, Phases
  <2>4. NowIn(p)' /\ Final' = "on"
    BY <2>1 DEF NowIn, Shown, Final, StartScreen, objects, windows, queues
  <2> HIDE DEF sent
  <2> QED BY <1>6, <2>3, <2>4 DEF OnItsWay
<1>11. Requested'
  <2>1. PICK due \in 0..requests : Room(StopSent, starts, due)
    BY Stopped
  <2>2. due \in Nat /\ requests \in Nat
    BY Bounds, <2>1 DEF IInv, Typed, CountersTyped
  <2>3. Room(created, starts, due + 0)
    BY <1>1, <1>2, <2>1, RoomSend DEF AddsStart
  <2>4. Room(created, starts, due)
    BY <2>2, <2>3
  <2>5. Room(sent, starts, due + 1)
    <3> HIDE DEF created
    <3> QED BY <1>3, <1>4, <2>4, RoomSend DEF AddsStart
  <2>6. due + 1 \in 0..requests' /\ starts' = starts
    BY <2>1, <2>2 DEF StartScreen, objects
  <2> HIDE DEF sent
  <2> QED BY <1>6, <2>5, <2>6 DEF Requested
<1>12. Asleep'
  BY DEF StartScreen, Asleep
<1>13. Covered'
  <2>1. \A g \in Gens : WorkLeft(g)' => WorkLeft(g)
    <3> HIDE DEF sent
    <3> QED BY <1>5, <1>6
            DEF WorkLeft, FlipPosted, PostedIn, FlipMessage, StartScreen, queues, touch
  <2>2. CASE up
    BY <2>1, <2>2 DEF IInv, Covered, StartScreen, windows, Typed, CountersTyped
  <2>3. CASE ~up
    <3>1. \A g \in Gens : ~WorkLeft(g)
      BY <2>3 DEF IInv, Asleep, WorkLeft, FlipPosted
    <3> QED BY <2>1, <2>3, <3>1 DEF IInv, Covered, StartScreen
  <2> QED BY <2>2, <2>3
<1> QED BY <1>7, <1>7b, <1>8, <1>9, <1>10, <1>11, <1>12, <1>13 DEF IInv, Typed

LEMMA StopScreenKeeps ==
    ASSUME IInv, StopScreen
    PROVE  IInv'
<1>1. looper' = StopSent
  BY DEF StopScreen
<1>2. FlagsTyped'
  BY DEF IInv, Typed, FlagsTyped, StopScreen, objects, touch, history
<1>2b. CountersTyped'
  BY Bounds DEF IInv, Typed, CountersTyped, StopScreen, objects, touch, history
<1>3. LooperTyped'
  BY <1>1, Stopped DEF LooperTyped
<1>4. ServiceTyped' /\ ButtonTyped'
  BY DEF IInv, Typed, ServiceTyped, ButtonTyped, StopScreen, objects, windows, queues, touch
<1>5. OnItsWay'
  <2>1. PICK p \in Phases : NowIn(p) /\ Plan(StopSent, p, "off")
    BY Stopped
  <2>2. NowIn(p)' /\ Final' = "off"
    BY <2>1 DEF NowIn, Shown, Final, StopScreen, objects, windows, queues
  <2> QED BY <1>1, <2>1, <2>2 DEF OnItsWay
<1>6. Requested'
  BY <1>1, Stopped DEF Requested, StopScreen, objects
<1>7. Asleep'
  BY DEF IInv, StopScreen, StopSent, Asleep, Shown, objects, windows, queues, touch
<1>8. Covered'
  <2>1. \A g \in Gens : WorkLeft(g)' => WorkLeft(g)
    BY <1>1, Stopped DEF WorkLeft, FlipPosted, PostedIn, FlipMessage, StopScreen, queues, touch
  <2> QED BY <2>1 DEF IInv, Covered, StopScreen, windows, history
<1> QED BY <1>2, <1>2b, <1>3, <1>4, <1>5, <1>6, <1>7, <1>8 DEF IInv, Typed

LEMMA RestartKeeps ==
    ASSUME IInv, Restart
    PROVE  IInv'
<1> DEFINE created == Append(<<>>, Message("create"))
           sent == Append(created, Message(owed))
<1>1. owed \in {"start", "restart"}
  BY DEF IInv, Typed, FlagsTyped
<1>1b. starts \in Nat /\ requests \in Nat /\ starts <= requests
  BY Bounds DEF IInv, Typed, CountersTyped
<1>2. /\ Message("create") \in Messages /\ Message("create").what = "create"
      /\ Message(owed) \in Messages /\ Message(owed).what = owed
  BY <1>1, MessageTyped
<1>3. <<>> \in Seq(Messages)
  OBVIOUS
<1>4. /\ created \in Seq(Messages)
      /\ \A i \in DOMAIN created : created[i].what = "flip" => created[i].gen \in Gens
      /\ \A g \in Gens : PostedIn(created, g) => PostedIn(<<>>, g)
  BY <1>3, NothingSent, SystemSends
<1>5. /\ sent \in Seq(Messages)
      /\ \A i \in DOMAIN sent : sent[i].what = "flip" => sent[i].gen \in Gens
      /\ \A g \in Gens : PostedIn(sent, g) => PostedIn(<<>>, g)
  <2> HIDE DEF created
  <2> QED BY <1>1, <1>4, SystemSends
<1>6. looper' = sent
  BY <1>2, <1>3, TwoMore DEF Restart
<1>7. FlagsTyped'
  BY DEF IInv, Typed, FlagsTyped, Restart, system, objects, touch
<1>7b. CountersTyped'
  BY Bounds DEF IInv, Typed, CountersTyped, Restart, system, objects, touch
<1>8. LooperTyped'
  <2> HIDE DEF sent
  <2> QED BY <1>5, <1>6 DEF LooperTyped
<1>9. ServiceTyped' /\ ButtonTyped'
  BY DEF IInv, Typed, ServiceTyped, ButtonTyped, Restart, objects, windows, queues, touch
<1>10. OnItsWay'
  <2>1. NowIn("off")' /\ "off" \in Phases
    BY DEF IInv, Asleep, NowIn, Shown, Restart, Phases, windows, queues
  <2>2. Plan(created, "off", "fresh")
    BY <1>2, <1>3, NoPlan, PlanSend DEF Leads, Phases
  <2>3. Plan(sent, "off", "on")
    <3> HIDE DEF created
    <3> QED BY <1>1, <1>2, <1>4, <2>2, PlanSend DEF Leads, Phases
  <2>4. Final' = "on"
    BY DEF Final, Restart, system
  <2> HIDE DEF sent
  <2> QED BY <1>6, <2>1, <2>3, <2>4 DEF OnItsWay
<1>11. Requested'
  <2>1. Room(created, starts, starts + 0)
    BY <1>1b, <1>2, <1>3, NoRoom, RoomSend DEF AddsStart
  <2>2. Room(created, starts, starts)
    BY <1>1b, <2>1
  <2>3. Room(sent, starts, starts + AddsStart(owed))
    <3> HIDE DEF created
    <3> QED BY <1>2, <1>4, <2>2, RoomSend
  <2>4. starts + AddsStart(owed) \in 0..requests /\ UNCHANGED <<starts, requests>>
    BY <1>1b DEF IInv, Asleep, AddsStart, Restart, system, objects
  <2> HIDE DEF sent
  <2> QED BY <1>6, <2>3, <2>4 DEF Requested
<1>12. Asleep'
  BY DEF Restart, Asleep
<1>13. Covered'
  <2>1. \A g \in Gens : ~PostedIn(sent, g)
    BY <1>5 DEF PostedIn
  <2>2. \A g \in Gens : ~WorkLeft(g)'
    <3> HIDE DEF sent
    <3> QED BY <1>6, <2>1
            DEF IInv, Asleep, WorkLeft, FlipPosted, PostedIn, FlipMessage, Restart, queues, touch
  <2> QED BY <2>2 DEF Covered, Restart
<1> QED BY <1>7, <1>7b, <1>8, <1>9, <1>10, <1>11, <1>12, <1>13 DEF IInv, Typed

LEMMA GiveUpKeeps ==
    ASSUME IInv, GiveUp
    PROVE  IInv'
<1>1. FlagsTyped' /\ CountersTyped'
  BY DEF IInv, Typed, FlagsTyped, CountersTyped, GiveUp, objects, touch, history
<1>1b. LooperTyped' /\ ServiceTyped' /\ ButtonTyped'
  BY DEF IInv, Typed, LooperTyped, ServiceTyped, ButtonTyped, GiveUp, objects, windows,
         queues, touch
<1>2. OnItsWay' /\ Requested'
  BY DEF GiveUp, OnItsWay, Requested
<1>3. Asleep'
  BY DEF IInv, GiveUp, Asleep, Shown, objects, windows, queues, touch
<1>4. Covered'
  BY DEF IInv, GiveUp, Covered, history
<1> QED BY <1>1, <1>1b, <1>2, <1>3, <1>4 DEF IInv, Typed

(***************************************************************************)
(* The main looper                                                         *)
(***************************************************************************)

(* The message in front takes the service from one phase to the next.      *)
LEMMA Front ==
    ASSUME IInv, up, looper # <<>>
    PROVE  /\ \E p, q \in Phases : /\ NowIn(p)
                                   /\ Leads(Head(looper).what, p, q)
                                   /\ Plan(Tail(looper), q, Final)
           /\ \E due \in 0..requests :
                  Room(Tail(looper), starts + AddsStart(Head(looper).what), due)
<1>1. looper \in Seq(Messages)
  BY DEF IInv, Typed, LooperTyped
<1>2. PICK p \in Phases : NowIn(p) /\ Plan(looper, p, Final)
  BY DEF IInv, OnItsWay
<1>3. PICK due \in 0..requests : Room(looper, starts, due)
  BY DEF IInv, Requested
<1> QED BY <1>1, <1>2, <1>3, PlanTake, RoomTake

LEMMA FrontTyped ==
    ASSUME IInv, looper # <<>>, looper' = Tail(looper)
    PROVE  /\ LooperTyped'
           /\ Head(looper) \in Messages
           /\ Head(looper).what = "flip" => Head(looper).gen \in Gens
           /\ \A g \in Gens : PostedIn(looper', g) => PostedIn(looper, g)
<1>1. /\ looper \in Seq(Messages)
      /\ \A i \in DOMAIN looper : looper[i].what = "flip" => looper[i].gen \in Gens
  BY DEF IInv, Typed, LooperTyped
<1> QED BY <1>1, TakeTyped, TakePosts DEF LooperTyped

(* Less posted is less work left.                                          *)
LEMMA LessWork ==
    ASSUME IInv, looper # <<>>, looper' = Tail(looper), UNCHANGED <<pending, queue>>
    PROVE  \A g \in Gens : WorkLeft(g)' => WorkLeft(g)
<1>1. \A g \in Gens : PostedIn(looper', g) => PostedIn(looper, g)
  BY FrontTyped
<1>2. \A g \in Gens : /\ FlipPosted(g) <=> PostedIn(looper, g)
                      /\ FlipPosted(g)' <=> PostedIn(looper', g)
  BY DEF FlipPosted, PostedIn, FlipMessage
<1> QED BY <1>1, <1>2 DEF WorkLeft

(* The service object is made, and begins with no managers.                *)
LEMMA OnCreateKeeps ==
    ASSUME IInv, OnCreate
    PROVE  IInv'
<1>1. up /\ looper # <<>> /\ Head(looper).what = "create" /\ looper' = Tail(looper)
  BY DEF OnCreate, NextMessage
<1>2. FlagsTyped' /\ CountersTyped'
  BY DEF IInv, Typed, FlagsTyped, CountersTyped, OnCreate, system, touch, history
<1>3. LooperTyped'
  BY <1>1, FrontTyped
<1>4. ServiceTyped' /\ ButtonTyped'
  <2>1. starts \in Nat /\ 0 \in 0..starts
    BY Bounds DEF IInv, Typed, CountersTyped
  <2> QED BY <2>1 DEF IInv, Typed, ServiceTyped, ButtonTyped, OnCreate, NoService, windows,
                      queues, touch
<1>5. OnItsWay'
  <2>1. PICK p, q \in Phases : /\ NowIn(p) /\ Leads("create", p, q)
                               /\ Plan(Tail(looper), q, Final)
    BY <1>1, Front
  <2>2. p = "off" /\ q = "fresh"
    BY <2>1 DEF Leads
  <2>3. NowIn(q)' /\ Final' = Final
    BY <2>1, <2>2 DEF NowIn, Shown, Final, OnCreate, system, windows, queues
  <2> QED BY <1>1, <2>1, <2>3 DEF OnItsWay
<1>6. Requested'
  <2>1. PICK due \in 0..requests : Room(Tail(looper), starts + 0, due)
    BY <1>1, Front DEF AddsStart
  <2>2. starts + 0 = starts /\ UNCHANGED <<starts, requests>>
    BY Bounds DEF IInv, Typed, CountersTyped, OnCreate, system
  <2> QED BY <1>1, <2>1, <2>2 DEF Requested
<1>7. Asleep'
  BY <1>1 DEF OnCreate, Asleep
<1>8. Covered'
  BY <1>1, LessWork DEF IInv, Covered, OnCreate, windows, queues, touch, history
<1> QED BY <1>2, <1>3, <1>4, <1>5, <1>6, <1>7, <1>8 DEF IInv, Typed

LEMMA OnStartCommandKeeps ==
    ASSUME IInv, OnStartCommand
    PROVE  IInv'
<1> DEFINE g == starts + 1
<1>1. up /\ looper # <<>> /\ Head(looper).what = "start" /\ looper' = Tail(looper)
  BY DEF OnStartCommand, NextMessage
<1>2. PICK p, q \in Phases : /\ NowIn(p) /\ Leads("start", p, q)
                             /\ Plan(Tail(looper), q, Final)
  BY <1>1, Front
<1>3. p = "fresh" /\ q = "on" /\ service = NoService /\ Shown({})
  BY <1>2 DEF Leads, NowIn
<1>4. PICK due \in 0..requests : Room(Tail(looper), g, due)
  BY <1>1, Front DEF AddsStart
<1>5. g \in 1..requests /\ g \in Gens /\ g \in Nat /\ starts \in Nat /\ requests \in Nat
  <2>1. Tail(looper) \in Seq(Messages)
    BY <1>1, FrontTyped DEF LooperTyped
  <2>2. g \in Nat /\ g <= due
    BY <1>4, <2>1, RoomBound
  <2>3. starts \in Nat /\ requests \in Nat /\ requests <= MaxStarts
    BY Bounds DEF IInv, Typed, CountersTyped
  <2> QED BY <1>4, <2>2, <2>3, Bounds DEF Gens
<1>6. /\ starts' = g /\ service' = [mouse |-> g, button |-> g] /\ instance' = g
      /\ mouseOf' = [mouseOf EXCEPT ![g] = g]
      /\ mouseOn' = {g} /\ buttonOn' = {g} /\ goon' = {g}
      /\ thread' = [thread EXCEPT ![g] = "while"]
      /\ sampler' = sampler \cup {g}
  BY <1>3 DEF OnStartCommand, MouseFor, NoService, Shown
<1>7. FlagsTyped'
  BY DEF IInv, Typed, FlagsTyped, OnStartCommand, system, history
<1>8. CountersTyped'
  <2>1. UNCHANGED <<requests, touches>>
    BY DEF OnStartCommand, system, touch
  <2> QED BY <1>5, <1>6, <2>1 DEF IInv, Typed, CountersTyped
<1>9. LooperTyped'
  BY <1>1, FrontTyped
<1>10. ServiceTyped'
  <2>1. 0..starts \subseteq 0..g /\ 1..starts \subseteq 1..g /\ g \in 0..g /\ g \in 1..g
    BY <1>5
  <2>2. sampler' \subseteq 1..g
    BY <1>6, <2>1 DEF IInv, Typed, ServiceTyped
  <2>3. mouseOf' \in [Gens -> 0..g]
    BY <1>5, <1>6, <2>1 DEF IInv, Typed, ServiceTyped
  <2> HIDE DEF g
  <2> QED BY <1>5, <1>6, <2>1, <2>2, <2>3 DEF ServiceTyped
<1>11. ButtonTyped'
  BY <1>5, <1>6 DEF IInv, Typed, ButtonTyped, OnStartCommand, touch, Pcs
<1>12. OnItsWay'
  <2>1. mouseOf'[g] = g
    BY <1>5, <1>6 DEF IInv, Typed, ServiceTyped
  <2>2. NowIn(q)' /\ Final' = Final
    BY <1>3, <1>5, <1>6, <2>1 DEF NowIn, Shown, Final, OnStartCommand, system
  <2> QED BY <1>1, <1>2, <2>2 DEF OnItsWay
<1>13. Requested'
  <2>1. UNCHANGED requests
    BY DEF OnStartCommand, system
  <2> QED BY <1>1, <1>4, <1>6, <2>1 DEF Requested
<1>14. Asleep'
  BY <1>1 DEF OnStartCommand, Asleep
<1>15. Covered'
  <2>1. \A h \in Gens : WorkLeft(h)' => WorkLeft(h)
    BY <1>1, LessWork DEF OnStartCommand, touch
  <2>2. up /\ ~dirty => \A h \in Gens : ~WorkLeft(h)
    BY <1>3 DEF IInv, Covered, Shown
  <2> QED BY <2>1, <2>2 DEF IInv, Covered, OnStartCommand, history
<1> QED BY <1>7, <1>8, <1>9, <1>10, <1>11, <1>12, <1>13, <1>14, <1>15 DEF IInv, Typed

LEMMA OnDestroyKeeps ==
    ASSUME IInv, OnDestroy
    PROVE  IInv'
<1>1. up /\ looper # <<>> /\ Head(looper).what = "destroy" /\ looper' = Tail(looper)
  BY DEF OnDestroy, NextMessage
<1>2. PICK p, q \in Phases : /\ NowIn(p) /\ Leads("destroy", p, q)
                             /\ Plan(Tail(looper), q, Final)
  BY <1>1, Front
<1>3. /\ p = "on" /\ q = "off" /\ Shown({starts}) /\ starts \in Gens
      /\ service = [mouse |-> starts, button |-> starts]
  BY <1>2 DEF Leads, NowIn
<1>4. mouseOn' = {} /\ buttonOn' = {} /\ goon' = {}
  BY <1>3 DEF OnDestroy, Shown
<1>5. dirty' = (dirty \/ WorkLeft(starts))
  BY <1>3 DEF OnDestroy
<1>6. FlagsTyped'
  <2>1. dirty' \in BOOLEAN
    BY <1>5 DEF IInv, Typed, FlagsTyped, WorkLeft, FlipPosted
  <2> QED BY <2>1 DEF IInv, Typed, FlagsTyped, OnDestroy, system
<1>7. CountersTyped'
  BY DEF IInv, Typed, CountersTyped, OnDestroy, system, objects, touch
<1>8. LooperTyped'
  BY <1>1, FrontTyped
<1>9. ServiceTyped' /\ ButtonTyped'
  BY <1>4 DEF IInv, Typed, ServiceTyped, ButtonTyped, OnDestroy, objects, touch
<1>10. OnItsWay'
  <2>1. NowIn(q)' /\ Final' = Final
    BY <1>3, <1>4 DEF NowIn, Shown, Final, OnDestroy, system
  <2> QED BY <1>1, <1>2, <2>1 DEF OnItsWay
<1>11. Requested'
  <2>1. PICK due \in 0..requests : Room(Tail(looper), starts + 0, due)
    BY <1>1, Front DEF AddsStart
  <2>2. starts + 0 = starts /\ UNCHANGED <<starts, requests>>
    BY Bounds DEF IInv, Typed, CountersTyped, OnDestroy, system, objects
  <2> QED BY <1>1, <2>1, <2>2 DEF Requested
<1>12. Asleep'
  BY <1>1 DEF OnDestroy, Asleep
<1>13. Covered'
  <2>1. \A g \in Gens : WorkLeft(g)' => WorkLeft(g)
    BY <1>1, LessWork DEF OnDestroy, touch
  <2>2. up /\ ~dirty' => \A g \in Gens : ~WorkLeft(g)
    BY <1>3, <1>5 DEF IInv, Covered, Shown
  <2> QED BY <1>5, <2>1, <2>2 DEF IInv, Covered, OnDestroy
<1> QED BY <1>6, <1>7, <1>8, <1>9, <1>10, <1>11, <1>12, <1>13 DEF IInv, Typed

LEMMA HandleFlipKeeps ==
    ASSUME IInv, HandleFlip
    PROVE  IInv'
<1>1. up /\ looper # <<>> /\ Head(looper).what = "flip"
  BY DEF HandleFlip, NextMessage
<1>2. CASE Head(looper).gen \in buttonOn
  <2>1. looper' = Tail(looper)
    BY <1>2 DEF HandleFlip
  <2>2. UNCHANGED <<system, up, objects, windows, queues, sampler, touch, history>>
    BY <1>2 DEF HandleFlip
  <2>3. FlagsTyped' /\ CountersTyped'
    BY <2>2 DEF IInv, Typed, FlagsTyped, CountersTyped, system, objects, touch, history
  <2>4. LooperTyped'
    BY <1>1, <2>1, FrontTyped
  <2>5. ServiceTyped' /\ ButtonTyped'
    BY <2>2 DEF IInv, Typed, ServiceTyped, ButtonTyped, objects, windows, queues, touch
  <2>6. OnItsWay'
    <3>1. PICK p, q \in Phases : /\ NowIn(p) /\ Leads("flip", p, q)
                                 /\ Plan(Tail(looper), q, Final)
      BY <1>1, Front
    <3>2. p = q
      BY <3>1 DEF Leads
    <3>3. NowIn(p)' /\ Final' = Final
      BY <2>2, <3>1 DEF NowIn, Shown, Final, system, objects, windows, queues
    <3> QED BY <2>1, <3>1, <3>2, <3>3 DEF OnItsWay
  <2>7. Requested'
    <3>1. PICK due \in 0..requests : Room(Tail(looper), starts + 0, due)
      BY <1>1, Front DEF AddsStart
    <3>2. starts + 0 = starts /\ UNCHANGED <<starts, requests>>
      BY <2>2, Bounds DEF IInv, Typed, CountersTyped, system, objects
    <3> QED BY <2>1, <3>1, <3>2 DEF Requested
  <2>8. Asleep'
    BY <1>1, <2>2 DEF Asleep
  <2>9. Covered'
    BY <1>1, <2>1, <2>2, LessWork DEF IInv, Covered, windows, queues, touch, history
  <2> QED BY <2>3, <2>4, <2>5, <2>6, <2>7, <2>8, <2>9 DEF IInv, Typed
<1>3. CASE Head(looper).gen \notin buttonOn
  <2>1. Die("window")
    BY <1>3 DEF HandleFlip
  <2>2. /\ looper \in Seq(Messages)
        /\ \A i \in DOMAIN looper : looper[i].what = "flip" => looper[i].gen \in Gens
    BY DEF IInv, Typed, LooperTyped
  <2>3. Head(looper) = looper[1] /\ 1 \in DOMAIN looper
    BY <1>1, <2>2
  <2>4. Head(looper).gen \in Gens /\ Head(looper) \in Messages
    BY <1>1, <2>2, <2>3
  <2>5. Head(looper) = FlipMessage(Head(looper).gen)
    BY <1>1, <2>4 DEF Messages, FlipMessage
  <2>6. WorkLeft(Head(looper).gen)
    BY <2>3, <2>5 DEF WorkLeft, FlipPosted
  <2>7. dirty
    BY <1>1, <1>3, <2>4, <2>6 DEF IInv, Covered
  <2> QED BY <1>1, <2>1, <2>7, DieKeeps
<1> QED BY <1>2, <1>3

LEMMA MainLooperKeeps ==
    ASSUME IInv, MainLooper
    PROVE  IInv'
<1>1. OnStartCommandNull => IInv'
  BY DieKeeps DEF OnStartCommandNull, NextMessage
<1> QED BY <1>1, OnCreateKeeps, OnStartCommandKeeps, OnDestroyKeeps, HandleFlipKeeps
        DEF MainLooper

(***************************************************************************)
(* The button, its callback and its threads                                *)
(***************************************************************************)
LEMMA Awake ==
    ASSUME IInv, NEW g \in Gens,
           \/ g \in buttonOn \/ finger = g \/ g \in sampler
           \/ pending[g] # "none" \/ queue[g] # <<>> \/ thread[g] # "none"
    PROVE  up
<1>1. g # 0
  BY DEF Gens
<1> QED BY <1>1 DEF IInv, Asleep, Shown

(* Steps that leave the service and its looper alone.                      *)
Beside ==
    /\ UNCHANGED <<system, up, objects, windows, goon, looper, history>>
    /\ sampler' \subseteq sampler

LEMMA BesideKeeps ==
    ASSUME IInv, up, Beside, ButtonTyped', touches' \in 0..MaxTouches,
           ~dirty => \A g \in Gens : WorkLeft(g)' => g \in buttonOn
    PROVE  IInv'
<1>1. FlagsTyped'
  BY DEF IInv, Typed, FlagsTyped, Beside, system, history
<1>2. CountersTyped'
  BY DEF IInv, Typed, CountersTyped, Beside, system, objects
<1>3. LooperTyped'
  BY DEF IInv, Typed, LooperTyped, Beside
<1>4. ServiceTyped'
  BY DEF IInv, Typed, ServiceTyped, Beside, objects, windows
<1>5. OnItsWay' /\ Requested'
  <2>1. \A p \in Phases : NowIn(p) => NowIn(p)'
    BY DEF NowIn, Shown, Beside, objects, windows
  <2>2. Final' = Final
    BY DEF Final, Beside, system
  <2> QED BY <2>1, <2>2 DEF IInv, OnItsWay, Requested, Beside, system, objects
<1>6. Asleep'
  BY DEF Beside, Asleep
<1>7. Covered'
  BY DEF IInv, Covered, Beside, windows, history
<1> QED BY <1>1, <1>2, <1>3, <1>4, <1>5, <1>6, <1>7 DEF IInv, Typed

LEMMA PressKeeps ==
    ASSUME IInv, NEW g \in Gens, Press(g)
    PROVE  IInv'
<1>1. up
  BY Awake DEF Press
<1>2. Beside
  BY DEF Press, Beside, windows, queues
<1>3. ButtonTyped'
  BY DEF IInv, Typed, ButtonTyped, Press, Becomes, queues, Callbacks, Gens
<1>4. touches' \in 0..MaxTouches
  BY Bounds DEF IInv, Typed, CountersTyped, Press
<1>5. ~dirty => \A h \in Gens : WorkLeft(h)' => h \in buttonOn
  <2>1. \A h \in Gens \ {g} : WorkLeft(h)' <=> WorkLeft(h)
    BY DEF IInv, Typed, ButtonTyped, WorkLeft, FlipPosted, FlipMessage, Press, Becomes, queues
  <2> QED BY <1>1, <2>1 DEF IInv, Covered, Press
<1> QED BY <1>1, <1>2, <1>3, <1>4, <1>5, BesideKeeps

LEMMA DragKeeps ==
    ASSUME IInv, NEW g \in Gens, Drag(g)
    PROVE  IInv'
<1>1. up
  BY Awake DEF Drag
<1>2. Beside
  BY DEF Drag, Beside, windows, queues
<1>3. ButtonTyped'
  BY DEF IInv, Typed, ButtonTyped, Drag, Becomes, queues, Callbacks
<1>4. touches' \in 0..MaxTouches
  BY DEF IInv, Typed, CountersTyped, Drag
<1>5. ~dirty => \A h \in Gens : WorkLeft(h)' => h \in buttonOn
  <2>1. \A h \in Gens \ {g} : WorkLeft(h)' <=> WorkLeft(h)
    BY DEF IInv, Typed, ButtonTyped, WorkLeft, FlipPosted, FlipMessage, Drag, Becomes, queues
  <2> QED BY <1>1, <2>1 DEF IInv, Covered, Drag
<1> QED BY <1>1, <1>2, <1>3, <1>4, <1>5, BesideKeeps

LEMMA ReleaseKeeps ==
    ASSUME IInv, NEW g \in Gens, Release(g)
    PROVE  IInv'
<1>1. up
  BY Awake DEF Release
<1>2. Beside
  BY DEF Release, Beside, windows, queues
<1>3. \/ pending' = pending
      \/ \E what \in {"downAndUp", "up"} : pending' = [pending EXCEPT ![g] = what]
  BY DEF Release, Becomes
<1>4. ButtonTyped'
  <2>1. 0 \in 0..MaxStarts
    BY Bounds
  <2>2. pending' \in [Gens -> Callbacks]
    BY <1>3 DEF IInv, Typed, ButtonTyped, Callbacks
  <2> QED BY <2>1, <2>2 DEF IInv, Typed, ButtonTyped, Release, queues
<1>5. touches' \in 0..MaxTouches
  BY DEF IInv, Typed, CountersTyped, Release
<1>6. ~dirty => \A h \in Gens : WorkLeft(h)' => h \in buttonOn
  <2>1. \A h \in Gens : pending'[h] \in {"down", "flip"} => pending[h] \in {"down", "flip"}
    BY <1>3 DEF IInv, Typed, ButtonTyped
  <2>2. \A h \in Gens : WorkLeft(h)' => WorkLeft(h)
    BY <2>1 DEF WorkLeft, FlipPosted, FlipMessage, Release, queues
  <2> QED BY <1>1, <2>2 DEF IInv, Covered
<1> QED BY <1>1, <1>2, <1>4, <1>5, <1>6, BesideKeeps

(* What is pushed is in the queue, behind what was.                        *)
LEMMA Pushed ==
    ASSUME ButtonTyped, NEW g \in Gens, NEW events \in Seq({"event", "flip"}), Push(g, events)
    PROVE  /\ queue' \in [Gens -> Seq({"event", "flip"})] /\ thread' \in [Gens -> Pcs]
           /\ \A h \in Gens \ {g} : queue'[h] = queue[h]
           /\ \A i \in DOMAIN queue'[g] : \/ \E j \in DOMAIN queue[g] : queue'[g][i] = queue[g][j]
                                          \/ \E j \in DOMAIN events : queue'[g][i] = events[j]
<1>1. queue[g] \in Seq({"event", "flip"})
  BY DEF ButtonTyped
<1>2. queue' = [queue EXCEPT ![g] = queue[g] \o events]
  BY DEF Push
<1>3. queue[g] \o events \in Seq({"event", "flip"})
  BY <1>1
<1>4. queue' \in [Gens -> Seq({"event", "flip"})]
  BY <1>2, <1>3 DEF ButtonTyped
<1>5. thread' \in [Gens -> Pcs]
  BY DEF Push, ButtonTyped, Pcs
<1>6. \A h \in Gens \ {g} : queue'[h] = queue[h]
  BY <1>2 DEF ButtonTyped
<1>7. queue'[g] = queue[g] \o events
  BY <1>2 DEF ButtonTyped
<1>8. ASSUME NEW i \in DOMAIN (queue[g] \o events)
      PROVE  \/ \E j \in DOMAIN queue[g] : (queue[g] \o events)[i] = queue[g][j]
             \/ \E j \in DOMAIN events : (queue[g] \o events)[i] = events[j]
  <2>1. CASE i \in 1..Len(queue[g])
    BY <1>1, <2>1
  <2>2. CASE i \notin 1..Len(queue[g])
    <3>1. i - Len(queue[g]) \in DOMAIN events
      BY <1>1, <2>2
    <3>2. (queue[g] \o events)[i] = events[i - Len(queue[g])]
      BY <1>1, <2>2
    <3> QED BY <3>1, <3>2
  <2> QED BY <2>1, <2>2
<1> QED BY <1>4, <1>5, <1>6, <1>7, <1>8

(* Pushing leaves work only where the callback was work already.           *)
LEMMA PushKeeps ==
    ASSUME IInv, NEW g \in Gens, NEW events \in Seq({"event", "flip"}), Push(g, events),
           pending[g] # "none", pending' \in [Gens -> Callbacks],
           \A h \in Gens \ {g} : pending'[h] = pending[h],
           pending'[g] \in {"move", "none"},
           \A i \in DOMAIN events : events[i] = "flip" => pending[g] = "flip",
           UNCHANGED <<system, up, looper, objects, windows, sampler, finger, touches, history>>
    PROVE  IInv'
<1>1. up
  BY Awake
<1>2. Beside
  BY DEF Beside, windows, Push
<1>3. ButtonTyped
  BY DEF IInv, Typed
<1>4. ButtonTyped'
  BY <1>3, Pushed DEF ButtonTyped
<1>5. touches' \in 0..MaxTouches
  BY DEF IInv, Typed, CountersTyped
<1>6. ASSUME NEW h \in Gens, WorkLeft(h)'
      PROVE  WorkLeft(h)
  <2>1. CASE pending'[h] \in {"down", "flip"}
    BY <2>1 DEF WorkLeft
  <2>2. CASE FlipPosted(h)'
    BY <2>2 DEF WorkLeft, FlipPosted, FlipMessage
  <2>3. CASE "flip" \in {queue'[h][i] : i \in DOMAIN queue'[h]}
    <3>1. CASE h = g
      <4>1. PICK i \in DOMAIN queue'[g] : queue'[g][i] = "flip"
        BY <2>3, <3>1
      <4>2. CASE \E j \in DOMAIN queue[g] : queue'[g][i] = queue[g][j]
        BY <3>1, <4>1, <4>2 DEF WorkLeft
      <4>3. CASE \E j \in DOMAIN events : queue'[g][i] = events[j]
        BY <3>1, <4>1, <4>3 DEF WorkLeft
      <4> QED BY <1>3, <4>2, <4>3, Pushed
    <3>2. CASE h # g
      BY <1>3, <2>3, <3>2, Pushed DEF WorkLeft
    <3> QED BY <3>1, <3>2
  <2> QED BY <1>6, <2>1, <2>2, <2>3 DEF WorkLeft
<1> QED BY <1>1, <1>2, <1>4, <1>5, <1>6, BesideKeeps DEF IInv, Covered

LEMMA RunDownKeeps ==
    ASSUME IInv, NEW g \in Gens, RunDown(g)
    PROVE  IInv'
<1>1. pending[g] = "down"
  BY DEF RunDown
<1>2. up
  BY <1>1, Awake
<1>3. CASE mouseOf[g] \in mouseOn
  <2>1. /\ Push(g, <<"event">>) /\ Becomes(g, "move")
        /\ UNCHANGED <<system, up, looper, objects, windows, sampler, finger, touches, history>>
    BY <1>3 DEF RunDown
  <2>2. /\ pending' \in [Gens -> Callbacks] /\ pending'[g] = "move"
        /\ \A h \in Gens \ {g} : pending'[h] = pending[h]
    BY <2>1 DEF Becomes, IInv, Typed, ButtonTyped, Callbacks
  <2>3. /\ <<"event">> \in Seq({"event", "flip"})
        /\ \A i \in DOMAIN <<"event">> : <<"event">>[i] # "flip"
    OBVIOUS
  <2> QED BY <1>1, <2>1, <2>2, <2>3, PushKeeps
<1>4. CASE mouseOf[g] \notin mouseOn
  <2>1. Die("window")
    BY <1>4 DEF RunDown
  <2>2. WorkLeft(g)
    BY <1>1 DEF WorkLeft
  <2>3. g \in buttonOn => mouseOf[g] \in mouseOn
    BY <1>2 DEF IInv, OnItsWay, NowIn, Shown
  <2>4. dirty
    BY <1>2, <1>4, <2>2, <2>3 DEF IInv, Covered
  <2> QED BY <1>2, <2>1, <2>4, DieKeeps
<1> QED BY <1>3, <1>4

LEMMA RunMoveKeeps ==
    ASSUME IInv, NEW g \in Gens, RunMove(g)
    PROVE  IInv'
<1>1. /\ pending[g] = "move" /\ Push(g, <<"event">>)
      /\ UNCHANGED <<system, up, looper, objects, windows, sampler, pending, finger, touches,
                     history>>
  BY DEF RunMove, touch
<1>2. pending' \in [Gens -> Callbacks]
  BY <1>1 DEF IInv, Typed, ButtonTyped
<1>3. /\ <<"event">> \in Seq({"event", "flip"})
      /\ \A i \in DOMAIN <<"event">> : <<"event">>[i] # "flip"
  OBVIOUS
<1> QED BY <1>1, <1>2, <1>3, PushKeeps

LEMMA LastPushKeeps ==
    ASSUME IInv, NEW g \in Gens, LastPush(g)
    PROVE  IInv'
<1>1. pending[g] \in {"up", "downAndUp", "flip", "key"}
  BY DEF LastPush
<1>2. /\ pending' \in [Gens -> Callbacks] /\ pending'[g] = "none"
      /\ \A h \in Gens \ {g} : pending'[h] = pending[h]
  BY DEF LastPush, Becomes, IInv, Typed, ButtonTyped, Callbacks
<1>3. UNCHANGED <<system, up, looper, objects, windows, sampler, finger, touches, history>>
  BY DEF LastPush
<1>4. CASE UNCHANGED queues
  <2>1. up
    BY <1>1, Awake
  <2>2. Beside
    BY <1>3, <1>4 DEF Beside, queues, windows
  <2>3. ButtonTyped'
    BY <1>2, <1>3, <1>4 DEF IInv, Typed, ButtonTyped, queues
  <2>4. touches' \in 0..MaxTouches
    BY <1>3 DEF IInv, Typed, CountersTyped
  <2>5. \A h \in Gens : WorkLeft(h)' => WorkLeft(h)
    BY <1>2, <1>3, <1>4 DEF WorkLeft, FlipPosted, FlipMessage, queues
  <2> QED BY <2>1, <2>2, <2>3, <2>4, <2>5, BesideKeeps DEF IInv, Covered
<1>5. ASSUME NEW events \in {<<"event">>, <<"event", "event">>, <<"flip">>}, Push(g, events),
             events = <<"flip">> => pending[g] = "flip"
      PROVE  IInv'
  <2>1. events \in Seq({"event", "flip"})
    <3>1. /\ <<"event">> \in Seq({"event", "flip"}) /\ <<"flip">> \in Seq({"event", "flip"})
          /\ <<"event", "event">> \in Seq({"event", "flip"})
      OBVIOUS
    <3> QED BY <1>5, <3>1
  <2>2. \A i \in DOMAIN events : events[i] = "flip" => events = <<"flip">>
    BY <1>5
  <2> QED BY <1>1, <1>2, <1>3, <1>5, <2>1, <2>2, PushKeeps
<1>6. \/ UNCHANGED queues
      \/ \E events \in {<<"event">>, <<"event", "event">>, <<"flip">>} :
             Push(g, events) /\ (events = <<"flip">> => pending[g] = "flip")
  <2>1. <<"flip">> # <<"event">> /\ <<"flip">> # <<"event", "event">>
    OBVIOUS
  <2> QED BY <1>1, <2>1 DEF LastPush
<1> QED BY <1>4, <1>5, <1>6

LEMMA GoesToKeeps ==
    ASSUME IInv, NEW g \in Gens, NEW pc \in Pcs, thread[g] # "none", GoesTo(g, pc)
    PROVE  IInv'
<1>1. up
  BY Awake
<1>2. Beside
  BY DEF Beside, GoesTo, windows
<1>3. ButtonTyped'
  BY DEF IInv, Typed, ButtonTyped, GoesTo, touch
<1>4. touches' \in 0..MaxTouches
  BY DEF IInv, Typed, CountersTyped, GoesTo, touch
<1>5. \A h \in Gens : WorkLeft(h)' => WorkLeft(h)
  BY DEF WorkLeft, FlipPosted, FlipMessage, GoesTo, touch
<1> QED BY <1>1, <1>2, <1>3, <1>4, <1>5, BesideKeeps DEF IInv, Covered

LEMMA FinalizeKeeps ==
    ASSUME IInv, NEW g \in Gens, Finalize(g)
    PROVE  IInv'
<1>1. up
  BY Awake DEF Finalize
<1>2. Beside
  BY DEF Beside, Finalize, windows, queues
<1>3. ButtonTyped'
  BY DEF IInv, Typed, ButtonTyped, Finalize, queues, touch
<1>4. touches' \in 0..MaxTouches
  BY DEF IInv, Typed, CountersTyped, Finalize, touch
<1>5. \A h \in Gens : WorkLeft(h)' => WorkLeft(h)
  BY DEF WorkLeft, FlipPosted, FlipMessage, Finalize, queues, touch
<1> QED BY <1>1, <1>2, <1>3, <1>4, <1>5, BesideKeeps DEF IInv, Covered

(* A flip goes from the queue to the main looper: work that was left       *)
(* before.                                                                 *)
LEMMA DispatchKeeps ==
    ASSUME IInv, NEW g \in Gens, Dispatch(g)
    PROVE  IInv'
<1> DEFINE flip == FlipMessage(g)
<1>1. queue[g] # <<>> /\ queue[g] \in Seq({"event", "flip"}) /\ up
  BY Awake DEF Dispatch, IInv, Typed, ButtonTyped
<1>2. /\ queue' = [queue EXCEPT ![g] = Tail(queue[g])]
      /\ Tail(queue[g]) \in Seq({"event", "flip"})
      /\ \A i \in DOMAIN Tail(queue[g]) : \E j \in DOMAIN queue[g] :
             Tail(queue[g])[i] = queue[g][j]
  <2>1. queue' = [queue EXCEPT ![g] = Tail(queue[g])]
    BY DEF Dispatch
  <2>2. Tail(queue[g]) \in Seq({"event", "flip"})
    BY <1>1
  <2>3. \A i \in DOMAIN Tail(queue[g]) : i + 1 \in DOMAIN queue[g]
                                         /\ Tail(queue[g])[i] = queue[g][i + 1]
    BY <1>1
  <2> QED BY <2>1, <2>2, <2>3
<1>3. /\ looper \in Seq(Messages)
      /\ \A i \in DOMAIN looper : looper[i].what = "flip" => looper[i].gen \in Gens
  BY DEF IInv, Typed, LooperTyped
<1>4. flip \in Messages /\ flip.what = "flip" /\ flip.gen = g
  BY Bounds DEF FlipMessage, Messages, Gens
<1>5. looper' = looper \/ (looper' = Append(looper, flip) /\ queue[g][1] = "flip")
  BY <1>1 DEF Dispatch
<1>6. /\ looper' \in Seq(Messages)
      /\ \A i \in DOMAIN looper' : looper'[i].what = "flip" => looper'[i].gen \in Gens
      /\ \A h \in Gens : PostedIn(looper', h) =>
             PostedIn(looper, h) \/ (FlipMessage(h) = flip /\ queue[g][1] = "flip")
  <2>1. CASE looper' = looper
    BY <1>3, <2>1
  <2>2. CASE looper' = Append(looper, flip) /\ queue[g][1] = "flip"
    BY <1>3, <1>4, <2>2, SendTyped, SendPosts
  <2> QED BY <1>5, <2>1, <2>2
<1>7. FlagsTyped' /\ CountersTyped'
  BY DEF IInv, Typed, FlagsTyped, CountersTyped, Dispatch, system, objects, touch, history
<1>8. LooperTyped'
  BY <1>6 DEF LooperTyped
<1>9. ServiceTyped'
  BY DEF IInv, Typed, ServiceTyped, Dispatch, objects, windows
<1>10. ButtonTyped'
  BY <1>2 DEF IInv, Typed, ButtonTyped, Dispatch, touch, Pcs
<1>11. OnItsWay'
  <2>1. PICK p \in Phases : NowIn(p) /\ Plan(looper, p, Final)
    BY <1>1 DEF IInv, OnItsWay
  <2>2. Final \in Phases /\ Leads("flip", Final, Final)
    BY DEF Final, Phases, Leads
  <2>3. Plan(looper', p, Final)
    BY <1>3, <1>4, <1>5, <2>1, <2>2, PlanSend
  <2>4. NowIn(p)' /\ Final' = Final
    BY <2>1 DEF NowIn, Shown, Final, Dispatch, system, objects, windows
  <2> QED BY <2>3, <2>4 DEF OnItsWay
<1>12. Requested'
  <2>1. PICK due \in 0..requests : Room(looper, starts, due)
    BY <1>1 DEF IInv, Requested
  <2>2. Room(Append(looper, flip), starts, due + 0)
    <3>1. AddsStart(flip.what) = 0
      BY <1>4 DEF AddsStart
    <3>2. Room(Append(looper, flip), starts, due + AddsStart(flip.what))
      BY <1>3, <1>4, <2>1, RoomSend
    <3> QED BY <3>1, <3>2
  <2>3. due + 0 = due
    BY Bounds, <2>1 DEF IInv, Typed, CountersTyped
  <2>4. Room(looper', starts, due)
    BY <1>5, <2>1, <2>2, <2>3
  <2>5. UNCHANGED <<starts, requests>>
    BY DEF Dispatch, system, objects
  <2> QED BY <2>1, <2>4, <2>5 DEF Requested
<1>13. Asleep'
  BY <1>1 DEF Dispatch, Asleep
<1>14. ASSUME NEW h \in Gens, WorkLeft(h)'
       PROVE  WorkLeft(h)
  <2>1. 1 \in DOMAIN queue[g]
    BY <1>1
  <2>2. CASE pending'[h] \in {"down", "flip"}
    BY <2>2 DEF WorkLeft, Dispatch, touch
  <2>3. CASE FlipPosted(h)'
    <3>1. PostedIn(looper', h)
      BY <2>3 DEF FlipPosted, PostedIn, FlipMessage
    <3>2. CASE PostedIn(looper, h)
      BY <3>2 DEF WorkLeft, FlipPosted, PostedIn
    <3>3. CASE FlipMessage(h) = flip /\ queue[g][1] = "flip"
      <4>1. h = g
        BY <3>3 DEF FlipMessage
      <4> QED BY <2>1, <3>3, <4>1 DEF WorkLeft
    <3> QED BY <1>6, <3>1, <3>2, <3>3
  <2>4. CASE "flip" \in {queue'[h][i] : i \in DOMAIN queue'[h]}
    <3>1. CASE h = g
      <4>1. queue'[g] = Tail(queue[g])
        BY <1>2 DEF IInv, Typed, ButtonTyped
      <4> QED BY <1>2, <2>4, <3>1, <4>1 DEF WorkLeft
    <3>2. CASE h # g
      <4>1. queue'[h] = queue[h]
        BY <1>2, <3>2 DEF IInv, Typed, ButtonTyped
      <4> QED BY <2>4, <4>1 DEF WorkLeft
    <3> QED BY <3>1, <3>2
  <2> QED BY <1>14, <2>2, <2>3, <2>4 DEF WorkLeft
<1>15. Covered'
  BY <1>14 DEF IInv, Covered, Dispatch, windows, history
<1> QED BY <1>7, <1>8, <1>9, <1>10, <1>11, <1>12, <1>13, <1>15 DEF IInv, Typed

LEMMA ThreadKeeps ==
    ASSUME IInv, NEW g \in Gens, QueueThread(g) \/ SpuriousWakeup(g)
    PROVE  IInv'
<1>1. CASE Dispatch(g)
  BY <1>1, DispatchKeeps
<1>2. CASE TestGoon(g) \/ TestEmpty(g) \/ Wait(g) \/ Recheck(g) \/ SpuriousWakeup(g)
  <2>1. thread[g] # "none" /\ \E pc \in Pcs : GoesTo(g, pc)
    BY <1>2 DEF TestGoon, TestEmpty, Wait, Recheck, SpuriousWakeup, Pcs
  <2> QED BY <2>1, GoesToKeeps
<1> QED BY <1>1, <1>2 DEF QueueThread

LEMMA NextKeeps ==
    ASSUME IInv, Next
    PROVE  IInv'
<1>1. CASE StartScreen \/ StopScreen \/ Restart \/ GiveUp
  BY <1>1, StartScreenKeeps, StopScreenKeeps, RestartKeeps, GiveUpKeeps
<1>2. CASE Kill
  BY <1>2, DieKeeps DEF Kill
<1>3. CASE MainLooper
  BY <1>3, MainLooperKeeps
<1>4. ASSUME NEW g \in Gens, Press(g) \/ Drag(g) \/ Release(g) \/ Callback(g)
      PROVE  IInv'
  BY <1>4, PressKeeps, DragKeeps, ReleaseKeeps, RunDownKeeps, RunMoveKeeps, LastPushKeeps
  DEF Callback
<1>5. ASSUME NEW g \in Gens, QueueThread(g) \/ SpuriousWakeup(g) \/ Finalize(g)
      PROVE  IInv'
  BY <1>5, ThreadKeeps, FinalizeKeeps
<1> QED BY <1>1, <1>2, <1>3, <1>4, <1>5 DEF Next

LEMMA StutterKeeps ==
    ASSUME IInv, UNCHANGED vars
    PROVE  IInv'
<1>1. /\ UNCHANGED <<started, owed, requests, up, looper, service, instance, starts, mouseOf>>
      /\ UNCHANGED <<mouseOn, buttonOn, goon, thread, queue, sampler, pending, finger>>
      /\ UNCHANGED <<touches, dirty, lastDeath>>
  BY DEF vars, system, objects, windows, queues, touch, history
<1>2. FlagsTyped' /\ CountersTyped' /\ LooperTyped' /\ ServiceTyped' /\ ButtonTyped'
  BY <1>1 DEF IInv, Typed, FlagsTyped, CountersTyped, LooperTyped, ServiceTyped, ButtonTyped
<1>3. OnItsWay' /\ Requested'
  <2>1. \A p \in Phases : NowIn(p) => NowIn(p)'
    BY <1>1 DEF NowIn, Shown
  <2>2. Final' = Final
    BY <1>1 DEF Final
  <2> QED BY <1>1, <2>1, <2>2 DEF IInv, OnItsWay, Requested
<1>4. Asleep'
  BY <1>1 DEF IInv, Asleep, Shown
<1>5. \A g \in Gens : WorkLeft(g)' <=> WorkLeft(g)
  BY <1>1 DEF WorkLeft, FlipPosted, FlipMessage
<1>6. Covered'
  BY <1>1, <1>5 DEF IInv, Covered
<1> QED BY <1>2, <1>3, <1>4, <1>6 DEF IInv, Typed

LEMMA AlwaysIInv == Spec => []IInv
<1>1. IInv /\ [Next]_vars => IInv'
  BY NextKeeps, StutterKeeps
<1> QED BY InitInv, <1>1, PTL DEF Spec

(***************************************************************************)
(* The theorems                                                            *)
(***************************************************************************)

(* The variables keep their types: also over crashes and repeated starts   *)
(* no onStartCommand makes more ButtonManagers than starts were requested. *)
THEOREM TypeCorrect == Spec => []TypeOK
<1>1. IInv => TypeOK
  <2> SUFFICES ASSUME IInv PROVE TypeOK
    OBVIOUS
  <2>1. FlagsTyped /\ CountersTyped /\ LooperTyped /\ ServiceTyped /\ ButtonTyped
    BY DEF IInv, Typed
  <2>2. started \in BOOLEAN /\ up \in BOOLEAN /\ dirty \in BOOLEAN
    BY <2>1 DEF FlagsTyped
  <2>3. /\ owed \in {"start", "restart"}
        /\ lastDeath \in {"none", "killed", "null intent", "window"}
    BY <2>1 DEF FlagsTyped
  <2> QED BY <2>1, <2>2, <2>3
          DEF TypeOK, CountersTyped, LooperTyped, ServiceTyped, ButtonTyped, Messages, Pcs,
              Callbacks
<1> QED BY AlwaysIInv, <1>1, PTL

(* When the main looper has handled what the system told it, the cursor    *)
(* and the button are on the screen if and only if the service is started, *)
(* and they are those of the last start: for any number of starts, stops,  *)
(* kills, restarts and flips on their way (ControllerService).             *)
THEOREM ScreenFollowsSystem == Spec => []ShownIffStarted
<1>1. IInv => ShownIffStarted
  <2> SUFFICES ASSUME IInv, up, Told
               PROVE  Shown(IF started THEN {starts} ELSE {})
    BY DEF ShownIffStarted, Shown
  <2>1. PICK p \in Phases : NowIn(p) /\ Plan(looper, p, Final)
    BY DEF IInv, OnItsWay
  <2>2. looper \in Seq(Messages) /\ \A i \in DOMAIN looper : looper[i].what = "flip"
    BY DEF IInv, Typed, LooperTyped, Told
  <2>3. p = Final
    BY <2>1, <2>2, PlanFlips
  <2> QED BY <2>1, <2>3 DEF NowIn, Final
<1> QED BY AlwaysIInv, <1>1, PTL

(* updateViewLayout never meets a window that is gone unless a stop has    *)
(* cut off a press or a flip: whatever else happens to the service, its    *)
(* buttons and the threads of earlier starts (HandleFlip, RunDown).        *)
THEOREM OnlyACutOffStopCrashes == Spec => []CleanStopNeverCrashes
<1>1. IInv => CleanStopNeverCrashes
  BY DEF IInv, Covered, CleanStopNeverCrashes
<1> QED BY AlwaysIInv, <1>1, PTL
=============================================================================
