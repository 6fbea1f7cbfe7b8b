------------------------------ MODULE OmxVideo ------------------------------
(***************************************************************************)
(* omx_video_base.cpp with omx_video_encoder.cpp and                       *)
(* video_encoder_device.cpp: the OpenMAX component of the video encoder.   *)
(* Three threads: the client's, which queues commands and buffers, waits   *)
(* in send_command until its command was looked at, and gives or frees     *)
(* buffers; the message thread, which takes one entry of the queues at a   *)
(* time, commands first; and the callback thread, which queues what the    *)
(* driver says.  A state command is often answered later than the handler  *)
(* of the command: by the driver, or by the last AllocateBuffer or         *)
(* FreeBuffer.                                                             *)
(*                                                                         *)
(* A buffer is a port and an index in its pool.  bPopulated and the header *)
(* pointers follow from the bit masks, and the pipe that wakes the message *)
(* thread from the queues.  An entry of a queue and a message of the       *)
(* driver are a triple: what it is and its two arguments.                  *)
(***************************************************************************)
EXTENDS Integers, Sequences, FiniteSets, SequencesExt

CONSTANTS
    Slots,      \* nBufferCountActual: the indices of a port's buffers
    QueueSize,  \* OMX_CORE_CONTROL_CMDQ_SIZE
    MaxCmds,    \* bound: commands, and calls that misuse the component
    MaxFails    \* bound: calls and answers of the driver that fail on a whim

ASSUME SlotsAssumption == Slots # {} /\ IsFiniteSet(Slots)
ASSUME BoundsAssumption == QueueSize \in Nat /\ MaxCmds \in Nat /\ MaxFails \in Nat

VARIABLES
    m_state,
    m_flags,        \* the pending bits of states: IDLE, LOADING, EXECUTE, PAUSE
    portFlags,      \* those of the ports: FLUSH, ENABLE, DISABLE
    flushing,       \* the ports of input_ and output_flush_progress
    bEnabled,       \* the enabled ports
    bm_count,       \* the buffers in m_inp_bm_count and m_out_bm_count
    q,              \* m_cmd_q, m_ftb_q and m_etb_q
    waiting,        \* the client is in sem_wait(&m_cmd_lock)
    drv,            \* the driver: stopped, started, paused
    held,           \* the buffers it has
    msgs,           \* its messages the callback thread has not read
    lent,           \* the buffers the client has handed over
    target,         \* the state the client asked for and waits for
    cmds, fails,    \* counters for the bounds
    refused,        \* history: a flush failed and will not be answered
    failed,         \* history: the driver answered that it did not do it
    broken,         \* history: omx_report_error was called
    cut,            \* history: buffers answered Idle for a running component
    stale,          \* history: Idle was asked for before a stop was confirmed
    crossed         \* history: a Flush command met a pending Idle

flags == <<m_flags, portFlags, flushing>>
driver == <<drv, held, msgs>>
history == <<refused, failed, broken, cut, stale, crossed>>
vars == <<m_state, flags, bEnabled, bm_count, q, waiting, driver, lent, target,
          cmds, fails, history>>

Ports == {"in", "out"}
Buffers == Ports \X Slots
States == {"Loaded", "WaitForResources", "Idle", "Executing", "Pause"}
Running == m_state \in {"Executing", "Pause"}

(* The ports a command's argument names, OMX_ALL among them.               *)
PortsOf(a) == IF a = "all" THEN Ports ELSE {a}
Named == Ports \union {"all"}

Of(p) == {b \in Buffers : b[1] = p}
Full(p) == Of(p) \subseteq bm_count

(* Mutant of AllocateDone: one port is enough.                             *)
AllocateOneDone == \E p \in Ports : Full(p)

AllocateDone == \A p \in Ports : Full(p)
Released(p) == Of(p) \intersect bm_count = {}
ReleaseDone == bm_count = {}

-----------------------------------------------------------------------------
(* The queues                                                              *)

(* post_event: where an entry goes                                         *)
QueueOf(m) ==
    CASE m[1] = "FTB" -> "ftb"
      [] m[1] \in {"ETB", "EBD"} -> "etb"
      [] OTHER -> "cmd"

(* insert_entry: a full queue drops the entry                              *)
Insert(s, m) == IF Len(s) < QueueSize THEN Append(s, m) ELSE s

Post(qq, m) == [qq EXCEPT ![QueueOf(m)] = Insert(@, m)]
PostIf(qq, posts, m) == IF posts THEN Post(qq, m) ELSE qq

Event(cmd, arg) == <<"EVENT", cmd, arg>>
Done(b) == <<IF b[1] = "in" THEN "EBD" ELSE "FBD", b[1], b[2]>>
BufferOf(m) == <<m[2], m[3]>>

(* The queue the message thread looks into: pop_entry by priority          *)
Turn ==
    IF q.cmd # <<>> THEN "cmd" ELSE IF q.ftb # <<>> THEN "ftb" ELSE "etb"
Pending == q[Turn] # <<>>
Current == Head(q[Turn])

(* Mutant of Rest: pop_entry leaves the entry queued.                      *)
KeepHead == q

Rest == [q EXCEPT ![Turn] = Tail(@)]

PortQueue(p) == IF p = "in" THEN "etb" ELSE "ftb"
BuffersIn(s) == {BufferOf(s[i]) : i \in DOMAIN s}
IsDone(m) == m[1] \in {"EBD", "FBD"}

Init ==
    /\ m_state = "Loaded"
    /\ m_flags = {}
    /\ portFlags = [p \in Ports |-> {}]
    /\ flushing = {}
    /\ bEnabled = Ports
    /\ bm_count = {}
    /\ q = [cmd |-> <<>>, ftb |-> <<>>, etb |-> <<>>]
    /\ waiting = FALSE
    /\ drv = "stopped" /\ held = {} /\ msgs = <<>>
    /\ lent = {}
    /\ target = "none"
    /\ cmds = 0 /\ fails = 0
    /\ refused = {} /\ failed = FALSE /\ broken = FALSE
    /\ cut = FALSE /\ stale = FALSE /\ crossed = FALSE

-----------------------------------------------------------------------------
(* The driver.  A call it accepts is answered by a message; it refuses a   *)
(* call that does not fit its state, and may refuse any.  The statuscode   *)
(* of an answer may say that the driver failed to do what it accepted.     *)

MayFail(ok) ==
    \/ ok /\ fails' = fails
    \/ ~ok /\ fails < MaxFails /\ fails' = fails + 1

Status(did) == IF did THEN "" ELSE "failed"

(* dev_start, dev_pause, dev_resume, dev_stop: the message m is sent when  *)
(* the driver comes from one of the given states, whether it then did what *)
(* it was asked for or not.                                                *)
Ioctl(from, to, m, ok) ==
    IF drv \in from
    THEN \E did \in BOOLEAN :
            /\ did => ok
            /\ MayFail(did)
            /\ drv' = IF did THEN to ELSE drv
            /\ msgs' = IF ok THEN Append(msgs, <<m, "", Status(did)>>) ELSE msgs
            /\ failed' = (failed \/ ok # did)
    ELSE /\ ~ok
         /\ UNCHANGED <<drv, msgs, fails, failed>>

dev_start(ok) == Ioctl({"stopped"}, "started", "START_DONE", ok)
dev_pause(ok) == Ioctl({"started"}, "paused", "PAUSE_DONE", ok)
dev_resume(ok) == Ioctl({"paused"}, "started", "RESUME_DONE", ok)

(* A driver that is stopped already may confirm that too, or refuse.  The  *)
(* pmem_free of a build for 1080p is left out with the mapping of memory.  *)
dev_stop(ok) ==
    IF drv = "stopped" /\ ~ok THEN UNCHANGED <<drv, msgs, fails, failed>>
    ELSE Ioctl({"stopped", "started", "paused"}, "stopped", "STOP_DONE", ok)

(* dev_flush of the ports P, which the driver accepts for ok and does for  *)
(* did: it gives back what it has of a port, then says that it is flushed. *)
FlushReply(p, did) ==
    LET back == IF p \in did THEN held \intersect Of(p) ELSE {}
    IN Append(SetToSeq({Done(b) : b \in back}), <<"FLUSH_DONE", p, Status(p \in did)>>)
dev_flush(P, ok, did) ==
    /\ did \subseteq ok /\ ok \subseteq P
    /\ IF drv = "stopped" THEN ok = {} /\ fails' = fails ELSE MayFail(did = P)
    /\ msgs' = msgs \o (IF "in" \in ok THEN FlushReply("in", did) ELSE <<>>)
                    \o (IF "out" \in ok THEN FlushReply("out", did) ELSE <<>>)
    /\ held' = {b \in held : b[1] \notin did}
    /\ refused' = refused \union (P \ ok)
    /\ failed' = (failed \/ ok # did)
    /\ UNCHANGED drv

-----------------------------------------------------------------------------
(* The message thread: commands                                            *)

(* send_command_proxy ends with sem_post(&m_cmd_lock).                     *)
Command(cmd, arg) ==
    /\ Pending
    /\ Current = <<"COMMAND", cmd, arg>>
    /\ waiting' = FALSE

(* omx_report_error: the client hears of a failure of the hardware; what   *)
(* it waits for may still come.                                            *)
Report == broken' = TRUE

Complete(s) == q' = Post(Rest, Event("StateSet", s))
Refuse == q' = Post(Rest, Event("Error", "transition"))
Later(flag) == q' = Rest /\ m_flags' = m_flags \union {flag}

(* Mutant of Drained: only the driver is flushed.                          *)
DrainedNone(P) == {}

(* The queues execute_input_flush and execute_output_flush empty           *)
Drained(P) == {PortQueue(p) : p \in P}

(* execute_omx_flush of the ports P: what their queues hold goes back to   *)
(* the client, under m_lock, and the driver is asked for the rest.         *)
execute_omx_flush(P, qq) ==
    /\ flushing' = flushing \union P
    /\ q' = [k \in DOMAIN qq |-> IF k \in Drained(P) THEN <<>> ELSE qq[k]]
    /\ lent' = lent \ UNION {BuffersIn(qq[k]) : k \in Drained(P)}
    /\ \E ok, did \in SUBSET P : dev_flush(P, ok, did)

(* A stop the driver was asked for and has not confirmed yet.              *)
StopOnItsWay ==
    \E i \in DOMAIN (msgs \o q.cmd) : (msgs \o q.cmd)[i][1] = "STOP_DONE"

LoadedTo(s) ==
    /\ m_state = "Loaded"
    /\ Command("StateSet", s)
    /\ \/ /\ s = "Idle" /\ (AllocateDone \/ bEnabled = {})
          /\ Complete(s)
          /\ UNCHANGED <<m_flags, stale>>
       \/ /\ s = "Idle" /\ ~(AllocateDone \/ bEnabled = {})
          /\ Later("IDLE")
          /\ stale' = (stale \/ StopOnItsWay)
       \/ /\ s = "WaitForResources"
          /\ Complete(s)
          /\ UNCHANGED <<m_flags, stale>>
       \/ /\ s \in {"Loaded", "Executing", "Pause"}
          /\ Refuse
          /\ UNCHANGED <<m_flags, stale>>
    /\ UNCHANGED <<m_state, portFlags, flushing, bEnabled, bm_count, driver, lent,
                   target, cmds, fails, refused, failed, broken, cut, crossed>>

(* dev_start on the way from Idle to Executing or to Pause                 *)
StartFor(flag) ==
    \E ok \in BOOLEAN :
        /\ dev_start(ok)
        /\ IF ok THEN Later(flag) /\ UNCHANGED broken
                 ELSE q' = Rest /\ Report /\ UNCHANGED m_flags

(* From Idle to Loaded: the event is posted though dev_stop just sent its  *)
(* request, and not at all when dev_stop fails.                            *)
IdleTo(s) ==
    /\ m_state = "Idle"
    /\ Command("StateSet", s)
    /\ \/ /\ s = "Loaded" /\ ReleaseDone
          /\ \E ok \in BOOLEAN : dev_stop(ok) /\ IF ok THEN Complete(s) ELSE q' = Rest
          /\ UNCHANGED <<m_flags, broken>>
       \/ /\ s = "Loaded" /\ ~ReleaseDone
          /\ Later("LOADING")
          /\ UNCHANGED <<drv, msgs, fails, failed, broken>>
       \/ s = "Executing" /\ StartFor("EXECUTE")
       \/ s = "Pause" /\ StartFor("PAUSE")
       \/ /\ s \in {"Idle", "WaitForResources"}
          /\ Refuse
          /\ UNCHANGED <<m_flags, drv, msgs, fails, failed, broken>>
    /\ UNCHANGED <<m_state, portFlags, flushing, bEnabled, bm_count, held, lent,
                   target, cmds, refused, cut, stale, crossed>>

(* From Executing and from Pause to Idle: both ports are flushed, and      *)
(* IDLE_PENDING waits for that and for the driver's stop.                  *)
RunningToIdle ==
    /\ Running
    /\ Command("StateSet", "Idle")
    /\ m_flags' = m_flags \union {"IDLE"}
    /\ execute_omx_flush(Ports, Rest)
    /\ UNCHANGED <<m_state, portFlags, bEnabled, bm_count, target, cmds, broken, cut, stale, crossed>>

(* From Pause to Executing the component posts RESUME_DONE itself, whether *)
(* or not the driver does.                                                 *)
RunningTo(s) ==
    /\ Running
    /\ Command("StateSet", s)
    /\ \/ /\ m_state = "Executing" /\ s = "Pause"
          /\ \E ok \in BOOLEAN :
                /\ dev_pause(ok)
                /\ IF ok THEN Later("PAUSE") ELSE Refuse /\ UNCHANGED m_flags
       \/ /\ m_state = "Pause" /\ s = "Executing"
          /\ \E ok \in BOOLEAN :
                /\ dev_resume(ok)
                /\ IF ok
                   THEN /\ q' = Post(Rest, <<"RESUME_DONE", "", "">>)
                        /\ m_flags' = m_flags \union {"EXECUTE"}
                   ELSE Refuse /\ UNCHANGED m_flags
       \/ /\ s \in {"Loaded", "WaitForResources", m_state}
          /\ Refuse
          /\ UNCHANGED <<m_flags, drv, msgs, fails, failed>>
    /\ UNCHANGED <<m_state, portFlags, flushing, bEnabled, bm_count, held, lent,
                   target, cmds, refused, broken, cut, stale, crossed>>

(* The way from WaitForResources to Idle has no branch and is completed.   *)
WaitingTo(s) ==
    /\ m_state = "WaitForResources"
    /\ Command("StateSet", s)
    /\ IF s \in {"Loaded", "Idle"} THEN Complete(s) ELSE Refuse
    /\ UNCHANGED <<m_state, flags, bEnabled, bm_count, driver, lent, target, cmds,
                   fails, history>>

WithFlag(P, flag) ==
    [p \in Ports |-> portFlags[p] \union IF p \in P THEN {flag} ELSE {}]

Flush(a) ==
    /\ Command("Flush", a)
    /\ portFlags' = WithFlag(PortsOf(a), "FLUSH")
    /\ execute_omx_flush(PortsOf(a), Rest)
    /\ crossed' = (crossed \/ "IDLE" \in m_flags)
    /\ UNCHANGED <<m_state, m_flags, bEnabled, bm_count, target, cmds, broken, cut, stale>>

(* The completions of a port command: one event for each port that is      *)
(* ready, and one more for the command when all are.                       *)
PortEvents(qq, cmd, a, ready) ==
    LET first == PostIf(qq, "in" \in ready, Event(cmd, "in"))
        both == PostIf(first, "out" \in ready, Event(cmd, "out"))
    IN PostIf(both, ready = PortsOf(a), Event(cmd, a))

PortEnable(a) ==
    LET ready == {p \in PortsOf(a) :
                     (m_state = "Loaded" /\ "IDLE" \notin m_flags) \/ Full(p)}
    IN /\ Command("PortEnable", a)
       /\ bEnabled' = bEnabled \union PortsOf(a)
       /\ portFlags' = WithFlag(PortsOf(a) \ ready, "ENABLE")
       /\ q' = PortEvents(Rest, "PortEnable", a, ready)
       /\ UNCHANGED <<m_state, m_flags, flushing, bm_count, driver, lent, target,
                      cmds, fails, history>>

PortDisable(a) ==
    LET ready == {p \in PortsOf(a) : m_state \in {"Loaded", "Idle"} /\ Released(p)}
        posted == PortEvents(Rest, "PortDisable", a, ready)
    IN /\ Command("PortDisable", a)
       /\ bEnabled' = bEnabled \ PortsOf(a)
       /\ portFlags' = WithFlag(PortsOf(a) \ ready, "DISABLE")
       /\ IF Running
          THEN execute_omx_flush(PortsOf(a), posted)
          ELSE q' = posted /\ UNCHANGED <<flushing, lent, driver, fails, refused, failed>>
       /\ UNCHANGED <<m_state, m_flags, bm_count, target, cmds, broken, cut, stale, crossed>>

-----------------------------------------------------------------------------
(* The message thread: events of the component and of the driver           *)

Take(id) == Pending /\ Current[1] = id

(* A completed state command sets the state; the other completions and the *)
(* errors only call the client back.                                       *)
GenerateEvent ==
    /\ Take("EVENT")
    /\ q' = Rest
    /\ m_state' = IF Current[2] = "StateSet" THEN Current[3] ELSE m_state
    /\ target' = IF Current[2] = "StateSet" \/ Current[3] = "transition"
                 THEN "none" ELSE target
    /\ UNCHANGED <<flags, bEnabled, bm_count, waiting, driver, lent, cmds, fails, history>>

(* dev_empty_buf and dev_fill_buf; a buffer the driver does not take goes  *)
(* back, and the hardware is reported.                                     *)
Encode(b) ==
    \E ok \in BOOLEAN :
        /\ IF drv = "stopped" THEN ~ok /\ fails' = fails ELSE MayFail(ok)
        /\ IF ok
           THEN q' = Rest /\ held' = held \union {b} /\ UNCHANGED broken
           ELSE q' = Post(Rest, Done(b)) /\ Report /\ UNCHANGED held

empty_this_buffer_proxy ==
    /\ Take("ETB")
    /\ IF "in" \in flushing
       THEN q' = Post(Rest, Done(BufferOf(Current))) /\ UNCHANGED <<held, fails, broken>>
       ELSE Encode(BufferOf(Current))
    /\ UNCHANGED <<m_state, flags, bEnabled, bm_count, waiting, drv, msgs, lent,
                   target, cmds, refused, failed, cut, stale, crossed>>

fill_this_buffer_proxy ==
    /\ Take("FTB")
    /\ IF "out" \notin bEnabled \/ "out" \in flushing
       THEN q' = Post(Rest, Done(BufferOf(Current))) /\ UNCHANGED <<held, fails, broken>>
       ELSE Encode(BufferOf(Current))
    /\ UNCHANGED <<m_state, flags, bEnabled, bm_count, waiting, drv, msgs, lent,
                   target, cmds, refused, failed, cut, stale, crossed>>

(* empty_buffer_done and fill_buffer_done                                  *)
BufferDone ==
    /\ Take("EBD") \/ Take("FBD")
    /\ q' = Rest
    /\ lent' = lent \ {BufferOf(Current)}
    /\ UNCHANGED <<m_state, flags, bEnabled, bm_count, waiting, driver, target, cmds, fails, history>>

(* Mutant of BothFlushed: the flush of the output is not waited for.       *)
InputFlushed(p) == p = "in" /\ flushing = {"in"}

BothFlushed(p) == flushing \subseteq {p}

(* One port is flushed.  If it was for a Flush command that is answered,   *)
(* else if the client waits for Idle and the other port is flushed too the *)
(* driver is stopped.                                                      *)
FlushDone(p) ==
    /\ Take("FLUSH_DONE") /\ Current[2] = p
    /\ q' = Rest
    /\ flushing' = flushing \ {p}
    /\ \/ /\ "FLUSH" \in portFlags[p]
          /\ portFlags' = [portFlags EXCEPT ![p] = @ \ {"FLUSH"}]
          /\ UNCHANGED <<drv, msgs, fails, failed, broken>>
       \/ /\ "FLUSH" \notin portFlags[p]
          /\ "IDLE" \in m_flags /\ BothFlushed(p)
          /\ \E ok \in BOOLEAN : dev_stop(ok) /\ IF ok THEN UNCHANGED broken ELSE Report
          /\ UNCHANGED portFlags
       \/ /\ "FLUSH" \notin portFlags[p]
          /\ ~("IDLE" \in m_flags /\ BothFlushed(p))
          /\ UNCHANGED <<portFlags, drv, msgs, fails, failed, broken>>
    /\ UNCHANGED <<m_state, m_flags, bEnabled, bm_count, waiting, held, lent,
                   target, cmds, refused, cut, stale, crossed>>

(* The pending bit is cleared, the state is set and the client called back.*)
Enter(s, flag) ==
    /\ m_flags' = m_flags \ {flag}
    /\ m_state' = s
    /\ target' = "none"

(* Mutant of PauseAfterStart: the driver is not told to pause.             *)
PauseAtOnce ==
    /\ Enter("Pause", "PAUSE")
    /\ UNCHANGED <<drv, msgs, fails, failed, broken>>

(* From Idle to Pause the driver is started first.                         *)
PauseAfterStart ==
    /\ \E ok \in BOOLEAN : dev_pause(ok) /\ IF ok THEN UNCHANGED broken ELSE Report
    /\ UNCHANGED <<m_state, m_flags, target>>

StartDone ==
    /\ Take("START_DONE")
    /\ q' = Rest
    /\ IF "EXECUTE" \in m_flags
       THEN Enter("Executing", "EXECUTE") /\ UNCHANGED <<drv, msgs, fails, failed, broken>>
       ELSE IF "PAUSE" \in m_flags
       THEN PauseAfterStart
       ELSE UNCHANGED <<m_state, m_flags, drv, msgs, fails, target, failed, broken>>
    /\ UNCHANGED <<portFlags, flushing, bEnabled, bm_count, waiting, held, lent,
                   cmds, refused, cut, stale, crossed>>

(* complete_pending_buffer_done_cbs: the buffers that are done are given   *)
(* back before the entries in front of them.                               *)
DoneIn(s) == {BufferOf(s[i]) : i \in {i \in DOMAIN s : IsDone(s[i])}}
DoneInRest == DoneIn(Rest.ftb) \union DoneIn(Rest.etb)

(* What is left of a queue, in order.                                      *)
Kept(s) ==
    LET left == {i \in DOMAIN s : ~IsDone(s[i])}
        nth(n) == CHOOSE i \in left : Cardinality({j \in left : j <= i}) = n
    IN [n \in 1..Cardinality(left) |-> s[nth(n)]]

(* Mutant of complete_pending_buffer_done_cbs: the entries stay queued.    *)
CompleteAndKeep ==
    /\ q' = Rest
    /\ lent' = lent \ DoneInRest

complete_pending_buffer_done_cbs ==
    /\ q' = [Rest EXCEPT !.ftb = Kept(@), !.etb = Kept(@)]
    /\ lent' = lent \ DoneInRest

(* Mutant of Answers: the driver's word is enough.                         *)
AnswersAny(flag) == TRUE

(* A message of the driver answers a pending state only.                   *)
Answers(flag) == flag \in m_flags

PauseDone ==
    /\ Take("PAUSE_DONE")
    /\ IF Answers("PAUSE")
       THEN complete_pending_buffer_done_cbs /\ Enter("Pause", "PAUSE")
       ELSE q' = Rest /\ UNCHANGED <<m_state, m_flags, lent, target>>
    /\ UNCHANGED <<portFlags, flushing, bEnabled, bm_count, waiting, driver, cmds, fails, history>>

ResumeDone ==
    /\ Take("RESUME_DONE")
    /\ q' = Rest
    /\ IF Answers("EXECUTE") THEN Enter("Executing", "EXECUTE")
                                ELSE UNCHANGED <<m_state, m_flags, target>>
    /\ UNCHANGED <<portFlags, flushing, bEnabled, bm_count, waiting, driver, lent, cmds, fails, history>>

StopDone ==
    /\ Take("STOP_DONE")
    /\ complete_pending_buffer_done_cbs
    /\ IF Answers("IDLE") THEN Enter("Idle", "IDLE")
                             ELSE UNCHANGED <<m_state, m_flags, target>>
    /\ UNCHANGED <<portFlags, flushing, bEnabled, bm_count, waiting, driver, cmds, fails, history>>

process_event_cb ==
    \/ \E s \in States : LoadedTo(s) \/ IdleTo(s) \/ RunningTo(s) \/ WaitingTo(s)
    \/ RunningToIdle
    \/ \E a \in Named : Flush(a) \/ PortEnable(a) \/ PortDisable(a)
    \/ GenerateEvent
    \/ empty_this_buffer_proxy
    \/ fill_this_buffer_proxy
    \/ BufferDone
    \/ \E p \in Ports : FlushDone(p)
    \/ StartDone
    \/ PauseDone
    \/ ResumeDone
    \/ StopDone

-----------------------------------------------------------------------------
(* The callback thread and the driver                                      *)

(* The statuscode of a message: a failure is reported, and the message is  *)
(* posted like any other.  The status may be a failure though the driver   *)
(* did what it was asked for.                                              *)
Examine(failure) ==
    \E ok \in BOOLEAN :
        /\ MayFail(ok)
        /\ IF ok /\ ~failure THEN UNCHANGED broken ELSE Report

Failure(m) == ~IsDone(m) /\ m[3] = "failed"

async_message_process ==
    /\ msgs # <<>>
    /\ Examine(Failure(Head(msgs)))
    /\ q' = Post(q, Head(msgs))
    /\ msgs' = Tail(msgs)
    /\ UNCHANGED <<m_state, flags, bEnabled, bm_count, waiting, drv, held, lent, target,
                   cmds, refused, failed, cut, stale, crossed>>

(* The driver is done with a frame.  Waiting until its earlier messages    *)
(* are read changes nothing that the component could see.                  *)
FrameDone(b) ==
    /\ b \in held /\ msgs = <<>>
    /\ Examine(FALSE)
    /\ held' = held \ {b}
    /\ q' = Post(q, Done(b))
    /\ UNCHANGED <<m_state, flags, bEnabled, bm_count, waiting, drv, msgs, lent, target,
                   cmds, refused, failed, cut, stale, crossed>>

-----------------------------------------------------------------------------
(* The client's calls.  The client waits for the answer to one state       *)
(* command before the next, keeps one command at a time to a port, and     *)
(* hands over no buffer once it has asked for Idle.  It frees a buffer out *)
(* of turn only while it waits for no state.                               *)

AsksWell(cmd, a) ==
    CASE cmd = "StateSet" -> target = "none"
      [] cmd = "Flush" -> \A p \in PortsOf(a) : "FLUSH" \notin portFlags[p]
      [] cmd = "PortEnable" -> \A p \in PortsOf(a) : p \notin bEnabled /\ portFlags[p] = {}
      [] cmd = "PortDisable" -> \A p \in PortsOf(a) : p \in bEnabled /\ portFlags[p] = {}

send_command(cmd, a) ==
    /\ ~waiting /\ cmds < MaxCmds
    /\ AsksWell(cmd, a)
    /\ q' = Post(q, <<"COMMAND", cmd, a>>)
    /\ waiting' = TRUE
    /\ target' = IF cmd = "StateSet" THEN a ELSE target
    /\ cmds' = cmds + 1
    /\ UNCHANGED <<m_state, flags, bEnabled, bm_count, driver, lent, fails, history>>

(* empty_this_buffer and fill_this_buffer; another thread of the client    *)
(* than the one that waits for a command may hand over buffers.            *)
GiveBuffer(b) ==
    /\ Running /\ target # "Idle"
    /\ b \in bm_count \ lent
    /\ b[1] \in bEnabled /\ "ENABLE" \notin portFlags[b[1]]
    /\ q' = Post(q, <<IF b[1] = "in" THEN "ETB" ELSE "FTB", b[1], b[2]>>)
    /\ lent' = lent \union {b}
    /\ UNCHANGED <<m_state, flags, bEnabled, bm_count, waiting, driver, target, cmds, fails, history>>

(* use_buffer and allocate_buffer.  The last buffer of all answers a       *)
(* pending Idle, whichever state it was asked for in; the last one of a    *)
(* port a pending PortEnable.                                              *)
Populated(b) ==
    LET p == b[1]
        idle == AllocateDone' /\ "IDLE" \in m_flags
        enable == p \in bEnabled /\ Full(p)' /\ "ENABLE" \in portFlags[p]
    IN /\ m_flags' = IF idle THEN m_flags \ {"IDLE"} ELSE m_flags
       /\ portFlags' = [portFlags EXCEPT ![p] = IF enable THEN @ \ {"ENABLE"} ELSE @]
       /\ q' = PostIf(PostIf(q, idle, Event("StateSet", "Idle")),
                      enable, Event("PortEnable", p))
       /\ cut' = (cut \/ (idle /\ Running))

(* use_input_buffer and its like take a free buffer of the pool.  A        *)
(* failure of dev_use_buf leaves its bit set.                              *)
TakesBuffer(b, ok) ==
    /\ MayFail(ok)
    /\ IF ok THEN bm_count' = bm_count \union {b}
             ELSE bm_count' \in {bm_count, bm_count \union {b}}

AllocateBuffer(b) ==
    /\ ~waiting
    /\ b \notin bm_count /\ b[1] \in bEnabled
    /\ m_state = "Loaded" \/ "ENABLE" \in portFlags[b[1]]
    /\ \E ok \in BOOLEAN :
          /\ TakesBuffer(b, ok)
          /\ IF ok THEN Populated(b) ELSE UNCHANGED <<m_flags, portFlags, q, cut>>
    /\ UNCHANGED <<m_state, flushing, bEnabled, waiting, driver, lent, target, cmds,
                   refused, failed, broken, stale, crossed>>

(* free_buffer: what the last buffer of a port, and of all, answers.       *)
Freed(b, qq) ==
    LET p == b[1]
        disable == "DISABLE" \in portFlags[p] /\ Released(p)'
        loaded == "LOADING" \in m_flags /\ ReleaseDone'
    IN /\ bm_count' = bm_count \ {b}
       /\ portFlags' = [portFlags EXCEPT ![p] = IF disable THEN @ \ {"DISABLE"} ELSE @]
       /\ m_flags' = IF loaded THEN m_flags \ {"LOADING"} ELSE m_flags
       /\ q' = PostIf(PostIf(qq, disable, Event("PortDisable", p)),
                      loaded, Event("StateSet", "Loaded"))
       /\ IF loaded THEN \E ok \in BOOLEAN : dev_stop(ok)
                    ELSE UNCHANGED <<drv, msgs, fails, failed>>

FreeBuffer(b) ==
    LET asked == (m_state = "Idle" /\ "LOADING" \in m_flags) \/ b[1] \notin bEnabled
        error == Post(q, Event("Error", "unpopulated"))
    IN /\ ~waiting
       /\ b \in bm_count \ lent
       /\ \/ asked /\ Freed(b, q) /\ UNCHANGED cmds
          \/ ~asked /\ target = "none" /\ cmds < MaxCmds /\ cmds' = cmds + 1
             /\ IF Running
                THEN /\ q' = error
                        /\ UNCHANGED <<bm_count, portFlags, m_flags, drv, msgs, fails, failed>>
                ELSE Freed(b, error)
       /\ UNCHANGED <<m_state, flushing, bEnabled, waiting, held, lent, target,
                      refused, broken, cut, stale, crossed>>

Next ==
    \/ process_event_cb
    \/ async_message_process
    \/ \E b \in Buffers :
          FrameDone(b) \/ GiveBuffer(b) \/ AllocateBuffer(b) \/ FreeBuffer(b)
    \/ \E s \in States : send_command("StateSet", s)
    \/ \E cmd \in {"Flush", "PortEnable", "PortDisable"}, a \in Named : send_command(cmd, a)

(* The two threads of the component are always ready to run.               *)
Spec ==
    /\ Init /\ [][Next]_vars
    /\ WF_vars(process_event_cb)
    /\ WF_vars(async_message_process)

-----------------------------------------------------------------------------
(* Properties                                                              *)

(* What an entry of a queue and a message of the driver can be             *)
Signals ==
    ({"START_DONE", "PAUSE_DONE", "RESUME_DONE", "STOP_DONE"} \X {""} \X {"", "failed"})
    \union ({"FLUSH_DONE"} \X Ports \X {"", "failed"})
Commands ==
    ({"COMMAND"} \X {"StateSet"} \X States)
    \union ({"COMMAND"} \X {"Flush", "PortEnable", "PortDisable"} \X Named)
Events ==
    ({"EVENT"} \X {"StateSet"} \X States)
    \union ({"EVENT"} \X {"Error"} \X {"transition", "unpopulated"})
    \union ({"EVENT"} \X {"PortEnable", "PortDisable"} \X Named)
DoneOut == {"FBD"} \X {"out"} \X Slots
CmdEntries == Commands \union Events \union Signals \union DoneOut
FtbEntries == {"FTB"} \X {"out"} \X Slots
EtbEntries == {"ETB", "EBD"} \X {"in"} \X Slots
Messages == Signals \union DoneOut \union ({"EBD"} \X {"in"} \X Slots)

(* The types of the component's fields, the queues and the driver.         *)
TypeOK ==
    /\ m_state \in States
    /\ m_flags \subseteq {"IDLE", "LOADING", "EXECUTE", "PAUSE"}
    /\ portFlags \in [Ports -> SUBSET {"FLUSH", "ENABLE", "DISABLE"}]
    /\ flushing \subseteq Ports /\ bEnabled \subseteq Ports
    /\ bm_count \subseteq Buffers /\ held \subseteq Buffers /\ lent \subseteq Buffers
    /\ q \in [cmd : Seq(CmdEntries), ftb : Seq(FtbEntries), etb : Seq(EtbEntries)]
    /\ \A k \in DOMAIN q : Len(q[k]) <= QueueSize
    /\ msgs \in Seq(Messages)
    /\ waiting \in BOOLEAN
    /\ drv \in {"stopped", "started", "paused"}
    /\ target \in States \union {"none"}
    /\ cmds \in 0..MaxCmds /\ fails \in 0..MaxFails
    /\ refused \subseteq Ports /\ failed \in BOOLEAN /\ broken \in BOOLEAN
    /\ cut \in BOOLEAN /\ stale \in BOOLEAN /\ crossed \in BOOLEAN

Carries(m, b) == m[1] \in {"ETB", "FTB", "EBD", "FBD"} /\ BufferOf(m) = b
Positions(s, b) == {i \in DOMAIN s : Carries(s[i], b)}
Places(b) ==
    ({"cmd"} \X Positions(q.cmd, b)) \union ({"ftb"} \X Positions(q.ftb, b))
    \union ({"etb"} \X Positions(q.etb, b)) \union ({"msgs"} \X Positions(msgs, b))
    \union (IF b \in held THEN {<<"driver", 0>>} ELSE {})

(* A buffer the client has handed over is in one place: one entry of one   *)
(* queue, one message of the driver, or the driver itself; one that was    *)
(* given back is in none.  Otherwise a frame is lost for ever, or the      *)
(* client is called back for it twice.                                     *)
EachBufferInOnePlace ==
    \A b \in Buffers : Cardinality(Places(b)) = IF b \in lent THEN 1 ELSE 0

(* A queue holds no more than four entries for each command and one for    *)
(* each buffer the client has handed over: insert_entry drops an entry of  *)
(* a full queue and nobody looks at post_event's answer, so handlers that  *)
(* posted without bound would lose commands and buffers.                   *)
QueuesAreBounded ==
    \A k \in DOMAIN q : Len(q[k]) <= 4 * cmds + Cardinality(lent)

(* The state only changes to the one the client asked for and still waits  *)
(* for: a late START, RESUME, PAUSE or STOP of the driver, or a buffer,    *)
(* never answers another command than its own.                             *)
OnlyAsAsked == [][m_state' # m_state => m_state' = target]_vars

(* A component that went from Executing or Pause to Idle has given every   *)
(* buffer back and its driver is stopped, unless the driver would not      *)
(* flush the buffer's port, or it failed to do what it had accepted, or    *)
(* buffers of a port that was being enabled answered for the command.      *)
IdleIsQuiet ==
    [][Running /\ m_state' = "Idle" /\ ~cut /\ ~failed
          => drv' = "stopped" /\ \A b \in lent' : b[1] \in refused]_vars

(* Nothing is pending, queued or on its way.                               *)
AtRest ==
    /\ ~waiting /\ ~Pending /\ msgs = <<>>
    /\ m_flags = {} /\ \A p \in Ports : portFlags[p] = {}

(* At rest the driver is in the state the component says it is in, unless  *)
(* it had failed to do what it accepted, and then the client was told of   *)
(* an error; and no port still turns buffers away for a flush, unless the  *)
(* driver refused it.                                                      *)
RestIsTrue ==
    AtRest =>
        /\ ~cut /\ ~failed =>
              drv = CASE m_state = "Executing" -> "started"
                      [] m_state = "Pause" -> "paused"
                      [] OTHER -> "stopped"
        /\ failed => broken
        /\ flushing \subseteq refused

(* A component leaves Loaded for Idle with all buffers allocated, or both  *)
(* ports disabled, or by way of WaitForResources; the exceptions are a     *)
(* stop that was not confirmed when Idle was asked for, and what follows   *)
(* an Idle that buffers answered for a running component, or a failure of  *)
(* the driver to do what it had accepted.                                  *)
IdleIsPopulated ==
    [][m_state = "Loaded" /\ m_state' = "Idle" /\ ~stale /\ ~cut /\ ~failed
          => \A p \in bEnabled : Full(p)]_vars

(* A client that asks a running component for Idle is answered, unless the *)
(* driver failed and that was reported, or refused a flush, or the client  *)
(* sent a Flush command while it waited.                                   *)
IdleIsAnswered ==
    Running /\ target = "Idle"
        ~> target = "none" \/ refused # {} \/ broken \/ crossed

(* The comment in send_command_proxy: the pending Idle should be cleared   *)
(* when the flush is complete, and the state change to Idle.               *)
IdleFollowsFlush ==
    Running /\ "IDLE" \in m_flags
        ~> m_state = "Idle" \/ refused # {} \/ broken
=============================================================================
