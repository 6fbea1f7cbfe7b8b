--------------------------- MODULE OmxVideo_proof ---------------------------
(***************************************************************************)
(* Theorems of OmxVideo: for any number of buffers, commands and failing   *)
(* calls of the driver.                                                    *)
(***************************************************************************)
EXTENDS OmxVideo, FiniteSetTheorems, SequenceTheorems, TLAPS

(* What the invariants say of a queue: it has an entry of T, it has no two *)
(* of them, and no entry of X is in front of one of Y.                     *)
Has(s, T) == \E n \in DOMAIN s : s[n] \in T
One(s, T) == \A m, n \in DOMAIN s : s[m] \in T /\ s[n] \in T => m = n
Never(s, X, Y) == \A m, n \in DOMAIN s : m < n => ~(s[m] \in X /\ s[n] \in Y)

(* The same of the way of a message of the driver: msgs, then m_cmd_q.     *)
InFlight(T) == Has(q.cmd, T) \/ Has(msgs, T)
OneInFlight(T) ==
    One(q.cmd, T) /\ One(msgs, T) /\ ~(Has(q.cmd, T) /\ Has(msgs, T))
NeverAhead(X, Y) ==
    Never(q.cmd, X, Y) /\ Never(msgs, X, Y) /\ ~(Has(q.cmd, X) /\ Has(msgs, Y))

Statuses == {"", "failed"}
Starts == {<<"START_DONE", "", st>> : st \in Statuses}
Pauses == {<<"PAUSE_DONE", "", st>> : st \in Statuses}
Resumes == {<<"RESUME_DONE", "", st>> : st \in Statuses}
Stops == {<<"STOP_DONE", "", st>> : st \in Statuses}
FlushesOf(p) == {<<"FLUSH_DONE", p, st>> : st \in Statuses}
Flushes == FlushesOf("in") \union FlushesOf("out")
Failures == {m \in Signals : m[3] = "failed"}
Ahead == Starts \union Resumes \union Flushes
EntriesOf(b) == {<<k, b[1], b[2]>> : k \in {"ETB", "FTB", "EBD", "FBD"}}
DonesOf(p) == {Done(b) : b \in Of(p)}

(* What stands for the state command the client waits for.                 *)
StateEvents == {"EVENT"} \X {"StateSet"} \X States
TokensOf(s) == {<<"COMMAND", "StateSet", s>>, <<"EVENT", "StateSet", s>>}
Refusal == <<"EVENT", "Error", "transition">>
IdleEvent == {Event("StateSet", "Idle")}
Tokens == (UNION {TokensOf(s) : s \in States}) \union {Refusal}
Goal(flag) ==
    CASE flag = "IDLE" -> "Idle"
      [] flag = "LOADING" -> "Loaded"
      [] flag = "EXECUTE" -> "Executing"
      [] flag = "PAUSE" -> "Pause"

TokenInv ==
    /\ One(q.cmd, Tokens)
    /\ Has(q.cmd, Tokens) => m_flags = {} /\ target # "none"
    /\ \A s \in States : Has(q.cmd, TokensOf(s)) => target = s
    /\ \A flag \in m_flags : m_flags = {flag} /\ target = Goal(flag)

CommandInv ==
    /\ Has(q.cmd, Commands) => waiting
    /\ One(q.cmd, Commands)
    /\ Never(q.cmd, Commands, StateEvents)

Match == CASE m_state = "Executing" -> "started"
           [] m_state = "Pause" -> "paused"
           [] OTHER -> "stopped"
Starting == m_state = "Idle" /\ m_flags \intersect {"EXECUTE", "PAUSE"} # {}
Still == ~Running /\ ~Starting

FlagsFit ==
    /\ "LOADING" \in m_flags => m_state = "Idle"
    /\ m_state \in {"Loaded", "WaitForResources"} => m_flags \subseteq {"IDLE"}
    /\ m_state = "Idle" => "IDLE" \notin m_flags

EventsFit ==
    /\ Running => ~Has(q.cmd, StateEvents)
    /\ ~Has(q.cmd, TokensOf("Executing") \intersect StateEvents)
    /\ ~Has(q.cmd, TokensOf("Pause") \intersect StateEvents)

PausesFit ==
    /\ InFlight(Pauses) => "PAUSE" \in m_flags /\ drv = "paused"
    /\ OneInFlight(Pauses)

StillFits ==
    Still => drv = "stopped" /\ ~InFlight(Ahead)

StartingFits ==
    Starting =>
        /\ drv = "started" \/ (drv = "paused" /\ "PAUSE" \in m_flags /\ ~InFlight(Stops))
        /\ ~InFlight(Resumes)
        /\ NeverAhead(Starts, Stops)

RunningFits ==
    Running =>
        /\ m_flags = {} => drv = Match
        /\ "EXECUTE" \in m_flags => m_state = "Pause" /\ drv = "started"
        /\ "PAUSE" \in m_flags => m_state = "Executing" /\ drv = "paused"
        /\ "IDLE" \in m_flags => drv \in {Match, "stopped"}
        /\ InFlight(Stops) => "IDLE" \in m_flags /\ drv = "stopped"
        /\ NeverAhead(Stops, Ahead)

DriverFits ==
    FlagsFit /\ EventsFit /\ PausesFit /\ StillFits /\ StartingFits /\ RunningFits
DriverInv == ~cut /\ ~failed => DriverFits

FlushInv == \A p \in flushing \ refused : InFlight(FlushesOf(p))

PopulatedInv ==
    ~cut /\ ~failed /\ m_state = "Loaded" =>
        /\ Has(q.cmd, IdleEvent) => \A p \in bEnabled : Full(p)
        /\ "IDLE" \in m_flags /\ ~stale => ~InFlight(Stops)

Placed(b) ==
    LET E == EntriesOf(b)
    IN /\ One(q.cmd, E) /\ One(q.ftb, E) /\ One(q.etb, E) /\ One(msgs, E)
       /\ Has(q.cmd, E) => ~Has(q.ftb, E) /\ ~Has(q.etb, E) /\ ~Has(msgs, E) /\ b \notin held
       /\ Has(q.ftb, E) => ~Has(q.etb, E) /\ ~Has(msgs, E) /\ b \notin held
       /\ Has(q.etb, E) => ~Has(msgs, E) /\ b \notin held
       /\ Has(msgs, E) => b \notin held
       /\ b \in lent <=> Has(q.cmd, E) \/ Has(q.ftb, E) \/ Has(q.etb, E)
                         \/ Has(msgs, E) \/ b \in held
BufferInv == \A b \in Buffers : Placed(b)

ToEncode == {"ETB"} \X {"in"} \X Slots
Quiet ==
    /\ q.ftb = <<>> /\ ~Has(q.etb, ToEncode)
    /\ \A b \in held : b[1] \in refused
    /\ \A p \in Ports \ refused : NeverAhead(Stops, DonesOf(p))
QuietInv == Running /\ "IDLE" \in m_flags /\ ~cut /\ ~failed => Quiet

NeverFull == \A k \in DOMAIN q : Len(q[k]) < QueueSize

-----------------------------------------------------------------------------
(* Sequences: what the steps of a queue do to Has, One and Never.          *)

LEMMA TailFacts ==
    ASSUME NEW S, NEW s \in Seq(S), s # <<>>
    PROVE  /\ Len(s) \in Nat /\ Len(s) >= 1
           /\ Head(s) \in S /\ Head(s) = s[1]
           /\ Tail(s) \in Seq(S) /\ Len(Tail(s)) = Len(s) - 1
           /\ DOMAIN s = 1..Len(s) /\ DOMAIN Tail(s) = 1..(Len(s) - 1)
           /\ \A n \in 1..(Len(s) - 1) : Tail(s)[n] = s[n + 1]
  BY EmptySeq, HeadTailProperties

LEMMA HasTail ==
    ASSUME NEW S, NEW s \in Seq(S), s # <<>>, NEW T
    PROVE  Has(s, T) <=> Head(s) \in T \/ Has(Tail(s), T)
  <1>1. ASSUME NEW n \in DOMAIN s, s[n] \in T PROVE Head(s) \in T \/ Has(Tail(s), T)
    <2>1. CASE n = 1
      BY <1>1, <2>1, TailFacts
    <2>2. CASE n # 1
      <3>1. n - 1 \in 1..(Len(s) - 1) /\ Tail(s)[n - 1] = s[n]
        BY <1>1, <2>2, TailFacts
      <3>2. QED BY <1>1, <3>1, TailFacts DEF Has
    <2>3. QED BY <2>1, <2>2
  <1>2. Head(s) \in T => Has(s, T)
    <2>1. 1 \in DOMAIN s
      BY TailFacts
    <2>2. QED BY <2>1, TailFacts DEF Has
  <1>3. ASSUME NEW n \in DOMAIN Tail(s), Tail(s)[n] \in T PROVE Has(s, T)
    <2>1. n + 1 \in DOMAIN s /\ s[n + 1] \in T
      BY <1>3, TailFacts
    <2>2. QED BY <2>1 DEF Has
  <1>4. QED BY <1>1, <1>2, <1>3 DEF Has

LEMMA OneTail ==
    ASSUME NEW S, NEW s \in Seq(S), s # <<>>, NEW T, One(s, T)
    PROVE  One(Tail(s), T) /\ ~(Head(s) \in T /\ Has(Tail(s), T))
  <1>1. \A n \in DOMAIN Tail(s) : n + 1 \in DOMAIN s /\ Tail(s)[n] = s[n + 1] /\ n \in Nat /\ n >= 1
    BY TailFacts
  <1>2. One(Tail(s), T)
    <2> SUFFICES ASSUME NEW m \in DOMAIN Tail(s), NEW n \in DOMAIN Tail(s),
                        Tail(s)[m] \in T, Tail(s)[n] \in T
                 PROVE  m = n
      BY DEF One
    <2>1. m + 1 = n + 1
      BY <1>1 DEF One
    <2>2. QED BY <1>1, <2>1
  <1>3. ASSUME Head(s) \in T, NEW n \in DOMAIN Tail(s), Tail(s)[n] \in T PROVE FALSE
    <2>1. 1 \in DOMAIN s /\ s[1] \in T
      BY <1>3, TailFacts
    <2>2. n + 1 = 1
      BY <1>1, <1>3, <2>1 DEF One
    <2>3. QED BY <1>1, <2>2
  <1>4. QED BY <1>2, <1>3 DEF Has

LEMMA NeverTail ==
    ASSUME NEW S, NEW s \in Seq(S), s # <<>>, NEW X, NEW Y, Never(s, X, Y)
    PROVE  Never(Tail(s), X, Y) /\ ~(Head(s) \in X /\ Has(Tail(s), Y))
  <1>1. \A n \in DOMAIN Tail(s) : n + 1 \in DOMAIN s /\ Tail(s)[n] = s[n + 1] /\ n \in Nat /\ n >= 1
    BY TailFacts
  <1>2. Never(Tail(s), X, Y)
    <2> SUFFICES ASSUME NEW m \in DOMAIN Tail(s), NEW n \in DOMAIN Tail(s), m < n
                 PROVE  ~(Tail(s)[m] \in X /\ Tail(s)[n] \in Y)
      BY DEF Never
    <2>1. m + 1 < n + 1
      BY <1>1
    <2>2. QED BY <1>1, <2>1 DEF Never
  <1>3. ASSUME Head(s) \in X, NEW n \in DOMAIN Tail(s), Tail(s)[n] \in Y PROVE FALSE
    <2>1. 1 \in DOMAIN s /\ s[1] \in X
      BY <1>3, TailFacts
    <2>2. n + 1 \in DOMAIN s /\ s[n + 1] \in Y /\ 1 < n + 1
      BY <1>1, <1>3
    <2>3. QED BY <2>1, <2>2 DEF Never
  <1>4. QED BY <1>2, <1>3 DEF Has

LEMMA AppendFacts ==
    ASSUME NEW S, NEW s \in Seq(S), NEW x \in S
    PROVE  /\ Len(s) \in Nat /\ DOMAIN s = 1..Len(s)
           /\ Append(s, x) \in Seq(S) /\ Len(Append(s, x)) = Len(s) + 1
           /\ DOMAIN Append(s, x) = 1..(Len(s) + 1)
           /\ \A n \in 1..Len(s) : Append(s, x)[n] = s[n]
           /\ Append(s, x)[Len(s) + 1] = x
  BY AppendProperties

LEMMA HasAppend ==
    ASSUME NEW S, NEW s \in Seq(S), NEW x \in S, NEW T
    PROVE  Has(Append(s, x), T) <=> Has(s, T) \/ x \in T
  <1>1. ASSUME NEW n \in DOMAIN Append(s, x), Append(s, x)[n] \in T
        PROVE  Has(s, T) \/ x \in T
    <2>1. n \in 1..Len(s) \/ n = Len(s) + 1
      BY AppendFacts
    <2>2. QED BY <1>1, <2>1, AppendFacts DEF Has
  <1>2. ASSUME NEW n \in DOMAIN s, s[n] \in T PROVE Has(Append(s, x), T)
    <2>1. n \in DOMAIN Append(s, x) /\ Append(s, x)[n] \in T
      BY <1>2, AppendFacts
    <2>2. QED BY <2>1 DEF Has
  <1>3. ASSUME x \in T PROVE Has(Append(s, x), T)
    <2>1. Len(s) + 1 \in DOMAIN Append(s, x) /\ Append(s, x)[Len(s) + 1] \in T
      BY <1>3, AppendFacts
    <2>2. QED BY <2>1 DEF Has
  <1>4. QED BY <1>1, <1>2, <1>3 DEF Has

LEMMA OneAppend ==
    ASSUME NEW S, NEW s \in Seq(S), NEW x \in S, NEW T,
           One(s, T), ~(Has(s, T) /\ x \in T)
    PROVE  One(Append(s, x), T)
  <1> SUFFICES ASSUME NEW m \in DOMAIN Append(s, x), NEW n \in DOMAIN Append(s, x),
                      Append(s, x)[m] \in T, Append(s, x)[n] \in T
               PROVE  m = n
    BY DEF One
  <1>1. /\ m \in DOMAIN s \/ m = Len(s) + 1
        /\ n \in DOMAIN s \/ n = Len(s) + 1
    BY AppendFacts
  <1>2. CASE m \in DOMAIN s /\ n \in DOMAIN s
    BY <1>2, AppendFacts DEF One
  <1>3. CASE x \notin T
    BY <1>1, <1>2, <1>3, AppendFacts
  <1>4. CASE ~Has(s, T)
    <2>1. \A k \in DOMAIN s : Append(s, x)[k] \notin T
      BY <1>4, AppendFacts DEF Has
    <2>2. QED BY <1>1, <2>1
  <1>5. QED BY <1>3, <1>4

LEMMA NeverAppend ==
    ASSUME NEW S, NEW s \in Seq(S), NEW x \in S, NEW X, NEW Y,
           Never(s, X, Y), ~(Has(s, X) /\ x \in Y)
    PROVE  Never(Append(s, x), X, Y)
  <1> SUFFICES ASSUME NEW m \in DOMAIN Append(s, x), NEW n \in DOMAIN Append(s, x), m < n,
                      Append(s, x)[m] \in X, Append(s, x)[n] \in Y
               PROVE  FALSE
    BY DEF Never
  <1>1. m \in DOMAIN s /\ (n \in DOMAIN s \/ n = Len(s) + 1)
    BY AppendFacts
  <1>2. s[m] \in X
    BY <1>1, AppendFacts
  <1>3. CASE n \in DOMAIN s
    BY <1>1, <1>2, <1>3, AppendFacts DEF Never
  <1>4. CASE n = Len(s) + 1
    BY <1>1, <1>2, <1>4, AppendFacts DEF Has
  <1>5. QED BY <1>1, <1>3, <1>4

LEMMA ConcatFacts ==
    ASSUME NEW S, NEW s \in Seq(S), NEW t \in Seq(S)
    PROVE  /\ s \o t \in Seq(S)
           /\ Len(s) \in Nat /\ Len(t) \in Nat
           /\ DOMAIN s = 1..Len(s) /\ DOMAIN t = 1..Len(t)
           /\ DOMAIN (s \o t) = 1..(Len(s) + Len(t))
           /\ \A n \in DOMAIN s : (s \o t)[n] = s[n]
           /\ \A n \in DOMAIN t : (s \o t)[Len(s) + n] = t[n]
           /\ \A n \in DOMAIN (s \o t) :
                 \/ n \in DOMAIN s
                 \/ n - Len(s) \in DOMAIN t /\ (s \o t)[n] = t[n - Len(s)]
  <1>1. /\ s \o t \in Seq(S) /\ Len(s \o t) = Len(s) + Len(t)
        /\ \A n \in 1..(Len(s) + Len(t)) :
              (s \o t)[n] = IF n <= Len(s) THEN s[n] ELSE t[n - Len(s)]
    BY ConcatProperties
  <1>2. Len(s) \in Nat /\ Len(t) \in Nat /\ DOMAIN s = 1..Len(s) /\ DOMAIN t = 1..Len(t)
    OBVIOUS
  <1>3. DOMAIN (s \o t) = 1..(Len(s) + Len(t))
    BY <1>1
  <1>4. \A n \in DOMAIN s : (s \o t)[n] = s[n]
    BY <1>1, <1>2
  <1>5. ASSUME NEW n \in DOMAIN t PROVE (s \o t)[Len(s) + n] = t[n]
    <2>1. Len(s) + n \in 1..(Len(s) + Len(t)) /\ ~(Len(s) + n <= Len(s))
      BY <1>2
    <2>2. (Len(s) + n) - Len(s) = n
      BY <1>2
    <2>3. QED BY <1>1, <2>1, <2>2
  <1>6. ASSUME NEW n \in DOMAIN (s \o t), n \notin DOMAIN s
        PROVE  n - Len(s) \in DOMAIN t /\ (s \o t)[n] = t[n - Len(s)]
    BY <1>1, <1>2, <1>3, <1>6
  <1>7. QED BY <1>1, <1>2, <1>3, <1>4, <1>5, <1>6

LEMMA HasConcat ==
    ASSUME NEW S, NEW s \in Seq(S), NEW t \in Seq(S), NEW T
    PROVE  Has(s \o t, T) <=> Has(s, T) \/ Has(t, T)
  <1>1. ASSUME NEW n \in DOMAIN (s \o t), (s \o t)[n] \in T PROVE Has(s, T) \/ Has(t, T)
    BY <1>1, ConcatFacts DEF Has
  <1>2. ASSUME NEW n \in DOMAIN s, s[n] \in T PROVE Has(s \o t, T)
    <2>1. n \in DOMAIN (s \o t) /\ (s \o t)[n] \in T
      BY <1>2, ConcatFacts
    <2>2. QED BY <2>1 DEF Has
  <1>3. ASSUME NEW n \in DOMAIN t, t[n] \in T PROVE Has(s \o t, T)
    <2>1. Len(s) + n \in DOMAIN (s \o t) /\ (s \o t)[Len(s) + n] \in T
      BY <1>3, ConcatFacts
    <2>2. QED BY <2>1 DEF Has
  <1>4. QED BY <1>1, <1>2, <1>3 DEF Has

LEMMA OneConcat ==
    ASSUME NEW S, NEW s \in Seq(S), NEW t \in Seq(S), NEW T,
           One(s, T), One(t, T), ~(Has(s, T) /\ Has(t, T))
    PROVE  One(s \o t, T)
  <1> SUFFICES ASSUME NEW m \in DOMAIN (s \o t), NEW n \in DOMAIN (s \o t),
                      (s \o t)[m] \in T, (s \o t)[n] \in T
               PROVE  m = n
    BY DEF One
  <1>1. CASE m \in DOMAIN s /\ n \in DOMAIN s
    BY <1>1, ConcatFacts DEF One
  <1>2. CASE m \notin DOMAIN s /\ n \notin DOMAIN s
    <2>1. m - Len(s) = n - Len(s)
      BY <1>2, ConcatFacts DEF One
    <2>2. m \in Nat /\ n \in Nat /\ Len(s) \in Nat
      BY ConcatFacts
    <2>3. QED BY <2>1, <2>2
  <1>3. CASE (m \in DOMAIN s) # (n \in DOMAIN s)
    BY <1>3, ConcatFacts DEF Has
  <1>4. QED BY <1>1, <1>2, <1>3

LEMMA NeverConcat ==
    ASSUME NEW S, NEW s \in Seq(S), NEW t \in Seq(S), NEW X, NEW Y,
           Never(s, X, Y), Never(t, X, Y), ~(Has(s, X) /\ Has(t, Y))
    PROVE  Never(s \o t, X, Y)
  <1> SUFFICES ASSUME NEW m \in DOMAIN (s \o t), NEW n \in DOMAIN (s \o t), m < n,
                      (s \o t)[m] \in X, (s \o t)[n] \in Y
               PROVE  FALSE
    BY DEF Never
  <1>1. CASE m \in DOMAIN s /\ n \in DOMAIN s
    BY <1>1, ConcatFacts DEF Never
  <1>2. CASE m \notin DOMAIN s /\ n \notin DOMAIN s
    <2>1. m \in Nat /\ n \in Nat /\ Len(s) \in Nat
      BY ConcatFacts
    <2>2. m - Len(s) < n - Len(s)
      BY <2>1
    <2>3. QED BY <1>2, <2>2, ConcatFacts DEF Never
  <1>3. CASE m \in DOMAIN s /\ n \notin DOMAIN s
    BY <1>3, ConcatFacts DEF Has
  <1>4. CASE m \notin DOMAIN s /\ n \in DOMAIN s
    BY <1>4, ConcatFacts
  <1>5. QED BY <1>1, <1>2, <1>3, <1>4

(* insert_entry either appends the entry or, when the queue is full, not.  *)
LEMMA InsertFacts ==
    ASSUME NEW S, NEW s \in Seq(S), NEW x \in S
    PROVE  /\ Insert(s, x) \in Seq(S)
           /\ Len(s) <= QueueSize => Len(Insert(s, x)) <= QueueSize
           /\ \A T : /\ Has(Insert(s, x), T) => Has(s, T) \/ x \in T
                     /\ Has(s, T) => Has(Insert(s, x), T)
                     /\ x \in T /\ Len(s) < QueueSize => Has(Insert(s, x), T)
                     /\ One(s, T) /\ ~(Has(s, T) /\ x \in T) => One(Insert(s, x), T)
           /\ \A X, Y : Never(s, X, Y) /\ ~(Has(s, X) /\ x \in Y)
                           => Never(Insert(s, x), X, Y)
  <1>1. QueueSize \in Nat
    BY BoundsAssumption
  <1>2. CASE Len(s) < QueueSize
    <2>1. Insert(s, x) = Append(s, x)
      BY <1>2 DEF Insert
    <2>2. Append(s, x) \in Seq(S) /\ Len(Append(s, x)) = Len(s) + 1 /\ Len(s) \in Nat
      BY AppendFacts
    <2>3. \A T : Has(Append(s, x), T) <=> Has(s, T) \/ x \in T
      BY HasAppend
    <2>4. \A T : One(s, T) /\ ~(Has(s, T) /\ x \in T) => One(Append(s, x), T)
      BY OneAppend
    <2>5. \A X, Y : Never(s, X, Y) /\ ~(Has(s, X) /\ x \in Y) => Never(Append(s, x), X, Y)
      BY NeverAppend
    <2>6. Len(Append(s, x)) <= QueueSize
      BY <1>1, <1>2, <2>2
    <2>7. QED BY <2>1, <2>2, <2>3, <2>4, <2>5, <2>6
  <1>3. CASE ~(Len(s) < QueueSize)
    BY <1>3 DEF Insert
  <1>4. QED BY <1>2, <1>3

(* What complete_pending_buffer_done_cbs leaves of a queue: the entries    *)
(* that are not done, each once.  The rank of such an entry among them is  *)
(* a bijection.                                                            *)
LEMMA Ranks ==
    ASSUME NEW k \in Nat, NEW left \in SUBSET (1..k)
    PROVE  LET rank(i) == Cardinality({j \in left : j <= i})
           IN /\ IsFiniteSet(left) /\ Cardinality(left) \in Nat /\ Cardinality(left) <= k
              /\ \A i \in left : rank(i) \in 1..Cardinality(left)
              /\ \A i, j \in left : rank(i) = rank(j) => i = j
              /\ \A n \in 1..Cardinality(left) : \E i \in left : rank(i) = n
  <1> DEFINE below(i) == {j \in left : j <= i}
             rank(i) == Cardinality(below(i))
             C == Cardinality(left)
  <1>1. IsFiniteSet(left) /\ C \in Nat /\ C <= k
    <2>1. IsFiniteSet(1..k) /\ Cardinality(1..k) = k
      BY FS_Interval
    <2>2. IsFiniteSet(left) /\ C <= k
      BY <2>1, FS_Subset
    <2>3. QED BY <2>2, FS_CardinalityType
  <1>2. ASSUME NEW i \in left PROVE rank(i) \in 1..C
    <2>1. below(i) \subseteq left /\ i \in below(i)
      BY left \subseteq Int
    <2>2. IsFiniteSet(below(i)) /\ rank(i) <= C
      BY <1>1, <2>1, FS_Subset
    <2>3. rank(i) \in Nat /\ rank(i) # 0
      BY <2>1, <2>2, FS_CardinalityType, FS_EmptySet
    <2>4. QED BY <1>1, <2>2, <2>3
  <1>3. ASSUME NEW i \in left, NEW j \in left, i < j PROVE rank(i) # rank(j)
    <2>1. below(i) \subseteq below(j) /\ j \in below(j) /\ j \notin below(i)
      <3>1. \A x \in left : x \in Int
        OBVIOUS
      <3>2. \A x \in left : x <= i => x <= j
        BY <1>3, <3>1
      <3>3. j <= j /\ ~(j <= i)
        BY <1>3, <3>1
      <3>4. QED BY <3>2, <3>3
    <2>2. IsFiniteSet(below(j))
      BY <1>1, FS_Subset, below(j) \subseteq left
    <2>3. Cardinality(below(j)) = Cardinality(below(i)) => below(j) = below(i)
      BY <2>1, <2>2, FS_Subset
    <2>4. QED BY <2>1, <2>3
  <1>4. ASSUME NEW i \in left, NEW j \in left, rank(i) = rank(j) PROVE i = j
    <2>1. i \in Int /\ j \in Int
      OBVIOUS
    <2>2. QED BY <1>3, <1>4, <2>1
  <1>5. ASSUME NEW n \in 1..C PROVE \E i \in left : rank(i) = n
    <2> DEFINE f == [i \in left |-> rank(i)]
    <2>1. f \in [left -> 1..C]
      BY <1>2
    <2>2. \A i, j \in left : f[i] = f[j] => i = j
      BY <1>4
    <2>3. f \in Injection(left, 1..C)
      BY <2>1, <2>2 DEF Injection, IsInjective
    <2>4. IsFiniteSet(1..C) /\ Cardinality(1..C) = C
      BY <1>1, FS_Interval
    <2> HIDE DEF f
    <2>5. f \in Surjection(left, 1..C)
      BY <2>3, <2>4, FS_Injection
    <2>6. \E i \in left : f[i] = n
      BY <2>5 DEF Surjection
    <2>7. QED BY <2>6 DEF f
  <1>6. QED BY <1>1, <1>2, <1>4, <1>5

LEMMA KeptFacts ==
    ASSUME NEW S, NEW s \in Seq(S)
    PROVE  /\ Kept(s) \in Seq(S)
           /\ Len(Kept(s)) <= Len(s)
           /\ \A T : /\ Has(Kept(s), T) <=> \E n \in DOMAIN s : ~IsDone(s[n]) /\ s[n] \in T
                     /\ One(s, T) => One(Kept(s), T)
  <1> DEFINE left == {i \in DOMAIN s : ~IsDone(s[i])}
             rank(i) == Cardinality({j \in left : j <= i})
             nth(n) == CHOOSE i \in left : rank(i) = n
             C == Cardinality(left)
  <1>1. Len(s) \in Nat /\ DOMAIN s = 1..Len(s) /\ left \in SUBSET (1..Len(s))
    OBVIOUS
  <1>2. Kept(s) = [n \in 1..C |-> s[nth(n)]]
    BY DEF Kept
  <1>3. /\ C \in Nat /\ C <= Len(s)
        /\ \A i \in left : rank(i) \in 1..C
        /\ \A i, j \in left : rank(i) = rank(j) => i = j
        /\ \A n \in 1..C : \E i \in left : rank(i) = n
    BY <1>1, Ranks
  <1> HIDE DEF left, rank, C
  <1>4. \A n \in 1..C : nth(n) \in left /\ rank(nth(n)) = n
    BY <1>3
  <1>5. \A i \in left : nth(rank(i)) = i
    BY <1>3, <1>4
  <1> HIDE DEF nth
  <1>6. \A i \in left : i \in DOMAIN s /\ s[i] \in S /\ ~IsDone(s[i])
    BY <1>1 DEF left
  <1>7. Kept(s) \in Seq(S) /\ Len(Kept(s)) = C /\ DOMAIN Kept(s) = 1..C
    BY <1>2, <1>3, <1>4, <1>6
  <1>8. ASSUME NEW T, NEW n \in DOMAIN Kept(s), Kept(s)[n] \in T
        PROVE  \E i \in DOMAIN s : ~IsDone(s[i]) /\ s[i] \in T
    BY <1>2, <1>4, <1>6, <1>7, <1>8
  <1>9. ASSUME NEW T, NEW i \in DOMAIN s, ~IsDone(s[i]), s[i] \in T
        PROVE  Has(Kept(s), T)
    <2>1. i \in left
      BY <1>9 DEF left
    <2>2. rank(i) \in DOMAIN Kept(s) /\ Kept(s)[rank(i)] = s[i]
      BY <1>2, <1>3, <1>5, <1>7, <2>1
    <2>3. QED BY <1>9, <2>2 DEF Has
  <1>10. ASSUME NEW T, One(s, T) PROVE One(Kept(s), T)
    <2> SUFFICES ASSUME NEW m \in DOMAIN Kept(s), NEW n \in DOMAIN Kept(s),
                        Kept(s)[m] \in T, Kept(s)[n] \in T
                 PROVE  m = n
      BY DEF One
    <2>1. s[nth(m)] \in T /\ s[nth(n)] \in T
      BY <1>2, <1>7
    <2>2. nth(m) = nth(n)
      BY <1>4, <1>6, <1>7, <1>10, <2>1 DEF One
    <2>3. QED BY <1>4, <1>7, <2>2
  <1>11. QED
    BY <1>3, <1>7, <1>8, <1>9, <1>10 DEF Has

-----------------------------------------------------------------------------
(* The queues of the component.                                            *)
Queues == [cmd : Seq(CmdEntries), ftb : Seq(FtbEntries), etb : Seq(EtbEntries)]
Sized(qq) ==
    Len(qq.cmd) <= QueueSize /\ Len(qq.ftb) <= QueueSize /\ Len(qq.etb) <= QueueSize

LEMMA QueuesType ==
    ASSUME TypeOK
    PROVE  /\ q \in Queues /\ Sized(q)
           /\ DOMAIN q = {"cmd", "ftb", "etb"}
           /\ q.cmd \in Seq(CmdEntries) /\ q.ftb \in Seq(FtbEntries) /\ q.etb \in Seq(EtbEntries)
  BY DEF TypeOK, Queues, Sized

LEMMA KindFacts ==
    /\ \A m \in CmdEntries : m[1] \notin {"FTB", "ETB", "EBD"}
    /\ \A m \in FtbEntries : m[1] = "FTB"
    /\ \A m \in EtbEntries : m[1] \in {"ETB", "EBD"}
  BY DEF CmdEntries, Commands, Events, Signals, DoneOut, FtbEntries, EtbEntries

LEMMA PostCmd ==
    ASSUME NEW qq \in Queues, NEW x \in CmdEntries
    PROVE  /\ Post(qq, x) \in Queues
           /\ Post(qq, x).cmd = Insert(qq.cmd, x)
           /\ Post(qq, x).ftb = qq.ftb /\ Post(qq, x).etb = qq.etb
           /\ Sized(qq) => Sized(Post(qq, x))
  <1>1. QueueOf(x) = "cmd"
    BY KindFacts DEF QueueOf
  <1>2. Post(qq, x) = [qq EXCEPT !.cmd = Insert(qq.cmd, x)]
    BY <1>1 DEF Post, Queues
  <1>3. qq.cmd \in Seq(CmdEntries)
    BY DEF Queues
  <1>4. /\ Insert(qq.cmd, x) \in Seq(CmdEntries)
        /\ Len(qq.cmd) <= QueueSize => Len(Insert(qq.cmd, x)) <= QueueSize
    BY <1>3, InsertFacts
  <1>5. QED
    BY <1>2, <1>4 DEF Queues, Sized

LEMMA PostFtb ==
    ASSUME NEW qq \in Queues, NEW x \in FtbEntries
    PROVE  /\ Post(qq, x) \in Queues
           /\ Post(qq, x).ftb = Insert(qq.ftb, x)
           /\ Post(qq, x).cmd = qq.cmd /\ Post(qq, x).etb = qq.etb
           /\ Sized(qq) => Sized(Post(qq, x))
  <1>1. QueueOf(x) = "ftb"
    BY KindFacts DEF QueueOf
  <1>2. Post(qq, x) = [qq EXCEPT !.ftb = Insert(qq.ftb, x)]
    BY <1>1 DEF Post, Queues
  <1>3. qq.ftb \in Seq(FtbEntries)
    BY DEF Queues
  <1>4. /\ Insert(qq.ftb, x) \in Seq(FtbEntries)
        /\ Len(qq.ftb) <= QueueSize => Len(Insert(qq.ftb, x)) <= QueueSize
    BY <1>3, InsertFacts
  <1>5. QED
    BY <1>2, <1>4 DEF Queues, Sized

LEMMA PostEtb ==
    ASSUME NEW qq \in Queues, NEW x \in EtbEntries
    PROVE  /\ Post(qq, x) \in Queues
           /\ Post(qq, x).etb = Insert(qq.etb, x)
           /\ Post(qq, x).cmd = qq.cmd /\ Post(qq, x).ftb = qq.ftb
           /\ Sized(qq) => Sized(Post(qq, x))
  <1>1. QueueOf(x) = "etb"
    BY KindFacts DEF QueueOf
  <1>2. Post(qq, x) = [qq EXCEPT !.etb = Insert(qq.etb, x)]
    BY <1>1 DEF Post, Queues
  <1>3. qq.etb \in Seq(EtbEntries)
    BY DEF Queues
  <1>4. /\ Insert(qq.etb, x) \in Seq(EtbEntries)
        /\ Len(qq.etb) <= QueueSize => Len(Insert(qq.etb, x)) <= QueueSize
    BY <1>3, InsertFacts
  <1>5. QED
    BY <1>2, <1>4 DEF Queues, Sized

(* What pop_entry takes, and from where.                                   *)
LEMMA RestFacts ==
    ASSUME TypeOK, Pending
    PROVE  /\ Rest \in Queues /\ Sized(Rest)
           /\ \/ /\ q.cmd # <<>> /\ Current = Head(q.cmd) /\ Current \in CmdEntries
                 /\ Rest.cmd = Tail(q.cmd) /\ Rest.ftb = q.ftb /\ Rest.etb = q.etb
              \/ /\ q.cmd = <<>> /\ q.ftb # <<>>
                 /\ Current = Head(q.ftb) /\ Current \in FtbEntries
                 /\ Rest.cmd = q.cmd /\ Rest.ftb = Tail(q.ftb) /\ Rest.etb = q.etb
              \/ /\ q.cmd = <<>> /\ q.ftb = <<>> /\ q.etb # <<>>
                 /\ Current = Head(q.etb) /\ Current \in EtbEntries
                 /\ Rest.cmd = q.cmd /\ Rest.ftb = q.ftb /\ Rest.etb = Tail(q.etb)
  <1>1. CASE q.cmd # <<>>
    <2>1. Turn = "cmd" /\ Current = Head(q.cmd) /\ Rest = [q EXCEPT !.cmd = Tail(q.cmd)]
      BY <1>1, QueuesType DEF Turn, Current, Rest
    <2>2. /\ Head(q.cmd) \in CmdEntries /\ Tail(q.cmd) \in Seq(CmdEntries)
          /\ Len(Tail(q.cmd)) = Len(q.cmd) - 1 /\ Len(q.cmd) \in Nat
      BY <1>1, QueuesType, TailFacts
    <2>3. Len(Tail(q.cmd)) <= QueueSize
      BY <2>2, QueuesType, BoundsAssumption DEF Sized
    <2>4. QED BY <1>1, <2>1, <2>2, <2>3, QueuesType DEF Queues, Sized
  <1>2. CASE q.cmd = <<>> /\ q.ftb # <<>>
    <2>1. Turn = "ftb" /\ Current = Head(q.ftb) /\ Rest = [q EXCEPT !.ftb = Tail(q.ftb)]
      BY <1>2, QueuesType DEF Turn, Current, Rest
    <2>2. /\ Head(q.ftb) \in FtbEntries /\ Tail(q.ftb) \in Seq(FtbEntries)
          /\ Len(Tail(q.ftb)) = Len(q.ftb) - 1 /\ Len(q.ftb) \in Nat
      BY <1>2, QueuesType, TailFacts
    <2>3. Len(Tail(q.ftb)) <= QueueSize
      BY <2>2, QueuesType, BoundsAssumption DEF Sized
    <2>4. QED BY <1>2, <2>1, <2>2, <2>3, QueuesType DEF Queues, Sized
  <1>3. CASE q.cmd = <<>> /\ q.ftb = <<>>
    <2>1. Turn = "etb" /\ Current = Head(q.etb) /\ Rest = [q EXCEPT !.etb = Tail(q.etb)]
      BY <1>3, QueuesType DEF Turn, Current, Rest
    <2>a. q.etb # <<>>
      BY <2>1 DEF Pending
    <2>2. /\ Head(q.etb) \in EtbEntries /\ Tail(q.etb) \in Seq(EtbEntries)
          /\ Len(Tail(q.etb)) = Len(q.etb) - 1 /\ Len(q.etb) \in Nat
      BY <2>a, QueuesType, TailFacts
    <2>3. Len(Tail(q.etb)) <= QueueSize
      BY <2>2, QueuesType, BoundsAssumption DEF Sized
    <2>4. QED BY <1>3, <2>1, <2>a, <2>2, <2>3, QueuesType DEF Queues, Sized
  <1>4. QED BY <1>1, <1>2, <1>3

(* Commands, events and what the driver says of itself are in m_cmd_q.     *)
LEMMA TakesCommand ==
    ASSUME TypeOK, Pending, Current[1] \notin {"FTB", "ETB", "EBD"}
    PROVE  /\ Rest \in Queues /\ Sized(Rest)
           /\ q.cmd # <<>> /\ Current = Head(q.cmd) /\ Current \in CmdEntries
           /\ Rest.cmd = Tail(q.cmd) /\ Rest.ftb = q.ftb /\ Rest.etb = q.etb
  BY RestFacts, KindFacts

LEMMA TakesEntry ==
    ASSUME TypeOK, Pending
    PROVE  /\ Current[1] = "FTB" =>
                 /\ q.cmd = <<>> /\ q.ftb # <<>> /\ Current = Head(q.ftb) /\ Current \in FtbEntries
                 /\ Rest.cmd = q.cmd /\ Rest.ftb = Tail(q.ftb) /\ Rest.etb = q.etb
           /\ Current[1] \in {"ETB", "EBD"} =>
                 /\ q.cmd = <<>> /\ q.etb # <<>> /\ Current = Head(q.etb) /\ Current \in EtbEntries
                 /\ Rest.cmd = q.cmd /\ Rest.ftb = q.ftb /\ Rest.etb = Tail(q.etb)
  BY RestFacts, KindFacts

-----------------------------------------------------------------------------
(* t is s with entries of N behind it, or some of them.                    *)
Grows(s, t, N) ==
    \A X, Y :
        /\ Has(s, X) => Has(t, X)
        /\ Has(t, X) => Has(s, X) \/ N \intersect X # {}
        /\ One(s, X) /\ N \intersect X = {} => One(t, X)
        /\ Never(s, X, Y) /\ (N \intersect Y = {} \/ ~Has(t, X)) => Never(t, X, Y)

LEMMA NeverWithout ==
    ASSUME NEW s, NEW X, NEW Y, ~Has(s, X) \/ ~Has(s, Y)
    PROVE  Never(s, X, Y)
  BY DEF Has, Never

LEMMA GrowsSame == \A s, N : Grows(s, s, N)
  BY DEF Grows

LEMMA GrowsTrans ==
    ASSUME NEW s, NEW t, NEW u, NEW M, NEW N, Grows(s, t, M), Grows(t, u, N)
    PROVE  Grows(s, u, M \union N)
  <1> SUFFICES ASSUME NEW X, NEW Y
               PROVE  /\ Has(s, X) => Has(u, X)
                      /\ Has(u, X) => Has(s, X) \/ (M \union N) \intersect X # {}
                      /\ One(s, X) /\ (M \union N) \intersect X = {} => One(u, X)
                      /\ Never(s, X, Y) /\ ((M \union N) \intersect Y = {} \/ ~Has(u, X))
                            => Never(u, X, Y)
    BY DEF Grows
  <1>1. /\ Has(s, X) => Has(t, X)
        /\ Has(t, X) => Has(s, X) \/ M \intersect X # {}
        /\ One(s, X) /\ M \intersect X = {} => One(t, X)
        /\ Never(s, X, Y) /\ (M \intersect Y = {} \/ ~Has(t, X)) => Never(t, X, Y)
    BY DEF Grows
  <1>2. /\ Has(t, X) => Has(u, X)
        /\ Has(u, X) => Has(t, X) \/ N \intersect X # {}
        /\ One(t, X) /\ N \intersect X = {} => One(u, X)
        /\ Never(t, X, Y) /\ (N \intersect Y = {} \/ ~Has(u, X)) => Never(u, X, Y)
    BY DEF Grows
  <1>3. \A Z : (M \union N) \intersect Z = {} <=> M \intersect Z = {} /\ N \intersect Z = {}
    OBVIOUS
  <1>4. QED BY <1>1, <1>2, <1>3

LEMMA GrowsInsert ==
    ASSUME NEW S, NEW s \in Seq(S), NEW x \in S
    PROVE  Grows(s, Insert(s, x), {x})
  <1> SUFFICES ASSUME NEW X, NEW Y
               PROVE  /\ Has(s, X) => Has(Insert(s, x), X)
                      /\ Has(Insert(s, x), X) => Has(s, X) \/ {x} \intersect X # {}
                      /\ One(s, X) /\ {x} \intersect X = {} => One(Insert(s, x), X)
                      /\ Never(s, X, Y) /\ ({x} \intersect Y = {} \/ ~Has(Insert(s, x), X))
                            => Never(Insert(s, x), X, Y)
    BY DEF Grows
  <1>1. \A Z : {x} \intersect Z # {} <=> x \in Z
    OBVIOUS
  <1>2. /\ Has(Insert(s, x), X) => Has(s, X) \/ x \in X
        /\ Has(s, X) => Has(Insert(s, x), X)
        /\ One(s, X) /\ ~(Has(s, X) /\ x \in X) => One(Insert(s, x), X)
        /\ Never(s, X, Y) /\ ~(Has(s, X) /\ x \in Y) => Never(Insert(s, x), X, Y)
    BY InsertFacts
  <1>3. QED BY <1>1, <1>2

LEMMA GrowsAppend ==
    ASSUME NEW S, NEW s \in Seq(S), NEW x \in S
    PROVE  /\ Append(s, x) \in Seq(S)
           /\ Grows(s, Append(s, x), {x})
           /\ \A X : ~Has(s, X) => One(Append(s, x), X)
           /\ \A X : x \in X => Has(Append(s, x), X)
  <1>1. \A X : Has(Append(s, x), X) <=> Has(s, X) \/ x \in X
    BY HasAppend
  <1>2. \A X : One(s, X) /\ ~(Has(s, X) /\ x \in X) => One(Append(s, x), X)
    BY OneAppend
  <1>3. \A X, Y : Never(s, X, Y) /\ ~(Has(s, X) /\ x \in Y) => Never(Append(s, x), X, Y)
    BY NeverAppend
  <1>4. \A X : ~Has(s, X) => One(s, X)
    BY DEF Has, One
  <1>5. \A Z : {x} \intersect Z # {} <=> x \in Z
    OBVIOUS
  <1>6. Grows(s, Append(s, x), {x})
    BY <1>1, <1>2, <1>3, <1>5 DEF Grows
  <1>7. QED BY <1>1, <1>2, <1>4, <1>6, AppendFacts

LEMMA GrowsConcat ==
    ASSUME NEW S, NEW s \in Seq(S), NEW t \in Seq(S), NEW N,
           \A X : Has(t, X) => N \intersect X # {}
    PROVE  s \o t \in Seq(S) /\ Grows(s, s \o t, N)
  <1> SUFFICES ASSUME NEW X, NEW Y
               PROVE  /\ Has(s, X) => Has(s \o t, X)
                      /\ Has(s \o t, X) => Has(s, X) \/ N \intersect X # {}
                      /\ One(s, X) /\ N \intersect X = {} => One(s \o t, X)
                      /\ Never(s, X, Y) /\ (N \intersect Y = {} \/ ~Has(s \o t, X))
                            => Never(s \o t, X, Y)
    BY ConcatFacts DEF Grows
  <1>1. \A Z : Has(s \o t, Z) <=> Has(s, Z) \/ Has(t, Z)
    BY HasConcat
  <1>2. One(s, X) /\ N \intersect X = {} => One(s \o t, X)
    <2> HAVE One(s, X) /\ N \intersect X = {}
    <2>1. ~Has(t, X)
      OBVIOUS
    <2>2. One(t, X)
      BY <2>1 DEF Has, One
    <2>3. QED BY <2>1, <2>2, OneConcat
  <1>3. Never(s, X, Y) /\ N \intersect Y = {} => Never(s \o t, X, Y)
    <2> HAVE Never(s, X, Y) /\ N \intersect Y = {}
    <2>1. ~Has(t, Y)
      OBVIOUS
    <2>2. Never(t, X, Y)
      BY <2>1, NeverWithout
    <2>3. QED BY <2>1, <2>2, NeverConcat
  <1>4. ~Has(s \o t, X) => Never(s \o t, X, Y)
    BY NeverWithout
  <1>5. QED BY <1>1, <1>2, <1>3, <1>4

(* A post to m_cmd_q that depends on a condition                           *)
LEMMA PostIfCmd ==
    ASSUME NEW qq \in Queues, NEW x \in CmdEntries, NEW c
    PROVE  /\ PostIf(qq, c, x) \in Queues
           /\ PostIf(qq, c, x).ftb = qq.ftb /\ PostIf(qq, c, x).etb = qq.etb
           /\ Sized(qq) => Sized(PostIf(qq, c, x))
           /\ Grows(qq.cmd, PostIf(qq, c, x).cmd, {x})
           /\ ~c => PostIf(qq, c, x) = qq
  <1>1. qq.cmd \in Seq(CmdEntries)
    BY DEF Queues
  <1>2. Grows(qq.cmd, Insert(qq.cmd, x), {x})
    BY <1>1, GrowsInsert
  <1>3. QED
    BY <1>2, PostCmd, GrowsSame DEF PostIf

LEMMA EventType ==
    /\ \A s \in States : Event("StateSet", s) \in CmdEntries
    /\ \A a \in Named : Event("PortEnable", a) \in CmdEntries /\ Event("PortDisable", a) \in CmdEntries
    /\ \A e \in {"transition", "unpopulated"} : Event("Error", e) \in CmdEntries
    /\ \A p \in Ports : p \in Named
    /\ \A a \in Named : PortsOf(a) \subseteq Ports
  BY DEF Event, CmdEntries, Events, Named, Ports, PortsOf

LEMMA PortEventsFacts ==
    ASSUME NEW qq \in Queues, NEW cmd \in {"PortEnable", "PortDisable"}, NEW a \in Named,
           NEW ready
    PROVE  /\ PortEvents(qq, cmd, a, ready) \in Queues
           /\ Sized(qq) => Sized(PortEvents(qq, cmd, a, ready))
           /\ Grows(qq.cmd, PortEvents(qq, cmd, a, ready).cmd, {Event(cmd, x) : x \in Named})
  <1> DEFINE first == PostIf(qq, "in" \in ready, Event(cmd, "in"))
             both == PostIf(first, "out" \in ready, Event(cmd, "out"))
             full == ready = PortsOf(a)
             all == PostIf(both, full, Event(cmd, a))
             N == {Event(cmd, x) : x \in Named}
  <1>1. Event(cmd, "in") \in CmdEntries /\ Event(cmd, "out") \in CmdEntries
        /\ Event(cmd, a) \in CmdEntries
    BY EventType DEF Ports
  <1>2. /\ first \in Queues
        /\ Sized(qq) => Sized(first)
        /\ Grows(qq.cmd, first.cmd, {Event(cmd, "in")})
    BY <1>1, PostIfCmd
  <1> HIDE DEF first
  <1>3. /\ both \in Queues
        /\ Sized(qq) => Sized(both)
        /\ Grows(first.cmd, both.cmd, {Event(cmd, "out")})
    BY <1>1, <1>2, PostIfCmd
  <1> HIDE DEF both, full
  <1>4. /\ all \in Queues
        /\ Sized(qq) => Sized(all)
        /\ Grows(both.cmd, all.cmd, {Event(cmd, a)})
    BY <1>1, <1>3, PostIfCmd
  <1> HIDE DEF all
  <1>5. Grows(qq.cmd, all.cmd, ({Event(cmd, "in")} \union {Event(cmd, "out")}) \union {Event(cmd, a)})
    BY <1>2, <1>3, <1>4, GrowsTrans
  <1>6. \A Z : N \intersect Z = {}
                  => (({Event(cmd, "in")} \union {Event(cmd, "out")}) \union {Event(cmd, a)}) \intersect Z = {}
    BY DEF Named, Ports
  <1>7. Grows(qq.cmd, all.cmd, N)
    BY <1>5, <1>6 DEF Grows
  <1>8. PortEvents(qq, cmd, a, ready) = all
    BY DEF PortEvents, all, full, both, first
  <1>9. QED BY <1>4, <1>7, <1>8

-----------------------------------------------------------------------------
(* The messages of the driver.                                             *)
LEMMA PortEventsKeep ==
    ASSUME NEW qq \in Queues, NEW cmd \in {"PortEnable", "PortDisable"}, NEW a \in Named,
           NEW ready
    PROVE  LET all == PortEvents(qq, cmd, a, ready)
           IN all \in Queues /\ all.ftb = qq.ftb /\ all.etb = qq.etb
  <1> DEFINE first == PostIf(qq, "in" \in ready, Event(cmd, "in"))
             both == PostIf(first, "out" \in ready, Event(cmd, "out"))
             full == ready = PortsOf(a)
             all == PostIf(both, full, Event(cmd, a))
  <1>1. Event(cmd, "in") \in CmdEntries /\ Event(cmd, "out") \in CmdEntries
        /\ Event(cmd, a) \in CmdEntries
    BY EventType DEF Ports
  <1>2. first \in Queues /\ first.ftb = qq.ftb /\ first.etb = qq.etb
    BY <1>1, PostIfCmd
  <1> HIDE DEF first
  <1>3. both \in Queues /\ both.ftb = qq.ftb /\ both.etb = qq.etb
    BY <1>1, <1>2, PostIfCmd
  <1> HIDE DEF both, full
  <1>4. all \in Queues /\ all.ftb = qq.ftb /\ all.etb = qq.etb
    BY <1>1, <1>3, PostIfCmd
  <1> HIDE DEF all
  <1>5. PortEvents(qq, cmd, a, ready) = all
    BY DEF PortEvents, all, full, both, first
  <1>6. QED BY <1>4, <1>5

LEMMA SetToSeqFacts ==
    ASSUME NEW S, IsFiniteSet(S)
    PROVE  /\ SetToSeq(S) \in Seq(S)
           /\ \A T : /\ Has(SetToSeq(S), T) <=> S \intersect T # {}
                     /\ (\A x, y \in S \intersect T : x = y) => One(SetToSeq(S), T)
  <1> DEFINE C == Cardinality(S)
             f == SetToSeq(S)
  <1>1. C \in Nat /\ ExistsBijection(1..C, S)
    BY FS_CardinalityType
  <1>2. PICK g : g \in Bijection(1..C, S)
    BY <1>1 DEF ExistsBijection
  <1>3. g \in [1..C -> S] /\ IsInjective(g)
    BY <1>2 DEF Bijection, Injection
  <1>4. f \in [1..C -> S] /\ IsInjective(f)
    BY <1>3 DEF SetToSeq
  <1> HIDE DEF f
  <1>5. f \in Injection(1..C, S)
    BY <1>4 DEF Injection
  <1>6. IsFiniteSet(1..C) /\ Cardinality(1..C) = C
    BY <1>1, FS_Interval
  <1>7. f \in Surjection(1..C, S)
    BY <1>5, <1>6, FS_Injection
  <1>8. /\ f \in Seq(S) /\ DOMAIN f = 1..C
        /\ \A n \in DOMAIN f : f[n] \in S
        /\ \A x \in S : \E n \in DOMAIN f : f[n] = x
        /\ \A m, n \in DOMAIN f : f[m] = f[n] => m = n
    BY <1>1, <1>4, <1>7 DEF Surjection, IsInjective
  <1>9. ASSUME NEW T PROVE Has(f, T) <=> S \intersect T # {}
    BY <1>8 DEF Has
  <1>10. ASSUME NEW T, \A x, y \in S \intersect T : x = y PROVE One(f, T)
    <2> SUFFICES ASSUME NEW m \in DOMAIN f, NEW n \in DOMAIN f, f[m] \in T, f[n] \in T
                 PROVE  m = n
      BY DEF One
    <2>1. f[m] = f[n]
      BY <1>8, <1>10
    <2>2. QED BY <1>8, <2>1
  <1>11. QED
    BY <1>8, <1>9, <1>10 DEF f

LEMMA BufferShape ==
    ASSUME NEW b \in Buffers
    PROVE  b[1] \in Ports /\ b[2] \in Slots /\ b = <<b[1], b[2]>>
  BY DEF Buffers

LEMMA DoneFacts ==
    ASSUME NEW b \in Buffers
    PROVE  /\ Done(b) \in Messages
           /\ b[1] = "in" => Done(b) \in EtbEntries /\ QueueOf(Done(b)) = "etb"
           /\ b[1] = "out" => Done(b) \in CmdEntries
           /\ Done(b) \in EntriesOf(b)
           /\ Done(b)[2] = b[1] /\ Done(b)[3] = b[2]
           /\ \A c \in Buffers : Done(b) \in EntriesOf(c) => b = c
           /\ Done(b)[1] \in {"EBD", "FBD"}
  <1>1. b[1] \in {"in", "out"} /\ b[2] \in Slots /\ b = <<b[1], b[2]>>
    BY BufferShape DEF Ports
  <1>2. Done(b) = <<IF b[1] = "in" THEN "EBD" ELSE "FBD", b[1], b[2]>>
    BY DEF Done
  <1>3. ASSUME NEW c \in Buffers, Done(b) \in EntriesOf(c) PROVE b = c
    <2>1. b[1] = c[1] /\ b[2] = c[2]
      BY <1>2, <1>3 DEF EntriesOf
    <2>2. QED BY <2>1, BufferShape
  <1>4. Done(b) \in EntriesOf(b)
    BY <1>1, <1>2 DEF EntriesOf
  <1>5. QED
    BY <1>1, <1>2, <1>3, <1>4 DEF Messages, DoneOut, EtbEntries, CmdEntries, QueueOf

LEMMA FiniteBuffers ==
    ASSUME NEW B \in SUBSET Buffers
    PROVE  IsFiniteSet({Done(b) : b \in B})
  <1>1. IsFiniteSet(Ports)
    <2>1. IsFiniteSet({"in"}) /\ IsFiniteSet({"out"})
      BY FS_Singleton
    <2>2. Ports = {"in"} \union {"out"}
      BY DEF Ports
    <2>3. QED BY <2>1, <2>2, FS_Union
  <1>2. IsFiniteSet(Buffers)
    BY <1>1, SlotsAssumption, FS_Product DEF Buffers
  <1>3. IsFiniteSet(B)
    BY <1>2, FS_Subset
  <1> DEFINE D == {Done(b) : b \in B}
             f == [b \in B |-> Done(b)]
  <1>4. f \in Surjection(B, D)
    BY DEF Surjection
  <1> HIDE DEF f
  <1>5. IsFiniteSet(D)
    BY <1>3, <1>4, FS_Surjection
  <1>6. QED BY <1>5

LEMMA StatusFacts == \A did \in BOOLEAN : Status(did) \in Statuses
  BY DEF Status, Statuses

LEMMA FlushReplyFacts ==
    ASSUME held \subseteq Buffers, NEW p \in Ports, NEW did
    PROVE  /\ FlushReply(p, did) \in Seq(Messages)
           /\ \A T : Has(FlushReply(p, did), T)
                        <=> \/ p \in did /\ \E b \in held : b[1] = p /\ Done(b) \in T
                            \/ <<"FLUSH_DONE", p, Status(p \in did)>> \in T
           /\ \A b \in Buffers : One(FlushReply(p, did), EntriesOf(b))
  <1> DEFINE back == IF p \in did THEN held \intersect Of(p) ELSE {}
             S == {Done(b) : b \in back}
             given == SetToSeq(S)
             flushed == <<"FLUSH_DONE", p, Status(p \in did)>>
  <1>0. back \subseteq Buffers /\ back \subseteq held
    OBVIOUS
  <1>a. \A T : S \intersect T # {} <=> p \in did /\ \E b \in held : b[1] = p /\ Done(b) \in T
    BY DEF Of
  <1>b. \A x \in S : \E c \in held : x = Done(c)
    OBVIOUS
  <1>1. IsFiniteSet(S) /\ S \subseteq Messages
    <2> HIDE DEF back
    <2>1. QED BY <1>0, FiniteBuffers, DoneFacts
  <1>2. flushed \in Messages
    BY DEF Messages, Signals, Status
  <1>5. FlushReply(p, did) = Append(given, flushed)
    BY DEF FlushReply
  <1> HIDE DEF S
  <1>3. /\ given \in Seq(S)
        /\ \A T : Has(given, T) <=> S \intersect T # {}
        /\ \A T : (\A x, y \in S \intersect T : x = y) => One(given, T)
    BY <1>1, SetToSeqFacts
  <1>4. given \in Seq(Messages)
    BY <1>1, <1>3
  <1>c. \A b \in Buffers : flushed \notin EntriesOf(b)
    BY DEF EntriesOf
  <1>d. flushed = <<"FLUSH_DONE", p, Status(p \in did)>>
    OBVIOUS
  <1> HIDE DEF given, flushed
  <1>7. \A T : Has(Append(given, flushed), T) <=> Has(given, T) \/ flushed \in T
    BY <1>2, <1>4, HasAppend
  <1>8. ASSUME NEW b \in Buffers PROVE One(Append(given, flushed), EntriesOf(b))
    <2>1. \A c \in held : Done(c) \in EntriesOf(b) => c = b
      BY DoneFacts
    <2>2. \A x, y \in S \intersect EntriesOf(b) : x = y
      BY <1>b, <2>1
    <2>3. flushed \notin EntriesOf(b)
      BY <1>c
    <2>4. One(given, EntriesOf(b))
      BY <1>3, <2>2
    <2>5. QED BY <1>2, <1>4, <2>3, <2>4, OneAppend
  <1>9. QED
    <2>1. Append(given, flushed) \in Seq(Messages)
      BY <1>2, <1>4, AppendFacts
    <2>2. ASSUME NEW T
          PROVE  Has(Append(given, flushed), T)
                    <=> \/ p \in did /\ \E b \in held : b[1] = p /\ Done(b) \in T
                        \/ <<"FLUSH_DONE", p, Status(p \in did)>> \in T
      BY <1>3, <1>a, <1>d, <1>7
    <2>3. QED BY <1>5, <1>8, <2>1, <2>2

(* What dev_flush sends: the buffers the driver had of the ports of did,   *)
(* and for those of ok that they are flushed.                              *)
Given(ok, did) ==
    {Done(b) : b \in {b \in held : b[1] \in did}}
    \union {<<"FLUSH_DONE", p, Status(p \in did)>> : p \in ok}

LEMMA DevFlush ==
    ASSUME TypeOK, NEW P \in SUBSET Ports, NEW ok \in SUBSET P, NEW did \in SUBSET P,
           dev_flush(P, ok, did)
    PROVE  /\ did \subseteq ok
           /\ msgs' \in Seq(Messages)
           /\ Grows(msgs, msgs', Given(ok, did))
           /\ \A p \in ok : Has(msgs', FlushesOf(p))
           /\ \A p \in ok \ did : Has(msgs', Failures)
           /\ \A b \in Buffers :
                 /\ Has(msgs', EntriesOf(b)) <=> Has(msgs, EntriesOf(b)) \/ (b \in held /\ b[1] \in did)
                 /\ One(msgs, EntriesOf(b)) /\ ~(Has(msgs, EntriesOf(b)) /\ b \in held)
                       => One(msgs', EntriesOf(b))
           /\ held' = {b \in held : b[1] \notin did}
           /\ refused' = refused \union (P \ ok) /\ drv' = drv
           /\ fails' \in 0..MaxFails
           /\ drv = "stopped" => ok = {}
           /\ failed' = (failed \/ ok # did) /\ failed' \in BOOLEAN
  <1> DEFINE R(p) == IF p \in ok THEN FlushReply(p, did) ELSE <<>>
             m1 == msgs \o R("in")
  <1>0. did \subseteq ok
    BY DEF dev_flush
  <1>1. held \subseteq Buffers /\ msgs \in Seq(Messages) /\ Ports = {"in", "out"}
    BY DEF TypeOK, Ports
  <1>2. ASSUME NEW p \in Ports
        PROVE  /\ R(p) \in Seq(Messages)
               /\ \A T : Has(R(p), T)
                    <=> p \in ok /\ (\/ p \in did /\ \E b \in held : b[1] = p /\ Done(b) \in T
                                     \/ <<"FLUSH_DONE", p, Status(p \in did)>> \in T)
               /\ \A b \in Buffers : One(R(p), EntriesOf(b))
    <2>1. CASE p \in ok
      BY <1>1, <2>1, FlushReplyFacts
    <2>2. CASE p \notin ok
      <3>1. R(p) = <<>>
        BY <2>2
      <3>2. <<>> \in Seq(Messages) /\ \A T : ~Has(<<>>, T) /\ One(<<>>, T)
        BY DEF Has, One
      <3>3. QED BY <2>2, <3>1, <3>2
    <2>3. QED BY <2>1, <2>2
  <1>3. msgs' = m1 \o R("out")
    BY DEF dev_flush
  <1> HIDE DEF R
  <1>4. m1 \in Seq(Messages) /\ \A T : Has(m1, T) <=> Has(msgs, T) \/ Has(R("in"), T)
    BY <1>1, <1>2, HasConcat, ConcatFacts
  <1> HIDE DEF m1
  <1>5. msgs' \in Seq(Messages) /\ \A T : Has(msgs', T) <=> Has(m1, T) \/ Has(R("out"), T)
    BY <1>1, <1>2, <1>3, <1>4, HasConcat, ConcatFacts
  <1>6. ASSUME NEW p \in Ports, NEW T, Has(R(p), T) PROVE Given(ok, did) \intersect T # {}
    <2>1. p \in ok
      BY <1>2, <1>6
    <2>2. CASE <<"FLUSH_DONE", p, Status(p \in did)>> \in T
      BY <2>1, <2>2 DEF Given
    <2>3. ASSUME NEW b \in held, b[1] = p, p \in did, Done(b) \in T
          PROVE Given(ok, did) \intersect T # {}
      <3>1. Done(b) \in Given(ok, did)
        BY <2>1, <2>3 DEF Given
      <3>2. QED BY <2>3, <3>1
    <2>4. QED BY <1>2, <1>6, <2>2, <2>3
  <1>7. Grows(msgs, m1, Given(ok, did)) /\ Grows(m1, msgs', Given(ok, did))
    BY <1>1, <1>2, <1>3, <1>4, <1>6, GrowsConcat DEF m1
  <1>8. Grows(msgs, msgs', Given(ok, did))
    BY <1>7, GrowsTrans, Given(ok, did) \union Given(ok, did) = Given(ok, did)
  <1>9. ASSUME NEW b \in Buffers
        PROVE  /\ Has(msgs', EntriesOf(b)) <=> Has(msgs, EntriesOf(b)) \/ (b \in held /\ b[1] \in did)
               /\ One(msgs, EntriesOf(b)) /\ ~(Has(msgs, EntriesOf(b)) /\ b \in held)
                     => One(msgs', EntriesOf(b))
    <2> DEFINE E == EntriesOf(b)
    <2>1. ASSUME NEW p \in Ports PROVE Has(R(p), E) <=> p \in did /\ b \in held /\ b[1] = p
      <3>1. <<"FLUSH_DONE", p, Status(p \in did)>> \notin E
        BY DEF EntriesOf
      <3>2. \A c \in held : Done(c) \in E <=> c = b
        BY <1>1, DoneFacts
      <3>3. QED BY <1>0, <1>2, <3>1, <3>2
    <2>2. b[1] = "in" \/ b[1] = "out"
      BY <1>1, BufferShape
    <2>3. Has(msgs', E) <=> Has(msgs, E) \/ (b \in held /\ b[1] \in did)
      BY <1>1, <1>4, <1>5, <2>1, <2>2
    <2>4. ASSUME One(msgs, E), ~(Has(msgs, E) /\ b \in held) PROVE One(msgs', E)
      <3>1. One(m1, E)
        BY <1>1, <1>2, <2>1, <2>4, OneConcat DEF m1
      <3>2. ~(Has(m1, E) /\ Has(R("out"), E))
        BY <1>1, <1>4, <2>1, <2>4
      <3>3. QED BY <1>1, <1>2, <1>3, <1>4, <3>1, <3>2, OneConcat
    <2>5. QED BY <2>3, <2>4
  <1>10. ASSUME NEW p \in ok, NEW T, <<"FLUSH_DONE", p, Status(p \in did)>> \in T PROVE Has(msgs', T)
    <2>1. p \in Ports
      OBVIOUS
    <2>2. Has(R(p), T)
      BY <1>2, <1>10, <2>1
    <2>3. QED BY <1>1, <1>4, <1>5, <2>1, <2>2
  <1>a. ASSUME NEW p \in ok PROVE Has(msgs', FlushesOf(p))
    BY <1>10 DEF FlushesOf, Status, Statuses
  <1>b. ASSUME NEW p \in ok \ did PROVE Has(msgs', Failures)
    <2>1. <<"FLUSH_DONE", p, Status(p \in did)>> \in Signals
      BY DEF Signals, Status
    <2>2. <<"FLUSH_DONE", p, Status(p \in did)>>[3] = "failed"
      BY DEF Status
    <2>3. QED BY <1>10, <2>1, <2>2 DEF Failures
  <1>11. fails' \in 0..MaxFails
    BY BoundsAssumption DEF dev_flush, MayFail, TypeOK
  <1>12. drv = "stopped" => ok = {}
    BY DEF dev_flush
  <1>c. failed' = (failed \/ ok # did) /\ failed' \in BOOLEAN
    <2>1. failed' = (failed \/ ok # did)
      BY Zenon DEF dev_flush
    <2>2. failed \in BOOLEAN
      BY DEF TypeOK
    <2>3. QED BY <2>1, <2>2, Zenon
  <1>13. QED
    BY <1>0, <1>5, <1>8, <1>9, <1>a, <1>b, <1>c, <1>11, <1>12 DEF dev_flush

(* A call is refused, or accepted and answered.                            *)
LEMMA IoctlFacts ==
    ASSUME TypeOK, NEW from, NEW to, NEW ok \in BOOLEAN,
           NEW m \in {"START_DONE", "PAUSE_DONE", "RESUME_DONE", "STOP_DONE"},
           to \in {"stopped", "started", "paused"}, Ioctl(from, to, m, ok)
    PROVE  /\ fails' \in 0..MaxFails /\ failed' \in BOOLEAN
           /\ drv' \in {"stopped", "started", "paused"}
           /\ msgs' \in Seq(Messages)
           /\ failed => failed'
           /\ ok => /\ drv \in from
                    /\ \/ drv' = to /\ msgs' = Append(msgs, <<m, "", "">>) /\ failed' = failed
                       \/ drv' = drv /\ msgs' = Append(msgs, <<m, "", "failed">>) /\ failed'
           /\ ~ok => drv' = drv /\ msgs' = msgs /\ failed' = failed
  <1>1. <<m, "", "">> \in Messages /\ <<m, "", "failed">> \in Messages
    BY DEF Messages, Signals
  <1>2. Append(msgs, <<m, "", "">>) \in Seq(Messages) /\ Append(msgs, <<m, "", "failed">>) \in Seq(Messages)
    BY <1>1, AppendFacts DEF TypeOK
  <1>3. /\ msgs \in Seq(Messages) /\ drv \in {"stopped", "started", "paused"} /\ fails \in 0..MaxFails
        /\ failed \in BOOLEAN
    BY DEF TypeOK
  <1>4. fails' \in 0..MaxFails
    <2>1. fails' = fails \/ (fails < MaxFails /\ fails' = fails + 1)
      BY Zenon DEF Ioctl, MayFail
    <2>2. QED BY <1>3, <2>1, BoundsAssumption
  <1>5. CASE drv \in from
    <2>1. PICK did \in BOOLEAN :
             /\ did => ok
             /\ drv' = IF did THEN to ELSE drv
             /\ msgs' = IF ok THEN Append(msgs, <<m, "", Status(did)>>) ELSE msgs
             /\ failed' = (failed \/ ok # did)
      BY <1>5, Zenon DEF Ioctl
    <2>2. CASE did = TRUE
      <3>1. drv' = to /\ msgs' = Append(msgs, <<m, "", "">>) /\ ok = TRUE
        BY <2>1, <2>2 DEF Status
      <3>2. failed' = failed
        BY <1>3, <2>1, <2>2, <3>1, Zenon
      <3>3. QED BY <1>2, <1>3, <1>4, <1>5, <3>1, <3>2
    <2>3. CASE did = FALSE /\ ok = TRUE
      <3>1. drv' = drv /\ msgs' = Append(msgs, <<m, "", "failed">>)
        BY <2>1, <2>3 DEF Status
      <3>2. failed' = TRUE
        BY <2>1, <2>3, Zenon
      <3>3. QED BY <1>2, <1>3, <1>4, <1>5, <2>3, <3>1, <3>2
    <2>4. CASE did = FALSE /\ ok = FALSE
      <3>1. drv' = drv /\ msgs' = msgs
        BY <2>1, <2>4
      <3>2. failed' = failed
        BY <1>3, <2>1, <2>4, Zenon
      <3>3. QED BY <1>3, <1>4, <2>4, <3>1, <3>2
    <2>5. QED BY <2>2, <2>3, <2>4
  <1>6. CASE drv \notin from
    BY <1>3, <1>4, <1>6 DEF Ioctl
  <1>7. QED BY <1>5, <1>6

LEMMA StopFacts ==
    ASSUME TypeOK, NEW ok \in BOOLEAN, dev_stop(ok)
    PROVE  /\ fails' \in 0..MaxFails /\ failed' \in BOOLEAN
           /\ drv' \in {"stopped", "started", "paused"}
           /\ msgs' \in Seq(Messages)
           /\ failed => failed'
           /\ ok => \/ /\ drv' = "stopped" /\ failed' = failed
                       /\ msgs' = Append(msgs, <<"STOP_DONE", "", "">>)
                    \/ /\ drv' = drv /\ failed'
                       /\ msgs' = Append(msgs, <<"STOP_DONE", "", "failed">>)
           /\ ~ok => drv' = drv /\ msgs' = msgs /\ failed' = failed
  <1>1. CASE drv = "stopped" /\ ~ok
    BY <1>1 DEF dev_stop, TypeOK
  <1>2. CASE ~(drv = "stopped" /\ ~ok)
    BY <1>2, IoctlFacts DEF dev_stop
  <1>3. QED BY <1>1, <1>2

(* What a handler leaves in the queues.                                    *)
LEMMA PopRest ==
    ASSUME TypeOK, Pending, Current[1] \notin {"FTB", "ETB", "EBD"}, q' = Rest
    PROVE  /\ q' \in Queues /\ Sized(q') /\ q'.ftb = q.ftb /\ q'.etb = q.etb
           /\ q.cmd # <<>> /\ Head(q.cmd) = Current /\ q'.cmd = Tail(q.cmd)
           /\ \A N : Grows(Tail(q.cmd), q'.cmd, N)
  BY TakesCommand, GrowsSame

LEMMA PopPost ==
    ASSUME TypeOK, Pending, Current[1] \notin {"FTB", "ETB", "EBD"},
           NEW x \in CmdEntries, q' = Post(Rest, x)
    PROVE  /\ q' \in Queues /\ Sized(q') /\ q'.ftb = q.ftb /\ q'.etb = q.etb
           /\ q.cmd # <<>> /\ Head(q.cmd) = Current /\ q'.cmd = Insert(Tail(q.cmd), x)
           /\ Grows(Tail(q.cmd), q'.cmd, {x})
           /\ \A T : ~Has(Tail(q.cmd), T) => One(q'.cmd, T)
  <1>1. /\ Rest \in Queues /\ Sized(Rest)
        /\ q.cmd # <<>> /\ Current = Head(q.cmd)
        /\ Rest.cmd = Tail(q.cmd) /\ Rest.ftb = q.ftb /\ Rest.etb = q.etb
    BY TakesCommand
  <1>2. /\ q' \in Queues /\ q'.cmd = Insert(Rest.cmd, x)
        /\ q'.ftb = Rest.ftb /\ q'.etb = Rest.etb /\ Sized(q')
    BY <1>1, PostCmd
  <1>3. Tail(q.cmd) \in Seq(CmdEntries)
    BY <1>1, QueuesType, TailFacts
  <1>4. Grows(Tail(q.cmd), Insert(Tail(q.cmd), x), {x})
    BY <1>3, GrowsInsert
  <1>5. ASSUME NEW T, ~Has(Tail(q.cmd), T) PROVE One(Insert(Tail(q.cmd), x), T)
    <2>1. One(Tail(q.cmd), T)
      BY <1>5 DEF Has, One
    <2>2. QED BY <1>3, <1>5, <2>1, InsertFacts
  <1>6. QED BY <1>1, <1>2, <1>4, <1>5

(* The parts of the type                                                   *)
FieldsOK ==
    /\ m_state \in States
    /\ m_flags \subseteq {"IDLE", "LOADING", "EXECUTE", "PAUSE"}
    /\ portFlags \in [Ports -> SUBSET {"FLUSH", "ENABLE", "DISABLE"}]
    /\ flushing \subseteq Ports /\ bEnabled \subseteq Ports
    /\ bm_count \subseteq Buffers /\ held \subseteq Buffers /\ lent \subseteq Buffers
    /\ waiting \in BOOLEAN /\ target \in States \union {"none"} /\ cmds \in 0..MaxCmds
    /\ refused \subseteq Ports /\ broken \in BOOLEAN /\ cut \in BOOLEAN
    /\ stale \in BOOLEAN /\ crossed \in BOOLEAN
DriverOK ==
    /\ msgs \in Seq(Messages) /\ drv \in {"stopped", "started", "paused"}
    /\ fails \in 0..MaxFails /\ failed \in BOOLEAN

LEMMA TypeParts == TypeOK <=> FieldsOK /\ DriverOK /\ q \in Queues /\ Sized(q)
  BY DEF TypeOK, FieldsOK, DriverOK, Queues, Sized

LEMMA TypePartsNext ==
    FieldsOK' /\ DriverOK' /\ q' \in Queues /\ Sized(q') => TypeOK'
  BY DEF TypeOK, FieldsOK, DriverOK, Queues, Sized

LEMMA InitType == Init => TypeOK
  <1> SUFFICES ASSUME Init PROVE TypeOK
    OBVIOUS
  <1>1. FieldsOK
    <2>1. /\ waiting \in BOOLEAN /\ broken \in BOOLEAN /\ cut \in BOOLEAN
          /\ stale \in BOOLEAN /\ crossed \in BOOLEAN
      BY Zenon DEF Init
    <2>2. portFlags \in [Ports -> SUBSET {"FLUSH", "ENABLE", "DISABLE"}]
      BY DEF Init
    <2>3. cmds \in 0..MaxCmds
      BY BoundsAssumption DEF Init
    <2>4. QED BY <2>1, <2>2, <2>3 DEF Init, FieldsOK, States
  <1>2. DriverOK
    <2>1. failed \in BOOLEAN
      BY Zenon DEF Init
    <2>2. QED BY <2>1, BoundsAssumption DEF Init, DriverOK
  <1>3. q \in Queues /\ Sized(q)
    BY BoundsAssumption DEF Init, Queues, Sized
  <1>4. QED BY <1>1, <1>2, <1>3, TypeParts

-----------------------------------------------------------------------------
(* The types, action by action.                                            *)
LEMMA StateCommandOutcome ==
    ASSUME TypeOK, NEW s \in States, Command("StateSet", s),
           q' = Rest \/ Complete(s) \/ Refuse \/ q' = Post(Rest, <<"RESUME_DONE", "", "">>)
    PROVE  q' \in Queues /\ Sized(q')
  <1>1. Pending /\ Current[1] \notin {"FTB", "ETB", "EBD"}
    BY DEF Command
  <1>2. Event("StateSet", s) \in CmdEntries /\ Event("Error", "transition") \in CmdEntries
    BY EventType
  <1>3. <<"RESUME_DONE", "", "">> \in CmdEntries
    BY DEF CmdEntries, Signals
  <1>4. QED
    BY <1>1, <1>2, <1>3, PopRest, PopPost DEF Complete, Refuse

LEMMA LoadedToType ==
    ASSUME TypeOK, NEW s \in States, LoadedTo(s) PROVE TypeOK'
  <1>1. Command("StateSet", s) /\ (q' = Rest \/ Complete(s) \/ Refuse)
    BY DEF LoadedTo, Later
  <1>2. q' \in Queues /\ Sized(q')
    BY <1>1, StateCommandOutcome
  <1>3. m_flags' \subseteq {"IDLE", "LOADING", "EXECUTE", "PAUSE"} /\ waiting' \in BOOLEAN
    BY DEF LoadedTo, Later, Command, TypeOK
  <1>4. stale' \in BOOLEAN
    BY Zenon DEF LoadedTo, StopOnItsWay, TypeOK
  <1>5. DriverOK'
    BY TypeParts DEF LoadedTo, DriverOK, driver
  <1>6. FieldsOK'
    BY <1>3, <1>4 DEF LoadedTo, FieldsOK, TypeOK, driver
  <1>7. QED BY <1>2, <1>5, <1>6, TypePartsNext

LEMMA IdleToType ==
    ASSUME TypeOK, NEW s \in States, IdleTo(s) PROVE TypeOK'
  <1>1. /\ Command("StateSet", s)
        /\ q' = Rest \/ Complete(s) \/ Refuse
        /\ m_flags' \in {m_flags, m_flags \union {"LOADING"}, m_flags \union {"EXECUTE"},
                         m_flags \union {"PAUSE"}}
        /\ broken' \in {broken, TRUE}
    BY DEF IdleTo, Later, StartFor, Report
  <1>2. q' \in Queues /\ Sized(q')
    BY <1>1, StateCommandOutcome
  <1>3. DriverOK'
    <2>1. CASE UNCHANGED <<drv, msgs, fails, failed>>
      BY <2>1, TypeParts DEF DriverOK
    <2>2. ASSUME NEW ok \in BOOLEAN, dev_stop(ok) PROVE DriverOK'
      BY <2>2, StopFacts DEF DriverOK
    <2>3. ASSUME NEW ok \in BOOLEAN, dev_start(ok) PROVE DriverOK'
      BY <2>3, IoctlFacts DEF DriverOK, dev_start
    <2>4. QED BY <2>1, <2>2, <2>3 DEF IdleTo, StartFor
  <1>4. FieldsOK'
    <2>1. broken' \in BOOLEAN /\ waiting' \in BOOLEAN
      BY <1>1, Zenon DEF Command, TypeOK
    <2>2. m_flags' \subseteq {"IDLE", "LOADING", "EXECUTE", "PAUSE"}
      BY <1>1 DEF TypeOK
    <2>3. QED BY <2>1, <2>2 DEF IdleTo, FieldsOK, TypeOK
  <1>5. QED BY <1>2, <1>3, <1>4, TypePartsNext

LEMMA RunningToType ==
    ASSUME TypeOK, NEW s \in States, RunningTo(s) PROVE TypeOK'
  <1>1. /\ Command("StateSet", s)
        /\ q' = Rest \/ Refuse \/ q' = Post(Rest, <<"RESUME_DONE", "", "">>)
        /\ m_flags' \in {m_flags, m_flags \union {"PAUSE"}, m_flags \union {"EXECUTE"}}
    BY DEF RunningTo, Later
  <1>2. q' \in Queues /\ Sized(q')
    BY <1>1, StateCommandOutcome
  <1>3. DriverOK'
    <2>1. CASE UNCHANGED <<drv, msgs, fails, failed>>
      BY <2>1, TypeParts DEF DriverOK
    <2>2. ASSUME NEW ok \in BOOLEAN, dev_pause(ok) PROVE DriverOK'
      BY <2>2, IoctlFacts DEF DriverOK, dev_pause
    <2>3. ASSUME NEW ok \in BOOLEAN, dev_resume(ok) PROVE DriverOK'
      BY <2>3, IoctlFacts DEF DriverOK, dev_resume
    <2>4. QED BY <2>1, <2>2, <2>3 DEF RunningTo
  <1>4. FieldsOK'
    <2>1. waiting' \in BOOLEAN
      BY <1>1 DEF Command
    <2>2. m_flags' \subseteq {"IDLE", "LOADING", "EXECUTE", "PAUSE"}
      BY <1>1 DEF TypeOK
    <2>3. QED BY <2>1, <2>2 DEF RunningTo, FieldsOK, TypeOK, history
  <1>5. QED BY <1>2, <1>3, <1>4, TypePartsNext

LEMMA WaitingToType ==
    ASSUME TypeOK, NEW s \in States, WaitingTo(s) PROVE TypeOK'
  <1>1. Command("StateSet", s) /\ (Complete(s) \/ Refuse)
    BY DEF WaitingTo
  <1>2. q' \in Queues /\ Sized(q')
    BY <1>1, StateCommandOutcome
  <1>3. DriverOK'
    BY TypeParts DEF WaitingTo, DriverOK, driver, history
  <1>4. FieldsOK'
    BY <1>1, TypeParts DEF WaitingTo, FieldsOK, flags, driver, history, Command
  <1>5. QED BY <1>2, <1>3, <1>4, TypePartsNext

(* A flush of the ports P leaves their queues empty.                       *)
LEMMA FlushFacts ==
    ASSUME TypeOK, NEW P \in SUBSET Ports, NEW qq \in Queues, execute_omx_flush(P, qq)
    PROVE  /\ q' \in Queues /\ (Sized(qq) => Sized(q'))
           /\ q'.cmd = qq.cmd
           /\ q'.ftb = IF "out" \in P THEN <<>> ELSE qq.ftb
           /\ q'.etb = IF "in" \in P THEN <<>> ELSE qq.etb
           /\ flushing' = flushing \union P
           /\ lent' = lent \ ((IF "out" \in P THEN BuffersIn(qq.ftb) ELSE {})
                              \union (IF "in" \in P THEN BuffersIn(qq.etb) ELSE {}))
           /\ \E ok, did \in SUBSET P : dev_flush(P, ok, did)
  <1>1. /\ Drained(P) \subseteq {"etb", "ftb"}
        /\ "etb" \in Drained(P) <=> "in" \in P
        /\ "ftb" \in Drained(P) <=> "out" \in P
    BY DEF Drained, PortQueue, Ports
  <1>2. q' = [k \in {"cmd", "ftb", "etb"} |-> IF k \in Drained(P) THEN <<>> ELSE qq[k]]
    BY DEF execute_omx_flush, Queues
  <1>3. /\ q'.cmd = qq.cmd
        /\ q'.ftb = IF "out" \in P THEN <<>> ELSE qq.ftb
        /\ q'.etb = IF "in" \in P THEN <<>> ELSE qq.etb
    BY <1>1, <1>2
  <1>4. q' \in Queues
    <2>1. q' = [cmd |-> q'.cmd, ftb |-> q'.ftb, etb |-> q'.etb]
      BY <1>2
    <2>2. /\ q'.cmd \in Seq(CmdEntries) /\ q'.ftb \in Seq(FtbEntries)
          /\ q'.etb \in Seq(EtbEntries)
      BY <1>3 DEF Queues
    <2>3. QED BY <2>1, <2>2 DEF Queues
  <1>5. Sized(qq) => Sized(q')
    BY <1>3, BoundsAssumption DEF Sized
  <1>6. UNION {BuffersIn(qq[k]) : k \in Drained(P)}
            = (IF "out" \in P THEN BuffersIn(qq.ftb) ELSE {})
              \union (IF "in" \in P THEN BuffersIn(qq.etb) ELSE {})
    BY <1>1
  <1>7. QED
    BY <1>3, <1>4, <1>5, <1>6 DEF execute_omx_flush

LEMMA FlushType ==
    ASSUME TypeOK, NEW P \in SUBSET Ports, NEW qq \in Queues, Sized(qq), execute_omx_flush(P, qq)
    PROVE  /\ q' \in Queues /\ Sized(q') /\ DriverOK'
           /\ flushing' \subseteq Ports /\ lent' \subseteq Buffers
           /\ held' \subseteq Buffers /\ refused' \subseteq Ports
  <1>1. PICK ok \in SUBSET P, did \in SUBSET P : dev_flush(P, ok, did)
    BY FlushFacts
  <1>2. /\ msgs' \in Seq(Messages) /\ fails' \in 0..MaxFails /\ drv' = drv /\ failed' \in BOOLEAN
        /\ held' = {b \in held : b[1] \notin did} /\ refused' = refused \union (P \ ok)
    BY <1>1, DevFlush
  <1>3. q' \in Queues /\ Sized(q') /\ flushing' = flushing \union P /\ lent' \subseteq lent
    BY FlushFacts
  <1>4. QED
    BY <1>2, <1>3 DEF DriverOK, TypeOK

LEMMA RunningToIdleType == TypeOK /\ RunningToIdle => TypeOK'
  <1> SUFFICES ASSUME TypeOK, RunningToIdle PROVE TypeOK'
    OBVIOUS
  <1>1. Rest \in Queues /\ Sized(Rest)
    BY RestFacts DEF RunningToIdle, Command
  <1>2. /\ q' \in Queues /\ Sized(q') /\ DriverOK'
        /\ flushing' \subseteq Ports /\ lent' \subseteq Buffers
        /\ held' \subseteq Buffers /\ refused' \subseteq Ports
    BY <1>1, FlushType DEF RunningToIdle
  <1>3. FieldsOK'
    BY <1>2 DEF RunningToIdle, FieldsOK, TypeOK, Command
  <1>4. QED BY <1>2, <1>3, TypePartsNext

LEMMA WithFlagType ==
    ASSUME TypeOK, NEW P, NEW flag \in {"FLUSH", "ENABLE", "DISABLE"}
    PROVE  WithFlag(P, flag) \in [Ports -> SUBSET {"FLUSH", "ENABLE", "DISABLE"}]
  BY DEF WithFlag, TypeOK

LEMMA FlushCommandType ==
    ASSUME TypeOK, NEW a \in Named, Flush(a) PROVE TypeOK'
  <1>1. Rest \in Queues /\ Sized(Rest) /\ PortsOf(a) \in SUBSET Ports
    BY RestFacts, EventType DEF Flush, Command
  <1>2. /\ q' \in Queues /\ Sized(q') /\ DriverOK'
        /\ flushing' \subseteq Ports /\ lent' \subseteq Buffers
        /\ held' \subseteq Buffers /\ refused' \subseteq Ports
    BY <1>1, FlushType DEF Flush
  <1>3. portFlags' \in [Ports -> SUBSET {"FLUSH", "ENABLE", "DISABLE"}]
    BY WithFlagType DEF Flush
  <1>4. crossed' \in BOOLEAN
    BY Zenon DEF Flush, TypeOK
  <1>5. FieldsOK'
    BY <1>2, <1>3, <1>4 DEF Flush, FieldsOK, TypeOK, Command
  <1>6. QED BY <1>2, <1>5, TypePartsNext

LEMMA PortEnableType ==
    ASSUME TypeOK, NEW a \in Named, PortEnable(a) PROVE TypeOK'
  <1> DEFINE ready == {p \in PortsOf(a) :
                          (m_state = "Loaded" /\ "IDLE" \notin m_flags) \/ Full(p)}
  <1>1. /\ Command("PortEnable", a)
        /\ bEnabled' = bEnabled \union PortsOf(a)
        /\ portFlags' = WithFlag(PortsOf(a) \ ready, "ENABLE")
        /\ q' = PortEvents(Rest, "PortEnable", a, ready)
        /\ UNCHANGED <<m_state, m_flags, flushing, bm_count, driver, lent, target,
                       cmds, fails, history>>
    BY DEF PortEnable
  <1> HIDE DEF ready
  <1>2. Rest \in Queues /\ Sized(Rest) /\ PortsOf(a) \in SUBSET Ports
    BY <1>1, RestFacts, EventType DEF Command
  <1>3. q' \in Queues /\ Sized(q')
    BY <1>1, <1>2, PortEventsFacts
  <1>4. portFlags' \in [Ports -> SUBSET {"FLUSH", "ENABLE", "DISABLE"}]
    BY <1>1, WithFlagType
  <1>5. FieldsOK'
    BY <1>1, <1>2, <1>4 DEF FieldsOK, TypeOK, Command, driver, history
  <1>6. DriverOK'
    BY <1>1, TypeParts DEF DriverOK, driver, history
  <1>7. QED BY <1>3, <1>5, <1>6, TypePartsNext

LEMMA PortDisableType ==
    ASSUME TypeOK, NEW a \in Named, PortDisable(a) PROVE TypeOK'
  <1> DEFINE ready == {p \in PortsOf(a) : m_state \in {"Loaded", "Idle"} /\ Released(p)}
             posted == PortEvents(Rest, "PortDisable", a, ready)
  <1>1. /\ Command("PortDisable", a)
        /\ bEnabled' = bEnabled \ PortsOf(a)
        /\ portFlags' = WithFlag(PortsOf(a) \ ready, "DISABLE")
        /\ IF Running
           THEN execute_omx_flush(PortsOf(a), posted)
           ELSE q' = posted /\ UNCHANGED <<flushing, lent, driver, fails, refused, failed>>
        /\ UNCHANGED <<m_state, m_flags, bm_count, target, cmds, broken, cut, stale, crossed>>
    BY DEF PortDisable
  <1> HIDE DEF ready
  <1>2. Rest \in Queues /\ Sized(Rest) /\ PortsOf(a) \in SUBSET Ports
    BY <1>1, RestFacts, EventType DEF Command
  <1>3. posted \in Queues /\ Sized(posted)
    BY <1>2, PortEventsFacts
  <1> HIDE DEF posted
  <1>4. portFlags' \in [Ports -> SUBSET {"FLUSH", "ENABLE", "DISABLE"}]
    BY <1>1, WithFlagType
  <1>5. /\ q' \in Queues /\ Sized(q') /\ DriverOK'
        /\ flushing' \subseteq Ports /\ lent' \subseteq Buffers
        /\ held' \subseteq Buffers /\ refused' \subseteq Ports
    <2>1. CASE Running
      BY <1>1, <1>2, <1>3, <2>1, FlushType
    <2>2. CASE ~Running
      BY <1>1, <1>3, <2>2, TypeParts DEF DriverOK, FieldsOK, driver
    <2>3. QED BY <2>1, <2>2
  <1>6. FieldsOK'
    BY <1>1, <1>4, <1>5 DEF FieldsOK, TypeOK, Command
  <1>7. QED BY <1>5, <1>6, TypePartsNext

LEMMA CommandEntry ==
    /\ \A s \in States : <<"EVENT", "StateSet", s>> \in CmdEntries
    /\ \A m \in CmdEntries : m[1] = "EVENT" /\ m[2] = "StateSet" => m[3] \in States
  BY DEF CmdEntries, Commands, Events, Signals, DoneOut

LEMMA GenerateEventType == TypeOK /\ GenerateEvent => TypeOK'
  <1> SUFFICES ASSUME TypeOK, GenerateEvent PROVE TypeOK'
    OBVIOUS
  <1>1. Pending /\ Current[1] = "EVENT" /\ q' = Rest
    BY DEF GenerateEvent, Take
  <1>2. q' \in Queues /\ Sized(q')
    BY <1>1, PopRest
  <1>3. Current[2] = "StateSet" => Current[3] \in States
    BY <1>1, TakesCommand, CommandEntry
  <1>4. m_state' \in States /\ target' \in States \union {"none"}
    BY <1>3 DEF GenerateEvent, TypeOK
  <1>5. FieldsOK'
    BY <1>4, TypeParts DEF GenerateEvent, FieldsOK, flags, driver, history
  <1>6. DriverOK'
    BY TypeParts DEF GenerateEvent, DriverOK, driver, history
  <1>7. QED BY <1>2, <1>5, <1>6, TypePartsNext

(* The buffer of an entry of m_ftb_q or m_etb_q                            *)
LEMMA EntryShape ==
    /\ \A m \in FtbEntries : m = <<"FTB", "out", m[3]>> /\ m[3] \in Slots
                             /\ BufferOf(m) \in Buffers /\ BufferOf(m)[1] = "out"
    /\ \A m \in EtbEntries : m = <<m[1], "in", m[3]>> /\ m[3] \in Slots
                             /\ BufferOf(m) \in Buffers /\ BufferOf(m)[1] = "in"
    /\ \A m \in CmdEntries : m[1] = "FBD" =>
                             /\ m = <<"FBD", "out", m[3]>> /\ m[3] \in Slots
                             /\ BufferOf(m) \in Buffers /\ BufferOf(m)[1] = "out"
  <1>1. ASSUME NEW k, NEW p \in Ports, NEW s \in Slots, NEW m, m = <<k, p, s>>
        PROVE  /\ m[1] = k /\ m[2] = p /\ m[3] = s
               /\ BufferOf(m) \in Buffers /\ BufferOf(m)[1] = p
    <2>1. BufferOf(m) = <<p, s>> /\ <<p, s>> \in Buffers
      BY <1>1 DEF BufferOf, Buffers
    <2>2. <<p, s>>[1] = p
      OBVIOUS
    <2>3. QED BY <1>1, <2>1, <2>2
  <1>2. ASSUME NEW m \in CmdEntries, m[1] = "FBD" PROVE m \in DoneOut
    BY <1>2 DEF CmdEntries, Commands, Events, Signals
  <1>3. ASSUME NEW m \in FtbEntries
        PROVE  /\ m = <<"FTB", "out", m[3]>> /\ m[3] \in Slots
               /\ BufferOf(m) \in Buffers /\ BufferOf(m)[1] = "out"
    <2>1. PICK s \in Slots : m = <<"FTB", "out", s>>
      BY DEF FtbEntries
    <2>2. QED BY <1>1, <2>1 DEF Ports
  <1>4. ASSUME NEW m \in EtbEntries
        PROVE  /\ m = <<m[1], "in", m[3]>> /\ m[3] \in Slots
               /\ BufferOf(m) \in Buffers /\ BufferOf(m)[1] = "in"
    <2>1. PICK k \in {"ETB", "EBD"}, s \in Slots : m = <<k, "in", s>>
      BY DEF EtbEntries
    <2>2. QED BY <1>1, <2>1 DEF Ports
  <1>5. ASSUME NEW m \in CmdEntries, m[1] = "FBD"
        PROVE  /\ m = <<"FBD", "out", m[3]>> /\ m[3] \in Slots
               /\ BufferOf(m) \in Buffers /\ BufferOf(m)[1] = "out"
    <2>1. PICK s \in Slots : m = <<"FBD", "out", s>>
      BY <1>2, <1>5 DEF DoneOut
    <2>2. QED BY <1>1, <2>1 DEF Ports
  <1>6. QED BY <1>3, <1>4, <1>5

LEMMA EncodeType ==
    ASSUME TypeOK, NEW b \in Buffers, Encode(b)
    PROVE  /\ q' = Rest \/ q' = Post(Rest, Done(b))
           /\ held' \subseteq Buffers /\ broken' \in BOOLEAN /\ fails' \in 0..MaxFails
           /\ \/ q' = Rest /\ held' = held \union {b} /\ drv # "stopped"
              \/ q' = Post(Rest, Done(b)) /\ held' = held
  <1>1. PICK ok \in BOOLEAN :
           /\ IF drv = "stopped" THEN ~ok /\ fails' = fails ELSE MayFail(ok)
           /\ IF ok
              THEN q' = Rest /\ held' = held \union {b} /\ UNCHANGED broken
              ELSE q' = Post(Rest, Done(b)) /\ Report /\ UNCHANGED held
    BY DEF Encode
  <1>2. fails' = fails \/ (fails < MaxFails /\ fails' = fails + 1)
    BY <1>1, Zenon DEF MayFail
  <1>3. fails' \in 0..MaxFails
    BY <1>2, BoundsAssumption DEF TypeOK
  <1>4. broken' \in BOOLEAN
    BY <1>1, Zenon DEF Report, TypeOK
  <1>5. QED
    BY <1>1, <1>3, <1>4 DEF TypeOK

LEMMA EmptyType == TypeOK /\ empty_this_buffer_proxy => TypeOK'
  <1> SUFFICES ASSUME TypeOK, empty_this_buffer_proxy PROVE TypeOK'
    OBVIOUS
  <1> DEFINE b == BufferOf(Current)
  <1>1. Pending /\ Current[1] = "ETB"
    BY DEF empty_this_buffer_proxy, Take
  <1>2. Rest \in Queues /\ Sized(Rest)
    BY <1>1, RestFacts
  <1>3. b \in Buffers /\ b[1] = "in" /\ Done(b) \in EtbEntries
    BY <1>1, TakesEntry, EntryShape, DoneFacts
  <1>4. /\ q' = Rest \/ q' = Post(Rest, Done(b))
        /\ held' \subseteq Buffers /\ broken' \in BOOLEAN /\ fails' \in 0..MaxFails
    BY <1>3, EncodeType DEF empty_this_buffer_proxy, TypeOK
  <1> HIDE DEF b
  <1>5. q' \in Queues /\ Sized(q')
    BY <1>2, <1>3, <1>4, PostEtb
  <1>6. FieldsOK' /\ DriverOK'
    BY <1>4, TypeParts DEF empty_this_buffer_proxy, FieldsOK, DriverOK, flags
  <1>7. QED BY <1>5, <1>6, TypePartsNext

LEMMA FillType == TypeOK /\ fill_this_buffer_proxy => TypeOK'
  <1> SUFFICES ASSUME TypeOK, fill_this_buffer_proxy PROVE TypeOK'
    OBVIOUS
  <1> DEFINE b == BufferOf(Current)
  <1>1. Pending /\ Current[1] = "FTB"
    BY DEF fill_this_buffer_proxy, Take
  <1>2. Rest \in Queues /\ Sized(Rest)
    BY <1>1, RestFacts
  <1>3. b \in Buffers /\ b[1] = "out" /\ Done(b) \in CmdEntries
    BY <1>1, TakesEntry, EntryShape, DoneFacts
  <1>4. /\ q' = Rest \/ q' = Post(Rest, Done(b))
        /\ held' \subseteq Buffers /\ broken' \in BOOLEAN /\ fails' \in 0..MaxFails
    BY <1>3, EncodeType DEF fill_this_buffer_proxy, TypeOK
  <1> HIDE DEF b
  <1>5. q' \in Queues /\ Sized(q')
    BY <1>2, <1>3, <1>4, PostCmd
  <1>6. FieldsOK' /\ DriverOK'
    BY <1>4, TypeParts DEF fill_this_buffer_proxy, FieldsOK, DriverOK, flags
  <1>7. QED BY <1>5, <1>6, TypePartsNext

LEMMA BufferDoneType == TypeOK /\ BufferDone => TypeOK'
  <1> SUFFICES ASSUME TypeOK, BufferDone PROVE TypeOK'
    OBVIOUS
  <1>1. Pending /\ q' = Rest
    BY DEF BufferDone, Take
  <1>2. q' \in Queues /\ Sized(q')
    BY <1>1, RestFacts
  <1>3. FieldsOK' /\ DriverOK'
    BY TypeParts DEF BufferDone, FieldsOK, DriverOK, flags, driver, history
  <1>4. QED BY <1>2, <1>3, TypePartsNext

LEMMA FlushDoneType ==
    ASSUME TypeOK, NEW p \in Ports, FlushDone(p) PROVE TypeOK'
  <1>1. Pending /\ q' = Rest
    BY DEF FlushDone, Take
  <1>2. q' \in Queues /\ Sized(q')
    BY <1>1, RestFacts
  <1>3. /\ DriverOK'
        /\ broken' \in {broken, TRUE}
        /\ portFlags' \in {portFlags, [portFlags EXCEPT ![p] = @ \ {"FLUSH"}]}
    <2>1. CASE UNCHANGED <<drv, msgs, fails, failed>> /\ UNCHANGED broken
      BY <2>1, TypeParts DEF FlushDone, DriverOK
    <2>2. ASSUME NEW ok \in BOOLEAN, dev_stop(ok), IF ok THEN UNCHANGED broken ELSE Report,
                 UNCHANGED portFlags
          PROVE  DriverOK' /\ broken' \in {broken, TRUE} /\ portFlags' = portFlags
      BY <2>2, StopFacts DEF DriverOK, Report
    <2>3. QED BY <2>1, <2>2 DEF FlushDone
  <1>4. portFlags' \in [Ports -> SUBSET {"FLUSH", "ENABLE", "DISABLE"}]
    BY <1>3 DEF TypeOK
  <1>5. broken' \in BOOLEAN
    BY <1>3, Zenon DEF TypeOK
  <1>6. FieldsOK'
    BY <1>4, <1>5, TypeParts DEF FlushDone, FieldsOK
  <1>7. QED BY <1>2, <1>3, <1>6, TypePartsNext

LEMMA StartDoneType == TypeOK /\ StartDone => TypeOK'
  <1> SUFFICES ASSUME TypeOK, StartDone PROVE TypeOK'
    OBVIOUS
  <1>1. Pending /\ q' = Rest
    BY DEF StartDone, Take
  <1>2. q' \in Queues /\ Sized(q')
    BY <1>1, RestFacts
  <1>3. /\ DriverOK'
        /\ broken' \in {broken, TRUE}
        /\ m_flags' \subseteq m_flags
        /\ m_state' \in {m_state, "Executing"} /\ target' \in {target, "none"}
    <2>1. CASE UNCHANGED <<drv, msgs, fails, failed, broken>>
      BY <2>1, TypeParts DEF StartDone, DriverOK, Enter, PauseAfterStart
    <2>2. ASSUME NEW ok \in BOOLEAN, dev_pause(ok), IF ok THEN UNCHANGED broken ELSE Report,
                 UNCHANGED <<m_state, m_flags, target>>
          PROVE  /\ DriverOK' /\ broken' \in {broken, TRUE} /\ m_flags' = m_flags
                 /\ m_state' = m_state /\ target' = target
      BY <2>2, IoctlFacts DEF DriverOK, Report, dev_pause
    <2>3. QED BY <2>1, <2>2 DEF StartDone, PauseAfterStart
  <1>4. broken' \in BOOLEAN
    BY <1>3, Zenon DEF TypeOK
  <1>5. FieldsOK'
    BY <1>3, <1>4, TypeParts DEF StartDone, FieldsOK, States
  <1>6. QED BY <1>2, <1>3, <1>5, TypePartsNext

LEMMA CompleteFacts ==
    ASSUME TypeOK, Pending, Current[1] \notin {"FTB", "ETB", "EBD"},
           complete_pending_buffer_done_cbs
    PROVE  /\ q' \in Queues /\ Sized(q')
           /\ q.cmd # <<>> /\ Head(q.cmd) = Current
           /\ q'.cmd = Tail(q.cmd) /\ q'.ftb = Kept(q.ftb) /\ q'.etb = Kept(q.etb)
           /\ lent' = lent \ (DoneIn(q.ftb) \union DoneIn(q.etb))
  <1>1. /\ Rest \in Queues /\ Sized(Rest)
        /\ q.cmd # <<>> /\ Current = Head(q.cmd)
        /\ Rest.cmd = Tail(q.cmd) /\ Rest.ftb = q.ftb /\ Rest.etb = q.etb
    BY TakesCommand
  <1>2. /\ q'.cmd = Rest.cmd /\ q'.ftb = Kept(Rest.ftb) /\ q'.etb = Kept(Rest.etb)
        /\ q' = [Rest EXCEPT !.ftb = Kept(Rest.ftb), !.etb = Kept(Rest.etb)]
    BY <1>1 DEF complete_pending_buffer_done_cbs, Queues
  <1>3. Rest.ftb \in Seq(FtbEntries) /\ Rest.etb \in Seq(EtbEntries)
    BY <1>1 DEF Queues
  <1>4. /\ Kept(Rest.ftb) \in Seq(FtbEntries) /\ Len(Kept(Rest.ftb)) <= Len(Rest.ftb)
        /\ Kept(Rest.etb) \in Seq(EtbEntries) /\ Len(Kept(Rest.etb)) <= Len(Rest.etb)
    BY <1>3, KeptFacts
  <1>5. q' \in Queues
    BY <1>1, <1>2, <1>4 DEF Queues
  <1>6. Len(Kept(Rest.ftb)) <= QueueSize /\ Len(Kept(Rest.etb)) <= QueueSize
    <2>1. /\ Len(Rest.ftb) \in Nat /\ Len(Rest.etb) \in Nat
          /\ Len(Kept(Rest.ftb)) \in Nat /\ Len(Kept(Rest.etb)) \in Nat
      BY <1>3, <1>4
    <2>2. QED BY <1>1, <1>4, <2>1, BoundsAssumption DEF Sized
  <1>7. QED
    BY <1>1, <1>2, <1>5, <1>6 DEF complete_pending_buffer_done_cbs, DoneInRest, Sized

LEMMA PauseDoneType == TypeOK /\ PauseDone => TypeOK'
  <1> SUFFICES ASSUME TypeOK, PauseDone PROVE TypeOK'
    OBVIOUS
  <1>1. Pending /\ Current[1] = "PAUSE_DONE"
    BY DEF PauseDone, Take
  <1>2. q' \in Queues /\ Sized(q') /\ lent' \subseteq lent
    BY <1>1, RestFacts, CompleteFacts DEF PauseDone
  <1>3. m_flags' \subseteq m_flags /\ m_state' \in {m_state, "Pause"} /\ target' \in {target, "none"}
    BY DEF PauseDone, Enter
  <1>4. FieldsOK' /\ DriverOK'
    BY <1>2, <1>3, TypeParts DEF PauseDone, FieldsOK, DriverOK, States, driver, history
  <1>5. QED BY <1>2, <1>4, TypePartsNext

LEMMA ResumeDoneType == TypeOK /\ ResumeDone => TypeOK'
  <1> SUFFICES ASSUME TypeOK, ResumeDone PROVE TypeOK'
    OBVIOUS
  <1>1. Pending /\ q' = Rest
    BY DEF ResumeDone, Take
  <1>2. q' \in Queues /\ Sized(q')
    BY <1>1, RestFacts
  <1>3. m_flags' \subseteq m_flags /\ m_state' \in {m_state, "Executing"} /\ target' \in {target, "none"}
    BY DEF ResumeDone, Enter
  <1>4. FieldsOK' /\ DriverOK'
    BY <1>3, TypeParts DEF ResumeDone, FieldsOK, DriverOK, States, driver, history
  <1>5. QED BY <1>2, <1>4, TypePartsNext

LEMMA StopDoneType == TypeOK /\ StopDone => TypeOK'
  <1> SUFFICES ASSUME TypeOK, StopDone PROVE TypeOK'
    OBVIOUS
  <1>1. Pending /\ Current[1] = "STOP_DONE"
    BY DEF StopDone, Take
  <1>2. q' \in Queues /\ Sized(q') /\ lent' \subseteq lent
    BY <1>1, CompleteFacts DEF StopDone
  <1>3. m_flags' \subseteq m_flags /\ m_state' \in {m_state, "Idle"} /\ target' \in {target, "none"}
    BY DEF StopDone, Enter
  <1>4. FieldsOK' /\ DriverOK'
    BY <1>2, <1>3, TypeParts DEF StopDone, FieldsOK, DriverOK, States, driver, history
  <1>5. QED BY <1>2, <1>4, TypePartsNext

LEMMA MessageShape ==
    ASSUME NEW m \in Messages
    PROVE  \/ m \in CmdEntries
           \/ m \in EtbEntries /\ m[1] = "EBD"
  BY DEF Messages, CmdEntries, EtbEntries

LEMMA AsyncFacts ==
    ASSUME TypeOK, async_message_process
    PROVE  /\ q' \in Queues /\ Sized(q')
           /\ Head(msgs) \in Messages /\ msgs' = Tail(msgs) /\ msgs' \in Seq(Messages)
           /\ q'.ftb = q.ftb
           /\ \/ /\ Head(msgs) \in CmdEntries
                 /\ q'.cmd = Insert(q.cmd, Head(msgs)) /\ q'.etb = q.etb
              \/ /\ Head(msgs) \in EtbEntries /\ Head(msgs)[1] = "EBD"
                 /\ q'.cmd = q.cmd /\ q'.etb = Insert(q.etb, Head(msgs))
  <1>1. msgs # <<>> /\ q' = Post(q, Head(msgs)) /\ msgs' = Tail(msgs)
    BY DEF async_message_process
  <1>2. Head(msgs) \in Messages /\ Tail(msgs) \in Seq(Messages)
    BY <1>1, TailFacts DEF TypeOK
  <1>3. q \in Queues /\ Sized(q)
    BY QueuesType
  <1>4. CASE Head(msgs) \in CmdEntries
    BY <1>1, <1>2, <1>3, <1>4, PostCmd
  <1>5. CASE Head(msgs) \in EtbEntries /\ Head(msgs)[1] = "EBD"
    BY <1>1, <1>2, <1>3, <1>5, PostEtb
  <1>6. QED BY <1>2, <1>4, <1>5, MessageShape

(* The statuscode of a message is reported or not.                         *)
LEMMA ExamineFacts ==
    ASSUME TypeOK, NEW failure \in BOOLEAN, Examine(failure)
    PROVE  /\ fails' \in 0..MaxFails /\ broken' \in BOOLEAN
           /\ broken => broken'
           /\ failure => broken'
  <1>1. PICK ok \in BOOLEAN :
           MayFail(ok) /\ IF ok /\ ~failure THEN UNCHANGED broken ELSE Report
    BY DEF Examine
  <1>2. fails \in 0..MaxFails /\ MaxFails \in Nat
    BY BoundsAssumption DEF TypeOK
  <1>3. fails' \in 0..MaxFails
    BY <1>1, <1>2 DEF MayFail
  <1>4. broken \in BOOLEAN
    BY DEF TypeOK
  <1>5. broken' = broken \/ broken' = TRUE
    BY <1>1 DEF Report
  <1>6. broken' \in BOOLEAN /\ (broken => broken')
    BY <1>4, <1>5, Zenon
  <1>7. failure => broken'
    BY <1>1, Zenon DEF Report
  <1>8. QED BY <1>3, <1>6, <1>7

LEMMA AsyncType == TypeOK /\ async_message_process => TypeOK'
  <1> SUFFICES ASSUME TypeOK, async_message_process PROVE TypeOK'
    OBVIOUS
  <1>1. q' \in Queues /\ Sized(q') /\ msgs' \in Seq(Messages)
    BY AsyncFacts
  <1>2. fails' \in 0..MaxFails /\ broken' \in BOOLEAN
    BY ExamineFacts DEF async_message_process, Failure
  <1>3. FieldsOK' /\ DriverOK'
    BY <1>1, <1>2, TypeParts DEF async_message_process, FieldsOK, DriverOK, flags
  <1>4. QED BY <1>1, <1>3, TypePartsNext

(* A buffer that is done is queued for the port it belongs to.             *)
LEMMA PostDone ==
    ASSUME NEW qq \in Queues, Sized(qq), NEW b \in Buffers
    PROVE  /\ Post(qq, Done(b)) \in Queues /\ Sized(Post(qq, Done(b)))
           /\ Post(qq, Done(b)).ftb = qq.ftb
           /\ b[1] = "out" => /\ Post(qq, Done(b)).cmd = Insert(qq.cmd, Done(b))
                              /\ Post(qq, Done(b)).etb = qq.etb
           /\ b[1] = "in" => /\ Post(qq, Done(b)).etb = Insert(qq.etb, Done(b))
                             /\ Post(qq, Done(b)).cmd = qq.cmd
  <1>1. CASE b[1] = "in"
    BY <1>1, DoneFacts, PostEtb
  <1>2. CASE b[1] = "out"
    BY <1>2, DoneFacts, PostCmd
  <1>3. b[1] = "in" \/ b[1] = "out"
    BY BufferShape DEF Ports
  <1>4. QED BY <1>1, <1>2, <1>3

LEMMA FrameDoneType ==
    ASSUME TypeOK, NEW b \in Buffers, FrameDone(b) PROVE TypeOK'
  <1>1. q' \in Queues /\ Sized(q')
    BY QueuesType, PostDone DEF FrameDone
  <1>2. fails' \in 0..MaxFails /\ broken' \in BOOLEAN
    BY ExamineFacts DEF FrameDone
  <1>3. FieldsOK' /\ DriverOK'
    BY <1>2, TypeParts DEF FrameDone, FieldsOK, DriverOK, flags
  <1>4. QED BY <1>1, <1>3, TypePartsNext

LEMMA SendFacts ==
    ASSUME TypeOK, NEW cmd, NEW a, send_command(cmd, a), <<"COMMAND", cmd, a>> \in Commands
    PROVE  /\ q' \in Queues /\ Sized(q') /\ q'.ftb = q.ftb /\ q'.etb = q.etb
           /\ q'.cmd = Insert(q.cmd, <<"COMMAND", cmd, a>>)
           /\ Grows(q.cmd, q'.cmd, {<<"COMMAND", cmd, a>>})
  <1>1. <<"COMMAND", cmd, a>> \in CmdEntries
    BY DEF CmdEntries
  <1>2. q \in Queues /\ Sized(q) /\ q.cmd \in Seq(CmdEntries)
    BY QueuesType
  <1>3. q' = Post(q, <<"COMMAND", cmd, a>>)
    BY DEF send_command
  <1>4. QED BY <1>1, <1>2, <1>3, PostCmd, GrowsInsert

LEMMA CommandsType ==
    /\ \A s \in States : <<"COMMAND", "StateSet", s>> \in Commands
    /\ \A cmd \in {"Flush", "PortEnable", "PortDisable"}, a \in Named :
          <<"COMMAND", cmd, a>> \in Commands
  BY DEF Commands

LEMMA SendType ==
    ASSUME TypeOK, NEW cmd, NEW a, send_command(cmd, a), <<"COMMAND", cmd, a>> \in Commands
    PROVE  TypeOK'
  <1>1. q' \in Queues /\ Sized(q')
    BY SendFacts
  <1>2. cmd = "StateSet" => a \in States
    BY DEF Commands
  <1>3. target' \in States \union {"none"}
    BY <1>2 DEF send_command, TypeOK
  <1>4. cmds' \in 0..MaxCmds
    BY BoundsAssumption DEF send_command, TypeOK
  <1>5. FieldsOK' /\ DriverOK'
    BY <1>3, <1>4, TypeParts DEF send_command, FieldsOK, DriverOK, flags, driver, history
  <1>6. QED BY <1>1, <1>5, TypePartsNext

LEMMA GiveFacts ==
    ASSUME TypeOK, NEW b \in Buffers, GiveBuffer(b)
    PROVE  /\ q' \in Queues /\ Sized(q') /\ q'.cmd = q.cmd
           /\ b[1] = "in" => /\ q'.etb = Insert(q.etb, <<"ETB", "in", b[2]>>) /\ q'.ftb = q.ftb
                             /\ <<"ETB", "in", b[2]>> \in EtbEntries
           /\ b[1] = "out" => /\ q'.ftb = Insert(q.ftb, <<"FTB", "out", b[2]>>) /\ q'.etb = q.etb
                              /\ <<"FTB", "out", b[2]>> \in FtbEntries
  <1>1. b[1] \in {"in", "out"} /\ b[2] \in Slots
    BY BufferShape DEF Ports
  <1>2. q \in Queues /\ Sized(q)
    BY QueuesType
  <1>3. q' = Post(q, <<IF b[1] = "in" THEN "ETB" ELSE "FTB", b[1], b[2]>>)
    BY DEF GiveBuffer
  <1>4. CASE b[1] = "in"
    <2>1. <<"ETB", "in", b[2]>> \in EtbEntries /\ q' = Post(q, <<"ETB", "in", b[2]>>)
      BY <1>1, <1>3, <1>4 DEF EtbEntries
    <2>2. QED BY <1>2, <1>4, <2>1, PostEtb
  <1>5. CASE b[1] = "out"
    <2>1. <<"FTB", "out", b[2]>> \in FtbEntries /\ q' = Post(q, <<"FTB", "out", b[2]>>)
      BY <1>1, <1>3, <1>5 DEF FtbEntries
    <2>2. QED BY <1>2, <1>5, <2>1, PostFtb
  <1>6. QED BY <1>1, <1>4, <1>5

LEMMA GiveType ==
    ASSUME TypeOK, NEW b \in Buffers, GiveBuffer(b) PROVE TypeOK'
  <1>1. q' \in Queues /\ Sized(q')
    BY GiveFacts
  <1>2. FieldsOK' /\ DriverOK'
    BY TypeParts DEF GiveBuffer, FieldsOK, DriverOK, flags, driver, history
  <1>3. QED BY <1>1, <1>2, TypePartsNext

(* What the last buffer of all, and of a port, answers.                    *)
LEMMA PopulatedFacts ==
    ASSUME TypeOK, NEW b \in Buffers, Populated(b)
    PROVE  /\ q' \in Queues /\ Sized(q') /\ q'.ftb = q.ftb /\ q'.etb = q.etb
           /\ portFlags' \in [Ports -> SUBSET {"FLUSH", "ENABLE", "DISABLE"}]
           /\ cut' \in BOOLEAN /\ (cut => cut')
           /\ \/ /\ m_flags' = m_flags
                 /\ Grows(q.cmd, q'.cmd, {Event("PortEnable", p) : p \in Ports})
                 /\ cut' = cut
              \/ /\ "IDLE" \in m_flags /\ m_flags' = m_flags \ {"IDLE"}
                 /\ AllocateDone' /\ (Running => cut')
                 /\ \E s : /\ s = Insert(q.cmd, Event("StateSet", "Idle"))
                           /\ Grows(s, q'.cmd, {Event("PortEnable", p) : p \in Ports})
  <1> DEFINE p == b[1]
             idle == AllocateDone' /\ "IDLE" \in m_flags
             enable == p \in bEnabled /\ Full(p)' /\ "ENABLE" \in portFlags[p]
             first == PostIf(q, idle, Event("StateSet", "Idle"))
             N == {Event("PortEnable", x) : x \in Ports}
  <1>1. /\ m_flags' = IF idle THEN m_flags \ {"IDLE"} ELSE m_flags
        /\ portFlags' = [portFlags EXCEPT ![p] = IF enable THEN @ \ {"ENABLE"} ELSE @]
        /\ q' = PostIf(first, enable, Event("PortEnable", p))
        /\ cut' = (cut \/ (idle /\ Running))
    BY DEF Populated
  <1>2. p \in Ports
    BY BufferShape
  <1>3. Event("StateSet", "Idle") \in CmdEntries /\ Event("PortEnable", p) \in CmdEntries
    BY <1>2, EventType DEF States
  <1>4. portFlags' \in [Ports -> SUBSET {"FLUSH", "ENABLE", "DISABLE"}]
    BY <1>1, <1>2 DEF TypeOK
  <1>5. cut' \in BOOLEAN /\ (cut => cut') /\ (idle /\ Running => cut') /\ (~idle => cut' = cut)
    BY <1>1, Zenon DEF TypeOK
  <1>6. idle => "IDLE" \in m_flags /\ AllocateDone'
    OBVIOUS
  <1> HIDE DEF idle, enable
  <1>7. q \in Queues /\ Sized(q) /\ q.cmd \in Seq(CmdEntries)
    BY QueuesType
  <1>8. /\ first \in Queues /\ first.ftb = q.ftb /\ first.etb = q.etb /\ Sized(first)
        /\ first.cmd = IF idle THEN Insert(q.cmd, Event("StateSet", "Idle")) ELSE q.cmd
    BY <1>3, <1>7, PostCmd DEF PostIf
  <1> HIDE DEF first
  <1>9. /\ q' \in Queues /\ q'.ftb = q.ftb /\ q'.etb = q.etb /\ Sized(q')
        /\ Grows(first.cmd, q'.cmd, {Event("PortEnable", p)})
    BY <1>1, <1>3, <1>8, PostIfCmd
  <1>10. Grows(first.cmd, q'.cmd, N)
    <2>1. \A Z : N \intersect Z = {} => {Event("PortEnable", p)} \intersect Z = {}
      BY <1>2
    <2>2. QED BY <1>9, <2>1 DEF Grows
  <1>11. CASE idle
    BY <1>1, <1>4, <1>5, <1>6, <1>8, <1>9, <1>10, <1>11
  <1>12. CASE ~idle
    BY <1>1, <1>4, <1>5, <1>8, <1>9, <1>10, <1>12
  <1>13. QED BY <1>11, <1>12

LEMMA AllocateFacts ==
    ASSUME TypeOK, NEW b \in Buffers, AllocateBuffer(b)
    PROVE  /\ fails' \in 0..MaxFails /\ bm_count' \subseteq Buffers /\ bm_count \subseteq bm_count'
           /\ Populated(b) \/ UNCHANGED <<m_flags, portFlags, q, cut>>
  <1>1. PICK ok \in BOOLEAN :
           /\ TakesBuffer(b, ok)
           /\ IF ok THEN Populated(b) ELSE UNCHANGED <<m_flags, portFlags, q, cut>>
    BY DEF AllocateBuffer
  <1>2. fails' = fails \/ (fails < MaxFails /\ fails' = fails + 1)
    BY <1>1, Zenon DEF TakesBuffer, MayFail
  <1>3. fails' \in 0..MaxFails
    BY <1>2, BoundsAssumption DEF TypeOK
  <1>4. bm_count' \in {bm_count, bm_count \union {b}}
    BY <1>1 DEF TakesBuffer
  <1>5. QED BY <1>1, <1>3, <1>4 DEF TypeOK

LEMMA AllocateType ==
    ASSUME TypeOK, NEW b \in Buffers, AllocateBuffer(b) PROVE TypeOK'
  <1>1. /\ q' \in Queues /\ Sized(q') /\ cut' \in BOOLEAN
        /\ portFlags' \in [Ports -> SUBSET {"FLUSH", "ENABLE", "DISABLE"}]
        /\ m_flags' \subseteq m_flags
    <2>1. CASE Populated(b)
      BY <2>1, PopulatedFacts
    <2>2. CASE UNCHANGED <<m_flags, portFlags, q, cut>>
      BY <2>2, TypeParts DEF FieldsOK
    <2>3. QED BY <2>1, <2>2, AllocateFacts
  <1>2. FieldsOK' /\ DriverOK'
    BY <1>1, AllocateFacts, TypeParts DEF AllocateBuffer, FieldsOK, DriverOK, driver
  <1>3. QED BY <1>1, <1>2, TypePartsNext

(* What the last buffer that is freed answers.                             *)
LEMMA FreedFacts ==
    ASSUME TypeOK, NEW b \in Buffers, NEW qq \in Queues, Sized(qq), Freed(b, qq)
    PROVE  /\ q' \in Queues /\ Sized(q') /\ q'.ftb = qq.ftb /\ q'.etb = qq.etb
           /\ portFlags' \in [Ports -> SUBSET {"FLUSH", "ENABLE", "DISABLE"}]
           /\ bm_count' = bm_count \ {b}
           /\ \E s : /\ s \in Seq(CmdEntries)
                     /\ Grows(qq.cmd, s, {Event("PortDisable", p) : p \in Ports})
                     /\ \/ /\ m_flags' = m_flags /\ q'.cmd = s
                           /\ UNCHANGED <<drv, msgs, fails, failed>>
                        \/ /\ "LOADING" \in m_flags /\ m_flags' = m_flags \ {"LOADING"}
                           /\ q'.cmd = Insert(s, Event("StateSet", "Loaded"))
                           /\ \E ok \in BOOLEAN : dev_stop(ok)
  <1> DEFINE p == b[1]
             disable == "DISABLE" \in portFlags[p] /\ Released(p)'
             loaded == "LOADING" \in m_flags /\ ReleaseDone'
             first == PostIf(qq, disable, Event("PortDisable", p))
             N == {Event("PortDisable", x) : x \in Ports}
  <1>1. /\ bm_count' = bm_count \ {b}
        /\ portFlags' = [portFlags EXCEPT ![p] = IF disable THEN @ \ {"DISABLE"} ELSE @]
        /\ m_flags' = IF loaded THEN m_flags \ {"LOADING"} ELSE m_flags
        /\ q' = PostIf(first, loaded, Event("StateSet", "Loaded"))
        /\ IF loaded THEN \E ok \in BOOLEAN : dev_stop(ok) ELSE UNCHANGED <<drv, msgs, fails, failed>>
    BY DEF Freed
  <1>2. p \in Ports
    BY BufferShape
  <1>3. Event("StateSet", "Loaded") \in CmdEntries /\ Event("PortDisable", p) \in CmdEntries
    BY <1>2, EventType DEF States
  <1>4. portFlags' \in [Ports -> SUBSET {"FLUSH", "ENABLE", "DISABLE"}]
    BY <1>1, <1>2 DEF TypeOK
  <1>5. loaded => "LOADING" \in m_flags
    OBVIOUS
  <1> HIDE DEF loaded, disable
  <1>6. /\ first \in Queues /\ first.ftb = qq.ftb /\ first.etb = qq.etb /\ Sized(first)
        /\ Grows(qq.cmd, first.cmd, {Event("PortDisable", p)})
    BY <1>3, PostIfCmd
  <1>7. first.cmd \in Seq(CmdEntries)
    BY <1>6 DEF Queues
  <1>8. Grows(qq.cmd, first.cmd, N)
    <2>1. \A Z : N \intersect Z = {} => {Event("PortDisable", p)} \intersect Z = {}
      BY <1>2
    <2>2. QED BY <1>6, <2>1 DEF Grows
  <1> HIDE DEF first
  <1>9. /\ q' \in Queues /\ q'.ftb = qq.ftb /\ q'.etb = qq.etb /\ Sized(q')
        /\ q'.cmd = IF loaded THEN Insert(first.cmd, Event("StateSet", "Loaded")) ELSE first.cmd
    BY <1>1, <1>3, <1>6, PostCmd DEF PostIf
  <1>10. CASE loaded
    BY <1>1, <1>4, <1>5, <1>7, <1>8, <1>9, <1>10
  <1>11. CASE ~loaded
    BY <1>1, <1>4, <1>7, <1>8, <1>9, <1>11
  <1>12. QED BY <1>10, <1>11

(* The error of a buffer freed out of turn                                 *)
Unpopulated == Event("Error", "unpopulated")

LEMMA FreeFacts ==
    ASSUME TypeOK, NEW b \in Buffers, FreeBuffer(b)
    PROVE  /\ Post(q, Unpopulated) \in Queues /\ Sized(Post(q, Unpopulated))
           /\ Post(q, Unpopulated).ftb = q.ftb /\ Post(q, Unpopulated).etb = q.etb
           /\ Grows(q.cmd, Post(q, Unpopulated).cmd, {Unpopulated})
           /\ ~waiting /\ b \in bm_count \ lent
           /\ \/ /\ (m_state = "Idle" /\ "LOADING" \in m_flags) \/ b[1] \notin bEnabled
                 /\ Freed(b, q) /\ cmds' = cmds
              \/ /\ target = "none" /\ cmds < MaxCmds /\ cmds' = cmds + 1
                 /\ \/ /\ q' = Post(q, Unpopulated)
                       /\ UNCHANGED <<bm_count, portFlags, m_flags, drv, msgs, fails, failed>>
                    \/ ~Running /\ Freed(b, Post(q, Unpopulated))
           /\ UNCHANGED <<m_state, flushing, bEnabled, waiting, held, lent, target,
                          refused, broken, cut, stale, crossed>>
  <1>1. Unpopulated \in CmdEntries /\ q \in Queues /\ Sized(q) /\ q.cmd \in Seq(CmdEntries)
    BY EventType, QueuesType DEF Unpopulated
  <1>2. /\ Post(q, Unpopulated) \in Queues /\ Sized(Post(q, Unpopulated))
        /\ Post(q, Unpopulated).ftb = q.ftb /\ Post(q, Unpopulated).etb = q.etb
        /\ Grows(q.cmd, Post(q, Unpopulated).cmd, {Unpopulated})
    BY <1>1, PostCmd, GrowsInsert
  <1>3. QED
    BY <1>2 DEF FreeBuffer, Unpopulated

LEMMA FreeType ==
    ASSUME TypeOK, NEW b \in Buffers, FreeBuffer(b) PROVE TypeOK'
  <1>1. ASSUME NEW qq \in Queues, Sized(qq), Freed(b, qq)
        PROVE  /\ q' \in Queues /\ Sized(q') /\ DriverOK'
               /\ portFlags' \in [Ports -> SUBSET {"FLUSH", "ENABLE", "DISABLE"}]
               /\ bm_count' \subseteq bm_count /\ m_flags' \subseteq m_flags
    BY <1>1, FreedFacts, StopFacts, TypeParts DEF DriverOK
  <1>2. /\ q' \in Queues /\ Sized(q') /\ DriverOK'
        /\ portFlags' \in [Ports -> SUBSET {"FLUSH", "ENABLE", "DISABLE"}]
        /\ bm_count' \subseteq bm_count /\ m_flags' \subseteq m_flags
    <2>1. CASE q' = Post(q, Unpopulated) /\ UNCHANGED <<bm_count, portFlags, m_flags, drv, msgs, fails, failed>>
      BY <2>1, FreeFacts, TypeParts DEF DriverOK, FieldsOK
    <2>2. QED BY <1>1, <2>1, FreeFacts, QueuesType
  <1>3. cmds' \in 0..MaxCmds
    BY FreeFacts, BoundsAssumption DEF TypeOK
  <1>4. FieldsOK'
    BY <1>2, <1>3, FreeFacts, TypeParts DEF FieldsOK, history
  <1>5. QED BY <1>2, <1>4, TypePartsNext

LEMMA NextType == TypeOK /\ [Next]_vars => TypeOK'
  <1> SUFFICES ASSUME TypeOK, [Next]_vars PROVE TypeOK'
    OBVIOUS
  <1>1. CASE process_event_cb
    BY <1>1, LoadedToType, IdleToType, RunningToType, WaitingToType, RunningToIdleType,
       FlushCommandType, PortEnableType, PortDisableType, GenerateEventType, EmptyType,
       FillType, BufferDoneType, FlushDoneType, StartDoneType, PauseDoneType,
       ResumeDoneType, StopDoneType, Zenon DEF process_event_cb
  <1>2. CASE \E s \in States : send_command("StateSet", s)
    BY <1>2, CommandsType, SendType
  <1>3. CASE \E cmd \in {"Flush", "PortEnable", "PortDisable"}, a \in Named : send_command(cmd, a)
    BY <1>3, CommandsType, SendType
  <1>4. CASE UNCHANGED vars
    BY <1>4 DEF vars, flags, driver, history, TypeOK
  <1>5. QED
    BY <1>1, <1>2, <1>3, <1>4, AsyncType, FrameDoneType, GiveType, AllocateType, FreeType,
       Zenon DEF Next

(* Every field, queue and message keeps its kind of value; m_ftb_q only    *)
(* holds buffers to fill, m_etb_q only those to empty and emptied ones.    *)
THEOREM TypeCorrect == Spec => []TypeOK
  <1>1. QED
    BY InitType, NextType, PTL DEF Spec

-----------------------------------------------------------------------------
(* What a step does to m_cmd_q.                                            *)

(* t is s without its head x, and with entries of N behind it.             *)
Drops(s, t, x, N) ==
    \A X, Y :
        /\ Has(t, X) => Has(s, X) \/ N \intersect X # {}
        /\ Has(s, X) => x \in X \/ Has(t, X)
        /\ x \in X => Has(s, X)
        /\ One(s, X) /\ N \intersect X = {} => One(t, X) /\ ~(x \in X /\ Has(t, X))
        /\ Never(s, X, Y) /\ (N \intersect Y = {} \/ ~Has(t, X)) => Never(t, X, Y)
        /\ Never(s, X, Y) /\ N \intersect Y = {} => ~(x \in X /\ Has(t, Y))

LEMMA DropsTail ==
    ASSUME NEW S, NEW s \in Seq(S), s # <<>>, NEW t, NEW N, Grows(Tail(s), t, N)
    PROVE  Drops(s, t, Head(s), N)
  <1> SUFFICES ASSUME NEW X, NEW Y
               PROVE  /\ Has(t, X) => Has(s, X) \/ N \intersect X # {}
                      /\ Has(s, X) => Head(s) \in X \/ Has(t, X)
                      /\ Head(s) \in X => Has(s, X)
                      /\ One(s, X) /\ N \intersect X = {}
                            => One(t, X) /\ ~(Head(s) \in X /\ Has(t, X))
                      /\ Never(s, X, Y) /\ (N \intersect Y = {} \/ ~Has(t, X)) => Never(t, X, Y)
                      /\ Never(s, X, Y) /\ N \intersect Y = {} => ~(Head(s) \in X /\ Has(t, Y))
    BY DEF Drops
  <1>1. Has(s, X) <=> Head(s) \in X \/ Has(Tail(s), X)
    BY HasTail
  <1>2. /\ Has(Tail(s), X) => Has(t, X)
        /\ Has(t, X) => Has(Tail(s), X) \/ N \intersect X # {}
        /\ Has(t, Y) => Has(Tail(s), Y) \/ N \intersect Y # {}
        /\ One(Tail(s), X) /\ N \intersect X = {} => One(t, X)
        /\ Never(Tail(s), X, Y) /\ (N \intersect Y = {} \/ ~Has(t, X)) => Never(t, X, Y)
    BY DEF Grows
  <1>3. One(s, X) => One(Tail(s), X) /\ ~(Head(s) \in X /\ Has(Tail(s), X))
    BY OneTail
  <1>4. Never(s, X, Y) => Never(Tail(s), X, Y) /\ ~(Head(s) \in X /\ Has(Tail(s), Y))
    BY NeverTail
  <1>5. QED BY <1>1, <1>2, <1>3, <1>4

(* An entry is taken, and x posted at most.                                *)
LEMMA PopDrops ==
    ASSUME TypeOK, Pending, Current[1] \notin {"FTB", "ETB", "EBD"}, NEW N,
           Grows(Tail(q.cmd), q'.cmd, N)
    PROVE  Drops(q.cmd, q'.cmd, Current, N)
  <1>1. q.cmd # <<>> /\ Current = Head(q.cmd) /\ q.cmd \in Seq(CmdEntries)
    BY TakesCommand, QueuesType
  <1>2. QED BY <1>1, DropsTail

LEMMA TakeDrops ==
    ASSUME TypeOK, Pending, Current[1] \notin {"FTB", "ETB", "EBD"}
    PROVE  /\ q' = Rest => Drops(q.cmd, q'.cmd, Current, {})
           /\ \A x \in CmdEntries : q' = Post(Rest, x) =>
                 /\ Drops(q.cmd, q'.cmd, Current, {x})
                 /\ \A X : (One(q.cmd, X) /\ Current \in X) \/ ~Has(q.cmd, X) => One(q'.cmd, X)
                 /\ \A X : Has(q'.cmd, X) => Has(Tail(q.cmd), X) \/ x \in X
  <1>1. q' = Rest => Drops(q.cmd, q'.cmd, Current, {})
    BY PopRest, PopDrops
  <1>2. ASSUME NEW x \in CmdEntries, q' = Post(Rest, x)
        PROVE  /\ Drops(q.cmd, q'.cmd, Current, {x})
               /\ \A X : (One(q.cmd, X) /\ Current \in X) \/ ~Has(q.cmd, X) => One(q'.cmd, X)
               /\ \A X : Has(q'.cmd, X) => Has(Tail(q.cmd), X) \/ x \in X
    <2>1. /\ Grows(Tail(q.cmd), q'.cmd, {x})
          /\ q.cmd # <<>> /\ Head(q.cmd) = Current
          /\ \A X : ~Has(Tail(q.cmd), X) => One(q'.cmd, X)
      BY <1>2, PopPost
    <2>2. q.cmd \in Seq(CmdEntries)
      BY QueuesType
    <2>3. ASSUME NEW X, (One(q.cmd, X) /\ Current \in X) \/ ~Has(q.cmd, X)
          PROVE  One(q'.cmd, X)
      BY <2>1, <2>2, <2>3, OneTail, HasTail
    <2>4. ASSUME NEW X, Has(q'.cmd, X) PROVE Has(Tail(q.cmd), X) \/ x \in X
      BY <2>1, <2>4 DEF Grows
    <2>5. QED BY <1>2, <2>1, <2>3, <2>4, PopDrops
  <1>3. QED BY <1>1, <1>2

-----------------------------------------------------------------------------
(* One thing at a time stands for the state command the client waits for:  *)
(* the command, a pending bit, or the event that answers.                  *)

LEMMA TokenFacts ==
    /\ \A s \in States : TokensOf(s) \subseteq Tokens
    /\ \A s \in States : \A t \in States : Event("StateSet", s) \in TokensOf(t) => s = t
    /\ \A s \in States : \A t \in States : <<"COMMAND", "StateSet", s>> \in TokensOf(t) => s = t
    /\ \A s \in States : /\ Event("StateSet", s) \in TokensOf(s)
                         /\ <<"COMMAND", "StateSet", s>> \in TokensOf(s)
    /\ \A s \in States : Event("Error", "transition") \notin TokensOf(s)
    /\ Event("Error", "transition") \in Tokens
    /\ \A m \in Tokens : \/ m[1] = "COMMAND" /\ m[2] = "StateSet"
                         \/ m[1] = "EVENT" /\ m[2] = "StateSet"
                         \/ m[1] = "EVENT" /\ m[2] = "Error" /\ m[3] = "transition"
  BY DEF Tokens, TokensOf, Refusal, Event

(* No token is posted: the bits and the client's wait last or end.         *)
LEMMA TokenKept ==
    ASSUME TokenInv, NEW cmd, cmd = q'.cmd, One(cmd, Tokens),
           Has(cmd, Tokens) => Has(q.cmd, Tokens),
           \A s \in States : Has(cmd, TokensOf(s)) => Has(q.cmd, TokensOf(s)),
           m_flags' \subseteq m_flags,
           target' = target \/ (m_flags' = {} /\ ~Has(cmd, Tokens))
    PROVE  TokenInv'
  <1>1. \A s \in States : Has(cmd, TokensOf(s)) => Has(cmd, Tokens)
    BY TokenFacts DEF Has
  <1>2. QED BY <1>1 DEF TokenInv

(* The handler of a state command finds no bit and no other token.         *)
LEMMA AskedFor ==
    ASSUME TypeOK, TokenInv, NEW s \in States, Command("StateSet", s)
    PROVE  /\ m_flags = {} /\ target = s
           /\ Pending /\ Current[1] \notin {"FTB", "ETB", "EBD"}
           /\ Current = <<"COMMAND", "StateSet", s>> /\ Current \in Tokens
           /\ Has(q.cmd, Tokens) /\ ~Has(Tail(q.cmd), Tokens)
           /\ q.cmd # <<>> /\ Rest.cmd = Tail(q.cmd) /\ Rest.cmd \in Seq(CmdEntries)
  <1>1. /\ Pending /\ Current[1] \notin {"FTB", "ETB", "EBD"}
        /\ Current = <<"COMMAND", "StateSet", s>> /\ Current \in Tokens
        /\ Current \in TokensOf(s)
    BY TokenFacts DEF Command
  <1>2. /\ q.cmd # <<>> /\ Current = Head(q.cmd) /\ Rest.cmd = Tail(q.cmd)
        /\ q.cmd \in Seq(CmdEntries)
    BY <1>1, TakesCommand, QueuesType
  <1>3. Has(q.cmd, Tokens) /\ Has(q.cmd, TokensOf(s)) /\ ~Has(Tail(q.cmd), Tokens)
    BY <1>1, <1>2, HasTail, OneTail DEF TokenInv
  <1>4. m_flags = {} /\ target = s
    BY <1>3 DEF TokenInv
  <1>5. QED BY <1>1, <1>2, <1>3, <1>4, TailFacts

LEMMA StateCommandToken ==
    ASSUME TypeOK, TokenInv, NEW s \in States, Command("StateSet", s), target' = target,
           \/ (Complete(s) \/ Refuse \/ q' = Rest) /\ m_flags' = m_flags
           \/ \E flag \in {"IDLE", "LOADING", "EXECUTE", "PAUSE"} :
                 /\ m_flags' = m_flags \union {flag} /\ Goal(flag) = s
                 /\ q'.cmd = Rest.cmd \/ q' = Post(Rest, <<"RESUME_DONE", "", "">>)
    PROVE  TokenInv'
  <1> DEFINE cmd == q'.cmd
  <1>1. /\ m_flags = {} /\ target = s
        /\ Pending /\ Current[1] \notin {"FTB", "ETB", "EBD"}
        /\ Current = <<"COMMAND", "StateSet", s>> /\ Current \in Tokens
        /\ Has(q.cmd, Tokens) /\ ~Has(Tail(q.cmd), Tokens)
        /\ Rest.cmd = Tail(q.cmd) /\ Rest.cmd \in Seq(CmdEntries)
    BY AskedFor
  <1>2. /\ One(q.cmd, Tokens)
        /\ \A T : T \subseteq Tokens => ~Has(Rest.cmd, T)
    BY <1>1 DEF TokenInv, Has
  <1>3. \A t \in States : TokensOf(t) \subseteq Tokens
    BY TokenFacts
  <1>4. CASE Complete(s) /\ m_flags' = m_flags
    <2>1. q' = Post(Rest, Event("StateSet", s)) /\ Event("StateSet", s) \in CmdEntries
      BY <1>4, EventType DEF Complete
    <2>2. One(cmd, Tokens)
      BY <1>1, <1>2, <2>1, TakeDrops
    <2>3. ASSUME NEW t \in States, Has(cmd, TokensOf(t)) PROVE t = s
      <3>1. Has(Rest.cmd, TokensOf(t)) \/ Event("StateSet", s) \in TokensOf(t)
        BY <1>1, <2>1, <2>3, TakeDrops
      <3>2. QED BY <1>2, <1>3, <3>1, TokenFacts
    <2>4. m_flags' = {}
      BY <1>1, <1>4
    <2>5. QED BY <1>1, <2>2, <2>3, <2>4 DEF TokenInv
  <1>5. CASE Refuse /\ m_flags' = m_flags
    <2>1. q' = Post(Rest, Event("Error", "transition")) /\ Event("Error", "transition") \in CmdEntries
      BY <1>5, EventType DEF Refuse
    <2>2. One(cmd, Tokens)
      BY <1>1, <1>2, <2>1, TakeDrops
    <2>3. ASSUME NEW t \in States PROVE ~Has(cmd, TokensOf(t))
      <3>1. Has(cmd, TokensOf(t)) =>
               Has(Rest.cmd, TokensOf(t)) \/ Event("Error", "transition") \in TokensOf(t)
        BY <1>1, <2>1, TakeDrops
      <3>2. QED BY <1>2, <1>3, <3>1, TokenFacts
    <2>4. m_flags' = {}
      BY <1>1, <1>5
    <2>5. QED BY <1>1, <2>2, <2>3, <2>4 DEF TokenInv
  <1>6. CASE q'.cmd = Rest.cmd
    <2>1. One(cmd, Tokens) /\ ~Has(cmd, Tokens) /\ \A t \in States : ~Has(cmd, TokensOf(t))
      BY <1>1, <1>2, <1>3, <1>6 DEF One, Has
    <2>2. QED BY <1>1, <1>6, <2>1 DEF TokenInv
  <1>7. CASE q' = Post(Rest, <<"RESUME_DONE", "", "">>)
    <2>1. <<"RESUME_DONE", "", "">> \in CmdEntries /\ <<"RESUME_DONE", "", "">> \notin Tokens
      BY TokenFacts DEF CmdEntries, Signals
    <2>2. ~Has(cmd, Tokens)
      BY <1>1, <1>7, <2>1, TakeDrops
    <2>3. One(cmd, Tokens) /\ \A t \in States : ~Has(cmd, TokensOf(t))
      BY <1>3, <2>2 DEF One, Has
    <2>4. QED BY <1>1, <1>7, <2>2, <2>3 DEF TokenInv
  <1>8. QED BY <1>4, <1>5, <1>6, <1>7

LEMMA StateCommandsToken ==
    ASSUME TypeOK, TokenInv,
           (\E s \in States : LoadedTo(s) \/ IdleTo(s) \/ RunningTo(s) \/ WaitingTo(s))
              \/ RunningToIdle
    PROVE  TokenInv'
  <1> DEFINE Outcome(s) ==
               /\ Command("StateSet", s) /\ target' = target
               /\ \/ (Complete(s) \/ Refuse \/ q' = Rest) /\ m_flags' = m_flags
                  \/ \E flag \in {"IDLE", "LOADING", "EXECUTE", "PAUSE"} :
                        /\ m_flags' = m_flags \union {flag} /\ Goal(flag) = s
                        /\ q'.cmd = Rest.cmd \/ q' = Post(Rest, <<"RESUME_DONE", "", "">>)
  <1>1. ASSUME NEW s \in States, LoadedTo(s) PROVE Outcome(s)
    BY <1>1 DEF LoadedTo, Later, Goal
  <1>2. ASSUME NEW s \in States, IdleTo(s) PROVE Outcome(s)
    BY <1>2 DEF IdleTo, StartFor, Later, Goal
  <1>3. ASSUME NEW s \in States, RunningTo(s) PROVE Outcome(s)
    BY <1>3 DEF RunningTo, Later, Goal
  <1>4. ASSUME NEW s \in States, WaitingTo(s) PROVE Outcome(s)
    BY <1>4 DEF WaitingTo, flags
  <1>5. ASSUME RunningToIdle PROVE Outcome("Idle")
    <2>1. Rest \in Queues
      BY <1>5, RestFacts DEF RunningToIdle, Command
    <2>2. q'.cmd = Rest.cmd
      BY <1>5, <2>1, FlushFacts DEF RunningToIdle
    <2>3. QED BY <1>5, <2>2 DEF RunningToIdle, Goal
  <1>6. ASSUME NEW s \in States, Outcome(s) PROVE TokenInv'
    BY <1>6, StateCommandToken
  <1>7. "Idle" \in States
    BY DEF States
  <1> HIDE DEF Outcome
  <1>8. QED BY <1>1, <1>2, <1>3, <1>4, <1>5, <1>6, <1>7

(* The other steps: events that answer no state command, and messages of   *)
(* the driver.                                                             *)
Asides == ({"EVENT"} \X {"PortEnable", "PortDisable"} \X Named) \union {Unpopulated}
Told == Asides \union Messages

LEMMA GrowsMore ==
    ASSUME NEW s, NEW t, NEW M, NEW N, M \subseteq N, Grows(s, t, M)
    PROVE  Grows(s, t, N)
  <1>1. \A X : N \intersect X = {} => M \intersect X = {}
    OBVIOUS
  <1>2. QED BY <1>1 DEF Grows

LEMMA DropsMore ==
    ASSUME NEW s, NEW t, NEW x, NEW M, NEW N, M \subseteq N, Drops(s, t, x, M)
    PROVE  Drops(s, t, x, N)
  <1>1. \A X : N \intersect X = {} => M \intersect X = {}
    OBVIOUS
  <1>2. QED BY <1>1 DEF Drops

LEMMA ToldFacts ==
    /\ Told \intersect Tokens = {} /\ Told \intersect Commands = {}
    /\ Told \intersect StateEvents = {}
    /\ \A s \in States : Told \intersect TokensOf(s) = {}
    /\ \A b \in Buffers : Done(b) \in Told
    /\ Asides \subseteq Told /\ Messages \subseteq Told
  <1>1. \A m \in Told : \/ m[1] = "EVENT" /\ m[2] # "StateSet"
                                          /\ ~(m[2] = "Error" /\ m[3] = "transition")
                        \/ m[1] \notin {"EVENT", "COMMAND"}
    <2>1. \A m \in Asides : m[1] = "EVENT" /\ m[2] # "StateSet"
                             /\ ~(m[2] = "Error" /\ m[3] = "transition")
      BY DEF Asides, Unpopulated, Event
    <2>2. \A m \in Messages : m[1] \notin {"EVENT", "COMMAND"}
      BY DEF Messages, Signals, DoneOut
    <2>3. QED BY <2>1, <2>2 DEF Told
  <1>2. \A m \in Commands : m[1] = "COMMAND"
    BY DEF Commands
  <1>3. \A m \in StateEvents : m[1] = "EVENT" /\ m[2] = "StateSet"
    BY DEF StateEvents
  <1>4. Told \intersect Tokens = {}
    BY <1>1, TokenFacts
  <1>5. \A s \in States : Told \intersect TokensOf(s) = {}
    BY <1>4, TokenFacts
  <1>6. QED BY <1>1, <1>2, <1>3, <1>4, <1>5, DoneFacts DEF Told

LEMMA FlushStream ==
    ASSUME TypeOK, NEW a \in Named, Flush(a)
    PROVE  Drops(q.cmd, q'.cmd, Current, Asides)
  <1>1. Pending /\ Current[1] = "COMMAND"
    BY DEF Flush, Command
  <1>2. Rest \in Queues /\ Rest.cmd = Tail(q.cmd) /\ PortsOf(a) \in SUBSET Ports
    BY <1>1, TakesCommand, EventType
  <1>3. q'.cmd = Tail(q.cmd)
    BY <1>2, FlushFacts DEF Flush
  <1>4. QED BY <1>1, <1>3, GrowsSame, PopDrops

LEMMA PortEventsStream ==
    ASSUME TypeOK, Pending, Current[1] = "COMMAND", NEW a \in Named,
           NEW cmd \in {"PortEnable", "PortDisable"}, NEW ready,
           q'.cmd = PortEvents(Rest, cmd, a, ready).cmd
    PROVE  Drops(q.cmd, q'.cmd, Current, Asides)
  <1>1. Rest \in Queues /\ Rest.cmd = Tail(q.cmd)
    BY TakesCommand
  <1>2. Grows(Tail(q.cmd), q'.cmd, {Event(cmd, x) : x \in Named})
    BY <1>1, PortEventsFacts
  <1>3. {Event(cmd, x) : x \in Named} \subseteq Asides
    BY DEF Event, Asides
  <1>4. QED BY <1>2, <1>3, GrowsMore, PopDrops

LEMMA PortEnableStream ==
    ASSUME TypeOK, NEW a \in Named, PortEnable(a)
    PROVE  Drops(q.cmd, q'.cmd, Current, Asides)
  BY PortEventsStream DEF PortEnable, Command

LEMMA PortDisableStream ==
    ASSUME TypeOK, NEW a \in Named, PortDisable(a)
    PROVE  Drops(q.cmd, q'.cmd, Current, Asides)
  <1> DEFINE ready == {p \in PortsOf(a) : m_state \in {"Loaded", "Idle"} /\ Released(p)}
             posted == PortEvents(Rest, "PortDisable", a, ready)
  <1>1. /\ Pending /\ Current[1] = "COMMAND"
        /\ execute_omx_flush(PortsOf(a), posted) \/ q' = posted
    BY DEF PortDisable, Command
  <1>2. PortsOf(a) \in SUBSET Ports /\ Rest \in Queues
    BY <1>1, TakesCommand, EventType
  <1>3. posted \in Queues
    BY <1>2, PortEventsFacts
  <1> HIDE DEF ready
  <1>4. q'.cmd = PortEvents(Rest, "PortDisable", a, ready).cmd
    BY <1>1, <1>2, <1>3, FlushFacts
  <1>5. QED BY <1>1, <1>4, PortEventsStream

(* A step that posts only such, and takes one entry at most.               *)
Quietly ==
    \/ Grows(q.cmd, q'.cmd, Told)
    \/ Pending /\ Current \in CmdEntries /\ Drops(q.cmd, q'.cmd, Current, Told)

LEMMA EncodeStream ==
    ASSUME TypeOK, empty_this_buffer_proxy \/ fill_this_buffer_proxy
    PROVE  /\ q.cmd = <<>> /\ Pending
           /\ \E b \in Buffers :
                 /\ b = BufferOf(Current)
                 /\ q' = Rest \/ q' = Post(Rest, Done(b))
                 /\ Grows(q.cmd, q'.cmd, {Done(b)})
  <1> DEFINE b == BufferOf(Current)
  <1>1. Pending /\ Current[1] \in {"ETB", "FTB"}
    BY DEF empty_this_buffer_proxy, fill_this_buffer_proxy, Take
  <1>2. Rest \in Queues /\ Rest.cmd = q.cmd /\ q.cmd = <<>> /\ q.cmd \in Seq(CmdEntries)
    BY <1>1, TakesEntry, RestFacts, QueuesType
  <1>3. b \in Buffers
    BY <1>1, TakesEntry, EntryShape
  <1>4. q' = Rest \/ q' = Post(Rest, Done(b))
    BY <1>3, EncodeType DEF empty_this_buffer_proxy, fill_this_buffer_proxy
  <1>5. Grows(q.cmd, q'.cmd, {Done(b)})
    <2>1. CASE q' = Rest
      BY <1>2, <2>1, GrowsSame
    <2>2. CASE q' = Post(Rest, Done(b)) /\ b[1] = "in"
      BY <1>2, <1>3, <2>2, DoneFacts, PostEtb, GrowsSame
    <2>3. CASE q' = Post(Rest, Done(b)) /\ b[1] = "out"
      <3>1. Done(b) \in CmdEntries
        BY <1>3, <2>3, DoneFacts
      <3>2. q'.cmd = Insert(q.cmd, Done(b))
        BY <1>2, <2>3, <3>1, PostCmd
      <3>3. QED BY <1>2, <3>1, <3>2, GrowsInsert
    <2>4. QED BY <1>3, <1>4, <2>1, <2>2, <2>3, BufferShape DEF Ports
  <1>6. QED BY <1>1, <1>2, <1>3, <1>4, <1>5

LEMMA BufferDoneStream ==
    ASSUME TypeOK, BufferDone
    PROVE  /\ Pending
           /\ \/ /\ Current[1] = "EBD" /\ q'.cmd = q.cmd /\ q.cmd = <<>> /\ q.etb # <<>>
                 /\ Current = Head(q.etb) /\ q'.etb = Tail(q.etb) /\ q'.ftb = q.ftb
              \/ /\ Current[1] = "FBD" /\ Current \in CmdEntries /\ q.cmd # <<>>
                 /\ Current = Head(q.cmd) /\ q'.cmd = Tail(q.cmd)
                 /\ q'.etb = q.etb /\ q'.ftb = q.ftb
                 /\ Drops(q.cmd, q'.cmd, Current, {})
  <1>1. Pending /\ q' = Rest /\ Current[1] \in {"EBD", "FBD"}
    BY DEF BufferDone, Take
  <1>2. CASE Current[1] = "EBD"
    BY <1>1, <1>2, TakesEntry
  <1>3. CASE Current[1] = "FBD"
    BY <1>1, <1>3, TakesCommand, TakeDrops
  <1>4. QED BY <1>1, <1>2, <1>3

LEMMA AsyncStream ==
    ASSUME TypeOK, async_message_process
    PROVE  /\ Head(msgs) \in Messages /\ msgs' = Tail(msgs) /\ msgs # <<>>
           /\ Grows(q.cmd, q'.cmd, {Head(msgs)})
  <1>1. q.cmd \in Seq(CmdEntries) /\ msgs # <<>>
    BY QueuesType DEF async_message_process
  <1>2. QED BY <1>1, AsyncFacts, GrowsInsert, GrowsSame

LEMMA FrameDoneStream ==
    ASSUME TypeOK, NEW b \in Buffers, FrameDone(b)
    PROVE  Grows(q.cmd, q'.cmd, {Done(b)})
  <1>1. q \in Queues /\ Sized(q) /\ q.cmd \in Seq(CmdEntries) /\ q' = Post(q, Done(b))
    BY QueuesType DEF FrameDone
  <1>2. CASE b[1] = "in"
    BY <1>1, <1>2, PostDone, GrowsSame
  <1>3. CASE b[1] = "out"
    BY <1>1, <1>3, PostDone, DoneFacts, GrowsInsert
  <1>4. QED BY <1>2, <1>3, BufferShape DEF Ports

(* What else the message thread takes from m_cmd_q, and posts nothing for. *)
LEMMA SignalStream ==
    ASSUME TypeOK,
           \/ GenerateEvent \/ StartDone \/ PauseDone \/ ResumeDone \/ StopDone
           \/ \E p \in Ports : FlushDone(p)
    PROVE  /\ Pending /\ Current \in CmdEntries /\ q.cmd # <<>> /\ Current = Head(q.cmd)
           /\ q'.cmd = Tail(q.cmd)
           /\ Current[1] \notin {"FTB", "ETB", "EBD", "FBD", "COMMAND"}
           /\ Drops(q.cmd, q'.cmd, Current, {})
  <1>1. /\ Pending /\ Current[1] \notin {"FTB", "ETB", "EBD", "FBD", "COMMAND"}
        /\ q' = Rest \/ complete_pending_buffer_done_cbs
    BY DEF GenerateEvent, StartDone, PauseDone, ResumeDone, StopDone, FlushDone, Take
  <1>2. q.cmd # <<>> /\ Current = Head(q.cmd) /\ q'.cmd = Tail(q.cmd) /\ Current \in CmdEntries
    BY <1>1, TakesCommand, CompleteFacts
  <1>3. Drops(q.cmd, q'.cmd, Current, {})
    BY <1>1, <1>2, GrowsSame, PopDrops
  <1>4. QED BY <1>1, <1>2, <1>3

LEMMA QuietSteps ==
    ASSUME TypeOK,
           \/ \E a \in Named : Flush(a) \/ PortEnable(a) \/ PortDisable(a)
           \/ empty_this_buffer_proxy \/ fill_this_buffer_proxy \/ BufferDone
           \/ GenerateEvent \/ StartDone \/ PauseDone \/ ResumeDone \/ StopDone
           \/ \E p \in Ports : FlushDone(p)
           \/ async_message_process
           \/ \E b \in Buffers : FrameDone(b) \/ GiveBuffer(b)
    PROVE  Quietly
  <1>1. ASSUME NEW a \in Named, Flush(a) \/ PortEnable(a) \/ PortDisable(a) PROVE Quietly
    <2>1. Pending /\ Current[1] = "COMMAND"
      BY <1>1 DEF Flush, PortEnable, PortDisable, Command
    <2>2. Current \in CmdEntries
      BY <2>1, TakesCommand
    <2>3. Drops(q.cmd, q'.cmd, Current, Asides)
      BY <1>1, FlushStream, PortEnableStream, PortDisableStream
    <2>4. QED BY <2>1, <2>2, <2>3, DropsMore, ToldFacts DEF Quietly
  <1>2. CASE empty_this_buffer_proxy \/ fill_this_buffer_proxy
    <2>1. PICK b \in Buffers : Grows(q.cmd, q'.cmd, {Done(b)})
      BY <1>2, EncodeStream
    <2>2. {Done(b)} \subseteq Told
      BY ToldFacts
    <2>3. QED BY <2>1, <2>2, GrowsMore DEF Quietly
  <1>3. CASE BufferDone
    <2>1. CASE q'.cmd = q.cmd
      BY <2>1, GrowsSame DEF Quietly
    <2>2. CASE q'.cmd # q.cmd
      <3>1. Pending /\ Current \in CmdEntries /\ Drops(q.cmd, q'.cmd, Current, {})
        BY <1>3, <2>2, BufferDoneStream
      <3>2. QED BY <3>1, DropsMore DEF Quietly
    <2>3. QED BY <2>1, <2>2
  <1>4. CASE \/ GenerateEvent \/ StartDone \/ PauseDone \/ ResumeDone \/ StopDone
             \/ \E p \in Ports : FlushDone(p)
    <2>1. Pending /\ Current \in CmdEntries /\ Drops(q.cmd, q'.cmd, Current, {})
      BY <1>4, SignalStream
    <2>2. QED BY <2>1, DropsMore DEF Quietly
  <1>5. CASE async_message_process
    <2>1. Grows(q.cmd, q'.cmd, {Head(msgs)}) /\ {Head(msgs)} \subseteq Told
      BY <1>5, AsyncStream, ToldFacts
    <2>2. QED BY <2>1, GrowsMore DEF Quietly
  <1>6. ASSUME NEW b \in Buffers, FrameDone(b) PROVE Quietly
    <2>1. Grows(q.cmd, q'.cmd, {Done(b)}) /\ {Done(b)} \subseteq Told
      BY <1>6, FrameDoneStream, ToldFacts
    <2>2. QED BY <2>1, GrowsMore DEF Quietly
  <1>7. ASSUME NEW b \in Buffers, GiveBuffer(b) PROVE Quietly
    BY <1>7, GiveFacts, GrowsSame DEF Quietly
  <1>8. QED BY <1>1, <1>2, <1>3, <1>4, <1>5, <1>6, <1>7

LEMMA AllocateStream ==
    ASSUME TypeOK, NEW b \in Buffers, AllocateBuffer(b)
    PROVE  /\ ~waiting /\ (cut => cut')
           /\ \/ /\ m_flags' = m_flags /\ cut' = cut
                 /\ Grows(q.cmd, q'.cmd, Asides)
              \/ /\ "IDLE" \in m_flags /\ m_flags' = m_flags \ {"IDLE"}
                 /\ AllocateDone' /\ (Running => cut')
                 /\ Grows(q.cmd, q'.cmd, Asides \union {Event("StateSet", "Idle")})
                 /\ \A X : ~Has(q.cmd, X) /\ Asides \intersect X = {} => One(q'.cmd, X)
  <1> DEFINE E == Event("StateSet", "Idle")
             N == {Event("PortEnable", p) : p \in Ports}
  <1>1. ~waiting /\ (Populated(b) \/ UNCHANGED <<m_flags, portFlags, q, cut>>)
    BY AllocateFacts DEF AllocateBuffer
  <1>2. N \subseteq Asides
    BY EventType DEF Event, Asides
  <1>3. q.cmd \in Seq(CmdEntries) /\ E \in CmdEntries
    BY QueuesType, EventType DEF States
  <1>4. CASE UNCHANGED <<m_flags, portFlags, q, cut>>
    BY <1>1, <1>4, GrowsSame
  <1>5. CASE Populated(b) /\ m_flags' = m_flags /\ Grows(q.cmd, q'.cmd, N) /\ cut' = cut
    BY <1>1, <1>2, <1>5, GrowsMore
  <1>6. ASSUME Populated(b), "IDLE" \in m_flags, m_flags' = m_flags \ {"IDLE"},
               AllocateDone', Running => cut', cut => cut', Grows(Insert(q.cmd, E), q'.cmd, N)
        PROVE  /\ Grows(q.cmd, q'.cmd, Asides \union {E})
               /\ \A X : ~Has(q.cmd, X) /\ Asides \intersect X = {} => One(q'.cmd, X)
    <2>1. Grows(q.cmd, Insert(q.cmd, E), {E})
      BY <1>3, GrowsInsert
    <2>2. Grows(q.cmd, q'.cmd, {E} \union N)
      BY <1>6, <2>1, GrowsTrans
    <2>3. Grows(q.cmd, q'.cmd, Asides \union {E})
      BY <1>2, <2>2, GrowsMore, {E} \union N \subseteq Asides \union {E}
    <2>4. ASSUME NEW X, ~Has(q.cmd, X), Asides \intersect X = {} PROVE One(q'.cmd, X)
      <3>1. One(q.cmd, X)
        BY <2>4 DEF Has, One
      <3>2. One(Insert(q.cmd, E), X)
        BY <1>3, <2>4, <3>1, InsertFacts
      <3>3. N \intersect X = {}
        BY <1>2, <2>4
      <3>4. QED BY <1>6, <3>2, <3>3 DEF Grows
    <2>5. QED BY <2>3, <2>4
  <1>7. CASE Populated(b)
    <2>1. /\ cut => cut'
          /\ \/ m_flags' = m_flags /\ Grows(q.cmd, q'.cmd, N) /\ cut' = cut
             \/ /\ "IDLE" \in m_flags /\ m_flags' = m_flags \ {"IDLE"}
                /\ AllocateDone' /\ (Running => cut')
                /\ Grows(Insert(q.cmd, E), q'.cmd, N)
      BY <1>7, PopulatedFacts
    <2>2. QED BY <1>1, <1>5, <1>6, <1>7, <2>1
  <1>8. QED BY <1>1, <1>4, <1>7

LEMMA FreedStream ==
    ASSUME TypeOK, NEW b \in Buffers, NEW qq \in Queues, Sized(qq), Freed(b, qq),
           Grows(q.cmd, qq.cmd, Asides)
    PROVE  \/ /\ m_flags' = m_flags /\ UNCHANGED <<drv, msgs, fails, failed>>
              /\ Grows(q.cmd, q'.cmd, Asides)
           \/ /\ "LOADING" \in m_flags /\ m_flags' = m_flags \ {"LOADING"}
              /\ Grows(q.cmd, q'.cmd, Asides \union {Event("StateSet", "Loaded")})
              /\ \A X : ~Has(q.cmd, X) /\ Asides \intersect X = {} => One(q'.cmd, X)
              /\ \E ok \in BOOLEAN : dev_stop(ok)
  <1> DEFINE E == Event("StateSet", "Loaded")
             N == {Event("PortDisable", p) : p \in Ports}
  <1>1. PICK s : /\ s \in Seq(CmdEntries)
                 /\ Grows(qq.cmd, s, N)
                 /\ \/ m_flags' = m_flags /\ q'.cmd = s /\ UNCHANGED <<drv, msgs, fails, failed>>
                    \/ /\ "LOADING" \in m_flags /\ m_flags' = m_flags \ {"LOADING"}
                       /\ q'.cmd = Insert(s, E)
                       /\ \E ok \in BOOLEAN : dev_stop(ok)
    BY FreedFacts
  <1>2. N \subseteq Asides
    BY EventType DEF Event, Asides
  <1>3. Grows(q.cmd, s, Asides)
    BY <1>1, <1>2, GrowsTrans, Asides \union N = Asides
  <1>4. CASE m_flags' = m_flags /\ q'.cmd = s /\ UNCHANGED <<drv, msgs, fails, failed>>
    BY <1>3, <1>4
  <1>5. CASE /\ "LOADING" \in m_flags /\ m_flags' = m_flags \ {"LOADING"}
             /\ q'.cmd = Insert(s, E)
             /\ \E ok \in BOOLEAN : dev_stop(ok)
    <2>1. E \in CmdEntries
      BY EventType DEF States
    <2>2. Grows(q.cmd, q'.cmd, Asides \union {E})
      <3>1. Grows(s, q'.cmd, {E})
        BY <1>1, <1>5, <2>1, GrowsInsert
      <3>2. QED BY <1>3, <3>1, GrowsTrans
    <2>3. ASSUME NEW X, ~Has(q.cmd, X), Asides \intersect X = {} PROVE One(q'.cmd, X)
      <3>1. ~Has(s, X)
        BY <1>3, <2>3 DEF Grows
      <3>2. One(s, X)
        BY <3>1 DEF Has, One
      <3>3. QED BY <1>1, <1>5, <2>1, <3>1, <3>2, InsertFacts
    <2>4. QED BY <1>5, <2>2, <2>3
  <1>6. QED BY <1>1, <1>4, <1>5

LEMMA FreeStream ==
    ASSUME TypeOK, NEW b \in Buffers, FreeBuffer(b)
    PROVE  /\ ~waiting
           /\ \/ /\ m_flags' = m_flags /\ UNCHANGED <<drv, msgs, fails, failed>>
                 /\ Grows(q.cmd, q'.cmd, Asides)
              \/ /\ "LOADING" \in m_flags /\ m_flags' = m_flags \ {"LOADING"}
                 /\ Grows(q.cmd, q'.cmd, Asides \union {Event("StateSet", "Loaded")})
                 /\ \A X : ~Has(q.cmd, X) /\ Asides \intersect X = {} => One(q'.cmd, X)
                 /\ \E ok \in BOOLEAN : dev_stop(ok)
  <1>1. q \in Queues /\ Sized(q) /\ Grows(q.cmd, q.cmd, Asides)
    BY QueuesType, GrowsSame
  <1>2. Grows(q.cmd, Post(q, Unpopulated).cmd, Asides)
    BY FreeFacts, GrowsMore, {Unpopulated} \subseteq Asides DEF Asides
  <1>3. CASE Freed(b, q)
    BY <1>1, <1>3, FreedStream, FreeFacts
  <1>4. CASE Freed(b, Post(q, Unpopulated))
    BY <1>2, <1>4, FreedStream, FreeFacts
  <1>5. CASE q' = Post(q, Unpopulated) /\ UNCHANGED <<m_flags, drv, msgs, fails, failed>>
    BY <1>2, <1>5, FreeFacts
  <1>6. QED BY <1>3, <1>4, <1>5, FreeFacts

(* A step of the steps above keeps the tokens, if its bits and the wait of *)
(* the client do.                                                          *)
LEMMA QuietToken ==
    ASSUME TokenInv, Quietly, m_flags' \subseteq m_flags,
           target' = target \/ (m_flags' = {} /\ ~Has(q'.cmd, Tokens))
    PROVE  TokenInv'
  <1>1. /\ Told \intersect Tokens = {}
        /\ \A s \in States : Told \intersect TokensOf(s) = {}
    BY ToldFacts
  <1>2. CASE Grows(q.cmd, q'.cmd, Told)
    BY <1>1, <1>2, TokenKept DEF TokenInv, Grows
  <1>3. CASE Drops(q.cmd, q'.cmd, Current, Told)
    BY <1>1, <1>3, TokenKept DEF TokenInv, Drops
  <1>4. QED BY <1>2, <1>3 DEF Quietly

(* A bit that is answered was the only one.                                *)
LEMMA EnterToken ==
    ASSUME TokenInv, Quietly, NEW flag, NEW s, flag \in m_flags, Enter(s, flag)
    PROVE  TokenInv' /\ m_flags = {flag} /\ m_flags' = {} /\ target = Goal(flag)
  <1>1. m_flags = {flag} /\ target = Goal(flag) /\ ~Has(q.cmd, Tokens)
    BY DEF TokenInv
  <1>2. m_flags' = {}
    BY <1>1 DEF Enter
  <1>3. ~Has(q'.cmd, Tokens)
    BY <1>1, ToldFacts DEF Quietly, Grows, Drops, Has
  <1>4. QED BY <1>1, <1>2, <1>3, QuietToken

LEMMA AskToken ==
    ASSUME TypeOK, TokenInv, NEW cmd, NEW a, send_command(cmd, a),
           <<"COMMAND", cmd, a>> \in Commands
    PROVE  TokenInv'
  <1> DEFINE x == <<"COMMAND", cmd, a>>
             s == q'.cmd
  <1>1. Grows(q.cmd, s, {x}) /\ s = Insert(q.cmd, x) /\ q.cmd \in Seq(CmdEntries) /\ x \in CmdEntries
    BY SendFacts, QueuesType DEF CmdEntries
  <1>2. m_flags' = m_flags /\ target' = IF cmd = "StateSet" THEN a ELSE target
    BY DEF send_command, flags
  <1>3. CASE cmd = "StateSet"
    <2>1. target = "none" /\ a \in States
      BY <1>3 DEF send_command, AsksWell, Commands
    <2>2. ~Has(q.cmd, Tokens) /\ m_flags = {} /\ \A t \in States : ~Has(q.cmd, TokensOf(t))
      <3>1. \A flag \in {"IDLE", "LOADING", "EXECUTE", "PAUSE"} : Goal(flag) # "none"
        BY DEF Goal
      <3>2. m_flags \subseteq {"IDLE", "LOADING", "EXECUTE", "PAUSE"}
        BY DEF TypeOK
      <3>3. m_flags = {} /\ ~Has(q.cmd, Tokens)
        BY <2>1, <3>1, <3>2 DEF TokenInv
      <3>4. QED BY <3>3, TokenFacts DEF Has
    <2>3. One(s, Tokens)
      <3>1. One(q.cmd, Tokens)
        BY DEF TokenInv
      <3>2. QED BY <1>1, <2>2, <3>1, InsertFacts
    <2>4. ASSUME NEW t \in States, Has(s, TokensOf(t)) PROVE t = a
      <3>1. x \in TokensOf(t)
        BY <1>1, <2>2, <2>4 DEF Grows
      <3>2. QED BY <1>3, <2>1, <3>1, TokenFacts
    <2>5. a # "none"
      BY <2>1 DEF States
    <2>6. QED BY <1>2, <1>3, <2>2, <2>3, <2>4, <2>5 DEF TokenInv
  <1>4. CASE cmd # "StateSet"
    <2>1. x \notin Tokens /\ \A t \in States : x \notin TokensOf(t)
      BY <1>4, TokenFacts
    <2>2. /\ One(s, Tokens) /\ (Has(s, Tokens) => Has(q.cmd, Tokens))
          /\ \A t \in States : Has(s, TokensOf(t)) => Has(q.cmd, TokensOf(t))
      BY <1>1, <2>1 DEF Grows, TokenInv
    <2>3. QED BY <1>2, <1>4, <2>2, TokenKept
  <1>5. QED BY <1>3, <1>4

(* The last buffer answers: its event takes the place of the bit.          *)
LEMMA BufferToken ==
    ASSUME TypeOK, TokenInv, target' = target, NEW flag \in m_flags, m_flags' = m_flags \ {flag},
           NEW s \in States, Goal(flag) = s,
           Grows(q.cmd, q'.cmd, Asides \union {Event("StateSet", s)}),
           \A X : ~Has(q.cmd, X) /\ Asides \intersect X = {} => One(q'.cmd, X)
    PROVE  TokenInv'
  <1>1. m_flags = {flag} /\ target = s /\ ~Has(q.cmd, Tokens) /\ m_flags' = {}
    BY DEF TokenInv
  <1>2. Asides \intersect Tokens = {} /\ \A t \in States : Asides \intersect TokensOf(t) = {}
    BY ToldFacts
  <1>3. One(q'.cmd, Tokens)
    BY <1>1, <1>2
  <1>4. ASSUME NEW t \in States, Has(q'.cmd, TokensOf(t)) PROVE t = s
    <2>1. ~Has(q.cmd, TokensOf(t))
      BY <1>1, TokenFacts DEF Has
    <2>2. Event("StateSet", s) \in TokensOf(t)
      BY <1>2, <1>4, <2>1 DEF Grows
    <2>3. QED BY <2>2, TokenFacts
  <1>5. s # "none"
    BY DEF States
  <1>6. QED BY <1>1, <1>3, <1>4, <1>5 DEF TokenInv

LEMMA BuffersToken ==
    ASSUME TypeOK, TokenInv, NEW b \in Buffers, AllocateBuffer(b) \/ FreeBuffer(b)
    PROVE  TokenInv'
  <1>1. target' = target
    BY DEF AllocateBuffer, FreeBuffer
  <1>2. CASE m_flags' = m_flags /\ Grows(q.cmd, q'.cmd, Asides)
    BY <1>1, <1>2, QuietToken, GrowsMore, ToldFacts DEF Quietly
  <1>3. CASE AllocateBuffer(b)
    <2>1. "Idle" \in States /\ Goal("IDLE") = "Idle"
      BY DEF States, Goal
    <2>2. QED BY <1>1, <1>2, <1>3, <2>1, AllocateStream, BufferToken
  <1>4. CASE FreeBuffer(b)
    <2>1. "Loaded" \in States /\ Goal("LOADING") = "Loaded"
      BY DEF States, Goal
    <2>2. QED BY <1>1, <1>2, <1>4, <2>1, FreeStream, BufferToken
  <1>5. QED BY <1>3, <1>4

LEMMA GenerateToken ==
    ASSUME TypeOK, TokenInv, GenerateEvent
    PROVE  /\ TokenInv'
           /\ Current[2] = "StateSet" => Current[3] = target /\ m_flags = {}
           /\ m_state' = m_state \/ m_state' = target
  <1>1. /\ Pending /\ Current \in CmdEntries /\ q.cmd # <<>> /\ Current = Head(q.cmd)
        /\ Drops(q.cmd, q'.cmd, Current, {})
    BY SignalStream
  <1>2. Quietly
    BY QuietSteps
  <1>3. Current[1] = "EVENT" /\ m_flags' = m_flags
    BY DEF GenerateEvent, Take, flags
  <1>4. Current \in Events
    BY <1>1, <1>3 DEF CmdEntries, Commands, Signals, DoneOut
  <1>5. ASSUME Current[2] = "StateSet"
        PROVE  Current[3] = target /\ m_flags = {} /\ ~Has(q'.cmd, Tokens)
    <2>1. PICK s \in States : Current = <<"EVENT", "StateSet", s>>
      BY <1>4, <1>5 DEF Events
    <2>2. Current \in TokensOf(s) /\ Current \in Tokens
      BY <2>1, TokenFacts DEF Event
    <2>3. Has(q.cmd, TokensOf(s)) /\ Has(q.cmd, Tokens) /\ ~Has(q'.cmd, Tokens)
      BY <1>1, <2>2 DEF Drops, TokenInv
    <2>4. target = s /\ m_flags = {}
      BY <2>3 DEF TokenInv
    <2>5. QED BY <2>1, <2>3, <2>4
  <1>6. ASSUME Current[2] # "StateSet", Current[3] = "transition"
        PROVE  m_flags = {} /\ ~Has(q'.cmd, Tokens)
    <2>1. Current \in Tokens
      <3>1. Current = <<"EVENT", "Error", "transition">>
        BY <1>4, <1>6 DEF Events, Named, Ports
      <3>2. QED BY <3>1, TokenFacts DEF Event
    <2>2. Has(q.cmd, Tokens) /\ ~Has(q'.cmd, Tokens)
      BY <1>1, <2>1 DEF Drops, TokenInv
    <2>3. QED BY <2>2 DEF TokenInv
  <1>7. TokenInv'
    BY <1>2, <1>3, <1>5, <1>6, QuietToken DEF GenerateEvent
  <1>8. QED BY <1>5, <1>7 DEF GenerateEvent

(* What the driver confirms answers a bit, or nothing.                     *)
LEMMA SignalToken ==
    ASSUME TypeOK, TokenInv,
           \/ StartDone \/ PauseDone \/ ResumeDone \/ StopDone
           \/ \E p \in Ports : FlushDone(p)
    PROVE  /\ TokenInv'
           /\ m_state' = m_state \/ m_state' = target
  <1>1. Quietly
    BY QuietSteps
  <1>2. \/ UNCHANGED <<m_state, m_flags, target>>
        \/ "EXECUTE" \in m_flags /\ Enter("Executing", "EXECUTE")
        \/ "PAUSE" \in m_flags /\ Enter("Pause", "PAUSE")
        \/ "IDLE" \in m_flags /\ Enter("Idle", "IDLE")
    BY DEF StartDone, PauseDone, ResumeDone, StopDone, FlushDone, PauseAfterStart, Answers
  <1>3. CASE UNCHANGED <<m_state, m_flags, target>>
    BY <1>1, <1>3, QuietToken
  <1>4. CASE "EXECUTE" \in m_flags /\ Enter("Executing", "EXECUTE")
    <2>1. TokenInv' /\ target = Goal("EXECUTE")
      BY <1>1, <1>4, EnterToken
    <2>2. QED BY <1>4, <2>1 DEF Enter, Goal
  <1>5. CASE "PAUSE" \in m_flags /\ Enter("Pause", "PAUSE")
    <2>1. TokenInv' /\ target = Goal("PAUSE")
      BY <1>1, <1>5, EnterToken
    <2>2. QED BY <1>5, <2>1 DEF Enter, Goal
  <1>6. CASE "IDLE" \in m_flags /\ Enter("Idle", "IDLE")
    <2>1. TokenInv' /\ target = Goal("IDLE")
      BY <1>1, <1>6, EnterToken
    <2>2. QED BY <1>6, <2>1 DEF Enter, Goal
  <1>7. QED BY <1>2, <1>3, <1>4, <1>5, <1>6

LEMMA InitToken == Init => TokenInv
  BY DEF Init, TokenInv, Has, One

LEMMA NextToken ==
    TypeOK /\ TokenInv /\ [Next]_vars
        => TokenInv' /\ (m_state' = m_state \/ m_state' = target)
  <1> SUFFICES ASSUME TypeOK, TokenInv, [Next]_vars
               PROVE  TokenInv' /\ (m_state' = m_state \/ m_state' = target)
    OBVIOUS
  <1>1. CASE (\E s \in States : LoadedTo(s) \/ IdleTo(s) \/ RunningTo(s) \/ WaitingTo(s))
                \/ RunningToIdle
    <2>1. m_state' = m_state
      BY <1>1, Zenon DEF LoadedTo, IdleTo, RunningTo, WaitingTo, RunningToIdle
    <2>2. QED BY <1>1, <2>1, StateCommandsToken
  <1>2. CASE \/ \E a \in Named : Flush(a) \/ PortEnable(a) \/ PortDisable(a)
             \/ empty_this_buffer_proxy \/ fill_this_buffer_proxy \/ BufferDone
             \/ async_message_process
             \/ \E b \in Buffers : FrameDone(b) \/ GiveBuffer(b)
    <2>1. UNCHANGED <<m_state, m_flags, target>>
      BY <1>2 DEF Flush, PortEnable, PortDisable, empty_this_buffer_proxy,
         fill_this_buffer_proxy, BufferDone, async_message_process, FrameDone, GiveBuffer, flags
    <2>2. Quietly
      BY <1>2, QuietSteps
    <2>3. QED BY <2>1, <2>2, QuietToken
  <1>3. CASE GenerateEvent
    BY <1>3, GenerateToken
  <1>4. CASE \/ StartDone \/ PauseDone \/ ResumeDone \/ StopDone
             \/ \E p \in Ports : FlushDone(p)
    BY <1>4, SignalToken
  <1>5. ASSUME NEW b \in Buffers, AllocateBuffer(b) \/ FreeBuffer(b)
        PROVE  TokenInv' /\ m_state' = m_state
    <2>1. m_state' = m_state
      BY <1>5, Zenon DEF AllocateBuffer, FreeBuffer
    <2>2. QED BY <1>5, <2>1, BuffersToken
  <1>6. ASSUME NEW cmd, NEW a, send_command(cmd, a), <<"COMMAND", cmd, a>> \in Commands
        PROVE  TokenInv' /\ m_state' = m_state
    <2>1. m_state' = m_state
      BY <1>6 DEF send_command
    <2>2. QED BY <1>6, <2>1, AskToken
  <1>7. CASE UNCHANGED vars
    BY <1>7, QuietToken, GrowsSame DEF vars, flags, Quietly
  <1>8. QED
    BY <1>1, <1>2, <1>3, <1>4, <1>5, <1>6, <1>7, CommandsType, Zenon
       DEF Next, process_event_cb

(* The state command the client waits for stands for itself once: as the   *)
(* command, as the bit it left pending, or as the event that answers it,   *)
(* and each is for the state that was asked for.                           *)
THEOREM TokenCorrect == Spec => []TokenInv
  <1>1. QED
    BY InitType, NextType, InitToken, NextToken, PTL DEF Spec

(* The state only changes to the one the client asked for and still waits  *)
(* for: of the command, a pending bit and the event that answers there is  *)
(* one at most, and it is for that state.                                  *)
THEOREM OnlyAsAskedHolds == Spec => OnlyAsAsked
  <1>1. TypeOK /\ TokenInv /\ [Next]_vars => [m_state' # m_state => m_state' = target]_vars
    BY NextToken
  <1>2. QED
    BY <1>1, TypeCorrect, TokenCorrect, PTL DEF Spec, OnlyAsAsked

-----------------------------------------------------------------------------
(* At most one command is queued: while it is, the client waits.           *)

LEMMA CommandKept ==
    ASSUME CommandInv, Quietly, waiting' = waiting
    PROVE  CommandInv'
  <1>1. Told \intersect Commands = {} /\ Told \intersect StateEvents = {}
    BY ToldFacts
  <1>2. /\ Has(q'.cmd, Commands) => Has(q.cmd, Commands)
        /\ One(q'.cmd, Commands) /\ Never(q'.cmd, Commands, StateEvents)
    BY <1>1 DEF Quietly, Grows, Drops, CommandInv
  <1>3. QED BY <1>2 DEF CommandInv

LEMMA CommandTaken ==
    ASSUME TypeOK, CommandInv, NEW cmd, NEW a, Command(cmd, a), NEW N,
           N \intersect Commands = {}, Drops(q.cmd, q'.cmd, Current, N)
    PROVE  CommandInv' /\ ~Has(q'.cmd, Commands)
  <1>1. Current \in Commands
    <2>1. Current \in CmdEntries /\ Current[1] = "COMMAND"
      BY TakesCommand DEF Command
    <2>2. QED BY <2>1 DEF CmdEntries, Events, Signals, DoneOut
  <1>2. ~Has(q'.cmd, Commands) /\ One(q'.cmd, Commands)
    BY <1>1 DEF CommandInv, Drops
  <1>3. QED BY <1>2, NeverWithout DEF CommandInv

LEMMA EventsAreNoCommands ==
    \A x \in CmdEntries : x[1] # "COMMAND" => x \notin Commands
  BY DEF Commands

LEMMA StateCommandsCommand ==
    ASSUME TypeOK, CommandInv,
           (\E s \in States : LoadedTo(s) \/ IdleTo(s) \/ RunningTo(s) \/ WaitingTo(s))
              \/ RunningToIdle
    PROVE  CommandInv'
  <1>1. ASSUME NEW s \in States, Command("StateSet", s),
               Complete(s) \/ Refuse \/ q'.cmd = Rest.cmd
                  \/ q' = Post(Rest, <<"RESUME_DONE", "", "">>)
        PROVE  CommandInv'
    <2>1. Pending /\ Current[1] \notin {"FTB", "ETB", "EBD"}
      BY <1>1 DEF Command
    <2>2. ASSUME q'.cmd = Rest.cmd PROVE Drops(q.cmd, q'.cmd, Current, {})
      BY <2>1, <2>2, TakesCommand, GrowsSame, PopDrops
    <2>3. ASSUME NEW x \in CmdEntries, x[1] # "COMMAND", q' = Post(Rest, x) PROVE CommandInv'
      <3>1. Drops(q.cmd, q'.cmd, Current, {x}) /\ {x} \intersect Commands = {}
        BY <2>1, <2>3, TakeDrops, EventsAreNoCommands
      <3>2. QED BY <1>1, <3>1, CommandTaken
    <2>4. <<"RESUME_DONE", "", "">> \in CmdEntries
      BY DEF CmdEntries, Signals
    <2>5. /\ Event("StateSet", s) \in CmdEntries /\ Event("StateSet", s)[1] # "COMMAND"
          /\ Refusal \in CmdEntries /\ Refusal[1] # "COMMAND"
          /\ Refusal = Event("Error", "transition")
      BY EventType DEF Event, Refusal
    <2>6. CASE q'.cmd = Rest.cmd
      BY <1>1, <2>2, <2>6, CommandTaken
    <2>7. CASE Complete(s) \/ Refuse
      BY <2>3, <2>5, <2>7 DEF Complete, Refuse
    <2>8. CASE q' = Post(Rest, <<"RESUME_DONE", "", "">>)
      BY <2>3, <2>4, <2>8
    <2>9. QED BY <1>1, <2>6, <2>7, <2>8
  <1>2. ASSUME NEW s \in States, LoadedTo(s) \/ IdleTo(s) \/ RunningTo(s) \/ WaitingTo(s)
        PROVE  CommandInv'
    <2>1. /\ Command("StateSet", s)
          /\ Complete(s) \/ Refuse \/ q'.cmd = Rest.cmd
                \/ q' = Post(Rest, <<"RESUME_DONE", "", "">>)
      BY <1>2 DEF LoadedTo, IdleTo, RunningTo, WaitingTo, StartFor, Later
    <2>2. QED BY <1>1, <2>1
  <1>3. CASE RunningToIdle
    <2>1. Command("StateSet", "Idle") /\ Rest \in Queues /\ "Idle" \in States
      BY <1>3, RestFacts DEF RunningToIdle, Command, States
    <2>2. q'.cmd = Rest.cmd
      BY <1>3, <2>1, FlushFacts DEF RunningToIdle
    <2>3. QED BY <1>1, <2>1, <2>2
  <1>4. QED BY <1>2, <1>3

LEMMA AskCommand ==
    ASSUME TypeOK, CommandInv, NEW cmd, NEW a, send_command(cmd, a),
           <<"COMMAND", cmd, a>> \in Commands
    PROVE  CommandInv'
  <1> DEFINE x == <<"COMMAND", cmd, a>>
             s == q'.cmd
  <1>1. Grows(q.cmd, s, {x}) /\ s = Insert(q.cmd, x) /\ q.cmd \in Seq(CmdEntries) /\ x \in CmdEntries
    BY SendFacts, QueuesType DEF CmdEntries
  <1>2. waiting' = TRUE /\ ~Has(q.cmd, Commands) /\ One(q.cmd, Commands)
        /\ Never(q.cmd, Commands, StateEvents)
    BY DEF send_command, CommandInv
  <1>3. One(s, Commands) /\ Never(s, Commands, StateEvents)
    BY <1>1, <1>2, InsertFacts
  <1>4. QED BY <1>2, <1>3 DEF CommandInv

LEMMA BuffersCommand ==
    ASSUME TypeOK, CommandInv, NEW b \in Buffers, AllocateBuffer(b) \/ FreeBuffer(b)
    PROVE  CommandInv'
  <1>1. ~waiting /\ waiting' = waiting /\ ~Has(q.cmd, Commands)
    BY DEF AllocateBuffer, FreeBuffer, CommandInv
  <1>2. CASE Grows(q.cmd, q'.cmd, Asides)
    BY <1>1, <1>2, CommandKept, GrowsMore, ToldFacts DEF Quietly
  <1>3. ASSUME NEW s \in States, Grows(q.cmd, q'.cmd, Asides \union {Event("StateSet", s)})
        PROVE  CommandInv'
    <2>1. (Asides \union {Event("StateSet", s)}) \intersect Commands = {}
      BY ToldFacts DEF Commands, Event
    <2>2. ~Has(q'.cmd, Commands)
      BY <1>1, <1>3, <2>1 DEF Grows
    <2>3. One(q'.cmd, Commands)
      BY <2>2 DEF Has, One
    <2>4. QED BY <2>2, <2>3, NeverWithout DEF CommandInv
  <1>4. "Idle" \in States /\ "Loaded" \in States
    BY DEF States
  <1>5. QED BY <1>2, <1>3, <1>4, AllocateStream, FreeStream

LEMMA NextCommand == TypeOK /\ CommandInv /\ [Next]_vars => CommandInv'
  <1> SUFFICES ASSUME TypeOK, CommandInv, [Next]_vars PROVE CommandInv'
    OBVIOUS
  <1>1. CASE (\E s \in States : LoadedTo(s) \/ IdleTo(s) \/ RunningTo(s) \/ WaitingTo(s))
                \/ RunningToIdle
    BY <1>1, StateCommandsCommand
  <1>2. ASSUME NEW a \in Named, Flush(a) \/ PortEnable(a) \/ PortDisable(a) PROVE CommandInv'
    <2>1. Drops(q.cmd, q'.cmd, Current, Asides)
      BY <1>2, FlushStream, PortEnableStream, PortDisableStream
    <2>2. Command("Flush", a) \/ Command("PortEnable", a) \/ Command("PortDisable", a)
      BY <1>2 DEF Flush, PortEnable, PortDisable
    <2>3. QED BY <2>1, <2>2, CommandTaken, ToldFacts
  <1>3. CASE \/ empty_this_buffer_proxy \/ fill_this_buffer_proxy \/ BufferDone
             \/ GenerateEvent \/ StartDone \/ PauseDone \/ ResumeDone \/ StopDone
             \/ \E p \in Ports : FlushDone(p)
             \/ async_message_process
             \/ \E b \in Buffers : FrameDone(b) \/ GiveBuffer(b)
    <2>1. waiting' = waiting
      BY <1>3, Zenon DEF empty_this_buffer_proxy, fill_this_buffer_proxy, BufferDone,
         GenerateEvent, StartDone, PauseDone, ResumeDone, StopDone, FlushDone,
         async_message_process, FrameDone, GiveBuffer
    <2>2. Quietly
      BY <1>3, QuietSteps
    <2>3. QED BY <2>1, <2>2, CommandKept
  <1>4. ASSUME NEW cmd, NEW a, send_command(cmd, a), <<"COMMAND", cmd, a>> \in Commands
        PROVE  CommandInv'
    BY <1>4, AskCommand
  <1>5. CASE UNCHANGED vars
    BY <1>5, CommandKept, GrowsSame DEF vars, Quietly
  <1>6. QED
    BY <1>1, <1>2, <1>3, <1>4, <1>5, BuffersCommand, CommandsType, Zenon
       DEF Next, process_event_cb

LEMMA InitCommand == Init => CommandInv
  BY DEF Init, CommandInv, Has, One, Never

(* One command is queued at a time, send_command waits for it, and no      *)
(* event of a state command waits behind it.                               *)
THEOREM CommandCorrect == Spec => []CommandInv
  <1>1. QED
    BY InitType, NextType, InitCommand, NextCommand, TypeCorrect, PTL DEF Spec

-----------------------------------------------------------------------------
(* The driver: what a step posts of M to m_cmd_q, and the driver sends of  *)
(* K, comes behind all that is on its way.                                 *)
News(M, K) ==
    \A X, Y \in SUBSET Signals :
        /\ InFlight(X)' => InFlight(X) \/ (M \union K) \intersect X # {}
        /\ OneInFlight(X) /\ (M \union K) \intersect X = {} => OneInFlight(X)'
        /\ NeverAhead(X, Y) /\ M \intersect X = {}
               /\ ((M \union K) \intersect Y = {} \/ ~InFlight(X)')
              => NeverAhead(X, Y)'

LEMMA NewsPosted ==
    ASSUME NEW A, Grows(q.cmd, q'.cmd, A) \/ Drops(q.cmd, q'.cmd, Current, A),
           NEW B, Grows(msgs, msgs', B),
           NEW M, A \intersect Signals \subseteq M, NEW K, B \intersect Signals \subseteq K
    PROVE  News(M, K)
  <1> SUFFICES ASSUME NEW X \in SUBSET Signals, NEW Y \in SUBSET Signals
               PROVE  /\ InFlight(X)' => InFlight(X) \/ (M \union K) \intersect X # {}
                      /\ OneInFlight(X) /\ (M \union K) \intersect X = {} => OneInFlight(X)'
                      /\ NeverAhead(X, Y) /\ M \intersect X = {}
                             /\ ((M \union K) \intersect Y = {} \/ ~InFlight(X)')
                            => NeverAhead(X, Y)'
    BY DEF News
  <1> DEFINE c == q'.cmd
             m == msgs'
  <1>1. /\ M \intersect X = {} => A \intersect X = {}
        /\ M \intersect Y = {} => A \intersect Y = {}
        /\ K \intersect X = {} => B \intersect X = {}
        /\ K \intersect Y = {} => B \intersect Y = {}
        /\ (M \union K) \intersect X = {} => M \intersect X = {} /\ K \intersect X = {}
        /\ (M \union K) \intersect Y = {} => M \intersect Y = {} /\ K \intersect Y = {}
    OBVIOUS
  <1>2. /\ Has(c, X) => Has(q.cmd, X) \/ A \intersect X # {}
        /\ One(q.cmd, X) /\ A \intersect X = {} => One(c, X)
        /\ Never(q.cmd, X, Y) /\ (A \intersect Y = {} \/ ~Has(c, X)) => Never(c, X, Y)
    BY DEF Grows, Drops
  <1>3. /\ Has(m, X) => Has(msgs, X) \/ B \intersect X # {}
        /\ Has(m, Y) => Has(msgs, Y) \/ B \intersect Y # {}
        /\ One(msgs, X) /\ B \intersect X = {} => One(m, X)
        /\ Never(msgs, X, Y) /\ (B \intersect Y = {} \/ ~Has(m, X)) => Never(m, X, Y)
    BY DEF Grows
  <1> HIDE DEF c, m
  <1>4. (InFlight(X)' <=> Has(c, X) \/ Has(m, X))
        /\ (OneInFlight(X)' <=> One(c, X) /\ One(m, X) /\ ~(Has(c, X) /\ Has(m, X)))
        /\ (NeverAhead(X, Y)' <=> Never(c, X, Y) /\ Never(m, X, Y) /\ ~(Has(c, X) /\ Has(m, Y)))
    BY DEF c, m, InFlight, OneInFlight, NeverAhead
  <1>5. InFlight(X)' => InFlight(X) \/ (M \union K) \intersect X # {}
    BY <1>1, <1>2, <1>3, <1>4 DEF InFlight
  <1>6. OneInFlight(X) /\ (M \union K) \intersect X = {} => OneInFlight(X)'
    BY <1>1, <1>2, <1>3, <1>4 DEF OneInFlight
  <1>7. ASSUME NeverAhead(X, Y), M \intersect X = {},
               (M \union K) \intersect Y = {} \/ ~InFlight(X)'
        PROVE  NeverAhead(X, Y)'
    BY <1>1, <1>2, <1>3, <1>4, <1>7 DEF NeverAhead
  <1>8. QED BY <1>5, <1>6, <1>7

(* What is taken was on its way, and what may not be behind it is not.     *)
LEMMA TakenFacts ==
    ASSUME Drops(q.cmd, q'.cmd, Current, {}), NEW B, Grows(msgs, msgs', B)
    PROVE  \A X, Y :
              /\ Current \in X => InFlight(X)
              /\ Current \in X /\ OneInFlight(X) /\ B \intersect X = {} => ~InFlight(X)'
              /\ Current \in X /\ NeverAhead(X, Y) /\ B \intersect Y = {} => ~InFlight(Y)'
  <1> SUFFICES ASSUME NEW X, NEW Y, Current \in X
               PROVE  /\ InFlight(X)
                      /\ OneInFlight(X) /\ B \intersect X = {} => ~InFlight(X)'
                      /\ NeverAhead(X, Y) /\ B \intersect Y = {} => ~InFlight(Y)'
    OBVIOUS
  <1>1. /\ Has(q.cmd, X)
        /\ One(q.cmd, X) => ~Has(q'.cmd, X)
        /\ Never(q.cmd, X, Y) => ~Has(q'.cmd, Y)
    BY DEF Drops
  <1>2. /\ Has(msgs', X) => Has(msgs, X) \/ B \intersect X # {}
        /\ Has(msgs', Y) => Has(msgs, Y) \/ B \intersect Y # {}
    BY DEF Grows
  <1>3. QED BY <1>1, <1>2 DEF InFlight, OneInFlight, NeverAhead

(* The callback thread moves a message from one end of its way to the      *)
(* other, or loses it.                                                     *)
LEMMA MovedFacts ==
    ASSUME TypeOK, async_message_process, NEW X, NEW Y
    PROVE  /\ InFlight(X)' => InFlight(X)
           /\ OneInFlight(X) => OneInFlight(X)'
           /\ NeverAhead(X, Y) => NeverAhead(X, Y)'
  <1> DEFINE h == Head(msgs)
             c == q'.cmd
             m == msgs'
  <1>1. msgs # <<>> /\ msgs \in Seq(Messages) /\ m = Tail(msgs) /\ q.cmd \in Seq(CmdEntries)
    BY QueuesType, TypeParts DEF async_message_process, DriverOK
  <1>2. /\ Has(msgs, X) <=> h \in X \/ Has(m, X)
        /\ Has(msgs, Y) <=> h \in Y \/ Has(m, Y)
        /\ One(msgs, X) => One(m, X) /\ ~(h \in X /\ Has(m, X))
        /\ Never(msgs, X, Y) => Never(m, X, Y) /\ ~(h \in X /\ Has(m, Y))
    BY <1>1, HasTail, OneTail, NeverTail
  <1>3. /\ Has(c, X) => Has(q.cmd, X) \/ h \in X
        /\ One(q.cmd, X) /\ ~(Has(q.cmd, X) /\ h \in X) => One(c, X)
        /\ Never(q.cmd, X, Y) /\ ~(Has(q.cmd, X) /\ h \in Y) => Never(c, X, Y)
    <2>1. CASE h \in CmdEntries /\ c = Insert(q.cmd, h)
      <3>1. /\ \A T : /\ Has(Insert(q.cmd, h), T) => Has(q.cmd, T) \/ h \in T
                      /\ One(q.cmd, T) /\ ~(Has(q.cmd, T) /\ h \in T)
                            => One(Insert(q.cmd, h), T)
            /\ \A T, U : Never(q.cmd, T, U) /\ ~(Has(q.cmd, T) /\ h \in U)
                            => Never(Insert(q.cmd, h), T, U)
        <4>1. q.cmd \in Seq(CmdEntries) /\ h \in CmdEntries
          BY <1>1, <2>1
        <4> HIDE DEF h, c
        <4>2. QED BY <4>1, InsertFacts
      <3>2. QED BY <2>1, <3>1
    <2>2. CASE c = q.cmd
      BY <2>2
    <2>3. QED BY <2>1, <2>2, AsyncFacts
  <1> HIDE DEF c, m, h
  <1>4. (InFlight(X)' <=> Has(c, X) \/ Has(m, X))
        /\ (OneInFlight(X)' <=> One(c, X) /\ One(m, X) /\ ~(Has(c, X) /\ Has(m, X)))
        /\ (NeverAhead(X, Y)' <=> Never(c, X, Y) /\ Never(m, X, Y) /\ ~(Has(c, X) /\ Has(m, Y)))
    BY DEF c, m, InFlight, OneInFlight, NeverAhead
  <1>5. QED BY <1>2, <1>3, <1>4 DEF InFlight, OneInFlight, NeverAhead

LEMMA MovedNews ==
    ASSUME TypeOK, async_message_process
    PROVE  News({}, {})
  BY MovedFacts DEF News

LEMMA KeyFacts ==
    /\ Starts \in SUBSET Signals /\ Pauses \in SUBSET Signals /\ Resumes \in SUBSET Signals
    /\ Stops \in SUBSET Signals /\ Flushes \in SUBSET Signals /\ Ahead \in SUBSET Signals
    /\ \A p \in Ports : FlushesOf(p) \in SUBSET Signals
    /\ Starts \intersect Pauses = {} /\ Starts \intersect Resumes = {} /\ Starts \intersect Stops = {}
    /\ Pauses \intersect Resumes = {} /\ Pauses \intersect Stops = {} /\ Pauses \intersect Ahead = {}
    /\ Resumes \intersect Stops = {} /\ Stops \intersect Ahead = {}
    /\ Flushes \intersect Starts = {} /\ Flushes \intersect Pauses = {}
    /\ Flushes \intersect Resumes = {} /\ Flushes \intersect Stops = {}
    /\ Asides \intersect Signals = {} /\ Commands \intersect Signals = {}
    /\ StateEvents \intersect Signals = {}
    /\ \A b \in Buffers : Done(b) \notin Signals
  <1>1. \A m \in Signals : m[1] \in {"START_DONE", "PAUSE_DONE", "RESUME_DONE", "STOP_DONE",
                                     "FLUSH_DONE"}
    BY DEF Signals
  <1>2. /\ \A m \in Asides : m[1] = "EVENT"
        /\ \A m \in Commands : m[1] = "COMMAND"
        /\ \A m \in StateEvents : m[1] = "EVENT"
    BY DEF Asides, Unpopulated, Event, Commands, StateEvents
  <1>3. /\ Asides \intersect Signals = {} /\ Commands \intersect Signals = {}
        /\ StateEvents \intersect Signals = {}
        /\ \A b \in Buffers : Done(b) \notin Signals
    BY <1>1, <1>2, DoneFacts
  <1>4. /\ Starts \subseteq Signals /\ Pauses \subseteq Signals /\ Resumes \subseteq Signals
        /\ Stops \subseteq Signals /\ \A p \in Ports : FlushesOf(p) \subseteq Signals
    <2>1. ASSUME NEW k \in {"START_DONE", "PAUSE_DONE", "RESUME_DONE", "STOP_DONE"}
          PROVE  \A st \in Statuses : <<k, "", st>> \in Signals
      BY DEF Signals, Statuses
    <2>2. ASSUME NEW p \in Ports PROVE \A st \in Statuses : <<"FLUSH_DONE", p, st>> \in Signals
      BY DEF Signals, Statuses
    <2>3. ASSUME NEW p \in Ports PROVE FlushesOf(p) \subseteq Signals
      BY <2>2 DEF FlushesOf
    <2>4. Starts \subseteq Signals
      BY <2>1 DEF Starts
    <2>5. Pauses \subseteq Signals
      BY <2>1 DEF Pauses
    <2>6. Resumes \subseteq Signals
      BY <2>1 DEF Resumes
    <2>7. Stops \subseteq Signals
      BY <2>1 DEF Stops
    <2>8. QED BY <2>3, <2>4, <2>5, <2>6, <2>7
  <1>5. Flushes \subseteq Signals /\ Ahead \subseteq Signals
    BY <1>4 DEF Flushes, Ahead, Ports
  <1>6. /\ \A m \in Starts : m[1] = "START_DONE"
        /\ \A m \in Pauses : m[1] = "PAUSE_DONE"
        /\ \A m \in Resumes : m[1] = "RESUME_DONE"
        /\ \A m \in Stops : m[1] = "STOP_DONE"
        /\ \A m \in Flushes : m[1] = "FLUSH_DONE"
    <2>1. ASSUME NEW k, NEW e PROVE \A m \in {<<k, e, st>> : st \in Statuses} : m[1] = k
      OBVIOUS
    <2>2. /\ \A m \in Starts : m[1] = "START_DONE"
          /\ \A m \in Pauses : m[1] = "PAUSE_DONE"
      BY <2>1, Zenon DEF Starts, Pauses
    <2>3. /\ \A m \in Resumes : m[1] = "RESUME_DONE"
          /\ \A m \in Stops : m[1] = "STOP_DONE"
      BY <2>1, Zenon DEF Resumes, Stops
    <2>4. ASSUME NEW p \in Ports PROVE \A m \in FlushesOf(p) : m[1] = "FLUSH_DONE"
      BY <2>1, Zenon DEF FlushesOf
    <2>5. QED BY <2>2, <2>3, <2>4 DEF Flushes, Ports
  <1>7. QED BY <1>3, <1>4, <1>5, <1>6 DEF Ahead

LEMMA DoneMessages ==
    /\ <<"START_DONE", "", "">> \in Starts
    /\ <<"PAUSE_DONE", "", "">> \in Pauses
    /\ <<"RESUME_DONE", "", "">> \in Resumes
    /\ <<"STOP_DONE", "", "">> \in Stops
  <1>1. "" \in Statuses
    BY DEF Statuses
  <1>2. <<"START_DONE", "", "">> \in Starts
    BY <1>1 DEF Starts
  <1>3. <<"PAUSE_DONE", "", "">> \in Pauses
    BY <1>1 DEF Pauses
  <1>4. <<"RESUME_DONE", "", "">> \in Resumes
    BY <1>1 DEF Resumes
  <1>5. <<"STOP_DONE", "", "">> \in Stops
    BY <1>1 DEF Stops
  <1>6. QED BY <1>2, <1>3, <1>4, <1>5

(* The news that matter                                                    *)
LEMMA KeyNews ==
    ASSUME NEW K, News({}, K)
    PROVE  /\ InFlight(Starts)' => InFlight(Starts) \/ K \intersect Starts # {}
           /\ InFlight(Pauses)' => InFlight(Pauses) \/ K \intersect Pauses # {}
           /\ InFlight(Resumes)' => InFlight(Resumes) \/ K \intersect Resumes # {}
           /\ InFlight(Stops)' => InFlight(Stops) \/ K \intersect Stops # {}
           /\ InFlight(Ahead)' => InFlight(Ahead) \/ K \intersect Ahead # {}
           /\ OneInFlight(Pauses) /\ K \intersect Pauses = {} => OneInFlight(Pauses)'
           /\ NeverAhead(Starts, Stops) /\ (K \intersect Stops = {} \/ ~InFlight(Starts)')
                 => NeverAhead(Starts, Stops)'
           /\ NeverAhead(Stops, Ahead) /\ (K \intersect Ahead = {} \/ ~InFlight(Stops)')
                 => NeverAhead(Stops, Ahead)'
  <1>1. {} \union K = K /\ {} \intersect Starts = {} /\ {} \intersect Stops = {}
    OBVIOUS
  <1>2. QED BY <1>1, KeyFacts DEF News

LEMMA NotAhead ==
    /\ InFlight(Ahead) <=> InFlight(Starts) \/ InFlight(Resumes) \/ InFlight(Flushes)
    /\ \A p \in Ports : InFlight(FlushesOf(p)) => InFlight(Flushes)
    /\ ~InFlight(Starts) => NeverAhead(Starts, Stops)
    /\ ~InFlight(Stops) => NeverAhead(Stops, Ahead)
  BY DEF InFlight, NeverAhead, Has, Never, Ahead, Flushes, FlushesOf, Ports

(* Nothing is posted or sent but what a flush gives back.                  *)
LEMMA FlushFits ==
    ASSUME DriverFits, EventsFit', UNCHANGED <<m_state, drv>>,
           NEW K \in SUBSET Flushes, drv = "stopped" => K = {}, News({}, K),
           m_flags' = m_flags \/ (Running /\ m_flags = {} /\ m_flags' = {"IDLE"})
    PROVE  DriverFits'
  <1>1. K \intersect Starts = {} /\ K \intersect Pauses = {} /\ K \intersect Resumes = {}
        /\ K \intersect Stops = {}
    BY KeyFacts
  <1>2. /\ InFlight(Pauses)' => InFlight(Pauses)
        /\ InFlight(Resumes)' => InFlight(Resumes)
        /\ InFlight(Stops)' => InFlight(Stops)
        /\ drv = "stopped" => (InFlight(Ahead)' => InFlight(Ahead))
        /\ OneInFlight(Pauses) => OneInFlight(Pauses)'
        /\ NeverAhead(Starts, Stops) => NeverAhead(Starts, Stops)'
        /\ NeverAhead(Stops, Ahead) /\ (drv = "stopped" \/ ~InFlight(Stops)) => NeverAhead(Stops, Ahead)'
    BY <1>1, KeyNews, K = {} => K \intersect Ahead = {}
  <1>3. FlagsFit' /\ PausesFit'
    BY <1>2 DEF DriverFits, FlagsFit, PausesFit, Running
  <1>4. StillFits'
    BY <1>2 DEF DriverFits, StillFits, Still, Starting, Running
  <1>5. StartingFits'
    BY <1>2 DEF DriverFits, StartingFits, Starting, Running
  <1>6. RunningFits'
    <2> SUFFICES ASSUME Running PROVE RunningFits'
      BY DEF RunningFits, Running
    <2>1. Match' = Match
      BY DEF Match
    <2>2. /\ m_flags = {} => drv = Match
          /\ "EXECUTE" \in m_flags => m_state = "Pause" /\ drv = "started"
          /\ "PAUSE" \in m_flags => m_state = "Executing" /\ drv = "paused"
          /\ "IDLE" \in m_flags => drv \in {Match, "stopped"}
          /\ InFlight(Stops) => "IDLE" \in m_flags /\ drv = "stopped"
          /\ NeverAhead(Stops, Ahead)
      BY DEF DriverFits, RunningFits
    <2>3. NeverAhead(Stops, Ahead)'
      BY <1>2, <2>2
    <2>4. QED BY <1>2, <2>1, <2>2, <2>3 DEF RunningFits
  <1>7. QED BY <1>3, <1>4, <1>5, <1>6 DEF DriverFits

(* Nothing is posted or sent at all.                                       *)
LEMMA CalmFits ==
    ASSUME DriverFits, EventsFit', UNCHANGED <<m_state, drv, m_flags>>, News({}, {})
    PROVE  DriverFits'
  BY FlushFits

(* The events of state commands                                            *)
LEMMA EventsKept ==
    ASSUME EventsFit, UNCHANGED m_state, NEW cmd, cmd = q'.cmd,
           \A T \in SUBSET StateEvents : Has(cmd, T) => Has(q.cmd, T)
    PROVE  EventsFit'
  <1>1. /\ Has(cmd, StateEvents) => Has(q.cmd, StateEvents)
        /\ \A s : Has(cmd, TokensOf(s) \intersect StateEvents)
                     => Has(q.cmd, TokensOf(s) \intersect StateEvents)
    OBVIOUS
  <1>2. QED BY <1>1 DEF EventsFit, Running

LEMMA QuietEvents ==
    ASSUME Quietly
    PROVE  \A T \in SUBSET StateEvents : Has(q'.cmd, T) => Has(q.cmd, T)
  <1>1. \A T \in SUBSET StateEvents : Told \intersect T = {}
    BY ToldFacts
  <1>2. QED BY <1>1 DEF Quietly, Grows, Drops

LEMMA StayNews ==
    ASSUME NEW A, A \intersect Signals = {}, UNCHANGED msgs,
           Grows(q.cmd, q'.cmd, A) \/ Drops(q.cmd, q'.cmd, Current, A)
    PROVE  News({}, {})
  <1>1. Grows(msgs, msgs', {})
    BY GrowsSame
  <1>2. QED BY <1>1, NewsPosted

LEMMA CalmNews ==
    ASSUME TypeOK,
           \/ \E a \in Named : PortEnable(a)
           \/ empty_this_buffer_proxy \/ fill_this_buffer_proxy \/ BufferDone
           \/ async_message_process
           \/ \E b \in Buffers : FrameDone(b) \/ GiveBuffer(b)
    PROVE  News({}, {}) /\ UNCHANGED <<m_state, drv, m_flags>>
  <1>1. ASSUME NEW a \in Named, PortEnable(a) PROVE News({}, {})
    <2>1. UNCHANGED msgs /\ Drops(q.cmd, q'.cmd, Current, Asides)
      BY <1>1, PortEnableStream DEF PortEnable, driver
    <2>2. QED BY <2>1, StayNews, KeyFacts
  <1>2. ASSUME empty_this_buffer_proxy \/ fill_this_buffer_proxy PROVE News({}, {})
    <2>1. PICK b \in Buffers : Grows(q.cmd, q'.cmd, {Done(b)})
      BY <1>2, EncodeStream
    <2>2. UNCHANGED msgs
      BY <1>2, Zenon DEF empty_this_buffer_proxy, fill_this_buffer_proxy
    <2>3. {Done(b)} \intersect Signals = {}
      BY KeyFacts
    <2>4. QED BY <2>1, <2>2, <2>3, StayNews
  <1>3. ASSUME BufferDone PROVE News({}, {})
    <2>1. UNCHANGED msgs
      BY <1>3 DEF BufferDone, driver
    <2>2. Grows(q.cmd, q'.cmd, {}) \/ Drops(q.cmd, q'.cmd, Current, {})
      BY <1>3, BufferDoneStream, GrowsSame
    <2>3. {} \intersect Signals = {}
      OBVIOUS
    <2>4. QED BY <2>1, <2>2, <2>3, StayNews
  <1>4. ASSUME NEW b \in Buffers, FrameDone(b) PROVE News({}, {})
    <2>1. UNCHANGED msgs /\ {Done(b)} \intersect Signals = {}
      BY <1>4, KeyFacts DEF FrameDone
    <2>2. QED BY <1>4, <2>1, FrameDoneStream, StayNews
  <1>5. ASSUME NEW b \in Buffers, GiveBuffer(b) PROVE News({}, {})
    <2>1. UNCHANGED msgs /\ q'.cmd = q.cmd
      BY <1>5, GiveFacts DEF GiveBuffer, driver
    <2>2. {} \intersect Signals = {} /\ Grows(q.cmd, q'.cmd, {})
      BY <2>1, GrowsSame
    <2>3. QED BY <2>1, <2>2, StayNews
  <1>6. News({}, {})
    BY <1>1, <1>2, <1>3, <1>4, <1>5, MovedNews, Zenon
  <1>7. UNCHANGED <<m_state, drv, m_flags>>
    BY DEF PortEnable, empty_this_buffer_proxy, fill_this_buffer_proxy, BufferDone,
       async_message_process, FrameDone, GiveBuffer, flags, driver
  <1>8. QED BY <1>6, <1>7

LEMMA CalmSteps ==
    ASSUME TypeOK, DriverFits,
           \/ \E a \in Named : PortEnable(a)
           \/ empty_this_buffer_proxy \/ fill_this_buffer_proxy \/ BufferDone
           \/ async_message_process
           \/ \E b \in Buffers : FrameDone(b) \/ GiveBuffer(b)
    PROVE  DriverFits'
  <1>1. News({}, {}) /\ UNCHANGED <<m_state, drv, m_flags>>
    BY CalmNews
  <1>2. EventsFit'
    BY <1>1, QuietSteps, QuietEvents, EventsKept DEF DriverFits
  <1>3. QED BY <1>1, <1>2, CalmFits

LEMMA AskNews ==
    ASSUME TypeOK, NEW cmd, NEW a, send_command(cmd, a), <<"COMMAND", cmd, a>> \in Commands
    PROVE  /\ News({}, {}) /\ UNCHANGED <<m_state, drv, m_flags>>
           /\ \A T \in SUBSET StateEvents : Has(q'.cmd, T) => Has(q.cmd, T)
  <1> DEFINE x == <<"COMMAND", cmd, a>>
  <1>1. Grows(q.cmd, q'.cmd, {x}) /\ UNCHANGED <<m_state, drv, m_flags, msgs>>
    BY SendFacts DEF send_command, driver, flags
  <1>2. {x} \intersect Signals = {} /\ x \notin StateEvents
    BY KeyFacts DEF StateEvents
  <1> HIDE DEF x
  <1>3. \A T \in SUBSET StateEvents : Has(q'.cmd, T) => Has(q.cmd, T)
    BY <1>1, <1>2 DEF Grows
  <1>4. News({}, {})
    BY <1>1, <1>2, StayNews
  <1>5. QED BY <1>1, <1>3, <1>4

LEMMA AskFits ==
    ASSUME TypeOK, DriverFits, NEW cmd, NEW a, send_command(cmd, a),
           <<"COMMAND", cmd, a>> \in Commands
    PROVE  DriverFits'
  BY AskNews, EventsKept, CalmFits DEF DriverFits

(* What is sent when the ports of P are flushed                            *)
LEMMA FlushNews ==
    ASSUME TypeOK, NEW P \in SUBSET Ports, NEW qq \in Queues, execute_omx_flush(P, qq),
           NEW A, A \intersect Signals = {}, Drops(q.cmd, q'.cmd, Current, A)
    PROVE  /\ drv' = drv
           /\ \E K \in SUBSET Flushes : (drv = "stopped" => K = {}) /\ News({}, K)
  <1>1. PICK ok \in SUBSET P, did \in SUBSET P : dev_flush(P, ok, did)
    BY FlushFacts
  <1> DEFINE K == {<<"FLUSH_DONE", p, Status(p \in did)>> : p \in ok}
  <1>2. Grows(msgs, msgs', Given(ok, did)) /\ drv' = drv /\ (drv = "stopped" => ok = {})
    BY <1>1, DevFlush
  <1>3. Given(ok, did) \intersect Signals \subseteq K
    <2>1. \A b \in held : Done(b) \notin Signals
      BY KeyFacts DEF TypeOK
    <2>2. QED BY <2>1 DEF Given
  <1>4. K \subseteq Flushes
    <2>1. \A p \in Ports : <<"FLUSH_DONE", p, Status(p \in did)>> \in FlushesOf(p)
      BY DEF FlushesOf, Status, Statuses
    <2>2. \A p \in Ports : FlushesOf(p) \subseteq Flushes
      BY DEF Flushes, Ports
    <2>3. QED BY <2>1, <2>2
  <1>5. News({}, K)
    BY <1>2, <1>3, NewsPosted
  <1>6. QED BY <1>2, <1>4, <1>5

LEMMA FlushCommandNews ==
    ASSUME TypeOK, NEW a \in Named, Flush(a) \/ PortDisable(a)
    PROVE  /\ UNCHANGED <<m_state, m_flags, drv>>
           /\ \E K \in SUBSET Flushes : (drv = "stopped" => K = {}) /\ News({}, K)
  <1> DEFINE G == /\ drv' = drv
                  /\ \E K \in SUBSET Flushes : (drv = "stopped" => K = {}) /\ News({}, K)
  <1>1. UNCHANGED <<m_state, m_flags>>
    BY DEF Flush, PortDisable
  <1>2. Asides \intersect Signals = {} /\ Drops(q.cmd, q'.cmd, Current, Asides)
    BY FlushStream, PortDisableStream, KeyFacts
  <1>3. ASSUME NEW qq \in Queues, execute_omx_flush(PortsOf(a), qq) PROVE G
    <2>1. PortsOf(a) \in SUBSET Ports
      BY EventType
    <2>2. QED BY <1>2, <1>3, <2>1, FlushNews
  <1>4. Rest \in Queues
    BY RestFacts DEF Flush, PortDisable, Command
  <1>5. CASE Flush(a)
    BY <1>1, <1>3, <1>4, <1>5 DEF Flush
  <1>6. CASE PortDisable(a)
    <2> DEFINE ready == {p \in PortsOf(a) : m_state \in {"Loaded", "Idle"} /\ Released(p)}
               posted == PortEvents(Rest, "PortDisable", a, ready)
    <2>1. posted \in Queues
      BY <1>4, PortEventsFacts
    <2>2. execute_omx_flush(PortsOf(a), posted) \/ UNCHANGED <<drv, msgs>>
      BY <1>6 DEF PortDisable, driver
    <2> HIDE DEF posted
    <2>3. CASE UNCHANGED <<drv, msgs>>
      <3>1. News({}, {})
        BY <1>2, <2>3, StayNews
      <3>2. QED BY <1>1, <2>3, <3>1
    <2>4. QED BY <1>1, <1>3, <2>1, <2>2, <2>3
  <1>7. QED BY <1>5, <1>6

LEMMA FlushCommandsFit ==
    ASSUME TypeOK, DriverFits, NEW a \in Named, Flush(a) \/ PortDisable(a)
    PROVE  DriverFits'
  <1>1. UNCHANGED <<m_state, m_flags, drv>>
    BY FlushCommandNews
  <1>2. PICK K \in SUBSET Flushes : (drv = "stopped" => K = {}) /\ News({}, K)
    BY FlushCommandNews
  <1>3. EventsFit'
    BY <1>1, QuietSteps, QuietEvents, EventsKept DEF DriverFits
  <1>4. QED BY <1>1, <1>2, <1>3, FlushFits

LEMMA RunningToIdleFits ==
    ASSUME TypeOK, TokenInv, DriverFits, RunningToIdle
    PROVE  DriverFits'
  <1>1. Command("StateSet", "Idle") /\ "Idle" \in States /\ execute_omx_flush(Ports, Rest)
        /\ Running /\ m_state' = m_state /\ m_flags' = m_flags \union {"IDLE"}
    BY DEF RunningToIdle, States
  <1>2. m_flags = {} /\ Pending /\ Current[1] \notin {"FTB", "ETB", "EBD"}
        /\ Rest.cmd = Tail(q.cmd) /\ Rest \in Queues
    BY <1>1, AskedFor, TakesCommand
  <1>3. q'.cmd = Tail(q.cmd)
    BY <1>1, <1>2, FlushFacts
  <1>4. Drops(q.cmd, q'.cmd, Current, {})
    BY <1>2, <1>3, GrowsSame, PopDrops
  <1>5. EventsFit'
    BY <1>1, <1>4, EventsKept DEF Drops, DriverFits
  <1>6. PICK K \in SUBSET Flushes : (drv = "stopped" => K = {}) /\ News({}, K)
    BY <1>1, <1>2, <1>4, FlushNews, {} \intersect Signals = {}
  <1>7. drv' = drv
    BY <1>1, <1>2, <1>4, FlushNews, {} \intersect Signals = {}
  <1>8. QED BY <1>1, <1>2, <1>5, <1>6, <1>7, FlushFits

(* The driver is stopped before and after.                                 *)
LEMMA StillStays ==
    ASSUME TypeOK, DriverFits, Still, Still', FlagsFit', EventsFit', drv' = "stopped",
           NEW K, K \intersect Ahead = {}, K \intersect Pauses = {}, News({}, K)
    PROVE  DriverFits'
  <1>1. "PAUSE" \notin m_flags
    BY DEF DriverFits, FlagsFit, Still, Starting, Running, TypeOK, States
  <1>2. ~InFlight(Pauses)' /\ OneInFlight(Pauses)' /\ ~InFlight(Ahead)'
    BY <1>1, KeyNews DEF DriverFits, PausesFit, StillFits
  <1>3. PausesFit' /\ StillFits' /\ StartingFits' /\ RunningFits'
    BY <1>2 DEF PausesFit, StillFits, StartingFits, RunningFits, Still
  <1>4. QED BY <1>3 DEF DriverFits

(* What the handler of a state command posts is no message of the driver.  *)
LEMMA StateCommandStream ==
    ASSUME TypeOK, EventsFit, NEW s \in States, Command("StateSet", s), UNCHANGED m_state,
           \/ q' = Rest \/ Refuse
           \/ Complete(s) /\ ~Running /\ s \notin {"Executing", "Pause"}
    PROVE  /\ EventsFit'
           /\ \E A : A \intersect Signals = {} /\ Drops(q.cmd, q'.cmd, Current, A)
  <1> DEFINE c == q'.cmd
  <1>1. Pending /\ Current[1] \notin {"FTB", "ETB", "EBD"}
    BY DEF Command
  <1>2. CASE q' = Rest
    <2>1. Drops(q.cmd, c, Current, {}) /\ {} \intersect Signals = {}
      BY <1>1, <1>2, TakeDrops
    <2>2. \A T \in SUBSET StateEvents : Has(c, T) => Has(q.cmd, T)
      BY <2>1 DEF Drops
    <2>3. QED BY <2>1, <2>2, EventsKept
  <1>3. CASE Refuse
    <2> DEFINE x == Event("Error", "transition")
    <2>1. x \in CmdEntries /\ x \notin StateEvents /\ x \notin Signals
      BY EventType DEF Event, StateEvents, Signals
    <2>2. Drops(q.cmd, c, Current, {x})
      BY <1>1, <1>3, <2>1, TakeDrops DEF Refuse
    <2>3. \A T \in SUBSET StateEvents : Has(c, T) => Has(q.cmd, T)
      BY <2>1, <2>2 DEF Drops
    <2>4. {x} \intersect Signals = {}
      BY <2>1
    <2> HIDE DEF x
    <2>5. QED BY <2>2, <2>3, <2>4, EventsKept
  <1>4. CASE Complete(s) /\ ~Running /\ s \notin {"Executing", "Pause"}
    <2> DEFINE x == Event("StateSet", s)
    <2>1. x \in CmdEntries /\ x \notin Signals
      BY EventType DEF Event, Signals
    <2>2. x \notin TokensOf("Executing") /\ x \notin TokensOf("Pause")
      BY <1>4, TokenFacts DEF States
    <2>3. Drops(q.cmd, c, Current, {x})
      BY <1>1, <1>4, <2>1, TakeDrops DEF Complete
    <2>4. {x} \intersect Signals = {}
      BY <2>1
    <2> HIDE DEF x
    <2>5. /\ ~Has(c, TokensOf("Executing") \intersect StateEvents)
          /\ ~Has(c, TokensOf("Pause") \intersect StateEvents)
      BY <2>2, <2>3 DEF Drops, EventsFit
    <2>6. EventsFit'
      BY <1>4, <2>5 DEF EventsFit, Running
    <2>7. QED BY <2>3, <2>4, <2>6
  <1>5. QED BY <1>2, <1>3, <1>4

LEMMA LoadedFits ==
    ASSUME TypeOK, TokenInv, DriverFits, NEW s \in States, LoadedTo(s) \/ WaitingTo(s)
    PROVE  DriverFits'
  <1>1. /\ Command("StateSet", s) /\ UNCHANGED <<m_state, drv, msgs>>
        /\ m_state \in {"Loaded", "WaitForResources"} /\ ~Running /\ Still
        /\ m_flags' \in {m_flags, m_flags \union {"IDLE"}}
    BY DEF LoadedTo, WaitingTo, driver, flags, Later, Running, Still, Starting
  <1>2. q' = Rest \/ Refuse \/ (Complete(s) /\ s \notin {"Executing", "Pause"})
    BY DEF LoadedTo, WaitingTo, Later
  <1>3. EventsFit' /\ \E A : A \intersect Signals = {} /\ Drops(q.cmd, q'.cmd, Current, A)
    BY <1>1, <1>2, StateCommandStream DEF DriverFits
  <1>4. News({}, {})
    BY <1>1, <1>3, StayNews
  <1>5. FlagsFit' /\ Still'
    BY <1>1 DEF DriverFits, FlagsFit, Still, Starting, Running
  <1>6. drv' = "stopped"
    BY <1>1 DEF DriverFits, StillFits
  <1>7. {} \intersect Ahead = {} /\ {} \intersect Pauses = {}
    OBVIOUS
  <1>8. QED BY <1>1, <1>3, <1>4, <1>5, <1>6, <1>7, StillStays

(* One message is sent.                                                    *)
LEMMA SentNews ==
    ASSUME TypeOK, NEW m \in {"START_DONE", "PAUSE_DONE", "RESUME_DONE", "STOP_DONE"},
           msgs' = Append(msgs, <<m, "", "">>),
           NEW A, A \intersect Signals = {},
           Grows(q.cmd, q'.cmd, A) \/ Drops(q.cmd, q'.cmd, Current, A)
    PROVE  /\ \A K : <<m, "", "">> \in K => News({}, K)
           /\ \A X \in SUBSET Signals : ~InFlight(X) => OneInFlight(X)'
  <1> DEFINE x == <<m, "", "">>
             c == q'.cmd
             n == msgs'
  <1>1. x \in Messages /\ msgs \in Seq(Messages)
    BY TypeParts DEF Messages, Signals, DriverOK
  <1> HIDE DEF x
  <1>2. n = Append(msgs, x)
    BY DEF x
  <1>3. Grows(msgs, n, {x}) /\ \A X : ~Has(msgs, X) => One(n, X)
    BY <1>1, <1>2, GrowsAppend
  <1>4. ASSUME NEW K, x \in K PROVE News({}, K)
    <2>1. {x} \intersect Signals \subseteq K
      BY <1>4
    <2>2. QED BY <1>3, <2>1, NewsPosted
  <1>5. ASSUME NEW X \in SUBSET Signals, ~InFlight(X) PROVE OneInFlight(X)'
    <2>1. ~Has(q.cmd, X) /\ ~Has(msgs, X)
      BY <1>5 DEF InFlight
    <2>2. A \intersect X = {}
      OBVIOUS
    <2>3. ~Has(c, X)
      BY <2>1, <2>2 DEF Grows, Drops
    <2>4. One(c, X) /\ One(n, X)
      BY <1>3, <2>1, <2>3 DEF Has, One
    <2>5. QED BY <2>3, <2>4 DEF OneInFlight
  <1>6. QED BY <1>4, <1>5 DEF x

LEMMA IdleFits ==
    ASSUME TypeOK, TokenInv, DriverFits, NEW s \in States, IdleTo(s), ~failed'
    PROVE  DriverFits'
  <1>1. Command("StateSet", s) /\ m_state = "Idle" /\ m_state' = "Idle" /\ m_flags = {}
        /\ ~Running /\ Still
    BY AskedFor DEF IdleTo, Running, Still, Starting
  <1>2. drv = "stopped" /\ ~InFlight(Ahead) /\ ~InFlight(Pauses) /\ OneInFlight(Pauses)
    BY <1>1 DEF DriverFits, StillFits, PausesFit
  <1>3. q' = Rest \/ Refuse \/ (Complete(s) /\ s \notin {"Executing", "Pause"})
    BY DEF IdleTo, StartFor, Later
  <1>4. EventsFit'
    BY <1>1, <1>3, StateCommandStream DEF DriverFits
  <1>5. PICK A : A \intersect Signals = {} /\ Drops(q.cmd, q'.cmd, Current, A)
    BY <1>1, <1>3, StateCommandStream DEF DriverFits
  <1>6. {} \intersect Ahead = {} /\ {} \intersect Pauses = {}
    OBVIOUS
  <1>7. CASE UNCHANGED <<drv, msgs>> /\ m_flags' \in {{}, {"LOADING"}}
    <2>1. News({}, {})
      BY <1>5, <1>7, StayNews
    <2>2. FlagsFit' /\ Still'
      BY <1>1, <1>7 DEF FlagsFit, Still, Starting, Running
    <2>3. QED BY <1>1, <1>2, <1>4, <1>6, <1>7, <2>1, <2>2, StillStays
  <1>8. ASSUME dev_stop(TRUE), m_flags' = m_flags PROVE DriverFits'
    <2>1. drv' = "stopped" /\ msgs' = Append(msgs, <<"STOP_DONE", "", "">>)
      BY <1>8, StopFacts
    <2>2. News({}, Stops)
      BY <1>5, <2>1, SentNews, DoneMessages
    <2>3. FlagsFit' /\ Still'
      BY <1>1, <1>8 DEF FlagsFit, Still, Starting, Running
    <2>4. QED BY <1>1, <1>4, <2>1, <2>2, <2>3, StillStays, KeyFacts
  <1>9. ASSUME dev_start(TRUE), NEW flag \in {"EXECUTE", "PAUSE"}, m_flags' = m_flags \union {flag}
        PROVE  DriverFits'
    <2>1. drv' = "started" /\ msgs' = Append(msgs, <<"START_DONE", "", "">>)
      BY <1>9, IoctlFacts DEF dev_start
    <2>2. News({}, Starts)
      BY <1>5, <2>1, SentNews, DoneMessages
    <2>3. m_flags' = {flag}
      BY <1>1, <1>9
    <2>4. ~InFlight(Pauses)' /\ OneInFlight(Pauses)' /\ ~InFlight(Resumes)'
      BY <1>2, <2>2, KeyNews, KeyFacts, NotAhead
    <2>5. NeverAhead(Starts, Stops)'
      BY <1>2, <2>2, KeyNews, KeyFacts, NotAhead
    <2>6. FlagsFit' /\ PausesFit' /\ StartingFits'
      BY <1>1, <2>1, <2>3, <2>4, <2>5 DEF FlagsFit, PausesFit, StartingFits
    <2>7. StillFits' /\ RunningFits'
      BY <1>1, <2>3 DEF StillFits, RunningFits, Still, Starting, Running
    <2>8. QED BY <1>4, <2>6, <2>7 DEF DriverFits
  <1>10. ASSUME NEW flag \in {"EXECUTE", "PAUSE"}, StartFor(flag) PROVE DriverFits'
    <2>1. PICK ok \in BOOLEAN : /\ dev_start(ok)
                                /\ m_flags' = IF ok THEN m_flags \union {flag} ELSE m_flags
      BY <1>10 DEF StartFor, Later
    <2>2. CASE ok
      BY <1>9, <2>1, <2>2
    <2>3. CASE ~ok
      <3>1. UNCHANGED <<drv, msgs>>
        BY <2>1, <2>3, IoctlFacts DEF dev_start
      <3>2. QED BY <1>1, <1>7, <2>1, <2>3, <3>1
    <2>4. QED BY <2>2, <2>3
  <1>11. CASE s = "Loaded" /\ ReleaseDone
    <2>1. PICK ok \in BOOLEAN : dev_stop(ok)
      BY <1>11 DEF IdleTo, StartFor
    <2>2. m_flags' = m_flags
      BY <1>11 DEF IdleTo
    <2>3. CASE ok
      BY <1>8, <2>1, <2>2, <2>3
    <2>4. CASE ~ok
      <3>1. UNCHANGED <<drv, msgs>>
        BY <2>1, <2>4, StopFacts
      <3>2. QED BY <1>1, <1>7, <2>2, <3>1
    <2>5. QED BY <2>3, <2>4
  <1>12. CASE s = "Loaded" /\ ~ReleaseDone
    <2>1. UNCHANGED <<drv, msgs>> /\ m_flags' = m_flags \union {"LOADING"}
      BY <1>12 DEF IdleTo, Later
    <2>2. QED BY <1>1, <1>7, <2>1
  <1>13. CASE s \in {"Idle", "WaitForResources"}
    <2>1. UNCHANGED <<drv, msgs>> /\ m_flags' = m_flags
      BY <1>13 DEF IdleTo
    <2>2. QED BY <1>1, <1>7, <2>1
  <1>14. QED BY <1>10, <1>11, <1>12, <1>13 DEF IdleTo

LEMMA RunningFit ==
    ASSUME TypeOK, TokenInv, DriverFits, NEW s \in States, RunningTo(s), ~failed'
    PROVE  DriverFits'
  <1>1. Command("StateSet", s) /\ Running /\ m_state' = m_state /\ m_flags = {}
        /\ Pending /\ Current[1] \notin {"FTB", "ETB", "EBD"}
    BY AskedFor DEF RunningTo
  <1>2. drv = Match /\ ~InFlight(Stops) /\ ~InFlight(Pauses) /\ OneInFlight(Pauses)
        /\ NeverAhead(Stops, Ahead)
    BY <1>1 DEF DriverFits, RunningFits, PausesFit
  <1>3. CASE UNCHANGED <<drv, msgs, m_flags>> /\ (q' = Rest \/ Refuse)
    <2>1. EventsFit'
      BY <1>1, <1>3, StateCommandStream DEF DriverFits
    <2>2. PICK A : A \intersect Signals = {} /\ Drops(q.cmd, q'.cmd, Current, A)
      BY <1>1, <1>3, StateCommandStream DEF DriverFits
    <2>3. News({}, {})
      BY <1>3, <2>2, StayNews
    <2>4. QED BY <1>1, <1>3, <2>1, <2>3, CalmFits
  <1>4. ASSUME EventsFit', ~InFlight(Stops)', OneInFlight(Pauses)',
               \/ m_state = "Executing" /\ drv' = "paused" /\ m_flags' = {"PAUSE"}
               \/ m_state = "Pause" /\ drv' = "started" /\ m_flags' = {"EXECUTE"}
                     /\ ~InFlight(Pauses)'
        PROVE  DriverFits'
    <2>1. FlagsFit' /\ PausesFit'
      BY <1>1, <1>4 DEF FlagsFit, PausesFit
    <2>2. StillFits' /\ StartingFits'
      BY <1>1, <1>4 DEF StillFits, StartingFits, Still, Starting, Running
    <2>3. NeverAhead(Stops, Ahead)'
      BY <1>4, NeverWithout DEF NeverAhead, InFlight
    <2>4. RunningFits'
      BY <1>1, <1>4, <2>3 DEF RunningFits
    <2>5. QED BY <1>4, <2>1, <2>2, <2>4 DEF DriverFits
  <1>5. CASE m_state = "Executing" /\ s = "Pause"
    <2>1. PICK ok \in BOOLEAN :
             dev_pause(ok) /\ IF ok THEN Later("PAUSE") ELSE Refuse /\ UNCHANGED m_flags
      BY <1>5 DEF RunningTo
    <2>2. CASE ~ok
      <3>1. UNCHANGED <<drv, msgs>>
        BY <2>1, <2>2, IoctlFacts DEF dev_pause
      <3>2. QED BY <1>3, <2>1, <2>2, <3>1
    <2>3. CASE ok
      <3>1. drv' = "paused" /\ msgs' = Append(msgs, <<"PAUSE_DONE", "", "">>)
        BY <2>1, <2>3, IoctlFacts DEF dev_pause
      <3>2. q' = Rest /\ m_flags' = {"PAUSE"}
        BY <1>1, <2>1, <2>3 DEF Later
      <3>3. EventsFit'
        BY <1>1, <3>2, StateCommandStream DEF DriverFits
      <3>4. PICK A : A \intersect Signals = {} /\ Drops(q.cmd, q'.cmd, Current, A)
        BY <1>1, <3>2, StateCommandStream DEF DriverFits
      <3>5. News({}, Pauses) /\ OneInFlight(Pauses)'
        BY <1>2, <3>1, <3>4, SentNews, KeyFacts, DoneMessages
      <3>6. ~InFlight(Stops)'
        BY <1>2, <3>5, KeyNews, KeyFacts
      <3>7. QED BY <1>4, <1>5, <3>1, <3>2, <3>3, <3>5, <3>6
    <2>4. QED BY <2>2, <2>3
  <1>6. CASE m_state = "Pause" /\ s = "Executing"
    <2>1. PICK ok \in BOOLEAN :
             /\ dev_resume(ok)
             /\ IF ok THEN /\ q' = Post(Rest, <<"RESUME_DONE", "", "">>)
                           /\ m_flags' = m_flags \union {"EXECUTE"}
                      ELSE Refuse /\ UNCHANGED m_flags
      BY <1>6 DEF RunningTo
    <2>2. CASE ~ok
      <3>1. UNCHANGED <<drv, msgs>>
        BY <2>1, <2>2, IoctlFacts DEF dev_resume
      <3>2. QED BY <1>3, <2>1, <2>2, <3>1
    <2>3. CASE ok
      <3>1. drv' = "started" /\ msgs' = Append(msgs, <<"RESUME_DONE", "", "">>)
        BY <2>1, <2>3, IoctlFacts DEF dev_resume
      <3>2. q' = Post(Rest, <<"RESUME_DONE", "", "">>) /\ m_flags' = {"EXECUTE"}
        BY <1>1, <2>1, <2>3
      <3> DEFINE x == <<"RESUME_DONE", "", "">>
      <3>3. x \in CmdEntries /\ x \in Messages /\ x \notin StateEvents
        BY DEF CmdEntries, Messages, Signals, StateEvents
      <3>4. Drops(q.cmd, q'.cmd, Current, {x})
        BY <1>1, <3>2, <3>3, TakeDrops
      <3>5. Grows(msgs, msgs', {x})
        BY <3>1, <3>3, GrowsAppend, TypeParts DEF DriverOK
      <3>6. News(Resumes, Resumes)
        <4>1. {x} \intersect Signals \subseteq Resumes
          BY DoneMessages
        <4> HIDE DEF x
        <4>2. QED BY <3>4, <3>5, <4>1, NewsPosted
      <3>7. ~InFlight(Stops)' /\ ~InFlight(Pauses)' /\ OneInFlight(Pauses)'
        BY <1>2, <3>6, KeyFacts DEF News
      <3>8. {x} \intersect StateEvents = {}
        BY <3>3
      <3>9. EventsFit'
        BY <1>1, <3>4, <3>8, EventsKept DEF Drops, DriverFits
      <3>10. QED BY <1>4, <1>6, <3>1, <3>2, <3>7, <3>9
    <2>4. QED BY <2>2, <2>3
  <1>7. QED BY <1>3, <1>5, <1>6, Zenon DEF RunningTo

(* An entry of m_cmd_q from what it is                                     *)
LEMMA EntryFacts ==
    ASSUME NEW m \in CmdEntries
    PROVE  /\ m[1] = "START_DONE" => m \in Starts
           /\ m[1] = "PAUSE_DONE" => m \in Pauses
           /\ m[1] = "RESUME_DONE" => m \in Resumes
           /\ m[1] = "STOP_DONE" => m \in Stops
           /\ \A p : m[1] = "FLUSH_DONE" /\ m[2] = p => p \in Ports /\ m \in FlushesOf(p)
           /\ m[1] = "EVENT" /\ m[2] = "StateSet"
                 => \E s \in States : m = <<"EVENT", "StateSet", s>>
  <1> DEFINE Kinds == {"START_DONE", "PAUSE_DONE", "RESUME_DONE", "STOP_DONE"}
  <1>1. m[1] \in Kinds \union {"FLUSH_DONE"} => m \in Signals
    BY DEF CmdEntries, Commands, Events, DoneOut
  <1>2. ASSUME m \in Signals
        PROVE  \/ \E k \in Kinds, st \in Statuses : m = <<k, "", st>>
               \/ \E p \in Ports, st \in Statuses : m = <<"FLUSH_DONE", p, st>>
    <2>1. CASE m \in Kinds \X {""} \X Statuses
      <3> DEFINE e == ""
      <3>1. m \in Kinds \X {e} \X Statuses
        BY <2>1
      <3> HIDE DEF e, Kinds
      <3>2. \E k \in Kinds, st \in Statuses : m = <<k, e, st>>
        BY <3>1
      <3>3. QED BY <3>2, Zenon DEF e
    <2>2. CASE m \in {"FLUSH_DONE"} \X Ports \X Statuses
      <3> DEFINE f == "FLUSH_DONE"
      <3>1. m \in {f} \X Ports \X Statuses
        BY <2>2
      <3> HIDE DEF f
      <3>2. \E p \in Ports, st \in Statuses : m = <<f, p, st>>
        BY <3>1
      <3>3. QED BY <3>2, Zenon DEF f
    <2>3. QED BY <1>2, <2>1, <2>2 DEF Signals, Statuses
  <1>3. ASSUME m[1] = "FLUSH_DONE"
        PROVE  \E p \in Ports, st \in Statuses : m = <<"FLUSH_DONE", p, st>>
    <2>1. \A k \in Kinds, st \in Statuses : <<k, "", st>>[1] # "FLUSH_DONE"
      OBVIOUS
    <2>2. QED BY <1>1, <1>2, <1>3, <2>1
  <1>4. ASSUME m[1] = "EVENT", m[2] = "StateSet"
        PROVE  \E s \in States : m = <<"EVENT", "StateSet", s>>
    <2>1. m \in Events
      BY <1>4 DEF CmdEntries, Commands, Signals, DoneOut
    <2>2. m \in {"EVENT"} \X {"StateSet"} \X States
      BY <1>4, <2>1 DEF Events
    <2>3. QED BY <2>2
  <1>5. ASSUME NEW k \in Kinds, m[1] = k PROVE \E st \in Statuses : m = <<k, "", st>>
    <2>1. \A p \in Ports, st \in Statuses : <<"FLUSH_DONE", p, st>>[1] \notin Kinds
      OBVIOUS
    <2>2. PICK j \in Kinds, st \in Statuses : m = <<j, "", st>>
      BY <1>1, <1>2, <1>5, <2>1
    <2>3. j = k
      BY <1>5, <2>2
    <2>4. QED BY <2>2, <2>3
  <1>6. ASSUME NEW p, m[1] = "FLUSH_DONE", m[2] = p PROVE p \in Ports /\ m \in FlushesOf(p)
    <2>1. PICK r \in Ports, st \in Statuses : m = <<"FLUSH_DONE", r, st>>
      BY <1>3, <1>6
    <2>2. r = p
      BY <1>6, <2>1
    <2>3. QED BY <2>1, <2>2 DEF FlushesOf
  <1>7. /\ m[1] = "START_DONE" => m \in Starts
        /\ m[1] = "PAUSE_DONE" => m \in Pauses
    BY <1>5 DEF Starts, Pauses
  <1>8. /\ m[1] = "RESUME_DONE" => m \in Resumes
        /\ m[1] = "STOP_DONE" => m \in Stops
    BY <1>5 DEF Resumes, Stops
  <1>9. QED BY <1>4, <1>6, <1>7, <1>8

(* The state is set: no event is queued, so only the driver matters.       *)
LEMMA GenerateFits ==
    ASSUME TypeOK, TokenInv, DriverFits, GenerateEvent
    PROVE  DriverFits'
  <1>1. /\ Current \in CmdEntries /\ Drops(q.cmd, q'.cmd, Current, {})
        /\ UNCHANGED <<m_flags, drv, msgs>>
    BY SignalStream DEF GenerateEvent, flags, driver
  <1>2. News({}, {})
    BY <1>1, StayNews, {} \intersect Signals = {}
  <1>3. \A T \in SUBSET StateEvents : Has(q'.cmd, T) => Has(q.cmd, T)
    BY <1>1 DEF Drops
  <1>4. CASE m_state' = m_state
    BY <1>1, <1>2, <1>3, <1>4, EventsKept, CalmFits DEF DriverFits
  <1>5. CASE m_state' # m_state
    <2>1. m_flags = {} /\ Current[1] = "EVENT" /\ Current[2] = "StateSet" /\ m_state' = Current[3]
      BY <1>5, GenerateToken DEF GenerateEvent, Take
    <2>2. PICK s \in States : Current = <<"EVENT", "StateSet", s>>
      BY <1>1, <2>1, EntryFacts
    <2>3. Current \in StateEvents /\ Current \in TokensOf(s) /\ m_state' = s
      BY <2>1, <2>2, TokenFacts DEF StateEvents, Event
    <2>4. Has(q.cmd, StateEvents) /\ Has(q.cmd, TokensOf(s) \intersect StateEvents)
      BY <1>1, <2>3 DEF Drops
    <2>5. ~Running /\ s \notin {"Executing", "Pause"}
      BY <2>4 DEF DriverFits, EventsFit
    <2>6. FlagsFit' /\ Still /\ Still'
      BY <1>1, <2>1, <2>3, <2>5 DEF FlagsFit, Still, Starting, Running
    <2>7. EventsFit'
      BY <1>3, <2>3, <2>5 DEF DriverFits, EventsFit, Running
    <2>8. drv' = "stopped"
      BY <1>1, <2>6 DEF DriverFits, StillFits
    <2>9. {} \intersect Ahead = {} /\ {} \intersect Pauses = {}
      OBVIOUS
    <2>10. QED BY <1>2, <2>6, <2>7, <2>8, <2>9, StillStays
  <1>6. QED BY <1>4, <1>5

(* A port is flushed, and perhaps the driver told to stop.                 *)
LEMMA FlushDoneFits ==
    ASSUME TypeOK, TokenInv, DriverFits, NEW p \in Ports, FlushDone(p), ~failed'
    PROVE  DriverFits'
  <1>1. /\ Drops(q.cmd, q'.cmd, Current, {}) /\ Current \in CmdEntries
        /\ UNCHANGED <<m_state, m_flags>> /\ Current[1] = "FLUSH_DONE" /\ Current[2] = p
    BY SignalStream DEF FlushDone, Take
  <1>2. EventsFit'
    BY <1>1, EventsKept DEF Drops, DriverFits
  <1>3. CASE UNCHANGED <<drv, msgs>>
    BY <1>1, <1>2, <1>3, CalmFits, StayNews, {} \intersect Signals = {}
  <1>4. ASSUME "IDLE" \in m_flags, dev_stop(TRUE) PROVE DriverFits'
    <2>1. drv' = "stopped" /\ msgs' = Append(msgs, <<"STOP_DONE", "", "">>)
      BY <1>4, StopFacts
    <2>2. News({}, Stops)
      BY <1>1, <2>1, SentNews, DoneMessages, {} \intersect Signals = {}
    <2>3. m_flags = {"IDLE"}
      BY <1>4 DEF TokenInv
    <2>4. InFlight(Ahead)
      <3>1. Current \in FlushesOf(p)
        BY <1>1, EntryFacts
      <3>2. Has(q.cmd, FlushesOf(p))
        BY <1>1, <3>1 DEF Drops
      <3>3. QED BY <3>2, NotAhead DEF InFlight
    <2>5. Running
      BY <2>3, <2>4 DEF DriverFits, StillFits, Still, Starting
    <2>6. ~InFlight(Pauses)' /\ OneInFlight(Pauses)' /\ NeverAhead(Stops, Ahead)'
      BY <2>2, <2>3, <2>5, KeyNews, KeyFacts DEF DriverFits, PausesFit, RunningFits
    <2>7. FlagsFit' /\ PausesFit'
      BY <1>1, <2>6 DEF DriverFits, FlagsFit, PausesFit
    <2>8. StillFits' /\ StartingFits'
      BY <1>1, <2>5 DEF StillFits, StartingFits, Still, Starting, Running
    <2>9. RunningFits'
      BY <1>1, <2>1, <2>3, <2>6 DEF RunningFits
    <2>10. QED BY <1>2, <2>7, <2>8, <2>9 DEF DriverFits
  <1>5. ASSUME dev_stop(FALSE) PROVE DriverFits'
    BY <1>3, <1>5, StopFacts
  <1>6. QED BY <1>3, <1>4, <1>5, Zenon DEF FlushDone

(* A bit was pending: no event of a state command is queued.               *)
LEMMA NoEvents ==
    ASSUME TokenInv, m_flags # {}, Drops(q.cmd, q'.cmd, Current, {})
    PROVE  EventsFit'
  <1>1. ~Has(q.cmd, Tokens)
    BY DEF TokenInv
  <1>2. ~Has(q.cmd, StateEvents) /\ \A s \in States : ~Has(q.cmd, TokensOf(s) \intersect StateEvents)
    BY <1>1 DEF Has, Tokens, TokensOf, StateEvents
  <1>3. ~Has(q'.cmd, StateEvents) /\ \A s \in States : ~Has(q'.cmd, TokensOf(s) \intersect StateEvents)
    BY <1>2 DEF Drops
  <1>4. QED BY <1>3 DEF EventsFit, States

(* The driver started for Executing or resumed: the component enters it.   *)
LEMMA ExecutingFits ==
    ASSUME TypeOK, TokenInv, DriverFits, Drops(q.cmd, q'.cmd, Current, {}),
           "EXECUTE" \in m_flags, Enter("Executing", "EXECUTE"), UNCHANGED <<drv, msgs>>,
           drv = "started", ~InFlight(Stops)'
    PROVE  DriverFits'
  <1>1. m_flags = {"EXECUTE"} /\ m_flags' = {} /\ m_state' = "Executing"
    BY DEF TokenInv, Enter
  <1>2. News({}, {})
    BY StayNews, {} \intersect Signals = {}
  <1>3. ~InFlight(Pauses)' /\ OneInFlight(Pauses)'
    BY <1>1, <1>2, KeyNews DEF DriverFits, PausesFit
  <1>4. FlagsFit' /\ PausesFit'
    BY <1>1, <1>3 DEF FlagsFit, PausesFit
  <1>5. EventsFit'
    BY <1>1, NoEvents
  <1>6. StillFits' /\ StartingFits'
    BY <1>1 DEF StillFits, StartingFits, Still, Starting, Running
  <1>7. NeverAhead(Stops, Ahead)'
    BY NeverWithout DEF NeverAhead, InFlight
  <1>8. RunningFits'
    BY <1>1, <1>7 DEF RunningFits, Match
  <1>9. QED BY <1>4, <1>5, <1>6, <1>8 DEF DriverFits

LEMMA StartDoneFits ==
    ASSUME TypeOK, TokenInv, DriverFits, StartDone, ~failed'
    PROVE  DriverFits'
  <1>1. Drops(q.cmd, q'.cmd, Current, {}) /\ Current \in Starts
    BY SignalStream, EntryFacts DEF StartDone, Take
  <1>2. InFlight(Starts) /\ InFlight(Ahead)
    BY <1>1, TakenFacts, NotAhead, GrowsSame DEF InFlight, Drops
  <1>3. {} \intersect Signals = {} /\ {} \intersect Stops = {}
    OBVIOUS
  <1>4. Starting \/ Running
    BY <1>2 DEF DriverFits, StillFits, Still
  <1>5. CASE UNCHANGED <<m_state, m_flags, drv, msgs>>
    <2>1. EventsFit'
      BY <1>1, <1>5, EventsKept DEF Drops, DriverFits
    <2>2. News({}, {})
      BY <1>1, <1>3, <1>5, StayNews
    <2>3. QED BY <1>5, <2>1, <2>2, CalmFits
  <1>6. CASE "EXECUTE" \in m_flags /\ Enter("Executing", "EXECUTE") /\ UNCHANGED <<drv, msgs>>
    <2>1. m_flags = {"EXECUTE"}
      BY <1>6 DEF TokenInv
    <2>2. News({}, {}) /\ Grows(msgs, msgs', {})
      BY <1>1, <1>3, <1>6, StayNews, GrowsSame
    <2>3. CASE Starting
      <3>1. drv = "started" /\ NeverAhead(Starts, Stops)
        BY <2>1, <2>3 DEF DriverFits, StartingFits
      <3>2. ~InFlight(Stops)'
        BY <1>1, <1>3, <2>2, <3>1, TakenFacts
      <3>3. QED BY <1>1, <1>6, <3>1, <3>2, ExecutingFits
    <2>4. CASE Running
      <3>1. drv = "started" /\ ~InFlight(Stops)
        BY <2>1, <2>4 DEF DriverFits, RunningFits
      <3>2. ~InFlight(Stops)'
        BY <2>2, <3>1, KeyNews, {} \intersect Stops = {}
      <3>3. QED BY <1>1, <1>6, <3>1, <3>2, ExecutingFits
    <2>5. QED BY <1>4, <2>3, <2>4
  <1>7. ASSUME "PAUSE" \in m_flags, dev_pause(TRUE), UNCHANGED <<m_state, m_flags>>
        PROVE  DriverFits'
    <2>1. /\ drv = "started" /\ drv' = "paused"
          /\ msgs' = Append(msgs, <<"PAUSE_DONE", "", "">>)
      <3>1. Ioctl({"started"}, "paused", "PAUSE_DONE", TRUE)
        BY <1>7 DEF dev_pause
      <3>2. drv \in {"started"} /\ drv' = "paused"
            /\ msgs' = Append(msgs, <<"PAUSE_DONE", "", "">>)
        BY <3>1, IoctlFacts
      <3>3. QED BY <3>2
    <2>2. Starting /\ ~Running
      BY <1>4, <1>7, <2>1 DEF DriverFits, RunningFits, Starting, Running
    <2>3. ~InFlight(Pauses)
      BY <2>1 DEF DriverFits, PausesFit
    <2>4. News({}, Pauses) /\ OneInFlight(Pauses)'
      BY <1>1, <1>3, <2>1, <2>3, SentNews, KeyFacts, DoneMessages
    <2>5. msgs \in Seq(Messages) /\ <<"PAUSE_DONE", "", "">> \in Messages
      BY TypeParts DEF DriverOK, Messages, Signals
    <2>6. Grows(msgs, msgs', Pauses)
      <3> DEFINE x == <<"PAUSE_DONE", "", "">>
      <3>1. msgs' = Append(msgs, x) /\ x \in Messages /\ {x} \subseteq Pauses
        BY <2>1, <2>5, DoneMessages
      <3> HIDE DEF x
      <3>2. Grows(msgs, msgs', {x})
        BY <2>5, <3>1, GrowsAppend
      <3>3. QED BY <3>1, <3>2, GrowsMore
    <2>7. NeverAhead(Starts, Stops) /\ ~InFlight(Resumes)
      BY <2>2 DEF DriverFits, StartingFits
    <2>8. ~InFlight(Stops)'
      BY <1>1, <2>6, <2>7, TakenFacts, KeyFacts
    <2>9. ~InFlight(Resumes)' /\ NeverAhead(Starts, Stops)'
      BY <2>4, <2>7, KeyNews, KeyFacts
    <2>10. EventsFit'
      BY <1>1, <1>7, EventsKept DEF Drops, DriverFits
    <2>11. FlagsFit' /\ PausesFit'
      BY <1>7, <2>1, <2>4 DEF DriverFits, FlagsFit, PausesFit
    <2>12. StillFits' /\ StartingFits' /\ RunningFits'
      BY <1>7, <2>1, <2>2, <2>8, <2>9
         DEF StillFits, StartingFits, RunningFits, Still, Starting, Running
    <2>13. QED BY <2>10, <2>11, <2>12 DEF DriverFits
  <1>8. ASSUME dev_pause(FALSE) PROVE UNCHANGED <<drv, msgs>>
    BY <1>8, IoctlFacts DEF dev_pause
  <1>9. QED BY <1>5, <1>6, <1>7, <1>8, Zenon DEF StartDone, PauseAfterStart

LEMMA PauseDoneFits ==
    ASSUME TypeOK, TokenInv, DriverFits, PauseDone
    PROVE  DriverFits'
  <1>1. /\ Drops(q.cmd, q'.cmd, Current, {}) /\ Current \in Pauses
        /\ UNCHANGED <<drv, msgs>>
    BY SignalStream, EntryFacts DEF PauseDone, Take, driver
  <1>2. {} \intersect Signals = {} /\ {} \intersect Stops = {} /\ {} \intersect Pauses = {}
    OBVIOUS
  <1>3. News({}, {}) /\ Grows(msgs, msgs', {})
    BY <1>1, <1>2, StayNews, GrowsSame
  <1>4. InFlight(Pauses) /\ ~InFlight(Pauses)'
    BY <1>1, <1>2, <1>3, TakenFacts DEF DriverFits, PausesFit
  <1>5. CASE UNCHANGED <<m_state, m_flags>>
    <2>1. EventsFit'
      BY <1>1, <1>5, EventsKept DEF Drops, DriverFits
    <2>2. QED BY <1>1, <1>3, <1>5, <2>1, CalmFits
  <1>6. CASE "PAUSE" \in m_flags /\ Enter("Pause", "PAUSE")
    <2>1. m_flags = {"PAUSE"} /\ m_flags' = {} /\ m_state' = "Pause" /\ drv = "paused"
      BY <1>4, <1>6 DEF TokenInv, Enter, DriverFits, PausesFit
    <2>2. m_state \in {"Loaded", "WaitForResources", "Idle", "Executing", "Pause"}
      BY DEF TypeOK, States
    <2>3. Starting \/ Running
      BY <2>1, <2>2 DEF DriverFits, FlagsFit, Starting, Running
    <2>4. ~InFlight(Stops)
      BY <2>1, <2>3 DEF DriverFits, StartingFits, RunningFits
    <2>5. ~InFlight(Stops)'
      BY <1>3, <2>4, KeyNews, {} \intersect Stops = {}
    <2>6. OneInFlight(Pauses)'
      BY <1>2, <1>3, KeyNews DEF DriverFits, PausesFit
    <2>7. EventsFit'
      BY <1>1, <2>1, NoEvents
    <2>8. FlagsFit' /\ PausesFit'
      BY <1>4, <2>1, <2>6 DEF FlagsFit, PausesFit
    <2>9. StillFits' /\ StartingFits'
      BY <2>1 DEF StillFits, StartingFits, Still, Starting, Running
    <2>10. NeverAhead(Stops, Ahead)'
      BY <2>5, NeverWithout DEF NeverAhead, InFlight
    <2>11. RunningFits'
      BY <1>1, <2>1, <2>5, <2>10 DEF RunningFits, Match
    <2>12. QED BY <2>7, <2>8, <2>9, <2>11 DEF DriverFits
  <1>7. QED BY <1>5, <1>6 DEF PauseDone, Answers

LEMMA ResumeDoneFits ==
    ASSUME TypeOK, TokenInv, DriverFits, ResumeDone
    PROVE  DriverFits'
  <1>1. /\ Drops(q.cmd, q'.cmd, Current, {}) /\ Current \in Resumes
        /\ UNCHANGED <<drv, msgs>>
    BY SignalStream, EntryFacts DEF ResumeDone, Take, driver
  <1>2. {} \intersect Signals = {}
    OBVIOUS
  <1>3. News({}, {}) /\ Grows(msgs, msgs', {})
    BY <1>1, <1>2, StayNews, GrowsSame
  <1>4. InFlight(Resumes) /\ InFlight(Ahead)
    BY <1>1, <1>3, TakenFacts, NotAhead
  <1>5. Running
    BY <1>4 DEF DriverFits, StillFits, StartingFits, Still
  <1>6. CASE UNCHANGED <<m_state, m_flags>>
    <2>1. EventsFit'
      BY <1>1, <1>6, EventsKept DEF Drops, DriverFits
    <2>2. QED BY <1>1, <1>3, <1>6, <2>1, CalmFits
  <1>7. CASE "EXECUTE" \in m_flags /\ Enter("Executing", "EXECUTE")
    <2>1. m_flags = {"EXECUTE"}
      BY <1>7 DEF TokenInv
    <2>2. drv = "started" /\ ~InFlight(Stops)
      BY <1>5, <2>1 DEF DriverFits, RunningFits
    <2>3. ~InFlight(Stops)'
      BY <1>3, <2>2, KeyNews, {} \intersect Stops = {}
    <2>4. QED BY <1>1, <1>7, <2>2, <2>3, ExecutingFits
  <1>8. QED BY <1>6, <1>7 DEF ResumeDone, Answers

LEMMA StopDoneFits ==
    ASSUME TypeOK, TokenInv, DriverFits, StopDone
    PROVE  DriverFits'
  <1>1. /\ Drops(q.cmd, q'.cmd, Current, {}) /\ Current \in Stops
        /\ UNCHANGED <<drv, msgs>>
    BY SignalStream, EntryFacts DEF StopDone, Take, driver
  <1>2. {} \intersect Signals = {} /\ {} \intersect Ahead = {} /\ {} \intersect Pauses = {}
    OBVIOUS
  <1>3. News({}, {}) /\ Grows(msgs, msgs', {})
    BY <1>1, <1>2, StayNews, GrowsSame
  <1>4. InFlight(Stops)
    BY <1>1, <1>3, TakenFacts
  <1>5. CASE UNCHANGED <<m_state, m_flags>>
    <2>1. EventsFit'
      BY <1>1, <1>5, EventsKept DEF Drops, DriverFits
    <2>2. QED BY <1>1, <1>3, <1>5, <2>1, CalmFits
  <1>6. CASE "IDLE" \in m_flags /\ Enter("Idle", "IDLE")
    <2>1. m_flags = {"IDLE"} /\ m_flags' = {} /\ m_state' = "Idle"
      BY <1>6 DEF TokenInv, Enter
    <2>2. FlagsFit' /\ Still'
      BY <2>1 DEF FlagsFit, Still, Starting, Running
    <2>3. EventsFit'
      BY <1>1, <2>1, NoEvents
    <2>4. CASE Still
      <3>1. drv' = "stopped"
        BY <1>1, <2>4 DEF DriverFits, StillFits
      <3>2. QED BY <1>2, <1>3, <2>2, <2>3, <2>4, <3>1, StillStays
    <2>5. CASE ~Still
      <3>1. Running
        BY <2>1, <2>5 DEF Still, Starting
      <3>2. drv = "stopped" /\ NeverAhead(Stops, Ahead)
        BY <1>4, <3>1 DEF DriverFits, RunningFits
      <3>3. ~InFlight(Ahead)'
        BY <1>1, <1>2, <1>3, <3>2, TakenFacts
      <3>4. ~InFlight(Pauses)' /\ OneInFlight(Pauses)'
        BY <1>2, <1>3, <3>2, KeyNews DEF DriverFits, PausesFit
      <3>5. PausesFit' /\ StillFits' /\ StartingFits' /\ RunningFits'
        BY <1>1, <2>2, <3>2, <3>3, <3>4 DEF PausesFit, StillFits, StartingFits, RunningFits, Still
      <3>6. QED BY <2>2, <2>3, <3>5 DEF DriverFits
    <2>6. QED BY <2>4, <2>5
  <1>7. QED BY <1>5, <1>6 DEF StopDone, Answers

(* A buffer more or less                                                   *)
LEMMA BuffersFit ==
    ASSUME TypeOK, TokenInv, DriverFits, NEW b \in Buffers,
           AllocateBuffer(b) \/ FreeBuffer(b), ~cut', ~failed'
    PROVE  DriverFits'
  <1>1. m_state' = m_state
    BY DEF AllocateBuffer, FreeBuffer
  <1>2. CASE Grows(q.cmd, q'.cmd, Asides) /\ UNCHANGED <<m_flags, drv, msgs>>
    <2>1. News({}, {})
      BY <1>2, StayNews, KeyFacts
    <2>2. \A T \in SUBSET StateEvents : Has(q'.cmd, T) => Has(q.cmd, T)
      BY <1>2, ToldFacts, GrowsMore, QuietEvents DEF Quietly
    <2>3. EventsFit'
      BY <1>1, <2>2, EventsKept DEF DriverFits
    <2>4. QED BY <1>1, <1>2, <2>1, <2>3, CalmFits
  <1>3. ASSUME ~Running, NEW s \in {"Idle", "Loaded"},
               Grows(q.cmd, q'.cmd, Asides \union {Event("StateSet", s)})
        PROVE  /\ EventsFit'
               /\ (Asides \union {Event("StateSet", s)}) \intersect Signals = {}
    <2> DEFINE x == Event("StateSet", s)
               c == q'.cmd
    <2>1. x \notin Signals
      BY DEF Event, Signals
    <2>2. x \notin TokensOf("Executing") /\ x \notin TokensOf("Pause")
      BY TokenFacts DEF States
    <2>3. /\ Asides \intersect TokensOf("Executing") = {}
          /\ Asides \intersect TokensOf("Pause") = {}
      BY ToldFacts DEF States
    <2>4. Grows(q.cmd, c, Asides \union {x})
      BY <1>3
    <2> HIDE DEF x, c
    <2>5. /\ ~Has(c, TokensOf("Executing") \intersect StateEvents)
          /\ ~Has(c, TokensOf("Pause") \intersect StateEvents)
      <3>1. /\ (Asides \union {x}) \intersect (TokensOf("Executing") \intersect StateEvents) = {}
            /\ (Asides \union {x}) \intersect (TokensOf("Pause") \intersect StateEvents) = {}
        BY <2>2, <2>3
      <3>2. QED BY <2>4, <3>1 DEF Grows, DriverFits, EventsFit
    <2>6. EventsFit'
      BY <1>1, <1>3, <2>5 DEF EventsFit, Running, c
    <2>7. QED BY <2>1, <2>6, KeyFacts DEF x
  <1>4. ASSUME AllocateBuffer(b), "IDLE" \in m_flags, m_flags' = m_flags \ {"IDLE"}, ~Running,
               Grows(q.cmd, q'.cmd, Asides \union {Event("StateSet", "Idle")})
        PROVE  DriverFits'
    <2>1. UNCHANGED <<drv, msgs>>
      BY <1>4 DEF AllocateBuffer, driver
    <2>2. m_flags = {"IDLE"} /\ m_flags' = {} /\ Still /\ Still'
      BY <1>1, <1>4 DEF TokenInv, Still, Starting, Running
    <2>3. EventsFit' /\ (Asides \union {Event("StateSet", "Idle")}) \intersect Signals = {}
      BY <1>3, <1>4
    <2>4. News({}, {})
      BY <1>4, <2>1, <2>3, StayNews
    <2>5. drv' = "stopped" /\ FlagsFit'
      BY <2>1, <2>2 DEF DriverFits, StillFits, FlagsFit
    <2>6. {} \intersect Ahead = {} /\ {} \intersect Pauses = {}
      OBVIOUS
    <2>7. QED BY <2>2, <2>3, <2>4, <2>5, <2>6, StillStays
  <1>5. ASSUME "LOADING" \in m_flags, m_flags' = m_flags \ {"LOADING"},
               Grows(q.cmd, q'.cmd, Asides \union {Event("StateSet", "Loaded")}),
               NEW ok \in BOOLEAN, dev_stop(ok)
        PROVE  DriverFits'
    <2>1. m_flags = {"LOADING"} /\ m_flags' = {} /\ m_state = "Idle"
      BY <1>5 DEF TokenInv, DriverFits, FlagsFit
    <2>2. Still /\ Still' /\ ~Running /\ FlagsFit'
      BY <1>1, <2>1 DEF Still, Starting, Running, FlagsFit
    <2>3. EventsFit' /\ (Asides \union {Event("StateSet", "Loaded")}) \intersect Signals = {}
      BY <1>3, <1>5, <2>2
    <2>4. drv = "stopped"
      BY <2>2 DEF DriverFits, StillFits
    <2>5. CASE ok
      <3>1. drv' = "stopped" /\ msgs' = Append(msgs, <<"STOP_DONE", "", "">>)
        BY <1>5, <2>5, StopFacts
      <3>2. News({}, Stops)
        BY <1>5, <2>3, <3>1, SentNews, DoneMessages
      <3>3. QED BY <2>2, <2>3, <3>1, <3>2, KeyFacts, StillStays
    <2>6. CASE ~ok
      <3>1. UNCHANGED <<drv, msgs>>
        BY <1>5, <2>6, StopFacts
      <3>2. News({}, {})
        BY <1>5, <2>3, <3>1, StayNews
      <3>3. {} \intersect Ahead = {} /\ {} \intersect Pauses = {}
        OBVIOUS
      <3>4. QED BY <2>2, <2>3, <2>4, <3>1, <3>2, <3>3, StillStays
    <2>7. QED BY <2>5, <2>6
  <1>6. CASE AllocateBuffer(b)
    <2>1. UNCHANGED <<drv, msgs>>
      BY <1>6 DEF AllocateBuffer, driver
    <2>2. QED BY <1>2, <1>4, <1>6, <2>1, AllocateStream
  <1>7. CASE FreeBuffer(b)
    BY <1>2, <1>5, <1>7, FreeStream
  <1>8. QED BY <1>6, <1>7

LEMMA InitDriver == Init => DriverInv
  <1> SUFFICES ASSUME Init PROVE DriverFits
    BY DEF DriverInv
  <1>1. m_state = "Loaded" /\ m_flags = {} /\ drv = "stopped" /\ q.cmd = <<>> /\ msgs = <<>>
    BY DEF Init
  <1>2. Still /\ ~Running
    BY <1>1 DEF Still, Starting, Running
  <1>3. \A T : ~Has(q.cmd, T) /\ ~Has(msgs, T) /\ One(q.cmd, T) /\ One(msgs, T)
    BY <1>1 DEF Has, One
  <1>4. FlagsFit /\ EventsFit /\ PausesFit
    BY <1>1, <1>3 DEF FlagsFit, EventsFit, PausesFit, InFlight, OneInFlight
  <1>5. StillFits /\ StartingFits /\ RunningFits
    BY <1>1, <1>2, <1>3 DEF StillFits, StartingFits, RunningFits, Still, InFlight
  <1>6. QED BY <1>4, <1>5 DEF DriverFits

LEMMA CutLasts == TypeOK /\ [Next]_vars /\ cut => cut'
  <1>1. ASSUME NEW b \in Buffers, AllocateBuffer(b), TypeOK, cut PROVE cut'
    BY <1>1, AllocateStream
  <1>2. ASSUME [Next]_vars, \A b \in Buffers : ~AllocateBuffer(b) PROVE cut' = cut
    BY <1>2, Zenon DEF Next, process_event_cb, LoadedTo, IdleTo, RunningTo, WaitingTo,
       RunningToIdle, Flush, PortEnable, PortDisable, GenerateEvent,
       empty_this_buffer_proxy, fill_this_buffer_proxy, BufferDone, FlushDone, StartDone,
       PauseDone, ResumeDone, StopDone, async_message_process, FrameDone, GiveBuffer,
       FreeBuffer, send_command, vars, history
  <1>3. QED BY <1>1, <1>2

(* A failure comes of a call of the driver.                                *)
LEMMA FailedCalls ==
    ASSUME TypeOK, [Next]_vars
    PROVE  \/ failed' = failed
           \/ \E ok \in BOOLEAN : dev_start(ok) \/ dev_pause(ok) \/ dev_resume(ok) \/ dev_stop(ok)
           \/ \E P \in SUBSET Ports : \E qq : execute_omx_flush(P, qq)
  <1> DEFINE G == \/ failed' = failed
                  \/ \E ok \in BOOLEAN :
                        dev_start(ok) \/ dev_pause(ok) \/ dev_resume(ok) \/ dev_stop(ok)
                  \/ \E P \in SUBSET Ports : \E qq : execute_omx_flush(P, qq)
  <1>1. ASSUME NEW P \in SUBSET Ports, NEW qq, execute_omx_flush(P, qq) PROVE G
    BY <1>1
  <1>2. ASSUME NEW ok \in BOOLEAN, dev_start(ok) \/ dev_pause(ok) \/ dev_resume(ok) PROVE G
    BY <1>2
  <1>3. ASSUME NEW ok \in BOOLEAN, dev_stop(ok) PROVE G
    BY <1>3
  <1>4. ASSUME UNCHANGED failed PROVE G
    BY <1>4
  <1> SUFFICES G
    OBVIOUS
  <1> HIDE DEF G
  <1>5. ASSUME NEW s \in States, LoadedTo(s) \/ IdleTo(s) \/ RunningTo(s) \/ WaitingTo(s)
        PROVE  G
    BY <1>2, <1>3, <1>4, <1>5, Zenon
       DEF LoadedTo, IdleTo, StartFor, RunningTo, WaitingTo, history
  <1>6. CASE RunningToIdle
    BY <1>1, <1>6 DEF RunningToIdle
  <1>7. ASSUME NEW a \in Named, Flush(a) \/ PortEnable(a) \/ PortDisable(a) PROVE G
    <2>1. PortsOf(a) \in SUBSET Ports
      BY EventType
    <2>2. QED BY <1>1, <1>4, <1>7, <2>1, Zenon DEF Flush, PortEnable, PortDisable, history
  <1>8. ASSUME NEW p \in Ports, FlushDone(p) PROVE G
    BY <1>3, <1>4, <1>8, Zenon DEF FlushDone
  <1>9. CASE StartDone \/ PauseDone \/ ResumeDone \/ StopDone
    BY <1>2, <1>4, <1>9, Zenon
       DEF StartDone, PauseAfterStart, PauseDone, ResumeDone, StopDone, history
  <1>10. CASE GenerateEvent \/ empty_this_buffer_proxy \/ fill_this_buffer_proxy \/ BufferDone
                 \/ async_message_process \/ UNCHANGED vars
    BY <1>4, <1>10, Zenon DEF GenerateEvent, empty_this_buffer_proxy, fill_this_buffer_proxy,
       BufferDone, async_message_process, history, vars
  <1>11. ASSUME NEW b \in Buffers,
                FrameDone(b) \/ GiveBuffer(b) \/ AllocateBuffer(b) \/ FreeBuffer(b)
         PROVE  G
    BY <1>3, <1>4, <1>11, Zenon DEF FrameDone, GiveBuffer, AllocateBuffer, FreeBuffer, Freed, history
  <1>12. ASSUME NEW cmd, NEW a, send_command(cmd, a) PROVE G
    BY <1>4, <1>12, Zenon DEF send_command, history
  <1>13. QED
    BY <1>5, <1>6, <1>7, <1>8, <1>9, <1>10, <1>11, <1>12, Zenon DEF Next, process_event_cb

(* It is not forgotten, and a message of the driver says it.               *)
LEMMA FailureSent ==
    ASSUME TypeOK, [Next]_vars
    PROVE  /\ failed => failed'
           /\ failed' => failed \/ Has(msgs', Failures)
  <1>1. CASE failed' = failed
    BY <1>1
  <1>2. ASSUME NEW ok \in BOOLEAN, dev_start(ok) \/ dev_pause(ok) \/ dev_resume(ok) \/ dev_stop(ok)
        PROVE  /\ failed => failed'
               /\ \/ failed' = failed
                  \/ \E m \in {"START_DONE", "PAUSE_DONE", "RESUME_DONE", "STOP_DONE"} :
                        msgs' = Append(msgs, <<m, "", "failed">>)
    <2>1. CASE dev_stop(ok)
      BY <2>1, StopFacts
    <2>2. CASE dev_start(ok) \/ dev_pause(ok) \/ dev_resume(ok)
      BY <2>2, IoctlFacts DEF dev_start, dev_pause, dev_resume
    <2>3. QED BY <1>2, <2>1, <2>2
  <1>3. ASSUME NEW m \in {"START_DONE", "PAUSE_DONE", "RESUME_DONE", "STOP_DONE"},
               msgs' = Append(msgs, <<m, "", "failed">>)
        PROVE  Has(msgs', Failures)
    <2> DEFINE x == <<m, "", "failed">>
    <2>1. x \in Messages /\ x \in Signals /\ x[3] = "failed" /\ msgs \in Seq(Messages)
      BY TypeParts DEF Messages, Signals, DriverOK
    <2>2. x \in Failures
      BY <2>1 DEF Failures
    <2> HIDE DEF x
    <2>3. Has(Append(msgs, x), Failures)
      BY <2>1, <2>2, HasAppend
    <2>4. QED BY <1>3, <2>3 DEF x
  <1>4. ASSUME NEW P \in SUBSET Ports, NEW qq, execute_omx_flush(P, qq)
        PROVE  /\ failed => failed'
               /\ failed' => failed \/ Has(msgs', Failures)
    <2>1. PICK ok \in SUBSET P, did \in SUBSET P : dev_flush(P, ok, did)
      BY <1>4 DEF execute_omx_flush
    <2>2. did \subseteq ok /\ failed' = (failed \/ ok # did)
      BY <2>1 DEF dev_flush
    <2>3. \A p \in ok \ did : Has(msgs', Failures)
      BY <2>1, DevFlush
    <2>4. ok # did => Has(msgs', Failures)
      BY <2>2, <2>3
    <2>5. QED BY <2>2, <2>4, Zenon
  <1>5. QED BY <1>1, <1>2, <1>3, <1>4, FailedCalls

LEMMA FailedLasts == TypeOK /\ [Next]_vars /\ failed => failed'
  BY FailureSent

LEMMA NextDriver == TypeOK /\ TokenInv /\ DriverInv /\ [Next]_vars => DriverInv'
  <1> SUFFICES ASSUME TypeOK, TokenInv, DriverFits, [Next]_vars, ~cut', ~failed'
               PROVE  DriverFits'
    BY CutLasts, FailedLasts DEF DriverInv
  <1>1. ASSUME NEW s \in States, LoadedTo(s) \/ IdleTo(s) \/ RunningTo(s) \/ WaitingTo(s)
        PROVE  DriverFits'
    BY <1>1, LoadedFits, IdleFits, RunningFit
  <1>2. ASSUME NEW a \in Named, Flush(a) \/ PortEnable(a) \/ PortDisable(a) PROVE DriverFits'
    BY <1>2, FlushCommandsFit, CalmSteps
  <1>3. ASSUME NEW p \in Ports, FlushDone(p) PROVE DriverFits'
    BY <1>3, FlushDoneFits
  <1>4. ASSUME NEW b \in Buffers, FrameDone(b) \/ GiveBuffer(b) PROVE DriverFits'
    BY <1>4, CalmSteps
  <1>5. ASSUME NEW b \in Buffers, AllocateBuffer(b) \/ FreeBuffer(b) PROVE DriverFits'
    BY <1>5, BuffersFit
  <1>6. ASSUME NEW cmd, NEW a, send_command(cmd, a), <<"COMMAND", cmd, a>> \in Commands
        PROVE  DriverFits'
    BY <1>6, AskFits
  <1>7. CASE empty_this_buffer_proxy \/ fill_this_buffer_proxy \/ BufferDone
                \/ async_message_process
    BY <1>7, CalmSteps
  <1>8. CASE UNCHANGED vars
    <2>1. News({}, {})
      BY <1>8, StayNews, GrowsSame, {} \intersect Signals = {} DEF vars, driver
    <2>2. EventsFit'
      BY <1>8, EventsKept DEF vars, DriverFits
    <2>3. QED BY <1>8, <2>1, <2>2, CalmFits DEF vars, driver, flags
  <1>9. QED
    BY <1>1, <1>2, <1>3, <1>4, <1>5, <1>6, <1>7, <1>8, RunningToIdleFits, GenerateFits,
       StartDoneFits, PauseDoneFits, ResumeDoneFits, StopDoneFits, CommandsType, Zenon
       DEF Next, process_event_cb

(* As long as the driver does what it accepts and no buffers answered for  *)
(* a running component, the driver's state and the messages on their way   *)
(* fit m_state and the pending bits: nothing of the driver is late enough  *)
(* to answer another command than its own.                                 *)
THEOREM DriverCorrect == Spec => []DriverInv
  <1>1. QED
    BY InitDriver, NextDriver, TypeCorrect, TokenCorrect, PTL DEF Spec

-----------------------------------------------------------------------------
(* What is on its way stays there until the message thread takes it.       *)

(* The step moves no buffer out of m_cmd_q, or msgs, and none into it.     *)
Plain(N) == \A x \in N : x[1] \notin {"ETB", "FTB", "EBD", "FBD"}
CalmCmd ==
    \E N : /\ Plain(N)
           /\ \/ Grows(q.cmd, q'.cmd, N)
              \/ Plain({Current}) /\ Drops(q.cmd, q'.cmd, Current, N)
CalmMsgs == \E K : Plain(K) /\ Grows(msgs, msgs', K)

LEMMA CalmMsgsSame == UNCHANGED msgs => CalmMsgs
  <1>1. Plain({}) /\ Grows(msgs, msgs, {})
    BY GrowsSame DEF Plain
  <1>2. QED BY <1>1 DEF CalmMsgs

LEMMA StateCommandDrops ==
    ASSUME TypeOK,
           (\E s \in States : LoadedTo(s) \/ IdleTo(s) \/ RunningTo(s) \/ WaitingTo(s))
              \/ RunningToIdle
    PROVE  /\ Pending /\ Current[1] = "COMMAND"
           /\ \E N : Plain(N) /\ Drops(q.cmd, q'.cmd, Current, N)
  <1>1. ASSUME NEW s \in States, Command("StateSet", s),
               Complete(s) \/ Refuse \/ q'.cmd = Rest.cmd
                  \/ q' = Post(Rest, <<"RESUME_DONE", "", "">>)
        PROVE  \E N : Plain(N) /\ Drops(q.cmd, q'.cmd, Current, N)
    <2>1. Pending /\ Current[1] \notin {"FTB", "ETB", "EBD"}
      BY <1>1 DEF Command
    <2>2. ASSUME q'.cmd = Rest.cmd PROVE Drops(q.cmd, q'.cmd, Current, {})
      BY <2>1, <2>2, TakesCommand, GrowsSame, PopDrops
    <2>3. ASSUME NEW x \in CmdEntries, q' = Post(Rest, x)
          PROVE  Drops(q.cmd, q'.cmd, Current, {x})
      BY <2>1, <2>3, TakeDrops
    <2>4. <<"RESUME_DONE", "", "">> \in CmdEntries
      BY DEF CmdEntries, Signals
    <2>5. Event("StateSet", s) \in CmdEntries /\ Event("Error", "transition") \in CmdEntries
      BY EventType
    <2>6. /\ Plain({}) /\ Plain({<<"RESUME_DONE", "", "">>})
          /\ Plain({Event("StateSet", s)}) /\ Plain({Event("Error", "transition")})
      BY DEF Plain, Event
    <2>7. QED BY <1>1, <2>2, <2>3, <2>4, <2>5, <2>6 DEF Complete, Refuse
  <1>2. ASSUME NEW s \in States, LoadedTo(s) \/ IdleTo(s) \/ RunningTo(s) \/ WaitingTo(s)
        PROVE  /\ Command("StateSet", s)
               /\ Complete(s) \/ Refuse \/ q'.cmd = Rest.cmd
                     \/ q' = Post(Rest, <<"RESUME_DONE", "", "">>)
    BY <1>2 DEF LoadedTo, IdleTo, RunningTo, WaitingTo, StartFor, Later
  <1>3. CASE RunningToIdle
    <2>1. Command("StateSet", "Idle") /\ Rest \in Queues /\ "Idle" \in States
      BY <1>3, RestFacts DEF RunningToIdle, Command, States
    <2>2. q'.cmd = Rest.cmd
      BY <1>3, <2>1, FlushFacts DEF RunningToIdle
    <2>3. QED BY <1>1, <2>1, <2>2 DEF Command
  <1>4. ASSUME NEW s \in States, LoadedTo(s) \/ IdleTo(s) \/ RunningTo(s) \/ WaitingTo(s)
        PROVE  /\ Pending /\ Current[1] = "COMMAND"
               /\ \E N : Plain(N) /\ Drops(q.cmd, q'.cmd, Current, N)
    <2>1. Command("StateSet", s)
      BY <1>4 DEF LoadedTo, IdleTo, RunningTo, WaitingTo
    <2>2. Pending /\ Current[1] = "COMMAND"
      BY <2>1 DEF Command
    <2>3. QED BY <1>1, <1>2, <1>4, <2>2
  <1>5. QED BY <1>3, <1>4

LEMMA CmdStays ==
    ASSUME TypeOK, [Next]_vars, NEW X, Has(q.cmd, X)
    PROVE  Has(q'.cmd, X) \/ (process_event_cb /\ Pending /\ Current \in X)
  <1>1. CASE (\E s \in States : LoadedTo(s) \/ IdleTo(s) \/ RunningTo(s) \/ WaitingTo(s))
                \/ RunningToIdle
    BY <1>1, StateCommandDrops DEF Drops, process_event_cb
  <1>2. CASE \/ \E a \in Named : Flush(a) \/ PortEnable(a) \/ PortDisable(a)
             \/ empty_this_buffer_proxy \/ fill_this_buffer_proxy \/ BufferDone
             \/ GenerateEvent \/ StartDone \/ PauseDone \/ ResumeDone \/ StopDone
             \/ \E p \in Ports : FlushDone(p)
    <2>1. process_event_cb
      BY <1>2, Zenon DEF process_event_cb
    <2>2. Quietly
      BY <1>2, QuietSteps
    <2>3. QED BY <2>1, <2>2 DEF Quietly, Grows, Drops
  <1>3. CASE async_message_process
    BY <1>3, AsyncStream DEF Grows
  <1>4. ASSUME NEW b \in Buffers, FrameDone(b) \/ GiveBuffer(b) PROVE Has(q'.cmd, X)
    BY <1>4, FrameDoneStream, GiveFacts DEF Grows
  <1>5. ASSUME NEW b \in Buffers, AllocateBuffer(b) \/ FreeBuffer(b) PROVE Has(q'.cmd, X)
    BY <1>5, AllocateStream, FreeStream DEF Grows
  <1>6. ASSUME NEW cmd, NEW a, send_command(cmd, a), <<"COMMAND", cmd, a>> \in Commands
        PROVE  Has(q'.cmd, X)
    BY <1>6, SendFacts DEF Grows
  <1>7. CASE UNCHANGED vars
    BY <1>7 DEF vars
  <1>8. QED
    BY <1>1, <1>2, <1>3, <1>4, <1>5, <1>6, <1>7, CommandsType, Zenon DEF Next, process_event_cb

LEMMA DeviceGrows ==
    ASSUME TypeOK, NEW ok \in BOOLEAN,
           dev_start(ok) \/ dev_pause(ok) \/ dev_resume(ok) \/ dev_stop(ok)
    PROVE  CalmMsgs
  <1>1. msgs' = msgs \/ \E x \in Messages : Plain({x}) /\ msgs' = Append(msgs, x)
    <2>1. ASSUME NEW m \in {"START_DONE", "PAUSE_DONE", "RESUME_DONE", "STOP_DONE"},
                 NEW st \in Statuses
          PROVE  <<m, "", st>> \in Messages /\ Plain({<<m, "", st>>})
      <3>1. <<m, "", st>> \in Messages
        BY DEF Messages, Signals, Statuses
      <3>2. Plain({<<m, "", st>>})
        <4>1. <<m, "", st>>[1] = m
          OBVIOUS
        <4>2. QED BY <4>1 DEF Plain
      <3>3. QED BY <3>1, <3>2
    <2>2. CASE dev_stop(ok)
      BY <2>1, <2>2, StopFacts DEF Statuses
    <2>3. CASE dev_start(ok) \/ dev_pause(ok) \/ dev_resume(ok)
      BY <2>1, <2>3, IoctlFacts DEF dev_start, dev_pause, dev_resume, Statuses
    <2>4. QED BY <2>2, <2>3
  <1>2. msgs \in Seq(Messages)
    BY TypeParts DEF DriverOK
  <1>3. ASSUME NEW x \in Messages, msgs' = Append(msgs, x) PROVE Grows(msgs, msgs', {x})
    BY <1>2, <1>3, GrowsAppend
  <1>4. QED BY <1>1, <1>3, CalmMsgsSame DEF CalmMsgs

LEMMA MsgsGrow ==
    ASSUME TypeOK, [Next]_vars, ~async_message_process
    PROVE  \E K : Grows(msgs, msgs', K)
  <1>1. UNCHANGED msgs => \E K : Grows(msgs, msgs', K)
    BY GrowsSame
  <1>2. ASSUME \/ \E s \in States : IdleTo(s) \/ RunningTo(s)
               \/ \E p \in Ports : FlushDone(p)
               \/ StartDone
               \/ \E b \in Buffers : FreeBuffer(b)
        PROVE  \E K : Grows(msgs, msgs', K)
    <2>1. \/ UNCHANGED msgs
          \/ \E ok \in BOOLEAN : dev_start(ok) \/ dev_pause(ok) \/ dev_resume(ok) \/ dev_stop(ok)
      BY <1>2, FreeStream, Zenon
         DEF IdleTo, StartFor, RunningTo, FlushDone, StartDone, PauseAfterStart
    <2>2. QED BY <1>1, <2>1, DeviceGrows DEF CalmMsgs
  <1>3. ASSUME RunningToIdle \/ \E a \in Named : Flush(a) \/ PortDisable(a)
        PROVE  \E K : Grows(msgs, msgs', K)
    <2>1. \/ UNCHANGED msgs
          \/ \E P, qq : execute_omx_flush(P, qq) /\ P \in SUBSET Ports
      <3>1. ASSUME NEW a \in Named, Flush(a) \/ PortDisable(a)
            PROVE  \/ UNCHANGED msgs
                   \/ \E qq : execute_omx_flush(PortsOf(a), qq) /\ PortsOf(a) \in SUBSET Ports
        BY <3>1, EventType, Zenon DEF Flush, PortDisable, driver
      <3>2. ASSUME RunningToIdle PROVE execute_omx_flush(Ports, Rest) /\ Ports \in SUBSET Ports
        BY <3>2 DEF RunningToIdle
      <3>3. QED BY <1>3, <3>1, <3>2
    <2>2. ASSUME NEW P \in SUBSET Ports, NEW qq, execute_omx_flush(P, qq)
          PROVE  \E K : Grows(msgs, msgs', K)
      BY <2>2, DevFlush DEF execute_omx_flush
    <2>3. QED BY <1>1, <2>1, <2>2
  <1>4. \/ UNCHANGED msgs
        \/ \E s \in States : IdleTo(s) \/ RunningTo(s)
        \/ RunningToIdle \/ \E a \in Named : Flush(a) \/ PortDisable(a)
        \/ \E p \in Ports : FlushDone(p)
        \/ StartDone
        \/ \E b \in Buffers : FreeBuffer(b)
    BY Zenon DEF Next, process_event_cb, LoadedTo, WaitingTo, PortEnable, GenerateEvent,
       empty_this_buffer_proxy, fill_this_buffer_proxy, BufferDone, PauseDone, ResumeDone,
       StopDone, FrameDone, GiveBuffer, AllocateBuffer, send_command, vars, driver
  <1>5. QED BY <1>1, <1>2, <1>3, <1>4

-----------------------------------------------------------------------------
(* The flush of a port is answered, unless the driver refused it or the    *)
(* queue of commands was full when the answer came.                        *)

LEMMA FlushAnswerStays ==
    ASSUME TypeOK, [Next]_vars, NeverFull, NEW p \in Ports, InFlight(FlushesOf(p)),
           ~FlushDone(p)
    PROVE  InFlight(FlushesOf(p))'
  <1> DEFINE X == FlushesOf(p)
             c == q'.cmd
             m == msgs'
  <1>1. ASSUME NEW x \in X PROVE x[1] = "FLUSH_DONE" /\ x[2] = p
    <2>1. PICK st \in Statuses : x = <<"FLUSH_DONE", p, st>>
      BY Zenon DEF FlushesOf
    <2>2. QED BY <2>1
  <1> HIDE DEF X
  <1>2. ~(process_event_cb /\ Pending /\ Current \in X)
    <2> SUFFICES ASSUME process_event_cb, Pending, Current[1] = "FLUSH_DONE", Current[2] = p
                 PROVE  FALSE
      BY <1>1
    <2>1. \A r \in Ports : ~FlushDone(r)
      BY DEF FlushDone
    <2>2. \A cmd, a : ~Command(cmd, a)
      BY DEF Command
    <2>3. \A id \in {"EVENT", "ETB", "FTB", "EBD", "FBD", "START_DONE", "PAUSE_DONE",
                     "RESUME_DONE", "STOP_DONE"} : ~Take(id)
      BY DEF Take
    <2>4. QED
      BY <2>1, <2>2, <2>3 DEF process_event_cb, LoadedTo, IdleTo, RunningTo, WaitingTo,
         RunningToIdle, Flush, PortEnable, PortDisable, GenerateEvent,
         empty_this_buffer_proxy, fill_this_buffer_proxy, BufferDone, StartDone, PauseDone,
         ResumeDone, StopDone
  <1>3. Has(q.cmd, X) => Has(c, X)
    BY <1>2, CmdStays
  <1>4. Has(msgs, X) => Has(m, X) \/ Has(c, X)
    <2>1. CASE ~async_message_process
      <3>1. PICK K : Grows(msgs, m, K)
        BY <2>1, MsgsGrow
      <3>2. QED BY <3>1 DEF Grows
    <2>2. CASE async_message_process /\ Has(msgs, X)
      <3> DEFINE h == Head(msgs)
      <3>1. msgs # <<>> /\ m = Tail(msgs) /\ msgs \in Seq(Messages)
        BY <2>2, AsyncFacts, TypeParts DEF DriverOK, async_message_process
      <3>2. h \in X \/ Has(m, X)
        BY <2>2, <3>1, HasTail
      <3>3. ASSUME h \in X PROVE Has(c, X)
        <4>1. h[1] = "FLUSH_DONE"
          BY <1>1, <3>3
        <4>2. c = Insert(q.cmd, h) /\ h \in CmdEntries
          BY <2>2, <4>1, AsyncFacts
        <4>3. q.cmd \in Seq(CmdEntries) /\ Len(q.cmd) < QueueSize
          BY QueuesType DEF NeverFull
        <4> HIDE DEF h, c
        <4>4. QED BY <3>3, <4>2, <4>3, InsertFacts
      <3>4. QED BY <3>2, <3>3
    <2>3. QED BY <2>1, <2>2
  <1>5. QED BY <1>3, <1>4 DEF InFlight, X

LEMMA RefusedStays ==
    ASSUME TypeOK, [Next]_vars
    PROVE  \/ flushing' \subseteq flushing /\ refused' = refused
           \/ \E P \in SUBSET Ports, qq \in Queues : execute_omx_flush(P, qq)
  <1>1. CASE RunningToIdle
    <2>1. Rest \in Queues /\ execute_omx_flush(Ports, Rest)
      BY <1>1, RestFacts DEF RunningToIdle, Command
    <2>2. QED BY <2>1
  <1>2. ASSUME NEW a \in Named, Flush(a) \/ PortDisable(a)
        PROVE  \/ flushing' = flushing /\ refused' = refused
               \/ \E P \in SUBSET Ports, qq \in Queues : execute_omx_flush(P, qq)
    <2> DEFINE ready == {p \in PortsOf(a) : m_state \in {"Loaded", "Idle"} /\ Released(p)}
               posted == PortEvents(Rest, "PortDisable", a, ready)
    <2>1. PortsOf(a) \in SUBSET Ports /\ Rest \in Queues
      BY <1>2, EventType, RestFacts DEF Flush, PortDisable, Command
    <2>2. posted \in Queues
      BY <2>1, PortEventsFacts
    <2>3. \/ flushing' = flushing /\ refused' = refused
          \/ execute_omx_flush(PortsOf(a), Rest) \/ execute_omx_flush(PortsOf(a), posted)
      BY <1>2 DEF Flush, PortDisable
    <2> HIDE DEF posted
    <2>4. QED BY <2>1, <2>2, <2>3
  <1>3. CASE ~RunningToIdle /\ \A a \in Named : ~Flush(a) /\ ~PortDisable(a)
    <2>1. flushing' = flushing \/ \E p \in Ports : flushing' = flushing \ {p}
      BY <1>3, Zenon DEF Next, process_event_cb, LoadedTo, IdleTo, RunningTo, WaitingTo,
         PortEnable, GenerateEvent, empty_this_buffer_proxy, fill_this_buffer_proxy,
         BufferDone, FlushDone, StartDone, PauseDone, ResumeDone, StopDone,
         async_message_process, FrameDone, GiveBuffer, AllocateBuffer, FreeBuffer,
         send_command, vars, flags
    <2>2. refused' = refused
      BY <1>3, Zenon DEF Next, process_event_cb, LoadedTo, IdleTo, RunningTo, WaitingTo,
         PortEnable, GenerateEvent, empty_this_buffer_proxy, fill_this_buffer_proxy,
         BufferDone, FlushDone, StartDone, PauseDone, ResumeDone, StopDone,
         async_message_process, FrameDone, GiveBuffer, AllocateBuffer, FreeBuffer,
         send_command, vars, history
    <2>3. QED BY <2>1, <2>2
  <1>4. QED BY <1>1, <1>2, <1>3

LEMMA NextFlush == TypeOK /\ NeverFull /\ FlushInv /\ [Next]_vars => FlushInv'
  <1> SUFFICES ASSUME TypeOK, NeverFull, FlushInv, [Next]_vars,
                      NEW p \in flushing' \ refused'
               PROVE  InFlight(FlushesOf(p))'
    BY DEF FlushInv
  <1>1. p \in Ports
    BY NextType DEF TypeOK
  <1>2. p \in flushing \ refused => InFlight(FlushesOf(p))
    BY DEF FlushInv
  <1>3. ~FlushDone(p)
    BY DEF FlushDone
  <1>4. CASE flushing' \subseteq flushing /\ refused' = refused
    BY <1>1, <1>2, <1>3, <1>4, FlushAnswerStays
  <1>5. ASSUME NEW P \in SUBSET Ports, NEW qq \in Queues, execute_omx_flush(P, qq)
        PROVE  InFlight(FlushesOf(p))'
    <2>1. PICK ok \in SUBSET P, did \in SUBSET P : dev_flush(P, ok, did)
      BY <1>5, FlushFacts
    <2>2. /\ \A r \in ok : Has(msgs', FlushesOf(r))
          /\ refused' = refused \union (P \ ok)
          /\ flushing' = flushing \union P
      <3>1. flushing' = flushing \union P
        BY <1>5, FlushFacts
      <3>2. (\A r \in ok : Has(msgs', FlushesOf(r))) /\ refused' = refused \union (P \ ok)
        BY <2>1, DevFlush
      <3>3. QED BY <3>1, <3>2
    <2>3. p \in ok \/ p \in flushing \ refused
      BY <2>2
    <2>4. CASE p \in ok
      <3>1. Has(msgs', FlushesOf(p)) /\ FlushesOf(p)' = FlushesOf(p)
        BY <2>2, <2>4 DEF FlushesOf
      <3>2. QED BY <3>1 DEF InFlight
    <2>5. CASE p \in flushing \ refused
      BY <1>1, <1>2, <1>3, <2>5, FlushAnswerStays
    <2>6. QED BY <2>3, <2>4, <2>5
  <1>6. QED BY <1>4, <1>5, RefusedStays

LEMMA InitFlush == Init => FlushInv
  BY DEF Init, FlushInv

(* A port that turns buffers away for a flush the driver accepted still    *)
(* has its FLUSH_DONE on the way, as long as no queue was full.            *)
THEOREM FlushCorrect == Spec /\ []NeverFull => []FlushInv
  <1>1. QED
    BY InitFlush, NextFlush, TypeCorrect, PTL DEF Spec

(* A failure of the driver that was not reported is on its way.            *)
ReportInv == failed => broken \/ Has(msgs, Failures)

LEMMA BrokenLasts == TypeOK /\ [Next]_vars /\ broken => broken'
  <1>1. ASSUME TypeOK, broken, NEW failure \in BOOLEAN, Examine(failure) PROVE broken'
    BY <1>1, ExamineFacts
  <1>2. ASSUME TypeOK, broken, async_message_process \/ \E b \in Buffers : FrameDone(b)
        PROVE  broken'
    <2>1. Failure(Head(msgs)) \in BOOLEAN
      BY DEF Failure
    <2>2. QED BY <1>1, <1>2, <2>1 DEF async_message_process, FrameDone
  <1>3. ASSUME [Next]_vars, broken, ~async_message_process, \A b \in Buffers : ~FrameDone(b)
        PROVE  broken'
    BY <1>3, Zenon DEF Next, process_event_cb, LoadedTo, IdleTo, StartFor, RunningTo, WaitingTo,
       RunningToIdle, Flush, PortEnable, PortDisable, GenerateEvent, Encode,
       empty_this_buffer_proxy, fill_this_buffer_proxy, BufferDone, FlushDone, StartDone,
       PauseAfterStart, PauseDone, ResumeDone, StopDone, GiveBuffer, AllocateBuffer,
       FreeBuffer, send_command, Report, vars, history
  <1>4. QED BY <1>2, <1>3

LEMMA NextReport == TypeOK /\ ReportInv /\ [Next]_vars => ReportInv'
  <1> SUFFICES ASSUME TypeOK, ReportInv, [Next]_vars, failed' PROVE broken' \/ Has(msgs', Failures)
    BY DEF ReportInv
  <1>1. failed => broken' \/ Has(msgs, Failures)
    BY BrokenLasts DEF ReportInv
  <1>2. failed \/ Has(msgs', Failures)
    BY FailureSent
  <1>3. ASSUME Has(msgs, Failures), ~async_message_process PROVE Has(msgs', Failures)
    <2>1. PICK K : Grows(msgs, msgs', K)
      BY <1>3, MsgsGrow
    <2>2. QED BY <1>3, <2>1 DEF Grows
  <1>4. ASSUME Has(msgs, Failures), async_message_process PROVE broken' \/ Has(msgs', Failures)
    <2>1. msgs # <<>> /\ msgs' = Tail(msgs) /\ msgs \in Seq(Messages)
      BY <1>4, TypeParts DEF async_message_process, DriverOK
    <2>2. Head(msgs) \in Failures \/ Has(msgs', Failures)
      BY <1>4, <2>1, HasTail
    <2>3. ASSUME Head(msgs) \in Failures PROVE broken'
      <3>1. Failure(Head(msgs))
        BY <2>3 DEF Failures, Failure, IsDone, Signals
      <3>2. Examine(TRUE)
        BY <1>4, <3>1 DEF async_message_process
      <3>3. QED BY <3>2, ExamineFacts
    <2>4. QED BY <2>2, <2>3
  <1>5. QED BY <1>1, <1>2, <1>3, <1>4

LEMMA InitReport == Init => ReportInv
  BY Zenon DEF Init, ReportInv

LEMMA ReportCorrect == Spec => []ReportInv
  <1>1. QED
    BY InitReport, NextReport, TypeCorrect, PTL DEF Spec

LEMMA RestFollows == TypeOK /\ DriverInv /\ ReportInv /\ FlushInv => RestIsTrue
  <1> SUFFICES ASSUME TypeOK, DriverInv, ReportInv, FlushInv, AtRest PROVE RestIsTrue
    BY DEF RestIsTrue
  <1>1. m_flags = {} /\ msgs = <<>> /\ ~Pending
    BY DEF AtRest
  <1>2. q.cmd = <<>>
    BY <1>1 DEF Pending, Turn
  <1>3. \A T : ~InFlight(T) /\ ~Has(msgs, T)
    BY <1>1, <1>2 DEF InFlight, Has
  <1>4. flushing \subseteq refused
    BY <1>3 DEF FlushInv
  <1>5. ASSUME ~cut, ~failed PROVE drv = Match
    <2>1. DriverFits
      BY <1>5 DEF DriverInv
    <2>2. CASE Running
      BY <1>1, <2>1, <2>2 DEF DriverFits, RunningFits
    <2>3. CASE ~Running
      <3>1. drv = "stopped"
        BY <1>1, <2>1, <2>3 DEF DriverFits, StillFits, Still, Starting
      <3>2. QED BY <2>3, <3>1 DEF Match, Running
    <2>4. QED BY <2>2, <2>3
  <1>6. failed => broken
    BY <1>3 DEF ReportInv
  <1>7. QED BY <1>4, <1>5, <1>6 DEF RestIsTrue, Match

(* At rest the driver is in the state the component says it is in, unless  *)
(* it had failed to do what it accepted, and then the client was told of   *)
(* an error; and no port still turns buffers away for a flush, unless the  *)
(* driver refused it: as long as no queue was full, for then insert_entry  *)
(* drops what the driver said.                                             *)
THEOREM RestHolds == Spec /\ []NeverFull => []RestIsTrue
  <1>1. QED
    BY RestFollows, TypeCorrect, DriverCorrect, ReportCorrect, FlushCorrect, PTL

-----------------------------------------------------------------------------
(* Idle is entered from Loaded when the enabled ports are populated.       *)

LEMMA NoStop ==
    ASSUME TypeOK, ~StopOnItsWay
    PROVE  ~InFlight(Stops)
  <1> DEFINE s == msgs \o q.cmd
  <1>1. msgs \in Seq(Messages \union CmdEntries) /\ q.cmd \in Seq(Messages \union CmdEntries)
    BY QueuesType, TypeParts DEF DriverOK
  <1>2. \A i \in DOMAIN s : s[i][1] # "STOP_DONE"
    BY DEF StopOnItsWay
  <1>3. ASSUME NEW x \in Stops PROVE x[1] = "STOP_DONE"
    <2>1. PICK st \in Statuses : x = <<"STOP_DONE", "", st>>
      BY Zenon DEF Stops
    <2>2. QED BY <2>1
  <1> HIDE DEF s
  <1>4. ~Has(s, Stops)
    BY <1>2, <1>3 DEF Has
  <1>5. QED BY <1>1, <1>4, HasConcat DEF InFlight, s

(* In Loaded the driver is not told to stop.                               *)
LEMMA LoadedStops ==
    ASSUME TypeOK, TokenInv, DriverFits, m_state = "Loaded", [Next]_vars
    PROVE  InFlight(Stops)' => InFlight(Stops)
  <1>1. /\ ~Running /\ Still /\ ~InFlight(Ahead) /\ "LOADING" \notin m_flags
    BY DEF Running, Still, Starting, DriverFits, StillFits, FlagsFit
  <1>2. News({}, {}) => (InFlight(Stops)' => InFlight(Stops))
    BY KeyNews, {} \intersect Stops = {}
  <1>3. ASSUME NEW s \in States, LoadedTo(s) PROVE News({}, {})
    <2>1. /\ Command("StateSet", s) /\ UNCHANGED <<m_state, msgs>>
          /\ q' = Rest \/ Refuse \/ (Complete(s) /\ s \notin {"Executing", "Pause"})
      BY <1>3 DEF LoadedTo, driver, Later
    <2>2. PICK A : A \intersect Signals = {} /\ Drops(q.cmd, q'.cmd, Current, A)
      BY <1>1, <2>1, StateCommandStream DEF DriverFits
    <2>3. QED BY <2>1, <2>2, StayNews
  <1>4. /\ \A s \in States : ~IdleTo(s) /\ ~RunningTo(s) /\ ~WaitingTo(s)
        /\ ~RunningToIdle
    BY <1>1 DEF IdleTo, RunningTo, WaitingTo, RunningToIdle
  <1>5. ASSUME NEW a \in Named, Flush(a) \/ PortDisable(a)
        PROVE  InFlight(Stops)' => InFlight(Stops)
    <2>1. PICK K \in SUBSET Flushes : News({}, K)
      BY <1>5, FlushCommandNews
    <2>2. K \intersect Stops = {}
      BY KeyFacts
    <2>3. QED BY <2>1, <2>2, KeyNews
  <1>6. ASSUME GenerateEvent \/ PauseDone \/ ResumeDone \/ StopDone PROVE News({}, {})
    <2>1. UNCHANGED msgs
      BY <1>6, Zenon DEF GenerateEvent, PauseDone, ResumeDone, StopDone, driver
    <2>2. Drops(q.cmd, q'.cmd, Current, {}) /\ {} \intersect Signals = {}
      BY <1>6, SignalStream
    <2>3. QED BY <2>1, <2>2, StayNews
  <1>7. ~StartDone /\ \A p \in Ports : ~FlushDone(p)
    <2>1. ASSUME StartDone \/ \E p \in Ports : FlushDone(p) PROVE FALSE
      <3>1. Current \in CmdEntries /\ Drops(q.cmd, q'.cmd, Current, {})
        BY <2>1, SignalStream
      <3>2. \/ Current[1] = "START_DONE"
            \/ Current[1] = "FLUSH_DONE" /\ \E p \in Ports : Current[2] = p
        BY <2>1 DEF StartDone, FlushDone, Take
      <3>3. Current \in Starts \/ \E p \in Ports : Current \in FlushesOf(p)
        BY <3>1, <3>2, EntryFacts
      <3>4. Current \in Ahead
        BY <3>3 DEF Ahead, Flushes, Ports
      <3>5. Has(q.cmd, Ahead)
        BY <3>1, <3>4 DEF Drops
      <3>6. QED BY <1>1, <3>5 DEF InFlight
    <2>2. QED BY <2>1
  <1>8. ASSUME NEW b \in Buffers, AllocateBuffer(b) \/ FreeBuffer(b) PROVE News({}, {})
    <2>1. UNCHANGED msgs
      BY <1>1, <1>8, FreeStream DEF AllocateBuffer, driver
    <2> DEFINE E == {Event("StateSet", "Idle")}
    <2>2. Grows(q.cmd, q'.cmd, Asides) \/ Grows(q.cmd, q'.cmd, Asides \union E)
      BY <1>1, <1>8, AllocateStream, FreeStream
    <2>6. Event("StateSet", "Idle") \notin Signals
      BY DEF Event, Signals
    <2>3. E \intersect Signals = {}
      BY <2>6
    <2> HIDE DEF E
    <2>4. Asides \intersect Signals = {} /\ (Asides \union E) \intersect Signals = {}
      BY <2>3, KeyFacts
    <2>5. QED BY <2>1, <2>2, <2>4, StayNews
  <1>9. ASSUME NEW cmd, NEW a, send_command(cmd, a), <<"COMMAND", cmd, a>> \in Commands
        PROVE  News({}, {})
    BY <1>9, AskNews
  <1>10. CASE \/ \E a \in Named : PortEnable(a)
              \/ empty_this_buffer_proxy \/ fill_this_buffer_proxy \/ BufferDone
              \/ async_message_process
              \/ \E b \in Buffers : FrameDone(b) \/ GiveBuffer(b)
    BY <1>2, <1>10, CalmNews
  <1>11. CASE UNCHANGED vars
    BY <1>11 DEF vars, driver, InFlight
  <1>12. QED
    BY <1>2, <1>3, <1>4, <1>5, <1>6, <1>7, <1>8, <1>9, <1>10, <1>11, CommandsType, Zenon
       DEF Next, process_event_cb

(* The event that answers Idle is posted when the ports are populated, and *)
(* they stay so while it is queued.                                        *)
LEMMA EventPopulated ==
    ASSUME TypeOK, TokenInv, CommandInv, DriverFits, m_state = "Loaded", [Next]_vars,
           Has(q.cmd, IdleEvent) => \A p \in bEnabled : Full(p), Has(q'.cmd, IdleEvent)
    PROVE  \A p \in bEnabled' : Full(p)'
  <1> DEFINE G == \A p \in bEnabled' : Full(p)'
  <1>1. /\ IdleEvent \subseteq StateEvents /\ IdleEvent \subseteq Tokens
        /\ IdleEvent \subseteq TokensOf("Idle") /\ "Idle" \in States
    BY TokenFacts DEF IdleEvent, StateEvents, Event, States
  <1>2. "LOADING" \notin m_flags /\ ~Running
    BY DEF DriverFits, FlagsFit, Running
  <1>3. UNCHANGED <<bEnabled, bm_count>> /\ Has(q.cmd, IdleEvent) => G
    BY DEF Full
  <1>4. ASSUME NEW s \in States, LoadedTo(s) PROVE G
    <2>1. Command("StateSet", s) /\ UNCHANGED <<bEnabled, bm_count>>
      BY <1>4 DEF LoadedTo
    <2>2. ~Has(Tail(q.cmd), Tokens) /\ Pending /\ Current[1] \notin {"FTB", "ETB", "EBD"}
          /\ q.cmd # <<>> /\ Rest.cmd = Tail(q.cmd)
      BY <2>1, AskedFor
    <2>3. ~Has(Tail(q.cmd), IdleEvent)
      BY <1>1, <2>2 DEF Has
    <2>4. q' # Rest
      BY <2>2, <2>3
    <2>5. ASSUME NEW x \in CmdEntries, q' = Post(Rest, x) PROVE x \in IdleEvent
      BY <2>2, <2>3, <2>5, TakeDrops
    <2>6. ~Refuse
      <3>1. Event("Error", "transition") \notin IdleEvent
        BY DEF IdleEvent, Event
      <3>2. QED BY <2>5, <3>1, EventType DEF Refuse
    <2>7. Complete(s) => s = "Idle"
      BY <1>1, <2>5, EventType, TokenFacts DEF Complete
    <2>8. AllocateDone \/ bEnabled = {}
      BY <1>4, <2>4, <2>6, <2>7 DEF LoadedTo, Later
    <2>9. bEnabled \subseteq Ports
      BY DEF TypeOK
    <2>10. QED BY <2>1, <2>8, <2>9 DEF AllocateDone, Full
  <1>5. /\ \A s \in States : ~IdleTo(s) /\ ~RunningTo(s) /\ ~WaitingTo(s)
        /\ ~RunningToIdle
    BY <1>2 DEF IdleTo, RunningTo, WaitingTo, RunningToIdle
  <1>6. ASSUME NEW a \in Named, Flush(a) \/ PortEnable(a) \/ PortDisable(a) PROVE FALSE
    <2>1. Drops(q.cmd, q'.cmd, Current, Asides)
      BY <1>6, FlushStream, PortEnableStream, PortDisableStream
    <2>2. Current \in Commands
      <3>1. Pending /\ Current[1] = "COMMAND"
        BY <1>6 DEF Flush, PortEnable, PortDisable, Command
      <3>2. Current \in CmdEntries
        BY <3>1, TakesCommand
      <3>3. QED BY <3>1, <3>2 DEF CmdEntries, Events, Signals, DoneOut
    <2>3. Asides \intersect StateEvents = {}
      BY ToldFacts
    <2>4. ~Has(q'.cmd, StateEvents)
      BY <2>1, <2>2, <2>3 DEF Drops, CommandInv
    <2>5. QED BY <1>1, <2>4 DEF Has
  <1>7. CASE \/ empty_this_buffer_proxy \/ fill_this_buffer_proxy \/ BufferDone
             \/ GenerateEvent \/ StartDone \/ PauseDone \/ ResumeDone \/ StopDone
             \/ \E p \in Ports : FlushDone(p)
             \/ async_message_process
             \/ \E b \in Buffers : FrameDone(b) \/ GiveBuffer(b)
    <2>1. UNCHANGED <<bEnabled, bm_count>>
      BY <1>7, Zenon DEF empty_this_buffer_proxy, fill_this_buffer_proxy, BufferDone,
         GenerateEvent, StartDone, PauseDone, ResumeDone, StopDone, FlushDone,
         async_message_process, FrameDone, GiveBuffer
    <2>2. Quietly
      BY <1>7, QuietSteps
    <2>3. QED BY <1>1, <1>3, <2>1, <2>2, QuietEvents
  <1>8. ASSUME NEW cmd, NEW a, send_command(cmd, a), <<"COMMAND", cmd, a>> \in Commands
        PROVE  G
    <2>1. UNCHANGED <<bEnabled, bm_count>>
      BY <1>8, Zenon DEF send_command
    <2>2. QED BY <1>1, <1>3, <1>8, <2>1, AskNews
  <1>9. Asides \intersect IdleEvent = {}
    BY <1>1, ToldFacts
  <1>10. ASSUME NEW b \in Buffers, AllocateBuffer(b) PROVE G
    <2>1. bEnabled' = bEnabled /\ bm_count \subseteq bm_count' /\ bEnabled \subseteq Ports
      BY <1>10, AllocateFacts DEF AllocateBuffer, TypeOK
    <2>2. CASE AllocateDone'
      BY <2>1, <2>2 DEF AllocateDone
    <2>3. CASE Grows(q.cmd, q'.cmd, Asides)
      BY <1>9, <2>1, <2>3 DEF Grows, Full
    <2>4. QED BY <1>10, <2>2, <2>3, AllocateStream
  <1>11. ASSUME NEW b \in Buffers, FreeBuffer(b) PROVE G
    <2>1. Grows(q.cmd, q'.cmd, Asides) /\ bEnabled' = bEnabled
      BY <1>2, <1>11, FreeStream DEF FreeBuffer
    <2>2. Has(q.cmd, IdleEvent)
      BY <1>9, <2>1 DEF Grows
    <2>3. target = "Idle"
      BY <1>1, <2>2 DEF TokenInv, Has
    <2>4. b[1] \notin bEnabled /\ Freed(b, q)
      BY <1>11, <2>3, FreeFacts
    <2>5. bm_count' = bm_count \ {b}
      BY <2>4 DEF Freed
    <2>6. QED BY <2>1, <2>2, <2>4, <2>5 DEF Full, Of
  <1>12. CASE UNCHANGED vars
    BY <1>3, <1>12 DEF vars
  <1>13. QED
    BY <1>4, <1>5, <1>6, <1>7, <1>8, <1>10, <1>11, <1>12, CommandsType, Zenon
       DEF Next, process_event_cb

LEMMA StaleLasts == TypeOK /\ [Next]_vars /\ stale => stale'
  <1>1. ASSUME NEW s \in States, LoadedTo(s), stale PROVE stale'
    BY <1>1, Zenon DEF LoadedTo
  <1>2. ASSUME [Next]_vars, \A s \in States : ~LoadedTo(s) PROVE stale' = stale
    BY <1>2, Zenon DEF Next, process_event_cb, IdleTo, RunningTo, WaitingTo,
       RunningToIdle, Flush, PortEnable, PortDisable, GenerateEvent,
       empty_this_buffer_proxy, fill_this_buffer_proxy, BufferDone, FlushDone, StartDone,
       PauseDone, ResumeDone, StopDone, async_message_process, FrameDone, GiveBuffer,
       AllocateBuffer, FreeBuffer, send_command, vars, history
  <1>3. QED BY <1>1, <1>2

(* Idle is pending since LoadedTo or RunningToIdle asked for it.           *)
LEMMA IdleAsked ==
    ASSUME TypeOK, [Next]_vars, "IDLE" \notin m_flags, ~RunningToIdle,
           \A s \in States : ~LoadedTo(s)
    PROVE  "IDLE" \notin m_flags'
  <1>1. ASSUME NEW s \in States, IdleTo(s) \/ RunningTo(s) \/ WaitingTo(s)
        PROVE  "IDLE" \notin m_flags'
    <2>1. CASE RunningTo(s)
      <3>1. \/ m_flags' = m_flags
            \/ m_flags' = m_flags \union {"PAUSE"}
            \/ m_flags' = m_flags \union {"EXECUTE"}
        BY <2>1, Zenon DEF RunningTo, Later
      <3>2. QED BY <3>1
    <2>2. CASE IdleTo(s)
      BY <2>2 DEF IdleTo, StartFor, Later
    <2>3. CASE WaitingTo(s)
      BY <2>3 DEF WaitingTo, flags
    <2>4. QED BY <1>1, <2>1, <2>2, <2>3
  <1>2. CASE StartDone \/ PauseDone \/ ResumeDone \/ StopDone
    <2>1. m_flags' \subseteq m_flags
      BY <1>2 DEF StartDone, PauseDone, ResumeDone, StopDone, Enter, PauseAfterStart
    <2>2. QED BY <2>1
  <1>3. ASSUME NEW b \in Buffers, AllocateBuffer(b) \/ FreeBuffer(b)
        PROVE  "IDLE" \notin m_flags'
    BY <1>3, AllocateStream, FreeStream
  <1>4. CASE \/ \E a \in Named : Flush(a) \/ PortEnable(a) \/ PortDisable(a)
             \/ GenerateEvent \/ (\E p \in Ports : FlushDone(p))
             \/ empty_this_buffer_proxy \/ fill_this_buffer_proxy \/ BufferDone
             \/ async_message_process
             \/ \E b \in Buffers : FrameDone(b) \/ GiveBuffer(b)
             \/ UNCHANGED vars
    BY <1>4, Zenon DEF Flush, PortEnable, PortDisable, GenerateEvent, FlushDone,
       empty_this_buffer_proxy, fill_this_buffer_proxy, BufferDone, async_message_process,
       FrameDone, GiveBuffer, flags, vars
  <1>5. ASSUME NEW cmd, NEW a, send_command(cmd, a) PROVE "IDLE" \notin m_flags'
    BY <1>5, Zenon DEF send_command, flags
  <1>6. QED
    BY <1>1, <1>2, <1>3, <1>4, <1>5, Zenon DEF Next, process_event_cb

(* The steps that change the state, and what they take from the queue.     *)
LEMMA StateChanges ==
    ASSUME TypeOK, TokenInv, [Next]_vars, m_state' # m_state
    PROVE  \/ /\ GenerateEvent /\ m_flags' = m_flags
              /\ Current = Event("StateSet", m_state')
              /\ Drops(q.cmd, q'.cmd, Current, {}) /\ m_state' \in States
           \/ StartDone \/ PauseDone \/ ResumeDone \/ StopDone
  <1>1. \/ GenerateEvent
        \/ StartDone \/ PauseDone \/ ResumeDone \/ StopDone
    BY Zenon DEF Next, process_event_cb, LoadedTo, IdleTo, RunningTo, WaitingTo,
       RunningToIdle, Flush, PortEnable, PortDisable, FlushDone,
       empty_this_buffer_proxy, fill_this_buffer_proxy, BufferDone, async_message_process,
       FrameDone, GiveBuffer, AllocateBuffer, FreeBuffer, send_command, vars
  <1>2. ASSUME GenerateEvent
        PROVE  /\ m_flags' = m_flags
               /\ Current = Event("StateSet", m_state')
               /\ Drops(q.cmd, q'.cmd, Current, {}) /\ m_state' \in States
    <2>1. /\ Current[1] = "EVENT" /\ Current[2] = "StateSet" /\ m_state' = Current[3]
          /\ m_flags' = m_flags
      BY <1>2 DEF GenerateEvent, Take, flags
    <2>2. Current \in CmdEntries /\ Drops(q.cmd, q'.cmd, Current, {})
      BY <1>2, SignalStream
    <2>3. PICK s \in States : Current = <<"EVENT", "StateSet", s>>
      BY <2>1, <2>2, EntryFacts
    <2>4. QED BY <2>1, <2>2, <2>3 DEF Event
  <1>3. QED BY <1>1, <1>2

LEMMA NextPopulated ==
    TypeOK /\ TokenInv /\ CommandInv /\ DriverInv /\ PopulatedInv /\ [Next]_vars => PopulatedInv'
  <1> SUFFICES ASSUME TypeOK, TokenInv, CommandInv, DriverInv, PopulatedInv, [Next]_vars,
                      ~cut', ~failed', m_state' = "Loaded"
               PROVE  /\ Has(q'.cmd, IdleEvent) => \A p \in bEnabled' : Full(p)'
                      /\ "IDLE" \in m_flags' /\ ~stale' => ~InFlight(Stops)'
    BY DEF PopulatedInv
  <1>1. DriverFits /\ ~cut /\ ~failed
    BY CutLasts, FailedLasts DEF DriverInv
  <1>2. CASE m_state # "Loaded"
    <2>1. ~StartDone /\ ~PauseDone /\ ~ResumeDone /\ ~StopDone
      BY <1>2 DEF StartDone, PauseDone, ResumeDone, StopDone, Enter, PauseAfterStart
    <2>2. /\ m_flags' = m_flags /\ Current = Event("StateSet", "Loaded")
          /\ Drops(q.cmd, q'.cmd, Current, {})
      BY <1>2, <2>1, StateChanges
    <2>3. /\ Current \in Tokens /\ IdleEvent \subseteq Tokens
      BY <2>2, TokenFacts DEF States, IdleEvent
    <2>4. Has(q.cmd, Tokens) /\ ~Has(q'.cmd, Tokens)
      BY <2>2, <2>3 DEF Drops, TokenInv
    <2>5. QED BY <2>2, <2>3, <2>4 DEF TokenInv, Has
  <1>3. CASE m_state = "Loaded"
    <2>1. Has(q'.cmd, IdleEvent) => \A p \in bEnabled' : Full(p)'
      BY <1>1, <1>3, EventPopulated DEF PopulatedInv
    <2>2. ASSUME "IDLE" \in m_flags', ~stale' PROVE ~InFlight(Stops)
      <3>1. CASE "IDLE" \in m_flags
        BY <1>1, <1>3, <2>2, <3>1, StaleLasts DEF PopulatedInv
      <3>2. CASE "IDLE" \notin m_flags
        <4>1. PICK s \in States : LoadedTo(s)
          <5>1. ~RunningToIdle
            BY <1>3 DEF RunningToIdle, Running
          <5>2. QED BY <2>2, <3>2, <5>1, IdleAsked
        <4>2. stale' = (stale \/ StopOnItsWay)
          BY <2>2, <3>2, <4>1, Zenon DEF LoadedTo
        <4>3. QED BY <2>2, <4>2, NoStop
      <3>3. QED BY <3>1, <3>2
    <2>3. QED BY <1>1, <1>3, <2>1, <2>2, LoadedStops
  <1>4. QED BY <1>2, <1>3

LEMMA InitPopulated == Init => PopulatedInv
  BY DEF Init, PopulatedInv, Has

(* In Loaded, an event that answers Idle finds the enabled ports           *)
(* populated, and an Idle that waits for buffers meets no stop, with the   *)
(* exceptions of IdleIsPopulated.                                          *)
THEOREM PopulatedCorrect == Spec => []PopulatedInv
  <1>1. QED
    BY InitPopulated, NextPopulated, TypeCorrect, TokenCorrect, CommandCorrect,
       DriverCorrect, PTL DEF Spec

LEMMA EntersPopulated ==
    ASSUME TypeOK, TokenInv, DriverInv, PopulatedInv, [Next]_vars,
           m_state = "Loaded", m_state' = "Idle", ~stale, ~cut, ~failed
    PROVE  \A p \in bEnabled : Full(p)
  <1>1. "EXECUTE" \notin m_flags /\ "PAUSE" \notin m_flags
    BY DEF DriverInv, DriverFits, FlagsFit
  <1>2. ~StartDone /\ ~PauseDone /\ ~ResumeDone
    BY <1>1 DEF StartDone, PauseDone, ResumeDone, Enter, Answers
  <1>3. ~StopDone
    <2>1. ASSUME StopDone PROVE FALSE
      <3>1. "IDLE" \in m_flags /\ Current[1] = "STOP_DONE"
        BY <2>1 DEF StopDone, Answers, Take
      <3>2. Current \in CmdEntries /\ Drops(q.cmd, q'.cmd, Current, {})
        BY <2>1, SignalStream
      <3>3. Current \in Stops
        BY <3>1, <3>2, EntryFacts
      <3>4. InFlight(Stops)
        BY <3>2, <3>3 DEF Drops, InFlight
      <3>5. QED BY <3>1, <3>4 DEF PopulatedInv
    <2>2. QED BY <2>1
  <1>4. Current \in IdleEvent /\ Drops(q.cmd, q'.cmd, Current, {})
    BY <1>2, <1>3, StateChanges DEF IdleEvent
  <1>5. Has(q.cmd, IdleEvent)
    BY <1>4 DEF Drops
  <1>6. QED BY <1>5 DEF PopulatedInv

(* A component leaves Loaded for Idle with all buffers of its enabled      *)
(* ports allocated, unless a stop was on its way when Idle was asked for   *)
(* or buffers had answered Idle for a running component before, or the     *)
(* driver had failed to do what it accepted.                               *)
THEOREM IdleIsPopulatedHolds == Spec => IdleIsPopulated
  <1>1. TypeOK /\ TokenInv /\ DriverInv /\ PopulatedInv /\ [Next]_vars
          => [m_state = "Loaded" /\ m_state' = "Idle" /\ ~stale /\ ~cut /\ ~failed
                => \A p \in bEnabled : Full(p)]_vars
    BY EntersPopulated
  <1>2. QED
    BY <1>1, TypeCorrect, TokenCorrect, DriverCorrect, PopulatedCorrect, PTL
       DEF Spec, IdleIsPopulated

-----------------------------------------------------------------------------
(* A buffer the client handed over is in one place.                        *)

LEMMA EntryOf ==
    ASSUME NEW b \in Buffers, NEW m
    PROVE  /\ m \in FtbEntries \/ m \in EtbEntries \/ (m \in CmdEntries /\ m[1] = "FBD")
                 => (m \in EntriesOf(b) <=> BufferOf(m) = b)
           /\ m \in EntriesOf(b) => m[1] \in {"ETB", "FTB", "EBD", "FBD"}
           /\ m \in EntriesOf(b) => Carries(m, b)
  <1>1. b = <<b[1], b[2]>>
    BY BufferShape
  <1>2. ASSUME NEW k \in {"ETB", "FTB", "EBD", "FBD"}, NEW p, NEW s, m = <<k, p, s>>
        PROVE  m \in EntriesOf(b) <=> BufferOf(m) = b
    <2>1. BufferOf(m) = <<p, s>>
      BY <1>2 DEF BufferOf
    <2>2. m \in EntriesOf(b) => p = b[1] /\ s = b[2]
      BY <1>2 DEF EntriesOf
    <2>3. BufferOf(m) = b => m = <<k, b[1], b[2]>>
      BY <1>2, <2>1
    <2>4. QED BY <1>1, <2>1, <2>2, <2>3 DEF EntriesOf
  <1>3. ASSUME m \in FtbEntries PROVE m \in EntriesOf(b) <=> BufferOf(m) = b
    <2>1. PICK s \in Slots : m = <<"FTB", "out", s>>
      BY <1>3 DEF FtbEntries
    <2>2. QED BY <1>2, <2>1, Zenon
  <1>4. ASSUME m \in EtbEntries PROVE m \in EntriesOf(b) <=> BufferOf(m) = b
    <2>1. PICK k \in {"ETB", "EBD"}, s \in Slots : m = <<k, "in", s>>
      BY <1>4 DEF EtbEntries
    <2>2. QED BY <1>2, <2>1, Zenon
  <1>5. ASSUME m \in CmdEntries, m[1] = "FBD" PROVE m \in EntriesOf(b) <=> BufferOf(m) = b
    <2>1. PICK s : m = <<"FBD", "out", s>>
      BY <1>5, EntryShape
    <2>2. QED BY <1>2, <2>1, Zenon
  <1>6. ASSUME m \in EntriesOf(b) PROVE m[1] \in {"ETB", "FTB", "EBD", "FBD"} /\ Carries(m, b)
    <2>1. PICK k \in {"ETB", "FTB", "EBD", "FBD"} : m = <<k, b[1], b[2]>>
      BY <1>6 DEF EntriesOf
    <2>2. BufferOf(m) = b /\ m[1] = k
      BY <1>1, <2>1 DEF BufferOf
    <2>3. QED BY <2>2 DEF Carries
  <1>7. QED BY <1>3, <1>4, <1>5, <1>6

LEMMA CalmCmdFacts ==
    ASSUME CalmCmd, NEW b \in Buffers
    PROVE  /\ Has(q'.cmd, EntriesOf(b)) <=> Has(q.cmd, EntriesOf(b))
           /\ One(q.cmd, EntriesOf(b)) => One(q'.cmd, EntriesOf(b))
  <1>1. ASSUME NEW N, Plain(N) PROVE N \intersect EntriesOf(b) = {}
    BY <1>1, EntryOf DEF Plain
  <1>2. PICK N : /\ Plain(N)
                 /\ \/ Grows(q.cmd, q'.cmd, N)
                    \/ Plain({Current}) /\ Drops(q.cmd, q'.cmd, Current, N)
    BY DEF CalmCmd
  <1>3. CASE Grows(q.cmd, q'.cmd, N)
    BY <1>1, <1>2, <1>3 DEF Grows
  <1>4. CASE Plain({Current}) /\ Drops(q.cmd, q'.cmd, Current, N)
    <2>1. Current \notin EntriesOf(b)
      BY <1>1, <1>4
    <2>2. QED BY <1>1, <1>2, <1>4, <2>1 DEF Drops
  <1>5. QED BY <1>2, <1>3, <1>4

LEMMA CalmMsgsFacts ==
    ASSUME CalmMsgs, NEW b \in Buffers
    PROVE  /\ Has(msgs', EntriesOf(b)) <=> Has(msgs, EntriesOf(b))
           /\ One(msgs, EntriesOf(b)) => One(msgs', EntriesOf(b))
  <1>1. PICK K : Plain(K) /\ Grows(msgs, msgs', K)
    BY DEF CalmMsgs
  <1>2. K \intersect EntriesOf(b) = {}
    BY <1>1, EntryOf DEF Plain
  <1>3. QED BY <1>1, <1>2 DEF Grows

(* How an entry leaves a queue and how it enters one that is not full.     *)
LEMMA Popped ==
    ASSUME NEW S, NEW s \in Seq(S), s # <<>>, NEW T
    PROVE  /\ Has(s, T) <=> Head(s) \in T \/ Has(Tail(s), T)
           /\ One(s, T) => One(Tail(s), T) /\ ~(Head(s) \in T /\ Has(Tail(s), T))
  BY HasTail, OneTail

LEMMA Pushed ==
    ASSUME NEW S, NEW s \in Seq(S), NEW x \in S, Len(s) < QueueSize, NEW T
    PROVE  /\ Has(Insert(s, x), T) <=> Has(s, T) \/ x \in T
           /\ One(s, T) /\ ~(Has(s, T) /\ x \in T) => One(Insert(s, x), T)
  BY InsertFacts

LEMMA BufferStays ==
    ASSUME BufferInv, CalmCmd, CalmMsgs, q'.ftb = q.ftb, q'.etb = q.etb, UNCHANGED <<held, lent>>
    PROVE  BufferInv'
  <1> SUFFICES ASSUME NEW b \in Buffers PROVE Placed(b)'
    BY DEF BufferInv
  <1>1. Placed(b)
    BY DEF BufferInv
  <1>2. QED BY <1>1, CalmCmdFacts, CalmMsgsFacts DEF Placed

(* complete_pending_buffer_done_cbs takes the buffers that are done.       *)
LEMMA KeptBuffers ==
    ASSUME NEW S, S = FtbEntries \/ S = EtbEntries, NEW s \in Seq(S), NEW b \in Buffers,
           One(s, EntriesOf(b))
    PROVE  /\ One(Kept(s), EntriesOf(b))
           /\ Has(s, EntriesOf(b)) <=> b \in DoneIn(s) \/ Has(Kept(s), EntriesOf(b))
           /\ ~(b \in DoneIn(s) /\ Has(Kept(s), EntriesOf(b)))
  <1> DEFINE E == EntriesOf(b)
  <1>1. /\ Has(Kept(s), E) <=> \E n \in DOMAIN s : ~IsDone(s[n]) /\ s[n] \in E
        /\ One(Kept(s), E)
    BY KeptFacts
  <1>2. \A n \in DOMAIN s : s[n] \in E <=> BufferOf(s[n]) = b
    <2>1. ASSUME NEW n \in DOMAIN s PROVE s[n] \in S
      OBVIOUS
    <2>2. QED BY <2>1, EntryOf
  <1>3. b \in DoneIn(s) <=> \E n \in DOMAIN s : IsDone(s[n]) /\ BufferOf(s[n]) = b
    BY DEF DoneIn
  <1> HIDE DEF E
  <1>4. b \in DoneIn(s) <=> \E n \in DOMAIN s : IsDone(s[n]) /\ s[n] \in E
    BY <1>2, <1>3
  <1>5. Has(s, E) <=> b \in DoneIn(s) \/ Has(Kept(s), E)
    BY <1>1, <1>4 DEF Has
  <1>6. ~(b \in DoneIn(s) /\ Has(Kept(s), E))
    BY <1>1, <1>4 DEF One, E
  <1>7. QED BY <1>1, <1>5, <1>6 DEF E

LEMMA StateCommandsBuffer ==
    ASSUME TypeOK, BufferInv, NEW s \in States, LoadedTo(s) \/ IdleTo(s) \/ RunningTo(s) \/ WaitingTo(s)
    PROVE  BufferInv'
  <1>1. Pending /\ Current[1] = "COMMAND" /\ CalmCmd
    <2>1. /\ Pending /\ Current[1] = "COMMAND"
          /\ \E N : Plain(N) /\ Drops(q.cmd, q'.cmd, Current, N)
      BY StateCommandDrops
    <2>2. QED BY <2>1 DEF CalmCmd, Plain
  <1>2. q'.ftb = q.ftb /\ q'.etb = q.etb
    <2>1. Complete(s) \/ Refuse \/ q' = Rest \/ q' = Post(Rest, <<"RESUME_DONE", "", "">>)
      BY DEF LoadedTo, IdleTo, RunningTo, WaitingTo, StartFor, Later
    <2>2. ASSUME NEW x \in CmdEntries, q' = Post(Rest, x) PROVE q'.ftb = q.ftb /\ q'.etb = q.etb
      BY <1>1, <2>2, PopPost
    <2>3. <<"RESUME_DONE", "", "">> \in CmdEntries
      BY DEF CmdEntries, Signals
    <2>4. QED BY <1>1, <2>1, <2>2, <2>3, PopRest, EventType DEF Complete, Refuse
  <1>3. UNCHANGED <<held, lent>>
    BY Zenon DEF LoadedTo, IdleTo, RunningTo, WaitingTo, driver
  <1>4. CalmMsgs
    <2>1. \/ UNCHANGED msgs
          \/ \E ok \in BOOLEAN : dev_start(ok) \/ dev_pause(ok) \/ dev_resume(ok) \/ dev_stop(ok)
      BY Zenon DEF LoadedTo, IdleTo, StartFor, RunningTo, WaitingTo, driver
    <2>2. QED BY <2>1, CalmMsgsSame, DeviceGrows
  <1>5. QED BY <1>1, <1>2, <1>3, <1>4, BufferStays

LEMMA SignalCalm ==
    ASSUME TypeOK,
           \/ GenerateEvent \/ StartDone \/ PauseDone \/ ResumeDone \/ StopDone
           \/ \E p \in Ports : FlushDone(p)
    PROVE  CalmCmd /\ CalmMsgs /\ UNCHANGED held
  <1>1. CalmCmd
    <2>1. Plain({Current}) /\ Plain({}) /\ Drops(q.cmd, q'.cmd, Current, {})
      BY SignalStream DEF Plain
    <2>2. QED BY <2>1 DEF CalmCmd
  <1>2. CalmMsgs
    <2>1. \/ UNCHANGED msgs
          \/ \E ok \in BOOLEAN : dev_start(ok) \/ dev_pause(ok) \/ dev_resume(ok) \/ dev_stop(ok)
      BY Zenon DEF GenerateEvent, StartDone, PauseAfterStart, PauseDone, ResumeDone, StopDone,
         FlushDone, driver
    <2>2. QED BY <2>1, CalmMsgsSame, DeviceGrows
  <1>3. UNCHANGED held
    BY Zenon DEF GenerateEvent, StartDone, PauseDone, ResumeDone, StopDone, FlushDone, driver
  <1>4. QED BY <1>1, <1>2, <1>3

LEMMA SignalsBuffer ==
    ASSUME TypeOK, BufferInv,
           \/ GenerateEvent \/ StartDone \/ PauseDone \/ ResumeDone \/ StopDone
           \/ \E p \in Ports : FlushDone(p)
    PROVE  BufferInv'
  <1>1. CalmCmd /\ CalmMsgs /\ UNCHANGED held
    BY SignalCalm
  <1>2. Pending /\ Current[1] \notin {"FTB", "ETB", "EBD"}
    BY SignalStream
  <1>3. CASE q' = Rest /\ UNCHANGED lent
    BY <1>1, <1>2, <1>3, PopRest, BufferStays
  <1>4. CASE complete_pending_buffer_done_cbs
    <2> SUFFICES ASSUME NEW b \in Buffers PROVE Placed(b)'
      BY DEF BufferInv
    <2> DEFINE E == EntriesOf(b)
    <2>1. /\ q'.ftb = Kept(q.ftb) /\ q'.etb = Kept(q.etb)
          /\ lent' = lent \ (DoneIn(q.ftb) \union DoneIn(q.etb))
      BY <1>2, <1>4, CompleteFacts
    <2>2. Placed(b) /\ q.ftb \in Seq(FtbEntries) /\ q.etb \in Seq(EtbEntries)
      BY QueuesType DEF BufferInv
    <2>3. /\ One(Kept(q.ftb), E)
          /\ Has(q.ftb, E) <=> b \in DoneIn(q.ftb) \/ Has(Kept(q.ftb), E)
          /\ ~(b \in DoneIn(q.ftb) /\ Has(Kept(q.ftb), E))
      BY <2>2, KeptBuffers DEF Placed
    <2>4. /\ One(Kept(q.etb), E)
          /\ Has(q.etb, E) <=> b \in DoneIn(q.etb) \/ Has(Kept(q.etb), E)
          /\ ~(b \in DoneIn(q.etb) /\ Has(Kept(q.etb), E))
      BY <2>2, KeptBuffers DEF Placed
    <2>5. /\ Has(q'.cmd, E) <=> Has(q.cmd, E)
          /\ One(q'.cmd, E)
          /\ Has(msgs', E) <=> Has(msgs, E)
          /\ One(msgs', E)
      BY <1>1, <2>2, CalmCmdFacts, CalmMsgsFacts DEF Placed
    <2> HIDE DEF E
    <2>6. One(q'.ftb, E) /\ One(q'.etb, E)
      BY <2>1, <2>3, <2>4
    <2>7. /\ Has(q.ftb, E) <=> b \in DoneIn(q.ftb) \/ Has(q'.ftb, E)
          /\ Has(q.etb, E) <=> b \in DoneIn(q.etb) \/ Has(q'.etb, E)
          /\ ~(b \in DoneIn(q.ftb) /\ Has(q'.ftb, E))
          /\ ~(b \in DoneIn(q.etb) /\ Has(q'.etb, E))
      BY <2>1, <2>3, <2>4
    <2>8. b \in lent' <=> b \in lent /\ b \notin DoneIn(q.ftb) /\ b \notin DoneIn(q.etb)
      BY <2>1
    <2>9. QED BY <1>1, <2>2, <2>5, <2>6, <2>7, <2>8 DEF Placed, E
  <1>5. QED
    BY <1>3, <1>4, Zenon DEF GenerateEvent, StartDone, PauseDone, ResumeDone, StopDone, FlushDone

LEMMA BufferFlush ==
    ASSUME TypeOK, BufferInv, NEW P \in SUBSET Ports, NEW qq \in Queues,
           qq.ftb = q.ftb, qq.etb = q.etb, execute_omx_flush(P, qq), CalmCmd
    PROVE  BufferInv'
  <1> SUFFICES ASSUME NEW b \in Buffers PROVE Placed(b)'
    BY DEF BufferInv
  <1> DEFINE E == EntriesOf(b)
  <1>1. /\ q'.ftb = IF "out" \in P THEN <<>> ELSE q.ftb
        /\ q'.etb = IF "in" \in P THEN <<>> ELSE q.etb
        /\ lent' = lent \ ((IF "out" \in P THEN BuffersIn(q.ftb) ELSE {})
                           \union (IF "in" \in P THEN BuffersIn(q.etb) ELSE {}))
        /\ \E ok, did \in SUBSET P : dev_flush(P, ok, did)
    BY FlushFacts
  <1>2. PICK ok \in SUBSET P, did \in SUBSET P : dev_flush(P, ok, did)
    BY <1>1
  <1>3. /\ Has(msgs', E) <=> Has(msgs, E) \/ (b \in held /\ b[1] \in did)
        /\ One(msgs, E) /\ ~(Has(msgs, E) /\ b \in held) => One(msgs', E)
        /\ b \in held' <=> b \in held /\ b[1] \notin did
    <2>1. held' = {c \in held : c[1] \notin did}
      BY <1>2, DevFlush
    <2>2. /\ Has(msgs', E) <=> Has(msgs, E) \/ (b \in held /\ b[1] \in did)
          /\ One(msgs, E) /\ ~(Has(msgs, E) /\ b \in held) => One(msgs', E)
      BY <1>2, DevFlush, Zenon
    <2>3. QED BY <2>1, <2>2
  <1>4. Placed(b) /\ q.ftb \in Seq(FtbEntries) /\ q.etb \in Seq(EtbEntries)
    BY QueuesType DEF BufferInv
  <1>5. b \in BuffersIn(q.ftb) <=> Has(q.ftb, E)
    <2>1. \A n \in DOMAIN q.ftb : q.ftb[n] \in E <=> BufferOf(q.ftb[n]) = b
      <3>1. \A n \in DOMAIN q.ftb : q.ftb[n] \in FtbEntries
        BY <1>4
      <3>2. QED BY <3>1, EntryOf
    <2>2. QED BY <2>1 DEF BuffersIn, Has
  <1>6. b \in BuffersIn(q.etb) <=> Has(q.etb, E)
    <2>1. \A n \in DOMAIN q.etb : q.etb[n] \in E <=> BufferOf(q.etb[n]) = b
      <3>1. \A n \in DOMAIN q.etb : q.etb[n] \in EtbEntries
        BY <1>4
      <3>2. QED BY <3>1, EntryOf
    <2>2. QED BY <2>1 DEF BuffersIn, Has
  <1>7. /\ Has(q'.cmd, E) <=> Has(q.cmd, E)
        /\ One(q.cmd, E) => One(q'.cmd, E)
    BY CalmCmdFacts
  <1>8. ~Has(<<>>, E) /\ One(<<>>, E)
    BY DEF Has, One
  <1> HIDE DEF E
  <1>9. /\ Has(q'.ftb, E) <=> Has(q.ftb, E) /\ "out" \notin P
        /\ Has(q'.etb, E) <=> Has(q.etb, E) /\ "in" \notin P
        /\ One(q.ftb, E) => One(q'.ftb, E)
        /\ One(q.etb, E) => One(q'.etb, E)
    BY <1>1, <1>8
  <1>10. b \in lent' <=> b \in lent /\ ~("out" \in P /\ Has(q.ftb, E))
                                    /\ ~("in" \in P /\ Has(q.etb, E))
    BY <1>1, <1>5, <1>6
  <1>11. QED BY <1>3, <1>4, <1>7, <1>9, <1>10 DEF Placed, E

LEMMA PlainEvents == Plain(Asides) /\ Plain(Commands)
  <1>1. ASSUME NEW x \in Asides PROVE x[1] = "EVENT"
    BY DEF Asides, Unpopulated, Event
  <1>2. ASSUME NEW x \in Commands PROVE x[1] = "COMMAND"
    BY DEF Commands
  <1>3. QED BY <1>1, <1>2 DEF Plain

LEMMA PortCommandsBuffer ==
    ASSUME TypeOK, BufferInv, RunningToIdle \/ \E a \in Named : Flush(a) \/ PortEnable(a) \/ PortDisable(a)
    PROVE  BufferInv'
  <1>1. ASSUME Pending, Current[1] = "COMMAND"
        PROVE  /\ Rest \in Queues /\ Rest.ftb = q.ftb /\ Rest.etb = q.etb
               /\ Plain({Current})
    BY <1>1, TakesCommand DEF Plain
  <1>2. CASE RunningToIdle
    <2>1. /\ Pending /\ Current[1] = "COMMAND"
          /\ \E N : Plain(N) /\ Drops(q.cmd, q'.cmd, Current, N)
      BY <1>2, StateCommandDrops
    <2>2. CalmCmd
      BY <1>1, <2>1 DEF CalmCmd
    <2>3. execute_omx_flush(Ports, Rest)
      BY <1>2 DEF RunningToIdle
    <2>4. QED BY <1>1, <2>1, <2>2, <2>3, BufferFlush
  <1>3. ASSUME NEW a \in Named, Flush(a) \/ PortEnable(a) \/ PortDisable(a) PROVE BufferInv'
    <2>1. Pending /\ Current[1] = "COMMAND"
      BY <1>3 DEF Flush, PortEnable, PortDisable, Command
    <2>2. CalmCmd
      <3>1. Drops(q.cmd, q'.cmd, Current, Asides)
        BY <1>3, FlushStream, PortEnableStream, PortDisableStream
      <3>2. QED BY <1>1, <2>1, <3>1, PlainEvents DEF CalmCmd
    <2>3. CASE Flush(a)
      <3>1. execute_omx_flush(PortsOf(a), Rest) /\ PortsOf(a) \in SUBSET Ports
        BY <2>3, EventType DEF Flush
      <3>2. QED BY <1>1, <2>1, <2>2, <3>1, BufferFlush
    <2>8. Rest \in Queues /\ Rest.ftb = q.ftb /\ Rest.etb = q.etb
      BY <1>1, <2>1
    <2>4. ASSUME NEW cmd \in {"PortEnable", "PortDisable"}, NEW ready, NEW qq,
                 qq = PortEvents(Rest, cmd, a, ready)
          PROVE  qq \in Queues /\ qq.ftb = q.ftb /\ qq.etb = q.etb
      BY <2>4, <2>8, PortEventsKeep
    <2>5. CASE PortEnable(a)
      <3>1. /\ \E ready : q' = PortEvents(Rest, "PortEnable", a, ready)
            /\ UNCHANGED <<msgs, held, lent>>
        BY <2>5, Zenon DEF PortEnable, driver
      <3>2. q'.ftb = q.ftb /\ q'.etb = q.etb
        BY <2>4, <3>1
      <3>3. QED BY <2>2, <3>1, <3>2, CalmMsgsSame, BufferStays
    <2>6. CASE PortDisable(a)
      <3>1. PICK ready :
              IF Running
              THEN execute_omx_flush(PortsOf(a), PortEvents(Rest, "PortDisable", a, ready))
              ELSE q' = PortEvents(Rest, "PortDisable", a, ready) /\ UNCHANGED <<msgs, held, lent>>
        BY <2>6, Zenon DEF PortDisable, driver
      <3>2. CASE Running
        BY <2>2, <2>4, <3>1, <3>2, EventType, BufferFlush
      <3>3. CASE ~Running
        <4>1. q'.ftb = q.ftb /\ q'.etb = q.etb
          BY <2>4, <3>1, <3>3
        <4>2. QED BY <2>2, <3>1, <3>3, <4>1, CalmMsgsSame, BufferStays
      <3>4. QED BY <3>2, <3>3
    <2>7. QED BY <1>3, <2>3, <2>5, <2>6
  <1>4. QED BY <1>2, <1>3

LEMMA ClientBuffer ==
    ASSUME TypeOK, BufferInv,
           \/ \E b \in Buffers : AllocateBuffer(b) \/ FreeBuffer(b)
           \/ \E cmd, a : send_command(cmd, a) /\ <<"COMMAND", cmd, a>> \in Commands
    PROVE  BufferInv'
  <1>1. ASSUME NEW b \in Buffers, AllocateBuffer(b) \/ FreeBuffer(b) PROVE BufferInv'
    <2>1. CalmCmd
      <3> DEFINE N == Asides \union {Event("StateSet", "Idle"), Event("StateSet", "Loaded")}
      <3>1. \E M \in SUBSET N : Grows(q.cmd, q'.cmd, M)
        <4>1. /\ Asides \in SUBSET N /\ Asides \union {Event("StateSet", "Idle")} \in SUBSET N
              /\ Asides \union {Event("StateSet", "Loaded")} \in SUBSET N
          OBVIOUS
        <4> HIDE DEF N
        <4>2. QED BY <1>1, <4>1, AllocateStream, FreeStream
      <3>2. Plain(N)
        BY PlainEvents DEF Plain, Event
      <3>3. QED BY <3>1, <3>2 DEF CalmCmd, Plain
    <2>2. CalmMsgs /\ UNCHANGED <<held, lent>>
      <3>1. \/ UNCHANGED msgs
            \/ \E ok \in BOOLEAN : dev_stop(ok)
        BY <1>1, FreeStream, Zenon DEF AllocateBuffer, driver
      <3>2. UNCHANGED <<held, lent>>
        BY <1>1, Zenon DEF AllocateBuffer, FreeBuffer, driver
      <3>3. QED BY <3>1, <3>2, CalmMsgsSame, DeviceGrows
    <2>3. q'.ftb = q.ftb /\ q'.etb = q.etb
      <3>1. CASE AllocateBuffer(b)
        <4>1. Populated(b) \/ UNCHANGED q
          BY <3>1, AllocateFacts
        <4>2. QED BY <4>1, PopulatedFacts
      <3>2. CASE FreeBuffer(b)
        BY <3>2, FreeFacts, FreedFacts, QueuesType
      <3>3. QED BY <1>1, <3>1, <3>2
    <2>4. QED BY <2>1, <2>2, <2>3, BufferStays
  <1>2. ASSUME NEW cmd, NEW a, send_command(cmd, a), <<"COMMAND", cmd, a>> \in Commands
        PROVE  BufferInv'
    <2>1. CalmCmd
      <3>1. Grows(q.cmd, q'.cmd, {<<"COMMAND", cmd, a>>})
        BY <1>2, SendFacts
      <3>2. Plain({<<"COMMAND", cmd, a>>})
        BY DEF Plain
      <3>3. QED BY <3>1, <3>2 DEF CalmCmd
    <2>2. UNCHANGED <<msgs, held, lent>> /\ q'.ftb = q.ftb /\ q'.etb = q.etb
      BY <1>2, SendFacts DEF send_command, driver
    <2>3. QED BY <2>1, <2>2, CalmMsgsSame, BufferStays
  <1>3. QED BY <1>1, <1>2

(* The head of m_ftb_q or m_etb_q is a buffer that is nowhere else.        *)
LEMMA HeadBuffer ==
    ASSUME NEW S, S = FtbEntries \/ S = EtbEntries, NEW s \in Seq(S), s # <<>>,
           Len(s) <= QueueSize, NEW b \in Buffers, One(s, EntriesOf(b))
    PROVE  /\ Tail(s) \in Seq(S) /\ Len(Tail(s)) < QueueSize
           /\ Has(s, EntriesOf(b)) <=> b = BufferOf(Head(s)) \/ Has(Tail(s), EntriesOf(b))
           /\ One(Tail(s), EntriesOf(b))
           /\ ~(b = BufferOf(Head(s)) /\ Has(Tail(s), EntriesOf(b)))
           /\ BufferOf(Head(s)) \in Buffers
           /\ BufferOf(Head(s))[1] = IF S = FtbEntries THEN "out" ELSE "in"
  <1>1. Head(s) \in S /\ Tail(s) \in Seq(S) /\ Len(Tail(s)) = Len(s) - 1 /\ Len(s) \in Nat
    BY TailFacts
  <1>2. Head(s) \in EntriesOf(b) <=> BufferOf(Head(s)) = b
    BY <1>1, EntryOf
  <1>3. /\ Has(s, EntriesOf(b)) <=> Head(s) \in EntriesOf(b) \/ Has(Tail(s), EntriesOf(b))
        /\ One(Tail(s), EntriesOf(b)) /\ ~(Head(s) \in EntriesOf(b) /\ Has(Tail(s), EntriesOf(b)))
    BY HasTail, OneTail
  <1>4. Len(Tail(s)) < QueueSize
    BY <1>1, BoundsAssumption
  <1>5. /\ BufferOf(Head(s)) \in Buffers
        /\ BufferOf(Head(s))[1] = IF S = FtbEntries THEN "out" ELSE "in"
    BY <1>1, EntryShape
  <1>6. QED BY <1>1, <1>2, <1>3, <1>4, <1>5

(* empty_this_buffer_proxy and fill_this_buffer_proxy: the buffer is given *)
(* to the driver, or queued as done.                                       *)
LEMMA ProxyBuffer ==
    ASSUME TypeOK, BufferInv, NeverFull, empty_this_buffer_proxy \/ fill_this_buffer_proxy
    PROVE  BufferInv'
  <1> DEFINE c == BufferOf(Current)
  <1>1. Pending /\ Current[1] \in {"ETB", "FTB"}
    BY DEF empty_this_buffer_proxy, fill_this_buffer_proxy, Take
  <1>2. /\ q.cmd = <<>> /\ Rest \in Queues
        /\ Current[1] = "FTB" =>
              q.ftb # <<>> /\ Current = Head(q.ftb) /\ Rest.ftb = Tail(q.ftb) /\ Rest.etb = q.etb
        /\ Current[1] = "ETB" =>
              q.etb # <<>> /\ Current = Head(q.etb) /\ Rest.etb = Tail(q.etb) /\ Rest.ftb = q.ftb
        /\ Rest.cmd = q.cmd
        /\ Current \in FtbEntries \/ Current \in EtbEntries
    BY <1>1, TakesEntry, RestFacts
  <1>3. c \in Buffers /\ c[1] = IF Current[1] = "FTB" THEN "out" ELSE "in"
    BY <1>1, <1>2, EntryShape, KindFacts
  <1>4. /\ UNCHANGED <<msgs, lent>>
        /\ \/ q' = Rest /\ held' = held \union {c}
           \/ q' = Post(Rest, Done(c)) /\ held' = held
    BY <1>3, EncodeType, Zenon DEF empty_this_buffer_proxy, fill_this_buffer_proxy
  <1> SUFFICES ASSUME NEW b \in Buffers PROVE Placed(b)'
    BY DEF BufferInv
  <1> DEFINE E == EntriesOf(b)
  <1>5. /\ Placed(b) /\ q.cmd \in Seq(CmdEntries)
        /\ q.ftb \in Seq(FtbEntries) /\ q.etb \in Seq(EtbEntries)
        /\ Len(q.cmd) < QueueSize /\ Len(q.ftb) <= QueueSize /\ Len(q.etb) <= QueueSize
    BY QueuesType DEF BufferInv, Sized, NeverFull
  <1>6. Done(c) \in E <=> b = c
    BY <1>3, DoneFacts
  <1>7. ~Has(q.cmd, E) /\ One(q.cmd, E)
    BY <1>2 DEF Has, One
  <1>8. CASE Current[1] = "FTB"
    <2>1. /\ Tail(q.ftb) \in Seq(FtbEntries)
          /\ Has(q.ftb, E) <=> b = c \/ Has(Tail(q.ftb), E)
          /\ One(Tail(q.ftb), E) /\ ~(b = c /\ Has(Tail(q.ftb), E))
      BY <1>2, <1>5, <1>8, HeadBuffer DEF Placed
    <2>2. CASE q' = Rest /\ held' = held \union {c}
      <3>1. q'.cmd = q.cmd /\ q'.ftb = Tail(q.ftb) /\ q'.etb = q.etb
        BY <1>2, <1>8, <2>2
      <3>2. b \in held' <=> b \in held \/ b = c
        BY <2>2
      <3> HIDE DEF E, c
      <3>3. QED BY <1>4, <1>5, <1>7, <2>1, <3>1, <3>2 DEF Placed, E
    <2>3. CASE q' = Post(Rest, Done(c)) /\ held' = held
      <3>1. Done(c) \in CmdEntries
        BY <1>3, <1>8, DoneFacts
      <3>2. q'.cmd = Insert(q.cmd, Done(c)) /\ q'.ftb = Tail(q.ftb) /\ q'.etb = q.etb
        BY <1>2, <1>8, <2>3, <3>1, PostCmd
      <3>3. (Has(q'.cmd, E) <=> b = c) /\ One(q'.cmd, E)
        BY <1>5, <1>6, <1>7, <3>1, <3>2, Pushed
      <3> HIDE DEF E, c
      <3>4. QED BY <1>4, <1>5, <1>7, <2>1, <2>3, <3>2, <3>3 DEF Placed, E
    <2>4. QED BY <1>4, <2>2, <2>3
  <1>9. CASE Current[1] = "ETB"
    <2>1. /\ Tail(q.etb) \in Seq(EtbEntries) /\ Len(Tail(q.etb)) < QueueSize
          /\ Has(q.etb, E) <=> b = c \/ Has(Tail(q.etb), E)
          /\ One(Tail(q.etb), E) /\ ~(b = c /\ Has(Tail(q.etb), E))
      BY <1>2, <1>5, <1>9, HeadBuffer DEF Placed
    <2>2. CASE q' = Rest /\ held' = held \union {c}
      <3>1. q'.cmd = q.cmd /\ q'.ftb = q.ftb /\ q'.etb = Tail(q.etb)
        BY <1>2, <1>9, <2>2
      <3>2. b \in held' <=> b \in held \/ b = c
        BY <2>2
      <3> HIDE DEF E, c
      <3>3. QED BY <1>4, <1>5, <1>7, <2>1, <3>1, <3>2 DEF Placed, E
    <2>3. CASE q' = Post(Rest, Done(c)) /\ held' = held
      <3>1. Done(c) \in EtbEntries
        BY <1>3, <1>9, DoneFacts
      <3>2. q'.etb = Insert(Tail(q.etb), Done(c)) /\ q'.ftb = q.ftb /\ q'.cmd = q.cmd
        BY <1>2, <1>9, <2>3, <3>1, PostEtb
      <3>3. /\ Has(q'.etb, E) <=> Has(Tail(q.etb), E) \/ b = c
            /\ One(q'.etb, E)
        <4> DEFINE t == Tail(q.etb)
                   d == Done(c)
        <4>1. /\ t \in Seq(EtbEntries) /\ Len(t) < QueueSize /\ d \in EtbEntries
              /\ q'.etb = Insert(t, d) /\ One(t, E) /\ ~(b = c /\ Has(t, E))
              /\ d \in E <=> b = c
          BY <1>6, <2>1, <3>1, <3>2
        <4> HIDE DEF t, d, c, E
        <4>2. (Has(q'.etb, E) <=> Has(t, E) \/ b = c) /\ One(q'.etb, E)
          BY <4>1, Pushed
        <4>3. QED BY <4>2 DEF t
      <3> HIDE DEF E, c
      <3>4. QED BY <1>4, <1>5, <1>7, <2>1, <2>3, <3>2, <3>3 DEF Placed, E
    <2>4. QED BY <1>4, <2>2, <2>3
  <1>10. QED BY <1>1, <1>8, <1>9

LEMMA BufferDoneBuffer ==
    ASSUME TypeOK, BufferInv, BufferDone
    PROVE  BufferInv'
  <1> DEFINE c == BufferOf(Current)
  <1>1. UNCHANGED <<msgs, held>> /\ lent' = lent \ {c}
    BY DEF BufferDone, driver
  <1> SUFFICES ASSUME NEW b \in Buffers PROVE Placed(b)'
    BY DEF BufferInv
  <1> DEFINE E == EntriesOf(b)
  <1>2. /\ Placed(b) /\ q.cmd \in Seq(CmdEntries) /\ q.etb \in Seq(EtbEntries)
        /\ Len(q.etb) <= QueueSize
    BY QueuesType DEF BufferInv, Sized
  <1>3. b \in lent' <=> b \in lent /\ b # c
    BY <1>1
  <1>4. CASE /\ Current[1] = "EBD" /\ q'.cmd = q.cmd /\ q.etb # <<>>
             /\ Current = Head(q.etb) /\ q'.etb = Tail(q.etb) /\ q'.ftb = q.ftb
    <2>1. /\ Has(q.etb, E) <=> b = c \/ Has(Tail(q.etb), E)
          /\ One(Tail(q.etb), E) /\ ~(b = c /\ Has(Tail(q.etb), E))
      BY <1>2, <1>4, HeadBuffer DEF Placed
    <2> HIDE DEF E, c
    <2>2. QED BY <1>1, <1>2, <1>3, <1>4, <2>1 DEF Placed, E
  <1>5. CASE /\ Current[1] = "FBD" /\ Current \in CmdEntries /\ q.cmd # <<>>
             /\ Current = Head(q.cmd) /\ q'.cmd = Tail(q.cmd)
             /\ q'.etb = q.etb /\ q'.ftb = q.ftb
    <2>1. Head(q.cmd) \in E <=> b = c
      BY <1>5, EntryOf
    <2>2. /\ Has(q.cmd, E) <=> b = c \/ Has(Tail(q.cmd), E)
          /\ One(Tail(q.cmd), E) /\ ~(b = c /\ Has(Tail(q.cmd), E))
      BY <1>2, <1>5, <2>1, Popped DEF Placed
    <2> HIDE DEF E, c
    <2>3. QED BY <1>1, <1>2, <1>3, <1>5, <2>2 DEF Placed, E
  <1>6. QED BY <1>4, <1>5, BufferDoneStream

LEMMA AsyncBuffer ==
    ASSUME TypeOK, BufferInv, NeverFull, async_message_process
    PROVE  BufferInv'
  <1> SUFFICES ASSUME NEW b \in Buffers PROVE Placed(b)'
    BY DEF BufferInv
  <1> DEFINE E == EntriesOf(b)
             h == Head(msgs)
  <1>1. /\ msgs # <<>> /\ msgs' = Tail(msgs) /\ UNCHANGED <<held, lent>> /\ q'.ftb = q.ftb
        /\ \/ h \in CmdEntries /\ q'.cmd = Insert(q.cmd, h) /\ q'.etb = q.etb
           \/ h \in EtbEntries /\ q'.cmd = q.cmd /\ q'.etb = Insert(q.etb, h)
    BY AsyncFacts DEF async_message_process
  <1>2. /\ Placed(b) /\ msgs \in Seq(Messages)
        /\ q.cmd \in Seq(CmdEntries) /\ q.etb \in Seq(EtbEntries)
        /\ Len(q.cmd) < QueueSize /\ Len(q.etb) < QueueSize
    BY QueuesType, TypeParts DEF BufferInv, NeverFull, DriverOK
  <1>3. /\ Has(msgs, E) <=> h \in E \/ Has(msgs', E)
        /\ One(msgs', E) /\ ~(h \in E /\ Has(msgs', E))
    BY <1>1, <1>2, Popped DEF Placed
  <1> HIDE DEF h
  <1>4. CASE h \in CmdEntries /\ q'.cmd = Insert(q.cmd, h) /\ q'.etb = q.etb
    <2>1. /\ Has(q'.cmd, E) <=> Has(q.cmd, E) \/ h \in E
          /\ One(q.cmd, E) /\ ~(Has(q.cmd, E) /\ h \in E) => One(q'.cmd, E)
      BY <1>2, <1>4, Pushed
    <2> HIDE DEF E
    <2>2. QED BY <1>1, <1>2, <1>3, <1>4, <2>1 DEF Placed, E
  <1>5. CASE h \in EtbEntries /\ q'.cmd = q.cmd /\ q'.etb = Insert(q.etb, h)
    <2>1. /\ Has(q'.etb, E) <=> Has(q.etb, E) \/ h \in E
          /\ One(q.etb, E) /\ ~(Has(q.etb, E) /\ h \in E) => One(q'.etb, E)
      BY <1>2, <1>5, Pushed
    <2> HIDE DEF E
    <2>2. QED BY <1>1, <1>2, <1>3, <1>5, <2>1 DEF Placed, E
  <1>6. QED BY <1>1, <1>4, <1>5

LEMMA FrameBuffer ==
    ASSUME TypeOK, BufferInv, NeverFull, NEW c \in Buffers, FrameDone(c)
    PROVE  BufferInv'
  <1> SUFFICES ASSUME NEW b \in Buffers PROVE Placed(b)'
    BY DEF BufferInv
  <1> DEFINE E == EntriesOf(b)
             d == Done(c)
  <1>1. c \in held /\ held' = held \ {c} /\ UNCHANGED <<msgs, lent>> /\ q' = Post(q, d)
    BY DEF FrameDone
  <1>2. /\ Placed(b) /\ q \in Queues /\ Sized(q)
        /\ q.cmd \in Seq(CmdEntries) /\ q.etb \in Seq(EtbEntries)
        /\ Len(q.cmd) < QueueSize /\ Len(q.etb) < QueueSize
    BY QueuesType DEF BufferInv, NeverFull
  <1>3. (d \in E <=> b = c) /\ (b \in held' <=> b \in held /\ b # c)
    BY <1>1, DoneFacts
  <1>4. CASE c[1] = "out"
    <2>1. d \in CmdEntries /\ q'.cmd = Insert(q.cmd, d) /\ q'.etb = q.etb /\ q'.ftb = q.ftb
      BY <1>1, <1>2, <1>4, PostDone, DoneFacts
    <2> HIDE DEF d
    <2>2. /\ Has(q'.cmd, E) <=> Has(q.cmd, E) \/ d \in E
          /\ One(q.cmd, E) /\ ~(Has(q.cmd, E) /\ d \in E) => One(q'.cmd, E)
      BY <1>2, <2>1, Pushed
    <2> HIDE DEF E
    <2>3. QED BY <1>1, <1>2, <1>3, <2>1, <2>2 DEF Placed, E
  <1>5. CASE c[1] = "in"
    <2>1. d \in EtbEntries /\ q'.etb = Insert(q.etb, d) /\ q'.cmd = q.cmd /\ q'.ftb = q.ftb
      BY <1>1, <1>2, <1>5, PostDone, DoneFacts
    <2> HIDE DEF d
    <2>2. /\ Has(q'.etb, E) <=> Has(q.etb, E) \/ d \in E
          /\ One(q.etb, E) /\ ~(Has(q.etb, E) /\ d \in E) => One(q'.etb, E)
      BY <1>2, <2>1, Pushed
    <2> HIDE DEF E
    <2>3. QED BY <1>1, <1>2, <1>3, <2>1, <2>2 DEF Placed, E
  <1>6. QED BY <1>4, <1>5, BufferShape DEF Ports

LEMMA GiveBufferBuffer ==
    ASSUME TypeOK, BufferInv, NeverFull, NEW c \in Buffers, GiveBuffer(c)
    PROVE  BufferInv'
  <1> SUFFICES ASSUME NEW b \in Buffers PROVE Placed(b)'
    BY DEF BufferInv
  <1> DEFINE E == EntriesOf(b)
  <1>1. UNCHANGED <<msgs, held>> /\ c \notin lent /\ lent' = lent \union {c} /\ q'.cmd = q.cmd
    BY GiveFacts DEF GiveBuffer, driver
  <1>2. /\ Placed(b) /\ q.ftb \in Seq(FtbEntries) /\ q.etb \in Seq(EtbEntries)
        /\ Len(q.ftb) < QueueSize /\ Len(q.etb) < QueueSize
    BY QueuesType DEF BufferInv, NeverFull
  <1>3. b \in lent' <=> b \in lent \/ b = c
    BY <1>1
  <1>4. c = <<c[1], c[2]>>
    BY BufferShape
  <1>5. CASE c[1] = "out"
    <2> DEFINE d == <<"FTB", "out", c[2]>>
    <2>1. d \in FtbEntries /\ q'.ftb = Insert(q.ftb, d) /\ q'.etb = q.etb
      BY <1>5, GiveFacts
    <2>2. BufferOf(d) = c
      BY <1>4, <1>5 DEF BufferOf
    <2> HIDE DEF d
    <2>3. d \in E <=> b = c
      BY <2>1, <2>2, EntryOf
    <2>4. /\ Has(q'.ftb, E) <=> Has(q.ftb, E) \/ d \in E
          /\ One(q.ftb, E) /\ ~(Has(q.ftb, E) /\ d \in E) => One(q'.ftb, E)
      BY <1>2, <2>1, Pushed
    <2> HIDE DEF E
    <2>5. QED BY <1>1, <1>2, <1>3, <2>1, <2>3, <2>4 DEF Placed, E
  <1>6. CASE c[1] = "in"
    <2> DEFINE d == <<"ETB", "in", c[2]>>
    <2>1. d \in EtbEntries /\ q'.etb = Insert(q.etb, d) /\ q'.ftb = q.ftb
      BY <1>6, GiveFacts
    <2>2. BufferOf(d) = c
      BY <1>4, <1>6 DEF BufferOf
    <2> HIDE DEF d
    <2>3. d \in E <=> b = c
      BY <2>1, <2>2, EntryOf
    <2>4. /\ Has(q'.etb, E) <=> Has(q.etb, E) \/ d \in E
          /\ One(q.etb, E) /\ ~(Has(q.etb, E) /\ d \in E) => One(q'.etb, E)
      BY <1>2, <2>1, Pushed
    <2> HIDE DEF E
    <2>5. QED BY <1>1, <1>2, <1>3, <2>1, <2>3, <2>4 DEF Placed, E
  <1>7. QED BY <1>5, <1>6, BufferShape DEF Ports

LEMMA NextBuffer == TypeOK /\ NeverFull /\ BufferInv /\ [Next]_vars => BufferInv'
  <1> SUFFICES ASSUME TypeOK, NeverFull, BufferInv, [Next]_vars PROVE BufferInv'
    OBVIOUS
  <1>1. ASSUME NEW s \in States, LoadedTo(s) \/ IdleTo(s) \/ RunningTo(s) \/ WaitingTo(s)
        PROVE  BufferInv'
    BY <1>1, StateCommandsBuffer
  <1>2. CASE RunningToIdle \/ \E a \in Named : Flush(a) \/ PortEnable(a) \/ PortDisable(a)
    BY <1>2, PortCommandsBuffer
  <1>3. CASE \/ GenerateEvent \/ StartDone \/ PauseDone \/ ResumeDone \/ StopDone
             \/ \E p \in Ports : FlushDone(p)
    BY <1>3, SignalsBuffer
  <1>4. CASE empty_this_buffer_proxy \/ fill_this_buffer_proxy
    BY <1>4, ProxyBuffer
  <1>5. CASE BufferDone \/ async_message_process
    BY <1>5, BufferDoneBuffer, AsyncBuffer
  <1>6. ASSUME NEW b \in Buffers, FrameDone(b) \/ GiveBuffer(b) PROVE BufferInv'
    BY <1>6, FrameBuffer, GiveBufferBuffer
  <1>7. ASSUME NEW b \in Buffers, AllocateBuffer(b) \/ FreeBuffer(b) PROVE BufferInv'
    BY <1>7, ClientBuffer
  <1>8. ASSUME NEW cmd, NEW a, send_command(cmd, a), <<"COMMAND", cmd, a>> \in Commands
        PROVE  BufferInv'
    BY <1>8, ClientBuffer
  <1>9. CASE UNCHANGED vars
    <2>1. UNCHANGED <<q, msgs, held, lent>>
      BY <1>9, Zenon DEF vars, driver
    <2>2. QED BY <2>1, Zenon DEF BufferInv, Placed
  <1>10. QED
    BY <1>1, <1>2, <1>3, <1>4, <1>5, <1>6, <1>7, <1>8, <1>9, CommandsType, Zenon
       DEF Next, process_event_cb

LEMMA InitBuffer == Init => BufferInv
  BY DEF Init, BufferInv, Placed, Has, One

(* A buffer the client has handed over is in one entry of one queue, in    *)
(* one message, or in the driver, as long as no queue was full.            *)
THEOREM BufferCorrect == Spec /\ []NeverFull => []BufferInv
  <1>1. QED
    BY InitBuffer, NextBuffer, TypeCorrect, PTL DEF Spec

LEMMA PositionFacts ==
    ASSUME NEW S \in {CmdEntries, FtbEntries, EtbEntries, Messages}, NEW s \in Seq(S),
           NEW b \in Buffers
    PROVE  /\ ~Has(s, EntriesOf(b)) => Positions(s, b) = {}
           /\ Has(s, EntriesOf(b)) /\ One(s, EntriesOf(b)) => \E n : Positions(s, b) = {n}
  <1>1. ASSUME NEW n \in DOMAIN s PROVE Carries(s[n], b) <=> s[n] \in EntriesOf(b)
    <2>1. s[n] \in S
      OBVIOUS
    <2>2. s[n] \in CmdEntries \/ s[n] \in FtbEntries \/ s[n] \in EtbEntries
      BY <2>1, MessageShape
    <2>3. ASSUME Carries(s[n], b) PROVE s[n] \in EntriesOf(b)
      <3>1. s[n] \in CmdEntries => s[n][1] = "FBD"
        BY <2>3, KindFacts DEF Carries
      <3>2. QED BY <2>2, <2>3, <3>1, EntryOf DEF Carries
    <2>4. QED BY <2>3, EntryOf
  <1>2. Positions(s, b) = {n \in DOMAIN s : s[n] \in EntriesOf(b)}
    BY <1>1 DEF Positions
  <1>3. ASSUME NEW n \in DOMAIN s, s[n] \in EntriesOf(b), One(s, EntriesOf(b))
        PROVE  Positions(s, b) = {n}
    BY <1>2, <1>3 DEF One
  <1>4. QED BY <1>2, <1>3 DEF Has

LEMMA PlacedOnce ==
    ASSUME TypeOK, NEW b \in Buffers, Placed(b)
    PROVE  Cardinality(Places(b)) = IF b \in lent THEN 1 ELSE 0
  <1> DEFINE E == EntriesOf(b)
             c == Positions(q.cmd, b)
             f == Positions(q.ftb, b)
             e == Positions(q.etb, b)
             m == Positions(msgs, b)
             d == IF b \in held THEN {<<"driver", 0>>} ELSE {}
  <1>1. /\ q.cmd \in Seq(CmdEntries) /\ q.ftb \in Seq(FtbEntries) /\ q.etb \in Seq(EtbEntries)
        /\ msgs \in Seq(Messages)
    BY QueuesType, TypeParts DEF DriverOK
  <1>2. /\ ~Has(q.cmd, E) => c = {}
        /\ Has(q.cmd, E) /\ One(q.cmd, E) => \E n : c = {n}
        /\ ~Has(q.ftb, E) => f = {}
        /\ Has(q.ftb, E) /\ One(q.ftb, E) => \E n : f = {n}
        /\ ~Has(q.etb, E) => e = {}
        /\ Has(q.etb, E) /\ One(q.etb, E) => \E n : e = {n}
        /\ ~Has(msgs, E) => m = {}
        /\ Has(msgs, E) /\ One(msgs, E) => \E n : m = {n}
    BY <1>1, PositionFacts
  <1>3. Places(b) = ({"cmd"} \X c) \union ({"ftb"} \X f) \union ({"etb"} \X e)
                    \union ({"msgs"} \X m) \union d
    BY DEF Places
  <1> HIDE DEF E, c, f, e, m
  <1>4. b \notin lent => Places(b) = {}
    BY <1>2, <1>3 DEF Placed, E
  <1>5. b \in lent => \E x : Places(b) = {x}
    <2>1. \A k, n : {k} \X {n} = {<<k, n>>} /\ {k} \X {} = {}
      OBVIOUS
    <2> HIDE DEF d
    <2>2. CASE Has(q.cmd, E)
      <3>1. /\ \E n : c = {n}
            /\ f = {} /\ e = {} /\ m = {} /\ d = {}
        BY <1>2, <2>2 DEF Placed, E, d
      <3>2. PICK n : c = {n}
        BY <3>1
      <3>3. Places(b) = {<<"cmd", n>>}
        BY <1>3, <3>1, <3>2
      <3>4. QED BY <3>3
    <2>3. CASE Has(q.ftb, E)
      <3>1. /\ \E n : f = {n}
            /\ c = {} /\ e = {} /\ m = {} /\ d = {}
        BY <1>2, <2>3 DEF Placed, E, d
      <3>2. PICK n : f = {n}
        BY <3>1
      <3>3. Places(b) = {<<"ftb", n>>}
        BY <1>3, <3>1, <3>2
      <3>4. QED BY <3>3
    <2>4. CASE Has(q.etb, E)
      <3>1. /\ \E n : e = {n}
            /\ c = {} /\ f = {} /\ m = {} /\ d = {}
        BY <1>2, <2>4 DEF Placed, E, d
      <3>2. PICK n : e = {n}
        BY <3>1
      <3>3. Places(b) = {<<"etb", n>>}
        BY <1>3, <3>1, <3>2
      <3>4. QED BY <3>3
    <2>5. CASE Has(msgs, E)
      <3>1. /\ \E n : m = {n}
            /\ c = {} /\ f = {} /\ e = {} /\ d = {}
        BY <1>2, <2>5 DEF Placed, E, d
      <3>2. PICK n : m = {n}
        BY <3>1
      <3>3. Places(b) = {<<"msgs", n>>}
        BY <1>3, <3>1, <3>2
      <3>4. QED BY <3>3
    <2>6. CASE b \in held
      <3>1. c = {} /\ f = {} /\ e = {} /\ m = {} /\ d = {<<"driver", 0>>}
        BY <1>2, <2>6 DEF Placed, E, d
      <3>2. Places(b) = {<<"driver", 0>>}
        BY <1>3, <3>1
      <3>3. QED BY <3>2
    <2>7. b \in lent => Has(q.cmd, E) \/ Has(q.ftb, E) \/ Has(q.etb, E)
                          \/ Has(msgs, E) \/ b \in held
      BY DEF Placed, E
    <2>8. QED BY <2>2, <2>3, <2>4, <2>5, <2>6, <2>7
  <1>6. QED BY <1>4, <1>5, FS_EmptySet, FS_Singleton

(* A buffer the client has handed over is in one place, one that was given *)
(* back in none, as long as no queue was full: insert_entry would drop it. *)
THEOREM OnePlaceHolds == Spec /\ []NeverFull => []EachBufferInOnePlace
  <1>1. TypeOK /\ BufferInv => EachBufferInOnePlace
    BY PlacedOnce DEF BufferInv, EachBufferInOnePlace
  <1>2. QED
    BY <1>1, TypeCorrect, BufferCorrect, PTL

-----------------------------------------------------------------------------
(* On the way from Executing or Pause to Idle nothing is left behind.      *)

LEMMA DonesFacts ==
    ASSUME NEW p \in Ports
    PROVE  /\ \A N : Plain(N) => N \intersect DonesOf(p) = {}
           /\ \A b \in Buffers : Done(b) \in DonesOf(p) => b[1] = p
           /\ DonesOf(p) \intersect Signals = {}
  <1>1. ASSUME NEW x \in DonesOf(p) PROVE \E b \in Buffers : b[1] = p /\ x = Done(b)
    BY DEF DonesOf, Of
  <1>2. \A x \in DonesOf(p) : x[1] \in {"EBD", "FBD"} /\ x[2] = p /\ x \notin Signals
    BY <1>1, DoneFacts, KeyFacts
  <1>3. QED BY <1>2, DoneFacts DEF Plain

LEMMA AheadKept ==
    ASSUME NEW X, NEW Y, NeverAhead(X, Y),
           NEW N, N \intersect X = {}, N \intersect Y = {},
           Grows(q.cmd, q'.cmd, N) \/ Drops(q.cmd, q'.cmd, Current, N),
           NEW K, K \intersect Y = {}, Grows(msgs, msgs', K)
    PROVE  NeverAhead(X, Y)'
  <1> DEFINE c == q'.cmd
             m == msgs'
  <1>1. Never(c, X, Y) /\ (Has(c, X) => Has(q.cmd, X))
    BY DEF Grows, Drops, NeverAhead
  <1>2. Never(m, X, Y) /\ (Has(m, Y) => Has(msgs, Y))
    BY DEF Grows, NeverAhead
  <1> HIDE DEF c, m
  <1>3. NeverAhead(X, Y)' <=> Never(c, X, Y) /\ Never(m, X, Y) /\ ~(Has(c, X) /\ Has(m, Y))
    BY DEF c, m, NeverAhead
  <1>4. QED BY <1>1, <1>2, <1>3 DEF NeverAhead

(* A step that posts none of what the invariant is about                   *)
LEMMA QuietStays ==
    ASSUME Quiet, q'.ftb = <<>>, Has(q'.etb, ToEncode) => Has(q.etb, ToEncode),
           held' \subseteq held, refused \subseteq refused',
           NEW N, N \intersect Signals = {}, \A p \in Ports \ refused : N \intersect DonesOf(p) = {},
           Grows(q.cmd, q'.cmd, N) \/ Drops(q.cmd, q'.cmd, Current, N),
           NEW K, \A p \in Ports \ refused : K \intersect DonesOf(p) = {}, Grows(msgs, msgs', K)
    PROVE  Quiet'
  <1>1. ASSUME NEW p \in Ports \ refused' PROVE NeverAhead(Stops, DonesOf(p))'
    <2>1. NeverAhead(Stops, DonesOf(p)) /\ N \intersect DonesOf(p) = {} /\ K \intersect DonesOf(p) = {}
      BY DEF Quiet
    <2>2. N \intersect Stops = {}
      BY KeyFacts
    <2>3. QED BY <2>1, <2>2, AheadKept
  <1>2. /\ q'.ftb = <<>> /\ ~Has(q'.etb, ToEncode)
        /\ \A b \in held' : b[1] \in refused'
    BY DEF Quiet
  <1>3. QED BY <1>1, <1>2 DEF Quiet

LEMMA PlainQuiet ==
    ASSUME Quiet, q'.ftb = q.ftb, Has(q'.etb, ToEncode) => Has(q.etb, ToEncode),
           UNCHANGED <<held, refused>>,
           NEW N, N \intersect Signals = {}, Plain(N),
           Grows(q.cmd, q'.cmd, N) \/ Drops(q.cmd, q'.cmd, Current, N), CalmMsgs
    PROVE  Quiet'
  <1>1. PICK K : Plain(K) /\ Grows(msgs, msgs', K)
    BY DEF CalmMsgs
  <1>2. \A p \in Ports : N \intersect DonesOf(p) = {} /\ K \intersect DonesOf(p) = {}
    BY <1>1, DonesFacts
  <1>3. q'.ftb = <<>>
    BY DEF Quiet
  <1>4. QED BY <1>1, <1>2, <1>3, QuietStays

(* Of m_etb_q only complete_pending_buffer_done_cbs and a flush take more. *)
LEMMA EtbInserts ==
    ASSUME TypeOK, NEW x \in EtbEntries, x[1] = "EBD", q'.etb = Insert(q.etb, x)
    PROVE  Has(q'.etb, ToEncode) => Has(q.etb, ToEncode)
  <1>1. x \notin ToEncode
    BY DEF ToEncode
  <1>2. q.etb \in Seq(EtbEntries)
    BY QueuesType
  <1>3. QED BY <1>1, <1>2, InsertFacts

(* The flush of the way to Idle, and others on that way                    *)
LEMMA RunningToIdleQuiet ==
    ASSUME TypeOK, TokenInv, DriverFits, RunningToIdle, ~failed'
    PROVE  Quiet'
  <1>1. Command("StateSet", "Idle") /\ Running /\ execute_omx_flush(Ports, Rest) /\ "Idle" \in States
    BY DEF RunningToIdle, States
  <1>2. m_flags = {} /\ Pending /\ Current[1] = "COMMAND"
    BY <1>1, AskedFor DEF Command
  <1>3. Rest \in Queues
    BY <1>2, TakesCommand
  <1>4. q'.ftb = <<>> /\ q'.etb = <<>> /\ \E ok, did \in SUBSET Ports : dev_flush(Ports, ok, did)
    BY <1>1, <1>3, FlushFacts DEF Ports
  <1>5. \A b \in held' : b[1] \in refused'
    <2>1. PICK ok \in SUBSET Ports, did \in SUBSET Ports : dev_flush(Ports, ok, did)
      BY <1>4
    <2>2. /\ held' = {b \in held : b[1] \notin did} /\ refused' = refused \union (Ports \ ok)
          /\ failed' = (failed \/ ok # did)
      BY <2>1 DEF dev_flush
    <2>3. ok = did
      BY <2>2
    <2>4. \A b \in held : b[1] \in Ports
      BY BufferShape DEF TypeOK
    <2>5. QED BY <2>2, <2>3, <2>4
  <1>6. ~InFlight(Stops)'
    <2>1. ~InFlight(Stops)
      BY <1>1, <1>2 DEF DriverFits, RunningFits
    <2>2. q'.cmd = Rest.cmd
      BY <1>1, <1>3, FlushFacts
    <2>3. Drops(q.cmd, q'.cmd, Current, {})
      BY <1>2, <2>2, TakesCommand, GrowsSame, PopDrops
    <2>4. PICK K \in SUBSET Flushes : News({}, K)
      BY <1>1, <1>3, <2>3, FlushNews, {} \intersect Signals = {}
    <2>5. K \intersect Stops = {}
      BY KeyFacts
    <2>6. QED BY <2>1, <2>4, <2>5, KeyNews
  <1>7. \A Y : NeverAhead(Stops, Y)'
    <2> DEFINE c == q'.cmd
               m == msgs'
    <2>1. ~Has(c, Stops) /\ ~Has(m, Stops)
      BY <1>6 DEF InFlight
    <2> HIDE DEF c, m
    <2>2. \A Y : Never(c, Stops, Y) /\ Never(m, Stops, Y)
      BY <2>1, NeverWithout
    <2>3. \A Y : NeverAhead(Stops, Y)' <=> Never(c, Stops, Y) /\ Never(m, Stops, Y)
                                            /\ ~(Has(c, Stops) /\ Has(m, Y))
      BY DEF c, m, NeverAhead
    <2>4. QED BY <2>1, <2>2, <2>3
  <1>8. ~Has(<<>>, ToEncode)
    BY DEF Has
  <1>9. QED BY <1>4, <1>5, <1>7, <1>8 DEF Quiet

LEMMA WasQuiet ==
    ASSUME TypeOK, TokenInv, DriverFits, [Next]_vars, ~RunningToIdle,
           Running', "IDLE" \in m_flags'
    PROVE  Running /\ "IDLE" \in m_flags
  <1>1. Running
    <2> SUFFICES ASSUME ~Running PROVE FALSE
      OBVIOUS
    <2>1. m_state' # m_state /\ m_state' \in {"Executing", "Pause"}
      BY DEF Running
    <2>2. CASE /\ Current = Event("StateSet", m_state')
               /\ Drops(q.cmd, q'.cmd, Current, {})
      <3>1. /\ Current \in StateEvents /\ Current \in TokensOf(m_state')
        BY <2>1, <2>2, TokenFacts DEF StateEvents, States, Event
      <3>2. Has(q.cmd, TokensOf(m_state') \intersect StateEvents)
        BY <2>2, <3>1 DEF Drops
      <3>3. QED BY <2>1, <3>2 DEF DriverFits, EventsFit
    <2>3. CASE StartDone \/ PauseDone \/ ResumeDone \/ StopDone
      <3>1. \E s, flag : flag \in m_flags /\ Enter(s, flag)
        BY <2>1, <2>3, Zenon DEF StartDone, PauseDone, ResumeDone, StopDone, Answers, PauseAfterStart
      <3>2. m_flags' = {}
        BY <3>1 DEF Enter, TokenInv
      <3>3. QED BY <3>2
    <2>4. QED BY <2>1, <2>2, <2>3, StateChanges
  <1>2. \A s \in States : ~LoadedTo(s)
    BY <1>1 DEF LoadedTo, Running
  <1>3. QED BY <1>1, <1>2, IdleAsked

LEMMA StaysQuiet ==
    ASSUME TypeOK, TokenInv, Quiet, Running, "IDLE" \in m_flags, ~cut',
           [Next]_vars, Running'
    PROVE  Quiet'
  <1>1. m_flags = {"IDLE"} /\ target = "Idle" /\ ~Has(q.cmd, Tokens)
    BY DEF TokenInv, Goal
  <1>2. \A s \in States : ~Command("StateSet", s)
    BY <1>1, AskedFor
  <1>3. /\ \A s \in States : ~LoadedTo(s) /\ ~IdleTo(s) /\ ~RunningTo(s) /\ ~WaitingTo(s)
        /\ ~RunningToIdle
    BY <1>2 DEF LoadedTo, IdleTo, RunningTo, WaitingTo, RunningToIdle, States
  <1>4. Asides \intersect Signals = {} /\ {} \intersect Signals = {} /\ Plain({})
    BY KeyFacts DEF Plain
  <1>5. ASSUME NEW a \in Named, Flush(a) \/ PortEnable(a) \/ PortDisable(a) PROVE Quiet'
    <2>1. Drops(q.cmd, q'.cmd, Current, Asides)
      BY <1>5, FlushStream, PortEnableStream, PortDisableStream
    <2>2. /\ Pending /\ Current[1] = "COMMAND"
          /\ Rest \in Queues /\ Rest.ftb = q.ftb /\ Rest.etb = q.etb
      BY <1>5, TakesCommand DEF Flush, PortEnable, PortDisable, Command
    <2>3. ASSUME NEW P \in SUBSET Ports, NEW qq \in Queues, qq.ftb = q.ftb, qq.etb = q.etb,
                 execute_omx_flush(P, qq)
          PROVE  Quiet'
      <3>1. /\ q'.ftb = <<>> /\ q'.etb \in {<<>>, q.etb}
            /\ \E ok, did \in SUBSET P : dev_flush(P, ok, did)
        BY <2>3, FlushFacts DEF Quiet
      <3>2. PICK ok \in SUBSET P, did \in SUBSET P : dev_flush(P, ok, did)
        BY <3>1
      <3>3. /\ Grows(msgs, msgs', Given(ok, did)) /\ held' = {b \in held : b[1] \notin did}
            /\ refused' = refused \union (P \ ok)
        <4>1. held' = {b \in held : b[1] \notin did} /\ refused' = refused \union (P \ ok)
          BY <3>2 DEF dev_flush
        <4>2. Grows(msgs, msgs', Given(ok, did))
          BY <3>2, DevFlush
        <4>3. QED BY <4>1, <4>2
      <3>4. ASSUME NEW p \in Ports \ refused PROVE Given(ok, did) \intersect DonesOf(p) = {}
        <4>1. ASSUME NEW b \in held, b[1] \in did PROVE Done(b) \notin DonesOf(p)
          BY <4>1, DonesFacts DEF Quiet, TypeOK
        <4>2. \A r \in Ports : <<"FLUSH_DONE", r, Status(r \in did)>> \notin DonesOf(p)
          <5>1. \A r \in Ports : <<"FLUSH_DONE", r, Status(r \in did)>> \in Signals
            BY DEF Signals, Status
          <5>2. QED BY <5>1, DonesFacts
        <4>3. QED BY <4>1, <4>2 DEF Given
      <3>5. ~Has(<<>>, ToEncode)
        BY DEF Has
      <3>6. Has(q'.etb, ToEncode) => Has(q.etb, ToEncode)
        BY <3>1, <3>5
      <3>7. \A p \in Ports \ refused : Asides \intersect DonesOf(p) = {}
        BY PlainEvents, DonesFacts
      <3>8. held' \subseteq held /\ refused \subseteq refused'
        BY <3>3
      <3>9. QED BY <1>4, <2>1, <3>1, <3>3, <3>4, <3>6, <3>7, <3>8, QuietStays
    <2>4. CASE Flush(a)
      BY <2>2, <2>3, <2>4, EventType DEF Flush
    <2>5. ASSUME NEW cmd \in {"PortEnable", "PortDisable"}, NEW ready, NEW qq,
                 qq = PortEvents(Rest, cmd, a, ready)
          PROVE  qq \in Queues /\ qq.ftb = q.ftb /\ qq.etb = q.etb
      BY <2>2, <2>5, PortEventsKeep
    <2>6. CASE PortEnable(a)
      <3>1. /\ \E ready : q' = PortEvents(Rest, "PortEnable", a, ready)
            /\ UNCHANGED <<msgs, held, refused>>
        BY <2>6, Zenon DEF PortEnable, driver, history
      <3>2. q'.ftb = q.ftb /\ q'.etb = q.etb
        BY <2>5, <3>1
      <3>3. QED BY <1>4, <2>1, <3>1, <3>2, PlainEvents, CalmMsgsSame, PlainQuiet
    <2>7. CASE PortDisable(a)
      <3>1. \E ready : execute_omx_flush(PortsOf(a), PortEvents(Rest, "PortDisable", a, ready))
        BY <2>7, Zenon DEF PortDisable
      <3>2. QED BY <2>3, <2>5, <3>1, EventType
    <2>8. QED BY <1>5, <2>4, <2>6, <2>7
  <1>6. CASE \/ GenerateEvent \/ StartDone \/ PauseDone \/ ResumeDone \/ StopDone
             \/ \E p \in Ports : FlushDone(p)
    <2>1. q' = Rest /\ UNCHANGED refused
      <3>1. ~StopDone
        BY <1>1 DEF StopDone, Answers, Enter, Running
      <3>2. "PAUSE" \notin m_flags
        BY <1>1
      <3>3. QED
        BY <1>6, <3>1, <3>2, Zenon DEF GenerateEvent, StartDone, PauseDone, ResumeDone,
           FlushDone, Answers, history
    <2>2. CalmMsgs /\ UNCHANGED held
      BY <1>6, SignalCalm
    <2>3. /\ Pending /\ Current[1] \notin {"FTB", "ETB", "EBD"}
          /\ Drops(q.cmd, q'.cmd, Current, {})
      BY <1>6, SignalStream
    <2>4. q'.ftb = q.ftb /\ q'.etb = q.etb
      BY <2>1, <2>3, PopRest
    <2>5. QED BY <1>4, <2>1, <2>2, <2>3, <2>4, PlainQuiet
  <1>7. ~empty_this_buffer_proxy /\ ~fill_this_buffer_proxy
    <2>1. ASSUME Take("FTB") PROVE FALSE
      BY <2>1, TakesEntry DEF Take, Quiet
    <2>2. ASSUME Take("ETB") PROVE FALSE
      <3>1. q.etb # <<>> /\ Head(q.etb) \in EtbEntries /\ Head(q.etb)[1] = "ETB"
        BY <2>2, TakesEntry DEF Take
      <3>2. Head(q.etb) \in ToEncode
        BY <3>1, EntryShape DEF ToEncode
      <3>3. Has(q.etb, ToEncode)
        BY <3>1, <3>2, QueuesType, HasTail
      <3>4. QED BY <3>3 DEF Quiet
    <2>3. QED BY <2>1, <2>2 DEF empty_this_buffer_proxy, fill_this_buffer_proxy
  <1>8. CASE BufferDone
    <2>1. UNCHANGED <<msgs, held, refused>>
      BY <1>8, Zenon DEF BufferDone, driver, history
    <2>2. CASE /\ Current[1] = "EBD" /\ q'.cmd = q.cmd /\ q.cmd = <<>> /\ q.etb # <<>>
               /\ Current = Head(q.etb) /\ q'.etb = Tail(q.etb) /\ q'.ftb = q.ftb
      <3>1. Has(q'.etb, ToEncode) => Has(q.etb, ToEncode)
        BY <2>2, QueuesType, HasTail
      <3>2. Grows(q.cmd, q'.cmd, {})
        BY <2>2, GrowsSame
      <3>3. QED BY <1>4, <2>1, <2>2, <3>1, <3>2, CalmMsgsSame, PlainQuiet
    <2>3. CASE /\ q'.etb = q.etb /\ q'.ftb = q.ftb
               /\ Drops(q.cmd, q'.cmd, Current, {})
      BY <1>4, <2>1, <2>3, CalmMsgsSame, PlainQuiet
    <2>4. QED BY <1>8, <2>2, <2>3, BufferDoneStream
  <1>9. CASE async_message_process
    <2>1. UNCHANGED <<held, refused>> /\ q'.ftb = q.ftb
      BY <1>9, AsyncFacts, Zenon DEF async_message_process
    <2>2. Has(q'.etb, ToEncode) => Has(q.etb, ToEncode)
      BY <1>9, AsyncFacts, EtbInserts
    <2>3. \A p \in Ports \ refused' : NeverAhead(Stops, DonesOf(p))'
      BY <1>9, <2>1, MovedFacts DEF Quiet
    <2>4. QED BY <2>1, <2>2, <2>3 DEF Quiet
  <1>10. ASSUME NEW b \in Buffers, FrameDone(b) PROVE Quiet'
    <2>1. /\ b \in held /\ held' = held \ {b} /\ UNCHANGED <<msgs, refused>>
          /\ q' = Post(q, Done(b)) /\ q \in Queues /\ Sized(q)
      BY <1>10, QueuesType DEF FrameDone, history
    <2>2. b[1] \in refused
      BY <2>1 DEF Quiet
    <2>3. Grows(q.cmd, q'.cmd, {Done(b)}) /\ {Done(b)} \intersect Signals = {}
      BY <1>10, FrameDoneStream, KeyFacts
    <2>4. \A p \in Ports \ refused : {Done(b)} \intersect DonesOf(p) = {}
      BY <2>2, DonesFacts
    <2>5. q'.ftb = <<>>
      BY <2>1, PostDone DEF Quiet
    <2>6. Has(q'.etb, ToEncode) => Has(q.etb, ToEncode)
      <3>1. CASE b[1] = "in"
        <4>1. Done(b)[1] = "EBD" /\ Done(b) \in EtbEntries
          BY <3>1, DoneFacts DEF Done
        <4>2. QED BY <2>1, <3>1, <4>1, PostDone, EtbInserts
      <3>2. CASE b[1] = "out"
        BY <2>1, <3>2, PostDone
      <3>3. QED BY <3>1, <3>2, BufferShape DEF Ports
    <2>7. Grows(msgs, msgs', {}) /\ held' \subseteq held
      BY <2>1, GrowsSame
    <2>8. QED BY <2>1, <2>3, <2>4, <2>5, <2>6, <2>7, QuietStays
  <1>11. \A b \in Buffers : ~GiveBuffer(b)
    BY <1>1 DEF GiveBuffer
  <1>12. ASSUME NEW b \in Buffers, AllocateBuffer(b) \/ FreeBuffer(b) PROVE Quiet'
    <2>1. UNCHANGED <<msgs, held, refused>> /\ Grows(q.cmd, q'.cmd, Asides)
      <3>1. CASE AllocateBuffer(b)
        <4>1. UNCHANGED <<msgs, held, refused>>
          BY <3>1, Zenon DEF AllocateBuffer, driver
        <4>2. QED BY <3>1, <4>1, AllocateStream
      <3>2. CASE FreeBuffer(b)
        <4>1. UNCHANGED <<held, refused>>
          BY <3>2, Zenon DEF FreeBuffer, history
        <4>2. QED BY <1>1, <3>2, <4>1, FreeStream
      <3>3. QED BY <1>12, <3>1, <3>2
    <2>2. q'.ftb = q.ftb /\ q'.etb = q.etb
      <3>1. CASE AllocateBuffer(b)
        <4>1. Populated(b) \/ UNCHANGED q
          BY <3>1, AllocateFacts
        <4>2. QED BY <4>1, PopulatedFacts
      <3>2. CASE FreeBuffer(b)
        BY <3>2, FreeFacts, FreedFacts, QueuesType
      <3>3. QED BY <1>12, <3>1, <3>2
    <2>3. QED BY <1>4, <2>1, <2>2, PlainEvents, CalmMsgsSame, PlainQuiet
  <1>13. ASSUME NEW cmd, NEW a, send_command(cmd, a), <<"COMMAND", cmd, a>> \in Commands
         PROVE  Quiet'
    <2>1. /\ Grows(q.cmd, q'.cmd, {<<"COMMAND", cmd, a>>}) /\ q'.ftb = q.ftb /\ q'.etb = q.etb
          /\ UNCHANGED <<msgs, held, refused>>
      BY <1>13, SendFacts DEF send_command, driver, history
    <2>2. {<<"COMMAND", cmd, a>>} \intersect Signals = {} /\ Plain({<<"COMMAND", cmd, a>>})
      BY <1>13, KeyFacts DEF Plain
    <2>3. QED BY <2>1, <2>2, CalmMsgsSame, PlainQuiet
  <1>14. CASE UNCHANGED vars
    BY <1>14, Zenon DEF vars, driver, history, Quiet, NeverAhead
  <1>15. QED
    BY <1>3, <1>5, <1>6, <1>7, <1>8, <1>9, <1>10, <1>11, <1>12, <1>13, <1>14, CommandsType, Zenon
       DEF Next, process_event_cb

LEMMA NextQuiet == TypeOK /\ TokenInv /\ DriverInv /\ QuietInv /\ [Next]_vars => QuietInv'
  <1> SUFFICES ASSUME TypeOK, TokenInv, DriverInv, QuietInv, [Next]_vars,
                      Running', "IDLE" \in m_flags', ~cut', ~failed'
               PROVE  Quiet'
    BY DEF QuietInv
  <1>1. ~cut /\ ~failed /\ DriverFits
    BY CutLasts, FailedLasts DEF DriverInv
  <1>2. CASE RunningToIdle
    BY <1>1, <1>2, RunningToIdleQuiet
  <1>3. CASE ~RunningToIdle
    <2>1. Running /\ "IDLE" \in m_flags
      BY <1>1, <1>3, WasQuiet
    <2>2. Quiet
      BY <1>1, <2>1 DEF QuietInv
    <2>3. QED BY <2>1, <2>2, StaysQuiet
  <1>4. QED BY <1>2, <1>3

LEMMA InitQuiet == Init => QuietInv
  BY DEF Init, QuietInv, Running

(* While a running component is on its way to Idle no buffer is queued for *)
(* the driver, the driver holds none but of ports it would not flush, and  *)
(* no buffer it gave back is behind its STOP_DONE.                         *)
THEOREM QuietCorrect == Spec => []QuietInv
  <1>1. QED
    BY InitQuiet, NextQuiet, TypeCorrect, TokenCorrect, DriverCorrect, PTL DEF Spec

(* The entries of a buffer the driver gave back                            *)
LEMMA EntryIsDone ==
    ASSUME NEW b \in Buffers, NEW m \in EntriesOf(b),
           m \in CmdEntries \/ (m \in EtbEntries /\ m[1] = "EBD")
    PROVE  m \in DonesOf(b[1])
  <1>1. m[1] \in {"ETB", "FTB", "EBD", "FBD"}
    BY EntryOf
  <1>2. \/ m[1] = "FBD" /\ m \in CmdEntries
        \/ m[1] = "EBD" /\ m \in EtbEntries
    BY <1>1, KindFacts
  <1>3. BufferOf(m) = b /\ b = <<m[2], m[3]>>
    BY <1>2, EntryOf DEF BufferOf
  <1>4. \/ m = <<"FBD", "out", m[3]>> /\ BufferOf(m)[1] = "out"
        \/ m = <<"EBD", "in", m[3]>> /\ BufferOf(m)[1] = "in"
    BY <1>2, EntryShape
  <1>5. m = Done(b)
    <2>1. CASE m = <<"FBD", "out", m[3]>> /\ b[1] = "out"
      <3>1. b[2] = m[3]
        BY <1>3
      <3>2. QED BY <2>1, <3>1 DEF Done
    <2>2. CASE m = <<"EBD", "in", m[3]>> /\ b[1] = "in"
      <3>1. b[2] = m[3]
        BY <1>3
      <3>2. QED BY <2>2, <3>1 DEF Done
    <2>3. QED BY <1>3, <1>4, <2>1, <2>2
  <1>6. QED BY <1>5 DEF DonesOf, Of

(* Where a buffer can still be when a stop that is confirmed leaves Idle   *)
LEMMA StopIsQuiet ==
    ASSUME TypeOK, BufferInv, Quiet, StopDone, NEW b \in lent'
    PROVE  b[1] \in refused
  <1> DEFINE E == EntriesOf(b)
             c == q'.cmd
             m == msgs'
  <1>1. TypeOK' /\ BufferInv'
    BY StopDoneType, SignalsBuffer
  <1>2. b \in Buffers /\ Placed(b)' /\ Placed(b)
    BY <1>1 DEF TypeOK, BufferInv
  <1>3. /\ Drops(q.cmd, c, Current, {}) /\ Current \in Stops
        /\ Pending /\ Current[1] \notin {"FTB", "ETB", "EBD"}
        /\ UNCHANGED <<msgs, held>> /\ complete_pending_buffer_done_cbs
    BY SignalStream, EntryFacts DEF StopDone, Take, driver
  <1>4. q'.ftb = Kept(q.ftb) /\ q'.etb = Kept(q.etb)
    BY <1>3, CompleteFacts
  <1>5. /\ q.ftb \in Seq(FtbEntries) /\ q.etb \in Seq(EtbEntries)
        /\ c \in Seq(CmdEntries) /\ m \in Seq(Messages)
    BY <1>1, QueuesType DEF TypeOK
  <1>6. ~Has(Kept(q.ftb), E)
    <2>1. ~Has(q.ftb, E) /\ One(q.ftb, E)
      BY DEF Quiet, Has, One
    <2>2. QED BY <1>2, <1>5, <2>1, KeptBuffers
  <1>7. ~Has(Kept(q.etb), E)
    <2>1. ASSUME NEW n \in DOMAIN q.etb, ~IsDone(q.etb[n]), q.etb[n] \in E PROVE FALSE
      <3>1. q.etb[n] \in EtbEntries
        BY <1>5
      <3>2. q.etb[n][1] = "ETB"
        BY <2>1, <3>1, KindFacts DEF IsDone
      <3>3. q.etb[n] \in ToEncode
        BY <3>1, <3>2, EntryShape DEF ToEncode
      <3>4. QED BY <3>3 DEF Quiet, Has
    <2>2. QED BY <1>5, <2>1, KeptFacts
  <1>8. ASSUME b[1] \notin refused PROVE ~Has(c, DonesOf(b[1])) /\ ~Has(m, DonesOf(b[1]))
    <2>1. NeverAhead(Stops, DonesOf(b[1]))
      BY <1>2, <1>8, BufferShape DEF Quiet
    <2>2. Grows(msgs, msgs', {}) /\ {} \intersect DonesOf(b[1]) = {}
      BY <1>3, GrowsSame
    <2>3. ~InFlight(DonesOf(b[1]))'
      BY <1>3, <2>1, <2>2, TakenFacts
    <2>4. QED BY <2>3 DEF InFlight, DonesOf, Done, Of, Buffers
  <1> HIDE DEF c, m
  <1>9. ASSUME Has(c, E) PROVE Has(c, DonesOf(b[1]))
    <2>1. PICK n \in DOMAIN c : c[n] \in E
      BY <1>9 DEF Has
    <2>2. c[n] \in CmdEntries
      BY <1>5
    <2>3. c[n] \in DonesOf(b[1])
      BY <1>2, <2>1, <2>2, EntryIsDone
    <2>4. QED BY <2>3 DEF Has
  <1>10. ASSUME Has(m, E) PROVE Has(m, DonesOf(b[1]))
    <2>1. PICK n \in DOMAIN m : m[n] \in E
      BY <1>10 DEF Has
    <2>2. m[n] \in Messages
      BY <1>5
    <2>3. m[n] \in DonesOf(b[1])
      BY <1>2, <2>1, <2>2, MessageShape, EntryIsDone
    <2>4. QED BY <2>3 DEF Has
  <1>11. ASSUME b \in held' PROVE b[1] \in refused
    BY <1>3, <1>11 DEF Quiet
  <1> HIDE DEF E
  <1>12. Has(c, E) \/ Has(m, E) \/ b \in held'
    <2>1. b \in lent' => \/ Has(q'.cmd, E) \/ Has(q'.ftb, E) \/ Has(q'.etb, E)
                         \/ Has(msgs', E) \/ b \in held'
      BY <1>2 DEF Placed, E
    <2>2. QED BY <1>4, <1>6, <1>7, <2>1 DEF c, m
  <1>13. QED BY <1>8, <1>9, <1>10, <1>11, <1>12

LEMMA EntersQuiet ==
    ASSUME TypeOK, TokenInv, DriverInv, QuietInv, BufferInv, [Next]_vars,
           Running, m_state' = "Idle", ~cut, ~failed
    PROVE  drv' = "stopped" /\ \A b \in lent' : b[1] \in refused
  <1>1. DriverFits
    BY DEF DriverInv
  <1>2. m_state' # m_state
    BY DEF Running
  <1>3. ~StartDone /\ ~PauseDone /\ ~ResumeDone
    BY <1>2 DEF StartDone, PauseDone, ResumeDone, Enter, PauseAfterStart
  <1>4. ~(Current = Event("StateSet", m_state') /\ Drops(q.cmd, q'.cmd, Current, {}))
    <2>1. Event("StateSet", "Idle") \in StateEvents
      BY DEF Event, StateEvents, States
    <2>2. ~Has(q.cmd, StateEvents)
      BY <1>1 DEF DriverFits, EventsFit
    <2>3. QED BY <2>1, <2>2 DEF Drops
  <1>5. StopDone
    BY <1>2, <1>3, <1>4, StateChanges
  <1>6. "IDLE" \in m_flags
    BY <1>2, <1>5 DEF StopDone, Answers
  <1>7. /\ Drops(q.cmd, q'.cmd, Current, {}) /\ Current \in Stops
        /\ drv' = drv
    BY <1>5, SignalStream, EntryFacts DEF StopDone, Take, driver
  <1>8. drv = "stopped"
    <2>1. InFlight(Stops)
      BY <1>7 DEF Drops, InFlight
    <2>2. QED BY <1>1, <2>1 DEF DriverFits, RunningFits
  <1>9. Quiet
    BY <1>6 DEF QuietInv
  <1>10. QED BY <1>5, <1>7, <1>8, <1>9, StopIsQuiet

(* A component that went from Executing or Pause to Idle has given every   *)
(* buffer back and its driver is stopped, unless the driver would not      *)
(* flush the buffer's port, or it failed to do what it had accepted, or    *)
(* buffers answered for the command: as long as no queue was full, for     *)
(* then insert_entry drops a buffer.                                       *)
THEOREM IdleIsQuietHolds == Spec /\ []NeverFull => IdleIsQuiet
  <1>1. TypeOK /\ TokenInv /\ DriverInv /\ QuietInv /\ BufferInv /\ [Next]_vars
          => [Running /\ m_state' = "Idle" /\ ~cut /\ ~failed
                => drv' = "stopped" /\ \A b \in lent' : b[1] \in refused]_vars
    BY EntersQuiet
  <1>2. QED
    BY <1>1, TypeCorrect, TokenCorrect, DriverCorrect, QuietCorrect, BufferCorrect, PTL
       DEF Spec, IdleIsQuiet
-----------------------------------------------------------------------------
(* How full the queues get.  A command, an event that a pending bit stands *)
(* for, a message of the driver and a buffer it has are each an entry to   *)
(* come.                                                                   *)
Bit(c) == IF c THEN 1 ELSE 0
Total(qq) == Len(qq.cmd) + Len(qq.ftb) + Len(qq.etb)
Fill == Total(q) + Len(msgs) + Cardinality(held) - Cardinality(lent)

StateOwed(f) == Bit("IDLE" \in f) + 2 * Bit("LOADING" \in f)
PortOwed(f) == Bit("ENABLE" \in f) + Bit("DISABLE" \in f)
Owed == StateOwed(m_flags) + PortOwed(portFlags["in"]) + PortOwed(portFlags["out"])

(* A command is one entry, and its handler may leave three more.           *)
LoadInv == Fill + Owed + 3 * Bit(waiting) <= 4 * cmds

LEMMA CountBuffers ==
    ASSUME NEW B \in SUBSET Buffers
    PROVE  IsFiniteSet(B) /\ Cardinality(B) \in Nat
  <1>1. IsFiniteSet(Ports)
    <2>1. IsFiniteSet({"in"}) /\ IsFiniteSet({"out"})
      BY FS_Singleton
    <2>2. Ports = {"in"} \union {"out"}
      BY DEF Ports
    <2>3. QED BY <2>1, <2>2, FS_Union
  <1>2. IsFiniteSet(Buffers)
    BY <1>1, SlotsAssumption, FS_Product DEF Buffers
  <1>3. IsFiniteSet(B)
    BY <1>2, FS_Subset
  <1>4. QED BY <1>3, FS_CardinalityType

LEMMA TotalIs ==
    ASSUME NEW qq \in Queues
    PROVE  \E a, b, c \in Nat : /\ Len(qq.cmd) = a /\ Len(qq.ftb) = b /\ Len(qq.etb) = c
                                /\ Total(qq) = a + b + c
  <1>1. qq.cmd \in Seq(CmdEntries) /\ qq.ftb \in Seq(FtbEntries) /\ qq.etb \in Seq(EtbEntries)
    BY DEF Queues
  <1>2. Len(qq.cmd) \in Nat /\ Len(qq.ftb) \in Nat /\ Len(qq.etb) \in Nat
    BY <1>1
  <1>3. Total(qq) = Len(qq.cmd) + Len(qq.ftb) + Len(qq.etb)
    BY Zenon DEF Total
  <1>4. QED BY <1>2, <1>3, Zenon

LEMMA TotalType ==
    ASSUME NEW qq \in Queues
    PROVE  /\ Len(qq.cmd) \in Nat /\ Len(qq.ftb) \in Nat /\ Len(qq.etb) \in Nat
           /\ Total(qq) \in Nat
  <1>1. PICK a, b, c \in Nat : /\ Len(qq.cmd) = a /\ Len(qq.ftb) = b /\ Len(qq.etb) = c
                               /\ Total(qq) = a + b + c
    BY TotalIs
  <1>2. a + b + c \in Nat
    OBVIOUS
  <1>3. QED BY <1>1, <1>2, Zenon

LEMMA OwedType ==
    /\ \A c : Bit(c) \in 0..1
    /\ \A f : StateOwed(f) \in Nat /\ PortOwed(f) \in Nat
    /\ Owed \in Nat
  <1>1. \A c : Bit(c) \in 0..1
    BY DEF Bit
  <1>2. \A f : StateOwed(f) \in Nat /\ PortOwed(f) \in Nat
    BY <1>1 DEF StateOwed, PortOwed
  <1>3. QED BY <1>1, <1>2 DEF Owed

LEMMA LoadType ==
    ASSUME TypeOK
    PROVE  /\ q \in Queues /\ Total(q) \in Nat /\ Len(msgs) \in Nat
           /\ Cardinality(held) \in Nat /\ Cardinality(lent) \in Nat
           /\ IsFiniteSet(held) /\ IsFiniteSet(lent) /\ Fill \in Int
  <1>1. q \in Queues /\ Total(q) \in Nat
    BY QueuesType, TotalType
  <1>2. msgs \in Seq(Messages) /\ held \in SUBSET Buffers /\ lent \in SUBSET Buffers
    BY DEF TypeOK
  <1>3. Len(msgs) \in Nat
    BY <1>2
  <1>4. /\ Cardinality(held) \in Nat /\ Cardinality(lent) \in Nat
        /\ IsFiniteSet(held) /\ IsFiniteSet(lent)
    BY <1>2, CountBuffers
  <1>5. QED BY <1>1, <1>3, <1>4 DEF Fill

LEMMA InsertLength ==
    ASSUME NEW S, NEW s \in Seq(S), NEW x \in S
    PROVE  Len(Insert(s, x)) \in Nat /\ Len(Insert(s, x)) <= Len(s) + 1
  <1>1. Len(s) \in Nat /\ Len(Append(s, x)) = Len(s) + 1
    BY AppendFacts
  <1>2. QED BY <1>1 DEF Insert

LEMMA TotalMore ==
    ASSUME NEW qq \in Queues, NEW rr \in Queues,
           \/ /\ Len(rr.cmd) <= Len(qq.cmd) + 1 /\ rr.ftb = qq.ftb /\ rr.etb = qq.etb
           \/ /\ Len(rr.ftb) <= Len(qq.ftb) + 1 /\ rr.cmd = qq.cmd /\ rr.etb = qq.etb
           \/ /\ Len(rr.etb) <= Len(qq.etb) + 1 /\ rr.cmd = qq.cmd /\ rr.ftb = qq.ftb
    PROVE  Total(rr) <= Total(qq) + 1
  <1>1. PICK a, b, c \in Nat : /\ Len(qq.cmd) = a /\ Len(qq.ftb) = b /\ Len(qq.etb) = c
                               /\ Total(qq) = a + b + c
    BY TotalIs
  <1>2. PICK x, y, z \in Nat : /\ Len(rr.cmd) = x /\ Len(rr.ftb) = y /\ Len(rr.etb) = z
                               /\ Total(rr) = x + y + z
    BY TotalIs
  <1>3. \/ x <= a + 1 /\ y = b /\ z = c
        \/ y <= b + 1 /\ x = a /\ z = c
        \/ z <= c + 1 /\ x = a /\ y = b
    BY <1>1, <1>2, Zenon
  <1>4. QED BY <1>1, <1>2, <1>3

LEMMA PostTotal ==
    ASSUME NEW qq \in Queues, NEW x \in CmdEntries \union FtbEntries \union EtbEntries
    PROVE  /\ Post(qq, x) \in Queues /\ Total(Post(qq, x)) \in Nat
           /\ Total(Post(qq, x)) <= Total(qq) + 1
  <1>1. qq.cmd \in Seq(CmdEntries) /\ qq.ftb \in Seq(FtbEntries) /\ qq.etb \in Seq(EtbEntries)
    BY DEF Queues
  <1>2. Post(qq, x) \in Queues
    BY PostCmd, PostFtb, PostEtb
  <1>3. Total(Post(qq, x)) \in Nat
    BY <1>2, TotalType
  <1>4. CASE x \in CmdEntries
    <2>1. /\ Post(qq, x).cmd = Insert(qq.cmd, x)
          /\ Post(qq, x).ftb = qq.ftb /\ Post(qq, x).etb = qq.etb
      BY <1>4, PostCmd
    <2>2. Len(Insert(qq.cmd, x)) \in Nat /\ Len(Insert(qq.cmd, x)) <= Len(qq.cmd) + 1
      BY <1>1, <1>4, InsertLength
    <2>3. QED BY <1>2, <1>3, <2>1, <2>2, TotalMore
  <1>5. CASE x \in FtbEntries
    <2>1. /\ Post(qq, x).ftb = Insert(qq.ftb, x)
          /\ Post(qq, x).cmd = qq.cmd /\ Post(qq, x).etb = qq.etb
      BY <1>5, PostFtb
    <2>2. Len(Insert(qq.ftb, x)) \in Nat /\ Len(Insert(qq.ftb, x)) <= Len(qq.ftb) + 1
      BY <1>1, <1>5, InsertLength
    <2>3. QED BY <1>2, <1>3, <2>1, <2>2, TotalMore
  <1>6. CASE x \in EtbEntries
    <2>1. /\ Post(qq, x).etb = Insert(qq.etb, x)
          /\ Post(qq, x).cmd = qq.cmd /\ Post(qq, x).ftb = qq.ftb
      BY <1>6, PostEtb
    <2>2. Len(Insert(qq.etb, x)) \in Nat /\ Len(Insert(qq.etb, x)) <= Len(qq.etb) + 1
      BY <1>1, <1>6, InsertLength
    <2>3. QED BY <1>2, <1>3, <2>1, <2>2, TotalMore
  <1>7. QED BY <1>2, <1>3, <1>4, <1>5, <1>6

LEMMA PostIfTotal ==
    ASSUME NEW qq \in Queues, NEW x \in CmdEntries, NEW c
    PROVE  /\ PostIf(qq, c, x) \in Queues /\ Total(PostIf(qq, c, x)) \in Nat
           /\ Total(PostIf(qq, c, x)) <= Total(qq) + Bit(c)
  <1>1. PostIf(qq, c, x) \in Queues /\ Total(PostIf(qq, c, x)) \in Nat
    BY PostIfCmd, TotalType
  <1>2. CASE c
    BY <1>1, <1>2, PostTotal DEF PostIf, Bit
  <1>3. CASE ~c
    BY <1>1, <1>3, TotalType DEF PostIf, Bit
  <1>4. QED BY <1>1, <1>2, <1>3

LEMMA PortEventsTotal ==
    ASSUME NEW qq \in Queues, NEW cmd \in {"PortEnable", "PortDisable"}, NEW a \in Named,
           NEW ready
    PROVE  LET all == PortEvents(qq, cmd, a, ready)
           IN /\ all \in Queues /\ Total(all) \in Nat
              /\ Total(all) <= Total(qq) + Bit("in" \in ready) + Bit("out" \in ready)
                               + Bit(ready = PortsOf(a))
  <1> DEFINE first == PostIf(qq, "in" \in ready, Event(cmd, "in"))
             both == PostIf(first, "out" \in ready, Event(cmd, "out"))
             full == ready = PortsOf(a)
             all == PostIf(both, full, Event(cmd, a))
  <1>1. Event(cmd, "in") \in CmdEntries /\ Event(cmd, "out") \in CmdEntries
        /\ Event(cmd, a) \in CmdEntries
    BY EventType DEF Ports
  <1>2. first \in Queues /\ Total(first) \in Nat /\ Total(first) <= Total(qq) + Bit("in" \in ready)
    BY <1>1, PostIfTotal
  <1> HIDE DEF first
  <1>3. both \in Queues /\ Total(both) \in Nat /\ Total(both) <= Total(first) + Bit("out" \in ready)
    BY <1>1, <1>2, PostIfTotal
  <1> HIDE DEF both, full
  <1>4. all \in Queues /\ Total(all) \in Nat /\ Total(all) <= Total(both) + Bit(full)
    BY <1>1, <1>3, PostIfTotal
  <1> HIDE DEF all
  <1>5. Total(all) <= Total(qq) + Bit("in" \in ready) + Bit("out" \in ready) + Bit(full)
    BY <1>2, <1>3, <1>4, OwedType, TotalType
  <1>6. PortEvents(qq, cmd, a, ready) = all
    BY DEF PortEvents, all, full, both, first
  <1>7. QED BY <1>4, <1>5, <1>6 DEF full

LEMMA TotalLess ==
    ASSUME NEW qq \in Queues, NEW rr \in Queues,
           \/ /\ Len(rr.cmd) = Len(qq.cmd) - 1 /\ rr.ftb = qq.ftb /\ rr.etb = qq.etb
           \/ /\ Len(rr.ftb) = Len(qq.ftb) - 1 /\ rr.cmd = qq.cmd /\ rr.etb = qq.etb
           \/ /\ Len(rr.etb) = Len(qq.etb) - 1 /\ rr.cmd = qq.cmd /\ rr.ftb = qq.ftb
    PROVE  Total(rr) = Total(qq) - 1
  <1>1. PICK a, b, c \in Nat : /\ Len(qq.cmd) = a /\ Len(qq.ftb) = b /\ Len(qq.etb) = c
                               /\ Total(qq) = a + b + c
    BY TotalIs
  <1>2. PICK x, y, z \in Nat : /\ Len(rr.cmd) = x /\ Len(rr.ftb) = y /\ Len(rr.etb) = z
                               /\ Total(rr) = x + y + z
    BY TotalIs
  <1>3. \/ x = a - 1 /\ y = b /\ z = c
        \/ y = b - 1 /\ x = a /\ z = c
        \/ z = c - 1 /\ x = a /\ y = b
    BY <1>1, <1>2, Zenon
  <1>4. QED BY <1>1, <1>2, <1>3

LEMMA RestTotal ==
    ASSUME TypeOK, Pending
    PROVE  Rest \in Queues /\ Total(Rest) \in Nat /\ Total(Rest) = Total(q) - 1
  <1>1. q.cmd \in Seq(CmdEntries) /\ q.ftb \in Seq(FtbEntries) /\ q.etb \in Seq(EtbEntries)
    BY QueuesType
  <1>2. /\ q.cmd # <<>> => Len(Tail(q.cmd)) = Len(q.cmd) - 1
        /\ q.ftb # <<>> => Len(Tail(q.ftb)) = Len(q.ftb) - 1
        /\ q.etb # <<>> => Len(Tail(q.etb)) = Len(q.etb) - 1
    BY <1>1, TailFacts
  <1>3. Rest \in Queues /\ q \in Queues /\ Total(Rest) \in Nat
    BY RestFacts, QueuesType, TotalType
  <1>4. \/ /\ Len(Rest.cmd) = Len(q.cmd) - 1 /\ Rest.ftb = q.ftb /\ Rest.etb = q.etb
        \/ /\ Len(Rest.ftb) = Len(q.ftb) - 1 /\ Rest.cmd = q.cmd /\ Rest.etb = q.etb
        \/ /\ Len(Rest.etb) = Len(q.etb) - 1 /\ Rest.cmd = q.cmd /\ Rest.ftb = q.ftb
    BY RestFacts, <1>2
  <1>5. QED BY <1>3, <1>4, TotalLess

(* How many buffers a queue names, and complete_pending_buffer_done_cbs    *)
(* takes from one.                                                         *)
LEMMA NamedCount ==
    ASSUME NEW S, NEW s \in Seq(S), NEW I \in SUBSET (DOMAIN s)
    PROVE  /\ IsFiniteSet(I) /\ Cardinality(I) \in Nat
           /\ IsFiniteSet({BufferOf(s[i]) : i \in I})
           /\ Cardinality({BufferOf(s[i]) : i \in I}) \in Nat
           /\ Cardinality({BufferOf(s[i]) : i \in I}) <= Cardinality(I)
           /\ Cardinality(I) + Cardinality((DOMAIN s) \ I) = Len(s)
  <1> DEFINE B == {BufferOf(s[i]) : i \in I}
             f == [i \in I |-> BufferOf(s[i])]
             n == Len(s)
  <1>1. n \in Nat /\ DOMAIN s = 1..n
    OBVIOUS
  <1> HIDE DEF n
  <1>a. IsFiniteSet(1..n) /\ Cardinality(1..n) = n
    BY <1>1, FS_Interval
  <1>2. IsFiniteSet(DOMAIN s) /\ Cardinality(DOMAIN s) = n
    BY <1>1, <1>a, Zenon
  <1>3. IsFiniteSet(I) /\ Cardinality(I) \in Nat
    BY <1>2, FS_Subset, FS_CardinalityType
  <1>4. f \in Surjection(I, B)
    BY DEF Surjection
  <1> HIDE DEF f
  <1>5. IsFiniteSet(B) /\ Cardinality(B) <= Cardinality(I)
    BY <1>3, <1>4, FS_Surjection
  <1>6. Cardinality(B) \in Nat
    BY <1>5, FS_CardinalityType
  <1>7. Cardinality((DOMAIN s) \ I) = n - Cardinality(I)
    <2>1. (DOMAIN s) \cap I = I
      OBVIOUS
    <2>2. QED BY <1>2, <2>1, FS_Difference
  <1>8. QED BY <1>1, <1>3, <1>5, <1>6, <1>7 DEF n

LEMMA KeptCount ==
    ASSUME NEW S, NEW s \in Seq(S)
    PROVE  /\ IsFiniteSet(DoneIn(s)) /\ Cardinality(DoneIn(s)) \in Nat /\ Len(Kept(s)) \in Nat
           /\ Len(Kept(s)) + Cardinality(DoneIn(s)) <= Len(s)
  <1> DEFINE left == {i \in DOMAIN s : ~IsDone(s[i])}
             done == {i \in DOMAIN s : IsDone(s[i])}
             nth(n) == CHOOSE i \in left : Cardinality({j \in left : j <= i}) = n
  <1>1. done = (DOMAIN s) \ left
    OBVIOUS
  <1>2. Len(s) \in Nat
    OBVIOUS
  <1>3. Cardinality(left) \in Nat /\ Cardinality(left) + Cardinality(done) = Len(s)
    BY <1>1, NamedCount
  <1>4. /\ IsFiniteSet(DoneIn(s)) /\ Cardinality(DoneIn(s)) \in Nat /\ Cardinality(done) \in Nat
        /\ Cardinality(DoneIn(s)) <= Cardinality(done)
    BY NamedCount DEF DoneIn
  <1>5. Kept(s) = [n \in 1..Cardinality(left) |-> s[nth(n)]]
    BY DEF Kept
  <1> HIDE DEF left, nth, done
  <1>6. Len(Kept(s)) = Cardinality(left)
    BY <1>3, <1>5
  <1>7. QED BY <1>2, <1>3, <1>4, <1>6

LEMMA LessBuffers ==
    ASSUME NEW L, NEW R, IsFiniteSet(L), IsFiniteSet(R)
    PROVE  Cardinality(L) <= Cardinality(L \ R) + Cardinality(R)
  <1>1. Cardinality(L \ R) = Cardinality(L) - Cardinality(L \cap R)
    BY FS_Difference
  <1>2. IsFiniteSet(L \cap R) /\ Cardinality(L \cap R) <= Cardinality(R)
    BY FS_Intersection
  <1>3. /\ Cardinality(L) \in Nat /\ Cardinality(R) \in Nat
        /\ Cardinality(L \cap R) \in Nat
    BY <1>2, FS_CardinalityType
  <1>4. QED BY <1>1, <1>2, <1>3

(* One port after the other is taken from a set of buffers.                *)
LEMMA LessTwice ==
    ASSUME NEW L, NEW R, NEW T, IsFiniteSet(L), IsFiniteSet(R), IsFiniteSet(T)
    PROVE  Cardinality(L) <= Cardinality(L \ (R \union T)) + Cardinality(R) + Cardinality(T)
  <1>1. IsFiniteSet(L \ R) /\ (L \ R) \ T = L \ (R \union T)
    BY FS_Difference
  <1>2. IsFiniteSet(L \ (R \union T))
    BY FS_Difference
  <1>3. /\ Cardinality(L) <= Cardinality(L \ R) + Cardinality(R)
        /\ Cardinality(L \ R) <= Cardinality(L \ (R \union T)) + Cardinality(T)
    BY <1>1, LessBuffers
  <1>4. /\ Cardinality(L) \in Nat /\ Cardinality(R) \in Nat /\ Cardinality(T) \in Nat
        /\ Cardinality(L \ R) \in Nat /\ Cardinality(L \ (R \union T)) \in Nat
    BY <1>1, <1>2, FS_CardinalityType
  <1>5. QED BY <1>3, <1>4

LEMMA SetToSeqLength ==
    ASSUME NEW S, IsFiniteSet(S)
    PROVE  SetToSeq(S) \in Seq(S) /\ Len(SetToSeq(S)) = Cardinality(S)
  <1> DEFINE C == Cardinality(S)
             f == SetToSeq(S)
  <1>1. C \in Nat /\ ExistsBijection(1..C, S)
    BY FS_CardinalityType
  <1>2. PICK g : g \in Bijection(1..C, S)
    BY <1>1 DEF ExistsBijection
  <1>3. g \in [1..C -> S] /\ IsInjective(g)
    BY <1>2 DEF Bijection, Injection
  <1>4. f \in [1..C -> S]
    BY <1>3 DEF SetToSeq
  <1> HIDE DEF f, C
  <1>5. f \in Seq(S) /\ Len(f) = C
    BY <1>1, <1>4
  <1>6. QED BY <1>5 DEF f, C

LEMMA FlushReplyLength ==
    ASSUME held \subseteq Buffers, NEW p \in Ports, NEW did
    PROVE  /\ FlushReply(p, did) \in Seq(Messages) /\ Len(FlushReply(p, did)) \in Nat
           /\ Len(FlushReply(p, did)) <= Cardinality(IF p \in did THEN held \intersect Of(p) ELSE {}) + 1
  <1> DEFINE B == IF p \in did THEN held \intersect Of(p) ELSE {}
             D == {Done(b) : b \in B}
             f == [b \in B |-> Done(b)]
             flushed == <<"FLUSH_DONE", p, Status(p \in did)>>
  <1>1. B \in SUBSET Buffers /\ D \subseteq Messages
    BY DoneFacts
  <1>2. IsFiniteSet(B) /\ Cardinality(B) \in Nat
    BY <1>1, CountBuffers
  <1>3. f \in Surjection(B, D)
    BY DEF Surjection
  <1> HIDE DEF f
  <1>4. IsFiniteSet(D) /\ Cardinality(D) <= Cardinality(B)
    BY <1>2, <1>3, FS_Surjection
  <1>5. Cardinality(D) \in Nat
    BY <1>4, FS_CardinalityType
  <1>6. flushed \in Messages
    BY DEF Messages, Signals, Status
  <1>7. FlushReply(p, did) = Append(SetToSeq(D), flushed)
    BY DEF FlushReply
  <1> HIDE DEF D, B, flushed
  <1>8. SetToSeq(D) \in Seq(Messages) /\ Len(SetToSeq(D)) = Cardinality(D)
    BY <1>1, <1>4, SetToSeqLength
  <1>9. /\ Append(SetToSeq(D), flushed) \in Seq(Messages)
        /\ Len(Append(SetToSeq(D), flushed)) = Cardinality(D) + 1
    BY <1>6, <1>8, AppendFacts
  <1>10. Cardinality(D) + 1 \in Nat /\ Cardinality(D) + 1 <= Cardinality(B) + 1
    BY <1>2, <1>4, <1>5
  <1>11. QED BY <1>7, <1>9, <1>10, Zenon DEF B

(* dev_flush: a message for each buffer the driver had, and one for each   *)
(* port.                                                                   *)
LEMMA DevFlushLoad ==
    ASSUME TypeOK, NEW P \in SUBSET Ports, NEW ok \in SUBSET P, NEW did \in SUBSET P, dev_flush(P, ok, did)
    PROVE  /\ Len(msgs') \in Nat /\ Cardinality(held') \in Nat
           /\ Len(msgs') + Cardinality(held') <= Len(msgs) + Cardinality(held) + 2
  <1> DEFINE R(p) == IF p \in ok THEN FlushReply(p, did) ELSE <<>>
             G(p) == IF p \in did THEN held \intersect Of(p) ELSE {}
  <1>1. held \subseteq Buffers /\ msgs \in Seq(Messages) /\ Len(msgs) \in Nat
    BY DEF TypeOK
  <1>2. ASSUME NEW p \in Ports
        PROVE  /\ R(p) \in Seq(Messages) /\ Len(R(p)) \in Nat
               /\ IsFiniteSet(G(p)) /\ Cardinality(G(p)) \in Nat
               /\ Len(R(p)) <= Cardinality(G(p)) + 1
    <2>1. G(p) \in SUBSET Buffers
      BY <1>1
    <2>2. IsFiniteSet(G(p)) /\ Cardinality(G(p)) \in Nat
      BY <2>1, CountBuffers
    <2>3. CASE p \in ok
      <3>1. R(p) = FlushReply(p, did)
        BY <2>3
      <3>2. /\ FlushReply(p, did) \in Seq(Messages) /\ Len(FlushReply(p, did)) \in Nat
            /\ Len(FlushReply(p, did)) <= Cardinality(G(p)) + 1
        BY <1>1, FlushReplyLength
      <3> HIDE DEF R, G
      <3>3. QED BY <2>2, <3>1, <3>2
    <2>4. CASE p \notin ok
      <3>1. R(p) = <<>>
        BY <2>4
      <3>2. <<>> \in Seq(Messages) /\ Len(<<>>) = 0
        OBVIOUS
      <3> HIDE DEF R, G
      <3>3. QED BY <2>2, <3>1, <3>2
    <2>5. QED BY <2>3, <2>4
  <1>3. msgs' = (msgs \o R("in")) \o R("out")
    BY DEF dev_flush
  <1>4. held' = held \ (G("in") \union G("out")) /\ G("in") \intersect G("out") = {}
    <2>1. held' = {b \in held : b[1] \notin did}
      BY DEF dev_flush
    <2>2. \A b \in held : b[1] = "in" \/ b[1] = "out"
      BY <1>1, BufferShape DEF Ports
    <2>3. \A b \in held : b \in G("in") \union G("out") <=> b[1] \in did
      BY <1>1, <2>2 DEF Of
    <2>4. G("in") \intersect G("out") = {}
      BY DEF Of
    <2>5. QED BY <2>1, <2>3, <2>4
  <1>5. G("in") \union G("out") \subseteq held
    OBVIOUS
  <1>6. "in" \in Ports /\ "out" \in Ports
    BY DEF Ports
  <1> HIDE DEF R, G
  <1>7. /\ msgs \o R("in") \in Seq(Messages)
        /\ Len(msgs \o R("in")) = Len(msgs) + Len(R("in"))
        /\ Len((msgs \o R("in")) \o R("out")) = Len(msgs \o R("in")) + Len(R("out"))
    BY <1>1, <1>2, <1>6, ConcatProperties
  <1>8. Len(msgs') = Len(msgs) + Len(R("in")) + Len(R("out"))
    BY <1>3, <1>7
  <1>9. Cardinality(G("in") \union G("out")) = Cardinality(G("in")) + Cardinality(G("out"))
    <2>1. Cardinality(G("in") \union G("out"))
              = Cardinality(G("in")) + Cardinality(G("out")) - Cardinality(G("in") \cap G("out"))
      BY <1>2, <1>6, FS_Union
    <2>2. Cardinality(G("in") \cap G("out")) = 0
      BY <1>4, FS_EmptySet
    <2>3. QED BY <1>2, <1>6, <2>1, <2>2
  <1>10. IsFiniteSet(held) /\ Cardinality(held) \in Nat
    BY LoadType
  <1>11. Cardinality(held') = Cardinality(held) - Cardinality(G("in") \union G("out"))
    <2>1. held \cap (G("in") \union G("out")) = G("in") \union G("out")
      BY <1>5
    <2>2. QED BY <1>4, <1>10, <2>1, FS_Difference
  <1>12. Cardinality(held') \in Nat
    BY <1>4, <1>10, FS_Difference, FS_CardinalityType
  <1>13. QED
    BY <1>1, <1>2, <1>6, <1>8, <1>9, <1>10, <1>11, <1>12

(* The other calls send one message at most.                               *)
LEMMA DeviceLoad ==
    ASSUME TypeOK, NEW ok \in BOOLEAN,
           dev_start(ok) \/ dev_pause(ok) \/ dev_resume(ok) \/ dev_stop(ok)
    PROVE  Len(msgs') \in Nat /\ Len(msgs') <= Len(msgs) + 1
  <1>1. \/ msgs' = msgs
        \/ \E m \in {"START_DONE", "PAUSE_DONE", "RESUME_DONE", "STOP_DONE"}, did \in BOOLEAN :
              msgs' = Append(msgs, <<m, "", Status(did)>>)
    BY Zenon DEF dev_start, dev_pause, dev_resume, dev_stop, Ioctl
  <1>2. msgs \in Seq(Messages) /\ Len(msgs) \in Nat
    BY LoadType DEF TypeOK
  <1>3. CASE msgs' = msgs
    BY <1>2, <1>3
  <1>4. ASSUME NEW m \in {"START_DONE", "PAUSE_DONE", "RESUME_DONE", "STOP_DONE"},
               NEW did \in BOOLEAN, msgs' = Append(msgs, <<m, "", Status(did)>>)
        PROVE  Len(msgs') \in Nat /\ Len(msgs') <= Len(msgs) + 1
    <2> DEFINE x == <<m, "", Status(did)>>
    <2>1. x \in Messages
      BY DEF Messages, Signals, Status
    <2> HIDE DEF x
    <2>2. Len(Append(msgs, x)) = Len(msgs) + 1
      BY <1>2, <2>1, AppendFacts
    <2>3. msgs' = Append(msgs, x)
      BY <1>4, Zenon DEF x
    <2>4. QED BY <1>2, <2>2, <2>3
  <1>5. QED BY <1>1, <1>3, <1>4

(* execute_omx_flush: what the queues lose the client gets.                *)
LEMMA OmxFlushLoad ==
    ASSUME TypeOK, NEW P \in SUBSET Ports, NEW qq \in Queues, execute_omx_flush(P, qq)
    PROVE  Fill' <= Total(qq) + Len(msgs) + Cardinality(held) - Cardinality(lent) + 2
  <1> DEFINE Bf == IF "out" \in P THEN BuffersIn(qq.ftb) ELSE {}
             Be == IF "in" \in P THEN BuffersIn(qq.etb) ELSE {}
             qf == IF "out" \in P THEN <<>> ELSE qq.ftb
             qe == IF "in" \in P THEN <<>> ELSE qq.etb
  <1>1. /\ q' \in Queues /\ q'.cmd = qq.cmd /\ q'.ftb = qf /\ q'.etb = qe
        /\ lent' = lent \ (Bf \union Be)
        /\ \E ok, did \in SUBSET P : dev_flush(P, ok, did)
    BY FlushFacts
  <1>2. qq.ftb \in Seq(FtbEntries) /\ qq.etb \in Seq(EtbEntries)
    BY DEF Queues
  <1>3. ASSUME NEW S, NEW s \in Seq(S)
        PROVE  /\ IsFiniteSet(BuffersIn(s)) /\ Cardinality(BuffersIn(s)) \in Nat
               /\ Cardinality(BuffersIn(s)) <= Len(s) /\ Len(s) \in Nat
    <2>1. Len(s) \in Nat /\ DOMAIN s = 1..Len(s)
      OBVIOUS
    <2>2. DOMAIN s \in SUBSET (DOMAIN s) /\ (DOMAIN s) \ (DOMAIN s) = {} /\ Cardinality({}) = 0
      BY FS_EmptySet
    <2> DEFINE I == DOMAIN s
               B == {BufferOf(s[i]) : i \in I}
    <2>3. I \in SUBSET (DOMAIN s) /\ (DOMAIN s) \ I = {}
      BY <2>2
    <2>4. BuffersIn(s) = B
      BY DEF BuffersIn
    <2> HIDE DEF I
    <2>5. /\ IsFiniteSet(B) /\ Cardinality(B) \in Nat /\ Cardinality(B) <= Cardinality(I)
          /\ Cardinality(I) \in Nat
          /\ Cardinality(I) + Cardinality((DOMAIN s) \ I) = Len(s)
      BY <2>3, NamedCount
    <2> HIDE DEF B
    <2>6. Cardinality((DOMAIN s) \ I) = 0
      BY <2>2, <2>3
    <2> DEFINE n == Len(s)
               k == Cardinality(I)
    <2>7. n \in Nat /\ k \in Nat /\ k + 0 = n
      BY <2>1, <2>5, <2>6
    <2> HIDE DEF n, k
    <2>8. k = n
      BY <2>7
    <2>9. QED BY <2>1, <2>4, <2>5, <2>8, Zenon DEF n, k
  <1>4. /\ IsFiniteSet(Bf) /\ Cardinality(Bf) \in Nat
        /\ Len(qf) \in Nat /\ Len(qf) + Cardinality(Bf) <= Len(qq.ftb)
    <2>1. IsFiniteSet({}) /\ Cardinality({}) = 0 /\ Len(<<>>) = 0
      BY FS_EmptySet
    <2>2. /\ IsFiniteSet(BuffersIn(qq.ftb)) /\ Cardinality(BuffersIn(qq.ftb)) \in Nat
          /\ Cardinality(BuffersIn(qq.ftb)) <= Len(qq.ftb) /\ Len(qq.ftb) \in Nat
      BY <1>2, <1>3
    <2>3. QED BY <2>1, <2>2
  <1>5. /\ IsFiniteSet(Be) /\ Cardinality(Be) \in Nat
        /\ Len(qe) \in Nat /\ Len(qe) + Cardinality(Be) <= Len(qq.etb)
    <2>1. IsFiniteSet({}) /\ Cardinality({}) = 0 /\ Len(<<>>) = 0
      BY FS_EmptySet
    <2>2. /\ IsFiniteSet(BuffersIn(qq.etb)) /\ Cardinality(BuffersIn(qq.etb)) \in Nat
          /\ Cardinality(BuffersIn(qq.etb)) <= Len(qq.etb) /\ Len(qq.etb) \in Nat
      BY <1>2, <1>3
    <2>3. QED BY <2>1, <2>2
  <1> HIDE DEF Bf, Be, qf, qe
  <1>6. /\ Len(msgs') \in Nat /\ Cardinality(held') \in Nat
        /\ Len(msgs') + Cardinality(held') <= Len(msgs) + Cardinality(held) + 2
    BY <1>1, DevFlushLoad
  <1>7. Cardinality(lent) <= Cardinality(lent') + Cardinality(Bf) + Cardinality(Be)
    BY <1>1, <1>4, <1>5, LoadType, LessTwice
  <1>8. Cardinality(lent') \in Nat
    BY <1>1, LoadType, FS_Difference, FS_CardinalityType
  <1>9. Total(q') + Cardinality(Bf) + Cardinality(Be) <= Total(qq) /\ Total(q') \in Nat
    <2>1. PICK a, b, c \in Nat : /\ Len(qq.cmd) = a /\ Len(qq.ftb) = b /\ Len(qq.etb) = c
                                 /\ Total(qq) = a + b + c
      BY TotalIs
    <2>2. PICK x, y, z \in Nat : /\ Len(q'.cmd) = x /\ Len(q'.ftb) = y /\ Len(q'.etb) = z
                                 /\ Total(q') = x + y + z
      BY <1>1, TotalIs
    <2>3. x = a /\ y + Cardinality(Bf) <= b /\ z + Cardinality(Be) <= c
      BY <1>1, <1>4, <1>5, <2>1, <2>2, Zenon
    <2>4. QED BY <1>4, <1>5, <2>1, <2>2, <2>3
  <1>10. Total(qq) \in Nat
    BY TotalType
  <1>11. Fill' = Total(q') + Len(msgs') + Cardinality(held') - Cardinality(lent')
    BY DEF Fill
  <1> DEFINE t == Total(q')
             m == Len(msgs')
             h == Cardinality(held')
             l == Cardinality(lent')
             m0 == Len(msgs)
             h0 == Cardinality(held)
             l0 == Cardinality(lent)
             t0 == Total(qq)
             f == Cardinality(Bf)
             e == Cardinality(Be)
  <1>12. /\ t \in Nat /\ m \in Nat /\ h \in Nat /\ l \in Nat /\ Fill' = t + m + h - l
         /\ t + f + e <= t0 /\ m + h <= m0 + h0 + 2 /\ l0 <= l + f + e
    BY <1>6, <1>7, <1>8, <1>9, <1>11, Zenon
  <1>13. /\ m0 \in Nat /\ h0 \in Nat /\ l0 \in Nat /\ t0 \in Nat
         /\ f \in Nat /\ e \in Nat
    BY <1>4, <1>5, <1>10, LoadType
  <1> HIDE DEF t, m, h, l, t0, m0, h0, l0, f, e
  <1>14. t + m + h - l <= t0 + m0 + h0 - l0 + 2
    BY <1>12, <1>13
  <1>15. QED BY <1>12, <1>14, Zenon DEF t0, m0, h0, l0

(* complete_pending_buffer_done_cbs                                        *)
LEMMA CompleteLoad ==
    ASSUME TypeOK, Pending, Current[1] \notin {"FTB", "ETB", "EBD"},
           complete_pending_buffer_done_cbs
    PROVE  /\ Total(q') \in Nat /\ Cardinality(lent') \in Nat
           /\ Total(q') - Cardinality(lent') <= Total(q) - 1 - Cardinality(lent)
  <1> DEFINE f == Cardinality(DoneIn(q.ftb))
             e == Cardinality(DoneIn(q.etb))
  <1>1. /\ q' \in Queues /\ q.cmd # <<>>
        /\ q'.cmd = Tail(q.cmd) /\ q'.ftb = Kept(q.ftb) /\ q'.etb = Kept(q.etb)
        /\ lent' = lent \ (DoneIn(q.ftb) \union DoneIn(q.etb))
    BY CompleteFacts
  <1>2. q.cmd \in Seq(CmdEntries) /\ q.ftb \in Seq(FtbEntries) /\ q.etb \in Seq(EtbEntries)
    BY QueuesType
  <1>3. /\ IsFiniteSet(DoneIn(q.ftb)) /\ Cardinality(DoneIn(q.ftb)) \in Nat
        /\ Len(Kept(q.ftb)) + Cardinality(DoneIn(q.ftb)) <= Len(q.ftb)
        /\ IsFiniteSet(DoneIn(q.etb)) /\ Cardinality(DoneIn(q.etb)) \in Nat
        /\ Len(Kept(q.etb)) + Cardinality(DoneIn(q.etb)) <= Len(q.etb)
    BY <1>2, KeptCount
  <1>4. Len(Tail(q.cmd)) = Len(q.cmd) - 1
    BY <1>1, <1>2, TailFacts
  <1>5. Cardinality(lent) <= Cardinality(lent') + f + e
    BY <1>1, <1>3, LoadType, LessTwice
  <1>6. Cardinality(lent') \in Nat
    BY <1>1, LoadType, FS_Difference, FS_CardinalityType
  <1>7. /\ Total(q') \in Nat
        /\ Total(q') + f + e <= Total(q) - 1
    <2>1. PICK a, b, c \in Nat : /\ Len(q.cmd) = a /\ Len(q.ftb) = b /\ Len(q.etb) = c
                                 /\ Total(q) = a + b + c
      BY LoadType, TotalIs
    <2>2. PICK x, y, z \in Nat : /\ Len(q'.cmd) = x /\ Len(q'.ftb) = y /\ Len(q'.etb) = z
                                 /\ Total(q') = x + y + z
      BY <1>1, TotalIs
    <2>3. x = a - 1
      BY <1>1, <1>4, <2>1, <2>2, Zenon
    <2>4. y + f <= b /\ z + e <= c
      BY <1>1, <1>3, <2>1, <2>2, Zenon
    <2>5. f \in Nat /\ e \in Nat
      BY <1>3
    <2> HIDE DEF f, e
    <2>6. QED BY <2>1, <2>2, <2>3, <2>4, <2>5
  <1>8. f \in Nat /\ e \in Nat
    BY <1>3
  <1> HIDE DEF f, e
  <1>9. QED BY <1>5, <1>6, <1>7, <1>8, LoadType

-----------------------------------------------------------------------------
(* What a step may add.                                                    *)
LEMMA FillParts ==
    ASSUME TypeOK
    PROVE  \E t, m, h, l \in Nat : /\ Total(q) = t /\ Len(msgs) = m
                                   /\ Cardinality(held) = h /\ Cardinality(lent) = l
                                   /\ Fill = t + m + h - l
  <1>1. Fill = Total(q) + Len(msgs) + Cardinality(held) - Cardinality(lent)
    BY DEF Fill
  <1>2. QED BY <1>1, LoadType, Zenon

LEMMA FillPartsNext ==
    ASSUME TypeOK'
    PROVE  \E t, m, h, l \in Nat : /\ Total(q') = t /\ Len(msgs') = m
                                   /\ Cardinality(held') = h /\ Cardinality(lent') = l
                                   /\ Fill' = t + m + h - l
  <1>1. Fill' = Total(q') + Len(msgs') + Cardinality(held') - Cardinality(lent')
    BY DEF Fill
  <1>2. q' \in Queues
    BY DEF TypeOK, Queues
  <1>3. Total(q') \in Nat
    BY <1>2, TotalType
  <1>4. msgs' \in Seq(Messages) /\ held' \in SUBSET Buffers /\ lent' \in SUBSET Buffers
    BY DEF TypeOK
  <1>5. Len(msgs') \in Nat
    BY <1>4
  <1>6. Cardinality(held') \in Nat /\ Cardinality(lent') \in Nat
    BY <1>4, CountBuffers
  <1>7. QED BY <1>1, <1>3, <1>5, <1>6, Zenon

LEMMA FillGrows ==
    ASSUME TypeOK, TypeOK', NEW d \in Int, NEW e \in Int,
           Total(q') - Cardinality(lent') <= Total(q) - Cardinality(lent) + d,
           Len(msgs') + Cardinality(held') <= Len(msgs) + Cardinality(held) + e
    PROVE  Fill \in Int /\ Fill' \in Int /\ Fill' <= Fill + (d + e)
  <1>1. PICK t, m, h, l \in Nat : /\ Total(q) = t /\ Len(msgs) = m
                                  /\ Cardinality(held) = h /\ Cardinality(lent) = l
                                  /\ Fill = t + m + h - l
    BY FillParts
  <1>2. PICK tt, mm, hh, ll \in Nat : /\ Total(q') = tt /\ Len(msgs') = mm
                                      /\ Cardinality(held') = hh /\ Cardinality(lent') = ll
                                      /\ Fill' = tt + mm + hh - ll
    BY FillPartsNext
  <1>3. tt - ll <= t - l + d /\ mm + hh <= m + h + e
    BY <1>1, <1>2, Zenon
  <1>4. QED BY <1>1, <1>2, <1>3

LEMMA OwedNext == Owed' \in Nat
  <1>1. Owed' = StateOwed(m_flags') + PortOwed(portFlags'["in"]) + PortOwed(portFlags'["out"])
    BY DEF Owed, StateOwed, PortOwed, Bit
  <1>2. QED BY <1>1, OwedType

(* What a flush of a command adds that took an entry already               *)
LEMMA FlushGrows ==
    ASSUME TypeOK, TypeOK', NEW n \in Nat, n <= Total(q) - 1,
           Fill' <= n + Len(msgs) + Cardinality(held) - Cardinality(lent) + 2
    PROVE  Fill \in Int /\ Fill' \in Int /\ Fill' <= Fill + 1
  <1>1. PICK t, m, h, l \in Nat : /\ Total(q) = t /\ Len(msgs) = m
                                  /\ Cardinality(held) = h /\ Cardinality(lent) = l
                                  /\ Fill = t + m + h - l
    BY FillParts
  <1>2. Fill' \in Int
    BY FillPartsNext
  <1>3. Fill' <= n + m + h - l + 2 /\ n <= t - 1
    BY <1>1, Zenon
  <1>4. QED BY <1>1, <1>2, <1>3

(* What a step may add that looks at a command, sends one, or neither.     *)
LEMMA LoadKept ==
    ASSUME TypeOK, LoadInv, Fill \in Int, Fill' \in Int,
           \/ waiting' = waiting /\ cmds' = cmds /\ Fill' <= Fill /\ Owed' <= Owed
           \/ waiting' = waiting /\ cmds' = cmds /\ Fill' + Owed' <= Fill + Owed
           \/ waiting /\ ~waiting' /\ cmds' = cmds /\ Fill' <= Fill + 1 /\ Owed' <= Owed + 2
           \/ waiting /\ ~waiting' /\ cmds' = cmds /\ Fill' + Owed' <= Fill + Owed + 3
           \/ ~waiting /\ waiting' /\ cmds' = cmds + 1 /\ Fill' <= Fill + 1 /\ Owed' <= Owed
           \/ waiting' = waiting /\ cmds' = cmds + 1 /\ Fill' + Owed' <= Fill + Owed + 4
    PROVE  LoadInv'
  <1> DEFINE w == Bit(waiting)
             ww == Bit(waiting')
             f == Fill
             ff == Fill'
             o == Owed
             oo == Owed'
  <1>1. /\ w \in 0..1 /\ ww \in 0..1
        /\ \/ ww = w /\ cmds' = cmds /\ ff <= f /\ oo <= o
           \/ ww = w /\ cmds' = cmds /\ ff + oo <= f + o
           \/ w = 1 /\ ww = 0 /\ cmds' = cmds /\ ff <= f + 1 /\ oo <= o + 2
           \/ w = 1 /\ ww = 0 /\ cmds' = cmds /\ ff + oo <= f + o + 3
           \/ w = 0 /\ ww = 1 /\ cmds' = cmds + 1 /\ ff <= f + 1 /\ oo <= o
           \/ ww = w /\ cmds' = cmds + 1 /\ ff + oo <= f + o + 4
    BY DEF Bit
  <1>2. f \in Int /\ ff \in Int /\ o \in Int /\ oo \in Int /\ cmds \in Nat
    BY OwedType, OwedNext DEF TypeOK
  <1>3. f + o + 3 * w <= 4 * cmds
    BY DEF LoadInv
  <1>4. LoadInv' <=> ff + oo + 3 * ww <= 4 * cmds'
    BY DEF LoadInv, Bit
  <1> HIDE DEF w, ww, f, ff, o, oo
  <1>5. QED BY <1>1, <1>2, <1>3, <1>4

(* What the pending bits stand for                                         *)
Asking == {"ENABLE", "DISABLE"}

LEMMA OwedLess ==
    ASSUME m_flags' \subseteq m_flags,
           \A p \in Ports : portFlags'[p] \intersect Asking \subseteq portFlags[p]
    PROVE  Owed' <= Owed
  <1>1. \A f, g : f \subseteq g => StateOwed(f) <= StateOwed(g)
    BY DEF StateOwed, Bit
  <1>2. \A f, g : f \intersect Asking \subseteq g => PortOwed(f) <= PortOwed(g)
    BY DEF PortOwed, Bit, Asking
  <1>3. Owed' = StateOwed(m_flags') + PortOwed(portFlags'["in"]) + PortOwed(portFlags'["out"])
    BY DEF Owed, StateOwed, PortOwed, Bit
  <1>4. /\ StateOwed(m_flags') <= StateOwed(m_flags)
        /\ PortOwed(portFlags'["in"]) <= PortOwed(portFlags["in"])
        /\ PortOwed(portFlags'["out"]) <= PortOwed(portFlags["out"])
    BY <1>1, <1>2 DEF Ports
  <1>5. QED BY <1>3, <1>4, OwedType DEF Owed

LEMMA OwedMore ==
    ASSUME NEW flag, m_flags' \subseteq m_flags \union {flag}, portFlags' = portFlags
    PROVE  Owed' <= Owed + 2 /\ (flag = "IDLE" => Owed' <= Owed + 1)
  <1>1. \A f, g : f \subseteq g \union {flag} =>
                     /\ StateOwed(f) <= StateOwed(g) + 2
                     /\ flag = "IDLE" => StateOwed(f) <= StateOwed(g) + 1
    BY DEF StateOwed, Bit
  <1>2. Owed' = StateOwed(m_flags') + PortOwed(portFlags["in"]) + PortOwed(portFlags["out"])
    BY DEF Owed, StateOwed, PortOwed, Bit
  <1>3. /\ StateOwed(m_flags') <= StateOwed(m_flags) + 2
        /\ flag = "IDLE" => StateOwed(m_flags') <= StateOwed(m_flags) + 1
    BY <1>1
  <1>4. QED BY <1>2, <1>3, OwedType DEF Owed

LEMMA OwedPorts ==
    ASSUME TypeOK, NEW P, NEW flag \in Asking,
           m_flags' = m_flags, portFlags' = WithFlag(P, flag)
    PROVE  Owed' <= Owed + Bit("in" \in P) + Bit("out" \in P)
  <1>1. ASSUME NEW p \in Ports
        PROVE  PortOwed(portFlags'[p]) <= PortOwed(portFlags[p]) + Bit(p \in P)
    <2>1. portFlags'[p] = portFlags[p] \union IF p \in P THEN {flag} ELSE {}
      BY DEF WithFlag
    <2>2. \A f : PortOwed(f \union {flag}) <= PortOwed(f) + 1
      BY DEF PortOwed, Bit, Asking
    <2>3. CASE p \in P
      BY <2>1, <2>2, <2>3 DEF Bit
    <2>4. CASE p \notin P
      <3>1. portFlags'[p] = portFlags[p]
        BY <2>1, <2>4
      <3>2. QED BY <2>4, <3>1, OwedType DEF Bit
    <2>5. QED BY <2>3, <2>4
  <1>2. Owed' = StateOwed(m_flags) + PortOwed(portFlags'["in"]) + PortOwed(portFlags'["out"])
    BY DEF Owed, StateOwed, PortOwed, Bit
  <1>3. /\ PortOwed(portFlags'["in"]) <= PortOwed(portFlags["in"]) + Bit("in" \in P)
        /\ PortOwed(portFlags'["out"]) <= PortOwed(portFlags["out"]) + Bit("out" \in P)
    BY <1>1 DEF Ports
  <1>4. QED BY <1>2, <1>3, OwedType DEF Owed

(* The last buffer of a port, or of all, answers a pending bit.            *)
LEMMA PortAnswer ==
    ASSUME TypeOK, NEW p \in Ports, NEW flag \in Asking, NEW c, c => flag \in portFlags[p],
           portFlags' = [portFlags EXCEPT ![p] = IF c THEN @ \ {flag} ELSE @]
    PROVE  PortOwed(portFlags'["in"]) + PortOwed(portFlags'["out"])
               = PortOwed(portFlags["in"]) + PortOwed(portFlags["out"]) - Bit(c)
  <1>1. CASE c
    <2>1. \A f : flag \in f => PortOwed(f \ {flag}) = PortOwed(f) - 1
      BY DEF PortOwed, Bit, Asking
    <2>2. /\ portFlags'[p] = portFlags[p] \ {flag}
          /\ \A x \in Ports : x # p => portFlags'[x] = portFlags[x]
      BY <1>1 DEF TypeOK
    <2>3. PortOwed(portFlags'[p]) = PortOwed(portFlags[p]) - 1
      BY <1>1, <2>1, <2>2
    <2>4. CASE p = "in"
      <3>1. portFlags'["out"] = portFlags["out"]
        BY <2>2, <2>4 DEF Ports
      <3>2. QED BY <1>1, <2>3, <2>4, <3>1, OwedType DEF Bit
    <2>5. CASE p = "out"
      <3>1. portFlags'["in"] = portFlags["in"]
        BY <2>2, <2>5 DEF Ports
      <3>2. QED BY <1>1, <2>3, <2>5, <3>1, OwedType DEF Bit
    <2>6. QED BY <2>4, <2>5 DEF Ports
  <1>2. CASE ~c
    <2>1. portFlags'["in"] = portFlags["in"] /\ portFlags'["out"] = portFlags["out"]
      BY <1>2 DEF TypeOK, Ports
    <2>2. QED BY <1>2, <2>1, OwedType DEF Bit
  <1>3. QED BY <1>1, <1>2

LEMMA StateAnswer ==
    ASSUME NEW f, NEW c
    PROVE  /\ (c => "IDLE" \in f)
                 => StateOwed(IF c THEN f \ {"IDLE"} ELSE f) = StateOwed(f) - Bit(c)
           /\ (c => "LOADING" \in f)
                 => StateOwed(IF c THEN f \ {"LOADING"} ELSE f) = StateOwed(f) - 2 * Bit(c)
  BY DEF StateOwed, Bit

LEMMA OwedParts ==
    /\ Owed = StateOwed(m_flags) + (PortOwed(portFlags["in"]) + PortOwed(portFlags["out"]))
    /\ Owed' = StateOwed(m_flags') + (PortOwed(portFlags'["in"]) + PortOwed(portFlags'["out"]))
  <1>1. Owed' = StateOwed(m_flags') + PortOwed(portFlags'["in"]) + PortOwed(portFlags'["out"])
    BY DEF Owed, StateOwed, PortOwed, Bit
  <1>2. QED BY <1>1, OwedType DEF Owed

-----------------------------------------------------------------------------
(* The bound, action by action: commands.                                  *)
LEMMA WaitingEnds ==
    ASSUME TypeOK, CommandInv, NEW cmd, NEW a, Command(cmd, a), <<"COMMAND", cmd, a>> \in Commands
    PROVE  /\ waiting /\ ~waiting'
           /\ Rest \in Queues /\ Total(Rest) \in Nat /\ Total(Rest) = Total(q) - 1
  <1>1. Pending /\ Current = <<"COMMAND", cmd, a>> /\ ~waiting'
    BY DEF Command
  <1>2. q.cmd # <<>> /\ Head(q.cmd) \in Commands
    <2>1. Current[1] \notin {"FTB", "ETB", "EBD"}
      BY <1>1
    <2>2. QED BY <1>1, <2>1, TakesCommand
  <1>3. Has(q.cmd, Commands)
    <2>1. q.cmd \in Seq(CmdEntries)
      BY QueuesType
    <2>2. Head(q.cmd) = q.cmd[1] /\ 1 \in DOMAIN q.cmd
      BY <1>2, <2>1, TailFacts
    <2>3. QED BY <1>2, <2>2 DEF Has
  <1>4. QED BY <1>1, <1>3, RestTotal DEF CommandInv

LEMMA OutcomeTotal ==
    ASSUME TypeOK, Pending, NEW s \in States, NEW r \in CmdEntries,
           q' = Rest \/ Complete(s) \/ Refuse \/ q' = Post(Rest, r)
    PROVE  Total(q') \in Nat /\ Total(q') <= Total(q)
  <1>1. Event("StateSet", s) \in CmdEntries /\ Event("Error", "transition") \in CmdEntries
    BY EventType
  <1>2. q' = Rest \/ \E x \in CmdEntries : q' = Post(Rest, x)
    BY <1>1, Zenon DEF Complete, Refuse
  <1>3. Rest \in Queues /\ Total(Rest) \in Nat /\ Total(Rest) = Total(q) - 1 /\ Total(q) \in Nat
    BY RestTotal, LoadType
  <1>4. CASE q' = Rest
    BY <1>3, <1>4
  <1>5. ASSUME NEW x \in CmdEntries, q' = Post(Rest, x)
        PROVE  Total(q') \in Nat /\ Total(q') <= Total(q)
    BY <1>3, <1>5, PostTotal
  <1>6. QED BY <1>2, <1>4, <1>5

LEMMA StateCommandsLoad ==
    ASSUME TypeOK, TypeOK', CommandInv, LoadInv, NEW s \in States,
           LoadedTo(s) \/ IdleTo(s) \/ RunningTo(s) \/ WaitingTo(s)
    PROVE  LoadInv'
  <1>1. Command("StateSet", s) /\ <<"COMMAND", "StateSet", s>> \in Commands
    BY CommandsType DEF LoadedTo, IdleTo, RunningTo, WaitingTo
  <1>2. waiting /\ ~waiting' /\ Pending
    BY <1>1, WaitingEnds DEF Command
  <1>3. q' = Rest \/ Complete(s) \/ Refuse \/ q' = Post(Rest, <<"RESUME_DONE", "", "">>)
    BY DEF LoadedTo, IdleTo, RunningTo, WaitingTo, Later, StartFor
  <1>4. Total(q') \in Nat /\ Total(q') <= Total(q)
    <2> DEFINE r == <<"RESUME_DONE", "", "">>
    <2>1. r \in CmdEntries
      BY DEF CmdEntries, Signals
    <2>2. q' = Rest \/ Complete(s) \/ Refuse \/ q' = Post(Rest, r)
      BY <1>3
    <2> HIDE DEF r
    <2>3. QED BY <1>2, <2>1, <2>2, OutcomeTotal
  <1>5. held' = held /\ lent' = lent /\ cmds' = cmds /\ portFlags' = portFlags
    BY DEF LoadedTo, IdleTo, RunningTo, WaitingTo, driver, flags
  <1>6. \/ msgs' = msgs
        \/ \E ok \in BOOLEAN : dev_start(ok) \/ dev_pause(ok) \/ dev_resume(ok) \/ dev_stop(ok)
    BY DEF LoadedTo, IdleTo, RunningTo, WaitingTo, driver, StartFor
  <1>7. Len(msgs') \in Nat /\ Len(msgs') <= Len(msgs) + 1
    BY <1>6, DeviceLoad, LoadType
  <1>8. \E flag \in {"IDLE", "LOADING", "EXECUTE", "PAUSE"} : m_flags' \subseteq m_flags \union {flag}
    BY DEF LoadedTo, IdleTo, RunningTo, WaitingTo, flags, StartFor, Later
  <1>9. Owed' <= Owed + 2
    BY <1>5, <1>8, OwedMore
  <1>10. Fill \in Int /\ Fill' \in Int /\ Fill' <= Fill + 1
    <2>1. /\ Total(q') - Cardinality(lent') <= Total(q) - Cardinality(lent) + 0
          /\ Len(msgs') + Cardinality(held') <= Len(msgs) + Cardinality(held) + 1
      BY <1>4, <1>5, <1>7, LoadType
    <2>2. Fill \in Int /\ Fill' \in Int /\ Fill' <= Fill + (0 + 1)
      BY <2>1, FillGrows
    <2>3. QED BY <2>2
  <1>11. QED
    BY <1>2, <1>5, <1>9, <1>10, LoadKept

LEMMA RunningToIdleLoad ==
    ASSUME TypeOK, TypeOK', CommandInv, LoadInv, RunningToIdle PROVE LoadInv'
  <1>1. /\ Command("StateSet", "Idle") /\ <<"COMMAND", "StateSet", "Idle">> \in Commands
        /\ execute_omx_flush(Ports, Rest)
        /\ m_flags' = m_flags \union {"IDLE"} /\ portFlags' = portFlags /\ cmds' = cmds
    BY CommandsType DEF RunningToIdle, States
  <1>2. /\ waiting /\ ~waiting'
        /\ Rest \in Queues /\ Total(Rest) \in Nat /\ Total(Rest) = Total(q) - 1
    BY <1>1, WaitingEnds
  <1>3. Fill' <= Total(Rest) + Len(msgs) + Cardinality(held) - Cardinality(lent) + 2
    BY <1>1, <1>2, OmxFlushLoad
  <1>4. Fill \in Int /\ Fill' \in Int /\ Fill' <= Fill + 1
    BY <1>2, <1>3, LoadType, FlushGrows
  <1>5. Owed' <= Owed + 2
    BY <1>1, OwedMore
  <1>6. QED BY <1>1, <1>2, <1>4, <1>5, LoadKept

LEMMA FlushCommandLoad ==
    ASSUME TypeOK, TypeOK', CommandInv, LoadInv, NEW a \in Named, Flush(a) PROVE LoadInv'
  <1>1. /\ Command("Flush", a) /\ <<"COMMAND", "Flush", a>> \in Commands
        /\ execute_omx_flush(PortsOf(a), Rest) /\ PortsOf(a) \in SUBSET Ports
        /\ m_flags' = m_flags /\ portFlags' = WithFlag(PortsOf(a), "FLUSH") /\ cmds' = cmds
    BY CommandsType, EventType DEF Flush
  <1>2. /\ waiting /\ ~waiting'
        /\ Rest \in Queues /\ Total(Rest) \in Nat /\ Total(Rest) = Total(q) - 1
    BY <1>1, WaitingEnds
  <1>3. Fill' <= Total(Rest) + Len(msgs) + Cardinality(held) - Cardinality(lent) + 2
    BY <1>1, <1>2, OmxFlushLoad
  <1>4. Fill \in Int /\ Fill' \in Int /\ Fill' <= Fill + 1
    BY <1>2, <1>3, LoadType, FlushGrows
  <1>5. Owed' <= Owed + 2
    <2>1. \A p \in Ports : portFlags'[p] \intersect Asking \subseteq portFlags[p]
      BY <1>1 DEF WithFlag, Asking
    <2>2. QED BY <1>1, <2>1, OwedLess, OwedType, OwedNext
  <1>6. QED BY <1>1, <1>2, <1>4, <1>5, LoadKept

LEMMA PortEventsLoad ==
    ASSUME TypeOK, TypeOK', CommandInv, LoadInv, NEW cmd \in {"PortEnable", "PortDisable"},
           NEW a \in Named, NEW flag \in Asking, NEW ready, ready \subseteq PortsOf(a),
           Command(cmd, a), q' = PortEvents(Rest, cmd, a, ready),
           portFlags' = WithFlag(PortsOf(a) \ ready, flag),
           UNCHANGED <<m_flags, lent, msgs, held, cmds>>
    PROVE  LoadInv'
  <1> DEFINE P == PortsOf(a) \ ready
             ri == Bit("in" \in ready)
             ro == Bit("out" \in ready)
             pi == Bit("in" \in P)
             po == Bit("out" \in P)
             all == Bit(ready = PortsOf(a))
             d == ri + ro + all - 1
  <1>1. /\ waiting /\ ~waiting'
        /\ Rest \in Queues /\ Total(Rest) \in Nat /\ Total(Rest) = Total(q) - 1
    BY CommandsType, WaitingEnds
  <1>2. ri + pi <= 1 /\ ro + po <= 1
    BY DEF Bit
  <1>3. ri \in 0..1 /\ ro \in 0..1 /\ pi \in 0..1 /\ po \in 0..1 /\ all \in 0..1
    BY DEF Bit
  <1>4. Total(q') \in Nat /\ Total(q') <= Total(Rest) + ri + ro + all
    BY <1>1, PortEventsTotal
  <1>5. Owed' <= Owed + pi + po
    BY OwedPorts
  <1>6. m_flags' = m_flags /\ lent' = lent /\ msgs' = msgs /\ held' = held /\ cmds' = cmds
    OBVIOUS
  <1> HIDE DEF P, ri, ro, pi, po, all
  <1>7. Total(q') - Cardinality(lent') <= Total(q) - Cardinality(lent) + d /\ d \in Int
    <2> DEFINE t == Total(q')
               r == Total(Rest)
               n == Total(q)
               l == Cardinality(lent)
    <2>1. /\ t \in Nat /\ r \in Nat /\ n \in Nat /\ l \in Nat
          /\ t <= r + ri + ro + all /\ r = n - 1
      BY <1>1, <1>4, LoadType
    <2> HIDE DEF t, r, n, l
    <2>2. t - l <= n - l + d /\ d \in Int
      BY <1>3, <2>1
    <2>3. QED BY <1>6, <2>2, Zenon DEF t, n, l
  <1> HIDE DEF d
  <1>8. Fill \in Int /\ Fill' \in Int /\ Fill' <= Fill + (d + 0)
    <2>1. Len(msgs') + Cardinality(held') <= Len(msgs) + Cardinality(held) + 0
      BY <1>6, LoadType
    <2>2. QED BY <1>7, <2>1, FillGrows
  <1>9. Fill' + Owed' <= Fill + Owed + 3
    <2> DEFINE f == Fill
               ff == Fill'
               o == Owed
               oo == Owed'
    <2>1. f \in Int /\ ff \in Int /\ ff <= f + d /\ d = ri + ro + all - 1
      BY <1>7, <1>8 DEF d
    <2>2. o \in Int /\ oo \in Int /\ oo <= o + pi + po
      BY <1>5, OwedType, OwedNext
    <2> HIDE DEF f, ff, o, oo
    <2>3. ff + oo <= f + o + 3
      BY <1>2, <1>3, <2>1, <2>2
    <2>4. QED BY <2>3 DEF f, ff, o, oo
  <1>10. QED BY <1>1, <1>6, <1>8, <1>9, LoadKept

LEMMA PortEnableLoad ==
    ASSUME TypeOK, TypeOK', CommandInv, LoadInv, NEW a \in Named, PortEnable(a) PROVE LoadInv'
  <1> DEFINE ready == {p \in PortsOf(a) :
                          (m_state = "Loaded" /\ "IDLE" \notin m_flags) \/ Full(p)}
  <1>1. /\ Command("PortEnable", a)
        /\ portFlags' = WithFlag(PortsOf(a) \ ready, "ENABLE")
        /\ q' = PortEvents(Rest, "PortEnable", a, ready)
        /\ UNCHANGED <<m_flags, lent, msgs, held, cmds>>
    BY DEF PortEnable, driver
  <1>2. ready \subseteq PortsOf(a) /\ "ENABLE" \in Asking
    BY DEF Asking
  <1> HIDE DEF ready
  <1>3. QED BY <1>1, <1>2, PortEventsLoad

LEMMA PortDisableLoad ==
    ASSUME TypeOK, TypeOK', CommandInv, LoadInv, NEW a \in Named, PortDisable(a) PROVE LoadInv'
  <1> DEFINE ready == {p \in PortsOf(a) : m_state \in {"Loaded", "Idle"} /\ Released(p)}
             posted == PortEvents(Rest, "PortDisable", a, ready)
  <1>1. /\ Command("PortDisable", a)
        /\ portFlags' = WithFlag(PortsOf(a) \ ready, "DISABLE")
        /\ IF Running
           THEN execute_omx_flush(PortsOf(a), posted)
           ELSE q' = posted /\ UNCHANGED <<lent, msgs, held>>
        /\ m_flags' = m_flags /\ cmds' = cmds
    BY DEF PortDisable, driver
  <1>2. ready \subseteq PortsOf(a) /\ "DISABLE" \in Asking
    BY DEF Asking
  <1>3. Running => ready = {}
    BY DEF Running
  <1> HIDE DEF ready
  <1>4. CASE ~Running
    BY <1>1, <1>2, <1>4, PortEventsLoad
  <1>5. CASE Running
    <2>1. /\ waiting /\ ~waiting'
          /\ Rest \in Queues /\ Total(Rest) \in Nat /\ Total(Rest) = Total(q) - 1
      BY <1>1, CommandsType, WaitingEnds
    <2>2. PortsOf(a) \in SUBSET Ports /\ PortsOf(a) # {}
      BY EventType DEF PortsOf, Ports
    <2>3. posted = Rest
      BY <1>3, <1>5, <2>2 DEF PortEvents, PostIf
    <2>4. Fill' <= Total(Rest) + Len(msgs) + Cardinality(held) - Cardinality(lent) + 2
      BY <1>1, <1>5, <2>1, <2>2, <2>3, OmxFlushLoad
    <2>5. Fill \in Int /\ Fill' \in Int /\ Fill' <= Fill + 1
      BY <2>1, <2>4, LoadType, FlushGrows
    <2> DEFINE P == PortsOf(a) \ ready
    <2>6. Owed' <= Owed + Bit("in" \in P) + Bit("out" \in P)
      BY <1>1, <1>2, OwedPorts
    <2>7. Owed' <= Owed + 2
      BY <2>6, OwedType, OwedNext
    <2>8. QED BY <1>1, <2>1, <2>5, <2>7, LoadKept
  <1>6. QED BY <1>4, <1>5

-----------------------------------------------------------------------------
(* The bound, action by action: signals and buffers.                       *)
LEMMA QuietLoad ==
    ASSUME TypeOK, TypeOK', LoadInv, NEW d \in Int, NEW e \in Int, d + e <= 0,
           waiting' = waiting, cmds' = cmds, Owed' <= Owed,
           Total(q') - Cardinality(lent') <= Total(q) - Cardinality(lent) + d,
           Len(msgs') + Cardinality(held') <= Len(msgs) + Cardinality(held) + e
    PROVE  LoadInv'
  <1>1. Fill \in Int /\ Fill' \in Int /\ Fill' <= Fill + (d + e)
    BY FillGrows
  <1> DEFINE f == Fill
             ff == Fill'
  <1>2. f \in Int /\ ff \in Int /\ ff <= f + (d + e)
    BY <1>1
  <1> HIDE DEF f, ff
  <1>3. ff <= f
    BY <1>2
  <1>4. Fill' <= Fill
    BY <1>3 DEF f, ff
  <1>5. QED BY <1>1, <1>4, LoadKept

LEMMA SameOwed ==
    ASSUME m_flags' = m_flags, portFlags' = portFlags PROVE Owed' <= Owed
  BY OwedLess

(* A signal leaves the queue, and the driver sends one message at most.    *)
LEMMA SignalLoad ==
    ASSUME TypeOK, TypeOK', LoadInv,
           \/ GenerateEvent \/ StartDone \/ PauseDone \/ ResumeDone \/ StopDone
           \/ \E p \in Ports : FlushDone(p)
    PROVE  LoadInv'
  <1>1. Pending /\ Current[1] \notin {"FTB", "ETB", "EBD"}
    BY DEF GenerateEvent, StartDone, PauseDone, ResumeDone, StopDone, FlushDone, Take
  <1>2. \/ q' = Rest /\ lent' = lent
        \/ complete_pending_buffer_done_cbs
    BY DEF GenerateEvent, StartDone, PauseDone, ResumeDone, StopDone, FlushDone
  <1>3. Total(q') - Cardinality(lent') <= Total(q) - Cardinality(lent) + (-1)
    <2>1. CASE q' = Rest /\ lent' = lent
      BY <1>1, <2>1, RestTotal, LoadType
    <2>2. CASE complete_pending_buffer_done_cbs
      BY <1>1, <2>2, CompleteLoad, LoadType
    <2>3. QED BY <1>2, <2>1, <2>2
  <1>4. /\ held' = held /\ waiting' = waiting /\ cmds' = cmds
        /\ msgs' = msgs \/ \E ok \in BOOLEAN : dev_pause(ok) \/ dev_stop(ok)
    BY DEF GenerateEvent, StartDone, PauseDone, ResumeDone, StopDone, FlushDone, driver,
           PauseAfterStart
  <1>5. Len(msgs') + Cardinality(held') <= Len(msgs) + Cardinality(held) + 1
    BY <1>4, DeviceLoad, LoadType
  <1>6. /\ m_flags' \subseteq m_flags
        /\ \A p \in Ports : portFlags'[p] \subseteq portFlags[p]
    <2>1. m_flags' \subseteq m_flags
      BY DEF GenerateEvent, StartDone, PauseDone, ResumeDone, StopDone, FlushDone, flags,
             Enter, PauseAfterStart
    <2>2. \/ portFlags' = portFlags
          \/ \E p \in Ports : portFlags' = [portFlags EXCEPT ![p] = @ \ {"FLUSH"}]
      BY DEF GenerateEvent, StartDone, PauseDone, ResumeDone, StopDone, FlushDone, flags
    <2>3. portFlags \in [Ports -> SUBSET {"FLUSH", "ENABLE", "DISABLE"}]
      BY DEF TypeOK
    <2>4. \A p \in Ports : portFlags'[p] \subseteq portFlags[p]
      BY <2>2, <2>3
    <2>5. QED BY <2>1, <2>4
  <1>7. Owed' <= Owed
    BY <1>6, OwedLess
  <1>8. QED BY <1>3, <1>4, <1>5, <1>7, QuietLoad

LEMMA BufferDoneLoad == ASSUME TypeOK, TypeOK', LoadInv, BufferDone PROVE LoadInv'
  <1> DEFINE b == BufferOf(Current)
  <1>1. /\ Pending /\ q' = Rest /\ lent' = lent \ {b}
        /\ UNCHANGED <<m_flags, portFlags, waiting, cmds, msgs, held>>
    BY DEF BufferDone, Take, flags, driver
  <1> HIDE DEF b
  <1>2. IsFiniteSet({b}) /\ Cardinality({b}) = 1
    BY FS_Singleton
  <1>3. Cardinality(lent) <= Cardinality(lent') + 1
    BY <1>1, <1>2, LoadType, LessBuffers
  <1>4. Cardinality(lent') \in Nat
    BY <1>1, LoadType, FS_Difference, FS_CardinalityType
  <1>5. Total(q') - Cardinality(lent') <= Total(q) - Cardinality(lent) + 0
    BY <1>1, <1>3, <1>4, RestTotal, LoadType
  <1>6. Len(msgs') + Cardinality(held') <= Len(msgs) + Cardinality(held) + 0
    BY <1>1, LoadType
  <1>7. QED BY <1>1, <1>5, <1>6, SameOwed, QuietLoad

(* A buffer goes to the driver, or back by way of its own queue.           *)
LEMMA ProxiesLoad ==
    ASSUME TypeOK, TypeOK', LoadInv, empty_this_buffer_proxy \/ fill_this_buffer_proxy
    PROVE  LoadInv'
  <1> DEFINE b == BufferOf(Current)
  <1>1. /\ Pending /\ Current[1] \in {"ETB", "FTB"} /\ lent' = lent /\ msgs' = msgs
        /\ UNCHANGED <<m_flags, portFlags, waiting, cmds>>
        /\ (q' = Post(Rest, Done(b)) /\ held' = held) \/ Encode(b)
    BY DEF empty_this_buffer_proxy, fill_this_buffer_proxy, Take, flags
  <1>2. b \in Buffers /\ Done(b) \in CmdEntries \union FtbEntries \union EtbEntries
    BY <1>1, TakesEntry, EntryShape, DoneFacts
  <1> HIDE DEF b
  <1>3. \/ q' = Rest /\ held' = held \union {b}
        \/ q' = Post(Rest, Done(b)) /\ held' = held
    BY <1>1, <1>2, EncodeType
  <1>4. Rest \in Queues /\ Total(Rest) \in Nat /\ Total(Rest) = Total(q) - 1
    BY <1>1, RestTotal
  <1>5. CASE q' = Rest /\ held' = held \union {b}
    <2>1. Cardinality(held \union {b}) \in {Cardinality(held), Cardinality(held) + 1}
      BY LoadType, FS_AddElement
    <2>2. Total(q') - Cardinality(lent') <= Total(q) - Cardinality(lent) + (-1)
      BY <1>1, <1>4, <1>5, LoadType
    <2>3. Len(msgs') + Cardinality(held') <= Len(msgs) + Cardinality(held) + 1
      BY <1>1, <1>5, <2>1, LoadType
    <2>4. QED BY <1>1, <2>2, <2>3, SameOwed, QuietLoad
  <1>6. CASE q' = Post(Rest, Done(b)) /\ held' = held
    <2>1. Total(q') \in Nat /\ Total(q') <= Total(Rest) + 1
      BY <1>2, <1>4, <1>6, PostTotal
    <2>2. Total(q') - Cardinality(lent') <= Total(q) - Cardinality(lent) + 0
      BY <1>1, <1>4, <2>1, LoadType
    <2>3. Len(msgs') + Cardinality(held') <= Len(msgs) + Cardinality(held) + 0
      BY <1>1, <1>6, LoadType
    <2>4. QED BY <1>1, <2>2, <2>3, SameOwed, QuietLoad
  <1>7. QED BY <1>3, <1>5, <1>6

LEMMA AsyncLoad == ASSUME TypeOK, TypeOK', LoadInv, async_message_process PROVE LoadInv'
  <1>1. /\ msgs # <<>> /\ q' = Post(q, Head(msgs)) /\ msgs' = Tail(msgs)
        /\ UNCHANGED <<m_flags, portFlags, waiting, cmds, held, lent>>
    BY DEF async_message_process, flags
  <1>2. Len(msgs') = Len(msgs) - 1
    BY <1>1, TailFacts DEF TypeOK
  <1>3. Head(msgs) \in CmdEntries \union FtbEntries \union EtbEntries
    BY AsyncFacts
  <1>4. Total(q') \in Nat /\ Total(q') <= Total(q) + 1
    BY <1>1, <1>3, LoadType, PostTotal
  <1>5. Total(q') - Cardinality(lent') <= Total(q) - Cardinality(lent) + 1
    BY <1>1, <1>4, LoadType
  <1>6. Len(msgs') + Cardinality(held') <= Len(msgs) + Cardinality(held) + (-1)
    BY <1>1, <1>2, LoadType
  <1>7. QED BY <1>1, <1>5, <1>6, SameOwed, QuietLoad

LEMMA FrameDoneLoad ==
    ASSUME TypeOK, TypeOK', LoadInv, NEW b \in Buffers, FrameDone(b) PROVE LoadInv'
  <1>1. /\ b \in held /\ held' = held \ {b} /\ q' = Post(q, Done(b))
        /\ UNCHANGED <<m_flags, portFlags, waiting, cmds, msgs, lent>>
    BY DEF FrameDone, flags
  <1>2. Cardinality(held') = Cardinality(held) - 1
    BY <1>1, LoadType, FS_RemoveElement
  <1>3. Done(b) \in CmdEntries \union FtbEntries \union EtbEntries
    BY BufferShape, DoneFacts DEF Ports
  <1>4. Total(q') \in Nat /\ Total(q') <= Total(q) + 1
    BY <1>1, <1>3, LoadType, PostTotal
  <1>5. Total(q') - Cardinality(lent') <= Total(q) - Cardinality(lent) + 1
    BY <1>1, <1>4, LoadType
  <1>6. Len(msgs') + Cardinality(held') <= Len(msgs) + Cardinality(held) + (-1)
    BY <1>1, <1>2, LoadType
  <1>7. QED BY <1>1, <1>5, <1>6, SameOwed, QuietLoad

LEMMA GiveLoad ==
    ASSUME TypeOK, TypeOK', LoadInv, NEW b \in Buffers, GiveBuffer(b) PROVE LoadInv'
  <1> DEFINE x == <<IF b[1] = "in" THEN "ETB" ELSE "FTB", b[1], b[2]>>
  <1>1. /\ b \notin lent /\ lent' = lent \union {b} /\ q' = Post(q, x)
        /\ UNCHANGED <<m_flags, portFlags, waiting, cmds, msgs, held>>
    BY DEF GiveBuffer, flags, driver
  <1>2. Cardinality(lent') = Cardinality(lent) + 1
    BY <1>1, LoadType, FS_AddElement
  <1>3. x \in CmdEntries \union FtbEntries \union EtbEntries
    <2>1. b[1] \in {"in", "out"} /\ b[2] \in Slots
      BY BufferShape DEF Ports
    <2>2. QED BY <2>1 DEF FtbEntries, EtbEntries
  <1> HIDE DEF x
  <1>4. Total(q') \in Nat /\ Total(q') <= Total(q) + 1
    BY <1>1, <1>3, LoadType, PostTotal
  <1>5. Total(q') - Cardinality(lent') <= Total(q) - Cardinality(lent) + 0
    BY <1>2, <1>4, LoadType
  <1>6. Len(msgs') + Cardinality(held') <= Len(msgs) + Cardinality(held) + 0
    BY <1>1, LoadType
  <1>7. waiting' = waiting /\ cmds' = cmds /\ Owed' <= Owed
    BY <1>1, SameOwed
  <1>8. QED BY <1>5, <1>6, <1>7, QuietLoad

-----------------------------------------------------------------------------
(* The bound, action by action: the client's calls.                        *)
LEMMA SendLoad ==
    ASSUME TypeOK, TypeOK', LoadInv, NEW cmd, NEW a, send_command(cmd, a),
           <<"COMMAND", cmd, a>> \in Commands
    PROVE  LoadInv'
  <1> DEFINE x == <<"COMMAND", cmd, a>>
  <1>1. /\ q' = Post(q, x) /\ ~waiting /\ waiting' /\ cmds' = cmds + 1
        /\ UNCHANGED <<m_flags, portFlags, msgs, held, lent>>
    BY DEF send_command, flags, driver
  <1>2. x \in CmdEntries \union FtbEntries \union EtbEntries
    BY DEF CmdEntries
  <1> HIDE DEF x
  <1>3. Total(q') \in Nat /\ Total(q') <= Total(q) + 1
    BY <1>1, <1>2, LoadType, PostTotal
  <1>4. Total(q') - Cardinality(lent') <= Total(q) - Cardinality(lent) + 1
    BY <1>1, <1>3, LoadType
  <1>5. Len(msgs') + Cardinality(held') <= Len(msgs) + Cardinality(held) + 0
    BY <1>1, LoadType
  <1>6. Fill \in Int /\ Fill' \in Int /\ Fill' <= Fill + (1 + 0)
    BY <1>4, <1>5, FillGrows
  <1>7. Fill' <= Fill + 1
    BY <1>6
  <1>8. ~waiting /\ waiting' /\ cmds' = cmds + 1 /\ Owed' <= Owed
    BY <1>1, SameOwed
  <1>9. QED BY <1>6, <1>7, <1>8, LoadKept

(* The last buffer answers a state command for i, one to its port for j:   *)
(* what it posts was owed, and so was the stop it asks for.                *)
LEMMA AnswerLoad ==
    ASSUME TypeOK, TypeOK', NEW i \in 0..1, NEW j \in 0..1, NEW k \in Nat, NEW m \in Nat,
           lent' = lent, held' = held,
           Total(q') <= Total(q) + k + i + j, Len(msgs') <= Len(msgs) + m,
           StateOwed(m_flags') = StateOwed(m_flags) - (i + m),
           PortOwed(portFlags'["in"]) + PortOwed(portFlags'["out"])
               = PortOwed(portFlags["in"]) + PortOwed(portFlags["out"]) - j
    PROVE  Fill \in Int /\ Fill' \in Int /\ Fill' + Owed' <= Fill + Owed + k
  <1>1. PICK t, n, h, l \in Nat : /\ Total(q) = t /\ Len(msgs) = n
                                  /\ Cardinality(held) = h /\ Cardinality(lent) = l
                                  /\ Fill = t + n + h - l
    BY FillParts
  <1>2. PICK tt, nn, hh, ll \in Nat : /\ Total(q') = tt /\ Len(msgs') = nn
                                      /\ Cardinality(held') = hh /\ Cardinality(lent') = ll
                                      /\ Fill' = tt + nn + hh - ll
    BY FillPartsNext
  <1>3. tt <= t + k + i + j /\ nn <= n + m /\ hh = h /\ ll = l
    BY <1>1, <1>2, Zenon
  <1> DEFINE s == StateOwed(m_flags)
             ss == StateOwed(m_flags')
             a == PortOwed(portFlags["in"])
             b == PortOwed(portFlags["out"])
             aa == PortOwed(portFlags'["in"])
             bb == PortOwed(portFlags'["out"])
  <1>4. /\ s \in Nat /\ a \in Nat /\ b \in Nat
        /\ ss \in Nat /\ aa \in Nat /\ bb \in Nat
    BY OwedType, Zenon
  <1>5. ss = s - (i + m) /\ aa + bb = a + b - j
    OBVIOUS
  <1>6. Owed = s + (a + b) /\ Owed' = ss + (aa + bb)
    BY OwedParts
  <1> HIDE DEF s, ss, a, b, aa, bb
  <1>7. (tt + nn + hh - ll) + (ss + (aa + bb)) <= (t + n + h - l) + (s + (a + b)) + k
    BY <1>1, <1>2, <1>3, <1>4, <1>5
  <1>8. Fill' + Owed' <= Fill + Owed + k
    BY <1>1, <1>2, <1>6, <1>7, Zenon
  <1>9. t + n + h - l \in Int /\ tt + nn + hh - ll \in Int
    OBVIOUS
  <1>10. QED BY <1>1, <1>2, <1>8, <1>9, Zenon

(* One answer after the other                                              *)
LEMMA TwoAnswers ==
    ASSUME NEW qq \in Queues, NEW c, NEW d, NEW x \in CmdEntries, NEW y \in CmdEntries
    PROVE  LET all == PostIf(PostIf(qq, c, x), d, y)
           IN all \in Queues /\ Total(all) \in Nat /\ Total(all) <= Total(qq) + Bit(c) + Bit(d)
  <1> DEFINE first == PostIf(qq, c, x)
             all == PostIf(first, d, y)
  <1>1. first \in Queues /\ Total(first) \in Nat /\ Total(first) <= Total(qq) + Bit(c)
    BY PostIfTotal
  <1> HIDE DEF first
  <1>2. all \in Queues /\ Total(all) \in Nat /\ Total(all) <= Total(first) + Bit(d)
    BY <1>1, PostIfTotal
  <1> HIDE DEF all
  <1>3. Total(all) <= Total(qq) + Bit(c) + Bit(d)
    BY <1>1, <1>2, OwedType, TotalType
  <1>4. QED BY <1>2, <1>3 DEF all, first

LEMMA PopulatedLoad ==
    ASSUME TypeOK, TypeOK', NEW b \in Buffers, Populated(b),
           lent' = lent, held' = held, msgs' = msgs
    PROVE  Fill \in Int /\ Fill' \in Int /\ Fill' + Owed' <= Fill + Owed + 0
  <1> DEFINE p == b[1]
             idle == AllocateDone' /\ "IDLE" \in m_flags
             enable == p \in bEnabled /\ Full(p)' /\ "ENABLE" \in portFlags[p]
             x == Event("StateSet", "Idle")
             y == Event("PortEnable", p)
             i == Bit(idle)
             j == Bit(enable)
  <1>1. /\ m_flags' = IF idle THEN m_flags \ {"IDLE"} ELSE m_flags
        /\ portFlags' = [portFlags EXCEPT ![p] = IF enable THEN @ \ {"ENABLE"} ELSE @]
        /\ q' = PostIf(PostIf(q, idle, x), enable, y)
    BY DEF Populated
  <1>2. p \in Ports /\ "ENABLE" \in Asking
    BY BufferShape DEF Asking
  <1>3. x \in CmdEntries /\ y \in CmdEntries
    BY <1>2, EventType DEF States
  <1>4. (idle => "IDLE" \in m_flags) /\ (enable => "ENABLE" \in portFlags[p])
    OBVIOUS
  <1> HIDE DEF idle, enable, x, y, p
  <1>5. Total(q') <= Total(q) + i + j
    BY <1>1, <1>3, LoadType, TwoAnswers
  <1>6. StateOwed(m_flags') = StateOwed(m_flags) - i
    BY <1>1, <1>4, StateAnswer
  <1>7. PortOwed(portFlags'["in"]) + PortOwed(portFlags'["out"])
            = PortOwed(portFlags["in"]) + PortOwed(portFlags["out"]) - j
    BY <1>1, <1>2, <1>4, PortAnswer
  <1>8. i \in 0..1 /\ j \in 0..1
    BY DEF Bit
  <1> HIDE DEF i, j
  <1>9. Total(q') <= Total(q) + 0 + i + j /\ Len(msgs') <= Len(msgs) + 0
    BY <1>5, <1>8, LoadType
  <1>10. StateOwed(m_flags') = StateOwed(m_flags) - (i + 0)
    BY <1>6, <1>8
  <1>11. QED BY <1>7, <1>8, <1>9, <1>10, AnswerLoad

LEMMA AllocateLoad ==
    ASSUME TypeOK, TypeOK', LoadInv, NEW b \in Buffers, AllocateBuffer(b) PROVE LoadInv'
  <1>1. UNCHANGED <<waiting, cmds, held, lent, msgs>>
    BY DEF AllocateBuffer, driver
  <1>2. Populated(b) \/ UNCHANGED <<m_flags, portFlags, q, cut>>
    BY AllocateFacts
  <1>3. CASE Populated(b)
    <2>1. Fill \in Int /\ Fill' \in Int /\ Fill' + Owed' <= Fill + Owed + 0
      BY <1>1, <1>3, PopulatedLoad
    <2>2. Fill' + Owed' <= Fill + Owed
      BY <2>1, OwedType
    <2>3. QED BY <1>1, <2>1, <2>2, LoadKept
  <1>4. CASE UNCHANGED <<m_flags, portFlags, q, cut>>
    <2>1. Total(q') - Cardinality(lent') <= Total(q) - Cardinality(lent) + 0
      BY <1>1, <1>4, LoadType
    <2>2. Len(msgs') + Cardinality(held') <= Len(msgs) + Cardinality(held) + 0
      BY <1>1, LoadType
    <2>3. waiting' = waiting /\ cmds' = cmds /\ Owed' <= Owed
      BY <1>1, <1>4, SameOwed
    <2>4. QED BY <2>1, <2>2, <2>3, QuietLoad
  <1>5. QED BY <1>2, <1>3, <1>4

LEMMA FreedLoad ==
    ASSUME TypeOK, TypeOK', NEW b \in Buffers, NEW qq \in Queues, NEW k \in Nat, Freed(b, qq),
           Total(qq) <= Total(q) + k, lent' = lent, held' = held
    PROVE  Fill \in Int /\ Fill' \in Int /\ Fill' + Owed' <= Fill + Owed + k
  <1> DEFINE p == b[1]
             disable == "DISABLE" \in portFlags[p] /\ Released(p)'
             loaded == "LOADING" \in m_flags /\ ReleaseDone'
             x == Event("PortDisable", p)
             y == Event("StateSet", "Loaded")
             i == Bit(loaded)
             j == Bit(disable)
  <1>1. /\ m_flags' = IF loaded THEN m_flags \ {"LOADING"} ELSE m_flags
        /\ portFlags' = [portFlags EXCEPT ![p] = IF disable THEN @ \ {"DISABLE"} ELSE @]
        /\ q' = PostIf(PostIf(qq, disable, x), loaded, y)
        /\ IF loaded THEN \E ok \in BOOLEAN : dev_stop(ok) ELSE UNCHANGED <<drv, msgs, fails, failed>>
    BY DEF Freed
  <1>2. p \in Ports /\ "DISABLE" \in Asking
    BY BufferShape DEF Asking
  <1>3. x \in CmdEntries /\ y \in CmdEntries
    BY <1>2, EventType DEF States
  <1>4. (loaded => "LOADING" \in m_flags) /\ (disable => "DISABLE" \in portFlags[p])
    OBVIOUS
  <1> HIDE DEF loaded, disable, x, y, p
  <1>5. Total(q') \in Nat /\ Total(q') <= Total(qq) + j + i
    BY <1>1, <1>3, TwoAnswers
  <1>6. StateOwed(m_flags') = StateOwed(m_flags) - 2 * i
    BY <1>1, <1>4, StateAnswer
  <1>7. PortOwed(portFlags'["in"]) + PortOwed(portFlags'["out"])
            = PortOwed(portFlags["in"]) + PortOwed(portFlags["out"]) - j
    BY <1>1, <1>2, <1>4, PortAnswer
  <1>8. i \in 0..1 /\ j \in 0..1
    BY DEF Bit
  <1>9. Len(msgs') <= Len(msgs) + i
    <2>1. CASE loaded
      BY <1>1, <2>1, DeviceLoad, LoadType DEF Bit
    <2>2. CASE ~loaded
      BY <1>1, <2>2, LoadType DEF Bit
    <2>3. QED BY <2>1, <2>2
  <1> HIDE DEF i, j
  <1>10. Total(q') <= Total(q) + k + i + j
    BY <1>5, <1>8, LoadType, TotalType
  <1>11. StateOwed(m_flags') = StateOwed(m_flags) - (i + i) /\ i \in Nat
    BY <1>6, <1>8, OwedType
  <1>12. QED BY <1>7, <1>8, <1>9, <1>10, <1>11, AnswerLoad

LEMMA FreeLoad ==
    ASSUME TypeOK, TypeOK', LoadInv, NEW b \in Buffers, FreeBuffer(b) PROVE LoadInv'
  <1> DEFINE error == Post(q, Unpopulated)
  <1>1. /\ error \in Queues /\ UNCHANGED <<waiting, held, lent>>
        /\ \/ Freed(b, q) /\ cmds' = cmds
           \/ /\ cmds' = cmds + 1
              /\ \/ q' = error /\ UNCHANGED <<portFlags, m_flags, msgs>>
                 \/ Freed(b, error)
    BY FreeFacts
  <1>2. Total(error) \in Nat /\ Total(error) <= Total(q) + 1
    <2>1. Unpopulated \in CmdEntries
      BY EventType DEF Unpopulated
    <2>2. QED BY <2>1, LoadType, PostTotal
  <1> HIDE DEF error
  <1>3. CASE Freed(b, q) /\ cmds' = cmds
    <2>1. q \in Queues /\ Total(q) <= Total(q) + 0
      BY LoadType
    <2>2. Fill \in Int /\ Fill' \in Int /\ Fill' + Owed' <= Fill + Owed + 0
      BY <1>1, <1>3, <2>1, FreedLoad
    <2>3. Fill' + Owed' <= Fill + Owed
      BY <2>2, OwedType
    <2>4. QED BY <1>1, <1>3, <2>2, <2>3, LoadKept
  <1>4. CASE Freed(b, error) /\ cmds' = cmds + 1
    <2>1. Fill \in Int /\ Fill' \in Int /\ Fill' + Owed' <= Fill + Owed + 1
      BY <1>1, <1>2, <1>4, FreedLoad
    <2> DEFINE f == Fill
               ff == Fill'
               o == Owed
               oo == Owed'
    <2>6. ff + oo <= f + o + 1
      BY <2>1, Zenon
    <2>7. f \in Int /\ ff \in Int /\ o \in Int /\ oo \in Int
      BY <2>1, OwedType, OwedNext
    <2> HIDE DEF f, ff, o, oo
    <2>8. ff + oo <= f + o + 4
      BY <2>6, <2>7
    <2>9. Fill' + Owed' <= Fill + Owed + 4
      BY <2>8 DEF f, ff, o, oo
    <2>3. QED BY <1>1, <1>4, <2>1, <2>9, LoadKept
  <1>5. CASE q' = error /\ UNCHANGED <<portFlags, m_flags, msgs>> /\ cmds' = cmds + 1
    <2>1. Total(q') - Cardinality(lent') <= Total(q) - Cardinality(lent) + 1
      BY <1>1, <1>2, <1>5, LoadType
    <2>2. Len(msgs') + Cardinality(held') <= Len(msgs) + Cardinality(held) + 0
      BY <1>1, <1>5, LoadType
    <2>3. Fill \in Int /\ Fill' \in Int /\ Fill' <= Fill + (1 + 0)
      BY <2>1, <2>2, FillGrows
    <2>4. Owed' <= Owed
      BY <1>5, SameOwed
    <2> DEFINE f == Fill
               ff == Fill'
               o == Owed
               oo == Owed'
    <2>7. f \in Int /\ ff \in Int /\ o \in Int /\ oo \in Int /\ ff <= f + 1 /\ oo <= o
      BY <2>3, <2>4, OwedType, OwedNext
    <2> HIDE DEF f, ff, o, oo
    <2>8. ff + oo <= f + o + 4
      BY <2>7
    <2>9. Fill' + Owed' <= Fill + Owed + 4
      BY <2>8 DEF f, ff, o, oo
    <2>6. QED BY <1>1, <1>5, <2>3, <2>9, LoadKept
  <1>6. QED BY <1>1, <1>3, <1>4, <1>5

LEMMA InitLoad == Init => LoadInv
  <1> SUFFICES ASSUME Init PROVE LoadInv
    OBVIOUS
  <1>1. Total(q) = 0 /\ Len(msgs) = 0
    BY DEF Init, Total
  <1>2. Cardinality(held) = 0 /\ Cardinality(lent) = 0
    BY FS_EmptySet DEF Init
  <1>3. Owed = 0
    BY DEF Init, Owed, StateOwed, PortOwed, Bit, Ports
  <1>4. Bit(waiting) = 0 /\ cmds = 0
    BY DEF Init, Bit
  <1>5. Fill = 0
    BY <1>1, <1>2 DEF Fill
  <1>6. QED BY <1>3, <1>4, <1>5 DEF LoadInv

LEMMA NextLoad == TypeOK /\ TypeOK' /\ CommandInv /\ LoadInv /\ [Next]_vars => LoadInv'
  <1> SUFFICES ASSUME TypeOK, TypeOK', CommandInv, LoadInv, [Next]_vars PROVE LoadInv'
    OBVIOUS
  <1>1. CASE process_event_cb
    BY <1>1, StateCommandsLoad, RunningToIdleLoad, FlushCommandLoad, PortEnableLoad,
       PortDisableLoad, SignalLoad, ProxiesLoad, BufferDoneLoad, Zenon DEF process_event_cb
  <1>2. CASE async_message_process
    BY <1>2, AsyncLoad
  <1>3. ASSUME NEW b \in Buffers, FrameDone(b) \/ GiveBuffer(b) \/ AllocateBuffer(b) \/ FreeBuffer(b)
        PROVE  LoadInv'
    BY <1>3, FrameDoneLoad, GiveLoad, AllocateLoad, FreeLoad
  <1>4. CASE \E s \in States : send_command("StateSet", s)
    BY <1>4, CommandsType, SendLoad
  <1>5. CASE \E cmd \in {"Flush", "PortEnable", "PortDisable"}, a \in Named : send_command(cmd, a)
    BY <1>5, CommandsType, SendLoad
  <1>6. CASE UNCHANGED vars
    <2>1. /\ q' = q /\ msgs' = msgs /\ held' = held /\ lent' = lent /\ m_flags' = m_flags
          /\ portFlags' = portFlags /\ waiting' = waiting /\ cmds' = cmds
      BY <1>6 DEF vars, flags, driver
    <2>2. Total(q') - Cardinality(lent') <= Total(q) - Cardinality(lent) + 0
      BY <2>1, LoadType
    <2>3. Len(msgs') + Cardinality(held') <= Len(msgs) + Cardinality(held) + 0
      BY <2>1, LoadType
    <2>4. waiting' = waiting /\ cmds' = cmds /\ Owed' <= Owed
      BY <2>1, SameOwed
    <2>5. QED BY <2>2, <2>3, <2>4, QuietLoad
  <1>7. QED BY <1>1, <1>2, <1>3, <1>4, <1>5, <1>6 DEF Next

(* What is queued, what is on its way and what is still owed are paid for  *)
(* by the commands that were sent and the buffers the client handed over:  *)
(* no handler posts without bound.                                         *)
THEOREM LoadCorrect == Spec => []LoadInv
  <1>1. TypeOK /\ CommandInv /\ LoadInv /\ [Next]_vars => LoadInv'
    BY NextType, NextLoad
  <1>2. QED BY <1>1, InitLoad, TypeCorrect, CommandCorrect, PTL DEF Spec

LEMMA LoadBounds == TypeOK /\ LoadInv => QueuesAreBounded
  <1> SUFFICES ASSUME TypeOK, LoadInv, NEW k \in DOMAIN q
               PROVE  Len(q[k]) <= 4 * cmds + Cardinality(lent)
    BY DEF QueuesAreBounded
  <1>1. PICK a, b, c \in Nat : /\ Len(q.cmd) = a /\ Len(q.ftb) = b /\ Len(q.etb) = c
                               /\ Total(q) = a + b + c
    BY LoadType, TotalIs
  <1>2. PICK t, m, h, l \in Nat : /\ Total(q) = t /\ Len(msgs) = m
                                  /\ Cardinality(held) = h /\ Cardinality(lent) = l
                                  /\ Fill = t + m + h - l
    BY FillParts
  <1>3. t = a + b + c
    BY <1>1, <1>2, Zenon
  <1>4. DOMAIN q = {"cmd", "ftb", "etb"}
    BY DEF TypeOK
  <1>5. \E n \in {a, b, c} : Len(q[k]) = n
    BY <1>1, <1>4
  <1>6. PICK n \in {a, b, c} : Len(q[k]) = n
    BY <1>5
  <1> DEFINE o == Owed
             w == Bit(waiting)
  <1>7. o \in Nat /\ w \in 0..1 /\ cmds \in Nat
    <2>1. o \in Nat /\ w \in 0..1
      BY OwedType, Zenon
    <2>2. QED BY <2>1 DEF TypeOK
  <1>8. (t + m + h - l) + o + 3 * w <= 4 * cmds
    BY <1>2 DEF LoadInv
  <1> HIDE DEF o, w
  <1>9. n <= 4 * cmds + l
    BY <1>2, <1>3, <1>6, <1>7, <1>8
  <1>10. QED BY <1>2, <1>6, <1>9, Zenon

(* A queue never holds more than four entries for a command that was sent  *)
(* and one for a buffer the client has handed over.                        *)
THEOREM QueuesAreBoundedHolds == Spec => []QueuesAreBounded
  <1>1. QED BY TypeCorrect, LoadCorrect, LoadBounds, PTL

(* Queues with room for that are never full, and no entry is dropped.      *)
Roomy == QueueSize > 4 * MaxCmds + Cardinality(Buffers)

(* ... whatever the client, the driver and the two threads do.             *)
THEOREM RoomyNeverFull == Roomy => (Spec => []NeverFull)
  <1> SUFFICES ASSUME Roomy PROVE Spec => []NeverFull
    OBVIOUS
  <1>1. TypeOK /\ QueuesAreBounded => NeverFull
    <2> SUFFICES ASSUME TypeOK, QueuesAreBounded, NEW k \in DOMAIN q PROVE Len(q[k]) < QueueSize
      BY DEF NeverFull
    <2>1. Len(q[k]) <= 4 * cmds + Cardinality(lent)
      BY DEF QueuesAreBounded
    <2>2. Cardinality(lent) <= Cardinality(Buffers)
      BY CountBuffers, FS_Subset DEF TypeOK
    <2>3. cmds \in Nat /\ cmds <= MaxCmds
      BY BoundsAssumption DEF TypeOK
    <2>4. Cardinality(lent) \in Nat /\ Cardinality(Buffers) \in Nat
      BY LoadType, CountBuffers
    <2>5. Len(q[k]) \in Nat
      BY QueuesType, TotalType DEF TypeOK
    <2>6. QED
      BY <2>1, <2>2, <2>3, <2>4, <2>5, BoundsAssumption DEF Roomy
  <1>2. QED BY <1>1, TypeCorrect, QueuesAreBoundedHolds, PTL

(* Then at rest the driver is in the state the component says it is in, and *)
(* only a port the driver would not flush still turns buffers away.        *)
THEOREM RoomyRestIsTrue == Roomy => (Spec => []RestIsTrue)
  BY RoomyNeverFull, RestHolds, PTL

(* Then a buffer the client has handed over is in one place, and one it has *)
(* back is in none.                                                        *)
THEOREM RoomyOnePlace == Roomy => (Spec => []EachBufferInOnePlace)
  BY RoomyNeverFull, OnePlaceHolds, PTL

(* Then a component that went from Executing or Pause to Idle has given     *)
(* every buffer back and its driver is stopped, but for refused flushes.   *)
THEOREM RoomyIdleIsQuiet == Roomy => (Spec => IdleIsQuiet)
  BY RoomyNeverFull, IdleIsQuietHolds, PTL
=============================================================================
