------------------------- MODULE IngestBatcherProofs -------------------------
(***************************************************************************)
(* Proofs about the ingest coalescer, for every set of store calls, every  *)
(* channel capacity and batch size, and every set of other fence users.    *)
(***************************************************************************)
EXTENDS IngestBatcher, SequenceTheorems, TLAPS

Distinct(s) == \A i, j \in DOMAIN s : s[i] = s[j] => i = j

\* The channel and the flush are sequences that hold a request once between
\* them.
Queues ==
    /\ queue \in Seq(Requests) /\ batch \in Seq(Requests)
    /\ outcomes \in Seq(Outcomes \cup {"none"})
    /\ Distinct(queue) /\ Distinct(batch)
    /\ Elements(queue) \cap Elements(batch) = {}

\* What a handler's place says of its request: a queued request is unanswered
\* and keeps its origin row, one that was not queued yet is not stored, and a
\* handler cleans up only after an answer that is not "stored".
HandlerKnows(r) ==
    /\ r \in Elements(queue) \cup Elements(batch) =>
          caller[r] \in {"waiting", "gone"} /\ answer[r] = "none" /\ r \in origins
    /\ r \in Elements(queue) => r \notin stored
    /\ caller[r] \in {"new", "sending"} => r \notin stored /\ answer[r] = "none"
    /\ caller[r] = "sending" => r \in origins
    /\ caller[r] = "cleanup" => answer[r] \notin {"none", "stored"}

Handlers == \A r \in Requests : HandlerKnows(r)

\* How far the flush is: nothing of it is stored before its transaction, and
\* after it an outcome is "stored" exactly where the memory is.
Flushing ==
    /\ worker \in {"receiving", "dead"} => batch = <<>>
    /\ worker \in {"filling", "admitting", "gating", "upserting"} =>
          Elements(batch) \cap stored = {}
    /\ worker \in {"upserting", "returning", "answering"} =>
          Len(outcomes) = Len(batch)
    /\ worker = "upserting" =>
          \A i \in 1..Len(batch) : outcomes[i] \in {"none", "rejected"}
    /\ worker \in {"returning", "answering"} =>
          \A i \in 1..Len(batch) :
             /\ outcomes[i] # "none"
             /\ outcomes[i] = "stored" <=> batch[i] \in stored

\* The worker is past the fence exactly while the processor runs, and then
\* the fence is open and nobody else is past it.
FenceHeld ==
    /\ worker \in {"gating", "upserting", "returning"} <=> writing = {Worker}
    /\ writing # {} => fence = "open" /\ reading = {} /\ repairing = {}
    /\ repairing # {} => fence = "owed"

BatcherInv ==
    /\ TypeOK
    /\ Queues
    /\ Handlers
    /\ Flushing
    /\ FenceHeld
    /\ AnswerIsTruth
    /\ StoredHasOrigin

-----------------------------------------------------------------------------
(* Sequences and the requests they hold *)

\* A sequence holds what it has at its positions.
LEMMA ElementsOf ==
    ASSUME NEW S, NEW s \in Seq(S)
    PROVE  /\ Len(s) \in Nat /\ DOMAIN s = 1..Len(s)
           /\ Elements(s) \subseteq S
           /\ \A x : x \in Elements(s) <=> \E i \in 1..Len(s) : s[i] = x
  BY LenProperties, ElementOfSeq DEF Elements

\* The empty sequence holds nothing.
LEMMA EmptyElements ==
    /\ Elements(<<>>) = {} /\ Distinct(<<>>) /\ Len(<<>>) = 0
    /\ \A S : <<>> \in Seq(S)
  BY DEF Elements, Distinct

\* Pushing a new request onto a sequence adds that request.
LEMMA AppendElements ==
    ASSUME NEW S, NEW s \in Seq(S), NEW e \in S
    PROVE  /\ Append(s, e) \in Seq(S)
           /\ Len(Append(s, e)) = Len(s) + 1
           /\ Elements(Append(s, e)) = Elements(s) \cup {e}
           /\ Distinct(s) /\ e \notin Elements(s) => Distinct(Append(s, e))
<1> DEFINE t == Append(s, e)
<1>1. /\ t \in Seq(S) /\ Len(t) = Len(s) + 1 /\ Len(s) \in Nat
      /\ \A i \in 1..Len(s) : t[i] = s[i]
      /\ t[Len(s) + 1] = e
  BY AppendProperties, LenProperties
<1>2. /\ DOMAIN s = 1..Len(s) /\ DOMAIN t = 1..(Len(s) + 1)
  BY <1>1, LenProperties
<1> HIDE DEF t
<1>3. Elements(t) = Elements(s) \cup {e}
  <2>1. ASSUME NEW x \in Elements(t) PROVE x \in Elements(s) \cup {e}
    <3>1. PICK i \in 1..(Len(s) + 1) : t[i] = x
      BY <1>2 DEF Elements
    <3>2. CASE i = Len(s) + 1
      BY <1>1, <3>1, <3>2
    <3>3. CASE i \in 1..Len(s)
      BY <1>1, <1>2, <3>1, <3>3 DEF Elements
    <3> QED
      BY <1>1, <3>2, <3>3
  <2>2. ASSUME NEW x \in Elements(s) \cup {e} PROVE x \in Elements(t)
    <3>1. CASE x = e
      <4>1. Len(s) + 1 \in DOMAIN t
        BY <1>1, <1>2
      <4> QED
        BY <1>1, <3>1, <4>1 DEF Elements
    <3>2. CASE x \in Elements(s)
      <4>1. PICK i \in 1..Len(s) : s[i] = x
        BY <1>2, <3>2 DEF Elements
      <4>2. i \in DOMAIN t
        BY <1>1, <1>2
      <4> QED
        BY <1>1, <4>1, <4>2 DEF Elements
    <3> QED
      BY <3>1, <3>2
  <2> QED
    BY <2>1, <2>2
<1>4. ASSUME Distinct(s), e \notin Elements(s) PROVE Distinct(t)
  <2>1. \A i \in 1..Len(s) : s[i] # e
    BY <1>2, <1>4 DEF Elements
  <2> QED
    BY <1>1, <1>2, <1>4, <2>1 DEF Distinct
<1> QED
  BY <1>1, <1>3, <1>4 DEF t

\* Taking the head off a sequence without repetitions removes that request.
LEMMA TailElements ==
    ASSUME NEW S, NEW s \in Seq(S), s # <<>>, Distinct(s)
    PROVE  /\ Tail(s) \in Seq(S) /\ Head(s) \in S
           /\ Len(Tail(s)) = Len(s) - 1 /\ Len(s) \in Nat \ {0}
           /\ Head(s) \in Elements(s)
           /\ Elements(Tail(s)) = Elements(s) \ {Head(s)}
           /\ Distinct(Tail(s))
<1> DEFINE t == Tail(s)
<1>1. /\ t \in Seq(S) /\ Head(s) \in S
      /\ Len(t) = Len(s) - 1 /\ Len(s) \in Nat \ {0}
      /\ \A i \in 1..Len(t) : t[i] = s[i + 1]
  BY HeadTailProperties, EmptySeq
<1>2. DOMAIN s = 1..Len(s) /\ DOMAIN t = 1..(Len(s) - 1)
  BY <1>1, LenProperties
<1>3. Head(s) = s[1]
  OBVIOUS
<1> HIDE DEF t
<1>4. Head(s) \in Elements(s)
  BY <1>1, <1>2, <1>3 DEF Elements
<1>5. Distinct(t)
  <2> SUFFICES ASSUME NEW i \in 1..(Len(s) - 1), NEW j \in 1..(Len(s) - 1),
                      t[i] = t[j]
               PROVE  i = j
    BY <1>2 DEF Distinct
  <2>1. s[i + 1] = s[j + 1] /\ i + 1 \in DOMAIN s /\ j + 1 \in DOMAIN s
    BY <1>1, <1>2
  <2>2. i + 1 = j + 1
    BY <2>1 DEF Distinct
  <2> QED
    BY <2>2
<1>6. Elements(t) = Elements(s) \ {Head(s)}
  <2>1. ASSUME NEW x \in Elements(t) PROVE x \in Elements(s) \ {Head(s)}
    <3>1. PICK i \in 1..(Len(s) - 1) : t[i] = x
      BY <1>2 DEF Elements
    <3>2. x = s[i + 1] /\ i + 1 \in DOMAIN s /\ 1 \in DOMAIN s /\ i + 1 # 1
      BY <1>1, <1>2, <3>1
    <3> QED
      BY <1>3, <3>2 DEF Distinct, Elements
  <2>2. ASSUME NEW x \in Elements(s), x # Head(s) PROVE x \in Elements(t)
    <3>1. PICK i \in 1..Len(s) : s[i] = x
      BY <1>2 DEF Elements
    <3>2. i - 1 \in DOMAIN t /\ t[i - 1] = s[i]
      BY <1>1, <1>2, <1>3, <2>2, <3>1
    <3> QED
      BY <3>1, <3>2 DEF Elements
  <2> QED
    BY <2>1, <2>2
<1> QED
  BY <1>1, <1>4, <1>5, <1>6 DEF t

\* A function on positions is a sequence of their number.
LEMMA FunctionIsSeq ==
    ASSUME NEW S, NEW n \in Nat, NEW f \in [1..n -> S]
    PROVE  f \in Seq(S) /\ Len(f) = n
<1>1. f \in Seq(S)
  BY SeqDef
<1>2. DOMAIN f = 1..n /\ DOMAIN f = 1..Len(f) /\ Len(f) \in Nat
  BY <1>1, LenProperties
<1> QED
  BY <1>1, <1>2

-----------------------------------------------------------------------------
(* The step that each action takes *)

\* Nothing queued, nothing stored and an open fence satisfy the invariant.
LEMMA InitInv == Init => BatcherInv
<1> SUFFICES ASSUME Init PROVE BatcherInv
  OBVIOUS
<1> USE BatcherAssumption, EmptyElements DEF Init, Fence!Init
<1>1. TypeOK
  BY DEF TypeOK, Fence!TypeOK, Outcomes
<1>2. Queues
  BY DEF Queues
<1>3. Handlers
  BY DEF Handlers, HandlerKnows
<1>4. Flushing /\ FenceHeld
  BY DEF Flushing, FenceHeld
<1>5. AnswerIsTruth /\ StoredHasOrigin
  BY DEF AnswerIsTruth, StoredHasOrigin
<1> QED
  BY <1>1, <1>2, <1>3, <1>4, <1>5 DEF BatcherInv

\* A handler that has its origin row has queued nothing yet.
LEMMA WriteOriginInv ==
    ASSUME BatcherInv, NEW r \in Requests, WriteOrigin(r)
    PROVE  BatcherInv'
<1> USE BatcherAssumption DEF BatcherInv, WriteOrigin, Step, fenceVars
<1>1. TypeOK'
  BY DEF TypeOK, Fence!TypeOK, Outcomes
<1>2. Queues'
  BY DEF TypeOK, Queues
<1>3. Handlers'
  BY DEF TypeOK, Queues, Handlers, HandlerKnows, AnswerIsTruth
<1>4. Flushing'
  BY DEF TypeOK, Queues, Handlers, HandlerKnows, Flushing
<1>5. FenceHeld'
  BY DEF TypeOK, FenceHeld
<1>6. AnswerIsTruth'
  BY DEF TypeOK, Handlers, HandlerKnows, AnswerIsTruth
<1>7. StoredHasOrigin'
  BY DEF TypeOK, Handlers, HandlerKnows, AnswerIsTruth, StoredHasOrigin
<1> QED
  BY <1>1, <1>2, <1>3, <1>4, <1>5, <1>6, <1>7

\* The request is new to the channel, unanswered and has its origin row.
LEMMA SendInv ==
    ASSUME BatcherInv, NEW r \in Requests, Send(r)
    PROVE  BatcherInv'
<1> USE BatcherAssumption DEF BatcherInv, Send, Step, fenceVars
<1>0. /\ r \notin Elements(queue) /\ r \notin Elements(batch)
      /\ queue' \in Seq(Requests) /\ Len(queue') = Len(queue) + 1
      /\ Elements(queue') = Elements(queue) \cup {r} /\ Distinct(queue')
      /\ Len(queue) \in Nat
  BY AppendElements, ElementsOf DEF Queues, Handlers, HandlerKnows
<1>1. TypeOK'
  BY <1>0 DEF TypeOK, Fence!TypeOK, Outcomes
<1>2. Queues'
  BY <1>0 DEF TypeOK, Queues
<1>3. Handlers'
  BY <1>0 DEF TypeOK, Queues, Handlers, HandlerKnows, AnswerIsTruth
<1>4. Flushing'
  BY <1>0 DEF TypeOK, Queues, Handlers, HandlerKnows, Flushing
<1>5. FenceHeld'
  BY <1>0 DEF TypeOK, FenceHeld
<1>6. AnswerIsTruth'
  BY <1>0 DEF TypeOK, Handlers, HandlerKnows, AnswerIsTruth
<1>7. StoredHasOrigin'
  BY <1>0 DEF TypeOK, Handlers, HandlerKnows, AnswerIsTruth, StoredHasOrigin
<1> QED
  BY <1>1, <1>2, <1>3, <1>4, <1>5, <1>6, <1>7

\* A handler refused by the closed channel has stored nothing.
LEMMA SendRefusedInv ==
    ASSUME BatcherInv, NEW r \in Requests, SendRefused(r)
    PROVE  BatcherInv'
<1> USE BatcherAssumption DEF BatcherInv, SendRefused, Step, fenceVars
<1>1. TypeOK'
  BY DEF TypeOK, Fence!TypeOK, Outcomes
<1>2. Queues'
  BY DEF TypeOK, Queues
<1>3. Handlers'
  BY DEF TypeOK, Queues, Handlers, HandlerKnows, AnswerIsTruth
<1>4. Flushing'
  BY DEF TypeOK, Queues, Handlers, HandlerKnows, Flushing
<1>5. FenceHeld'
  BY DEF TypeOK, FenceHeld
<1>6. AnswerIsTruth'
  BY DEF TypeOK, Handlers, HandlerKnows, AnswerIsTruth
<1>7. StoredHasOrigin'
  BY DEF TypeOK, Handlers, HandlerKnows, AnswerIsTruth, StoredHasOrigin
<1> QED
  BY <1>1, <1>2, <1>3, <1>4, <1>5, <1>6, <1>7

\* A handler that goes on to clean up was not told "stored".
LEMMA ResumeInv ==
    ASSUME BatcherInv, NEW r \in Requests, Resume(r)
    PROVE  BatcherInv'
<1> USE BatcherAssumption DEF BatcherInv, Resume, Step, fenceVars
<1>1. TypeOK'
  BY DEF TypeOK, Fence!TypeOK, Outcomes
<1>2. Queues'
  BY DEF TypeOK, Queues
<1>3. Handlers'
  BY DEF TypeOK, Queues, Handlers, HandlerKnows, AnswerIsTruth
<1>4. Flushing'
  BY DEF TypeOK, Queues, Handlers, HandlerKnows, Flushing
<1>5. FenceHeld'
  BY DEF TypeOK, FenceHeld
<1>6. AnswerIsTruth'
  BY DEF TypeOK, Handlers, HandlerKnows, AnswerIsTruth
<1>7. StoredHasOrigin'
  BY DEF TypeOK, Handlers, HandlerKnows, AnswerIsTruth, StoredHasOrigin
<1> QED
  BY <1>1, <1>2, <1>3, <1>4, <1>5, <1>6, <1>7

\* An origin row goes only where nothing is queued and nothing stored.
LEMMA CleanupInv ==
    ASSUME BatcherInv, NEW r \in Requests, Cleanup(r)
    PROVE  BatcherInv'
<1> USE BatcherAssumption DEF BatcherInv, Cleanup, Step, fenceVars
<1>1. TypeOK'
  BY DEF TypeOK, Fence!TypeOK, Outcomes
<1>2. Queues'
  BY DEF TypeOK, Queues
<1>3. Handlers'
  BY DEF TypeOK, Queues, Handlers, HandlerKnows, AnswerIsTruth
<1>4. Flushing'
  BY DEF TypeOK, Queues, Handlers, HandlerKnows, Flushing
<1>5. FenceHeld'
  BY DEF TypeOK, FenceHeld
<1>6. AnswerIsTruth'
  BY DEF TypeOK, Handlers, HandlerKnows, AnswerIsTruth
<1>7. StoredHasOrigin'
  BY DEF TypeOK, Handlers, HandlerKnows, AnswerIsTruth, StoredHasOrigin
<1> QED
  BY <1>1, <1>2, <1>3, <1>4, <1>5, <1>6, <1>7

\* A dropped handler leaves its request, its origin and its answer alone.
LEMMA DisconnectInv ==
    ASSUME BatcherInv, NEW r \in Requests, Disconnect(r)
    PROVE  BatcherInv'
<1> USE BatcherAssumption DEF BatcherInv, Disconnect, Step, fenceVars
<1>1. TypeOK'
  BY DEF TypeOK, Fence!TypeOK, Outcomes
<1>2. Queues'
  BY DEF TypeOK, Queues
<1>3. Handlers'
  BY DEF TypeOK, Queues, Handlers, HandlerKnows, AnswerIsTruth
<1>4. Flushing'
  BY DEF TypeOK, Queues, Handlers, HandlerKnows, Flushing
<1>5. FenceHeld'
  BY DEF TypeOK, FenceHeld
<1>6. AnswerIsTruth'
  BY DEF TypeOK, Handlers, HandlerKnows, AnswerIsTruth
<1>7. StoredHasOrigin'
  BY DEF TypeOK, Handlers, HandlerKnows, AnswerIsTruth, StoredHasOrigin
<1> QED
  BY <1>1, <1>2, <1>3, <1>4, <1>5, <1>6, <1>7

\* The first request of a flush moves from the channel to the batch.
LEMMA ReceiveInv ==
    ASSUME BatcherInv, Receive
    PROVE  BatcherInv'
<1> USE BatcherAssumption DEF BatcherInv, Receive, callerVars, fenceVars
<1>0. /\ queue' \in Seq(Requests) /\ Distinct(queue') /\ Head(queue) \in Requests
      /\ Len(queue') = Len(queue) - 1 /\ Len(queue) \in Nat
      /\ Elements(queue') = Elements(queue) \ {Head(queue)}
      /\ Head(queue) \in Elements(queue)
      /\ batch' \in Seq(Requests) /\ Elements(batch') = {Head(queue)}
      /\ Len(batch') = 1 /\ Distinct(batch')
  <2>1. batch' \in Seq(Requests) /\ Len(batch') = 1 /\ batch'[1] = Head(queue)
    BY TailElements DEF Queues
  <2>2. Elements(batch') = {Head(queue)} /\ Distinct(batch')
    BY <2>1, LenProperties DEF Elements, Distinct
  <2> QED
    BY <2>1, <2>2, TailElements DEF Queues
<1>1. TypeOK'
  BY <1>0 DEF TypeOK, Fence!TypeOK, Outcomes
<1>2. Queues'
  BY <1>0 DEF TypeOK, Queues
<1>3. Handlers'
  BY <1>0 DEF TypeOK, Queues, Handlers, HandlerKnows, AnswerIsTruth
<1>4. Flushing'
  <2>1. Head(queue) \notin stored
    BY <1>0 DEF Handlers, HandlerKnows
  <2> QED
    BY <1>0, <2>1 DEF Flushing
<1>5. FenceHeld'
  BY <1>0 DEF TypeOK, FenceHeld
<1>6. AnswerIsTruth'
  BY <1>0 DEF TypeOK, Handlers, HandlerKnows, AnswerIsTruth
<1>7. StoredHasOrigin'
  BY <1>0 DEF TypeOK, Handlers, HandlerKnows, AnswerIsTruth, StoredHasOrigin
<1> QED
  BY <1>1, <1>2, <1>3, <1>4, <1>5, <1>6, <1>7

\* A further request moves from the channel to the batch.
LEMMA FillInv ==
    ASSUME BatcherInv, Fill
    PROVE  BatcherInv'
<1> USE BatcherAssumption DEF BatcherInv, Fill, callerVars, fenceVars
<1>0. /\ queue' \in Seq(Requests) /\ Distinct(queue') /\ Head(queue) \in Requests
      /\ Len(queue') = Len(queue) - 1 /\ Len(queue) \in Nat
      /\ Elements(queue') = Elements(queue) \ {Head(queue)}
      /\ Head(queue) \in Elements(queue)
      /\ batch' \in Seq(Requests)
      /\ Elements(batch') = Elements(batch) \cup {Head(queue)}
      /\ Len(batch') = Len(batch) + 1 /\ Len(batch) \in Nat /\ Distinct(batch')
  <2>1. /\ queue' \in Seq(Requests) /\ Distinct(queue') /\ Head(queue) \in Requests
        /\ Len(queue') = Len(queue) - 1 /\ Len(queue) \in Nat
        /\ Elements(queue') = Elements(queue) \ {Head(queue)}
        /\ Head(queue) \in Elements(queue)
    BY TailElements DEF Queues
  <2>2. Head(queue) \notin Elements(batch)
    BY <2>1 DEF Queues
  <2> QED
    BY <2>1, <2>2, AppendElements, ElementsOf DEF Queues
<1>1. TypeOK'
  BY <1>0 DEF TypeOK, Fence!TypeOK, Outcomes
<1>2. Queues'
  BY <1>0 DEF TypeOK, Queues
<1>3. Handlers'
  BY <1>0 DEF TypeOK, Queues, Handlers, HandlerKnows, AnswerIsTruth
<1>4. Flushing'
  BY <1>0 DEF TypeOK, Queues, Handlers, HandlerKnows, Flushing
<1>5. FenceHeld'
  BY <1>0 DEF TypeOK, FenceHeld
<1>6. AnswerIsTruth'
  BY <1>0 DEF TypeOK, Handlers, HandlerKnows, AnswerIsTruth
<1>7. StoredHasOrigin'
  BY <1>0 DEF TypeOK, Handlers, HandlerKnows, AnswerIsTruth, StoredHasOrigin
<1> QED
  BY <1>1, <1>2, <1>3, <1>4, <1>5, <1>6, <1>7

\* The batch is complete; nothing else changes.
LEMMA CloseWindowInv ==
    ASSUME BatcherInv, CloseWindow
    PROVE  BatcherInv'
<1> USE BatcherAssumption DEF BatcherInv, CloseWindow, callerVars, fenceVars
<1>1. TypeOK'
  BY DEF TypeOK, Fence!TypeOK, Outcomes
<1>2. Queues'
  BY DEF TypeOK, Queues
<1>3. Handlers'
  BY DEF TypeOK, Queues, Handlers, HandlerKnows, AnswerIsTruth
<1>4. Flushing'
  BY DEF TypeOK, Queues, Handlers, HandlerKnows, Flushing
<1>5. FenceHeld'
  BY DEF TypeOK, FenceHeld
<1>6. AnswerIsTruth'
  BY DEF TypeOK, Handlers, HandlerKnows, AnswerIsTruth
<1>7. StoredHasOrigin'
  BY DEF TypeOK, Handlers, HandlerKnows, AnswerIsTruth, StoredHasOrigin
<1> QED
  BY <1>1, <1>2, <1>3, <1>4, <1>5, <1>6, <1>7

\* The worker passes an open fence that nobody else is past.
LEMMA AdmitInv ==
    ASSUME BatcherInv, Admit
    PROVE  BatcherInv'
<1> USE BatcherAssumption DEF BatcherInv, Admit, callerVars, Fence!BeginWrite
<1>1. TypeOK'
  BY DEF TypeOK, Fence!TypeOK, Outcomes
<1>2. Queues'
  BY DEF TypeOK, Queues
<1>3. Handlers'
  BY DEF TypeOK, Queues, Handlers, HandlerKnows, AnswerIsTruth
<1>4. Flushing'
  BY DEF TypeOK, Queues, Handlers, HandlerKnows, Flushing
<1>5. FenceHeld'
  <2>1. writing = {} /\ repairing = {}
    BY DEF TypeOK, Fence!TypeOK, FenceHeld
  <2> QED
    BY <2>1 DEF FenceHeld
<1>6. AnswerIsTruth'
  BY DEF TypeOK, Handlers, HandlerKnows, AnswerIsTruth
<1>7. StoredHasOrigin'
  BY DEF TypeOK, Handlers, HandlerKnows, AnswerIsTruth, StoredHasOrigin
<1> QED
  BY <1>1, <1>2, <1>3, <1>4, <1>5, <1>6, <1>7

\* One verdict per request of the batch.
LEMMA GateInv ==
    ASSUME BatcherInv, Gate
    PROVE  BatcherInv'
<1> USE BatcherAssumption DEF BatcherInv, Gate, callerVars, fenceVars
<1>0. /\ outcomes' \in Seq(Outcomes \cup {"none"}) /\ Len(outcomes') = Len(batch)
      /\ \A i \in 1..Len(batch) : outcomes'[i] \in {"none", "rejected"}
      /\ Elements(outcomes') \subseteq Outcomes \cup {"none"}
  <2>1. Len(batch) \in Nat /\ DOMAIN batch = 1..Len(batch)
    BY LenProperties DEF Queues
  <2>2. outcomes' \in [1..Len(batch) -> Outcomes \cup {"none"}]
    BY <2>1 DEF Outcomes
  <2>3. outcomes' \in Seq(Outcomes \cup {"none"}) /\ Len(outcomes') = Len(batch)
    BY <2>1, <2>2, FunctionIsSeq
  <2> QED
    BY <2>1, <2>3, ElementsOf
<1>1. TypeOK'
  BY <1>0 DEF TypeOK, Fence!TypeOK, Outcomes
<1>2. Queues'
  BY <1>0 DEF TypeOK, Queues
<1>3. Handlers'
  BY <1>0 DEF TypeOK, Queues, Handlers, HandlerKnows, AnswerIsTruth
<1>4. Flushing'
  BY <1>0 DEF TypeOK, Queues, Handlers, HandlerKnows, Flushing
<1>5. FenceHeld'
  BY <1>0 DEF TypeOK, FenceHeld
<1>6. AnswerIsTruth'
  BY <1>0 DEF TypeOK, Handlers, HandlerKnows, AnswerIsTruth
<1>7. StoredHasOrigin'
  BY <1>0 DEF TypeOK, Handlers, HandlerKnows, AnswerIsTruth, StoredHasOrigin
<1> QED
  BY <1>1, <1>2, <1>3, <1>4, <1>5, <1>6, <1>7

\* Either every survivor is stored and told so, or none is.
LEMMA UpsertInv ==
    ASSUME BatcherInv, Upsert
    PROVE  BatcherInv'
<1> USE BatcherAssumption DEF BatcherInv, Upsert, callerVars, fenceVars
<1>0. /\ outcomes' \in Seq(Outcomes \cup {"none"}) /\ Len(outcomes') = Len(batch)
      /\ \A i \in 1..Len(batch) :
           /\ outcomes'[i] # "none"
           /\ outcomes'[i] = "stored" <=> batch[i] \in stored'
      /\ Elements(outcomes') \subseteq Outcomes \cup {"none"}
      /\ stored \subseteq stored' /\ stored' \subseteq stored \cup Elements(batch)
  <2>1. /\ Len(batch) \in Nat /\ DOMAIN batch = 1..Len(batch)
        /\ DOMAIN outcomes = 1..Len(batch) /\ Len(outcomes) = Len(batch)
    BY LenProperties DEF Queues, Flushing
  <2>2. \A i \in 1..Len(batch) : outcomes[i] \in {"none", "rejected"}
    BY DEF Flushing
  <2>3. Survivors = {i \in 1..Len(batch) : outcomes[i] = "none"}
    BY <2>1 DEF Survivors
  <2>4. \A i \in 1..Len(batch) : batch[i] \in Elements(batch)
                                /\ batch[i] \notin stored
    BY <2>1 DEF Elements, Flushing
  <2>5. PICK result \in {"stored", "invalid", "failed"} :
           /\ outcomes' = WithResult(result)
           /\ stored' = IF result = "stored"
                          THEN stored \cup {batch[i] : i \in Survivors}
                          ELSE stored
    OBVIOUS
  <2>6. /\ outcomes' \in [1..Len(batch) -> Outcomes]
        /\ \A i \in 1..Len(batch) :
             outcomes'[i] = IF outcomes[i] = "none" THEN result ELSE "rejected"
    BY <2>1, <2>2, <2>3, <2>5 DEF WithResult, Outcomes
  <2>7. /\ outcomes' \in Seq(Outcomes \cup {"none"})
        /\ Len(outcomes') = Len(batch)
    <3>1. outcomes' \in [1..Len(batch) -> Outcomes \cup {"none"}]
      BY <2>6
    <3> QED
      BY <2>1, <3>1, FunctionIsSeq
  <2>8. ASSUME NEW i \in 1..Len(batch)
        PROVE  batch[i] \in stored' <=> result = "stored" /\ outcomes[i] = "none"
    <3>1. ASSUME result = "stored", batch[i] \in stored' PROVE outcomes[i] = "none"
      <4>1. PICK j \in Survivors : batch[j] = batch[i]
        BY <2>4, <2>5, <3>1
      <4>2. j = i
        BY <2>1, <2>3, <4>1 DEF Queues, Distinct
      <4> QED
        BY <2>3, <4>2
    <3> QED
      BY <2>3, <2>4, <2>5, <3>1
  <2>9. \A i \in 1..Len(batch) :
           /\ outcomes'[i] # "none"
           /\ outcomes'[i] = "stored" <=> batch[i] \in stored'
    BY <2>2, <2>6, <2>8
  <2>10. stored \subseteq stored' /\ stored' \subseteq stored \cup Elements(batch)
    BY <2>3, <2>4, <2>5
  <2> QED
    BY <2>7, <2>9, <2>10, ElementsOf
<1>1. TypeOK'
  BY <1>0 DEF TypeOK, Fence!TypeOK, Outcomes
<1>2. Queues'
  BY <1>0 DEF TypeOK, Queues
<1>3. Handlers'
  BY <1>0 DEF TypeOK, Queues, Handlers, HandlerKnows, AnswerIsTruth
<1>4. Flushing'
  BY <1>0 DEF TypeOK, Queues, Handlers, HandlerKnows, Flushing
<1>5. FenceHeld'
  BY <1>0 DEF TypeOK, FenceHeld
<1>6. AnswerIsTruth'
  BY <1>0 DEF TypeOK, Handlers, HandlerKnows, AnswerIsTruth
<1>7. StoredHasOrigin'
  BY <1>0 DEF TypeOK, Handlers, HandlerKnows, AnswerIsTruth, StoredHasOrigin
<1> QED
  BY <1>1, <1>2, <1>3, <1>4, <1>5, <1>6, <1>7

\* The worker leaves the fence and answers after that.
LEMMA ReturnInv ==
    ASSUME BatcherInv, Return
    PROVE  BatcherInv'
<1> USE BatcherAssumption DEF BatcherInv, Return, callerVars, Fence!EndWrite
<1>1. TypeOK'
  BY DEF TypeOK, Fence!TypeOK, Outcomes
<1>2. Queues'
  BY DEF TypeOK, Queues
<1>3. Handlers'
  BY DEF TypeOK, Queues, Handlers, HandlerKnows, AnswerIsTruth
<1>4. Flushing'
  BY DEF TypeOK, Queues, Handlers, HandlerKnows, Flushing
<1>5. FenceHeld'
  BY DEF TypeOK, FenceHeld
<1>6. AnswerIsTruth'
  BY DEF TypeOK, Handlers, HandlerKnows, AnswerIsTruth
<1>7. StoredHasOrigin'
  BY DEF TypeOK, Handlers, HandlerKnows, AnswerIsTruth, StoredHasOrigin
<1> QED
  BY <1>1, <1>2, <1>3, <1>4, <1>5, <1>6, <1>7

\* The flush is over and the worker goes back to receiving.
LEMMA AnswerLastInv ==
    ASSUME BatcherInv, Answer, batch = <<>>
    PROVE  BatcherInv'
<1> USE BatcherAssumption DEF BatcherInv, Answer, callerVars, fenceVars
<1>1. TypeOK'
  BY DEF TypeOK, Fence!TypeOK, Outcomes
<1>2. Queues'
  BY DEF TypeOK, Queues
<1>3. Handlers'
  BY DEF TypeOK, Queues, Handlers, HandlerKnows, AnswerIsTruth
<1>4. Flushing'
  BY DEF TypeOK, Queues, Handlers, HandlerKnows, Flushing
<1>5. FenceHeld'
  BY DEF TypeOK, FenceHeld
<1>6. AnswerIsTruth'
  BY DEF TypeOK, Handlers, HandlerKnows, AnswerIsTruth
<1>7. StoredHasOrigin'
  BY DEF TypeOK, Handlers, HandlerKnows, AnswerIsTruth, StoredHasOrigin
<1> QED
  BY <1>1, <1>2, <1>3, <1>4, <1>5, <1>6, <1>7

\* The head of the batch is told its own outcome.
LEMMA AnswerNextInv ==
    ASSUME BatcherInv, Answer, batch # <<>>
    PROVE  BatcherInv'
<1> USE BatcherAssumption DEF BatcherInv, Answer, callerVars, fenceVars
<1>1. /\ batch' = Tail(batch) /\ outcomes' = Tail(outcomes)
      /\ answer' = [answer EXCEPT ![Head(batch)] = Head(outcomes)]
      /\ UNCHANGED worker
  OBVIOUS
<1>2. /\ Head(batch) \in Requests /\ Head(batch) \in Elements(batch)
      /\ batch' \in Seq(Requests) /\ Distinct(batch')
      /\ Elements(batch') = Elements(batch) \ {Head(batch)}
      /\ Len(batch) \in Nat \ {0} /\ Len(batch') = Len(batch) - 1
      /\ \A i \in 1..Len(batch') : batch'[i] = batch[i + 1]
  <2>1. batch \in Seq(Requests) /\ Distinct(batch)
    BY DEF Queues
  <2>2. \A i \in 1..Len(Tail(batch)) : Tail(batch)[i] = batch[i + 1]
    BY <2>1, HeadTailProperties
  <2> QED
    BY <1>1, <2>1, <2>2, TailElements
<1>3. /\ outcomes' \in Seq(Outcomes \cup {"none"})
      /\ Len(outcomes) = Len(batch) /\ Len(outcomes') = Len(batch')
      /\ \A i \in 1..Len(batch') : outcomes'[i] = outcomes[i + 1]
      /\ Elements(outcomes') \subseteq Outcomes \cup {"none"}
  <2>1. Len(outcomes) = Len(batch) /\ outcomes # <<>>
    BY <1>2, EmptyElements DEF Flushing
  <2>2. /\ outcomes' \in Seq(Outcomes \cup {"none"})
        /\ Len(outcomes') = Len(outcomes) - 1
        /\ \A i \in 1..Len(outcomes') : outcomes'[i] = outcomes[i + 1]
    <3>1. outcomes \in Seq(Outcomes \cup {"none"})
      BY DEF Queues
    <3>2. /\ Tail(outcomes) \in Seq(Outcomes \cup {"none"})
          /\ Len(Tail(outcomes)) = Len(outcomes) - 1
          /\ \A i \in 1..Len(Tail(outcomes)) : Tail(outcomes)[i] = outcomes[i + 1]
      BY <2>1, <3>1, HeadTailProperties
    <3> QED
      BY <1>1, <3>2
  <2> QED
    BY <1>2, <2>1, <2>2, ElementsOf
<1>4. /\ answer' = [answer EXCEPT ![Head(batch)] = Head(outcomes)]
      /\ Head(outcomes) \in Outcomes
      /\ Head(outcomes) = "stored" <=> Head(batch) \in stored
  <2>1. 1 \in 1..Len(batch) /\ Head(batch) = batch[1] /\ Head(outcomes) = outcomes[1]
    BY <1>2
  <2>2. /\ outcomes[1] # "none" /\ outcomes[1] \in Outcomes \cup {"none"}
        /\ outcomes[1] = "stored" <=> batch[1] \in stored
    BY <1>2, <1>3, <2>1, ElementOfSeq DEF Flushing, Queues
  <2> QED
    BY <2>1, <2>2
<1>5. TypeOK'
  BY <1>2, <1>3, <1>4 DEF TypeOK, Fence!TypeOK, Outcomes
<1>6. Queues'
  BY <1>2, <1>3, <1>4 DEF TypeOK, Queues
<1>7. Handlers'
  BY <1>2, <1>3, <1>4 DEF TypeOK, Queues, Handlers, HandlerKnows, AnswerIsTruth
<1>8. Flushing'
  <2>1. ASSUME NEW i \in 1..Len(batch')
        PROVE  /\ outcomes'[i] # "none"
               /\ outcomes'[i] = "stored" <=> batch'[i] \in stored'
    <3>1. i + 1 \in 1..Len(batch)
      BY <1>2
    <3> QED
      BY <1>2, <1>3, <3>1 DEF Flushing
  <2> QED
    BY <1>2, <1>3, <2>1 DEF Flushing
<1>9. FenceHeld'
  BY <1>2, <1>3, <1>4 DEF TypeOK, FenceHeld
<1>10. AnswerIsTruth'
  BY <1>2, <1>3, <1>4 DEF TypeOK, Handlers, HandlerKnows, AnswerIsTruth
<1>11. StoredHasOrigin'
  BY <1>2, <1>3, <1>4 DEF TypeOK, Handlers, HandlerKnows, AnswerIsTruth, StoredHasOrigin
<1> QED
  BY <1>5, <1>6, <1>7, <1>8, <1>9, <1>10, <1>11

\* A dying worker has stored nothing of what it drops.
LEMMA PanicInv ==
    ASSUME BatcherInv, Panic
    PROVE  BatcherInv'
<1> USE BatcherAssumption DEF BatcherInv, Panic, callerVars, Fence!EndWrite
<1>1. TypeOK'
  BY EmptyElements DEF TypeOK, Fence!TypeOK, Outcomes
<1>2. Queues'
  BY EmptyElements DEF TypeOK, Queues
<1>3. Handlers'
  BY EmptyElements DEF TypeOK, Queues, Handlers, HandlerKnows, AnswerIsTruth
<1>4. Flushing'
  BY EmptyElements DEF TypeOK, Queues, Handlers, HandlerKnows, Flushing
<1>5. FenceHeld'
  BY EmptyElements DEF TypeOK, FenceHeld
<1>6. AnswerIsTruth'
  BY DEF TypeOK, Handlers, HandlerKnows, Flushing, AnswerIsTruth
<1>7. StoredHasOrigin'
  BY EmptyElements DEF TypeOK, Handlers, HandlerKnows, AnswerIsTruth, StoredHasOrigin
<1> QED
  BY <1>1, <1>2, <1>3, <1>4, <1>5, <1>6, <1>7

\* A Space that goes touches no request.
LEMMA DeleteSpaceInv ==
    ASSUME BatcherInv, NEW s \in Spaces, DeleteSpace(s)
    PROVE  BatcherInv'
<1> USE BatcherAssumption DEF BatcherInv, DeleteSpace, callerVars, fenceVars
<1>1. TypeOK'
  BY DEF TypeOK, Fence!TypeOK, Outcomes
<1>2. Queues'
  BY DEF TypeOK, Queues
<1>3. Handlers'
  BY DEF TypeOK, Queues, Handlers, HandlerKnows, AnswerIsTruth
<1>4. Flushing'
  BY DEF TypeOK, Queues, Handlers, HandlerKnows, Flushing
<1>5. FenceHeld'
  BY DEF TypeOK, FenceHeld
<1>6. AnswerIsTruth'
  BY DEF TypeOK, Handlers, HandlerKnows, AnswerIsTruth
<1>7. StoredHasOrigin'
  BY DEF TypeOK, Handlers, HandlerKnows, AnswerIsTruth, StoredHasOrigin
<1> QED
  BY <1>1, <1>2, <1>3, <1>4, <1>5, <1>6, <1>7

\* Snapshots and repairs keep out of the fence while the worker is past it.
LEMMA OthersUseFenceInv ==
    ASSUME BatcherInv, OthersUseFence
    PROVE  BatcherInv'
<1> USE BatcherAssumption DEF BatcherInv, OthersUseFence, callerVars, Fence!BeginRead, Fence!EndRead, Fence!BeginRepair, Fence!EndRepair, Fence!Lapse, Fence!Arm
<1>1. TypeOK'
  BY DEF TypeOK, Fence!TypeOK, Outcomes
<1>2. Queues'
  BY DEF TypeOK, Queues
<1>3. Handlers'
  BY DEF TypeOK, Queues, Handlers, HandlerKnows, AnswerIsTruth
<1>4. Flushing'
  BY DEF TypeOK, Queues, Handlers, HandlerKnows, Flushing
<1>5. FenceHeld'
  BY DEF TypeOK, FenceHeld
<1>6. AnswerIsTruth'
  BY DEF TypeOK, Handlers, HandlerKnows, AnswerIsTruth
<1>7. StoredHasOrigin'
  BY DEF TypeOK, Handlers, HandlerKnows, AnswerIsTruth, StoredHasOrigin
<1> QED
  BY <1>1, <1>2, <1>3, <1>4, <1>5, <1>6, <1>7

-----------------------------------------------------------------------------
(* The results *)

\* Nothing changes, so the invariant still holds.
LEMMA StutterInv ==
    ASSUME BatcherInv, UNCHANGED vars
    PROVE  BatcherInv'
<1> USE DEF vars, callerVars, fenceVars, BatcherInv
<1>1. TypeOK'
  BY DEF TypeOK, Fence!TypeOK, Outcomes, Elements
<1>2. Queues'
  BY DEF Queues, Outcomes, Elements, Distinct
<1>3. Handlers' /\ Flushing'
  BY DEF Handlers, HandlerKnows, Flushing, Elements
<1>4. FenceHeld' /\ AnswerIsTruth' /\ StoredHasOrigin'
  BY DEF FenceHeld, AnswerIsTruth, StoredHasOrigin
<1> QED
  BY <1>1, <1>2, <1>3, <1>4

\* Every step of a handler, of the worker and of the environment keeps the
\* invariant.
LEMMA StepInv ==
    ASSUME BatcherInv, [Next]_vars
    PROVE  BatcherInv'
<1>1. CASE \E r \in Requests : Handler(r) \/ Disconnect(r)
  BY <1>1, WriteOriginInv, SendInv, SendRefusedInv, ResumeInv, CleanupInv,
     DisconnectInv DEF Handler
<1>2. CASE Coalescer
  BY <1>2, ReceiveInv, FillInv, CloseWindowInv, AdmitInv, GateInv, UpsertInv,
     ReturnInv, AnswerLastInv, AnswerNextInv DEF Coalescer
<1>3. CASE Panic
  BY <1>3, PanicInv
<1>4. CASE \E s \in Spaces : DeleteSpace(s)
  BY <1>4, DeleteSpaceInv
<1>5. CASE OthersUseFence
  BY <1>5, OthersUseFenceInv
<1>6. CASE Finished \/ UNCHANGED vars
  BY <1>6, StutterInv DEF Finished
<1> QED
  BY <1>1, <1>2, <1>3, <1>4, <1>5, <1>6 DEF Next

\* The invariant holds in every state of every run of the batcher.
THEOREM BatcherInvariant == Spec => []BatcherInv
<1>1. Spec => Init /\ [][Next]_vars
  BY PTL DEF Spec
<1> QED
  BY <1>1, InitInv, StepInv, PTL

\* The variables keep their types: the channel stays within its capacity, a
\* flush within max_batch, and every responder has its outcome slot.
THEOREM TypeCorrect == Spec => []TypeOK
<1>1. BatcherInv => TypeOK
  BY DEF BatcherInv
<1> QED
  BY <1>1, BatcherInvariant, PTL

\* A handler is told the truth about its own memory, for good: results are
\* at the positions of their requests whatever the gate let through.
THEOREM AnswersAreTrue == Spec => []AnswerIsTruth
<1>1. BatcherInv => AnswerIsTruth
  BY DEF BatcherInv
<1> QED
  BY <1>1, BatcherInvariant, PTL

\* No stored memory is without its enrichment_origin row: a row is deleted
\* only by a handler whose request can no longer be stored.
THEOREM StoredKeepsItsOrigin == Spec => []StoredHasOrigin
<1>1. BatcherInv => StoredHasOrigin
  BY DEF BatcherInv
<1> QED
  BY <1>1, BatcherInvariant, PTL

\* Memories are stored by the transaction only.
LEMMA OnlyUpsertStores ==
    ASSUME [Next]_vars, stored' # stored
    PROVE  Upsert
<1> USE DEF vars, callerVars, fenceVars
<1>1. ~UNCHANGED vars /\ ~Finished /\ ~OthersUseFence /\ ~Panic
  BY DEF Finished, OthersUseFence, Panic
<1>2. ~\E s \in Spaces : DeleteSpace(s)
  BY DEF DeleteSpace
<1>3. ~\E r \in Requests : Handler(r) \/ Disconnect(r)
  BY DEF Handler, WriteOrigin, Send, SendRefused, Resume, Cleanup, Disconnect
<1>4. ~(Receive \/ Fill \/ CloseWindow \/ Admit \/ Gate \/ Return \/ Answer)
  BY DEF Receive, Fill, CloseWindow, Admit, Gate, Return, Answer
<1> QED
  BY <1>1, <1>2, <1>3, <1>4 DEF Next, Coalescer

\* A flush commits only behind the fence, whatever happened to the fence
\* while the batch was collected.
THEOREM StoresBehindFence == Spec => StoreBehindFence
<1>1. ASSUME BatcherInv, [Next]_vars, stored' # stored
      PROVE  /\ writing = {Worker} /\ repairing = {} /\ reading = {}
             /\ fence = "open"
  <2>1. worker = "upserting"
    BY <1>1, OnlyUpsertStores DEF Upsert
  <2>2. writing = {Worker}
    BY <1>1, <2>1 DEF BatcherInv, FenceHeld
  <2> QED
    BY <1>1, <2>2 DEF BatcherInv, FenceHeld
<1>2. Spec => [][Next]_vars
  BY PTL DEF Spec
<1> QED
  BY <1>1, <1>2, BatcherInvariant, PTL DEF StoreBehindFence
==============================================================================
