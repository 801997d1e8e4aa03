------------------------- MODULE SenderThreadProofs -------------------------
(***************************************************************************)
(* Proofs about SenderThread, for any number of chunks and of payloads.    *)
(***************************************************************************)
EXTENDS SenderThread, SequenceTheorems, TLAPS

(* What the lists of chunks do to the set of their elements.               *)
LEMMA AppendElements ==
  ASSUME NEW S, NEW s \in Seq(S), NEW c \in S
  PROVE  /\ Append(s, c) \in Seq(S)
         /\ ElementsOf(Append(s, c)) = ElementsOf(s) \cup {c}
         /\ Distinct(s) /\ c \notin ElementsOf(s) => Distinct(Append(s, c))
<1>1. /\ Append(s, c) \in Seq(S) /\ Len(s) \in Nat
      /\ DOMAIN s = 1 .. Len(s)
      /\ DOMAIN Append(s, c) = 1 .. Len(s) + 1
      /\ \A i \in 1 .. Len(s) : Append(s, c)[i] = s[i]
      /\ Append(s, c)[Len(s) + 1] = c
  OBVIOUS
<1>2. 1 .. Len(s) + 1 = 1 .. Len(s) \cup {Len(s) + 1}
  BY <1>1
<1>3. ElementsOf(Append(s, c)) = ElementsOf(s) \cup {c}
  <2>1. ASSUME NEW x \in ElementsOf(Append(s, c))
        PROVE  x \in ElementsOf(s) \cup {c}
    BY <1>1, <1>2, <2>1 DEF ElementsOf
  <2>2. ASSUME NEW x \in ElementsOf(s) \cup {c}
        PROVE  x \in ElementsOf(Append(s, c))
    BY <1>1, <1>2, <2>2 DEF ElementsOf
  <2> QED
    BY <2>1, <2>2
<1>4. ASSUME Distinct(s), c \notin ElementsOf(s) PROVE Distinct(Append(s, c))
  BY <1>1, <1>4 DEF Distinct, ElementsOf
<1> QED
  BY <1>1, <1>3, <1>4

LEMMA TailElements ==
  ASSUME NEW S, NEW s \in Seq(S), s # <<>>
  PROVE  /\ Tail(s) \in Seq(S) /\ Head(s) \in S
         /\ ElementsOf(s) = ElementsOf(Tail(s)) \cup {Head(s)}
         /\ Distinct(s) => /\ Distinct(Tail(s))
                           /\ Head(s) \notin ElementsOf(Tail(s))
<1>1. /\ Tail(s) \in Seq(S) /\ Head(s) \in S /\ Head(s) = s[1]
      /\ Len(s) \in Nat /\ Len(s) >= 1
      /\ DOMAIN s = 1 .. Len(s) /\ DOMAIN Tail(s) = 1 .. Len(s) - 1
      /\ \A i \in 1 .. Len(s) - 1 : Tail(s)[i] = s[i + 1]
  OBVIOUS
<1>2. ASSUME NEW x \in ElementsOf(s)
      PROVE  x \in ElementsOf(Tail(s)) \cup {Head(s)}
  <2>1. PICK i \in 1 .. Len(s) : x = s[i]
    BY <1>1 DEF ElementsOf
  <2>2. CASE i = 1
    BY <1>1, <2>1, <2>2
  <2>3. CASE i # 1
    <3>1. i - 1 \in 1 .. Len(s) - 1 /\ Tail(s)[i - 1] = x
      BY <1>1, <2>1, <2>3
    <3> QED
      BY <1>1, <3>1 DEF ElementsOf
  <2> QED
    BY <2>2, <2>3
<1>3. ASSUME NEW x \in ElementsOf(Tail(s)) \cup {Head(s)}
      PROVE  x \in ElementsOf(s)
  BY <1>1 DEF ElementsOf
<1>4. ASSUME Distinct(s)
      PROVE  Distinct(Tail(s)) /\ Head(s) \notin ElementsOf(Tail(s))
  BY <1>1, <1>4 DEF Distinct, ElementsOf
<1> QED
  BY <1>1, <1>2, <1>3, <1>4

LEMMA FrontElements ==
  ASSUME NEW S, NEW s \in Seq(S), s # <<>>
  PROVE  LET front == SubSeq(s, 1, Len(s) - 1)
         IN  /\ front \in Seq(S) /\ s[Len(s)] \in S
             /\ ElementsOf(s) = ElementsOf(front) \cup {s[Len(s)]}
             /\ Distinct(s) => /\ Distinct(front)
                               /\ s[Len(s)] \notin ElementsOf(front)
<1> DEFINE front == SubSeq(s, 1, Len(s) - 1)
<1>1. /\ front \in Seq(S) /\ s[Len(s)] \in S
      /\ Len(s) \in Nat /\ Len(s) >= 1
      /\ DOMAIN s = 1 .. Len(s) /\ DOMAIN front = 1 .. Len(s) - 1
      /\ \A i \in 1 .. Len(s) - 1 : front[i] = s[i]
  <2>1. Len(s) \in Nat /\ Len(s) >= 1 /\ DOMAIN s = 1 .. Len(s)
        /\ s[Len(s)] \in S
    OBVIOUS
  <2>2. \A i \in 1 .. Len(s) - 1 : s[i] \in S
    BY <2>1
  <2>3. front = [i \in 1 .. Len(s) - 1 |-> s[i]]
    BY <2>1
  <2> QED
    BY <2>1, <2>2, <2>3
<1> HIDE DEF front
<1>2. 1 .. Len(s) = 1 .. Len(s) - 1 \cup {Len(s)}
  BY <1>1
<1>3. ElementsOf(s) = ElementsOf(front) \cup {s[Len(s)]}
  <2>1. ASSUME NEW x \in ElementsOf(s)
        PROVE  x \in ElementsOf(front) \cup {s[Len(s)]}
    BY <1>1, <1>2, <2>1 DEF ElementsOf
  <2>2. ASSUME NEW x \in ElementsOf(front) \cup {s[Len(s)]}
        PROVE  x \in ElementsOf(s)
    BY <1>1, <1>2, <2>2 DEF ElementsOf
  <2> QED
    BY <2>1, <2>2
<1>4. ASSUME Distinct(s)
      PROVE  Distinct(front) /\ s[Len(s)] \notin ElementsOf(front)
  BY <1>1, <1>4 DEF Distinct, ElementsOf
<1> QED
  BY <1>1, <1>3, <1>4 DEF front

-----------------------------------------------------------------------------
(* Where the sender thread is tells what it has left to do.                *)

Control ==
  /\ pc \in {"send", "update"} => next \in 1 .. Len(work)
  /\ pc \notin {"send", "update"} => next = 1
  /\ pc \in {"loop", "lock", "sleep", "waiting", "woken"} => work = <<>>
  /\ pc = "unlocked" /\ ~must_stop => work # <<>>
  /\ pc = "update" => work[next] \in ElementsOf(write_list) \cup leaked

(* The step from one chunk of work to the next, or back to the loop.       *)
LEMMA AdvanceKeeps ==
  ASSUME TypeOK, Control, pc = "update", Advance
  PROVE  /\ work' \in Seq(Chunks) /\ next' \in Nat \ {0}
         /\ pc' \in {"loop", "send"}
         /\ pc' = "send" => next' \in 1 .. Len(work')
         /\ pc' = "loop" => next' = 1 /\ work' = <<>>
         /\ PendingWork' = PendingWork
<1>1. work \in Seq(Chunks) /\ next \in 1 .. Len(work) /\ Len(work) \in Nat
      /\ DOMAIN work = 1 .. Len(work)
  BY DEF TypeOK, Control
<1>2. CASE next = Len(work)
  <2>1. next' = 1 /\ work' = <<>> /\ pc' = "loop"
    BY <1>2 DEF Advance
  <2>2. PendingWork = {} /\ PendingWork' = {}
    BY <1>1, <1>2, <2>1 DEF PendingWork, FirstPending
  <2> QED
    BY <2>1, <2>2
<1>3. CASE next # Len(work)
  <2>1. next' = next + 1 /\ work' = work /\ pc' = "send"
    BY <1>3 DEF Advance
  <2>2. PendingWork' = PendingWork
    BY <2>1 DEF PendingWork, FirstPending
  <2>3. next + 1 \in 1 .. Len(work) /\ next + 1 \in Nat \ {0}
    <3>1. /\ next \in Nat /\ Len(work) \in Nat
          /\ 1 <= next /\ next <= Len(work)
      BY <1>1
    <3> QED
      BY <1>3, <3>1
  <2>4. work' \in Seq(Chunks) /\ Len(work') = Len(work)
    BY <1>1, <2>1
  <2> QED
    BY <2>1, <2>2, <2>3, <2>4
<1> QED
  BY <1>2, <1>3

(* A write takes the chunk that was queued last out of write_list.         *)
LEMMA ExecuteElements ==
  ASSUME TypeOK, NEW c, Execute(c)
  PROVE  /\ c \in Chunks /\ write_list' \in Seq(Chunks)
         /\ ElementsOf(write_list) = ElementsOf(write_list') \cup {c}
         /\ Distinct(write_list) => /\ Distinct(write_list')
                                    /\ c \notin ElementsOf(write_list')
<1>1. /\ write_list \in Seq(Chunks) /\ write_list # <<>>
      /\ c = write_list[Len(write_list)]
      /\ write_list' = SubSeq(write_list, 1, Len(write_list) - 1)
  BY DEF TypeOK, Execute
<1>2. /\ write_list' \in Seq(Chunks) /\ c \in Chunks
      /\ ElementsOf(write_list) = ElementsOf(write_list') \cup {c}
  BY <1>1, FrontElements
<1>3. Distinct(write_list) => /\ Distinct(write_list')
                              /\ c \notin ElementsOf(write_list')
  BY <1>1, FrontElements
<1> QED
  BY <1>2, <1>3

LEMMA TypeInit == Init => TypeOK /\ Control
<1> SUFFICES ASSUME Init PROVE TypeOK /\ Control
  OBVIOUS
<1>1. free_chunks \in Seq(Chunks)
  <2>1. /\ free_chunks = [i \in 1 .. NChunks |-> i]
        /\ \A i \in 1 .. NChunks : i \in Chunks
    BY DEF Init, Chunks
  <2> QED
    BY <2>1, NChunksAssumption
<1>2. data \in [Chunks -> Nat]
  BY DEF Init
<1>3. TypeOK
  <2>1. /\ <<>> \in Seq(Chunks) /\ <<>> \in Seq(Nat) /\ 0 \in Nat
        /\ 1 \in Nat \ {0} /\ {} \subseteq Chunks
    OBVIOUS
  <2>2. FALSE \in BOOLEAN
    OBVIOUS
  <2> QED
    BY <1>1, <1>2, <2>1, <2>2, Zenon DEF Init, LoopInit, TypeOK
<1>4. Control
  BY DEF Init, Control
<1> QED
  BY <1>3, <1>4

LEMMA TypeStep == TypeOK /\ Control /\ [Next]_vars => TypeOK' /\ Control'
<1> SUFFICES ASSUME TypeOK, Control, [Next]_vars PROVE TypeOK' /\ Control'
  OBVIOUS
<1> USE DEF bufferVars, appVars, threadVars
<1>1. CASE GetFreeChunk
  <2>1. Tail(free_chunks) \in Seq(Chunks) /\ Head(free_chunks) \in Chunks
    BY <1>1, TailElements DEF GetFreeChunk, TypeOK
  <2> QED
    BY <1>1, <2>1 DEF GetFreeChunk, TypeOK, Control
<1>2. CASE Fill
  BY <1>2 DEF Fill, TypeOK, Control
<1>3. CASE SendChunk
  <2>1. Append(used_chunks, held) \in Seq(Chunks)
    BY <1>3 DEF SendChunk, TypeOK
  <2> QED
    BY <1>3, <2>1 DEF SendChunk, Signal, TypeOK, Control
<1>4. CASE BeginShutdown
  BY <1>4 DEF BeginShutdown, TypeOK, Control
<1>5. CASE SignalShutdown
  BY <1>5 DEF SignalShutdown, Signal, TypeOK, Control
<1>6. CASE Join
  BY <1>6 DEF Join, TypeOK, Control
<1>7. CASE Loop
  BY <1>7 DEF Loop, TypeOK, Control
<1>8. CASE Lock
  BY <1>8 DEF Lock, TypeOK, Control
<1>9. CASE Test
  BY <1>9 DEF Test, TypeOK, Control
<1>10. CASE Wait \/ SpuriousWakeup
  BY <1>10 DEF Wait, SpuriousWakeup, TypeOK, Control
<1>11. CASE Collect
  <2>1. work \o used_chunks \in Seq(Chunks)
    BY DEF TypeOK
  <2> QED
    BY <1>11, <2>1 DEF Collect, TypeOK, Control
<1>12. CASE Unlocked
  <2>1. ~must_stop => Len(work) \in Nat /\ Len(work) >= 1
    BY <1>12 DEF Unlocked, TypeOK, Control
  <2> QED
    BY <1>12, <2>1 DEF Unlocked, TypeOK, Control
<1>13. CASE Send
  <2>1. work[next] \in Chunks
    BY <1>13 DEF Send, TypeOK, Control
  <2>2. CASE data[work[next]] \in Empty
    BY <1>13, <2>1, <2>2 DEF Send, SendTo, TypeOK, Control
  <2>3. CASE data[work[next]] \notin Empty
    <3>1. /\ write_list' = Append(write_list, work[next])
          /\ leaked' = leaked
      BY <1>13, <2>3 DEF Send, SendTo
    <3>2. write_list' \in Seq(Chunks) /\ work[next] \in ElementsOf(write_list')
      BY <2>1, <3>1, AppendElements DEF TypeOK
    <3> QED
      BY <1>13, <3>1, <3>2 DEF Send, TypeOK, Control
  <2> QED
    BY <2>2, <2>3
<1>14. CASE UpdateWrites
  <2>1. PICK c \in Chunks : /\ Execute(c)
                            /\ sent' = Append(sent, data[c])
                            /\ free_chunks' = Append(free_chunks, c)
    BY <1>14 DEF UpdateWrites
  <2>2. /\ sent' \in Seq(Nat) /\ free_chunks' \in Seq(Chunks)
        /\ write_list' \in Seq(Chunks)
    BY <2>1, ExecuteElements DEF TypeOK
  <2> QED
    BY <1>14, <2>2, AdvanceKeeps DEF UpdateWrites, TypeOK, Control
<1>15. CASE UpdateIdle
  BY <1>15, AdvanceKeeps DEF UpdateIdle, TypeOK, Control
<1>16. CASE UNCHANGED vars
  BY <1>16 DEF vars, TypeOK, Control
<1> QED
  BY <1>1, <1>2, <1>3, <1>4, <1>5, <1>6, <1>7, <1>8, <1>9, <1>10, <1>11,
     <1>12, <1>13, <1>14, <1>15, <1>16
  DEF Next, Application, Thread, Finished

(* Every variable keeps its type: the thread never reads past the end of   *)
(* its work, and every list holds chunks, for any number of them.          *)
THEOREM TypeCorrect == Spec => []TypeOK
BY TypeInit, TypeStep, PTL DEF Spec

-----------------------------------------------------------------------------
(* Where the chunks are *)

(* Six sets that share out the chunks: free, used, pending, queued for     *)
(* writing, held by the application, refused.                              *)
Apart(F, U, P, W, H, L) ==
  /\ F \cup U \cup P \cup W \cup H \cup L = Chunks
  /\ F \cap (U \cup P \cup W \cup H \cup L) = {}
  /\ U \cap (P \cup W \cup H \cup L) = {}
  /\ P \cap (W \cup H \cup L) = {}
  /\ W \cap (H \cup L) = {}
  /\ H \cap L = {}

Held == {held} \ {NoChunk}

Conserved ==
  /\ Apart(ElementsOf(free_chunks), ElementsOf(used_chunks), PendingWork,
           ElementsOf(write_list), Held, leaked)
  /\ Distinct(free_chunks) /\ Distinct(used_chunks)
  /\ Distinct(work) /\ Distinct(write_list)

LEMMA ConservedMeans == Conserved => ChunksConserved
<1> SUFFICES ASSUME Conserved PROVE ChunksConserved
  OBVIOUS
<1>1. /\ DOMAIN Places = 1 .. 6
      /\ Places[1] = ElementsOf(free_chunks) /\ Places[2] = ElementsOf(used_chunks)
      /\ Places[3] = PendingWork /\ Places[4] = ElementsOf(write_list)
      /\ Places[5] = Held /\ Places[6] = leaked
  BY DEF Places, Held
<1>2. ElementsOf(Places) =
        {ElementsOf(free_chunks), ElementsOf(used_chunks), PendingWork,
         ElementsOf(write_list), Held, leaked}
  <2>1. ElementsOf(Places) = {Places[i] : i \in 1 .. 6}
    BY <1>1 DEF ElementsOf
  <2>2. 1 .. 6 = {1, 2, 3, 4, 5, 6}
    OBVIOUS
  <2>3. ElementsOf(Places) = {Places[i] : i \in {1, 2, 3, 4, 5, 6}}
    BY <2>1, <2>2
  <2>4. {Places[i] : i \in {1, 2, 3, 4, 5, 6}} =
          {Places[1], Places[2], Places[3], Places[4], Places[5], Places[6]}
    OBVIOUS
  <2> QED
    BY <1>1, <2>3, <2>4
<1>3. UNION ElementsOf(Places) = Chunks
  BY <1>2 DEF Conserved, Apart
<1>4. \A i, j \in 1 .. 6 : i < j => Places[i] \cap Places[j] = {}
  <2> SUFFICES ASSUME NEW i \in 1 .. 6, NEW j \in 1 .. 6, i < j
               PROVE  Places[i] \cap Places[j] = {}
    OBVIOUS
  <2>1. CASE i = 1
    <3>1. j \in {2, 3, 4, 5, 6}
      BY <2>1
    <3> QED
      BY <1>1, <2>1, <3>1 DEF Conserved, Apart
  <2>2. CASE i = 2
    <3>1. j \in {3, 4, 5, 6}
      BY <2>2
    <3> QED
      BY <1>1, <2>2, <3>1 DEF Conserved, Apart
  <2>3. CASE i = 3
    <3>1. j \in {4, 5, 6}
      BY <2>3
    <3> QED
      BY <1>1, <2>3, <3>1 DEF Conserved, Apart
  <2>4. CASE i = 4
    <3>1. j \in {5, 6}
      BY <2>4
    <3> QED
      BY <1>1, <2>4, <3>1 DEF Conserved, Apart
  <2>5. CASE i = 5
    <3>1. j = 6
      BY <2>5
    <3> QED
      BY <1>1, <2>5, <3>1 DEF Conserved, Apart
  <2> QED
    BY <2>1, <2>2, <2>3, <2>4, <2>5
<1>5. \A i, j \in DOMAIN Places : i # j => Places[i] \cap Places[j] = {}
  BY <1>1, <1>4
<1> QED
  BY <1>3, <1>5 DEF ChunksConserved, Conserved

LEMMA ConservedInit == Init => Conserved
<1> SUFFICES ASSUME Init PROVE Conserved
  OBVIOUS
<1>1. /\ DOMAIN free_chunks = Chunks
      /\ \A i \in Chunks : free_chunks[i] = i
  BY DEF Init
<1>2. ElementsOf(free_chunks) = Chunks
  BY <1>1 DEF ElementsOf
<1>3. Distinct(free_chunks)
  BY <1>1 DEF Distinct
<1>4. /\ ElementsOf(<<>>) = {} /\ Distinct(<<>>)
  BY DEF ElementsOf, Distinct
<1>5. PendingWork = {} /\ Held = {}
  BY DEF Init, PendingWork, Held
<1> QED
  BY <1>2, <1>3, <1>4, <1>5 DEF Init, LoopInit, Conserved, Apart

(* Steps of the thread that touch neither its work nor its place in it.    *)
LEMMA PendingKept ==
  ASSUME UNCHANGED <<work, next>>, pc # "update", pc' # "update"
  PROVE  PendingWork' = PendingWork
BY DEF PendingWork, FirstPending

(* Giving a chunk to sendTo takes it, and no other, from the pending ones. *)
LEMMA PendingTakesOne ==
  ASSUME TypeOK, Control, Conserved, Send
  PROVE  /\ work[next] \in Chunks
         /\ PendingWork = PendingWork' \cup {work[next]}
         /\ work[next] \notin PendingWork'
<1>1. /\ next \in 1 .. Len(work) /\ work \in Seq(Chunks) /\ Len(work) \in Nat
      /\ DOMAIN work = 1 .. Len(work) /\ Distinct(work)
      /\ work[next] \in Chunks
  BY DEF Send, TypeOK, Control, Conserved
<1>2. PendingWork = {work[i] : i \in {j \in DOMAIN work : j >= next}}
  BY DEF Send, PendingWork, FirstPending
<1>3. PendingWork' = {work[i] : i \in {j \in DOMAIN work : j >= next + 1}}
  BY DEF Send, PendingWork, FirstPending
<1>4. \A j \in DOMAIN work : j >= next <=> j = next \/ j >= next + 1
  BY <1>1
<1>5. ASSUME NEW x PROVE x \in PendingWork <=> x \in PendingWork' \cup {work[next]}
  BY <1>1, <1>2, <1>3, <1>4
<1>6. work[next] \notin PendingWork'
  BY <1>1, <1>3 DEF Distinct
<1> QED
  BY <1>1, <1>5, <1>6

LEMMA ConservedStep ==
  TypeOK /\ Control /\ Conserved /\ [Next]_vars => Conserved'
<1> SUFFICES ASSUME TypeOK, Control, Conserved, [Next]_vars PROVE Conserved'
  OBVIOUS
<1> USE DEF bufferVars, appVars, threadVars
<1>1. CASE GetFreeChunk
  <2>1. /\ free_chunks \in Seq(Chunks) /\ free_chunks # <<>>
        /\ held = NoChunk /\ held' = Head(free_chunks)
        /\ free_chunks' = Tail(free_chunks)
        /\ UNCHANGED <<used_chunks, pc, work, next, write_list, leaked>>
    BY <1>1 DEF GetFreeChunk, TypeOK
  <2>2. /\ held' \in Chunks
        /\ ElementsOf(free_chunks) = ElementsOf(free_chunks') \cup {held'}
        /\ Distinct(free_chunks') /\ held' \notin ElementsOf(free_chunks')
    BY <2>1, TailElements DEF Conserved
  <2>3. Held = {} /\ Held' = {held'}
    BY <2>1, <2>2 DEF Held, NoChunk, Chunks
  <2>4. PendingWork' = PendingWork
    BY <2>1 DEF PendingWork, FirstPending
  <2>5. Apart(ElementsOf(free_chunks'), ElementsOf(used_chunks), PendingWork,
              ElementsOf(write_list), Held', leaked)
    BY <2>2, <2>3 DEF Conserved, Apart
  <2> QED
    BY <2>1, <2>2, <2>4, <2>5 DEF Conserved
<1>2. CASE SendChunk
  <2>1. /\ used_chunks \in Seq(Chunks)
        /\ held \in Chunks /\ held' = NoChunk
        /\ used_chunks' = Append(used_chunks, held)
        /\ UNCHANGED <<free_chunks, work, next, write_list, leaked>>
        /\ pc' = IF pc = "waiting" THEN "woken" ELSE pc
    BY <1>2 DEF SendChunk, Signal, TypeOK
  <2>2. Held = {held} /\ Held' = {}
    BY <2>1 DEF Held, NoChunk, Chunks
  <2>3. held \notin ElementsOf(used_chunks)
    BY <2>2 DEF Conserved, Apart
  <2>4. /\ ElementsOf(used_chunks') = ElementsOf(used_chunks) \cup {held}
        /\ Distinct(used_chunks')
    BY <2>1, <2>3, AppendElements DEF Conserved
  <2>5. PendingWork' = PendingWork
    BY <2>1 DEF PendingWork, FirstPending
  <2>6. Apart(ElementsOf(free_chunks), ElementsOf(used_chunks'), PendingWork,
              ElementsOf(write_list), Held', leaked)
    BY <2>2, <2>4 DEF Conserved, Apart
  <2> QED
    BY <2>1, <2>4, <2>5, <2>6 DEF Conserved
<1>3. CASE Collect
  <2>1. /\ work = <<>> /\ next = 1 /\ work' = work \o used_chunks
        /\ used_chunks \in Seq(Chunks) /\ used_chunks' = <<>>
        /\ pc = "woken" /\ pc' = "test"
        /\ UNCHANGED <<free_chunks, held, next, write_list, leaked>>
    BY <1>3 DEF Collect, TypeOK, Control
  <2>2. work' = used_chunks
    BY <2>1
  <2>3. PendingWork = {}
    BY <2>1 DEF PendingWork, FirstPending
  <2>4. PendingWork' = ElementsOf(used_chunks)
    <3>1. \A j \in DOMAIN used_chunks : j >= 1
      BY <2>1
    <3>2. PendingWork' =
            {used_chunks[i] : i \in {j \in DOMAIN used_chunks : j >= 1}}
      BY <2>1, <2>2 DEF PendingWork, FirstPending
    <3> QED
      BY <3>1, <3>2 DEF ElementsOf
  <2>5. ElementsOf(<<>>) = {} /\ Distinct(<<>>)
    BY DEF ElementsOf, Distinct
  <2>6. Apart(ElementsOf(free_chunks), ElementsOf(<<>>),
              ElementsOf(used_chunks), ElementsOf(write_list), Held, leaked)
    BY <2>3, <2>5 DEF Conserved, Apart
  <2>7. Held' = Held
    BY <2>1 DEF Held
  <2> QED
    BY <2>1, <2>2, <2>4, <2>5, <2>6, <2>7 DEF Conserved
<1>4. CASE Send
  <2> DEFINE c == work[next]
  <2>1. /\ c \in Chunks /\ PendingWork = PendingWork' \cup {c}
        /\ c \notin PendingWork'
    BY <1>4, PendingTakesOne
  <2>2. UNCHANGED <<free_chunks, used_chunks, held, work>> /\ Held' = Held
    BY <1>4 DEF Send, Held
  <2>3. CASE data[c] \in Empty
    <3>1. write_list' = write_list /\ leaked' = leaked \cup {c}
      BY <1>4, <2>3 DEF Send, SendTo
    <3>2. Apart(ElementsOf(free_chunks), ElementsOf(used_chunks), PendingWork',
                ElementsOf(write_list), Held, leaked')
      BY <2>1, <3>1 DEF Conserved, Apart
    <3> QED
      BY <2>2, <3>1, <3>2 DEF Conserved
  <2>4. CASE data[c] \notin Empty
    <3>1. write_list' = Append(write_list, c) /\ leaked' = leaked
      BY <1>4, <2>4 DEF Send, SendTo
    <3>2. c \notin ElementsOf(write_list)
      BY <2>1 DEF Conserved, Apart
    <3>3. /\ ElementsOf(write_list') = ElementsOf(write_list) \cup {c}
          /\ Distinct(write_list')
      BY <2>1, <3>1, <3>2, AppendElements DEF Conserved, TypeOK
    <3>4. Apart(ElementsOf(free_chunks), ElementsOf(used_chunks), PendingWork',
                ElementsOf(write_list'), Held, leaked)
      BY <2>1, <3>3 DEF Conserved, Apart
    <3> QED
      BY <2>2, <3>1, <3>3, <3>4 DEF Conserved
  <2> QED
    BY <2>3, <2>4
<1>5. CASE UpdateWrites
  <2>1. PICK c \in Chunks : /\ Execute(c)
                            /\ sent' = Append(sent, data[c])
                            /\ free_chunks' = Append(free_chunks, c)
    BY <1>5 DEF UpdateWrites
  <2>2. /\ ElementsOf(write_list) = ElementsOf(write_list') \cup {c}
        /\ Distinct(write_list') /\ c \notin ElementsOf(write_list')
    BY <2>1, ExecuteElements DEF Conserved
  <2>3. c \notin ElementsOf(free_chunks)
    BY <2>2 DEF Conserved, Apart
  <2>4. /\ ElementsOf(free_chunks') = ElementsOf(free_chunks) \cup {c}
        /\ Distinct(free_chunks')
    BY <2>1, <2>3, AppendElements DEF Conserved, TypeOK
  <2>5. PendingWork' = PendingWork /\ (work' = work \/ work' = <<>>)
    BY <1>5, AdvanceKeeps DEF UpdateWrites, Advance
  <2>6. /\ UNCHANGED <<used_chunks, leaked>> /\ Held' = Held
    BY <1>5 DEF UpdateWrites, Held
  <2>7. Apart(ElementsOf(free_chunks'), ElementsOf(used_chunks), PendingWork,
              ElementsOf(write_list'), Held, leaked)
    BY <2>2, <2>4 DEF Conserved, Apart
  <2>8. Distinct(work')
    BY <2>5 DEF Conserved, Distinct
  <2> QED
    BY <2>2, <2>4, <2>5, <2>6, <2>7, <2>8 DEF Conserved
<1>6. CASE UpdateIdle
  <2>1. PendingWork' = PendingWork /\ (work' = work \/ work' = <<>>)
    BY <1>6, AdvanceKeeps DEF UpdateIdle, Advance
  <2>2. /\ UNCHANGED <<free_chunks, used_chunks, write_list, leaked>>
        /\ Held' = Held
    BY <1>6 DEF UpdateIdle, Held
  <2>3. Distinct(work')
    BY <2>1 DEF Conserved, Distinct
  <2> QED
    BY <2>1, <2>2, <2>3 DEF Conserved
<1>7. ASSUME UNCHANGED <<free_chunks, used_chunks, work, next, write_list,
                         held, leaked>>,
             (pc # "update" /\ pc' # "update") \/ pc' = pc
      PROVE  Conserved'
  <2>1. PendingWork' = PendingWork /\ Held' = Held
    BY <1>7 DEF PendingWork, FirstPending, Held
  <2> QED
    BY <1>7, <2>1 DEF Conserved
<1>8. CASE Fill \/ BeginShutdown \/ SignalShutdown \/ Join
  BY <1>7, <1>8 DEF Fill, BeginShutdown, SignalShutdown, Signal, Join
<1>9. CASE Loop \/ Lock \/ Test
  BY <1>7, <1>9 DEF Loop, Lock, Test
<1>10. CASE Wait \/ SpuriousWakeup \/ Unlocked
  BY <1>7, <1>10 DEF Wait, SpuriousWakeup, Unlocked
<1>11. CASE UNCHANGED vars
  BY <1>7, <1>11 DEF vars
<1> QED
  BY <1>1, <1>2, <1>3, <1>4, <1>5, <1>6, <1>8, <1>9, <1>10, <1>11
  DEF Next, Application, Thread, Finished

(* Every chunk is in exactly one place, for any number of chunks and any   *)
(* interleaving of the two threads: none is lost, none is used twice.      *)
THEOREM ChunksAreConserved == Spec => []ChunksConserved
<1>1. Init => TypeOK /\ Control /\ Conserved
  BY TypeInit, ConservedInit
<1>2. TypeOK /\ Control /\ Conserved /\ [Next]_vars
        => TypeOK' /\ Control' /\ Conserved'
  BY TypeStep, ConservedStep
<1> QED
  BY <1>1, <1>2, ConservedMeans, PTL DEF Spec

-----------------------------------------------------------------------------
(* What is sent *)

(* Chunks whose payload was handed over and has not been sent.             *)
InFlight == ElementsOf(used_chunks) \cup PendingWork \cup ElementsOf(write_list)

Payloads ==
  /\ \A c \in Chunks \ {held} : data[c] <= given
  /\ held \in Chunks => data[held] <= given + 1
  /\ \A c \in InFlight : data[c] >= 1 /\ data[c] \notin ElementsOf(sent)
  /\ \A c, d \in InFlight : c # d => data[c] # data[d]
  /\ Distinct(sent)
  /\ \A n \in ElementsOf(sent) : n \in 1 .. given

SafeInv == TypeOK /\ Control /\ Conserved /\ Payloads

LEMMA PayloadsMean == Payloads => SentOnce
BY DEF Payloads, SentOnce, ElementsOf

(* The application's chunk is not one of those in flight.                  *)
LEMMA HeldApart ==
  ASSUME Conserved
  PROVE  InFlight \subseteq Chunks /\ (held \in Chunks => held \notin InFlight)
<1>1. held \in Chunks => Held = {held}
  BY DEF Held, NoChunk, Chunks
<1> QED
  BY <1>1 DEF Conserved, Apart, InFlight

(* What Payloads speaks about does not grow by the chunks that change      *)
(* hands within the thread.                                                *)
LEMMA PayloadsKept ==
  ASSUME Payloads, InFlight' \subseteq InFlight,
         UNCHANGED <<data, held, given, sent>>
  PROVE  Payloads'
BY DEF Payloads

LEMMA PayloadsInit == Init => Payloads
<1> SUFFICES ASSUME Init PROVE Payloads
  OBVIOUS
<1>1. ElementsOf(<<>>) = {} /\ Distinct(<<>>)
  BY DEF ElementsOf, Distinct
<1>2. InFlight = {}
  <2>1. PendingWork = {}
    BY DEF Init, PendingWork
  <2> QED
    BY <1>1, <2>1 DEF Init, LoopInit, InFlight
<1>3. \A c \in Chunks : data[c] = 0
  BY DEF Init
<1> QED
  BY <1>1, <1>2, <1>3 DEF Init, Payloads, NoChunk, Chunks

LEMMA PayloadsStep == SafeInv /\ [Next]_vars => Payloads'
<1> SUFFICES ASSUME SafeInv, [Next]_vars PROVE Payloads'
  OBVIOUS
<1> USE DEF bufferVars, appVars, threadVars
<1>1. TypeOK /\ Control /\ Conserved /\ Payloads
  BY DEF SafeInv
<1>2. /\ data \in [Chunks -> Nat] /\ given \in Nat /\ sent \in Seq(Nat)
      /\ InFlight \subseteq Chunks
      /\ held \in Chunks => held \notin InFlight
  BY <1>1, HeldApart DEF TypeOK
<1>3. CASE GetFreeChunk
  <2>1. /\ held = NoChunk
        /\ UNCHANGED <<used_chunks, pc, work, next, write_list, data, given, sent>>
    BY <1>3 DEF GetFreeChunk
  <2>2. InFlight' = InFlight
    BY <2>1 DEF InFlight, PendingWork, FirstPending
  <2>3. \A c \in Chunks : data[c] <= given
    BY <1>1, <2>1 DEF Payloads, NoChunk, Chunks
  <2>4. \A c \in Chunks : data[c] <= given + 1
    BY <1>2, <2>3
  <2> QED
    BY <1>1, <2>1, <2>2, <2>3, <2>4 DEF Payloads
<1>4. CASE Fill
  <2>1. /\ held \in Chunks /\ data' = [data EXCEPT ![held] = given + 1]
        /\ UNCHANGED <<used_chunks, pc, work, next, write_list, given, sent, held>>
    BY <1>1, <1>4 DEF Fill, TypeOK
  <2>2. InFlight' = InFlight
    BY <2>1 DEF InFlight, PendingWork, FirstPending
  <2>3. /\ data'[held] = given + 1
        /\ \A c \in Chunks \ {held} : data'[c] = data[c]
    BY <1>2, <2>1
  <2>4. \A c \in InFlight : data'[c] = data[c]
    BY <1>2, <2>1, <2>3
  <2> QED
    BY <1>1, <1>2, <2>1, <2>2, <2>3, <2>4 DEF Payloads
<1>5. CASE SendChunk
  <2>1. /\ held \in Chunks /\ held' = NoChunk /\ data[held] = given + 1
        /\ used_chunks \in Seq(Chunks) /\ used_chunks' = Append(used_chunks, held)
        /\ given' = given + 1
        /\ UNCHANGED <<work, next, write_list, data, sent>>
        /\ pc' = IF pc = "waiting" THEN "woken" ELSE pc
    BY <1>1, <1>5 DEF SendChunk, Signal, TypeOK
  <2>2. ElementsOf(used_chunks') = ElementsOf(used_chunks) \cup {held}
    BY <2>1, AppendElements
  <2>3. InFlight' = InFlight \cup {held}
    <3>1. PendingWork' = PendingWork
      BY <2>1 DEF PendingWork, FirstPending
    <3> QED
      BY <2>1, <2>2, <3>1 DEF InFlight
  <2>4. \A c \in Chunks : data[c] <= given + 1
    BY <1>1, <1>2, <2>1 DEF Payloads
  <2>5. \A c \in InFlight : data[c] <= given
    BY <1>1, <1>2, <2>1 DEF Payloads
  <2>6. \A n \in ElementsOf(sent) : n \in 1 .. given + 1 /\ n # given + 1
    BY <1>1, <1>2 DEF Payloads
  <2>7. \A c \in InFlight' : data[c] >= 1 /\ data[c] \notin ElementsOf(sent)
    BY <1>1, <1>2, <2>1, <2>3, <2>6 DEF Payloads
  <2>8. \A c, d \in InFlight' : c # d => data[c] # data[d]
    <3>1. \A c \in InFlight : data[c] \in Nat /\ data[c] # given + 1
      BY <1>2, <2>5
    <3> QED
      BY <1>1, <2>1, <2>3, <3>1 DEF Payloads
  <2>9. held' \notin Chunks
    BY <2>1 DEF NoChunk, Chunks
  <2> QED
    BY <1>1, <2>1, <2>4, <2>6, <2>7, <2>8, <2>9 DEF Payloads
<1>6. CASE Collect
  <2>1. /\ work = <<>> /\ next = 1 /\ work' = work \o used_chunks
        /\ used_chunks \in Seq(Chunks) /\ used_chunks' = <<>>
        /\ pc' = "test"
        /\ UNCHANGED <<held, next, write_list, data, given, sent>>
    BY <1>1, <1>6 DEF Collect, TypeOK, Control
  <2>2. PendingWork' \subseteq ElementsOf(used_chunks)
    BY <2>1 DEF PendingWork, ElementsOf
  <2>3. ElementsOf(used_chunks') = {}
    BY <2>1 DEF ElementsOf
  <2>4. InFlight' \subseteq InFlight
    BY <2>1, <2>2, <2>3 DEF InFlight
  <2> QED
    BY <1>1, <2>1, <2>4, PayloadsKept
<1>7. CASE Send
  <2>1. PendingWork = PendingWork' \cup {work[next]} /\ work[next] \in Chunks
    BY <1>1, <1>7, PendingTakesOne
  <2>2. write_list' = write_list \/ write_list' = Append(write_list, work[next])
    BY <1>7 DEF Send, SendTo
  <2>3. ElementsOf(write_list') \subseteq ElementsOf(write_list) \cup {work[next]}
    <3>1. write_list \in Seq(Chunks)
      BY <1>1 DEF TypeOK
    <3>2. CASE write_list' = Append(write_list, work[next])
      BY <2>1, <3>1, <3>2, AppendElements
    <3> QED
      BY <2>2, <3>2
  <2>4. UNCHANGED <<used_chunks, data, held, given, sent>>
    BY <1>7 DEF Send
  <2>5. InFlight' \subseteq InFlight
    BY <2>1, <2>3, <2>4 DEF InFlight
  <2> QED
    BY <1>1, <2>4, <2>5, PayloadsKept
<1>8. CASE UpdateWrites
  <2>1. PICK c \in Chunks : /\ Execute(c)
                            /\ sent' = Append(sent, data[c])
                            /\ free_chunks' = Append(free_chunks, c)
    BY <1>8 DEF UpdateWrites
  <2>2. /\ ElementsOf(write_list) = ElementsOf(write_list') \cup {c}
        /\ c \notin ElementsOf(write_list')
    BY <1>1, <2>1, ExecuteElements DEF Conserved
  <2>3. PendingWork' = PendingWork /\ UNCHANGED <<used_chunks, data, held, given>>
    BY <1>1, <1>8, AdvanceKeeps DEF UpdateWrites
  <2>4. InFlight = InFlight' \cup {c}
    BY <2>2, <2>3 DEF InFlight
  <2>5. c \notin InFlight'
    BY <1>1, <2>2, <2>3 DEF InFlight, Conserved, Apart
  <2>6. /\ ElementsOf(sent') = ElementsOf(sent) \cup {data[c]}
        /\ Distinct(sent) /\ data[c] \notin ElementsOf(sent) => Distinct(sent')
    BY <1>2, <2>1, AppendElements
  <2>7. data[c] \in 1 .. given /\ data[c] \notin ElementsOf(sent)
    <3>1. c \in InFlight /\ c # held
      BY <1>2, <2>4
    <3>2. data[c] \in Nat /\ data[c] >= 1 /\ data[c] <= given
      BY <1>1, <1>2, <2>1, <3>1 DEF Payloads
    <3> QED
      BY <1>1, <1>2, <3>1, <3>2 DEF Payloads
  <2>8. \A d \in InFlight' : data[d] >= 1 /\ data[d] \notin ElementsOf(sent')
    BY <1>1, <2>4, <2>5, <2>6 DEF Payloads
  <2> QED
    BY <1>1, <2>3, <2>4, <2>6, <2>7, <2>8 DEF Payloads
<1>9. CASE UpdateIdle
  <2>1. /\ PendingWork' = PendingWork
        /\ UNCHANGED <<used_chunks, write_list, data, held, given, sent>>
    BY <1>1, <1>9, AdvanceKeeps DEF UpdateIdle
  <2> QED
    BY <1>1, <2>1, PayloadsKept DEF InFlight
<1>10. ASSUME UNCHANGED <<used_chunks, work, next, write_list, data, held,
                          given, sent>>,
              (pc # "update" /\ pc' # "update") \/ pc' = pc
       PROVE  Payloads'
  BY <1>1, <1>10, PayloadsKept DEF InFlight, PendingWork, FirstPending
<1>11. CASE BeginShutdown \/ SignalShutdown \/ Join
  BY <1>10, <1>11 DEF BeginShutdown, SignalShutdown, Signal, Join
<1>12. CASE Loop \/ Lock \/ Test
  BY <1>10, <1>12 DEF Loop, Lock, Test
<1>13. CASE Wait \/ SpuriousWakeup \/ Unlocked
  BY <1>10, <1>13 DEF Wait, SpuriousWakeup, Unlocked
<1>14. CASE UNCHANGED vars
  BY <1>10, <1>14 DEF vars
<1> QED
  BY <1>3, <1>4, <1>5, <1>6, <1>7, <1>8, <1>9, <1>11, <1>12, <1>13, <1>14
  DEF Next, Application, Thread, Finished

LEMMA SafeInvariant == Spec => []SafeInv
<1>1. Init => SafeInv
  BY TypeInit, ConservedInit, PayloadsInit DEF SafeInv
<1>2. SafeInv /\ [Next]_vars => SafeInv'
  BY TypeStep, ConservedStep, PayloadsStep DEF SafeInv
<1> QED
  BY <1>1, <1>2, PTL DEF Spec

(* No payload is sent twice, and none before it was handed over, however   *)
(* often the chunks go round.                                              *)
THEOREM NothingSentTwice == Spec => []SentOnce
<1>1. SafeInv => SentOnce
  BY PayloadsMean DEF SafeInv
<1> QED
  BY <1>1, SafeInvariant, PTL

-----------------------------------------------------------------------------
(* The order in which it is sent *)

(* From sent over work to used_chunks payloads grow, and at most the chunk *)
(* of this turn is queued: what holds as long as no write had to wait.     *)
InLine ==
  /\ IF pc = "update" THEN \A c \in ElementsOf(write_list) : c = work[next]
                      ELSE write_list = <<>>
  /\ \A i, j \in DOMAIN sent : i < j => sent[i] < sent[j]
  /\ \A n \in ElementsOf(sent) : \A c \in InFlight : n < data[c]
  /\ \A i, j \in DOMAIN work : next <= i /\ i < j => data[work[i]] < data[work[j]]
  /\ \A j \in DOMAIN work : \A c \in ElementsOf(used_chunks) :
       next <= j => data[work[j]] < data[c]
  /\ \A i, j \in DOMAIN used_chunks :
       i < j => data[used_chunks[i]] < data[used_chunks[j]]

Order == ~busy => InLine

(* No chunk that work still has ahead of it is the application's.          *)
LEMMA WorkPlaced ==
  ASSUME TypeOK, Control, Conserved, NEW j \in DOMAIN work, next <= j
  PROVE  /\ work[j] \in Chunks
         /\ work[j] # held
         /\ work[j] \in InFlight \cup leaked
<1>1. work[j] \in Chunks
  BY DEF TypeOK
<1>2. work[j] \in InFlight \cup leaked
  <2>1. CASE pc = "update" /\ j = next
    BY <2>1 DEF Control, InFlight
  <2>2. CASE ~(pc = "update" /\ j = next)
    <3>1. j \in Nat /\ next \in Nat
      BY DEF TypeOK
    <3>2. j >= FirstPending
      BY <2>2, <3>1 DEF FirstPending
    <3> QED
      BY <3>2 DEF PendingWork, InFlight
  <2> QED
    BY <2>1, <2>2
<1>3. held \in Chunks => held \notin InFlight \cup leaked
  <2>1. held \in Chunks => Held = {held}
    BY DEF Held, NoChunk, Chunks
  <2> QED
    BY <2>1 DEF Conserved, Apart, InFlight
<1> QED
  BY <1>1, <1>2, <1>3

(* What is left of work after a turn was left of it before.                *)
LEMMA AdvanceLeaves ==
  ASSUME TypeOK, Control, pc = "update", Advance, NEW j \in DOMAIN work',
         next' <= j
  PROVE  j \in DOMAIN work /\ next + 1 <= j /\ work'[j] = work[j]
<1>1. CASE next = Len(work)
  BY <1>1 DEF Advance
<1>2. CASE next # Len(work)
  BY <1>2 DEF Advance
<1> QED
  BY <1>1, <1>2

LEMMA OrderStep == SafeInv /\ Order /\ [Next]_vars => Order'
<1> SUFFICES ASSUME SafeInv, Order, [Next]_vars, ~busy' PROVE InLine'
  BY DEF Order
<1> USE DEF bufferVars, appVars, threadVars
<1>1. TypeOK /\ Control /\ Conserved /\ Payloads
  BY DEF SafeInv
<1>2. /\ data \in [Chunks -> Nat] /\ given \in Nat /\ sent \in Seq(Nat)
      /\ work \in Seq(Chunks) /\ used_chunks \in Seq(Chunks)
      /\ write_list \in Seq(Chunks) /\ next \in Nat /\ busy \in BOOLEAN
      /\ InFlight \subseteq Chunks
      /\ held \in Chunks => held \notin InFlight
  BY <1>1, HeldApart DEF TypeOK
<1>3. ~busy
  <2>1. busy => busy'
    BY DEF Next, Application, Thread, Finished, vars, GetFreeChunk, Fill,
       SendChunk, BeginShutdown, SignalShutdown, Join, Loop, Lock, Test, Wait,
       SpuriousWakeup, Collect, Unlocked, Send, UpdateWrites, UpdateIdle
  <2> QED
    BY <2>1
<1>4. InLine
  BY <1>3 DEF Order
<1>5. ASSUME UNCHANGED <<used_chunks, work, next, write_list, data, sent>>,
             (pc # "update" /\ pc' # "update") \/ pc' = pc
      PROVE  InLine'
  <2>1. InFlight' = InFlight
    BY <1>5 DEF InFlight, PendingWork, FirstPending
  <2>2. pc' = "update" <=> pc = "update"
    BY <1>5
  <2> QED
    BY <1>4, <1>5, <2>1, <2>2 DEF InLine
<1>6. CASE GetFreeChunk \/ BeginShutdown \/ SignalShutdown \/ Join
  BY <1>5, <1>6 DEF GetFreeChunk, BeginShutdown, SignalShutdown, Signal, Join
<1>7. CASE Loop \/ Lock \/ Test
  BY <1>5, <1>7 DEF Loop, Lock, Test
<1>8. CASE Wait \/ SpuriousWakeup \/ Unlocked
  BY <1>5, <1>8 DEF Wait, SpuriousWakeup, Unlocked
<1>9. CASE Fill
  <2>1. /\ held \in Chunks /\ data' = [data EXCEPT ![held] = given + 1]
        /\ UNCHANGED <<used_chunks, pc, work, next, write_list, sent>>
    BY <1>1, <1>9 DEF Fill, TypeOK
  <2>2. InFlight' = InFlight
    BY <2>1 DEF InFlight, PendingWork, FirstPending
  <2>3. \A c \in Chunks \ {held} : data'[c] = data[c]
    BY <1>2, <2>1
  <2>4. \A c \in InFlight : data'[c] = data[c]
    BY <1>2, <2>1, <2>3
  <2>5. \A j \in DOMAIN work : next <= j => data'[work[j]] = data[work[j]]
    BY <1>1, <2>3, WorkPlaced
  <2>6. \A c \in ElementsOf(used_chunks) : data'[c] = data[c]
    BY <2>4 DEF InFlight
  <2>7. \A i \in DOMAIN used_chunks : used_chunks[i] \in ElementsOf(used_chunks)
    BY DEF ElementsOf
  <2>8. \A i, j \in DOMAIN work :
          next <= i /\ i < j => data'[work[i]] < data'[work[j]]
    <3> SUFFICES ASSUME NEW i \in DOMAIN work, NEW j \in DOMAIN work,
                        next <= i, i < j
                 PROVE  data'[work[i]] < data'[work[j]]
      OBVIOUS
    <3>1. next <= j
      BY <1>2
    <3> QED
      BY <1>4, <2>5, <3>1 DEF InLine
  <2> QED
    BY <1>4, <2>1, <2>2, <2>4, <2>5, <2>6, <2>7, <2>8 DEF InLine
<1>10. CASE SendChunk
  <2>1. /\ held \in Chunks /\ data[held] = given + 1
        /\ used_chunks' = Append(used_chunks, held)
        /\ UNCHANGED <<work, next, write_list, data, sent>>
        /\ pc' = IF pc = "waiting" THEN "woken" ELSE pc
    BY <1>1, <1>10 DEF SendChunk, Signal, TypeOK
  <2>2. ElementsOf(used_chunks') = ElementsOf(used_chunks) \cup {held}
    BY <1>2, <2>1, AppendElements
  <2>3. InFlight' = InFlight \cup {held}
    <3>1. PendingWork' = PendingWork
      BY <2>1 DEF PendingWork, FirstPending
    <3> QED
      BY <2>1, <2>2, <3>1 DEF InFlight
  <2>4. \A n \in ElementsOf(sent) : n < data[held]
    BY <1>1, <1>2, <2>1 DEF Payloads
  <2>5. \A j \in DOMAIN work : next <= j => data[work[j]] < data[held]
    <3> SUFFICES ASSUME NEW j \in DOMAIN work, next <= j
                 PROVE  data[work[j]] < data[held]
      OBVIOUS
    <3>1. work[j] \in Chunks \ {held}
      BY <1>1, WorkPlaced
    <3>2. data[work[j]] \in Nat /\ data[work[j]] <= given
      BY <1>1, <1>2, <3>1 DEF Payloads
    <3> QED
      BY <1>2, <2>1, <3>2
  <2>6. \A c \in ElementsOf(used_chunks) : data[c] < data[held]
    <3> SUFFICES ASSUME NEW c \in ElementsOf(used_chunks)
                 PROVE  data[c] < data[held]
      OBVIOUS
    <3>1. c \in Chunks \ {held}
      BY <1>2, <2>1 DEF InFlight
    <3>2. data[c] \in Nat /\ data[c] <= given
      BY <1>1, <1>2, <3>1 DEF Payloads
    <3> QED
      BY <1>2, <2>1, <3>2
  <2>7. \A i, j \in DOMAIN used_chunks' :
          i < j => data[used_chunks'[i]] < data[used_chunks'[j]]
    <3> SUFFICES ASSUME NEW i \in DOMAIN used_chunks',
                        NEW j \in DOMAIN used_chunks', i < j
                 PROVE  data[used_chunks'[i]] < data[used_chunks'[j]]
      OBVIOUS
    <3>1. /\ DOMAIN used_chunks = 1 .. Len(used_chunks) /\ Len(used_chunks) \in Nat
          /\ DOMAIN used_chunks' = 1 .. Len(used_chunks) + 1
          /\ \A k \in 1 .. Len(used_chunks) : used_chunks'[k] = used_chunks[k]
          /\ used_chunks'[Len(used_chunks) + 1] = held
      BY <1>2, <2>1
    <3>2. i \in DOMAIN used_chunks
      BY <3>1
    <3>3. CASE j \in DOMAIN used_chunks
      BY <1>4, <3>1, <3>2, <3>3 DEF InLine
    <3>4. CASE j = Len(used_chunks) + 1
      BY <2>6, <3>1, <3>2, <3>4 DEF ElementsOf
    <3> QED
      BY <3>1, <3>3, <3>4
  <2>8. pc' = "update" <=> pc = "update"
    BY <2>1
  <2> QED
    BY <1>4, <2>1, <2>2, <2>3, <2>4, <2>5, <2>7, <2>8 DEF InLine
<1>11. CASE Collect
  <2>1. /\ work = <<>> /\ next = 1 /\ work' = work \o used_chunks
        /\ used_chunks' = <<>> /\ pc = "woken" /\ pc' = "test"
        /\ UNCHANGED <<next, write_list, data, sent>>
    BY <1>1, <1>11 DEF Collect, Control
  <2>2. work' = used_chunks
    BY <1>2, <2>1
  <2>3. PendingWork' \subseteq ElementsOf(used_chunks)
    BY <2>2 DEF PendingWork, ElementsOf
  <2>4. ElementsOf(used_chunks') = {}
    BY <2>1 DEF ElementsOf
  <2>5. InFlight' \subseteq InFlight
    BY <2>1, <2>3, <2>4 DEF InFlight
  <2> QED
    BY <1>4, <2>1, <2>2, <2>4, <2>5 DEF InLine
<1>12. CASE Send
  <2>1. PendingWork = PendingWork' \cup {work[next]} /\ work[next] \in Chunks
    BY <1>1, <1>12, PendingTakesOne
  <2>2. /\ pc' = "update" /\ write_list = <<>>
        /\ UNCHANGED <<used_chunks, work, next, data, sent>>
    BY <1>4, <1>12 DEF Send, InLine
  <2>3. write_list' = write_list \/ write_list' = Append(write_list, work[next])
    BY <1>12 DEF Send, SendTo
  <2>4. ElementsOf(write_list') \subseteq {work[next]}
    <3>1. ElementsOf(<<>>) = {}
      BY DEF ElementsOf
    <3>2. ElementsOf(Append(write_list, work[next])) =
            ElementsOf(write_list) \cup {work[next]}
      <4>1. write_list \in Seq(Chunks)
        BY <1>2
      <4> QED
        BY <2>1, <4>1, AppendElements
    <3> QED
      BY <2>2, <2>3, <3>1, <3>2
  <2>5. InFlight' \subseteq InFlight
    BY <2>1, <2>2, <2>4 DEF InFlight
  <2> QED
    BY <1>4, <2>2, <2>4, <2>5 DEF InLine
<1>13. ASSUME pc = "update", Advance, UNCHANGED <<used_chunks, data>>
       PROVE  /\ \A i, j \in DOMAIN work' :
                   next' <= i /\ i < j => data'[work'[i]] < data'[work'[j]]
              /\ \A j \in DOMAIN work' : \A c \in ElementsOf(used_chunks') :
                   next' <= j => data'[work'[j]] < data'[c]
              /\ pc' # "update"
  <2>1. ASSUME NEW j \in DOMAIN work', next' <= j
        PROVE  j \in DOMAIN work /\ next <= j /\ work'[j] = work[j]
    <3>1. j \in DOMAIN work /\ next + 1 <= j /\ work'[j] = work[j]
      BY <1>1, <1>13, <2>1, AdvanceLeaves
    <3> QED
      BY <1>2, <3>1
  <2>2. ASSUME NEW i \in DOMAIN work', NEW j \in DOMAIN work', next' <= i, i < j
        PROVE  data'[work'[i]] < data'[work'[j]]
    <3>1. next' <= j
      <4>1. work' \in Seq(Chunks) /\ next' \in Nat
        BY <1>1, <1>13, AdvanceKeeps
      <4> QED
        BY <2>2, <4>1
    <3> QED
      BY <1>4, <1>13, <2>1, <2>2, <3>1 DEF InLine
  <2>3. \A j \in DOMAIN work' : \A c \in ElementsOf(used_chunks') :
          next' <= j => data'[work'[j]] < data'[c]
    BY <1>4, <1>13, <2>1 DEF InLine
  <2> QED
    BY <1>13, <2>2, <2>3 DEF Advance
<1>14. CASE UpdateWrites
  <2>1. PICK c \in Chunks : /\ Execute(c)
                            /\ sent' = Append(sent, data[c])
                            /\ free_chunks' = Append(free_chunks, c)
    BY <1>14 DEF UpdateWrites
  <2>2. pc = "update" /\ Advance /\ UNCHANGED <<used_chunks, data>>
    BY <1>14 DEF UpdateWrites
  <2>3. /\ write_list' \in Seq(Chunks)
        /\ ElementsOf(write_list) = ElementsOf(write_list') \cup {c}
        /\ c \notin ElementsOf(write_list')
    BY <1>1, <2>1, ExecuteElements DEF Conserved
  <2>4. c = work[next] /\ \A d \in ElementsOf(write_list') : d = work[next]
    BY <1>4, <2>2, <2>3 DEF InLine
  <2>5. write_list' = <<>>
    <3>1. ElementsOf(write_list') = {}
      BY <2>3, <2>4
    <3>2. write_list' # <<>> => write_list'[1] \in ElementsOf(write_list')
      BY <2>3 DEF ElementsOf
    <3> QED
      BY <3>1, <3>2
  <2>6. InFlight' = ElementsOf(used_chunks) \cup PendingWork
    <3>1. PendingWork' = PendingWork
      BY <1>1, <2>2, AdvanceKeeps
    <3>2. ElementsOf(write_list') = {}
      BY <2>5 DEF ElementsOf
    <3> QED
      BY <2>2, <3>1, <3>2 DEF InFlight
  <2>7. InFlight' \subseteq InFlight /\ c \in InFlight
    BY <2>3, <2>6 DEF InFlight
  <2>8. next \in DOMAIN work
    BY <1>1, <1>2, <2>2 DEF Control
  <2>9. \A d \in InFlight' : data[c] < data[d]
    <3>1. \A d \in ElementsOf(used_chunks) : data[c] < data[d]
      <4>1. next <= next
        BY <1>2
      <4> QED
        BY <1>4, <2>4, <2>8, <4>1 DEF InLine
    <3>2. ASSUME NEW d \in PendingWork PROVE data[c] < data[d]
      <4>1. PICK j \in DOMAIN work : j >= next + 1 /\ d = work[j]
        BY <2>2, <3>2 DEF PendingWork, FirstPending
      <4>2. next < j /\ next <= next
        BY <1>2, <4>1
      <4> QED
        BY <1>4, <2>4, <2>8, <4>1, <4>2 DEF InLine
    <3> QED
      BY <2>6, <3>1, <3>2
  <2>10. data[c] \in Nat
    BY <1>2
  <2>11. ElementsOf(sent') = ElementsOf(sent) \cup {data[c]}
    <3>1. sent \in Seq(Nat) /\ sent' = Append(sent, data[c])
      BY <1>2, <2>1
    <3>2. ElementsOf(Append(sent, data[c])) = ElementsOf(sent) \cup {data[c]}
      BY <2>10, <3>1, AppendElements
    <3> QED
      BY <3>1, <3>2
  <2>12. \A n \in ElementsOf(sent') : \A d \in InFlight' : n < data'[d]
    BY <1>4, <2>2, <2>7, <2>9, <2>11 DEF InLine
  <2>13. \A i, j \in DOMAIN sent' : i < j => sent'[i] < sent'[j]
    <3> SUFFICES ASSUME NEW i \in DOMAIN sent', NEW j \in DOMAIN sent', i < j
                 PROVE  sent'[i] < sent'[j]
      OBVIOUS
    <3>1. /\ DOMAIN sent = 1 .. Len(sent) /\ Len(sent) \in Nat
          /\ DOMAIN sent' = 1 .. Len(sent) + 1
          /\ \A k \in 1 .. Len(sent) : sent'[k] = sent[k]
          /\ sent'[Len(sent) + 1] = data[c]
      BY <1>2, <2>1, <2>10
    <3>2. i \in DOMAIN sent
      BY <3>1
    <3>3. CASE j \in DOMAIN sent
      BY <1>4, <3>1, <3>2, <3>3 DEF InLine
    <3>4. CASE j = Len(sent) + 1
      BY <1>4, <2>7, <3>1, <3>2, <3>4 DEF InLine, ElementsOf
    <3> QED
      BY <3>1, <3>3, <3>4
  <2> QED
    BY <1>4, <1>13, <2>2, <2>5, <2>12, <2>13 DEF InLine
<1>15. CASE UpdateIdle
  <2>1. /\ pc = "update" /\ Advance
        /\ UNCHANGED <<used_chunks, write_list, data, sent>>
        /\ write_list = <<>>
    BY <1>3, <1>15 DEF UpdateIdle
  <2>2. InFlight' = InFlight
    BY <1>1, <2>1, AdvanceKeeps DEF InFlight
  <2> QED
    BY <1>4, <1>13, <2>1, <2>2 DEF InLine
<1>16. CASE UNCHANGED vars
  BY <1>5, <1>16 DEF vars
<1> QED
  BY <1>6, <1>7, <1>8, <1>9, <1>10, <1>11, <1>12, <1>14, <1>15, <1>16
  DEF Next, Application, Thread, Finished

(* As long as no write had to wait, payloads leave in the order in which   *)
(* they were handed over, through all three lists and both threads.        *)
THEOREM OrderIsKept == Spec => []SentInOrder
<1>1. Init => Order
  <2> SUFFICES ASSUME Init PROVE InLine
    BY DEF Order
  <2>1. ElementsOf(<<>>) = {}
    BY DEF ElementsOf
  <2> QED
    BY <2>1 DEF Init, LoopInit, InLine
<1>2. SafeInv /\ Order /\ [Next]_vars => Order'
  BY OrderStep
<1>3. Order => SentInOrder
  BY DEF Order, InLine, SentInOrder
<1> QED
  BY <1>1, <1>2, <1>3, SafeInvariant, PTL DEF Spec
=============================================================================
