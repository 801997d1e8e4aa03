---------------------------- MODULE SenderThread ----------------------------
(***************************************************************************)
(* streamer/Sender.cpp: an application thread takes free chunks, fills and *)
(* hands them over; the sender thread sends them and gives them back.  One *)
(* mutex and one condition variable stand between the two.                 *)
(*                                                                         *)
(* pc is where the sender thread is.  It holds the mutex at "test" and     *)
(* "sleep"; all other critical sections are one step long.  The payload of *)
(* a chunk is its number in the order of sendChunk calls.                  *)
(***************************************************************************)
EXTENDS Loop

CONSTANTS
  NChunks,      \* 25
  Empty,        \* payloads without a byte in them
  Writable,     \* what kqueue may say of the socket
  MaxGiven      \* bound: chunks handed over

ASSUME NChunksAssumption == NChunks \in Nat
ASSUME WritableAssumption == Writable \subseteq BOOLEAN
ASSUME MaxGivenAssumption == MaxGiven \in Nat

Chunks == 1 .. NChunks
NoChunk == 0    \* NULL

VARIABLES
  free_chunks, used_chunks,     \* Buffer, guarded by the mutex
  data,                         \* payload of each chunk, 0 before the first
  held,                         \* chunk that the application is filling
  main,                         \* "run", "signal", "join" or "joined"
  must_stop,
  pc, work, next,               \* sender thread; work[next] is sent next
  given, sent,                  \* history: chunks handed over, payloads sent
  leaked,                       \* history: chunks that sendTo refused
  busy                          \* history: a write had to wait for the socket

bufferVars == <<free_chunks, used_chunks>>
appVars == <<held, main, must_stop, given>>
threadVars == <<work, next, write_list, sent, leaked, busy>>
vars == <<bufferVars, data, appVars, pc, threadVars>>

Init ==
  /\ free_chunks = [i \in Chunks |-> i]
  /\ used_chunks = <<>>
  /\ data = [c \in Chunks |-> 0]
  /\ held = NoChunk
  /\ main = "run"
  /\ must_stop = FALSE
  /\ pc = "loop"
  /\ work = <<>>
  /\ next = 1
  /\ LoopInit
  /\ given = 0
  /\ sent = <<>>
  /\ leaked = {}
  /\ busy = FALSE

MutexFree == pc \notin {"test", "sleep"}

(* pthread_cond_signal is lost on a thread that does not wait.             *)
Signal == pc' = IF pc = "waiting" THEN "woken" ELSE pc

-----------------------------------------------------------------------------
(* The application thread, used as in test_rxs_sender.cpp                  *)

GetFreeChunk ==
  /\ main = "run" /\ held = NoChunk /\ given < MaxGiven
  /\ MutexFree
  /\ free_chunks # <<>>
  /\ held' = Head(free_chunks)
  /\ free_chunks' = Tail(free_chunks)
  /\ UNCHANGED <<used_chunks, data, main, must_stop, given, pc, threadVars>>

(* Chunk::clear and a copy into it, outside of the mutex.                  *)
Fill ==
  /\ held # NoChunk /\ data[held] # given + 1
  /\ data' = [data EXCEPT ![held] = given + 1]
  /\ UNCHANGED <<bufferVars, appVars, pc, threadVars>>

SendChunk ==
  /\ held # NoChunk /\ data[held] = given + 1
  /\ MutexFree
  /\ used_chunks' = Append(used_chunks, held)
  /\ held' = NoChunk
  /\ given' = given + 1
  /\ Signal
  /\ UNCHANGED <<free_chunks, data, main, must_stop, threadVars>>

(* shutdown() up to its lock: a plain bool, written without the mutex.     *)
BeginShutdown ==
  /\ main = "run" /\ held = NoChunk
  /\ must_stop' = TRUE
  /\ main' = "signal"
  /\ UNCHANGED <<bufferVars, data, held, given, pc, threadVars>>

(* Mutation: the signal is given without holding the mutex.                *)
SignalShutdownUnlocked ==
  /\ main = "signal"
  /\ Signal
  /\ main' = "join"
  /\ UNCHANGED <<bufferVars, data, held, must_stop, given, threadVars>>

SignalShutdown ==
  /\ main = "signal"
  /\ MutexFree
  /\ Signal
  /\ main' = "join"
  /\ UNCHANGED <<bufferVars, data, held, must_stop, given, threadVars>>

Join ==
  /\ main = "join" /\ pc = "stopped"
  /\ main' = "joined"
  /\ UNCHANGED <<bufferVars, data, held, must_stop, given, pc, threadVars>>

-----------------------------------------------------------------------------
(* The sender thread *)

Loop ==
  /\ pc = "loop"
  /\ pc' = IF must_stop THEN "stopped" ELSE "lock"
  /\ UNCHANGED <<bufferVars, data, appVars, threadVars>>

Lock ==
  /\ pc = "lock"
  /\ pc' = "test"
  /\ UNCHANGED <<bufferVars, data, appVars, threadVars>>

(* The condition is about work, not about used_chunks: what was handed     *)
(* over before the thread got here does not keep it from waiting.          *)
Test ==
  /\ pc = "test"
  /\ pc' = IF work = <<>> /\ ~must_stop THEN "sleep" ELSE "unlocked"
  /\ UNCHANGED <<bufferVars, data, appVars, threadVars>>

(* pthread_cond_wait releases the mutex and waits in one step ...          *)
Wait ==
  /\ pc = "sleep"
  /\ pc' = "waiting"
  /\ UNCHANGED <<bufferVars, data, appVars, threadVars>>

(* ... and may return without a signal.                                    *)
SpuriousWakeup ==
  /\ pc = "waiting"
  /\ pc' = "woken"
  /\ UNCHANGED <<bufferVars, data, appVars, threadVars>>

(* Mutation: used_chunks is copied and not cleared.                        *)
CollectCopies ==
  /\ pc = "woken"
  /\ pc' = "test"
  /\ work' = work \o used_chunks
  /\ UNCHANGED <<free_chunks, used_chunks, data, appVars, next, write_list,
                 sent, leaked, busy>>

(* Mutation: chunks are inserted at the front of work.                     *)
CollectReversed ==
  /\ pc = "woken"
  /\ pc' = "test"
  /\ work' = [i \in DOMAIN used_chunks |->
                used_chunks[Len(used_chunks) + 1 - i]] \o work
  /\ used_chunks' = <<>>
  /\ UNCHANGED <<free_chunks, data, appVars, next, write_list, sent, leaked,
                 busy>>

(* Mutation: a wake-up takes one chunk.                                    *)
CollectFirst ==
  /\ pc = "woken"
  /\ pc' = "test"
  /\ work' = IF used_chunks = <<>> THEN <<>> ELSE <<Head(used_chunks)>>
  /\ used_chunks' = SubSeq(used_chunks, 2, Len(used_chunks))
  /\ UNCHANGED <<free_chunks, data, appVars, next, write_list, sent, leaked,
                 busy>>

(* Back from pthread_cond_wait, holding the mutex.                         *)
Collect ==
  /\ pc = "woken"
  /\ pc' = "test"
  /\ work' = work \o used_chunks
  /\ used_chunks' = <<>>
  /\ UNCHANGED <<free_chunks, data, appVars, next, write_list, sent, leaked,
                 busy>>

(* work can be empty here only if must_stop is set, which stays set: the   *)
(* check for a spurious wake-up that follows never applies.                *)
Unlocked ==
  /\ pc = "unlocked"
  /\ pc' = IF must_stop THEN "stopped" ELSE "send"
  /\ UNCHANGED <<bufferVars, data, appVars, threadVars>>

Send ==
  /\ pc = "send"
  /\ LET c == work[next]
         nbytes == IF data[c] \in Empty THEN 0 ELSE 1
     IN  /\ SendTo(c, nbytes)
         /\ leaked' = IF nbytes = 0 THEN leaked \cup {c} ELSE leaked
  /\ pc' = "update"
  /\ UNCHANGED <<bufferVars, data, appVars, work, next, sent, busy>>

(* The rest of the for loop after loop.update().                           *)
Advance ==
  IF next = Len(work)
  THEN next' = 1 /\ work' = <<>> /\ pc' = "loop"
  ELSE next' = next + 1 /\ work' = work /\ pc' = "send"

(* Mutation: the request is reset before its chunk is taken from it.       *)
UpdateWritesResetFirst ==
  /\ pc = "update"
  /\ TRUE \in Writable
  /\ \E c \in Chunks :
       /\ Execute(c)
       /\ sent' = Append(sent, data[c])
       /\ free_chunks' = Append(free_chunks, NoChunk)
  /\ Advance
  /\ UNCHANGED <<used_chunks, data, appVars, leaked, busy>>

(* The socket takes a request; sender_on_write frees its chunk.            *)
UpdateWrites ==
  /\ pc = "update"
  /\ TRUE \in Writable
  /\ \E c \in Chunks :
       /\ Execute(c)
       /\ sent' = Append(sent, data[c])
       /\ free_chunks' = Append(free_chunks, c)
  /\ Advance
  /\ UNCHANGED <<used_chunks, data, appVars, leaked, busy>>

UpdateIdle ==
  /\ pc = "update"
  /\ write_list = <<>> \/ FALSE \in Writable
  /\ Advance
  /\ busy' = (busy \/ write_list # <<>>)
  /\ UNCHANGED <<bufferVars, data, appVars, write_list, sent, leaked>>

-----------------------------------------------------------------------------
Thread ==
  \/ Loop
  \/ Lock
  \/ Test
  \/ Wait
  \/ Collect
  \/ Unlocked
  \/ Send
  \/ UpdateWrites
  \/ UpdateIdle

Application ==
  \/ GetFreeChunk
  \/ Fill
  \/ SendChunk
  \/ BeginShutdown
  \/ SignalShutdown
  \/ Join

Finished == main = "joined" /\ UNCHANGED vars

Next == Application \/ Thread \/ SpuriousWakeup \/ Finished

Spec == Init /\ [][Next]_vars

(* Both threads are scheduled and the mutex is handed on; the application  *)
(* need not go on sending, nor shut down, but finishes a shutdown it has   *)
(* begun.  Nothing makes a wake-up without a signal happen.                *)
FairSpec ==
  /\ Spec
  /\ WF_vars(Thread)
  /\ WF_vars(Fill) /\ WF_vars(SendChunk)
  /\ WF_vars(SignalShutdown) /\ WF_vars(Join)

-----------------------------------------------------------------------------
TypeOK ==
  /\ free_chunks \in Seq(Chunks)
  /\ used_chunks \in Seq(Chunks)
  /\ data \in [Chunks -> Nat]
  /\ held \in Chunks \cup {NoChunk}
  /\ main \in {"run", "signal", "join", "joined"}
  /\ must_stop \in BOOLEAN
  /\ pc \in {"loop", "lock", "test", "sleep", "waiting", "woken", "unlocked",
             "send", "update", "stopped"}
  /\ work \in Seq(Chunks)
  /\ next \in Nat \ {0}
  /\ write_list \in Seq(Chunks)
  /\ given \in Nat
  /\ sent \in Seq(Nat)
  /\ leaked \subseteq Chunks
  /\ busy \in BOOLEAN

ElementsOf(s) == {s[i] : i \in DOMAIN s}

(* work[first ..] is what the thread has not given to sendTo yet: between  *)
(* Send and the update that follows, work[next] is in write_list, too.     *)
FirstPending == IF pc = "update" THEN next + 1 ELSE next
PendingWork == {work[i] : i \in {j \in DOMAIN work : j >= FirstPending}}

Distinct(s) == \A i, j \in DOMAIN s : i # j => s[i] # s[j]

(* The places a chunk can be in.                                           *)
Places ==
  <<ElementsOf(free_chunks), ElementsOf(used_chunks), PendingWork,
    ElementsOf(write_list), {held} \ {NoChunk}, leaked>>

(* Every chunk is in exactly one place, and once: the two threads never    *)
(* use one at the same time, and none gets lost but through sendTo.        *)
ChunksConserved ==
  /\ UNION ElementsOf(Places) = Chunks
  /\ \A i, j \in DOMAIN Places : i # j => Places[i] \cap Places[j] = {}
  /\ Distinct(free_chunks) /\ Distinct(used_chunks)
  /\ Distinct(work) /\ Distinct(write_list)

(* What is on its way is what was handed over: a payload is sent at most   *)
(* once, and none before it was handed over, however chunks are reused.    *)
SentOnce ==
  /\ Distinct(sent)
  /\ \A i \in DOMAIN sent : sent[i] \in 1 .. given

(* As long as no write had to wait payloads leave in the order in which    *)
(* they were handed over.                                                  *)
SentInOrder == ~busy => \A i, j \in DOMAIN sent : i < j => sent[i] < sent[j]

(* shutdown() returns, wherever the sender thread was when it was called:  *)
(* must_stop is set without the mutex but signalled with it.               *)
ShutdownReturns == main = "signal" ~> main = "joined"

(* A chunk that waits when the thread is woken is sent, unless it is       *)
(* empty, the socket is busy, or the thread is asked to stop.              *)
WokenSends ==
  \A n \in 1 .. MaxGiven \ Empty :
    (pc = "woken" /\ n \in {data[used_chunks[i]] : i \in DOMAIN used_chunks})
      ~> (must_stop \/ busy \/ n \in ElementsOf(sent))

(* "Give our chunk to the sender which will make sure it's delivere to the *)
(* remote ip:port" (test_rxs_sender.cpp).                                  *)
GivenIsSent ==
  \A n \in 1 .. MaxGiven :
    given >= n ~> (must_stop \/ n \in ElementsOf(sent))
=============================================================================
