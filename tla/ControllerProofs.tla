-------------------------- MODULE ControllerProofs --------------------------
(***************************************************************************)
(* Proofs about Controller, for any number of datagrams, remotes and       *)
(* pending writes, datagrams of any length and a buffer of any size.       *)
(***************************************************************************)
EXTENDS Controller, FiniteSetTheorems, SequenceTheorems, WellFoundedInduction,
        TLAPS

(* A set of natural numbers has a least element.                           *)
LEMMA LeastElement ==
  ASSUME NEW T, T \subseteq Nat, T # {}
  PROVE  \E m \in T : \A k \in T : m <= k
<1>1. PICK m \in T : \A y \in T : ~ (<<y, m>> \in OpToRel(<, Nat))
  BY NatLessThanWellFounded, WFMin
<1>2. \A k \in T : k \in Nat /\ ~ (k < m)
  BY <1>1 DEF OpToRel
<1> QED
  BY <1>2, SMT

(* What is left of a row without one of its entries.                       *)
LEMMA RemovedFacts ==
  ASSUME NEW S, NEW s \in Seq(S), NEW k \in 1 .. Len(s)
  PROVE  /\ Removed(s, k) \in Seq(S)
         /\ Len(Removed(s, k)) = Len(s) - 1
         /\ \A i \in 1 .. Len(s) - 1 :
              Removed(s, k)[i] = IF i < k THEN s[i] ELSE s[i + 1]
<1> DEFINE a == SubSeq(s, 1, k - 1)
           b == SubSeq(s, k + 1, Len(s))
<1>1. Len(s) \in Nat /\ k \in Nat /\ k >= 1 /\ k <= Len(s)
  OBVIOUS
<1>2. \A i \in 1 .. Len(s) : s[i] \in S
  BY <1>1
<1>3. /\ a \in Seq(S) /\ Len(a) = k - 1
      /\ \A i \in 1 .. k - 1 : a[i] = s[i]
  <2>1. \A i \in 1 .. k - 1 : s[i] \in S
    BY <1>1, <1>2
  <2> QED BY <1>1, <2>1, SubSeqProperties
<1>4. /\ b \in Seq(S) /\ Len(b) = Len(s) - k
      /\ \A i \in 1 .. Len(s) - k : b[i] = s[k + i]
  <2>1. \A i \in k + 1 .. Len(s) : s[i] \in S
    BY <1>1, <1>2
  <2> QED BY <1>1, <2>1, SubSeqProperties
<1> HIDE DEF a, b
<1>5. Removed(s, k) = a \o b
  BY DEF Removed, a, b
<1>6. /\ a \o b \in Seq(S) /\ Len(a \o b) = Len(s) - 1
      /\ \A i \in 1 .. Len(s) - 1 :
           (a \o b)[i] = IF i <= k - 1 THEN a[i] ELSE b[i - (k - 1)]
  <2>1. Len(a) + Len(b) = Len(s) - 1
    BY <1>1, <1>3, <1>4
  <2>2. /\ a \o b \in Seq(S) /\ Len(a \o b) = Len(a) + Len(b)
        /\ \A i \in 1 .. Len(a) + Len(b) :
             (a \o b)[i] = IF i <= Len(a) THEN a[i] ELSE b[i - Len(a)]
    BY <1>3, <1>4, ConcatProperties
  <2> QED BY <1>3, <2>1, <2>2
<1>7. ASSUME NEW i \in 1 .. Len(s) - 1
      PROVE  (a \o b)[i] = IF i < k THEN s[i] ELSE s[i + 1]
  <2>1. CASE i < k
    BY <1>1, <1>3, <1>6, <2>1
  <2>2. CASE ~(i < k)
    <3>1. i - (k - 1) \in 1 .. Len(s) - k /\ k + (i - (k - 1)) = i + 1
      BY <1>1, <2>2
    <3> QED BY <1>1, <1>4, <1>6, <2>2, <3>1
  <2> QED BY <2>1, <2>2
<1> QED BY <1>5, <1>6, <1>7

-----------------------------------------------------------------------------
(* The inductive invariant, in parts.                                      *)

Request ==
  [is_free : BOOLEAN, of : Nat, to : Nat, data : Nat, nbytes : Nat]

Block == Seq(Nat \cup {Uninit})

Row == [of : Nat, to : Nat, bytes : Seq(Nat \cup {Uninit, Freed})]

Event == {ReadEvent} \cup {WriteEvent(i) : i \in DOMAIN write_requests}

Types ==
  /\ write_requests \in Seq(Request)
  /\ write_list \in Seq(DOMAIN write_requests)
  /\ heap \in Seq(Block)
  /\ length \in Seq(Nat)
  /\ nremotes \in Nat
  /\ nread \in 0 .. Len(length)
  /\ forwarding \in 0 .. nremotes + 1
  /\ events \in Seq(Event)
  /\ owed \subseteq (1 .. nread) \X (1 .. nremotes)
  /\ sent \in Seq(Row)

(* A request is in the list once, as long as it is not free.               *)
Pool ==
  /\ \A j, k \in DOMAIN write_list : write_list[j] = write_list[k] => j = k
  /\ \A i \in DOMAIN write_requests :
       ~write_requests[i].is_free <=> \E k \in DOMAIN write_list : write_list[k] = i

(* At most one event of each kind is waiting to be handled, and there is   *)
(* something to be read, or that request to be written.                    *)
Events ==
  /\ \A j, k \in DOMAIN events : events[j].filter = events[k].filter => j = k
  /\ \A k \in DOMAIN events :
       /\ events[k].filter = "read" => nread < Len(length) \/ forwarding # 0
       /\ events[k].filter = "write" =>
            \E n \in DOMAIN write_list : write_list[n] = events[k].udata
  /\ forwarding # 0 => Handling("read")

(* The input buffer is the last of the blocks, the others are given back;  *)
(* while on_read runs it begins with the datagram that was read.           *)
Buffer ==
  /\ in_capacity \in Nat /\ in_capacity >= Capacity
  /\ in_buffer = Len(heap) /\ heap # <<>>
  /\ \A b \in 1 .. Len(heap) - 1 : heap[b] = <<>>
  /\ Len(heap[Len(heap)]) = in_capacity
  /\ in_dx \in 0 .. in_capacity
  /\ forwarding = 0 => in_dx = 0
  /\ forwarding # 0 =>
       /\ nread > 0
       /\ length[nread] <= Capacity => in_dx = length[nread]
       /\ \A k \in 1 .. in_dx : heap[Len(heap)][k] = nread
       /\ \A r \in 1 .. nremotes : <<nread, r>> \in owed <=> in_dx # 0

(* on_read has come to the remote r with the datagram d.                   *)
Due(d, r) == <<d, r>> \in owed /\ (d < nread \/ forwarding \notin 1 .. r)

Wr(k) == write_requests[write_list[k]]

(* Exactly what is due is in the list or has been sent, and only once.     *)
OnlyDue ==
  /\ \A k \in DOMAIN write_list : Due(Wr(k).of, Wr(k).to)
  /\ \A k \in DOMAIN sent : Due(sent[k].of, sent[k].to)

Once ==
  /\ \A j, k \in DOMAIN write_list :
       Wr(j).of = Wr(k).of /\ Wr(j).to = Wr(k).to => j = k
  /\ \A j, k \in DOMAIN sent :
       sent[j].of = sent[k].of /\ sent[j].to = sent[k].to => j = k
  /\ \A j \in DOMAIN write_list, k \in DOMAIN sent :
       ~(Wr(j).of = sent[k].of /\ Wr(j).to = sent[k].to)

NoneForgotten ==
  \A d, r \in Nat : Due(d, r) => Queued(d, r) # {} \/ SentTo(d, r) # {}

Books == OnlyDue /\ Once /\ NoneForgotten

(* What a request that waits points to: bytes of its datagram or of later  *)
(* ones, or a block that was given back when a later one was read.         *)
PointsTo(req) ==
  /\ req.of \in 1 .. nread
  /\ length[req.of] <= Capacity => req.nbytes = length[req.of]
  /\ req.data \in 1 .. Len(heap)
  /\ req.data = Len(heap) =>
       /\ req.nbytes <= in_capacity
       /\ \A k \in 1 .. req.nbytes : heap[Len(heap)][k] \in req.of .. nread
  /\ req.data # Len(heap) => req.of < nread

Contents ==
  \A i \in DOMAIN write_requests :
    ~write_requests[i].is_free => PointsTo(write_requests[i])

Inv == Types /\ Pool /\ Events /\ Buffer /\ Books /\ Contents

-----------------------------------------------------------------------------
(* Inv holds at the start.                                                 *)
LEMMA InvInit == ControllerInit => Inv
<1> SUFFICES ASSUME ControllerInit PROVE Inv
  OBVIOUS
<1> USE DEF ControllerInit, LoopInit, SocketInit
<1> DEFINE block == [k \in 1 .. Capacity |-> Uninit]
<1>1. block \in Seq(Nat \cup {Uninit}) /\ Len(block) = Capacity
  BY CapacityAssumption
<1>2. heap = <<block>> /\ Len(heap) = 1 /\ heap[1] = block
  OBVIOUS
<1>3. Types
  <2>1. heap \in Seq(Block)
    BY <1>1, <1>2 DEF Block
  <2> QED BY <2>1 DEF Types
<1>4. Pool /\ Events
  BY DEF Pool, Events
<1>5. Buffer
  BY <1>1, <1>2, CapacityAssumption DEF Buffer
<1>6. Books
  BY DEF Books, OnlyDue, Once, NoneForgotten, Due
<1>7. Contents
  BY DEF Contents
<1> QED BY <1>3, <1>4, <1>5, <1>6, <1>7 DEF Inv

(* The request that getFreeWriteRequest gives.                             *)
LEMMA FreeRequestFacts ==
  ASSUME Types
  PROVE  /\ FreeRequest \in 1 .. Len(write_requests) + 1
         /\ FreeRequest \in DOMAIN write_requests =>
              write_requests[FreeRequest].is_free
         /\ \A j \in 1 .. FreeRequest - 1 : ~write_requests[j].is_free
<1> DEFINE n == Len(write_requests)
           Good(i) == /\ i \in DOMAIN write_requests => write_requests[i].is_free
                      /\ \A j \in 1 .. i - 1 : ~write_requests[j].is_free
           T == {i \in 1 .. n + 1 : i \in DOMAIN write_requests =>
                                      write_requests[i].is_free}
<1>1. n \in Nat /\ DOMAIN write_requests = 1 .. n
  BY DEF Types
<1>2. n + 1 \in T /\ T \subseteq Nat
  BY <1>1
<1>3. PICK m \in T : \A k \in T : m <= k
  BY <1>2, LeastElement
<1>4. m \in 1 .. n + 1 /\ Good(m)
  BY <1>1, <1>3
<1>5. FreeRequest = CHOOSE i \in 1 .. n + 1 : Good(i)
  BY DEF FreeRequest
<1> HIDE DEF Good
<1>6. FreeRequest \in 1 .. n + 1 /\ Good(FreeRequest)
  BY <1>4, <1>5
<1> QED BY <1>6 DEF Good
-----------------------------------------------------------------------------
(* What the books are kept of.                                             *)
booked == <<write_list, write_requests, sent>>

(* Datagrams and remotes are numbered.                                     *)
LEMMA PairTypes ==
  ASSUME Types
  PROVE  /\ \A k \in DOMAIN write_list : Wr(k).of \in Nat /\ Wr(k).to \in Nat
         /\ \A k \in DOMAIN sent : sent[k].of \in Nat /\ sent[k].to \in Nat
<1>1. \A k \in DOMAIN write_list : Wr(k) \in Request
  BY DEF Wr, Types
<1>2. sent \in Seq(Row)
  BY DEF Types
<1>3. \A x \in Row : x.of \in Nat /\ x.to \in Nat
  BY DEF Row
<1>4. \A k \in DOMAIN sent : sent[k].of \in Nat /\ sent[k].to \in Nat
  BY <1>2, <1>3
<1> QED BY <1>1, <1>4 DEF Request

(* The books are right as long as what is due, queued and sent stays.      *)
LEMMA BooksStay ==
  ASSUME Books, UNCHANGED booked, \A d, r \in Nat : Due(d, r)' <=> Due(d, r),
         Types, Types'
  PROVE  Books'
<1>1. \A k : Wr(k)' = Wr(k)
  BY DEF Wr, booked
<1>3. \A d, r : Queued(d, r)' = Queued(d, r) /\ SentTo(d, r)' = SentTo(d, r)
  BY DEF Queued, SentTo, booked
<1>4. OnlyDue'
  <2>1. /\ \A k \in DOMAIN write_list : Wr(k).of \in Nat /\ Wr(k).to \in Nat
        /\ \A k \in DOMAIN sent : sent[k].of \in Nat /\ sent[k].to \in Nat
    BY PairTypes
  <2>2. /\ \A k \in DOMAIN write_list : Due(Wr(k).of, Wr(k).to)
        /\ \A k \in DOMAIN sent : Due(sent[k].of, sent[k].to)
    BY DEF OnlyDue, Books
  <2>3. \A k \in DOMAIN write_list' : Due(Wr(k).of, Wr(k).to)'
    BY <1>1, <2>1, <2>2, Zenon DEF booked, Due
  <2>4. \A k \in DOMAIN sent' : Due(sent[k].of, sent[k].to)'
    BY <2>1, <2>2, Zenon DEF booked, Due
  <2> QED BY <2>3, <2>4 DEF OnlyDue, Due
<1>5. Once'
  BY <1>1 DEF Once, Books, booked
<1>6. NoneForgotten'
  BY <1>3 DEF NoneForgotten, Books
<1> QED BY <1>4, <1>5, <1>6 DEF Books

(* A datagram reaches the socket.                                          *)
LEMMA ArriveKeepsInv == ASSUME Inv, Arrive PROVE Inv'
<1> PICK len \in Lengths : length' = Append(length, len)
  BY DEF Arrive
<1> USE DEF Inv
<1>1. UNCHANGED <<loopVars, socketVars, nread, nremotes, forwarding, owed, sent>>
  BY DEF Arrive
<1>2. /\ len \in Nat /\ length \in Seq(Nat) /\ length' \in Seq(Nat)
      /\ Len(length') = Len(length) + 1
      /\ \A d \in 1 .. Len(length) : length'[d] = length[d]
  BY ControllerAssumption DEF Types
<1>3. Types'
  BY <1>1, <1>2 DEF Types, loopVars, socketVars, Event
<1>4. Pool' /\ Events'
  BY <1>1, <1>2 DEF Pool, Events, Types, loopVars, Handling
<1>5. Buffer'
  BY <1>1, <1>2 DEF Buffer, Types, socketVars
<1>6. Books'
  <2>1. UNCHANGED booked /\ \A d, r \in Nat : Due(d, r)' <=> Due(d, r)
    BY <1>1 DEF Due, booked, loopVars
  <2> QED BY <2>1, <1>3, BooksStay
<1>7. Contents'
  <2>1. ASSUME NEW i \in DOMAIN write_requests, ~write_requests[i].is_free
        PROVE  PointsTo(write_requests[i])'
    <3>1. PointsTo(write_requests[i])
      BY <2>1 DEF Contents
    <3> QED BY <1>1, <1>2, <3>1 DEF PointsTo, Types, loopVars, socketVars
  <2> QED BY <1>1, <2>1 DEF Contents, loopVars
<1> QED BY <1>3, <1>4, <1>5, <1>6, <1>7

(* addRemote keeps the invariant.                                          *)
LEMMA AddRemoteKeepsInv == ASSUME Inv, AddRemote PROVE Inv'
<1> USE DEF Inv
<1>1. /\ UNCHANGED <<loopVars, socketVars, length, nread, forwarding, owed, sent>>
      /\ events = <<>> /\ nremotes' = nremotes + 1
  BY DEF AddRemote
<1>2. forwarding = 0
  BY <1>1 DEF Events, Handling
<1>3. Types'
  BY <1>1 DEF Types, loopVars, socketVars, Event
<1>4. Pool' /\ Events'
  BY <1>1, <1>2 DEF Pool, Events, loopVars
<1>5. Buffer'
  BY <1>1, <1>2 DEF Buffer, socketVars
<1>6. Books'
  <2>1. UNCHANGED booked /\ \A d, r \in Nat : Due(d, r)' <=> Due(d, r)
    BY <1>1 DEF Due, booked, loopVars
  <2> QED BY <2>1, <1>3, BooksStay
<1>7. Contents'
  BY <1>1 DEF Contents, PointsTo, loopVars, socketVars
<1> QED BY <1>3, <1>4, <1>5, <1>6, <1>7

(* The orders of at most two events.                                       *)
LEMMA OrdersFacts ==
  ASSUME NEW S, NEW a, NEW b, S \subseteq {a, b}, NEW q \in Orders(S)
  PROVE  q \in Seq(S) /\ \A i, j \in DOMAIN q : q[i] = q[j] => i = j
<1>1. IsFiniteSet({a} \cup {b})
  BY FS_Singleton, FS_AddElement
<1>2. IsFiniteSet(S)
  BY <1>1, FS_Subset, {a, b} = {a} \cup {b}
<1>3. Cardinality(S) \in Nat
  BY <1>2, FS_CardinalityType
<1> QED BY <1>3 DEF Orders

(* kevent keeps the invariant.                                             *)
LEMMA PollKeepsInv == ASSUME Inv, Poll PROVE Inv'
<1> USE DEF Inv
<1>1. /\ events = <<>>
      /\ UNCHANGED <<write_list, write_requests, socketVars, length, nread,
                     nremotes, forwarding, owed, sent>>
  BY DEF Poll
<1>2. forwarding = 0
  BY <1>1 DEF Events, Handling
<1>3. PICK ready \in {Readable, Readable \cup Writable} : events' \in Orders(ready)
  BY DEF Poll
<1> DEFINE w == WriteEvent(write_list[Len(write_list)])
<1>4. ready \subseteq {ReadEvent, w}
  BY <1>3 DEF Readable, Writable
<1>5. events' \in Seq(ready) /\ \A i, j \in DOMAIN events' : events'[i] = events'[j] => i = j
  BY <1>3, <1>4, OrdersFacts
<1>6. /\ ReadEvent \in ready => nread < Len(length)
      /\ w \in ready => write_list # <<>>
  BY <1>3 DEF Readable, Writable, ReadEvent, WriteEvent
<1>7. /\ ReadEvent.filter = "read" /\ w.filter = "write"
      /\ w.udata = write_list[Len(write_list)]
  BY DEF ReadEvent, WriteEvent
<1>8. write_list # <<>> => /\ Len(write_list) \in DOMAIN write_list
                          /\ write_list[Len(write_list)] \in DOMAIN write_requests
  BY DEF Types
<1>9. ready \subseteq Event
  BY <1>4, <1>6, <1>8 DEF Event
<1>10. Types'
  <2>1. events' \in Seq(Event)
    BY <1>5, <1>9
  <2> QED BY <1>1, <2>1 DEF Types, socketVars, Event
<1>11. Pool'
  BY <1>1 DEF Pool
<1>12. Events'
  <2>1. \A k \in DOMAIN events' : events'[k] \in ready
    BY <1>5
  <2>2. \A j, k \in DOMAIN events' : events'[j].filter = events'[k].filter => j = k
    BY <2>1, <1>4, <1>5, <1>7
  <2>3. \A k \in DOMAIN events' : events'[k].filter = "read" => nread < Len(length)
    BY <2>1, <1>4, <1>6, <1>7
  <2>4. \A k \in DOMAIN events' : events'[k].filter = "write" =>
            \E n \in DOMAIN write_list : write_list[n] = events'[k].udata
    <3> HIDE DEF w
    <3>1. SUFFICES ASSUME NEW k \in DOMAIN events', events'[k].filter = "write"
                   PROVE  \E n \in DOMAIN write_list : write_list[n] = events'[k].udata
      OBVIOUS
    <3>2. events'[k] = w
      BY <2>1, <3>1, <1>4, <1>7
    <3> QED BY <2>1, <3>2, <1>6, <1>7, <1>8
  <2> QED BY <1>1, <1>2, <2>2, <2>3, <2>4 DEF Events
<1>13. Buffer'
  BY <1>1 DEF Buffer, socketVars
<1>14. Books'
  <2>1. UNCHANGED booked /\ \A d, r \in Nat : Due(d, r)' <=> Due(d, r)
    BY <1>1 DEF Due, booked
  <2> QED BY <2>1, <1>10, BooksStay
<1>15. Contents'
  BY <1>1 DEF Contents, PointsTo, socketVars
<1> QED BY <1>10, <1>11, <1>12, <1>13, <1>14, <1>15

(* What recvmsg does with the buffer, which is empty when it is called.    *)
LEMMA ReadFacts ==
  ASSUME Inv, Read
  PROVE  /\ nread' = nread + 1 /\ nread' \in 1 .. Len(length)
         /\ forwarding = 0 /\ forwarding' = 1
         /\ owed' = IF length[nread'] = 0 THEN owed
                    ELSE owed \cup ({nread'} \X (1 .. nremotes))
         /\ UNCHANGED <<loopVars, length, nremotes, sent>>
         /\ in_dx = 0 /\ in_dx' = Nread(length[nread'])
         /\ length[nread'] \in Nat
         /\ in_dx' \in 0 .. in_capacity
         /\ length[nread'] <= Capacity => in_dx' = length[nread']
         /\ in_dx' = 0 <=> length[nread'] = 0
<1> USE DEF Inv
<1>1. /\ Handling("read") /\ forwarding = 0 /\ nread' = nread + 1
      /\ RecvMsg(nread', length[nread']) /\ forwarding' = 1
      /\ owed' = IF length[nread'] = 0 THEN owed
                 ELSE owed \cup ({nread'} \X (1 .. nremotes))
      /\ UNCHANGED <<loopVars, length, nremotes, sent>>
  BY DEF Read
<1>2. nread < Len(length)
  <2>1. 1 \in DOMAIN events /\ events[1].filter = "read"
    BY <1>1 DEF Handling, Types
  <2> QED BY <1>1, <2>1 DEF Events
<1>3. nread' \in 1 .. Len(length) /\ length[nread'] \in Nat
  BY <1>1, <1>2 DEF Types
<1>4. in_dx = 0 /\ in_dx' = Nread(length[nread'])
  <2>1. in_dx = 0 /\ in_capacity \in Nat
    BY <1>1 DEF Buffer
  <2> QED BY <1>1, <1>3, <2>1 DEF RecvMsg, Nread, Room
<1>5. /\ in_dx' \in 0 .. in_capacity
      /\ length[nread'] <= Capacity => in_dx' = length[nread']
      /\ in_dx' = 0 <=> length[nread'] = 0
  BY <1>3, <1>4, CapacityAssumption DEF Nread, Room, Buffer
<1> QED BY <1>1, <1>3, <1>4, <1>5

(* The blocks after a datagram was read: what was in the last of them      *)
(* stays there behind the new bytes, unless the block was moved.           *)
LEMMA HeapAfterRead ==
  ASSUME Inv, Read
  PROVE  /\ heap' \in Seq(Block)
         /\ in_capacity' \in Nat /\ in_capacity' >= in_capacity
         /\ in_buffer' = Len(heap') /\ heap' # <<>>
         /\ \A b \in 1 .. Len(heap') - 1 : heap'[b] = <<>>
         /\ Len(heap'[Len(heap')]) = in_capacity'
         /\ \A k \in 1 .. in_dx' : heap'[Len(heap')][k] = nread'
         /\ \/ /\ Len(heap') = Len(heap)
               /\ \A k \in 1 .. in_capacity : k > in_dx' =>
                    heap'[Len(heap')][k] = heap[Len(heap)][k]
            \/ Len(heap') = Len(heap) + 1
<1> DEFINE L == Len(heap)
           n == in_dx'
           d == nread'
           old == heap[L]
           new == ReadInto(d, n)
           big == Doubled(new)
<1>1. /\ in_dx = 0 /\ n \in 0 .. in_capacity /\ d \in Nat
      /\ n = Nread(length[d]) /\ length[d] \in Nat
  BY ReadFacts
<1>2. /\ heap \in Seq(Block) /\ L \in Nat \ {0} /\ in_buffer = L
      /\ in_capacity \in Nat /\ \A b \in 1 .. L - 1 : heap[b] = <<>>
      /\ old \in Block /\ Len(old) = in_capacity
  BY DEF Inv, Types, Buffer
<1>3. /\ new \in Block /\ Len(new) = in_capacity
      /\ \A k \in 1 .. in_capacity : new[k] = IF k <= n THEN d ELSE old[k]
  <2>1. \A k \in 1 .. in_capacity : old[k] \in Nat \cup {Uninit}
    BY <1>2 DEF Block
  <2>2. new = [k \in 1 .. in_capacity |-> IF k \in 1 .. n THEN d ELSE old[k]]
    BY <1>1, <1>2 DEF ReadInto
  <2> HIDE DEF new, old, n, d
  <2> QED BY <1>1, <1>2, <2>1, <2>2 DEF Block
<1>4. /\ big \in Block /\ Len(big) = 2 * in_capacity
      /\ \A k \in 1 .. in_capacity : big[k] = new[k]
  <2>1. \A k \in 1 .. in_capacity : new[k] \in Nat \cup {Uninit}
    BY <1>2, <1>3 DEF Block
  <2>2. big = [k \in 1 .. 2 * in_capacity |->
                 IF k <= in_capacity THEN new[k] ELSE Uninit]
    BY DEF Doubled
  <2> HIDE DEF new, big
  <2> QED BY <1>2, <2>1, <2>2 DEF Block
<1>5. \/ /\ heap' = [heap EXCEPT ![L] = new] /\ UNCHANGED <<in_buffer, in_capacity>>
      \/ /\ heap' = [heap EXCEPT ![L] = big]
         /\ UNCHANGED in_buffer /\ in_capacity' = 2 * in_capacity
      \/ /\ heap' = Append([heap EXCEPT ![L] = <<>>], big)
         /\ in_buffer' = L + 1 /\ in_capacity' = 2 * in_capacity
  BY <1>1, <1>2 DEF Read, RecvMsg, GrowInputBuffer
<1> HIDE DEF new, big, old, n, d, L
<1>6. CASE heap' = [heap EXCEPT ![L] = new] /\ UNCHANGED <<in_buffer, in_capacity>>
  <2>4. heap' \in Seq(Block) /\ Len(heap') = L /\ heap'[L] = new
        /\ \A b \in 1 .. L - 1 : heap'[b] = heap[b]
    BY <1>2, <1>3, <1>6 DEF L
  <2>5. /\ \A k \in 1 .. n : heap'[L][k] = d
        /\ \A k \in 1 .. in_capacity : k > n => heap'[L][k] = old[k]
    BY <1>1, <1>2, <1>3, <1>4, <2>4
  <2>6. in_capacity' \in Nat /\ in_capacity' >= in_capacity /\ in_buffer' = Len(heap')
    BY <1>2, <1>6, <2>4
  <2>7. Len(heap') # 0 /\ \A b \in 1 .. Len(heap') - 1 : heap'[b] = <<>>
    BY <1>2, <2>4
  <2>8. Len(heap'[Len(heap')]) = in_capacity'
    BY <1>2, <1>3, <1>4, <1>6, <2>4
  <2>9. \A k \in 1 .. in_dx' : heap'[Len(heap')][k] = nread'
    BY <2>4, <2>5 DEF n, d
  <2>10. \A k \in 1 .. in_capacity : k > in_dx' => heap'[Len(heap')][k] = heap[Len(heap)][k]
    BY <2>4, <2>5 DEF n, L, old
  <2> QED BY <2>4, <2>6, <2>7, <2>8, <2>9, <2>10 DEF L
<1>7. CASE /\ heap' = [heap EXCEPT ![L] = big]
           /\ UNCHANGED in_buffer /\ in_capacity' = 2 * in_capacity
  <2>4. heap' \in Seq(Block) /\ Len(heap') = L /\ heap'[L] = big
        /\ \A b \in 1 .. L - 1 : heap'[b] = heap[b]
    BY <1>2, <1>4, <1>7 DEF L
  <2>5. /\ \A k \in 1 .. n : heap'[L][k] = d
        /\ \A k \in 1 .. in_capacity : k > n => heap'[L][k] = old[k]
    BY <1>1, <1>2, <1>3, <1>4, <2>4
  <2>6. in_capacity' \in Nat /\ in_capacity' >= in_capacity /\ in_buffer' = Len(heap')
    BY <1>2, <1>7, <2>4
  <2>7. Len(heap') # 0 /\ \A b \in 1 .. Len(heap') - 1 : heap'[b] = <<>>
    BY <1>2, <2>4
  <2>8. Len(heap'[Len(heap')]) = in_capacity'
    BY <1>2, <1>3, <1>4, <1>7, <2>4
  <2>9. \A k \in 1 .. in_dx' : heap'[Len(heap')][k] = nread'
    BY <2>4, <2>5 DEF n, d
  <2>10. \A k \in 1 .. in_capacity : k > in_dx' => heap'[Len(heap')][k] = heap[Len(heap)][k]
    BY <2>4, <2>5 DEF n, L, old
  <2> QED BY <2>4, <2>6, <2>7, <2>8, <2>9, <2>10 DEF L
<1>8. CASE /\ heap' = Append([heap EXCEPT ![L] = <<>>], big)
           /\ in_buffer' = L + 1 /\ in_capacity' = 2 * in_capacity
  <2> DEFINE freed == [heap EXCEPT ![L] = <<>>]
  <2>1. <<>> \in Block
    BY DEF Block
  <2>2. freed \in Seq(Block) /\ Len(freed) = L /\ \A b \in 1 .. L : freed[b] = <<>>
    BY <1>2, <2>1 DEF L
  <2> HIDE DEF freed
  <2>3. heap' = Append(freed, big)
    BY <1>8 DEF freed
  <2>4. heap' \in Seq(Block) /\ Len(heap') = L + 1 /\ heap'[L + 1] = big
        /\ \A b \in 1 .. L : heap'[b] = <<>>
    BY <1>2, <1>4, <2>2, <2>3, AppendProperties
  <2>5. \A k \in 1 .. n : heap'[L + 1][k] = d
    BY <1>1, <1>2, <1>3, <1>4, <2>4
  <2>6. in_capacity' \in Nat /\ in_capacity' >= in_capacity /\ in_buffer' = Len(heap')
    BY <1>2, <1>8, <2>4
  <2>7. Len(heap') # 0 /\ \A b \in 1 .. Len(heap') - 1 : heap'[b] = <<>>
    BY <1>2, <2>4
  <2>8. Len(heap'[Len(heap')]) = in_capacity'
    BY <1>2, <1>3, <1>4, <1>8, <2>4
  <2>9. \A k \in 1 .. in_dx' : heap'[Len(heap')][k] = nread'
    BY <2>4, <2>5 DEF n, d
  <2> QED BY <2>4, <2>6, <2>7, <2>8, <2>9 DEF L
<1> QED BY <1>5, <1>6, <1>7, <1>8

(* A read keeps the invariant, also when the buffer grows.                 *)
LEMMA ReadKeepsInv == ASSUME Inv, Read PROVE Inv'
<1> USE DEF Inv
<1>1. /\ nread' = nread + 1 /\ nread' \in 1 .. Len(length)
      /\ forwarding = 0 /\ forwarding' = 1
      /\ owed' = IF length[nread'] = 0 THEN owed
                 ELSE owed \cup ({nread'} \X (1 .. nremotes))
      /\ UNCHANGED <<loopVars, length, nremotes, sent>>
      /\ in_dx' \in 0 .. in_capacity
      /\ length[nread'] <= Capacity => in_dx' = length[nread']
      /\ in_dx' = 0 <=> length[nread'] = 0
  BY ReadFacts
<1>2. nread \in Nat /\ nremotes \in Nat /\ nread \in 0 .. Len(length)
  BY DEF Types
<1>3. /\ in_capacity \in Nat /\ in_capacity >= Capacity /\ Capacity \in Nat
      /\ heap \in Seq(Block) /\ Len(heap) \in Nat
  BY CapacityAssumption DEF Types, Buffer
<1>4. owed \subseteq (1 .. nread) \X (1 .. nremotes)
  BY DEF Types
<1>5. Types'
  <2>1. owed' \subseteq (1 .. nread') \X (1 .. nremotes')
    BY <1>1, <1>2, <1>4
  <2>2. heap' \in Seq(Block)
    BY HeapAfterRead
  <2>3. Event' = Event
    BY <1>1 DEF Event, loopVars
  <2> QED BY <1>1, <1>2, <2>1, <2>2, <2>3 DEF Types, loopVars
<1>6. Pool' /\ Events'
  <2>1. Handling("read") /\ Handling("read")'
    BY <1>1 DEF Read, Handling, loopVars
  <2> QED BY <1>1, <2>1 DEF Pool, Events, loopVars
<1>7. Buffer'
  <2>1. /\ in_capacity' \in Nat /\ in_capacity' >= in_capacity
        /\ in_buffer' = Len(heap') /\ heap' # <<>>
        /\ \A b \in 1 .. Len(heap') - 1 : heap'[b] = <<>>
        /\ Len(heap'[Len(heap')]) = in_capacity'
        /\ \A k \in 1 .. in_dx' : heap'[Len(heap')][k] = nread'
    BY HeapAfterRead
  <2>2. \A r \in 1 .. nremotes : <<nread', r>> \in owed' <=> in_dx' # 0
    <3>1. ASSUME NEW r \in 1 .. nremotes
          PROVE  <<nread', r>> \notin owed
      BY <1>1, <1>2, <1>4
    <3> QED BY <1>1, <3>1
  <2>3. in_capacity' >= Capacity /\ in_dx' \in 0 .. in_capacity' /\ nread' > 0
    BY <1>1, <1>2, <1>3, <2>1
  <2> QED BY <1>1, <2>1, <2>2, <2>3 DEF Buffer
<1>8. Books'
  <2>1. Len(length) \in Nat /\ 0 \notin 1 .. 0 /\ \A r \in Nat : 0 \notin 1 .. r
    BY DEF Types
  <2>2. ASSUME NEW d \in Nat, NEW r \in Nat
        PROVE  Due(d, r)' <=> Due(d, r)
    <3>1. CASE d = nread'
      <4>1. <<d, r>> \notin owed
        BY <1>1, <1>2, <1>4, <3>1
      <4>2. <<d, r>> \in owed' => r \in 1 .. nremotes
        BY <1>1, <4>1
      <4> QED BY <1>1, <1>2, <3>1, <4>1, <4>2 DEF Due
    <3>2. CASE d # nread'
      <4>1. <<d, r>> \in owed' <=> <<d, r>> \in owed
        BY <1>1, <3>2
      <4>2. <<d, r>> \in owed => d < nread'
        BY <1>1, <1>2, <1>4
      <4> QED BY <1>1, <2>1, <4>1, <4>2 DEF Due
    <3> QED BY <3>1, <3>2
  <2>3. UNCHANGED booked
    BY <1>1 DEF loopVars, booked
  <2> QED BY <2>2, <2>3, <1>5, BooksStay
<1>9. Contents'
  <2>1. SUFFICES ASSUME NEW i \in DOMAIN write_requests, ~write_requests[i].is_free
                 PROVE  PointsTo(write_requests[i])'
    BY <1>1 DEF Contents, loopVars
  <2> DEFINE req == write_requests[i]
  <2>2. req' = req /\ req \in Request
    BY <1>1 DEF loopVars, Types
  <2>3. PointsTo(req)
    BY <2>1 DEF Contents
  <2>4. req.of \in Nat /\ req.nbytes \in Nat /\ req.data \in Nat
    BY <2>2 DEF Request
  <2>5. /\ req.of \in 1 .. nread'
        /\ length'[req.of] <= Capacity => req.nbytes = length'[req.of]
        /\ req.of < nread'
    BY <1>1, <1>2, <2>3, <2>4 DEF PointsTo
  <2> HIDE DEF req
  <2>6. CASE /\ Len(heap') = Len(heap)
             /\ \A k \in 1 .. in_capacity : k > in_dx' =>
                  heap'[Len(heap')][k] = heap[Len(heap)][k]
    <3>1. in_capacity' \in Nat /\ in_capacity' >= in_capacity
      BY HeapAfterRead
    <3>2. ASSUME req.data = Len(heap'), NEW k \in 1 .. req.nbytes
          PROVE  heap'[Len(heap')][k] \in req.of .. nread'
      <4>1. k \in 1 .. in_capacity /\ heap[Len(heap)][k] \in req.of .. nread
        BY <1>3, <2>3, <2>4, <2>6, <3>2 DEF PointsTo
      <4>2. CASE k <= in_dx'
        <5>1. heap'[Len(heap')][k] = nread'
          BY <1>1, <4>1, <4>2, HeapAfterRead
        <5> QED BY <1>1, <1>2, <2>4, <2>5, <5>1
      <4>3. CASE k > in_dx'
        <5>1. heap'[Len(heap')][k] = heap[Len(heap)][k]
          BY <2>6, <4>1, <4>3
        <5> QED BY <1>1, <1>2, <2>4, <4>1, <5>1
      <4> QED BY <1>1, <1>3, <4>1, <4>2, <4>3
    <3>3. req.data \in 1 .. Len(heap') /\ (req.data = Len(heap') => req.nbytes <= in_capacity')
      BY <1>3, <2>3, <2>4, <2>6, <3>1 DEF PointsTo
    <3> QED BY <2>2, <2>5, <3>2, <3>3 DEF PointsTo, req
  <2>7. CASE Len(heap') = Len(heap) + 1
    <3>1. req.data \in 1 .. Len(heap') /\ req.data # Len(heap')
      BY <1>3, <2>3, <2>4, <2>7 DEF PointsTo
    <3> QED BY <2>2, <2>5, <3>1 DEF PointsTo, req
  <2> QED BY <2>6, <2>7, HeapAfterRead
<1> QED BY <1>5, <1>6, <1>7, <1>8, <1>9

(* The end of the loop over the remotes keeps the invariant.               *)
LEMMA ReadDoneKeepsInv == ASSUME Inv, ReadDone PROVE Inv'
<1> USE DEF Inv
<1>1. /\ forwarding = nremotes + 1 /\ in_dx' = 0 /\ forwarding' = 0
      /\ events' = Tail(events)
      /\ UNCHANGED <<write_list, write_requests, heap, in_buffer, in_capacity,
                     length, nread, nremotes, owed, sent>>
  BY DEF ReadDone
<1>2. /\ nremotes \in Nat /\ events \in Seq(Event) /\ events # <<>>
      /\ events[1].filter = "read"
  BY <1>1 DEF Types, Events, Handling
<1>3. /\ events' \in Seq(Event) /\ Len(events') = Len(events) - 1
      /\ \A k \in 1 .. Len(events') : events'[k] = events[k + 1]
  BY <1>1, <1>2, HeadTailProperties
<1>4. Types'
  BY <1>1, <1>2, <1>3 DEF Types, Event
<1>5. Pool'
  BY <1>1 DEF Pool
<1>6. Events'
  <2>1. /\ DOMAIN events = 1 .. Len(events) /\ DOMAIN events' = 1 .. Len(events')
        /\ Len(events) \in Nat /\ Len(events) > 0
    BY <1>2, <1>3
  <2>2. ASSUME NEW k \in DOMAIN events'
        PROVE  /\ k + 1 \in DOMAIN events /\ events'[k] = events[k + 1]
               /\ events'[k].filter # "read"
    BY <1>2, <1>3, <2>1 DEF Events
  <2>3. \A j, k \in DOMAIN events' : events'[j].filter = events'[k].filter => j = k
    <3>1. ASSUME NEW j \in DOMAIN events', NEW k \in DOMAIN events',
                 events'[j].filter = events'[k].filter
          PROVE  j = k
      <4>1. j + 1 = k + 1
        BY <2>2, <3>1 DEF Events
      <4> QED BY <2>1, <4>1
    <3> QED BY <3>1
  <2>4. \A k \in DOMAIN events' : events'[k].filter = "write" =>
            \E n \in DOMAIN write_list : write_list[n] = events'[k].udata
    BY <2>2 DEF Events
  <2> QED BY <1>1, <2>2, <2>3, <2>4 DEF Events
<1>7. Buffer'
  BY <1>1 DEF Buffer
<1>8. Books'
  <2>1. owed \subseteq (1 .. nread) \X (1 .. nremotes)
    BY DEF Types
  <2>2. ASSUME NEW d \in Nat, NEW r \in Nat
        PROVE  Due(d, r)' <=> Due(d, r)
    <3>1. <<d, r>> \in owed => r \in 1 .. nremotes
      BY <2>1
    <3> QED BY <1>1, <1>2, <3>1 DEF Due
  <2> QED BY <1>1, <1>4, <2>2, BooksStay DEF booked
<1>9. Contents'
  BY <1>1 DEF Contents, PointsTo
<1> QED BY <1>4, <1>5, <1>6, <1>7, <1>8, <1>9

-----------------------------------------------------------------------------
(* A turn of on_read's loop puts a request behind all those that wait.     *)
LEMMA ForwardFacts ==
  ASSUME Inv, Forward
  PROVE  /\ forwarding \in 1 .. nremotes /\ forwarding' = forwarding + 1
         /\ UNCHANGED <<socketVars, events, length, nread, nremotes, owed, sent>>
         /\ nread \in 1 .. Len(length)
         /\ in_dx = 0 => UNCHANGED <<write_list, write_requests>>
         /\ in_dx # 0 =>
              /\ write_list' = Append(write_list, FreeRequest)
              /\ FreeRequest \in DOMAIN write_requests'
              /\ DOMAIN write_requests' = DOMAIN write_requests \cup {FreeRequest}
              /\ write_requests' \in Seq(Request)
              /\ write_requests'[FreeRequest] =
                   [is_free |-> FALSE, of |-> nread, to |-> forwarding,
                    data |-> Len(heap), nbytes |-> in_dx]
              /\ \A i \in DOMAIN write_requests :
                   i # FreeRequest => write_requests'[i] = write_requests[i]
              /\ \A k \in DOMAIN write_list : write_list[k] # FreeRequest
<1> USE DEF Inv
<1> DEFINE F == FreeRequest
           n == Len(write_requests)
           req == [is_free |-> FALSE, of |-> nread, to |-> forwarding,
                   data |-> Len(heap), nbytes |-> in_dx]
<1>1. /\ forwarding \in 1 .. nremotes /\ forwarding' = forwarding + 1
      /\ UNCHANGED <<socketVars, events, length, nread, nremotes, owed, sent>>
      /\ SendTo(F, in_dx)
      /\ in_buffer = Len(heap)
      /\ in_dx = 0 => UNCHANGED write_requests
      /\ in_dx # 0 => Fill(F, req)
  BY DEF Forward, Buffer
<1>2. nread \in 1 .. Len(length)
  <2>1. nread > 0 /\ nread \in 0 .. Len(length)
    BY <1>1 DEF Buffer, Types
  <2> QED BY <2>1
<1>3. write_requests \in Seq(Request) /\ n \in Nat /\ DOMAIN write_requests = 1 .. n
  BY DEF Types
<1>4. /\ F \in 1 .. n + 1
      /\ F \in DOMAIN write_requests => write_requests[F].is_free
  BY FreeRequestFacts
<1>5. req \in Request
  <2>1. forwarding \in Nat /\ nread \in Nat
    BY <1>1, <1>2 DEF Types
  <2>2. in_dx \in Nat /\ Len(heap) \in Nat
    BY DEF Types, Buffer
  <2> QED BY <2>1, <2>2 DEF Request
<1> HIDE DEF F, n, req
<1>6. ASSUME in_dx # 0
      PROVE  /\ write_list' = Append(write_list, F)
             /\ F \in DOMAIN write_requests'
             /\ DOMAIN write_requests' = DOMAIN write_requests \cup {F}
             /\ write_requests' \in Seq(Request)
             /\ write_requests'[F] = req
             /\ \A i \in DOMAIN write_requests :
                  i # F => write_requests'[i] = write_requests[i]
             /\ \A k \in DOMAIN write_list : write_list[k] # F
  <2>1. write_list' = Append(write_list, F)
    BY <1>1, <1>6 DEF SendTo
  <2>2. write_requests' = [k \in DOMAIN write_requests \cup {F} |->
                             IF k = F THEN req ELSE write_requests[k]]
    BY <1>1, <1>6 DEF Fill
  <2>3. \E m \in {n, n + 1} : DOMAIN write_requests \cup {F} = 1 .. m
    BY <1>3, <1>4
  <2>4. \A k \in DOMAIN write_requests \cup {F} :
          (IF k = F THEN req ELSE write_requests[k]) \in Request
    BY <1>3, <1>5
  <2>5. write_requests' \in Seq(Request)
    <3>1. PICK m \in {n, n + 1} : DOMAIN write_requests \cup {F} = 1 .. m
      BY <2>3
    <3>2. write_requests' \in [1 .. m -> Request] /\ m \in Nat
      BY <1>3, <2>2, <2>4, <3>1
    <3> QED BY <3>2
  <2>6. \A k \in DOMAIN write_list : write_list[k] # F
    <3>1. ASSUME NEW k \in DOMAIN write_list, write_list[k] = F PROVE FALSE
      <4>1. F \in DOMAIN write_requests
        BY <3>1 DEF Types
      <4> QED BY <1>4, <3>1, <4>1 DEF Pool
    <3> QED BY <3>1
  <2> QED BY <2>1, <2>2, <2>5, <2>6
<1>7. in_dx = 0 => UNCHANGED <<write_list, write_requests>>
  BY <1>1 DEF SendTo
<1> QED BY <1>1, <1>2, <1>6, <1>7 DEF F, req

(* One turn of that loop keeps the invariant.                              *)
LEMMA ForwardKeepsInv == ASSUME Inv, Forward PROVE Inv'
<1> USE DEF Inv
<1>1. /\ forwarding \in 1 .. nremotes /\ forwarding' = forwarding + 1
      /\ UNCHANGED <<socketVars, events, length, nread, nremotes, owed, sent>>
      /\ nread \in 1 .. Len(length)
  BY ForwardFacts
<1>2. nremotes \in Nat /\ forwarding # 0 /\ owed \subseteq (1 .. nread) \X (1 .. nremotes)
  BY <1>1 DEF Types
<1>3. Buffer'
  BY <1>1, <1>2 DEF Buffer, socketVars
<1>4. CASE in_dx = 0
  <2>1. UNCHANGED <<write_list, write_requests>>
    BY <1>4, ForwardFacts
  <2>2. Types'
    BY <1>1, <1>2, <2>1 DEF Types, Event, socketVars
  <2>3. Pool' /\ Events'
    BY <1>1, <1>2, <2>1 DEF Pool, Events, Handling
  <2>4. ASSUME NEW d \in Nat, NEW r \in Nat
        PROVE  Due(d, r)' <=> Due(d, r)
    <3>1. <<d, r>> \in owed => d \in 1 .. nread /\ r \in 1 .. nremotes
      BY <1>2
    <3>2. <<d, r>> \in owed => d # nread
      BY <1>2, <1>4, <3>1 DEF Buffer
    <3>3. <<d, r>> \in owed => d < nread
      BY <1>1, <3>1, <3>2
    <3> QED BY <1>1, <3>3 DEF Due
  <2>5. Books'
    BY <1>1, <2>1, <2>2, <2>4, BooksStay DEF booked
  <2>6. Contents'
    BY <1>1, <2>1 DEF Contents, PointsTo, socketVars
  <2> QED BY <1>3, <2>2, <2>3, <2>5, <2>6
<1>5. CASE in_dx # 0
  <2> DEFINE F == FreeRequest
  <2> PICK n \in Nat : n = Len(write_list)
    BY DEF Types
  <2>1. /\ write_list' = Append(write_list, F)
        /\ F \in DOMAIN write_requests'
        /\ DOMAIN write_requests' = DOMAIN write_requests \cup {F}
        /\ write_requests' \in Seq(Request)
        /\ write_requests'[F] =
             [is_free |-> FALSE, of |-> nread, to |-> forwarding,
              data |-> Len(heap), nbytes |-> in_dx]
        /\ \A i \in DOMAIN write_requests :
             i # F => write_requests'[i] = write_requests[i]
        /\ \A k \in DOMAIN write_list : write_list[k] # F
    BY <1>5, ForwardFacts
  <2> HIDE DEF F
  <2>2. /\ write_list \in Seq(DOMAIN write_requests) /\ n \in Nat
        /\ DOMAIN write_list = 1 .. n
    BY DEF Types
  <2>3. /\ write_list' \in Seq(DOMAIN write_requests')
        /\ DOMAIN write_list' = 1 .. n + 1
        /\ \A k \in 1 .. n : write_list'[k] = write_list[k]
        /\ write_list'[n + 1] = F
    <3>1. write_list \in Seq(DOMAIN write_requests')
      BY <2>1, <2>2
    <3>2. /\ Append(write_list, F) \in Seq(DOMAIN write_requests')
          /\ Len(Append(write_list, F)) = n + 1
          /\ \A k \in 1 .. n : Append(write_list, F)[k] = write_list[k]
          /\ Append(write_list, F)[n + 1] = F
      BY <2>1, <3>1, AppendProperties
    <3> QED BY <2>1, <2>2, <3>2
  <2>4. Types'
    <3>1. Event \subseteq Event'
      BY <2>1 DEF Event
    <3>2. events' \in Seq(Event')
      BY <1>1, <3>1 DEF Types
    <3> QED BY <1>1, <1>2, <2>1, <2>3, <3>2 DEF Types, socketVars
  <2>5. Pool'
    <3>1. \A j, k \in DOMAIN write_list' : write_list'[j] = write_list'[k] => j = k
      <4>1. \A j, k \in 1 .. n : write_list'[j] = write_list'[k] => j = k
        BY <2>2, <2>3 DEF Pool
      <4>2. \A j \in 1 .. n : write_list'[j] # write_list'[n + 1]
        BY <2>1, <2>2, <2>3
      <4>3. \A j \in 1 .. n + 1 : j \in 1 .. n \/ j = n + 1
        BY <2>2
      <4> QED BY <2>3, <4>1, <4>2, <4>3
    <3>2. \A i \in DOMAIN write_requests' :
            ~write_requests'[i].is_free <=> \E k \in DOMAIN write_list' : write_list'[k] = i
      <4>1. ASSUME NEW i \in DOMAIN write_requests'
            PROVE  ~write_requests'[i].is_free
                     <=> \E k \in DOMAIN write_list' : write_list'[k] = i
        <5>1. CASE i = F
          <6>1. n + 1 \in DOMAIN write_list' /\ write_list'[n + 1] = i
            BY <2>2, <2>3, <5>1
          <6>2. ~write_requests'[i].is_free
            BY <2>1, <5>1
          <6> QED BY <6>1, <6>2
        <5>2. CASE i # F
          <6>1. i \in DOMAIN write_requests /\ write_requests'[i] = write_requests[i]
            BY <2>1, <5>2
          <6>2. (\E k \in DOMAIN write_list' : write_list'[k] = i)
                  <=> \E k \in DOMAIN write_list : write_list[k] = i
            <7>1. \A k \in 1 .. n + 1 : k \in 1 .. n \/ k = n + 1
              BY <2>2
            <7>2. \A k \in 1 .. n : k \in 1 .. n + 1
              BY <2>2
            <7> QED BY <2>2, <2>3, <5>2, <7>1, <7>2
          <6> QED BY <6>1, <6>2 DEF Pool
        <5> QED BY <5>1, <5>2
      <4> QED BY <4>1
    <3> QED BY <3>1, <3>2 DEF Pool
  <2>6. Events'
    <3>1. ASSUME NEW k \in DOMAIN events, events[k].filter = "write"
          PROVE  \E m \in DOMAIN write_list' : write_list'[m] = events[k].udata
      <4>1. PICK m \in DOMAIN write_list : write_list[m] = events[k].udata
        BY <3>1 DEF Events
      <4>2. m \in DOMAIN write_list' /\ write_list'[m] = write_list[m]
        BY <2>2, <2>3, <4>1
      <4> QED BY <4>1, <4>2
    <3> QED BY <1>1, <1>2, <3>1 DEF Events, Handling
  <2>7. Books'
    <3>1. <<nread, forwarding>> \in owed /\ forwarding \in Nat /\ nread \in Nat
      BY <1>1, <1>2, <1>5 DEF Buffer, Types
    <3>2. ASSUME NEW d \in Nat, NEW r \in Nat
          PROVE  /\ Due(d, r)' <=> (Due(d, r) \/ (d = nread /\ r = forwarding))
                 /\ Due(d, r) => ~(d = nread /\ r = forwarding)
      <4>1. <<d, r>> \in owed => d \in 1 .. nread /\ r \in 1 .. nremotes
        BY <1>2
      <4> QED BY <1>1, <3>1, <4>1 DEF Due
    <3>3. /\ \A k \in 1 .. n : Wr(k)' = Wr(k)
          /\ Wr(n + 1)'.of = nread /\ Wr(n + 1)'.to = forwarding
      <4>1. \A k \in 1 .. n : write_list[k] \in DOMAIN write_requests /\ write_list[k] # F
        BY <2>1, <2>2
      <4> QED BY <2>1, <2>3, <4>1 DEF Wr
    <3>4. /\ \A k \in 1 .. n : /\ Wr(k).of \in Nat /\ Wr(k).to \in Nat
                               /\ Due(Wr(k).of, Wr(k).to)
          /\ \A k \in DOMAIN sent : /\ sent[k].of \in Nat /\ sent[k].to \in Nat
                                    /\ Due(sent[k].of, sent[k].to)
      BY <2>2, PairTypes DEF Books, OnlyDue
    <3>5. \A k \in 1 .. n : ~(Wr(k).of = nread /\ Wr(k).to = forwarding)
      BY <3>2, <3>4
    <3>6. \A k \in DOMAIN sent : ~(sent[k].of = nread /\ sent[k].to = forwarding)
      BY <3>2, <3>4
    <3>7. \A k \in 1 .. n + 1 : k \in 1 .. n \/ k = n + 1
      BY <2>2
    <3>8. OnlyDue'
      <4>1. ASSUME NEW k \in 1 .. n + 1 PROVE Due(Wr(k).of, Wr(k).to)'
        <5>1. CASE k \in 1 .. n
          BY <3>2, <3>3, <3>4, <5>1 DEF Due
        <5>2. CASE k = n + 1
          BY <3>1, <3>2, <3>3, <5>2 DEF Due
        <5> QED BY <3>7, <5>1, <5>2
      <4>2. ASSUME NEW k \in DOMAIN sent PROVE Due(sent[k].of, sent[k].to)'
        BY <1>1, <3>2, <3>4 DEF Due
      <4> QED BY <1>1, <2>3, <4>1, <4>2 DEF OnlyDue, Due
    <3>9. Once'
      <4>1. ASSUME NEW j \in 1 .. n + 1, NEW k \in 1 .. n + 1,
                   Wr(j)'.of = Wr(k)'.of, Wr(j)'.to = Wr(k)'.to
            PROVE  j = k
        <5>1. \A a, b \in 1 .. n : Wr(a).of = Wr(b).of /\ Wr(a).to = Wr(b).to => a = b
          BY <2>2 DEF Books, Once
        <5> QED BY <3>3, <3>5, <3>7, <4>1, <5>1
      <4>2. \A j \in 1 .. n + 1, k \in DOMAIN sent :
              ~(Wr(j)'.of = sent[k].of /\ Wr(j)'.to = sent[k].to)
        <5>1. \A j \in 1 .. n, k \in DOMAIN sent :
                ~(Wr(j).of = sent[k].of /\ Wr(j).to = sent[k].to)
          BY <2>2 DEF Books, Once
        <5> QED BY <3>3, <3>6, <3>7, <5>1
      <4>3. \A j, k \in DOMAIN sent :
              sent[j].of = sent[k].of /\ sent[j].to = sent[k].to => j = k
        BY DEF Books, Once
      <4> QED BY <1>1, <2>3, <4>1, <4>2, <4>3 DEF Once
    <3>10. NoneForgotten'
      <4>1. ASSUME NEW d \in Nat, NEW r \in Nat, Due(d, r)'
            PROVE  (Queued(d, r) # {} \/ SentTo(d, r) # {})'
        <5>1. CASE d = nread /\ r = forwarding
          <6>1. n + 1 \in DOMAIN write_list'
            BY <2>2, <2>3
          <6>2. n + 1 \in Queued(d, r)'
            BY <3>3, <5>1, <6>1 DEF Queued, Wr
          <6> QED BY <6>2
        <5>2. CASE ~(d = nread /\ r = forwarding)
          <6>1. Queued(d, r) # {} \/ SentTo(d, r) # {}
            BY <3>2, <4>1, <5>2 DEF Books, NoneForgotten
          <6>2. CASE Queued(d, r) # {}
            <7>1. PICK k \in 1 .. n : Wr(k).of = d /\ Wr(k).to = r
              BY <2>2, <6>2 DEF Queued, Wr
            <7>2. k \in DOMAIN write_list' /\ Wr(k)'.of = d /\ Wr(k)'.to = r
              BY <2>2, <2>3, <3>3, <7>1
            <7>3. k \in Queued(d, r)'
              BY <7>2 DEF Queued, Wr
            <7> QED BY <7>3
          <6>3. CASE SentTo(d, r) # {}
            BY <1>1, <6>3 DEF SentTo
          <6> QED BY <6>1, <6>2, <6>3
        <5> QED BY <5>1, <5>2
      <4> QED BY <4>1 DEF NoneForgotten
    <3> QED BY <3>8, <3>9, <3>10 DEF Books
  <2>8. Contents'
    <3>1. ASSUME NEW i \in DOMAIN write_requests', ~write_requests'[i].is_free
          PROVE  PointsTo(write_requests[i])'
      <4>1. CASE i = F
        <5>1. /\ nread > 0
              /\ length[nread] <= Capacity => in_dx = length[nread]
              /\ \A k \in 1 .. in_dx : heap[Len(heap)][k] = nread
              /\ Len(heap) \in Nat \ {0}
              /\ in_capacity \in Nat /\ in_dx \in 0 .. in_capacity
          BY <1>2 DEF Buffer, Types
        <5>2. /\ UNCHANGED <<heap, in_capacity, length, nread>>
              /\ nread \in Nat
          BY <1>1 DEF socketVars
        <5>3. /\ write_requests'[i].of = nread /\ write_requests'[i].nbytes = in_dx
              /\ write_requests'[i].data = Len(heap)
          BY <2>1, <4>1
        <5> QED BY <5>1, <5>2, <5>3 DEF PointsTo
      <4>2. CASE i # F
        <5>1. i \in DOMAIN write_requests /\ write_requests'[i] = write_requests[i]
          BY <2>1, <4>2
        <5>2. PointsTo(write_requests[i])
          BY <3>1, <5>1 DEF Contents
        <5> QED BY <1>1, <5>1, <5>2 DEF PointsTo, socketVars
      <4> QED BY <4>1, <4>2
    <3> QED BY <3>1 DEF Contents
  <2> QED BY <1>3, <2>4, <2>5, <2>6, <2>7, <2>8
<1> QED BY <1>4, <1>5

-----------------------------------------------------------------------------
(* What sendto finds behind the pointer of a request that waits.           *)
LEMMA BytesFacts ==
  ASSUME Inv, NEW i \in DOMAIN write_requests, ~write_requests[i].is_free,
         NEW req, req = write_requests[i]
  PROVE  /\ Bytes(req.data, req.nbytes) \in Seq(Nat \cup {Uninit, Freed})
         /\ Len(Bytes(req.data, req.nbytes)) = req.nbytes
         /\ req.data = Len(heap) =>
              \A k \in 1 .. req.nbytes :
                Bytes(req.data, req.nbytes)[k] \in req.of .. nread
         /\ req.data # Len(heap) =>
              \A k \in 1 .. req.nbytes : Bytes(req.data, req.nbytes)[k] = Freed
<1> DEFINE s == Bytes(req.data, req.nbytes)
<1>1. PointsTo(req)
  BY DEF Inv, Contents
<1>2. req.nbytes \in Nat /\ req.data \in Nat /\ req.of \in Nat
  <2>1. req \in Request
    BY DEF Inv, Types
  <2> QED BY <2>1 DEF Request
<1>3. nread \in Nat /\ Len(heap) \in Nat
  BY DEF Inv, Types
<1>4. s = [k \in 1 .. req.nbytes |->
             IF heap[req.data] = <<>> THEN Freed ELSE heap[req.data][k]]
  BY DEF Bytes
<1> HIDE DEF s
<1>5. CASE req.data = Len(heap)
  <2>1. heap[req.data] # <<>>
    <3>1. Len(heap[Len(heap)]) >= Capacity
      BY CapacityAssumption DEF Inv, Buffer
    <3> QED BY <1>5, <3>1, CapacityAssumption
  <2>2. \A k \in 1 .. req.nbytes : heap[req.data][k] \in req.of .. nread
    BY <1>1, <1>5 DEF PointsTo
  <2>3. \A k \in 1 .. req.nbytes : s[k] \in req.of .. nread
    BY <1>4, <2>1, <2>2
  <2>4. \A k \in 1 .. req.nbytes : s[k] \in Nat \cup {Uninit, Freed}
    BY <1>2, <1>3, <2>3
  <2>5. s \in Seq(Nat \cup {Uninit, Freed}) /\ Len(s) = req.nbytes
    BY <1>2, <1>4, <2>4
  <2> QED BY <1>5, <2>3, <2>5 DEF s
<1>6. CASE req.data # Len(heap)
  <2>1. req.data \in 1 .. Len(heap) - 1
    BY <1>1, <1>2, <1>3, <1>6 DEF PointsTo
  <2>2. heap[req.data] = <<>>
    BY <2>1 DEF Inv, Buffer
  <2>3. \A k \in 1 .. req.nbytes : s[k] = Freed
    BY <1>4, <2>2
  <2>4. \A k \in 1 .. req.nbytes : s[k] \in Nat \cup {Uninit, Freed}
    BY <2>3
  <2>5. s \in Seq(Nat \cup {Uninit, Freed}) /\ Len(s) = req.nbytes
    BY <1>2, <1>4, <2>4
  <2> QED BY <1>6, <2>3, <2>5 DEF s
<1> QED BY <1>5, <1>6

(* The request that Loop::send writes waits, and its entry goes.           *)
LEMMA SendFacts ==
  ASSUME Inv, Send
  PROVE  \E m \in DOMAIN write_list, i \in DOMAIN write_requests :
           /\ i = write_list[m] /\ ~write_requests[i].is_free
           /\ write_list' = Removed(write_list, m)
           /\ write_requests' = [write_requests EXCEPT
                ![i] = [is_free |-> TRUE, of |-> 0, to |-> 0, data |-> 0, nbytes |-> 0]]
           /\ sent' = Append(sent, [of |-> write_requests[i].of,
                                    to |-> write_requests[i].to,
                                    bytes |-> Bytes(write_requests[i].data,
                                                    write_requests[i].nbytes)])
           /\ forwarding = 0
           /\ events # <<>> /\ events[1].filter = "write" /\ events[1].udata = i
           /\ events' = Tail(events)
           /\ UNCHANGED <<socketVars, length, nread, nremotes, forwarding, owed>>
<1> USE DEF Inv
<1>1. /\ events # <<>> /\ events[1].filter = "write"
      /\ events' = Tail(events)
      /\ UNCHANGED <<socketVars, length, nread, nremotes, forwarding, owed>>
  BY DEF Send, Handling
<1>2. forwarding = 0
  BY <1>1 DEF Events, Handling
<1>3. 1 \in DOMAIN events
  BY <1>1 DEF Types
<1> DEFINE i == Head(events).udata
<1>4. i = events[1].udata
  BY <1>1
<1>5. Erase(i) /\ Reset(i)
  BY DEF Send
<1> HIDE DEF i
<1>6. PICK m \in DOMAIN write_list :
        write_list[m] = i /\ write_list' = Removed(write_list, m)
  BY <1>5 DEF Erase
<1>7. i \in DOMAIN write_requests
  BY <1>6 DEF Types
<1>8. ~write_requests[i].is_free
  BY <1>6, <1>7 DEF Pool
<1>9. sent' = Append(sent, [of |-> write_requests[i].of,
                            to |-> write_requests[i].to,
                            bytes |-> Bytes(write_requests[i].data,
                                            write_requests[i].nbytes)])
  BY DEF Send, i
<1> QED BY <1>1, <1>2, <1>4, <1>5, <1>6, <1>7, <1>8, <1>9 DEF Reset

(* Where the k-th entry of a row stood before the m-th was taken out.      *)
Before(m, k) == IF k < m THEN k ELSE k + 1

(* Before numbers the entries of a row other than m, without a gap.        *)
LEMMA BeforeFacts ==
  ASSUME NEW n \in Nat, NEW m \in 1 .. n
  PROVE  /\ \A k \in 1 .. n - 1 : Before(m, k) \in 1 .. n /\ Before(m, k) # m
         /\ \A j, k \in 1 .. n - 1 : Before(m, j) = Before(m, k) => j = k
         /\ \A k \in 1 .. n : k # m => \E j \in 1 .. n - 1 : Before(m, j) = k
<1>1. ASSUME NEW k \in 1 .. n, k # m PROVE \E j \in 1 .. n - 1 : Before(m, j) = k
  <2>1. CASE k < m
    <3>1. k \in 1 .. n - 1 /\ Before(m, k) = k
      BY <2>1 DEF Before
    <3> QED BY <3>1
  <2>2. CASE k > m
    <3>1. k - 1 \in 1 .. n - 1 /\ Before(m, k - 1) = k
      BY <2>2 DEF Before
    <3> QED BY <3>1
  <2> QED BY <1>1, <2>1, <2>2
<1>2. \A k \in 1 .. n - 1 : Before(m, k) \in 1 .. n /\ Before(m, k) # m
  BY DEF Before
<1>3. \A j, k \in 1 .. n - 1 : Before(m, j) = Before(m, k) => j = k
  BY DEF Before
<1> QED BY <1>1, <1>2, <1>3

(* A write keeps the invariant.                                            *)
LEMMA SendKeepsInv == ASSUME Inv, Send PROVE Inv'
<1> PICK m \in DOMAIN write_list, i \in DOMAIN write_requests :
           /\ i = write_list[m] /\ ~write_requests[i].is_free
           /\ write_list' = Removed(write_list, m)
           /\ write_requests' = [write_requests EXCEPT
                ![i] = [is_free |-> TRUE, of |-> 0, to |-> 0, data |-> 0, nbytes |-> 0]]
           /\ sent' = Append(sent, [of |-> write_requests[i].of,
                                    to |-> write_requests[i].to,
                                    bytes |-> Bytes(write_requests[i].data,
                                                    write_requests[i].nbytes)])
           /\ forwarding = 0
           /\ events # <<>> /\ events[1].filter = "write" /\ events[1].udata = i
           /\ events' = Tail(events)
           /\ UNCHANGED <<socketVars, length, nread, nremotes, forwarding, owed>>
  BY SendFacts
<1>0. Len(write_list) \in Nat /\ Len(sent) \in Nat
  BY DEF Inv, Types
<1> PICK n \in Nat : n = Len(write_list)
  BY <1>0
<1> PICK c \in Nat : c = Len(sent)
  BY <1>0
<1> PICK req \in Request : req = write_requests[i]
  BY DEF Inv, Types
<1> PICK row : row = [of |-> req.of, to |-> req.to,
                      bytes |-> Bytes(req.data, req.nbytes)]
  OBVIOUS
<1>1. /\ m \in 1 .. n /\ DOMAIN write_list = 1 .. n
      /\ write_list \in Seq(DOMAIN write_requests)
      /\ write_requests \in Seq(Request)
      /\ sent \in Seq(Row) /\ DOMAIN sent = 1 .. c
      /\ events \in Seq(Event)
  BY DEF Inv, Types
<1>2. /\ write_list' \in Seq(DOMAIN write_requests)
      /\ DOMAIN write_list' = 1 .. n - 1
      /\ \A k \in 1 .. n - 1 :
           write_list'[k] = IF k < m THEN write_list[k] ELSE write_list[k + 1]
  <2>1. /\ Removed(write_list, m) \in Seq(DOMAIN write_requests)
        /\ Len(Removed(write_list, m)) = n - 1
        /\ \A k \in 1 .. n - 1 : Removed(write_list, m)[k] =
             IF k < m THEN write_list[k] ELSE write_list[k + 1]
    BY <1>1, RemovedFacts
  <2> QED BY <2>1
<1>3. /\ DOMAIN write_requests' = DOMAIN write_requests
      /\ write_requests' \in Seq(Request)
      /\ write_requests'[i].is_free
      /\ \A k \in DOMAIN write_requests :
           k # i => write_requests'[k] = write_requests[k]
  <2>1. [is_free |-> TRUE, of |-> 0, to |-> 0, data |-> 0, nbytes |-> 0] \in Request
    BY DEF Request
  <2> QED BY <1>1, <2>1
<1>4. row \in Row /\ row.of = req.of /\ row.to = req.to
  <2>1. req.of \in Nat /\ req.to \in Nat
    BY DEF Request
  <2>2. Bytes(req.data, req.nbytes) \in Seq(Nat \cup {Uninit, Freed})
    BY BytesFacts
  <2> QED BY <2>1, <2>2 DEF Row
<1>5. /\ sent' = Append(sent, row)
      /\ sent' \in Seq(Row) /\ DOMAIN sent' = 1 .. c + 1
      /\ \A k \in 1 .. c : sent'[k] = sent[k]
      /\ sent'[c + 1] = row
  <2>1. sent' = Append(sent, row)
    OBVIOUS
  <2> QED BY <1>1, <1>4, <2>1, AppendProperties
<1>6. /\ events' \in Seq(Event) /\ DOMAIN events = 1 .. Len(events)
      /\ DOMAIN events' = 1 .. Len(events')
      /\ Len(events') = Len(events) - 1 /\ Len(events) \in Nat
      /\ \A k \in 1 .. Len(events') : events'[k] = events[k + 1]
  BY <1>1, HeadTailProperties
<1>7. Types'
  <2>1. Event' = Event
    BY <1>3 DEF Event
  <2>2. UNCHANGED <<heap, length, nremotes, nread, forwarding, owed>>
    BY DEF socketVars
  <2> QED BY <1>2, <1>3, <1>5, <1>6, <2>1, <2>2 DEF Inv, Types
<1>8. /\ \A k \in 1 .. n - 1 : /\ Before(m, k) \in 1 .. n /\ Before(m, k) # m
                               /\ write_list'[k] = write_list[Before(m, k)]
      /\ \A j, k \in 1 .. n - 1 : Before(m, j) = Before(m, k) => j = k
      /\ \A k \in 1 .. n : k # m => \E j \in 1 .. n - 1 : Before(m, j) = k
  <2>1. m \in 1 .. n
    BY <1>1
  <2>2. \A k \in 1 .. n - 1 : write_list'[k] = write_list[Before(m, k)]
    BY <1>2 DEF Before
  <2>3. /\ \A k \in 1 .. n - 1 : Before(m, k) \in 1 .. n /\ Before(m, k) # m
        /\ \A j, k \in 1 .. n - 1 : Before(m, j) = Before(m, k) => j = k
        /\ \A k \in 1 .. n : k # m => \E j \in 1 .. n - 1 : Before(m, j) = k
    BY <2>1, BeforeFacts
  <2> QED BY <2>2, <2>3
<1>9. \A k \in 1 .. n : k # m => write_list[k] # i
  BY <1>1 DEF Inv, Pool
<1>10. Pool'
  <2>1. \A j, k \in 1 .. n - 1 : write_list'[j] = write_list'[k] => j = k
    BY <1>1, <1>8 DEF Inv, Pool
  <2>2. ASSUME NEW x \in DOMAIN write_requests
        PROVE  ~write_requests'[x].is_free
                 <=> \E k \in 1 .. n - 1 : write_list'[k] = x
    <3>1. CASE x = i
      <4>1. \A k \in 1 .. n - 1 : write_list'[k] # x
        BY <1>8, <1>9, <3>1
      <4> QED BY <1>3, <3>1, <4>1
    <3>2. CASE x # i
      <4>1. ~write_requests[x].is_free <=> \E k \in 1 .. n : write_list[k] = x
        BY <1>1 DEF Inv, Pool
      <4>2. ASSUME NEW k \in 1 .. n, write_list[k] = x
            PROVE  \E j \in 1 .. n - 1 : write_list'[j] = x
        <5>1. PICK j \in 1 .. n - 1 : Before(m, j) = k
          BY <1>8, <3>2, <4>2
        <5> QED BY <1>8, <4>2, <5>1
      <4>3. ASSUME NEW j \in 1 .. n - 1, write_list'[j] = x
            PROVE  \E k \in 1 .. n : write_list[k] = x
        BY <1>8, <4>3
      <4> QED BY <1>3, <3>2, <4>1, <4>2, <4>3
    <3> QED BY <3>1, <3>2
  <2> QED BY <1>2, <1>3, <2>1, <2>2 DEF Pool
<1>11. Events'
  <2>1. ASSUME NEW k \in DOMAIN events'
        PROVE  /\ k + 1 \in DOMAIN events /\ events'[k] = events[k + 1]
               /\ events'[k].filter # "write"
    <3>1. k + 1 \in DOMAIN events /\ events'[k] = events[k + 1] /\ k + 1 # 1
          /\ 1 \in DOMAIN events
      BY <1>6
    <3>2. events[k + 1].filter # events[1].filter
      BY <3>1 DEF Inv, Events
    <3> QED BY <3>1, <3>2
  <2>2. ASSUME NEW j \in DOMAIN events', NEW k \in DOMAIN events',
               events'[j].filter = events'[k].filter
        PROVE  j = k
    <3>1. j + 1 = k + 1
      BY <2>1, <2>2 DEF Inv, Events
    <3> QED BY <1>6, <3>1
  <2>3. \A k \in DOMAIN events' : events'[k].filter = "read" => nread < Len(length)
    BY <2>1 DEF Inv, Events
  <2> QED BY <2>1, <2>2, <2>3 DEF Events
<1>12. Buffer'
  BY DEF Inv, Buffer, socketVars
<1>13. Books'
  <2>1. /\ \A k \in 1 .. n : /\ Wr(k).of \in Nat /\ Wr(k).to \in Nat
                             /\ Due(Wr(k).of, Wr(k).to)
        /\ \A k \in 1 .. c : /\ sent[k].of \in Nat /\ sent[k].to \in Nat
                             /\ Due(sent[k].of, sent[k].to)
    BY <1>1, PairTypes DEF Inv, Books, OnlyDue
  <2>2. Wr(m) = req
    BY DEF Wr
  <2>3. \A d, r \in Nat : Due(d, r)' <=> Due(d, r)
    BY DEF Due
  <2>4. \A k \in 1 .. n - 1 : Wr(k)' = Wr(Before(m, k))
    <3>1. ASSUME NEW k \in 1 .. n - 1
          PROVE  write_requests'[write_list'[k]] = write_requests[write_list[Before(m, k)]]
      <4>1. write_list[Before(m, k)] \in DOMAIN write_requests
        BY <1>1, <1>8
      <4> QED BY <1>3, <1>8, <1>9, <4>1
    <3> QED BY <3>1 DEF Wr
  <2>5. \A k \in 1 .. c + 1 : k \in 1 .. c \/ k = c + 1
    OBVIOUS
  <2>6. OnlyDue'
    <3>1. ASSUME NEW k \in 1 .. n - 1 PROVE Due(Wr(k).of, Wr(k).to)'
      BY <1>8, <2>1, <2>3, <2>4 DEF Due
    <3>2. ASSUME NEW k \in 1 .. c + 1 PROVE Due(sent[k].of, sent[k].to)'
      BY <1>1, <1>4, <1>5, <2>1, <2>2, <2>3, <2>5 DEF Due
    <3> QED BY <1>2, <1>5, <3>1, <3>2 DEF OnlyDue, Due
  <2>7. Once'
    <3>1. /\ \A j, k \in 1 .. n : Wr(j).of = Wr(k).of /\ Wr(j).to = Wr(k).to => j = k
          /\ \A j, k \in 1 .. c : sent[j].of = sent[k].of /\ sent[j].to = sent[k].to => j = k
          /\ \A j \in 1 .. n, k \in 1 .. c :
               ~(Wr(j).of = sent[k].of /\ Wr(j).to = sent[k].to)
      BY <1>1 DEF Inv, Books, Once
    <3>2. \A j, k \in 1 .. n - 1 :
            Wr(j)'.of = Wr(k)'.of /\ Wr(j)'.to = Wr(k)'.to => j = k
      BY <1>8, <2>4, <3>1
    <3>3. /\ \A k \in 1 .. c : sent'[k].of = sent[k].of /\ sent'[k].to = sent[k].to
          /\ sent'[c + 1].of = Wr(m).of /\ sent'[c + 1].to = Wr(m).to
      BY <1>4, <1>5, <2>2
    <3>4. m \in 1 .. n
      BY <1>1
    <3>5. ASSUME NEW k \in 1 .. c
          PROVE  ~(sent'[k].of = sent'[c + 1].of /\ sent'[k].to = sent'[c + 1].to)
      <4>1. ~(Wr(m).of = sent[k].of /\ Wr(m).to = sent[k].to)
        BY <3>1, <3>4
      <4> QED BY <3>3, <4>1
    <3>6. \A j, k \in 1 .. c + 1 :
            sent'[j].of = sent'[k].of /\ sent'[j].to = sent'[k].to => j = k
      BY <2>5, <3>1, <3>3, <3>5
    <3>7. ASSUME NEW j \in 1 .. n - 1, NEW k \in 1 .. c + 1
          PROVE  ~(Wr(j)'.of = sent'[k].of /\ Wr(j)'.to = sent'[k].to)
      <4> PICK o \in 1 .. n : o # m /\ Wr(j)' = Wr(o)
        BY <1>8, <2>4
      <4>1. CASE k \in 1 .. c
        <5>1. ~(Wr(o).of = sent[k].of /\ Wr(o).to = sent[k].to)
          BY <3>1, <4>1
        <5> QED BY <3>3, <4>1, <5>1
      <4>2. CASE k = c + 1
        <5>1. ~(Wr(o).of = Wr(m).of /\ Wr(o).to = Wr(m).to)
          BY <3>1, <3>4
        <5> QED BY <3>3, <4>2, <5>1
      <4> QED BY <2>5, <4>1, <4>2
    <3>8. /\ \A j, k \in DOMAIN write_list' :
               Wr(j)'.of = Wr(k)'.of /\ Wr(j)'.to = Wr(k)'.to => j = k
          /\ \A j, k \in DOMAIN sent' :
               sent'[j].of = sent'[k].of /\ sent'[j].to = sent'[k].to => j = k
      BY <1>2, <1>5, <3>2, <3>6
    <3>9. \A j \in DOMAIN write_list', k \in DOMAIN sent' :
            ~(Wr(j)'.of = sent'[k].of /\ Wr(j)'.to = sent'[k].to)
      BY <1>2, <1>5, <3>7
    <3> QED BY <3>8, <3>9 DEF Once
  <2>8. NoneForgotten'
    <3>1. ASSUME NEW d \in Nat, NEW r \in Nat, Due(d, r)'
          PROVE  (Queued(d, r) # {} \/ SentTo(d, r) # {})'
      <4>1. Queued(d, r) # {} \/ SentTo(d, r) # {}
        BY <2>3, <3>1 DEF Inv, Books, NoneForgotten
      <4>2. CASE Queued(d, r) # {}
        <5>1. PICK k \in 1 .. n : Wr(k).of = d /\ Wr(k).to = r
          BY <1>1, <4>2 DEF Queued, Wr
        <5>2. CASE k = m
          <6>1. c + 1 \in SentTo(d, r)'
            BY <1>4, <1>5, <2>2, <5>1, <5>2 DEF SentTo
          <6> QED BY <6>1
        <5>3. CASE k # m
          <6>1. PICK j \in 1 .. n - 1 : Before(m, j) = k
            BY <1>8, <5>3
          <6>2. j \in DOMAIN write_list' /\ Wr(j)'.of = d /\ Wr(j)'.to = r
            BY <1>2, <2>4, <5>1, <6>1
          <6>3. j \in Queued(d, r)'
            BY <6>2 DEF Queued, Wr
          <6> QED BY <6>3
        <5> QED BY <5>2, <5>3
      <4>3. CASE SentTo(d, r) # {}
        <5>1. PICK k \in 1 .. c : sent[k].of = d /\ sent[k].to = r
          BY <1>1, <4>3 DEF SentTo
        <5>2. k \in DOMAIN sent' /\ sent'[k] = sent[k]
          BY <1>5
        <5>3. k \in SentTo(d, r)'
          BY <5>1, <5>2 DEF SentTo
        <5> QED BY <5>3
      <4> QED BY <4>1, <4>2, <4>3
    <3> QED BY <3>1 DEF NoneForgotten
  <2> QED BY <2>6, <2>7, <2>8 DEF Books
<1>14. Contents'
  <2>1. ASSUME NEW x \in DOMAIN write_requests', ~write_requests'[x].is_free
        PROVE  PointsTo(write_requests[x])'
    <3>1. x # i /\ write_requests'[x] = write_requests[x] /\ x \in DOMAIN write_requests
      BY <1>3, <2>1
    <3>2. PointsTo(write_requests[x])
      BY <2>1, <3>1 DEF Inv, Contents
    <3> QED BY <3>1, <3>2 DEF PointsTo, socketVars
  <2> QED BY <2>1 DEF Contents
<1> QED BY <1>7, <1>10, <1>11, <1>12, <1>13, <1>14 DEF Inv

-----------------------------------------------------------------------------
(* Every step keeps the invariant.                                         *)
LEMMA InvKept == Inv /\ [ControllerNext]_controllerVars => Inv'
<1> SUFFICES ASSUME Inv, [ControllerNext]_controllerVars PROVE Inv'
  OBVIOUS
<1>1. CASE Arrive
  BY <1>1, ArriveKeepsInv
<1>2. CASE AddRemote
  BY <1>2, AddRemoteKeepsInv
<1>3. CASE Poll
  BY <1>3, PollKeepsInv
<1>4. CASE Read
  BY <1>4, ReadKeepsInv
<1>5. CASE Forward
  BY <1>5, ForwardKeepsInv
<1>6. CASE ReadDone
  BY <1>6, ReadDoneKeepsInv
<1>7. CASE Send
  BY <1>7, SendKeepsInv
<1>8. CASE UNCHANGED controllerVars
  <2>1. UNCHANGED <<write_list, write_requests, events, heap, in_buffer, in_dx,
                    in_capacity, length, nread, nremotes, forwarding, owed, sent>>
    BY <1>8 DEF controllerVars, loopVars, socketVars
  <2>2. Types' /\ Pool' /\ Events'
    BY <2>1 DEF Inv, Types, Event, Pool, Events, Handling
  <2>3. Buffer' /\ Contents'
    BY <2>1 DEF Inv, Buffer, Contents, PointsTo
  <2>4. Books'
    <3>1. \A d, r \in Nat : Due(d, r)' <=> Due(d, r)
      BY <2>1 DEF Due
    <3> QED BY <2>1, <2>2, <3>1, BooksStay DEF Inv, booked
  <2> QED BY <2>2, <2>3, <2>4 DEF Inv
<1> QED BY <1>1, <1>2, <1>3, <1>4, <1>5, <1>6, <1>7, <1>8 DEF ControllerNext

(* Inv is an invariant of the controller.                                  *)
LEMMA InvAlways == ControllerSpec => []Inv
BY InvInit, InvKept, PTL DEF ControllerSpec

(* The queue, the buffer and the loop of on_read keep to their types and   *)
(* bounds: what is queued points to a block of the heap, which realloc may *)
(* have given back (SentFromItsTime says when), the input buffer is the    *)
(* youngest block and as large as it says, and a read event is at the head *)
(* of what update handles while on_read runs.                              *)
THEOREM ControllerTypes == ControllerSpec => []ControllerTypeOK
<1>1. Inv => ControllerTypeOK
  <2> SUFFICES ASSUME Inv PROVE ControllerTypeOK
    OBVIOUS
  <2>1. \A i \in DOMAIN write_requests : write_requests[i].is_free \in BOOLEAN
    <3>1. \A i \in DOMAIN write_requests : write_requests[i] \in Request
      BY DEF Inv, Types
    <3> QED BY <3>1 DEF Request
  <2>2. write_list \in Seq(DOMAIN write_requests)
    BY DEF Inv, Types
  <2>3. /\ in_buffer = Len(heap) /\ in_dx \in 0 .. in_capacity
        /\ Len(heap[in_buffer]) = in_capacity
    BY DEF Inv, Buffer
  <2>4. /\ nread \in 0 .. Len(length) /\ forwarding \in 0 .. nremotes + 1
        /\ forwarding # 0 => Handling("read")
    BY DEF Inv, Types, Events
  <2>5. ASSUME NEW k \in DOMAIN write_list
        PROVE  write_requests[write_list[k]].data \in DOMAIN heap
    <3>1. write_list[k] \in DOMAIN write_requests
      BY <2>2
    <3>2. ~write_requests[write_list[k]].is_free
      BY <3>1 DEF Inv, Pool
    <3>3. write_requests[write_list[k]].data \in 1 .. Len(heap)
      BY <3>1, <3>2 DEF Inv, Contents, PointsTo
    <3>4. DOMAIN heap = 1 .. Len(heap)
      BY DEF Inv, Types
    <3> QED BY <3>3, <3>4
  <2> QED BY <2>1, <2>2, <2>3, <2>4, <2>5 DEF ControllerTypeOK
<1> QED BY <1>1, InvAlways, PTL

(* How many there are where there is at most one.                          *)
LEMMA AtMostOne ==
  ASSUME NEW S, \A x, y \in S : x = y
  PROVE  Cardinality(S) = IF S = {} THEN 0 ELSE 1
<1>1. CASE S = {}
  BY <1>1, FS_EmptySet
<1>2. CASE S # {}
  <2>1. PICK x \in S : TRUE
    BY <1>2
  <2>2. S = {x}
    BY <2>1
  <2> QED BY <1>2, <2>2, FS_Singleton
<1> QED BY <1>1, <1>2

(* Each datagram is queued for and given to each remote once.              *)
THEOREM ForwardedToEachOnce == ControllerSpec => []ForwardedOnce
<1>1. Inv => ForwardedOnce
  <2> SUFFICES ASSUME Inv, NEW d \in 1 .. MaxDatagrams, NEW r \in 1 .. MaxRemotes
               PROVE  Cardinality(Queued(d, r)) + Cardinality(SentTo(d, r)) =
                        IF Due(d, r) THEN 1 ELSE 0
    BY DEF ForwardedOnce, Due
  <2>1. d \in Nat /\ r \in Nat
    BY ControllerAssumption
  <2>2. \A x, y \in Queued(d, r) : x = y
    BY DEF Inv, Books, Once, Queued, Wr
  <2>3. \A x, y \in SentTo(d, r) : x = y
    BY DEF Inv, Books, Once, SentTo
  <2>4. Queued(d, r) = {} \/ SentTo(d, r) = {}
    BY DEF Inv, Books, Once, Queued, SentTo, Wr
  <2>5. Due(d, r) => Queued(d, r) # {} \/ SentTo(d, r) # {}
    BY <2>1 DEF Inv, Books, NoneForgotten
  <2>6. Queued(d, r) # {} => Due(d, r)
    BY DEF Inv, Books, OnlyDue, Queued, Wr
  <2>7. SentTo(d, r) # {} => Due(d, r)
    BY DEF Inv, Books, OnlyDue, SentTo
  <2>8. /\ Cardinality(Queued(d, r)) = IF Queued(d, r) = {} THEN 0 ELSE 1
        /\ Cardinality(SentTo(d, r)) = IF SentTo(d, r) = {} THEN 0 ELSE 1
    BY <2>2, <2>3, AtMostOne
  <2> HIDE DEF Queued, SentTo, Due
  <2> QED BY <2>4, <2>5, <2>6, <2>7, <2>8
<1> QED BY <1>1, InvAlways, PTL

(* What leaves the socket for a datagram has its length and bytes of its   *)
(* time, from a block that is still there unless the buffer was moved.     *)
THEOREM SentBytesFromTheirTime == ControllerSpec => SentFromItsTime
<1> DEFINE Step ==
      \A k \in Len(sent) + 1 .. Len(sent') :
        LET s == sent'[k]
            bytes == {s.bytes[n] : n \in DOMAIN s.bytes}
        IN  /\ length[s.of] <= Capacity => Len(s.bytes) = length[s.of]
            /\ Freed \in bytes => s.of < nread /\ Len(heap) > 1
            /\ bytes \subseteq s.of .. nread \cup {Freed}
<1>1. Inv /\ [ControllerNext]_controllerVars => Step
  <2> SUFFICES ASSUME Inv, [ControllerNext]_controllerVars PROVE Step
    OBVIOUS
  <2>0. Len(sent) \in Nat /\ sent \in Seq(Row)
    BY DEF Inv, Types
  <2>1. CASE ~Send
    <3>1. sent' = sent
      BY <2>1 DEF ControllerNext, Arrive, AddRemote, Poll, Read, Forward, ReadDone,
                  controllerVars
    <3> QED BY <2>0, <3>1
  <2>2. CASE Send
    <3> PICK i \in DOMAIN write_requests :
               /\ ~write_requests[i].is_free
               /\ sent' = Append(sent, [of |-> write_requests[i].of,
                                        to |-> write_requests[i].to,
                                        bytes |-> Bytes(write_requests[i].data,
                                                        write_requests[i].nbytes)])
      BY <2>2, SendFacts
    <3> PICK req \in Request : req = write_requests[i]
      BY DEF Inv, Types
    <3> PICK b : b = Bytes(req.data, req.nbytes)
      OBVIOUS
    <3>1. /\ b \in Seq(Nat \cup {Uninit, Freed}) /\ Len(b) = req.nbytes
          /\ req.data = Len(heap) => \A k \in 1 .. req.nbytes : b[k] \in req.of .. nread
          /\ req.data # Len(heap) => \A k \in 1 .. req.nbytes : b[k] = Freed
      BY BytesFacts
    <3>2. PointsTo(req)
      BY DEF Inv, Contents
    <3>3. /\ req.of \in Nat /\ req.data \in Nat /\ req.nbytes \in Nat
          /\ nread \in Nat /\ Len(heap) \in Nat
      BY DEF Request, Inv, Types
    <3>4. /\ Len(sent') = Len(sent) + 1
          /\ sent'[Len(sent) + 1].of = req.of /\ sent'[Len(sent) + 1].bytes = b
      <4> DEFINE row == [of |-> req.of, to |-> req.to, bytes |-> b]
      <4>1. row \in Row
        BY <3>1, <3>3 DEF Row, Request
      <4>2. row.of = req.of /\ row.bytes = b /\ sent' = Append(sent, row)
        OBVIOUS
      <4> HIDE DEF row
      <4> QED BY <2>0, <4>1, <4>2, AppendProperties
    <3> DEFINE bytes == {b[n] : n \in DOMAIN b}
    <3>5. DOMAIN b = 1 .. req.nbytes
      BY <3>1
    <3>6. Freed \in bytes => req.data # Len(heap)
      BY <3>1, <3>3, <3>5, FreedAssumption
    <3>7. req.data # Len(heap) => req.of < nread /\ Len(heap) > 1
      BY <3>2, <3>3 DEF PointsTo
    <3>8. bytes \subseteq req.of .. nread \cup {Freed}
      BY <3>1, <3>5
    <3>9. length[req.of] <= Capacity => Len(b) = length[req.of]
      BY <3>1, <3>2 DEF PointsTo
    <3>10. \A k \in Len(sent) + 1 .. Len(sent') : k = Len(sent) + 1
      BY <2>0, <3>4
    <3> HIDE DEF bytes
    <3> QED BY <3>4, <3>6, <3>7, <3>8, <3>9, <3>10 DEF bytes
  <2> QED BY <2>1, <2>2
<1> QED BY <1>1, InvAlways, PTL DEF ControllerSpec, SentFromItsTime

(* The requests in use are those queued, and one is only made when all of  *)
(* the others wait to be written: the pool grows to the length of the      *)
(* longest queue and no further.                                           *)
THEOREM PoolGrowsWithQueue == ControllerSpec => PoolIsQueue
<1> DEFINE waiting == {write_list'[k] : k \in DOMAIN write_list'}
           inUse == {i \in DOMAIN write_requests' : ~write_requests'[i].is_free}
           Grown == Len(write_requests') > Len(write_requests) =>
                      waiting = DOMAIN write_requests'
<1>0. ASSUME Inv' PROVE inUse = waiting
  <2>1. \A k \in DOMAIN write_list' : write_list'[k] \in DOMAIN write_requests'
    BY <1>0 DEF Inv, Types
  <2> QED BY <1>0, <2>1 DEF Inv, Pool
<1>1. Inv /\ [ControllerNext]_controllerVars => Grown
  <2> SUFFICES ASSUME Inv, [ControllerNext]_controllerVars,
                      Len(write_requests') > Len(write_requests)
               PROVE  {write_list'[k] : k \in DOMAIN write_list'} = DOMAIN write_requests'
    OBVIOUS
  <2> PICK n \in Nat : n = Len(write_requests) /\ DOMAIN write_requests = 1 .. n
    <3>1. Len(write_requests) \in Nat
      BY DEF Inv, Types
    <3> QED BY <3>1 DEF Inv, Types
  <2>1. CASE Send
    <3>1. DOMAIN write_requests' = DOMAIN write_requests
      BY <2>1, SendFacts
    <3>2. Inv'
      BY <2>1, SendKeepsInv
    <3>3. Len(write_requests') = n
      BY <3>1, <3>2 DEF Inv, Types
    <3> QED BY <3>3
  <2>2. CASE Forward /\ in_dx # 0
    <3>1. /\ write_list' = Append(write_list, FreeRequest)
          /\ DOMAIN write_requests' = DOMAIN write_requests \cup {FreeRequest}
          /\ write_requests' \in Seq(Request)
      BY <2>2, ForwardFacts
    <3>2. /\ FreeRequest \in 1 .. n + 1
          /\ \A j \in 1 .. FreeRequest - 1 : ~write_requests[j].is_free
      BY FreeRequestFacts DEF Inv
    <3>3. FreeRequest = n + 1
      <4>1. ASSUME FreeRequest # n + 1 PROVE FALSE
        <5>1. DOMAIN write_requests' = 1 .. n
          BY <3>1, <3>2, <4>1
        <5> QED BY <3>1, <5>1
      <4> QED BY <4>1
    <3>4. \A j \in 1 .. n : \E k \in DOMAIN write_list : write_list[k] = j
      BY <3>2, <3>3 DEF Inv, Pool
    <3>5. write_list \in Seq(1 .. n + 1)
      BY DEF Inv, Types
    <3>6. Len(write_list) \in Nat /\ DOMAIN write_list = 1 .. Len(write_list)
      BY <3>5
    <3>7. /\ DOMAIN write_list' = 1 .. Len(write_list) + 1
          /\ \A k \in 1 .. Len(write_list) : write_list'[k] = write_list[k]
          /\ write_list'[Len(write_list) + 1] = n + 1
          /\ write_list' \in Seq(1 .. n + 1)
      BY <3>1, <3>3, <3>5, AppendProperties
    <3>8. DOMAIN write_requests' = 1 .. n + 1
      BY <3>1, <3>3
    <3>9. ASSUME NEW j \in 1 .. n + 1 PROVE \E k \in DOMAIN write_list' : write_list'[k] = j
      <4>1. CASE j = n + 1
        BY <3>6, <3>7, <4>1
      <4>2. CASE j # n + 1
        <5>1. PICK k \in DOMAIN write_list : write_list[k] = j
          BY <3>4, <4>2
        <5>2. k \in DOMAIN write_list' /\ write_list'[k] = j
          BY <3>6, <3>7, <5>1
        <5> QED BY <5>2
      <4> QED BY <4>1, <4>2
    <3>10. \A k \in DOMAIN write_list' : write_list'[k] \in 1 .. n + 1
      BY <3>7
    <3> QED BY <3>8, <3>9, <3>10
  <2>3. CASE ~Send /\ ~(Forward /\ in_dx # 0)
    <3>1. write_requests' = write_requests
      BY <2>3, ForwardFacts
      DEF ControllerNext, Arrive, AddRemote, Poll, Read, ReadDone, controllerVars, loopVars
    <3> QED BY <3>1
  <2> QED BY <2>1, <2>2, <2>3
<1>2. Inv /\ [ControllerNext]_controllerVars => inUse = waiting /\ Grown
  BY <1>0, <1>1, InvKept
<1> QED BY <1>2, InvAlways, PTL DEF ControllerSpec, PoolIsQueue
=============================================================================
