--------------------------- MODULE ConnectProofs ---------------------------
(***************************************************************************)
(* Theorems about Connect and the STUN client in it, for any number of     *)
(* memory blocks, any sizes and any bounds.                                *)
(***************************************************************************)
EXTENDS Connect, FiniteSetTheorems, TLAPS

(* Requests are queued while every block is free, replies while the first  *)
(* one is taken.                                                           *)
Lanes ==
  \A i \in DOMAIN queue :
    queue[i].block = IF queue[i].msg = Request THEN 1 ELSE 2

(* What is in the two blocks as long as something is queued from them.     *)
LaneContents ==
  \A i \in DOMAIN queue :
    IF queue[i].msg = Request
    THEN mem[1] \in Datagrams \cup {Request}
    ELSE \E j \in DOMAIN queue : j >= i /\ queue[j].msg = mem[2]

StunInv == StunTypeOK /\ BlocksReturned /\ Lanes /\ LaneContents

USE NBlocksAssumption, BytesAssumption, AddrsAssumption

-----------------------------------------------------------------------------
(* Operators *)

LEMMA FirstFreeIsOne ==
  ASSUME NEW free \in [Blocks -> BOOLEAN], free[1]
  PROVE  FirstFree(free) = 1
<1>1. 1 \in Blocks /\ \A c \in Blocks : 1 <= c
  BY DEF Blocks
<1>2. \A b \in Blocks :
        (free[b] /\ \A c \in Blocks : free[c] => b <= c) => b = 1
  BY <1>1 DEF Blocks
<1> QED
  BY <1>1, <1>2 DEF FirstFree

LEMMA FirstFreeIsTwo ==
  ASSUME NEW free \in [Blocks -> BOOLEAN], ~free[1], free[2]
  PROVE  FirstFree(free) = 2
<1>1. 2 \in Blocks /\ \A c \in Blocks : free[c] => 2 <= c
  BY DEF Blocks
<1>2. \A b \in Blocks :
        (free[b] /\ \A c \in Blocks : free[c] => b <= c) => b = 2
  BY <1>1 DEF Blocks
<1> QED
  BY <1>1, <1>2 DEF FirstFree

(* Requests, replies and datagrams are told apart by their kind.           *)
LEMMA Kinds ==
  /\ Request \notin Datagrams
  /\ \A d \in Datagrams : Reply(d) # Request
  /\ \A m \in Messages : m # Request => \E d \in Datagrams : m = Reply(d)
BY DEF Request, Reply, Datagrams, Messages

LEMMA AppendFacts ==
  ASSUME NEW S, NEW s \in Seq(S), NEW e \in S
  PROVE  /\ Append(s, e) \in Seq(S)
         /\ DOMAIN Append(s, e) = 1 .. Len(s) + 1
         /\ DOMAIN s = 1 .. Len(s)
         /\ Len(s) \in Nat
         /\ \A i \in DOMAIN s : Append(s, e)[i] = s[i]
         /\ Append(s, e)[Len(s) + 1] = e
OBVIOUS

-----------------------------------------------------------------------------
(* stun_send keeps the lanes: a request is sent from the first block ...   *)
LEMMA SendRequest ==
  ASSUME StunInv, StunSend(mem, is_free, Request)
  PROVE  /\ mem' \in [Blocks -> Datagrams \cup Messages \cup {Blank}]
         /\ queue' \in Seq([block : Blocks, msg : Messages])
         /\ Lanes' /\ LaneContents'
<1> USE DEF StunInv, StunTypeOK
<1>1. FirstFree(is_free) = 1
  BY FirstFreeIsOne DEF BlocksReturned, Blocks
<1>2. 1 \in Blocks /\ 2 \in Blocks /\ Request \in Messages
  BY DEF Blocks, Messages
<1>3. /\ mem' = [mem EXCEPT ![1] = Request]
      /\ queue' = Append(queue, [block |-> 1, msg |-> Request])
  BY <1>1 DEF StunSend
<1>4. mem' \in [Blocks -> Datagrams \cup Messages \cup {Blank}]
  BY <1>2, <1>3
<1>5. mem'[1] = Request /\ mem'[2] = mem[2]
  BY <1>2, <1>3
<1>6. [block |-> 1, msg |-> Request] \in [block : Blocks, msg : Messages]
  BY <1>2
<1>7. /\ queue' \in Seq([block : Blocks, msg : Messages])
      /\ DOMAIN queue' = 1 .. Len(queue) + 1
      /\ DOMAIN queue = 1 .. Len(queue)
      /\ Len(queue) \in Nat
      /\ \A i \in DOMAIN queue : queue'[i] = queue[i]
      /\ queue'[Len(queue) + 1] = [block |-> 1, msg |-> Request]
  BY <1>3, <1>6, AppendFacts
<1>8. Lanes'
  BY <1>7 DEF Lanes
<1>9. LaneContents'
  <2>1. SUFFICES ASSUME NEW i \in DOMAIN queue', queue'[i].msg # Request
                 PROVE  \E j \in DOMAIN queue' :
                          j >= i /\ queue'[j].msg = mem'[2]
    BY <1>5 DEF LaneContents
  <2>2. i \in DOMAIN queue /\ queue'[i] = queue[i]
    BY <1>7, <2>1
  <2>3. PICK j \in DOMAIN queue : j >= i /\ queue[j].msg = mem[2]
    BY <2>1, <2>2 DEF LaneContents
  <2>4. j \in DOMAIN queue' /\ queue'[j] = queue[j]
    BY <1>7
  <2> QED
    BY <1>5, <2>3, <2>4
<1> QED
  BY <1>4, <1>7, <1>8, <1>9

(* ... and a datagram is read into it, its reply is sent from the second.  *)
LEMMA ReadStep ==
  ASSUME StunInv, NEW d \in Datagrams, OnRead(d)
  PROVE  /\ mem' \in [Blocks -> Datagrams \cup Messages \cup {Blank}]
         /\ queue' \in Seq([block : Blocks, msg : Messages])
         /\ is_free' \in [Blocks -> BOOLEAN]
         /\ pos' \in 0 .. Capacity
         /\ keepalive' \in {"off", "armed", "due"}
         /\ BlocksReturned' /\ Lanes' /\ LaneContents'
<1> USE DEF StunInv, StunTypeOK
<1> DEFINE blocks == [mem EXCEPT ![1] = d]
           taken == [is_free EXCEPT ![1] = FALSE]
<1>1. FirstFree(is_free) = 1
  BY FirstFreeIsOne DEF BlocksReturned, Blocks
<1>2. 1 \in Blocks /\ 2 \in Blocks /\ Reply(d) \in Messages
  BY DEF Blocks, Messages
<1>3. taken \in [Blocks -> BOOLEAN] /\ ~taken[1] /\ taken[2]
  BY <1>2 DEF BlocksReturned
<1>4. FirstFree(taken) = 2
  BY <1>3, FirstFreeIsTwo
<1>5. is_free' = [taken EXCEPT ![1] = TRUE]
  BY <1>1 DEF OnRead
<1>6. is_free' \in [Blocks -> BOOLEAN] /\ BlocksReturned'
  BY <1>2, <1>5 DEF BlocksReturned
<1>7. pos' \in 0 .. Capacity
  BY DEF OnRead, Fits, Nbytes
<1>8. keepalive' \in {"off", "armed", "due"}
  BY DEF OnRead
<1>9. blocks \in [Blocks -> Datagrams \cup Messages \cup {Blank}]
      /\ blocks[1] = d /\ blocks[2] = mem[2]
  BY <1>2
<1>10. CASE Fits(d) /\ d.kind = "mapped"
  <2>1. /\ mem' = [blocks EXCEPT ![2] = Reply(d)]
        /\ queue' = Append(queue, [block |-> 2, msg |-> Reply(d)])
    BY <1>1, <1>4, <1>10 DEF OnRead, StunSend
  <2>2. mem' \in [Blocks -> Datagrams \cup Messages \cup {Blank}]
    BY <1>2, <1>9, <2>1
  <2>3. mem'[1] = d /\ mem'[2] = Reply(d)
    BY <1>2, <1>9, <2>1
  <2>4. [block |-> 2, msg |-> Reply(d)] \in [block : Blocks, msg : Messages]
    BY <1>2
  <2>5. /\ queue' \in Seq([block : Blocks, msg : Messages])
        /\ DOMAIN queue' = 1 .. Len(queue) + 1
        /\ DOMAIN queue = 1 .. Len(queue)
        /\ Len(queue) \in Nat
        /\ \A i \in DOMAIN queue : queue'[i] = queue[i]
        /\ queue'[Len(queue) + 1] = [block |-> 2, msg |-> Reply(d)]
    BY <2>1, <2>4, AppendFacts
  <2>6. Reply(d) # Request
    BY Kinds
  <2>7. Lanes'
    BY <2>5, <2>6 DEF Lanes
  <2>8. LaneContents'
    BY <2>3, <2>5, <2>6 DEF LaneContents
  <2> QED
    BY <1>6, <1>7, <1>8, <2>2, <2>5, <2>7, <2>8
<1>11. CASE ~(Fits(d) /\ d.kind = "mapped")
  <2>1. mem' = blocks /\ queue' = queue
    BY <1>1, <1>11 DEF OnRead
  <2>2. Lanes'
    BY <2>1 DEF Lanes
  <2>3. LaneContents'
    BY <1>9, <2>1 DEF LaneContents
  <2> QED
    BY <1>6, <1>7, <1>8, <1>9, <2>1, <2>2, <2>3
<1> QED
  BY <1>10, <1>11
-----------------------------------------------------------------------------
(* The invariant of the composition *)

WorldTypeOK ==
  /\ commands \in Seq([name : {"PUBLISH", "HMSET"}, addr : Addrs])
  /\ hash \in Addrs \cup {NoHost}
  /\ subscribed \in BOOLEAN
  /\ notes \in Seq(Addrs)
  /\ server \in Servers
  /\ nat \in Addrs
  /\ requests \in Nat
  /\ intruders \in 0 .. MaxIntruders
  /\ losses \in 0 .. MaxLosses
  /\ got_remote_ip \in BOOLEAN
  /\ remote \in Addrs \cup {NoAddr}

Inv == StunInv /\ WorldTypeOK

LEMMA InvInit == ConnectInit => Inv
<1> SUFFICES ASSUME ConnectInit PROVE Inv
  OBVIOUS
<1> USE DEF ConnectInit, StunInit, SignalInit
<1>1. StunTypeOK
  BY DEF StunTypeOK
<1>2. BlocksReturned /\ Lanes /\ LaneContents
  BY DEF BlocksReturned, Lanes, LaneContents
<1>3. nat \in Addrs
  BY ConnectAssumption, BoundsAssumption
<1>4. commands \in Seq([name : {"PUBLISH", "HMSET"}, addr : Addrs])
      /\ notes \in Seq(Addrs)
  OBVIOUS
<1>5. /\ hash \in Addrs \cup {NoHost}
      /\ requests \in Nat
      /\ intruders \in 0 .. MaxIntruders
      /\ losses \in 0 .. MaxLosses
      /\ remote \in Addrs \cup {NoAddr}
  BY BoundsAssumption
<1>6. subscribed \in BOOLEAN /\ got_remote_ip \in BOOLEAN /\ server \in Servers
  OBVIOUS
<1>7. WorldTypeOK
  BY <1>3, <1>4, <1>5, <1>6 DEF WorldTypeOK
<1> QED
  BY <1>1, <1>2, <1>7 DEF Inv, StunInv

(* A step that leaves the blocks and the queue alone keeps the lanes.      *)
LEMMA LanesStay ==
  ASSUME StunInv, UNCHANGED <<mem, is_free, queue>>
  PROVE  BlocksReturned' /\ Lanes' /\ LaneContents'
BY DEF StunInv, BlocksReturned, Lanes, LaneContents

LEMMA InvStep == Inv /\ [ConnectNext]_connectVars => Inv'
<1> SUFFICES ASSUME Inv, [ConnectNext]_connectVars PROVE Inv'
  OBVIOUS
<1> USE DEF Inv
<1>0. StunInv /\ StunTypeOK /\ WorldTypeOK
  BY DEF StunInv
<1>1. CASE PlayerResolves
  <2>1. StunSend(mem, is_free, Request)
    BY <1>1 DEF PlayerResolves, OnResolved
  <2>2. UNCHANGED <<is_free>> /\ BlocksReturned'
    BY <1>0, <1>1 DEF PlayerResolves, OnResolved, BlocksReturned, StunInv
  <2>3. StunTypeOK'
    BY <1>0, <1>1, <2>1, SendRequest DEF PlayerResolves, OnResolved, StunTypeOK
  <2>4. WorldTypeOK'
    BY <1>0, <1>1 DEF PlayerResolves, WorldTypeOK, signalVars, worldVars, streamerVars
  <2> QED
    BY <1>0, <2>1, <2>2, <2>3, <2>4, SendRequest DEF StunInv
<1>2. CASE PlayerReads
  <2> DEFINE d == Head(inbox)
  <2>1. inbox # <<>> /\ inbox' = Tail(inbox) /\ OnRead(d)
    BY <1>2 DEF PlayerReads, Read
  <2>2. d \in Datagrams /\ inbox' \in Seq(Datagrams)
    BY <1>0, <2>1 DEF StunTypeOK
  <2>3. /\ mem' \in [Blocks -> Datagrams \cup Messages \cup {Blank}]
        /\ queue' \in Seq([block : Blocks, msg : Messages])
        /\ is_free' \in [Blocks -> BOOLEAN]
        /\ pos' \in 0 .. Capacity
        /\ keepalive' \in {"off", "armed", "due"}
        /\ BlocksReturned' /\ Lanes' /\ LaneContents'
    BY <1>0, <2>1, <2>2, ReadStep
  <2>4. state' = state /\ phase' = phase
    BY <1>2 DEF PlayerReads, Read
  <2>5. StunTypeOK'
    BY <1>0, <2>2, <2>3, <2>4 DEF StunTypeOK
  <2>6. commands' \in Seq([name : {"PUBLISH", "HMSET"}, addr : Addrs])
    <3>1. CASE Learned(d)
      <4>1. d.addr \in Addrs
        BY <2>2, <3>1 DEF Learned, Datagrams
      <4>2. commands' = commands \o <<[name |-> "PUBLISH", addr |-> d.addr],
                                      [name |-> "HMSET", addr |-> d.addr]>>
        BY <1>2, <3>1 DEF PlayerReads, StoreAddress
      <4>3. <<[name |-> "PUBLISH", addr |-> d.addr],
              [name |-> "HMSET", addr |-> d.addr]>>
                \in Seq([name : {"PUBLISH", "HMSET"}, addr : Addrs])
        BY <4>1
      <4> QED
        BY <1>0, <4>2, <4>3 DEF WorldTypeOK
    <3>2. CASE ~Learned(d)
      BY <1>0, <1>2, <3>2 DEF PlayerReads, WorldTypeOK
    <3> QED
      BY <3>1, <3>2
  <2>7. UNCHANGED <<hash, subscribed, notes, worldVars, streamerVars>>
    BY <1>2 DEF PlayerReads
  <2>8. WorldTypeOK'
    BY <1>0, <2>6, <2>7 DEF WorldTypeOK, worldVars, streamerVars
  <2> QED
    BY <2>3, <2>5, <2>8 DEF StunInv
<1>3. CASE PlayerWrites
  <2>1. queue' = <<>> /\ mem' = mem
    BY <1>3 DEF PlayerWrites, WriteAll
  <2>2. is_free' \in [Blocks -> BOOLEAN] /\ BlocksReturned'
    BY <1>0, <1>3 DEF PlayerWrites, WriteAll, BlocksReturned, StunInv, StunTypeOK
  <2>3. StunTypeOK'
    BY <1>0, <1>3, <2>1, <2>2 DEF PlayerWrites, WriteAll, StunTypeOK
  <2>4. Lanes' /\ LaneContents'
    BY <2>1 DEF Lanes, LaneContents
  <2>5. requests' \in Nat
    <3> DEFINE whole == {i \in DOMAIN Written : Written[i] = Request}
    <3>1. DOMAIN Written = 1 .. Len(queue) /\ Len(queue) \in Nat
      BY <1>0 DEF Written, StunTypeOK
    <3>2. IsFiniteSet(1 .. Len(queue))
      BY <3>1, FS_Interval
    <3>3. IsFiniteSet(whole)
      BY <3>1, <3>2, FS_Subset
    <3>4. Cardinality(whole) \in Nat
      BY <3>3, FS_CardinalityType
    <3>5. requests' = requests + Cardinality(whole)
      BY <1>3 DEF PlayerWrites
    <3> QED
      BY <1>0, <3>4, <3>5 DEF WorldTypeOK
  <2>6. WorldTypeOK'
    BY <1>0, <1>3, <2>5 DEF PlayerWrites, WorldTypeOK, signalVars, streamerVars
  <2> QED
    BY <2>2, <2>3, <2>4, <2>6 DEF StunInv
<1>4. CASE PlayerWritesNothing
  <2>1. UNCHANGED <<mem, is_free, queue>>
    BY <1>4 DEF PlayerWritesNothing, WriteNone
  <2>2. StunTypeOK'
    BY <1>0, <1>4 DEF PlayerWritesNothing, WriteNone, StunTypeOK
  <2>3. WorldTypeOK'
    BY <1>0, <1>4 DEF PlayerWritesNothing, WorldTypeOK, signalVars, worldVars,
                      streamerVars
  <2> QED
    BY <1>0, <2>1, <2>2, <2>3, LanesStay DEF StunInv
<1>5. CASE PlayerKeepsAlive
  <2>1. /\ phase' = "socket"
        /\ UNCHANGED <<state, inbox, is_free, pos>>
    BY <1>5 DEF PlayerKeepsAlive, UpdateKeepalive
  <2>2. BlocksReturned'
    BY <1>0, <2>1 DEF BlocksReturned, StunInv
  <2>3. /\ mem' \in [Blocks -> Datagrams \cup Messages \cup {Blank}]
        /\ queue' \in Seq([block : Blocks, msg : Messages])
        /\ keepalive' \in {"off", "armed", "due"}
        /\ Lanes' /\ LaneContents'
    <3>1. CASE keepalive = "due"
      BY <1>0, <1>5, <3>1, SendRequest DEF PlayerKeepsAlive, UpdateKeepalive
    <3>2. CASE keepalive # "due"
      BY <1>0, <1>5, <2>1, <3>2, LanesStay DEF PlayerKeepsAlive, UpdateKeepalive,
         StunTypeOK
    <3> QED
      BY <3>1, <3>2
  <2>4. StunTypeOK'
    BY <1>0, <2>1, <2>3 DEF StunTypeOK
  <2>5. WorldTypeOK'
    BY <1>0, <1>5 DEF PlayerKeepsAlive, WorldTypeOK, signalVars, worldVars,
                      streamerVars
  <2> QED
    BY <2>2, <2>3, <2>4, <2>5 DEF StunInv
<1>6. CASE Answer
  <2>1. [kind |-> server, addr |-> nat] \in Datagrams
    BY <1>0, ConnectAssumption DEF WorldTypeOK, Datagrams
  <2>2. StunTypeOK'
    BY <1>0, <1>6, <2>1 DEF Answer, StunTypeOK
  <2>3. WorldTypeOK'
    BY <1>0, <1>6 DEF Answer, WorldTypeOK, signalVars, streamerVars
  <2>4. UNCHANGED <<mem, is_free, queue>>
    BY <1>6 DEF Answer
  <2> QED
    BY <1>0, <2>2, <2>3, <2>4, LanesStay DEF StunInv
<1>7. CASE LoseAnswer
  <2>1. WorldTypeOK'
    BY <1>0, <1>7, BoundsAssumption DEF LoseAnswer, WorldTypeOK, signalVars,
       streamerVars
  <2>2. StunTypeOK' /\ UNCHANGED <<mem, is_free, queue>>
    BY <1>0, <1>7 DEF LoseAnswer, stunVars, StunTypeOK
  <2> QED
    BY <1>0, <2>1, <2>2, LanesStay DEF StunInv
<1>8. CASE Intrude
  <2>1. StunTypeOK'
    BY <1>0, <1>8 DEF Intrude, StunTypeOK
  <2>2. WorldTypeOK'
    BY <1>0, <1>8, BoundsAssumption DEF Intrude, WorldTypeOK, signalVars,
       streamerVars
  <2>3. UNCHANGED <<mem, is_free, queue>>
    BY <1>8 DEF Intrude
  <2> QED
    BY <1>0, <2>1, <2>2, <2>3, LanesStay DEF StunInv
<1>9. CASE Rebind
  <2>1. nat' \in Addrs
    BY <1>0, <1>9, BoundsAssumption, ConnectAssumption DEF Rebind, WorldTypeOK
  <2>2. WorldTypeOK'
    BY <1>0, <1>9, <2>1 DEF Rebind, WorldTypeOK, signalVars, streamerVars
  <2>3. StunTypeOK' /\ UNCHANGED <<mem, is_free, queue>>
    BY <1>0, <1>9 DEF Rebind, stunVars, StunTypeOK
  <2> QED
    BY <1>0, <2>2, <2>3, LanesStay DEF StunInv
<1>10. CASE KeepaliveDue
  <2>1. StunTypeOK'
    BY <1>0, <1>10 DEF KeepaliveDue, StunTypeOK
  <2>2. WorldTypeOK'
    BY <1>0, <1>10 DEF KeepaliveDue, WorldTypeOK, signalVars, worldVars,
                       streamerVars
  <2>3. UNCHANGED <<mem, is_free, queue>>
    BY <1>10 DEF KeepaliveDue
  <2> QED
    BY <1>0, <2>1, <2>2, <2>3, LanesStay DEF StunInv
<1>11. CASE RedisRuns
  <2> DEFINE c == Head(commands)
  <2>1. commands # <<>> /\ commands' = Tail(commands)
    BY <1>11 DEF RedisRuns, RunCommand
  <2> DEFINE Commands == [name : {"PUBLISH", "HMSET"}, addr : Addrs]
  <2>2. commands \in Seq(Commands)
    BY <1>0 DEF WorldTypeOK
  <2>3. c \in Commands /\ commands' \in Seq(Commands)
    <3> HIDE DEF Commands
    <3> QED
      BY <2>1, <2>2
  <2>4. c.addr \in Addrs
        /\ commands' \in Seq([name : {"PUBLISH", "HMSET"}, addr : Addrs])
    BY <2>3
  <2>5. notes' \in Seq(Addrs) /\ hash' \in Addrs \cup {NoHost}
        /\ subscribed' = subscribed
    <3>1. \/ notes' = Append(notes, c.addr) /\ hash' = hash
          \/ notes' = notes /\ hash' \in {hash, c.addr}
      BY <1>11 DEF RedisRuns, RunCommand
    <3>2. notes \in Seq(Addrs) /\ hash \in Addrs \cup {NoHost}
      BY <1>0 DEF WorldTypeOK
    <3>3. subscribed' = subscribed
      BY <1>11 DEF RedisRuns, RunCommand
    <3>4. notes' \in Seq(Addrs) /\ hash' \in Addrs \cup {NoHost}
      <4>1. CASE notes' = Append(notes, c.addr) /\ hash' = hash
        <5>1. Append(notes, c.addr) \in Seq(Addrs)
          BY <2>4, <3>2, AppendFacts
        <5> QED
          BY <3>2, <4>1, <5>1
      <4>2. CASE notes' = notes /\ hash' \in {hash, c.addr}
        BY <2>4, <3>2, <4>2
      <4> QED
        BY <3>1, <4>1, <4>2
    <3> QED
      BY <3>3, <3>4
  <2>6. WorldTypeOK'
    BY <1>0, <1>11, <2>4, <2>5 DEF RedisRuns, WorldTypeOK, worldVars, streamerVars
  <2>7. StunTypeOK' /\ UNCHANGED <<mem, is_free, queue>>
    BY <1>0, <1>11 DEF RedisRuns, stunVars, StunTypeOK
  <2> QED
    BY <1>0, <2>6, <2>7, LanesStay DEF StunInv
<1>12. CASE StreamerSubscribes
  <2>1. WorldTypeOK'
    BY <1>0, <1>12 DEF StreamerSubscribes, Subscribe, WorldTypeOK, worldVars,
                       streamerVars
  <2>2. StunTypeOK' /\ UNCHANGED <<mem, is_free, queue>>
    BY <1>0, <1>12 DEF StreamerSubscribes, stunVars, StunTypeOK
  <2> QED
    BY <1>0, <2>1, <2>2, LanesStay DEF StunInv
<1>13. CASE OnAddress
  <2>1. PICK addr \in Addrs :
          /\ Notified(addr)
          /\ IF got_remote_ip THEN UNCHANGED streamerVars
                              ELSE remote' = addr /\ got_remote_ip' = TRUE
    BY <1>13 DEF OnAddress
  <2>2. notes' \in Seq(Addrs) /\ UNCHANGED <<commands, hash, subscribed>>
    BY <1>0, <2>1 DEF Notified, WorldTypeOK
  <2>3. got_remote_ip' \in BOOLEAN /\ remote' \in Addrs \cup {NoAddr}
    BY <1>0, <2>1 DEF WorldTypeOK, streamerVars
  <2>4. UNCHANGED <<stunVars, worldVars>>
    BY <1>13 DEF OnAddress
  <2>5. WorldTypeOK'
    BY <1>0, <2>2, <2>3, <2>4 DEF WorldTypeOK, worldVars
  <2>6. StunTypeOK' /\ UNCHANGED <<mem, is_free, queue>>
    BY <1>0, <2>4 DEF stunVars, StunTypeOK
  <2> QED
    BY <1>0, <2>5, <2>6, LanesStay DEF StunInv
<1>14. CASE UNCHANGED connectVars
  <2>1. StunTypeOK' /\ UNCHANGED <<mem, is_free, queue>>
    BY <1>0, <1>14 DEF connectVars, stunVars, StunTypeOK
  <2>2. WorldTypeOK'
    BY <1>0, <1>14 DEF connectVars, signalVars, worldVars, streamerVars,
                       WorldTypeOK
  <2> QED
    BY <1>0, <2>1, <2>2, LanesStay DEF StunInv
<1> QED
  BY <1>1, <1>2, <1>3, <1>4, <1>5, <1>6, <1>7, <1>8, <1>9, <1>10, <1>11,
     <1>12, <1>13, <1>14 DEF ConnectNext, Player

-----------------------------------------------------------------------------
LEMMA InvHolds == ConnectSpec => []Inv
BY InvInit, InvStep, PTL DEF ConnectSpec

(* Every variable keeps its type: in particular the parse buffer is never  *)
(* written beyond its capacity, whatever arrives.                          *)
THEOREM ConnectTypeCorrect == ConnectSpec => []ConnectTypeOK
<1>1. Inv => ConnectTypeOK
  BY DEF Inv, StunInv, WorldTypeOK, ConnectTypeOK
<1> QED
  BY <1>1, InvHolds, PTL

(* on_alloc never finds all blocks taken, with as few as two of them.      *)
THEOREM NeverOutOfBlocks == ConnectSpec => []BlocksReturned
<1>1. Inv => BlocksReturned
  BY DEF Inv, StunInv
<1> QED
  BY <1>1, InvHolds, PTL

(* What can happen to a queued message, with any number of datagrams in    *)
(* any order: requests and replies use different blocks.                   *)
THEOREM OverlapOnly == ConnectSpec => []SpoiltOnlyByOverlap
<1>1. Inv => SpoiltOnlyByOverlap
  <2> SUFFICES ASSUME Inv, NEW i \in DOMAIN queue,
                      mem[queue[i].block] # queue[i].msg
               PROVE  \/ /\ queue[i].msg = Request
                         /\ mem[queue[i].block] \in Datagrams
                      \/ /\ queue[i].msg # Request
                         /\ \E j \in DOMAIN queue :
                              j > i /\ queue[j].msg = mem[queue[i].block]
    BY DEF SpoiltOnlyByOverlap
  <2>1. Lanes /\ LaneContents /\ DOMAIN queue = 1 .. Len(queue)
    BY DEF Inv, StunInv, StunTypeOK
  <2>2. CASE queue[i].msg = Request
    BY <2>1, <2>2 DEF Lanes, LaneContents
  <2>3. CASE queue[i].msg # Request
    <3>1. queue[i].block = 2
      BY <2>1, <2>3 DEF Lanes
    <3>2. PICK j \in DOMAIN queue : j >= i /\ queue[j].msg = mem[2]
      BY <2>1, <2>3 DEF LaneContents
    <3>3. j # i
      BY <3>1, <3>2
    <3> QED
      BY <2>1, <2>3, <3>1, <3>2, <3>3
  <2> QED
    BY <2>2, <2>3
<1> QED
  BY <1>1, InvHolds, PTL
=============================================================================
