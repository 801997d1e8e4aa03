------------------------------ MODULE Connect ------------------------------
(***************************************************************************)
(* How a player behind a NAT and a streamer find each other, with          *)
(* USE_SIGNALING set in test_rxs_glfw_palyer.cpp and                       *)
(* test_rxs_webcam_streamer.cpp:                                           *)
(*                                                                         *)
(*   STUN server <-> StunIo -> Redis (Signaling) -> the streamer's sender  *)
(*                                                                         *)
(* The NAT gives the player an address and may replace it by another one.  *)
(***************************************************************************)
EXTENDS StunIo, Signaling, FiniteSets

CONSTANTS
  Servers,          \* attribute that the STUN server puts first
  Intruders,        \* datagrams that others send to the player's port
  MaxIntruders,     \* bound: how many of them
  MaxLosses,        \* bound: requests and responses lost
  MaxAddr           \* bound: addresses the NAT gives, one after the other

ASSUME ConnectAssumption ==
  /\ Addrs = 1 .. MaxAddr
  /\ NoHost = NoAddr
  /\ Servers \subseteq {"xor", "mapped"}
  /\ Intruders \subseteq {"mapped", "other"}
ASSUME BoundsAssumption ==
  /\ MaxIntruders \in Nat
  /\ MaxLosses \in Nat
  /\ MaxAddr \in Nat \ {0}

VARIABLES
  server,           \* in Servers
  nat,              \* the player's address, seen from outside
  requests,         \* binding requests on the way to the STUN server
  intruders, losses,
  got_remote_ip, remote     \* the streamer: rxs_sender_init has been called

worldVars == <<server, nat, requests, intruders, losses>>
streamerVars == <<got_remote_ip, remote>>
connectVars == <<stunVars, signalVars, worldVars, streamerVars>>

ConnectInit ==
  /\ StunInit
  /\ SignalInit
  /\ server \in Servers
  /\ nat = 1
  /\ requests = 0
  /\ intruders = 0
  /\ losses = 0
  /\ got_remote_ip = FALSE
  /\ remote = NoAddr

-----------------------------------------------------------------------------
(* The player.  on_stun_address stores every address it is told.           *)

PlayerResolves == OnResolved /\ UNCHANGED <<signalVars, worldVars, streamerVars>>

PlayerReads ==
  /\ Read
  /\ IF Learned(Head(inbox)) THEN StoreAddress(Head(inbox).addr)
                             ELSE UNCHANGED commands
  /\ UNCHANGED <<hash, subscribed, notes, worldVars, streamerVars>>

(* The server answers nothing but whole requests.                          *)
PlayerWrites ==
  /\ WriteAll
  /\ requests' = requests + Cardinality({i \in DOMAIN Written : Written[i] = Request})
  /\ UNCHANGED <<signalVars, server, nat, intruders, losses, streamerVars>>

PlayerWritesNothing == WriteNone /\ UNCHANGED <<signalVars, worldVars, streamerVars>>

PlayerKeepsAlive == UpdateKeepalive /\ UNCHANGED <<signalVars, worldVars, streamerVars>>

-----------------------------------------------------------------------------
(* The world *)

Answer ==
  /\ requests > 0
  /\ requests' = requests - 1
  /\ inbox' = Append(inbox, [kind |-> server, addr |-> nat])
  /\ UNCHANGED <<state, phase, mem, is_free, queue, pos, keepalive, signalVars,
                 server, nat, intruders, losses, streamerVars>>

LoseAnswer ==
  /\ requests > 0 /\ losses < MaxLosses
  /\ requests' = requests - 1
  /\ losses' = losses + 1
  /\ UNCHANGED <<stunVars, signalVars, server, nat, intruders, streamerVars>>

(* A datagram that nobody waits for: the streamer's video, a test of the   *)
(* port, or a response of the server once more or late, with an address    *)
(* that the player has or had.  The client looks neither at the sender nor *)
(* at the transaction, so it takes all of them.                            *)
Unasked(d) ==
  \/ d.kind \in Intruders
  \/ d.kind = server /\ d.addr \in 1 .. nat

Intrude ==
  /\ state = "resolved" /\ intruders < MaxIntruders
  /\ intruders' = intruders + 1
  /\ \E d \in Datagrams : Unasked(d) /\ inbox' = Append(inbox, d)
  /\ UNCHANGED <<state, phase, mem, is_free, queue, pos, keepalive, signalVars,
                 server, nat, requests, losses, streamerVars>>

Rebind ==
  /\ nat < MaxAddr
  /\ nat' = nat + 1
  /\ UNCHANGED <<stunVars, signalVars, server, requests, intruders, losses,
                 streamerVars>>

(* keepalive_delay, 40 seconds, is longer than anything is on its way.     *)
KeepaliveDue ==
  /\ keepalive = "armed"
  /\ queue = <<>> /\ requests = 0 /\ inbox = <<>>
  /\ commands = <<>> /\ notes = <<>>
  /\ keepalive' = "due"
  /\ UNCHANGED <<state, phase, inbox, mem, is_free, queue, pos, signalVars,
                 worldVars, streamerVars>>

RedisRuns == RunCommand /\ UNCHANGED <<stunVars, worldVars, streamerVars>>

-----------------------------------------------------------------------------
(* The streamer *)

StreamerSubscribes == Subscribe /\ UNCHANGED <<stunVars, worldVars, streamerVars>>

(* on_address of the webcam streamer: the first address is the one.        *)
OnAddress ==
  /\ \E addr \in Addrs :
       /\ Notified(addr)
       /\ IF got_remote_ip THEN UNCHANGED streamerVars
                           ELSE remote' = addr /\ got_remote_ip' = TRUE
  /\ UNCHANGED <<stunVars, worldVars>>

-----------------------------------------------------------------------------
Player ==
  \/ PlayerResolves
  \/ PlayerReads
  \/ PlayerWrites
  \/ PlayerWritesNothing
  \/ PlayerKeepsAlive

ConnectNext ==
  \/ Player
  \/ Answer
  \/ LoseAnswer
  \/ Intrude
  \/ Rebind
  \/ KeepaliveDue
  \/ RedisRuns
  \/ StreamerSubscribes
  \/ OnAddress

ConnectSpec == ConnectInit /\ [][ConnectNext]_connectVars

(* Both programs poll for ever, the socket is writable time and again,     *)
(* time passes, Redis and the STUN server do their work.  Nobody has to    *)
(* subscribe, to send or to lose anything, and no NAT to rebind.           *)
ConnectFairSpec ==
  /\ ConnectSpec
  /\ WF_connectVars(Player)
  /\ SF_connectVars(PlayerWrites)
  /\ WF_connectVars(Answer)
  /\ WF_connectVars(KeepaliveDue)
  /\ WF_connectVars(RedisRuns)
  /\ WF_connectVars(OnAddress)

-----------------------------------------------------------------------------
ConnectTypeOK ==
  /\ StunTypeOK
  /\ commands \in Seq([name : {"PUBLISH", "HMSET"}, addr : Addrs])
  /\ hash \in Addrs \cup {NoHost}
  /\ subscribed \in BOOLEAN
  /\ notes \in Seq(Addrs)
  /\ server \in Servers
  /\ nat \in Addrs
  /\ requests \in Nat
  /\ intruders \in 0 .. MaxIntruders
  /\ losses \in 0 .. MaxLosses
  /\ got_remote_ip \in BOOLEAN
  /\ remote \in Addrs \cup {NoAddr}

(* The parse buffer is never emptied.  Room(n): n more responses fit in    *)
(* it, even if whatever has arrived and every intruder still to come is    *)
(* read first.                                                             *)
StillToCome == MaxIntruders - intruders + Len(inbox)
LargestIntruder == IF OtherBytes > ResponseBytes THEN OtherBytes ELSE ResponseBytes
Room(n) ==
  pos + n * ResponseBytes + StillToCome * LargestIntruder <= Capacity

(* Once the player knows its address a streamer gets to know it, however   *)
(* late it subscribes and though Redis keeps nothing for it: keepalives    *)
(* lead to responses, and every response is published.                     *)
StreamerLearns ==
  (subscribed /\ keepalive # "off" /\ Room(1)) ~> got_remote_ip

(* When the NAT gives the player another address, the record in Redis      *)
(* follows: responses that carry the old one may come first, one for each  *)
(* change at the most, and those that come twice or late.                  *)
RecordFollows ==
  (keepalive # "off" /\ Room(2 + MaxAddr - nat)) ~> hash = nat
=============================================================================
