----------------------------- MODULE Signaling -----------------------------
(***************************************************************************)
(* rxs_signaling.c: the player tells a Redis server where it can be        *)
(* reached, the streamer subscribes to the slot.  Redis and hiredis are    *)
(* external: a connection carries commands in order and Redis runs them    *)
(* one at a time.                                                          *)
(***************************************************************************)
EXTENDS Sequences

CONSTANT NoHost     \* the hash of the slot before the first HMSET

VARIABLES
  commands,         \* the player's, on the way to Redis
  hash,             \* address in signal:<slot>
  subscribed,       \* the streamer's SUBSCRIBE has been run
  notes             \* published addresses on the way to the streamer

signalVars == <<commands, hash, subscribed, notes>>

SignalInit ==
  /\ commands = <<>>
  /\ hash = NoHost
  /\ subscribed = FALSE
  /\ notes = <<>>

(* Mutation: the address is published and not stored.                      *)
StoreAddressPublishOnly(addr) ==
  commands' = commands \o <<[name |-> "PUBLISH", addr |-> addr]>>

(* rxs_signal_store_address queues two commands.                           *)
StoreAddress(addr) ==
  commands' = commands \o <<[name |-> "PUBLISH", addr |-> addr],
                            [name |-> "HMSET", addr |-> addr]>>

(* Redis runs a command; a message that nobody subscribes to is gone.      *)
RunCommand ==
  /\ commands # <<>>
  /\ commands' = Tail(commands)
  /\ LET c == Head(commands)
     IN  IF c.name = "PUBLISH"
         THEN /\ notes' = IF subscribed THEN Append(notes, c.addr) ELSE notes
              /\ UNCHANGED hash
         ELSE hash' = c.addr /\ UNCHANGED notes
  /\ UNCHANGED subscribed

(* rxs_signal_subscribe, and Redis running the command.                    *)
Subscribe ==
  /\ ~subscribed
  /\ subscribed' = TRUE
  /\ UNCHANGED <<commands, hash, notes>>

(* notify_callback of a published address: on_address is called with it.   *)
Notified(addr) ==
  /\ notes # <<>>
  /\ addr = Head(notes)
  /\ notes' = Tail(notes)
  /\ UNCHANGED <<commands, hash, subscribed>>
=============================================================================
