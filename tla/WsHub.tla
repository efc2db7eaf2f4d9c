-------------------------------- MODULE WsHub --------------------------------
(***************************************************************************)
(* The WebSocket hub of the backend: the goroutine of Run, which alone     *)
(* owns the set of clients, HandleWebSocket and the two pumps of every     *)
(* connection.  register and unregister are unbuffered channels, so their  *)
(* two ends take one step together; broadcast and each client's send are   *)
(* buffered.  The mutex is taken by Run only and protects nothing more.    *)
(***************************************************************************)
EXTENDS Naturals, Sequences, FiniteSets

CONSTANTS
  Clients,       \* connections, each used once
  BroadcastCap,  \* capacity of the hub's broadcast channel
  SendCap,       \* capacity of a client's send channel
  MaxMessages    \* bound: messages broadcast

ASSUME WsHubAssumption ==
  /\ BroadcastCap \in Nat \ {0}
  /\ SendCap \in Nat \ {0}
  /\ MaxMessages \in Nat

VARIABLES
  clients,    \* the hub's map
  broadcast,  \* the channel, a sequence of messages
  message,    \* the message Run is handing out
  left,       \* the clients its loop has still to serve, {} while it selects
  send,       \* send[c]    the buffer of c's channel
  closed,     \* closed[c]  is that channel closed?
  panicked,   \* a send on a closed channel, or a second close
  session,    \* session[c] where c's handler, and then its readPump, is
  writer,     \* writer[c]  where c's writePump is
  writing,    \* writing[c] the message writePump took out of the channel
  conn,       \* conn[c]    the connection
  log,        \* every message taken out of broadcast so far
  joined,     \* joined[c]  the length of log when c registered
  got         \* got[c]     the messages c's peer has received

hubVars == <<clients, broadcast, message, left, panicked, log>>
channelVars == <<send, closed>>
pumpVars == <<session, writer, writing>>
vars == <<hubVars, channelVars, pumpVars, conn, joined, got>>

\* Messages are numbered in the order they enter the broadcast channel.
Messages == 1..MaxMessages

Sent == Len(log) + Len(broadcast)

Sessions == {"none", "registering", "reading", "leaving", "closing", "done"}
Writers == {"none", "ready", "writing", "done"}
Conns == {"none", "open", "stalled", "broken", "closed"}

Init ==
  /\ clients = {}
  /\ broadcast = <<>>
  /\ message = 0
  /\ left = {}
  /\ send = [c \in Clients |-> <<>>]
  /\ closed = [c \in Clients |-> FALSE]
  /\ panicked = FALSE
  /\ session = [c \in Clients |-> "none"]
  /\ writer = [c \in Clients |-> "none"]
  /\ writing = [c \in Clients |-> 0]
  /\ conn = [c \in Clients |-> "none"]
  /\ log = <<>>
  /\ joined = [c \in Clients |-> 0]
  /\ got = [c \in Clients |-> <<>>]

-----------------------------------------------------------------------------
\* The poller and the Redis subscriber; both block while the channel is full.
Broadcast ==
  /\ Sent < MaxMessages
  /\ Len(broadcast) < BroadcastCap
  /\ broadcast' = Append(broadcast, Sent + 1)
  /\ UNCHANGED <<clients, message, left, panicked, log, channelVars, pumpVars, conn, joined, got>>

-----------------------------------------------------------------------------
\* Hub.Run.

Selecting == left = {} /\ ~panicked

Close(c) ==
  /\ closed' = [closed EXCEPT ![c] = TRUE]
  /\ panicked' = closed[c]

\* HandleWebSocket's send on register, and the pumps it starts afterwards.
Register(c) ==
  /\ Selecting
  /\ session[c] = "registering"
  /\ clients' = clients \cup {c}
  /\ joined' = [joined EXCEPT ![c] = Len(log)]
  /\ session' = [session EXCEPT ![c] = "reading"]
  /\ writer' = [writer EXCEPT ![c] = "ready"]
  /\ UNCHANGED <<broadcast, message, left, panicked, log, channelVars, writing, conn, got>>

Leave(c) == session' = [session EXCEPT ![c] = "closing"]

\* A variant that closes the channel of a client the hub has dropped already.
Unregister_Unchecked(c) ==
  /\ Selecting
  /\ session[c] = "leaving"
  /\ Leave(c)
  /\ clients' = clients \ {c}
  /\ Close(c)
  /\ UNCHANGED <<broadcast, message, left, log, send, writer, writing, conn, joined, got>>

\* readPump's send on unregister; a client the hub dropped is not in the map.
Unregister(c) ==
  /\ Selecting
  /\ session[c] = "leaving"
  /\ Leave(c)
  /\ IF c \in clients THEN clients' = clients \ {c} /\ Close(c)
                      ELSE UNCHANGED <<clients, closed, panicked>>
  /\ UNCHANGED <<broadcast, message, left, log, send, writer, writing, conn, joined, got>>

TakeMessage ==
  /\ Selecting
  /\ broadcast # <<>>
  /\ message' = Head(broadcast)
  /\ broadcast' = Tail(broadcast)
  /\ log' = Append(log, Head(broadcast))
  /\ left' = clients
  /\ UNCHANGED <<clients, panicked, channelVars, pumpVars, conn, joined, got>>

\* A variant that skips a client whose buffer is full instead of dropping it.
HandOut_Skips(c) ==
  /\ c \in left /\ ~panicked
  /\ left' = left \ {c}
  /\ send' = [send EXCEPT ![c] = IF Len(@) < SendCap THEN Append(@, message) ELSE @]
  /\ panicked' = closed[c]
  /\ UNCHANGED <<clients, broadcast, message, log, closed, pumpVars, conn, joined, got>>

\* A variant that is off by one about the room in a buffer.
HandOut_OffByOne(c) ==
  /\ c \in left /\ ~panicked
  /\ Len(send[c]) <= SendCap
  /\ left' = left \ {c}
  /\ send' = [send EXCEPT ![c] = Append(@, message)]
  /\ panicked' = closed[c]
  /\ UNCHANGED <<clients, broadcast, message, log, closed, pumpVars, conn, joined, got>>

\* A variant that waits for room, and comes to a client without room first.
HandOut_Waits(c) ==
  /\ c \in left /\ ~panicked
  /\ \A d \in left : Len(send[d]) < SendCap
  /\ left' = left \ {c}
  /\ send' = [send EXCEPT ![c] = Append(@, message)]
  /\ panicked' = closed[c]
  /\ UNCHANGED <<clients, broadcast, message, log, closed, pumpVars, conn, joined, got>>

\* One turn of the loop over the clients, in any order: never waits.
HandOut(c) ==
  /\ c \in left /\ ~panicked
  /\ left' = left \ {c}
  /\ IF Len(send[c]) < SendCap
     THEN /\ send' = [send EXCEPT ![c] = Append(@, message)]
          /\ panicked' = closed[c]
          /\ UNCHANGED <<clients, closed>>
     ELSE /\ clients' = clients \ {c}
          /\ Close(c)
          /\ UNCHANGED send
  /\ UNCHANGED <<broadcast, message, log, pumpVars, conn, joined, got>>

-----------------------------------------------------------------------------
\* HandleWebSocket and readPump.

Connect(c) ==
  /\ session[c] = "none"
  /\ session' = [session EXCEPT ![c] = "registering"]
  /\ conn' = [conn EXCEPT ![c] = "open"]
  /\ UNCHANGED <<hubVars, channelVars, writer, writing, joined, got>>

\* A variant whose readPump starts before the registration.
ReadFails_BeforeRegister(c) ==
  /\ session[c] \in {"registering", "reading"}
  /\ conn[c] \in {"broken", "closed"}
  /\ session' = [session EXCEPT ![c] = "leaving"]
  /\ UNCHANGED <<hubVars, channelVars, writer, writing, conn, joined, got>>

ReadFails(c) ==
  /\ session[c] = "reading"
  /\ conn[c] \in {"broken", "closed"}
  /\ session' = [session EXCEPT ![c] = "leaving"]
  /\ UNCHANGED <<hubVars, channelVars, writer, writing, conn, joined, got>>

ReaderCloses(c) ==
  /\ session[c] = "closing"
  /\ session' = [session EXCEPT ![c] = "done"]
  /\ conn' = [conn EXCEPT ![c] = "closed"]
  /\ UNCHANGED <<hubVars, channelVars, writer, writing, joined, got>>

-----------------------------------------------------------------------------
\* writePump.

WriterTakes(c) ==
  /\ writer[c] = "ready"
  /\ send[c] # <<>>
  /\ writing' = [writing EXCEPT ![c] = Head(send[c])]
  /\ send' = [send EXCEPT ![c] = Tail(@)]
  /\ writer' = [writer EXCEPT ![c] = "writing"]
  /\ UNCHANGED <<hubVars, closed, session, conn, joined, got>>

\* The peer receives what is written while the connection is sound; a broken one
\* may swallow a write before it reports the error.
WriteOk(c) ==
  /\ writer[c] = "writing"
  /\ conn[c] \in {"open", "broken"}
  /\ writer' = [writer EXCEPT ![c] = "ready"]
  /\ got' = IF conn[c] = "open" THEN [got EXCEPT ![c] = Append(@, writing[c])] ELSE got
  /\ UNCHANGED <<hubVars, channelVars, session, writing, conn, joined>>

\* A variant of writePump without its deferred Close.
StopWriter_LeavesOpen(c) ==
  /\ writer' = [writer EXCEPT ![c] = "done"]
  /\ UNCHANGED <<hubVars, channelVars, session, writing, conn, joined, got>>

StopWriter(c) ==
  /\ writer' = [writer EXCEPT ![c] = "done"]
  /\ conn' = [conn EXCEPT ![c] = "closed"]
  /\ UNCHANGED <<hubVars, channelVars, session, writing, joined, got>>

WriteFails(c) ==
  /\ writer[c] = "writing"
  /\ conn[c] \in {"broken", "closed"}
  /\ StopWriter(c)

\* The channel is closed and drained.
WriterEnds(c) ==
  /\ writer[c] = "ready"
  /\ send[c] = <<>>
  /\ closed[c]
  /\ StopWriter(c)

-----------------------------------------------------------------------------
\* The network and the peer.  No deadline is set on the connection: writing to a
\* peer that has stopped reading blocks for good.

Breaks(c) ==
  /\ conn[c] \in {"open", "stalled"}
  /\ conn' = [conn EXCEPT ![c] = "broken"]
  /\ UNCHANGED <<hubVars, channelVars, pumpVars, joined, got>>

Stalls(c) ==
  /\ conn[c] = "open"
  /\ conn' = [conn EXCEPT ![c] = "stalled"]
  /\ UNCHANGED <<hubVars, channelVars, pumpVars, joined, got>>

-----------------------------------------------------------------------------
WritePump(c) == WriterTakes(c) \/ WriteOk(c) \/ WriteFails(c) \/ WriterEnds(c)

Session(c) ==
  \/ Connect(c) \/ Register(c) \/ Unregister(c)
  \/ ReadFails(c) \/ ReaderCloses(c) \/ WritePump(c)
  \/ Breaks(c) \/ Stalls(c)

Next ==
  \/ Broadcast \/ TakeMessage
  \/ \E c \in Clients : HandOut(c) \/ Session(c)

Spec == Init /\ [][Next]_vars

\* Every goroutine that can take a step takes one; Run's select chooses at random
\* among the channels that are ready, so it does not overlook one for ever.
Fairness ==
  /\ SF_vars(TakeMessage)
  /\ WF_vars(\E c \in Clients : HandOut(c))
  /\ \A c \in Clients :
       /\ SF_vars(Register(c))
       /\ SF_vars(Unregister(c))
       /\ WF_vars(ReadFails(c))
       /\ WF_vars(ReaderCloses(c))
       /\ WF_vars(WritePump(c))

FairSpec == Spec /\ Fairness

-----------------------------------------------------------------------------
TypeOK ==
  /\ clients \subseteq Clients /\ left \subseteq Clients
  /\ broadcast \in Seq(Messages) /\ Len(broadcast) <= BroadcastCap
  /\ message \in Nat
  /\ send \in [Clients -> Seq(Messages)]
  /\ \A c \in Clients : Len(send[c]) <= SendCap
  /\ closed \in [Clients -> BOOLEAN] /\ panicked \in BOOLEAN
  /\ session \in [Clients -> Sessions] /\ writer \in [Clients -> Writers]
  /\ writing \in [Clients -> Nat] /\ conn \in [Clients -> Conns]
  /\ log \in Seq(Messages) /\ joined \in [Clients -> Nat]
  /\ got \in [Clients -> Seq(Messages)]

\* The hub never sends on a closed channel nor closes one twice, though a client
\* may be dropped for being slow while its readPump is on the way to unregister it.
NoPanic == ~panicked

\* A client that has unregistered is not in the map, and never comes back: no
\* message is kept for a connection nobody reads any more.
LeftStaysOut ==
  \A c \in Clients : session[c] \in {"closing", "done"} => c \notin clients /\ closed[c]

\* What the hub implements: a client's place in the log is where it registered.
Registered == {c \in Clients : session[c] \notin {"none", "registering"}}

Promise == INSTANCE Feed WITH subs <- Registered, from <- joined, seen <- got

ImplementsFeed == Promise!FeedSpec

\* When the broadcasts pause, a client whose connection works has received every
\* message since it joined, or was dropped, whatever other clients do: one that
\* stalls for ever blocks neither the hub nor the others.
EveryoneIsServed ==
  \A c \in Clients :
    (c \in clients /\ Sent = MaxMessages)
      ~> (joined[c] + Len(got[c]) = MaxMessages \/ c \notin clients \/ conn[c] # "open")

\* A connection that is broken or closed, or whose client the hub dropped, ends both
\* pumps and is out of the map, unless its peer stalls and writePump hangs.
PumpsEnd ==
  \A c \in Clients :
    (conn[c] \in {"broken", "closed"} \/ closed[c])
      ~> \/ session[c] = "done" /\ writer[c] = "done" /\ c \notin clients
         \/ conn[c] = "stalled"
=============================================================================
