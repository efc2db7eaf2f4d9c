----------------------------- MODULE WsHubProofs -----------------------------
(***************************************************************************)
(* Proofs about WsHub, for any set of clients and any capacities: types,   *)
(* that the hub never panics, that a client that left stays out, and that  *)
(* the hub implements Feed.                                                *)
(***************************************************************************)
EXTENDS WsHub, SequenceTheorems, TLAPS

\* The messages are the positive numbers up to the bound.
LEMMA MessagesAreNat == Messages \subseteq Nat
BY WsHubAssumption DEF Messages

\* Types are inductive once what Run hands out and what a writePump holds are known
\* to be messages.
TypeInv ==
  /\ TypeOK
  /\ left # {} => message \in Messages
  /\ \A c \in Clients : writer[c] = "writing" => writing[c] \in Messages

LEMMA TypeInit == Init => TypeInv
<1>1. <<>> \in Seq(Messages) /\ Len(<<>>) = 0
  OBVIOUS
<1>2. ASSUME Init
      PROVE  TypeOK
  <2>1. /\ broadcast \in Seq(Messages) /\ Len(broadcast) <= BroadcastCap
        /\ log \in Seq(Messages) /\ send \in [Clients -> Seq(Messages)]
        /\ got \in [Clients -> Seq(Messages)]
    BY <1>1, <1>2, WsHubAssumption DEF Init
  <2>2. \A c \in Clients : Len(send[c]) <= SendCap
    BY <1>1, <1>2, WsHubAssumption DEF Init
  <2>3. /\ session \in [Clients -> Sessions] /\ writer \in [Clients -> Writers]
        /\ writing \in [Clients -> Nat] /\ conn \in [Clients -> Conns]
    BY <1>2 DEF Init, Sessions, Writers, Conns
  <2>. QED
    BY <1>2, <2>1, <2>2, <2>3 DEF Init, TypeOK
<1>. QED
  BY <1>2 DEF Init, TypeInv

\* The steps of the hub that concern no client in particular.
LEMMA HubStepType ==
  ASSUME TypeInv, Broadcast \/ TakeMessage
  PROVE  TypeInv'
<1>. USE DEF TypeInv
<1>1. CASE Broadcast
  <2>1. Len(log) \in Nat /\ Len(broadcast) \in Nat
    BY DEF TypeOK
  <2>2. Sent + 1 \in Messages
    BY <1>1, <2>1, WsHubAssumption DEF Broadcast, Sent, Messages
  <2>3. broadcast' \in Seq(Messages) /\ Len(broadcast') = Len(broadcast) + 1
    BY <1>1, <2>2 DEF Broadcast, TypeOK
  <2>4. Len(broadcast') <= BroadcastCap
    BY <1>1, <2>1, <2>3, WsHubAssumption DEF Broadcast
  <2>. QED
    BY <1>1, <2>3, <2>4 DEF Broadcast, TypeOK, channelVars, pumpVars
<1>2. CASE TakeMessage
  <2>1. broadcast \in Seq(Messages) /\ broadcast # <<>>
    BY <1>2 DEF TakeMessage, TypeOK
  <2>2. /\ Head(broadcast) \in Messages /\ Tail(broadcast) \in Seq(Messages)
        /\ Len(Tail(broadcast)) = Len(broadcast) - 1 /\ Len(broadcast) \in Nat
    BY <2>1
  <2>3. log' \in Seq(Messages)
    BY <1>2, <2>2 DEF TakeMessage, TypeOK
  <2>4. Len(broadcast') <= BroadcastCap
    BY <1>2, <2>2, WsHubAssumption DEF TakeMessage, TypeOK
  <2>5. message' \in Nat /\ message' \in Messages
    BY <1>2, <2>2, MessagesAreNat DEF TakeMessage
  <2>. QED
    BY <1>2, <2>2, <2>3, <2>4, <2>5 DEF TakeMessage, TypeOK, channelVars, pumpVars
<1>. QED
  BY <1>1, <1>2

LEMMA HandOutType ==
  ASSUME TypeInv, NEW c \in Clients, HandOut(c)
  PROVE  TypeInv'
<1>. USE DEF TypeInv
<1>1. message \in Messages /\ left' \subseteq left
  BY DEF HandOut
<1>2. send[c] \in Seq(Messages) /\ Len(send[c]) \in Nat
  BY DEF TypeOK
<1>3. CASE Len(send[c]) < SendCap
  <2>. DEFINE q == Append(send[c], message)
  <2>1. q \in Seq(Messages) /\ Len(q) <= SendCap
    BY <1>1, <1>2, <1>3, WsHubAssumption
  <2>2. send' = [send EXCEPT ![c] = q] /\ panicked' \in BOOLEAN
    BY <1>3 DEF HandOut, TypeOK
  <2>3. UNCHANGED <<clients, closed, broadcast, message, log, pumpVars, conn, joined, got>>
    BY <1>3 DEF HandOut
  <2>. HIDE DEF q
  <2>4. send' \in [Clients -> Seq(Messages)] /\ \A d \in Clients : Len(send'[d]) <= SendCap
    BY <2>1, <2>2 DEF TypeOK
  <2>. QED
    BY <1>1, <2>2, <2>3, <2>4 DEF TypeOK, pumpVars
<1>4. CASE ~(Len(send[c]) < SendCap)
  BY <1>1, <1>4 DEF HandOut, Close, TypeOK, pumpVars
<1>. QED
  BY <1>3, <1>4

LEMMA SessionStepType ==
  ASSUME TypeInv, NEW c \in Clients, Session(c)
  PROVE  TypeInv'
<1>. USE DEF TypeInv
<1>0. Len(log) \in Nat
  BY DEF TypeOK
<1>1. CASE Connect(c) \/ ReadFails(c) \/ ReaderCloses(c) \/ Breaks(c) \/ Stalls(c)
  BY <1>1 DEF Connect, ReadFails, ReaderCloses, Breaks, Stalls, TypeOK, hubVars, channelVars,
              pumpVars, Sessions, Conns
<1>2. CASE Register(c)
  BY <1>0, <1>2 DEF Register, TypeOK, channelVars, Sessions, Writers
<1>3. CASE Unregister(c)
  BY <1>3 DEF Unregister, Leave, Close, TypeOK, Sessions
<1>4. CASE WriterTakes(c)
  <2>1. send[c] \in Seq(Messages) /\ send[c] # <<>> /\ Len(send[c]) <= SendCap
    BY <1>4 DEF WriterTakes, TypeOK
  <2>. DEFINE q == Tail(send[c])
              m == Head(send[c])
  <2>0. q \in Seq(Messages) /\ Len(q) = Len(send[c]) - 1 /\ Len(send[c]) \in Nat /\ m \in Messages
    BY <2>1
  <2>. HIDE DEF q, m
  <2>2. Len(q) <= SendCap /\ m \in Nat
    BY <2>0, <2>1, MessagesAreNat, WsHubAssumption
  <2>. USE DEF q, m
  <2>3. /\ send' = [send EXCEPT ![c] = q] /\ writing' = [writing EXCEPT ![c] = m]
        /\ writer' = [writer EXCEPT ![c] = "writing"]
        /\ UNCHANGED <<hubVars, closed, session, conn, joined, got>>
    BY <1>4 DEF WriterTakes
  <2>. HIDE DEF q, m
  <2>4. send' \in [Clients -> Seq(Messages)] /\ \A d \in Clients : Len(send'[d]) <= SendCap
    BY <2>0, <2>2, <2>3 DEF TypeOK
  <2>. QED
    BY <2>0, <2>2, <2>3, <2>4 DEF TypeOK, hubVars, Writers
<1>5. CASE WriteOk(c)
  <2>1. writing[c] \in Messages
    BY <1>5 DEF WriteOk
  <2>2. got' \in [Clients -> Seq(Messages)]
    BY <1>5, <2>1 DEF WriteOk, TypeOK
  <2>. QED
    BY <1>5, <2>2 DEF WriteOk, TypeOK, hubVars, channelVars, Writers
<1>6. CASE WriteFails(c) \/ WriterEnds(c)
  BY <1>6 DEF WriteFails, WriterEnds, StopWriter, TypeOK, hubVars, channelVars, Writers, Conns
<1>. QED
  BY <1>1, <1>2, <1>3, <1>4, <1>5, <1>6 DEF Session, WritePump

LEMMA TypeStep == TypeInv /\ [Next]_vars => TypeInv'
<1>. SUFFICES ASSUME TypeInv, [Next]_vars PROVE TypeInv'
  OBVIOUS
<1>1. CASE UNCHANGED vars
  BY <1>1 DEF vars, hubVars, channelVars, pumpVars, TypeInv, TypeOK
<1>. QED
  BY <1>1, HubStepType, HandOutType, SessionStepType DEF Next

\* Every variable keeps its type and no channel holds more than its capacity.
THEOREM TypeCorrect == Spec => []TypeOK
<1>1. TypeInv => TypeOK
  BY DEF TypeInv
<1>. QED
  BY TypeInit, TypeStep, <1>1, PTL DEF Spec

-----------------------------------------------------------------------------
\* Who is in the map.  The channel of a client in the map is open; a client that has
\* registered and is no longer in the map has had its channel closed, once, by
\* whichever of the drop and the unregistration came first.

MapInv ==
  /\ ~panicked
  /\ left \subseteq clients
  /\ clients \subseteq Clients
  /\ \A c \in Clients :
       /\ c \in clients <=> session[c] \in {"reading", "leaving"} /\ ~closed[c]
       /\ session[c] \in {"none", "registering"} => ~closed[c]
       /\ session[c] \in {"closing", "done"} => closed[c]

LEMMA MapInit == Init => MapInv
BY DEF Init, MapInv

LEMMA MapStep == TypeInv /\ MapInv /\ [Next]_vars => MapInv'
<1>. SUFFICES ASSUME TypeInv, MapInv, [Next]_vars PROVE MapInv'
  OBVIOUS
<1>0. /\ session \in [Clients -> Sessions] /\ closed \in [Clients -> BOOLEAN]
  BY DEF TypeInv, TypeOK
<1>1. CASE Broadcast \/ TakeMessage
  BY <1>1 DEF Broadcast, TakeMessage, channelVars, pumpVars, MapInv
<1>2. ASSUME NEW c \in Clients, HandOut(c)
      PROVE  MapInv'
  <2>1. c \in clients /\ ~closed[c]
    BY <1>2 DEF HandOut, MapInv
  <2>2. CASE Len(send[c]) < SendCap
    BY <1>2, <2>1, <2>2 DEF HandOut, pumpVars, MapInv
  <2>3. CASE ~(Len(send[c]) < SendCap)
    BY <1>0, <1>2, <2>1, <2>3 DEF HandOut, Close, pumpVars, MapInv
  <2>. QED
    BY <2>2, <2>3
<1>3. ASSUME NEW c \in Clients, Register(c)
      PROVE  MapInv'
  BY <1>0, <1>3 DEF Register, Selecting, channelVars, MapInv
<1>4. ASSUME NEW c \in Clients, Unregister(c)
      PROVE  MapInv'
  BY <1>0, <1>4 DEF Unregister, Selecting, Leave, Close, MapInv
<1>5. ASSUME NEW c \in Clients, Connect(c) \/ ReadFails(c) \/ ReaderCloses(c)
      PROVE  MapInv'
  BY <1>0, <1>5 DEF Connect, ReadFails, ReaderCloses, hubVars, channelVars, MapInv
<1>6. ASSUME NEW c \in Clients, WritePump(c) \/ Breaks(c) \/ Stalls(c)
      PROVE  MapInv'
  BY <1>6 DEF WritePump, WriterTakes, WriteOk, WriteFails, WriterEnds, StopWriter, Breaks, Stalls,
              hubVars, channelVars, pumpVars, MapInv
<1>7. CASE UNCHANGED vars
  BY <1>7 DEF vars, hubVars, channelVars, pumpVars, MapInv
<1>. QED
  BY <1>1, <1>2, <1>3, <1>4, <1>5, <1>6, <1>7 DEF Next, Session

\* However a drop for slowness and an unregistration race, the hub's goroutine does
\* not panic on the client's channel.
THEOREM HubNeverPanics == Spec => []NoPanic
<1>1. MapInv => NoPanic
  BY DEF MapInv, NoPanic
<1>. QED
  BY TypeInit, TypeStep, MapInit, MapStep, <1>1, PTL DEF Spec

\* A client whose readPump has unregistered stays out of the map, its channel closed.
THEOREM ClientsThatLeftStayOut == Spec => []LeftStaysOut
<1>1. MapInv => LeftStaysOut
  BY DEF MapInv, LeftStaysOut
<1>. QED
  BY TypeInit, TypeStep, MapInit, MapStep, <1>1, PTL DEF Spec

-----------------------------------------------------------------------------
\* Where the messages on their way to a client belong in the log.  While the
\* connection is sound, what the peer has, the message being written and the buffer
\* are consecutive messages of the log, up to its end for a client in the map (but
\* for the message that the loop has not handed to it yet).

InHand(c) == IF writer[c] = "writing" THEN 1 ELSE 0

Reached(c) == joined[c] + Len(got[c])

InOrder(c) ==
  /\ writer[c] = "writing" => /\ Reached(c) + 1 <= Len(log)
                              /\ writing[c] = log[Reached(c) + 1]
  /\ \A i \in 1..Len(send[c]) :
       /\ Reached(c) + InHand(c) + i <= Len(log)
       /\ send[c][i] = log[Reached(c) + InHand(c) + i]
  /\ c \in clients /\ c \notin left => Reached(c) + InHand(c) + Len(send[c]) = Len(log)
  /\ c \in left => Reached(c) + InHand(c) + Len(send[c]) + 1 = Len(log)

Sound(c) == conn[c] \in {"open", "stalled"} /\ c \in Registered

Placed(c) ==
  /\ c \notin Registered => writer[c] = "none" /\ send[c] = <<>> /\ got[c] = <<>> /\ joined[c] = 0
  /\ writer[c] = "done" => conn[c] = "closed"
  /\ Sound(c) => InOrder(c)

HandsOutLast == left # {} => Len(log) > 0 /\ message = log[Len(log)]

OrderInv == HandsOutLast /\ \A c \in Clients : Placed(c)

LEMMA OrderInit == Init => OrderInv
BY DEF Init, OrderInv, HandsOutLast, Placed, Sound, Registered

\* What the types say about the numbers involved.
LEMMA Lengths ==
  ASSUME TypeInv, NEW c \in Clients
  PROVE  /\ Len(log) \in Nat /\ Len(send[c]) \in Nat /\ Len(got[c]) \in Nat
         /\ joined[c] \in Nat /\ Reached(c) \in Nat /\ InHand(c) \in {0, 1}
BY DEF TypeInv, TypeOK, Reached, InHand

\* A step that leaves c, its buffer and the hub's loop alone keeps c in order.
LEMMA Untouched ==
  ASSUME OrderInv, NEW c \in Clients, UNCHANGED <<log, left, message>>,
         send'[c] = send[c], writer'[c] = writer[c], writing'[c] = writing[c],
         got'[c] = got[c], joined'[c] = joined[c], session'[c] = session[c],
         conn'[c] = conn[c], c \in clients' <=> c \in clients
  PROVE  Placed(c)'
BY DEF OrderInv, Placed, Sound, Registered, InOrder, Reached, InHand

LEMMA TakeMessageOrder ==
  ASSUME TypeInv, MapInv, OrderInv, TakeMessage
  PROVE  OrderInv'
<1>. DEFINE m == Head(broadcast)
            n == Len(log)
<1>1. /\ left = {} /\ left' = clients /\ message' = m /\ log' = Append(log, m)
      /\ UNCHANGED <<clients, send, writer, writing, got, joined, session, conn>>
  BY DEF TakeMessage, Selecting, channelVars, pumpVars
<1>2. log \in Seq(Messages) /\ n \in Nat /\ m \in Messages
  BY DEF TakeMessage, TypeInv, TypeOK
<1>3. Len(log') = n + 1 /\ log'[n + 1] = m /\ \A i \in 1..n : log'[i] = log[i]
  BY <1>1, <1>2
<1>4. HandsOutLast'
  BY <1>1, <1>2, <1>3 DEF HandsOutLast
<1>5. ASSUME NEW c \in Clients, Sound(c)'
      PROVE  InOrder(c)'
  <2>1. InOrder(c)
    BY <1>1, <1>5 DEF OrderInv, Placed, Sound, Registered
  <2>2. Reached(c)' = Reached(c) /\ InHand(c)' = InHand(c)
    BY <1>1 DEF Reached, InHand
  <2>3. /\ Reached(c) \in Nat /\ InHand(c) \in Nat /\ Len(send[c]) \in Nat
    BY Lengths
  <2>4. c \in left' <=> c \in clients /\ c \notin left
    BY <1>1
  <2>5. writer[c] = "writing" => /\ Reached(c) + 1 <= n + 1 
                                 /\ writing[c] = log'[Reached(c) + 1]
    BY <1>2, <1>3, <2>1, <2>3 DEF InOrder
  <2>6. \A i \in 1..Len(send[c]) :
          /\ Reached(c) + InHand(c) + i <= n + 1
          /\ send[c][i] = log'[Reached(c) + InHand(c) + i]
    BY <1>2, <1>3, <2>1, <2>3 DEF InOrder
  <2>7. c \in left' => Reached(c) + InHand(c) + Len(send[c]) + 1 = n + 1
    BY <1>2, <2>1, <2>3, <2>4 DEF InOrder
  <2>. QED
    BY <1>1, <1>3, <2>2, <2>4, <2>5, <2>6, <2>7 DEF InOrder
<1>6. ASSUME NEW c \in Clients
      PROVE  Placed(c)'
  BY <1>1, <1>5 DEF OrderInv, Placed, Registered
<1>. QED
  BY <1>4, <1>6 DEF OrderInv

LEMMA HandOutOrder ==
  ASSUME TypeInv, MapInv, OrderInv, NEW c \in Clients, HandOut(c)
  PROVE  OrderInv'
<1>. DEFINE n == Len(log)
<1>1. /\ c \in left /\ left' = left \ {c} /\ c \in clients
      /\ UNCHANGED <<broadcast, message, log, session, writer, writing, conn, joined, got>>
  BY DEF HandOut, pumpVars, MapInv
<1>2. n > 0 /\ message = log[n]
  BY <1>1 DEF OrderInv, HandsOutLast
<1>3. HandsOutLast'
  BY <1>1 DEF OrderInv, HandsOutLast
<1>4. send \in [Clients -> Seq(Messages)] /\ message \in Messages
  BY <1>1 DEF TypeInv, TypeOK
<1>5. ASSUME NEW d \in Clients, d # c
      PROVE  Placed(d)'
  <2>1. send'[d] = send[d] /\ (d \in clients' <=> d \in clients) /\ (d \in left' <=> d \in left)
    BY <1>1, <1>4, <1>5 DEF HandOut, Close
  <2>. QED
    BY <1>1, <2>1 DEF OrderInv, Placed, Sound, Registered, InOrder, Reached, InHand
<1>6. ASSUME Sound(c)'
      PROVE  InOrder(c)'
  <2>1. InOrder(c)
    BY <1>1, <1>6 DEF OrderInv, Placed, Sound, Registered
  <2>2. Reached(c)' = Reached(c) /\ InHand(c)' = InHand(c) /\ log' = log
    BY <1>1 DEF Reached, InHand
  <2>3. Reached(c) \in Nat /\ InHand(c) \in Nat /\ Len(send[c]) \in Nat /\ n \in Nat
    BY Lengths
  <2>4. Reached(c) + InHand(c) + Len(send[c]) + 1 = n
    BY <1>1, <2>1 DEF InOrder
  <2>5. CASE Len(send[c]) < SendCap
    <3>1. send'[c] = Append(send[c], message) /\ clients' = clients
      BY <1>4, <2>5 DEF HandOut
    <3>2. /\ Len(send'[c]) = Len(send[c]) + 1
          /\ \A i \in 1..Len(send[c]) : send'[c][i] = send[c][i]
          /\ send'[c][Len(send[c]) + 1] = message
      BY <1>4, <3>1
    <3>3. ASSUME NEW i \in 1..Len(send'[c])
          PROVE  /\ Reached(c) + InHand(c) + i <= n
                 /\ send'[c][i] = log[Reached(c) + InHand(c) + i]
      <4>1. CASE i \in 1..Len(send[c])
        BY <2>1, <3>2, <4>1 DEF InOrder
      <4>2. CASE i = Len(send[c]) + 1
        <5>1. Reached(c) + InHand(c) + i = n
          BY <2>3, <2>4, <4>2
        <5>. QED
          BY <1>2, <2>3, <3>2, <4>2, <5>1
      <4>. QED
        BY <2>3, <3>2, <3>3, <4>1, <4>2
    <3>4. Reached(c) + InHand(c) + Len(send'[c]) = n
      BY <2>3, <2>4, <3>2
    <3>5. writer'[c] = "writing" => Reached(c) + 1 <= n /\ writing'[c] = log[Reached(c) + 1]
      BY <1>1, <2>1 DEF InOrder
    <3>. QED
      BY <1>1, <2>2, <3>1, <3>3, <3>4, <3>5 DEF InOrder
  <2>6. CASE ~(Len(send[c]) < SendCap)
    <3>1. send'[c] = send[c] /\ c \notin clients' /\ c \notin left'
      BY <1>1, <2>6 DEF HandOut
    <3>. QED
      BY <1>1, <2>1, <2>2, <3>1 DEF InOrder
  <2>. QED
    BY <2>5, <2>6
<1>7. c \in Registered
  BY <1>1 DEF MapInv, Registered
<1>8. Placed(c)'
  BY <1>1, <1>6, <1>7 DEF OrderInv, Placed, Registered
<1>. QED
  BY <1>3, <1>5, <1>8 DEF OrderInv

LEMMA WriterTakesOrder ==
  ASSUME TypeInv, OrderInv, NEW c \in Clients, WriterTakes(c), Sound(c)'
  PROVE  InOrder(c)'
<1>. DEFINE q == send[c]
<1>1. /\ writer[c] = "ready" /\ q \in Seq(Messages) /\ q # <<>>
      /\ writer'[c] = "writing" /\ writing'[c] = Head(q) /\ send'[c] = Tail(q)
      /\ UNCHANGED <<clients, left, log, session, conn, joined, got>>
  BY DEF WriterTakes, hubVars, TypeInv, TypeOK
<1>2. InOrder(c)
  BY <1>1 DEF OrderInv, Placed, Sound, Registered
<1>3. /\ Reached(c)' = Reached(c) /\ InHand(c)' = 1 /\ InHand(c) = 0
      /\ Reached(c) \in Nat /\ Len(log) \in Nat
  BY <1>1, Lengths DEF Reached, InHand
<1>4. /\ Len(q) \in Nat /\ Len(q) > 0 /\ Len(Tail(q)) = Len(q) - 1 /\ Head(q) = q[1]
      /\ \A i \in 1..(Len(q) - 1) : Tail(q)[i] = q[i + 1]
  BY <1>1
<1>5. Reached(c) + 1 <= Len(log) /\ q[1] = log[Reached(c) + 1]
  BY <1>2, <1>3, <1>4 DEF InOrder
<1>6. ASSUME NEW i \in 1..(Len(q) - 1)
      PROVE  Reached(c) + 1 + i <= Len(log) /\ Tail(q)[i] = log[Reached(c) + 1 + i]
  <2>1. i + 1 \in 1..Len(q)
    BY <1>4
  <2>2. Reached(c) + 0 + (i + 1) <= Len(log) /\ q[i + 1] = log[Reached(c) + 0 + (i + 1)]
    BY <1>2, <1>3, <2>1 DEF InOrder
  <2>3. Reached(c) + 0 + (i + 1) = Reached(c) + 1 + i
    BY <1>3
  <2>. QED
    BY <1>4, <2>2, <2>3
<1>7. Reached(c) + 1 + (Len(q) - 1) = Reached(c) + 0 + Len(q)
  BY <1>3, <1>4
<1>8. /\ c \in clients /\ c \notin left => Reached(c) + 1 + (Len(q) - 1) = Len(log)
      /\ c \in left => Reached(c) + 1 + (Len(q) - 1) + 1 = Len(log)
  BY <1>2, <1>3, <1>7 DEF InOrder
<1>. HIDE DEF q
<1>. QED
  BY <1>1, <1>3, <1>4, <1>5, <1>6, <1>8 DEF InOrder

LEMMA WriteOkOrder ==
  ASSUME TypeInv, OrderInv, NEW c \in Clients, WriteOk(c), Sound(c)'
  PROVE  InOrder(c)'
<1>1. /\ writer[c] = "writing" /\ conn[c] = "open" /\ writer'[c] = "ready"
      /\ got'[c] = Append(got[c], writing[c])
      /\ UNCHANGED <<clients, left, log, send, session, conn, joined>>
  BY DEF WriteOk, Sound, hubVars, channelVars, TypeInv, TypeOK
<1>2. InOrder(c)
  BY <1>1 DEF OrderInv, Placed, Sound, Registered
<1>3. Len(got'[c]) = Len(got[c]) + 1 /\ Len(got[c]) \in Nat /\ joined[c] \in Nat
  BY <1>1 DEF TypeInv, TypeOK
<1>4. InHand(c) = 1 /\ InHand(c)' = 0
  BY <1>1 DEF InHand
<1>5. Reached(c)' + InHand(c)' = Reached(c) + InHand(c)
  <2>1. Reached(c) = joined[c] + Len(got[c]) /\ Reached(c)' = joined[c] + Len(got'[c])
    BY <1>1 DEF Reached
  <2>. QED
    BY <1>3, <1>4, <2>1
<1>. QED
  BY <1>1, <1>2, <1>5 DEF InOrder

LEMMA RegisterOrder ==
  ASSUME TypeInv, OrderInv, MapInv, NEW c \in Clients, Register(c)
  PROVE  InOrder(c)'
<1>1. /\ left = {} /\ left' = {} /\ c \in clients' /\ log' = log
      /\ joined'[c] = Len(log) /\ writer'[c] = "ready"
      /\ UNCHANGED <<send, got>>
  BY DEF Register, Selecting, channelVars, TypeInv, TypeOK
<1>2. send[c] = <<>> /\ got[c] = <<>>
  BY DEF Register, OrderInv, Placed, Registered
<1>3. Reached(c)' = Len(log) /\ InHand(c)' = 0 /\ Len(send'[c]) = 0 /\ Len(log) \in Nat
  BY <1>1, <1>2, Lengths DEF Reached, InHand
<1>. QED
  BY <1>1, <1>3 DEF InOrder

LEMMA SessionOrder ==
  ASSUME TypeInv, MapInv, OrderInv, NEW c \in Clients, Session(c)
  PROVE  OrderInv'
<1>0. /\ send \in [Clients -> Seq(Messages)] /\ writer \in [Clients -> Writers]
      /\ writing \in [Clients -> Nat] /\ got \in [Clients -> Seq(Messages)]
      /\ joined \in [Clients -> Nat] /\ session \in [Clients -> Sessions]
      /\ conn \in [Clients -> Conns]
  BY DEF TypeInv, TypeOK
<1>1. UNCHANGED <<log, left, message>>
  BY DEF Session, Connect, Register, Unregister, ReadFails, ReaderCloses, WritePump, WriterTakes,
         WriteOk, WriteFails, WriterEnds, StopWriter, Breaks, Stalls, hubVars
<1>2. HandsOutLast'
  BY <1>1 DEF OrderInv, HandsOutLast
<1>3. ASSUME NEW d \in Clients, d # c
      PROVE  Placed(d)'
  <2>1. /\ send'[d] = send[d] /\ writer'[d] = writer[d] /\ writing'[d] = writing[d]
        /\ got'[d] = got[d] /\ joined'[d] = joined[d] /\ session'[d] = session[d]
        /\ conn'[d] = conn[d] /\ (d \in clients' <=> d \in clients)
    BY <1>0, <1>3 DEF Session, Connect, Register, Unregister, Leave, ReadFails, ReaderCloses,
       WritePump, WriterTakes, WriteOk, WriteFails, WriterEnds, StopWriter, Breaks, Stalls,
       hubVars, channelVars, pumpVars
  <2>. QED
    BY <1>1, <2>1, Untouched
<1>4. Placed(c)'
  <2>. USE <1>0 DEF OrderInv, Placed, Registered
  <2>1. CASE Connect(c)
    BY <2>1 DEF Connect, Sound, channelVars
  <2>2. CASE Register(c)
    BY <2>2, RegisterOrder DEF Register
  <2>3. CASE Unregister(c)
    BY <2>3 DEF Unregister, Leave, Selecting, Sound, InOrder, Reached, InHand
  <2>4. CASE ReadFails(c)
    BY <2>4 DEF ReadFails, hubVars, channelVars, Sound, InOrder, Reached, InHand
  <2>5. CASE ReaderCloses(c)
    BY <2>5 DEF ReaderCloses, Sound, channelVars
  <2>6. CASE WriterTakes(c)
    BY <2>6, WriterTakesOrder DEF WriterTakes
  <2>7. CASE WriteOk(c)
    BY <2>7, WriteOkOrder DEF WriteOk, channelVars
  <2>8. CASE WriteFails(c) \/ WriterEnds(c)
    BY <2>8 DEF WriteFails, WriterEnds, StopWriter, Sound, channelVars
  <2>9. CASE Breaks(c)
    BY <2>9 DEF Breaks, Sound, channelVars, pumpVars
  <2>10. CASE Stalls(c)
    BY <2>10 DEF Stalls, Sound, hubVars, channelVars, pumpVars, InOrder, Reached, InHand
  <2>. QED
    BY <2>1, <2>2, <2>3, <2>4, <2>5, <2>6, <2>7, <2>8, <2>9, <2>10 DEF Session, WritePump
<1>. QED
  BY <1>2, <1>3, <1>4 DEF OrderInv

LEMMA OrderStep == TypeInv /\ MapInv /\ OrderInv /\ [Next]_vars => OrderInv'
<1>. SUFFICES ASSUME TypeInv, MapInv, OrderInv, [Next]_vars PROVE OrderInv'
  OBVIOUS
<1>1. CASE Broadcast \/ UNCHANGED vars
  <2>1. UNCHANGED <<clients, left, message, log, send, session, writer, writing, conn, joined, got>>
    BY <1>1 DEF Broadcast, vars, hubVars, channelVars, pumpVars
  <2>2. HandsOutLast'
    BY <2>1 DEF OrderInv, HandsOutLast
  <2>3. ASSUME NEW c \in Clients
        PROVE  Placed(c)'
    BY <2>1, Untouched
  <2>. QED
    BY <2>2, <2>3 DEF OrderInv
<1>. QED
  BY <1>1, TakeMessageOrder, HandOutOrder, SessionOrder DEF Next

-----------------------------------------------------------------------------
\* The hub implements Feed.  Taking a message out of broadcast publishes it, the
\* registration joins, a successful write receives; every other step is invisible.

LEMMA FeedInitLemma == Init => Promise!FeedInit
BY DEF Init, Promise!FeedInit, Registered

LEMMA FeedStep ==
  ASSUME TypeInv, MapInv, OrderInv, [Next]_vars
  PROVE  [Promise!FeedNext]_(Promise!feedVars)
<1>. USE DEF Promise!feedVars
<1>0. /\ session \in [Clients -> Sessions] /\ joined \in [Clients -> Nat]
      /\ got \in [Clients -> Seq(Messages)]
  BY DEF TypeInv, TypeOK
<1>1. CASE TakeMessage
  <2>1. Head(broadcast) \in Messages
    BY <1>1 DEF TakeMessage, TypeInv, TypeOK
  <2>2. Promise!Publish(Head(broadcast))
    BY <1>1 DEF TakeMessage, Promise!Publish, Registered, pumpVars
  <2>. QED
    BY <2>1, <2>2 DEF Promise!FeedNext
<1>2. ASSUME NEW c \in Clients, Register(c)
      PROVE  Promise!Join(c)
  <2>1. c \notin Registered /\ Registered' = Registered \cup {c}
    BY <1>0, <1>2 DEF Register, Registered
  <2>. QED
    BY <1>2, <2>1 DEF Register, Promise!Join
<1>3. ASSUME NEW c \in Clients, WriteOk(c), conn[c] = "open"
      PROVE  Promise!Receive(c)
  <2>1. c \in Registered
    BY <1>3 DEF WriteOk, OrderInv, Placed
  <2>2. Reached(c) + 1 <= Len(log) /\ writing[c] = log[Reached(c) + 1]
    BY <1>3, <2>1 DEF WriteOk, OrderInv, Placed, Sound, InOrder
  <2>3. joined[c] + Len(got[c]) < Len(log)
    BY <2>2, Lengths DEF Reached
  <2>4. got' = [got EXCEPT ![c] = Append(@, log[joined[c] + Len(got[c]) + 1])]
    BY <1>3, <2>2 DEF WriteOk, Reached
  <2>5. log' = log /\ Registered' = Registered /\ joined' = joined
    BY <1>3 DEF WriteOk, hubVars, Registered
  <2>. QED
    BY <2>1, <2>3, <2>4, <2>5 DEF Promise!Receive
<1>4. ASSUME NEW c \in Clients, WriteOk(c), conn[c] # "open"
      PROVE  UNCHANGED <<log, Registered, joined, got>>
  BY <1>4 DEF WriteOk, hubVars, Registered
<1>5. ASSUME NEW c \in Clients,
             \/ Connect(c) \/ Unregister(c) \/ ReadFails(c) \/ ReaderCloses(c)
             \/ WriterTakes(c) \/ WriteFails(c) \/ WriterEnds(c) \/ Breaks(c) \/ Stalls(c)
      PROVE  UNCHANGED <<log, Registered, joined, got>>
  <2>1. UNCHANGED <<log, joined, got>>
    BY <1>5 DEF Connect, Unregister, ReadFails, ReaderCloses, WriterTakes, WriteFails, WriterEnds,
                StopWriter, Breaks, Stalls, hubVars
  <2>2. \A d \in Clients : session[d] \in {"none", "registering"}
                             <=> session'[d] \in {"none", "registering"}
    BY <1>0, <1>5 DEF Connect, Unregister, Leave, ReadFails, ReaderCloses, WriterTakes, WriteFails,
                      WriterEnds, StopWriter, Breaks, Stalls, pumpVars
  <2>. QED
    BY <2>1, <2>2 DEF Registered
<1>6. ASSUME NEW c \in Clients, HandOut(c)
      PROVE  UNCHANGED <<log, Registered, joined, got>>
  BY <1>6 DEF HandOut, pumpVars, Registered
<1>7. CASE Broadcast \/ UNCHANGED vars
  BY <1>7 DEF Broadcast, vars, hubVars, pumpVars, Registered
<1>. QED
  BY <1>1, <1>2, <1>3, <1>4, <1>5, <1>6, <1>7 DEF Next, Session, WritePump, Promise!FeedNext

\* However the hub, the pumps, slow peers and broken connections interleave, what a
\* client receives is a stretch of the broadcast that starts where it registered.
THEOREM HubImplementsFeed == Spec => ImplementsFeed
<1>1. TypeInv /\ MapInv /\ OrderInv /\ [Next]_vars => [Promise!FeedNext]_(Promise!feedVars)
  BY FeedStep
<1>. QED
  BY TypeInit, TypeStep, MapInit, MapStep, OrderInit, OrderStep, FeedInitLemma, <1>1, PTL
     DEF Spec, ImplementsFeed, Promise!FeedSpec
=============================================================================
