-------------------------------- MODULE Feed --------------------------------
(***************************************************************************)
(* What the WebSocket hub promises its clients: one log of messages, and   *)
(* every client sees the log from the moment it joined, in order, without  *)
(* a gap and without a repetition, for as long as it keeps up.             *)
(***************************************************************************)
EXTENDS Naturals, Sequences

CONSTANTS Clients, Messages

VARIABLES
  log,   \* the messages in the order of the broadcast
  subs,  \* the clients that have joined
  from,  \* from[c] the length of the log when c joined
  seen   \* seen[c] what c has received

feedVars == <<log, subs, from, seen>>

FeedTypeOK ==
  /\ log \in Seq(Messages)
  /\ subs \subseteq Clients
  /\ from \in [Clients -> Nat]
  /\ seen \in [Clients -> Seq(Messages)]

FeedInit ==
  /\ log = <<>>
  /\ subs = {}
  /\ from = [c \in Clients |-> 0]
  /\ seen = [c \in Clients |-> <<>>]

Publish(m) ==
  /\ log' = Append(log, m)
  /\ UNCHANGED <<subs, from, seen>>

Join(c) ==
  /\ c \notin subs
  /\ subs' = subs \cup {c}
  /\ from' = [from EXCEPT ![c] = Len(log)]
  /\ UNCHANGED <<log, seen>>

Receive(c) ==
  /\ c \in subs
  /\ from[c] + Len(seen[c]) < Len(log)
  /\ seen' = [seen EXCEPT ![c] = Append(@, log[from[c] + Len(seen[c]) + 1])]
  /\ UNCHANGED <<log, subs, from>>

FeedNext ==
  \/ \E m \in Messages : Publish(m)
  \/ \E c \in Clients : Join(c) \/ Receive(c)

FeedSpec == FeedInit /\ [][FeedNext]_feedVars
=============================================================================
