------------------------------ MODULE CouponPick ------------------------------
(***************************************************************************)
(* What pickForOddsTarget promises: for some candidates and a request, one *)
(* answer, and a playable one.                                             *)
(***************************************************************************)
EXTENDS Sequences, Naturals

CONSTANTS
  Offers,              \* the sets of candidates a request may find
  Requests,            \* the requests
  Playable(_, _, _)    \* whether a selection out of some candidates suits a request

VARIABLES
  cands,   \* the candidates
  req,     \* the request
  answer   \* none, or the answer in a sequence of its own

Init == cands \in Offers /\ req \in Requests /\ answer = <<>>

Answer ==
  /\ answer = <<>>
  /\ Len(answer') = 1
  /\ Playable(answer'[1], cands, req)
  /\ UNCHANGED <<cands, req>>

Spec == Init /\ [][Answer]_<<cands, req, answer>>
=============================================================================
