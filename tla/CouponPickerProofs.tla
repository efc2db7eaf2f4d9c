-------------------------- MODULE CouponPickerProofs --------------------------
(***************************************************************************)
(* Proofs about CouponPicker, for any candidates and any requests: types,  *)
(* that no selection is worth more than asked for, that a selection in the *)
(* interval stays, and that every answer is a playable one.  The product   *)
(* of the odds is never expanded: nothing depends on its value.            *)
(***************************************************************************)
EXTENDS CouponPicker, SequenceTheorems, TLAPS

\* Numbers of a request, and what the least confidence of an attempt means.
LEMMA RequestNumbers ==
  ASSUME req \in Requests
  PROVE  /\ req.min \in Nat /\ req.max \in Nat /\ req.picks \in 1..10 /\ req.conf \in 1..100
         /\ Valid(req) /\ req \in Request
BY CouponPickerAssumption DEF Request

\* What an answer needs, and holds of every selection on the way.
Likely(c) == c.conf >= req.conf \/ c.conf >= 50

Inv ==
  /\ TypeOK
  /\ NeverTooMuch
  /\ OnePerMatch(selected)
  /\ \A i \in DOMAIN selected : Likely(selected[i])
  /\ \A c \in pool : Likely(c)
  /\ phase = "begin" => selected = <<>> /\ attempt = 0
  /\ attempt = 0 => phase \in {"begin", "done"} /\ selected = <<>>

LEMMA EligibleLikely ==
  ASSUME TypeOK, NEW a \in 1..3
  PROVE  Eligible(a) \subseteq cands /\ \A c \in Eligible(a) : Likely(c)
<1>1. cands \subseteq Candidate
  BY CouponPickerAssumption DEF TypeOK
<1>2. \A c \in cands : c.conf \in 45..100
  BY <1>1 DEF Candidate
<1>3. req.conf \in 1..100
  BY RequestNumbers DEF TypeOK
<1>4. CASE a = 1
  BY <1>4 DEF Eligible, Likely
<1>5. CASE a = 2
  BY <1>2, <1>3, <1>5 DEF Eligible, Likely, Relaxed
<1>6. CASE a = 3
  BY <1>6 DEF Eligible, Likely
<1>. QED
  BY <1>4, <1>5, <1>6

LEMMA InvInit == Init => Inv
<1>. SUFFICES ASSUME Init PROVE Inv
  OBVIOUS
<1>1. selected \in Seq(cands) /\ Len(selected) = 0 /\ DOMAIN selected = {}
  BY DEF Init
<1>2. req.picks \in 1..10
  BY RequestNumbers DEF Init
<1>3. TypeOK
  BY <1>1, <1>2 DEF Init, TypeOK, Phases
<1>. QED
  BY <1>1, <1>3 DEF Init, Inv, NeverTooMuch, OnePerMatch

\* A selection with one more place, for a match it does not use.
LEMMA AppendKeeps ==
  ASSUME Inv, NEW c \in cands, ~UsesMatch(selected, c.match), Likely(c),
         Len(selected) < req.picks
  PROVE  LET s == Append(selected, c)
         IN  /\ s \in Seq(cands) /\ Len(s) <= req.picks
             /\ OnePerMatch(s)
             /\ \A i \in DOMAIN s : Likely(s[i])
<1>. DEFINE s == Append(selected, c)
            n == Len(selected)
<1>1. selected \in Seq(cands) /\ n \in Nat /\ DOMAIN selected = 1..n
  BY DEF Inv, TypeOK
<1>2. s \in Seq(cands) /\ Len(s) = n + 1 /\ DOMAIN s = 1..n + 1
  BY <1>1
<1>3. \A i \in 1..n : s[i] = selected[i]
  BY <1>1
<1>4. s[n + 1] = c
  BY <1>1
<1>5. req.picks \in 1..10
  BY RequestNumbers DEF Inv, TypeOK
<1>6. OnePerMatch(s)
  <2>. SUFFICES ASSUME NEW i \in 1..n + 1, NEW j \in 1..n + 1, s[i].match = s[j].match
                PROVE  i = j
    BY <1>2 DEF OnePerMatch
  <2>1. CASE i \in 1..n /\ j \in 1..n
    BY <1>1, <1>3, <2>1 DEF Inv, OnePerMatch
  <2>2. CASE i = n + 1 /\ j \in 1..n
    BY <1>1, <1>3, <1>4, <2>2 DEF UsesMatch
  <2>3. CASE i \in 1..n /\ j = n + 1
    BY <1>1, <1>3, <1>4, <2>3 DEF UsesMatch
  <2>. QED
    BY <1>1, <2>1, <2>2, <2>3
<1>7. \A i \in DOMAIN s : Likely(s[i])
  <2>. SUFFICES ASSUME NEW i \in 1..n + 1 PROVE Likely(s[i])
    BY <1>2
  <2>1. CASE i \in 1..n
    BY <1>1, <1>3, <2>1 DEF Inv
  <2>2. CASE i = n + 1
    BY <1>4, <2>2
  <2>. QED
    BY <1>1, <2>1, <2>2
<1>. QED
  BY <1>1, <1>2, <1>5, <1>6, <1>7

\* A selection with another candidate in one place, of that place's match or of one
\* it does not use.  Outside the selection With changes nothing.
LEMMA WithKeeps ==
  ASSUME Inv, NEW i, NEW c \in cands, Likely(c),
         i \in DOMAIN selected => c.match = selected[i].match \/ ~UsesMatch(selected, c.match)
  PROVE  LET s == With(i, c)
         IN  /\ s \in Seq(cands) /\ Len(s) <= req.picks
             /\ OnePerMatch(s)
             /\ \A j \in DOMAIN s : Likely(s[j])
<1>. DEFINE s == With(i, c)
            n == Len(selected)
<1>1. selected \in Seq(cands) /\ n \in Nat /\ DOMAIN selected = 1..n /\ n <= req.picks
  BY DEF Inv, TypeOK
<1>2. CASE i \notin DOMAIN selected
  <2>1. s = selected
    BY <1>1, <1>2 DEF With
  <2>. QED
    BY <1>1, <2>1 DEF Inv
<1>3. CASE i \in DOMAIN selected
  <2>1. /\ s \in Seq(cands) /\ Len(s) = n
        /\ \A j \in 1..n : s[j] = IF j = i THEN c ELSE selected[j]
    BY <1>1, <1>3, ExceptSeq DEF With
  <2>2. DOMAIN s = 1..n
    BY <2>1
  <2>3. \A j \in 1..n : j # i => selected[j].match # c.match
    <3>1. CASE ~UsesMatch(selected, c.match)
      BY <1>1, <3>1 DEF UsesMatch
    <3>2. CASE c.match = selected[i].match
      BY <1>1, <1>3, <3>2 DEF Inv, OnePerMatch
    <3>. QED
      BY <1>3, <3>1, <3>2
  <2>4. OnePerMatch(s)
    <3>. SUFFICES ASSUME NEW j \in 1..n, NEW k \in 1..n, s[j].match = s[k].match
                  PROVE  j = k
      BY <2>2 DEF OnePerMatch
    <3>1. CASE j = i
      BY <2>1, <2>3, <3>1
    <3>2. CASE k = i
      BY <2>1, <2>3, <3>2
    <3>3. CASE j # i /\ k # i
      BY <1>1, <2>1, <3>3 DEF Inv, OnePerMatch
    <3>. QED
      BY <3>1, <3>2, <3>3
  <2>5. \A j \in DOMAIN s : Likely(s[j])
    BY <1>1, <2>1, <2>2 DEF Inv
  <2>. QED
    BY <1>1, <2>1, <2>4, <2>5
<1>. QED
  BY <1>2, <1>3

LEMMA StartAttemptKeeps ==
  ASSUME Inv, NEW a \in 1..3, StartAttempt(a)
  PROVE  Inv'
<1>1. Eligible(a) \subseteq cands /\ \A c \in Eligible(a) : Likely(c)
  BY EligibleLikely DEF Inv
<1>2. pool' \subseteq Eligible(a)
  <2>. DEFINE S == Eligible(a)
              ms == {c.match : c \in S}
  <2>1. PICK f \in [ms -> S] : pool' = {f[m] : m \in ms}
    BY DEF StartAttempt, BestPerMatch
  <2>. QED
    BY <2>1
<1>3. selected' \in Seq(cands') /\ Len(selected') = 0 /\ DOMAIN selected' = {}
  BY DEF StartAttempt
<1>4. req.picks \in 1..10
  BY RequestNumbers DEF Inv, TypeOK
<1>5. TypeOK'
  BY <1>1, <1>2, <1>3, <1>4 DEF StartAttempt, Inv, TypeOK, Phases
<1>. QED
  BY <1>1, <1>2, <1>3, <1>5 DEF StartAttempt, Inv, NeverTooMuch, OnePerMatch, Likely

\* A step of the attempt that changes the selection keeps the rest.
LEMMA SelectionKeeps ==
  ASSUME Inv, attempt \in 1..3, NEW p \in Phases \ {"begin"}, phase' = p,
         UNCHANGED <<cands, req, attempt, pool>>, swaps' \in 0..2 * req.picks,
         selected' \in Seq(cands), Len(selected') <= req.picks, OnePerMatch(selected'),
         \A i \in DOMAIN selected' : Likely(selected'[i]),
         selected' # <<>> => AtMost(selected', req.max)
  PROVE  Inv'
<1>1. TypeOK'
  BY DEF Inv, TypeOK
<1>2. NeverTooMuch'
  BY DEF NeverTooMuch
<1>. QED
  BY <1>1, <1>2 DEF Inv, OnePerMatch, Likely

LEMMA FillKeeps == ASSUME Inv, Fill PROVE Inv'
<1>1. PICK c \in Fits : /\ selected' = Append(selected, c)
                        /\ GoTo(IF AtLeast(selected', req.min) THEN "swap" ELSE "fill")
  BY DEF Fill
<1>2. /\ c \in cands /\ Likely(c) /\ ~UsesMatch(selected, c.match)
      /\ AtMost(selected', req.max)
  BY <1>1 DEF Fits, Inv, TypeOK
<1>3. Len(selected) < req.picks /\ attempt \in 1..3 /\ swaps' \in 0..2 * req.picks
  <2>1. attempt # 0 /\ Len(selected) < req.picks
    BY DEF Fill, MayFill, Inv
  <2>2. swaps' = swaps
    BY <1>1 DEF GoTo
  <2>. QED
    BY <2>1, <2>2 DEF Inv, TypeOK
<1>4. /\ selected' \in Seq(cands) /\ Len(selected') <= req.picks
      /\ OnePerMatch(selected') /\ \A i \in DOMAIN selected' : Likely(selected'[i])
  BY <1>1, <1>2, <1>3, AppendKeeps
<1>5. phase' \in {"swap", "fill"} /\ UNCHANGED <<cands, req, attempt, pool>>
  BY <1>1 DEF GoTo
<1>. QED
  BY <1>2, <1>3, <1>4, <1>5, SelectionKeeps DEF Phases

LEMMA SwapMarketKeeps == ASSUME Inv, SwapMarket PROVE Inv'
<1>1. PICK i \in DOMAIN selected : \E c \in Alternatives(i) : selected' = With(i, c)
  BY DEF SwapMarket
<1>2. PICK c \in Alternatives(i) : selected' = With(i, c)
  BY <1>1
<1>3. attempt \in 1..3 /\ swaps' \in 0..2 * req.picks
  <2>1. attempt # 0 /\ swaps < 2 * req.picks /\ swaps' = swaps + 1 /\ req' = req
    BY DEF SwapMarket, MaySwap, Inv
  <2>2. req.picks \in Nat /\ 2 * req.picks \in Nat
    BY RequestNumbers DEF Inv, TypeOK
  <2>. QED
    BY <2>1, <2>2 DEF Inv, TypeOK
<1>4. /\ c \in cands /\ Likely(c) /\ c.match = selected[i].match
      /\ AtMost(selected', req.max)
  BY <1>2, <1>3, EligibleLikely DEF Alternatives, Improves, Inv
<1>5. /\ selected' \in Seq(cands) /\ Len(selected') <= req.picks
      /\ OnePerMatch(selected') /\ \A j \in DOMAIN selected' : Likely(selected'[j])
  BY <1>2, <1>4, WithKeeps
<1>6. phase' = "swap" /\ UNCHANGED <<cands, req, attempt, pool>>
  BY DEF SwapMarket
<1>. QED
  BY <1>3, <1>4, <1>5, <1>6, SelectionKeeps DEF Phases

LEMMA SwapMatchKeeps == ASSUME Inv, SwapMatch PROVE Inv'
<1>1. selected' \in Better
  BY DEF SwapMatch
<1>2. attempt \in 1..3 /\ swaps' \in 0..2 * req.picks
  <2>1. attempt # 0 /\ swaps < 2 * req.picks /\ swaps' = swaps + 1 /\ req' = req
    BY DEF SwapMatch, MaySwap, Inv
  <2>2. req.picks \in Nat /\ 2 * req.picks \in Nat
    BY RequestNumbers DEF Inv, TypeOK
  <2>. QED
    BY <2>1, <2>2 DEF Inv, TypeOK
<1>3. PICK c \in Eligible(attempt) :
        /\ ~UsesMatch(selected, c.match)
        /\ selected' = IF Len(selected) < req.picks THEN Append(selected, c) ELSE With(Worst, c)
  BY <1>1 DEF Better, Extensions
<1>4. c \in cands /\ Likely(c)
  BY <1>2, EligibleLikely DEF Inv
<1>5. AtMost(selected', req.max)
  BY <1>1 DEF Better, Improves
<1>6. /\ selected' \in Seq(cands) /\ Len(selected') <= req.picks
      /\ OnePerMatch(selected') /\ \A j \in DOMAIN selected' : Likely(selected'[j])
  <2>1. CASE Len(selected) < req.picks
    BY <1>3, <1>4, <2>1, AppendKeeps
  <2>2. CASE ~(Len(selected) < req.picks)
    BY <1>3, <1>4, <2>2, WithKeeps
  <2>. QED
    BY <2>1, <2>2
<1>7. phase' = "swap" /\ UNCHANGED <<cands, req, attempt, pool>>
  BY DEF SwapMatch
<1>. QED
  BY <1>2, <1>5, <1>6, <1>7, SelectionKeeps DEF Phases

\* Since the selection is never worth too much, nothing is ever shrunk.
LEMMA NothingToShrink == ASSUME Inv PROVE ~TooMuch
<1>1. selected \in Seq(cands)
  BY DEF Inv, TypeOK
<1>2. CASE selected = <<>>
  BY <1>2 DEF TooMuch
<1>3. CASE selected # <<>>
  BY <1>3 DEF TooMuch, Inv, NeverTooMuch
<1>. QED
  BY <1>2, <1>3

\* The steps that leave the selection alone.
LEMMA QuietStepKeeps ==
  ASSUME Inv, EndFill \/ EndSwap \/ Accept \/ Shrink
  PROVE  Inv' /\ selected' = selected
<1>1. selected' = selected
  BY NothingToShrink DEF EndFill, EndSwap, Accept, Shrink
<1>2. /\ phase' \in Phases \ {"begin"} /\ attempt \in 1..3
      /\ UNCHANGED <<cands, req, attempt, pool, swaps>>
  BY NothingToShrink DEF EndFill, EndSwap, Accept, Shrink, GoTo, Phases, Inv, TypeOK
<1>3. swaps' \in 0..2 * req.picks
  BY <1>2 DEF Inv, TypeOK
<1>. QED
  BY <1>1, <1>2, <1>3, SelectionKeeps DEF Inv, TypeOK, NeverTooMuch

LEMMA InvStep == Inv /\ [Next]_vars => Inv'
<1>. SUFFICES ASSUME Inv, [Next]_vars PROVE Inv'
  OBVIOUS
<1>1. CASE Begin
  <2>1. CASE cands = {} /\ GoTo("done") /\ UNCHANGED selected
    BY <1>1, <2>1 DEF Begin, GoTo, Inv, TypeOK, Phases, NeverTooMuch, OnePerMatch, Likely
  <2>2. CASE StartAttempt(1)
    BY <2>2, StartAttemptKeeps
  <2>. QED
    BY <1>1, <2>1, <2>2 DEF Begin
<1>2. CASE Fill
  BY <1>2, FillKeeps
<1>3. CASE EndFill \/ EndSwap \/ Accept \/ Shrink
  BY <1>3, QuietStepKeeps
<1>4. CASE SwapMarket
  BY <1>4, SwapMarketKeeps
<1>5. CASE SwapMatch
  BY <1>5, SwapMatchKeeps
<1>6. CASE TryAgain
  <2>1. PICK a \in Again : StartAttempt(a)
    BY <1>6 DEF TryAgain
  <2>2. a \in 1..3
    BY <1>6 DEF Again, TryAgain, Inv, TypeOK
  <2>. QED
    BY <2>1, <2>2, StartAttemptKeeps
<1>7. CASE UNCHANGED vars
  BY <1>7 DEF vars, Inv, TypeOK, NeverTooMuch, OnePerMatch, Likely
<1>. QED
  BY <1>1, <1>2, <1>3, <1>4, <1>5, <1>6, <1>7 DEF Next

\* Every behaviour keeps the types: no selection gets longer than asked for.
THEOREM TypeCorrect == Spec => []TypeOK
<1>1. Inv => TypeOK
  BY DEF Inv
<1>. QED
  BY InvInit, InvStep, <1>1, PTL DEF Spec

\* No selection is ever worth more than asked for.
THEOREM NeverOverTheOdd == Spec => []NeverTooMuch
<1>1. Inv => NeverTooMuch
  BY DEF Inv
<1>. QED
  BY InvInit, InvStep, <1>1, PTL DEF Spec

\* Once in the interval, the selection is the answer.
THEOREM ReachedIsFinal == Spec => ReachedStays
<1>1. Inv /\ [Next]_vars => [InInterval(selected) => selected' = selected]_vars
  <2>. SUFFICES ASSUME Inv, Next, InInterval(selected) PROVE selected' = selected
    BY DEF vars
  <2>1. AtLeast(selected, req.min)
    BY DEF InInterval
  <2>2. CASE Begin
    BY <2>2 DEF Begin, StartAttempt, Inv
  <2>3. CASE Fill
    BY <2>3 DEF Fill, MayFill
  <2>4. CASE EndFill \/ EndSwap \/ Accept \/ Shrink
    BY <2>4, QuietStepKeeps
  <2>5. CASE SwapMarket \/ SwapMatch
    BY <2>1, <2>5 DEF SwapMarket, SwapMatch, MaySwap
  <2>6. CASE TryAgain
    BY <2>1, <2>6 DEF TryAgain, Again
  <2>. QED
    BY <2>2, <2>3, <2>4, <2>5, <2>6 DEF Next
<1>. QED
  BY InvInit, InvStep, <1>1, PTL DEF Spec, ReachedStays

-----------------------------------------------------------------------------
\* After the swapping of an attempt no swap is left that helps, unless the loop ran
\* out of passes.
Settled ==
  phase \in {"judge", "shrink", "done"} /\ MaySwap
    => Better = {} /\ \A i \in DOMAIN selected : Alternatives(i) = {}

LEMMA SettledInit == Init => Settled
BY DEF Init, Settled

LEMMA SettledStep == Inv /\ Settled /\ [Next]_vars => Settled'
<1>. SUFFICES ASSUME Inv, Settled, [Next]_vars PROVE Settled'
  OBVIOUS
<1>1. ASSUME UNCHANGED <<cands, req, attempt, selected, swaps>>
      PROVE  /\ MaySwap' = MaySwap /\ Better' = Better
             /\ DOMAIN selected' = DOMAIN selected
             /\ \A i : Alternatives(i)' = Alternatives(i)
  BY <1>1 DEF MaySwap, Better, Extensions, Improves, Eligible, Alternatives, With, Worst
<1>2. CASE Begin
  <2>1. phase' = "fill" \/ selected' = <<>>
    BY <1>2 DEF Begin, StartAttempt, Inv
  <2>. QED
    BY <2>1 DEF Settled, MaySwap
<1>3. CASE Fill \/ EndFill \/ SwapMarket \/ SwapMatch \/ TryAgain
  <2>1. phase' \in {"fill", "swap"}
    BY <1>3 DEF Fill, EndFill, SwapMarket, SwapMatch, TryAgain, StartAttempt, GoTo
  <2>. QED
    BY <2>1 DEF Settled
<1>4. CASE EndSwap
  <2>1. MaySwap => Better = {} /\ \A i \in DOMAIN selected : Alternatives(i) = {}
    BY <1>4 DEF EndSwap
  <2>2. UNCHANGED <<cands, req, attempt, selected, swaps>>
    BY <1>4 DEF EndSwap, GoTo
  <2>. QED
    BY <1>1, <2>1, <2>2 DEF Settled
<1>5. CASE Accept \/ Shrink
  <2>1. phase \in {"judge", "shrink"} /\ UNCHANGED <<cands, req, attempt, selected, swaps>>
    BY <1>5, NothingToShrink DEF Accept, Shrink, GoTo
  <2>. QED
    BY <1>1, <2>1 DEF Settled
<1>6. CASE UNCHANGED vars
  BY <1>1, <1>6 DEF vars, Settled
<1>. QED
  BY <1>2, <1>3, <1>4, <1>5, <1>6 DEF Next

\* An attempt that found nothing had no candidate in its pool that fits alone, and its
\* pool is one of the candidates that come first among those of their match.
Unfilled ==
  /\ attempt = 0 /\ phase # "begin" => cands = {}
  /\ attempt # 0 => pool \in BestPerMatch(Eligible(attempt), req.min)
  /\ phase \in {"swap", "judge", "shrink", "done"} /\ selected = <<>>
       /\ ~AtLeast(selected, req.min)
       => \A c \in pool : ~AtMost(<<c>>, req.max)

LEMMA UnfilledInit == Init => Unfilled
BY DEF Init, Unfilled

\* The filling of an empty selection ends when nothing fits.
LEMMA FillingUnfilled ==
  ASSUME Inv, Unfilled, Fill \/ EndFill
  PROVE  Unfilled'
<1>1. /\ UNCHANGED <<cands, req, attempt, pool>> /\ attempt # 0
      /\ selected \in Seq(cands) /\ req.picks \in 1..10
  BY RequestNumbers DEF Fill, EndFill, GoTo, Inv, TypeOK
<1>2. Eligible(attempt)' = Eligible(attempt)
  BY <1>1 DEF Eligible
<1>3. (attempt # 0 => pool \in BestPerMatch(Eligible(attempt), req.min))'
  BY <1>1, <1>2 DEF Unfilled
<1>4. CASE Fill
  <2>1. selected' # <<>>
    BY <1>1, <1>4 DEF Fill
  <2>. QED
    BY <1>1, <1>3, <2>1 DEF Unfilled
<1>5. CASE EndFill
  <2>1. selected' = selected /\ ~MayFill
    BY <1>5 DEF EndFill
  <2>. SUFFICES ASSUME selected = <<>>, ~AtLeast(selected, req.min), NEW c \in pool
                PROVE  ~AtMost(<<c>>, req.max)
    BY <1>1, <1>3, <2>1 DEF Unfilled
  <2>2. Len(selected) < req.picks /\ ~InInterval(selected)
    BY <1>1 DEF InInterval
  <2>3. c \notin Fits
    BY <2>1, <2>2 DEF MayFill
  <2>4. ~UsesMatch(selected, c.match)
    BY DEF UsesMatch
  <2>5. Append(selected, c) = <<c>>
    OBVIOUS
  <2>. QED
    BY <2>3, <2>4, <2>5 DEF Fits
<1>. QED
  BY <1>4, <1>5

\* A swap changes a selection that is not empty, into one that is not.
LEMMA SwappingUnfilled ==
  ASSUME Inv, Unfilled, SwapMarket \/ SwapMatch
  PROVE  Unfilled'
<1>1. /\ UNCHANGED <<cands, req, attempt, pool>> /\ attempt # 0
      /\ selected \in Seq(cands) /\ selected # <<>>
  BY DEF SwapMarket, SwapMatch, MaySwap, Inv, TypeOK
<1>2. Eligible(attempt)' = Eligible(attempt)
  BY <1>1 DEF Eligible
<1>3. \A i, c : With(i, c) # <<>>
  <2>. SUFFICES ASSUME NEW i, NEW c PROVE With(i, c) # <<>>
    OBVIOUS
  <2>1. DOMAIN With(i, c) = DOMAIN selected
    BY DEF With
  <2>2. DOMAIN selected # {} /\ DOMAIN <<>> = {}
    BY <1>1
  <2>. QED
    BY <2>1, <2>2
<1>4. \A c : Append(selected, c) # <<>>
  <2>1. Len(selected) \in Nat
    BY <1>1
  <2>2. \A c : DOMAIN Append(selected, c) = 1..Len(selected) + 1
    BY <1>1
  <2>3. 1 \in 1..Len(selected) + 1 /\ DOMAIN <<>> = {}
    BY <2>1
  <2>. QED
    BY <2>2, <2>3
<1>5. selected' # <<>>
  BY <1>3, <1>4 DEF SwapMarket, SwapMatch, Better, Extensions
<1>. QED
  BY <1>1, <1>2, <1>5 DEF Unfilled

LEMMA UnfilledStep == Inv /\ Unfilled /\ [Next]_vars => Unfilled'
<1>. SUFFICES ASSUME Inv, Unfilled, [Next]_vars PROVE Unfilled'
  OBVIOUS
<1>1. ASSUME NEW a \in 1..3, StartAttempt(a)
      PROVE  Unfilled'
  <2>1. pool' \in BestPerMatch(Eligible(a), req.min) /\ UNCHANGED <<cands, req>>
    BY <1>1 DEF StartAttempt
  <2>2. attempt' = a /\ a # 0 /\ phase' = "fill"
    BY <1>1 DEF StartAttempt
  <2>3. (pool \in BestPerMatch(Eligible(attempt), req.min))'
    BY <2>1, <2>2 DEF Eligible
  <2>. QED
    BY <2>2, <2>3 DEF Unfilled
<1>2. CASE Begin
  <2>1. CASE StartAttempt(1)
    BY <1>1, <2>1
  <2>2. CASE cands = {} /\ GoTo("done") /\ UNCHANGED selected
    <3>1. attempt' = 0 /\ pool' = {} /\ cands' = {}
      BY <1>2, <2>2 DEF Begin, GoTo, Inv, TypeOK
    <3>. QED
      BY <3>1 DEF Unfilled
  <2>. QED
    BY <1>2, <2>1, <2>2 DEF Begin
<1>3. CASE TryAgain
  <2>1. PICK a \in Again : StartAttempt(a)
    BY <1>3 DEF TryAgain
  <2>2. a \in 1..3
    BY <1>3 DEF Again, TryAgain, Inv, TypeOK
  <2>. QED
    BY <1>1, <2>1, <2>2
<1>4. ASSUME UNCHANGED <<cands, req, attempt, pool, selected>>,
             \/ phase' = phase
             \/ phase \in {"swap", "judge", "shrink"} /\ phase' # "begin"
      PROVE  Unfilled'
  <2>1. Eligible(attempt)' = Eligible(attempt)
    BY <1>4 DEF Eligible
  <2>. QED
    BY <1>4, <2>1 DEF Unfilled
<1>5. CASE EndSwap \/ Accept \/ Shrink
  BY <1>4, <1>5, NothingToShrink DEF EndSwap, Accept, Shrink, GoTo
<1>6. CASE UNCHANGED vars
  BY <1>4, <1>6 DEF vars
<1>. QED
  BY <1>2, <1>3, <1>5, <1>6, FillingUnfilled, SwappingUnfilled DEF Next

\* Whatever the candidates, an answer worth less than asked for is one that no
\* single fill or swap helps, unless swapTowardInterval ran out of passes; if it is
\* empty, each match has a candidate that came first and is too much.
THEOREM NoSwapHelps == Spec => []CannotBeHelped
<1>1. Inv /\ Settled /\ Unfilled => CannotBeHelped
  <2>. SUFFICES ASSUME Inv, Settled, Unfilled, phase = "done", ~AtLeast(selected, req.min),
                       swaps # 2 * req.picks
                PROVE  \/ /\ selected # <<>>
                          /\ \A c \in Eligible(attempt), i \in DOMAIN selected :
                               selected[i].match = c.match /\ selected[i].market # c.market
                                 => ~Improves(With(i, c))
                          /\ \A c \in Eligible(attempt) :
                               ~UsesMatch(selected, c.match)
                                 => ~Improves(IF Len(selected) < req.picks
                                              THEN Append(selected, c) ELSE With(Worst, c))
                       \/ /\ selected = <<>>
                          /\ cands # {} => \A c \in Eligible(attempt) :
                               \E d \in Firsts(Eligible(attempt), c.match, req.min) :
                                 ~AtMost(<<d>>, req.max)
    BY DEF CannotBeHelped
  <2>1. CASE selected # <<>>
    <3>1. MaySwap
      <4>1. swaps \in 0..2 * req.picks /\ req.picks \in 1..10
        BY RequestNumbers DEF Inv, TypeOK
      <4>. QED
        BY <2>1, <4>1 DEF MaySwap
    <3>2. Better = {} /\ \A i \in DOMAIN selected : Alternatives(i) = {}
      BY <3>1 DEF Settled
    <3>3. ASSUME NEW c \in Eligible(attempt), NEW i \in DOMAIN selected,
                 selected[i].match = c.match, selected[i].market # c.market
          PROVE  ~Improves(With(i, c))
      BY <3>2, <3>3 DEF Alternatives
    <3>4. ASSUME NEW c \in Eligible(attempt), ~UsesMatch(selected, c.match)
          PROVE  ~Improves(IF Len(selected) < req.picks
                           THEN Append(selected, c) ELSE With(Worst, c))
      BY <3>2, <3>4 DEF Better, Extensions
    <3>. QED
      BY <2>1, <3>3, <3>4
  <2>2. CASE selected = <<>> /\ cands # {}
    <3>. DEFINE S == Eligible(attempt)
                ms == {c.match : c \in S}
    <3>1. pool \in BestPerMatch(S, req.min)
      BY <2>2 DEF Unfilled
    <3>2. PICK f \in [ms -> S] :
            (\A m \in ms : f[m] \in Firsts(S, m, req.min)) /\ pool = {f[m] : m \in ms}
      BY <3>1 DEF BestPerMatch
    <3>3. ASSUME NEW c \in S
          PROVE  \E d \in Firsts(S, c.match, req.min) : ~AtMost(<<d>>, req.max)
      <4>1. c.match \in ms
        OBVIOUS
      <4>2. f[c.match] \in Firsts(S, c.match, req.min) /\ f[c.match] \in pool
        BY <3>2, <4>1
      <4>. QED
        BY <2>2, <4>2 DEF Unfilled
    <3>. QED
      BY <2>2, <3>3
  <2>3. CASE selected = <<>> /\ cands = {}
    BY <2>3
  <2>. QED
    BY <2>1, <2>2, <2>3
<1>. QED
  BY InvInit, InvStep, SettledInit, SettledStep, UnfilledInit, UnfilledStep, <1>1, PTL
     DEF Spec

-----------------------------------------------------------------------------
\* How much the search can still do: attempts left, and in an attempt places to fill,
\* passes of the swaps, and what follows them.
StepsLeft ==
  50 * (3 - attempt) +
  CASE phase = "begin"  -> 46
    [] phase = "fill"   -> 34 + req.picks - Len(selected)
    [] phase = "swap"   -> 4 + 2 * req.picks - swaps
    [] phase = "judge"  -> 3
    [] phase = "shrink" -> 2
    [] phase = "done"   -> 1

LEMMA StepsLeftBound == ASSUME Inv PROVE StepsLeft \in 1..196
<1>1. /\ attempt \in 0..3 /\ req.picks \in 1..10 /\ swaps \in 0..2 * req.picks
      /\ Len(selected) \in Nat /\ Len(selected) <= req.picks /\ phase \in Phases
  BY RequestNumbers DEF Inv, TypeOK
<1>. DEFINE n == Len(selected)
            k == req.picks
<1>2. n \in Nat /\ n <= k /\ k \in 1..10 /\ swaps \in 0..2 * k
  BY <1>1
<1>. HIDE DEF n, k
<1>3. CASE phase = "begin"
  <2>1. StepsLeft = 50 * (3 - 0) + 46
    BY <1>3 DEF StepsLeft, Inv
  <2>. QED
    BY <2>1
<1>4. CASE phase = "fill"
  <2>1. StepsLeft = 50 * (3 - attempt) + (34 + k - n) /\ attempt \in 1..3
    BY <1>1, <1>4 DEF StepsLeft, n, k, Inv
  <2>. QED
    BY <1>2, <2>1
<1>5. CASE phase = "swap"
  <2>1. StepsLeft = 50 * (3 - attempt) + (4 + 2 * k - swaps) /\ attempt \in 1..3
    BY <1>1, <1>5 DEF StepsLeft, k, Inv
  <2>. QED
    BY <1>2, <2>1
<1>6. CASE phase \in {"judge", "shrink", "done"}
  <2>1. PICK d \in 1..3 : StepsLeft = 50 * (3 - attempt) + d
    BY <1>6 DEF StepsLeft
  <2>. QED
    BY <1>1, <2>1
<1>. QED
  BY <1>1, <1>3, <1>4, <1>5, <1>6 DEF Phases

\* An attempt that begins has less to do than what came before it.
LEMMA AttemptCounts ==
  ASSUME Inv, NEW a \in 1..3, StartAttempt(a), a = attempt + 1, phase \in {"begin", "judge"}
  PROVE  StepsLeft' < StepsLeft
<1>1. attempt \in 0..2 /\ req.picks \in 1..10
  BY RequestNumbers DEF Inv, TypeOK
<1>2. phase' = "fill" /\ attempt' = attempt + 1 /\ Len(selected') = 0 /\ req' = req
  BY DEF StartAttempt
<1>3. StepsLeft' = 50 * (3 - (attempt + 1)) + (34 + req.picks - 0)
  BY <1>2 DEF StepsLeft
<1>4. StepsLeft = 50 * (3 - attempt) + 46 \/ StepsLeft = 50 * (3 - attempt) + 3
  BY DEF StepsLeft
<1>. QED
  BY <1>1, <1>3, <1>4

LEMMA FillCounts == ASSUME Inv, Fill \/ EndFill PROVE StepsLeft' < StepsLeft
<1>. DEFINE n == Len(selected)
            k == req.picks
            rest == 50 * (3 - attempt)
<1>1. attempt \in 0..3 /\ n \in Nat /\ n <= k /\ k \in 1..10 /\ swaps \in 0..2 * k
  BY RequestNumbers DEF Inv, TypeOK
<1>2. rest \in Nat
  BY <1>1
<1>3. StepsLeft = rest + (34 + k - n)
  BY DEF Fill, EndFill, StepsLeft
<1>4. UNCHANGED <<attempt, req, swaps>> /\ phase' \in {"fill", "swap"}
  BY DEF Fill, EndFill, GoTo
<1>5. CASE phase' = "swap"
  <2>1. StepsLeft' = rest + (4 + 2 * k - swaps)
    BY <1>4, <1>5 DEF StepsLeft
  <2>. HIDE DEF n, k, rest
  <2>. QED
    BY <1>1, <1>2, <1>3, <2>1
<1>6. CASE phase' = "fill"
  <2>1. PICK c \in Fits : selected' = Append(selected, c)
    BY <1>6 DEF Fill, EndFill, GoTo
  <2>2. Len(selected') = n + 1
    BY <2>1 DEF Inv, TypeOK
  <2>3. StepsLeft' = rest + (34 + k - (n + 1))
    BY <1>4, <1>6, <2>2 DEF StepsLeft
  <2>. HIDE DEF n, k, rest
  <2>. QED
    BY <1>1, <1>2, <1>3, <2>3
<1>. QED
  BY <1>4, <1>5, <1>6

LEMMA SwapCounts ==
  ASSUME Inv, SwapMarket \/ SwapMatch \/ EndSwap
  PROVE  StepsLeft' < StepsLeft
<1>. DEFINE k == req.picks
            rest == 50 * (3 - attempt)
<1>1. attempt \in 0..3 /\ k \in 1..10 /\ swaps \in 0..2 * k
  BY RequestNumbers DEF Inv, TypeOK
<1>2. rest \in Nat
  BY <1>1
<1>3. StepsLeft = rest + (4 + 2 * k - swaps)
  BY DEF SwapMarket, SwapMatch, EndSwap, StepsLeft
<1>4. CASE SwapMarket \/ SwapMatch
  <2>1. StepsLeft' = rest + (4 + 2 * k - (swaps + 1))
    BY <1>4 DEF SwapMarket, SwapMatch, StepsLeft
  <2>. HIDE DEF k, rest
  <2>. QED
    BY <1>1, <1>2, <1>3, <2>1
<1>5. CASE EndSwap
  <2>1. StepsLeft' = rest + 3
    BY <1>5 DEF EndSwap, GoTo, StepsLeft
  <2>. HIDE DEF k, rest
  <2>. QED
    BY <1>1, <1>2, <1>3, <2>1
<1>. QED
  BY <1>4, <1>5

\* What comes after the last swap of an attempt.
LEMMA EndCounts == ASSUME Inv, Accept \/ Shrink PROVE StepsLeft' < StepsLeft
<1>. DEFINE rest == 50 * (3 - attempt)
<1>1. attempt \in 0..3 /\ rest \in Nat
  BY DEF Inv, TypeOK
<1>2. CASE Accept
  <2>1. StepsLeft = rest + 3 /\ StepsLeft' = rest + 2
    BY <1>2 DEF Accept, GoTo, StepsLeft
  <2>. HIDE DEF rest
  <2>. QED
    BY <1>1, <2>1
<1>3. CASE Shrink
  <2>1. StepsLeft = rest + 2 /\ StepsLeft' = rest + 1
    BY <1>3, NothingToShrink DEF Shrink, GoTo, StepsLeft
  <2>. HIDE DEF rest
  <2>. QED
    BY <1>1, <2>1
<1>. QED
  BY <1>2, <1>3

\* Each turn of pickForOddsTarget's loops leaves it less to do, and it never has more
\* than 196 turns to go, whatever the candidates and the request: no retry, no swap
\* back and forth makes it loop.
THEOREM EveryTurnCounts == Spec => [](StepsLeft \in 1..196) /\ [][StepsLeft' < StepsLeft]_vars
<1>1. Inv => StepsLeft \in 1..196
  BY StepsLeftBound
<1>2. Inv /\ [Next]_vars => [StepsLeft' < StepsLeft]_vars
  <2>. SUFFICES ASSUME Inv, Next PROVE StepsLeft' < StepsLeft
    OBVIOUS
  <2>1. CASE Begin
    <3>1. CASE StartAttempt(1)
      BY <2>1, <3>1, AttemptCounts DEF Begin, Inv
    <3>2. CASE GoTo("done")
      <4>1. StepsLeft = 50 * (3 - 0) + 46 /\ StepsLeft' = 50 * (3 - 0) + 1
        BY <2>1, <3>2 DEF Begin, GoTo, Inv, StepsLeft
      <4>. QED
        BY <4>1
    <3>. QED
      BY <2>1, <3>1, <3>2 DEF Begin
  <2>2. CASE TryAgain
    <3>1. PICK a \in Again : StartAttempt(a)
      BY <2>2 DEF TryAgain
    <3>2. attempt \in 1..3 /\ phase = "judge"
      BY <2>2 DEF TryAgain, Inv, TypeOK
    <3>3. a \in 1..3 /\ a = attempt + 1
      BY <3>2 DEF Again
    <3>. QED
      BY <3>1, <3>2, <3>3, AttemptCounts
  <2>. QED
    BY <2>1, <2>2, FillCounts, SwapCounts, EndCounts DEF Next
<1>. QED
  BY InvInit, InvStep, <1>1, <1>2, PTL DEF Spec

-----------------------------------------------------------------------------
\* When the picker is done, its selection is playable.
LEMMA DoneIsPlayable == ASSUME Inv PROVE Playable(selected, cands, req)
BY DEF Inv, TypeOK, NeverTooMuch, Playable, Likely

Shown == IF phase = "done" THEN <<selected>> ELSE <<>>

LEMMA PickInit == Init => P!Init
BY DEF Init, P!Init

\* Every step of the picker is an answer or none of the user's business.
LEMMA PickStep ==
  ASSUME Inv, Inv', [Next]_vars
  PROVE  [P!Answer]_<<cands, req, Shown>>
<1>1. UNCHANGED <<cands, req>>
  BY DEF Next, vars, Begin, StartAttempt, GoTo, Fill, EndFill, SwapMarket, SwapMatch, EndSwap,
         TryAgain, Accept, Shrink
<1>2. CASE phase = "done"
  <2>1. phase' = phase /\ selected' = selected
    BY <1>2 DEF Next, vars, Begin, Fill, EndFill, SwapMarket, SwapMatch, EndSwap, TryAgain,
                Accept, Shrink
  <2>. QED
    BY <1>1, <2>1 DEF Shown
<1>3. CASE phase # "done" /\ phase' # "done"
  <2>1. Shown' = Shown
    BY <1>3 DEF Shown
  <2>. QED
    BY <1>1, <2>1
<1>4. CASE phase # "done" /\ phase' = "done"
  <2>1. Playable(selected', cands, req)
    BY <1>1, DoneIsPlayable, <1>4 DEF Inv, TypeOK, NeverTooMuch, Playable, Likely
  <2>2. Shown = <<>> /\ Shown' = <<selected'>>
    BY <1>4 DEF Shown
  <2>. QED
    BY <1>1, <1>4, <2>1, <2>2 DEF P!Answer, Shown
<1>. QED
  BY <1>2, <1>3, <1>4

\* Every answer is a playable one of the request's candidates: pickForOddsTarget
\* implements CouponPick.
THEOREM PickerImplementsPick == Spec => ImplementsPick
<1>1. Inv /\ Inv' /\ [Next]_vars => [P!Answer]_<<cands, req, Shown>>
  BY PickStep
<1>. QED
  BY InvInit, InvStep, PickInit, <1>1, PTL DEF Spec, ImplementsPick, P!Spec, Shown
=============================================================================
