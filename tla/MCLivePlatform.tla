---------------------------- MODULE MCLivePlatform ----------------------------
EXTENDS LivePlatform, TLC

CONSTANTS m1, m2, w1, w2, r1, r2

\* Every match is played on the first day.
MCKickoff == [m \in Matches |-> 0]

\* At most one row for the poller and for Analyze, more than they can save for readers.
MCMaxSaved == [o \in Origins |-> IF o = "read" THEN 4 ELSE 1]

\* The date jobs differ only in what starts them: the first one stands for all.
OneDateJob == \A w \in Workers : run[w].pc = "idle" \/ run[w].job \in {"boot", "live"}

\* What the properties of predictions do not look at stays as it is: the events, the
\* live keys and the date of the last sync.
QuietCollector ==
  /\ \A m \in Matches : published[m] = {} /\ ~liveKey[m]
  /\ booted => lastSync = today

\* One oddity per match: a failed read of the table, a lost run or a row that no read
\* has saved.
OneOfAKind ==
  \A m \in Matches :
    misreads + lost[m] + Cardinality(SavedBy(m, "poll") \cup SavedBy(m, "analyze")) <= 1

Symmetry == Permutations(Readers) \cup Permutations(Workers)
=============================================================================
