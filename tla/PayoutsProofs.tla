---------------------------- MODULE PayoutsProofs ----------------------------
(***************************************************************************)
(* Proofs about Payouts, for any agents, commissions, expenses, keys and   *)
(* callers.                                                                *)
(*                                                                         *)
(* The argument: a key that a transaction has inserted is in no committed  *)
(* payout and in no other open one (KeyInv); and a commission that is not  *)
(* irregular is still earned exactly when the one payout that is between   *)
(* its sum and its update has summed it (SumInv), so the update, which     *)
(* runs the query again, settles what was summed.                          *)
(***************************************************************************)
EXTENDS Payouts, TLAPS, FiniteSetTheorems, SequenceTheorems

AfterSum == {"deducting", "inserting", "settling"}

\* An inserted key is nobody else's.
KeyInv ==
  \A p \in Processes : run[p].stage = "settling" /\ run[p].payout.key # NoKey =>
    /\ \A i \in DOMAIN payouts : payouts[i].key # run[p].payout.key
    /\ \A o \in Processes \ {p} : run[o].stage = "settling" => run[o].payout.key # run[p].payout.key

\* A sum still stands, and no two payouts hold the same earned commission.
SumInv ==
  \A p \in Processes : run[p].stage \in AfterSum =>
    \A c \in Commissions \ irregular :
      /\ c \in run[p].payout.gross <=> AgentOf[c] = run[p].payout.agent /\ commission[c] = "EARNED"
      /\ c \in run[p].payout.gross =>
           \A o \in Processes \ {p} : run[o].stage \in AfterSum => c \notin run[o].payout.gross

IInv == TypeOK /\ KeyInv /\ SumInv /\ KeysAreIdempotent /\ PaidWhenSettled

-----------------------------------------------------------------------------
\* A payout that is under way has an agent, a key and its sums.
LEMMA RunShape ==
  ASSUME NEW r \in Run, r.stage # "idle"
  PROVE  /\ r # Idle
         /\ r.stage \in Stages
         /\ r.payout \in Payout
         /\ r.payout.agent \in Agents
         /\ r = [stage |-> r.stage, payout |-> r.payout]
BY DEF Run, Idle, Payout

\* Appending a payout: the old ones stay, the new one is last.
LEMMA AppendPayout ==
  ASSUME NEW s \in Seq(Payout), NEW r \in Payout
  PROVE  /\ Append(s, r) \in Seq(Payout)
         /\ Len(s) \in Nat
         /\ Len(Append(s, r)) = Len(s) + 1
         /\ DOMAIN s = 1 .. Len(s)
         /\ DOMAIN Append(s, r) = 1 .. Len(s) + 1
         /\ \A i \in 1 .. Len(s) : Append(s, r)[i] = s[i]
         /\ Append(s, r)[Len(s) + 1] = r
<1>1. /\ Append(s, r) \in Seq(Payout)
      /\ Len(Append(s, r)) = Len(s) + 1
      /\ \A i \in 1 .. Len(s) : Append(s, r)[i] = s[i]
      /\ Append(s, r)[Len(s) + 1] = r
  BY AppendProperties
<1>2. Len(s) \in Nat /\ DOMAIN s = 1 .. Len(s)
  BY LenProperties
<1>3. DOMAIN Append(s, r) = 1 .. Len(s) + 1
  BY <1>1, LenProperties
<1>4. QED
  BY <1>1, <1>2, <1>3

\* A committed payout is one more payment of what it summed, and of nothing
\* else.
LEMMA PaidOnceMore ==
  ASSUME NEW s \in Seq(Payout), NEW r \in Payout, NEW c
  PROVE  Cardinality(Paying(Append(s, r), c)) = Cardinality(Paying(s, c)) + IF c \in r.gross THEN 1 ELSE 0
<1> DEFINE old == Paying(s, c)
           new == Paying(Append(s, r), c)
           n == Len(s) + 1
<1>1. /\ Len(s) \in Nat
      /\ DOMAIN s = 1 .. Len(s)
      /\ DOMAIN Append(s, r) = 1 .. n
      /\ \A i \in 1 .. Len(s) : Append(s, r)[i] = s[i]
      /\ Append(s, r)[n] = r
  BY AppendPayout
<1>2. IsFiniteSet(old) /\ n \notin old
  <2>1. IsFiniteSet(1 .. Len(s))
    BY <1>1, FS_Interval
  <2>2. old \in SUBSET (1 .. Len(s))
    BY <1>1 DEF Paying
  <2>3. QED
    BY <1>1, <2>1, <2>2, FS_Subset
<1>3. Cardinality(old) \in Nat
  BY <1>2, FS_CardinalityType
<1>4. 1 .. n = 1 .. Len(s) \cup {n}
  BY <1>1
<1>5. ASSUME c \in r.gross PROVE Cardinality(new) = Cardinality(old) + 1
  <2>1. new = old \cup {n}
    BY <1>1, <1>4, <1>5 DEF Paying
  <2> HIDE DEF old, new
  <2>2. QED
    BY <1>2, <2>1, FS_AddElement
<1>6. ASSUME c \notin r.gross PROVE Cardinality(new) = Cardinality(old)
  <2>1. new = old
    BY <1>1, <1>4, <1>6 DEF Paying
  <2>2. QED
    BY <2>1
<1> HIDE DEF old, new
<1>7. Cardinality(new) = Cardinality(old) + IF c \in r.gross THEN 1 ELSE 0
  BY <1>3, <1>5, <1>6
<1>8. QED
  BY <1>7 DEF old, new

\* The inductive invariant holds at the start.
LEMMA InitIInv == Init => IInv
<1> SUFFICES ASSUME Init PROVE IInv
  OBVIOUS
<1> USE DEF Init
<1>1. TypeOK
  <2>1. Idle \in Run
    BY DEF Run
  <2>2. payouts \in Seq(Payout) /\ Len(payouts) = 0
    OBVIOUS
  <2>3. batch \in [todo : SUBSET Agents, retries : 0..MaxRetries]
    BY PayoutsAssumption
  <2>4. Celery \in Processes
    BY DEF Processes
  <2>5. QED
    BY <2>1, <2>2, <2>3, <2>4, PayoutsAssumption DEF TypeOK, CommissionStatus
<1>2. KeyInv /\ SumInv
  BY DEF KeyInv, SumInv, AfterSum, Idle
<1>3. KeysAreIdempotent
  BY DEF KeysAreIdempotent
<1>4. PaidWhenSettled
  <2>1. ASSUME NEW c \in Commissions PROVE TimesPaid(c) = 0
    <3>1. Paying(payouts, c) = {}
      BY DEF Paying
    <3>2. QED
      BY <3>1, FS_EmptySet DEF TimesPaid
  <2>2. QED
    BY <2>1 DEF PaidWhenSettled
<1>5. QED
  BY <1>1, <1>2, <1>3, <1>4 DEF IInv

-----------------------------------------------------------------------------
\* A process that gives up leaves nothing behind.
LEMMA FinishIInv ==
  ASSUME IInv, NEW p \in Processes, Finish(p),
         UNCHANGED <<commission, approved, payouts, irregular>>,
         batch' \in [todo : SUBSET Agents, retries : 0..MaxRetries],
         p # Celery => batch' = batch
  PROVE  IInv'
<1> USE DEF IInv, Finish
<1>1. /\ run' \in [Processes -> Run]
      /\ run'[p] = Idle
      /\ \A o \in Processes \ {p} : run'[o] = run[o]
  BY DEF TypeOK, Run
<1>2. TypeOK'
  BY <1>1 DEF TypeOK, Processes
<1>3. KeyInv' /\ SumInv'
  BY <1>1 DEF KeyInv, SumInv, AfterSum, Idle
<1>4. KeysAreIdempotent' /\ PaidWhenSettled'
  BY DEF KeysAreIdempotent, PaidWhenSettled, TimesPaid, Paying
<1>5. QED
  BY <1>2, <1>3, <1>4

\* A payout that starts has summed nothing yet.
LEMMA StartIInv ==
  ASSUME IInv, NEW p \in Processes, NEW a \in Agents, NEW key \in Keys \cup {NoKey, EmptyKey},
         Start(p, a, key), p = Celery => a \in batch.todo /\ key = NoKey,
         UNCHANGED <<commission, approved, payouts, batch, irregular>>
  PROVE  IInv'
<1> USE DEF IInv
<1> DEFINE q == [agent |-> a, key |-> key, gross |-> {}, deducted |-> {}]
           r == [stage |-> "summing", payout |-> q]
<1>1. r \in Run /\ r.stage = "summing" /\ r.payout = q /\ q.agent = a /\ q.key = key
  BY DEF Run, Stages, Payout
<1>2. run' = [run EXCEPT ![p] = r]
  BY DEF Start, Proceed
<1> HIDE DEF q, r
<1>3. TypeOK'
  BY <1>1, <1>2 DEF TypeOK
<1>4. KeyInv' /\ SumInv'
  BY <1>1, <1>2 DEF KeyInv, SumInv, AfterSum, TypeOK
<1>5. KeysAreIdempotent' /\ PaidWhenSettled'
  BY DEF KeysAreIdempotent, PaidWhenSettled, TimesPaid, Paying
<1>6. QED
  BY <1>3, <1>4, <1>5

\* The sum of the commissions: what it finds is earned, and what another open
\* payout of the agent may have found becomes irregular.
LEMMA SumCommissionsIInv ==
  ASSUME IInv, NEW p \in Processes, SumCommissions(p)
  PROVE  IInv'
<1> USE DEF IInv
<1> DEFINE a == run[p].payout.agent
           q == [run[p].payout EXCEPT !.gross = EarnedBy(a)]
           r == [stage |-> "deducting", payout |-> q]
<1>1. run[p] \in Run /\ run[p].stage = "summing"
  BY DEF SumCommissions, TypeOK
<1>2. run[p] # Idle /\ run[p].payout \in Payout /\ a \in Agents
  BY <1>1, RunShape
<1>3. q \in Payout /\ q.agent = a /\ q.key = run[p].payout.key /\ q.gross = EarnedBy(a)
  BY <1>2 DEF Payout, EarnedBy
<1>4. r \in Run /\ r.stage = "deducting" /\ r.payout = q
  BY <1>3 DEF Run, Stages
<1>5. run' = [run EXCEPT ![p] = r]
  BY DEF SumCommissions, Proceed
<1> HIDE DEF q, r
<1>6. TypeOK'
  BY <1>2, <1>3, <1>4, <1>5 DEF TypeOK, SumCommissions, EarnedBy
<1>7. KeyInv'
  BY <1>4, <1>5 DEF KeyInv, SumCommissions, TypeOK
<1>8. SumInv'
  <2>1. /\ UNCHANGED commission
        /\ \A o \in Processes \ {p} : run'[o] = run[o]
        /\ run'[p].stage = "deducting" /\ run'[p].payout = q
        /\ irregular \subseteq irregular'
    BY <1>4, <1>5 DEF SumCommissions, TypeOK
  <2>2. ASSUME NEW o \in Processes \ {p}, run[o].stage \in AfterSum,
               NEW c \in Commissions \ irregular', c \in run[o].payout.gross
        PROVE  c \notin q.gross
    <3>1. AgentOf[c] = run[o].payout.agent
      BY <2>1, <2>2 DEF SumInv
    <3>2. CASE run[o].payout.agent = a
      BY <1>3, <2>2, <3>2 DEF SumCommissions, Between, AfterSum
    <3>3. CASE run[o].payout.agent # a
      BY <1>3, <3>1, <3>3 DEF EarnedBy
    <3>4. QED
      BY <3>2, <3>3
  <2>3. QED
    BY <1>3, <2>1, <2>2 DEF SumInv, AfterSum, EarnedBy
<1>9. KeysAreIdempotent'
  BY DEF KeysAreIdempotent, SumCommissions
<1>10. PaidWhenSettled'
  BY DEF PaidWhenSettled, TimesPaid, SumCommissions
<1>11. QED
  BY <1>6, <1>7, <1>8, <1>9, <1>10

\* The sum of the expenses, and the insert: the same payout goes on.
LEMMA ProceedIInv ==
  ASSUME IInv, NEW p \in Processes, NEW q \in Payout, NEW stage \in {"inserting", "settling"},
         run[p].stage \in AfterSum, Proceed(p, stage, q),
         q.agent = run[p].payout.agent, q.key = run[p].payout.key, q.gross = run[p].payout.gross,
         stage = "settling" /\ q.key # NoKey =>
           /\ \A i \in DOMAIN payouts : payouts[i].key # q.key
           /\ \A o \in Processes : run[o].stage = "settling" => run[o].payout.key # q.key,
         UNCHANGED <<commission, approved, payouts, batch, irregular>>
  PROVE  IInv'
<1> USE DEF IInv
<1> DEFINE r == [stage |-> stage, payout |-> q]
<1>1. run[p] # Idle
  BY DEF AfterSum, Idle
<1>2. r \in Run /\ r.stage = stage /\ r.payout = q
  BY DEF Run, Stages
<1>3. run' = [run EXCEPT ![p] = r]
  BY DEF Proceed
<1> HIDE DEF r
<1>4. TypeOK'
  BY <1>1, <1>2, <1>3 DEF TypeOK
<1>5. KeyInv'
  BY <1>2, <1>3 DEF KeyInv, TypeOK
<1>6. SumInv'
  BY <1>2, <1>3 DEF SumInv, AfterSum, TypeOK
<1>7. KeysAreIdempotent' /\ PaidWhenSettled'
  BY DEF KeysAreIdempotent, PaidWhenSettled, TimesPaid, Paying
<1>8. QED
  BY <1>4, <1>5, <1>6, <1>7

\* The update and the commit: the commissions that are settled now are those
\* that were summed, but for irregular ones.
LEMMA SettleCommissionsIInv ==
  ASSUME IInv, NEW p \in Processes, SettleCommissions(p)
  PROVE  IInv'
<1> USE DEF IInv
<1> DEFINE r == run[p].payout
<1>1. run[p] \in Run /\ run[p].stage = "settling"
  BY DEF SettleCommissions, TypeOK
<1>2. r \in Payout /\ r.agent \in Agents
  BY <1>1, RunShape
<1>3. /\ payouts' = Append(payouts, r)
      /\ commission' = [c \in Commissions |-> IF c \in EarnedBy(r.agent) THEN "SETTLED" ELSE commission[c]]
      /\ run' = [run EXCEPT ![p] = Idle]
      /\ irregular' = irregular
      /\ Len(payouts) < MaxPayouts
  BY DEF SettleCommissions, Finish
<1> HIDE DEF r
<1>4. /\ payouts' \in Seq(Payout)
      /\ Len(payouts) \in Nat
      /\ Len(payouts') = Len(payouts) + 1
      /\ DOMAIN payouts = 1 .. Len(payouts)
      /\ DOMAIN payouts' = 1 .. Len(payouts) + 1
      /\ \A i \in 1 .. Len(payouts) : payouts'[i] = payouts[i]
      /\ payouts'[Len(payouts) + 1] = r
  BY <1>2, <1>3, AppendPayout DEF TypeOK
<1>5. /\ run' \in [Processes -> Run]
      /\ run'[p] = Idle
      /\ \A o \in Processes \ {p} : run'[o] = run[o]
  BY <1>3 DEF TypeOK, Run
<1>6. TypeOK'
  <2>1. commission' \in [Commissions -> CommissionStatus]
    BY <1>3 DEF TypeOK, CommissionStatus
  <2>2. Len(payouts') <= MaxPayouts
    BY <1>3, <1>4, PayoutsAssumption
  <2>3. batch' \in [todo : SUBSET Agents, retries : 0..MaxRetries]
    BY DEF SettleCommissions, TypeOK
  <2>4. p # Celery => batch' = batch
    BY DEF SettleCommissions
  <2>5. approved' \subseteq Expenses /\ irregular' \subseteq Commissions
    BY DEF SettleCommissions, TypeOK
  <2>6. run'[Celery] # Idle =>
          run'[Celery].payout.agent \in batch'.todo /\ run'[Celery].payout.key = NoKey
    BY <1>5, <2>4 DEF TypeOK, Processes
  <2>7. QED
    BY <1>4, <1>5, <2>1, <2>2, <2>3, <2>5, <2>6 DEF TypeOK
<1>7. r.key # NoKey =>
        /\ \A i \in DOMAIN payouts : payouts[i].key # r.key
        /\ \A o \in Processes \ {p} : run[o].stage = "settling" => run[o].payout.key # r.key
  BY <1>1 DEF KeyInv, r
<1>8. KeyInv'
  <2> SUFFICES ASSUME NEW o \in Processes, run'[o].stage = "settling", run'[o].payout.key # NoKey
               PROVE  /\ \A i \in DOMAIN payouts' : payouts'[i].key # run'[o].payout.key
                      /\ \A u \in Processes \ {o} :
                           run'[u].stage = "settling" => run'[u].payout.key # run'[o].payout.key
    BY DEF KeyInv
  <2>1. o # p /\ run'[o] = run[o]
    BY <1>5 DEF Idle
  <2>2. /\ \A i \in DOMAIN payouts : payouts[i].key # run[o].payout.key
        /\ r.key # run[o].payout.key
        /\ \A u \in Processes \ {o} : run[u].stage = "settling" => run[u].payout.key # run[o].payout.key
    BY <1>1, <2>1 DEF KeyInv, r
  <2>3. \A i \in DOMAIN payouts' : payouts'[i].key # run[o].payout.key
    BY <1>4, <2>2
  <2>4. QED
    BY <1>5, <2>1, <2>2, <2>3 DEF Idle
<1>9. KeysAreIdempotent'
  BY <1>4, <1>7 DEF KeysAreIdempotent
<1>10. ASSUME NEW c \in Commissions \ irregular
       PROVE  c \in r.gross <=> c \in EarnedBy(r.agent)
  BY <1>1, <1>10 DEF SumInv, AfterSum, EarnedBy, r
<1>11. SumInv'
  <2> SUFFICES ASSUME NEW o \in Processes, run'[o].stage \in AfterSum, NEW c \in Commissions \ irregular
               PROVE  /\ c \in run'[o].payout.gross
                           <=> AgentOf[c] = run'[o].payout.agent /\ commission'[c] = "EARNED"
                      /\ c \in run'[o].payout.gross =>
                           \A u \in Processes \ {o} :
                             run'[u].stage \in AfterSum => c \notin run'[u].payout.gross
    BY <1>3 DEF SumInv
  <2>1. o # p /\ run'[o] = run[o]
    BY <1>5 DEF Idle, AfterSum
  <2>2. /\ c \in run[o].payout.gross <=> AgentOf[c] = run[o].payout.agent /\ commission[c] = "EARNED"
        /\ c \in run[o].payout.gross =>
             \A u \in Processes \ {o} : run[u].stage \in AfterSum => c \notin run[u].payout.gross
    BY <2>1 DEF SumInv
  <2>3. c \in run[o].payout.gross => c \notin EarnedBy(r.agent)
    BY <1>1, <1>10, <2>1, <2>2 DEF AfterSum, r
  <2>4. commission'[c] = "EARNED" <=> commission[c] = "EARNED" /\ c \notin EarnedBy(r.agent)
    BY <1>3 DEF EarnedBy
  <2>5. QED
    BY <1>5, <2>1, <2>2, <2>3, <2>4 DEF Idle, AfterSum
<1>12. PaidWhenSettled'
  <2> SUFFICES ASSUME NEW c \in Commissions \ irregular
               PROVE  TimesPaid(c)' = IF commission'[c] = "SETTLED" THEN 1 ELSE 0
    BY <1>3 DEF PaidWhenSettled
  <2>1. TimesPaid(c) = IF commission[c] = "SETTLED" THEN 1 ELSE 0
    BY DEF PaidWhenSettled
  <2>2. TimesPaid(c)' = TimesPaid(c) + IF c \in r.gross THEN 1 ELSE 0
    <3>1. Cardinality(Paying(Append(payouts, r), c)) = Cardinality(Paying(payouts, c)) + IF c \in r.gross THEN 1 ELSE 0
      BY <1>2, PaidOnceMore DEF TypeOK
    <3>2. QED
      BY <1>3, <3>1 DEF TimesPaid
  <2>3. c \in EarnedBy(r.agent) => commission[c] = "EARNED" /\ commission'[c] = "SETTLED"
    BY <1>3 DEF EarnedBy
  <2>4. c \notin EarnedBy(r.agent) => commission'[c] = commission[c]
    BY <1>3
  <2>5. QED
    BY <1>10, <2>1, <2>2, <2>3, <2>4
<1>13. QED
  BY <1>6, <1>8, <1>9, <1>11, <1>12

\* A commission that is earned while a payout of its agent is open, or is
\* written by hand, is irregular from then on; otherwise no open sum misses it.
LEMMA CommissionIInv ==
  ASSUME IInv, NEW c \in Commissions, NEW s \in CommissionStatus,
         commission' = [commission EXCEPT ![c] = s],
         irregular \subseteq irregular', irregular' \subseteq irregular \cup {c},
         c \in irregular' \/ (commission[c] = "none" /\ s = "EARNED" /\ Between(AgentOf[c]) = {}),
         UNCHANGED <<approved, payouts, run, batch>>
  PROVE  IInv'
<1> USE DEF IInv
<1>1. TypeOK'
  BY DEF TypeOK
<1>2. KeyInv' /\ KeysAreIdempotent'
  BY DEF KeyInv, KeysAreIdempotent
<1>3. SumInv'
  BY DEF SumInv, AfterSum, Between, TypeOK
<1>4. PaidWhenSettled'
  BY DEF PaidWhenSettled, TimesPaid, TypeOK
<1>5. QED
  BY <1>1, <1>2, <1>3, <1>4

-----------------------------------------------------------------------------
\* Every step keeps the inductive invariant.
LEMMA NextIInv == IInv /\ [Next]_vars => IInv'
<1> SUFFICES ASSUME IInv, [Next]_vars PROVE IInv'
  OBVIOUS
<1>1. ASSUME NEW c \in Commissions, Earn(c) PROVE IInv'
  BY <1>1, CommissionIInv DEF Earn, CommissionStatus
<1>2. ASSUME NEW c \in Commissions, NEW s \in HandWritten, EditCommission(c, s) PROVE IInv'
  BY <1>2, CommissionIInv, PayoutsAssumption DEF EditCommission
<1>3. ASSUME NEW e \in Expenses, EditExpense(e) PROVE IInv'
  <2>1. TypeOK'
    BY <1>3 DEF EditExpense, IInv, TypeOK
  <2>2. KeyInv' /\ SumInv' /\ KeysAreIdempotent' /\ PaidWhenSettled'
    BY <1>3 DEF EditExpense, IInv, KeyInv, SumInv, KeysAreIdempotent, PaidWhenSettled, TimesPaid
  <2>3. QED
    BY <2>1, <2>2 DEF IInv
<1>4. ASSUME NEW p \in Callers, NEW a \in AskedFor, NEW key \in Keys \cup {NoKey, EmptyKey},
             BeginPayout(p, a, key)
      PROVE  IInv'
  BY <1>4, StartIInv, PayoutsAssumption DEF BeginPayout, Processes
<1>5. ASSUME NEW p \in Processes, SumExpenses(p) PROVE IInv'
  <2>1. run[p].payout \in Payout
    BY <1>5, RunShape DEF SumExpenses, IInv, TypeOK
  <2> DEFINE q == [run[p].payout EXCEPT !.deducted = {e \in approved : AgentOf[e] = run[p].payout.agent}]
  <2>2. q \in Payout /\ q.agent = run[p].payout.agent /\ q.key = run[p].payout.key /\ q.gross = run[p].payout.gross
    BY <2>1 DEF Payout, IInv, TypeOK
  <2>3. Proceed(p, "inserting", q) /\ run[p].stage \in AfterSum
    BY <1>5 DEF SumExpenses, AfterSum
  <2> HIDE DEF q
  <2>4. QED
    BY <1>5, <2>2, <2>3, ProceedIInv DEF SumExpenses
<1>6. ASSUME NEW p \in Processes, InsertPayout(p) PROVE IInv'
  <2>1. run[p].payout \in Payout
    BY <1>6, RunShape DEF InsertPayout, IInv, TypeOK
  <2>2. run[p].payout.key # NoKey => \A i \in DOMAIN payouts : payouts[i].key # run[p].payout.key
    BY <1>6 DEF InsertPayout, Paid
  <2>3. QED
    BY <1>6, <2>1, <2>2, ProceedIInv DEF InsertPayout, AfterSum
<1>7. ASSUME NEW p \in Processes, RefuseInsert(p) \/ BreakOff(p) PROVE IInv'
  BY <1>7, FinishIInv DEF RefuseInsert, BreakOff, IInv, TypeOK
<1>8. ASSUME BeginBatch PROVE IInv'
  <2>1. run[Celery] = Idle
    BY <1>8 DEF BeginBatch, IInv, TypeOK
  <2>2. TypeOK'
    BY <1>8, <2>1, PayoutsAssumption DEF BeginBatch, IInv, TypeOK
  <2>3. KeyInv' /\ SumInv' /\ KeysAreIdempotent' /\ PaidWhenSettled'
    BY <1>8 DEF BeginBatch, IInv, KeyInv, SumInv, KeysAreIdempotent, PaidWhenSettled, TimesPaid
  <2>4. QED
    BY <2>2, <2>3 DEF IInv
<1>9. ASSUME NEW a \in Agents, NextAgent(a) PROVE IInv'
  BY <1>9, StartIInv DEF NextAgent, Processes
<1>10. ASSUME FailBatch PROVE IInv'
  <2>1. batch' \in [todo : SUBSET Agents, retries : 0..MaxRetries]
    BY <1>10, PayoutsAssumption DEF FailBatch, IInv, TypeOK
  <2>2. QED
    BY <1>10, <2>1, FinishIInv DEF FailBatch, Processes
<1>11. CASE UNCHANGED vars
  <2>1. TypeOK'
    BY <1>11 DEF vars, IInv, TypeOK
  <2>2. KeyInv' /\ SumInv' /\ KeysAreIdempotent' /\ PaidWhenSettled'
    BY <1>11 DEF vars, IInv, KeyInv, SumInv, KeysAreIdempotent, PaidWhenSettled, TimesPaid
  <2>3. QED
    BY <2>1, <2>2 DEF IInv
<1>12. QED
  BY <1>1, <1>2, <1>3, <1>4, <1>5, <1>6, <1>7, <1>8, <1>9, <1>10, <1>11,
     SumCommissionsIInv, SettleCommissionsIInv
     DEF Next

\* The inductive invariant holds in every reachable state.
THEOREM Inductive == Spec => []IInv
BY InitIInv, NextIInv, PTL DEF Spec

\* TypeOK: every row and every process keeps its columns' values.
THEOREM TypeCorrect == Spec => []TypeOK
BY Inductive, PTL DEF IInv

\* KeysAreIdempotent: a key pays once, whoever sends it, however often.
THEOREM KeysCorrect == Spec => []KeysAreIdempotent
BY Inductive, PTL DEF IInv

\* PaidWhenSettled: a commission that one payout at a time has seen is paid
\* exactly once when it is settled, and never before.
THEOREM PaymentsCorrect == Spec => []PaidWhenSettled
BY Inductive, PTL DEF IInv

-----------------------------------------------------------------------------
\* Payouts as KeyedPayments sees them.

LEMMA KeyedStart == Init => Keyed!Init
BY DEF Init, Keyed!Init

LEMMA KeyedStep == IInv /\ [Next]_vars => [Keyed!Next]_(Keyed!vars)
<1> SUFFICES ASSUME IInv, [Next]_vars PROVE Keyed!Next \/ UNCHANGED Keyed!vars
  OBVIOUS
<1>1. ASSUME UNCHANGED payouts PROVE UNCHANGED Keyed!vars
  BY <1>1 DEF Keyed!vars
<1>2. ASSUME NEW p \in Processes, SettleCommissions(p) PROVE Keyed!Next
  <2>1. run[p] \in Run /\ run[p].stage = "settling"
    BY <1>2 DEF IInv, TypeOK, SettleCommissions
  <2>2. run[p].payout \in Payout
    BY <2>1, RunShape
  <2>3. run[p].payout.key # NoKey => \A i \in DOMAIN payouts : payouts[i].key # run[p].payout.key
    BY <2>1 DEF IInv, KeyInv
  <2>4. payouts' = Append(payouts, run[p].payout)
    BY <1>2 DEF SettleCommissions
  <2>5. Keyed!Record(run[p].payout)
    BY <2>3, <2>4 DEF Keyed!Record
  <2>6. QED
    BY <2>2, <2>5 DEF Keyed!Next
<1>3. CASE \/ \E c \in Commissions : Earn(c)
           \/ \E c \in Commissions, s \in HandWritten : EditCommission(c, s)
           \/ \E e \in Expenses : EditExpense(e)
           \/ \E p \in Callers, a \in AskedFor, key \in Keys \cup {NoKey, EmptyKey} : BeginPayout(p, a, key)
           \/ \E p \in Processes : \/ SumCommissions(p) \/ SumExpenses(p) \/ InsertPayout(p)
                                   \/ RefuseInsert(p) \/ BreakOff(p)
           \/ BeginBatch
           \/ \E a \in Agents : NextAgent(a)
           \/ FailBatch
           \/ UNCHANGED vars
  <2>1. UNCHANGED payouts
    BY <1>3 DEF Earn, EditCommission, EditExpense, BeginPayout, SumCommissions, SumExpenses,
       InsertPayout, RefuseInsert, BreakOff, BeginBatch, NextAgent, FailBatch, vars
  <2>2. QED
    BY <1>1, <2>1
<1>4. QED
  BY <1>2, <1>3 DEF Next

\* Payouts implements KeyedPayments, for any agents, callers and keys: whatever
\* overlaps, fails and is retried, a payout stays as it was committed, and nothing
\* more is paid under its key.
THEOREM KeyedCorrect == Spec => ImplementsKeyedPayments
<1>1. Spec => [][Keyed!Next]_(Keyed!vars)
  BY Inductive, KeyedStep, PTL DEF Spec
<1>2. QED
  BY <1>1, KeyedStart, PTL DEF Spec, ImplementsKeyedPayments, Keyed!Spec
=============================================================================
