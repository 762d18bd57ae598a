------------------------------- MODULE Payouts -------------------------------
(***************************************************************************)
(* What courier agents have earned and spent, and the payouts that settle  *)
(* it.                                                                     *)
(*                                                                         *)
(* CourierPayoutService.process_agent_payout is one transaction at READ    *)
(* COMMITTED: it looks its key up, sums the earned commissions, sums the   *)
(* approved expenses, inserts the payout and then runs the query of the    *)
(* commissions again, as an UPDATE.  Each statement sees what was          *)
(* committed before it began, and no statement takes a lock before the     *)
(* insert.  The batch task runs it for one agent after the other, without  *)
(* a key, and is retried from the first agent when one of them fails.      *)
(*                                                                         *)
(* One period is modelled: every date__range covers every row.             *)
(***************************************************************************)
EXTENDS Naturals, Sequences, FiniteSets

CONSTANTS
  Agents,        \* active courier agents of one tenant
  Commissions,   \* CourierCommission rows there may come to be
  Expenses,      \* CourierExpense rows there may come to be
  AgentOf,       \* the agent of a commission or an expense
  Keys,          \* idempotency keys a caller may send
  HandWritten,   \* statuses clients write to a commission
  AskedFor,      \* agents the callers ask a payout for
  Callers,       \* processes that ask for a payout of one agent
  Celery,        \* the worker that runs the batch task
  NoKey,         \* idempotency_key is None: NULL is unique with nothing
  EmptyKey,      \* idempotency_key is '': never looked up, and unique as any other
  MaxRetries,    \* max_retries of the task
  MaxPayouts     \* bound: payouts that are committed

Processes == Callers \cup {Celery}

VARIABLES
  commission,   \* status of each commission, or "none" before it is earned
  approved,     \* expenses with is_approved
  payouts,      \* the committed CourierPayout rows
  run,          \* the payout each process is at, with what it has summed
  batch,        \* the batch task: agents still to do, and retries used
  irregular     \* history: commissions written by hand, or not alone with one payout

vars == <<commission, approved, payouts, run, batch, irregular>>

\* CANCELLED stands for every status that is neither of the others, and for
\* a deleted row: no query finds either.
CommissionStatus == {"none", "EARNED", "SETTLED", "CANCELLED"}

ASSUME PayoutsAssumption ==
  /\ AgentOf \in [Commissions \cup Expenses -> Agents]
  /\ AskedFor \subseteq Agents
  /\ Celery \notin Callers
  /\ HandWritten \subseteq CommissionStatus \ {"none"}
  /\ NoKey \notin Keys /\ EmptyKey \notin Keys /\ NoKey # EmptyKey
  /\ MaxRetries \in Nat
  /\ MaxPayouts \in Nat

\* A sum of rows is kept as the set of the rows: gross_amount and
\* total_deductions are what these add up to.
Payout == [agent : Agents, key : Keys \cup {NoKey, EmptyKey},
           gross : SUBSET Commissions, deducted : SUBSET Expenses]

Stages == {"summing", "deducting", "inserting", "settling"}

Idle == [stage |-> "idle"]

Run == {Idle} \cup [stage : Stages, payout : Payout]

Init ==
  /\ commission = [c \in Commissions |-> "none"]
  /\ approved = {}
  /\ payouts = <<>>
  /\ run = [p \in Processes |-> Idle]
  /\ batch = [todo |-> {}, retries |-> 0]
  /\ irregular = {}

-----------------------------------------------------------------------------
\* Helpers

Paid == {payouts[i] : i \in DOMAIN payouts}

EarnedBy(a) == {c \in Commissions : AgentOf[c] = a /\ commission[c] = "EARNED"}

\* Processes that have summed the commissions of this agent, and not yet
\* settled them.
Between(a) ==
  {p \in Processes : run[p].stage \in {"deducting", "inserting", "settling"} /\ run[p].payout.agent = a}

\* The next statement of a payout.
Proceed(p, stage, payout) == run' = [run EXCEPT ![p] = [stage |-> stage, payout |-> payout]]

\* The transaction is over.
Finish(p) == run' = [run EXCEPT ![p] = Idle]

\* The look-up of process_agent_payout: an empty key is as good as none.
Known(key) == key \in Keys /\ \E q \in Paid : q.key = key

Start(p, a, key) ==
  /\ run[p] = Idle
  /\ ~Known(key)
  /\ Proceed(p, "summing", [agent |-> a, key |-> key, gross |-> {}, deducted |-> {}])

-----------------------------------------------------------------------------
\* A verified delivery, or POST /commissions/.
Earn(c) ==
  /\ commission[c] = "none"
  /\ commission' = [commission EXCEPT ![c] = "EARNED"]
  /\ irregular' = IF Between(AgentOf[c]) = {} THEN irregular ELSE irregular \cup {c}
  /\ UNCHANGED <<approved, payouts, run, batch>>

\* PUT, PATCH or DELETE of a commission: its status is writable.
EditCommission(c, s) ==
  /\ commission[c] # "none"
  /\ commission' = [commission EXCEPT ![c] = s]
  /\ irregular' = irregular \cup {c}
  /\ UNCHANGED <<approved, payouts, run, batch>>

\* POST, PUT, PATCH or DELETE of an expense.
EditExpense(e) ==
  /\ approved' = IF e \in approved THEN approved \ {e} ELSE approved \cup {e}
  /\ UNCHANGED <<commission, payouts, run, batch, irregular>>

-----------------------------------------------------------------------------
\* process_agent_payout; a known key returns the payout there is and changes
\* nothing.
BeginPayout(p, a, key) ==
  /\ p \in Callers
  /\ Start(p, a, key)
  /\ UNCHANGED <<commission, approved, payouts, batch, irregular>>

SumCommissions(p) ==
  LET a == run[p].payout.agent IN
  /\ run[p].stage = "summing"
  /\ Proceed(p, "deducting", [run[p].payout EXCEPT !.gross = EarnedBy(a)])
  /\ irregular' = IF Between(a) = {} THEN irregular ELSE irregular \cup EarnedBy(a)
  /\ UNCHANGED <<commission, approved, payouts, batch>>

SumExpenses(p) ==
  /\ run[p].stage = "deducting"
  /\ Proceed(p, "inserting",
             [run[p].payout EXCEPT !.deducted = {e \in approved : AgentOf[e] = run[p].payout.agent}])
  /\ UNCHANGED <<commission, approved, payouts, batch, irregular>>

MutInsertPayout(p) ==   \* mutant: no unique_together
  /\ run[p].stage = "inserting"
  /\ Proceed(p, "settling", run[p].payout)
  /\ UNCHANGED <<commission, approved, payouts, batch, irregular>>

\* unique_together (tenant, idempotency_key): the insert waits for another
\* transaction that inserted the key and has not ended.
InsertPayout(p) ==
  LET key == run[p].payout.key IN
  /\ run[p].stage = "inserting"
  /\ key # NoKey =>
       /\ \A q \in Paid : q.key # key
       /\ \A o \in Processes : run[o].stage = "settling" => run[o].payout.key # key
  /\ Proceed(p, "settling", run[p].payout)
  /\ UNCHANGED <<commission, approved, payouts, batch, irregular>>

\* The key was inserted by somebody else: IntegrityError, and rollback.
RefuseInsert(p) ==
  /\ run[p].stage = "inserting"
  /\ run[p].payout.key # NoKey
  /\ \E q \in Paid : q.key = run[p].payout.key
  /\ Finish(p)
  /\ UNCHANGED <<commission, approved, payouts, batch, irregular>>

MutSettleCommissions(p) ==   \* mutant: the update is not limited to the agent
  LET r == run[p].payout IN
  /\ run[p].stage = "settling"
  /\ Len(payouts) < MaxPayouts
  /\ commission' = [c \in Commissions |-> IF commission[c] = "EARNED" THEN "SETTLED" ELSE commission[c]]
  /\ payouts' = Append(payouts, r)
  /\ batch' = IF p = Celery THEN [batch EXCEPT !.todo = @ \ {r.agent}] ELSE batch
  /\ Finish(p)
  /\ UNCHANGED <<approved, irregular>>

\* commissions.update(): the commissions of the agent that are EARNED now,
\* whatever was summed; then the commit.  The batch task goes on.
SettleCommissions(p) ==
  LET r == run[p].payout IN
  /\ run[p].stage = "settling"
  /\ Len(payouts) < MaxPayouts
  /\ commission' = [c \in Commissions |-> IF c \in EarnedBy(r.agent) THEN "SETTLED" ELSE commission[c]]
  /\ payouts' = Append(payouts, r)
  /\ batch' = IF p = Celery THEN [batch EXCEPT !.todo = @ \ {r.agent}] ELSE batch
  /\ Finish(p)
  /\ UNCHANGED <<approved, irregular>>

\* The process fails at any statement: the transaction rolls back.
BreakOff(p) ==
  /\ p \in Callers
  /\ run[p] # Idle
  /\ Finish(p)
  /\ UNCHANGED <<commission, approved, payouts, batch, irregular>>

-----------------------------------------------------------------------------
\* process_agent_payout_batch_task for all active agents.
BeginBatch ==
  /\ batch.todo = {}
  /\ batch' = [todo |-> Agents, retries |-> 0]
  /\ UNCHANGED <<commission, approved, payouts, run, irregular>>

\* The next agent, in the order of the query: any.
NextAgent(a) ==
  /\ a \in batch.todo
  /\ Start(Celery, a, NoKey)
  /\ UNCHANGED <<commission, approved, payouts, batch, irregular>>

MutFailBatch ==   \* mutant: the payout under way is not rolled back
  /\ run[Celery] # Idle
  /\ batch' = IF batch.retries < MaxRetries
              THEN [todo |-> Agents, retries |-> batch.retries + 1]
              ELSE [batch EXCEPT !.todo = {}]
  /\ UNCHANGED <<commission, approved, payouts, run, irregular>>

\* An exception in one of them: the agents before it stay paid, and the task
\* is retried from the first agent, or given up.
FailBatch ==
  /\ run[Celery] # Idle
  /\ batch' = IF batch.retries < MaxRetries
              THEN [todo |-> Agents, retries |-> batch.retries + 1]
              ELSE [batch EXCEPT !.todo = {}]
  /\ Finish(Celery)
  /\ UNCHANGED <<commission, approved, payouts, irregular>>

-----------------------------------------------------------------------------
Next ==
  \/ \E c \in Commissions : Earn(c)
  \/ \E c \in Commissions, s \in HandWritten : EditCommission(c, s)
  \/ \E e \in Expenses : EditExpense(e)
  \/ \E p \in Callers, a \in AskedFor, key \in Keys \cup {NoKey, EmptyKey} : BeginPayout(p, a, key)
  \/ \E p \in Processes :
       \/ SumCommissions(p)
       \/ SumExpenses(p)
       \/ InsertPayout(p)
       \/ RefuseInsert(p)
       \/ SettleCommissions(p)
       \/ BreakOff(p)
  \/ BeginBatch
  \/ \E a \in Agents : NextAgent(a)
  \/ FailBatch

Spec == Init /\ [][Next]_vars

-----------------------------------------------------------------------------
\* Properties

\* Every row and every process has its columns' values; a batch that is
\* done or given up has nothing to do.
TypeOK ==
  /\ commission \in [Commissions -> CommissionStatus]
  /\ approved \subseteq Expenses
  /\ payouts \in Seq(Payout) /\ Len(payouts) <= MaxPayouts
  /\ run \in [Processes -> Run]
  /\ batch \in [todo : SUBSET Agents, retries : 0..MaxRetries]
  /\ irregular \subseteq Commissions
  /\ run[Celery] # Idle => run[Celery].payout.agent \in batch.todo /\ run[Celery].payout.key = NoKey

\* A key pays once, however often and however concurrently it is sent, the
\* empty key too (unique_together of CourierPayout).
KeysAreIdempotent ==
  \A i, j \in DOMAIN payouts : payouts[i].key = payouts[j].key /\ payouts[i].key # NoKey => i = j

\* The payouts of a sequence that paid a commission, and how many did.
Paying(ps, c) == {i \in DOMAIN ps : c \in ps[i].gross}

TimesPaid(c) == Cardinality(Paying(payouts, c))

\* A commission is paid exactly once when it is settled and never before,
\* through failures, retries of the batch and payouts of other agents, unless
\* it was written by hand or two payouts of its agent, or a payout and its
\* earning, overlapped.
PaidWhenSettled ==
  \A c \in Commissions \ irregular : TimesPaid(c) = IF commission[c] = "SETTLED" THEN 1 ELSE 0

Keyed == INSTANCE KeyedPayments WITH
  recorded <- payouts, told <- [k \in Keys |-> {}], Entries <- Payout

\* Callers with or without a key and the retried batch implement KeyedPayments:
\* every payout is recorded under a key nobody used and is there for good; what
\* the callers were told is not followed.
ImplementsKeyedPayments == Keyed!Spec
=============================================================================
