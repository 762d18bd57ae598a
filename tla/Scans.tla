------------------------------- MODULE Scans -------------------------------
(***************************************************************************)
(* The scans that celery's beat sends off for ever: vehicle documents and  *)
(* driving licences about to expire, and parts that run low.               *)
(*                                                                         *)
(* An execution lists what is due in every company, and tells the members  *)
(* of each one's company, one notification after another, with no          *)
(* transaction around them.  An error sends the whole scan back into the   *)
(* queue, up to MaxRetries times; a worker that dies takes its execution   *)
(* with it.                                                                *)
(***************************************************************************)
EXTENDS Naturals, FiniteSets

CONSTANTS
  Subjects,     \* documents, drivers and parts, numbered as they are listed
  Members,      \* of companies
  Company,      \* the company of each
  Scan,         \* the scan of each subject
  Unsendable,   \* subjects whose title is too long for its column
  Executions,   \* bounds the executions there are at a time
  MaxRetries,   \* 3 in the code
  MaxFailures,  \* bounds the deaths of workers and the failures of the database
  None

Scans == {"documents", "licences", "stock"}

\* Active members with the role TENANT_ADMIN, other active members, and the rest.
Standings == {"admin", "staff", "off"}

\* "sent" is history: what the execution has sent, how often.
Execution ==
  [scan : Scans, tries : 0..MaxRetries, step : {"queued", "scanning", "sending"},
   todo : SUBSET Subjects, to : SUBSET Members,
   sent : [Subjects \X Members -> 0..MaxRetries + 2]]

ASSUME ScansAssumption ==
  /\ Subjects \subseteq Nat /\ IsFiniteSet(Subjects)
  /\ Members \cap Subjects = {}
  /\ Scan \in [Subjects -> Scans]
  /\ DOMAIN Company = Subjects \cup Members
  /\ Unsendable \subseteq Subjects
  /\ MaxRetries \in Nat /\ MaxFailures \in Nat
  /\ None \notin Execution

VARIABLES
  due,        \* the subjects that a scan of theirs would list
  standing,   \* of each member
  execution,  \* the scans in the queue or under way
  notified,       \* who has been told of what
  failures

scanVars == <<due, standing, execution, notified, failures>>

ScansInit ==
  /\ due = {}
  /\ standing \in [Members -> {"admin", "staff"}]
  /\ execution = [x \in Executions |-> None]
  /\ notified = {}
  /\ failures = 0

-----------------------------------------------------------------------------
\* The queries of recipients: low stock is told to every active member.
Entitled(s, m) ==
  /\ Company[s] = Company[m]
  /\ standing[m] \in IF Scan[s] = "stock" THEN {"admin", "staff"} ELSE {"admin"}

First(todo) == CHOOSE s \in todo : \A u \in todo : s <= u

At(x, step) == execution[x] # None /\ execution[x].step = step

Fresh(scan) ==
  [scan |-> scan, tries |-> 0, step |-> "queued", todo |-> {}, to |-> {},
   sent |-> [p \in Subjects \X Members |-> 0]]

\* A worker takes the task and lists what is due.
BeginScan(x) ==
  /\ At(x, "queued")
  /\ execution' = [execution EXCEPT ![x].step = "scanning",
                     ![x].todo = {s \in due : Scan[s] = execution[x].scan}]
  /\ UNCHANGED <<due, standing, notified, failures>>

\* The recipients of the next one.
ListRecipients(x) ==
  LET s == First(execution[x].todo) IN
  /\ At(x, "scanning")
  /\ execution[x].todo # {}
  /\ execution' = [execution EXCEPT ![x].step = "sending", ![x].to = {m \in Members : Entitled(s, m)}]
  /\ UNCHANGED <<due, standing, notified, failures>>

\* send_notification, committed at once.
Send(x, m) ==
  LET s == First(execution[x].todo) IN
  /\ At(x, "sending")
  /\ m \in execution[x].to
  /\ s \notin Unsendable
  /\ notified' = notified \cup {<<s, m>>}
  /\ execution' = [execution EXCEPT ![x].to = @ \ {m}, ![x].sent[<<s, m>>] = @ + 1]
  /\ UNCHANGED <<due, standing, failures>>

MutNextSubject(x) ==   \* mutant: the loop ends after the first one
  /\ At(x, "sending")
  /\ execution[x].to = {}
  /\ execution' = [execution EXCEPT ![x].step = "scanning", ![x].todo = {}]
  /\ UNCHANGED <<due, standing, notified, failures>>

NextSubject(x) ==
  /\ At(x, "sending")
  /\ execution[x].to = {}
  /\ execution' = [execution EXCEPT ![x].step = "scanning", ![x].todo = @ \ {First(@)}]
  /\ UNCHANGED <<due, standing, notified, failures>>

EndScan(x) ==
  /\ At(x, "scanning")
  /\ execution[x].todo = {}
  /\ execution' = [execution EXCEPT ![x] = None]
  /\ UNCHANGED <<due, standing, notified, failures>>

MutRetried(x) ==   \* mutant: a retry starts a new task, with retries of its own
  [execution[x] EXCEPT !.step = "queued", !.todo = {}, !.to = {}]

\* self.retry: None when there have been enough of them.
Retried(x) ==
  IF execution[x].tries = MaxRetries THEN None
  ELSE [execution[x] EXCEPT !.tries = @ + 1, !.step = "queued", !.todo = {}, !.to = {}]

\* The title does not fit.
Raise(x) ==
  /\ At(x, "sending")
  /\ execution[x].to # {}
  /\ First(execution[x].todo) \in Unsendable
  /\ execution' = [execution EXCEPT ![x] = Retried(x)]
  /\ UNCHANGED <<due, standing, notified, failures>>

\* The database fails a statement.
Break(x) ==
  /\ failures < MaxFailures
  /\ At(x, "scanning") \/ At(x, "sending")
  /\ failures' = failures + 1
  /\ execution' = [execution EXCEPT ![x] = Retried(x)]
  /\ UNCHANGED <<due, standing, notified>>

\* The worker dies; the broker had its acknowledgement already.
Die(x) ==
  /\ failures < MaxFailures
  /\ At(x, "scanning") \/ At(x, "sending")
  /\ failures' = failures + 1
  /\ execution' = [execution EXCEPT ![x] = None]
  /\ UNCHANGED <<due, standing, notified>>

\* Beat, whatever has become of the scan it sent last.
Tick(scan) ==
  /\ \E x \in Executions :
       /\ execution[x] = None
       /\ execution' = [execution EXCEPT ![x] = Fresh(scan)]
  /\ UNCHANGED <<due, standing, notified, failures>>

-----------------------------------------------------------------------------
\* Meanwhile

\* A date comes or passes; a row is edited, consumed, restocked or deleted.
ChangeSubject(s) ==
  /\ due' = IF s \in due THEN due \ {s} ELSE due \cup {s}
  /\ UNCHANGED <<standing, execution, notified, failures>>

ChangeMember(m) ==
  /\ standing' \in {[standing EXCEPT ![m] = new] : new \in Standings \ {standing[m]}}
  /\ UNCHANGED <<due, execution, notified, failures>>

Work(x) ==
  \/ BeginScan(x) \/ ListRecipients(x) \/ NextSubject(x) \/ EndScan(x) \/ Raise(x)
  \/ \E m \in Members : Send(x, m)

ScansNext ==
  \/ \E x \in Executions : Work(x) \/ Break(x) \/ Die(x)
  \/ \E scan \in Scans : Tick(scan)
  \/ \E s \in Subjects : ChangeSubject(s)
  \/ \E m \in Members : ChangeMember(m)

\* Celery's workers go on, and beat sends every scan again and again.  That it
\* finds room for it is a bound of the model: the broker's queue has none.
ScansFairness ==
  /\ \A x \in Executions : WF_scanVars(Work(x))
  /\ \A scan \in Scans : SF_scanVars(Tick(scan))

ScansSpec == ScansInit /\ [][ScansNext]_scanVars /\ ScansFairness

-----------------------------------------------------------------------------
\* Properties

ScansTypeOK ==
  /\ due \subseteq Subjects
  /\ standing \in [Members -> Standings]
  /\ execution \in [Executions -> Execution \cup {None}]
  /\ notified \subseteq Subjects \X Members
  /\ failures \in 0..MaxFailures

\* A scan that is retried repeats itself, but never more than once per retry.
RepeatsBounded ==
  \A x \in Executions : execution[x] # None =>
    \A p \in Subjects \X Members : execution[x].sent[p] <= execution[x].tries + 1

\* A subject whose notification cannot be stored does no harm in the end: it is
\* not due, or there is nobody to notify of it.
Harmless(u) == <>[](u \notin due) \/ <>[](\A m \in Members : ~Entitled(u, m))

\* Everyone hears of what stays due, through retries, executions that die, and
\* changes of all kinds: beat makes good for what is lost.  But a subject listed
\* before it, of whatever company, that nobody can be notified of stops every
\* scan at its place.  Parts are listed newest first; for documents and drivers the
\* query asks for no order, and the same one is assumed each time.
EveryoneIsTold ==
  \A s \in Subjects, m \in Members :
    /\ <>[](s \in due /\ Entitled(s, m))
    /\ \A u \in Unsendable : u <= s /\ Scan[u] = Scan[s] => Harmless(u)
    => <>(<<s, m>> \in notified)
=============================================================================
