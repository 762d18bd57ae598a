------------------------------ MODULE Seeding ------------------------------
(***************************************************************************)
(* The script that fills the newest company with sample data, run by hand  *)
(* against a database in use.  It looks each of its rows up by a key and   *)
(* creates it when it is not there, every statement committed at once, and *)
(* stops at the first error.  Meanwhile another run goes on, clients edit  *)
(* the rows, and companies register.                                       *)
(*                                                                         *)
(* Of the rows of a table the first stands for all: the others are looked  *)
(* up, created and lost in the same way.                                   *)
(***************************************************************************)
EXTENDS Naturals, Sequences, SequencesExt

CONSTANTS
  Runners,     \* who may run the script, one run at a time each
  Tables,      \* the tables kept in an instance
  MaxEdits     \* bounds what clients do

\* The order of the script.
Masters == <<"vertical", "branch", "category">>
Crew == <<"driver", "driver document">>
Fleet == <<"vehicle">>
Papers == <<"vehicle document", "assignment">>
Customers == <<"customer">>
Routes == <<"route">>
Movements == <<"booking", "trip", "expense">>
Stock == <<"warehouse", "supplier", "part">>
Upkeep == <<"schedule", "record">>
Covers == <<"policy", "contract">>

Script ==
  Masters \o Crew \o Fleet \o Papers \o Customers \o Routes
    \o Movements \o Stock \o Upkeep \o Covers

\* Its beginning, of the tables of the instance.
Kept[n \in 0..Len(Script)] ==
  IF n = 0 THEN <<>>
  ELSE IF Script[n] \in Tables THEN Append(Kept[n - 1], Script[n]) ELSE Kept[n - 1]

Program == Kept[Len(Script)]

\* The key of these is unique, in the table or in the company, and a deleted
\* row keeps it.
Unique ==
  {"vertical", "branch", "category", "driver", "vehicle", "route", "booking", "trip",
   "warehouse", "supplier", "part", "contract"}

\* What the API can do: verticals and assignments have no views, and the router
\* takes the path of schedules for the key of a record.
Editable == Tables \ {"vertical", "assignment"}
Addable == Editable \ {"schedule"}

\* The companies rows belong to: the one the script makes, and one that registered.
Homes == {"sample", "registered"}

Run ==
  [step : {"idle", "company", "get", "insert", "again", "stopped", "done"},
   home : Homes, at : 1..Len(Program) + 1, lost : SUBSET Tables]

ASSUME SeedingAssumption ==
  /\ MaxEdits \in Nat
  /\ Tables # {} /\ Tables \subseteq Range(Script)

VARIABLES
  companies,   \* in the order they were made
  rows,        \* by company and table: how many rows have the key
  run,
  edits,
  deleted,     \* history: rows a client deleted, by company and table
  doubled      \* history: keys a client gave a second row, or that a row came to
               \* between a run's look for it and its insertion

seedingVars == <<companies, rows, run, edits, deleted, doubled>>

SeedingInit ==
  /\ companies = <<>>
  /\ rows = [key \in Homes \X Tables |-> [live |-> 0, dead |-> 0]]
  /\ run = [r \in Runners |-> [step |-> "idle", home |-> "sample", at |-> 1, lost |-> {}]]
  /\ edits = 0
  /\ deleted = {}
  /\ doubled = {}

-----------------------------------------------------------------------------
\* The script

Table(r) == Program[run[r].at]

\* Verticals belong to no company: their rows are kept with the first.
Place(home, table) == IF table = "vertical" THEN "sample" ELSE home

Key(r) == <<Place(run[r].home, Table(r)), Table(r)>>
Found(r) == rows[Key(r)].live

\* One of these runs has looked for the row in vain, and is about to insert it.
Awaited(runners, key) == \E r \in runners : run[r].step = "insert" /\ Key(r) = key

\* What a run does next when the row of its table is there.
Onward(r) ==
  [run EXCEPT ![r].at = @ + 1, ![r].step = IF run[r].at = Len(Program) THEN "done" ELSE "get"]

Stop(r) ==
  /\ run' = [run EXCEPT ![r].step = "stopped"]
  /\ UNCHANGED <<companies, rows, edits, deleted, doubled>>

\* The newest company, or a new one.
StartRun(r) ==
  /\ run[r].step = "idle"
  /\ run' = [run EXCEPT ![r] =
       [step |-> IF companies = <<>> THEN "company" ELSE "get",
        home |-> IF companies = <<>> THEN "sample" ELSE Last(companies), at |-> 1, lost |-> {}]]
  /\ UNCHANGED <<companies, rows, edits, deleted, doubled>>

\* Its slug is unique.
CreateCompany(r) ==
  /\ run[r].step = "company"
  /\ \/ /\ Contains(companies, "sample")
        /\ Stop(r)
     \/ /\ ~Contains(companies, "sample")
        /\ companies' = Append(companies, "sample")
        /\ run' = [run EXCEPT ![r].step = "get"]
        /\ UNCHANGED <<rows, edits, deleted, doubled>>

MutGet(r) ==   \* mutant: the row is created without a look for it
  /\ run[r].step = "get"
  /\ run' = [run EXCEPT ![r].step = "insert"]
  /\ UNCHANGED <<companies, rows, edits, deleted, doubled>>

\* get_or_create begins with a get, which takes exactly one row.
Get(r) ==
  /\ run[r].step = "get"
  /\ \/ Found(r) = 0 /\ run' = [run EXCEPT ![r].step = "insert"]
     \/ Found(r) = 1 /\ run' = Onward(r)
     \/ Found(r) > 1 /\ run' = [run EXCEPT ![r].step = "stopped"]
  /\ UNCHANGED <<companies, rows, edits, deleted, doubled>>

\* An IntegrityError: somebody else may have inserted the row.
Refused(r) == run' = [run EXCEPT ![r].step = "again"]

Insert(r) ==
  /\ run[r].step = "insert"
  /\ IF Table(r) \in Unique /\ Found(r) + rows[Key(r)].dead > 0
     THEN Refused(r) /\ UNCHANGED <<rows, doubled>>
     ELSE /\ rows' = [rows EXCEPT ![Key(r)].live = @ + 1]
          /\ run' = Onward(r)
          /\ doubled' = IF Awaited(Runners \ {r}, Key(r)) THEN doubled \cup {Key(r)} ELSE doubled
  /\ UNCHANGED <<companies, edits, deleted>>

\* The second get; nothing found raises the error of the insertion.
GetAgain(r) ==
  /\ run[r].step = "again"
  /\ run' = IF Found(r) = 1 THEN Onward(r) ELSE [run EXCEPT ![r].step = "stopped"]
  /\ UNCHANGED <<companies, rows, edits, deleted, doubled>>

\* Killed, or ended in whatever way, and perhaps started again.
Leave(r) ==
  /\ run[r].step # "idle"
  /\ run' = [run EXCEPT ![r] = [step |-> "idle", home |-> "sample", at |-> 1, lost |-> {}]]
  /\ UNCHANGED <<companies, rows, edits, deleted, doubled>>

-----------------------------------------------------------------------------
\* Meanwhile

Edit == edits < MaxEdits /\ edits' = edits + 1

\* A client's row is the second with its key, or soon will be.
Double(key) ==
  doubled' = IF rows[key].live > 0 \/ Awaited(Runners, key)
             THEN doubled \cup {key} ELSE doubled

\* Every run in the company has lost a row of the table.
Lose(key) ==
  run' = [r \in Runners |-> IF run[r].home = key[1] THEN [run[r] EXCEPT !.lost = @ \cup {key[2]}]
                            ELSE run[r]]

\* DELETE: a mark.
Delete(key) ==
  /\ Edit
  /\ key[2] \in Editable
  /\ rows[key].live > 0
  /\ rows' = [rows EXCEPT ![key].live = @ - 1, ![key].dead = @ + 1]
  /\ deleted' = deleted \cup {key}
  /\ Lose(key)
  /\ UNCHANGED <<companies, doubled>>

\* An edit that read the row before it was deleted saves it whole.
Revive(key) ==
  /\ Edit
  /\ key[2] \in Editable
  /\ rows[key].dead > 0
  /\ rows' = [rows EXCEPT ![key].live = @ + 1, ![key].dead = @ - 1]
  /\ Double(key)
  /\ UNCHANGED <<companies, run, deleted>>

\* An edit of the key.
Rename(key) ==
  /\ Edit
  /\ key[2] \in Editable
  /\ rows[key].live > 0
  /\ rows' = [rows EXCEPT ![key].live = @ - 1]
  /\ Lose(key)
  /\ UNCHANGED <<companies, deleted, doubled>>

\* POST of a row with the same key.
Add(key) ==
  /\ Edit
  /\ Contains(companies, key[1])
  /\ key[2] \in Addable
  /\ key[2] \in Unique => rows[key].live + rows[key].dead = 0
  /\ rows' = [rows EXCEPT ![key].live = @ + 1]
  /\ Double(key)
  /\ UNCHANGED <<companies, run, deleted>>

\* The record of maintenance is looked up under the date of five weeks ago.
NextDay ==
  /\ Edit
  /\ "record" \in Tables
  /\ rows' = [key \in Homes \X Tables |-> IF key[2] = "record" THEN [live |-> 0, dead |-> 0] ELSE rows[key]]
  /\ run' = [r \in Runners |-> [run[r] EXCEPT !.lost = @ \cup {"record"}]]
  /\ UNCHANGED <<companies, deleted, doubled>>

Register ==
  /\ ~Contains(companies, "registered")
  /\ companies' = Append(companies, "registered")
  /\ UNCHANGED <<rows, run, edits, deleted, doubled>>

SeedingNext ==
  \/ \E r \in Runners :
       StartRun(r) \/ CreateCompany(r) \/ Get(r) \/ Insert(r) \/ GetAgain(r) \/ Leave(r)
  \/ \E key \in Homes \X Tables : Delete(key) \/ Revive(key) \/ Rename(key) \/ Add(key)
  \/ NextDay
  \/ Register

SeedingSpec == SeedingInit /\ [][SeedingNext]_seedingVars

-----------------------------------------------------------------------------
\* Properties

SeedingTypeOK ==
  /\ companies \in Seq(Homes)
  /\ rows \in [Homes \X Tables -> [live : Nat, dead : Nat]]
  /\ run \in [Runners -> Run]
  /\ edits \in 0..MaxEdits
  /\ deleted \subseteq Homes \X Tables
  /\ doubled \subseteq Homes \X Tables

\* Overlapping runs do not stop each other once the company is there: a run
\* stops only at a unique row that was deleted or that it lost meanwhile, or at
\* a key with two rows.  And runs create nothing twice: a key has a second row
\* only when clients made it, or a row came to it between a run's look for it
\* and its insertion.
RunsExplained ==
  /\ \A r \in Runners : run[r].step = "stopped" =>
       \/ run[r].at = 1 /\ Contains(companies, "sample") /\ run[r].home = "sample"
       \/ Table(r) \in Unique /\ (Key(r) \in deleted \/ Table(r) \in run[r].lost)
       \/ Table(r) \notin Unique /\ Key(r) \in doubled
  /\ \A key \in Homes \X Tables : rows[key].live > 1 =>
       key[2] \notin Unique /\ key \in doubled
=============================================================================
