------------------------------ MODULE Accounts ------------------------------
(***************************************************************************)
(* Accounts, the companies registered under them, and the scripts that put *)
(* accounts in place.                                                      *)
(*                                                                         *)
(* A registration is one transaction, after a check of its own; the reads  *)
(* and the full-row saves of an account are statements that others come    *)
(* between.                                                                *)
(***************************************************************************)
EXTENDS Naturals

CONSTANTS
  Emails,            \* what identifies an account
  Passwords,
  SamplePasswords,   \* those the backend takes, and rehashes, for any account
  ScriptPassword,    \* the one the scripts set
  Workers,           \* each serves one request, or runs one script, at a time
  Unset,             \* no password yet
  Nobody             \* no account, no request

\* "platform" stands for is_platform_admin, is_staff and platform_role.
User == [password : Passwords \cup {Unset}, superuser : BOOLEAN, platform : BOOLEAN]

\* init_superuser; platform and tenant users of seed_sample_users.
Jobs == {"init", "chief", "staff", "tenant"}

Rows == 0..2    \* of a role that belongs to no tenant; 2 is two or more

Request ==
  [op : {"register"}, password : Passwords, admin : BOOLEAN]
  \cup [op : {"provision"}, password : Passwords, roles : Rows]
  \cup [op : {"change"}, password : Passwords]
  \cup [op : {"save"}, job : Jobs] \cup [op : {"role"}] \cup [op : {"create role", "link"}, roles : Rows]

ASSUME AccountsAssumption ==
  /\ SamplePasswords \subseteq Passwords
  /\ ScriptPassword \in SamplePasswords
  /\ Unset \notin Passwords
  /\ Nobody \notin Emails \cup User \cup Request

VARIABLES
  user,      \* the account of each e-mail
  role,      \* how many rows TENANT_ADMIN has among the roles of no tenant
  member,    \* e-mails the sample tenant has as members
  seen,      \* what each worker has read, and what it does with it
  told,      \* history: the password the last answer named
  company,   \* history: the companies registered under each e-mail
  overtaken  \* history: what was written by one who had read an older state

vars == <<user, role, member, seen, told, company, overtaken>>

Idle == [email |-> Nobody, copy |-> Nobody, req |-> Nobody]

Seen == [email : Emails, copy : User \cup {Nobody}, req : Request] \cup {Idle}

\* "reset" and "sample" are the two other ways a password comes to differ from
\* what its owner was told.
Excuse == [kind : {"user", "reset", "sample"}, of : Emails] \cup [kind : {"role"}, of : {"manager"}]

Init ==
  /\ user = [e \in Emails |-> Nobody]
  /\ role = 0
  /\ member = {}
  /\ seen = [w \in Workers |-> Idle]
  /\ told = [e \in Emails |-> Unset]
  /\ company = [e \in Emails |-> 0]
  /\ overtaken = {}

-----------------------------------------------------------------------------
\* Helpers

Serving(w, op) == seen[w].req # Nobody /\ seen[w].req.op = op

Begin(w, e, req) ==
  /\ seen[w] = Idle
  /\ seen' = [seen EXCEPT ![w] = [email |-> e, copy |-> user[e], req |-> req]]

Then(w, req) == seen' = [seen EXCEPT ![w].req = req]

Answer(w) == seen' = [seen EXCEPT ![w] = Idle]

OneMore(rows) == IF rows < 2 THEN rows + 1 ELSE 2

Excused(kind, of) == [kind |-> kind, of |-> of] \in overtaken

Excuses(kind, of, if) == IF if THEN {[kind |-> kind, of |-> of]} ELSE {}

\* Model.save: every column, from the copy.
Save(w, new) ==
  LET e == seen[w].email IN
  /\ user' = [user EXCEPT ![e] = new]
  /\ overtaken' = overtaken \cup Excuses("user", e, user[e] # seen[w].copy)

-----------------------------------------------------------------------------
\* Registration

MutBeginRegister(w, e, password, admin) ==   \* mutant: validate_email forgotten
  /\ Begin(w, e, [op |-> "register", password |-> password, admin |-> admin])
  /\ UNCHANGED <<user, role, member, told, company, overtaken>>

\* validate_email: no such account, so far.
BeginRegister(w, e, password, admin) ==
  /\ user[e] = Nobody
  /\ Begin(w, e, [op |-> "register", password |-> password, admin |-> admin])
  /\ UNCHANGED <<user, role, member, told, company, overtaken>>

\* provision reaches its roles: get_or_create of one that has two rows raises,
\* and the registration fails.  The permissions that the first provisioning
\* inserts before the roles have unique codes and hold up any other.
Provision(w) ==
  /\ Serving(w, "register") /\ ~seen[w].req.admin
  /\ role < 2
  /\ role = 0 => \A v \in Workers : ~Serving(v, "provision")
  /\ Then(w, [op |-> "provision", password |-> seen[w].req.password, roles |-> role])
  /\ UNCHANGED <<user, role, member, told, company, overtaken>>

New(password, admin) == [password |-> password, superuser |-> admin, platform |-> admin]

MutRegisterCompany(w) ==   \* mutant: the role is created, found or not
  LET e == seen[w].email IN
  /\ Serving(w, "provision")
  /\ user' = [user EXCEPT ![e] = IF @ = Nobody THEN New(seen[w].req.password, FALSE) ELSE @]
  /\ role' = OneMore(role)
  /\ company' = [company EXCEPT ![e] = @ + 1]
  /\ told' = [told EXCEPT ![e] = seen[w].req.password]
  /\ overtaken' = overtaken \cup Excuses("user", e, user[e] # seen[w].copy)
                  \cup Excuses("role", "manager", role # seen[w].req.roles)
  /\ Answer(w)
  /\ UNCHANGED member

\* The commit of a company, of the account unless one has come to exist, and of
\* the role unless it was found.
RegisterCompany(w) ==
  LET e == seen[w].email
      made == seen[w].req.roles = 0 IN
  /\ Serving(w, "provision")
  /\ user' = [user EXCEPT ![e] = IF @ = Nobody THEN New(seen[w].req.password, FALSE) ELSE @]
  /\ role' = IF made THEN OneMore(role) ELSE role
  /\ company' = [company EXCEPT ![e] = @ + 1]
  /\ told' = [told EXCEPT ![e] = seen[w].req.password]
  /\ overtaken' = overtaken \cup Excuses("user", e, user[e] # seen[w].copy)
                  \cup Excuses("role", "manager", made /\ role # seen[w].req.roles)
  /\ Answer(w)
  /\ UNCHANGED member

\* create_user: e-mails are unique.
RegisterAdmin(w) ==
  LET e == seen[w].email IN
  /\ Serving(w, "register") /\ seen[w].req.admin
  /\ user[e] = Nobody
  /\ Save(w, New(seen[w].req.password, TRUE))
  /\ told' = [told EXCEPT ![e] = seen[w].req.password]
  /\ Answer(w)
  /\ UNCHANGED <<role, member, company>>

-----------------------------------------------------------------------------
\* Passwords

\* A login with a sample password: the backend writes it to the account.
Rehash(e, password) ==
  /\ user[e] # Nobody
  /\ password \in SamplePasswords \ {user[e].password}
  /\ user' = [user EXCEPT ![e].password = password]
  /\ overtaken' = overtaken \cup Excuses("sample", e, TRUE)
  /\ UNCHANGED <<role, member, seen, told, company>>

\* request.user is read when the request is authenticated.
BeginChange(w, e, old, new) ==
  /\ user[e] # Nobody
  /\ user[e].password = old
  /\ Begin(w, e, [op |-> "change", password |-> new])
  /\ UNCHANGED <<user, role, member, told, company, overtaken>>

ChangePassword(w) ==
  /\ Serving(w, "change")
  /\ Save(w, [seen[w].copy EXCEPT !.password = seen[w].req.password])
  /\ told' = [told EXCEPT ![seen[w].email] = seen[w].req.password]
  /\ Answer(w)
  /\ UNCHANGED <<role, member, company>>

\* The answer says that the password has been reset, and nothing is.
ConfirmReset(e, password) ==
  /\ told' = [told EXCEPT ![e] = password]
  /\ overtaken' = overtaken \cup Excuses("reset", e, TRUE)
  /\ UNCHANGED <<user, role, member, seen, company>>

-----------------------------------------------------------------------------
\* The scripts

\* What get_or_create inserts, without a password.
Sample(job) == [password |-> Unset, superuser |-> job \in {"init", "chief"},
                platform |-> job # "tenant"]

MutReset(job, copy) ==   \* mutant: the tenant users lose is_superuser too
  [password |-> ScriptPassword, superuser |-> job \in {"init", "chief"}, platform |-> job # "tenant"]

\* What the job then saves: the loop of the tenant users leaves is_superuser.
Reset(job, copy) ==
  [password |-> ScriptPassword,
   superuser |-> IF job = "tenant" THEN copy.superuser ELSE job # "staff",
   platform |-> job # "tenant"]

\* User.objects.get_or_create; init_superuser resets no superuser it finds.
FindUser(w, e, job) ==
  LET found == IF user[e] = Nobody THEN Sample(job) ELSE user[e] IN
  /\ seen[w] = Idle
  /\ ~(job = "init" /\ user[e] # Nobody /\ found.superuser)
  /\ user' = [user EXCEPT ![e] = found]
  /\ seen' = [seen EXCEPT ![w] = [email |-> e, copy |-> found, req |-> [op |-> "save", job |-> job]]]
  /\ UNCHANGED <<role, member, told, company, overtaken>>

SaveUser(w) ==
  LET job == seen[w].req.job IN
  /\ Serving(w, "save")
  /\ Save(w, Reset(job, seen[w].copy))
  /\ told' = [told EXCEPT ![seen[w].email] = ScriptPassword]
  /\ IF job = "tenant" THEN Then(w, [op |-> "role"]) ELSE Answer(w)
  /\ UNCHANGED <<role, member, company>>

\* Role.objects.filter(code=...).first()
FindRole(w) ==
  /\ Serving(w, "role")
  /\ Then(w, [op |-> IF role = 0 THEN "create role" ELSE "link", roles |-> role])
  /\ UNCHANGED <<user, role, member, told, company, overtaken>>

CreateRole(w) ==
  /\ Serving(w, "create role")
  /\ role' = OneMore(role)
  /\ overtaken' = overtaken \cup Excuses("role", "manager", role # seen[w].req.roles)
  /\ Then(w, [op |-> "link", roles |-> role'])
  /\ UNCHANGED <<user, member, told, company>>

\* The membership, found or made, is saved with its role.
Link(w) ==
  /\ Serving(w, "link")
  /\ member' = member \cup {seen[w].email}
  /\ Answer(w)
  /\ UNCHANGED <<user, role, told, company, overtaken>>

-----------------------------------------------------------------------------
\* A request fails, or its process ends, between two statements.
Fail(w) ==
  /\ seen[w] # Idle
  /\ Answer(w)
  /\ UNCHANGED <<user, role, member, told, company, overtaken>>

Next ==
  \/ \E w \in Workers, e \in Emails, password \in Passwords :
       \/ \E admin \in BOOLEAN : BeginRegister(w, e, password, admin)
       \/ \E old \in Passwords : BeginChange(w, e, old, password)
  \/ \E w \in Workers, e \in Emails, job \in Jobs : FindUser(w, e, job)
  \/ \E w \in Workers :
       \/ Provision(w) \/ RegisterCompany(w) \/ RegisterAdmin(w) \/ ChangePassword(w)
       \/ SaveUser(w) \/ FindRole(w) \/ CreateRole(w) \/ Link(w) \/ Fail(w)
  \/ \E e \in Emails, password \in Passwords : Rehash(e, password) \/ ConfirmReset(e, password)

Spec == Init /\ [][Next]_vars

-----------------------------------------------------------------------------
\* Properties

TypeOK ==
  /\ user \in [Emails -> User \cup {Nobody}]
  /\ role \in Rows
  /\ member \subseteq Emails
  /\ seen \in [Workers -> Seen]
  /\ told \in [Emails -> Passwords \cup {Unset}]
  /\ company \in [Emails -> Nat]
  /\ overtaken \subseteq Excuse

\* An e-mail registers one company, and the password its owner was last told is
\* the one that works, unless requests overtook each other on the account (the
\* second of two registrations is told its own password, and the first's holds),
\* a reset was confirmed, or a login used a sample password.
AnswersHold ==
  \A e \in Emails : ~Excused("user", e) =>
    /\ company[e] <= 1
    /\ \/ Excused("reset", e) \/ Excused("sample", e) \/ told[e] = Unset
       \/ user[e] # Nobody /\ user[e].password = told[e]

\* The role of managers has two rows, and provisioning fails from then on, only
\* if a script and another script or a provisioning made it at once.
RoleIsOne == role > 1 => Excused("role", "manager")

\* A superuser stays one unless the script makes it a member of staff, and a
\* platform account unless the script makes it a tenant's: whatever else clears
\* these flags is a full save by one who had read the account before they were set.
RanksKept ==
  [][\A e \in Emails : user[e] # Nobody /\ [kind |-> "user", of |-> e] \notin overtaken' =>
       /\ user[e].superuser /\ ~user'[e].superuser =>
            \E w \in Workers : Serving(w, "save") /\ seen[w].req.job = "staff"
       /\ user[e].platform /\ ~user'[e].platform =>
            \E w \in Workers : Serving(w, "save") /\ seen[w].req.job = "tenant"]_vars
=============================================================================
