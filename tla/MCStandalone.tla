---------------------------- MODULE MCStandalone ----------------------------
(***************************************************************************)
(* Accounts, sessions, the seeding script and the website share no state:  *)
(* a behaviour of the instance is one of any of them.                      *)
(***************************************************************************)
EXTENDS Accounts, Sessions, Seeding, Website, TLC

VARIABLE part

MCPasswords == {"own", "sample"}
MCSamples == {"sample"}

\* A table with unique keys, and one whose keys clients may add again, and that
\* is looked up under another key every day.
MCTables == {"vehicle", "record"}

MCSymmetry == Permutations(Workers) \cup Permutations(Tokens)

MCInit ==
  /\ part \in {"accounts", "sessions", "seeding", "website"}
  /\ Init /\ SessionsInit /\ SeedingInit /\ WebsiteInit

MCNext ==
  /\ UNCHANGED part
  /\ \/ part = "accounts" /\ Next /\ UNCHANGED <<sessionVars, seedingVars, siteVars>>
     \/ part = "sessions" /\ SessionsNext /\ UNCHANGED <<vars, seedingVars, siteVars>>
     \/ part = "seeding" /\ SeedingNext /\ UNCHANGED <<vars, sessionVars, siteVars>>
     \/ part = "website" /\ WebsiteNext /\ UNCHANGED <<vars, sessionVars, seedingVars>>

MCSpec == MCInit /\ [][MCNext]_<<vars, sessionVars, seedingVars, siteVars, part>>
=============================================================================
