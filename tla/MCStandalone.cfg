\* One e-mail and two requests or scripts at a time; three refresh tokens and
\* three requests at a time; two runs of the seeding script over two tables,
\* with two interventions; two companies, a site, two bookings and two codes.
SPECIFICATION MCSpec
CONSTANTS
  Emails = {e1}
  Passwords <- MCPasswords
  SamplePasswords <- MCSamples
  ScriptPassword = "sample"
  Workers = {w1, w2}
  Unset = Unset
  Nobody = Nobody
  Clients = {c1, c2, c3}
  Tokens = {t1, t2, t3}
  NoToken = NoToken
  Runners = {w1, w2}
  Tables <- MCTables
  MaxEdits = 2
  Companies = {a, b}
  Addresses = {a, b}
  Sites = {s1}
  Guests = {w1, w2}
  Codes = {k1, k2}
  MaxWork = 2
  Nothing = Nothing
SYMMETRY MCSymmetry
INVARIANTS
  AnswersHold
  RoleIsOne
  OneTokenPerLogin
  LogoutHolds
  RunsExplained
  BookingsHold
PROPERTIES
  RanksKept
\* Every token may be spent, with none left to mint.
CHECK_DEADLOCK FALSE
