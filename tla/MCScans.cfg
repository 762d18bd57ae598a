\* One execution at a time, retried once; one failure or death.
SPECIFICATION ScansSpec
CONSTANTS
  ann = ann
  bob = bob
  Subjects <- MCSubjects
  Members = {ann, bob}
  Company <- MCCompany
  Scan <- MCScan
  Unsendable <- MCUnsendable
  Executions = {x1}
  MaxRetries = 1
  MaxFailures = 1
  None = None
INVARIANTS
  RepeatsBounded
PROPERTY EveryoneIsTold

