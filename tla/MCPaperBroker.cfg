SPECIFICATION Spec
CONSTANTS
  Callers = {a, b}
  INITIAL_TICKET = 10
  Volumes = {3}
  FileDamage = TRUE
  TicketBound = 11
  JournalBound = 3
SYMMETRY CallerSymmetry
INVARIANTS TypeOK TicketsFresh UniqueOpenRows ClosedForGood VolumeConserved
PROPERTIES NoSilentLoss ImplementsBook
