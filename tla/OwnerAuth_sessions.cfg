\* One Owner, two addresses, two passwords, a login that is rotated and another one.
SPECIFICATION Spec

CONSTANTS
  Names = {o}
  OwnerName = o
  Addresses = {a1, a2}
  Passwords = {p1, p2}
  Sessions = {s1, s2, s3}
  NoSession = NoSession
  Requests = {r1, r2}
  Limit = 2
  Window = 2
  Block = 2
  IdleTime = 2
  Lifetime = 3
  MaxTime = 3
  MaxVersion = 2

CONSTRAINTS GuessesApart LateAlone
SYMMETRY Symmetry

INVARIANTS ResetEndsAccess LoginsEnd GuessesBounded

\* The clock stops.
CHECK_DEADLOCK FALSE
