\* Two handlers, one Workspace: logins, discoveries, exchanges and reads with
\* the account disabled and enabled, and its credentials replaced, in between.
SPECIFICATION AccessSpec
CONSTANTS
  w1 = w1
  h1 = h1
  h2 = h2
  Workspaces = {w1}
  NoWorkspace = NoWorkspace
  Handlers = {h1, h2}
  MaxRevision = 2
  MaxLogins = 2
  MaxRuns = 2
  MaxExchanges = 2
  MaxReads = 2
SYMMETRY Symmetry
INVARIANTS EvidenceIsCurrent NothingOutlives
PROPERTIES SlowNeverPublishes
