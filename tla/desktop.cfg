\* Two commands on a place that a launcher and the default provider name, with one
\* change by others; two operations with a prompt, two calls on their way, and one
\* reload, clearing or refresh by the user or elsewhere.
SPECIFICATION DesktopSpec
CONSTANTS
  pfx = pfx
  Commands = {c1, c2}
  Places = {pfx}
  Providers <- MCProviders
  NamedBy <- MCNamedBy
  MaxChanges = 1
  Operations = {o1, o2}
  Requests = {q1, q2}
  Nothing = Nothing
  MaxExtras = 1
SYMMETRY Interchangeable
INVARIANTS
  CallsKeepTheirWord
  ViewIsTruthful
PROPERTIES
  NothingReplaced
\* A program without a call or an operation under way may rest for ever.
CHECK_DEADLOCK FALSE
