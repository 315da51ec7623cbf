\* Two files that can need each other and themselves, two names that can each
\* lead to either or nowhere, and a name that is the path of a file and is never
\* looked up; two names per file, so that both can be the same.
SPECIFICATION FairSpec
CONSTANTS
  a = a
  b = b
  n = n
  m = m
  Files = {a, b}
  Names = {n, m, b}
  Escaping = {b}
  MaxRefs = 2
INVARIANTS
  TypeOK
  OneNodePerFile
  GraphComplete
  CreditsExact
  ReportExact
PROPERTY
  Terminates
CHECK_DEADLOCK FALSE
