SPECIFICATION FairSpec
INVARIANTS LoadersBounded NeverBack InvalidatedUnlessRacing
PROPERTIES EveryCallAnswers LockIsReleased
CONSTANTS
  Callers = {c1, c2, c3}
  Setters = {s1}
  Events <- MCEvents
  MaxVersion = 1
  MaxEarly = 1
  Null = Null
