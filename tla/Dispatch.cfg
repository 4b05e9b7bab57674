\* Both executors, two threads, a tree of four handlers, two misfits, one cancelled task.
SPECIFICATION FairSpec
CONSTANTS
  first = first
  second = second
  commanded = commanded
  last = last
  Main = Main
  Executors = {"sync", "async"}
  Handlers = {first, second, commanded, last}
  Commands = {first}
  HandlersOf <- MCHandlersOf
  Workers = 2
  MaxMisfits = 2
  MaxFaults = 1
\* The calls end.
CHECK_DEADLOCK FALSE
INVARIANTS
  TypeOK
  NoDeadlock
  AnswersAreTrue
PROPERTIES
  EveryFitHandlerEnds
