\* Every field of every family, questions asked and answers scribbled on.
SPECIFICATION Spec
CONSTANTS
  MaxItems = 2
  MaxNumber = 2
  MaxEnum = 1
  MaxAsked = 2
INVARIANTS
  AnswersAreTheStatement
  TreeIsImmutable
CHECK_DEADLOCK FALSE
