SPECIFICATION Spec
CONSTANTS
  Definition <- Definitions
  Count = 2
  Value <- Values
  Answer <- Answers
  Template <- Templates
CHECK_DEADLOCK FALSE
INVARIANTS
  ArgumentsAreTheRightOnes
  RefusedForCause
