\* Stacks of up to three screens, swipes of up to three thirds of a turn.
SPECIFICATION Spec
CONSTANTS
  MaxDepth = 3
  Whole = 3
INVARIANTS TypeOK EndsWhereAsked
