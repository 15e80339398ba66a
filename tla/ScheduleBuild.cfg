\* Every small call.
SPECIFICATION BuildSpec
CONSTANTS
  Args <- SmallArgs
INVARIANTS
  Capped
  Refusal
  Total
