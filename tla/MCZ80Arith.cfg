SPECIFICATION Spec
CONSTANTS
  Operand <- MCOperand
  Decimal <- MCDecimal
  Length = 2
INVARIANTS
  Exact
  StaysDecimal
  SignedOrder
  WideAgrees
  TwinsAgree
CHECK_DEADLOCK FALSE
