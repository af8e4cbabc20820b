SPECIFICATION ApprovalSpec
CONSTANTS
  Askers = {t1, t2}
  Tickers = {"A"}
  MaxQuestions = 2
  MaxPresses = 1
INVARIANT
  OrdersAreApproved
CHECK_DEADLOCK FALSE
