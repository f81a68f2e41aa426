\* Two hotels, three days in two months, two departments.
CONSTANTS
  Hotels = {"Alpine", "Lakefront"}
  Departments = {"Front Office", "Housekeeping"}
  Group <- MCGroup
  Days <- MCDays
  Month <- MCMonth
  Rooms = 1
  Rates = {1, 2}
SPECIFICATION Spec
CHECK_DEADLOCK FALSE
INVARIANTS
  QuarterIsSumOfDays
