CONSTANTS
  Persons = {1, 2}
  TypeOf <- Types
  LimitOf <- Limits
  Chances = {1}
  TeamOf <- Teams
  seating_capacity <- Seats
  Totals = {1, 2}
  MaxInvalid = 1
SPECIFICATION StadiumSpec
INVARIANTS SeatsAccounted
PROPERTIES EveryoneLeaves
CHECK_DEADLOCK FALSE
