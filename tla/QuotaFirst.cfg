SPECIFICATION QuotaSpec
CONSTANTS
  Callers = {c1}
  NoCaller = NoCaller
  Amounts = {1, 4}
  Limit = 3
  MaxReservations = 2
  MaxQuotaFaults = 0
CHECK_DEADLOCK FALSE
PROPERTY ReservesAtomically
