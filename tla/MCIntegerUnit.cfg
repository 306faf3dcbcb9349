SPECIFICATION Spec
CONSTANTS
  Width = 4
  Operands <- MCOperands
  Immediates = {0, 1, 3}
  Rotates <- MCRotates
INVARIANTS TypeOK SumsExact ProductsExact ShiftsExact IdiomsExact
PROPERTIES SummaryStays RecordsSummary
