SPECIFICATION Spec
CONSTANTS
  Lakh = 10000
  RoundTo = 10
  Hundred = 10
  Amounts <- MCAmounts
  Payments <- MCPayments
  Incomes <- MCIncomes
  Taxes <- MCTaxes
  Installs <- MCInstalls
  Dates <- MCDates
  Lines <- MCLines
  Invoices <- MCInvoices
  Portal <- MCPortal
  Statements <- MCStatements
  Entries <- MCEntries
  Returns <- MCReturns
  Purchases <- MCPurchases
  Adjusts <- MCAdjusts
  Bills <- MCBills
  AgentBills <- MCAgentBills
  LedgerMaps <- MCLedgerMaps
  Names <- MCNames
  Payloads <- MCPayloads
  TaxSetups <- MCTaxSetups
  Longest = 2
  Similar <- MCSimilar
INVARIANTS
  SetOffLawful
  TaxNeverJumps
  SplitTaxedAlike
  EarlierPaymentCostsNoMore
  LinesAccountedOnce
  ComputedTaxPasses
  VouchersFaithful
