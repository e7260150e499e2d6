CONSTANTS
  Companies = {"ours", "theirs"}
  Vouchers = {1}
  VoucherCompany <- MCVoucherCompany
  Contents = {"bill", "moved", "sale", "void"}
  Days = {1, 2, 3}
  DayOf <- MCDayOf
  Months = {"april", "may", "june"}
  MonthOf <- MCMonthOf
  Windows <- MCWindows
  Registers = {"purchase", "sales"}
  RegisterOf <- MCRegisterOf
  Cancelled = {"void"}
  Posted = {1}
  Devices = {d1, d2, d3}
  Other = d3
  DeviceCompany <- MCDeviceCompany
  Codes = {k1, k2}
  Requests = {h1, h2}
  MaxEdits = 1
  MaxBatches = 3
  Gone = Gone
SPECIFICATION Spec
INVARIANT AvailableForOne RowsFollowVouchers
PROPERTY PeriodsStayApart
SYMMETRY Interchangeable
CHECK_DEADLOCK FALSE
