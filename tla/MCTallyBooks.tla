---------------------------- MODULE MCTallyBooks ----------------------------
(* A voucher may move to the next month, change its type or be cancelled.  *)
(* Day 1 ends April, day 2 ends May, day 3 begins June; in a time zone     *)
(* ahead of UTC a month's range begins on the last day of the month before.*)
(* Other is a computer of another company.                                 *)
EXTENDS TallyBooks, TLC

CONSTANT Other

MCVoucherCompany == [v \in Vouchers |-> "ours"]
MCDeviceCompany == [d \in Devices |-> IF d = Other THEN "theirs" ELSE "ours"]
MCDayOf == [c \in Contents |-> IF c = "moved" THEN 3 ELSE 2]
MCMonthOf == [d \in Days |-> IF d = 1 THEN "april" ELSE IF d = 2 THEN "may" ELSE "june"]
MCWindows == {[from |-> 1, to |-> 2], [from |-> 2, to |-> 3]}
MCRegisterOf == [c \in Contents |-> IF c = "sale" THEN "sales" ELSE "purchase"]
Interchangeable ==
  Permutations(Devices \ {Other}) \cup Permutations(Codes) \cup Permutations(Requests)
=============================================================================
