--------------------------- MODULE DirectTaxEngine ---------------------------
(***************************************************************************)
(* Income tax, interest under 234B and 234C, and tax deducted at source,   *)
(* as operators.  The slab limits are multiples of a lakh of rupees: Lakh  *)
(* is its paise, 10,000,000 in the code.                                   *)
(***************************************************************************)
EXTENDS Integers, Sequences, FiniteSetsExt, Functions

CONSTANTS
  Lakh,     \* paise in a lakh of rupees
  RoundTo   \* round_to_paise: what a payable amount is rounded to

ASSUME DirectTaxAssumption ==
  Lakh \in Nat \ {0} /\ Lakh % 200 = 0 /\ RoundTo \in Nat \ {0}

Greater(a, b) == IF a < b THEN b ELSE a
NotNegative(a) == Greater(a, 0)
Lesser(a, b) == IF a < b THEN a ELSE b
Trunc(n, d) == IF n < 0 THEN -((-n) \div d) ELSE n \div d

-----------------------------------------------------------------------------
(***************************************************************************)
(* Slabs are [limit, rate] by rising limit; Open is no limit.              *)
(***************************************************************************)
Open == 0
Slab(limit, rate) == [limit |-> limit * Lakh, rate |-> rate]

OLD_SLABS ==
  <<[limit |-> (5 * Lakh) \div 2, rate |-> 0], Slab(5, 5), Slab(10, 20), Slab(Open, 30)>>
SURCHARGE == <<Slab(50, 10), Slab(100, 15), Slab(200, 25), Slab(500, 37)>>

DEFAULT_RULES ==
  [year \in {"2025-26", "2026-27"} |->
     IF year = "2025-26"
       THEN [new |-> <<Slab(3, 0), Slab(7, 5), Slab(10, 10), Slab(12, 15), Slab(15, 20),
                       Slab(Open, 30)>>,
             rebate_limit |-> 7 * Lakh, rebate_max |-> Lakh \div 4]
       ELSE [new |-> <<Slab(4, 0), Slab(8, 5), Slab(12, 10), Slab(16, 15), Slab(20, 20),
                       Slab(24, 25), Slab(Open, 30)>>,
             rebate_limit |-> 12 * Lakh, rebate_max |-> (3 * Lakh) \div 5]]

CESS_PERCENT == 4
NEW_SURCHARGE_CAP == 25

Regimes == {"NEW", "OLD"}
SlabsOf(year, regime) == IF regime = "NEW" THEN DEFAULT_RULES[year].new ELSE OLD_SLABS
RebateLimit(year, regime) ==
  IF regime = "NEW" THEN DEFAULT_RULES[year].rebate_limit ELSE 5 * Lakh
RebateMax(year, regime) ==
  IF regime = "NEW" THEN DEFAULT_RULES[year].rebate_max ELSE Lakh \div 8

(* What of an income falls into the i-th slab, and the tax on all of them. *)
InSlab(income, slabs, i) ==
  LET lower == IF i = 1 THEN 0 ELSE slabs[i - 1].limit
      upper == IF slabs[i].limit = Open THEN income ELSE Lesser(income, slabs[i].limit)
  IN  NotNegative(upper - lower)
SlabTax(income, slabs) ==
  SumFunction([i \in DOMAIN slabs |-> (InSlab(income, slabs, i) * slabs[i].rate) \div 100])

(* What is due at most: a band is the rate of an income, the limit that it *)
(* exceeds and the rate up to there; Open is no band.                      *)
Band(rate, limit, prior) == [rate |-> rate, limit |-> limit, prior |-> prior]
NoBand == Band(0, Open, 0)

(* Faulty variant: relief forgets the surcharge due at the threshold.      *)
ReliefForgettingPrior(income, tax, slabs, band) ==
  LET full == (tax * band.rate) \div 100
      permitted == SlabTax(band.limit, slabs) + (income - band.limit)
  IN  IF band = NoBand THEN 0 ELSE full - NotNegative(tax + full - permitted)

(* Surcharge with marginal relief: tax and surcharge are at most those at  *)
(* the threshold and what the income exceeds it by.                        *)
RelievedSurcharge(income, tax, slabs, band) ==
  LET full == (tax * band.rate) \div 100
      at == SlabTax(band.limit, slabs)
      permitted == at + (at * band.prior) \div 100 + (income - band.limit)
  IN  IF band = NoBand THEN 0 ELSE full - NotNegative(tax + full - permitted)

(* The band of income_tax_rules: in the new regime the rates are capped,   *)
(* and the highest threshold is a step of its own.                         *)
RuleBand(income, regime) ==
  LET below == {i \in DOMAIN SURCHARGE : income > SURCHARGE[i].limit}
      step == Max(below)
      Rate(i) == IF i = 0 THEN 0
                 ELSE IF regime = "NEW" THEN Lesser(SURCHARGE[i].rate, NEW_SURCHARGE_CAP)
                 ELSE SURCHARGE[i].rate
  IN  IF below = {} THEN NoBand
      ELSE Band(Rate(step), SURCHARGE[step].limit, Rate(step - 1))

(* The band of tax.py, in which the new regime has no step above 2 crore.  *)
SurchargeBand(income, regime) ==
  CASE income <= 50 * Lakh -> NoBand
    [] income > 50 * Lakh /\ income <= 100 * Lakh -> Band(10, 50 * Lakh, 0)
    [] income > 100 * Lakh /\ income <= 200 * Lakh -> Band(15, 100 * Lakh, 10)
    [] income > 200 * Lakh /\ (income <= 500 * Lakh \/ regime = "NEW") -> Band(25, 200 * Lakh, 15)
    [] OTHER -> Band(37, 500 * Lakh, 25)

(* income_tax_rules.calculate.                                             *)
Calculate(year, regime, resident, income, deductions, allowed, credits, special, special_tax) ==
  LET requested == NotNegative(deductions)
      applied == IF regime = "OLD" THEN requested
                 ELSE NotNegative(Lesser(requested, allowed))
      normal == NotNegative(income - applied)
      taxable == normal + special
      slabs == SlabsOf(year, regime)
      slab_tax == SlabTax(normal, slabs)
      rebate == IF resident /\ taxable <= RebateLimit(year, regime)
                  THEN Lesser(slab_tax, RebateMax(year, regime)) ELSE 0
      tax == slab_tax - rebate + special_tax
      surcharge == RelievedSurcharge(taxable, tax, slabs, RuleBand(taxable, regime))
      gross == tax + surcharge + ((tax + surcharge) * CESS_PERCENT) \div 100
      payable == NotNegative(gross - credits)
  IN  [deductions |-> applied, disallowed |-> requested - applied, taxable |-> taxable,
       slab_tax |-> slab_tax, rebate |-> rebate, surcharge |-> surcharge, gross |-> gross,
       payable |-> payable, refund |-> NotNegative(credits - gross),
       rounded |-> ((payable + RoundTo \div 2) \div RoundTo) * RoundTo]

(* tax.calculate_income_tax, for the assessment year 2025-26: a rebate of  *)
(* the whole tax, in the new regime alone.                                 *)
CalculateIncomeTax(income, regime) ==
  LET slabs == SlabsOf("2025-26", regime)
      slab_tax == SlabTax(income, slabs)
      rebate == IF regime = "NEW" /\ income <= 7 * Lakh THEN slab_tax ELSE 0
      tax == slab_tax - rebate
      surcharge == RelievedSurcharge(income, tax, slabs, SurchargeBand(income, regime))
  IN  [base_tax |-> tax, rebate |-> rebate, surcharge |-> surcharge,
       total_tax |-> tax + surcharge + Trunc((tax + surcharge) * CESS_PERCENT, 100)]

-----------------------------------------------------------------------------
(***************************************************************************)
(* draft_amounts: the sources of an ITR draft, summed by type and key.     *)
(***************************************************************************)
DraftAmounts(sources) ==
  LET Of(type, key) == MapThenSumSet(LAMBDA s : s.amount,
                                     {s \in sources : s.type = type /\ s.key = key})
      form_tds == Of("FORM16", "tds") + Of("FORM16A", "tds")
  IN  [salary |-> Of("FORM16", "salary_income"),
       business |-> Of("BOOKS", "business_income"),
       other |-> Of("AIS", "other_income"),
       gains |-> Of("AIS", "capital_gains"),
       deductions |-> Of("FORM16", "deductions") + Of("BOOKS", "deductions"),
       credits |-> Greater(Of("26AS", "tds"), form_tds) + Of("26AS", "tcs")
                   + Of("BOOKS", "advance_tax") + Of("BOOKS", "self_assessment_tax")]

-----------------------------------------------------------------------------
(***************************************************************************)
(* Interest.  Rule 119A ignores a fraction of a hundred rupees, Hundred.   *)
(***************************************************************************)
CONSTANT Hundred   \* paise in a hundred rupees, 10,000 in the code

ASSUME HundredAssumption == Hundred \in Nat \ {0}

Rule119A(amount) == (NotNegative(amount) \div Hundred) * Hundred

(* A date is [y, m, d]; the assessment year begins on 1 April of from.     *)
MonthsSince(from, filed) ==
  LET months == (filed.y - from) * 12 + (filed.m - 4)
  IN  IF filed.y < from \/ (filed.y = from /\ filed.m < 4) THEN 0
      ELSE Greater(1, months + (IF filed.d > 1 THEN 1 ELSE 0))

(* ay_end is the year whose 31 March ends the assessment year.             *)
Interest234B(total, advance, ay_end, filed) ==
  IF advance >= (total * 90) \div 100 THEN 0
  ELSE (Rule119A(total - advance) \div 100) * MonthsSince(ay_end - 1, filed)

(* The due date, what is due of the tax and what spares the interest, in   *)
(* percent, and the months charged.                                        *)
Installments ==
  <<[due |-> 15, spared |-> 12, months |-> 3], [due |-> 45, spared |-> 36, months |-> 3],
    [due |-> 75, spared |-> 75, months |-> 3], [due |-> 100, spared |-> 100, months |-> 1]>>

(* Faulty variant: each installment is compared with its own payment only. *)
Interest234CSeparately(total, paid) ==
  LET Due(k) ==
        LET inst == Installments[k]
            shortfall == NotNegative((total * inst.due) \div 100 - paid[k])
        IN  IF paid[k] < (total * inst.spared) \div 100 /\ shortfall > 0
              THEN (Rule119A(shortfall) \div 100) * inst.months ELSE 0
  IN  Due(1) + Due(2) + Due(3) + Due(4)

(* paid[k] is what was paid for the k-th date; later payments for the same *)
(* date are not looked at.                                                 *)
Interest234C(total, paid) ==
  LET Cumulative(k) == paid[1] + (IF k > 1 THEN paid[2] ELSE 0)
                       + (IF k > 2 THEN paid[3] ELSE 0) + (IF k > 3 THEN paid[4] ELSE 0)
      Due(k) ==
        LET inst == Installments[k]
            shortfall == NotNegative((total * inst.due) \div 100 - Cumulative(k))
        IN  IF Cumulative(k) < (total * inst.spared) \div 100 /\ shortfall > 0
              THEN (Rule119A(shortfall) \div 100) * inst.months ELSE 0
  IN  Due(1) + Due(2) + Due(3) + Due(4)

-----------------------------------------------------------------------------
(***************************************************************************)
(* TDS.  Rates are in tenths of a percent.                                 *)
(***************************************************************************)
TDS_RATES ==
  [s \in {"194A", "194C", "194C_COMPANY", "194H", "194I_LAND", "194I_PLANT", "194J_TECH",
          "194J_PROF", "194Q", "192"} |->
     CASE s \in {"194A", "194I_LAND", "194J_PROF"} -> 100
       [] s = "194C" -> 10
       [] s \in {"194C_COMPANY", "194I_PLANT", "194J_TECH"} -> 20
       [] s = "194H" -> 50
       [] s = "194Q" -> 1
       [] s = "192" -> 0]
Sections == DOMAIN TDS_RATES

TDS_THRESHOLDS ==
  [s \in Sections |->
     CASE s = "194A" -> (2 * Lakh) \div 5
       [] s \in {"194C", "194J_TECH", "194J_PROF"} -> (3 * Lakh) \div 10
       [] s = "194H" -> (3 * Lakh) \div 20
       [] s \in {"194I_LAND", "194I_PLANT"} -> (12 * Lakh) \div 5
       [] s = "194Q" -> 50 * Lakh
       [] s \in {"194C_COMPANY", "192"} -> 0]

(* Faulty variant: the whole payment is taxed once the year's purchases    *)
(* have crossed the threshold.                                             *)
Taxable194QWhole(gross, prior) ==
  IF NotNegative(prior) + gross > TDS_THRESHOLDS["194Q"] THEN gross ELSE 0

(* Of a purchase, what lies above the year's threshold and did not before. *)
Taxable194Q(gross, prior) ==
  LET before == NotNegative(prior)
      threshold == TDS_THRESHOLDS["194Q"]
  IN  NotNegative(before + gross - threshold) - NotNegative(before - threshold)

(* turnover is the buyer's of the year before, Unknown when not given.     *)
Unknown == -1
CalculateTds(section, gross, pan, prior, turnover) ==
  LET base == TDS_RATES[section]
      rate == IF pan THEN base ELSE Greater(base, IF section = "194Q" THEN 50 ELSE 200)
      exempt == section = "194Q" /\ (turnover = Unknown \/ turnover <= 1000 * Lakh)
      taxable == IF section = "194Q" THEN Taxable194Q(gross, prior) ELSE gross
      due == /\ ~exempt /\ taxable > 0
             /\ section # "194Q" => gross > TDS_THRESHOLDS[section]
      tds == IF due THEN (taxable * rate) \div 1000 ELSE 0
  IN  [tds_amount |-> tds, net_amount |-> gross - tds,
       needs_context |-> section = "194Q" /\ turnover = Unknown]
=============================================================================
