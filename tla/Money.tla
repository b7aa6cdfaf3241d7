------------------------------- MODULE Money -------------------------------
(***************************************************************************)
(* Order money, packages/shared/src/money.ts.  Amounts are integer minor   *)
(* units, rates are basis points (30% = 3000).                             *)
(***************************************************************************)
EXTENDS Integers

MAX_COMMISSION_BPS == 10000

Bps == 0 .. MAX_COMMISSION_BPS

\* A slip of scale: the rate read as per mille.
MutCalcCommission(charge, bps) == (charge * bps + 500) \div 1000

\* Round half up.  The callers keep charge and bps in the ranges outside of
\* which the code throws RangeError.
CalcCommission(charge, bps) == (charge * bps + 5000) \div 10000

CalcDriverEarnings(charge, commission) == charge - commission

\* OrderFinancialsService.computeSnapshot: the split frozen on an order.
ComputeSnapshot(charge, bps) ==
  LET commission == CalcCommission(charge, bps)
  IN  [commissionBps            |-> bps,
       platformCommissionAmount |-> commission,
       driverEarnings           |-> CalcDriverEarnings(charge, commission)]
=============================================================================
