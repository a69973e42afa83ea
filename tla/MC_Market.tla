----------------------------- MODULE MC_Market -----------------------------
EXTENDS Market, FiniteSetsExt, TLC

CONSTANTS b1, b2

MC_Borrowers == {b1, b2}

\* Borrowers are interchangeable: every action and property treats them alike.
MC_Symmetry == Permutations(MC_Borrowers)

(***************************************************************************)
(* Aggregate properties, which sum over borrowers (FiniteSetsExt).         *)
(***************************************************************************)

\* Sum of the debts the market would charge its borrowers now, as a Decimal.
OutstandingDebt == FromInt(MapThenSumSet(ProjectedLoan, Borrowers))

(***************************************************************************)
(* The ledger's total_liabilities always covers the sum of what the        *)
(* borrowers owe, each projected to the current index, across any          *)
(* interleaving of borrowers' operations and accruals: the per-borrower    *)
(* truncations of compute_loan never add up to more than the aggregate's,  *)
(* so repay_stable's clamped subtraction never has to clamp.               *)
(***************************************************************************)
LedgerCoversDebt == OutstandingDebt <= total_liabilities

(***************************************************************************)
(* Spec section 3: total_liabilities is the sum of all outstanding debt.   *)
(* Then, once every borrower has repaid in full, it is zero.               *)
(***************************************************************************)
NoPhantom == (\A b \in Borrowers : ProjectedLoan(b) = 0) => total_liabilities = 0

(***************************************************************************)
(* Spec 4.2 and 4.6: the projected-loan query accrues to any hypothetical  *)
(* height, and an elapsed time that would be negative is taken as zero;    *)
(* the query is answered for every height the caller may name.            *)
(***************************************************************************)
QueryAnswersEveryHeight ==
    \A b \in Borrowers, h \in 0..MaxHeight, r \in Rates :
        ~query_loan_amount(b, h, r).error
=============================================================================
