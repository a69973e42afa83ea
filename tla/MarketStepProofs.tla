-------------------------- MODULE MarketStepProofs --------------------------
(***************************************************************************)
(* Proofs about what one transaction may do to the market's state: the     *)
(* what-if query covers the debt, interest is charged once per block, and  *)
(* the ledger moves with the money lent and repaid.  All rest on IInv.     *)
(***************************************************************************)
EXTENDS MarketRefinement

USE ScaleAssumption, RatesAssumption, ReserveFactorAssumption,
    AmountsAssumption, LimitsAssumption, MaxHeightAssumption

-----------------------------------------------------------------------------
(***************************************************************************)
(* What compute_interest does to the aggregates.                           *)
(***************************************************************************)

\* Accrual only adds to total_liabilities.
LEMMA AccrualAdds ==
    ASSUME IInv, NEW r \in Rates
    PROVE  compute_interest(height, r).total_liabilities >= total_liabilities
<1> DEFINE f == decimal_multiplication(FromInt(height - last_interest_updated), r)
<1>1. height - last_interest_updated \in Nat
  BY DEF IInv, TypeOK
<1>2. f \in Nat
  BY <1>1, DecimalNat
<1>3. decimal_multiplication(total_liabilities, f) \in Nat
  BY <1>2, DecimalNat DEF IInv, TypeOK
<1>4. QED
  BY <1>3 DEF compute_interest, IInv, TypeOK

\* A second accrual in the block of the last one changes neither the index
\* nor the reserves: no block has passed since the stamp.
LEMMA NoAccrualAtStamp ==
    ASSUME IInv, NEW r \in Rates, last_interest_updated = height
    PROVE  /\ compute_interest(height, r).global_interest_index = global_interest_index
           /\ compute_interest(height, r).total_reserves = total_reserves
<1>1. decimal_multiplication(FromInt(height - last_interest_updated), r) = 0
  BY SMT DEF decimal_multiplication, FromInt, IInv, TypeOK
<1>2. decimal_multiplication(global_interest_index, One + 0) = global_interest_index
  BY SMT DEF decimal_multiplication, One, IInv, TypeOK
<1>3. decimal_multiplication(total_liabilities, 0) = 0
  BY SMT DEF decimal_multiplication, IInv, TypeOK
<1>4. decimal_multiplication(0, ReserveFactor) = 0
  BY SMT DEF decimal_multiplication
<1>5. total_reserves + 0 = total_reserves
  BY DEF IInv, TypeOK
<1>6. QED
  BY <1>1, <1>2, <1>3, <1>4, <1>5 DEF compute_interest

\* A handler step stores the State compute_interest returned at this
\* height, whatever it did to total_liabilities.
LEMMA HandlerStamps ==
    ASSUME NEW r, NEW tl,
           StoreState([compute_interest(height, r) EXCEPT !.total_liabilities = tl])
    PROVE  /\ global_interest_index' = compute_interest(height, r).global_interest_index
           /\ total_reserves' = compute_interest(height, r).total_reserves
           /\ last_interest_updated' = height
           /\ total_liabilities' = tl
BY DEF StoreState, compute_interest

-----------------------------------------------------------------------------
(***************************************************************************)
(* The what-if query covers the debt.                                      *)
(***************************************************************************)

(***************************************************************************)
(* query_loan_amount answers at the current block and every later one, and *)
(* its quote is never below the borrower's current debt, for every number  *)
(* of borrowers, rates and amounts.                                        *)
(***************************************************************************)
THEOREM QueryCoversDebtInvariant == Spec => []QueryCoversDebt
<1>1. IInv => QueryCoversDebt
  <2> SUFFICES ASSUME IInv, NEW b \in Borrowers, NEW r \in Rates,
                      NEW h \in height..MaxHeight
               PROVE  /\ ~query_loan_amount(b, h, r).error
                      /\ query_loan_amount(b, h, r).loan_amount >= ProjectedLoan(b)
    BY DEF QueryCoversDebt
  <2> DEFINE st == compute_interest(h, r)
             L  == liabilities[b].loan_amount
             i  == liabilities[b].interest_index
  <2>1. h \in Nat /\ h >= last_interest_updated
    BY DEF IInv, TypeOK
  <2>2. ~ArithmeticOverflow(h)
    BY <2>1 DEF ArithmeticOverflow, IInv, TypeOK
  <2>3. st.global_interest_index \in Nat /\ st.global_interest_index >= global_interest_index
    BY <2>1, ComputeInterestFacts
  <2>4. L \in Nat /\ i \in Nat \ {0} /\ global_interest_index \in Nat
    BY DEF IInv, TypeOK, Liability
  <2>5. MulUintDec(L, decimal_division(global_interest_index, i))
          <= MulUintDec(L, decimal_division(st.global_interest_index, i))
    BY <2>3, <2>4, ProjMono
  <2>6. QED
    BY <2>2, <2>5 DEF query_loan_amount, ProjectedLoan, compute_loan
<1>2. QED
  BY <1>1, InitIInv, NextIInv, PTL DEF Spec

-----------------------------------------------------------------------------
(***************************************************************************)
(* Interest is charged once per block.                                     *)
(***************************************************************************)

ChargedOnceStep ==
    \/ global_interest_index' # global_interest_index
    \/ total_reserves' # total_reserves
    => /\ last_interest_updated < height
       /\ last_interest_updated' = height

\* Any handler: it stamps the block, and it accrues only if the stamp was
\* behind it.
LEMMA HandlerChargedOnce ==
    ASSUME IInv, NEW r \in Rates, NEW tl,
           StoreState([compute_interest(height, r) EXCEPT !.total_liabilities = tl])
    PROVE  ChargedOnceStep
<1>1. last_interest_updated' = height
  BY HandlerStamps
<1>2. CASE last_interest_updated = height
  <2>1. global_interest_index' = global_interest_index /\ total_reserves' = total_reserves
    BY <1>2, HandlerStamps, NoAccrualAtStamp
  <2>2. QED
    BY <2>1 DEF ChargedOnceStep
<1>3. CASE last_interest_updated # height
  BY <1>1, <1>3 DEF ChargedOnceStep, IInv, TypeOK
<1>4. QED
  BY <1>2, <1>3

LEMMA NextChargedOnce == IInv /\ [Next]_vars => [ChargedOnceStep]_vars
<1> SUFFICES ASSUME IInv, [Next]_vars PROVE [ChargedOnceStep]_vars
  OBVIOUS
<1>1. ASSUME NEW b \in Borrowers, NEW a \in Amounts, NEW r \in Rates,
             borrow_stable(b, a, r)
      PROVE  ChargedOnceStep
  BY <1>1, HandlerChargedOnce DEF borrow_stable
<1>2. ASSUME NEW b \in Borrowers, NEW a, NEW r \in Rates, repay_stable(b, a, r)
      PROVE  ChargedOnceStep
  BY <1>2, HandlerChargedOnce DEF repay_stable
<1>3. ASSUME NEW b \in Borrowers, NEW p, NEW c, NEW r \in Rates,
             repay_stable_from_liquidation(b, p, c, r)
      PROVE  ChargedOnceStep
  BY <1>3, <1>2 DEF repay_stable_from_liquidation
<1>4. CASE NewBlock \/ \E b \in Borrowers, l \in Limits : SetBorrowLimit(b, l)
  BY <1>4 DEF NewBlock, SetBorrowLimit, state_vars, ChargedOnceStep
<1>5. CASE UNCHANGED vars
  BY <1>5 DEF vars, state_vars
<1>6. QED
  BY <1>1, <1>2, <1>3, <1>4, <1>5 DEF Next

(***************************************************************************)
(* ChargedOnce holds of every behaviour: no transaction accrues interest   *)
(* over a block that an earlier transaction already charged.               *)
(***************************************************************************)
THEOREM ChargedOnceTheorem == Spec => ChargedOnce
BY InitIInv, NextIInv, NextChargedOnce, PTL DEF Spec, ChargedOnce, ChargedOnceStep

-----------------------------------------------------------------------------
(***************************************************************************)
(* The ledger moves with the money.                                        *)
(***************************************************************************)

LedgerStep ==
    /\ \A b \in Borrowers :
          net_lent'[b] # net_lent[b] =>
              total_liabilities' - total_liabilities
                  >= FromInt(net_lent'[b] - net_lent[b])
    /\ total_liabilities' < total_liabilities =>
          \E b \in Borrowers : net_lent'[b] < net_lent[b]

\* A borrow adds the accrued interest and the disbursement to the ledger.
LEMMA BorrowLedger ==
    ASSUME IInv, NEW b \in Borrowers, NEW a \in Amounts, NEW r \in Rates,
           borrow_stable(b, a, r)
    PROVE  LedgerStep
<1> DEFINE st == compute_interest(height, r)
<1>1. total_liabilities' = st.total_liabilities + FromInt(a)
  BY HandlerStamps DEF borrow_stable
<1>2. st.total_liabilities >= total_liabilities /\ st.total_liabilities \in Nat
  BY AccrualAdds, ComputeInterestFacts DEF IInv, TypeOK
<1>3. net_lent' = [net_lent EXCEPT ![b] = @ + a]
  BY DEF borrow_stable
<1>4. a \in Nat /\ net_lent \in [Borrowers -> Int] /\ total_liabilities \in Nat
  BY AmountsAssumption DEF IInv, TypeOK
<1>5. net_lent'[b] - net_lent[b] = a
  BY <1>3, <1>4
<1>6. \A c \in Borrowers \ {b} : net_lent'[c] = net_lent[c]
  BY <1>3, <1>4
<1>7. total_liabilities' - total_liabilities >= FromInt(a) /\ total_liabilities' >= total_liabilities
  BY <1>1, <1>2, <1>4, SMT DEF FromInt
<1>8. total_liabilities' \in Nat
  <2>1. FromInt(a) \in Nat
    BY <1>4, DecimalNat
  <2>2. QED
    BY <1>1, <1>2, <2>1
<1>9. ASSUME NEW c \in Borrowers, net_lent'[c] # net_lent[c]
      PROVE  total_liabilities' - total_liabilities >= FromInt(net_lent'[c] - net_lent[c])
  <2>1. c = b
    BY <1>6, <1>9
  <2>2. QED
    BY <2>1, <1>5, <1>7
<1>10. QED
  BY <1>4, <1>7, <1>8, <1>9 DEF LedgerStep

\* A repayment adds the accrued interest and takes at most what the market
\* keeps off the ledger; it lowers the ledger only if it kept something.
LEMMA RepayLedger ==
    ASSUME IInv, NEW b \in Borrowers, NEW a \in Nat, NEW r \in Rates,
           repay_stable(b, a, r)
    PROVE  LedgerStep
<1> DEFINE st   == compute_interest(height, r)
           liab == compute_loan(st, liabilities[b])
           rep  == IF liab.loan_amount < a THEN liab.loan_amount ELSE a
<1>1. total_liabilities' = decimal_subtraction(st.total_liabilities, FromInt(rep))
  BY HandlerStamps DEF repay_stable
<1>2. st.total_liabilities >= total_liabilities /\ st.total_liabilities \in Nat
  BY AccrualAdds, ComputeInterestFacts DEF IInv, TypeOK
<1>3. net_lent' = [net_lent EXCEPT ![b] = @ - rep]
  BY DEF repay_stable
<1>4. liab.loan_amount \in Nat
  BY StoredLiability
<1>5. rep \in Nat /\ net_lent \in [Borrowers -> Int] /\ total_liabilities \in Nat
  BY <1>4 DEF IInv, TypeOK
<1>6. net_lent'[b] - net_lent[b] = -rep
  BY <1>3, <1>5
<1>7. \A c \in Borrowers \ {b} : net_lent'[c] = net_lent[c]
  BY <1>3, <1>5
<1>8. total_liabilities' - total_liabilities >= FromInt(-rep)
  BY <1>1, <1>2, <1>5, SMT DEF decimal_subtraction, FromInt
<1>9. rep = 0 => total_liabilities' >= total_liabilities
  BY <1>1, <1>2, <1>5, SMT DEF decimal_subtraction, FromInt
<1>11. total_liabilities' \in Nat
  BY <1>1, <1>2, <1>5, DecimalNat
<1>10. QED
  <2>1. ASSUME NEW c \in Borrowers, net_lent'[c] # net_lent[c]
        PROVE  total_liabilities' - total_liabilities >= FromInt(net_lent'[c] - net_lent[c])
    BY <2>1, <1>6, <1>7, <1>8
  <2>2. ASSUME total_liabilities' < total_liabilities
        PROVE  net_lent'[b] < net_lent[b]
    <3>1. rep # 0
      BY <2>2, <1>5, <1>9, <1>11
    <3>2. net_lent'[b] = net_lent[b] - rep /\ net_lent[b] \in Int
      BY <1>3, <1>5
    <3>3. QED
      BY <3>1, <3>2, <1>5
  <2>3. QED
    BY <2>1, <2>2 DEF LedgerStep

LEMMA NextLedger == IInv /\ [Next]_vars => [LedgerStep]_vars
<1> SUFFICES ASSUME IInv, [Next]_vars PROVE [LedgerStep]_vars
  OBVIOUS
<1>1. CASE \E b \in Borrowers, a \in Amounts, r \in Rates : borrow_stable(b, a, r)
  BY <1>1, BorrowLedger
<1>2. CASE \E b \in Borrowers, a \in Amounts, r \in Rates : repay_stable(b, a, r)
  BY <1>2, RepayLedger, AmountsAssumption
<1>3. CASE \E b \in Borrowers, p, c \in Amounts, r \in Rates :
              repay_stable_from_liquidation(b, p, c, r)
  <2>1. PICK b \in Borrowers, p, c \in Amounts, r \in Rates :
              repay_stable_from_liquidation(b, p, c, r)
    BY <1>3
  <2>2. c - p \in Nat /\ repay_stable(b, c - p, r)
    BY <2>1, AmountsAssumption DEF repay_stable_from_liquidation
  <2>3. QED
    BY <2>2, RepayLedger
<1>4. CASE NewBlock \/ \E b \in Borrowers, l \in Limits : SetBorrowLimit(b, l)
  BY <1>4 DEF NewBlock, SetBorrowLimit, state_vars, LedgerStep, IInv, TypeOK
<1>5. CASE UNCHANGED vars
  BY <1>5 DEF vars, state_vars
<1>6. QED
  BY <1>1, <1>2, <1>3, <1>4, <1>5 DEF Next

(***************************************************************************)
(* LedgerFollowsLending holds of every behaviour: no transaction lowers    *)
(* total_liabilities by more than a repayment kept, and none lowers it     *)
(* without a repayment, for every number of borrowers.                     *)
(***************************************************************************)
THEOREM LedgerFollowsLendingTheorem == Spec => LedgerFollowsLending
BY InitIInv, NextIInv, NextLedger, PTL DEF Spec, LedgerFollowsLending, LedgerStep
=============================================================================
