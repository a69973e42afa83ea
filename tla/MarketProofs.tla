---------------------------- MODULE MarketProofs ----------------------------
(***************************************************************************)
(* Proofs about Market: the type invariant and IndexOrder (every stored    *)
(* liability index lies between Decimal::one() and the global index), for  *)
(* every value of the constants that satisfies Market's assumptions.       *)
(***************************************************************************)
EXTENDS Market, TLAPS

USE ScaleAssumption, RatesAssumption, ReserveFactorAssumption,
    AmountsAssumption, LimitsAssumption, MaxHeightAssumption

-----------------------------------------------------------------------------
(***************************************************************************)
(* Lemmas about the fixed-point primitives.                                *)
(***************************************************************************)

\* Truncating division of naturals by S stays a natural.
LEMMA DivNat ==
    ASSUME NEW x \in Nat
    PROVE  x \div S \in Nat
BY SMT

\* decimal_multiplication by a factor of at least one never shrinks a value:
\* the step of compute_interest that grows the index by One + factor.
LEMMA MulGrowNotLess ==
    ASSUME NEW a \in Nat, NEW f \in Nat
    PROVE  decimal_multiplication(a, One + f) >= a
<1>1. a * (S + f) = a * S + a * f
  BY SMT
<1>2. a * f \in Nat
  BY SMT
<1>3. (a * S + a * f) \div S = a + (a * f) \div S
  BY <1>2, SMT
<1>4. (a * f) \div S \in Nat
  BY <1>2, DivNat
<1>5. QED
  BY <1>1, <1>3, <1>4 DEF decimal_multiplication, One

\* decimal_multiplication and decimal_division of naturals are naturals.
LEMMA DecimalNat ==
    ASSUME NEW a \in Nat, NEW b \in Nat
    PROVE  /\ decimal_multiplication(a, b) \in Nat
           /\ MulUintDec(a, b) \in Nat
           /\ (b # 0 => decimal_division(a, b) \in Nat)
           /\ decimal_subtraction(a, b) \in Nat
           /\ FromInt(a) \in Nat
<1>1. a * b \in Nat /\ a * S \in Nat
  BY SMT
<1>2. decimal_multiplication(a, b) \in Nat /\ MulUintDec(a, b) \in Nat
  BY <1>1, DivNat DEF decimal_multiplication, MulUintDec
<1>3. b # 0 => decimal_division(a, b) \in Nat
  BY <1>1, SMT DEF decimal_division
<1>4. decimal_subtraction(a, b) \in Nat
  BY SMT DEF decimal_subtraction
<1>5. QED
  BY <1>1, <1>2, <1>3, <1>4 DEF FromInt

-----------------------------------------------------------------------------
(***************************************************************************)
(* What compute_interest and compute_loan return, from a typed state.      *)
(***************************************************************************)

\* The inductive invariant: the type invariant, IndexOrder, and the global
\* index itself at least one (IndexOrder alone says nothing of it when no
\* borrower exists).
IInv == TypeOK /\ last_interest_updated <= height
        /\ One <= global_interest_index /\ IndexOrder

LEMMA ComputeInterestFacts ==
    ASSUME IInv, NEW h \in Nat, NEW r \in Rates, h >= last_interest_updated
    PROVE  LET st == compute_interest(h, r)
           IN  /\ st.total_liabilities \in Nat
               /\ st.total_reserves \in Nat
               /\ st.global_interest_index \in Nat
               /\ st.global_interest_index >= global_interest_index
               /\ st.last_interest_updated = h
<1> DEFINE f == decimal_multiplication(FromInt(h - last_interest_updated), r)
           a == decimal_multiplication(total_liabilities, f)
<1>1. h - last_interest_updated \in Nat
  BY DEF IInv, TypeOK
<1>2. f \in Nat
  BY <1>1, DecimalNat
<1>3. a \in Nat
  BY <1>2, DecimalNat DEF IInv, TypeOK
<1>4. decimal_multiplication(a, ReserveFactor) \in Nat
  BY <1>3, DecimalNat
<1>5. decimal_multiplication(global_interest_index, One + f) >= global_interest_index
  BY <1>2, MulGrowNotLess DEF IInv, TypeOK
<1>6. decimal_multiplication(global_interest_index, One + f) \in Nat
  <2>1. One + f \in Nat
    BY <1>2 DEF One
  <2>2. QED
    BY <2>1, DecimalNat DEF IInv, TypeOK
<1>7. QED
  BY <1>3, <1>4, <1>5, <1>6 DEF compute_interest, IInv, TypeOK

LEMMA ComputeLoanFacts ==
    ASSUME NEW st, NEW liab \in Liability, st.global_interest_index \in Nat
    PROVE  /\ compute_loan(st, liab).loan_amount \in Nat
           /\ compute_loan(st, liab).interest_index = st.global_interest_index
<1>1. decimal_division(st.global_interest_index, liab.interest_index) \in Nat
  BY DecimalNat DEF Liability
<1>2. QED
  BY <1>1, DecimalNat DEF compute_loan, Liability

-----------------------------------------------------------------------------
(***************************************************************************)
(* The invariant holds initially and is preserved by every action.         *)
(***************************************************************************)

LEMMA InitIInv == Init => IInv
BY DEF Init, IInv, TypeOK, IndexOrder, DefaultLiability, Liability, One

\* The state a handler stores after accrual: its global index grew, it is
\* at least one, and the stored liability of b carries it.
LEMMA HandlerIInv ==
    ASSUME IInv, NEW b \in Borrowers, NEW r \in Rates,
           NEW newLiab \in Liability, NEW tl \in Nat,
           total_liabilities' = tl,
           total_reserves' = compute_interest(height, r).total_reserves,
           global_interest_index' = compute_interest(height, r).global_interest_index,
           last_interest_updated' = compute_interest(height, r).last_interest_updated,
           newLiab.interest_index = global_interest_index',
           liabilities' = [liabilities EXCEPT ![b] = newLiab],
           net_lent' \in [Borrowers -> Int],
           UNCHANGED <<height, borrow_limit>>
    PROVE  IInv'
<1>1. /\ compute_interest(height, r).total_reserves \in Nat
      /\ compute_interest(height, r).global_interest_index \in Nat
      /\ compute_interest(height, r).global_interest_index >= global_interest_index
      /\ compute_interest(height, r).last_interest_updated = height
  BY ComputeInterestFacts DEF IInv, TypeOK
<1>2. One <= global_interest_index'
  <2>1. global_interest_index' >= global_interest_index
        /\ global_interest_index' \in Nat
    BY <1>1
  <2>2. One <= global_interest_index /\ global_interest_index \in Nat
    BY DEF IInv, TypeOK
  <2>3. QED
    BY <2>1, <2>2, ScaleAssumption DEF One
<1>3. liabilities' \in [Borrowers -> Liability]
  BY DEF IInv, TypeOK
<1>4. TypeOK'
  BY <1>1, <1>2, <1>3, ScaleAssumption DEF IInv, TypeOK, One
<1>5. IndexOrder'
  <2> SUFFICES ASSUME NEW c \in Borrowers
               PROVE  /\ One <= liabilities'[c].interest_index
                      /\ liabilities'[c].interest_index <= global_interest_index'
    BY DEF IndexOrder
  <2>1. CASE c = b
    <3>1. liabilities'[c] = newLiab
      BY <2>1 DEF IInv, TypeOK
    <3>2. QED
      BY <3>1, <1>1, <1>2
  <2>2. CASE c # b
    <3>1. liabilities'[c] = liabilities[c]
      BY <2>2 DEF IInv, TypeOK
    <3>2. liabilities[c].interest_index \in Nat /\ global_interest_index \in Nat
      BY DEF IInv, TypeOK, Liability
    <3>3. One <= liabilities[c].interest_index
          /\ liabilities[c].interest_index <= global_interest_index
      BY DEF IInv, IndexOrder
    <3>4. global_interest_index <= global_interest_index'
          /\ global_interest_index' \in Nat
      BY <1>1
    <3>5. liabilities'[c].interest_index = liabilities[c].interest_index
      BY <3>1
    <3>6. QED
      BY <3>2, <3>3, <3>4, <3>5
  <2>3. QED
    BY <2>1, <2>2
<1>6. (last_interest_updated <= height)'
  BY <1>1 DEF IInv, TypeOK
<1>7. QED
  BY <1>2, <1>4, <1>5, <1>6 DEF IInv

\* The liability a handler stores: the projection of b's record to the
\* accrued index, with its loan_amount replaced by a natural.
LEMMA StoredLiability ==
    ASSUME IInv, NEW b \in Borrowers, NEW r \in Rates, NEW n \in Nat
    PROVE  LET liab == compute_loan(compute_interest(height, r), liabilities[b])
           IN  /\ liab.loan_amount \in Nat
               /\ [liab EXCEPT !.loan_amount = n] \in Liability
               /\ [liab EXCEPT !.loan_amount = n].interest_index
                    = compute_interest(height, r).global_interest_index
<1> DEFINE st == compute_interest(height, r)
           liab == compute_loan(st, liabilities[b])
<1>1. /\ st.global_interest_index \in Nat
      /\ st.global_interest_index >= global_interest_index
  BY ComputeInterestFacts DEF IInv, TypeOK
<1>2. st.global_interest_index \in Nat \ {0}
  BY <1>1, ScaleAssumption DEF IInv, TypeOK, One
<1>3. /\ liab.loan_amount \in Nat
      /\ liab.interest_index = st.global_interest_index
  BY <1>1, ComputeLoanFacts DEF IInv, TypeOK
<1>4. liab = [loan_amount |-> liab.loan_amount, interest_index |-> liab.interest_index]
  BY DEF compute_loan
<1>5. QED
  BY <1>2, <1>3, <1>4 DEF Liability

LEMMA BorrowIInv ==
    ASSUME IInv, NEW b \in Borrowers, NEW a \in Amounts, NEW r \in Rates,
           borrow_stable(b, a, r)
    PROVE  IInv'
<1> DEFINE st == compute_interest(height, r)
           liab == compute_loan(st, liabilities[b])
<1>1. a \in Nat
  BY AmountsAssumption
<1>2. liab.loan_amount \in Nat
  BY StoredLiability
<1>3. /\ [liab EXCEPT !.loan_amount = liab.loan_amount + a] \in Liability
      /\ [liab EXCEPT !.loan_amount = liab.loan_amount + a].interest_index
            = st.global_interest_index
  <2>1. liab.loan_amount + a \in Nat
    BY <1>1, <1>2
  <2>2. QED
    BY <2>1, StoredLiability
<1>4. st.total_liabilities \in Nat
  <2>1. height \in Nat /\ height >= last_interest_updated
    BY DEF IInv, TypeOK
  <2>2. QED
    BY <2>1, ComputeInterestFacts
<1>5. st.total_liabilities + FromInt(a) \in Nat
  BY <1>1, <1>4, ScaleAssumption DEF FromInt
<1>6. /\ total_liabilities' = st.total_liabilities + FromInt(a)
      /\ total_reserves' = st.total_reserves
      /\ global_interest_index' = st.global_interest_index
      /\ last_interest_updated' = st.last_interest_updated
      /\ liabilities' = [liabilities EXCEPT ![b] =
                            [liab EXCEPT !.loan_amount = liab.loan_amount + a]]
      /\ net_lent' = [net_lent EXCEPT ![b] = net_lent[b] + a]
      /\ UNCHANGED <<height, borrow_limit>>
  BY DEF borrow_stable, StoreState, compute_interest
<1>7. net_lent' \in [Borrowers -> Int]
  BY <1>1, <1>6 DEF IInv, TypeOK
<1>8. QED
  BY <1>3, <1>5, <1>6, <1>7, HandlerIInv

LEMMA RepayIInv ==
    ASSUME IInv, NEW b \in Borrowers, NEW a \in Nat, NEW r \in Rates,
           repay_stable(b, a, r)
    PROVE  IInv'
<1> DEFINE st == compute_interest(height, r)
           liab == compute_loan(st, liabilities[b])
           rep == IF liab.loan_amount < a THEN liab.loan_amount ELSE a
<1>1. liab.loan_amount \in Nat
  BY StoredLiability
<1>2. rep \in Nat /\ liab.loan_amount - rep \in Nat
  BY <1>1
<1>3. /\ [liab EXCEPT !.loan_amount = liab.loan_amount - rep] \in Liability
      /\ [liab EXCEPT !.loan_amount = liab.loan_amount - rep].interest_index
            = st.global_interest_index
  BY <1>2, StoredLiability
<1>4. decimal_subtraction(st.total_liabilities, FromInt(rep)) \in Nat
  BY <1>2, ComputeInterestFacts, DecimalNat DEF IInv, TypeOK
<1>5. /\ total_liabilities' = decimal_subtraction(st.total_liabilities, FromInt(rep))
      /\ total_reserves' = st.total_reserves
      /\ global_interest_index' = st.global_interest_index
      /\ last_interest_updated' = st.last_interest_updated
      /\ liabilities' = [liabilities EXCEPT ![b] =
                            [liab EXCEPT !.loan_amount = liab.loan_amount - rep]]
      /\ net_lent' = [net_lent EXCEPT ![b] = net_lent[b] - rep]
      /\ UNCHANGED <<height, borrow_limit>>
  BY DEF repay_stable, StoreState, compute_interest
<1>6. net_lent' \in [Borrowers -> Int]
  BY <1>2, <1>5 DEF IInv, TypeOK
<1>7. QED
  BY <1>3, <1>4, <1>5, <1>6, HandlerIInv

LEMMA EnvironmentIInv ==
    ASSUME IInv, \/ NewBlock
                 \/ \E b \in Borrowers, l \in Limits : SetBorrowLimit(b, l)
    PROVE  IInv'
BY DEF IInv, TypeOK, IndexOrder, NewBlock, SetBorrowLimit, state_vars

LEMMA NextIInv == IInv /\ [Next]_vars => IInv'
<1> SUFFICES ASSUME IInv, [Next]_vars PROVE IInv'
  OBVIOUS
<1>1. CASE \E b \in Borrowers, a \in Amounts, r \in Rates : borrow_stable(b, a, r)
  BY <1>1, BorrowIInv
<1>2. CASE \E b \in Borrowers, a \in Amounts, r \in Rates : repay_stable(b, a, r)
  BY <1>2, RepayIInv, AmountsAssumption
<1>3. CASE \E b \in Borrowers, p, c \in Amounts, r \in Rates :
              repay_stable_from_liquidation(b, p, c, r)
  <2>1. PICK b \in Borrowers, p, c \in Amounts, r \in Rates :
              repay_stable_from_liquidation(b, p, c, r)
    BY <1>3
  <2>2. c - p \in Nat /\ repay_stable(b, c - p, r)
    BY <2>1, AmountsAssumption DEF repay_stable_from_liquidation
  <2>3. QED
    BY <2>2, RepayIInv
<1>4. CASE NewBlock \/ \E b \in Borrowers, l \in Limits : SetBorrowLimit(b, l)
  BY <1>4, EnvironmentIInv
<1>5. CASE UNCHANGED vars
  BY <1>5 DEF IInv, TypeOK, IndexOrder, vars, state_vars
<1>6. QED
  BY <1>1, <1>2, <1>3, <1>4, <1>5 DEF Next

-----------------------------------------------------------------------------
(***************************************************************************)
(* Every reachable state is well typed: the ledger aggregates are          *)
(* non-negative Decimals, the global index is a positive Decimal, and each *)
(* borrower's Liability has a natural loan_amount and a positive index, so *)
(* repay_stable's subtractions never underflow.                            *)
(***************************************************************************)
THEOREM TypeCorrect == Spec => []TypeOK
<1>1. Init => IInv
  BY InitIInv
<1>2. IInv /\ [Next]_vars => IInv'
  BY NextIInv
<1>3. IInv => TypeOK
  BY DEF IInv
<1>4. QED
  BY <1>1, <1>2, <1>3, PTL DEF Spec

(***************************************************************************)
(* IndexOrder holds in every reachable state: compute_loan never divides   *)
(* by a zero interest_index and its ratio global / stored index is at      *)
(* least one, for every number of borrowers, rates and amounts.            *)
(***************************************************************************)
THEOREM IndexOrderInvariant == Spec => []IndexOrder
<1>1. IInv => IndexOrder
  BY DEF IInv
<1>2. QED
  BY <1>1, InitIInv, NextIInv, PTL DEF Spec
=============================================================================
