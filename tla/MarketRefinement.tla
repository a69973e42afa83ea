-------------------------- MODULE MarketRefinement --------------------------
(***************************************************************************)
(* Proof that Market implements LoanBook under the mapping LB of Market:   *)
(* a borrower's debt is its Liability projected to the global index.  The  *)
(* argument rests on two facts about compute_loan's projection:           *)
(*  - it is monotone in the global index (ProjMono), so accrual never      *)
(*    lowers a bystander's debt;                                           *)
(*  - a record stamped with the current index projects to itself           *)
(*    (ProjSelf), so the record a handler stores is the debt LoanBook sees.*)
(* and on IInv of MarketProofs, which gives every index at least one and  *)
(* accrual a global index that never falls.                                *)
(***************************************************************************)
EXTENDS MarketProofs

\* Truncating division by a positive natural is monotone.
LEMMA DivMono ==
    ASSUME NEW x \in Nat, NEW y \in Nat, NEW d \in Nat \ {0}, x <= y
    PROVE  x \div d <= y \div d
BY SMT

\* compute_loan's projected amount grows with the index it projects to.
LEMMA ProjMono ==
    ASSUME NEW L \in Nat, NEW i \in Nat \ {0}, NEW g \in Nat, NEW h \in Nat,
           g <= h
    PROVE  MulUintDec(L, decimal_division(g, i))
              <= MulUintDec(L, decimal_division(h, i))
<1>1. g * S \in Nat /\ h * S \in Nat /\ g * S <= h * S
  BY ScaleAssumption, SMT
<1>2. decimal_division(g, i) <= decimal_division(h, i)
  BY <1>1, DivMono DEF decimal_division
<1>3. decimal_division(g, i) \in Nat /\ decimal_division(h, i) \in Nat
  BY DecimalNat
<1>4. /\ L * decimal_division(g, i) \in Nat
      /\ L * decimal_division(h, i) \in Nat
      /\ L * decimal_division(g, i) <= L * decimal_division(h, i)
  BY <1>2, <1>3, SMT
<1>5. QED
  BY <1>4, DivMono, ScaleAssumption DEF MulUintDec

\* A record whose index is the global index projects to its own amount.
LEMMA ProjSelf ==
    ASSUME NEW L \in Nat, NEW g \in Nat \ {0}
    PROVE  MulUintDec(L, decimal_division(g, g)) = L
<1>1. (g * S) \div g = S
  BY ScaleAssumption, SMT
<1>2. (L * S) \div S = L
  BY ScaleAssumption, SMT
<1>3. QED
  BY <1>1, <1>2 DEF MulUintDec, decimal_division

-----------------------------------------------------------------------------
(***************************************************************************)
(* What a handler's stored record does to the projected debts: b's debt    *)
(* becomes the amount n stored, which the accrued projection of b's old    *)
(* record bounds from above the old debt; every other debt grows or stays. *)
(***************************************************************************)
LEMMA HandlerProjection ==
    ASSUME IInv, NEW b \in Borrowers, NEW r \in Rates, NEW n \in Nat,
           global_interest_index' = compute_interest(height, r).global_interest_index,
           liabilities' = [liabilities EXCEPT ![b] =
                 [compute_loan(compute_interest(height, r), liabilities[b])
                     EXCEPT !.loan_amount = n]]
    PROVE  /\ ProjectedLoan(b)' = n
           /\ ProjectedLoan(b)
                <= compute_loan(compute_interest(height, r), liabilities[b]).loan_amount
           /\ \A c \in Borrowers \ {b} : ProjectedLoan(c)' >= ProjectedLoan(c)
           /\ \A c \in Borrowers : ProjectedLoan(c)' \in Nat
<1> DEFINE g  == global_interest_index
           g2 == compute_interest(height, r).global_interest_index
<1>1. g \in Nat \ {0} /\ g2 \in Nat /\ g <= g2
  <2>1. height \in Nat /\ height >= last_interest_updated
    BY DEF IInv, TypeOK
  <2>2. QED
    BY <2>1, ComputeInterestFacts DEF IInv, TypeOK
<1>2. g2 \in Nat \ {0}
  BY <1>1
<1>3. \A c \in Borrowers : liabilities[c] \in Liability
  BY DEF IInv, TypeOK
<1>4. liabilities'[b] = [loan_amount |-> n, interest_index |-> g2]
  <2> DEFINE liab == compute_loan(compute_interest(height, r), liabilities[b])
  <2>1. liab = [loan_amount |-> liab.loan_amount, interest_index |-> g2]
    BY DEF compute_loan
  <2>2. [liab EXCEPT !.loan_amount = n] = [loan_amount |-> n, interest_index |-> g2]
    BY <2>1
  <2>3. liabilities \in [Borrowers -> Liability]
    BY DEF IInv, TypeOK
  <2>4. QED
    BY <2>2, <2>3
<1>5. ProjectedLoan(b)' = n
  <2>1. ProjectedLoan(b)' = MulUintDec(n, decimal_division(g2, g2))
    BY <1>4 DEF ProjectedLoan, compute_loan
  <2>2. QED
    BY <2>1, <1>2, ProjSelf
<1>6. ProjectedLoan(b)
        <= compute_loan(compute_interest(height, r), liabilities[b]).loan_amount
  BY <1>1, <1>3, ProjMono DEF ProjectedLoan, compute_loan, Liability
<1>7. ASSUME NEW c \in Borrowers \ {b}
      PROVE  /\ ProjectedLoan(c)' >= ProjectedLoan(c)
             /\ ProjectedLoan(c)' \in Nat
  <2>1. liabilities'[c] = liabilities[c]
    BY <1>3
  <2>2. ProjectedLoan(c)' = MulUintDec(liabilities[c].loan_amount,
                                       decimal_division(g2, liabilities[c].interest_index))
    BY <2>1 DEF ProjectedLoan, compute_loan
  <2>3. liabilities[c].loan_amount \in Nat /\ liabilities[c].interest_index \in Nat \ {0}
    BY <1>3 DEF Liability
  <2>4. ProjectedLoan(c)' \in Nat
    <3>1. decimal_division(g2, liabilities[c].interest_index) \in Nat
      BY <1>1, <2>3, DecimalNat
    <3>2. QED
      BY <2>2, <2>3, <3>1, DecimalNat
  <2>5. QED
    BY <1>1, <2>2, <2>3, <2>4, ProjMono DEF ProjectedLoan, compute_loan
<1>8. QED
  BY <1>5, <1>6, <1>7

-----------------------------------------------------------------------------
(***************************************************************************)
(* Each handler is a LoanBook step.                                        *)
(***************************************************************************)

\* Tendered holds every amount a sender attaches and every balance difference
\* a liquidation repays.
LEMMA TenderedFacts ==
    /\ Amounts \subseteq Tendered
    /\ \A p, c \in Amounts : p <= c => c - p \in Tendered
    /\ Tendered \subseteq Nat
<1>1. Amounts \subseteq Tendered
  BY DEF Tendered
<1>2. ASSUME NEW p \in Amounts, NEW c \in Amounts, p <= c
      PROVE  c - p \in Tendered
  <2>1. c - p \in Nat
    BY <1>2, AmountsAssumption
  <2>2. c - p \in {y - x : y, x \in Amounts}
    BY <1>2
  <2>3. QED
    BY <2>1, <2>2 DEF Tendered
<1>3. ASSUME NEW x \in Tendered PROVE x \in Nat
  <2>1. x \in Amounts \/ x \in Nat
    BY <1>3 DEF Tendered
  <2>2. QED
    BY <2>1, AmountsAssumption
<1>4. QED
  BY <1>1, <1>2, <1>3

LEMMA BorrowRefines ==
    ASSUME IInv, NEW b \in Borrowers, NEW a \in Amounts, NEW r \in Rates,
           borrow_stable(b, a, r)
    PROVE  LB!Borrow(b, a)
<1> DEFINE liab == compute_loan(compute_interest(height, r), liabilities[b])
<1>1. a \in Nat /\ liab.loan_amount \in Nat /\ liab.loan_amount + a \in Nat
  <2>1. a \in Nat
    BY AmountsAssumption
  <2>2. liab.loan_amount \in Nat
    BY StoredLiability
  <2>3. QED
    BY <2>1, <2>2
<1>2. /\ ~(borrow_limit[b] < a + liab.loan_amount)
      /\ global_interest_index' = compute_interest(height, r).global_interest_index
      /\ liabilities' = [liabilities EXCEPT ![b] =
                            [liab EXCEPT !.loan_amount = liab.loan_amount + a]]
      /\ net_lent' = [net_lent EXCEPT ![b] = net_lent[b] + a]
      /\ UNCHANGED borrow_limit
  BY DEF borrow_stable, StoreState
<1>3. /\ ProjectedLoan(b)' = liab.loan_amount + a
      /\ ProjectedLoan(b) <= liab.loan_amount
      /\ \A c \in Borrowers \ {b} : ProjectedLoan(c)' >= ProjectedLoan(c)
      /\ \A c \in Borrowers : ProjectedLoan(c)' \in Nat
  BY <1>1, <1>2, HandlerProjection
<1>4. ProjectedLoan(b) \in Nat /\ borrow_limit[b] \in Nat
  BY DecimalNat, LimitsAssumption DEF IInv, TypeOK, ProjectedLoan, compute_loan, Liability
<1>5. QED
  BY <1>1, <1>2, <1>3, <1>4 DEF LB!Borrow, LB!Bystanders

LEMMA RepayRefines ==
    ASSUME IInv, NEW b \in Borrowers, NEW a \in Nat, NEW r \in Rates,
           repay_stable(b, a, r)
    PROVE  LB!Repay(b, a)
<1> DEFINE liab == compute_loan(compute_interest(height, r), liabilities[b])
           rep  == IF liab.loan_amount < a THEN liab.loan_amount ELSE a
<1>1. liab.loan_amount \in Nat /\ rep \in 0..a /\ liab.loan_amount - rep \in Nat
  <2>1. liab.loan_amount \in Nat
    BY StoredLiability
  <2>2. QED
    BY <2>1
<1>2. /\ a # 0
      /\ global_interest_index' = compute_interest(height, r).global_interest_index
      /\ liabilities' = [liabilities EXCEPT ![b] =
                            [liab EXCEPT !.loan_amount = liab.loan_amount - rep]]
      /\ net_lent' = [net_lent EXCEPT ![b] = net_lent[b] - rep]
      /\ UNCHANGED borrow_limit
  BY DEF repay_stable, StoreState
<1>3. /\ ProjectedLoan(b)' = liab.loan_amount - rep
      /\ ProjectedLoan(b) <= liab.loan_amount
      /\ \A c \in Borrowers \ {b} : ProjectedLoan(c)' >= ProjectedLoan(c)
      /\ \A c \in Borrowers : ProjectedLoan(c)' \in Nat
  BY <1>1, <1>2, HandlerProjection
<1>4. ProjectedLoan(b) \in Nat
  BY DecimalNat DEF IInv, TypeOK, ProjectedLoan, compute_loan, Liability
<1>5. /\ ProjectedLoan(b) <= ProjectedLoan(b)' + rep
      /\ rep < a => ProjectedLoan(b)' = 0
  BY <1>1, <1>3, <1>4
<1>6. QED
  BY <1>1, <1>2, <1>3, <1>5 DEF LB!Repay, LB!Bystanders

\* The environment's steps: a new block leaves the mapped state alone, and
\* the overseer's new limit is LoanBook's.
LEMMA NewBlockRefines == NewBlock => UNCHANGED LB!vars
BY DEF NewBlock, state_vars, LB!vars, ProjectedLoan, compute_loan

LEMMA SetBorrowLimitRefines ==
    ASSUME NEW b \in Borrowers, NEW l \in Limits
    PROVE  SetBorrowLimit(b, l) => LB!SetLimit(b, l)
BY DEF SetBorrowLimit, state_vars, LB!SetLimit, ProjectedLoan, compute_loan

LEMMA InitRefines == Init => LB!Init
<1> SUFFICES ASSUME Init PROVE LB!Init
  OBVIOUS
<1>1. ASSUME NEW b \in Borrowers PROVE ProjectedLoan(b) = 0
  <2>1. liabilities[b] = [loan_amount |-> 0, interest_index |-> S]
        /\ global_interest_index = S
    BY <1>1 DEF Init, DefaultLiability, One
  <2>2. MulUintDec(0, decimal_division(S, S)) = 0
    BY ScaleAssumption, ProjSelf
  <2>3. QED
    BY <2>1, <2>2 DEF ProjectedLoan, compute_loan
<1>2. QED
  BY <1>1 DEF Init, LB!Init

LEMMA NextRefines == IInv /\ [Next]_vars => [LB!Next]_LB!vars
<1> SUFFICES ASSUME IInv, [Next]_vars PROVE [LB!Next]_LB!vars
  OBVIOUS
<1>1. CASE \E b \in Borrowers, a \in Amounts, r \in Rates : borrow_stable(b, a, r)
  <2>1. PICK b \in Borrowers, a \in Amounts, r \in Rates : borrow_stable(b, a, r)
    BY <1>1
  <2>2. LB!Borrow(b, a) /\ a \in Tendered
    BY <2>1, BorrowRefines, TenderedFacts
  <2>3. QED
    BY <2>2 DEF LB!Next
<1>2. CASE \E b \in Borrowers, a \in Amounts, r \in Rates : repay_stable(b, a, r)
  <2>1. PICK b \in Borrowers, a \in Amounts, r \in Rates : repay_stable(b, a, r)
    BY <1>2
  <2>2. LB!Repay(b, a) /\ a \in Tendered
    BY <2>1, RepayRefines, TenderedFacts, AmountsAssumption
  <2>3. QED
    BY <2>2 DEF LB!Next
<1>3. CASE \E b \in Borrowers, p, c \in Amounts, r \in Rates :
              repay_stable_from_liquidation(b, p, c, r)
  <2>1. PICK b \in Borrowers, p, c \in Amounts, r \in Rates :
              repay_stable_from_liquidation(b, p, c, r)
    BY <1>3
  <2>2. c - p \in Tendered /\ c - p \in Nat /\ repay_stable(b, c - p, r)
    BY <2>1, TenderedFacts, AmountsAssumption DEF repay_stable_from_liquidation
  <2>3. LB!Repay(b, c - p)
    BY <2>2, RepayRefines
  <2>4. QED
    BY <2>2, <2>3 DEF LB!Next
<1>4. CASE NewBlock
  BY <1>4, NewBlockRefines
<1>5. CASE \E b \in Borrowers, l \in Limits : SetBorrowLimit(b, l)
  BY <1>5, SetBorrowLimitRefines DEF LB!Next
<1>6. CASE UNCHANGED vars
  BY <1>6 DEF vars, state_vars, LB!vars, ProjectedLoan, compute_loan
<1>7. QED
  BY <1>1, <1>2, <1>3, <1>4, <1>5, <1>6 DEF Next

-----------------------------------------------------------------------------
(***************************************************************************)
(* Market implements LoanBook: from any number of borrowers, rates,        *)
(* amounts and limits, every behaviour of the borrow side is a LoanBook    *)
(* behaviour under the mapping LB.  Every borrow stays within the          *)
(* overseer's limit with the interest accrued up to its block counted; no  *)
(* handler of one borrower lowers another's projected debt; a repayment or *)
(* a liquidation repayment lowers the payer's debt by exactly what the     *)
(* market keeps and keeps less than the tender only when the debt is       *)
(* cleared.  This is the property LoanBookRefined that TLC checks.         *)
(***************************************************************************)
THEOREM Refinement == Spec => LoanBookRefined
<1>1. Init => LB!Init
  BY InitRefines
<1>2. IInv /\ [Next]_vars => [LB!Next]_LB!vars
  BY NextRefines
<1>3. QED
  BY <1>1, <1>2, InitIInv, NextIInv, PTL DEF Spec, LoanBookRefined, LB!Spec

=============================================================================
