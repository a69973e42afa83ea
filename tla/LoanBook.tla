------------------------------ MODULE LoanBook ------------------------------
(***************************************************************************)
(* What the borrow side promises each borrower (spec sections 3, 4.4 and   *)
(* 4.5), with no fixed-point arithmetic and no interest index: every       *)
(* borrower has a current debt in whole units.                             *)
(*                                                                         *)
(*  - Interest only ever adds to a debt, and one borrower's operation      *)
(*    never lowers another borrower's debt.                                *)
(*  - A borrow of a adds at least a to the borrower's debt and leaves it   *)
(*    within the borrower's limit.                                         *)
(*  - A repayment tendered as a keeps kept <= a of it: the debt, interest  *)
(*    accrued included, falls by exactly kept, and the market keeps less   *)
(*    than the tender only when that clears the debt.                      *)
(*                                                                         *)
(* How much interest accrues is left open: the detailed specification     *)
(* fixes it.  lent is what was disbursed to a borrower less what its       *)
(* repayments kept.                                                        *)
(***************************************************************************)
EXTENDS Integers, TLAPS

CONSTANTS
    Borrowers,  \* borrower identities
    Amounts,    \* amounts a borrower may request or tender
    Limits      \* limits the limit authority may answer

VARIABLES
    debt,       \* borrower -> current debt
    limit,      \* borrower -> the limit authority's current answer
    lent        \* borrower -> disbursed less what repayments kept

vars == <<debt, limit, lent>>

Init ==
    /\ debt = [b \in Borrowers |-> 0]
    /\ limit \in [Borrowers -> Limits]
    /\ lent = [b \in Borrowers |-> 0]

\* Interest may accrue to every borrower other than b; none of them loses debt.
Bystanders(b) == \A c \in Borrowers \ {b} : debt'[c] >= debt[c]

Borrow(b, a) ==
    /\ lent' = [lent EXCEPT ![b] = @ + a]
    /\ UNCHANGED limit
    /\ debt' \in [Borrowers -> Nat]
    /\ debt[b] + a <= debt'[b]
    /\ debt'[b] <= limit[b]
    /\ Bystanders(b)

Repay(b, a) ==
    /\ a # 0
    /\ UNCHANGED limit
    /\ \E kept \in 0..a :
          /\ lent' = [lent EXCEPT ![b] = @ - kept]
          /\ debt[b] <= debt'[b] + kept
          /\ kept < a => debt'[b] = 0
    /\ debt' \in [Borrowers -> Nat]
    /\ Bystanders(b)

SetLimit(b, l) ==
    /\ limit' = [limit EXCEPT ![b] = l]
    /\ UNCHANGED <<debt, lent>>

Next ==
    \E b \in Borrowers :
        \/ \E a \in Amounts : Borrow(b, a) \/ Repay(b, a)
        \/ \E l \in Limits : SetLimit(b, l)

Spec == Init /\ [][Next]_vars

-----------------------------------------------------------------------------
\* Every debt is a natural and lent is an integer per borrower.
TypeOK ==
    /\ debt \in [Borrowers -> Nat]
    /\ limit \in [Borrowers -> Limits]
    /\ lent \in [Borrowers -> Int]

(***************************************************************************)
(* No debt is forgiven: a borrower always owes at least what it was lent   *)
(* less what its repayments kept.                                          *)
(***************************************************************************)
Covered == \A b \in Borrowers : lent[b] <= debt[b]

\* For natural amounts, TypeOK and Covered hold in every state of the
\* abstract specification: no sequence of borrows, repayments and limit
\* changes forgives a debt.
THEOREM CoveredInvariant ==
    ASSUME Amounts \subseteq Nat
    PROVE  Spec => [](TypeOK /\ Covered)
<1> DEFINE Inv == TypeOK /\ Covered
<1>1. Init => Inv
  BY DEF Init, Inv, TypeOK, Covered
<1>2. Inv /\ [Next]_vars => Inv'
  <2> SUFFICES ASSUME Inv, [Next]_vars PROVE Inv'
    OBVIOUS
  <2>1. ASSUME NEW b \in Borrowers, NEW a \in Amounts, Borrow(b, a)
        PROVE  Inv'
    <3>1. a = lent'[b] - lent[b]
      BY <2>1 DEF Borrow, Inv, TypeOK
    <3>2. QED
      BY <2>1, <3>1 DEF Borrow, Bystanders, Inv, TypeOK, Covered
  <2>2. ASSUME NEW b \in Borrowers, NEW a \in Amounts, Repay(b, a)
        PROVE  Inv'
    <3>1. PICK kept \in 0..a :
              /\ lent' = [lent EXCEPT ![b] = @ - kept]
              /\ debt[b] <= debt'[b] + kept
      BY <2>2 DEF Repay
    <3>2. debt' \in [Borrowers -> Nat] /\ Bystanders(b) /\ UNCHANGED limit
      BY <2>2 DEF Repay
    <3>3. kept \in Nat /\ lent[b] \in Int /\ debt[b] \in Nat /\ lent[b] <= debt[b]
      BY <3>1 DEF Inv, TypeOK, Covered
    <3>4. lent' \in [Borrowers -> Int] /\ lent'[b] = lent[b] - kept
      BY <3>1, <3>3 DEF Inv, TypeOK
    <3>5. lent'[b] <= debt'[b]
      BY <3>1, <3>2, <3>3, <3>4
    <3>6. ASSUME NEW c \in Borrowers, c # b PROVE lent'[c] <= debt'[c]
      <4>1. lent'[c] = lent[c] /\ lent[c] <= debt[c] /\ lent[c] \in Int
        BY <3>1, <3>6 DEF Inv, TypeOK, Covered
      <4>2. debt'[c] >= debt[c] /\ debt[c] \in Nat /\ debt'[c] \in Nat
        BY <3>2, <3>6 DEF Bystanders, Inv, TypeOK
      <4>3. QED
        BY <4>1, <4>2
    <3>7. QED
      BY <3>2, <3>4, <3>5, <3>6 DEF Inv, TypeOK, Covered
  <2>3. ASSUME NEW b \in Borrowers, NEW l \in Limits, SetLimit(b, l)
        PROVE  Inv'
    BY <2>3 DEF SetLimit, Inv, TypeOK, Covered
  <2>4. CASE UNCHANGED vars
    BY <2>4 DEF vars, Inv, TypeOK, Covered
  <2>5. QED
    BY <2>1, <2>2, <2>3, <2>4 DEF Next
<1>3. QED
  BY <1>1, <1>2, PTL DEF Spec
=============================================================================
