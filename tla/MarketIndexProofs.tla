-------------------------- MODULE MarketIndexProofs -------------------------
(***************************************************************************)
(* IndexGrowthBounded: interest is compounded at most once per block, at   *)
(* most at the highest rate.  The invariant is not inductive: an accrual   *)
(* over k blocks at once multiplies the index by 1 + k * rate, and only    *)
(* Bernoulli's inequality (1 + k * rate <= (1 + rate)^k) keeps the bound.  *)
(* IndexGrowthSlack carries that inequality one block at a time, so no     *)
(* induction over k is needed.                                             *)
(*                                                                         *)
(* The provers treat ^ as an uninterpreted operator; the theorem takes its *)
(* defining recursion, PowFacts, as an explicit hypothesis.               *)
(***************************************************************************)
EXTENDS MarketStepProofs

USE ScaleAssumption, RatesAssumption, ReserveFactorAssumption,
    AmountsAssumption, LimitsAssumption, MaxHeightAssumption

\* The recursion that defines exponentiation of naturals.
PowFacts ==
    \A a \in Nat \ {0}, n \in Nat :
        /\ a ^ n \in Nat
        /\ a ^ 0 = 1
        /\ a ^ (n + 1) = a ^ n * a

IG == IndexGrowthBounded /\ IndexGrowthSlack

\* MaxRate is a rate the interest model may answer and bounds all of them.
LEMMA MaxRateFacts ==
    /\ MaxRate \in Rates
    /\ MaxRate \in Nat
    /\ \A q \in Rates : q <= MaxRate
BY RatesBoundedAssumption DEF MaxRate

\* Truncating division by S, multiplied back, never exceeds the dividend.
LEMMA DivMulLe ==
    ASSUME NEW x \in Nat
    PROVE  (x \div S) * S <= x
BY SMT

\* Multiplying both sides of an inequality of naturals by a natural.
LEMMA MulMonoLe ==
    ASSUME NEW a \in Nat, NEW b \in Nat, NEW c \in Nat, a <= b
    PROVE  a * c <= b * c
BY SMT

\* The two powers of the bound at a natural height are naturals.
LEMMA PowersNat ==
    ASSUME PowFacts, NEW n \in Nat
    PROVE  /\ S ^ n \in Nat
           /\ (One + MaxRate) ^ n \in Nat
           /\ S ^ (n + 1) = S ^ n * S
           /\ (One + MaxRate) ^ (n + 1) = (One + MaxRate) ^ n * (One + MaxRate)
<1>1. S \in Nat \ {0} /\ One + MaxRate \in Nat \ {0}
  BY MaxRateFacts DEF One
<1>2. QED
  BY <1>1 DEF PowFacts

-----------------------------------------------------------------------------
LEMMA InitIG == ASSUME PowFacts, Init PROVE IG
<1>1. S ^ 0 = 1 /\ (One + MaxRate) ^ 0 = 1
  BY MaxRateFacts DEF PowFacts, One
<1>2. global_interest_index = S /\ height = 0 /\ last_interest_updated = 0
  BY DEF Init, One
<1>3. QED
  BY <1>1, <1>2, MaxRateFacts, SMT DEF IG, IndexGrowthBounded, IndexGrowthSlack, One

(***************************************************************************)
(* A handler accrues over the k = height - last_interest_updated blocks    *)
(* since the stamp: the index grows by at most 1 + k * MaxRate, which the  *)
(* slack covers; the stamp moves to height and the slack starts afresh.   *)
(***************************************************************************)
LEMMA HandlerIG ==
    ASSUME PowFacts, IInv, IG, NEW r \in Rates, NEW tl,
           StoreState([compute_interest(height, r) EXCEPT !.total_liabilities = tl]),
           height' = height
    PROVE  IG'
<1> DEFINE k  == height - last_interest_updated
           g  == global_interest_index
           M  == MaxRate
           X  == S ^ height
           Y  == (One + MaxRate) ^ height
           f  == decimal_multiplication(FromInt(k), r)
           g2 == decimal_multiplication(g, One + f)
<1>1. k \in Nat /\ g \in Nat /\ r \in Nat /\ M \in Nat /\ r <= M /\ height \in Nat
  BY MaxRateFacts DEF IInv, TypeOK
<1>2. X \in Nat /\ Y \in Nat
  BY <1>1, PowersNat
<1>3. g * (S + k * M) * X <= S * S * Y
  BY DEF IG, IndexGrowthSlack, One
<1>4. global_interest_index' = g2 /\ last_interest_updated' = height
  BY HandlerStamps DEF compute_interest
<1>5. f = k * r
  <2>1. FromInt(k) * r = (k * r) * S
    BY <1>1, SMT DEF FromInt
  <2>2. QED
    BY <1>1, <2>1, SMT DEF decimal_multiplication
<1>6. f \in Nat /\ One + f \in Nat /\ g2 \in Nat
  <2>1. f \in Nat /\ One + f \in Nat
    BY <1>1, <1>5 DEF One
  <2>2. QED
    BY <1>1, <2>1, DecimalNat
<1>7. g2 * S <= g * (S + k * M)
  <2>1. g * (S + f) \in Nat
    BY <1>1, <1>6, SMT
  <2>2. g2 * S <= g * (S + f)
    BY <2>1, DivMulLe DEF decimal_multiplication, One
  <2>3. g * (S + f) <= g * (S + k * M)
    BY <1>1, <1>5, SMT
  <2>4. g2 * S \in Nat /\ g * (S + k * M) \in Nat
    BY <1>1, <1>6, SMT
  <2>5. QED
    BY <2>1, <2>2, <2>3, <2>4, SMT
<1>8. g2 * X <= S * Y
  <2>1. g2 * S * X <= g * (S + k * M) * X
    <3>1. g2 * S \in Nat /\ g * (S + k * M) \in Nat
      BY <1>1, <1>6, SMT
    <3>2. QED
      BY <1>2, <1>7, <3>1, MulMonoLe
  <2>2. g2 * X * S <= S * Y * S
    BY <1>1, <1>2, <1>3, <1>6, <2>1, SMT
  <2>3. QED
    BY <1>1, <1>2, <1>6, <2>2, SMT
<1>9. IndexGrowthBounded'
  BY <1>4, <1>8 DEF IndexGrowthBounded, One
<1>10. IndexGrowthSlack'
  <2>1. g2 * (S + (height - height) * M) * X <= S * S * Y
    BY <1>1, <1>2, <1>6, <1>8, SMT
  <2>2. QED
    BY <1>4, <1>6, <2>1 DEF IndexGrowthSlack, One
<1>11. QED
  BY <1>9, <1>10 DEF IG

(***************************************************************************)
(* A new block adds one uncharged block: the slack grows by one block of   *)
(* simple interest while the bound grows by a factor of 1 + MaxRate.       *)
(***************************************************************************)
LEMMA NewBlockIG ==
    ASSUME PowFacts, IInv, IG, NewBlock
    PROVE  IG'
<1> DEFINE k  == height - last_interest_updated
           g  == global_interest_index
           M  == MaxRate
           X  == S ^ height
           Y  == (One + MaxRate) ^ height
<1>1. k \in Nat /\ g \in Nat /\ M \in Nat /\ height \in Nat
  BY MaxRateFacts DEF IInv, TypeOK
<1>2. X \in Nat /\ Y \in Nat
  BY <1>1, PowersNat
<1>3. S ^ (height + 1) = X * S /\ (One + M) ^ (height + 1) = Y * (S + M)
  BY <1>1, PowersNat DEF One
<1>4. g * (S + k * M) * X <= S * S * Y
  BY DEF IG, IndexGrowthSlack, One
<1>5. (S + (k + 1) * M) * S <= (S + k * M) * (S + M)
  BY <1>1, SMT
<1>6. g * (S + (k + 1) * M) * (X * S) <= S * S * (Y * (S + M))
  <2>1. g * X * ((S + (k + 1) * M) * S) <= g * X * ((S + k * M) * (S + M))
    <3>1. g * X \in Nat /\ (S + (k + 1) * M) * S \in Nat /\ (S + k * M) * (S + M) \in Nat
      BY <1>1, <1>2, SMT
    <3>2. QED
      BY <1>5, <3>1, MulMonoLe, SMT
  <2>2. g * (S + k * M) * X * (S + M) <= S * S * Y * (S + M)
    <3>1. g * (S + k * M) * X \in Nat /\ S * S * Y \in Nat /\ S + M \in Nat
      BY <1>1, <1>2, SMT
    <3>2. QED
      BY <1>4, <3>1, MulMonoLe
  <2>3. QED
    BY <1>1, <1>2, <2>1, <2>2, SMT
<1>7. height' - last_interest_updated' = k + 1 /\ height' = height + 1
  BY <1>1 DEF NewBlock, state_vars, IInv, TypeOK
<1>8. IndexGrowthSlack'
  BY <1>3, <1>6, <1>7 DEF NewBlock, state_vars, IndexGrowthSlack, One
<1>9. IndexGrowthBounded'
  BY DEF NewBlock, state_vars, IG, IndexGrowthBounded
<1>10. QED
  BY <1>8, <1>9 DEF IG

LEMMA NextIG == ASSUME PowFacts PROVE IInv /\ IG /\ [Next]_vars => IG'
<1> SUFFICES ASSUME IInv, IG, [Next]_vars PROVE IG'
  OBVIOUS
<1>1. ASSUME NEW b \in Borrowers, NEW a, NEW r \in Rates, borrow_stable(b, a, r)
      PROVE  IG'
  BY <1>1, HandlerIG DEF borrow_stable
<1>2. ASSUME NEW b \in Borrowers, NEW a, NEW r \in Rates, repay_stable(b, a, r)
      PROVE  IG'
  BY <1>2, HandlerIG DEF repay_stable
<1>3. ASSUME NEW b \in Borrowers, NEW p, NEW c, NEW r \in Rates,
             repay_stable_from_liquidation(b, p, c, r)
      PROVE  IG'
  BY <1>3, <1>2 DEF repay_stable_from_liquidation
<1>4. CASE NewBlock
  BY <1>4, NewBlockIG
<1>5. CASE \E b \in Borrowers, l \in Limits : SetBorrowLimit(b, l)
  BY <1>5 DEF SetBorrowLimit, state_vars, IG, IndexGrowthBounded, IndexGrowthSlack
<1>6. CASE UNCHANGED vars
  BY <1>6 DEF vars, state_vars, IG, IndexGrowthBounded, IndexGrowthSlack
<1>7. QED
  BY <1>1, <1>2, <1>3, <1>4, <1>5, <1>6 DEF Next

(***************************************************************************)
(* Given the recursion of ^, IndexGrowthBounded holds in every reachable   *)
(* state: no interleaving of same-block and multi-block accruals by any    *)
(* handler compounds the global index faster than once per block at the   *)
(* highest rate, for every scale, rate set and number of borrowers.       *)
(***************************************************************************)
THEOREM IndexGrowthTheorem ==
    ASSUME PowFacts PROVE Spec => []IndexGrowthBounded
<1>1. Init => IInv /\ IG
  BY InitIInv, InitIG
<1>2. IInv /\ IG /\ [Next]_vars => (IInv /\ IG)'
  BY NextIInv, NextIG
<1>3. IInv /\ IG => IndexGrowthBounded
  BY DEF IG
<1>4. QED
  BY <1>1, <1>2, <1>3, PTL DEF Spec
(***************************************************************************)
(* Given the recursion of ^, IndexGrowthSlack holds in every reachable     *)
(* state: the index, together with the simple interest still owed for the  *)
(* blocks since the last handler's stamp, stays under the once-per-block   *)
(* compounding bound, however the handlers and new blocks interleave.      *)
(***************************************************************************)
THEOREM IndexGrowthSlackTheorem ==
    ASSUME PowFacts PROVE Spec => []IndexGrowthSlack
<1>1. Init => IInv /\ IG
  BY InitIInv, InitIG
<1>2. IInv /\ IG /\ [Next]_vars => (IInv /\ IG)'
  BY NextIInv, NextIG
<1>3. IInv /\ IG => IndexGrowthSlack
  BY DEF IG
<1>4. QED
  BY <1>1, <1>2, <1>3, PTL DEF Spec
=============================================================================
