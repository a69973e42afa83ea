------------------------------- MODULE Market -------------------------------
(***************************************************************************)
(* The borrow side of the stablecoin money market: the interest-accrual    *)
(* state update (compute_interest), the per-borrower loan projection       *)
(* (compute_loan) and the three handlers that mutate the ledger:           *)
(* borrow_stable, repay_stable and repay_stable_from_liquidation           *)
(* (src/contracts/market/src/borrow.rs).                                   *)
(*                                                                         *)
(* Each handler is one atomic step: the host runs a transaction to the     *)
(* end or rolls it back, so a handler that returns an error (or panics)    *)
(* changes nothing and is modelled by the guard that makes the step        *)
(* impossible.                                                             *)
(*                                                                         *)
(* Data abstraction.  A cosmwasm Decimal is a natural number d standing    *)
(* for d / S; Uint128 amounts (loan_amount, request amounts) are naturals. *)
(* Amounts are bounded by the inputs the model enumerates, so the 128-bit  *)
(* width never wraps here (see README: overflow is a listed hazard).       *)
(***************************************************************************)
EXTENDS Integers

CONSTANTS
    Borrowers,      \* borrower addresses (model values)
    S,              \* Decimal denominator: the Decimal d stands for d / S
    Rates,          \* per-block borrow rates the interest model may answer
    ReserveFactor,  \* config.reserve_factor, a Decimal
    Amounts,        \* Uint128 amounts a sender may request or attach
    Limits,         \* borrow limits the overseer may answer
    MaxHeight       \* last block height explored

ASSUME ScaleAssumption == S \in Nat \ {0}
ASSUME RatesAssumption == Rates \subseteq Nat
ASSUME ReserveFactorAssumption == ReserveFactor \in Nat
ASSUME AmountsAssumption == Amounts \subseteq Nat
ASSUME LimitsAssumption == Limits \subseteq Nat
ASSUME MaxHeightAssumption == MaxHeight \in Nat
\* The interest model answers some rate, and its answers (Decimals of a
\* fixed width) have a largest one.
ASSUME RatesBoundedAssumption == \E m \in Rates : \A q \in Rates : q <= m

VARIABLES
    total_liabilities,      \* State.total_liabilities   (Decimal)
    total_reserves,         \* State.total_reserves      (Decimal)
    global_interest_index,  \* State.global_interest_index (Decimal)
    last_interest_updated,  \* State.last_interest_updated (block height)
    liabilities,            \* borrower -> Liability {loan_amount, interest_index}
    height,                 \* env.block.height of the next transaction
    borrow_limit,           \* the overseer's current borrow limit per borrower
    net_lent                \* ghost: disbursed to each borrower less what its
                            \* repayments kept (negative once interest is paid)

state_vars == <<total_liabilities, total_reserves, global_interest_index,
                last_interest_updated>>
vars == <<state_vars, liabilities, height, borrow_limit, net_lent>>

-----------------------------------------------------------------------------
(***************************************************************************)
(* Fixed-point primitives (crate::math, not under src/: modelled from the  *)
(* spec, section 4.1) and the cosmwasm conversions borrow.rs uses.         *)
(***************************************************************************)

\* decimal_multiplication(a, b): a * b truncated to the Decimal scale.
decimal_multiplication(a, b) == (a * b) \div S

\* decimal_division(a, b): a / b truncated to the Decimal scale.
decimal_division(a, b) == (a * S) \div b

\* decimal_subtraction(a, b): a - b, clamped at zero.
decimal_subtraction(a, b) == IF a > b THEN a - b ELSE 0

\* Decimal::from_ratio(x, 1u128) and Decimal::one().
FromInt(x) == x * S
One == S

\* Uint128 * Decimal: the product truncated to an integer.
MulUintDec(u, d) == (u * d) \div S

\* The Liability read_liability returns for a borrower never stored.
DefaultLiability == [loan_amount |-> 0, interest_index |-> One]

Liability == [loan_amount : Nat, interest_index : Nat \ {0}]

-----------------------------------------------------------------------------
(***************************************************************************)
(* compute_interest: the State after accrual at block_height with the rate *)
(* the interest model answered.  A record of the four State fields.        *)
(***************************************************************************)
\* Plausible bug: the accrued interest not added to total_liabilities.
compute_interest_no_accrual(block_height, rate) ==
    LET f == decimal_multiplication(FromInt(block_height - last_interest_updated), rate)
    IN [global_interest_index |-> decimal_multiplication(global_interest_index, One + f),
        total_liabilities |-> total_liabilities,
        total_reserves |-> total_reserves,
        last_interest_updated |-> block_height]

\* Plausible bug: last_interest_updated not advanced (line 194 missing).
compute_interest_no_stamp(block_height, rate) ==
    LET f == decimal_multiplication(FromInt(block_height - last_interest_updated), rate)
        a == decimal_multiplication(total_liabilities, f)
    IN [global_interest_index |-> decimal_multiplication(global_interest_index, One + f),
        total_liabilities |-> total_liabilities + a,
        total_reserves |-> total_reserves + decimal_multiplication(a, ReserveFactor),
        last_interest_updated |-> last_interest_updated]

compute_interest(block_height, rate) ==
    LET passed_blocks    == block_height - last_interest_updated
        interest_factor  == decimal_multiplication(FromInt(passed_blocks), rate)
        interest_accrued == decimal_multiplication(total_liabilities, interest_factor)
    IN [global_interest_index |->
            decimal_multiplication(global_interest_index, One + interest_factor),
        total_liabilities |-> total_liabilities + interest_accrued,
        total_reserves |->
            total_reserves + decimal_multiplication(interest_accrued, ReserveFactor),
        last_interest_updated |-> block_height]

\* Plausible bug: the index ratio taken upside down.
compute_loan_inverted(st, liability) ==
    [loan_amount |->
        MulUintDec(liability.loan_amount,
                   decimal_division(liability.interest_index, st.global_interest_index)),
     interest_index |-> st.global_interest_index]

\* compute_loan: the liability rescaled to the index of state st.
compute_loan(st, liability) ==
    [loan_amount |->
        MulUintDec(liability.loan_amount,
                   decimal_division(st.global_interest_index, liability.interest_index)),
     interest_index |-> st.global_interest_index]

\* Persisting the State record st (store_state).
StoreState(st) ==
    /\ total_liabilities' = st.total_liabilities
    /\ total_reserves' = st.total_reserves
    /\ global_interest_index' = st.global_interest_index
    /\ last_interest_updated' = st.last_interest_updated

-----------------------------------------------------------------------------
Init ==
    /\ total_liabilities = 0
    /\ total_reserves = 0
    /\ global_interest_index = One
    /\ last_interest_updated = 0
    /\ liabilities = [b \in Borrowers |-> DefaultLiability]
    /\ height = 0
    /\ borrow_limit \in [Borrowers -> Limits]
    /\ net_lent = [b \in Borrowers |-> 0]

(***************************************************************************)
(* borrow_stable: accrue, project the sender's liability, reject a request *)
(* that would take the projected debt above the overseer's limit, then     *)
(* add the request to the liability and (at face value) to the ledger.     *)
(***************************************************************************)
\* Plausible bug: the limit checked against the stored, unprojected loan.
borrow_stable_stale_check(b, borrow_amount, rate) ==
    LET st    == compute_interest(height, rate)
        liab  == compute_loan(st, liabilities[b])
    IN /\ ~(borrow_limit[b] < borrow_amount + liabilities[b].loan_amount)
       /\ StoreState([st EXCEPT !.total_liabilities = @ + FromInt(borrow_amount)])
       /\ liabilities' = [liabilities EXCEPT ![b] =
                            [liab EXCEPT !.loan_amount = @ + borrow_amount]]
       /\ net_lent' = [net_lent EXCEPT ![b] = @ + borrow_amount]
       /\ UNCHANGED <<height, borrow_limit>>

borrow_stable(b, borrow_amount, rate) ==
    LET st    == compute_interest(height, rate)
        liab  == compute_loan(st, liabilities[b])
    IN /\ ~(borrow_limit[b] < borrow_amount + liab.loan_amount)
       /\ StoreState([st EXCEPT !.total_liabilities =
                                    @ + FromInt(borrow_amount)])
       /\ liabilities' = [liabilities EXCEPT ![b] =
                            [liab EXCEPT !.loan_amount = @ + borrow_amount]]
       /\ net_lent' = [net_lent EXCEPT ![b] = @ + borrow_amount]
       /\ UNCHANGED <<height, borrow_limit>>

(***************************************************************************)
(* repay_stable: reject zero coins, accrue, project, repay at most the     *)
(* projected debt (refunding the excess to the sender), and take the       *)
(* repaid amount off the ledger with the clamped subtraction.              *)
(***************************************************************************)
\* Plausible bug: the whole tender repaid, without the overpayment branch.
repay_stable_uncapped(b, amount, rate) ==
    LET st   == compute_interest(height, rate)
        liab == compute_loan(st, liabilities[b])
    IN /\ amount # 0
       /\ StoreState([st EXCEPT !.total_liabilities =
                          decimal_subtraction(@, FromInt(amount))])
       /\ liabilities' = [liabilities EXCEPT ![b] =
                            [liab EXCEPT !.loan_amount = @ - amount]]
       /\ net_lent' = [net_lent EXCEPT ![b] = @ - amount]
       /\ UNCHANGED <<height, borrow_limit>>

\* Plausible bug: store_state left out (line 155), the liability stored alone.
repay_stable_no_store_state(b, amount, rate) ==
    LET st   == compute_interest(height, rate)
        liab == compute_loan(st, liabilities[b])
        rep  == IF liab.loan_amount < amount THEN liab.loan_amount ELSE amount
    IN /\ amount # 0
       /\ UNCHANGED state_vars
       /\ liabilities' = [liabilities EXCEPT ![b] =
                            [liab EXCEPT !.loan_amount = @ - rep]]
       /\ net_lent' = [net_lent EXCEPT ![b] = @ - rep]
       /\ UNCHANGED <<height, borrow_limit>>

\* Plausible bug: the whole tender taken off the ledger, refund included.
repay_stable_whole_tender(b, amount, rate) ==
    LET st           == compute_interest(height, rate)
        liab         == compute_loan(st, liabilities[b])
        repay_amount == IF liab.loan_amount < amount THEN liab.loan_amount
                                                     ELSE amount
    IN /\ amount # 0
       /\ StoreState([st EXCEPT !.total_liabilities =
                          decimal_subtraction(@, FromInt(amount))])
       /\ liabilities' = [liabilities EXCEPT ![b] =
                            [liab EXCEPT !.loan_amount = @ - repay_amount]]
       /\ net_lent' = [net_lent EXCEPT ![b] = @ - repay_amount]
       /\ UNCHANGED <<height, borrow_limit>>

repay_stable(b, amount, rate) ==
    LET st           == compute_interest(height, rate)
        liab         == compute_loan(st, liabilities[b])
        repay_amount == IF liab.loan_amount < amount THEN liab.loan_amount
                                                     ELSE amount
    IN /\ amount # 0
       /\ StoreState([st EXCEPT !.total_liabilities =
                          decimal_subtraction(@, FromInt(repay_amount))])
       /\ liabilities' = [liabilities EXCEPT ![b] =
                            [liab EXCEPT !.loan_amount = @ - repay_amount]]
       /\ net_lent' = [net_lent EXCEPT ![b] = @ - repay_amount]
       /\ UNCHANGED <<height, borrow_limit>>

(***************************************************************************)
(* repay_stable_from_liquidation: called by the overseer (any other sender *)
(* is Unauthorized) after it sold the borrower's collateral; the repayment *)
(* is the market's stable balance now less prev_balance, and the           *)
(* subtraction's unwrap aborts the transaction when prev_balance exceeds   *)
(* the balance.  The rest is repay_stable on behalf of the borrower.       *)
(***************************************************************************)
repay_stable_from_liquidation(b, prev_balance, cur_balance, rate) ==
    /\ prev_balance <= cur_balance
    /\ repay_stable(b, cur_balance - prev_balance, rate)

(***************************************************************************)
(* query_loan_amount: a read-only what-if.  It accrues the stored State to *)
(* the block_height named in the query and projects the borrower's record  *)
(* against it, persisting nothing.  compute_interest subtracts the stored  *)
(* last_interest_updated from that height as u64: below it, the           *)
(* subtraction overflows (a panic with overflow checks, else a wrap to     *)
(* about 2^64 blocks of interest, which overflows the Decimal arithmetic   *)
(* in turn): the query fails with ArithmeticOverflow.                      *)
(***************************************************************************)
ArithmeticOverflow(block_height) == block_height < last_interest_updated

\* The query's result: an error, or the LoanAmountResponse's loan_amount.
query_loan_amount(b, block_height, rate) ==
    IF ArithmeticOverflow(block_height)
    THEN [error |-> TRUE, loan_amount |-> 0]
    ELSE [error |-> FALSE,
          loan_amount |->
            compute_loan(compute_interest(block_height, rate), liabilities[b]).loan_amount]

\* query_liability: the stored record as it is, without accrual or projection.
query_liability(b) == liabilities[b]

-----------------------------------------------------------------------------
(***************************************************************************)
(* The environment: blocks are produced, and the overseer's borrow limit   *)
(* for a borrower moves with its collateral and prices.                    *)
(***************************************************************************)
NewBlock ==
    /\ height < MaxHeight
    /\ height' = height + 1
    /\ UNCHANGED <<state_vars, liabilities, borrow_limit, net_lent>>

SetBorrowLimit(b, limit) ==
    /\ borrow_limit' = [borrow_limit EXCEPT ![b] = limit]
    /\ UNCHANGED <<state_vars, liabilities, height, net_lent>>

Next ==
    \/ \E b \in Borrowers, a \in Amounts, r \in Rates : borrow_stable(b, a, r)
    \/ \E b \in Borrowers, a \in Amounts, r \in Rates : repay_stable(b, a, r)
    \/ \E b \in Borrowers, p, c \in Amounts, r \in Rates :
            repay_stable_from_liquidation(b, p, c, r)
    \/ NewBlock
    \/ \E b \in Borrowers, l \in Limits : SetBorrowLimit(b, l)

Spec == Init /\ [][Next]_vars

-----------------------------------------------------------------------------
(***************************************************************************)
(* Properties.                                                             *)
(***************************************************************************)

\* The loan the market would charge b now if it projected b's record
\* against the current index (the value compute_loan yields in a handler).
ProjectedLoan(b) ==
    compute_loan([global_interest_index |-> global_interest_index],
                 liabilities[b]).loan_amount

\* Every variable has the type of the field of State / Liability it models.
TypeOK ==
    /\ total_liabilities \in Nat
    /\ total_reserves \in Nat
    /\ global_interest_index \in Nat \ {0}
    /\ last_interest_updated \in Nat
    /\ liabilities \in [Borrowers -> Liability]
    /\ height \in Nat
    /\ borrow_limit \in [Borrowers -> Limits]
    /\ net_lent \in [Borrowers -> Int]


(***************************************************************************)
(* compute_loan divides by the liability's interest_index (a zero index    *)
(* would panic in decimal_division) and must never shrink a debt: every    *)
(* stored index lies between Decimal::one() and the global index, which    *)
(* itself never falls below one.                                           *)
(***************************************************************************)
IndexOrder ==
    \A b \in Borrowers :
        One <= liabilities[b].interest_index
        /\ liabilities[b].interest_index <= global_interest_index

(***************************************************************************)
(* Interest is charged once per block: compute_interest stamps             *)
(* last_interest_updated, so the index grows no faster than the highest    *)
(* rate compounded once for every block up to the last accrual.  A second *)
(* accrual over the same blocks (same-block transactions against a stale  *)
(* stamp) would push the index past this bound.                            *)
(***************************************************************************)
MaxRate == CHOOSE r \in Rates : \A q \in Rates : q <= r

IndexGrowthBounded ==
    global_interest_index * S ^ last_interest_updated
        <= One * (One + MaxRate) ^ last_interest_updated

(***************************************************************************)
(* The slack IndexGrowthBounded keeps for the blocks not yet charged: the  *)
(* index grown by the simple interest of the highest rate over the blocks  *)
(* since last_interest_updated stays within the compound bound at the      *)
(* current height.  So the next accrual, whatever rate the interest model  *)
(* answers and however many blocks passed since the last transaction,      *)
(* keeps IndexGrowthBounded (Bernoulli's inequality, carried block by      *)
(* block).                                                                 *)
(***************************************************************************)
IndexGrowthSlack ==
    global_interest_index * (One + (height - last_interest_updated) * MaxRate)
        * S ^ height
        <= One * One * (One + MaxRate) ^ height

(***************************************************************************)
(* The what-if query query_loan_amount answers for the current block and   *)
(* every later one (the u64 subtraction of compute_interest never          *)
(* underflows there, whichever transactions stamped last_interest_updated  *)
(* before), and it never quotes less than the borrower owes now: a quote   *)
(* for any rate the interest model may answer covers the debt.             *)
(***************************************************************************)
QueryCoversDebt ==
    \A b \in Borrowers, r \in Rates, h \in height..MaxHeight :
        /\ ~query_loan_amount(b, h, r).error
        /\ query_loan_amount(b, h, r).loan_amount >= ProjectedLoan(b)

(***************************************************************************)
(* Interest is charged once per block: a transaction that moves the global *)
(* index or the reserves (compute_interest in any handler) starts from a   *)
(* stamp below the current block and leaves every block up to it charged; *)
(* a second transaction in the same block accrues nothing.                 *)
(***************************************************************************)
ChargedOnce ==
    [][ \/ global_interest_index' # global_interest_index
        \/ total_reserves' # total_reserves
        => /\ last_interest_updated < height
           /\ last_interest_updated' = height ]_vars

(***************************************************************************)
(* The ledger moves with the money: in every step, total_liabilities falls *)
(* by no more than what the market kept from a repayment, rises by at      *)
(* least what it disbursed, and falls only when something was repaid.      *)
(* Accrued interest only adds; the clamp of decimal_subtraction only       *)
(* raises the result.                                                      *)
(***************************************************************************)
LedgerFollowsLending ==
    [][ /\ \A b \in Borrowers :
              net_lent'[b] # net_lent[b] =>
                  total_liabilities' - total_liabilities
                      >= FromInt(net_lent'[b] - net_lent[b])
        /\ total_liabilities' < total_liabilities =>
              \E b \in Borrowers : net_lent'[b] < net_lent[b] ]_vars

(***************************************************************************)
(* The clamp never fires: a repayment (repay_stable, or a liquidation's)   *)
(* takes what the market kept off the accrued total_liabilities in full,   *)
(* for the rate that produced the new index.  If the individual debts ever *)
(* outgrew the ledger, decimal_subtraction at line 149 would floor it at  *)
(* zero and silently drop the debts of every other borrower from it; that  *)
(* the ledger stays large enough depends on the interleaving of all the   *)
(* borrowers' syncs and truncations before this one.                       *)
(***************************************************************************)
RepayNeverClamps ==
    [][ \A b \in Borrowers :
          net_lent'[b] < net_lent[b] =>
              \E r \in Rates :
                  /\ global_interest_index' =
                         compute_interest(height, r).global_interest_index
                  /\ total_liabilities' + FromInt(net_lent[b] - net_lent'[b]) =
                         compute_interest(height, r).total_liabilities ]_vars

(***************************************************************************)
(* The refinement mapping onto LoanBook: a borrower's debt is its record   *)
(* projected to the current index, its limit the overseer's answer, and    *)
(* net_lent what LoanBook calls lent.  A repayment tenders either coins of *)
(* Amounts or, in a liquidation, a difference of two balances.             *)
(***************************************************************************)
Tendered == Amounts \cup ({c - p : c, p \in Amounts} \cap Nat)

LB == INSTANCE LoanBook WITH
        debt <- [b \in Borrowers |-> ProjectedLoan(b)],
        limit <- borrow_limit,
        lent <- net_lent,
        Amounts <- Tendered

(***************************************************************************)
(* The market implements LoanBook: every borrow, repayment, liquidation    *)
(* repayment, new block and limit change is a LoanBook step or leaves the  *)
(* mapped state alone.  So a borrow disburses only within the overseer's   *)
(* limit, interest accrued up to this block included; no operation of one  *)
(* borrower lowers another's debt; and a repayment lowers the payer's debt *)
(* by exactly what the market keeps, keeping less than the tender only    *)
(* when the debt is cleared.                                               *)
(***************************************************************************)
LoanBookRefined == LB!Spec

=============================================================================
