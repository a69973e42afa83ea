# Verification of the market contract's borrow side

This directory holds TLA+ models of `src/contracts/market/src/borrow.rs`. That file is the
borrow-side ledger of a stablecoin money market written as a CosmWasm contract. It also holds
TLC configurations that model-check the models, and TLAPS proofs about them.

## 1. Inventory

### Components and their state

| Component | Code | State it keeps |
|---|---|---|
| Interest accrual engine | `compute_interest` (borrow.rs 168-197) | `State.{total_liabilities, total_reserves, global_interest_index, last_interest_updated}` |
| Loan projection | `compute_loan` (199-204) | none; rescales a `Liability {loan_amount, interest_index}` |
| Borrow transition | `borrow_stable` (18-66) | State and the sender's Liability |
| Repay transition | `repay_stable` (97-166) | State and the sender's Liability |
| Liquidation repay | `repay_stable_from_liquidation` (68-95) | delegates to `repay_stable` for the liquidated borrower |
| Queries | `query_liability`, `query_liabilities`, `query_loan_amount` (206-252) | read only |
| Fixed-point math | `crate::math` (not under src/) | none |
| Storage | `crate::state` (not under src/) | the State singleton and the Liability records |
| External: overseer, interest model | other contracts | the borrow limit and the borrow rate |
| Deposit/redeem, init, config, dispatch | not under src/ | receipt-token accounting and config |

### How the components interact

Every state-changing handler does its steps in the same order, inside one transaction:

1. It reads the config and the State.
2. It runs `compute_interest` at `env.block.height`. This queries the interest model for the rate.
3. It reads the sender's Liability and projects it with `compute_loan`.
4. It makes the operation's own change.
5. It stores the State and the Liability.

`borrow_stable` also asks the overseer for the borrower's limit. `repay_stable_from_liquidation`
may only be called by the overseer. It sets the sender to the liquidated borrower, and it takes
the repayment to be the market's stable balance less the `prev_balance` the overseer sent.

The host runs each transaction to the end or rolls all of it back. Nothing runs concurrently.
What can interleave is the transactions of different borrowers, and blocks passing between
them. These share the State aggregates, while each borrower's record is synced only by that
borrower's own transactions.

### What is hard

- **Truncation.** Decimals truncate at every multiplication and division. `Uint128 * Decimal`
  truncates each projected debt to a whole unit, but the ledger keeps the fraction. So the
  aggregate and the individual debts drift apart.
- **Same-block transactions.** Accrual runs in every transaction, so two transactions in one
  block must not charge the same blocks twice.
- **Stale data.** The limit check must see the debt after accrual, not the stored snapshot.
- **Unchecked integer edges.** These are the u64 elapsed-block subtraction, the Uint128
  additions, and the `unwrap` on the liquidation balance difference.
- **Clamped subtraction.** It could hide an accounting error instead of reporting it.

### What makes each component correct

- **Accrual:** the index never decreases. Interest for a block is charged once.
- **Projection:** it never divides by zero and never shrinks a debt.
- **Borrow:** no disbursement takes the debt above the overseer's limit.
- **Repay:** an overpayment repays exactly the debt, and no debt is forgiven.
- **Ledger:** `total_liabilities` covers the sum of the debts, and is that sum (spec section 3).

The `hazards` list of `PROJECT.json` gives each hazard at its line, with the properties that cover it.

## 2. Modules

**`Market.tla`** models the whole borrow side.
- CONSTANTS:
  - `Borrowers`;
  - `S`, the Decimal denominator (the Decimal `d` means `d/S`);
  - `Rates`, the rates the interest model may answer;
  - `ReserveFactor`;
  - `Amounts`, the Uint128 inputs;
  - `Limits`, the overseer's answers;
  - `MaxHeight`.
- VARIABLES:
  - the four State fields, under their source names;
  - `liabilities`, a map from borrower to Liability;
  - `height`, the block height of the next transaction;
  - `borrow_limit`, the overseer's current limit for each borrower;
  - the ghost `net_lent`, what was disbursed to each borrower less what its repayments kept.
- Operators:
  - `compute_interest(block_height, rate)` returns the accrued State as a record.
  - `compute_loan(st, liability)` returns the projected Liability.
  - `StoreState` is `store_state`.
  - `ProjectedLoan(b)` is what `compute_loan` yields for b's record at the current index.
- Actions:
  - `borrow_stable(b, amount, rate)`;
  - `repay_stable(b, amount, rate)`;
  - `repay_stable_from_liquidation(b, prev_balance, cur_balance, rate)`;
  - the environment's `NewBlock` and `SetBorrowLimit`.
- A handler that returns an error or panics changes nothing. So it is modelled by a guard:
  - "Cannot borrow more than limit" is the limit conjunct;
  - "Cannot repay zero coins" is `amount # 0`;
  - the liquidation's `unwrap` is `prev_balance <= cur_balance`;
  - Unauthorized is the fact that only the overseer takes this step.
- `query_loan_amount` and `query_liability` are operators, because they persist nothing.
- The math primitives of `crate::math` are modelled from spec 4.1, because that code is not
  under src/:
  - multiplication and division truncate;
  - subtraction clamps at zero.
- `LB` instantiates `LoanBook` with the refinement mapping (below).

**`LoanBook.tla`** is the abstract specification of what the borrow side promises (spec 3, 4.4,
4.5). It has no index and no fixed-point arithmetic. Its variables are `debt`, `limit` and
`lent`, one entry per borrower. Its actions:
- `Borrow(b, a)`: b's debt grows by at least `a` (interest may come with it) and ends within
  b's limit;
- `Repay(b, a)`: the market keeps some `kept <= a`, b's debt falls by exactly `kept` from some
  accrued value, and `kept < a` only when the debt is cleared;
- `SetLimit(b, l)`.

In `Borrow` and `Repay`, no other borrower's debt falls. How much interest accrues is left
open. `LoanBook` also proves its own invariant `Covered`: `lent[b] <= debt[b]`.

The refinement mapping (`LB` in `Market`):
- `debt[b]` is `ProjectedLoan(b)`;
- `limit` is `borrow_limit`;
- `lent` is `net_lent`;
- the amounts are `Tendered`: the amounts a sender attaches, and the balance differences a
  liquidation repays.

Under it:
- each borrow is a `Borrow`;
- each repayment or liquidation repayment is a `Repay`;
- a limit change is a `SetLimit`;
- a new block leaves the mapped state alone.

**`MC_Market.tla`** instantiates Market with two borrowers and a symmetry set. The borrowers
are model values that every action and property treats alike, so the symmetry is sound for
these safety properties. It holds the properties that sum over borrowers (with
`FiniteSetsExt`), which keeps `Market` free of the folds.

**`MarketProofs.tla`**, **`MarketRefinement.tla`**, **`MarketStepProofs.tla`** and
**`MarketIndexProofs.tla`** hold the TLAPS proofs (section 4).

## 3. Runs

All runs use `S = 10`, `Rates = {1, 3}` (10% and 30% a block) and `ReserveFactor = 3`. They
also use `Amounts = {0, 1, 2}`, `Limits = {1, 3}`, two borrowers and `MaxHeight = 3`.

| Run | Expect | Checks |
|---|---|---|
| `market_safety` (`MC_Market.cfg`) | pass (209k states up to symmetry, about 40 s) | invariants `TypeOK`, `IndexOrder`, `IndexGrowthBounded`, `IndexGrowthSlack`, `LedgerCoversDebt`, `QueryCoversDebt`; action properties `ChargedOnce`, `LedgerFollowsLending`, `RepayNeverClamps` |
| `market_refinement` (`MC_Market_refine.cfg`) | pass (same states, about 1 min) | `LoanBookRefined` |
| `phantom_liabilities` (`MC_Market_phantom.cfg`) | violation | `NoPhantom` |
| `query_past_height` (`MC_Market_query.cfg`) | violation | `QueryAnswersEveryHeight` |

The properties:

- `IndexOrder`: each stored `interest_index` lies between `Decimal::one()` and the global index.
- `IndexGrowthBounded`: the index is at most `(1 + MaxRate)^last_interest_updated`. Charging
  the same blocks twice breaks this bound.
- `IndexGrowthSlack`: the index, grown by the simple interest of the highest rate over the
  blocks since the last stamp, is within `(1 + MaxRate)^height`. The next accrual, however many
  blocks it covers, therefore keeps `IndexGrowthBounded`. This is the strengthening that makes
  `IndexGrowthBounded` inductive (section 4).
- `LedgerCoversDebt`: `total_liabilities` is at least the sum of the projected debts. So the
  clamp at borrow.rs:149 never takes another borrower's debt out of the ledger. It does not
  rule out the clamp itself: a ledger floored at zero while every debt is cleared satisfies it.
- `QueryCoversDebt`: `query_loan_amount` answers for the current height and every later one
  up to `MaxHeight`, for every rate. Its quote is never below the borrower's current projected
  debt. This is the positive side of the `query_past_height` finding.
- `ChargedOnce` (action property): a step that moves the global index or the reserves starts
  with `last_interest_updated < height` and sets it to `height`. A second transaction in the
  same block accrues nothing.
- `LedgerFollowsLending` (action property): in every step, `total_liabilities` falls by at
  most `S` times what a repayment kept. It rises by at least `S` times what a borrow disbursed,
  and it falls only when something was repaid.
- `RepayNeverClamps` (action property): in a step where a borrower's `net_lent` falls (a
  repayment or a liquidation's), the new ledger plus `S` times what was kept equals the accrued
  ledger for a rate that explains the new index. The clamped subtraction at line 149 never
  clamps, however the borrowers' syncs and truncations interleaved before.
  `LedgerFollowsLending` cannot see this, because a clamp only raises the result.
- `LoanBookRefined` (`LB!Spec`): the market implements `LoanBook`. This includes:
  - every disbursement leaves the borrower's debt, accrued interest included, within the
    limit;
  - no handler of one borrower lowers another's debt;
  - an overpayment keeps exactly the debt. Because interest is left open, "exactly" means
    that some accrual makes it exact, not that a particular one does.

`LoanBook`'s own invariant `Covered` (no debt is forgiven) and step relation are not checked
again in the market's terms. Under the mapping they are consequences of `LoanBookRefined`.

Each property has a mutant in `Market.tla`: a plausible bug that the run must catch.
- Dropping the overpayment branch breaks `TypeOK`.
- Dropping `store_state` in repay breaks `IndexOrder`.
- Dropping the `last_interest_updated` stamp breaks `IndexGrowthBounded`, `IndexGrowthSlack`
  and `ChargedOnce`.
- Inverting the index ratio breaks `QueryCoversDebt`.
- Taking the whole tender, refund included, off the ledger in repay (`amount` for
  `repay_amount` at line 149) breaks `LedgerFollowsLending`.
- Not adding the accrued interest to the ledger breaks `LedgerCoversDebt` and `RepayNeverClamps`.
- Checking the limit against the stale loan breaks `LoanBookRefined`.

**Bounds.** Three blocks give two accruals with different elapsed times and rates. They also
allow a same-block transaction after an accrual, and a sync of a borrower whose record is two
indices old. With two borrowers, one can move the shared ledger while the other's record is
stale. Limits of 1 and 3 make the limit check both pass and fail after interest. A fourth
block quadruples the state space (1.7M states, close to five minutes) and adds no new kind of
step, so the runs stop at three.

`S = 10` is far coarser than cosmwasm's 10^18. That makes truncation large, so drift appears
in a few steps. It does not create a kind of behaviour the real scale lacks.

**Findings.**
- `phantom_liabilities`: a borrower borrows 1 and one block accrues 10%. The loan projects to
  `1 * 1.1`, which truncates to 1. The borrower repays 1. Now every debt is 0, but
  `total_liabilities = 0.1`. The ledger keeps every truncated remainder, so it overstates the
  outstanding debt (spec section 3 says they are equal). `borrow_stable` accepts a zero
  amount, so a borrower can sync and shed the fraction at every block.
- `query_past_height`: `query_loan_amount` at a height below the last accrual overflows the u64
  subtraction at line 179. Spec 4.2 asks for the elapsed time to be taken as zero.

No fairness is assumed and no liveness is checked. Every handler is a request that a user may
or may not send, and nothing in this code must eventually happen. Each handler runs as one
atomic transaction, so there are no crashes between steps, no lost messages and no retries to
model at this layer.

## 4. Proofs

`MarketProofs.tla`:
- `TypeCorrect`: `Spec => []TypeOK`.
- `IndexOrderInvariant`: `Spec => []IndexOrder`.

`LoanBook.tla`:
- `CoveredInvariant`: for natural amounts, `LoanBook`'s `Spec => [](TypeOK /\ Covered)`.

`MarketRefinement.tla`:
- `Refinement`: `Spec => LoanBookRefined`.

`MarketStepProofs.tla`:
- `QueryCoversDebtInvariant`: `Spec => []QueryCoversDebt`.
- `ChargedOnceTheorem`: `Spec => ChargedOnce`.
- `LedgerFollowsLendingTheorem`: `Spec => LedgerFollowsLending`.

`MarketIndexProofs.tla`:
- `IndexGrowthTheorem`: under the hypothesis `PowFacts`, `Spec => []IndexGrowthBounded`.
- `IndexGrowthSlackTheorem`: under the hypothesis `PowFacts`, `Spec => []IndexGrowthSlack`.

All of them hold for every value of the constants that satisfies `Market`'s assumptions:
- `S` is a positive natural;
- the rates, reserve factor, amounts and limits are naturals;
- the rates have a largest element (`RatesBoundedAssumption`). The interest model always
  answers some rate, and a Decimal has a fixed width, so its answers are bounded.

`MaxHeight` is not used.

**The inductive invariant.** Neither `TypeOK` nor `IndexOrder` is inductive alone, so the
proofs use
`IInv == TypeOK /\ last_interest_updated <= height /\ One <= global_interest_index /\ IndexOrder`.
- `last_interest_updated <= height` makes `passed_blocks` a natural.
- `One <= global_interest_index` keeps the index positive even with no borrowers.

The argument for `IInv`:
- `MulGrowNotLess` shows that `decimal_multiplication(g, One + f) >= g`, so accrual never
  lowers the index.
- `ComputeInterestFacts` and `StoredLiability` say what a handler computes.
- `HandlerIInv` shows that any handler storing the accrued State and a Liability stamped
  with the new index keeps `IInv`.
- Borrow, repay and liquidation reduce to `HandlerIInv`.

**The refinement.** It rests on two lemmas about `compute_loan`'s projection:
- `ProjMono`: the projection is monotone in the index it projects to. With `IInv`'s "accrual
  never lowers the index", a bystander's debt never falls.
- `ProjSelf`: a record stamped with the current index projects to its own amount. So the
  record a handler stores is exactly the debt `LoanBook` sees next.

`HandlerProjection` combines them for any handler. `BorrowRefines` and `RepayRefines` discharge
`LB!Borrow` and `LB!Repay` from the handlers' guards and assignments. The liquidation is a
`Repay` of `cur_balance - prev_balance`, which is a member of `Tendered`. The theorem is the
usual `Init => LB!Init`, `IInv /\ [Next]_vars => [LB!Next]_LB!vars`, and PTL.

With the instantiated `LB!CoveredInvariant`, the refinement also gives that no borrower's
projected debt falls below its `net_lent`.

TLC first checked each conjunct of `IInv` as an invariant in `market_safety`.

**One step at a time.** `MarketStepProofs` proves its three results from `IInv` alone.
- `QueryCoversDebt`: `last_interest_updated <= height` rules out the u64 underflow at every
  height from `height` on. `ComputeInterestFacts` with `ProjMono` shows that the quote, which
  projects to an index at least the global one, covers `ProjectedLoan`.
- `ChargedOnce`: `HandlerStamps` says that every handler stores the accrued State with the
  stamp `height`. `NoAccrualAtStamp` says that with no block elapsed the index and the reserves
  are unchanged.
- `LedgerFollowsLending`: `AccrualAdds` says that accrual only adds to the ledger. A borrow then
  adds `FromInt(a)`. A repayment's clamped subtraction is at least the unclamped one, and it
  lowers the ledger only when it kept something.

Each action property is proved in the form `IInv /\ [Next]_vars => [A]_vars`, and closed
with PTL.

**IndexGrowthBounded.** This invariant is not inductive. A transaction after `k` idle blocks
multiplies the index by `1 + k*rate` at once. Only Bernoulli's inequality,
`1 + k*rate <= (1 + rate)^k`, keeps the bound, and proving that for every `k` needs
induction.
- `IndexGrowthSlack` avoids the induction. It carries the inequality one block at a time:
  - each `NewBlock` adds one block of simple interest to the left side and a factor
    `1 + MaxRate` to the right;
  - `(1 + (k+1)M) <= (1 + kM)(1 + M)` is plain arithmetic.
- An accrual consumes the slack and restarts it at zero.
- TLC checks `IndexGrowthSlack` in `market_safety`.

The provers treat `^` as an uninterpreted symbol. They cannot derive `a^0 = 1` or
`a^(n+1) = a^n * a`, and a recursive function standing in for `^` would need the library's
operator-parameter theorem to unfold. So `IndexGrowthTheorem` takes exactly those facts, for
positive bases, as its hypothesis `PowFacts`. `PowFacts` is the definition of exponentiation
and is true. Everything else in the argument is machine-checked. `IndexGrowthSlackTheorem`
states the strengthening itself, from the same inductive invariant `IInv /\ IG`.

**Only model-checked.**
- `LedgerCoversDebt` is a sum over borrowers. The sums of the community modules are
  `RECURSIVE` folds, which a proof module may not reach. Proving the bound also needs
  induction over finite sets, which the provers cannot instantiate.
- `RepayNeverClamps` rests on the same sum: the repaying borrower's debt fits in the ledger
  only because the ledger covers all the debts together.

Liveness is out of the provers' reach too, but none arises here.

## 5. Not modelled, and what is left

- **Widths.** Uint128 and Decimal widths are not modelled, and neither is the build's
  overflow-check setting: amounts are unbounded naturals. The unchecked
  `borrow_amount + loan_amount` at line 38 is harmless either way:
  - with overflow checks (what spec 4.1 requires), it panics and the transaction rolls back;
  - without them, the wrapped sum passes the check, but the transfer of the huge
    `borrow_amount` fails and the transaction rolls back.

  Showing the second case needs the market's bank balance, which deposits and redemptions
  move. That code is not under src/. The hazard is listed with this note.
- **`query_liabilities`.** It forwards to `state.rs`'s `read_liabilities`, whose ordering and
  page limits are not under src/.
- **The overseer's side of a liquidation** (when it reads `prev_balance`) is another contract.
  The model lets it pass any `prev_balance`. A value above the current balance makes the
  `unwrap` at line 91 abort the transaction, which is the action's guard.
- **Deposit/redeem, init, config and dispatch** are not under src/.
