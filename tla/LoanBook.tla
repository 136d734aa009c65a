------------------------------ MODULE LoanBook ------------------------------
(***************************************************************************)
(* The hedge book as the planner sees it: zero-width loans of the Safe in  *)
(* one pool, their sizes in vault-asset units at a tick, the delta of the  *)
(* account, and what a dispatch of burns and one mint does to them.        *)
(*                                                                         *)
(* Amounts are integers and every division is the truncating one of        *)
(* bigint.  A tick stands for its price: PriceAt(t) numeraire units per    *)
(* Unit asset units, a linear stand-in for 1.0001^t that keeps the         *)
(* rounding of every conversion.  A loan of side "short" borrows the vault *)
(* asset, one of side "long" borrows the numeraire.                        *)
(***************************************************************************)
EXTENDS Integers, FiniteSets, FiniteSetsExt

CONSTANTS
  Unit,        \* numeraire units per Unit asset units at tick 0
  Spacing,     \* tick spacing of the pool: loans are struck on its multiples
  MaxRatio,    \* largest optionRatio of a loan (127 in the code)
  FloorBps     \* SFPM_SWAP_SLIPPAGE_BPS: what an off-venue swap may fall short

BPS == 10000

ASSUME BookAssumption ==
  /\ Unit \in Nat \ {0} /\ Spacing \in Nat \ {0} /\ MaxRatio \in Nat \ {0}
  /\ FloorBps \in 0..BPS

Side == {"short", "long"}

-----------------------------------------------------------------------------
(* Arithmetic of the code.                                                 *)

Magnitude(x) == IF x < 0 THEN -x ELSE x

SameSign(a, b) == (a > 0 /\ b > 0) \/ (a < 0 /\ b < 0)

\* bigint division by a positive b truncates toward zero.
Quotient(a, b) == IF a < 0 THEN -((-a) \div b) ELSE a \div b

PriceAt(t) == Unit + t

\* toVaultFrameAtSqrtPriceX96 in its two directions.
ToAsset(n, t) == Quotient(n * Unit, PriceAt(t))
ToNumeraire(a, t) == Quotient(a * PriceAt(t), Unit)

\* The strike of a new loan: the signal's tick rounded down to the spacing,
\* through a quotient that truncates and a correction below zero.
RoundedStrike(t) ==
  LET q == Quotient(t, Spacing)
  IN  (IF q * Spacing # t /\ t < 0 THEN q - 1 ELSE q) * Spacing

-----------------------------------------------------------------------------
(* Loans.  A tokenId is its side, strike and optionRatio; positionSize     *)
(* counts contracts, so the notional is their product.                     *)

TokenId(l) == [side |-> l.side, strike |-> l.strike, ratio |-> l.ratio]

OpenIds(book) == {TokenId(l) : l \in book}

Notional(l) == l.positionSize * l.ratio

\* The fixed amount of the borrowed token that the loan owes.
Principal(l) ==
  IF l.side = "short" THEN Notional(l) ELSE ToNumeraire(Notional(l), l.strike)

\* The delta that a swapped burn of the loan moves at tick t.
SizeAt(l, t) ==
  IF l.side = "short" THEN Principal(l) ELSE ToAsset(Principal(l), t)

SumOf(f(_), S) == SumFunction([l \in S |-> f(l)])

OfSide(book, side) == {l \in book : l.side = side}

Gross(book, side, t) == LET size(l) == SizeAt(l, t) IN SumOf(size, OfSide(book, side))

Owed(book, side) == SumOf(Principal, OfSide(book, side))

\* H: the signed contribution of the hedge book.
Signed(book, t) == Gross(book, "long", t) - Gross(book, "short", t)

\* A unique tokenId: the first optionRatio that no open position uses, and the
\* wanted size in contracts of that ratio.
FreeRatios(book, side, strike) ==
  {r \in 1..MaxRatio : [side |-> side, strike |-> strike, ratio |-> r] \notin OpenIds(book)}

BuildUniqueLoan(book, side, strike, size) ==
  LET r == Min(FreeRatios(book, side, strike))
  IN  [side |-> side, strike |-> strike, ratio |-> r, positionSize |-> size \div r]

-----------------------------------------------------------------------------
(* The account: collateral of both tokens, the loans, and what lies loose  *)
(* in the Safe's wallet.  Settlement is the protocol's, outside the        *)
(* repository: a burn repays the principal and a mint pays it out; with    *)
(* swapAtMint the borrowed token is bought or sold at the tick of          *)
(* execution.                                                              *)

\* Change of [asset, nume] when a loan is minted; a burn is its negation.
MintFlow(l, swap, t) ==
  LET owed == Principal(l)
  IN  CASE l.side = "short" /\ swap  -> [asset |-> 0, nume |-> ToNumeraire(owed, t)]
        [] l.side = "short" /\ ~swap -> [asset |-> owed, nume |-> 0]
        [] l.side = "long" /\ swap   -> [asset |-> ToAsset(owed, t), nume |-> 0]
        [] l.side = "long" /\ ~swap  -> [asset |-> 0, nume |-> owed]

Settle(acc, burns, mints, swap, t) ==
  LET assetIn(l) == MintFlow(l, swap, t).asset
      numeIn(l)  == MintFlow(l, swap, t).nume
  IN  [acc EXCEPT !.asset = @ + SumOf(assetIn, mints) - SumOf(assetIn, burns),
                  !.nume  = @ + SumOf(numeIn, mints) - SumOf(numeIn, burns),
                  !.book  = (@ \ burns) \union mints]

\* A standalone swap: dx of the asset bought (negative: sold) at tick t.
Exchange(acc, dx, t) ==
  [acc EXCEPT !.asset = @ + dx, !.nume = @ - ToNumeraire(dx, t)]

\* The account's delta beside its options: collateral and asset debts.
BookDelta(acc) == acc.asset - Owed(acc.book, "short")

-----------------------------------------------------------------------------
(* The off-venue swap: one batch that takes the input from the wallet and  *)
(* the rest from the collateral, swaps it in another pool, and deposits    *)
(* the quoted output less the slippage; what comes on top stays loose.     *)

Least2(a, b) == IF a < b THEN a ELSE b

Output(swap, t) ==
  IF swap.sell = "asset" THEN ToNumeraire(swap.amount, t) ELSE ToAsset(swap.amount, t)

MinOut(swap, quoted) == Output(swap, quoted) - (Output(swap, quoted) * FloorBps) \div BPS

Withdrawal(acc, swap) == swap.amount - Least2(acc.loose[swap.sell], swap.amount)

Withdrawn(acc, swap) ==
  [acc EXCEPT ![swap.sell] = @ - Withdrawal(acc, swap),
              !.loose[swap.sell] = @ - (swap.amount - Withdrawal(acc, swap))]

Swapped(acc, swap, quoted, t) ==
  LET buy == IF swap.sell = "asset" THEN "nume" ELSE "asset"
  IN  [Withdrawn(acc, swap) EXCEPT
         ![buy] = @ + MinOut(swap, quoted),
         !.loose[buy] = @ + Output(swap, t) - MinOut(swap, quoted)]

\* redepositWalletBalances: everything loose becomes collateral.
Redeposited(acc) ==
  [acc EXCEPT !.asset = @ + acc.loose.asset, !.nume = @ + acc.loose.nume,
              !.loose = [asset |-> 0, nume |-> 0]]

=============================================================================
