------------------------------ MODULE BuyMath ------------------------------
(***************************************************************************)
(* onre-pricing::buy: token_in to ONyc at the offer's price.               *)
(***************************************************************************)
EXTENDS Pricing

CONSTANTS
    TenTo,              \* TenTo[d] is 10^d; a configuration may lower the radix
    PriceDecimals,      \* PRICE_DECIMALS
    MaxTokenDecimals    \* MAX_TOKEN_DECIMALS

ASSUME DecimalsAssumption ==
    /\ PriceDecimals \in Nat
    /\ MaxTokenDecimals \in Nat
    /\ TenTo \in [0..(MaxTokenDecimals + PriceDecimals) -> Nat \ {0}]

\* The checks both sides make before they convert an amount.
ConvertError(price, inDecimals, outDecimals) ==
    IF price = 0 THEN Err("ZeroPriceNotAllowed")
    ELSE IF inDecimals > MaxTokenDecimals \/ outDecimals > MaxTokenDecimals
         THEN Err("DecimalsExceedMax")
    ELSE Ok(0)

BuyAmountOut(amountIn, price, feeBps, inDecimals, outDecimals) ==
    LET net == DeductFee(amountIn, feeBps)
        unit == TenTo[outDecimals + PriceDecimals]
    IN  IF ~ConvertError(price, inDecimals, outDecimals).ok
        THEN ConvertError(price, inDecimals, outDecimals)
        ELSE IF ~net.ok THEN net
        ELSE IF net.val = 0 THEN Ok(0)
        ELSE IF ~MulFits(net.val, unit) THEN Overflow
        ELSE Narrow((net.val * unit) \div (price * TenTo[inDecimals]))

BuyFromVector(vector, time, amountIn, feeBps, inDecimals, outDecimals) ==
    LET price == StepPrice(vector, time)
    IN  IF ~price.ok THEN price
        ELSE BuyAmountOut(amountIn, price.val, feeBps, inDecimals, outDecimals)
=============================================================================
