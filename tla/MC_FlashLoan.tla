----------------------------- MODULE MC_FlashLoan -----------------------------
EXTENDS FlashLoan, TLC

\* flash_loan.py pools: DYDX short, BALANCER and UNISWAP_V3 ample.
MCLiqB == ("aave_v3" :> 0 @@ "dydx" :> 0 @@ "balancer_b" :> 2 @@ "uniswap_v3" :> 2)
=============================================================================
