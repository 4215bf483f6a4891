--------------------------- MODULE MC_FlashLoanExec ---------------------------
EXTENDS FlashLoanExec, TLC

CONSTANTS e1

\* The providers get_optimal_provider can return with an asynchronous
\* Web3 (module FlashLoan): AAVE_V3's and BALANCER's liquidity reads always
\* raise (flash_loan.py:160, 164), which leaves DYDX and UNISWAP_V3.
MCSelectable == {"dydx", "uniswap_v3"}
=============================================================================
