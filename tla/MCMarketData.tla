---------------------------- MODULE MCMarketData ----------------------------
EXTENDS MarketData, TLC

\* A deployment with what the comments of the configuration describe: an ordered
\* fallback, "default" (here <<>>), tools with vendors of their own, and a vendor
\* that does not have the method.
Mixed ==
    [data |-> [c \in Categories |-> CASE c = "technical_indicators" -> <<"yfinance", "alpha_vantage">>
                                      [] c = "news_data" -> <<"alpha_vantage", "yfinance">>
                                      [] OTHER -> <<>>],
     tools |-> [m \in {"get_stock_data", "get_insider_transactions"} |->
                  IF m = "get_stock_data" THEN <<"alpha_vantage", "yfinance">> ELSE <<"fred">>]]
\* One that leaves the order to the code, but for a source that has one vendor
\* only and is given another.
Misled ==
    [data |-> [c \in Categories |-> <<>>],
     tools |-> [m \in {"get_prediction_markets"} |-> <<"fred">>]]
MCDeployments == {Mixed, Misled}
Symmetry == Permutations(Threads)
=============================================================================
