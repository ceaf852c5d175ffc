----------------------------- MODULE MCMarketData -----------------------------
\* Two symbols: one that is served first and decides on freshness, one after it.
EXTENDS MarketData
MCSymbols == <<"BTC", "ETH">>
=============================================================================
