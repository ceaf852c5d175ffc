--------------------------- MODULE MCPaperAccount ---------------------------
EXTENDS PaperAccount

MCSymbols == <<"BTCUSDT", "ETHUSDT">>
=============================================================================
