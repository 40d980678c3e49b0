---------------------------- MODULE MCPriceChart ----------------------------
\* Two stocks, the minute and the daily chart; an initial load of one day and
\* pages of one, so that a first page and a further one reach the epoch; the
\* clock crosses one bar.  The stocks are interchangeable.
EXTENDS PriceChart

Stocks == Permutations(Tickers)

=============================================================================
