------------------------------ MODULE MCWebApp ------------------------------
\* One stock and two search texts that both find it; two calls of the dashboard
\* and two of the session in flight.
EXTENDS WebApp

MCMatch == [q \in Queries |-> Stocks]

=============================================================================
