---------------------------- MODULE MCRateOracle ----------------------------
(* Three overlapping calls, two providers, a market that moves.            *)
EXTENDS RateOracle

Price(num, den) == [num |-> num, den |-> den]

\* Divisors that leave a remainder, that do not, and prices below one.
MCMarket == [t \in 0..MaxTime |->
    CASE t % 3 = 0 -> Price(3, 1) [] t % 3 = 1 -> Price(5, 2) [] t % 3 = 2 -> Price(2, 3)]
=============================================================================
