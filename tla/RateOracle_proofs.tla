-------------------------- MODULE RateOracle_proofs --------------------------
(***************************************************************************)
(* Proofs about RateOracle, for any number of calls and providers and any  *)
(* market.  The bound on the age of a quoted price rests on what the cache *)
(* may hold: a price is at most Wait older than the moment it was stored.  *)
(***************************************************************************)
EXTENDS RateOracle, TLAPS

\* ceilRat returns the smallest integer that is not below the fraction.
LEMMA CeilDivIsCeiling ==
  ASSUME NEW n \in Nat \ {0}, NEW d \in Nat \ {0}
  PROVE  /\ CeilDiv(n, d) \in Nat \ {0}
         /\ CeilDiv(n, d) * d >= n
         /\ (CeilDiv(n, d) - 1) * d < n
<1> DEFINE q == n \div d
           m == n % d
<1>1. q \in Nat /\ m \in 0..(d - 1) /\ n = d * q + m
  OBVIOUS
<1> HIDE DEF q, m
<1>2. (q + 1) * d = d * q + d /\ q * d = d * q /\ (q - 1) * d = d * q - d
  BY <1>1
<1>3. CASE m > 0
  <2>1. CeilDiv(n, d) = q + 1
    BY <1>3 DEF CeilDiv, q, m
  <2> QED
    BY <1>1, <1>2, <1>3, <2>1
<1>4. CASE m = 0
  <2>1. CeilDiv(n, d) = q
    BY <1>4 DEF CeilDiv, q, m
  <2>2. q # 0
    BY <1>1, <1>4
  <2> QED
    BY <1>1, <1>2, <1>4, <2>1, <2>2
<1> QED
  BY <1>1, <1>3, <1>4
-----------------------------------------------------------------------------
\* A price enters the cache at most Wait after it was sampled.
CacheIsRecent ==
    cache # NoEntry =>
        /\ cache \in [sampled: Moments, at: Moments]
        /\ cache.at <= now
        /\ cache.at - cache.sampled <= Wait

\* What is known of a call, at each stage.
Trying(c) ==
    call[c].pc \in {"asking", "answered"} =>
        /\ call[c].provider \in 1..Providers
        /\ refused[c] = 1..(call[c].provider - 1)
        /\ call[c].since <= now /\ now <= call[c].since + Wait
        /\ call[c].pc = "answered" =>
              call[c].sampled \in Moments /\ call[c].sampled >= call[c].since
Ended(c) ==
    /\ call[c].pc = "idle" => refused[c] = {}
    /\ call[c].pc = "failed" /\ call[c].fiat > 0 => refused[c] = 1..Providers
    /\ call[c].pc = "quoted" =>
        /\ call[c].sampled \in Moments
        /\ call[c].since - call[c].sampled < TTL + Wait
        /\ call[c].amount > 0
        /\ WorthThePrice(call[c].amount, call[c].fiat, Market[call[c].sampled])
CallInv(c) == Trying(c) /\ Ended(c)

IInv == TypeOK /\ CacheIsRecent /\ \A c \in Calls : CallInv(c)

\* A step of call c leaves every other call as it is.
LEMMA OthersKeep ==
  ASSUME IInv, NEW c \in Calls, NEW d \in Calls \ {c},
         call'[d] = call[d], refused'[d] = refused[d], now' = now
  PROVE  CallInv(d)'
BY DEF IInv, CallInv, Trying, Ended

\* A call with a recent price quotes it, or fails on its amount.
LEMMA PricedEnds ==
  ASSUME IInv, NEW c \in Calls, NEW fiat \in Fiats \cup {0}, NEW sampled \in Moments,
         Priced(c, fiat, sampled), now' = now, refused' = refused,
         now - sampled < TTL + Wait
  PROVE  /\ call' \in [Calls ->
                [pc: {"idle", "asking", "answered", "quoted", "failed"},
                 fiat: Fiats \cup {0}, provider: 0..Providers, since: Moments,
                 sampled: Moments \cup {Never}, amount: Int]]
         /\ \A d \in Calls : CallInv(d)'
<1> USE OracleAssumption DEF OracleAssumption
<1>0. fiat \in Int /\ now \in Moments /\ Market[sampled] \in Fraction
  BY DEF IInv, TypeOK, Moments
<1>1. \A d \in Calls \ {c} : CallInv(d)'
  BY OthersKeep DEF Priced, IInv, TypeOK
<1>2. CASE fiat > 0
  <2> DEFINE n == fiat * Scale * Market[sampled].den
             d == Market[sampled].num
             amount == Units(fiat, Market[sampled])
  <2>1. n \in Nat \ {0} /\ d \in Nat \ {0}
    <3>1. fiat * Scale \in Nat \ {0}
      BY <1>0, <1>2
    <3>2. Market[sampled].den \in Nat \ {0} /\ Market[sampled].num \in Nat \ {0}
      BY <1>0 DEF Fraction
    <3> QED
      BY <3>1, <3>2
  <2>2. amount = CeilDiv(n, d)
    BY DEF Units
  <2> HIDE DEF n, d, amount
  <2>3. amount \in Nat \ {0} /\ amount * d >= n /\ (amount - 1) * d < n
    BY <2>1, <2>2, CeilDivIsCeiling
  <2>4. WorthThePrice(amount, fiat, Market[sampled])
    BY <2>3 DEF WorthThePrice, n, d
  <2>5. call' = [call EXCEPT ![c] = Calling("quoted", fiat, 0, now, sampled, amount)]
    BY <1>2 DEF Priced, amount
  <2>6. call'[c] = Calling("quoted", fiat, 0, now, sampled, amount)
    BY <2>5 DEF IInv, TypeOK
  <2>7. CallInv(c)'
    BY <1>0, <2>3, <2>4, <2>6 DEF CallInv, Trying, Ended, Calling
  <2> QED
    BY <1>0, <1>1, <2>3, <2>5, <2>7 DEF Calling, IInv, TypeOK
<1>3. CASE ~(fiat > 0)
  <2>1. call' = [call EXCEPT ![c] = Calling("failed", fiat, 0, now, Never, 0)]
    BY <1>3 DEF Priced
  <2>2. call'[c] = Calling("failed", fiat, 0, now, Never, 0)
    BY <2>1 DEF IInv, TypeOK
  <2>3. CallInv(c)'
    BY <1>3, <2>2 DEF CallInv, Trying, Ended, Calling
  <2> QED
    BY <1>0, <1>1, <2>1, <2>3 DEF Calling, IInv, TypeOK
<1> QED
  BY <1>2, <1>3

\* The loop goes on to provider n, after all the ones before it failed.
LEMMA AskGoesOn ==
  ASSUME IInv, NEW c \in Calls, NEW fiat \in Fiats \cup {0}, NEW n \in 1..(Providers + 1),
         AskProvider(c, fiat, n), now' = now,
         refused' \in [Calls -> SUBSET (1..Providers)],
         refused'[c] = 1..(n - 1), \A d \in Calls \ {c} : refused'[d] = refused[d]
  PROVE  /\ call' \in [Calls ->
                [pc: {"idle", "asking", "answered", "quoted", "failed"},
                 fiat: Fiats \cup {0}, provider: 0..Providers, since: Moments,
                 sampled: Moments \cup {Never}, amount: Int]]
         /\ \A d \in Calls : CallInv(d)'
<1> USE OracleAssumption DEF OracleAssumption
<1>0. now \in Moments /\ now \in Nat
  BY DEF IInv, TypeOK, Moments
<1>1. \A d \in Calls \ {c} : CallInv(d)'
  BY OthersKeep DEF AskProvider, IInv, TypeOK
<1>2. CASE n > Providers
  <2>1. call' = [call EXCEPT ![c] = Calling("failed", fiat, 0, now, Never, 0)] /\ n - 1 = Providers
    BY <1>2 DEF AskProvider
  <2>2. call'[c] = Calling("failed", fiat, 0, now, Never, 0)
    BY <2>1 DEF IInv, TypeOK
  <2>3. CallInv(c)'
    BY <2>1, <2>2 DEF CallInv, Trying, Ended, Calling
  <2> QED
    BY <1>0, <1>1, <2>1, <2>3 DEF Calling, IInv, TypeOK
<1>3. CASE ~(n > Providers)
  <2>0. n \in 1..Providers
    BY <1>3
  <2>1. call' = [call EXCEPT ![c] = Calling("asking", fiat, n, now, Never, 0)]
    BY <1>3 DEF AskProvider
  <2>2. call'[c] = Calling("asking", fiat, n, now, Never, 0)
    BY <2>1 DEF IInv, TypeOK
  <2>3. CallInv(c)'
    BY <1>0, <2>0, <2>2 DEF CallInv, Trying, Ended, Calling
  <2> QED
    BY <1>0, <1>1, <2>0, <2>1, <2>3 DEF Calling, IInv, TypeOK
<1> QED
  BY <1>2, <1>3

-----------------------------------------------------------------------------
LEMMA InitOracle == Init => IInv
<1> SUFFICES ASSUME Init PROVE IInv
  OBVIOUS
<1> USE OracleAssumption DEF OracleAssumption
<1>1. TypeOK
  BY DEF Init, TypeOK, Calling, NoEntry, Never, Moments
<1>2. CacheIsRecent
  BY DEF Init, CacheIsRecent
<1>3. ASSUME NEW c \in Calls PROVE CallInv(c)
  BY DEF Init, CallInv, Trying, Ended, Calling
<1> QED
  BY <1>1, <1>2, <1>3 DEF IInv

LEMMA TickPreserves == IInv /\ Tick => IInv'
<1> SUFFICES ASSUME IInv, Tick PROVE IInv'
  OBVIOUS
<1> USE OracleAssumption DEF OracleAssumption
<1>1. /\ now \in Nat /\ now' = now + 1 /\ now' \in Moments
      /\ UNCHANGED <<cache, call, refused>>
  BY DEF Tick, IInv, TypeOK, Moments
<1>2. TypeOK'
  BY <1>1 DEF IInv, TypeOK
<1>3. CacheIsRecent'
  BY <1>1 DEF IInv, CacheIsRecent, Moments
<1>4. ASSUME NEW c \in Calls PROVE CallInv(c)'
  <2>1. call[c].since \in Nat
    BY DEF IInv, TypeOK, Moments
  <2>2. Trying(c)'
    <3> SUFFICES ASSUME call[c].pc \in {"asking", "answered"} PROVE Trying(c)'
      BY <1>1 DEF Trying
    <3>1. now < call[c].since + Wait
      BY DEF Tick
    <3> QED
      BY <1>1, <2>1, <3>1 DEF IInv, CallInv, Trying
  <2>3. Ended(c)'
    BY <1>1 DEF IInv, CallInv, Ended
  <2> QED
    BY <2>2, <2>3 DEF CallInv
<1> QED
  BY <1>2, <1>3, <1>4 DEF IInv

LEMMA HitPreserves ==
  ASSUME IInv, NEW c \in Calls, NEW fiat \in Fiats, Hit(c, fiat)
  PROVE  IInv'
<1> USE OracleAssumption DEF OracleAssumption
<1>1. /\ Priced(c, fiat, cache.sampled) /\ cache # NoEntry /\ now - cache.at < TTL
      /\ UNCHANGED <<now, cache, refused>>
  BY DEF Hit, Fresh
<1>2. /\ cache.sampled \in Moments /\ cache.at \in Moments /\ now \in Moments
      /\ cache.at - cache.sampled <= Wait
  BY <1>1 DEF IInv, CacheIsRecent, TypeOK
<1>3. now - cache.sampled < TTL + Wait
  BY <1>1, <1>2 DEF Moments
<1>4. /\ TypeOK' /\ \A d \in Calls : CallInv(d)'
  BY <1>1, <1>2, <1>3, PricedEnds DEF IInv, TypeOK
<1>5. CacheIsRecent'
  BY <1>1 DEF IInv, CacheIsRecent
<1> QED
  BY <1>4, <1>5 DEF IInv

LEMMA MissPreserves ==
  ASSUME IInv, NEW c \in Calls, NEW fiat \in Fiats, Miss(c, fiat)
  PROVE  IInv'
<1> USE OracleAssumption DEF OracleAssumption
<1>1. AskProvider(c, fiat, 1) /\ call[c].pc = "idle" /\ UNCHANGED <<now, cache, refused>>
  BY DEF Miss
<1>2. refused'[c] = 1..(1 - 1)
  BY <1>1 DEF IInv, CallInv, Ended
<1>3. 1 \in 1..(Providers + 1) /\ refused' \in [Calls -> SUBSET (1..Providers)]
  BY <1>1 DEF IInv, TypeOK
<1>4. TypeOK' /\ \A d \in Calls : CallInv(d)'
  BY <1>1, <1>2, <1>3, AskGoesOn DEF IInv, TypeOK
<1>5. CacheIsRecent'
  BY <1>1 DEF IInv, CacheIsRecent
<1> QED
  BY <1>4, <1>5 DEF IInv

LEMMA SamplePreserves ==
  ASSUME IInv, NEW c \in Calls, Sample(c)
  PROVE  IInv'
<1> USE OracleAssumption DEF OracleAssumption
<1> DEFINE new == Calling("answered", call[c].fiat, call[c].provider, call[c].since, now, 0)
<1>1. /\ call[c].pc = "asking" /\ call' = [call EXCEPT ![c] = new]
      /\ UNCHANGED <<now, cache, refused>>
  BY DEF Sample
<1>2. call'[c] = new /\ \A d \in Calls \ {c} : call'[d] = call[d]
  BY <1>1 DEF IInv, TypeOK
<1>3. TypeOK'
  <2>1. new \in [pc: {"idle", "asking", "answered", "quoted", "failed"},
                 fiat: Fiats \cup {0}, provider: 0..Providers, since: Moments,
                 sampled: Moments \cup {Never}, amount: Int]
    BY DEF IInv, TypeOK, Calling
  <2> HIDE DEF new
  <2> QED
    BY <1>1, <2>1 DEF IInv, TypeOK
<1>4. CallInv(c)'
  BY <1>1, <1>2 DEF IInv, TypeOK, CallInv, Trying, Ended, Calling
<1>5. \A d \in Calls \ {c} : CallInv(d)'
  BY <1>1, <1>2, OthersKeep
<1>6. CacheIsRecent'
  BY <1>1 DEF IInv, CacheIsRecent
<1> QED
  BY <1>3, <1>4, <1>5, <1>6 DEF IInv

LEMMA FailurePreserves ==
  ASSUME IInv, NEW c \in Calls, ProviderFails(c)
  PROVE  IInv'
<1> USE OracleAssumption DEF OracleAssumption
<1> DEFINE n == call[c].provider + 1
<1>1. /\ call[c].pc \in {"asking", "answered"} /\ AskProvider(c, call[c].fiat, n)
      /\ refused' = [refused EXCEPT ![c] = refused[c] \cup {call[c].provider}]
      /\ UNCHANGED <<now, cache>>
  BY DEF ProviderFails
<1>2. /\ call[c].provider \in 1..Providers /\ call[c].fiat \in Fiats \cup {0}
      /\ refused[c] = 1..(call[c].provider - 1)
  BY <1>1 DEF IInv, CallInv, Trying, TypeOK
<1>3. n \in 1..(Providers + 1) /\ n - 1 = call[c].provider
  BY <1>2
<1>4. /\ refused' \in [Calls -> SUBSET (1..Providers)]
      /\ refused'[c] = refused[c] \cup {call[c].provider}
      /\ \A d \in Calls \ {c} : refused'[d] = refused[d]
  BY <1>1, <1>2 DEF IInv, TypeOK
<1>5. refused'[c] = 1..(n - 1)
  BY <1>2, <1>3, <1>4
<1> HIDE DEF n
<1>6. TypeOK' /\ \A d \in Calls : CallInv(d)'
  BY <1>1, <1>2, <1>3, <1>4, <1>5, AskGoesOn DEF IInv, TypeOK
<1>7. CacheIsRecent'
  BY <1>1 DEF IInv, CacheIsRecent
<1> QED
  BY <1>6, <1>7 DEF IInv

LEMMA StorePreserves ==
  ASSUME IInv, NEW c \in Calls, StorePrice(c)
  PROVE  IInv'
<1> USE OracleAssumption DEF OracleAssumption
<1>1. /\ call[c].pc = "answered" /\ cache' = [sampled |-> call[c].sampled, at |-> now]
      /\ Priced(c, call[c].fiat, call[c].sampled) /\ UNCHANGED <<now, refused>>
  BY DEF StorePrice
<1>2. /\ call[c].fiat \in Fiats \cup {0} /\ call[c].sampled \in Moments
      /\ now \in Moments /\ call[c].since \in Moments
      /\ call[c].since <= call[c].sampled /\ now <= call[c].since + Wait
  BY <1>1 DEF IInv, CallInv, Trying, TypeOK
<1>3. now - call[c].sampled <= Wait /\ now - call[c].sampled < TTL + Wait
  BY <1>2 DEF Moments
<1>4. CacheIsRecent'
  BY <1>1, <1>2, <1>3 DEF CacheIsRecent, Moments
<1>5. TypeOK' /\ \A d \in Calls : CallInv(d)'
  BY <1>1, <1>2, <1>3, PricedEnds DEF IInv, TypeOK
<1> QED
  BY <1>4, <1>5 DEF IInv

THEOREM OracleInvariance == Spec => []IInv
<1>1. IInv /\ UNCHANGED vars => IInv'
  BY DEF IInv, TypeOK, CacheIsRecent, CallInv, Trying, Ended, vars
<1>2. IInv /\ [Next]_vars => IInv'
  BY <1>1, TickPreserves, HitPreserves, MissPreserves, SamplePreserves, FailurePreserves,
     StorePreserves DEF Next
<1> QED
  BY InitOracle, <1>2, PTL DEF Spec

\* The oracle's state keeps its types, for any number of calls, providers and
\* fiat prices; in particular a call never asks beyond the last provider.
THEOREM OracleTypeCorrect == Spec => []TypeOK
<1>1. IInv => TypeOK
  BY DEF IInv
<1> QED
  BY OracleInvariance, <1>1, PTL

\* No quote rests on a market more than TTL and one request old
\* (rates.go price), however calls overlap.
THEOREM QuotesAreRecent == Spec => []PriceIsRecent
<1>1. IInv => PriceIsRecent
  BY OracleAssumption DEF OracleAssumption, IInv, CallInv, Ended, PriceIsRecent, Never, Moments
<1> QED
  BY OracleInvariance, <1>1, PTL

\* A provider's failure is covered by the ones after it (rates.go price).
THEOREM FailureIsCovered == Spec => []FailsOnlyWhenAllFailed
<1>1. IInv => FailsOnlyWhenAllFailed
  BY DEF IInv, CallInv, Ended, FailsOnlyWhenAllFailed
<1> QED
  BY OracleInvariance, <1>1, PTL

\* A quoted amount is worth its fiat price, by less than a unit too much
\* (rates.go CryptoAmount, ceilRat), for every market and asset scale.
THEOREM NeverUnderpaid == Spec => []NeverUnderpaidByRounding
<1>1. IInv => NeverUnderpaidByRounding
  BY DEF IInv, CallInv, Ended, NeverUnderpaidByRounding
<1> QED
  BY OracleInvariance, <1>1, PTL
=============================================================================
