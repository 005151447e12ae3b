----------------------------- MODULE RateOracle -----------------------------
(***************************************************************************)
(* Oracle.CryptoAmount (internal/rates): the price of an asset in a fiat   *)
(* currency, from a cache shared by concurrent calls or from the providers *)
(* in order, and the crypto amount that a fiat price comes to.             *)
(*                                                                         *)
(* The lock is not held while a provider is asked, so calls that miss the  *)
(* cache overlap and a slow answer may replace a newer price.  One asset   *)
(* and currency: entries of the cache do not interact.  A price is known   *)
(* by the moment the provider looked at its market.                        *)
(***************************************************************************)
EXTENDS Integers

CONSTANTS
    Calls,      \* calls of CryptoAmount, one for each fiat-priced creation
    Providers,  \* how many providers there are, tried as 1, 2, ...
    TTL,        \* Oracle.ttl
    Wait,       \* the timeout of a provider's HTTP client
    Market,     \* the fiat price of one coin, a fraction, at each moment
    Fiats,      \* fiat amounts a call may carry; 0 stands for one not parsed
    Scale,      \* 10^Asset.Decimals
    MaxTime     \* bound of the instance

Fraction == [num: Nat \ {0}, den: Nat \ {0}]

ASSUME OracleAssumption ==
    /\ Providers \in Nat
    /\ TTL \in Nat \ {0} /\ Wait \in Nat
    /\ MaxTime \in Nat
    /\ Market \in [0..MaxTime -> Fraction]
    /\ Fiats \subseteq Int
    /\ Scale \in Nat \ {0}

VARIABLES
    now,     \* the clock
    cache,   \* the cached price and when it was stored
    call,    \* the state of each call
    refused  \* history: the providers that failed each call

vars == <<now, cache, call, refused>>

Never == -1
NoEntry == [sampled |-> Never, at |-> Never]

\* since: when the provider was asked; at the end, when the call ended.
Calling(stage, fiat, provider, since, sampled, amount) ==
    [pc |-> stage, fiat |-> fiat, provider |-> provider, since |-> since,
     sampled |-> sampled, amount |-> amount]

Init ==
    /\ now = 0
    /\ cache = NoEntry
    /\ call = [c \in Calls |-> Calling("idle", 0, 0, 0, Never, 0)]
    /\ refused = [c \in Calls |-> {}]

\* An HTTP client gives up after Wait, so time does not pass it by.
Tick ==
    /\ now < MaxTime
    /\ \A c \in Calls : call[c].pc \in {"asking", "answered"} => now < call[c].since + Wait
    /\ now' = now + 1
    /\ UNCHANGED <<cache, call, refused>>

-----------------------------------------------------------------------------
(* The amount. *)

\* Mutant of CeilDiv: truncation.
FloorDiv(n, d) == n \div d

\* ceilRat, for the positive values it is given.
CeilDiv(n, d) == IF n % d > 0 THEN n \div d + 1 ELSE n \div d

\* fiat / price * scale, rounded up to the smallest unit.
Units(fiat, price) == CeilDiv(fiat * Scale * price.den, price.num)

\* The price is there: an amount that is not a positive number fails even so.
Priced(c, fiat, sampled) ==
    call' = [call EXCEPT ![c] =
        IF fiat > 0
        THEN Calling("quoted", fiat, 0, now, sampled, Units(fiat, Market[sampled]))
        ELSE Calling("failed", fiat, 0, now, Never, 0)]

-----------------------------------------------------------------------------
(* The price. *)

Fresh == cache # NoEntry /\ now - cache.at < TTL

\* Mutant of Hit: a price that is used is kept for longer.
HitRenews(c, fiat) ==
    /\ call[c].pc = "idle"
    /\ Fresh
    /\ Priced(c, fiat, cache.sampled)
    /\ cache' = [cache EXCEPT !.at = now]
    /\ UNCHANGED <<now, refused>>

Hit(c, fiat) ==
    /\ call[c].pc = "idle"
    /\ Fresh
    /\ Priced(c, fiat, cache.sampled)
    /\ UNCHANGED <<now, cache, refused>>

\* Mutant of AskProvider: one provider too many.
AskProviderBeyond(c, fiat, n) ==
    call' = [call EXCEPT ![c] =
        IF n > Providers + 1 THEN Calling("failed", fiat, 0, now, Never, 0)
        ELSE Calling("asking", fiat, n, now, Never, 0)]

\* The loop over the providers, at provider n.
AskProvider(c, fiat, n) ==
    call' = [call EXCEPT ![c] =
        IF n > Providers THEN Calling("failed", fiat, 0, now, Never, 0)
        ELSE Calling("asking", fiat, n, now, Never, 0)]

Miss(c, fiat) ==
    /\ call[c].pc = "idle"
    /\ ~Fresh
    /\ AskProvider(c, fiat, 1)
    /\ UNCHANGED <<now, cache, refused>>

\* The provider looks at its market, some time before its answer arrives.
Sample(c) ==
    /\ call[c].pc = "asking"
    /\ call' = [call EXCEPT ![c] =
           Calling("answered", @.fiat, @.provider, @.since, now, 0)]
    /\ UNCHANGED <<now, cache, refused>>

\* Mutant of ProviderFails: the first error ends the call.
ProviderFailsForAll(c) ==
    /\ call[c].pc \in {"asking", "answered"}
    /\ refused' = [refused EXCEPT ![c] = @ \cup {call[c].provider}]
    /\ AskProvider(c, call[c].fiat, Providers + 1)
    /\ UNCHANGED <<now, cache>>

\* No answer in time, a bad status or body, or a price that is not positive.
ProviderFails(c) ==
    /\ call[c].pc \in {"asking", "answered"}
    /\ refused' = [refused EXCEPT ![c] = @ \cup {call[c].provider}]
    /\ AskProvider(c, call[c].fiat, call[c].provider + 1)
    /\ UNCHANGED <<now, cache>>

\* The answer is stored whatever the cache holds by now.
StorePrice(c) ==
    /\ call[c].pc = "answered"
    /\ cache' = [sampled |-> call[c].sampled, at |-> now]
    /\ Priced(c, call[c].fiat, call[c].sampled)
    /\ UNCHANGED <<now, refused>>

Next ==
    \/ Tick
    \/ \E c \in Calls, fiat \in Fiats : Hit(c, fiat) \/ Miss(c, fiat)
    \/ \E c \in Calls : Sample(c) \/ ProviderFails(c) \/ StorePrice(c)

Spec == Init /\ [][Next]_vars

-----------------------------------------------------------------------------
(* Properties.                                                             *)

Moments == 0..MaxTime

TypeOK ==
    /\ now \in Moments
    /\ cache \in [sampled: Moments, at: Moments] \cup {NoEntry}
    /\ call \in [Calls ->
           [pc: {"idle", "asking", "answered", "quoted", "failed"},
            fiat: Fiats \cup {0}, provider: 0..Providers, since: Moments,
            sampled: Moments \cup {Never}, amount: Int]]
    /\ refused \in [Calls -> SUBSET (1..Providers)]

\* "It fails closed: if no fresh price is available, invoice creation errors
\* rather than guessing a rate" (rates.go): no invoice is priced at a market
\* the provider saw TTL and one request ago or earlier.  The cache dates a
\* price by its arrival and lets a late answer replace a newer price, so the
\* bound is on the chain of both, over all interleavings of calls.
PriceIsRecent ==
    \A c \in Calls :
        call[c].pc = "quoted" =>
            /\ call[c].sampled # Never
            /\ call[c].since - call[c].sampled < TTL + Wait

\* "A secondary provider covers a primary outage": a call with a good amount
\* fails only after each provider failed it (rates.go price).
FailsOnlyWhenAllFailed ==
    \A c \in Calls :
        call[c].pc = "failed" /\ call[c].fiat > 0 => refused[c] = 1..Providers

\* "Rounding up to the asset's smallest unit so the merchant is never
\* underpaid due to rounding": the amount is worth the fiat price at the
\* market it was quoted at, and one unit less is not (rates.go CryptoAmount).
WorthThePrice(amount, fiat, price) ==
    /\ amount * price.num >= fiat * Scale * price.den
    /\ (amount - 1) * price.num < fiat * Scale * price.den

NeverUnderpaidByRounding ==
    \A c \in Calls :
        call[c].pc = "quoted" =>
            /\ call[c].amount > 0
            /\ WorthThePrice(call[c].amount, call[c].fiat, Market[call[c].sampled])
=============================================================================
