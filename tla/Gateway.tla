------------------------------ MODULE Gateway ------------------------------
(***************************************************************************)
(* One gateway seen from its door: the environment it is started with      *)
(* (internal/config), what Build makes of it (internal/app), who is let in *)
(* (internal/auth and the middleware of internal/api), and the requests    *)
(* that create, show and simulate the payment of invoices.                 *)
(*                                                                         *)
(* Requests come one at a time: what happens inside Create and Sync when   *)
(* they overlap is in InvoiceCreation and InvoiceSync.  Every key belongs  *)
(* to the one merchant internal/app knows.  Abstracted: the durations but  *)
(* the expiry, addresses, wallets, rates, and the payments of Bitcoin.     *)
(***************************************************************************)
EXTENDS InvoiceStatus, Money

CONSTANTS
    Symbols,       \* assets money.Lookup knows
    Decimals,      \* Asset.Decimals, by symbol
    AssetOf,       \* the asset of each chain there is an adapter for
    BtcRequired,   \* required confirmations of the Bitcoin adapters
    Keys,          \* keys an operator may configure or a client try
    Generated,     \* the sandbox key each start of the process would generate
    Trials,        \* environments, each with the amounts its clients write
    Headers,       \* the authorization headers of requests
    Confirmed,     \* confirmations a simulated payment may ask for
    FiatAmounts,   \* units a fiat price may come to
    MaxStarts, MaxInvoices \* bounds of the instance

Mock    == "mock"
Bitcoin == {"bitcoin", "bitcoin-testnet"}
Chains  == {Mock} \cup Bitcoin
NoText  == <<>>
NoKey   == "none"

\* A key as the operator wrote it, perhaps with space around it.
KeyText == [key: Keys \cup {Generated[n] : n \in 1..MaxStarts} \cup {NoKey}, padded: BOOLEAN]
Text(k) == [key |-> k, padded |-> FALSE]
Unset   == Text(NoKey)
Nobody  == [scheme |-> "none", bearer |-> Unset, xkey |-> Unset]

\* The VEXPAY_ variables, "" where one is not set.  confs is 0 when it cannot
\* be read and -1 when it is not set; durations stands for the timeout, the
\* watch interval and the TTL, whose values are not told apart.
Switch == {"", "true", "false", "off"}
Environment ==
    [mode: {"", "production", "other"}, secret: BOOLEAN,
     url: {"", "http", "https", "slashes"},
     db: {"", "memory", "file", "nopath", "postgres", "noscheme"},
     expiry: {"", "15m", "0s", "unreadable"}, durations: {"", "5s", "unreadable"},
     sandbox: Switch, bitcoin: Switch, confs: Nat \cup {-1},
     apiKey: KeyText, sandboxKey: KeyText]

\* What clients write for an amount, when they create an invoice and when they
\* simulate a payment.
Menu == [asked: SUBSET Seq(STRING), paid: SUBSET Seq(STRING)]

\* The Authorization header and X-API-Key, as the server sees them.
Header == {h \in [scheme: {"none", "bearer", "other"}, bearer: KeyText, xkey: KeyText] :
             /\ ~h.bearer.padded /\ ~h.xkey.padded
             /\ h.scheme = "bearer" <=> h.bearer # Unset}

ASSUME GatewayAssumption ==
    /\ Decimals \in [Symbols -> Nat]
    /\ AssetOf \in [Chains -> Symbols]
    /\ BtcRequired \in Nat \ {0}
    /\ MaxStarts \in Nat \ {0} /\ MaxInvoices \in Nat
    /\ NoKey \notin Keys
    /\ \A n \in 1..MaxStarts : Generated[n] \notin Keys \cup {NoKey}
    /\ \A m, n \in 1..MaxStarts : m # n => Generated[m] # Generated[n]
    /\ Headers \subseteq Header /\ Trials \subseteq [env: Environment, menu: Menu]
    /\ FiatAmounts \subseteq Nat \ {0} /\ Confirmed \subseteq Int

VARIABLES
    env,      \* the VEXPAY_ variables of the process
    menu,     \* the amounts its clients write, [asked, paid]
    phase,    \* of the process
    starts,   \* how many times it was started
    keys,     \* auth.Store: what each accepted key text may do
    chains,   \* chain.Registry
    invoices, \* the stored invoices: what was agreed on
    status,   \* and how far each has come
    ledger,   \* what the simulator shows of each
    overdue,  \* invoices whose expiry has passed
    reply     \* the answer of the step just taken, if it gave one

vars == <<env, menu, phase, starts, keys, chains, invoices, status, ledger, overdue, reply>>

Reply   == [headers: Headers \cup {Nobody}, code: {0, 200, 201, 400, 401, 403, 404, 500},
            paid: Chains \cup {"none"},    \* the simulator was credited
            was: Statuses \cup {NotCreated}, \* before a payment with no options
            shows: Statuses \cup {NotCreated}]
Invoice == [chain: Chains, asset: Symbols, units: Nat \ {0}, required: Nat \ {0},
            asked: Seq(STRING)]

Answer(h, code) == [headers |-> h, code |-> code, paid |-> "none",
                    was |-> NotCreated, shows |-> NotCreated]
NoReply == Answer(Nobody, 0)

-----------------------------------------------------------------------------
(* From the environment to a running gateway.                              *)

\* A value strconv.ParseBool does not know is passed over.
boolEnv(v, def) == IF v = "true" THEN TRUE ELSE IF v = "false" THEN FALSE ELSE def

SandboxOn    == boolEnv(env.sandbox, TRUE)
BitcoinOn    == boolEnv(env.bitcoin, TRUE)
IsProduction == env.mode = "production"

\* SandboxConfirmations, and mock.New.
Confirmations == IF env.confs = -1 THEN 1 ELSE env.confs

Load == env.expiry # "unreadable" /\ env.durations # "unreadable" /\ env.confs # 0

\* The default URL is an http one.
Validate ==
    /\ env.url # "slashes"
    /\ env.expiry # "0s"
    /\ IsProduction => env.secret /\ env.url \notin {"", "http"}

Open == env.db \in {"", "memory", "file"}

\* Mutant of SandboxKeys: a key is generated in production too.
SandboxKeysAnywhere ==
    IF ~SandboxOn THEN {}
    ELSE IF env.sandboxKey # Unset THEN {env.sandboxKey} ELSE {Text(Generated[starts])}

LiveKeys == {env.apiKey} \ {Unset}
SandboxKeys ==
    IF ~SandboxOn THEN {}
    ELSE IF env.sandboxKey # Unset THEN {env.sandboxKey}
    ELSE IF ~IsProduction THEN {Text(Generated[starts])} ELSE {}

\* run and Build.  Add puts a key in the place of an equal one: of two equal
\* keys the sandbox key remains.
Start ==
    /\ phase = "starting"
    /\ IF Load /\ Validate /\ Open
       THEN /\ phase' = "serving"
            /\ chains' = (IF SandboxOn THEN {Mock} ELSE {}) \cup (IF BitcoinOn THEN Bitcoin ELSE {})
            /\ keys' = [t \in LiveKeys \cup SandboxKeys |-> [sandbox |-> t \in SandboxKeys]]
       ELSE phase' = "failed" /\ UNCHANGED <<chains, keys>>
    /\ reply' = NoReply
    /\ UNCHANGED <<env, menu, starts, invoices, status, ledger, overdue>>

\* The database cannot be opened or migrated, or the port is taken.
StartFails ==
    /\ phase = "starting"
    /\ phase' = "failed"
    /\ reply' = NoReply
    /\ UNCHANGED <<env, menu, starts, keys, chains, invoices, status, ledger, overdue>>

\* The process is started again, perhaps in another environment, on the same
\* database.
Redeploy ==
    /\ phase # "starting" /\ starts < MaxStarts
    /\ starts' = starts + 1
    /\ phase' = "starting"
    /\ \E t \in Trials : t.menu = menu /\ t.env.db = env.db /\ env' = t.env
    /\ keys' = <<>> /\ chains' = {}
    /\ IF env.db = "memory"
       THEN invoices' = <<>> /\ status' = <<>> /\ ledger' = <<>> /\ overdue' = {}
       ELSE /\ ledger' = [i \in DOMAIN invoices |-> NothingSeen]
            /\ UNCHANGED <<invoices, status, overdue>>
    /\ reply' = NoReply
    /\ UNCHANGED menu

-----------------------------------------------------------------------------
(* Who is let in.                                                          *)

\* Mutant of extractAPIKey: any Authorization header hides X-API-Key.
extractAPIKeyHidden(h) == IF h.scheme # "none" THEN h.bearer ELSE h.xkey
extractAPIKey(h)       == IF h.scheme = "bearer" THEN h.bearer ELSE h.xkey

\* authed, with Authenticate; and Principal.Sandbox.
LetIn(h)     == extractAPIKey(h) \in DOMAIN keys
InSandbox(h) == keys[extractAPIKey(h)].sandbox

Refuse(h, code) ==
    reply' = Answer(h, code) /\ UNCHANGED <<invoices, status, ledger>>

Unmoved == UNCHANGED <<env, menu, phase, starts, keys, chains, overdue>>

-----------------------------------------------------------------------------
(* POST /v1/invoices with a body [chain, asset, amount, fiat].             *)

Bodies ==
    [chain: Chains \cup {""}, asset: Symbols \cup {""}, amount: menu.asked \cup {NoText},
     fiat: BOOLEAN]

Parsed(b) == ParseDecimal(Decimals[b.asset], b.amount)

\* Mutant of resolveAmount: the sign is not looked at.
resolveAmountAnySign(b) ==
    IF b.amount # NoText /\ Parsed(b).units # 0
    THEN IF b.asset = AssetOf[b.chain] THEN {Parsed(b).units} ELSE {}
    ELSE IF b.fiat THEN FiatAmounts ELSE {}

\* The amounts the invoice may be for, none if it is refused.  An amount of
\* zero counts as no amount.
resolveAmount(b) ==
    IF b.amount # NoText /\ Parsed(b).units # 0
    THEN {u \in {Parsed(b).units} : u \in Nat \ {0} /\ b.asset = AssetOf[b.chain]}
    ELSE IF b.fiat THEN FiatAmounts ELSE {}

\* The checks of the handler, and the registry's.
Readable(b) ==
    /\ b.chain \in chains
    /\ b.amount # NoText => b.asset \in Symbols /\ Parsed(b).ok

Required(chain) == IF chain = Mock THEN Confirmations ELSE BtcRequired

\* The price, the counter, the derivation or the insertion may fail too.
CreateInvoice(h) ==
    /\ phase = "serving" /\ Len(invoices) < MaxInvoices
    /\ \/ ~LetIn(h) /\ Refuse(h, 401)
       \/ LetIn(h) /\ Refuse(h, 400)
       \/ /\ LetIn(h)
          /\ \E b \in Bodies : Readable(b) /\ \E u \in resolveAmount(b) :
                invoices' = Append(invoices,
                    [chain |-> b.chain, asset |-> AssetOf[b.chain], units |-> u,
                     required |-> Required(b.chain),
                     asked |-> IF b.amount # NoText /\ Parsed(b).units # 0 THEN b.amount
                               ELSE NoText])
          /\ status' = Append(status, "pending") /\ ledger' = Append(ledger, NothingSeen)
          /\ reply' = Answer(h, 201)
    /\ Unmoved

\* GET /v1/invoices/{id}; 0 is an identifier nothing has.
GetInvoice(h, i) ==
    /\ phase = "serving"
    /\ Refuse(h, IF ~LetIn(h) THEN 401 ELSE IF i \notin DOMAIN invoices THEN 404 ELSE 200)
    /\ Unmoved

-----------------------------------------------------------------------------
(* POST /v1/sandbox/pay/{id} with a body [amount, confs]: the amount may   *)
(* be missing, and confs is a set of at most one number.                   *)

\* Mutant of PaidConfs: one confirmation is taken to be enough.
PaidConfsOne(inv, p) == IF p.confs = {} THEN 1 ELSE Lowest(p.confs)
PaidConfs(inv, p)    == IF p.confs = {} THEN inv.required ELSE Lowest(p.confs)
PaidUnits(inv, p)    == IF p.amount = NoText THEN Read(inv.units)
                        ELSE ParseDecimal(Decimals[inv.asset], p.amount)
Plain(p) == p.amount = NoText /\ p.confs = {}

\* Mutant of MaySimulate: any key the gateway knows will do.
MaySimulateAny(h) == LetIn(h)
MaySimulate(h)    == LetIn(h) /\ InSandbox(h)

\* routes: without a sandbox there is no way to the simulator.
Routed == Mock \in chains

\* The answer before the simulator is credited; 0 if there is none.
Refusal(h, i, p) ==
    IF ~Routed THEN 404
    ELSE IF ~LetIn(h) THEN 401
    ELSE IF ~MaySimulate(h) THEN 403
    ELSE IF i \notin DOMAIN invoices THEN 404
    ELSE IF invoices[i].chain # Mock THEN 400
    ELSE IF ~PaidUnits(invoices[i], p).ok THEN 400
    ELSE 0

\* Pay, and Sync on the invoice that was read: the status is stored, or the
\* update fails and the credit remains.
Simulate(h, i, p) ==
    LET inv  == invoices[i]
        obs  == [seen |-> TRUE, received |-> PaidUnits(inv, p).units, confs |-> PaidConfs(inv, p)]
        next == IF IsTerminal(status[i]) THEN status[i]
                ELSE Decide(obs, inv.units, inv.required, i \in overdue)
    IN /\ ledger' = [ledger EXCEPT ![i] = obs]
       /\ \/ /\ status' = [status EXCEPT ![i] = next]
             /\ reply' = [headers |-> h, code |-> 200, paid |-> inv.chain,
                          was |-> IF Plain(p) THEN status[i] ELSE NotCreated, shows |-> next]
          \/ /\ ~IsTerminal(status[i])
             /\ reply' = [headers |-> h, code |-> 500, paid |-> inv.chain,
                          was |-> NotCreated, shows |-> NotCreated]
             /\ UNCHANGED status
       /\ UNCHANGED invoices

PayInvoice(h, i, p) ==
    /\ phase = "serving"
    /\ IF Refusal(h, i, p) # 0 THEN Refuse(h, Refusal(h, i, p)) ELSE Simulate(h, i, p)
    /\ Unmoved

-----------------------------------------------------------------------------
\* The watcher.  An invoice whose chain is not registered any more is left
\* alone: Sync fails, at every pass.
Watch(i) ==
    /\ phase = "serving"
    /\ status[i] \in OpenStatuses
    /\ invoices[i].chain \in chains
    /\ status' = [status EXCEPT ![i] =
           Decide(ledger[i], invoices[i].units, invoices[i].required, i \in overdue)]
    /\ reply' = NoReply
    /\ UNCHANGED <<invoices, ledger>> /\ Unmoved

PassExpiry(i) ==
    /\ i \notin overdue
    /\ overdue' = overdue \cup {i}
    /\ reply' = NoReply
    /\ UNCHANGED <<env, menu, phase, starts, keys, chains, invoices, status, ledger>>

Payments == [amount: menu.paid \cup {NoText}, confs: {{}} \cup {{n} : n \in Confirmed}]

Init ==
    /\ \E t \in Trials : env = t.env /\ menu = t.menu
    /\ phase = "starting" /\ starts = 1
    /\ keys = <<>> /\ chains = {}
    /\ invoices = <<>> /\ status = <<>> /\ ledger = <<>> /\ overdue = {}
    /\ reply = NoReply

Next ==
    \/ Start \/ StartFails \/ Redeploy
    \/ \E h \in Headers :
         \/ CreateInvoice(h)
         \/ \E i \in 0..MaxInvoices : GetInvoice(h, i)
         \/ \E i \in 0..MaxInvoices, p \in Payments : PayInvoice(h, i, p)
    \/ \E i \in DOMAIN invoices : Watch(i) \/ PassExpiry(i)

Spec == Init /\ [][Next]_vars

-----------------------------------------------------------------------------
(* Properties.                                                             *)

\* Types.  An invoice is for a positive amount of its chain's asset, and the
\* simulator keeps a line for each invoice and no other.
TypeOK ==
    /\ env \in Environment /\ menu \in Menu
    /\ phase \in {"starting", "serving", "failed"} /\ starts \in 1..MaxStarts
    /\ DOMAIN keys \subseteq KeyText /\ \A t \in DOMAIN keys : keys[t] \in [sandbox: BOOLEAN]
    /\ chains \subseteq Chains
    /\ invoices \in Seq(Invoice) /\ Len(invoices) <= MaxInvoices
    /\ status \in Seq(Statuses) /\ DOMAIN status = DOMAIN invoices
    /\ ledger \in Seq(Observation) /\ DOMAIN ledger = DOMAIN invoices
    /\ overdue \subseteq DOMAIN invoices
    /\ reply \in Reply

Offered(h)  == {h.bearer, h.xkey} \ {Unset}
Configured  == {env.apiKey, env.sandboxKey} \ {Unset}
\* The keys an operator gave, or was shown, for the simulator.
ForSandbox  == IF env.sandboxKey # Unset THEN {env.sandboxKey}
               ELSE IF IsProduction THEN {} ELSE {Text(Generated[starts])}

\* Only a caller with a sandbox key of this start of the process ever moves
\* the simulator, only while the sandbox is on, and it credits nothing but
\* sandbox invoices: not a live key, not the key an earlier start generated,
\* not an invoice a redeployment left on another chain.
WhoMaySimulate ==
    reply.paid # "none" =>
        /\ reply.paid = Mock /\ SandboxOn
        /\ Offered(reply.headers) \cap ForSandbox # {}

\* In production no key opens the gateway but the ones its operator wrote:
\* nothing generated, now or before a redeployment, is accepted.
KeysInProduction ==
    IsProduction /\ reply.code \in {200, 201} =>
        Offered(reply.headers) \cap Configured # {}

\* A caller who sends one configured key, in whichever header the server
\* reads, is never told that it is missing or invalid.
ConfiguredKeyOpens ==
    LET working == LiveKeys \cup (IF SandboxOn THEN {env.sandboxKey} ELSE {})
    IN reply.code = 401 =>
           ~ \E t \in working : ~t.padded /\ t # Unset /\ Offered(reply.headers) = {t}

\* A payment with no options "default[s] to paying the full amount with enough
\* confirmations to settle" (internal/api/sandbox.go): the caller sees the
\* open invoice it was for paid, even one that is overdue, even when the
\* process was started again with other required confirmations.
DefaultPaymentSettles == reply.was \in OpenStatuses => reply.shows = "paid"

\* What an invoice asks for is what the merchant wrote, to the last unit: a
\* decimal number is neither rounded nor cut nor scaled by a wrong power.
AmountsAreExact ==
    \A i \in DOMAIN invoices :
        LET inv == invoices[i] IN
        IsPlain(inv.asked) =>
            /\ FractionDigits(inv.asked) <= Decimals[inv.asset]
            /\ inv.units = Worth(Decimals[inv.asset], inv.asked)

\* An amount that is shown, to a payer or in a payment URI, reads back as the
\* same number of units: the one invoiced, and whatever was received.
ShownParsesBack ==
    \A i \in DOMAIN invoices : \A u \in {invoices[i].units, ledger[i].received} :
        ParseDecimal(Decimals[invoices[i].asset], Shown(Decimals[invoices[i].asset], u)) = Read(u)
=============================================================================
