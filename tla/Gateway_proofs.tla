--------------------------- MODULE Gateway_proofs ---------------------------
(***************************************************************************)
(* Who is let into a gateway, what the payment of a sandbox invoice leads  *)
(* to, and what the texts of amounts are worth, for any environments,      *)
(* keys, headers, amounts and restarts.                                    *)
(*                                                                         *)
(* The store of keys is what this start of the process made of this        *)
(* environment (KeysAreOfThisStart); every answer is then explained by the *)
(* key its caller sent (AnswersAreDue).  An invoice is for what the text   *)
(* its merchant wrote was read as (AskedIsRead).  The value of a text is a *)
(* recursion over its characters: each recursion (ValueOf, TenTo, Numeral) *)
(* is first shown to have a solution, then only that solution is used.     *)
(***************************************************************************)
EXTENDS Gateway, FoldLemmas, SequenceTheorems, TLAPS

Opened == LiveKeys \cup SandboxKeys

KeysAreOfThisStart ==
    /\ starts \in 1..MaxStarts
    /\ env \in Environment
    /\ phase = "serving" =>
        /\ keys = [t \in Opened |-> [sandbox |-> t \in SandboxKeys]]
        /\ Mock \in chains => SandboxOn
        /\ env.confs # 0

\* An answer is to one of the headers a caller may send, and names the
\* permission it was given on.
AnswersAreDue ==
    /\ phase # "serving" => reply = NoReply
    /\ reply = NoReply \/ reply.headers \in Headers
    /\ reply.code \in {200, 201} \/ reply.paid # "none" => extractAPIKey(reply.headers) \in Opened
    /\ reply.code = 401 => extractAPIKey(reply.headers) \notin Opened
    /\ reply.paid # "none" =>
        reply.paid = Mock /\ SandboxOn /\ extractAPIKey(reply.headers) \in SandboxKeys

\* An invoice is for a positive amount, and asks for its confirmations for
\* good, however the process was started since.
Agreed == menu \in Menu /\ chains \subseteq Chains /\ invoices \in Seq(Invoice)

GInv == KeysAreOfThisStart /\ AnswersAreDue

-----------------------------------------------------------------------------
(* Keys.                                                                   *)

LEMMA KeyIsSent ==
  ASSUME starts \in 1..MaxStarts, NEW h \in Headers \cup {Nobody}, extractAPIKey(h) \in Opened
  PROVE  extractAPIKey(h) \in Offered(h)
<1>1. extractAPIKey(h) \in {h.bearer, h.xkey}
  BY DEF extractAPIKey
<1>2. extractAPIKey(h) # Unset
  <2>1. Text(Generated[starts]) # Unset
    <3>1. Generated[starts] # NoKey
      BY GatewayAssumption DEF GatewayAssumption
    <3> QED BY <3>1 DEF Text, Unset
  <2> QED BY <2>1 DEF Opened, LiveKeys, SandboxKeys
<1> QED BY <1>1, <1>2 DEF Offered

\* A single key sent is the key that is looked up.
LEMMA OnlyKeyIsLookedUp ==
  ASSUME NEW h \in Headers, NEW t, Offered(h) = {t}
  PROVE  extractAPIKey(h) = t
<1>1. h \in Header
  BY GatewayAssumption DEF GatewayAssumption
<1>2. h.scheme = "bearer" <=> h.bearer # Unset
  BY <1>1 DEF Header
<1> QED BY <1>2 DEF Offered, extractAPIKey

LEMMA LetInIsOpened ==
  ASSUME GInv, phase = "serving", NEW h
  PROVE  /\ LetIn(h) <=> extractAPIKey(h) \in Opened
         /\ LetIn(h) => (InSandbox(h) <=> extractAPIKey(h) \in SandboxKeys)
<1>1. keys = [t \in Opened |-> [sandbox |-> t \in SandboxKeys]]
  BY DEF GInv, KeysAreOfThisStart
<1>2. LetIn(h) <=> extractAPIKey(h) \in Opened
  BY <1>1 DEF LetIn
<1>3. ASSUME LetIn(h) PROVE InSandbox(h) <=> extractAPIKey(h) \in SandboxKeys
  <2>1. keys[extractAPIKey(h)] = [sandbox |-> extractAPIKey(h) \in SandboxKeys]
    BY <1>1, <1>2, <1>3
  <2>2. CASE extractAPIKey(h) \in SandboxKeys
    <3>1. keys[extractAPIKey(h)] = [sandbox |-> TRUE]
      BY <2>1, <2>2
    <3> QED BY <2>2, <3>1 DEF InSandbox
  <2>3. CASE extractAPIKey(h) \notin SandboxKeys
    <3>1. (extractAPIKey(h) \in SandboxKeys) = FALSE
      BY <2>3
    <3>2. keys[extractAPIKey(h)].sandbox = (extractAPIKey(h) \in SandboxKeys)
      BY <2>1
    <3> QED BY <3>1, <3>2 DEF InSandbox
  <2> QED BY <2>2, <2>3
<1> QED BY <1>2, <1>3

-----------------------------------------------------------------------------
(* The invariant.                                                          *)

LEMMA InitGInv == Init => GInv
<1> SUFFICES ASSUME Init PROVE GInv
  OBVIOUS
<1>1. PICK t \in Trials : env = t.env
  BY DEF Init
<1>2. env \in Environment
  BY <1>1, GatewayAssumption DEF GatewayAssumption
<1>3. starts \in 1..MaxStarts /\ phase # "serving" /\ reply = NoReply
  BY GatewayAssumption DEF Init, GatewayAssumption
<1> QED BY <1>2, <1>3
  DEF GInv, KeysAreOfThisStart, AnswersAreDue, NoReply, Answer

\* The process goes from one phase to another: no answer is given.
LEMMA PhasePreserves ==
  ASSUME GInv, Start \/ StartFails \/ Redeploy
  PROVE  GInv'
<1> USE GatewayAssumption DEF GatewayAssumption
<1>1. reply' = NoReply
  BY DEF Start, StartFails, Redeploy
<1>2. AnswersAreDue'
  BY <1>1 DEF AnswersAreDue, NoReply, Answer
<1>3. CASE Start
  <2>1. UNCHANGED <<env, starts>>
    BY <1>3 DEF Start
  <2>2. CASE Load /\ Validate /\ Open
    <3>1. /\ keys' = [t \in Opened |-> [sandbox |-> t \in SandboxKeys]] /\ env.confs # 0
          /\ Mock \in chains' => SandboxOn
      BY <1>3, <2>2 DEF Start, Opened, Load, Mock, Bitcoin
    <3>2. Opened' = Opened /\ SandboxKeys' = SandboxKeys /\ SandboxOn' = SandboxOn
      BY <2>1 DEF Opened, LiveKeys, SandboxKeys, SandboxOn, IsProduction
    <3> QED BY <1>2, <2>1, <3>1, <3>2 DEF GInv, KeysAreOfThisStart
  <2>3. CASE ~(Load /\ Validate /\ Open)
    <3>1. phase' = "failed"
      BY <1>3, <2>3 DEF Start
    <3> QED BY <1>2, <2>1, <3>1 DEF GInv, KeysAreOfThisStart
  <2> QED BY <2>2, <2>3
<1>4. CASE StartFails
  BY <1>2, <1>4 DEF StartFails, GInv, KeysAreOfThisStart
<1>5. CASE Redeploy
  <2>1. PICK t \in Trials : env' = t.env
    BY <1>5 DEF Redeploy
  <2>2. env' \in Environment
    BY <2>1
  <2>3. starts' \in 1..MaxStarts /\ phase' = "starting"
    BY <1>5 DEF Redeploy, GInv, KeysAreOfThisStart
  <2> QED BY <1>2, <2>2, <2>3 DEF GInv, KeysAreOfThisStart
<1> QED BY <1>3, <1>4, <1>5

\* A step that leaves the process and its keys alone.
LEMMA UnmovedKeepsKeys ==
  ASSUME GInv, UNCHANGED <<env, phase, starts, keys, chains>>
  PROVE  /\ KeysAreOfThisStart' /\ phase' = phase
         /\ Opened' = Opened /\ SandboxKeys' = SandboxKeys /\ SandboxOn' = SandboxOn
<1>1. Opened' = Opened /\ SandboxKeys' = SandboxKeys /\ SandboxOn' = SandboxOn
  BY DEF Opened, LiveKeys, SandboxKeys, SandboxOn, IsProduction
<1> QED BY <1>1 DEF GInv, KeysAreOfThisStart

\* An answer that credits nothing is due if its code is.
LEMMA RefusalIsDue ==
  ASSUME GInv, phase = "serving", UNCHANGED <<env, phase, starts, keys, chains>>,
         NEW h \in Headers, NEW code, reply' = Answer(h, code),
         code \in {200, 201} => LetIn(h), code = 401 => ~LetIn(h)
  PROVE  GInv'
<1>1. /\ reply'.headers = h /\ reply'.code = code /\ reply'.paid = "none"
  BY DEF Answer
<1>2. LetIn(h) <=> extractAPIKey(h) \in Opened
  BY LetInIsOpened
<1>3. AnswersAreDue'
  BY <1>1, <1>2, UnmovedKeepsKeys DEF AnswersAreDue
<1> QED BY <1>3, UnmovedKeepsKeys DEF GInv

LEMMA CreatePreserves ==
  ASSUME GInv, NEW h \in Headers, CreateInvoice(h)
  PROVE  GInv'
<1>1. phase = "serving" /\ UNCHANGED <<env, phase, starts, keys, chains>>
  BY DEF CreateInvoice, Unmoved
<1>2. \/ reply' = Answer(h, 401) /\ ~LetIn(h)
      \/ reply' = Answer(h, 400)
      \/ reply' = Answer(h, 201) /\ LetIn(h)
  BY DEF CreateInvoice, Refuse
<1>3. CASE reply' = Answer(h, 401) /\ ~LetIn(h)
  BY <1>1, <1>3, RefusalIsDue
<1>4. CASE reply' = Answer(h, 400)
  BY <1>1, <1>4, RefusalIsDue
<1>5. CASE reply' = Answer(h, 201) /\ LetIn(h)
  BY <1>1, <1>5, RefusalIsDue
<1> QED BY <1>2, <1>3, <1>4, <1>5

LEMMA GetPreserves ==
  ASSUME GInv, NEW h \in Headers, NEW i \in 0..MaxInvoices, GetInvoice(h, i)
  PROVE  GInv'
<1>1. phase = "serving" /\ UNCHANGED <<env, phase, starts, keys, chains>>
  BY DEF GetInvoice, Unmoved
<1>2. CASE ~LetIn(h)
  <2>1. reply' = Answer(h, 401)
    BY <1>2 DEF GetInvoice, Refuse
  <2> QED BY <1>1, <1>2, <2>1, RefusalIsDue
<1>3. CASE LetIn(h)
  <2>1. reply' = Answer(h, 404) \/ reply' = Answer(h, 200)
    BY <1>3 DEF GetInvoice, Refuse
  <2>2. CASE reply' = Answer(h, 404)
    BY <1>1, <2>2, RefusalIsDue
  <2>3. CASE reply' = Answer(h, 200)
    BY <1>1, <1>3, <2>3, RefusalIsDue
  <2> QED BY <2>1, <2>2, <2>3
<1> QED BY <1>2, <1>3

LEMMA PayPreserves ==
  ASSUME GInv, NEW h \in Headers, NEW i \in 0..MaxInvoices, NEW p, PayInvoice(h, i, p)
  PROVE  GInv'
<1> DEFINE r == Refusal(h, i, p)
<1>1. phase = "serving" /\ UNCHANGED <<env, phase, starts, keys, chains>>
  BY DEF PayInvoice, Unmoved
<1>2. CASE r # 0
  <2>1. reply' = Answer(h, r)
    BY <1>2 DEF PayInvoice, Refuse
  <2>2. r \in {400, 401, 403, 404} /\ (r = 401 => ~LetIn(h))
    BY <1>2 DEF Refusal
  <2> HIDE DEF r
  <2> QED BY <1>1, <2>1, <2>2, RefusalIsDue
<1>3. CASE r = 0
  <2>1. SandboxOn /\ LetIn(h) /\ InSandbox(h) /\ invoices[i].chain = Mock
    BY <1>1, <1>3 DEF Refusal, Routed, MaySimulate, GInv, KeysAreOfThisStart
  <2>2. Simulate(h, i, p)
    BY <1>3 DEF PayInvoice
  <2>3. reply'.headers = h /\ reply'.code \in {200, 500} /\ reply'.paid = invoices[i].chain
    BY <2>2 DEF Simulate, Answer
  <2>4. extractAPIKey(h) \in Opened /\ extractAPIKey(h) \in SandboxKeys
    BY <1>1, <2>1, LetInIsOpened
  <2>5. AnswersAreDue'
    BY <1>1, <2>1, <2>3, <2>4, UnmovedKeepsKeys DEF AnswersAreDue
  <2> QED BY <1>1, <2>5, UnmovedKeepsKeys DEF GInv
<1> QED BY <1>2, <1>3

LEMMA RestPreserves ==
  ASSUME GInv, UNCHANGED <<env, phase, starts, keys, chains>>, reply' = NoReply \/ reply' = reply
  PROVE  GInv'
<1>1. AnswersAreDue'
  BY UnmovedKeepsKeys DEF GInv, AnswersAreDue, NoReply, Answer
<1> QED BY <1>1, UnmovedKeepsKeys DEF GInv

LEMMA Invariance == Spec => []GInv
<1>1. GInv /\ [Next]_vars => GInv'
  <2> SUFFICES ASSUME GInv, [Next]_vars PROVE GInv'
    OBVIOUS
  <2>1. CASE Start \/ StartFails \/ Redeploy
    BY <2>1, PhasePreserves
  <2>2. CASE \E h \in Headers : CreateInvoice(h)
    BY <2>2, CreatePreserves
  <2>3. CASE \E h \in Headers, i \in 0..MaxInvoices : GetInvoice(h, i)
    BY <2>3, GetPreserves
  <2>4. CASE \E h \in Headers, i \in 0..MaxInvoices, p \in Payments : PayInvoice(h, i, p)
    BY <2>4, PayPreserves
  <2>5. CASE \E i \in DOMAIN invoices : Watch(i) \/ PassExpiry(i)
    BY <2>5, RestPreserves DEF Watch, PassExpiry, Unmoved
  <2>6. CASE UNCHANGED vars
    BY <2>6, RestPreserves DEF vars
  <2> QED BY <2>1, <2>2, <2>3, <2>4, <2>5, <2>6 DEF Next
<1> QED BY InitGInv, <1>1, PTL DEF Spec

\* The simulator moves for a sandbox key of this start of the process and for
\* nothing else, and credits sandbox invoices only (handleSandboxPay, Build).
THEOREM SimulatorIsGuarded == Spec => []WhoMaySimulate
<1>1. GInv => WhoMaySimulate
  <2> SUFFICES ASSUME GInv, reply.paid # "none"
               PROVE  /\ reply.paid = Mock /\ SandboxOn
                      /\ Offered(reply.headers) \cap ForSandbox # {}
    BY DEF WhoMaySimulate
  <2>1. /\ reply.paid = Mock /\ SandboxOn
        /\ extractAPIKey(reply.headers) \in SandboxKeys
        /\ extractAPIKey(reply.headers) \in Opened /\ starts \in 1..MaxStarts
    BY DEF GInv, AnswersAreDue, KeysAreOfThisStart
  <2>2. reply.headers \in Headers \cup {Nobody}
    BY DEF GInv, AnswersAreDue, NoReply, Answer
  <2>3. extractAPIKey(reply.headers) \in Offered(reply.headers)
    BY <2>1, <2>2, KeyIsSent
  <2>4. SandboxKeys \subseteq ForSandbox
    BY DEF SandboxKeys, ForSandbox
  <2> QED BY <2>1, <2>3, <2>4
<1> QED BY Invariance, <1>1, PTL

\* In production only configured keys open the gateway (Build, Authenticate).
THEOREM ProductionKeysAreConfigured == Spec => []KeysInProduction
<1>1. GInv => KeysInProduction
  <2> SUFFICES ASSUME GInv, IsProduction, reply.code \in {200, 201}
               PROVE  Offered(reply.headers) \cap Configured # {}
    BY DEF KeysInProduction
  <2>1. extractAPIKey(reply.headers) \in Opened /\ starts \in 1..MaxStarts
    BY DEF GInv, AnswersAreDue, KeysAreOfThisStart
  <2>2. reply.headers \in Headers \cup {Nobody}
    BY DEF GInv, AnswersAreDue, NoReply, Answer
  <2>3. extractAPIKey(reply.headers) \in Offered(reply.headers)
    BY <2>1, <2>2, KeyIsSent
  <2>4. extractAPIKey(reply.headers) \in Configured
    BY <2>1 DEF Opened, LiveKeys, SandboxKeys, Configured
  <2> QED BY <2>3, <2>4
<1> QED BY Invariance, <1>1, PTL

\* A caller whose only key is a configured one is never refused for its key,
\* whichever header carries it (extractAPIKey, Authenticate).
THEOREM ConfiguredKeysOpen == Spec => []ConfiguredKeyOpens
<1>1. GInv => ConfiguredKeyOpens
  <2> SUFFICES ASSUME GInv, reply.code = 401,
                      NEW t \in LiveKeys \cup (IF SandboxOn THEN {env.sandboxKey} ELSE {}),
                      t # Unset, Offered(reply.headers) = {t}
               PROVE  FALSE
    BY DEF ConfiguredKeyOpens
  <2>1. reply.headers \in Headers /\ extractAPIKey(reply.headers) \notin Opened
    BY DEF GInv, AnswersAreDue, NoReply, Answer
  <2>2. extractAPIKey(reply.headers) = t
    BY <2>1, OnlyKeyIsLookedUp
  <2>3. t \in Opened
    BY DEF Opened, LiveKeys, SandboxKeys
  <2> QED BY <2>1, <2>2, <2>3
<1> QED BY Invariance, <1>1, PTL

-----------------------------------------------------------------------------
(* A payment with no options.                                              *)

LEMMA InitAgreed == Init => Agreed
<1> SUFFICES ASSUME Init PROVE Agreed
  OBVIOUS
<1>1. PICK t \in Trials : menu = t.menu
  BY DEF Init
<1>2. menu \in Menu
  BY <1>1, GatewayAssumption DEF GatewayAssumption
<1> QED BY <1>2 DEF Init, Agreed

\* What is agreed on when an invoice is created.
LEMMA CreateAgrees ==
  ASSUME GInv, Agreed, NEW h \in Headers, CreateInvoice(h)
  PROVE  Agreed'
<1> USE GatewayAssumption DEF GatewayAssumption
<1>1. phase = "serving" /\ UNCHANGED <<menu, chains>>
  BY DEF CreateInvoice, Unmoved
<1>2. CASE UNCHANGED invoices
  BY <1>1, <1>2 DEF Agreed
<1>3. CASE ~UNCHANGED invoices
  <2>1. PICK b \in Bodies : Readable(b) /\ \E u \in resolveAmount(b) :
          invoices' = Append(invoices,
              [chain |-> b.chain, asset |-> AssetOf[b.chain], units |-> u,
               required |-> Required(b.chain),
               asked |-> IF b.amount # NoText /\ Parsed(b).units # 0 THEN b.amount ELSE NoText])
    BY <1>3 DEF CreateInvoice, Refuse
  <2>2. PICK u \in resolveAmount(b) :
          invoices' = Append(invoices,
              [chain |-> b.chain, asset |-> AssetOf[b.chain], units |-> u,
               required |-> Required(b.chain),
               asked |-> IF b.amount # NoText /\ Parsed(b).units # 0 THEN b.amount ELSE NoText])
    BY <2>1
  <2>3. b.chain \in Chains /\ AssetOf[b.chain] \in Symbols
    BY <2>1 DEF Readable, Agreed
  <2>4. u \in Nat \ {0}
    BY <2>2 DEF resolveAmount
  <2>5. Required(b.chain) \in Nat \ {0}
    <3>1. env.confs \in Nat \cup {-1} /\ env.confs # 0
      BY <1>1 DEF GInv, KeysAreOfThisStart, Environment
    <3> QED BY <3>1 DEF Required, Confirmations
  <2>6. b.amount \in Seq(STRING) /\ NoText \in Seq(STRING)
    <3>1. b.amount \in menu.asked \cup {NoText} /\ menu.asked \in SUBSET Seq(STRING)
      BY <2>1 DEF Bodies, Agreed, Menu
    <3>2. NoText \in Seq(STRING)
      BY DEF NoText
    <3> QED BY <3>1, <3>2
  <2> DEFINE asked == IF b.amount # NoText /\ Parsed(b).units # 0 THEN b.amount ELSE NoText
             inv == [chain |-> b.chain, asset |-> AssetOf[b.chain], units |-> u,
                     required |-> Required(b.chain), asked |-> asked]
  <2>7. asked \in Seq(STRING)
    BY <2>6
  <2>8. invoices' = Append(invoices, inv)
    BY <2>2
  <2> HIDE DEF asked
  <2>9. inv \in Invoice
    BY <2>3, <2>4, <2>5, <2>7 DEF Invoice
  <2> HIDE DEF inv
  <2> QED BY <1>1, <2>8, <2>9 DEF Agreed
<1> QED BY <1>2, <1>3

LEMMA RedeployAgrees ==
  ASSUME Agreed, Redeploy
  PROVE  Agreed'
<1>1. UNCHANGED menu /\ chains' = {} /\ (invoices' = <<>> \/ invoices' = invoices)
  BY DEF Redeploy
<1>2. <<>> \in Seq(Invoice) /\ invoices \in Seq(Invoice)
  BY DEF Agreed
<1>3. invoices' \in Seq(Invoice)
  BY <1>1, <1>2
<1> QED BY <1>1, <1>3 DEF Agreed

LEMMA StartAgrees ==
  ASSUME Agreed, Start
  PROVE  Agreed'
<1>1. UNCHANGED <<menu, invoices>>
  BY DEF Start
<1>2. chains' \subseteq Chains
  BY DEF Start, Agreed, Chains
<1> QED BY <1>1, <1>2 DEF Agreed

\* The full amount, at the depth the invoice asks for, settles it.
LEMMA FullPaymentPays ==
  ASSUME NEW units \in Nat \ {0}, NEW required \in Nat, NEW expired
  PROVE  Decide([seen |-> TRUE, received |-> units, confs |-> required],
                units, required, expired) = "paid"
BY DEF Decide, Unfunded

LEMMA PayAgrees ==
  ASSUME GInv, Agreed, NEW h \in Headers, NEW i \in 0..MaxInvoices, NEW p, PayInvoice(h, i, p)
  PROVE  Agreed' /\ DefaultPaymentSettles'
<1>1. UNCHANGED <<menu, chains>>
  BY DEF PayInvoice, Unmoved
<1>2. CASE Refusal(h, i, p) # 0
  <2>1. reply'.was = NotCreated /\ UNCHANGED invoices
    BY <1>2 DEF PayInvoice, Refuse, Answer
  <2> QED BY <1>1, <2>1 DEF Agreed, DefaultPaymentSettles, NotCreated, OpenStatuses
<1>3. CASE Refusal(h, i, p) = 0
  <2>1. Simulate(h, i, p) /\ i \in DOMAIN invoices
    BY <1>3 DEF PayInvoice, Refusal
  <2>2. UNCHANGED invoices
    BY <2>1 DEF Simulate
  <2>3. invoices[i] \in Invoice
    BY <2>1 DEF Agreed
  <2>4. invoices[i].units \in Nat \ {0} /\ invoices[i].required \in Nat
    BY <2>3 DEF Invoice
  <2>5. ASSUME reply'.was \in OpenStatuses PROVE reply'.shows = "paid"
    <3>1. Plain(p) /\ status[i] \in OpenStatuses
      BY <2>1, <2>5 DEF Simulate, NotCreated, OpenStatuses
    <3>2. ~IsTerminal(status[i])
      BY <3>1 DEF IsTerminal, OpenStatuses
    <3>3. /\ PaidUnits(invoices[i], p).units = invoices[i].units
          /\ PaidConfs(invoices[i], p) = invoices[i].required
      BY <3>1 DEF Plain, PaidUnits, PaidConfs, Read
    <3>4. reply'.shows = Decide([seen |-> TRUE, received |-> invoices[i].units,
                                 confs |-> invoices[i].required],
                                invoices[i].units, invoices[i].required, i \in overdue)
      BY <2>1, <2>5, <3>2, <3>3 DEF Simulate, NotCreated, OpenStatuses
    <3> QED BY <2>4, <3>4, FullPaymentPays
  <2> QED BY <1>1, <2>2, <2>5 DEF Agreed, DefaultPaymentSettles
<1> QED BY <1>2, <1>3

\* An answer that is not to a payment.
LEMMA NothingPaid ==
  ASSUME Agreed, UNCHANGED <<menu, chains, invoices>>, reply'.was = NotCreated
  PROVE  Agreed' /\ DefaultPaymentSettles'
BY DEF Agreed, DefaultPaymentSettles, NotCreated, OpenStatuses

LEMMA Agreement == Spec => [](Agreed /\ DefaultPaymentSettles)
<1>1. Init => Agreed /\ DefaultPaymentSettles
  BY InitAgreed DEF Init, DefaultPaymentSettles, NoReply, Answer, NotCreated, OpenStatuses
<1>2. GInv /\ Agreed /\ DefaultPaymentSettles /\ [Next]_vars => Agreed' /\ DefaultPaymentSettles'
  <2> SUFFICES ASSUME GInv, Agreed, DefaultPaymentSettles, [Next]_vars
               PROVE  Agreed' /\ DefaultPaymentSettles'
    OBVIOUS
  <2>1. ASSUME NEW h \in Headers, CreateInvoice(h) PROVE Agreed' /\ DefaultPaymentSettles'
    <3>1. reply'.was = NotCreated
      BY <2>1 DEF CreateInvoice, Refuse, Answer
    <3> QED BY <2>1, <3>1, CreateAgrees DEF DefaultPaymentSettles, NotCreated, OpenStatuses
  <2>2. ASSUME NEW h \in Headers, NEW i \in 0..MaxInvoices, GetInvoice(h, i)
        PROVE  Agreed' /\ DefaultPaymentSettles'
    <3>1. reply'.was = NotCreated /\ UNCHANGED <<menu, chains, invoices>>
      BY <2>2 DEF GetInvoice, Refuse, Answer, Unmoved
    <3> QED BY <3>1, NothingPaid
  <2>3. CASE \E h \in Headers, i \in 0..MaxInvoices, p \in Payments : PayInvoice(h, i, p)
    BY <2>3, PayAgrees
  <2>4. CASE Start \/ Redeploy
    <3>1. reply'.was = NotCreated
      BY <2>4 DEF Start, Redeploy, NoReply, Answer
    <3> QED BY <2>4, <3>1, StartAgrees, RedeployAgrees
          DEF DefaultPaymentSettles, NotCreated, OpenStatuses
  <2>5. CASE StartFails \/ \E i \in DOMAIN invoices : Watch(i) \/ PassExpiry(i)
    <3>1. reply'.was = NotCreated /\ UNCHANGED <<menu, chains, invoices>>
      BY <2>5 DEF StartFails, Watch, PassExpiry, Unmoved, NoReply, Answer
    <3> QED BY <3>1, NothingPaid
  <2>6. CASE UNCHANGED vars
    BY <2>6 DEF vars, Agreed, DefaultPaymentSettles
  <2> QED BY <2>1, <2>2, <2>3, <2>4, <2>5, <2>6 DEF Next
<1> QED BY <1>1, <1>2, Invariance, PTL DEF Spec

\* A payment with no options settles the open invoice it is for, at whatever
\* confirmations the invoice was created with (handleSandboxPay, decide).
THEOREM DefaultsSettle == Spec => []DefaultPaymentSettles
BY Agreement, PTL

-----------------------------------------------------------------------------
(* Texts: the value of digits, and the powers of ten.                      *)

Digits == {Numerals[d + 1] : d \in 0..9}

LEMMA DigitFacts ==
  /\ \A c : IsDigit(c) <=> c \in Digits
  /\ \A d \in 0..9 : IsDigit(Numerals[d + 1]) /\ DigitOf(Numerals[d + 1]) = d
  /\ \A c : IsDigit(c) => DigitOf(c) \in 0..9 /\ Numerals[DigitOf(c) + 1] = c
  /\ ~IsDigit(".") /\ ~IsDigit("-") /\ ~IsDigit("+") /\ ~IsDigit(" ")
<1>1. \A d \in 0..9 : \A e \in 0..9 : Numerals[d + 1] = Numerals[e + 1] => d = e
  <2>1. ASSUME NEW d \in 0..9, NEW e \in 0..9, Numerals[d + 1] = Numerals[e + 1] PROVE d = e
    <3>1. /\ d = 0 \/ d = 1 \/ d = 2 \/ d = 3 \/ d = 4 \/ d = 5 \/ d = 6 \/ d = 7 \/ d = 8 \/ d = 9
          /\ e = 0 \/ e = 1 \/ e = 2 \/ e = 3 \/ e = 4 \/ e = 5 \/ e = 6 \/ e = 7 \/ e = 8 \/ e = 9
      OBVIOUS
    <3> QED BY <2>1, <3>1 DEF Numerals
  <2> QED BY <2>1
<1>2. \A d \in 0..9 : Numerals[d + 1] \notin {".", "-", "+", " "}
  <2>1. ASSUME NEW d \in 0..9 PROVE Numerals[d + 1] \notin {".", "-", "+", " "}
    <3>1. d = 0 \/ d = 1 \/ d = 2 \/ d = 3 \/ d = 4 \/ d = 5 \/ d = 6 \/ d = 7 \/ d = 8 \/ d = 9
      OBVIOUS
    <3>2. Numerals[d + 1] \in {"0", "1", "2", "3", "4", "5", "6", "7", "8", "9"}
      BY <3>1 DEF Numerals
    <3>3. \A c \in {"0", "1", "2", "3", "4", "5", "6", "7", "8", "9"} :
             c # "." /\ c # "-" /\ c # "+" /\ c # " "
      OBVIOUS
    <3> HIDE DEF Numerals
    <3> QED BY <3>2, <3>3
  <2> QED BY <2>1
<1> QED BY <1>1, <1>2 DEF IsDigit, DigitOf, Digits

\* v is the value of the digits of s up to each place.
IsValue(v, s) ==
    /\ v \in [0..Len(s) -> Int] /\ v[0] = 0
    /\ \A k \in 1..Len(s) : v[k] = 10 * v[k - 1] + DigitOf(s[k])

AllDigits(s) == s \in Seq(Digits)

LEMMA ValueUnfolds ==
  ASSUME NEW s, AllDigits(s)
  PROVE  \E v : IsValue(v, s) /\ ValueOf(s) = v[Len(s)]
<1> DEFINE n  == Len(s)
           st == [k \in 1..n |-> [v \in Int |-> 10 * v + DigitOf(s[k])]]
           C  == LastOf(n)
           G  == StepOf(n, 0, st)
           Equation(f) == f = [S \in SUBSET DOMAIN s |->
                                 IF S = {} THEN 0
                                 ELSE 10 * f[S \ {Max(S)}] + DigitOf(s[Max(S)])]
<1>1. n \in Nat /\ DOMAIN s = 1..n
  BY DEF AllDigits
<1>2. \A k \in 1..n : DigitOf(s[k]) \in Int
  <2>1. ASSUME NEW k \in 1..n PROVE DigitOf(s[k]) \in Int
    <3>1. IsDigit(s[k])
      <4>1. s[k] \in Digits
        BY <1>1 DEF AllDigits
      <4> QED BY <4>1, DigitFacts
    <3>2. DigitOf(s[k]) \in 0..9
      BY <3>1, DigitFacts
    <3> QED BY <3>2
  <2> QED BY <2>1
<1>3. AreSteps(st, n)
  BY <1>2 DEF AreSteps
<1>4. \A S \in SUBSET (1..n) : S # {} => Max(S) \in 1..n /\ Max(S) \in S
  BY <1>1, MaxIsLast
<1>5. PICK f : /\ Ints(f, 1..n) /\ IsFold(f, 1..n, 0, C, G)
               /\ IsRun([k \in 0..n |-> f[1..k]], n, 0, st)
  <2> HIDE DEF n, st
  <2>1. n \in Nat /\ 0 \in Int /\ AreSteps(st, n)
    BY <1>1, <1>3
  <2> QED BY <2>1, RunExists
<1>6. Equation(f)
  <2>1. ASSUME NEW S \in SUBSET (1..n), S # {}
        PROVE  f[S] = 10 * f[S \ {Max(S)}] + DigitOf(s[Max(S)])
    <3> DEFINE r == S \ {Max(S)}
    <3>1. r \in SUBSET (1..n) /\ Rest(S, C) = r /\ Max(S) \in 1..n
      BY <1>4, <2>1 DEF Rest, LastOf
    <3>2. f[r] \in Int
      BY <1>5, <3>1 DEF Ints
    <3>3. f[S] = G[S][f[r]]
      <4> HIDE DEF r, G, C, n
      <4> QED BY <1>5, <2>1, <3>1, <3>2 DEF IsFold
    <3>4. G[S][f[r]] = st[Max(S)][f[r]]
      <4> HIDE DEF r, st
      <4> QED BY <2>1, <3>2 DEF StepOf
    <3>5. st[Max(S)][f[r]] = 10 * f[r] + DigitOf(s[Max(S)])
      <4> HIDE DEF r
      <4> QED BY <3>1, <3>2
    <3> QED BY <3>3, <3>4, <3>5
  <2>2. f[{}] = 0 /\ f \in [SUBSET (1..n) -> Int]
    BY <1>5 DEF Ints, IsFold
  <2> QED BY <1>1, <2>1, <2>2
<1> DEFINE g == CHOOSE e : Equation(e)
<1>7. Equation(g)
  <2> HIDE DEF Equation
  <2> QED BY <1>6
<1> HIDE DEF g
<1>8. IsFold(g, 1..n, 0, C, G)
  <2>1. g[{}] = 0
    BY <1>7
  <2>2. ASSUME NEW S \in SUBSET (1..n), NEW v \in Int, S # {}, g[Rest(S, C)] = v
        PROVE  g[S] = G[S][v]
    <3>1. Rest(S, C) = S \ {Max(S)} /\ Max(S) \in 1..n
      BY <1>4, <2>2 DEF Rest, LastOf
    <3>2. g[S] = 10 * g[S \ {Max(S)}] + DigitOf(s[Max(S)])
      BY <1>1, <1>7, <2>2
    <3>3. G[S][v] = st[Max(S)][v]
      <4> HIDE DEF st
      <4> QED BY <2>2 DEF StepOf
    <3>4. st[Max(S)][v] = 10 * v + DigitOf(s[Max(S)])
      BY <3>1
    <3> QED BY <2>2, <3>1, <3>2, <3>3, <3>4
  <2> QED BY <2>1, <2>2 DEF IsFold
<1>9. g[1..n] = f[1..n]
  <2> DEFINE D == 1..n
  <2>1. IsFiniteSet(D) /\ D \subseteq D /\ IsPick(C, D)
    <3>1. IsFiniteSet(D)
      BY <1>1, FS_Interval
    <3>2. IsPick(C, D)
      <4> HIDE DEF n
      <4> QED BY <1>4 DEF IsPick, LastOf
    <3> QED BY <3>1, <3>2
  <2> HIDE DEF C, G, n, D
  <2>2. Ints(f, D) /\ IsFold(f, D, 0, C, G) /\ IsFold(g, D, 0, C, G)
    BY <1>5, <1>8 DEF D
  <2>3. Agree(f, g, D)
    BY <2>1, <2>2, FoldsAgree
  <2> QED BY <2>3 DEF Agree, D
<1>10. ValueOf(s) = g[DOMAIN s]
  BY DEF ValueOf, FoldLeft, MapThenFoldSet, g
<1> DEFINE v == [k \in 0..n |-> f[1..k]]
<1>11. IsValue(v, s)
  <2>1. /\ v \in [0..n -> Int] /\ v[0] = 0
        /\ \A k \in 1..n : v[k] = st[k][v[k - 1]]
    <3> HIDE DEF v, st
    <3> QED BY <1>5 DEF IsRun, v
  <2> HIDE DEF v
  <2>2. \A k \in 1..n : v[k - 1] \in Int
    BY <1>1, <2>1
  <2> QED BY <2>1, <2>2 DEF IsValue
<1>12. ValueOf(s) = v[n]
  BY <1>1, <1>9, <1>10
<1> QED BY <1>11, <1>12

\* There is one such v.
LEMMA ValuesAgree ==
  ASSUME NEW s, AllDigits(s), NEW v, IsValue(v, s)
  PROVE  /\ ValueOf(s) = v[Len(s)]
         /\ \A k \in 0..Len(s) : v[k] \in Nat
<1> DEFINE n == Len(s)
<1>1. n \in Nat /\ \A k \in 1..n : DigitOf(s[k]) \in Nat
  <2>1. n \in Nat /\ \A k \in 1..n : s[k] \in Digits
    BY DEF AllDigits
  <2>2. \A c \in Digits : DigitOf(c) \in 0..9
    BY DigitFacts
  <2>3. \A c \in Digits : DigitOf(c) \in Nat
    BY <2>2
  <2> QED BY <2>1, <2>3
<1>2. PICK w : IsValue(w, s) /\ ValueOf(s) = w[n]
  BY ValueUnfolds
<1> DEFINE Good == {k \in Nat : k <= n => w[k] = v[k] /\ v[k] \in Nat}
<1>3. 0 \in Good
  BY <1>2 DEF IsValue
<1>4. ASSUME NEW k \in Nat, k \in Good PROVE k + 1 \in Good
  <2> SUFFICES ASSUME k + 1 <= n PROVE w[k + 1] = v[k + 1] /\ v[k + 1] \in Nat
    OBVIOUS
  <2>1. w[k] = v[k] /\ v[k] \in Nat
    BY <1>1, <1>4
  <2>2. k + 1 \in 1..n /\ (k + 1) - 1 = k
    BY <1>1
  <2>3. v[k + 1] = 10 * v[k] + DigitOf(s[k + 1]) /\ w[k + 1] = 10 * w[k] + DigitOf(s[k + 1])
    BY <1>2, <2>2 DEF IsValue
  <2> DEFINE a == v[k]
             d == DigitOf(s[k + 1])
  <2>4. a \in Nat /\ d \in Nat /\ v[k + 1] = 10 * a + d /\ w[k + 1] = 10 * a + d
    BY <1>1, <2>1, <2>2, <2>3
  <2> HIDE DEF a, d
  <2> QED BY <2>4
<1>5. Nat \subseteq Good
  <2> HIDE DEF Good
  <2> QED BY <1>3, <1>4, NatSetInduction
<1> QED BY <1>1, <1>2, <1>5

LEMMA ValueExists ==
  ASSUME NEW s, AllDigits(s)
  PROVE  \E v : /\ IsValue(v, s) /\ ValueOf(s) = v[Len(s)]
                /\ \A k \in 0..Len(s) : v[k] \in Nat
BY ValueUnfolds, ValuesAgree

LEMMA ValueType ==
  ASSUME NEW s, AllDigits(s)
  PROVE  ValueOf(s) \in Nat
<1>1. Len(s) \in 0..Len(s)
  BY DEF AllDigits
<1> QED BY <1>1, ValueExists

\* One digit more.
LEMMA ValueOfAppend ==
  ASSUME NEW s, AllDigits(s), NEW c, c \in Digits
  PROVE  AllDigits(Append(s, c)) /\ ValueOf(Append(s, c)) = 10 * ValueOf(s) + DigitOf(c)
<1> DEFINE t == Append(s, c)
           n == Len(s)
<1>1. /\ AllDigits(t) /\ n \in Nat /\ Len(t) = n + 1 /\ t[n + 1] = c
      /\ \A k \in 1..n : t[k] = s[k]
  BY DEF AllDigits
<1> HIDE DEF t, n
<1>2. PICK v : /\ IsValue(v, t) /\ ValueOf(t) = v[Len(t)]
  BY <1>1, ValueExists
<1> DEFINE w == [k \in 0..n |-> v[k]]
<1>3. IsValue(w, s)
  <2>1. /\ v \in [0..(n + 1) -> Int] /\ v[0] = 0
        /\ \A k \in 1..(n + 1) : v[k] = 10 * v[k - 1] + DigitOf(t[k])
    BY <1>1, <1>2 DEF IsValue
  <2>2. w \in [0..n -> Int] /\ w[0] = 0
    BY <1>1, <2>1
  <2>3. ASSUME NEW k \in 1..n PROVE w[k] = 10 * w[k - 1] + DigitOf(s[k])
    <3>1. w[k] = v[k] /\ w[k - 1] = v[k - 1] /\ k \in 1..(n + 1)
      BY <1>1
    <3> HIDE DEF w
    <3> QED BY <1>1, <2>1, <3>1
  <2> HIDE DEF w
  <2> QED BY <2>2, <2>3 DEF IsValue, n
<1>4. ValueOf(s) = w[n]
  BY <1>3, ValuesAgree DEF n
<1>5. v[n + 1] = 10 * v[n] + DigitOf(c)
  <2>1. n + 1 \in 1..(n + 1) /\ (n + 1) - 1 = n
    BY <1>1
  <2>2. v[n + 1] = 10 * v[(n + 1) - 1] + DigitOf(t[n + 1])
    BY <1>1, <1>2, <2>1 DEF IsValue
  <2> QED BY <1>1, <2>1, <2>2
<1>6. w[n] = v[n]
  BY <1>1
<1> QED BY <1>1, <1>2, <1>4, <1>5, <1>6 DEF t

\* p is the powers of ten up to the n-th.
IsPowers(p, n) ==
    /\ p \in [0..n -> Int] /\ p[0] = 1
    /\ \A k \in 1..n : p[k] = p[k - 1] * 10

LEMMA PowersUnfold ==
  ASSUME NEW n, n \in Nat
  PROVE  \E p : IsPowers(p, n) /\ TenTo(n) = p[n]
<1> DEFINE s  == [k \in 1..n |-> 10]
           st == [k \in 1..n |-> [v \in Int |-> v * 10]]
           C  == LastOf(n)
           G  == StepOf(n, 1, st)
           Equation(f) == f = [S \in SUBSET DOMAIN s |->
                                 IF S = {} THEN 1 ELSE f[S \ {Max(S)}] * s[Max(S)]]
<1>1. DOMAIN s = 1..n /\ \A k \in 1..n : s[k] = 10
  OBVIOUS
<1>3. AreSteps(st, n)
  BY DEF AreSteps
<1>4. \A S \in SUBSET (1..n) : S # {} => Max(S) \in 1..n /\ Max(S) \in S
  BY MaxIsLast
<1> HIDE DEF s
<1>5. PICK f : /\ Ints(f, 1..n) /\ IsFold(f, 1..n, 1, C, G)
               /\ IsRun([k \in 0..n |-> f[1..k]], n, 1, st)
  <2> HIDE DEF st
  <2>1. n \in Nat /\ 1 \in Int /\ AreSteps(st, n)
    BY <1>3
  <2> QED BY <2>1, RunExists
<1>6. Equation(f)
  <2>1. ASSUME NEW S \in SUBSET (1..n), S # {} PROVE f[S] = f[S \ {Max(S)}] * s[Max(S)]
    <3> DEFINE r == S \ {Max(S)}
    <3>1. r \in SUBSET (1..n) /\ Rest(S, C) = r /\ Max(S) \in 1..n
      BY <1>4, <2>1 DEF Rest, LastOf
    <3>2. f[r] \in Int
      BY <1>5, <3>1 DEF Ints
    <3>3. f[S] = G[S][f[r]]
      <4> HIDE DEF r, G, C
      <4> QED BY <1>5, <2>1, <3>1, <3>2 DEF IsFold
    <3>4. G[S][f[r]] = st[Max(S)][f[r]]
      <4> HIDE DEF r, st
      <4> QED BY <2>1, <3>2 DEF StepOf
    <3>5. st[Max(S)][f[r]] = f[r] * 10
      <4> HIDE DEF r
      <4> QED BY <3>1, <3>2
    <3> QED BY <1>1, <3>1, <3>3, <3>4, <3>5
  <2>2. f[{}] = 1 /\ f \in [SUBSET (1..n) -> Int]
    BY <1>5 DEF Ints, IsFold
  <2> QED BY <1>1, <2>1, <2>2
<1> DEFINE g == CHOOSE e : Equation(e)
<1>7. Equation(g)
  <2> HIDE DEF Equation
  <2> QED BY <1>6
<1> HIDE DEF g
<1>8. IsFold(g, 1..n, 1, C, G)
  <2>1. g[{}] = 1
    BY <1>7
  <2>2. ASSUME NEW S \in SUBSET (1..n), NEW v \in Int, S # {}, g[Rest(S, C)] = v
        PROVE  g[S] = G[S][v]
    <3>1. Rest(S, C) = S \ {Max(S)} /\ Max(S) \in 1..n
      BY <1>4, <2>2 DEF Rest, LastOf
    <3>2. g[S] = g[S \ {Max(S)}] * 10
      BY <1>1, <1>7, <2>2, <3>1
    <3>3. G[S][v] = st[Max(S)][v]
      <4> HIDE DEF st
      <4> QED BY <2>2 DEF StepOf
    <3>4. st[Max(S)][v] = v * 10
      BY <3>1
    <3> QED BY <2>2, <3>1, <3>2, <3>3, <3>4
  <2> QED BY <2>1, <2>2 DEF IsFold
<1>9. g[1..n] = f[1..n]
  <2> DEFINE D == 1..n
  <2>1. IsFiniteSet(D) /\ D \subseteq D /\ IsPick(C, D)
    BY <1>4, FS_Interval DEF IsPick, LastOf
  <2> HIDE DEF C, G, D
  <2>2. Ints(f, D) /\ IsFold(f, D, 1, C, G) /\ IsFold(g, D, 1, C, G)
    BY <1>5, <1>8 DEF D
  <2>3. Agree(f, g, D)
    BY <2>1, <2>2, FoldsAgree
  <2> QED BY <2>3 DEF Agree, D
<1>10. TenTo(n) = g[DOMAIN s]
  BY DEF TenTo, FoldLeft, MapThenFoldSet, g, s
<1> DEFINE p == [k \in 0..n |-> f[1..k]]
<1>11. IsPowers(p, n)
  <2>1. /\ p \in [0..n -> Int] /\ p[0] = 1
        /\ \A k \in 1..n : p[k] = st[k][p[k - 1]]
    <3> HIDE DEF p, st
    <3> QED BY <1>5 DEF IsRun, p
  <2> HIDE DEF p
  <2>2. \A k \in 1..n : p[k - 1] \in Int
    BY <2>1
  <2> QED BY <2>1, <2>2 DEF IsPowers
<1>12. TenTo(n) = p[n]
  BY <1>1, <1>9, <1>10
<1> QED BY <1>11, <1>12

LEMMA PowersAgree ==
  ASSUME NEW n, n \in Nat, NEW p, IsPowers(p, n), NEW q, IsPowers(q, n + 1)
  PROVE  p[n] = q[n] /\ q[n] \in Nat \ {0} /\ q[n + 1] = q[n] * 10
<1> DEFINE Good == {k \in Nat : k <= n => p[k] = q[k] /\ q[k] \in Nat \ {0}}
<1>1. 0 \in Good
  BY DEF IsPowers
<1>2. ASSUME NEW k \in Nat, k \in Good PROVE k + 1 \in Good
  <2> SUFFICES ASSUME k + 1 <= n PROVE p[k + 1] = q[k + 1] /\ q[k + 1] \in Nat \ {0}
    OBVIOUS
  <2>1. p[k] = q[k] /\ q[k] \in Nat \ {0}
    BY <1>2
  <2>2. k + 1 \in 1..n /\ k + 1 \in 1..(n + 1) /\ (k + 1) - 1 = k
    OBVIOUS
  <2>3. p[k + 1] = p[k] * 10 /\ q[k + 1] = q[k] * 10
    BY <2>2 DEF IsPowers
  <2> QED BY <2>1, <2>3
<1>3. Nat \subseteq Good
  <2> HIDE DEF Good
  <2> QED BY <1>1, <1>2, NatSetInduction
<1>4. n + 1 \in 1..(n + 1) /\ (n + 1) - 1 = n
  OBVIOUS
<1>5. q[n + 1] = q[n] * 10
  BY <1>4 DEF IsPowers
<1> QED BY <1>3, <1>5

LEMMA TenToFacts ==
  /\ TenTo(0) = 1
  /\ \A n \in Nat : TenTo(n) \in Nat \ {0} /\ TenTo(n + 1) = 10 * TenTo(n)
<1>1. TenTo(0) = 1
  BY PowersUnfold DEF IsPowers
<1>2. ASSUME NEW n \in Nat PROVE TenTo(n) \in Nat \ {0} /\ TenTo(n + 1) = 10 * TenTo(n)
  <2>1. PICK p : IsPowers(p, n) /\ TenTo(n) = p[n]
    BY PowersUnfold
  <2>2. PICK q : IsPowers(q, n + 1) /\ TenTo(n + 1) = q[n + 1]
    <3>1. n + 1 \in Nat
      OBVIOUS
    <3> QED BY <3>1, PowersUnfold
  <2>3. p[n] = q[n] /\ q[n] \in Nat \ {0} /\ q[n + 1] = q[n] * 10
    BY <2>1, <2>2, PowersAgree
  <2> QED BY <2>1, <2>2, <2>3
<1> QED BY <1>1, <1>2

-----------------------------------------------------------------------------
(* Texts: reading.                                                         *)

LEMMA LowestIsFirst ==
  ASSUME NEW n \in Nat, NEW S \in SUBSET (1..n), S # {}
  PROVE  Lowest(S) \in S /\ \A y \in S : Lowest(S) <= y
<1>1. S \subseteq Nat
  <2>1. \A x \in 1..n : x \in Nat
    OBVIOUS
  <2> QED BY <2>1
<1>2. PICK t \in S : \A u \in S : ~(<<u, t>> \in OpToRel(<, Nat))
  BY <1>1, NatLessThanWellFounded, WFMin
<1>3. \A u \in S : t <= u
  <2>1. \A u \in Nat : u < t => <<u, t>> \in OpToRel(<, Nat)
    BY <1>1, <1>2 DEF OpToRel
  <2>2. \A u \in S : u \in Nat /\ t \in Nat /\ ~(u < t)
    BY <1>1, <1>2, <2>1
  <2> QED BY <2>2
<1> QED BY <1>3 DEF Lowest

LEMMA HighestIsMax ==
  ASSUME NEW S PROVE Highest(S) = Max(S)
BY DEF Highest, Max

\* The text before the point and the text behind it.
LEMMA CutFacts ==
  ASSUME NEW A, NEW s, s \in Seq(A)
  PROVE  /\ Point(s) \in 1..(Len(s) + 1)
         /\ Whole(s) \in Seq(A) /\ Len(Whole(s)) = Point(s) - 1
         /\ \A k \in 1..Len(Whole(s)) : Whole(s)[k] = s[k]
         /\ Part(s) \in Seq(A)
         /\ Len(Part(s)) = IF Point(s) > Len(s) THEN 0 ELSE Len(s) - Point(s)
         /\ \A k \in 1..Len(Part(s)) : Part(s)[k] = s[Point(s) + k]
         /\ \A k \in 1..Len(s) : s[k] = "." => Point(s) <= k
<1> DEFINE p == Point(s)
           L == Len(s)
<1>1. L \in Nat /\ \A k \in 1..L : s[k] \in A
  OBVIOUS
<1>2. p \in 1..(L + 1) /\ \A k \in 1..L : s[k] = "." => p <= k
  <2>1. Points(s) \in SUBSET (1..L)
    BY DEF Points
  <2>2. CASE Points(s) = {}
    <3>1. p = L + 1
      BY <2>2 DEF Point
    <3>2. \A k \in 1..L : s[k] # "."
      BY <2>2 DEF Points
    <3> HIDE DEF p
    <3> QED BY <1>1, <3>1, <3>2
  <2>3. CASE Points(s) # {}
    <3> HIDE DEF L
    <3>1. p \in Points(s) /\ \A y \in Points(s) : p <= y
      BY <1>1, <2>1, <2>3, LowestIsFirst DEF Point
    <3>2. \A k \in 1..L : s[k] = "." => k \in Points(s)
      BY DEF Points, L
    <3> HIDE DEF p
    <3>3. p \in 1..L
      BY <2>1, <3>1
    <3> QED BY <1>1, <3>1, <3>2, <3>3
  <2> QED BY <2>2, <2>3
<1> HIDE DEF p, L
<1>3. /\ Whole(s) \in Seq(A) /\ Len(Whole(s)) = p - 1
      /\ \A k \in 1..Len(Whole(s)) : Whole(s)[k] = s[k]
  <2>1. 1 \in Int /\ p - 1 \in Int /\ p >= 1 /\ \A i \in 1..(p - 1) : s[i] \in A
    BY <1>1, <1>2
  <2>2. /\ SubSeq(s, 1, p - 1) \in Seq(A)
        /\ Len(SubSeq(s, 1, p - 1)) = IF 1 <= p - 1 THEN (p - 1) - 1 + 1 ELSE 0
        /\ \A i \in 1..((p - 1) - 1 + 1) : SubSeq(s, 1, p - 1)[i] = s[1 + i - 1]
    BY <2>1, SubSeqProperties
  <2>3. Whole(s) = SubSeq(s, 1, p - 1)
    BY DEF Whole, p
  <2> DEFINE w == SubSeq(s, 1, p - 1)
  <2>4. Len(w) = p - 1
    BY <1>2, <2>2
  <2>5. \A i \in 1..(p - 1) : w[i] = s[i]
    <3>1. \A i \in 1..(p - 1) : 1 + i - 1 = i /\ i \in 1..((p - 1) - 1 + 1)
      BY <1>2
    <3> HIDE DEF w
    <3> QED BY <2>2, <3>1 DEF w
  <2> QED BY <2>2, <2>3, <2>4, <2>5
<1>4. /\ Part(s) \in Seq(A) /\ Len(Part(s)) = IF p > L THEN 0 ELSE L - p
      /\ \A k \in 1..Len(Part(s)) : Part(s)[k] = s[p + k]
  <2>1. p + 1 \in Int /\ L \in Int /\ \A i \in (p + 1)..L : s[i] \in A
    BY <1>1, <1>2
  <2> DEFINE w == SubSeq(s, p + 1, L)
  <2>2. /\ w \in Seq(A)
        /\ Len(w) = IF p + 1 <= L THEN L - (p + 1) + 1 ELSE 0
        /\ \A i \in 1..(L - (p + 1) + 1) : w[i] = s[(p + 1) + i - 1]
    BY <2>1, SubSeqProperties
  <2>3. Part(s) = w
    BY DEF Part, p, L
  <2> HIDE DEF w
  <2>4. Len(w) = IF p > L THEN 0 ELSE L - p
    BY <1>1, <1>2, <2>2
  <2>5. \A i \in 1..Len(w) : i \in 1..(L - (p + 1) + 1) /\ (p + 1) + i - 1 = p + i
    BY <1>1, <1>2, <2>4
  <2> QED BY <2>2, <2>3, <2>4, <2>5
<1> QED BY <1>2, <1>3, <1>4 DEF p, L

\* Nothing is trimmed from a text that has no space at its ends.
Unspaced(s) == s[1] # " " /\ s[Len(s)] # " "

LEMMA NothingToTrim ==
  ASSUME NEW A, NEW s, s \in Seq(A), s # <<>>, Unspaced(s)
  PROVE  TrimSpace(s) = s
<1> DEFINE kept == {k \in 1..Len(s) : s[k] # " "}
           n  == Len(s)
           lo == Lowest(kept)
           hi == Highest(kept)
<1>1. n \in Nat /\ n >= 1
  <2>1. n \in Nat
    OBVIOUS
  <2>2. n # 0
    BY EmptySeq
  <2> HIDE DEF n
  <2> QED BY <2>1, <2>2
<1>2. 1 \in 1..n /\ n \in 1..n
  <2> HIDE DEF n
  <2> QED BY <1>1
<1>3. 1 \in kept /\ n \in kept
  <2>1. s[1] # " " /\ s[n] # " "
    BY DEF Unspaced
  <2> HIDE DEF n
  <2> QED BY <1>2, <2>1 DEF n
<1>4. kept \in SUBSET (1..n) /\ kept # {}
  BY <1>3
<1> HIDE DEF kept, n
<1>5. lo \in kept /\ lo <= 1 /\ hi \in kept /\ hi >= n
  BY <1>1, <1>3, <1>4, LowestIsFirst, MaxIsLast, HighestIsMax
<1> HIDE DEF lo, hi
<1>6. lo \in 1..n /\ hi \in 1..n
  BY <1>4, <1>5
<1>7. lo = 1 /\ hi = n
  <2>1. lo \in Int /\ hi \in Int /\ lo >= 1 /\ hi <= n /\ lo <= 1 /\ hi >= n
    BY <1>1, <1>5, <1>6
  <2> QED BY <1>1, <2>1
<1>8. SubSeq(s, 1, n) = s
  BY SubSeqFull DEF n
<1>9. TrimSpace(s) = SubSeq(s, lo, hi)
  BY <1>4 DEF TrimSpace, kept, lo, hi
<1> QED BY <1>7, <1>8, <1>9

\* What is trimmed is a text still.
LEMMA TrimmedIsText ==
  ASSUME NEW A, NEW s, s \in Seq(A)
  PROVE  TrimSpace(s) \in Seq(A)
<1> DEFINE kept == {k \in 1..Len(s) : s[k] # " "}
<1>1. Len(s) \in Nat
  OBVIOUS
<1>2. kept \in SUBSET (1..Len(s))
  OBVIOUS
<1>3. \A k \in 1..Len(s) : s[k] \in A
  OBVIOUS
<1>4. CASE kept = {}
  <2>1. TrimSpace(s) = <<>>
    BY <1>4 DEF TrimSpace
  <2> QED BY <2>1
<1>5. CASE kept # {}
  <2> HIDE DEF kept
  <2>1. Lowest(kept) \in kept /\ Highest(kept) \in kept
    BY <1>1, <1>2, <1>5, LowestIsFirst, MaxIsLast, HighestIsMax
  <2> DEFINE lo == Lowest(kept)
             hi == Highest(kept)
  <2>2. lo \in 1..Len(s) /\ hi \in 1..Len(s)
    BY <1>2, <2>1
  <2> HIDE DEF lo, hi
  <2>3. \A i \in lo..hi : s[i] \in A
    BY <1>1, <1>3, <2>2
  <2>4. SubSeq(s, lo, hi) \in Seq(A)
    BY <2>2, <2>3, SubSeqProperties
  <2> QED BY <1>5, <2>4 DEF TrimSpace, lo, hi, kept
<1> QED BY <1>4, <1>5

LEMMA FillUpFacts ==
  ASSUME NEW d, d \in Nat, NEW A, NEW t, t \in Seq(A), Len(t) <= d
  PROVE  /\ FillUp(d, t) \in Seq(A \cup Digits) /\ Len(FillUp(d, t)) = d
         /\ \A k \in 1..d : FillUp(d, t)[k] = IF k <= Len(t) THEN t[k] ELSE "0"
<1> DEFINE m == d - Len(t)
<1>1. m \in Nat /\ "0" \in Digits
  <2>1. Numerals[0 + 1] = "0" /\ 0 \in 0..9
    BY DEF Numerals
  <2> QED BY <2>1 DEF Digits
<1> HIDE DEF m
<1>2. Zeros(m) \in Seq(A \cup Digits) /\ Len(Zeros(m)) = m /\ \A k \in 1..m : Zeros(m)[k] = "0"
  BY <1>1 DEF Zeros
<1>3. t \in Seq(A \cup Digits) /\ Len(t) \in Nat
  BY SeqMonotonic
<1>4. FillUp(d, t) = t \o Zeros(m)
  BY DEF FillUp, m
<1>5. Len(t) + m = d
  BY <1>3 DEF m
<1>6. /\ t \o Zeros(m) \in Seq(A \cup Digits) /\ Len(t \o Zeros(m)) = Len(t) + Len(Zeros(m))
      /\ \A i \in 1..(Len(t) + Len(Zeros(m))) :
            (t \o Zeros(m))[i] = IF i <= Len(t) THEN t[i] ELSE Zeros(m)[i - Len(t)]
  BY <1>2, <1>3, ConcatProperties
<1>7. \A i \in 1..d : i <= Len(t) \/ i - Len(t) \in 1..m
  BY <1>1, <1>3, <1>5
<1> HIDE DEF Zeros
<1> QED BY <1>2, <1>4, <1>5, <1>6, <1>7

LEMMA DigitsAreDigits ==
  ASSUME NEW B, NEW s, s \in Seq(B), IsDigits(s)
  PROVE  AllDigits(s) /\ s # <<>>
<1>1. \A k \in 1..Len(s) : s[k] \in Digits
  BY DigitFacts DEF IsDigits
<1>2. s \in Seq(Digits)
  BY <1>1, ElementOfSeq, SeqDef
<1> QED BY <1>2 DEF AllDigits, IsDigits

LEMMA SetStringType ==
  ASSUME NEW B, NEW s, s \in Seq(B)
  PROVE  SetString(s) = Unreadable \/ \E n \in Int : SetString(s) = Read(n)
<1> DEFINE signed == s # <<>> /\ s[1] \in {"+", "-"}
           digits == IF signed THEN Tail(s) ELSE s
<1>1. digits \in Seq(B)
  <2>1. s # <<>> => Tail(s) \in Seq(B)
    BY HeadTailProperties
  <2>2. signed => s # <<>>
    OBVIOUS
  <2> HIDE DEF signed
  <2> QED BY <2>1, <2>2
<1>2. SetString(s) = IF ~IsDigits(digits) THEN Unreadable
                     ELSE Read(IF signed /\ s[1] = "-" THEN -ValueOf(digits) ELSE ValueOf(digits))
  BY DEF SetString
<1> HIDE DEF digits, signed
<1>3. CASE ~IsDigits(digits)
  BY <1>2, <1>3
<1>4. CASE IsDigits(digits)
  <2>1. ValueOf(digits) \in Nat
    BY <1>1, <1>4, DigitsAreDigits, ValueType
  <2> DEFINE v == ValueOf(digits)
             n == IF signed /\ s[1] = "-" THEN -v ELSE v
  <2>2. v \in Int /\ -v \in Int
    BY <2>1
  <2> HIDE DEF v
  <2>3. n \in Int
    BY <2>2
  <2>4. SetString(s) = Read(n)
    BY <1>2, <1>4 DEF v
  <2> HIDE DEF n
  <2> QED BY <2>3, <2>4
<1> QED BY <1>3, <1>4

LEMMA ParsedUnits ==
  ASSUME NEW A, NEW text, text \in Seq(A), NEW d, d \in Nat
  PROVE  ParseDecimal(d, text) = Unreadable \/ \E n \in Int : ParseDecimal(d, text) = Read(n)
<1> DEFINE s    == TrimSpace(text)
           neg  == s # <<>> /\ s[1] = "-"
           body == IF neg THEN Tail(s) ELSE s
           t    == Whole(body) \o FillUp(d, Part(body))
           n    == SetString(t)
<1>1. ParseDecimal(d, text) = IF s = <<>> \/ Len(Part(body)) > d \/ ~n.ok THEN Unreadable
                              ELSE Read(IF neg THEN -n.units ELSE n.units)
  BY DEF ParseDecimal
<1>2. s \in Seq(A)
  BY TrimmedIsText
<1> HIDE DEF s
<1>3. body \in Seq(A)
  <2>1. s # <<>> => Tail(s) \in Seq(A)
    BY <1>2, HeadTailProperties
  <2>2. neg => s # <<>>
    OBVIOUS
  <2> HIDE DEF neg
  <2> QED BY <1>2, <2>1, <2>2
<1> HIDE DEF neg, body
<1>4. CASE s = <<>> \/ Len(Part(body)) > d \/ ~n.ok
  <2> HIDE DEF n
  <2> QED BY <1>1, <1>4
<1>5. CASE ~(s = <<>> \/ Len(Part(body)) > d \/ ~n.ok)
  <2>1. Whole(body) \in Seq(A) /\ Part(body) \in Seq(A)
    BY <1>3, CutFacts
  <2>2. Len(Part(body)) <= d
    <3>1. Len(Part(body)) \in Nat
      BY <2>1
    <3> QED BY <1>5, <3>1
  <2>3. FillUp(d, Part(body)) \in Seq(A \cup Digits)
    BY <2>1, <2>2, FillUpFacts
  <2>4. Whole(body) \in Seq(A \cup Digits)
    BY <2>1, SeqMonotonic
  <2>5. t \in Seq(A \cup Digits)
    BY <2>3, <2>4, ConcatProperties
  <2> HIDE DEF t
  <2>6. n = Unreadable \/ \E m \in Int : n = Read(m)
    BY <2>5, SetStringType
  <2> HIDE DEF n
  <2>7. n.ok
    BY <1>5
  <2>8. n # Unreadable
    BY <2>7 DEF Unreadable
  <2>9. PICK m \in Int : n = Read(m)
    BY <2>6, <2>8
  <2>10. n.units = m /\ -m \in Int
    BY <2>9 DEF Read
  <2>11. ParseDecimal(d, text) = Read(IF neg THEN -m ELSE m)
    BY <1>1, <1>5, <2>10
  <2> QED BY <2>10, <2>11
<1> QED BY <1>4, <1>5

\* The digits ParseDecimal hands to SetString for a text with no sign.
Amount(d, s) == Whole(s) \o FillUp(d, Part(s))

\* They are the digits of s without the point, and zeros.
IsAmount(a, d, s) ==
    /\ Len(a) = Point(s) - 1 + d
    /\ \A k \in 1..(Point(s) - 1) : a[k] = s[k]
    /\ \A k \in 1..d : a[Point(s) - 1 + k] =
          IF k <= Len(Part(s)) THEN s[Point(s) + k] ELSE "0"

LEMMA AmountFacts ==
  ASSUME NEW A, NEW s, s \in Seq(A), NEW d, d \in Nat, Len(Part(s)) <= d
  PROVE  Amount(d, s) \in Seq(A \cup Digits) /\ IsAmount(Amount(d, s), d, s)
<1> DEFINE w == Whole(s)
           f == FillUp(d, Part(s))
           p == Point(s)
<1>1. /\ p \in 1..(Len(s) + 1) /\ w \in Seq(A) /\ Len(w) = p - 1 /\ Part(s) \in Seq(A)
      /\ \A k \in 1..Len(w) : w[k] = s[k]
      /\ \A k \in 1..Len(Part(s)) : Part(s)[k] = s[p + k]
  BY CutFacts
<1>2. /\ f \in Seq(A \cup Digits) /\ Len(f) = d
      /\ \A k \in 1..d : f[k] = IF k <= Len(Part(s)) THEN Part(s)[k] ELSE "0"
  <2> DEFINE e == Part(s)
  <2>1. e \in Seq(A) /\ Len(e) <= d /\ d \in Nat
    BY <1>1
  <2> HIDE DEF e
  <2>2. /\ FillUp(d, e) \in Seq(A \cup Digits) /\ Len(FillUp(d, e)) = d
        /\ \A k \in 1..d : FillUp(d, e)[k] = IF k <= Len(e) THEN e[k] ELSE "0"
    BY <2>1, FillUpFacts
  <2> QED BY <2>2 DEF e
<1>3. w \in Seq(A \cup Digits)
  BY <1>1, SeqMonotonic
<1>4. p \in Nat /\ p >= 1
  <2>1. Len(s) \in Nat
    BY LenProperties
  <2> HIDE DEF p
  <2> QED BY <1>1, <2>1
<1> HIDE DEF w, f, p
<1>5. /\ w \o f \in Seq(A \cup Digits) /\ Len(w \o f) = Len(w) + Len(f)
      /\ \A i \in 1..(Len(w) + Len(f)) :
            (w \o f)[i] = IF i <= Len(w) THEN w[i] ELSE f[i - Len(w)]
  BY <1>2, <1>3, ConcatProperties
<1>6. Amount(d, s) = w \o f
  BY DEF Amount, w, f
<1> DEFINE t == w \o f
<1> HIDE DEF t
<1>7. \A k \in 1..(p - 1) : t[k] = s[k]
  <2>1. \A k \in 1..(p - 1) : k \in 1..Len(w) /\ k \in 1..(Len(w) + Len(f)) /\ k <= Len(w)
    BY <1>1, <1>2, <1>4
  <2> QED BY <1>1, <1>5, <2>1 DEF t
<1>8. \A k \in 1..d : t[p - 1 + k] = f[k]
  <2>1. \A k \in 1..d : /\ p - 1 + k \in 1..(Len(w) + Len(f)) /\ ~(p - 1 + k <= Len(w))
                        /\ (p - 1 + k) - Len(w) = k
    BY <1>1, <1>2, <1>4
  <2> QED BY <1>5, <2>1 DEF t
<1>9. \A k \in 1..d : k <= Len(Part(s)) => k \in 1..Len(Part(s))
  <2>1. Len(Part(s)) \in Nat
    BY <1>1, LenProperties
  <2> QED BY <2>1
<1>10. \A k \in 1..d : t[p - 1 + k] = IF k <= Len(Part(s)) THEN s[p + k] ELSE "0"
  BY <1>1, <1>2, <1>8, <1>9
<1>11. IsAmount(t, d, s)
  <2>1. Len(t) = p - 1 + d
    BY <1>1, <1>2, <1>5 DEF t
  <2> QED BY <1>7, <1>10, <2>1 DEF IsAmount, p
<1> QED BY <1>5, <1>6, <1>11 DEF t

\* SetString, of digits and nothing else.
LEMMA SetStringOfDigits ==
  ASSUME NEW t, AllDigits(t), t # <<>>
  PROVE  SetString(t) = Read(ValueOf(t))
<1>1. Len(t) \in Nat /\ Len(t) # 0
  BY EmptySeq, LenProperties DEF AllDigits
<1>2. \A k \in 1..Len(t) : IsDigit(t[k])
  BY DigitFacts, ElementOfSeq DEF AllDigits
<1>3. IsDigits(t)
  BY <1>2 DEF IsDigits
<1>4. ~(t[1] \in {"+", "-"})
  <2>1. 1 \in 1..Len(t)
    BY <1>1
  <2>2. IsDigit(t[1])
    BY <1>2, <2>1
  <2> QED BY <2>2, DigitFacts
<1> QED BY <1>3, <1>4 DEF SetString

\* ParseDecimal, of digits with one point or none.
LEMMA ParsesTo ==
  ASSUME NEW A, NEW s, s \in Seq(A), s # <<>>, Unspaced(s), s[1] # "-",
         NEW d, d \in Nat, Len(Part(s)) <= d, AllDigits(Amount(d, s)), Amount(d, s) # <<>>
  PROVE  ParseDecimal(d, s) = Read(ValueOf(Amount(d, s)))
<1>1. TrimSpace(s) = s
  BY NothingToTrim
<1>2. ~(Len(Part(s)) > d)
  <2>1. Len(Part(s)) \in Nat
    BY CutFacts, LenProperties
  <2> QED BY <2>1
<1>3. SetString(Amount(d, s)) = Read(ValueOf(Amount(d, s)))
  BY SetStringOfDigits
<1> DEFINE v == ValueOf(Amount(d, s))
           n == SetString(Whole(s) \o FillUp(d, Part(s)))
<1>4. n = Read(v)
  BY <1>3 DEF Amount
<1>5. ParseDecimal(d, s) = IF Len(Part(s)) > d \/ ~n.ok THEN Unreadable ELSE Read(n.units)
  BY <1>1 DEF ParseDecimal
<1> HIDE DEF n, v
<1>6. n.ok /\ n.units = v
  BY <1>4 DEF Read
<1> QED BY <1>2, <1>5, <1>6 DEF v

\* With a minus in front.
LEMMA ParsesToMinus ==
  ASSUME NEW A, NEW s, s \in Seq(A), s # <<>>, Unspaced(s), s[1] # "-",
         NEW d, d \in Nat, Len(Part(s)) <= d, AllDigits(Amount(d, s)), Amount(d, s) # <<>>
  PROVE  ParseDecimal(d, <<"-">> \o s) = Read(-ValueOf(Amount(d, s)))
<1> DEFINE m == <<"-">>
           B == A \cup {"-"}
           r == m \o s
<1>1. m \in Seq(B) /\ Len(m) = 1 /\ m[1] = "-" /\ s \in Seq(B)
  <2>1. s \in Seq(B)
    BY SeqMonotonic
  <2> QED BY <2>1
<1> HIDE DEF m
<1>2. /\ r \in Seq(B) /\ Len(r) = 1 + Len(s)
      /\ \A i \in 1..(1 + Len(s)) : r[i] = IF i <= 1 THEN m[i] ELSE s[i - 1]
  <2>1. /\ m \o s \in Seq(B) /\ Len(m \o s) = Len(m) + Len(s)
        /\ \A i \in 1..(Len(m) + Len(s)) :
              (m \o s)[i] = IF i <= Len(m) THEN m[i] ELSE s[i - Len(m)]
    BY <1>1, ConcatProperties
  <2> HIDE DEF r
  <2> QED BY <1>1, <2>1 DEF r
<1> HIDE DEF r
<1>3. Len(s) \in Nat /\ Len(s) # 0
  BY EmptySeq, LenProperties
<1>4. r[1] = "-" /\ r[Len(r)] = s[Len(s)] /\ r # <<>>
  <2>1. 1 \in 1..(1 + Len(s)) /\ 1 + Len(s) \in 1..(1 + Len(s)) /\ ~(1 + Len(s) <= 1)
        /\ (1 + Len(s)) - 1 = Len(s)
    BY <1>3
  <2>2. r # <<>>
    BY <1>2, <1>3, EmptySeq
  <2> QED BY <1>1, <1>2, <2>1, <2>2
<1>5. Tail(r) = s
  <2>1. /\ Tail(r) \in Seq(B) /\ Len(Tail(r)) = Len(r) - 1
        /\ \A i \in 1..Len(Tail(r)) : Tail(r)[i] = r[i + 1]
    BY <1>2, <1>4, HeadTailProperties
  <2>2. Len(Tail(r)) = Len(s)
    BY <1>2, <1>3, <2>1
  <2>3. \A i \in 1..Len(s) : i + 1 \in 1..(1 + Len(s)) /\ ~(i + 1 <= 1) /\ (i + 1) - 1 = i
    BY <1>3
  <2>4. \A i \in 1..Len(s) : Tail(r)[i] = s[i]
    BY <1>2, <2>1, <2>2, <2>3
  <2> QED BY <1>1, <2>1, <2>2, <2>4, SeqEqual
<1>6. Unspaced(r)
  BY <1>4 DEF Unspaced
<1>7. TrimSpace(r) = r
  BY <1>2, <1>4, <1>6, NothingToTrim
<1>8. ~(Len(Part(s)) > d)
  <2>1. Len(Part(s)) \in Nat
    BY CutFacts, LenProperties
  <2> QED BY <2>1
<1> DEFINE v == ValueOf(Amount(d, s))
           n == SetString(Whole(s) \o FillUp(d, Part(s)))
<1>9. n = Read(v)
  BY SetStringOfDigits DEF Amount
<1>10. ParseDecimal(d, r) = IF Len(Part(s)) > d \/ ~n.ok THEN Unreadable ELSE Read(-n.units)
  BY <1>4, <1>5, <1>7 DEF ParseDecimal
<1> HIDE DEF n, v
<1>11. n.ok /\ n.units = v
  BY <1>9 DEF Read
<1> QED BY <1>8, <1>10, <1>11 DEF v, r, m

LEMMA ZeroIsADigit ==
  "0" \in Digits /\ DigitOf("0") = 0
<1>1. Numerals[0 + 1] = "0" /\ 0 \in 0..9
  BY DEF Numerals
<1>2. DigitOf(Numerals[0 + 1]) = 0
  BY <1>1, DigitFacts
<1> QED BY <1>1, <1>2 DEF Digits

\* Zeros at the end: a power of ten.
LEMMA ZerosBehind ==
  ASSUME NEW t, AllDigits(t), NEW v, IsValue(v, t),
         NEW q, q \in 0..Len(t), \A k \in (q + 1)..Len(t) : t[k] = "0"
  PROVE  v[Len(t)] = v[q] * TenTo(Len(t) - q)
<1> DEFINE n == Len(t)
           Good == {j \in Nat : q + j <= n => v[q + j] = v[q] * TenTo(j)}
<1>1. n \in Nat /\ q \in Nat /\ q <= n
  <2>1. n \in Nat
    BY LenProperties DEF AllDigits
  <2> HIDE DEF n
  <2> QED BY <2>1 DEF n
<1>2. \A k \in 0..n : v[k] \in Int
  BY DEF IsValue
<1> HIDE DEF n
<1>3. 0 \in Good
  <2>1. v[q] \in Int /\ TenTo(0) = 1 /\ q + 0 = q
    BY <1>1, <1>2, TenToFacts
  <2>2. v[q] * 1 = v[q]
    <3> DEFINE a == v[q]
    <3>1. a \in Int
      BY <2>1
    <3> HIDE DEF a
    <3>2. a * 1 = a
      BY <3>1
    <3> QED BY <3>2 DEF a
  <2> QED BY <2>1, <2>2
<1>4. ASSUME NEW j \in Nat, j \in Good PROVE j + 1 \in Good
  <2> SUFFICES ASSUME q + (j + 1) <= n PROVE v[q + (j + 1)] = v[q] * TenTo(j + 1)
    OBVIOUS
  <2> DEFINE k == q + (j + 1)
  <2>1. k \in 1..n /\ k \in (q + 1)..n /\ k - 1 = q + j /\ q + j <= n
    BY <1>1
  <2>2. t[k] = "0"
    BY <2>1 DEF n
  <2>3. v[k] = 10 * v[k - 1] + DigitOf(t[k])
    BY <2>1 DEF IsValue, n
  <2>4. v[k - 1] = v[q] * TenTo(j)
    BY <1>4, <2>1
  <2> HIDE DEF k
  <2> DEFINE a == v[q]
             b == TenTo(j)
             c == TenTo(j + 1)
  <2>5. a \in Int /\ b \in Int /\ c = 10 * b
    <3>1. q \in 0..n
      BY <1>1
    <3>2. a \in Int
      BY <1>2, <3>1
    <3>3. b \in Nat \ {0} /\ c = 10 * b
      BY TenToFacts
    <3> HIDE DEF a, b, c
    <3> QED BY <3>2, <3>3
  <2>6. v[k] = 10 * (a * b) + 0
    BY <2>2, <2>3, <2>4, ZeroIsADigit
  <2> HIDE DEF a, b, c
  <2>7. v[k] = a * c
    <3>1. 10 * (a * b) + 0 = a * (10 * b)
      BY <2>5
    <3> QED BY <2>5, <2>6, <3>1
  <2> QED BY <2>7 DEF a, c, k
<1>5. n - q \in Nat /\ q + (n - q) = n
  BY <1>1
<1>6. Nat \subseteq Good
  <2> HIDE DEF Good
  <2> QED BY <1>3, <1>4, NatSetInduction
<1>7. v[q + (n - q)] = v[q] * TenTo(n - q)
  <2> DEFINE j == n - q
  <2>1. j \in Nat /\ q + j = n
    BY <1>5
  <2> HIDE DEF j
  <2>2. v[q + j] = v[q] * TenTo(j)
    BY <1>1, <1>6, <2>1
  <2> QED BY <2>2 DEF j
<1> QED BY <1>5, <1>7 DEF n

\* Digits with one point or none.
LEMMA PlainFacts ==
  ASSUME NEW A, NEW s, s \in Seq(A), IsPlain(s), NEW d, d \in Nat, Len(Part(s)) <= d
  PROVE  /\ \A k \in 1..Len(s) : IsDigit(s[k]) <=> k # Point(s)
         /\ s # <<>> /\ Unspaced(s) /\ s[1] # "-"
         /\ AllDigits(Amount(d, s)) /\ Amount(d, s) # <<>>
<1> DEFINE L == Len(s)
           p == Point(s)
           a == Amount(d, s)
           e == Len(Part(s))
<1>1. PICK x \in 1..L : IsDigit(s[x])
  BY DEF IsPlain
<1>2. /\ \A k \in 1..L : IsDigit(s[k]) \/ s[k] = "."
      /\ \A k \in 1..L : ~(IsDigit(s[k]) /\ s[k] = ".")
  BY DigitFacts DEF IsPlain
<1>3. L \in Nat
  BY LenProperties
<1>4. /\ p \in 1..(L + 1) /\ \A k \in 1..L : s[k] = "." => p <= k
      /\ e = IF p > L THEN 0 ELSE L - p
  BY CutFacts
<1>5. \A k \in 1..L : s[k] = "." <=> k = p
  <2>1. Points(s) \in SUBSET (1..L) /\ \A k \in 1..L : s[k] = "." <=> k \in Points(s)
    BY DEF Points
  <2>2. CASE Points(s) = {}
    <3>1. p = L + 1
      BY <2>2 DEF Point
    <3> HIDE DEF p, L
    <3> QED BY <1>3, <2>1, <2>2, <3>1
  <2>3. CASE Points(s) # {}
    <3>1. p \in Points(s)
      <4> HIDE DEF L
      <4> QED BY <1>3, <2>1, <2>3, LowestIsFirst DEF Point
    <3>2. \A k \in Points(s) : k = p
      BY <3>1 DEF IsPlain
    <3> QED BY <2>1, <3>1, <3>2
  <2> QED BY <2>2, <2>3
<1> HIDE DEF L, p
<1>6. \A k \in 1..L : IsDigit(s[k]) <=> k # p
  BY <1>2, <1>5
<1>7. L >= 1
  BY <1>1, <1>3
<1>8. s # <<>>
  BY <1>7, EmptySeq DEF L
<1>9. \A k \in 1..L : s[k] # " " /\ s[k] # "-"
  <2> SUFFICES ASSUME NEW k \in 1..L PROVE s[k] # " " /\ s[k] # "-"
    OBVIOUS
  <2>1. IsDigit(s[k]) \/ s[k] = "."
    BY <1>2
  <2>2. CASE IsDigit(s[k])
    BY <2>2, DigitFacts
  <2>3. CASE s[k] = "."
    BY <2>3
  <2> QED BY <2>1, <2>2, <2>3
<1>10. Unspaced(s) /\ s[1] # "-"
  <2>1. 1 \in 1..L /\ L \in 1..L
    BY <1>3, <1>7
  <2> QED BY <1>9, <2>1 DEF Unspaced, L
<1>11. /\ a \in Seq(A \cup Digits) /\ Len(a) = p - 1 + d
       /\ \A k \in 1..(p - 1) : a[k] = s[k]
       /\ \A k \in 1..d : a[p - 1 + k] = IF k <= e THEN s[p + k] ELSE "0"
  <2> HIDE DEF a, e
  <2>1. Amount(d, s) \in Seq(A \cup Digits) /\ IsAmount(Amount(d, s), d, s)
    BY AmountFacts
  <2> QED BY <2>1 DEF p, a, e, IsAmount
<1> HIDE DEF a, e
<1>12. \A k \in 1..(p - 1) : IsDigit(a[k])
  <2>1. \A k \in 1..(p - 1) : k \in 1..L /\ k # p
    BY <1>3, <1>4
  <2> QED BY <1>6, <1>11, <2>1
<1>13. \A k \in 1..d : IsDigit(a[p - 1 + k])
  <2> SUFFICES ASSUME NEW k \in 1..d PROVE IsDigit(a[p - 1 + k])
    OBVIOUS
  <2>1. CASE k <= e
    <3>1. p + k \in 1..L /\ p + k # p
      BY <1>3, <1>4, <2>1
    <3> QED BY <1>6, <1>11, <2>1, <3>1
  <2>2. CASE ~(k <= e)
    <3>1. a[p - 1 + k] = "0"
      BY <1>11, <2>2
    <3> QED BY <3>1, ZeroIsADigit, DigitFacts
  <2> QED BY <2>1, <2>2
<1>14. \A k \in 1..Len(a) : IsDigit(a[k])
  <2> SUFFICES ASSUME NEW k \in 1..(p - 1 + d) PROVE IsDigit(a[k])
    BY <1>11
  <2>1. CASE k <= p - 1
    <3>1. k \in 1..(p - 1)
      BY <1>3, <1>4, <2>1
    <3> QED BY <1>12, <3>1
  <2>2. CASE ~(k <= p - 1)
    <3> DEFINE j == k - (p - 1)
    <3>1. j \in 1..d /\ p - 1 + j = k
      BY <1>3, <1>4, <2>2
    <3> HIDE DEF j
    <3>2. IsDigit(a[p - 1 + j])
      BY <1>13, <3>1
    <3> QED BY <3>1, <3>2
  <2> QED BY <2>1, <2>2
<1>15. p - 1 + d # 0
  <2>1. x # p
    BY <1>1, <1>6
  <2>2. p = 1 => e >= 1
    BY <1>1, <1>3, <1>4, <2>1
  <2>3. p = 1 => d >= 1
    BY <1>4, <2>2 DEF e
  <2> QED BY <1>3, <1>4, <2>3
<1>16. a # <<>>
  BY <1>11, <1>15, EmptySeq
<1>17. AllDigits(a)
  BY <1>11, <1>14, <1>16, DigitsAreDigits DEF IsDigits
<1> QED BY <1>6, <1>8, <1>10, <1>16, <1>17 DEF L, p, a

\* Where the digit at k is among the digits: the point is none.
Rank(p, k) == IF k < p THEN k ELSE k - 1

Places(s)      == {k \in 1..Len(s) : IsDigit(s[k])}
Power(d, s, k) == d + Point(s) - (IF k < Point(s) THEN k + 1 ELSE k)
Worths(d, s)   == [k \in Places(s) |-> DigitOf(s[k]) * TenTo(Power(d, s, k))]

LEMMA WorthIsSum ==
  ASSUME NEW d, NEW s
  PROVE  Worth(d, s) = SumOver(Worths(d, s), Places(s))
BY DEF Worth, SumOver, MapThenSumSet, MapThenFoldSet, Worths, Places, Power

LEMMA OneDigitMore ==
  ASSUME NEW a, a \in Int, NEW c, c \in Int, NEW b, b \in Int
  PROVE  c * b + a * (10 * b) = (10 * a + c) * b
OBVIOUS

LEMMA WorthOfPlain ==
  ASSUME NEW A, NEW s, s \in Seq(A), IsPlain(s), NEW d, d \in Nat, Len(Part(s)) <= d
  PROVE  ValueOf(Amount(d, s)) = Worth(d, s)
<1> DEFINE L == Len(s)
           p == Point(s)
           t == Amount(d, s)
           n == p - 1 + d
           e == Len(Part(s))
           P == Places(s)
           W == Worths(d, s)
           Low(m) == {k \in P : k <= m}
<1>1. \A k \in 1..L : IsDigit(s[k]) <=> k # p
  BY PlainFacts
<1>2. AllDigits(t)
  BY PlainFacts
<1>3. L \in Nat
  BY LenProperties
<1>4. p \in 1..(L + 1) /\ e = IF p > L THEN 0 ELSE L - p
  BY CutFacts
<1>5. IsAmount(t, d, s)
  BY AmountFacts
<1>6. /\ Len(t) = n /\ \A k \in 1..(p - 1) : t[k] = s[k]
      /\ \A k \in 1..d : t[p - 1 + k] = IF k <= e THEN s[p + k] ELSE "0"
  <2> HIDE DEF t
  <2> QED BY <1>5 DEF IsAmount
<1>7. PICK v : IsValue(v, t) /\ ValueOf(t) = v[Len(t)]
  BY <1>2, ValueExists
<1>8. /\ v \in [0..n -> Int] /\ v[0] = 0
      /\ \A k \in 1..n : v[k] = 10 * v[k - 1] + DigitOf(t[k])
  <2> HIDE DEF t, n
  <2> QED BY <1>6, <1>7 DEF IsValue
<1>9. n \in Nat /\ p \in Nat /\ p >= 1 /\ e \in Nat /\ e <= d
  <2>1. e <= d
    OBVIOUS
  <2> HIDE DEF p, L, e
  <2> QED BY <1>3, <1>4, <2>1
<1>10. IsFiniteSet(P) /\ \A k : k \in P <=> k \in 1..L /\ k # p
  <2>1. P \in SUBSET (1..L) /\ IsFiniteSet(1..L)
    BY <1>3, FS_Interval DEF Places
  <2>2. IsFiniteSet(P)
    BY <2>1, FS_Subset
  <2> QED BY <1>1, <2>2 DEF Places
<1>11. \A k \in P : /\ W[k] = DigitOf(s[k]) * TenTo(Power(d, s, k)) /\ DigitOf(s[k]) \in Int
                    /\ Rank(p, k) \in 1..n /\ Power(d, s, k) = n - Rank(p, k)
                    /\ t[Rank(p, k)] = s[k]
  <2> SUFFICES ASSUME NEW k \in P
               PROVE  /\ W[k] = DigitOf(s[k]) * TenTo(Power(d, s, k)) /\ DigitOf(s[k]) \in Int
                      /\ Rank(p, k) \in 1..n /\ Power(d, s, k) = n - Rank(p, k)
                      /\ t[Rank(p, k)] = s[k]
    OBVIOUS
  <2>1. W[k] = DigitOf(s[k]) * TenTo(Power(d, s, k))
    BY DEF Worths
  <2>2. k \in 1..L /\ k # p
    BY <1>10
  <2>3. DigitOf(s[k]) \in Int
    <3>1. DigitOf(s[k]) \in 0..9
      BY <1>1, <2>2, DigitFacts
    <3> QED BY <3>1
  <2> HIDE DEF L, p, e, t, W, P
  <2>4. CASE k < p
    <3>1. k \in 1..(p - 1) /\ k \in 1..n /\ Rank(p, k) = k /\ d + p - (k + 1) = n - k
      BY <1>3, <1>9, <2>2, <2>4 DEF Rank
    <3>2. Power(d, s, k) = n - Rank(p, k)
      BY <2>4, <3>1 DEF Power, p
    <3> QED BY <1>6, <2>1, <2>3, <3>1, <3>2
  <2>5. CASE ~(k < p)
    <3> DEFINE j == k - p
    <3>1. /\ j \in 1..d /\ j <= e /\ p - 1 + j = k - 1 /\ p + j = k /\ k - 1 \in 1..n
          /\ Rank(p, k) = k - 1 /\ d + p - k = n - (k - 1)
      BY <1>3, <1>4, <1>9, <2>2, <2>5 DEF Rank
    <3>2. Power(d, s, k) = n - Rank(p, k)
      BY <2>5, <3>1 DEF Power, p
    <3> HIDE DEF j
    <3>3. t[k - 1] = s[k]
      BY <1>6, <3>1
    <3> QED BY <2>1, <2>3, <3>1, <3>2, <3>3
  <2> QED BY <2>4, <2>5
<1>12. AllInt(W, P)
  <2> SUFFICES ASSUME NEW k \in P PROVE W[k] \in Int
    BY DEF AllInt
  <2>1. Power(d, s, k) \in Nat
    <3>1. Rank(p, k) \in 1..n /\ Power(d, s, k) = n - Rank(p, k)
      BY <1>11
    <3> DEFINE r == Rank(p, k)
    <3>2. r \in 1..n /\ Power(d, s, k) = n - r
      BY <3>1
    <3> HIDE DEF r, n
    <3> QED BY <1>9, <3>2
  <2> DEFINE c == DigitOf(s[k])
             b == TenTo(Power(d, s, k))
  <2>2. b \in Nat \ {0}
    BY <2>1, TenToFacts
  <2>3. c \in Int /\ W[k] = c * b
    BY <1>11
  <2> HIDE DEF c, b, W
  <2> QED BY <2>2, <2>3
<1> HIDE DEF L, p, e, t, W, P, n
<1> DEFINE pos(m) == IF m < p THEN m ELSE m - 1
           Good == {m \in Nat : m <= L =>
                      SumOver(W, Low(m)) = v[pos(m)] * TenTo(n - pos(m))}
<1>13. 0 \in Good
  <2>1. Low(0) = {}
    BY <1>10
  <2>2. SumOver(W, Low(0)) = 0
    <3> HIDE DEF Low
    <3> QED BY <2>1, SumOfNothing
  <2>3. pos(0) = 0 /\ v[pos(0)] = 0
    BY <1>8, <1>9
  <2> DEFINE b == TenTo(n - pos(0))
  <2>4. b \in Int
    BY <1>9, <2>3, TenToFacts
  <2> HIDE DEF b, Low, pos
  <2>5. 0 * b = 0
    BY <2>4
  <2> QED BY <2>2, <2>3, <2>5 DEF b
<1>14. ASSUME NEW m \in Nat, m \in Good PROVE m + 1 \in Good
  <2> SUFFICES ASSUME m + 1 <= L
               PROVE  SumOver(W, Low(m + 1)) = v[pos(m + 1)] * TenTo(n - pos(m + 1))
    OBVIOUS
  <2> DEFINE k == m + 1
  <2>0. SumOver(W, Low(m)) = v[pos(m)] * TenTo(n - pos(m))
    BY <1>3, <1>14
  <2>1. CASE k = p
    <3>1. Low(k) = Low(m)
      BY <1>10, <2>1
    <3>2. pos(k) = pos(m)
      BY <2>1
    <3> HIDE DEF Low, pos
    <3> QED BY <2>0, <3>1, <3>2
  <2>2. CASE k # p
    <3>1. k \in P /\ k \in Nat
      BY <1>10, <2>2
    <3>2. k \in Low(k) /\ Low(k) \ {k} = Low(m) /\ Low(k) \subseteq P
      <4>1. k \in Low(k) /\ Low(k) \subseteq P
        BY <3>1
      <4>2. \A x \in P : x <= k /\ x # k <=> x <= m
        BY <1>10
      <4>3. \A x : x \in Low(k) \ {k} <=> x \in Low(m)
        BY <4>2
      <4> QED BY <4>1, <4>3
    <3>3. IsFiniteSet(Low(k)) /\ AllInt(W, Low(k))
      BY <1>10, <1>12, <3>2, FS_Subset DEF AllInt
    <3>4. SumOver(W, Low(k)) = W[k] + SumOver(W, Low(m))
      <4> HIDE DEF Low, k
      <4> QED BY <3>2, <3>3, SumWithout
    <3> DEFINE r == Rank(p, k)
    <3>5. r = pos(k) /\ r \in 1..n /\ r - 1 = pos(m)
      <4>1. r = pos(k)
        BY DEF Rank
      <4>2. r \in 1..n
        BY <1>11, <3>1
      <4>3. r - 1 = pos(m)
        BY <1>9, <2>2 DEF Rank
      <4> QED BY <4>1, <4>2, <4>3
    <3>6. W[k] = DigitOf(s[k]) * TenTo(n - r) /\ DigitOf(s[k]) \in Int /\ t[r] = s[k]
      BY <1>11, <3>1
    <3> HIDE DEF Low, pos, k, r
    <3>7. v[r] = 10 * v[r - 1] + DigitOf(s[k]) /\ v[r - 1] \in Int
      <4>1. r - 1 \in 0..n
        BY <1>9, <3>5
      <4> QED BY <1>8, <3>5, <3>6, <4>1
    <3>8. n - r \in Nat /\ n - (r - 1) = (n - r) + 1
      BY <1>9, <3>5
    <3> DEFINE a == v[r - 1]
               b == TenTo(n - r)
               c == DigitOf(s[k])
    <3>9. b \in Int /\ TenTo(n - (r - 1)) = 10 * b
      <4> DEFINE x == n - r
      <4>1. x \in Nat /\ n - (r - 1) = x + 1
        BY <3>8
      <4> HIDE DEF x
      <4>2. TenTo(x) \in Nat \ {0} /\ TenTo(x + 1) = 10 * TenTo(x)
        BY <4>1, TenToFacts
      <4> DEFINE y == TenTo(x)
      <4>3. y \in Int
        BY <4>2
      <4> QED BY <4>1, <4>2, <4>3 DEF x
    <3>10. a \in Int /\ c \in Int /\ v[r] = 10 * a + c
      BY <3>6, <3>7
    <3>11. SumOver(W, Low(k)) = c * b + a * (10 * b)
      BY <2>0, <3>4, <3>5, <3>6, <3>9
    <3> HIDE DEF a, b, c
    <3>12. SumOver(W, Low(k)) = v[r] * b
      BY <3>9, <3>10, <3>11, OneDigitMore
    <3>13. SumOver(W, Low(k)) = v[pos(k)] * TenTo(n - pos(k))
      BY <3>5, <3>12 DEF b
    <3> QED BY <3>13 DEF k
  <2> QED BY <2>1, <2>2
<1>15. Nat \subseteq Good
  <2> HIDE DEF Good
  <2> QED BY <1>13, <1>14, NatSetInduction
<1> DEFINE q == pos(L)
<1>16. SumOver(W, P) = v[q] * TenTo(n - q)
  <2>1. Low(L) = P
    BY <1>10
  <2>2. SumOver(W, Low(L)) = v[pos(L)] * TenTo(n - pos(L))
    <3>1. L \in Good
      BY <1>3, <1>15
    <3> HIDE DEF pos, Low
    <3> QED BY <1>3, <3>1
  <2> HIDE DEF Low, pos
  <2> QED BY <2>1, <2>2
<1>17. q = p - 1 + e /\ q \in 0..n
  BY <1>3, <1>4, <1>9 DEF n
<1>18. \A k \in (q + 1)..n : t[k] = "0"
  <2> SUFFICES ASSUME NEW k \in (q + 1)..n PROVE t[k] = "0"
    OBVIOUS
  <2> DEFINE j == k - (p - 1)
  <2>1. j \in 1..d /\ ~(j <= e) /\ p - 1 + j = k
    <3> HIDE DEF q
    <3> QED BY <1>9, <1>17 DEF n
  <2> HIDE DEF j, q
  <2>2. t[p - 1 + j] = "0"
    BY <1>6, <2>1
  <2> QED BY <2>1, <2>2
<1>19. v[n] = v[q] * TenTo(n - q)
  <2> HIDE DEF q
  <2>1. q \in 0..Len(t) /\ \A k \in (q + 1)..Len(t) : t[k] = "0"
    BY <1>6, <1>17, <1>18
  <2>2. v[Len(t)] = v[q] * TenTo(Len(t) - q)
    BY <1>2, <1>7, <2>1, ZerosBehind
  <2> QED BY <1>6, <2>2
<1>20. Worth(d, s) = SumOver(W, P)
  BY WorthIsSum DEF W, P
<1> QED BY <1>6, <1>7, <1>16, <1>19, <1>20 DEF t

\* What ParseDecimal reads from digits with one point or none is what they are
\* worth, in units of the asset.
LEMMA PlainParses ==
  ASSUME NEW A, NEW s, s \in Seq(A), IsPlain(s), NEW d, d \in Nat, Len(Part(s)) <= d
  PROVE  ParseDecimal(d, s) = Read(Worth(d, s))
<1>1. /\ s # <<>> /\ Unspaced(s) /\ s[1] # "-"
      /\ AllDigits(Amount(d, s)) /\ Amount(d, s) # <<>>
  BY PlainFacts
<1>2. ParseDecimal(d, s) = Read(ValueOf(Amount(d, s)))
  BY <1>1, ParsesTo
<1>3. ValueOf(Amount(d, s)) = Worth(d, s)
  BY WorthOfPlain
<1> QED BY <1>2, <1>3

\* It reads nothing from a longer fraction.
LEMMA LongIsUnreadable ==
  ASSUME NEW A, NEW s, s \in Seq(A), IsPlain(s), NEW d, d \in Nat, ~(Len(Part(s)) <= d)
  PROVE  ParseDecimal(d, s) = Unreadable
<1>1. Len(Part(s)) <= Len(Part(s)) /\ Len(Part(s)) \in Nat
  <2>1. Len(Part(s)) \in Nat
    BY CutFacts, LenProperties
  <2> QED BY <2>1
<1>2. s # <<>> /\ Unspaced(s) /\ s[1] # "-"
  BY <1>1, PlainFacts
<1>3. TrimSpace(s) = s
  BY <1>2, NothingToTrim
<1>4. Len(Part(s)) > d
  BY <1>1
<1> QED BY <1>2, <1>3, <1>4 DEF ParseDecimal

-----------------------------------------------------------------------------
(* Texts: showing.                                                         *)

\* The equation of Numeral, and a solution of it up to n.
NextText(f, v) ==
    IF v < 10 THEN <<Numerals[v + 1]>> ELSE Append(f[v \div 10], Numerals[(v % 10) + 1])

IsNumeral(f, n) == f \in [0..n -> Seq(Digits)] /\ \A v \in 0..n : f[v] = NextText(f, v)

LEMMA LastDigit ==
  ASSUME NEW v, v \in Nat
  PROVE  /\ v % 10 \in 0..9 /\ v \div 10 \in Nat /\ v = 10 * (v \div 10) + (v % 10)
         /\ v >= 10 => v \div 10 < v
         /\ Numerals[(v % 10) + 1] \in Digits /\ DigitOf(Numerals[(v % 10) + 1]) = v % 10
         /\ v < 10 => Numerals[v + 1] \in Digits /\ DigitOf(Numerals[v + 1]) = v
<1>1. v % 10 \in 0..9 /\ v \div 10 \in Nat /\ v = 10 * (v \div 10) + (v % 10)
  OBVIOUS
<1>2. v >= 10 => v \div 10 < v
  OBVIOUS
<1>3. \A d \in 0..9 : Numerals[d + 1] \in Digits /\ DigitOf(Numerals[d + 1]) = d
  BY DigitFacts DEF Digits
<1>4. v < 10 => v \in 0..9
  OBVIOUS
<1> QED BY <1>1, <1>2, <1>3, <1>4

LEMMA NextTextType ==
  ASSUME NEW f, NEW v, v \in Nat, v >= 10 => f[v \div 10] \in Seq(Digits)
  PROVE  NextText(f, v) \in Seq(Digits)
<1>1. CASE v < 10
  <2> DEFINE c == Numerals[v + 1]
  <2>1. c \in Digits
    BY <1>1, LastDigit
  <2> HIDE DEF c
  <2>2. <<c>> \in Seq(Digits)
    BY <2>1
  <2> QED BY <1>1, <2>2 DEF NextText, c
<1>2. CASE ~(v < 10)
  <2> DEFINE c == Numerals[(v % 10) + 1]
             s == f[v \div 10]
  <2>1. c \in Digits
    BY LastDigit
  <2>2. s \in Seq(Digits)
    BY <1>2
  <2> HIDE DEF c, s
  <2>3. Append(s, c) \in Seq(Digits)
    BY <2>1, <2>2
  <2> QED BY <1>2, <2>3 DEF NextText, c, s
<1> QED BY <1>1, <1>2

LEMMA NumeralUpTo ==
  ASSUME NEW n, n \in Nat
  PROVE  \E f : IsNumeral(f, n)
<1> DEFINE Good == {m \in Nat : \E f : IsNumeral(f, m)}
<1>1. 0 \in Good
  <2> DEFINE f == [v \in 0..0 |-> NextText(<<>>, v)]
  <2>1. \A v \in 0..0 : v = 0 /\ v < 10 /\ v \in Nat
    OBVIOUS
  <2>2. \A v \in 0..0 : NextText(<<>>, v) \in Seq(Digits)
    BY <2>1, NextTextType
  <2>3. \A v \in 0..0 : NextText(<<>>, v) = NextText(f, v)
    BY <2>1 DEF NextText
  <2>4. IsNumeral(f, 0)
    BY <2>2, <2>3 DEF IsNumeral
  <2> QED BY <2>4
<1>2. ASSUME NEW m \in Nat, m \in Good PROVE m + 1 \in Good
  <2> PICK f : IsNumeral(f, m)
    BY <1>2
  <2>1. f \in [0..m -> Seq(Digits)] /\ \A v \in 0..m : f[v] = NextText(f, v)
    BY DEF IsNumeral
  <2> DEFINE g == [v \in 0..(m + 1) |-> IF v <= m THEN f[v] ELSE NextText(f, v)]
  <2>2. \A v \in 0..(m + 1) : v \in Nat /\ (v >= 10 => v \div 10 \in 0..m)
    BY LastDigit
  <2>3. \A v \in 0..m : v \in 0..(m + 1) /\ g[v] = f[v]
    OBVIOUS
  <2>4. \A v \in 0..(m + 1) : NextText(f, v) = NextText(g, v)
    <3> HIDE DEF g
    <3>1. \A v \in 0..(m + 1) : v < 10 \/ f[v \div 10] = g[v \div 10]
      BY <2>2, <2>3
    <3> QED BY <3>1 DEF NextText
  <2>5. \A v \in 0..(m + 1) : NextText(f, v) \in Seq(Digits)
    <3>1. \A v \in 0..(m + 1) : v >= 10 => f[v \div 10] \in Seq(Digits)
      BY <2>1, <2>2
    <3> QED BY <2>2, <3>1, NextTextType
  <2>6. \A v \in 0..(m + 1) : g[v] = NextText(f, v)
    BY <2>1
  <2>7. g \in [0..(m + 1) -> Seq(Digits)]
    <3>1. \A v \in 0..(m + 1) : g[v] \in Seq(Digits)
      <4> HIDE DEF g
      <4> QED BY <2>5, <2>6
    <3> QED BY <3>1
  <2>8. IsNumeral(g, m + 1)
    <3> HIDE DEF g
    <3> QED BY <2>4, <2>6, <2>7 DEF IsNumeral
  <2> QED BY <2>8
<1>3. Nat \subseteq Good
  <2> HIDE DEF Good
  <2> QED BY <1>1, <1>2, NatSetInduction
<1> QED BY <1>3

LEMMA NumeralsAgree ==
  ASSUME NEW n, n \in Nat, NEW m, m \in Nat, NEW f, IsNumeral(f, n), NEW g, IsNumeral(g, m)
  PROVE  \A v \in Nat : v <= n /\ v <= m => f[v] = g[v]
<1> DEFINE Good == {k \in Nat : \A v \in 0..k : v <= n /\ v <= m => f[v] = g[v]}
<1>1. ASSUME NEW v \in Nat, v <= n, v <= m, v >= 10 => f[v \div 10] = g[v \div 10]
      PROVE  f[v] = g[v]
  <2>1. f[v] = NextText(f, v) /\ g[v] = NextText(g, v)
    BY <1>1 DEF IsNumeral
  <2> QED BY <1>1, <2>1 DEF NextText
<1>2. 0 \in Good
  <2>1. f[0] = g[0]
    BY <1>1
  <2> QED BY <2>1
<1>3. ASSUME NEW k \in Nat, k \in Good PROVE k + 1 \in Good
  <2> SUFFICES ASSUME NEW v \in 0..(k + 1), v <= n, v <= m PROVE f[v] = g[v]
    OBVIOUS
  <2>1. v >= 10 => v \div 10 \in 0..k /\ v \div 10 <= n /\ v \div 10 <= m
    BY LastDigit
  <2>2. v >= 10 => f[v \div 10] = g[v \div 10]
    BY <1>3, <2>1
  <2> QED BY <1>1, <2>2
<1>4. Nat \subseteq Good
  <2> HIDE DEF Good
  <2> QED BY <1>2, <1>3, NatSetInduction
<1> QED BY <1>4

\* There is a function Numeral speaks of.
Numbers(f) ==
    f = [v \in Nat |-> IF v < 10 THEN <<Numerals[v + 1]>>
                       ELSE Append(f[v \div 10], Numerals[(v % 10) + 1])]

LEMMA NumbersExist == \E f : Numbers(f)
<1> DEFINE h == [n \in Nat |-> CHOOSE f : IsNumeral(f, n)]
           t == [v \in Nat |-> h[v][v]]
<1>1. \A n \in Nat : IsNumeral(h[n], n)
  BY NumeralUpTo
<1> HIDE DEF h
<1>2. ASSUME NEW v \in Nat PROVE t[v] = NextText(t, v)
  <2>1. v >= 10 => v \div 10 \in Nat /\ v \div 10 <= v
    BY LastDigit
  <2>2. v >= 10 => h[v][v \div 10] = h[v \div 10][v \div 10]
    <3> SUFFICES ASSUME v >= 10 PROVE h[v][v \div 10] = h[v \div 10][v \div 10]
      OBVIOUS
    <3> DEFINE w == v \div 10
    <3>1. w \in Nat /\ w <= v /\ w <= w
      BY <2>1
    <3> HIDE DEF w
    <3>2. IsNumeral(h[v], v) /\ IsNumeral(h[w], w)
      BY <1>1, <3>1
    <3>3. h[v][w] = h[w][w]
      BY <3>1, <3>2, NumeralsAgree
    <3> QED BY <3>3 DEF w
  <2>3. h[v][v] = NextText(h[v], v)
    <3>1. v \in 0..v
      OBVIOUS
    <3> QED BY <1>1, <3>1 DEF IsNumeral
  <2>4. NextText(h[v], v) = NextText(t, v)
    <3>1. v >= 10 => t[v \div 10] = h[v][v \div 10]
      BY <2>1, <2>2
    <3> HIDE DEF t
    <3> QED BY <3>1 DEF NextText
  <2>5. t[v] = h[v][v]
    OBVIOUS
  <2> HIDE DEF t
  <2> QED BY <2>3, <2>4, <2>5
<1>3. t = [v \in Nat |-> t[v]]
  OBVIOUS
<1> HIDE DEF t
<1>4. t = [v \in Nat |-> NextText(t, v)]
  BY <1>2, <1>3
<1>5. Numbers(t)
  BY <1>4 DEF Numbers, NextText
<1> QED BY <1>5

\* The value of what is written is the number it was written for.
LEMMA NumeralFacts ==
  ASSUME NEW u, u \in Nat
  PROVE  AllDigits(Numeral(u)) /\ Numeral(u) # <<>> /\ ValueOf(Numeral(u)) = u
<1> DEFINE t == CHOOSE f : Numbers(f)
<1>1. Numbers(t)
  BY NumbersExist
<1>2. Numeral(u) = t[u]
  BY DEF Numeral, Numbers
<1> HIDE DEF t
<1>3. \A v \in Nat : t[v] = NextText(t, v)
  BY <1>1 DEF Numbers, NextText
<1> DEFINE Right(v) == AllDigits(t[v]) /\ t[v] # <<>> /\ ValueOf(t[v]) = v
           Good == {k \in Nat : \A v \in 0..k : Right(v)}
<1>4. ASSUME NEW v \in Nat, v >= 10 => Right(v \div 10) PROVE Right(v)
  <2>1. CASE v < 10
    <3> DEFINE c == Numerals[v + 1]
    <3>1. c \in Digits /\ DigitOf(c) = v
      BY <2>1, LastDigit
    <3>2. t[v] = <<c>>
      BY <1>3, <2>1 DEF NextText
    <3> HIDE DEF c
    <3>3. AllDigits(<<>>)
      BY EmptySeq DEF AllDigits
    <3>4. ValueOf(<<>>) = 0
      <4>1. PICK w : IsValue(w, <<>>) /\ ValueOf(<<>>) = w[Len(<<>>)]
        BY <3>3, ValueExists
      <4>2. Len(<<>>) = 0
        BY EmptySeq
      <4> QED BY <4>1, <4>2 DEF IsValue
    <3>5. AllDigits(Append(<<>>, c)) /\ ValueOf(Append(<<>>, c)) = 10 * ValueOf(<<>>) + DigitOf(c)
      BY <3>1, <3>3, ValueOfAppend
    <3>6. Append(<<>>, c) = <<c>> /\ <<c>> # <<>>
      OBVIOUS
    <3>7. ValueOf(<<c>>) = v
      BY <3>1, <3>4, <3>5, <3>6
    <3> QED BY <3>2, <3>5, <3>6, <3>7
  <2>2. CASE ~(v < 10)
    <3> DEFINE c == Numerals[(v % 10) + 1]
               s == t[v \div 10]
    <3>1. c \in Digits /\ DigitOf(c) = v % 10
      BY LastDigit
    <3>2. t[v] = Append(s, c)
      BY <1>3, <2>2 DEF NextText
    <3>3. AllDigits(s) /\ ValueOf(s) = v \div 10
      BY <1>4, <2>2
    <3> HIDE DEF c, s
    <3>4. AllDigits(Append(s, c)) /\ ValueOf(Append(s, c)) = 10 * ValueOf(s) + DigitOf(c)
      BY <3>1, <3>3, ValueOfAppend
    <3>5. Append(s, c) # <<>>
      BY <3>3 DEF AllDigits
    <3>6. ValueOf(Append(s, c)) = v
      BY <3>1, <3>3, <3>4, LastDigit
    <3> QED BY <3>2, <3>4, <3>5, <3>6
  <2> QED BY <2>1, <2>2
<1>5. 0 \in Good
  <2>1. Right(0)
    <3> HIDE DEF Right
    <3> QED BY <1>4
  <2> HIDE DEF Right
  <2> QED BY <2>1
<1>6. ASSUME NEW k \in Nat, k \in Good PROVE k + 1 \in Good
  <2> SUFFICES ASSUME NEW v \in 0..(k + 1) PROVE Right(v)
    OBVIOUS
  <2> HIDE DEF Right
  <2>1. v >= 10 => v \div 10 \in 0..k
    BY LastDigit
  <2>2. v >= 10 => Right(v \div 10)
    BY <1>6, <2>1
  <2> QED BY <1>4, <2>2
<1>7. Nat \subseteq Good
  <2> HIDE DEF Good
  <2> QED BY <1>5, <1>6, NatSetInduction
<1>8. Right(u)
  BY <1>7
<1> QED BY <1>2, <1>8

\* Zeros in front of a number change nothing.
LEMMA ZerosInFront ==
  ASSUME NEW n, AllDigits(n), NEW z, z \in Nat
  PROVE  /\ AllDigits(Zeros(z) \o n) /\ Len(Zeros(z) \o n) = z + Len(n)
         /\ ValueOf(Zeros(z) \o n) = ValueOf(n)
<1> DEFINE o == Zeros(z)
           t == o \o n
           L == Len(n)
<1>1. o \in Seq(Digits) /\ Len(o) = z /\ \A k \in 1..z : o[k] = "0"
  BY ZeroIsADigit DEF Zeros
<1>2. n \in Seq(Digits) /\ L \in Nat
  BY LenProperties DEF AllDigits
<1> HIDE DEF o, L
<1>3. /\ t \in Seq(Digits) /\ Len(t) = z + L
      /\ \A i \in 1..(z + L) : t[i] = IF i <= z THEN o[i] ELSE n[i - z]
  <2>1. /\ o \o n \in Seq(Digits) /\ Len(o \o n) = Len(o) + Len(n)
        /\ \A i \in 1..(Len(o) + Len(n)) :
              (o \o n)[i] = IF i <= Len(o) THEN o[i] ELSE n[i - Len(o)]
    BY <1>1, <1>2, ConcatProperties
  <2> HIDE DEF t
  <2> QED BY <1>1, <2>1 DEF t, L
<1> HIDE DEF t
<1>4. AllDigits(t)
  BY <1>3 DEF AllDigits
<1>5. PICK v : IsValue(v, t) /\ ValueOf(t) = v[Len(t)]
  BY <1>4, ValueExists
<1>6. /\ v \in [0..(z + L) -> Int] /\ v[0] = 0
      /\ \A k \in 1..(z + L) : v[k] = 10 * v[k - 1] + DigitOf(t[k])
  BY <1>3, <1>5 DEF IsValue
<1> DEFINE Good == {k \in Nat : k <= z => v[k] = 0}
<1>7. 0 \in Good
  BY <1>6
<1>8. ASSUME NEW k \in Nat, k \in Good PROVE k + 1 \in Good
  <2> SUFFICES ASSUME k + 1 <= z PROVE v[k + 1] = 0
    OBVIOUS
  <2>1. v[k] = 0
    BY <1>8
  <2>2. k + 1 \in 1..(z + L) /\ k + 1 \in 1..z /\ (k + 1) - 1 = k
    BY <1>2
  <2>3. DigitOf(t[k + 1]) = 0
    BY <1>1, <1>3, <2>2, ZeroIsADigit
  <2> QED BY <1>6, <2>1, <2>2, <2>3
<1>9. v[z] = 0
  <2> HIDE DEF Good
  <2>1. z \in Good
    BY <1>7, <1>8, NatSetInduction
  <2> QED BY <2>1 DEF Good
<1> DEFINE w == [k \in 0..L |-> v[z + k]]
<1>10. IsValue(w, n)
  <2>1. w \in [0..L -> Int] /\ w[0] = 0
    <3>1. \A k \in 0..L : z + k \in 0..(z + L)
      BY <1>2
    <3>2. z + 0 = z /\ 0 \in 0..L
      BY <1>2
    <3> QED BY <1>6, <1>9, <3>1, <3>2
  <2>2. ASSUME NEW k \in 1..L PROVE w[k] = 10 * w[k - 1] + DigitOf(n[k])
    <3>1. /\ z + k \in 1..(z + L) /\ (z + k) - 1 = z + (k - 1) /\ (z + k) - z = k
          /\ ~(z + k <= z) /\ k \in 0..L /\ k - 1 \in 0..L
      BY <1>2
    <3>2. w[k] = v[z + k] /\ w[k - 1] = v[z + (k - 1)]
      BY <3>1
    <3> HIDE DEF w
    <3>3. t[z + k] = n[k]
      BY <1>3, <3>1
    <3>4. v[z + k] = 10 * v[(z + k) - 1] + DigitOf(t[z + k])
      BY <1>6, <3>1
    <3> QED BY <3>1, <3>2, <3>3, <3>4
  <2> HIDE DEF w
  <2> QED BY <2>1, <2>2 DEF IsValue, L
<1>11. ValueOf(n) = w[L]
  <2> HIDE DEF w
  <2> QED BY <1>10, ValuesAgree DEF L
<1>12. w[L] = v[z + L]
  BY <1>2
<1> HIDE DEF w
<1> QED BY <1>3, <1>4, <1>5, <1>11, <1>12 DEF t, o, L

\* The digits of a number, enough of them for a point, and the point.
Padded(d, u) ==
    LET n == Numeral(u)
    IN IF Len(n) > d THEN n ELSE Zeros(d - Len(n) + 1) \o n

Pointed(d, s) ==
    IF d = 0 THEN s
    ELSE SubSeq(s, 1, PointAt(Len(s), d)) \o <<".">> \o SubSeq(s, PointAt(Len(s), d) + 1, Len(s))

LEMMA ShownIsPointed ==
  ASSUME NEW d, NEW u
  PROVE  Shown(d, u) = IF u < 0 THEN <<"-">> \o Pointed(d, Padded(d, -u))
                       ELSE Pointed(d, Padded(d, u))
<1>1. CASE u < 0
  BY <1>1 DEF Shown, Pointed, Padded
<1>2. CASE ~(u < 0)
  BY <1>2 DEF Shown, Pointed, Padded
<1> QED BY <1>1, <1>2

LEMMA PaddedFacts ==
  ASSUME NEW d, d \in Nat, NEW u, u \in Nat
  PROVE  AllDigits(Padded(d, u)) /\ Len(Padded(d, u)) > d /\ ValueOf(Padded(d, u)) = u
<1> DEFINE n == Numeral(u)
<1>1. AllDigits(n) /\ n # <<>> /\ ValueOf(n) = u
  BY NumeralFacts
<1> HIDE DEF n
<1>2. Len(n) \in Nat
  BY <1>1, LenProperties DEF AllDigits
<1>3. CASE Len(n) > d
  <2>1. Padded(d, u) = n
    BY <1>3 DEF Padded, n
  <2> QED BY <1>1, <1>3, <2>1
<1>4. CASE ~(Len(n) > d)
  <2> DEFINE z == d - Len(n) + 1
  <2>1. z \in Nat /\ z + Len(n) > d
    BY <1>2, <1>4
  <2>2. Padded(d, u) = Zeros(z) \o n
    BY <1>4 DEF Padded, n
  <2> HIDE DEF z
  <2>3. /\ AllDigits(Zeros(z) \o n) /\ Len(Zeros(z) \o n) = z + Len(n)
        /\ ValueOf(Zeros(z) \o n) = ValueOf(n)
    BY <1>1, <2>1, ZerosInFront
  <2> QED BY <1>1, <2>1, <2>2, <2>3
<1> QED BY <1>3, <1>4

Written == Digits \cup {"."}

\* Where the point is put, and what is around it.
IsPointed(o, d, s) ==
    /\ o \in Seq(Written) /\ Len(o) = IF d = 0 THEN Len(s) ELSE Len(s) + 1
    /\ \A k \in 1..(Len(s) - d) : o[k] = s[k]
    /\ d # 0 => o[Len(s) - d + 1] = "."
    /\ \A k \in 1..d : o[Len(s) - d + 1 + k] = s[Len(s) - d + k]

LEMMA PointedFacts ==
  ASSUME NEW d, d \in Nat, NEW s, AllDigits(s), Len(s) > d
  PROVE  IsPointed(Pointed(d, s), d, s)
<1> DEFINE L == Len(s)
           at == L - d
<1>1. s \in Seq(Digits) /\ L \in Nat /\ \A k \in 1..L : s[k] \in Digits
  BY LenProperties, ElementOfSeq DEF AllDigits
<1>2. s \in Seq(Written) /\ <<".">> \in Seq(Written)
  <2>1. s \in Seq(Written)
    BY <1>1, SeqMonotonic DEF Written
  <2>2. "." \in Written
    BY DEF Written
  <2> HIDE DEF Written
  <2>3. <<".">> \in Seq(Written)
    BY <2>2
  <2> QED BY <2>1, <2>3
<1> HIDE DEF L
<1>3. at \in Nat /\ at >= 1 /\ at <= L /\ at + d = L
  BY <1>1 DEF L
<1>4. CASE d = 0
  <2>1. Pointed(d, s) = s
    BY <1>4 DEF Pointed
  <2>2. IsPointed(s, d, s)
    BY <1>2, <1>4 DEF IsPointed
  <2> QED BY <2>1, <2>2
<1>5. CASE d # 0
  <2> DEFINE w == SubSeq(s, 1, at)
             f == SubSeq(s, at + 1, L)
             m == <<".">>
             x == w \o m
             o == x \o f
  <2>1. Pointed(d, s) = o
    BY <1>5 DEF Pointed, PointAt, L
  <2> HIDE DEF at
  <2>2. w \in Seq(Written) /\ Len(w) = at /\ \A k \in 1..at : w[k] = s[k]
    <3>1. \A k \in 1..at : s[k] \in Written
      BY <1>1, <1>3 DEF Written
    <3>2. /\ w \in Seq(Written) /\ Len(w) = IF 1 <= at THEN at - 1 + 1 ELSE 0
          /\ \A i \in 1..(at - 1 + 1) : w[i] = s[1 + i - 1]
      BY <1>3, <3>1, SubSeqProperties
    <3>3. at - 1 + 1 = at /\ \A i \in 1..at : 1 + i - 1 = i
      BY <1>3
    <3> HIDE DEF w
    <3> QED BY <1>3, <3>2, <3>3
  <2>3. f \in Seq(Written) /\ Len(f) = d /\ \A k \in 1..d : f[k] = s[at + k]
    <3>1. \A k \in (at + 1)..L : s[k] \in Written
      BY <1>1, <1>3 DEF Written
    <3>2. /\ f \in Seq(Written) /\ Len(f) = IF at + 1 <= L THEN L - (at + 1) + 1 ELSE 0
          /\ \A i \in 1..(L - (at + 1) + 1) : f[i] = s[at + 1 + i - 1]
      BY <1>1, <1>3, <3>1, SubSeqProperties
    <3>3. L - (at + 1) + 1 = d /\ at + 1 <= L /\ \A i \in 1..d : at + 1 + i - 1 = at + i
      BY <1>3, <1>5
    <3> HIDE DEF f
    <3> QED BY <3>2, <3>3
  <2>4. m \in Seq(Written) /\ Len(m) = 1 /\ m[1] = "."
    BY <1>2
  <2> HIDE DEF w, f, m
  <2>5. /\ x \in Seq(Written) /\ Len(x) = at + 1
        /\ \A i \in 1..(at + 1) : x[i] = IF i <= at THEN w[i] ELSE m[i - at]
    <3>1. /\ w \o m \in Seq(Written) /\ Len(w \o m) = Len(w) + Len(m)
          /\ \A i \in 1..(Len(w) + Len(m)) :
                (w \o m)[i] = IF i <= Len(w) THEN w[i] ELSE m[i - Len(w)]
      BY <2>2, <2>4, ConcatProperties
    <3> HIDE DEF x
    <3> QED BY <2>2, <2>4, <3>1 DEF x
  <2> HIDE DEF x
  <2>6. /\ o \in Seq(Written) /\ Len(o) = at + 1 + d
        /\ \A i \in 1..(at + 1 + d) : o[i] = IF i <= at + 1 THEN x[i] ELSE f[i - (at + 1)]
    <3>1. /\ x \o f \in Seq(Written) /\ Len(x \o f) = Len(x) + Len(f)
          /\ \A i \in 1..(Len(x) + Len(f)) :
                (x \o f)[i] = IF i <= Len(x) THEN x[i] ELSE f[i - Len(x)]
      BY <2>3, <2>5, ConcatProperties
    <3> HIDE DEF o
    <3> QED BY <2>3, <2>5, <3>1 DEF o
  <2> HIDE DEF o
  <2>7. \A k \in 1..at : o[k] = s[k]
    <3>1. \A k \in 1..at : k \in 1..(at + 1) /\ k \in 1..(at + 1 + d) /\ k <= at + 1 /\ k <= at
      BY <1>3
    <3> QED BY <2>2, <2>5, <2>6, <3>1
  <2>8. o[at + 1] = "."
    <3>1. /\ at + 1 \in 1..(at + 1) /\ at + 1 \in 1..(at + 1 + d) /\ ~(at + 1 <= at)
          /\ (at + 1) - at = 1 /\ at + 1 <= at + 1
      BY <1>3
    <3> QED BY <2>4, <2>5, <2>6, <3>1
  <2>9. \A k \in 1..d : o[at + 1 + k] = s[at + k]
    <3>1. \A k \in 1..d : /\ at + 1 + k \in 1..(at + 1 + d) /\ ~(at + 1 + k <= at + 1)
                          /\ (at + 1 + k) - (at + 1) = k
      BY <1>3
    <3> QED BY <2>3, <2>6, <3>1
  <2>10. at + 1 + d = L + 1
    BY <1>3
  <2>11. IsPointed(o, d, s)
    <3>1. at = Len(s) - d /\ Len(o) = Len(s) + 1
      BY <2>6, <2>10 DEF at, L
    <3> QED BY <1>5, <2>6, <2>7, <2>8, <2>9, <3>1 DEF IsPointed
  <2> QED BY <2>1, <2>11
<1> QED BY <1>4, <1>5

LEMMA NoPointAmongDigits ==
  ASSUME NEW s, AllDigits(s)
  PROVE  \A k \in 1..Len(s) : s[k] # "." /\ s[k] # "-" /\ s[k] # " "
<1>1. \A k \in 1..Len(s) : IsDigit(s[k])
  BY ElementOfSeq, DigitFacts DEF AllDigits
<1> QED BY <1>1, DigitFacts

\* The point is found where it was put, and what is around it are the digits.
LEMMA PointedIsRead ==
  ASSUME NEW d, d \in Nat, NEW s, AllDigits(s), Len(s) > d, NEW o, IsPointed(o, d, s)
  PROVE  /\ o # <<>> /\ Unspaced(o) /\ o[1] # "-"
         /\ Len(Part(o)) = d /\ Amount(d, o) = s
<1> DEFINE L == Len(s)
           M == Len(o)
           p == Point(o)
           at == L - d
           a == Amount(d, o)
<1>1. s \in Seq(Digits) /\ L \in Nat
  BY LenProperties DEF AllDigits
<1>2. \A k \in 1..L : s[k] # "." /\ s[k] # "-" /\ s[k] # " "
  BY NoPointAmongDigits
<1> HIDE DEF L
<1>3. at \in Nat /\ at >= 1 /\ at <= L /\ at + d = L
  BY <1>1 DEF L
<1>4. /\ o \in Seq(Written) /\ M = IF d = 0 THEN L ELSE L + 1
      /\ \A k \in 1..at : o[k] = s[k]
      /\ d # 0 => o[at + 1] = "."
      /\ \A k \in 1..d : o[at + 1 + k] = s[at + k]
  BY DEF IsPointed, L
<1> HIDE DEF at, M
<1>5. \A k \in 1..at : o[k] # "." /\ o[k] # "-" /\ o[k] # " "
  <2>1. \A k \in 1..at : k \in 1..L
    BY <1>3
  <2> QED BY <1>2, <1>4, <2>1
<1>6. p \in 1..(M + 1) /\ \A k \in 1..M : o[k] = "." => p <= k
  BY <1>4, CutFacts DEF M
<1>7. p <= M => o[p] = "."
  <2>1. CASE Points(o) = {}
    <3>1. p = M + 1
      BY <2>1 DEF Point, M
    <3> HIDE DEF p
    <3> QED BY <1>1, <1>3, <1>4, <3>1
  <2>2. CASE Points(o) # {}
    <3>1. Points(o) \in SUBSET (1..M) /\ M \in Nat
      BY <1>4, LenProperties DEF Points, M
    <3>2. p \in Points(o)
      BY <2>2, <3>1, LowestIsFirst DEF Point
    <3> QED BY <3>2 DEF Points
  <2> QED BY <2>1, <2>2
<1> HIDE DEF p, a
<1>8. p = at + 1
  <2>1. ~(p \in 1..at)
    <3>1. p \in 1..at => p <= M
      BY <1>3, <1>4
    <3> QED BY <1>5, <1>7, <3>1
  <2>2. d # 0 => p <= at + 1
    <3>1. d # 0 => at + 1 \in 1..M
      BY <1>3, <1>4
    <3> QED BY <1>4, <1>6, <3>1
  <2>3. d = 0 => p <= at + 1
    BY <1>3, <1>4, <1>6
  <2>4. p \in Int /\ p >= 1
    BY <1>3, <1>4, <1>6
  <2> QED BY <1>3, <2>1, <2>2, <2>3, <2>4
<1>9. Len(Part(o)) = d
  <2>1. Len(Part(o)) = IF p > M THEN 0 ELSE M - p
    BY <1>4, CutFacts DEF M, p
  <2> QED BY <1>3, <1>4, <1>8, <2>1
<1>10. a \in Seq(Written \cup Digits) /\ IsAmount(a, d, o)
  <2>1. Len(Part(o)) <= d
    BY <1>9
  <2> QED BY <1>4, <2>1, AmountFacts DEF a
<1>11. /\ Len(a) = p - 1 + d
       /\ \A k \in 1..(p - 1) : a[k] = o[k]
       /\ \A k \in 1..d : a[p - 1 + k] = IF k <= d THEN o[p + k] ELSE "0"
  BY <1>9, <1>10 DEF IsAmount, p
<1>12. a = s
  <2>1. s \in Seq(Written \cup Digits)
    BY <1>1, SeqMonotonic
  <2>2. Len(a) = L
    BY <1>3, <1>8, <1>11
  <2>3. \A k \in 1..L : a[k] = s[k]
    <3> SUFFICES ASSUME NEW k \in 1..L PROVE a[k] = s[k]
      OBVIOUS
    <3>1. CASE k <= at
      <4>1. k \in 1..at /\ k \in 1..(p - 1)
        BY <1>3, <1>8, <3>1
      <4> QED BY <1>4, <1>11, <4>1
    <3>2. CASE ~(k <= at)
      <4> DEFINE j == k - at
      <4>1. j \in 1..d /\ j <= d /\ p - 1 + j = k /\ p + j = at + 1 + j /\ at + j = k
        BY <1>3, <1>8, <3>2
      <4> HIDE DEF j
      <4>2. a[k] = o[at + 1 + j]
        BY <1>11, <4>1
      <4> QED BY <1>4, <4>1, <4>2
    <3> QED BY <3>1, <3>2
  <2> QED BY <1>10, <2>1, <2>2, <2>3, SeqEqual DEF L
<1>13. o[M] # " "
  <2>1. CASE d = 0
    <3>1. M \in 1..at
      BY <1>3, <1>4, <2>1
    <3> QED BY <1>5, <3>1
  <2>2. CASE d # 0
    <3>1. d \in 1..d /\ at + 1 + d = M /\ at + d \in 1..L
      BY <1>3, <1>4, <2>2
    <3>2. o[M] = s[at + d]
      BY <1>4, <3>1
    <3> QED BY <1>2, <3>1, <3>2
  <2> QED BY <2>1, <2>2
<1>14. Unspaced(o) /\ o[1] # "-"
  <2>1. 1 \in 1..at
    BY <1>3
  <2>2. o[1] # " " /\ o[1] # "-"
    BY <1>5, <2>1
  <2> QED BY <1>13, <2>2 DEF Unspaced, M
<1>15. o # <<>>
  <2>1. M # 0
    BY <1>3, <1>4
  <2> QED BY <2>1, EmptySeq DEF M
<1> QED BY <1>9, <1>12, <1>14, <1>15 DEF a

\* What is shown reads back as the number of units it was shown for.
LEMMA ShownIsRead ==
  ASSUME NEW d, d \in Nat, NEW u, u \in Int
  PROVE  ParseDecimal(d, Shown(d, u)) = Read(u)
<1>1. ASSUME NEW w \in Nat
      PROVE  /\ ParseDecimal(d, Pointed(d, Padded(d, w))) = Read(w)
             /\ ParseDecimal(d, <<"-">> \o Pointed(d, Padded(d, w))) = Read(-w)
  <2> DEFINE s == Padded(d, w)
             o == Pointed(d, s)
  <2>1. AllDigits(s) /\ Len(s) > d /\ ValueOf(s) = w
    BY PaddedFacts
  <2> HIDE DEF s
  <2>2. IsPointed(o, d, s)
    BY <2>1, PointedFacts
  <2> HIDE DEF o
  <2>3. /\ o # <<>> /\ Unspaced(o) /\ o[1] # "-"
        /\ Len(Part(o)) = d /\ Amount(d, o) = s
    BY <2>1, <2>2, PointedIsRead
  <2>4. o \in Seq(Written)
    BY <2>2 DEF IsPointed
  <2>5. s # <<>>
    <3>1. Len(s) # 0
      <4>1. Len(s) \in Nat
        BY <2>1, LenProperties DEF AllDigits
      <4> QED BY <2>1, <4>1
    <3> QED BY <3>1, EmptySeq
  <2>6. AllDigits(Amount(d, o)) /\ Amount(d, o) # <<>> /\ ValueOf(Amount(d, o)) = w
    BY <2>1, <2>3, <2>5
  <2>7. Len(Part(o)) <= d
    BY <2>3
  <2>8. ParseDecimal(d, o) = Read(ValueOf(Amount(d, o)))
    BY <2>3, <2>4, <2>6, <2>7, ParsesTo
  <2>9. ParseDecimal(d, <<"-">> \o o) = Read(-ValueOf(Amount(d, o)))
    BY <2>3, <2>4, <2>6, <2>7, ParsesToMinus
  <2> QED BY <2>6, <2>8, <2>9 DEF o, s
<1>2. CASE u < 0
  <2>1. -u \in Nat /\ -(-u) = u
    BY <1>2
  <2>2. ParseDecimal(d, <<"-">> \o Pointed(d, Padded(d, -u))) = Read(-(-u))
    <3> DEFINE w == -u
    <3>1. w \in Nat
      BY <2>1
    <3> HIDE DEF w
    <3>2. ParseDecimal(d, <<"-">> \o Pointed(d, Padded(d, w))) = Read(-w)
      BY <1>1, <3>1
    <3> QED BY <3>2 DEF w
  <2>3. Shown(d, u) = <<"-">> \o Pointed(d, Padded(d, -u))
    BY <1>2, ShownIsPointed
  <2> QED BY <2>1, <2>2, <2>3
<1>3. CASE ~(u < 0)
  <2>1. u \in Nat
    BY <1>3
  <2>2. Shown(d, u) = Pointed(d, Padded(d, u))
    BY <1>3, ShownIsPointed
  <2> QED BY <1>1, <2>1, <2>2
<1> QED BY <1>2, <1>3

-----------------------------------------------------------------------------
(* Types.                                                                  *)

Rows ==
    /\ Len(invoices) <= MaxInvoices
    /\ status \in Seq(Statuses) /\ Len(status) = Len(invoices)
    /\ ledger \in Seq(Observation) /\ Len(ledger) = Len(invoices)
    /\ overdue \subseteq DOMAIN invoices

ProcessTyped ==
    /\ phase \in {"starting", "serving", "failed"}
    /\ DOMAIN keys \subseteq KeyText /\ \A t \in DOMAIN keys : keys[t] \in [sandbox: BOOLEAN]

\* What was asked for is what the units were read from.
AskedIsRead ==
    \A i \in DOMAIN invoices :
        invoices[i].asked # NoText =>
            ParseDecimal(Decimals[invoices[i].asset], invoices[i].asked) = Read(invoices[i].units)

TInv == Rows /\ ProcessTyped /\ reply \in Reply /\ AskedIsRead

LEMMA SeqDomain ==
  ASSUME NEW S, NEW s, s \in Seq(S)
  PROVE  Len(s) \in Nat /\ DOMAIN s = 1..Len(s) /\ \A i \in DOMAIN s : s[i] \in S
BY LenProperties, ElementOfSeq

LEMMA TypesFollow ==
  ASSUME GInv, Agreed, TInv
  PROVE  TypeOK
<1>1. DOMAIN status = DOMAIN invoices /\ DOMAIN ledger = DOMAIN invoices
  <2>1. invoices \in Seq(Invoice) /\ status \in Seq(Statuses) /\ ledger \in Seq(Observation)
    BY DEF Agreed, TInv, Rows
  <2>2. DOMAIN invoices = 1..Len(invoices) /\ DOMAIN status = 1..Len(status)
        /\ DOMAIN ledger = 1..Len(ledger)
    BY <2>1, LenProperties
  <2>3. Len(status) = Len(invoices) /\ Len(ledger) = Len(invoices)
    BY DEF TInv, Rows
  <2> QED BY <2>2, <2>3
<1> QED BY <1>1 DEF TypeOK, GInv, KeysAreOfThisStart, Agreed, TInv, Rows, ProcessTyped

LEMMA DecideType ==
  ASSUME NEW obs, obs \in Observation, NEW amount, amount \in Int,
         NEW required, required \in Int, NEW expired
  PROVE  Decide(obs, amount, required, expired) \in Statuses
<1>1. obs.received \in Int /\ obs.confs \in Int
  BY DEF Observation
<1>2. CASE Unfunded(obs)
  BY <1>2 DEF Decide, Statuses
<1>3. CASE ~Unfunded(obs) /\ obs.received < amount
  BY <1>1, <1>3 DEF Decide, Statuses
<1>4. CASE ~Unfunded(obs) /\ obs.received >= amount
  BY <1>1, <1>4 DEF Decide, Statuses
<1> QED BY <1>1, <1>2, <1>3, <1>4

\* An answer with no payment in it.
LEMMA AnswerType ==
  ASSUME NEW h, h \in Headers \cup {Nobody},
         NEW code, code \in {0, 200, 201, 400, 401, 403, 404, 500}
  PROVE  Answer(h, code) \in Reply
BY DEF Answer, Reply

LEMMA NoReplyType == NoReply \in Reply
BY AnswerType DEF NoReply

LEMMA InitTInv == Init => TInv
<1> SUFFICES ASSUME Init PROVE TInv
  OBVIOUS
<1>1. /\ phase = "starting" /\ keys = <<>> /\ invoices = <<>> /\ status = <<>>
      /\ ledger = <<>> /\ overdue = {} /\ reply = NoReply
  BY DEF Init
<1>2. Rows
  <2>1. MaxInvoices \in Nat
    BY GatewayAssumption DEF GatewayAssumption
  <2>2. Len(invoices) = 0 /\ Len(status) = 0 /\ Len(ledger) = 0
    BY <1>1, EmptySeq
  <2>3. status \in Seq(Statuses) /\ ledger \in Seq(Observation)
    BY <1>1, EmptySeq
  <2> QED BY <1>1, <2>1, <2>2, <2>3 DEF Rows
<1>3. ProcessTyped /\ AskedIsRead
  BY <1>1 DEF ProcessTyped, AskedIsRead
<1> QED BY <1>1, <1>2, <1>3, NoReplyType DEF TInv

\* A step that leaves the process alone, or the rows.
LEMMA ProcessKept ==
  ASSUME TInv, UNCHANGED <<phase, keys>>
  PROVE  ProcessTyped'
BY DEF TInv, ProcessTyped

LEMMA RowsKept ==
  ASSUME TInv, UNCHANGED <<invoices, status, ledger, overdue>>
  PROVE  Rows' /\ AskedIsRead'
BY DEF TInv, Rows, AskedIsRead

LEMMA OpenedType ==
  ASSUME GInv
  PROVE  Opened \subseteq KeyText
<1>1. env.apiKey \in KeyText /\ env.sandboxKey \in KeyText
  BY DEF GInv, KeysAreOfThisStart, Environment
<1>2. Text(Generated[starts]) \in KeyText
  BY DEF GInv, KeysAreOfThisStart, KeyText, Text
<1> QED BY <1>1, <1>2 DEF Opened, LiveKeys, SandboxKeys

LEMMA StartKeepsTypes ==
  ASSUME GInv, TInv, Start
  PROVE  TInv'
<1>1. reply' = NoReply /\ UNCHANGED <<invoices, status, ledger, overdue>>
  BY DEF Start
<1>2. Rows' /\ AskedIsRead'
  BY <1>1, RowsKept
<1>3. ProcessTyped'
  <2>1. CASE Load /\ Validate /\ Open
    <3>1. phase' = "serving" /\ keys' = [t \in Opened |-> [sandbox |-> t \in SandboxKeys]]
      BY <2>1 DEF Start, Opened
    <3>2. DOMAIN keys' \subseteq KeyText
      BY <3>1, OpenedType
    <3>3. ASSUME NEW t \in Opened PROVE keys'[t] \in [sandbox: BOOLEAN]
      <4>1. keys'[t] = [sandbox |-> t \in SandboxKeys]
        BY <3>1
      <4>2. (t \in SandboxKeys) \in BOOLEAN
        OBVIOUS
      <4> QED BY <4>1, <4>2
    <3> QED BY <3>1, <3>2, <3>3 DEF ProcessTyped
  <2>2. CASE ~(Load /\ Validate /\ Open)
    <3>1. phase' = "failed" /\ UNCHANGED keys
      BY <2>2 DEF Start
    <3> QED BY <3>1 DEF TInv, ProcessTyped
  <2> QED BY <2>1, <2>2
<1> QED BY <1>1, <1>2, <1>3, NoReplyType DEF TInv

LEMMA RedeployKeepsTypes ==
  ASSUME Agreed, TInv, Redeploy
  PROVE  TInv'
<1>1. phase' = "starting" /\ keys' = <<>> /\ reply' = NoReply
  BY DEF Redeploy
<1>2. ProcessTyped'
  BY <1>1 DEF ProcessTyped
<1>3. Rows' /\ AskedIsRead'
  <2>1. CASE env.db = "memory"
    <3>1. invoices' = <<>> /\ status' = <<>> /\ ledger' = <<>> /\ overdue' = {}
      BY <2>1 DEF Redeploy
    <3>2. MaxInvoices \in Nat
      BY GatewayAssumption DEF GatewayAssumption
    <3>3. Len(invoices') = 0 /\ Len(status') = 0 /\ Len(ledger') = 0
      BY <3>1, EmptySeq
    <3>4. status' \in Seq(Statuses) /\ ledger' \in Seq(Observation)
      BY <3>1, EmptySeq
    <3>5. AskedIsRead'
      BY <3>1 DEF AskedIsRead
    <3> QED BY <3>1, <3>2, <3>3, <3>4, <3>5 DEF Rows
  <2>2. CASE env.db # "memory"
    <3>1. ledger' = [i \in DOMAIN invoices |-> NothingSeen]
          /\ UNCHANGED <<invoices, status, overdue>>
      BY <2>2 DEF Redeploy
    <3>2. DOMAIN invoices = 1..Len(invoices) /\ Len(invoices) \in Nat
      BY LenProperties DEF Agreed
    <3>3. NothingSeen \in Observation
      BY DEF NothingSeen, Observation
    <3>4. ledger' \in Seq(Observation) /\ Len(ledger') = Len(invoices)
      <4> DEFINE n == Len(invoices)
      <4>1. ledger' = [i \in 1..n |-> NothingSeen] /\ n \in Nat
        BY <3>1, <3>2
      <4> HIDE DEF n
      <4> QED BY <3>3, <4>1 DEF n
    <3> QED BY <3>1, <3>4 DEF TInv, Rows, AskedIsRead
  <2> QED BY <2>1, <2>2
<1> QED BY <1>1, <1>2, <1>3, NoReplyType DEF TInv

\* An answer with no payment in it, and nothing else.
LEMMA RefusalKeepsTypes ==
  ASSUME TInv, UNCHANGED <<phase, keys, invoices, status, ledger, overdue>>,
         NEW h \in Headers, NEW code, reply' = Answer(h, code),
         code \in {200, 400, 401, 403, 404}
  PROVE  TInv'
<1>1. reply' \in Reply
  BY AnswerType
<1> QED BY <1>1, ProcessKept, RowsKept DEF TInv

\* One row more.
LEMMA RowAdded ==
  ASSUME Rows, AskedIsRead, invoices \in Seq(Invoice), NEW inv, inv \in Invoice,
         Len(invoices) < MaxInvoices,
         invoices' = Append(invoices, inv), status' = Append(status, "pending"),
         ledger' = Append(ledger, NothingSeen), UNCHANGED overdue,
         inv.asked # NoText => ParseDecimal(Decimals[inv.asset], inv.asked) = Read(inv.units)
  PROVE  Rows' /\ AskedIsRead'
<1> DEFINE n == Len(invoices)
<1>1. /\ n \in Nat /\ DOMAIN invoices = 1..n /\ Len(invoices') = n + 1
      /\ DOMAIN invoices' = 1..(n + 1) /\ invoices'[n + 1] = inv
      /\ \A i \in 1..n : invoices'[i] = invoices[i]
  <2> DEFINE s == invoices
  <2>1. s \in Seq(Invoice) /\ invoices' = Append(s, inv) /\ n = Len(s)
    OBVIOUS
  <2> HIDE DEF s, n
  <2>2. /\ n \in Nat /\ DOMAIN s = 1..n /\ Len(Append(s, inv)) = n + 1
        /\ DOMAIN Append(s, inv) = 1..(n + 1) /\ Append(s, inv)[n + 1] = inv
        /\ \A i \in 1..n : Append(s, inv)[i] = s[i]
    BY <2>1
  <2> QED BY <2>1, <2>2 DEF s
<1>2. status' \in Seq(Statuses) /\ Len(status') = n + 1
  <2>1. status \in Seq(Statuses) /\ Len(status) = n /\ "pending" \in Statuses
    BY DEF Rows, Statuses
  <2> HIDE DEF n
  <2> QED BY <2>1
<1>3. ledger' \in Seq(Observation) /\ Len(ledger') = n + 1
  <2>1. ledger \in Seq(Observation) /\ Len(ledger) = n /\ NothingSeen \in Observation
    BY DEF Rows, Observation, NothingSeen
  <2> HIDE DEF n
  <2> QED BY <2>1
<1>4. Rows'
  <2>1. n + 1 <= MaxInvoices
    <3>1. n < MaxInvoices /\ MaxInvoices \in Nat
      BY GatewayAssumption DEF GatewayAssumption
    <3> HIDE DEF n
    <3> QED BY <1>1, <3>1
  <2>2. overdue' \subseteq DOMAIN invoices'
    <3>1. overdue \subseteq 1..n
      BY <1>1 DEF Rows
    <3> HIDE DEF n
    <3> QED BY <1>1, <3>1
  <2> QED BY <1>1, <1>2, <1>3, <2>1, <2>2 DEF Rows
<1>5. AskedIsRead'
  <2> SUFFICES ASSUME NEW i \in 1..(n + 1), invoices'[i].asked # NoText
               PROVE  ParseDecimal(Decimals[invoices'[i].asset], invoices'[i].asked)
                        = Read(invoices'[i].units)
    BY <1>1 DEF AskedIsRead
  <2>1. CASE i = n + 1
    BY <1>1, <2>1
  <2>2. CASE i # n + 1
    <3>1. i \in 1..n
      <4> HIDE DEF n
      <4> QED BY <1>1, <2>2
    <3>2. invoices'[i] = invoices[i] /\ i \in DOMAIN invoices
      BY <1>1, <3>1
    <3> QED BY <3>2 DEF AskedIsRead
  <2> QED BY <2>1, <2>2
<1> QED BY <1>4, <1>5

\* The amount written in a body is the one the invoice is for.
LEMMA AmountIsRead ==
  ASSUME Agreed, NEW b \in Bodies, Readable(b), NEW u \in resolveAmount(b),
         b.amount # NoText, Parsed(b).units # 0
  PROVE  /\ AssetOf[b.chain] = b.asset
         /\ ParseDecimal(Decimals[AssetOf[b.chain]], b.amount) = Read(u)
<1>1. b.asset \in Symbols /\ Parsed(b).ok
  BY DEF Readable
<1>2. u = Parsed(b).units /\ b.asset = AssetOf[b.chain]
  BY DEF resolveAmount
<1>3. b.amount \in Seq(STRING)
  <2>1. b.amount \in menu.asked /\ menu.asked \in SUBSET Seq(STRING)
    BY DEF Bodies, Agreed, Menu
  <2> QED BY <2>1
<1>4. Decimals[b.asset] \in Nat
  BY <1>1, GatewayAssumption DEF GatewayAssumption
<1> DEFINE d == Decimals[b.asset]
           t == b.amount
           r == ParseDecimal(d, t)
<1>5. r = Unreadable \/ \E n \in Int : r = Read(n)
  <2>1. d \in Nat /\ t \in Seq(STRING)
    BY <1>3, <1>4
  <2> HIDE DEF d, t
  <2> QED BY <2>1, ParsedUnits
<1>6. Parsed(b) = r
  BY DEF Parsed
<1> HIDE DEF r
<1>7. r.ok /\ u = r.units
  BY <1>1, <1>2, <1>6
<1>8. r = Read(u)
  BY <1>5, <1>7 DEF Unreadable, Read
<1> QED BY <1>2, <1>8 DEF r, d, t

LEMMA CreateKeepsTypes ==
  ASSUME GInv, Agreed, TInv, Agreed', NEW h \in Headers, CreateInvoice(h)
  PROVE  TInv'
<1>1. UNCHANGED <<phase, keys, overdue>> /\ Len(invoices) < MaxInvoices
  BY DEF CreateInvoice, Unmoved
<1>2. CASE Refuse(h, 401) \/ Refuse(h, 400)
  <2>1. PICK code \in {401, 400} : reply' = Answer(h, code)
    BY <1>2 DEF Refuse
  <2>2. UNCHANGED <<invoices, status, ledger>>
    BY <1>2 DEF Refuse
  <2> QED BY <1>1, <2>1, <2>2, RefusalKeepsTypes
<1>3. CASE ~(Refuse(h, 401) \/ Refuse(h, 400))
  <2> DEFINE asked(b) == IF b.amount # NoText /\ Parsed(b).units # 0 THEN b.amount ELSE NoText
             inv(b, u) == [chain |-> b.chain, asset |-> AssetOf[b.chain], units |-> u,
                           required |-> Required(b.chain), asked |-> asked(b)]
  <2>1. /\ \E b \in Bodies : Readable(b) /\ \E u \in resolveAmount(b) :
              invoices' = Append(invoices, inv(b, u))
        /\ status' = Append(status, "pending") /\ ledger' = Append(ledger, NothingSeen)
        /\ reply' = Answer(h, 201)
    BY <1>3 DEF CreateInvoice
  <2>2. PICK b \in Bodies : Readable(b) /\ \E u \in resolveAmount(b) :
          invoices' = Append(invoices, inv(b, u))
    BY <2>1
  <2>9. PICK u \in resolveAmount(b) : invoices' = Append(invoices, inv(b, u))
    BY <2>2
  <2> DEFINE row == inv(b, u)
  <2>3. row.asset = AssetOf[b.chain] /\ row.units = u /\ row.asked = asked(b)
    OBVIOUS
  <2>4. row.asked # NoText => ParseDecimal(Decimals[row.asset], row.asked) = Read(row.units)
    <3>1. asked(b) # NoText => b.amount # NoText /\ Parsed(b).units # 0 /\ asked(b) = b.amount
      OBVIOUS
    <3>2. asked(b) # NoText => ParseDecimal(Decimals[AssetOf[b.chain]], b.amount) = Read(u)
      BY <2>2, <3>1, AmountIsRead
    <3> HIDE DEF row, asked
    <3> QED BY <2>3, <3>1, <3>2
  <2>5. invoices' = Append(invoices, row)
    BY <2>9
  <2> HIDE DEF row
  <2>6. row \in Invoice
    <3>1. invoices \in Seq(Invoice) /\ invoices' \in Seq(Invoice)
      BY DEF Agreed
    <3>2. invoices'[Len(invoices) + 1] = row /\ Len(invoices') = Len(invoices) + 1
          /\ Len(invoices) \in Nat
      BY <2>5, <3>1
    <3>3. Len(invoices) + 1 \in 1..Len(invoices')
      BY <3>2
    <3>4. invoices'[Len(invoices) + 1] \in Invoice
      BY <3>1, <3>3, ElementOfSeq
    <3> QED BY <3>2, <3>4
  <2>7. Rows' /\ AskedIsRead'
    BY <1>1, <2>1, <2>4, <2>5, <2>6, RowAdded DEF TInv, Agreed
  <2>8. reply' \in Reply
    BY <2>1, AnswerType
  <2> QED BY <1>1, <2>7, <2>8, ProcessKept DEF TInv
<1> QED BY <1>2, <1>3

LEMMA GetKeepsTypes ==
  ASSUME TInv, NEW h \in Headers, NEW i \in 0..MaxInvoices, GetInvoice(h, i)
  PROVE  TInv'
<1>1. UNCHANGED <<phase, keys, overdue, invoices, status, ledger>>
  BY DEF GetInvoice, Refuse, Unmoved
<1>2. PICK code \in {401, 404, 200} : reply' = Answer(h, code)
  BY DEF GetInvoice, Refuse
<1> QED BY <1>1, <1>2, RefusalKeepsTypes

\* What a simulated payment puts in the ledger.
LEMMA PaymentType ==
  ASSUME Agreed, NEW i \in DOMAIN invoices, NEW p \in Payments,
         PaidUnits(invoices[i], p).ok
  PROVE  /\ PaidUnits(invoices[i], p).units \in Int
         /\ PaidConfs(invoices[i], p) \in Int
<1> DEFINE inv == invoices[i]
<1>1. inv \in Invoice
  BY DEF Agreed
<1> HIDE DEF inv
<1>2. inv.units \in Int /\ inv.required \in Int /\ inv.asset \in Symbols
  BY <1>1 DEF Invoice
<1>3. PaidUnits(inv, p).units \in Int
  <2>1. CASE p.amount = NoText
    BY <1>2, <2>1 DEF PaidUnits, Read
  <2>2. CASE p.amount # NoText
    <3>1. p.amount \in Seq(STRING)
      <4>1. p.amount \in menu.paid /\ menu.paid \in SUBSET Seq(STRING)
        BY <2>2 DEF Payments, Agreed, Menu
      <4> QED BY <4>1
    <3>2. Decimals[inv.asset] \in Nat
      BY <1>2, GatewayAssumption DEF GatewayAssumption
    <3>3. PaidUnits(inv, p) = ParseDecimal(Decimals[inv.asset], p.amount)
      BY <2>2 DEF PaidUnits
    <3> DEFINE d == Decimals[inv.asset]
               t == p.amount
               r == ParseDecimal(d, t)
    <3>4. d \in Nat /\ t \in Seq(STRING)
      BY <3>1, <3>2
    <3> HIDE DEF d, t
    <3>5. r = Unreadable \/ \E n \in Int : r = Read(n)
      BY <3>4, ParsedUnits
    <3> HIDE DEF r
    <3>6. r.units \in Int
      BY <3>5 DEF Unreadable, Read
    <3> QED BY <3>3, <3>6 DEF r, d, t
  <2> QED BY <2>1, <2>2
<1>4. PaidConfs(inv, p) \in Int
  <2>1. CASE p.confs = {}
    BY <1>2, <2>1 DEF PaidConfs
  <2>2. CASE p.confs # {}
    <3>1. PICK n \in Confirmed : p.confs = {n}
      BY <2>2 DEF Payments
    <3>2. n \in Int
      BY GatewayAssumption DEF GatewayAssumption
    <3>3. Lowest({n}) = n
      BY <3>2 DEF Lowest
    <3> QED BY <2>2, <3>1, <3>2, <3>3 DEF PaidConfs
  <2> QED BY <2>1, <2>2
<1> QED BY <1>3, <1>4 DEF inv

\* A status and a line of the ledger are replaced.
LEMMA RowMoved ==
  ASSUME Rows, AskedIsRead, UNCHANGED <<invoices, overdue>>,
         NEW i \in DOMAIN invoices, NEW st, st \in Statuses, NEW obs, obs \in Observation,
         status' = [status EXCEPT ![i] = st] \/ UNCHANGED status,
         ledger' = [ledger EXCEPT ![i] = obs] \/ UNCHANGED ledger
  PROVE  Rows' /\ AskedIsRead'
<1>1. status' \in Seq(Statuses) /\ Len(status') = Len(status)
  <2>1. status \in Seq(Statuses)
    BY DEF Rows
  <2> QED BY <2>1
<1>2. ledger' \in Seq(Observation) /\ Len(ledger') = Len(ledger)
  <2>1. ledger \in Seq(Observation)
    BY DEF Rows
  <2> QED BY <2>1
<1> QED BY <1>1, <1>2 DEF Rows, AskedIsRead

LEMMA RowTypes ==
  ASSUME Agreed, Rows, NEW i \in DOMAIN invoices
  PROVE  /\ invoices[i] \in Invoice /\ status[i] \in Statuses /\ ledger[i] \in Observation
         /\ invoices[i].units \in Nat \ {0} /\ invoices[i].required \in Nat \ {0}
         /\ invoices[i].chain \in Chains
<1>1. invoices \in Seq(Invoice) /\ status \in Seq(Statuses) /\ ledger \in Seq(Observation)
  BY DEF Agreed, Rows
<1>2. /\ DOMAIN invoices = 1..Len(invoices)
      /\ Len(status) = Len(invoices) /\ Len(ledger) = Len(invoices)
  BY <1>1, LenProperties DEF Rows
<1>3. i \in 1..Len(invoices) /\ i \in 1..Len(status) /\ i \in 1..Len(ledger)
  BY <1>2
<1>4. invoices[i] \in Invoice /\ status[i] \in Statuses /\ ledger[i] \in Observation
  BY <1>1, <1>3, ElementOfSeq
<1> QED BY <1>4 DEF Invoice

LEMMA PayKeepsTypes ==
  ASSUME Agreed, TInv, NEW h \in Headers, NEW i \in 0..MaxInvoices, NEW p \in Payments,
         PayInvoice(h, i, p)
  PROVE  TInv'
<1>1. UNCHANGED <<phase, keys, overdue>>
  BY DEF PayInvoice, Unmoved
<1>2. CASE Refusal(h, i, p) # 0
  <2> DEFINE r == Refusal(h, i, p)
  <2>1. reply' = Answer(h, r) /\ UNCHANGED <<invoices, status, ledger>>
    BY <1>2 DEF PayInvoice, Refuse
  <2>2. r \in {400, 401, 403, 404}
    BY <1>2 DEF Refusal
  <2> HIDE DEF r
  <2> QED BY <1>1, <2>1, <2>2, RefusalKeepsTypes
<1>3. CASE Refusal(h, i, p) = 0
  <2> DEFINE inv  == invoices[i]
             obs  == [seen |-> TRUE, received |-> PaidUnits(inv, p).units,
                      confs |-> PaidConfs(inv, p)]
             next == IF IsTerminal(status[i]) THEN status[i]
                     ELSE Decide(obs, inv.units, inv.required, i \in overdue)
  <2>1. i \in DOMAIN invoices /\ PaidUnits(inv, p).ok
    BY <1>3 DEF Refusal
  <2>2. PaidUnits(inv, p).units \in Int /\ PaidConfs(inv, p) \in Int
    BY <2>1, PaymentType
  <2>3. obs \in Observation
    BY <2>2 DEF Observation
  <2>4. /\ status[i] \in Statuses /\ inv.chain \in Chains
        /\ inv.units \in Nat \ {0} /\ inv.required \in Nat \ {0}
    BY <2>1, RowTypes DEF TInv
  <2>5. ledger' = [ledger EXCEPT ![i] = obs] /\ UNCHANGED invoices
    BY <1>3 DEF PayInvoice, Simulate
  <2>6. \/ /\ status' = [status EXCEPT ![i] = next]
           /\ reply' = [headers |-> h, code |-> 200, paid |-> inv.chain,
                        was |-> IF Plain(p) THEN status[i] ELSE NotCreated, shows |-> next]
        \/ /\ reply' = [headers |-> h, code |-> 500, paid |-> inv.chain,
                        was |-> NotCreated, shows |-> NotCreated]
           /\ UNCHANGED status
    BY <1>3 DEF PayInvoice, Simulate
  <2> HIDE DEF obs, inv
  <2>7. next \in Statuses
    <3>1. inv.units \in Int /\ inv.required \in Int
      BY <2>4
    <3>2. Decide(obs, inv.units, inv.required, i \in overdue) \in Statuses
      BY <2>3, <3>1, DecideType
    <3> QED BY <2>4, <3>2
  <2> HIDE DEF next
  <2>8. reply' \in Reply
    BY <2>4, <2>6, <2>7 DEF Reply
  <2>9. Rows' /\ AskedIsRead'
    BY <1>1, <2>1, <2>3, <2>5, <2>6, <2>7, RowMoved DEF TInv
  <2> QED BY <1>1, <2>8, <2>9, ProcessKept DEF TInv
<1> QED BY <1>2, <1>3

LEMMA WatchKeepsTypes ==
  ASSUME Agreed, TInv, NEW i \in DOMAIN invoices, Watch(i)
  PROVE  TInv'
<1> DEFINE next == Decide(ledger[i], invoices[i].units, invoices[i].required, i \in overdue)
<1>1. /\ UNCHANGED <<phase, keys, overdue, invoices, ledger>>
      /\ status' = [status EXCEPT ![i] = next] /\ reply' = NoReply
  BY DEF Watch, Unmoved
<1>2. /\ ledger[i] \in Observation
      /\ invoices[i].units \in Nat \ {0} /\ invoices[i].required \in Nat \ {0}
  BY RowTypes DEF TInv
<1>3. next \in Statuses
  <2>1. invoices[i].units \in Int /\ invoices[i].required \in Int
    BY <1>2
  <2> QED BY <1>2, <2>1, DecideType
<1> HIDE DEF next
<1>4. Rows' /\ AskedIsRead'
  BY <1>1, <1>2, <1>3, RowMoved DEF TInv
<1> QED BY <1>1, <1>4, ProcessKept, NoReplyType DEF TInv

LEMMA ExpiryKeepsTypes ==
  ASSUME TInv, NEW i \in DOMAIN invoices, PassExpiry(i)
  PROVE  TInv'
<1>1. /\ UNCHANGED <<phase, keys, invoices, status, ledger>> /\ reply' = NoReply
      /\ overdue' = overdue \cup {i}
  BY DEF PassExpiry
<1>2. Rows' /\ AskedIsRead'
  BY <1>1 DEF TInv, Rows, AskedIsRead
<1> QED BY <1>1, <1>2, ProcessKept, NoReplyType DEF TInv

LEMMA TypesHold == Spec => [](GInv /\ Agreed /\ TInv)
<1>1. GInv /\ Agreed /\ Agreed' /\ TInv /\ [Next]_vars => TInv'
  <2> SUFFICES ASSUME GInv, Agreed, Agreed', TInv, [Next]_vars PROVE TInv'
    OBVIOUS
  <2>1. CASE Start
    BY <2>1, StartKeepsTypes
  <2>2. CASE StartFails
    <3>1. /\ phase' = "failed" /\ reply' = NoReply
          /\ UNCHANGED <<keys, invoices, status, ledger, overdue>>
      BY <2>2 DEF StartFails
    <3>2. ProcessTyped'
      BY <3>1 DEF TInv, ProcessTyped
    <3> QED BY <3>1, <3>2, RowsKept, NoReplyType DEF TInv
  <2>3. CASE Redeploy
    BY <2>3, RedeployKeepsTypes
  <2>4. CASE \E h \in Headers : CreateInvoice(h)
    BY <2>4, CreateKeepsTypes
  <2>5. CASE \E h \in Headers, i \in 0..MaxInvoices : GetInvoice(h, i)
    BY <2>5, GetKeepsTypes
  <2>6. CASE \E h \in Headers, i \in 0..MaxInvoices, p \in Payments : PayInvoice(h, i, p)
    BY <2>6, PayKeepsTypes
  <2>7. CASE \E i \in DOMAIN invoices : Watch(i)
    BY <2>7, WatchKeepsTypes
  <2>8. CASE \E i \in DOMAIN invoices : PassExpiry(i)
    BY <2>8, ExpiryKeepsTypes
  <2>9. CASE UNCHANGED vars
    BY <2>9, RowsKept, ProcessKept DEF vars, TInv
  <2> QED BY <2>1, <2>2, <2>3, <2>4, <2>5, <2>6, <2>7, <2>8, <2>9 DEF Next
<1> QED BY InitTInv, <1>1, Invariance, Agreement, PTL DEF Spec

\* Every variable keeps its type: the rows of invoices, their statuses and the
\* simulator's lines stay in step (Create, Pay, Sync), and whatever text a
\* client writes for an amount, what is credited is a whole number of units.
THEOREM GatewayTypeCorrect == Spec => []TypeOK
BY TypesHold, TypesFollow, PTL

\* A plain decimal number is read to the last unit or not at all, whatever its
\* length and whatever the decimals of the asset (ParseDecimal, resolveAmount).
THEOREM AmountsAreReadExactly == Spec => []AmountsAreExact
<1>1. Agreed /\ TInv => AmountsAreExact
  <2> SUFFICES ASSUME Agreed, TInv, NEW i \in DOMAIN invoices, IsPlain(invoices[i].asked)
               PROVE  /\ FractionDigits(invoices[i].asked) <= Decimals[invoices[i].asset]
                      /\ invoices[i].units = Worth(Decimals[invoices[i].asset], invoices[i].asked)
    BY DEF AmountsAreExact
  <2> DEFINE s == invoices[i].asked
             d == Decimals[invoices[i].asset]
             u == invoices[i].units
  <2>1. invoices[i] \in Invoice
    BY RowTypes DEF TInv
  <2>2. s \in Seq(STRING) /\ d \in Nat
    <3>1. invoices[i].asset \in Symbols
      BY <2>1 DEF Invoice
    <3> QED BY <2>1, <3>1, GatewayAssumption DEF Invoice, GatewayAssumption
  <2>3. s # NoText
    <3>1. PICK k \in 1..Len(s) : TRUE
      BY DEF IsPlain
    <3>2. Len(NoText) = 0
      BY EmptySeq DEF NoText
    <3> QED BY <3>1, <3>2
  <2>4. ParseDecimal(d, s) = Read(u)
    BY <2>3 DEF TInv, AskedIsRead
  <2>5. IsPlain(s)
    OBVIOUS
  <2> HIDE DEF s, d, u
  <2>6. Len(Part(s)) <= d
    <3> SUFFICES ASSUME ~(Len(Part(s)) <= d) PROVE FALSE
      OBVIOUS
    <3>1. ParseDecimal(d, s) = Unreadable
      BY <2>2, <2>5, LongIsUnreadable
    <3> QED BY <2>4, <3>1 DEF Unreadable, Read
  <2>7. ParseDecimal(d, s) = Read(Worth(d, s))
    BY <2>2, <2>5, <2>6, PlainParses
  <2>8. u = Worth(d, s)
    BY <2>4, <2>7 DEF Read
  <2> QED BY <2>6, <2>8 DEF FractionDigits, s, d, u
<1> QED BY TypesHold, <1>1, PTL

\* Every amount that is shown reads back as itself, the amount of an invoice
\* and whatever the simulator was credited with, below zero too
\* (Amount.String, ParseDecimal).
THEOREM ShownAmountsParseBack == Spec => []ShownParsesBack
<1>1. Agreed /\ TInv => ShownParsesBack
  <2> SUFFICES ASSUME Agreed, TInv, NEW i \in DOMAIN invoices,
                      NEW u \in {invoices[i].units, ledger[i].received}
               PROVE  ParseDecimal(Decimals[invoices[i].asset],
                                   Shown(Decimals[invoices[i].asset], u)) = Read(u)
    BY DEF ShownParsesBack
  <2>1. /\ invoices[i] \in Invoice /\ ledger[i] \in Observation
        /\ invoices[i].units \in Nat \ {0}
    BY RowTypes DEF TInv
  <2>2. u \in Int
    BY <2>1 DEF Observation
  <2>3. Decimals[invoices[i].asset] \in Nat
    BY <2>1, GatewayAssumption DEF Invoice, GatewayAssumption
  <2> QED BY <2>2, <2>3, ShownIsRead
<1> QED BY TypesHold, <1>1, PTL

=============================================================================
