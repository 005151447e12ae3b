----------------------- MODULE InvoiceCreation_proofs -----------------------
(***************************************************************************)
(* Proofs about InvoiceCreation, for any number of requests, wallets and   *)
(* restarts and both repositories.  Types and amounts are the same for     *)
(* both (Progress).  That no two invoices share an address, until the      *)
(* counter has gone round, and that an answered invoice is stored, hold as *)
(* long as no restart has emptied the store (Ownership, Kept).             *)
(***************************************************************************)
EXTENDS InvoiceCreation, TLAPS

\* The index a request has taken: it is below the counter, and its own.
Owned(r) ==
    IF handedOut[r] # NoRow THEN handedOut[r].index
    ELSE IF call[r].pc \in {"derive", "insert"} THEN call[r].index
    ELSE -1

Ownership ==
    /\ \A r \in Requests : Owned(r) \in -1..(next - 1)
    /\ \A r \in Requests : handedOut[r] # NoRow => Owned(r) # -1
    /\ \A r, s \in Requests : r # s /\ Owned(r) # -1 => Owned(r) # Owned(s)

\* What a handler at each stage has, and what it has not done yet.
Progress ==
    \A r \in Requests :
        /\ call[r].pc \notin {"answer", "done"} => handedOut[r] = NoRow
        /\ call[r].pc \in {"derive", "insert"} => call[r].index # -1
        /\ call[r].pc \in {"index", "derive", "insert"} => call[r].amount > 0
        /\ call[r].pc = "answer" => handedOut[r] # NoRow
        /\ answer[r] = "created" => handedOut[r] # NoRow
        /\ handedOut[r] # NoRow => handedOut[r].amount > 0

\* What was inserted is there.
Kept == rows = handedOut

IInv == TypeOK /\ Progress /\ (~Forgotten => Ownership /\ Kept)

\* Until MaxIssued the uint32 the counter is read into does not wrap.
LEMMA IndexIsCounter ==
  ASSUME NEW n \in Nat, n < IndexSpace
  PROVE  n % IndexSpace = n
BY CreationAssumption DEF CreationAssumption

LEMMA HandlingFacts ==
  ASSUME NEW stage \in Stages, NEW p \in Params \cup {NoParam}, NEW amount \in Int,
         NEW index \in Indices
  PROVE  /\ Handling(stage, p, amount, index) \in Call
         /\ Handling(stage, p, amount, index).pc = stage
         /\ Handling(stage, p, amount, index).amount = amount
         /\ Handling(stage, p, amount, index).index = index
BY DEF Handling, Call

LEMMA NoIndex == -1 \in Indices
BY CreationAssumption DEF Indices, CreationAssumption

LEMMA AtFacts ==
  ASSUME NEW stage \in Stages
  PROVE  At(stage) \in Call /\ At(stage).pc = stage
BY NoIndex, HandlingFacts DEF At

LEMMA NoRowIsRow == NoRow \in Row /\ NoRow.index = -1
<1>1. NoParam \in Params \cup {NoParam} /\ NoParam.chain = "none" /\ NoParam.wallet = NoXPub
  BY DEF NoParam
<1> QED BY <1>1, NoIndex DEF NoRow, Row

LEMMA InitIInv == Init => IInv
<1> SUFFICES ASSUME Init PROVE IInv
  OBVIOUS
<1>1. \A r \in Requests : call[r] = At("idle") /\ At("idle") \in Call /\ call[r].pc = "idle"
  BY AtFacts DEF Init, Stages
<1>2. TypeOK
  BY <1>1, NoRowIsRow, CreationAssumption DEF Init, TypeOK, Answers, CreationAssumption
<1>3. \A r \in Requests : Owned(r) = -1 /\ handedOut[r] = NoRow /\ rows[r] = NoRow
  BY <1>1 DEF Init, Owned
<1>4. Ownership
  BY <1>3 DEF Ownership, Init
<1>5. Progress
  BY <1>1, <1>3 DEF Progress, Init
<1>6. Kept
  BY DEF Kept, Init
<1> QED BY <1>2, <1>4, <1>5, <1>6 DEF IInv

\* A step without a restart: each part of the invariant by itself.
LEMMA StepIInv ==
  ASSUME IInv, UNCHANGED <<engine, crashes>>, TypeOK', Progress',
         Ownership => Ownership', Kept => Kept'
  PROVE  IInv'
BY DEF IInv, Forgotten, Durable

\* A handler that moves on or ends without a row of its own leaves every
\* index with its owner; the others are not concerned.
LEMMA OwnershipFrame ==
  ASSUME Ownership, TypeOK, next' = next,
         \A r \in Requests : Owned(r)' = Owned(r) \/ (Owned(r)' = -1 /\ handedOut'[r] = NoRow),
         \A r \in Requests : handedOut'[r] # NoRow => handedOut[r] # NoRow \/ Owned(r) # -1
  PROVE  Ownership'
<1>1. \A r \in Requests : Owned(r)' \in -1..(next' - 1)
  BY CreationAssumption DEF Ownership, TypeOK, CreationAssumption
<1>2. \A r \in Requests : handedOut'[r] # NoRow => Owned(r)' # -1
  BY DEF Ownership
<1>3. \A r, s \in Requests : r # s /\ Owned(r)' # -1 => Owned(r)' # Owned(s)'
  BY DEF Ownership
<1> QED BY <1>1, <1>2, <1>3 DEF Ownership

\* The end of a handler that inserted nothing.
LEMMA FailIInv ==
  ASSUME IInv, NEW r \in Requests, Fail(r), call[r].pc \notin {"answer", "done"},
         UNCHANGED <<engine, next, crashes>>
  PROVE  IInv'
<1> USE DEF IInv
<1>1. At("done") \in Call /\ At("done").pc = "done"
  BY AtFacts DEF Stages
<1>2. /\ call'[r] = At("done") /\ \A s \in Requests : s # r => call'[s] = call[s]
      /\ answer'[r] \in {answer[r], "error"}
      /\ \A s \in Requests : s # r => answer'[s] = answer[s]
      /\ UNCHANGED <<rows, handedOut>>
      /\ handedOut[r] = NoRow
  BY DEF Fail, Answer, TypeOK, Progress
<1>3. TypeOK'
  BY <1>1 DEF Fail, Answer, TypeOK, Answers
<1>4. \A s \in Requests : Owned(s)' = Owned(s) \/ (Owned(s)' = -1 /\ handedOut'[s] = NoRow)
  BY <1>1, <1>2 DEF Owned
<1>5. Ownership => Ownership'
  BY <1>2, <1>4, OwnershipFrame
<1>6. Progress'
  BY <1>1, <1>2 DEF Progress
<1>7. Kept => Kept'
  BY <1>2 DEF Kept
<1> QED BY <1>3, <1>5, <1>6, <1>7, <1>2, StepIInv

LEMMA StartIInv ==
  ASSUME IInv, NEW r \in Requests, NEW p \in Params, Start(r, p)
  PROVE  IInv'
<1> USE DEF IInv
<1>1. CASE ~(Authenticated(p) /\ Registered(p.chain))
  BY <1>1, FailIInv DEF Start, Fail
<1>2. CASE Authenticated(p) /\ Registered(p.chain)
  <2> DEFINE new == Handling("resolve", p, 0, -1)
  <2>1. /\ call[r].pc = "idle"
        /\ call' = [call EXCEPT ![r] = new]
        /\ UNCHANGED <<engine, next, rows, answer, crashes, handedOut>>
    BY <1>2 DEF Start
  <2>2. new \in Call /\ new.pc = "resolve"
    BY NoIndex, HandlingFacts DEF Stages
  <2> HIDE DEF new
  <2>3. TypeOK'
    BY <2>1, <2>2 DEF TypeOK
  <2>4. /\ call'[r].pc = "resolve" /\ \A s \in Requests : s # r => call'[s] = call[s]
    BY <2>1, <2>2 DEF TypeOK
  <2>5. \A s \in Requests : Owned(s)' = Owned(s)
    BY <2>1, <2>4 DEF Owned
  <2>6. Ownership => Ownership'
    BY <2>1, <2>5, OwnershipFrame
  <2>7. Progress'
    BY <2>1, <2>4 DEF Progress
  <2>8. Kept => Kept'
    BY <2>1 DEF Kept
  <2> QED BY <2>3, <2>6, <2>7, <2>8, <2>1, StepIInv
<1> QED BY <1>1, <1>2

\* resolveAmount yields a positive amount or none.
LEMMA ResolvedIsPositive ==
  ASSUME NEW p \in Params \cup {NoParam}, NEW amount \in Resolved(p)
  PROVE  amount \in Int /\ amount > 0
<1>1. p.amount \in Int
  BY CreationAssumption DEF CreationAssumption, NoParam
<1>2. \A price \in Prices : price \in Int /\ price > 0
  BY CreationAssumption DEF CreationAssumption
<1>3. amount \in Prices \/ (amount = p.amount /\ p.amount > 0)
  BY <1>1 DEF Resolved
<1> QED BY <1>1, <1>2, <1>3

LEMMA ResolveIInv ==
  ASSUME IInv, NEW r \in Requests, Resolve(r)
  PROVE  IInv'
<1> USE DEF IInv
<1>1. PICK amount \in Resolved(call[r].param) :
         call' = [call EXCEPT ![r] = Handling("index", call[r].param, amount, -1)]
  BY DEF Resolve
<1>2. call[r].pc = "resolve" /\ UNCHANGED <<engine, next, rows, answer, crashes, handedOut>>
  BY DEF Resolve
<1>3. call[r].param \in Params \cup {NoParam}
  BY DEF TypeOK, Call
<1>4. amount \in Int /\ amount > 0
  BY <1>1, <1>3, ResolvedIsPositive
<1> DEFINE new == Handling("index", call[r].param, amount, -1)
<1>5. new \in Call /\ new.pc = "index" /\ new.amount = amount
  BY <1>3, <1>4, NoIndex, HandlingFacts DEF Stages
<1> HIDE DEF new
<1>6. call'[r] = new /\ \A s \in Requests : s # r => call'[s] = call[s]
  BY <1>1 DEF TypeOK, new
<1>7. TypeOK'
  BY <1>1, <1>2, <1>5 DEF TypeOK, new
<1>8. \A s \in Requests : Owned(s)' = Owned(s)
  BY <1>2, <1>5, <1>6 DEF Owned
<1>9. Ownership => Ownership'
  BY <1>2, <1>8, OwnershipFrame
<1>10. Progress'
  BY <1>2, <1>4, <1>5, <1>6 DEF Progress
<1>11. Kept => Kept'
  BY <1>2 DEF Kept
<1> QED BY <1>7, <1>9, <1>10, <1>11, <1>2, StepIInv

\* The step the counter is for: the index taken is above every owned one.
LEMMA TakeIndexIInv ==
  ASSUME IInv, NEW r \in Requests, TakeIndex(r)
  PROVE  IInv'
<1> USE DEF IInv
<1> DEFINE new == Handling("derive", call[r].param, call[r].amount, next % IndexSpace)
<1>1. /\ call[r].pc = "index" /\ next < MaxIssued /\ next' = next + 1
      /\ call' = [call EXCEPT ![r] = new]
      /\ UNCHANGED <<engine, rows, answer, crashes, handedOut>>
  BY DEF TakeIndex
<1>2. /\ next \in Nat /\ MaxIssued \in Nat /\ IndexSpace \in Nat \ {0}
      /\ next < IndexSpace /\ next % IndexSpace = next /\ next \in Indices
  <2>1. next \in Nat /\ next < IndexSpace
    BY <1>1, CreationAssumption DEF TypeOK, CreationAssumption
  <2> QED BY <2>1, IndexIsCounter, CreationAssumption DEF Indices, CreationAssumption
<1>3. new \in Call /\ new.pc = "derive" /\ new.amount = call[r].amount /\ new.index = next
  <2>1. call[r].param \in Params \cup {NoParam} /\ call[r].amount \in Int /\ "derive" \in Stages
    BY DEF TypeOK, Call, Stages
  <2> QED BY <1>2, <2>1, HandlingFacts
<1> HIDE DEF new
<1>4. call'[r] = new /\ \A s \in Requests : s # r => call'[s] = call[s]
  BY <1>1 DEF TypeOK
<1>5. TypeOK'
  <2>1. next' \in 0..MaxIssued
    BY <1>1, <1>2
  <2> QED BY <1>1, <1>3, <2>1 DEF TypeOK
<1>6. handedOut[r] = NoRow /\ call[r].amount > 0
  BY <1>1 DEF Progress
<1>7. Owned(r)' = next /\ \A s \in Requests : s # r => Owned(s)' = Owned(s)
  BY <1>1, <1>3, <1>4, <1>6 DEF Owned
<1>8. Ownership => \A s \in Requests : Owned(s) \in -1..(next - 1)
  BY DEF Ownership
<1>9. Ownership => Ownership'
  BY <1>1, <1>2, <1>7, <1>8 DEF Ownership
<1>10. Progress'
  BY <1>1, <1>2, <1>3, <1>4, <1>6 DEF Progress
<1>11. Kept => Kept'
  BY <1>1 DEF Kept
<1> QED BY <1>5, <1>9, <1>10, <1>11, <1>1, StepIInv

LEMMA DeriveIInv ==
  ASSUME IInv, NEW r \in Requests, Derive(r)
  PROVE  IInv'
<1> USE DEF IInv
<1> DEFINE new == Handling("insert", call[r].param, call[r].amount, call[r].index)
<1>1. /\ call[r].pc = "derive"
      /\ call' = [call EXCEPT ![r] = new]
      /\ UNCHANGED <<engine, next, rows, answer, crashes, handedOut>>
  BY DEF Derive
<1>2. new \in Call /\ new.pc = "insert" /\ new.amount = call[r].amount /\ new.index = call[r].index
  BY HandlingFacts DEF TypeOK, Call, Stages
<1> HIDE DEF new
<1>3. call'[r] = new /\ \A s \in Requests : s # r => call'[s] = call[s]
  BY <1>1 DEF TypeOK
<1>4. TypeOK'
  BY <1>1, <1>2 DEF TypeOK
<1>5. \A s \in Requests : Owned(s)' = Owned(s)
  BY <1>1, <1>2, <1>3 DEF Owned
<1>6. Ownership => Ownership'
  BY <1>1, <1>5, OwnershipFrame
<1>7. Progress'
  BY <1>1, <1>2, <1>3 DEF Progress
<1>8. Kept => Kept'
  BY <1>1 DEF Kept
<1> QED BY <1>4, <1>6, <1>7, <1>8, <1>1, StepIInv

LEMMA InsertIInv ==
  ASSUME IInv, NEW r \in Requests, Insert(r)
  PROVE  IInv'
<1> USE DEF IInv
<1> DEFINE row == NewRow(call[r])
<1>1. /\ call[r].pc = "insert"
      /\ rows' = [rows EXCEPT ![r] = row]
      /\ handedOut' = [handedOut EXCEPT ![r] = row]
      /\ call' = [call EXCEPT ![r] = At("answer")]
      /\ UNCHANGED <<engine, next, answer, crashes>>
  BY DEF Insert
<1>2. /\ row \in Row /\ row.index = call[r].index /\ row.amount = call[r].amount
  BY DEF NewRow, Row, TypeOK, Call
<1>3. call[r].index # -1 /\ call[r].amount > 0 /\ handedOut[r] = NoRow
  BY <1>1 DEF Progress
<1>4. row # NoRow
  BY <1>2, <1>3, NoRowIsRow
<1> HIDE DEF row
<1>5. At("answer") \in Call /\ At("answer").pc = "answer"
  BY AtFacts DEF Stages
<1>6. /\ call'[r] = At("answer") /\ handedOut'[r] = row /\ rows'[r] = row
      /\ \A s \in Requests : s # r =>
           call'[s] = call[s] /\ handedOut'[s] = handedOut[s] /\ rows'[s] = rows[s]
  BY <1>1 DEF TypeOK
<1>7. TypeOK'
  BY <1>1, <1>2, <1>5 DEF TypeOK
<1>8. \A s \in Requests : Owned(s)' = Owned(s)
  BY <1>1, <1>2, <1>3, <1>4, <1>6 DEF Owned
<1>9. Owned(r) # -1
  BY <1>1, <1>3 DEF Owned
<1>10. Ownership => Ownership'
  BY <1>1, <1>6, <1>8, <1>9, OwnershipFrame
<1>11. Progress'
  BY <1>1, <1>2, <1>3, <1>4, <1>5, <1>6 DEF Progress
<1>12. Kept => Kept'
  BY <1>1 DEF Kept
<1> QED BY <1>7, <1>10, <1>11, <1>12, <1>1, StepIInv

LEMMA CreatedIInv ==
  ASSUME IInv, NEW r \in Requests, Created(r)
  PROVE  IInv'
<1> USE DEF IInv
<1>1. At("done") \in Call /\ At("done").pc = "done"
  BY AtFacts DEF Stages
<1>2. /\ call[r].pc = "answer" /\ handedOut[r] # NoRow
      /\ call'[r] = At("done") /\ \A s \in Requests : s # r => call'[s] = call[s]
      /\ \A s \in Requests : s # r => answer'[s] = answer[s]
      /\ UNCHANGED <<engine, next, rows, crashes, handedOut>>
  BY DEF Created, Answer, TypeOK, Progress
<1>3. TypeOK'
  BY <1>1 DEF Created, Answer, TypeOK, Answers
<1>4. \A s \in Requests : Owned(s)' = Owned(s)
  BY <1>1, <1>2 DEF Owned
<1>5. Ownership => Ownership'
  BY <1>2, <1>4, OwnershipFrame
<1>6. Progress'
  BY <1>1, <1>2 DEF Progress
<1>7. Kept => Kept'
  BY <1>2 DEF Kept
<1> QED BY <1>3, <1>5, <1>6, <1>7, <1>2, StepIInv

LEMMA TimeoutIInv ==
  ASSUME IInv, NEW r \in Requests, Timeout(r)
  PROVE  IInv'
<1> USE DEF IInv
<1>1. /\ UNCHANGED <<engine, next, rows, call, crashes, handedOut>>
      /\ answer' = [answer EXCEPT ![r] = "timeout"]
  BY DEF Timeout
<1>2. TypeOK'
  BY <1>1 DEF TypeOK, Answers
<1>3. \A s \in Requests : Owned(s)' = Owned(s)
  BY <1>1 DEF Owned
<1>4. Ownership => Ownership'
  BY <1>1, <1>3, OwnershipFrame
<1>5. Progress'
  BY <1>1 DEF Progress, TypeOK
<1>6. Kept => Kept'
  BY <1>1 DEF Kept
<1> QED BY <1>2, <1>4, <1>5, <1>6, <1>1, StepIInv

\* The persistent counter and rows survive, so an index lost with its handler
\* stays lost; the store in memory is empty again.
LEMMA CrashIInv ==
  ASSUME IInv, Crash
  PROVE  IInv'
<1> USE DEF IInv
<1>1. At("done") \in Call /\ At("done").pc = "done"
  BY AtFacts DEF Stages
<1>2. /\ handedOut' = handedOut
      /\ next' \in {next, 0} /\ rows' \in {rows, [s \in Requests |-> NoRow]}
      /\ crashes < MaxCrashes /\ crashes' = crashes + 1 /\ engine' = engine
      /\ \A s \in Requests : call'[s] = IF call[s].pc = "idle" THEN call[s] ELSE At("done")
      /\ \A s \in Requests : answer'[s] \in {answer[s], "error"}
      /\ call' \in [Requests -> Call] /\ answer' \in [Requests -> Answers]
  BY <1>1 DEF Crash, TypeOK, Answers
<1>3. TypeOK'
  <2>1. crashes' \in 0..MaxCrashes /\ next' \in 0..MaxIssued
    BY <1>2, CreationAssumption DEF TypeOK, CreationAssumption
  <2>2. rows' \in [Requests -> Row] /\ handedOut' \in [Requests -> Row]
    BY <1>2, NoRowIsRow DEF TypeOK
  <2> QED BY <1>2, <2>1, <2>2 DEF TypeOK
<1>4. Progress'
  BY <1>1, <1>2 DEF Progress
<1>5. ASSUME ~Forgotten' PROVE Ownership' /\ Kept'
  <2>1. Durable /\ ~Forgotten /\ engine' = engine
    BY <1>2, <1>5, CreationAssumption DEF Forgotten, Durable, TypeOK, CreationAssumption
  <2>2. next' = next /\ rows' = rows
    BY <2>1 DEF Crash
  <2>3. \A s \in Requests : Owned(s)' = Owned(s) \/ (Owned(s)' = -1 /\ handedOut'[s] = NoRow)
    BY <1>1, <1>2 DEF Owned
  <2>4. Ownership'
    BY <1>2, <2>1, <2>2, <2>3, OwnershipFrame
  <2> QED BY <1>2, <2>1, <2>2, <2>4 DEF Kept
<1> QED BY <1>3, <1>4, <1>5

LEMMA NextIInv == IInv /\ [Next]_vars => IInv'
<1> SUFFICES ASSUME IInv, [Next]_vars PROVE IInv'
  OBVIOUS
<1>1. CASE \E r \in Requests, p \in Params : Start(r, p)
  BY <1>1, StartIInv
<1>2. CASE \E r \in Requests : Step(r)
  <2>1. PICK r \in Requests : Step(r)
    BY <1>2
  <2>2. CASE ResolveFails(r) \/ TakeIndexFails(r) \/ DeriveFails(r) \/ InsertFails(r)
    BY <2>2, FailIInv DEF ResolveFails, TakeIndexFails, DeriveFails, InsertFails
  <2> QED BY <2>1, <2>2, ResolveIInv, TakeIndexIInv, DeriveIInv, InsertIInv, CreatedIInv DEF Step
<1>3. CASE \E r \in Requests : Timeout(r)
  BY <1>3, TimeoutIInv
<1>4. CASE Crash
  BY <1>4, CrashIInv
<1>5. CASE UNCHANGED vars
  BY <1>5 DEF vars, IInv, TypeOK, Ownership, Owned, Progress, Kept, Forgotten, Durable
<1> QED BY <1>1, <1>2, <1>3, <1>4, <1>5 DEF Next

THEOREM Invariance == Spec => []IInv
<1>1. IInv /\ [Next]_vars => IInv'
  BY NextIInv
<1> QED BY <1>1, InitIInv, PTL DEF Spec

\* The declared types hold for any number of requests and restarts, with
\* either repository.
THEOREM TypeCorrect == Spec => []TypeOK
<1>1. IInv => TypeOK
  BY DEF IInv
<1> QED BY <1>1, Invariance, PTL

\* No address is handed out twice, whichever requests fail, time out or are
\* cut off, until 2^32 indices are taken, or a restart empties the repository
\* in memory (NextDerivationIndex of either one).
THEOREM AddressesAreFresh == Spec => []FreshAddress
<1>1. IInv => FreshAddress
  <2> SUFFICES ASSUME IInv, ~Forgotten, NEW r \in Requests, NEW s \in Requests, r # s,
                      handedOut[r] # NoRow, handedOut[s] # NoRow
               PROVE  Address(handedOut[r]) # Address(handedOut[s])
    BY DEF FreshAddress
  <2>1. handedOut[r].index # handedOut[s].index
    BY DEF IInv, Ownership, Owned
  <2> QED BY <2>1 DEF Address
<1> QED BY <1>1, Invariance, PTL

\* A client told "created" finds its invoice stored, with SQLite ever after,
\* in memory until a restart (createInvoice, Create of either repository).
THEOREM AnsweredInvoicesAreStored == Spec => []CreatedIsStored
<1>1. IInv => CreatedIsStored
  BY DEF IInv, Progress, Kept, CreatedIsStored
<1> QED BY <1>1, Invariance, PTL

\* No invoice is ever inserted with an amount that is not positive, in either
\* repository (resolveAmount).
THEOREM AmountsArePositive == Spec => []StoredAmountsArePositive
<1>1. IInv => StoredAmountsArePositive
  BY DEF IInv, Progress, StoredAmountsArePositive
<1> QED BY <1>1, Invariance, PTL
=============================================================================
