------------------------- MODULE BtcBackend_proofs -------------------------
(***************************************************************************)
(* The confirmations of a report hold for the whole of its total, for any  *)
(* number of transactions and any movement of the chain; and so the money  *)
(* of a settling report is there, as a sum grows with its terms.           *)
(***************************************************************************)
EXTENDS BtcBackend, FoldLemmas

LEMMA InitCall == Init => CallInv
<1> SUFFICES ASSUME Init PROVE CallInv
  OBVIOUS
<1>1. \A t \in Txs : place[t] = -1
  BY DEF Init, Gone
<1>2. place \in [Txs -> Int]
  BY DEF Init, Gone
<1>3. Ranges
  <2>1. tip = 0 /\ height = 0 /\ pc = "address" /\ counted = {} /\ lost = FALSE
    BY DEF Init
  <2>2. \A t \in Txs : place[t] \in Gone..tip
    BY <1>1, <2>1 DEF Gone
  <2> QED
    BY <1>2, <2>1, <2>2 DEF Ranges
<1> QED
  BY <1>3 DEF Init, CallInv, OldTip, StillThere

\* Only a transaction that vanishes leaves Present, and blocks come on top.
LEMMA CallIsPreserved == CallInv /\ [Next]_vars => CallInv'
<1> SUFFICES ASSUME CallInv, [Next]_vars PROVE CallInv'
  OBVIOUS
<1> USE BackendAssumption DEF CallInv, Ranges, OldTip, StillThere, Gone, Mempool
<1>1. CASE \E t \in Txs : Broadcast(t)
  <2> PICK t \in Txs : Broadcast(t)
    BY <1>1
  <2>1. place' \in [Txs -> Int] /\ \A u \in Txs : place'[u] \in Gone..tip
    BY DEF Broadcast
  <2>2. Present \subseteq Present'
    BY DEF Broadcast, Present
  <2> QED
    BY <2>1, <2>2 DEF Broadcast
<1>2. CASE \E t \in Txs : Vanish(t)
  <2> PICK t \in Txs : Vanish(t)
    BY <1>2
  <2>1. place' \in [Txs -> Int] /\ \A u \in Txs : place'[u] \in Gone..tip
    BY DEF Vanish
  <2>2. Present \ {t} \subseteq Present'
    BY DEF Vanish, Present
  <2>3. lost' \in BOOLEAN
    BY DEF Vanish
  <2>4. StillThere'
    <3> SUFFICES ASSUME pc' # "address", ~lost' PROVE counted' \subseteq Present'
      BY DEF StillThere
    <3>1. ~lost /\ t \notin counted /\ counted' = counted /\ pc' = pc
      BY DEF Vanish
    <3> QED
      BY <3>1, <2>2
  <2> QED
    BY <2>1, <2>3, <2>4 DEF Vanish
<1>3. CASE \E h \in 1..(tip + 1), top \in (tip + 1)..MaxTip : Blocks(h, top)
  <2> PICK h \in 1..(tip + 1), top \in (tip + 1)..MaxTip : Blocks(h, top)
    BY <1>3
  <2> DEFINE affected == {t \in Txs : place[t] = Mempool \/ place[t] >= h}
  <2>1. PICK put \in [affected -> {Mempool} \cup h..top] :
          place' = [t \in Txs |-> IF t \in affected THEN put[t] ELSE place[t]]
    BY DEF Blocks
  <2>2. tip' = top /\ top > tip /\ top \in Nat /\ h \in Nat \ {0}
    BY DEF Blocks
  <2>3. \A t \in Txs : place'[t] \in Gone..tip' /\ (place[t] # Gone => place'[t] # Gone)
    <3> SUFFICES ASSUME NEW t \in Txs
                 PROVE  place'[t] \in Gone..tip' /\ (place[t] # Gone => place'[t] # Gone)
      OBVIOUS
    <3>1. CASE t \in affected
      <4>1. put[t] \in {Mempool} \cup h..top
        BY <3>1
      <4> QED
        BY <2>1, <2>2, <3>1, <4>1
    <3>2. CASE t \notin affected
      BY <2>1, <2>2, <3>2
    <3> QED
      BY <3>1, <3>2
  <2>4. place' \in [Txs -> Int]
    <3>1. \A t \in Txs : place'[t] \in Int
      BY <2>2, <2>3
    <3> QED
      BY <2>1, <3>1
  <2>5. Present \subseteq Present'
    BY <2>3 DEF Present
  <2>6. UNCHANGED <<pc, height, counted, lost>>
    BY DEF Blocks
  <2> QED
    BY <2>2, <2>3, <2>4, <2>5, <2>6
<1>4. CASE ReadAddress
  BY <1>4 DEF ReadAddress, chain, Present
<1>5. CASE ReadTip
  BY <1>5 DEF ReadTip, chain, Present
<1>6. CASE ReadTxs
  BY <1>6 DEF ReadTxs, chain, Present
<1>7. CASE Fails
  BY <1>7 DEF Fails, chain, Present
<1>8. CASE UNCHANGED vars
  BY <1>8 DEF vars, Present
<1> QED
  BY <1>1, <1>2, <1>3, <1>4, <1>5, <1>6, <1>7, <1>8 DEF Next

\* The step that returns: the newest transaction is the shallowest of those
\* still there, and the tip it was measured from is not above the tip.
LEMMA ReturnedConfirmations ==
  ASSUME CallInv, ReadTxs, report' # Failed, ~lost
  PROVE  \A t \in counted : Depth(t) >= report'.confs
<1> USE BackendAssumption DEF CallInv, Ranges, Gone, Mempool
<1> SUFFICES ASSUME NEW t \in counted PROVE Depth(t) >= report'.confs
  OBVIOUS
<1>1. t \in Present /\ t \in Txs /\ height <= tip
  BY DEF ReadTxs, StillThere, OldTip
<1>2. Depth(t) \in Nat
  BY <1>1 DEF Depth
<1>3. PICK n \in Present : Newest(n) /\ report' = Report(total, Confirmations(n))
  BY <1>1 DEF ReadTxs
<1>4. report'.confs = Confirmations(n) /\ n \in Txs
  BY <1>3 DEF Report, Present
<1>5. CASE place[n] = Mempool \/ place[n] > height
  BY <1>2, <1>4, <1>5 DEF Confirmations
<1>6. CASE ~(place[n] = Mempool \/ place[n] > height)
  <2>1. place[t] # Mempool /\ place[t] <= place[n]
    BY <1>1, <1>3, <1>6 DEF Newest
  <2>2. place[t] > 0
    BY <1>1, <2>1 DEF Present
  <2>3. Depth(t) = tip - place[t] + 1 /\ Confirmations(n) = height - place[n] + 1
    BY <2>2, <1>6 DEF Depth, Confirmations
  <2> QED
    BY <1>1, <1>4, <2>1, <2>3
<1> QED
  BY <1>5, <1>6

THEOREM CallInvariance == Spec => []CallInv
<1>1. CallInv /\ [Next]_vars => CallInv'
  BY CallIsPreserved
<1> QED
  BY InitCall, <1>1, PTL DEF Spec

\* A report that counts n confirmations counts them for every transaction in
\* its total, whatever the chain did during the call, unless one vanished
\* (backend.go AddressStatus).
THEOREM ReportsCoverTheirTotal == Spec => ConfirmationsCoverTheTotal
<1> DEFINE Covered == Returns /\ ~lost => \A t \in counted : Depth(t) >= report'.confs
<1>1. CallInv /\ [Next]_vars => [Covered]_vars
  <2> SUFFICES ASSUME CallInv, [Next]_vars, Returns, ~lost
               PROVE  \A t \in counted : Depth(t) >= report'.confs
    OBVIOUS
  <2>1. ReadTxs
    BY DEF Next, vars, Returns, Broadcast, Vanish, Blocks, ReadAddress, ReadTip, Fails
  <2> QED
    BY <2>1, ReturnedConfirmations DEF Returns
<1>2. Spec => [][Covered]_vars
  BY <1>1, CallInvariance, PTL DEF Spec
<1> QED
  BY <1>2 DEF ConfirmationsCoverTheTotal

-----------------------------------------------------------------------------
(* The total.                                                              *)

\* While a call goes on, its total is that of the transactions it counted.
TotalIsCounted == pc # "address" => total = Sum(counted)
TotalInv == TypeOK /\ TotalIsCounted

LEMMA SumsOfValues ==
  ASSUME NEW S \in SUBSET Txs, NEW T \in SUBSET S
  PROVE  Sum(S) \in Nat /\ Sum(T) \in Nat /\ Sum(T) <= Sum(S)
<1>1. IsFiniteSet(S)
  BY BackendAssumption, FS_Subset DEF BackendAssumption
<1>2. AllNat(Value, S)
  BY BackendAssumption DEF BackendAssumption, AllNat
<1>3. Sum(S) = SumOver(Value, S) /\ Sum(T) = SumOver(Value, T)
  BY DEF Sum, SumOver, MapThenSumSet, MapThenFoldSet
<1> QED BY <1>1, <1>2, <1>3, SumGrows

LEMMA InitTotal == Init => TotalInv
<1> SUFFICES ASSUME Init PROVE TotalInv
  OBVIOUS
<1> USE BackendAssumption DEF BackendAssumption
<1>1. tip \in 0..MaxTip /\ height \in 0..MaxTip /\ place \in [Txs -> Gone..MaxTip]
  BY DEF Init, Gone
<1>2. report \in Observation
  BY DEF Init, Observation, NothingSeen
<1> QED BY <1>1, <1>2 DEF Init, TotalInv, TypeOK, TotalIsCounted

\* Whatever the chain does, the call keeps what it has read.
LEMMA ChainKeepsTotal ==
  ASSUME TotalInv, UNCHANGED <<pc, total, height, report, counted>>,
         tip' \in 0..MaxTip, place' \in [Txs -> Gone..MaxTip], lost' \in BOOLEAN
  PROVE  TotalInv'
BY DEF TotalInv, TypeOK, TotalIsCounted, Sum, MapThenSumSet, MapThenFoldSet

LEMMA BlocksKeepTotal ==
  ASSUME TotalInv, NEW h \in 1..(tip + 1), NEW top \in (tip + 1)..MaxTip, Blocks(h, top)
  PROVE  TotalInv'
<1> USE BackendAssumption DEF BackendAssumption
<1> DEFINE affected == {t \in Txs : place[t] = Mempool \/ place[t] >= h}
<1>1. PICK put \in [affected -> {Mempool} \cup h..top] :
        place' = [t \in Txs |-> IF t \in affected THEN put[t] ELSE place[t]]
  BY DEF Blocks
<1>2. tip \in 0..MaxTip /\ place \in [Txs -> Gone..MaxTip] /\ lost \in BOOLEAN
  BY DEF TotalInv, TypeOK
<1>3. top \in 0..MaxTip /\ \A n \in {Mempool} \cup h..top : n \in Gone..MaxTip
  BY <1>2 DEF Mempool, Gone
<1>4. place' \in [Txs -> Gone..MaxTip]
  BY <1>1, <1>2, <1>3
<1>5. UNCHANGED <<pc, total, height, report, counted>> /\ lost' \in BOOLEAN /\ tip' \in 0..MaxTip
  BY <1>2, <1>3 DEF Blocks
<1> QED BY <1>4, <1>5, ChainKeepsTotal

LEMMA ReadAddressTotals ==
  ASSUME TotalInv, ReadAddress
  PROVE  TotalInv'
<1>1. Present \in SUBSET Txs
  BY DEF Present
<1>2. Sum(Present) \in Nat
  BY <1>1, SumsOfValues
<1>3. total' = Sum(Present) /\ counted' = Present
  BY DEF ReadAddress
<1>4. total' \in Nat /\ counted' \subseteq Txs
  BY <1>1, <1>2, <1>3
<1>5. (TotalIsCounted)'
  <2>1. total' = Sum(counted')
    BY <1>3
  <2> QED BY <2>1 DEF TotalIsCounted, Sum, MapThenSumSet, MapThenFoldSet
<1>6. report' \in Observation
  <2>1. Report(0, 0) \in Observation
    BY DEF Report, Observation
  <2>2. report' = Report(0, 0) \/ report' = report
    BY DEF ReadAddress
  <2> QED BY <2>1, <2>2 DEF TotalInv, TypeOK
<1> QED BY <1>4, <1>5, <1>6 DEF ReadAddress, TotalInv, TypeOK, chain

LEMMA ReadTxsTotals ==
  ASSUME TotalInv, ReadTxs
  PROVE  TotalInv'
<1>1. report' \in Observation
  <2>1. total \in Nat
    BY DEF TotalInv, TypeOK
  <2>2. \A n \in Int : Report(total, n) \in Observation
    BY <2>1 DEF Report, Observation
  <2>3. \A t \in Present : Confirmations(t) \in Int
    BY BackendAssumption DEF BackendAssumption, Present, Confirmations, TotalInv, TypeOK, Gone
  <2> QED BY <2>2, <2>3 DEF ReadTxs
<1> QED BY <1>1 DEF ReadTxs, TotalInv, TypeOK, TotalIsCounted, chain

LEMMA TotalIsPreserved == TotalInv /\ [Next]_vars => TotalInv'
<1> SUFFICES ASSUME TotalInv, [Next]_vars PROVE TotalInv'
  OBVIOUS
<1> USE BackendAssumption DEF BackendAssumption
<1>1. CASE \E t \in Txs : Broadcast(t) \/ Vanish(t)
  <2> PICK t \in Txs : Broadcast(t) \/ Vanish(t)
    BY <1>1
  <2>1. place' \in [Txs -> Gone..MaxTip]
    BY DEF Broadcast, Vanish, TotalInv, TypeOK, Gone, Mempool
  <2>2. lost' \in BOOLEAN /\ tip' \in 0..MaxTip /\ UNCHANGED <<pc, total, height, report, counted>>
    BY DEF Broadcast, Vanish, TotalInv, TypeOK
  <2> QED BY <2>1, <2>2, ChainKeepsTotal
<1>2. CASE \E h \in 1..(tip + 1), top \in (tip + 1)..MaxTip : Blocks(h, top)
  BY <1>2, BlocksKeepTotal
<1>3. CASE ReadAddress
  BY <1>3, ReadAddressTotals
<1>4. CASE ReadTip
  BY <1>4 DEF ReadTip, TotalInv, TypeOK, TotalIsCounted, chain
<1>5. CASE ReadTxs
  BY <1>5, ReadTxsTotals
<1>6. CASE Fails
  <2>1. report' \in Observation
    BY <1>6 DEF Fails, Failed, Observation
  <2> QED BY <1>6, <2>1 DEF Fails, TotalInv, TypeOK, TotalIsCounted, chain
<1>7. CASE UNCHANGED vars
  BY <1>7 DEF vars, TotalInv, TypeOK, TotalIsCounted
<1> QED BY <1>1, <1>2, <1>3, <1>4, <1>5, <1>6, <1>7 DEF Next

\* The types of the backend and of what it reports.
THEOREM BackendTypeCorrect == Spec => []TypeOK
<1>1. TotalInv => TypeOK
  BY DEF TotalInv
<1> QED BY InitTotal, TotalIsPreserved, <1>1, PTL DEF Spec

\* A report that makes decide settle the invoice is backed, at the moment of
\* its last request, by transactions as deep as the invoice requires that are
\* worth its amount together, unless a counted one vanished (backend.go
\* AddressStatus, service.go decide).
THEOREM SettledReportsAreFunded == Spec => SettledReportIsFunded
<1> DEFINE Funded == Returns /\ ~lost /\ Pays(report') => FundedNow
<1>1. CallInv /\ TotalInv /\ [Next]_vars => [Funded]_vars
  <2> SUFFICES ASSUME CallInv, TotalInv, [Next]_vars, Returns, ~lost, Pays(report')
               PROVE  FundedNow
    OBVIOUS
  <2> USE BackendAssumption DEF BackendAssumption
  <2>1. ReadTxs
    BY DEF Next, vars, Returns, Broadcast, Vanish, Blocks, ReadAddress, ReadTip, Fails
  <2>2. \A t \in counted : Depth(t) >= report'.confs
    BY <2>1, ReturnedConfirmations DEF Returns
  <2>3. /\ report'.received = total /\ report'.confs \in Int
        /\ total = Sum(counted) /\ counted \in SUBSET Txs
    <3>1. report'.received = total
      BY <2>1 DEF ReadTxs, Report
    <3>2. report'.confs \in Int
      BY TotalIsPreserved DEF TotalInv, TypeOK, Observation
    <3> QED BY <2>1, <3>1, <3>2 DEF ReadTxs, TotalInv, TypeOK, TotalIsCounted
  <2>4. report'.received >= Amount /\ report'.confs >= Required
    BY DEF Pays, Deep, Covers
  <2> DEFINE deep == {t \in Txs : Depth(t) >= Required}
  <2>5. \A t \in Txs : Depth(t) \in Int
    BY DEF Depth, TotalInv, TypeOK, Gone
  <2>6. counted \in SUBSET deep
    BY <2>2, <2>3, <2>4, <2>5
  <2>7. Sum(counted) <= Sum(deep) /\ Sum(counted) \in Nat /\ Sum(deep) \in Nat
    <3> deep \in SUBSET Txs
      OBVIOUS
    <3> HIDE DEF deep
    <3> QED BY <2>6, SumsOfValues
  <2>8. Sum(deep) >= Amount
    <3> HIDE DEF deep
    <3> QED BY <2>3, <2>4, <2>7
  <2> QED BY <2>8 DEF FundedNow
<1>2. Spec => [][Funded]_vars
  BY <1>1, CallInvariance, InitTotal, TotalIsPreserved, PTL DEF Spec
<1> QED BY <1>2 DEF SettledReportIsFunded
=============================================================================
