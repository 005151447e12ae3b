----------------------- MODULE WebhookDelivery_proofs -----------------------
(***************************************************************************)
(* The safety of the dispatcher and of App.Close, for any number of        *)
(* changes and attempts.  Every action is first reduced to what it does to *)
(* the jobs (MovesFacts, EndsFacts, FailedFacts); the invariants then      *)
(* follow action by action.                                                *)
(***************************************************************************)
EXTENDS WebhookDelivery, TLAPS

Jobs == job \in [Changes -> Job]

LEMMA MovesFacts ==
  ASSUME Jobs, NEW c \in Changes, NEW stage \in Stages, Moves(c, stage)
  PROVE  /\ Jobs'
         /\ job'[c] = [pc |-> stage, attempt |-> job[c].attempt]
         /\ \A d \in Changes \ {c} : job'[d] = job[d]
<1>1. [pc |-> stage, attempt |-> job[c].attempt] \in Job
  BY DEF Jobs, Job
<1> QED
  BY <1>1 DEF Moves, Jobs

LEMMA EndsFacts ==
  ASSUME Jobs, NEW c \in Changes, NEW stage \in Stages, Ends(c, stage)
  PROVE  /\ Jobs'
         /\ job'[c] = [pc |-> stage, attempt |-> job[c].attempt]
         /\ \A d \in Changes \ {c} : job'[d] = job[d]
         /\ \/ main' = main
            \/ main' = "released" /\ main = "waiting" /\ \A d \in Changes \ {c} : ~InFlight(d)
BY MovesFacts DEF Ends

\* An attempt without a 2xx leaves the goroutine ready or ends it.
LEMMA FailedFacts ==
  ASSUME Jobs, NEW c \in Changes, Failed(c)
  PROVE  /\ Jobs'
         /\ job'[c].pc \in {"ready", "exhausted"} /\ job'[c].attempt = job[c].attempt
         /\ \A d \in Changes \ {c} : job'[d] = job[d]
         /\ \/ main' = main
            \/ /\ main' = "released" /\ main = "waiting"
               /\ job'[c].pc = "exhausted" /\ \A d \in Changes \ {c} : ~InFlight(d)
<1>0. "ready" \in Stages /\ "exhausted" \in Stages
  BY DEF Stages
<1>1. CASE job[c].attempt < MaxAttempts /\ Moves(c, "ready") /\ UNCHANGED main
  <2>1. Moves(c, "ready") /\ main' = main
    BY <1>1
  <2>2. /\ Jobs'
        /\ job'[c] = [pc |-> "ready", attempt |-> job[c].attempt]
        /\ \A d \in Changes \ {c} : job'[d] = job[d]
    BY <1>0, <2>1, MovesFacts
  <2> QED
    BY <2>1, <2>2
<1>2. CASE job[c].attempt >= MaxAttempts /\ Ends(c, "exhausted")
  <2>1. Ends(c, "exhausted")
    BY <1>2
  <2>2. /\ Jobs'
        /\ job'[c] = [pc |-> "exhausted", attempt |-> job[c].attempt]
        /\ \A d \in Changes \ {c} : job'[d] = job[d]
        /\ \/ main' = main
           \/ main' = "released" /\ main = "waiting" /\ \A d \in Changes \ {c} : ~InFlight(d)
    BY <1>0, <2>1, EndsFacts
  <2> QED
    BY <2>1, <2>2
<1> QED
  BY <1>1, <1>2 DEF Failed

\* ... ready only if it may try again.
LEMMA ReadyHasAnAttempt ==
  ASSUME Jobs, NEW c \in Changes, Failed(c)
  PROVE  job'[c].pc = "ready" => job[c].attempt < MaxAttempts
<1>1. CASE job[c].attempt < MaxAttempts
  BY <1>1
<1>2. CASE Ends(c, "exhausted")
  <2>1. "exhausted" \in Stages
    BY DEF Stages
  <2>2. job'[c] = [pc |-> "exhausted", attempt |-> job[c].attempt]
    BY <1>2, <2>1, EndsFacts
  <2> QED
    BY <2>2
<1> QED
  BY <1>1, <1>2 DEF Failed

\* The dispatcher's answer to a copy the merchant has handled.
LEMMA AnswerFacts ==
  ASSUME Jobs, NEW c \in Changes, NEW n \in 1..MaxAttempts, NEW ok \in BOOLEAN,
         Answer(c, n, ok)
  PROVE  /\ Jobs'
         /\ \A d \in Changes \ {c} : job'[d] = job[d]
         /\ \/ job' = job /\ main' = main /\ ~(Alive /\ job[c] = [pc |-> "sending", attempt |-> n])
            \/ /\ Alive /\ job[c] = [pc |-> "sending", attempt |-> n]
               /\ IF ok THEN job'[c] = [pc |-> "delivered", attempt |-> n]
                  ELSE job'[c].pc \in {"ready", "exhausted"}
               /\ \/ main' = main
                  \/ /\ main' = "released" /\ main = "waiting"
                     /\ ~InFlight(c)' /\ \A d \in Changes \ {c} : ~InFlight(d)
<1>1. CASE ~(Alive /\ job[c] = [pc |-> "sending", attempt |-> n])
  BY <1>1 DEF Answer, Jobs
<1>2. CASE Alive /\ job[c] = [pc |-> "sending", attempt |-> n] /\ ok
  <2>1. Ends(c, "delivered") /\ job[c].attempt = n
    BY <1>2 DEF Answer
  <2>2. "delivered" \in Stages
    BY DEF Stages
  <2>3. /\ Jobs'
        /\ job'[c] = [pc |-> "delivered", attempt |-> n]
        /\ \A d \in Changes \ {c} : job'[d] = job[d]
        /\ \/ main' = main
           \/ main' = "released" /\ main = "waiting" /\ \A d \in Changes \ {c} : ~InFlight(d)
    BY <2>1, <2>2, EndsFacts
  <2> QED
    BY <1>2, <2>3 DEF InFlight
<1>3. CASE Alive /\ job[c] = [pc |-> "sending", attempt |-> n] /\ ~ok
  <2>1. Failed(c)
    BY <1>3 DEF Answer
  <2> QED
    BY <1>3, <2>1, FailedFacts DEF InFlight
<1> QED
  BY <1>1, <1>2, <1>3

-----------------------------------------------------------------------------
LEMMA InitDelivery == Init => DeliveryInv
<1> SUFFICES ASSUME Init PROVE DeliveryInv
  OBVIOUS
<1> USE DeliveryAssumption
<1>1. TypeOK
  BY DEF Init, TypeOK, Job, Stages, Phases
<1>2. AttemptsLeft /\ CopiesAreOwned /\ AcceptedIsFinal
  BY DEF Init, AttemptsLeft, InSync, CopiesAreOwned, AcceptedIsFinal
<1>3. CloseWaits
  BY DEF Init, CloseWaits
<1> QED
  BY <1>1, <1>2, <1>3 DEF DeliveryInv

\* A caller of Emit: the change has had no attempt, and no copy of it exists
\* that is not given up.
LEMMA CallerPreserves ==
  ASSUME DeliveryInv, NEW c \in Changes, Begin(c) \/ Store(c) \/ StoreFails(c) \/ Emit(c)
  PROVE  DeliveryInv'
<1> USE DeliveryAssumption
<1>0. Jobs /\ TypeOK /\ AttemptsLeft /\ CopiesAreOwned /\ AcceptedIsFinal /\ CloseWaits
  BY DEF DeliveryInv, TypeOK, Jobs
<1>1. PICK stage \in {"syncing", "stored", "failed", "dropped", "ready"} :
        /\ Moves(c, stage)
        /\ stage = "ready" /\ main \in {"released", "closing"} => c \in late'
  BY DEF Begin, Store, StoreFails, Emit
<1>2. /\ Alive /\ job[c].pc \in {"none", "syncing", "stored"}
      /\ UNCHANGED <<main, wire, arrived, accepted, timedOut>>
      /\ late \subseteq late' /\ late' \subseteq late \cup {c}
  BY DEF Begin, Store, StoreFails, Emit, network
<1>3. stage \in Stages
  BY <1>1 DEF Stages
<1>4. /\ Jobs' /\ job'[c] = [pc |-> stage, attempt |-> job[c].attempt]
      /\ \A d \in Changes \ {c} : job'[d] = job[d]
  BY <1>0, <1>1, <1>3, MovesFacts
<1>5. job[c].attempt = 0 /\ job'[c].attempt = 0
  BY <1>0, <1>2, <1>4 DEF AttemptsLeft, InSync
<1>6. TypeOK'
  BY <1>0, <1>2, <1>4 DEF TypeOK, Jobs
<1>7. AttemptsLeft'
  BY <1>0, <1>4, <1>5 DEF AttemptsLeft, InSync
<1>8. CopiesAreOwned'
  BY <1>0, <1>2, <1>4 DEF CopiesAreOwned, Alive
<1>9. AcceptedIsFinal'
  BY <1>0, <1>2, <1>4 DEF AcceptedIsFinal, Alive
<1>10. CloseWaits'
  <2> SUFFICES ASSUME main' \in {"released", "closing", "exited", "panicked"},
                      NEW d \in Changes, InFlight(d)'
               PROVE  d \in late'
    BY DEF CloseWaits
  <2>1. main = main' /\ main \in {"released", "closing"}
    BY <1>2 DEF Alive, Dead
  <2>2. CASE d = c
    <3>1. stage = "ready"
      BY <1>1, <1>4, <2>2 DEF InFlight
    <3> QED
      BY <1>1, <2>1, <2>2, <3>1
  <2>3. CASE d # c
    BY <1>0, <1>2, <1>4, <2>1, <2>3 DEF CloseWaits, InFlight
  <2> QED
    BY <2>2, <2>3
<1> QED
  BY <1>6, <1>7, <1>8, <1>9, <1>10 DEF DeliveryInv

LEMMA SendPreserves ==
  ASSUME DeliveryInv, NEW c \in Changes, Send(c)
  PROVE  DeliveryInv'
<1> USE DeliveryAssumption
<1>0. Jobs /\ TypeOK /\ AttemptsLeft /\ CopiesAreOwned /\ AcceptedIsFinal /\ CloseWaits
  BY DEF DeliveryInv, TypeOK, Jobs
<1> DEFINE n == job[c].attempt + 1
<1>1. /\ Alive /\ job[c].pc = "ready"
      /\ job' = [job EXCEPT ![c] = [pc |-> "sending", attempt |-> n]]
      /\ wire' = wire \cup {<<c, n>>}
      /\ UNCHANGED <<main, arrived, accepted, timedOut, late>>
  BY DEF Send
<1>2. n \in 1..MaxAttempts
  BY <1>0, <1>1 DEF AttemptsLeft, Jobs, Job
<1> HIDE DEF n
<1>3. [pc |-> "sending", attempt |-> n] \in Job
  BY <1>2 DEF Job, Stages
<1>4. /\ Jobs' /\ job'[c] = [pc |-> "sending", attempt |-> n]
      /\ \A d \in Changes \ {c} : job'[d] = job[d]
  BY <1>0, <1>1, <1>3 DEF Jobs
<1>5. TypeOK'
  <2>1. wire' \subseteq Changes \X (1..MaxAttempts)
    BY <1>0, <1>1, <1>2 DEF TypeOK
  <2> QED
    BY <1>0, <1>1, <1>4, <2>1 DEF TypeOK, Jobs
<1>6. AttemptsLeft'
  <2>1. job'[c].attempt = n /\ n > 0
    BY <1>2, <1>4
  <2> QED
    BY <1>0, <1>4, <2>1 DEF AttemptsLeft, InSync
<1>7. CopiesAreOwned'
  BY <1>0, <1>1, <1>4 DEF CopiesAreOwned, Alive
<1>8. AcceptedIsFinal'
  BY <1>0, <1>1, <1>4 DEF AcceptedIsFinal, Alive
<1>9. CloseWaits'
  BY <1>0, <1>1, <1>4 DEF CloseWaits, InFlight
<1> QED
  BY <1>5, <1>6, <1>7, <1>8, <1>9 DEF DeliveryInv

\* A copy is answered: it leaves the wire, and the job moves only if it was
\* waiting for this very attempt.
LEMMA AnswerPreserves ==
  ASSUME DeliveryInv, NEW c \in Changes, NEW n \in 1..MaxAttempts, NEW ok \in BOOLEAN,
         Answer(c, n, ok)
  PROVE  DeliveryInv'
<1> USE DeliveryAssumption
<1>0. Jobs /\ TypeOK /\ AttemptsLeft /\ CopiesAreOwned /\ AcceptedIsFinal /\ CloseWaits
  BY DEF DeliveryInv, TypeOK, Jobs
<1>1. /\ <<c, n>> \in wire /\ wire' = wire \ {<<c, n>>}
      /\ arrived' = arrived \cup {<<c, n>>}
      /\ accepted' = IF ok THEN accepted \cup {<<c, n>>} ELSE accepted
      /\ UNCHANGED <<timedOut, late>>
  BY DEF Answer
<1> DEFINE Waited == Alive /\ job[c] = [pc |-> "sending", attempt |-> n]
<1>2. /\ Jobs'
      /\ \A d \in Changes \ {c} : job'[d] = job[d]
      /\ \/ job' = job /\ main' = main /\ ~Waited
         \/ /\ Waited
            /\ IF ok THEN job'[c] = [pc |-> "delivered", attempt |-> n]
               ELSE job'[c].pc \in {"ready", "exhausted"}
            /\ \/ main' = main
               \/ /\ main' = "released" /\ main = "waiting"
                  /\ ~InFlight(c)' /\ \A d \in Changes \ {c} : ~InFlight(d)
  BY <1>0, AnswerFacts
<1>3. main' \in Phases /\ (Alive' => Alive)
  BY <1>0, <1>2 DEF TypeOK, Phases, Alive, Dead
<1>4. TypeOK'
  <2>1. /\ wire' \subseteq Changes \X (1..MaxAttempts)
        /\ arrived' \subseteq Changes \X (1..MaxAttempts) /\ accepted' \subseteq arrived'
    BY <1>0, <1>1 DEF TypeOK
  <2> QED
    BY <1>0, <1>1, <1>2, <1>3, <2>1 DEF TypeOK, Jobs
<1>5. AttemptsLeft'
  <2>1. CASE ~Waited
    BY <1>0, <1>2, <2>1 DEF AttemptsLeft, InSync
  <2>2. CASE Waited /\ ok
    BY <1>0, <1>2, <2>2 DEF AttemptsLeft, InSync
  <2>3. CASE Waited /\ ~ok
    <3>1. Failed(c) /\ job[c].attempt = n
      BY <2>3 DEF Answer
    <3>2. job'[c].pc \in {"ready", "exhausted"} /\ job'[c].attempt = n
      BY <1>0, <3>1, FailedFacts
    <3>3. job'[c].pc = "ready" => n < MaxAttempts
      BY <1>0, <3>1, ReadyHasAnAttempt
    <3> QED
      BY <1>0, <1>2, <3>2, <3>3 DEF AttemptsLeft, InSync
  <2> QED
    BY <2>1, <2>2, <2>3
<1>6. CopiesAreOwned'
  <2> SUFFICES ASSUME NEW d \in Changes, NEW m \in 1..MaxAttempts,
                      <<d, m>> \in wire', Alive', <<d, m>> \notin timedOut'
               PROVE  job'[d] = [pc |-> "sending", attempt |-> m]
    BY DEF CopiesAreOwned
  <2>1. <<d, m>> \in wire /\ <<d, m>> # <<c, n>> /\ job[d] = [pc |-> "sending", attempt |-> m]
    BY <1>0, <1>1, <1>3 DEF CopiesAreOwned
  <2>2. CASE d = c
    <3>1. ~Waited
      BY <2>1, <2>2
    <3> QED
      BY <1>2, <2>1, <3>1
  <2>3. CASE d # c
    BY <1>2, <2>1, <2>3
  <2> QED
    BY <2>2, <2>3
<1>7. AcceptedIsFinal'
  <2> SUFFICES ASSUME NEW d \in Changes, NEW m \in 1..MaxAttempts,
                      <<d, m>> \in accepted' \ timedOut', Alive'
               PROVE  job'[d] = [pc |-> "delivered", attempt |-> m]
    BY DEF AcceptedIsFinal
  <2>1. CASE <<d, m>> \in accepted
    <3>1. job[d] = [pc |-> "delivered", attempt |-> m]
      BY <1>0, <1>1, <1>3, <2>1 DEF AcceptedIsFinal
    <3>2. d = c => ~Waited
      BY <3>1
    <3> QED
      BY <1>2, <3>1, <3>2
  <2>2. CASE <<d, m>> \notin accepted
    <3>1. d = c /\ m = n /\ ok
      BY <1>1, <2>2
    <3>2. Waited
      BY <1>0, <1>1, <1>3, <3>1 DEF CopiesAreOwned
    <3> QED
      BY <1>2, <3>1, <3>2
  <2> QED
    BY <2>1, <2>2
<1>8. CloseWaits'
  <2>1. CASE job' = job /\ main' = main
    BY <1>0, <1>1, <2>1 DEF CloseWaits, InFlight
  <2>2. CASE Waited /\ main' = main
    <3>1. \A d \in Changes : InFlight(d)' => InFlight(d)
      BY <1>2, <2>2 DEF InFlight
    <3> QED
      BY <1>0, <1>1, <2>2, <3>1 DEF CloseWaits
  <2>3. CASE ~InFlight(c)' /\ \A d \in Changes \ {c} : ~InFlight(d)
    BY <1>2, <2>3 DEF CloseWaits, InFlight
  <2> QED
    BY <1>2, <2>1, <2>2, <2>3
<1> QED
  BY <1>4, <1>5, <1>6, <1>7, <1>8 DEF DeliveryInv

LEMMA TimesOutPreserves ==
  ASSUME DeliveryInv, NEW c \in Changes, TimesOut(c)
  PROVE  DeliveryInv'
<1> USE DeliveryAssumption
<1>0. Jobs /\ TypeOK /\ AttemptsLeft /\ CopiesAreOwned /\ AcceptedIsFinal /\ CloseWaits
  BY DEF DeliveryInv, TypeOK, Jobs
<1>1. /\ Alive /\ job[c].pc = "sending" /\ Failed(c)
      /\ timedOut' = timedOut \cup {<<c, job[c].attempt>>}
      /\ UNCHANGED <<wire, arrived, accepted, late>>
  BY DEF TimesOut, network
<1>2. /\ Jobs'
      /\ job'[c].pc \in {"ready", "exhausted"} /\ job'[c].attempt = job[c].attempt
      /\ \A d \in Changes \ {c} : job'[d] = job[d]
      /\ \/ main' = main
         \/ /\ main' = "released" /\ main = "waiting"
            /\ job'[c].pc = "exhausted" /\ \A d \in Changes \ {c} : ~InFlight(d)
  BY <1>0, <1>1, FailedFacts
<1>3. main' \in Phases
  BY <1>0, <1>2 DEF TypeOK, Phases
<1>4. TypeOK'
  <2>1. job[c].attempt \in 1..MaxAttempts
    <3>1. job[c].attempt \in 0..MaxAttempts
      BY <1>0 DEF Jobs, Job
    <3>2. job[c].attempt > 0
      BY <1>0, <1>1 DEF AttemptsLeft
    <3> QED
      BY <3>1, <3>2
  <2>2. timedOut' \subseteq Changes \X (1..MaxAttempts)
    BY <1>0, <1>1, <2>1 DEF TypeOK
  <2> QED
    BY <1>0, <1>1, <1>2, <1>3, <2>2 DEF TypeOK, Jobs
<1>5. AttemptsLeft'
  <2>1. job'[c].pc = "ready" => job[c].attempt < MaxAttempts
    BY <1>0, <1>1, ReadyHasAnAttempt
  <2> QED
    BY <1>0, <1>2, <2>1 DEF AttemptsLeft, InSync
<1>6. CopiesAreOwned'
  <2> SUFFICES ASSUME NEW d \in Changes, NEW m \in 1..MaxAttempts,
                      <<d, m>> \in wire', <<d, m>> \notin timedOut'
               PROVE  job'[d] = [pc |-> "sending", attempt |-> m]
    BY DEF CopiesAreOwned
  <2>1. job[d] = [pc |-> "sending", attempt |-> m] /\ <<d, m>> # <<c, job[c].attempt>>
    BY <1>0, <1>1 DEF CopiesAreOwned
  <2>2. d # c
    BY <2>1
  <2> QED
    BY <1>2, <2>1, <2>2
<1>7. AcceptedIsFinal'
  <2> SUFFICES ASSUME NEW d \in Changes, NEW m \in 1..MaxAttempts,
                      <<d, m>> \in accepted' \ timedOut'
               PROVE  job'[d] = [pc |-> "delivered", attempt |-> m]
    BY DEF AcceptedIsFinal
  <2>1. job[d] = [pc |-> "delivered", attempt |-> m]
    BY <1>0, <1>1 DEF AcceptedIsFinal
  <2>2. d # c
    BY <1>1, <2>1
  <2> QED
    BY <1>2, <2>1, <2>2
<1>8. CloseWaits'
  <2>1. CASE main' = main
    <3>1. \A d \in Changes : InFlight(d)' => InFlight(d)
      BY <1>1, <1>2 DEF InFlight
    <3> QED
      BY <1>0, <1>1, <2>1, <3>1 DEF CloseWaits
  <2>2. CASE job'[c].pc = "exhausted" /\ \A d \in Changes \ {c} : ~InFlight(d)
    BY <1>2, <2>2 DEF CloseWaits, InFlight
  <2> QED
    BY <1>2, <2>1, <2>2
<1> QED
  BY <1>4, <1>5, <1>6, <1>7, <1>8 DEF DeliveryInv

\* A copy that is lost, a panic, and the steps of main: none moves a job.
LEMMA MainPreserves ==
  ASSUME DeliveryInv,
         \/ Signal \/ CallsClose \/ WaitReturns \/ Exit \/ Kill
         \/ \E c \in Changes, n \in 1..MaxAttempts : Lose(c, n)
         \/ \E c \in Changes : EmitPanics(c)
         \/ UNCHANGED vars
  PROVE  DeliveryInv'
<1> USE DeliveryAssumption
<1>0. Jobs /\ TypeOK /\ AttemptsLeft /\ CopiesAreOwned /\ AcceptedIsFinal /\ CloseWaits
  BY DEF DeliveryInv, TypeOK, Jobs
<1>1. UNCHANGED <<job, arrived, accepted, timedOut, late>> /\ wire' \subseteq wire
  BY DEF Signal, CallsClose, WaitReturns, Exit, Kill, Becomes, Lose, EmitPanics, network, vars
<1>2. main' \in Phases /\ (Alive' => Alive)
  BY <1>0 DEF Signal, CallsClose, WaitReturns, Exit, Kill, Becomes, Lose, EmitPanics, vars, Phases,
              TypeOK, Alive, Dead
<1>3. TypeOK' /\ AttemptsLeft'
  BY <1>0, <1>1, <1>2 DEF TypeOK, AttemptsLeft, InSync
<1>4. CopiesAreOwned' /\ AcceptedIsFinal'
  BY <1>0, <1>1, <1>2 DEF CopiesAreOwned, AcceptedIsFinal
<1>5. CloseWaits'
  <2>1. \A c \in Changes : InFlight(c)' <=> InFlight(c)
    BY <1>1 DEF InFlight
  <2>2. \/ main' = main
        \/ main' \notin {"released", "closing", "exited", "panicked"}
        \/ main \in {"released", "closing"}
        \/ \A c \in Changes : ~InFlight(c)
    BY DEF Signal, CallsClose, WaitReturns, Exit, Kill, Becomes, Lose, EmitPanics, vars
  <2> QED
    BY <1>0, <1>1, <2>1, <2>2 DEF CloseWaits
<1> QED
  BY <1>3, <1>4, <1>5 DEF DeliveryInv

-----------------------------------------------------------------------------
THEOREM DeliveryInvariance == Spec => []DeliveryInv
<1>1. DeliveryInv /\ [Next]_vars => DeliveryInv'
  BY CallerPreserves, SendPreserves, AnswerPreserves, TimesOutPreserves, MainPreserves DEF Next
<1> QED
  BY InitDelivery, <1>1, PTL DEF Spec

\* The states of a job and the network keep their types for any number of
\* changes and attempts: no attempt is made beyond the last.
THEOREM DeliveryTypeCorrect == Spec => []TypeOK
<1>1. DeliveryInv => TypeOK
  BY DEF DeliveryInv
<1> QED
  BY DeliveryInvariance, <1>1, PTL

\* A change accepted in time is delivered and never sent again
\* (dispatcher.go deliverWithRetry).
THEOREM AcceptedInTimeIsFinal == Spec => []AcceptedIsFinal
<1>1. DeliveryInv => AcceptedIsFinal
  BY DEF DeliveryInv
<1> QED
  BY DeliveryInvariance, <1>1, PTL

\* Close drops no delivery that was started before it found none left
\* (dispatcher.go Close, app.go Close).
THEOREM CloseWaitsForDeliveries == Spec => []CloseWaits
<1>1. DeliveryInv => CloseWaits
  BY DEF DeliveryInv
<1> QED
  BY DeliveryInvariance, <1>1, PTL

-----------------------------------------------------------------------------
(* WebhookDelivery implements WebhookChannel.                              *)

Quiet == {"none", "syncing", "stored", "failed", "dropped"}
IInv  == DeliveryInv /\ CopiesWereSent

\* CopiesWereSent, one change at a time.
SentOf(c) ==
    /\ \A n \in 1..MaxAttempts : <<c, n>> \in wire \cup arrived => n <= job[c].attempt
    /\ c \in Unaddressed => job[c].pc \in Quiet
    /\ c \notin Unaddressed => job[c].pc # "dropped"
    /\ job[c].pc = "exhausted" => job[c].attempt = MaxAttempts

LEMMA SentByChange ==
  CopiesWereSent <=> wire \cap arrived = {} /\ \A c \in Changes : SentOf(c)
BY DeliveryAssumption DEF CopiesWereSent, SentOf, DeliveryAssumption, Quiet

LEMMA SentAfter ==
  CopiesWereSent' <=> wire' \cap arrived' = {} /\ \A c \in Changes : SentOf(c)'
BY DeliveryAssumption DEF CopiesWereSent, SentOf, DeliveryAssumption, Quiet

\* An attempt that fails leaves its change as the refinement wants it.
LEMMA FailedIsLast ==
  ASSUME Jobs, NEW c \in Changes, Failed(c)
  PROVE  job'[c].pc = "exhausted" => job'[c].attempt = MaxAttempts
<1> USE DeliveryAssumption
<1>1. CASE job[c].attempt < MaxAttempts /\ Moves(c, "ready")
  <2>1. job'[c] = [pc |-> "ready", attempt |-> job[c].attempt]
    BY <1>1, MovesFacts DEF Stages
  <2> QED BY <2>1
<1>2. CASE job[c].attempt >= MaxAttempts
  <2>1. job'[c].attempt = job[c].attempt
    BY FailedFacts
  <2>2. job[c].attempt \in 0..MaxAttempts
    BY DEF Jobs, Job
  <2> QED BY <1>2, <2>1, <2>2 DEF DeliveryAssumption
<1> QED BY <1>1, <1>2 DEF Failed

\* The words of the other changes stay while the process neither starts nor ends.
LEMMA OneWord ==
  ASSUME NEW c \in Changes, Alive' = Alive, \A d \in Changes \ {c} : job'[d] = job[d]
  PROVE  /\ aWord(c)' = aWord(c) => aWords' = aWords
         /\ aWords' = [aWords EXCEPT ![c] = aWord(c)']
<1>1. ASSUME NEW d \in Changes \ {c} PROVE aWord(d)' = aWord(d)
  <2>1. job'[d] = job[d]
    OBVIOUS
  <2>2. CASE Alive
    BY <2>1, <2>2 DEF aWord
  <2>3. CASE ~Alive
    BY <2>1, <2>3 DEF aWord
  <2> QED BY <2>2, <2>3
<1> QED BY <1>1 DEF aWords

LEMMA OneTry ==
  ASSUME NEW c \in Changes, \A d \in Changes \ {c} : job'[d] = job[d]
  PROVE  /\ job'[c].attempt = job[c].attempt => aTries' = aTries
         /\ aTries' = [aTries EXCEPT ![c] = job'[c].attempt]
BY DEF aTries

Step == CopiesWereSent' /\ [Channel!Next]_(Channel!vars)

LEMMA CallerRefines ==
  ASSUME IInv, NEW c \in Changes, Begin(c) \/ Store(c) \/ StoreFails(c) \/ Emit(c)
  PROVE  Step
<1> USE DeliveryAssumption
<1>0. Jobs /\ CopiesWereSent
  BY DEF IInv, DeliveryInv, TypeOK, Jobs
<1>1. PICK stage \in Stages :
        /\ Moves(c, stage)
        /\ \/ job[c].pc = "none" /\ stage = "syncing"
           \/ job[c].pc = "syncing" /\ stage \in {"stored", "failed"}
           \/ job[c].pc = "stored" /\ stage = IF c \in Unaddressed THEN "dropped" ELSE "ready"
  BY DEF Begin, Store, StoreFails, Emit, Stages
<1>2. Alive /\ UNCHANGED <<main, wire, arrived, accepted>>
  BY DEF Begin, Store, StoreFails, Emit, network
<1>3. /\ job'[c] = [pc |-> stage, attempt |-> job[c].attempt]
      /\ \A d \in Changes \ {c} : job'[d] = job[d]
  BY <1>0, <1>1, MovesFacts
<1>4. Alive' = Alive /\ aTries' = aTries
  BY <1>2, <1>3, OneTry DEF Alive
<1>5. CopiesWereSent'
  <2>1. \A d \in Changes : SentOf(d)
    BY <1>0, SentByChange
  <2>2. SentOf(c)'
    BY <1>1, <1>2, <1>3, <2>1 DEF SentOf, Quiet
  <2>3. \A d \in Changes \ {c} : SentOf(d)'
    BY <1>2, <1>3, <2>1 DEF SentOf
  <2>4. wire' \cap arrived' = {}
    BY <1>0, <1>2 DEF CopiesWereSent
  <2> QED BY <2>2, <2>3, <2>4, SentAfter
<1>6. CASE stage = "stored" /\ c \notin Unaddressed
  <2>1. aWord(c) = "unsaid" /\ aWord(c)' = "owed"
    BY <1>1, <1>2, <1>3, <1>4, <1>6 DEF aWord
  <2>2. aWords[c] = "unsaid" /\ aWords' = [aWords EXCEPT ![c] = "owed"]
    BY <1>3, <1>4, <2>1, OneWord DEF aWords
  <2>3. Channel!Owe(c)
    BY <1>2, <1>4, <2>2 DEF Channel!Owe
  <2> QED BY <1>5, <2>3 DEF Step, Channel!Next
<1>7. CASE ~(stage = "stored" /\ c \notin Unaddressed)
  <2>1. aWord(c)' = aWord(c)
    BY <1>1, <1>2, <1>3, <1>4, <1>7 DEF aWord
  <2>2. aWords' = aWords
    BY <1>3, <1>4, <2>1, OneWord
  <2> QED BY <1>2, <1>4, <1>5, <2>2 DEF Step, Channel!vars
<1> QED BY <1>6, <1>7

LEMMA SendRefines ==
  ASSUME IInv, NEW c \in Changes, Send(c)
  PROVE  Step
<1> USE DeliveryAssumption
<1>0. Jobs /\ CopiesWereSent /\ AttemptsLeft
  BY DEF IInv, DeliveryInv, TypeOK, Jobs
<1> DEFINE n == job[c].attempt + 1
<1>1. /\ Alive /\ job[c].pc = "ready"
      /\ job' = [job EXCEPT ![c] = [pc |-> "sending", attempt |-> n]]
      /\ wire' = wire \cup {<<c, n>>} /\ UNCHANGED <<main, arrived, accepted>>
  BY DEF Send
<1>2. n \in 1..MaxAttempts /\ job[c].attempt \in Nat /\ job[c].attempt < MaxAttempts
  BY <1>0, <1>1 DEF AttemptsLeft, Jobs, Job
<1>3. /\ job'[c] = [pc |-> "sending", attempt |-> n]
      /\ \A d \in Changes \ {c} : job'[d] = job[d]
  BY <1>0, <1>1 DEF Jobs
<1>4. c \notin Unaddressed
  BY <1>0, <1>1 DEF CopiesWereSent
<1>5. CopiesWereSent'
  <2>1. \A d \in Changes : SentOf(d)
    BY <1>0, SentByChange
  <2>2. SentOf(c)'
    <3>1. ASSUME NEW m \in 1..MaxAttempts, <<c, m>> \in wire' \cup arrived'
          PROVE  m <= n
      BY <1>1, <1>2, <2>1, <3>1 DEF SentOf
    <3> QED BY <1>3, <1>4, <3>1 DEF SentOf
  <2>3. \A d \in Changes \ {c} : SentOf(d)'
    BY <1>1, <1>3, <2>1 DEF SentOf
  <2>4. <<c, n>> \notin arrived
    BY <1>2, <2>1 DEF SentOf
  <2>5. wire' \cap arrived' = {}
    BY <1>0, <1>1, <2>4 DEF CopiesWereSent
  <2> QED BY <2>2, <2>3, <2>5, SentAfter
<1>6. Alive' = Alive
  BY <1>1 DEF Alive
<1>7. aWord(c) = "owed" /\ aWord(c)' = "owed"
  BY <1>1, <1>3, <1>4, <1>6 DEF aWord
<1>8. aWords' = aWords /\ aWords[c] = "owed"
  BY <1>3, <1>6, <1>7, OneWord DEF aWords
<1>9. aTries[c] = job[c].attempt /\ aTries' = [aTries EXCEPT ![c] = n]
  BY <1>3, OneTry DEF aTries
<1>10. Channel!Try(c)
  BY <1>1, <1>2, <1>8, <1>9 DEF Channel!Try
<1> QED BY <1>5, <1>10 DEF Step, Channel!Next

LEMMA AnswerRefines ==
  ASSUME IInv, NEW c \in Changes, NEW n \in 1..MaxAttempts, NEW ok \in BOOLEAN,
         Answer(c, n, ok)
  PROVE  Step
<1> USE DeliveryAssumption
<1>0. Jobs /\ CopiesWereSent /\ TypeOK
  BY DEF IInv, DeliveryInv, TypeOK, Jobs
<1>1. /\ <<c, n>> \in wire /\ wire' = wire \ {<<c, n>>}
      /\ arrived' = arrived \cup {<<c, n>>}
      /\ accepted' = IF ok THEN accepted \cup {<<c, n>>} ELSE accepted
  BY DEF Answer
<1> DEFINE Waited == Alive /\ job[c] = [pc |-> "sending", attempt |-> n]
<1>2. /\ \A d \in Changes \ {c} : job'[d] = job[d]
      /\ \/ job' = job /\ main' = main /\ ~Waited
         \/ /\ Waited
            /\ IF ok THEN job'[c] = [pc |-> "delivered", attempt |-> n]
               ELSE job'[c].pc \in {"ready", "exhausted"}
            /\ main' = main \/ (main' = "released" /\ main = "waiting")
  BY <1>0, AnswerFacts
<1>3. Waited /\ ~ok =>
        job'[c].attempt = n /\ (job'[c].pc = "exhausted" => n = MaxAttempts)
  <2> SUFFICES ASSUME Waited, ~ok
               PROVE job'[c].attempt = n /\ (job'[c].pc = "exhausted" => n = MaxAttempts)
    OBVIOUS
  <2>1. Failed(c) /\ job[c].attempt = n
    BY DEF Answer
  <2>2. job'[c].attempt = n
    BY <1>0, <2>1, FailedFacts
  <2>3. job'[c].pc = "exhausted" => job'[c].attempt = MaxAttempts
    BY <1>0, <2>1, FailedIsLast
  <2> QED BY <2>2, <2>3
<1>4. Alive' = Alive
  BY <1>2 DEF Alive, Dead
<1>5. job'[c].attempt = job[c].attempt /\ aTries' = aTries
  <2>1. job'[c].attempt = job[c].attempt
    BY <1>2, <1>3
  <2> QED BY <1>2, <2>1, OneTry
<1>6. Waited => c \notin Unaddressed
  BY <1>0 DEF CopiesWereSent
<1>7. n \in 1..aTries[c] /\ <<c, n>> \notin arrived
  <2>1. n <= job[c].attempt /\ <<c, n>> \notin arrived
    BY <1>0, <1>1 DEF CopiesWereSent
  <2>2. aTries[c] = job[c].attempt /\ job[c].attempt \in 0..MaxAttempts
    BY <1>0 DEF aTries, Jobs, Job
  <2> QED BY <2>1, <2>2
<1>8. CopiesWereSent'
  <2>1. \A d \in Changes : SentOf(d)
    BY <1>0, SentByChange
  <2>2. wire' \cup arrived' \subseteq wire \cup arrived
    BY <1>1
  <2>3. SentOf(c)'
    <3>1. job'[c].pc = job[c].pc \/ job'[c].pc \in {"delivered", "ready", "exhausted"}
      BY <1>2
    <3>2. \A m \in 1..MaxAttempts : <<c, m>> \in wire' \cup arrived' => m <= job'[c].attempt
      BY <1>5, <2>1, <2>2 DEF SentOf
    <3>3. job'[c].pc = "exhausted" => job'[c].attempt = MaxAttempts
      <4>1. CASE job' = job
        BY <2>1, <4>1 DEF SentOf
      <4>2. CASE Waited /\ ok
        BY <1>2, <4>2
      <4>3. CASE Waited /\ ~ok
        BY <1>3, <4>3
      <4> QED BY <1>2, <4>1, <4>2, <4>3
    <3>4. CASE job' = job
      BY <2>1, <3>2, <3>4 DEF SentOf
    <3>5. CASE Waited
      <4>1. job'[c].pc \in {"delivered", "ready", "exhausted"}
        BY <1>2, <3>5
      <4> QED BY <1>6, <3>2, <3>3, <3>5, <4>1 DEF SentOf
    <3> QED BY <1>2, <3>4, <3>5
  <2>4. \A d \in Changes \ {c} : SentOf(d)'
    BY <1>2, <2>1, <2>2 DEF SentOf
  <2>5. wire' \cap arrived' = {}
    BY <1>0, <1>1 DEF CopiesWereSent
  <2> QED BY <2>3, <2>4, <2>5, SentAfter
<1>9. \/ aWords' = aWords
      \/ /\ aWords[c] = "owed" /\ n = aTries[c] /\ (ok \/ n = MaxAttempts)
         /\ aWords' = [aWords EXCEPT ![c] = IF ok THEN "confirmed" ELSE "abandoned"]
  <2>1. CASE job' = job /\ main' = main
    BY <2>1 DEF aWords, aWord, Alive
  <2>2. CASE Waited
    <3>1. aWord(c) = "owed" /\ n = aTries[c] /\ aWords[c] = "owed"
      BY <1>6, <2>2 DEF aWord, aTries, aWords
    <3>2. aWords' = [aWords EXCEPT ![c] = aWord(c)'] /\ (aWord(c)' = aWord(c) => aWords' = aWords)
      BY <1>2, <1>4, OneWord
    <3>3. CASE ok
      <4>1. aWord(c)' = "confirmed"
        BY <1>2, <1>6, <2>2, <3>3 DEF aWord
      <4> QED BY <3>1, <3>2, <3>3, <4>1
    <3>4. CASE ~ok /\ job'[c].pc = "exhausted"
      <4>1. aWord(c)' = "abandoned" /\ n = MaxAttempts
        BY <1>3, <1>6, <2>2, <3>4 DEF aWord
      <4> QED BY <3>1, <3>2, <3>4, <4>1
    <3>5. CASE ~ok /\ job'[c].pc = "ready"
      <4>1. aWord(c)' = "owed"
        BY <1>4, <1>6, <2>2, <3>5 DEF aWord
      <4> QED BY <3>1, <3>2, <4>1
    <3> QED BY <1>2, <2>2, <3>3, <3>4, <3>5
  <2> QED BY <1>2, <2>1, <2>2
<1>10. Channel!Hear(c, n, ok)
  BY <1>1, <1>5, <1>7, <1>9 DEF Channel!Hear
<1> QED BY <1>8, <1>10 DEF Step, Channel!Next

LEMMA TimesOutRefines ==
  ASSUME IInv, NEW c \in Changes, TimesOut(c)
  PROVE  Step
<1> USE DeliveryAssumption
<1>0. Jobs /\ CopiesWereSent
  BY DEF IInv, DeliveryInv, TypeOK, Jobs
<1>1. Alive /\ job[c].pc = "sending" /\ Failed(c) /\ UNCHANGED <<wire, arrived, accepted>>
  BY DEF TimesOut, network
<1>2. /\ job'[c].pc \in {"ready", "exhausted"} /\ job'[c].attempt = job[c].attempt
      /\ \A d \in Changes \ {c} : job'[d] = job[d]
      /\ main' = main \/ (main' = "released" /\ main = "waiting")
  BY <1>0, <1>1, FailedFacts
<1>3. job'[c].pc = "exhausted" => job'[c].attempt = MaxAttempts
  BY <1>0, <1>1, FailedIsLast
<1>4. Alive' = Alive /\ aTries' = aTries /\ c \notin Unaddressed
  BY <1>0, <1>1, <1>2, OneTry DEF Alive, Dead, CopiesWereSent
<1>5. CopiesWereSent'
  <2>1. \A d \in Changes : SentOf(d)
    BY <1>0, SentByChange
  <2>2. SentOf(c)'
    BY <1>1, <1>2, <1>3, <1>4, <2>1 DEF SentOf
  <2>3. \A d \in Changes \ {c} : SentOf(d)'
    BY <1>1, <1>2, <2>1 DEF SentOf
  <2>4. wire' \cap arrived' = {}
    BY <1>0, <1>1 DEF CopiesWereSent
  <2> QED BY <2>2, <2>3, <2>4, SentAfter
<1>6. aWord(c) = "owed" /\ aWords[c] = "owed"
  BY <1>1, <1>4 DEF aWord, aWords
<1>7. aWords' = [aWords EXCEPT ![c] = aWord(c)'] /\ (aWord(c)' = aWord(c) => aWords' = aWords)
  BY <1>2, <1>4, OneWord
<1>8. CASE job'[c].pc = "ready"
  <2>1. aWord(c)' = "owed"
    BY <1>1, <1>4, <1>8 DEF aWord
  <2> QED BY <1>1, <1>4, <1>5, <1>6, <1>7, <2>1 DEF Step, Channel!vars
<1>9. CASE job'[c].pc = "exhausted"
  <2>1. aWord(c)' = "abandoned" /\ aTries[c] = MaxAttempts
    BY <1>2, <1>3, <1>4, <1>9 DEF aWord, aTries
  <2>2. Channel!GiveUp(c)
    BY <1>1, <1>4, <1>6, <1>7, <2>1 DEF Channel!GiveUp
  <2> QED BY <1>5, <2>2 DEF Step, Channel!Next
<1> QED BY <1>2, <1>8, <1>9

\* No job moves: the words stay, or the process ends and those owed are lost.
LEMMA MainRefines ==
  ASSUME IInv,
         \/ Signal \/ CallsClose \/ WaitReturns \/ Exit \/ Kill
         \/ \E c \in Changes, n \in 1..MaxAttempts : Lose(c, n)
         \/ \E c \in Changes : EmitPanics(c)
         \/ UNCHANGED vars
  PROVE  Step
<1>1. UNCHANGED <<job, arrived, accepted>> /\ wire' \subseteq wire
  BY DEF Signal, CallsClose, WaitReturns, Exit, Kill, Becomes, Lose, EmitPanics, network, vars
<1>2. main' = main \/ (Alive' => Alive)
  BY DEF Signal, CallsClose, WaitReturns, Exit, Kill, Becomes, Lose, EmitPanics, vars, Alive, Dead
<1>3. CopiesWereSent'
  BY <1>1 DEF IInv, CopiesWereSent
<1>4. aTries' = aTries
  BY <1>1 DEF aTries
<1>5. CASE Alive' = Alive
  <2>1. aWords' = aWords
    BY <1>1, <1>5 DEF aWords, aWord
  <2> QED BY <1>1, <1>3, <1>4, <2>1 DEF Step, Channel!vars
<1>6. CASE Alive /\ ~Alive'
  <2>1. ASSUME NEW c \in Changes
        PROVE  aWord(c)' = IF aWord(c) = "owed" THEN "lost" ELSE aWord(c)
    <3>1. job[c].pc \in Stages
      BY DEF IInv, DeliveryInv, TypeOK, Job
    <3>2. CASE c \in Unaddressed
      BY <3>2 DEF aWord
    <3>3. CASE c \notin Unaddressed /\ job[c].pc \in {"stored", "ready", "sending"}
      <4>1. aWord(c) = "owed" /\ aWord(c)' = "lost"
        BY <1>1, <1>6, <3>3 DEF aWord
      <4> QED BY <4>1
    <3>4. CASE c \notin Unaddressed /\ job[c].pc \notin {"stored", "ready", "sending"}
      <4>1. aWord(c)' = aWord(c) /\ aWord(c) # "owed"
        BY <1>1, <3>1, <3>4 DEF aWord, Stages
      <4> QED BY <4>1
    <3> QED BY <3>2, <3>3, <3>4
  <2>2. Channel!Die
    BY <1>1, <1>4, <2>1 DEF Channel!Die, aWords
  <2> QED BY <1>3, <2>2 DEF Step, Channel!Next
<1>7. Alive' \in BOOLEAN /\ Alive \in BOOLEAN
  BY DEF Alive
<1>8. (main' = main => Alive' = Alive)
  BY DEF Alive
<1> QED BY <1>2, <1>5, <1>6, <1>7, <1>8

LEMMA ChannelInit == Init => Channel!Init /\ CopiesWereSent
<1> SUFFICES ASSUME Init PROVE Channel!Init /\ CopiesWereSent
  OBVIOUS
<1>1. \A c \in Changes : job[c] = [pc |-> "none", attempt |-> 0]
  BY DEF Init
<1>2. \A c \in Changes : aWord(c) = "unsaid"
  BY <1>1 DEF aWord
<1>3. Channel!Init
  BY <1>1, <1>2 DEF Init, Channel!Init, aWords, aTries
<1>4. CopiesWereSent
  BY <1>1, DeliveryAssumption DEF Init, CopiesWereSent, DeliveryAssumption
<1> QED BY <1>3, <1>4

\* What the merchant sees is the channel of WebhookChannel, for any number of
\* changes and attempts: it hears of stored changes only, at most once for
\* each attempt; a delivery counts as confirmed only by a 2xx to the attempt
\* in hand, and is given up only after the last (dispatcher.go).
THEOREM DeliveryImplementsChannel == Spec => ImplementsChannel
<1>1. CopiesWereSent /\ DeliveryInv /\ [Next]_vars => CopiesWereSent' /\ [Channel!Next]_(Channel!vars)
  <2> SUFFICES ASSUME IInv, [Next]_vars PROVE Step
    BY DEF IInv, Step
  <2>1. CASE \E c \in Changes : Begin(c) \/ Store(c) \/ StoreFails(c) \/ Emit(c)
    BY <2>1, CallerRefines
  <2>2. CASE \E c \in Changes : Send(c)
    BY <2>2, SendRefines
  <2>3. CASE \E c \in Changes : TimesOut(c)
    BY <2>3, TimesOutRefines
  <2>4. CASE \E c \in Changes, n \in 1..MaxAttempts, ok \in BOOLEAN : Answer(c, n, ok)
    BY <2>4, AnswerRefines
  <2>5. CASE \/ Signal \/ CallsClose \/ WaitReturns \/ Exit \/ Kill
             \/ \E c \in Changes, n \in 1..MaxAttempts : Lose(c, n)
             \/ \E c \in Changes : EmitPanics(c)
             \/ UNCHANGED vars
    BY <2>5, MainRefines
  <2> QED BY <2>1, <2>2, <2>3, <2>4, <2>5 DEF Next
<1> QED BY <1>1, ChannelInit, DeliveryInvariance, PTL DEF Spec, ImplementsChannel, Channel!Spec
=============================================================================
