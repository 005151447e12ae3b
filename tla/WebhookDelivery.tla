-------------------------- MODULE WebhookDelivery --------------------------
(***************************************************************************)
(* From a stored status change to the merchant's endpoint, and the end of  *)
(* the process: the goroutines that store a change and call Emit           *)
(* (invoice.Service.Sync, run by the watcher and by request handlers), the *)
(* dispatcher's delivery goroutine for each event                          *)
(* (internal/webhook/dispatcher.go), the network with the merchant behind  *)
(* it, and main's way from the signal to the exit (cmd/vexpay/main.go,     *)
(* App.Close).                                                             *)
(*                                                                         *)
(* Abstracted: bodies and signatures, the length of a backoff, the way a   *)
(* status change comes about (InvoiceSync).                                *)
(***************************************************************************)
EXTENDS Integers, FiniteSets

CONSTANTS
    Changes,     \* status changes, each stored at most once
    Watched,     \* those the watcher makes; request handlers make the others
    Unaddressed, \* those of a merchant with no endpoint
    Durable,     \* TRUE: SQLite; FALSE: the in-memory repository
    MaxAttempts  \* Dispatcher.maxAttempts

ASSUME DeliveryAssumption ==
    /\ Watched \subseteq Changes /\ Unaddressed \subseteq Changes
    /\ Durable \in BOOLEAN
    /\ MaxAttempts \in Nat \ {0}

VARIABLES
    main,      \* the main goroutine
    job,       \* what each change is going through
    wire,      \* external: copies under way, <<change, attempt>>
    arrived,   \* external: copies the merchant has handled
    accepted,  \* external: those it answered with a 2xx
    timedOut,  \* attempts the client stopped waiting for
    late       \* history: changes emitted after Close found nothing to wait for

vars == <<main, job, wire, arrived, accepted, timedOut, late>>
network == <<wire, arrived, accepted>>

Phases == {"serving", "draining", "waiting", "released", "closing",
           "exited", "panicked", "killed"}
Dead   == {"exited", "panicked", "killed"}
Alive  == main \notin Dead

Stages == {"none", "syncing", "stored", "failed",      \* in Sync
           "ready", "sending", "delivered", "exhausted", \* in the dispatcher
           "dropped"}
Job == [pc: Stages, attempt: 0..MaxAttempts]

\* A goroutine counted by the dispatcher's WaitGroup.
InFlight(c) == job[c].pc \in {"ready", "sending"}
InSync(c)   == job[c].pc \in {"syncing", "stored"}
Moves(c, stage) == job' = [job EXCEPT ![c] = [pc |-> stage, attempt |-> @.attempt]]

-----------------------------------------------------------------------------
Init ==
    /\ main = "serving"
    /\ job = [c \in Changes |-> [pc |-> "none", attempt |-> 0]]
    /\ wire = {} /\ arrived = {} /\ accepted = {}
    /\ timedOut = {} /\ late = {}

(* The callers of Emit. *)

\* The watcher syncs one invoice at a time and finishes its pass after the
\* signal; a request is taken while the server serves.
Begin(c) ==
    /\ Alive
    /\ job[c].pc = "none"
    /\ IF c \in Watched THEN \A d \in Watched : ~InSync(d) ELSE main = "serving"
    /\ Moves(c, "syncing")
    /\ UNCHANGED <<main, network, timedOut, late>>

\* The signal cancels the watcher's context and with it every SQLite call;
\* the in-memory repository ignores the context.
Store(c) ==
    /\ Alive
    /\ job[c].pc = "syncing"
    /\ c \in Watched /\ Durable => main = "serving"
    /\ Moves(c, "stored")
    /\ UNCHANGED <<main, network, timedOut, late>>

StoreFails(c) ==
    /\ Alive
    /\ job[c].pc = "syncing"
    /\ Moves(c, "failed")
    /\ UNCHANGED <<main, network, timedOut, late>>

\* wg.Add and the start of the goroutine.
Emit(c) ==
    /\ Alive
    /\ job[c].pc = "stored"
    /\ IF c \in Unaddressed THEN Moves(c, "dropped") /\ UNCHANGED late
       ELSE /\ Moves(c, "ready")
            /\ late' = IF main \in {"released", "closing"} THEN late \cup {c} ELSE late
    /\ UNCHANGED <<main, network, timedOut>>

\* An Add that meets the last Done while it releases the waiting Close panics.
EmitPanics(c) ==
    /\ job[c].pc = "stored"
    /\ c \notin Unaddressed
    /\ main = "released"
    /\ main' = "panicked"
    /\ UNCHANGED <<job, network, timedOut, late>>

(* deliverWithRetry, on a context nothing cancels. *)

\* The first attempt, or the next one when its backoff is over.
Send(c) ==
    /\ Alive
    /\ job[c].pc = "ready"
    /\ LET n == job[c].attempt + 1 IN
       /\ job' = [job EXCEPT ![c] = [pc |-> "sending", attempt |-> n]]
       /\ wire' = wire \cup {<<c, n>>}
    /\ UNCHANGED <<main, arrived, accepted, timedOut, late>>

\* The goroutine of a change ends.  The last wg.Done releases a waiting Close.
Ends(c, stage) ==
    /\ Moves(c, stage)
    /\ main' = IF main = "waiting" /\ \A d \in Changes \ {c} : ~InFlight(d)
               THEN "released" ELSE main

\* Mutant of Failed: one attempt too many.
FailedOneMore(c) ==
    \/ job[c].attempt <= MaxAttempts /\ Moves(c, "ready") /\ UNCHANGED main
    \/ job[c].attempt > MaxAttempts /\ Ends(c, "exhausted")

\* An attempt that brought no 2xx.
Failed(c) ==
    \/ job[c].attempt < MaxAttempts /\ Moves(c, "ready") /\ UNCHANGED main
    \/ job[c].attempt >= MaxAttempts /\ Ends(c, "exhausted")

\* Mutant of Answer: a 2xx does not end the loop.
AnswerUnheeded(c, n, ok) ==
    /\ <<c, n>> \in wire
    /\ wire' = wire \ {<<c, n>>}
    /\ arrived' = arrived \cup {<<c, n>>}
    /\ accepted' = IF ok THEN accepted \cup {<<c, n>>} ELSE accepted
    /\ IF Alive /\ job[c] = [pc |-> "sending", attempt |-> n]
       THEN Failed(c)
       ELSE UNCHANGED <<main, job>>
    /\ UNCHANGED <<timedOut, late>>

\* Mutant of Answer: any status is taken for a success.
AnswerAnyStatus(c, n, ok) ==
    /\ <<c, n>> \in wire
    /\ wire' = wire \ {<<c, n>>}
    /\ arrived' = arrived \cup {<<c, n>>}
    /\ accepted' = IF ok THEN accepted \cup {<<c, n>>} ELSE accepted
    /\ IF Alive /\ job[c] = [pc |-> "sending", attempt |-> n]
       THEN Ends(c, "delivered")
       ELSE UNCHANGED <<main, job>>
    /\ UNCHANGED <<timedOut, late>>

\* The merchant handles a copy and answers.  The answer counts if the client
\* is still waiting for that attempt.
Answer(c, n, ok) ==
    /\ <<c, n>> \in wire
    /\ wire' = wire \ {<<c, n>>}
    /\ arrived' = arrived \cup {<<c, n>>}
    /\ accepted' = IF ok THEN accepted \cup {<<c, n>>} ELSE accepted
    /\ IF Alive /\ job[c] = [pc |-> "sending", attempt |-> n]
       THEN IF ok THEN Ends(c, "delivered") ELSE Failed(c)
       ELSE UNCHANGED <<main, job>>
    /\ UNCHANGED <<timedOut, late>>

\* The copy is lost, or the connection refused.
Lose(c, n) ==
    /\ <<c, n>> \in wire
    /\ wire' = wire \ {<<c, n>>}
    /\ UNCHANGED <<main, job, arrived, accepted, timedOut, late>>

\* Mutant of TimesOut: a client without a timeout sees broken connections only.
TimesOutWhenBroken(c) ==
    /\ Alive
    /\ job[c].pc = "sending"
    /\ <<c, job[c].attempt>> \notin wire
    /\ timedOut' = timedOut \cup {<<c, job[c].attempt>>}
    /\ Failed(c)
    /\ UNCHANGED <<network, late>>

\* The client's timeout, or an error of its connection.  The copy may be on
\* its way still, or its answer may be.
TimesOut(c) ==
    /\ Alive
    /\ job[c].pc = "sending"
    /\ timedOut' = timedOut \cup {<<c, job[c].attempt>>}
    /\ Failed(c)
    /\ UNCHANGED <<network, late>>

(* The end of the process. *)

Becomes(phase) == main' = phase /\ UNCHANGED <<job, network, timedOut, late>>

\* SIGINT or SIGTERM, or a listener that failed: both end in Close, with the
\* watcher's context cancelled.
Signal == main = "serving" /\ Becomes("draining")

\* Mutant of CallsClose: Close does not wait.
CallsCloseAtOnce == main = "draining" /\ Becomes("closing")

\* srv.Shutdown returns when no connection is busy, or at its deadline; the
\* handler of a request that TimeoutHandler has answered may still run, and
\* nothing waits for the watcher.  Then wg.Wait returns at once, or waits.
CallsClose ==
    /\ main = "draining"
    /\ Becomes(IF \E c \in Changes : InFlight(c) THEN "waiting" ELSE "closing")

\* A released wg.Wait panics if the group is in use once more when it runs.
WaitReturns ==
    /\ main = "released"
    /\ Becomes(IF \E c \in Changes : InFlight(c) THEN "panicked" ELSE "closing")

\* Store.Close, and the end of main, which ends every goroutine.
Exit == main = "closing" /\ Becomes("exited")

Kill == Alive /\ Becomes("killed")

-----------------------------------------------------------------------------
(* What of this the merchant can see.  A change is owed to it from the     *)
(* moment it is stored, and lost when the process ends before Emit or in   *)
(* the middle of the retries: nothing resumes them.                        *)

aWord(c) ==
    IF c \in Unaddressed THEN "unsaid"
    ELSE CASE job[c].pc \in {"none", "syncing", "failed", "dropped"} -> "unsaid"
           [] job[c].pc \in {"stored", "ready", "sending"} -> IF Alive THEN "owed" ELSE "lost"
           [] job[c].pc = "delivered" -> "confirmed"
           [] job[c].pc = "exhausted" -> "abandoned"

aWords == [c \in Changes |-> aWord(c)]
aTries == [c \in Changes |-> job[c].attempt]

Channel == INSTANCE WebhookChannel WITH
    MaxTries <- MaxAttempts, word <- aWords, tries <- aTries,
    heard <- arrived, agreed <- accepted

-----------------------------------------------------------------------------
Deliver(c) == Send(c) \/ TimesOut(c)

Next ==
    \/ \E c \in Changes : Begin(c) \/ Store(c) \/ StoreFails(c) \/ Emit(c) \/ EmitPanics(c)
    \/ \E c \in Changes : Send(c) \/ TimesOut(c)
    \/ \E c \in Changes, n \in 1..MaxAttempts, ok \in BOOLEAN : Answer(c, n, ok)
    \/ \E c \in Changes, n \in 1..MaxAttempts : Lose(c, n)
    \/ Signal \/ CallsClose \/ WaitReturns \/ Exit
    \/ Kill

Spec == Init /\ [][Next]_vars

(***************************************************************************)
(* Fairness: goroutines run, the client's timeout fires, Shutdown has a    *)
(* deadline.  Nothing is asked of the merchant or the network, nor that a  *)
(* signal comes.                                                           *)
(***************************************************************************)
Fairness ==
    /\ \A c \in Changes : WF_vars(Store(c) \/ StoreFails(c)) /\ WF_vars(Emit(c))
    /\ \A c \in Changes : WF_vars(Deliver(c))
    /\ WF_vars(CallsClose \/ WaitReturns \/ Exit)

FairSpec == Spec /\ Fairness

-----------------------------------------------------------------------------
(* Properties.                                                             *)

TypeOK ==
    /\ main \in Phases
    /\ job \in [Changes -> Job]
    /\ wire \subseteq Changes \X (1..MaxAttempts)
    /\ arrived \subseteq Changes \X (1..MaxAttempts)
    /\ accepted \subseteq arrived
    /\ timedOut \subseteq Changes \X (1..MaxAttempts)
    /\ late \subseteq Changes

\* A merchant that answers 2xx in time is not bothered again, and is not
\* given up on: once an attempt is accepted before its client stops waiting,
\* the delivery is over, at that attempt, unless the process died first.
\* Answers to earlier attempts, still under way, do not confuse it
\* (dispatcher.go deliverWithRetry).
AcceptedIsFinal ==
    \A c \in Changes, n \in 1..MaxAttempts :
        <<c, n>> \in accepted \ timedOut /\ Alive =>
            job[c] = [pc |-> "delivered", attempt |-> n]

\* A goroutine that is ready has an attempt left, one that is sending has
\* made one, one that has not begun has made none.
AttemptsLeft ==
    \A c \in Changes :
        /\ job[c].pc = "ready" => job[c].attempt < MaxAttempts
        /\ job[c].pc = "sending" => job[c].attempt > 0
        /\ InSync(c) \/ job[c].pc = "none" => job[c].attempt = 0

\* What makes AcceptedIsFinal inductive: a copy under way belongs to the
\* attempt in hand or to one that was given up.
CopiesAreOwned ==
    \A c \in Changes, n \in 1..MaxAttempts :
        <<c, n>> \in wire /\ Alive =>
            <<c, n>> \in timedOut \/ job[c] = [pc |-> "sending", attempt |-> n]

\* Close waits for the deliveries that were started before it found none
\* left: whatever an exit or the WaitGroup's panic cuts off was emitted later.
CloseWaits ==
    main \in {"released", "closing", "exited", "panicked"} =>
        \A c \in Changes : InFlight(c) => c \in late

\* A copy is of an attempt that was made, and is on its way or was handled;
\* a change without an endpoint never reaches the retries.
CopiesWereSent ==
    /\ \A c \in Changes, n \in 1..MaxAttempts :
          <<c, n>> \in wire \cup arrived => n <= job[c].attempt
    /\ wire \cap arrived = {}
    /\ \A c \in Unaddressed : job[c].pc \in {"none", "syncing", "stored", "failed", "dropped"}
    /\ \A c \in Changes \ Unaddressed : job[c].pc # "dropped"
    /\ \A c \in Changes : job[c].pc = "exhausted" => job[c].attempt = MaxAttempts

\* What the merchant sees is the channel of WebhookChannel, through retries,
\* late answers, a Close that waits, one that panics, and a kill: it hears of
\* stored changes only, and at most once per attempt; a delivery is taken
\* for confirmed only if the merchant agreed to that very attempt, and given
\* up only after the last.
ImplementsChannel == Channel!Spec

DeliveryInv == TypeOK /\ AttemptsLeft /\ CopiesAreOwned /\ AcceptedIsFinal /\ CloseWaits

\* app.go Close: "it drains in-flight webhooks and closes the store".
CloseDrains == main = "exited" => \A c \in Changes : ~InFlight(c)

\* The process ends when it is told to, however slow the merchant is: the
\* attempts are bounded, and each by the client's timeout.
ShutdownEnds == main = "draining" ~> main \in Dead

\* A stored change is delivered, or given up on, or has no endpoint, or the
\* process is gone: no delivery goroutine is stuck.
EveryChangeSettles ==
    \A c \in Changes :
        job[c].pc = "stored" ~> job[c].pc \in {"delivered", "exhausted", "dropped"} \/ ~Alive
=============================================================================
