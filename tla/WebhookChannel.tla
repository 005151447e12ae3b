--------------------------- MODULE WebhookChannel ---------------------------
(***************************************************************************)
(* What the dispatcher promises a merchant with an endpoint, without       *)
(* goroutines, wire or shutdown: no word of a change that was not stored;  *)
(* word of it as often as it was tried and no more; confirmed only if the  *)
(* merchant agreed; given up only after every try; and lost only with the  *)
(* process.  WebhookDelivery is shown to implement this module.            *)
(***************************************************************************)
EXTENDS Integers

CONSTANTS Changes, MaxTries

VARIABLES word,   \* how far the word of each change has come
          tries,  \* how often it was sent
          heard,  \* the sendings the merchant handled, <<change, try>>
          agreed  \* those it answered with a 2xx

vars == <<word, tries, heard, agreed>>

Words == {"unsaid", "owed", "confirmed", "abandoned", "lost"}

Init ==
    /\ word = [c \in Changes |-> "unsaid"]
    /\ tries = [c \in Changes |-> 0]
    /\ heard = {} /\ agreed = {}

Owe(c) ==
    /\ word[c] = "unsaid"
    /\ word' = [word EXCEPT ![c] = "owed"]
    /\ UNCHANGED <<tries, heard, agreed>>

Try(c) ==
    /\ word[c] = "owed" /\ tries[c] < MaxTries
    /\ tries' = [tries EXCEPT ![c] = @ + 1]
    /\ UNCHANGED <<word, heard, agreed>>

\* A sending arrives once, at any time after it was made; the answer to the
\* last one may settle the matter.
Hear(c, n, ok) ==
    /\ n \in 1..tries[c] /\ <<c, n>> \notin heard
    /\ heard' = heard \cup {<<c, n>>}
    /\ agreed' = IF ok THEN agreed \cup {<<c, n>>} ELSE agreed
    /\ \/ UNCHANGED word
       \/ /\ word[c] = "owed" /\ n = tries[c]
          /\ ok \/ n = MaxTries
          /\ word' = [word EXCEPT ![c] = IF ok THEN "confirmed" ELSE "abandoned"]
    /\ UNCHANGED tries

GiveUp(c) ==
    /\ word[c] = "owed" /\ tries[c] = MaxTries
    /\ word' = [word EXCEPT ![c] = "abandoned"]
    /\ UNCHANGED <<tries, heard, agreed>>

\* The end of the process.
Die ==
    /\ word' = [c \in Changes |-> IF word[c] = "owed" THEN "lost" ELSE word[c]]
    /\ UNCHANGED <<tries, heard, agreed>>

Next ==
    \/ \E c \in Changes : Owe(c) \/ Try(c) \/ GiveUp(c)
    \/ \E c \in Changes, n \in 1..MaxTries, ok \in BOOLEAN : Hear(c, n, ok)
    \/ Die

Spec == Init /\ [][Next]_vars
=============================================================================
