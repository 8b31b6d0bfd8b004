---------------------------- MODULE SignService -----------------------------
(***************************************************************************)
(* What the signecc boards promise each other, without threads, radios or  *)
(* MAC headers: a node asks others to sign a text, a node that has been    *)
(* asked may answer, and a node that has got an answer prints a verdict.   *)
(* The channel may lose a message at any moment and may deliver one many   *)
(* times; it never makes one up.                                           *)
(*                                                                         *)
(* Module Signecc implements this specification.                           *)
(***************************************************************************)

CONSTANTS
  Nodes,            \* the boards
  Everyone          \* the broadcast address

VARIABLES
  asked,            \* <<n, d>>: n has sent a request to the address d
  inflight,         \* the messages that may still be acted upon
  verdict,          \* the last verdict each node has printed
  disturbed         \* disturbed[n]: it is of no answer

vars == <<asked, inflight, verdict, disturbed>>

Addresses == Nodes \cup {Everyone}

Verdicts == {"none", "ok", "failed"}

(* good: signing succeeded, which makes the signature in an answer valid.  *)
Message ==
  [kind: {"request", "answer"}, from: Nodes, to: Addresses, good: BOOLEAN]

TypeOK ==
  /\ asked \subseteq Nodes \X Addresses
  /\ inflight \subseteq Message
  /\ verdict \in [Nodes -> Verdicts]
  /\ disturbed \in [Nodes -> BOOLEAN]

Init ==
  /\ asked = {}
  /\ inflight = {}
  /\ verdict = [n \in Nodes |-> "none"]
  /\ disturbed = [n \in Nodes |-> FALSE]

-----------------------------------------------------------------------------

(* n has asked m, by its address or along with everyone.                   *)
HasAsked(n, m) == <<n, m>> \in asked \/ <<n, Everyone>> \in asked

Ask(n, d) ==
  /\ asked' = asked \cup {<<n, d>>}
  /\ inflight' = inflight \cup
       {[kind |-> "request", from |-> n, to |-> d, good |-> FALSE]}
  /\ UNCHANGED <<verdict, disturbed>>

(* m answers request r, or tries to and the answer is not sent.            *)
Answer(m) ==
  \E r \in inflight, g \in BOOLEAN :
    /\ r.kind = "request" /\ r.to \in {m, Everyone} /\ r.from # m
    /\ inflight' \in SUBSET (inflight \cup
         {[kind |-> "answer", from |-> m, to |-> r.from, good |-> g]})
    /\ UNCHANGED <<asked, verdict, disturbed>>

(* n prints a verdict on an answer it has received.                        *)
Judge(n) ==
  \E a \in inflight :
    /\ a.kind = "answer" /\ a.to = n
    /\ verdict' = [verdict EXCEPT ![n] = IF a.good THEN "ok" ELSE "failed"]
    /\ disturbed' = [disturbed EXCEPT ![n] = FALSE]
    /\ inflight' \in SUBSET inflight
    /\ UNCHANGED asked

(* Something else than an answer reaches n, which refuses it.              *)
Disturb(n) ==
  /\ verdict' = [verdict EXCEPT ![n] = "failed"]
  /\ disturbed' = [disturbed EXCEPT ![n] = TRUE]
  /\ UNCHANGED <<asked, inflight>>

(* Messages are lost, or have served their purpose.                        *)
Forget ==
  /\ inflight' \in SUBSET inflight
  /\ UNCHANGED <<asked, verdict, disturbed>>

Next ==
  \/ \E n \in Nodes, d \in Addresses : Ask(n, d)
  \/ \E n \in Nodes : Answer(n) \/ Judge(n) \/ Disturb(n)
  \/ Forget

Spec == Init /\ [][Next]_vars

-----------------------------------------------------------------------------

(* Nobody is answered unasked: an answer under way goes to a node that has *)
(* asked its sender.                                                       *)
AnswersAreAsked ==
  \A a \in inflight :
    a.kind = "answer" => a.to \in Nodes \ {a.from} /\ HasAsked(a.to, a.from)

(* A verdict is only ever printed by a node that has asked some other one, *)
(* unless it refuses what is no answer.                                    *)
VerdictsAreAsked ==
  \A n \in Nodes :
    verdict[n] # "none" /\ ~disturbed[n] => \E m \in Nodes \ {n} : HasAsked(n, m)
=============================================================================
