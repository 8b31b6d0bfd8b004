------------------------- MODULE SignServiceProofs --------------------------
(* What the signing service promises, for every number of boards. *)
EXTENDS SignService, TLAPS

(* Every request under way has been recorded, every answer under way goes  *)
(* to a board that asked its sender.  AnswersAreAsked alone is not         *)
(* inductive: it says nothing of the request an answer is made from.       *)
RequestsAreAsked ==
  \A r \in inflight : r.kind = "request" => <<r.from, r.to>> \in asked

IInv == TypeOK /\ RequestsAreAsked /\ AnswersAreAsked /\ VerdictsAreAsked

LEMMA Inductive == IInv /\ [Next]_vars => IInv'
<1> SUFFICES ASSUME IInv, [Next]_vars
             PROVE  IInv'
  OBVIOUS
<1> USE DEF IInv, TypeOK, Message, Addresses, Verdicts, RequestsAreAsked,
            AnswersAreAsked, VerdictsAreAsked, HasAsked
<1>1. CASE UNCHANGED vars
  BY <1>1 DEF vars
<1>2. ASSUME NEW n \in Nodes, NEW d \in Addresses, Ask(n, d)
      PROVE  IInv'
  <2> DEFINE new == [kind |-> "request", from |-> n, to |-> d, good |-> FALSE]
  <2>1. /\ asked' = asked \cup {<<n, d>>}
        /\ inflight' = inflight \cup {new}
        /\ verdict' = verdict /\ disturbed' = disturbed
    BY <1>2 DEF Ask
  <2>2. new \in Message /\ new.kind = "request" /\ new.from = n /\ new.to = d
    OBVIOUS
  <2> HIDE DEF new
  <2>3. TypeOK'
    BY <2>1, <2>2
  <2>4. RequestsAreAsked'
    BY <2>1, <2>2
  <2>5. AnswersAreAsked'
    <3> SUFFICES ASSUME NEW a \in inflight', a.kind = "answer"
                 PROVE  a.to \in Nodes \ {a.from} /\ HasAsked(a.to, a.from)'
      OBVIOUS
    <3>1. a \in inflight
      BY <2>1, <2>2
    <3> QED
      BY <2>1, <3>1
  <2>6. VerdictsAreAsked'
    BY <2>1
  <2> QED
    BY <2>3, <2>4, <2>5, <2>6
<1>3. ASSUME NEW m \in Nodes, Answer(m)
      PROVE  IInv'
  <2>1. PICK r \in inflight, g \in BOOLEAN :
          /\ r.kind = "request" /\ r.to \in {m, Everyone} /\ r.from # m
          /\ inflight' \in SUBSET (inflight \cup
               {[kind |-> "answer", from |-> m, to |-> r.from, good |-> g]})
          /\ UNCHANGED <<asked, verdict, disturbed>>
    BY <1>3 DEF Answer
  <2> DEFINE new == [kind |-> "answer", from |-> m, to |-> r.from, good |-> g]
  <2>2. r.from \in Nodes \ {m} /\ HasAsked(r.from, m)
    BY <2>1
  <2>3. /\ new \in Message
        /\ new.kind = "answer" /\ new.from = m /\ new.to = r.from
    BY <2>2
  <2>4. /\ inflight' \subseteq inflight \cup {new}
        /\ asked' = asked /\ verdict' = verdict /\ disturbed' = disturbed
    BY <2>1
  <2> HIDE DEF new
  <2>5. TypeOK'
    BY <2>3, <2>4
  <2>6. RequestsAreAsked'
    BY <2>3, <2>4
  <2>7. AnswersAreAsked'
    BY <2>2, <2>3, <2>4
  <2>8. VerdictsAreAsked'
    BY <2>4
  <2> QED
    BY <2>5, <2>6, <2>7, <2>8
<1>4. ASSUME NEW n \in Nodes, Judge(n)
      PROVE  IInv'
  <2>1. PICK a \in inflight :
          /\ a.kind = "answer" /\ a.to = n
          /\ verdict' = [verdict EXCEPT ![n] = IF a.good THEN "ok" ELSE "failed"]
          /\ disturbed' = [disturbed EXCEPT ![n] = FALSE]
          /\ inflight' \in SUBSET inflight
          /\ UNCHANGED asked
    BY <1>4 DEF Judge
  <2>2. a.from \in Nodes \ {n} /\ HasAsked(n, a.from)
    BY <2>1
  <2>3. TypeOK'
    BY <2>1
  <2>4. RequestsAreAsked' /\ AnswersAreAsked'
    BY <2>1
  <2>5. VerdictsAreAsked'
    BY <2>1, <2>2
  <2> QED
    BY <2>3, <2>4, <2>5
<1>5. ASSUME NEW n \in Nodes, Disturb(n)
      PROVE  IInv'
  <2>1. TypeOK' /\ RequestsAreAsked' /\ AnswersAreAsked'
    BY <1>5 DEF Disturb
  <2>2. VerdictsAreAsked'
    BY <1>5 DEF Disturb
  <2> QED
    BY <2>1, <2>2
<1>6. CASE Forget
  BY <1>6 DEF Forget
<1> QED
  BY <1>1, <1>2, <1>3, <1>4, <1>5, <1>6 DEF Next

LEMMA Invariant == Spec => []IInv
<1>1. Init => IInv
  BY DEF Init, IInv, TypeOK, Verdicts, RequestsAreAsked, AnswersAreAsked,
         VerdictsAreAsked
<1> QED
  BY <1>1, Inductive, PTL DEF Spec

(* Nobody is answered unasked, on every number of boards                   *)
(* (recv.c:243-288).                                                       *)
THEOREM Unasked == Spec => []AnswersAreAsked
  BY Invariant, PTL DEF IInv

(* A verdict, other than of what is no answer, is printed only by a board  *)
(* that has asked another one (recv.c:292-324).                            *)
THEOREM NoVerdictUnasked == Spec => []VerdictsAreAsked
  BY Invariant, PTL DEF IInv
=============================================================================
