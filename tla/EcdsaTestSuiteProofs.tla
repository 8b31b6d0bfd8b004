------------------------ MODULE EcdsaTestSuiteProofs ------------------------
(***************************************************************************)
(* What a passed self test may have hidden.                                *)
(***************************************************************************)
EXTENDS EcdsaTestSuite, TLAPS

(* How far the function has come, and what cannot have failed yet.         *)
SoFar ==
  /\ pc \in {"prng", "load"} => failed \subseteq Rng \cup {"yarrowInit", "yarrowSeed"} /\ printed = {}
  /\ pc = "hash" => "hash" \notin failed
  /\ pc \in {"prng", "load", "hash", "sign"} => "sign" \notin failed
  /\ pc \in {"prng", "load", "hash", "sign", "verify"} =>
       "verify" \notin failed /\ "PASSED" \notin printed

(* What there is has not failed.                                           *)
NotFailed ==
  /\ seeded => "yarrowSeed" \notin failed
  /\ \A x \in Objects : x \in loaded => x \notin failed
  /\ signed => "sign" \notin failed /\ CanSign

(* While the test can still pass, FAILED has been printed for hashing only. *)
Blames ==
  /\ pc = "load" /\ seeded => error = "none"
  /\ pc = "hash" /\ seeded => "FAILED" \notin printed
  /\ (pc = "sign" /\ seeded) \/ (pc = "verify" /\ signed) =>
       ("FAILED" \in printed <=> "hash" \in failed)

IInv == TypeOK /\ SoFar /\ NotFailed /\ Blames /\ WhatPassedHides

USE DEF Parts, Rng, Objects, Calls, Errors, Unseen

LEMMA Starts == Init => IInv
BY DEF Init, IInv, TypeOK, SoFar, NotFailed, Blames, WhatPassedHides

LEMMA Inductive == IInv /\ [Next]_vars => IInv'
<1> SUFFICES ASSUME IInv, [Next]_vars PROVE IInv'
  OBVIOUS
<1> USE DEF IInv, Go
<1>1. CASE Prng
  BY <1>1 DEF Prng, CanSign, TypeOK, SoFar, NotFailed, Blames, WhatPassedHides
<1>2. CASE Load
  BY <1>2 DEF Load, Report, TypeOK, SoFar, NotFailed, Blames, WhatPassedHides
<1>3. CASE Hash
  BY <1>3 DEF Hash, Assign, Report, CanSign, TypeOK, SoFar, NotFailed, Blames, WhatPassedHides
<1>4. CASE Sign
  <2>1. \/ CanSign /\ signed' /\ error' = "none" /\ printed' = printed /\ failed' = failed
        \/ ~signed' /\ error' = "sign" /\ failed' = failed \cup {"sign"}
             /\ printed' = printed \cup {"FAILED"}
    BY <1>4 DEF Sign, Assign, Report
  <2>2. /\ pc = "sign" /\ pc' = "verify" /\ seeded' = seeded /\ loaded' = loaded
        /\ signed' \in BOOLEAN
    BY <1>4 DEF Sign
  <2>3. CanSign' <=> CanSign
    BY <2>2 DEF CanSign
  <2>4. CASE signed'
    BY <2>1, <2>2, <2>3, <2>4 DEF CanSign, TypeOK, SoFar, NotFailed, Blames, WhatPassedHides
  <2>5. CASE ~signed'
    BY <2>1, <2>2, <2>5 DEF TypeOK, SoFar, NotFailed, Blames, WhatPassedHides
  <2> QED
    BY <2>4, <2>5
<1>5. CASE Verify
  BY <1>5 DEF Verify, Assign, CanSign, TypeOK, SoFar, NotFailed, Blames, WhatPassedHides
<1>6. CASE Release
  BY <1>6 DEF Release, TypeOK, SoFar, NotFailed, Blames, WhatPassedHides
<1>7. CASE UNCHANGED vars
  BY <1>7 DEF vars, CanSign, TypeOK, SoFar, NotFailed, Blames, WhatPassedHides
<1> QED
  BY <1>1, <1>2, <1>3, <1>4, <1>5, <1>6, <1>7 DEF Next

LEMMA Invariant == Spec => []IInv
BY Starts, Inductive, PTL DEF Spec

(* Types of the self test's state, and nothing held after the release.     *)
THEOREM TypeCorrect == Spec => []TypeOK
<1>1. IInv => TypeOK
  BY DEF IInv
<1> QED
  BY <1>1, Invariant, PTL

(* A passed test has hidden nothing but failures to provide randomness, of *)
(* yarrowSeed excepted, and of hashing, and of hashing not in silence.     *)
THEOREM PassedHidesLittle == Spec => []WhatPassedHides
<1>1. IInv => WhatPassedHides
  BY DEF IInv
<1> QED
  BY <1>1, Invariant, PTL
=============================================================================
