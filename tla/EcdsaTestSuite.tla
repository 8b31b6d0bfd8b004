--------------------------- MODULE EcdsaTestSuite ---------------------------
(***************************************************************************)
(* The self test of the cryptographic library on the serial node           *)
(* (node/src/ecdsa_test_suite.c): seed a generator, load a key pair, hash, *)
(* sign, verify.  Any call may fail.  No failure stops the test, most are  *)
(* printed, and one variable holds the error of the last call that has     *)
(* assigned it.                                                            *)
(*                                                                         *)
(* External: the library, which may fail at any call for want of memory;   *)
(* which signs only with a seeded generator, the domain parameters and the *)
(* private key; and which accepts a signature only with the parameters and *)
(* the public key, when it was made, of the digest it was made of.         *)
(***************************************************************************)

VARIABLES
  pc,               \* the next part of the function
  error,            \* error
  seeded,           \* the generator can give numbers
  loaded,           \* what ecLoadDomainParameters and mpiReadRaw have set
  signed,           \* signature is one of digest
  printed,          \* the test results printed
  failed            \* history: the calls that have failed

vars == <<pc, error, seeded, loaded, signed, printed, failed>>

-----------------------------------------------------------------------------

Parts   == {"prng", "load", "hash", "sign", "verify", "release", "done"}
Objects == {"params", "privateKey", "publicKey", "r"}
Rng     == {"HAL_RNG_Init", "HAL_RNG_GenerateRandomNumber"}
Calls   == {"yarrowInit", "yarrowSeed", "addEntropy", "hash", "sign", "verify"}
             \cup Rng \cup Objects
Errors  == {"none"} \cup Calls

(* Behind the initialisations of parameters, keys and signature, which     *)
(* return nothing.                                                         *)
Init ==
  /\ pc = "prng" /\ error = "none"
  /\ seeded = FALSE /\ loaded = {} /\ signed = FALSE
  /\ printed = {} /\ failed = {}

(* The function goes on to the next part whatever has happened.            *)
Go(from, to) == pc = from /\ pc' = to

(* error is what this call returns; it succeeds only when it can.          *)
Assign(call, can) ==
  \/ can /\ error' = "none" /\ UNCHANGED failed
  \/ error' = call /\ failed' = failed \cup {call}

(* "Any error to report?"                                                  *)
Report == printed' = printed \cup (IF error' = "none" THEN {} ELSE {"FAILED"})

-----------------------------------------------------------------------------

(* The seed is drawn from the RNG, whose results are not looked at; when   *)
(* it gives no numbers, the seed is what the variables held.  Then         *)
(* yarrowInit and yarrowSeed: the first one's error is traced and          *)
(* overwritten by the second one's.                                        *)
Prng ==
  /\ Go("prng", "load")
  /\ \E init \in SUBSET (Rng \cup {"yarrowInit"}), seed \in SUBSET {"yarrowSeed"} :
       /\ failed' = init \cup seed
       /\ error' = IF seed = {} THEN "none" ELSE "yarrowSeed"
       /\ seeded' = (seed = {})
  /\ UNCHANGED <<loaded, signed, printed>>

(* ecLoadDomainParameters and four times mpiReadRaw, the one of a point's  *)
(* two coordinates; their results are not looked at, and the error that is *)
(* reported behind them is yarrowSeed's.  Then r is added to the entropy,  *)
(* and that result is not looked at either.                                *)
Load ==
  /\ Go("load", "hash")
  /\ loaded' \in SUBSET Objects
  /\ \E entropy \in SUBSET {"addEntropy"} :
       failed' = failed \cup (Objects \ loaded') \cup entropy
  /\ UNCHANGED error
  /\ Report
  /\ UNCHANGED <<seeded, signed>>

(* SHA256_HASH_ALGO->compute: when it fails, digest is what the stack held *)
(* and is used all the same.                                               *)
Hash ==
  /\ Go("hash", "sign")
  /\ Assign("hash", TRUE)
  /\ Report
  /\ UNCHANGED <<seeded, loaded, signed>>

CanSign == seeded /\ {"params", "privateKey"} \subseteq loaded

(* ecdsaGenerateSignature.                                                 *)
Sign ==
  /\ Go("sign", "verify")
  /\ Assign("sign", CanSign)
  /\ signed' = (error' = "none")
  /\ Report
  /\ UNCHANGED <<seeded, loaded>>

(* A plausible slip: a signature that could not be made is not verified,   *)
(* and the error of that is the last.                                      *)
VerifyIfSigned ==
  /\ Go("verify", "release")
  /\ IF error = "none" THEN Assign("verify", TRUE) ELSE error' = "none" /\ UNCHANGED failed
  /\ printed' = printed \cup {IF error' = "none" THEN "PASSED" ELSE "FAILED"}
  /\ UNCHANGED <<seeded, loaded, signed>>

(* ecdsaVerifySignature, and the result of the test.                       *)
Verify ==
  /\ Go("verify", "release")
  /\ Assign("verify", signed /\ {"params", "publicKey"} \subseteq loaded)
  /\ printed' = printed \cup {IF error' = "none" THEN "PASSED" ELSE "FAILED"}
  /\ UNCHANGED <<seeded, loaded, signed>>

(* A plausible slip: the signature is not freed.                           *)
ReleaseKeys ==
  /\ Go("release", "done")
  /\ loaded' = {}
  /\ UNCHANGED <<error, seeded, signed, printed, failed>>

(* Everything is freed, the domain parameters twice.                       *)
Release ==
  /\ Go("release", "done")
  /\ loaded' = {} /\ signed' = FALSE
  /\ UNCHANGED <<error, seeded, printed, failed>>

Next == Prng \/ Load \/ Hash \/ Sign \/ Verify \/ Release

Spec == Init /\ [][Next]_vars

-----------------------------------------------------------------------------

(* Types, and: nothing is held before it is loaded or after the release.   *)
TypeOK ==
  /\ pc \in Parts /\ error \in Errors
  /\ seeded \in BOOLEAN /\ loaded \subseteq Objects /\ signed \in BOOLEAN
  /\ printed \subseteq {"PASSED", "FAILED"} /\ failed \subseteq Calls
  /\ pc \in {"prng", "load", "done"} => loaded = {} /\ ~signed

(* A test that passes may have hidden the failure of every call that       *)
(* provides randomness but yarrowSeed (the RNG, yarrowInit, the reading of *)
(* r, adding it to the entropy), of which no result shows anything, and    *)
(* of hashing, for which, and only for which, FAILED is printed before     *)
(* PASSED.  Any other failure makes the verification fail, which is the    *)
(* error that is returned (ecdsa_test_suite.c:65-201, 215).                *)
Unseen == Rng \cup {"yarrowInit", "r", "addEntropy"}
WhatPassedHides ==
  "PASSED" \in printed =>
    /\ error = "none"
    /\ failed \subseteq Unseen \cup {"hash"}
    /\ "FAILED" \in printed <=> "hash" \in failed
=============================================================================
