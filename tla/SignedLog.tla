------------------------------ MODULE SignedLog ------------------------------
(***************************************************************************)
(* The signing sensor application (node_riot/iotlabm3_sensors_sign/main.c),*)
(* the capture of its console, and the script that verifies the capture    *)
(* (pythonScript/signDataParse.py).                                        *)
(*                                                                         *)
(* Every second the board hashes and signs a record and prints the lines   *)
(* "Data:", "Hash:" and "Signature:"; what a record is, module Sensors     *)
(* says.  The script reads the captured lines from the first one on; here  *)
(* it reads each of them as soon as it has been captured, which is the     *)
(* same, since nothing comes back from the script to the board.            *)
(*                                                                         *)
(* External: uECC, whose deterministic signature depends on the hash alone *)
(* and verifies with that hash and no other, and which may fail; SHA-256,  *)
(* so that a hash stands for the record it is of; the serial line, which   *)
(* may lose or garble a line, or lose the end of it, so that the next line *)
(* is glued to it.                                                         *)
(***************************************************************************)
EXTENDS Integers

CONSTANTS
  Records,          \* what msgBuffer may hold, see Sensors
  Unset,            \* a variable nothing has been put into
  Garbled,          \* what stands in a damaged line
  MaxRecords,       \* bound: rounds of the board
  MaxDamages        \* bound: lines damaged

ASSUME NamesAssumption ==
  /\ Unset \notin Records /\ Garbled \notin Records /\ Unset # Garbled

ASSUME BoundsAssumption == MaxRecords \in Nat /\ MaxDamages \in Nat

VARIABLES
  pc,               \* what the board does next: "sample", or print a line
  msgBuffer,        \* the record
  l_hash,           \* its hash
  l_sig,            \* the record whose signature this is
  signed,           \* the result of uECC_sign_deterministic in this round
  said,             \* "Signature generated" has been printed in this round
  glued,            \* the last line captured has lost its end
  data, hashing,    \* the script's variables: the last values seen
  errors,           \* "Verification ERROR" printed
  misread,          \* "Verification OK" printed below a DATA it is not of
  records, failures, damages    \* bounds: rounds, failed signings, bad lines

board  == <<pc, msgBuffer, l_hash, l_sig, signed, said, records, failures>>
script == <<data, hashing, errors, misread>>
vars   == <<board, script, glued, damages>>

-----------------------------------------------------------------------------

Init ==
  /\ pc = "sample"
  /\ msgBuffer = Unset /\ l_hash = Unset /\ l_sig = Unset
  /\ signed = TRUE /\ said = FALSE
  /\ glued = FALSE
  /\ data = Unset /\ hashing = Unset
  /\ errors = 0 /\ misread = 0
  /\ records = 0 /\ failures = 0 /\ damages = 0

(* A plausible slip: the hash is begun only once and goes on from record   *)
(* to record.                                                              *)
SampleHashOnce ==
  /\ pc = "sample"
  /\ records < MaxRecords
  /\ records' = records + 1
  /\ msgBuffer' \in Records
  /\ l_hash' = IF l_hash = Unset THEN msgBuffer' ELSE l_hash
  /\ \/ signed' = TRUE /\ l_sig' = l_hash' /\ UNCHANGED failures
     \/ signed' = FALSE /\ l_sig' \in {l_sig, Garbled} /\ failures' = failures + 1
  /\ said' = ~signed'
  /\ pc' = "data"
  /\ UNCHANGED <<script, glued, damages>>

(* The sensors are read, msgBuffer is filled, hashed and signed; a failed  *)
(* signing leaves l_sig as it was, or half written.  "Signature generated" *)
(* is printed when the result is not 1, and "[OK]" in any case.            *)
Sample ==
  /\ pc = "sample"
  /\ records < MaxRecords
  /\ records' = records + 1
  /\ msgBuffer' \in Records
  /\ l_hash' = msgBuffer'
  /\ \/ signed' = TRUE /\ l_sig' = l_hash' /\ UNCHANGED failures
     \/ signed' = FALSE /\ l_sig' \in {l_sig, Garbled} /\ failures' = failures + 1
  /\ said' = ~signed'
  /\ pc' = "data"
  /\ UNCHANGED <<script, glued, damages>>

-----------------------------------------------------------------------------
(* The script: what it does with a line, by the line's first word.         *)

(* A plausible slip: the values seen are kept until a record has been      *)
(* verified, and the first one seen wins.                                  *)
ScanHashFirst(value) ==
  /\ hashing' = IF hashing = Unset THEN value ELSE hashing
  /\ UNCHANGED <<data, errors, misread>>

ScanData(value) ==
  /\ data' = value
  /\ UNCHANGED <<hashing, errors, misread>>

ScanHash(value) ==
  /\ hashing' = value
  /\ UNCHANGED <<data, errors, misread>>

(* vk.verify_digest of the signature and the last hash seen; whatever it   *)
(* raises, a value that is no number included, is an error.                *)
Verifies(signature) == signature = hashing /\ signature \in Records

ScanSignature(signature) ==
  /\ errors' = IF Verifies(signature) THEN errors ELSE errors + 1
  /\ misread' = IF Verifies(signature) /\ data # hashing THEN misread + 1 ELSE misread
  /\ UNCHANGED <<data, hashing>>

-----------------------------------------------------------------------------
(* The serial line, and the file the script reads.                         *)

(* What may become of a line.  The blank lines behind a signature keep it  *)
(* from being glued to what follows.                                       *)
Fates(line) ==
  {"intact", "lost", "garbled"} \cup (IF line = "signature" THEN {} ELSE {"glued"})

Captured(fate, value) == IF fate = "intact" THEN value ELSE Garbled

(* The board prints a line.  Behind a line that has lost its end it is no  *)
(* line of its own; a line glued to the next has a value no one can read.  *)
Emit(line, fate) ==
  /\ fate \in Fates(line)
  /\ fate # "intact" => damages < MaxDamages
  /\ damages' = IF fate = "intact" THEN damages ELSE damages + 1
  /\ glued' = (line # "signature" /\ (fate = "glued" \/ (glued /\ fate = "lost")))
  /\ UNCHANGED <<msgBuffer, l_hash, l_sig, signed, said, records, failures>>

Unseen(fate) == glued \/ fate = "lost"

PrintData ==
  /\ pc = "data"
  /\ pc' = "hash"
  /\ \E fate \in Fates("data") :
       /\ Emit("data", fate)
       /\ IF Unseen(fate) THEN UNCHANGED script ELSE ScanData(Captured(fate, msgBuffer))

PrintHash ==
  /\ pc = "hash"
  /\ pc' = "signature"
  /\ \E fate \in Fates("hash") :
       /\ Emit("hash", fate)
       /\ IF Unseen(fate) THEN UNCHANGED script ELSE ScanHash(Captured(fate, l_hash))

(* The last line of a round; the board sleeps and starts over.             *)
PrintSignature ==
  /\ pc = "signature"
  /\ pc' = "sample"
  /\ \E fate \in Fates("signature") :
       /\ Emit("signature", fate)
       /\ IF Unseen(fate) THEN UNCHANGED script ELSE ScanSignature(Captured(fate, l_sig))

(* The board is reset, between any two lines; within a line it is a        *)
(* damaged line and a reset.  The banner the board starts with ends a line *)
(* that had lost its end.                                                  *)
Reset ==
  /\ pc' = "sample"
  /\ msgBuffer' = Unset /\ l_hash' = Unset /\ l_sig' = Unset
  /\ signed' = TRUE /\ said' = FALSE
  /\ glued' = FALSE
  /\ UNCHANGED <<script, records, failures, damages>>

Next == Sample \/ PrintData \/ PrintHash \/ PrintSignature \/ Reset

Spec == Init /\ [][Next]_vars

-----------------------------------------------------------------------------

Captures == Records \cup {Unset, Garbled}

Flags == signed \in BOOLEAN /\ said \in BOOLEAN /\ glued \in BOOLEAN

(* Types, and: while a record is printed the board holds its hash, and a   *)
(* line is glued to the next only within a record                          *)
(* (iotlabm3_sensors_sign/main.c:279-308).                                 *)
TypeOK ==
  /\ pc \in {"sample", "data", "hash", "signature"}
  /\ msgBuffer \in Records \cup {Unset} /\ l_hash = msgBuffer
  /\ l_sig \in Captures /\ data \in Captures /\ hashing \in Captures
  /\ Flags
  /\ errors \in Nat /\ misread \in Nat
  /\ records \in 0 .. MaxRecords /\ failures \in 0 .. records
  /\ damages \in 0 .. MaxDamages
  /\ pc # "sample" => msgBuffer \in Records
  /\ glued => pc \in {"hash", "signature"} /\ damages > 0

(* A damaged line or a failed signing spoils one verdict at most, wherever *)
(* it strikes and whatever it does to the lines around it, resets          *)
(* included: the script is back in step with the next record.  A verdict   *)
(* is spoiled when it is an error, or an OK below data that it is not of   *)
(* (signDataParse.py:35-51, iotlabm3_sensors_sign/main.c:286-308).         *)
DamageIsLocal == errors + misread <= damages + failures

(* "Signature generated" (iotlabm3_sensors_sign/main.c:289): a signature   *)
(* has been generated when the console says so.                            *)
GeneratedMeansSigned == said => signed
=============================================================================
