--------------------------- MODULE SignedLogProofs ---------------------------
(***************************************************************************)
(* SignedLog for any records, any number of rounds and damaged lines.      *)
(*                                                                         *)
(* DamageIsLocal is not inductive: that a verdict about to be given will   *)
(* be spoiled must have been paid for before.  While a record is printed,  *)
(* whatever the script or the board holds that is not of this record       *)
(* stands for a damage or a failure no spoiled verdict accounts for yet;   *)
(* one of them is enough, since the record's verdict is one.               *)
(***************************************************************************)
EXTENDS SignedLog, TLAPS

Spoiled == errors + misread
Causes  == damages + failures

InDebt == Spoiled < Causes

(* Between the lines of a record, what is not of this record is a debt.    *)
Debts ==
  /\ pc # "sample" /\ l_sig # msgBuffer => InDebt
  /\ pc \in {"hash", "signature"} /\ data # msgBuffer => InDebt
  /\ pc = "signature" /\ hashing # msgBuffer => InDebt
  /\ glued => InDebt

IInv == TypeOK /\ DamageIsLocal /\ Debts

-----------------------------------------------------------------------------

(* The initial state of the board, the script and the line.                *)
LEMMA InitHolds == Init => IInv
<1> SUFFICES ASSUME Init PROVE IInv
  OBVIOUS
<1>1. Flags
  BY DEF Init, Flags
<1>2. TypeOK
  BY <1>1, BoundsAssumption DEF Init, TypeOK, Captures
<1>3. DamageIsLocal
  BY DEF Init, DamageIsLocal
<1>4. Debts
  BY DEF Init, Debts
<1> QED
  BY <1>2, <1>3, <1>4 DEF IInv

(* The parts the arithmetic is about.                                      *)
LEMMA Parts ==
  ASSUME IInv
  PROVE  /\ errors \in Nat /\ misread \in Nat /\ damages \in Nat /\ failures \in Nat
         /\ DamageIsLocal /\ Debts
<1>1. TypeOK
  BY DEF IInv
<1>2. errors \in Nat /\ misread \in Nat
  BY <1>1 DEF TypeOK
<1>3. damages \in Nat /\ failures \in Nat
  BY <1>1, BoundsAssumption DEF TypeOK
<1> QED
  BY <1>2, <1>3 DEF IInv

(* Sampling begins a record: a signature not of it is a failure to sign.   *)
LEMMA SampleHolds == IInv /\ Sample => IInv'
<1> SUFFICES ASSUME IInv, Sample PROVE IInv'
  OBVIOUS
<1>1. failures' = failures \/ (failures' = failures + 1 /\ l_sig' \in Captures)
  BY DEF Sample, IInv, TypeOK, Captures
<1>2. failures' = failures => l_sig' = msgBuffer'
  BY Parts DEF Sample
<1>3. UNCHANGED <<errors, misread, damages>>
  BY DEF Sample, script
<1>4. Flags'
  BY DEF Sample, Flags, IInv, TypeOK
<1>5. records' \in 0 .. MaxRecords /\ failures' \in 0 .. records'
  BY <1>1, BoundsAssumption DEF Sample, IInv, TypeOK
<1>6. TypeOK'
  BY <1>1, <1>2, <1>4, <1>5 DEF Sample, script, IInv, TypeOK, Captures
<1>7. DamageIsLocal'
  BY <1>1, <1>3, Parts DEF DamageIsLocal
<1>8. ~glued /\ pc' = "data" /\ UNCHANGED glued
  BY DEF Sample, IInv, TypeOK
<1>9. Debts'
  BY <1>1, <1>2, <1>3, <1>8, Parts DEF DamageIsLocal, Debts, InDebt, Spoiled, Causes
<1> QED
  BY <1>6, <1>7, <1>9 DEF IInv

(* What every line has in common: a fate other than intact is a damage.    *)
LEMMA PrintCounts ==
  ASSUME IInv, NEW line, NEW fate, Emit(line, fate)
  PROVE  /\ damages' \in 0 .. MaxDamages
         /\ glued' \in BOOLEAN
         /\ fate = "intact" => damages' = damages
         /\ fate # "intact" => damages' = damages + 1
         /\ glued' => line # "signature" /\ damages' > 0
         /\ UNCHANGED <<msgBuffer, l_hash, l_sig, signed, said, records, failures>>
<1>1. glued' \in BOOLEAN
  BY DEF Emit
<1>2. glued => damages > 0
  BY DEF IInv, TypeOK
<1>3. damages \in 0 .. MaxDamages
  BY DEF IInv, TypeOK
<1>4. UNCHANGED <<msgBuffer, l_hash, l_sig, signed, said, records, failures>>
  BY DEF Emit
<1>5. /\ fate = "intact" => damages' = damages
      /\ fate # "intact" => damages < MaxDamages /\ damages' = damages + 1
  BY DEF Emit
<1>6. damages' \in 0 .. MaxDamages
  BY <1>3, <1>5, BoundsAssumption
<1>7. ASSUME glued' PROVE line # "signature" /\ damages' > 0
  <2>1. line # "signature" /\ (fate = "glued" \/ fate = "lost")
    BY <1>7 DEF Emit
  <2> QED
    BY <2>1, <1>3, <1>5
<1> QED
  BY <1>1, <1>4, <1>5, <1>6, <1>7

(* A data line: if the script does not see the record, the line, or the    *)
(* end of the line before it, is damaged.                                  *)
LEMMA PrintDataHolds == IInv /\ PrintData => IInv'
<1> SUFFICES ASSUME IInv, PrintData PROVE IInv'
  OBVIOUS
<1>1. PICK fate \in Fates("data") :
        /\ Emit("data", fate)
        /\ IF Unseen(fate) THEN UNCHANGED script ELSE ScanData(Captured(fate, msgBuffer))
  BY DEF PrintData
<1>2. /\ damages' \in 0 .. MaxDamages
      /\ glued' \in BOOLEAN
      /\ fate = "intact" => damages' = damages
      /\ fate # "intact" => damages' = damages + 1
      /\ glued' => damages' > 0
  BY <1>1, PrintCounts
<1>3. pc = "data" /\ pc' = "hash" /\ ~glued
  BY DEF PrintData, IInv, TypeOK
<1>4. UNCHANGED <<msgBuffer, l_hash, l_sig, signed, said, records, failures>>
      /\ (glued' => fate # "intact")
  BY <1>1 DEF Emit
<1>5. UNCHANGED <<hashing, errors, misread>>
      /\ data' \in Captures /\ (fate = "intact" => data' = msgBuffer)
  BY <1>1, <1>3 DEF Unseen, ScanData, Captured, script, IInv, TypeOK, Captures
<1>6. Flags'
  BY <1>2, <1>4 DEF IInv, TypeOK, Flags
<1>7. TypeOK'
  BY <1>2, <1>3, <1>4, <1>5, <1>6 DEF IInv, TypeOK
<1>8. DamageIsLocal'
  BY <1>2, <1>4, <1>5, Parts DEF DamageIsLocal
<1>9. Debts'
  BY <1>2, <1>3, <1>4, <1>5, Parts DEF DamageIsLocal, Debts, InDebt, Spoiled, Causes
<1> QED
  BY <1>7, <1>8, <1>9 DEF IInv

(* A hash line: if it is glued to the data line, there is a debt already.  *)
LEMMA PrintHashHolds == IInv /\ PrintHash => IInv'
<1> SUFFICES ASSUME IInv, PrintHash PROVE IInv'
  OBVIOUS
<1>1. PICK fate \in Fates("hash") :
        /\ Emit("hash", fate)
        /\ IF Unseen(fate) THEN UNCHANGED script ELSE ScanHash(Captured(fate, l_hash))
  BY DEF PrintHash
<1>2. /\ damages' \in 0 .. MaxDamages
      /\ glued' \in BOOLEAN
      /\ fate = "intact" => damages' = damages
      /\ fate # "intact" => damages' = damages + 1
      /\ glued' => damages' > 0
  BY <1>1, PrintCounts
<1>3. pc = "hash" /\ pc' = "signature"
  BY DEF PrintHash
<1>4. UNCHANGED <<msgBuffer, l_hash, l_sig, signed, said, records, failures>>
      /\ (glued' => fate # "intact")
  BY <1>1 DEF Emit
<1>5. UNCHANGED <<data, errors, misread>>
      /\ hashing' \in Captures /\ (fate = "intact" /\ ~glued => hashing' = msgBuffer)
  BY <1>1, <1>3 DEF Unseen, ScanHash, Captured, script, IInv, TypeOK, Captures
<1>6. Flags'
  BY <1>2, <1>4 DEF IInv, TypeOK, Flags
<1>7. TypeOK'
  BY <1>2, <1>3, <1>4, <1>5, <1>6 DEF IInv, TypeOK
<1>8. DamageIsLocal'
  BY <1>2, <1>4, <1>5, Parts DEF DamageIsLocal
<1>9. Debts'
  BY <1>2, <1>3, <1>4, <1>5, Parts DEF DamageIsLocal, Debts, InDebt, Spoiled, Causes
<1> QED
  BY <1>7, <1>8, <1>9 DEF IInv

(* A signature line: its verdict is spoiled by a damage to this very line, *)
(* or pays a debt.                                                         *)
LEMMA PrintSignatureHolds == IInv /\ PrintSignature => IInv'
<1> SUFFICES ASSUME IInv, PrintSignature PROVE IInv'
  OBVIOUS
<1>1. PICK fate \in Fates("signature") :
        /\ Emit("signature", fate)
        /\ IF Unseen(fate) THEN UNCHANGED script ELSE ScanSignature(Captured(fate, l_sig))
  BY DEF PrintSignature
<1>2. /\ damages' \in 0 .. MaxDamages
      /\ glued' \in BOOLEAN /\ ~glued'
      /\ fate = "intact" => damages' = damages
      /\ fate # "intact" => damages' = damages + 1
  BY <1>1, PrintCounts DEF Emit
<1>3. pc = "signature" /\ pc' = "sample" /\ msgBuffer \in Records
  BY DEF PrintSignature, IInv, TypeOK
<1>4. UNCHANGED <<msgBuffer, l_hash, l_sig, signed, said, records, failures>>
  BY <1>1 DEF Emit
<1>5. UNCHANGED <<data, hashing>> /\ errors' \in Nat /\ misread' \in Nat
      /\ errors' + misread' \in {Spoiled, Spoiled + 1}
  <2>1. CASE Unseen(fate)
    BY <1>1, <2>1 DEF script, Spoiled, IInv, TypeOK
  <2>2. CASE ~Unseen(fate)
    BY <1>1, <2>2 DEF ScanSignature, Spoiled, IInv, TypeOK
  <2> QED
    BY <2>1, <2>2
<1>6. errors' + misread' = Spoiled + 1 => InDebt \/ fate # "intact"
  <2> SUFFICES ASSUME errors' + misread' = Spoiled + 1, fate = "intact"
               PROVE  InDebt
    OBVIOUS
  <2>1. ~Unseen(fate)
    BY <1>1 DEF script, Spoiled, IInv, TypeOK
  <2>2. ScanSignature(l_sig)
    BY <1>1, <2>1 DEF Captured
  <2>3. ~(l_sig = hashing /\ l_sig \in Records /\ data = hashing)
    BY <2>2 DEF ScanSignature, Verifies, Spoiled, IInv, TypeOK
  <2>4. l_sig # msgBuffer \/ hashing # msgBuffer \/ data # msgBuffer
    BY <1>3, <2>3
  <2> QED
    BY <1>3, <2>4 DEF IInv, Debts
<1>7. Flags'
  <2>1. signed \in BOOLEAN /\ said \in BOOLEAN
    BY DEF IInv, TypeOK, Flags
  <2> QED
    BY <2>1, <1>2, <1>4 DEF Flags
<1>8. TypeOK'
  BY <1>2, <1>3, <1>4, <1>5, <1>7 DEF IInv, TypeOK
<1>9. DamageIsLocal'
  BY <1>2, <1>4, <1>5, <1>6, Parts DEF DamageIsLocal, InDebt, Spoiled, Causes
<1>10. Debts'
  BY <1>2, <1>3 DEF Debts
<1> QED
  BY <1>8, <1>9, <1>10 DEF IInv

LEMMA ResetHolds == IInv /\ Reset => IInv'
<1> SUFFICES ASSUME IInv, Reset PROVE IInv'
  OBVIOUS
<1>1. Flags'
  BY DEF Reset, Flags
<1>2. TypeOK'
  BY <1>1 DEF IInv, TypeOK, Reset, script, Captures
<1>3. DamageIsLocal'
  BY Parts DEF DamageIsLocal, Reset, script
<1>4. Debts'
  BY DEF Debts, Reset
<1> QED
  BY <1>2, <1>3, <1>4 DEF IInv

LEMMA StutterHolds == IInv /\ UNCHANGED vars => IInv'
<1> SUFFICES ASSUME IInv, UNCHANGED vars PROVE IInv'
  OBVIOUS
<1>1. UNCHANGED <<pc, msgBuffer, l_hash, l_sig, signed, said, glued, data, hashing,
                  errors, misread, records, failures, damages>>
  BY DEF vars, board, script
<1>2. Flags'
  BY <1>1 DEF IInv, TypeOK, Flags
<1>3. TypeOK'
  BY <1>1, <1>2 DEF IInv, TypeOK, Captures
<1>4. DamageIsLocal'
  BY <1>1, Parts DEF DamageIsLocal
<1>5. Debts'
  BY <1>1, Parts DEF Debts, InDebt, Spoiled, Causes
<1> QED
  BY <1>3, <1>4, <1>5 DEF IInv

LEMMA Inductive == Spec => []IInv
<1>1. IInv /\ [Next]_vars => IInv'
  BY SampleHolds, PrintDataHolds, PrintHashHolds, PrintSignatureHolds, ResetHolds,
     StutterHolds DEF Next
<1> QED
  BY InitHolds, <1>1, PTL DEF Spec

-----------------------------------------------------------------------------

(* What board, line and script hold at any moment, for any records and     *)
(* bounds (iotlabm3_sensors_sign/main.c:279-308).                          *)
THEOREM TypeCorrect == Spec => []TypeOK
<1>1. IInv => TypeOK
  BY DEF IInv
<1> QED
  BY Inductive, <1>1, PTL

(* However many records are printed, damaged and signed in vain, there are *)
(* no more spoiled verdicts than causes (signDataParse.py:35-51).          *)
THEOREM DamageStaysLocal == Spec => []DamageIsLocal
<1>1. IInv => DamageIsLocal
  BY DEF IInv
<1> QED
  BY Inductive, <1>1, PTL
=============================================================================
