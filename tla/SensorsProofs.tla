---------------------------- MODULE SensorsProofs ----------------------------
(***************************************************************************)
(* Sensors for whatever the drivers return.                                *)
(***************************************************************************)
EXTENDS Sensors, TLAPS

(* The division of C, as the code uses it: the parts of any reading, below *)
(* zero or above, make it up again and have its sign.                      *)
LEMMA SplitSplits ==
  ASSUME NEW v \in Int
  PROVE  /\ Split(v).abs \in Int /\ Split(v).rest \in Int
         /\ IsSplitOf(Split(v).abs, Split(v).rest, v)
<1>1. CASE v >= 0
  BY <1>1 DEF Split, Quotient, IsSplitOf
<1>2. CASE v < 0
  BY <1>2 DEF Split, Quotient, IsSplitOf
<1> QED
  BY <1>1, <1>2

LEMMA InitTyped == Init => TypeOK
  BY DEF Init, TypeOK, NumDrivers, Nothing, Unread

LEMMA InitDriverTyped == TypeOK /\ InitDriver => TypeOK'
  BY DEF TypeOK, InitDriver, NumDrivers

LEMMA RoundTyped == TypeOK /\ Round => TypeOK'
<1> SUFFICES ASSUME TypeOK, Round PROVE TypeOK'
  OBVIOUS
<1>1. PICK got \in [Fields -> Values \cup {Unset}], pres \in Millis, temp \in Millis :
        /\ held' = [f \in Fields |-> IF got[f] = Unset THEN held[f] ELSE got[f]]
        /\ failed' = Reported(got)
        /\ split' = [pres_abs |-> Split(pres).abs, pres |-> Split(pres).rest,
                     temp_abs |-> Split(temp).abs, temp |-> Split(temp).rest]
        /\ returned' = [values |-> got, millis |-> [pres |-> pres, temp |-> temp]]
  BY DEF Round
<1>2. held' \in [Fields -> Values \cup {Unset}]
  BY <1>1 DEF TypeOK
<1>3. split' \in [{"pres_abs", "pres", "temp_abs", "temp"} -> Int \cup {Unset}]
  <2>1. pres \in Int /\ temp \in Int
    BY ValuesAssumption
  <2>2. /\ Split(pres).abs \in Int /\ Split(pres).rest \in Int
        /\ Split(temp).abs \in Int /\ Split(temp).rest \in Int
    BY <2>1, SplitSplits
  <2> QED
    BY <1>1, <2>2
<1>4. returned'.values = got /\ returned'.millis = [pres |-> pres, temp |-> temp]
  BY <1>1
<1>5. failed' \subseteq Checked
  BY <1>1 DEF Reported
<1>6. UNCHANGED <<drivers, pc>> /\ pc = "loop"
  BY DEF Round
<1> QED
  BY <1>2, <1>3, <1>4, <1>5, <1>6 DEF TypeOK

(* The drivers come before the loop, and nothing is read without them      *)
(* (iotlabm3_sensors/main.c:91-127).                                       *)
THEOREM TypeCorrect == Spec => []TypeOK
<1>1. TypeOK /\ UNCHANGED vars => TypeOK'
  BY DEF TypeOK, vars
<1>2. TypeOK /\ [Next]_vars => TypeOK'
  BY <1>1, InitDriverTyped, RoundTyped DEF Next
<1> QED
  BY InitTyped, <1>2, PTL DEF Spec

(* Whatever the drivers return and whichever of them fail, what a round    *)
(* leaves in the variables is what they returned, or was reported as       *)
(* failed; and the parts of a reading are of one sign and make it up       *)
(* (iotlabm3_sensors/main.c:135-180).                                      *)
THEOREM RecordsAreOfReadings == Spec => []RecordIsOfReadings
<1>1. Init => RecordIsOfReadings
  BY DEF Init, RecordIsOfReadings
<1>2. ASSUME RecordIsOfReadings, InitDriver PROVE RecordIsOfReadings'
  BY <1>2 DEF RecordIsOfReadings, InitDriver
<1>3. ASSUME Round PROVE RecordIsOfReadings'
  <2>1. PICK got \in {g \in [Fields -> Values \cup {Unset}] :
                        \A f \in Fields : g[f] \in Outcomes(f)},
             pres \in Millis, temp \in Millis :
          /\ held' = [f \in Fields |-> IF got[f] = Unset THEN held[f] ELSE got[f]]
          /\ failed' = Reported(got)
          /\ split' = [pres_abs |-> Split(pres).abs, pres |-> Split(pres).rest,
                       temp_abs |-> Split(temp).abs, temp |-> Split(temp).rest]
          /\ returned' = [values |-> got, millis |-> [pres |-> pres, temp |-> temp]]
    BY <1>3 DEF Round
  <2>2. returned'.values = got
        /\ returned'.millis.pres = pres /\ returned'.millis.temp = temp
    BY <2>1
  <2>3. \A f \in Fields \ {"gyro"} : held'[f] = got[f] \/ f \in failed'
    <3> SUFFICES ASSUME NEW f \in Fields \ {"gyro"}, got[f] = Unset
                 PROVE  f \in failed'
      BY <2>1
    <3>1. f # "light"
      BY ValuesAssumption DEF Outcomes
    <3> QED
      BY <2>1, <3>1 DEF Reported, Fields
  <2>4. /\ IsSplitOf(Split(pres).abs, Split(pres).rest, pres)
        /\ IsSplitOf(Split(temp).abs, Split(temp).rest, temp)
    BY SplitSplits, ValuesAssumption
  <2>5. /\ split'.pres_abs = Split(pres).abs /\ split'.pres = Split(pres).rest
        /\ split'.temp_abs = Split(temp).abs /\ split'.temp = Split(temp).rest
    BY <2>1
  <2> QED
    BY <2>2, <2>3, <2>4, <2>5 DEF RecordIsOfReadings
<1>4. ASSUME RecordIsOfReadings, UNCHANGED vars PROVE RecordIsOfReadings'
  BY <1>4 DEF RecordIsOfReadings, vars
<1>5. RecordIsOfReadings /\ [Next]_vars => RecordIsOfReadings'
  BY <1>2, <1>3, <1>4 DEF Next
<1> QED
  BY <1>1, <1>5, PTL DEF Spec
=============================================================================
