------------------------------- MODULE Sensors -------------------------------
(***************************************************************************)
(* The sensor application of the IoT-LAB M3 board                          *)
(* (node_riot/iotlabm3_sensors/main.c), whose loop the signing one repeats *)
(* (node_riot/iotlabm3_sensors_sign/main.c): four drivers are initialised, *)
(* then every second all sensors are read into local variables.            *)
(*                                                                         *)
(* External: the drivers, any of which may fail at any call, in which case *)
(* the variable it was to fill keeps what it held.                         *)
(***************************************************************************)
EXTENDS Integers

CONSTANTS
  Values,           \* what a driver reads
  Millis,           \* thousandths of a bar or of a degree the LPS331AP reads
  Unset             \* a variable nothing has been read into

ASSUME ValuesAssumption == Unset \notin Values /\ Millis \subseteq Int

VARIABLES
  drivers,          \* how many drivers have been initialised
  pc,               \* "init", "loop", or "failed": main() has returned
  held,             \* acc_value, temp_value, mag_value, acc_data, value
  split,            \* pres_abs, pres, temp_abs, temp
  failed,           \* the sensors this round has printed a failure of
  returned          \* history: what the drivers have returned in this round

vars == <<drivers, pc, held, split, failed, returned>>

-----------------------------------------------------------------------------

NumDrivers == 4     \* LSM303DLHC, LPS331AP, L3G4200D, ISL29020

(* The readings a round takes one after the other; the results of the      *)
(* first three calls are looked at, that of l3g4200d_read is not.          *)
Checked == {"acc", "temp", "mag"}
Fields  == Checked \cup {"gyro", "light"}

Nothing == [f \in Fields |-> Unset]
Unread  == [pres |-> Unset, temp |-> Unset]

Init ==
  /\ drivers = 0
  /\ pc = "init"
  /\ held = Nothing
  /\ split = [pres_abs |-> Unset, pres |-> Unset, temp_abs |-> Unset, temp |-> Unset]
  /\ failed = {}
  /\ returned = [values |-> Nothing, millis |-> Unread]

(* A plausible slip: the result of the initialisation is only printed.     *)
InitDriverUnchecked ==
  /\ pc = "init"
  /\ \E ok \in BOOLEAN :
       /\ drivers' = IF ok THEN drivers + 1 ELSE drivers
       /\ pc' = IF drivers + 1 = NumDrivers \/ ~ok THEN "loop" ELSE "init"
  /\ UNCHANGED <<held, split, failed, returned>>

(* The next driver is initialised, or "[Failed]" and main() returns.       *)
InitDriver ==
  /\ pc = "init"
  /\ \/ /\ drivers' = drivers + 1
        /\ pc' = IF drivers' = NumDrivers THEN "loop" ELSE "init"
     \/ pc' = "failed" /\ UNCHANGED drivers
  /\ UNCHANGED <<held, split, failed, returned>>

(* Division as in C, towards zero.                                         *)
Quotient(v, d) == IF v >= 0 THEN v \div d ELSE -((-v) \div d)

(* A plausible slip: the quotient is of hundredths.                        *)
SplitHundred(v) == [abs |-> Quotient(v, 100), rest |-> v - Quotient(v, 100) * 1000]

(* v_abs = v / 1000; v -= v_abs * 1000.                                    *)
Split(v) == [abs |-> Quotient(v, 1000), rest |-> v - Quotient(v, 1000) * 1000]

(* What a sensor's call may do to the variable: fill it, or fail.  The     *)
(* light is a function's result, whatever it means.                        *)
Outcomes(f) == IF f = "light" THEN Values ELSE Values \cup {Unset}

(* A plausible slip: the branch of the temperature prints no failure.      *)
ReportedNotTemp(got) == {f \in Checked \ {"temp"} : got[f] = Unset}

(* "Failed reading ...".                                                   *)
Reported(got) == {f \in Checked : got[f] = Unset}

(* One round of the endless loop.                                          *)
Round ==
  /\ pc = "loop"
  /\ \E got \in {g \in [Fields -> Values \cup {Unset}] : \A f \in Fields : g[f] \in Outcomes(f)},
        pres, temp \in Millis :
       /\ held' = [f \in Fields |-> IF got[f] = Unset THEN held[f] ELSE got[f]]
       /\ failed' = Reported(got)
       /\ split' = [pres_abs |-> Split(pres).abs, pres |-> Split(pres).rest,
                    temp_abs |-> Split(temp).abs, temp |-> Split(temp).rest]
       /\ returned' = [values |-> got, millis |-> [pres |-> pres, temp |-> temp]]
  /\ UNCHANGED <<drivers, pc>>

Next == InitDriver \/ Round

Spec == Init /\ [][Next]_vars

-----------------------------------------------------------------------------

(* Types, and: the loop is entered with all drivers initialised, and a     *)
(* main() that has returned has not read anything                          *)
(* (iotlabm3_sensors/main.c:91-127).                                       *)
TypeOK ==
  /\ drivers \in 0 .. NumDrivers
  /\ pc \in {"init", "loop", "failed"}
  /\ pc = "loop" <=> drivers = NumDrivers
  /\ held \in [Fields -> Values \cup {Unset}]
  /\ split \in [{"pres_abs", "pres", "temp_abs", "temp"} -> Int \cup {Unset}]
  /\ failed \subseteq Checked
  /\ returned.values \in [Fields -> Values \cup {Unset}]
  /\ returned.millis \in [{"pres", "temp"} -> Millis \cup {Unset}]
  /\ pc # "loop" => held = Nothing

(* The parts are of one sign, and the second is less than one unit.        *)
IsSplitOf(abs, rest, v) ==
  /\ abs * 1000 + rest = v
  /\ rest \in -999 .. 999
  /\ abs * v >= 0 /\ rest * v >= 0

(* What a round leaves in the variables that are printed, and by the       *)
(* signing application hashed, is what the sensors have returned in this   *)
(* round: a value of an earlier round, or none, is there only when the     *)
(* console said so, or the gyroscope, whose failures nobody looks at, has  *)
(* failed; and pressure and temperature, also below zero, can be told from *)
(* their two parts (iotlabm3_sensors/main.c:135-180).                      *)
RecordIsOfReadings ==
  returned.values # Nothing =>
    /\ \A f \in Fields \ {"gyro"} : held[f] = returned.values[f] \/ f \in failed
    /\ IsSplitOf(split.pres_abs, split.pres, returned.millis.pres)
    /\ IsSplitOf(split.temp_abs, split.temp, returned.millis.temp)
=============================================================================
