----------------------------- MODULE MCSignecc ------------------------------
(* Small instances of Signecc for TLC. *)
EXTENDS Signecc, TLC

CONSTANTS a, b

(* Both boards in the PAN they are built with.                             *)
OnePan == (a :> 1) @@ (b :> 1)
(* The second board in a PAN of its own.                                   *)
TwoPans == (a :> 1) @@ (b :> 2)

(* Headers of one length, and of two: within a PAN its identifier is       *)
(* written once.                                                           *)
OneHeader  == [p \in Pans |-> [q \in Pans |-> {1}]]
TwoHeaders == [p \in Pans |-> [q \in Pans |-> {IF p = q THEN 1 ELSE 2}]]

(* Boards of one PAN can be exchanged.                                     *)
Exchange == Permutations(Nodes)
=============================================================================
