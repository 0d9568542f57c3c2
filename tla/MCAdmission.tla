---------------------------- MODULE MCAdmission ----------------------------
(* Names for the clients, runners and barriers of an instance of Admission. *)
EXTENDS Admission

CONSTANTS c1, c2, r1, r2, b1

=============================================================================
