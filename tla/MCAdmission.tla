---------------------------- MODULE MCAdmission -----------------------------
(* Constants for checking that Server implements Admission.                *)
EXTENDS ServerAdmission, MCServer
=============================================================================
