--------------------------- MODULE MCCertificates ---------------------------
(* Certificates with few interferences and faults.                          *)
EXTENDS Certificates
=============================================================================
