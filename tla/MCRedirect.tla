----------------------------- MODULE MCRedirect -----------------------------
(***************************************************************************)
(* A small web for Redirect: a host and its upper-case spelling, another   *)
(* host, and one without an IDNA form.                                     *)
(***************************************************************************)
EXTENDS Redirect

MCHosts == {"a", "A", "x", "bad"}
MCLowerOf == [h \in MCHosts |-> IF h = "A" THEN "a" ELSE h]
MCASCIIOf == [h \in MCHosts |-> IF h = "bad" THEN "invalid" ELSE h]
=============================================================================
