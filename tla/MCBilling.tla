----------------------------- MODULE MCBilling ------------------------------
(* An instance of Billing for TLC.                                          *)
EXTENDS Billing, FiniteSets

\* Bound: two at a time, of the requests of administrators and the devices with a
\* session or with a login or refresh under way.  The job comes on top of them.
TwoAtATime ==
  Cardinality({r \in Requests : pc[r] # "idle"})
    + Cardinality({d \in Devices : sessions[d].live \/ sessions[d].at # "idle"}) <= 2
=============================================================================
