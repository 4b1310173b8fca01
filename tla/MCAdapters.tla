----------------------------- MODULE MCAdapters -----------------------------
(* Values for the constants of Adapters that a configuration cannot write.    *)
EXTENDS Adapters

SomePolicies ==
  {{"healthy"}, {"healthy", "latency-limit"}, {"healthy", "proxy-failure"},
   {"healthy", "oversized-response"}}
=============================================================================
