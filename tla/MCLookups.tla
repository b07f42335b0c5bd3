------------------------------- MODULE MCLookups -------------------------------
(* Every lookup module of the catalogue, with every set of credentials and a    *)
(* number of every country that matters to it.                                  *)
EXTENDS Lookups, LookupSources

\* A service at two addresses, one that can find nothing, and two of the finance batch.
MCAskedServices == {"Weibo", "Spotify", "CashApp", "Klarna"}
================================================================================
