-------------------------- MODULE MCZohoConnection --------------------------
EXTENDS ZohoConnection, TLC

Interchangeable ==
  Permutations(Clients) \cup Permutations(Attempts) \cup Permutations(Browsers)
    \cup Permutations(Callers) \cup Permutations(Grants) \cup Permutations(Requests)
=============================================================================
