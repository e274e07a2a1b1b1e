------------------------------ MODULE MCAzCore ------------------------------
\* AzCore for TLC: two values of each desired property and none, which a change sets,
\* replaces or removes, one alone or both at once.
EXTENDS AzCore

MCDocuments ==
  {[delay |-> 0, speed |-> 0], [delay |-> 0, speed |-> 7], [delay |-> 1, speed |-> 7],
   [delay |-> 1, speed |-> 306], [delay |-> 2, speed |-> 7], [delay |-> 2, speed |-> 306]}
=============================================================================
