-------------------------- MODULE MCDocumentReview --------------------------
EXTENDS DocumentReview, TLC

Interchangeable == Permutations(Requests)
=============================================================================
