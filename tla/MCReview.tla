------------------------------- MODULE MCReview -------------------------------
(* Small instances of the review loop for TLC.                             *)
EXTENDS ReviewProperties
=============================================================================
