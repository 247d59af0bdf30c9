------------------------------ MODULE MCBucket ------------------------------
(* Instance of Bucket for TLC: every rule a u64 of U64Max allows.          *)
EXTENDS Bucket

MCRules == RateLimitRule
=============================================================================
