-------------------------- MODULE MC_KeyPairOpenSSL --------------------------
(* A thread using one KeyPair_OpenSSL object: an error ring of two records *)
(* and failing OpenSSL calls that push up to two records each, so that a   *)
(* failure can push more than one pop removes and fill the ring.           *)
EXTENDS KeyPairOpenSSL, TLC

MCNameSizes == {1}
==============================================================================
