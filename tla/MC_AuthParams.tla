---------------------------- MODULE MC_AuthParams ----------------------------
EXTENDS AuthParams

(* The code's literals and separators, and one character none of them is. *)
MCAlphabet == {"a", "h", "s", "e", "=", ",", " ", "\""}

=============================================================================
