------------------------------ MODULE AuthParams ------------------------------
(***************************************************************************)
(* The character-level parse of the Authorization parameters in            *)
(* src/src/http/http_sig.h: parse_delimited_string and                      *)
(* parse_signature_params, on what follows "Signature ".                   *)
(*                                                                         *)
(* HttpSig reads the Authorization value as a sequence of parameter        *)
(* records.  This module runs the code's own loops on every short header   *)
(* value and compares the outcome with that reading.                       *)
(*                                                                         *)
(* A string is a sequence of one-character strings.  The literals of the   *)
(* code are each one letter: "a" is the key "algorithm", "h" the key       *)
(* "headers", "s" the key "signature" and "e" the value "ecdsa-sha256"; a  *)
(* key none of them matches ("keyId" included) is ignored by the code, as  *)
(* any other letter is here.                                               *)
(*                                                                         *)
(* v.front() and v.back() on an empty string_view are undefined.  The     *)
(* build reads the byte next to the view: any character, so a parse is the *)
(* set of results over the bytes those reads may return.                   *)
(***************************************************************************)
EXTENDS Naturals, Sequences, SequencesExt, FiniteSets

CONSTANTS
  Alphabet,   \* the characters a header value is made of
  MaxLen      \* the longest header value enumerated

ASSUME AuthParamsAssumption ==
  /\ {"a", "h", "s", "e", "=", ",", " ", "\""} \subseteq Alphabet
  /\ MaxLen \in Nat

KeyAlgorithm == <<"a">>   \* auth::SIGN_PARAMS_ALGORITHM
KeyHeaders   == <<"h">>   \* auth::SIGN_PARAMS_HEADERS
KeySignature == <<"s">>   \* auth::SIGN_PARAMS_SIGNATURE
AlgEcdsa     == <<"e">>   \* auth::SIGN_ALGORITHM_SHA256
Quote        == "\""

(* The header values enumerated: every string of at most MaxLen chars.     *)
Inputs == UNION {[1 .. n -> Alphabet] : n \in 0 .. MaxLen}

(* s.find(c) for a one-character c: the 1-based position, 0 for npos.      *)
Find(s, c) == SelectInSeq(s, LAMBDA x : x = c)

(* Mutant: the token taken as s.substr(0, next_delimiter + 1).            *)
ParseDelimitedStringKeepsDelimiter(s, d) ==
  LET RECURSIVE Loop(_, _)
      Loop(rest, acc) ==
        LET nd == Find(rest, d)
        IN  IF nd = 0 THEN Append(acc, rest)
            ELSE Loop(SubSeq(rest, nd + 1, Len(rest)),
                      Append(acc, SubSeq(rest, 1, nd)))
  IN  Loop(s, <<>>)

(* parse_delimited_string: while a delimiter remains, emit the text before *)
(* it and drop it; then emit the rest, once (last_string).                 *)
ParseDelimitedString(s, d) ==
  LET RECURSIVE Loop(_, _)
      Loop(rest, acc) ==
        LET nd == Find(rest, d)
        IN  IF nd = 0 THEN Append(acc, rest)
            ELSE Loop(SubSeq(rest, nd + 1, Len(rest)),
                      Append(acc, SubSeq(rest, 1, nd - 1)))
  IN  Loop(s, <<>>)

(* The sig_params being built, and the nullopt of an early return.         *)
NoParams == [alg |-> <<>>, sig |-> <<>>, headers |-> <<>>]
Fail     == [fail |-> TRUE]

(* What v.front() == '"' (or v.back() == '"') may evaluate to.             *)
QuoteAt(v, i) == IF v = <<>> THEN BOOLEAN ELSE {v[i] = Quote}

(* The assignment of value v to key k, after the quotes were handled.      *)
Assign(k, v, sp) ==
  CASE k = KeyAlgorithm -> IF v # AlgEcdsa THEN Fail ELSE [sp EXCEPT !.alg = v]
    [] k = KeySignature -> [sp EXCEPT !.sig = v]
    [] k = KeyHeaders   ->
         LET hs == ParseDelimitedString(v, " ")
         IN  IF Len(hs) = 0 THEN Fail ELSE [sp EXCEPT !.headers = @ \o hs]
    [] OTHER            -> sp

(* One iteration of the loop over the parameters, on token p: the set of   *)
(* sig_params (or Fail) it may leave, over the bytes the reads may return. *)
ParamStep(p, sp) ==
  LET eq == Find(p, "=")
      k  == SubSeq(p, 1, eq - 1)
      v  == SubSeq(p, eq + 1, Len(p))
      Outcome(b, e) ==
        IF Len(v) >= 2 /\ (b \/ e)
          THEN IF ~(b /\ e) THEN Fail
               ELSE Assign(k, SubSeq(v, 2, Len(v) - 1), sp)
          ELSE Assign(k, v, sp)
  IN  IF eq = 0 THEN {Fail}
      ELSE {Outcome(b, e) : b \in QuoteAt(v, 1), e \in QuoteAt(v, Len(v))}

(* parse_signature_params: the results the parse may return.               *)
ParseSignatureParams(s) ==
  LET ps == ParseDelimitedString(s, ",")
      R[i \in 0 .. Len(ps)] ==
        IF i = 0 THEN {NoParams}
        ELSE UNION {IF sp = Fail THEN {Fail} ELSE ParamStep(ps[i], sp)
                      : sp \in R[i - 1]}
  IN  R[Len(ps)]

-----------------------------------------------------------------------------
(* The reading HttpSig makes of a header value.  The tokens between the    *)
(* delimiters, defined from the delimiters' positions.                     *)
Split(s, d) ==
  LET cut == SelectSeq([i \in 1 .. Len(s) + 2 |-> i - 1],
                       LAMBDA i : i \in {0, Len(s) + 1} \/ s[i] = d)
  IN  [j \in 1 .. Len(cut) - 1 |-> SubSeq(s, cut[j] + 1, cut[j + 1] - 1)]

(* The marker keys of a token without "=" and of one with a lone quote:   *)
(* no key of one-letter characters is either.                              *)
NoEq       == <<"noeq">>
Unbalanced == <<"unbalanced">>

(* A token as an HttpSig parameter record: "noeq" without "=", else the    *)
(* key before the first "=" and the value after it, with a pair of         *)
(* enclosing quotes removed, "unbalanced" when just one end is a quote.    *)
Param(t) ==
  LET i == Find(t, "=")
      v == SubSeq(t, i + 1, Len(t))
      q(j) == Len(v) >= 2 /\ v[j] = Quote
  IN  IF i = 0 THEN [k |-> NoEq]
      ELSE IF q(1) # q(Len(v)) THEN [k |-> Unbalanced]
      ELSE [k |-> SubSeq(t, 1, i - 1),
            v |-> IF q(1) THEN SubSeq(v, 2, Len(v) - 1) ELSE v]

(* HttpSig's BadParam, ParamSignature and ParamSignedHeaders on records.   *)
BadParam(r) ==
  \/ r.k \in {NoEq, Unbalanced}
  \/ r.k = KeyAlgorithm /\ r.v # AlgEcdsa
  \/ r.k = KeyHeaders /\ Len(Split(r.v, " ")) = 0

Reading(s) ==
  LET rs == [j \in 1 .. Len(Split(s, ",")) |-> Param(Split(s, ",")[j])]
      with(key) == {j \in DOMAIN rs : rs[j].k = key}
  IN  IF \E j \in DOMAIN rs : BadParam(rs[j]) THEN Fail
      ELSE [alg |-> IF with(KeyAlgorithm) = {} THEN <<>> ELSE AlgEcdsa,
            sig |-> IF with(KeySignature) = {} THEN <<>>
                    ELSE rs[Max(with(KeySignature))].v,
            headers |-> FlattenSeq([j \in 1 .. Len(rs) |->
                          IF rs[j].k = KeyHeaders THEN Split(rs[j].v, " ")
                          ELSE <<>>])]

-----------------------------------------------------------------------------
VARIABLES
  header,   \* the Authorization value after the scheme
  results   \* what parse_signature_params may return; {} before the call

vars == <<header, results>>

Init ==
  /\ header \in Inputs
  /\ results = {}

(* The verifier calls parse_signature_params on the header.                *)
Parse ==
  /\ results = {}
  /\ results' = ParseSignatureParams(header)
  /\ UNCHANGED header

Spec == Init /\ [][Parse]_vars

-----------------------------------------------------------------------------
(* parse_signature_params returns one result whatever bytes the reads of  *)
(* v.front() and v.back() on an empty value return, and that result is    *)
(* the one HttpSig assumes: the tokens between the commas and spaces, the  *)
(* failure of the whole parse on any bad token, the last signature= value  *)
(* and every headers= list in order.                                       *)
ParsedAsModelled == results # {} => results = {Reading(header)}

=============================================================================
