---------------------------- MODULE HttpSigProofs ----------------------------
(***************************************************************************)
(* Proofs about HttpSig, for every value of its constants.                 *)
(***************************************************************************)
EXTENDS HttpSig, TLAPS

(* A one-element sequence over S.                                          *)
LEMMA SingletonSeq ==
  ASSUME NEW S, NEW x \in S
  PROVE  <<x>> \in Seq(S)
OBVIOUS

(* request.set_header keeps a header map well-typed when the value fits   *)
(* the name: one lemma per kind of header.                                  *)
LEMMA SetDigestTyped ==
  ASSUME NEW hs \in HeaderMaps, NEW v \in DigestValues \cup {Absent}
  PROVE  SetHeader(hs, DigestHeader, v) \in HeaderMaps
BY DEF SetHeader, HeaderMaps

LEMMA SetAuthTyped ==
  ASSUME NEW hs \in HeaderMaps, NEW v \in AuthValues \cup {Absent}
  PROVE  SetHeader(hs, AuthHeader, v) \in HeaderMaps
BY DEF SetHeader, HeaderMaps, DigestHeader, AuthHeader

LEMMA SetPlainTyped ==
  ASSUME NEW hs \in HeaderMaps, NEW n \in PlainNames,
         NEW v \in PlainValues \cup {Absent}
  PROVE  SetHeader(hs, n, v) \in HeaderMaps
<1>1. n # DigestHeader /\ n # AuthHeader
  BY ConstantsAssumption
<1>. QED
  BY <1>1 DEF SetHeader, HeaderMaps

(* Dropping any header keeps the map well-typed.                           *)
LEMMA DropHeaderTyped ==
  ASSUME NEW hs \in HeaderMaps, NEW n \in HeaderNames
  PROVE  DropHeader(hs, n) \in HeaderMaps
BY SetDigestTyped, SetAuthTyped, SetPlainTyped DEF DropHeader, HeaderNames

(* Replacing the header map of a request by a well-typed one.              *)
LEMMA RequestHeadersTyped ==
  ASSUME NEW r \in Requests, NEW hs \in HeaderMaps
  PROVE  [r EXCEPT !.headers = hs] \in Requests
BY DEF Requests

(* The Authorization value sign_request writes is well-typed.              *)
LEMMA AuthValueTyped ==
  ASSUME NEW L \in SignLists, NEW s \in 0 .. MaxSign
  PROVE  AuthValue(L, s) \in AuthValues
<1>1. L \in Seq(ListTokens)
  BY ConstantsAssumption
<1>2. SplitJoin(L) \in Seq(ListTokens)
  <2>1. "" \in ListTokens
    BY DEF ListTokens
  <2>2. <<"">> \in Seq(ListTokens)
    BY <2>1, SingletonSeq
  <2>. QED
    BY <1>1, <2>2 DEF SplitJoin
<1>3. <<>> \in Seq(ListTokens)
  OBVIOUS
<1>4. TextParam("keyId", "ignored") \in Params
  BY <1>3, ConstantsAssumption DEF TextParam, Params, ParamKeys, ParamTexts
<1>5. TextParam("algorithm", SignatureAlg) \in Params
  BY <1>3, ConstantsAssumption DEF TextParam, Params, ParamKeys, ParamTexts
<1>6. ListParam(SplitJoin(L)) \in Params
  BY <1>2, ConstantsAssumption DEF ListParam, Params, ParamKeys, ParamTexts
<1>7. SigParam(s) \in Params
  BY <1>3, ConstantsAssumption DEF SigParam, Params, ParamKeys, ParamTexts
<1>. QED
  BY <1>4, <1>5, <1>6, <1>7 DEF AuthValue, AuthValues

(* Every parameter the attacker can write is well-typed.                   *)
LEMMA AttackParamsTyped ==
  ASSUME Len(log) \in 0 .. MaxSign
  PROVE  AttackParams \subseteq Params
<1>1. <<>> \in Seq(ListTokens)
  OBVIOUS
<1>2. ASSUME NEW L \in AttackLists PROVE ListParam(L) \in Params
  <2>1. L \in Seq(ListTokens)
    BY ConstantsAssumption
  <2>. QED
    BY <2>1, ConstantsAssumption DEF ListParam, Params, ParamKeys, ParamTexts
<1>3. ASSUME NEW s \in 0 .. Len(log) PROVE SigParam(s) \in Params
  BY <1>1, ConstantsAssumption DEF SigParam, Params, ParamKeys, ParamTexts
<1>4. /\ TextParam("algorithm", "hmac-sha256") \in Params
      /\ TextParam("noeq", "") \in Params
      /\ TextParam("unbalanced", "") \in Params
  BY <1>1, ConstantsAssumption DEF TextParam, Params, ParamKeys, ParamTexts
<1>. QED
  BY <1>2, <1>3, <1>4 DEF AttackParams

(* The attacker's edits of an Authorization value keep it well-typed: a  *)
(* new scheme, or one parameter dropped.                                   *)
LEMMA AuthEditsTyped ==
  ASSUME NEW a \in AuthValues
  PROVE  /\ \A s \in {"Bearer", NoSpace} : [a EXCEPT !.scheme = s] \in AuthValues
         /\ \A i \in 1 .. Len(a.params) :
              [a EXCEPT !.params =
                 [j \in 1 .. Len(@) - 1 |-> IF j < i THEN @[j] ELSE @[j + 1]]]
                \in AuthValues
<1>1. a.params \in Seq(Params) /\ a.scheme \in {"Signature", "Bearer", NoSpace}
  BY DEF AuthValues
<1>2. a = [scheme |-> a.scheme, params |-> a.params]
  BY DEF AuthValues
<1>3. \A s \in {"Bearer", NoSpace} : [a EXCEPT !.scheme = s] \in AuthValues
  BY <1>1, <1>2 DEF AuthValues
<1>4. \A i \in 1 .. Len(a.params) :
        [a EXCEPT !.params =
           [j \in 1 .. Len(@) - 1 |-> IF j < i THEN @[j] ELSE @[j + 1]]]
          \in AuthValues
  <2>. SUFFICES ASSUME NEW i \in 1 .. Len(a.params)
                PROVE  [j \in 1 .. Len(a.params) - 1 |->
                          IF j < i THEN a.params[j] ELSE a.params[j + 1]]
                         \in Seq(Params)
    BY <1>1, <1>2 DEF AuthValues
  <2>. QED
    BY <1>1
<1>. QED
  BY <1>3, <1>4

(* The attacker's parameter edits keep it well-typed: one parameter       *)
(* overwritten, or one appended.                                           *)
LEMMA AuthParamEditsTyped ==
  ASSUME NEW a \in AuthValues, NEW p \in Params
  PROVE  /\ \A i \in 1 .. Len(a.params) :
              [a EXCEPT !.params[i] = p] \in AuthValues
         /\ [a EXCEPT !.params = Append(@, p)] \in AuthValues
<1>1. a.params \in Seq(Params) /\ a.scheme \in {"Signature", "Bearer", NoSpace}
  BY DEF AuthValues
<1>2. a = [scheme |-> a.scheme, params |-> a.params]
  BY DEF AuthValues
<1>3. ASSUME NEW i \in 1 .. Len(a.params)
      PROVE  [a EXCEPT !.params[i] = p] \in AuthValues
  <2>1. [a.params EXCEPT ![i] = p] \in Seq(Params)
    BY <1>1
  <2>. QED
    BY <1>1, <1>2, <2>1 DEF AuthValues
<1>4. [a EXCEPT !.params = Append(@, p)] \in AuthValues
  <2>1. Append(a.params, p) \in Seq(Params)
    BY <1>1
  <2>. QED
    BY <1>1, <1>2, <2>1 DEF AuthValues
<1>. QED
  BY <1>3, <1>4

(* add_digest_header leaves a well-typed request.                          *)
LEMMA AddDigestHeaderTyped ==
  ASSUME NEW r \in Requests
  PROVE  AddDigestHeader(r) \in Requests
<1>1. [eq |-> TRUE, alg |-> DigestAlg, hash |-> Sha256[r.body]] \in DigestValues
  BY DEF Requests, DigestValues
<1>2. SetHeader(r.headers, DigestHeader,
                [eq |-> TRUE, alg |-> DigestAlg, hash |-> Sha256[r.body]]) \in HeaderMaps
  BY <1>1, SetDigestTyped DEF Requests
<1>. QED
  BY <1>2, RequestHeadersTyped DEF AddDigestHeader

(* The verification outcome is one of the seven kinds.                     *)
LEMMA ParseKind ==
  ASSUME NEW r, NEW sigs
  PROVE  Parse(r, sigs) \in Kinds
BY DEF Parse, Kinds

(* The request the i-th sign_request call sent is well-typed.              *)
LEMMA SentReqTyped ==
  ASSUME TypeOK, NEW i \in 1 .. Len(log)
  PROVE  SentReq(i) \in Requests
<1>1. log[i] \in LogEntries
  BY DEF TypeOK
<1>2. AuthValue(log[i].list, i) \in AuthValues
  BY <1>1, AuthValueTyped, ConstantsAssumption DEF TypeOK, LogEntries
<1>3. SetHeader(log[i].pre.headers, AuthHeader, AuthValue(log[i].list, i)) \in HeaderMaps
  BY <1>1, <1>2, SetAuthTyped DEF LogEntries, Requests
<1>. QED
  BY <1>1, <1>3, RequestHeadersTyped DEF SentReq, LogEntries

(* One attacker edit that leaves a well-typed request keeps TypeOK.        *)
LEMMA TamperTyped ==
  ASSUME TypeOK, NEW r2 \in Requests, Tamper(r2)
  PROVE  TypeOK'
<1>1. origin' \in [entry : 0 .. MaxSign, tampered : BOOLEAN]
  BY DEF TypeOK, Tamper
<1>2. tampers' \in 0 .. MaxTamper
  BY ConstantsAssumption DEF TypeOK, Tamper
<1>3. UNCHANGED <<log, verdict, lastSign>> /\ wire' = r2
  BY DEF Tamper
<1>. QED
  BY <1>1, <1>2, <1>3 DEF TypeOK

-----------------------------------------------------------------------------
(* One lemma per action of Next: each keeps TypeOK.                        *)

LEMMA SignRequestTypeOK ==
  ASSUME TypeOK, NEW cr \in ClientRequests, NEW L \in SignLists,
         SignRequest(cr, L)
  PROVE  TypeOK'
<1>. DEFINE r1  == AddDigestHeader(cr)
            sig == Len(log) + 1
            r2  == [r1 EXCEPT !.headers = SetHeader(@, AuthHeader, AuthValue(L, sig))]
<1>1. sig \in 1 .. MaxSign
  BY ConstantsAssumption DEF TypeOK, SignRequest
<1>2. r1 \in Requests
  BY ClientRequestsAssumption, AddDigestHeaderTyped
<1>3. r2 \in Requests
  <2>1. AuthValue(L, sig) \in AuthValues
    BY <1>1, AuthValueTyped
  <2>2. SetHeader(r1.headers, AuthHeader, AuthValue(L, sig)) \in HeaderMaps
    BY <1>2, <2>1, SetAuthTyped DEF Requests
  <2>. QED
    BY <1>2, <2>2, RequestHeadersTyped
<1>4. [pre |-> r1, list |-> L] \in LogEntries
  BY <1>2 DEF LogEntries
<1>5. log' \in Seq(LogEntries) /\ Len(log') <= MaxSign
  BY <1>1, <1>4 DEF TypeOK, SignRequest
<1>6. /\ wire' = r2
      /\ origin' = [entry |-> sig, tampered |-> FALSE]
      /\ tampers' = 0 /\ verdict' = NoVerdict /\ lastSign' = "sent"
  BY DEF SignRequest
<1>. QED
  BY <1>1, <1>3, <1>5, <1>6, ConstantsAssumption DEF TypeOK

LEMMA SignRequestThrowsTypeOK ==
  ASSUME TypeOK, NEW cr \in ClientRequests, NEW L \in SignLists,
         SignRequestThrows(cr, L)
  PROVE  TypeOK'
BY DEF TypeOK, SignRequestThrows

LEMMA ReplayTypeOK ==
  ASSUME TypeOK, NEW i \in 1 .. Len(log), Replay(i)
  PROVE  TypeOK'
<1>1. SentReq(i) \in Requests
  BY SentReqTyped
<1>2. i \in 0 .. MaxSign
  BY ConstantsAssumption DEF TypeOK
<1>3. /\ wire' = SentReq(i)
      /\ origin' = [entry |-> i, tampered |-> FALSE]
      /\ tampers' = 0 /\ verdict' = NoVerdict
      /\ UNCHANGED <<log, lastSign>>
  BY DEF Replay
<1>. QED
  BY <1>1, <1>2, <1>3, ConstantsAssumption DEF TypeOK

LEMMA TamperRequestLineTypeOK ==
  ASSUME TypeOK, TamperRequestLine
  PROVE  TypeOK'
<1>. wire \in Requests
  BY DEF TypeOK, TamperRequestLine, Tamper
<1>1. CASE \E v \in Verbs : Tamper([wire EXCEPT !.verb = v])
  BY <1>1, TamperTyped DEF Requests
<1>2. CASE \E pa \in Paths : Tamper([wire EXCEPT !.path = pa])
  BY <1>2, TamperTyped DEF Requests
<1>3. CASE \E q \in Queries : Tamper([wire EXCEPT !.query = q])
  BY <1>3, TamperTyped DEF Requests
<1>4. CASE \E b \in Bodies : Tamper([wire EXCEPT !.body = b])
  BY <1>4, TamperTyped DEF Requests
<1>. QED
  BY <1>1, <1>2, <1>3, <1>4 DEF TamperRequestLine

LEMMA TamperHeadersTypeOK ==
  ASSUME TypeOK, TamperHeaders
  PROVE  TypeOK'
<1>. wire \in Requests
  BY DEF TypeOK, TamperHeaders, Tamper
<1>1. CASE \E n \in PlainNames, v \in PlainValues :
             Tamper([wire EXCEPT !.headers = SetHeader(@, n, v)])
  <2>. PICK n \in PlainNames, v \in PlainValues :
              Tamper([wire EXCEPT !.headers = SetHeader(@, n, v)])
    BY <1>1
  <2>. QED
    BY SetPlainTyped, RequestHeadersTyped, TamperTyped DEF Requests
<1>2. CASE \E v \in DigestValues :
             Tamper([wire EXCEPT !.headers = SetHeader(@, DigestHeader, v)])
  <2>. PICK v \in DigestValues :
              Tamper([wire EXCEPT !.headers = SetHeader(@, DigestHeader, v)])
    BY <1>2
  <2>. QED
    BY SetDigestTyped, RequestHeadersTyped, TamperTyped DEF Requests
<1>3. CASE \E n \in HeaderNames :
             Tamper([wire EXCEPT !.headers = DropHeader(@, n)])
  <2>. PICK n \in HeaderNames : Tamper([wire EXCEPT !.headers = DropHeader(@, n)])
    BY <1>3
  <2>. QED
    BY DropHeaderTyped, RequestHeadersTyped, TamperTyped DEF Requests
<1>4. CASE \E i \in 1 .. Len(log) :
             Tamper([wire EXCEPT !.headers =
                       SetHeader(@, AuthHeader, SentReq(i).headers.auth)])
  <2>. PICK i \in 1 .. Len(log) :
              Tamper([wire EXCEPT !.headers =
                        SetHeader(@, AuthHeader, SentReq(i).headers.auth)])
    BY <1>4
  <2>1. SentReq(i).headers.auth \in AuthValues \cup {Absent}
    BY SentReqTyped DEF Requests, HeaderMaps
  <2>. QED
    BY <2>1, SetAuthTyped, RequestHeadersTyped, TamperTyped DEF Requests
<1>. QED
  BY <1>1, <1>2, <1>3, <1>4 DEF TamperHeaders

LEMMA TamperAuthorizationTypeOK ==
  ASSUME TypeOK, TamperAuthorization
  PROVE  TypeOK'
<1>. DEFINE a == wire.headers.auth
            SetAuth(a2) == Tamper([wire EXCEPT !.headers = SetHeader(@, AuthHeader, a2)])
<1>1. wire \in Requests
  BY DEF TypeOK, TamperAuthorization
<1>2. a \in AuthValues
  BY <1>1 DEF TamperAuthorization, Present, Header, Requests, HeaderMaps,
              DigestHeader, AuthHeader
<1>3. AttackParams \subseteq Params
  BY AttackParamsTyped, ConstantsAssumption DEF TypeOK
<1>4. ASSUME NEW a2 \in AuthValues, SetAuth(a2) PROVE TypeOK'
  BY <1>1, <1>4, SetAuthTyped, RequestHeadersTyped, TamperTyped DEF Requests
<1>5. \/ \E s \in {"Bearer", NoSpace} : SetAuth([a EXCEPT !.scheme = s])
      \/ \E i \in 1 .. Len(a.params), p \in AttackParams :
           SetAuth([a EXCEPT !.params[i] = p])
      \/ \E p \in AttackParams : SetAuth([a EXCEPT !.params = Append(@, p)])
      \/ \E i \in 1 .. Len(a.params) :
           SetAuth([a EXCEPT !.params =
                      [j \in 1 .. Len(@) - 1 |-> IF j < i THEN @[j] ELSE @[j + 1]]])
  BY DEF TamperAuthorization
<1>6. CASE \E s \in {"Bearer", NoSpace} : SetAuth([a EXCEPT !.scheme = s])
  <2>. PICK s \in {"Bearer", NoSpace} : SetAuth([a EXCEPT !.scheme = s])
    BY <1>6
  <2>1. [a EXCEPT !.scheme = s] \in AuthValues
    BY <1>2, AuthEditsTyped
  <2>. QED
    BY <2>1, <1>4
<1>7. CASE \E i \in 1 .. Len(a.params), p \in AttackParams :
             SetAuth([a EXCEPT !.params[i] = p])
  <2>. PICK i \in 1 .. Len(a.params), p \in AttackParams :
              SetAuth([a EXCEPT !.params[i] = p])
    BY <1>7
  <2>1. [a EXCEPT !.params[i] = p] \in AuthValues
    BY <1>2, <1>3, AuthParamEditsTyped
  <2>. QED
    BY <2>1, <1>4
<1>8. CASE \E p \in AttackParams : SetAuth([a EXCEPT !.params = Append(@, p)])
  <2>. PICK p \in AttackParams : SetAuth([a EXCEPT !.params = Append(@, p)])
    BY <1>8
  <2>1. [a EXCEPT !.params = Append(@, p)] \in AuthValues
    BY <1>2, <1>3, AuthParamEditsTyped
  <2>. QED
    BY <2>1, <1>4
<1>9. CASE \E i \in 1 .. Len(a.params) :
             SetAuth([a EXCEPT !.params =
                        [j \in 1 .. Len(@) - 1 |-> IF j < i THEN @[j] ELSE @[j + 1]]])
  <2>. PICK i \in 1 .. Len(a.params) :
              SetAuth([a EXCEPT !.params =
                         [j \in 1 .. Len(@) - 1 |-> IF j < i THEN @[j] ELSE @[j + 1]]])
    BY <1>9
  <2>1. [a EXCEPT !.params =
           [j \in 1 .. Len(@) - 1 |-> IF j < i THEN @[j] ELSE @[j + 1]]] \in AuthValues
    BY <1>2, AuthEditsTyped
  <2>. QED
    BY <2>1, <1>4
<1>. QED
  BY <1>5, <1>6, <1>7, <1>8, <1>9

LEMMA VerifyTypeOK ==
  ASSUME TypeOK, Verify
  PROVE  TypeOK'
<1>1. wire \in Requests
  BY DEF TypeOK, Verify
<1>2. Parse(wire, Signed) \in Kinds
  BY ParseKind
<1>3. /\ verdict'.kind = Parse(wire, Signed)
      /\ verdict'.req = wire
      /\ verdict'.entry = origin.entry
      /\ verdict'.tampered = origin.tampered
  BY DEF Verify
<1>. QED
  BY <1>1, <1>2, <1>3, ConstantsAssumption DEF TypeOK, Verify

LEMMA InitTypeOK == Init => TypeOK
BY ConstantsAssumption DEF Init, TypeOK, NoVerdict

(* TypeOK holds in every reachable state: every request on the wire is a  *)
(* well-formed request, every sign_request call that returned is logged   *)
(* with the request and list it signed, and every verification ends in    *)
(* one of the seven outcomes of parse and the signature check.            *)
THEOREM TypeCorrect == Spec => []TypeOK
<1>1. Init => TypeOK
  BY InitTypeOK
<1>2. TypeOK /\ [Next]_vars => TypeOK'
  <2>. SUFFICES ASSUME TypeOK, [Next]_vars PROVE TypeOK'
    OBVIOUS
  <2>1. CASE \E cr \in ClientRequests, L \in SignLists :
               SignRequest(cr, L) \/ SignRequestThrows(cr, L)
    BY <2>1, SignRequestTypeOK, SignRequestThrowsTypeOK
  <2>2. CASE \E i \in 1 .. Len(log) : Replay(i)
    BY <2>2, ReplayTypeOK
  <2>3. CASE TamperRequestLine
    BY <2>3, TamperRequestLineTypeOK
  <2>4. CASE TamperHeaders
    BY <2>4, TamperHeadersTypeOK
  <2>5. CASE TamperAuthorization
    BY <2>5, TamperAuthorizationTypeOK
  <2>6. CASE Verify
    BY <2>6, VerifyTypeOK
  <2>7. CASE UNCHANGED vars
    BY <2>7 DEF TypeOK, vars
  <2>. QED
    BY <2>1, <2>2, <2>3, <2>4, <2>5, <2>6, <2>7 DEF Next
<1>. QED
  BY <1>1, <1>2, PTL DEF Spec

=============================================================================
