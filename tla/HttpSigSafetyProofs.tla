------------------------- MODULE HttpSigSafetyProofs -------------------------
(***************************************************************************)
(* Proofs of the two safety properties of HttpSig, Authenticity and        *)
(* Completeness, for every value of the constants that satisfies the       *)
(* conditions below.  The runs http_sig_path_query and http_sig_resign     *)
(* show that the first and the last condition cannot be dropped.           *)
(***************************************************************************)
EXTENDS HttpSigProofs, SequenceTheorems

(* The request target identifies the verb, path and query: lower-casing   *)
(* keeps verbs apart and no path holds a '?'.                               *)
TargetUnambiguous ==
  /\ \A v1, v2 \in Verbs : Lower[v1] = Lower[v2] => v1 = v2
  /\ \A p \in Paths : \A j \in 1 .. Len(p) : p[j] # "?"

(* The required-header floor covers the request target and the digest     *)
(* (spec 5, "minimally {request-target, digest}").                         *)
RequiredFloor == {RequestTarget, DigestHeader} \subseteq RequiredHeaders

(* The client does not list authorization among the headers it signs:     *)
(* sign_request overwrites that header after it built the signed string.  *)
AuthNotSigned == \A L \in SignLists : \A j \in 1 .. Len(L) : L[j] # AuthHeader

(* A header the request carries is never the Absent marker.                *)
AbsentIsNoValue == Absent \notin DigestValues \cup AuthValues

-----------------------------------------------------------------------------
(* A two-element sequence over S.                                          *)
LEMMA PairSeq ==
  ASSUME NEW S, NEW x \in S, NEW y \in S
  PROVE  <<x, y>> \in Seq(S)
OBVIOUS

(* The tokens of a request-target value.                                   *)
Tok == PathChars \cup {"?", " "} \cup {Lower[v] : v \in Verbs}

(* The paths and queries of well-typed requests are token sequences.      *)
LEMMA RequestTokens ==
  ASSUME NEW r \in Requests
  PROVE  /\ r.path \in Seq(Tok) /\ r.query \in Seq(Tok)
         /\ <<Lower[r.verb], " ">> \in Seq(Tok) /\ <<"?">> \in Seq(Tok)
<1>1. r.path \in Seq(PathChars) /\ r.query \in Seq(PathChars) /\ r.verb \in Verbs
  BY ConstantsAssumption DEF Requests
<1>2. PathChars \subseteq Tok
  BY DEF Tok
<1>3. r.path \in Seq(Tok) /\ r.query \in Seq(Tok)
  BY <1>1, <1>2, SeqMonotonic
<1>4. Lower[r.verb] \in Tok /\ " " \in Tok /\ "?" \in Tok
  BY <1>1 DEF Tok
<1>. QED
  BY <1>3, <1>4, PairSeq, SingletonSeq

(* The positions of a concatenation.                                      *)
LEMMA ConcatIndex ==
  ASSUME NEW S, NEW u \in Seq(S), NEW v \in Seq(S)
  PROVE  /\ u \o v \in Seq(S)
         /\ Len(u \o v) = Len(u) + Len(v)
         /\ \A j \in 1 .. Len(u) : (u \o v)[j] = u[j]
         /\ \A j \in 1 .. Len(v) : (u \o v)[Len(u) + j] = v[j]
BY ConcatProperties

(* The query part "?" q of a request target, empty when q is.            *)
LEMMA QueryPart ==
  ASSUME NEW S, NEW m \in S, NEW q \in Seq(S)
  PROVE  LET Q == IF q = <<>> THEN <<>> ELSE <<m>> \o q
         IN  /\ Q \in Seq(S) /\ Len(Q) = IF q = <<>> THEN 0 ELSE 1 + Len(q)
             /\ q # <<>> => Q[1] = m /\ \A j \in 1 .. Len(q) : Q[1 + j] = q[j]
BY ConcatProperties

(* The shape of a request-target value: a b p, then m q unless q is empty, *)
(* and the condition that p holds no m.  Kept as operators so that the     *)
(* lemma below is applied to its statement as it stands.                   *)
QPart(m, q) == IF q = <<>> THEN <<>> ELSE <<m>> \o q
Joined(a, b, p, m, q) == <<a, b>> \o p \o QPart(m, q)
NoMark(p, m) == \A j \in 1 .. Len(p) : p[j] # m
QMark == "?"
Space == " "

(* A sequence a b p [m q] in which p holds no m splits one way only: the  *)
(* first m after the two leading tokens ends p.                             *)
LEMMA TargetSplit ==
  ASSUME NEW S, NEW a1 \in S, NEW a2 \in S, NEW b \in S, NEW m \in S,
         NEW p1 \in Seq(S), NEW p2 \in Seq(S), NEW q1 \in Seq(S), NEW q2 \in Seq(S),
         NoMark(p1, m), NoMark(p2, m),
         Joined(a1, b, p1, m, q1) = Joined(a2, b, p2, m, q2)
  PROVE  a1 = a2 /\ p1 = p2 /\ q1 = q2
<1>. USE DEF NoMark, Joined, QPart
<1>1. PICK Q1 \in Seq(S) : Q1 = IF q1 = <<>> THEN <<>> ELSE <<m>> \o q1
  BY QueryPart
<1>2. PICK Q2 \in Seq(S) : Q2 = IF q2 = <<>> THEN <<>> ELSE <<m>> \o q2
  BY QueryPart
<1>3. /\ Len(Q1) = IF q1 = <<>> THEN 0 ELSE 1 + Len(q1)
      /\ q1 # <<>> => Q1[1] = m /\ \A j \in 1 .. Len(q1) : Q1[1 + j] = q1[j]
      /\ Len(Q2) = IF q2 = <<>> THEN 0 ELSE 1 + Len(q2)
      /\ q2 # <<>> => Q2[1] = m /\ \A j \in 1 .. Len(q2) : Q2[1 + j] = q2[j]
  BY <1>1, <1>2, QueryPart
<1>0. <<a1, b>> \in Seq(S) /\ <<a2, b>> \in Seq(S)
  OBVIOUS
<1>4. PICK U1 \in Seq(S) : U1 = <<a1, b>> \o p1
  BY <1>0, ConcatIndex
<1>5. PICK U2 \in Seq(S) : U2 = <<a2, b>> \o p2
  BY <1>0, ConcatIndex
<1>6. /\ Len(U1) = 2 + Len(p1) /\ U1[1] = a1
      /\ \A j \in 1 .. Len(p1) : U1[2 + j] = p1[j]
      /\ Len(U2) = 2 + Len(p2) /\ U2[1] = a2
      /\ \A j \in 1 .. Len(p2) : U2[2 + j] = p2[j]
  BY <1>0, <1>4, <1>5, ConcatIndex
<1>7. U1 \o Q1 = U2 \o Q2
  BY <1>1, <1>2, <1>4, <1>5
<1>8. /\ Len(U1 \o Q1) = Len(U1) + Len(Q1)
      /\ \A j \in 1 .. Len(U1) : (U1 \o Q1)[j] = U1[j]
      /\ \A j \in 1 .. Len(Q1) : (U1 \o Q1)[Len(U1) + j] = Q1[j]
      /\ Len(U2 \o Q2) = Len(U2) + Len(Q2)
      /\ \A j \in 1 .. Len(U2) : (U2 \o Q2)[j] = U2[j]
      /\ \A j \in 1 .. Len(Q2) : (U2 \o Q2)[Len(U2) + j] = Q2[j]
  BY ConcatIndex
<1>9. PICK T \in Seq(S) : T = U1 \o Q1 /\ T = U2 \o Q2
  BY <1>7, ConcatIndex
<1>10. /\ Len(T) = 2 + Len(p1) + Len(Q1) /\ T[1] = a1
       /\ \A j \in 1 .. Len(p1) : T[2 + j] = p1[j]
       /\ \A j \in 1 .. Len(Q1) : T[2 + Len(p1) + j] = Q1[j]
  <2>1. Len(p1) \in Nat /\ Len(Q1) \in Nat
    BY LenProperties
  <2>2. Len(T) = 2 + Len(p1) + Len(Q1)
    BY <1>6, <1>8, <1>9, <2>1
  <2>3. T[1] = a1
    BY <1>6, <1>8, <1>9, <2>1
  <2>4. \A j \in 1 .. Len(p1) : T[2 + j] = p1[j]
    <3>. SUFFICES ASSUME NEW j \in 1 .. Len(p1) PROVE T[2 + j] = p1[j]
      OBVIOUS
    <3>1. 2 + j \in 1 .. Len(U1)
      BY <1>6, <2>1
    <3>2. T[2 + j] = U1[2 + j]
      BY <3>1, <1>8, <1>9
    <3>. QED
      BY <3>2, <1>6
  <2>5. \A j \in 1 .. Len(Q1) : T[2 + Len(p1) + j] = Q1[j]
    <3>. SUFFICES ASSUME NEW j \in 1 .. Len(Q1) PROVE T[2 + Len(p1) + j] = Q1[j]
      OBVIOUS
    <3>1. T[Len(U1) + j] = Q1[j]
      BY <1>8, <1>9
    <3>. QED
      BY <3>1, <1>6
  <2>. QED
    BY <2>2, <2>3, <2>4, <2>5
<1>20. /\ Len(T) = 2 + Len(p2) + Len(Q2) /\ T[1] = a2
       /\ \A j \in 1 .. Len(p2) : T[2 + j] = p2[j]
       /\ \A j \in 1 .. Len(Q2) : T[2 + Len(p2) + j] = Q2[j]
  <2>1. Len(p2) \in Nat /\ Len(Q2) \in Nat
    BY LenProperties
  <2>2. Len(T) = 2 + Len(p2) + Len(Q2)
    BY <1>6, <1>8, <1>9, <2>1
  <2>3. T[1] = a2
    BY <1>6, <1>8, <1>9, <2>1
  <2>4. \A j \in 1 .. Len(p2) : T[2 + j] = p2[j]
    <3>. SUFFICES ASSUME NEW j \in 1 .. Len(p2) PROVE T[2 + j] = p2[j]
      OBVIOUS
    <3>1. 2 + j \in 1 .. Len(U2)
      BY <1>6, <2>1
    <3>2. T[2 + j] = U2[2 + j]
      BY <3>1, <1>8, <1>9
    <3>. QED
      BY <3>2, <1>6
  <2>5. \A j \in 1 .. Len(Q2) : T[2 + Len(p2) + j] = Q2[j]
    <3>. SUFFICES ASSUME NEW j \in 1 .. Len(Q2) PROVE T[2 + Len(p2) + j] = Q2[j]
      OBVIOUS
    <3>1. T[Len(U2) + j] = Q2[j]
      BY <1>8, <1>9
    <3>. QED
      BY <3>1, <1>6
  <2>. QED
    BY <2>2, <2>3, <2>4, <2>5
<1>11. a1 = a2
  BY <1>10, <1>20
<1>12. ~(Len(p1) < Len(p2))
  <2>. SUFFICES ASSUME Len(p1) < Len(p2) PROVE FALSE
    OBVIOUS
  <2>1. CASE q1 = <<>>
    <3>1. Len(Q1) = 0
      BY <1>3, <2>1
    <3>2. Len(Q2) \in Nat /\ Len(p1) \in Nat /\ Len(p2) \in Nat
      BY LenProperties
    <3>. QED
      BY <3>1, <3>2, <1>10, <1>20
  <2>2. CASE q1 # <<>>
    <3>1. T[2 + Len(p1) + 1] = m
      <4>1. Len(q1) \in Nat
        BY LenProperties
      <4>2. 1 \in 1 .. Len(Q1) /\ Q1[1] = m
        BY <4>1, <1>3, <2>2
      <4>. QED
        BY <4>2, <1>10
    <3>2. T[2 + (Len(p1) + 1)] = p2[Len(p1) + 1]
      <4>1. Len(p1) \in Nat /\ Len(p1) + 1 \in 1 .. Len(p2)
        BY LenProperties
      <4>. QED
        BY <4>1, <1>20
    <3>. QED
      BY <3>1, <3>2, LenProperties
  <2>. QED
    BY <2>1, <2>2
<1>13. ~(Len(p2) < Len(p1))
  <2>. SUFFICES ASSUME Len(p2) < Len(p1) PROVE FALSE
    OBVIOUS
  <2>1. CASE q2 = <<>>
    <3>1. Len(Q2) = 0
      BY <1>3, <2>1
    <3>2. Len(Q1) \in Nat /\ Len(p1) \in Nat /\ Len(p2) \in Nat
      BY LenProperties
    <3>. QED
      BY <3>1, <3>2, <1>10, <1>20
  <2>2. CASE q2 # <<>>
    <3>1. T[2 + Len(p2) + 1] = m
      <4>1. Len(q2) \in Nat
        BY LenProperties
      <4>2. 1 \in 1 .. Len(Q2) /\ Q2[1] = m
        BY <4>1, <1>3, <2>2
      <4>. QED
        BY <4>2, <1>20
    <3>2. T[2 + (Len(p2) + 1)] = p1[Len(p2) + 1]
      <4>1. Len(p2) \in Nat /\ Len(p2) + 1 \in 1 .. Len(p1)
        BY LenProperties
      <4>. QED
        BY <4>1, <1>10
    <3>. QED
      BY <3>1, <3>2, LenProperties
  <2>. QED
    BY <2>1, <2>2
<1>14. Len(p1) = Len(p2)
  BY <1>12, <1>13
<1>15. p1 = p2
  BY <1>10, <1>20, <1>14, SeqEqual
<1>16. Len(Q1) = Len(Q2) /\ \A j \in 1 .. Len(Q1) : Q1[j] = Q2[j]
  BY <1>10, <1>20, <1>14
<1>17. q1 = q2
  <2>1. CASE q1 = <<>> \/ q2 = <<>>
    BY <1>3, <1>16, <2>1, EmptySeq
  <2>2. CASE q1 # <<>> /\ q2 # <<>>
    <3>1. Len(q1) = Len(q2)
      BY <1>3, <1>16, <2>2
    <3>2. \A j \in 1 .. Len(q1) : q1[j] = q2[j]
      BY <1>3, <1>16, <2>2, <3>1
    <3>. QED
      BY <3>1, <3>2, SeqEqual
  <2>. QED
    BY <2>1, <2>2
<1>. QED
  BY <1>11, <1>15, <1>17
(* The request-target value lower(verb) " " path ["?" query] determines    *)
(* verb, path and query when no path holds a '?'.                          *)
LEMMA TargetValueInjective ==
  ASSUME TargetUnambiguous, NEW r1 \in Requests, NEW r2 \in Requests,
         TargetValue(r1) = TargetValue(r2)
  PROVE  r1.verb = r2.verb /\ r1.path = r2.path /\ r1.query = r2.query
<1>. DEFINE a1 == Lower[r1.verb]  a2 == Lower[r2.verb]
            p1 == r1.path  p2 == r2.path  q1 == r1.query  q2 == r2.query
<1>1. p1 \in Seq(Tok) /\ q1 \in Seq(Tok) /\ p2 \in Seq(Tok) /\ q2 \in Seq(Tok)
  BY RequestTokens
<1>2. a1 \in Tok /\ a2 \in Tok /\ Space \in Tok /\ QMark \in Tok
  BY DEF Tok, Requests, Space, QMark
<1>3. NoMark(p1, QMark) /\ NoMark(p2, QMark)
  BY DEF TargetUnambiguous, Requests, NoMark, QMark
<1>4. Joined(a1, Space, p1, QMark, q1) = Joined(a2, Space, p2, QMark, q2)
  BY DEF TargetValue, Joined, QPart, Space, QMark
<1>5. a1 = a2 /\ p1 = p2 /\ q1 = q2
  <2>. HIDE DEF a1, a2, p1, p2, q1, q2
  <2>. QED
    BY <1>1, <1>2, <1>3, <1>4, TargetSplit
<1>. QED
  BY <1>5 DEF TargetUnambiguous, Requests


-----------------------------------------------------------------------------
(* What two equal signed strings share: the header list, and entry by      *)
(* entry the request target or the value of the header named.              *)
RawAgree(r1, r2, L1, L2) ==
  /\ 1 .. Len(L1) = 1 .. Len(L2)
  /\ \A j \in 1 .. Len(L1) :
       /\ L1[j] = L2[j]
       /\ L1[j] = RequestTarget => TargetValue(r1) = TargetValue(r2)
       /\ L1[j] # RequestTarget =>
            Header(r1.headers, L1[j]) = Header(r2.headers, L1[j])

(* Equal signed strings agree in this way.                                 *)
LEMMA RawEqual ==
  ASSUME NEW r1, NEW r2, NEW L1, NEW L2,
         ConstructRawSignedString(r1, L1) = ConstructRawSignedString(r2, L2)
  PROVE  RawAgree(r1, r2, L1, L2)
<1>. USE DEF RawAgree
<1>1. 1 .. Len(L1) = 1 .. Len(L2)
  <2>1. DOMAIN ConstructRawSignedString(r1, L1) = 1 .. Len(L1)
    BY DEF ConstructRawSignedString
  <2>2. DOMAIN ConstructRawSignedString(r2, L2) = 1 .. Len(L2)
    BY DEF ConstructRawSignedString
  <2>. QED
    BY <2>1, <2>2
<1>2. ASSUME NEW j \in 1 .. Len(L1)
      PROVE  /\ L1[j] = L2[j]
             /\ L1[j] = RequestTarget => TargetValue(r1) = TargetValue(r2)
             /\ L1[j] # RequestTarget =>
                  Header(r1.headers, L1[j]) = Header(r2.headers, L1[j])
  <2>1. j \in 1 .. Len(L2)
    BY <1>1
  <2>2. ConstructRawSignedString(r1, L1)[j]
          = <<L1[j], IF L1[j] = RequestTarget THEN TargetValue(r1)
                                             ELSE <<Header(r1.headers, L1[j])>>>>
    BY DEF ConstructRawSignedString
  <2>3. ConstructRawSignedString(r2, L2)[j]
          = <<L2[j], IF L2[j] = RequestTarget THEN TargetValue(r2)
                                             ELSE <<Header(r2.headers, L2[j])>>>>
    BY <2>1 DEF ConstructRawSignedString
  <2>. QED
    BY <2>2, <2>3
<1>. QED
  BY <1>1, <1>2

(* Overwriting the Authorization header leaves every other header.         *)
LEMMA HeaderAfterSetAuth ==
  ASSUME NEW hs \in HeaderMaps, NEW n \in HeaderNames, n # AuthHeader, NEW v
  PROVE  Header(SetHeader(hs, AuthHeader, v), n) = Header(hs, n)
BY DEF Header, SetHeader, HeaderMaps, HeaderNames, DigestHeader, AuthHeader

(* The request the i-th call sent is the logged one with a new             *)
(* Authorization header.                                                    *)
LEMMA SentReqFields ==
  ASSUME TypeOK, NEW i \in 1 .. Len(log)
  PROVE  /\ SentReq(i).verb = log[i].pre.verb
         /\ SentReq(i).path = log[i].pre.path
         /\ SentReq(i).query = log[i].pre.query
         /\ SentReq(i).body = log[i].pre.body
         /\ \A n \in HeaderNames \ {AuthHeader} :
              Header(SentReq(i).headers, n) = Header(log[i].pre.headers, n)
<1>0. log[i] \in LogEntries
  BY DEF TypeOK
<1>1. log[i].pre \in Requests
  BY <1>0 DEF LogEntries
<1>2. SentReq(i).headers
        = SetHeader(log[i].pre.headers, AuthHeader, AuthValue(log[i].list, i))
  BY <1>1 DEF SentReq, Requests
<1>3. \A n \in HeaderNames \ {AuthHeader} :
        Header(SentReq(i).headers, n) = Header(log[i].pre.headers, n)
  BY <1>1, <1>2, HeaderAfterSetAuth DEF Requests
<1>. QED
  BY <1>1, <1>3 DEF SentReq, Requests

(* The logged request of every call carries the digest add_digest_header   *)
(* wrote from its body.                                                     *)
LogDigest ==
  \A i \in 1 .. Len(log) :
    log[i].pre.headers.digest
      = [eq |-> TRUE, alg |-> DigestAlg, hash |-> Sha256[log[i].pre.body]]


(* The conclusion of Authenticity for an accepted request r whose          *)
(* signature names the headers sh.                                          *)
AuthenticFor(r, sh) ==
  \E i \in 1 .. Len(log) :
    LET s == SentReq(i)
    IN  /\ s.verb = r.verb /\ s.path = r.path /\ s.query = r.query
        /\ s.body = r.body
        /\ \A j \in 1 .. Len(sh) :
             Present(r.headers, sh[j]) =>
               /\ Present(s.headers, sh[j])
               /\ Header(s.headers, sh[j]) = Header(r.headers, sh[j])

(* A request parse accepts carries what the signer signed: the signature  *)
(* is the client's k-th, whose string equals the one rebuilt from the     *)
(* request; the request target in it fixes verb, path and query, the      *)
(* digest in it fixes the body, and every other entry the header's value. *)
LEMMA VerifiedIsAuthentic ==
  ASSUME TypeOK, LogDigest, TargetUnambiguous, RequiredFloor, AuthNotSigned,
         wire \in Requests, Parse(wire, Signed) = "Verified"
  PROVE  AuthenticFor(wire, ParamSignedHeaders(wire.headers.auth.params))
<1>. DEFINE ps  == wire.headers.auth.params
            sh  == ParamSignedHeaders(ps)
            k   == ParamSignature(ps)
            raw == ConstructRawSignedString(wire, sh)
<1>1. /\ VerifyDigest(wire)
      /\ MissingRequired(sh) = {}
      /\ VerifySig(Signed, k, raw)
  BY DEF Parse
<1>2. k \in 1 .. Len(log) /\ Signed[k] = raw
  <2>1. Len(log) \in Nat
    BY DEF TypeOK
  <2>2. Len(Signed) = Len(log)
    BY <2>1 DEF Signed
  <2>. QED
    BY <1>1, <2>2 DEF VerifySig
<1>. DEFINE pre == log[k].pre
            L   == log[k].list
<1>3. pre \in Requests /\ L \in SignLists
  <2>1. log[k] \in LogEntries
    BY <1>2 DEF TypeOK
  <2>. QED
    BY <2>1 DEF LogEntries
<1>4. ConstructRawSignedString(pre, L) = ConstructRawSignedString(wire, sh)
  BY <1>2 DEF Signed
<1>5. /\ 1 .. Len(L) = 1 .. Len(sh)
      /\ \A j \in 1 .. Len(L) :
           /\ L[j] = sh[j]
           /\ L[j] = RequestTarget => TargetValue(pre) = TargetValue(wire)
           /\ L[j] # RequestTarget =>
                Header(pre.headers, L[j]) = Header(wire.headers, L[j])
  <2>1. RawAgree(pre, wire, L, sh)
    <3>. HIDE DEF pre, L, sh
    <3>. QED
      BY <1>4, RawEqual
  <2>. QED
    BY <2>1 DEF RawAgree
<1>6. \A h \in RequiredHeaders : \E j \in 1 .. Len(sh) : sh[j] = h
  BY <1>1 DEF MissingRequired
<1>7. pre.verb = wire.verb /\ pre.path = wire.path /\ pre.query = wire.query
  <2>1. PICK j \in 1 .. Len(sh) : sh[j] = RequestTarget
    BY <1>6 DEF RequiredFloor
  <2>2. TargetValue(pre) = TargetValue(wire)
    BY <2>1, <1>5
  <2>. QED
    BY <2>2, <1>3, TargetValueInjective
<1>8. pre.body = wire.body
  <2>1. PICK j \in 1 .. Len(sh) : sh[j] = DigestHeader
    BY <1>6 DEF RequiredFloor
  <2>2. DigestHeader # RequestTarget
    BY ConstantsAssumption DEF HeaderNames
  <2>3. pre.headers.digest = wire.headers.digest
    <3>1. Header(pre.headers, DigestHeader) = Header(wire.headers, DigestHeader)
      BY <2>1, <2>2, <1>5
    <3>. QED
      BY <3>1 DEF Header
  <2>4. pre.headers.digest.hash = Sha256[pre.body]
    <3>1. pre.headers.digest
            = [eq |-> TRUE, alg |-> DigestAlg, hash |-> Sha256[pre.body]]
      BY <1>2 DEF LogDigest
    <3>. QED
      BY <3>1
  <2>5. wire.headers.digest.hash = Sha256[wire.body]
    BY <1>1 DEF VerifyDigest
  <2>. QED
    BY <2>3, <2>4, <2>5, <1>3, ConstantsAssumption DEF Requests
<1>9. ASSUME NEW j \in 1 .. Len(sh), Present(wire.headers, sh[j])
      PROVE  /\ Present(SentReq(k).headers, sh[j])
             /\ Header(SentReq(k).headers, sh[j]) = Header(wire.headers, sh[j])
  <2>1. sh[j] \in HeaderNames /\ Header(wire.headers, sh[j]) # Absent
    BY <1>9 DEF Present
  <2>2. sh[j] # RequestTarget
    BY <2>1, ConstantsAssumption
  <2>3. j \in 1 .. Len(L) /\ L[j] = sh[j]
    BY <1>5
  <2>4. sh[j] # AuthHeader
    BY <2>3, <1>3 DEF AuthNotSigned
  <2>5. Header(pre.headers, sh[j]) = Header(wire.headers, sh[j])
    BY <2>2, <2>3, <1>5
  <2>6. Header(SentReq(k).headers, sh[j]) = Header(pre.headers, sh[j])
    BY <2>1, <2>4, <1>2, SentReqFields
  <2>. QED
    BY <2>1, <2>5, <2>6 DEF Present
<1>10. /\ SentReq(k).verb = wire.verb /\ SentReq(k).path = wire.path
       /\ SentReq(k).query = wire.query /\ SentReq(k).body = wire.body
  BY <1>2, <1>7, <1>8, SentReqFields
<1>. QED
  BY <1>2, <1>9, <1>10 DEF AuthenticFor


-----------------------------------------------------------------------------
(* Authenticity is not inductive by itself: a Verify step must know that   *)
(* each logged request carries the digest of its own body.                  *)
AuthInv == LogDigest /\ Authenticity

LEMMA AuthInvInit == Init => AuthInv
BY DEF Init, AuthInv, LogDigest, Authenticity

(* Every attacker edit changes the wire only.                               *)
LEMMA TamperKeepsLog ==
  ASSUME TamperRequestLine \/ TamperHeaders \/ TamperAuthorization
  PROVE  UNCHANGED <<log, verdict>>
<1>1. ASSUME NEW r2, Tamper(r2) PROVE UNCHANGED <<log, verdict>>
  BY <1>1 DEF Tamper
<1>. QED
  BY <1>1 DEF TamperRequestLine, TamperHeaders, TamperAuthorization

(* sign_request logs a request that carries the digest of its body.         *)
LEMMA SignRequestLogDigest ==
  ASSUME TypeOK, LogDigest, NEW cr \in ClientRequests, NEW L \in SignLists,
         SignRequest(cr, L)
  PROVE  LogDigest'
<1>. DEFINE r1 == AddDigestHeader(cr)
<1>1. cr \in Requests
  BY ClientRequestsAssumption
<1>2. r1.headers.digest = [eq |-> TRUE, alg |-> DigestAlg, hash |-> Sha256[r1.body]]
  BY <1>1 DEF AddDigestHeader, SetHeader, Requests, HeaderMaps
<1>3. log' = Append(log, [pre |-> r1, list |-> L])
  BY DEF SignRequest
<1>. QED
  <2>1. log \in Seq(LogEntries) /\ [pre |-> r1, list |-> L] \in LogEntries
    BY <1>1, AddDigestHeaderTyped DEF TypeOK, LogEntries
  <2>2. /\ Len(log') = Len(log) + 1
        /\ \A i \in 1 .. Len(log) : log'[i] = log[i]
        /\ log'[Len(log) + 1] = [pre |-> r1, list |-> L]
    BY <1>3, <2>1, AppendProperties
  <2>. SUFFICES ASSUME NEW i \in 1 .. Len(log')
                PROVE  log'[i].pre.headers.digest
                         = [eq |-> TRUE, alg |-> DigestAlg, hash |-> Sha256[log'[i].pre.body]]
    BY DEF LogDigest
  <2>3. CASE i \in 1 .. Len(log)
    BY <2>2, <2>3 DEF LogDigest
  <2>4. CASE i = Len(log) + 1
    <3>1. log'[i].pre = r1
      BY <2>2, <2>4
    <3>. QED
      BY <3>1, <1>2
  <2>. QED
    BY <2>1, <2>2, <2>3, <2>4

(* sign_request resets the verdict.                                          *)
LEMMA SignRequestAuthInv ==
  ASSUME TypeOK, AuthInv, NEW cr \in ClientRequests, NEW L \in SignLists,
         SignRequest(cr, L)
  PROVE  AuthInv'
<1>1. verdict' = NoVerdict
  BY DEF SignRequest
<1>2. LogDigest'
  BY SignRequestLogDigest DEF AuthInv
<1>3. Authenticity'
  BY <1>1 DEF Authenticity
<1>. QED
  BY <1>2, <1>3 DEF AuthInv

(* The server's verification: the new verdict is authentic when it says   *)
(* Verified.                                                                 *)
LEMMA VerifyAuthInv ==
  ASSUME TypeOK, AuthInv, TargetUnambiguous, RequiredFloor, AuthNotSigned, Verify
  PROVE  AuthInv'
<1>. DEFINE ps == wire.headers.auth.params
            sh == ParamSignedHeaders(ps)
<1>1. wire \in Requests /\ UNCHANGED log
  BY DEF Verify, TypeOK
<1>2. LogDigest'
  BY <1>1 DEF AuthInv, LogDigest
<1>3. /\ verdict'.kind = Parse(wire, Signed)
      /\ verdict'.req = wire
      /\ verdict'.kind = "Verified" => verdict'.sh = sh
  BY DEF Verify
<1>4. ASSUME verdict'.kind = "Verified" PROVE AuthenticFor(verdict'.req, verdict'.sh)
  <2>1. AuthenticFor(wire, sh)
    BY <1>1, <1>3, <1>4, VerifiedIsAuthentic DEF AuthInv
  <2>. QED
    BY <2>1, <1>3, <1>4
<1>5. Authenticity'
  BY <1>1, <1>4 DEF Authenticity, AuthenticFor, SentReq
<1>. QED
  BY <1>2, <1>5 DEF AuthInv

LEMMA AuthInvNext ==
  ASSUME TypeOK, AuthInv, TargetUnambiguous, RequiredFloor, AuthNotSigned,
         [Next]_vars
  PROVE  AuthInv'
<1>1. CASE \E cr \in ClientRequests, L \in SignLists : SignRequest(cr, L)
  BY <1>1, SignRequestAuthInv
<1>2. ASSUME UNCHANGED <<log, verdict>> PROVE AuthInv'
  BY <1>2 DEF AuthInv, LogDigest, Authenticity, SentReq
<1>3. CASE \E cr \in ClientRequests, L \in SignLists : SignRequestThrows(cr, L)
  BY <1>3, <1>2 DEF SignRequestThrows
<1>4. CASE \E i \in 1 .. Len(log) : Replay(i)
  <2>1. UNCHANGED log /\ verdict' = NoVerdict
    BY <1>4 DEF Replay
  <2>. QED
    BY <2>1 DEF AuthInv, LogDigest, Authenticity
<1>5. CASE TamperRequestLine \/ TamperHeaders \/ TamperAuthorization
  BY <1>5, <1>2, TamperKeepsLog
<1>6. CASE Verify
  BY <1>6, VerifyAuthInv
<1>7. CASE UNCHANGED vars
  BY <1>7, <1>2 DEF vars
<1>. QED
  BY <1>1, <1>3, <1>4, <1>5, <1>6, <1>7 DEF Next

(* Authenticity of verified requests (sign_request, parse and the caller's *)
(* signature check), for every instance in which the request target        *)
(* identifies verb, path and query, the required headers include the       *)
(* request target and the digest, and the client does not sign             *)
(* authorization: a request the server accepts carries the verb, path,     *)
(* query and body of a request the client signed, and every header the     *)
(* signature names has the value the client signed.                        *)
THEOREM AuthenticityHolds ==
  ASSUME TargetUnambiguous, RequiredFloor, AuthNotSigned
  PROVE  Spec => []Authenticity
<1>1. Init => AuthInv
  BY AuthInvInit
<1>2. TypeOK /\ AuthInv /\ [Next]_vars => AuthInv'
  BY AuthInvNext
<1>3. AuthInv => Authenticity
  BY DEF AuthInv
<1>. QED
  BY <1>1, <1>2, <1>3, TypeCorrect, PTL DEF Spec


-----------------------------------------------------------------------------
(* The parameters sign_request writes name the list it signed and its     *)
(* signature: the verifier's loop over them collects the list (the other   *)
(* three contribute nothing) and takes the one signature= value.           *)
LEMMA SignedHeadersOfAuthValue ==
  ASSUME NEW L \in Seq(ListTokens), L # <<>>, NEW e
  PROVE  ParamSignedHeaders(AuthValue(L, e).params) = L
<1>. DEFINE ps == AuthValue(L, e).params
            Step(f, i) == IF i = 0 THEN <<>>
                          ELSE f[i - 1] \o (IF ps[i].k = "headers" THEN ps[i].list ELSE <<>>)
            IsAcc(f) == f = [i \in 0 .. Len(ps) |-> Step(f, i)]
<1>1. /\ Len(ps) = 4
      /\ ps[1].k = "keyId" /\ ps[2].k = "algorithm"
      /\ ps[3].k = "headers" /\ ps[3].list = L /\ ps[4].k = "signature"
  BY DEF AuthValue, SplitJoin, TextParam, ListParam, SigParam
<1>2. /\ <<>> \o <<>> = <<>>
      /\ <<>> \o L = L
      /\ L \o <<>> = L
  BY ConcatEmptySeq, EmptySeq
<1>3. IsAcc([i \in 0 .. 4 |-> IF i < 3 THEN <<>> ELSE L])
  BY <1>1, <1>2
<1>4. ASSUME NEW f, IsAcc(f) PROVE f[4] = L
  <2>. HIDE DEF ps
  <2>1. /\ \A i \in 0 .. 4 : i \in 0 .. Len(ps)
        /\ {0, 1, 2, 3, 4} \subseteq 0 .. 4
        /\ 1 - 1 = 0 /\ 2 - 1 = 1 /\ 3 - 1 = 2 /\ 4 - 1 = 3
        /\ 1 # 0 /\ 2 # 0 /\ 3 # 0 /\ 4 # 0
    BY <1>1
  <2>0. ps[1].k # "headers" /\ ps[2].k # "headers" /\ ps[4].k # "headers"
    BY <1>1
  <2>2. /\ f[1] = f[0] \o <<>> /\ f[2] = f[1] \o <<>>
        /\ f[3] = f[2] \o L /\ f[4] = f[3] \o <<>>
        /\ f[0] = <<>>
    <3>0. \A i \in 0 .. 4 :
           f[i] = IF i = 0 THEN <<>>
                  ELSE f[i - 1] \o (IF ps[i].k = "headers" THEN ps[i].list ELSE <<>>)
      BY <1>4, <2>1, Zenon
    <3>1. f[0] = <<>>
      BY <3>0, <2>1, Zenon
    <3>2. f[1] = f[0] \o <<>>
      BY <3>0, <2>0, <2>1, Zenon
    <3>3. f[2] = f[1] \o <<>>
      BY <3>0, <2>0, <2>1, Zenon
    <3>4. f[3] = f[2] \o L
      BY <3>0, <1>1, <2>1, Zenon
    <3>5. f[4] = f[3] \o <<>>
      BY <3>0, <2>0, <2>1, Zenon
    <3>. QED
      BY <3>1, <3>2, <3>3, <3>4, <3>5
  <2>. QED
    BY <2>2, <1>2, Zenon
<1>5. (CHOOSE f : IsAcc(f))[4] = L
  BY <1>3, <1>4
<1>. QED
  BY <1>1, <1>5 DEF ParamSignedHeaders

LEMMA SignatureOfAuthValue ==
  ASSUME NEW L, NEW e
  PROVE  ParamSignature(AuthValue(L, e).params) = e
<1>. DEFINE ps == AuthValue(L, e).params
<1>1. /\ Len(ps) = 4
      /\ ps[1].k = "keyId" /\ ps[2].k = "algorithm"
      /\ ps[3].k = "headers" /\ ps[4].k = "signature" /\ ps[4].sig = e
  BY DEF AuthValue, TextParam, ListParam, SigParam
<1>2. {i \in 1 .. Len(ps) : ps[i].k = "signature"} = {4}
  BY <1>1
<1>. QED
  BY <1>1, <1>2 DEF ParamSignature


(* Every logged request carries each header its list names.               *)
LogSigned == \A i \in 1 .. Len(log) : MissingSigned(log[i].pre, log[i].list) = {}

(* The request the e-th call sent, delivered as it was, passes every      *)
(* check of parse and the signature check, and the verifier rebuilds the  *)
(* string the signer signed.                                               *)
LEMMA SentIsVerified ==
  ASSUME TypeOK, LogDigest, LogSigned, RequiredFloor, AuthNotSigned, AbsentIsNoValue,
         NEW e \in 1 .. Len(log), MissingRequired(log[e].list) = {}
  PROVE  /\ Parse(SentReq(e), Signed) = "Verified"
         /\ ParamSignedHeaders(SentReq(e).headers.auth.params) = log[e].list
         /\ ConstructRawSignedString(SentReq(e), log[e].list) = Signed[e]
<1>. DEFINE s   == SentReq(e)
            pre == log[e].pre
            L   == log[e].list
            ps  == s.headers.auth.params
<1>1. pre \in Requests /\ L \in SignLists /\ L \in Seq(ListTokens) /\ e \in 0 .. MaxSign
  <2>1. log[e] \in LogEntries /\ Len(log) <= MaxSign
    BY DEF TypeOK
  <2>. QED
    BY <2>1, ConstantsAssumption DEF LogEntries
<1>2. s.headers.auth = AuthValue(L, e) /\ s.headers.digest = pre.headers.digest
  BY <1>1 DEF SentReq, SetHeader, Requests, HeaderMaps, AuthHeader, DigestHeader
<1>3. L # <<>>
  <2>1. \E i \in 1 .. Len(L) : L[i] = RequestTarget
    BY DEF MissingRequired, RequiredFloor
  <2>. QED
    BY <2>1
<1>4. ParamSignedHeaders(ps) = L /\ ParamSignature(ps) = e
  BY <1>1, <1>2, <1>3, SignedHeadersOfAuthValue, SignatureOfAuthValue
<1>5. Present(s.headers, AuthHeader) /\ s.headers.auth.scheme = "Signature"
  <2>1. AuthValue(L, e) \in AuthValues
    BY <1>1, AuthValueTyped
  <2>2. Header(s.headers, AuthHeader) = AuthValue(L, e)
    BY <1>2 DEF Header, DigestHeader, AuthHeader
  <2>. QED
    BY <1>2, <2>1, <2>2 DEF AbsentIsNoValue, Present, HeaderNames, AuthValue
<1>6. VerifyDigest(s)
  <2>1. pre.headers.digest
          = [eq |-> TRUE, alg |-> DigestAlg, hash |-> Sha256[pre.body]]
    BY DEF LogDigest
  <2>2. pre.headers.digest \in DigestValues
    <3>1. pre.body \in Bodies
      BY <1>1 DEF Requests
    <3>2. Sha256[pre.body] \in {Sha256[b] : b \in Bodies}
      BY <3>1, Zenon
    <3>3. [eq |-> TRUE, alg |-> DigestAlg, hash |-> Sha256[pre.body]]
            \in [eq : {TRUE}, alg : {DigestAlg, "SHA-512"}, hash : {Sha256[b] : b \in Bodies}]
      BY <3>2, Zenon
    <3>. QED
      BY <2>1, <3>3, Zenon DEF DigestValues
  <2>3. Header(s.headers, DigestHeader) = pre.headers.digest
    BY <1>2 DEF Header
  <2>4. s.body = pre.body
    BY <1>1, SentReqFields
  <2>5. Present(s.headers, DigestHeader)
    <3>1. DigestHeader \in HeaderNames
      BY DEF HeaderNames
    <3>2. Header(s.headers, DigestHeader) # Absent
      BY <2>2, <2>3 DEF AbsentIsNoValue
    <3>. QED
      BY <3>1, <3>2 DEF Present
  <2>6. /\ s.headers.digest.eq
        /\ s.headers.digest.alg = DigestAlg
        /\ s.headers.digest.hash = Sha256[s.body]
    BY <1>2, <2>1, <2>4
  <2>. QED
    BY <2>5, <2>6 DEF VerifyDigest
<1>7. ~ParamsMalformed(ps)
  <2>1. SplitJoin(L) = L /\ Len(L) # 0
    BY <1>1, <1>3, EmptySeq DEF SplitJoin
  <2>2. /\ Len(ps) = 4
        /\ ps[1].k = "keyId"
        /\ ps[2].k = "algorithm" /\ ps[2].v = SignatureAlg
        /\ ps[3].k = "headers" /\ ps[3].list = L
        /\ ps[4].k = "signature"
    <3>1. ps = AuthValue(L, e).params
      BY <1>2
    <3>2. /\ Len(AuthValue(L, e).params) = 4
          /\ AuthValue(L, e).params[1].k = "keyId"
          /\ AuthValue(L, e).params[2].k = "algorithm"
          /\ AuthValue(L, e).params[2].v = SignatureAlg
          /\ AuthValue(L, e).params[3].k = "headers"
          /\ AuthValue(L, e).params[3].list = L
          /\ AuthValue(L, e).params[4].k = "signature"
      BY <2>1 DEF AuthValue, TextParam, ListParam, SigParam
    <3>. HIDE DEF ps, s
    <3>. QED
      BY <3>1, <3>2
  <2>3. ASSUME NEW i \in 1 .. Len(ps) PROVE ~BadParam(ps[i])
    <3>1. i \in {1, 2, 3, 4}
      BY <2>2
    <3>. QED
      BY <3>1, <2>1, <2>2 DEF BadParam
  <2>. QED
    BY <2>3 DEF ParamsMalformed
<1>8. ASSUME NEW i \in 1 .. Len(L), L[i] # RequestTarget
      PROVE  /\ Present(s.headers, L[i])
             /\ Header(s.headers, L[i]) = Header(pre.headers, L[i])
  <2>1. Present(pre.headers, L[i])
    BY <1>8 DEF LogSigned, MissingSigned
  <2>2. L[i] \in HeaderNames /\ L[i] # AuthHeader
    BY <2>1, <1>1 DEF Present, AuthNotSigned
  <2>3. Header(s.headers, L[i]) = Header(pre.headers, L[i])
    BY <2>2, SentReqFields
  <2>. QED
    BY <2>1, <2>2, <2>3 DEF Present
<1>9. MissingSigned(s, L) = {}
  BY <1>8 DEF MissingSigned
<1>10. ConstructRawSignedString(s, L) = Signed[e]
  <2>1. TargetValue(s) = TargetValue(pre)
    BY SentReqFields DEF TargetValue
  <2>2. Signed[e] = ConstructRawSignedString(pre, L)
    BY DEF Signed
  <2>. QED
    BY <1>8, <2>1, <2>2 DEF ConstructRawSignedString
<1>11. VerifySig(Signed, e, ConstructRawSignedString(s, L))
  BY <1>10 DEF VerifySig, Signed
<1>. QED
  BY <1>4, <1>5, <1>6, <1>7, <1>9, <1>10, <1>11 DEF Parse


-----------------------------------------------------------------------------
(* The request in flight comes from a logged call, and is the request     *)
(* that call sent while the attacker has not edited it.                    *)
WireOK ==
  wire # NoReq =>
    /\ origin.entry \in 1 .. Len(log)
    /\ ~origin.tampered => wire = SentReq(origin.entry)

(* Completeness needs the provenance of the request in flight and what    *)
(* each logged request carries.                                            *)
CompInv == LogDigest /\ LogSigned /\ WireOK /\ Completeness

LEMMA CompInvInit == Init => CompInv
BY DEF Init, CompInv, LogDigest, LogSigned, WireOK, Completeness

(* sign_request logs the request it signed and sends it.                   *)
LEMMA SignRequestCompInv ==
  ASSUME TypeOK, CompInv, NEW cr \in ClientRequests, NEW L \in SignLists,
         SignRequest(cr, L)
  PROVE  CompInv'
<1>. DEFINE r1  == AddDigestHeader(cr)
            sig == Len(log) + 1
            r2  == [r1 EXCEPT !.headers = SetHeader(@, AuthHeader, AuthValue(L, sig))]
<1>1. /\ log' = Append(log, [pre |-> r1, list |-> L])
      /\ wire' = r2 /\ origin' = [entry |-> sig, tampered |-> FALSE]
      /\ verdict' = NoVerdict
      /\ MissingSigned(r1, L) = {}
  BY DEF SignRequest
<1>2. /\ log \in Seq(LogEntries)
      /\ Len(log') = sig
      /\ \A i \in 1 .. Len(log) : log'[i] = log[i]
      /\ log'[sig] = [pre |-> r1, list |-> L]
  <2>1. log \in Seq(LogEntries) /\ [pre |-> r1, list |-> L] \in LogEntries
    BY ClientRequestsAssumption, AddDigestHeaderTyped DEF TypeOK, LogEntries
  <2>. QED
    BY <1>1, <2>1, AppendProperties
<1>3. LogDigest'
  BY SignRequestLogDigest DEF CompInv
<1>4. LogSigned'
  <2>. SUFFICES ASSUME NEW i \in 1 .. Len(log')
                PROVE  MissingSigned(log'[i].pre, log'[i].list) = {}
    BY DEF LogSigned
  <2>1. CASE i \in 1 .. Len(log)
    BY <1>2, <2>1 DEF CompInv, LogSigned
  <2>2. CASE i = sig
    BY <1>1, <1>2, <2>2
  <2>. QED
    BY <1>2, <2>1, <2>2, LenProperties
<1>5. WireOK'
  <2>1. sig \in 1 .. Len(log')
    BY <1>2, LenProperties
  <2>2. (SentReq(origin.entry))' = r2
    <3>1. origin'.entry = sig /\ log'[origin'.entry] = [pre |-> r1, list |-> L]
      BY <1>1, <1>2
    <3>2. (SentReq(origin.entry))'
            = [log'[origin'.entry].pre EXCEPT !.headers =
                 SetHeader(@, AuthHeader,
                           AuthValue(log'[origin'.entry].list, origin'.entry))]
      BY DEF SentReq
    <3>. QED
      BY <3>1, <3>2
  <2>. QED
    BY <1>1, <2>1, <2>2 DEF WireOK
<1>6. Completeness'
  BY <1>1 DEF Completeness
<1>. QED
  BY <1>3, <1>4, <1>5, <1>6 DEF CompInv

(* The server's verification of the request in flight.                     *)
LEMMA VerifyCompInv ==
  ASSUME TypeOK, CompInv, RequiredFloor, AuthNotSigned, AbsentIsNoValue, Verify
  PROVE  CompInv'
<1>1. /\ wire # NoReq /\ wire' = NoReq /\ UNCHANGED log
      /\ verdict'.kind = Parse(wire, Signed)
      /\ verdict'.entry = origin.entry /\ verdict'.tampered = origin.tampered
      /\ verdict'.kind = "Verified" =>
           verdict'.raw = ConstructRawSignedString(wire,
                            ParamSignedHeaders(wire.headers.auth.params))
  BY DEF Verify
<1>2. (LogDigest /\ LogSigned)' /\ WireOK'
  BY <1>1 DEF CompInv, LogDigest, LogSigned, WireOK
<1>3. ASSUME ~verdict'.tampered, verdict'.entry # 0,
             MissingRequired(log'[verdict'.entry].list) = {}
      PROVE  verdict'.kind = "Verified" /\ verdict'.raw = Signed'[verdict'.entry]
  <2>. DEFINE e == origin.entry
  <2>1. e \in 1 .. Len(log) /\ wire = SentReq(e)
    BY <1>1, <1>3 DEF CompInv, WireOK
  <2>2. MissingRequired(log[e].list) = {}
    BY <1>1, <1>3
  <2>3. /\ Parse(SentReq(e), Signed) = "Verified"
        /\ ParamSignedHeaders(SentReq(e).headers.auth.params) = log[e].list
        /\ ConstructRawSignedString(SentReq(e), log[e].list) = Signed[e]
    BY <2>1, <2>2, SentIsVerified DEF CompInv
  <2>4. Signed' = Signed
    BY <1>1 DEF Signed
  <2>. QED
    BY <1>1, <2>1, <2>3, <2>4
<1>4. Completeness'
  BY <1>3 DEF Completeness
<1>. QED
  BY <1>2, <1>4 DEF CompInv

LEMMA CompInvNext ==
  ASSUME TypeOK, CompInv, RequiredFloor, AuthNotSigned, AbsentIsNoValue,
         [Next]_vars
  PROVE  CompInv'
<1>1. CASE \E cr \in ClientRequests, L \in SignLists : SignRequest(cr, L)
  BY <1>1, SignRequestCompInv
<1>2. CASE \E cr \in ClientRequests, L \in SignLists : SignRequestThrows(cr, L)
  <2>1. UNCHANGED <<wire, origin, log, verdict>>
    BY <1>2 DEF SignRequestThrows
  <2>. QED
    BY <2>1 DEF CompInv, LogDigest, LogSigned, WireOK, Completeness, SentReq, Signed
<1>3. CASE \E i \in 1 .. Len(log) : Replay(i)
  <2>1. PICK i \in 1 .. Len(log) : Replay(i)
    BY <1>3
  <2>2. /\ UNCHANGED log /\ verdict' = NoVerdict
        /\ wire' = SentReq(i) /\ origin' = [entry |-> i, tampered |-> FALSE]
    BY <2>1 DEF Replay
  <2>. QED
    BY <2>1, <2>2 DEF CompInv, LogDigest, LogSigned, WireOK, Completeness, SentReq
<1>4. CASE TamperRequestLine \/ TamperHeaders \/ TamperAuthorization
  <2>1. ASSUME NEW r2, Tamper(r2) PROVE CompInv'
    <3>1. /\ wire # NoReq /\ UNCHANGED <<log, verdict>>
          /\ origin' = [origin EXCEPT !.tampered = TRUE]
      BY <2>1 DEF Tamper
    <3>2. origin \in [entry : 0 .. MaxSign, tampered : BOOLEAN]
      BY DEF TypeOK
    <3>. QED
      BY <3>1, <3>2 DEF CompInv, LogDigest, LogSigned, WireOK, Completeness, Signed
  <2>. QED
    BY <1>4, <2>1 DEF TamperRequestLine, TamperHeaders, TamperAuthorization
<1>5. CASE Verify
  BY <1>5, VerifyCompInv
<1>6. CASE UNCHANGED vars
  BY <1>6 DEF vars, CompInv, LogDigest, LogSigned, WireOK, Completeness, SentReq, Signed
<1>. QED
  BY <1>1, <1>2, <1>3, <1>4, <1>5, <1>6 DEF Next

(* Completeness of signing (sign_request, then parse and the signature     *)
(* check), for every instance in which the required headers include the    *)
(* request target and the digest, the client does not sign authorization,  *)
(* and no header value is the Absent marker: a request signed over a list  *)
(* that covers the required headers and delivered unedited verifies, and   *)
(* the verifier rebuilds exactly the string the signer signed.             *)
THEOREM CompletenessHolds ==
  ASSUME RequiredFloor, AuthNotSigned, AbsentIsNoValue
  PROVE  Spec => []Completeness
<1>1. Init => CompInv
  BY CompInvInit
<1>2. TypeOK /\ CompInv /\ [Next]_vars => CompInv'
  BY CompInvNext
<1>3. CompInv => Completeness
  BY DEF CompInv
<1>. QED
  BY <1>1, <1>2, <1>3, TypeCorrect, PTL DEF Spec

=============================================================================
