------------------------------- MODULE HttpSig -------------------------------
(***************************************************************************)
(* HTTP request signing and verification of src/src/http/http_sig.h.       *)
(*                                                                         *)
(* A client signs requests with sign_request; each signed request is put   *)
(* on a wire that an attacker controls: it may rewrite the verb, path,     *)
(* query, body and any header, move the Authorization header of another    *)
(* signed request onto it, and edit the parameters of that header.  The    *)
(* server runs HttpSignatureVerifier::parse on what arrives and, when      *)
(* parse returns a SignedReq, checks its signature with the client's       *)
(* public key (PublicKey_OpenSSL::verify).                                 *)
(*                                                                         *)
(* Data abstraction.                                                       *)
(*  - A header map is split by kind of value: plain (a function of the    *)
(*    PlainNames), digest and auth; a header the request does not carry    *)
(*    has the model value Absent.                                          *)
(*  - SHA-256 is an injective function Sha256 of the body (an ideal hash); *)
(*    base64 is a bijection and is left out.                               *)
(*  - Signatures are ideal: the client's signature on its i-th call of     *)
(*    sign_request is the number i, and it verifies against the string     *)
(*    signed in that call only.  0 stands for every other byte string (the *)
(*    empty default, or one the attacker makes up).                        *)
(*  - The signed string "n1: v1\nn2: v2..." is kept as the sequence of its *)
(*    entries <<name, value>>.  Names hold no ':' and header values no     *)
(*    newline (the HTTP parser rejects them), so the join is injective on  *)
(*    entries and this loses nothing.  The value of the request-target     *)
(*    entry is kept as the token sequence the code concatenates: the       *)
(*    lower-cased verb, a space, the path, then "?" and the query, so that *)
(*    what this concatenation identifies is visible to the properties.     *)
(*  - The Authorization value is the record [scheme, params]: scheme is    *)
(*    the text before the first space (NoSpace when there is none) and     *)
(*    params the comma-separated key=value tokens after it, quotes         *)
(*    stripped; a token without "=" or with one unbalanced quote is the    *)
(*    marker record with key "noeq" or "unbalanced".                       *)
(***************************************************************************)
EXTENDS Naturals, Sequences, FiniteSets

CONSTANTS
  Verbs,          \* HTTP methods the requests may carry
  Lower,          \* Lower[v]: v lower-cased, as std::tolower does it
  PathChars,      \* characters of paths and queries (abstract tokens)
  Paths,          \* the paths a request may carry (sequences of PathChars)
  Queries,        \* the queries a request may carry
  Bodies,         \* request bodies
  Sha256,         \* Sha256[b]: the SHA-256 digest of body b
  PlainNames,     \* header names other than digest and authorization
  PlainValues,    \* values of those headers
  ClientRequests, \* the requests the client hands to sign_request
  SignLists,      \* the headers_to_sign lists the client passes
  AttackLists,    \* header lists the attacker may write into headers="..."
  RequiredHeaders,\* http::required_signature_headers
  MaxTamper,      \* bound on attacker edits of one request in flight
  MaxSign,        \* bound on the calls of sign_request
  NoReq,          \* the empty wire (a model value)
  Absent          \* the value of a header the request lacks (a model value)

(* Literal names of the code (auth:: and headers:: constants).             *)
RequestTarget == "(request-target)"
DigestHeader  == "digest"
AuthHeader    == "authorization"
SignatureAlg  == "ecdsa-sha256"
DigestAlg     == "SHA-256"
NoSpace       == "no-space"

HeaderNames == PlainNames \cup {DigestHeader, AuthHeader}
ListTokens  == HeaderNames \cup {RequestTarget, ""}

ASSUME ConstantsAssumption ==
  /\ Lower \in [Verbs -> STRING]
  /\ PathChars \subseteq STRING /\ PlainValues \subseteq STRING
  /\ Paths \cup Queries \subseteq Seq(PathChars)
  /\ Sha256 \in [Bodies -> STRING]
  /\ \A b1, b2 \in Bodies : Sha256[b1] = Sha256[b2] => b1 = b2
  /\ RequestTarget \notin HeaderNames
  /\ DigestHeader \notin PlainNames /\ AuthHeader \notin PlainNames
  /\ SignLists \cup AttackLists \subseteq Seq(ListTokens)
  \* parse_delimited_string yields at least one token, so a headers="..."
  \* value never reaches the verifier as an empty list
  /\ \A L \in AttackLists : Len(L) > 0
  /\ RequiredHeaders \subseteq ListTokens
  /\ MaxTamper \in Nat
  /\ MaxSign \in Nat

(* Digest header values: "alg=b64(hash)", or a value without "=".          *)
DigestValues ==
  [eq : {TRUE}, alg : {DigestAlg, "SHA-512"}, hash : {Sha256[b] : b \in Bodies}]
    \cup {[eq |-> FALSE, alg |-> "", hash |-> ""]}

(* Any signature bytes the client did not produce.                        *)
NoSignature == 0

NoVerdict == [kind |-> "none"]

-----------------------------------------------------------------------------
(* request.set_header: insert or overwrite one entry of the header map.    *)
(* headers.find(n)->second, for a present name n.                          *)
Header(hs, n) ==
  IF n = DigestHeader THEN hs.digest
  ELSE IF n = AuthHeader THEN hs.auth
  ELSE hs.plain[n]

SetHeader(hs, n, v) ==
  IF n = DigestHeader THEN [hs EXCEPT !.digest = v]
  ELSE IF n = AuthHeader THEN [hs EXCEPT !.auth = v]
  ELSE [hs EXCEPT !.plain[n] = v]

DropHeader(hs, n) == SetHeader(hs, n, Absent)

(* headers.find(n) != headers.end()                                        *)
Present(hs, n) == n \in HeaderNames /\ Header(hs, n) # Absent

(* construct_raw_signed_string.  The indices of headers_to_sign whose      *)
(* header is absent: the function returns nullopt when there is one.       *)
MissingSigned(r, L) ==
  {i \in 1 .. Len(L) : L[i] # RequestTarget /\ ~Present(r.headers, L[i])}

(* The request-target value: lower(verb) " " path, then "?" query when the *)
(* query is not empty.                                                      *)
TargetValue(r) ==
  <<Lower[r.verb], " ">> \o r.path
    \o (IF r.query = <<>> THEN <<>> ELSE <<"?">> \o r.query)

(* The signed string, for L with MissingSigned(r, L) = {}.                  *)
ConstructRawSignedString(r, L) ==
  [i \in 1 .. Len(L) |->
     <<L[i], IF L[i] = RequestTarget THEN TargetValue(r)
                                     ELSE <<Header(r.headers, L[i])>>>>]

(* Mutant: the digest header written from the body, not from its hash.    *)
AddDigestHeaderUnhashed(r) ==
  [r EXCEPT !.headers =
     SetHeader(@, DigestHeader, [eq |-> TRUE, alg |-> DigestAlg, hash |-> r.body])]

(* add_digest_header: digest := "SHA-256=" b64(sha256(body)), overwriting. *)
AddDigestHeader(r) ==
  [r EXCEPT !.headers =
     SetHeader(@, DigestHeader,
               [eq |-> TRUE, alg |-> DigestAlg, hash |-> Sha256[r.body]])]

(* What the verifier's parse_delimited_string(v, " ") returns for the      *)
(* signer's fmt::join(headers_to_sign, " "): the list, or one empty token  *)
(* when the list is empty.                                                  *)
SplitJoin(L) == IF L = <<>> THEN <<"">> ELSE L

(* One key=value token of the Authorization value: v holds text values,   *)
(* list the split header list of headers=, sig the signature= value.       *)
TextParam(key, text) == [k |-> key, v |-> text, list |-> <<>>, sig |-> 0]
ListParam(L)         == [k |-> "headers", v |-> "", list |-> L, sig |-> 0]
SigParam(s)          == [k |-> "signature", v |-> "", list |-> <<>>, sig |-> s]

(* The Authorization value sign_request writes.                            *)
AuthValue(L, sig) ==
  [scheme |-> "Signature",
   params |-> <<TextParam("keyId", "ignored"),
                TextParam("algorithm", SignatureAlg),
                ListParam(SplitJoin(L)),
                SigParam(sig)>>]

-----------------------------------------------------------------------------
(* Mutant: the digest header is checked for its algorithm, not its value.  *)
VerifyDigestAlgOnly(r) ==
  /\ Present(r.headers, DigestHeader)
  /\ r.headers.digest.eq
  /\ r.headers.digest.alg = DigestAlg

(* HttpSignatureVerifier::verify_digest.                                   *)
VerifyDigest(r) ==
  /\ Present(r.headers, DigestHeader)
  /\ r.headers.digest.eq
  /\ r.headers.digest.alg = DigestAlg
  /\ r.headers.digest.hash = Sha256[r.body]

(* parse_signature_params: a token without "=", unbalanced quotes, an      *)
(* algorithm other than ecdsa-sha256 or an empty header list make the      *)
(* whole parse fail.                                                        *)
BadParam(p) ==
  \/ p.k \in {"noeq", "unbalanced"}
  \/ p.k = "algorithm" /\ p.v # SignatureAlg
  \/ p.k = "headers" /\ Len(p.list) = 0

ParamsMalformed(ps) == \E i \in 1 .. Len(ps) : BadParam(ps[i])

(* The last signature= value wins; absent, the signature is empty.         *)
ParamSignature(ps) ==
  LET S == {i \in 1 .. Len(ps) : ps[i].k = "signature"}
  IN  IF S = {} THEN NoSignature
      ELSE ps[CHOOSE i \in S : \A j \in S : j <= i].sig

(* Every headers= value is appended to signed_headers, in order.           *)
ParamSignedHeaders(ps) ==
  LET acc[i \in 0 .. Len(ps)] ==
        IF i = 0 THEN <<>>
        ELSE acc[i - 1] \o (IF ps[i].k = "headers" THEN ps[i].list ELSE <<>>)
  IN  acc[Len(ps)]

(* The required headers that signed_headers does not name.                 *)
MissingRequired(sh) ==
  {h \in RequiredHeaders : \A i \in 1 .. Len(sh) : sh[i] # h}

(* PublicKey_OpenSSL::verify with the client's key, on ideal signatures:  *)
(* signatures is the sequence of strings the client has signed.            *)
VerifySig(signatures, sig, msg) ==
  sig \in 1 .. Len(signatures) /\ signatures[sig] = msg

(* HttpSignatureVerifier::parse followed by the caller's signature check:  *)
(* the outcome kind, with the signed headers and the signed string it      *)
(* rebuilt when it got that far.                                           *)
Parse(r, signatures) ==
  IF ~Present(r.headers, AuthHeader) THEN "Unsigned"
  ELSE IF r.headers.auth.scheme # "Signature" THEN "Unsigned"
  ELSE IF ~VerifyDigest(r) THEN "DigestMismatch"
  ELSE LET ps == r.headers.auth.params
           sh == ParamSignedHeaders(ps)
       IN  IF ParamsMalformed(ps) THEN "MalformedParams"
           ELSE IF MissingRequired(sh) # {} THEN "MissingRequired"
           ELSE IF MissingSigned(r, sh) # {} THEN "MissingSigned"
           ELSE IF VerifySig(signatures, ParamSignature(ps),
                             ConstructRawSignedString(r, sh))
                THEN "Verified"
                ELSE "SignatureMismatch"

-----------------------------------------------------------------------------
VARIABLES
  wire,     \* the request in flight, or NoReq
  origin,   \* ghost: the log index of the signing the request in flight
            \* comes from, and whether the attacker has edited it since
  tampers,  \* attacker edits of the request in flight
  log,      \* ghost: the sign_request calls that returned, in order
  verdict,  \* ghost: the outcome of the last verification
  lastSign  \* ghost: how the last sign_request call ended

vars == <<wire, origin, tampers, log, verdict, lastSign>>

(* The strings the client has signed, indexed by signature.                *)
Signed == [i \in 1 .. Len(log) |-> ConstructRawSignedString(log[i].pre, log[i].list)]

(* The request the i-th call of sign_request sent.                         *)
SentReq(i) ==
  [log[i].pre EXCEPT !.headers =
     SetHeader(@, AuthHeader, AuthValue(log[i].list, i))]

(* Types.                                                                  *)
ParamKeys  == {"keyId", "algorithm", "headers", "signature", "noeq", "unbalanced"}
ParamTexts == {"", "ignored", SignatureAlg, "hmac-sha256"}
Params == [k : ParamKeys, v : ParamTexts, list : Seq(ListTokens), sig : 0 .. MaxSign]

AuthValues == [scheme : {"Signature", "Bearer", NoSpace}, params : Seq(Params)]

HeaderMaps ==
  [plain : [PlainNames -> PlainValues \cup {Absent}],
   digest : DigestValues \cup {Absent},
   auth : AuthValues \cup {Absent}]

Requests ==
  [verb : Verbs, path : Paths, query : Queries, headers : HeaderMaps, body : Bodies]

LogEntries == [pre : Requests, list : SignLists]

(* The requests the client signs are well-formed.                         *)
ASSUME ClientRequestsAssumption == \A cr \in ClientRequests : cr \in Requests

-----------------------------------------------------------------------------
Init ==
  /\ wire = NoReq
  /\ origin = [entry |-> 0, tampered |-> FALSE]
  /\ tampers = 0
  /\ log = <<>>
  /\ verdict = NoVerdict
  /\ lastSign = "none"

(* Mutant: the signed string is built before add_digest_header runs, from *)
(* the request as the caller passed it.                                   *)
SignRequestDigestLate(cr, L) ==
  LET r1     == AddDigestHeader(cr)
      sig    == Len(log) + 1
      r2     == [r1 EXCEPT !.headers = SetHeader(@, AuthHeader, AuthValue(L, sig))]
  IN  /\ wire = NoReq
      /\ Len(log) < MaxSign
      /\ MissingSigned(cr, L) = {}
      /\ wire' = r2
      /\ log' = Append(log, [pre |-> cr, list |-> L])
      /\ origin' = [entry |-> sig, tampered |-> FALSE]
      /\ tampers' = 0
      /\ verdict' = NoVerdict
      /\ lastSign' = "sent"

(* sign_request(request, kp, headers_to_sign): refresh the digest, build   *)
(* the signed string, sign it and set the Authorization header; the client *)
(* then sends the request.  The log keeps the request as it was signed:    *)
(* Signed and SentReq rebuild the signed string and the sent request.      *)
SignRequest(cr, L) ==
  LET r1     == AddDigestHeader(cr)
      sig    == Len(log) + 1
      r2     == [r1 EXCEPT !.headers = SetHeader(@, AuthHeader, AuthValue(L, sig))]
  IN  /\ wire = NoReq
      /\ Len(log) < MaxSign
      /\ MissingSigned(r1, L) = {}
      /\ wire' = r2
      /\ log' = Append(log, [pre |-> r1, list |-> L])
      /\ origin' = [entry |-> sig, tampered |-> FALSE]
      /\ tampers' = 0
      /\ verdict' = NoVerdict
      /\ lastSign' = "sent"

(* The same call when a listed header is absent: construct_raw_signed_string *)
(* returns nullopt and sign_request throws; nothing is sent.               *)
SignRequestThrows(cr, L) ==
  /\ wire = NoReq
  /\ MissingSigned(AddDigestHeader(cr), L) # {}
  /\ lastSign' = "threw"
  /\ UNCHANGED <<wire, origin, tampers, log, verdict>>

(* The network delivers an earlier signed request again.                   *)
Replay(i) ==
  /\ wire = NoReq
  /\ wire' = SentReq(i)
  /\ origin' = [entry |-> i, tampered |-> FALSE]
  /\ tampers' = 0
  /\ verdict' = NoVerdict
  /\ UNCHANGED <<log, lastSign>>

(* One attacker edit of the request in flight, leaving r2.                  *)
Tamper(r2) ==
  /\ wire # NoReq
  /\ tampers < MaxTamper
  /\ r2 # wire
  /\ wire' = r2
  /\ origin' = [origin EXCEPT !.tampered = TRUE]
  /\ tampers' = tampers + 1
  /\ UNCHANGED <<log, verdict, lastSign>>

(* The parameters the attacker can write: a wrong algorithm, any header    *)
(* list, any signature it has seen or made up, malformed tokens.           *)
AttackParams ==
  {TextParam("algorithm", "hmac-sha256"),
   TextParam("noeq", ""), TextParam("unbalanced", "")}
    \cup {ListParam(L) : L \in AttackLists}
    \cup {SigParam(s) : s \in 0 .. Len(log)}

TamperRequestLine ==
  \/ \E v \in Verbs : Tamper([wire EXCEPT !.verb = v])
  \/ \E p \in Paths : Tamper([wire EXCEPT !.path = p])
  \/ \E q \in Queries : Tamper([wire EXCEPT !.query = q])
  \/ \E b \in Bodies : Tamper([wire EXCEPT !.body = b])

TamperHeaders ==
  \/ \E n \in PlainNames, v \in PlainValues :
       Tamper([wire EXCEPT !.headers = SetHeader(@, n, v)])
  \/ \E v \in DigestValues :
       Tamper([wire EXCEPT !.headers = SetHeader(@, DigestHeader, v)])
  \/ \E n \in HeaderNames :
       Tamper([wire EXCEPT !.headers = DropHeader(@, n)])
  \/ \E i \in 1 .. Len(log) :
       Tamper([wire EXCEPT !.headers =
                 SetHeader(@, AuthHeader, SentReq(i).headers.auth)])

TamperAuthorization ==
  /\ wire # NoReq
  /\ Present(wire.headers, AuthHeader)
  /\ LET a == wire.headers.auth
         SetAuth(a2) == Tamper([wire EXCEPT !.headers = SetHeader(@, AuthHeader, a2)])
     IN  \/ \E s \in {"Bearer", NoSpace} : SetAuth([a EXCEPT !.scheme = s])
         \/ \E i \in 1 .. Len(a.params), p \in AttackParams :
              SetAuth([a EXCEPT !.params[i] = p])
         \/ \E p \in AttackParams : SetAuth([a EXCEPT !.params = Append(@, p)])
         \/ \E i \in 1 .. Len(a.params) :
              SetAuth([a EXCEPT !.params =
                         [j \in 1 .. Len(@) - 1 |-> IF j < i THEN @[j] ELSE @[j + 1]]])

(* The server runs HttpSignatureVerifier::parse and the signature check.   *)
Verify ==
  /\ wire # NoReq
  /\ LET kind == Parse(wire, Signed)
         ps   == wire.headers.auth.params
         sh   == ParamSignedHeaders(ps)
         past == kind \in {"Verified", "SignatureMismatch"}
     IN  verdict' = [kind     |-> kind,
                     req      |-> wire,
                     sh       |-> IF past THEN sh ELSE <<>>,
                     raw      |-> IF past THEN ConstructRawSignedString(wire, sh)
                                          ELSE <<>>,
                     entry    |-> origin.entry,
                     tampered |-> origin.tampered]
  /\ wire' = NoReq
  /\ origin' = [entry |-> 0, tampered |-> FALSE]
  /\ tampers' = 0
  /\ UNCHANGED <<log, lastSign>>

Next ==
  \/ \E cr \in ClientRequests, L \in SignLists :
       SignRequest(cr, L) \/ SignRequestThrows(cr, L)
  \/ \E i \in 1 .. Len(log) : Replay(i)
  \/ TamperRequestLine
  \/ TamperHeaders
  \/ TamperAuthorization
  \/ Verify

Spec == Init /\ [][Next]_vars

Kinds == {"Unsigned", "DigestMismatch", "MalformedParams", "MissingRequired",
          "MissingSigned", "SignatureMismatch", "Verified"}

-----------------------------------------------------------------------------
(* Every variable holds a value of its type.                               *)
TypeOK ==
  /\ wire \in Requests \cup {NoReq}
  /\ origin \in [entry : 0 .. MaxSign, tampered : BOOLEAN]
  /\ tampers \in 0 .. MaxTamper
  /\ log \in Seq(LogEntries)
  /\ Len(log) <= MaxSign
  /\ \/ verdict = NoVerdict
     \/ /\ verdict.kind \in Kinds
        /\ verdict.req \in Requests
        /\ verdict.entry \in 0 .. MaxSign
        /\ verdict.tampered \in BOOLEAN
  /\ lastSign \in {"none", "sent", "threw"}

(* Authenticity of verified requests (sign_request / parse and the caller's *)
(* signature check): a request the server accepts carries the verb, path,   *)
(* query and body of a request the client signed, and every header the     *)
(* accepted signature names has the value the client signed.  Breaking it  *)
(* takes a signing, attacker edits and a verification; it relies on the    *)
(* digest check, the required-header floor and on the signed string        *)
(* identifying the request target.                                         *)
Authenticity ==
  verdict # NoVerdict /\ verdict.kind = "Verified" =>
    \E i \in 1 .. Len(log) :
      LET s == SentReq(i)
          r == verdict.req
      IN  /\ s.verb = r.verb /\ s.path = r.path /\ s.query = r.query
          /\ s.body = r.body
          /\ \A j \in 1 .. Len(verdict.sh) :
               Present(r.headers, verdict.sh[j]) =>
                 /\ Present(s.headers, verdict.sh[j])
                 /\ Header(s.headers, verdict.sh[j]) = Header(r.headers, verdict.sh[j])

(* Completeness of signing (sign_request then parse): a request signed     *)
(* over a header list that covers the required headers and delivered       *)
(* unedited verifies, and the verifier rebuilds exactly the string the     *)
(* signer signed.                                                          *)
Completeness ==
  verdict # NoVerdict /\ ~verdict.tampered /\ verdict.entry # 0
  /\ MissingRequired(log[verdict.entry].list) = {} =>
    /\ verdict.kind = "Verified"
    /\ verdict.raw = Signed[verdict.entry]

=============================================================================
