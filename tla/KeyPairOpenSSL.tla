--------------------------- MODULE KeyPairOpenSSL ---------------------------
(***************************************************************************)
(* The OpenSSL key pair of src/src/tls/key_pair_openssl.h, as one thread   *)
(* sees it: the calls of a KeyPair_OpenSSL object, each a fixed sequence   *)
(* of OpenSSL calls, the thread's OpenSSL error queue, and the raw handles *)
(* a call allocates and must free by hand.                                 *)
(*                                                                         *)
(* Each method is its program: the sequence of the OpenSSL calls it makes, *)
(* in source order, each tagged with the way the code checks its result.   *)
(* One action per way of checking executes the next call of the running    *)
(* program; every OpenSSL call may fail, and a failing call pushes 0 to    *)
(* MaxPush records onto the error queue.  The error queue is OpenSSL's     *)
(* per-thread ring: once it holds MaxQueue records a push drops the oldest;*)
(* ERR_get_error pops the oldest.  A record is "own" when the running call *)
(* pushed it and "stale" when an earlier call did.                         *)
(***************************************************************************)
EXTENDS Naturals, Sequences, FiniteSets

CONSTANTS
  MaxQueue,   \* capacity of the thread's error ring (ERR_NUM_ERRORS)
  MaxPush,    \* records one failing OpenSSL call pushes, at most
  NameSizes   \* numbers of entries of the subject names passed to create_csr

ASSUME KeyPairAssumption ==
  /\ MaxQueue \in Nat \ {0}
  /\ MaxPush \in Nat
  /\ NameSizes \subseteq Nat

(* The raw handles of sign_csr and create_csr that the code frees by hand; *)
(* "orphan" is the ASN1_INTEGER that BN_to_ASN1_INTEGER allocates when it *)
(* is passed a NULL serial, which nothing frees.                          *)
Handles == {"subj_name", "bn", "serial", "orphan", "icrt", "before", "after",
            "req_pubkey", "ext"}
NoHandle == "none"

(* The OpenSSL functions the programs call ("free": the *_free family).  *)
OpenSSLFunctions ==
  {"ASN1_INTEGER_new", "ASN1_TIME_new", "ASN1_TIME_set_string", "BIO_new",
   "BIO_new_mem_buf", "BN_bin2bn", "BN_new", "BN_to_ASN1_INTEGER",
   "EVP_PKEY_CTX_new", "EVP_PKEY_CTX_new_id",
   "EVP_PKEY_CTX_set_ec_param_enc",
   "EVP_PKEY_CTX_set_ec_paramgen_curve_nid",
   "EVP_PKEY_CTX_set_signature_md", "EVP_PKEY_keygen",
   "EVP_PKEY_keygen_init", "EC_GROUP_get_curve_name", "EVP_PKEY_paramgen_init", "EVP_PKEY_sign",
   "EVP_PKEY_sign_init", "EVP_PKEY_verify", "EVP_PKEY_verify_init",
   "PEM_read_bio_PrivateKey", "PEM_read_bio_X509", "PEM_read_bio_X509_REQ",
   "PEM_write_bio_PUBKEY", "PEM_write_bio_PrivateKey",
   "PEM_write_bio_X509", "PEM_write_bio_X509_REQ", "RAND_bytes",
   "X509V3_EXT_conf_nid", "X509_NAME_add_entry_by_txt", "X509_NAME_new",
   "X509_REQ_get_pubkey", "X509_REQ_new", "X509_REQ_set_pubkey",
   "X509_REQ_set_subject_name", "X509_REQ_sign", "X509_add_ext",
   "X509_new", "X509_set1_notAfter", "X509_set1_notBefore",
   "X509_set_issuer_name", "X509_set_pubkey", "X509_set_serialNumber",
   "X509_set_subject_name", "X509_set_version", "X509_sign", "free"}

(* One OpenSSL call of a program: how its result is checked, the function *)
(* called, and the raw handle it allocates or frees.                       *)
StepKinds == {"check1", "checknull", "unique", "unchecked", "alloc",
              "bn_to_asn1", "free", "ltzero", "x509_sign", "verify", "curve"}
Step(kind, fn, h) == [kind |-> kind, fn |-> fn, h |-> h]
Check1(fn)    == Step("check1", fn, NoHandle)     \* OPENSSL_CHECK1(fn(...))
CheckNull(fn, h) == Step("checknull", fn, h)      \* OPENSSL_CHECKNULL(h = fn(...))
Unique(fn)    == Step("unique", fn, NoHandle)     \* a Unique_* constructor
Unchecked(fn) == Step("unchecked", fn, NoHandle)  \* result ignored
Alloc(fn, h)  == Step("alloc", fn, h)             \* h = fn(...), not checked
Free(h)       == Step("free", "free", h)          \* *_free(h); no-op on NULL
LtZero(fn)    == Step("ltzero", fn, NoHandle)     \* if (fn(...) < 0) throw
CurveId == Step("curve", "EC_GROUP_get_curve_name", NoHandle) \* get_curve_id()

-----------------------------------------------------------------------------
(* The programs, line by line from the source.                             *)

(* KeyPair_OpenSSL(CurveID): the key EVP_PKEY_new allocates belongs to the *)
(* object, and EVP_PKEY_keygen allocates one itself when it is NULL.       *)
KeyGenProgram ==
  <<Unique("EVP_PKEY_CTX_new_id"),
    LtZero("EVP_PKEY_paramgen_init"),
    LtZero("EVP_PKEY_CTX_set_ec_paramgen_curve_nid"),
    LtZero("EVP_PKEY_CTX_set_ec_param_enc"),
    LtZero("EVP_PKEY_keygen_init"),
    LtZero("EVP_PKEY_keygen")>>

(* KeyPair_OpenSSL(const Pem&, CBuffer): "could not parse PEM".            *)
PemKeyProgram ==
  <<Unique("BIO_new_mem_buf"), CheckNull("PEM_read_bio_PrivateKey", NoHandle)>>

PublicKeyPemProgram ==
  <<Unique("BIO_new"), Check1("PEM_write_bio_PUBKEY")>>

PrivateKeyPemProgram ==
  <<Unique("BIO_new"), Check1("PEM_write_bio_PrivateKey")>>

(* A caller that passes no digest type (MDType::NONE) makes sign and      *)
(* verify_hash look the curve up first.                                    *)
CurveLookup(lookup) == IF lookup THEN <<CurveId>> ELSE <<>>

(* sign(d) -> sign_hash(hash, size) -> sign_hash(hash, size, &written, sig) *)
SignHashProgram(lookup) ==
  CurveLookup(lookup)
  \o <<Unique("EVP_PKEY_CTX_new"), Check1("EVP_PKEY_sign_init"),
       Check1("EVP_PKEY_sign")>>

VerifyHashProgram(lookup) ==
  CurveLookup(lookup)
  \o <<Unique("EVP_PKEY_CTX_new"), Check1("EVP_PKEY_verify_init"),
       Check1("EVP_PKEY_CTX_set_signature_md"),
       Step("verify", "EVP_PKEY_verify", NoHandle)>>

(* create_csr(name) for a name of n entries.                               *)
CreateCsrProgram(n) ==
  <<Unique("X509_REQ_new"), Check1("X509_REQ_set_pubkey"),
    CheckNull("X509_NAME_new", "subj_name")>>
  \o [i \in 1 .. n |-> Check1("X509_NAME_add_entry_by_txt")]
  \o <<Check1("X509_REQ_set_subject_name"), Free("subj_name"),
       Check1("X509_REQ_sign"), Unique("BIO_new"),
       Check1("PEM_write_bio_X509_REQ")>>

(* One X.509 extension of sign_csr.                                        *)
Extension ==
  <<CheckNull("X509V3_EXT_conf_nid", "ext"), Check1("X509_add_ext"), Free("ext")>>

(* sign_csr(issuer_cert, signing_request, subject_alt_names, ca), with or  *)
(* without an issuer certificate and subject alternative names, up to the *)
(* signature; SignCsrProgram adds the signing, the export and the free of  *)
(* the issuer certificate.                                                 *)
SignCsrBuild(issuer, sans) ==
  <<Unique("BIO_new_mem_buf"), Unique("PEM_read_bio_X509_REQ"), Unique("X509_new"),
    Check1("X509_set_version"), Check1("RAND_bytes"),
    CheckNull("BN_new", "bn"), Unchecked("BN_bin2bn"),
    Alloc("ASN1_INTEGER_new", "serial"),
    Step("bn_to_asn1", "BN_to_ASN1_INTEGER", "orphan"),
    Check1("X509_set_serialNumber"), Free("serial"), Free("bn")>>
  \o (IF issuer
      THEN <<Unique("BIO_new_mem_buf"), CheckNull("PEM_read_bio_X509", "icrt"),
             Check1("X509_set_issuer_name")>>
      ELSE <<Check1("X509_set_issuer_name")>>)
  \o <<CheckNull("ASN1_TIME_new", "before"), CheckNull("ASN1_TIME_new", "after"),
       Check1("ASN1_TIME_set_string"), Check1("ASN1_TIME_set_string"),
       Unchecked("X509_set1_notBefore"), Unchecked("X509_set1_notAfter"),
       Free("before"), Free("after"),
       Unchecked("X509_set_subject_name"),
       Alloc("X509_REQ_get_pubkey", "req_pubkey"), Unchecked("X509_set_pubkey"),
       Free("req_pubkey")>>
  \o Extension \o Extension \o Extension
  \o (IF sans THEN Extension ELSE <<>>)

SignAndExport ==
  <<CurveId, Step("x509_sign", "X509_sign", NoHandle), Unique("BIO_new"),
    Check1("PEM_write_bio_X509")>>

(* Mutant: the issuer certificate is never freed.                         *)
SignCsrProgramKeepsIssuer(issuer, sans) ==
  SignCsrBuild(issuer, sans) \o SignAndExport

(* Mutant: the certificate the Unique_X509 wrapper owns is also freed by   *)
(* hand.                                                                   *)
SignCsrProgramFreesCrt(issuer, sans) ==
  SignCsrBuild(issuer, sans) \o SignAndExport \o <<Free("icrt"), Free("crt")>>

SignCsrProgram(issuer, sans) ==
  SignCsrBuild(issuer, sans) \o SignAndExport \o <<Free("icrt")>>

(* The calls, by method; constructors need no object, methods need one.    *)
Constructors ==
  {<<"KeyPair_OpenSSL(curve)", KeyGenProgram>>,
   <<"KeyPair_OpenSSL(pem)", PemKeyProgram>>}
Methods ==
  {<<"public_key_pem", PublicKeyPemProgram>>,
   <<"private_key_pem", PrivateKeyPemProgram>>}
  \cup {<<"sign_hash", SignHashProgram(b)>> : b \in BOOLEAN}
  \cup {<<"verify_hash", VerifyHashProgram(b)>> : b \in BOOLEAN}
  \cup {<<"create_csr", CreateCsrProgram(n)>> : n \in NameSizes}
  \cup {<<"sign_csr", SignCsrProgram(i, s)>> : i, s \in BOOLEAN}

-----------------------------------------------------------------------------
(* The error queue.                                                        *)
Tags == {"own", "stale"}

(* ERR_put_error, n times, on a ring of MaxQueue records.                  *)
Push(q, n) ==
  LET q2 == q \o [i \in 1 .. n |-> "own"]
  IN  IF Len(q2) <= MaxQueue THEN q2
      ELSE SubSeq(q2, Len(q2) - MaxQueue + 1, Len(q2))

(* ERR_get_error: the oldest record, removed; "none" (0) when empty.       *)
Oldest(q) == IF q = <<>> THEN "none" ELSE Head(q)
Pop(q)    == IF q = <<>> THEN <<>> ELSE Tail(q)

-----------------------------------------------------------------------------
VARIABLES
  obj,     \* "none" until a constructor returns, then "ready"
  op,      \* the method running, or "idle"
  prog,    \* the OpenSSL calls the running method has still to make
  errq,    \* the thread's OpenSSL error queue, oldest first
  live,    \* raw handles the running method holds
  failed,  \* ghost: a call of the running method failed
  last,    \* ghost: how the last method ended
  keycurve \* the curve of the object's key: "known" (P-256, P-384),
           \* "unknown" (another curve), "none" before a constructor ran

vars == <<obj, op, prog, errq, live, failed, last, keycurve>>

NoCall == [op |-> "none", kind |-> "none", err |-> "none", failed |-> FALSE,
           leaked |-> {}]

Init ==
  /\ obj = "none"
  /\ op = "idle"
  /\ prog = <<>>
  /\ errq = <<>>
  /\ live = {}
  /\ failed = FALSE
  /\ last = NoCall
  /\ keycurve = "none"

(* A thread calls a constructor, or a method of the constructed object.    *)
(* The records already queued are the ones earlier calls left behind.      *)
Call(name, p) ==
  /\ op = "idle"
  /\ op' = name
  /\ prog' = p
  /\ errq' = [i \in DOMAIN errq |-> "stale"]
  /\ live' = {}
  /\ failed' = FALSE
  /\ UNCHANGED <<obj, last>>

(* KeyPair_OpenSSL(CurveID) generates a P-256 or P-384 key               *)
(* (get_openssl_group_id); a PEM may hold a key on any curve.             *)
KeyCurves(name) ==
  IF name = "KeyPair_OpenSSL(curve)" THEN {"known"} ELSE {"known", "unknown"}

CallConstructor ==
  /\ obj = "none"
  /\ \E c \in Constructors :
       /\ Call(c[1], c[2])
       /\ keycurve' \in KeyCurves(c[1])

CallMethod ==
  /\ obj = "ready"
  /\ \E m \in Methods : Call(m[1], m[2])
  /\ UNCHANGED keycurve

(* The running method ends: by return after its last OpenSSL call, or by  *)
(* an exception carrying the OpenSSL error err ("none": no OpenSSL error,  *)
(* as "out of memory" or "missing object").  Raw handles still held are   *)
(* lost.                                                                   *)
Finish(kind, err, q, fl) ==
  /\ op' = "idle"
  /\ prog' = <<>>
  /\ errq' = q
  /\ live' = {}
  /\ failed' = fl
  /\ last' = [op |-> op, kind |-> kind, err |-> err, failed |-> fl,
              leaked |-> live]
  /\ obj' = IF kind = "returned" THEN "ready" ELSE obj
  /\ UNCHANGED keycurve

(* The running method throws; fl: whether one of its calls failed.        *)
Throw(err, q, fl) == Finish("threw", err, q, fl)

(* The next OpenSSL call of the running method ran; the method goes on.    *)
Continue(q, l, fl) ==
  /\ prog' = Tail(prog)
  /\ errq' = q
  /\ live' = l
  /\ failed' = fl
  /\ UNCHANGED <<obj, op, last, keycurve>>

Return ==
  /\ op # "idle"
  /\ prog = <<>>
  /\ Finish("returned", "none", errq, failed)

(* The next OpenSSL call of the running method is of this kind.           *)
Running(kind) == prog # <<>> /\ Head(prog).kind = kind

-----------------------------------------------------------------------------
(* OPENSSL_CHECK1(rc): pop one record, throw only if rc != 1 and the       *)
(* popped record is not 0.  On success the pop drops a stale record.       *)
OpenSSLCheck1 ==
  /\ Running("check1")
  /\ \/ Continue(Pop(errq), live, failed)
     \/ \E n \in 0 .. MaxPush :
          LET q == Push(errq, n)
          IN  IF Oldest(q) # "none" THEN Throw(Oldest(q), Pop(q), TRUE)
              ELSE Continue(Pop(q), live, TRUE)

(* OPENSSL_CHECKNULL(h = fn(...)): a NULL result throws "missing object"   *)
(* without reading the error queue.  The constructors that test a NULL     *)
(* key ("could not parse PEM") behave the same way.                       *)
OpenSSLCheckNull ==
  /\ Running("checknull")
  /\ LET h == Head(prog).h
     IN  \/ Continue(errq, IF h = NoHandle THEN live ELSE live \cup {h}, failed)
         \/ \E n \in 0 .. MaxPush : Throw("none", Push(errq, n), TRUE)

(* A Unique_* constructor: a NULL result throws "out of memory".           *)
UniqueConstructor ==
  /\ Running("unique")
  /\ \/ Continue(errq, live, failed)
     \/ \E n \in 0 .. MaxPush : Throw("none", Push(errq, n), TRUE)

(* A call whose result the code ignores.                                   *)
UncheckedCall ==
  /\ Running("unchecked")
  /\ \/ Continue(errq, live, failed)
     \/ \E n \in 0 .. MaxPush : Continue(Push(errq, n), live, TRUE)

(* h = fn(...) with no NULL check: ASN1_INTEGER_new, X509_REQ_get_pubkey.   *)
UncheckedAlloc ==
  /\ Running("alloc")
  /\ \/ Continue(errq, live \cup {Head(prog).h}, failed)
     \/ \E n \in 0 .. MaxPush : Continue(Push(errq, n), live, TRUE)

(* BN_to_ASN1_INTEGER(bn, serial), result ignored.  With a NULL serial it  *)
(* allocates and returns a new integer, which the code drops.              *)
BnToAsn1Integer ==
  /\ Running("bn_to_asn1")
  /\ \/ Continue(errq,
                  IF "serial" \in live THEN live ELSE live \cup {Head(prog).h},
                  failed)
     \/ \E n \in 0 .. MaxPush : Continue(Push(errq, n), live, TRUE)

(* X509_NAME_free, BN_free, ASN1_*_free, X509_free, EVP_PKEY_free.         *)
FreeHandle ==
  /\ Running("free")
  /\ Continue(errq, live \ {Head(prog).h}, failed)

(* if (fn(...) < 0) throw: a failure that returns 0 goes unnoticed.        *)
LtZeroCheck ==
  /\ Running("ltzero")
  /\ \/ Continue(errq, live, failed)
     \/ \E n \in 0 .. MaxPush : Continue(Push(errq, n), live, TRUE)
     \/ \E n \in 0 .. MaxPush : Throw("none", Push(errq, n), TRUE)

(* X509_sign: size <= 0 throws "could not sign CRT".                       *)
X509SignCheck ==
  /\ Running("x509_sign")
  /\ \/ Continue(errq, live, failed)
     \/ \E n \in 0 .. MaxPush : Throw("none", Push(errq, n), TRUE)

(* EVP_PKEY_verify: rc 1 verifies; otherwise verify_hash pops one record   *)
(* to log it and returns false.  rc 0 is a signature that does not verify, *)
(* rc < 0 an OpenSSL failure.                                              *)
VerifyCall ==
  /\ Running("verify")
  /\ \/ Continue(errq, live, failed)
     \/ \E n \in 0 .. MaxPush, rcFailed \in BOOLEAN :
          Continue(Pop(Push(errq, n)), live, failed \/ rcFailed)

(* get_curve_id(): a key on a curve other than P-256 and P-384 throws     *)
(* "Unknown OpenSSL curve"; the lookup reads no record and pushes none.   *)
GetCurveId ==
  /\ Running("curve")
  /\ \/ keycurve = "known" /\ Continue(errq, live, failed)
     \/ keycurve # "known" /\ Throw("none", errq, TRUE)

Next ==
  \/ CallConstructor
  \/ CallMethod
  \/ OpenSSLCheck1
  \/ OpenSSLCheckNull
  \/ UniqueConstructor
  \/ UncheckedCall
  \/ UncheckedAlloc
  \/ BnToAsn1Integer
  \/ FreeHandle
  \/ LtZeroCheck
  \/ X509SignCheck
  \/ VerifyCall
  \/ GetCurveId
  \/ Return

Spec == Init /\ [][Next]_vars

-----------------------------------------------------------------------------
MethodNames == {"KeyPair_OpenSSL(curve)", "KeyPair_OpenSSL(pem)", "public_key_pem",
                "private_key_pem", "sign_hash", "verify_hash", "create_csr",
                "sign_csr"}
(* An OpenSSL call of a program; the calls that allocate a raw handle      *)
(* name it.                                                                *)
AllocKinds == {"alloc", "bn_to_asn1"}
Steps ==
  [kind : AllocKinds, fn : OpenSSLFunctions, h : Handles]
  \cup [kind : StepKinds \ AllocKinds, fn : OpenSSLFunctions,
        h : Handles \cup {NoHandle}]

(* The model's variables keep their types; in particular the programs     *)
(* free by hand only raw handles, never one a Unique_* wrapper owns.       *)
TypeOK ==
  /\ obj \in {"none", "ready"}
  /\ op \in MethodNames \cup {"idle"}
  /\ prog \in Seq(Steps)
  /\ errq \in Seq(Tags) /\ Len(errq) <= MaxQueue
  /\ live \subseteq Handles
  /\ failed \in BOOLEAN
  /\ last \in [op : MethodNames \cup {"none"}, kind : {"none", "returned", "threw"},
               err : Tags \cup {"none"}, failed : BOOLEAN, leaked : SUBSET Handles]
  /\ keycurve \in {"none", "known", "unknown"}

(* A method whose OpenSSL calls all succeeded has freed every raw handle   *)
(* it allocated (subj_name in create_csr; bn, serial, the times, the      *)
(* request key, the extensions and the issuer certificate in sign_csr).   *)
CleanCallReleasesAll ==
  last.kind = "returned" /\ ~last.failed => last.leaked = {}

(* The spec (5): no native handle leaks on a thrown failure.              *)
NoLeakOnThrow ==
  last.kind = "threw" => last.leaked = {}

(* The spec (4.7, 7): no failure is silently swallowed and no partial      *)
(* certificate is returned: a method that returns had no failed call.     *)
NoSilentFailure ==
  last.kind = "returned" => ~last.failed

(* The spec (9): the backend's error register is drained within each call  *)
(* and never leaks across calls: an exception reports an error that the    *)
(* call raising it caused.                                                 *)
ReportedErrorIsOwn ==
  last.kind = "threw" /\ last.err # "none" => last.err = "own"

=============================================================================
