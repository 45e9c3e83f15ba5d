-------------------------- MODULE KeyPairLeakProofs --------------------------
(***************************************************************************)
(* A proof that a method of KeyPair_OpenSSL whose OpenSSL calls all        *)
(* succeed frees every raw handle it allocates (CleanCallReleasesAll), for *)
(* every value of the constants.  The argument is about the programs: in  *)
(* each one, every call that allocates a handle is followed by a call that *)
(* frees it, and BN_to_ASN1_INTEGER is preceded by the allocation of its  *)
(* serial, so that it never allocates the orphan integer.  While no call  *)
(* of the running method has failed, what remains of its program keeps     *)
(* these two facts, and every handle the method holds is freed by a call   *)
(* still to come; a method that returns has therefore nothing left.       *)
(***************************************************************************)
EXTENDS KeyPairOpenSSLProofs

-----------------------------------------------------------------------------
(* The call at position j of program p frees handle h.                     *)
FreesAt(p, j, h) == p[j].kind = "free" /\ p[j].h = h

(* A call of p after position i frees h.                                   *)
FreedAfter(p, i, h) == \E j \in i + 1 .. Len(p) : FreesAt(p, j, h)

(* Some call of p frees each handle of H.                                  *)
FreesAll(p, H) == \A h \in H : FreedAfter(p, 0, h)

(* A call that, when it succeeds, leaves the method holding a handle:      *)
(* OPENSSL_CHECKNULL of a raw handle and the unchecked allocations.        *)
Acquires(s) == s.kind \in {"checknull", "alloc"} /\ s.h # NoHandle

(* What the call does to the handles held, when it succeeds.               *)
Acquired(s) == IF Acquires(s) THEN {s.h} ELSE {}
Released(s) == IF s.kind = "free" THEN {s.h} ELSE {}

(* Every handle p allocates is freed later in p, unless it is one of F,    *)
(* which a later part of the program frees.                                *)
BalancedBut(p, F) ==
  \A i \in 1 .. Len(p) :
    Acquires(p[i]) => FreedAfter(p, i, p[i].h) \/ p[i].h \in F

(* BN_to_ASN1_INTEGER finds its serial allocated: by the call just before  *)
(* it, or, when it comes first, among the handles l held.                  *)
SerialReady(p, l) ==
  \A i \in 1 .. Len(p) :
    p[i].kind = "bn_to_asn1" =>
      IF i = 1 THEN "serial" \in l
      ELSE p[i - 1].kind = "alloc" /\ p[i - 1].h = "serial"

(* The strengthening of CleanCallReleasesAll: while no OpenSSL call of the *)
(* running method has failed, the rest of its program frees what it       *)
(* allocates and every handle held now, and never allocates the orphan.   *)
LeakInv ==
  op # "idle" /\ ~failed =>
    /\ BalancedBut(prog, {})
    /\ SerialReady(prog, live)
    /\ FreesAll(prog, live)

LInv == IInv /\ LeakInv /\ CleanCallReleasesAll

-----------------------------------------------------------------------------
(* Dropping the first call of a program keeps the frees that come later.   *)
LEMMA FreedAfterTail ==
  ASSUME NEW p \in Seq(Steps), p # <<>>, NEW i \in Nat, NEW h,
         FreedAfter(p, i + 1, h)
  PROVE  FreedAfter(Tail(p), i, h)
<1>1. PICK j \in i + 2 .. Len(p) : FreesAt(p, j, h)
  BY DEF FreedAfter
<1>2. Len(Tail(p)) = Len(p) - 1 /\ Tail(p)[j - 1] = p[j]
  BY <1>1, HeadTailProperties
<1>. QED BY <1>1, <1>2 DEF FreedAfter, FreesAt

(* The rest of a program after a call that succeeded keeps the three       *)
(* facts of LeakInv, for the handles l2 held after the call.               *)
LEMMA TailKeepsLeakInv ==
  ASSUME NEW p \in Seq(Steps), p # <<>>, NEW l, NEW l2,
         BalancedBut(p, {}), SerialReady(p, l), FreesAll(p, l),
         l2 \subseteq (l \ Released(Head(p))) \cup Acquired(Head(p)),
         Head(p).kind = "alloc" /\ Head(p).h = "serial" => "serial" \in l2
  PROVE  /\ BalancedBut(Tail(p), {})
         /\ SerialReady(Tail(p), l2)
         /\ FreesAll(Tail(p), l2)
<1>1. /\ Len(Tail(p)) = Len(p) - 1
      /\ \A i \in 1 .. Len(Tail(p)) : Tail(p)[i] = p[i + 1]
      /\ Len(p) \in Nat \ {0} /\ Head(p) = p[1]
  BY HeadTailProperties, EmptySeq
<1>2. BalancedBut(Tail(p), {})
  <2>. SUFFICES ASSUME NEW i \in 1 .. Len(Tail(p)), Acquires(Tail(p)[i])
                PROVE  FreedAfter(Tail(p), i, Tail(p)[i].h)
    BY DEF BalancedBut
  <2>1. Acquires(p[i + 1]) /\ i + 1 \in 1 .. Len(p)
    BY <1>1
  <2>2. FreedAfter(p, i + 1, p[i + 1].h)
    BY <2>1 DEF BalancedBut
  <2>. QED BY <1>1, <2>2, FreedAfterTail
<1>3. SerialReady(Tail(p), l2)
  <2>. SUFFICES ASSUME NEW i \in 1 .. Len(Tail(p)),
                       Tail(p)[i].kind = "bn_to_asn1"
                PROVE  IF i = 1 THEN "serial" \in l2
                       ELSE Tail(p)[i - 1].kind = "alloc"
                            /\ Tail(p)[i - 1].h = "serial"
    BY DEF SerialReady
  <2>1. p[i].kind = "alloc" /\ p[i].h = "serial"
    BY <1>1 DEF SerialReady
  <2>. QED BY <1>1, <2>1
<1>4. FreesAll(Tail(p), l2)
  <2>. SUFFICES ASSUME NEW h \in l2 PROVE FreedAfter(Tail(p), 0, h)
    BY DEF FreesAll
  <2>1. FreedAfter(p, 1, h)
    <3>1. CASE h \in l \ Released(Head(p))
      <4>1. PICK j \in 1 .. Len(p) : FreesAt(p, j, h)
        BY <3>1 DEF FreesAll, FreedAfter
      <4>2. j # 1
        BY <1>1, <3>1, <4>1 DEF FreesAt, Released
      <4>. QED BY <4>1, <4>2 DEF FreedAfter
    <3>2. CASE h \in Acquired(Head(p))
      <4>1. Acquires(p[1]) /\ h = p[1].h
        BY <1>1, <3>2 DEF Acquired
      <4>. QED BY <1>1, <4>1 DEF BalancedBut
    <3>. QED BY <3>1, <3>2
  <2>. QED BY <2>1, FreedAfterTail
<1>. QED BY <1>2, <1>3, <1>4

(* A part s of a program followed by a part t: what s leaves to later     *)
(* parts (F) and t does not keep for later still (G) t frees.              *)
LEMMA ConcatBalanced ==
  ASSUME NEW s \in Seq(Steps), NEW t \in Seq(Steps), NEW F, NEW G,
         BalancedBut(s, F), BalancedBut(t, G), FreesAll(t, F \ G)
  PROVE  BalancedBut(s \o t, G)
<1>1. /\ Len(s \o t) = Len(s) + Len(t)
      /\ \A i \in 1 .. Len(s) + Len(t) : (s \o t)[i] =
            IF i <= Len(s) THEN s[i] ELSE t[i - Len(s)]
      /\ Len(s) \in Nat /\ Len(t) \in Nat
  BY ConcatProperties, LenProperties
<1>. SUFFICES ASSUME NEW i \in 1 .. Len(s \o t), Acquires((s \o t)[i]),
                     (s \o t)[i].h \notin G
              PROVE  FreedAfter(s \o t, i, (s \o t)[i].h)
  BY DEF BalancedBut
<1>2. CASE i <= Len(s)
  <2>1. (s \o t)[i] = s[i] /\ i \in 1 .. Len(s)
    BY <1>1, <1>2
  <2>2. CASE FreedAfter(s, i, s[i].h)
    <3>1. PICK j \in i + 1 .. Len(s) : FreesAt(s, j, s[i].h)
      BY <2>2 DEF FreedAfter
    <3>2. (s \o t)[j] = s[j]
      BY <1>1, <3>1
    <3>. QED BY <1>1, <2>1, <3>1, <3>2 DEF FreedAfter, FreesAt
  <2>3. CASE s[i].h \in F
    <3>1. PICK j \in 1 .. Len(t) : FreesAt(t, j, s[i].h)
      BY <2>1, <2>3 DEF FreesAll, FreedAfter
    <3>2. (s \o t)[Len(s) + j] = t[j]
      BY <1>1, <3>1
    <3>. QED BY <1>1, <2>1, <3>1, <3>2 DEF FreedAfter, FreesAt
  <2>. QED BY <2>1, <2>2, <2>3 DEF BalancedBut
<1>3. CASE ~(i <= Len(s))
  <2>1. (s \o t)[i] = t[i - Len(s)] /\ i - Len(s) \in 1 .. Len(t)
    BY <1>1, <1>3
  <2>2. FreedAfter(t, i - Len(s), t[i - Len(s)].h)
    BY <2>1 DEF BalancedBut
  <2>3. PICK j \in i - Len(s) + 1 .. Len(t) : FreesAt(t, j, t[i - Len(s)].h)
    BY <2>2 DEF FreedAfter
  <2>4. (s \o t)[Len(s) + j] = t[j]
    BY <1>1, <2>1, <2>3
  <2>. QED BY <1>1, <2>1, <2>3, <2>4 DEF FreedAfter, FreesAt
<1>. QED BY <1>2, <1>3

(* A part t that does not start with BN_to_ASN1_INTEGER (SerialReady with  *)
(* no handle held) can follow any part.                                    *)
LEMMA ConcatSerialReady ==
  ASSUME NEW s \in Seq(Steps), NEW t \in Seq(Steps), NEW l,
         SerialReady(s, l), SerialReady(t, {})
  PROVE  SerialReady(s \o t, l)
<1>1. /\ Len(s \o t) = Len(s) + Len(t)
      /\ \A i \in 1 .. Len(s) + Len(t) : (s \o t)[i] =
            IF i <= Len(s) THEN s[i] ELSE t[i - Len(s)]
      /\ Len(s) \in Nat /\ Len(t) \in Nat
  BY ConcatProperties, LenProperties
<1>. SUFFICES ASSUME NEW i \in 1 .. Len(s \o t), (s \o t)[i].kind = "bn_to_asn1"
              PROVE  IF i = 1 THEN "serial" \in l
                     ELSE (s \o t)[i - 1].kind = "alloc"
                          /\ (s \o t)[i - 1].h = "serial"
  BY DEF SerialReady
<1>2. CASE i <= Len(s)
  BY <1>1, <1>2 DEF SerialReady
<1>3. CASE ~(i <= Len(s))
  <2>1. t[i - Len(s)].kind = "bn_to_asn1" /\ i - Len(s) \in 1 .. Len(t)
    BY <1>1, <1>3
  <2>2. i - Len(s) # 1
    BY <2>1 DEF SerialReady
  <2>3. t[i - Len(s) - 1].kind = "alloc" /\ t[i - Len(s) - 1].h = "serial"
    BY <2>1, <2>2 DEF SerialReady
  <2>. QED BY <1>1, <1>3, <2>1, <2>2, <2>3
<1>. QED BY <1>2, <1>3

(* A well-formed part of a program that frees what it allocates except F,  *)
(* and in which BN_to_ASN1_INTEGER follows the allocation of its serial.   *)
CleanBut(p, F) == p \in Seq(Steps) /\ BalancedBut(p, F) /\ SerialReady(p, {})

LEMMA ConcatClean ==
  ASSUME NEW s, NEW t, NEW F, NEW G,
         CleanBut(s, F), CleanBut(t, G), FreesAll(t, F \ G)
  PROVE  CleanBut(s \o t, G)
<1>1. s \in Seq(Steps) /\ t \in Seq(Steps)
  BY DEF CleanBut
<1>2. s \o t \in Seq(Steps)
  BY <1>1, ConcatProperties
<1>3. BalancedBut(s \o t, G)
  BY <1>1, ConcatBalanced DEF CleanBut
<1>4. SerialReady(s \o t, {})
  BY <1>1, ConcatSerialReady DEF CleanBut
<1>. QED BY <1>2, <1>3, <1>4 DEF CleanBut

(* A part may leave more to later parts than it does.                      *)
LEMMA CleanButMono ==
  ASSUME NEW p, NEW F, NEW G, CleanBut(p, F), F \subseteq G
  PROVE  CleanBut(p, G)
  BY DEF CleanBut, BalancedBut

(* A part with no allocation and no BN_to_ASN1_INTEGER.                    *)
Quiet(p) ==
  /\ p \in Seq(Steps)
  /\ \A i \in 1 .. Len(p) : ~Acquires(p[i]) /\ p[i].kind # "bn_to_asn1"

LEMMA QuietClean ==
  ASSUME NEW p, Quiet(p), NEW F
  PROVE  CleanBut(p, F)
  BY DEF Quiet, CleanBut, BalancedBut, SerialReady

LEMMA SmallProgramsClean ==
  /\ CleanBut(KeyGenProgram, {})
  /\ CleanBut(PemKeyProgram, {})
  /\ CleanBut(PublicKeyPemProgram, {})
  /\ CleanBut(PrivateKeyPemProgram, {})
  /\ \A b \in BOOLEAN : CleanBut(SignHashProgram(b), {})
  /\ \A b \in BOOLEAN : CleanBut(VerifyHashProgram(b), {})
<1> USE DEF Quiet, Acquires, Step, NoHandle
<1>1. Quiet(KeyGenProgram)
  BY SmallProgramsTyped DEF KeyGenProgram, LtZero, Unique
<1>2. Quiet(PemKeyProgram)
  BY SmallProgramsTyped DEF PemKeyProgram, CheckNull, Unique
<1>3. Quiet(PublicKeyPemProgram)
  BY SmallProgramsTyped DEF PublicKeyPemProgram, Check1, Unique
<1>4. Quiet(PrivateKeyPemProgram)
  BY SmallProgramsTyped DEF PrivateKeyPemProgram, Check1, Unique
<1>0. \A b \in BOOLEAN : CleanBut(CurveLookup(b), {})
  <2>1. Quiet(<<CurveId>>)
    BY DEF CurveId, Steps, StepKinds, AllocKinds, Handles, OpenSSLFunctions
  <2>2. Quiet(<<>>)
    BY EmptySeq
  <2>. QED BY <2>1, <2>2, QuietClean DEF CurveLookup
<1>5. \A b \in BOOLEAN : CleanBut(SignHashProgram(b), {})
  <2>. DEFINE R == <<Unique("EVP_PKEY_CTX_new"), Check1("EVP_PKEY_sign_init"),
                     Check1("EVP_PKEY_sign")>>
  <2>1. Quiet(R)
    BY DEF Check1, Unique, Steps, StepKinds, AllocKinds, Handles, OpenSSLFunctions
  <2>2. CleanBut(R, {}) /\ FreesAll(R, {} \ {})
    BY <2>1, QuietClean DEF FreesAll
  <2>. QED BY <1>0, <2>2, ConcatClean DEF SignHashProgram
<1>6. \A b \in BOOLEAN : CleanBut(VerifyHashProgram(b), {})
  <2>. DEFINE R == <<Unique("EVP_PKEY_CTX_new"), Check1("EVP_PKEY_verify_init"),
                     Check1("EVP_PKEY_CTX_set_signature_md"),
                     Step("verify", "EVP_PKEY_verify", NoHandle)>>
  <2>1. Quiet(R)
    BY DEF Check1, Unique, Steps, StepKinds, AllocKinds, Handles, OpenSSLFunctions
  <2>2. CleanBut(R, {}) /\ FreesAll(R, {} \ {})
    BY <2>1, QuietClean DEF FreesAll
  <2>. QED BY <1>0, <2>2, ConcatClean DEF VerifyHashProgram
<1>. QED BY <1>1, <1>2, <1>3, <1>4, <1>5, <1>6, QuietClean

(* create_csr frees the subject name after X509_REQ_set_subject_name,      *)
(* whatever the number of its entries.                                     *)
LEMMA CreateCsrProgramClean ==
  ASSUME NEW n \in Nat
  PROVE  CleanBut(CreateCsrProgram(n), {})
<1> USE DEF Step, Steps, StepKinds, AllocKinds, Handles, NoHandle, OpenSSLFunctions
<1>. DEFINE A == <<Unique("X509_REQ_new"), Check1("X509_REQ_set_pubkey"),
                   CheckNull("X509_NAME_new", "subj_name")>>
            B == [i \in 1 .. n |-> Check1("X509_NAME_add_entry_by_txt")]
            C == <<Check1("X509_REQ_set_subject_name"), Free("subj_name"),
                   Check1("X509_REQ_sign"), Unique("BIO_new"),
                   Check1("PEM_write_bio_X509_REQ")>>
<1>1. CleanBut(A, {"subj_name"})
  BY DEF CleanBut, BalancedBut, SerialReady, Acquires, Unique, Check1, CheckNull
<1>2. Quiet(B) /\ Quiet(C)
  BY DEF Quiet, Acquires, Check1, Free, Unique
<1>3. FreesAll(C, {"subj_name"})
  <2>1. FreesAt(C, 2, "subj_name")
    BY DEF FreesAt, Free
  <2>. QED BY <2>1 DEF FreesAll, FreedAfter
<1>4. CleanBut(A \o B, {"subj_name"})
  BY <1>1, <1>2, QuietClean, ConcatClean DEF FreesAll
<1>5. CleanBut(A \o B \o C, {})
  BY <1>2, <1>3, <1>4, QuietClean, ConcatClean
<1>. QED BY <1>5 DEF CreateCsrProgram

(* One extension frees the X509_EXTENSION it creates.                      *)
LEMMA ExtensionClean == CleanBut(Extension, {})
<1> USE DEF Step, Steps, StepKinds, AllocKinds, Handles, NoHandle, OpenSSLFunctions
<1>1. FreesAt(Extension, 3, "ext") /\ Extension[1].h = "ext" /\ Len(Extension) = 3
  BY DEF FreesAt, Extension, CheckNull, Free
<1>2. \A i \in 1 .. 3 : Acquires(Extension[i]) => i = 1
  BY DEF Acquires, Extension, CheckNull, Check1, Free
<1>3. BalancedBut(Extension, {})
  BY <1>1, <1>2 DEF BalancedBut, FreedAfter
<1>. QED BY <1>3, SignCsrProgramTyped
         DEF CleanBut, SerialReady, Extension, CheckNull, Check1, Free

(* sign_csr frees bn, serial, the two times, the request key and every     *)
(* extension in the code that creates them, and the issuer certificate at  *)
(* its end; BN_to_ASN1_INTEGER comes right after ASN1_INTEGER_new.         *)
LEMMA SignCsrProgramClean ==
  ASSUME NEW issuer \in BOOLEAN, NEW sans \in BOOLEAN
  PROVE  CleanBut(SignCsrProgram(issuer, sans), {})
<1> USE DEF Step, Steps, StepKinds, AllocKinds, Handles, NoHandle, OpenSSLFunctions
<1>. DEFINE
  P1 == <<Unique("BIO_new_mem_buf"), Unique("PEM_read_bio_X509_REQ"), Unique("X509_new"),
          Check1("X509_set_version"), Check1("RAND_bytes"),
          CheckNull("BN_new", "bn"), Unchecked("BN_bin2bn"),
          Alloc("ASN1_INTEGER_new", "serial"),
          Step("bn_to_asn1", "BN_to_ASN1_INTEGER", "orphan"),
          Check1("X509_set_serialNumber"), Free("serial"), Free("bn")>>
  P2I == <<Unique("BIO_new_mem_buf"), CheckNull("PEM_read_bio_X509", "icrt"),
           Check1("X509_set_issuer_name")>>
  P2N == <<Check1("X509_set_issuer_name")>>
  P2 == IF issuer THEN P2I ELSE P2N
  P3 == <<CheckNull("ASN1_TIME_new", "before"), CheckNull("ASN1_TIME_new", "after"),
          Check1("ASN1_TIME_set_string"), Check1("ASN1_TIME_set_string"),
          Unchecked("X509_set1_notBefore"), Unchecked("X509_set1_notAfter"),
          Free("before"), Free("after"),
          Unchecked("X509_set_subject_name"),
          Alloc("X509_REQ_get_pubkey", "req_pubkey"), Unchecked("X509_set_pubkey"),
          Free("req_pubkey")>>
  EO == IF sans THEN Extension ELSE <<>>
  Last == <<Free("icrt")>>
<1>1. CleanBut(P1, {})
  <2>1. \A i \in 1 .. 12 : Acquires(P1[i]) => i \in {6, 8}
    BY DEF Acquires, Unique, Check1, CheckNull, Unchecked, Alloc, Free
  <2>2. /\ FreesAt(P1, 12, "bn") /\ P1[6].h = "bn"
        /\ FreesAt(P1, 11, "serial") /\ P1[8].h = "serial"
    BY DEF FreesAt, CheckNull, Alloc, Free
  <2>3. BalancedBut(P1, {})
    BY <2>1, <2>2 DEF BalancedBut, FreedAfter
  <2>4. SerialReady(P1, {})
    BY DEF SerialReady, Unique, Check1, CheckNull, Unchecked, Alloc, Free
  <2>5. P1 \in Seq(Steps)
    BY DEF Unique, Check1, CheckNull, Unchecked, Alloc, Free
  <2>. QED BY <2>3, <2>4, <2>5 DEF CleanBut
<1>2. CleanBut(P2, {"icrt"})
  <2>1. CleanBut(P2I, {"icrt"})
    BY DEF CleanBut, BalancedBut, SerialReady, Acquires, Unique, Check1, CheckNull
  <2>2. Quiet(P2N)
    BY DEF Quiet, Acquires, Check1
  <2>. QED BY <2>1, <2>2, QuietClean
<1>3. CleanBut(P3, {"icrt"})
  <2>1. \A i \in 1 .. 12 : Acquires(P3[i]) => i \in {1, 2, 10}
    BY DEF Acquires, Check1, CheckNull, Unchecked, Alloc, Free
  <2>2. /\ FreesAt(P3, 7, "before") /\ P3[1].h = "before"
        /\ FreesAt(P3, 8, "after") /\ P3[2].h = "after"
        /\ FreesAt(P3, 12, "req_pubkey") /\ P3[10].h = "req_pubkey"
    BY DEF FreesAt, CheckNull, Alloc, Free
  <2>3. BalancedBut(P3, {})
    BY <2>1, <2>2 DEF BalancedBut, FreedAfter
  <2>4. SerialReady(P3, {})
    BY DEF SerialReady, Check1, CheckNull, Unchecked, Alloc, Free
  <2>5. P3 \in Seq(Steps)
    BY DEF Check1, CheckNull, Unchecked, Alloc, Free
  <2>6. CleanBut(P3, {})
    BY <2>3, <2>4, <2>5 DEF CleanBut
  <2>. QED BY <2>6, CleanButMono
<1>4. CleanBut(Extension, {"icrt"}) /\ CleanBut(EO, {"icrt"})
  <2>1. Quiet(<<>>)
    BY EmptySeq DEF Quiet
  <2>. QED BY <2>1, ExtensionClean, CleanButMono, QuietClean
<1>5. Quiet(SignAndExport) /\ Quiet(Last)
  BY DEF Quiet, Acquires, SignAndExport, Unique, Check1, Free, CurveId
<1>6. FreesAll(Last, {"icrt"})
  <2>1. FreesAt(Last, 1, "icrt")
    BY DEF FreesAt, Free
  <2>. QED BY <2>1 DEF FreesAll, FreedAfter
<1>7. \A X : FreesAll(X, {"icrt"} \ {"icrt"})
  BY DEF FreesAll
<1>8. CleanBut(P1 \o P2 \o P3 \o Extension \o Extension \o Extension \o EO,
               {"icrt"})
  <2>1. CleanBut(P1 \o P2, {"icrt"})
    BY <1>1, <1>2, ConcatClean DEF FreesAll
  <2>2. CleanBut(P1 \o P2 \o P3, {"icrt"})
    BY <2>1, <1>3, <1>7, ConcatClean
  <2>3. CleanBut(P1 \o P2 \o P3 \o Extension, {"icrt"})
    BY <2>2, <1>4, <1>7, ConcatClean
  <2>4. CleanBut(P1 \o P2 \o P3 \o Extension \o Extension, {"icrt"})
    BY <2>3, <1>4, <1>7, ConcatClean
  <2>5. CleanBut(P1 \o P2 \o P3 \o Extension \o Extension \o Extension, {"icrt"})
    BY <2>4, <1>4, <1>7, ConcatClean
  <2>6. FreesAll(EO, {"icrt"} \ {"icrt"})
    BY <1>7
  <2>. QED BY <2>5, <2>6, <1>4, ConcatClean
<1>9. CleanBut(SignCsrBuild(issuer, sans) \o SignAndExport, {"icrt"})
  <2>1. CleanBut(SignAndExport, {"icrt"})
    BY <1>5, QuietClean
  <2>2. SignCsrBuild(issuer, sans)
        = P1 \o P2 \o P3 \o Extension \o Extension \o Extension \o EO
    BY DEF SignCsrBuild
  <2>. QED BY <1>7, <1>8, <2>1, <2>2, ConcatClean
<1>10. CleanBut(Last, {})
  BY <1>5, QuietClean
<1>11. CleanBut(SignCsrBuild(issuer, sans) \o SignAndExport \o Last, {})
  BY <1>6, <1>9, <1>10, ConcatClean
<1>. QED BY <1>11 DEF SignCsrProgram

(* Every constructor and method runs a clean program.                      *)
LEMMA CallsClean ==
  \A c \in Constructors \cup Methods : CleanBut(c[2], {})
<1>1. \A n \in NameSizes : CleanBut(<<"create_csr", CreateCsrProgram(n)>>[2], {})
  BY CreateCsrProgramClean, KeyPairAssumption
<1>2. \A i, s \in BOOLEAN : CleanBut(<<"sign_csr", SignCsrProgram(i, s)>>[2], {})
  BY SignCsrProgramClean
<1>3. \A b \in BOOLEAN :
        /\ CleanBut(<<"sign_hash", SignHashProgram(b)>>[2], {})
        /\ CleanBut(<<"verify_hash", VerifyHashProgram(b)>>[2], {})
  BY SmallProgramsClean
<1>. QED BY <1>1, <1>2, <1>3, SmallProgramsClean DEF Constructors, Methods

-----------------------------------------------------------------------------
(* Each action keeps LeakInv and CleanCallReleasesAll.                     *)

(* The next OpenSSL call, when it succeeds (~fl), leaves the method with   *)
(* the handles l: those it held but the call freed, and the one the call   *)
(* allocated; after ASN1_INTEGER_new the serial is held.                   *)
CleanStep(l, fl) ==
  ~fl => /\ ~failed
         /\ l \subseteq (live \ Released(Head(prog))) \cup Acquired(Head(prog))
         /\ Head(prog).kind = "alloc" /\ Head(prog).h = "serial" => "serial" \in l

LEMMA ContinueLeak ==
  ASSUME LInv, prog # <<>>, NEW q, NEW l, NEW fl,
         Continue(q, l, fl), CleanStep(l, fl)
  PROVE  LeakInv' /\ CleanCallReleasesAll'
<1>1. CleanCallReleasesAll'
  BY DEF LInv, CleanCallReleasesAll, Continue
<1>2. LeakInv'
  <2>. SUFFICES ASSUME op' # "idle", ~failed'
                PROVE  /\ BalancedBut(prog', {})
                       /\ SerialReady(prog', live')
                       /\ FreesAll(prog', live')
    BY DEF LeakInv
  <2>1. ~fl /\ op # "idle" /\ prog' = Tail(prog) /\ live' = l
    BY DEF Continue
  <2>2. /\ ~failed
        /\ l \subseteq (live \ Released(Head(prog))) \cup Acquired(Head(prog))
        /\ Head(prog).kind = "alloc" /\ Head(prog).h = "serial" => "serial" \in l
    BY <2>1 DEF CleanStep
  <2>3. BalancedBut(prog, {}) /\ SerialReady(prog, live) /\ FreesAll(prog, live)
    BY <2>1, <2>2 DEF LInv, LeakInv
  <2>4. prog \in Seq(Steps)
    BY DEF LInv, IInv, TypeOK
  <2>. QED BY <2>1, <2>2, <2>3, <2>4, TailKeepsLeakInv
<1>. QED BY <1>1, <1>2

(* A call that leaves the handles held as they are is clean unless it is  *)
(* a free or an allocation; a failed call is never clean.                  *)
LEMMA KeepLiveClean ==
  ASSUME prog # <<>>, Head(prog).kind \notin {"free", "alloc", "checknull"},
         NEW fl, ~fl => ~failed
  PROVE  CleanStep(live, fl)
  BY DEF CleanStep, Released, Acquired, Acquires

LEMMA FailedClean ==
  ASSUME NEW l PROVE CleanStep(l, TRUE)
  BY DEF CleanStep

(* The method ends; only a method that returns with no failure must hold   *)
(* nothing.                                                                *)
LEMMA FinishLeak ==
  ASSUME NEW kind, NEW err, NEW q, NEW fl, Finish(kind, err, q, fl),
         kind = "returned" /\ ~fl => live = {}
  PROVE  LeakInv' /\ CleanCallReleasesAll'
  BY DEF Finish, LeakInv, CleanCallReleasesAll

LEMMA ThrowLeak ==
  ASSUME NEW err, NEW q, NEW fl, Throw(err, q, fl)
  PROVE  LeakInv' /\ CleanCallReleasesAll'
  BY FinishLeak DEF Throw

(* What Running(kind) tells of the next call.                              *)
LEMMA RunningHead ==
  ASSUME NEW kind, Running(kind)
  PROVE  prog # <<>> /\ Head(prog).kind = kind
  BY DEF Running

LEMMA CallLeak ==
  ASSUME LInv, NEW name, NEW p, CleanBut(p, {}), Call(name, p)
  PROVE  LeakInv' /\ CleanCallReleasesAll'
<1>1. FreesAll(p, {})
  BY DEF FreesAll
<1>. QED BY <1>1 DEF CleanBut, Call, LeakInv, LInv, CleanCallReleasesAll

LEMMA CallConstructorLeak ==
  ASSUME LInv, CallConstructor PROVE LeakInv' /\ CleanCallReleasesAll'
<1>1. PICK c \in Constructors : Call(c[1], c[2])
  BY DEF CallConstructor
<1>. QED BY <1>1, CallsClean, CallLeak

LEMMA CallMethodLeak ==
  ASSUME LInv, CallMethod PROVE LeakInv' /\ CleanCallReleasesAll'
<1>1. PICK m \in Methods : Call(m[1], m[2])
  BY DEF CallMethod
<1>. QED BY <1>1, CallsClean, CallLeak

(* A method that returns after its last call and no failure holds nothing: *)
(* every handle it held had to be freed by a call still to come.          *)
LEMMA ReturnLeak ==
  ASSUME LInv, Return PROVE LeakInv' /\ CleanCallReleasesAll'
<1>1. ~failed => live = {}
  <2>. SUFFICES ASSUME ~failed, NEW h \in live PROVE FALSE
    OBVIOUS
  <2>1. FreesAll(<<>>, live)
    BY DEF Return, LInv, LeakInv
  <2>2. Len(<<>>) = 0
    BY EmptySeq
  <2>. QED BY <2>1, <2>2 DEF FreesAll, FreedAfter
<1>. QED BY <1>1, FinishLeak DEF Return

LEMMA Check1Leak ==
  ASSUME LInv, OpenSSLCheck1 PROVE LeakInv' /\ CleanCallReleasesAll'
<1>1. prog # <<>> /\ Head(prog).kind = "check1"
  BY RunningHead DEF OpenSSLCheck1
<1>2. CASE Continue(Pop(errq), live, failed)
  BY <1>1, <1>2, KeepLiveClean, ContinueLeak
<1>3. CASE \E n \in 0 .. MaxPush :
             LET q == Push(errq, n)
             IN  IF Oldest(q) # "none" THEN Throw(Oldest(q), Pop(q), TRUE)
                 ELSE Continue(Pop(q), live, TRUE)
  <2>1. PICK n \in 0 .. MaxPush :
             IF Oldest(Push(errq, n)) # "none"
             THEN Throw(Oldest(Push(errq, n)), Pop(Push(errq, n)), TRUE)
             ELSE Continue(Pop(Push(errq, n)), live, TRUE)
    BY <1>3
  <2>2. CASE Oldest(Push(errq, n)) # "none"
    BY <2>1, <2>2, ThrowLeak
  <2>3. CASE Oldest(Push(errq, n)) = "none"
    BY <1>1, <2>1, <2>3, FailedClean, ContinueLeak
  <2>. QED BY <2>2, <2>3
<1>. QED BY <1>2, <1>3 DEF OpenSSLCheck1

(* OPENSSL_CHECKNULL leaves the method holding the handle it names.        *)
LEMMA CheckNullLeak ==
  ASSUME LInv, OpenSSLCheckNull PROVE LeakInv' /\ CleanCallReleasesAll'
<1>1. prog # <<>> /\ Head(prog).kind = "checknull"
  BY RunningHead DEF OpenSSLCheckNull
<1>. DEFINE l == IF Head(prog).h = NoHandle THEN live ELSE live \cup {Head(prog).h}
<1>2. CASE Continue(errq, l, failed)
  <2>1. CleanStep(l, failed)
    BY <1>1 DEF CleanStep, Released, Acquired, Acquires
  <2>. QED BY <1>1, <1>2, <2>1, ContinueLeak
<1>3. CASE \E n \in 0 .. MaxPush : Throw("none", Push(errq, n), TRUE)
  BY <1>3, ThrowLeak
<1>. QED BY <1>2, <1>3 DEF OpenSSLCheckNull

LEMMA UniqueLeak ==
  ASSUME LInv, UniqueConstructor PROVE LeakInv' /\ CleanCallReleasesAll'
<1>1. prog # <<>> /\ Head(prog).kind = "unique"
  BY RunningHead DEF UniqueConstructor
<1>2. CASE Continue(errq, live, failed)
  BY <1>1, <1>2, KeepLiveClean, ContinueLeak
<1>3. CASE \E n \in 0 .. MaxPush : Throw("none", Push(errq, n), TRUE)
  BY <1>3, ThrowLeak
<1>. QED BY <1>2, <1>3 DEF UniqueConstructor

LEMMA UncheckedCallLeak ==
  ASSUME LInv, UncheckedCall PROVE LeakInv' /\ CleanCallReleasesAll'
<1>1. prog # <<>> /\ Head(prog).kind = "unchecked"
  BY RunningHead DEF UncheckedCall
<1>2. CASE Continue(errq, live, failed)
  BY <1>1, <1>2, KeepLiveClean, ContinueLeak
<1>3. CASE \E n \in 0 .. MaxPush : Continue(Push(errq, n), live, TRUE)
  BY <1>1, <1>3, FailedClean, ContinueLeak
<1>. QED BY <1>2, <1>3 DEF UncheckedCall

(* ASN1_INTEGER_new and X509_REQ_get_pubkey leave their handle held.       *)
LEMMA UncheckedAllocLeak ==
  ASSUME LInv, UncheckedAlloc PROVE LeakInv' /\ CleanCallReleasesAll'
<1>1. prog # <<>> /\ Head(prog).kind = "alloc"
  BY RunningHead DEF UncheckedAlloc
<1>2. Head(prog).h \in Handles
  <2>1. IInv /\ Running("alloc")
    BY DEF LInv, UncheckedAlloc
  <2>2. Head(prog).kind \in AllocKinds
    BY <1>1 DEF AllocKinds
  <2>. QED BY <2>1, <2>2, RunningTyped
<1>3. CASE Continue(errq, live \cup {Head(prog).h}, failed)
  <2>1. CleanStep(live \cup {Head(prog).h}, failed)
    BY <1>1, <1>2 DEF CleanStep, Released, Acquired, Acquires, Handles, NoHandle
  <2>. QED BY <1>1, <1>3, <2>1, ContinueLeak
<1>4. CASE \E n \in 0 .. MaxPush : Continue(Push(errq, n), live, TRUE)
  BY <1>1, <1>4, FailedClean, ContinueLeak
<1>. QED BY <1>3, <1>4 DEF UncheckedAlloc

(* In a method with no failure BN_to_ASN1_INTEGER finds the serial held,   *)
(* so it allocates nothing.                                                *)
LEMMA BnToAsn1IntegerLeak ==
  ASSUME LInv, BnToAsn1Integer PROVE LeakInv' /\ CleanCallReleasesAll'
<1>1. prog # <<>> /\ Head(prog).kind = "bn_to_asn1" /\ op # "idle"
  BY RunningHead, RunningTyped DEF LInv, BnToAsn1Integer
<1>. DEFINE l == IF "serial" \in live THEN live ELSE live \cup {Head(prog).h}
<1>2. CASE Continue(errq, l, failed)
  <2>1. ~failed => "serial" \in live
    <3>. SUFFICES ASSUME ~failed PROVE "serial" \in live
      OBVIOUS
    <3>1. SerialReady(prog, live)
      BY <1>1 DEF LInv, LeakInv
    <3>2. prog \in Seq(Steps)
      BY DEF LInv, IInv, TypeOK
    <3>3. 1 \in 1 .. Len(prog) /\ prog[1] = Head(prog)
      BY <1>1, <3>2, EmptySeq
    <3>. QED BY <1>1, <3>1, <3>3 DEF SerialReady
  <2>2. CleanStep(l, failed)
    BY <1>1, <2>1 DEF CleanStep, Released, Acquired, Acquires
  <2>. QED BY <1>1, <1>2, <2>2, ContinueLeak
<1>3. CASE \E n \in 0 .. MaxPush : Continue(Push(errq, n), live, TRUE)
  BY <1>1, <1>3, FailedClean, ContinueLeak
<1>. QED BY <1>2, <1>3 DEF BnToAsn1Integer

LEMMA FreeHandleLeak ==
  ASSUME LInv, FreeHandle PROVE LeakInv' /\ CleanCallReleasesAll'
<1>1. prog # <<>> /\ Head(prog).kind = "free"
  BY RunningHead DEF FreeHandle
<1>2. CleanStep(live \ {Head(prog).h}, failed)
  BY <1>1 DEF CleanStep, Released, Acquired, Acquires
<1>. QED BY <1>1, <1>2, ContinueLeak DEF FreeHandle

LEMMA LtZeroLeak ==
  ASSUME LInv, LtZeroCheck PROVE LeakInv' /\ CleanCallReleasesAll'
<1>1. prog # <<>> /\ Head(prog).kind = "ltzero"
  BY RunningHead DEF LtZeroCheck
<1>2. CASE Continue(errq, live, failed)
  BY <1>1, <1>2, KeepLiveClean, ContinueLeak
<1>3. CASE \E n \in 0 .. MaxPush : Continue(Push(errq, n), live, TRUE)
  BY <1>1, <1>3, FailedClean, ContinueLeak
<1>4. CASE \E n \in 0 .. MaxPush : Throw("none", Push(errq, n), TRUE)
  BY <1>4, ThrowLeak
<1>. QED BY <1>2, <1>3, <1>4 DEF LtZeroCheck

LEMMA X509SignLeak ==
  ASSUME LInv, X509SignCheck PROVE LeakInv' /\ CleanCallReleasesAll'
<1>1. prog # <<>> /\ Head(prog).kind = "x509_sign"
  BY RunningHead DEF X509SignCheck
<1>2. CASE Continue(errq, live, failed)
  BY <1>1, <1>2, KeepLiveClean, ContinueLeak
<1>3. CASE \E n \in 0 .. MaxPush : Throw("none", Push(errq, n), TRUE)
  BY <1>3, ThrowLeak
<1>. QED BY <1>2, <1>3 DEF X509SignCheck

LEMMA VerifyCallLeak ==
  ASSUME LInv, VerifyCall PROVE LeakInv' /\ CleanCallReleasesAll'
<1>1. prog # <<>> /\ Head(prog).kind = "verify"
  BY RunningHead DEF VerifyCall
<1>2. CASE Continue(errq, live, failed)
  BY <1>1, <1>2, KeepLiveClean, ContinueLeak
<1>3. CASE \E n \in 0 .. MaxPush, rcFailed \in BOOLEAN :
             Continue(Pop(Push(errq, n)), live, failed \/ rcFailed)
  <2>1. PICK n \in 0 .. MaxPush, rcFailed \in BOOLEAN :
             Continue(Pop(Push(errq, n)), live, failed \/ rcFailed)
    BY <1>3
  <2>2. CleanStep(live, failed \/ rcFailed)
    BY <1>1, KeepLiveClean
  <2>. QED BY <1>1, <2>1, <2>2, ContinueLeak
<1>. QED BY <1>2, <1>3 DEF VerifyCall

LEMMA GetCurveIdLeak ==
  ASSUME LInv, GetCurveId PROVE LeakInv' /\ CleanCallReleasesAll'
<1>1. prog # <<>> /\ Head(prog).kind = "curve"
  BY RunningHead DEF GetCurveId
<1>2. CASE Continue(errq, live, failed)
  BY <1>1, <1>2, KeepLiveClean, ContinueLeak
<1>3. CASE Throw("none", errq, TRUE)
  BY <1>3, ThrowLeak
<1>. QED BY <1>2, <1>3 DEF GetCurveId

-----------------------------------------------------------------------------
LEMMA InitLInv == Init => LInv
<1>. SUFFICES ASSUME Init PROVE LInv
  OBVIOUS
<1>1. IInv
  BY InitIInv
<1>. QED BY <1>1 DEF Init, LInv, LeakInv, CleanCallReleasesAll, NoCall

LEMMA NextLInv == LInv /\ [Next]_vars => LInv'
<1>. SUFFICES ASSUME LInv, [Next]_vars PROVE LInv'
  OBVIOUS
<1>1. IInv'
  BY NextIInv DEF LInv
<1>2. LeakInv' /\ CleanCallReleasesAll'
  <2>1. CASE CallConstructor    BY <2>1, CallConstructorLeak
  <2>2. CASE CallMethod         BY <2>2, CallMethodLeak
  <2>3. CASE OpenSSLCheck1      BY <2>3, Check1Leak
  <2>4. CASE OpenSSLCheckNull   BY <2>4, CheckNullLeak
  <2>5. CASE UniqueConstructor  BY <2>5, UniqueLeak
  <2>6. CASE UncheckedCall      BY <2>6, UncheckedCallLeak
  <2>7. CASE UncheckedAlloc     BY <2>7, UncheckedAllocLeak
  <2>8. CASE BnToAsn1Integer    BY <2>8, BnToAsn1IntegerLeak
  <2>9. CASE FreeHandle         BY <2>9, FreeHandleLeak
  <2>10. CASE LtZeroCheck       BY <2>10, LtZeroLeak
  <2>11. CASE X509SignCheck     BY <2>11, X509SignLeak
  <2>12. CASE VerifyCall        BY <2>12, VerifyCallLeak
  <2>13. CASE Return            BY <2>13, ReturnLeak
  <2>14. CASE UNCHANGED vars
    BY <2>14 DEF vars, LInv, LeakInv, CleanCallReleasesAll
  <2>15. CASE GetCurveId        BY <2>15, GetCurveIdLeak
  <2>. QED BY <2>1, <2>2, <2>3, <2>4, <2>5, <2>6, <2>7, <2>8, <2>9, <2>10,
              <2>11, <2>12, <2>13, <2>14, <2>15 DEF Next
<1>. QED BY <1>1, <1>2 DEF LInv

(* A method of KeyPair_OpenSSL whose OpenSSL calls all succeeded returns   *)
(* holding no raw handle: create_csr frees the subject name, and sign_csr  *)
(* frees bn, serial, the times, the request key, every extension and the  *)
(* issuer certificate and never makes BN_to_ASN1_INTEGER allocate the     *)
(* integer nothing frees, for every size of the error queue, every number *)
(* of records a failure pushes and every number of subject-name entries.  *)
THEOREM CleanCallReleasesAllHolds == Spec => []CleanCallReleasesAll
<1>1. LInv => CleanCallReleasesAll
  BY DEF LInv
<1>. QED BY InitLInv, NextLInv, <1>1, PTL DEF Spec

=============================================================================
