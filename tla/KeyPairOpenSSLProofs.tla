------------------------ MODULE KeyPairOpenSSLProofs ------------------------
(***************************************************************************)
(* Proofs about the OpenSSL key-pair model, for every value of MaxQueue,   *)
(* MaxPush and NameSizes allowed by KeyPairAssumption: the model is well   *)
(* typed.  KeyPairLeakProofs builds on the invariant IInv proved here.     *)
(***************************************************************************)
EXTENDS KeyPairOpenSSL, SequenceTheorems, TLAPS

-----------------------------------------------------------------------------
(* Every program is a sequence of OpenSSL calls, each naming a handle when *)
(* it allocates one: the programs are well formed.                         *)

LEMMA SmallProgramsTyped ==
  /\ KeyGenProgram \in Seq(Steps)
  /\ PemKeyProgram \in Seq(Steps)
  /\ PublicKeyPemProgram \in Seq(Steps)
  /\ PrivateKeyPemProgram \in Seq(Steps)
  /\ \A b \in BOOLEAN : SignHashProgram(b) \in Seq(Steps)
  /\ \A b \in BOOLEAN : VerifyHashProgram(b) \in Seq(Steps)
<1> USE DEF Step, Steps, StepKinds, AllocKinds, Handles, NoHandle, OpenSSLFunctions
<1>1. KeyGenProgram \in Seq(Steps)
  BY DEF KeyGenProgram, LtZero, Unique
<1>2. PemKeyProgram \in Seq(Steps)
  BY DEF PemKeyProgram, CheckNull, Unique
<1>3. PublicKeyPemProgram \in Seq(Steps)
  BY DEF PublicKeyPemProgram, Check1, Unique
<1>4. PrivateKeyPemProgram \in Seq(Steps)
  BY DEF PrivateKeyPemProgram, Check1, Unique
<1>0. \A b \in BOOLEAN : CurveLookup(b) \in Seq(Steps)
  <2>1. CurveId \in Steps
    BY DEF CurveId
  <2>2. <<CurveId>> \in Seq(Steps) /\ <<>> \in Seq(Steps)
    BY <2>1
  <2>. QED BY <2>2 DEF CurveLookup
<1>5. \A b \in BOOLEAN : SignHashProgram(b) \in Seq(Steps)
  BY <1>0 DEF SignHashProgram, Check1, Unique
<1>6. \A b \in BOOLEAN : VerifyHashProgram(b) \in Seq(Steps)
  BY <1>0 DEF VerifyHashProgram, Check1, Unique
<1>. QED BY <1>1, <1>2, <1>3, <1>4, <1>5, <1>6

LEMMA CreateCsrProgramTyped ==
  ASSUME NEW n \in Nat
  PROVE  CreateCsrProgram(n) \in Seq(Steps)
<1> USE DEF Step, Steps, StepKinds, AllocKinds, Handles, NoHandle, OpenSSLFunctions
<1>1. <<Unique("X509_REQ_new"), Check1("X509_REQ_set_pubkey"),
        CheckNull("X509_NAME_new", "subj_name")>> \in Seq(Steps)
  BY DEF Unique, Check1, CheckNull
<1>2. [i \in 1 .. n |-> Check1("X509_NAME_add_entry_by_txt")] \in Seq(Steps)
  BY DEF Check1
<1>3. <<Check1("X509_REQ_set_subject_name"), Free("subj_name"),
        Check1("X509_REQ_sign"), Unique("BIO_new"),
        Check1("PEM_write_bio_X509_REQ")>> \in Seq(Steps)
  BY DEF Check1, Free, Unique
<1>. QED BY <1>1, <1>2, <1>3 DEF CreateCsrProgram

LEMMA SignCsrProgramTyped ==
  ASSUME NEW issuer \in BOOLEAN, NEW sans \in BOOLEAN
  PROVE  SignCsrProgram(issuer, sans) \in Seq(Steps)
<1> USE DEF Step, Steps, StepKinds, AllocKinds, Handles, NoHandle, OpenSSLFunctions
<1>1. <<Unique("BIO_new_mem_buf"), Unique("PEM_read_bio_X509_REQ"), Unique("X509_new"),
        Check1("X509_set_version"), Check1("RAND_bytes"),
        CheckNull("BN_new", "bn"), Unchecked("BN_bin2bn"),
        Alloc("ASN1_INTEGER_new", "serial"),
        Step("bn_to_asn1", "BN_to_ASN1_INTEGER", "orphan"),
        Check1("X509_set_serialNumber"), Free("serial"), Free("bn")>> \in Seq(Steps)
  BY DEF Unique, Check1, CheckNull, Unchecked, Alloc, Free
<1>2. (IF issuer
       THEN <<Unique("BIO_new_mem_buf"), CheckNull("PEM_read_bio_X509", "icrt"),
              Check1("X509_set_issuer_name")>>
       ELSE <<Check1("X509_set_issuer_name")>>) \in Seq(Steps)
  <2>1. <<Unique("BIO_new_mem_buf"), CheckNull("PEM_read_bio_X509", "icrt"),
          Check1("X509_set_issuer_name")>> \in Seq(Steps)
    BY DEF Unique, Check1, CheckNull
  <2>2. <<Check1("X509_set_issuer_name")>> \in Seq(Steps)
    BY DEF Check1
  <2>. QED BY <2>1, <2>2
<1>3. <<CheckNull("ASN1_TIME_new", "before"), CheckNull("ASN1_TIME_new", "after"),
        Check1("ASN1_TIME_set_string"), Check1("ASN1_TIME_set_string"),
        Unchecked("X509_set1_notBefore"), Unchecked("X509_set1_notAfter"),
        Free("before"), Free("after"),
        Unchecked("X509_set_subject_name"),
        Alloc("X509_REQ_get_pubkey", "req_pubkey"), Unchecked("X509_set_pubkey"),
        Free("req_pubkey")>> \in Seq(Steps)
  BY DEF Check1, CheckNull, Unchecked, Alloc, Free
<1>4. Extension \in Seq(Steps)
  BY DEF Extension, CheckNull, Check1, Free
<1>5. (IF sans THEN Extension ELSE <<>>) \in Seq(Steps)
  BY <1>4
<1>6. SignCsrBuild(issuer, sans) \in Seq(Steps)
  BY <1>1, <1>2, <1>3, <1>4, <1>5 DEF SignCsrBuild
<1>7. SignAndExport \o <<Free("icrt")>> \in Seq(Steps)
  BY DEF SignAndExport, Unique, Check1, Free, CurveId
<1>. QED BY <1>6, <1>7 DEF SignCsrProgram

(* Every constructor and method the model calls is one of MethodNames and  *)
(* runs a well-formed program.                                             *)
LEMMA CallsTyped ==
  \A c \in Constructors \cup Methods :
    c[1] \in MethodNames /\ c[2] \in Seq(Steps)
<1>1. \A c \in Constructors : c[1] \in MethodNames /\ c[2] \in Seq(Steps)
  BY SmallProgramsTyped DEF Constructors, MethodNames
<1>2. \A n \in NameSizes :
        <<"create_csr", CreateCsrProgram(n)>>[2] \in Seq(Steps)
  BY CreateCsrProgramTyped, KeyPairAssumption
<1>3. \A i, s \in BOOLEAN :
        <<"sign_csr", SignCsrProgram(i, s)>>[2] \in Seq(Steps)
  BY SignCsrProgramTyped
<1>4. \A b \in BOOLEAN :
        /\ <<"sign_hash", SignHashProgram(b)>>[2] \in Seq(Steps)
        /\ <<"verify_hash", VerifyHashProgram(b)>>[2] \in Seq(Steps)
  BY SmallProgramsTyped
<1>5. \A c \in Methods : c[1] \in MethodNames /\ c[2] \in Seq(Steps)
  BY SmallProgramsTyped, <1>2, <1>3, <1>4 DEF Methods, MethodNames
<1>. QED BY <1>1, <1>5

-----------------------------------------------------------------------------
(* The error queue: ERR_put_error keeps at most MaxQueue records, and      *)
(* ERR_get_error and the relabelling at a call keep the queue typed.       *)

LEMMA PushTyped ==
  ASSUME NEW q \in Seq(Tags), NEW n \in Nat
  PROVE  Push(q, n) \in Seq(Tags) /\ Len(Push(q, n)) <= MaxQueue
<1>. DEFINE q2 == q \o [i \in 1 .. n |-> "own"]
<1>1. q2 \in Seq(Tags)
  BY DEF Tags
<1>2. CASE Len(q2) <= MaxQueue
  BY <1>1, <1>2 DEF Push
<1>3. CASE ~(Len(q2) <= MaxQueue)
  <2>1. Push(q, n) = SubSeq(q2, Len(q2) - MaxQueue + 1, Len(q2))
    BY <1>3 DEF Push
  <2>2. \A i \in (Len(q2) - MaxQueue + 1) .. Len(q2) : q2[i] \in Tags
    BY <1>1, <1>3, KeyPairAssumption, LenProperties
  <2>3. SubSeq(q2, Len(q2) - MaxQueue + 1, Len(q2)) \in Seq(Tags)
        /\ Len(SubSeq(q2, Len(q2) - MaxQueue + 1, Len(q2))) = MaxQueue
    BY <1>1, <1>3, <2>2, KeyPairAssumption, SubSeqProperties, LenProperties
  <2>4. Push(q, n) \in Seq(Tags) /\ Len(Push(q, n)) = MaxQueue
    BY <2>1, <2>3, Zenon
  <2>. QED BY <2>4, KeyPairAssumption
<1>. QED BY <1>2, <1>3

LEMMA PopTyped ==
  ASSUME NEW q \in Seq(Tags), Len(q) <= MaxQueue
  PROVE  /\ Pop(q) \in Seq(Tags) /\ Len(Pop(q)) <= MaxQueue
         /\ Oldest(q) \in Tags \cup {"none"}
<1>1. CASE q = <<>>
  BY <1>1, EmptySeq DEF Pop, Oldest
<1>2. CASE q # <<>>
  <2>1. Head(q) \in Tags /\ Tail(q) \in Seq(Tags) /\ Len(Tail(q)) = Len(q) - 1
    BY <1>2, HeadTailProperties
  <2>2. Len(q) \in Nat
    BY LenProperties
  <2>3. Pop(q) = Tail(q) /\ Oldest(q) = Head(q)
    BY <1>2 DEF Pop, Oldest
  <2>. QED BY <2>1, <2>2, <2>3, KeyPairAssumption
<1>. QED BY <1>1, <1>2

LEMMA StaleTyped ==
  ASSUME NEW q \in Seq(Tags), Len(q) <= MaxQueue
  PROVE  LET s == [i \in DOMAIN q |-> "stale"]
         IN  s \in Seq(Tags) /\ Len(s) <= MaxQueue
  BY DEF Tags

(* The next call of a running program names a handle, and a real one     *)
(* when it allocates.                                                      *)
LEMMA HeadStepTyped ==
  ASSUME NEW p \in Seq(Steps), p # <<>>
  PROVE  /\ Tail(p) \in Seq(Steps)
         /\ Head(p).h \in Handles \cup {NoHandle}
         /\ Head(p).kind \in AllocKinds => Head(p).h \in Handles
<1>1. Head(p) \in Steps /\ Tail(p) \in Seq(Steps)
  BY HeadTailProperties
<1>. QED BY <1>1 DEF Steps

-----------------------------------------------------------------------------
(* TypeOK is not inductive alone: an OpenSSL call runs only inside a      *)
(* method, so that an exception records the method that threw.           *)
IInv ==
  /\ TypeOK
  /\ op = "idle" => prog = <<>>

(* Ending a method keeps IInv.                                             *)
LEMMA FinishKeeps ==
  ASSUME IInv, op # "idle",
         NEW kind \in {"returned", "threw"}, NEW err \in Tags \cup {"none"},
         NEW q \in Seq(Tags), Len(q) <= MaxQueue, NEW fl \in BOOLEAN,
         Finish(kind, err, q, fl)
  PROVE  IInv'
  BY DEF IInv, TypeOK, Finish

(* Going on to the next call of a running method keeps IInv.              *)
LEMMA ContinueKeeps ==
  ASSUME IInv, prog # <<>>,
         NEW q \in Seq(Tags), Len(q) <= MaxQueue,
         NEW l \in SUBSET Handles, NEW fl \in BOOLEAN,
         Continue(q, l, fl)
  PROVE  IInv'
<1>1. Tail(prog) \in Seq(Steps)
  BY HeadStepTyped DEF IInv, TypeOK
<1>. QED BY <1>1 DEF IInv, TypeOK, Continue

(* A running program has a method to blame.                                *)
LEMMA RunningTyped ==
  ASSUME IInv, NEW kind, Running(kind)
  PROVE  /\ prog # <<>> /\ op # "idle"
         /\ errq \in Seq(Tags) /\ Len(errq) <= MaxQueue
         /\ live \subseteq Handles /\ failed \in BOOLEAN
         /\ Head(prog).h \in Handles \cup {NoHandle}
         /\ Head(prog).kind \in AllocKinds => Head(prog).h \in Handles
  BY HeadStepTyped DEF IInv, TypeOK, Running

(* A failing OpenSSL call pushes 0 .. MaxPush records and keeps the queue  *)
(* typed.                                                                  *)
LEMMA PushPopTyped ==
  ASSUME NEW q \in Seq(Tags), Len(q) <= MaxQueue, NEW n \in 0 .. MaxPush
  PROVE  /\ Push(q, n) \in Seq(Tags) /\ Len(Push(q, n)) <= MaxQueue
         /\ Pop(Push(q, n)) \in Seq(Tags) /\ Len(Pop(Push(q, n))) <= MaxQueue
         /\ Oldest(Push(q, n)) \in Tags \cup {"none"}
         /\ Pop(q) \in Seq(Tags) /\ Len(Pop(q)) <= MaxQueue
<1>1. n \in Nat
  BY KeyPairAssumption
<1>2. Push(q, n) \in Seq(Tags) /\ Len(Push(q, n)) <= MaxQueue
  BY <1>1, PushTyped
<1>. QED BY <1>2, PopTyped

-----------------------------------------------------------------------------
(* Each action keeps IInv.                                                 *)

LEMMA CallKeeps ==
  ASSUME IInv, NEW name \in MethodNames, NEW p \in Seq(Steps), Call(name, p),
         keycurve' \in {"none", "known", "unknown"}
  PROVE  IInv'
<1>1. [i \in DOMAIN errq |-> "stale"] \in Seq(Tags)
      /\ Len([i \in DOMAIN errq |-> "stale"]) <= MaxQueue
  BY StaleTyped DEF IInv, TypeOK
<1>. QED BY <1>1 DEF IInv, TypeOK, Call, MethodNames

LEMMA CallConstructorKeeps ==
  ASSUME IInv, CallConstructor PROVE IInv'
<1>1. PICK c \in Constructors : Call(c[1], c[2]) /\ keycurve' \in KeyCurves(c[1])
  BY DEF CallConstructor
<1>2. c[1] \in MethodNames /\ c[2] \in Seq(Steps)
  BY CallsTyped
<1>3. keycurve' \in {"none", "known", "unknown"}
  BY <1>1 DEF KeyCurves
<1>. QED BY <1>1, <1>2, <1>3, CallKeeps

LEMMA CallMethodKeeps ==
  ASSUME IInv, CallMethod PROVE IInv'
<1>1. PICK m \in Methods : Call(m[1], m[2])
  BY DEF CallMethod
<1>2. m[1] \in MethodNames /\ m[2] \in Seq(Steps)
  BY CallsTyped
<1>3. keycurve' \in {"none", "known", "unknown"}
  BY DEF CallMethod, IInv, TypeOK
<1>. QED BY <1>1, <1>2, <1>3, CallKeeps

LEMMA ReturnKeeps ==
  ASSUME IInv, Return PROVE IInv'
  BY FinishKeeps DEF Return, IInv, TypeOK

LEMMA Check1Keeps ==
  ASSUME IInv, OpenSSLCheck1 PROVE IInv'
<1>1. /\ prog # <<>> /\ op # "idle"
      /\ errq \in Seq(Tags) /\ Len(errq) <= MaxQueue
      /\ live \subseteq Handles /\ failed \in BOOLEAN
  BY RunningTyped DEF OpenSSLCheck1
<1>2. CASE Continue(Pop(errq), live, failed)
  BY <1>1, <1>2, PopTyped, ContinueKeeps
<1>3. CASE \E n \in 0 .. MaxPush :
             LET q == Push(errq, n)
             IN  IF Oldest(q) # "none" THEN Throw(Oldest(q), Pop(q), TRUE)
                 ELSE Continue(Pop(q), live, TRUE)
  <2>1. PICK n \in 0 .. MaxPush :
             IF Oldest(Push(errq, n)) # "none"
             THEN Throw(Oldest(Push(errq, n)), Pop(Push(errq, n)), TRUE)
             ELSE Continue(Pop(Push(errq, n)), live, TRUE)
    BY <1>3
  <2>2. /\ Pop(Push(errq, n)) \in Seq(Tags)
        /\ Len(Pop(Push(errq, n))) <= MaxQueue
        /\ Oldest(Push(errq, n)) \in Tags \cup {"none"}
    BY <1>1, PushPopTyped
  <2>3. CASE Oldest(Push(errq, n)) # "none"
    BY <1>1, <2>1, <2>2, <2>3, FinishKeeps DEF Throw
  <2>4. CASE Oldest(Push(errq, n)) = "none"
    BY <1>1, <2>1, <2>2, <2>4, ContinueKeeps
  <2>. QED BY <2>3, <2>4
<1>. QED BY <1>2, <1>3 DEF OpenSSLCheck1

LEMMA CheckNullKeeps ==
  ASSUME IInv, OpenSSLCheckNull PROVE IInv'
<1>1. /\ prog # <<>> /\ op # "idle"
      /\ errq \in Seq(Tags) /\ Len(errq) <= MaxQueue
      /\ live \subseteq Handles /\ failed \in BOOLEAN
      /\ Head(prog).h \in Handles \cup {NoHandle}
  BY RunningTyped DEF OpenSSLCheckNull
<1>2. CASE Continue(errq, IF Head(prog).h = NoHandle THEN live
                          ELSE live \cup {Head(prog).h}, failed)
  BY <1>1, <1>2, ContinueKeeps
<1>3. CASE \E n \in 0 .. MaxPush : Throw("none", Push(errq, n), TRUE)
  <2>1. PICK n \in 0 .. MaxPush : Throw("none", Push(errq, n), TRUE)
    BY <1>3
  <2>. QED BY <1>1, <2>1, PushPopTyped, FinishKeeps DEF Throw
<1>. QED BY <1>2, <1>3 DEF OpenSSLCheckNull

LEMMA UniqueKeeps ==
  ASSUME IInv, UniqueConstructor PROVE IInv'
<1>1. /\ prog # <<>> /\ op # "idle"
      /\ errq \in Seq(Tags) /\ Len(errq) <= MaxQueue
      /\ live \subseteq Handles /\ failed \in BOOLEAN
  BY RunningTyped DEF UniqueConstructor
<1>2. CASE Continue(errq, live, failed)
  BY <1>1, <1>2, ContinueKeeps
<1>3. CASE \E n \in 0 .. MaxPush : Throw("none", Push(errq, n), TRUE)
  <2>1. PICK n \in 0 .. MaxPush : Throw("none", Push(errq, n), TRUE)
    BY <1>3
  <2>. QED BY <1>1, <2>1, PushPopTyped, FinishKeeps DEF Throw
<1>. QED BY <1>2, <1>3 DEF UniqueConstructor

LEMMA UncheckedCallKeeps ==
  ASSUME IInv, UncheckedCall PROVE IInv'
<1>1. /\ prog # <<>> /\ op # "idle"
      /\ errq \in Seq(Tags) /\ Len(errq) <= MaxQueue
      /\ live \subseteq Handles /\ failed \in BOOLEAN
  BY RunningTyped DEF UncheckedCall
<1>2. CASE Continue(errq, live, failed)
  BY <1>1, <1>2, ContinueKeeps
<1>3. CASE \E n \in 0 .. MaxPush : Continue(Push(errq, n), live, TRUE)
  <2>1. PICK n \in 0 .. MaxPush : Continue(Push(errq, n), live, TRUE)
    BY <1>3
  <2>. QED BY <1>1, <2>1, PushPopTyped, ContinueKeeps
<1>. QED BY <1>2, <1>3 DEF UncheckedCall

LEMMA UncheckedAllocKeeps ==
  ASSUME IInv, UncheckedAlloc PROVE IInv'
<1>1. /\ prog # <<>> /\ op # "idle"
      /\ errq \in Seq(Tags) /\ Len(errq) <= MaxQueue
      /\ live \subseteq Handles /\ failed \in BOOLEAN
      /\ Head(prog).h \in Handles
  BY RunningTyped DEF UncheckedAlloc, Running, AllocKinds
<1>2. CASE Continue(errq, live \cup {Head(prog).h}, failed)
  BY <1>1, <1>2, ContinueKeeps
<1>3. CASE \E n \in 0 .. MaxPush : Continue(Push(errq, n), live, TRUE)
  <2>1. PICK n \in 0 .. MaxPush : Continue(Push(errq, n), live, TRUE)
    BY <1>3
  <2>. QED BY <1>1, <2>1, PushPopTyped, ContinueKeeps
<1>. QED BY <1>2, <1>3 DEF UncheckedAlloc

LEMMA BnToAsn1IntegerKeeps ==
  ASSUME IInv, BnToAsn1Integer PROVE IInv'
<1>1. /\ prog # <<>> /\ op # "idle"
      /\ errq \in Seq(Tags) /\ Len(errq) <= MaxQueue
      /\ live \subseteq Handles /\ failed \in BOOLEAN
      /\ Head(prog).h \in Handles
  BY RunningTyped DEF BnToAsn1Integer, Running, AllocKinds
<1>2. CASE Continue(errq, IF "serial" \in live THEN live
                          ELSE live \cup {Head(prog).h}, failed)
  BY <1>1, <1>2, ContinueKeeps
<1>3. CASE \E n \in 0 .. MaxPush : Continue(Push(errq, n), live, TRUE)
  <2>1. PICK n \in 0 .. MaxPush : Continue(Push(errq, n), live, TRUE)
    BY <1>3
  <2>. QED BY <1>1, <2>1, PushPopTyped, ContinueKeeps
<1>. QED BY <1>2, <1>3 DEF BnToAsn1Integer

LEMMA FreeHandleKeeps ==
  ASSUME IInv, FreeHandle PROVE IInv'
<1>1. /\ prog # <<>> /\ op # "idle"
      /\ errq \in Seq(Tags) /\ Len(errq) <= MaxQueue
      /\ live \subseteq Handles /\ failed \in BOOLEAN
  BY RunningTyped DEF FreeHandle
<1>. QED BY <1>1, ContinueKeeps DEF FreeHandle

LEMMA LtZeroKeeps ==
  ASSUME IInv, LtZeroCheck PROVE IInv'
<1>1. /\ prog # <<>> /\ op # "idle"
      /\ errq \in Seq(Tags) /\ Len(errq) <= MaxQueue
      /\ live \subseteq Handles /\ failed \in BOOLEAN
  BY RunningTyped DEF LtZeroCheck
<1>2. CASE Continue(errq, live, failed)
  BY <1>1, <1>2, ContinueKeeps
<1>3. CASE \E n \in 0 .. MaxPush : Continue(Push(errq, n), live, TRUE)
  <2>1. PICK n \in 0 .. MaxPush : Continue(Push(errq, n), live, TRUE)
    BY <1>3
  <2>. QED BY <1>1, <2>1, PushPopTyped, ContinueKeeps
<1>4. CASE \E n \in 0 .. MaxPush : Throw("none", Push(errq, n), TRUE)
  <2>1. PICK n \in 0 .. MaxPush : Throw("none", Push(errq, n), TRUE)
    BY <1>4
  <2>. QED BY <1>1, <2>1, PushPopTyped, FinishKeeps DEF Throw
<1>. QED BY <1>2, <1>3, <1>4 DEF LtZeroCheck

LEMMA X509SignKeeps ==
  ASSUME IInv, X509SignCheck PROVE IInv'
<1>1. /\ prog # <<>> /\ op # "idle"
      /\ errq \in Seq(Tags) /\ Len(errq) <= MaxQueue
      /\ live \subseteq Handles /\ failed \in BOOLEAN
  BY RunningTyped DEF X509SignCheck
<1>2. CASE Continue(errq, live, failed)
  BY <1>1, <1>2, ContinueKeeps
<1>3. CASE \E n \in 0 .. MaxPush : Throw("none", Push(errq, n), TRUE)
  <2>1. PICK n \in 0 .. MaxPush : Throw("none", Push(errq, n), TRUE)
    BY <1>3
  <2>. QED BY <1>1, <2>1, PushPopTyped, FinishKeeps DEF Throw
<1>. QED BY <1>2, <1>3 DEF X509SignCheck

LEMMA VerifyCallKeeps ==
  ASSUME IInv, VerifyCall PROVE IInv'
<1>1. /\ prog # <<>> /\ op # "idle"
      /\ errq \in Seq(Tags) /\ Len(errq) <= MaxQueue
      /\ live \subseteq Handles /\ failed \in BOOLEAN
  BY RunningTyped DEF VerifyCall
<1>2. CASE Continue(errq, live, failed)
  BY <1>1, <1>2, ContinueKeeps
<1>3. CASE \E n \in 0 .. MaxPush, rcFailed \in BOOLEAN :
             Continue(Pop(Push(errq, n)), live, failed \/ rcFailed)
  <2>1. PICK n \in 0 .. MaxPush, rcFailed \in BOOLEAN :
             Continue(Pop(Push(errq, n)), live, failed \/ rcFailed)
    BY <1>3
  <2>. QED BY <1>1, <2>1, PushPopTyped, ContinueKeeps
<1>. QED BY <1>2, <1>3 DEF VerifyCall

LEMMA GetCurveIdKeeps ==
  ASSUME IInv, GetCurveId PROVE IInv'
<1>1. /\ prog # <<>> /\ op # "idle"
      /\ errq \in Seq(Tags) /\ Len(errq) <= MaxQueue
      /\ live \subseteq Handles /\ failed \in BOOLEAN
  BY RunningTyped DEF GetCurveId
<1>2. CASE Continue(errq, live, failed)
  BY <1>1, <1>2, ContinueKeeps
<1>3. CASE Throw("none", errq, TRUE)
  BY <1>1, <1>3, FinishKeeps DEF Throw
<1>. QED BY <1>2, <1>3 DEF GetCurveId

-----------------------------------------------------------------------------
LEMMA InitIInv == Init => IInv
<1>. SUFFICES ASSUME Init PROVE IInv
  OBVIOUS
<1>1. <<>> \in Seq(Steps) /\ <<>> \in Seq(Tags) /\ Len(<<>>) <= MaxQueue
  BY EmptySeq, KeyPairAssumption
<1>2. NoCall \in [op : MethodNames \cup {"none"}, kind : {"none", "returned", "threw"},
                  err : Tags \cup {"none"}, failed : BOOLEAN, leaked : SUBSET Handles]
  BY DEF NoCall
<1>. QED BY <1>1, <1>2 DEF Init, IInv, TypeOK, MethodNames

LEMMA NextIInv == IInv /\ [Next]_vars => IInv'
<1>. SUFFICES ASSUME IInv, [Next]_vars PROVE IInv'
  OBVIOUS
<1>1. CASE CallConstructor    BY <1>1, CallConstructorKeeps
<1>2. CASE CallMethod         BY <1>2, CallMethodKeeps
<1>3. CASE OpenSSLCheck1      BY <1>3, Check1Keeps
<1>4. CASE OpenSSLCheckNull   BY <1>4, CheckNullKeeps
<1>5. CASE UniqueConstructor  BY <1>5, UniqueKeeps
<1>6. CASE UncheckedCall      BY <1>6, UncheckedCallKeeps
<1>7. CASE UncheckedAlloc     BY <1>7, UncheckedAllocKeeps
<1>8. CASE BnToAsn1Integer    BY <1>8, BnToAsn1IntegerKeeps
<1>9. CASE FreeHandle         BY <1>9, FreeHandleKeeps
<1>10. CASE LtZeroCheck       BY <1>10, LtZeroKeeps
<1>11. CASE X509SignCheck     BY <1>11, X509SignKeeps
<1>12. CASE VerifyCall        BY <1>12, VerifyCallKeeps
<1>13. CASE Return            BY <1>13, ReturnKeeps
<1>14. CASE UNCHANGED vars
  BY <1>14 DEF vars, IInv, TypeOK
<1>15. CASE GetCurveId        BY <1>15, GetCurveIdKeeps
<1>. QED BY <1>1, <1>2, <1>3, <1>4, <1>5, <1>6, <1>7, <1>8, <1>9, <1>10,
            <1>11, <1>12, <1>13, <1>14, <1>15 DEF Next

(* Every reachable state of the key-pair model is well typed: the error   *)
(* queue never holds more than ERR_NUM_ERRORS records, raw handles are     *)
(* the ones sign_csr and create_csr allocate, and the programs are made of *)
(* OpenSSL calls that name the handles they allocate.                      *)
THEOREM TypeCorrect == Spec => []TypeOK
<1>1. IInv => TypeOK
  BY DEF IInv
<1>. QED BY InitIInv, NextIInv, <1>1, PTL DEF Spec

=============================================================================
