# TLA+ models of CCF's HTTP request signing, OpenSSL key pairs and host ring-buffer pump

This directory holds TLA+ models of three source files of the repository. There are TLC
configurations that check the models on small instances, and TLAPS proofs of the
results that hold for every value of the constants.

| Source | What it does |
|---|---|
| `src/src/http/http_sig.h` | `sign_request` signs an HTTP request (HTTP Signatures draft-cavage-12). `HttpSignatureVerifier::parse` checks the digest, parses the `Authorization: Signature ...` header and rebuilds the signed string. |
| `src/src/tls/key_pair_openssl.h` | `PublicKey_OpenSSL` and `KeyPair_OpenSSL` cover key generation, signing, verification, CSR creation and certificate issuance on OpenSSL. All OpenSSL errors pass through `OPENSSL_CHECK1` and `OPENSSL_CHECKNULL`. |
| `src/src/host/handle_ring_buffer.h` | `HandleRingbufferImpl::every` runs on each host event-loop turn. It drains the enclave's outbound ring buffer in batches of 128, then flushes pending inbound messages. |

## 1. Survey

### Components and how they interact

1. **Signer** (`sign_request`, `add_digest_header`, `construct_raw_signed_string`).
   - It takes a request and a list of header names.
   - It rewrites `digest` to `SHA-256=b64(sha256(body))`.
   - It builds the string `name: value` joined with `\n`. The pseudo-header `(request-target)` has the value `lower(verb) path[?query]`.
   - It has the key pair sign that string.
   - It sets `Authorization` to `Signature keyId="ignored",algorithm="ecdsa-sha256",headers="...",signature="..."`.
   - If a listed header is missing, it throws.
2. **Verifier** (`HttpSignatureVerifier::parse`).
   - No Authorization header, or a scheme other than `Signature`, means "unsigned".
   - A digest that is missing, malformed, not SHA-256, or not the body's hash throws.
   - It splits the parameters on `,`. A token without `=`, an unbalanced quote or an algorithm other than `ecdsa-sha256` throws.
   - `headers=` values accumulate. The last `signature=` wins.
   - The headers in `http::required_signature_headers` must be covered.
   - It rebuilds the signed string from the received request in the order the client declared.
   - The caller checks the signature with the client's `PublicKey_OpenSSL::verify`.
3. **Key pair on OpenSSL** (`KeyPair_OpenSSL`, `PublicKey_OpenSSL`).
   - Its state is a raw `EVP_PKEY*` owned by the object, plus OpenSSL's per-thread error queue.
   - Every method is a fixed sequence of OpenSSL calls. Some are checked by `OPENSSL_CHECK1`, which pops one error and throws only if `rc != 1` and the popped code is non-zero. Some are checked by `OPENSSL_CHECKNULL`, which throws on NULL without popping. Some are checked by `< 0` tests, and some are not checked at all.
   - Raw handles (`X509_NAME*`, `BIGNUM*`, `ASN1_INTEGER*`, `ASN1_TIME*`, `X509*` issuer, `X509_EXTENSION*`) are freed by hand. A throw between an allocation and its free leaks the handle.
   - Other handles are `Unique_*` RAII wrappers.
4. **Certificate authority** (`create_csr`, `sign_csr`). These are the longest OpenSSL call sequences, with branches on the issuer certificate, the subject alternative names and the presence of the key.
5. **Host ring-buffer pump** (`HandleRingbufferImpl`).
   - The enclave thread writes messages into the outbound ring concurrently with the host.
   - On each loop turn the host reads batches of up to 128 until a read returns 0, then flushes inbound messages that host components queued without blocking.
   - A `fatal_error_msg` handler throws out of `every()`.

The signer and the verifier interact through the wire. The key pair is the signing
oracle between them. The ring-buffer pump is independent of the other two.

### Hazards (listed with their lines in PROJECT.json "hazards")

- **Signing order.** The digest is refreshed before the string is signed. The string is built before `Authorization` is overwritten, so a stale Authorization value is signed.
- **Verifier parsing.** Accumulated `headers=` parameters, the last `signature=` winning, and `v.front()` on an empty value (undefined behaviour).
- **Request-target ambiguity.** The line `path?query` does not bind where the query starts.
- **Replay.** There is no freshness check.
- **OpenSSL error queue.**
  - `OPENSSL_CHECK1` swallows a failure whose error queue is empty.
  - It pops one error only, and `verify_hash` pops one. Errors stay in the per-thread queue and are reported by a later, unrelated call.
  - `OPENSSL_CHECKNULL` and the `Unique_*` constructors throw without draining the queue.
  - The key-generation constructor tests `< 0`, so it misses a return of 0.
- **Handle leaks.** `sign_csr` leaks `icrt`, `bn`, `serial`, the validity times and the extensions when it throws between allocation and free. `create_csr` leaks `subj_name`.
- **Unchecked calls.** `X509_set_subject_name`, `X509_set_pubkey` and `X509_set1_notBefore/After` are not checked. A partial certificate can be returned.
- **Other key-pair hazards.**
  - The defaulted move constructor of `PublicKey_OpenSSL` copies the raw key pointer, so there is a double free.
  - The DER constructor throws a pointer (`throw new`).
  - `parse_name` dereferences NULL on an entry without `=`.
  - `sign_csr` signs with the curve's digest, whereas the spec says SHA-512 regardless of curve.
- **Ring-buffer pump.**
  - If the enclave writes at least as fast as the host reads, the drain loop never ends and the inbound flush starves.
  - A fatal-error message throws and skips the flush.

## 2. Plan

| Module | Models | Composes | Status |
|---|---|---|---|
| `HttpSig` | signer, verifier, an attacker on the wire, replays | uses the key pair as an ideal signing oracle | done |
| `MC_HttpSig` | TLC instance of `HttpSig` | | done |
| `HttpSigProofs` | TLAPS proofs about `HttpSig` | extends `HttpSig` | TypeOK proved |
| `HttpSigSafetyProofs` | TLAPS proofs of the two safety properties of `HttpSig` | extends `HttpSigProofs` | `Authenticity`, `Completeness` proved |
| `KeyPairOpenSSL` | OpenSSL call sequences of every `KeyPair_OpenSSL` method, the per-thread error queue, raw handle ownership | | done |
| `MC_KeyPairOpenSSL` | TLC instance of `KeyPairOpenSSL` | | done |
| `KeyPairOpenSSLProofs` | TLAPS proofs about `KeyPairOpenSSL` | extends `KeyPairOpenSSL` | `TypeOK` proved |
| `KeyPairLeakProofs` | TLAPS proof that clean calls free every raw handle | extends `KeyPairOpenSSLProofs` | `CleanCallReleasesAll` proved |
| `HandleRingbuffer` | the enclave writer, the host's `every()` loop, the inbound flush, fatal errors | | done |
| `HandleRingbufferProofs` | TLAPS proofs about `HandleRingbuffer` | extends `HandleRingbuffer` | `TypeOK` proved |
| `MC_HandleRingbuffer` | TLC instance of `HandleRingbuffer` | | done |
| `Pump` | what the pump promises: FIFO handling, nothing after a fatal error, eventual handling and flush | refined by `HandleRingbuffer` (`Abstract == INSTANCE Pump WITH ...`) | done, safety half proved |
| `AuthParams`, `MC_AuthParams` | `parse_delimited_string` and `parse_signature_params` on characters, against the record reading of `HttpSig` | checks the data abstraction of `HttpSig` | done (TLC only: recursive) |
| `KeyOwnership`, `MC_KeyOwnership` | the `EVP_PKEY` member over object lifetimes: every constructor, the move constructor, the destructor | complements `KeyPairOpenSSL` | done |
| `KeyOwnershipProofs` | TLAPS proofs about `KeyOwnership` | extends `KeyOwnership` | `KeysReleased` proved |

Later sittings:
- a model of several threads sharing one `KeyPair_OpenSSL`, each with its own error queue;
- `parse_name` on characters, in the style of `AuthParams`.

## 3. The `HttpSig` model

### State

| Variable | Meaning |
|---|---|
| `wire` | the request in flight, or `NoReq` |
| `log` | ghost: for each `sign_request` call that returned, the request as signed (after `add_digest_header`) and the header list |
| `origin` | ghost: which log entry the request in flight came from, and whether the attacker edited it |
| `tampers` | the number of attacker edits of the request in flight (bounded by `MaxTamper`) |
| `verdict` | ghost: the outcome of the last `parse` and signature check, with the request, signed headers and rebuilt string |
| `lastSign` | ghost: whether the last `sign_request` returned or threw |

### Actions

| Action | Code |
|---|---|
| `SignRequest(cr, L)` | all of `sign_request`: `add_digest_header`, `construct_raw_signed_string`, `kp->sign`, `set_header(AUTHORIZATION, ...)`. The client then sends the request. |
| `SignRequestThrows(cr, L)` | the `nullopt` path that throws at lines 111-114 |
| `Replay(i)` | the network delivers an earlier signed request again |
| `TamperRequestLine`, `TamperHeaders`, `TamperAuthorization` | the attacker edits the request in flight: the verb, path, query or body; any header; splicing in another request's Authorization header; the Authorization scheme; overwriting, appending or dropping parameters, with a wrong algorithm, malformed tokens, any header list or any signature it has seen |
| `Verify` | `parse` followed by the signature check. The outcomes are Unsigned, DigestMismatch, MalformedParams, MissingRequired, MissingSigned, SignatureMismatch and Verified, one per early return or throw of `parse`, in the code's order. |

### Data abstraction

- **Hash.** SHA-256 is an injective function.
- **Signatures** are ideal. The signature on the i-th call is the number i, and it verifies only against the string signed in that call.
- **The signed string** is kept as its sequence of entries. The `\n` join is injective, because header names hold no `:` and values no newline. The request-target value keeps its token structure (`lower(verb)`, ` `, path, `?`, query), so that the model still shows what the concatenation loses.
- **The Authorization header** is kept as its parsed scheme and parameter records. Malformed tokens are marker keys.

### Runs

| Run | cfg | Checks | Result |
|---|---|---|---|
| `http_sig` | `MC_HttpSig.cfg` | `TypeOK`, `Authenticity`, `Completeness` | pass (about 260k states) |
| `http_sig_path_query` | `MC_HttpSig_PathQuery.cfg` | `Authenticity`, with a path that contains `?` | violation (finding) |
| `http_sig_resign` | `MC_HttpSig_Resign.cfg` | `Completeness`, when the client re-signs a request that carries an Authorization header it lists | violation (finding) |

- **`Authenticity`.** A verified request agrees with some request the client signed on its verb, path, query and body, and on the value of every header the signature names.
- **`Completeness`.** An unedited request signed over a list that covers the required headers verifies, and the verifier rebuilds exactly the signed string.

**Bounds.**
- There are two signings, so the attacker has a second signature to splice in, and up to two edits per request. Two edits are the fewest with which an edit can be undone, or a parameter changed and then the digest fixed.
- There are two verbs, two paths, two queries (empty and not), two bodies, two plain headers with two values, three client header lists and three attacker header lists.
- The two client requests carry a stale digest or none.

With these, every verdict kind is reached, both after edits and without them.

**Fairness.** There is none. The properties are all safety properties, and nothing in the code forces a request to be delivered.

### Proofs (`HttpSigProofs`)

`THEOREM TypeCorrect == Spec => []TypeOK` is proved for all constants satisfying `ConstantsAssumption` and `ClientRequestsAssumption`.

- TypeOK is inductive as it stands.
- The proof has one lemma per action. They rest on typing lemmas for `SetHeader` per kind of header, `AddDigestHeader`, `AuthValue`, the attacker's parameters and Authorization edits, and `SentReq`.
- `ParseKind` shows that `Parse` always ends in one of the seven outcomes.

### Proofs of `Authenticity` and `Completeness` (`HttpSigSafetyProofs`)

Both properties are proved for every value of the constants that satisfies the module's conditions:

- `TargetUnambiguous`: lower-casing keeps the verbs apart, and no path holds a `?`. Without it two requests share a request target; the run `http_sig_path_query` shows the forgery.
- `RequiredFloor`: the required headers include `(request-target)` and `digest` (spec 5, "minimally").
- `AuthNotSigned`: the client does not list `authorization` among its signed headers. `sign_request` overwrites that header after it built the signed string; the run `http_sig_resign` shows the violation when it does.
- `AbsentIsNoValue`: no header value is the model's `Absent` marker. This is a fact about the model's data, not about the code.

The instance of `MC_HttpSig.cfg` satisfies all four, so the runs and the theorems speak of the same system.

- **`AuthenticityHolds == Spec => []Authenticity`**, from `TargetUnambiguous`, `RequiredFloor` and `AuthNotSigned`.
  - The inductive invariant is `AuthInv == LogDigest /\ Authenticity`. `LogDigest` says that every logged request carries the digest `add_digest_header` wrote from its body. `Authenticity` alone is not inductive, because a verification compares the digest with the body of the request that was signed.
  - The argument for an accepted request r: its signature is the client's k-th one, so the string rebuilt from r equals `Signed[k]` (`RawEqual`). The request-target entry of that string then fixes the verb, path and query (`TargetValueInjective`, which needs `TargetUnambiguous`). The digest entry fixes the body, since `Sha256` is injective. Every other entry fixes the header's value, since no signed header is the one `sign_request` overwrites (`AuthNotSigned`).
- **`CompletenessHolds == Spec => []Completeness`**, from `RequiredFloor`, `AuthNotSigned` and `AbsentIsNoValue`.
  - The inductive invariant is `CompInv == LogDigest /\ LogSigned /\ WireOK /\ Completeness`. `LogSigned` says that every logged request carries each header its list signs. `WireOK` says that the request in flight comes from a logged call, and that it is that call's request while the attacker has not edited it.
  - The argument: `parse` reads back the list and the signature `sign_request` wrote (`SignedHeadersOfAuthValue`, `SignatureOfAuthValue`), and then rebuilds the same string (`SentIsVerified`).

## 4. The `KeyPairOpenSSL` model

### State and actions

| Variable | Meaning |
|---|---|
| `obj` | whether a constructor has returned a key pair |
| `op`, `prog` | the method running, and the OpenSSL calls it still has to make |
| `errq` | the thread's OpenSSL error queue, oldest first. Each record is `"own"` if the running method pushed it, or `"stale"` if an earlier method did. |
| `live` | the raw handles the running method holds and must free by hand |
| `failed`, `last` | ghost: whether a call of the running method failed; how the last method ended, what error it reported, and which handles it leaked |
| `keycurve` | the curve of the object's key: `"known"` (P-256 or P-384), `"unknown"` (any other curve), `"none"` before a constructor ran |

- **Methods as programs.** Each method is a constant *program*: its OpenSSL calls in source order, each tagged with how the code checks it. The programs are `KeyGenProgram`, `PemKeyProgram`, `PublicKeyPemProgram`, `PrivateKeyPemProgram`, `SignHashProgram(lookup)`, `VerifyHashProgram(lookup)`, `CreateCsrProgram(n)` and `SignCsrProgram(issuer, sans)`. `lookup` says whether the caller passed no digest type, which makes `sign` and `verify_hash` call `get_curve_id` first. `sign_csr` always calls it, just before `X509_sign` (610), while it still holds the issuer certificate.
- **Calls and returns.** `CallConstructor` and `CallMethod` start a program. Every earlier record on the queue becomes stale. The key-generation constructor makes a key on a known curve, because `get_openssl_group_id` (279-292) only yields P-256 and P-384. The PEM constructor may read a key on any curve. `Return` ends the program after its last call.
- **One action per way of checking.** Each such action runs the next call, which may fail and push 0 to `MaxPush` records.
  - `OpenSSLCheck1` pops one record, and throws only when the call failed and the popped record is not 0.
  - `OpenSSLCheckNull` and `UniqueConstructor` throw on NULL without reading the queue.
  - `LtZeroCheck` throws on a negative return and goes on after a return of 0.
  - `X509SignCheck` handles the signing step.
  - `VerifyCall` pops one record on failure and returns `false`.
  - `UncheckedCall` and `UncheckedAlloc` go on whatever happens.
  - `BnToAsn1Integer` allocates an orphan integer when it is given a NULL serial.
  - `FreeHandle` frees a handle.
  - `GetCurveId` is `get_curve_id` (191-206): it goes on for a key on a known curve and throws `"Unknown OpenSSL curve"` for any other, reading no record and pushing none.
- **A throw** ends the method. Raw handles still held are recorded as leaked.

### Runs

| Run | Checks | Result |
|---|---|---|
| `keypair` | `TypeOK`, `CleanCallReleasesAll` | pass (81k states) |
| `keypair_leak_on_throw` | `NoLeakOnThrow` (spec 5) | violation: `create_csr` leaks `subj_name` when `X509_NAME_add_entry_by_txt` fails |
| `keypair_silent_failure` | `NoSilentFailure` (spec 4.7, 7) | violation: the key-generation constructor returns after a call returned 0 |
| `keypair_stale_error` | `ReportedErrorIsOwn` (spec 9) | violation: a call throws from a `Unique_*` wrapper and leaves its record queued; a later call's failing `OPENSSL_CHECK1` reports that record |

- **`CleanCallReleasesAll`.** When no call fails, every raw handle is freed, including the issuer certificate.
- **`keypair_stale_error`.** Every shortest trace has the same shape. A first call throws from a `Unique_*` wrapper whose allocation pushed a record, and that record stays queued. A later call's `OPENSSL_CHECK1` fails, pops the oldest record and reports it, though its own record is behind it. Which calls play the two parts depends on TLC's search order. One run shows `public_key_pem` failing in `BIO_new`, followed by a second `public_key_pem` failing in `PEM_write_bio_PUBKEY`. Another shows `KeyPair_OpenSSL(CurveID)` failing in `EVP_PKEY_CTX_new_id`, then the PEM constructor returning and a method's check failing.
- **`keypair_leak_on_throw`.** The shortest trace is the `create_csr` leak. The model also has the `sign_csr` leaks of `bn`, `serial`, the times, the extensions and the issuer certificate, including a throw from `get_curve_id` (610) for a PEM key on another curve, which leaks `icrt`.

**Bounds.**
- The error ring holds 2 records, and a failing call pushes up to 2. This is enough to overflow the ring and to leave records behind.
- Subject names have 1 entry.
- `sign_csr` is run with and without an issuer certificate and with and without SANs.
- Every method is called any number of times.

### Proofs (`KeyPairOpenSSLProofs`)

The results hold for every `MaxQueue > 0`, every `MaxPush` and every set of name sizes.

- **`TypeCorrect == Spec => []TypeOK`.**

It follows from the inductive invariant `IInv`. It is `TypeOK` plus "an idle object runs no program".

- **Why the strengthening.** The second conjunct is needed because an exception records the running method in `last.op`, which must be a method name. The model's type `Steps` says that an allocating call names a real handle. Without it, `UncheckedAlloc` could add `NoHandle` to `live`.
- **Lemmas on the programs.** Each program is a sequence of such calls.
- **Lemmas on the queue.** `Push` keeps the queue within `MaxQueue`, through `SubSeq`. `Pop` and `Oldest` keep it typed, and so does the relabelling at a call.
- **Action lemmas.** Each action keeps `IInv`, through two lemmas: `FinishKeeps` for a return or a throw, and `ContinueKeeps` for going on to the next call.

- **`CleanCallReleasesAllHolds == Spec => []CleanCallReleasesAll`** (`KeyPairLeakProofs`): a method whose OpenSSL calls all succeeded returns holding no raw handle. The inductive invariant is `LInv == IInv /\ LeakInv /\ CleanCallReleasesAll`. `LeakInv` says that while no call of the running method has failed, three things hold:
  - every allocation still to come in `prog` is followed by a free of its handle (`BalancedBut(prog, {})`);
  - `BN_to_ASN1_INTEGER` comes right after the allocation of `serial`, or finds it held (`SerialReady`), so it never allocates the orphan integer;
  - every handle in `live` is freed by a call still to come (`FreesAll`).

  A return with `prog = <<>>` therefore holds nothing. `CleanCallReleasesAll` alone is not inductive, because it says nothing about a method halfway through its program. The program lemmas build each program from parts: `ConcatClean` composes the parts, with the issuer certificate left to the final free of `sign_csr`. `create_csr` is covered for every number of name entries.

**Not represented.** The digests are not represented. The spec says `create_csr` uses the curve's digest and `sign_csr` uses SHA-512. The code does the reverse: `create_csr` signs with `EVP_sha512()` and `sign_csr` with the curve's digest. The bytes of keys, certificates and signatures are not represented either.

## 5. The `HandleRingbuffer` model

| Variable | Meaning |
|---|---|
| `outq` | the outbound ring, as message kinds (`log_msg`, `fatal_error_msg`) |
| `budget` | the writes the enclave still makes, or `Unbounded` |
| `pc` | where the host is: between loop turns, calling `read_n`, dispatching a batch, flushing, or stopped by a fatal error |
| `left` | the messages of the current batch still to dispatch |
| `pending` | inbound messages queued on non-blocking writers |

- **The enclave.** `EnclaveWrite` is the enclave thread; it writes while the ring has room.
- **Other host callbacks.** `QueueInbound` is another uv callback on the host thread, so it runs only between turns.
- **`every()`.** It is `StartEvery`, then `ReadN` (a batch of `min(len, max_messages)` messages, or the exit from the loop on 0), then `Dispatch` once per message, then `FlushAllInbound`.
- **Fatal errors.** The `fatal_error_msg` handler throws out of `every()`, which stops the host.

**Fairness.** The host's four steps are weakly fair. The uv loop calls `every()` on each iteration, and `every()` runs on the host thread until it returns or throws. The enclave and the other callbacks get no fairness.

| Run | Checks | Result |
|---|---|---|
| `ringbuffer` | `TypeOK`, `InboundFlushed`, `RingDrained`, `ImplementsPump`, with batches of 2, a ring of 3 and an enclave that writes 5 messages | pass |
| `ringbuffer_busy_enclave` | `InboundFlushed`, with an enclave that never stops writing and batches of 1 | violation (finding) |

- **The violation.** If the enclave writes one message during each batch, `read_n` never returns 0. The inbound flush that the comment of `every()` promises for each loop iteration never happens.
- **The passing run.** When the enclave eventually stops, both liveness properties hold. The drain loop terminates, and nothing else delays the flush.
- **Proved for all constants** (`HandleRingbufferProofs`): `TypeCorrect == Spec => []TypeOK`. The ring stays within capacity. The batch being dispatched never counts more messages than the ring holds, under every interleaving of enclave writes and the drain loop, so `Dispatch` always finds a message. `TypeOK` is inductive as it stands. The liveness properties are only model-checked: TLAPS does not handle fairness or `ENABLED`.
- **Deadlock checking** is off in both runs. The only terminal states are those after a fatal error, when the host has thrown out of `every()` and stopped.

### Refinement of `Pump`

`Pump` is the pump without its loop.
- **State.** `ring` holds the messages not yet handled, `pending` the queued inbound messages, and `stopped` says whether the host has ended.
- **Actions.** `Write` (the enclave; it does not know whether the host still runs), `Queue`, `Deliver` (the oldest message; a fatal one sets `stopped`) and `Flush`.
- **Fairness.** Weak fairness on `Deliver` and `Flush`: while the host runs, every message is handled and every queued inbound message is flushed.

`HandleRingbuffer` defines the mapping `Abstract == INSTANCE Pump WITH ring <- outq, stopped <- (pc = "stopped")`; `pending` and the constants map by name.
- Under the mapping, `StartEvery` and `ReadN` are stutters, `Dispatch` is `Deliver`, and the other actions map to the actions of the same name.
- The run `ringbuffer` checks `ImplementsPump == Abstract!Spec`, fairness included.
- The mutant `DispatchFatalReturns` is a fatal handler that logs and returns instead of throwing. Under it, TLC finds a `Deliver` of a fatal message after which the host goes on, which `Pump` forbids.
- In the busy-enclave instance the fairness of `Flush` fails, for the reason `ringbuffer_busy_enclave` shows.

**Proved** (`HandleRingbufferProofs`): `THEOREM Refinement == Spec => Abstract!SafeSpec`.
- `InitRefines` shows that initial states map to initial states.
- `NextRefines` shows that each step maps to a `Pump` step or a stutter. It is proved from `TypeOK`, which `TypeCorrect` establishes.
- `TypeOK` is needed for `Dispatch`: `left > 0` and `left <= Len(outq)` give a non-empty ring for `Deliver`.
- The fairness half is model-checked only.

## 6. The `AuthParams` model (character-level Authorization parsing)

`HttpSig` reads the Authorization value as a sequence of parameter records. `AuthParams` checks that reading against the code.
- **Inputs.** It enumerates every parameter string of up to 6 characters over `a h s e = , " ␠`, which is 299,593 strings. The letters stand for the key literals `algorithm`, `headers` and `signature` and for the value `ecdsa-sha256`.
- **Code loops.** On each string it runs the code's loops, translated line by line:
  - `ParseDelimitedString` is the `find`/`substr` loop with `last_string`. It is a `RECURSIVE` operator, so the module is TLC-only.
  - `ParamStep` is one iteration of the loop of `parse_signature_params`, with its early returns.
  - `ParseSignatureParams` folds `ParamStep` over the tokens.
- **Undefined reads.** `v.front()` and `v.back()` on an empty `v` are undefined. Each is modelled as any Boolean (`QuoteAt`), which is what a build that reads the neighbouring byte can produce. So a parse yields a set of results.
- **Reference definitions.** `Split` (tokens between the delimiter positions), `Param` and `Reading` restate `HttpSig`'s `BadParam`, `ParamSignature` and `ParamSignedHeaders` on characters.

| Run | Checks | Result |
|---|---|---|
| `auth_params` | `ParsedAsModelled`: the parse has exactly one result whatever the undefined reads return, and it equals `Reading` | pass (599,186 states) |

- **Why the undefined behaviour is harmless for the result.** The `size() >= 2` test makes the result independent of the undefined reads of an empty value. The reads themselves remain undefined behaviour for `k=`. A hardened standard library turns them into an abort.
- **The empty-list check is dead.** `parse_delimited_string` never returns an empty vector, so the `size() == 0` check of `headers=` never fires. `h=` and `h=""` are accepted with one empty header name, whereas spec 4.4 says an empty list is malformed. The request is still rejected, because the required headers are missing. `ParsedAsModelled` pins this behaviour, and `HttpSig`'s assumption that attacker lists are non-empty is the code's behaviour, not a restriction.
- **The mutant** `ParseDelimitedStringKeepsDelimiter` takes `substr(0, next_delimiter + 1)`, and `ParsedAsModelled` catches it.
- **The bound.** Six characters hold every token shape: no `=`, an empty key, an empty value, a lone quote, a quoted value, two tokens and a two-name list. Seven characters exceed TLC's limit on the size of an enumerated set.

## 7. The `KeyOwnership` model (the `EVP_PKEY` member over object lifetimes)

- **Slots and keys.** Objects are slots that are constructed at most once and destroyed at the end of their scope. The i-th `EVP_PKEY` OpenSSL allocates is the number i, and 0 is `NULL`.
- **State.** `state`, `kind`, `key`, `made` (the keys allocated so far) and `frees` (the `EVP_PKEY_free` calls per key).
- **Actions.**
  - `PublicKeyFromPem`, `PublicKeyFromDer` and `PublicKeyFromHandle` (the handle may be `NULL`).
  - `KeyPairFromCurve`: a throw after `EVP_PKEY_new` runs the destructor of the complete `PublicKey_OpenSSL` base, which frees the key.
  - `KeyPairFromPem`.
  - `MoveConstruct`: the defaulted move copies the pointer and leaves it in the source. `KeyPair_OpenSSL` deletes its copy constructor, which leaves it with no move constructor, so only a `PublicKey_OpenSSL` moves.
  - `Destroy`: `if (key) EVP_PKEY_free(key)`.

| Run | Checks | Result |
|---|---|---|
| `key_ownership` | `KeysReleased`: every allocated key no live object holds has been freed. Three objects, three keys, symmetry over the objects | pass |
| `key_ownership_double_free` | `FreedAtMostOnce`: spec 4.6 says a key object exclusively owns its key | violation: PEM construct, move, two destructors (finding) |

- **Proved** (`KeyOwnershipProofs`): `THEOREM NoKeyLeak == Spec => []KeysReleased`, for every set of objects and every bound on the keys.
  - The inductive invariant is `TypeOK /\ KeysReleased`.
  - `TypeOK` adds that an object's key is one already allocated (`key \in [Objects -> 0 .. made]`). This is what makes a new key held by nobody else.
  - There is one lemma per constructor kind, plus `MoveKeeps` and `DestroyKeeps`.
- **Not represented:** what a constructor throws. The DER constructor throws a pointer (`throw new std::runtime_error`), which a catch of `std::exception` misses and which leaks. It is listed as a hazard.
- **Deadlock checking** is off: the program ends when every object is destroyed.
- **The mutant** `KeyPairFromCurveLeaks` drops the base destructor's free on a throw, and `KeysReleased` catches it.

## 8. What only TLC checks

- The liveness properties of `HandleRingbuffer`, and the fairness half of its refinement of `Pump`. TLAPS does not handle fairness or `ENABLED`.
- `ParsedAsModelled` of `AuthParams`. The parser is written with `RECURSIVE` operators over character sequences, which the prover's SMT backend cannot handle. Proving what it computes for every input would also need induction over the data.
- Every property of the violation runs. Each of these runs exhibits a counterexample.

## 9. Not modelled (yet)

- The byte-level text of headers: base64 and the `\n` join are abstracted as described above. The parameter splitting and the quote stripping are checked on characters in `AuthParams`.
- `SigningDetails`, logging and error message wording.
- The hash provider (`OpenSSLHashProvider`), which lives outside these files.
- `get_md_type` and `get_md_for_ec`: pure switches over the digest, which only choose arguments of the calls modelled. `get_curve_id` is modelled, as `GetCurveId`. On a PEM key that is not an EC key, `EVP_PKEY_get0_EC_KEY` returns NULL, and `EC_KEY_get0_group` is then called on NULL. That is not modelled: PEM keys are EC keys on a known or an unknown curve.
- `KeyPair_OpenSSL::parse_name`, which dereferences NULL on an entry without `=`.
- `parse_delimited_string` writes the last token back into its `std::string_view&` argument. `parse` does not read `authz_header` after the call, so it is not modelled.
- `EVP_PKEY_new` returning `NULL` in `KeyPair_OpenSSL(CurveID)`. `EVP_PKEY_keygen` then allocates the key itself, which `KeyPairFromCurve` covers.
- Concurrent use of one key pair by several threads. Each thread has its own OpenSSL error queue.
- The ring buffer's byte layout and the dispatcher. `every()` relies only on their FIFO order and batch limit.
