----------------------------- MODULE KeyOwnership -----------------------------
(***************************************************************************)
(* Who owns the EVP_PKEY of a key object (src/src/tls/key_pair_openssl.h). *)
(*                                                                         *)
(* PublicKey_OpenSSL holds a raw EVP_PKEY* key and frees it in its         *)
(* destructor when it is not NULL.  KeyPair_OpenSSL derives from it and    *)
(* sets the same member in its constructors.  The move constructor of      *)
(* PublicKey_OpenSSL is defaulted, so it copies the pointer and leaves it  *)
(* in the moved-from object; KeyPair_OpenSSL deletes its copy constructor, *)
(* which leaves it without a move constructor at all.                      *)
(*                                                                         *)
(* An object is a slot that is constructed at most once and destroyed at   *)
(* the end of its scope.  An EVP_PKEY is a number: the i-th one OpenSSL    *)
(* allocates is i, and 0 is NULL.  Each OpenSSL call that produces the key *)
(* may fail.  The other handles of the constructors (Unique_BIO,           *)
(* Unique_EVP_PKEY_CTX) are the business of KeyPairOpenSSL.                *)
(***************************************************************************)
EXTENDS Naturals, FiniteSets

CONSTANTS
  Objects,   \* the key objects of the program (model values)
  MaxKeys    \* bound on the EVP_PKEYs OpenSSL allocates

ASSUME KeyOwnershipAssumption ==
  /\ IsFiniteSet(Objects)
  /\ MaxKeys \in Nat

NULL == 0
Keys == 1 .. MaxKeys

VARIABLES
  state,   \* state[o]: "unborn", "live" or "dead"
  kind,    \* kind[o]: "public" (PublicKey_OpenSSL) or "keypair"
  key,     \* key[o]: the member key, NULL or an EVP_PKEY
  made,    \* the EVP_PKEYs allocated so far are 1 .. made
  frees    \* frees[k]: the calls of EVP_PKEY_free(k)

vars == <<state, kind, key, made, frees>>

Init ==
  /\ state = [o \in Objects |-> "unborn"]
  /\ kind = [o \in Objects |-> "public"]
  /\ key = [o \in Objects |-> NULL]
  /\ made = 0
  /\ frees = [k \in Keys |-> 0]

(* An OpenSSL call returns a new EVP_PKEY, which o's member now holds.     *)
Acquire(o, c) ==
  /\ made < MaxKeys
  /\ made' = made + 1
  /\ key' = [key EXCEPT ![o] = made + 1]
  /\ state' = [state EXCEPT ![o] = "live"]
  /\ kind' = [kind EXCEPT ![o] = c]

(* A constructor throws before its object exists; no destructor runs.     *)
Abort == UNCHANGED <<state, kind, key, made, frees>>

(* PublicKey_OpenSSL(const Pem&): PEM_read_bio_PUBKEY, or "could not parse *)
(* PEM".                                                                    *)
PublicKeyFromPem(o) ==
  /\ state[o] = "unborn"
  /\ \/ Acquire(o, "public") /\ UNCHANGED frees
     \/ Abort

(* PublicKey_OpenSSL(const std::vector<uint8_t>&): d2i_PublicKey, or a    *)
(* throw (of a pointer, throw new std::runtime_error, which is not the     *)
(* ownership of the key and is not represented).                           *)
PublicKeyFromDer(o) ==
  /\ state[o] = "unborn"
  /\ \/ Acquire(o, "public") /\ UNCHANGED frees
     \/ Abort

(* PublicKey_OpenSSL(EVP_PKEY* key): the object takes over a pointer the  *)
(* caller made, or NULL.                                                    *)
PublicKeyFromHandle(o) ==
  /\ state[o] = "unborn"
  /\ \/ Acquire(o, "public")
     \/ /\ state' = [state EXCEPT ![o] = "live"]
        /\ kind' = [kind EXCEPT ![o] = "public"]
        /\ UNCHANGED <<key, made>>
  /\ UNCHANGED frees

(* Mutant: a failing key generation leaves the key to no destructor.      *)
KeyPairFromCurveLeaks(o) ==
  /\ state[o] = "unborn"
  /\ \/ Acquire(o, "keypair") /\ UNCHANGED frees
     \/ /\ made < MaxKeys
        /\ made' = made + 1
        /\ UNCHANGED <<state, kind, key, frees>>

(* KeyPair_OpenSSL(CurveID): key = EVP_PKEY_new(), then the parameter and  *)
(* key generation calls, any of which may throw.  The PublicKey_OpenSSL    *)
(* base is complete by then, so a throw runs its destructor, which frees   *)
(* the key.                                                                 *)
KeyPairFromCurve(o) ==
  /\ state[o] = "unborn"
  /\ \/ Acquire(o, "keypair") /\ UNCHANGED frees
     \/ /\ made < MaxKeys
        /\ made' = made + 1
        /\ frees' = [frees EXCEPT ![made + 1] = @ + 1]
        /\ UNCHANGED <<state, kind, key>>

(* KeyPair_OpenSSL(const Pem&, CBuffer): PEM_read_bio_PrivateKey, or       *)
(* "could not parse PEM" with the key still NULL.                          *)
KeyPairFromPem(o) ==
  /\ state[o] = "unborn"
  /\ \/ Acquire(o, "keypair") /\ UNCHANGED frees
     \/ Abort

(* PublicKey_OpenSSL(PublicKey_OpenSSL&&) = default: the new object copies *)
(* the pointer, and the moved-from one keeps it.                            *)
MoveConstruct(dst, src) ==
  /\ state[dst] = "unborn"
  /\ state[src] = "live"
  /\ kind[src] = "public"
  /\ state' = [state EXCEPT ![dst] = "live"]
  /\ kind' = [kind EXCEPT ![dst] = "public"]
  /\ key' = [key EXCEPT ![dst] = key[src]]
  /\ UNCHANGED <<made, frees>>

(* ~PublicKey_OpenSSL: if (key) EVP_PKEY_free(key).  ~KeyPair_OpenSSL is  *)
(* defaulted and ends in it.                                                *)
Destroy(o) ==
  /\ state[o] = "live"
  /\ state' = [state EXCEPT ![o] = "dead"]
  /\ frees' = IF key[o] # NULL THEN [frees EXCEPT ![key[o]] = @ + 1] ELSE frees
  /\ UNCHANGED <<kind, key, made>>

Next ==
  \E o \in Objects :
    \/ PublicKeyFromPem(o)
    \/ PublicKeyFromDer(o)
    \/ PublicKeyFromHandle(o)
    \/ KeyPairFromCurve(o)
    \/ KeyPairFromPem(o)
    \/ \E src \in Objects \ {o} : MoveConstruct(o, src)
    \/ Destroy(o)

Spec == Init /\ [][Next]_vars

-----------------------------------------------------------------------------
(* Every variable has its type; an object's key is one already allocated. *)
TypeOK ==
  /\ state \in [Objects -> {"unborn", "live", "dead"}]
  /\ kind \in [Objects -> {"public", "keypair"}]
  /\ made \in 0 .. MaxKeys
  /\ key \in [Objects -> 0 .. made]
  /\ frees \in [Keys -> Nat]

(* No EVP_PKEY leaks: every key OpenSSL allocated that no live object      *)
(* holds has been freed, on the success paths of the constructors, on      *)
(* their throws and through the destructors.                                *)
KeysReleased ==
  \A k \in 1 .. made :
    (\A o \in Objects : state[o] = "live" => key[o] # k) => frees[k] >= 1

(* Spec 4.6: a key object exclusively owns its key, released on           *)
(* destruction: EVP_PKEY_free is never called twice on one EVP_PKEY.       *)
FreedAtMostOnce == \A k \in Keys : frees[k] <= 1

=============================================================================
