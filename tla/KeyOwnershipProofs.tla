-------------------------- MODULE KeyOwnershipProofs --------------------------
(***************************************************************************)
(* Proofs about the ownership of the EVP_PKEY of key objects, for every    *)
(* set of objects and every bound on the keys.                             *)
(***************************************************************************)
EXTENDS KeyOwnership, TLAPS

(* KeysReleased is inductive once the keys objects hold are known to be    *)
(* allocated ones (TypeOK), so that a new key is held by nobody else.      *)
IInv == TypeOK /\ KeysReleased

LEMMA InitIInv == Init => IInv
  BY KeyOwnershipAssumption DEF Init, IInv, TypeOK, KeysReleased, Keys, NULL

(* A constructor that stores a new EVP_PKEY in an unborn object.           *)
LEMMA AcquireKeeps ==
  ASSUME IInv, NEW o \in Objects, NEW c \in {"public", "keypair"},
         state[o] = "unborn", Acquire(o, c), UNCHANGED frees
  PROVE  IInv'
<1>1. TypeOK'
  BY KeyOwnershipAssumption DEF Acquire, IInv, TypeOK
<1>2. ASSUME NEW k \in 1 .. made',
             \A p \in Objects : state'[p] = "live" => key'[p] # k
      PROVE  frees'[k] >= 1
  <2>1. k # made + 1
    BY <1>2, KeyOwnershipAssumption DEF Acquire, IInv, TypeOK
  <2>2. k \in 1 .. made
    BY <2>1 DEF Acquire, IInv, TypeOK
  <2>3. \A p \in Objects : state[p] = "live" => key[p] # k
    BY <1>2 DEF Acquire, IInv, TypeOK
  <2>. QED BY <2>2, <2>3 DEF IInv, KeysReleased
<1>. QED BY <1>1, <1>2 DEF IInv, KeysReleased

(* A constructor that throws with nothing allocated.                       *)
LEMMA AbortKeeps ==
  ASSUME IInv, Abort PROVE IInv'
  BY DEF Abort, IInv, TypeOK, KeysReleased

LEMMA FromHandleKeeps ==
  ASSUME IInv, NEW o \in Objects, PublicKeyFromHandle(o) PROVE IInv'
<1>1. CASE Acquire(o, "public")
  BY <1>1, AcquireKeeps DEF PublicKeyFromHandle
<1>2. CASE /\ state' = [state EXCEPT ![o] = "live"]
           /\ kind' = [kind EXCEPT ![o] = "public"]
           /\ UNCHANGED <<key, made>>
  <2>1. TypeOK'
    BY <1>2 DEF PublicKeyFromHandle, IInv, TypeOK
  <2>2. KeysReleased'
    \* the new object holds NULL, which is no key
    BY <1>2 DEF PublicKeyFromHandle, IInv, TypeOK, KeysReleased, NULL
  <2>. QED BY <2>1, <2>2 DEF IInv
<1>. QED BY <1>1, <1>2 DEF PublicKeyFromHandle

(* A failing key generation frees the key it allocated, through the       *)
(* destructor of the complete PublicKey_OpenSSL base.                      *)
LEMMA FromCurveKeeps ==
  ASSUME IInv, NEW o \in Objects, KeyPairFromCurve(o) PROVE IInv'
<1>1. CASE Acquire(o, "keypair") /\ UNCHANGED frees
  BY <1>1, AcquireKeeps DEF KeyPairFromCurve
<1>2. CASE /\ made < MaxKeys
           /\ made' = made + 1
           /\ frees' = [frees EXCEPT ![made + 1] = @ + 1]
           /\ UNCHANGED <<state, kind, key>>
  <2>1. TypeOK'
    BY <1>2, KeyOwnershipAssumption DEF IInv, TypeOK, Keys
  <2>2. KeysReleased'
    BY <1>2, KeyOwnershipAssumption DEF IInv, TypeOK, KeysReleased, Keys
  <2>. QED BY <2>1, <2>2 DEF IInv
<1>. QED BY <1>1, <1>2 DEF KeyPairFromCurve

LEMMA MoveKeeps ==
  ASSUME IInv, NEW dst \in Objects, NEW src \in Objects, MoveConstruct(dst, src)
  PROVE  IInv'
<1>1. TypeOK'
  BY DEF MoveConstruct, IInv, TypeOK
<1>2. KeysReleased'
  \* one more holder: a key no live object holds now was held by none before
  BY DEF MoveConstruct, IInv, TypeOK, KeysReleased
<1>. QED BY <1>1, <1>2 DEF IInv

(* The destructor frees the key of the object it ends.                     *)
LEMMA DestroyKeeps ==
  ASSUME IInv, NEW o \in Objects, Destroy(o) PROVE IInv'
<1>1. TypeOK'
  BY KeyOwnershipAssumption DEF Destroy, IInv, TypeOK, Keys, NULL
<1>2. ASSUME NEW k \in 1 .. made',
             \A p \in Objects : state'[p] = "live" => key'[p] # k
      PROVE  frees'[k] >= 1
  <2>1. CASE key[o] = k
    BY <2>1, KeyOwnershipAssumption DEF Destroy, IInv, TypeOK, Keys, NULL
  <2>2. CASE key[o] # k
    <3>1. \A p \in Objects : state[p] = "live" => key[p] # k
      BY <1>2, <2>2 DEF Destroy, IInv, TypeOK
    <3>2. frees[k] >= 1
      BY <3>1 DEF Destroy, IInv, KeysReleased
    <3>. QED BY <3>2, KeyOwnershipAssumption DEF Destroy, IInv, TypeOK, Keys
  <2>. QED BY <2>1, <2>2
<1>. QED BY <1>1, <1>2 DEF IInv, KeysReleased

LEMMA NextIInv == IInv /\ [Next]_vars => IInv'
<1>. SUFFICES ASSUME IInv, [Next]_vars PROVE IInv'
  OBVIOUS
<1>1. ASSUME NEW o \in Objects, PublicKeyFromPem(o) PROVE IInv'
  BY <1>1, AcquireKeeps, AbortKeeps DEF PublicKeyFromPem
<1>2. ASSUME NEW o \in Objects, PublicKeyFromDer(o) PROVE IInv'
  BY <1>2, AcquireKeeps, AbortKeeps DEF PublicKeyFromDer
<1>3. ASSUME NEW o \in Objects, KeyPairFromPem(o) PROVE IInv'
  BY <1>3, AcquireKeeps, AbortKeeps DEF KeyPairFromPem
<1>4. CASE UNCHANGED vars
  BY <1>4 DEF vars, IInv, TypeOK, KeysReleased
<1>. QED BY <1>1, <1>2, <1>3, <1>4, FromHandleKeeps, FromCurveKeeps,
            MoveKeeps, DestroyKeeps DEF Next

(* No EVP_PKEY leaks, for any number of key objects and keys: every key    *)
(* allocated by a constructor that no live object holds has been freed,    *)
(* whether the constructor succeeded, threw, or its object was moved from  *)
(* and destroyed.                                                           *)
THEOREM NoKeyLeak == Spec => []KeysReleased
<1>1. IInv => KeysReleased
  BY DEF IInv
<1>. QED BY <1>1, InitIInv, NextIInv, PTL DEF Spec

=============================================================================
