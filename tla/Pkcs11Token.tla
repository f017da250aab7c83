----------------------------- MODULE Pkcs11Token -----------------------------
(***************************************************************************)
(* The PKCS#11 side of a login (token/pkcs11/*.rs): slots whose tokens are *)
(* inserted and pulled out while the call runs, the search for a slot, the *)
(* session, and the objects on the token.  LoginFlow.tla drives it.  Every *)
(* call into the provider is one step; a token that leaves its slot takes  *)
(* its sessions with it.                                                   *)
(***************************************************************************)
EXTENDS Integers, Sequences, FiniteSets, SequencesExt

CONSTANTS
    Token,          \* the tokens people carry
    NumSlots,       \* reader slots
    SlotWait,       \* pkcs11_slot_wait in polls of POLL_INTERVAL
    MaxMoves,       \* bound on insertions and removals during one call
    TokenTries      \* wrong PINs a token takes before it locks

ASSUME TokenConstants ==
    /\ Token # {} /\ "none" \notin Token
    /\ {NumSlots, TokenTries} \subseteq Nat \ {0}
    /\ {SlotWait, MaxMoves} \subseteq Nat

Slot == 1 .. NumSlots

\* A token in a slot, and the number of the move that put it there; a slot or
\* session without one.
Nothing == [token |-> "none", move |-> 0]
Insertion == [token : Token, move : 0 .. MaxMoves]

VARIABLES
    slots,      \* what is in each slot
    moves,      \* insertions and removals so far
    label,      \* tokens whose CK_TOKEN_INFO.label equals pkcs11_token_label
    filtered,   \* pkcs11_token_label is set
    listed,     \* slots left of the last C_GetSlotList
    waited,     \* polls slept
    slot,       \* the slot wait_for_token returned, 0 before
    serial_of,  \* the insertion whose serial number was read
    session,    \* the insertion the logged-in session is on
    used,       \* insertions that certificate, key and signature came from
    carried,    \* wrong PINs each token would still take when the call began
    tries       \* each token's remaining wrong PINs

tokenVars == <<slots, moves, label, filtered, listed, waited, slot, serial_of, session, used,
               carried, tries>>

TokenInit(pkcs11) ==
    /\ slots \in [Slot -> {Nothing} \cup [token : Token, move : {0}]]
    /\ \A a, b \in Slot : a # b /\ slots[a] # Nothing => slots[a] # slots[b]
    /\ moves = 0
    /\ label \in SUBSET Token
    /\ filtered \in BOOLEAN
    /\ ~filtered => label = {}
    /\ listed = {}
    /\ waited = 0
    /\ slot = 0
    /\ serial_of = Nothing
    /\ session = Nothing
    /\ used = {}
    /\ carried \in [Token -> 0 .. TokenTries]
    /\ tries = carried
    /\ ~pkcs11 => /\ slots = [s \in Slot |-> Nothing]
                  /\ label = {} /\ ~filtered /\ carried = [t \in Token |-> TokenTries]

-----------------------------------------------------------------------------
(* The environment.                                                        *)

\* Somebody plugs a token in.
InsertToken ==
    /\ moves < MaxMoves
    /\ \E s \in Slot, t \in Token :
          /\ slots[s] = Nothing
          /\ \A r \in Slot : slots[r].token # t
          /\ slots' = [slots EXCEPT ![s] = [token |-> t, move |-> moves + 1]]
    /\ moves' = moves + 1
    /\ UNCHANGED <<label, filtered, listed, waited, slot, serial_of, session, used, carried, tries>>

\* Somebody pulls a token out.
RemoveToken ==
    /\ moves < MaxMoves
    /\ \E s \in Slot : slots[s] # Nothing /\ slots' = [slots EXCEPT ![s] = Nothing]
    /\ moves' = moves + 1
    /\ UNCHANGED <<label, filtered, listed, waited, slot, serial_of, session, used, carried, tries>>

-----------------------------------------------------------------------------
(* The module, and finding a slot.                                         *)

\* Pkcs11Backend::load: the path is checked, the library loaded, C_Initialize
\* called.
LoadBackend(exists, loads, initialises) ==
    CASE ~exists -> "ModulePathMissing"
      [] exists /\ ~loads -> "ModuleLoadFailed"
      [] exists /\ loads /\ ~initialises -> "InitFailed"
      [] OTHER -> "ok"

\* C_GetSlotList with tokens present; the standard promises no order.
ListSlots == {s \in Slot : slots[s] # Nothing}

\* C_GetTokenInfo on a slot; it fails when the slot has become empty.
TokenInfo(s) == slots[s]

\* find_slot: the label comparison.
HasLabel(s) == TokenInfo(s).token \in label

-----------------------------------------------------------------------------
(* The session.                                                            *)

\* Mutant: the calls go to whatever the slot holds now.
SlotContent == slots[slot]

\* The token the calls of a session reach: that of its insertion, as long as
\* it stays in the slot, and none afterwards, even if it comes back.
SessionToken == IF slots[slot] = session THEN session ELSE Nothing

\* Mutant: every attempt logs in twice.
TwoTriesPerAttempt(n) == IF n > 2 THEN n - 2 ELSE 0

\* C_Login with a wrong PIN, called once per attempt.
TriesAfterWrongPin(n) == n - 1

-----------------------------------------------------------------------------
(* Objects.                                                                *)

\* Certificate objects: whether CKA_LABEL equals pkcs11_object_label, CKA_ID
\* (0 for an absent or empty one), and what CKA_VALUE is: not readable, absent
\* or unparseable, or the certificate of a key pair.
CertObject(ids, pairs) ==
    [labelled : BOOLEAN, id : ids, body : {"unreadable", "absent", "junk"} \cup pairs]

\* Private key objects: CKA_ID, whether CKA_KEY_TYPE is there, the pair.
KeyObject(ids, pairs) == [id : ids, typed : BOOLEAN, pair : pairs]

\* Mutant: the search ends at the first object, readable or not.
FirstObjectOnly(certs, by_label, pairs) ==
    LET i == SelectInSeq(certs, LAMBDA c : by_label => c.labelled)
    IN IF i # 0 /\ certs[i].body \in pairs THEN <<certs[i]>> ELSE << >>

\* find_certificate: objects are skipped until one parses.
FindCertificate(certs, by_label, pairs) ==
    LET i == SelectInSeq(certs, LAMBDA c : (by_label => c.labelled) /\ c.body \in pairs)
    IN IF i = 0 THEN << >> ELSE <<certs[i]>>

\* find_private_key_for_cert: the first key object with the certificate's
\* CKA_ID; parse_private_key_attributes needs its type.
FindPrivateKey(keys, id) ==
    LET i == SelectInSeq(keys, LAMBDA k : k.id = id)
    IN IF i # 0 /\ keys[i].typed THEN <<keys[i]>> ELSE << >>

\* CKA_KEY_TYPE of a key of this algorithm.
KeyType(alg) ==
    CASE alg = "rsa" -> "RSA"
      [] alg \in {"p256", "p384", "ec_other"} -> "EC"
      [] alg = "gost" -> "GOSTR3410"
      [] OTHER -> "other"

\* select_mechanism: the token's key type against the certificate's public
\* key; "none" where it is an error.
SelectMechanism(type, cert_alg) ==
    CASE type = "RSA" -> "pss_sha256"
      [] type = "EC" /\ cert_alg = "p256" -> "ecdsa_sha256"
      [] type = "EC" /\ cert_alg = "p384" -> "ecdsa_sha384"
      [] OTHER -> "none"

\* verify_on_host: the signature of a key pair under the certificate's public
\* key.  PSS padding cannot be set on a key that is not RSA.
VerifyOnHost(mechanism, cert_alg, cert_pair, key_pair) ==
    /\ mechanism = "pss_sha256" => cert_alg = "rsa"
    /\ cert_pair = key_pair

=============================================================================
