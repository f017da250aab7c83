----------------------------- MODULE CertTrust -----------------------------
(***************************************************************************)
(* The cryptographic half of a login, for a PAM application that lives     *)
(* through any number of logins: self_check (self_check.rs), wire (di.rs), *)
(* challenge_response (challenge/mod.rs) and OpensslVerifier::verify_at    *)
(* (trust/openssl_verifier.rs) with the passes it runs over the chain      *)
(* (x509/, crl/store.rs).  The gost engine is loaded at most once in the   *)
(* life of the process (gost/engine.rs); everything else is per call.      *)
(*                                                                         *)
(* An Option is a set of at most one element.                              *)
(***************************************************************************)
EXTENDS Integers, Sequences, FiniteSetsExt

CONSTANTS
    Cert,       \* the certificates there are
    X509,       \* what each of them says: [Cert -> Certificate]
    Configs,    \* the configurations a login may find
    Logins,     \* what a user may bring, and when
    None        \* cfg and login between calls

\* The fields of a certificate the checks read.  `malformed` names the
\* extensions that do not parse; `gost_key` is the type of its own key, and
\* `key_readable` says that libcrypto knows it.
Certificate ==
    [subject : STRING, issuer : STRING, ski : SUBSET STRING, aki : SUBSET STRING,
     key : STRING, key_readable : BOOLEAN, gost_key : BOOLEAN, signer : STRING,
     v3 : BOOLEAN, not_before : Int, not_after : Int, alg : STRING, gost : BOOLEAN,
     malformed : SUBSET {"ku", "eku", "bc"},
     ku : SUBSET {"digitalSignature", "keyCertSign"}, client_auth : BOOLEAN,
     bc : {"absent", "end", "ca"}, path_len : SUBSET Nat, serial : STRING]

\* A CRL: nextUpdate, and the serials it lists.
Crl == [parses : BOOLEAN, next_update : SUBSET Int, revoked : SUBSET STRING]

\* The validated configuration: [trust], and needs_gost().
Config ==
    [anchors : Seq(Cert), pool : Seq(Cert), crls : Seq(Crl), crl_strict : BOOLEAN,
     clock_skew : Nat, whitelist : SUBSET STRING, pins : SUBSET STRING,
     max_depth : Nat \ {0}, needs_gost : BOOLEAN]

\* The end-entity certificate, the certificates beside it, the key that signs
\* the nonce, and the wall clock when verify() reads it.
Login == [leaf : Cert, presented : Seq(Cert), key : STRING, now : Int]

ASSUME CertTrustConstants ==
    /\ X509 \in [Cert -> Certificate]
    /\ Configs \subseteq Config
    /\ Logins \subseteq Login
    /\ None \notin Configs \cup Logins

VARIABLES
    pc,         \* the next step of the call, "idle" between calls
    cfg,        \* the configuration of this call
    login,      \* what it was given
    chain,      \* leaf first, built by build_chain
    err,        \* why the call was refused, "none" otherwise
    engine      \* ENGINE_RESULT: not initialised, Ok or Err

vars == <<pc, cfg, login, chain, err, engine>>

Init ==
    /\ pc = "idle"
    /\ cfg = None
    /\ login = None
    /\ chain = << >>
    /\ err = "none"
    /\ engine = "cold"

-----------------------------------------------------------------------------
(* The passes, each as what its checks say, in the order they are made:    *)
(* "none", or an error.                                                    *)

Passes(e) == \A i \in DOMAIN e : e[i] = "none"

\* The error of the first check that has one.
FirstError(e) == e[Min({i \in DOMAIN e : e[i] # "none"})]

\* Two checks of the same element.
Then(e, f) == IF e # "none" THEN e ELSE f

\* The validity window, widened by clock_skew on both sides.
Validity(c) ==
    IF \/ login.now + cfg.clock_skew < X509[c].not_before
       \/ login.now > X509[c].not_after + cfg.clock_skew
    THEN "Validity" ELSE "none"

LeafBasicConstraints(c) ==
    IF "bc" \in X509[c].malformed THEN "CertParse"
    ELSE IF X509[c].bc = "ca" THEN "BasicConstraints" ELSE "none"

\* pre_validate_end_entity; an empty whitelist is no constraint.
PreValidate(c) ==
    LET x == X509[c]
    IN  <<IF x.v3 THEN "none" ELSE "Validity",
          Validity(c),
          IF cfg.whitelist = {} \/ x.alg \in cfg.whitelist THEN "none" ELSE "SignatureAlgorithm",
          IF "ku" \in x.malformed THEN "CertParse"
          ELSE IF "digitalSignature" \in x.ku THEN "none" ELSE "KeyUsage",
          IF "eku" \in x.malformed THEN "CertParse"
          ELSE IF x.client_auth THEN "none" ELSE "Eku",
          LeafBasicConstraints(c)>>

\* find_issuer's test of one candidate.
Issues(d, c) ==
    /\ X509[c].issuer = X509[d].subject
    /\ X509[c].aki = {} \/ X509[c].aki = X509[d].ski

\* is_self_signed
SelfSigned(c) == Issues(c, c)

\* find_issuer: the first candidate that fits, if there is one.
FindIssuer(c, haystack) ==
    {haystack[i] : i \in {j \in DOMAIN haystack :
        /\ Issues(haystack[j], c)
        /\ \A k \in 1 .. j - 1 : ~Issues(haystack[k], c)}}

\* X509::verify of one link; libcrypto cannot check a GOST signature before
\* the engine is pinned.
LinkError(child, parent) ==
    IF ~X509[parent].key_readable \/ (X509[child].gost /\ engine # "ok") THEN "Openssl"
    ELSE IF X509[child].signer # X509[parent].key THEN "BadSignature" ELSE "none"

\* verify_chain_signatures: every link, then the anchor under its own key.
Signatures(p) ==
    [i \in 1 .. Len(p) |-> LinkError(p[i], IF i = Len(p) THEN p[i] ELSE p[i + 1])]

\* BasicConstraints of a certificate that must be a CA.
CaError(c) ==
    IF "bc" \in X509[c].malformed THEN "CertParse"
    ELSE IF X509[c].bc # "ca" THEN "BasicConstraints" ELSE "none"

\* Mutant: the leaf is counted.
CertificatesBelow(i) == i - 1

\* The intermediates between chain position i and the leaf.
IntermediatesBelow(i) == i - 2

\* pathLenConstraint of the CA at position i.
PathLenError(p, i) ==
    IF \E n \in X509[p[i]].path_len : IntermediatesBelow(i) > n THEN "BasicConstraints" ELSE "none"

\* keyCertSign
SignerError(c) ==
    IF "ku" \in X509[c].malformed THEN "CertParse"
    ELSE IF "keyCertSign" \in X509[c].ku THEN "none" ELSE "KeyUsage"

\* verify_basic_constraints and verify_intermediate_constraints: everything
\* above the leaf.
BasicConstraints(p) ==
    [i \in 1 .. Len(p) - 1 |-> Then(CaError(p[i + 1]), PathLenError(p, i + 1))]

IntermediateConstraints(p) ==
    [i \in 1 .. Len(p) - 1 |->
        Then(Validity(p[i + 1]), Then(CaError(p[i + 1]), SignerError(p[i + 1])))]

Expired(crl) == \E t \in crl.next_update : t <= login.now

Lists(crl, p) == \E i \in DOMAIN p : X509[p[i]].serial \in crl.revoked

\* Mutant: an expired CRL ends the search.
RevocationUntilExpired(p) ==
    [i \in DOMAIN cfg.crls |->
        IF \E j \in 1 .. i : Expired(cfg.crls[j]) THEN IF cfg.crl_strict THEN "Crl" ELSE "none"
        ELSE IF Lists(cfg.crls[i], p) THEN "Revoked" ELSE "none"]

\* check_revocation: every CRL against every certificate, by serial alone.
Revocation(p) ==
    [i \in DOMAIN cfg.crls |->
        IF Expired(cfg.crls[i]) THEN IF cfg.crl_strict THEN "Crl" ELSE "none"
        ELSE IF Lists(cfg.crls[i], p) THEN "Revoked" ELSE "none"]

\* verify_pinning of the anchor; no pins, no check.
Pinning(c) ==
    <<IF cfg.pins = {} THEN "none"
      ELSE IF ~X509[c].key_readable THEN "Openssl"
      ELSE IF X509[c].key \in cfg.pins THEN "none" ELSE "PinMismatch">>

-----------------------------------------------------------------------------
(* The steps of a call.                                                    *)

\* pam_sm_authenticate begins; the configuration is read afresh.
Begin ==
    /\ pc = "idle"
    /\ cfg' \in Configs
    /\ login' \in Logins
    /\ pc' = "self_check"
    /\ UNCHANGED <<chain, err, engine>>

Reject(e) ==
    /\ pc' = "rejected"
    /\ err' = e
    /\ UNCHANGED <<cfg, login, chain>>

Goto(next) == pc' = next /\ UNCHANGED <<cfg, login, chain, err>>

\* A pass over the chain.
Pass(e, next) ==
    /\ IF Passes(e) THEN Goto(next) ELSE Reject(FirstError(e))
    /\ UNCHANGED engine

\* ENGINE_RESULT.get_or_init(try_load_path): the first outcome is kept.
EngineLoads ==
    engine' \in IF engine = "cold" THEN {"ok", "failed"} ELSE {engine}

\* A step that needs the engine if `gost`, and something else besides.
WithEngine(gost, ok, refusal, next) ==
    /\ IF gost THEN EngineLoads ELSE UNCHANGED engine
    /\ IF (gost => engine' = "ok") /\ ok THEN Goto(next) ELSE Reject(refusal)

\* self_check: the files named by the configuration, the hooks, the PKCS#11
\* module; then the engine and its digests.
SelfCheck ==
    /\ pc = "self_check"
    /\ \/ Reject("SelfCheck") /\ UNCHANGED engine
       \/ WithEngine(cfg.needs_gost, TRUE, "SelfCheck", "wire")

\* OpensslVerifier::new
Constructible ==
    cfg.anchors # << >> /\ \A i \in DOMAIN cfg.crls : cfg.crls[i].parses

\* wire reads the files again.
Wire ==
    /\ pc = "wire"
    /\ Reject("Wiring") \/ (Constructible /\ Goto("challenge"))
    /\ UNCHANGED engine

\* challenge_response: sign and verify a nonce with the leaf's key.
Challenge ==
    /\ pc = "challenge"
    /\ LET x == X509[login.leaf]
       IN  WithEngine(x.key_readable /\ x.gost_key, x.key_readable /\ login.key = x.key,
                      "Crypto", "engine")

\* Everything that may end up in the chain.
AllCerts ==
    {login.leaf} \cup Range(login.presented) \cup Range(cfg.pool) \cup Range(cfg.anchors)

\* verify_at, step 0: ensure_loaded_if_any_gost
EnsureEngine ==
    /\ pc = "engine"
    /\ WithEngine(\E c \in AllCerts : X509[c].gost, TRUE, "EngineLoadFailed", "pre_validate")

\* Step 1; build_chain then starts at the leaf.
PreValidateStep ==
    /\ pc = "pre_validate"
    /\ LET e == PreValidate(login.leaf)
       IN  IF Passes(e)
           THEN pc' = "build" /\ chain' = <<login.leaf>> /\ UNCHANGED <<cfg, login, err>>
           ELSE Reject(FirstError(e))
    /\ UNCHANGED engine

DepthExceeded(n) == n > cfg.max_depth

\* Mutant: the parent is looked at but not pushed.
NotPushed(p, c) == p

Pushed(p, c) == Append(p, c)

Extend(parent) ==
    /\ chain' = Pushed(chain, parent)
    /\ IF DepthExceeded(Len(chain'))
       THEN pc' = "rejected" /\ err' = "DepthExceeded"
       ELSE UNCHANGED <<pc, err>>
    /\ UNCHANGED <<cfg, login>>

Finish(anchor) ==
    /\ chain' = Append(chain, anchor)
    /\ pc' = "signatures"
    /\ UNCHANGED <<cfg, login, err>>

\* One turn of build_chain's loop: an anchor ends it; else the parent among
\* the presented certificates, else in the local pool.
BuildChain ==
    /\ pc = "build"
    /\ LET current == chain[Len(chain)]
           anchors == FindIssuer(current, cfg.anchors)
           brought == FindIssuer(current, login.presented)
           parents == IF brought # {} THEN brought ELSE FindIssuer(current, cfg.pool)
       IN  \/ \E anchor \in anchors : IF SelfSigned(anchor) THEN Finish(anchor)
                                       ELSE Reject("PathBuild")
           \/ anchors = {} /\ \E parent \in parents : Extend(parent)
           \/ anchors = {} /\ parents = {} /\ Reject("PathBuild")
    /\ UNCHANGED engine

\* Steps 3 to 6, in their order.
CheckSignatures == pc = "signatures" /\ Pass(Signatures(chain), "constraints")

CheckConstraints == pc = "constraints" /\ Pass(BasicConstraints(chain), "intermediates")

CheckIntermediates == pc = "intermediates" /\ Pass(IntermediateConstraints(chain), "revocation")

CheckRevocation == pc = "revocation" /\ Pass(Revocation(chain), "pinning")

CheckPinning == pc = "pinning" /\ Pass(Pinning(chain[Len(chain)]), "verified")

\* The call returns; the process lives on, and only the engine with it.
Return ==
    /\ pc \in {"verified", "rejected"}
    /\ pc' = "idle"
    /\ cfg' = None
    /\ login' = None
    /\ chain' = << >>
    /\ err' = "none"
    /\ UNCHANGED engine

Step ==
    \/ SelfCheck \/ Wire \/ Challenge \/ EnsureEngine \/ PreValidateStep \/ BuildChain
    \/ CheckSignatures \/ CheckConstraints \/ CheckIntermediates \/ CheckRevocation
    \/ CheckPinning \/ Return

Next == Begin \/ Step

Spec == Init /\ [][Next]_vars

\* A call that has begun runs on: nothing in it blocks.
FairSpec == Spec /\ WF_vars(Step)

-----------------------------------------------------------------------------
(* Correctness.                                                            *)

Steps ==
    {"idle", "self_check", "wire", "challenge", "engine", "pre_validate", "build",
     "signatures", "constraints", "intermediates", "revocation", "pinning",
     "verified", "rejected"}

Errors ==
    {"none", "SelfCheck", "Wiring", "Crypto", "EngineLoadFailed", "Validity",
     "SignatureAlgorithm", "CertParse", "KeyUsage", "Eku", "BasicConstraints",
     "PathBuild", "DepthExceeded", "Openssl", "BadSignature", "Crl", "Revoked",
     "PinMismatch"}

\* Every variable stays in its type; whatever cycles the certificates at hand
\* form, build_chain never holds more than max_depth of them and an anchor.
TypeOK ==
    /\ pc \in Steps
    /\ cfg \in Configs \cup {None}
    /\ login \in Logins \cup {None}
    /\ pc # "idle" => cfg # None /\ login # None
    /\ chain \in Seq(Cert)
    /\ chain # << >> => Len(chain) <= cfg.max_depth + 1
    /\ err \in Errors
    /\ engine \in {"cold", "ok", "failed"}

\* c may speak for the holder: what RFC 5280 and the configuration ask of an
\* end-entity certificate.
GoodLeaf(c) ==
    LET x == X509[c]
    IN  /\ x.v3
        /\ x.not_before <= login.now + cfg.clock_skew
        /\ login.now - cfg.clock_skew <= x.not_after
        /\ cfg.whitelist # {} => x.alg \in cfg.whitelist
        /\ x.malformed = {}
        /\ "digitalSignature" \in x.ku /\ x.client_auth /\ x.bc # "ca"

\* The i-th certificate of p is a CA that may sign the one below it.
GoodIssuer(p, i) ==
    LET x == X509[p[i]]
    IN  /\ Issues(p[i], p[i - 1])
        /\ x.key_readable
        /\ X509[p[i - 1]].signer = x.key
        /\ x.not_before <= login.now + cfg.clock_skew
        /\ login.now - cfg.clock_skew <= x.not_after
        /\ {"ku", "bc"} \cap x.malformed = {}
        /\ x.bc = "ca" /\ "keyCertSign" \in x.ku
        /\ \A n \in x.path_len : i - 2 <= n

\* No certificate of p is on a CRL that counts, and in strict mode every CRL
\* counts.
NotRevoked(p) ==
    \A i \in DOMAIN cfg.crls :
        LET crl == cfg.crls[i]
            current == \A t \in crl.next_update : login.now < t
        IN  /\ cfg.crl_strict => current
            /\ current => \A j \in DOMAIN p : X509[p[j]].serial \notin crl.revoked

\* p is a certification path from the leaf to a configured anchor.
TrustedPath(p) ==
    LET anchor == p[Len(p)]
    IN  /\ Len(p) >= 2
        /\ p[1] = login.leaf
        /\ GoodLeaf(p[1])
        /\ \A i \in 2 .. Len(p) : GoodIssuer(p, i)
        /\ \A i \in 2 .. Len(p) - 1 : p[i] \in Range(login.presented) \cup Range(cfg.pool)
        /\ anchor \in Range(cfg.anchors)
        /\ SelfSigned(anchor) /\ X509[anchor].signer = X509[anchor].key
        /\ cfg.pins # {} => X509[anchor].key \in cfg.pins
        /\ NotRevoked(p)

\* verify_at accepts only a chain that is a certification path to a configured
\* anchor by the rules, and only for who holds the leaf's key: none of the
\* passes forgets a position, and the order they run in hides nothing.
VerifiedIsTrusted ==
    pc = "verified" => TrustedPath(chain) /\ login.key = X509[login.leaf].key

\* Every issuer name leads to one certificate, and an anchor is only that.
Unambiguous ==
    LET inner == Range(login.presented) \cup Range(cfg.pool)
    IN  /\ inner \cap Range(cfg.anchors) = {}
        /\ \A c \in inner \cup {login.leaf}, d, e \in inner \cup Range(cfg.anchors) :
               Issues(d, c) /\ Issues(e, c) => d = e

\* build_chain never backtracks, so it may miss a path when two certificates
\* fit an issuer name.  Where that cannot happen, what verify_at turns down
\* has no certification path within max_depth, whatever the order the
\* certificates come in and whatever earlier calls did to the engine.
RejectedIsUntrusted ==
    /\ pc = "rejected"
    /\ err \notin {"SelfCheck", "Wiring", "Crypto", "EngineLoadFailed"}
    /\ Unambiguous
    => \A n \in 0 .. cfg.max_depth - 1 :
          \A m \in [1 .. n -> Range(login.presented) \cup Range(cfg.pool)] :
             \A a \in Range(cfg.anchors) : ~TrustedPath(<<login.leaf>> \o m \o <<a>>)

\* Within one process the engine is there for all GOST logins or for none:
\* a login refused for want of it is never followed by one that needs it and
\* succeeds (gost/engine.rs keeps the first outcome).
EngineOutcomeIsFinal ==
    [](engine = "failed" =>
           [](pc = "verified" =>
                 /\ ~cfg.needs_gost
                 /\ ~X509[login.leaf].gost_key
                 /\ \A c \in AllCerts : ~X509[c].gost))

\* A call that has begun returns, also when the certificates issue each other.
VerifyReturns == pc = "self_check" ~> pc = "idle"

=============================================================================
