------------------------- MODULE CertificateProofs -------------------------
(***************************************************************************)
(* What a certificate is worth to a login, for every PKI, configuration,   *)
(* login and label.  First the chain: verify_at accepts nothing but a      *)
(* certification path to a configured anchor, turns down nothing that has  *)
(* one where issuer names are unambiguous, and the chain it builds is      *)
(* bounded.  Then the label: the bound an issuer encoded is the bound the  *)
(* session policy uses, and no session gets a label beyond it.             *)
(***************************************************************************)
EXTENDS CertTrust, MacSession, TLAPS, WellFoundedInduction

\* A leaf that names no prover is tried with these in turn, the last time with
\* more time.
USE SMT, Zenon, SMTT(30)

AfterPinning == {"verified"}
AfterRevocation == AfterPinning \cup {"pinning"}
AfterIntermediates == AfterRevocation \cup {"revocation"}
AfterConstraints == AfterIntermediates \cup {"intermediates"}
AfterSignatures == AfterConstraints \cup {"constraints"}
Built == AfterSignatures \cup {"signatures"}
AfterLeaf == Built \cup {"build"}
AfterChallenge == AfterLeaf \cup {"engine", "pre_validate"}

Inner == Range(login.presented) \cup Range(cfg.pool)

\* The chain so far starts at the leaf, every certificate of it names the next
\* one as its issuer, and all but the first and the last come from Inner.
Linked ==
    /\ Len(chain) >= 1
    /\ chain[1] = login.leaf
    /\ \A i \in 2 .. Len(chain) : Issues(chain[i], chain[i - 1])
    /\ \A i \in 2 .. Len(chain) - 1 : chain[i] \in Inner

Anchored ==
    /\ Len(chain) >= 2
    /\ chain[Len(chain)] \in Range(cfg.anchors)
    /\ SelfSigned(chain[Len(chain)])

\* What has been established when the call is at pc.
TrustInv ==
    /\ pc # "idle" => cfg \in Configs /\ login \in Logins
    /\ chain \in Seq(Cert)
    /\ chain # << >> => pc # "idle" /\ Len(chain) <= cfg.max_depth + 1
    /\ pc \in AfterChallenge => login.key = X509[login.leaf].key
    /\ pc \in AfterLeaf => Passes(PreValidate(login.leaf)) /\ Linked
    /\ pc = "build" => /\ Len(chain) <= cfg.max_depth
                       /\ Len(chain) >= 2 => chain[Len(chain)] \in Inner
    /\ pc \in Built => Anchored
    /\ pc \in AfterSignatures => Passes(Signatures(chain))
    /\ pc \in AfterConstraints => Passes(BasicConstraints(chain))
    /\ pc \in AfterIntermediates => Passes(IntermediateConstraints(chain))
    /\ pc \in AfterRevocation => Passes(Revocation(chain))
    /\ pc \in AfterPinning => Passes(Pinning(chain[Len(chain)]))

USE DEF AfterPinning, AfterRevocation, AfterIntermediates, AfterConstraints,
        AfterSignatures, Built, AfterLeaf, AfterChallenge

-----------------------------------------------------------------------------
(* TrustInv is inductive.                                                  *)

\* What find_issuer returns is a certificate of the haystack that issues c.
LEMMA FindIssuerFinds ==
    ASSUME NEW S, NEW haystack \in Seq(S), NEW c, NEW d \in FindIssuer(c, haystack)
    PROVE  d \in S /\ d \in Range(haystack) /\ Issues(d, c)
BY DEF FindIssuer, Range

\* A configuration and a login have the fields the passes read.
LEMMA InputTypes ==
    ASSUME cfg \in Configs, login \in Logins
    PROVE  /\ cfg.anchors \in Seq(Cert) /\ cfg.pool \in Seq(Cert)
           /\ cfg.max_depth \in Nat /\ cfg.clock_skew \in Nat
           /\ login.leaf \in Cert /\ login.presented \in Seq(Cert) /\ login.now \in Int
BY CertTrustConstants DEF Config, Login

\* What a validity check compares, as a fact about numbers.
LEMMA WindowArithmetic ==
    ASSUME NEW from \in Int, NEW to \in Int, NEW now \in Int, NEW skew \in Int,
           ~(now + skew < from), ~(now > to + skew)
    PROVE  from <= now + skew /\ now - skew <= to
OBVIOUS

\* A certificate that passes the check is inside the widened window.
LEMMA InWindow ==
    ASSUME cfg \in Configs, login \in Logins, NEW c \in Cert, Validity(c) = "none"
    PROVE  /\ X509[c].not_before <= login.now + cfg.clock_skew
           /\ login.now - cfg.clock_skew <= X509[c].not_after
<1>1. X509[c].not_before \in Int /\ X509[c].not_after \in Int
  BY CertTrustConstants DEF Certificate
<1>2. login.now \in Int /\ cfg.clock_skew \in Int
  BY InputTypes
<1>3. /\ ~(login.now + cfg.clock_skew < X509[c].not_before)
      /\ ~(login.now > X509[c].not_after + cfg.clock_skew)
  BY DEF Validity
<1> QED BY <1>1, <1>2, <1>3, WindowArithmetic, Zenon

\* A refused call keeps its inputs and claims nothing more.
LEMMA RejectKeeps ==
    ASSUME TrustInv, pc # "idle", NEW e, Reject(e)
    PROVE  TrustInv'
BY DEF TrustInv, Reject

\* Pushing the issuer that find_issuer returned keeps the chain linked.
LEMMA PushLinks ==
    ASSUME TrustInv, pc = "build", NEW c \in Cert, Issues(c, chain[Len(chain)]),
           chain' = Append(chain, c), UNCHANGED <<cfg, login>>
    PROVE  /\ chain' \in Seq(Cert)
           /\ Len(chain') = Len(chain) + 1
           /\ chain'[Len(chain')] = c
           /\ Linked'
<1>1. /\ chain \in Seq(Cert) /\ Linked
      /\ Len(chain) >= 2 => chain[Len(chain)] \in Inner
  BY DEF TrustInv
<1>2. /\ chain' \in Seq(Cert) /\ Len(chain') = Len(chain) + 1 /\ chain'[Len(chain')] = c
      /\ \A i \in 1 .. Len(chain) : chain'[i] = chain[i]
  BY <1>1
<1>3. chain'[1] = login.leaf /\ Len(chain') >= 1
  BY <1>1, <1>2 DEF Linked
<1>4. \A i \in 2 .. Len(chain') : Issues(chain'[i], chain'[i - 1])
  <2> TAKE i \in 2 .. Len(chain')
  <2>1. CASE i = Len(chain')
    BY <2>1, <1>1, <1>2 DEF Linked
  <2>2. CASE i # Len(chain')
    BY <2>2, <1>1, <1>2 DEF Linked
  <2> QED BY <2>1, <2>2
<1>5. \A i \in 2 .. Len(chain') - 1 : chain'[i] \in Inner
  <2> TAKE i \in 2 .. Len(chain') - 1
  <2>1. CASE i = Len(chain)
    BY <2>1, <1>1, <1>2
  <2>2. CASE i # Len(chain)
    BY <2>2, <1>1, <1>2 DEF Linked
  <2> QED BY <2>1, <2>2
<1>6. Inner' = Inner /\ login' = login
  BY DEF Inner
<1> QED BY <1>2, <1>3, <1>4, <1>5, <1>6, Zenon DEF Linked, Issues

\* A pass that succeeds leaves everything but pc alone.
LEMMA PassKeeps ==
    ASSUME NEW e, NEW next, Pass(e, next), pc # "idle", TrustInv
    PROVE  \/ TrustInv'
           \/ Passes(e) /\ pc' = next /\ UNCHANGED <<cfg, login, chain, err, engine>>
BY RejectKeeps DEF Pass, Goto

\* The passes read nothing but the inputs, the chain and the engine.
LEMMA PassesFrame ==
    ASSUME UNCHANGED <<cfg, login, chain, engine>>
    PROVE  /\ Passes(PreValidate(login.leaf))' <=> Passes(PreValidate(login.leaf))
           /\ Linked' <=> Linked
           /\ Anchored' <=> Anchored
           /\ Passes(Signatures(chain))' <=> Passes(Signatures(chain))
           /\ Passes(BasicConstraints(chain))' <=> Passes(BasicConstraints(chain))
           /\ Passes(IntermediateConstraints(chain))' <=> Passes(IntermediateConstraints(chain))
           /\ Passes(Revocation(chain))' <=> Passes(Revocation(chain))
           /\ Passes(Pinning(chain[Len(chain)]))' <=> Passes(Pinning(chain[Len(chain)]))
<1>1. PreValidate(login.leaf)' = PreValidate(login.leaf)
  BY DEF PreValidate, Validity, LeafBasicConstraints
<1>2. (Linked' <=> Linked) /\ (Anchored' <=> Anchored)
  BY DEF Linked, Anchored, Inner, Issues, SelfSigned
<1>3. Signatures(chain)' = Signatures(chain)
  BY DEF Signatures, LinkError
<1>4. BasicConstraints(chain)' = BasicConstraints(chain)
  BY DEF BasicConstraints, CaError, PathLenError, Then, IntermediatesBelow
<1>5. IntermediateConstraints(chain)' = IntermediateConstraints(chain)
  BY DEF IntermediateConstraints, CaError, SignerError, Then, Validity
<1>6. Revocation(chain)' = Revocation(chain)
  BY DEF Revocation, Expired, Lists
<1>7. Pinning(chain[Len(chain)])' = Pinning(chain[Len(chain)])
  BY DEF Pinning
<1> QED BY <1>1, <1>2, <1>3, <1>4, <1>5, <1>6, <1>7 DEF Passes

\* Every step of a call establishes what the next one relies on.
LEMMA TrustStep == TrustInv /\ [Next]_vars => TrustInv'
<1> SUFFICES ASSUME TrustInv, [Next]_vars PROVE TrustInv'
  OBVIOUS
<1>1. CASE Begin
  BY <1>1 DEF Begin, TrustInv
<1>2. CASE SelfCheck
  BY <1>2, RejectKeeps DEF SelfCheck, WithEngine, Goto, TrustInv
<1>3. CASE Wire
  BY <1>3, RejectKeeps DEF Wire, Goto, TrustInv
<1>4. CASE Challenge
  BY <1>4, RejectKeeps DEF Challenge, WithEngine, Goto, TrustInv
<1>5. CASE EnsureEngine
  BY <1>5, RejectKeeps DEF EnsureEngine, WithEngine, Goto, TrustInv
<1>6. CASE PreValidateStep
  <2>1. CASE ~Passes(PreValidate(login.leaf))
    BY <1>6, <2>1, RejectKeeps DEF PreValidateStep
  <2>2. CASE Passes(PreValidate(login.leaf))
    <3>1. /\ pc' = "build" /\ chain' = <<login.leaf>> /\ UNCHANGED <<cfg, login, err, engine>>
          /\ pc = "pre_validate"
      BY <1>6, <2>2 DEF PreValidateStep
    <3>2. cfg \in Configs /\ login \in Logins /\ login.key = X509[login.leaf].key
      BY <3>1 DEF TrustInv
    <3>3. chain' \in Seq(Cert) /\ Len(chain') = 1 /\ chain'[1] = login.leaf
      BY <3>1, <3>2, InputTypes
    <3>4. Linked'
      BY <3>1, <3>3 DEF Linked
    <3>5. Passes(PreValidate(login.leaf))'
      BY <2>2, <3>1 DEF Passes, PreValidate, Validity, LeafBasicConstraints
    <3>6. 1 <= cfg.max_depth
      BY <3>2, CertTrustConstants DEF Config
    <3> QED BY <3>1, <3>2, <3>3, <3>4, <3>5, <3>6, InputTypes DEF TrustInv
  <2> QED BY <2>1, <2>2
<1>7. CASE BuildChain
  <2> DEFINE current == chain[Len(chain)]
  <2>1. /\ pc = "build" /\ UNCHANGED engine
        /\ cfg \in Configs /\ login \in Logins /\ chain \in Seq(Cert)
        /\ Len(chain) <= cfg.max_depth
    BY <1>7 DEF BuildChain, TrustInv
  <2>2. ASSUME NEW anchor \in FindIssuer(current, cfg.anchors), SelfSigned(anchor), Finish(anchor)
        PROVE  TrustInv'
    <3>1. anchor \in Cert /\ anchor \in Range(cfg.anchors) /\ Issues(anchor, current)
      BY <2>1, <2>2, InputTypes, FindIssuerFinds
    <3>2. chain' = Append(chain, anchor) /\ pc' = "signatures" /\ UNCHANGED <<cfg, login, err>>
      BY <2>2 DEF Finish
    <3>3. /\ chain' \in Seq(Cert) /\ Len(chain') = Len(chain) + 1 /\ chain'[Len(chain')] = anchor
          /\ Linked'
      BY <2>1, <3>1, <3>2, PushLinks
    <3>4. Anchored'
      BY <2>1, <2>2, <3>1, <3>2, <3>3 DEF Anchored, SelfSigned, Issues, TrustInv, Linked
    <3>5. Passes(PreValidate(login.leaf))'
      BY <2>1, <3>2 DEF TrustInv, Passes, PreValidate, Validity, LeafBasicConstraints
    <3> QED BY <2>1, <3>2, <3>3, <3>4, <3>5, InputTypes DEF TrustInv
  <2>3. ASSUME NEW h \in Seq(Cert), Range(h) \subseteq Inner,
               NEW parent \in FindIssuer(current, h), Extend(parent)
        PROVE  TrustInv'
    <3>1. parent \in Cert /\ parent \in Inner /\ Issues(parent, current)
      BY <2>3, FindIssuerFinds
    <3>2. chain' = Append(chain, parent) /\ UNCHANGED <<cfg, login>>
      BY <2>3 DEF Extend, Pushed
    <3>3. /\ chain' \in Seq(Cert) /\ Len(chain') = Len(chain) + 1 /\ chain'[Len(chain')] = parent
          /\ Linked'
      BY <2>1, <3>1, <3>2, PushLinks
    <3>4. Passes(PreValidate(login.leaf))' /\ Inner' = Inner
      BY <2>1, <3>2 DEF TrustInv, Passes, PreValidate, Validity, LeafBasicConstraints, Inner
    <3>5. \/ pc' = "rejected"
          \/ pc' = pc /\ Len(chain') <= cfg.max_depth
      BY <2>1, <2>3, <3>3, InputTypes DEF Extend, DepthExceeded
    <3> QED BY <2>1, <3>1, <3>2, <3>3, <3>4, <3>5, InputTypes DEF TrustInv
  <2>4. /\ login.presented \in Seq(Cert) /\ Range(login.presented) \subseteq Inner
        /\ cfg.pool \in Seq(Cert) /\ Range(cfg.pool) \subseteq Inner
    BY <2>1, InputTypes DEF Inner
  <2> QED BY <1>7, <2>1, <2>2, <2>3, <2>4, RejectKeeps DEF BuildChain
<1>8. CASE CheckSignatures
  BY <1>8, PassKeeps, PassesFrame DEF CheckSignatures, TrustInv
<1>9. CASE CheckConstraints
  BY <1>9, PassKeeps, PassesFrame DEF CheckConstraints, TrustInv
<1>10. CASE CheckIntermediates
  BY <1>10, PassKeeps, PassesFrame DEF CheckIntermediates, TrustInv
<1>11. CASE CheckRevocation
  BY <1>11, PassKeeps, PassesFrame DEF CheckRevocation, TrustInv
<1>12. CASE CheckPinning
  BY <1>12, PassKeeps, PassesFrame DEF CheckPinning, TrustInv
<1>13. CASE Return
  BY <1>13 DEF Return, TrustInv
<1>14. CASE UNCHANGED vars
  BY <1>14, PassesFrame DEF vars, TrustInv, Inner
<1> QED BY <1>1, <1>2, <1>3, <1>4, <1>5, <1>6, <1>7, <1>8, <1>9, <1>10, <1>11, <1>12,
           <1>13, <1>14 DEF Next, Step

\* What holds when verify_at returns Ok is a certification path.
LEMMA TrustInvTrusted == TrustInv => VerifiedIsTrusted
<1> SUFFICES ASSUME TrustInv, pc = "verified"
             PROVE  TrustedPath(chain) /\ login.key = X509[login.leaf].key
  BY DEF VerifiedIsTrusted
<1>1. /\ cfg \in Configs /\ login \in Logins /\ chain \in Seq(Cert) /\ Linked /\ Anchored
      /\ Passes(PreValidate(login.leaf)) /\ Passes(Signatures(chain))
      /\ Passes(BasicConstraints(chain)) /\ Passes(IntermediateConstraints(chain))
      /\ Passes(Revocation(chain)) /\ Passes(Pinning(chain[Len(chain)]))
      /\ login.key = X509[login.leaf].key
  BY DEF TrustInv
<1>2. \A c \in Cert : X509[c].not_before \in Int /\ X509[c].not_after \in Int
                       /\ X509[c].malformed \subseteq {"ku", "eku", "bc"}
                       /\ X509[c].path_len \subseteq Nat
  BY CertTrustConstants DEF Certificate
<1>3. GoodLeaf(chain[1])
  <2> DEFINE e == PreValidate(login.leaf)
  <2>1. e[1] = "none" /\ e[2] = "none" /\ e[3] = "none" /\ e[4] = "none" /\ e[5] = "none"
        /\ e[6] = "none"
    <3>1. DOMAIN e = 1 .. 6
      BY DEF PreValidate
    <3> QED BY <1>1, <3>1 DEF Passes
  <2>2. X509[login.leaf].v3 /\ Validity(login.leaf) = "none"
    BY <2>1 DEF PreValidate
  <2>3. cfg.whitelist # {} => X509[login.leaf].alg \in cfg.whitelist
    BY <2>1 DEF PreValidate
  <2>4. /\ "ku" \notin X509[login.leaf].malformed /\ "digitalSignature" \in X509[login.leaf].ku
        /\ "eku" \notin X509[login.leaf].malformed /\ X509[login.leaf].client_auth
    BY <2>1 DEF PreValidate
  <2>5. "bc" \notin X509[login.leaf].malformed /\ X509[login.leaf].bc # "ca"
    BY <2>1 DEF PreValidate, LeafBasicConstraints
  <2>6. /\ X509[login.leaf].not_before <= login.now + cfg.clock_skew
        /\ login.now - cfg.clock_skew <= X509[login.leaf].not_after
    BY <2>2, <1>1, InputTypes, InWindow
  <2>7. X509[login.leaf].malformed = {}
    BY <2>4, <2>5, <1>1, <1>2, InputTypes, Zenon
  <2> QED BY <1>1, <2>2, <2>3, <2>4, <2>5, <2>6, <2>7 DEF GoodLeaf, Linked
<1>4. \A i \in 2 .. Len(chain) : GoodIssuer(chain, i)
  <2> TAKE i \in 2 .. Len(chain)
  <2>1. /\ i - 1 \in 1 .. Len(chain) - 1 /\ (i - 1) + 1 = i
        /\ chain[i] \in Cert /\ chain[i - 1] \in Cert
    BY <1>1
  <2>2. LinkError(chain[i - 1], chain[i]) = "none"
    BY <1>1, <2>1 DEF Passes, Signatures
  <2>3. Then(CaError(chain[i]), PathLenError(chain, i)) = "none"
    <3>1. BasicConstraints(chain)[i - 1] = "none"
      BY <1>1, <2>1, Zenon DEF Passes, BasicConstraints
    <3>2. BasicConstraints(chain)[i - 1]
          = Then(CaError(chain[(i - 1) + 1]), PathLenError(chain, (i - 1) + 1))
      BY <2>1 DEF BasicConstraints
    <3> QED BY <2>1, <3>1, <3>2
  <2>4. Then(Validity(chain[i]), Then(CaError(chain[i]), SignerError(chain[i]))) = "none"
    <3>1. IntermediateConstraints(chain)[i - 1] = "none"
      BY <1>1, <2>1, Zenon DEF Passes, IntermediateConstraints
    <3>2. IntermediateConstraints(chain)[i - 1]
          = Then(Validity(chain[(i - 1) + 1]),
                 Then(CaError(chain[(i - 1) + 1]), SignerError(chain[(i - 1) + 1])))
      BY <2>1 DEF IntermediateConstraints
    <3> QED BY <2>1, <3>1, <3>2
  <2>5. Issues(chain[i], chain[i - 1])
    BY <1>1 DEF Linked
  <2>6. X509[chain[i]].key_readable /\ X509[chain[i - 1]].signer = X509[chain[i]].key
    BY <2>2 DEF LinkError
  <2>7. Validity(chain[i]) = "none" /\ CaError(chain[i]) = "none"
        /\ SignerError(chain[i]) = "none" /\ PathLenError(chain, i) = "none"
    BY <2>3, <2>4 DEF Then
  <2>8. /\ X509[chain[i]].not_before <= login.now + cfg.clock_skew
        /\ login.now - cfg.clock_skew <= X509[chain[i]].not_after
    BY <2>1, <2>7, <1>1, InWindow
  <2>9. /\ "bc" \notin X509[chain[i]].malformed /\ X509[chain[i]].bc = "ca"
        /\ "ku" \notin X509[chain[i]].malformed /\ "keyCertSign" \in X509[chain[i]].ku
    BY <2>7 DEF CaError, SignerError
  <2>10. \A n \in X509[chain[i]].path_len : i - 2 <= n
    BY <2>1, <2>7, <1>2 DEF PathLenError, IntermediatesBelow
  <2> QED BY <2>5, <2>6, <2>8, <2>9, <2>10 DEF GoodIssuer
<1>5. NotRevoked(chain)
  <2> SUFFICES ASSUME NEW i \in DOMAIN cfg.crls
               PROVE  LET crl == cfg.crls[i]
                          current == \A t \in crl.next_update : login.now < t
                      IN  /\ cfg.crl_strict => current
                          /\ current => \A j \in DOMAIN chain : X509[chain[j]].serial \notin crl.revoked
    BY DEF NotRevoked
  <2>1. Revocation(chain)[i] = "none"
    BY <1>1, Zenon DEF Passes, Revocation
  <2>2. cfg.crls[i].next_update \subseteq Int /\ login.now \in Int
    <3>1. cfg.crls \in Seq(Crl)
      BY <1>1, CertTrustConstants DEF Config
    <3>2. cfg.crls[i] \in Crl
      BY <3>1
    <3> QED BY <1>1, <3>2, InputTypes DEF Crl
  <2>3. (\A t \in cfg.crls[i].next_update : login.now < t) <=> ~Expired(cfg.crls[i])
    BY <2>2 DEF Expired
  <2>4. /\ cfg.crl_strict => ~Expired(cfg.crls[i])
        /\ ~Expired(cfg.crls[i]) => ~Lists(cfg.crls[i], chain)
    BY <2>1 DEF Revocation
  <2> QED BY <2>3, <2>4 DEF Lists
<1>6. LinkError(chain[Len(chain)], chain[Len(chain)]) = "none"
  BY <1>1 DEF Passes, Signatures, Anchored
<1>7. X509[chain[Len(chain)]].signer = X509[chain[Len(chain)]].key
  BY <1>6 DEF LinkError
<1>8. cfg.pins # {} => X509[chain[Len(chain)]].key \in cfg.pins
  <2>1. Pinning(chain[Len(chain)])[1] = "none"
    <3>1. DOMAIN Pinning(chain[Len(chain)]) = 1 .. 1
      BY DEF Pinning
    <3> QED BY <1>1, <3>1 DEF Passes
  <2> QED BY <2>1 DEF Pinning
<1> QED BY <1>1, <1>3, <1>4, <1>5, <1>7, <1>8 DEF TrustedPath, Linked, Anchored, Inner

-----------------------------------------------------------------------------

\* TrustInv holds of every login of every process.
LEMMA TrustAlways == Spec => []TrustInv
<1>1. Init => TrustInv
  BY DEF Init, TrustInv
<1> QED BY <1>1, TrustStep, PTL DEF Spec

\* verify_at (trust/openssl_verifier.rs) accepts only certification paths to a
\* configured anchor, whatever the PKI, the configuration and the login.
THEOREM VerifiedAlwaysTrusted == Spec => []VerifiedIsTrusted
BY TrustAlways, TrustInvTrusted, PTL

\* build_chain's loop (x509/chain.rs) never holds more than max_depth
\* certificates and an anchor, however the certificates issue one another.
THEOREM ChainIsBounded == Spec => [](chain # << >> => Len(chain) <= cfg.max_depth + 1)
<1>1. TrustInv => (chain # << >> => Len(chain) <= cfg.max_depth + 1)
  BY DEF TrustInv
<1> QED BY <1>1, TrustAlways, PTL

-----------------------------------------------------------------------------
(* The engine.                                                             *)

GostFree ==
    /\ ~cfg.needs_gost
    /\ ~X509[login.leaf].gost_key
    /\ \A c \in AllCerts : ~X509[c].gost

\* Every step that needs the engine has seen it loaded.
EngineInv ==
    /\ engine \in {"cold", "ok", "failed"}
    /\ pc \in AfterChallenge \cup {"wire", "challenge"} => (cfg.needs_gost => engine = "ok")
    /\ pc \in AfterChallenge => (X509[login.leaf].gost_key => engine = "ok")
    /\ pc \in AfterLeaf \cup {"pre_validate"} =>
           ((\E c \in AllCerts : X509[c].gost) => engine = "ok")

EngineFailed == engine = "failed"

\* A step keeps EngineInv, and a failed load stays failed.
LEMMA EngineStep == EngineInv /\ [Next]_vars => EngineInv' /\ (EngineFailed => EngineFailed')
<1> USE DEF EngineFailed
<1> SUFFICES ASSUME EngineInv, [Next]_vars
             PROVE  EngineInv' /\ (EngineFailed => EngineFailed')
  OBVIOUS
<1>1. CASE Begin
  BY <1>1 DEF Begin, EngineInv
<1>2. CASE SelfCheck
  BY <1>2 DEF SelfCheck, WithEngine, EngineLoads, Goto, Reject, EngineInv
<1>3. CASE Wire
  BY <1>3 DEF Wire, Goto, Reject, EngineInv
<1>4. CASE Challenge
  BY <1>4 DEF Challenge, WithEngine, EngineLoads, Goto, Reject, EngineInv
<1>5. CASE EnsureEngine
  <2>1. UNCHANGED <<cfg, login>> /\ AllCerts' = AllCerts
    BY <1>5 DEF EnsureEngine, WithEngine, Goto, Reject, AllCerts
  <2> QED BY <1>5, <2>1 DEF EnsureEngine, WithEngine, EngineLoads, Goto, Reject, EngineInv
<1>6. CASE \/ PreValidateStep \/ BuildChain \/ CheckSignatures \/ CheckConstraints
           \/ CheckIntermediates \/ CheckRevocation \/ CheckPinning
  <2>1. UNCHANGED <<cfg, login, engine>> /\ pc \in AfterLeaf \cup {"pre_validate"}
    BY <1>6, Zenon DEF PreValidateStep, BuildChain, CheckSignatures, CheckConstraints,
                CheckIntermediates, CheckRevocation, CheckPinning, Pass, Goto, Reject,
                Finish, Extend
  <2> QED BY <2>1 DEF EngineInv, AllCerts
<1>7. CASE Return
  BY <1>7 DEF Return, EngineInv
<1>8. CASE UNCHANGED vars
  BY <1>8 DEF vars, EngineInv, AllCerts
<1> QED BY <1>1, <1>2, <1>3, <1>4, <1>5, <1>6, <1>7, <1>8 DEF Next, Step

\* The outcome of loading the gost engine is final (gost/engine.rs): after a
\* failure no later login of the process that involves GOST is accepted.
THEOREM EngineOutcomeAlwaysFinal == Spec => EngineOutcomeIsFinal
<1>1. Init => EngineInv
  BY DEF Init, EngineInv
<1>2. EngineInv /\ EngineFailed => (pc = "verified" => GostFree)
  BY DEF EngineInv, EngineFailed, GostFree
<1>3. Spec => [](EngineFailed => [](pc = "verified" => GostFree))
  BY <1>1, <1>2, EngineStep, PTL DEF Spec
<1> QED BY <1>3 DEF EngineOutcomeIsFinal, EngineFailed, GostFree

-----------------------------------------------------------------------------
(* Nothing that has a certification path is turned down.                   *)

\* find_issuer comes back empty-handed only if nothing in the haystack fits.
LEMMA FindIssuerMisses ==
    ASSUME NEW S, NEW haystack \in Seq(S), NEW c, NEW d \in Range(haystack), Issues(d, c)
    PROVE  FindIssuer(c, haystack) # {}
<1> DEFINE I == {i \in DOMAIN haystack : Issues(haystack[i], c)}
<1>1. DOMAIN haystack = 1 .. Len(haystack) /\ Len(haystack) \in Nat
  OBVIOUS
<1>2. I \subseteq Nat /\ I # {}
  BY <1>1 DEF Range
<1>3. PICK m \in I : \A i \in I : ~ (<<i, m>> \in OpToRel(<, Nat))
  <2> HIDE DEF I
  <2> QED BY <1>2, NatLessThanWellFounded, WFMin, Zenon
<1>4. \A i, j \in Nat : <<i, j>> \notin OpToRel(<, Nat) => j <= i
  BY DEF OpToRel
<1>5. ASSUME NEW k \in 1 .. m - 1 PROVE ~Issues(haystack[k], c)
  <2>1. k \in Nat /\ m \in Nat /\ ~(m <= k) /\ k \in DOMAIN haystack
    BY <1>1, <1>5
  <2> QED BY <1>3, <1>4, <2>1, Zenon
<1>6. haystack[m] \in FindIssuer(c, haystack)
  BY <1>3, <1>5, Zenon DEF FindIssuer
<1> QED BY <1>6

\* A certificate inside the widened window passes the check.
LEMMA WindowPasses ==
    ASSUME cfg \in Configs, login \in Logins, NEW c \in Cert,
           X509[c].not_before <= login.now + cfg.clock_skew,
           login.now - cfg.clock_skew <= X509[c].not_after
    PROVE  Validity(c) = "none"
<1>1. \A from, to, now, skew \in Int :
          from <= now + skew /\ now - skew <= to =>
              ~(now + skew < from) /\ ~(now > to + skew)
  OBVIOUS
<1>2. X509[c].not_before \in Int /\ X509[c].not_after \in Int
  BY CertTrustConstants DEF Certificate
<1>3. login.now \in Int /\ cfg.clock_skew \in Int
  BY InputTypes
<1>4. /\ ~(login.now + cfg.clock_skew < X509[c].not_before)
      /\ ~(login.now > X509[c].not_after + cfg.clock_skew)
  BY <1>1, <1>2, <1>3, Zenon
<1> QED BY <1>4, Zenon DEF Validity

\* A good leaf passes pre_validate_end_entity.
LEMMA GoodLeafPasses ==
    ASSUME cfg \in Configs, login \in Logins, GoodLeaf(login.leaf)
    PROVE  Passes(PreValidate(login.leaf))
<1>1. Validity(login.leaf) = "none"
  BY WindowPasses, InputTypes, Zenon DEF GoodLeaf
<1>2. LeafBasicConstraints(login.leaf) = "none"
  BY DEF LeafBasicConstraints, GoodLeaf
<1>3. PreValidate(login.leaf) = <<"none", "none", "none", "none", "none", "none">>
  BY <1>1, <1>2 DEF PreValidate, GoodLeaf
<1> QED BY <1>3 DEF Passes

\* A certification path passes every check made on a chain: the engine is there
\* if the path needs it.
LEMMA TrustedPathPasses ==
    ASSUME cfg \in Configs, login \in Logins, NEW p \in Seq(Cert), TrustedPath(p),
           (\E c \in AllCerts : X509[c].gost) => engine = "ok"
    PROVE  /\ Passes(Signatures(p)) /\ Passes(BasicConstraints(p))
           /\ Passes(IntermediateConstraints(p)) /\ Passes(Revocation(p))
           /\ Passes(Pinning(p[Len(p)]))
<1>1. /\ Len(p) \in Nat /\ Len(p) >= 2 /\ DOMAIN p = 1 .. Len(p)
      /\ \A i \in 1 .. Len(p) : p[i] \in Cert
      /\ p[Len(p)] \in Range(cfg.anchors)
      /\ \A i \in 2 .. Len(p) : GoodIssuer(p, i)
  BY DEF TrustedPath
<1>2. \A i \in 1 .. Len(p) : p[i] \in AllCerts
  BY <1>1 DEF TrustedPath, AllCerts
<1>3. \A i \in 1 .. Len(p) : X509[p[i]].gost => engine = "ok"
  BY <1>2
<1>4. \A c \in Cert : X509[c].path_len \subseteq Nat
  BY CertTrustConstants DEF Certificate
<1>5. Passes(Signatures(p))
  <2> SUFFICES ASSUME NEW i \in 1 .. Len(p) PROVE Signatures(p)[i] = "none"
    BY DEF Passes, Signatures
  <2>1. CASE i = Len(p)
    <3>1. GoodIssuer(p, i) /\ X509[p[i]].signer = X509[p[i]].key
      BY <1>1, <2>1 DEF TrustedPath
    <3>2. LinkError(p[i], p[i]) = "none"
      BY <1>3, <3>1 DEF LinkError, GoodIssuer
    <3> QED BY <2>1, <3>2 DEF Signatures
  <2>2. CASE i # Len(p)
    <3>0. \A n \in Nat : \A j \in 1 .. n : j # n => j + 1 \in 2 .. n /\ (j + 1) - 1 = j
      OBVIOUS
    <3>1. i + 1 \in 2 .. Len(p) /\ (i + 1) - 1 = i
      BY <1>1, <2>2, <3>0, Zenon
    <3>2. GoodIssuer(p, i + 1)
      BY <1>1, <3>1
    <3>3. X509[p[i + 1]].key_readable /\ X509[p[i]].signer = X509[p[i + 1]].key
      BY <3>1, <3>2 DEF GoodIssuer
    <3>4. LinkError(p[i], p[i + 1]) = "none"
      BY <1>3, <3>3 DEF LinkError
    <3> QED BY <2>2, <3>4 DEF Signatures
  <2> QED BY <2>1, <2>2
<1>6. ASSUME NEW i \in 2 .. Len(p)
      PROVE  /\ Validity(p[i]) = "none" /\ CaError(p[i]) = "none"
             /\ SignerError(p[i]) = "none" /\ PathLenError(p, i) = "none"
  <2>1. GoodIssuer(p, i) /\ p[i] \in Cert /\ i \in Nat
    BY <1>1
  <2>2. Validity(p[i]) = "none"
    BY <2>1, WindowPasses DEF GoodIssuer
  <2>3. CaError(p[i]) = "none" /\ SignerError(p[i]) = "none"
    BY <2>1 DEF GoodIssuer, CaError, SignerError
  <2>4. PathLenError(p, i) = "none"
    BY <1>4, <2>1 DEF GoodIssuer, PathLenError, IntermediatesBelow
  <2> QED BY <2>2, <2>3, <2>4
<1>7. Passes(BasicConstraints(p))
  <2> SUFFICES ASSUME NEW i \in 1 .. Len(p) - 1 PROVE BasicConstraints(p)[i] = "none"
    BY DEF Passes, BasicConstraints
  <2>1. i + 1 \in 2 .. Len(p)
    BY <1>1
  <2> QED BY <1>6, <2>1 DEF BasicConstraints, Then
<1>8. Passes(IntermediateConstraints(p))
  <2> SUFFICES ASSUME NEW i \in 1 .. Len(p) - 1 PROVE IntermediateConstraints(p)[i] = "none"
    BY DEF Passes, IntermediateConstraints
  <2>1. i + 1 \in 2 .. Len(p)
    BY <1>1
  <2> QED BY <1>6, <2>1 DEF IntermediateConstraints, Then
<1>9. Passes(Revocation(p))
  <2> SUFFICES ASSUME NEW i \in DOMAIN cfg.crls PROVE Revocation(p)[i] = "none"
    BY Zenon DEF Passes, Revocation
  <2>1. cfg.crls[i].next_update \subseteq Int /\ login.now \in Int
    <3>1. cfg.crls \in Seq(Crl)
      BY CertTrustConstants DEF Config
    <3>2. cfg.crls[i] \in Crl
      BY <3>1
    <3> QED BY <3>2, InputTypes DEF Crl
  <2>2. Expired(cfg.crls[i]) <=> ~(\A t \in cfg.crls[i].next_update : login.now < t)
    BY <2>1 DEF Expired
  <2>3. /\ cfg.crl_strict => ~Expired(cfg.crls[i])
        /\ ~Expired(cfg.crls[i]) => ~Lists(cfg.crls[i], p)
    BY <2>2, Zenon DEF TrustedPath, NotRevoked, Lists
  <2> QED BY <2>3 DEF Revocation
<1>10. Passes(Pinning(p[Len(p)]))
  <2>1. GoodIssuer(p, Len(p))
    BY <1>1
  <2>2. Pinning(p[Len(p)]) = <<"none">>
    BY <2>1 DEF TrustedPath, GoodIssuer, Pinning
  <2> QED BY <2>2 DEF Passes
<1> QED BY <1>5, <1>7, <1>8, <1>9, <1>10

\* The refusals that come before verify_at has looked at the certificates.
Elsewhere == {"SelfCheck", "Wiring", "Crypto", "EngineLoadFailed"}

\* Where the call stands with respect to a certification path p.
OnPath(p) ==
    /\ pc = "build" => Len(chain) < Len(p) /\ \A i \in 1 .. Len(chain) : chain[i] = p[i]
    /\ pc \in Built => chain = p
    /\ pc = "rejected" => err \in Elsewhere

Reachable(p) == Unambiguous /\ TrustedPath(p) /\ Len(p) <= cfg.max_depth + 1

\* build_chain keeps to every certification path within max_depth, of which
\* there is then one at most.
PathInv == \A p \in Seq(Cert) : Reachable(p) => OnPath(p)

\* A step of the call with the same inputs asks for the same paths.
LEMMA ReachableFrame ==
    ASSUME NEW p, UNCHANGED <<cfg, login>>
    PROVE  Reachable(p)' <=> Reachable(p)
<1>1. \A c, d : Issues(d, c)' <=> Issues(d, c)
  BY DEF Issues
<1>2. Unambiguous' <=> Unambiguous
  BY <1>1 DEF Unambiguous
<1>3. GoodLeaf(p[1])' <=> GoodLeaf(p[1])
  BY DEF GoodLeaf
<1>4. \A i : GoodIssuer(p, i)' <=> GoodIssuer(p, i)
  BY <1>1 DEF GoodIssuer
<1>5. NotRevoked(p)' <=> NotRevoked(p)
  BY DEF NotRevoked
<1>6. \A c : SelfSigned(c)' <=> SelfSigned(c)
  BY <1>1 DEF SelfSigned
<1>7. TrustedPath(p)' <=> TrustedPath(p)
  BY <1>3, <1>4, <1>5, <1>6 DEF TrustedPath
<1> QED BY <1>2, <1>7 DEF Reachable

\* One turn of build_chain's loop takes the next certificate of the path.
LEMMA BuildKeepsPath ==
    ASSUME TrustInv, NEW p \in Seq(Cert), Reachable(p), OnPath(p), BuildChain
    PROVE  OnPath(p)'
<1> DEFINE current == chain[Len(chain)]
           next    == p[Len(chain) + 1]
<1>1. /\ pc = "build" /\ cfg \in Configs /\ login \in Logins /\ chain \in Seq(Cert) /\ Linked
      /\ Len(chain) < Len(p) /\ \A i \in 1 .. Len(chain) : chain[i] = p[i]
      /\ Len(chain) >= 2 => chain[Len(chain)] \in Inner
  BY DEF BuildChain, TrustInv, OnPath
<1>2. /\ Len(chain) \in Nat /\ Len(chain) >= 1 /\ Len(p) \in Nat
      /\ current = p[Len(chain)] /\ Len(chain) + 1 \in 2 .. Len(p)
      /\ (Len(chain) + 1) - 1 = Len(chain)
  BY <1>1 DEF Linked
<1>3. current \in Inner \cup {login.leaf}
  BY <1>1, <1>2 DEF Linked
<1>4. GoodIssuer(p, Len(chain) + 1)
  BY <1>2 DEF Reachable, TrustedPath
<1>5. Issues(next, current)
  BY <1>2, <1>4 DEF GoodIssuer
<1>6. /\ cfg.max_depth \in Nat /\ Len(p) <= cfg.max_depth + 1
      /\ cfg.anchors \in Seq(Cert) /\ cfg.pool \in Seq(Cert) /\ login.presented \in Seq(Cert)
  BY <1>1, InputTypes DEF Reachable
<1>7. Unambiguous
  BY DEF Reachable
<1>only. next \in Inner \cup Range(cfg.anchors) =>
            \A d \in Inner \cup Range(cfg.anchors) : Issues(d, current) => d = next
  <2> HIDE DEF current, next
  <2> QED BY <1>3, <1>5, <1>7, Zenon DEF Unambiguous, Inner
<1>8. CASE Len(chain) + 1 = Len(p)
  <2>1. next \in Range(cfg.anchors) /\ SelfSigned(next)
    BY <1>8 DEF Reachable, TrustedPath
  <2>2. FindIssuer(current, cfg.anchors) # {}
    BY <1>5, <1>6, <2>1, FindIssuerMisses
  <2>3. \A a \in FindIssuer(current, cfg.anchors) : a = next
    <3> SUFFICES ASSUME NEW a \in FindIssuer(current, cfg.anchors) PROVE a = next
      OBVIOUS
    <3>1. a \in Range(cfg.anchors) /\ Issues(a, current)
      BY <1>6, FindIssuerFinds
    <3> QED BY <1>only, <2>1, <3>1
  <2>4. Finish(next)
    BY <2>1, <2>2, <2>3 DEF BuildChain
  <2>5. chain' = Append(chain, next) /\ pc' = "signatures"
    BY <2>4 DEF Finish
  <2>6. chain' = p
    <3>1. chain' \in Seq(Cert)
      BY <1>1, <1>2, <2>5
    <3>2. Len(chain') = Len(p)
      BY <1>1, <1>2, <1>8, <2>5
    <3>3. \A i \in 1 .. Len(p) : chain'[i] = p[i]
      BY <1>1, <1>2, <1>8, <2>5
    <3> QED BY <3>1, <3>2, <3>3
  <2> QED BY <2>5, <2>6 DEF OnPath
<1>9. CASE Len(chain) + 1 # Len(p)
  <2>1. next \in Inner
    <3>1. Len(chain) + 1 \in 2 .. Len(p) - 1
      BY <1>2, <1>9
    <3> QED BY <3>1 DEF Reachable, TrustedPath, Inner
  <2>2. next \notin Range(cfg.anchors)
    BY <1>7, <2>1 DEF Unambiguous, Inner
  <2>3. FindIssuer(current, cfg.anchors) = {}
    <3> SUFFICES ASSUME NEW a \in FindIssuer(current, cfg.anchors) PROVE FALSE
      OBVIOUS
    <3>1. a \in Range(cfg.anchors) /\ Issues(a, current)
      BY <1>6, FindIssuerFinds
    <3>2. a = next
      BY <1>only, <2>1, <3>1
    <3> QED BY <2>2, <3>1, <3>2
  <2> DEFINE brought == FindIssuer(current, login.presented)
             local   == FindIssuer(current, cfg.pool)
             parents == IF brought # {} THEN brought ELSE local
  <2>4. parents # {}
    BY <1>5, <1>6, <2>1, FindIssuerMisses DEF Inner
  <2>5. \A a \in parents : a = next
    <3> SUFFICES ASSUME NEW a \in parents PROVE a = next
      OBVIOUS
    <3>1. a \in brought \/ a \in local
      OBVIOUS
    <3>2. a \in Inner /\ Issues(a, current)
      BY <1>6, <3>1, FindIssuerFinds DEF Inner
    <3> QED BY <1>only, <2>1, <3>2
  <2>6. Extend(next)
    BY <2>3, <2>4, <2>5 DEF BuildChain
  <2>7. chain' = Append(chain, next) /\ cfg' = cfg
    BY <2>6 DEF Extend, Pushed
  <2>8. /\ Len(chain') = Len(chain) + 1
        /\ \A i \in 1 .. Len(chain') : chain'[i] = p[i]
    BY <1>1, <1>2, <2>7
  <2>9. Len(chain') < Len(p) /\ ~(Len(chain') > cfg.max_depth)
    BY <1>2, <1>6, <1>9, <2>8
  <2>10. pc' = "build"
    BY <1>1, <2>6, <2>9 DEF Extend, DepthExceeded
  <2> QED BY <2>8, <2>9, <2>10 DEF OnPath
<1> QED BY <1>8, <1>9

\* A pass over the chain that a certification path would make lets the call go
\* on to the next one.
LEMMA PassKeepsPath ==
    ASSUME NEW p, OnPath(p), pc \in Built, NEW e, Passes(e),
           NEW after \in Built, Pass(e, after)
    PROVE  OnPath(p)'
<1>1. pc' = after /\ chain' = chain
  BY DEF Pass, Goto
<1>2. after # "build" /\ after # "rejected"
  BY DEF Built
<1> QED BY <1>1, <1>2 DEF OnPath, Built

\* Every step of a call keeps to the certification path there is.
LEMMA PathStep == TrustInv /\ EngineInv /\ PathInv /\ [Next]_vars => PathInv'
<1> SUFFICES ASSUME TrustInv, EngineInv, PathInv, [Next]_vars,
                    NEW p \in Seq(Cert), Reachable(p)'
             PROVE  OnPath(p)'
  BY DEF PathInv
<1>1. CASE pc' \in {"idle", "self_check", "wire", "challenge", "engine", "pre_validate"}
  BY <1>1 DEF OnPath
<1>2. CASE pc' = "rejected" /\ err' \in Elsewhere
  BY <1>2 DEF OnPath
<1>3. CASE Begin
  BY <1>1, <1>3 DEF Begin
<1>4. CASE SelfCheck
  BY <1>1, <1>2, <1>4 DEF SelfCheck, WithEngine, Goto, Reject, Elsewhere
<1>5. CASE Wire
  BY <1>1, <1>2, <1>5 DEF Wire, Goto, Reject, Elsewhere
<1>6. CASE Challenge
  BY <1>1, <1>2, <1>6 DEF Challenge, WithEngine, Goto, Reject, Elsewhere
<1>7. CASE EnsureEngine
  BY <1>1, <1>2, <1>7 DEF EnsureEngine, WithEngine, Goto, Reject, Elsewhere
<1>8. CASE Return
  BY <1>1, <1>8 DEF Return
<1>9. ASSUME UNCHANGED <<cfg, login>> PROVE Reachable(p) /\ OnPath(p)
  BY <1>9, ReachableFrame DEF PathInv
<1>10. CASE PreValidateStep
  <2>1. UNCHANGED <<cfg, login>> /\ cfg \in Configs /\ login \in Logins
    BY <1>10 DEF PreValidateStep, Reject, TrustInv
  <2>2. TrustedPath(p)
    BY <1>9, <2>1 DEF Reachable
  <2>3. Len(p) >= 2 /\ p[1] = login.leaf /\ GoodLeaf(login.leaf)
    BY <2>2, Zenon DEF TrustedPath
  <2>4. Passes(PreValidate(login.leaf))
    BY <2>1, <2>3, GoodLeafPasses
  <2>5. pc' = "build" /\ chain' = <<login.leaf>>
    BY <1>10, <2>4 DEF PreValidateStep
  <2>6. Len(chain') = 1 /\ chain'[1] = login.leaf
    BY <2>5
  <2> QED BY <2>3, <2>5, <2>6 DEF OnPath
<1>11. CASE BuildChain
  <2>1. UNCHANGED <<cfg, login>>
    BY <1>11 DEF BuildChain, Finish, Extend, Reject
  <2> QED BY <1>9, <1>11, <2>1, BuildKeepsPath
<1>12. ASSUME pc \in Built, UNCHANGED <<cfg, login>>
       PROVE  /\ Passes(Signatures(chain)) /\ Passes(BasicConstraints(chain))
              /\ Passes(IntermediateConstraints(chain)) /\ Passes(Revocation(chain))
              /\ Passes(Pinning(chain[Len(chain)]))
  <2>1. Reachable(p) /\ chain = p
    BY <1>9, <1>12 DEF OnPath
  <2>2. cfg \in Configs /\ login \in Logins
    BY <1>12 DEF TrustInv
  <2>3. (\E c \in AllCerts : X509[c].gost) => engine = "ok"
    BY <1>12 DEF EngineInv
  <2> QED BY <2>1, <2>2, <2>3, TrustedPathPasses DEF Reachable
<1>13. CASE CheckSignatures
  <2>1. pc \in Built /\ UNCHANGED <<cfg, login>>
    BY <1>13 DEF CheckSignatures, Pass, Goto, Reject
  <2> QED BY <1>9, <1>12, <1>13, <2>1, PassKeepsPath DEF CheckSignatures
<1>14. CASE CheckConstraints
  <2>1. pc \in Built /\ UNCHANGED <<cfg, login>>
    BY <1>14 DEF CheckConstraints, Pass, Goto, Reject
  <2> QED BY <1>9, <1>12, <1>14, <2>1, PassKeepsPath DEF CheckConstraints
<1>15. CASE CheckIntermediates
  <2>1. pc \in Built /\ UNCHANGED <<cfg, login>>
    BY <1>15 DEF CheckIntermediates, Pass, Goto, Reject
  <2> QED BY <1>9, <1>12, <1>15, <2>1, PassKeepsPath DEF CheckIntermediates
<1>16. CASE CheckRevocation
  <2>1. pc \in Built /\ UNCHANGED <<cfg, login>>
    BY <1>16 DEF CheckRevocation, Pass, Goto, Reject
  <2> QED BY <1>9, <1>12, <1>16, <2>1, PassKeepsPath DEF CheckRevocation
<1>17. CASE CheckPinning
  <2>1. pc \in Built /\ UNCHANGED <<cfg, login>>
    BY <1>17 DEF CheckPinning, Pass, Goto, Reject
  <2> QED BY <1>9, <1>12, <1>17, <2>1, PassKeepsPath DEF CheckPinning
<1>18. CASE UNCHANGED vars
  BY <1>9, <1>18 DEF vars, OnPath
<1> QED BY <1>3, <1>4, <1>5, <1>6, <1>7, <1>8, <1>10, <1>11, <1>13, <1>14, <1>15, <1>16,
           <1>17, <1>18 DEF Next, Step

\* A path as RejectedIsUntrusted writes it is a sequence of certificates.
LEMMA PathOf ==
    ASSUME cfg \in Configs, login \in Logins, NEW n \in 0 .. cfg.max_depth - 1,
           NEW m \in [1 .. n -> Range(login.presented) \cup Range(cfg.pool)],
           NEW a \in Range(cfg.anchors)
    PROVE  /\ <<login.leaf>> \o m \o <<a>> \in Seq(Cert)
           /\ Len(<<login.leaf>> \o m \o <<a>>) <= cfg.max_depth + 1
<1>1. cfg.max_depth \in Nat /\ n \in Nat /\ n <= cfg.max_depth - 1
  BY InputTypes
<1>2. \A s \in Seq(Cert) : Range(s) \subseteq Cert
  BY DEF Range
<1>3. a \in Cert /\ login.leaf \in Cert /\ Range(login.presented) \cup Range(cfg.pool) \subseteq Cert
  BY <1>2, InputTypes
<1>4. m \in Seq(Cert) /\ Len(m) = n
  <2>1. m \in [1 .. n -> Cert]
    BY <1>3
  <2> QED BY <1>1, <2>1
<1> DEFINE p == <<login.leaf>> \o m \o <<a>>
<1>5. p \in Seq(Cert) /\ Len(p) = n + 2
  BY <1>1, <1>3, <1>4
<1> QED BY <1>1, <1>5

\* Where no issuer name is ambiguous, verify_at turns nothing down that has a
\* certification path within max_depth, whatever the PKI, the order the
\* certificates come in, and what earlier logins did to the engine.
THEOREM RejectedAlwaysUntrusted == Spec => []RejectedIsUntrusted
<1>1. Init => PathInv
  BY DEF Init, PathInv, OnPath
<1>2. TrustInv /\ PathInv => RejectedIsUntrusted
  <2> SUFFICES ASSUME TrustInv, PathInv, pc = "rejected", err \notin Elsewhere, Unambiguous,
                      NEW n \in 0 .. cfg.max_depth - 1,
                      NEW m \in [1 .. n -> Range(login.presented) \cup Range(cfg.pool)],
                      NEW a \in Range(cfg.anchors),
                      TrustedPath(<<login.leaf>> \o m \o <<a>>)
               PROVE  FALSE
    BY Zenon DEF RejectedIsUntrusted, Elsewhere
  <2>1. cfg \in Configs /\ login \in Logins
    BY DEF TrustInv
  <2> DEFINE p == <<login.leaf>> \o m \o <<a>>
  <2>2. p \in Seq(Cert) /\ Len(p) <= cfg.max_depth + 1
    BY <2>1, PathOf, Zenon
  <2> HIDE DEF p
  <2>3. Reachable(p)
    BY <2>2 DEF Reachable, p
  <2> QED BY <2>2, <2>3 DEF PathInv, OnPath
<1>3. Init => EngineInv
  BY DEF Init, EngineInv
<1> QED BY <1>1, <1>2, <1>3, TrustAlways, EngineStep, PathStep, PTL DEF Spec

-----------------------------------------------------------------------------
(* The integrity label of a login.                                         *)

HIDE DEF AfterPinning, AfterRevocation, AfterIntermediates, AfterConstraints,
         AfterSignatures, Built, AfterLeaf, AfterChallenge

\* A set standing for an Option.
Option(S, T) == S = {} \/ \E x \in T : S = {x}

\* What a login's state amounts to: the types that matter, and what each stage
\* of a call has established.
MacInv ==
    /\ Option(cert_max, Label) /\ Option(policy.fallback, Label)
    /\ Option(ext, Extensions) /\ Option(mic, Levels)
    /\ {mnkc, proc, before} \subseteq Label
    /\ steady \in BOOLEAN
    /\ policy.runtime = "required" => astra_mac = TRUE
    /\ step \in {"loaded", "built", "probed", "resolved"} => proc = before /\ outcome = "none"
    /\ step = "idle" => outcome = "none"
    /\ (step = "built" /\ policy.runtime = "required") =>
           backend = "parsec" /\ (steady = TRUE => strict = 1)
    /\ step = "resolved" => ~(cert_max = {} /\ policy.cert_integrity = "required")
    /\ AppliedLabelIsBounded /\ RequiredMeansBound /\ RuntimeRequiredFailsClosed
    /\ DeniedCallKeepsLabel /\ CappingIsAudited

\* The lower of two levels is a level below both.
LEMMA LowerLevel ==
    ASSUME NEW a \in MinLevel .. MaxLevel, NEW b \in MinLevel .. MaxLevel
    PROVE  /\ Lower(a, b) \in MinLevel .. MaxLevel
           /\ Lower(a, b) <= a /\ Lower(a, b) <= b
           /\ Lower(a, b) < b <=> Lower(a, b) # b
BY DEF Lower, MinLevel, MaxLevel

\* intersect_cert_with_user is a lower bound of the user's maximum and respects
\* the bound; strictly_below holds of it exactly when it is not the maximum.
LEMMA Intersection ==
    ASSUME NEW b \in Label, NEW u \in Label
    PROVE  LET e == IntersectCertWithUser(b, u)
           IN  /\ e \in Label
               /\ e.level <= u.level /\ e.categories \subseteq u.categories
               /\ Within(e, b)
               /\ StrictlyBelow(e, u) <=> e # u
<1> DEFINE e == IntersectCertWithUser(b, u)
<1>1. /\ b.level \in MinLevel .. MaxLevel /\ u.level \in MinLevel .. MaxLevel
      /\ b.categories \subseteq Category /\ u.categories \subseteq Category
  BY DEF Label
<1>2. /\ e.level = Lower(b.level, u.level)
      /\ e.categories = IF b.categories = {} THEN u.categories
                        ELSE b.categories \cap u.categories
  BY DEF IntersectCertWithUser
<1> HIDE DEF e
<1>3. /\ e.level \in MinLevel .. MaxLevel
      /\ e.level <= b.level /\ e.level <= u.level
      /\ e.level < u.level <=> e.level # u.level
  BY <1>1, <1>2, LowerLevel, Zenon
<1>4. /\ e.categories \subseteq Category /\ e.categories \subseteq u.categories
      /\ b.categories # {} => e.categories \subseteq b.categories
  BY <1>1, <1>2
<1>5. e \in Label
  <2>1. e = [level |-> e.level, categories |-> e.categories]
    BY DEF e, IntersectCertWithUser
  <2> QED BY <2>1, <1>3, <1>4 DEF Label
<1>6. StrictlyBelow(e, u) <=> e # u
  <2>1. u = [level |-> u.level, categories |-> u.categories]
    BY DEF Label
  <2>2. e = [level |-> e.level, categories |-> e.categories]
    BY DEF e, IntersectCertWithUser
  <2>3. e = u <=> (e.level = u.level /\ e.categories = u.categories)
    BY <2>1, <2>2
  <2>4. StrictlyBelow(e, u) <=> (e.level < u.level \/ e.categories # u.categories)
    BY <1>3, <1>4 DEF StrictlyBelow
  <2> QED BY <2>3, <2>4, <1>3
<1>7. Within(e, b)
  BY <1>3, <1>4 DEF Within
<1> QED BY <1>3, <1>4, <1>5, <1>6, <1>7 DEF e

\* An octet read as an i8 is a level.
LEMMA SignedLevel ==
    ASSUME NEW o \in Octet
    PROVE  Signed(o) \in MinLevel .. MaxLevel
BY DEF Signed, Octet, MinLevel, MaxLevel

\* from_der yields a label or nothing.
LEMMA Decoded ==
    ASSUME NEW der \in Seq(Octet)
    PROVE  Option(FromDer(der), Label)
<1> DEFINE body == SubSeq(der, 3, Len(der))
           rest == SubSeq(body, 4, Len(body))
           mask == MaskOf(SubSeq(rest, 4, Len(rest)))
<1>1. mask \subseteq Category
  BY DEF MaskOf
<1> HIDE DEF mask
<1>2. CASE IsSequence(der) /\ HasLevel(body) /\ HasCategories(rest)
  <2>1. body \in Seq(Octet) /\ Len(body) >= 3
    BY <1>2 DEF IsSequence, HasLevel
  <2>2. body[3] \in Octet
    BY <2>1
  <2>3. Signed(body[3]) \in MinLevel .. MaxLevel
    BY <2>2, SignedLevel, Zenon
  <2>4. [level |-> Signed(body[3]), categories |-> mask] \in Label
    BY <2>3, <1>1, Zenon DEF Label
  <2>5. FromDer(der) = {[level |-> Signed(body[3]), categories |-> mask]}
    BY <1>2, Zenon DEF FromDer, mask
  <2> QED BY <2>4, <2>5, Zenon DEF Option
<1>3. CASE ~(IsSequence(der) /\ HasLevel(body) /\ HasCategories(rest))
  BY <1>3 DEF FromDer, Option
<1> QED BY <1>2, <1>3

-----------------------------------------------------------------------------
(* from_der undoes to_der.                                                 *)

\* A bit of an octet is the category it stands for.
LEMMA BitOfOctet ==
    ASSUME NEW C, NEW low \in Nat, NEW k \in 0 .. 7
    PROVE  (OctetFrom(C, low) \div 2 ^ k) % 2 = 1 <=> low + k \in C
<1> DEFINE x(b) == IF low + b \in C THEN 1 ELSE 0
<1>1. OctetFrom(C, low) = x(0) + 2 * x(1) + 4 * x(2) + 8 * x(3) + 16 * x(4) + 32 * x(5)
                          + 64 * x(6) + 128 * x(7)
  BY DEF OctetFrom
<1>2. /\ x(0) \in {0, 1} /\ x(1) \in {0, 1} /\ x(2) \in {0, 1} /\ x(3) \in {0, 1}
      /\ x(4) \in {0, 1} /\ x(5) \in {0, 1} /\ x(6) \in {0, 1} /\ x(7) \in {0, 1}
  OBVIOUS
<1>3. x(k) = 1 <=> low + k \in C
  OBVIOUS
<1> HIDE DEF x
<1>4. (OctetFrom(C, low) \div 2 ^ k) % 2 = x(k)
  <2>0. CASE k = 0
    BY <1>1, <1>2, <2>0
  <2>1. CASE k = 1
    BY <1>1, <1>2, <2>1
  <2>2. CASE k = 2
    BY <1>1, <1>2, <2>2
  <2>3. CASE k = 3
    BY <1>1, <1>2, <2>3
  <2>4. CASE k = 4
    BY <1>1, <1>2, <2>4
  <2>5. CASE k = 5
    BY <1>1, <1>2, <2>5
  <2>6. CASE k = 6
    BY <1>1, <1>2, <2>6
  <2>7. CASE k = 7
    BY <1>1, <1>2, <2>7
  <2> QED BY <2>0, <2>1, <2>2, <2>3, <2>4, <2>5, <2>6, <2>7
<1> QED BY <1>3, <1>4

\* An octet is one.
LEMMA OctetIsOctet ==
    ASSUME NEW C, NEW low \in Nat
    PROVE  OctetFrom(C, low) \in Octet
BY DEF OctetFrom, Octet

\* A set of categories has a greatest one.
LEMMA GreatestCategory ==
    ASSUME NEW C \in SUBSET Category, C # {}
    PROVE  Max(C) \in C /\ \A c \in C : c <= Max(C)
<1> DEFINE D == {d \in Nat : 63 - d \in C}
<1>1. \A c \in C : c \in 0 .. 63
  BY DEF Category
<1>2. D # {}
  <2>1. PICK c \in C : TRUE
    OBVIOUS
  <2>2. 63 - c \in Nat /\ 63 - (63 - c) = c
    BY <1>1
  <2> QED BY <2>1, <2>2
<1>3. PICK m \in D : \A d \in D : ~ (<<d, m>> \in OpToRel(<, Nat))
  <2>1. D \subseteq Nat
    OBVIOUS
  <2> HIDE DEF D
  <2> QED BY <1>2, <2>1, NatLessThanWellFounded, WFMin, Zenon
<1>4. \A c \in C : c <= 63 - m
  <2> SUFFICES ASSUME NEW c \in C PROVE c <= 63 - m
    OBVIOUS
  <2>1. 63 - c \in D
    <3>1. 63 - c \in Nat /\ 63 - (63 - c) = c
      BY <1>1
    <3> QED BY <3>1
  <2>2. ~ (<<63 - c, m>> \in OpToRel(<, Nat))
    BY <1>3, <2>1, Zenon
  <2>3. \A i, j \in Nat : <<i, j>> \notin OpToRel(<, Nat) => j <= i
    BY DEF OpToRel
  <2>4. m <= 63 - c
    BY <2>1, <2>2, <2>3, Zenon
  <2> QED BY <2>4, <1>1
<1>5. 63 - m \in C
  OBVIOUS
<1>6. \A c \in C : 63 - m >= c
  BY <1>4, <1>1
<1>7. \E x \in C : \A y \in C : x >= y
  BY <1>5, <1>6
<1>8. Max(C) \in C /\ \A y \in C : Max(C) >= y
  BY <1>7, Zenon DEF Max
<1> QED BY <1>8, <1>1

\* The mask a label's octets decode to is the mask they were made from.
LEMMA MaskOfOctets ==
    ASSUME NEW C \in SUBSET Category
    PROVE  /\ OctetsOf(C) \in Seq(Octet) /\ Len(OctetsOf(C)) <= 8
           /\ MaskOf(OctetsOf(C)) = C
<1> DEFINE n == IF C = {} THEN 0 ELSE (Max(C) \div 8) + 1
           o == OctetsOf(C)
<1>1. \A c \in C : c \in 0 .. 63
  BY DEF Category
<1>2. n \in 0 .. 8 /\ \A c \in C : c \div 8 < n
  <2>1. CASE C = {}
    BY <2>1
  <2>2. CASE C # {}
    <3>1. Max(C) \in 0 .. 63 /\ \A c \in C : c <= Max(C)
      BY <1>1, <2>2, GreatestCategory
    <3>2. n = (Max(C) \div 8) + 1
      BY <2>2
    <3>3. \A x, y \in 0 .. 63 : x <= y => x \div 8 <= y \div 8 /\ y \div 8 \in 0 .. 7 /\ x \div 8 \in 0 .. 7
      OBVIOUS
    <3> QED BY <1>1, <3>1, <3>2, <3>3
  <2> QED BY <2>1, <2>2
<1>3. o = [i \in 1 .. n |-> OctetFrom(C, 8 * (n - i))]
  BY DEF OctetsOf
<1> HIDE DEF n, o
<1>4. o \in Seq(Octet) /\ Len(o) = n /\ \A i \in 1 .. n : o[i] = OctetFrom(C, 8 * (n - i))
  <2>1. \A i \in 1 .. n : OctetFrom(C, 8 * (n - i)) \in Octet
    <3> SUFFICES ASSUME NEW i \in 1 .. n PROVE OctetFrom(C, 8 * (n - i)) \in Octet
      OBVIOUS
    <3>1. 8 * (n - i) \in Nat
      BY <1>2
    <3> QED BY <3>1, OctetIsOctet
  <2> QED BY <1>2, <1>3, <2>1
<1>5. ASSUME NEW b \in Category PROVE b \in MaskOf(o) <=> b \in C
  <2> DEFINE q == b \div 8
             k == b % 8
  <2>1. q \in 0 .. 7 /\ k \in 0 .. 7 /\ b = 8 * q + k
    BY DEF Category
  <2> HIDE DEF q, k
  <2>2. b \in MaskOf(o) <=> n > q /\ (o[n - q] \div 2 ^ k) % 2 = 1
    BY <1>4 DEF MaskOf, q, k
  <2>3. CASE n > q
    <3>1. n - q \in 1 .. n /\ 8 * (n - (n - q)) = 8 * q /\ 8 * q \in Nat
      BY <1>2, <2>1, <2>3
    <3>2. o[n - q] = OctetFrom(C, 8 * q)
      BY <1>4, <3>1
    <3>3. (OctetFrom(C, 8 * q) \div 2 ^ k) % 2 = 1 <=> 8 * q + k \in C
      BY <2>1, <3>1, BitOfOctet, Zenon
    <3> QED BY <2>1, <2>2, <2>3, <3>2, <3>3
  <2>4. CASE ~(n > q)
    <3>1. b \notin C
      BY <1>2, <2>1, <2>4 DEF q
    <3> QED BY <2>2, <2>4, <3>1
  <2> QED BY <2>3, <2>4
<1>6. MaskOf(o) = C
  <2>1. MaskOf(o) \subseteq Category
    BY DEF MaskOf
  <2> QED BY <1>5, <2>1
<1> QED BY <1>2, <1>4, <1>6 DEF o

\* from_der returns the label to_der was given.
LEMMA DerRoundTrip ==
    ASSUME NEW l \in Label
    PROVE  FromDer(ToDer(l)) = {l}
<1> DEFINE o     == OctetsOf(l.categories)
           v     == l.level % 256
           inner == <<2, 1, v, 3, Len(o) + 1, 0>> \o o
           der   == <<48, Len(inner)>> \o inner
           body  == SubSeq(der, 3, Len(der))
           rest  == SubSeq(body, 4, Len(body))
<1>1. l.level \in -128 .. 127 /\ l.categories \in SUBSET Category
  BY DEF Label, MinLevel, MaxLevel
<1>2. o \in Seq(Octet) /\ Len(o) \in 0 .. 8 /\ MaskOf(o) = l.categories
  <2>1. o \in Seq(Octet) /\ Len(o) <= 8 /\ MaskOf(o) = l.categories
    BY <1>1, MaskOfOctets, Zenon
  <2> HIDE DEF o
  <2>2. Len(o) \in Nat
    BY <2>1
  <2>3. \A x \in Nat : x <= 8 => x \in 0 .. 8
    OBVIOUS
  <2> QED BY <2>1, <2>2, <2>3, Zenon
<1>3. v \in 0 .. 255 /\ Signed(v) = l.level
  BY <1>1 DEF Signed
<1>4. ToDer(l) = der
  BY DEF ToDer
<1> HIDE DEF o, v
<1>5. o \in Seq(Int) /\ v \in Int
  <2>1. \A i \in 1 .. Len(o) : o[i] \in Octet
    BY <1>2
  <2>2. o = [i \in 1 .. Len(o) |-> o[i]]
    BY <1>2
  <2>3. \A x \in Octet : x \in Int
    BY DEF Octet
  <2>4. Len(o) \in Nat /\ \A i \in 1 .. Len(o) : o[i] \in Int
    BY <1>2, <2>1, <2>3
  <2>5. v \in Int
    BY <1>3
  <2>6. [i \in 1 .. Len(o) |-> o[i]] \in Seq(Int)
    BY <2>4
  <2> QED BY <2>2, <2>5, <2>6, Zenon
<1>6. inner \in Seq(Int) /\ Len(inner) = 6 + Len(o)
      /\ inner[1] = 2 /\ inner[2] = 1 /\ inner[3] = v /\ inner[4] = 3
      /\ inner[5] = Len(o) + 1 /\ inner[6] = 0
      /\ \A i \in 1 .. Len(o) : inner[6 + i] = o[i]
  BY <1>2, <1>5
<1> HIDE DEF inner
<1>7. der \in Seq(Int) /\ Len(der) = 2 + Len(inner) /\ der[1] = 48 /\ der[2] = Len(inner)
      /\ \A i \in 1 .. Len(inner) : der[2 + i] = inner[i]
  BY <1>2, <1>6
<1> HIDE DEF der
<1>lens. Len(inner) \in 6 .. 14 /\ Len(der) \in 8 .. 16
  <2>1. /\ \A x \in 0 .. 8 : 6 + x \in 6 .. 14
        /\ \A x \in 6 .. 14 : 2 + x \in 8 .. 16
    OBVIOUS
  <2>2. Len(inner) = 6 + Len(o) /\ Len(o) \in 0 .. 8
    BY <1>2, <1>6
  <2>3. Len(der) = 2 + Len(inner)
    BY <1>7
  <2> QED BY <2>1, <2>2, <2>3, Zenon
<1>8. body = inner
  <2>1. body \in Seq(Int) /\ Len(body) = Len(inner)
    BY <1>lens, <1>7
  <2>2. ASSUME NEW i \in 1 .. Len(inner) PROVE body[i] = inner[i]
    <3>1. body[i] = der[3 + i - 1] /\ 3 + i - 1 = 2 + i
      BY <1>lens, <1>7, <2>2
    <3> QED BY <1>7, <2>2, <3>1
  <2> HIDE DEF body
  <2> QED BY <2>1, <2>2, <1>6
<1> HIDE DEF body
<1>9. rest \in Seq(Int) /\ Len(rest) = 3 + Len(o) /\ rest[1] = 3 /\ rest[2] = Len(o) + 1 /\ rest[3] = 0
      /\ \A i \in 1 .. Len(o) : rest[3 + i] = o[i]
  BY <1>2, <1>6, <1>8
<1> HIDE DEF rest
<1>10. SubSeq(rest, 4, Len(rest)) = o
  <2> DEFINE s == SubSeq(rest, 4, Len(rest))
  <2>1. s \in Seq(Int) /\ Len(s) = Len(o) /\ \A i \in 1 .. Len(s) : s[i] = o[i]
    BY <1>2, <1>9
  <2> QED BY <2>1, <1>5
<1>11. IsSequence(der)
  <2>0. \A y \in 6 .. 14, z \in 8 .. 16 : y < 128 /\ z >= 2
    OBVIOUS
  <2>1. der[2] < 128 /\ Len(der) >= 2 /\ Len(der) = 2 + der[2]
    BY <1>lens, <1>7, <2>0, Zenon
  <2> QED BY <1>7, <2>1, Zenon DEF IsSequence
<1>12. HasLevel(body)
  BY <1>2, <1>6, <1>8 DEF HasLevel
<1>13. HasCategories(rest)
  <2>0. \A x \in 0 .. 8 : 3 + x \in 3 .. 11 /\ 3 + x = 2 + (x + 1) /\ 0 <= 7
    OBVIOUS
  <2>1. Len(rest) \in 3 .. 11 /\ Len(rest) = 2 + rest[2] /\ rest[3] <= 7
    BY <1>2, <1>9, <2>0, Zenon
  <2> QED BY <1>9, <2>1, Zenon DEF HasCategories
<1>14. FromDer(der) = {[level |-> Signed(body[3]), categories |-> MaskOf(SubSeq(rest, 4, Len(rest)))]}
  BY <1>11, <1>12, <1>13, Zenon DEF FromDer, body, rest
<1>15. FromDer(der) = {[level |-> l.level, categories |-> l.categories]}
  BY <1>2, <1>3, <1>6, <1>8, <1>10, <1>14, Zenon
<1>16. l = [level |-> l.level, categories |-> l.categories]
  BY DEF Label
<1> QED BY <1>4, <1>15, <1>16

-----------------------------------------------------------------------------

\* Step (5) of the policy yields a label within the user's maximum and the
\* bound in force, and passes through libpdp's text form unchanged.
LEMMA EffectiveLabel ==
    ASSUME Option(Bound, Label), mnkc \in Label, NEW e \in Effective
    PROVE  /\ e \in Label /\ PdplOf(EncodeLabelText(e)) = e
           /\ e.level <= mnkc.level /\ e.categories \subseteq mnkc.categories
           /\ \A b \in Bound : Within(e, b)
           /\ StrictlyBelow(e, mnkc) <=> e # mnkc
<1>1. ASSUME NEW l \in Label
      PROVE  /\ PdplOf(EncodeLabelText(l)) = l
             /\ l.level <= l.level /\ ~StrictlyBelow(l, l)
  <2>1. l.level \in Int
    BY DEF Label, MinLevel, MaxLevel
  <2>2. l.level <= l.level /\ ~(l.level < l.level)
    BY <2>1
  <2>3. ~StrictlyBelow(l, l)
    BY <2>2 DEF StrictlyBelow
  <2>4. PdplOf(EncodeLabelText(l)) = [level |-> l.level, categories |-> l.categories]
    BY DEF PdplOf, EncodeLabelText
  <2>5. l = [level |-> l.level, categories |-> l.categories]
    BY DEF Label
  <2> QED BY <2>2, <2>3, <2>4, <2>5
<1>2. CASE Bound = {}
  <2>1. e = mnkc
    BY <1>2 DEF Effective
  <2> QED BY <2>1, <1>1, <1>2
<1>3. CASE Bound # {}
  <2>1. PICK b \in Label : Bound = {b}
    BY <1>3 DEF Option
  <2>2. e = IntersectCertWithUser(b, mnkc)
    BY <1>3, <2>1 DEF Effective
  <2>3. /\ e \in Label
        /\ e.level <= mnkc.level /\ e.categories \subseteq mnkc.categories
        /\ Within(e, b)
        /\ StrictlyBelow(e, mnkc) <=> e # mnkc
    BY <2>2, Intersection
  <2> QED BY <2>1, <2>3, <1>1, Zenon
<1> QED BY <1>2, <1>3, Zenon

\* The initial states satisfy the invariant.
LEMMA InitMac == MacInit => MacInv
<1> SUFFICES ASSUME MacInit PROVE MacInv
  OBVIOUS
<1>1. Unset \in Label
  BY DEF Unset, Label, MinLevel, MaxLevel, Category
<1>2. Option(cert_max, Label) /\ Option(policy.fallback, Label) /\ Option(mic, Levels)
      /\ Option(ext, Extensions)
  BY DEF MacInit, DefaultPolicy, Option
<1>3. {mnkc, proc, before} \subseteq Label
  BY <1>1, MacConstants DEF MacInit
<1>4. /\ AppliedLabelIsBounded /\ RequiredMeansBound /\ RuntimeRequiredFailsClosed
      /\ DeniedCallKeepsLabel /\ CappingIsAudited
  BY DEF MacInit, AppliedLabelIsBounded, RequiredMeansBound, RuntimeRequiredFailsClosed,
         DeniedCallKeepsLabel, CappingIsAudited
<1> QED BY <1>2, <1>3, <1>4 DEF MacInit, DefaultPolicy, MacInv

\* Every step keeps the invariant.
LEMMA MacStep == MacInv /\ [MacNext]_macVars => MacInv'
<1> SUFFICES ASSUME MacInv, [MacNext]_macVars PROVE MacInv'
  OBVIOUS
<1> DEFINE Outcomes == /\ AppliedLabelIsBounded /\ RequiredMeansBound
                       /\ RuntimeRequiredFailsClosed /\ DeniedCallKeepsLabel
                       /\ CappingIsAudited
<1>1. CASE Authenticate
  <2>1. Option(cert_max', Label)
    <3>1. CASE ext = {}
      BY <1>1, <3>1 DEF Authenticate, ExtractMaxIntegrity, Option
    <3>2. CASE ext # {}
      <4>1. PICK der \in Extensions : ext = {der}
        BY <3>2 DEF MacInv, Option
      <4>2. cert_max' = FromDer(der)
        BY <1>1, <4>1 DEF Authenticate, ExtractMaxIntegrity
      <4> QED BY <4>2, Decoded, MacConstants
    <3> QED BY <3>1, <3>2
  <2>2. Outcomes'
    BY <1>1, Zenon DEF Authenticate, MacInv, AppliedLabelIsBounded, RequiredMeansBound,
       RuntimeRequiredFailsClosed, DeniedCallKeepsLabel, CappingIsAudited
  <2> QED BY <1>1, <2>1, <2>2 DEF Authenticate, kernel, MacInv
<1>2. CASE OpenSession
  <2>1. PICK raw \in RawPolicies :
          \/ Rejected(raw) /\ Returns("config_error") /\ UNCHANGED policy
          \/ ~Rejected(raw) /\ policy' = ValidateMac(raw) /\ step' = "loaded" /\ outcome' = "none"
    BY <1>2 DEF OpenSession
  <2>2. IsRawPolicy(raw)
    BY MacConstants
  <2>3. Option(policy'.fallback, Label)
    BY <2>1, <2>2 DEF MacInv, IsRawPolicy, Rejected, ValidateMac, Option
  <2>4. policy'.runtime = "required" => astra_mac' = TRUE
    <3>1. astra_mac' = astra_mac /\ (policy.runtime = "required" => astra_mac = TRUE)
      BY <1>2, Zenon DEF OpenSession, host, MacInv
    <3>2. policy' = policy \/ (policy'.runtime = "required" => astra_mac = TRUE)
      BY <2>1 DEF Rejected, ValidateMac, Defaulted
    <3> QED BY <3>1, <3>2
  <2>5. Outcomes'
    BY <1>2, <2>1 DEF OpenSession, Returns, AppliedLabelIsBounded, RequiredMeansBound,
       RuntimeRequiredFailsClosed, DeniedCallKeepsLabel, CappingIsAudited
  <2> QED BY <1>2, <2>1, <2>3, <2>4, <2>5, Zenon DEF OpenSession, host, kernel, Returns, MacInv
<1>3. CASE BuildBackend
  <2>1. Outcomes'
    BY <1>3, Zenon DEF BuildBackend, Returns, MacInv, AppliedLabelIsBounded, RequiredMeansBound,
       RuntimeRequiredFailsClosed, DeniedCallKeepsLabel, CappingIsAudited
  <2>2. (step' = "built" /\ policy'.runtime = "required") =>
           backend' = "parsec" /\ (steady' = TRUE => strict' = 1)
    BY <1>3 DEF BuildBackend, Returns, FailsToBuild, Probe, kernel, MacInv
  <2> QED BY <1>3, <2>1, <2>2 DEF BuildBackend, host, kernel, Returns, MacInv
<1>4. CASE ProbeRuntime
  <2>1. outcome' # "applied" /\ proc' = before'
    BY <1>4, Zenon DEF ProbeRuntime, Returns, Deny, MacInv
  <2>2. outcome' = "skipped" => policy'.cert_integrity # "required"
    BY <1>4, Zenon DEF ProbeRuntime, Returns, Deny, SkipsInactive, MacInv
  <2>3. (outcome' = "skipped" /\ policy'.cert_integrity # "ignore") => Runtime # "Active"
    BY <1>4 DEF ProbeRuntime, Returns, Deny, MacInv
  <2>4. (policy'.runtime = "required" /\ Runtime # "Active") => ~(steady' = TRUE)
    BY <1>4 DEF ProbeRuntime, Runtime, Probe, MacInv
  <2>5. RuntimeRequiredFailsClosed'
    BY <1>4, <2>3, <2>4 DEF ProbeRuntime, MacInv, RuntimeRequiredFailsClosed
  <2>6. Outcomes'
    BY <2>1, <2>2, <2>5 DEF AppliedLabelIsBounded, RequiredMeansBound, DeniedCallKeepsLabel,
       CappingIsAudited
  <2> QED BY <1>4, <2>6, Zenon DEF ProbeRuntime, host, kernel, Returns, Deny, MacInv
<1>5. CASE ResolveMnkc
  <2>1. mnkc' \in Label
    <3>1. ASSUME NEW il \in mic PROVE [level |-> LevelOf(il), categories |-> {}] \in Label
      <4>1. il \in Nat
        BY <3>1, MacConstants DEF MacInv, Option
      <4>2. LevelOf(il) \in MinLevel .. MaxLevel
        BY <4>1 DEF LevelOf, MinLevel, MaxLevel
      <4> QED BY <4>2 DEF Label
    <3> QED BY <1>5, <3>1, Zenon DEF ResolveMnkc, MacInv
  <2>2. Outcomes'
    BY <1>5, Zenon DEF ResolveMnkc, Returns, Deny, MacInv, AppliedLabelIsBounded,
       RequiredMeansBound, RuntimeRequiredFailsClosed, DeniedCallKeepsLabel, CappingIsAudited
  <2> QED BY <1>5, <2>1, <2>2, Zenon DEF ResolveMnkc, host, kernel, Returns, Deny, MacInv
<1>6. CASE ApplySession
  <2>1. PICK e \in Effective :
          /\ capped' = StrictlyBelow(e, mnkc)
          /\ \/ /\ proc' = PdplOf(EncodeLabelText(e))
                /\ Returns("applied") /\ UNCHANGED monitored
             \/ UNCHANGED proc /\ Deny("session_error")
    BY <1>6 DEF ApplySession
  <2>2. Option(Bound, Label)
    BY DEF MacInv, Bound
  <2>3. /\ e \in Label /\ PdplOf(EncodeLabelText(e)) = e
        /\ e.level <= mnkc.level /\ e.categories \subseteq mnkc.categories
        /\ \A b \in Bound : Within(e, b)
        /\ StrictlyBelow(e, mnkc) <=> e # mnkc
    BY <2>2, EffectiveLabel, Zenon DEF MacInv
  <2>4. Bound' = Bound
    BY <1>6 DEF ApplySession, host, Bound
  <2>5. CASE proc' = PdplOf(EncodeLabelText(e)) /\ Returns("applied")
    <3>1. proc' = e /\ outcome' = "applied"
      BY <2>3, <2>5 DEF Returns
    <3>2. RequiredMeansBound'
      BY <1>6, <2>3, <2>4, <3>1, Zenon DEF ApplySession, host, MacInv, RequiredMeansBound, Bound, Option
    <3>3. AppliedLabelIsBounded' /\ CappingIsAudited'
      BY <1>6, <2>1, <2>3, <2>4, <3>1, Zenon
         DEF ApplySession, AppliedLabelIsBounded, CappingIsAudited
    <3>4. RuntimeRequiredFailsClosed' /\ DeniedCallKeepsLabel'
      BY <3>1 DEF RuntimeRequiredFailsClosed, DeniedCallKeepsLabel
    <3> QED BY <1>6, <2>3, <2>5, <3>1, <3>2, <3>3, <3>4, Zenon
            DEF ApplySession, host, kernel, Returns, MacInv
  <2>6. CASE UNCHANGED proc /\ Deny("session_error")
    <3>1. Outcomes'
      BY <1>6, <2>6, Zenon DEF ApplySession, Returns, Deny, MacInv, AppliedLabelIsBounded,
         RequiredMeansBound, RuntimeRequiredFailsClosed, DeniedCallKeepsLabel, CappingIsAudited
    <3> QED BY <1>6, <2>6, <3>1, Zenon DEF ApplySession, host, kernel, Returns, Deny, MacInv
  <2> QED BY <2>1, <2>5, <2>6
<1>7. CASE HostChanges
  <2>1. Option(mic', Levels)
    BY <1>7, Zenon DEF HostChanges, MacInv, Option
  <2>2. Outcomes'
    <3>1. UNCHANGED <<outcome, policy, cert_max, mnkc, proc, before, capped>>
      BY <1>7 DEF HostChanges, host
    <3>2. steady' = steady \/ steady' = FALSE
      BY <1>7 DEF HostChanges
    <3>3. AppliedLabelIsBounded'
      BY <3>1, Zenon DEF MacInv, AppliedLabelIsBounded, Bound
    <3>4. RequiredMeansBound' /\ DeniedCallKeepsLabel' /\ CappingIsAudited'
      BY <3>1 DEF MacInv, RequiredMeansBound, Bound, DeniedCallKeepsLabel, CappingIsAudited
    <3>5. RuntimeRequiredFailsClosed'
      BY <3>1, <3>2, Zenon DEF MacInv, RuntimeRequiredFailsClosed
    <3> QED BY <3>3, <3>4, <3>5
  <2>3. (step' = "built" /\ policy'.runtime = "required") =>
           backend' = "parsec" /\ (steady' = TRUE => strict' = 1)
    BY <1>7 DEF HostChanges, MacInv
  <2> QED BY <1>7, <2>1, <2>2, <2>3, Zenon DEF HostChanges, host, MacInv
<1>8. CASE UNCHANGED macVars
  <2>1. Outcomes'
    BY <1>8, Zenon DEF macVars, host, MacInv, AppliedLabelIsBounded, Bound, RequiredMeansBound,
       RuntimeRequiredFailsClosed, DeniedCallKeepsLabel, CappingIsAudited
  <2> QED BY <1>8, <2>1, Zenon DEF macVars, host, kernel, MacInv
<1>9. CASE Done
  BY <1>8, <1>9 DEF Done
<1> QED BY <1>1, <1>2, <1>3, <1>4, <1>5, <1>6, <1>7, <1>8, <1>9 DEF MacNext

\* No label applied exceeds the user's maximum or the bound in force, for every
\* certificate, policy, user entry and number of calls.
THEOREM AppliedLabelAlwaysBounded == MacSpec => []AppliedLabelIsBounded
<1>1. MacInv => AppliedLabelIsBounded
  BY DEF MacInv
<1> QED BY <1>1, InitMac, MacStep, PTL DEF MacSpec

\* Under cert_integrity = "required" a session that opens is bound by its
\* certificate.
THEOREM RequiredAlwaysBinds == MacSpec => []RequiredMeansBound
<1>1. MacInv => RequiredMeansBound
  BY DEF MacInv
<1> QED BY <1>1, InitMac, MacStep, PTL DEF MacSpec

\* Under runtime = "required" only a change of strict mode between the two
\* probes of one call lets a session open unlabelled.
THEOREM RuntimeRequiredAlwaysFailsClosed == MacSpec => []RuntimeRequiredFailsClosed
<1>1. MacInv => RuntimeRequiredFailsClosed
  BY DEF MacInv
<1> QED BY <1>1, InitMac, MacStep, PTL DEF MacSpec

\* The capping event tells the truth about every label applied.
THEOREM CappingAlwaysAudited == MacSpec => []CappingIsAudited
<1>1. MacInv => CappingIsAudited
  BY DEF MacInv
<1> QED BY <1>1, InitMac, MacStep, PTL DEF MacSpec

\* After authentication the bound kept is the one the extension decodes to.
BoundKept == step # "idle" => cert_max = ExtractMaxIntegrity(ext)

\* The bound an issuer encoded with to_der is the bound the login uses, for
\* every label: from_der undoes to_der, and no later step touches the bound.
THEOREM IssuedBoundAlwaysUsed == MacSpec => []IssuedBoundIsUsed
<1>1. MacInit => BoundKept
  BY DEF MacInit, BoundKept
<1>2. BoundKept /\ [MacNext]_macVars => BoundKept'
  <2> SUFFICES ASSUME BoundKept, [MacNext]_macVars PROVE BoundKept'
    OBVIOUS
  <2>1. CASE Authenticate
    BY <2>1 DEF Authenticate, BoundKept, ExtractMaxIntegrity
  <2>2. CASE UNCHANGED <<ext, cert_max>> /\ (step' # "idle" => step # "idle")
    BY <2>2 DEF BoundKept, ExtractMaxIntegrity
  <2>3. CASE OpenSession
    BY <2>2, <2>3 DEF OpenSession, host
  <2>4. CASE BuildBackend
    BY <2>2, <2>4 DEF BuildBackend, host
  <2>5. CASE ProbeRuntime
    BY <2>2, <2>5 DEF ProbeRuntime, host
  <2>6. CASE ResolveMnkc
    BY <2>2, <2>6 DEF ResolveMnkc, host
  <2>7. CASE ApplySession
    BY <2>2, <2>7 DEF ApplySession, host
  <2>8. CASE HostChanges
    BY <2>2, <2>8 DEF HostChanges, host
  <2>9. CASE UNCHANGED macVars
    BY <2>2, <2>9 DEF macVars, host
  <2>10. CASE Done
    BY <2>9, <2>10 DEF Done
  <2> QED BY <2>1, <2>3, <2>4, <2>5, <2>6, <2>7, <2>8, <2>9, <2>10 DEF MacNext
<1>3. BoundKept => IssuedBoundIsUsed
  <2> SUFFICES ASSUME BoundKept, step # "idle", NEW l \in Issued, ext = {ToDer(l)}
               PROVE  cert_max = {l}
    BY Zenon DEF IssuedBoundIsUsed
  <2>1. cert_max = UNION {FromDer(der) : der \in {ToDer(l)}}
    BY DEF BoundKept, ExtractMaxIntegrity
  <2>2. FromDer(ToDer(l)) = {l}
    BY MacConstants, DerRoundTrip, Zenon
  <2> QED BY <2>1, <2>2
<1> QED BY <1>1, <1>2, <1>3, PTL DEF MacSpec

=============================================================================
