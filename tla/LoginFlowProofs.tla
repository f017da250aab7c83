--------------------------- MODULE LoginFlowProofs ---------------------------
(***************************************************************************)
(* What a call of pam_sm_authenticate guarantees for every budget of PINs, *)
(* number of candidates, tokens, slots and moves, and for extensions,      *)
(* mapping tables and tokens with any number of entries.                   *)
(***************************************************************************)
EXTENDS LoginFlow, TLAPS, WellFoundedInduction

\* A leaf that names no prover is tried with these in turn, the last time with
\* more time.
USE SMT, Zenon, SMTT(30)

-----------------------------------------------------------------------------
(* The operators the flow decides with.                                    *)

\* SelectInSeq, which the walks over objects and extensions are written with,
\* finds the first element there is.
LEMMA LeastIndex ==
    ASSUME NEW I, I \subseteq Nat, I # {}
    PROVE  Min(I) \in I /\ \A j \in I : Min(I) <= j
<1>1. PICK m \in I : \A j \in I : ~ (<<j, m>> \in OpToRel(<, Nat))
  BY NatLessThanWellFounded, WFMin, Zenon
<1>2. \A j \in I : m <= j
  <2>1. ASSUME NEW j \in I, j < m PROVE <<j, m>> \in OpToRel(<, Nat)
    <3>1. <<j, m>> \in Nat \X Nat /\ <<j, m>>[1] < <<j, m>>[2]
      BY <2>1
    <3> QED BY <3>1, Zenon DEF OpToRel
  <2>2. \A j \in I : ~ (j < m)
    BY <1>1, <2>1, Zenon
  <2> QED BY <2>2
<1>3. \E m1 \in I : \A j \in I : m1 =< j
  BY <1>2
<1> QED BY <1>3, ZenonT(30) DEF Min

\* find_certificate comes back empty-handed only if no object on the token is
\* readable, has the configured label and parses; what it returns is such an
\* object.
LEMMA CertificateSearch ==
    ASSUME NEW S, NEW certs \in Seq(S), NEW by_label \in BOOLEAN, NEW pairs
    PROVE  LET usable(i) == certs[i].body \in pairs /\ (by_label => certs[i].labelled)
           IN  FindCertificate(certs, by_label, pairs) = << >>
                 <=> ~ \E i \in DOMAIN certs : usable(i)
<1> DEFINE I == {i \in 1 .. Len(certs) : (by_label => certs[i].labelled) /\ certs[i].body \in pairs}
<1>1. DOMAIN certs = 1 .. Len(certs) /\ I \subseteq Nat /\ 0 \notin I
  OBVIOUS
<1>2. FindCertificate(certs, by_label, pairs) =
        LET i == IF I # {} THEN Min(I) ELSE 0 IN IF i = 0 THEN << >> ELSE <<certs[i]>>
  BY DEF FindCertificate, SelectInSeq
<1>3. CASE I = {}
  BY <1>1, <1>2, <1>3
<1>4. CASE I # {}
  <2>1. Min(I) \in I
    BY <1>1, <1>4, LeastIndex, ZenonT(30)
  <2> QED BY <1>1, <1>2, <1>4, <2>1
<1> QED BY <1>3, <1>4

\* The extension an OID's value is taken from is the first of that OID, unless
\* the walk breaks off before it.
LEMMA ExtensionWalk ==
    ASSUME NEW S, NEW exts \in Seq(S), NEW oid, oid # "broken"
    PROVE  LET e == ExtractExtension(exts, oid)
           IN  /\ e.status = "ok" => Binding(exts, oid) = {e.value}
               /\ e.status # "ok" => Binding(exts, oid) = {} /\ e.value = << >>
<1> DEFINE I == {i \in 1 .. Len(exts) : exts[i].oid \in {oid, "broken"}}
           n == IF I # {} THEN Min(I) ELSE 0
           e == ExtractExtension(exts, oid)
           first(j) == exts[j].oid = oid /\ \A k \in 1 .. j - 1 : exts[k].oid \notin {oid, "broken"}
           J == {j \in DOMAIN exts : first(j)}
<1>1. DOMAIN exts = 1 .. Len(exts) /\ I \subseteq Nat /\ 0 \notin I /\ Len(exts) \in Nat
  OBVIOUS
<1>2. e = CASE n = 0 -> Outcome("missing", << >>)
            [] n # 0 /\ exts[n].oid = "broken" -> Outcome("malformed", << >>)
            [] OTHER -> Outcome("ok", exts[n].value)
  BY DEF ExtractExtension, SelectInSeq
<1>3. Binding(exts, oid) = {exts[i].value : i \in J}
  BY DEF Binding
<1>4. CASE I = {}
  <2>1. J = {}
    BY <1>1, <1>4
  <2>2. e = Outcome("missing", << >>)
    BY <1>2, <1>4
  <2> QED BY <1>3, <2>1, <2>2 DEF Outcome
<1>5. CASE I # {}
  <2>1. n \in I /\ \A j \in I : n <= j
    BY <1>1, <1>5, LeastIndex, ZenonT(30)
  <2> HIDE DEF n
  <2>2. CASE exts[n].oid = "broken"
    <3>1. J = {}
      BY <1>1, <2>1, <2>2
    <3>2. e = Outcome("malformed", << >>)
      BY <1>1, <1>2, <2>1, <2>2
    <3> QED BY <1>3, <3>1, <3>2 DEF Outcome
  <2>3. CASE exts[n].oid # "broken"
    <3>1. J = {n}
      BY <1>1, <2>1, <2>3
    <3>2. e = Outcome("ok", exts[n].value)
      BY <1>1, <1>2, <2>1, <2>3
    <3> QED BY <1>3, <3>1, <3>2 DEF Outcome
  <2> QED BY <2>2, <2>3
<1> QED BY <1>4, <1>5

\* parse_seq_of_utf8 accepts exactly the sound extensions.
LEMMA SoundStrings ==
    ASSUME NEW S, NEW exts \in Seq(S), NEW oid, oid # "broken"
    PROVE  LET e == ParseStrings(exts, oid)
               sound == {v \in Binding(exts, oid) : WellFormed(v, {"undecodable"})}
           IN  /\ e.status = "ok" => sound = {e.value}
               /\ e.status # "ok" => sound = {} /\ e.value = << >>
<1>1. LET e == ExtractExtension(exts, oid)
      IN  /\ e.status = "ok" => Binding(exts, oid) = {e.value}
          /\ e.status # "ok" => Binding(exts, oid) = {} /\ e.value = << >>
  BY ExtensionWalk
<1> QED BY <1>1 DEF ParseStrings, WellFormed, Outcome

\* verify_host_binding admits exactly the hosts the issuer named.
LEMMA HostVerdict ==
    ASSUME NEW S, NEW exts \in Seq(S), NEW host
    PROVE  VerifyHostBinding(exts, host) <=> HostIsBound(exts, host)
<1> DEFINE e == ParseStrings(exts, "host")
           sound == {v \in Binding(exts, "host") : WellFormed(v, {"undecodable"})}
<1>1. /\ e.status = "ok" => sound = {e.value}
      /\ e.status # "ok" => sound = {} /\ e.value = << >>
  BY SoundStrings
<1>2. HostIsBound(exts, host) <=>
        \E v \in sound : /\ \A i \in DOMAIN v : v[i].kind # "bad_digest"
                         /\ Names(v, host, {"digest", "plain"})
  BY DEF HostIsBound, WellFormed
<1>3. VerifyHostBinding(exts, host) <=>
        /\ e.status = "ok"
        /\ ~ \E i \in DOMAIN e.value : e.value[i].kind = "bad_digest"
        /\ Names(e.value, host, {"digest", "plain"})
  BY DEF VerifyHostBinding, ParseHostBinding, Outcome, Names
<1> QED BY <1>1, <1>2, <1>3

\* Step 10 admits exactly the users the issuer named or, failing a sound
\* extension, the administrator mapped.
LEMMA UserVerdict ==
    ASSUME NEW S, NEW exts \in Seq(S), NEW user, NEW T, NEW mappings \in Seq(T),
           \A i \in DOMAIN mappings : mappings[i].criterion \in {"cn", "email", "upn"}
    PROVE  AuthoriseUser(exts, user, mappings) <=> UserIsBound(exts, user, mappings)
<1> DEFINE e == ParseUserBinding(exts)
           sound == {v \in Binding(exts, "user") : WellFormed(v, {"undecodable"})}
<1>1. /\ e.status = "ok" => sound = {e.value}
      /\ e.status # "ok" => sound = {} /\ e.value = << >>
  BY SoundStrings DEF ParseUserBinding
<1>2. VerifyUserBinding(exts, user) <=> e.status = "ok" /\ Names(e.value, user, {"plain"})
  BY DEF VerifyUserBinding, Names
<1>3. MatchUser(user, mappings) = "ok" <=>
        \E i \in DOMAIN mappings : /\ mappings[i].pam_user = user
                                   /\ mappings[i].criterion # "upn"
                                   /\ mappings[i].fits
  BY DEF MatchUser
<1> QED BY <1>1, <1>2, <1>3, ZenonT(30) DEF AuthoriseUser, UserIsBound

\* A function over 1 .. k is a sequence of its values.
LEMMA UpToAreSeqs ==
    ASSUME NEW S, NEW n \in Nat
    PROVE  UpTo(S, n) \subseteq Seq(S)
<1> SUFFICES ASSUME NEW x, x \in UpTo(S, n) PROVE x \in Seq(S)
  OBVIOUS
<1>1. PICK k \in 0 .. n : x \in [1 .. k -> S]
  BY DEF UpTo
<1>2. k \in Nat
  BY <1>1
<1> QED BY <1>1, <1>2

\* What the flow concludes from a search or a verdict is true of the credential.
LEMMA Verdicts ==
    /\ \A d \in Discoveries : d.content \in Content /\ (d.result = "found" => d.capped)
    /\ \A c \in CertificateSearches : c.found = << >> <=> ~c.exists
    /\ \A v \in HostVerdicts : v.bound <=> v.verified
    /\ \A v \in UserVerdicts : (v.bound <=> v.authorised) /\ v.by \in {"CertScope", "Mapping"}
<1>0. MaxEntries \in Nat /\ MaxObjects \in Nat
  BY LoginConstants
<1>1. ASSUME NEW d \in Discoveries PROVE d.content \in Content /\ (d.result = "found" => d.capped)
  BY DEF Discoveries, DiscoverCredentials, ReadFile, File, MaxP12Bytes, MaxChainBytes
<1>2. ASSUME NEW c \in CertificateSearches PROVE c.found = << >> <=> ~c.exists
  <2>1. PICK certs \in CertObjects, by_label \in BOOLEAN :
          c = [exists |-> \E i \in DOMAIN certs : certs[i].body \in Pair /\ (by_label => certs[i].labelled),
               found  |-> FindCertificate(certs, by_label, Pair)]
    BY DEF CertificateSearches
  <2>2. certs \in Seq(CertObject({0, 1}, Pair))
    BY <1>0, UpToAreSeqs DEF CertObjects
  <2> QED BY <2>1, <2>2, CertificateSearch
<1>3. ASSUME NEW v \in HostVerdicts PROVE v.bound <=> v.verified
  <2>1. PICK x \in Extensions("host") :
          v = [bound |-> HostIsBound(x, "me"), verified |-> VerifyHostBinding(x, "me")]
    BY DEF HostVerdicts
  <2>2. x \in Seq(Extension({"host"}, Who, MaxEntries))
    BY <1>0, UpToAreSeqs DEF Extensions
  <2> QED BY <2>1, <2>2, HostVerdict
<1>4. ASSUME NEW v \in UserVerdicts
      PROVE  (v.bound <=> v.authorised) /\ v.by \in {"CertScope", "Mapping"}
  <2>1. PICK x \in Extensions("user"), t \in Mappings :
          v = [bound      |-> UserIsBound(x, "me", t),
               authorised |-> AuthoriseUser(x, "me", t),
               by         |-> IF ParseUserBinding(x).status = "ok" THEN "CertScope" ELSE "Mapping"]
    BY DEF UserVerdicts
  <2>2. x \in Seq(Extension({"user"}, Who, MaxEntries)) /\ t \in Seq(UserMapping(Who))
    BY <1>0, UpToAreSeqs DEF Extensions, Mappings
  <2>3. \A i \in DOMAIN t : t[i].criterion \in {"cn", "email", "upn"}
    <3>1. \A i \in DOMAIN t : t[i] \in UserMapping(Who)
      BY <2>2
    <3> QED BY <3>1 DEF UserMapping
  <2>4. AuthoriseUser(x, "me", t) <=> UserIsBound(x, "me", t)
    BY <2>2, <2>3, UserVerdict
  <2> QED BY <2>1, <2>4
<1> QED BY <1>1, <1>2, <1>3, <1>4

-----------------------------------------------------------------------------
(* The inductive invariant, in five parts.                                 *)

\* Steps of the flow, grouped by what has been done before them.
Late == {"assembled", "post_hooks", "notify", "set_data"}
AfterKey == {"trust", "host", "user"} \cup Late
Pkcs12Only == {"wait_usb", "mount", "discover", "corrupt"}
Pkcs11Only == {"load_module", "wait_token", "scan", "serial", "locked", "certificate", "key",
               "mechanism"}
BeforePin == {"entry", "items", "wiring", "dispatch", "load_module", "pre_hooks", "wait_usb",
              "mount", "discover", "wait_token", "scan", "serial"}
LoggedIn == {"certificate", "key", "mechanism", "challenge", "trust", "host", "user", "assembled"}

\* The call has succeeded.
Granted == pc = "returned" /\ err = "none"

\* Each path of the flow belongs to its mode, and an answer exists only once
\* the call has returned.
PathInv ==
    /\ ctx \in BOOLEAN /\ notified \in BOOLEAN
    /\ pc \in Pkcs12Only => mode = "pkcs12"
    /\ pc \in Pkcs11Only => mode = "pkcs11"
    /\ pc \in {"pre_hooks", "pin", "exhausted", "challenge"} \cup AfterKey
         => mode \in {"pkcs12", "pkcs11"}
    /\ pc # "returned" => err = "none" /\ rc = -1 /\ ctx = FALSE
    /\ rc = 0 \/ ctx = TRUE => Granted
    /\ notified = TRUE => pc \in {"set_data", "returned"}

\* Candidates: the mount guard is alive exactly while a partition is in use,
\* and what is mounted or created belongs to it or could not be undone.
DeviceInv ==
    /\ seen \in Seq(Content \cup {"no_p12"})
    /\ guard # 0 => pc \notin (BeforePin \ {"discover"}) \cup {"returned"}
    /\ pc # "returned" => dirs \subseteq stuck \cup (IF guard = 0 THEN {} ELSE {guard})
    /\ session # Nothing => pc \in LoggedIn
    /\ DevicesReleased

\* PINs: the prompts stay within the budget of the loop, and a token has lost
\* at most one try for each of them.
Budget == IF mode = "pkcs12" THEN Pkcs12Tries ELSE MaxPinAttempts
PinInv ==
    /\ prompts \in 0 .. Budget
    /\ pc \in BeforePin => prompts = 0
    /\ pc = "pin" => prompts < Budget
    /\ pc = "exhausted" => prompts = Budget
    /\ pc \in {"challenge"} \cup LoggedIn \cup AfterKey => prompts > 0
    /\ Granted \/ notified = TRUE => prompts > 0
    /\ err = "MaxTries" => prompts = Budget
    /\ carried \in [Token -> 0 .. TokenTries]
    /\ tries \in [Token -> 0 .. TokenTries]
    /\ mode # "pkcs11" => tries = carried
    /\ mode = "pkcs11" => \A t \in Token : carried[t] <= tries[t] + prompts
    /\ pc = "locked" \/ err = "PinLocked" => \E t \in Token : carried[t] <= MaxPinAttempts

\* Tokens: a slot holds what the last move put there, so that whatever is in
\* the chosen slot came there with the insertion whose serial number was read
\* or later; the session, and what it was used for, stays with one insertion.
SerialPrecedes(x) == x \in Insertion /\ (serial_of = x \/ serial_of.move < x.move)
TokenInv ==
    /\ moves \in 0 .. MaxMoves
    /\ slots \in [Slot -> {Nothing} \cup Insertion]
    /\ \A s \in Slot : slots[s].move <= moves
    /\ listed \subseteq Slot
    /\ mode = "pkcs11" /\ pc \in {"serial", "pin"} \cup LoggedIn => slot \in Slot
    /\ mode = "pkcs11" /\ pc = "pin" =>
          /\ serial_of \in Insertion /\ serial_of.move <= moves
          /\ slots[slot] # Nothing => SerialPrecedes(slots[slot])
    /\ mode = "pkcs11" /\ pc \in LoggedIn => SerialPrecedes(session)
    /\ pc \in BeforePin \cup {"pin", "certificate"} => used = {}
    /\ mode = "pkcs11" /\ pc \in LoggedIn \ {"certificate"} => used = {session}
    /\ (/\ mode = "pkcs11"
        /\ pc \in {"post_hooks", "notify", "set_data"} \/ Granted \/ notified = TRUE) =>
          \E x \in Insertion : used = {x} /\ SerialPrecedes(x)

\* Verification: exactly the checks the flow has passed are recorded.
Fact == {"capped", "certificate", "possession", "trusted", "host", "user"}
Passed(f) ==
    \/ /\ f = "capped" /\ mode = "pkcs12"
       /\ pc \in {"pin", "exhausted", "corrupt", "challenge"} \cup AfterKey
    \/ /\ f = "certificate" /\ mode = "pkcs11"
       /\ pc \in {"key", "mechanism", "challenge"} \cup AfterKey
    \/ f = "possession" /\ pc \in AfterKey
    \/ f = "trusted" /\ pc \in AfterKey \ {"trust"}
    \/ f = "host" /\ pc \in AfterKey \ {"trust", "host"}
    \/ f = "user" /\ pc \in Late
CheckInv ==
    /\ pc # "returned" => \A f \in Fact : f \in facts <=> Passed(f)
    /\ Granted \/ notified = TRUE => Required \subseteq facts
    /\ err = "NoCertificate" => "certificate" \notin facts
    /\ err = "CertScope" => ~ {"host", "user"} \subseteq facts
    /\ err = "Mapping" => "user" \notin facts

\* Candidates searched: all but the last held no bundle, and the last one is
\* that bundle once a PIN has opened it.
Searched(n) == \A i \in 1 .. n : seen[i] \in {"no_p12", "junk"}
SearchInv ==
    /\ pc \in BeforePin => Searched(Len(seen))
    /\ mode = "pkcs12" /\ pc \in {"pin", "exhausted", "corrupt", "challenge"} \cup AfterKey =>
          seen # << >> /\ Last(seen) # "junk" /\ Last(seen) # "no_p12" /\ Searched(Len(seen) - 1)
    /\ mode = "pkcs12" /\ (pc \in {"challenge"} \cup AfterKey \/ Granted \/ notified = TRUE) =>
          Last(seen) = "bundle" /\ Searched(Len(seen) - 1)
    /\ err \in {"P12NotFound", "P12Envelope"} =>
          /\ Len(seen) = cands
          /\ Searched(Len(seen))
          /\ err = "P12Envelope" <=> \E i \in 1 .. Len(seen) : seen[i] = "junk"

-----------------------------------------------------------------------------
(* PathInv                                                                 *)

\* No error is reported to PAM as PAM_SUCCESS.
LEMMA FailureCodes ==
    /\ PamCode("none") = 0
    /\ PamCode("Config") # 0 /\ PamCode("HostIdentity") # 0 /\ PamCode("Wiring") # 0
    /\ PamCode("Rng") # 0 /\ PamCode("Panic") # 0 /\ PamCode("Usb") # 0 /\ PamCode("Mount") # 0
    /\ PamCode("P12NotFound") # 0 /\ PamCode("Discovery") # 0 /\ PamCode("P12Envelope") # 0
    /\ PamCode("EngineNotImplemented") # 0 /\ PamCode("Pkcs11Load") # 0 /\ PamCode("TokenWait") # 0
    /\ PamCode("TokenSerialMissing") # 0 /\ PamCode("MaxTries") # 0 /\ PamCode("PinLocked") # 0
    /\ PamCode("Pkcs12") # 0 /\ PamCode("Crypto") # 0 /\ PamCode("Trust") # 0
    /\ PamCode("Mapping") # 0 /\ PamCode("SetData") # 0 /\ PamCode("PamUser") # 0
    /\ PamCode("Conv") # 0 /\ PamCode("CertScope") # 0 /\ PamCode("PreAuthHook") # 0
    /\ PamCode("PostAuthHook") # 0 /\ PamCode("Pkcs11") # 0 /\ PamCode("NoCertificate") # 0
    /\ PamCode("NoKey") # 0 /\ PamCode("NoMechanism") # 0
BY DEF PamCode, NoUsableToken, TokenFailure

\* Every step keeps to the path of its mode.
LEMMA PathStep == PathInv /\ [Next]_vars => PathInv'
<1> SUFFICES ASSUME PathInv, [Next]_vars PROVE PathInv'
  OBVIOUS
<1> USE DEF Pkcs12Only, Pkcs11Only, AfterKey, Late
<1>1. ASSUME NEW e, PamCode(e) # 0, Return(e), pc # "returned", ctx' = ctx
      PROVE  PathInv'
  BY <1>1, FailureCodes DEF PathInv, Granted, Return
<1>2. ASSUME NEW e, PamCode(e) # 0, Fail(e), pc # "returned"
      PROVE  PathInv'
  BY <1>1, <1>2 DEF Fail
<1>3. CASE LoadConfig \/ ReadItems \/ Wire \/ Dispatch \/ LoadModule \/ PreAuthHooks
  BY <1>2, <1>3, FailureCodes, ZenonT(30)
     DEF PathInv, Granted, LoadConfig, ReadItems, Wire, Dispatch, LoadModule, PreAuthHooks, Goto
<1>4. CASE WaitForUsb \/ NothingBound \/ MountCandidate \/ Discover \/ PromptPkcs12
  BY <1>2, <1>4, FailureCodes, ZenonT(30)
     DEF PathInv, Granted, WaitForUsb, NothingBound, MountCandidate, Discover, PromptPkcs12,
         WrongPin
<1>5. CASE TokenMoves \/ FindSlot \/ ScanSlot \/ ReadTokenSerial \/ PromptPkcs11
  BY <1>2, <1>5, FailureCodes, ZenonT(30)
     DEF PathInv, Granted, TokenMoves, FindSlot, ScanSlot, KeepPolling, SearchUnchanged,
         ReadTokenSerial, PromptPkcs11
<1>6. CASE PinLoopFails \/ FindCertificateObject \/ FindPrivateKeyObject \/ ChooseMechanism
  BY <1>1, <1>2, <1>6, FailureCodes, ZenonT(30)
     DEF PathInv, Granted, PinLoopFails, FindCertificateObject, FindPrivateKeyObject,
         ChooseMechanism, Goto
<1>7. CASE Challenge \/ VerifyTrust \/ VerifyHost \/ VerifyUser
  BY <1>1, <1>2, <1>7, FailureCodes, Verdicts, ZenonT(30)
     DEF PathInv, Granted, Challenge, VerifyTrust, VerifyHost, VerifyUser, Decide
<1>8. CASE AssembleContext \/ PostAuthHooks \/ Notify \/ SetAuthContext
  BY <1>2, <1>8, FailureCodes, ZenonT(30)
     DEF PathInv, Granted, AssembleContext, PostAuthHooks, Notify, SetAuthContext, Goto, Return
<1>9. CASE Panics
  BY <1>2, <1>9, FailureCodes DEF Panics
<1>10. CASE Done \/ UNCHANGED vars
  BY <1>10 DEF PathInv, Granted, Done, vars
<1> QED BY <1>3, <1>4, <1>5, <1>6, <1>7, <1>8, <1>9, <1>10 DEF Next

-----------------------------------------------------------------------------
(* DeviceInv                                                               *)

\* Every step accounts for the partition in use and the token's session.
LEMMA DeviceStep == DeviceInv /\ [Next]_vars => DeviceInv'
<1> SUFFICES ASSUME DeviceInv, [Next]_vars PROVE DeviceInv'
  OBVIOUS
<1> USE DEF BeforePin, LoggedIn
<1>1. ASSUME NEW e, Return(e), pc # "returned"
      PROVE  DeviceInv'
  BY <1>1 DEF DeviceInv, DevicesReleased, Return, DropMount
<1>2. ASSUME NEW e, Fail(e), pc # "returned"
      PROVE  DeviceInv'
  BY <1>1, <1>2 DEF Fail
<1>3. ASSUME NEW next, Goto(next), pc # "returned", next # "returned",
             next \in (BeforePin \ {"discover"}) => pc \in BeforePin \ {"discover"},
             next \in LoggedIn \/ pc \notin LoggedIn
      PROVE  DeviceInv'
  BY <1>3 DEF DeviceInv, DevicesReleased, Goto, usbVars, tokenVars
<1>4. CASE LoadConfig \/ ReadItems \/ Wire \/ Dispatch \/ LoadModule \/ PreAuthHooks
  BY <1>2, <1>3, <1>4 DEF LoadConfig, ReadItems, Wire, Dispatch, LoadModule, PreAuthHooks
<1>5. CASE WaitForUsb
  BY <1>2, <1>5 DEF DeviceInv, DevicesReleased, WaitForUsb, tokenVars
<1>6. CASE NothingBound
  BY <1>2, <1>6 DEF NothingBound
<1>7. CASE MountCandidate
  <2>1. Len(seen) \in Nat
    BY DEF DeviceInv
  <2> QED BY <1>7, <2>1 DEF DeviceInv, DevicesReleased, MountCandidate, tokenVars
<1>8. CASE Discover
  <2>1. ASSUME NEW d \in Discoveries PROVE d.content \in Content
    BY Verdicts
  <2>2. ASSUME NEW d \in Discoveries, d.result = "found" \/ d.result = "P12NotFound"
        PROVE  Append(seen, IF d.result = "found" THEN d.content ELSE "no_p12")
                  \in Seq(Content \cup {"no_p12"})
    BY <2>1 DEF DeviceInv
  <2> QED BY <1>2, <1>8, <2>2 DEF DeviceInv, DevicesReleased, Discover, DropMount, tokenVars
<1>9. CASE PromptPkcs12
  BY <1>2, <1>9 DEF DeviceInv, DevicesReleased, PromptPkcs12, WrongPin, usbVars, tokenVars
<1>10. CASE TokenMoves
  BY <1>10 DEF DeviceInv, DevicesReleased, TokenMoves, InsertToken, RemoveToken, usbVars
<1>11. CASE FindSlot \/ ScanSlot
  BY <1>2, <1>11
     DEF DeviceInv, DevicesReleased, FindSlot, ScanSlot, KeepPolling, SearchUnchanged, usbVars
<1>12. CASE ReadTokenSerial \/ PromptPkcs11
  BY <1>2, <1>12 DEF DeviceInv, DevicesReleased, ReadTokenSerial, PromptPkcs11, usbVars
<1>13. CASE PinLoopFails \/ Panics
  BY <1>2, <1>13 DEF PinLoopFails, Panics
<1>14. CASE FindCertificateObject \/ FindPrivateKeyObject \/ ChooseMechanism
  BY <1>1, <1>2, <1>3, <1>14
     DEF DeviceInv, DevicesReleased, FindCertificateObject, FindPrivateKeyObject, ChooseMechanism,
         usbVars
<1>15. CASE Challenge \/ VerifyTrust \/ VerifyHost \/ VerifyUser
  BY <1>1, <1>2, <1>15
     DEF DeviceInv, DevicesReleased, Challenge, VerifyTrust, VerifyHost, VerifyUser, Decide,
         usbVars, tokenVars
<1>16. CASE AssembleContext \/ PostAuthHooks \/ Notify \/ SetAuthContext
  BY <1>1, <1>2, <1>3, <1>16
     DEF DeviceInv, DevicesReleased, AssembleContext, PostAuthHooks, Notify, SetAuthContext,
         usbVars, tokenVars
<1>17. CASE Done \/ UNCHANGED vars
  BY <1>17 DEF DeviceInv, DevicesReleased, Done, vars, usbVars, tokenVars
<1> QED BY <1>4, <1>5, <1>6, <1>7, <1>8, <1>9, <1>10, <1>11, <1>12, <1>13, <1>14, <1>15, <1>16,
           <1>17 DEF Next

-----------------------------------------------------------------------------
(* TokenInv                                                                *)

\* An empty slot is no insertion, and every move leaves a number for the next.
LEMMA NothingIsNoInsertion ==
    Nothing \notin Insertion /\ \A x \in Insertion : x.token \in Token /\ x.move \in Nat
<1>1. "none" \notin Token /\ MaxMoves \in Nat
  BY TokenConstants
<1> QED BY <1>1 DEF Nothing, Insertion

\* Whatever is plugged in or pulled out, the chosen slot never goes back to an
\* insertion older than the one whose serial number was read.
LEMMA MovesKeepOrder == PathInv /\ TokenInv /\ TokenMoves => TokenInv'
<1> SUFFICES ASSUME PathInv, TokenInv, TokenMoves PROVE TokenInv'
  OBVIOUS
<1> USE DEF Granted, BeforePin, LoggedIn
<1>1. MaxMoves \in Nat /\ moves \in 0 .. MaxMoves /\ moves < MaxMoves /\ moves' = moves + 1
  BY TokenConstants DEF TokenInv, TokenMoves, InsertToken, RemoveToken
<1>2. UNCHANGED <<pc, mode, notified, err, label, filtered, listed, slot, serial_of, session, used>>
  BY DEF TokenMoves, InsertToken, RemoveToken
<1>3. PICK s \in Slot, x \in {Nothing} \cup Insertion :
         slots' = [slots EXCEPT ![s] = x] /\ (x = Nothing \/ x.move = moves + 1)
  <2>1. CASE InsertToken
    <3>1. PICK s \in Slot, t \in Token : 
             slots' = [slots EXCEPT ![s] = [token |-> t, move |-> moves + 1]]
      BY <2>1, ZenonT(30) DEF InsertToken
    <3> DEFINE x == [token |-> t, move |-> moves + 1]
    <3>2. x \in Insertion /\ x.move = moves + 1
      BY <1>1 DEF Insertion
    <3>3. slots' = [slots EXCEPT ![s] = x]
      BY <3>1
    <3> HIDE DEF x
    <3> QED BY <3>2, <3>3, ZenonT(30)
  <2>2. CASE RemoveToken
    BY <2>2, ZenonT(30) DEF RemoveToken
  <2> QED BY <2>1, <2>2 DEF TokenMoves
<1>4. /\ slots' \in [Slot -> {Nothing} \cup Insertion]
      /\ \A r \in Slot : slots'[r] = slots[r] \/ slots'[r] = Nothing \/ slots'[r].move = moves + 1
  BY <1>3 DEF TokenInv
<1>5. \A r \in Slot : slots'[r].move <= moves'
  BY <1>1, <1>4, NothingIsNoInsertion DEF TokenInv, Nothing
<1>6. mode = "pkcs11" /\ pc = "pin" /\ slots'[slot] # Nothing => SerialPrecedes(slots'[slot])
  BY <1>1, <1>4, NothingIsNoInsertion DEF TokenInv, SerialPrecedes
<1> QED BY <1>1, <1>2, <1>4, <1>5, <1>6, NothingIsNoInsertion DEF TokenInv, SerialPrecedes

\* Every other step uses the slot and the session that were chosen.
LEMMA TokenStep == PathInv /\ TokenInv /\ [Next]_vars => TokenInv'
<1> SUFFICES ASSUME PathInv, TokenInv, [Next]_vars PROVE TokenInv'
  OBVIOUS
<1> USE DEF Granted, BeforePin, LoggedIn, SerialPrecedes
<1>1. ASSUME NEW e, e # "none", Return(e), pc # "returned"
      PROVE  TokenInv'
  BY <1>1 DEF PathInv, TokenInv, Return
<1>2. ASSUME NEW e, e # "none", Fail(e), pc # "returned"
      PROVE  TokenInv'
  BY <1>1, <1>2 DEF Fail
<1>3. ASSUME NEW next \in BeforePin \ {"serial"}, Goto(next), pc \in BeforePin
       PROVE  TokenInv'
  BY <1>3 DEF PathInv, TokenInv, Goto, tokenVars
<1>4. CASE LoadConfig \/ ReadItems \/ Wire \/ Dispatch \/ LoadModule \/ PreAuthHooks
  BY <1>2, <1>4, <1>3 DEF LoadConfig, ReadItems, Wire, Dispatch, LoadModule, PreAuthHooks
<1>5. CASE WaitForUsb \/ NothingBound \/ Discover
  BY <1>2, <1>5, ZenonT(30)
     DEF PathInv, TokenInv, Pkcs12Only, WaitForUsb, NothingBound, Discover, tokenVars
<1>6. CASE MountCandidate
  BY <1>6 DEF PathInv, TokenInv, Pkcs12Only, MountCandidate, tokenVars
<1>7. CASE PromptPkcs12
  BY <1>2, <1>7, ZenonT(30) DEF PathInv, TokenInv, PromptPkcs12, WrongPin, tokenVars
<1>8. CASE TokenMoves
  BY <1>8, MovesKeepOrder
<1>9. CASE FindSlot \/ ScanSlot
  BY <1>2, <1>9, ZenonT(30)
     DEF PathInv, TokenInv, FindSlot, ScanSlot, KeepPolling, SearchUnchanged, ListSlots
<1>10. CASE ReadTokenSerial
  BY <1>2, <1>10, NothingIsNoInsertion, ZenonT(30)
     DEF PathInv, TokenInv, Pkcs11Only, ReadTokenSerial, TokenInfo
<1>11. CASE PromptPkcs11
  BY <1>2, <1>11, ZenonT(30) DEF PathInv, TokenInv, PromptPkcs11
<1>12. CASE PinLoopFails \/ Panics
  BY <1>2, <1>12 DEF PinLoopFails, Panics
<1>13. CASE FindCertificateObject \/ FindPrivateKeyObject
  BY <1>1, <1>2, <1>13, ZenonT(30)
     DEF PathInv, TokenInv, FindCertificateObject, FindPrivateKeyObject, SessionToken
<1>14. CASE ChooseMechanism
  BY <1>2, <1>14, ZenonT(30) DEF PathInv, TokenInv, ChooseMechanism, Goto, tokenVars
<1>15. CASE Challenge
  BY <1>1, <1>2, <1>15, ZenonT(30) DEF PathInv, TokenInv, Challenge, SessionToken, Decide, tokenVars
<1>16. CASE VerifyTrust \/ VerifyHost \/ VerifyUser
  BY <1>1, <1>16, Verdicts, ZenonT(30)
     DEF PathInv, TokenInv, VerifyTrust, VerifyHost, VerifyUser, Decide, tokenVars
<1>17. CASE AssembleContext \/ PostAuthHooks \/ Notify
  BY <1>2, <1>17, ZenonT(30)
     DEF PathInv, TokenInv, AssembleContext, PostAuthHooks, Notify, Goto, tokenVars
<1>18. CASE SetAuthContext
  BY <1>2, <1>18, ZenonT(30) DEF PathInv, TokenInv, SetAuthContext, Return
<1>19. CASE Done \/ UNCHANGED vars
  BY <1>19 DEF TokenInv, Done, vars, tokenVars
<1> QED BY <1>4, <1>5, <1>6, <1>7, <1>8, <1>9, <1>10, <1>11, <1>12, <1>13, <1>14, <1>15, <1>16,
           <1>17, <1>18, <1>19 DEF Next

-----------------------------------------------------------------------------
(* PinInv                                                                  *)

\* An attempt on the token in the slot costs it one try at most.
LEMMA AttemptSpendsOneTry == PathInv /\ TokenInv /\ PinInv /\ PromptPkcs11 => PinInv'
<1> SUFFICES ASSUME PathInv, TokenInv, PinInv, PromptPkcs11 PROVE PinInv'
  OBVIOUS
<1> USE DEF Granted, BeforePin, LoggedIn, AfterKey, Late, Budget
<1>1. /\ MaxPinAttempts \in Nat /\ TokenTries \in Nat \ {0}
      /\ pc = "pin" /\ mode = "pkcs11" /\ err = "none"
      /\ prompts \in 0 .. MaxPinAttempts - 1 /\ notified = FALSE
  BY LoginConstants, TokenConstants DEF PathInv, PinInv, PromptPkcs11
<1>2. ASSUME NEW e \in {"Conv", "Pkcs11"}, Fail(e)
      PROVE  PinInv'
  BY <1>1, <1>2 DEF PinInv, Fail, Return
<1>3. ASSUME slots[slot] # Nothing
      PROVE  slots[slot].token \in Token
  BY <1>1, <1>3, NothingIsNoInsertion DEF TokenInv
<1>4. ASSUME NEW t \in Token, tries[t] = 0, Fail("PinLocked")
      PROVE  PinInv'
  <2>1. carried[t] <= MaxPinAttempts
    BY <1>1, <1>4 DEF PinInv
  <2> QED BY <1>1, <1>4, <2>1 DEF PinInv, Fail, Return
<1>5. ASSUME NEW t \in Token, tries[t] > 0, prompts' = prompts + 1, pc' = "certificate",
             tries' = [tries EXCEPT ![t] = TokenTries], UNCHANGED <<mode, carried, notified, err>>
      PROVE  PinInv'
  BY <1>1, <1>5 DEF PinInv
<1>6. ASSUME NEW t \in Token, tries[t] > 0, prompts' = prompts + 1,
             tries' = [tries EXCEPT ![t] = tries[t] - 1],
             pc' \in {IF prompts + 1 = MaxPinAttempts THEN "exhausted" ELSE "pin"}
                       \cup (IF tries[t] = 1 THEN {"locked"} ELSE {}),
             UNCHANGED <<mode, carried, notified, err>>
      PROVE  PinInv'
  <2>1. /\ tries' \in [Token -> 0 .. TokenTries]
        /\ \A u \in Token : carried[u] <= tries'[u] + prompts'
    BY <1>1, <1>6 DEF PinInv
  <2>2. pc' = "locked" => carried[t] <= MaxPinAttempts
    BY <1>1, <1>6, <2>1 DEF PinInv
  <2> QED BY <1>1, <1>6, <2>1, <2>2 DEF PinInv
<1> QED BY <1>1, <1>2, <1>3, <1>4, <1>5, <1>6
           DEF PromptPkcs11, LastAttempt, TriesAfterWrongPin, credVars

\* Every other step leaves the tokens' counters alone.
LEMMA PinStep == PathInv /\ TokenInv /\ PinInv /\ [Next]_vars => PinInv'
<1> SUFFICES ASSUME PathInv, TokenInv, PinInv, [Next]_vars PROVE PinInv'
  OBVIOUS
<1> USE DEF Granted, BeforePin, LoggedIn, AfterKey, Late
<1>0. MaxPinAttempts \in Nat \ {0} /\ Budget \in Nat \ {0} /\ (mode' = mode => Budget' = Budget)
  BY LoginConstants DEF Budget, Pkcs12Tries
<1>1. ASSUME NEW e, e # "none", Return(e), pc # "returned",
             e = "MaxTries" => prompts = Budget, e = "PinLocked" => pc = "locked"
      PROVE  PinInv'
  BY <1>0, <1>1 DEF PathInv, PinInv, Return
<1>2. ASSUME NEW e, e # "none", Fail(e), pc # "returned",
             e = "MaxTries" => prompts = Budget, e = "PinLocked" => pc = "locked"
      PROVE  PinInv'
  BY <1>1, <1>2 DEF Fail
<1>3. ASSUME UNCHANGED <<mode, prompts, carried, tries, err>>,
             \/ pc \in BeforePin /\ pc' \in BeforePin \cup {"pin"}
             \/ pc = pc'
             \/ pc \in LoggedIn \cup AfterKey /\ pc' \in LoggedIn \cup AfterKey,
             notified' = notified \/ pc \in LoggedIn \cup AfterKey
      PROVE  PinInv'
  BY <1>0, <1>3 DEF PathInv, PinInv
<1>4. CASE LoadConfig \/ ReadItems \/ Wire \/ Dispatch \/ LoadModule \/ PreAuthHooks
  BY <1>2, <1>3, <1>4, ZenonT(30)
     DEF LoadConfig, ReadItems, Wire, Dispatch, LoadModule, PreAuthHooks, Goto, tokenVars
<1>5. CASE WaitForUsb \/ NothingBound \/ Discover
  BY <1>2, <1>3, <1>5 DEF WaitForUsb, NothingBound, Discover, tokenVars
<1>6. CASE MountCandidate
  BY <1>0, <1>6 DEF PathInv, PinInv, MountCandidate, tokenVars
<1>7. CASE PromptPkcs12
  <2>1. pc = "pin" /\ mode = "pkcs12" /\ Budget = 3 /\ prompts \in 0 .. 2 /\ notified = FALSE
    BY <1>7 DEF PathInv, PinInv, PromptPkcs12, Budget, Pkcs12Tries
  <2>2. ASSUME prompts' = prompts + 1, UNCHANGED <<mode, carried, tries, notified, err>>,
               pc' \in {IF prompts' = 3 THEN "exhausted" ELSE "pin", "corrupt", "challenge"}
        PROVE  PinInv'
    BY <1>0, <2>1, <2>2 DEF PathInv, PinInv
  <2> QED BY <1>2, <1>7, <2>1, <2>2 DEF PromptPkcs12, WrongPin, Pkcs12Tries, tokenVars
<1>8. CASE TokenMoves
  BY <1>3, <1>8 DEF TokenMoves, InsertToken, RemoveToken
<1>9. CASE FindSlot \/ ScanSlot
  BY <1>2, <1>3, <1>9 DEF FindSlot, ScanSlot, KeepPolling, SearchUnchanged
<1>10. CASE ReadTokenSerial
  BY <1>2, <1>3, <1>10 DEF ReadTokenSerial
<1>11. CASE PromptPkcs11
  BY <1>11, AttemptSpendsOneTry
<1>12. CASE PinLoopFails \/ Panics
  BY <1>2, <1>12, ZenonT(30) DEF PinInv, PinLoopFails, Panics
<1>13. CASE FindCertificateObject \/ FindPrivateKeyObject \/ ChooseMechanism
  BY <1>1, <1>2, <1>3, <1>13
     DEF FindCertificateObject, FindPrivateKeyObject, ChooseMechanism, Goto, tokenVars
<1>14. CASE Challenge
  BY <1>1, <1>2, <1>3, <1>14, ZenonT(30) DEF Challenge, Decide, tokenVars
<1>15. CASE VerifyTrust \/ VerifyHost \/ VerifyUser
  BY <1>1, <1>3, <1>15, Verdicts DEF VerifyTrust, VerifyHost, VerifyUser, Decide, tokenVars
<1>16. CASE AssembleContext \/ PostAuthHooks \/ Notify
  BY <1>2, <1>3, <1>16 DEF AssembleContext, PostAuthHooks, Notify, Goto, tokenVars
<1>17. CASE SetAuthContext
  BY <1>0, <1>2, <1>17, ZenonT(30) DEF PathInv, PinInv, SetAuthContext, Return
<1>18. CASE Done \/ UNCHANGED vars
  BY <1>3, <1>18 DEF Done, vars, tokenVars
<1> QED BY <1>4, <1>5, <1>6, <1>7, <1>8, <1>9, <1>10, <1>11, <1>12, <1>13, <1>14, <1>15, <1>16,
           <1>17, <1>18 DEF Next

-----------------------------------------------------------------------------
(* CheckInv                                                                *)

\* A check lets the flow go on exactly if what it checks is true, and a refusal
\* for lack of a binding or a certificate is never wrong.
LEMMA CheckStep == PathInv /\ CheckInv /\ [Next]_vars => CheckInv'
<1> SUFFICES ASSUME PathInv, CheckInv, [Next]_vars PROVE CheckInv'
  OBVIOUS
<1> USE DEF Granted, Late, AfterKey, BeforePin, Pkcs11Only, Pkcs12Only
<1>1. ASSUME NEW e, e # "none", Return(e), pc # "returned",
             facts \subseteq facts',
             e = "NoCertificate" => "certificate" \notin facts',
             e = "CertScope" => "host" \notin facts' \/ "user" \notin facts',
             e = "Mapping" => "user" \notin facts'
      PROVE  CheckInv'
  BY <1>1 DEF PathInv, CheckInv, Return, Required
<1>2. ASSUME NEW e, e # "none", e \notin {"NoCertificate", "CertScope", "Mapping"}, Fail(e),
             pc # "returned"
      PROVE  CheckInv'
  BY <1>1, <1>2 DEF Fail
<1>3. ASSUME UNCHANGED <<facts, mode, notified, err>>, pc' # "returned",
             \A f \in Fact : Passed(f)' <=> Passed(f), pc # "returned"
      PROVE  CheckInv'
  BY <1>3 DEF CheckInv, Required
<1>4. ASSUME pc \in BeforePin, pc' \in BeforePin, UNCHANGED <<facts, mode, notified, err>>
      PROVE  CheckInv'
  BY <1>3, <1>4 DEF Passed, Fact
<1>5. CASE LoadConfig \/ ReadItems \/ Wire \/ Dispatch \/ LoadModule \/ PreAuthHooks
  BY <1>2, <1>4, <1>5
     DEF LoadConfig, ReadItems, Wire, Dispatch, LoadModule, PreAuthHooks, Goto, credVars
<1>6. CASE WaitForUsb \/ NothingBound
  BY <1>2, <1>4, <1>6 DEF WaitForUsb, NothingBound, credVars
<1>7. CASE MountCandidate
  <2>1. pc = "mount" /\ UNCHANGED <<facts, mode, notified>>
    BY <1>7 DEF MountCandidate, credVars
  <2>2. CASE pc' = "discover" /\ err' = err
    BY <1>4, <2>1, <2>2
  <2>3. CASE pc' = "returned" /\ err' = "Mount"
    BY <2>1, <2>3 DEF PathInv, CheckInv
  <2> QED BY <1>7, <2>2, <2>3 DEF MountCandidate
<1>8. CASE Discover
  <2>1. ASSUME pc = "discover", pc' = "pin", facts' = facts \cup {"capped"}, UNCHANGED <<mode,
               notified, err>>
        PROVE  CheckInv'
    BY <2>1 DEF PathInv, CheckInv, Passed, Fact
  <2> QED BY <1>2, <1>4, <1>8, <2>1, Verdicts DEF Discover, credVars
<1>9. CASE PromptPkcs12
  <2>1. ASSUME pc' \in {"pin", "exhausted", "corrupt", "challenge"}, UNCHANGED <<facts, mode,
               notified, err>>
        PROVE  CheckInv'
    BY <1>3, <1>9, <2>1 DEF PromptPkcs12, Passed, Fact
  <2> QED BY <1>2, <1>9, <2>1 DEF PromptPkcs12, WrongPin, credVars
<1>10. CASE TokenMoves
  BY <1>3, <1>10 DEF TokenMoves, credVars, Passed, Fact
<1>11. CASE FindSlot \/ ScanSlot
  BY <1>2, <1>4, <1>11 DEF FindSlot, ScanSlot, KeepPolling, SearchUnchanged, credVars
<1>12. CASE ReadTokenSerial \/ PromptPkcs11
  <2>1. ASSUME pc \in {"serial", "pin"}, mode = "pkcs11", UNCHANGED <<facts, mode, notified, err>>,
               pc' \in {"pin", "exhausted", "locked", "certificate"}
        PROVE  CheckInv'
    BY <1>3, <2>1 DEF Passed, Fact
  <2>2. mode = "pkcs11"
    BY <1>12, ZenonT(30) DEF PathInv, ReadTokenSerial, PromptPkcs11
  <2> QED BY <1>2, <1>12, <2>1, <2>2, ZenonT(30) DEF ReadTokenSerial, PromptPkcs11, credVars
<1>13. CASE PinLoopFails \/ Panics
  BY <1>2, <1>13 DEF PinLoopFails, Panics
<1>14. CASE FindCertificateObject
  <2>1. "certificate" \notin facts /\ pc = "certificate" /\ mode = "pkcs11"
    BY <1>14 DEF PathInv, CheckInv, Passed, Fact, FindCertificateObject
  <2>2. ASSUME pc' = "key", facts' = facts \cup {"certificate"}, UNCHANGED <<mode, notified, err>>
        PROVE  CheckInv'
    BY <2>1, <2>2 DEF PathInv, CheckInv, Passed, Fact
  <2> QED BY <1>1, <1>2, <1>14, <2>1, <2>2, Verdicts, ZenonT(30) DEF FindCertificateObject, credVars
<1>15. CASE FindPrivateKeyObject \/ ChooseMechanism
  <2>1. ASSUME pc' \in {"mechanism", "challenge"}, UNCHANGED <<facts, mode, notified, err>>
        PROVE  CheckInv'
    BY <1>3, <1>15, <2>1, ZenonT(30)
       DEF PathInv, FindPrivateKeyObject, ChooseMechanism, Passed, Fact
  <2> QED BY <1>2, <1>15, <2>1 DEF FindPrivateKeyObject, ChooseMechanism, Goto, credVars
<1>16. CASE Challenge
  <2>1. ASSUME pc = "challenge", pc' = "trust", facts' = facts \cup {"possession"},
               UNCHANGED <<mode, notified, err>>
        PROVE  CheckInv'
    BY <2>1 DEF PathInv, CheckInv, Passed, Fact
  <2> QED BY <1>1, <1>2, <1>16, <2>1, ZenonT(30) DEF Challenge, Decide, VerifyOnHost
<1>17. CASE VerifyTrust
  <2>1. ASSUME pc = "trust", pc' = "host", facts' = facts \cup {"trusted"}, UNCHANGED <<mode,
               notified, err>>
        PROVE  CheckInv'
    BY <2>1 DEF PathInv, CheckInv, Passed, Fact
  <2> QED BY <1>1, <1>17, <2>1 DEF VerifyTrust, Decide
<1>18. CASE VerifyHost
  <2>1. ASSUME pc = "host", pc' = "user", facts' = facts \cup {"host"}, UNCHANGED <<mode, notified,
               err>>
        PROVE  CheckInv'
    BY <2>1 DEF PathInv, CheckInv, Passed, Fact
  <2>2. "host" \notin facts
    BY <1>18 DEF CheckInv, Passed, Fact, VerifyHost
  <2> QED BY <1>1, <1>18, <2>1, <2>2, Verdicts DEF VerifyHost, Decide
<1>19. CASE VerifyUser
  <2>1. ASSUME pc = "user", pc' = "assembled", facts' = facts \cup {"user"}, UNCHANGED <<mode,
               notified, err>>
        PROVE  CheckInv'
    BY <2>1 DEF PathInv, CheckInv, Passed, Fact
  <2>2. "user" \notin facts
    BY <1>19 DEF CheckInv, Passed, Fact, VerifyUser
  <2> QED BY <1>1, <1>19, <2>1, <2>2, Verdicts DEF VerifyUser, Decide
<1>20. CASE AssembleContext \/ PostAuthHooks
  <2>1. ASSUME pc' \in Late, UNCHANGED <<facts, mode, notified, err>>
        PROVE  CheckInv'
    BY <1>3, <1>20, <2>1 DEF AssembleContext, PostAuthHooks, Passed, Fact
  <2> QED BY <1>2, <1>20, <2>1 DEF AssembleContext, PostAuthHooks, Goto, credVars
<1>21. CASE Notify \/ SetAuthContext
  <2>1. pc \in Late /\ Required \subseteq facts
    BY <1>21 DEF PathInv, CheckInv, Passed, Fact, Notify, SetAuthContext, Required
  <2>2. CASE Fail("SetData")
    BY <1>2, <2>1, <2>2
  <2>3. CASE ~Fail("SetData")
    <3>1. /\ UNCHANGED <<facts, mode>> /\ err' = "none"
          /\ Notify => pc' = "set_data"
          /\ SetAuthContext => pc' = "returned"
      BY <1>21, <2>3 DEF PathInv, Notify, SetAuthContext, Return, credVars
    <3>2. Required' = Required
      BY <3>1 DEF Required
    <3> QED BY <1>21, <2>1, <3>1, <3>2 DEF CheckInv, Passed, Fact, Notify
  <2> QED BY <2>2, <2>3
<1>22. CASE Done \/ UNCHANGED vars
  BY <1>22 DEF CheckInv, Passed, Required, Done, vars, credVars
<1> QED BY <1>5, <1>6, <1>7, <1>8, <1>9, <1>10, <1>11, <1>12, <1>13, <1>14, <1>15, <1>16,
           <1>17, <1>18, <1>19, <1>20, <1>21, <1>22 DEF Next

-----------------------------------------------------------------------------
(* SearchInv                                                               *)

\* Appending what the next candidate holds keeps the earlier ones in place.
LEMMA NextCandidate ==
    ASSUME NEW S, NEW s \in Seq(S), NEW x \in S
    PROVE  LET t == Append(s, x)
           IN  /\ t # << >> /\ Len(t) = Len(s) + 1 /\ Len(t) - 1 = Len(s)
               /\ Last(t) = x
               /\ \A i \in 1 .. Len(s) : t[i] = s[i]
BY DEF Last

\* from_p12 hands out key material only of a bundle.
LEMMA OnlyBundleOpens == \A c \in Content, ok \in BOOLEAN : "ok" \in FromP12(c, ok) => c = "bundle"
BY DEF FromP12, Content

\* The partitions are tried in order, and the search stops at the first with an
\* envelope.
LEMMA SearchStep == PathInv /\ DeviceInv /\ SearchInv /\ [Next]_vars => SearchInv'
<1> SUFFICES ASSUME PathInv, DeviceInv, SearchInv, [Next]_vars PROVE SearchInv'
  OBVIOUS
<1> USE DEF Granted, Late, AfterKey, BeforePin
<1> DEFINE Bound == {"pin", "exhausted", "corrupt", "challenge"} \cup AfterKey
<1>1. ASSUME NEW e, e # "none", e \notin {"P12NotFound", "P12Envelope"}, pc # "returned",
             pc' = "returned",
             err' = e, UNCHANGED <<mode, seen, cands, notified>>
      PROVE  SearchInv'
  BY <1>1 DEF PathInv, SearchInv, Searched
<1>2. ASSUME NEW e, e # "none", e \notin {"P12NotFound", "P12Envelope"}, Return(e), pc # "returned"
      PROVE  SearchInv'
  BY <1>1, <1>2 DEF Return
<1>3. ASSUME NEW e, e # "none", e \notin {"P12NotFound", "P12Envelope"}, Fail(e), pc # "returned"
      PROVE  SearchInv'
  BY <1>2, <1>3 DEF Fail
<1>4. ASSUME pc # "returned", pc' # "returned", UNCHANGED <<mode, seen, notified, err>>,
             pc' \in BeforePin => pc \in BeforePin,
             mode = "pkcs12" /\ pc' \in Bound => pc \in Bound,
             mode = "pkcs12" /\ pc' \in {"challenge"} \cup AfterKey => pc \in {"challenge"} \cup AfterKey
      PROVE  SearchInv'
  BY <1>4 DEF PathInv, SearchInv, Searched
<1>5. CASE LoadConfig \/ ReadItems \/ Wire \/ Dispatch \/ LoadModule \/ PreAuthHooks
  BY <1>3, <1>4, <1>5, ZenonT(30)
     DEF LoadConfig, ReadItems, Wire, Dispatch, LoadModule, PreAuthHooks, Goto, usbVars
<1>6. CASE WaitForUsb
  BY <1>3, <1>4, <1>6 DEF WaitForUsb
<1>7. CASE NothingBound
  BY <1>7 DEF PathInv, SearchInv, Searched, NothingBound, Fail, Return, Contains
<1>8. CASE MountCandidate
  BY <1>1, <1>4, <1>8 DEF MountCandidate
<1>9. CASE Discover
  <2>1. pc = "discover" /\ mode = "pkcs12" /\ err = "none" /\ notified = FALSE
        /\ Searched(Len(seen)) /\ seen \in Seq(Content \cup {"no_p12"}) /\ Len(seen) \in Nat
    BY <1>9 DEF PathInv, DeviceInv, SearchInv, Discover, Pkcs12Only
  <2>2. ASSUME NEW x \in {"no_p12", "junk"}, pc' = "mount", seen' = Append(seen, x),
               UNCHANGED <<mode, notified, err>>
        PROVE  SearchInv'
    <3>1. Searched(Len(seen))'
      BY <2>1, <2>2, NextCandidate DEF Searched, Content
    <3> QED BY <2>1, <2>2, <3>1 DEF SearchInv
  <2>3. ASSUME NEW x \in Content \ {"junk"}, pc' = "pin", seen' = Append(seen, x),
               UNCHANGED <<mode, notified, err>>
        PROVE  SearchInv'
    <3>1. seen' # << >> /\ Last(seen') = x /\ Searched(Len(seen) - 1)'
      BY <2>1, <2>3, NextCandidate DEF Searched
    <3> QED BY <2>1, <2>3, <3>1 DEF SearchInv, Content
  <2>4. \A d \in Discoveries : d.content \in Content
    BY Verdicts
  <2> QED BY <1>3, <1>9, <2>1, <2>2, <2>3, <2>4 DEF Discover, EnvelopeOk
<1>10. CASE PromptPkcs12
  <2>1. pc = "pin" /\ mode = "pkcs12" /\ err = "none" /\ notified = FALSE
        /\ seen # << >> /\ Last(seen) \in Content /\ Searched(Len(seen) - 1)
    <3>1. seen # << >> /\ Last(seen) # "no_p12" /\ seen \in Seq(Content \cup {"no_p12"})
      BY <1>10, ZenonT(30) DEF SearchInv, DeviceInv, PromptPkcs12
    <3>2. Last(seen) \in Content
      BY <3>1 DEF Last
    <3> QED BY <1>10, <3>1, <3>2, ZenonT(30) DEF PathInv, SearchInv, PromptPkcs12
  <2>2. ASSUME pc' \in {"pin", "exhausted", "corrupt"}, UNCHANGED <<mode, seen, notified, err>>
        PROVE  SearchInv'
    BY <1>4, <2>1, <2>2
  <2>3. ASSUME Last(seen) = "bundle", pc' = "challenge", UNCHANGED <<mode, seen, notified, err>>
        PROVE  SearchInv'
    BY <2>1, <2>3 DEF SearchInv, Searched
  <2> QED BY <1>3, <1>10, <2>1, <2>2, <2>3, OnlyBundleOpens, ZenonT(30)
             DEF PromptPkcs12, WrongPin, usbVars
<1>11. CASE TokenMoves
  BY <1>4, <1>11 DEF TokenMoves, usbVars
<1>12. CASE FindSlot \/ ScanSlot
  BY <1>3, <1>4, <1>12, ZenonT(30) DEF FindSlot, ScanSlot, KeepPolling, SearchUnchanged, usbVars
<1>13. CASE ReadTokenSerial \/ PromptPkcs11
  <2>1. mode = "pkcs11"
    BY <1>13, ZenonT(30) DEF PathInv, Pkcs11Only, ReadTokenSerial, PromptPkcs11
  <2>2. ASSUME pc' \in {"pin", "exhausted", "locked", "certificate"},
               UNCHANGED <<mode, seen, notified, err>>
        PROVE  SearchInv'
    BY <1>4, <1>13, <2>1, <2>2, ZenonT(30) DEF ReadTokenSerial, PromptPkcs11
  <2>3. pc \in {"serial", "pin"}
    BY <1>13, ZenonT(30) DEF ReadTokenSerial, PromptPkcs11
  <2> QED BY <1>3, <1>13, <2>2, <2>3, ZenonT(30) DEF ReadTokenSerial, PromptPkcs11, usbVars
<1>14. CASE PinLoopFails \/ Panics
  BY <1>3, <1>14 DEF PinLoopFails, Panics
<1>15. CASE FindCertificateObject \/ FindPrivateKeyObject \/ ChooseMechanism
  <2>1. mode = "pkcs11" /\ pc \in {"certificate", "key", "mechanism"}
    BY <1>15 DEF PathInv, Pkcs11Only, FindCertificateObject, FindPrivateKeyObject, ChooseMechanism
  <2>2. ASSUME pc' \in {"key", "mechanism", "challenge"}, UNCHANGED <<mode, seen, notified, err>>
        PROVE  SearchInv'
    BY <1>4, <2>1, <2>2
  <2> QED BY <1>2, <1>3, <1>15, <2>1, <2>2, ZenonT(30)
          DEF FindCertificateObject, FindPrivateKeyObject, ChooseMechanism, Goto, usbVars
<1>16. CASE Challenge
  BY <1>2, <1>3, <1>4, <1>16, ZenonT(30) DEF Challenge, Decide, usbVars
<1>17. CASE VerifyTrust \/ VerifyHost \/ VerifyUser
  BY <1>2, <1>4, <1>17, Verdicts, ZenonT(30)
     DEF VerifyTrust, VerifyHost, VerifyUser, Decide, usbVars
<1>18. CASE AssembleContext \/ PostAuthHooks
  BY <1>3, <1>4, <1>18 DEF AssembleContext, PostAuthHooks, Goto, usbVars
<1>19. CASE Notify \/ SetAuthContext
  BY <1>3, <1>19, ZenonT(30)
     DEF PathInv, SearchInv, Searched, Notify, SetAuthContext, Return, usbVars
<1>20. CASE Done \/ UNCHANGED vars
  BY <1>20 DEF SearchInv, Searched, Done, vars, usbVars
<1> QED BY <1>5, <1>6, <1>7, <1>8, <1>9, <1>10, <1>11, <1>12, <1>13, <1>14, <1>15, <1>16,
           <1>17, <1>18, <1>19, <1>20 DEF Next

-----------------------------------------------------------------------------
(* The theorems.                                                           *)

FlowInv == PathInv /\ DeviceInv /\ TokenInv /\ PinInv /\ CheckInv /\ SearchInv

\* The invariant holds when the call begins.
LEMMA FlowInit == Init => FlowInv
<1> SUFFICES ASSUME Init PROVE FlowInv
  OBVIOUS
<1> USE DEF Granted, Init, Late, AfterKey, Pkcs12Only, Pkcs11Only, BeforePin, LoggedIn
<1>1. PathInv
  <2>1. rc # 0
    OBVIOUS
  <2> QED BY <2>1, ZenonT(30) DEF PathInv
<1>2. DeviceInv
  BY DEF DeviceInv, DevicesReleased, TokenInit
<1>3. TokenInv
  <2>1. /\ slots \in [Slot -> {Nothing} \cup [token : Token, move : {0}]]
        /\ moves = 0 /\ listed = {} /\ used = {} /\ MaxMoves \in Nat
    BY TokenConstants DEF TokenInit
  <2>2. [token : Token, move : {0}] \subseteq Insertion
    BY <2>1 DEF Insertion
  <2>3. \A s \in Slot : slots[s].move = 0
    BY <2>1 DEF Nothing
  <2> QED BY <2>1, <2>2, <2>3 DEF TokenInv
<1>4. PinInv
  <2>1. MaxPinAttempts \in Nat \ {0} /\ TokenTries \in Nat /\ Budget \in Nat \ {0}
    BY LoginConstants, TokenConstants DEF Budget, Pkcs12Tries
  <2>2. carried \in [Token -> 0 .. TokenTries] /\ tries = carried
    BY DEF TokenInit
  <2> QED BY <2>1, <2>2 DEF PinInv
<1>5. CheckInv
  BY DEF CheckInv, Passed, Fact
<1>6. SearchInv
  BY DEF SearchInv, Searched
<1> QED BY <1>1, <1>2, <1>3, <1>4, <1>5, <1>6 DEF FlowInv

\* Every step of a call keeps the invariant.
LEMMA FlowIsInvariant == Spec => []FlowInv
<1>1. FlowInv /\ [Next]_vars => FlowInv'
  BY PathStep, DeviceStep, TokenStep, PinStep, CheckStep, SearchStep, Zenon DEF FlowInv
<1> QED BY FlowInit, <1>1, PTL DEF Spec

\* PAM_SUCCESS, the stored context and the report to monitord mean that every
\* check the flow requires held of the credential, and that the PIN loop opened
\* the first partition that holds a bundle within its budget.
THEOREM GrantIsVerified == Spec => []GrantedOnlyIfVerified
<1>1. FlowInv => GrantedOnlyIfVerified
  <2> SUFFICES ASSUME FlowInv, rc = 0 \/ ctx \/ notified
               PROVE  /\ Required \subseteq facts
                      /\ prompts \in 1 .. Budget
                      /\ mode = "pkcs12" => Last(seen) = "bundle" /\ Searched(Len(seen) - 1)
    BY DEF GrantedOnlyIfVerified, Budget, Searched
  <2>1. Granted \/ notified = TRUE
    BY DEF FlowInv, PathInv
  <2>2. Budget \in Nat
    BY LoginConstants DEF Budget, Pkcs12Tries
  <2> QED BY <2>1, <2>2 DEF FlowInv, CheckInv, PinInv, SearchInv
<1> QED BY FlowIsInvariant, <1>1, PTL

\* A refusal for a missing certificate, an unbound host or user, missing bundles
\* or a spent PIN budget is true, whatever the certificate's extensions, the
\* mapping table, the token's objects and the partitions are.
THEOREM RefusalIsTrue == Spec => []RefusedForCause
<1>1. FlowInv => RefusedForCause
  <2> SUFFICES ASSUME FlowInv PROVE RefusedForCause
    OBVIOUS
  <2>1. /\ err = "NoCertificate" => "certificate" \notin facts
        /\ err = "CertScope" => ~ {"host", "user"} \subseteq facts
        /\ err = "Mapping" => "user" \notin facts
    BY DEF FlowInv, CheckInv
  <2>2. err = "MaxTries" => prompts = Budget
    BY DEF FlowInv, PinInv
  <2>3. ToSet(seen) = {seen[i] : i \in 1 .. Len(seen)}
    BY DEF FlowInv, DeviceInv, ToSet
  <2>4. err \in {"P12NotFound", "P12Envelope"} =>
          /\ Len(seen) = cands
          /\ ToSet(seen) \subseteq {"no_p12", "junk"}
          /\ err = "P12Envelope" <=> "junk" \in ToSet(seen)
    BY <2>3 DEF FlowInv, SearchInv, Searched
  <2> QED BY <2>1, <2>2, <2>4 DEF RefusedForCause, Budget
<1> QED BY FlowIsInvariant, <1>1, PTL

\* However the call ends, nothing it could undo stays mounted and the token is
\* logged out, before any hook after the login and before monitord is told.
THEOREM DevicesAreReleased == Spec => []DevicesReleased
<1>1. FlowInv => DevicesReleased
  BY DEF FlowInv, DeviceInv
<1> QED BY FlowIsInvariant, <1>1, PTL

\* One call never locks a token that takes more wrong PINs than
\* pkcs11_max_pin_attempts, even if tokens are swapped between prompts.
THEOREM TokenIsNotLocked == Spec => []LoginNeverLocksToken
<1>1. FlowInv => LoginNeverLocksToken
  <2> SUFFICES ASSUME FlowInv PROVE LoginNeverLocksToken
    OBVIOUS
  <2>1. ASSUME NEW t \in Token, MaxPinAttempts < carried[t] PROVE tries[t] > 0
    <3>1. MaxPinAttempts \in Nat /\ TokenTries \in Nat /\ carried[t] \in Nat /\ tries[t] \in Nat
      BY LoginConstants, TokenConstants DEF FlowInv, PinInv
    <3>2. CASE mode = "pkcs11"
      BY <2>1, <3>1, <3>2 DEF FlowInv, PinInv, Budget
    <3>3. CASE mode # "pkcs11"
      BY <2>1, <3>1, <3>3 DEF FlowInv, PinInv
    <3> QED BY <3>2, <3>3
  <2> QED BY <2>1 DEF LoginNeverLocksToken, FlowInv, PinInv
<1> QED BY FlowIsInvariant, <1>1, PTL

\* Certificate, key and signature of an accepted login come from one insertion
\* of one token, whose serial number is the one reported unless the token was
\* swapped before the PIN was accepted.
THEOREM OneInsertionAnswers == Spec => []OneTokenAnswers
<1>1. FlowInv => OneTokenAnswers
  BY DEF FlowInv, PathInv, TokenInv, SerialPrecedes, OneTokenAnswers, Granted
<1> QED BY FlowIsInvariant, <1>1, PTL

=============================================================================
