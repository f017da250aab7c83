------------------------------ MODULE LoginFlow ------------------------------
(***************************************************************************)
(* One call of pam_sm_authenticate (entry.rs, flow.rs): the checks before  *)
(* the flow, the search of the USB partitions for a PKCS#12 bundle         *)
(* (UsbMedium.tla) or of the slots for a PKCS#11 token (Pkcs11Token.tla),  *)
(* the bounded PIN loops, the verification steps in their order            *)
(* (Authorization.tla), the report to monitord, and the PAM code.  What a  *)
(* step finds outside the process is chosen when the step looks; "facts"   *)
(* records what is true of it, so that the verdict can be compared.        *)
(***************************************************************************)
EXTENDS PamHandle, Pkcs11Token, Authorization, UsbMedium

CONSTANTS
    Modes,              \* the configured ways to log in that are explored
    MaxCandidates,      \* bound on the candidates found
    MaxPinAttempts,     \* pkcs11_max_pin_attempts
    MaxObjects,         \* bound on objects of a class on a token
    MaxEntries          \* bound on extensions, entries and mappings

\* The fixed budget of the PKCS#12 PIN loop.
Pkcs12Tries == 3

ASSUME LoginConstants ==
    /\ Modes \subseteq {"pkcs12", "pkcs11", "pkcs11_openssl"}
    /\ {MaxCandidates, MaxPinAttempts} \subseteq Nat \ {0}
    /\ {MaxObjects, MaxEntries} \subseteq Nat

\* Inputs: the objects on a token and the two key pairs that occur, the
\* extensions of a certificate, the mapping table; this host and this user are
\* "me", any other is "other".
Pair == {"mine", "foreign"}
Who == {"me", "other"}
UpTo(S, n) == UNION {[1 .. k -> S] : k \in 0 .. n}
CertObjects == UpTo(CertObject({0, 1}, Pair), MaxObjects)
KeyObjects == UpTo(KeyObject({0, 1}, Pair), MaxObjects)
Extensions(oid) == UpTo(Extension({oid}, Who, MaxEntries), MaxEntries)
Mappings == UpTo(UserMapping(Who), MaxEntries)
Algorithm == {"rsa", "p256", "p384", "ec_other", "gost", "ed25519"}

VARIABLES
    pc,         \* the next step of the call
    mode,       \* cfg.mode and cfg.crypto_backend
    cands,      \* candidates wait_for_usb returned
    seen,       \* what was found on each candidate tried so far
    guard,      \* the candidate whose MountGuard is alive, 0 if none
    mounted,    \* candidates mounted now
    dirs,       \* mountpoint directories that exist, by candidate
    stuck,      \* candidates whose umount or rmdir failed
    prompts,    \* PIN prompts answered so far
    leaf,       \* the end-entity certificate: CKA_ID, key pair, algorithm
    key,        \* the private key object found on the token: pair, type
    facts,      \* what is true of the credential, as far as it was looked at
    notified,   \* open_session was sent to monitord
    ctx,        \* an AuthContext is stored in the PAM handle
    err,        \* the error the call ends with, "none" before and on success
    rc          \* the PAM code, -1 until the call returns

usbVars  == <<cands, seen, guard, mounted, dirs, stuck>>
credVars == <<leaf, key, facts>>
vars == <<pc, mode, usbVars, prompts, credVars, tokenVars, notified, ctx, err, rc>>

NoLeaf == [id |-> 0, pair |-> "none", alg |-> "none"]
NoKey == [pair |-> "none", type |-> "none"]

Init ==
    /\ pc = "entry"
    /\ mode \in Modes
    /\ cands = 0
    /\ seen = << >>
    /\ guard = 0
    /\ mounted = {}
    /\ dirs = {}
    /\ stuck = {}
    /\ prompts = 0
    /\ leaf = NoLeaf
    /\ key = NoKey
    /\ facts = {}
    /\ notified = FALSE
    /\ ctx = FALSE
    /\ err = "none"
    /\ rc = -1
    /\ TokenInit(mode = "pkcs11")

-----------------------------------------------------------------------------

\* Pkcs11Error, grouped by what the flow tells apart: no module, no token or no
\* serial number in time; and whatever goes wrong with the token in use.
NoUsableToken == {"Pkcs11Load", "TokenWait", "TokenSerialMissing"}
TokenFailure == {"Pkcs11", "NoCertificate", "NoKey", "NoMechanism"}

\* FlowError::pam_code, and the codes pam_sm_authenticate itself returns.
PamCode(e) ==
    CASE e = "none" -> 0
      [] e \in {"Config", "HostIdentity", "Wiring", "Rng", "Panic", "Usb", "Mount",
                "P12NotFound", "Discovery", "P12Envelope", "EngineNotImplemented"} \cup NoUsableToken -> 9
      [] e \in {"MaxTries", "PinLocked"} -> 8
      [] e \in {"Pkcs12", "Crypto", "Trust", "Mapping"} -> 6
      [] e = "SetData" -> 4
      [] e \in {"PamUser", "Conv", "CertScope", "PreAuthHook", "PostAuthHook"} \cup TokenFailure -> 7

\* Mutant: dropping the guard of a file that is no bundle keeps its mount.
KeepMount(i) == UNCHANGED <<mounted, dirs, stuck>>

\* MountGuard::drop on candidate i, if there is one: umount, then rmdir; a
\* failure of either is only logged, and a directory still mounted cannot be
\* removed.
DropMount(i) ==
    \E left \in IF i = 0 THEN {"nothing"} ELSE {"nothing", "directory", "mount"} :
        /\ mounted' = IF left = "mount" THEN mounted ELSE mounted \ {i}
        /\ dirs' = IF left = "nothing" THEN dirs \ {i} ELSE dirs
        /\ stuck' = IF left = "nothing" THEN stuck ELSE stuck \cup {i}

\* The call returns: the mount guard and the token session are dropped on
\* every way out, unwinding included.
Return(e) ==
    /\ pc' = "returned"
    /\ err' = e
    /\ rc' = PamCode(e)
    /\ guard' = 0
    /\ DropMount(guard)
    /\ session' = Nothing
    /\ UNCHANGED <<mode, cands, seen, prompts, leaf, key, notified, slots, moves, label, filtered,
                   listed, waited, slot, serial_of, used, carried, tries>>

\* A failing step of the flow.
Fail(e) == Return(e) /\ UNCHANGED <<facts, ctx>>

\* A step that changes nothing but the place in the flow.
Goto(next) ==
    /\ pc' = next
    /\ UNCHANGED <<mode, usbVars, prompts, credVars, tokenVars, notified, ctx, err, rc>>

\* A check of the credential: record what is true of it, then go on or fail
\* with what the code decides.
Decide(fact, holds, passes, next, e) ==
    /\ facts' = IF holds THEN facts \cup {fact} ELSE facts
    /\ IF passes
       THEN /\ pc' = next
            /\ UNCHANGED <<mode, usbVars, prompts, leaf, key, tokenVars, notified, ctx, err, rc>>
       ELSE Return(e) /\ UNCHANGED ctx

-----------------------------------------------------------------------------
(* pam_sm_authenticate up to the flow.                                     *)

\* load_validated_config and self_check.
LoadConfig ==
    /\ pc = "entry"
    /\ Fail("Config") \/ Goto("items")

\* PAM_USER is needed; without PAM_SERVICE or PAM_TTY the call goes on.
ReadItems ==
    /\ pc = "items"
    /\ \E item \in Item :
          IF RequiredString(item) = "some" THEN Goto("wiring") ELSE Fail("PamUser")

\* resolve_host_identity, di::wire and fresh_session_id.
Wire ==
    /\ pc = "wiring"
    /\ \E e \in {"HostIdentity", "Wiring", "Rng"} : Fail(e) \/ Goto("dispatch")

\* authenticate: choose the path by mode and back end.
Dispatch ==
    /\ pc = "dispatch"
    /\ \/ mode = "pkcs11_openssl" /\ Fail("EngineNotImplemented")
       \/ mode = "pkcs11" /\ Goto("load_module")
       \/ mode = "pkcs12" /\ Goto("pre_hooks")

\* real_pkcs11_io: the module is loaded, or refused, before the hooks run.
LoadModule ==
    /\ pc = "load_module"
    /\ \E exists, loads, initialises \in BOOLEAN :
          IF LoadBackend(exists, loads, initialises) = "ok"
          THEN Goto("pre_hooks") ELSE Fail("Pkcs11Load")

\* run_hooks_for_stage(PreAuth), before any device is touched.
PreAuthHooks ==
    /\ pc = "pre_hooks"
    /\ Fail("PreAuthHook") \/ Goto(IF mode = "pkcs12" THEN "wait_usb" ELSE "wait_token")

-----------------------------------------------------------------------------
(* PKCS#12: search the partitions.                                         *)

\* wait_for_usb_devices returns at least one candidate (UsbWait.tla).
WaitForUsb ==
    /\ pc = "wait_usb"
    /\ \/ Fail("Usb")
       \/ /\ pc' = "mount"
          /\ cands' \in 1 .. MaxCandidates
          /\ UNCHANGED <<mode, seen, guard, mounted, dirs, stuck, prompts, credVars, tokenVars,
                         notified, ctx, err, rc>>

\* The list is used up and nothing was bound; an envelope error is preferred.
NothingBound ==
    /\ pc = "mount"
    /\ Len(seen) = cands
    /\ Fail(IF Contains(seen, "junk") THEN "P12Envelope" ELSE "P12NotFound")

\* io.mount: the directory is created first and stays when the mount fails,
\* since there is no guard yet to remove it.  The error ends the search.
MountCandidate ==
    /\ pc = "mount"
    /\ Len(seen) < cands
    /\ LET i == Len(seen) + 1
       IN \E made, exists, syscall \in BOOLEAN, fs \in {"allowed", "other", "none"} :
            IF made /\ MountUsbDevice(exists, fs, syscall) = "ok"
            THEN /\ pc' = "discover"
                 /\ guard' = i
                 /\ mounted' = mounted \cup {i}
                 /\ dirs' = dirs \cup {i}
                 /\ UNCHANGED <<err, rc>>
            ELSE /\ pc' = "returned"
                 /\ err' = "Mount"
                 /\ rc' = PamCode("Mount")
                 /\ dirs' = IF made THEN dirs \cup {i} ELSE dirs
                 /\ UNCHANGED <<guard, mounted>>
    /\ UNCHANGED <<mode, cands, seen, stuck, prompts, credVars, tokenVars, notified, ctx>>

\* Every result discover_credentials may have, with what was found: whether
\* the files respect their caps, and what the bundle's bytes are.
Discoveries ==
    {[result  |-> DiscoverCredentials(p12, chain),
      capped  |-> p12.size <= MaxP12Bytes /\ (chain.is_file => chain.size <= MaxChainBytes),
      content |-> content] :
        p12 \in File(MaxP12Bytes), chain \in File(MaxChainBytes), content \in Content}

\* io.discover and validate_p12_envelope on the mounted candidate: no file or
\* no envelope moves on to the next one, anything else unreadable ends the
\* call, an envelope binds.
Discover ==
    /\ pc = "discover"
    /\ \E d \in Discoveries :
          \/ d.result = "Discovery" /\ Fail("Discovery")
          \/ /\ d.result = "P12NotFound" \/ (d.result = "found" /\ ~EnvelopeOk(d.content))
             /\ pc' = "mount"
             /\ seen' = Append(seen, IF d.result = "found" THEN d.content ELSE "no_p12")
             /\ guard' = 0
             /\ DropMount(guard)
             /\ UNCHANGED <<mode, cands, prompts, credVars, tokenVars, notified, ctx, err, rc>>
          \/ /\ d.result = "found" /\ EnvelopeOk(d.content)
             /\ pc' = "pin"
             /\ seen' = Append(seen, d.content)
             /\ facts' = IF d.capped THEN facts \cup {"capped"} ELSE facts
             /\ UNCHANGED <<mode, cands, guard, mounted, dirs, stuck, prompts, leaf, key, tokenVars,
                            notified, ctx, err, rc>>

\* Pkcs12Error::WrongPin: ask again until the budget is spent.
WrongPin ==
    /\ prompts' = prompts + 1
    /\ pc' = IF prompts + 1 = Pkcs12Tries THEN "exhausted" ELSE "pin"
    /\ UNCHANGED <<mode, usbVars, credVars, tokenVars, notified, ctx, err, rc>>

\* One turn of acquire_p12_material_with_prompter: only a wrong PIN loops.
PromptPkcs12 ==
    /\ pc = "pin"
    /\ mode = "pkcs12"
    /\ \/ \E p \in Prompts : p # "pin" /\ Fail("Conv")
       \/ \E pin_ok \in BOOLEAN : \E result \in FromP12(Last(seen), pin_ok) :
             \/ result = "WrongPin" /\ WrongPin
             \/ /\ result \notin {"WrongPin", "ok"}
                /\ prompts' = prompts + 1
                /\ pc' = "corrupt"
                /\ UNCHANGED <<mode, usbVars, credVars, tokenVars, notified, ctx, err, rc>>
             \/ /\ result = "ok"
                /\ prompts' = prompts + 1
                /\ pc' = "challenge"
                /\ \E pair \in Pair, alg \in Algorithm :
                      /\ leaf' = [id |-> 0, pair |-> "mine", alg |-> alg]
                      /\ key' = [pair |-> pair, type |-> "in_memory"]
                /\ UNCHANGED <<mode, usbVars, facts, tokenVars, notified, ctx, err, rc>>

-----------------------------------------------------------------------------
(* PKCS#11: the token, its session and its objects.                        *)

\* A token is plugged in or pulled out while the call depends on it.
TokenMoves ==
    /\ mode = "pkcs11"
    /\ pc \in {"wait_token", "scan", "serial", "pin", "certificate", "key", "challenge"}
    /\ InsertToken \/ RemoveToken
    /\ UNCHANGED <<pc, mode, usbVars, prompts, credVars, notified, ctx, err, rc>>

\* The state a step of the slot search leaves alone.
SearchUnchanged ==
    UNCHANGED <<mode, usbVars, prompts, credVars, slots, moves, label, filtered, serial_of, session,
                used, carried, tries, notified, ctx, err, rc>>

\* No slot fits: give up once the timeout has passed, which slow calls into the
\* provider bring nearer too, else sleep and look again.
KeepPolling ==
    \/ Fail("TokenWait")
    \/ /\ waited < SlotWait
       /\ waited' = waited + 1
       /\ listed' = {}
       /\ pc' = "wait_token"
       /\ UNCHANGED slot
       /\ SearchUnchanged

\* find_slot: list the slots; without a label the first of the list is taken.
FindSlot ==
    /\ pc = "wait_token"
    /\ \/ Fail("Pkcs11")
       \/ ListSlots = {} /\ KeepPolling
       \/ /\ ListSlots # {}
          /\ slot' \in IF filtered THEN {0} ELSE ListSlots
          /\ listed' = IF filtered THEN ListSlots ELSE {}
          /\ pc' = IF filtered THEN "scan" ELSE "serial"
          /\ UNCHANGED waited
          /\ SearchUnchanged

\* find_slot: ask the next slot of the list for its label.  A token gone since
\* the list was made fails the search, which does not poll again.
ScanSlot ==
    /\ pc = "scan"
    /\ \/ listed = {} /\ KeepPolling
       \/ \E s \in listed : TokenInfo(s) = Nothing /\ Fail("Pkcs11")
       \/ /\ \E s \in listed :
                /\ TokenInfo(s) # Nothing
                /\ IF HasLabel(s)
                   THEN slot' = s /\ listed' = {} /\ pc' = "serial"
                   ELSE listed' = listed \ {s} /\ UNCHANGED <<slot, pc>>
          /\ UNCHANGED waited
          /\ SearchUnchanged

\* read_token_serial
ReadTokenSerial ==
    /\ pc = "serial"
    /\ \/ TokenInfo(slot) = Nothing /\ Fail("Pkcs11")
       \/ Fail("TokenSerialMissing")
       \/ /\ TokenInfo(slot) # Nothing
          /\ serial_of' = TokenInfo(slot)
          /\ pc' = "pin"
          /\ UNCHANGED <<mode, usbVars, prompts, credVars, slots, moves, label, filtered, listed, waited,
                         slot, session, used, carried, tries, notified, ctx, err, rc>>

\* The attempt just made was the last one acquire_pkcs11_session allows.
LastAttempt == prompts + 1 = MaxPinAttempts

\* One turn of acquire_pkcs11_session: a prompt, then Pkcs11Session::open on
\* whatever token the slot holds by then.  The token counts wrong PINs itself:
\* it answers CKR_PIN_LOCKED once none is left, or already for the last one.
PromptPkcs11 ==
    /\ pc = "pin"
    /\ mode = "pkcs11"
    /\ \/ \E p \in Prompts : p # "pin" /\ Fail("Conv")
       \/ Fail("Pkcs11")
       \/ /\ slots[slot] # Nothing
          /\ LET t == slots[slot].token
             IN \/ tries[t] = 0 /\ Fail("PinLocked")
                \/ /\ tries[t] > 0
                   /\ prompts' = prompts + 1
                   /\ \/ /\ tries' = [tries EXCEPT ![t] = TokenTries]
                         /\ session' = slots[slot]
                         /\ pc' = "certificate"
                      \/ /\ tries' = [tries EXCEPT ![t] = TriesAfterWrongPin(@)]
                         /\ pc' \in {IF LastAttempt THEN "exhausted" ELSE "pin"}
                                    \cup (IF tries[t] = 1 THEN {"locked"} ELSE {})
                         /\ UNCHANGED session
                   /\ UNCHANGED <<mode, usbVars, credVars, slots, moves, label, filtered, listed, waited,
                                  slot, serial_of, used, carried, notified, ctx, err, rc>>

\* Either loop ends without key material.
PinLoopFails ==
    \/ pc = "exhausted" /\ Fail("MaxTries")
    \/ pc = "corrupt" /\ Fail("Pkcs12")
    \/ pc = "locked" /\ Fail("PinLocked")

\* What find_certificate may return, with whether the token has a usable
\* certificate at all.
CertificateSearches ==
    {[exists |-> \E i \in DOMAIN certs : certs[i].body \in Pair /\ (by_label => certs[i].labelled),
      found  |-> FindCertificate(certs, by_label, Pair)] : certs \in CertObjects, by_label \in BOOLEAN}

\* session.find_certificate
FindCertificateObject ==
    /\ pc = "certificate"
    /\ \/ Fail("Pkcs11")
       \/ /\ SessionToken # Nothing
          /\ \E c \in CertificateSearches :
                /\ facts' = IF c.exists THEN facts \cup {"certificate"} ELSE facts
                /\ \/ /\ c.found = << >>
                      /\ Return("NoCertificate")
                      /\ UNCHANGED ctx
                   \/ /\ c.found # << >>
                      /\ pc' = "key"
                      /\ \E alg \in Algorithm :
                            leaf' = [id |-> c.found[1].id, pair |-> c.found[1].body, alg |-> alg]
                      /\ used' = used \cup {SessionToken}
                      /\ UNCHANGED <<mode, usbVars, prompts, key, slots, moves, label, filtered, listed,
                                     waited, slot, serial_of, session, carried, tries, notified, ctx,
                                     err, rc>>

\* What find_private_key_for_cert may return for each CKA_ID.
KeySearches == [id \in {0, 1} |-> {FindPrivateKey(keys, id) : keys \in KeyObjects}]

\* session.find_private_key_for_cert: the key of the certificate's pair has the
\* certificate's algorithm, another key any.
FindPrivateKeyObject ==
    /\ pc = "key"
    /\ \/ Fail("Pkcs11")
       \/ << >> \in KeySearches[leaf.id] /\ Fail("NoKey")
       \/ /\ SessionToken # Nothing
          /\ pc' = "mechanism"
          /\ \E k \in KeySearches[leaf.id], alg \in Algorithm :
                /\ k # << >>
                /\ k[1].pair = leaf.pair => alg = leaf.alg
                /\ key' = [pair |-> k[1].pair, type |-> KeyType(alg)]
          /\ used' = used \cup {SessionToken}
          /\ UNCHANGED <<mode, usbVars, prompts, leaf, facts, slots, moves, label, filtered, listed,
                         waited, slot, serial_of, session, carried, tries, notified, ctx, err, rc>>

\* public_key and select_mechanism.
ChooseMechanism ==
    /\ pc = "mechanism"
    /\ \/ Fail("Trust")
       \/ SelectMechanism(key.type, leaf.alg) = "none" /\ Fail("NoMechanism")
       \/ SelectMechanism(key.type, leaf.alg) # "none" /\ Goto("challenge")

-----------------------------------------------------------------------------
(* Verification, in the order of the flow.                                 *)

\* challenge_response dispatches on the certificate's key; GOST needs the
\* engine.
ChallengeSupported(alg, engine) == alg \in {"rsa", "p256", "p384"} \/ (alg = "gost" /\ engine)

\* Possession of the private key: in memory, or with a signature of the token.
\* Random numbers, OpenSSL and the token may fail.
Challenge ==
    /\ pc = "challenge"
    /\ \/ Fail("Crypto")
       \/ mode = "pkcs12" /\ Fail("Pkcs12")
       \/ /\ mode = "pkcs12"
          /\ \E engine \in BOOLEAN :
                Decide("possession", leaf.pair = key.pair,
                       ChallengeSupported(leaf.alg, engine) /\ leaf.pair = key.pair, "trust", "Crypto")
       \/ /\ mode = "pkcs11"
          /\ SessionToken # Nothing
          /\ facts' = IF leaf.pair = key.pair THEN facts \cup {"possession"} ELSE facts
          /\ IF VerifyOnHost(SelectMechanism(key.type, leaf.alg), leaf.alg, leaf.pair, key.pair)
             THEN /\ pc' = "trust"
                  /\ used' = used \cup {SessionToken}
                  /\ UNCHANGED <<mode, usbVars, prompts, leaf, key, slots, moves, label, filtered, listed,
                                 waited, slot, serial_of, session, carried, tries, notified, ctx, err, rc>>
             ELSE Return("Crypto") /\ UNCHANGED ctx

\* parse_chain_pem, where a bundle came with a chain.pem, and trust.verify.
VerifyTrust ==
    /\ pc = "trust"
    /\ \E chain_parses, trusted \in BOOLEAN :
          /\ mode = "pkcs11" => chain_parses
          /\ Decide("trusted", chain_parses /\ trusted, chain_parses /\ trusted, "host", "Trust")

\* Every verdict of verify_host_binding, with whether this host is bound.
HostVerdicts ==
    {[bound |-> HostIsBound(x, "me"), verified |-> VerifyHostBinding(x, "me")] : x \in Extensions("host")}

VerifyHost ==
    /\ pc = "host"
    /\ \E v \in HostVerdicts : Decide("host", v.bound, v.verified, "user", "CertScope")

\* Every verdict of step 10, with whether this user is bound and which of the
\* two sources decided.
UserVerdicts ==
    {[bound      |-> UserIsBound(x, "me", t),
      authorised |-> AuthoriseUser(x, "me", t),
      by         |-> IF ParseUserBinding(x).status = "ok" THEN "CertScope" ELSE "Mapping"] :
        x \in Extensions("user"), t \in Mappings}

VerifyUser ==
    /\ pc = "user"
    /\ \E v \in UserVerdicts : Decide("user", v.bound, v.authorised, "assembled", v.by)

\* The AuthContext is built, and drop(session) logs out of the token before
\* any hook runs.
AssembleContext ==
    /\ pc = "assembled"
    /\ pc' = "post_hooks"
    /\ session' = Nothing
    /\ UNCHANGED <<mode, usbVars, prompts, credVars, slots, moves, label, filtered, listed, waited, slot,
                   serial_of, used, carried, tries, notified, ctx, err, rc>>

\* run_hooks_for_stage(PostAuthSuccess)
PostAuthHooks ==
    /\ pc = "post_hooks"
    /\ Fail("PostAuthHook") \/ Goto("notify")

\* monitor.open_session: whatever it answers, the flow goes on.
Notify ==
    /\ pc = "notify"
    /\ pc' = "set_data"
    /\ notified' = TRUE
    /\ UNCHANGED <<mode, usbVars, prompts, credVars, tokenVars, ctx, err, rc>>

\* set_auth_context, then drop(mount) and PAM_SUCCESS.
SetAuthContext ==
    /\ pc = "set_data"
    /\ Fail("SetData") \/ (Return("none") /\ ctx' = TRUE /\ UNCHANGED facts)

\* run_pam catches a panic of any step.
Panics ==
    /\ pc # "returned"
    /\ Fail("Panic")

\* The call is over; every other state has a next step.
Done == pc = "returned" /\ UNCHANGED vars

Next ==
    \/ LoadConfig \/ ReadItems \/ Wire \/ Dispatch \/ LoadModule \/ PreAuthHooks
    \/ WaitForUsb \/ NothingBound \/ MountCandidate \/ Discover \/ PromptPkcs12
    \/ TokenMoves \/ FindSlot \/ ScanSlot \/ ReadTokenSerial \/ PromptPkcs11
    \/ PinLoopFails \/ FindCertificateObject \/ FindPrivateKeyObject \/ ChooseMechanism
    \/ Challenge \/ VerifyTrust \/ VerifyHost \/ VerifyUser
    \/ AssembleContext \/ PostAuthHooks \/ Notify \/ SetAuthContext
    \/ Panics
    \/ Done

Spec == Init /\ [][Next]_vars

-----------------------------------------------------------------------------
(* Correctness.                                                            *)

\* What must be true of the credential before anything is granted.
Required ==
    {"possession", "trusted", "host", "user"}
        \cup (IF mode = "pkcs12" THEN {"capped"} ELSE {"certificate"})

\* PAM_SUCCESS, the stored context and the report to monitord all imply that
\* the credential really is what the checks are meant to establish, that a PIN
\* was given within the budget of the loop (three prompts for PKCS#12,
\* max_pin_attempts for PKCS#11) and, for PKCS#12, that it unlocked the first
\* partition holding a bundle.
GrantedOnlyIfVerified ==
    rc = 0 \/ ctx \/ notified =>
        /\ Required \subseteq facts
        /\ prompts \in 1 .. (IF mode = "pkcs12" THEN Pkcs12Tries ELSE MaxPinAttempts)
        /\ mode = "pkcs12" =>
              /\ Last(seen) = "bundle"
              /\ \A i \in 1 .. Len(seen) - 1 : seen[i] \in {"no_p12", "junk"}

\* A refusal names a true cause: the token has no usable certificate object,
\* the host or the user is really not bound, no candidate holds a bundle and a
\* junk file is reported only if one was seen, the PIN budget is really spent.
RefusedForCause ==
    /\ err = "NoCertificate" => "certificate" \notin facts
    /\ err = "CertScope" => ~ {"host", "user"} \subseteq facts
    /\ err = "Mapping" => "user" \notin facts
    /\ err \in {"P12NotFound", "P12Envelope"} =>
          /\ Len(seen) = cands
          /\ ToSet(seen) \subseteq {"no_p12", "junk"}
          /\ err = "P12Envelope" <=> "junk" \in ToSet(seen)
    /\ err = "MaxTries" => prompts = IF mode = "pkcs12" THEN Pkcs12Tries ELSE MaxPinAttempts

\* Only the partition in use is mounted, besides those whose umount failed;
\* once the call has returned nothing else is mounted, the token is logged out,
\* and no directory is left except that of a mount that failed or could not be
\* undone.  Hooks and monitord never see a logged-in token.
DevicesReleased ==
    /\ mounted \subseteq stuck \cup (IF guard = 0 THEN {} ELSE {guard})
    /\ pc \in {"post_hooks", "notify", "set_data", "returned"} => session = Nothing
    /\ pc = "returned" =>
          /\ mounted \subseteq stuck
          /\ dirs \subseteq stuck \cup (IF err = "Mount" THEN {Len(seen) + 1} ELSE {})

\* One login spends at most max_pin_attempts of a token's tries: a token that
\* would take more wrong PINs than that when the call began is not locked by
\* it, however tokens are swapped while the prompts are open.
LoginNeverLocksToken ==
    /\ \A t \in Token : MaxPinAttempts < carried[t] => tries[t] > 0
    /\ err = "PinLocked" => \E t \in Token : carried[t] <= MaxPinAttempts

\* Certificate, key and signature of a login come from one insertion of one
\* token, and its serial number, which monitord watches for, was read from the
\* same one unless the token was swapped before the PIN was accepted.
OneTokenAnswers ==
    mode = "pkcs11" /\ (rc = 0 \/ notified) =>
        \E x \in Insertion : used = {x} /\ (serial_of = x \/ serial_of.move < x.move)

=============================================================================
