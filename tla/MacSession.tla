------------------------------ MODULE MacSession ------------------------------
(***************************************************************************)
(* The integrity label of a login: pam_sm_authenticate decodes the bound   *)
(* in the certificate, and each pam_sm_open_session of the transaction     *)
(* reads the configuration again, chooses a backend, and runs the policy   *)
(* (pam session.rs, mac/orchestrator.rs).  The kernel's strict mode and    *)
(* the user's entry in mic.db are read where the code reads them, and may  *)
(* change between two reads.  The home-directory advisory and the wording  *)
(* of audit events change nothing else and are left out.                   *)
(***************************************************************************)
EXTENDS IntegrityLabel

CONSTANTS
    Extensions,  \* values of the MAX_INTEGRITY extension, sequences of octets
    Issued,      \* labels that issuers put into certificates
    RawPolicies, \* what the [mac] section of the file may say
    Levels,      \* the `il` field (u32) of mic.db entries
    NotHex,      \* a fallback whose categories are not a hex number of 64 bits
    Initial,     \* the label of the PAM application's process
    MaxCalls,    \* bound: open_session calls
    MaxChanges   \* bound: changes to strict mode or mic.db

\* RawMacPolicy: a field left out of the file is "unset", a fallback is a set
\* with at most one element.
IsRawPolicy(raw) ==
    /\ DOMAIN raw = {"cert_integrity", "runtime", "fallback"}
    /\ raw.cert_integrity \in {"unset", "required", "optional", "ignore"}
    /\ raw.runtime \in {"unset", "required", "auto", "disabled"}
    /\ \/ raw.fallback \in {{}, {NotHex}}
       \/ \E l \in raw.fallback : l \in Label /\ raw.fallback = {l}

Strict == {1, 0, -1}   \* parsec_strict_mode()

ASSUME MacConstants ==
    /\ \A e \in Extensions : e \in Seq(Octet)
    /\ \A l \in Issued : l \in Label
    /\ \A raw \in RawPolicies : IsRawPolicy(raw)
    /\ Levels \subseteq Nat
    /\ NotHex \notin Label
    /\ Initial \in Label
    /\ MaxCalls \in Nat /\ MaxChanges \in Nat

VARIABLES
    step,
    astra_mac,  \* the build has the cargo feature astra-mac
    ext,        \* the leaf's extension, if any
    cert_max,   \* AuthContext.cert_max_integrity, if any
    monitored,  \* monitord was told of the session, and not that it closed
    strict,     \* the kernel's strict mode
    mic,        \* the `il` of the user's mic.db entry, if any
    policy,     \* the MacPolicy of the current or last call
    backend,    \* the backend build_backend chose
    mnkc,       \* the user's maximum as read by the call
    proc,       \* the label of the process
    before,     \* history: proc when the call began
    steady,     \* history: strict has not changed since the call began
    capped,     \* history: the call emitted integrity_capped_below_user_mnkc
    outcome,    \* what the last call came to
    calls, changes

host == <<astra_mac, ext, cert_max>>
kernel == <<strict, mic, changes>>
macVars == <<step, host, monitored, kernel, policy, backend, mnkc, proc, before, steady,
             capped, outcome, calls>>

Unset == [level |-> 0, categories |-> {}]

DefaultPolicy ==
    [cert_integrity |-> "optional", runtime |-> "auto", fallback |-> {}]

MacInit ==
    /\ step = "idle"
    /\ astra_mac \in BOOLEAN
    /\ ext \in {{}} \cup {{e} : e \in Extensions}
    /\ cert_max = {} /\ monitored = FALSE
    /\ strict \in Strict /\ mic \in {{}} \cup {{il} : il \in Levels} /\ changes = 0
    /\ policy = DefaultPolicy /\ backend = "stub" /\ mnkc = Unset
    /\ proc = Initial /\ before = Initial /\ steady = TRUE
    /\ capped = FALSE /\ outcome = "none" /\ calls = 0

-----------------------------------------------------------------------------

\* extract_max_integrity as the flow uses it: an extension that does not
\* decode is reported and then treated as absent.
ExtractMaxIntegrity(e) == UNION {FromDer(der) : der \in e}

\* The end of pam_sm_authenticate as far as labels go; the report to monitord
\* may not have got through.
Authenticate ==
    /\ step = "idle"
    /\ cert_max' = ExtractMaxIntegrity(ext)
    /\ monitored' \in BOOLEAN
    /\ step' = "ready"
    /\ UNCHANGED <<astra_mac, ext, kernel, policy, backend, mnkc, proc, before, steady, capped,
                   outcome, calls>>

Defaulted(value, default) == IF value = "unset" THEN default ELSE value

\* validate_mac: the policies that do not load.
Rejected(raw) ==
    \/ raw.runtime = "disabled" /\ raw.cert_integrity = "required"
    \/ ~astra_mac /\ "required" \in {raw.cert_integrity, raw.runtime}
    \/ raw.fallback = {NotHex}

ValidateMac(raw) ==
    [cert_integrity |-> Defaulted(raw.cert_integrity, "optional"),
     runtime        |-> Defaulted(raw.runtime, "auto"),
     fallback       |-> raw.fallback]

\* The call returns.
Returns(result) == step' = "ready" /\ outcome' = result

\* pam_sm_open_session up to its configuration.
OpenSession ==
    /\ step = "ready" /\ calls < MaxCalls
    /\ calls' = calls + 1
    /\ before' = proc /\ steady' = TRUE /\ capped' = FALSE
    /\ \E raw \in RawPolicies :
          \/ Rejected(raw) /\ Returns("config_error") /\ UNCHANGED policy
          \/ ~Rejected(raw) /\ policy' = ValidateMac(raw) /\ step' = "loaded" /\ outcome' = "none"
    /\ UNCHANGED <<host, monitored, kernel, backend, mnkc, proc>>

Probe(s) == CASE s = 1 -> "Active" [] s = 0 -> "Disabled" [] OTHER -> "Unavailable"

\* Mutant: a required runtime degrades like an automatic one.
FailsToBuildNever(runtime) == FALSE

\* build_backend's one refusal
FailsToBuild(runtime) == runtime = "required" /\ Probe(strict) # "Active"

\* build_backend.  Its refusal comes before the monitor client exists, so the
\* session is not closed in monitord.
BuildBackend ==
    /\ step = "loaded"
    /\ \/ /\ astra_mac /\ FailsToBuild(policy.runtime)
          /\ Returns("auth_error") /\ UNCHANGED backend
       \/ /\ ~(astra_mac /\ FailsToBuild(policy.runtime))
          /\ backend' = IF /\ astra_mac
                           /\ policy.runtime # "disabled"
                           /\ Probe(strict) = "Active"
                        THEN "parsec" ELSE "stub"
          /\ step' = "built" /\ UNCHANGED outcome
    /\ UNCHANGED <<host, monitored, kernel, policy, mnkc, proc, before, steady, capped, calls>>

\* MacBackend::probe: the second look at strict mode.
Runtime == IF backend = "parsec" THEN Probe(strict) ELSE "Unavailable"

\* A denial by the policy closes the session in monitord; a failure to do so
\* is only logged.
Deny(result) == Returns(result) /\ monitored' \in {monitored, FALSE}

\* Mutant: an inactive runtime skips the label under every policy.
SkipsInactiveAlways(mode) == TRUE

SkipsInactive(mode) == mode # "required"

\* apply_session_policy, steps (1) and (2).
ProbeRuntime ==
    /\ step = "built"
    /\ \/ policy.cert_integrity = "ignore" /\ Returns("skipped") /\ UNCHANGED monitored
       \/ /\ policy.cert_integrity # "ignore"
          /\ \/ Runtime = "Active" /\ step' = "probed" /\ UNCHANGED <<outcome, monitored>>
             \/ /\ Runtime # "Active" /\ SkipsInactive(policy.cert_integrity)
                /\ Returns("skipped") /\ UNCHANGED monitored
             \/ /\ Runtime # "Active" /\ ~SkipsInactive(policy.cert_integrity)
                /\ Deny("auth_error")
    /\ UNCHANGED <<host, kernel, policy, backend, mnkc, proc, before, steady, capped, calls>>

\* get_user_mnkc: i8::try_from(il), saturating.
LevelOf(il) == IF il > MaxLevel THEN MaxLevel ELSE il

\* Steps (3) and (4): a required extension must be there, and the user must
\* have an entry.  mic.db's categories are not read.
ResolveMnkc ==
    /\ step = "probed"
    /\ \/ /\ cert_max = {} /\ policy.cert_integrity = "required"
          /\ Deny("auth_error") /\ UNCHANGED mnkc
       \/ /\ ~(cert_max = {} /\ policy.cert_integrity = "required")
          /\ \/ mic = {} /\ Deny("session_error") /\ UNCHANGED mnkc
             \/ \E il \in mic :
                   /\ mnkc' = [level |-> LevelOf(il), categories |-> {}]
                   /\ step' = "resolved" /\ UNCHANGED <<outcome, monitored>>
    /\ UNCHANGED <<host, kernel, policy, backend, proc, before, steady, capped, calls>>

\* Step (5): the certificate's bound, else the configured one, else none.
Bound == IF cert_max # {} THEN cert_max ELSE policy.fallback

\* The labels step (5) may come to: exactly one.
Effective == IF Bound = {} THEN {mnkc} ELSE {IntersectCertWithUser(b, mnkc) : b \in Bound}

\* Steps (5) to (8).  The kernel may refuse the label.
ApplySession ==
    /\ step = "resolved"
    /\ \E effective \in Effective :
          /\ capped' = StrictlyBelow(effective, mnkc)
          /\ \/ /\ proc' = PdplOf(EncodeLabelText(effective))
                /\ Returns("applied") /\ UNCHANGED monitored
             \/ UNCHANGED proc /\ Deny("session_error")
    /\ UNCHANGED <<host, kernel, policy, backend, mnkc, before, steady, calls>>

\* An administrator changes strict mode or the user's entry, at any moment.
HostChanges ==
    /\ changes < MaxChanges /\ changes' = changes + 1
    /\ \/ /\ strict' \in Strict \ {strict} /\ steady' = FALSE /\ UNCHANGED mic
       \/ mic' \in ({{}} \cup {{il} : il \in Levels}) \ {mic} /\ UNCHANGED <<strict, steady>>
    /\ UNCHANGED <<step, host, monitored, policy, backend, mnkc, proc, before, capped,
                   outcome, calls>>

\* The application has made its calls.
Done == step = "ready" /\ calls = MaxCalls /\ UNCHANGED macVars

MacNext ==
    \/ Authenticate \/ OpenSession \/ BuildBackend \/ ProbeRuntime \/ ResolveMnkc
    \/ ApplySession \/ HostChanges \/ Done

MacSpec == MacInit /\ [][MacNext]_macVars

-----------------------------------------------------------------------------

Outcome == {"none", "config_error", "auth_error", "session_error", "skipped", "applied"}

\* The types of the state; in particular every label is one the kernel's
\* fields can hold, whatever number mic.db has.
MacTypeOK ==
    /\ step \in {"idle", "ready", "loaded", "built", "probed", "resolved"}
    /\ ext = {} \/ \E e \in Extensions : ext = {e}
    /\ cert_max = {} \/ \E l \in cert_max : l \in Label /\ cert_max = {l}
    /\ astra_mac \in BOOLEAN /\ monitored \in BOOLEAN /\ steady \in BOOLEAN /\ capped \in BOOLEAN
    /\ strict \in Strict
    /\ mic = {} \/ \E il \in Levels : mic = {il}
    /\ policy.cert_integrity \in {"required", "optional", "ignore"}
    /\ policy.runtime \in {"required", "auto", "disabled"}
    /\ policy.fallback = {} \/ \E l \in policy.fallback : l \in Label /\ policy.fallback = {l}
    /\ backend \in {"parsec", "stub"}
    /\ {mnkc, proc, before} \subseteq Label
    /\ outcome \in Outcome
    /\ calls \in 0 .. MaxCalls /\ changes \in 0 .. MaxChanges

\* The label a call applied exceeds neither what mic.db allowed the user nor
\* the bound in force: the certificate's, or without one the configured
\* fallback (orchestrator.rs, step 5).
AppliedLabelIsBounded ==
    outcome = "applied" =>
        /\ proc.level <= mnkc.level /\ proc.categories \subseteq mnkc.categories
        /\ \A b \in Bound : Within(proc, b)

\* Under cert_integrity = "required" no session opens without a label that
\* respects the bound in its certificate, whichever backend was chosen and
\* whatever the two probes said.
RequiredMeansBound ==
    (policy.cert_integrity = "required" /\ outcome \in {"applied", "skipped"}) =>
        /\ outcome = "applied"
        /\ \E b \in cert_max : Within(proc, b)

\* runtime = "required" is fail-closed: unless the policy ignores labels, a
\* session opens unlabelled only if strict mode was switched off between the
\* probe of build_backend and that of the policy.
RuntimeRequiredFailsClosed ==
    (outcome = "skipped" /\ policy.runtime = "required" /\ policy.cert_integrity # "ignore")
        => ~steady

\* A call that is denied, or skips, leaves the label of the process as it was.
DeniedCallKeepsLabel ==
    outcome \in {"config_error", "auth_error", "session_error", "skipped"} => proc = before

\* The capping event is emitted exactly when the label applied is not the
\* user's maximum: strictly_below loses no case of the partial order.
CappingIsAudited ==
    outcome = "applied" => (capped <=> proc # mnkc)

\* The bound the issuer encoded is the bound the login uses.
IssuedBoundIsUsed ==
    step # "idle" => \A l \in Issued : ext = {ToDer(l)} => cert_max = {l}

=============================================================================
