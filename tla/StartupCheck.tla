----------------------------- MODULE StartupCheck -----------------------------
(***************************************************************************)
(* The start-up checks (startup_check.rs and startup_check/), run by the    *)
(* daemon before it starts anything and by the check command.  All of them  *)
(* run; a report is the set of records they leave.                          *)
(*                                                                         *)
(* host is what the checks find: services (the PAM service files), kernel   *)
(* (the PARSEC state), chmac (the capability), ca_dir, file (the PEM files  *)
(* by path) and probes (what each host identity source answers).            *)
(***************************************************************************)
EXTENDS Config

Record(check, severity) == [check |-> check, severity |-> severity]

HasErrors(report) == \E r \in report : r.severity = "Error"

-----------------------------------------------------------------------------
\* pam_stack.rs.  A service file is a sequence of lines; a line is the module
\* or include it names, or "comment".

\* Mutant: each later match overwrites the one before it.
LastLine(lines, kinds) == SelectLastInSeq(lines, LAMBDA l : l \in kinds)

\* get_or_insert: the first line of one of these kinds, 0 when there is none.
FirstLine(lines, kinds) == SelectInSeq(lines, LAMBDA l : l \in kinds)

\* The pair of lines a record is about: certauth's and the one it must follow.
Ordering(ours, theirs, misorder, ok, alone) ==
    CASE ours = 0 -> {}
      [] ours # 0 /\ theirs = 0 -> alone
      [] ours # 0 /\ theirs # 0 /\ ours < theirs -> {Record(misorder, "Error")}
      [] OTHER -> {Record(ok, "Info")}

EvaluateService(lines) ==
    Ordering(FirstLine(lines, {"@include certauth"}), FirstLine(lines, {"auth pam_parsec_mac"}),
             "pam_stack_misorder", "pam_stack_ok", {})
    \cup
    Ordering(FirstLine(lines, {"session pam_certauth"}),
             FirstLine(lines, {"session pam_systemd", "@include common-session"}),
             "pam_stack_session_misorder", "pam_stack_session_ok",
             {Record("pam_stack_session_no_systemd", "Info")})

\* check: a missing service is skipped, one that does not read is a warning.
CheckPamStack(services) ==
    UNION {CASE s.state = "missing" -> {}
             [] s.state = "unreadable" -> {Record("pam_stack_read_failed", "Warn")}
             [] OTHER -> EvaluateService(s.lines) : s \in services}

-----------------------------------------------------------------------------

CheckMacRuntime(runtime, kernel) ==
    {CASE runtime = "required" /\ kernel = "Active" -> Record("mac_runtime_required_ok", "Info")
       [] runtime = "required" /\ kernel # "Active" ->
              Record("mac_runtime_required_missing_kernel", "Error")
       [] runtime = "auto" /\ kernel = "Active" -> Record("mac_runtime_auto_active", "Info")
       [] runtime = "auto" /\ kernel # "Active" -> Record("mac_runtime_auto_fallback", "Warn")
       [] OTHER -> Record("mac_runtime_disabled", "Info")}

\* check_pem_list
CheckPem(file) ==
    CASE file \in {"missing", "unreadable", "empty"} -> Record("trust_unusable", "Error")
      [] file = "no_pem" -> Record("trust_no_pem", "Warn")
      [] OTHER -> Record("trust_ok", "Info")

CheckAnchors(trust, file) == {CheckPem(file[p]) : p \in trust.anchors \cup trust.intermediates}

CheckCaDirPermissions(ca_dir) ==
    CASE ca_dir = "world-writable" -> {Record("trust_ca_dir_world_writable", "Warn")}
      [] ca_dir = "restricted" -> {Record("trust_ca_dir_ok", "Info")}
      [] OTHER -> {}

\* The probe runs only where labels would be written; a build without
\* astra-mac reports the capability as present.
CheckParsecCaps(mac, kernel, chmac) ==
    IF mac.runtime = "disabled" \/ mac.cert_integrity = "ignore" \/ kernel # "Active" THEN {}
    ELSE IF AstraMac => chmac THEN {Record("parsec_cap_chmac_ok", "Info")}
    ELSE {Record("parsec_cap_chmac_missing", "Warn")}

CheckHostIdentity(probes) ==
    {IF ok THEN Record("host_identity_source_ok", "Info")
     ELSE Record("host_identity_source_failed", "Warn") : ok \in probes}

\* real_kernel_parsec_probe
KernelParsecProbe(host) == IF AstraMac THEN host.kernel ELSE "Unavailable"

RunStartupChecks(cfg, host) ==
    LET kernel == KernelParsecProbe(host) IN
    CheckPamStack(host.services)
    \cup CheckMacRuntime(cfg.mac.runtime, kernel)
    \cup CheckAnchors(cfg.trust, host.file)
    \cup CheckCaDirPermissions(host.ca_dir)
    \cup CheckParsecCaps(cfg.mac, kernel, host.chmac)
    \cup CheckHostIdentity(host.probes)

=============================================================================
