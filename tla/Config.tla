-------------------------------- MODULE Config --------------------------------
(***************************************************************************)
(* config.toml: the raw sections (config/raw.rs) and their validation       *)
(* (config/validated.rs), shared by the PAM module, the daemon and the      *)
(* check command.  Numbers are the source's; a path, label or string is     *)
(* what the checks can tell about it.                                       *)
(*                                                                         *)
(* A validator only reads, so the order of its checks decides which error   *)
(* is reported and not what is accepted: each is a conjunction.             *)
(***************************************************************************)
EXTENDS HookEnvironment, SequencesExt

CONSTANTS
    AstraMac,  \* built with the feature astra-mac
    Unset      \* an optional field that is not written

Or(value, default) == IF value = Unset THEN default ELSE value

IsAbsolute(path) == path # "relative"

-----------------------------------------------------------------------------
\* The sections as they are written, with the defaults of serde.

RawTrust == [anchors |-> {"anchor"}, intermediates |-> {}, max_chain_depth |-> 5,
             clock_skew_seconds |-> 0, mode |-> "none", crl_paths |-> {}, ocsp_responder_url |-> Unset,
             pinning |-> FALSE, pins |-> {}]

RawHostIdentity == [sources |-> <<"machine_id">>, custom_command |-> Unset]

RawLogging == [level |-> "info", syslog_facility |-> "auth"]

RawHook == [stage |-> "session_open", command |-> <<"absolute">>, timeout_seconds |-> 10,
            env |-> {}]

RawToken == [crypto_backend |-> "openssl", mode |-> "pkcs12", module |-> Unset, label |-> Unset,
             max_pin_attempts |-> 3, slot_wait_seconds |-> 10, pin_prompt |-> Unset,
             gost_engine_path |-> Unset, pkcs12_path_pattern |-> Unset,
             max_usb_partitions |-> Unset]

RawTop == [on_usb_removed |-> "lock", usb_removed_grace_seconds |-> 0,
           suspend_grace_seconds |-> 0, monitor_fail_mode |-> "strict"]

RawMonitor == [socket_path |-> Unset, state_file_path |-> Unset, timeout_ms |-> Unset,
               fail_mode |-> Unset, on_usb_removed |-> Unset, hook_path |-> Unset,
               usb_removed_grace_seconds |-> Unset, suspend_grace_seconds |-> Unset,
               idle_timeout_seconds |-> Unset, max_concurrent_connections |-> Unset]

RawMacPolicy == [runtime |-> Unset, cert_integrity |-> Unset, categories |-> Unset]

RawFlyDmGreeter == [path |-> Unset, text_color |-> Unset, gravity |-> Unset, font_size |-> Unset]

RawConfig ==
    [trust |-> RawTrust, trust_override |-> <<>>, host_identity |-> RawHostIdentity,
     user_mapping |-> <<>>, logging |-> RawLogging, hooks |-> <<>>, token |-> RawToken,
     top |-> RawTop, monitor |-> RawMonitor, mac |-> RawMacPolicy,
     fly_dm_greeter |-> RawFlyDmGreeter]

-----------------------------------------------------------------------------
\* The validators.  fs is what reading the files that a section names shows:
\* fs.file (by path), fs.crl and fs.engine.

\* validate_pem: the file reads as text and holds a certificate marker.
ValidatePem(file) == file = "pem"

ValidateTrust(t, fs) ==
    /\ t.max_chain_depth \in 1 .. 16
    /\ t.clock_skew_seconds <= 600
    /\ \A p \in t.anchors \cup t.intermediates : ValidatePem(fs.file[p])
    /\ t.mode = "crl" /\ t.crl_paths # {} => fs.crl = "file"
    /\ t.mode \in {"ocsp", "crl_then_ocsp"} => t.ocsp_responder_url = "http"
    /\ t.pinning => t.pins \subseteq {"hex64"}

ValidateTrustOverride(o, fs) ==
    /\ o.when_host_id_in # {}
    /\ \A p \in o.anchors \cup o.intermediates : ValidatePem(fs.file[p])

\* Names of the same source are the same kind.
SourceKind == [machine_id |-> "MachineId", hostname |-> "Hostname",
               dmi_board_serial |-> "DmiBoardSerial", board_serial |-> "DmiBoardSerial",
               dmi_system_uuid |-> "DmiSystemUuid", system_uuid |-> "DmiSystemUuid",
               dmi_system_serial |-> "DmiSystemSerial", system_serial |-> "DmiSystemSerial",
               custom_command |-> "CustomCommand", override |-> "Override"]

ValidateHostIdentity(h) ==
    /\ Range(h.sources) \subseteq DOMAIN SourceKind
    /\ IsInjective([i \in DOMAIN h.sources |-> SourceKind[h.sources[i]]])
    /\ h.sources # <<>>
    /\ IsAbsolute(h.custom_command)

\* A well-formed name not seen before, and one criterion.
ValidateUserMappings(ms) ==
    \A i \in DOMAIN ms :
        /\ ms[i].pam_user # "malformed"
        /\ \A j \in 1 .. i - 1 : ms[j].pam_user # ms[i].pam_user
        /\ Cardinality(ms[i].criteria) = 1

ValidLogging(l) == "unknown" \notin {l.level, l.syslog_facility}

ValidateHook(k) ==
    /\ k.command # <<>>
    /\ IsAbsolute(Head(k.command))
    /\ k.timeout_seconds \in 1 .. 120
    /\ EnvAccepted(k.stage, k.env)

ValidateGostEnginePath(t, fs) ==
    t.gost_engine_path # Unset => t.crypto_backend = "openssl" /\ fs.engine = "file"

ValidatePkcs11Label(label) == label \notin {"empty", "long", "nul"}

ValidatePkcs11Section(t) ==
    /\ t.mode = "pkcs11" => t.module # Unset
    /\ ValidatePkcs11Label(t.label)
    /\ t.max_pin_attempts \in 1 .. 5
    /\ t.slot_wait_seconds \in 0 .. 60
    /\ t.pin_prompt \notin {"empty", "long"}

\* Over the segments of value.split('/'): an empty value and a leading "/" both
\* have an empty first one.
ValidatePkcs12PathPattern(pattern) ==
    pattern # Unset => Head(pattern) # "" /\ Range(pattern) \cap {"..", "."} = {}

ValidateMaxUsbPartitions(n) == Or(n, 8) \in 1 .. 64

-----------------------------------------------------------------------------
\* [monitor], whose removal policy falls back to the top-level fields.

FailMode(top, m) ==
    CASE m.fail_mode = Unset -> top.monitor_fail_mode
      [] m.fail_mode \in {"permissive", "degraded"} -> "permissive"
      [] OTHER -> m.fail_mode

OnUsbRemoved(top, m) == Or(m.on_usb_removed, top.on_usb_removed)

\* Mutant: the path is asked for only when the section itself says hook.
HookPathOfSection(top, m) ==
    /\ m.on_usb_removed = "hook" => m.hook_path # Unset /\ IsAbsolute(m.hook_path)
    /\ OnUsbRemoved(top, m) # "hook" => m.hook_path = Unset

HookPathMatches(top, m) ==
    IF OnUsbRemoved(top, m) = "hook"
    THEN m.hook_path # Unset /\ IsAbsolute(m.hook_path)
    ELSE m.hook_path = Unset

MonitorSection(top, m) ==
    [socket_path |-> Or(m.socket_path, "default"),
     state_file_path |-> Or(m.state_file_path, "default"),
     timeout_ms |-> Or(m.timeout_ms, 2000),
     fail_mode |-> FailMode(top, m),
     on_usb_removed |-> OnUsbRemoved(top, m),
     hook_path |-> m.hook_path,
     usb_removed_grace |-> Or(m.usb_removed_grace_seconds, top.usb_removed_grace_seconds),
     suspend_grace |-> Or(m.suspend_grace_seconds, top.suspend_grace_seconds),
     idle_timeout_seconds |-> Or(m.idle_timeout_seconds, 30),
     max_concurrent_connections |-> Or(m.max_concurrent_connections, 64)]

MonitorLimits(v) ==
    /\ v.timeout_ms \in 100 .. 60000
    /\ v.usb_removed_grace <= 600
    /\ v.suspend_grace <= 600
    /\ v.idle_timeout_seconds \in 1 .. 3600
    /\ v.max_concurrent_connections \in 1 .. 4096

ValidateMonitor(top, m) ==
    LET v == MonitorSection(top, m) IN
    /\ IsAbsolute(v.socket_path)
    /\ IsAbsolute(v.state_file_path)
    /\ MonitorLimits(v)
    /\ v.fail_mode \in {"strict", "permissive"}
    /\ HookPathMatches(top, m)

MacPolicy(m) == [runtime |-> Or(m.runtime, "auto"),
                 cert_integrity |-> Or(m.cert_integrity, "optional")]

ValidateMac(m) ==
    /\ ~(m.runtime = "disabled" /\ m.cert_integrity = "required")
    /\ ~AstraMac => m.cert_integrity # "required" /\ m.runtime # "required"
    /\ m.categories \notin {"too long", "not hex"}

ValidateFlyDmGreeter(g) ==
    /\ IsAbsolute(g.path)
    /\ g.text_color \in {Unset, "#RRGGBB", "#RRGGBBAA"}
    /\ g.gravity # "unknown"
    /\ g.font_size # 0

-----------------------------------------------------------------------------
\* ValidatedConfig::try_from

Accepted(raw, fs) ==
    /\ ValidateTrust(raw.trust, fs)
    /\ ValidateHostIdentity(raw.host_identity)
    /\ ValidateUserMappings(raw.user_mapping)
    /\ ValidLogging(raw.logging)
    /\ \A k \in Range(raw.hooks) : ValidateHook(k)
    /\ ValidateGostEnginePath(raw.token, fs)
    /\ ValidatePkcs11Section(raw.token)
    /\ ValidatePkcs12PathPattern(raw.token.pkcs12_path_pattern)
    /\ ValidateMaxUsbPartitions(raw.token.max_usb_partitions)
    /\ ValidateMonitor(raw.top, raw.monitor)
    /\ \A o \in Range(raw.trust_override) : ValidateTrustOverride(o, fs)
    /\ ValidateMac(raw.mac)
    /\ ValidateFlyDmGreeter(raw.fly_dm_greeter)

ValidatedConfig(raw) ==
    [trust |-> raw.trust, hooks |-> raw.hooks, user_mapping |-> raw.user_mapping,
     token |-> [raw.token EXCEPT !.max_usb_partitions = Or(@, 8)],
     monitor |-> MonitorSection(raw.top, raw.monitor), mac |-> MacPolicy(raw.mac)]

\* load_validated_config: the file reads, parses with no unknown field, and
\* passes.
LoadValidatedConfig(raw, fs) == fs.config = "parses" /\ Accepted(raw, fs)

=============================================================================
