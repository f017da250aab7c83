---------------------------- MODULE MCDaemonStart -----------------------------
(***************************************************************************)
(* DaemonStart with the situations of a small host: one section of the      *)
(* configuration, or one part of the host, away from its default at a time, *)
(* each at the values around its bounds.                                    *)
(***************************************************************************)
EXTENDS DaemonStart

\* Names a configuration may give besides the documented ones.
Optional(values) == {Unset} \cup values

\* The records that differ from base in one field of options, or in two.
Single(base, options) ==
    UNION {{[base EXCEPT ![f] = v] : v \in options[f]} : f \in DOMAIN options}

Around(base, options) ==
    UNION {{[base EXCEPT ![f] = v, ![g] = w] : v \in options[f], w \in options[g]} :
               f, g \in DOMAIN options}

MCTrusts ==
    Single(RawTrust, [anchors |-> {{}}, intermediates |-> {{"inter"}},
                      max_chain_depth |-> {0, 1, 16, 17}, clock_skew_seconds |-> {600, 601}])
    \cup Around(RawTrust, [mode |-> {"crl", "ocsp", "crl_then_ocsp"}, crl_paths |-> {{"crl"}},
                           ocsp_responder_url |-> {"http", "other"}])
    \cup Around(RawTrust, [pinning |-> {TRUE}, pins |-> {{"hex64"}, {"hex64", "other"}}])

MCTokens ==
    Single(RawToken, [label |-> {"name", "empty", "long", "nul"},
                      max_pin_attempts |-> {0, 1, 5, 6}, slot_wait_seconds |-> {0, 60, 61},
                      pin_prompt |-> {"empty", "long"}, max_usb_partitions |-> {0, 1, 64, 65}])
    \cup Around(RawToken, [crypto_backend |-> {"pkcs11_native"}, mode |-> {"pkcs11"},
                           module |-> {"absolute"}, gost_engine_path |-> {"absolute"}])

MCPatterns == UNION {[1 .. n -> {"", ".", "..", "d"}] : n \in 1 .. 3}

MCTops ==
    Single(RawTop, [on_usb_removed |-> {"logout", "hook", "shutdown"},
                    usb_removed_grace_seconds |-> {600, 601}, suspend_grace_seconds |-> {600, 601},
                    monitor_fail_mode |-> {"permissive"}])

MCMonitors ==
    Single(RawMonitor, [socket_path |-> {"absolute", "relative"},
                        state_file_path |-> {"absolute", "relative"},
                        timeout_ms |-> {99, 100, 60000, 60001},
                        fail_mode |-> {"strict", "permissive", "degraded", "unknown"},
                        on_usb_removed |-> {"lock", "logout", "hook", "shutdown"},
                        hook_path |-> {"absolute", "relative"},
                        usb_removed_grace_seconds |-> {600, 601},
                        suspend_grace_seconds |-> {600, 601},
                        idle_timeout_seconds |-> {0, 1, 3600, 3601},
                        max_concurrent_connections |-> {0, 1, 4096, 4097}])

MCHooks ==
    Around(RawHook, [stage |-> {"pre_auth"}, command |-> {<<>>, <<"relative">>},
                     timeout_seconds |-> {0, 1, 120, 121},
                     env |-> {{"host_id"}, {"cert_cn"}, {"malformed"}}])

MCMappings ==
    UNION {[1 .. n -> [pam_user : {"alice", "malformed"}, criteria : SUBSET {"cn", "upn"}]] : n \in 0 .. 2}

MCMacs == [runtime : Optional({"required", "disabled", "auto"}),
           cert_integrity : Optional({"required", "ignore"}), categories : Optional({"hex", "not hex"})]

Section(name, values) == {[RawConfig EXCEPT ![name] = v] : v \in values}

MCConfigs ==
    Section("trust", MCTrusts) \cup Section("token", MCTokens)
    \cup {[RawConfig EXCEPT !.token.pkcs12_path_pattern = p] : p \in MCPatterns}
    \cup {[RawConfig EXCEPT !.top = t, !.monitor.hook_path = p, !.monitor.on_usb_removed = a] :
             t \in MCTops, p \in Optional({"absolute"}), a \in Optional({"lock", "hook"})}
    \cup Section("monitor", MCMonitors)
    \cup Section("hooks", {<<k>> : k \in MCHooks})
    \cup Section("user_mapping", MCMappings)
    \cup Section("trust_override", {<<[when_host_id_in |-> h, anchors |-> a, intermediates |-> {"inter"}]>> :
                                        h \in {{}, {"h"}}, a \in {{}, {"anchor"}}})
    \cup Section("host_identity",
             [sources : {<<>>, <<"unknown">>, <<"hostname", "machine_id">>,
                         <<"board_serial", "dmi_board_serial">>},
              custom_command : Optional({"absolute", "relative"})])
    \cup Section("logging", [level : {"info", "unknown"}, syslog_facility : {"auth", "unknown"}])
    \cup Section("fly_dm_greeter",
             Around(RawFlyDmGreeter, [path |-> {"relative"}, text_color |-> {"#RRGGBB", "other"},
                                      gravity |-> {"south", "unknown"}, font_size |-> {0, 64}]))

-----------------------------------------------------------------------------

Lines == {"@include certauth", "auth pam_parsec_mac", "session pam_certauth",
          "session pam_systemd", "comment"}

Readable(lines) == [state |-> "read", lines |-> lines]
NotRead(state) == [state |-> state, lines |-> <<>>]

MCHost ==
    [config |-> "parses", file |-> [p \in {"anchor", "inter"} |-> "pem"], crl |-> "file",
     engine |-> "file", services |-> {Readable(<<>>)}, kernel |-> "Active", chmac |-> TRUE,
     ca_dir |-> "restricted", probes |-> {TRUE}, bus |-> "up", run_dir |-> "writable"]

MCServices == {{Readable(l)} : l \in UNION {[1 .. n -> Lines] : n \in 0 .. 3}}
              \cup {{NotRead("missing")}, {NotRead("unreadable")}}

FileStates == {"missing", "unreadable", "empty", "no_pem", "pem"}

MCHosts ==
    {[MCHost EXCEPT !.services = s] : s \in MCServices}
    \cup {[MCHost EXCEPT !.file["anchor"] = f] : f \in FileStates}
    \cup {[MCHost EXCEPT !.kernel = k, !.chmac = c] :
             k \in {"Active", "Disabled", "Unavailable"}, c \in BOOLEAN}
    \cup {[MCHost EXCEPT !.ca_dir = d] : d \in {"absent", "world-writable"}}
    \cup {[MCHost EXCEPT !.probes = b] : b \in SUBSET BOOLEAN}
    \cup {[MCHost EXCEPT !.config = "unreadable"], [MCHost EXCEPT !.crl = "missing"],
          [MCHost EXCEPT !.engine = "missing"], [MCHost EXCEPT !.bus = "down"],
          [MCHost EXCEPT !.run_dir = "read-only"], [MCHost EXCEPT !.run_dir = "occupied"]}

NoArgs == [no_dbus |-> FALSE, no_udev |-> FALSE]

Situation(raw, host, args) == [raw |-> raw, host |-> host, args |-> args, replacements |-> {}]

MCSituations ==
    {Situation(r, MCHost, NoArgs) : r \in MCConfigs}
    \cup {Situation(RawConfig, h, NoArgs) : h \in MCHosts}
    \cup {Situation([RawConfig EXCEPT !.mac = m], [MCHost EXCEPT !.kernel = k], NoArgs) :
             m \in MCMacs, k \in {"Active", "Disabled"}}
    \cup {Situation([RawConfig EXCEPT !.trust.mode = "crl", !.trust.crl_paths = {"crl"},
                                      !.token.gost_engine_path = "absolute"], h, NoArgs) :
             h \in {[MCHost EXCEPT !.crl = "missing"], [MCHost EXCEPT !.engine = "missing"]}}
    \cup {[Situation(RawConfig, MCHost, NoArgs) EXCEPT !.replacements = FileStates]}
    \cup {Situation(RawConfig, [MCHost EXCEPT !.bus = b], a) :
             b \in {"up", "down"}, a \in [no_dbus : BOOLEAN, no_udev : BOOLEAN]}

=============================================================================
