----------------------------- MODULE DaemonStart ------------------------------
(***************************************************************************)
(* One life of the daemon after another (daemon/mod.rs run_async, the bind  *)
(* of server.rs, notify.rs, shutdown.rs): the configuration, the start-up   *)
(* checks, the registry, the tasks, the socket, READY=1, and the ways down: *)
(* an error of the start, SIGTERM, a kill at any step, a power loss.        *)
(* What one life leaves behind (sessions.json, the socket, the temporary    *)
(* socket of its pid) is what the next one finds.                           *)
(*                                                                         *)
(* The file steps are those of SessionsFile; LoadRegistry is its Start.     *)
(* Updating the wallpaper, whose failures are ignored, is in HostIdentity.  *)
(***************************************************************************)
EXTENDS SessionsFile, StartupCheck

CONSTANTS
    Situations,  \* what a start may find: [raw, host, args, replacements]
    Pids,        \* process ids, reused
    None         \* nothing is loaded or found

\* What the Rust types of RawConfig and of the probes fix.  A value split at
\* '/' has at least one segment.
IsSituation(s) ==
    /\ DOMAIN s = {"raw", "host", "args", "replacements"}
    /\ s.args \in [no_dbus : BOOLEAN, no_udev : BOOLEAN]
    /\ {"services", "file", "bus", "run_dir"} \subseteq DOMAIN s.host
    /\ s.host.bus \in {"up", "down"}
    /\ s.host.run_dir \in {"writable", "read-only", "occupied"}
    /\ \A v \in s.host.services :
           v.state \in {"missing", "unreadable", "read"} /\ v.lines \in Seq(STRING)
    /\ DOMAIN s.raw.token = DOMAIN RawToken
    /\ s.raw.token.pkcs12_path_pattern # Unset =>
           s.raw.token.pkcs12_path_pattern \in Seq(STRING) \ {<<>>}
    /\ s.raw.monitor.hook_path \in {Unset, "absolute", "relative"}
    /\ \A k \in Range(s.raw.hooks) : k.command \in Seq(STRING)
    /\ LET ms == s.raw.user_mapping IN Len(ms) \in Nat /\ DOMAIN ms = 1 .. Len(ms)

ASSUME SituationConstants ==
    /\ \A s \in Situations : IsSituation(s)
    /\ Unset \notin {"absolute", "relative"}

VARIABLES
    phase,   \* where run_async stands; "failed" once it returned an error,
             \* "down" without a process
    pid,
    found,   \* the situation of this start
    cfg,     \* the validated configuration
    tasks,   \* what was spawned
    ready,   \* READY=1 was sent
    socket,  \* the socket file: "none", "live", or "stale" when its process is gone
    temps,   \* the pids whose temporary socket is on disk
    cause    \* why the start failed

process == <<phase, pid, found, cfg, tasks, ready>>
left_behind == <<socket, temps>>
all_vars == <<vars, process, left_behind, cause>>

DaemonInit ==
    /\ Init
    /\ phase = "down" /\ pid = None /\ found = None /\ cfg = None
    /\ tasks = {} /\ ready = FALSE /\ socket = "none" /\ temps = {} /\ cause = "none"

\* The process is gone, and with it all that is not a file.
Gone ==
    /\ phase' = "down" /\ pid' = None /\ found' = None /\ cfg' = None /\ cause' = "none"
    /\ tasks' = {} /\ ready' = FALSE

Orphaned == IF socket = "live" THEN "stale" ELSE socket

\* run_async returns; dropping the runtime waits for a persist under way.
Return ==
    /\ pc = "idle" /\ up' = FALSE
    /\ UNCHANGED <<mem, pc, tmp, entry, on_disk, version, acked>>

FailStart(why) ==
    /\ Return
    /\ phase' = "failed" /\ cause' = why /\ cfg' = None /\ tasks' = {}
    /\ UNCHANGED <<pid, found, ready, left_behind>>

Proceed(from, to) == phase = from /\ phase' = to /\ UNCHANGED <<pid, found, cause>>

-----------------------------------------------------------------------------

Exec ==
    /\ phase = "down"
    /\ found' \in Situations /\ pid' \in Pids
    /\ phase' = "config"
    /\ UNCHANGED <<vars, cfg, tasks, ready, left_behind, cause>>

LoadConfig ==
    /\ phase = "config"
    /\ IF LoadValidatedConfig(found.raw, found.host)
       THEN /\ Proceed("config", "checks")
            /\ cfg' = ValidatedConfig(found.raw)
            /\ UNCHANGED <<vars, tasks, ready, left_behind>>
       ELSE FailStart("config")

\* The checks read the PEM files again, and one may have been replaced.
FileReplaced ==
    /\ phase = "checks"
    /\ \E p \in cfg.trust.anchors, state \in found.replacements :
           found' = [found EXCEPT !.host.file[p] = state]
    /\ UNCHANGED <<vars, phase, pid, cfg, tasks, ready, left_behind, cause>>

RunChecks ==
    /\ phase = "checks"
    /\ IF HasErrors(RunStartupChecks(cfg, found.host))
       THEN FailStart("checks")
       ELSE Proceed("checks", "load") /\ UNCHANGED <<vars, cfg, tasks, ready, left_behind>>

\* The registry is loaded and the state manager spawned; between the two, a
\* hook action without a path ends the start.
LoadRegistry ==
    /\ phase = "load"
    /\ IF cfg.monitor.on_usb_removed = "hook" /\ cfg.monitor.hook_path = Unset
       THEN FailStart("hook path")
       ELSE /\ Start
            /\ Proceed("load", "bus")
            /\ tasks' = {"state"}
            /\ UNCHANGED <<cfg, ready, left_behind>>

\* The listeners the command line leaves on.
Listeners == {t \in {"udev", "logind"} :
                 ~(t = "udev" /\ found.args.no_udev) /\ ~(t = "logind" /\ found.args.no_dbus)}

SpawnActions(backend) ==
    /\ Proceed("bus", "bind")
    /\ tasks' = tasks \cup {backend} \cup Listeners
    /\ UNCHANGED <<vars, cfg, ready, left_behind>>

\* Mutant: without a system bus the actions fall back to NoopActions.
FallBackToNoop == SpawnActions("NoopActions")

\* Failing to connect is an error, after the state manager was spawned.
BusUnavailable == FailStart("bus")

\* The action runner on its backend, then the two listeners.
ConnectBus ==
    /\ phase = "bus"
    /\ CASE found.args.no_dbus -> SpawnActions("NoopActions")
         [] ~found.args.no_dbus /\ found.host.bus = "up" -> SpawnActions("LogindActions")
         [] OTHER -> BusUnavailable

\* Mutant: what is at the temporary path is left there.
KeepTemp == temps

UnlinkTemp == temps \ {pid}

\* bind_with_label up to the rename: bind on the temporary path of this pid.
BindTemp ==
    /\ phase = "bind"
    /\ IF found.host.run_dir # "read-only" /\ pid \notin UnlinkTemp
       THEN /\ Proceed("bind", "publish")
            /\ temps' = UnlinkTemp \cup {pid}
            /\ UNCHANGED <<vars, cfg, tasks, ready, socket>>
       ELSE FailStart("socket")

\* The rename over whatever file is at the path, and the accept loop.  A
\* directory there makes it fail, and the temporary socket stays.
Publish ==
    /\ phase = "publish"
    /\ IF found.host.run_dir # "occupied"
       THEN /\ Proceed("publish", "notify")
            /\ socket' = "live" /\ temps' = temps \ {pid}
            /\ tasks' = tasks \cup {"accept"}
            /\ UNCHANGED <<vars, cfg, ready>>
       ELSE FailStart("socket")

NotifyReady ==
    /\ Proceed("notify", "signals")
    /\ ready' = TRUE
    /\ UNCHANGED <<vars, cfg, tasks, left_behind>>

\* install_signal_handlers comes after READY=1: until here SIGTERM kills.
InstallSignalHandlers ==
    /\ Proceed("signals", "serving")
    /\ UNCHANGED <<vars, cfg, tasks, ready, left_behind>>

\* The token is cancelled; the tasks end as they see it.
Sigterm ==
    /\ Proceed("serving", "stopping")
    /\ UNCHANGED <<vars, cfg, tasks, ready, left_behind>>

\* graceful_finish waits for the tasks, for five seconds at most, and unlinks the socket.
GracefulFinish ==
    /\ phase = "stopping"
    /\ Return /\ Gone
    /\ socket' = "none"
    /\ UNCHANGED temps

\* The process of a failed start exits.
Exit ==
    /\ phase = "failed"
    /\ Gone
    /\ UNCHANGED <<vars, left_behind>>

-----------------------------------------------------------------------------
\* The file, once something can change the registry.

Persisting ==
    /\ \/ tasks \cap {"accept", "logind"} # {} /\ PersistBegins
       \/ WriteAll \/ SyncFile \/ Rename \/ SyncDir \/ PersistFails \/ Writeback
    /\ UNCHANGED <<process, left_behind, cause>>

KilledAnywhere ==
    /\ phase \notin {"down", "failed"}
    /\ Killed \/ (~up /\ UNCHANGED vars)
    /\ Gone
    /\ socket' = Orphaned
    /\ UNCHANGED temps

\* The socket directory is usually, not always, volatile.
HostLosesPower ==
    /\ PowerLoss
    /\ Gone
    /\ \/ socket' = "none" /\ temps' = {}
       \/ socket' = Orphaned /\ UNCHANGED temps

DaemonNext ==
    \/ Exec \/ LoadConfig \/ FileReplaced \/ RunChecks \/ LoadRegistry \/ ConnectBus
    \/ BindTemp \/ Publish \/ NotifyReady \/ InstallSignalHandlers
    \/ Sigterm \/ GracefulFinish \/ Exit
    \/ Persisting \/ KilledAnywhere \/ HostLosesPower

DaemonSpec == DaemonInit /\ [][DaemonNext]_all_vars

\* The check command, run where this start runs.
CheckPasses ==
    /\ LoadValidatedConfig(found.raw, found.host)
    /\ ~HasErrors(RunStartupChecks(ValidatedConfig(found.raw), found.host))

-----------------------------------------------------------------------------

\* Where the segments of a path lead, as a depth below the mount point.
Depth(path) ==
    Cardinality({i \in DOMAIN path : path[i] \notin {"..", ".", ""}})
    - Cardinality({i \in DOMAIN path : path[i] = ".."})

StaysBelow(pattern) ==
    /\ Len(pattern) > 1 => Head(pattern) # ""
    /\ \A n \in 1 .. Len(pattern) : Depth(SubSeq(pattern, 1, n)) >= 0
    /\ Depth(pattern) > 0

\* What the code that uses a configuration takes for granted.
Usable(c) ==
    /\ \A k \in Range(c.hooks) : Len(k.command) >= 1
    /\ c.token.mode = "pkcs11" => c.token.module # Unset
    /\ c.monitor.on_usb_removed = "hook" <=> c.monitor.hook_path = "absolute"
    /\ c.token.pkcs12_path_pattern # Unset => StaysBelow(c.token.pkcs12_path_pattern)
    /\ {c.trust.max_chain_depth, c.token.max_usb_partitions, c.token.max_pin_attempts}
          \subseteq 1 .. 64
    /\ \A u \in {m.pam_user : m \in Range(c.user_mapping)} :
           Cardinality({i \in DOMAIN c.user_mapping : c.user_mapping[i].pam_user = u}) = 1

\* An accepted configuration never reaches a place where the code that uses it
\* counts on validation: command[0] and pkcs11_module in self_check, the hook
\* path in run_async, the bundle path joined to the mount point at login, the
\* loops bounded by a setting, and a mapping that picks one rule per user.
AcceptedConfigIsUsable == cfg # None => Usable(cfg)

\* READY=1 is sent by a daemon that can do its work: no check reported an
\* error, logins reach its socket, it hears of removals, and its actions go to
\* logind unless it was started without one.
ReadyIsEarned ==
    ready /\ phase # "stopping" =>
        /\ ~HasErrors(RunStartupChecks(cfg, found.host))
        /\ socket = "live" /\ {"state", "accept"} \subseteq tasks
        /\ ~found.args.no_udev => "udev" \in tasks
        /\ ~found.args.no_dbus => {"logind", "LogindActions"} \subseteq tasks

\* Every line ours comes after one of theirs, where the file has any.
Follows(lines, ours, theirs) ==
    Range(lines) \cap theirs # {} =>
        \A i \in DOMAIN lines : lines[i] = ours => \E k \in 1 .. i - 1 : lines[k] \in theirs

\* A login that certauth ends was seen by pam_parsec_mac, and each session is
\* opened after pam_systemd has named it.
StackWorks(lines) ==
    /\ Follows(lines, "@include certauth", {"auth pam_parsec_mac"})
    /\ Follows(lines, "session pam_certauth", {"session pam_systemd", "@include common-session"})

\* A daemon that got past its checks runs on a host where every service file
\* it could read lets a login work: the two orderings of evaluate_service,
\* whatever is repeated or commented out in the file.
CheckedStacksWork ==
    ready => \A s \in found.host.services : s.state = "read" => StackWorks(s.lines)

\* A start fails only for what it finds wrong in the configuration, on the host
\* or on the bus, and then the check command says so too where it can: never
\* for the socket, temporary socket or sessions.json of an earlier life.
StartFailsForCause ==
    /\ cause \in {"config", "checks"} => ~CheckPasses
    /\ cause = "bus" => found.host.bus = "down" /\ ~found.args.no_dbus
    /\ cause = "socket" => found.host.run_dir # "writable"
    /\ cause # "hook path"

=============================================================================
