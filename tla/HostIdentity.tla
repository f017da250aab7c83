---------------------------- MODULE HostIdentity ----------------------------
(***************************************************************************)
(* Who this host is, and who asks (host_identity/, host_binding.rs,        *)
(* dump_host_id.rs, startup_check/host_identity.rs, the greeter wallpaper  *)
(* of the daemon).  Three programs walk the configured sources one at a    *)
(* time, while the host changes under them: the login, whose answer the    *)
(* certificate is held against; dump-host-id, from whose report the        *)
(* certificate is issued; and the daemon, which paints its answer on the   *)
(* login screen.  SHA-256 is injective here: a hash is the normalized      *)
(* value it was taken of.                                                  *)
(***************************************************************************)
EXTENDS Naturals, Sequences, Functions

CONSTANTS
    FileKinds,   \* the file sources explored, in the order of fanout_cfg
    Configs,     \* [host_identity] sections explored
    Values,      \* raw values sources may hold
    Id,          \* normalized, non-empty values
    Unknown,     \* the value "unknown" of the fallback, a possible hostname
    Empty,       \* what is left of a value of colons and spaces
    MaxChanges,  \* bound on changes of the host
    MaxCalls     \* bound on program runs

\* What a source may hold: nothing readable, white space, only characters that
\* normalization drops, an id as it is, an id in capitals or with colons.
Raw == [form : {"missing", "blank", "dropped"}, id : {Empty}]
           \cup [form : {"plain", "dressed"}, id : Id]

Kind == Range(FileKinds) \cup {"custom_command", "override"}

\* HostIdentitySection, as validate_host_identity lets it through: sources are
\* non-empty and not repeated.
HostIdentitySection ==
    {c \in [sources : Seq(Kind), fallback : {"deny", "warn", "allow"},
            override_value : {{}} \cup {{v} : v \in {r \in Raw : r.form # "missing"}},
            custom_command : BOOLEAN] :
        c.sources # <<>> /\ IsInjective(c.sources)}

ASSUME HostConstants ==
    /\ Unknown \in Id /\ Empty \notin Id
    /\ Values \subseteq Raw
    /\ Configs \subseteq HostIdentitySection
    /\ FileKinds \in Seq(STRING) /\ IsInjective(FileKinds)
    /\ {"override", "custom_command"} \cap Range(FileKinds) = {}
    /\ MaxChanges \in Nat /\ MaxCalls \in Nat

VARIABLES
    cfg,      \* config.toml, read by each program
    world,    \* what each source holds now
    who,      \* the program that runs, or "none"
    pass,     \* "probe" (probe_all), "resolve" or "report"
    todo,     \* sources still to be asked in this pass
    child,    \* the custom command: "none", "running" or how it ended
    holder,   \* a process the command left behind holds its pipes
    rows,     \* the ids found by probe_all, by source
    resolved, \* the resolver's answer, at most one
    report,   \* dump-host-id's last report, at most one
    cert,     \* host_binding of the certificate on the USB stick
    verdict,  \* of the last login
    target,   \* the greeter's wallpaper: "original" or the id painted on it
    backup,   \* the backup of it: "none", "torn", "original" or an id
    steady,   \* the host has answered alike since the report was begun
    held,     \* ids a configured source held during the running login
    changes, calls

progress == <<who, pass, todo, child, holder, rows, resolved>>
paper    == <<target, backup>>
bounds   == <<changes, calls>>
vars == <<cfg, world, progress, report, cert, verdict, paper, steady, held, bounds>>

-----------------------------------------------------------------------------
(* The sources.                                                            *)

\* normalize_host_id, and the rejection of what is empty after it.
Normalize(raw) == IF raw.form \in {"plain", "dressed"} THEN {raw.id} ELSE {}

\* The list without one source.  No source is listed twice.
Without(sources, kind) ==
    IF kind \in Range(sources)
    THEN LET i == CHOOSE i \in DOMAIN sources : sources[i] = kind
         IN  SubSeq(sources, 1, i - 1) \o SubSeq(sources, i + 1, Len(sources))
    ELSE sources

\* HostIdentityResolver::from_validated: an override is never asked, a command
\* only when there is one.
ChainOf(sources) ==
    LET asked == Without(sources, "override")
    IN  IF cfg.custom_command THEN asked ELSE Without(asked, "custom_command")

\* The ids the configured sources hold now.
HeldNow == UNION {Normalize(world[k]) : k \in Range(ChainOf(cfg.sources))}

\* fanout_cfg: every file source, and the command when there is one.
Fanout == IF cfg.custom_command THEN Append(FileKinds, "custom_command") ELSE FileKinds

Init ==
    /\ cfg \in Configs
    /\ world \in [Range(FileKinds) \cup {"custom_command"} -> Values]
    /\ who = "none" /\ pass = "probe" /\ todo = <<>>
    /\ child = "none" /\ holder = FALSE
    /\ rows = {} /\ resolved = {}
    /\ report = {} /\ cert = {} /\ verdict = "none"
    /\ target = "original" /\ backup = "none"
    /\ steady = FALSE /\ held = {}
    /\ changes = 0 /\ calls = 0

-----------------------------------------------------------------------------
(* The walk over the sources, the same for the three programs.             *)

\* Mutant: the override is hashed as it is written.
PinnedIdAsWritten(v) == IF v.form = "plain" THEN v.id ELSE Empty

\* hash_tuple: normalized like the others, but not rejected when empty.
PinnedId(v) == v.id

\* A program starts.  resolve_host_identity takes a listed override first, and
\* asks nobody then.
Begin(w) ==
    /\ who = "none" /\ calls < MaxCalls
    /\ who' = w
    /\ calls' = calls + 1
    /\ rows' = {}
    /\ IF w = "login" /\ "override" \in Range(cfg.sources) /\ cfg.override_value # {}
       THEN /\ resolved' = {[kind |-> "override", id |-> PinnedId(v)] : v \in cfg.override_value}
            /\ pass' = "report" /\ todo' = <<>>
       ELSE /\ resolved' = {}
            /\ pass' = "probe"
            /\ todo' = IF w = "dump" THEN Fanout ELSE ChainOf(cfg.sources)
    /\ steady' = (w = "dump" \/ steady)
    /\ held' = IF w = "login" THEN HeldNow ELSE {}
    /\ verdict' = "none"
    /\ UNCHANGED <<cfg, world, child, holder, report, cert, paper, changes>>

\* A source has answered with an id, or not: probe_all notes it and goes on,
\* resolve stops at the first.
Answered(ids) ==
    IF pass = "probe"
    THEN /\ rows' = rows \cup {[kind |-> Head(todo), id |-> v] : v \in ids}
         /\ todo' = Tail(todo)
         /\ UNCHANGED <<pass, resolved>>
    ELSE /\ resolved' = {[kind |-> Head(todo), id |-> v] : v \in ids}
         /\ todo' = IF ids = {} THEN Tail(todo) ELSE <<>>
         /\ pass' = IF ids = {} THEN pass ELSE "report"
         /\ UNCHANGED rows

\* The fetch of a file source; machine_id alone lets a blank file through to
\* the normalization that rejects it.
ReadFile ==
    /\ who # "none" /\ todo # <<>> /\ Head(todo) # "custom_command"
    /\ Answered(Normalize(world[Head(todo)]))
    /\ UNCHANGED <<cfg, world, who, child, holder, report, cert, verdict, paper, steady, held, bounds>>

\* The fetch of the command: spawn, and the readers of its pipes.
SpawnCommand ==
    /\ who # "none" /\ todo # <<>> /\ Head(todo) = "custom_command" /\ child = "none"
    /\ child' = "running"
    /\ UNCHANGED <<cfg, world, who, pass, todo, holder, rows, resolved, report, cert, verdict,
                   paper, steady, held, bounds>>

\* A fetch of the command that yields nothing.
Spoiled ==
    /\ Answered({})
    /\ child' = "none"
    /\ steady' = FALSE

\* It cannot be spawned, or try_wait fails: killed and reaped, no join.
CommandError ==
    /\ who # "none" /\ todo # <<>> /\ Head(todo) = "custom_command"
    /\ child \in {"none", "running"}
    /\ Spoiled
    /\ holder' = FALSE
    /\ UNCHANGED <<cfg, world, who, report, cert, verdict, paper, held, bounds>>

\* The command ends by itself, and may leave a process behind.
CommandExits ==
    /\ child = "running"
    /\ child' \in {"success", "failure"}
    /\ holder' \in BOOLEAN
    /\ UNCHANGED <<cfg, world, who, pass, todo, rows, resolved, report, cert, verdict, paper,
                   steady, held, bounds>>

\* Mutant: the deadline is looked at and nobody is killed.
DeadlineWithoutKill == FALSE /\ UNCHANGED vars

\* The deadline: kill and reap.
Deadline ==
    /\ child = "running"
    /\ child' = "killed"
    /\ holder' \in BOOLEAN
    /\ UNCHANGED <<cfg, world, who, pass, todo, rows, resolved, report, cert, verdict, paper,
                   steady, held, bounds>>

\* Both readers are joined, which waits for the pipes to be closed.
JoinReaders ==
    /\ child \in {"success", "failure", "killed"} /\ ~holder
    /\ \/ /\ child = "success"
          /\ Answered(Normalize(world["custom_command"]))
          /\ child' = "none"
          /\ UNCHANGED steady
       \/ child # "success" /\ Spoiled
    /\ UNCHANGED <<cfg, world, who, holder, report, cert, verdict, paper, held, bounds>>

\* The process left behind ends, if it ever does.
HolderExits ==
    /\ holder
    /\ holder' = FALSE
    /\ UNCHANGED <<cfg, world, who, pass, todo, child, rows, resolved, report, cert, verdict,
                   paper, steady, held, bounds>>

\* Mutant: an unresolved host is always "unknown".
FallbackAlways == {[kind |-> "override", id |-> Unknown]}

\* What resolve answers when no source did.
Fallback == IF cfg.fallback = "deny" THEN {} ELSE {[kind |-> "override", id |-> Unknown]}

\* The end of a pass: resolve follows probe_all, with the configured sources.
PassDone ==
    /\ who # "none" /\ pass \in {"probe", "resolve"} /\ todo = <<>>
    /\ IF pass = "probe"
       THEN pass' = "resolve" /\ todo' = ChainOf(cfg.sources) /\ UNCHANGED resolved
       ELSE pass' = "report" /\ resolved' = Fallback /\ UNCHANGED todo
    /\ UNCHANGED <<cfg, world, who, child, holder, rows, report, cert, verdict, paper, steady,
                   held, bounds>>

-----------------------------------------------------------------------------
(* What each program does with the answer.                                 *)

\* The program is done; what it found goes with it.
End ==
    /\ who' = "none" /\ pass' = "probe" /\ todo' = <<>>
    /\ rows' = {} /\ resolved' = {}
    /\ UNCHANGED <<child, holder>>

\* The row of the override, which the chain never asks.
OverrideRow ==
    UNION {{[kind |-> "override", id |-> i] : i \in Normalize(v)} : v \in cfg.override_value}

\* dump-host-id: one row per source that answered, the resolver's choice marked
\* as active.  Without any row, or when it cannot be written, there is none.
DumpReports ==
    /\ who = "dump" /\ pass = "report"
    /\ End
    /\ LET probes == rows \cup OverrideRow IN
       \/ /\ probes # {}
          /\ report' = {[rows |-> probes, active |-> {r.kind : r \in resolved}]}
          /\ UNCHANGED steady
       \/ steady' = FALSE /\ UNCHANGED report
    /\ UNCHANGED <<cfg, world, cert, verdict, paper, held, bounds>>

\* The rows a certificate may be issued from: the active one, when it is ok.
ActiveRows(r) == {row \in r.rows : row.kind \in r.active}

\* verify_host_binding for one descriptor.  A raw string is hashed as it is.
MatchesHost(d, id) ==
    \/ d.kind = "wildcard"
    \/ d.kind = "sha256" /\ d.value.id = id
    \/ d.kind = "raw" /\ d.value.id = id /\ d.value.form = "plain"

\* pam_sm_authenticate: no identity, no login; otherwise the certificate's
\* host_binding decides.
LoginDecides ==
    /\ who = "login" /\ pass = "report"
    /\ End
    /\ verdict' = IF resolved = {} THEN "no_identity"
                  ELSE IF \E d \in cert, r \in resolved : MatchesHost(d, r.id)
                  THEN "admitted" ELSE "refused"
    /\ UNCHANGED <<cfg, world, report, cert, paper, steady, held, bounds>>

\* Mutant: every start takes a new backup.
BackupWanted == TRUE

\* fly_dm_wallpaper_writer::update: a backup is taken once.
BackupMissing == backup = "none"

\* The copy may be cut short, by an error or by the end of the daemon.
TakeBackup ==
    /\ who = "daemon" /\ pass = "report" /\ resolved # {} /\ BackupMissing
    /\ \/ /\ backup' = target
          /\ pass' = "paint"
          /\ UNCHANGED <<who, todo, child, holder, rows, resolved>>
       \/ backup' = "torn" /\ End
    /\ UNCHANGED <<cfg, world, report, cert, verdict, target, steady, held, bounds>>

\* The id is painted over the backup, and the result renamed onto the target.
Paint ==
    /\ who = "daemon" /\ resolved # {}
    /\ pass = "paint" \/ (pass = "report" /\ ~BackupMissing)
    /\ End
    /\ \E r \in resolved : target' = r.id
    /\ UNCHANGED <<cfg, world, report, cert, verdict, backup, steady, held, bounds>>

\* The update is disabled, there is no identity, or a step of it fails: the
\* daemon goes on without.
LeaveWallpaper ==
    /\ who = "daemon" /\ pass \in {"report", "paint"}
    /\ End
    /\ UNCHANGED <<cfg, world, report, cert, verdict, paper, steady, held, bounds>>

-----------------------------------------------------------------------------
(* The administrators and the host.                                        *)

\* A certificate is issued: for the active row of the report, for the string
\* the override holds (bootstrap), or for any host.
Issue ==
    /\ who = "none"
    /\ cert' \in {{[kind |-> "sha256", value |-> [form |-> "plain", id |-> row.id]]} :
                      row \in UNION {ActiveRows(r) : r \in report}}
                 \cup {{[kind |-> "raw", value |-> v]} : v \in cfg.override_value}
                 \cup {{[kind |-> "wildcard", value |-> [form |-> "blank", id |-> Empty]]}}
    /\ cert' # cert
    /\ verdict' = "none"
    /\ UNCHANGED <<cfg, world, progress, report, paper, steady, held, bounds>>

\* A source holds something else: another host, a new board, a reinstallation.
HostChanges ==
    /\ changes < MaxChanges
    /\ \E k \in DOMAIN world, v \in Values :
          /\ k = "custom_command" => child = "none"
          /\ world' = [world EXCEPT ![k] = v]
          /\ held' = held \cup IF who = "login" /\ k \in Range(ChainOf(cfg.sources))
                             THEN Normalize(v) ELSE {}
    /\ steady' = FALSE
    /\ changes' = changes + 1
    /\ UNCHANGED <<cfg, progress, report, cert, verdict, paper, calls>>

\* The configuration is edited between two programs.
Reconfigure ==
    /\ who = "none" /\ changes < MaxChanges
    /\ cfg' \in Configs \ {cfg}
    /\ steady' = FALSE
    /\ changes' = changes + 1
    /\ verdict' = "none"
    /\ UNCHANGED <<world, progress, report, cert, paper, held, calls>>

Rest == who = "none" /\ calls = MaxCalls /\ UNCHANGED vars

Program ==
    \/ ReadFile \/ SpawnCommand \/ Deadline \/ JoinReaders \/ PassDone
    \/ DumpReports \/ LoginDecides \/ TakeBackup \/ Paint \/ LeaveWallpaper

Next ==
    \/ \E w \in {"dump", "login", "daemon"} : Begin(w)
    \/ Program \/ CommandError \/ CommandExits \/ HolderExits
    \/ Issue \/ HostChanges \/ Reconfigure \/ Rest

\* A program that runs is scheduled, and its deadline passes; neither the
\* command nor what it leaves behind need ever end.
Spec == Init /\ [][Next]_vars /\ WF_vars(Program)

-----------------------------------------------------------------------------
(* Properties.                                                             *)

\* The two settings under which report and login mean the same by an override:
\* there is none, or there is nothing else and no deny.
OverrideAgrees ==
    cfg.override_value = {} \/ (cfg.sources = <<"override">> /\ cfg.fallback # "deny")

\* A certificate issued from the active row of dump-host-id is accepted by the
\* next login, as long as the host keeps giving the same answers: the report
\* asks other sources in another order, through other code, than the login.
EnrolledHostIsAdmitted ==
    steady /\ OverrideAgrees /\ (\E r \in report, d \in cert :
        d.kind = "sha256" /\ d.value.id \in {row.id : row \in ActiveRows(r)})
    => verdict \in {"none", "admitted"}

\* A certificate bound to a host is accepted only where a configured source
\* held that id during the call; or the override pins it; or no source
\* answered, the fallback tolerates that, and "unknown" is what it is bound to.
AdmittedIsThisHost ==
    verdict = "admitted" =>
        \A d \in cert :
            \/ d.kind = "wildcard"
            \/ d.value.id \in held
            \/ "override" \in Range(cfg.sources) /\ \E v \in cfg.override_value : v.id = d.value.id
            \/ cfg.fallback # "deny" /\ d.value.id = Unknown

\* The wallpaper's backup is never one of the painted pictures, however often
\* the daemon starts and wherever the first copy is cut short.
BackupIsPristine == backup \in {"none", "torn", "original"}

\* Asking for the identity ends, for a command that hangs too, unless a process
\* the command left behind keeps its pipes open.
ResolutionReturns == who # "none" ~> who = "none" \/ holder

=============================================================================
