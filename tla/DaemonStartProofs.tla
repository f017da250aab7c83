-------------------------- MODULE DaemonStartProofs --------------------------
(***************************************************************************)
(* The lives of the daemon, for any situations a start may find, any pids   *)
(* and any number of persists: the durability of sessions.json, first by    *)
(* itself and then through every way up and down, what READY=1 promises,    *)
(* what an accepted configuration promises, and why a start may fail.       *)
(***************************************************************************)
EXTENDS DaemonStart, FiniteSetTheorems, SequenceTheorems, NaturalsInduction, TLAPS

\* A leaf that names no prover is tried with these in turn, the last time with
\* more time.
USE SMT, Zenon, SMTT(30)

-----------------------------------------------------------------------------
(* sessions.json.                                                          *)

\* The first start satisfies the invariant.
LEMMA InitFile == Init => FileInv
  BY FileConstants DEF Init, FileInv, File

\* Every step of persist, every failure and every way of going down keeps it.
LEMMA StepFile == FileInv /\ [Next]_vars => FileInv'
  <1> SUFFICES ASSUME FileInv, [Next]_vars PROVE FileInv'
    OBVIOUS
  <1> USE DEF FileInv, File, At
  <1>1. CASE PersistBegins
    BY <1>1 DEF PersistBegins
  <1>2. CASE WriteAll
    BY <1>2 DEF WriteAll
  <1>3. CASE SyncFile
    <2>1. tmp.data = mem
      BY <1>3 DEF SyncFile
    <2>2. tmp' = [data |-> mem, synced |-> TRUE] /\ mem' = mem
      BY <1>3, <2>1 DEF SyncFile, Synced
    <2> QED
      BY <1>3, <2>2 DEF SyncFile
  <1>4. CASE Rename
    BY <1>4 DEF Rename
  <1>5. CASE SyncDir
    BY <1>5 DEF SyncDir, DirectorySynced
  <1>6. CASE PersistFails
    BY <1>6 DEF PersistFails
  <1>7. CASE Writeback
    BY <1>7 DEF Writeback
  <1>8. CASE Killed
    BY <1>8 DEF Killed
  <1>9. CASE PowerLoss
    <2>1. entry' \in {entry, on_disk}
      BY <1>9 DEF PowerLoss, Survivors
    <2> QED
      BY <1>9, <2>1 DEF PowerLoss
  <1>10. CASE Start
    BY <1>10, FileConstants DEF Start, Loaded
  <1>11. CASE UNCHANGED vars
    BY <1>11 DEF vars
  <1> QED
    BY <1>1, <1>2, <1>3, <1>4, <1>5, <1>6, <1>7, <1>8, <1>9, <1>10, <1>11, Zenon DEF Next

\* A restart finds a whole snapshot, and none older than the last one that
\* RegistryStore::persist returned Ok for.
THEOREM Durability == Spec => []RestartFindsLastPersist
  <1>1. FileInv => RestartFindsLastPersist
    BY Zenon DEF FileInv, RestartFindsLastPersist, Survivors
  <1> QED
    BY InitFile, StepFile, <1>1, PTL DEF Spec

-----------------------------------------------------------------------------
(* The start.                                                              *)

\* From the end of load_validated_config to the end of run_async.
Configured ==
    {"checks", "load", "bus", "bind", "publish", "notify", "signals", "serving", "stopping"}
Checked == Configured \ {"checks"}
Spawned == Checked \ {"load"}
Acting == Spawned \ {"bus"}
Published == {"notify", "signals", "serving"}
Ready == {"signals", "serving", "stopping"}

\* What each stage of run_async has established.
StageInv ==
    /\ phase # "down" => IsSituation(found)
    /\ phase \notin Configured => cfg = None
    /\ phase \in Configured => cfg = ValidatedConfig(found.raw) /\ Usable(cfg)
    /\ phase \in Checked => ~HasErrors(RunStartupChecks(cfg, found.host))
    /\ phase \in Spawned => "state" \in tasks
    /\ phase \in Acting =>
          /\ Listeners \subseteq tasks
          /\ ~found.args.no_dbus => "LogindActions" \in tasks
    /\ phase \in Published => socket = "live" /\ "accept" \in tasks
    /\ ready => phase \in Ready
    /\ phase # "failed" => cause = "none"

DaemonInv == StageInv /\ StartFailsForCause

-----------------------------------------------------------------------------
(* pam_stack.rs and validated.rs.                                          *)

\* get_or_insert finds the first line of the kinds, if there is one.
LEMMA FirstLineFacts ==
    ASSUME NEW lines \in Seq(STRING), NEW kinds
    PROVE  LET n == FirstLine(lines, kinds) IN
           \/ n = 0 /\ \A i \in DOMAIN lines : lines[i] \notin kinds
           \/ /\ n \in DOMAIN lines /\ n # 0 /\ lines[n] \in kinds
              /\ \A i \in DOMAIN lines : lines[i] \in kinds => n <= i
<1> DEFINE I == {i \in 1 .. Len(lines) : lines[i] \in kinds}
<1>1. DOMAIN lines = 1 .. Len(lines) /\ Len(lines) \in Nat
  OBVIOUS
<1>2. FirstLine(lines, kinds) = IF I # {} THEN Min(I) ELSE 0
  BY Zenon DEF FirstLine, SelectInSeq
<1>3. CASE I = {}
  BY <1>1, <1>2, <1>3
<1>4. CASE I # {}
  <2>1. I \in SUBSET Nat
    BY <1>1
  <2>2. \E n \in I : \A m \in I : n <= m
    <3> DEFINE less == OpToRel(<, Nat)
    <3>1. PICK n \in I : \A m \in I : <<m, n>> \notin less
      BY <2>1, <1>4, NatLessThanWellFounded, WFMin, Zenon
    <3>2. \A m, k \in Nat : <<m, k>> \notin less => k <= m
      BY DEF OpToRel
    <3>. QED
      BY <2>1, <3>1, <3>2, Zenon
  <2>3. Min(I) \in I /\ \A m \in I : Min(I) <= m
    BY <2>2, Zenon DEF Min
  <2>. QED
    BY <2>3, <1>1, <1>2, <1>4
<1>. QED
  BY <1>3, <1>4

\* Without a misorder record our first line, hence every line of ours, comes
\* after the first of theirs.
LEMMA OrderingFollows ==
    ASSUME NEW lines \in Seq(STRING), NEW ours, NEW theirs, ours \notin theirs,
           NEW bad, NEW ok, NEW alone,
           ~HasErrors(Ordering(FirstLine(lines, {ours}), FirstLine(lines, theirs), bad, ok, alone))
    PROVE  Follows(lines, ours, theirs)
<1> DEFINE o == FirstLine(lines, {ours})
           t == FirstLine(lines, theirs)
<1>1. DOMAIN lines = 1 .. Len(lines) /\ Len(lines) \in Nat
  OBVIOUS
<1>2. \/ o = 0 /\ \A i \in DOMAIN lines : lines[i] # ours
      \/ /\ o \in DOMAIN lines /\ o # 0 /\ lines[o] = ours
         /\ \A i \in DOMAIN lines : lines[i] = ours => o <= i
  BY FirstLineFacts
<1>3. \/ t = 0 /\ \A i \in DOMAIN lines : lines[i] \notin theirs
      \/ /\ t \in DOMAIN lines /\ t # 0 /\ lines[t] \in theirs
         /\ \A i \in DOMAIN lines : lines[i] \in theirs => t <= i
  BY FirstLineFacts
<1>4. ~(o # 0 /\ t # 0 /\ o < t)
  BY Zenon DEF HasErrors, Ordering, Record
<1>5. SUFFICES ASSUME Range(lines) \cap theirs # {}, NEW i \in DOMAIN lines, lines[i] = ours
               PROVE  \E k \in 1 .. i - 1 : lines[k] \in theirs
  BY Zenon DEF Follows
<1>6. \E k \in DOMAIN lines : lines[k] \in theirs
  BY <1>5 DEF Range
<1>7. t \in 1 .. i - 1 /\ lines[t] \in theirs
  <2>1. t \in DOMAIN lines /\ t # 0 /\ lines[t] \in theirs
    BY <1>3, <1>6
  <2>2. o \in DOMAIN lines /\ o # 0 /\ lines[o] = ours /\ o <= i
    BY <1>2, <1>5, Zenon
  <2>3. t # o
    BY <2>1, <2>2
  <2>. QED
    BY <2>1, <2>2, <2>3, <1>1, <1>4, <1>5
<1>. QED
  BY <1>7

\* Checks that report no error have read no service file that breaks logins.
LEMMA ChecksSeeStacks ==
    ASSUME NEW c, NEW host, NEW s \in host.services, s.state = "read", s.lines \in Seq(STRING),
           ~HasErrors(RunStartupChecks(c, host))
    PROVE  StackWorks(s.lines)
<1>1. EvaluateService(s.lines) \subseteq CheckPamStack(host.services)
  BY DEF CheckPamStack
<1>2. ~HasErrors(EvaluateService(s.lines))
  BY <1>1 DEF RunStartupChecks, HasErrors
<1>3. Follows(s.lines, "@include certauth", {"auth pam_parsec_mac"})
  <2>1. ~HasErrors(Ordering(FirstLine(s.lines, {"@include certauth"}),
                            FirstLine(s.lines, {"auth pam_parsec_mac"}),
                            "pam_stack_misorder", "pam_stack_ok", {}))
    BY <1>2, Zenon DEF HasErrors, EvaluateService
  <2>. QED
    BY <2>1, OrderingFollows, Zenon
<1>4. Follows(s.lines, "session pam_certauth", {"session pam_systemd", "@include common-session"})
  <2>1. ~HasErrors(Ordering(FirstLine(s.lines, {"session pam_certauth"}),
                            FirstLine(s.lines, {"session pam_systemd", "@include common-session"}),
                            "pam_stack_session_misorder", "pam_stack_session_ok",
                            {Record("pam_stack_session_no_systemd", "Info")}))
    BY <1>2, Zenon DEF HasErrors, EvaluateService
  <2>. QED
    BY <2>1, OrderingFollows, Zenon
<1>. QED
  BY <1>3, <1>4, Zenon DEF StackWorks

\* A path whose segments are names, or empty after the first, stays below.
LEMMA PatternStaysBelow ==
    ASSUME NEW pattern \in Seq(STRING), pattern # <<>>, pattern # Unset,
           ValidatePkcs12PathPattern(pattern)
    PROVE  StaysBelow(pattern)
<1> DEFINE Downs(q) == {i \in DOMAIN q : q[i] \notin {"..", ".", ""}}
           Ups(q) == {i \in DOMAIN q : q[i] = ".."}
<1>1. Head(pattern) # "" /\ Range(pattern) \cap {"..", "."} = {}
  BY Zenon DEF ValidatePkcs12PathPattern
<1>2. \A i \in DOMAIN pattern : pattern[i] \notin {"..", "."}
  <2>1. \A i \in DOMAIN pattern : pattern[i] \in Range(pattern)
    BY Zenon DEF Range
  <2>. QED
    BY <2>1, <1>1, Zenon
<1>3. DOMAIN pattern = 1 .. Len(pattern) /\ Len(pattern) \in Nat
  OBVIOUS
<1>4. Len(pattern) >= 1 /\ Head(pattern) = pattern[1]
  <2>1. Len(pattern) \in Nat \ {0}
    BY EmptySeq, Zenon
  <2>2. Len(pattern) >= 1
    BY <2>1
  <2>3. Head(pattern) = pattern[1]
    BY <2>1
  <2>. QED
    BY <2>2, <2>3
<1>5. \A q : Depth(q) = Cardinality(Downs(q)) - Cardinality(Ups(q))
  BY Zenon DEF Depth
<1>6. \A q : Downs(q) \subseteq DOMAIN q
  BY Zenon
<1>7. 1 \in DOMAIN pattern
  BY <1>3, <1>4
<1>8. 1 \in Downs(pattern)
  BY <1>1, <1>2, <1>4, <1>7, Zenon
<1> HIDE DEF Downs
<1>9. ASSUME NEW q \in Seq(STRING), \A i \in DOMAIN q : q[i] # ".."
      PROVE  Depth(q) \in Nat /\ Depth(q) = Cardinality(Downs(q)) /\ IsFiniteSet(Downs(q))
  <2>1. Ups(q) = {}
    BY <1>9
  <2>2. Cardinality(Ups(q)) = 0
    BY <2>1, FS_EmptySet, Zenon
  <2>3. /\ DOMAIN q = 1 .. Len(q) /\ 1 \in Int /\ Len(q) \in Int
    OBVIOUS
  <2>4. IsFiniteSet(Downs(q))
    <3>1. IsFiniteSet(1 .. Len(q))
      BY <2>3, FS_Interval
    <3>2. Downs(q) \in SUBSET (1 .. Len(q))
      BY <1>6, <2>3, Zenon
    <3>. QED
      BY <3>1, <3>2, FS_Subset, Zenon
  <2>5. Cardinality(Downs(q)) \in Nat
    BY <2>4, FS_CardinalityType
  <2>6. Depth(q) = Cardinality(Downs(q))
    BY <1>5, <2>2, <2>5
  <2>. QED
    BY <2>4, <2>5, <2>6, Zenon
<1>10. ASSUME NEW n \in 1 .. Len(pattern)
       PROVE  Depth(SubSeq(pattern, 1, n)) >= 0
  <2> DEFINE q == SubSeq(pattern, 1, n)
  <2>1. q \in Seq(STRING) /\ DOMAIN q = 1 .. n /\ \A i \in 1 .. n : q[i] = pattern[i]
    BY <1>3
  <2>2. \A i \in DOMAIN q : q[i] # ".."
    BY <2>1, <1>2, <1>3
  <2>3. Depth(q) \in Nat
    BY <2>1, <2>2, <1>9, Zenon
  <2>. QED
    BY <2>3
<1>11. Depth(pattern) > 0
  <2>1. Depth(pattern) \in Nat /\ Depth(pattern) = Cardinality(Downs(pattern))
        /\ IsFiniteSet(Downs(pattern))
    BY <1>2, <1>9
  <2>2. Cardinality(Downs(pattern)) # 0
    BY <2>1, <1>8, FS_EmptySet
  <2>. QED
    BY <2>1, <2>2
<1>. QED
  BY <1>1, <1>10, <1>11, Zenon DEF StaysBelow

\* Of the rules for a user there is one.
LEMMA OneRulePerUser ==
    ASSUME NEW ms, Len(ms) \in Nat, DOMAIN ms = 1 .. Len(ms), ValidateUserMappings(ms),
           NEW k \in DOMAIN ms
    PROVE  Cardinality({i \in DOMAIN ms : ms[i].pam_user = ms[k].pam_user}) = 1
<1>1. ASSUME NEW i \in DOMAIN ms, ms[i].pam_user = ms[k].pam_user PROVE i = k
  BY <1>1 DEF ValidateUserMappings
<1>2. {i \in DOMAIN ms : ms[i].pam_user = ms[k].pam_user} = {k}
  BY <1>1
<1>. QED
  BY <1>2, FS_Singleton, Zenon

\* What ValidatedConfig::try_from accepts is usable.
LEMMA AcceptedIsUsable ==
    ASSUME NEW s, IsSituation(s), NEW fs, LoadValidatedConfig(s.raw, fs)
    PROVE  Usable(ValidatedConfig(s.raw))
<1> DEFINE c == ValidatedConfig(s.raw)
           raw == s.raw
<1>1. Accepted(raw, fs)
  BY DEF LoadValidatedConfig
<1>2. /\ c.hooks = raw.hooks /\ c.trust = raw.trust /\ c.user_mapping = raw.user_mapping
      /\ c.token = [raw.token EXCEPT !.max_usb_partitions = Or(@, 8)]
      /\ c.monitor = MonitorSection(raw.top, raw.monitor)
  BY DEF ValidatedConfig
<1>3. /\ c.token.mode = raw.token.mode /\ c.token.module = raw.token.module
      /\ c.token.pkcs12_path_pattern = raw.token.pkcs12_path_pattern
      /\ c.token.max_pin_attempts = raw.token.max_pin_attempts
      /\ c.token.max_usb_partitions = Or(raw.token.max_usb_partitions, 8)
  <2>1. {"mode", "module", "pkcs12_path_pattern", "max_pin_attempts", "max_usb_partitions"}
           \subseteq DOMAIN raw.token
    BY DEF IsSituation, RawToken
  <2>. QED
    BY <2>1, <1>2
<1>4. \A k \in Range(c.hooks) : Len(k.command) >= 1
  <2>1. ASSUME NEW k \in Range(raw.hooks) PROVE Len(k.command) >= 1
    <3>1. k.command \in Seq(STRING) /\ k.command # <<>>
      BY <1>1, Zenon DEF IsSituation, Accepted, ValidateHook
    <3>2. Len(k.command) \in Nat \ {0}
      BY <3>1, EmptySeq, Zenon
    <3>. QED
      BY <3>2
  <2>. QED
    BY <2>1, <1>2
<1>5. c.token.mode = "pkcs11" => c.token.module # Unset
  BY <1>1, <1>3, Zenon DEF Accepted, ValidatePkcs11Section
<1>6. c.monitor.on_usb_removed = "hook" <=> c.monitor.hook_path = "absolute"
  <2>1. /\ c.monitor.on_usb_removed = OnUsbRemoved(raw.top, raw.monitor)
        /\ c.monitor.hook_path = raw.monitor.hook_path
    BY <1>2 DEF MonitorSection
  <2>2. HookPathMatches(raw.top, raw.monitor)
    BY <1>1, Zenon DEF Accepted, ValidateMonitor
  <2>3. raw.monitor.hook_path \in {Unset, "absolute", "relative"}
    BY Zenon DEF IsSituation
  <2>. QED
    BY <2>1, <2>2, <2>3, SituationConstants, Zenon DEF HookPathMatches, IsAbsolute
<1>7. c.token.pkcs12_path_pattern # Unset => StaysBelow(c.token.pkcs12_path_pattern)
  <2>1. raw.token.pkcs12_path_pattern # Unset =>
            /\ raw.token.pkcs12_path_pattern \in Seq(STRING)
            /\ raw.token.pkcs12_path_pattern # <<>>
    BY DEF IsSituation
  <2>2. ValidatePkcs12PathPattern(raw.token.pkcs12_path_pattern)
    BY <1>1, Zenon DEF Accepted
  <2>. QED
    BY <2>1, <2>2, <1>3, PatternStaysBelow, Zenon
<1>8. {c.trust.max_chain_depth, c.token.max_usb_partitions, c.token.max_pin_attempts} \subseteq 1 .. 64
  <2>1. raw.trust.max_chain_depth \in 1 .. 16
    BY <1>1, Zenon DEF Accepted, ValidateTrust
  <2>2. raw.token.max_pin_attempts \in 1 .. 5
    BY <1>1, Zenon DEF Accepted, ValidatePkcs11Section
  <2>3. Or(raw.token.max_usb_partitions, 8) \in 1 .. 64
    BY <1>1, Zenon DEF Accepted, ValidateMaxUsbPartitions
  <2>. QED
    BY <2>1, <2>2, <2>3, <1>2, <1>3
<1>9. \A u \in {m.pam_user : m \in Range(c.user_mapping)} :
          Cardinality({i \in DOMAIN c.user_mapping : c.user_mapping[i].pam_user = u}) = 1
  <2> DEFINE ms == raw.user_mapping
  <2>1. Len(ms) \in Nat /\ DOMAIN ms = 1 .. Len(ms) /\ ValidateUserMappings(ms)
    BY <1>1, Zenon DEF IsSituation, Accepted
  <2>2. ASSUME NEW k \in DOMAIN ms
        PROVE  Cardinality({i \in DOMAIN ms : ms[i].pam_user = ms[k].pam_user}) = 1
    BY <2>1, OneRulePerUser, Zenon
  <2>3. ASSUME NEW u \in {m.pam_user : m \in Range(ms)}
        PROVE  Cardinality({i \in DOMAIN ms : ms[i].pam_user = u}) = 1
    <3>1. PICK k \in DOMAIN ms : u = ms[k].pam_user
      BY Zenon DEF Range
    <3>. QED
      BY <3>1, <2>2, Zenon
  <2>4. c.user_mapping = ms
    BY <1>2
  <2>. QED
    BY <2>3, <2>4, Zenon
<1>. QED
  BY <1>4, <1>5, <1>6, <1>7, <1>8, <1>9, Zenon DEF Usable

-----------------------------------------------------------------------------
(* The steps.                                                              *)

\* Every step of a life of the daemon is, for the file, a step of
\* SessionsFile, or the end of run_async between two persists.
LEMMA FileStep ==
    ASSUME DaemonNext
    PROVE  [Next]_vars \/ Return
<1>1. LoadConfig => UNCHANGED vars \/ Return
  BY Zenon DEF LoadConfig, FailStart
<1>2. RunChecks => UNCHANGED vars \/ Return
  BY Zenon DEF RunChecks, FailStart
<1>3. LoadRegistry => Start \/ Return
  BY Zenon DEF LoadRegistry, FailStart
<1>4. ConnectBus => UNCHANGED vars \/ Return
  BY Zenon DEF ConnectBus, SpawnActions, BusUnavailable, FailStart
<1>5. BindTemp => UNCHANGED vars \/ Return
  BY Zenon DEF BindTemp, FailStart
<1>6. Publish => UNCHANGED vars \/ Return
  BY Zenon DEF Publish, FailStart
<1>7. Persisting => Next
  BY Zenon DEF Persisting, Next
<1>8. KilledAnywhere => Killed \/ UNCHANGED vars
  BY Zenon DEF KilledAnywhere
<1>9. HostLosesPower => PowerLoss
  BY Zenon DEF HostLosesPower
<1>10. GracefulFinish => Return
  BY Zenon DEF GracefulFinish
<1>11. Exec \/ FileReplaced \/ NotifyReady \/ InstallSignalHandlers \/ Sigterm \/ Exit =>
           UNCHANGED vars
  BY Zenon DEF Exec, FileReplaced, NotifyReady, InstallSignalHandlers, Sigterm, Exit
<1>. QED
  BY <1>1, <1>2, <1>3, <1>4, <1>5, <1>6, <1>7, <1>8, <1>9, <1>10, <1>11, Zenon
     DEF DaemonNext, Next

\* However the daemon or the host went down, and however often a start failed
\* on the way, the file that run_async loads holds a whole snapshot, none older
\* than the last one whose persist returned Ok.
THEOREM DurableAcrossLives == DaemonSpec => []RestartFindsLastPersist
<1>1. DaemonInit => FileInv
  BY InitFile DEF DaemonInit
<1>2. FileInv /\ [DaemonNext]_all_vars => FileInv'
  <2> SUFFICES ASSUME FileInv, [DaemonNext]_all_vars PROVE FileInv'
    OBVIOUS
  <2>1. [Next]_vars \/ Return
    BY FileStep, Zenon DEF all_vars
  <2>2. CASE Return
    BY <2>2 DEF Return, FileInv, File
  <2>. QED
    BY <2>1, <2>2, StepFile
<1>3. FileInv => RestartFindsLastPersist
  BY Zenon DEF FileInv, RestartFindsLastPersist, Survivors
<1>. QED
  BY <1>1, <1>2, <1>3, PTL DEF DaemonSpec

\* A step that leaves the process alone.
LEMMA SameProcess ==
    ASSUME DaemonInv, UNCHANGED <<process, left_behind, cause>>
    PROVE  DaemonInv'
<1>1. UNCHANGED <<phase, pid, found, cfg, tasks, ready, socket, temps, cause>>
  BY DEF process, left_behind
<1>2. StageInv'
  BY <1>1, Zenon DEF DaemonInv, StageInv, Listeners
<1>3. StartFailsForCause'
  BY <1>1, Zenon DEF DaemonInv, StartFailsForCause, CheckPasses
<1>. QED
  BY <1>2, <1>3 DEF DaemonInv

\* Without a process nothing is claimed.
LEMMA GoneKeeps ==
    ASSUME Gone
    PROVE  DaemonInv'
<1> USE DEF Gone
<1>1. StageInv'
  BY DEF StageInv, Configured, Checked, Spawned, Acting, Published
<1>2. StartFailsForCause'
  BY DEF StartFailsForCause
<1>. QED
  BY <1>1, <1>2 DEF DaemonInv

\* A start that fails before READY=1 for one of the causes it may name.
LEMMA FailKeeps ==
    ASSUME DaemonInv, NEW why, FailStart(why), phase # "down", phase \notin Ready,
           /\ why \in {"config", "checks"} => ~CheckPasses
           /\ why = "bus" => found.host.bus = "down" /\ ~found.args.no_dbus
           /\ why = "socket" => found.host.run_dir # "writable"
           /\ why # "hook path"
    PROVE  DaemonInv'
<1>1. /\ phase' = "failed" /\ cause' = why /\ cfg' = None
      /\ UNCHANGED <<found, ready>>
  BY Zenon DEF FailStart
<1>2. IsSituation(found) /\ ~ready
  BY Zenon DEF DaemonInv, StageInv
<1>3. StageInv'
  BY <1>1, <1>2, Zenon DEF StageInv, Configured, Checked, Spawned, Acting, Published, Ready
<1>4. CheckPasses' <=> CheckPasses
  BY <1>1, Zenon DEF CheckPasses
<1>5. StartFailsForCause'
  BY <1>1, <1>4, Zenon DEF StartFailsForCause
<1>. QED
  BY <1>3, <1>5, Zenon DEF DaemonInv

\* run_async goes on to its next stage.
LEMMA ProceedKeeps ==
    ASSUME DaemonInv, NEW from, NEW to, Proceed(from, to), from \notin {"down", "failed"},
           StageInv'
    PROVE  DaemonInv'
<1>1. cause' = "none"
  BY DEF Proceed, DaemonInv, StageInv
<1>. QED
  BY <1>1, Zenon DEF DaemonInv, StartFailsForCause

\* Each step preserves what the stages of run_async have established.
LEMMA StageStep ==
    ASSUME DaemonInv, DaemonNext
    PROVE  DaemonInv'
<1> USE DEF Configured, Checked, Spawned, Acting, Published, Ready
<1>1. CASE Exec
  <2>1. /\ phase' = "config" /\ found' \in Situations /\ UNCHANGED <<cfg, ready, cause>>
        /\ phase = "down"
    BY <1>1 DEF Exec
  <2>2. StageInv'
    BY <2>1, SituationConstants DEF DaemonInv, StageInv
  <2>3. cause' = "none"
    BY <2>1 DEF DaemonInv, StageInv
  <2>. QED
    BY <2>2, <2>3, Zenon DEF DaemonInv, StartFailsForCause
<1>2. CASE LoadConfig
  <2>1. CASE LoadValidatedConfig(found.raw, found.host)
    <3>1. Proceed("config", "checks") /\ cfg' = ValidatedConfig(found.raw)
          /\ UNCHANGED <<tasks, ready, socket, temps>>
      BY <1>2, <2>1 DEF LoadConfig, left_behind
    <3>2. Usable(ValidatedConfig(found.raw)) /\ IsSituation(found)
      BY <2>1, <3>1, AcceptedIsUsable DEF Proceed, DaemonInv, StageInv
    <3>3. StageInv'
      BY <3>1, <3>2 DEF DaemonInv, StageInv, Proceed
    <3>. QED
      BY <3>1, <3>3, ProceedKeeps
  <2>2. CASE ~LoadValidatedConfig(found.raw, found.host)
    <3>1. FailStart("config") /\ phase = "config" /\ ~CheckPasses
      BY <1>2, <2>2 DEF LoadConfig, CheckPasses
    <3>. QED
      BY <3>1, FailKeeps, Zenon
  <2>. QED
    BY <2>1, <2>2
<1>3. CASE FileReplaced
  <2>1. PICK p, state : found' = [found EXCEPT !.host.file[p] = state]
    BY <1>3, Zenon DEF FileReplaced
  <2>2. phase = "checks" /\ UNCHANGED <<phase, cfg, tasks, ready, socket, cause>>
    BY <1>3 DEF FileReplaced, left_behind
  <2>3. IsSituation(found)
    BY <2>2 DEF DaemonInv, StageInv
  <2>4. found' = [found EXCEPT !["host"] = [found.host EXCEPT !["file"] = [found.host.file EXCEPT ![p] = state]]]
    BY <2>1
  <2>5. DOMAIN found = {"raw", "host", "args", "replacements"}
        /\ {"services", "file", "bus", "run_dir"} \subseteq DOMAIN found.host
    BY <2>3, Zenon DEF IsSituation
  <2>6. /\ DOMAIN found' = DOMAIN found /\ found'.raw = found.raw /\ found'.args = found.args
        /\ DOMAIN found'.host = DOMAIN found.host
        /\ found'.host.bus = found.host.bus /\ found'.host.run_dir = found.host.run_dir
        /\ found'.host.services = found.host.services
    BY <2>4, <2>5
  <2>7. IsSituation(found')
    BY <2>3, <2>6, Zenon DEF IsSituation
  <2>8. StageInv'
    BY <2>2, <2>6, <2>7 DEF DaemonInv, StageInv
  <2>9. cause' = "none"
    BY <2>2 DEF DaemonInv, StageInv
  <2>. QED
    BY <2>8, <2>9, Zenon DEF DaemonInv, StartFailsForCause
<1>4. CASE RunChecks
  <2>0. phase = "checks" /\ cfg = ValidatedConfig(found.raw)
    BY <1>4 DEF RunChecks, DaemonInv, StageInv
  <2>1. CASE HasErrors(RunStartupChecks(cfg, found.host))
    <3>1. FailStart("checks")
      BY <1>4, <2>1 DEF RunChecks
    <3>2. ~CheckPasses
      BY <2>0, <2>1, Zenon DEF CheckPasses
    <3>. QED
      BY <2>0, <3>1, <3>2, FailKeeps, Zenon
  <2>2. CASE ~HasErrors(RunStartupChecks(cfg, found.host))
    <3>1. Proceed("checks", "load") /\ UNCHANGED <<cfg, tasks, ready, socket, temps>>
      BY <1>4, <2>2 DEF RunChecks, left_behind
    <3>2. StageInv'
      BY <2>2, <3>1 DEF DaemonInv, StageInv, Proceed
    <3>. QED
      BY <3>1, <3>2, ProceedKeeps
  <2>. QED
    BY <2>1, <2>2
<1>5. CASE LoadRegistry
  <2>1. phase = "load" /\ Usable(cfg)
    BY <1>5, Zenon DEF LoadRegistry, DaemonInv, StageInv
  <2>2. ~(cfg.monitor.on_usb_removed = "hook" /\ cfg.monitor.hook_path = Unset)
    BY <2>1, SituationConstants, Zenon DEF Usable
  <2>3. Proceed("load", "bus") /\ tasks' = {"state"} /\ UNCHANGED <<cfg, ready, socket, temps>>
    BY <1>5, <2>2, Zenon DEF LoadRegistry, left_behind
  <2>4. StageInv'
    BY <2>3 DEF DaemonInv, StageInv, Proceed
  <2>. QED
    BY <2>3, <2>4, ProceedKeeps
<1>6. CASE ConnectBus
  <2>1. phase = "bus" /\ IsSituation(found)
    BY <1>6 DEF ConnectBus, DaemonInv, StageInv
  <2>2. found.args.no_dbus \in BOOLEAN /\ found.host.bus \in {"up", "down"}
    BY <2>1 DEF IsSituation
  <2>3. ASSUME NEW backend, SpawnActions(backend), ~found.args.no_dbus => backend = "LogindActions"
        PROVE  DaemonInv'
    <3>1. Proceed("bus", "bind") /\ tasks' = tasks \cup {backend} \cup Listeners
          /\ UNCHANGED <<cfg, ready, socket, temps>>
      BY <2>3 DEF SpawnActions, left_behind
    <3>2. Listeners' = Listeners /\ found' = found
      BY <3>1 DEF Listeners, Proceed
    <3>3. StageInv'
      BY <2>3, <3>1, <3>2 DEF DaemonInv, StageInv, Proceed
    <3>. QED
      BY <3>1, <3>3, ProceedKeeps
  <2>4. CASE found.args.no_dbus
    BY <1>6, <2>3, <2>4 DEF ConnectBus
  <2>5. CASE ~found.args.no_dbus /\ found.host.bus = "up"
    BY <1>6, <2>3, <2>5 DEF ConnectBus
  <2>6. CASE ~found.args.no_dbus /\ found.host.bus = "down"
    <3>1. FailStart("bus")
      BY <1>6, <2>6 DEF ConnectBus, BusUnavailable
    <3>. QED
      BY <2>1, <2>6, <3>1, FailKeeps, Zenon
  <2>. QED
    BY <2>2, <2>4, <2>5, <2>6
<1>7. CASE BindTemp
  <2>1. phase = "bind"
    BY <1>7 DEF BindTemp
  <2>2. CASE found.host.run_dir # "read-only"
    <3>1. Proceed("bind", "publish") /\ UNCHANGED <<cfg, tasks, ready, socket>>
      BY <1>7, <2>2 DEF BindTemp, UnlinkTemp
    <3>2. Listeners' = Listeners /\ found' = found
      BY <3>1 DEF Listeners, Proceed
    <3>3. StageInv'
      BY <3>1, <3>2 DEF DaemonInv, StageInv, Proceed
    <3>. QED
      BY <3>1, <3>3, ProceedKeeps
  <2>3. CASE found.host.run_dir = "read-only"
    <3>1. FailStart("socket")
      BY <1>7, <2>3 DEF BindTemp
    <3>. QED
      BY <2>1, <2>3, <3>1, FailKeeps, Zenon
  <2>. QED
    BY <2>2, <2>3
<1>8. CASE Publish
  <2>1. phase = "publish"
    BY <1>8 DEF Publish
  <2>2. CASE found.host.run_dir # "occupied"
    <3>1. Proceed("publish", "notify") /\ socket' = "live" /\ tasks' = tasks \cup {"accept"}
          /\ UNCHANGED <<cfg, ready>>
      BY <1>8, <2>2 DEF Publish
    <3>2. Listeners' = Listeners /\ found' = found
      BY <3>1 DEF Listeners, Proceed
    <3>3. StageInv'
      BY <3>1, <3>2 DEF DaemonInv, StageInv, Proceed
    <3>. QED
      BY <3>1, <3>3, ProceedKeeps
  <2>3. CASE found.host.run_dir = "occupied"
    <3>1. FailStart("socket")
      BY <1>8, <2>3 DEF Publish
    <3>. QED
      BY <2>1, <2>3, <3>1, FailKeeps, Zenon
  <2>. QED
    BY <2>2, <2>3
<1>9. ASSUME NEW from, NEW to, Proceed(from, to), UNCHANGED <<cfg, tasks, socket>>,
             \/ from = "notify" /\ to = "signals"
             \/ from = "signals" /\ to = "serving" /\ ready' = ready
             \/ from = "serving" /\ to = "stopping" /\ ready' = ready
      PROVE  DaemonInv'
  <2>1. Listeners' = Listeners /\ found' = found /\ cause' = cause /\ phase = from /\ phase' = to
    BY <1>9 DEF Listeners, Proceed
  <2>2. StageInv'
    BY <1>9, <2>1 DEF DaemonInv, StageInv
  <2>. QED
    BY <1>9, <2>2, ProceedKeeps
<1>10. NotifyReady \/ InstallSignalHandlers \/ Sigterm => DaemonInv'
  BY <1>9 DEF NotifyReady, InstallSignalHandlers, Sigterm, left_behind
<1>11. GracefulFinish \/ Exit \/ KilledAnywhere \/ HostLosesPower => DaemonInv'
  BY GoneKeeps DEF GracefulFinish, Exit, KilledAnywhere, HostLosesPower
<1>12. Persisting => DaemonInv'
  BY SameProcess DEF Persisting
<1>. QED
  BY <1>1, <1>2, <1>3, <1>4, <1>5, <1>6, <1>7, <1>8, <1>10, <1>11, <1>12, Zenon DEF DaemonNext

\* The stages hold what they established, in every life of the daemon.
LEMMA DaemonInvariant == DaemonSpec => []DaemonInv
<1>1. DaemonInit => DaemonInv
  BY DEF DaemonInit, DaemonInv, StageInv, StartFailsForCause, Configured, Checked, Spawned, Acting,
         Published
<1>2. DaemonInv /\ [DaemonNext]_all_vars => DaemonInv'
  <2>1. ASSUME DaemonInv, UNCHANGED all_vars PROVE DaemonInv'
    BY <2>1, SameProcess DEF all_vars
  <2>. QED
    BY <2>1, StageStep
<1>. QED
  BY <1>1, <1>2, PTL DEF DaemonSpec

\* Whatever configuration and host a start finds: once ValidatedConfig::try_from
\* has accepted it, the places of the code that count on validation may.
THEOREM AcceptedConfigsAreUsable == DaemonSpec => []AcceptedConfigIsUsable
<1>1. DaemonInv => AcceptedConfigIsUsable
  BY DEF DaemonInv, StageInv, AcceptedConfigIsUsable
<1>. QED
  BY <1>1, DaemonInvariant, PTL

\* READY=1 is sent by a daemon whose checks found no error, whose socket is the
\* live one, and whose tasks and listeners run (run_async, bind_with_label).
THEOREM ReadinessIsEarned == DaemonSpec => []ReadyIsEarned
<1>1. DaemonInv => ReadyIsEarned
  <2> SUFFICES ASSUME DaemonInv, ready, phase # "stopping"
               PROVE  /\ ~HasErrors(RunStartupChecks(cfg, found.host))
                      /\ socket = "live" /\ {"state", "accept"} \subseteq tasks
                      /\ ~found.args.no_udev => "udev" \in tasks
                      /\ ~found.args.no_dbus => {"logind", "LogindActions"} \subseteq tasks
    BY Zenon DEF ReadyIsEarned
  <2>1. phase \in {"signals", "serving"}
    BY DEF DaemonInv, StageInv, Ready
  <2>2. /\ ~HasErrors(RunStartupChecks(cfg, found.host))
        /\ socket = "live" /\ "state" \in tasks /\ "accept" \in tasks /\ Listeners \subseteq tasks
        /\ ~found.args.no_dbus => "LogindActions" \in tasks
    BY <2>1 DEF DaemonInv, StageInv, Configured, Checked, Spawned, Acting, Published
  <2>3. /\ ~found.args.no_udev => "udev" \in Listeners
        /\ ~found.args.no_dbus => "logind" \in Listeners
    BY DEF Listeners
  <2>. QED
    BY <2>2, <2>3
<1>. QED
  BY <1>1, DaemonInvariant, PTL

\* A daemon that got past its checks runs on a host where every PAM service
\* file that evaluate_service read, of any length, orders the modules so that
\* a login works.
THEOREM StacksOfReadyHostsWork == DaemonSpec => []CheckedStacksWork
<1>1. DaemonInv => CheckedStacksWork
  <2> SUFFICES ASSUME DaemonInv, ready, NEW s \in found.host.services, s.state = "read"
               PROVE  StackWorks(s.lines)
    BY Zenon DEF CheckedStacksWork
  <2>1. phase \in Ready
    BY DEF DaemonInv, StageInv
  <2>2. ~HasErrors(RunStartupChecks(cfg, found.host)) /\ IsSituation(found)
    BY <2>1 DEF DaemonInv, StageInv, Configured, Checked, Ready
  <2>3. s.lines \in Seq(STRING)
    BY <2>2, Zenon DEF IsSituation
  <2>. QED
    BY <2>2, <2>3, ChecksSeeStacks, Zenon
<1>. QED
  BY <1>1, DaemonInvariant, PTL

\* A start fails only for what it finds wrong, and the check command agrees:
\* never for the files of an earlier life, and never for a missing hook path.
THEOREM StartsFailForCause == DaemonSpec => []StartFailsForCause
  BY DaemonInvariant, PTL DEF DaemonInv

=============================================================================
