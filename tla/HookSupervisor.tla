--------------------------- MODULE HookSupervisor ---------------------------
(***************************************************************************)
(* run_hooks_for_stage (hooks/runner.rs) over the fork+execve executor     *)
(* (hooks/fork_exec.rs, child_setup.rs, wait.rs): the supervising thread,  *)
(* the child between fork and exec, the hook it becomes, one process that  *)
(* the hook may leave behind, and the two pipe readers, of which one       *)
(* stands for both.                                                        *)
(***************************************************************************)
EXTENDS HookEnvironment

CONSTANTS
    NumHooks,     \* hooks configured for the stage
    Stages,       \* the stages explored
    Settings,     \* on_failure settings explored; "unset" when absent
    Envs,         \* sets of variables that an env table may name
    Logins,       \* what a stage may know: [context, unclean, account]
    MAX_LINE_BYTES, MAX_CAPTURED_BYTES,
    MaxOutput     \* bytes a hook writes at most

ASSUME HookConstants ==
    /\ NumHooks \in Nat \ {0}
    /\ Stages \subseteq {"pre_auth", "post_auth_success", "session_open", "session_close"}
    /\ Settings \subseteq STRING
    /\ \A l \in Logins : l.context \subseteq ContextVars /\ l.unclean \subseteq PlaceholderVars
    /\ {MAX_LINE_BYTES, MAX_CAPTURED_BYTES, MaxOutput} \subseteq Nat \ {0}

VARIABLES
    stage,    \* the stage that runs
    login,    \* what is known of the login
    setting,  \* on_failure of the hook at hand, as written in the configuration
    hook,     \* which hook that is
    step,     \* where the supervising thread is
    leader,   \* the forked child
    grouped,  \* the child leads its own process group
    status,   \* how the leader ended
    helper,   \* a process the hook started: in its group, or on its own
    writes,   \* the helper holds the write end of a pipe
    output,   \* what was written to the pipe
    sent,     \* signals sent to the group
    clock,    \* the deadline of the phase has passed
    fds,      \* pipe ends open in the parent
    outcome,  \* what execute returned for the hook, with the variable it names
    lines,    \* the lines forwarded to the log
    result    \* what run_hooks_for_stage returned

childVars == <<leader, grouped, status, helper, writes, output>>
stageVars == <<stage, login>>
hookVars == <<stageVars, setting, hook, step, childVars, sent, clock, fds, outcome, lines, result>>

Outcome(kind) == [kind |-> kind, var |-> "none"]

NoChild ==
    /\ leader' = "none"
    /\ grouped' = FALSE
    /\ status' = "none"
    /\ helper' = "none"
    /\ writes' = FALSE
    /\ output' = << >>

HookInit ==
    /\ stage \in Stages
    /\ login \in Logins
    /\ setting \in Settings
    /\ hook = 1
    /\ step = "prepare"
    /\ leader = "none" /\ grouped = FALSE /\ status = "none"
    /\ helper = "none" /\ writes = FALSE /\ output = << >>
    /\ sent = {}
    /\ clock = FALSE
    /\ fds = 0
    /\ outcome = Outcome("none")
    /\ lines = << >>
    /\ result = "none"

-----------------------------------------------------------------------------
(* The policy.                                                             *)

\* parse_failure: "warn" counts only after pre_auth, and every other setting
\* but "ignore" aborts.
ParseFailure(value, st) ==
    CASE value \in {"warn", "unset"} /\ st # "pre_auth" -> "Warn"
      [] value = "ignore" -> "Ignore"
      [] OTHER -> "Abort"

\* apply_on_failure: is this outcome tolerated?
Tolerated(out, policy) ==
    \/ out = "Success"
    \/ policy = "Ignore"
    \/ policy = "Warn" /\ out # "Timeout"

\* execute returns.
Executed(out) ==
    /\ outcome' = out
    /\ step' = "policy"

\* run_hooks_for_stage: the first outcome that is not tolerated ends the run.
ApplyOnFailure ==
    /\ step = "policy"
    /\ LET ok == Tolerated(outcome.kind, ParseFailure(setting, stage)) IN
       IF ok /\ hook < NumHooks
       THEN /\ hook' = hook + 1
            /\ setting' \in Settings
            /\ step' = "prepare"
            /\ NoChild
            /\ sent' = {} /\ lines' = << >>
            /\ clock' = FALSE
            /\ outcome' = Outcome("none")
            /\ UNCHANGED result
       ELSE /\ step' = "done"
            /\ result' = IF ok THEN "Ok" ELSE "Err"
            /\ UNCHANGED <<setting, hook, childVars, sent, clock, outcome, lines>>
    /\ UNCHANGED <<stageVars, fds>>

-----------------------------------------------------------------------------
(* execute, in the parent.                                                 *)

\* The user, the environment, argv and the pipes, for a hook that passed
\* validation.  "Error" is a control character in a literal value, a NUL in an
\* argument, or a pipe that cannot be made, which closes the other one.
Prepare ==
    /\ step = "prepare"
    /\ \E env \in {e \in Envs : EnvAccepted(stage, e)}, run_as \in {"root", "user"} :
           LET err == PrepareError(stage, env, run_as, login) IN
           \/ /\ err = "UnresolvedVar"
              /\ \E v \in env \ HookVars(stage, login.context) :
                     Executed([kind |-> err, var |-> v])
              /\ UNCHANGED fds
           \/ /\ err \in {"UserResolution", "EnvValueRejected"}
              /\ Executed(Outcome(err))
              /\ UNCHANGED fds
           \/ /\ err = "none"
              /\ \/ Executed(Outcome("Error")) /\ UNCHANGED fds
                 \/ step' = "fork" /\ fds' = fds + 4 /\ UNCHANGED outcome
    /\ UNCHANGED <<stageVars, setting, hook, childVars, sent, clock, lines, result>>

\* fork fails: the raw descriptors of both pipes stay open.  It succeeds: the
\* parent closes the write ends.
Fork ==
    /\ step = "fork"
    /\ \/ Executed(Outcome("Error")) /\ UNCHANGED <<leader, fds>>
       \/ step' = "readers" /\ leader' = "setup" /\ fds' = fds - 2 /\ UNCHANGED outcome
    /\ UNCHANGED <<stageVars, setting, hook, grouped, status, helper, writes, output, sent, clock,
                   lines, result>>

\* spawn_reader, twice.  A thread that cannot be started ends execute with the
\* child running and nobody to wait for it; descriptors go with the readers.
SpawnReaders ==
    /\ step = "readers"
    /\ \/ Executed(Outcome("Error")) /\ fds' = fds - 2
       \/ step' = "group" /\ UNCHANGED <<fds, outcome>>
    /\ UNCHANGED <<stageVars, setting, hook, childVars, sent, clock, lines, result>>

\* Mutant: only the child makes itself a group leader.
LeaveGroupToChild ==
    /\ step = "group"
    /\ step' = "wait"
    /\ UNCHANGED <<stageVars, setting, hook, childVars, sent, clock, fds, outcome, lines, result>>

\* setpgid(child, child) in the parent: whoever comes first, the group exists
\* before the wait begins.
SetGroup ==
    /\ step = "group"
    /\ step' = "wait"
    /\ grouped' = TRUE
    /\ UNCHANGED <<stageVars, setting, hook, leader, status, helper, writes, output, sent, clock,
                   fds, outcome, lines, result>>

\* waitpid(WNOHANG) finds the leader dead, in either polling loop.
Reap ==
    /\ step \in {"wait", "term", "reap"}
    /\ leader = "zombie"
    /\ leader' = "reaped"
    /\ step' = "join"
    /\ UNCHANGED <<stageVars, setting, hook, grouped, status, helper, writes, output, sent, clock,
                   fds, outcome, lines, result>>

\* The phase's deadline: the hook's timeout, then two seconds after SIGTERM.
Expire ==
    /\ step \in {"wait", "term"}
    /\ ~clock
    /\ clock' = TRUE
    /\ UNCHANGED <<stageVars, setting, hook, step, childVars, sent, fds, outcome, lines, result>>

\* Mutant: the last poll is forgotten, so the group of a reaped leader, by now
\* possibly somebody else's, is signalled.
KillUnseen(from, to, sig) ==
    /\ step \in {from, "join"}
    /\ clock
    /\ sig \notin sent
    /\ step' = to
    /\ sent' = IF grouped THEN sent \cup {sig} ELSE sent
    /\ clock' = FALSE
    /\ UNCHANGED <<stageVars, setting, hook, childVars, fds, outcome, lines, result>>

\* The last poll found the child alive and the deadline has passed: killpg.
\* The child may have died since.  Without a group it is ESRCH, which counts
\* as done.
Kill(from, to, sig) ==
    /\ step = from
    /\ clock
    /\ step' = to
    /\ sent' = IF grouped THEN sent \cup {sig} ELSE sent
    /\ clock' = FALSE
    /\ UNCHANGED <<stageVars, setting, hook, childVars, fds, outcome, lines, result>>

\* A child that could not be waited for: waitpid or killpg fails otherwise.
WaitFails ==
    /\ step \in {"wait", "term", "reap"}
    /\ Executed(Outcome("Error"))
    /\ fds' = fds - 2
    /\ UNCHANGED <<stageVars, setting, hook, childVars, sent, clock, lines, result>>

\* Mutant: a hook that exits with 0 after SIGTERM counts as a success.
ExitCodeOnly == IF status = "zero" THEN "Success" ELSE "NonZero"

\* HookOutcome: killed_by_timeout, or the exit code.
HookOutcome ==
    IF sent # {} THEN "Timeout" ELSE IF status = "zero" THEN "Success" ELSE "NonZero"

\* Both readers are joined: read_to_end returns when the last writer is gone.
JoinReaders ==
    /\ step = "join"
    /\ ~writes
    /\ Executed(Outcome(HookOutcome))
    /\ lines' = Drain(output, MAX_LINE_BYTES, MAX_CAPTURED_BYTES)
    /\ fds' = fds - 2
    /\ UNCHANGED <<stageVars, setting, hook, childVars, sent, clock, result>>

-----------------------------------------------------------------------------
(* The child.                                                              *)

Dies(how) ==
    /\ leader' = "zombie"
    /\ status' = how
    /\ UNCHANGED <<stageVars, setting, hook, step, grouped, helper, writes, output, sent, clock,
                   fds, outcome, lines, result>>

\* child_setup: setpgid comes first, then redirection, limits, privileges and
\* execve; any failure is _exit(127).
ChildSetup ==
    /\ leader = "setup"
    /\ \/ Dies("nonzero")
       \/ /\ ~grouped
          /\ grouped' = TRUE
          /\ UNCHANGED <<stageVars, setting, hook, step, leader, status, helper, writes, output,
                         sent, clock, fds, outcome, lines, result>>
       \/ /\ grouped
          /\ leader' = "running"
          /\ UNCHANGED <<stageVars, setting, hook, step, grouped, status, helper, writes, output,
                         sent, clock, fds, outcome, lines, result>>

HookExits ==
    /\ leader = "running"
    /\ "KILL" \notin sent
    /\ \E how \in {"zero", "nonzero"} : Dies(how)

\* The hook starts another process, which inherits the pipes and may move to
\* a group of its own.
HookSpawns ==
    /\ leader = "running"
    /\ "KILL" \notin sent
    /\ helper = "none"
    /\ helper' \in {"in_group", "outside"}
    /\ writes' \in BOOLEAN
    /\ UNCHANGED <<stageVars, setting, hook, step, leader, grouped, status, output, sent, clock,
                   fds, outcome, lines, result>>

\* The hook, or what it left behind, writes a byte.
HookWrites ==
    /\ \/ leader = "running" /\ "KILL" \notin sent
       \/ writes /\ (helper = "in_group" => "KILL" \notin sent)
    /\ Len(output) < MaxOutput
    /\ \E byte \in {"c", "nl"} : output' = Append(output, byte)
    /\ UNCHANGED <<stageVars, setting, hook, step, leader, grouped, status, helper, writes, sent,
                   clock, fds, outcome, lines, result>>

HelperExits ==
    /\ helper \in {"in_group", "outside"}
    /\ helper' = "gone"
    /\ writes' = FALSE
    /\ UNCHANGED <<stageVars, setting, hook, step, leader, grouped, status, output, sent, clock,
                   fds, outcome, lines, result>>

\* SIGTERM may end the leader, SIGKILL does.
LeaderSignalled ==
    /\ leader \in {"setup", "running"}
    /\ sent # {}
    /\ Dies("signal")

-----------------------------------------------------------------------------

Supervisor ==
    \/ Prepare \/ Fork \/ SpawnReaders \/ SetGroup
    \/ Reap \/ Kill("wait", "term", "TERM") \/ Kill("term", "reap", "KILL")
    \/ JoinReaders \/ ApplyOnFailure

Child == ChildSetup \/ HookExits \/ HookSpawns \/ HookWrites \/ HelperExits \/ LeaderSignalled

HookDone == step = "done" /\ UNCHANGED hookVars

HookNext == Supervisor \/ WaitFails \/ Expire \/ Child \/ HookDone

HookSpec == HookInit /\ [][HookNext]_hookVars

\* The thread runs and time passes.  System calls need not fail, and of the
\* hook nothing is assumed, except that SIGKILL works.
HookFairSpec ==
    /\ HookSpec
    /\ WF_hookVars(Supervisor)
    /\ WF_hookVars(Expire)
    /\ WF_hookVars("KILL" \in sent /\ LeaderSignalled)
    /\ WF_hookVars("KILL" \in sent /\ helper = "in_group" /\ HelperExits)

-----------------------------------------------------------------------------
(* Correctness.                                                            *)

\* A process group is signalled only while its leader has not been reaped:
\* afterwards the id could name somebody else's group.
SignalsOnlyOwnGroup ==
    [][sent' # sent /\ sent' # {} => leader # "reaped"]_hookVars

\* execute ran the hook to its end.
Ran == step = "policy" /\ outcome.kind \in {"Success", "NonZero", "Timeout"}

\* An outcome tells what happened: Success and NonZero report the exit of a
\* hook that was never signalled, Timeout that of one that was, and the child
\* has been reaped.
OutcomeIsTruthful ==
    Ran =>
        /\ leader = "reaped"
        /\ outcome.kind = "Timeout" <=> sent # {}
        /\ outcome.kind = "Success" => status = "zero"
        /\ status = "signal" => outcome.kind = "Timeout"

\* The validator's table of variables and the builders of HookVars agree: an
\* accepted hook misses a variable only after pre_auth, and then one that the
\* login itself did not have.
AcceptedHookIsRunnable ==
    outcome.kind = "UnresolvedVar" =>
        /\ stage # "pre_auth"
        /\ outcome.var \in ContextVars \ login.context

\* Where the lines of an output end: at a newline, or with the output.
LineEnds(out) ==
    {k \in DOMAIN out : out[k] = "nl"}
        \cup {k \in {Len(out) + 1} : out # << >> /\ out[Len(out)] # "nl"}

\* The k-th line in the log is the k-th line of the output, whole or marked as
\* cut at MAX_LINE_BYTES, never the front of a line that the capture cap cut;
\* and output within the cap is forwarded entirely.
ForwardedLinesAreWhole ==
    Ran =>
        \E ends \in [DOMAIN lines -> LineEnds(output)] :
            LET start(k) == IF k = 1 THEN 0 ELSE ends[k - 1]
                length(k) == ends[k] - 1 - start(k)
            IN  /\ \A k \in DOMAIN lines :
                       /\ {e \in LineEnds(output) : start(k) < e /\ e <= ends[k]} = {ends[k]}
                       /\ lines[k].truncated <=> length(k) > MAX_LINE_BYTES
                       /\ lines[k].kept = IF lines[k].truncated THEN MAX_LINE_BYTES ELSE length(k)
                /\ Len(output) <= MAX_CAPTURED_BYTES =>
                       \A e \in LineEnds(output) : \E k \in DOMAIN lines : ends[k] = e

\* However the hook behaves, supervision ends: at the latest with SIGKILL two
\* seconds after the timeout, unless a process the hook left behind keeps a
\* pipe open.
HookReturns ==
    step \in {"wait", "term", "reap"} ~> step \in {"policy", "done"} \/ (step = "join" /\ writes)

=============================================================================
