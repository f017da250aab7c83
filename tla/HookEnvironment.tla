--------------------------- MODULE HookEnvironment ---------------------------
(***************************************************************************)
(* What a hook is given and what is kept of what it says: the variables of  *)
(* each stage (hooks/vars.rs), which of them a configuration may name       *)
(* (hooks/validator.rs, placeholder.rs), the environment made of them       *)
(* (hooks/env.rs, user.rs), and the lines read from its pipes               *)
(* (hooks/pipe_reader.rs).                                                  *)
(***************************************************************************)
EXTENDS Naturals, Sequences

\* What is known before authentication, whatever happens.
LoginVars == {"pam_user", "pam_service", "host_id", "host_id_hash", "host_id_source"}

\* The fields of AuthContext that may be None.
ContextVars == {"cert_cn", "cert_serial", "usb_serial", "usb_vid_pid"}

PlaceholderVars == LoginVars \cup ContextVars \cup {"session_id"}

\* Mutant: the variable is looked for among all of them.
AnyVar(stage, var) == var \in PlaceholderVars

IsVarAllowed(stage, var) == stage = "pre_auth" => var \in LoginVars

\* Template::parse: every ${...} of a value is closed and names a variable.
ParsesAsTemplate(env) == env \subseteq PlaceholderVars

\* validate_hook, on the variables that the env table names.
EnvAccepted(stage, env) == ParsesAsTemplate(env) /\ \A v \in env : IsVarAllowed(stage, v)

\* for_pre_auth and for_session_like: the variables that have a value.
HookVars(stage, context) ==
    IF stage = "pre_auth" THEN LoginVars ELSE LoginVars \cup context \cup {"session_id"}

\* lookup_user, asked only where the hook does not run as root.
UserResolves(run_as, account) == run_as = "user" => account = "exists"

\* execute up to argv.  Each variable that has a value is exported whether the
\* hook names it or not, and one with a control character refuses the vector.
\* No key of the env table is that of an exported variable.
PrepareError(stage, env, run_as, login) ==
    LET vars == HookVars(stage, login.context) IN
    IF ~UserResolves(run_as, login.account) THEN "UserResolution"
    ELSE IF ~(env \subseteq vars) THEN "UnresolvedVar"
    ELSE IF vars \cap login.unclean # {} THEN "EnvValueRejected"
    ELSE "none"

-----------------------------------------------------------------------------
\* PipeReader.  Output is a sequence of "c" and "nl"; a line is its length.

NoOutput == [lines |-> << >>, partial |-> 0, capped |-> FALSE]

EmitLine(length, max_line) ==
    [kept |-> IF length > max_line THEN max_line ELSE length, truncated |-> length > max_line]

Feed(reader, byte, max_line) ==
    IF byte = "nl"
    THEN [reader EXCEPT !.lines = Append(@, EmitLine(reader.partial, max_line)), !.partial = 0]
    ELSE [reader EXCEPT !.partial = @ + 1]

\* Mutant: the line that the cap cuts is kept for the final flush.
KeepPartial(reader) == reader

CrossCap(reader) == [reader EXCEPT !.capped = TRUE, !.partial = 0]

ProcessChunk(chunk, max_line, max_captured) ==
    LET head_len == IF Len(chunk) > max_captured THEN max_captured ELSE Len(chunk)
        read[k \in 0 .. head_len] ==
            IF k = 0 THEN NoOutput ELSE Feed(read[k - 1], chunk[k], max_line)
    IN  IF head_len < Len(chunk) THEN CrossCap(read[head_len]) ELSE read[head_len]

\* drain: all there is up to end of file as one chunk, then what is left of a
\* line without a newline.
Drain(output, max_line, max_captured) ==
    LET r == ProcessChunk(output, max_line, max_captured) IN
    IF r.partial > 0 /\ ~r.capped THEN Append(r.lines, EmitLine(r.partial, max_line)) ELSE r.lines

=============================================================================
