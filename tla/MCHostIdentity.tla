--------------------------- MODULE MCHostIdentity ---------------------------
(***************************************************************************)
(* A small instance of HostIdentity for TLC.                               *)
(***************************************************************************)
EXTENDS HostIdentity

CONSTANTS h1

MCFileKinds == <<"machine_id", "hostname">>

Plain(i) == [form |-> "plain", id |-> i]
Dressed(i) == [form |-> "dressed", id |-> i]
Nothing(f) == [form |-> f, id |-> Empty]

MCValues == {Nothing("missing"), Nothing("dropped"), Dressed(h1), Plain(Unknown)}

Section(sources, fallback, override, command) ==
    [sources |-> sources, fallback |-> fallback, override_value |-> override,
     custom_command |-> command]

\* The image before and after the flip, a command before a file, an override
\* beside another source, one that is left behind, and one of colons only.
MCConfigs ==
    {Section(<<"override">>, "allow", {Dressed(h1)}, FALSE),
     Section(<<"hostname", "machine_id">>, "deny", {}, FALSE),
     Section(<<"custom_command", "machine_id">>, "deny", {}, TRUE),
     Section(<<"override", "hostname">>, "deny", {Plain(h1)}, FALSE),
     Section(<<"hostname">>, "warn", {Plain(h1)}, FALSE),
     Section(<<"override">>, "deny", {Nothing("dropped")}, FALSE)}

=============================================================================
