---------------------------- MODULE Authorization ----------------------------
(***************************************************************************)
(* Who a certificate admits, and where: the host_binding and user_binding  *)
(* extensions as host_binding_ext.rs, user_binding_ext.rs and              *)
(* der_helpers.rs read them, verify_host_binding and verify_user_binding   *)
(* (host_binding.rs), and the [[user_mapping]] table (mapping.rs).         *)
(* A certificate's extensions are a sequence, walked in order; strings are *)
(* abstracted to what they name, bytes to whether they decode.             *)
(***************************************************************************)
EXTENDS Sequences, SequencesExt

\* One SEQUENCE OF UTF8String entry: "*", "sha256:<digest of a host id>", a
\* sha256: entry of the wrong shape, a plain string, or bytes that are no
\* UTF8String.  "names" is the host or user the string stands for.
Entry(names) ==
    [kind : {"digest", "plain"}, names : names]
        \cup [kind : {"any", "bad_digest", "undecodable"}, names : {"nobody"}]

\* An extension: its OID, or "broken" where the DER walk fails, and its value.
Extension(oids, names, n) ==
    [oid : oids, value : UNION {[1 .. k -> Entry(names)] : k \in 0 .. n}]
        \cup [oid : {"broken"}, value : {<< >>}]

Outcome(status, value) == [status |-> status, value |-> value]

\* extract_extension_by_oid: walk the extensions up to the first with this
\* OID; a structure that does not parse on the way there ends the walk.
ExtractExtension(exts, oid) ==
    LET i == SelectInSeq(exts, LAMBDA e : e.oid \in {oid, "broken"})
    IN CASE i = 0 -> Outcome("missing", << >>)
         [] i # 0 /\ exts[i].oid = "broken" -> Outcome("malformed", << >>)
         [] OTHER -> Outcome("ok", exts[i].value)

\* parse_seq_of_utf8, then the Empty error of both parsers.
ParseStrings(exts, oid) ==
    LET e == ExtractExtension(exts, oid)
    IN IF e.status = "ok" /\ (e.value = << >> \/ \E i \in DOMAIN e.value : e.value[i].kind = "undecodable")
       THEN Outcome("malformed", << >>) ELSE e

\* host_binding_ext::parse with classify: one bad digest spoils the extension.
ParseHostBinding(exts) ==
    LET e == ParseStrings(exts, "host")
    IN IF \E i \in DOMAIN e.value : e.value[i].kind = "bad_digest"
       THEN Outcome("malformed", << >>) ELSE e

\* user_binding_ext::parse: "*" or an exact name; no entry is refused here,
\* since a sha256: string is just a user name.
ParseUserBinding(exts) == ParseStrings(exts, "user")

\* verify_host_binding
VerifyHostBinding(exts, host) ==
    LET e == ParseHostBinding(exts)
    IN /\ e.status = "ok"
       /\ \E i \in DOMAIN e.value :
             \/ e.value[i].kind = "any"
             \/ e.value[i].kind \in {"digest", "plain"} /\ e.value[i].names = host

\* verify_user_binding
VerifyUserBinding(exts, user) ==
    LET e == ParseUserBinding(exts)
    IN /\ e.status = "ok"
       /\ \E i \in DOMAIN e.value :
             e.value[i].kind = "any" \/ (e.value[i].kind = "plain" /\ e.value[i].names = user)

\* A [[user_mapping]] record: the user, and the one criterion, which either
\* fits the certificate's CN or e-mail address or does not.
UserMapping(users) == [pam_user : users, criterion : {"cn", "email", "upn"}, fits : BOOLEAN]

\* match_user: the candidates for this user; a UPN never matches.
MatchUser(user, mappings) ==
    LET candidates == {i \in DOMAIN mappings : mappings[i].pam_user = user}
        usable     == {i \in candidates : mappings[i].criterion # "upn"}
    IN CASE candidates = {} -> "NoMappingForUser"
         [] candidates # {} /\ usable = {} -> "EmptyMapping"
         [] \E i \in usable : mappings[i].fits -> "ok"
         [] OTHER -> "SubjectMismatch"

\* Mutant: a certificate whose extension does not list the user may still be
\* admitted by the table.
ExtensionOrMapping(exts, user, mappings) ==
    VerifyUserBinding(exts, user) \/ MatchUser(user, mappings) = "ok"

\* Step 10 of both flows: the extension decides when it parses, the table
\* otherwise.
AuthoriseUser(exts, user, mappings) ==
    IF ParseUserBinding(exts).status = "ok"
    THEN VerifyUserBinding(exts, user)
    ELSE MatchUser(user, mappings) = "ok"

-----------------------------------------------------------------------------
(* What the checks are meant to decide, stated over the whole extension.   *)

\* The extension that counts for an OID: the first of that OID, if the DER is
\* sound up to it; none otherwise.
Binding(exts, oid) ==
    {exts[i].value : i \in {j \in DOMAIN exts :
        exts[j].oid = oid /\ \A k \in 1 .. j - 1 : exts[k].oid \notin {oid, "broken"}}}

WellFormed(value, bad) == value # << >> /\ \A i \in DOMAIN value : value[i].kind \notin bad

Names(value, who, kinds) ==
    \E i \in DOMAIN value :
        value[i].kind = "any" \/ (value[i].kind \in kinds /\ value[i].names = who)

\* The issuer allowed this host: a sound extension names it or any host.
HostIsBound(exts, host) ==
    \E v \in Binding(exts, "host") :
        WellFormed(v, {"undecodable", "bad_digest"}) /\ Names(v, host, {"digest", "plain"})

\* The issuer allowed this user or, where the certificate has no sound user
\* extension, the administrator did.
UserIsBound(exts, user, mappings) ==
    LET sound == {v \in Binding(exts, "user") : WellFormed(v, {"undecodable"})}
    IN IF sound # {}
       THEN \E v \in sound : Names(v, user, {"plain"})
       ELSE \E i \in DOMAIN mappings :
                /\ mappings[i].pam_user = user
                /\ mappings[i].criterion \in {"cn", "email"}
                /\ mappings[i].fits

=============================================================================
