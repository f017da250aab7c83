---------------------------- MODULE MCCertTrust ----------------------------
(***************************************************************************)
(* A small PKI for CertTrust: two roots, intermediates of which some issue *)
(* each other, and leaves, each with at most one thing wrong with it.      *)
(***************************************************************************)
EXTENDS CertTrust, TLC

\* A certificate on the subject's own key, signed with the issuer's, valid
\* over 10 .. 20.
Plain(subject, issuer) ==
    [subject |-> subject, issuer |-> issuer, ski |-> {subject}, aki |-> {issuer},
     key |-> subject, key_readable |-> TRUE, gost_key |-> FALSE, signer |-> issuer,
     v3 |-> TRUE, not_before |-> 10, not_after |-> 20, alg |-> "rsa", gost |-> FALSE,
     malformed |-> {}, ku |-> {"keyCertSign"}, client_auth |-> FALSE, bc |-> "ca",
     path_len |-> {}, serial |-> subject]

EndEntity(issuer) ==
    [Plain("L", issuer) EXCEPT !.ku = {"digitalSignature"}, !.client_auth = TRUE, !.bc = "absent"]

MCRoots ==
    [R       |-> Plain("R", "R"),
     R_noaki |-> [Plain("R", "R") EXCEPT !.aki = {}],
     R_cross |-> [Plain("R", "R") EXCEPT !.aki = {"Q"}],
     R_len0  |-> [Plain("R", "R") EXCEPT !.path_len = {0}],
     R_old   |-> [Plain("R", "R") EXCEPT !.not_after = 13],
     R_rekey |-> [Plain("R", "R") EXCEPT !.key = "R2", !.signer = "R2"],
     R_bad   |-> [Plain("R", "R") EXCEPT !.signer = "Q"],
     R_nokey |-> [Plain("R", "R") EXCEPT !.key_readable = FALSE]]

MCInner ==
    [I       |-> Plain("I", "R"),
     I_len0  |-> [Plain("I", "R") EXCEPT !.path_len = {0}],
     I_end   |-> [Plain("I", "R") EXCEPT !.bc = "end"],
     I_nobc  |-> [Plain("I", "R") EXCEPT !.malformed = {"bc"}],
     I_noku  |-> [Plain("I", "R") EXCEPT !.ku = {}],
     I_late  |-> [Plain("I", "R") EXCEPT !.not_before = 18],
     I_gost  |-> [Plain("I", "R") EXCEPT !.alg = "gost", !.gost = TRUE],
     I_by_J  |-> Plain("I", "J"),
     J       |-> Plain("J", "R"),
     J_len0  |-> [Plain("J", "R") EXCEPT !.path_len = {0}],
     J_by_I  |-> Plain("J", "I")]

MCLeaves ==
    [L       |-> EndEntity("I"),
     L_by_R  |-> EndEntity("R"),
     L_noaki |-> [EndEntity("I") EXCEPT !.aki = {}],
     L_v1    |-> [EndEntity("I") EXCEPT !.v3 = FALSE],
     L_alg   |-> [EndEntity("I") EXCEPT !.alg = "sha1"],
     L_gost  |-> [EndEntity("I") EXCEPT !.alg = "gost", !.gost = TRUE, !.gost_key = TRUE],
     L_noku  |-> [EndEntity("I") EXCEPT !.ku = {}],
     L_noeku |-> [EndEntity("I") EXCEPT !.client_auth = FALSE],
     L_eku   |-> [EndEntity("I") EXCEPT !.malformed = {"eku"}],
     L_ca    |-> [EndEntity("I") EXCEPT !.bc = "ca"],
     L_bad   |-> [EndEntity("I") EXCEPT !.signer = "J"]]

MCX509 == MCRoots @@ MCInner @@ MCLeaves

MCCert == DOMAIN MCX509

MCPresented == UNION {[1 .. n -> DOMAIN MCInner] : n \in 0 .. 2}

\* The ends of the validity windows with a skew of one second.
MCTimes == {8, 9, 13, 14, 15, 16, 17, 21, 22}

MCLogins ==
    {[leaf |-> l, presented |-> s, key |-> "L", now |-> 15] :
        l \in {"L", "L_by_R", "L_noaki"}, s \in MCPresented}
    \cup {[leaf |-> l, presented |-> <<i>>, key |-> "L", now |-> 15] :
             l \in DOMAIN MCLeaves, i \in {"I", "I_gost"}}
    \cup {[leaf |-> "L", presented |-> <<i>>, key |-> k, now |-> t] :
             i \in {"I", "I_late"}, k \in {"L", "R"}, t \in MCTimes}

BaseConfig ==
    [anchors |-> <<"R">>, pool |-> << >>, crls |-> << >>, crl_strict |-> FALSE,
     clock_skew |-> 1, whitelist |-> {}, pins |-> {}, max_depth |-> 3, needs_gost |-> FALSE]

CrlOf(serial, expiry) == [parses |-> TRUE, next_update |-> expiry, revoked |-> {serial}]

MCConfigs ==
    {[BaseConfig EXCEPT !.anchors = <<r>>] : r \in DOMAIN MCRoots}
    \cup {[BaseConfig EXCEPT !.anchors = a, !.pool = p] :
             a \in {<<"R_rekey", "R">>, <<"R", "R_rekey">>}, p \in {<< >>, <<"J">>}}
    \cup {[BaseConfig EXCEPT !.max_depth = d, !.pool = <<"J">>] : d \in 1 .. 3}
    \cup {[BaseConfig EXCEPT !.crls = <<CrlOf("Q", {15}), CrlOf(x, {16})>>, !.crl_strict = b] :
             x \in {"L", "I"}, b \in BOOLEAN}
    \cup {[BaseConfig EXCEPT !.crls = <<CrlOf("R", {})>>],
          [BaseConfig EXCEPT !.crls = <<[CrlOf("R", {}) EXCEPT !.parses = FALSE]>>],
          [BaseConfig EXCEPT !.anchors = << >>],
          [BaseConfig EXCEPT !.whitelist = {"rsa"}],
          [BaseConfig EXCEPT !.needs_gost = TRUE],
          [BaseConfig EXCEPT !.pool = <<"I_gost">>],
          [BaseConfig EXCEPT !.pins = {"R"}],
          [BaseConfig EXCEPT !.pins = {"R2"}]}

=============================================================================
