---------------------------- MODULE MCMacSession ----------------------------
(***************************************************************************)
(* A small instance of MacSession.                                         *)
(***************************************************************************)
EXTENDS MacSession

MCIssued ==
    {[level |-> l, categories |-> c] :
        l \in {-128, -1, 2, 127}, c \in {{}, {0}, {7, 8}, {31, 32, 63}}}

\* Encodings that must not decode: a trailing octet, an INTEGER of two octets,
\* nine octets of categories, eight unused bits, a truncated value.
MCMalformed ==
    {<<48, 3, 2, 1, 2, 0>>,
     <<48, 4, 2, 2, 1, 0>>,
     <<48, 15, 2, 1, 1, 3, 10, 0, 1, 1, 1, 1, 1, 1, 1, 1, 1>>,
     <<48, 7, 2, 1, 1, 3, 2, 8, 1>>,
     <<48>>}

\* The issuers' encodings, one without BIT STRING, and the malformed ones.
MCExtensions == {ToDer(l) : l \in MCIssued} \cup {<<48, 3, 2, 1, 2>>} \cup MCMalformed

MCFallback == [level |-> 1, categories |-> {0}]

MCRawPolicies ==
    [cert_integrity : {"unset", "required", "ignore"},
     runtime        : {"unset", "required", "disabled"},
     fallback       : {{}, {MCFallback}}]
    \cup {[cert_integrity |-> "optional", runtime |-> "auto", fallback |-> {NotHex}]}

MCInitial == [level |-> 63, categories |-> {}]

=============================================================================
