---------------------------- MODULE IntegrityLabel ----------------------------
(***************************************************************************)
(* Integrity labels of the Astra kernel (mac/label.rs): a linear level, an *)
(* i8, and a 64-bit mask of categories, written here as the set of the     *)
(* numbers of its bits.  The order and the two intersections of labels,    *)
(* the DER form a certificate carries, and the text form libpdp reads.     *)
(* A function returning Option or Result returns a set with at most one    *)
(* element; the two kinds of decoding error have the same caller and the   *)
(* same effect.                                                            *)
(***************************************************************************)
EXTENDS Integers, Sequences, FiniteSetsExt

MinLevel == -128
MaxLevel == 127
Category == 0 .. 63
Octet == 0 .. 255

Label == [level : MinLevel .. MaxLevel, categories : SUBSET Category]

Lower(a, b) == IF a < b THEN a ELSE b

\* Mutant: the bound's level is taken as it stands.
IntersectCategoriesOnly(bound, user) ==
    [level |-> bound.level, categories |-> bound.categories \cap user.categories]

\* intersect_cert_with_user: a bound without categories restricts none.
IntersectCertWithUser(bound, user) ==
    [level      |-> Lower(bound.level, user.level),
     categories |-> IF bound.categories = {} THEN user.categories
                    ELSE bound.categories \cap user.categories]

\* strictly_below
StrictlyBelow(a, b) ==
    /\ a.categories \subseteq b.categories
    /\ \/ a.level < b.level
       \/ a.level <= b.level /\ a.categories # b.categories

\* A label respects a bound, whose empty categories restrict none.
Within(l, bound) ==
    /\ l.level <= bound.level
    /\ bound.categories # {} => l.categories \subseteq bound.categories

-----------------------------------------------------------------------------
(***************************************************************************)
(* DER: SEQUENCE { INTEGER of one octet, BIT STRING }.                     *)
(***************************************************************************)

\* The octet of the eight categories from `low` on.
OctetFrom(categories, low) ==
    LET bit(b) == IF low + b \in categories THEN 2 ^ b ELSE 0
    IN  bit(0) + bit(1) + bit(2) + bit(3) + bit(4) + bit(5) + bit(6) + bit(7)

\* The mask as big-endian octets without leading zero octets.
OctetsOf(categories) ==
    LET n == IF categories = {} THEN 0 ELSE (Max(categories) \div 8) + 1
    IN  [i \in 1 .. n |-> OctetFrom(categories, 8 * (n - i))]

\* to_der
ToDer(l) ==
    LET octets == OctetsOf(l.categories)
        inner  == <<2, 1, l.level % 256, 3, Len(octets) + 1, 0>> \o octets
    IN  <<48, Len(inner)>> \o inner

Signed(octet) == IF octet < 128 THEN octet ELSE octet - 256

\* Mutant: the octets are copied to the front of the buffer.
MaskLeftAligned(octets) ==
    {b \in Category : /\ Len(octets) >= 8 - (b \div 8)
                      /\ (octets[8 - (b \div 8)] \div 2 ^ (b % 8)) % 2 = 1}

\* The octets are copied to the end of the 8-octet buffer.
MaskOf(octets) ==
    {b \in Category : /\ Len(octets) > b \div 8
                      /\ (octets[Len(octets) - (b \div 8)] \div 2 ^ (b % 8)) % 2 = 1}

IsSequence(der) ==
    Len(der) >= 2 /\ der[1] = 48 /\ der[2] < 128 /\ Len(der) = 2 + der[2]

\* An INTEGER longer than one octet is LevelOutOfRange.
HasLevel(body) == Len(body) >= 3 /\ body[1] = 2 /\ body[2] = 1

\* The BIT STRING may be left out.  Its unused-bits octet is checked for range
\* and not applied.
HasCategories(rest) ==
    \/ rest = <<>>
    \/ /\ Len(rest) \in 3 .. 11
       /\ rest[1] = 3
       /\ Len(rest) = 2 + rest[2]
       /\ rest[3] <= 7

\* from_der
FromDer(der) ==
    LET body == SubSeq(der, 3, Len(der))
        rest == SubSeq(body, 4, Len(body))
    IN  IF IsSequence(der) /\ HasLevel(body) /\ HasCategories(rest)
        THEN {[level |-> Signed(body[3]), categories |-> MaskOf(SubSeq(rest, 4, Len(rest)))]}
        ELSE {}

-----------------------------------------------------------------------------
(***************************************************************************)
(* The text form "conf:level:categories", field by field.                  *)
(***************************************************************************)

\* encode_label_text without flags
EncodeLabelText(l) == <<0, l.level, l.categories>>

\* pdpl_get_from_text, external
PdplOf(text) == [level |-> text[2], categories |-> text[3]]

=============================================================================
