----------------------------- MODULE HostProofs -----------------------------
(***************************************************************************)
(* What a login asks of the machine it happens on.                         *)
(*                                                                         *)
(* The identity of the host, for any sources, configuration, certificate   *)
(* and state of the machine: the login of an enrolled host is admitted,    *)
(* one admitted is on this host, and the backup of the greeter's wallpaper *)
(* is never a picture that the daemon painted.                             *)
(*                                                                         *)
(* The wait for a medium, for any disks, partitions, limits and            *)
(* interruptions: the answer fits the disks that are there.                *)
(***************************************************************************)
EXTENDS HostIdentity, UsbWait, TLAPS

\* A leaf that names no prover is tried with these in turn, the last time with
\* more time.
USE SMT, Zenon, SMTT(30)

-----------------------------------------------------------------------------
(* The identity of the host.                                               *)

Chain == ChainOf(cfg.sources)

\* The first n sources of the chain have no answer.
Silent(n) == \A i \in 1 .. n : Normalize(world[Chain[i]]) = {}

\* The sources from the n-th on are still to be asked.
Asks(sources, n) == todo = SubSeq(sources, n + 1, Len(sources))

\* The login does not walk the chain, the override decides.
Pinned == who = "login" /\ "override" \in Range(cfg.sources) /\ cfg.override_value # {}

\* What resolve answers in the world as it is.
Resolution ==
    \/ \E i \in DOMAIN Chain :
          /\ Silent(i - 1) /\ resolved # {}
          /\ \A r \in resolved : r.kind = Chain[i] /\ r.id \in Normalize(world[Chain[i]])
    \/ Silent(Len(Chain)) /\ resolved = Fallback

\* The source that dump-host-id marks as active is the one that resolve takes.
Chooses(kinds) ==
    \/ \E i \in DOMAIN Chain :
          Silent(i - 1) /\ Normalize(world[Chain[i]]) # {} /\ kinds = {Chain[i]}
    \/ Silent(Len(Chain)) /\ kinds \subseteq {"override"}

\* Where the program that runs is in its walk.
Walking ==
    \/ /\ pass = "probe" /\ ~Pinned
       /\ LET asked == IF who = "dump" THEN Fanout ELSE Chain
          IN  \E n \in 0 .. Len(asked) : Asks(asked, n)
    \/ /\ pass = "resolve" /\ ~Pinned
       /\ \E n \in 0 .. Len(Chain) : Asks(Chain, n) /\ (steady => Silent(n))
    \/ /\ pass \in {"report", "paint"} /\ todo = <<>>
       /\ IF Pinned
          THEN resolved = {[kind |-> "override", id |-> PinnedId(v)] : v \in cfg.override_value}
          ELSE steady => Resolution

\* A row of probe_all tells what its source holds.
RowIsTrue(row) == row.kind \in Range(Fanout) /\ row.id \in Normalize(world[row.kind])

ReportIsTrue(r) ==
    /\ \A row \in r.rows : row \in OverrideRow \/ RowIsTrue(row)
    /\ Chooses(r.active)

\* An answer the login may be held against.
Answers(r) ==
    \/ r.id \in held
    \/ "override" \in Range(cfg.sources) /\ \E v \in cfg.override_value : v.id = r.id
    \/ cfg.fallback # "deny" /\ r.id = Unknown

\* The types, and the parts of the state that a program at rest has left.
HostTypes ==
    /\ cfg \in Configs
    /\ world \in [Range(FileKinds) \cup {"custom_command"} -> Values]
    /\ steady \in BOOLEAN
    /\ child # "none" => todo # <<>> /\ Head(todo) = "custom_command"
    /\ who = "none" => todo = <<>>
    /\ verdict # "none" => who = "none"
    /\ \A c, d \in cert : c = d

WalkInv == who # "none" => Walking

DumpInv == who = "dump" /\ steady => \A row \in rows : RowIsTrue(row)

LoginInv == who = "login" => HeldNow \subseteq held /\ \A r \in resolved : Answers(r)

ReportInv == who # "dump" /\ steady => \A r \in report : ReportIsTrue(r)

\* A painted wallpaper has a backup.
BackupInv ==
    /\ BackupIsPristine
    /\ backup = "none" => target = "original" /\ pass # "paint"

\* Inductive: what a report and a login in its course know of the host.
HostInv ==
    /\ HostTypes /\ WalkInv /\ DumpInv /\ LoginInv /\ ReportInv
    /\ EnrolledHostIsAdmitted /\ AdmittedIsThisHost

-----------------------------------------------------------------------------
(* Chains of sources.                                                      *)

\* A source that is dropped from a list without repetitions is gone from it.
LEMMA WithoutIsGone ==
    ASSUME NEW T, NEW s \in Seq(T), NEW e
    PROVE  /\ Without(s, e) \in Seq(T)
           /\ IsInjective(s) => Without(s, e) \in Seq(T \ {e})
           /\ s = <<e>> => Without(s, e) = <<>>
           /\ s = <<>> => Without(s, e) = <<>>
<1>1. CASE e \notin Range(s)
  <2>1. Without(s, e) = s
    BY <1>1 DEF Without
  <2>2. \A i \in 1 .. Len(s) : s[i] # e
    BY <1>1 DEF Range
  <2>3. s \in Seq(T \ {e}) /\ s # <<e>>
    BY <2>2
  <2> QED  BY <2>1, <2>3
<1>2. CASE e \in Range(s)
  <2> DEFINE m == CHOOSE i \in DOMAIN s : s[i] = e
             a == SubSeq(s, 1, m - 1)
             b == SubSeq(s, m + 1, Len(s))
  <2>4. Without(s, e) = a \o b
    BY <1>2, Zenon DEF Without
  <2>5. m \in 1 .. Len(s) /\ s[m] = e
    BY <1>2 DEF Range
  <2> HIDE DEF m
  <2>6. a \in Seq(T) /\ b \in Seq(T)
    BY <2>5
  <2>7. ASSUME IsInjective(s)
        PROVE  a \in Seq(T \ {e}) /\ b \in Seq(T \ {e})
    <3>1. \A i \in 1 .. Len(s) : i # m => s[i] \in T \ {e}
      BY <2>7, <2>5 DEF IsInjective
    <3>2. Len(a) = m - 1 /\ \A i \in 1 .. Len(a) : a[i] = s[i]
      BY <2>5
    <3>3. Len(b) = Len(s) - m /\ \A i \in 1 .. Len(b) : b[i] = s[m + i]
      BY <2>5
    <3>4. \A i \in 1 .. Len(a) : a[i] \in T \ {e}
      BY <3>1, <3>2, <2>5
    <3>5. \A i \in 1 .. Len(b) : b[i] \in T \ {e}
      BY <3>1, <3>3, <2>5
    <3> HIDE DEF a, b
    <3> QED  BY <3>4, <3>5, <2>6
  <2>8. s = <<e>> => a = <<>> /\ b = <<>>
    BY <2>5
  <2>9. s # <<>>
    BY <2>5
  <2> HIDE DEF a, b
  <2>10. a \o b \in Seq(T)
    BY <2>6
  <2>11. IsInjective(s) => a \o b \in Seq(T \ {e})
    BY <2>7
  <2>12. s = <<e>> => a \o b = <<>>
    BY <2>8
  <2> QED  BY <2>4, <2>9, <2>10, <2>11, <2>12
<1> QED  BY <1>1, <1>2

\* What resolve and probe_all ask are sources of the host, never the override;
\* an override alone leaves nobody to be asked.
LEMMA AskedAreSources ==
    ASSUME HostTypes
    PROVE  /\ Chain \in Seq(Range(FileKinds) \cup {"custom_command"})
           /\ Fanout \in Seq(Range(FileKinds) \cup {"custom_command"})
           /\ "override" \notin Range(Fanout)
           /\ cfg.sources = <<"override">> => Chain = <<>>
<1> DEFINE S == Range(FileKinds) \cup {"custom_command"}
           asked == Without(cfg.sources, "override")
<1>1. /\ cfg.sources \in Seq(Kind) /\ IsInjective(cfg.sources)
      /\ cfg.custom_command \in BOOLEAN
  BY HostConstants DEF HostTypes, HostIdentitySection
<1>2. Kind \ {"override"} = S
  BY HostConstants DEF Kind
<1>3. asked \in Seq(S) /\ (cfg.sources = <<"override">> => asked = <<>>)
  BY <1>1, <1>2, WithoutIsGone, Zenon
<1>4. Chain = IF cfg.custom_command THEN asked ELSE Without(asked, "custom_command")
  BY DEF Chain, ChainOf
<1> HIDE DEF asked
<1>5. /\ Without(asked, "custom_command") \in Seq(S)
      /\ asked = <<>> => Without(asked, "custom_command") = <<>>
  BY <1>3, WithoutIsGone, Zenon
<1>6. Fanout \in Seq(S) /\ "override" \notin Range(Fanout)
  <2>1. FileKinds \in Seq(Range(FileKinds))
    BY HostConstants DEF Range
  <2>2. FileKinds \in Seq(S)
    BY <2>1
  <2>3. Fanout \in Seq(S)
    BY <2>2 DEF Fanout
  <2>4. "override" \notin S
    BY HostConstants
  <2> HIDE DEF S
  <2>5. Range(Fanout) \subseteq S
    BY <2>3 DEF Range
  <2> QED  BY <2>3, <2>4, <2>5
<1> QED  BY <1>3, <1>4, <1>5, <1>6

\* One source further in a list.
LEMMA OneFurther ==
    ASSUME NEW T, NEW s \in Seq(T), NEW n \in 0 .. Len(s), NEW t,
           t = SubSeq(s, n + 1, Len(s))
    PROVE  /\ t = <<>> <=> n = Len(s)
           /\ t # <<>> => /\ n + 1 \in DOMAIN s /\ Head(t) = s[n + 1] /\ Head(t) \in T
                          /\ Tail(t) = SubSeq(s, n + 2, Len(s))
<1>1. t \in Seq(T) /\ Len(t) = Len(s) - n
  OBVIOUS
<1>2. \A i \in 1 .. Len(s) - n : t[i] = s[n + i]
  OBVIOUS
<1>3. t = <<>> <=> n = Len(s)
  <2>1. \A q \in Seq(T) : q = <<>> <=> Len(q) = 0
    OBVIOUS
  <2>2. Len(t) = 0 <=> n = Len(s)
    BY <1>1
  <2> QED  BY <1>1, <2>1, <2>2, Zenon
<1>4. ASSUME t # <<>>
      PROVE  /\ n + 1 \in DOMAIN s /\ Head(t) = s[n + 1] /\ Head(t) \in T
             /\ Tail(t) = SubSeq(s, n + 2, Len(s))
  <2>1. n < Len(s)
    BY <1>3, <1>4
  <2>2. Head(t) = s[n + 1]
    BY <1>2, <2>1
  <2>3. Tail(t) = SubSeq(s, n + 2, Len(s))
    BY <1>1, <1>2, <2>1
  <2> QED  BY <2>1, <2>2, <2>3
<1> QED  BY <1>3, <1>4

\* A list that has not been begun.
LEMMA NotBegun ==
    ASSUME NEW T, NEW s \in Seq(T)
    PROVE  s = SubSeq(s, 0 + 1, Len(s))
OBVIOUS

-----------------------------------------------------------------------------
(* The steps.                                                              *)

\* The sources, and what they hold, stay as they are.
LEMMA HostFrame ==
    ASSUME cfg' = cfg, world' = world
    PROVE  /\ Chain' = Chain /\ Fanout' = Fanout /\ Fallback' = Fallback
           /\ OverrideRow' = OverrideRow /\ HeldNow' = HeldNow
BY DEF Chain, ChainOf, Fanout, Fallback, OverrideRow, HeldNow

\* A report stays true while the host stays as it is.
LEMMA ReportFrame ==
    ASSUME ReportInv, cfg' = cfg, world' = world, report' = report,
           steady' => steady, who' # "dump" => who # "dump" \/ ~steady'
    PROVE  ReportInv'
<1>1. /\ Chain' = Chain /\ Fanout' = Fanout /\ OverrideRow' = OverrideRow
  BY HostFrame
<1>2. \A r : ReportIsTrue(r) => ReportIsTrue(r)'
  BY <1>1, Zenon DEF ReportIsTrue, RowIsTrue, Chooses, Silent
<1> QED  BY <1>2 DEF ReportInv

\* So does what a running program has found.
LEMMA WalkFrame ==
    ASSUME WalkInv, DumpInv, LoginInv, cfg' = cfg, world' = world,
           steady' = steady, UNCHANGED <<who, pass, todo, rows, resolved, held>>
    PROVE  WalkInv' /\ DumpInv' /\ LoginInv'
<1>1. /\ Chain' = Chain /\ Fanout' = Fanout /\ Fallback' = Fallback /\ HeldNow' = HeldNow
  BY HostFrame
<1>2. Pinned' = Pinned
  BY DEF Pinned
<1>3. \A n : Silent(n)' = Silent(n)
  BY <1>1 DEF Silent
<1>4. Resolution' = Resolution
  BY <1>1, <1>3 DEF Resolution
<1>5. Walking' = Walking
  BY <1>1, <1>2, <1>3, <1>4 DEF Walking, Asks, PinnedId
<1>6. \A r : Answers(r)' = Answers(r)
  BY DEF Answers
<1>7. \A row : RowIsTrue(row)' = RowIsTrue(row)
  BY <1>1 DEF RowIsTrue
<1> QED  BY <1>1, <1>5, <1>6, <1>7 DEF WalkInv, DumpInv, LoginInv

\* A source that answers, or that is spoiled, leaves the walk where it should be.
LEMMA AnsweredKeepsHost ==
    ASSUME HostInv, who # "none", todo # <<>>, NEW ids, Answered(ids),
           \/ ids = Normalize(world[Head(todo)]) /\ steady' = steady
           \/ ids = {} /\ steady' = FALSE,
           child' = "none",
           UNCHANGED <<cfg, world, who, report, cert, verdict, held>>
    PROVE  HostInv'
<1> DEFINE S == Range(FileKinds) \cup {"custom_command"}
<1>1. HostTypes /\ WalkInv /\ DumpInv /\ LoginInv /\ ReportInv
  BY DEF HostInv
<1>2. /\ Chain \in Seq(S) /\ Fanout \in Seq(S)
  BY <1>1, AskedAreSources
<1>3. /\ Chain' = Chain /\ Fanout' = Fanout /\ Fallback' = Fallback /\ HeldNow' = HeldNow
      /\ \A n : Silent(n)' = Silent(n)
      /\ Pinned' = Pinned
  BY HostFrame DEF Silent, Pinned
<1>4. HostTypes'
  BY <1>1, Zenon DEF HostTypes
<1>5. ReportInv'
  BY <1>1, ReportFrame DEF HostTypes
<1>6. EnrolledHostIsAdmitted' /\ AdmittedIsThisHost'
  BY <1>1 DEF HostTypes, EnrolledHostIsAdmitted, AdmittedIsThisHost
<1>7. Walking
  BY <1>1 DEF WalkInv
<1>8. CASE pass = "probe"
  <2> DEFINE asked == IF who = "dump" THEN Fanout ELSE Chain
  <2>1. PICK n \in 0 .. Len(asked) : Asks(asked, n)
    BY <1>7, <1>8 DEF Walking
  <2>2. asked \in Seq(S) /\ asked' = asked
    BY <1>2, <1>3
  <2>3. todo = SubSeq(asked, n + 1, Len(asked))
    BY <2>1 DEF Asks
  <2>4. ~Pinned
    BY <1>7, <1>8 DEF Walking
  <2>5. /\ rows' = rows \cup {[kind |-> Head(todo), id |-> v] : v \in ids}
        /\ todo' = Tail(todo)
        /\ pass' = "probe" /\ resolved' = resolved
    BY <1>8 DEF Answered
  <2>6. who = "dump" => asked = Fanout
    OBVIOUS
  <2> HIDE DEF asked, S
  <2>7. /\ n + 1 \in DOMAIN asked /\ Head(todo) = asked[n + 1]
        /\ Tail(todo) = SubSeq(asked, n + 2, Len(asked))
    BY <2>2, <2>3, OneFurther
  <2>8. WalkInv'
    <3>1. n + 1 \in 0 .. Len(asked) /\ (n + 1) + 1 = n + 2
      BY <2>7, <2>2
    <3>2. Asks(asked, n + 1)'
      BY <2>5, <2>7, <2>2, <3>1 DEF Asks
    <3>3. Walking'
      BY <3>1, <3>2, <2>2, <2>4, <2>5, <1>3 DEF Walking, asked
    <3> QED  BY <3>3 DEF WalkInv
  <2>9. DumpInv'
    <3> SUFFICES ASSUME who' = "dump", steady', NEW row \in rows'
                 PROVE  RowIsTrue(row)'
      BY DEF DumpInv
    <3>1. steady /\ ids \subseteq Normalize(world[Head(todo)])
      BY <1>1, Zenon DEF HostTypes
    <3>2. CASE row \in rows
      BY <3>1, <3>2, <1>1, <1>3 DEF DumpInv, RowIsTrue
    <3>3. CASE \E v \in ids : row = [kind |-> Head(todo), id |-> v]
      <4>1. row.kind = Head(todo) /\ row.id \in Normalize(world[Head(todo)])
        BY <3>1, <3>3
      <4>2. Head(todo) \in Range(Fanout)
        BY <2>6, <2>7 DEF Range
      <4> QED  BY <4>1, <4>2, <1>3 DEF RowIsTrue
    <3> QED  BY <2>5, <3>2, <3>3
  <2>10. LoginInv'
    BY <1>1, <1>3, <2>5 DEF LoginInv, Answers
  <2> QED  BY <1>4, <1>5, <1>6, <2>8, <2>9, <2>10 DEF HostInv
<1>9. CASE pass # "probe"
  <2>1. pass = "resolve" /\ ~Pinned
    BY <1>7, <1>9 DEF Walking
  <2>2. PICK n \in 0 .. Len(Chain) : Asks(Chain, n) /\ (steady => Silent(n))
    BY <1>7, <2>1 DEF Walking
  <2>3. todo = SubSeq(Chain, n + 1, Len(Chain))
    BY <2>2 DEF Asks
  <2>4. /\ resolved' = {[kind |-> Head(todo), id |-> v] : v \in ids}
        /\ todo' = IF ids = {} THEN Tail(todo) ELSE <<>>
        /\ pass' = IF ids = {} THEN pass ELSE "report"
        /\ rows' = rows
    BY <1>9 DEF Answered
  <2> HIDE DEF S
  <2>5. /\ n + 1 \in DOMAIN Chain /\ Head(todo) = Chain[n + 1]
        /\ Tail(todo) = SubSeq(Chain, n + 2, Len(Chain))
    BY <1>2, <2>3, OneFurther
  <2>6. n \in Nat /\ n + 1 \in 0 .. Len(Chain) /\ (n + 1) + 1 = n + 2 /\ (n + 1) - 1 = n
    BY <2>5, <1>2
  <2>7. DumpInv'
    BY <1>1, <1>3, <2>4, Zenon DEF DumpInv, RowIsTrue, HostTypes
  <2>8. LoginInv'
    <3>1. who = "login" => ids \subseteq held
      <4>1. Head(todo) \in Range(Chain)
        BY <2>5 DEF Range
      <4>2. Normalize(world[Head(todo)]) \subseteq HeldNow
        BY <4>1 DEF HeldNow, Chain
      <4> QED  BY <4>2, <1>1 DEF LoginInv
    <3> QED  BY <3>1, <1>1, <1>3, <2>4 DEF LoginInv, Answers
  <2>9. CASE ids = {}
    <3>1. Asks(Chain, n + 1)'
      BY <2>4, <2>5, <2>6, <2>9, <1>3 DEF Asks
    <3>2. steady' => Silent(n + 1)
      <4>1. steady' => Silent(n) /\ Normalize(world[Chain[n + 1]]) = {}
        BY <2>2, <2>5, <2>9, <1>1, Zenon DEF HostTypes
      <4>2. \A i \in 1 .. n + 1 : i \in 1 .. n \/ i = n + 1
        OBVIOUS
      <4> QED  BY <4>1, <4>2, Zenon DEF Silent
    <3>3. Walking'
      BY <3>1, <3>2, <2>1, <2>4, <2>6, <2>9, <1>3 DEF Walking
    <3> QED  BY <1>4, <1>5, <1>6, <2>7, <2>8, <3>3 DEF HostInv, WalkInv
  <2>10. CASE ids # {}
    <3>1. steady' => Silent(n) /\ ids \subseteq Normalize(world[Chain[n + 1]])
      BY <2>2, <2>5, <2>10, <1>1, Zenon DEF HostTypes
    <3>2. resolved' # {} /\ \A r \in resolved' : r.kind = Chain[n + 1] /\ r.id \in ids
      <4>1. resolved' = {[kind |-> Chain[n + 1], id |-> v] : v \in ids}
        BY <2>4, <2>5
      <4>2. \A r \in resolved' : r.kind = Chain[n + 1] /\ r.id \in ids
        BY <4>1
      <4>3. PICK v \in ids : TRUE
        BY <2>10
      <4>4. [kind |-> Chain[n + 1], id |-> v] \in resolved'
        BY <4>1, <4>3, Zenon
      <4> QED  BY <4>2, <4>4
    <3>3. steady' => Resolution'
      BY <3>1, <3>2, <2>5, <2>6, <1>3 DEF Resolution
    <3>4. Walking'
      BY <3>3, <2>1, <2>4, <2>10, <1>3 DEF Walking
    <3> QED  BY <1>4, <1>5, <1>6, <2>7, <2>8, <3>4 DEF HostInv, WalkInv
  <2> QED  BY <2>9, <2>10
<1> QED  BY <1>8, <1>9

\* The command is spawned, ends or is killed: nobody has answered yet.
LEMMA ChildKeepsHost ==
    ASSUME HostInv, UNCHANGED <<cfg, world, who, pass, todo, rows, resolved, report, cert,
                                verdict, steady, held>>,
           child' # "none" => todo # <<>> /\ Head(todo) = "custom_command"
    PROVE  HostInv'
<1>1. HostTypes'
  BY DEF HostInv, HostTypes
<1>2. WalkInv' /\ DumpInv' /\ LoginInv'
  BY WalkFrame DEF HostInv
<1>3. ReportInv'
  BY ReportFrame DEF HostInv
<1>4. EnrolledHostIsAdmitted' /\ AdmittedIsThisHost'
  BY DEF HostInv, EnrolledHostIsAdmitted, AdmittedIsThisHost, OverrideAgrees, ActiveRows
<1> QED  BY <1>1, <1>2, <1>3, <1>4 DEF HostInv

\* A program starts.
LEMMA BeginKeepsHost ==
    ASSUME HostInv, NEW w \in {"dump", "login", "daemon"}, Begin(w)
    PROVE  HostInv'
<1>1. HostTypes /\ ReportInv
  BY DEF HostInv
<1>2. /\ Chain \in Seq(Range(FileKinds) \cup {"custom_command"})
      /\ Fanout \in Seq(Range(FileKinds) \cup {"custom_command"})
  BY <1>1, AskedAreSources
<1>3. cfg' = cfg /\ world' = world /\ report' = report /\ who = "none" /\ who' = w
  BY DEF Begin
<1>4. /\ Chain' = Chain /\ Fanout' = Fanout /\ HeldNow' = HeldNow
  BY <1>3, HostFrame
<1>5. HostTypes'
  BY <1>1 DEF HostTypes, Begin
<1>6. DumpInv'
  BY DEF DumpInv, Begin
<1>7. ReportInv'
  <2>1. CASE w = "dump"
    BY <2>1, <1>3 DEF ReportInv
  <2>2. CASE w # "dump"
    <3>1. steady' = steady
      BY <2>2, <1>1 DEF Begin, HostTypes
    <3> QED  BY <3>1, <1>1, <1>3, ReportFrame
  <2> QED  BY <2>1, <2>2
<1>8. EnrolledHostIsAdmitted' /\ AdmittedIsThisHost'
  BY DEF Begin, EnrolledHostIsAdmitted, AdmittedIsThisHost
<1> DEFINE pinned == w = "login" /\ "override" \in Range(cfg.sources) /\ cfg.override_value # {}
<1>9. Pinned' = pinned
  BY <1>3 DEF Pinned
<1>10. LoginInv'
  <2> SUFFICES ASSUME w = "login"
               PROVE  HeldNow' \subseteq held' /\ \A r \in resolved' : Answers(r)'
    BY <1>3 DEF LoginInv
  <2>1. HeldNow' \subseteq held'
    BY <1>4 DEF Begin
  <2>2. ASSUME pinned PROVE \A r \in resolved' : Answers(r)'
    BY <2>2, <1>3 DEF Begin, Answers, PinnedId
  <2>3. ASSUME ~pinned PROVE \A r \in resolved' : Answers(r)'
    BY <2>3 DEF Begin
  <2> QED  BY <2>1, <2>2, <2>3
<1>11. Walking'
  <2>1. CASE pinned
    <3>1. /\ resolved' = {[kind |-> "override", id |-> PinnedId(v)] : v \in cfg.override_value}
          /\ pass' = "report" /\ todo' = <<>>
      BY <2>1 DEF Begin
    <3> QED  BY <3>1, <2>1, <1>3, <1>9, Zenon DEF Walking, PinnedId
  <2>2. CASE ~pinned
    <3> DEFINE asked == IF w = "dump" THEN Fanout ELSE Chain
    <3>1. pass' = "probe" /\ todo' = asked
      BY <2>2 DEF Begin, Chain
    <3>2. asked' = asked /\ asked \in Seq(Range(FileKinds) \cup {"custom_command"})
      BY <1>2, <1>4
    <3>3. 0 \in 0 .. Len(asked)
      BY <3>2
    <3>4. Asks(asked, 0)'
      BY <3>1, <3>2, NotBegun DEF Asks
    <3> QED  BY <3>1, <3>3, <3>4, <2>2, <1>3, <1>4, <1>9, Zenon DEF Walking
  <2> QED  BY <2>1, <2>2
<1> QED  BY <1>5, <1>6, <1>7, <1>8, <1>10, <1>11 DEF HostInv, WalkInv

\* The end of a pass.
LEMMA PassDoneKeepsHost ==
    ASSUME HostInv, PassDone
    PROVE  HostInv'
<1>1. HostTypes /\ WalkInv /\ DumpInv /\ LoginInv /\ ReportInv /\ Walking
  BY DEF HostInv, WalkInv, PassDone
<1>2. Chain \in Seq(Range(FileKinds) \cup {"custom_command"})
  BY <1>1, AskedAreSources
<1>3. /\ cfg' = cfg /\ world' = world /\ report' = report /\ who' = who /\ who # "none"
      /\ steady' = steady /\ held' = held /\ rows' = rows /\ todo = <<>>
  BY DEF PassDone
<1>4. /\ Chain' = Chain /\ Fanout' = Fanout /\ HeldNow' = HeldNow /\ Fallback' = Fallback
      /\ \A n : Silent(n)' = Silent(n)
      /\ Pinned' = Pinned
  BY <1>3, HostFrame DEF Silent, Pinned
<1>5. HostTypes'
  BY <1>1 DEF HostTypes, PassDone
<1>6. DumpInv'
  BY <1>1, <1>3, <1>4 DEF DumpInv, RowIsTrue
<1>7. ReportInv'
  BY <1>1, <1>3, ReportFrame
<1>8. EnrolledHostIsAdmitted' /\ AdmittedIsThisHost'
  BY <1>1 DEF PassDone, EnrolledHostIsAdmitted, AdmittedIsThisHost, HostTypes
<1>9. CASE pass = "probe"
  <2>1. ~Pinned /\ pass' = "resolve" /\ todo' = Chain /\ resolved' = resolved
    BY <1>1, <1>9 DEF PassDone, Walking, Chain
  <2>2. LoginInv'
    BY <1>1, <1>3, <1>4, <2>1 DEF LoginInv, Answers
  <2>3. 0 \in 0 .. Len(Chain) /\ Silent(0)
    BY <1>2 DEF Silent
  <2>4. Asks(Chain, 0)'
    BY <2>1, <1>2, <1>4, NotBegun DEF Asks
  <2>5. Walking'
    BY <2>1, <2>3, <2>4, <1>4 DEF Walking
  <2> QED  BY <1>5, <1>6, <1>7, <1>8, <2>2, <2>5 DEF HostInv, WalkInv
<1>10. CASE pass # "probe"
  <2>1. pass = "resolve" /\ pass' = "report" /\ resolved' = Fallback /\ todo' = <<>> /\ ~Pinned
    BY <1>1, <1>3, <1>10 DEF PassDone, Walking
  <2>2. LoginInv'
    BY <1>1, <1>3, <1>4, <2>1 DEF LoginInv, Answers, Fallback
  <2>3. PICK n \in 0 .. Len(Chain) : Asks(Chain, n) /\ (steady => Silent(n))
    BY <1>1, <2>1 DEF Walking
  <2>4. n = Len(Chain)
    BY <2>3, <1>2, <1>3, OneFurther, Zenon DEF Asks
  <2>5. steady' => Resolution'
    BY <2>1, <2>3, <2>4, <1>3, <1>4 DEF Resolution
  <2>6. Walking'
    BY <2>1, <2>5, <1>4 DEF Walking
  <2> QED  BY <1>5, <1>6, <1>7, <1>8, <2>2, <2>6 DEF HostInv, WalkInv
<1> QED  BY <1>9, <1>10

\* A program ends: nothing is left of its walk.
LEMMA EndKeepsHost ==
    ASSUME HostInv, End, who # "none", pass \in {"report", "paint"},
           UNCHANGED <<cfg, world, cert, held>>, steady' \in BOOLEAN
    PROVE  HostTypes' /\ WalkInv' /\ DumpInv' /\ LoginInv'
<1>1. HostTypes /\ Walking
  BY DEF HostInv, WalkInv
<1>2. todo = <<>>
  BY <1>1 DEF Walking
<1>3. child' = "none" /\ who' = "none" /\ todo' = <<>>
  BY <1>1, <1>2 DEF HostTypes, End
<1> QED  BY <1>1, <1>3 DEF HostTypes, WalkInv, DumpInv, LoginInv

\* dump-host-id writes its report, or fails to.
LEMMA DumpReportsKeepsHost ==
    ASSUME HostInv, DumpReports
    PROVE  HostInv'
<1>1. HostTypes /\ DumpInv /\ Walking
  BY DEF HostInv, WalkInv, DumpReports
<1>2. /\ who = "dump" /\ pass = "report" /\ End /\ cfg' = cfg /\ world' = world
      /\ UNCHANGED <<cert, held, verdict>>
  BY DEF DumpReports
<1>3. steady' \in BOOLEAN /\ (steady' => steady)
  <2>1. steady' = steady \/ steady' = FALSE
    BY Zenon DEF DumpReports
  <2>2. CASE steady' = steady
    BY <1>1, <2>2 DEF HostTypes
  <2>3. CASE steady' = FALSE
    BY <2>3, Zenon
  <2> QED  BY <2>1, <2>2, <2>3, Zenon
<1>4. HostTypes' /\ WalkInv' /\ DumpInv' /\ LoginInv'
  BY <1>2, <1>3, EndKeepsHost
<1>5. verdict' = "none"
  BY <1>1, <1>2 DEF HostTypes
<1>6. EnrolledHostIsAdmitted' /\ AdmittedIsThisHost'
  BY <1>5 DEF EnrolledHostIsAdmitted, AdmittedIsThisHost
<1>7. ReportInv'
  <2> SUFFICES ASSUME steady', NEW r \in report' PROVE ReportIsTrue(r)'
    BY DEF ReportInv
  <2>1. steady /\ r = [rows |-> rows \cup OverrideRow, active |-> {a.kind : a \in resolved}]
    BY <1>3 DEF DumpReports
  <2>2. /\ Chain' = Chain /\ Fanout' = Fanout /\ OverrideRow' = OverrideRow
        /\ \A n : Silent(n)' = Silent(n)
    BY <1>2, HostFrame DEF Silent
  <2>3. \A row \in r.rows : row \in OverrideRow' \/ RowIsTrue(row)'
    BY <2>1, <2>2, <1>1, <1>2 DEF DumpInv, RowIsTrue
  <2>4. Resolution
    BY <1>1, <1>2, <2>1 DEF Walking, Pinned
  <2>5. Chooses(r.active)'
    <3>1. r.active = {a.kind : a \in resolved}
      BY <2>1
    <3>2. CASE \E i \in DOMAIN Chain :
                  /\ Silent(i - 1) /\ resolved # {}
                  /\ \A a \in resolved : a.kind = Chain[i] /\ a.id \in Normalize(world[Chain[i]])
      <4>1. PICK i \in DOMAIN Chain :
                  /\ Silent(i - 1) /\ resolved # {}
                  /\ \A a \in resolved : a.kind = Chain[i] /\ a.id \in Normalize(world[Chain[i]])
        BY <3>2
      <4>2. r.active = {Chain[i]}
        BY <4>1, <3>1
      <4>3. Normalize(world[Chain[i]]) # {}
        BY <4>1
      <4> QED  BY <4>1, <4>2, <4>3, <2>2, <1>2, Zenon DEF Chooses
    <3>3. CASE Silent(Len(Chain)) /\ resolved = Fallback
      <4>1. r.active \subseteq {"override"}
        BY <3>1, <3>3 DEF Fallback
      <4> QED  BY <4>1, <3>3, <2>2 DEF Chooses
    <3> QED  BY <2>4, <3>2, <3>3 DEF Resolution
  <2> QED  BY <2>3, <2>5 DEF ReportIsTrue
<1> QED  BY <1>4, <1>6, <1>7 DEF HostInv

\* The login that follows a true report resolves to the id of its active row.
LEMMA ReportedIsResolved ==
    ASSUME HostInv, who = "login", pass = "report", steady, OverrideAgrees,
           NEW r \in report, NEW row \in ActiveRows(r)
    PROVE  \E a \in resolved : a.id = row.id
<1>1. HostTypes /\ Walking /\ ReportIsTrue(r)
  BY DEF HostInv, WalkInv, ReportInv
<1>2. /\ Chain \in Seq(Range(FileKinds) \cup {"custom_command"})
      /\ "override" \notin Range(Fanout)
      /\ cfg.sources = <<"override">> => Chain = <<>>
  BY <1>1, AskedAreSources
<1>3. row \in r.rows /\ row.kind \in r.active
  BY DEF ActiveRows
<1>4. row \in OverrideRow \/ RowIsTrue(row)
  BY <1>1, <1>3 DEF ReportIsTrue
<1>5. RowIsTrue(row) => row.kind # "override"
  BY <1>2 DEF RowIsTrue
<1>6. CASE cfg.override_value = {}
  <2>1. OverrideRow = {}
    BY <1>6 DEF OverrideRow
  <2>2. RowIsTrue(row)
    BY <1>4, <2>1
  <2>3. PICK i \in DOMAIN Chain : Silent(i - 1) /\ Normalize(world[Chain[i]]) # {}
                                    /\ row.kind = Chain[i]
    BY <1>1, <1>3, <1>5, <2>2 DEF ReportIsTrue, Chooses
  <2>4. i \in 1 .. Len(Chain)
    BY <1>2
  <2>5. Resolution
    BY <1>1, <1>6 DEF Walking, Pinned
  <2>6. ~Silent(Len(Chain))
    BY <2>3, <2>4 DEF Silent
  <2>7. PICK j \in DOMAIN Chain :
                  /\ Silent(j - 1) /\ resolved # {}
                  /\ \A a \in resolved : a.kind = Chain[j] /\ a.id \in Normalize(world[Chain[j]])
    BY <2>5, <2>6 DEF Resolution
  <2>8. Normalize(world[Chain[j]]) # {}
    BY <2>7
  <2>9. i = j
    <3>1. j \in 1 .. Len(Chain)
      BY <1>2
    <3>2. i < j => i \in 1 .. j - 1
      BY <2>4, <3>1
    <3>3. j < i => j \in 1 .. i - 1
      BY <2>4, <3>1
    <3>4. ~(i < j) /\ ~(j < i)
      BY <3>2, <3>3, <2>3, <2>7, <2>8, Zenon DEF Silent
    <3> QED  BY <3>1, <3>4, <2>4
  <2>10. PICK a \in resolved : TRUE
    BY <2>7
  <2>11. row.id \in Normalize(world[Chain[i]]) /\ a.id \in Normalize(world[Chain[i]])
    BY <2>2, <2>3, <2>7, <2>9, <2>10 DEF RowIsTrue
  <2>12. \A x, y \in Normalize(world[Chain[i]]) : x = y
    BY DEF Normalize
  <2>13. a.id = row.id
    BY <2>11, <2>12, Zenon
  <2> QED  BY <2>10, <2>13
<1>7. CASE cfg.sources = <<"override">> /\ cfg.override_value # {}
  <2>1. DOMAIN Chain = {}
    BY <1>2, <1>7
  <2>2. row.kind = "override"
    BY <1>1, <1>3, <2>1 DEF ReportIsTrue, Chooses
  <2>3. row \in OverrideRow
    BY <2>2, <1>4, <1>5
  <2>4. PICK v \in cfg.override_value : row.id \in Normalize(v)
    BY <2>3 DEF OverrideRow
  <2>5. row.id = v.id
    BY <2>4 DEF Normalize
  <2>6. "override" \in Range(cfg.sources)
    BY <1>7 DEF Range
  <2>7. resolved = {[kind |-> "override", id |-> PinnedId(u)] : u \in cfg.override_value}
    BY <1>1, <1>7, <2>6 DEF Walking, Pinned
  <2>8. [kind |-> "override", id |-> v.id] \in resolved
    BY <2>7 DEF PinnedId
  <2> QED  BY <2>5, <2>8
<1> QED  BY <1>6, <1>7 DEF OverrideAgrees

\* The login decides.
LEMMA LoginDecidesKeepsHost ==
    ASSUME HostInv, LoginDecides
    PROVE  HostInv'
<1>1. HostTypes /\ LoginInv /\ ReportInv
  BY DEF HostInv
<1>2. /\ who = "login" /\ pass = "report" /\ End
      /\ UNCHANGED <<cfg, world, report, cert, steady, held>>
  BY DEF LoginDecides
<1>3. HostTypes' /\ WalkInv' /\ DumpInv' /\ LoginInv'
  BY <1>1, <1>2, EndKeepsHost DEF HostTypes
<1>4. ReportInv'
  BY <1>1, <1>2, ReportFrame
<1>5. EnrolledHostIsAdmitted'
  <2> SUFFICES ASSUME steady, OverrideAgrees, NEW r \in report, NEW d \in cert,
                      d.kind = "sha256", NEW row \in ActiveRows(r), d.value.id = row.id
               PROVE  verdict' = "admitted"
    BY <1>2 DEF EnrolledHostIsAdmitted, OverrideAgrees, ActiveRows
  <2>1. PICK a \in resolved : a.id = row.id
    BY <1>2, ReportedIsResolved
  <2>2. MatchesHost(d, a.id)
    BY <2>1 DEF MatchesHost
  <2> QED  BY <2>1, <2>2 DEF LoginDecides
<1>6. AdmittedIsThisHost'
  <2> SUFFICES ASSUME verdict' = "admitted", NEW d \in cert, d.kind # "wildcard"
               PROVE  \/ d.value.id \in held
                      \/ /\ "override" \in Range(cfg.sources)
                         /\ \E v \in cfg.override_value : v.id = d.value.id
                      \/ cfg.fallback # "deny" /\ d.value.id = Unknown
    BY <1>2 DEF AdmittedIsThisHost
  <2>1. PICK c \in cert, a \in resolved : MatchesHost(c, a.id)
    BY DEF LoginDecides
  <2>2. c = d
    BY <1>1 DEF HostTypes
  <2>3. d.value.id = a.id
    BY <2>1, <2>2 DEF MatchesHost
  <2>4. Answers(a)
    BY <1>1, <1>2, <2>1 DEF LoginInv
  <2> QED  BY <2>3, <2>4 DEF Answers
<1> QED  BY <1>3, <1>4, <1>5, <1>6 DEF HostInv

\* The daemon takes a backup, paints or gives up.
LEMMA DaemonKeepsHost ==
    ASSUME HostInv, TakeBackup \/ Paint \/ LeaveWallpaper
    PROVE  HostInv'
<1>1. HostTypes /\ ReportInv /\ Walking
  BY DEF HostInv, WalkInv, TakeBackup, Paint, LeaveWallpaper
<1>2. /\ who = "daemon" /\ pass \in {"report", "paint"}
      /\ UNCHANGED <<cfg, world, report, cert, verdict, steady, held>>
  BY DEF TakeBackup, Paint, LeaveWallpaper
<1>3. EnrolledHostIsAdmitted' /\ AdmittedIsThisHost'
  BY <1>1, <1>2, Zenon DEF EnrolledHostIsAdmitted, AdmittedIsThisHost, HostTypes
<1>4. CASE End
  <2>1. HostTypes' /\ WalkInv' /\ DumpInv' /\ LoginInv'
    BY <1>1, <1>2, <1>4, EndKeepsHost DEF HostTypes
  <2>2. ReportInv'
    BY <1>1, <1>2, ReportFrame
  <2> QED  BY <1>3, <2>1, <2>2 DEF HostInv
<1>5. CASE pass' = "paint" /\ UNCHANGED <<who, todo, child, holder, rows, resolved>>
  <2>1. HostTypes'
    BY <1>1, <1>2, <1>5 DEF HostTypes
  <2>2. ReportInv'
    BY <1>1, <1>2, <1>5, ReportFrame
  <2>3. DumpInv' /\ LoginInv'
    BY <1>2, <1>5 DEF DumpInv, LoginInv
  <2>4. Walking'
    <3>1. /\ Chain' = Chain /\ Fallback' = Fallback /\ ~Pinned' /\ ~Pinned
          /\ \A n : Silent(n)' = Silent(n)
      BY <1>2, <1>5, HostFrame DEF Silent, Pinned
    <3>2. todo' = <<>> /\ (steady' => Resolution)
      BY <1>1, <1>2, <1>5, <3>1 DEF Walking
    <3>3. Resolution' = Resolution
      BY <1>2, <1>5, <3>1 DEF Resolution
    <3> QED  BY <1>5, <3>1, <3>2, <3>3 DEF Walking
  <2> QED  BY <1>3, <2>1, <2>2, <2>3, <2>4 DEF HostInv, WalkInv
<1> QED  BY <1>4, <1>5 DEF TakeBackup, Paint, LeaveWallpaper

\* A certificate is issued: one descriptor, and no verdict on it yet.
LEMMA IssueKeepsHost ==
    ASSUME HostInv, Issue
    PROVE  HostInv'
<1>1. /\ who = "none" /\ verdict' = "none"
      /\ UNCHANGED <<cfg, world, who, pass, todo, child, rows, resolved, report, steady, held>>
  BY DEF Issue, progress
<1>2. \A c, d \in cert' : c = d
  BY DEF Issue
<1>3. HostTypes'
  BY <1>1, <1>2 DEF HostInv, HostTypes
<1>4. WalkInv' /\ DumpInv' /\ LoginInv'
  BY <1>1, WalkFrame DEF HostInv
<1>5. ReportInv'
  BY <1>1, ReportFrame DEF HostInv
<1>6. EnrolledHostIsAdmitted' /\ AdmittedIsThisHost'
  BY <1>1 DEF EnrolledHostIsAdmitted, AdmittedIsThisHost
<1> QED  BY <1>3, <1>4, <1>5, <1>6 DEF HostInv

\* The host changes under a program, or its configuration between two.
LEMMA ChangesKeepHost ==
    ASSUME HostInv, HostChanges \/ Reconfigure
    PROVE  HostInv'
<1>1. HostTypes /\ WalkInv /\ LoginInv /\ AdmittedIsThisHost
  BY DEF HostInv
<1>2. /\ steady' = FALSE
      /\ UNCHANGED <<who, pass, todo, child, rows, resolved, report, cert>>
  BY DEF HostChanges, Reconfigure, progress
<1>3. DumpInv' /\ ReportInv' /\ EnrolledHostIsAdmitted'
  BY <1>2 DEF DumpInv, ReportInv, EnrolledHostIsAdmitted
<1>4. CASE Reconfigure
  <2>1. who = "none" /\ cfg' \in Configs /\ verdict' = "none" /\ world' = world
    BY <1>4 DEF Reconfigure
  <2>2. HostTypes'
    BY <1>1, <1>2, <2>1, Zenon DEF HostTypes
  <2> QED  BY <1>2, <1>3, <2>1, <2>2 DEF HostInv, WalkInv, LoginInv, AdmittedIsThisHost
<1>5. CASE HostChanges
  <2>1. PICK k \in DOMAIN world, v \in Values :
          /\ world' = [world EXCEPT ![k] = v]
          /\ held' = held \cup IF who = "login" /\ k \in Range(ChainOf(cfg.sources))
                             THEN Normalize(v) ELSE {}
    BY <1>5, Zenon DEF HostChanges
  <2>2. cfg' = cfg /\ verdict' = verdict
    BY <1>5 DEF HostChanges
  <2>3. HostTypes'
    BY <1>1, <1>2, <2>1, <2>2, Zenon DEF HostTypes
  <2>4. held \subseteq held'
    BY <2>1
  <2>5. AdmittedIsThisHost'
    BY <1>1, <1>2, <2>2, <2>4 DEF AdmittedIsThisHost
  <2>6. Chain' = Chain /\ Fanout' = Fanout /\ Pinned' = Pinned
    BY <1>2, <2>2, Zenon DEF Chain, ChainOf, Fanout, Pinned
  <2>7. WalkInv'
    <3> SUFFICES ASSUME Walking PROVE Walking'
      BY <1>1, <1>2 DEF WalkInv
    <3>1. CASE pass = "probe"
      BY <3>1, <1>2, <2>6, Zenon DEF Walking, Asks
    <3>2. CASE pass = "resolve"
      BY <3>2, <1>2, <2>6 DEF Walking, Asks
    <3>3. CASE pass \in {"report", "paint"}
      BY <3>3, <1>2, <2>2, <2>6 DEF Walking, PinnedId
    <3> QED  BY <3>1, <3>2, <3>3, Zenon DEF Walking
  <2>8. LoginInv'
    <3> SUFFICES ASSUME who = "login"
                 PROVE  HeldNow' \subseteq held' /\ \A r \in resolved' : Answers(r)'
      BY <1>2 DEF LoginInv
    <3>1. HeldNow \subseteq held /\ \A r \in resolved : Answers(r)
      BY <1>1 DEF LoginInv
    <3>2. \A r \in resolved' : Answers(r)'
      BY <3>1, <1>2, <2>2, <2>4, Zenon DEF Answers
    <3>3. ASSUME NEW x \in Range(Chain), NEW id \in Normalize(world'[x])
          PROVE  id \in held'
      <4>1. CASE x = k
        <5>1. world'[x] = v
          BY <4>1, <2>1, <1>1 DEF HostTypes
        <5> QED  BY <5>1, <4>1, <3>3, <2>1 DEF Chain
      <4>2. CASE x # k
        <5>1. world'[x] = world[x]
          <6>1. Range(Chain) \subseteq DOMAIN world
            BY <1>1, AskedAreSources DEF HostTypes, Range
          <6> QED  BY <6>1, <4>2, <2>1
        <5>2. id \in HeldNow
          BY <5>1, <3>3 DEF HeldNow, Chain
        <5> QED  BY <5>2, <3>1, <2>4
      <4> QED  BY <4>1, <4>2
    <3>4. HeldNow' = UNION {Normalize(world'[x]) : x \in Range(Chain)}
      BY <2>6 DEF HeldNow, Chain
    <3> QED  BY <3>2, <3>3, <3>4
  <2> QED  BY <1>3, <2>3, <2>5, <2>7, <2>8 DEF HostInv
<1> QED  BY <1>4, <1>5

\* Every step keeps it.
LEMMA NextKeepsHost ==
    ASSUME HostInv, [Next]_vars
    PROVE  HostInv'
<1>1. ASSUME NEW w \in {"dump", "login", "daemon"}, Begin(w) PROVE HostInv'
  BY <1>1, BeginKeepsHost
<1>2. CASE ReadFile
  <2>1. child' = "none"
    BY <1>2 DEF ReadFile, HostInv, HostTypes
  <2> QED  BY <1>2, <2>1, AnsweredKeepsHost, Zenon DEF ReadFile
<1>3. CASE CommandError
  BY <1>3, AnsweredKeepsHost, Zenon DEF CommandError, Spoiled
<1>4. CASE JoinReaders
  <2>1. who # "none" /\ todo # <<>> /\ Head(todo) = "custom_command"
    BY <1>4 DEF JoinReaders, HostInv, HostTypes
  <2> QED  BY <1>4, <2>1, AnsweredKeepsHost, Zenon DEF JoinReaders, Spoiled
<1>5. CASE SpawnCommand \/ CommandExits \/ Deadline \/ HolderExits \/ Rest \/ UNCHANGED vars
  <2>1. /\ UNCHANGED <<cfg, world, who, pass, todo, rows, resolved, report, cert,
                       verdict, steady, held>>
    BY <1>5 DEF SpawnCommand, CommandExits, Deadline, HolderExits, Rest, vars, progress
  <2>2. child' # "none" => todo # <<>> /\ Head(todo) = "custom_command"
    BY <1>5 DEF SpawnCommand, CommandExits, Deadline, HolderExits, Rest, vars, progress,
                HostInv, HostTypes
  <2> QED  BY <2>1, <2>2, ChildKeepsHost
<1>6. CASE PassDone
  BY <1>6, PassDoneKeepsHost
<1>7. CASE DumpReports
  BY <1>7, DumpReportsKeepsHost
<1>8. CASE LoginDecides
  BY <1>8, LoginDecidesKeepsHost
<1>9. CASE TakeBackup \/ Paint \/ LeaveWallpaper
  BY <1>9, DaemonKeepsHost
<1>10. CASE Issue
  BY <1>10, IssueKeepsHost
<1>11. CASE HostChanges \/ Reconfigure
  BY <1>11, ChangesKeepHost
<1> QED
  BY <1>1, <1>2, <1>3, <1>4, <1>5, <1>6, <1>7, <1>8, <1>9, <1>10, <1>11 DEF Next, Program

\* Inductive.
LEMMA HostInductive == Spec => []HostInv
<1>1. Init => HostInv
  BY Zenon DEF Init, HostInv, HostTypes, WalkInv, DumpInv, LoginInv, ReportInv,
         EnrolledHostIsAdmitted, AdmittedIsThisHost
<1>2. HostInv /\ [Next]_vars => HostInv'
  BY NextKeepsHost
<1> QED  BY <1>1, <1>2, PTL DEF Spec

\* A certificate issued from the active row of dump-host-id is accepted by the
\* next login, whatever sources are configured and whatever they hold, as long
\* as they keep giving the same answers (resolve_host_identity, probe_all).
THEOREM EnrolledHostAlwaysAdmitted == Spec => []EnrolledHostIsAdmitted
<1>1. HostInv => EnrolledHostIsAdmitted
  BY DEF HostInv
<1> QED  BY <1>1, HostInductive, PTL

\* verify_host_binding admits a certificate bound to a host only where that id
\* was held by a configured source during the call, is pinned by the override,
\* or is the "unknown" of a tolerant fallback.
THEOREM AdmittedIsAlwaysThisHost == Spec => []AdmittedIsThisHost
<1>1. HostInv => AdmittedIsThisHost
  BY DEF HostInv
<1> QED  BY <1>1, HostInductive, PTL

\* The backup of the greeter's wallpaper is never a painted picture, however
\* often the daemon starts and wherever the first copy is cut short.
THEOREM BackupIsAlwaysPristine == Spec => []BackupIsPristine
<1>1. Init => BackupInv
  BY DEF Init, BackupInv, BackupIsPristine
<1>2. BackupInv /\ [Next]_vars => BackupInv'
  <2> SUFFICES ASSUME BackupInv, [Next]_vars PROVE BackupInv'
    OBVIOUS
  <2> USE DEF BackupInv, BackupIsPristine
  <2>1. CASE UNCHANGED paper /\ (pass' = "paint" => pass = "paint")
    BY <2>1 DEF paper
  <2>2. CASE TakeBackup
    BY <2>2 DEF TakeBackup, BackupMissing, End
  <2>3. CASE Paint
    BY <2>3 DEF Paint, BackupMissing, End
  <2>4. ASSUME NEW w \in {"dump", "login", "daemon"}, Begin(w) PROVE BackupInv'
    BY <2>1, <2>4 DEF Begin
  <2>5. CASE ReadFile \/ CommandError \/ JoinReaders
    BY <2>1, <2>5, Zenon DEF ReadFile, CommandError, JoinReaders, Spoiled, Answered
  <2>6. CASE SpawnCommand \/ CommandExits \/ Deadline \/ HolderExits
    BY <2>1, <2>6 DEF SpawnCommand, CommandExits, Deadline, HolderExits
  <2>7. CASE PassDone \/ DumpReports \/ LoginDecides \/ LeaveWallpaper
    BY <2>1, <2>7, Zenon DEF PassDone, DumpReports, LoginDecides, LeaveWallpaper, End
  <2>8. CASE Issue \/ HostChanges \/ Reconfigure \/ Rest \/ UNCHANGED vars
    BY <2>1, <2>8, Zenon DEF Issue, HostChanges, Reconfigure, Rest, vars, progress
  <2> QED
    BY <2>2, <2>3, <2>4, <2>5, <2>6, <2>7, <2>8 DEF Next, Program
<1>3. BackupInv => BackupIsPristine
  BY DEF BackupInv
<1> QED  BY <1>1, <1>2, <1>3, PTL DEF Spec

-----------------------------------------------------------------------------
(* The wait for a USB device.                                              *)

UsbEvent == [kind : {"add", "remove"}, node : Disk \X Nat]

UsbTypes ==
    /\ layout \in [Disk -> Layouts]
    /\ processed \subseteq Disk \X Nat
    /\ queue \in Seq(UsbEvent) /\ clock \in Nat
    /\ pc \in {"enumerate", "listen", "loop", "drain", "poll", "done"}

\* A usable node that came in time is still on the socket, and it is not late.
Pending ==
    /\ clock < Wait
    /\ \E j \in DOMAIN queue : queue[j].kind = "add" /\ Usable(queue[j].node)

\* Inductive: what the wait knows of the nodes that came.
UsbInv ==
    /\ UsbTypes
    /\ pc \in {"enumerate", "listen"} => came = {} /\ ~listening
    /\ pc \in {"loop", "drain", "poll"} => came = {} \/ Pending
    /\ pc = "done" => ~listening
    /\ pc # "done" => result = "none"
    /\ AnswerFitsDisks

\* devices_from makes a candidate of a usable node, whatever its disk looks like.
LEMMA UsableIsFound ==
    ASSUME NEW n, Usable(n)
    PROVE  Refusal(n) = "none" /\ DevicesFrom(n) = {n}
BY DEF Usable, Refusal, DevicesFrom

\* And what it finds, without an error, is usable.
LEMMA FoundIsUsable ==
    ASSUME UsbTypes, NEW n \in Disk \X Nat, Refusal(n) = "none", NEW p \in DevicesFrom(n)
    PROVE  Usable(p)
<1>1. layout[n[1]] \in Layouts
  BY DEF UsbTypes
<1>2. layout[n[1]].ids \in {"match", "other", "missing"}
  BY <1>1, UsbConstants
<1>3. layout[n[1]].ids # "missing"
  BY DEF Refusal
<1>4. layout[n[1]].ids = "match"
  BY <1>2, <1>3 DEF DevicesFrom
<1>5. CASE FsType(n) # "none"
  BY <1>4, <1>5 DEF DevicesFrom, Usable
<1>6. CASE FsType(n) = "none"
  <2>1. p \in SelectPartitions(Candidates(n))
    BY <1>4, <1>6 DEF DevicesFrom
  <2>2. p \in Partitions(n[1]) /\ ChildFs(p) \in ALLOWED_FS
    BY <2>1 DEF SelectPartitions, Candidates
  <2>3. p[1] = n[1]
    BY <2>2 DEF Partitions, Node
  <2>4. FsType(p) # "none"
    BY <2>2, UsbConstants DEF ChildFs
  <2> QED  BY <1>4, <2>3, <2>4 DEF Usable
<1> QED  BY <1>5, <1>6

\* The wait returns.
LEMMA ReturnKeepsUsb ==
    ASSUME UsbInv, NEW r, NEW ds, Return(r, ds),
           r = "Timeout" => came = {},
           r = "Ok" => ds # {} /\ \A n \in ds : Usable(n)
    PROVE  UsbInv'
<1>1. UsbTypes'
  BY DEF UsbInv, UsbTypes, Return, hostVars
<1>2. \A n : Usable(n)' = Usable(n)
  BY DEF Return, hostVars, Usable, FsType
<1>3. AnswerFitsDisks'
  BY <1>2 DEF Return, AnswerFitsDisks
<1> QED  BY <1>1, <1>3 DEF UsbInv, Return

\* Nodes stay usable.
LEMMA UsableStays ==
    ASSUME layout' = layout
    PROVE  \A n : Usable(n)' = Usable(n)
BY DEF Usable, FsType

\* The wait goes on, with the events it had.
LEMMA GotoKeepsUsb ==
    ASSUME UsbInv, pc # "done", NEW to \in {"listen", "drain", "poll", "loop"}, Goto(to),
           queue' = queue,
           to = "listen" => pc = "enumerate",
           to # "listen" => pc \in {"loop", "drain", "poll"}
    PROVE  UsbInv'
<1>1. UsbTypes'
  BY DEF UsbInv, UsbTypes, Goto, hostVars
<1>2. Pending => Pending'
  BY UsableStays DEF Pending, Goto, hostVars
<1>3. AnswerFitsDisks'
  BY DEF UsbInv, AnswerFitsDisks, Goto
<1> QED  BY <1>1, <1>2, <1>3 DEF UsbInv, Goto

\* The enumeration.
LEMMA EnumerateKeepsUsb ==
    ASSUME UsbInv, Enumerate
    PROVE  UsbInv'
<1> DEFINE refused == {n \in processed : Refusal(n) # "none"}
           first == CHOOSE n \in refused : \A m \in refused : Before(n, m)
           found == UNION {DevicesFrom(n) : n \in processed}
<1>1. \/ Return(Refusal(first), {})
      \/ refused = {} /\ found # {} /\ Return("Ok", found)
      \/ Goto("listen") /\ UNCHANGED <<queue, budget>>
  BY DEF Enumerate
<1>2. CASE Return(Refusal(first), {})
  <2>1. Refusal(first) \in {"MissingProperty", "TooManyPartitions", "none"}
    BY Zenon DEF Refusal
  <2> HIDE DEF first
  <2> QED  BY <1>2, <2>1, ReturnKeepsUsb
<1>3. CASE refused = {} /\ found # {} /\ Return("Ok", found)
  <2>1. ASSUME NEW p \in found PROVE Usable(p)
    <3>1. PICK n \in processed : p \in DevicesFrom(n)
      BY <2>1
    <3>2. UsbTypes /\ n \in Disk \X Nat /\ Refusal(n) = "none"
      BY <1>3, <3>1 DEF UsbInv, UsbTypes
    <3> QED  BY <3>1, <3>2, FoundIsUsable
  <2> HIDE DEF found
  <2> QED  BY <1>3, <2>1, ReturnKeepsUsb
<1>4. CASE Goto("listen") /\ UNCHANGED <<queue, budget>>
  BY <1>4, GotoKeepsUsb DEF Enumerate
<1> QED  BY <1>1, <1>2, <1>3, <1>4

\* One event is drained: a usable node is never dropped.
LEMMA DrainKeepsUsb ==
    ASSUME UsbInv, Drain
    PROVE  UsbInv'
<1> DEFINE n == Head(queue).node
           add == Head(queue).kind = "add"
<1>1. CASE queue = <<>>
  BY <1>1, GotoKeepsUsb DEF Drain
<1>2. CASE queue # <<>>
  <2>1. \/ add /\ Refusal(n) # "none" /\ Return(Refusal(n), {})
        \/ add /\ Refusal(n) = "none" /\ DevicesFrom(n) # {} /\ Return("Ok", DevicesFrom(n))
        \/ /\ ~(add /\ Refusal(n) # "none") /\ ~(add /\ Refusal(n) = "none" /\ DevicesFrom(n) # {})
           /\ Goto("drain") /\ queue' = Tail(queue)
    <3> DEFINE refuses == add /\ Refusal(n) # "none"
               finds == add /\ Refusal(n) = "none" /\ DevicesFrom(n) # {}
    <3>1. (CASE refuses -> Return(Refusal(n), {})
             [] finds -> Return("Ok", DevicesFrom(n))
             [] OTHER -> Goto("drain") /\ queue' = Tail(queue) /\ UNCHANGED budget)
      BY <1>2 DEF Drain
    <3>2. ~(refuses /\ finds)
      OBVIOUS
    <3> HIDE DEF refuses, finds
    <3>3. \/ refuses /\ Return(Refusal(n), {})
          \/ finds /\ Return("Ok", DevicesFrom(n))
          \/ ~refuses /\ ~finds /\ Goto("drain") /\ queue' = Tail(queue)
      BY <3>1, <3>2
    <3> QED  BY <3>3, Zenon DEF refuses, finds
  <2>2. UsbTypes /\ Head(queue) \in UsbEvent /\ n \in Disk \X Nat
    <3>1. UsbTypes /\ Head(queue) \in UsbEvent
      BY <1>2 DEF UsbInv, UsbTypes
    <3> QED  BY <3>1 DEF UsbEvent
  <2>3. CASE Return(Refusal(n), {})
    <3>1. Refusal(n) \in {"MissingProperty", "TooManyPartitions", "none"}
      BY DEF Refusal
    <3> HIDE DEF n
    <3> QED  BY <2>3, <3>1, ReturnKeepsUsb
  <2>4. CASE Refusal(n) = "none" /\ DevicesFrom(n) # {} /\ Return("Ok", DevicesFrom(n))
    <3> HIDE DEF n
    <3> QED  BY <2>2, <2>4, FoundIsUsable, ReturnKeepsUsb
  <2>5. CASE /\ ~(add /\ Refusal(n) # "none") /\ ~(add /\ Refusal(n) = "none" /\ DevicesFrom(n) # {})
             /\ Goto("drain") /\ queue' = Tail(queue)
    <3>1. ~(add /\ Usable(n))
      <4> HIDE DEF n, add
      <4> QED  BY <2>5, UsableIsFound
    <3>2. UsbTypes' /\ pc = "drain"
      BY <2>2, <2>5, <1>2 DEF UsbTypes, Goto, hostVars, Drain
    <3>3. Pending => Pending'
      <4> SUFFICES ASSUME clock < Wait, NEW j \in DOMAIN queue, queue[j].kind = "add",
                          Usable(queue[j].node)
                   PROVE  Pending'
        BY DEF Pending
      <4>1. j # 1
        BY <3>1
      <4>2. j - 1 \in DOMAIN Tail(queue) /\ Tail(queue)[j - 1] = queue[j]
        BY <4>1, <1>2, <2>2 DEF UsbTypes
      <4> QED  BY <4>2, <2>5, UsableStays, Zenon DEF Pending, Goto, hostVars
    <3>4. AnswerFitsDisks'
      BY <2>5, <3>2 DEF UsbInv, AnswerFitsDisks, Goto
    <3> QED  BY <2>5, <3>2, <3>3, <3>4 DEF UsbInv, Goto
  <2> QED  BY <2>1, <2>3, <2>4, <2>5
<1> QED  BY <1>1, <1>2

\* The host: a usable node that is announced in time goes to the socket.
LEMMA HostKeepsUsb ==
    ASSUME UsbInv, Host
    PROVE  UsbInv'
<1>1. UsbTypes
  BY DEF UsbInv
<1>2. \A d \in Disk : Nodes(d) \subseteq Disk \X Nat
  <2>1. \A d \in Disk : Len(layout[d].parts) \in Nat
    BY <1>1, UsbConstants DEF UsbTypes
  <2> QED  BY <2>1 DEF Nodes, Node
<1>3. ASSUME NEW d \in Disk, Plug(d) PROVE UsbInv'
  <2>1. UsbTypes'
    BY <1>1, <1>3 DEF UsbTypes, Plug
  <2>2. Pending' = Pending /\ AnswerFitsDisks' = AnswerFitsDisks
    BY <1>3, Zenon DEF Plug, Pending, AnswerFitsDisks, Usable, FsType
  <2> QED  BY <1>3, <2>1, <2>2 DEF UsbInv, Plug
<1>4. ASSUME NEW kind \in {"add", "remove"}, NEW n \in Disk \X Nat, Announce(kind, n),
             layout' = layout, clock' = clock
      PROVE  /\ queue' \in Seq(UsbEvent)
             /\ Pending => Pending'
             /\ listening /\ clock < Wait /\ Usable(n) /\ kind = "add" => Pending'
  <2>1. \A m : Usable(m)' = Usable(m)
    BY <1>4, UsableStays
  <2>2. [kind |-> kind, node |-> n] \in UsbEvent
    BY DEF UsbEvent
  <2>3. CASE ~listening
    BY <1>1, <1>4, <2>1, <2>3, Zenon DEF Announce, Pending, UsbTypes
  <2>4. CASE listening
    <3> DEFINE e == [kind |-> kind, node |-> n]
    <3>1. queue' = Append(queue, e) /\ queue \in Seq(UsbEvent) /\ e \in UsbEvent
      BY <1>1, <1>4, <2>2, <2>4 DEF Announce, UsbTypes
    <3>2. e.kind = kind /\ e.node = n
      OBVIOUS
    <3> HIDE DEF e
    <3>3. /\ queue' \in Seq(UsbEvent) /\ DOMAIN queue \subseteq DOMAIN queue'
          /\ \A j \in DOMAIN queue : queue'[j] = queue[j]
          /\ Len(queue) + 1 \in DOMAIN queue' /\ queue'[Len(queue) + 1] = e
      BY <3>1
    <3>4. Pending => Pending'
      BY <1>4, <2>1, <3>3, Zenon DEF Pending
    <3>5. clock < Wait /\ Usable(n) /\ kind = "add" => Pending'
      BY <1>4, <2>1, <3>2, <3>3, Zenon DEF Pending
    <3> QED  BY <3>3, <3>4, <3>5, Zenon
  <2> QED  BY <2>3, <2>4
<1>5. ASSUME NEW d \in Disk, Unplug(d) PROVE UsbInv'
  <2>1. Node(d, 0) \in Disk \X Nat
    BY DEF Node
  <2>2. queue' \in Seq(UsbEvent) /\ (Pending => Pending')
    BY <1>4, <1>5, <2>1 DEF Unplug
  <2>3. UsbTypes'
    BY <1>1, <1>5, <2>2 DEF UsbTypes, Unplug
  <2>4. AnswerFitsDisks' = AnswerFitsDisks
    BY <1>5, Zenon DEF Unplug, AnswerFitsDisks, Usable, FsType
  <2> QED  BY <1>5, <2>2, <2>3, <2>4 DEF UsbInv, Unplug
<1>6. ASSUME NEW d \in Disk, NEW n \in Nodes(d), UdevProcess(n) PROVE UsbInv'
  <2>1. n \in Disk \X Nat
    BY <1>2
  <2>2. /\ queue' \in Seq(UsbEvent) /\ (Pending => Pending')
        /\ listening /\ clock < Wait /\ Usable(n) => Pending'
    BY <1>4, <1>6, <2>1 DEF UdevProcess
  <2>3. UsbTypes'
    BY <1>1, <1>6, <2>1, <2>2 DEF UsbTypes, UdevProcess
  <2>4. came' = came \/ (listening /\ clock < Wait /\ Usable(n))
    BY <1>6 DEF UdevProcess
  <2>5. \A m : Usable(m)' = Usable(m)
    BY <1>6, UsableStays DEF UdevProcess
  <2>6. AnswerFitsDisks'
    BY <1>6, <2>4, <2>5 DEF UsbInv, UdevProcess, AnswerFitsDisks
  <2> QED  BY <1>6, <2>2, <2>3, <2>4, <2>6 DEF UsbInv, UdevProcess, UsbTypes
<1> QED  BY <1>3, <1>5, <1>6 DEF Host

\* Inductive.
LEMMA UsbInductive == UsbSpec => []UsbInv
<1>1. UsbInit => UsbInv
  <2> SUFFICES ASSUME UsbInit PROVE UsbInv
    OBVIOUS
  <2>1. \A d \in present : Nodes(d) \subseteq Disk \X Nat
    <3>1. \A d \in present : d \in Disk /\ Len(layout[d].parts) \in Nat
      BY UsbConstants DEF UsbInit
    <3> QED  BY <3>1 DEF Nodes, Node
  <2>2. UsbTypes
    BY <2>1 DEF UsbInit, UsbTypes
  <2> QED  BY <2>2 DEF UsbInit, UsbInv, AnswerFitsDisks
<1>2. UsbInv /\ [UsbNext]_usbVars => UsbInv'
  <2> SUFFICES ASSUME UsbInv, [UsbNext]_usbVars PROVE UsbInv'
    OBVIOUS
  <2>1. CASE Enumerate
    BY <2>1, EnumerateKeepsUsb
  <2>2. CASE Listen
    <3>1. UsbTypes'
      BY <2>2 DEF UsbInv, UsbTypes, Listen, hostVars
    <3>2. AnswerFitsDisks'
      BY <2>2 DEF UsbInv, AnswerFitsDisks, Listen
    <3> QED  BY <2>2, <3>1, <3>2 DEF UsbInv, Listen
  <2>3. CASE CheckDeadline
    <3>1. CASE Return("Timeout", {}) /\ clock >= Wait
      <4>1. came = {}
        <5>1. ~(clock < Wait)
          BY <3>1, UsbConstants DEF UsbInv, UsbTypes
        <5> QED  BY <2>3, <5>1 DEF CheckDeadline, UsbInv, Pending
      <4> QED  BY <3>1, <4>1, ReturnKeepsUsb
    <3>2. CASE Goto("drain") /\ UNCHANGED queue
      BY <2>3, <3>2, GotoKeepsUsb DEF CheckDeadline
    <3> QED  BY <2>3, <3>1, <3>2 DEF CheckDeadline
  <2>4. CASE Drain
    BY <2>4, DrainKeepsUsb
  <2>5. CASE PollReturns
    <3>1. CASE Return("Timeout", {}) /\ queue = <<>>
      <4>1. came = {}
        BY <2>5, <3>1 DEF PollReturns, UsbInv, Pending
      <4> QED  BY <3>1, <4>1, ReturnKeepsUsb
    <3>2. CASE Goto("loop") /\ UNCHANGED queue
      BY <2>5, <3>2, GotoKeepsUsb DEF PollReturns
    <3> QED  BY <2>5, <3>1, <3>2 DEF PollReturns
  <2>6. CASE UdevFails
    BY <2>6, ReturnKeepsUsb DEF UdevFails
  <2>7. CASE Tick
    <3>1. UsbTypes'
      BY <2>7 DEF UsbInv, UsbTypes, Tick, hostVars
    <3>2. came = {} /\ result = "none"
      BY <2>7 DEF UsbInv, Tick, Pending
    <3> QED  BY <2>7, <3>1, <3>2 DEF UsbInv, AnswerFitsDisks, Tick
  <2>8. CASE Host
    BY <2>8, HostKeepsUsb
  <2>9. CASE UNCHANGED usbVars
    <3>1. UsbTypes' /\ Pending' = Pending /\ AnswerFitsDisks' = AnswerFitsDisks
      BY <2>9, Zenon DEF UsbInv, UsbTypes, Pending, AnswerFitsDisks, Usable, FsType, usbVars, hostVars
    <3> QED  BY <2>9, <3>1 DEF UsbInv, usbVars
  <2> QED
    BY <2>1, <2>2, <2>3, <2>4, <2>5, <2>6, <2>7, <2>8, <2>9 DEF UsbNext, Waiter, Done
<1> QED  BY <1>1, <1>2, PTL DEF UsbSpec

\* wait_for_usb_real does not time out once a usable node was announced in
\* time, and what it returns can be mounted: for any number of disks of any
\* layout, any timeout and any length of a poll.
THEOREM AnswerAlwaysFitsDisks == UsbSpec => []AnswerFitsDisks
<1>1. UsbInv => AnswerFitsDisks
  BY DEF UsbInv
<1> QED  BY <1>1, UsbInductive, PTL

=============================================================================
