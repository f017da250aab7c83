------------------------------- MODULE UsbWait -------------------------------
(***************************************************************************)
(* wait_for_usb_devices (usb/mod.rs, usb/linux_impl.rs, usb/partition.rs):  *)
(* look at the USB block devices that are there, then listen to udev for    *)
(* new ones until the time is up.  The other side is the host: disks come   *)
(* and go, and udevd works through their nodes (the disk, then its          *)
(* partitions in any order), recording each in its database and announcing  *)
(* it to listeners.                                                         *)
(*                                                                         *)
(* Time passes in poll(2) only: the steps in between are short of a tick.   *)
(* The devices found are a set: their order, and that a partition found by  *)
(* itself and through its disk is listed twice, is left out.                *)
(***************************************************************************)
EXTENDS Naturals, Sequences, FiniteSets

CONSTANTS
    NumDisks,          \* disks there are
    Layouts,           \* what a disk may look like
    ALLOWED_FS,        \* file systems that may be mounted
    MaxUsbPartitions,  \* max_usb_partitions
    Wait,              \* the timeout, in ticks
    U16Max,            \* the longest poll(2), in ticks
    MaxPlugs           \* bound on how often disks are plugged or unplugged

ASSUME UsbConstants ==
    /\ NumDisks \in Nat
    /\ \A l \in Layouts : l.ids \in {"match", "other", "missing"} /\ l.parts \in Seq(STRING)
    /\ "none" \notin ALLOWED_FS
    /\ MaxUsbPartitions \in Nat \ {0} /\ Wait \in Nat /\ U16Max \in Nat \ {0}

\* In the order of their sysfs paths.
Disk == 1 .. NumDisks

VARIABLES
    layout,     \* per disk: ids, file system of the whole disk, of the partitions
    present,    \* disks plugged in
    processed,  \* nodes in udev's database
    plugs,      \* changes so far
    listening,  \* the monitor socket is open
    queue,      \* events on the monitor socket
    pc,         \* the next step of the wait
    clock,      \* ticks since listening began
    budget,     \* ticks left in the current poll
    result,     \* "none", "Ok" or the UsbError
    devs,       \* the devices returned
    came        \* history: usable nodes announced in time

hostVars == <<layout, present, processed, plugs>>
usbVars == <<hostVars, listening, queue, pc, clock, budget, result, devs, came>>

Node(d, i) == <<d, i>>
Partitions(d) == {Node(d, i) : i \in 1 .. Len(layout[d].parts)}
Nodes(d) == {Node(d, i) : i \in 0 .. Len(layout[d].parts)}
IsDisk(n) == n[2] = 0
FsType(n) == IF IsDisk(n) THEN layout[n[1]].fs ELSE layout[n[1]].parts[n[2]]

UsbInit ==
    /\ layout \in [Disk -> Layouts]
    /\ present \in SUBSET Disk
    /\ processed = UNION {Nodes(d) : d \in present}
    /\ plugs = 0
    /\ listening = FALSE /\ queue = <<>>
    /\ pc = "enumerate" /\ clock = 0 /\ budget = 0
    /\ result = "none" /\ devs = {} /\ came = {}

-----------------------------------------------------------------------------
(* The host.                                                               *)

Announce(kind, n) ==
    queue' = IF listening THEN Append(queue, [kind |-> kind, node |-> n]) ELSE queue

Plug(d) ==
    /\ d \notin present /\ plugs < MaxPlugs
    /\ present' = present \cup {d}
    /\ plugs' = plugs + 1
    /\ UNCHANGED <<layout, processed, listening, queue, pc, clock, budget, result, devs, came>>

Unplug(d) ==
    /\ d \in present /\ plugs < MaxPlugs
    /\ present' = present \ {d}
    /\ processed' = processed \ Nodes(d)
    /\ plugs' = plugs + 1
    /\ Announce("remove", Node(d, 0))
    /\ UNCHANGED <<layout, listening, pc, clock, budget, result, devs, came>>

\* A node that can become a candidate: the ids match and it has a file system.
Usable(n) == layout[n[1]].ids = "match" /\ FsType(n) # "none"

\* udevd finishes with a node; a partition after its disk.
UdevProcess(n) ==
    /\ n[1] \in present /\ n \notin processed
    /\ IsDisk(n) \/ Node(n[1], 0) \in processed
    /\ processed' = processed \cup {n}
    /\ Announce("add", n)
    /\ came' = IF listening /\ clock < Wait /\ Usable(n) THEN came \cup {n} ELSE came
    /\ UNCHANGED <<layout, present, plugs, listening, pc, clock, budget, result, devs>>

-----------------------------------------------------------------------------
(* devices_from.                                                           *)

\* Partition nodes carry no ID_FS_TYPE before udevd has been there.
ChildFs(n) == IF n \in processed THEN FsType(n) ELSE "none"

\* collect_partition_candidates.
Candidates(n) == IF n[1] \in present THEN Partitions(n[1]) ELSE {}

SelectPartitions(candidates) == {p \in candidates : ChildFs(p) \in ALLOWED_FS}

\* The error a node makes the whole search fail with.
Refusal(n) ==
    CASE layout[n[1]].ids = "missing" -> "MissingProperty"
      [] /\ layout[n[1]].ids = "match" /\ FsType(n) = "none" /\ IsDisk(n)
         /\ Cardinality(Candidates(n)) > MaxUsbPartitions -> "TooManyPartitions"
      [] OTHER -> "none"

\* Mutant: a node that is no whole disk is left to its parent.
DevicesOfDisk(n) ==
    IF layout[n[1]].ids = "other" \/ ~IsDisk(n) THEN {}
    ELSE IF FsType(n) # "none" THEN {n}
    ELSE SelectPartitions(Candidates(n))

DevicesFrom(n) ==
    IF layout[n[1]].ids = "other" THEN {}
    ELSE IF FsType(n) # "none" THEN {n}
    ELSE IF ~IsDisk(n) THEN {}
    ELSE SelectPartitions(Candidates(n))

-----------------------------------------------------------------------------
(* wait_for_usb_real.                                                      *)

Return(r, ds) ==
    /\ pc' = "done" /\ result' = r /\ devs' = ds
    /\ listening' = FALSE /\ queue' = <<>>
    /\ UNCHANGED <<hostVars, clock, budget, came>>

Goto(to) == pc' = to /\ UNCHANGED <<hostVars, listening, clock, result, devs, came>>

\* The order of sysfs paths, in which scan_devices yields udev's nodes.
Before(m, n) == m[1] < n[1] \/ (m[1] = n[1] /\ m[2] =< n[2])

\* Phase 1.  The first node with an error ends the search.
Enumerate ==
    /\ pc = "enumerate"
    /\ LET refused == {n \in processed : Refusal(n) # "none"}
           first == CHOOSE n \in refused : \A m \in refused : Before(n, m)
           found == UNION {DevicesFrom(n) : n \in processed}
       IN  CASE refused # {} -> Return(Refusal(first), {})
             [] refused = {} /\ found # {} -> Return("Ok", found)
             [] OTHER -> Goto("listen") /\ UNCHANGED <<queue, budget>>

\* Phase 2: from here on udev's announcements are queued.
Listen ==
    /\ pc = "listen"
    /\ pc' = "loop"
    /\ listening' = TRUE /\ clock' = 0
    /\ UNCHANGED <<hostVars, queue, budget, result, devs, came>>

\* remaining_ms, clipped to 16 bits.
PollBudget(left) == IF left > U16Max THEN U16Max ELSE left

\* The top of the loop.
CheckDeadline ==
    /\ pc = "loop"
    /\ IF clock >= Wait THEN Return("Timeout", {})
       ELSE Goto("drain") /\ budget' = PollBudget(Wait - clock) /\ UNCHANGED queue

\* One event of socket.iter(), or none left.
Drain ==
    /\ pc = "drain"
    /\ IF queue = <<>> THEN Goto("poll") /\ UNCHANGED <<queue, budget>>
       ELSE LET n == Head(queue).node
                add == Head(queue).kind = "add"
            IN  CASE add /\ Refusal(n) # "none" -> Return(Refusal(n), {})
                  [] add /\ Refusal(n) = "none" /\ DevicesFrom(n) # {} ->
                         Return("Ok", DevicesFrom(n))
                  [] OTHER -> Goto("drain") /\ queue' = Tail(queue) /\ UNCHANGED budget

\* Mutant: only an event or a signal ends the poll.
PollReturnsWoken ==
    /\ pc = "poll" /\ (queue # <<>> \/ budget > 0)
    /\ Goto("loop") /\ UNCHANGED <<queue, budget>>

\* poll(2): an event or EINTR goes back to the top, Ok(0) ends the wait.
PollReturns ==
    /\ pc = "poll"
    /\ IF queue = <<>> /\ budget = 0 THEN Return("Timeout", {})
       ELSE Goto("loop") /\ UNCHANGED <<queue, budget>>

\* Any call into udev, and poll itself, may fail.
UdevFails ==
    /\ pc \in {"enumerate", "listen", "poll"}
    /\ Return("Udev", {})

Tick ==
    /\ pc = "poll" /\ queue = <<>> /\ budget > 0
    /\ clock' = clock + 1 /\ budget' = budget - 1
    /\ UNCHANGED <<hostVars, listening, queue, pc, result, devs, came>>

Waiter == Enumerate \/ Listen \/ CheckDeadline \/ Drain \/ PollReturns

Host ==
    \/ \E d \in Disk : Plug(d) \/ Unplug(d)
    \/ \E d \in Disk : \E n \in Nodes(d) : UdevProcess(n)

Done == pc = "done" /\ UNCHANGED usbVars

UsbNext == Waiter \/ UdevFails \/ Tick \/ Host \/ Done

UsbSpec == UsbInit /\ [][UsbNext]_usbVars

\* The waiter runs, and time passes even if signals keep interrupting poll.
UsbFairSpec ==
    /\ UsbSpec
    /\ WF_usbVars(Enumerate \/ Listen \/ CheckDeadline \/ Drain)
    /\ WF_usbVars(PollReturns /\ (queue # <<>> \/ budget = 0))
    /\ SF_usbVars(Tick)

-----------------------------------------------------------------------------
(* Properties.                                                             *)

\* What wait_for_usb_real answers fits the disks.  It does not time out once a
\* usable node was announced in time: a partitioned disk is announced before
\* its partitions have been looked at, so it is their own events that make it
\* found.  And what it finds can be mounted: nodes with a file system, of a
\* disk the filter accepts.
AnswerFitsDisks ==
    /\ result = "Timeout" => came = {}
    /\ result = "Ok" => devs # {} /\ \A n \in devs : Usable(n)

\* The wait ends, whatever comes and goes meanwhile.
WaitReturns == <>(pc = "done")

=============================================================================
