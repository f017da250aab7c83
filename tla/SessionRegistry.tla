--------------------------- MODULE SessionRegistry ---------------------------
(***************************************************************************)
(* The in-memory session registry of monitord (registry.rs): `by_id`, the  *)
(* primary store, and `by_uid`, the reverse index that answers             *)
(* GetActiveSessionByUid.  Both live under one mutex and are only touched  *)
(* by the state-manager task, so each method is one atomic operator over   *)
(* the pair of maps.                                                       *)
(***************************************************************************)
EXTENDS Naturals, FiniteSets

CONSTANTS
    SessionId,   \* session UUIDs
    Uid,         \* Unix uids other than 0
    UnknownUid,  \* uid 0, the sentinel "v1 client / unknown"
    Serial,      \* USB serials
    NoSerial,    \* usb_serial = None
    LogindId,    \* logind session ids (XDG_SESSION_ID)
    NoLogind,    \* any SessionTarget without a logind id
    NoSession,   \* an id absent from by_id
    NoId         \* a uid absent from by_uid

\* The fields of ActiveSession the daemon's control flow reads.
ActiveSession ==
    [session_id : SessionId,
     uid        : Uid \cup {UnknownUid},
     usb_serial : Serial \cup {NoSerial},
     target     : LogindId \cup {NoLogind}]

ASSUME RegistryConstants ==
    /\ UnknownUid \notin Uid
    /\ NoSerial \notin Serial
    /\ NoLogind \notin LogindId
    /\ NoId \notin SessionId
    /\ NoSession \notin ActiveSession

-----------------------------------------------------------------------------

ByIdMaps == [SessionId -> ActiveSession \cup {NoSession}]

ByUidMaps == [Uid -> SessionId \cup {NoId}]

EmptyById == [id \in SessionId |-> NoSession]

EmptyByUid == [u \in Uid |-> NoId]

Tracked(by_id) == {id \in SessionId : by_id[id] # NoSession}

\* SessionRegistry::add
AddById(by_id, s) == [by_id EXCEPT ![s.session_id] = s]

\* The reverse-index entry a re-added session id leaves behind under its
\* previous uid: only there when the index still points at this id.
StaleUid(by_id, by_uid, s) ==
    {u \in Uid : /\ by_id[s.session_id] # NoSession
                 /\ by_id[s.session_id].uid = u
                 /\ u # s.uid
                 /\ by_uid[u] = s.session_id}

\* Mutant: the previous uid's entry is stranded.
AddByUidStranding(by_id, by_uid, s) ==
    [u \in Uid |-> IF u = s.uid THEN s.session_id ELSE by_uid[u]]

AddByUid(by_id, by_uid, s) ==
    [u \in Uid |-> IF u = s.uid THEN s.session_id
                   ELSE IF u \in StaleUid(by_id, by_uid, s) THEN NoId
                   ELSE by_uid[u]]

\* SessionRegistry::remove, for a set of ids at once: the index entry of a
\* removed session goes only when it points at that very session.
RemoveById(by_id, ids) ==
    [id \in SessionId |-> IF id \in ids THEN NoSession ELSE by_id[id]]

RemoveByUid(by_id, by_uid, ids) ==
    [u \in Uid |-> IF /\ by_uid[u] \in ids
                      /\ by_id[by_uid[u]] # NoSession
                      /\ by_id[by_uid[u]].uid = u
                   THEN NoId
                   ELSE by_uid[u]]

\* Mutant: every session of the uid is retargeted.
UpdateTargetOfUid(by_id, id, target) ==
    [i \in SessionId |-> IF i \in Tracked(by_id) /\ by_id[i].uid = by_id[id].uid
                         THEN [by_id[i] EXCEPT !.target = target] ELSE by_id[i]]

\* SessionRegistry::update_target on a tracked id; by_uid is not touched.
UpdateTarget(by_id, id, target) == [by_id EXCEPT ![id].target = target]

\* SessionRegistry::find_by_uid; uid 0 never matches.
FindByUid(by_id, by_uid, uid) ==
    IF uid = UnknownUid \/ by_uid[uid] = NoId THEN NoSession
    ELSE by_id[by_uid[uid]]

\* SessionRegistry::find_by_serial
FindBySerial(by_id, serial) ==
    {by_id[id] : id \in {i \in Tracked(by_id) : by_id[i].usb_serial = serial}}

\* Mutant: a session without a device is left to SessionClose.
FindByLogindOnDevice(by_id, l) ==
    {id \in Tracked(by_id) : by_id[id].target = l /\ by_id[id].usb_serial # NoSerial}

\* The ids whose target carries the given logind id (handle_logind's filter).
FindByLogind(by_id, l) ==
    {id \in Tracked(by_id) : by_id[id].target = l}

\* SessionRegistry::from_snapshot: by_uid is rebuilt in file order, and the
\* file lists by_id.values() of a HashMap, so for a uid with several sessions
\* any one of them may end up indexed.
SnapshotByUid(by_id) ==
    {by_uid \in ByUidMaps :
        \A u \in Uid :
            LET mine == {id \in Tracked(by_id) : by_id[id].uid = u}
            IN  IF mine = {} THEN by_uid[u] = NoId ELSE by_uid[u] \in mine}

-----------------------------------------------------------------------------

\* Every entry of the reverse index points at a tracked session of that uid,
\* and every tracked session is filed under its own id.
IndexAgrees(by_id, by_uid) ==
    /\ \A id \in Tracked(by_id) : by_id[id].session_id = id
    /\ \A u \in Uid : by_uid[u] # NoId =>
           /\ by_uid[u] \in Tracked(by_id)
           /\ by_id[by_uid[u]].uid = u

=============================================================================
