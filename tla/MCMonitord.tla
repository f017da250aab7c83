----------------------------- MODULE MCMonitord -----------------------------
(***************************************************************************)
(* Small instances of Monitord for TLC.                                    *)
(***************************************************************************)
EXTENDS Monitord

CONSTANTS s1, s2, u1, u2, x1, l1, c1, t1, t2

Session(id, uid, serial, target) ==
    [session_id |-> id, uid |-> uid, usb_serial |-> serial, target |-> target]

Open(s) == [op |-> "SessionOpen", session |-> s]
Close(id) == [op |-> "SessionClose", id |-> id]
Update(id, l) == [op |-> "UpdateSessionTarget", id |-> id, target |-> l]
Lookup(u) == [op |-> "GetActiveSessionByUid", uid |-> u]

\* One session on one device.
DeviceRequests == {Open(Session(s1, u1, x1, NoLogind)), Close(s1)}

\* Sessions of one uid: s1 changes uid when it is reopened, and learns its
\* logind id after the fact; s2 knows it from the start.
RegistryRequests ==
    {Open(Session(s1, u1, NoSerial, NoLogind)), Open(Session(s1, u2, NoSerial, NoLogind)),
     Open(Session(s2, u1, NoSerial, l1)), Close(s1), Close(s2), Update(s1, l1),
     Lookup(u1)}

\* Two sessions opened on one device.
RemovalRequests ==
    {Open(Session(s1, u1, x1, NoLogind)), Open(Session(s2, u1, x1, NoLogind))}

=============================================================================
