---------------------------- MODULE MCRemoteCall ----------------------------
(* RemoteCall for TLC. *)
EXTENDS RemoteCall

MCCode        == [STATVFS |-> 1, READ |-> 2, WRITE |-> 3]
MCRequestLen  == [STATVFS |-> 0, READ |-> 2, WRITE |-> 1]
MCResponseLen == [STATVFS |-> 2, READ |-> 3, WRITE |-> 1]

=============================================================================
