------------------------------ MODULE Hdf5Owner ------------------------------
(***************************************************************************)
(* file_io.hdf5_owner: which handles of two HDF5 libraries a process has   *)
(* open on a path.  A claim is made before the open and released after the *)
(* close; it is refused while the other library holds the path and either  *)
(* side writes.  The token of a claim is abstracted to its owner: an owner *)
(* holds at most one claim at a time.  The alternation counters only feed  *)
(* a report and are left out.                                              *)
(***************************************************************************)
CONSTANTS Path, Owner

Mode == {"r", "a", "w"}
Stack == {"h5py", "ffi"}
Claims == [path : Path, stack : Stack, mode : Mode, owner : Owner]

VARIABLE live    \* _LIVE, as a set of claims

\* Mutant of Refused: only an incoming writer is refused.
Refused_IncomingWriter(path, stack, mode) ==
    mode # "r" /\ \E c \in live : c.path = path /\ c.stack # stack

\* _claim refuses a cross-library overlap that includes a writer.
Refused(path, stack, mode) ==
    \E c \in live : /\ c.path = path /\ c.stack # stack
                    /\ mode # "r" \/ c.mode # "r"

\* note_open on a path that is not refused.
Claim(path, stack, mode, owner) ==
    live \cup {[path |-> path, stack |-> stack, mode |-> mode, owner |-> owner]}

\* note_close, which a second call with the same token leaves without effect.
Release(owner) == {c \in live : c.owner # owner}
=============================================================================
