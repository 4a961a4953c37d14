----------------------------- MODULE RecordStore -----------------------------
(***************************************************************************)
(* One JSON record of ops/orchestration/records.py on a file system that   *)
(* orders nothing by itself: a rename is seen at once by every reader, but *)
(* survives a loss of power for certain only when its directory was synced.*)
(* A record is what readers see now, and what they may see after a loss.   *)
(* Residue stands for NAME.publication-uncertain, the record's own path    *)
(* being absent then; writers and readers refuse it alike.                 *)
(***************************************************************************)
CONSTANT Residue

Fresh(value) == [now |-> value, maybe |-> {value}]

\* os.replace, not yet synced.
Renamed(record, value) == [now |-> value, maybe |-> record.maybe \cup {value}]

\* atomic_json returns: renamed and synced.
Published(record, value) == Fresh(value)

\* atomic_json raises: before the rename; or the sync after it failed, and the
\* residue was set aside, synced or not; or could not even be set aside.
Failed(record, value) ==
    {record, Fresh(Residue), Renamed(Renamed(record, value), Residue),
     Renamed(record, value)}

\* A record with residue is not written: refuse_uncertain raises first.
Refuses(record) == record.now = Residue

\* The records a process may leave that dies somewhere in atomic_json.
Interrupted(record, value) == {record, Renamed(record, value), Published(record, value)}
                                  \cup Failed(record, value)

AfterPowerLoss(record) == {Fresh(v) : v \in record.maybe}
=============================================================================
