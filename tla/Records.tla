-------------------------------- MODULE Records --------------------------------
(***************************************************************************)
(* Append-only tables as the components of the kernel use them: a record    *)
(* has an id, and a submission that brings a retained record again is       *)
(* accepted when nothing in it changed (append_only.py, domain_records.py). *)
(***************************************************************************)
IdsOf(records) == {r.id : r \in records}

(* The retained record of an id, if there is one.                           *)
Retained(records, id) == {r \in records : r.id = id}

(* _stable_conflict: retained as it is, or a new identifier.                *)
Stable(records, record) == record \in records \/ record.id \notin IdsOf(records)
=============================================================================
