------------------------------- MODULE Parcels -------------------------------
(***************************************************************************)
(* CreateParcel and UpdateParcel of service/land_parcel_service.go.  An    *)
(* update reads the row, lays the request's columns over that copy and     *)
(* writes every column back where boundary_version equals the version the  *)
(* request names, or the version read when it names none.  A creation      *)
(* looks the parcel code up and then inserts under a unique index.         *)
(***************************************************************************)
EXTENDS Integers, Sequences

CONSTANTS
  Users,        \* accounts with a role the routes admit
  ParcelIds,    \* ids the land_parcels table may hand out
  Codes,        \* parcel codes
  Values,       \* contents of a column
  Keep,         \* a column the PATCH leaves out
  Unnamed,      \* a PATCH without boundary_version
  Workers,      \* requests in flight at the same time
  NoParcel,     \* a row that does not exist
  MaxVersion,   \* bound: parcels stop changing at this version
  Ahead         \* bound: how far beyond the stored version a PATCH may name

ASSUME VersionAssumption == MaxVersion \in Nat \ {0} /\ Ahead \in Nat
ASSUME MarksAssumption  == Keep \notin Values /\ Unnamed \notin Nat

VARIABLES
  parcel,   \* land_parcels
  trail,    \* audit_logs of resource type LandParcel, per row
  job       \* what each worker holds in its local variables

rows == <<parcel, trail>>
registry == <<parcel, trail, job>>

------------------------------------------------------------------------------
\* boundary: geometry, area and coordinate system.  attributes: the rest.
Columns == {"boundary", "attributes"}
Contents == [Columns -> Values]
Patch == [Columns -> Values \cup {Keep}]

Row == [code : Codes, data : Contents, version : Nat]

ASSUME NoParcelAssumption == NoParcel \notin Row

\* An audit row: the two snapshots, and the request they came from.
Stamp(row) == [data |-> row.data, version |-> row.version]
Stamps == [data : Contents, version : Nat]
NoStamp == [data |-> << >>, version |-> 0]
Entry == [by : Users, patch : Patch, before : Stamps \cup {NoStamp}, after : Stamps]

Idle == [op |-> "idle"]
CreateJob == [op : {"create"}, by : Users, code : Codes, data : Contents]
UpdateJob == [op : {"update"}, by : Users, id : ParcelIds, patch : Patch,
              item : Row, version : Nat]

ParcelsTypeOK ==
  /\ parcel \in [ParcelIds -> Row \cup {NoParcel}]
  /\ trail \in [ParcelIds -> Seq(Entry)]
  /\ job \in [Workers -> {Idle} \cup CreateJob \cup UpdateJob]

------------------------------------------------------------------------------
\* after: the request's columns over the copy read at the start.
Overlay(data, patch) ==
  [c \in Columns |-> IF patch[c] = Keep THEN data[c] ELSE patch[c]]

\* GetByCode.
CodeTaken(code) == \E id \in ParcelIds : parcel[id] # NoParcel /\ parcel[id].code = code

\* Mutant: the index on parcel_code is not unique.
IndexAcceptsAll(code) == FALSE

\* The unique index on parcel_code.
IndexRefuses(code) == CodeTaken(code)

\* Mutant: the UPDATE is conditional on the id alone.
AtAnyVersion(id, version) == parcel[id] # NoParcel

\* The WHERE clause of LandParcelRepository.Update.
AtVersion(id, version) == parcel[id] # NoParcel /\ parcel[id].version = version

\* Mutant: an omitted column is written as the zero value.
WrittenZero(row, item, patch) ==
  [row EXCEPT !.data = patch, !.version = @ + 1]

\* The columns LandParcelRepository.Update sets: all of them, from the copy.
Written(row, item, patch) ==
  [row EXCEPT !.data = Overlay(item.data, patch), !.version = @ + 1]

Finish(w) == job' = [job EXCEPT ![w] = Idle]

------------------------------------------------------------------------------
ParcelsInit ==
  /\ parcel = [id \in ParcelIds |-> NoParcel]
  /\ trail = [id \in ParcelIds |-> << >>]
  /\ job = [w \in Workers |-> Idle]

(***************************************************************************)
(* CreateParcel: GetByCode inside the transaction, then the INSERT.  Read  *)
(* Committed lets another insert of the code commit in between.  A code    *)
(* that is found is answered with 409, and nothing has changed.            *)
(***************************************************************************)
FindCode(w, u, code, data) ==
  /\ job[w] = Idle
  /\ ~ CodeTaken(code)
  /\ job' = [job EXCEPT ![w] = [op |-> "create", by |-> u, code |-> code, data |-> data]]
  /\ UNCHANGED rows

CommitCreate(w, id) ==
  /\ job[w].op = "create"
  /\ parcel[id] = NoParcel
  /\ ~ IndexRefuses(job[w].code)
  /\ LET row == [code |-> job[w].code, data |-> job[w].data, version |-> 1] IN
       /\ parcel' = [parcel EXCEPT ![id] = row]
       /\ trail' = [trail EXCEPT ![id] =
                      <<[by |-> job[w].by, patch |-> row.data, before |-> NoStamp,
                         after |-> Stamp(row)]>>]
  /\ Finish(w)

\* The index refuses the code: wrapCadastral knows no such error, so 500.
RefuseCreate(w) ==
  /\ job[w].op = "create"
  /\ IndexRefuses(job[w].code)
  /\ Finish(w)
  /\ UNCHANGED rows

(***************************************************************************)
(* UpdateParcel: read, overlay, conditional write of all columns.          *)
(***************************************************************************)
ReadParcel(w, u, id, patch, named) ==
  /\ job[w] = Idle
  /\ parcel[id] # NoParcel
  /\ parcel[id].version < MaxVersion
  /\ named \in (1..(parcel[id].version + Ahead)) \cup {Unnamed}
  /\ job' = [job EXCEPT ![w] =
               [op |-> "update", by |-> u, id |-> id, patch |-> patch, item |-> parcel[id],
                version |-> IF named = Unnamed THEN parcel[id].version ELSE named]]
  /\ UNCHANGED rows

\* The snapshot called after still carries the version that was read.
CommitUpdate(w) ==
  /\ job[w].op = "update"
  /\ LET id == job[w].id  item == job[w].item  patch == job[w].patch IN
       /\ AtVersion(id, job[w].version)
       /\ parcel' = [parcel EXCEPT ![id] = Written(@, item, patch)]
       /\ trail' = [trail EXCEPT ![id] =
                      Append(@, [by |-> job[w].by, patch |-> patch, before |-> Stamp(item),
                                 after |-> [data |-> Overlay(item.data, patch),
                                            version |-> item.version]])]
  /\ Finish(w)

\* RowsAffected = 0: rolled back; wrapCadastral makes it a 500.
RefuseUpdate(w) ==
  /\ job[w].op = "update"
  /\ ~ AtVersion(job[w].id, job[w].version)
  /\ Finish(w)
  /\ UNCHANGED rows

\* A bad geometry ends the request, the database errs, or the process dies.
Abort(w) ==
  /\ job[w] # Idle
  /\ job' = [job EXCEPT ![w] = Idle]
  /\ UNCHANGED rows

ParcelsNext ==
  \/ \E w \in Workers, u \in Users, code \in Codes, data \in Contents :
       FindCode(w, u, code, data)
  \/ \E w \in Workers, id \in ParcelIds : CommitCreate(w, id)
  \/ \E w \in Workers : RefuseCreate(w)
  \/ \E w \in Workers, u \in Users, id \in ParcelIds, patch \in Patch,
        named \in 1..(MaxVersion + Ahead) \cup {Unnamed} :
       ReadParcel(w, u, id, patch, named)
  \/ \E w \in Workers : CommitUpdate(w)
  \/ \E w \in Workers : RefuseUpdate(w)
  \/ \E w \in Workers : Abort(w)

ParcelsSpec == ParcelsInit /\ [][ParcelsNext]_registry

------------------------------------------------------------------------------
\* No two parcels share a code, although the look-up and the insert of a
\* creation are two statements.
UniqueCodes ==
  \A i, j \in ParcelIds :
    (i # j /\ parcel[i] # NoParcel /\ parcel[j] # NoParcel) => parcel[i].code # parcel[j].code

Edits(t, c) == {i \in 1..Len(t) : t[i].patch[c] # Keep}

\* The trail of a parcel has no gap: each audit row starts from what the one
\* before it left, and the versions count the rows.
Chained(t) ==
  /\ t[1].before = NoStamp
  /\ \A i \in 2..Len(t) : t[i].before = [data |-> t[i - 1].after.data, version |-> i - 1]

\* Every column shows the last committed request that set it: an update that
\* writes a column it did not mean to change writes back what is there.  The
\* audit trail says so without a gap, and its last row shows what is stored.
EditsSurvive ==
  \A id \in ParcelIds : parcel[id] # NoParcel =>
    LET t == trail[id] IN
      /\ Chained(t)
      /\ parcel[id].data = t[Len(t)].after.data /\ parcel[id].version = Len(t)
      /\ \A c \in Columns : \E i \in Edits(t, c) :
           /\ \A j \in Edits(t, c) : j <= i
           /\ parcel[id].data[c] = t[i].patch[c]
==============================================================================
