------------------------------ MODULE Cadastre ------------------------------
(***************************************************************************)
(* Conflicts from the proposal they start with to the draft they end in,   *)
(* while the parcel and its neighbours change.  CreateProposal and         *)
(* DetectConflicts are added to the handlers of Conflicts; each reads      *)
(* boundaries in statements of its own, outside any transaction, and files *)
(* a version or what it computed.  Moves of proposals are those of         *)
(* Proposals, keys and repeated detections those of Detection.             *)
(***************************************************************************)
EXTENDS Conflicts

CONSTANT Unfiled  \* a conflict no detection has stored yet

ASSUME UnfiledAssumption == Unfiled \notin Nat

VARIABLES
  base,      \* base_version of the proposals, 0 before CreateProposal
  around,    \* boundary_version of the parcels around theirs
  evidence,  \* the version of the parcel a conflict was found on
  desk       \* what a worker holds that creates a proposal or detects

files == <<base, evidence>>
cadastre == <<vars, base, around, evidence, desk>>

------------------------------------------------------------------------------
Versions == 0..MaxBoundary

\* The boundaries in the input hash.  since: those there were when the request
\* came.
Input == [own : Versions, around : Versions, since : Versions \X Versions]

Desk == [op : {"propose"}, p : Proposals, base : Versions]
  \cup [op : {"own", "around", "store"}, c : ConflictIds, found : Input]

CadastreTypeOK ==
  /\ base \in [Proposals -> Versions] /\ around \in Versions
  /\ evidence \in [ConflictIds -> Versions \cup {Unfiled}]
  /\ desk \in [Workers -> Desk \cup {Idle}]
  /\ \A w \in Workers : job[w] = Idle \/ desk[w] = Idle

CadastreInit ==
  /\ Init
  /\ base = [p \in Proposals |-> 0] /\ around = 1
  /\ evidence = [c \in ConflictIds |-> Unfiled]
  /\ desk = [w \in Workers |-> Idle]

Free(w) == job[w] = Idle /\ desk[w] = Idle
At(w, op) == desk[w] # Idle /\ desk[w].op = op
Take(w, held) == desk' = [desk EXCEPT ![w] = held]

------------------------------------------------------------------------------
\* CreateProposal reads the parcel, compares req.BaseVersion with its version,
\* and inserts the draft in a transaction.
ReadBase(w, p) ==
  /\ Free(w) /\ base[p] = 0
  /\ Take(w, [op |-> "propose", p |-> p, base |-> boundaryVersion])
  /\ UNCHANGED <<vars, files, around>>

CommitProposal(w) ==
  /\ At(w, "propose") /\ base[desk[w].p] = 0
  /\ base' = [base EXCEPT ![desk[w].p] = desk[w].base]
  /\ Take(w, Idle)
  /\ UNCHANGED <<vars, around, evidence>>

\* DetectConflicts reads the proposal.
BeginDetection(w, c) ==
  /\ Free(w) /\ base[SourceOf[c]] # 0 /\ evidence[c] = Unfiled
  /\ Take(w, [op |-> "own", c |-> c,
              found |-> [own |-> 0, around |-> 0, since |-> <<boundaryVersion, around>>]])
  /\ UNCHANGED <<vars, files, around>>

\* Mutant: the parcel as it was when the proposal was drawn.
OwnAtBase(c) == base[SourceOf[c]]

\* Parcels.Get(proposal.ParcelID)
Own(c) == boundaryVersion

ReadOwn(w) ==
  /\ At(w, "own")
  /\ Take(w, [op |-> "around", c |-> desk[w].c,
              found |-> [desk[w].found EXCEPT !.own = Own(desk[w].c)]])
  /\ UNCHANGED <<vars, files, around>>

\* ListActiveByCoordinateSystem, a statement later.
ReadAround(w) ==
  /\ At(w, "around")
  /\ Take(w, [op |-> "store", c |-> desk[w].c,
              found |-> [desk[w].found EXCEPT !.around = around]])
  /\ UNCHANGED <<vars, files, around>>

StoreConflict(w) ==
  /\ At(w, "store") /\ evidence[desk[w].c] = Unfiled
  /\ evidence' = [evidence EXCEPT ![desk[w].c] = desk[w].found.own]
  /\ Take(w, Idle)
  /\ UNCHANGED <<vars, base, around>>

\* A refusal, an error of the database, or a crash.
Drop(w) ==
  /\ desk[w] # Idle
  /\ Take(w, Idle)
  /\ UNCHANGED <<vars, files, around>>

\* UpdateParcel of a neighbour.
NeighbourMoves ==
  /\ around < MaxBoundary
  /\ around' = around + 1
  /\ UNCHANGED <<vars, files, desk>>

\* A step of Conflicts, on rows that are stored and by workers that are free.
ConflictStep ==
  /\ Next
  /\ \A w \in Workers :
       job'[w] # Idle => (desk[w] = Idle /\ evidence[job'[w].c] # Unfiled)
  /\ \A p \in Proposals : base[p] = 0 => proposalVersion'[p] = proposalVersion[p]
  /\ UNCHANGED <<files, around, desk>>

CadastreNext ==
  \/ ConflictStep
  \/ \E w \in Workers, p \in Proposals : ReadBase(w, p)
  \/ \E w \in Workers : CommitProposal(w)
  \/ \E w \in Workers, c \in ConflictIds : BeginDetection(w, c)
  \/ \E w \in Workers : ReadOwn(w)
  \/ \E w \in Workers : ReadAround(w)
  \/ \E w \in Workers : StoreConflict(w)
  \/ \E w \in Workers : Drop(w)
  \/ NeighbourMoves

CadastreSpec == CadastreInit /\ [][CadastreNext]_cadastre

------------------------------------------------------------------------------
Filed == {c \in ConflictIds : evidence[c] # Unfiled}

\* A detection may mix boundaries that were never there together, as the parcel
\* and its neighbours are read in two statements; but each of them was current
\* at some time while the request ran, and none had been replaced before.
EvidenceIsRecent ==
  [][\A w \in Workers : StoreConflict(w) =>
       LET e == desk[w].found IN /\ e.own \in e.since[1]..boundaryVersion
                                 /\ e.around \in e.since[2]..around]_cadastre

\* From a proposal over a detection to the draft applied from its suggestion the
\* parcel only moves forward: the draft may name a base the suggestion was not
\* computed on, as the parcel is read again, but never one the detection already
\* knew to be replaced, nor one the parcel has not had.
LineageInOrder ==
  /\ CadastreTypeOK
  /\ \A c \in Filed :
       /\ base[SourceOf[c]] <= evidence[c]
       /\ \A i \in DOMAIN derived[c] : derived[c][i].base \in evidence[c]..boundaryVersion
==============================================================================
