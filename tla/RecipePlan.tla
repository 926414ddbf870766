----------------------------- MODULE RecipePlan -----------------------------
(***************************************************************************)
(* The decision matrix of a recipe update (pkg/recipe/update.go,           *)
(* buildPlan): what an update does to one path, from                       *)
(*                                                                         *)
(*   old    the state the installed lock records, Absent when untracked    *)
(*   kept   whether the lock lists the path as a kept user copy            *)
(*   known  the path's entry in a pending journal, NoEntry without one     *)
(*   disk   what the recipe directory holds now                            *)
(*   new    the state the incoming release ships, Absent when it does not  *)
(*                                                                         *)
(* An entry state is the digest of a file or the target of a symlink; only *)
(* equality of states matters, so a state is a member of Contents.         *)
(***************************************************************************)

CONSTANTS
  Contents,    \* entry states of regular files and symlinks
  Absent,      \* nothing at the path; also "untracked", "not shipped"
  Obstructed,  \* a parent directory was replaced by a file
  NoEntry      \* the journal has no plan for the path

State == Contents \union {Absent}
DirEntry == State \union {Obstructed}

PlanEntry == [accepted : SUBSET State, final : State]

ASSUME SentinelsAssumption ==
  /\ Absent \notin Contents
  /\ Obstructed \notin Contents
  /\ Absent # Obstructed
  /\ NoEntry \notin PlanEntry

Row == [action : {"none", "put", "delete", "track"},
        tracked : BOOLEAN,
        accepted : SUBSET State,
        final : State,
        deviation : {"none", "kept", "skipped"}]

-----------------------------------------------------------------------------
\* Looking below a parent that is no directory reports ENOTDIR, read as absence.
DiskState(entry) == IF entry = Obstructed THEN Absent ELSE entry

\* The states an earlier version of vaka may have left at the path.
Recorded(old, known) ==
  ({old} \ {Absent}) \union
  (IF known = NoEntry THEN {} ELSE known.accepted \union {known.final})

Owned(old, known, disk, new) ==
  /\ disk # Absent
  /\ disk \in Recorded(old, known) \union {new}

\* A present file of the user's, or what may be one.
UserOwned(old, known, disk, new) ==
  /\ disk # Absent
  /\ ~ Owned(old, known, disk, new)

Installs(old, known, disk, new) ==
  /\ new # Absent
  /\ disk # new
  /\ ~ UserOwned(old, known, disk, new)

Removes(old, known, disk, new) ==
  /\ new = Absent
  /\ Owned(old, known, disk, new)

\* Bug: a collision of an untracked file blocks too.
Blocks_Collision(old, known, disk, new) ==
  /\ new # Absent
  /\ UserOwned(old, known, disk, new)

\* The single blocking case: a modified tracked file would be replaced.
Blocks(old, known, disk, new) ==
  /\ old # Absent
  /\ new # Absent
  /\ UserOwned(old, known, disk, new)

SkipsCollision(old, known, disk, new) ==
  /\ old = Absent
  /\ new # Absent
  /\ UserOwned(old, known, disk, new)

\* Bug: a kept copy the lock already lists is forgotten.
KeepsUserCopy_Once(old, kept, known, disk, new) ==
  /\ new = Absent
  /\ UserOwned(old, known, disk, new)
  /\ old # Absent

KeepsUserCopy(old, kept, known, disk, new) ==
  /\ new = Absent
  /\ UserOwned(old, known, disk, new)
  /\ old # Absent \/ (kept /\ known = NoEntry)

\* Bug: the chain of an interrupted update is dropped.
AcceptedList_NoChain(old, known, disk, new) == ({old} \union {new}) \ {Absent}

\* Every state that may be replaced by this update or by the one that
\* recovers it, as the journal will record it.
AcceptedList(old, known, disk, new) ==
  Recorded(old, known)
    \union ({disk} \intersect {Absent})
    \union ({new} \ {Absent})

ActionOf(old, known, disk, new) ==
  IF Installs(old, known, disk, new) THEN "put"
  ELSE IF Removes(old, known, disk, new) THEN "delete"
  ELSE IF new # Absent /\ disk = new THEN "track"
  ELSE "none"

DeviationOf(old, kept, known, disk, new) ==
  IF SkipsCollision(old, known, disk, new) THEN "skipped"
  ELSE IF KeepsUserCopy(old, kept, known, disk, new) THEN "kept"
  ELSE "none"

RowOf(old, kept, known, disk, new) ==
  [action    |-> ActionOf(old, known, disk, new),
   tracked   |-> new # Absent /\ ~ UserOwned(old, known, disk, new),
   accepted  |-> AcceptedList(old, known, disk, new),
   final     |-> new,
   deviation |-> DeviationOf(old, kept, known, disk, new)]

\* The journal leaves out a row that neither touches nor tracks its path.
EntryOfRow(row) ==
  IF row.action = "none" /\ ~ row.tracked
  THEN NoEntry
  ELSE [accepted |-> row.accepted, final |-> row.final]

=============================================================================
