---------------------------- MODULE RecipeMatrix ----------------------------
(***************************************************************************)
(* The decision matrix over all its inputs: one path of the recipe, any    *)
(* lock, journal, directory and incoming release.  Each property says that *)
(* no input, whether or not an update here meets it, is an exception, at   *)
(* the stage of an update that relies on it.                               *)
(***************************************************************************)
EXTENDS RecipeUpdate

\* The inputs of RecipePlan.
Inputs ==
  {i \in [old : State, kept : BOOLEAN, known : PlanEntry \union {NoEntry},
          disk : State, new : State] : i.kept => i.old = Absent}

Refused(i) == Blocks(i.old, i.known, i.disk, i.new)

Decision(i) == RowOf(i.old, i.kept, i.known, i.disk, i.new)

Decided == {i \in Inputs : ~ Refused(i)}

\* What is at the path, and what the lock says of it, once a decision is applied.
PathAfter(i) ==
  LET row == Decision(i) IN IF row.action \in {"put", "delete"} THEN row.final ELSE i.disk

LockAfter(i) == LET row == Decision(i) IN IF row.tracked THEN row.final ELSE Absent

-----------------------------------------------------------------------------
AsDesigned(i) ==
  LET tracked == i.old # Absent
      shipped == i.new # Absent
      altered == i.disk \notin {i.old, i.new, Absent}
      row == Decision(i)
      touched == row.action \in {"put", "delete"}
  IN  i.known = NoEntry =>
        /\ Refused(i) <=> tracked /\ altered /\ shipped
        /\ ~ Refused(i) =>
             /\ tracked /\ i.disk = i.old /\ i.disk # i.new =>
                  row.action = IF shipped THEN "put" ELSE "delete"
             /\ tracked /\ i.disk = Absent /\ shipped => row.action = "put"
             /\ tracked /\ altered /\ ~ shipped => ~ touched /\ row.deviation = "kept"
             /\ i.disk = i.new /\ shipped => ~ touched /\ row.tracked
             /\ ~ tracked /\ i.disk # Absent /\ altered /\ shipped =>
                  ~ touched /\ ~ row.tracked /\ row.deviation = "skipped"
             /\ ~ tracked /\ i.disk # Absent /\ ~ shipped => ~ touched /\ ~ row.tracked

Undesigned == {i \in Inputs : ~ AsDesigned(i)}

\* A process about to plan decides by the matrix of docs/design/
\* recipes-registry.md:224-232, where no update was interrupted: update.go's
\* nested switches decide nothing else, for no input.
MatchesDesign == \A u \in Updaters : pc[u] = "staged" => Undesigned = {}

Quiet(i) ==
  LET row == Decision(i)
      again == RowOf(LockAfter(i), row.deviation = "kept", NoEntry, PathAfter(i), i.new)
  IN  /\ ~ Blocks(LockAfter(i), NoEntry, PathAfter(i), i.new)
      /\ again.action \in {"none", "track"}
      /\ again.tracked = row.tracked
      /\ again.deviation = row.deviation

Restless == {i \in Decided : ~ Quiet(i)}

\* Once an update has committed, whatever its input was, running it again touches
\* nothing and records the same deviation, so it is the no-op of update.go:346.
SecondUpdateIsQuiet == \A u \in Updaters : pc[u] = "committed" => Restless = {}

Resumes(i) ==
  \A found \in {i.disk, PathAfter(i)} :
    LET row == Decision(i)
        resumed == RowOf(i.old, i.kept, EntryOfRow(row), found, i.new)
    IN  /\ ~ Blocks(i.old, EntryOfRow(row), found, i.new)
        /\ resumed.tracked = row.tracked
        /\ (IF resumed.action \in {"put", "delete"} THEN i.new ELSE found) = PathAfter(i)

Disagreeing == {i \in Decided : ~ Resumes(i)}

\* While a journal lies there, the update that wrote it, killed before or after a
\* path was applied, is completed by the next one to the same release as it would
\* have been, whatever its input was: neither refused nor resolved to another
\* file, another lock or another owner.
ResumedUpdateAgrees == journal # None => Disagreeing = {}

=============================================================================
