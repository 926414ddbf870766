------------------------- MODULE RecipeMatrixProofs -------------------------
(***************************************************************************)
(* Proofs about RecipeMatrix: the decision matrix of an update, for any    *)
(* set of file contents and any journal.                                   *)
(***************************************************************************)
EXTENDS RecipeMatrix, TLAPS

\* An input, spelled out.
LEMMA InputFields ==
  ASSUME NEW i \in Inputs
  PROVE  /\ i.old \in State /\ i.disk \in State /\ i.new \in State
         /\ i.kept \in BOOLEAN /\ (i.kept => i.old = Absent)
         /\ i.known \in PlanEntry \union {NoEntry}
BY DEF Inputs

\* Without a journal, what vaka recorded for a path is what the lock tracks there.
LEMMA UserOwnedWithoutJournal ==
  ASSUME NEW i \in Inputs, i.known = NoEntry
  PROVE  UserOwned(i.old, i.known, i.disk, i.new) <=> i.disk \notin {i.old, i.new, Absent}
BY DEF UserOwned, Owned, Recorded

\* A decision is made by who owns what the disk holds, by whether that is what the
\* release ships, and by whether it ships anything.
LEMMA ActionCases ==
  ASSUME NEW i \in Inputs
  PROVE  LET mine == UserOwned(i.old, i.known, i.disk, i.new)
             row == Decision(i)
         IN  /\ row.action = IF i.new # Absent
                             THEN IF mine THEN "none"
                                  ELSE IF i.disk = i.new THEN "track" ELSE "put"
                             ELSE IF mine \/ i.disk = Absent THEN "none" ELSE "delete"
             /\ row.tracked = (i.new # Absent /\ ~ mine)
             /\ row.accepted = AcceptedList(i.old, i.known, i.disk, i.new)
             /\ row.final = i.new
             /\ mine => i.disk \notin {i.new, Absent}
<1> DEFINE mine == UserOwned(i.old, i.known, i.disk, i.new)
<1>1. mine => i.disk \notin {i.new, Absent}
  BY DEF UserOwned, Owned
<1>2. Owned(i.old, i.known, i.disk, i.new) <=> i.disk # Absent /\ ~ mine
  BY DEF UserOwned, Owned
<1>3. ActionOf(i.old, i.known, i.disk, i.new) =
        IF i.new # Absent
        THEN IF mine THEN "none" ELSE IF i.disk = i.new THEN "track" ELSE "put"
        ELSE IF mine \/ i.disk = Absent THEN "none" ELSE "delete"
  <2> HIDE DEF mine
  <2>1. Installs(i.old, i.known, i.disk, i.new) <=> i.new # Absent /\ i.disk # i.new /\ ~ mine
    BY DEF Installs, mine
  <2>2. Removes(i.old, i.known, i.disk, i.new) <=> i.new = Absent /\ i.disk # Absent /\ ~ mine
    BY <1>2 DEF Removes
  <2> QED
    BY <1>1, <2>1, <2>2 DEF ActionOf
<1> QED
  BY <1>1, <1>3 DEF Decision, RowOf

\* How a decision deviates from the release.
LEMMA DeviationCases ==
  ASSUME NEW i \in Inputs
  PROVE  LET mine == UserOwned(i.old, i.known, i.disk, i.new)
             row == Decision(i)
         IN  /\ Refused(i) <=> mine /\ i.old # Absent /\ i.new # Absent
             /\ row.deviation =
                  IF ~ mine THEN "none"
                  ELSE IF i.new # Absent
                  THEN IF i.old = Absent THEN "skipped" ELSE "none"
                  ELSE IF i.old # Absent \/ (i.kept /\ i.known = NoEntry) THEN "kept" ELSE "none"
<1> DEFINE mine == UserOwned(i.old, i.known, i.disk, i.new)
<1>1. Refused(i) <=> mine /\ i.old # Absent /\ i.new # Absent
  BY DEF Refused, Blocks
<1>2. Decision(i).deviation = DeviationOf(i.old, i.kept, i.known, i.disk, i.new)
  BY DEF Decision, RowOf
<1>3. SkipsCollision(i.old, i.known, i.disk, i.new) <=> i.old = Absent /\ i.new # Absent /\ mine
  BY DEF SkipsCollision
<1>4. KeepsUserCopy(i.old, i.kept, i.known, i.disk, i.new)
        <=> i.new = Absent /\ mine /\ (i.old # Absent \/ (i.kept /\ i.known = NoEntry))
  BY DEF KeepsUserCopy
<1> HIDE DEF mine
<1>5. Decision(i).deviation =
        IF ~ mine THEN "none"
        ELSE IF i.new # Absent
        THEN IF i.old = Absent THEN "skipped" ELSE "none"
        ELSE IF i.old # Absent \/ (i.kept /\ i.known = NoEntry) THEN "kept" ELSE "none"
  BY <1>2, <1>3, <1>4 DEF DeviationOf
<1> QED
  BY <1>1, <1>5 DEF mine

-----------------------------------------------------------------------------
\* No input is decided otherwise than the documented matrix says.
LEMMA EveryInputAsDesigned ==
  ASSUME NEW i \in Inputs
  PROVE  AsDesigned(i)
<1> SUFFICES ASSUME i.known = NoEntry
             PROVE  AsDesigned(i)
  BY DEF AsDesigned
<1> DEFINE mine == UserOwned(i.old, i.known, i.disk, i.new)
           row == Decision(i)
<1>1. mine <=> i.disk \notin {i.old, i.new, Absent}
  BY UserOwnedWithoutJournal
<1>2. /\ row.action = IF i.new # Absent
                      THEN IF mine THEN "none"
                           ELSE IF i.disk = i.new THEN "track" ELSE "put"
                      ELSE IF mine \/ i.disk = Absent THEN "none" ELSE "delete"
      /\ row.tracked = (i.new # Absent /\ ~ mine)
  BY ActionCases
<1>3. /\ Refused(i) <=> mine /\ i.old # Absent /\ i.new # Absent
      /\ row.deviation =
           IF ~ mine THEN "none"
           ELSE IF i.new # Absent
           THEN IF i.old = Absent THEN "skipped" ELSE "none"
           ELSE IF i.old # Absent \/ (i.kept /\ i.known = NoEntry) THEN "kept" ELSE "none"
  BY DeviationCases
<1> HIDE DEF mine, row
<1> QED
  BY <1>1, <1>2, <1>3 DEF AsDesigned, row

\* The nested switches of buildPlan decide what docs/design/
\* recipes-registry.md:224-232 lists, for any contents of files.
THEOREM AlwaysMatchesDesign == Spec => []MatchesDesign
<1>1. MatchesDesign
  BY EveryInputAsDesigned DEF MatchesDesign, Undesigned
<1> QED
  BY <1>1, PTL

-----------------------------------------------------------------------------
\* What a repeated update is given is an input.
LEMMA AgainIsInput ==
  ASSUME NEW i \in Inputs
  PROVE  /\ LockAfter(i) \in State /\ PathAfter(i) \in State
         /\ PathAfter(i) = IF Decision(i).action \in {"put", "delete"} THEN i.new ELSE i.disk
         /\ LockAfter(i) = IF Decision(i).tracked THEN i.new ELSE Absent
BY InputFields, ActionCases DEF LockAfter, PathAfter, State

\* After a decision is applied and recorded, no other is made.
LEMMA EveryDecisionIsQuiet ==
  ASSUME NEW i \in Decided
  PROVE  Quiet(i)
<1> DEFINE row == Decision(i)
           j == [old |-> LockAfter(i), kept |-> row.deviation = "kept", known |-> NoEntry,
                 disk |-> PathAfter(i), new |-> i.new]
           mine == UserOwned(i.old, i.known, i.disk, i.new)
<1>1. i \in Inputs /\ ~ Refused(i)
  BY DEF Decided
<1>2. /\ row.action = IF i.new # Absent
                      THEN IF mine THEN "none"
                           ELSE IF i.disk = i.new THEN "track" ELSE "put"
                      ELSE IF mine \/ i.disk = Absent THEN "none" ELSE "delete"
      /\ row.tracked = (i.new # Absent /\ ~ mine)
      /\ mine => i.disk \notin {i.new, Absent}
  BY <1>1, ActionCases
<1>3. /\ ~ (mine /\ i.old # Absent /\ i.new # Absent)
      /\ row.deviation =
           IF ~ mine THEN "none"
           ELSE IF i.new # Absent
           THEN IF i.old = Absent THEN "skipped" ELSE "none"
           ELSE IF i.old # Absent \/ (i.kept /\ i.known = NoEntry) THEN "kept" ELSE "none"
  BY <1>1, DeviationCases
<1>4. /\ j.disk = IF row.action \in {"put", "delete"} THEN i.new ELSE i.disk
      /\ j.old = IF row.tracked THEN i.new ELSE Absent
      /\ j.disk \in State /\ j.old \in State /\ j.new \in State
  BY <1>1, InputFields, AgainIsInput
<1>5. j \in Inputs
  <2>1. row.deviation = "kept" => ~ row.tracked
    BY <1>2, <1>3
  <2> QED
    BY <1>4, <2>1 DEF Inputs
<1> DEFINE again == Decision(j)
           theirs == UserOwned(j.old, j.known, j.disk, j.new)
<1>6. theirs <=> j.disk \notin {j.old, j.new, Absent}
  BY <1>5, UserOwnedWithoutJournal
<1>7. /\ again.action = IF j.new # Absent
                        THEN IF theirs THEN "none"
                             ELSE IF j.disk = j.new THEN "track" ELSE "put"
                        ELSE IF theirs \/ j.disk = Absent THEN "none" ELSE "delete"
      /\ again.tracked = (j.new # Absent /\ ~ theirs)
  BY <1>5, ActionCases
<1>8. /\ Refused(j) <=> theirs /\ j.old # Absent /\ j.new # Absent
      /\ again.deviation =
           IF ~ theirs THEN "none"
           ELSE IF j.new # Absent
           THEN IF j.old = Absent THEN "skipped" ELSE "none"
           ELSE IF j.old # Absent \/ (j.kept /\ j.known = NoEntry) THEN "kept" ELSE "none"
  BY <1>5, DeviationCases
<1>9. j.new = i.new /\ j.kept = (row.deviation = "kept") /\ j.known = NoEntry
  OBVIOUS
<1>10. /\ Refused(j) = Blocks(LockAfter(i), NoEntry, PathAfter(i), i.new)
       /\ again = RowOf(LockAfter(i), row.deviation = "kept", NoEntry, PathAfter(i), i.new)
  BY DEF Refused, Decision
<1> HIDE DEF j, mine, theirs, row, again
<1>11. theirs <=> mine
  BY <1>2, <1>3, <1>4, <1>6, <1>9
<1>12. ~ Refused(j) /\ again.tracked = row.tracked
  BY <1>2, <1>3, <1>4, <1>7, <1>8, <1>9, <1>11
<1>13. again.action \in {"none", "track"}
  BY <1>2, <1>3, <1>4, <1>7, <1>9, <1>11
<1>14. again.deviation = row.deviation
  BY <1>2, <1>3, <1>4, <1>8, <1>9, <1>11
<1> QED
  BY <1>10, <1>12, <1>13, <1>14 DEF Quiet, row, again

\* For any contents of files and any journal: an update that is repeated once it
\* has committed touches nothing and records the same, so get has nothing to do
\* (update.go:346).
THEOREM AlwaysQuietAgain == Spec => []SecondUpdateIsQuiet
<1>1. SecondUpdateIsQuiet
  BY EveryDecisionIsQuiet DEF SecondUpdateIsQuiet, Restless
<1> QED
  BY <1>1, PTL

-----------------------------------------------------------------------------
\* What the next update owns of a path, by the journal an interrupted one wrote.
LEMMA OwnedOnResume ==
  ASSUME NEW i \in Decided, NEW found \in {i.disk, PathAfter(i)}
  PROVE  LET k == EntryOfRow(Decision(i)) IN
         UserOwned(i.old, k, found, i.new) <=> UserOwned(i.old, i.known, i.disk, i.new)
<1> DEFINE row == Decision(i)
           mine == UserOwned(i.old, i.known, i.disk, i.new)
           k == EntryOfRow(row)
<1>1. i \in Inputs /\ ~ Refused(i)
  BY DEF Decided
<1>2. /\ row.action = IF i.new # Absent
                      THEN IF mine THEN "none"
                           ELSE IF i.disk = i.new THEN "track" ELSE "put"
                      ELSE IF mine \/ i.disk = Absent THEN "none" ELSE "delete"
      /\ row.tracked = (i.new # Absent /\ ~ mine)
      /\ row.accepted = AcceptedList(i.old, i.known, i.disk, i.new)
      /\ row.final = i.new
      /\ mine => i.disk \notin {i.new, Absent}
  BY <1>1, ActionCases
<1>3. k = IF row.action = "none" /\ ~ row.tracked THEN NoEntry
          ELSE [accepted |-> row.accepted, final |-> row.final]
  BY DEF EntryOfRow
<1>4. PathAfter(i) = IF row.action \in {"put", "delete"} THEN i.new ELSE i.disk
  BY <1>1, AgainIsInput
<1>5. row.accepted \subseteq State /\ i.new \in State
  <2>1. Recorded(i.old, i.known) \subseteq State
    BY <1>1, InputFields DEF Recorded, PlanEntry
  <2> QED
    BY <1>1, <1>2, <2>1, InputFields DEF AcceptedList, State
<1>6. CASE mine
  <2>1. k = NoEntry /\ found = i.disk
    BY <1>2, <1>3, <1>4, <1>6
  <2>2. i.disk \notin ({i.old} \ {Absent}) \union {i.new} /\ i.disk # Absent
    BY <1>6 DEF UserOwned, Owned, Recorded
  <2> QED
    BY <1>6, <2>1, <2>2 DEF UserOwned, Owned, Recorded
<1>7. CASE ~ mine
  <2>1. CASE found = Absent \/ found = i.new
    BY <1>7, <2>1 DEF UserOwned, Owned
  <2>2. CASE found \notin {Absent, i.new}
    <3>1. found = i.disk /\ row.action # "none"
      BY <1>2, <1>4, <1>7, <2>2
    <3>2. k = [accepted |-> row.accepted, final |-> row.final]
      BY <1>3, <3>1
    <3>3. k # NoEntry
      BY <1>2, <1>5, <3>2, SentinelsAssumption DEF PlanEntry
    <3>4. i.disk \in Recorded(i.old, i.known)
      BY <1>7, <2>2, <3>1 DEF UserOwned, Owned
    <3>5. found \in k.accepted
      BY <1>2, <3>1, <3>2, <3>4 DEF AcceptedList
    <3>6. found \in Recorded(i.old, k)
      BY <3>3, <3>5 DEF Recorded
    <3> QED
      BY <1>7, <3>6 DEF UserOwned, Owned
  <2> QED
    BY <2>1, <2>2
<1> QED
  BY <1>6, <1>7

\* A journal is completed as it was begun, whether or not a path was applied.
LEMMA EveryDecisionResumes ==
  ASSUME NEW i \in Decided
  PROVE  Resumes(i)
<1> SUFFICES ASSUME NEW found \in {i.disk, PathAfter(i)}
             PROVE  LET row == Decision(i)
                        resumed == RowOf(i.old, i.kept, EntryOfRow(row), found, i.new)
                    IN  /\ ~ Blocks(i.old, EntryOfRow(row), found, i.new)
                        /\ resumed.tracked = row.tracked
                        /\ (IF resumed.action \in {"put", "delete"} THEN i.new ELSE found)
                             = PathAfter(i)
  BY DEF Resumes
<1> DEFINE row == Decision(i)
           k == EntryOfRow(row)
           j == [old |-> i.old, kept |-> i.kept, known |-> k, disk |-> found, new |-> i.new]
           mine == UserOwned(i.old, i.known, i.disk, i.new)
<1>1. i \in Inputs /\ ~ Refused(i)
  BY DEF Decided
<1>2. /\ row.action = IF i.new # Absent
                      THEN IF mine THEN "none"
                           ELSE IF i.disk = i.new THEN "track" ELSE "put"
                      ELSE IF mine \/ i.disk = Absent THEN "none" ELSE "delete"
      /\ row.tracked = (i.new # Absent /\ ~ mine)
      /\ row.accepted = AcceptedList(i.old, i.known, i.disk, i.new)
      /\ row.final = i.new
      /\ mine => i.disk \notin {i.new, Absent}
  BY <1>1, ActionCases
<1>3. ~ (mine /\ i.old # Absent /\ i.new # Absent)
  BY <1>1, DeviationCases
<1>4. PathAfter(i) \in State /\ PathAfter(i) = IF row.action \in {"put", "delete"} THEN i.new ELSE i.disk
  BY <1>1, AgainIsInput
<1>5. k \in PlanEntry \union {NoEntry}
  <2>1. Recorded(i.old, i.known) \subseteq State
    BY <1>1, InputFields DEF Recorded, PlanEntry
  <2>2. row.accepted \subseteq State /\ row.final \in State
    BY <1>1, <1>2, <2>1, InputFields DEF AcceptedList, State
  <2> QED
    BY <2>2 DEF EntryOfRow, PlanEntry
<1>6. j \in Inputs
  BY <1>1, <1>4, <1>5, InputFields DEF Inputs
<1> DEFINE resumed == Decision(j)
           theirs == UserOwned(j.old, j.known, j.disk, j.new)
<1>7. theirs <=> mine
  BY OwnedOnResume
<1>8. /\ resumed.action = IF j.new # Absent
                          THEN IF theirs THEN "none"
                               ELSE IF j.disk = j.new THEN "track" ELSE "put"
                          ELSE IF theirs \/ j.disk = Absent THEN "none" ELSE "delete"
      /\ resumed.tracked = (j.new # Absent /\ ~ theirs)
  BY <1>6, ActionCases
<1>9. Refused(j) <=> theirs /\ j.old # Absent /\ j.new # Absent
  BY <1>6, DeviationCases
<1>10. j.new = i.new /\ j.old = i.old /\ j.disk = found
  OBVIOUS
<1>11. /\ Refused(j) = Blocks(i.old, k, found, i.new)
       /\ resumed = RowOf(i.old, i.kept, k, found, i.new)
  BY DEF Refused, Decision
<1> HIDE DEF j, mine, theirs, row, resumed
<1>12. ~ Refused(j) /\ resumed.tracked = row.tracked
  BY <1>2, <1>3, <1>7, <1>8, <1>9, <1>10
<1>13. (IF resumed.action \in {"put", "delete"} THEN i.new ELSE found) = PathAfter(i)
  BY <1>2, <1>4, <1>7, <1>8, <1>10
<1> QED
  BY <1>11, <1>12, <1>13 DEF row, resumed, k

\* For any contents of files and any journal before it: an update that was
\* interrupted before or after a path was applied is completed by the next one to
\* the same release with the same file, the same owner and the same lock.
THEOREM ResumedUpdateAlwaysAgrees == Spec => []ResumedUpdateAgrees
<1>1. ResumedUpdateAgrees
  BY EveryDecisionResumes DEF ResumedUpdateAgrees, Disagreeing
<1> QED
  BY <1>1, PTL

=============================================================================
