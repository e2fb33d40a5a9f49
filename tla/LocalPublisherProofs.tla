-------------------------- MODULE LocalPublisherProofs --------------------------
(***************************************************************************)
(* Proofs that LocalPublisher keeps its properties for all releases and    *)
(* candidates and any number of interruptions, at any places.              *)
(*                                                                         *)
(* The properties follow from IInv, which says how the place of a run, the *)
(* pointers, the copies and the retained pointer agree with the journal.   *)
(* Each of its conjuncts has a lemma: one step of the system preserves it, *)
(* action by action, given all of them before.                             *)
(***************************************************************************)
EXTENDS LocalPublisherProperties, TLAPS

\* The states of the journal that an effect or check leads on from, with the
\* state that each of the checked ones leads to.
LEMMA PassedStates ==
    /\ DOMAIN Passed = {"RECEIVED", "VALIDATED", "SOURCE_STAGED", "ARTIFACTS_BUILT",
                        "DELTA_BUILT", "REMOTE_STAGED", "REMOTE_VERIFIED",
                        "REMOTE_ACTIVE", "API_REOPENED", "LOOPBACK_VERIFIED",
                        "PUBLIC_VERIFIED", "SOURCE_COMMITTED"}
    /\ Passed["RECEIVED"] = "VALIDATED"
    /\ Passed["VALIDATED"] = "SOURCE_STAGED"
    /\ Passed["SOURCE_STAGED"] = "ARTIFACTS_BUILT"
    /\ Passed["ARTIFACTS_BUILT"] = "DELTA_BUILT"
    /\ Passed["DELTA_BUILT"] = "REMOTE_STAGED"
    /\ Passed["REMOTE_STAGED"] = "REMOTE_VERIFIED"
    /\ Passed["REMOTE_ACTIVE"] = "API_REOPENED"
    /\ Passed["API_REOPENED"] = "LOOPBACK_VERIFIED"
BY DEF Passed

\* After install_initial_release nothing is known and nothing is wrong.
LEMMA Initially == Init => TypeOK /\ IInv
BY CandidateAssumption, DistinctAssumption, InitialAssumption, BoundAssumption,
     NoneAssumption, PassedStates
   DEF Init, TypeOK, State, Host, Place, Terminal, Active, Failed, Blocking, InFlight,
       IInv, PlaceFits, PointersFit, CopiesVerified, PreviousKept, PointersComplete,
       OneAccountsForProduction, ReportsTrue, RolledBackStaysDown

\* Whoever is not idle works on a candidate that leads somewhere.
LEMMA RunCandidate ==
    ASSUME TypeOK, at # "idle"
    PROVE  /\ cand \in Candidate
           /\ cand.base \in Release /\ cand.target \in Release
           /\ cand.base # cand.target
BY CandidateAssumption, DistinctAssumption DEF TypeOK

\* No step breaks a type.
LEMMA TypeStep ==
    ASSUME TypeOK, IInv, Next PROVE TypeOK'
<1> USE CandidateAssumption, DistinctAssumption, NoneAssumption, BoundAssumption,
     PassedStates DEF State, Host, Place, Terminal, Active, Failed, Blocking, Goto,
     End, Append, In, disk, TypeOK
<1>1. CASE Answer
  BY <1>1 DEF Answer
<1>2. CASE Resume
  BY <1>2 DEF Resume
<1>3. CASE Check
  BY <1>3 DEF Check, Checked
<1>4. CASE SavePrevious
  BY <1>4 DEF SavePrevious
<1>5. CASE Switch
  BY <1>5 DEF Switch, OpenPointer
<1>6. CASE Rename
  BY <1>6 DEF Rename, MoveProduction
<1>7. CASE Activated
  BY <1>7 DEF Activated
<1>8. CASE Smoke
  BY <1>8 DEF Smoke
<1>9. CASE CommitSource
  BY <1>9 DEF CommitSource, OpenPointer
<1>10. CASE RenameSource
  BY <1>10 DEF RenameSource
<1>11. CASE Committed
  BY <1>11 DEF Committed
<1>12. CASE SaveResult
  BY <1>12 DEF SaveResult
<1>13. CASE Succeed
  BY <1>13 DEF Succeed
<1>14. CASE Restore
  BY <1>14 DEF Restore, IInv, PreviousKept, OpenPointer
<1>15. CASE RenameBack
  BY <1>15 DEF RenameBack, IInv, PlaceFits, PreviousKept, MoveProduction
<1>16. CASE ProveRestored
  BY <1>16 DEF ProveRestored
<1>17. CASE Block
  BY <1>17 DEF Block
<1>18. CASE SaveFailure
  BY <1>18 DEF SaveFailure, IInv, PlaceFits
<1>19. CASE Interrupt
  BY <1>19 DEF Interrupt, Complete
<1>20. ASSUME NEW h \in Host, Stage(h) PROVE TypeOK'
  <2>1. journal[cand] \in {"VALIDATED", "DELTA_BUILT"} /\ at = "working"
    BY <1>20 DEF Stage, StagingState
  <2>2. journal' \in [Candidate -> State \cup {"none"}]
    BY <1>20, <2>1 DEF Stage
  <2>3. copies' \in [Host -> [Release -> {"absent", "partial", "ready"}]]
    BY <1>20, <2>1, RunCandidate DEF Stage
  <2>4. QED
    BY <1>20, <2>1, <2>2, <2>3 DEF Stage
<1>21. ASSUME NEW h \in Host, Apply(h) PROVE TypeOK'
  BY <1>21 DEF Apply
<1>22. ASSUME NEW c \in Candidate, Begin(c) PROVE TypeOK'
  BY <1>22 DEF Begin, Receive, Reopen
<1>23. QED
  BY <1>1, <1>2, <1>3, <1>4, <1>5, <1>6, <1>7, <1>8, <1>9, <1>10, <1>11, <1>12,
       <1>13, <1>14, <1>15, <1>16, <1>17, <1>18, <1>19, <1>20, <1>21, <1>22 DEF
       Next, Run, Forward, Backward

\* A run moves its place and its journal together.
LEMMA PlaceFitsStep ==
    ASSUME TypeOK, IInv, Next PROVE PlaceFits'
<1> USE CandidateAssumption, DistinctAssumption, NoneAssumption, BoundAssumption,
     PassedStates DEF State, Host, Place, Terminal, Active, Failed, Blocking, Goto,
     End, Append, In, disk, TypeOK
<1>1. CASE Answer
  BY <1>1 DEF Answer, PlaceFits
<1>2. CASE Resume
  BY <1>2 DEF Resume, IInv, PlaceFits
<1>3. CASE Check
  BY <1>3 DEF Check, PlaceFits, Checked
<1>4. CASE SavePrevious
  BY <1>4 DEF SavePrevious, PlaceFits
<1>5. CASE Switch
  BY <1>5 DEF Switch, IInv, PlaceFits, OpenPointer
<1>6. CASE Rename
  BY <1>6 DEF Rename, IInv, PlaceFits, MoveProduction
<1>7. CASE Activated
  BY <1>7 DEF Activated, PlaceFits
<1>8. CASE Smoke
  BY <1>8 DEF Smoke, PlaceFits
<1>9. CASE CommitSource
  BY <1>9 DEF CommitSource, PlaceFits, OpenPointer
<1>10. CASE RenameSource
  BY <1>10 DEF RenameSource, IInv, PlaceFits
<1>11. CASE Committed
  BY <1>11 DEF Committed, PlaceFits
<1>12. CASE SaveResult
  BY <1>12 DEF SaveResult, PlaceFits
<1>13. CASE Succeed
  BY <1>13 DEF Succeed, PlaceFits
<1>14. CASE Restore
  BY <1>14 DEF Restore, PlaceFits, OpenPointer
<1>15. CASE RenameBack
  BY <1>15 DEF RenameBack, IInv, PlaceFits, MoveProduction
<1>16. CASE ProveRestored
  BY <1>16 DEF ProveRestored, PlaceFits
<1>17. CASE Block
  BY <1>17 DEF Block, PlaceFits
<1>18. CASE SaveFailure
  BY <1>18 DEF SaveFailure, PlaceFits
<1>19. CASE Interrupt
  BY <1>19 DEF Interrupt, PlaceFits
<1>20. ASSUME NEW h \in Host, Stage(h) PROVE PlaceFits'
  BY <1>20 DEF Stage, StagingState, PlaceFits
<1>21. ASSUME NEW h \in Host, Apply(h) PROVE PlaceFits'
  BY <1>21 DEF Apply, IInv, PlaceFits
<1>22. ASSUME NEW c \in Candidate, Begin(c) PROVE PlaceFits'
  BY <1>22 DEF Begin, Receive, Reopen, PlaceFits
<1>23. QED
  BY <1>1, <1>2, <1>3, <1>4, <1>5, <1>6, <1>7, <1>8, <1>9, <1>10, <1>11, <1>12,
       <1>13, <1>14, <1>15, <1>16, <1>17, <1>18, <1>19, <1>20, <1>21, <1>22 DEF
       Next, Run, Forward, Backward

\* A run that compared the pointers with its checkpoint moves them only with it.
LEMMA PointersFitStep ==
    ASSUME TypeOK, IInv, Next PROVE PointersFit'
<1> USE CandidateAssumption, DistinctAssumption, NoneAssumption, BoundAssumption,
     PassedStates DEF State, Host, Place, Terminal, Active, Failed, Blocking, Goto,
     End, Append, In, disk, TypeOK
<1>1. CASE Answer
  BY <1>1 DEF Answer, PointersFit
<1>2. CASE Resume
  BY <1>2 DEF Resume, PointersFit, ExpectedSource, ExpectedProduction
<1>3. CASE Check
  BY <1>3 DEF Check, IInv, PointersFit, ExpectedSource, ExpectedProduction, Checked
<1>4. CASE SavePrevious
  BY <1>4 DEF SavePrevious, IInv, PointersFit, ExpectedSource, ExpectedProduction
<1>5. CASE Switch
  BY <1>5 DEF Switch, IInv, PointersFit, ExpectedSource, ExpectedProduction,
       OpenPointer
<1>6. CASE Rename
  BY <1>6 DEF Rename, IInv, PointersFit, ExpectedSource, MoveProduction
<1>7. CASE Activated
  BY <1>7 DEF Activated, IInv, PointersFit, PlaceFits, ExpectedSource,
       ExpectedProduction
<1>8. CASE Smoke
  BY <1>8 DEF Smoke, IInv, PointersFit, ExpectedSource, ExpectedProduction
<1>9. CASE CommitSource
  BY <1>9 DEF CommitSource, IInv, PointersFit, ExpectedSource, ExpectedProduction,
       OpenPointer
<1>10. CASE RenameSource
  BY <1>10 DEF RenameSource, IInv, PointersFit, ExpectedProduction
<1>11. CASE Committed
  BY <1>11 DEF Committed, IInv, PointersFit, PlaceFits, ExpectedSource,
       ExpectedProduction
<1>12. CASE SaveResult
  BY <1>12 DEF SaveResult, IInv, PointersFit, ExpectedSource, ExpectedProduction
<1>13. CASE Succeed
  BY <1>13 DEF Succeed, PointersFit
<1>14. CASE Restore
  BY <1>14 DEF Restore, IInv, PointersFit, ExpectedSource, ExpectedProduction,
       OpenPointer
<1>15. CASE RenameBack
  BY <1>15 DEF RenameBack, IInv, PointersFit, PlaceFits, PreviousKept,
       ExpectedSource, MoveProduction
<1>16. CASE ProveRestored
  BY <1>16 DEF ProveRestored, PointersFit
<1>17. CASE Block
  BY <1>17 DEF Block, PointersFit
<1>18. CASE SaveFailure
  BY <1>18 DEF SaveFailure, PointersFit
<1>19. CASE Interrupt
  BY <1>19 DEF Interrupt, PointersFit
<1>20. ASSUME NEW h \in Host, Stage(h) PROVE PointersFit'
  BY <1>20 DEF Stage, StagingState, IInv, PointersFit, ExpectedSource,
       ExpectedProduction
<1>21. ASSUME NEW h \in Host, Apply(h) PROVE PointersFit'
  BY <1>21 DEF Apply, IInv, PointersFit, ExpectedSource, ExpectedProduction
<1>22. ASSUME NEW c \in Candidate, Begin(c) PROVE PointersFit'
  BY <1>22 DEF Begin, Receive, Reopen, PointersFit
<1>23. QED
  BY <1>1, <1>2, <1>3, <1>4, <1>5, <1>6, <1>7, <1>8, <1>9, <1>10, <1>11, <1>12,
       <1>13, <1>14, <1>15, <1>16, <1>17, <1>18, <1>19, <1>20, <1>21, <1>22 DEF
       Next, Run, Forward, Backward

\* Complete copies stay, and the journal claims only what was verified.
LEMMA CopiesVerifiedStep ==
    ASSUME TypeOK, IInv, Next PROVE CopiesVerified'
<1> USE CandidateAssumption, DistinctAssumption, NoneAssumption, BoundAssumption,
     PassedStates DEF State, Host, Place, Terminal, Active, Failed, Blocking, Goto,
     End, Append, In, disk, TypeOK
<1>1. CASE Answer
  BY <1>1 DEF Answer, IInv, CopiesVerified
<1>2. CASE Resume
  BY <1>2 DEF Resume, IInv, CopiesVerified
<1>3. CASE Check
  <2>1. copies' = copies /\ \A c \in Candidate \ {cand} : journal'[c] = journal[c]
    BY <1>3 DEF Check
  <2>2. /\ cand \in Candidate /\ at = "working"
        /\ journal[cand] \in Checked /\ journal[cand] \in DOMAIN Passed
    BY <1>3 DEF Check, Checked
  <2>3. CASE ~Holds
    BY <1>3, <2>1, <2>3 DEF Check, IInv, CopiesVerified
  <2>4. CASE Holds
    <3>1. journal'[cand] = Passed[journal[cand]]
      BY <1>3, <2>2, <2>4 DEF Check
    <3>2. journal[cand] = "SOURCE_STAGED" => copies["source"][cand.target] = "ready"
      BY <2>4 DEF Holds, Verified
    <3>3. journal[cand] = "REMOTE_STAGED" => copies["production"][cand.target] = "ready"
      BY <2>4 DEF Holds, Verified
    <3>4. QED
      BY <2>1, <2>2, <3>1, <3>2, <3>3 DEF IInv, CopiesVerified, Checked
  <2>5. QED
    BY <2>3, <2>4
<1>4. CASE SavePrevious
  BY <1>4 DEF SavePrevious, IInv, CopiesVerified
<1>5. CASE Switch
  BY <1>5 DEF Switch, IInv, CopiesVerified
<1>6. CASE Rename
  BY <1>6 DEF Rename, IInv, CopiesVerified, MoveProduction
<1>7. CASE Activated
  BY <1>7 DEF Activated, IInv, CopiesVerified, PlaceFits
<1>8. CASE Smoke
  BY <1>8 DEF Smoke, IInv, CopiesVerified
<1>9. CASE CommitSource
  BY <1>9 DEF CommitSource, IInv, CopiesVerified
<1>10. CASE RenameSource
  BY <1>10 DEF RenameSource, IInv, CopiesVerified
<1>11. CASE Committed
  BY <1>11 DEF Committed, IInv, CopiesVerified, PlaceFits
<1>12. CASE SaveResult
  BY <1>12 DEF SaveResult, IInv, CopiesVerified
<1>13. CASE Succeed
  BY <1>13 DEF Succeed, IInv, CopiesVerified
<1>14. CASE Restore
  BY <1>14 DEF Restore, IInv, CopiesVerified
<1>15. CASE RenameBack
  BY <1>15 DEF RenameBack, IInv, CopiesVerified, MoveProduction
<1>16. CASE ProveRestored
  BY <1>16 DEF ProveRestored, IInv, CopiesVerified, PlaceFits
<1>17. CASE Block
  BY <1>17 DEF Block, IInv, CopiesVerified
<1>18. CASE SaveFailure
  BY <1>18 DEF SaveFailure, IInv, CopiesVerified
<1>19. CASE Interrupt
  BY <1>19 DEF Interrupt, IInv, CopiesVerified
<1>20. ASSUME NEW h \in Host, Stage(h) PROVE CopiesVerified'
  BY <1>20 DEF Stage, StagingState, IInv, CopiesVerified, PointersFit,
       ExpectedSource, ExpectedProduction, PointersComplete, Verified
<1>21. ASSUME NEW h \in Host, Apply(h) PROVE CopiesVerified'
  BY <1>21 DEF Apply, IInv, CopiesVerified
<1>22. ASSUME NEW c \in Candidate, Begin(c) PROVE CopiesVerified'
  BY <1>22 DEF Begin, Receive, Reopen, IInv, CopiesVerified
<1>23. QED
  BY <1>1, <1>2, <1>3, <1>4, <1>5, <1>6, <1>7, <1>8, <1>9, <1>10, <1>11, <1>12,
       <1>13, <1>14, <1>15, <1>16, <1>17, <1>18, <1>19, <1>20, <1>21, <1>22 DEF
       Next, Run, Forward, Backward

\* What is kept for a rollback is written before the pointer moves.
LEMMA PreviousKeptStep ==
    ASSUME TypeOK, IInv, Next PROVE PreviousKept'
<1> USE CandidateAssumption, DistinctAssumption, NoneAssumption, BoundAssumption,
     PassedStates DEF State, Host, Place, Terminal, Active, Failed, Blocking, Goto,
     End, Append, In, disk, TypeOK
<1>1. CASE Answer
  BY <1>1 DEF Answer, IInv, PreviousKept
<1>2. CASE Resume
  BY <1>2 DEF Resume, IInv, PreviousKept
<1>3. CASE Check
  BY <1>3 DEF Check, IInv, PreviousKept, Checked
<1>4. CASE SavePrevious
  BY <1>4 DEF SavePrevious, IInv, PreviousKept, PointersFit, ExpectedProduction
<1>5. CASE Switch
  BY <1>5 DEF Switch, IInv, PreviousKept, OpenPointer
<1>6. CASE Rename
  BY <1>6 DEF Rename, IInv, PreviousKept, MoveProduction
<1>7. CASE Activated
  BY <1>7 DEF Activated, IInv, PreviousKept
<1>8. CASE Smoke
  BY <1>8 DEF Smoke, IInv, PreviousKept
<1>9. CASE CommitSource
  BY <1>9 DEF CommitSource, IInv, PreviousKept, OpenPointer
<1>10. CASE RenameSource
  BY <1>10 DEF RenameSource, IInv, PreviousKept
<1>11. CASE Committed
  BY <1>11 DEF Committed, IInv, PreviousKept, PlaceFits
<1>12. CASE SaveResult
  BY <1>12 DEF SaveResult, IInv, PreviousKept
<1>13. CASE Succeed
  BY <1>13 DEF Succeed, IInv, PreviousKept
<1>14. CASE Restore
  BY <1>14 DEF Restore, IInv, PreviousKept, OpenPointer
<1>15. CASE RenameBack
  BY <1>15 DEF RenameBack, IInv, PreviousKept, MoveProduction
<1>16. CASE ProveRestored
  BY <1>16 DEF ProveRestored, IInv, PreviousKept
<1>17. CASE Block
  BY <1>17 DEF Block, IInv, PreviousKept
<1>18. CASE SaveFailure
  BY <1>18 DEF SaveFailure, IInv, PreviousKept
<1>19. CASE Interrupt
  BY <1>19 DEF Interrupt, IInv, PreviousKept
<1>20. ASSUME NEW h \in Host, Stage(h) PROVE PreviousKept'
  BY <1>20 DEF Stage, StagingState, IInv, PreviousKept
<1>21. ASSUME NEW h \in Host, Apply(h) PROVE PreviousKept'
  BY <1>21 DEF Apply, IInv, PreviousKept
<1>22. ASSUME NEW c \in Candidate, Begin(c) PROVE PreviousKept'
  BY <1>22 DEF Begin, Receive, Reopen, IInv, PreviousKept
<1>23. QED
  BY <1>1, <1>2, <1>3, <1>4, <1>5, <1>6, <1>7, <1>8, <1>9, <1>10, <1>11, <1>12,
       <1>13, <1>14, <1>15, <1>16, <1>17, <1>18, <1>19, <1>20, <1>21, <1>22 DEF
       Next, Run, Forward, Backward

\* A pointer moves only to a copy that the journal calls verified, or back.
LEMMA PointersCompleteStep ==
    ASSUME TypeOK, IInv, Next PROVE PointersComplete'
<1> USE CandidateAssumption, DistinctAssumption, NoneAssumption, BoundAssumption,
     PassedStates DEF State, Host, Place, Terminal, Active, Failed, Blocking, Goto,
     End, Append, In, disk, TypeOK
<1>1. CASE Answer
  BY <1>1 DEF Answer, IInv, PointersComplete
<1>2. CASE Resume
  BY <1>2 DEF Resume, IInv, PointersComplete
<1>3. CASE Check
  BY <1>3 DEF Check, IInv, PointersComplete
<1>4. CASE SavePrevious
  BY <1>4 DEF SavePrevious, IInv, PointersComplete
<1>5. CASE Switch
  BY <1>5 DEF Switch, IInv, PointersComplete
<1>6. CASE Rename
  BY <1>6 DEF Rename, IInv, PointersComplete, PlaceFits, CopiesVerified,
       MoveProduction
<1>7. CASE Activated
  BY <1>7 DEF Activated, IInv, PointersComplete
<1>8. CASE Smoke
  BY <1>8 DEF Smoke, IInv, PointersComplete
<1>9. CASE CommitSource
  BY <1>9 DEF CommitSource, IInv, PointersComplete
<1>10. CASE RenameSource
  BY <1>10 DEF RenameSource, IInv, PointersComplete, PlaceFits, CopiesVerified
<1>11. CASE Committed
  BY <1>11 DEF Committed, IInv, PointersComplete
<1>12. CASE SaveResult
  BY <1>12 DEF SaveResult, IInv, PointersComplete
<1>13. CASE Succeed
  BY <1>13 DEF Succeed, IInv, PointersComplete
<1>14. CASE Restore
  BY <1>14 DEF Restore, IInv, PointersComplete
<1>15. CASE RenameBack
  BY <1>15 DEF RenameBack, IInv, PointersComplete, PlaceFits, CopiesVerified,
       PreviousKept, MoveProduction
<1>16. CASE ProveRestored
  BY <1>16 DEF ProveRestored, IInv, PointersComplete
<1>17. CASE Block
  BY <1>17 DEF Block, IInv, PointersComplete
<1>18. CASE SaveFailure
  BY <1>18 DEF SaveFailure, IInv, PointersComplete
<1>19. CASE Interrupt
  BY <1>19 DEF Interrupt, IInv, PointersComplete
<1>20. ASSUME NEW h \in Host, Stage(h) PROVE PointersComplete'
  BY <1>20 DEF Stage, IInv, PointersComplete
<1>21. ASSUME NEW h \in Host, Apply(h) PROVE PointersComplete'
  BY <1>21 DEF Apply, IInv, PointersComplete
<1>22. ASSUME NEW c \in Candidate, Begin(c) PROVE PointersComplete'
  BY <1>22 DEF Begin, Receive, Reopen, IInv, PointersComplete
<1>23. QED
  BY <1>1, <1>2, <1>3, <1>4, <1>5, <1>6, <1>7, <1>8, <1>9, <1>10, <1>11, <1>12,
       <1>13, <1>14, <1>15, <1>16, <1>17, <1>18, <1>19, <1>20, <1>21, <1>22 DEF
       Next, Run, Forward, Backward

\* A step that separates the hosts, or joins them, is one of the candidate that
\* accounts for it.
LEMMA OneAccountsForProductionStep ==
    ASSUME TypeOK, IInv, Next PROVE OneAccountsForProduction'
<1> USE CandidateAssumption, DistinctAssumption, NoneAssumption, BoundAssumption,
     PassedStates DEF State, Host, Place, Terminal, Active, Failed, Blocking, Goto,
     End, Append, In, disk, TypeOK
<1>1. CASE Answer
  BY <1>1 DEF Answer, IInv, OneAccountsForProduction
<1>2. CASE Resume
  BY <1>2 DEF Resume, IInv, OneAccountsForProduction
<1>3. CASE Check
  BY <1>3 DEF Check, IInv, OneAccountsForProduction, InFlight, Checked
<1>4. CASE SavePrevious
  BY <1>4 DEF SavePrevious, IInv, OneAccountsForProduction
<1>5. CASE Switch
  BY <1>5 DEF Switch, IInv, OneAccountsForProduction
<1>6. CASE Rename
  BY <1>6 DEF Rename, IInv, OneAccountsForProduction, InFlight, PlaceFits,
       PointersFit, ExpectedSource, MoveProduction
<1>7. CASE Activated
  BY <1>7 DEF Activated, IInv, OneAccountsForProduction, InFlight
<1>8. CASE Smoke
  BY <1>8 DEF Smoke, IInv, OneAccountsForProduction, InFlight
<1>9. CASE CommitSource
  BY <1>9 DEF CommitSource, IInv, OneAccountsForProduction
<1>10. CASE RenameSource
  BY <1>10 DEF RenameSource, IInv, OneAccountsForProduction, PlaceFits, PointersFit,
       ExpectedProduction
<1>11. CASE Committed
  BY <1>11 DEF Committed, IInv, OneAccountsForProduction, PointersFit
<1>12. CASE SaveResult
  BY <1>12 DEF SaveResult, IInv, OneAccountsForProduction
<1>13. CASE Succeed
  BY <1>13 DEF Succeed, IInv, OneAccountsForProduction, PointersFit, ExpectedSource
<1>14. CASE Restore
  BY <1>14 DEF Restore, IInv, OneAccountsForProduction
<1>15. CASE RenameBack
  BY <1>15 DEF RenameBack, IInv, OneAccountsForProduction, PlaceFits, PointersFit,
       PreviousKept, ExpectedSource, MoveProduction
<1>16. CASE ProveRestored
  BY <1>16 DEF ProveRestored, IInv, OneAccountsForProduction, PointersFit
<1>17. CASE Block
  BY <1>17 DEF Block, IInv, OneAccountsForProduction, InFlight
<1>18. CASE SaveFailure
  BY <1>18 DEF SaveFailure, IInv, OneAccountsForProduction
<1>19. CASE Interrupt
  BY <1>19 DEF Interrupt, IInv, OneAccountsForProduction
<1>20. ASSUME NEW h \in Host, Stage(h) PROVE OneAccountsForProduction'
  BY <1>20 DEF Stage, StagingState, IInv, OneAccountsForProduction, PointersFit,
       ExpectedProduction
<1>21. ASSUME NEW h \in Host, Apply(h) PROVE OneAccountsForProduction'
  BY <1>21 DEF Apply, IInv, OneAccountsForProduction
<1>22. ASSUME NEW c \in Candidate, Begin(c) PROVE OneAccountsForProduction'
  BY <1>22 DEF Begin, Receive, Reopen, IInv, OneAccountsForProduction, InFlight
<1>23. QED
  BY <1>1, <1>2, <1>3, <1>4, <1>5, <1>6, <1>7, <1>8, <1>9, <1>10, <1>11, <1>12,
       <1>13, <1>14, <1>15, <1>16, <1>17, <1>18, <1>19, <1>20, <1>21, <1>22 DEF
       Next, Run, Forward, Backward

\* Results follow the journal.
LEMMA ReportsTrueStep ==
    ASSUME TypeOK, IInv, Next PROVE ReportsTrue'
<1> USE CandidateAssumption, DistinctAssumption, NoneAssumption, BoundAssumption,
     PassedStates DEF State, Host, Place, Terminal, Active, Failed, Blocking, Goto,
     End, Append, In, disk, TypeOK
<1>1. CASE Answer
  BY <1>1 DEF Answer, IInv, ReportsTrue
<1>2. CASE Resume
  BY <1>2 DEF Resume, IInv, ReportsTrue
<1>3. CASE Check
  BY <1>3 DEF Check, IInv, ReportsTrue, Checked
<1>4. CASE SavePrevious
  BY <1>4 DEF SavePrevious, IInv, ReportsTrue
<1>5. CASE Switch
  BY <1>5 DEF Switch, IInv, ReportsTrue
<1>6. CASE Rename
  BY <1>6 DEF Rename, IInv, ReportsTrue, MoveProduction
<1>7. CASE Activated
  BY <1>7 DEF Activated, IInv, ReportsTrue, PlaceFits
<1>8. CASE Smoke
  BY <1>8 DEF Smoke, IInv, ReportsTrue
<1>9. CASE CommitSource
  BY <1>9 DEF CommitSource, IInv, ReportsTrue
<1>10. CASE RenameSource
  BY <1>10 DEF RenameSource, IInv, ReportsTrue
<1>11. CASE Committed
  BY <1>11 DEF Committed, IInv, ReportsTrue, PlaceFits
<1>12. CASE SaveResult
  BY <1>12 DEF SaveResult, IInv, ReportsTrue
<1>13. CASE Succeed
  BY <1>13 DEF Succeed, IInv, ReportsTrue
<1>14. CASE Restore
  BY <1>14 DEF Restore, IInv, ReportsTrue
<1>15. CASE RenameBack
  BY <1>15 DEF RenameBack, IInv, ReportsTrue, MoveProduction
<1>16. CASE ProveRestored
  BY <1>16 DEF ProveRestored, IInv, ReportsTrue, PlaceFits
<1>17. CASE Block
  BY <1>17 DEF Block, IInv, ReportsTrue
<1>18. CASE SaveFailure
  BY <1>18 DEF SaveFailure, IInv, ReportsTrue, PlaceFits
<1>19. CASE Interrupt
  BY <1>19 DEF Interrupt, IInv, ReportsTrue
<1>20. ASSUME NEW h \in Host, Stage(h) PROVE ReportsTrue'
  BY <1>20 DEF Stage, StagingState, IInv, ReportsTrue
<1>21. ASSUME NEW h \in Host, Apply(h) PROVE ReportsTrue'
  BY <1>21 DEF Apply, IInv, ReportsTrue
<1>22. ASSUME NEW c \in Candidate, Begin(c) PROVE ReportsTrue'
  BY <1>22 DEF Begin, Receive, Reopen, IInv, ReportsTrue
<1>23. QED
  BY <1>1, <1>2, <1>3, <1>4, <1>5, <1>6, <1>7, <1>8, <1>9, <1>10, <1>11, <1>12,
       <1>13, <1>14, <1>15, <1>16, <1>17, <1>18, <1>19, <1>20, <1>21, <1>22 DEF
       Next, Run, Forward, Backward

\* Only its own run activates a release, and that one has ended.
LEMMA RolledBackStaysDownStep ==
    ASSUME TypeOK, IInv, Next PROVE RolledBackStaysDown'
<1> USE CandidateAssumption, DistinctAssumption, NoneAssumption, BoundAssumption,
     PassedStates DEF State, Host, Place, Terminal, Active, Failed, Blocking, Goto,
     End, Append, In, disk, TypeOK
<1>1. CASE Answer
  BY <1>1 DEF Answer, IInv, RolledBackStaysDown
<1>2. CASE Resume
  BY <1>2 DEF Resume, IInv, RolledBackStaysDown
<1>3. CASE Check
  BY <1>3 DEF Check, IInv, RolledBackStaysDown, Checked
<1>4. CASE SavePrevious
  BY <1>4 DEF SavePrevious, IInv, RolledBackStaysDown
<1>5. CASE Switch
  BY <1>5 DEF Switch, IInv, RolledBackStaysDown
<1>6. CASE Rename
  BY <1>6 DEF Rename, IInv, RolledBackStaysDown, PlaceFits, MoveProduction
<1>7. CASE Activated
  BY <1>7 DEF Activated, IInv, RolledBackStaysDown
<1>8. CASE Smoke
  BY <1>8 DEF Smoke, IInv, RolledBackStaysDown
<1>9. CASE CommitSource
  BY <1>9 DEF CommitSource, IInv, RolledBackStaysDown
<1>10. CASE RenameSource
  BY <1>10 DEF RenameSource, IInv, RolledBackStaysDown, PlaceFits
<1>11. CASE Committed
  BY <1>11 DEF Committed, IInv, RolledBackStaysDown
<1>12. CASE SaveResult
  BY <1>12 DEF SaveResult, IInv, RolledBackStaysDown
<1>13. CASE Succeed
  BY <1>13 DEF Succeed, IInv, RolledBackStaysDown
<1>14. CASE Restore
  BY <1>14 DEF Restore, IInv, RolledBackStaysDown
<1>15. CASE RenameBack
  BY <1>15 DEF RenameBack, IInv, RolledBackStaysDown, PlaceFits, PointersFit,
       PreviousKept, ExpectedSource, MoveProduction
<1>16. CASE ProveRestored
  BY <1>16 DEF ProveRestored, IInv, RolledBackStaysDown, PlaceFits, PointersFit,
       ExpectedSource
<1>17. CASE Block
  BY <1>17 DEF Block, IInv, RolledBackStaysDown
<1>18. CASE SaveFailure
  BY <1>18 DEF SaveFailure, IInv, RolledBackStaysDown
<1>19. CASE Interrupt
  BY <1>19 DEF Interrupt, IInv, RolledBackStaysDown
<1>20. ASSUME NEW h \in Host, Stage(h) PROVE RolledBackStaysDown'
  BY <1>20 DEF Stage, StagingState, IInv, RolledBackStaysDown
<1>21. ASSUME NEW h \in Host, Apply(h) PROVE RolledBackStaysDown'
  BY <1>21 DEF Apply, IInv, RolledBackStaysDown
<1>22. ASSUME NEW c \in Candidate, Begin(c) PROVE RolledBackStaysDown'
  BY <1>22 DEF Begin, Receive, Reopen, IInv, RolledBackStaysDown
<1>23. QED
  BY <1>1, <1>2, <1>3, <1>4, <1>5, <1>6, <1>7, <1>8, <1>9, <1>10, <1>11, <1>12,
       <1>13, <1>14, <1>15, <1>16, <1>17, <1>18, <1>19, <1>20, <1>21, <1>22 DEF
       Next, Run, Forward, Backward

\* IInv is inductive together with the types.
LEMMA InductiveStep ==
    ASSUME TypeOK, IInv, [Next]_vars
    PROVE  TypeOK' /\ IInv'
<1>1. CASE Next
  BY <1>1, TypeStep, PlaceFitsStep, PointersFitStep, CopiesVerifiedStep,
       PreviousKeptStep, PointersCompleteStep, OneAccountsForProductionStep,
       ReportsTrueStep, RolledBackStaysDownStep DEF IInv
<1>2. CASE UNCHANGED vars
  BY <1>2 DEF vars, disk, TypeOK, IInv, PlaceFits, PointersFit, CopiesVerified,
       PreviousKept, PointersComplete, OneAccountsForProduction, ReportsTrue,
       RolledBackStaysDown, ExpectedSource, ExpectedProduction
<1>3. QED
  BY <1>1, <1>2

\* In every state the place of the run, the pointers, the copies and the
\* retained pointers agree with the journal.
THEOREM Invariance == Spec => [](TypeOK /\ IInv)
<1>1. Init => TypeOK /\ IInv
  BY Initially
<1>2. TypeOK /\ IInv /\ [Next]_vars => (TypeOK /\ IInv)'
  BY InductiveStep
<1>3. QED
  BY <1>1, <1>2, PTL DEF Spec

\* Every variable keeps its type.
THEOREM TypeCorrect == Spec => []TypeOK
BY Invariance, PTL

\* Both pointers always name complete databases.
THEOREM PointersAreComplete == Spec => []PointersComplete
<1>1. IInv => PointersComplete
  BY DEF IInv
<1>2. QED
  BY <1>1, Invariance, PTL

\* When the hosts differ, one candidate in flight accounts for it.
THEOREM ProductionAccounted == Spec => []OneAccountsForProduction
<1>1. IInv => OneAccountsForProduction
  BY DEF IInv
<1>2. QED
  BY <1>1, Invariance, PTL

\* Saved results say what the journal says.
THEOREM ReportsAreTrue == Spec => []ReportsTrue
<1>1. IInv => ReportsTrue
  BY DEF IInv
<1>2. QED
  BY <1>1, Invariance, PTL

\* A rolled-back release is active nowhere.
THEOREM RolledBackIsDown == Spec => []RolledBackStaysDown
<1>1. IInv => RolledBackStaysDown
  BY DEF IInv
<1>2. QED
  BY <1>1, Invariance, PTL

\* A step that moves a pointer is a step of the abstract publisher, made for a
\* candidate that has not ended.
LEMMA PointerMoves ==
    ASSUME TypeOK, IInv, Next
    PROVE  \/ UNCHANGED <<source, production>>
           \/ /\ cand \in Candidate /\ journal[cand] \in {"REMOTE_VERIFIED", "PUBLIC_VERIFIED", Failed}
              /\ Pair!Activate(cand) \/ Pair!Commit(cand) \/ Pair!Undo(cand)
<1> USE PassedStates DEF Failed, Blocking, Active, disk, IInv, PlaceFits,
     PointersFit, Pair!Activate, Pair!Commit, Pair!Undo
<1>1. CASE Rename
  BY <1>1, RunCandidate DEF Rename, MoveProduction, ExpectedSource,
       ExpectedProduction
<1>2. CASE RenameSource
  BY <1>2, RunCandidate DEF RenameSource, ExpectedSource, ExpectedProduction
<1>3. CASE RenameBack
  BY <1>3, RunCandidate DEF RenameBack, MoveProduction, ExpectedSource,
       ExpectedProduction, PreviousKept
<1>4. CASE Answer \/ Resume \/ Check \/ SavePrevious \/ Switch \/ Activated \/ Smoke
           \/ CommitSource \/ Committed \/ SaveResult \/ Succeed
           \/ \E h \in Host : Stage(h) \/ Apply(h)
  BY <1>4 DEF Answer, Resume, Check, SavePrevious, Switch, Activated, Smoke,
       CommitSource, Committed, SaveResult, Succeed, Stage, Apply
<1>5. CASE Restore \/ ProveRestored \/ Block \/ SaveFailure \/ Interrupt
  BY <1>5 DEF Restore, ProveRestored, Block, SaveFailure, Interrupt
<1>6. CASE \E c \in Candidate : Begin(c)
  BY <1>6 DEF Begin, Receive, Reopen
<1>7. QED
  BY <1>1, <1>2, <1>3, <1>4, <1>5, <1>6 DEF Next, Run, Forward, Backward

\* A release that succeeded is only replaced by one built on it.
THEOREM SuccessIsBuiltOn == Spec => SucceededStays
<1>1. ASSUME TypeOK, IInv, [Next]_vars, NEW c \in Candidate, journal[c] = "SUCCEEDED"
      PROVE  /\ production = c.target /\ production' # production
                    => \E d \in Candidate : d.base = c.target /\ d.target = production'
             /\ source = c.target /\ source' # source
                    => \E d \in Candidate : d.base = c.target /\ d.target = source'
  <2>1. CASE UNCHANGED <<source, production>>
    BY <2>1
  <2>2. CASE ~UNCHANGED <<source, production>>
    <3>1. Next
      BY <1>1, <2>2 DEF vars, disk
    <3>2. /\ cand \in Candidate /\ cand # c
          /\ Pair!Activate(cand) \/ Pair!Commit(cand) \/ Pair!Undo(cand)
      BY <1>1, <2>2, <3>1, PointerMoves DEF Failed
    <3>3. cand.target # c.target
      BY <3>2, DistinctAssumption
    <3>4. QED
      BY <3>2, <3>3 DEF Pair!Activate, Pair!Commit, Pair!Undo
  <2>3. QED
    BY <2>1, <2>2
<1>2. TypeOK /\ IInv /\ [Next]_vars =>
        [\A c \in Candidate : journal[c] = "SUCCEEDED" =>
            /\ production = c.target /\ production' # production
                   => \E d \in Candidate : d.base = c.target /\ d.target = production'
            /\ source = c.target /\ source' # source
                   => \E d \in Candidate : d.base = c.target /\ d.target = source']_vars
  BY <1>1
<1>3. QED
  BY <1>2, Invariance, PTL DEF Spec, SucceededStays

\* The journalled publisher implements the abstract pair of releases.
THEOREM Refinement == Spec => ImplementsPair
<1>1. Init => Pair!Init
  BY DEF Init, Pair!Init
<1>2. TypeOK /\ IInv /\ [Next]_vars => [Pair!Next]_(Pair!vars)
  <2>1. CASE UNCHANGED vars
    BY <2>1 DEF vars, disk, Pair!vars
  <2>2. CASE TypeOK /\ IInv /\ Next
    BY <2>2, PointerMoves DEF Pair!Next, Pair!vars
  <2>3. QED
    BY <2>1, <2>2
<1>3. QED
  BY <1>1, <1>2, Invariance, PTL DEF Spec, Pair!Spec, ImplementsPair
=============================================================================
