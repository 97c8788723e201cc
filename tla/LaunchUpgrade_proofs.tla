------------------------- MODULE LaunchUpgrade_proofs -------------------------
(***************************************************************************)
(* Proofs about both parts of MCLaunchUpgrade.  For upgrades and restores, *)
(* with any number of versions, recoveries, failures, crashes and swaps by *)
(* hand, the invariant says for each operation and each place it can be at *)
(* what its manifest says (Recorded), where the jar it started from is     *)
(* (Kept), and what a repair needs (Repairable).  For the reviews of plans *)
(* it says that a plan's id is the fingerprint of what was read, and that  *)
(* equal ids of a plan that may be booked mean equal outcomes.             *)
(***************************************************************************)
EXTENDS MCLaunchUpgrade, WellFoundedInduction, TLAPS

Mine == manifest[op.rec]

\* What the manifest of the operation's recovery says at each place.
Recorded ==
  /\ op.fn = "promote" =>
       /\ op.to \in Versions
       /\ op.at \in {"keep", "displace", "place", "record", "tidy", "commit",
                     "put_back", "clean_up"}
       /\ Mine.state = IF op.at \in {"tidy", "commit"} THEN "unused" ELSE "none"
  /\ op.fn \in Rollbacks =>
       /\ op.at \in {"check", "snapshot", "stage", "displace", "place", "record",
                     "tidy", "drop", "commit", "put_back", "clean_up"}
       /\ op.at = "check" => op.fn = "undo"
       /\ Mine.state = IF op.at \in {"tidy", "drop", "commit"} THEN "used" ELSE "unused"
  /\ op.fn = "compensate" =>
       /\ op.at \in {"check", "rebuild", "stage", "displace", "place", "record",
                     "tidy", "drop", "put_back", "clean_up"}
       /\ Mine.state = IF op.at \in {"tidy", "drop"} THEN "unused" ELSE "used"
       /\ op.at = "rebuild" => active = Mine.previous
       /\ op.at \in {"stage", "displace", "place", "record"} =>
            Rec["previous"] = Mine.previous
  /\ \A r \in Recoveries : manifest[r].state # "none" => manifest[r].from \in Versions

\* Where the jar that was in use when the operation began is at each place.
Kept ==
  /\ op = Idle => before \in OnDisk
  /\ op.fn = "promote" =>
       /\ op.at \in {"keep", "displace", "clean_up"} => active = before
       /\ op.at \in {"place", "record", "put_back"} => Rec["d"] = before
       /\ op.at \notin {"keep", "clean_up"} => Rec["previous"] = before
  /\ op.fn = "undo" =>
       /\ Rec["previous"] = before
       /\ op.at \in {"displace", "place"} => Rec["s"] = before
       /\ op.at \in {"record", "tidy", "drop"} => active = before
  /\ op.fn = "restore" =>
       /\ op.at \in {"snapshot", "stage", "displace", "clean_up"} => active = before
       /\ op.at \in {"place", "record", "put_back"} => Rec["d"] = before
       /\ op.at \notin {"snapshot", "clean_up"} => Rec["replaced"] = before
  /\ op.fn = "compensate" =>
       /\ Rec["replaced"] = before
       /\ op.at \in {"displace", "place"} => Rec["n"] = before
       /\ op.at \in {"record", "tidy", "drop"} => active = before

Inv == TypeOK /\ Recorded /\ Kept /\ UnusedHoldsItsJar

-----------------------------------------------------------------------------
\* The bounds are numbers and no recovery is NoRecovery.
LEMMA Assumed ==
  /\ MaxVersion \in Nat \ {0}
  /\ MaxFailures \in Nat /\ MaxCrashes \in Nat /\ MaxSwaps \in Nat
  /\ NoRecovery \notin Recoveries
BY LaunchAssumptions DEF LaunchAssumptions

\* An operation in progress names a recovery; Idle names none.
LEMMA InProgress ==
  ASSUME TypeOK, op.fn \in Swaps
  PROVE  /\ op \in [fn : Swaps, at : Places, rec : Recoveries, to : Jars]
         /\ op.rec \in Recoveries /\ op # Idle
         /\ files[op.rec] \in [Slots -> Jars]
         /\ Mine \in Manifests
BY DEF TypeOK, Operations, Idle, Swaps, Rollbacks, Mine

LEMMA InvInit == Init => Inv
<1> SUFFICES ASSUME Init PROVE Inv
  OBVIOUS
<1>1. TypeOK
  <2>1. active \in Jars /\ version \in Versions /\ ran \in Jars /\ before \in Versions
    BY Assumed DEF Init, Versions, Jars
  <2>2. files \in [Recoveries -> [Slots -> Jars]]
    BY DEF Init, Jars
  <2>3. manifest \in [Recoveries -> Manifests]
    BY DEF Init, Manifests, NoManifest, Jars
  <2>4. listing \in [at : {"idle", "scan", "save"}, row : Jars, found : Jars]
    BY DEF Init, NoListing, Jars
  <2>5. op \in Operations /\ disturbed \in BOOLEAN /\ alarm \in BOOLEAN
    BY Zenon DEF Init, Operations
  <2>6. /\ failures \in 0..MaxFailures /\ crashes \in 0..MaxCrashes
        /\ swaps \in 0..MaxSwaps
    BY Assumed DEF Init
  <2> QED
    BY <2>1, <2>2, <2>3, <2>4, <2>5, <2>6 DEF TypeOK
<1>2. Recorded /\ Kept /\ UnusedHoldsItsJar
  BY Assumed DEF Init, Recorded, Kept, UnusedHoldsItsJar, Idle, NoManifest,
     Rollbacks, OnDisk
<1> QED
  BY <1>1, <1>2 DEF Inv

-----------------------------------------------------------------------------
\* Every action keeps the variables well typed.
LEMMA TypeStep == Inv /\ [Next]_vars => TypeOK'
<1> SUFFICES ASSUME Inv, [Next]_vars PROVE TypeOK'
  OBVIOUS
<1> USE Assumed DEF Inv
<1>1. ASSUME NEW r \in Recoveries, NEW v \in Versions, ApplyUpgrade(r, v) PROVE TypeOK'
  BY <1>1 DEF ApplyUpgrade, TypeOK, Operations, Idle, Versions, Jars, Swaps,
     Rollbacks, Places, Mine, bounds
<1>2. ASSUME NEW r \in Recoveries, RestorePrevious(r) PROVE TypeOK'
  <2>1. op' \in Operations
    BY <1>2 DEF RestorePrevious, Operations, Swaps, Rollbacks, Places, Jars
  <2>2. before' \in Versions
    BY <1>2 DEF RestorePrevious, Restorable, Offered, TypeOK, Jars, Versions
  <2> QED
    BY <1>2, <2>1, <2>2 DEF RestorePrevious, TypeOK, bounds
<1>3. CASE Keep
  BY <1>3, InProgress DEF Keep, At, Put, Step, TypeOK, Operations, Swaps,
     Places, history, bounds
<1>4. CASE UndoBegins
  <2>1. op' \in Operations
    BY <1>4, InProgress DEF UndoBegins, At, Step, GiveUp, Operations, Swaps,
       Rollbacks, Places
  <2>2. alarm' \in BOOLEAN
    BY <1>4 DEF UndoBegins, GiveUp, TypeOK
  <2> QED
    BY <1>4, <2>1, <2>2 DEF UndoBegins, TypeOK, bounds
<1>5. CASE Snapshot
  BY <1>5, InProgress DEF Snapshot, At, Put, Step, TypeOK, Operations, Swaps,
     Places, history, bounds
<1>6. CASE CopyToStage
  BY <1>6, InProgress DEF CopyToStage, At, Put, Step, TypeOK, Operations,
     Slots, Swaps, Places, Rec, history, bounds
<1>7. CASE CompensateBegins
  <2>1. op' \in Operations
    BY <1>7, InProgress DEF CompensateBegins, At, Step, GiveUp, Operations,
       Swaps, Places
  <2>2. alarm' \in BOOLEAN
    BY <1>7 DEF CompensateBegins, GiveUp, TypeOK
  <2> QED
    BY <1>7, <2>1, <2>2 DEF CompensateBegins, TypeOK, bounds
<1>8. CASE Rebuild
  <2>1. op' \in Operations
    BY <1>8, InProgress DEF Rebuild, At, Step, GiveUp, Operations, Swaps,
       Places
  <2>2. alarm' \in BOOLEAN
    BY <1>8 DEF Rebuild, GiveUp, TypeOK
  <2>3. files' \in [Recoveries -> [Slots -> Jars]]
    BY <1>8, InProgress DEF Rebuild, Put, TypeOK
  <2> QED
    BY <1>8, <2>1, <2>2, <2>3 DEF Rebuild, TypeOK, bounds
<1>9. CASE Displace
  BY <1>9, InProgress DEF Displace, At, Put, Step, TypeOK, Operations, Idle,
     Versions, Jars, Swaps, Rollbacks, Places, Mine, history, bounds
<1>10. CASE Place
  BY <1>10, InProgress DEF Place, At, Put, Step, Stage, TypeOK, Operations,
     Idle, Versions, Jars, Slots, Swaps, Rollbacks, Places, Mine, Rec, history,
     bounds
<1>11. CASE Record
  BY SMTT(30), <1>11, InProgress DEF Record, At, Step, TypeOK, Operations, Idle,
     Manifests, Versions, Jars, Nothing, Slots, Swaps, Rollbacks, Places, Mine,
     Rec, vars, history, bounds
<1>12. CASE Tidy
  <2>1. op' \in Operations
    BY <1>12, InProgress DEF Tidy, At, Step, Operations, Places
  <2>2. files' \in [Recoveries -> [Slots -> Jars]]
    BY <1>12, InProgress DEF Tidy, At, Unlink, Put, Swaps, Rollbacks, Slots,
       Jars, TypeOK
  <2>3. failures' \in 0..MaxFailures
    BY <1>12 DEF Tidy, Unlink, TypeOK
  <2> QED
    BY <1>12, <2>1, <2>2, <2>3 DEF Tidy, TypeOK, history
<1>13. CASE Drop
  <2>1. op' \in Operations
    BY <1>13, InProgress DEF Drop, At, Step, Operations, Swaps, Places
  <2>2. files' \in [Recoveries -> [Slots -> Jars]]
    BY <1>13, InProgress DEF Drop, Unlink, Put, Swaps, Rollbacks, Jars, TypeOK
  <2>3. failures' \in 0..MaxFailures
    BY <1>13 DEF Drop, Unlink, TypeOK
  <2> QED
    BY <1>13, <2>1, <2>2, <2>3 DEF Drop, TypeOK, history
<1>14. CASE Commit
  BY <1>14, InProgress DEF Commit, At, TypeOK, Operations, Swaps, Rollbacks,
     Recorded, Mine, history, bounds
<1>15. CASE CommitFails
  <2>1. op' \in Operations
    BY <1>15, InProgress DEF CommitFails, At, Operations, Swaps, Rollbacks,
       Places
  <2>2. failures' \in 0..MaxFailures
    BY <1>15 DEF CommitFails, TypeOK
  <2> QED
    BY <1>15, <2>1, <2>2 DEF CommitFails, TypeOK, history
<1>16. CASE StepFails
  <2>1. op' \in Operations
    BY <1>16, InProgress DEF StepFails, At, Step, GiveUp, Operations, Places
  <2>2. alarm' \in BOOLEAN
    BY <1>16 DEF StepFails, GiveUp, TypeOK
  <2>3. failures' \in 0..MaxFailures
    BY <1>16 DEF StepFails, TypeOK
  <2> QED
    BY <1>16, <2>1, <2>2, <2>3 DEF StepFails, TypeOK, bounds
<1>17. CASE PutBack
  BY <1>17, InProgress DEF PutBack, At, Put, Step, Aside, TypeOK, Operations,
     Idle, Versions, Jars, Slots, Swaps, Rollbacks, Places, Mine, Rec, history,
     bounds
<1>18. CASE PutBackFails
  BY <1>18, InProgress DEF PutBackFails, GiveUp, TypeOK, Operations
<1>19. CASE CleanUp
  BY <1>19, InProgress DEF CleanUp, At, TypeOK, Operations, Idle, Versions,
     Jars, Swaps, Rollbacks, Mine
<1>20. CASE ListingLoads
  BY <1>20 DEF ListingLoads, TypeOK, Operations, Idle, Versions, Jars, Swaps,
     Rollbacks, Mine, history, bounds
<1>21. CASE ListingScans
  <2>1. Detected \in Jars
    BY DEF Detected, TypeOK
  <2>2. listing' \in [at : {"idle", "scan", "save"}, row : Jars, found : Jars]
    BY <1>21, <2>1 DEF ListingScans, TypeOK
  <2> QED
    BY <1>21, <2>1, <2>2 DEF ListingScans, TypeOK, history, bounds
<1>22. CASE ListingSaves
  <2>1. listing' \in [at : {"idle", "scan", "save"}, row : Jars, found : Jars]
    BY <1>22 DEF ListingSaves, NoListing, Jars
  <2>2. version' \in Versions
    BY <1>22 DEF ListingSaves, TypeOK, Jars
  <2>3. disturbed' \in BOOLEAN
    BY <1>22 DEF ListingSaves, TypeOK
  <2> QED
    BY <1>22, <2>1, <2>2, <2>3 DEF ListingSaves, TypeOK, bounds
<1>23. CASE ServerRuns
  BY <1>23 DEF ServerRuns, TypeOK, history, bounds
<1>24. ASSUME NEW v \in Versions, OwnerSwapsJar(v) PROVE TypeOK'
  BY <1>24 DEF OwnerSwapsJar, TypeOK, Operations, Idle, Versions, Jars, Swaps,
     Rollbacks, Mine
<1>25. CASE Crash
  BY <1>25 DEF Crash, TypeOK, Operations, Idle, Versions, Jars, Swaps,
     Rollbacks, Mine, NoListing
<1>26. CASE UNCHANGED vars
  BY <1>26 DEF vars, TypeOK, history, bounds
<1> QED
  BY <1>1, <1>2, <1>3, <1>4, <1>5, <1>6, <1>7, <1>8, <1>9, <1>10, <1>11,
     <1>12, <1>13, <1>14, <1>15, <1>16, <1>17, <1>18, <1>19, <1>20, <1>21,
     <1>22, <1>23, <1>24, <1>25, <1>26
  DEF Next, Operation, Swap, Repair, Listing

\* Every action keeps the manifest of the operation in step with its place.
LEMMA RecordedStep == Inv /\ [Next]_vars => Recorded'
<1> SUFFICES ASSUME Inv, [Next]_vars PROVE Recorded'
  OBVIOUS
<1> USE Assumed DEF Inv
<1>1. ASSUME NEW r \in Recoveries, NEW v \in Versions, ApplyUpgrade(r, v) PROVE Recorded'
  BY <1>1 DEF ApplyUpgrade, Fresh, Recorded, Mine, NoManifest, Rollbacks
<1>2. ASSUME NEW r \in Recoveries, RestorePrevious(r) PROVE Recorded'
  BY <1>2 DEF RestorePrevious, Restorable, Offered, Recorded, Mine
<1>3. CASE Keep
  BY <1>3, InProgress DEF Keep, At, Step, Recorded, Mine
<1>4. CASE UndoBegins
  BY <1>4, InProgress DEF UndoBegins, At, Step, GiveUp, Recorded, Mine, Idle,
     Rollbacks, Swaps
<1>5. CASE Snapshot
  BY <1>5, InProgress DEF Snapshot, At, Step, Recorded, Mine
<1>6. CASE CopyToStage
  BY <1>6, InProgress DEF CopyToStage, At, Put, Step, Stage, Recorded, Mine,
     Rec
<1>7. CASE CompensateBegins
  BY <1>7, InProgress DEF CompensateBegins, At, Step, GiveUp, Recorded, Mine,
     Idle, Rollbacks, Swaps
<1>8. CASE Rebuild
  <2>1. /\ op.fn = "compensate" /\ active = Mine.previous /\ Mine.state = "used"
        /\ UNCHANGED <<active, manifest>>
    BY <1>8 DEF Rebuild, At, Recorded
  <2>2. files'[op.rec]["previous"] = active
    BY <1>8, <2>1, InProgress DEF Rebuild, Put, Swaps, Slots, TypeOK
  <2>3. CASE op' = Idle
    BY <2>1, <2>3 DEF Recorded, Idle, Rollbacks
  <2>4. CASE op' = [op EXCEPT !.at = "stage"]
    <3>1. /\ op'.fn = "compensate" /\ op'.at = "stage" /\ op'.rec = op.rec
      BY <2>1, <2>4, InProgress DEF Swaps
    <3> QED
      BY <2>1, <2>2, <3>1 DEF Recorded, Mine, Rec
  <2> QED
    BY <1>8, <2>3, <2>4 DEF Rebuild, Step, GiveUp
<1>9. CASE Displace
  BY <1>9, InProgress DEF Displace, At, Put, Step, Aside, Recorded, Mine, Rec
<1>10. CASE Place
  <2>1. op.fn \in Swaps /\ op.at = "place" /\ UNCHANGED manifest
    BY <1>10 DEF Place, At
  <2>2. op' = [op EXCEPT !.at = "record"]
    BY <1>10 DEF Place, Step
  <2>3. op.fn = "compensate" => files'[op.rec]["previous"] = Rec["previous"]
    BY <1>10, <2>1, InProgress DEF Place, Put, Stage, Slots, Rec, TypeOK
  <2> QED
    BY <2>1, <2>2, <2>3, InProgress DEF Recorded, Mine, Rec
<1>11. CASE Record
  BY <1>11, InProgress DEF Record, At, Step, Recorded, Mine, Swaps, TypeOK
<1>12. CASE Tidy
  BY <1>12, InProgress DEF Tidy, At, Step, Recorded, Mine
<1>13. CASE Drop
  BY <1>13, InProgress DEF Drop, At, Step, Recorded, Mine, Idle, Rollbacks,
     Swaps
<1>14. CASE Commit
  BY <1>14, InProgress DEF Commit, Recorded, Idle, Rollbacks
<1>15. CASE CommitFails
  BY <1>15, InProgress DEF CommitFails, At, Recorded, Mine, Rollbacks
<1>16. CASE StepFails
  BY <1>16, InProgress DEF StepFails, At, Step, GiveUp, Recorded, Mine, Idle,
     Rollbacks
<1>17. CASE PutBack
  BY <1>17, InProgress DEF PutBack, At, Step, Recorded, Mine
<1>18. CASE PutBackFails
  BY <1>18, InProgress DEF PutBackFails, GiveUp, Recorded, Idle, Rollbacks
<1>19. CASE CleanUp
  BY <1>19, InProgress DEF CleanUp, Recorded, Idle, Rollbacks
<1>20. CASE ListingLoads
  BY <1>20 DEF ListingLoads, Recorded, Mine, Rec
<1>21. CASE ListingScans
  BY <1>21 DEF ListingScans, Recorded, Mine, Rec
<1>22. CASE ListingSaves
  BY <1>22 DEF ListingSaves, Recorded, Mine, Rec
<1>23. CASE ServerRuns
  BY <1>23 DEF ServerRuns, Recorded, Mine, Rec
<1>24. ASSUME NEW v \in Versions, OwnerSwapsJar(v) PROVE Recorded'
  BY <1>24 DEF OwnerSwapsJar, Recorded, Idle
<1>25. CASE Crash
  BY <1>25 DEF Crash, Recorded, Idle, Rollbacks
<1>26. CASE UNCHANGED vars
  BY <1>26 DEF vars, Recorded, Mine, Rec
<1> QED
  BY <1>1, <1>2, <1>3, <1>4, <1>5, <1>6, <1>7, <1>8, <1>9, <1>10, <1>11,
     <1>12, <1>13, <1>14, <1>15, <1>16, <1>17, <1>18, <1>19, <1>20, <1>21,
     <1>22, <1>23, <1>24, <1>25, <1>26
  DEF Next, Operation, Swap, Repair, Listing

\* Wherever an operation stands, one of its files is the jar it started from.
LEMMA BeforeSomewhere == Inv => JarInUseSurvives
<1> SUFFICES ASSUME Inv, op # Idle PROVE before \in OnDisk
  BY DEF Inv, Kept, JarInUseSurvives
<1>1. op.fn \in Swaps /\ op.rec \in Recoveries
  BY DEF Inv, TypeOK, Operations
<1>2. before \in {active, Rec["previous"], Rec["d"], Rec["replaced"]}
  BY <1>1 DEF Inv, Kept, Swaps, Rollbacks
<1> QED
  BY <1>1, <1>2 DEF OnDisk, Rec, Slots

\* Every action knows where the jar it started from is.
LEMMA KeptStep == Inv /\ [Next]_vars => Kept'
<1> SUFFICES ASSUME Inv, [Next]_vars PROVE Kept'
  OBVIOUS
<1> USE Assumed DEF Inv
<1>1. ASSUME NEW r \in Recoveries, NEW v \in Versions, ApplyUpgrade(r, v) PROVE Kept'
  BY <1>1 DEF ApplyUpgrade, Kept, OnDisk
<1>2. ASSUME NEW r \in Recoveries, RestorePrevious(r) PROVE Kept'
  BY <1>2 DEF RestorePrevious, Kept, OnDisk
<1>3. CASE Keep
  BY <1>3, InProgress DEF Keep, At, Put, Step, Kept, OnDisk, Rec, Slots,
     Swaps, TypeOK, history
<1>4. CASE UndoBegins
  BY <1>4, InProgress DEF UndoBegins, At, Step, GiveUp, Kept, OnDisk, Rec,
     Idle, Slots, Rollbacks, Swaps
<1>5. CASE Snapshot
  BY <1>5, InProgress DEF Snapshot, At, Put, Step, Kept, OnDisk, Rec, Slots,
     Rollbacks, Swaps, TypeOK, history
<1>6. CASE CopyToStage
  BY <1>6, InProgress DEF CopyToStage, At, Put, Step, Stage, Kept, OnDisk,
     Rec, Slots, Rollbacks, Swaps, TypeOK, history
<1>7. CASE CompensateBegins
  BY <1>7, InProgress DEF CompensateBegins, At, Step, GiveUp, Kept, OnDisk,
     Rec, Idle, Slots, Swaps
<1>8. CASE Rebuild
  BY <1>8, InProgress DEF Rebuild, At, Put, Step, GiveUp, Kept, OnDisk, Rec,
     Idle, Slots, Swaps
<1>9. CASE Displace
  BY <1>9, InProgress DEF Displace, At, Put, Step, Aside, Kept, OnDisk, Rec,
     Slots, Rollbacks, Swaps, TypeOK, history
<1>10. CASE Place
  BY <1>10, InProgress DEF Place, At, Put, Step, Stage, Kept, OnDisk, Rec,
     Slots, Rollbacks, Swaps, TypeOK, history
<1>11. CASE Record
  BY <1>11, InProgress DEF Record, At, Step, Kept, OnDisk, Rec, Slots,
     Rollbacks, Swaps, history
<1>12. CASE Tidy
  BY <1>12, InProgress DEF Tidy, At, Put, Step, Unlink, Aside, Kept, OnDisk,
     Rec, Slots, Rollbacks, Swaps, TypeOK, history
<1>13. CASE Drop
  BY <1>13, InProgress DEF Drop, At, Put, Step, Unlink, Kept, OnDisk, Rec,
     Idle, Slots, Rollbacks, Swaps, TypeOK, history
<1>14. CASE Commit
  BY <1>14, InProgress DEF Commit, At, Kept, OnDisk, Rec, Idle, Slots,
     Rollbacks, Swaps, history
<1>15. CASE CommitFails
  BY <1>15, InProgress DEF CommitFails, At, Kept, OnDisk, Rec, Slots,
     Rollbacks, Swaps, history
<1>16. CASE StepFails
  BY <1>16, InProgress DEF StepFails, At, Step, GiveUp, Kept, OnDisk,
     Recorded, Rec, Idle, Slots, Swaps
<1>17. CASE PutBack
  BY <1>17, InProgress DEF PutBack, At, Put, Step, Aside, Kept, OnDisk, Rec,
     Slots, Rollbacks, Swaps, history
<1>18. CASE PutBackFails
  BY <1>18, InProgress DEF PutBackFails, At, GiveUp, Kept, OnDisk, Rec, Idle,
     Slots, Rollbacks, Swaps
<1>19. CASE CleanUp
  BY <1>19, InProgress DEF CleanUp, At, Scraps, Kept, OnDisk, Rec, Idle,
     Slots, Rollbacks, Swaps
<1>20. CASE ListingLoads
  BY <1>20 DEF ListingLoads, Kept, OnDisk, Rec, history
<1>21. CASE ListingScans
  BY <1>21 DEF ListingScans, Kept, OnDisk, Rec, history
<1>22. CASE ListingSaves
  BY <1>22 DEF ListingSaves, Kept, OnDisk, Rec
<1>23. CASE ServerRuns
  BY <1>23 DEF ServerRuns, Kept, OnDisk, Rec, history
<1>24. ASSUME NEW v \in Versions, OwnerSwapsJar(v) PROVE Kept'
  BY <1>24 DEF OwnerSwapsJar, Kept, OnDisk, Idle
<1>25. CASE Crash
  <2> QED
    BY <1>25, BeforeSomewhere DEF Crash, Kept, OnDisk, Idle, JarInUseSurvives
<1>26. CASE UNCHANGED vars
  BY <1>26 DEF vars, Kept, OnDisk, Rec, history
<1> QED
  BY <1>1, <1>2, <1>3, <1>4, <1>5, <1>6, <1>7, <1>8, <1>9, <1>10, <1>11,
     <1>12, <1>13, <1>14, <1>15, <1>16, <1>17, <1>18, <1>19, <1>20, <1>21,
     <1>22, <1>23, <1>24, <1>25, <1>26
  DEF Next, Operation, Swap, Repair, Listing

\* No action takes away the jar that an unused recovery promises.
LEMMA HoldsStep == Inv /\ [Next]_vars => UnusedHoldsItsJar'
<1> SUFFICES ASSUME Inv, [Next]_vars PROVE UnusedHoldsItsJar'
  OBVIOUS
<1> USE Assumed DEF Inv
<1>1. ASSUME NEW r \in Recoveries, NEW v \in Versions, ApplyUpgrade(r, v) PROVE UnusedHoldsItsJar'
  BY <1>1 DEF ApplyUpgrade, UnusedHoldsItsJar, bounds
<1>2. ASSUME NEW r \in Recoveries, RestorePrevious(r) PROVE UnusedHoldsItsJar'
  BY <1>2 DEF RestorePrevious, Offered, UnusedHoldsItsJar
<1>3. CASE Keep
  BY <1>3, InProgress DEF Keep, At, Put, UnusedHoldsItsJar, Recorded, Mine
<1>4. CASE UndoBegins
  BY <1>4, InProgress DEF UndoBegins, GiveUp, UnusedHoldsItsJar
<1>5. CASE Snapshot
  BY <1>5, InProgress DEF Snapshot, Put, UnusedHoldsItsJar
<1>6. CASE CopyToStage
  BY <1>6, InProgress DEF CopyToStage, Put, Stage, UnusedHoldsItsJar
<1>7. CASE CompensateBegins
  BY <1>7, InProgress DEF CompensateBegins, GiveUp, UnusedHoldsItsJar
<1>8. CASE Rebuild
  BY <1>8, InProgress DEF Rebuild, At, Put, UnusedHoldsItsJar, Recorded, Mine
<1>9. CASE Displace
  BY <1>9, InProgress DEF Displace, Put, Aside, UnusedHoldsItsJar
<1>10. CASE Place
  BY <1>10, InProgress DEF Place, Put, Stage, UnusedHoldsItsJar, Slots, TypeOK
<1>11. CASE Record
  BY <1>11, InProgress DEF Record, At, UnusedHoldsItsJar, Recorded, Mine, Rec,
     Swaps
<1>12. CASE Tidy
  BY <1>12, InProgress DEF Tidy, Put, Unlink, Aside, UnusedHoldsItsJar, Mine,
     Slots, Rollbacks, TypeOK, history
<1>13. CASE Drop
  BY <1>13, InProgress DEF Drop, At, Put, Unlink, UnusedHoldsItsJar, Recorded,
     Mine, Slots, TypeOK
<1>14. CASE Commit
  BY <1>14, InProgress DEF Commit, At, UnusedHoldsItsJar
<1>15. CASE CommitFails
  BY <1>15, InProgress DEF CommitFails, At, UnusedHoldsItsJar
<1>16. CASE StepFails
  BY <1>16, InProgress DEF StepFails, GiveUp, UnusedHoldsItsJar
<1>17. CASE PutBack
  BY <1>17, InProgress DEF PutBack, Put, Aside, UnusedHoldsItsJar
<1>18. CASE PutBackFails
  BY <1>18, InProgress DEF PutBackFails, GiveUp, UnusedHoldsItsJar
<1>19. CASE CleanUp
  BY <1>19, InProgress DEF CleanUp, At, Scraps, UnusedHoldsItsJar, Recorded,
     Mine, Slots
<1>20. CASE ListingLoads
  BY <1>20 DEF ListingLoads, UnusedHoldsItsJar, bounds
<1>21. CASE ListingScans
  BY <1>21 DEF ListingScans, Detected, UnusedHoldsItsJar
<1>22. CASE ListingSaves
  BY <1>22 DEF ListingSaves, UnusedHoldsItsJar, bounds
<1>23. CASE ServerRuns
  BY <1>23 DEF ServerRuns, UnusedHoldsItsJar, bounds
<1>24. ASSUME NEW v \in Versions, OwnerSwapsJar(v) PROVE UnusedHoldsItsJar'
  BY <1>24 DEF OwnerSwapsJar, UnusedHoldsItsJar, bounds
<1>25. CASE Crash
  BY <1>25 DEF Crash, UnusedHoldsItsJar, bounds
<1>26. CASE UNCHANGED vars
  BY <1>26 DEF vars, UnusedHoldsItsJar, bounds
<1> QED
  BY <1>1, <1>2, <1>3, <1>4, <1>5, <1>6, <1>7, <1>8, <1>9, <1>10, <1>11,
     <1>12, <1>13, <1>14, <1>15, <1>16, <1>17, <1>18, <1>19, <1>20, <1>21,
     <1>22, <1>23, <1>24, <1>25, <1>26
  DEF Next, Operation, Swap, Repair, Listing

-----------------------------------------------------------------------------
LEMMA InvAlways == Spec => []Inv
<1>1. Inv /\ [Next]_vars => Inv'
  BY TypeStep, RecordedStep, KeptStep, HoldsStep DEF Inv
<1> QED
  BY InvInit, <1>1, PTL DEF Spec

\* The files, the manifests and the operation in progress are well formed.
THEOREM TypeCorrect == Spec => []TypeOK
<1>1. Inv => TypeOK
  BY DEF Inv
<1> QED
  BY InvAlways, <1>1, PTL

\* upgrade_ops.py never loses the jar that the server was using: not between two
\* renames, not in a repair that fails, not when the service is killed.
THEOREM TheJarInUseSurvives == Spec => []JarInUseSurvives
BY InvAlways, BeforeSomewhere, PTL

\* recovery.json says "unused" only while the jar it promises is there.
THEOREM RecoveriesAreHonest == Spec => []UnusedHoldsItsJar
<1>1. Inv => UnusedHoldsItsJar
  BY DEF Inv
<1> QED
  BY InvAlways, <1>1, PTL

-----------------------------------------------------------------------------
(* The version in the database.                                            *)

\* Until something else interferes, every manifest was written while version
\* and jar agreed, and the version is still that of the jar the operation began
\* with.
Agreed == ~disturbed /\ ~alarm =>
  /\ version = IF op = Idle THEN active ELSE before
  /\ \A r \in Recoveries :
       manifest[r].state # "none" => manifest[r].from = manifest[r].previous
  /\ op.fn = "promote" =>
       /\ op.at \in {"record", "tidy", "commit"} => active = op.to
  /\ op.fn = "restore" =>
       /\ op.at \in {"displace", "place"} => Rec["s"] = Mine.previous
       /\ op.at \in {"record", "tidy", "drop", "commit"} => active = Mine.previous

\* Every action keeps version and jar in step.
LEMMA AgreedStep == Inv /\ Agreed /\ [Next]_vars => Agreed'
<1> SUFFICES ASSUME Inv, Agreed, [Next]_vars PROVE Agreed'
  OBVIOUS
<1> USE Assumed DEF Inv
<1>1. ASSUME NEW r \in Recoveries, NEW v \in Versions, ApplyUpgrade(r, v) PROVE Agreed'
  BY <1>1 DEF ApplyUpgrade, Agreed, bounds
<1>2. ASSUME NEW r \in Recoveries, RestorePrevious(r) PROVE Agreed'
  BY <1>2 DEF RestorePrevious, Offered, Agreed
<1>3. CASE Keep
  BY <1>3, InProgress DEF Keep, At, Step, Agreed, Kept, history
<1>4. CASE UndoBegins
  BY <1>4, InProgress DEF UndoBegins, At, Step, GiveUp, Agreed, Idle,
     Rollbacks, Swaps
<1>5. CASE Snapshot
  BY <1>5, InProgress DEF Snapshot, At, Step, Agreed, Idle, history
<1>6. CASE CopyToStage
  <2>1. /\ op' = [op EXCEPT !.at = "displace"] /\ op.fn # "promote"
        /\ UNCHANGED <<active, manifest, version, before, disturbed, alarm>>
    BY <1>6 DEF CopyToStage, At, Step, Rollbacks, history
  <2>2. op.fn = "restore" => files'[op.rec]["s"] = Mine.previous
    BY <1>6, InProgress DEF CopyToStage, At, Put, Stage, Swaps, Slots,
       Recorded, UnusedHoldsItsJar, Mine, Rec, TypeOK
  <2>3. op'.fn = op.fn /\ op'.rec = op.rec /\ op'.at = "displace" /\ op # Idle /\ op' # Idle
    BY <1>6, <2>1, InProgress DEF CopyToStage, At, Idle
  <2> QED
    BY <2>1, <2>2, <2>3 DEF Agreed, Mine, Rec
<1>7. CASE CompensateBegins
  BY <1>7, InProgress DEF CompensateBegins, At, Step, GiveUp, Agreed, Idle,
     Swaps
<1>8. CASE Rebuild
  BY <1>8, InProgress DEF Rebuild, At, Step, GiveUp, Agreed, Idle, Swaps
<1>9. CASE Displace
  BY <1>9, InProgress DEF Displace, At, Put, Step, Aside, Agreed, Mine, Rec,
     Idle, history
<1>10. CASE Place
  BY <1>10, InProgress DEF Place, At, Step, Stage, Agreed, Mine, Idle, history
<1>11. CASE Record
  BY <1>11, InProgress DEF Record, At, Step, Agreed, Kept, Recorded, Mine,
     Idle, Swaps, history
<1>12. CASE Tidy
  BY <1>12, InProgress DEF Tidy, At, Step, Agreed, Mine, Idle, history
<1>13. CASE Drop
  BY <1>13, InProgress DEF Drop, At, Step, Agreed, Kept, Mine, Idle,
     Rollbacks, Swaps, history
<1>14. CASE Commit
  BY <1>14, InProgress DEF Commit, At, Agreed, Recorded, Mine, Idle,
     Rollbacks, Swaps, history
<1>15. CASE CommitFails
  BY <1>15, InProgress DEF CommitFails, At, Agreed, Idle, Rollbacks, Swaps,
     history
<1>16. CASE StepFails
  BY <1>16, InProgress DEF StepFails, At, Step, GiveUp, Agreed, Idle
<1>17. CASE PutBack
  BY <1>17, InProgress DEF PutBack, At, Step, Agreed, Idle, history
<1>18. CASE PutBackFails
  BY <1>18, InProgress DEF PutBackFails, GiveUp, Agreed
<1>19. CASE CleanUp
  BY <1>19, InProgress DEF CleanUp, At, Agreed, Kept, Idle, Rollbacks, Swaps
<1>20. CASE ListingLoads
  BY <1>20 DEF ListingLoads, Agreed, Mine, Rec, history
<1>21. CASE ListingScans
  BY <1>21 DEF ListingScans, Agreed, Mine, Rec, history
<1>22. CASE ListingSaves
  BY <1>22 DEF ListingSaves, Agreed, Mine, Rec
<1>23. CASE ServerRuns
  BY <1>23 DEF ServerRuns, Agreed, Mine, Rec, history
<1>24. ASSUME NEW v \in Versions, OwnerSwapsJar(v) PROVE Agreed'
  BY <1>24 DEF OwnerSwapsJar, Agreed, bounds
<1>25. CASE Crash
  BY <1>25 DEF Crash, Agreed, bounds
<1>26. CASE UNCHANGED vars
  BY <1>26 DEF vars, Agreed, Mine, Rec, history
<1> QED
  BY <1>1, <1>2, <1>3, <1>4, <1>5, <1>6, <1>7, <1>8, <1>9, <1>10, <1>11,
     <1>12, <1>13, <1>14, <1>15, <1>16, <1>17, <1>18, <1>19, <1>20, <1>21,
     <1>22, <1>23, <1>24, <1>25, <1>26
  DEF Next, Operation, Swap, Repair, Listing

\* A commit, its repair, or the failure of an earlier step: each leaves the
\* profile with the version of the jar that is in place.
THEOREM TheProfileIsRight == Spec => []VersionNamesTheJar
<1>1. Init => Agreed
  BY DEF Init, Agreed, Idle, NoManifest
<1>2. Agreed => VersionNamesTheJar
  BY DEF Agreed, VersionNamesTheJar
<1> QED
  BY InvAlways, AgreedStep, <1>1, <1>2, PTL DEF Spec

-----------------------------------------------------------------------------
(* One failure, and what is offered.                                       *)

\* What makes a repair succeed: the failures it takes to reach it, what the
\* manifest of the operation's recovery promises, and the names beside the launch
\* jar that are free.
Repairable ==
  /\ alarm => failures >= 2
  /\ op.fn \in {"undo", "compensate"} => failures >= 1
  /\ op.at \in {"put_back", "clean_up"} =>
       failures >= 1 /\ (op.fn \in {"undo", "compensate"} => failures >= 2)
  /\ failures = 0 => \A r \in Recoveries : files[r]["n"] = Nothing /\ files[r]["o"] = Nothing
  /\ op.fn = "promote" =>
       /\ Rec["replaced"] = Nothing /\ Rec["s"] = Nothing
       /\ op.at = "record" => active = op.to
       /\ op.at \in {"tidy", "commit"} => active = Mine.new /\ active # Nothing
       /\ op.at = "commit" /\ failures = 0 => Rec["d"] = Nothing
  /\ op.fn = "undo" /\ op.at = "check" /\ failures = 1 => Restorable(op.rec)
  /\ op.fn = "restore" =>
       /\ op.at = "snapshot" => active = Mine.new
       /\ op.at \notin {"snapshot", "clean_up"} => Rec["replaced"] = Mine.new
       /\ op.at \in {"displace", "place"} => Rec["s"] = Mine.previous
       /\ op.at \in {"record", "tidy", "drop", "commit"} => active = Mine.previous
       /\ op.at \in {"tidy", "drop"} => Rec["previous"] = Mine.previous
       /\ op.at = "commit" => Rec["previous"] \in {Nothing, Mine.previous}
  /\ op.fn = "compensate" =>
       /\ op.at = "check" => /\ active = Mine.previous /\ Rec["replaced"] = Mine.new
                             /\ Rec["previous"] \in {Nothing, Mine.previous}
       /\ op.at \in {"check", "rebuild"} /\ failures = 1 =>
            Rec["n"] = Nothing /\ Rec["o"] = Nothing
  /\ failures = 0 /\ crashes = 0 =>
       \A r \in Recoveries : r # op.rec /\ manifest[r].state # "used" =>
         \A s \in {"replaced", "d", "s"} : files[r][s] = Nothing

\* Every action keeps every repair possible.
LEMMA RepairableStep == Inv /\ Repairable /\ [Next]_vars => Repairable'
<1> SUFFICES ASSUME Inv, Repairable, [Next]_vars PROVE Repairable'
  OBVIOUS
<1> USE Assumed DEF Inv
<1>1. ASSUME NEW r \in Recoveries, NEW v \in Versions, ApplyUpgrade(r, v) PROVE Repairable'
  BY <1>1 DEF ApplyUpgrade, Fresh, NoManifest, Repairable, Recorded, Kept, UnusedHoldsItsJar, Restorable, Offered, Mine, Rec, Idle, Slots, Rollbacks, Swaps, TypeOK, history, bounds
<1>2. ASSUME NEW r \in Recoveries, RestorePrevious(r) PROVE Repairable'
  BY <1>2 DEF RestorePrevious, Repairable, Recorded, Kept, UnusedHoldsItsJar, Restorable, Offered, Mine, Rec, Idle, Slots, Rollbacks, Swaps, TypeOK, history, bounds
<1>3. CASE Keep
  BY <1>3, InProgress DEF Keep, At, Put, Step, Repairable, Recorded, Kept, UnusedHoldsItsJar, Restorable, Offered, Mine, Rec, Idle, Slots, Rollbacks, Swaps, TypeOK, history, bounds
<1>4. CASE UndoBegins
  BY <1>4, InProgress DEF UndoBegins, At, Step, GiveUp, Repairable, Recorded, Kept, UnusedHoldsItsJar, Restorable, Offered, Mine, Rec, Idle, Slots, Rollbacks, Swaps, TypeOK, history, bounds
<1>5. CASE Snapshot
  BY <1>5, InProgress DEF Snapshot, At, Put, Step, Repairable, Recorded, Kept, UnusedHoldsItsJar, Restorable, Offered, Mine, Rec, Idle, Slots, Rollbacks, Swaps, TypeOK, history, bounds
<1>6. CASE CopyToStage
  BY <1>6, InProgress DEF CopyToStage, At, Put, Step, Stage, Repairable, Recorded, Kept, UnusedHoldsItsJar, Restorable, Offered, Mine, Rec, Idle, Slots, Rollbacks, Swaps, TypeOK, history, bounds
<1>7. CASE CompensateBegins
  BY <1>7, InProgress DEF CompensateBegins, At, Step, GiveUp, Repairable, Recorded, Kept, UnusedHoldsItsJar, Restorable, Offered, Mine, Rec, Idle, Slots, Rollbacks, Swaps, TypeOK, history, bounds
<1>8. CASE Rebuild
  BY <1>8, InProgress DEF Rebuild, At, Put, Step, GiveUp, Repairable, Recorded, Kept, UnusedHoldsItsJar, Restorable, Offered, Mine, Rec, Idle, Slots, Rollbacks, Swaps, TypeOK, history, bounds
<1>9. CASE Displace
  BY <1>9, InProgress DEF Displace, At, Put, Step, Aside, Repairable, Recorded, Kept, UnusedHoldsItsJar, Restorable, Offered, Mine, Rec, Idle, Slots, Rollbacks, Swaps, TypeOK, history, bounds
<1>10. CASE Place
  BY <1>10, InProgress DEF Place, At, Put, Step, Stage, Repairable, Recorded, Kept, UnusedHoldsItsJar, Restorable, Offered, Mine, Rec, Idle, Slots, Rollbacks, Swaps, TypeOK, history, bounds
<1>11. CASE Record
  <2>1. /\ op.fn \in Swaps /\ op.at = "record" /\ op.rec \in Recoveries /\ Mine \in Manifests
        /\ op' = [op EXCEPT !.at = "tidy"]
        /\ UNCHANGED <<active, files, failures, crashes, alarm>>
    BY <1>11, InProgress DEF Record, At, Step, history, bounds
  <2>2. op'.fn = op.fn /\ op'.at = "tidy" /\ op'.rec = op.rec /\ op'.to = op.to
    BY <2>1, InProgress
  <2>3. /\ \A r \in Recoveries \ {op.rec} : manifest'[r] = manifest[r]
        /\ op.fn = "promote" => manifest'[op.rec].new = active
        /\ op.fn # "promote" => /\ manifest'[op.rec].new = Mine.new
                                /\ manifest'[op.rec].previous = Mine.previous
    BY <1>11, <2>1 DEF Record, Mine, Manifests, Rollbacks, Swaps, TypeOK
  <2>4. op.fn = "promote" => active # Nothing
    BY <2>1 DEF Repairable, Recorded, Versions, Nothing
  <2>5. op.fn = "restore" => Rec["previous"] = Mine.previous
    BY <2>1 DEF Recorded, Rollbacks, UnusedHoldsItsJar, Mine, Rec
  <2> QED
    BY <2>1, <2>2, <2>3, <2>4, <2>5 DEF Repairable, Rec, Mine
<1>12. CASE Tidy
  <2>1. /\ op.fn \in Swaps /\ op.at = "tidy" /\ op.rec \in Recoveries
        /\ op' = [op EXCEPT !.at = IF op.fn = "promote" THEN "commit" ELSE "drop"]
        /\ UNCHANGED <<active, manifest, crashes, alarm>>
    BY <1>12, InProgress DEF Tidy, At, Step, history, bounds
  <2>2. op'.fn = op.fn /\ op'.rec = op.rec /\ op'.to = op.to
        /\ op'.at = IF op.fn = "promote" THEN "commit" ELSE "drop"
    BY <2>1, InProgress
  <2>3. /\ failures' >= failures /\ failures' \in Nat /\ failures \in Nat
        /\ failures' = 0 => files'[op.rec][Aside] = Nothing
        /\ \A r \in Recoveries, s \in Slots : files'[r][s] \in {files[r][s], Nothing}
        /\ \A s \in Slots \ {Aside} : files'[op.rec][s] = files[op.rec][s]
        /\ \A r \in Recoveries \ {op.rec} : files'[r] = files[r]
    BY <1>12, <2>1, InProgress DEF Tidy, Unlink, Put, Aside, Slots, TypeOK
  <2>4. /\ op.fn # "compensate" => Aside = "d"
        /\ op.fn = "compensate" => Aside = "o"
    BY DEF Aside
  <2> QED
    BY <2>1, <2>2, <2>3, <2>4 DEF Repairable, Rec, Mine, Slots
<1>13. CASE Drop
  BY <1>13, InProgress DEF Drop, At, Put, Unlink, Step, Repairable, Recorded, Kept, UnusedHoldsItsJar, Restorable, Offered, Mine, Rec, Idle, Slots, Rollbacks, Swaps, TypeOK, history, bounds
<1>14. CASE Commit
  BY <1>14, InProgress DEF Commit, At, Repairable, Recorded, Kept, UnusedHoldsItsJar, Restorable, Offered, Mine, Rec, Idle, Slots, Rollbacks, Swaps, TypeOK, history, bounds
<1>15. CASE CommitFails
  <2>1. /\ op.fn \in {"promote", "restore"} /\ op.at = "commit" /\ op.rec \in Recoveries
        /\ failures \in Nat /\ failures' = failures + 1
        /\ UNCHANGED <<active, files, manifest, crashes, alarm>>
    BY <1>15, InProgress DEF CommitFails, At, TypeOK, Swaps, Rollbacks, history
  <2>2. /\ op'.fn = (IF op.fn = "promote" THEN "undo" ELSE "compensate")
        /\ op'.at = "check" /\ op'.rec = op.rec
    BY <1>15, <2>1, InProgress DEF CommitFails, Swaps, Rollbacks
  <2>3. op.fn = "promote" /\ failures = 0 => Restorable(op.rec)
    <3> SUFFICES ASSUME op.fn = "promote", failures = 0 PROVE Restorable(op.rec)
      OBVIOUS
    <3>1. /\ Mine.state = "unused" /\ active = Mine.new /\ active # Nothing
          /\ Rec["replaced"] = Nothing /\ Rec["s"] = Nothing /\ Rec["d"] = Nothing
      BY <2>1 DEF Recorded, Repairable
    <3>2. Rec["previous"] = Mine.previous /\ Rec["previous"] # Nothing
      BY <2>1, <3>1 DEF UnusedHoldsItsJar, Kept, Rec, Mine, TypeOK, Versions, Nothing
    <3> QED
      BY <3>1, <3>2 DEF Restorable, Offered, Mine, Rec
  <2>4. Restorable(op.rec)' <=> Restorable(op.rec)
    BY <2>1, <2>2 DEF Restorable, Offered
  <2>5. failures = 0 => Rec["n"] = Nothing /\ Rec["o"] = Nothing
    BY <2>1 DEF Repairable, Rec
  <2> QED
    BY <2>1, <2>2, <2>3, <2>4, <2>5 DEF Repairable, Rec, Mine
<1>16. CASE StepFails
  BY <1>16, InProgress DEF StepFails, At, Step, GiveUp, Repairable, Recorded, Kept, UnusedHoldsItsJar, Restorable, Offered, Mine, Rec, Idle, Slots, Rollbacks, Swaps, TypeOK, history, bounds
<1>17. CASE PutBack
  BY <1>17, InProgress DEF PutBack, At, Put, Step, Aside, Repairable, Recorded, Kept, UnusedHoldsItsJar, Restorable, Offered, Mine, Rec, Idle, Slots, Rollbacks, Swaps, TypeOK, history, bounds
<1>18. CASE PutBackFails
  BY <1>18, InProgress DEF PutBackFails, At, GiveUp, Repairable, Recorded, Kept, UnusedHoldsItsJar, Restorable, Offered, Mine, Rec, Idle, Slots, Rollbacks, Swaps, TypeOK, history, bounds
<1>19. CASE CleanUp
  BY <1>19, InProgress DEF CleanUp, At, Scraps, Repairable, Recorded, Kept, UnusedHoldsItsJar, Restorable, Offered, Mine, Rec, Idle, Slots, Rollbacks, Swaps, TypeOK, history, bounds
<1>20. CASE ListingLoads
  BY <1>20, InProgress DEF ListingLoads, Repairable, Recorded, Kept, UnusedHoldsItsJar, Restorable, Offered, Mine, Rec, Idle, Slots, Rollbacks, Swaps, TypeOK, history, bounds
<1>21. CASE ListingScans
  BY <1>21, InProgress DEF ListingScans, Repairable, Recorded, Kept, UnusedHoldsItsJar, Restorable, Offered, Mine, Rec, Idle, Slots, Rollbacks, Swaps, TypeOK, history, bounds
<1>22. CASE ListingSaves
  BY <1>22, InProgress DEF ListingSaves, Repairable, Recorded, Kept, UnusedHoldsItsJar, Restorable, Offered, Mine, Rec, Idle, Slots, Rollbacks, Swaps, TypeOK, history, bounds
<1>23. CASE ServerRuns
  BY <1>23, InProgress DEF ServerRuns, Repairable, Recorded, Kept, UnusedHoldsItsJar, Restorable, Offered, Mine, Rec, Idle, Slots, Rollbacks, Swaps, TypeOK, history, bounds
<1>24. ASSUME NEW v \in Versions, OwnerSwapsJar(v) PROVE Repairable'
  BY <1>24 DEF OwnerSwapsJar, Repairable, Recorded, Kept, UnusedHoldsItsJar, Restorable, Offered, Mine, Rec, Idle, Slots, Rollbacks, Swaps, TypeOK, history, bounds
<1>25. CASE Crash
  BY <1>25, InProgress DEF Crash, Repairable, Recorded, Kept, UnusedHoldsItsJar, Restorable, Offered, Mine, Rec, Idle, Slots, Rollbacks, Swaps, TypeOK, history, bounds
<1>26. CASE UNCHANGED vars
  BY <1>26 DEF vars, Repairable, Recorded, Kept, UnusedHoldsItsJar, Restorable, Offered, Mine, Rec, Idle, Slots, Rollbacks, Swaps, TypeOK, history, bounds
<1> QED
  BY <1>1, <1>2, <1>3, <1>4, <1>5, <1>6, <1>7, <1>8, <1>9, <1>10, <1>11,
     <1>12, <1>13, <1>14, <1>15, <1>16, <1>17, <1>18, <1>19, <1>20, <1>21,
     <1>22, <1>23, <1>24, <1>25, <1>26
  DEF Next, Operation, Swap, Repair, Listing


LEMMA RepairableAlways == Spec => []Repairable
<1>1. Init => Repairable
  BY Assumed DEF Init, Repairable, Idle, NoManifest, Slots, Nothing
<1> QED
  BY InvAlways, RepairableStep, <1>1, PTL DEF Spec

\* Each step of an upgrade or a restore, and its commit, is repaired if nothing
\* else fails: the owner is told to inspect the folders after two failures at least.
THEOREM OneFailureLeavesNoAlarm == Spec => []OneFailureIsRepaired
<1>1. Repairable => OneFailureIsRepaired
  BY DEF Repairable, OneFailureIsRepaired
<1> QED
  BY RepairableAlways, <1>1, PTL

\* Without failures and crashes, what list_available_launch_recoveries() offers
\* rollback_launch_upgrade() does not refuse.
THEOREM WhatIsOfferedWorks == Spec => []OfferedIsRestorable
<1>1. Repairable => OfferedIsRestorable
  BY Assumed DEF Repairable, OfferedIsRestorable, Restorable, Offered, Idle
<1> QED
  BY RepairableAlways, <1>1, PTL

-----------------------------------------------------------------------------
(* The reviews of maintenance plans (MaintenancePlan), for any evidence.   *)

\* Nonempty sets of natural numbers have a least element, bounded ones a greatest.
LEMMA Least ==
  ASSUME NEW T, T \subseteq Nat, T # {}
  PROVE  \E x \in T : \A y \in T : x <= y
<1> DEFINE R == OpToRel(<, Nat)
<1>1. IsWellFoundedOn(R, Nat)
  BY NatLessThanWellFounded
<1>2. \A x, y \in Nat : x < y => <<x, y>> \in R
  BY DEF OpToRel
<1> HIDE DEF R
<1>3. PICK x \in T : \A y \in T : ~ (<<y, x>> \in R)
  BY <1>1, WFMin
<1>4. ASSUME NEW y \in T PROVE x <= y
  <2>1. ~ (y < x)
    BY <1>2, <1>3
  <2> QED BY <2>1
<1> QED BY <1>4

LEMMA Greatest ==
  ASSUME NEW n \in Nat, NEW S, S \subseteq 1 .. n, S # {}
  PROVE  \E x \in S : \A y \in S : y <= x
<1> DEFINE T == {k \in Nat : n - k \in S}
<1>1. T \subseteq Nat /\ T # {}
  <2>1. PICK s \in S : TRUE
    OBVIOUS
  <2>2. n - s \in Nat /\ n - (n - s) = s
    BY <2>1
  <2> QED BY <2>1, <2>2
<1>2. PICK k \in T : \A j \in T : k <= j
  BY <1>1, Least
<1>3. ASSUME NEW y \in S PROVE y <= n - k
  <2>1. n - y \in Nat /\ n - (n - y) = y
    OBVIOUS
  <2>2. k <= n - y
    BY <1>2, <2>1
  <2> QED BY <2>2
<1> QED BY <1>2, <1>3

\* The newest of some releases is one of them.
LEMMA NewestIsOne ==
  ASSUME P!ConstantsOK, NEW S, S \subseteq P!Releases, S # {}
  PROVE  P!Newest(S) \in S
BY Greatest DEF P!ConstantsOK, P!Newest, P!Releases

-----------------------------------------------------------------------------
Evidence ==
  [server : {"stopped", "running", "changing", "another"},
   players : {"none", "some", "silent"}, backup : P!Points,
   room : {"plenty", "little", "none", "unmeasured"}, waiting : BOOLEAN,
   launch : {"complete", "broken", "no java", "unknown"}, warned : BOOLEAN, loadout : Loadouts,
   due : BOOLEAN, source : {"read", "unordered", "failed"}, releases : SUBSET P!Releases,
   runtime : BOOLEAN, pin : Artifacts \union {NoArtifact}, active : Artifacts \union {NoArtifact}]

\* What was asked for could be answered from the evidence.
Answerable(c, e, asked) ==
  /\ e \in Evidence
  /\ asked # P!NoRelease => c = "server_upgrade" /\ e.source = "read" /\ asked \in e.releases

\* What two reviews of a change agree in if they have the same id.
Agree(c, seen, read) ==
  /\ P!Usable(read) /\ seen.server = read.server /\ seen.loadout = read.loadout
  /\ P!Protected(seen) = P!Protected(read)
  /\ IF seen.backup = NoBackup THEN read.backup = NoBackup
     ELSE /\ read.backup # NoBackup /\ read.backup.id = seen.backup.id
          /\ read.backup.whole = seen.backup.whole
  /\ c \in P!Risky => seen.room # "none" /\ read.room # "none"
  /\ c \in P!VersionChanging => read.launch # "broken"
  /\ c = "server_upgrade" => P!Installable(read) /\ read.pin = seen.pin /\ read.active = seen.active

\* A fingerprint with a plan that may be booked tells every outcome.
LEMMA BookableIsUnblocked ==
  ASSUME NEW c, NEW e, P!Bookable(c, e)
  PROVE  /\ P!StateFinding(c, e) # "blocked" /\ P!DiskFinding(c, e) # "blocked"
         /\ P!UpgradeFinding(c, e) # "blocked" /\ P!CompatibilityFinding(c, e) # "blocked"
<1>1. "blocked" \notin P!Statuses(c, e)
  BY DEF P!Bookable, P!Readiness
<1>2. \A f \in {"state", "disk", "upgrade", "compatibility"} :
        f \in DOMAIN P!Findings(c, e) /\ P!Findings(c, e)[f] # "blocked"
  BY <1>1 DEF P!Statuses, P!Findings
<1> QED BY <1>2 DEF P!Findings

LEMMA SameIdSameOutcomes ==
  ASSUME NEW c, NEW a, NEW b, NEW x, NEW y, P!Fingerprint(c, a, x) = P!Fingerprint(c, b, y)
  PROVE  /\ P!Running(a) <=> P!Running(b)
         /\ a.loadout = b.loadout
         /\ (IF a.backup = NoBackup THEN NoBackup ELSE a.backup.id) =
              (IF b.backup = NoBackup THEN NoBackup ELSE b.backup.id)
         /\ (a.backup # NoBackup /\ a.backup.whole) <=> (b.backup # NoBackup /\ b.backup.whole)
         /\ P!Target(c, a, x) = P!Target(c, b, y)
         /\ (IF c = "server_upgrade" /\ P!Installable(a) THEN a.pin ELSE NoArtifact) =
              (IF c = "server_upgrade" /\ P!Installable(b) THEN b.pin ELSE NoArtifact)
         /\ (IF c = "server_upgrade" THEN a.active ELSE NoArtifact) =
              (IF c = "server_upgrade" THEN b.active ELSE NoArtifact)
         /\ P!StateFinding(c, a) = P!StateFinding(c, b)
         /\ P!ProtectionFinding(c, a) = P!ProtectionFinding(c, b)
         /\ P!DiskFinding(c, a) = P!DiskFinding(c, b)
         /\ P!UpgradeFinding(c, a) = P!UpgradeFinding(c, b)
<1>1. P!Findings(c, a) = P!Findings(c, b)
  BY DEF P!Fingerprint
<1>2. /\ P!StateFinding(c, a) = P!StateFinding(c, b)
      /\ P!ProtectionFinding(c, a) = P!ProtectionFinding(c, b)
      /\ P!DiskFinding(c, a) = P!DiskFinding(c, b)
      /\ P!UpgradeFinding(c, a) = P!UpgradeFinding(c, b)
  BY <1>1 DEF P!Findings
<1>3. P!Running(a) <=> P!Running(b)
  BY DEF P!Fingerprint
<1>4. (a.backup # NoBackup /\ a.backup.whole) <=> (b.backup # NoBackup /\ b.backup.whole)
  BY DEF P!Fingerprint
<1> QED BY <1>2, <1>3, <1>4 DEF P!Fingerprint

LEMMA SameIdSameAnswer ==
  ASSUME P!ConstantsOK, NEW c, NEW seen \in Evidence, NEW read \in Evidence, NEW x, NEW y,
         P!Fingerprint(c, seen, x) = P!Fingerprint(c, read, y), P!Bookable(c, read)
  PROVE  Agree(c, seen, read)
<1>1. P!Usable(read) /\ seen.server = read.server
  <2>1. /\ P!StateFinding(c, seen) # "blocked" /\ P!StateFinding(c, read) # "blocked"
        /\ P!Running(seen) <=> P!Running(read)
    BY BookableIsUnblocked, SameIdSameOutcomes
  <2>2. ASSUME NEW e \in Evidence, P!StateFinding(c, e) # "blocked" PROVE P!Usable(e)
    BY <2>2 DEF P!StateFinding, P!Running, P!Usable, Evidence
  <2> QED BY <2>1, <2>2 DEF P!Running, P!Usable
<1>2. P!Protected(seen) <=> P!Protected(read)
  <2>1. P!ProtectionFinding(c, seen) = P!ProtectionFinding(c, read)
    BY SameIdSameOutcomes
  <2>2. ASSUME NEW e PROVE P!Protected(e) <=> P!ProtectionFinding(c, e) = "ready"
    BY DEF P!ProtectionFinding
  <2> QED BY <2>1, <2>2
<1>3. IF seen.backup = NoBackup THEN read.backup = NoBackup
      ELSE /\ read.backup # NoBackup /\ read.backup.id = seen.backup.id
           /\ (read.backup.whole <=> seen.backup.whole)
  <2>1. /\ (IF seen.backup = NoBackup THEN NoBackup ELSE seen.backup.id) =
             (IF read.backup = NoBackup THEN NoBackup ELSE read.backup.id)
        /\ (seen.backup # NoBackup /\ seen.backup.whole) <=> (read.backup # NoBackup /\ read.backup.whole)
    BY SameIdSameOutcomes
  <2>2. \A e \in Evidence : e.backup # NoBackup => e.backup.id # NoBackup
    BY ZenonT(40) DEF P!ConstantsOK, Evidence, P!Points
  <2> QED BY <2>1, <2>2
<1>4. c \in P!Risky => seen.room # "none" /\ read.room # "none"
  <2>1. P!DiskFinding(c, seen) # "blocked" /\ P!DiskFinding(c, read) # "blocked"
    BY BookableIsUnblocked, SameIdSameOutcomes
  <2>2. ASSUME NEW e, c \in P!Risky, P!DiskFinding(c, e) # "blocked" PROVE e.room # "none"
    BY <2>2 DEF P!DiskFinding
  <2> QED BY <2>1, <2>2
<1>5. c \in P!VersionChanging => read.launch # "broken"
  BY BookableIsUnblocked DEF P!CompatibilityFinding, P!Launch
<1>6. c = "server_upgrade" => P!Installable(read) /\ read.pin = seen.pin /\ read.active = seen.active
  <2>1. P!UpgradeFinding(c, seen) # "blocked" /\ P!UpgradeFinding(c, read) # "blocked"
    BY BookableIsUnblocked, SameIdSameOutcomes
  <2>2. ASSUME NEW e, c = "server_upgrade", P!UpgradeFinding(c, e) # "blocked" PROVE P!Installable(e)
    BY <2>2 DEF P!UpgradeFinding
  <2>3. c = "server_upgrade" => P!Installable(seen) /\ P!Installable(read)
    BY <2>1, <2>2
  <2>4. /\ (IF c = "server_upgrade" /\ P!Installable(seen) THEN seen.pin ELSE NoArtifact) =
             (IF c = "server_upgrade" /\ P!Installable(read) THEN read.pin ELSE NoArtifact)
        /\ (IF c = "server_upgrade" THEN seen.active ELSE NoArtifact) =
             (IF c = "server_upgrade" THEN read.active ELSE NoArtifact)
    BY SameIdSameOutcomes
  <2> QED BY <2>3, <2>4
<1>7. \A e \in Evidence : e.backup # NoBackup => e.backup.whole \in BOOLEAN
  BY DEF Evidence, P!Points
<1>8. P!Protected(seen) = P!Protected(read)
  BY <1>2 DEF P!Protected
<1>9. seen.backup # NoBackup /\ read.backup # NoBackup => read.backup.whole = seen.backup.whole
  BY <1>3, <1>7
<1> QED BY <1>1, <1>3, <1>4, <1>5, <1>6, <1>8, <1>9, SameIdSameOutcomes DEF Agree

\* A release that is named or chosen is among those that were read.
LEMMA TargetIsPublished ==
  ASSUME P!ConstantsOK, NEW c, NEW e, NEW asked, Answerable(c, e, asked)
  PROVE  /\ P!Target(c, e, asked) \in P!Releases \union {P!NoRelease}
         /\ P!Target(c, e, asked) # P!NoRelease => c = "server_upgrade" /\ P!Target(c, e, asked) \in e.releases
         /\ c = "server_upgrade" /\ P!Installable(e) => P!Target(c, e, asked) # P!NoRelease
<1>1. e.releases \subseteq P!Releases /\ P!NoRelease \notin P!Releases
  <2>1. e.releases \in SUBSET P!Releases
    BY DEF Answerable, Evidence
  <2>2. P!NoRelease \notin P!Releases
    BY DEF P!ConstantsOK, P!Releases, P!NoRelease
  <2> QED BY <2>1, <2>2
<1>2. e.releases # {} => P!Newest(e.releases) \in e.releases
  BY <1>1, NewestIsOne
<1> QED BY <1>1, <1>2 DEF Answerable, P!Target, P!Installable

\* A piece of the evidence that moves on stays evidence.
LEMMA MovedEvidence ==
  ASSUME NEW e \in Evidence, NEW p \in P!Pieces, NEW reading \in P!Readings[p]
  PROVE  [e EXCEPT ![p] = reading] \in Evidence
<1>1. p \in {"server", "players", "backup", "room", "waiting", "launch", "warned", "loadout", "due",
             "source", "releases", "runtime", "pin", "active"}
  BY DEF P!Pieces, P!Readings
<1>2. CASE p = "server"
  <2>1. [e EXCEPT ![p] = reading] = [e EXCEPT !.server = reading] /\ reading \in {"stopped", "running", "changing", "another"}
    BY <1>2 DEF P!Readings
  <2> QED BY ZenonT(40), <2>1 DEF Evidence
<1>3. CASE p = "players"
  <2>1. [e EXCEPT ![p] = reading] = [e EXCEPT !.players = reading] /\ reading \in {"none", "some", "silent"}
    BY <1>3 DEF P!Readings
  <2> QED BY ZenonT(40), <2>1 DEF Evidence
<1>4. CASE p = "backup"
  <2>1. [e EXCEPT ![p] = reading] = [e EXCEPT !.backup = reading] /\ reading \in P!Points
    BY <1>4 DEF P!Readings
  <2> QED BY <2>1 DEF Evidence
<1>5. CASE p = "room"
  <2>1. [e EXCEPT ![p] = reading] = [e EXCEPT !.room = reading] /\ reading \in {"plenty", "little", "none", "unmeasured"}
    BY <1>5 DEF P!Readings
  <2> QED BY ZenonT(40), <2>1 DEF Evidence
<1>6. CASE p = "waiting"
  <2>1. [e EXCEPT ![p] = reading] = [e EXCEPT !.waiting = reading] /\ reading \in BOOLEAN
    BY <1>6 DEF P!Readings
  <2> QED BY <2>1 DEF Evidence
<1>7. CASE p = "launch"
  <2>1. [e EXCEPT ![p] = reading] = [e EXCEPT !.launch = reading] /\ reading \in {"complete", "broken", "no java", "unknown"}
    BY <1>7 DEF P!Readings
  <2> QED BY ZenonT(40), <2>1 DEF Evidence
<1>8. CASE p = "warned"
  <2>1. [e EXCEPT ![p] = reading] = [e EXCEPT !.warned = reading] /\ reading \in BOOLEAN
    BY <1>8 DEF P!Readings
  <2> QED BY <2>1 DEF Evidence
<1>9. CASE p = "loadout"
  <2>1. [e EXCEPT ![p] = reading] = [e EXCEPT !.loadout = reading] /\ reading \in Loadouts
    BY <1>9 DEF P!Readings
  <2> QED BY <2>1 DEF Evidence
<1>10. CASE p = "due"
  <2>1. [e EXCEPT ![p] = reading] = [e EXCEPT !.due = reading] /\ reading \in BOOLEAN
    BY <1>10 DEF P!Readings
  <2> QED BY <2>1 DEF Evidence
<1>11. CASE p = "source"
  <2>1. [e EXCEPT ![p] = reading] = [e EXCEPT !.source = reading] /\ reading \in {"read", "unordered", "failed"}
    BY <1>11 DEF P!Readings
  <2> QED BY ZenonT(40), <2>1 DEF Evidence
<1>12. CASE p = "releases"
  <2>1. [e EXCEPT ![p] = reading] = [e EXCEPT !.releases = reading] /\ reading \in SUBSET P!Releases
    BY <1>12 DEF P!Readings
  <2> QED BY <2>1 DEF Evidence
<1>13. CASE p = "runtime"
  <2>1. [e EXCEPT ![p] = reading] = [e EXCEPT !.runtime = reading] /\ reading \in BOOLEAN
    BY <1>13 DEF P!Readings
  <2> QED BY <2>1 DEF Evidence
<1>14. CASE p = "pin"
  <2>1. [e EXCEPT ![p] = reading] = [e EXCEPT !.pin = reading] /\ reading \in Artifacts \union {NoArtifact}
    BY <1>14 DEF P!Readings
  <2> QED BY <2>1 DEF Evidence
<1>15. CASE p = "active"
  <2>1. [e EXCEPT ![p] = reading] = [e EXCEPT !.active = reading] /\ reading \in Artifacts \union {NoArtifact}
    BY <1>15 DEF P!Readings
  <2> QED BY <2>1 DEF Evidence
<1> QED BY <1>1, <1>2, <1>3, <1>4, <1>5, <1>6, <1>7, <1>8, <1>9, <1>10, <1>11, <1>12, <1>13, <1>14, <1>15

-----------------------------------------------------------------------------
(* The state.                                                              *)

ReviewPlaces == {"probe", "backup", "verify", "rest", "releases", "active", "pin", "answer"}
Requests ==
  [pc : ReviewPlaces, what : {"review"} \union P!Acts, change : Kinds, asked : P!Releases \union {P!NoRelease},
   plan : plans \union {P!Idle}, read : Evidence]

\* A release that was asked for is one of the published ones once they are read;
\* a backup is verified only if there is one; a plan that is acted on is one that
\* was seen, and an upgrade is let through for its release and a stopped server.
HeldReview(r) ==
  /\ r.asked # P!NoRelease => r.change = "server_upgrade"
  /\ r.asked # P!NoRelease /\ r.pc \in {"active", "pin", "answer"} =>
       r.read.source = "read" /\ r.asked \in r.read.releases
  /\ r.pc = "verify" => r.read.backup # NoBackup
  /\ r.what \in P!Acts => r.plan \in plans /\ r.change = r.plan.change
  /\ r.what = "apply" => r.change = "server_upgrade" /\ r.read.server = "stopped"

\* Plans say what was read, and their ids are its fingerprints.
PlansInv ==
  \A plan \in plans :
    /\ plan.id = P!Fingerprint(plan.change, plan.read, plan.asked)
    /\ Answerable(plan.change, plan.read, plan.asked) /\ plan.change \in Kinds

RequestInv == request = P!Idle \/ (request \in Requests /\ HeldReview(request))

ReviewInv == evidence \in Evidence /\ RequestInv /\ PlansInv /\ P!ActedAsReviewed

LEMMA ReviewInit == ASSUME P!Init PROVE ReviewInv
<1>1. evidence \in Evidence
  <2>1. PICK server \in {"stopped", "running"}, id \in Backups, loadout \in Loadouts, jar \in Artifacts :
          evidence = [server |-> server, players |-> "none",
                      backup |-> [id |-> id, whole |-> TRUE, fresh |-> TRUE],
                      room |-> "plenty", waiting |-> FALSE, launch |-> "complete", warned |-> FALSE,
                      loadout |-> loadout, due |-> FALSE, source |-> "read", releases |-> P!Releases,
                      runtime |-> TRUE, pin |-> jar, active |-> jar]
    BY DEF P!Init, P!FirstEvidence
  <2>2. [id |-> id, whole |-> TRUE, fresh |-> TRUE] \in P!Points
    BY DEF P!Points
  <2> QED BY <2>1, <2>2 DEF Evidence
<1> QED BY <1>1 DEF P!Init, ReviewInv, RequestInv, PlansInv, P!ActedAsReviewed

\* A request that is asked for.
LEMMA AskedKeeps ==
  ASSUME ReviewInv, NEW what \in {"review"} \union P!Acts, NEW c \in Kinds,
         NEW asked \in P!Releases \union {P!NoRelease}, NEW plan \in plans \union {P!Idle},
         P!Asked(P!AfterState, what, c, asked, plan),
         asked # P!NoRelease => c = "server_upgrade",
         what \in P!Acts => plan \in plans /\ c = plan.change,
         what = "apply" => c = "server_upgrade" /\ evidence.server = "stopped"
  PROVE  ReviewInv'
<1>1. P!AfterState \in {"probe", "backup"}
  BY DEF P!AfterState
<1> DEFINE r == [pc |-> P!AfterState, what |-> what, change |-> c, asked |-> asked, plan |-> plan,
                 read |-> evidence]
<1>2. r \in Requests /\ HeldReview(r)
  BY <1>1 DEF Requests, ReviewPlaces, HeldReview, ReviewInv
<1>3. request' = r /\ UNCHANGED <<evidence, plans, acted>>
  BY DEF P!Asked
<1> QED BY <1>2, <1>3 DEF ReviewInv, RequestInv, PlansInv, P!ActedAsReviewed, Requests, HeldReview

LEMMA AskForReviewKeeps == ASSUME ReviewInv, NEW c \in Kinds, P!AskForReview(c) PROVE ReviewInv'
<1>1. PICK asked \in {P!NoRelease} \union (IF c = "server_upgrade" THEN P!Releases ELSE {}) :
        P!Asked(P!AfterState, "review", c, asked, P!Idle)
  BY DEF P!AskForReview
<1>2. asked \in P!Releases \union {P!NoRelease} /\ (asked # P!NoRelease => c = "server_upgrade")
  BY <1>1
<1> QED BY <1>1, <1>2, AskedKeeps DEF P!Acts

LEMMA ActOnKeeps ==
  ASSUME P!ConstantsOK, ReviewInv, NEW plan \in plans, NEW what \in P!Acts, P!ActOn(plan, what) PROVE ReviewInv'
<1>1. PICK asked \in {plan.asked, plan.id.target} : P!Asked(P!AfterState, what, plan.change, asked, plan)
  BY DEF P!ActOn
<1>2. /\ plan.change \in Kinds
      /\ Answerable(plan.change, plan.read, plan.asked)
      /\ plan.id.target = P!Target(plan.change, plan.read, plan.asked)
  <2>1. /\ plan.change \in Kinds
        /\ Answerable(plan.change, plan.read, plan.asked)
        /\ plan.id = P!Fingerprint(plan.change, plan.read, plan.asked)
    BY DEF ReviewInv, PlansInv
  <2>2. P!Fingerprint(plan.change, plan.read, plan.asked).target = P!Target(plan.change, plan.read, plan.asked)
    BY DEF P!Fingerprint
  <2> QED BY <2>1, <2>2
<1>3. asked \in P!Releases \union {P!NoRelease} /\ (asked # P!NoRelease => plan.change = "server_upgrade")
  <2>1. CASE asked = plan.asked
    <3>1. plan.read.releases \in SUBSET P!Releases
      BY <1>2 DEF Answerable, Evidence
    <3> QED BY <1>2, <2>1, <3>1 DEF Answerable
  <2>2. CASE asked = plan.id.target
    BY <1>2, <2>2, TargetIsPublished
  <2> QED BY <1>1, <2>1, <2>2
<1>4. what = "apply" => plan.change = "server_upgrade" /\ evidence.server = "stopped"
  BY DEF P!ActOn
<1> QED BY <1>1, <1>2, <1>3, <1>4, AskedKeeps

\* A request that reads on.
LEMMA GoesKeeps ==
  ASSUME ReviewInv, request \in Requests, HeldReview(request), NEW pc \in ReviewPlaces, NEW read \in Evidence, P!Goes(pc, read),
         pc \in {"active", "pin", "answer"} /\ request.asked # P!NoRelease =>
           read.source = "read" /\ request.asked \in read.releases,
         pc = "verify" => read.backup # NoBackup,
         read.server = request.read.server
  PROVE  ReviewInv'
<1>1. /\ request' \in Requests /\ request'.pc = pc /\ request'.read = read
      /\ request'.what = request.what /\ request'.change = request.change
      /\ request'.asked = request.asked /\ request'.plan = request.plan
      /\ UNCHANGED <<evidence, plans, acted>>
  BY DEF P!Goes, Requests
<1>2. request' \in Requests'
  BY <1>1 DEF Requests
<1>3. HeldReview(request)'
  BY <1>1 DEF HeldReview
<1> QED BY <1>1, <1>2, <1>3 DEF ReviewInv, RequestInv, PlansInv, P!ActedAsReviewed

\* Only a request in progress is at a place.
LEMMA InReview ==
  ASSUME ReviewInv, NEW pc \in ReviewPlaces, P!At(pc)
  PROVE  request \in Requests /\ HeldReview(request) /\ request.pc = pc /\ request.read \in Evidence
         /\ evidence \in Evidence
BY DEF ReviewInv, RequestInv, P!At, P!Idle, ReviewPlaces, Requests

LEMMA ReadPlayersKeeps == ASSUME ReviewInv, P!ReadPlayers PROVE ReviewInv'
<1>1. request \in Requests /\ HeldReview(request) /\ request.read \in Evidence /\ evidence \in Evidence
  BY InReview DEF P!ReadPlayers, ReviewPlaces
<1>2. PICK answer \in {evidence.players, "silent"} : P!Goes("backup", [request.read EXCEPT !.players = answer])
  BY DEF P!ReadPlayers
<1> DEFINE read == [request.read EXCEPT !.players = answer]
<1>3. read \in Evidence /\ read.server = request.read.server
  BY <1>1, <1>2 DEF Evidence
<1> HIDE DEF read
<1>4. P!Goes("backup", read)
  BY <1>2 DEF read
<1> QED BY <1>1, <1>3, <1>4, GoesKeeps DEF ReviewPlaces

LEMMA FindBackupKeeps == ASSUME ReviewInv, P!FindBackup PROVE ReviewInv'
<1>1. request \in Requests /\ HeldReview(request) /\ request.read \in Evidence /\ evidence \in Evidence
  BY InReview DEF P!FindBackup, ReviewPlaces
<1> DEFINE read == [request.read EXCEPT !.backup = evidence.backup]
           pc == IF evidence.backup = NoBackup THEN "rest" ELSE "verify"
<1>2. /\ read \in Evidence /\ read.server = request.read.server /\ read.backup = evidence.backup
      /\ pc \in {"rest", "verify"} /\ (pc = "verify" => evidence.backup # NoBackup)
  BY <1>1 DEF Evidence
<1>3. P!Goes(pc, read)
  BY DEF P!FindBackup
<1> HIDE DEF read, pc
<1> QED BY <1>1, <1>2, <1>3, GoesKeeps DEF ReviewPlaces

LEMMA VerifyBackupKeeps == ASSUME ReviewInv, P!VerifyBackup PROVE ReviewInv'
<1>1. /\ request \in Requests /\ HeldReview(request) /\ request.read \in Evidence /\ evidence \in Evidence
      /\ request.pc = "verify"
  BY InReview DEF P!VerifyBackup, ReviewPlaces
<1>2. PICK point \in P!Verified(request.read.backup.id) :
        P!Goes("rest", [request.read EXCEPT !.backup = point])
  BY DEF P!VerifyBackup
<1>3. point \in P!Points
  <2>1. request.read.backup.id \in Backups
    BY <1>1 DEF HeldReview, Evidence, P!Points
  <2> QED BY <1>1, <1>2, <2>1 DEF P!Verified, P!Points, Evidence
<1> DEFINE read == [request.read EXCEPT !.backup = point]
<1>4. read \in Evidence /\ read.server = request.read.server
  BY <1>1, <1>3 DEF Evidence
<1> HIDE DEF read
<1>5. P!Goes("rest", read)
  BY <1>2 DEF read
<1> QED BY <1>1, <1>4, <1>5, GoesKeeps DEF ReviewPlaces

LEMMA ReadTheRestKeeps == ASSUME ReviewInv, P!ReadTheRest PROVE ReviewInv'
<1>1. request \in Requests /\ HeldReview(request) /\ request.read \in Evidence /\ evidence \in Evidence
  BY InReview DEF P!ReadTheRest, ReviewPlaces
<1> DEFINE read == [request.read EXCEPT !.room = evidence.room, !.waiting = evidence.waiting,
                      !.launch = evidence.launch, !.warned = evidence.warned, !.loadout = evidence.loadout,
                      !.due = evidence.due]
           pc == IF request.change = "server_upgrade" THEN "releases" ELSE "answer"
<1>2. /\ read \in Evidence /\ read.server = request.read.server
      /\ pc \in {"releases", "answer"} /\ (pc = "answer" => request.change # "server_upgrade")
  BY <1>1 DEF Evidence
<1>3. P!Goes(pc, read)
  BY DEF P!ReadTheRest
<1>4. request.asked # P!NoRelease => request.change = "server_upgrade"
  BY <1>1 DEF HeldReview
<1> HIDE DEF read, pc
<1> QED BY <1>1, <1>2, <1>3, <1>4, GoesKeeps DEF ReviewPlaces

LEMMA ReadReleasesKeeps == ASSUME ReviewInv, P!ReadReleases PROVE ReviewInv'
<1>1. request \in Requests /\ HeldReview(request) /\ request.read \in Evidence /\ evidence \in Evidence
  BY InReview DEF P!ReadReleases, ReviewPlaces
<1>2. CASE P!Refused
  BY <1>2 DEF P!Refused, ReviewInv, RequestInv, PlansInv, P!ActedAsReviewed
<1>3. CASE ~P!Refused
  <2> DEFINE read == [request.read EXCEPT !.source = evidence.source,
                        !.releases = evidence.releases, !.runtime = evidence.runtime]
  <2>1. /\ read \in Evidence /\ read.server = request.read.server
        /\ read.source = evidence.source /\ read.releases = evidence.releases
    BY <1>1 DEF Evidence
  <2>2. P!CanSelect(request.asked) /\ P!Goes("active", read)
    BY <1>3 DEF P!ReadReleases
  <2> HIDE DEF read
  <2> QED BY <1>1, <2>1, <2>2, GoesKeeps DEF ReviewPlaces, P!CanSelect
<1> QED BY <1>2, <1>3

LEMMA ReadActiveKeeps == ASSUME ReviewInv, P!ReadActive PROVE ReviewInv'
<1>1. /\ request \in Requests /\ HeldReview(request) /\ request.read \in Evidence /\ evidence \in Evidence
      /\ request.pc = "active"
  BY InReview DEF P!ReadActive, ReviewPlaces
<1> DEFINE read == [request.read EXCEPT !.active = evidence.active]
<1>2. /\ read \in Evidence /\ read.server = request.read.server
      /\ read.source = request.read.source /\ read.releases = request.read.releases
  BY <1>1 DEF Evidence
<1>3. P!Goes("pin", read)
  BY DEF P!ReadActive
<1> HIDE DEF read
<1> QED BY <1>1, <1>2, <1>3, GoesKeeps DEF ReviewPlaces, HeldReview

LEMMA PinTargetKeeps == ASSUME ReviewInv, P!PinTarget PROVE ReviewInv'
<1>1. /\ request \in Requests /\ HeldReview(request) /\ request.read \in Evidence /\ evidence \in Evidence
      /\ request.pc = "pin"
  BY InReview DEF P!PinTarget, ReviewPlaces
<1> DEFINE read == [request.read EXCEPT !.pin = evidence.pin]
<1>2. /\ read \in Evidence /\ read.server = request.read.server
      /\ read.source = request.read.source /\ read.releases = request.read.releases
  BY <1>1 DEF Evidence
<1>3. P!Goes("answer", read)
  BY DEF P!PinTarget
<1> HIDE DEF read
<1> QED BY <1>1, <1>2, <1>3, GoesKeeps DEF ReviewPlaces, HeldReview

-----------------------------------------------------------------------------
(* What becomes of a review.                                               *)

\* The plan of a review that is finished.
LEMMA FreshPlan ==
  ASSUME ReviewInv, P!At("answer")
  PROVE  LET plan == [change |-> request.change, asked |-> request.asked, id |-> P!Fresh,
                      read |-> request.read]
         IN /\ plan.id = P!Fingerprint(plan.change, plan.read, plan.asked)
            /\ Answerable(plan.change, plan.read, plan.asked) /\ plan.change \in Kinds
BY InReview DEF ReviewPlaces, Requests, HeldReview, P!Fresh, Answerable

LEMMA AnswerReviewKeeps == ASSUME ReviewInv, P!AnswerReview PROVE ReviewInv'
<1> DEFINE plan == [change |-> request.change, asked |-> request.asked, id |-> P!Fresh,
                    read |-> request.read]
<1>1. /\ plan.id = P!Fingerprint(plan.change, plan.read, plan.asked)
      /\ Answerable(plan.change, plan.read, plan.asked) /\ plan.change \in Kinds
  BY FreshPlan DEF P!AnswerReview
<1>2. plans' = plans \union {plan} /\ request' = P!Idle /\ UNCHANGED <<evidence, acted>>
  BY DEF P!AnswerReview
<1> HIDE DEF plan
<1> QED BY <1>1, <1>2 DEF ReviewInv, RequestInv, PlansInv, P!ActedAsReviewed

LEMMA RefuseKeeps == ASSUME ReviewInv, P!Refuse PROVE ReviewInv'
<1> DEFINE plan == [change |-> request.change, asked |-> request.asked, id |-> P!Fresh,
                    read |-> request.read]
<1>1. /\ plan.id = P!Fingerprint(plan.change, plan.read, plan.asked)
      /\ Answerable(plan.change, plan.read, plan.asked) /\ plan.change \in Kinds
  BY FreshPlan DEF P!Refuse
<1>2. plans' \subseteq plans \union {plan} /\ request' = P!Idle /\ UNCHANGED <<evidence, acted>>
  BY DEF P!Refuse
<1> HIDE DEF plan
<1> QED BY <1>1, <1>2 DEF ReviewInv, RequestInv, PlansInv, P!ActedAsReviewed

LEMMA ActKeeps == ASSUME P!ConstantsOK, ReviewInv, P!Act PROVE ReviewInv'
<1> DEFINE c == request.change
           seen == request.plan.read
           read == request.read
           act == [what |-> request.what, change |-> c, target |-> P!Fresh.target, seen |-> seen,
                   read |-> read]
<1>1. /\ request \in Requests /\ HeldReview(request) /\ request.pc = "answer"
      /\ read \in Evidence /\ evidence \in Evidence
      /\ request.what \in P!Acts /\ P!MayAct /\ acted' = acted \union {act}
      /\ request' = P!Idle /\ UNCHANGED plans
      /\ evidence' \in {evidence, [evidence EXCEPT !.due = TRUE]}
  BY InReview DEF P!Act, ReviewPlaces
<1>2. /\ request.plan \in plans /\ c = request.plan.change
      /\ request.plan.id = P!Fingerprint(c, seen, request.plan.asked)
      /\ Answerable(c, seen, request.plan.asked) /\ Answerable(c, read, request.asked)
  BY <1>1 DEF HeldReview, ReviewInv, PlansInv, Answerable
<1>3. P!Fingerprint(c, seen, request.plan.asked) = P!Fingerprint(c, read, request.asked) /\ P!Bookable(c, read)
  BY <1>1, <1>2 DEF P!MayAct, P!Confirmed, P!Fresh
<1>4. Agree(c, seen, read)
  BY <1>2, <1>3, SameIdSameAnswer DEF Answerable
<1>5. c = "server_upgrade" => act.target \in read.releases \intersect seen.releases
  <2>1. act.target = P!Target(c, read, request.asked)
    BY DEF P!Fresh, P!Fingerprint
  <2>2. P!Target(c, seen, request.plan.asked) = P!Target(c, read, request.asked)
    BY <1>3, SameIdSameOutcomes
  <2> QED BY <1>2, <1>4, <2>1, <2>2, TargetIsPublished DEF Agree
<1>6. act.what = "apply" => read.server = "stopped" /\ P!Protected(read)
  BY <1>1 DEF HeldReview, P!MayAct
<1>7. /\ act.change = c /\ act.seen = seen /\ act.read = read
  OBVIOUS
<1>8. evidence' \in Evidence
  BY ZenonT(40), <1>1 DEF Evidence
<1> HIDE DEF act, seen, read, c
<1>9. P!ActedAsReviewed'
  <2> SUFFICES ASSUME NEW a \in acted'
               PROVE  /\ Agree(a.change, a.seen, a.read)
                      /\ a.change = "server_upgrade" => a.target \in a.read.releases \intersect a.seen.releases
                      /\ a.what = "apply" => a.read.server = "stopped" /\ P!Protected(a.read)
    BY DEF P!ActedAsReviewed, Agree
  <2>1. CASE a \in acted
    BY <2>1 DEF ReviewInv, P!ActedAsReviewed, Agree
  <2>2. CASE a = act
    BY <1>4, <1>5, <1>6, <1>7, <2>2
  <2> QED BY <1>1, <2>1, <2>2
<1> QED BY <1>1, <1>8, <1>9 DEF ReviewInv, RequestInv, PlansInv

LEMMA MoveKeeps == ASSUME ReviewInv, P!Move PROVE ReviewInv'
<1>1. evidence' \in Evidence /\ UNCHANGED <<request, plans, acted>>
  BY MovedEvidence DEF P!Move, ReviewInv
<1> QED BY <1>1 DEF ReviewInv, RequestInv, Requests, HeldReview, PlansInv, P!ActedAsReviewed

LEMMA ReviewStep == ASSUME P!ConstantsOK, ReviewInv, P!Next PROVE ReviewInv'
<1>1. ASSUME NEW c \in Kinds, P!AskForReview(c) PROVE ReviewInv'
  BY <1>1, AskForReviewKeeps
<1>2. ASSUME NEW plan \in plans, NEW what \in P!Acts, P!ActOn(plan, what) PROVE ReviewInv'
  BY <1>2, ActOnKeeps
<1>3. CASE P!ReadPlayers \/ P!FindBackup \/ P!VerifyBackup \/ P!ReadTheRest
  BY <1>3, ReadPlayersKeeps, FindBackupKeeps, VerifyBackupKeeps, ReadTheRestKeeps
<1>4. CASE P!ReadReleases \/ P!ReadActive \/ P!PinTarget
  BY <1>4, ReadReleasesKeeps, ReadActiveKeeps, PinTargetKeeps
<1>5. CASE P!AnswerReview \/ P!Act \/ P!Refuse \/ P!Move
  BY <1>5, AnswerReviewKeeps, ActKeeps, RefuseKeeps, MoveKeeps
<1> QED BY <1>1, <1>2, <1>3, <1>4, <1>5 DEF P!Next

LEMMA ReviewStutters ==
  ASSUME ReviewInv, UNCHANGED <<evidence, request, plans, acted>> PROVE ReviewInv'
BY DEF ReviewInv, RequestInv, Requests, HeldReview, PlansInv, P!ActedAsReviewed

\* What is booked or applied is what the owner reviewed.
THEOREM ReviewsHold == ASSUME P!ConstantsOK PROVE MCSpec => []ActedAsReviewed
<1>1. ASSUME ReviewInv, [MCNext]_mcvars PROVE ReviewInv'
  <2>1. CASE part = "reviews" /\ P!Next
    BY <1>1, <2>1, ReviewStep
  <2>2. CASE UNCHANGED reviewing
    BY <1>1, <2>2, ReviewStutters DEF reviewing
  <2> QED BY <1>1, <2>1, <2>2 DEF MCNext, mcvars
<1>2. MCInit => ReviewInv
  BY ReviewInit DEF MCInit
<1>3. ReviewInv => ActedAsReviewed
  BY DEF ReviewInv, ActedAsReviewed
<1> QED BY <1>1, <1>2, <1>3, PTL DEF MCSpec

\* assess(): a change is called ready only if all that was asked is known and good.
THEOREM ReadyMeansReady ==
  ASSUME NEW c \in P!Changes, NEW e \in Evidence
  PROVE  P!ReadyIsEarned(c, e)
<1> SUFFICES ASSUME P!Readiness(c, e) = "ready" PROVE
      /\ P!Usable(e) /\ ~e.due /\ ~e.warned /\ ~P!Unproven(c, e) /\ P!Launch(c, e) = "complete"
      /\ c \in P!NeedsStop => ~P!Running(e)
      /\ P!Running(e) => e.players = "none" /\ ~e.waiting
      /\ c \in P!Risky => P!Protected(e) /\ e.room = "plenty"
      /\ c = "server_upgrade" => P!Installable(e)
  BY DEF P!ReadyIsEarned
<1>1. P!Statuses(c, e) \intersect {"blocked", "attention", "unknown"} = {}
  BY DEF P!Readiness
<1>2. \A f \in {"state", "players", "protection", "disk", "restart", "upgrade", "compatibility", "schedule"} :
        f \in DOMAIN P!Findings(c, e) /\ P!Findings(c, e)[f] \notin {"blocked", "attention", "unknown"}
  BY <1>1 DEF P!Statuses, P!Findings
<1> DEFINE bad == {"blocked", "attention", "unknown"}
<1>3. /\ P!StateFinding(c, e) \notin bad /\ P!PlayerFinding(e) \notin bad
      /\ P!ProtectionFinding(c, e) \notin bad /\ P!DiskFinding(c, e) \notin bad
      /\ P!RestartFinding(e) \notin bad /\ P!UpgradeFinding(c, e) \notin bad
      /\ P!CompatibilityFinding(c, e) \notin bad /\ (IF e.due THEN "attention" ELSE "ready") \notin bad
  BY <1>2 DEF P!Findings
<1>4. P!Usable(e) /\ (c \in P!NeedsStop => ~P!Running(e))
  BY <1>3 DEF P!StateFinding, P!Running, P!Usable, Evidence
<1>5. P!Running(e) => e.players = "none" /\ ~e.waiting
  BY <1>3 DEF P!PlayerFinding, P!RestartFinding, Evidence
<1>6. c \in P!Risky => P!Protected(e) /\ e.room = "plenty"
  BY <1>3 DEF P!ProtectionFinding, P!DiskFinding, Evidence
<1>7. c = "server_upgrade" => P!Installable(e)
  BY <1>3 DEF P!UpgradeFinding
<1>8. P!Launch(c, e) = "complete" /\ ~e.warned /\ ~P!Unproven(c, e)
  <2>1. P!Launch(c, e) \in {"complete", "broken", "no java", "unknown"}
    BY DEF P!Launch, Evidence
  <2> QED BY <1>3, <2>1 DEF P!CompatibilityFinding
<1>9. ~e.due
  BY <1>3
<1> QED BY <1>4, <1>5, <1>6, <1>7, <1>8, <1>9

=============================================================================
