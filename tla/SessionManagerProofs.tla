------------------------ MODULE SessionManagerProofs ------------------------
(***************************************************************************)
(* The safety properties of SessionManager hold for any sets of profiles   *)
(* and Open calls.  The inductive invariant IInv ties the manager's map to *)
(* the goroutines: whoever touches a profile's directory is the session    *)
(* the map lists for it, with an active status.  Without that link neither *)
(* the mutual exclusion nor the finality of an end is inductive: fail and  *)
(* emit look sessions up by NAME, and would reach another call's session.  *)
(***************************************************************************)
EXTENDS SessionManager, TLAPS

\* Who works on a directory is listed in the map, and listed as live.
Ownership ==
  \A s \in Sessions :
    /\ pc[s] # "idle" => owner[s] \in Profiles
    /\ pc[s] \in Announcing => current[owner[s]] \in Sessions
    /\ snap[s] # None => pc[s] \in Announcing
    /\ pc[s] \in Occupying => current[owner[s]] = s /\ Active(status[s])

\* The map lists sessions under their own profile, once Open has claimed it.
CurrentOwned ==
  \A p \in Profiles :
    current[p] # None =>
      owner[current[p]] = p /\ pc[current[p]] \notin {"idle", "called"}

\* Unsaved browsing data has a session that is still to save it.
DebtHeld ==
  \A p \in Profiles :
    unsaved[p] = "dirty" =>
      \E s \in Sessions : owner[s] = p /\ pc[s] \in {"browsing", "save", "packing"}

\* A row that is out of date has an announcement or a refresh on its way.
RowsTracked ==
  \A p \in Profiles :
    \/ rows[p] = Shown(p)
    \/ \E s \in Sessions : owner[s] = p /\ pc[s] \in Announcing
    \/ ui = "refreshing" /\ p \in uiTodo
    \/ phase # "running"

\* The inductive invariant.
IInv == TypeOK /\ Ownership /\ CurrentOwned /\ DebtHeld /\ RowsTracked

-----------------------------------------------------------------------------
\* Where a goroutine resumes after Send (the four uses of emit in manager.go).
LEMMA AfterNotifyCases ==
  ASSUME NEW stage \in Announcing
  PROVE  /\ AfterNotify(stage) \in {"restore", "spawn", "returned", "done"}
         /\ AfterNotify(stage) = "restore" => stage = "announceStarting"
         /\ AfterNotify(stage) = "spawn" => stage = "announceRunning"
  BY DEF Announcing, AfterNotify

\* Every step keeps the variables in their types.
LEMMA TypeStep == TypeOK /\ Ownership /\ Next => TypeOK'
<1> SUFFICES ASSUME TypeOK, Ownership, Next PROVE TypeOK'
  OBVIOUS
<1> USE DEF TypeOK, Goto, callVars, ctxVars, uiVars, exitVars, diskVars, Stages, Announcing, Opening, Tracked, Statuses
<1>1. ASSUME NEW p \in Profiles, NEW s \in Sessions, KeyOpen(p, s) PROVE TypeOK'
  BY <1>1 DEF KeyOpen
<1>2. ASSUME NEW s \in Sessions, OpenRejected(s) PROVE TypeOK'
  BY <1>2 DEF OpenRejected
<1>3. ASSUME NEW s \in Sessions, OpenClaim(s) PROVE TypeOK'
  BY <1>3 DEF OpenClaim
<1>4. ASSUME NEW s \in Sessions, EmitRead(s) PROVE TypeOK'
  BY <1>4 DEF EmitRead, Ownership
<1>5. ASSUME NEW s \in Sessions, EmitUnlock(s) PROVE TypeOK'
  BY <1>5 DEF EmitUnlock
<1>6. ASSUME NEW s \in Sessions, RestoreSkip(s) PROVE TypeOK'
  BY <1>6 DEF RestoreSkip
<1>7. ASSUME NEW s \in Sessions, RestoreBegin(s) PROVE TypeOK'
  BY <1>7 DEF RestoreBegin
<1>8. ASSUME NEW s \in Sessions, RestoreFail(s) PROVE TypeOK'
  BY <1>8 DEF RestoreFail
<1>9. ASSUME NEW s \in Sessions, RestoreEnd(s) PROVE TypeOK'
  BY <1>9 DEF RestoreEnd
<1>10. ASSUME NEW s \in Sessions, Build(s) PROVE TypeOK'
  BY <1>10 DEF Build
<1>11. ASSUME NEW s \in Sessions, Fail(s) PROVE TypeOK'
  BY <1>11 DEF Fail, Ownership, Occupying
<1>12. ASSUME NEW s \in Sessions, Run(s) PROVE TypeOK'
  BY <1>12 DEF Run
<1>13. ASSUME NEW s \in Sessions, Spawn(s) PROVE TypeOK'
  BY <1>13 DEF Spawn
<1>14. ASSUME NEW s \in Sessions, ChromeStarts(s) PROVE TypeOK'
  BY <1>14 DEF ChromeStarts
<1>15. ASSUME NEW s \in Sessions, LaunchFails(s) PROVE TypeOK'
  BY <1>15 DEF LaunchFails
<1>16. ASSUME NEW s \in Sessions, ChromeStopped(s) PROVE TypeOK'
  BY <1>16 DEF ChromeStopped
<1>17. ASSUME NEW s \in Sessions, SaveSkip(s) PROVE TypeOK'
  BY <1>17 DEF SaveSkip
<1>18. ASSUME NEW s \in Sessions, SaveBegin(s) PROVE TypeOK'
  BY <1>18 DEF SaveBegin
<1>19. ASSUME NEW s \in Sessions, SaveEnd(s) PROVE TypeOK'
  <2>1. /\ hasBundle' \in [Profiles -> BOOLEAN]
        /\ unsaved' \in [Profiles -> {"saved", "dirty", "kept"}]
    <3>1. CASE hasBundle' = [hasBundle EXCEPT ![owner[s]] = TRUE]
      BY <1>19, <3>1 DEF SaveEnd
    <3>2. CASE hasBundle' = hasBundle
      BY <1>19, <3>2 DEF SaveEnd
    <3>3. QED
      BY <1>19, <3>1, <3>2 DEF SaveEnd
  <2>2. QED
    BY <1>19, <2>1 DEF SaveEnd
<1>20. ASSUME NEW s \in Sessions, Finish(s) PROVE TypeOK'
  BY <1>20 DEF Finish
<1>21. ASSUME NEW s \in Sessions, Notify(s) PROVE TypeOK'
  <2>1. /\ pc[s] \in Announcing
        /\ pc' = [pc EXCEPT ![s] = AfterNotify(pc[s])]
    BY <1>21 DEF Notify, Goto, Ownership
  <2>2. QED
    BY <1>21, <2>1, AfterNotifyCases DEF Notify
<1>22. ASSUME NEW s \in Sessions, WindowCloses(s) PROVE TypeOK'
  BY <1>22 DEF WindowCloses
<1>23. ASSUME NEW p \in Profiles, Close(p) PROVE TypeOK'
  BY <1>23 DEF Close
<1>24. ASSUME NEW p \in Profiles, RefreshRow(p) PROVE TypeOK'
  BY <1>24 DEF RefreshRow, Shown
<1>25. ASSUME NEW p \in Profiles, KeyClose(p) PROVE TypeOK'
  BY <1>25 DEF KeyClose
<1>26. ASSUME Tick PROVE TypeOK'
  BY <1>26 DEF Tick
<1>27. ASSUME KeyQuit PROVE TypeOK'
  BY <1>27 DEF KeyQuit
<1>28. ASSUME CloseAllCancel PROVE TypeOK'
  BY <1>28 DEF CloseAllCancel
<1>29. ASSUME CloseAllWait PROVE TypeOK'
  BY <1>29 DEF CloseAllWait
<1>30. ASSUME Exit PROVE TypeOK'
  BY <1>30 DEF Exit
<1>31. ASSUME Exited PROVE TypeOK'
  BY <1>31 DEF Exited, vars
<1>32. QED
  BY <1>1, <1>2, <1>3, <1>4, <1>5, <1>6, <1>7, <1>8, <1>9, <1>10, <1>11,
     <1>12, <1>13, <1>14, <1>15, <1>16, <1>17, <1>18, <1>19, <1>20, <1>21,
     <1>22, <1>23, <1>24, <1>25, <1>26, <1>27, <1>28, <1>29, <1>30, <1>31
  DEF Next, GoStep, LoopStep, ShutdownStep

\* Open claims a profile only when the map lists no live session for it, and
\* a session gives up its active status only after its save.
LEMMA OwnershipStep == TypeOK /\ Ownership /\ CurrentOwned /\ Next => Ownership'
<1> SUFFICES ASSUME TypeOK, Ownership, CurrentOwned, Next PROVE Ownership'
  OBVIOUS
<1> USE NoneAssumption DEF TypeOK, Ownership, Occupying, Goto, callVars, ctxVars, uiVars, exitVars, diskVars, Stages, Announcing, Opening, Tracked
<1>1. ASSUME NEW p \in Profiles, NEW s \in Sessions, KeyOpen(p, s) PROVE Ownership'
  BY <1>1 DEF KeyOpen, CurrentOwned
<1>2. ASSUME NEW s \in Sessions, OpenRejected(s) PROVE Ownership'
  BY <1>2 DEF OpenRejected
<1>3. ASSUME NEW s \in Sessions, OpenClaim(s) PROVE Ownership'
  BY <1>3 DEF OpenClaim, Active, Busy, CurrentOwned
<1>4. ASSUME NEW s \in Sessions, EmitRead(s) PROVE Ownership'
  BY <1>4 DEF EmitRead
<1>5. ASSUME NEW s \in Sessions, EmitUnlock(s) PROVE Ownership'
  BY <1>5 DEF EmitUnlock
<1>6. ASSUME NEW s \in Sessions, RestoreSkip(s) PROVE Ownership'
  BY <1>6 DEF RestoreSkip
<1>7. ASSUME NEW s \in Sessions, RestoreBegin(s) PROVE Ownership'
  BY <1>7 DEF RestoreBegin
<1>8. ASSUME NEW s \in Sessions, RestoreFail(s) PROVE Ownership'
  BY <1>8 DEF RestoreFail
<1>9. ASSUME NEW s \in Sessions, RestoreEnd(s) PROVE Ownership'
  BY <1>9 DEF RestoreEnd
<1>10. ASSUME NEW s \in Sessions, Build(s) PROVE Ownership'
  BY <1>10 DEF Build
<1>11. ASSUME NEW s \in Sessions, Fail(s) PROVE Ownership'
  BY <1>11 DEF Fail, Active
<1>12. ASSUME NEW s \in Sessions, Run(s) PROVE Ownership'
  BY <1>12 DEF Run, Active
<1>13. ASSUME NEW s \in Sessions, Spawn(s) PROVE Ownership'
  BY <1>13 DEF Spawn
<1>14. ASSUME NEW s \in Sessions, ChromeStarts(s) PROVE Ownership'
  BY <1>14 DEF ChromeStarts
<1>15. ASSUME NEW s \in Sessions, LaunchFails(s) PROVE Ownership'
  BY <1>15 DEF LaunchFails
<1>16. ASSUME NEW s \in Sessions, ChromeStopped(s) PROVE Ownership'
  BY <1>16 DEF ChromeStopped
<1>17. ASSUME NEW s \in Sessions, SaveSkip(s) PROVE Ownership'
  BY <1>17 DEF SaveSkip
<1>18. ASSUME NEW s \in Sessions, SaveBegin(s) PROVE Ownership'
  BY <1>18 DEF SaveBegin
<1>19. ASSUME NEW s \in Sessions, SaveEnd(s) PROVE Ownership'
  BY <1>19 DEF SaveEnd
<1>20. ASSUME NEW s \in Sessions, Finish(s) PROVE Ownership'
  BY <1>20 DEF Finish
<1>21. ASSUME NEW s \in Sessions, Notify(s) PROVE Ownership'
  <2>1. /\ pc[s] \in Announcing
        /\ pc' = [pc EXCEPT ![s] = AfterNotify(pc[s])]
    BY <1>21 DEF Notify, Goto, Ownership
  <2>2. QED
    BY <1>21, <2>1, AfterNotifyCases DEF Notify
<1>22. ASSUME NEW s \in Sessions, WindowCloses(s) PROVE Ownership'
  BY <1>22 DEF WindowCloses
<1>23. ASSUME NEW p \in Profiles, Close(p) PROVE Ownership'
  BY <1>23 DEF Close
<1>24. ASSUME NEW p \in Profiles, RefreshRow(p) PROVE Ownership'
  BY <1>24 DEF RefreshRow
<1>25. ASSUME NEW p \in Profiles, KeyClose(p) PROVE Ownership'
  BY <1>25 DEF KeyClose
<1>26. ASSUME Tick PROVE Ownership'
  BY <1>26 DEF Tick
<1>27. ASSUME KeyQuit PROVE Ownership'
  BY <1>27 DEF KeyQuit
<1>28. ASSUME CloseAllCancel PROVE Ownership'
  BY <1>28 DEF CloseAllCancel
<1>29. ASSUME CloseAllWait PROVE Ownership'
  BY <1>29 DEF CloseAllWait
<1>30. ASSUME Exit PROVE Ownership'
  BY <1>30 DEF Exit
<1>31. ASSUME Exited PROVE Ownership'
  BY <1>31 DEF Exited, vars
<1>32. QED
  BY <1>1, <1>2, <1>3, <1>4, <1>5, <1>6, <1>7, <1>8, <1>9, <1>10, <1>11,
     <1>12, <1>13, <1>14, <1>15, <1>16, <1>17, <1>18, <1>19, <1>20, <1>21,
     <1>22, <1>23, <1>24, <1>25, <1>26, <1>27, <1>28, <1>29, <1>30, <1>31
  DEF Next, GoStep, LoopStep, ShutdownStep

\* Only a claim changes the map, and it installs the claimer's own session.
LEMMA CurrentOwnedStep == TypeOK /\ Ownership /\ CurrentOwned /\ Next => CurrentOwned'
<1> SUFFICES ASSUME TypeOK, Ownership, CurrentOwned, Next PROVE CurrentOwned'
  OBVIOUS
<1> USE NoneAssumption DEF TypeOK, CurrentOwned, Goto, callVars, ctxVars, uiVars, exitVars, diskVars, Stages, Announcing, Opening, Tracked
<1>1. ASSUME NEW p \in Profiles, NEW s \in Sessions, KeyOpen(p, s) PROVE CurrentOwned'
  BY <1>1 DEF KeyOpen
<1>2. ASSUME NEW s \in Sessions, OpenRejected(s) PROVE CurrentOwned'
  BY <1>2 DEF OpenRejected
<1>3. ASSUME NEW s \in Sessions, OpenClaim(s) PROVE CurrentOwned'
  BY <1>3 DEF OpenClaim, Ownership
<1>4. ASSUME NEW s \in Sessions, EmitRead(s) PROVE CurrentOwned'
  BY <1>4 DEF EmitRead
<1>5. ASSUME NEW s \in Sessions, EmitUnlock(s) PROVE CurrentOwned'
  BY <1>5 DEF EmitUnlock
<1>6. ASSUME NEW s \in Sessions, RestoreSkip(s) PROVE CurrentOwned'
  BY <1>6 DEF RestoreSkip
<1>7. ASSUME NEW s \in Sessions, RestoreBegin(s) PROVE CurrentOwned'
  BY <1>7 DEF RestoreBegin
<1>8. ASSUME NEW s \in Sessions, RestoreFail(s) PROVE CurrentOwned'
  BY <1>8 DEF RestoreFail
<1>9. ASSUME NEW s \in Sessions, RestoreEnd(s) PROVE CurrentOwned'
  BY <1>9 DEF RestoreEnd
<1>10. ASSUME NEW s \in Sessions, Build(s) PROVE CurrentOwned'
  BY <1>10 DEF Build
<1>11. ASSUME NEW s \in Sessions, Fail(s) PROVE CurrentOwned'
  BY <1>11 DEF Fail
<1>12. ASSUME NEW s \in Sessions, Run(s) PROVE CurrentOwned'
  BY <1>12 DEF Run
<1>13. ASSUME NEW s \in Sessions, Spawn(s) PROVE CurrentOwned'
  BY <1>13 DEF Spawn
<1>14. ASSUME NEW s \in Sessions, ChromeStarts(s) PROVE CurrentOwned'
  BY <1>14 DEF ChromeStarts
<1>15. ASSUME NEW s \in Sessions, LaunchFails(s) PROVE CurrentOwned'
  BY <1>15 DEF LaunchFails
<1>16. ASSUME NEW s \in Sessions, ChromeStopped(s) PROVE CurrentOwned'
  BY <1>16 DEF ChromeStopped
<1>17. ASSUME NEW s \in Sessions, SaveSkip(s) PROVE CurrentOwned'
  BY <1>17 DEF SaveSkip
<1>18. ASSUME NEW s \in Sessions, SaveBegin(s) PROVE CurrentOwned'
  BY <1>18 DEF SaveBegin
<1>19. ASSUME NEW s \in Sessions, SaveEnd(s) PROVE CurrentOwned'
  BY <1>19 DEF SaveEnd
<1>20. ASSUME NEW s \in Sessions, Finish(s) PROVE CurrentOwned'
  BY <1>20 DEF Finish
<1>21. ASSUME NEW s \in Sessions, Notify(s) PROVE CurrentOwned'
  <2>1. /\ pc[s] \in Announcing
        /\ pc' = [pc EXCEPT ![s] = AfterNotify(pc[s])]
    BY <1>21 DEF Notify, Goto, Ownership
  <2>2. QED
    BY <1>21, <2>1, AfterNotifyCases DEF Notify
<1>22. ASSUME NEW s \in Sessions, WindowCloses(s) PROVE CurrentOwned'
  BY <1>22 DEF WindowCloses
<1>23. ASSUME NEW p \in Profiles, Close(p) PROVE CurrentOwned'
  BY <1>23 DEF Close
<1>24. ASSUME NEW p \in Profiles, RefreshRow(p) PROVE CurrentOwned'
  BY <1>24 DEF RefreshRow
<1>25. ASSUME NEW p \in Profiles, KeyClose(p) PROVE CurrentOwned'
  BY <1>25 DEF KeyClose
<1>26. ASSUME Tick PROVE CurrentOwned'
  BY <1>26 DEF Tick
<1>27. ASSUME KeyQuit PROVE CurrentOwned'
  BY <1>27 DEF KeyQuit
<1>28. ASSUME CloseAllCancel PROVE CurrentOwned'
  BY <1>28 DEF CloseAllCancel
<1>29. ASSUME CloseAllWait PROVE CurrentOwned'
  BY <1>29 DEF CloseAllWait
<1>30. ASSUME Exit PROVE CurrentOwned'
  BY <1>30 DEF Exit
<1>31. ASSUME Exited PROVE CurrentOwned'
  BY <1>31 DEF Exited, vars
<1>32. QED
  BY <1>1, <1>2, <1>3, <1>4, <1>5, <1>6, <1>7, <1>8, <1>9, <1>10, <1>11,
     <1>12, <1>13, <1>14, <1>15, <1>16, <1>17, <1>18, <1>19, <1>20, <1>21,
     <1>22, <1>23, <1>24, <1>25, <1>26, <1>27, <1>28, <1>29, <1>30, <1>31
  DEF Next, GoStep, LoopStep, ShutdownStep

\* Data becomes dirty when Chrome starts; its session leaves save and packing
\* only by saving it or by recording that the save was given up.
LEMMA DebtHeldStep == TypeOK /\ Ownership /\ DebtHeld /\ Next => DebtHeld'
<1> SUFFICES ASSUME TypeOK, Ownership, DebtHeld, Next PROVE DebtHeld'
  OBVIOUS
<1> USE DEF TypeOK, DebtHeld, Goto, callVars, ctxVars, uiVars, exitVars, diskVars, Stages, Announcing, Opening, Tracked
<1>1. ASSUME NEW p \in Profiles, NEW s \in Sessions, KeyOpen(p, s) PROVE DebtHeld'
  BY <1>1 DEF KeyOpen, Ownership, Occupying
<1>2. ASSUME NEW s \in Sessions, OpenRejected(s) PROVE DebtHeld'
  BY <1>2 DEF OpenRejected
<1>3. ASSUME NEW s \in Sessions, OpenClaim(s) PROVE DebtHeld'
  BY <1>3 DEF OpenClaim
<1>4. ASSUME NEW s \in Sessions, EmitRead(s) PROVE DebtHeld'
  BY <1>4 DEF EmitRead
<1>5. ASSUME NEW s \in Sessions, EmitUnlock(s) PROVE DebtHeld'
  BY <1>5 DEF EmitUnlock
<1>6. ASSUME NEW s \in Sessions, RestoreSkip(s) PROVE DebtHeld'
  BY <1>6 DEF RestoreSkip
<1>7. ASSUME NEW s \in Sessions, RestoreBegin(s) PROVE DebtHeld'
  BY <1>7 DEF RestoreBegin
<1>8. ASSUME NEW s \in Sessions, RestoreFail(s) PROVE DebtHeld'
  BY <1>8 DEF RestoreFail
<1>9. ASSUME NEW s \in Sessions, RestoreEnd(s) PROVE DebtHeld'
  BY <1>9 DEF RestoreEnd
<1>10. ASSUME NEW s \in Sessions, Build(s) PROVE DebtHeld'
  BY <1>10 DEF Build
<1>11. ASSUME NEW s \in Sessions, Fail(s) PROVE DebtHeld'
  BY <1>11 DEF Fail
<1>12. ASSUME NEW s \in Sessions, Run(s) PROVE DebtHeld'
  BY <1>12 DEF Run
<1>13. ASSUME NEW s \in Sessions, Spawn(s) PROVE DebtHeld'
  BY <1>13 DEF Spawn
<1>14. ASSUME NEW s \in Sessions, ChromeStarts(s) PROVE DebtHeld'
  BY <1>14 DEF ChromeStarts, Ownership, Occupying
<1>15. ASSUME NEW s \in Sessions, LaunchFails(s) PROVE DebtHeld'
  BY <1>15 DEF LaunchFails
<1>16. ASSUME NEW s \in Sessions, ChromeStopped(s) PROVE DebtHeld'
  BY <1>16 DEF ChromeStopped
<1>17. ASSUME NEW s \in Sessions, SaveSkip(s) PROVE DebtHeld'
  BY <1>17 DEF SaveSkip, Ownership, Occupying
<1>18. ASSUME NEW s \in Sessions, SaveBegin(s) PROVE DebtHeld'
  BY <1>18 DEF SaveBegin
<1>19. ASSUME NEW s \in Sessions, SaveEnd(s) PROVE DebtHeld'
  BY <1>19 DEF SaveEnd, Ownership, Occupying
<1>20. ASSUME NEW s \in Sessions, Finish(s) PROVE DebtHeld'
  BY <1>20 DEF Finish
<1>21. ASSUME NEW s \in Sessions, Notify(s) PROVE DebtHeld'
  <2>1. /\ pc[s] \in Announcing
        /\ pc' = [pc EXCEPT ![s] = AfterNotify(pc[s])]
    BY <1>21 DEF Notify, Goto, Ownership
  <2>2. QED
    BY <1>21, <2>1, AfterNotifyCases DEF Notify
<1>22. ASSUME NEW s \in Sessions, WindowCloses(s) PROVE DebtHeld'
  BY <1>22 DEF WindowCloses
<1>23. ASSUME NEW p \in Profiles, Close(p) PROVE DebtHeld'
  BY <1>23 DEF Close
<1>24. ASSUME NEW p \in Profiles, RefreshRow(p) PROVE DebtHeld'
  BY <1>24 DEF RefreshRow
<1>25. ASSUME NEW p \in Profiles, KeyClose(p) PROVE DebtHeld'
  BY <1>25 DEF KeyClose
<1>26. ASSUME Tick PROVE DebtHeld'
  BY <1>26 DEF Tick
<1>27. ASSUME KeyQuit PROVE DebtHeld'
  BY <1>27 DEF KeyQuit
<1>28. ASSUME CloseAllCancel PROVE DebtHeld'
  BY <1>28 DEF CloseAllCancel
<1>29. ASSUME CloseAllWait PROVE DebtHeld'
  BY <1>29 DEF CloseAllWait
<1>30. ASSUME Exit PROVE DebtHeld'
  BY <1>30 DEF Exit
<1>31. ASSUME Exited PROVE DebtHeld'
  BY <1>31 DEF Exited, vars
<1>32. QED
  BY <1>1, <1>2, <1>3, <1>4, <1>5, <1>6, <1>7, <1>8, <1>9, <1>10, <1>11,
     <1>12, <1>13, <1>14, <1>15, <1>16, <1>17, <1>18, <1>19, <1>20, <1>21,
     <1>22, <1>23, <1>24, <1>25, <1>26, <1>27, <1>28, <1>29, <1>30, <1>31
  DEF Next, GoStep, LoopStep, ShutdownStep

\* Each change of a listed status puts its session at an announcement, and each
\* delivered announcement starts a refresh of every row.
LEMMA RowsTrackedStep == IInv /\ Next => RowsTracked'
<1> SUFFICES ASSUME TypeOK, Ownership, CurrentOwned, RowsTracked, Next PROVE RowsTracked'
  BY DEF IInv
<1> USE NoneAssumption DEF TypeOK, RowsTracked, Shown, Goto, callVars, ctxVars, uiVars, exitVars, diskVars, Stages, Announcing, Opening, Tracked
<1>1. ASSUME NEW p \in Profiles, NEW s \in Sessions, KeyOpen(p, s) PROVE RowsTracked'
  BY <1>1 DEF KeyOpen, Ownership, CurrentOwned, Occupying
<1>2. ASSUME NEW s \in Sessions, OpenRejected(s) PROVE RowsTracked'
  BY <1>2 DEF OpenRejected
<1>3. ASSUME NEW s \in Sessions, OpenClaim(s) PROVE RowsTracked'
  BY <1>3 DEF OpenClaim, Ownership, CurrentOwned, Occupying
<1>4. ASSUME NEW s \in Sessions, EmitRead(s) PROVE RowsTracked'
  BY <1>4 DEF EmitRead
<1>5. ASSUME NEW s \in Sessions, EmitUnlock(s) PROVE RowsTracked'
  BY <1>5 DEF EmitUnlock
<1>6. ASSUME NEW s \in Sessions, RestoreSkip(s) PROVE RowsTracked'
  BY <1>6 DEF RestoreSkip
<1>7. ASSUME NEW s \in Sessions, RestoreBegin(s) PROVE RowsTracked'
  BY <1>7 DEF RestoreBegin
<1>8. ASSUME NEW s \in Sessions, RestoreFail(s) PROVE RowsTracked'
  BY <1>8 DEF RestoreFail
<1>9. ASSUME NEW s \in Sessions, RestoreEnd(s) PROVE RowsTracked'
  BY <1>9 DEF RestoreEnd
<1>10. ASSUME NEW s \in Sessions, Build(s) PROVE RowsTracked'
  BY <1>10 DEF Build
<1>11. ASSUME NEW s \in Sessions, Fail(s) PROVE RowsTracked'
  BY <1>11 DEF Fail, Ownership, CurrentOwned, Occupying
<1>12. ASSUME NEW s \in Sessions, Run(s) PROVE RowsTracked'
  BY <1>12 DEF Run, Ownership, CurrentOwned, Occupying
<1>13. ASSUME NEW s \in Sessions, Spawn(s) PROVE RowsTracked'
  BY <1>13 DEF Spawn
<1>14. ASSUME NEW s \in Sessions, ChromeStarts(s) PROVE RowsTracked'
  BY <1>14 DEF ChromeStarts
<1>15. ASSUME NEW s \in Sessions, LaunchFails(s) PROVE RowsTracked'
  BY <1>15 DEF LaunchFails
<1>16. ASSUME NEW s \in Sessions, ChromeStopped(s) PROVE RowsTracked'
  BY <1>16 DEF ChromeStopped
<1>17. ASSUME NEW s \in Sessions, SaveSkip(s) PROVE RowsTracked'
  BY <1>17 DEF SaveSkip
<1>18. ASSUME NEW s \in Sessions, SaveBegin(s) PROVE RowsTracked'
  BY <1>18 DEF SaveBegin
<1>19. ASSUME NEW s \in Sessions, SaveEnd(s) PROVE RowsTracked'
  BY <1>19 DEF SaveEnd
<1>20. ASSUME NEW s \in Sessions, Finish(s) PROVE RowsTracked'
  BY <1>20 DEF Finish, Ownership, CurrentOwned, Occupying
<1>21. ASSUME NEW s \in Sessions, Notify(s) PROVE RowsTracked'
  BY <1>21 DEF Notify
<1>22. ASSUME NEW s \in Sessions, WindowCloses(s) PROVE RowsTracked'
  BY <1>22 DEF WindowCloses
<1>23. ASSUME NEW p \in Profiles, Close(p) PROVE RowsTracked'
  BY <1>23 DEF Close
<1>24. ASSUME NEW p \in Profiles, RefreshRow(p) PROVE RowsTracked'
  BY <1>24 DEF RefreshRow
<1>25. ASSUME NEW p \in Profiles, KeyClose(p) PROVE RowsTracked'
  BY <1>25 DEF KeyClose
<1>26. ASSUME Tick PROVE RowsTracked'
  BY <1>26 DEF Tick
<1>27. ASSUME KeyQuit PROVE RowsTracked'
  BY <1>27 DEF KeyQuit
<1>28. ASSUME CloseAllCancel PROVE RowsTracked'
  BY <1>28 DEF CloseAllCancel
<1>29. ASSUME CloseAllWait PROVE RowsTracked'
  BY <1>29 DEF CloseAllWait
<1>30. ASSUME Exit PROVE RowsTracked'
  BY <1>30 DEF Exit
<1>31. ASSUME Exited PROVE RowsTracked'
  BY <1>31 DEF Exited, vars
<1>32. QED
  BY <1>1, <1>2, <1>3, <1>4, <1>5, <1>6, <1>7, <1>8, <1>9, <1>10, <1>11,
     <1>12, <1>13, <1>14, <1>15, <1>16, <1>17, <1>18, <1>19, <1>20, <1>21,
     <1>22, <1>23, <1>24, <1>25, <1>26, <1>27, <1>28, <1>29, <1>30, <1>31
  DEF Next, GoStep, LoopStep, ShutdownStep

-----------------------------------------------------------------------------
\* The invariant holds initially and every step, stuttering ones included, keeps it.
THEOREM Invariance == Spec => []IInv
<1>1. Init => IInv
  BY NoneAssumption DEF Init, IInv, TypeOK, Ownership, CurrentOwned, DebtHeld, RowsTracked,
     Shown, Stages, Announcing, Opening, Tracked, Occupying, Statuses
<1>2. IInv /\ [Next]_vars => IInv'
  <2> SUFFICES ASSUME IInv, [Next]_vars PROVE IInv'
    OBVIOUS
  <2>1. CASE Next
    BY <2>1, TypeStep, OwnershipStep, CurrentOwnedStep, DebtHeldStep, RowsTrackedStep DEF IInv
  <2>2. CASE UNCHANGED vars
    BY <2>2 DEF vars, IInv, TypeOK, Ownership, CurrentOwned, DebtHeld, RowsTracked, Shown,
       Active
  <2>3. QED
    BY <2>1, <2>2
<1>3. QED
  BY <1>1, <1>2, PTL DEF Spec

\* Type correctness of the manager's state, for any profiles and Open calls.
THEOREM TypeCorrect == Spec => []TypeOK
<1>1. IInv => TypeOK
  BY DEF IInv
<1>2. QED
  BY <1>1, Invariance, PTL

\* Restore, browser and pack of one profile are never those of two sessions.
THEOREM DirectoryExclusion == Spec => []OneSessionPerDir
<1>1. IInv => OneSessionPerDir
  BY DEF IInv, Ownership, OneSessionPerDir
<1>2. QED
  BY <1>1, Invariance, PTL

\* A profile the dashboard calls closed has nothing left to be packed.
THEOREM SavedBeforeClosed == Spec => []NotLiveMeansSaved
<1>1. IInv => NotLiveMeansSaved
  <2> SUFFICES ASSUME IInv, NEW p \in Profiles, unsaved[p] = "dirty" PROVE Busy(p)
    BY DEF NotLiveMeansSaved
  <2>1. PICK s \in Sessions : owner[s] = p /\ pc[s] \in {"browsing", "save", "packing"}
    BY DEF IInv, DebtHeld
  <2>2. current[p] = s /\ Active(status[s])
    BY <2>1 DEF IInv, Ownership, Occupying
  <2>3. QED
    BY <2>2, NoneAssumption DEF Busy
<1>2. QED
  BY <1>1, Invariance, PTL

\* When nothing is left to announce, the dashboard shows what the manager knows.
THEOREM RowsCurrent == Spec => []RowsSettle
<1>1. IInv => RowsSettle
  BY DEF IInv, RowsTracked, RowsSettle
<1>2. QED
  BY <1>1, Invariance, PTL

\* An ended session keeps its outcome: fail and Run only ever meet their own,
\* still active session.
THEOREM FinalEnd == Spec => EndIsFinal
<1> DEFINE Ended(s) == pc[s] # "called" /\ status[s] \in {"closed", "error"}
           Kept == \A s \in Sessions : Ended(s) => status'[s] = status[s]
<1>1. IInv /\ [Next]_vars => [Kept]_vars
  <2> SUFFICES ASSUME IInv, Next PROVE Kept
    BY DEF Kept
  <2> USE DEF IInv, TypeOK, Ownership, Occupying, Active
  <2>1. ASSUME NEW s \in Sessions, OpenClaim(s) PROVE Kept
    BY <2>1 DEF OpenClaim
  <2>2. ASSUME NEW s \in Sessions, Fail(s) PROVE Kept
    BY <2>2 DEF Fail
  <2>3. ASSUME NEW s \in Sessions, Run(s) PROVE Kept
    BY <2>3 DEF Run
  <2>4. ASSUME NEW s \in Sessions, Finish(s) PROVE Kept
    BY <2>4 DEF Finish
  <2>5. CASE UNCHANGED status
    BY <2>5
  <2>6. QED
    BY <2>1, <2>2, <2>3, <2>4, <2>5
    DEF Next, GoStep, LoopStep, ShutdownStep, KeyOpen, OpenRejected, EmitRead, EmitUnlock,
        Notify, RestoreSkip, RestoreBegin, RestoreFail, RestoreEnd, Build, Spawn, ChromeStarts,
        LaunchFails, WindowCloses, ChromeStopped, SaveSkip, SaveBegin, SaveEnd, KeyClose, Close,
        Tick, RefreshRow, KeyQuit, CloseAllCancel, CloseAllWait, Exit, Exited, vars
<1>2. QED
  BY <1>1, Invariance, PTL DEF Spec, EndIsFinal

-----------------------------------------------------------------------------
\* A session CloseAll can collect, or has collected, is past Run; the context of
\* a collected one stays done.
Collected ==
  /\ \A s \in Sessions : hasCancel[s] => pc[s] \notin {"idle", "called"}
  /\ \A s \in cancels : ctxDone[s] /\ pc[s] \notin {"idle", "called"}

\* No step takes a call back before its claim, or a context back to live.
LEMMA NothingTurnsBack ==
  ASSUME IInv, Next, NEW s \in Sessions
  PROVE  /\ pc[s] \notin {"idle", "called"} => pc'[s] \notin {"idle", "called"}
         /\ ctxDone[s] => ctxDone'[s]
<1> USE DEF IInv, TypeOK, Goto, callVars, ctxVars, uiVars, exitVars, diskVars
<1>1. ASSUME NEW t \in Sessions, GoStep(t)
      PROVE  pc[s] \notin {"idle", "called"} => pc'[s] \notin {"idle", "called"}
  BY <1>1
  DEF GoStep, OpenRejected, OpenClaim, EmitRead, EmitUnlock, RestoreSkip, RestoreBegin, RestoreFail,
      RestoreEnd, Build, Fail, Run, Spawn, ChromeStarts, LaunchFails, ChromeStopped, SaveSkip,
      SaveBegin, SaveEnd, Finish
<1>2. ASSUME NEW t \in Sessions, GoStep(t) PROVE ctxDone' = ctxDone
  BY <1>2
  DEF GoStep, OpenRejected, OpenClaim, EmitRead, EmitUnlock, RestoreSkip, RestoreBegin, RestoreFail,
      RestoreEnd, Build, Fail, Run, Spawn, ChromeStarts, LaunchFails, ChromeStopped, SaveSkip,
      SaveBegin, SaveEnd, Finish
<1>3. ASSUME NEW t \in Sessions, Notify(t)
      PROVE  /\ pc[s] \notin {"idle", "called"} => pc'[s] \notin {"idle", "called"}
             /\ ctxDone[s] => ctxDone'[s]
  <2>1. pc[t] \in Announcing
    BY <1>3 DEF Notify, Ownership
  <2>2. QED
    BY <1>3, <2>1, AfterNotifyCases DEF Notify
<1>4. ASSUME NEW t \in Sessions, WindowCloses(t) \/ \E p \in Profiles : KeyOpen(p, t)
      PROVE  /\ pc[s] \notin {"idle", "called"} => pc'[s] \notin {"idle", "called"}
             /\ ctxDone' = ctxDone
  BY <1>4 DEF WindowCloses, KeyOpen
<1>5. ASSUME \/ Tick \/ LoopStep \/ KeyQuit \/ ShutdownStep \/ Exited
             \/ \E p \in Profiles : KeyClose(p)
      PROVE  pc' = pc /\ (ctxDone[s] => ctxDone'[s])
  BY <1>5
  DEF Tick, LoopStep, Close, RefreshRow, KeyQuit, ShutdownStep, CloseAllCancel, CloseAllWait, Exit,
      Exited, KeyClose, vars
<1>6. QED
  BY <1>1, <1>2, <1>3, <1>4, <1>5 DEF Next

\* Run comes after the claim, and CloseAll cancels what it collects.
LEMMA CollectedStep ==
  ASSUME IInv, Collected, Next
  PROVE  Collected'
<1> USE DEF IInv, TypeOK, Goto, callVars, ctxVars, uiVars, exitVars, diskVars
<1>1. CASE CloseAllCancel
  BY <1>1 DEF CloseAllCancel, Collected
<1>2. CASE \E s \in Sessions : Run(s)
  <2>1. PICK s \in Sessions : Run(s)
    BY <1>2
  <2>2. /\ hasCancel' = [hasCancel EXCEPT ![s] = TRUE] /\ pc'[s] = "announceRunning"
        /\ cancels' = cancels
    BY <2>1 DEF Run
  <2>3. QED
    BY <2>2, NothingTurnsBack DEF Collected
<1>3. CASE ~CloseAllCancel /\ ~\E s \in Sessions : Run(s)
  <2>1. cancels' = cancels
    BY <1>3
    DEF Next, GoStep, OpenRejected, OpenClaim, EmitRead, EmitUnlock, RestoreSkip, RestoreBegin,
        RestoreFail, RestoreEnd, Build, Fail, Spawn, ChromeStarts, LaunchFails, ChromeStopped,
        SaveSkip, SaveBegin, SaveEnd, Finish, Notify, WindowCloses, KeyOpen, KeyClose, Tick,
        LoopStep, Close, RefreshRow, KeyQuit, ShutdownStep, CloseAllWait, Exit, Exited, vars
  <2>2. \A s \in Sessions : hasCancel'[s] => hasCancel[s]
    BY <1>3
    DEF Next, GoStep, OpenRejected, OpenClaim, EmitRead, EmitUnlock, RestoreSkip, RestoreBegin,
        RestoreFail, RestoreEnd, Build, Fail, Spawn, ChromeStarts, LaunchFails, ChromeStopped,
        SaveSkip, SaveBegin, SaveEnd, Finish, Notify, WindowCloses, KeyOpen, KeyClose, Tick,
        LoopStep, Close, RefreshRow, KeyQuit, ShutdownStep, CloseAllWait, Exit, Exited, vars
  <2>3. QED
    BY <2>1, <2>2, NothingTurnsBack DEF Collected
<1>4. QED
  BY <1>1, <1>2, <1>3

\* Once CloseAll has waited, a new browser is one that was not collected, and it
\* has a session of its own in the map.
LEMMA DrainStep ==
  ASSUME IInv, Collected, DrainClosesCollected, Next
  PROVE  DrainClosesCollected'
<1> USE DEF IInv, TypeOK, Goto, callVars, ctxVars, uiVars, exitVars, diskVars
<1> SUFFICES ASSUME phase' \in {"drained", "exited"}, NEW s \in cancels'
    PROVE  /\ pc'[s] # "browsing"
           /\ current'[owner'[s]] = s => unsaved'[owner'[s]] # "dirty"
  BY DEF DrainClosesCollected
<1>1. CASE CloseAllWait
  <2>1. pc[s] \notin Tracked /\ UNCHANGED <<pc, cancels, owner, current, unsaved>>
    BY <1>1 DEF CloseAllWait
  <2>2. unsaved[owner[s]] # "dirty"
    <3>1. pc[s] # "idle"
      BY <2>1 DEF Collected
    <3>2. owner[s] \in Profiles
      BY <2>1, <3>1 DEF Ownership
    <3>3. QED
      BY <1>1, <3>2 DEF DebtHeld, CloseAllWait, Tracked
  <2>3. QED
    BY <2>1, <2>2 DEF Tracked
<1>2. CASE ~CloseAllWait
  <2>1. phase \in {"drained", "exited"} /\ cancels' = cancels /\ owner' = owner
    BY <1>2
    DEF Next, GoStep, OpenRejected, OpenClaim, EmitRead, EmitUnlock, RestoreSkip, RestoreBegin,
        RestoreFail, RestoreEnd, Build, Fail, Run, Spawn, ChromeStarts, LaunchFails, ChromeStopped,
        SaveSkip, SaveBegin, SaveEnd, Finish, Notify, WindowCloses, KeyOpen, KeyClose, Tick,
        LoopStep, Close, RefreshRow, KeyQuit, ShutdownStep, CloseAllCancel, Exit, Exited, vars
  <2>2. /\ ctxDone[s] /\ pc[s] \notin {"idle", "called", "browsing"}
        /\ owner[s] \in Profiles
        /\ current[owner[s]] = s => unsaved[owner[s]] # "dirty"
    BY <2>1 DEF Collected, DrainClosesCollected, Ownership
  <2>3. ASSUME NEW t \in Sessions, OpenClaim(t) PROVE t # s /\ current'[owner[s]] \in {current[owner[s]], t}
    BY <2>2, <2>3 DEF OpenClaim, Ownership
  <2>4. ASSUME NEW t \in Sessions, ChromeStarts(t)
        PROVE  /\ t # s /\ current' = current
               /\ unsaved'[owner[s]] = unsaved[owner[s]] \/ current[owner[s]] = t
    BY <2>2, <2>4 DEF ChromeStarts, Ownership, Occupying
  <2>5. pc'[s] # "browsing"
    <3>1. ASSUME NEW t \in Sessions, Notify(t) PROVE pc'[s] # "browsing"
      BY <2>2, <3>1, AfterNotifyCases DEF Notify, Ownership
    <3>2. QED
      BY <2>2, <2>4, <3>1
      DEF Next, GoStep, OpenRejected, OpenClaim, EmitRead, EmitUnlock, RestoreSkip, RestoreBegin,
          RestoreFail, RestoreEnd, Build, Fail, Run, Spawn, ChromeStarts, LaunchFails,
          ChromeStopped, SaveSkip, SaveBegin, SaveEnd, Finish, WindowCloses, KeyOpen, KeyClose,
          Tick, LoopStep, Close, RefreshRow, KeyQuit, ShutdownStep, CloseAllCancel, CloseAllWait,
          Exit, Exited, vars
  <2>6. current'[owner[s]] = s => unsaved'[owner[s]] # "dirty"
    <3>1. ASSUME NEW t \in Sessions, SaveSkip(t) \/ SaveEnd(t)
          PROVE  current' = current /\ (unsaved'[owner[s]] = "dirty" => unsaved[owner[s]] = "dirty")
      BY <2>2, <3>1 DEF SaveSkip, SaveEnd
    <3>2. ASSUME NEW t \in Sessions, OpenClaim(t) PROVE unsaved' = unsaved
      BY <3>2 DEF OpenClaim
    <3>3. CASE UNCHANGED <<current, unsaved>>
      BY <2>2, <3>3
    <3>4. QED
      BY <2>2, <2>3, <2>4, <3>1, <3>2, <3>3
      DEF Next, GoStep, OpenRejected, EmitRead, EmitUnlock, RestoreSkip, RestoreBegin, RestoreFail,
          RestoreEnd, Build, Fail, Run, Spawn, LaunchFails, ChromeStopped, SaveBegin, Finish,
          Notify, WindowCloses, KeyOpen, KeyClose, Tick, LoopStep, Close, RefreshRow, KeyQuit,
          ShutdownStep, CloseAllCancel, CloseAllWait, Exit, Exited, vars
  <2>7. QED
    BY <2>1, <2>5, <2>6
<1>3. QED
  BY <1>1, <1>2

\* When CloseAll has waited, the browsers it cancelled are gone and what was
\* browsed in them was offered to the bundle, for any number of sessions.
THEOREM DrainedClosed == Spec => []DrainClosesCollected
<1>1. Init => Collected /\ DrainClosesCollected
  BY DEF Init, Collected, DrainClosesCollected
<1>2. IInv /\ Collected /\ DrainClosesCollected /\ [Next]_vars
        => (Collected /\ DrainClosesCollected)'
  <2>1. ASSUME Collected, DrainClosesCollected, UNCHANGED vars
        PROVE  (Collected /\ DrainClosesCollected)'
    BY <2>1 DEF Collected, DrainClosesCollected, vars
  <2>2. QED
    BY <2>1, CollectedStep, DrainStep
<1>3. QED
  BY <1>1, <1>2, Invariance, PTL DEF Spec

-----------------------------------------------------------------------------
(* The refinement of ProfileLease.  The lease of a profile is its entry in  *)
(* the map, and the work under it what the one occupant of the directory is *)
(* doing; each step of a goroutine is a step of the lease or none.          *)

Debt(p) == unsaved[p] = "dirty"

\* The lease of q did not change.
Same(q) == HolderOf(q)' = HolderOf(q) /\ WorkIn(q)' = WorkIn(q) /\ Debt(q)' = Debt(q)

\* Whoever occupies a directory holds its lease, and is alone at work in it.
LEMMA HolderFacts ==
  ASSUME IInv, NEW s \in Sessions, pc[s] \in Occupying
  PROVE  /\ owner[s] \in Profiles
         /\ HolderOf(owner[s]) = s /\ s # None
         /\ WorkIn(owner[s]) = IF pc[s] \in Working THEN {WorkOf(pc[s])} ELSE {}
<1>1. /\ owner[s] \in Profiles
      /\ current[owner[s]] = s /\ Active(status[s]) /\ s # None
  BY NoneAssumption DEF IInv, Ownership, Occupying
<1>2. HolderOf(owner[s]) = s
  BY <1>1 DEF HolderOf, Busy
<1>3. \A t \in Sessions : owner[t] = owner[s] /\ pc[t] \in Working => t = s
  BY <1>1 DEF IInv, Ownership, Occupying, Working
<1>4. {t \in Sessions : owner[t] = owner[s] /\ pc[t] \in Working}
        = IF pc[s] \in Working THEN {s} ELSE {}
  BY <1>3
<1>5. QED
  BY <1>1, <1>2, <1>4 DEF WorkIn

\* Without an occupant there is no work in a directory.
LEMMA NoOccupantNoWork ==
  ASSUME NEW p \in Profiles, \A t \in Sessions : owner[t] = p => pc[t] \notin Occupying
  PROVE  WorkIn(p) = {}
BY DEF WorkIn, Working, Occupying

\* Debt is the occupant's: none when it is not past the browser.
LEMMA DebtFacts ==
  ASSUME IInv, NEW s \in Sessions, pc[s] \in Occupying \ {"browsing", "save", "packing"}
  PROVE  ~Debt(owner[s])
<1>1. owner[s] \in Profiles
  BY DEF IInv, Ownership, Occupying
<1>2. ASSUME NEW t \in Sessions, owner[t] = owner[s], pc[t] \in {"browsing", "save", "packing"}
      PROVE  t = s
  BY <1>2 DEF IInv, Ownership, Occupying
<1>3. QED
  BY <1>1, <1>2 DEF IInv, DebtHeld, Debt

\* A step that changes one profile's lease is a step of ProfileLease.
LEMMA LeaseStep ==
  ASSUME NEW p \in Profiles, \A q \in Profiles \ {p} : Same(q),
         \/ \E s \in Sessions :
              HolderOf(p) = None /\ HolderOf(p)' = s /\ WorkIn(p)' = WorkIn(p) /\ Debt(p)' = Debt(p)
         \/ \E a \in {"restoring", "browsing", "saving"} :
              /\ HolderOf(p) # None /\ HolderOf(p)' = HolderOf(p)
              /\ WorkIn(p) = {} /\ WorkIn(p)' = {a}
              /\ a = "restoring" => ~Debt(p)
              /\ Debt(p)' = (Debt(p) \/ a = "browsing")
         \/ \E a \in {"restoring", "browsing", "saving"} :
              /\ HolderOf(p) # None /\ HolderOf(p)' = HolderOf(p)
              /\ WorkIn(p) = {a} /\ WorkIn(p)' = {}
              /\ Debt(p)' = (Debt(p) /\ a # "saving")
         \/ /\ HolderOf(p) # None /\ HolderOf(p)' = HolderOf(p)
             /\ WorkIn(p) = {} /\ WorkIn(p)' = {} /\ Debt(p)' = FALSE
         \/ /\ WorkIn(p) = {} /\ WorkIn(p)' = {} /\ ~Debt(p) /\ Debt(p)' = FALSE
             /\ HolderOf(p)' = None
  PROVE  Lease!Next
<1> USE DEF Same, Debt
<1>1. ASSUME NEW s \in Sessions, HolderOf(p) = None, HolderOf(p)' = s, WorkIn(p)' = WorkIn(p),
             Debt(p)' = Debt(p)
      PROVE  Lease!Acquire(p, s)
  BY <1>1 DEF Lease!Acquire
<1>2. ASSUME NEW a \in {"restoring", "browsing", "saving"},
             HolderOf(p) # None, HolderOf(p)' = HolderOf(p), WorkIn(p) = {}, WorkIn(p)' = {a},
             a = "restoring" => ~Debt(p), Debt(p)' = (Debt(p) \/ a = "browsing")
      PROVE  Lease!Begin(p, a)
  BY <1>2 DEF Lease!Begin
<1>3. ASSUME NEW a \in {"restoring", "browsing", "saving"},
             HolderOf(p) # None, HolderOf(p)' = HolderOf(p), WorkIn(p) = {a}, WorkIn(p)' = {},
             Debt(p)' = (Debt(p) /\ a # "saving")
      PROVE  Lease!End(p, a)
  BY <1>3 DEF Lease!End
<1>4. ASSUME HolderOf(p) # None, HolderOf(p)' = HolderOf(p), WorkIn(p) = {}, WorkIn(p)' = {},
             Debt(p)' = FALSE
      PROVE  Lease!GiveUpSave(p)
  BY <1>4 DEF Lease!GiveUpSave
<1>5. ASSUME WorkIn(p) = {}, WorkIn(p)' = {}, ~Debt(p), Debt(p)' = FALSE, HolderOf(p)' = None
      PROVE  Lease!Release(p)
  BY <1>5 DEF Lease!Release
<1>6. QED
  BY <1>1, <1>2, <1>3, <1>4, <1>5 DEF Lease!Next, Lease!Activities

\* What an occupant's step does to its own lease, and that it does nothing to another.
LEMMA OwnMoves ==
  ASSUME IInv, NEW s \in Sessions, pc[s] \in Occupying, NEW stage \in Stages,
         NEW p \in Profiles, owner[s] = p,
         pc' = [pc EXCEPT ![s] = stage], owner' = owner, current' = current,
         \A t \in Sessions : t # s => status'[t] = status[t]
  PROVE  /\ WorkIn(p)' = IF stage \in Working THEN {WorkOf(stage)} ELSE {}
         /\ HolderOf(p)' = IF Active(status'[s]) THEN s ELSE None
         /\ \A q \in Profiles \ {p} :
              HolderOf(q)' = HolderOf(q) /\ WorkIn(q)' = WorkIn(q)
<1>1. /\ current[p] = s /\ s # None
      /\ pc'[s] = stage
      /\ \A t \in Sessions : t # s => pc'[t] = pc[t]
  BY NoneAssumption DEF IInv, TypeOK, Ownership, Occupying
<1>2. \A t \in Sessions : owner[t] = p /\ pc[t] \in Working => t = s
  BY <1>1 DEF IInv, Ownership, Occupying, Working
<1>3. WorkIn(p)' = IF stage \in Working THEN {WorkOf(stage)} ELSE {}
  <2>1. {t \in Sessions : owner[t] = p /\ pc'[t] \in Working}
          = IF stage \in Working THEN {s} ELSE {}
    BY <1>1, <1>2
  <2>2. QED
    BY <1>1, <2>1 DEF WorkIn
<1>4. HolderOf(p)' = IF Active(status'[s]) THEN s ELSE None
  BY <1>1 DEF HolderOf, Busy, Active
<1>5. ASSUME NEW q \in Profiles \ {p}
      PROVE  HolderOf(q)' = HolderOf(q) /\ WorkIn(q)' = WorkIn(q)
  <2>1. current[q] # s /\ (current[q] # None => current[q] \in Sessions)
    BY <1>1, <1>5 DEF IInv, TypeOK, CurrentOwned
  <2>2. HolderOf(q)' = HolderOf(q)
    BY <2>1 DEF HolderOf, Busy, Active
  <2>3. {t \in Sessions : owner[t] = q /\ pc'[t] \in Working}
          = {t \in Sessions : owner[t] = q /\ pc[t] \in Working}
    BY <1>1, <1>5
  <2>4. WorkIn(q)' = WorkIn(q)
    BY <1>1, <2>3 DEF WorkIn
  <2>5. QED
    BY <2>2, <2>4
<1>6. QED
  BY <1>1, <1>3, <1>4, <1>5

\* A goroutine that neither works in a directory nor is about to leaves every lease.
LEMMA IdleMoves ==
  ASSUME IInv, NEW s \in Sessions, NEW stage \in Stages \ Working, pc[s] \notin Working,
         pc' = [pc EXCEPT ![s] = stage],
         \/ owner' = owner
         \/ \E p \in Profiles : owner' = [owner EXCEPT ![s] = p],
         UNCHANGED <<current, status, unsaved>>
  PROVE  \A q \in Profiles : Same(q)
<1> SUFFICES ASSUME NEW q \in Profiles PROVE Same(q)
  OBVIOUS
<1>1. \A t \in Sessions : pc'[t] \in Working <=> pc[t] \in Working
  BY DEF IInv, TypeOK
<1>2. \A t \in Sessions : pc[t] \in Working => pc'[t] = pc[t] /\ owner'[t] = owner[t]
  BY DEF IInv, TypeOK
<1>3. {t \in Sessions : owner'[t] = q /\ pc'[t] \in Working}
        = {t \in Sessions : owner[t] = q /\ pc[t] \in Working}
  BY <1>1, <1>2
<1>4. WorkIn(q)' = WorkIn(q)
  BY <1>2, <1>3 DEF WorkIn
<1>5. HolderOf(q)' = HolderOf(q) /\ Debt(q)' = Debt(q)
  BY DEF HolderOf, Busy, Active, Debt
<1>6. QED
  BY <1>4, <1>5 DEF Same

\* A claim acquires the lease of a profile that is not busy.
LEMMA ClaimAcquires ==
  ASSUME IInv, NEW s \in Sessions, OpenClaim(s)
  PROVE  Lease!Next
<1> DEFINE p == owner[s]
<1>1. /\ p \in Profiles /\ ~Busy(p) /\ s # None /\ pc[s] = "called"
      /\ current' = [current EXCEPT ![p] = s]
      /\ status' = [status EXCEPT ![s] = "starting"]
      /\ pc' = [pc EXCEPT ![s] = "announceStarting"]
      /\ owner' = owner /\ unsaved' = unsaved
  BY NoneAssumption DEF OpenClaim, Goto, IInv, Ownership, diskVars
<1>2. \A q \in Profiles : WorkIn(q)' = WorkIn(q) /\ Debt(q)' = Debt(q)
  <2> SUFFICES ASSUME NEW q \in Profiles PROVE WorkIn(q)' = WorkIn(q) /\ Debt(q)' = Debt(q)
    OBVIOUS
  <2>1. \A t \in Sessions : pc[t] \in Working \/ pc'[t] \in Working => pc'[t] = pc[t]
    BY <1>1 DEF IInv, TypeOK, Working
  <2>2. {t \in Sessions : owner'[t] = q /\ pc'[t] \in Working}
          = {t \in Sessions : owner[t] = q /\ pc[t] \in Working}
    BY <1>1, <2>1
  <2>3. QED
    BY <1>1, <2>1, <2>2 DEF WorkIn, Debt
<1>3. \A q \in Profiles \ {p} : HolderOf(q)' = HolderOf(q)
  <2> SUFFICES ASSUME NEW q \in Profiles \ {p} PROVE HolderOf(q)' = HolderOf(q)
    OBVIOUS
  <2>1. current'[q] = current[q] /\ current[q] # s
    BY <1>1 DEF IInv, TypeOK, CurrentOwned
  <2>2. QED
    BY <1>1, <2>1 DEF HolderOf, Busy, Active, IInv, TypeOK
<1>4. HolderOf(p) = None /\ HolderOf(p)' = s
  BY <1>1 DEF HolderOf, Busy, Active, IInv, TypeOK
<1>5. QED
  BY <1>1, <1>2, <1>3, <1>4, LeaseStep DEF Same

\* A session that fails or finishes releases its lease, with nothing at work and
\* nothing owed.
LEMMA EndReleases ==
  ASSUME IInv, NEW s \in Sessions, Fail(s) \/ Finish(s)
  PROVE  Lease!Next
<1> USE DEF Goto, callVars, diskVars
<1>0. PICK p \in Profiles : p = owner[s]
  BY DEF Fail, Finish, IInv, Ownership
<1>1. PICK stage \in {"announceFailed", "announceEnd"} :
      /\ pc' = [pc EXCEPT ![s] = stage]
      /\ pc[s] \in {"failing", "finish"}
      /\ owner' = owner /\ current' = current /\ unsaved' = unsaved
      /\ current[owner[s]] = s
  BY DEF Fail, Finish, IInv, Ownership, Occupying
<1>2. ~Active(status'[s]) /\ \A t \in Sessions : t # s => status'[t] = status[t]
  BY <1>1 DEF Fail, Finish, IInv, TypeOK, Active
<1>3. /\ WorkIn(p)' = {} /\ HolderOf(p)' = None
      /\ \A q \in Profiles \ {p} : HolderOf(q)' = HolderOf(q) /\ WorkIn(q)' = WorkIn(q)
  BY <1>1, <1>2, <1>0, OwnMoves DEF Occupying, Stages, Announcing, Working
<1>4. WorkIn(p) = {} /\ ~Debt(p)
  BY <1>1, <1>0, HolderFacts, DebtFacts DEF Occupying, Working
<1>5. Debt(p)' = FALSE /\ \A q \in Profiles : Debt(q)' = Debt(q)
  BY <1>1, <1>4 DEF Debt
<1>6. QED
  BY <1>3, <1>4, <1>5, LeaseStep DEF Same

\* Unpacking, browsing and packing begin under the lease, with no work in progress.
LEMMA WorkBegins ==
  ASSUME IInv, NEW s \in Sessions, RestoreBegin(s) \/ ChromeStarts(s) \/ SaveBegin(s)
  PROVE  Lease!Next
<1> USE DEF Goto, callVars, diskVars
<1>0. PICK p \in Profiles : p = owner[s]
  BY DEF RestoreBegin, ChromeStarts, SaveBegin, IInv, Ownership
<1>1. PICK stage \in Working :
        /\ pc[s] \in Occupying \ Working /\ pc' = [pc EXCEPT ![s] = stage]
        /\ stage = "unpacking" => pc[s] = "restore"
        /\ unsaved' = IF stage = "browsing" THEN [unsaved EXCEPT ![owner[s]] = "dirty"] ELSE unsaved
        /\ UNCHANGED <<owner, current, status>>
  BY DEF RestoreBegin, ChromeStarts, SaveBegin, Occupying, Working
<1>2. Active(status'[s]) /\ stage \in Stages
  BY <1>1 DEF IInv, Ownership, Active, Working, Stages, Opening, Tracked
<1>3. /\ WorkIn(p)' = {WorkOf(stage)} /\ HolderOf(p)' = s
      /\ \A q \in Profiles \ {p} : HolderOf(q)' = HolderOf(q) /\ WorkIn(q)' = WorkIn(q)
  BY <1>1, <1>2, <1>0, OwnMoves
<1>4. WorkIn(p) = {} /\ HolderOf(p) = s /\ s # None
  BY <1>1, <1>0, HolderFacts
<1>5. /\ WorkOf(stage) \in {"restoring", "browsing", "saving"}
      /\ WorkOf(stage) = "restoring" <=> stage = "unpacking"
      /\ WorkOf(stage) = "browsing" <=> stage = "browsing"
  BY DEF WorkOf, Working
<1>6. WorkOf(stage) = "restoring" => ~Debt(p)
  BY <1>0, <1>1, <1>5, DebtFacts DEF Occupying
<1>7. /\ Debt(p)' = (Debt(p) \/ WorkOf(stage) = "browsing")
      /\ \A q \in Profiles \ {p} : Debt(q)' = Debt(q)
  BY <1>0, <1>1, <1>5 DEF Debt, IInv, TypeOK
<1>8. QED
  BY <1>3, <1>4, <1>5, <1>6, <1>7, LeaseStep DEF Same

\* They end under it; packing settles the debt, whether or not it succeeded.
LEMMA WorkEnds ==
  ASSUME IInv, NEW s \in Sessions,
         RestoreEnd(s) \/ WindowCloses(s) \/ ChromeStopped(s) \/ SaveEnd(s)
  PROVE  Lease!Next
<1> USE DEF Goto, callVars, diskVars
<1>0. PICK p \in Profiles : p = owner[s]
  BY DEF RestoreEnd, WindowCloses, ChromeStopped, SaveEnd, IInv, Ownership
<1>1. PICK stage \in Stages \ Working :
        /\ pc[s] \in Working /\ pc' = [pc EXCEPT ![s] = stage]
        /\ UNCHANGED <<owner, current, status>>
  BY DEF RestoreEnd, WindowCloses, ChromeStopped, SaveEnd, Working, Stages, Opening, Tracked
<1>2. pc[s] \in Occupying /\ Active(status'[s])
  BY <1>1 DEF IInv, Ownership, Active, Working, Occupying
<1>3. /\ WorkIn(p)' = {} /\ HolderOf(p)' = s
      /\ \A q \in Profiles \ {p} : HolderOf(q)' = HolderOf(q) /\ WorkIn(q)' = WorkIn(q)
  BY <1>1, <1>2, <1>0, OwnMoves
<1>4. WorkIn(p) = {WorkOf(pc[s])} /\ HolderOf(p) = s /\ s # None
  BY <1>1, <1>2, <1>0, HolderFacts
<1>5. /\ WorkOf(pc[s]) \in {"restoring", "browsing", "saving"}
      /\ WorkOf(pc[s]) = "saving" <=> pc[s] = "packing"
  BY <1>1 DEF WorkOf, Working
<1>6. /\ Debt(p)' = (Debt(p) /\ WorkOf(pc[s]) # "saving")
      /\ \A q \in Profiles \ {p} : Debt(q)' = Debt(q)
  <2>1. CASE SaveEnd(s)
    BY <1>0, <1>5, <2>1 DEF SaveEnd, Debt, IInv, TypeOK
  <2>2. CASE ~SaveEnd(s)
    BY <1>5, <2>2 DEF RestoreEnd, WindowCloses, ChromeStopped, Debt, IInv, TypeOK
  <2>3. QED
    BY <2>1, <2>2
<1>7. QED
  BY <1>3, <1>4, <1>5, <1>6, LeaseStep DEF Same

\* A save that is skipped gives the debt up.
LEMMA SkipGivesUp ==
  ASSUME IInv, NEW s \in Sessions, SaveSkip(s)
  PROVE  Lease!Next
<1> USE DEF Goto, callVars, diskVars
<1>0. PICK p \in Profiles : p = owner[s]
  BY DEF SaveSkip, IInv, Ownership
<1>1. /\ pc[s] = "save" /\ pc' = [pc EXCEPT ![s] = "finish"]
      /\ unsaved' = [unsaved EXCEPT ![owner[s]] = IF @ = "dirty" THEN "kept" ELSE @]
      /\ UNCHANGED <<owner, current, status>>
  BY DEF SaveSkip
<1>2. Active(status'[s])
  BY <1>1 DEF IInv, Ownership, Active, Occupying
<1>3. /\ WorkIn(p)' = {} /\ HolderOf(p)' = s
      /\ \A q \in Profiles \ {p} : HolderOf(q)' = HolderOf(q) /\ WorkIn(q)' = WorkIn(q)
  BY <1>1, <1>2, <1>0, OwnMoves DEF Occupying, Working, Stages, Tracked
<1>4. WorkIn(p) = {} /\ HolderOf(p) = s /\ s # None
  BY <1>1, <1>0, HolderFacts DEF Occupying, Working
<1>5. Debt(p)' = FALSE /\ \A q \in Profiles \ {p} : Debt(q)' = Debt(q)
  BY <1>0, <1>1 DEF Debt, IInv, TypeOK
<1>6. QED
  BY <1>3, <1>4, <1>5, LeaseStep DEF Same

\* Run makes a live session running: it was live before.
LEMMA RunKeepsLease ==
  ASSUME IInv, NEW s \in Sessions, Run(s)
  PROVE  \A q \in Profiles : Same(q)
<1> USE DEF Goto, callVars, diskVars
<1>0. PICK p \in Profiles : p = owner[s]
  BY DEF Run, IInv, Ownership
<1>1. /\ pc[s] = "ready" /\ pc' = [pc EXCEPT ![s] = "announceRunning"]
      /\ status' = [status EXCEPT ![s] = "running"]
      /\ UNCHANGED <<owner, current, unsaved>>
  BY DEF Run
<1>2. Active(status'[s]) /\ \A t \in Sessions : t # s => status'[t] = status[t]
  BY <1>1 DEF IInv, TypeOK, Active
<1>3. /\ WorkIn(p)' = {} /\ HolderOf(p)' = s
      /\ \A q \in Profiles \ {p} : HolderOf(q)' = HolderOf(q) /\ WorkIn(q)' = WorkIn(q)
  BY <1>1, <1>2, <1>0, OwnMoves DEF Occupying, Working, Stages, Announcing
<1>4. WorkIn(p) = {} /\ HolderOf(p) = s
  BY <1>1, <1>0, HolderFacts DEF Occupying, Working
<1>5. \A q \in Profiles : Debt(q)' = Debt(q)
  BY <1>1 DEF Debt
<1>6. QED
  BY <1>3, <1>4, <1>5 DEF Same

\* The other steps of goroutines and keys leave every lease.
LEMMA OtherKeepLease ==
  ASSUME IInv, NEW s \in Sessions,
         \/ OpenRejected(s) \/ Notify(s) \/ RestoreSkip(s) \/ RestoreFail(s) \/ Build(s)
         \/ Spawn(s) \/ LaunchFails(s) \/ \E p \in Profiles : KeyOpen(p, s)
  PROVE  \A q \in Profiles : Same(q)
<1>1. PICK stage \in Stages \ Working : pc' = [pc EXCEPT ![s] = stage] /\ pc[s] \notin Working
  <2>1. CASE Notify(s)
    BY <2>1, AfterNotifyCases
    DEF Notify, Goto, IInv, Ownership, Stages, Opening, Announcing, Tracked, Working
  <2>2. CASE ~Notify(s)
    BY <2>2
    DEF OpenRejected, RestoreSkip, RestoreFail, Build, Spawn, LaunchFails, KeyOpen, Goto, Stages,
        Opening, Announcing, Tracked, Working
  <2>3. QED
    BY <2>1, <2>2
<1>2. UNCHANGED <<current, status, unsaved>>
  BY DEF OpenRejected, Notify, RestoreSkip, RestoreFail, Build, Spawn, LaunchFails, KeyOpen,
         callVars, diskVars
<1>3. owner' = owner \/ \E p \in Profiles : owner' = [owner EXCEPT ![s] = p]
  BY DEF OpenRejected, Notify, RestoreSkip, RestoreFail, Build, Spawn, LaunchFails, KeyOpen, callVars
<1>4. QED
  BY <1>1, <1>2, <1>3, IdleMoves

\* So do the loop, the mutex of emit and the way out of the program.
LEMMA LoopKeepsLease ==
  ASSUME \/ \E s \in Sessions : EmitRead(s) \/ EmitUnlock(s)
         \/ \E p \in Profiles : KeyClose(p)
         \/ Tick \/ LoopStep \/ KeyQuit \/ ShutdownStep \/ Exited \/ UNCHANGED vars
  PROVE  \A q \in Profiles : Same(q)
<1>1. UNCHANGED <<pc, owner, current, status, unsaved>>
  BY DEF EmitRead, EmitUnlock, KeyClose, Tick, LoopStep, Close, RefreshRow, KeyQuit, ShutdownStep,
         CloseAllCancel, CloseAllWait, Exit, Exited, vars, callVars, diskVars
<1>2. QED
  BY <1>1 DEF Same, HolderOf, Busy, Active, WorkIn, Debt

\* The manager implements the lease on data directories: whatever goroutines, the
\* loop and the shutdown do, restoring, browsing and packing happen under one
\* session's lease, one after the other, and it is given back with nothing owed.
THEOREM ImplementsLease == Spec => LeaseSpec
<1>1. Init => Lease!Init
  <2> SUFFICES ASSUME Init PROVE Lease!Init
    OBVIOUS
  <2>1. \A p \in Profiles : HolderOf(p) = None /\ WorkIn(p) = {} /\ unsaved[p] # "dirty"
    BY DEF Init, HolderOf, Busy, WorkIn, Working
  <2>2. QED
    BY <2>1 DEF Lease!Init
<1>2. ASSUME \A q \in Profiles : Same(q) PROVE UNCHANGED Lease!leaseVars
  BY <1>2 DEF Same, Debt, Lease!leaseVars
<1>3. IInv /\ [Next]_vars => [Lease!Next]_(Lease!leaseVars)
  <2> SUFFICES ASSUME IInv, [Next]_vars PROVE Lease!Next \/ \A q \in Profiles : Same(q)
    BY <1>2
  <2>1. ASSUME NEW s \in Sessions, GoStep(s) \/ Notify(s) \/ WindowCloses(s)
        PROVE  Lease!Next \/ \A q \in Profiles : Same(q)
    BY <2>1, ClaimAcquires, EndReleases, WorkBegins, WorkEnds, SkipGivesUp, RunKeepsLease,
       OtherKeepLease, LoopKeepsLease DEF GoStep
  <2>2. ASSUME NEW s \in Sessions, NEW p \in Profiles, KeyOpen(p, s)
        PROVE  \A q \in Profiles : Same(q)
    BY <2>2, OtherKeepLease
  <2>3. QED
    BY <2>1, <2>2, LoopKeepsLease DEF Next
<1>4. QED
  BY <1>1, <1>3, Invariance, PTL DEF Spec, LeaseSpec, Lease!Spec
=============================================================================
