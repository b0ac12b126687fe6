---------------------------- MODULE SessionProofs ----------------------------
(***************************************************************************)
(* Proofs, for every set of connections and users, of the safety           *)
(* properties of module Session.                                           *)
(***************************************************************************)
EXTENDS Session, TLAPS

\* Every action keeps the types.
LEMMA TypeNext == TypeOK /\ [Next]_vars => TypeOK'
<1> SUFFICES ASSUME TypeOK, [Next]_vars PROVE TypeOK'
  OBVIOUS
<1> USE NoConnAssumption, NoIdAssumption, ReachableAssumption
    DEF TypeOK, Ids, OptConn, Serving, PCs, EndPCs, Ended, Goto, EndStep,
        BeginEnd, CallEnd, handlerVars, endVars, dbVars, attachVars,
        registryVars, watchVars, reapVars, vars

<1>1. ASSUME NEW c \in Conns, Refuse(c) PROVE TypeOK'
  BY <1>1 DEF Refuse
<1>2. ASSUME NEW c \in Conns, ResumeGet(c) PROVE TypeOK'
  BY <1>2 DEF ResumeGet
<1>3. ASSUME NEW c \in Conns, ResumeCheck(c) PROVE TypeOK'
  BY <1>3 DEF ResumeCheck
<1>4. ASSUME NEW c \in Conns, DialFails(c) PROVE TypeOK'
  BY <1>4 DEF DialFails
<1>5. ASSUME NEW c \in Conns, CreateSession(c) PROVE TypeOK'
  BY <1>5 DEF CreateSession
<1>6. ASSUME NEW c \in Conns, ShellFails(c) PROVE TypeOK'
  BY <1>6 DEF ShellFails, FinaliseRow
<1>7. ASSUME NEW c \in Conns, StartShell(c) PROVE TypeOK'
  BY <1>7 DEF StartShell
<1>8. ASSUME NEW c \in Conns, StoreAdd(c) PROVE TypeOK'
  BY <1>8 DEF StoreAdd
<1>9. ASSUME NEW c \in Conns, HubRegister(c) PROVE TypeOK'
  BY <1>9 DEF HubRegister
<1>10. ASSUME NEW c \in Conns, Attach(c) PROVE TypeOK'
  BY <1>10 DEF Attach
<1>11. ASSUME NEW c \in Conns, StartWatch(c) PROVE TypeOK'
  BY <1>11 DEF StartWatch
<1>12. ASSUME NEW c \in Conns, RunInputReturns(c) PROVE TypeOK'
  BY <1>12 DEF RunInputReturns
<1>13. ASSUME NEW c \in Conns, StopWatch(c) PROVE TypeOK'
  BY <1>13 DEF StopWatch
<1>14. ASSUME NEW c \in Conns, Detach(c) PROVE TypeOK'
  BY <1>14 DEF Detach
<1>15. ASSUME NEW c \in Conns, NEW i \in Ids \ {c}, Upgrade(c, i) PROVE TypeOK'
  BY <1>15 DEF Upgrade
<1>16. ASSUME NEW s \in Conns, EndClosesShell(s) PROVE TypeOK'
  BY <1>16 DEF EndClosesShell
<1>17. ASSUME NEW s \in Conns, EndSession(s) PROVE TypeOK'
  BY <1>17 DEF EndSession, FinaliseRow
<1>18. ASSUME NEW s \in Conns, EndUnregisters(s) PROVE TypeOK'
  BY <1>18 DEF EndUnregisters
<1>19. ASSUME NEW s \in Conns, EndRemoves(s) PROVE TypeOK'
  BY <1>19 DEF EndRemoves
<1>20. ASSUME NEW s \in Conns, EndClosesSocket(s) PROVE TypeOK'
  BY <1>20 DEF EndClosesSocket
<1>21. ASSUME NEW s \in Conns, BrowserDrops(s) PROVE TypeOK'
  BY <1>21 DEF BrowserDrops
<1>22. ASSUME NEW s \in Conns, ShellExits(s) PROVE TypeOK'
  BY <1>22 DEF ShellExits
<1>23. ASSUME NEW s \in Conns, GraceElapses(s) PROVE TypeOK'
  BY <1>23 DEF GraceElapses
<1>24. ASSUME NEW s \in Conns, MaxDurationElapses(s) PROVE TypeOK'
  BY <1>24 DEF MaxDurationElapses
<1>25. ASSUME NEW s \in Conns, PumpEOF(s) PROVE TypeOK'
  BY <1>25 DEF PumpEOF
<1>26. ASSUME NEW s \in Conns, Kill(s) PROVE TypeOK'
  BY <1>26 DEF Kill
<1>27. ASSUME NEW s \in Conns, Watchdog(s) PROVE TypeOK'
  BY <1>27 DEF Watchdog
<1>28. ASSUME NEW s \in Conns, WatchdogStops(s) PROVE TypeOK'
  BY <1>28 DEF WatchdogStops
<1>29. ASSUME NEW s \in Conns, ReapEnd(s) PROVE TypeOK'
  BY <1>29 DEF ReapEnd
<1>30. ASSUME ReapCollect PROVE TypeOK'
  BY <1>30 DEF ReapCollect
<1>31. ASSUME ReapNext PROVE TypeOK'
  BY <1>31 DEF ReapNext
<1>32. ASSUME UNCHANGED vars PROVE TypeOK'
  BY <1>32 DEF vars
<1> QED BY <1>1, <1>2, <1>3, <1>4, <1>5, <1>6, <1>7, <1>8, <1>9, <1>10, <1>11,
      <1>12, <1>13, <1>14, <1>15, <1>16, <1>17, <1>18, <1>19, <1>20, <1>21,
      <1>22, <1>23, <1>24, <1>25, <1>26, <1>27, <1>28, <1>29, <1>30, <1>31,
      <1>32 DEF Next, Handler, End, Environment, Reaper

(***************************************************************************)
(* The inductive step: every action of Next preserves Inv.  The actions    *)
(* are those of ServeHTTP, end, its callers, reap and the environment;     *)
(* under each, one step per conjunct of Inv that its assignments disturb.  *)
(***************************************************************************)
LEMMA InvNext == Inv /\ [Next]_vars => Inv'
<1> SUFFICES ASSUME Inv, [Next]_vars PROVE Inv'
  OBVIOUS
<1>0. TypeOK'
  BY TypeNext DEF Inv
<1> USE <1>0, NoConnAssumption, NoIdAssumption, ReachableAssumption
    DEF Inv, TypeOK, Ids, OptConn, Serving, PCs, EndPCs, Ended, Goto, EndStep,
        BeginEnd, CallEnd, handlerVars, endVars, dbVars, attachVars,
        registryVars, watchVars, reapVars, vars
<1>1. ASSUME NEW c \in Conns, Refuse(c) PROVE Inv'
  <2>1. HandlerInv'
    BY <1>1 DEF Refuse, HandlerInv
  <2>2. RowInv'
    BY <1>1 DEF Refuse, RowInv
  <2>3. LatestHandlerBound'
    BY <1>1 DEF Refuse, LatestHandlerBound
  <2>4. LiveSessionReachable'
    BY <1>1 DEF Refuse, LiveSessionReachable, HandlerInv
  <2>5. (StartedInv /\ GraceRunsIffDetached /\ OnlyOwnerBound /\
        FinalRowHasNoShell)'
    BY <1>1 DEF Refuse, StartedInv, GraceRunsIffDetached, OnlyOwnerBound,
           FinalRowHasNoShell
  <2> QED BY <2>1, <2>2, <2>3, <2>4, <2>5
<1>2. ASSUME NEW c \in Conns, NEW i \in Ids \ {c}, Upgrade(c, i) PROVE Inv'
  <2>1. HandlerInv'
    BY <1>2 DEF Upgrade, HandlerInv
  <2>2. RowInv'
    BY <1>2 DEF Upgrade, RowInv
  <2>3. LatestHandlerBound'
    BY <1>2 DEF Upgrade, LatestHandlerBound
  <2>4. LiveSessionReachable'
    BY <1>2 DEF Upgrade, LiveSessionReachable
  <2>5. (StartedInv /\ GraceRunsIffDetached /\ OnlyOwnerBound /\
        FinalRowHasNoShell)'
    BY <1>2 DEF Upgrade, StartedInv, GraceRunsIffDetached, OnlyOwnerBound,
           FinalRowHasNoShell
  <2> QED BY <2>1, <2>2, <2>3, <2>4, <2>5
<1>3. ASSUME NEW c \in Conns, ResumeGet(c) PROVE Inv'
  <2>1. HandlerInv'
    BY <1>3 DEF ResumeGet, HandlerInv, StartedInv
  <2>2. RowInv'
    BY <1>3 DEF ResumeGet, RowInv
  <2>3. LatestHandlerBound'
    BY <1>3 DEF ResumeGet, LatestHandlerBound
  <2>4. LiveSessionReachable'
    BY <1>3 DEF ResumeGet, LiveSessionReachable
  <2>5. (StartedInv /\ GraceRunsIffDetached /\ OnlyOwnerBound /\
        FinalRowHasNoShell)'
    BY <1>3 DEF ResumeGet, StartedInv, GraceRunsIffDetached, OnlyOwnerBound,
           FinalRowHasNoShell
  <2> QED BY <2>1, <2>2, <2>3, <2>4, <2>5
<1>4. ASSUME NEW c \in Conns, ResumeCheck(c) PROVE Inv'
  <2>1. HandlerInv'
    BY <1>4 DEF ResumeCheck, HandlerInv
  <2>2. RowInv'
    BY <1>4 DEF ResumeCheck, RowInv
  <2>3. LatestHandlerBound'
    BY <1>4 DEF ResumeCheck, LatestHandlerBound
  <2>4. LiveSessionReachable'
    BY <1>4 DEF ResumeCheck, LiveSessionReachable, HandlerInv
  <2>5. (StartedInv /\ GraceRunsIffDetached /\ OnlyOwnerBound /\
        FinalRowHasNoShell)'
    BY <1>4 DEF ResumeCheck, StartedInv, GraceRunsIffDetached, OnlyOwnerBound,
           FinalRowHasNoShell
  <2> QED BY <2>1, <2>2, <2>3, <2>4, <2>5
<1>5. ASSUME NEW c \in Conns, DialFails(c) PROVE Inv'
  <2>1. HandlerInv'
    BY <1>5 DEF DialFails, HandlerInv
  <2>2. RowInv'
    BY <1>5 DEF DialFails, RowInv
  <2>3. LatestHandlerBound'
    BY <1>5 DEF DialFails, LatestHandlerBound
  <2>4. LiveSessionReachable'
    BY <1>5 DEF DialFails, LiveSessionReachable, HandlerInv
  <2>5. (StartedInv /\ GraceRunsIffDetached /\ OnlyOwnerBound /\
        FinalRowHasNoShell)'
    BY <1>5 DEF DialFails, StartedInv, GraceRunsIffDetached, OnlyOwnerBound,
           FinalRowHasNoShell
  <2> QED BY <2>1, <2>2, <2>3, <2>4, <2>5
<1>6. ASSUME NEW c \in Conns, CreateSession(c) PROVE Inv'
  <2>1. HandlerInv'
    BY <1>6 DEF CreateSession, HandlerInv
  <2>2. RowInv'
    BY <1>6 DEF CreateSession, RowInv
  <2>3. LatestHandlerBound'
    BY <1>6 DEF CreateSession, LatestHandlerBound
  <2>4. LiveSessionReachable'
    BY <1>6 DEF CreateSession, LiveSessionReachable
  <2>5. FinalRowHasNoShell'
    BY <1>6 DEF CreateSession, FinalRowHasNoShell
  <2>6. (StartedInv /\ GraceRunsIffDetached /\ OnlyOwnerBound)'
    BY <1>6 DEF CreateSession, StartedInv, GraceRunsIffDetached,
           OnlyOwnerBound
  <2> QED BY <2>1, <2>2, <2>3, <2>4, <2>5, <2>6
<1>7. ASSUME NEW c \in Conns, ShellFails(c) PROVE Inv'
  <2>1. HandlerInv'
    BY <1>7 DEF ShellFails, FinaliseRow, HandlerInv
  <2>2. RowInv'
    BY <1>7 DEF ShellFails, FinaliseRow, RowInv
  <2>3. LatestHandlerBound'
    BY <1>7 DEF ShellFails, FinaliseRow, LatestHandlerBound
  <2>4. LiveSessionReachable'
    BY <1>7 DEF ShellFails, FinaliseRow, LiveSessionReachable, HandlerInv
  <2>5. FinalRowHasNoShell'
    BY <1>7 DEF ShellFails, FinaliseRow, FinalRowHasNoShell, HandlerInv
  <2>6. (StartedInv /\ GraceRunsIffDetached /\ OnlyOwnerBound)'
    BY <1>7 DEF ShellFails, FinaliseRow, StartedInv, GraceRunsIffDetached, OnlyOwnerBound
  <2> QED BY <2>1, <2>2, <2>3, <2>4, <2>5, <2>6
<1>8. ASSUME NEW c \in Conns, StartShell(c) PROVE Inv'
  <2>1. HandlerInv'
    BY <1>8 DEF StartShell, HandlerInv
  <2>2. StartedInv'
    BY <1>8 DEF StartShell, StartedInv
  <2>3. RowInv'
    BY <1>8 DEF StartShell, RowInv, HandlerInv, StartedInv
  <2>4. LatestHandlerBound'
    BY <1>8 DEF StartShell, LatestHandlerBound
  <2>5. LiveSessionReachable'
    BY <1>8 DEF StartShell, LiveSessionReachable
  <2>6. FinalRowHasNoShell'
    BY <1>8 DEF StartShell, FinalRowHasNoShell, RowInv
  <2>7. (GraceRunsIffDetached /\ OnlyOwnerBound)'
    BY <1>8 DEF StartShell, GraceRunsIffDetached, OnlyOwnerBound
  <2> QED BY <2>1, <2>2, <2>3, <2>4, <2>5, <2>6, <2>7
<1>9. ASSUME NEW c \in Conns, StoreAdd(c) PROVE Inv'
  <2>1. HandlerInv'
    BY <1>9 DEF StoreAdd, HandlerInv
  <2>2. StartedInv'
    BY <1>9 DEF StoreAdd, StartedInv, HandlerInv
  <2>3. RowInv'
    BY <1>9 DEF StoreAdd, RowInv
  <2>4. LatestHandlerBound'
    BY <1>9 DEF StoreAdd, LatestHandlerBound
  <2>5. LiveSessionReachable'
    BY <1>9 DEF StoreAdd, LiveSessionReachable, RowInv, HandlerInv
  <2>6. (GraceRunsIffDetached /\ OnlyOwnerBound /\ FinalRowHasNoShell)'
    BY <1>9 DEF StoreAdd, GraceRunsIffDetached, OnlyOwnerBound,
           FinalRowHasNoShell
  <2> QED BY <2>1, <2>2, <2>3, <2>4, <2>5, <2>6
<1>10. ASSUME NEW c \in Conns, HubRegister(c) PROVE Inv'
  <2>1. HandlerInv'
    BY <1>10 DEF HubRegister, HandlerInv
  <2>2. StartedInv'
    BY <1>10 DEF HubRegister, StartedInv, HandlerInv, RowInv
  <2>3. RowInv'
    BY <1>10 DEF HubRegister, RowInv
  <2>4. LatestHandlerBound'
    BY <1>10 DEF HubRegister, LatestHandlerBound
  <2>5. LiveSessionReachable'
    BY <1>10 DEF HubRegister, LiveSessionReachable, RowInv, HandlerInv
  <2>6. (GraceRunsIffDetached /\ OnlyOwnerBound /\ FinalRowHasNoShell)'
    BY <1>10 DEF HubRegister, GraceRunsIffDetached, OnlyOwnerBound,
           FinalRowHasNoShell
  <2> QED BY <2>1, <2>2, <2>3, <2>4, <2>5, <2>6
<1>11. ASSUME NEW c \in Conns, Attach(c) PROVE Inv'
  <2>1. HandlerInv'
    BY <1>11 DEF Attach, HandlerInv
  <2>2. RowInv'
    BY <1>11 DEF Attach, RowInv
  <2>3. LatestHandlerBound'
    BY <1>11 DEF Attach, LatestHandlerBound
  <2>4. GraceRunsIffDetached'
    BY <1>11 DEF Attach, GraceRunsIffDetached
  <2>5. OnlyOwnerBound'
    BY <1>11 DEF Attach, OnlyOwnerBound, HandlerInv
  <2>6. LiveSessionReachable'
    BY <1>11 DEF Attach, LiveSessionReachable
  <2>7. (StartedInv /\ FinalRowHasNoShell)'
    BY <1>11 DEF Attach, StartedInv, FinalRowHasNoShell
  <2> QED BY <2>1, <2>2, <2>3, <2>4, <2>5, <2>6, <2>7
<1>12. ASSUME NEW c \in Conns, StartWatch(c) PROVE Inv'
  <2>1. HandlerInv'
    BY <1>12 DEF StartWatch, HandlerInv
  <2>2. StartedInv'
    BY <1>12 DEF StartWatch, StartedInv, HandlerInv
  <2>3. RowInv'
    BY <1>12 DEF StartWatch, RowInv
  <2>4. LatestHandlerBound'
    BY <1>12 DEF StartWatch, LatestHandlerBound
  <2>5. LiveSessionReachable'
    BY <1>12 DEF StartWatch, LiveSessionReachable
  <2>6. (GraceRunsIffDetached /\ OnlyOwnerBound /\ FinalRowHasNoShell)'
    BY <1>12 DEF StartWatch, GraceRunsIffDetached, OnlyOwnerBound,
           FinalRowHasNoShell
  <2> QED BY <2>1, <2>2, <2>3, <2>4, <2>5, <2>6
<1>13. ASSUME NEW c \in Conns, RunInputReturns(c) PROVE Inv'
  <2>1. HandlerInv'
    BY <1>13 DEF RunInputReturns, HandlerInv
  <2>2. RowInv'
    BY <1>13 DEF RunInputReturns, RowInv
  <2>3. LatestHandlerBound'
    BY <1>13 DEF RunInputReturns, LatestHandlerBound
  <2>4. LiveSessionReachable'
    BY <1>13 DEF RunInputReturns, LiveSessionReachable
  <2>5. (StartedInv /\ GraceRunsIffDetached /\ OnlyOwnerBound /\
        FinalRowHasNoShell)'
    BY <1>13 DEF RunInputReturns, StartedInv, GraceRunsIffDetached,
           OnlyOwnerBound, FinalRowHasNoShell
  <2> QED BY <2>1, <2>2, <2>3, <2>4, <2>5
<1>14. ASSUME NEW c \in Conns, StopWatch(c) PROVE Inv'
  <2>1. HandlerInv'
    BY <1>14 DEF StopWatch, HandlerInv
  <2>2. StartedInv'
    BY <1>14 DEF StopWatch, StartedInv
  <2>3. RowInv'
    BY <1>14 DEF StopWatch, RowInv
  <2>4. LatestHandlerBound'
    BY <1>14 DEF StopWatch, LatestHandlerBound
  <2>5. LiveSessionReachable'
    BY <1>14 DEF StopWatch, LiveSessionReachable
  <2>6. (GraceRunsIffDetached /\ OnlyOwnerBound /\ FinalRowHasNoShell)'
    BY <1>14 DEF StopWatch, GraceRunsIffDetached, OnlyOwnerBound,
           FinalRowHasNoShell
  <2> QED BY <2>1, <2>2, <2>3, <2>4, <2>5, <2>6
<1>15. ASSUME NEW c \in Conns, Detach(c) PROVE Inv'
  <2>1. HandlerInv'
    BY <1>15 DEF Detach, HandlerInv
  <2>2. RowInv'
    BY <1>15 DEF Detach, RowInv
  <2>3. LatestHandlerBound'
    BY <1>15 DEF Detach, LatestHandlerBound
  <2>4. GraceRunsIffDetached'
    BY <1>15 DEF Detach, GraceRunsIffDetached, LatestHandlerBound
  <2>5. OnlyOwnerBound'
    BY <1>15 DEF Detach, OnlyOwnerBound
  <2>6. LiveSessionReachable'
    BY <1>15 DEF Detach, LiveSessionReachable
  <2>7. (StartedInv /\ FinalRowHasNoShell)'
    BY <1>15 DEF Detach, StartedInv, FinalRowHasNoShell
  <2> QED BY <2>1, <2>2, <2>3, <2>4, <2>5, <2>6, <2>7
<1>16. ASSUME NEW s \in Conns, EndClosesShell(s) PROVE Inv'
  <2>1. HandlerInv'
    BY <1>16 DEF EndClosesShell, HandlerInv, StartedInv
  <2>2. StartedInv'
    BY <1>16 DEF EndClosesShell, StartedInv
  <2>3. RowInv'
    BY <1>16 DEF EndClosesShell, RowInv
  <2>4. LiveSessionReachable'
    BY <1>16 DEF EndClosesShell, LiveSessionReachable
  <2>5. FinalRowHasNoShell'
    BY <1>16 DEF EndClosesShell, FinalRowHasNoShell
  <2>6. (LatestHandlerBound /\ GraceRunsIffDetached /\ OnlyOwnerBound)'
    BY <1>16 DEF EndClosesShell, LatestHandlerBound, GraceRunsIffDetached,
           OnlyOwnerBound
  <2> QED BY <2>1, <2>2, <2>3, <2>4, <2>5, <2>6
<1>17. ASSUME NEW s \in Conns, EndSession(s) PROVE Inv'
  <2>1. StartedInv'
    BY <1>17 DEF EndSession, FinaliseRow, StartedInv
  <2>2. RowInv'
    BY <1>17 DEF EndSession, FinaliseRow, RowInv, HandlerInv, StartedInv
  <2>3. LiveSessionReachable'
    BY <1>17 DEF EndSession, FinaliseRow, LiveSessionReachable
  <2>4. FinalRowHasNoShell'
    BY <1>17 DEF EndSession, FinaliseRow, FinalRowHasNoShell, RowInv
  <2>5. (HandlerInv /\ LatestHandlerBound /\ GraceRunsIffDetached /\
        OnlyOwnerBound)'
    BY <1>17 DEF EndSession, FinaliseRow, HandlerInv, LatestHandlerBound,
           GraceRunsIffDetached, OnlyOwnerBound
  <2> QED BY <2>1, <2>2, <2>3, <2>4, <2>5
<1>18. ASSUME NEW s \in Conns, EndUnregisters(s) PROVE Inv'
  <2>1. StartedInv'
    BY <1>18 DEF EndUnregisters, StartedInv
  <2>2. RowInv'
    BY <1>18 DEF EndUnregisters, RowInv
  <2>3. LiveSessionReachable'
    BY <1>18 DEF EndUnregisters, LiveSessionReachable, RowInv
  <2>4. (HandlerInv /\ LatestHandlerBound /\ GraceRunsIffDetached /\
        OnlyOwnerBound /\ FinalRowHasNoShell)'
    BY <1>18 DEF EndUnregisters, HandlerInv, LatestHandlerBound,
           GraceRunsIffDetached, OnlyOwnerBound, FinalRowHasNoShell
  <2> QED BY <2>1, <2>2, <2>3, <2>4
<1>19. ASSUME NEW s \in Conns, EndRemoves(s) PROVE Inv'
  <2>1. StartedInv'
    BY <1>19 DEF EndRemoves, StartedInv
  <2>2. RowInv'
    BY <1>19 DEF EndRemoves, RowInv
  <2>3. LiveSessionReachable'
    BY <1>19 DEF EndRemoves, LiveSessionReachable, RowInv
  <2>4. (HandlerInv /\ LatestHandlerBound /\ GraceRunsIffDetached /\
        OnlyOwnerBound /\ FinalRowHasNoShell)'
    BY <1>19 DEF EndRemoves, HandlerInv, LatestHandlerBound,
           GraceRunsIffDetached, OnlyOwnerBound, FinalRowHasNoShell
  <2> QED BY <2>1, <2>2, <2>3, <2>4
<1>20. ASSUME NEW s \in Conns, EndClosesSocket(s) PROVE Inv'
  <2>1. StartedInv'
    BY <1>20 DEF EndClosesSocket, StartedInv
  <2>2. RowInv'
    BY <1>20 DEF EndClosesSocket, RowInv
  <2>3. LiveSessionReachable'
    BY <1>20 DEF EndClosesSocket, LiveSessionReachable
  <2>4. (HandlerInv /\ LatestHandlerBound /\ GraceRunsIffDetached /\
        OnlyOwnerBound /\ FinalRowHasNoShell)'
    BY <1>20 DEF EndClosesSocket, HandlerInv, LatestHandlerBound,
           GraceRunsIffDetached, OnlyOwnerBound, FinalRowHasNoShell
  <2> QED BY <2>1, <2>2, <2>3, <2>4
<1>21. ASSUME NEW s \in Conns, BrowserDrops(s) PROVE Inv'
  BY <1>21 DEF BrowserDrops, HandlerInv, StartedInv, RowInv,
         LatestHandlerBound, GraceRunsIffDetached, OnlyOwnerBound,
         LiveSessionReachable, FinalRowHasNoShell
<1>22. ASSUME NEW s \in Conns, ShellExits(s) PROVE Inv'
  <2>1. HandlerInv'
    BY <1>22 DEF ShellExits, HandlerInv
  <2>2. StartedInv'
    BY <1>22 DEF ShellExits, StartedInv
  <2>3. RowInv'
    BY <1>22 DEF ShellExits, RowInv
  <2>4. LiveSessionReachable'
    BY <1>22 DEF ShellExits, LiveSessionReachable
  <2>5. FinalRowHasNoShell'
    BY <1>22 DEF ShellExits, FinalRowHasNoShell
  <2>6. (LatestHandlerBound /\ GraceRunsIffDetached /\ OnlyOwnerBound)'
    BY <1>22 DEF ShellExits, LatestHandlerBound, GraceRunsIffDetached,
           OnlyOwnerBound
  <2> QED BY <2>1, <2>2, <2>3, <2>4, <2>5, <2>6
<1>23. ASSUME NEW s \in Conns, GraceElapses(s) PROVE Inv'
  BY <1>23 DEF GraceElapses, HandlerInv, StartedInv, RowInv,
         LatestHandlerBound, GraceRunsIffDetached, OnlyOwnerBound,
         LiveSessionReachable, FinalRowHasNoShell
<1>24. ASSUME NEW s \in Conns, MaxDurationElapses(s) PROVE Inv'
  BY <1>24 DEF MaxDurationElapses, HandlerInv, StartedInv, RowInv,
         LatestHandlerBound, GraceRunsIffDetached, OnlyOwnerBound,
         LiveSessionReachable, FinalRowHasNoShell
<1>25. ASSUME NEW s \in Conns, PumpEOF(s) PROVE Inv'
  <2>1. StartedInv'
    BY <1>25 DEF PumpEOF, StartedInv
  <2>2. RowInv'
    BY <1>25 DEF PumpEOF, RowInv
  <2>3. LiveSessionReachable'
    BY <1>25 DEF PumpEOF, LiveSessionReachable
  <2>4. (HandlerInv /\ LatestHandlerBound /\ GraceRunsIffDetached /\
        OnlyOwnerBound /\ FinalRowHasNoShell)'
    BY <1>25 DEF PumpEOF, HandlerInv, LatestHandlerBound,
           GraceRunsIffDetached, OnlyOwnerBound, FinalRowHasNoShell
  <2> QED BY <2>1, <2>2, <2>3, <2>4
<1>26. ASSUME NEW s \in Conns, Kill(s) PROVE Inv'
  <2>1. StartedInv'
    BY <1>26 DEF Kill, StartedInv
  <2>2. RowInv'
    BY <1>26 DEF Kill, RowInv
  <2>3. LiveSessionReachable'
    BY <1>26 DEF Kill, LiveSessionReachable
  <2>4. (HandlerInv /\ LatestHandlerBound /\ GraceRunsIffDetached /\
        OnlyOwnerBound /\ FinalRowHasNoShell)'
    BY <1>26 DEF Kill, HandlerInv, LatestHandlerBound, GraceRunsIffDetached,
           OnlyOwnerBound, FinalRowHasNoShell
  <2> QED BY <2>1, <2>2, <2>3, <2>4
<1>27. ASSUME NEW s \in Conns, Watchdog(s) PROVE Inv'
  <2>1. StartedInv'
    BY <1>27 DEF Watchdog, StartedInv
  <2>2. RowInv'
    BY <1>27 DEF Watchdog, RowInv
  <2>3. LiveSessionReachable'
    BY <1>27 DEF Watchdog, LiveSessionReachable
  <2>4. (HandlerInv /\ LatestHandlerBound /\ GraceRunsIffDetached /\
        OnlyOwnerBound /\ FinalRowHasNoShell)'
    BY <1>27 DEF Watchdog, HandlerInv, LatestHandlerBound,
           GraceRunsIffDetached, OnlyOwnerBound, FinalRowHasNoShell
  <2> QED BY <2>1, <2>2, <2>3, <2>4
<1>28. ASSUME NEW s \in Conns, WatchdogStops(s) PROVE Inv'
  BY <1>28 DEF WatchdogStops, HandlerInv, StartedInv, RowInv,
         LatestHandlerBound, GraceRunsIffDetached, OnlyOwnerBound,
         LiveSessionReachable, FinalRowHasNoShell
<1>29. ASSUME ReapCollect PROVE Inv'
  BY <1>29 DEF ReapCollect, HandlerInv, StartedInv, RowInv,
         LatestHandlerBound, GraceRunsIffDetached, OnlyOwnerBound,
         LiveSessionReachable, FinalRowHasNoShell
<1>30. ASSUME NEW s \in Conns, ReapEnd(s) PROVE Inv'
  <2>1. StartedInv'
    BY <1>30 DEF ReapEnd, StartedInv
  <2>2. RowInv'
    BY <1>30 DEF ReapEnd, RowInv
  <2>3. LiveSessionReachable'
    BY <1>30 DEF ReapEnd, LiveSessionReachable
  <2>4. (HandlerInv /\ LatestHandlerBound /\ GraceRunsIffDetached /\
        OnlyOwnerBound /\ FinalRowHasNoShell)'
    BY <1>30 DEF ReapEnd, HandlerInv, LatestHandlerBound,
           GraceRunsIffDetached, OnlyOwnerBound, FinalRowHasNoShell
  <2> QED BY <2>1, <2>2, <2>3, <2>4
<1>31. ASSUME ReapNext PROVE Inv'
  BY <1>31 DEF ReapNext, HandlerInv, StartedInv, RowInv, LatestHandlerBound,
         GraceRunsIffDetached, OnlyOwnerBound, LiveSessionReachable,
         FinalRowHasNoShell
<1>32. CASE UNCHANGED vars
  BY <1>32 DEF HandlerInv, StartedInv, RowInv, LatestHandlerBound,
         GraceRunsIffDetached, OnlyOwnerBound, LiveSessionReachable,
         FinalRowHasNoShell
<1> QED BY <1>1, <1>2, <1>3, <1>4, <1>5, <1>6, <1>7, <1>8, <1>9, <1>10, <1>11,
      <1>12, <1>13, <1>14, <1>15, <1>16, <1>17, <1>18, <1>19, <1>20, <1>21,
      <1>22, <1>23, <1>24, <1>25, <1>26, <1>27, <1>28, <1>29, <1>30, <1>31,
      <1>32 DEF Next, Handler, End, Environment, Reaper

\* Inv holds initially and after every step.
LEMMA InvHolds == Spec => []Inv
<1>1. Init => Inv
  BY NoConnAssumption, NoIdAssumption
  DEF Init, Inv, TypeOK, HandlerInv, StartedInv, RowInv, LatestHandlerBound,
      GraceRunsIffDetached, OnlyOwnerBound, LiveSessionReachable,
      FinalRowHasNoShell, Ids, OptConn, Serving, PCs, EndPCs, Ended
<1> QED BY <1>1, InvNext, PTL DEF Spec

\* Every variable of the session layer keeps its type.
THEOREM TypeCorrect == Spec => []TypeOK
<1>1. Inv => TypeOK
  BY DEF Inv
<1> QED BY <1>1, InvHolds, PTL

\* For any number of connections and users: the late detach of an older handler
\* never unbinds the socket of a newer one (managedSession.attach/detach).
THEOREM LatestHandlerStaysBound == Spec => []LatestHandlerBound
<1>1. Inv => LatestHandlerBound
  BY DEF Inv
<1> QED BY <1>1, InvHolds, PTL

\* detachedAt is set exactly while an attached-once session has no socket, which
\* is what reap relies on.
THEOREM GraceTimerCorrect == Spec => []GraceRunsIffDetached
<1>1. Inv => GraceRunsIffDetached
  BY DEF Inv
<1> QED BY <1>1, InvHolds, PTL

\* Resuming never binds a user to somebody else's shell.
THEOREM ResumeRespectsOwner == Spec => []OnlyOwnerBound
<1>1. Inv => OnlyOwnerBound
  BY DEF Inv
<1> QED BY <1>1, InvHolds, PTL

\* A running session with an id stays in the store and in the hub until end()
\* removes it: it can be resumed, reaped, watched and killed.
THEOREM LiveSessionsReachable == Spec => []LiveSessionReachable
<1>1. Inv => LiveSessionReachable
  BY DEF Inv
<1> QED BY <1>1, InvHolds, PTL

\* ended_at is written only when the shell is closed (end) or never started.
THEOREM FinalRowsHaveNoShell == Spec => []FinalRowHasNoShell
<1>1. Inv => FinalRowHasNoShell
  BY DEF Inv
<1> QED BY <1>1, InvHolds, PTL

\* The reaper collects only sessions past their grace period with no socket.
THEOREM ReaperCollectsExpired == Spec => ReapsOnlyExpired
<1>1. Inv /\ [Next]_vars =>
        [\A s \in Conns : (s \in reaping' \ reaping) =>
             detached[s] = "expired" /\ bound[s] = NoConn]_vars
  <2> SUFFICES ASSUME Inv, [Next]_vars, NEW s \in Conns, s \in reaping' \ reaping
               PROVE detached[s] = "expired" /\ bound[s] = NoConn
    BY DEF Inv, TypeOK
  <2>1. ReapCollect
    BY DEF Next, Handler, End, Environment, Reaper, Refuse, Upgrade, ResumeGet,
       ResumeCheck, DialFails, CreateSession, ShellFails, StartShell, StoreAdd,
       HubRegister, Attach, StartWatch, RunInputReturns, StopWatch, Detach,
       EndClosesShell, EndSession, FinaliseRow, EndUnregisters, EndRemoves, EndClosesSocket,
       BrowserDrops, ShellExits, GraceElapses, MaxDurationElapses, PumpEOF, Kill,
       Watchdog, WatchdogStops, ReapEnd, ReapNext, vars, reapVars
  <2> QED BY <2>1 DEF ReapCollect, Inv, GraceRunsIffDetached, TypeOK
<1> QED BY <1>1, InvHolds, PTL DEF Spec, ReapsOnlyExpired

=============================================================================
