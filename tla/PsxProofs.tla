------------------------------ MODULE PsxProofs ------------------------------
(***************************************************************************)
(* Proofs about Psx for every finite set of threads, every bound and every *)
(* setting of the switches: two callers, foreign signals, zombie leaders,  *)
(* reused thread ids, fork and exit included.                              *)
(***************************************************************************)
EXTENDS Psx, PsxMap, FiniteSetTheorems, WellFoundedInduction, TLAPS

USE DEF LockLabels, PlainLabels, HandLockLabels, HandLabels, States

-----------------------------------------------------------------------------
(* Types                                                                   *)

LEMMA TypeInit == Init => TypeOK
<1> SUFFICES ASSUME Init PROVE TypeOK
  OBVIOUS
<1>1. map \in [Threads -> Entries] BY DEF Init, Entries, Blank
<1>2. /\ status \in [Threads -> {"unborn", "live", "zombie", "ended"}]
      /\ pc \in [Threads -> LockLabels \cup PlainLabels]
      /\ hpc \in [Threads -> HandLabels]
  BY DEF Init
<1>3. own \in [Threads -> BOOLEAN] BY DEF Init
<1>4. cur \in Threads BY ThreadsAssumption DEF Init
<1>5. active \in BOOLEAN /\ some \in BOOLEAN /\ mismatch \in BOOLEAN
  BY Zenon DEF Init
<1> QED BY <1>1, <1>2, <1>3, <1>4, <1>5 DEF Init, TypeOK

LEMMA TypeEnvironment ==
  ASSUME TypeOK, NEW t \in Threads, Program(t) \/ Deliver(t) PROVE TypeOK'
<1> USE ThreadsAssumption DEF TypeOK, os, frames, tracker, locals, history
<1>1. ASSUME NEW u \in Threads, Clone(t, u) PROVE TypeOK'
  BY <1>1 DEF Clone
<1>2. CASE Exit(t) BY <1>2 DEF Exit
<1>3. CASE Fork(t) BY <1>3 DEF Fork
<1>4. CASE Foreign(t)
  <2>1. tkillq' \in [Threads -> Nat] /\ otherq' \in [Threads -> Nat]
    BY <1>4 DEF Foreign
  <2> QED BY <1>4, <2>1 DEF Foreign
<1>5. CASE CallSyscall(t) BY <1>5 DEF CallSyscall, Goto
<1>6. CASE CallSensitivity(t) BY <1>6 DEF CallSensitivity, Goto
<1>7. CASE CallExit(t) BY <1>7 DEF CallExit, Goto
<1>8. CASE Deliver(t)
  <2>1. own' \in [Threads -> BOOLEAN] BY <1>8 DEF Deliver
  <2>2. tkillq' \in [Threads -> Nat] /\ otherq' \in [Threads -> Nat]
    BY <1>8 DEF Deliver
  <2>3. hpc' \in [Threads -> HandLabels] BY <1>8 DEF Deliver
  <2> QED BY <1>8, <2>1, <2>2, <2>3 DEF Deliver
<1> QED BY <1>1, <1>2, <1>3, <1>4, <1>5, <1>6, <1>7, <1>8 DEF Program

LEMMA TypeActor ==
  ASSUME TypeOK, NEW t \in Threads, Actor(t) PROVE TypeOK'
<1> USE DEF TypeOK, os, frames, tracker, locals, history, HandlerUnlock
<1>1. CASE LockInHandler(t) BY ZenonT(40), <1>1 DEF LockInHandler, psx_lock
<1>2. CASE ActorCheck(t) BY <1>2 DEF ActorCheck
<1>3. CASE ActorChain(t) BY <1>3 DEF ActorChain
<1>4. CASE ActorSyscall(t) BY <1>4 DEF ActorSyscall
<1>5. CASE ActorPost(t)
  <2>1. PICK r \in {"same", "other"} : map' = Answered(t, r)
    BY <1>5 DEF ActorPost
  <2>2. map' \in [Threads -> Entries] BY <2>1 DEF Answered, Entries
  <2> QED BY <1>5, <2>2 DEF ActorPost, WaitOrLeave
<1>6. CASE ActorWait(t) BY <1>6 DEF ActorWait, WaitOrLeave
<1> QED BY <1>1, <1>2, <1>3, <1>4, <1>5, <1>6 DEF Actor

LEMMA TypeLibrary ==
  ASSUME TypeOK, NEW t \in Threads, Library(t) PROVE TypeOK'
<1> USE DEF TypeOK, os, frames, tracker, locals, history, Unlock, Goto
<1>1. CASE Lock(t) BY ZenonT(40), <1>1 DEF Lock, psx_lock
<1>2. CASE IdleToSetup(t) BY <1>2 DEF IdleToSetup, psx_new_state
<1>3. CASE ConfirmSigaction(t) BY <1>3 DEF ConfirmSigaction, Confirmed
<1>4. CASE ImmediateSyscall(t) BY <1>4 DEF ImmediateSyscall
<1>5. CASE SetupToIdle(t) BY <1>5 DEF SetupToIdle, psx_new_state
<1>6. CASE SetupToSyscall(t) BY <1>6 DEF SetupToSyscall, psx_new_state
<1>7. CASE ClearMap(t) BY <1>7 DEF ClearMap, Blank, Entries
<1>8. CASE OpenTaskDir(t) BY <1>8 DEF OpenTaskDir
<1>9. CASE TaskDirFails(t) BY <1>9 DEF TaskDirFails, KillProcess
<1>10. CASE GetDents(t)
  <2>1. buf' \subseteq Threads BY <1>10 DEF GetDents, Batches, Tasks
  <2> QED BY <1>10, <2>1 DEF GetDents
<1>11. CASE EndSweep(t) BY <1>11 DEF EndSweep, Verified
<1>12. CASE NextEntry(t) BY <1>12 DEF NextEntry
<1>13. CASE InsertEntry(t) BY ZenonT(40), <1>13 DEF InsertEntry, Entries
<1>14. CASE TkillEntry(t) BY <1>14 DEF TkillEntry
<1>15. CASE AccountEntry(t)
  <2>1. mismatch' \in BOOLEAN /\ some' \in BOOLEAN
    BY <1>15 DEF AccountEntry, Differs
  <2> QED BY <1>15, <2>1 DEF AccountEntry
<1>16. CASE Release(t)
  <2>1. AfterDrain \in LockLabels BY DEF AfterDrain
  <2>2. pc' \in [Threads -> LockLabels \cup PlainLabels]
    BY <1>16, <2>1 DEF Release
  <2>3. active' \in BOOLEAN /\ some' \in BOOLEAN BY <1>16, Zenon DEF Release
  <2> QED BY <1>16, <2>2, <2>3 DEF Release
<1>17. CASE Drain(t)
  <2>1. AfterDrain \in LockLabels BY DEF AfterDrain
  <2>2. pc' \in [Threads -> LockLabels \cup PlainLabels]
    BY <1>17, <2>1 DEF Drain
  <2> QED BY <1>17, <2>2 DEF Drain
<1>18. CASE ReportMismatch(t) BY <1>18 DEF ReportMismatch, KillProcess
<1>19. CASE SyscallToIdle(t) BY <1>19 DEF SyscallToIdle, psx_new_state
<1>20. CASE SetSensitivity(t)
  BY <1>20, SwitchesAssumption DEF SetSensitivity
<1>21. CASE Cleanup(t) BY <1>21 DEF Cleanup
<1>22. CASE ExitGroup(t) BY <1>22 DEF ExitGroup, KillProcess
<1> QED BY <1>1, <1>2, <1>3, <1>4, <1>5, <1>6, <1>7, <1>8, <1>9, <1>10, <1>11,
           <1>12, <1>13, <1>14, <1>15, <1>16, <1>17, <1>18, <1>19, <1>20,
           <1>21, <1>22 DEF Library

LEMMA TypeStep == TypeOK /\ [Next]_vars => TypeOK'
<1> SUFFICES ASSUME TypeOK, [Next]_vars PROVE TypeOK'
  OBVIOUS
<1>1. CASE UNCHANGED vars
  BY <1>1 DEF vars, os, frames, tracker, locals, history, TypeOK
<1>2. CASE Quiet BY <1>1, <1>2 DEF Quiet
<1>3. ASSUME NEW t \in Threads,
             Library(t) \/ Actor(t) \/ Deliver(t) \/ Program(t)
      PROVE TypeOK'
  BY <1>3, TypeLibrary, TypeActor, TypeEnvironment
<1> QED BY <1>1, <1>2, <1>3 DEF Next

(* Every variable of the tracker, the threads and the caller's locals      *)
(* keeps its type.                                                         *)
THEOREM TypeCorrect == Spec => []TypeOK
  BY TypeInit, TypeStep, PTL DEF Spec

-----------------------------------------------------------------------------
(* The lock, the frames and the owner of the tracker                       *)

LEMMA LockStep ==
  ASSUME TypeOK, LockInv, FrameInv, [Next]_vars
  PROVE  LockInv'
<1> USE DEF TypeOK, LockInv, FrameInv, LockExclusive,
        os, frames, tracker, locals, history
<1>1. ASSUME NEW t \in Threads, Lock(t) PROVE LockInv'
  BY <1>1 DEF Lock, psx_lock, MuFree, Running
<1>2. ASSUME NEW t \in Threads, IdleToSetup(t) PROVE LockInv'
  BY <1>2 DEF IdleToSetup, psx_new_state, Locked, Unlock, Goto, At, Running
<1>3. ASSUME NEW t \in Threads, ConfirmSigaction(t) PROVE LockInv'
  BY <1>3 DEF ConfirmSigaction, Goto, At, Running
<1>4. ASSUME NEW t \in Threads, ImmediateSyscall(t) PROVE LockInv'
  BY <1>4 DEF ImmediateSyscall, Goto, At, Running
<1>5. ASSUME NEW t \in Threads, SetupToIdle(t) PROVE LockInv'
  BY <1>5 DEF SetupToIdle, psx_new_state, Locked, Unlock, Goto, At, Running
<1>6. ASSUME NEW t \in Threads, SetupToSyscall(t) PROVE LockInv'
  BY <1>6 DEF SetupToSyscall, psx_new_state, Locked, Unlock, Goto, At, Running
<1>7. ASSUME NEW t \in Threads, ClearMap(t) PROVE LockInv'
  BY <1>7 DEF ClearMap, Goto, At, Running
<1>8. ASSUME NEW t \in Threads, OpenTaskDir(t) PROVE LockInv'
  BY <1>8 DEF OpenTaskDir, Goto, At, Running
<1>9. ASSUME NEW t \in Threads, TaskDirFails(t) PROVE LockInv'
  BY <1>9 DEF TaskDirFails, KillProcess, At, Running
<1>10. ASSUME NEW t \in Threads, GetDents(t) PROVE LockInv'
  BY <1>10 DEF GetDents, Batches, Goto, At, Running
<1>11. ASSUME NEW t \in Threads, EndSweep(t) PROVE LockInv'
  BY <1>11 DEF EndSweep, Verified, ListingEnds, Goto, At, Running
<1>12. ASSUME NEW t \in Threads, NextEntry(t) PROVE LockInv'
  BY <1>12 DEF NextEntry, Goto, At, Running
<1>13. ASSUME NEW t \in Threads, InsertEntry(t) PROVE LockInv'
  BY <1>13 DEF InsertEntry, Locked, Unlock, Goto, At, Running
<1>14. ASSUME NEW t \in Threads, TkillEntry(t) PROVE LockInv'
  BY <1>14 DEF TkillEntry, Goto, At, Running
<1>15. ASSUME NEW t \in Threads, AccountEntry(t) PROVE LockInv'
  BY <1>15 DEF AccountEntry, Locked, Unlock, Goto, At, Running
<1>16. ASSUME NEW t \in Threads, Release(t) PROVE LockInv'
  BY <1>16 DEF Release, Locked, Unlock, AfterDrain, Goto, At, Running
<1>17. ASSUME NEW t \in Threads, Drain(t) PROVE LockInv'
  BY <1>17 DEF Drain, Locked, Unlock, AfterDrain, Goto, At, Running
<1>18. ASSUME NEW t \in Threads, ReportMismatch(t) PROVE LockInv'
  BY <1>18 DEF ReportMismatch, Locked, Unlock, KillProcess, Goto, At, Running
<1>19. ASSUME NEW t \in Threads, SyscallToIdle(t) PROVE LockInv'
  BY <1>19 DEF SyscallToIdle, psx_new_state, Locked, Unlock, Goto, At, Running
<1>20. ASSUME NEW t \in Threads, SetSensitivity(t) PROVE LockInv'
  BY <1>20 DEF SetSensitivity, Locked, Unlock, Goto, At, Running
<1>21. ASSUME NEW t \in Threads, Cleanup(t) PROVE LockInv'
  BY <1>21 DEF Cleanup, Locked, Unlock, MayFree, Goto, At, Running
<1>22. ASSUME NEW t \in Threads, ExitGroup(t) PROVE LockInv'
  BY <1>22 DEF ExitGroup, KillProcess, At, Running
<1>23. ASSUME NEW t \in Threads, LockInHandler(t) PROVE LockInv'
  BY <1>23 DEF LockInHandler, psx_lock, MuFree
<1>24. ASSUME NEW t \in Threads, ActorCheck(t) PROVE LockInv'
  BY <1>24 DEF ActorCheck, HandlerLocked, HandlerUnlock, Recognised
<1>25. ASSUME NEW t \in Threads, ActorChain(t) PROVE LockInv'
  BY <1>25 DEF ActorChain
<1>26. ASSUME NEW t \in Threads, ActorSyscall(t) PROVE LockInv'
  BY <1>26 DEF ActorSyscall
<1>27. ASSUME NEW t \in Threads, ActorPost(t) PROVE LockInv'
  BY <1>27 DEF ActorPost, HandlerLocked, HandlerUnlock, WaitOrLeave, Answered
<1>28. ASSUME NEW t \in Threads, ActorWait(t) PROVE LockInv'
  BY <1>28 DEF ActorWait, HandlerLocked, HandlerUnlock, WaitOrLeave
<1>29. ASSUME NEW t \in Threads, Exit(t) PROVE LockInv'
  BY <1>29 DEF Exit, At, Running
<1>30. ASSUME NEW t \in Threads, Fork(t) PROVE LockInv'
  BY <1>30 DEF Fork, At, Running
<1>31. ASSUME NEW t \in Threads, Foreign(t) PROVE LockInv'
  BY <1>31 DEF Foreign
<1>32. ASSUME NEW t \in Threads, CallSyscall(t) PROVE LockInv'
  BY <1>32 DEF CallSyscall, Goto, At, Running
<1>33. ASSUME NEW t \in Threads, CallSensitivity(t) PROVE LockInv'
  BY <1>33 DEF CallSensitivity, Goto, At, Running
<1>34. ASSUME NEW t \in Threads, CallExit(t) PROVE LockInv'
  BY <1>34 DEF CallExit, Goto, At, Running
<1>35. ASSUME NEW t \in Threads, Deliver(t) PROVE LockInv'
  BY <1>35 DEF Deliver, Running
<1>36. ASSUME NEW t \in Threads, NEW u \in Threads, Clone(t, u) PROVE LockInv'
  BY <1>36 DEF Clone, At, Running
<1>37. CASE UNCHANGED vars BY <1>37 DEF vars
<1> QED BY <1>1, <1>2, <1>3, <1>4, <1>5, <1>6, <1>7, <1>8, <1>9, <1>10, <1>11,
           <1>12, <1>13, <1>14, <1>15, <1>16, <1>17, <1>18, <1>19, <1>20,
           <1>21, <1>22, <1>23, <1>24, <1>25, <1>26, <1>27, <1>28, <1>29,
           <1>30, <1>31, <1>32, <1>33, <1>34, <1>35, <1>36, <1>37 DEF Next,
           Library, Actor, Program, Quiet

LEMMA FrameStep ==
  ASSUME TypeOK, FrameInv, [Next]_vars
  PROVE  FrameInv'
<1> USE DEF TypeOK, FrameInv, os, frames, tracker, locals, history
<1>1. ASSUME NEW t \in Threads, Lock(t) PROVE FrameInv'
  BY <1>1 DEF Lock, psx_lock, MuFree, Running
<1>2. ASSUME NEW t \in Threads, IdleToSetup(t) PROVE FrameInv'
  BY <1>2 DEF IdleToSetup, psx_new_state, Locked, Unlock, Goto, At, Running
<1>3. ASSUME NEW t \in Threads, ConfirmSigaction(t) PROVE FrameInv'
  BY <1>3 DEF ConfirmSigaction, Goto, At, Running
<1>4. ASSUME NEW t \in Threads, ImmediateSyscall(t) PROVE FrameInv'
  BY <1>4 DEF ImmediateSyscall, Goto, At, Running
<1>5. ASSUME NEW t \in Threads, SetupToIdle(t) PROVE FrameInv'
  BY <1>5 DEF SetupToIdle, psx_new_state, Locked, Unlock, Goto, At, Running
<1>6. ASSUME NEW t \in Threads, SetupToSyscall(t) PROVE FrameInv'
  BY <1>6 DEF SetupToSyscall, psx_new_state, Locked, Unlock, Goto, At, Running
<1>7. ASSUME NEW t \in Threads, ClearMap(t) PROVE FrameInv'
  BY <1>7 DEF ClearMap, Goto, At, Running
<1>8. ASSUME NEW t \in Threads, OpenTaskDir(t) PROVE FrameInv'
  BY <1>8 DEF OpenTaskDir, Goto, At, Running
<1>9. ASSUME NEW t \in Threads, TaskDirFails(t) PROVE FrameInv'
  BY <1>9 DEF TaskDirFails, KillProcess, At, Running
<1>10. ASSUME NEW t \in Threads, GetDents(t) PROVE FrameInv'
  BY <1>10 DEF GetDents, Batches, Goto, At, Running
<1>11. ASSUME NEW t \in Threads, EndSweep(t) PROVE FrameInv'
  BY <1>11 DEF EndSweep, Verified, ListingEnds, Goto, At, Running
<1>12. ASSUME NEW t \in Threads, NextEntry(t) PROVE FrameInv'
  BY <1>12 DEF NextEntry, Goto, At, Running
<1>13. ASSUME NEW t \in Threads, InsertEntry(t) PROVE FrameInv'
  BY <1>13 DEF InsertEntry, Locked, Unlock, Goto, At, Running
<1>14. ASSUME NEW t \in Threads, TkillEntry(t) PROVE FrameInv'
  BY <1>14 DEF TkillEntry, Goto, At, Running
<1>15. ASSUME NEW t \in Threads, AccountEntry(t) PROVE FrameInv'
  BY <1>15 DEF AccountEntry, Locked, Unlock, Goto, At, Running
<1>16. ASSUME NEW t \in Threads, Release(t) PROVE FrameInv'
  BY <1>16 DEF Release, Locked, Unlock, AfterDrain, Goto, At, Running
<1>17. ASSUME NEW t \in Threads, Drain(t) PROVE FrameInv'
  BY <1>17 DEF Drain, Locked, Unlock, AfterDrain, Goto, At, Running
<1>18. ASSUME NEW t \in Threads, ReportMismatch(t) PROVE FrameInv'
  BY <1>18 DEF ReportMismatch, Locked, Unlock, KillProcess, Goto, At, Running
<1>19. ASSUME NEW t \in Threads, SyscallToIdle(t) PROVE FrameInv'
  BY <1>19 DEF SyscallToIdle, psx_new_state, Locked, Unlock, Goto, At, Running
<1>20. ASSUME NEW t \in Threads, SetSensitivity(t) PROVE FrameInv'
  BY <1>20 DEF SetSensitivity, Locked, Unlock, Goto, At, Running
<1>21. ASSUME NEW t \in Threads, Cleanup(t) PROVE FrameInv'
  BY <1>21 DEF Cleanup, Locked, Unlock, MayFree, Goto, At, Running
<1>22. ASSUME NEW t \in Threads, ExitGroup(t) PROVE FrameInv'
  BY <1>22 DEF ExitGroup, KillProcess, At, Running
<1>23. ASSUME NEW t \in Threads, LockInHandler(t) PROVE FrameInv'
  BY <1>23 DEF LockInHandler, psx_lock, MuFree
<1>24. ASSUME NEW t \in Threads, ActorCheck(t) PROVE FrameInv'
  BY <1>24 DEF ActorCheck, HandlerLocked, HandlerUnlock, Recognised
<1>25. ASSUME NEW t \in Threads, ActorChain(t) PROVE FrameInv'
  BY <1>25 DEF ActorChain
<1>26. ASSUME NEW t \in Threads, ActorSyscall(t) PROVE FrameInv'
  BY <1>26 DEF ActorSyscall
<1>27. ASSUME NEW t \in Threads, ActorPost(t) PROVE FrameInv'
  BY <1>27 DEF ActorPost, HandlerLocked, HandlerUnlock, WaitOrLeave, Answered
<1>28. ASSUME NEW t \in Threads, ActorWait(t) PROVE FrameInv'
  BY <1>28 DEF ActorWait, HandlerLocked, HandlerUnlock, WaitOrLeave
<1>29. ASSUME NEW t \in Threads, Exit(t) PROVE FrameInv'
  BY <1>29 DEF Exit, At, Running
<1>30. ASSUME NEW t \in Threads, Fork(t) PROVE FrameInv'
  BY <1>30 DEF Fork, At, Running
<1>31. ASSUME NEW t \in Threads, Foreign(t) PROVE FrameInv'
  BY <1>31 DEF Foreign
<1>32. ASSUME NEW t \in Threads, CallSyscall(t) PROVE FrameInv'
  BY <1>32 DEF CallSyscall, Goto, At, Running
<1>33. ASSUME NEW t \in Threads, CallSensitivity(t) PROVE FrameInv'
  BY <1>33 DEF CallSensitivity, Goto, At, Running
<1>34. ASSUME NEW t \in Threads, CallExit(t) PROVE FrameInv'
  BY <1>34 DEF CallExit, Goto, At, Running
<1>35. ASSUME NEW t \in Threads, Deliver(t) PROVE FrameInv'
  BY <1>35 DEF Deliver, Running
<1>36. ASSUME NEW t \in Threads, NEW u \in Threads, Clone(t, u) PROVE FrameInv'
  BY <1>36 DEF Clone, At, Running
<1>37. CASE UNCHANGED vars BY <1>37 DEF vars
<1> QED BY <1>1, <1>2, <1>3, <1>4, <1>5, <1>6, <1>7, <1>8, <1>9, <1>10, <1>11,
           <1>12, <1>13, <1>14, <1>15, <1>16, <1>17, <1>18, <1>19, <1>20,
           <1>21, <1>22, <1>23, <1>24, <1>25, <1>26, <1>27, <1>28, <1>29,
           <1>30, <1>31, <1>32, <1>33, <1>34, <1>35, <1>36, <1>37 DEF Next,
           Library, Actor, Program, Quiet

LEMMA CallStep ==
  ASSUME TypeOK, LockInv, FrameInv, CallInv, [Next]_vars
  PROVE  CallInv'
<1> USE DEF TypeOK, LockInv, FrameInv, CallInv, CallExclusive, LockExclusive,
        SetupLabels, GatherLabels, DoneLabels, CallLabels,
        os, frames, tracker, locals, history
<1>1. ASSUME NEW t \in Threads, Lock(t) PROVE CallInv'
  BY <1>1 DEF Lock, psx_lock, MuFree, Running
<1>2. ASSUME NEW t \in Threads, IdleToSetup(t) PROVE CallInv'
  BY <1>2 DEF IdleToSetup, psx_new_state, Locked, Unlock, Goto, At, Running
<1>3. ASSUME NEW t \in Threads, ConfirmSigaction(t) PROVE CallInv'
  BY <1>3 DEF ConfirmSigaction, Goto, At, Running
<1>4. ASSUME NEW t \in Threads, ImmediateSyscall(t) PROVE CallInv'
  BY <1>4 DEF ImmediateSyscall, Goto, At, Running
<1>5. ASSUME NEW t \in Threads, SetupToIdle(t) PROVE CallInv'
  BY <1>5 DEF SetupToIdle, psx_new_state, Locked, Unlock, Goto, At, Running
<1>6. ASSUME NEW t \in Threads, SetupToSyscall(t) PROVE CallInv'
  BY <1>6 DEF SetupToSyscall, psx_new_state, Locked, Unlock, Goto, At, Running
<1>7. ASSUME NEW t \in Threads, ClearMap(t) PROVE CallInv'
  BY <1>7 DEF ClearMap, Goto, At, Running
<1>8. ASSUME NEW t \in Threads, OpenTaskDir(t) PROVE CallInv'
  BY <1>8 DEF OpenTaskDir, Goto, At, Running
<1>9. ASSUME NEW t \in Threads, TaskDirFails(t) PROVE CallInv'
  BY <1>9 DEF TaskDirFails, KillProcess, At, Running
<1>10. ASSUME NEW t \in Threads, GetDents(t) PROVE CallInv'
  BY <1>10 DEF GetDents, Batches, Goto, At, Running
<1>11. ASSUME NEW t \in Threads, EndSweep(t) PROVE CallInv'
  BY <1>11 DEF EndSweep, Verified, ListingEnds, Goto, At, Running
<1>12. ASSUME NEW t \in Threads, NextEntry(t) PROVE CallInv'
  BY <1>12 DEF NextEntry, Goto, At, Running
<1>13. ASSUME NEW t \in Threads, InsertEntry(t) PROVE CallInv'
  BY <1>13 DEF InsertEntry, Locked, Unlock, Goto, At, Running
<1>14. ASSUME NEW t \in Threads, TkillEntry(t) PROVE CallInv'
  BY <1>14 DEF TkillEntry, Goto, At, Running
<1>15. ASSUME NEW t \in Threads, AccountEntry(t) PROVE CallInv'
  BY <1>15 DEF AccountEntry, Locked, Unlock, Goto, At, Running
<1>16. ASSUME NEW t \in Threads, Release(t) PROVE CallInv'
  BY <1>16 DEF Release, Locked, Unlock, AfterDrain, Goto, At, Running
<1>17. ASSUME NEW t \in Threads, Drain(t) PROVE CallInv'
  BY <1>17 DEF Drain, Locked, Unlock, AfterDrain, Goto, At, Running
<1>18. ASSUME NEW t \in Threads, ReportMismatch(t) PROVE CallInv'
  BY <1>18 DEF ReportMismatch, Locked, Unlock, KillProcess, Goto, At, Running
<1>19. ASSUME NEW t \in Threads, SyscallToIdle(t) PROVE CallInv'
  BY <1>19 DEF SyscallToIdle, psx_new_state, Locked, Unlock, Goto, At, Running
<1>20. ASSUME NEW t \in Threads, SetSensitivity(t) PROVE CallInv'
  BY <1>20 DEF SetSensitivity, Locked, Unlock, Goto, At, Running
<1>21. ASSUME NEW t \in Threads, Cleanup(t) PROVE CallInv'
  BY <1>21 DEF Cleanup, Locked, Unlock, MayFree, Goto, At, Running
<1>22. ASSUME NEW t \in Threads, ExitGroup(t) PROVE CallInv'
  BY <1>22 DEF ExitGroup, KillProcess, At, Running
<1>23. ASSUME NEW t \in Threads, LockInHandler(t) PROVE CallInv'
  BY <1>23 DEF LockInHandler, psx_lock, MuFree
<1>24. ASSUME NEW t \in Threads, ActorCheck(t) PROVE CallInv'
  BY <1>24 DEF ActorCheck, HandlerLocked, HandlerUnlock, Recognised
<1>25. ASSUME NEW t \in Threads, ActorChain(t) PROVE CallInv'
  BY <1>25 DEF ActorChain
<1>26. ASSUME NEW t \in Threads, ActorSyscall(t) PROVE CallInv'
  BY <1>26 DEF ActorSyscall
<1>27. ASSUME NEW t \in Threads, ActorPost(t) PROVE CallInv'
  BY <1>27 DEF ActorPost, HandlerLocked, HandlerUnlock, WaitOrLeave, Answered
<1>28. ASSUME NEW t \in Threads, ActorWait(t) PROVE CallInv'
  BY <1>28 DEF ActorWait, HandlerLocked, HandlerUnlock, WaitOrLeave
<1>29. ASSUME NEW t \in Threads, Exit(t) PROVE CallInv'
  BY <1>29 DEF Exit, At, Running
<1>30. ASSUME NEW t \in Threads, Fork(t) PROVE CallInv'
  BY <1>30 DEF Fork, At, Running
<1>31. ASSUME NEW t \in Threads, Foreign(t) PROVE CallInv'
  BY <1>31 DEF Foreign
<1>32. ASSUME NEW t \in Threads, CallSyscall(t) PROVE CallInv'
  BY <1>32 DEF CallSyscall, Goto, At, Running
<1>33. ASSUME NEW t \in Threads, CallSensitivity(t) PROVE CallInv'
  BY <1>33 DEF CallSensitivity, Goto, At, Running
<1>34. ASSUME NEW t \in Threads, CallExit(t) PROVE CallInv'
  BY <1>34 DEF CallExit, Goto, At, Running
<1>35. ASSUME NEW t \in Threads, Deliver(t) PROVE CallInv'
  BY <1>35 DEF Deliver, Running
<1>36. ASSUME NEW t \in Threads, NEW u \in Threads, Clone(t, u) PROVE CallInv'
  BY <1>36 DEF Clone, At, Running
<1>37. CASE UNCHANGED vars BY <1>37 DEF vars
<1> QED BY <1>1, <1>2, <1>3, <1>4, <1>5, <1>6, <1>7, <1>8, <1>9, <1>10, <1>11,
           <1>12, <1>13, <1>14, <1>15, <1>16, <1>17, <1>18, <1>19, <1>20,
           <1>21, <1>22, <1>23, <1>24, <1>25, <1>26, <1>27, <1>28, <1>29,
           <1>30, <1>31, <1>32, <1>33, <1>34, <1>35, <1>36, <1>37 DEF Next,
           Library, Actor, Program, Quiet

-----------------------------------------------------------------------------
(* Gathering, and the sweeps                                               *)

LEMMA GatherStep ==
  ASSUME TypeOK, LockInv, FrameInv, CallInv, GatherInv, SweepInv, IdleInv, [Next]_vars
  PROVE  GatherInv'
<1> USE DEF GatherInv, SweepInv, IdleInv,
        TypeOK, LockInv, FrameInv, CallInv, CallExclusive, LockExclusive,
        SetupLabels, GatherLabels, DoneLabels, CallLabels, SweepLabels, EntryLabels,
        os, frames, tracker, locals, history, Busy, Live, Entries, Blank
<1>1. ASSUME NEW t \in Threads, Lock(t) PROVE GatherInv'
  BY <1>1 DEF Lock, psx_lock, MuFree, Running
<1>2. ASSUME NEW t \in Threads, IdleToSetup(t) PROVE GatherInv'
  BY <1>2 DEF IdleToSetup, psx_new_state, Locked, Unlock, Goto, At, Running
<1>3. ASSUME NEW t \in Threads, ConfirmSigaction(t) PROVE GatherInv'
  BY <1>3 DEF ConfirmSigaction, Goto, At, Running
<1>4. ASSUME NEW t \in Threads, ImmediateSyscall(t) PROVE GatherInv'
  BY <1>4 DEF ImmediateSyscall, Goto, At, Running
<1>5. ASSUME NEW t \in Threads, SetupToIdle(t) PROVE GatherInv'
  BY <1>5 DEF SetupToIdle, psx_new_state, Locked, Unlock, Goto, At, Running
<1>6. ASSUME NEW t \in Threads, SetupToSyscall(t) PROVE GatherInv'
  BY <1>6 DEF SetupToSyscall, psx_new_state, Locked, Unlock, Goto, At, Running
<1>7. ASSUME NEW t \in Threads, ClearMap(t) PROVE GatherInv'
  BY <1>7 DEF ClearMap, Goto, At, Running
<1>8. ASSUME NEW t \in Threads, OpenTaskDir(t) PROVE GatherInv'
  BY <1>8 DEF OpenTaskDir, Goto, At, Running
<1>9. ASSUME NEW t \in Threads, TaskDirFails(t) PROVE GatherInv'
  BY <1>9 DEF TaskDirFails, KillProcess, At, Running
<1>10. ASSUME NEW t \in Threads, GetDents(t) PROVE GatherInv'
  BY <1>10 DEF GetDents, Batches, Goto, At, Running
<1>11. ASSUME NEW t \in Threads, EndSweep(t) PROVE GatherInv'
  BY <1>11 DEF EndSweep, Verified, ListingEnds, Goto, At, Running
<1>12. ASSUME NEW t \in Threads, NextEntry(t) PROVE GatherInv'
  BY <1>12 DEF NextEntry, Goto, At, Running
<1>13. ASSUME NEW t \in Threads, InsertEntry(t) PROVE GatherInv'
  BY <1>13 DEF InsertEntry, Locked, Unlock, Goto, At, Running
<1>14. ASSUME NEW t \in Threads, TkillEntry(t) PROVE GatherInv'
  BY <1>14 DEF TkillEntry, Goto, At, Running
<1>15. ASSUME NEW t \in Threads, AccountEntry(t) PROVE GatherInv'
  BY <1>15 DEF AccountEntry, Locked, Unlock, Goto, At, Running
<1>16. ASSUME NEW t \in Threads, Release(t) PROVE GatherInv'
  BY <1>16 DEF Release, Locked, Unlock, AfterDrain, Goto, At, Running
<1>17. ASSUME NEW t \in Threads, Drain(t) PROVE GatherInv'
  BY <1>17 DEF Drain, Locked, Unlock, AfterDrain, Goto, At, Running
<1>18. ASSUME NEW t \in Threads, ReportMismatch(t) PROVE GatherInv'
  BY <1>18 DEF ReportMismatch, Locked, Unlock, KillProcess, Goto, At, Running
<1>19. ASSUME NEW t \in Threads, SyscallToIdle(t) PROVE GatherInv'
  BY <1>19 DEF SyscallToIdle, psx_new_state, Locked, Unlock, Goto, At, Running
<1>20. ASSUME NEW t \in Threads, SetSensitivity(t) PROVE GatherInv'
  BY <1>20 DEF SetSensitivity, Locked, Unlock, Goto, At, Running
<1>21. ASSUME NEW t \in Threads, Cleanup(t) PROVE GatherInv'
  BY <1>21 DEF Cleanup, Locked, Unlock, MayFree, Goto, At, Running
<1>22. ASSUME NEW t \in Threads, ExitGroup(t) PROVE GatherInv'
  BY <1>22 DEF ExitGroup, KillProcess, At, Running
<1>23. ASSUME NEW t \in Threads, LockInHandler(t) PROVE GatherInv'
  BY <1>23 DEF LockInHandler, psx_lock, MuFree
<1>24. ASSUME NEW t \in Threads, ActorCheck(t) PROVE GatherInv'
  BY <1>24 DEF ActorCheck, HandlerLocked, HandlerUnlock, Recognised
<1>25. ASSUME NEW t \in Threads, ActorChain(t) PROVE GatherInv'
  BY <1>25 DEF ActorChain
<1>26. ASSUME NEW t \in Threads, ActorSyscall(t) PROVE GatherInv'
  BY <1>26 DEF ActorSyscall
<1>27. ASSUME NEW t \in Threads, ActorPost(t) PROVE GatherInv'
  BY <1>27 DEF ActorPost, HandlerLocked, HandlerUnlock, WaitOrLeave, Answered
<1>28. ASSUME NEW t \in Threads, ActorWait(t) PROVE GatherInv'
  BY <1>28 DEF ActorWait, HandlerLocked, HandlerUnlock, WaitOrLeave
<1>29. ASSUME NEW t \in Threads, Exit(t) PROVE GatherInv'
  BY <1>29 DEF Exit, At, Running
<1>30. ASSUME NEW t \in Threads, Fork(t) PROVE GatherInv'
  BY <1>30 DEF Fork, At, Running
<1>31. ASSUME NEW t \in Threads, Foreign(t) PROVE GatherInv'
  BY <1>31 DEF Foreign
<1>32. ASSUME NEW t \in Threads, CallSyscall(t) PROVE GatherInv'
  BY <1>32 DEF CallSyscall, Goto, At, Running
<1>33. ASSUME NEW t \in Threads, CallSensitivity(t) PROVE GatherInv'
  BY <1>33 DEF CallSensitivity, Goto, At, Running
<1>34. ASSUME NEW t \in Threads, CallExit(t) PROVE GatherInv'
  BY <1>34 DEF CallExit, Goto, At, Running
<1>35. ASSUME NEW t \in Threads, Deliver(t) PROVE GatherInv'
  BY <1>35 DEF Deliver, Running
<1>36. ASSUME NEW t \in Threads, NEW u \in Threads, Clone(t, u) PROVE GatherInv'
  BY <1>36 DEF Clone, At, Running
<1>37. CASE UNCHANGED vars BY <1>37 DEF vars
<1> QED BY SMTT(30), <1>1, <1>2, <1>3, <1>4, <1>5, <1>6, <1>7, <1>8, <1>9, <1>10, <1>11,
           <1>12, <1>13, <1>14, <1>15, <1>16, <1>17, <1>18, <1>19, <1>20,
           <1>21, <1>22, <1>23, <1>24, <1>25, <1>26, <1>27, <1>28, <1>29,
           <1>30, <1>31, <1>32, <1>33, <1>34, <1>35, <1>36, <1>37 DEF Next,
           Library, Actor, Program, Quiet

LEMMA SweepStep ==
  ASSUME TypeOK, LockInv, FrameInv, CallInv, GatherInv, SweepInv, IdleInv, [Next]_vars
  PROVE  SweepInv'
<1> USE DEF GatherInv, SweepInv, IdleInv, Accounted, Tasks,
        TypeOK, LockInv, FrameInv, CallInv, CallExclusive, LockExclusive,
        SetupLabels, GatherLabels, DoneLabels, CallLabels, SweepLabels, EntryLabels,
        os, frames, tracker, locals, history, Busy, Live, Entries, Blank
<1>1. ASSUME NEW t \in Threads, Lock(t) PROVE SweepInv'
  BY <1>1 DEF Lock, psx_lock, MuFree, Running
<1>2. ASSUME NEW t \in Threads, IdleToSetup(t) PROVE SweepInv'
  BY <1>2 DEF IdleToSetup, psx_new_state, Locked, Unlock, Goto, At, Running
<1>3. ASSUME NEW t \in Threads, ConfirmSigaction(t) PROVE SweepInv'
  BY <1>3 DEF ConfirmSigaction, Goto, At, Running
<1>4. ASSUME NEW t \in Threads, ImmediateSyscall(t) PROVE SweepInv'
  BY <1>4 DEF ImmediateSyscall, Goto, At, Running
<1>5. ASSUME NEW t \in Threads, SetupToIdle(t) PROVE SweepInv'
  BY <1>5 DEF SetupToIdle, psx_new_state, Locked, Unlock, Goto, At, Running
<1>6. ASSUME NEW t \in Threads, SetupToSyscall(t) PROVE SweepInv'
  BY <1>6 DEF SetupToSyscall, psx_new_state, Locked, Unlock, Goto, At, Running
<1>7. ASSUME NEW t \in Threads, ClearMap(t) PROVE SweepInv'
  BY <1>7 DEF ClearMap, Goto, At, Running
<1>8. ASSUME NEW t \in Threads, OpenTaskDir(t) PROVE SweepInv'
  BY <1>8 DEF OpenTaskDir, Goto, At, Running
<1>9. ASSUME NEW t \in Threads, TaskDirFails(t) PROVE SweepInv'
  BY <1>9 DEF TaskDirFails, KillProcess, At, Running
<1>10. ASSUME NEW t \in Threads, GetDents(t) PROVE SweepInv'
  BY <1>10 DEF GetDents, Batches, Goto, At, Running
<1>11. ASSUME NEW t \in Threads, EndSweep(t) PROVE SweepInv'
  BY <1>11 DEF EndSweep, Verified, ListingEnds, Goto, At, Running
<1>12. ASSUME NEW t \in Threads, NextEntry(t) PROVE SweepInv'
  BY <1>12 DEF NextEntry, Goto, At, Running
<1>13. ASSUME NEW t \in Threads, InsertEntry(t) PROVE SweepInv'
  BY <1>13 DEF InsertEntry, Locked, Unlock, Goto, At, Running
<1>14. ASSUME NEW t \in Threads, TkillEntry(t) PROVE SweepInv'
  BY <1>14 DEF TkillEntry, Goto, At, Running
<1>15. ASSUME NEW t \in Threads, AccountEntry(t) PROVE SweepInv'
  BY <1>15 DEF AccountEntry, Locked, Unlock, Goto, At, Running
<1>16. ASSUME NEW t \in Threads, Release(t) PROVE SweepInv'
  BY <1>16 DEF Release, Locked, Unlock, AfterDrain, Goto, At, Running
<1>17. ASSUME NEW t \in Threads, Drain(t) PROVE SweepInv'
  BY <1>17 DEF Drain, Locked, Unlock, AfterDrain, Goto, At, Running
<1>18. ASSUME NEW t \in Threads, ReportMismatch(t) PROVE SweepInv'
  BY <1>18 DEF ReportMismatch, Locked, Unlock, KillProcess, Goto, At, Running
<1>19. ASSUME NEW t \in Threads, SyscallToIdle(t) PROVE SweepInv'
  BY <1>19 DEF SyscallToIdle, psx_new_state, Locked, Unlock, Goto, At, Running
<1>20. ASSUME NEW t \in Threads, SetSensitivity(t) PROVE SweepInv'
  BY <1>20 DEF SetSensitivity, Locked, Unlock, Goto, At, Running
<1>21. ASSUME NEW t \in Threads, Cleanup(t) PROVE SweepInv'
  BY <1>21 DEF Cleanup, Locked, Unlock, MayFree, Goto, At, Running
<1>22. ASSUME NEW t \in Threads, ExitGroup(t) PROVE SweepInv'
  BY <1>22 DEF ExitGroup, KillProcess, At, Running
<1>23. ASSUME NEW t \in Threads, LockInHandler(t) PROVE SweepInv'
  BY <1>23 DEF LockInHandler, psx_lock, MuFree
<1>24. ASSUME NEW t \in Threads, ActorCheck(t) PROVE SweepInv'
  BY <1>24 DEF ActorCheck, HandlerLocked, HandlerUnlock, Recognised
<1>25. ASSUME NEW t \in Threads, ActorChain(t) PROVE SweepInv'
  BY <1>25 DEF ActorChain
<1>26. ASSUME NEW t \in Threads, ActorSyscall(t) PROVE SweepInv'
  BY <1>26 DEF ActorSyscall
<1>27. ASSUME NEW t \in Threads, ActorPost(t) PROVE SweepInv'
  BY <1>27 DEF ActorPost, HandlerLocked, HandlerUnlock, WaitOrLeave, Answered
<1>28. ASSUME NEW t \in Threads, ActorWait(t) PROVE SweepInv'
  BY <1>28 DEF ActorWait, HandlerLocked, HandlerUnlock, WaitOrLeave
<1>29. ASSUME NEW t \in Threads, Exit(t) PROVE SweepInv'
  BY <1>29 DEF Exit, At, Running
<1>30. ASSUME NEW t \in Threads, Fork(t) PROVE SweepInv'
  BY <1>30 DEF Fork, At, Running
<1>31. ASSUME NEW t \in Threads, Foreign(t) PROVE SweepInv'
  BY <1>31 DEF Foreign
<1>32. ASSUME NEW t \in Threads, CallSyscall(t) PROVE SweepInv'
  BY <1>32 DEF CallSyscall, Goto, At, Running
<1>33. ASSUME NEW t \in Threads, CallSensitivity(t) PROVE SweepInv'
  BY <1>33 DEF CallSensitivity, Goto, At, Running
<1>34. ASSUME NEW t \in Threads, CallExit(t) PROVE SweepInv'
  BY <1>34 DEF CallExit, Goto, At, Running
<1>35. ASSUME NEW t \in Threads, Deliver(t) PROVE SweepInv'
  BY <1>35 DEF Deliver, Running
<1>36. ASSUME NEW t \in Threads, NEW u \in Threads, Clone(t, u) PROVE SweepInv'
  BY <1>36 DEF Clone, At, Running
<1>37. CASE UNCHANGED vars BY <1>37 DEF vars
<1> QED BY <1>1, <1>2, <1>3, <1>4, <1>5, <1>6, <1>7, <1>8, <1>9, <1>10, <1>11,
           <1>12, <1>13, <1>14, <1>15, <1>16, <1>17, <1>18, <1>19, <1>20,
           <1>21, <1>22, <1>23, <1>24, <1>25, <1>26, <1>27, <1>28, <1>29,
           <1>30, <1>31, <1>32, <1>33, <1>34, <1>35, <1>36, <1>37 DEF Next,
           Library, Actor, Program, Quiet

LEMMA DoneStep ==
  ASSUME TypeOK, LockInv, FrameInv, CallInv, GatherInv, SweepInv, DoneInv,
         IdleInv, [Next]_vars
  PROVE  DoneInv'
<1> USE DEF GatherInv, DoneInv, IdleInv, SweepInv, Accounted, Tasks,
        TypeOK, LockInv, FrameInv, CallInv, CallExclusive, LockExclusive,
        SetupLabels, GatherLabels, DoneLabels, CallLabels, SweepLabels, EntryLabels,
        os, frames, tracker, locals, history, Busy, Live, Entries, Blank
<1>1. ASSUME NEW t \in Threads, Lock(t) PROVE DoneInv'
  BY <1>1 DEF Lock, psx_lock, MuFree, Running
<1>2. ASSUME NEW t \in Threads, IdleToSetup(t) PROVE DoneInv'
  BY <1>2 DEF IdleToSetup, psx_new_state, Locked, Unlock, Goto, At, Running
<1>3. ASSUME NEW t \in Threads, ConfirmSigaction(t) PROVE DoneInv'
  BY <1>3 DEF ConfirmSigaction, Goto, At, Running
<1>4. ASSUME NEW t \in Threads, ImmediateSyscall(t) PROVE DoneInv'
  BY <1>4 DEF ImmediateSyscall, Goto, At, Running
<1>5. ASSUME NEW t \in Threads, SetupToIdle(t) PROVE DoneInv'
  BY <1>5 DEF SetupToIdle, psx_new_state, Locked, Unlock, Goto, At, Running
<1>6. ASSUME NEW t \in Threads, SetupToSyscall(t) PROVE DoneInv'
  BY <1>6 DEF SetupToSyscall, psx_new_state, Locked, Unlock, Goto, At, Running
<1>7. ASSUME NEW t \in Threads, ClearMap(t) PROVE DoneInv'
  BY <1>7 DEF ClearMap, Goto, At, Running
<1>8. ASSUME NEW t \in Threads, OpenTaskDir(t) PROVE DoneInv'
  BY <1>8 DEF OpenTaskDir, Goto, At, Running
<1>9. ASSUME NEW t \in Threads, TaskDirFails(t) PROVE DoneInv'
  BY <1>9 DEF TaskDirFails, KillProcess, At, Running
<1>10. ASSUME NEW t \in Threads, GetDents(t) PROVE DoneInv'
  BY <1>10 DEF GetDents, Batches, Goto, At, Running
<1>11. ASSUME NEW t \in Threads, EndSweep(t) PROVE DoneInv'
  BY <1>11 DEF EndSweep, Verified, ListingEnds, Goto, At, Running
<1>12. ASSUME NEW t \in Threads, NextEntry(t) PROVE DoneInv'
  BY <1>12 DEF NextEntry, Goto, At, Running
<1>13. ASSUME NEW t \in Threads, InsertEntry(t) PROVE DoneInv'
  BY <1>13 DEF InsertEntry, Locked, Unlock, Goto, At, Running
<1>14. ASSUME NEW t \in Threads, TkillEntry(t) PROVE DoneInv'
  BY <1>14 DEF TkillEntry, Goto, At, Running
<1>15. ASSUME NEW t \in Threads, AccountEntry(t) PROVE DoneInv'
  BY <1>15 DEF AccountEntry, Locked, Unlock, Goto, At, Running
<1>16. ASSUME NEW t \in Threads, Release(t) PROVE DoneInv'
  BY <1>16 DEF Release, Locked, Unlock, AfterDrain, Goto, At, Running
<1>17. ASSUME NEW t \in Threads, Drain(t) PROVE DoneInv'
  BY <1>17 DEF Drain, Locked, Unlock, AfterDrain, Goto, At, Running
<1>18. ASSUME NEW t \in Threads, ReportMismatch(t) PROVE DoneInv'
  BY <1>18 DEF ReportMismatch, Locked, Unlock, KillProcess, Goto, At, Running
<1>19. ASSUME NEW t \in Threads, SyscallToIdle(t) PROVE DoneInv'
  BY <1>19 DEF SyscallToIdle, psx_new_state, Locked, Unlock, Goto, At, Running
<1>20. ASSUME NEW t \in Threads, SetSensitivity(t) PROVE DoneInv'
  BY <1>20 DEF SetSensitivity, Locked, Unlock, Goto, At, Running
<1>21. ASSUME NEW t \in Threads, Cleanup(t) PROVE DoneInv'
  BY <1>21 DEF Cleanup, Locked, Unlock, MayFree, Goto, At, Running
<1>22. ASSUME NEW t \in Threads, ExitGroup(t) PROVE DoneInv'
  BY <1>22 DEF ExitGroup, KillProcess, At, Running
<1>23. ASSUME NEW t \in Threads, LockInHandler(t) PROVE DoneInv'
  BY <1>23 DEF LockInHandler, psx_lock, MuFree
<1>24. ASSUME NEW t \in Threads, ActorCheck(t) PROVE DoneInv'
  BY <1>24 DEF ActorCheck, HandlerLocked, HandlerUnlock, Recognised
<1>25. ASSUME NEW t \in Threads, ActorChain(t) PROVE DoneInv'
  BY <1>25 DEF ActorChain
<1>26. ASSUME NEW t \in Threads, ActorSyscall(t) PROVE DoneInv'
  BY <1>26 DEF ActorSyscall
<1>27. ASSUME NEW t \in Threads, ActorPost(t) PROVE DoneInv'
  BY <1>27 DEF ActorPost, HandlerLocked, HandlerUnlock, WaitOrLeave, Answered
<1>28. ASSUME NEW t \in Threads, ActorWait(t) PROVE DoneInv'
  BY <1>28 DEF ActorWait, HandlerLocked, HandlerUnlock, WaitOrLeave
<1>29. ASSUME NEW t \in Threads, Exit(t) PROVE DoneInv'
  BY <1>29 DEF Exit, At, Running
<1>30. ASSUME NEW t \in Threads, Fork(t) PROVE DoneInv'
  BY <1>30 DEF Fork, At, Running
<1>31. ASSUME NEW t \in Threads, Foreign(t) PROVE DoneInv'
  BY <1>31 DEF Foreign
<1>32. ASSUME NEW t \in Threads, CallSyscall(t) PROVE DoneInv'
  BY <1>32 DEF CallSyscall, Goto, At, Running
<1>33. ASSUME NEW t \in Threads, CallSensitivity(t) PROVE DoneInv'
  BY <1>33 DEF CallSensitivity, Goto, At, Running
<1>34. ASSUME NEW t \in Threads, CallExit(t) PROVE DoneInv'
  BY <1>34 DEF CallExit, Goto, At, Running
<1>35. ASSUME NEW t \in Threads, Deliver(t) PROVE DoneInv'
  BY <1>35 DEF Deliver, Running
<1>36. ASSUME NEW t \in Threads, NEW u \in Threads, Clone(t, u) PROVE DoneInv'
  BY <1>36 DEF Clone, At, Running
<1>37. CASE UNCHANGED vars BY <1>37 DEF vars
<1> QED BY <1>1, <1>2, <1>3, <1>4, <1>5, <1>6, <1>7, <1>8, <1>9, <1>10, <1>11,
           <1>12, <1>13, <1>14, <1>15, <1>16, <1>17, <1>18, <1>19, <1>20,
           <1>21, <1>22, <1>23, <1>24, <1>25, <1>26, <1>27, <1>28, <1>29,
           <1>30, <1>31, <1>32, <1>33, <1>34, <1>35, <1>36, <1>37 DEF Next,
           Library, Actor, Program, Quiet

-----------------------------------------------------------------------------
(* Counting: the two cardinalities the drain relies on                     *)

LEMMA BusyFinite == ASSUME TypeOK PROVE IsFiniteSet(BusyThreads)
  BY ThreadsAssumption, FS_Subset DEF BusyThreads

LEMMA AccountedFinite ==
  ASSUME TypeOK, NEW c \in Threads PROVE IsFiniteSet(Accounted(c))
  BY ThreadsAssumption, FS_Subset DEF Accounted, TypeOK

LEMMA CountStep ==
  ASSUME TypeOK, LockInv, FrameInv, CallInv, SweepInv, CountInv, [Next]_vars
  PROVE  CountInv'
<1> SUFFICES ASSUME NEW c \in Threads, pc'[c] \in SweepLabels
             PROVE  inc' = Cardinality(Accounted(c)')
  BY DEF CountInv
<1> USE DEF TypeOK, FrameInv, CallInv, CallExclusive, SetupLabels, GatherLabels,
        DoneLabels, CallLabels, SweepLabels, EntryLabels,
        os, frames, tracker, locals, history
<1>1. CASE OpenTaskDir(c)
  <2>1. Accounted(c)' = {} BY <1>1 DEF OpenTaskDir, Accounted
  <2> QED BY <1>1, <2>1, FS_EmptySet DEF OpenTaskDir
<1>2. CASE AccountEntry(c)
  <2>1. /\ Accounted(c)' = Accounted(c) \cup {cur}
        /\ cur \notin Accounted(c)
    BY <1>2 DEF AccountEntry, Accounted, SweepInv, Locked, At, Goto
  <2>2. Cardinality(Accounted(c)') = Cardinality(Accounted(c)) + 1
    <3>1. IsFiniteSet(Accounted(c)) BY AccountedFinite
    <3>2. Cardinality(Accounted(c) \cup {cur}) = Cardinality(Accounted(c)) + 1
      BY <2>1, <3>1, FS_AddElement
    <3> QED BY <2>1, <3>2
  <2>3. inc = Cardinality(Accounted(c))
    BY <1>2 DEF CountInv, AccountEntry, Locked, At
  <2> QED BY <1>2, <2>2, <2>3 DEF AccountEntry
<1>3. CASE \/ GetDents(c) \/ NextEntry(c) \/ EndSweep(c)
          \/ InsertEntry(c) \/ TkillEntry(c)
  <2>1. pc[c] \in SweepLabels /\ inc' = inc
    BY <1>3 DEF GetDents, NextEntry, EndSweep, InsertEntry, TkillEntry, Locked, At
  <2>2. Accounted(c)' = Accounted(c)
    <3>1. CASE GetDents(c)
      <4>1. buf = {} /\ buf' \cap seen = {} /\ seen' = seen \cup buf'
        BY <3>1 DEF GetDents, Batches, At, SweepInv
      <4> QED BY <3>1, <4>1 DEF GetDents, Accounted, At, Goto
    <3>2. CASE NextEntry(c)
      BY <3>2 DEF NextEntry, Accounted, At, Goto, SweepInv
    <3>3. CASE EndSweep(c) \/ InsertEntry(c) \/ TkillEntry(c)
      BY <3>3 DEF EndSweep, InsertEntry, TkillEntry, Accounted, At, Locked, Goto
    <3> QED BY <1>3, <3>1, <3>2, <3>3
  <2> QED BY <2>1, <2>2 DEF CountInv
<1>4. CASE /\ pc[c] = pc'[c]
           /\ UNCHANGED <<seen, buf, cur, inc>>
  BY <1>4 DEF CountInv, Accounted
<1>5. ASSUME NEW t \in Threads, Library(t), t # c
      PROVE  pc[c] = pc'[c] /\ UNCHANGED <<seen, buf, cur, inc>>
  <2>1. CASE Lock(t) BY <1>5, <2>1 DEF Lock, psx_lock, MuFree, Running
  <2>2. CASE IdleToSetup(t) BY <1>5, <2>2 DEF IdleToSetup, psx_new_state, Locked, Unlock, Goto, At, Running
  <2>3. CASE ConfirmSigaction(t) BY <1>5, <2>3 DEF ConfirmSigaction, Goto, At, Running
  <2>4. CASE ImmediateSyscall(t) BY <1>5, <2>4 DEF ImmediateSyscall, Goto, At, Running
  <2>5. CASE SetupToIdle(t) BY <1>5, <2>5 DEF SetupToIdle, psx_new_state, Locked, Unlock, Goto, At, Running
  <2>6. CASE SetupToSyscall(t) BY <1>5, <2>6 DEF SetupToSyscall, psx_new_state, Locked, Unlock, Goto, At, Running
  <2>7. CASE ClearMap(t) BY <1>5, <2>7 DEF ClearMap, Goto, At, Running
  <2>8. CASE OpenTaskDir(t) BY <1>5, <2>8 DEF OpenTaskDir, Goto, At, Running
  <2>9. CASE TaskDirFails(t) BY <1>5, <2>9 DEF TaskDirFails, KillProcess, At, Running
  <2>10. CASE GetDents(t) BY <1>5, <2>10 DEF GetDents, Batches, Goto, At, Running
  <2>11. CASE EndSweep(t) BY <1>5, <2>11 DEF EndSweep, Verified, ListingEnds, Goto, At, Running
  <2>12. CASE NextEntry(t) BY <1>5, <2>12 DEF NextEntry, Goto, At, Running
  <2>13. CASE InsertEntry(t) BY <1>5, <2>13 DEF InsertEntry, Locked, Unlock, Goto, At, Running
  <2>14. CASE TkillEntry(t) BY <1>5, <2>14 DEF TkillEntry, Goto, At, Running
  <2>15. CASE AccountEntry(t) BY <1>5, <2>15 DEF AccountEntry, Locked, Unlock, Goto, At, Running
  <2>16. CASE Release(t) BY <1>5, <2>16 DEF Release, Locked, Unlock, AfterDrain, Goto, At, Running
  <2>17. CASE Drain(t) BY <1>5, <2>17 DEF Drain, Locked, Unlock, AfterDrain, Goto, At, Running
  <2>18. CASE ReportMismatch(t) BY <1>5, <2>18 DEF ReportMismatch, Locked, Unlock, KillProcess, Goto, At, Running
  <2>19. CASE SyscallToIdle(t) BY <1>5, <2>19 DEF SyscallToIdle, psx_new_state, Locked, Unlock, Goto, At, Running
  <2>20. CASE SetSensitivity(t) BY <1>5, <2>20 DEF SetSensitivity, Locked, Unlock, Goto, At, Running
  <2>21. CASE Cleanup(t) BY <1>5, <2>21 DEF Cleanup, Locked, Unlock, MayFree, Goto, At, Running
  <2>22. CASE ExitGroup(t) BY <1>5, <2>22 DEF ExitGroup, KillProcess, At, Running
  <2> QED BY <1>5, <2>1, <2>2, <2>3, <2>4, <2>5, <2>6, <2>7, <2>8, <2>9,
      <2>10, <2>11, <2>12, <2>13, <2>14, <2>15, <2>16, <2>17, <2>18, <2>19,
      <2>20, <2>21, <2>22 DEF Library
<1>6. ASSUME Library(c) PROVE inc' = Cardinality(Accounted(c)')
  <2>1. CASE Lock(c) BY <1>4, <2>1 DEF Lock, psx_lock, MuFree, Running
  <2>2. CASE IdleToSetup(c) BY <1>4, <2>2 DEF IdleToSetup, psx_new_state, Locked, Unlock, Goto, At, Running
  <2>3. CASE ConfirmSigaction(c) BY <1>4, <2>3 DEF ConfirmSigaction, Goto, At, Running
  <2>4. CASE ImmediateSyscall(c) BY <1>4, <2>4 DEF ImmediateSyscall, Goto, At, Running
  <2>5. CASE SetupToIdle(c) BY <1>4, <2>5 DEF SetupToIdle, psx_new_state, Locked, Unlock, Goto, At, Running
  <2>6. CASE SetupToSyscall(c) BY <1>4, <2>6 DEF SetupToSyscall, psx_new_state, Locked, Unlock, Goto, At, Running
  <2>7. CASE ClearMap(c) BY <1>4, <2>7 DEF ClearMap, Goto, At, Running
  <2>8. CASE TaskDirFails(c) BY <1>4, <2>8 DEF TaskDirFails, KillProcess, At, Running
  <2>9. CASE Release(c) BY <1>4, <2>9 DEF Release, Locked, Unlock, AfterDrain, Goto, At, Running
  <2>10. CASE Drain(c) BY <1>4, <2>10 DEF Drain, Locked, Unlock, AfterDrain, Goto, At, Running
  <2>11. CASE ReportMismatch(c) BY <1>4, <2>11 DEF ReportMismatch, Locked, Unlock, KillProcess, Goto, At, Running
  <2>12. CASE SyscallToIdle(c) BY <1>4, <2>12 DEF SyscallToIdle, psx_new_state, Locked, Unlock, Goto, At, Running
  <2>13. CASE SetSensitivity(c) BY <1>4, <2>13 DEF SetSensitivity, Locked, Unlock, Goto, At, Running
  <2>14. CASE Cleanup(c) BY <1>4, <2>14 DEF Cleanup, Locked, Unlock, MayFree, Goto, At, Running
  <2>15. CASE ExitGroup(c) BY <1>4, <2>15 DEF ExitGroup, KillProcess, At, Running
  <2> QED BY <1>1, <1>2, <1>3, <1>6, <2>1, <2>2, <2>3, <2>4, <2>5, <2>6, <2>7,
      <2>8, <2>9, <2>10, <2>11, <2>12, <2>13, <2>14, <2>15 DEF Library
<1>7. ASSUME NEW t \in Threads, Actor(t) \/ Deliver(t)
      PROVE  pc[c] = pc'[c] /\ UNCHANGED <<seen, buf, cur, inc>>
  BY <1>7 DEF Actor, Deliver, LockInHandler, ActorCheck, ActorChain,
              ActorSyscall, ActorPost, ActorWait
<1>8. ASSUME NEW t \in Threads, Program(t)
      PROVE  pc[c] = pc'[c] /\ UNCHANGED <<seen, buf, cur, inc>>
  BY <1>8 DEF Program, Clone, Exit, Fork, Foreign, CallSyscall,
              CallSensitivity, CallExit, Goto
<1>9. CASE UNCHANGED vars BY <1>4, <1>9 DEF vars
<1> QED BY <1>4, <1>5, <1>6, <1>7, <1>8, <1>9 DEF Next, Quiet

(* When the barrier comes down the threads accounted for in the last sweep *)
(* are exactly those in the handler.                                       *)
LEMMA ReleaseBusy ==
  ASSUME TypeOK, FrameInv, GatherInv, SweepInv, NEW c \in Threads, Release(c)
  PROVE  BusyThreads = Accounted(c)
<1> USE DEF GatherLabels, SweepLabels, EntryLabels, TypeOK
<1>1. /\ pc[c] = "release" /\ hpc[c] = "none"
      /\ buf = {} /\ ~ some /\ Tasks \subseteq seen
  BY DEF Release, Locked, At, Running, SweepInv
<1>2. ASSUME NEW u \in Threads, u \in Accounted(c) PROVE hpc[u] \in Busy
  BY <1>1, <1>2 DEF SweepInv, GatherInv, Busy
<1>3. ASSUME NEW u \in Threads, hpc[u] \in Busy PROVE u \in Accounted(c)
  BY <1>1, <1>3 DEF FrameInv, Tasks, Accounted, Busy
<1>4. Accounted(c) \subseteq Threads BY DEF Accounted
<1> QED BY <1>2, <1>3, <1>4 DEF BusyThreads

LEMMA DrainStep ==
  ASSUME TypeOK, LockInv, FrameInv, CallInv, GatherInv, SweepInv, CountInv,
         DoneInv, DrainInv, IdleInv, [Next]_vars
  PROVE  DrainInv'
<1> SUFFICES ASSUME NEW c \in Threads, pc'[c] = "drain"
             PROVE  incomplete' = Cardinality(BusyThreads')
  BY DEF DrainInv
<1> USE DEF TypeOK, os, frames, tracker, locals, history
<1>1. CASE Release(c)
  <2>1. BusyThreads' = Accounted(c)
    BY <1>1, ReleaseBusy DEF Release, BusyThreads
  <2>2. inc = Cardinality(Accounted(c))
    BY <1>1 DEF Release, Locked, At, CountInv, SweepLabels, GatherLabels
  <2> QED BY <1>1, <2>1, <2>2 DEF Release
<1>2. CASE pc[c] = "drain" /\ UNCHANGED incomplete /\ BusyThreads' = BusyThreads
  BY <1>2 DEF DrainInv
<1>3. ASSUME NEW t \in Threads, ActorPost(t) \/ ActorWait(t)
      PROVE  incomplete' = Cardinality(BusyThreads')
  <2>1. pc[c] = "drain" BY <1>3 DEF ActorPost, ActorWait
  <2>2. ~ active BY <2>1 DEF DoneInv, DoneLabels
  <2>3. /\ incomplete' = incomplete - 1
        /\ BusyThreads' = BusyThreads \ {t} /\ t \in BusyThreads
    BY <1>3, <2>2 DEF ActorPost, ActorWait, WaitOrLeave, HandlerLocked,
                      BusyThreads, Busy
  <2>4. IsFiniteSet(BusyThreads) BY BusyFinite
  <2>5. Cardinality(BusyThreads \ {t}) = Cardinality(BusyThreads) - 1
    BY <2>3, <2>4, FS_RemoveElement
  <2> QED BY <2>1, <2>3, <2>5 DEF DrainInv
<1>4. ASSUME NEW t \in Threads, Library(t), ~ Release(c)
      PROVE  pc[c] = "drain" /\ UNCHANGED <<incomplete, hpc>>
  <2>1. CASE Lock(t) BY <1>4, <2>1 DEF Lock, psx_lock, MuFree, Running
  <2>2. CASE IdleToSetup(t) BY <1>4, <2>2 DEF IdleToSetup, psx_new_state, Locked, Unlock, Goto, At, Running
  <2>3. CASE ConfirmSigaction(t) BY <1>4, <2>3 DEF ConfirmSigaction, Goto, At, Running
  <2>4. CASE ImmediateSyscall(t) BY <1>4, <2>4 DEF ImmediateSyscall, Goto, At, Running
  <2>5. CASE SetupToIdle(t) BY <1>4, <2>5 DEF SetupToIdle, psx_new_state, Locked, Unlock, Goto, At, Running
  <2>6. CASE SetupToSyscall(t) BY <1>4, <2>6 DEF SetupToSyscall, psx_new_state, Locked, Unlock, Goto, At, Running
  <2>7. CASE ClearMap(t) BY <1>4, <2>7 DEF ClearMap, Goto, At, Running
  <2>8. CASE OpenTaskDir(t) BY <1>4, <2>8 DEF OpenTaskDir, Goto, At, Running
  <2>9. CASE TaskDirFails(t) BY <1>4, <2>9 DEF TaskDirFails, KillProcess, At, Running
  <2>10. CASE GetDents(t) BY <1>4, <2>10 DEF GetDents, Batches, Goto, At, Running
  <2>11. CASE EndSweep(t) BY <1>4, <2>11 DEF EndSweep, Verified, ListingEnds, Goto, At, Running
  <2>12. CASE NextEntry(t) BY <1>4, <2>12 DEF NextEntry, Goto, At, Running
  <2>13. CASE InsertEntry(t) BY <1>4, <2>13 DEF InsertEntry, Locked, Unlock, Goto, At, Running
  <2>14. CASE TkillEntry(t) BY <1>4, <2>14 DEF TkillEntry, Goto, At, Running
  <2>15. CASE AccountEntry(t) BY <1>4, <2>15 DEF AccountEntry, Locked, Unlock, Goto, At, Running
  <2>16. CASE Release(t) BY <1>4, <2>16 DEF Release, Locked, Unlock, AfterDrain, Goto, At, Running, 
      CallInv, CallExclusive, CallLabels, GatherLabels, DoneLabels
  <2>17. CASE Drain(t) BY <1>4, <2>17 DEF Drain, Locked, Unlock, AfterDrain, Goto, At, Running
  <2>18. CASE ReportMismatch(t) BY <1>4, <2>18 DEF ReportMismatch, Locked, Unlock, KillProcess, Goto, At, Running
  <2>19. CASE SyscallToIdle(t) BY <1>4, <2>19 DEF SyscallToIdle, psx_new_state, Locked, Unlock, Goto, At, Running
  <2>20. CASE SetSensitivity(t) BY <1>4, <2>20 DEF SetSensitivity, Locked, Unlock, Goto, At, Running
  <2>21. CASE Cleanup(t) BY <1>4, <2>21 DEF Cleanup, Locked, Unlock, MayFree, Goto, At, Running
  <2>22. CASE ExitGroup(t) BY <1>4, <2>22 DEF ExitGroup, KillProcess, At, Running
  <2> QED BY <1>4, <2>1, <2>2, <2>3, <2>4, <2>5, <2>6, <2>7, <2>8, <2>9,
      <2>10, <2>11, <2>12, <2>13, <2>14, <2>15, <2>16, <2>17, <2>18, <2>19,
      <2>20, <2>21, <2>22 DEF Library
<1>5. ASSUME NEW t \in Threads, Actor(t), ~ ActorPost(t), ~ ActorWait(t)
      PROVE  /\ pc[c] = "drain" /\ UNCHANGED incomplete
             /\ BusyThreads' = BusyThreads
  <2>1. pc[c] = "drain" /\ UNCHANGED incomplete
    BY <1>5 DEF Actor, LockInHandler, psx_lock, ActorCheck, ActorChain, ActorSyscall
  <2>2. ~ active BY <2>1 DEF DoneInv, DoneLabels
  <2>3. BusyThreads' = BusyThreads
    BY <1>5, <2>2 DEF Actor, LockInHandler, ActorCheck, ActorChain,
       ActorSyscall, HandlerLocked, Recognised, BusyThreads, Busy
  <2> QED BY <2>1, <2>3
<1>6. ASSUME NEW t \in Threads, Program(t) \/ Deliver(t)
      PROVE  /\ pc[c] = "drain" /\ UNCHANGED incomplete
             /\ BusyThreads' = BusyThreads
  BY <1>6 DEF Program, Deliver, Clone, Exit, Fork, Foreign, CallSyscall,
     CallSensitivity, CallExit, Goto, Running, BusyThreads, Busy
<1>7. CASE UNCHANGED vars BY <1>2, <1>7 DEF vars, BusyThreads
<1>8. ASSUME NEW t \in Threads, Library(t)
      PROVE  incomplete' = Cardinality(BusyThreads')
  <2>1. CASE ~ Release(c) BY <1>2, <1>4, <1>8, <2>1 DEF BusyThreads
  <2> QED BY <1>1, <2>1
<1>9. ASSUME NEW t \in Threads, Actor(t)
      PROVE  incomplete' = Cardinality(BusyThreads')
  BY <1>2, <1>3, <1>5, <1>9
<1> QED BY <1>2, <1>6, <1>7, <1>8, <1>9 DEF Next, Quiet

LEMMA IdleStep ==
  ASSUME TypeOK, LockInv, FrameInv, CallInv, GatherInv, SweepInv, CountInv,
         DoneInv, DrainInv, IdleInv, [Next]_vars
  PROVE  IdleInv'
<1> USE DEF GatherInv, DoneInv, IdleInv,
        TypeOK, LockInv, FrameInv, CallInv, CallExclusive, LockExclusive,
        SetupLabels, GatherLabels, DoneLabels, CallLabels, SweepLabels, EntryLabels,
        os, frames, tracker, locals, history, Busy, Live, Entries, Blank
<1>1. ASSUME NEW t \in Threads, Lock(t) PROVE IdleInv'
  BY <1>1 DEF Lock, psx_lock, MuFree, Running
<1>2. ASSUME NEW t \in Threads, IdleToSetup(t) PROVE IdleInv'
  BY <1>2 DEF IdleToSetup, psx_new_state, Locked, Unlock, Goto, At, Running
<1>3. ASSUME NEW t \in Threads, ConfirmSigaction(t) PROVE IdleInv'
  BY <1>3 DEF ConfirmSigaction, Goto, At, Running
<1>4. ASSUME NEW t \in Threads, ImmediateSyscall(t) PROVE IdleInv'
  BY <1>4 DEF ImmediateSyscall, Goto, At, Running
<1>5. ASSUME NEW t \in Threads, SetupToIdle(t) PROVE IdleInv'
  BY <1>5 DEF SetupToIdle, psx_new_state, Locked, Unlock, Goto, At, Running
<1>6. ASSUME NEW t \in Threads, SetupToSyscall(t) PROVE IdleInv'
  BY <1>6 DEF SetupToSyscall, psx_new_state, Locked, Unlock, Goto, At, Running
<1>7. ASSUME NEW t \in Threads, ClearMap(t) PROVE IdleInv'
  BY <1>7 DEF ClearMap, Goto, At, Running
<1>8. ASSUME NEW t \in Threads, OpenTaskDir(t) PROVE IdleInv'
  BY <1>8 DEF OpenTaskDir, Goto, At, Running
<1>9. ASSUME NEW t \in Threads, TaskDirFails(t) PROVE IdleInv'
  BY <1>9 DEF TaskDirFails, KillProcess, At, Running
<1>10. ASSUME NEW t \in Threads, GetDents(t) PROVE IdleInv'
  BY <1>10 DEF GetDents, Batches, Goto, At, Running
<1>11. ASSUME NEW t \in Threads, EndSweep(t) PROVE IdleInv'
  BY <1>11 DEF EndSweep, Verified, ListingEnds, Goto, At, Running
<1>12. ASSUME NEW t \in Threads, NextEntry(t) PROVE IdleInv'
  BY <1>12 DEF NextEntry, Goto, At, Running
<1>13. ASSUME NEW t \in Threads, InsertEntry(t) PROVE IdleInv'
  BY <1>13 DEF InsertEntry, Locked, Unlock, Goto, At, Running
<1>14. ASSUME NEW t \in Threads, TkillEntry(t) PROVE IdleInv'
  BY <1>14 DEF TkillEntry, Goto, At, Running
<1>15. ASSUME NEW t \in Threads, AccountEntry(t) PROVE IdleInv'
  BY <1>15 DEF AccountEntry, Locked, Unlock, Goto, At, Running
<1>16. ASSUME NEW t \in Threads, Release(t) PROVE IdleInv'
  <2>1. CASE inc = 0
    <3>1. Cardinality(BusyThreads) = 0
      <4>1. BusyThreads = Accounted(t) BY <1>16, ReleaseBusy
      <4>2. pc[t] = "release" BY <1>16 DEF Release, Locked, At
      <4> QED BY <2>1, <4>1, <4>2 DEF CountInv
    <3>2. BusyThreads = {} BY <3>1, BusyFinite, FS_EmptySet
    <3> QED BY <1>16, <3>2 DEF Release, Goto, AfterDrain, BusyThreads, Locked, At
  <2>2. CASE inc # 0
    BY <1>16, <2>2 DEF Release, Goto, Locked, At
  <2> QED BY <2>1, <2>2
<1>17. ASSUME NEW t \in Threads, Drain(t) PROVE IdleInv'
  <2>1. CASE incomplete = 0
    <3>1. Cardinality(BusyThreads) = 0 BY <1>17, <2>1 DEF DrainInv, Drain, Locked, At
    <3>2. BusyThreads = {} BY <3>1, BusyFinite, FS_EmptySet
    <3> QED BY <1>17, <3>2 DEF Drain, Goto, Drained, AfterDrain, BusyThreads, Locked, At
  <2>2. CASE incomplete # 0
    BY <1>17, <2>2 DEF Drain, Goto, Drained, Locked, At
  <2> QED BY <2>1, <2>2
<1>18. ASSUME NEW t \in Threads, ReportMismatch(t) PROVE IdleInv'
  BY <1>18 DEF ReportMismatch, Locked, Unlock, KillProcess, Goto, At, Running
<1>19. ASSUME NEW t \in Threads, SyscallToIdle(t) PROVE IdleInv'
  BY <1>19 DEF SyscallToIdle, psx_new_state, Locked, Unlock, Goto, At, Running
<1>20. ASSUME NEW t \in Threads, SetSensitivity(t) PROVE IdleInv'
  BY <1>20 DEF SetSensitivity, Locked, Unlock, Goto, At, Running
<1>21. ASSUME NEW t \in Threads, Cleanup(t) PROVE IdleInv'
  BY <1>21 DEF Cleanup, Locked, Unlock, MayFree, Goto, At, Running
<1>22. ASSUME NEW t \in Threads, ExitGroup(t) PROVE IdleInv'
  BY <1>22 DEF ExitGroup, KillProcess, At, Running
<1>23. ASSUME NEW t \in Threads, LockInHandler(t) PROVE IdleInv'
  BY <1>23 DEF LockInHandler, psx_lock, MuFree
<1>24. ASSUME NEW t \in Threads, ActorCheck(t) PROVE IdleInv'
  BY <1>24 DEF ActorCheck, HandlerLocked, HandlerUnlock, Recognised
<1>25. ASSUME NEW t \in Threads, ActorChain(t) PROVE IdleInv'
  BY <1>25 DEF ActorChain
<1>26. ASSUME NEW t \in Threads, ActorSyscall(t) PROVE IdleInv'
  BY <1>26 DEF ActorSyscall
<1>27. ASSUME NEW t \in Threads, ActorPost(t) PROVE IdleInv'
  BY <1>27 DEF ActorPost, HandlerLocked, HandlerUnlock, WaitOrLeave, Answered
<1>28. ASSUME NEW t \in Threads, ActorWait(t) PROVE IdleInv'
  BY <1>28 DEF ActorWait, HandlerLocked, HandlerUnlock, WaitOrLeave
<1>29. ASSUME NEW t \in Threads, Exit(t) PROVE IdleInv'
  BY <1>29 DEF Exit, At, Running
<1>30. ASSUME NEW t \in Threads, Fork(t) PROVE IdleInv'
  BY <1>30 DEF Fork, At, Running
<1>31. ASSUME NEW t \in Threads, Foreign(t) PROVE IdleInv'
  BY <1>31 DEF Foreign
<1>32. ASSUME NEW t \in Threads, CallSyscall(t) PROVE IdleInv'
  BY <1>32 DEF CallSyscall, Goto, At, Running
<1>33. ASSUME NEW t \in Threads, CallSensitivity(t) PROVE IdleInv'
  BY <1>33 DEF CallSensitivity, Goto, At, Running
<1>34. ASSUME NEW t \in Threads, CallExit(t) PROVE IdleInv'
  BY <1>34 DEF CallExit, Goto, At, Running
<1>35. ASSUME NEW t \in Threads, Deliver(t) PROVE IdleInv'
  BY <1>35 DEF Deliver, Running
<1>36. ASSUME NEW t \in Threads, NEW u \in Threads, Clone(t, u) PROVE IdleInv'
  BY <1>36 DEF Clone, At, Running
<1>37. CASE UNCHANGED vars BY <1>37 DEF vars
<1> QED BY <1>1, <1>2, <1>3, <1>4, <1>5, <1>6, <1>7, <1>8, <1>9, <1>10, <1>11,
           <1>12, <1>13, <1>14, <1>15, <1>16, <1>17, <1>18, <1>19, <1>20,
           <1>21, <1>22, <1>23, <1>24, <1>25, <1>26, <1>27, <1>28, <1>29,
           <1>30, <1>31, <1>32, <1>33, <1>34, <1>35, <1>36, <1>37 DEF Next,
           Library, Actor, Program, Quiet

-----------------------------------------------------------------------------
(* The theorems                                                            *)

LEMMA InductiveInit == Init => Inductive
<1> SUFFICES ASSUME Init PROVE Inductive
  OBVIOUS
<1>1. TypeOK BY TypeInit
<1> USE DEF SetupLabels, GatherLabels, DoneLabels, CallLabels, SweepLabels
<1>2. LockInv BY DEF Init, LockInv, LockExclusive
<1>3. FrameInv BY DEF Init, FrameInv
<1>4. CallInv BY DEF Init, CallInv, CallExclusive
<1>5. GatherInv BY DEF Init, GatherInv
<1>6. SweepInv /\ CountInv BY DEF Init, SweepInv, CountInv
<1>7. DoneInv /\ DrainInv BY DEF Init, DoneInv, DrainInv
<1>8. IdleInv BY DEF Init, IdleInv, Busy
<1> QED BY <1>1, <1>2, <1>3, <1>4, <1>5, <1>6, <1>7, <1>8 DEF Inductive

LEMMA InductiveStep == Inductive /\ [Next]_vars => Inductive'
  BY TypeStep, LockStep, FrameStep, CallStep, GatherStep, SweepStep, CountStep,
     DoneStep, DrainStep, IdleStep DEF Inductive

LEMMA InductiveHolds == Spec => []Inductive
  BY InductiveInit, InductiveStep, PTL DEF Spec

(* psx_lock admits one frame at a time, and one thread at a time owns the  *)
(* tracker from SETUP back to IDLE; fork() breaks neither.                 *)
THEOREM MutualExclusion == Spec => []Exclusive
<1>1. Inductive => Exclusive BY DEF Inductive, LockInv, CallInv, Exclusive
<1> QED BY <1>1, InductiveHolds, PTL

(* When __psx_syscall lets the threads go, all of them have executed the   *)
(* command: for any number of threads, started and ended at any moment.    *)
THEOREM EveryThreadRan == Spec => []AllThreadsRan
<1>1. Inductive => AllThreadsRan BY DEF Inductive, DoneInv, AllThreadsRan
<1> QED BY <1>1, InductiveHolds, PTL

(* The count in incomplete is exact, so no handler outlives its call.      *)
THEOREM NoHandlerLeft == Spec => []NoStraggler
<1>1. Inductive => NoStraggler
  BY DEF Inductive, IdleInv, CallInv, CallExclusive, NoStraggler, Busy,
         GatherLabels, DoneLabels
<1> QED BY <1>1, InductiveHolds, PTL

(* No thread leaves the handler before all have executed the command.      *)
THEOREM BarrierIsKept == Spec => BarrierHolds
<1>1. Inductive /\ [Next]_vars => [BarrierStep]_vars
  <2> SUFFICES ASSUME Inductive, Next,
                      NEW t \in Threads, hpc[t] \in {"post", "wait"},
                      hpc'[t] = "none", pid' = pid, status'[t] = "live",
                      NEW u \in Live
               PROVE  ran[u] = cmd
    BY DEF BarrierStep
  <2> USE DEF Inductive, TypeOK, os, frames, tracker, locals, history
  <2>1. ActorPost(t) \/ ActorWait(t)
    <3>1. ASSUME NEW v \in Threads, Library(v) PROVE FALSE
      BY <3>1 DEF Library, KillProcess, Lock, IdleToSetup, ConfirmSigaction,
         ImmediateSyscall, SetupToIdle, SetupToSyscall, ClearMap, OpenTaskDir,
         TaskDirFails, GetDents, EndSweep, NextEntry, InsertEntry, TkillEntry,
         AccountEntry, Release, Drain, ReportMismatch, SyscallToIdle,
         SetSensitivity, Cleanup, ExitGroup, psx_new_state
    <3>2. ASSUME NEW v \in Threads, Actor(v)
          PROVE  ActorPost(t) \/ ActorWait(t)
      BY <3>2 DEF Actor, LockInHandler, ActorCheck, ActorChain, ActorSyscall,
         ActorPost, ActorWait, WaitOrLeave, HandlerLocked
    <3>3. ASSUME NEW v \in Threads, Program(v) \/ Deliver(v) PROVE FALSE
      BY <3>3 DEF Program, Deliver, Clone, Exit, Fork, Foreign, CallSyscall,
         CallSensitivity, CallExit
    <3>4. ~ Quiet BY DEF Quiet, vars
    <3> QED BY <3>1, <3>2, <3>3, <3>4 DEF Next
  <2>2. ~ active BY <2>1 DEF ActorPost, ActorWait, WaitOrLeave
  <2>3. hpc[t] \in Busy BY DEF Busy
  <2>4. PICK c \in Threads : pc[c] \in GatherLabels \cup {"drain"}
    BY <2>3 DEF IdleInv
  <2>5. pc[c] = "drain" BY <2>2, <2>3, <2>4 DEF GatherInv
  <2> QED BY <2>5 DEF DoneInv, DoneLabels
<1> QED BY <1>1, InductiveHolds, PTL DEF Spec, BarrierHolds
-----------------------------------------------------------------------------
(* The installed action                                                    *)

LEMMA HandStep ==
  ASSUME TypeOK, FrameInv, CallInv, HandInv, [Next]_vars
  PROVE  HandInv'
<1> USE DEF TypeOK, FrameInv, CallInv, CallExclusive, HandInv, SetupLabels,
        GatherLabels, DoneLabels, CallLabels, os, frames, tracker, locals,
        history
<1>1. ASSUME NEW t \in Threads, Lock(t) PROVE HandInv'
  BY <1>1 DEF Lock, psx_lock, MuFree, Running
<1>2. ASSUME NEW t \in Threads, IdleToSetup(t) PROVE HandInv'
  BY <1>2 DEF IdleToSetup, psx_new_state, Locked, Unlock, Goto, At, Running
<1>3. ASSUME NEW t \in Threads, ConfirmSigaction(t) PROVE HandInv'
  BY <1>3 DEF ConfirmSigaction, Confirmed, Goto, At, Running
<1>4. ASSUME NEW t \in Threads, ImmediateSyscall(t) PROVE HandInv'
  BY <1>4 DEF ImmediateSyscall, Goto, At, Running
<1>5. ASSUME NEW t \in Threads, SetupToIdle(t) PROVE HandInv'
  BY <1>5 DEF SetupToIdle, psx_new_state, Locked, Unlock, Goto, At, Running
<1>6. ASSUME NEW t \in Threads, SetupToSyscall(t) PROVE HandInv'
  BY <1>6 DEF SetupToSyscall, psx_new_state, Locked, Unlock, Goto, At,
     Running
<1>7. ASSUME NEW t \in Threads, ClearMap(t) PROVE HandInv'
  BY <1>7 DEF ClearMap, Goto, At, Running
<1>8. ASSUME NEW t \in Threads, OpenTaskDir(t) PROVE HandInv'
  BY <1>8 DEF OpenTaskDir, Goto, At, Running
<1>9. ASSUME NEW t \in Threads, TaskDirFails(t) PROVE HandInv'
  BY <1>9 DEF TaskDirFails, KillProcess, At, Running
<1>10. ASSUME NEW t \in Threads, GetDents(t) PROVE HandInv'
  BY <1>10 DEF GetDents, Batches, Goto, At, Running
<1>11. ASSUME NEW t \in Threads, EndSweep(t) PROVE HandInv'
  BY <1>11 DEF EndSweep, Verified, ListingEnds, Goto, At, Running
<1>12. ASSUME NEW t \in Threads, NextEntry(t) PROVE HandInv'
  BY <1>12 DEF NextEntry, Goto, At, Running
<1>13. ASSUME NEW t \in Threads, InsertEntry(t) PROVE HandInv'
  BY <1>13 DEF InsertEntry, Locked, Unlock, Goto, At, Running
<1>14. ASSUME NEW t \in Threads, TkillEntry(t) PROVE HandInv'
  BY <1>14 DEF TkillEntry, Goto, At, Running
<1>15. ASSUME NEW t \in Threads, AccountEntry(t) PROVE HandInv'
  BY <1>15 DEF AccountEntry, Locked, Unlock, Goto, At, Running
<1>16. ASSUME NEW t \in Threads, Release(t) PROVE HandInv'
  BY <1>16 DEF Release, Locked, Unlock, AfterDrain, Goto, At, Running
<1>17. ASSUME NEW t \in Threads, Drain(t) PROVE HandInv'
  BY <1>17 DEF Drain, Locked, Unlock, AfterDrain, Goto, At, Running
<1>18. ASSUME NEW t \in Threads, ReportMismatch(t) PROVE HandInv'
  BY <1>18 DEF ReportMismatch, Locked, Unlock, KillProcess, Goto, At,
     Running
<1>19. ASSUME NEW t \in Threads, SyscallToIdle(t) PROVE HandInv'
  BY <1>19 DEF SyscallToIdle, psx_new_state, Locked, Unlock, Goto, At,
     Running
<1>20. ASSUME NEW t \in Threads, SetSensitivity(t) PROVE HandInv'
  BY <1>20 DEF SetSensitivity, Locked, Unlock, Goto, At, Running
<1>21. ASSUME NEW t \in Threads, Cleanup(t) PROVE HandInv'
  BY <1>21 DEF Cleanup, Locked, Unlock, MayFree, Goto, At, Running
<1>22. ASSUME NEW t \in Threads, ExitGroup(t) PROVE HandInv'
  BY <1>22 DEF ExitGroup, KillProcess, At, Running
<1>23. ASSUME NEW t \in Threads, LockInHandler(t) PROVE HandInv'
  BY <1>23 DEF LockInHandler, psx_lock, MuFree
<1>24. ASSUME NEW t \in Threads, ActorCheck(t) PROVE HandInv'
  BY <1>24 DEF ActorCheck, HandlerLocked, HandlerUnlock, Recognised
<1>25. ASSUME NEW t \in Threads, ActorChain(t) PROVE HandInv'
  BY <1>25 DEF ActorChain
<1>26. ASSUME NEW t \in Threads, ActorSyscall(t) PROVE HandInv'
  BY <1>26 DEF ActorSyscall
<1>27. ASSUME NEW t \in Threads, ActorPost(t) PROVE HandInv'
  BY <1>27 DEF ActorPost, HandlerLocked, HandlerUnlock, WaitOrLeave,
     Answered
<1>28. ASSUME NEW t \in Threads, ActorWait(t) PROVE HandInv'
  BY <1>28 DEF ActorWait, HandlerLocked, HandlerUnlock, WaitOrLeave
<1>29. ASSUME NEW t \in Threads, Exit(t) PROVE HandInv'
  BY <1>29 DEF Exit, At, Running
<1>30. ASSUME NEW t \in Threads, Fork(t) PROVE HandInv'
  BY <1>30 DEF Fork, At, Running
<1>31. ASSUME NEW t \in Threads, Foreign(t) PROVE HandInv'
  BY <1>31 DEF Foreign
<1>32. ASSUME NEW t \in Threads, CallSyscall(t) PROVE HandInv'
  BY <1>32 DEF CallSyscall, Goto, At, Running
<1>33. ASSUME NEW t \in Threads, CallSensitivity(t) PROVE HandInv'
  BY <1>33 DEF CallSensitivity, Goto, At, Running
<1>34. ASSUME NEW t \in Threads, CallExit(t) PROVE HandInv'
  BY <1>34 DEF CallExit, Goto, At, Running
<1>35. ASSUME NEW t \in Threads, Deliver(t) PROVE HandInv'
  BY <1>35 DEF Deliver, Running
<1>36. ASSUME NEW t \in Threads, NEW u \in Threads, Clone(t, u) PROVE HandInv'
  BY <1>36 DEF Clone, At, Running
<1>37. CASE UNCHANGED vars BY <1>37 DEF vars
<1> QED BY <1>1, <1>2, <1>3, <1>4, <1>5, <1>6, <1>7, <1>8, <1>9, <1>10,
           <1>11, <1>12, <1>13, <1>14, <1>15, <1>16, <1>17, <1>18, <1>19,
           <1>20, <1>21, <1>22, <1>23, <1>24, <1>25, <1>26, <1>27, <1>28,
           <1>29, <1>30, <1>31, <1>32, <1>33, <1>34, <1>35, <1>36, <1>37 DEF
           Next, Library, Actor, Program, Quiet

-----------------------------------------------------------------------------
(* Who has executed what                                                   *)

LEMMA RanStep ==
  ASSUME TypeOK, FrameInv, CallInv, GatherInv, SweepInv, DoneInv, IdleInv,
         RanInv, [Next]_vars
  PROVE  RanInv'
<1> USE DEF TypeOK, RanInv, os, frames, tracker, locals, history, FrameInv,
        CallInv, CallExclusive, SetupLabels, GatherLabels, DoneLabels,
        CallLabels, Live
<1>1. ASSUME NEW t \in Threads, Lock(t) PROVE RanInv'
  BY <1>1 DEF Lock, psx_lock, MuFree, Running
<1>2. ASSUME NEW t \in Threads, IdleToSetup(t) PROVE RanInv'
  BY <1>2 DEF IdleToSetup, psx_new_state, Locked, Unlock, Goto, At, Running
<1>3. ASSUME NEW t \in Threads, ConfirmSigaction(t) PROVE RanInv'
  BY <1>3 DEF ConfirmSigaction, Goto, At, Running
<1>4. ASSUME NEW t \in Threads, ImmediateSyscall(t) PROVE RanInv'
  BY <1>4 DEF ImmediateSyscall, Goto, At, Running
<1>5. ASSUME NEW t \in Threads, SetupToIdle(t) PROVE RanInv'
  BY <1>5 DEF SetupToIdle, psx_new_state, Locked, Unlock, Goto, At, Running
<1>6. ASSUME NEW t \in Threads, SetupToSyscall(t) PROVE RanInv'
  BY <1>6 DEF SetupToSyscall, psx_new_state, Locked, Unlock, Goto, At,
     Running
<1>7. ASSUME NEW t \in Threads, ClearMap(t) PROVE RanInv'
  BY <1>7 DEF ClearMap, Goto, At, Running
<1>8. ASSUME NEW t \in Threads, OpenTaskDir(t) PROVE RanInv'
  BY <1>8 DEF OpenTaskDir, Goto, At, Running
<1>9. ASSUME NEW t \in Threads, TaskDirFails(t) PROVE RanInv'
  BY <1>9 DEF TaskDirFails, KillProcess, At, Running
<1>10. ASSUME NEW t \in Threads, GetDents(t) PROVE RanInv'
  BY <1>10 DEF GetDents, Batches, Goto, At, Running
<1>11. ASSUME NEW t \in Threads, EndSweep(t) PROVE RanInv'
  BY <1>11 DEF EndSweep, Verified, ListingEnds, Goto, At, Running
<1>12. ASSUME NEW t \in Threads, NextEntry(t) PROVE RanInv'
  BY <1>12 DEF NextEntry, Goto, At, Running
<1>13. ASSUME NEW t \in Threads, InsertEntry(t) PROVE RanInv'
  BY <1>13 DEF InsertEntry, Locked, Unlock, Goto, At, Running
<1>14. ASSUME NEW t \in Threads, TkillEntry(t) PROVE RanInv'
  BY <1>14 DEF TkillEntry, Goto, At, Running
<1>15. ASSUME NEW t \in Threads, AccountEntry(t) PROVE RanInv'
  BY <1>15 DEF AccountEntry, Locked, Unlock, Goto, At, Running
<1>16. ASSUME NEW t \in Threads, Release(t) PROVE RanInv'
  <2>1. ASSUME NEW u \in Threads PROVE hpc[u] \notin {"syscall", "post"}
    <3>1. CASE u # t /\ status[u] = "live"
      <4>1. u \in Accounted(t)
        BY <1>16, <3>1 DEF Release, Locked, At, SweepInv, SweepLabels,
           EntryLabels, Accounted, Tasks
      <4>2. map[u].tid /\ ~ map[u].pending
        BY <1>16, <4>1 DEF Release, Locked, At, SweepInv, SweepLabels
      <4> QED BY <1>16, <4>2 DEF Release, Locked, At, GatherInv
    <3> QED BY <1>16, <3>1 DEF Release, Locked, At, Running
  <2> QED BY <1>16, <2>1 DEF Release, AfterDrain, Goto, Locked, At
<1>17. ASSUME NEW t \in Threads, Drain(t) PROVE RanInv'
  BY <1>17 DEF Drain, Locked, Unlock, AfterDrain, Goto, At, Running
<1>18. ASSUME NEW t \in Threads, ReportMismatch(t) PROVE RanInv'
  BY <1>18 DEF ReportMismatch, Locked, Unlock, KillProcess, Goto, At,
     Running
<1>19. ASSUME NEW t \in Threads, SyscallToIdle(t) PROVE RanInv'
  BY <1>19 DEF SyscallToIdle, psx_new_state, Locked, Unlock, Goto, At,
     Running
<1>20. ASSUME NEW t \in Threads, SetSensitivity(t) PROVE RanInv'
  BY <1>20 DEF SetSensitivity, Locked, Unlock, Goto, At, Running
<1>21. ASSUME NEW t \in Threads, Cleanup(t) PROVE RanInv'
  BY <1>21 DEF Cleanup, Locked, Unlock, MayFree, Goto, At, Running
<1>22. ASSUME NEW t \in Threads, ExitGroup(t) PROVE RanInv'
  BY <1>22 DEF ExitGroup, KillProcess, At, Running
<1>23. ASSUME NEW t \in Threads, LockInHandler(t) PROVE RanInv'
  BY <1>23 DEF LockInHandler, psx_lock, MuFree
<1>24. ASSUME NEW t \in Threads, ActorCheck(t) PROVE RanInv'
  BY <1>24 DEF ActorCheck, HandlerLocked, Recognised, DoneInv
<1>25. ASSUME NEW t \in Threads, ActorChain(t) PROVE RanInv'
  BY <1>25 DEF ActorChain
<1>26. ASSUME NEW t \in Threads, ActorSyscall(t) PROVE RanInv'
  BY <1>26 DEF ActorSyscall
<1>27. ASSUME NEW t \in Threads, ActorPost(t) PROVE RanInv'
  BY <1>27 DEF ActorPost, HandlerLocked, WaitOrLeave, GatherInv, IdleInv, Busy
<1>28. ASSUME NEW t \in Threads, ActorWait(t) PROVE RanInv'
  BY <1>28 DEF ActorWait, HandlerLocked, WaitOrLeave, GatherInv, IdleInv, Busy
<1>29. ASSUME NEW t \in Threads, Exit(t) PROVE RanInv'
  BY <1>29 DEF Exit, At, Running
<1>30. ASSUME NEW t \in Threads, Fork(t) PROVE RanInv'
  BY <1>30 DEF Fork, At, Running
<1>31. ASSUME NEW t \in Threads, Foreign(t) PROVE RanInv'
  BY <1>31 DEF Foreign
<1>32. ASSUME NEW t \in Threads, CallSyscall(t) PROVE RanInv'
  BY <1>32 DEF CallSyscall, Goto, At, Running
<1>33. ASSUME NEW t \in Threads, CallSensitivity(t) PROVE RanInv'
  BY <1>33 DEF CallSensitivity, Goto, At, Running
<1>34. ASSUME NEW t \in Threads, CallExit(t) PROVE RanInv'
  BY <1>34 DEF CallExit, Goto, At, Running
<1>35. ASSUME NEW t \in Threads, Deliver(t) PROVE RanInv'
  BY <1>35 DEF Deliver, Running
<1>36. ASSUME NEW t \in Threads, NEW u \in Threads, Clone(t, u) PROVE RanInv'
  BY <1>36 DEF Clone, At, Running
<1>37. CASE UNCHANGED vars BY <1>37 DEF vars
<1> QED BY <1>1, <1>2, <1>3, <1>4, <1>5, <1>6, <1>7, <1>8, <1>9, <1>10,
           <1>11, <1>12, <1>13, <1>14, <1>15, <1>16, <1>17, <1>18, <1>19,
           <1>20, <1>21, <1>22, <1>23, <1>24, <1>25, <1>26, <1>27, <1>28,
           <1>29, <1>30, <1>31, <1>32, <1>33, <1>34, <1>35, <1>36, <1>37 DEF
           Next, Library, Actor, Program, Quiet

-----------------------------------------------------------------------------
(* The library's own signals                                               *)

LEMMA SignalStep ==
  ASSUME TypeOK, LockInv, FrameInv, CallInv, GatherInv, SweepInv, DoneInv,
         IdleInv, DivergenceInv, SignalInv, [Next]_vars
  PROVE  SignalInv'
<1> USE DEF TypeOK, FrameInv, SignalInv, Undisturbed, Asked, Busy, os,
        frames, tracker, locals, history, CallInv, CallExclusive,
        SetupLabels, GatherLabels, DoneLabels, CallLabels, SweepLabels,
        EntryLabels
<1>1. ASSUME NEW t \in Threads, Lock(t) PROVE SignalInv'
  BY <1>1 DEF Lock, psx_lock, MuFree, Running
<1>2. ASSUME NEW t \in Threads, IdleToSetup(t) PROVE SignalInv'
  BY <1>2 DEF IdleToSetup, psx_new_state, Locked, Unlock, Goto, At, Running
<1>3. ASSUME NEW t \in Threads, ConfirmSigaction(t) PROVE SignalInv'
  BY <1>3 DEF ConfirmSigaction, Goto, At, Running
<1>4. ASSUME NEW t \in Threads, ImmediateSyscall(t) PROVE SignalInv'
  BY <1>4 DEF ImmediateSyscall, Goto, At, Running
<1>5. ASSUME NEW t \in Threads, SetupToIdle(t) PROVE SignalInv'
  BY <1>5 DEF SetupToIdle, psx_new_state, Locked, Unlock, Goto, At, Running
<1>6. ASSUME NEW t \in Threads, SetupToSyscall(t) PROVE SignalInv'
  BY <1>6 DEF SetupToSyscall, psx_new_state, Locked, Unlock, Goto, At,
     Running
<1>7. ASSUME NEW t \in Threads, ClearMap(t) PROVE SignalInv'
  <2>1. \A u \in Threads : hpc[u] \notin Busy
    BY <1>7 DEF ClearMap, At, GatherInv
  <2>2. ASSUME Undisturbed, NEW u \in Threads PROVE ~ Asked(u) /\ tkillq[u] = 0
    <3>1. \A c \in Threads : pc[c] \notin SweepLabels \cup {"open"}
      BY <1>7 DEF ClearMap, At
    <3> QED BY <2>2, <3>1
  <2> QED BY <1>7, <2>1, <2>2 DEF ClearMap, Goto, At
<1>8. ASSUME NEW t \in Threads, OpenTaskDir(t) PROVE SignalInv'
  BY <1>8 DEF OpenTaskDir, Goto, At, Running
<1>9. ASSUME NEW t \in Threads, TaskDirFails(t) PROVE SignalInv'
  BY <1>9 DEF TaskDirFails, KillProcess, At, Running
<1>10. ASSUME NEW t \in Threads, GetDents(t) PROVE SignalInv'
  BY <1>10 DEF GetDents, Batches, Goto, At, Running
<1>11. ASSUME NEW t \in Threads, EndSweep(t) PROVE SignalInv'
  BY <1>11 DEF EndSweep, Verified, ListingEnds, Goto, At, Running
<1>12. ASSUME NEW t \in Threads, NextEntry(t) PROVE SignalInv'
  BY <1>12 DEF NextEntry, Goto, At, Running
<1>13. ASSUME NEW t \in Threads, InsertEntry(t) PROVE SignalInv'
  <2> SUFFICES ASSUME Undisturbed PROVE SignalInv'
    BY <1>13 DEF InsertEntry
  <2>1. /\ pc[t] = "insert" /\ cur \in Threads /\ ~ map[cur].tid
        /\ pc' = [pc EXCEPT ![t] = "tkill"]
        /\ map' = [map EXCEPT ![cur].pending = TRUE, ![cur].tid = TRUE]
        /\ UNCHANGED <<tkillq, hpc, own, cur, status>>
    BY <1>13 DEF InsertEntry, Locked, Goto, At, DivergenceInv
  <2>2. ~ Asked(cur) /\ hpc[cur] \notin Busy BY <2>1
  <2>3. map'[cur].tid /\ map'[cur].pending BY <2>1 DEF Entries
  <2>4. \A u \in Threads \ {cur} : map'[u] = map[u] BY <2>1
  <2>5. \A u \in Threads : Asked(u)' <=> Asked(u) BY <2>1
  <2>6. \A c \in Threads : pc'[c] \in SweepLabels \cup {"open"} => c = t
    BY <2>1
  <2>7. pc'[t] = "tkill" /\ pc[t] \in SweepLabels BY <2>1
  <2> QED BY <2>1, <2>2, <2>3, <2>4, <2>5, <2>6, <2>7
<1>14. ASSUME NEW t \in Threads, TkillEntry(t) PROVE SignalInv'
  <2> SUFFICES ASSUME Undisturbed PROVE SignalInv'
    BY <1>14 DEF TkillEntry
  <2>1. /\ pc[t] = "tkill" /\ cur \in Threads /\ map[cur].tid
        /\ pc' = [pc EXCEPT ![t] = "account"]
        /\ UNCHANGED <<map, hpc, own, cur, status>>
    BY <1>14 DEF TkillEntry, Goto, At, SweepInv
  <2>2. ~ Asked(cur) /\ hpc[cur] \notin Busy /\ map[cur].pending BY <2>1
  <2>3. \A u \in Threads \ {cur} : tkillq'[u] = tkillq[u]
    BY <1>14 DEF TkillEntry
  <2>4. tkillq[cur] = 0 BY <2>2
  <2>5. tkillq'[cur] = 0 \/ (tkillq'[cur] = 1 /\ status[cur] = "live")
    BY <1>14, <2>4 DEF TkillEntry
  <2>6. \A c \in Threads : pc'[c] \in SweepLabels \cup {"open"} => c = t
    BY <2>1
  <2>7. pc'[t] = "account" /\ pc[t] \in SweepLabels BY <2>1
  <2> QED BY <2>1, <2>2, <2>3, <2>4, <2>5, <2>6, <2>7
<1>15. ASSUME NEW t \in Threads, AccountEntry(t) PROVE SignalInv'
  BY <1>15 DEF AccountEntry, Locked, Unlock, Goto, At, Running
<1>16. ASSUME NEW t \in Threads, Release(t) PROVE SignalInv'
  <2>1. ASSUME Undisturbed, NEW u \in Threads PROVE ~ Asked(u)
    <3>1. CASE u # t /\ status[u] = "live"
      <4>1. u \in Accounted(t)
        BY <1>16, <3>1 DEF Release, Locked, At, SweepInv, Accounted, Tasks
      <4> QED BY <1>16, <2>1, <4>1 DEF Release, Locked, At, SweepInv
    <3>2. CASE u = t
      BY <1>16, <2>1, <3>2 DEF Release, Locked, At, GatherInv
    <3> QED BY <2>1, <3>1, <3>2
  <2> QED BY <1>16, <2>1 DEF Release, AfterDrain, Goto, Locked, At
<1>17. ASSUME NEW t \in Threads, Drain(t) PROVE SignalInv'
  BY <1>17 DEF Drain, Locked, Unlock, AfterDrain, Goto, At, Running
<1>18. ASSUME NEW t \in Threads, ReportMismatch(t) PROVE SignalInv'
  BY <1>18 DEF ReportMismatch, Locked, Unlock, KillProcess, Goto, At,
     Running
<1>19. ASSUME NEW t \in Threads, SyscallToIdle(t) PROVE SignalInv'
  BY <1>19 DEF SyscallToIdle, psx_new_state, Locked, Unlock, Goto, At,
     Running
<1>20. ASSUME NEW t \in Threads, SetSensitivity(t) PROVE SignalInv'
  BY <1>20 DEF SetSensitivity, Locked, Unlock, Goto, At, Running
<1>21. ASSUME NEW t \in Threads, Cleanup(t) PROVE SignalInv'
  BY <1>21 DEF Cleanup, Locked, Unlock, MayFree, Goto, At, Running
<1>22. ASSUME NEW t \in Threads, ExitGroup(t) PROVE SignalInv'
  BY <1>22 DEF ExitGroup, KillProcess, At, Running
<1>23. ASSUME NEW t \in Threads, LockInHandler(t) PROVE SignalInv'
  BY <1>23 DEF LockInHandler, psx_lock, MuFree
<1>24. ASSUME NEW t \in Threads, ActorCheck(t) PROVE SignalInv'
  BY <1>24 DEF ActorCheck, HandlerLocked, HandlerUnlock, Recognised
<1>25. ASSUME NEW t \in Threads, ActorChain(t) PROVE SignalInv'
  BY <1>25 DEF ActorChain
<1>26. ASSUME NEW t \in Threads, ActorSyscall(t) PROVE SignalInv'
  BY <1>26 DEF ActorSyscall
<1>27. ASSUME NEW t \in Threads, ActorPost(t) PROVE SignalInv'
  BY <1>27 DEF ActorPost, HandlerLocked, HandlerUnlock, WaitOrLeave,
     Answered
<1>28. ASSUME NEW t \in Threads, ActorWait(t) PROVE SignalInv'
  BY <1>28 DEF ActorWait, HandlerLocked, HandlerUnlock, WaitOrLeave
<1>29. ASSUME NEW t \in Threads, Exit(t) PROVE SignalInv'
  BY <1>29 DEF Exit, At, Running
<1>30. ASSUME NEW t \in Threads, Fork(t) PROVE SignalInv'
  BY <1>30 DEF Fork, At, Running
<1>31. ASSUME NEW t \in Threads, Foreign(t) PROVE SignalInv'
  BY <1>31 DEF Foreign
<1>32. ASSUME NEW t \in Threads, CallSyscall(t) PROVE SignalInv'
  BY <1>32 DEF CallSyscall, Goto, At, Running
<1>33. ASSUME NEW t \in Threads, CallSensitivity(t) PROVE SignalInv'
  BY <1>33 DEF CallSensitivity, Goto, At, Running
<1>34. ASSUME NEW t \in Threads, CallExit(t) PROVE SignalInv'
  BY <1>34 DEF CallExit, Goto, At, Running
<1>35. ASSUME NEW t \in Threads, Deliver(t) PROVE SignalInv'
  BY <1>35 DEF Deliver, Running
<1>36. ASSUME NEW t \in Threads, NEW u \in Threads, Clone(t, u) PROVE SignalInv'
  BY <1>36 DEF Clone, At, Running
<1>37. CASE UNCHANGED vars BY <1>37 DEF vars
<1> QED BY <1>1, <1>2, <1>3, <1>4, <1>5, <1>6, <1>7, <1>8, <1>9, <1>10,
           <1>11, <1>12, <1>13, <1>14, <1>15, <1>16, <1>17, <1>18, <1>19,
           <1>20, <1>21, <1>22, <1>23, <1>24, <1>25, <1>26, <1>27, <1>28,
           <1>29, <1>30, <1>31, <1>32, <1>33, <1>34, <1>35, <1>36, <1>37 DEF
           Next, Library, Actor, Program, Quiet

-----------------------------------------------------------------------------
(* Signals of others                                                       *)

LEMMA ForeignStep ==
  ASSUME TypeOK, LockInv, CallInv, GatherInv, SignalInv, ForeignInv,
         [Next]_vars
  PROVE  ForeignInv'
<1> USE DEF TypeOK, ForeignInv, os, frames, tracker, locals, history,
        SetupLabels, GatherLabels, DoneLabels, CallLabels, SweepLabels,
        EntryLabels
<1>1. ASSUME NEW t \in Threads, Lock(t) PROVE ForeignInv'
  BY <1>1 DEF Lock, psx_lock, MuFree, Running
<1>2. ASSUME NEW t \in Threads, IdleToSetup(t) PROVE ForeignInv'
  BY <1>2 DEF IdleToSetup, psx_new_state, Locked, Unlock, Goto, At, Running
<1>3. ASSUME NEW t \in Threads, ConfirmSigaction(t) PROVE ForeignInv'
  BY <1>3 DEF ConfirmSigaction, Goto, At, Running
<1>4. ASSUME NEW t \in Threads, ImmediateSyscall(t) PROVE ForeignInv'
  BY <1>4 DEF ImmediateSyscall, Goto, At, Running
<1>5. ASSUME NEW t \in Threads, SetupToIdle(t) PROVE ForeignInv'
  BY <1>5 DEF SetupToIdle, psx_new_state, Locked, Unlock, Goto, At, Running
<1>6. ASSUME NEW t \in Threads, SetupToSyscall(t) PROVE ForeignInv'
  BY <1>6 DEF SetupToSyscall, psx_new_state, Locked, Unlock, Goto, At,
     Running
<1>7. ASSUME NEW t \in Threads, ClearMap(t) PROVE ForeignInv'
  BY <1>7 DEF ClearMap, Goto, At, Running
<1>8. ASSUME NEW t \in Threads, OpenTaskDir(t) PROVE ForeignInv'
  BY <1>8 DEF OpenTaskDir, Goto, At, Running
<1>9. ASSUME NEW t \in Threads, TaskDirFails(t) PROVE ForeignInv'
  BY <1>9 DEF TaskDirFails, KillProcess, At, Running
<1>10. ASSUME NEW t \in Threads, GetDents(t) PROVE ForeignInv'
  BY <1>10 DEF GetDents, Batches, Goto, At, Running
<1>11. ASSUME NEW t \in Threads, EndSweep(t) PROVE ForeignInv'
  BY <1>11 DEF EndSweep, Verified, ListingEnds, Goto, At, Running
<1>12. ASSUME NEW t \in Threads, NextEntry(t) PROVE ForeignInv'
  BY <1>12 DEF NextEntry, Goto, At, Running
<1>13. ASSUME NEW t \in Threads, InsertEntry(t) PROVE ForeignInv'
  BY <1>13 DEF InsertEntry, Locked, Unlock, Goto, At, Running
<1>14. ASSUME NEW t \in Threads, TkillEntry(t) PROVE ForeignInv'
  BY <1>14 DEF TkillEntry, Goto, At, Running
<1>15. ASSUME NEW t \in Threads, AccountEntry(t) PROVE ForeignInv'
  BY <1>15 DEF AccountEntry, Locked, Unlock, Goto, At, Running
<1>16. ASSUME NEW t \in Threads, Release(t) PROVE ForeignInv'
  BY <1>16 DEF Release, Locked, Unlock, AfterDrain, Goto, At, Running
<1>17. ASSUME NEW t \in Threads, Drain(t) PROVE ForeignInv'
  BY <1>17 DEF Drain, Locked, Unlock, AfterDrain, Goto, At, Running
<1>18. ASSUME NEW t \in Threads, ReportMismatch(t) PROVE ForeignInv'
  BY <1>18 DEF ReportMismatch, Locked, Unlock, KillProcess, Goto, At,
     Running
<1>19. ASSUME NEW t \in Threads, SyscallToIdle(t) PROVE ForeignInv'
  BY <1>19 DEF SyscallToIdle, psx_new_state, Locked, Unlock, Goto, At,
     Running
<1>20. ASSUME NEW t \in Threads, SetSensitivity(t) PROVE ForeignInv'
  BY <1>20 DEF SetSensitivity, Locked, Unlock, Goto, At, Running
<1>21. ASSUME NEW t \in Threads, Cleanup(t) PROVE ForeignInv'
  BY <1>21 DEF Cleanup, Locked, Unlock, MayFree, Goto, At, Running
<1>22. ASSUME NEW t \in Threads, ExitGroup(t) PROVE ForeignInv'
  BY <1>22 DEF ExitGroup, KillProcess, At, Running
<1>23. ASSUME NEW t \in Threads, LockInHandler(t) PROVE ForeignInv'
  BY <1>23 DEF LockInHandler, psx_lock, MuFree
<1>24. ASSUME NEW t \in Threads, ActorCheck(t) PROVE ForeignInv'
  <2>1. SUFFICES ASSUME foreign = 0, own[t] PROVE active
    BY <1>24 DEF ActorCheck, HandlerLocked, Recognised
  <2>2. Asked(t) /\ Undisturbed
    BY <1>24, <2>1 DEF ActorCheck, HandlerLocked, Asked, Undisturbed
  <2>3. PICK c \in Threads : pc[c] \in SweepLabels \cup {"open"}
    BY <2>2 DEF SignalInv
  <2>4. map[t].tid BY <2>2 DEF SignalInv
  <2> QED BY <2>3, <2>4 DEF GatherInv
<1>25. ASSUME NEW t \in Threads, ActorChain(t) PROVE ForeignInv'
  BY <1>25 DEF ActorChain
<1>26. ASSUME NEW t \in Threads, ActorSyscall(t) PROVE ForeignInv'
  BY <1>26 DEF ActorSyscall
<1>27. ASSUME NEW t \in Threads, ActorPost(t) PROVE ForeignInv'
  BY <1>27 DEF ActorPost, HandlerLocked, HandlerUnlock, WaitOrLeave,
     Answered
<1>28. ASSUME NEW t \in Threads, ActorWait(t) PROVE ForeignInv'
  BY <1>28 DEF ActorWait, HandlerLocked, HandlerUnlock, WaitOrLeave
<1>29. ASSUME NEW t \in Threads, Exit(t) PROVE ForeignInv'
  BY <1>29 DEF Exit, At, Running
<1>30. ASSUME NEW t \in Threads, Fork(t) PROVE ForeignInv'
  BY <1>30 DEF Fork, At, Running
<1>31. ASSUME NEW t \in Threads, Foreign(t) PROVE ForeignInv'
  BY <1>31 DEF Foreign
<1>32. ASSUME NEW t \in Threads, CallSyscall(t) PROVE ForeignInv'
  BY <1>32 DEF CallSyscall, Goto, At, Running
<1>33. ASSUME NEW t \in Threads, CallSensitivity(t) PROVE ForeignInv'
  BY <1>33 DEF CallSensitivity, Goto, At, Running
<1>34. ASSUME NEW t \in Threads, CallExit(t) PROVE ForeignInv'
  BY <1>34 DEF CallExit, Goto, At, Running
<1>35. ASSUME NEW t \in Threads, Deliver(t) PROVE ForeignInv'
  BY <1>35 DEF Deliver, Running
<1>36. ASSUME NEW t \in Threads, NEW u \in Threads, Clone(t, u) PROVE ForeignInv'
  BY <1>36 DEF Clone, At, Running
<1>37. CASE UNCHANGED vars BY <1>37 DEF vars
<1> QED BY <1>1, <1>2, <1>3, <1>4, <1>5, <1>6, <1>7, <1>8, <1>9, <1>10,
           <1>11, <1>12, <1>13, <1>14, <1>15, <1>16, <1>17, <1>18, <1>19,
           <1>20, <1>21, <1>22, <1>23, <1>24, <1>25, <1>26, <1>27, <1>28,
           <1>29, <1>30, <1>31, <1>32, <1>33, <1>34, <1>35, <1>36, <1>37 DEF
           Next, Library, Actor, Program, Quiet
LEMMA FreedStep ==
  ASSUME MaxForks = 0, TypeOK, LockInv, CallInv, FreedInv, [Next]_vars
  PROVE  FreedInv'
<1> USE DEF TypeOK, LockInv, FreedInv, os, frames, tracker, locals, history,
        CallInv, CallExclusive, SetupLabels, GatherLabels, DoneLabels,
        CallLabels, SweepLabels, EntryLabels
<1>1. ASSUME NEW t \in Threads, Lock(t) PROVE FreedInv'
  BY <1>1 DEF Lock, psx_lock, MuFree, Running
<1>2. ASSUME NEW t \in Threads, IdleToSetup(t) PROVE FreedInv'
  BY <1>2 DEF IdleToSetup, psx_new_state, Locked, Unlock, Goto, At, Running
<1>3. ASSUME NEW t \in Threads, ConfirmSigaction(t) PROVE FreedInv'
  BY <1>3 DEF ConfirmSigaction, Goto, At, Running
<1>4. ASSUME NEW t \in Threads, ImmediateSyscall(t) PROVE FreedInv'
  BY <1>4 DEF ImmediateSyscall, Goto, At, Running
<1>5. ASSUME NEW t \in Threads, SetupToIdle(t) PROVE FreedInv'
  BY <1>5 DEF SetupToIdle, psx_new_state, Locked, Unlock, Goto, At, Running
<1>6. ASSUME NEW t \in Threads, SetupToSyscall(t) PROVE FreedInv'
  BY <1>6 DEF SetupToSyscall, psx_new_state, Locked, Unlock, Goto, At,
     Running
<1>7. ASSUME NEW t \in Threads, ClearMap(t) PROVE FreedInv'
  BY <1>7 DEF ClearMap, Goto, At, Running
<1>8. ASSUME NEW t \in Threads, OpenTaskDir(t) PROVE FreedInv'
  BY <1>8 DEF OpenTaskDir, Goto, At, Running
<1>9. ASSUME NEW t \in Threads, TaskDirFails(t) PROVE FreedInv'
  BY <1>9 DEF TaskDirFails, KillProcess, At, Running
<1>10. ASSUME NEW t \in Threads, GetDents(t) PROVE FreedInv'
  BY <1>10 DEF GetDents, Batches, Goto, At, Running
<1>11. ASSUME NEW t \in Threads, EndSweep(t) PROVE FreedInv'
  BY <1>11 DEF EndSweep, Verified, ListingEnds, Goto, At, Running
<1>12. ASSUME NEW t \in Threads, NextEntry(t) PROVE FreedInv'
  BY <1>12 DEF NextEntry, Goto, At, Running
<1>13. ASSUME NEW t \in Threads, InsertEntry(t) PROVE FreedInv'
  BY <1>13 DEF InsertEntry, Locked, Unlock, Goto, At, Running
<1>14. ASSUME NEW t \in Threads, TkillEntry(t) PROVE FreedInv'
  BY <1>14 DEF TkillEntry, Goto, At, Running
<1>15. ASSUME NEW t \in Threads, AccountEntry(t) PROVE FreedInv'
  BY <1>15 DEF AccountEntry, Locked, Unlock, Goto, At, Running
<1>16. ASSUME NEW t \in Threads, Release(t) PROVE FreedInv'
  BY <1>16 DEF Release, Locked, Unlock, AfterDrain, Goto, At, Running
<1>17. ASSUME NEW t \in Threads, Drain(t) PROVE FreedInv'
  BY <1>17 DEF Drain, Locked, Unlock, AfterDrain, Goto, At, Running
<1>18. ASSUME NEW t \in Threads, ReportMismatch(t) PROVE FreedInv'
  BY <1>18 DEF ReportMismatch, Locked, Unlock, KillProcess, Goto, At,
     Running
<1>19. ASSUME NEW t \in Threads, SyscallToIdle(t) PROVE FreedInv'
  BY <1>19 DEF SyscallToIdle, psx_new_state, Locked, Unlock, Goto, At,
     Running
<1>20. ASSUME NEW t \in Threads, SetSensitivity(t) PROVE FreedInv'
  BY <1>20 DEF SetSensitivity, Locked, Unlock, Goto, At, Running
<1>21. ASSUME NEW t \in Threads, Cleanup(t) PROVE FreedInv'
  BY <1>21 DEF Cleanup, Locked, Unlock, MayFree, Goto, At, Running
<1>22. ASSUME NEW t \in Threads, ExitGroup(t) PROVE FreedInv'
  BY <1>22 DEF ExitGroup, KillProcess, At, Running
<1>23. ASSUME NEW t \in Threads, LockInHandler(t) PROVE FreedInv'
  BY <1>23 DEF LockInHandler, psx_lock, MuFree
<1>24. ASSUME NEW t \in Threads, ActorCheck(t) PROVE FreedInv'
  BY <1>24 DEF ActorCheck, HandlerLocked, HandlerUnlock, Recognised
<1>25. ASSUME NEW t \in Threads, ActorChain(t) PROVE FreedInv'
  BY <1>25 DEF ActorChain
<1>26. ASSUME NEW t \in Threads, ActorSyscall(t) PROVE FreedInv'
  BY <1>26 DEF ActorSyscall
<1>27. ASSUME NEW t \in Threads, ActorPost(t) PROVE FreedInv'
  BY <1>27 DEF ActorPost, HandlerLocked, HandlerUnlock, WaitOrLeave,
     Answered
<1>28. ASSUME NEW t \in Threads, ActorWait(t) PROVE FreedInv'
  BY <1>28 DEF ActorWait, HandlerLocked, HandlerUnlock, WaitOrLeave
<1>29. ASSUME NEW t \in Threads, Exit(t) PROVE FreedInv'
  BY <1>29 DEF Exit, At, Running
<1>30. ASSUME NEW t \in Threads, Fork(t) PROVE FreedInv'
  BY <1>30 DEF Fork
<1>31. ASSUME NEW t \in Threads, Foreign(t) PROVE FreedInv'
  BY <1>31 DEF Foreign
<1>32. ASSUME NEW t \in Threads, CallSyscall(t) PROVE FreedInv'
  BY <1>32 DEF CallSyscall, Goto, At, Running
<1>33. ASSUME NEW t \in Threads, CallSensitivity(t) PROVE FreedInv'
  BY <1>33 DEF CallSensitivity, Goto, At, Running
<1>34. ASSUME NEW t \in Threads, CallExit(t) PROVE FreedInv'
  BY <1>34 DEF CallExit, Goto, At, Running
<1>35. ASSUME NEW t \in Threads, Deliver(t) PROVE FreedInv'
  BY <1>35 DEF Deliver, Running
<1>36. ASSUME NEW t \in Threads, NEW u \in Threads, Clone(t, u) PROVE FreedInv'
  BY <1>36 DEF Clone, At, Running
<1>37. CASE UNCHANGED vars BY <1>37 DEF vars
<1> QED BY <1>1, <1>2, <1>3, <1>4, <1>5, <1>6, <1>7, <1>8, <1>9, <1>10,
           <1>11, <1>12, <1>13, <1>14, <1>15, <1>16, <1>17, <1>18, <1>19,
           <1>20, <1>21, <1>22, <1>23, <1>24, <1>25, <1>26, <1>27, <1>28,
           <1>29, <1>30, <1>31, <1>32, <1>33, <1>34, <1>35, <1>36, <1>37 DEF
           Next, Library, Actor, Program, Quiet

-----------------------------------------------------------------------------
(* The divergence                                                          *)

LEMMA DivergenceStep ==
  ASSUME TypeOK, FrameInv, CallInv, GatherInv, SweepInv, RanInv,
         DivergenceInv, [Next]_vars
  PROVE  DivergenceInv'
<1> USE DEF TypeOK, FrameInv, DivergenceInv, Diverged, Accounted, os,
        frames, tracker, locals, history, CallInv, CallExclusive,
        SetupLabels, GatherLabels, DoneLabels, CallLabels, SweepLabels,
        EntryLabels
<1>1. ASSUME NEW t \in Threads, Lock(t) PROVE DivergenceInv'
  BY <1>1 DEF Lock, psx_lock, MuFree, Running
<1>2. ASSUME NEW t \in Threads, IdleToSetup(t) PROVE DivergenceInv'
  BY <1>2 DEF IdleToSetup, psx_new_state, Locked, Unlock, Goto, At, Running
<1>3. ASSUME NEW t \in Threads, ConfirmSigaction(t) PROVE DivergenceInv'
  BY <1>3 DEF ConfirmSigaction, Goto, At, Running
<1>4. ASSUME NEW t \in Threads, ImmediateSyscall(t) PROVE DivergenceInv'
  BY <1>4 DEF ImmediateSyscall, Goto, At, Running
<1>5. ASSUME NEW t \in Threads, SetupToIdle(t) PROVE DivergenceInv'
  BY <1>5 DEF SetupToIdle, psx_new_state, Locked, Unlock, Goto, At, Running
<1>6. ASSUME NEW t \in Threads, SetupToSyscall(t) PROVE DivergenceInv'
  BY <1>6 DEF SetupToSyscall, psx_new_state, Locked, Unlock, Goto, At,
     Running
<1>7. ASSUME NEW t \in Threads, ClearMap(t) PROVE DivergenceInv'
  BY <1>7 DEF ClearMap, Goto, At, Running
<1>8. ASSUME NEW t \in Threads, OpenTaskDir(t) PROVE DivergenceInv'
  BY <1>8 DEF OpenTaskDir, Goto, At, Running
<1>9. ASSUME NEW t \in Threads, TaskDirFails(t) PROVE DivergenceInv'
  BY <1>9 DEF TaskDirFails, KillProcess, At, Running
<1>10. ASSUME NEW t \in Threads, GetDents(t) PROVE DivergenceInv'
  BY <1>10 DEF GetDents, Batches, Goto, At, SweepInv
<1>11. ASSUME NEW t \in Threads, EndSweep(t) PROVE DivergenceInv'
  BY <1>11 DEF EndSweep, Verified, ListingEnds, Goto, At, Running
<1>12. ASSUME NEW t \in Threads, NextEntry(t) PROVE DivergenceInv'
  BY <1>12 DEF NextEntry, Goto, At, Running
<1>13. ASSUME NEW t \in Threads, InsertEntry(t) PROVE DivergenceInv'
  BY <1>13 DEF InsertEntry, Locked, Goto, At, Entries
<1>14. ASSUME NEW t \in Threads, TkillEntry(t) PROVE DivergenceInv'
  BY <1>14 DEF TkillEntry, Goto, At, Running
<1>15. ASSUME NEW t \in Threads, AccountEntry(t) PROVE DivergenceInv'
  <2>1. /\ pc[t] = "account" /\ cur \in Threads /\ cur # t /\ map[cur].tid
        /\ pc' = [pc EXCEPT ![t] = "entry"] /\ map' = map /\ cur' = cur
        /\ seen' = seen /\ buf' = buf
    BY <1>15 DEF AccountEntry, Locked, Goto, At, SweepInv
  <2>2. map[cur].pending => some' = TRUE /\ mismatch' = mismatch
    BY <1>15 DEF AccountEntry
  <2>3. ~ map[cur].pending =>
          some' = some /\ (mismatch' <=> mismatch \/ map[cur].retval # "same")
    BY <1>15 DEF AccountEntry, Differs
  <2>4. ASSUME NEW c \in Threads, pc'[c] \in SweepLabels \cup {"open"}
        PROVE  c = t
    BY <2>1, <2>4
  <2>5. mismatch' => Diverged(t) BY <2>1, <2>2, <2>3
  <2>6. ASSUME ~ some', NEW u \in Accounted(t)', map[u].retval # "same"
        PROVE  mismatch'
    BY <2>1, <2>2, <2>3, <2>6
  <2> QED BY <2>1, <2>4, <2>5, <2>6
<1>16. ASSUME NEW t \in Threads, Release(t) PROVE DivergenceInv'
  <2>1. ASSUME NEW u \in Threads \ {t}, map[u].tid, ~ map[u].pending,
               map[u].retval # "same"
        PROVE  mismatch
    <3>1. status[u] = "live" BY <1>16, <2>1 DEF Release, Locked, At, GatherInv
    <3>2. u \in Accounted(t)
      BY <1>16, <3>1 DEF Release, Locked, At, SweepInv, Tasks
    <3> QED BY <1>16, <2>1, <3>2 DEF Release, Locked, At, SweepInv
  <2>2. mismatch <=> Diverged(t) BY <1>16, <2>1 DEF Release, Locked, At
  <2> QED BY <1>16, <2>2 DEF Release, Locked, AfterDrain, Goto, At
<1>17. ASSUME NEW t \in Threads, Drain(t) PROVE DivergenceInv'
  BY <1>17 DEF Drain, Locked, Unlock, AfterDrain, Goto, At, Running
<1>18. ASSUME NEW t \in Threads, ReportMismatch(t) PROVE DivergenceInv'
  BY <1>18 DEF ReportMismatch, Locked, Unlock, KillProcess, Goto, At,
     Running
<1>19. ASSUME NEW t \in Threads, SyscallToIdle(t) PROVE DivergenceInv'
  BY <1>19 DEF SyscallToIdle, psx_new_state, Locked, Unlock, Goto, At,
     Running
<1>20. ASSUME NEW t \in Threads, SetSensitivity(t) PROVE DivergenceInv'
  BY <1>20 DEF SetSensitivity, Locked, Unlock, Goto, At, Running
<1>21. ASSUME NEW t \in Threads, Cleanup(t) PROVE DivergenceInv'
  BY <1>21 DEF Cleanup, Locked, Unlock, MayFree, Goto, At, Running
<1>22. ASSUME NEW t \in Threads, ExitGroup(t) PROVE DivergenceInv'
  BY <1>22 DEF ExitGroup, KillProcess, At, Running
<1>23. ASSUME NEW t \in Threads, LockInHandler(t) PROVE DivergenceInv'
  BY <1>23 DEF LockInHandler, psx_lock, MuFree
<1>24. ASSUME NEW t \in Threads, ActorCheck(t) PROVE DivergenceInv'
  BY <1>24 DEF ActorCheck, HandlerLocked, HandlerUnlock, Recognised
<1>25. ASSUME NEW t \in Threads, ActorChain(t) PROVE DivergenceInv'
  BY <1>25 DEF ActorChain
<1>26. ASSUME NEW t \in Threads, ActorSyscall(t) PROVE DivergenceInv'
  BY <1>26 DEF ActorSyscall
<1>27. ASSUME NEW t \in Threads, ActorPost(t) PROVE DivergenceInv'
  <2>1. hpc[t] = "post" BY <1>27 DEF ActorPost, HandlerLocked
  <2>2. PICK r \in {"same", "other"} : map' = Answered(t, r)
    BY <1>27 DEF ActorPost
  <2>3. \A u \in Threads \ {t} : map'[u] = map[u]
    BY <2>2 DEF Answered
  <2>4. map'[t].tid = map[t].tid BY <2>2 DEF Answered, Entries
  <2>5. ASSUME NEW c \in Threads, pc[c] \in SweepLabels \cup {"open"},
               map[t].tid
        PROVE  map[t].pending
    BY <2>1, <2>5 DEF GatherInv
  <2>6. \A c \in Threads : pc[c] \notin DoneLabels BY <2>1 DEF RanInv
  <2>7. UNCHANGED <<pc, cur, mismatch, some, seen, buf>>
    BY <1>27 DEF ActorPost
  <2>8. ASSUME NEW c \in Threads, pc[c] \in SweepLabels \cup {"open"},
               Diverged(c)
        PROVE  Diverged(c)'
    BY <2>3, <2>5, <2>7, <2>8
  <2>9. ASSUME NEW c \in Threads, pc[c] \in SweepLabels, ~ some,
               NEW u \in Accounted(c)
        PROVE  u # t
    BY <2>5, <2>9 DEF SweepInv
  <2>10. ASSUME NEW c \in Threads, pc[c] = "insert" PROVE ~ map'[cur].tid
    BY <2>3, <2>4, <2>10
  <2> QED BY <2>3, <2>6, <2>7, <2>8, <2>9, <2>10
<1>28. ASSUME NEW t \in Threads, ActorWait(t) PROVE DivergenceInv'
  BY <1>28 DEF ActorWait, HandlerLocked, HandlerUnlock, WaitOrLeave
<1>29. ASSUME NEW t \in Threads, Exit(t) PROVE DivergenceInv'
  BY <1>29 DEF Exit, At, Running
<1>30. ASSUME NEW t \in Threads, Fork(t) PROVE DivergenceInv'
  BY <1>30 DEF Fork, At, Running
<1>31. ASSUME NEW t \in Threads, Foreign(t) PROVE DivergenceInv'
  BY <1>31 DEF Foreign
<1>32. ASSUME NEW t \in Threads, CallSyscall(t) PROVE DivergenceInv'
  BY <1>32 DEF CallSyscall, Goto, At, Running
<1>33. ASSUME NEW t \in Threads, CallSensitivity(t) PROVE DivergenceInv'
  BY <1>33 DEF CallSensitivity, Goto, At, Running
<1>34. ASSUME NEW t \in Threads, CallExit(t) PROVE DivergenceInv'
  BY <1>34 DEF CallExit, Goto, At, Running
<1>35. ASSUME NEW t \in Threads, Deliver(t) PROVE DivergenceInv'
  BY <1>35 DEF Deliver, Running
<1>36. ASSUME NEW t \in Threads, NEW u \in Threads, Clone(t, u) PROVE DivergenceInv'
  BY <1>36 DEF Clone, At, Running
<1>37. CASE UNCHANGED vars BY <1>37 DEF vars
<1> QED BY <1>1, <1>2, <1>3, <1>4, <1>5, <1>6, <1>7, <1>8, <1>9, <1>10,
           <1>11, <1>12, <1>13, <1>14, <1>15, <1>16, <1>17, <1>18, <1>19,
           <1>20, <1>21, <1>22, <1>23, <1>24, <1>25, <1>26, <1>27, <1>28,
           <1>29, <1>30, <1>31, <1>32, <1>33, <1>34, <1>35, <1>36, <1>37 DEF
           Next, Library, Actor, Program, Quiet
-----------------------------------------------------------------------------
(* The rest of the properties                                              *)

LEMMA StrongHolds == Spec => []Strong
<1>1. Init => HandInv /\ RanInv /\ DivergenceInv /\ SignalInv /\ ForeignInv
  BY ThreadsAssumption DEF Init, HandInv, RanInv, DivergenceInv, SignalInv,
     ForeignInv, Asked, Busy, Blank, GatherLabels, DoneLabels, SweepLabels, Live
<1>2. Inductive /\ HandInv /\ RanInv /\ DivergenceInv /\ SignalInv
        /\ ForeignInv /\ [Next]_vars
      => (HandInv /\ RanInv /\ DivergenceInv /\ SignalInv /\ ForeignInv)'
  BY HandStep, RanStep, DivergenceStep, SignalStep, ForeignStep DEF Inductive
<1> QED BY <1>1, <1>2, InductiveHolds, PTL DEF Spec, Strong

(* psx_confirm_sigaction at the start of a call is enough: libc does not   *)
(* take signal 33 back before the last tkill.                              *)
THEOREM HandlerStays == Spec => []HandlerInPlace
<1>1. Strong => HandlerInPlace BY DEF Strong, HandInv, HandlerInPlace
<1> QED BY <1>1, StrongHolds, PTL

(* The return values a call compares are those of all the threads it       *)
(* interrupted, each of them once answered.                                *)
THEOREM MismatchIsExact == Spec => []MismatchExact
<1>1. Strong => MismatchExact
  BY DEF Strong, DivergenceInv, Diverged, MismatchExact
<1> QED BY <1>1, StrongHolds, PTL

(* No answer is lost between a thread's psx_posix_syscall_actor and the    *)
(* caller's sweep, unless libc sends signal 33 by tkill itself, which the  *)
(* actor takes for the library's.                                          *)
THEOREM NoAnswerLost ==
  "tkill" \notin ForeignKinds => (Spec => []AnswerNotLost)
<1> SUFFICES ASSUME "tkill" \notin ForeignKinds PROVE Spec => []AnswerNotLost
  OBVIOUS
<1>1. Strong => AnswerNotLost
  <2> SUFFICES ASSUME Strong, NEW t \in Threads, hpc[t] = "wait", active
               PROVE  ~ map[t].pending
    BY DEF AnswerNotLost
  <2> USE DEF Strong, Inductive
  <2>1. Undisturbed BY DEF Undisturbed
  <2>2. \E c \in Threads : pc[c] \in GatherLabels \cup {"drain"}
    BY DEF IdleInv, Busy
  <2>3. PICK c \in Threads : pc[c] \in GatherLabels \ {"memset"}
    BY <2>2 DEF DoneInv, DoneLabels, GatherInv, GatherLabels
  <2>4. pc[c] \in SweepLabels \cup {"open"} BY <2>3 DEF SweepLabels
  <2> QED BY <2>1, <2>4 DEF SignalInv, Busy
<1> QED BY <1>1, StrongHolds, PTL

(* No thread executes a command twice, or one of a call that is over, with *)
(* the same exception.                                                     *)
THEOREM ExecutedOnce == "tkill" \notin ForeignKinds => (Spec => RunsOnce)
<1> SUFFICES ASSUME "tkill" \notin ForeignKinds PROVE Spec => RunsOnce
  OBVIOUS
<1>1. ASSUME Strong, [Next]_vars, NEW t \in Threads, hpc[t] = "syscall"
      PROVE  /\ ran[t] < cmd
             /\ \E c \in Threads \ {t} : pc[c] \in GatherLabels
  <2> USE DEF Strong, Inductive
  <2>1. Undisturbed BY DEF Undisturbed
  <2>2. PICK c \in Threads : pc[c] \in GatherLabels \cup {"drain"}
    BY <1>1 DEF IdleInv, Busy
  <2>3. pc[c] # "drain" BY <1>1 DEF RanInv, DoneLabels
  <2>4. pc[c] # "memset" BY <1>1, <2>2 DEF GatherInv, Busy, GatherLabels
  <2>5. pc[c] \in SweepLabels \cup {"open"}
    BY <2>2, <2>3, <2>4 DEF SweepLabels, GatherLabels
  <2>6. map[t].tid BY <1>1, <2>1, <2>5 DEF SignalInv, Busy
  <2>7. c # t BY <1>1, <2>2, <2>3, <2>4, <2>6 DEF GatherInv
  <2>8. t \in Live BY <1>1 DEF FrameInv, Live
  <2> QED BY <1>1, <2>2, <2>3, <2>7, <2>8 DEF RanInv
<1>2. Strong /\ [Next]_vars =>
        [\A t \in Threads :
           hpc[t] = "syscall" /\ hpc'[t] = "post" =>
               /\ ran[t] < cmd
               /\ \E c \in Threads \ {t} : pc[c] \in GatherLabels]_vars
  BY <1>1
<1> QED BY <1>2, StrongHolds, PTL DEF Spec, RunsOnce

(* In a process that does not fork, _psx_cleanup frees what no frame is    *)
(* about to use, whatever the other threads are in the middle of.          *)
THEOREM MemoryOutlivesUse == MaxForks = 0 => (Spec => []NoUseAfterFree)
<1> SUFFICES ASSUME MaxForks = 0 PROVE Spec => []NoUseAfterFree
  OBVIOUS
<1>1. Init => FreedInv BY DEF Init, FreedInv
<1>2. Strong /\ FreedInv /\ [Next]_vars => FreedInv'
  BY FreedStep DEF Strong, Inductive
<1>3. Strong /\ FreedInv => NoUseAfterFree
  <2> SUFFICES ASSUME Strong, FreedInv, mem = "freed" PROVE NoUseAfterFree
    BY DEF NoUseAfterFree
  <2> USE DEF Strong, Inductive, SetupLabels, GatherLabels, DoneLabels
  <2>1. \A t \in Threads :
          pc[t] \notin SetupLabels \cup GatherLabels \cup DoneLabels
    BY DEF FreedInv, CallInv, CallExclusive
  <2>2. \A t \in Threads : hpc[t] # "post" BY <2>1 DEF IdleInv, Busy
  <2>3. \A t \in Threads : hpc[t] = "chain" => foreign > 0
    BY DEF ForeignInv
  <2> QED BY <2>1, <2>2, <2>3 DEF NoUseAfterFree, Live
<1> QED BY <1>1, <1>2, <1>3, StrongHolds, PTL DEF Spec

-----------------------------------------------------------------------------
(* Refinement                                                              *)

(* A thread in ordinary code of its own is not held at the barrier.        *)
LEMMA FreeToGo ==
  ASSUME Strong, NEW t \in Threads, At(t, "user") PROVE ~ Abstract!Held(t)
<1> SUFFICES ASSUME Phase = "gather", ran[t] = cmd PROVE FALSE
  BY DEF Abstract!Held
<1>1. PICK c \in Threads : pc[c] \in GatherLabels \cup {"setup_syscall"}
  BY DEF Phase
<1>2. c # t /\ t \in Live BY <1>1 DEF At, Running, Live, GatherLabels
<1> QED BY <1>1, <1>2 DEF Strong, Inductive, TypeOK, RanInv, At, Running

LEMMA RefinementStep ==
  ASSUME Strong, [Next]_vars
  PROVE  [Abstract!Next]_(Abstract!vars)
<1> USE DEF Strong, Inductive, TypeOK, os, frames, tracker, locals, history,
        CallInv, CallExclusive, SetupLabels, GatherLabels, DoneLabels,
        CallLabels, SweepLabels, EntryLabels, Phase, Live, Abstract!vars
<1>1. ASSUME NEW t \in Threads, Lock(t) PROVE [Abstract!Next]_(Abstract!vars)
  BY <1>1 DEF Lock, psx_lock, MuFree, Running
<1>2. ASSUME NEW t \in Threads, IdleToSetup(t) PROVE [Abstract!Next]_(Abstract!vars)
  BY <1>2 DEF IdleToSetup, psx_new_state, Locked, Unlock, Goto, At, Running
<1>3. ASSUME NEW t \in Threads, ConfirmSigaction(t) PROVE [Abstract!Next]_(Abstract!vars)
  BY <1>3 DEF ConfirmSigaction, Goto, At, Running
<1>4. ASSUME NEW t \in Threads, ImmediateSyscall(t) PROVE [Abstract!Next]_(Abstract!vars)
  <2>1. Abstract!Begin(t)
    BY <1>4 DEF ImmediateSyscall, Goto, At, Running, Abstract!Begin
  <2> QED BY <2>1 DEF Abstract!Next
<1>5. ASSUME NEW t \in Threads, SetupToIdle(t) PROVE [Abstract!Next]_(Abstract!vars)
  BY <1>5 DEF SetupToIdle, psx_new_state, Locked, Unlock, Goto, At, Running
<1>6. ASSUME NEW t \in Threads, SetupToSyscall(t) PROVE [Abstract!Next]_(Abstract!vars)
  BY <1>6 DEF SetupToSyscall, psx_new_state, Locked, Unlock, Goto, At,
     Running
<1>7. ASSUME NEW t \in Threads, ClearMap(t) PROVE [Abstract!Next]_(Abstract!vars)
  BY <1>7 DEF ClearMap, Goto, At, Running
<1>8. ASSUME NEW t \in Threads, OpenTaskDir(t) PROVE [Abstract!Next]_(Abstract!vars)
  BY <1>8 DEF OpenTaskDir, Goto, At, Running
<1>9. ASSUME NEW t \in Threads, TaskDirFails(t) PROVE [Abstract!Next]_(Abstract!vars)
  <2>1. Abstract!Leave({})
    BY <1>9 DEF TaskDirFails, KillProcess, Abstract!Leave
  <2> QED BY <2>1 DEF Abstract!Next
<1>10. ASSUME NEW t \in Threads, GetDents(t) PROVE [Abstract!Next]_(Abstract!vars)
  BY <1>10 DEF GetDents, Batches, Goto, At, Running
<1>11. ASSUME NEW t \in Threads, EndSweep(t) PROVE [Abstract!Next]_(Abstract!vars)
  BY <1>11 DEF EndSweep, Verified, ListingEnds, Goto, At, Running
<1>12. ASSUME NEW t \in Threads, NextEntry(t) PROVE [Abstract!Next]_(Abstract!vars)
  BY <1>12 DEF NextEntry, Goto, At, Running
<1>13. ASSUME NEW t \in Threads, InsertEntry(t) PROVE [Abstract!Next]_(Abstract!vars)
  BY <1>13 DEF InsertEntry, Locked, Unlock, Goto, At, Running
<1>14. ASSUME NEW t \in Threads, TkillEntry(t) PROVE [Abstract!Next]_(Abstract!vars)
  BY <1>14 DEF TkillEntry, Goto, At, Running
<1>15. ASSUME NEW t \in Threads, AccountEntry(t) PROVE [Abstract!Next]_(Abstract!vars)
  BY <1>15 DEF AccountEntry, Locked, Unlock, Goto, At, Running
<1>16. ASSUME NEW t \in Threads, Release(t) PROVE [Abstract!Next]_(Abstract!vars)
  <2>1. Phase = "gather" BY <1>16 DEF Release, Locked, At
  <2>2. pc'[t] \in DoneLabels
    BY <1>16 DEF Release, AfterDrain, Goto
  <2>3. /\ \A c \in Threads : pc'[c] \notin GatherLabels \cup {"setup_syscall"}
        /\ UNCHANGED <<status, ran, cmd>>
    BY <1>16, <2>2 DEF Release, Locked, Goto, At
  <2>4. Phase' = "release" BY <2>2, <2>3
  <2>5. \A u \in Live : ran[u] = cmd
    <3>1. DoneInv'
      BY DoneStep
    <3> QED BY <2>2, <2>3, <3>1 DEF DoneInv
  <2>6. Abstract!Release
    BY <2>1, <2>3, <2>4, <2>5 DEF Abstract!Release, Abstract!AllRan
  <2> QED BY <2>6 DEF Abstract!Next
<1>17. ASSUME NEW t \in Threads, Drain(t) PROVE [Abstract!Next]_(Abstract!vars)
  BY <1>17 DEF Drain, Locked, Unlock, AfterDrain, Goto, At, Running
<1>18. ASSUME NEW t \in Threads, ReportMismatch(t) PROVE [Abstract!Next]_(Abstract!vars)
  <2>1. CASE sensitivity = "ERROR"
    <3>1. Abstract!Leave({})
      BY <1>18, <2>1 DEF ReportMismatch, KillProcess, Abstract!Leave
    <3> QED BY <3>1 DEF Abstract!Next
  <2>2. CASE sensitivity # "ERROR"
    BY <1>18, <2>2 DEF ReportMismatch, Locked, Goto, At
  <2> QED BY <2>1, <2>2
<1>19. ASSUME NEW t \in Threads, SyscallToIdle(t) PROVE [Abstract!Next]_(Abstract!vars)
  <2>1. Abstract!Return
    BY <1>19 DEF SyscallToIdle, psx_new_state, Locked, Goto, At, DoneInv,
       Abstract!Return, Abstract!AllRan
  <2> QED BY <2>1 DEF Abstract!Next
<1>20. ASSUME NEW t \in Threads, SetSensitivity(t) PROVE [Abstract!Next]_(Abstract!vars)
  BY <1>20 DEF SetSensitivity, Locked, Unlock, Goto, At, Running
<1>21. ASSUME NEW t \in Threads, Cleanup(t) PROVE [Abstract!Next]_(Abstract!vars)
  BY <1>21 DEF Cleanup, Locked, Unlock, MayFree, Goto, At, Running
<1>22. ASSUME NEW t \in Threads, ExitGroup(t) PROVE [Abstract!Next]_(Abstract!vars)
  <2>1. Abstract!Leave({})
    BY <1>22 DEF ExitGroup, KillProcess, Abstract!Leave
  <2> QED BY <2>1 DEF Abstract!Next
<1>23. ASSUME NEW t \in Threads, LockInHandler(t) PROVE [Abstract!Next]_(Abstract!vars)
  BY <1>23 DEF LockInHandler, psx_lock, MuFree
<1>24. ASSUME NEW t \in Threads, ActorCheck(t) PROVE [Abstract!Next]_(Abstract!vars)
  BY <1>24 DEF ActorCheck, HandlerLocked, HandlerUnlock, Recognised
<1>25. ASSUME NEW t \in Threads, ActorChain(t) PROVE [Abstract!Next]_(Abstract!vars)
  BY <1>25 DEF ActorChain
<1>26. ASSUME NEW t \in Threads, ActorSyscall(t) PROVE [Abstract!Next]_(Abstract!vars)
  <2>1. CASE ran[t] = cmd
    <3>1. ran' = ran BY <1>26, <2>1 DEF ActorSyscall
    <3> QED BY <1>26, <3>1 DEF ActorSyscall
  <2>2. CASE ran[t] # cmd
    <3>1. \E c \in Threads : pc[c] \in GatherLabels
      BY <1>26 DEF ActorSyscall, IdleInv, RanInv, Busy
    <3>2. Abstract!Execute(t)
      BY <1>26, <2>2, <3>1 DEF ActorSyscall, Abstract!Execute
    <3> QED BY <3>2 DEF Abstract!Next
  <2> QED BY <2>1, <2>2
<1>27. ASSUME NEW t \in Threads, ActorPost(t) PROVE [Abstract!Next]_(Abstract!vars)
  BY <1>27 DEF ActorPost, HandlerLocked, HandlerUnlock, WaitOrLeave,
     Answered
<1>28. ASSUME NEW t \in Threads, ActorWait(t) PROVE [Abstract!Next]_(Abstract!vars)
  BY <1>28 DEF ActorWait, HandlerLocked, HandlerUnlock, WaitOrLeave
<1>29. ASSUME NEW t \in Threads, Exit(t) PROVE [Abstract!Next]_(Abstract!vars)
  <2>1. ~ Abstract!Held(t) BY <1>29, FreeToGo DEF Exit
  <2>2. Abstract!Exit(t)
    BY <1>29, <2>1 DEF Exit, At, Running, Abstract!Exit
  <2> QED BY <2>2 DEF Abstract!Next
<1>30. ASSUME NEW t \in Threads, Fork(t) PROVE [Abstract!Next]_(Abstract!vars)
  <2>1. ~ Abstract!Held(t) BY <1>30, FreeToGo DEF Fork
  <2>2. Abstract!Leave({t})
    BY <1>30, <2>1 DEF Fork, At, Running, Abstract!Leave
  <2> QED BY <2>2 DEF Abstract!Next
<1>31. ASSUME NEW t \in Threads, Foreign(t) PROVE [Abstract!Next]_(Abstract!vars)
  BY <1>31 DEF Foreign
<1>32. ASSUME NEW t \in Threads, CallSyscall(t) PROVE [Abstract!Next]_(Abstract!vars)
  BY <1>32 DEF CallSyscall, Goto, At, Running
<1>33. ASSUME NEW t \in Threads, CallSensitivity(t) PROVE [Abstract!Next]_(Abstract!vars)
  BY <1>33 DEF CallSensitivity, Goto, At, Running
<1>34. ASSUME NEW t \in Threads, CallExit(t) PROVE [Abstract!Next]_(Abstract!vars)
  BY <1>34 DEF CallExit, Goto, At, Running
<1>35. ASSUME NEW t \in Threads, Deliver(t) PROVE [Abstract!Next]_(Abstract!vars)
  BY <1>35 DEF Deliver, Running
<1>36. ASSUME NEW t \in Threads, NEW u \in Threads, Clone(t, u) PROVE [Abstract!Next]_(Abstract!vars)
  <2>1. ~ Abstract!Held(t) BY <1>36, FreeToGo DEF Clone
  <2>2. Abstract!Clone(t, u)
    BY <1>36, <2>1 DEF Clone, At, Running, Abstract!Clone
  <2> QED BY <2>2 DEF Abstract!Next
<1>37. CASE UNCHANGED vars BY <1>37 DEF vars
<1> QED BY <1>1, <1>2, <1>3, <1>4, <1>5, <1>6, <1>7, <1>8, <1>9, <1>10,
           <1>11, <1>12, <1>13, <1>14, <1>15, <1>16, <1>17, <1>18, <1>19,
           <1>20, <1>21, <1>22, <1>23, <1>24, <1>25, <1>26, <1>27, <1>28,
           <1>29, <1>30, <1>31, <1>32, <1>33, <1>34, <1>35, <1>36, <1>37 DEF
           Next, Library, Actor, Program, Quiet

(* The protocol of psx.c does what AllThreads promises, step by step: one  *)
(* thread begins, every other live thread executes the command, and only   *)
(* then does the call release them and return.                             *)
THEOREM Refinement == Spec => ImplementsAllThreads
<1>1. Init => Abstract!Init
  <2> SUFFICES ASSUME Init PROVE Abstract!Init
    OBVIOUS
  <2>1. Live = {Main} BY ThreadsAssumption DEF Init, Live
  <2>2. Phase = "none" BY DEF Init, Phase, GatherLabels, DoneLabels
  <2> QED BY <2>1, <2>2, ThreadsAssumption DEF Init, Abstract!Init
<1> QED BY <1>1, RefinementStep, StrongHolds, PTL
        DEF Spec, ImplementsAllThreads, Abstract!Spec

-----------------------------------------------------------------------------
(* The thread reference map: hashing, collisions and growth.               *)

LEMMA LeastOf ==
  ASSUME NEW T \in SUBSET Nat, T # {}
  PROVE  \E i \in T : \A j \in T : i <= j
<1> DEFINE R == OpToRel(<, Nat)
<1>1. IsWellFoundedOn(R, Nat) BY NatLessThanWellFounded
<1>2. \A a, b \in Nat : a < b => <<a, b>> \in R BY DEF OpToRel
<1> HIDE DEF R
<1>3. PICK x \in T : \A y \in T : ~ (<<y, x>> \in R) BY <1>1, WFMin
<1>4. ASSUME NEW y \in T PROVE x <= y
  <2>1. ~ <<y, x>> \in R BY <1>3
  <2>2. ~ y < x BY <1>2, <2>1
  <2> QED BY <2>2
<1> QED BY <1>4

(* The first size at which two threads do not meet. *)
LEMMA Separates ==
  ASSUME NEW t \in Tids, NEW u \in Tids, t # u, NEW n \in Sizes
  PROVE  /\ Grown(n, t, u) \in Sizes /\ Grown(n, t, u) >= n
         /\ Slot(t, Grown(n, t, u)) # Slot(u, Grown(n, t, u))
<1> DEFINE S == {m \in Sizes : m >= n /\ Slot(t, m) # Slot(u, m)}
<1>1. S # {} BY MixAssumption DEF Slot
<1>2. S \in SUBSET Nat BY SizeAssumption
<1>3. Grown(n, t, u) = CHOOSE x \in S : \A y \in S : x =< y BY DEF Grown, Min
<1>4. \E x \in S : \A y \in S : x =< y
  <2> HIDE DEF S
  <2> QED BY <1>1, <1>2, LeastOf
<1>5. Grown(n, t, u) \in S
  <2> HIDE DEF S
  <2> QED BY <1>3, <1>4
<1> QED BY <1>5

(* A remainder by a number gives that by its divisors. *)
LEMMA DivideTwice ==
  ASSUME NEW a \in Nat, NEW n \in Nat \ {0}, NEW m \in Nat \ {0}, m % n = 0
  PROVE  (a % m) % n = a % n
<1> DEFINE k == m \div n
           q == a \div m
           r == a % m
           d == r \div n
           s == r % n
<1>1. k \in Nat /\ m = n * k
  BY m % n \in 0 .. n - 1 /\ m = n * (m \div n) + (m % n)
<1>2. q \in Nat /\ r \in Nat /\ a = m * q + r OBVIOUS
<1> HIDE DEF k, q, r
<1>3. d \in Nat /\ s \in 0 .. n - 1 /\ r = n * d + s BY <1>2
<1> HIDE DEF d, s
<1>4. a = n * (k * q + d) + s
  <2>1. m * q = n * (k * q) BY <1>1, <1>2
  <2>2. n * (k * q + d) = n * (k * q) + n * d BY <1>1, <1>2, <1>3
  <2> QED BY <1>1, <1>2, <1>3, <2>1, <2>2
<1> DEFINE e == k * q + d
<1>5. e \in Nat BY <1>1, <1>2, <1>3
<1> HIDE DEF e
<1>6. a = n * e + s BY <1>4 DEF e
<1> DEFINE f == a \div n
           g == a % n
<1>7. f \in Nat /\ g \in 0 .. n - 1 /\ a = n * f + g OBVIOUS
<1> HIDE DEF f, g
<1>8. g = s
  <2>1. CASE f < e
    <3>1. n * e = n * f + n * (e - f) BY <1>5, <1>7
    <3>2. n * (e - f) >= n BY <1>5, <1>7, <2>1
    <3> QED BY <1>3, <1>5, <1>6, <1>7, <3>1, <3>2
  <2>2. CASE f > e
    <3>1. n * f = n * e + n * (f - e) BY <1>5, <1>7
    <3>2. n * (f - e) >= n BY <1>5, <1>7, <2>2
    <3> QED BY <1>3, <1>5, <1>6, <1>7, <3>1, <3>2
  <2>3. CASE f = e BY <1>3, <1>5, <1>6, <1>7, <2>3
  <2> QED BY <1>5, <1>7, <2>1, <2>2, <2>3
<1> QED BY <1>8 DEF g, s, r

(* Two threads that meet in the larger table meet in the smaller one.     *)
LEMMA MeetBefore ==
  ASSUME NEW t \in Tids, NEW u \in Tids, NEW n \in Sizes, NEW m \in Sizes, n <= m,
         Slot(t, m) = Slot(u, m)
  PROVE  Slot(t, n) = Slot(u, n)
<1>1. n \in Nat \ {0} /\ m \in Nat \ {0} /\ m % n = 0 BY SizeAssumption
<1>2. Mix[t] \in Nat /\ Mix[u] \in Nat BY MixAssumption
<1>3. /\ (Mix[t] % m) % n = Mix[t] % n
      /\ (Mix[u] % m) % n = Mix[u] % n
  BY <1>1, <1>2, DivideTwice
<1> QED BY <1>3 DEF Slot

Entry == [tid : Tids, pending : BOOLEAN, retval : Results \cup {0}, sweep : Nat]

(* A map of n entries whose slots in use are each that of its thread, one  *)
(* of those that were sent the signal.                                     *)
WellPlaced(m, n, threads) ==
    \A i \in DOMAIN m : m[i] \in Entry /\ Slot(m[i].tid, n) = i /\ m[i].tid \in threads

ThreadsInv ==
    /\ live \in SUBSET Tids /\ sent \in SUBSET Tids /\ todo \in SUBSET live
    /\ entries \in Sizes /\ sweep \in Nat \ {0}
    /\ result \in [Tids -> Results \cup {0}]
    /\ \A t \in Tids : result[t] # 0 => t \in sent

(* The entry of thread t: its sweep is one that growing the table keeps.   *)
Right(e, t, r, from) ==
    /\ e.tid = t /\ e.sweep >= from
    /\ e.pending <=> r = 0
    /\ ~ e.pending => e.retval = r

(* The map knows the threads that were sent the signal, as long as they    *)
(* live; one that this sweep has visited was seen by it, the others by the *)
(* sweep before.                                                           *)
KnownInv ==
    \A t \in live \cap sent :
        /\ Slot(t, entries) \in DOMAIN slots
        /\ Right(Here(t), t, result[t], IF t \in todo THEN sweep - 1 ELSE sweep)

MapInv == WellPlaced(slots, entries, sent) /\ ThreadsInv /\ KnownInv

LEMMA PutPlaced ==
  ASSUME NEW m, NEW n, NEW T, WellPlaced(m, n, T), NEW e \in Entry, e.tid \in T, NEW i, 
         i = Slot(e.tid, n)
  PROVE  WellPlaced(Put(m, i, e), n, T)
<1> DEFINE p == Put(m, i, e)
<1>1. /\ DOMAIN p = DOMAIN m \cup {i} /\ p[i] = e
      /\ \A j \in DOMAIN m : j # i => p[j] = m[j]
  BY DEF Put
<1> HIDE DEF p
<1>2. WellPlaced(p, n, T) BY <1>1 DEF WellPlaced
<1> QED BY <1>2 DEF p

LEMMA MapInitInv == MapInit => MapInv
<1> SUFFICES ASSUME MapInit PROVE MapInv OBVIOUS
<1>1. DOMAIN slots = {} BY DEF MapInit
<1>2. WellPlaced(slots, entries, sent) BY <1>1 DEF WellPlaced
<1>3. ThreadsInv BY SizeAssumption DEF MapInit, ThreadsInv
<1>4. KnownInv BY DEF MapInit, KnownInv
<1> QED BY <1>2, <1>3, <1>4 DEF MapInv

(* In a grown table every kept entry has a slot of its own. *)
LEMMA RehashedThere ==
  ASSUME MapInv, NEW n \in Sizes, n >= entries
  PROVE  /\ DOMAIN Rehashed(n) = {Slot(slots[i].tid, n) : i \in Kept}
         /\ \A i \in Kept : Rehashed(n)[Slot(slots[i].tid, n)] = slots[i]
<1> DEFINE from(j) == {i \in Kept : Slot(slots[i].tid, n) = j}
           S == {Slot(slots[i].tid, n) : i \in Kept}
<1>1. Rehashed(n) = [j \in S |-> slots[CHOOSE i \in from(j) : \A k \in from(j) : k =< i]]
  BY DEF Rehashed
<1>2. \A i \in Kept : /\ i \in DOMAIN slots /\ slots[i].tid \in Tids
                      /\ Slot(slots[i].tid, entries) = i
  BY DEF Kept, MapInv, WellPlaced, Entry
<1>3. ASSUME NEW i \in Kept PROVE i \in Int
  <2>1. Mix[slots[i].tid] \in Nat BY <1>2, MixAssumption
  <2>2. entries \in Nat \ {0} BY SizeAssumption DEF MapInv, ThreadsInv
  <2>3. Slot(slots[i].tid, entries) \in Int BY <2>1, <2>2 DEF Slot
  <2> QED BY <1>2, <2>3
<1>4. ASSUME NEW i \in Kept, NEW k \in Kept, Slot(slots[i].tid, n) = Slot(slots[k].tid, n)
      PROVE  i = k
  <2>1. entries \in Sizes /\ entries <= n BY SizeAssumption DEF MapInv, ThreadsInv
  <2>2. Slot(slots[i].tid, entries) = Slot(slots[k].tid, entries)
    BY <1>2, <1>4, <2>1, MeetBefore
  <2> QED BY <1>2, <2>2
<1>5. ASSUME NEW i \in Kept
      PROVE  (CHOOSE l \in from(Slot(slots[i].tid, n)) :
                 \A k \in from(Slot(slots[i].tid, n)) : k =< l) = i
  <2> DEFINE F == from(Slot(slots[i].tid, n))
  <2>1. F = {i} BY <1>4
  <2>2. i <= i BY <1>3
  <2> HIDE DEF F
  <2>3. (CHOOSE l \in F : \A k \in F : k =< l) = i BY <2>1, <2>2
  <2> QED BY <2>3 DEF F
<1> HIDE DEF from
<1> QED BY <1>1, <1>5

(* What a visit finds: a table in which its thread has a slot to itself. *)
LEMMA Room ==
  ASSUME MapInv, NEW t \in todo, Here(t).tid # t
  PROVE  LET n == Size(t)
             m == IF n = entries THEN slots ELSE Rehashed(n)
         IN  /\ n \in Sizes /\ t \notin sent
             /\ WellPlaced(m, n, sent) /\ Slot(t, n) \notin DOMAIN m
             /\ \A u \in live \cap sent : /\ Slot(u, n) \in DOMAIN m
                                          /\ m[Slot(u, n)] = Here(u)
<1> DEFINE n == Size(t)
           m == IF n = entries THEN slots ELSE Rehashed(n)
           x == Here(t).tid
           i == Slot(t, entries)
<1>1. t \in Tids /\ t \in live /\ entries \in Sizes BY DEF MapInv, ThreadsInv
<1>2. t \notin sent BY <1>1 DEF MapInv, KnownInv, Right
<1>3. \A j \in DOMAIN slots : slots[j].tid \in Tids /\ slots[j].tid # 0
                             /\ slots[j].tid \in sent /\ Slot(slots[j].tid, entries) = j
  BY TidsAssumption DEF MapInv, WellPlaced, Entry
<1>4. \A u \in live \cap sent : /\ u \in Tids /\ Slot(u, entries) \in DOMAIN slots
                                /\ slots[Slot(u, entries)] = Here(u) /\ Here(u).tid = u
                                /\ Here(u).sweep >= sweep - 1
  <2> SUFFICES ASSUME NEW u \in live \cap sent
               PROVE  /\ u \in Tids /\ Slot(u, entries) \in DOMAIN slots
                      /\ slots[Slot(u, entries)] = Here(u) /\ Here(u).tid = u
                      /\ Here(u).sweep >= sweep - 1
    OBVIOUS
  <2>1. /\ Slot(u, entries) \in DOMAIN slots /\ Here(u).tid = u
        /\ Here(u).sweep >= IF u \in todo THEN sweep - 1 ELSE sweep
    BY DEF MapInv, KnownInv, Right
  <2>2. Here(u) = slots[Slot(u, entries)] BY <2>1 DEF Here, SlotOf
  <2>3. Here(u) \in Entry BY <2>1, <2>2 DEF MapInv, WellPlaced
  <2>4. Here(u).sweep \in Nat /\ sweep \in Nat BY <2>3 DEF Entry, MapInv, ThreadsInv
  <2>5. Here(u).sweep >= sweep - 1 BY <2>1, <2>4
  <2> QED BY <2>1, <2>2, <2>5 DEF MapInv, ThreadsInv
<1>5. CASE x = 0
  <2>1. n = entries /\ m = slots BY <1>5 DEF Size
  <2>2. i \notin DOMAIN slots BY <1>3, <1>5 DEF Here, SlotOf
  <2> HIDE DEF m, n
  <2> QED BY <1>1, <1>2, <1>4, <2>1, <2>2 DEF MapInv, n, m
<1>6. CASE x # 0
  <2>1. i \in DOMAIN slots /\ x = slots[i].tid
    BY <1>6 DEF Here, SlotOf, BlankSlot
  <2>2. x \in Tids /\ x # t /\ Slot(x, entries) = i BY <1>3, <2>1
  <2>3. n = Grown(entries, x, t) BY <1>6 DEF Size
  <2>4. n \in Sizes /\ n >= entries /\ Slot(x, n) # Slot(t, n)
    BY <1>1, <2>2, <2>3, Separates
  <2>5. n # entries BY <2>2, <2>4
  <2>6. m = Rehashed(n) BY <2>5
  <2> HIDE DEF n, m, x, i
  <2>7. /\ DOMAIN m = {Slot(slots[j].tid, n) : j \in Kept}
        /\ \A j \in Kept : m[Slot(slots[j].tid, n)] = slots[j]
    BY <2>4, <2>6, RehashedThere
  <2>8. \A j \in Kept : j \in DOMAIN slots BY DEF Kept
  <2>9. WellPlaced(m, n, sent)
    BY <2>7, <2>8 DEF MapInv, WellPlaced
  <2>10. Slot(t, n) \notin DOMAIN m
    <3> SUFFICES ASSUME NEW j \in Kept, Slot(slots[j].tid, n) = Slot(t, n) PROVE FALSE
      BY <2>7
    <3>1. slots[j].tid \in Tids /\ Slot(slots[j].tid, entries) = j BY <1>3, <2>8
    <3>2. entries <= n BY <1>1, <2>4, SizeAssumption
    <3>3. Slot(slots[j].tid, entries) = Slot(t, entries)
      BY <1>1, <2>4, <3>1, <3>2, MeetBefore
    <3>4. j = i BY <3>1, <3>3 DEF i
    <3> QED BY <2>1, <2>4, <3>4
  <2>11. ASSUME NEW u \in live \cap sent
         PROVE  Slot(u, n) \in DOMAIN m /\ m[Slot(u, n)] = Here(u)
    <3> DEFINE j == Slot(u, entries)
    <3>1. j \in DOMAIN slots /\ slots[j] = Here(u) /\ slots[j].tid = u
          /\ slots[j].sweep >= sweep - 1
      BY <1>4
    <3>2. j \in Kept BY <3>1 DEF Kept
    <3> QED BY <2>7, <3>1, <3>2
  <2> QED BY <1>2, <2>4, <2>9, <2>10, <2>11 DEF n, m
<1> QED BY <1>5, <1>6

(* KnownInv of the next state, with its slots spelt out. *)
LEMMA KnownNext ==
  ASSUME \A u \in live' \cap sent' :
            /\ Slot(u, entries') \in DOMAIN slots'
            /\ Right(slots'[Slot(u, entries')], u, result'[u],
                     IF u \in todo' THEN sweep' - 1 ELSE sweep')
  PROVE  KnownInv'
<1>1. \A u : Slot(u, entries') \in DOMAIN slots' => Here(u)' = slots'[Slot(u, entries')]
  BY DEF Here, SlotOf, Slot
<1> QED BY <1>1 DEF KnownInv, Slot

LEMMA VisitInv ==
  ASSUME MapInv, NEW t \in Tids, Visit(t) PROVE MapInv'
<1> DEFINE n == Size(t)
           m == IF n = entries THEN slots ELSE Rehashed(n)
           i == Slot(t, n)
           e == Listed([SlotOf(m, i) EXCEPT !.pending = TRUE, !.tid = t])
<1>1. /\ t \in todo /\ entries' = n /\ slots' = Put(m, i, e) /\ sent' = sent \cup {t}
      /\ todo' = todo \ {t} /\ live' = live /\ sweep' = sweep /\ result' = result
  BY DEF Visit
<1>2. /\ n \in Sizes /\ t \notin sent
      /\ WellPlaced(m, n, sent) /\ Slot(t, n) \notin DOMAIN m
      /\ \A u \in live \cap sent : Slot(u, n) \in DOMAIN m /\ m[Slot(u, n)] = Here(u)
  BY Room DEF Visit
<1>3. e = [tid |-> t, pending |-> TRUE, retval |-> 0, sweep |-> sweep]
  <2> DEFINE b == SlotOf(m, i)
  <2>1. b = BlankSlot BY <1>2 DEF SlotOf
  <2>2. e = Listed([b EXCEPT !.pending = TRUE, !.tid = t]) OBVIOUS
  <2> HIDE DEF b, e
  <2> QED BY <2>1, <2>2 DEF Listed, BlankSlot
<1> HIDE DEF n, m, e
<1>4. sweep \in Nat \ {0} /\ result[t] = 0 BY <1>2 DEF MapInv, ThreadsInv
<1>5. e \in Entry /\ e.tid = t BY <1>3, <1>4 DEF Entry
<1>6. Right(e, t, 0, sweep) BY <1>3, <1>4 DEF Right
<1>7. WellPlaced(slots, entries, sent)'
  <2>1. WellPlaced(m, n, sent \cup {t}) BY <1>2 DEF WellPlaced
  <2>2. WellPlaced(Put(m, i, e), n, sent \cup {t}) BY <1>5, <2>1, PutPlaced
  <2> QED BY <1>1, <2>2 DEF WellPlaced, Slot
<1>8. ThreadsInv' BY <1>1, <1>2 DEF MapInv, ThreadsInv
<1>9. KnownInv'
  <2> SUFFICES ASSUME NEW u \in live \cap (sent \cup {t})
               PROVE  /\ Slot(u, n) \in DOMAIN slots'
                      /\ Right(slots'[Slot(u, n)], u, result[u],
                               IF u \in todo \ {t} THEN sweep - 1 ELSE sweep)
    BY <1>1, KnownNext
  <2>1. CASE u = t
    <3> HIDE DEF i
    <3>1. i \in DOMAIN slots' /\ slots'[i] = e BY <1>1 DEF Put
    <3>2. u \notin todo \ {t} /\ result[u] = 0 BY <1>4, <2>1
    <3> QED BY <1>6, <2>1, <3>1, <3>2 DEF i
  <2>2. CASE u # t
    <3>1. u \in live \cap sent BY <2>2
    <3>2. Slot(u, n) \in DOMAIN m /\ m[Slot(u, n)] = Here(u) /\ Slot(u, n) # i BY <1>2, <3>1
    <3>3. Slot(u, n) \in DOMAIN slots' /\ slots'[Slot(u, n)] = Here(u)
      <4> HIDE DEF i
      <4> QED BY <1>1, <3>2 DEF Put
    <3>4. Right(Here(u), u, result[u], IF u \in todo THEN sweep - 1 ELSE sweep)
      BY <3>1 DEF MapInv, KnownInv
    <3> QED BY <2>2, <3>3, <3>4
  <2> QED BY <2>1, <2>2
<1> QED BY <1>7, <1>8, <1>9 DEF MapInv

(* A step that writes thread t's slot only. *)
LEMMA OneSlot ==
  ASSUME MapInv, NEW t \in sent, Here(t).tid = t, NEW e, slots' = Put(slots, Slot(t, entries), e),
         e \in Entry, e.tid = t, UNCHANGED <<live, entries, sweep, sent>>,
         ThreadsInv', Right(e, t, result'[t], IF t \in todo' THEN sweep - 1 ELSE sweep),
         \A u \in live \cap sent : u # t => result'[u] = result[u], todo' \ {t} = todo \ {t}
  PROVE  MapInv'
<1> DEFINE i == Slot(t, entries)
<1>1. WellPlaced(slots, entries, sent)'
  <2>1. WellPlaced(Put(slots, i, e), entries, sent) BY PutPlaced DEF MapInv
  <2> QED BY <2>1 DEF WellPlaced, Slot
<1>2. KnownInv'
  <2> SUFFICES ASSUME NEW u \in live \cap sent
               PROVE  /\ Slot(u, entries) \in DOMAIN slots'
                      /\ Right(slots'[Slot(u, entries)], u, result'[u],
                               IF u \in todo' THEN sweep - 1 ELSE sweep)
    BY KnownNext
  <2>1. CASE u = t
    <3> HIDE DEF i
    <3>1. slots' = Put(slots, i, e) BY DEF i
    <3>2. i \in DOMAIN slots' /\ slots'[i] = e BY <3>1 DEF Put
    <3> QED BY <2>1, <3>2 DEF i
  <2>2. CASE u # t
    <3>1. /\ Slot(u, entries) \in DOMAIN slots /\ Here(u).tid = u
          /\ Right(Here(u), u, result[u], IF u \in todo THEN sweep - 1 ELSE sweep)
      BY DEF MapInv, KnownInv, Right
    <3>2. Here(u) = slots[Slot(u, entries)] BY <3>1 DEF Here, SlotOf
    <3>3. Slot(u, entries) # i
      <4> SUFFICES ASSUME Slot(u, entries) = i PROVE FALSE OBVIOUS
      <4>1. Here(u) = Here(t) BY DEF Here
      <4> QED BY <2>2, <3>1, <4>1
    <3> HIDE DEF i
    <3>4. slots' = Put(slots, i, e) BY DEF i
    <3>5. Slot(u, entries) \in DOMAIN slots' /\ slots'[Slot(u, entries)] = Here(u)
      BY <3>1, <3>2, <3>3, <3>4 DEF Put
    <3>6. result'[u] = result[u] BY <2>2
    <3>7. u \in todo' <=> u \in todo BY <2>2
    <3> QED BY <3>1, <3>5, <3>6, <3>7
  <2> QED BY <2>1, <2>2
<1> QED BY <1>1, <1>2 DEF MapInv

LEMMA RevisitInv ==
  ASSUME MapInv, NEW t \in Tids, Revisit(t) PROVE MapInv'
<1> DEFINE e == Listed(Here(t))
<1>1. /\ t \in todo /\ Here(t).tid = t /\ slots' = Put(slots, Slot(t, entries), e)
      /\ todo' = todo \ {t} /\ UNCHANGED <<live, entries, sweep, sent>> /\ result' = result
  BY DEF Revisit
<1>2. t \in live /\ sweep \in Nat BY <1>1 DEF MapInv, ThreadsInv
<1>3. Slot(t, entries) \in DOMAIN slots /\ Here(t) = slots[Slot(t, entries)]
  BY <1>1, TidsAssumption DEF Here, SlotOf, BlankSlot
<1>4. Here(t) \in Entry /\ t \in sent BY <1>1, <1>3 DEF MapInv, WellPlaced
<1>5. /\ e \in Entry /\ e.tid = t /\ e.sweep = sweep
      /\ e.pending = Here(t).pending /\ e.retval = Here(t).retval
  BY <1>1, <1>2, <1>4 DEF Listed, Entry
<1>6. Right(Here(t), t, result[t], sweep - 1)
  BY <1>1, <1>2, <1>4 DEF MapInv, KnownInv
<1> HIDE DEF e
<1>7. Right(e, t, result[t], sweep) BY <1>2, <1>5, <1>6 DEF Right
<1>8. ThreadsInv' BY <1>1 DEF MapInv, ThreadsInv
<1>9. Right(e, t, result'[t], IF t \in todo' THEN sweep - 1 ELSE sweep) BY <1>1, <1>7
<1>10. \A u \in live \cap sent : u # t => result'[u] = result[u] BY <1>1
<1>11. todo' \ {t} = todo \ {t} BY <1>1
<1> QED BY <1>1, <1>4, <1>5, <1>8, <1>9, <1>10, <1>11, OneSlot

LEMMA AnswerInv ==
  ASSUME MapInv, NEW t \in Tids, Answer(t) PROVE MapInv'
<1>1. PICK r \in Results :
        /\ result' = [result EXCEPT ![t] = r]
        /\ slots' = Put(slots, Slot(t, entries), [Here(t) EXCEPT !.retval = r, !.pending = FALSE])
  BY DEF Answer
<1> DEFINE e == [Here(t) EXCEPT !.retval = r, !.pending = FALSE]
<1>2. t \in live /\ t \in sent /\ UNCHANGED <<live, entries, sweep, todo, sent>>
  BY DEF Answer
<1>3. Slot(t, entries) \in DOMAIN slots /\ Here(t) = slots[Slot(t, entries)]
  BY <1>2 DEF MapInv, KnownInv, Here, SlotOf
<1>4. Here(t) \in Entry BY <1>3 DEF MapInv, WellPlaced
<1>5. Right(Here(t), t, result[t], IF t \in todo THEN sweep - 1 ELSE sweep)
  BY <1>2 DEF MapInv, KnownInv
<1>6. /\ e \in Entry /\ e.tid = Here(t).tid /\ e.sweep = Here(t).sweep
      /\ e.pending = FALSE /\ e.retval = r
  BY <1>4 DEF Entry
<1>7. slots' = Put(slots, Slot(t, entries), e) BY <1>1
<1> HIDE DEF e
<1>8. Here(t).tid = t /\ e.tid = t BY <1>5, <1>6 DEF Right
<1>9. ThreadsInv' BY <1>1, <1>2 DEF MapInv, ThreadsInv
<1>10. result'[t] = r /\ r # 0 BY <1>1, TidsAssumption DEF MapInv, ThreadsInv
<1>11. Right(e, t, result'[t], IF t \in todo' THEN sweep - 1 ELSE sweep)
  BY <1>2, <1>5, <1>6, <1>10 DEF Right
<1>12. \A u \in live \cap sent : u # t => result'[u] = result[u]
  BY <1>1, <1>2 DEF MapInv, ThreadsInv
<1>13. todo' \ {t} = todo \ {t} BY <1>2
<1> QED BY <1>2, <1>6, <1>7, <1>8, <1>9, <1>11, <1>12, <1>13, OneSlot

LEMMA OtherInv ==
  ASSUME MapInv, (\E t \in Tids : Start(t) \/ End(t)) \/ NextSweep \/ UNCHANGED mapVars
  PROVE  MapInv'
<1>1. UNCHANGED <<entries, slots, sent, result>>
  BY DEF Start, End, NextSweep, mapVars
<1>2. WellPlaced(slots, entries, sent)' BY <1>1 DEF MapInv, WellPlaced, Slot
<1>3. ThreadsInv' BY DEF MapInv, ThreadsInv, Start, End, NextSweep, mapVars
<1>4. ASSUME NEW u \in live' \cap sent'
      PROVE  /\ Slot(u, entries') \in DOMAIN slots'
             /\ Right(slots'[Slot(u, entries')], u, result'[u],
                      IF u \in todo' THEN sweep' - 1 ELSE sweep')
  <2>1. u \in live /\ u \in sent BY DEF Start, End, NextSweep, mapVars
  <2>2. /\ Slot(u, entries) \in DOMAIN slots
        /\ Right(Here(u), u, result[u], IF u \in todo THEN sweep - 1 ELSE sweep)
    BY <2>1 DEF MapInv, KnownInv
  <2>3. Here(u) = slots[Slot(u, entries)] BY <2>2 DEF Here, SlotOf
  <2>4. Here(u) \in Entry /\ sweep \in Nat BY <2>2, <2>3 DEF MapInv, WellPlaced, ThreadsInv
  <2>5. (IF u \in todo' THEN sweep' - 1 ELSE sweep') = IF u \in todo THEN sweep - 1 ELSE sweep
    BY <2>1, <2>4 DEF Start, End, NextSweep, mapVars
  <2> QED BY <1>1, <2>2, <2>3, <2>5
<1>5. KnownInv' BY <1>4, KnownNext
<1> QED BY <1>2, <1>3, <1>5 DEF MapInv

(* The thread reference map of __psx_syscall (psx.c) is exact, however     *)
(* thread ids collide and whenever the table grows: no answer is lost or   *)
(* made up, no two threads share a slot, and none is sent the signal       *)
(* twice; for all threads, sizes and hash values and any number of sweeps. *)
THEOREM MapIsExact == MapSpec => []MapExact
<1>1. MapInv /\ [MapNext]_mapVars => MapInv'
  BY VisitInv, RevisitInv, AnswerInv, OtherInv DEF MapNext
<1>2. MapInv => MapExact BY DEF MapInv, KnownInv, Right, MapExact
<1> QED BY <1>1, <1>2, MapInitInv, PTL DEF MapSpec
=============================================================================
