------------------------ MODULE ParkHandshakeProofs ------------------------
(***************************************************************************)
(* Safety of the park handshake for any number of waits, of threads and    *)
(* whatever faults happen.                                                 *)
(***************************************************************************)
EXTENDS ParkHandshake, TLAPS

\* The inductive invariant: who may hold which flag where.
\*   - the parked flag is up only between jvm_task's store and its release;
\*   - from the end of the drain to the next run no thread of an app is left;
\*   - pdb_task's request stands from the command to its cancellation;
\*   - it flashes only under the parked flag;
\*   - and the stop that ended an app stands until the loop comes round to it.
FlagsOK ==
    /\ CORE0_PARKED => jpc \in {"notify", "parked"}
    /\ jpc \in {"check", "idle", "park", "notify", "parked", "clear"} => children = 0
    /\ ppc # "command" => FLASH_PARK_REQUESTED
    /\ Flashing => CORE0_PARKED
    /\ jpc \notin {"clear", "run"} /\ stopped /\ image # "none" => STOP_JVM

ParkInv == TypeOK /\ FlagsOK /\ WakePending

LEMMA InitInv == Init => ParkInv
<1> SUFFICES ASSUME Init PROVE ParkInv
  OBVIOUS
<1>1. BooleansOK
  BY DEF Init, BooleansOK
<1>2. CountsOK
  BY RoundsAssumption DEF Init, CountsOK
<1>3. PlacesOK
  BY DEF Init, PlacesOK, Images
<1>4. FlagsOK /\ WakePending
  BY DEF Init, FlagsOK, WakePending, Flashing
<1> QED BY <1>1, <1>2, <1>3, <1>4 DEF ParkInv, TypeOK

LEMMA StepInv == ParkInv /\ [Next]_vars => ParkInv'
<1> SUFFICES ASSUME BooleansOK, CountsOK, PlacesOK, FlagsOK, WakePending, [Next]_vars
             PROVE  ParkInv'
  BY DEF ParkInv, TypeOK
<1> USE RoundsAssumption
    DEF ParkInv, TypeOK, BooleansOK, CountsOK, PlacesOK, FlagsOK, WakePending, Flashing,
        Images, flags, jvm, pdb
<1>1. CASE ClearStop
  BY <1>1 DEF ClearStop, Goto
<1>2. CASE AppEnds
  BY <1>2 DEF AppEnds
<1>3. CASE StartChild
  BY <1>3 DEF StartChild
<1>4. CASE EndChild
  BY <1>4 DEF EndChild
<1>5. CASE StopChildren
  BY <1>5 DEF StopChildren, Goto
<1>6. CASE Drain
  <2>1. BooleansOK'
    BY <1>6 DEF Drain, WaitUntil, Goto
  <2>2. CountsOK'
    BY <1>6 DEF Drain, WaitUntil, Goto
  <2>3. PlacesOK'
    BY <1>6 DEF Drain, WaitUntil, Goto
  <2>4. FlagsOK'
    BY <1>6 DEF Drain, WaitUntil, Goto
  <2>5. WakePending'
    BY <1>6 DEF Drain, WaitUntil, Goto
  <2> QED BY <2>1, <2>2, <2>3, <2>4, <2>5
<1>7. CASE CheckRequest
  BY <1>7 DEF CheckRequest, Goto
<1>8. CASE AwaitRequest
  <2>1. BooleansOK'
    BY <1>8 DEF AwaitRequest, WaitUntil, Goto
  <2>2. CountsOK'
    BY <1>8 DEF AwaitRequest, WaitUntil, Goto
  <2>3. PlacesOK'
    BY <1>8 DEF AwaitRequest, WaitUntil, Goto
  <2>4. FlagsOK'
    BY <1>8 DEF AwaitRequest, WaitUntil, Goto
  <2>5. WakePending'
    BY <1>8 DEF AwaitRequest, WaitUntil, Goto
  <2> QED BY <2>1, <2>2, <2>3, <2>4, <2>5
<1>9. CASE Park
  BY <1>9 DEF Park, Goto
<1>10. CASE NotifyPdb
  BY <1>10 DEF NotifyPdb, Goto
<1>11. CASE StayParked
  <2>1. BooleansOK'
    BY <1>11 DEF StayParked, WaitUntil, Goto
  <2>2. CountsOK'
    BY <1>11 DEF StayParked, WaitUntil, Goto
  <2>3. PlacesOK'
    BY <1>11 DEF StayParked, WaitUntil, Goto
  <2>4. FlagsOK'
    BY <1>11 DEF StayParked, WaitUntil, Goto
  <2>5. WakePending'
    BY <1>11 DEF StayParked, WaitUntil, Goto
  <2> QED BY <2>1, <2>2, <2>3, <2>4, <2>5
<1>12. CASE Spurious
  BY <1>12 DEF Spurious
<1>13. CASE RequestStopAndPark
  <2>1. BooleansOK'
    BY <1>13 DEF RequestStopAndPark
  <2>2. CountsOK'
    BY <1>13 DEF RequestStopAndPark
  <2>3. PlacesOK'
    BY <1>13 DEF RequestStopAndPark
  <2>4. FlagsOK'
    BY <1>13 DEF RequestStopAndPark
  <2>5. WakePending'
    BY <1>13 DEF RequestStopAndPark
  <2> QED BY <2>1, <2>2, <2>3, <2>4, <2>5
<1>14. CASE WaitForPark
  <2>1. BooleansOK'
    BY <1>14 DEF WaitForPark
  <2>2. CountsOK'
    BY <1>14 DEF WaitForPark
  <2>3. PlacesOK'
    BY <1>14 DEF WaitForPark
  <2>4. FlagsOK'
    BY <1>14 DEF WaitForPark
  <2>5. WakePending'
    BY <1>14 DEF WaitForPark
  <2> QED BY <2>1, <2>2, <2>3, <2>4, <2>5
<1>15. CASE Peek
  BY <1>15 DEF Peek
<1>16. CASE CheckImage
  BY <1>16 DEF CheckImage
<1>17. CASE Refuse
  BY <1>17 DEF Refuse, Release
<1>18. CASE StreamFails
  <2>1. BooleansOK'
    BY <1>18 DEF StreamFails, Release
  <2>2. CountsOK'
    BY <1>18 DEF StreamFails, Release
  <2>3. PlacesOK'
    BY <1>18 DEF StreamFails, Release
  <2>4. FlagsOK'
    BY <1>18 DEF StreamFails, Release
  <2>5. WakePending'
    BY <1>18 DEF StreamFails, Release
  <2> QED BY <2>1, <2>2, <2>3, <2>4, <2>5
<1>19. CASE CancelParkRequest
  <2>1. BooleansOK'
    BY <1>19 DEF CancelParkRequest
  <2>2. CountsOK'
    BY <1>19 DEF CancelParkRequest
  <2>3. PlacesOK'
    BY <1>19 DEF CancelParkRequest
  <2>4. FlagsOK'
    BY <1>19 DEF CancelParkRequest
  <2>5. WakePending'
    BY <1>19 DEF CancelParkRequest
  <2> QED BY <2>1, <2>2, <2>3, <2>4, <2>5
<1>20. CASE Reset
  <2>1. BooleansOK'
    BY <1>20 DEF Reset
  <2>2. CountsOK'
    BY <1>20 DEF Reset
  <2>3. PlacesOK'
    BY <1>20 DEF Reset
  <2>4. FlagsOK'
    BY <1>20 DEF Reset
  <2>5. WakePending'
    BY <1>20 DEF Reset
  <2> QED BY <2>1, <2>2, <2>3, <2>4, <2>5
<1>21. CASE UNCHANGED vars
  BY <1>21 DEF vars
<1> QED
  BY <1>1, <1>2, <1>3, <1>4, <1>5, <1>6, <1>7, <1>8, <1>9, <1>10, <1>11, <1>12, <1>13,
     <1>14, <1>15, <1>16, <1>17, <1>18, <1>19, <1>20, <1>21
  DEF Next, JvmStep, PdbStep

\* The flags and the places of the two tasks agree at every instant, through
\* every timeout, refusal, failed stream and reset.
THEOREM ParkInvariance == Spec => []ParkInv
BY InitInv, StepInv, PTL DEF Spec

\* wait_for_park never lasts past its rounds, and jvm_task sleeps only in its
\* three loops.
THEOREM ParkTypeCorrect == Spec => []TypeOK
<1>1. ParkInv => TypeOK
  BY DEF ParkInv
<1> QED BY <1>1, ParkInvariance, PTL

\* Once wait_for_park has returned true, pdb_task erases and programs flash
\* only with jvm_task out of the app and every thread of the app ended.
THEOREM FlashUnderPark == Spec => []FlashParked
<1>1. ParkInv => FlashParked
  BY DEF ParkInv, FlagsOK, FlashParked, Flashing
<1> QED BY <1>1, ParkInvariance, PTL

\* With the stop still raised for the app that resumes after it, and every
\* flag and place of the two tasks in its type.
THEOREM FlashIsQuiet == Spec => []FlashQuiet
<1>1. ParkInv => FlashQuiet
  BY DEF ParkInv, FlagsOK, FlashParked, FlashStopped, FlashQuiet, Flashing
<1> QED BY <1>1, ParkInvariance, PTL

\* jvm_task never sleeps through the end of the last thread, the request to
\* park or its release, whatever stray notifications it has consumed.
THEOREM NoMissedWake == Spec => []WakePending
<1>1. ParkInv => WakePending
  BY DEF ParkInv
<1> QED BY <1>1, ParkInvariance, PTL
=============================================================================
