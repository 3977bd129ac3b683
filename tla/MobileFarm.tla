----------------------------- MODULE MobileFarm -----------------------------
(***************************************************************************)
(* The mobile module: the devices and reservations of                      *)
(* DeviceManagementService, and the executions of MobileExecutionService,  *)
(* each a promise nobody waits for that opens an Appium session on one     *)
(* device after the other.  Executions do not ask for reservations.        *)
(* Everything is in memory; a device is known by its id, which is a new    *)
(* one at each registration, and that of Appium's session for a device     *)
(* that was discovered: that one may be in the map again after a refresh.  *)
(***************************************************************************)
EXTENDS Naturals, Sequences, FiniteSets

CONSTANTS
  Devices,       \* device ids
  FarmUsers,     \* users who reserve
  Bookings,      \* reservation ids
  FarmExecs,     \* execution ids
  MaxDevices,    \* bound: deviceIds of an execution
  MaxFarmSets,   \* bound: calls of updateDeviceStatus and updateDevice
  MaxRefreshes,  \* bound: calls of refreshDevices
  MaxFarmFaults  \* bound: calls of Appium or of the database that fail

Nobody == "nobody"

ASSUME FarmAssumption ==
  /\ MaxDevices \in Nat /\ MaxFarmSets \in Nat /\ MaxRefreshes \in Nat
  /\ MaxFarmFaults \in Nat
  /\ Nobody \notin Devices \cup FarmUsers

VARIABLES
  farmDevices,   \* DeviceManagementService.devices
  farmBookings,  \* DeviceManagementService.reservations
  farmExecs,     \* MobileExecutionService.executions, and where each promise is
  farmRefreshes, \* calls of refreshDevices
  farmAsked,     \* calls of discoverAppiumDevices whose fetch has no answer yet
  farmSets,
  farmFaults

farmAsks == <<farmRefreshes, farmAsked>>
farmVars == <<farmDevices, farmBookings, farmExecs, farmAsks, farmSets, farmFaults>>

-----------------------------------------------------------------------------
DeviceStatus == {"available", "busy", "offline", "maintenance"}
Holders == FarmUsers \cup {Nobody}

\* An id nobody has had yet is unknown, and one that is not in the map any more is gone.
\* from: where the device came from, and so whether its id can come back.
Device == [status : DeviceStatus \cup {"unknown", "gone"}, by : Holders,
           from : {"nowhere", "register", "appium"}]
NoDevice   == [status |-> "unknown", by |-> Nobody, from |-> "nowhere"]
Free(from) == [status |-> "available", by |-> Nobody, from |-> from]
Without(device) == [device EXCEPT !.status = "gone", !.by = Nobody]

\* reset: since the reservation was made its device was discovered again, or was set by hand.
\* (The code keeps no such note: it is here to say what a reservation is worth.)
Booking   == [device : Devices \cup {Nobody}, user : Holders, reset : BOOLEAN]
NoBooking == [device |-> Nobody, user |-> Nobody, reset |-> FALSE]

DeviceLists == UNION {[1..n -> Devices] : n \in 0..MaxDevices}

\* results: one for each device whose turn has come; a device nobody knows is skipped.
FarmExec ==
  [pc : {"new", "fetching", "next", "opening", "testing", "closing", "done", "dead"},
   status : {"none", "running", "completed", "failed", "cancelled"},
   list : DeviceLists, results : UNION {[1..n -> {"passed", "failed", "skipped"}] :
                                          n \in 0..MaxDevices},
   failing : BOOLEAN, session : BOOLEAN]
NoFarmExec == [pc |-> "new", status |-> "none", list |-> <<>>, results |-> <<>>,
               failing |-> FALSE, session |-> FALSE]

FarmInit ==
  /\ farmDevices = [d \in Devices |-> NoDevice]
  /\ farmBookings = [b \in Bookings |-> NoBooking]
  /\ farmExecs = [e \in FarmExecs |-> NoFarmExec]
  /\ farmRefreshes = 0 /\ farmAsked = 1   \* the constructor asks Appium
  /\ farmSets = 0 /\ farmFaults = 0

-----------------------------------------------------------------------------
(* DeviceManagementService; every operation but the discovery runs without *)
(* an await.                                                               *)

Present(d) == farmDevices[d].status \in DeviceStatus

\* The reservations of the devices S, when these are given other states under them.
Reset(S) == [b \in Bookings |->
  IF farmBookings[b].device \in S THEN [farmBookings[b] EXCEPT !.reset = TRUE]
  ELSE farmBookings[b]]

\* Under a new id each time.
RegisterDevice(d) ==
  /\ farmDevices[d] = NoDevice
  /\ farmDevices' = [farmDevices EXCEPT ![d] = Free("register")]
  /\ UNCHANGED <<farmBookings, farmExecs, farmAsks, farmSets, farmFaults>>

\* reservations.delete(deviceId) names no reservation: its keys are reservation ids.
UnregisterDevice(d) ==
  /\ Present(d)
  /\ farmDevices' = [farmDevices EXCEPT ![d] = Without(@)]
  /\ UNCHANGED <<farmBookings, farmExecs, farmAsks, farmSets, farmFaults>>

\* refreshDevices up to the fetch: the map is cleared, the reservations stay.
RefreshDevices ==
  /\ farmRefreshes < MaxRefreshes /\ farmRefreshes' = farmRefreshes + 1
  /\ farmAsked' = farmAsked + 1
  /\ farmDevices' = [d \in Devices |->
       IF Present(d) THEN Without(farmDevices[d]) ELSE farmDevices[d]]
  /\ UNCHANGED <<farmBookings, farmExecs, farmSets, farmFaults>>

\* An answer of the fetch, of whichever call: each session Appium lists is set under its id,
\* available and nobody's, over the device that may be there.  Nothing is set when the
\* answer is not ok, has no list, or does not come (the error is caught).
DiscoverDevices(S) ==
  /\ farmAsked > 0 /\ farmAsked' = farmAsked - 1
  /\ \A d \in S : farmDevices[d].from # "register"
  /\ farmDevices' = [d \in Devices |-> IF d \in S THEN Free("appium") ELSE farmDevices[d]]
  /\ farmBookings' = Reset(S)
  /\ UNCHANGED <<farmRefreshes, farmExecs, farmSets, farmFaults>>

ReserveDevice(d, u, b) ==
  /\ farmDevices[d].status = "available"
  /\ farmBookings[b] = NoBooking
  /\ farmDevices' = [farmDevices EXCEPT ![d] = [@ EXCEPT !.status = "busy", !.by = u]]
  /\ farmBookings' = [farmBookings EXCEPT ![b] = [device |-> d, user |-> u, reset |-> FALSE]]
  /\ UNCHANGED <<farmExecs, farmAsks, farmSets, farmFaults>>

\* Mutant: the reservations stay.
ReleaseDeviceOnly(d) ==
  /\ Present(d)
  /\ farmDevices' = [farmDevices EXCEPT ![d] = Free(@.from)]
  /\ UNCHANGED <<farmBookings, farmExecs, farmAsks, farmSets, farmFaults>>

\* By anyone; all the device's reservations go.
ReleaseDevice(d) ==
  /\ Present(d)
  /\ farmDevices' = [farmDevices EXCEPT ![d] = Free(@.from)]
  /\ farmBookings' = [b \in Bookings |->
       IF farmBookings[b].device = d THEN NoBooking ELSE farmBookings[b]]
  /\ UNCHANGED <<farmExecs, farmAsks, farmSets, farmFaults>>

\* A status, or a status and a holder, that somebody gives; the reservations stay.
SetByHand(d, s, u) ==
  /\ Present(d)
  /\ farmSets < MaxFarmSets /\ farmSets' = farmSets + 1
  /\ farmDevices' = [farmDevices EXCEPT ![d] = [@ EXCEPT !.status = s, !.by = u]]
  /\ farmBookings' = Reset({d})
  /\ UNCHANGED <<farmExecs, farmAsks, farmFaults>>

\* updateDeviceStatus: the status alone.
UpdateDeviceStatus(d, s) == SetByHand(d, s, farmDevices[d].by)

\* updateDevice: any of the fields, the holder with them.
UpdateDevice(d, s, u) == SetByHand(d, s, u)

-----------------------------------------------------------------------------
(* MobileExecutionService.                                                 *)

FarmGoto(e, pc) == farmExecs' = [farmExecs EXCEPT ![e].pc = pc]
FarmSame == UNCHANGED <<farmDevices, farmBookings, farmAsks, farmSets>>

\* startExecution, and runExecutionAsync up to its first await.
StartFarm(e, list) ==
  /\ farmExecs[e].pc = "new"
  /\ farmExecs' = [farmExecs EXCEPT ![e] =
       [@ EXCEPT !.pc = "fetching", !.status = "running", !.list = list]]
  /\ FarmSame /\ UNCHANGED farmFaults

\* fetchTestSuite
Fetch(e) ==
  /\ farmExecs[e].pc = "fetching"
  /\ FarmGoto(e, "next")
  /\ FarmSame /\ UNCHANGED farmFaults

More(e)  == Len(farmExecs[e].results) < Len(farmExecs[e].list)
Turn(e)  == farmExecs[e].list[Len(farmExecs[e].results) + 1]
Enter(e, r) == Append(farmExecs[e].results, r)

\* getDeviceById: a device that is not there is passed over; its status is not asked.
NextDevice(e) ==
  /\ farmExecs[e].pc = "next" /\ More(e)
  /\ farmExecs' = [farmExecs EXCEPT ![e] =
       IF Present(Turn(e)) THEN [@ EXCEPT !.pc = "opening"]
       ELSE [@ EXCEPT !.results = Enter(e, "skipped")]]
  /\ FarmSame /\ UNCHANGED farmFaults

OpenSession(e) ==
  /\ farmExecs[e].pc = "opening"
  /\ farmExecs' = [farmExecs EXCEPT ![e] = [@ EXCEPT !.pc = "testing", !.session = TRUE]]
  /\ FarmSame /\ UNCHANGED farmFaults

\* The suite's tests: one that fails makes the device's result a failure.
RunSuite(e) ==
  /\ farmExecs[e].pc = "testing"
  /\ \E f \in BOOLEAN :
       farmExecs' = [farmExecs EXCEPT ![e] = [@ EXCEPT !.pc = "closing", !.failing = f]]
  /\ FarmSame /\ UNCHANGED farmFaults

\* Mutant: the session is ended where the tests have passed.
CloseIfPassed(e) ==
  /\ farmExecs[e].pc = "closing"
  /\ farmExecs' = [farmExecs EXCEPT ![e] =
       [@ EXCEPT !.pc = "next", !.session = farmExecs[e].failing,
                 !.results = Enter(e, IF farmExecs[e].failing THEN "failed" ELSE "passed")]]
  /\ FarmSame /\ UNCHANGED farmFaults

\* The last screenshot, endSession, and the result.
CloseSession(e) ==
  /\ farmExecs[e].pc = "closing"
  /\ farmExecs' = [farmExecs EXCEPT ![e] =
       [@ EXCEPT !.pc = "next", !.session = FALSE,
                 !.results = Enter(e, IF farmExecs[e].failing THEN "failed" ELSE "passed")]]
  /\ FarmSame /\ UNCHANGED farmFaults

Outcomes(e) == {farmExecs[e].results[i] : i \in DOMAIN farmExecs[e].results}

\* The verdict, over a cancel as well.
FinishFarm(e) ==
  /\ farmExecs[e].pc = "next" /\ ~More(e)
  /\ farmExecs' = [farmExecs EXCEPT ![e] =
       [@ EXCEPT !.pc = "done",
                 !.status = IF "failed" \in Outcomes(e) THEN "failed" ELSE "completed"]]
  /\ FarmSame /\ UNCHANGED farmFaults

\* The query, a session's creation, a screenshot or the session's end fails: the promise
\* is rejected, nobody hears of it, and a session that is open stays open.
FarmThrows(e) ==
  /\ farmExecs[e].pc \in {"fetching", "opening", "testing", "closing"}
  /\ farmFaults < MaxFarmFaults /\ farmFaults' = farmFaults + 1
  /\ FarmGoto(e, "dead")
  /\ FarmSame

\* cancelExecution: the status; no route leads to it, and the run goes on.
CancelFarm(e) ==
  /\ farmExecs[e].status \notin {"none", "cancelled"}
  /\ farmExecs' = [farmExecs EXCEPT ![e].status = "cancelled"]
  /\ FarmSame /\ UNCHANGED farmFaults

-----------------------------------------------------------------------------
FarmStep(e) ==
  \/ Fetch(e) \/ NextDevice(e) \/ OpenSession(e) \/ RunSuite(e) \/ CloseSession(e)
  \/ FinishFarm(e)

FarmNext ==
  \/ \E d \in Devices :
       \/ RegisterDevice(d) \/ UnregisterDevice(d) \/ ReleaseDevice(d)
       \/ \E u \in FarmUsers, b \in Bookings : ReserveDevice(d, u, b)
       \/ \E s \in DeviceStatus :
            \/ UpdateDeviceStatus(d, s)
            \/ \E u \in Holders : UpdateDevice(d, s, u)
  \/ RefreshDevices
  \/ \E S \in SUBSET Devices : DiscoverDevices(S)
  \/ \E e \in FarmExecs :
       \/ \E list \in DeviceLists : StartFarm(e, list)
       \/ FarmStep(e) \/ FarmThrows(e) \/ CancelFarm(e)

FarmSpec == FarmInit /\ [][FarmNext]_farmVars

\* Promises go on, and Appium answers: its client's calls have timeouts.
FarmFair == \A e \in FarmExecs : WF_farmVars(FarmStep(e))

-----------------------------------------------------------------------------
(* Properties.                                                             *)

FarmTypeOK ==
  /\ farmDevices \in [Devices -> Device]
  /\ farmBookings \in [Bookings -> Booking]
  /\ farmExecs \in [FarmExecs -> FarmExec]
  /\ farmRefreshes \in 0..MaxRefreshes /\ farmAsked \in 0..(MaxRefreshes + 1)
  /\ farmSets \in 0..MaxFarmSets /\ farmFaults \in 0..MaxFarmFaults

Booked(b) == farmBookings[b] # NoBooking
Held(b)   == Booked(b) /\ ~farmBookings[b].reset

\* A reservation whose device was not discovered again and not set by hand is held: the
\* device is busy for its user, or is out of the map (unregisterDevice and refreshDevices
\* leave the reservations, device-management.service.ts:149 and 80).
BookingsAreHeld ==
  \A b \in Bookings : Held(b) =>
    LET device == farmDevices[farmBookings[b].device] IN
    \/ device.status = "busy" /\ device.by = farmBookings[b].user
    \/ device.status = "gone"

\* No two of them are of one device: of a device's reservations all but the last were made
\* before a discovery (device-management.service.ts:53 sets a reserved device to available)
\* or a change by hand gave it away under them.
OneHolder ==
  \A a, b \in Bookings :
    a # b /\ Held(a) /\ Held(b) => farmBookings[a].device # farmBookings[b].device

\* A reservation gives its device to its user, and to one user at a time, until the device
\* is released, or discovered again or set by hand while the reservation stays.
ReservationsHold == BookingsAreHeld /\ OneHolder

\* A session is open while its device is being tested; afterwards only a failed call
\* leaves it open.
SessionsAreClosed ==
  \A e \in FarmExecs : farmExecs[e].session =>
    \/ farmExecs[e].pc \in {"testing", "closing"}
    \/ farmExecs[e].pc = "dead" /\ farmFaults > 0

\* An execution that has ended has a result, or a device it did not find, for each of its
\* devices, and says completed when none failed: with no device found, too.
VerdictOfAll ==
  \A e \in FarmExecs : farmExecs[e].pc = "done" /\ farmExecs[e].status # "cancelled" =>
    /\ Len(farmExecs[e].results) = Len(farmExecs[e].list)
    /\ farmExecs[e].status = "failed" <=> "failed" \in Outcomes(e)

\* An execution leaves no session behind, and its verdict is about all its devices.
FarmRunsSound == SessionsAreClosed /\ VerdictOfAll

\* An execution that was started ends, cancelled or not, unless a call fails on the way:
\* then it is running for ever (mobile-execution.service.ts:120).
FarmEnds ==
  \A e \in FarmExecs : farmExecs[e].pc = "fetching" ~> farmExecs[e].pc \in {"done", "dead"}
=============================================================================
