--------------------------- MODULE EndpointProofs ---------------------------
(***************************************************************************)
(* Proofs about the two ends of the system: the desktop client's runtime   *)
(* (DesktopRuntime) and the registration of an agent's host                *)
(* (Registration), for every value of the constants.                       *)
(***************************************************************************)
EXTENDS DesktopRuntime, Registration, TLAPS

-----------------------------------------------------------------------------
(* The desktop runtime.                                                    *)

(* The bounds are counted in naturals. *)
UsedTyped == used \in [logins : Nat, connects : Nat, stops : Nat, faults : Nat]

(* The connect worker holds the mutex across exactly these steps, and from *)
(* the lease on it has one.                                                *)
WorkerHolds ==
    /\ locked <=> flow.pc \in {"replacing", "launching", "proxied"}
    /\ flow.pc \in {"queued", "replacing", "preparing", "launching", "proxied", "cleanup"}
         => flow.lease \in Nat

(* While it launches, the runtime state is the worker's own attempt. *)
AttemptIsMine ==
    flow.pc \in {"launching", "proxied"} =>
        runtime.status = "connecting" /\ runtime.child /\ runtime.lease = flow.lease

(* A completed shutdown is not ahead of the generation that cancels starts. *)
StoppedBefore == stoppedAt <= generation

(* Without a failed stop: what is there of kernel and proxy at each step of *)
(* a start.  A failed attempt that still owns them takes them back; one    *)
(* that a status read has called connected is left as it is.               *)
NothingLeaks ==
    used.faults = 0 =>
      /\ flow.pc \in {"replacing", "preparing"} => ~runtime.child /\ ~runtime.proxy
      /\ flow.pc = "proxied" => runtime.proxy
      /\ flow.pc = "cleanup" /\ (runtime.child \/ runtime.proxy) =>
           \/ runtime.lease = flow.lease /\ runtime.status # "connected"
           \/ runtime.status = "connected" /\ runtime.child /\ (runtime.proxy \/ runtime.polled)
      /\ flow.pc \notin {"launching", "proxied", "cleanup"} /\ (runtime.child \/ runtime.proxy) =>
           runtime.status = "connected" /\ runtime.child /\ (runtime.proxy \/ runtime.polled)
      /\ runtime.proxy => runtime.child

(* A start has stopped a stray kernel before it goes on. *)
StrayReplaced == StrayIsAlone /\ (flow.pc = "replacing" => ~runtime.stray)

DesktopInv ==
    /\ DesktopTypeOK /\ UsedTyped /\ WorkerHolds /\ AttemptIsMine
    /\ StoppedBefore /\ StopWins /\ NothingLeaks /\ StrayReplaced
    /\ ExitLeavesNothing

FlowRecords == [pc : FlowStates, login : Nat, lease : Nat \cup {NoLease}, captured : Nat]
RuntimeRecords == [status : {"idle", "starting", "connecting", "connected", "error"},
                   lease : Nat \cup {NoLease}, child : BOOLEAN, stray : BOOLEAN,
                   proxy : BOOLEAN, captured : Nat, polled : BOOLEAN]

(* The state a shutdown leaves is typed. *)
LEMMA NoRuntimeTyped ==
  NoRuntime \in RuntimeRecords /\ [NoRuntime EXCEPT !.status = "error"] \in RuntimeRecords
  BY DEF NoRuntime, RuntimeRecords

(* The client starts signed in, with nothing running. *)
LEMMA DesktopInitInv == DesktopInit => DesktopInv
  <1> SUFFICES ASSUME DesktopInit PROVE DesktopInv
    OBVIOUS
  <1>1. flow \in FlowRecords
    BY DEF DesktopInit, FlowRecords, FlowStates
  <1>2. DesktopTypeOK
    BY <1>1, NoRuntimeTyped DEF DesktopInit, DesktopTypeOK, FlowRecords, RuntimeRecords
  <1>3. UsedTyped
    BY DEF DesktopInit, UsedTyped
  <1>4. WorkerHolds /\ AttemptIsMine /\ StoppedBefore
    BY DEF DesktopInit, WorkerHolds, AttemptIsMine, StoppedBefore
  <1>5. StopWins /\ NothingLeaks /\ StrayReplaced /\ ExitLeavesNothing
    BY DEF DesktopInit, StopWins, NothingLeaks, StrayReplaced, StrayIsAlone, ExitLeavesNothing,
       NoRuntime, Active
  <1> QED
    BY <1>2, <1>3, <1>4, <1>5 DEF DesktopInv

(* The runtime state stays typed; only native steps change it. *)
LEMMA RuntimeTypeStep ==
  ASSUME runtime \in RuntimeRecords, flow \in FlowRecords, [DesktopNext]_desktopVars
  PROVE  runtime' \in RuntimeRecords
  <1>1. CASE UNCHANGED runtime
    BY <1>1
  <1>2. CASE NativeBegin
    BY <1>2 DEF NativeBegin, RuntimeRecords
  <1>3. CASE NativeAdopt
    <2>1. CASE runtime' = [runtime EXCEPT !.status = "error", !.lease = NoLease]
      BY <2>1 DEF RuntimeRecords
    <2>2. CASE runtime' = [runtime EXCEPT !.status = "starting", !.lease = flow.lease,
                                          !.captured = flow.captured]
      BY <2>2 DEF RuntimeRecords, FlowRecords
    <2> QED
      BY <1>1, <1>3, <2>1, <2>2 DEF NativeAdopt
  <1>4. CASE NativeLaunch
    BY <1>4 DEF NativeLaunch, RuntimeRecords
  <1>5. CASE NativeProxy
    BY <1>5 DEF NativeProxy, RuntimeRecords
  <1>6. CASE NativeConnected
    BY <1>6 DEF NativeConnected, RuntimeRecords
  <1>7. CASE NativeCleanup
    <2>1. CASE runtime' = [NoRuntime EXCEPT !.status = "error"]
      BY <2>1, NoRuntimeTyped
    <2>2. CASE \E kept \in {runtime.proxy, FALSE} :
                  runtime' = [runtime EXCEPT !.status = "error", !.proxy = kept]
      BY <2>2 DEF RuntimeRecords
    <2> QED
      BY <1>1, <1>7, <2>1, <2>2 DEF NativeCleanup
  <1>8. ASSUME NEW end, Shutdown(end) PROVE runtime' \in RuntimeRecords
    <2>1. CASE runtime' = [runtime EXCEPT !.proxy = FALSE]
      BY <2>1 DEF RuntimeRecords
    <2> QED
      BY <1>1, <1>8, <2>1, NoRuntimeTyped DEF Shutdown
  <1>9. CASE RefreshChildState
    <2>1. ASSUME NEW alive \in BOOLEAN, LetGo(alive) PROVE runtime' \in RuntimeRecords
      BY <2>1 DEF LetGo, RuntimeRecords
    <2>2. CASE runtime' = [runtime EXCEPT !.status = "connected", !.polled = TRUE]
      BY <2>2 DEF RuntimeRecords
    <2> QED
      BY <1>9, <2>1, <2>2 DEF RefreshChildState
  <1> QED
    BY <1>1, <1>2, <1>3, <1>4, <1>5, <1>6, <1>7, <1>8, <1>9
    DEF DesktopNext, desktopVars, NativeStop, NativeClear, NativeExit, RequestExit, StartConnect,
        RequestLease, LeaseGranted, ConnectFailed, StopFailedConnect, ConnectDone, DisconnectCurrentRuntime,
        FinishStop, ClearSession, FinishClear, Login

(* Every step of the page and of the native side keeps the types. *)
LEMMA DesktopTypeStep ==
  ASSUME DesktopTypeOK, UsedTyped, [DesktopNext]_desktopVars
  PROVE  DesktopTypeOK' /\ UsedTyped'
  <1> DEFINE Begins == NativeBegin \/ NativeAdopt \/ NativeLaunch
             Ends == NativeProxy \/ NativeConnected \/ NativeCleanup \/ RefreshChildState
             Stops == NativeStop \/ NativeClear \/ RequestExit \/ NativeExit
             Connects == \/ StartConnect \/ RequestLease \/ LeaseGranted \/ ConnectFailed
                         \/ StopFailedConnect \/ ConnectDone
             Leaves == \/ DisconnectCurrentRuntime \/ FinishStop
                       \/ ClearSession \/ FinishClear \/ Login
  <1>0. Begins \/ Ends \/ Stops \/ Connects \/ Leaves \/ UNCHANGED desktopVars
    BY DEF DesktopNext
  <1> USE DEF desktopVars, NativeBegin, NativeAdopt, NativeLaunch, NativeProxy,
              NativeConnected, NativeCleanup, NativeStop, NativeClear, RequestExit, NativeExit,
              RefreshChildState, StartConnect, RequestLease, LeaseGranted, ConnectFailed,
              StopFailedConnect, ConnectDone, DisconnectCurrentRuntime, FinishStop,
              ClearSession, FinishClear, Login
  <1>1. UsedTyped'
    <2>1. CASE \/ UNCHANGED used \/ Spend("logins") \/ Spend("connects")
               \/ Spend("stops") \/ Spend("faults")
      BY <2>1 DEF UsedTyped, Spend
    <2>2. CASE Stops
      BY <2>1, <2>2 DEF Shutdown
    <2>3. CASE RefreshChildState
      <3>1. ASSUME NEW alive \in BOOLEAN, LetGo(alive) PROVE UNCHANGED used \/ Spend("faults")
        BY <3>1, Zenon DEF LetGo
      <3>2. UNCHANGED used \/ Spend("faults")
        BY <2>3, <3>1, Zenon
      <3> QED
        BY <2>1, <3>2
    <2>4. CASE Begins \/ Ends \/ Connects \/ Leaves \/ UNCHANGED desktopVars
      BY <2>1, <2>3, <2>4
    <2> QED
      BY <1>0, <2>2, <2>4
  <1>2. flow' \in FlowRecords
    <2>1. \/ UNCHANGED flow \/ flow' = Rest
          \/ \E at \in FlowStates : flow' = [flow EXCEPT !.pc = at]
          \/ flow' = [flow EXCEPT !.pc = "checking", !.login = loginGen]
          \/ flow' = [flow EXCEPT !.pc = "queued", !.lease = used.connects,
                                  !.captured = generation]
      BY <1>0 DEF FlowStates
    <2> QED
      BY <2>1 DEF DesktopTypeOK, UsedTyped, FlowRecords, FlowStates, Rest
  <1>3. /\ loginGen' \in Nat /\ generation' \in Nat /\ stoppedAt' \in Nat
        /\ stop' \in {"none", "sent", "ok", "failed"}
        /\ clearing' \in {"none", "stopping", "sent", "ok", "failed"}
        /\ exit' \in {"running", "cleaning", "done"}
    <2>0. CASE NativeCleanup
      BY <2>0 DEF DesktopTypeOK
    <2>a. CASE NativeBegin \/ NativeAdopt
      BY <2>a, Zenon DEF DesktopTypeOK
    <2>b. CASE NativeLaunch \/ NativeProxy \/ NativeConnected \/ RefreshChildState
      BY <2>b, Zenon DEF DesktopTypeOK
    <2>c. CASE UNCHANGED desktopVars
      BY <2>c DEF DesktopTypeOK
    <2>1. CASE Begins \/ Ends \/ UNCHANGED desktopVars
      BY <2>0, <2>1, <2>a, <2>b, <2>c, Zenon
    <2>2. CASE Stops
      BY <2>2 DEF DesktopTypeOK, Shutdown
    <2>3. CASE Connects \/ Leaves
      BY <2>3 DEF DesktopTypeOK, JoinStop
    <2> QED
      BY <1>0, <2>1, <2>2, <2>3
  <1>4. signedIn' \in BOOLEAN
    BY <1>0 DEF DesktopTypeOK
  <1>5. acting' \in BOOLEAN
    BY <1>0 DEF DesktopTypeOK
  <1>6. locked' \in BOOLEAN
    BY <1>0 DEF DesktopTypeOK
  <1>7. runtime' \in RuntimeRecords
    BY RuntimeTypeStep DEF DesktopTypeOK, RuntimeRecords, FlowRecords
  <1> QED
    BY <1>1, <1>2, <1>3, <1>4, <1>5, <1>6, <1>7 DEF DesktopTypeOK, RuntimeRecords, FlowRecords

(* A shutdown, whoever asks for it, needs the mutex: no attempt is being   *)
(* launched, and it leaves nothing behind or counts as a fault.            *)
LEMMA ShutdownKeeps ==
  ASSUME DesktopInv, NEW end, Shutdown(end), ~locked,
         UNCHANGED <<flow, locked>>,
         exit' = exit \/ (exit' = "done" /\ end = "ok") \/ exit' = "running"
  PROVE  /\ WorkerHolds' /\ AttemptIsMine' /\ StoppedBefore' /\ StopWins'
         /\ NothingLeaks' /\ StrayReplaced' /\ ExitLeavesNothing'
  <1> USE DEF DesktopInv, DesktopTypeOK, UsedTyped
  <1>1. CASE runtime' = NoRuntime /\ stoppedAt' = generation' /\ UNCHANGED used
    BY <1>1 DEF Shutdown, WorkerHolds, AttemptIsMine, StoppedBefore, StopWins, NothingLeaks, StrayReplaced, StrayIsAlone,
       ExitLeavesNothing, NoRuntime, Active
  <1>2. CASE /\ Spend("faults") /\ UNCHANGED stoppedAt /\ end = "failed"
             /\ \/ UNCHANGED runtime
                \/ runtime' = [runtime EXCEPT !.proxy = FALSE]
    <2>1. used'.faults # 0
      BY <1>2 DEF Spend
    <2>2. Active(runtime)' => Active(runtime)
      BY <1>2 DEF Active
    <2>3. runtime'.captured = runtime.captured
      BY <1>2
    <2> QED
      BY <1>2, <2>1, <2>2, <2>3
      DEF Shutdown, WorkerHolds, AttemptIsMine, StoppedBefore, StopWins, NothingLeaks, StrayReplaced, StrayIsAlone,
          ExitLeavesNothing
  <1> QED
    BY <1>1, <1>2 DEF Shutdown

(* The steps of handleConnect outside the native command. *)
PageSteps == {"idle", "checking", "requesting", "connected", "refused", "reading", "stopping"}

(* A step of the page that starts no native work: it may raise the         *)
(* generation and moves the flow only between the steps of the page.       *)
LEMMA PageKeeps ==
  ASSUME DesktopInv, UNCHANGED <<locked, runtime, stoppedAt>>,
         exit' = exit \/ exit' = "cleaning",
         generation' \in {generation, generation + 1},
         used'.faults = used.faults,
         \/ flow' = flow
         \/ /\ flow.pc \in PageSteps /\ flow'.pc \in PageSteps
  PROVE  /\ WorkerHolds' /\ AttemptIsMine' /\ StoppedBefore' /\ StopWins'
         /\ NothingLeaks' /\ StrayReplaced' /\ ExitLeavesNothing'
  BY DEF PageSteps, DesktopInv, DesktopTypeOK, WorkerHolds, AttemptIsMine, StoppedBefore, StopWins,
         NothingLeaks, StrayReplaced, StrayIsAlone, ExitLeavesNothing

(* One step of the client keeps the invariant. *)
LEMMA DesktopStep ==
  ASSUME DesktopInv, [DesktopNext]_desktopVars
  PROVE  DesktopInv'
  <1> DEFINE Kept == /\ WorkerHolds' /\ AttemptIsMine' /\ StoppedBefore' /\ StopWins'
                     /\ NothingLeaks' /\ StrayReplaced' /\ ExitLeavesNothing'
  <1>0. DesktopTypeOK' /\ UsedTyped'
    BY DesktopTypeStep DEF DesktopInv
  <1>a. runtime \in RuntimeRecords /\ flow \in FlowRecords /\ generation \in Nat /\ stoppedAt \in Nat
    BY DEF DesktopInv, DesktopTypeOK, RuntimeRecords, FlowRecords
  <1> SUFFICES Kept
    BY <1>0 DEF DesktopInv
  <1>1. CASE UNCHANGED desktopVars
    BY <1>1, PageKeeps DEF desktopVars
  <1>2. CASE NativeBegin
    <2>1. CASE flow' = [flow EXCEPT !.pc = "cleanup"] /\ UNCHANGED <<locked, runtime>>
      <3>1. used'.faults = 0 => used.faults = 0
        BY <1>2 DEF NativeBegin, Spend, DesktopInv, UsedTyped
      <3> QED
        BY <1>2, <1>a, <2>1, <3>1
        DEF NativeBegin, DesktopInv, RuntimeRecords, FlowRecords, WorkerHolds, AttemptIsMine, StoppedBefore, StopWins,
          NothingLeaks, StrayReplaced, StrayIsAlone, ExitLeavesNothing, Active
    <2> DEFINE hadRuntime == runtime.lease # NoLease \/ runtime.child
               stopped == [runtime EXCEPT !.child = FALSE, !.stray = FALSE, !.polled = FALSE]
    <2>2. CASE /\ locked' = TRUE /\ flow' = [flow EXCEPT !.pc = "replacing"]
               /\ UNCHANGED used
               /\ runtime' = [stopped EXCEPT !.proxy = @ /\ ~hadRuntime]
      BY <1>2, <1>a, <2>2
      DEF NativeBegin, Current, DesktopInv, RuntimeRecords, FlowRecords, WorkerHolds, AttemptIsMine,
          StoppedBefore, StopWins, NothingLeaks, StrayReplaced, StrayIsAlone, ExitLeavesNothing, Active
    <2>3. CASE /\ locked' = TRUE /\ flow' = [flow EXCEPT !.pc = "replacing"]
               /\ Spend("faults")
               /\ runtime' = stopped
      <3>1. used'.faults # 0
        BY <2>3 DEF Spend, DesktopInv, UsedTyped
      <3> QED
        BY <1>2, <1>a, <2>3, <3>1
        DEF NativeBegin, Current, DesktopInv, RuntimeRecords, FlowRecords, WorkerHolds, AttemptIsMine,
          StoppedBefore, StopWins, NothingLeaks, StrayReplaced, StrayIsAlone, ExitLeavesNothing, Active
    <2> QED
      BY <1>2, <2>1, <2>2, <2>3 DEF NativeBegin
  <1>3. CASE NativeAdopt
    <2> USE <1>3, <1>a
        DEF NativeAdopt, DesktopInv, RuntimeRecords, FlowRecords, Active,
            WorkerHolds, AttemptIsMine, StoppedBefore, StopWins, NothingLeaks, StrayReplaced,
            StrayIsAlone, ExitLeavesNothing
    <2>1. CASE runtime' = [runtime EXCEPT !.status = "error", !.lease = NoLease]
      BY <2>1
    <2>2. CASE /\ Current /\ flow' = [flow EXCEPT !.pc = "preparing"]
               /\ runtime' = [runtime EXCEPT !.status = "starting", !.lease = flow.lease,
                                             !.captured = flow.captured]
      BY <2>2 DEF Current
    <2>3. CASE flow' = [flow EXCEPT !.pc = "cleanup"] /\ UNCHANGED runtime
      BY <2>3
    <2> QED
      BY <2>1, <2>2, <2>3
  <1>4. CASE NativeLaunch
    <2>1. CASE Current /\ Mine /\ flow' = [flow EXCEPT !.pc = "launching"]
      BY <1>4, <1>a, <2>1
      DEF NativeLaunch, Current, Mine, DesktopInv, RuntimeRecords, FlowRecords,
          WorkerHolds, AttemptIsMine, StoppedBefore, StopWins,
          NothingLeaks, StrayReplaced, StrayIsAlone, ExitLeavesNothing, Active
    <2>2. CASE flow' = [flow EXCEPT !.pc = "cleanup"] /\ UNCHANGED <<runtime, locked>>
      BY <1>4, <1>a, <2>2
      DEF NativeLaunch, DesktopInv, RuntimeRecords, FlowRecords,
          WorkerHolds, AttemptIsMine, StoppedBefore, StopWins,
          NothingLeaks, StrayReplaced, StrayIsAlone, ExitLeavesNothing, Active
    <2>3. CASE /\ flow' = [flow EXCEPT !.pc = "cleanup"] /\ UNCHANGED locked
               /\ runtime' = [runtime EXCEPT !.status = "error", !.lease = NoLease]
      BY <1>4, <1>a, <2>3
      DEF NativeLaunch, DesktopInv, RuntimeRecords, FlowRecords,
          WorkerHolds, AttemptIsMine, StoppedBefore, StopWins,
          NothingLeaks, StrayReplaced, StrayIsAlone, ExitLeavesNothing, Active
    <2>4. CASE /\ flow' = [flow EXCEPT !.pc = "cleanup"] /\ UNCHANGED locked
               /\ Current /\ Mine /\ runtime' = [runtime EXCEPT !.status = "connecting"]
      BY <1>4, <1>a, <2>4
      DEF NativeLaunch, Current, Mine, DesktopInv, RuntimeRecords, FlowRecords,
          WorkerHolds, AttemptIsMine, StoppedBefore, StopWins,
          NothingLeaks, StrayReplaced, StrayIsAlone, ExitLeavesNothing, Active
    <2> QED
      BY <1>4, <1>a, <2>1, <2>2, <2>3, <2>4 DEF NativeLaunch, FlowRecords
  <1>5. CASE NativeProxy
    BY <1>5, <1>a DEF NativeProxy, DesktopInv, RuntimeRecords, FlowRecords, Active,
       WorkerHolds, AttemptIsMine, StoppedBefore, StopWins, NothingLeaks, StrayReplaced, StrayIsAlone,
       ExitLeavesNothing
  <1>6. CASE NativeConnected
    BY <1>6, <1>a DEF NativeConnected, Current, DesktopInv, RuntimeRecords, FlowRecords, Active,
       WorkerHolds, AttemptIsMine, StoppedBefore, StopWins, NothingLeaks, StrayReplaced, StrayIsAlone,
       ExitLeavesNothing
  <1>7. CASE NativeCleanup
    <2>1. CASE UNCHANGED <<generation, runtime, stoppedAt, used>> /\ ~Owns
      BY <1>7, <1>a, <2>1
      DEF NativeCleanup, Owns, DesktopInv, RuntimeRecords, FlowRecords,
          WorkerHolds, AttemptIsMine, StoppedBefore, StopWins,
          NothingLeaks, StrayReplaced, StrayIsAlone, ExitLeavesNothing, Active
    <2>2. CASE /\ generation' = generation + 1 /\ stoppedAt' = generation' /\ UNCHANGED used
               /\ runtime' = [NoRuntime EXCEPT !.status = "error"]
      BY <1>7, <1>a, <2>2
      DEF NativeCleanup, NoRuntime, DesktopInv, RuntimeRecords, FlowRecords,
          WorkerHolds, AttemptIsMine, StoppedBefore, StopWins,
          NothingLeaks, StrayReplaced, StrayIsAlone, ExitLeavesNothing, Active
    <2>3. CASE /\ Owns /\ Spend("faults") /\ generation' = generation + 1 /\ UNCHANGED stoppedAt
               /\ \E kept \in {runtime.proxy, FALSE} :
                     runtime' = [runtime EXCEPT !.status = "error", !.proxy = kept]
      <3>1. used'.faults # 0
        BY <2>3 DEF Spend, DesktopInv, UsedTyped
      <3>2. Active(runtime) /\ flow.lease \in Nat
        BY <1>7, <2>3, DesktopAssumption DEF NativeCleanup, Owns, Active, DesktopInv, WorkerHolds
      <3>3. runtime'.captured = runtime.captured
        BY <1>a, <2>3 DEF RuntimeRecords
      <3>4. exit' # "done"
        BY <1>7, <3>2 DEF NativeCleanup, DesktopInv, ExitLeavesNothing
      <3> QED
        BY <1>7, <1>a, <2>3, <3>1, <3>2, <3>3, <3>4
        DEF NativeCleanup, DesktopInv, FlowRecords, WorkerHolds, AttemptIsMine, StoppedBefore,
            StopWins, NothingLeaks, StrayReplaced, StrayIsAlone, ExitLeavesNothing
    <2> QED
      BY <1>7, <2>1, <2>2, <2>3 DEF NativeCleanup
  <1>8. CASE NativeStop \/ NativeClear \/ NativeExit
    BY <1>8, ShutdownKeeps DEF NativeStop, NativeClear, NativeExit
  <1>9. CASE LeaseGranted
    BY <1>9, <1>a DEF LeaseGranted, Rest, DesktopInv, UsedTyped, RuntimeRecords, FlowRecords,
       WorkerHolds, AttemptIsMine, StoppedBefore, StopWins, NothingLeaks, StrayReplaced, StrayIsAlone, ExitLeavesNothing, Active
  <1>10. CASE RequestExit \/ DisconnectCurrentRuntime \/ ClearSession \/ FinishClear \/ Login
    <2>1. used'.faults = used.faults
      BY <1>10 DEF RequestExit, DisconnectCurrentRuntime, ClearSession, FinishClear, Login,
         Spend, DesktopInv, UsedTyped
    <2> QED
      BY <1>10, <2>1, PageKeeps
      DEF RequestExit, DisconnectCurrentRuntime, ClearSession, FinishClear, Login, JoinStop
  <1>11. CASE StartConnect \/ RequestLease \/ ConnectFailed \/ StopFailedConnect \/ ConnectDone \/ FinishStop
    <2>1. used'.faults = used.faults
      BY <1>11 DEF StartConnect, RequestLease, ConnectFailed, StopFailedConnect, ConnectDone, FinishStop,
         Spend, DesktopInv, UsedTyped
    <2>2. \/ flow' = flow
          \/ /\ flow.pc \in PageSteps /\ flow'.pc \in PageSteps
      BY <1>11, <1>a
      DEF StartConnect, RequestLease, ConnectFailed, StopFailedConnect, ConnectDone, FinishStop, Rest,
          FlowRecords, PageSteps
    <2> QED
      BY <1>11, <2>1, <2>2, PageKeeps
      DEF StartConnect, RequestLease, ConnectFailed, StopFailedConnect, ConnectDone, FinishStop, JoinStop
  <1>12. CASE RefreshChildState
    <2>1. CASE /\ runtime' = [runtime EXCEPT !.status = "connected", !.polled = TRUE]
               /\ runtime.child /\ runtime.status = "connecting" /\ UNCHANGED used
      BY <1>12, <1>a, <2>1
      DEF RefreshChildState, DesktopInv, RuntimeRecords, WorkerHolds, AttemptIsMine, StoppedBefore,
          StopWins, NothingLeaks, StrayReplaced, StrayIsAlone, ExitLeavesNothing, Active
    <2>2. ASSUME NEW alive \in BOOLEAN, LetGo(alive),
                 runtime.child \/ runtime.status = "connecting"
          PROVE  Kept
      <3>1. Active(runtime) /\ exit # "done" /\ ~locked
        BY <1>12, <2>2 DEF Active, RefreshChildState
      <3>2. /\ runtime'.status = "error" /\ runtime'.child = FALSE
            /\ runtime'.captured = runtime.captured /\ runtime'.lease = runtime.lease
        BY <1>a, <2>2 DEF LetGo, RuntimeRecords
      <3>3. used'.faults = 0 => used.faults = 0 /\ ~runtime'.proxy
        <4>1. CASE UNCHANGED used /\ ~runtime'.proxy
          BY <4>1
        <4>2. CASE Spend("faults")
          BY <4>2 DEF Spend, DesktopInv, UsedTyped
        <4> QED
          BY <1>a, <2>2, <4>1, <4>2 DEF LetGo, RuntimeRecords
      <3> QED
        BY <1>12, <1>a, <3>1, <3>2, <3>3
        DEF RefreshChildState, DesktopInv, WorkerHolds, AttemptIsMine, StoppedBefore,
            StopWins, NothingLeaks, StrayReplaced, StrayIsAlone, ExitLeavesNothing
    <2> QED
      BY <1>12, <2>1, <2>2 DEF RefreshChildState
  <1> QED
    BY <1>1, <1>2, <1>3, <1>4, <1>5, <1>6, <1>7, <1>8, <1>9, <1>10, <1>11, <1>12 DEF DesktopNext

(* The client's invariant holds in every state: the worker's mutex, its    *)
(* attempt and what is left of kernel and proxy at each step of a start.   *)
THEOREM DesktopInvHolds == DesktopSpec => []DesktopInv
  <1>1. DesktopInv /\ [DesktopNext]_desktopVars => DesktopInv'
    BY DesktopStep
  <1> QED
    BY <1>1, DesktopInitInv, PTL DEF DesktopSpec

(* A start that was requested before a completed shutdown never brings the *)
(* runtime back (CONNECTION_GENERATION, shutdown_runtime).                 *)
THEOREM StopWinsHolds == DesktopSpec => []StopWins
  <1>1. DesktopInv => StopWins
    BY DEF DesktopInv
  <1> QED
    BY <1>1, DesktopInvHolds, PTL

(* No failed or cancelled start leaks its kernel or its proxy setting,     *)
(* unless a status read has called it connected before its cleanup; a      *)
(* kernel without a handle is alone and shown as an error, and nothing of  *)
(* a connection outlives the application (NativeCleanup,                   *)
(* RefreshChildState, NativeBegin, NativeExit).                            *)
THEOREM RuntimeInvariantHolds == DesktopSpec => []RuntimeInvariant
  <1>1. DesktopInv => RuntimeInvariant
    BY DEF DesktopInv, RuntimeInvariant, NoOrphanKernel, NothingLeaks, StrayReplaced
  <1> QED
    BY <1>1, DesktopInvHolds, PTL

-----------------------------------------------------------------------------
(* Registration: what the host has on disk covers, at every step, what the *)
(* control plane may have accepted from it.                                *)

TokenRows == [node : RegNodes, used : BOOLEAN, expired : BOOLEAN]
AgentRows == [node : RegNodes, secret : Secrets, token : RegTokens \cup {NoFile},
              era : Nat \cup {NoFile}, live : BOOLEAN]
RegRequests == [token : RegTokens, secret : Secrets, era : Nat]
Environments == [token : RegTokens \cup {NoFile}, reset : BOOLEAN,
                 explicit : Identities \cup {NoFile}, era : Nat]
Resetting == {"journal", "archive", "clear", "cleared"}
Registering == {"register", "pending", "sent", "granted", "saved"}
Memories == [secret : Secrets \cup {NoFile}, id : Identities \cup {NoFile}, left : SUBSET Files,
             covers : SUBSET Files, after : {"off", "resolve", "register", "open"}]

(* Rows and files as the source types them; a file holds what was written  *)
(* to it and names tokens and secrets that exist.                          *)
Stored(c) ==
    /\ c["credentials"] \in Credentials \cup {NoFile}
    /\ c["pending"] \in PendingSecrets \cup {NoFile}
    /\ c["pending"] # NoFile => c["pending"].secret <= generated /\ c["pending"].token \in DOMAIN regTokens
    /\ c["journal"] \in Journals \cup {NoFile}
    /\ c["db"] \in RegNodes \cup {NoFile} /\ c["wal"] \in RegNodes \cup {NoFile}

ServerTyped ==
    /\ regStatus \in [RegNodes -> {"none", "pending_register", "agent_ready"}]
    /\ regTokens \in Seq(TokenRows) /\ Len(regTokens) <= MaxRegTokens
    /\ generated \in 0..MaxSecrets
    /\ agents \in SUBSET AgentRows
    /\ manual \in [node : RegNodes \cup {NoFile}, revokes : SUBSET AgentRows]
    /\ requests \in SUBSET RegRequests
    /\ \A r \in requests : r.token \in DOMAIN regTokens
    /\ \A x \in requests \cup agents : x.secret <= generated

HostTyped ==
    /\ env \in Environments /\ env.token \in DOMAIN regTokens \cup {NoFile}
    /\ pc \in {"off", "resolve", "open", "running"} \cup Resetting \cup Registering
    /\ mem \in Memories /\ hostFaults \in Nat
    /\ seen = [f \in Files |-> seen[f]] /\ safe = [f \in Files |-> safe[f]]

(* Only the newest token of a node is open, and an agent that came from a  *)
(* token came from the node's newest one.                                  *)
TokensInOrder ==
    /\ \A t \in DOMAIN regTokens : regStatus[regTokens[t].node] # "none"
    /\ \A t, u \in DOMAIN regTokens :
         regTokens[t].node = regTokens[u].node /\ ~regTokens[t].used => u <= t
    /\ \A a \in agents : a.token # NoFile =>
         /\ a.token \in DOMAIN regTokens /\ regTokens[a.token].used
         /\ a.node = regTokens[a.token].node /\ regStatus[a.node] = "agent_ready"

(* s was made for the token t, as a request, an agent or a pending file    *)
(* says.                                                                   *)
Claims(s, t) ==
    \/ \E x \in requests \cup agents : x.secret = s /\ x.token = t
    \/ seen["pending"] # NoFile /\ seen["pending"].secret = s /\ seen["pending"].token = t
    \/ safe["pending"] # NoFile /\ safe["pending"].secret = s /\ safe["pending"].token = t

OneTokenPerSecret ==
    \A s \in Secrets, t, u \in RegTokens \cup {NoFile} : Claims(s, t) /\ Claims(s, u) => t = u

(* Where the process is, its memory and its files say the same.            *)
HostInOrder ==
    /\ pc \in Registering => env.token # NoFile
    /\ pc \in {"pending", "sent", "granted", "saved"} =>
         mem.secret # NoFile /\ seen["pending"] = [secret |-> mem.secret, token |-> env.token]
    /\ pc \in {"granted", "saved", "open", "running"} => mem.id # NoFile
    /\ pc \in {"journal", "archive", "clear"} => seen["journal"] = mem.covers
    /\ pc \in Resetting =>
         /\ mem.covers \in Journals /\ mem.left \subseteq mem.covers
         /\ mem.after # "off" /\ (mem.after = "open" => mem.id # NoFile)
         /\ mem.after = "register" => env.token # NoFile /\ mem.covers = IdentityFiles \cup StateFiles
    /\ pc = "journal" => mem.left = mem.covers
    /\ pc \in {"archive", "clear", "cleared"} => \A f \in mem.covers \ mem.left : seen[f] = NoFile
    /\ pc \in {"clear", "cleared"} => mem.left = {}
    /\ pc \notin {"off", "journal", "archive", "clear"} => seen["journal"] = NoFile
    /\ pc \in Registering \ {"saved"} => seen["credentials"] = NoFile
    /\ pc = "saved" => seen["credentials"] # NoFile /\ seen["credentials"].token = env.token
    /\ RunsOnOwnState

(* The database and its log are the same for the host and on disk, and the *)
(* log is of the database beside it.                                       *)
StateSettled ==
    /\ seen["db"] = safe["db"] /\ seen["wal"] = safe["wal"]
    /\ seen["wal"] \in {NoFile, seen["db"]}

(* A file the journal covers is renamed and the rename is not synced.      *)
RenamePending == \E f \in seen["journal"] : seen[f] = NoFile /\ safe[f] # NoFile

(* Where the host sees no journal, or a journal that a power loss may take *)
(* back before anything is renamed under it, the state is settled; before  *)
(* a journal goes, the renames are on disk.                                *)
Journaled ==
    /\ undone \in BOOLEAN
    /\ pc = "clear" => \A f \in StateFiles : seen[f] = NoFile /\ safe[f] = NoFile
    /\ ~undone /\ seen["journal"] = NoFile => StateSettled
    /\ ~undone /\ seen["journal"] # NoFile /\ safe["journal"] = NoFile /\ ~RenamePending
         => StateSettled

(* What this host sent in its present environment, and the agents made of  *)
(* it, are backed by the pending file, and nothing is about to remove it.  *)
Ours(x) == x.token # NoFile /\ x.era = env.era /\ x.token = env.token

Kept(c) ==
    /\ c["credentials"] # NoFile => c["credentials"].token = env.token
    /\ c["journal"] \in {NoFile, StateFiles}

Backed ==
    /\ \A x \in agents \cup requests : x.era # NoFile => x.era <= env.era
    /\ \A x \in agents \cup requests : Ours(x) =>
        /\ seen["pending"] = [secret |-> x.secret, token |-> x.token] /\ Kept(seen)
        /\ safe["pending"] = [secret |-> x.secret, token |-> x.token] /\ Kept(safe)
        /\ pc \in Resetting => mem.covers = StateFiles

RegInv ==
    /\ ServerTyped /\ HostTyped /\ Stored(seen) /\ Stored(safe) /\ TokensInOrder /\ NewestTokenWins
    /\ OneTokenPerSecret /\ HostInOrder /\ Journaled /\ Backed

(* Steps of the host alone leave the control plane's rows in order.        *)
LEMMA ServerSame ==
  ASSUME RegInv, UNCHANGED serverVars, UNCHANGED requests, UNCHANGED generated
  PROVE  ServerTyped' /\ TokensInOrder' /\ NewestTokenWins'
  BY DEF RegInv, serverVars, ServerTyped, TokensInOrder, NewestTokenWins

(* A secret keeps its token as long as no secret is claimed anew.          *)
LEMMA ClaimsOld ==
  ASSUME RegInv, \A s \in Secrets, t \in RegTokens \cup {NoFile} : Claims(s, t)' => Claims(s, t)
  PROVE  OneTokenPerSecret'
  BY DEF RegInv, OneTokenPerSecret

(* No secret is claimed before it is generated. *)
LEMMA ClaimsBelow ==
  ASSUME RegInv
  PROVE  \A s \in Secrets, t \in RegTokens \cup {NoFile} : Claims(s, t) => s <= generated
  BY DEF RegInv, Claims, ServerTyped, Stored

(* What is in the host's files, one by one. *)
LEMMA FilesAre ==
  /\ Files = {"credentials", "pending", "db", "wal", "journal"}
  /\ IdentityDir = {"credentials", "pending", "journal"}
  /\ IdentityFiles \cup StateFiles = {"credentials", "pending", "db", "wal"}
  /\ StateFiles = {"db", "wal"} /\ IdentityFiles = {"credentials", "pending"}
  /\ StateFiles # IdentityFiles \cup StateFiles
  BY DEF Files, IdentityDir, IdentityFiles, StateFiles

(* Nothing is on the host and nobody is registered. *)
LEMMA RegInitInv ==
  ASSUME RegInit
  PROVE  RegInv
  <1> USE RegAssumption, NoFileAssumption DEF RegInit
  <1>1. ServerTyped /\ TokensInOrder /\ NewestTokenWins
    BY DEF ServerTyped, TokensInOrder, NewestTokenWins
  <1>2. HostTyped
    BY FilesAre DEF HostTyped, Environments, NoMem, Memories
  <1>3. Stored(seen) /\ Stored(safe) /\ OneTokenPerSecret
    BY FilesAre DEF Stored, OneTokenPerSecret, Claims
  <1>4. HostInOrder /\ Journaled /\ Backed
    BY FilesAre DEF HostInOrder, RunsOnOwnState, Journaled, StateSettled, Backed, Registering, Resetting
  <1> QED
    BY <1>1, <1>2, <1>3, <1>4 DEF RegInv

(* The journal is on disk before the first rename. *)
LEMMA SyncJournalKeeps ==
  ASSUME RegInv, SyncJournal
  PROVE  RegInv'
  <1> USE RegAssumption, NoFileAssumption, FilesAre DEF RegInv, SyncJournal, HostStep, Sees, SyncDir, serverVars, NoMem
  <1>1. ServerTyped' /\ TokensInOrder' /\ NewestTokenWins'
    BY ServerSame
  <1>2. HostTyped'
    BY DEF HostTyped, Memories, Resetting, Registering, HostInOrder
  <1>3. Stored(seen)' /\ Stored(safe)'
    BY DEF Stored, HostTyped, HostInOrder
  <1>4. OneTokenPerSecret'
    BY ClaimsOld DEF Claims, HostTyped
  <1>5. HostInOrder'
    BY DEF HostInOrder, HostTyped, RunsOnOwnState, Resetting, Registering, Memories, Journals
  <1>7. Journaled'
    BY DEF Journaled, StateSettled, RenamePending, HostInOrder, HostTyped, Stored, Journals, Memories,
       Resetting, Registering, DirsOf
  <1>8. Backed'
    BY DEF Backed, Ours, Kept, HostInOrder, HostTyped, Memories, Resetting, Registering, Journals, DirsOf
  <1> QED
    BY <1>1, <1>2, <1>3, <1>4, <1>5, <1>7, <1>8

(* The renames are on disk before the journal goes. *)
LEMMA SyncArchiveKeeps ==
  ASSUME RegInv, SyncArchive
  PROVE  RegInv'
  <1> USE RegAssumption, NoFileAssumption, FilesAre DEF RegInv, SyncArchive, HostStep, Sees, SyncDir, serverVars, NoMem
  <1>1. ServerTyped' /\ TokensInOrder' /\ NewestTokenWins'
    BY ServerSame
  <1>2. HostTyped'
    BY DEF HostTyped, Memories, Resetting, Registering, HostInOrder
  <1>3. Stored(seen)' /\ Stored(safe)'
    BY DEF Stored, HostTyped, HostInOrder
  <1>4. OneTokenPerSecret'
    BY ClaimsOld DEF Claims, HostTyped
  <1>5. HostInOrder'
    BY DEF HostInOrder, HostTyped, RunsOnOwnState, Resetting, Registering, Memories, Journals
  <1>7. Journaled'
    BY DEF Journaled, StateSettled, RenamePending, HostInOrder, HostTyped, Stored, Journals, Memories,
       Resetting, Registering, DirsOf
  <1>8. Backed'
    BY DEF Backed, Ours, Kept, HostInOrder, HostTyped, Memories, Resetting, Registering, Journals, DirsOf
  <1> QED
    BY <1>1, <1>2, <1>3, <1>4, <1>5, <1>7, <1>8

(* The journal goes once every file it covers is gone. *)
LEMMA RemoveJournalKeeps ==
  ASSUME RegInv, RemoveJournal
  PROVE  RegInv'
  <1> USE RegAssumption, NoFileAssumption, FilesAre DEF RegInv, RemoveJournal, HostStep, Sees, SyncDir, serverVars,
     NoMem
  <1>1. ServerTyped' /\ TokensInOrder' /\ NewestTokenWins'
    BY ServerSame
  <1>2. HostTyped'
    BY DEF HostTyped, Resetting
  <1>3. Stored(seen)' /\ Stored(safe)'
    BY DEF Stored, HostTyped, HostInOrder
  <1>4. OneTokenPerSecret'
    BY ClaimsOld DEF Claims, HostTyped
  <1>5. HostInOrder'
    BY DEF HostInOrder, HostTyped, RunsOnOwnState, Resetting, Registering, Memories, Journals
  <1>7. Journaled'
    BY DEF Journaled, StateSettled, RenamePending, HostInOrder, HostTyped, Stored, Journals, Memories,
       Resetting, Registering, DirsOf
  <1>8. Backed'
    BY DEF Backed, Ours, Kept, HostInOrder, HostTyped, Memories, Resetting, Registering, Journals, DirsOf
  <1> QED
    BY <1>1, <1>2, <1>3, <1>4, <1>5, <1>7, <1>8

(* A finished reset goes on where the process was. *)
LEMMA SyncClearKeeps ==
  ASSUME RegInv, SyncClear
  PROVE  RegInv'
  <1> USE RegAssumption, NoFileAssumption, FilesAre DEF RegInv, SyncClear, HostStep, Sees, SyncDir, serverVars, NoMem
  <1>1. ServerTyped' /\ TokensInOrder' /\ NewestTokenWins'
    BY ServerSame
  <1>2. HostTyped'
    BY DEF HostTyped, Memories, Resetting, Registering, HostInOrder
  <1>3. Stored(seen)' /\ Stored(safe)'
    BY DEF Stored, HostTyped, HostInOrder
  <1>4. OneTokenPerSecret'
    BY ClaimsOld DEF Claims, HostTyped
  <1>5. HostInOrder'
    BY DEF HostInOrder, HostTyped, RunsOnOwnState, Resetting, Registering, Memories, Journals
  <1>7. Journaled'
    BY DEF Journaled, StateSettled, RenamePending, HostInOrder, HostTyped, Stored, Journals, Memories,
       Resetting, Registering, DirsOf
  <1>8. Backed'
    BY DEF Backed, Ours, Kept, HostInOrder, HostTyped, Memories, Resetting, Registering, Journals, DirsOf
  <1> QED
    BY <1>1, <1>2, <1>3, <1>4, <1>5, <1>7, <1>8

(* The identity the control plane granted is written. *)
LEMMA SaveCredentialsKeeps ==
  ASSUME RegInv, SaveCredentials
  PROVE  RegInv'
  <1> USE RegAssumption, NoFileAssumption, FilesAre DEF RegInv, SaveCredentials, HostStep, Sees, SyncDir, serverVars,
     NoMem
  <1> DEFINE saved == [node |-> mem.id.node, secret |-> mem.id.secret, token |-> env.token]
  <1>0. saved \in Credentials /\ saved # NoFile /\ saved.token = env.token /\ seen' = [seen EXCEPT !["credentials"] = saved]
    BY DEF HostTyped, HostInOrder, Registering, Memories, Environments, Identities, Credentials
  <1> HIDE DEF saved
  <1>1. ServerTyped' /\ TokensInOrder' /\ NewestTokenWins'
    BY ServerSame
  <1>2. HostTyped'
    BY <1>0 DEF HostTyped, Registering
  <1>3. Stored(seen)' /\ Stored(safe)'
    BY <1>0 DEF Stored, HostTyped, HostInOrder
  <1>4. OneTokenPerSecret'
    BY ClaimsOld DEF Claims, HostTyped
  <1>5. HostInOrder'
    BY <1>0 DEF HostInOrder, HostTyped, RunsOnOwnState, Resetting, Registering
  <1>7. Journaled'
    BY DEF Journaled, StateSettled, RenamePending, HostInOrder, HostTyped, Stored, Journals, Memories,
       Resetting, Registering, DirsOf
  <1>8. Backed'
    BY DEF Backed, Ours, Kept, HostInOrder, HostTyped, Memories, Resetting, Registering, Journals, DirsOf
  <1> QED
    BY <1>1, <1>2, <1>3, <1>4, <1>5, <1>7, <1>8

(* The identity is on disk before it is used. *)
LEMMA SyncCredentialsKeeps ==
  ASSUME RegInv, SyncCredentials
  PROVE  RegInv'
  <1> USE RegAssumption, NoFileAssumption, FilesAre DEF RegInv, SyncCredentials, HostStep, Sees, SyncDir, serverVars,
     NoMem
  <1>1. ServerTyped' /\ TokensInOrder' /\ NewestTokenWins'
    BY ServerSame
  <1>2. HostTyped'
    BY DEF HostTyped, Memories, Resetting, Registering, HostInOrder
  <1>3. Stored(seen)' /\ Stored(safe)'
    BY DEF Stored, HostTyped, HostInOrder
  <1>4. OneTokenPerSecret'
    BY ClaimsOld DEF Claims, HostTyped
  <1>5. HostInOrder'
    BY DEF HostInOrder, HostTyped, RunsOnOwnState, Resetting, Registering, Memories, Journals
  <1>7. Journaled'
    BY DEF Journaled, StateSettled, RenamePending, HostInOrder, HostTyped, Stored, Journals, Memories,
       Resetting, Registering, DirsOf
  <1>8. Backed'
    BY DEF Backed, Ours, Kept, HostInOrder, HostTyped, Memories, Resetting, Registering, Journals, DirsOf
  <1> QED
    BY <1>1, <1>2, <1>3, <1>4, <1>5, <1>7, <1>8

(* The process starts, and finishes a reset that was interrupted. *)
LEMMA StartKeeps ==
  ASSUME RegInv, Start
  PROVE  RegInv'
  <1> USE RegAssumption, NoFileAssumption, FilesAre DEF RegInv, Start, HostStep, Sees, SyncDir, serverVars, NoMem
  <1>j. seen["journal"] # NoFile => seen["journal"] \in Journals /\ seen["journal"] \in SUBSET Files
    BY DEF Stored, Journals
  <1>0. /\ mem' \in Memories
        /\ \/ seen["journal"] = NoFile /\ pc' = "resolve" /\ mem'.after = "off"
           \/ /\ seen["journal"] \in Journals /\ pc' = "archive" /\ mem'.after = "resolve"
              /\ mem'.left = seen["journal"] /\ mem'.covers = seen["journal"]
    <2>1. CASE seen["journal"] = NoFile
      BY <2>1 DEF Memories
    <2>2. CASE seen["journal"] # NoFile
      <3> DEFINE j == seen["journal"]
      <3>1. mem' = [secret |-> NoFile, id |-> NoFile, left |-> j, covers |-> j, after |-> "resolve"] /\ pc' = "archive"
        BY <2>2
      <3>2. j \in Journals /\ j \in SUBSET Files
        BY <1>j, <2>2
      <3> HIDE DEF j
      <3>3. mem' \in Memories /\ mem'.after = "resolve" /\ mem'.left = j /\ mem'.covers = j
        BY ONLY <3>1, <3>2 DEF Memories
      <3> QED
        BY <3>1, <3>2, <3>3 DEF j
    <2> QED
      BY <2>1, <2>2
  <1>1. ServerTyped' /\ TokensInOrder' /\ NewestTokenWins'
    BY ServerSame
  <1>2. HostTyped'
    BY <1>0 DEF HostTyped, Resetting, Registering
  <1>3. Stored(seen)' /\ Stored(safe)'
    BY DEF Stored, HostTyped, HostInOrder
  <1>4. OneTokenPerSecret'
    BY ClaimsOld DEF Claims, HostTyped
  <1>5. HostInOrder'
    <2>1. CASE mem'.after = "off"
      BY <1>0, <2>1 DEF HostInOrder, RunsOnOwnState, Resetting, Registering
    <2>2. CASE mem'.after = "resolve"
      BY <1>0, <2>2 DEF HostInOrder, RunsOnOwnState, Resetting, Registering
    <2> QED
      BY <1>0, <2>1, <2>2
  <1>7. Journaled'
    BY DEF Journaled, StateSettled, RenamePending, HostInOrder, HostTyped, Stored, Journals, Memories,
       Resetting, Registering, DirsOf
  <1>8. Backed'
    BY DEF Backed, Ours, Kept, HostInOrder, HostTyped, Memories, Resetting, Registering, Journals, DirsOf
  <1> QED
    BY <1>1, <1>2, <1>3, <1>4, <1>5, <1>7, <1>8

(* A reset renames the next file its journal covers. *)
LEMMA RenameNextKeeps ==
  ASSUME RegInv, RenameNext
  PROVE  RegInv'
  <1> USE RegAssumption, NoFileAssumption, FilesAre DEF RegInv, HostStep, serverVars
  <1>a. /\ pc = "archive" /\ UNCHANGED <<pc, safe, requests, generated>> /\ HostStep
        /\ mem.left # {} /\ mem.left \subseteq mem.covers /\ mem.covers \subseteq IdentityFiles \cup StateFiles
        /\ mem.covers \in Journals /\ mem \in Memories
    BY DEF RenameNext, HostInOrder, HostTyped, Resetting, Journals
  <1> DEFINE chosen == CHOOSE f \in mem.left : \A g \in mem.left : Rank[f] <= Rank[g]
  <1>b. \E f \in mem.left : \A g \in mem.left : Rank[f] <= Rank[g]
    BY <1>a DEF Rank
  <1>c. chosen \in mem.left
    BY <1>b
  <1>d. seen' = [seen EXCEPT ![chosen] = NoFile] /\ mem' = [mem EXCEPT !.left = @ \ {chosen}]
    BY DEF RenameNext, Sees
  <1> HIDE DEF chosen
  <1>e. PICK f \in mem.left : seen' = [seen EXCEPT ![f] = NoFile] /\ mem' = [mem EXCEPT !.left = @ \ {f}]
    BY <1>c, <1>d
  <1>0. /\ seen' = [seen EXCEPT ![f] = NoFile] /\ f \in IdentityFiles \cup StateFiles /\ f \in mem.covers
        /\ mem' \in Memories /\ mem'.left = mem.left \ {f} /\ mem'.covers = mem.covers
        /\ mem'.after = mem.after /\ mem'.id = mem.id /\ mem'.secret = mem.secret
    BY <1>a, <1>e DEF Memories
  <1>1. ServerTyped' /\ TokensInOrder' /\ NewestTokenWins'
    BY <1>a, ServerSame
  <1>2. HostTyped'
    BY <1>a, <1>0 DEF HostTyped, Memories, Resetting, Registering
  <1>3. Stored(seen)' /\ Stored(safe)'
    BY <1>a, <1>0 DEF Stored, HostTyped
  <1>4. OneTokenPerSecret'
    BY <1>a, <1>0, ClaimsOld DEF Claims, HostTyped
  <1>5. HostInOrder'
    BY <1>a, <1>0 DEF HostInOrder, HostTyped, RunsOnOwnState, Resetting, Registering
  <1>7. Journaled'
    <2>1. /\ seen["journal"] = mem.covers /\ seen'["journal"] = mem.covers /\ mem.covers # NoFile
          /\ seen'[f] = NoFile /\ \A g \in Files \ {f} : seen'[g] = seen[g]
          /\ pc' = "archive" /\ undone' = undone /\ safe' = safe /\ mem.covers \subseteq Files
      BY <1>a, <1>0 DEF HostInOrder, HostTyped, Journals
    <2>2. ASSUME ~undone, safe["journal"] = NoFile, ~RenamePending'
          PROVE  StateSettled'
      <3>1. safe[f] = NoFile
        BY <1>0, <2>1, <2>2 DEF RenamePending
      <3>2. ~RenamePending
        BY <2>1, <2>2, <3>1 DEF RenamePending
      <3>3. StateSettled
        BY <2>1, <2>2, <3>2 DEF Journaled
      <3> QED
        BY <2>1, <3>1, <3>3 DEF StateSettled
    <2> QED
      BY <2>1, <2>2 DEF Journaled
  <1>8. Backed'
    BY <1>a, <1>0 DEF Backed, Ours, Kept, HostInOrder, HostTyped, Resetting
  <1> QED
    BY <1>1, <1>2, <1>3, <1>4, <1>5, <1>7, <1>8

(* The process ends: what is on disk is what the next start finds, and only a failure leaves a reset behind. *)
LEMMA ExitKeeps ==
  ASSUME RegInv, UNCHANGED <<regStatus, regTokens, agents, manual, requests, generated, env, seen, safe>>, Exit,
         UNCHANGED undone, hostFaults' \in Nat
  PROVE  RegInv'
  <1> USE RegAssumption, NoFileAssumption, FilesAre DEF RegInv, Exit, NoMem, serverVars
  <1>1. ServerTyped' /\ TokensInOrder' /\ NewestTokenWins'
    BY ServerSame
  <1>2. HostTyped'
    BY DEF HostTyped, Memories, Resetting, Registering, HostInOrder
  <1>3. Stored(seen)' /\ Stored(safe)'
    BY DEF Stored, HostTyped, HostInOrder
  <1>4. OneTokenPerSecret'
    BY ClaimsOld DEF Claims, HostTyped
  <1>5. HostInOrder'
    BY DEF HostInOrder, HostTyped, RunsOnOwnState, Resetting, Registering, Memories, Journals
  <1>7. Journaled'
    BY DEF Journaled, StateSettled, RenamePending, HostInOrder, HostTyped, Stored, Journals, Memories,
       Resetting, Registering, DirsOf
  <1>8. Backed'
    BY DEF Backed, Ours, Kept, HostInOrder, HostTyped, Memories, Resetting, Registering, Journals, DirsOf
  <1> QED
    BY <1>1, <1>2, <1>3, <1>4, <1>5, <1>7, <1>8

(* The process takes the identity it runs under. *)
LEMMA IdentityKeeps ==
  ASSUME RegInv, HostStep, UNCHANGED <<seen, safe, requests, generated>>, pc = "resolve", pc' = "open",
         NEW id \in Identities, mem' = [mem EXCEPT !.id = id]
  PROVE  RegInv'
  <1> USE RegAssumption, NoFileAssumption, FilesAre DEF RegInv, HostStep, serverVars
  <1>1. ServerTyped' /\ TokensInOrder' /\ NewestTokenWins'
    BY ServerSame
  <1>2. HostTyped'
    BY DEF HostTyped, Memories, Resetting, Registering, HostInOrder
  <1>3. Stored(seen)' /\ Stored(safe)'
    BY DEF Stored, HostTyped, HostInOrder
  <1>4. OneTokenPerSecret'
    BY ClaimsOld DEF Claims, HostTyped
  <1>5. HostInOrder'
    BY DEF HostInOrder, HostTyped, RunsOnOwnState, Resetting, Registering, Memories, Journals
  <1>7. Journaled'
    BY DEF Journaled, StateSettled, RenamePending, HostInOrder, HostTyped, Stored, Journals, Memories,
       Resetting, Registering, DirsOf
  <1>8. Backed'
    BY DEF Backed, Ours, Kept, HostInOrder, HostTyped, Memories, Resetting, Registering, Journals, DirsOf
  <1> QED
    BY <1>1, <1>2, <1>3, <1>4, <1>5, <1>7, <1>8

(* A reset begins with its journal, never over an agent of the present environment. *)
LEMMA BeginArchiveKeeps ==
  ASSUME RegInv, HostStep, UNCHANGED <<requests, generated>>,
         NEW files \in Journals, NEW after \in {"register", "open"}, BeginArchive(files, after),
         after = "register" => /\ pc = "resolve" /\ env.token # NoFile /\ files = IdentityFiles \cup StateFiles
                               /\ seen["credentials"] # NoFile /\ seen["credentials"].token # env.token,
         after = "open" => pc = "open" /\ files = StateFiles
  PROVE  RegInv'
  <1> USE RegAssumption, NoFileAssumption, FilesAre DEF RegInv, HostStep, serverVars
  <1>0. /\ mem' \in Memories /\ mem'.left = files /\ mem'.covers = files /\ mem'.after = after
        /\ mem'.id = mem.id /\ mem'.secret = mem.secret /\ files # NoFile
    BY DEF BeginArchive, HostTyped, Memories, Journals
  <1>00. pc' = "journal" /\ seen' = [seen EXCEPT !["journal"] = files] /\ safe' = safe
    BY DEF BeginArchive, Sees
  <1>000. pc \in {"resolve", "open"}
    OBVIOUS
  <1>1. ServerTyped' /\ TokensInOrder' /\ NewestTokenWins'
    BY ServerSame
  <1>2. HostTyped'
    BY <1>0, <1>00 DEF HostTyped, Resetting
  <1>3. Stored(seen)' /\ Stored(safe)'
    BY <1>0, <1>00 DEF Stored, HostTyped
  <1>4. OneTokenPerSecret'
    BY <1>00, ClaimsOld DEF Claims, HostTyped
  <1>5. HostInOrder'
    BY <1>0, <1>00, <1>000 DEF HostInOrder, HostTyped, RunsOnOwnState, Resetting, Registering
  <1>7. Journaled'
    BY <1>00, <1>000 DEF Journaled, StateSettled, RenamePending, HostInOrder, HostTyped, Stored, Journals, Memories,
       Resetting, Registering, DirsOf
  <1>8. Backed'
    BY <1>0, <1>00, <1>000 DEF Backed, Ours, Kept, HostTyped, Resetting
  <1> QED
    BY <1>1, <1>2, <1>3, <1>4, <1>5, <1>7, <1>8

(* A host without an identity registers. *)
LEMMA RegisterKeeps ==
  ASSUME RegInv, HostStep, UNCHANGED <<seen, safe, mem, requests, generated>>, pc = "resolve", pc' = "register",
         env.token # NoFile, seen["credentials"] = NoFile
  PROVE  RegInv'
  <1> USE RegAssumption, NoFileAssumption, FilesAre DEF RegInv, HostStep, serverVars
  <1>1. ServerTyped' /\ TokensInOrder' /\ NewestTokenWins'
    BY ServerSame
  <1>2. HostTyped'
    BY DEF HostTyped, Memories, Resetting, Registering, HostInOrder
  <1>3. Stored(seen)' /\ Stored(safe)'
    BY DEF Stored, HostTyped, HostInOrder
  <1>4. OneTokenPerSecret'
    BY ClaimsOld DEF Claims, HostTyped
  <1>5. HostInOrder'
    BY DEF HostInOrder, HostTyped, RunsOnOwnState, Resetting, Registering, Memories, Journals
  <1>7. Journaled'
    BY DEF Journaled, StateSettled, RenamePending, HostInOrder, HostTyped, Stored, Journals, Memories,
       Resetting, Registering, DirsOf
  <1>8. Backed'
    BY DEF Backed, Ours, Kept, HostInOrder, HostTyped, Memories, Resetting, Registering, Journals, DirsOf
  <1> QED
    BY <1>1, <1>2, <1>3, <1>4, <1>5, <1>7, <1>8

(* The agent runs on the database and the log of its own node. *)
LEMMA RunKeeps ==
  ASSUME RegInv, HostStep, UNCHANGED <<mem, requests, generated>>, pc = "open", pc' = "running",
         seen["db"] \in {NoFile, mem.id.node}, SyncDir(StateFiles),
         seen' = [seen EXCEPT !["db"] = mem.id.node,
                              !["wal"] = IF @ = NoFile THEN mem.id.node ELSE @]
  PROVE  RegInv'
  <1> USE RegAssumption, NoFileAssumption, FilesAre DEF RegInv, HostStep, serverVars, SyncDir
  <1>0. /\ mem.id.node \in RegNodes /\ mem.id.node # NoFile /\ seen["journal"] = NoFile
        /\ ~undone => seen["wal"] \in {NoFile, seen["db"]}
    BY DEF HostTyped, HostInOrder, Memories, Identities, Journaled, StateSettled, Resetting, Registering
  <1>00. /\ seen'["db"] = mem.id.node /\ seen'["wal"] \in {mem.id.node, seen["wal"]}
         /\ ~undone => seen'["wal"] = mem.id.node
         /\ \A f \in Files \ StateFiles : seen'[f] = seen[f]
         /\ seen' = [f \in Files |-> seen'[f]]
    BY <1>0 DEF HostTyped
  <1>000. safe' = [f \in Files |-> IF f \in StateFiles THEN seen'[f] ELSE safe[f]]
    BY DEF SyncDir
  <1>1. ServerTyped' /\ TokensInOrder' /\ NewestTokenWins'
    BY ServerSame
  <1>2. HostTyped'
    BY <1>00, <1>000 DEF HostTyped
  <1>3. Stored(seen)' /\ Stored(safe)'
    BY <1>0, <1>00, <1>000 DEF Stored, HostTyped
  <1>4. OneTokenPerSecret'
    BY <1>00, <1>000, ClaimsOld DEF Claims, HostTyped
  <1>5. HostInOrder'
    BY <1>0, <1>00 DEF HostInOrder, HostTyped, RunsOnOwnState, Resetting, Registering
  <1>7. Journaled'
    BY <1>00, <1>000 DEF Journaled, StateSettled, RenamePending, HostInOrder, HostTyped, Stored, Journals, Memories,
       Resetting, Registering, DirsOf
  <1>8. Backed'
    <2>1. /\ seen'["pending"] = seen["pending"] /\ seen'["credentials"] = seen["credentials"]
          /\ seen'["journal"] = seen["journal"]
      BY <1>00
    <2>2. /\ safe'["pending"] = safe["pending"] /\ safe'["credentials"] = safe["credentials"]
          /\ safe'["journal"] = safe["journal"]
      BY <1>000
    <2> QED
      BY <2>1, <2>2 DEF Backed, Ours, Kept, Resetting
  <1> QED
    BY <1>1, <1>2, <1>3, <1>4, <1>5, <1>7, <1>8

(* The operator deletes the credentials file: the pending secret is still there. *)
LEMMA DeleteCredentialsKeeps ==
  ASSUME RegInv, DeleteCredentials
  PROVE  RegInv'
  <1> USE RegAssumption, NoFileAssumption, FilesAre DEF RegInv, DeleteCredentials, Sees, SyncDir, serverVars
  <1>1. ServerTyped' /\ TokensInOrder' /\ NewestTokenWins'
    BY ServerSame
  <1>2. HostTyped'
    BY DEF HostTyped, Memories, Resetting, Registering, HostInOrder
  <1>3. Stored(seen)' /\ Stored(safe)'
    BY DEF Stored, HostTyped, HostInOrder
  <1>4. OneTokenPerSecret'
    BY ClaimsOld DEF Claims, HostTyped
  <1>5. HostInOrder'
    BY DEF HostInOrder, HostTyped, RunsOnOwnState, Resetting, Registering, Memories, Journals
  <1>7. Journaled'
    BY DEF Journaled, StateSettled, RenamePending, HostInOrder, HostTyped, Stored, Journals, Memories,
       Resetting, Registering, DirsOf
  <1>8. Backed'
    BY DEF Backed, Ours, Kept, HostInOrder, HostTyped, Memories, Resetting, Registering, Journals, DirsOf
  <1> QED
    BY <1>1, <1>2, <1>3, <1>4, <1>5, <1>7, <1>8

(* A changed environment begins a new era. *)
LEMMA ChangeEnvironmentKeeps ==
  ASSUME RegInv, ChangeEnvironment
  PROVE  RegInv'
  <1> USE RegAssumption, NoFileAssumption, FilesAre DEF RegInv, serverVars
  <1>a. /\ pc = "off" /\ env.era \in Nat /\ agents \in SUBSET AgentRows
        /\ UNCHANGED <<regStatus, regTokens, agents, manual, requests, generated, seen, safe, pc, mem, undone, hostFaults>>
    BY DEF ChangeEnvironment, HostTyped, Environments, ServerTyped
  <1>b. PICK token \in DOMAIN regTokens \cup {NoFile}, reset \in BOOLEAN,
             manualOf \in {NoFile} \cup {Identity(a) : a \in {b \in agents : b.token = NoFile}} :
          env' = [token |-> token, reset |-> reset, explicit |-> manualOf, era |-> env.era + 1]
    BY DEF ChangeEnvironment
  <1>c. manualOf \in Identities \cup {NoFile}
    BY <1>a, <1>b DEF Identity, Identities, AgentRows
  <1>d. token \in RegTokens \cup {NoFile}
    BY DEF ServerTyped, RegTokens
  <1>0. env' \in Environments /\ env'.token \in DOMAIN regTokens \cup {NoFile} /\ env'.era = env.era + 1
    BY <1>a, <1>b, <1>c, <1>d DEF Environments
  <1>1. ServerTyped' /\ TokensInOrder' /\ NewestTokenWins'
    BY <1>a, ServerSame
  <1>2. HostTyped'
    BY <1>a, <1>0 DEF HostTyped
  <1>3. Stored(seen)' /\ Stored(safe)'
    BY <1>a DEF Stored
  <1>4. OneTokenPerSecret'
    BY <1>a, ClaimsOld DEF Claims
  <1>5. HostInOrder'
    BY <1>a DEF HostInOrder, RunsOnOwnState, Resetting, Registering
  <1>7. Journaled'
    BY <1>a DEF Journaled, StateSettled, RenamePending
  <1>8. Backed'
    BY <1>a, <1>0 DEF Backed, Ours, AgentRows, ServerTyped, RegRequests
  <1> QED
    BY <1>1, <1>2, <1>3, <1>4, <1>5, <1>7, <1>8

(* A power loss leaves each file as new or as old as it likes; where it takes a journal back, the state is *)
(* settled or the loss is counted as undone.                                                              *)
LEMMA PowerLossKeeps ==
  ASSUME RegInv, PowerLoss
  PROVE  RegInv'
  <1> USE RegAssumption, NoFileAssumption, FilesAre DEF RegInv, Exit, NoMem, serverVars
  <1>a. /\ hostFaults' = hostFaults + 1 /\ Exit /\ safe' = seen' /\ undone' = (undone \/ LosesJournal)
        /\ UNCHANGED <<regStatus, regTokens, agents, manual, requests, generated, env>>
    BY DEF PowerLoss, HostFault
  <1>b. PICK kept \in SUBSET Files : seen' = [f \in Files |-> IF f \in kept THEN seen[f] ELSE safe[f]]
    BY DEF PowerLoss
  <1>0. seen' = [f \in Files |-> seen'[f]] /\ \A f \in Files : seen'[f] \in {seen[f], safe[f]}
    BY <1>b
  <1>1. ServerTyped' /\ TokensInOrder' /\ NewestTokenWins'
    BY <1>a, ServerSame
  <1>2. HostTyped'
    BY <1>a, <1>0 DEF HostTyped, Memories
  <1>3. Stored(seen)' /\ Stored(safe)'
    BY <1>a, <1>0 DEF Stored
  <1>4. OneTokenPerSecret'
    BY <1>a, <1>0, ClaimsOld DEF Claims
  <1>5. HostInOrder'
    BY <1>a DEF HostInOrder, RunsOnOwnState, Resetting, Registering
  <1>7. Journaled'
    <2>1. undone' \in BOOLEAN /\ pc' # "clear"
      BY <1>a DEF Journaled, LosesJournal
    <2>2. ASSUME ~undone', seen'["journal"] = NoFile PROVE StateSettled
      <3>1. ~undone /\ ~LosesJournal
        BY <1>a, <2>2
      <3>2. seen["journal"] # NoFile => safe["journal"] = NoFile /\ ~RenamePending
        BY <1>0, <2>2, <3>1 DEF LosesJournal, RenamePending
      <3> QED
        BY <3>1, <3>2 DEF Journaled
    <2>3. ASSUME ~undone', seen'["journal"] = NoFile PROVE StateSettled'
      BY <1>0, <1>a, <2>2, <2>3 DEF StateSettled
    <2> QED
      BY <1>a, <2>1, <2>3 DEF Journaled
  <1>8. Backed'
    BY <1>a, <1>0 DEF Backed, Ours, Kept, Resetting
  <1> QED
    BY <1>1, <1>2, <1>3, <1>4, <1>5, <1>7, <1>8

(* The secret is in the pending file before it is sent, and is reused for its own token only. *)
LEMMA PersistPendingKeeps ==
  ASSUME RegInv, PersistPending
  PROVE  RegInv'
  <1> USE RegAssumption, NoFileAssumption, FilesAre DEF RegInv, serverVars
  <1> DEFINE fresh == [secret |-> mem'.secret, token |-> env.token]
  <1>a. /\ pc = "register" /\ pc' = "pending" /\ UNCHANGED <<safe, requests>> /\ HostStep
        /\ seen' = [seen EXCEPT !["pending"] = fresh]
        /\ env.token \in DOMAIN regTokens /\ env.token \in RegTokens /\ generated \in 0..MaxSecrets
    BY DEF PersistPending, Sees, HostTyped, HostInOrder, Registering, ServerTyped, RegTokens
  <1>b. \/ /\ seen["pending"] # NoFile /\ seen["pending"].token = env.token
           /\ mem' = [mem EXCEPT !.secret = seen["pending"].secret] /\ generated' = generated
        \/ /\ generated' = generated + 1 /\ generated' \in Secrets
           /\ mem' = [mem EXCEPT !.secret = generated'] /\ ~Reusable(seen["pending"])
    BY <1>a DEF PersistPending, Reusable, Secrets
  <1>0. /\ mem' \in Memories /\ mem'.id = mem.id /\ mem'.left = mem.left /\ mem'.covers = mem.covers /\ mem'.after = mem.after
        /\ mem'.secret \in Secrets /\ mem'.secret # NoFile /\ mem'.secret <= generated' /\ generated' \in 0..MaxSecrets
        /\ generated <= generated'
    BY <1>a, <1>b DEF Stored, HostTyped, Memories, PendingSecrets, Secrets
  <1>00. fresh \in PendingSecrets /\ fresh # NoFile /\ fresh.secret = mem'.secret /\ fresh.token = env.token
    BY <1>a, <1>0 DEF PendingSecrets
  <1>c. \/ fresh = seen["pending"] /\ generated' = generated
        \/ ~Reusable(seen["pending"]) /\ generated' = generated + 1 /\ fresh.secret = generated + 1
    <2>1. seen["pending"] # NoFile =>
            seen["pending"] = [secret |-> seen["pending"].secret, token |-> seen["pending"].token]
      BY DEF Stored, PendingSecrets
    <2>2. ASSUME seen["pending"] # NoFile, seen["pending"].token = env.token,
                 mem' = [mem EXCEPT !.secret = seen["pending"].secret]
          PROVE  fresh = seen["pending"]
      BY <2>1, <2>2 DEF HostTyped, Memories
    <2>3. ASSUME generated' = generated + 1, mem' = [mem EXCEPT !.secret = generated']
          PROVE  fresh.secret = generated + 1
      BY <2>3, <1>00 DEF HostTyped, Memories
    <2> QED
      BY <1>b, <2>2, <2>3
  <1> HIDE DEF fresh
  <1>1. ServerTyped' /\ TokensInOrder' /\ NewestTokenWins'
    <2>1. \A x \in requests \cup agents : x.secret \in Nat /\ x.secret <= generated
      BY DEF ServerTyped, RegRequests, AgentRows, Secrets
    <2>2. \A x \in requests \cup agents : x.secret <= generated'
      BY <2>1, <1>a, <1>0
    <2>3. ServerTyped'
      BY <1>a, <1>0, <2>2 DEF HostStep, ServerTyped
    <2> QED
      BY <1>a, <2>3 DEF HostStep, TokensInOrder, NewestTokenWins
  <1>2. HostTyped'
    BY <1>a, <1>0 DEF HostTyped, HostStep, Registering
  <1>3. Stored(seen)' /\ Stored(safe)'
    <2>1. safe["pending"] # NoFile => safe["pending"].secret <= generated'
      <3>1. safe["pending"] # NoFile => safe["pending"].secret \in Nat /\ safe["pending"].secret <= generated
        BY DEF Stored, PendingSecrets, Secrets
      <3> QED
        BY <3>1, <1>a, <1>0
    <2>2. Stored(safe)'
      BY <1>a, <2>1 DEF Stored, HostStep
    <2>3. seen'["pending"] = fresh /\ \A f \in Files \ {"pending"} : seen'[f] = seen[f]
      BY <1>a DEF HostTyped
    <2>4. Stored(seen)'
      BY <1>a, <1>0, <1>00, <2>3 DEF Stored, HostStep
    <2> QED
      BY <2>2, <2>4
  <1>4. OneTokenPerSecret'
    <2>1. CASE generated' = generated
      BY <1>a, <1>c, <2>1, ClaimsOld DEF Claims, HostTyped, HostStep
    <2>2. CASE generated' = generated + 1 /\ fresh.secret = generated + 1
      <3>1. \A s \in Secrets, t \in RegTokens \cup {NoFile} : Claims(s, t) => s <= generated
        BY ClaimsBelow
      <3>2. \A s \in Secrets, t \in RegTokens \cup {NoFile} :
               Claims(s, t)' => Claims(s, t) \/ (s = generated + 1 /\ t = env.token)
        BY <1>a, <1>00, <2>2 DEF Claims, HostTyped, HostStep
      <3> QED
        BY <1>a, <3>1, <3>2 DEF OneTokenPerSecret
    <2> QED
      BY <1>c, <2>1, <2>2
  <1>5. HostInOrder'
    BY <1>a, <1>0, <1>00 DEF fresh, HostInOrder, HostTyped, RunsOnOwnState, Resetting, Registering, HostStep
  <1>7. Journaled'
    BY <1>a DEF Journaled, StateSettled, RenamePending, HostTyped, HostStep, HostInOrder, Resetting, Registering
  <1>8. Backed'
    <2>1. seen'["pending"] = fresh /\ \A f \in Files \ {"pending"} : seen'[f] = seen[f]
      BY <1>a DEF HostTyped
    <2>2. \A x \in agents \cup requests : Ours(x) => fresh = seen["pending"]
      <3> SUFFICES ASSUME NEW x \in agents \cup requests, Ours(x) PROVE Reusable(seen["pending"])
        BY <1>c
      <3>1. seen["pending"] = [secret |-> x.secret, token |-> x.token] /\ x.token = env.token
        BY DEF Backed, Ours
      <3>2. seen["pending"] # NoFile
        <4>1. x.secret \in Secrets /\ x.token \in RegTokens
          BY DEF ServerTyped, AgentRows, RegRequests, Ours
        <4> QED
          BY <3>1, <4>1 DEF PendingSecrets
      <3> QED
        BY <3>1, <3>2 DEF Reusable
    <2> QED
      BY <1>a, <2>1, <2>2 DEF Backed, Ours, Kept, Resetting, HostStep
  <1> QED
    BY <1>1, <1>2, <1>3, <1>4, <1>5, <1>7, <1>8

(* What is sent is backed by the pending file, on disk too. *)
LEMMA SendRegisterKeeps ==
  ASSUME RegInv, SendRegister
  PROVE  RegInv'
  <1> USE RegAssumption, NoFileAssumption, FilesAre DEF RegInv, serverVars
  <1> DEFINE sent == [token |-> env.token, secret |-> mem.secret, era |-> env.era]
  <1>a. /\ pc = "pending" /\ pc' = "sent" /\ UNCHANGED <<seen, mem, generated>> /\ SyncDir(IdentityDir) /\ HostStep
        /\ requests' = requests \cup {sent}
        /\ seen["pending"] = [secret |-> mem.secret, token |-> env.token]
        /\ seen["pending"] # NoFile /\ mem.secret \in Secrets /\ mem.secret <= generated
        /\ env.token \in RegTokens /\ env.token \in DOMAIN regTokens /\ env.era \in Nat
    BY DEF SendRegister, HostInOrder, HostTyped, Registering, Memories, Environments, Stored, PendingSecrets
  <1>0. sent \in RegRequests /\ sent.token = env.token /\ sent.secret = mem.secret /\ sent.era = env.era
    BY <1>a DEF RegRequests
  <1> HIDE DEF sent
  <1>1. ServerTyped' /\ TokensInOrder' /\ NewestTokenWins'
    BY <1>a, <1>0 DEF HostStep, ServerTyped, TokensInOrder, NewestTokenWins
  <1>2. HostTyped'
    BY <1>a DEF HostTyped, HostStep, SyncDir, Registering
  <1>3. Stored(seen)' /\ Stored(safe)'
    BY <1>a DEF Stored, HostTyped, HostStep, SyncDir
  <1>4. OneTokenPerSecret'
    BY <1>a, <1>0, ClaimsOld DEF Claims, HostTyped, HostStep, SyncDir
  <1>5. HostInOrder'
    BY <1>a DEF HostInOrder, RunsOnOwnState, Resetting, Registering, HostStep
  <1>7. Journaled'
    BY <1>a DEF Journaled, StateSettled, RenamePending, HostInOrder, HostTyped, HostStep, SyncDir, Resetting, Registering
  <1>8. Backed'
    BY <1>a, <1>0 DEF Backed, Ours, Kept, HostInOrder, Registering, Resetting, HostStep, SyncDir
  <1> QED
    BY <1>1, <1>2, <1>3, <1>4, <1>5, <1>7, <1>8

(* The process resolves its identity. *)
LEMMA ResolveKeeps ==
  ASSUME RegInv, Resolve
  PROVE  RegInv'
  <1> DEFINE saved == seen["credentials"]
             mine == saved # NoFile /\ env.token \in {NoFile, saved.token}
  <1>0. /\ saved \in Credentials \cup {NoFile} /\ env \in Environments /\ hostFaults \in Nat
        /\ pc = "resolve" /\ HostStep /\ UNCHANGED <<requests, generated>>
    BY DEF Resolve, RegInv, Stored, HostTyped
  <1>1. ASSUME env.explicit # NoFile, pc' = "open", UNCHANGED <<seen, safe>>, mem' = [mem EXCEPT !.id = env.explicit]
        PROVE  RegInv'
    <2>1. env.explicit \in Identities
      BY <1>0, <1>1 DEF Environments
    <2> QED
      BY <1>0, <1>1, <2>1, IdentityKeeps
  <1>2. ASSUME mine, pc' = "open", UNCHANGED <<seen, safe>>, mem' = [mem EXCEPT !.id = Identity(saved)]
        PROVE  RegInv'
    <2>1. Identity(saved) \in Identities
      BY <1>0, <1>2 DEF Identity, Identities, Credentials
    <2> QED
      BY <1>0, <1>2, <2>1, IdentityKeeps
  <1>3. ASSUME saved # NoFile, ~mine, BeginArchive(IdentityFiles \cup StateFiles, "register")
        PROVE  RegInv'
    <2>1. env.token # NoFile /\ saved.token # env.token
      BY <1>3
    <2>2. IdentityFiles \cup StateFiles \in Journals
      BY DEF Journals
    <2> QED
      BY <1>0, <1>3, <2>1, <2>2, BeginArchiveKeeps
  <1>4. ASSUME saved = NoFile, env.token # NoFile, pc' = "register", UNCHANGED <<mem, seen, safe>>
        PROVE  RegInv'
    BY <1>0, <1>4, RegisterKeeps
  <1>5. ASSUME Exit, UNCHANGED <<seen, safe>>
        PROVE  RegInv'
    BY <1>0, <1>5, ExitKeeps DEF HostStep, serverVars
  <1> QED
    BY <1>1, <1>2, <1>3, <1>4, <1>5, Zenon DEF Resolve

(* The database is opened, refused, or archived for the node's own. *)
LEMMA OpenStoreKeeps ==
  ASSUME RegInv, OpenStore
  PROVE  RegInv'
  <1> DEFINE foreign == seen["db"] \notin {NoFile, mem.id.node}
  <1>0. /\ pc = "open" /\ HostStep /\ UNCHANGED <<requests, generated>> /\ hostFaults \in Nat
        /\ StateFiles \in Journals
    BY DEF OpenStore, RegInv, HostTyped, Journals
  <1>1. ASSUME ~foreign, pc' = "running", UNCHANGED mem, SyncDir(StateFiles),
               seen' = [seen EXCEPT !["db"] = mem.id.node,
                                    !["wal"] = IF @ = NoFile THEN mem.id.node ELSE @]
        PROVE  RegInv'
    BY <1>0, <1>1, RunKeeps
  <1>2. ASSUME BeginArchive(StateFiles, "open")
        PROVE  RegInv'
    BY <1>0, <1>2, BeginArchiveKeeps
  <1>3. ASSUME Exit, UNCHANGED <<seen, safe>>
        PROVE  RegInv'
    BY <1>0, <1>3, ExitKeeps DEF HostStep, serverVars
  <1> QED
    BY <1>1, <1>2, <1>3, Zenon DEF OpenStore

(* The process dies. *)
LEMMA CrashKeeps ==
  ASSUME RegInv, Crash
  PROVE  RegInv'
  <1>1. hostFaults' \in Nat
    BY DEF Crash, HostFault, RegInv, HostTyped
  <1>2. UNCHANGED <<regStatus, regTokens, agents, manual, requests, generated, env, seen, safe, undone>> /\ Exit
    BY DEF Crash, serverVars
  <1> QED
    BY <1>1, <1>2, ExitKeeps

(* What the host has keeps backing what it sent: whoever registers in its  *)
(* name does so with what it sent.                                         *)
LEMMA BackedStays ==
  ASSUME RegInv, UNCHANGED <<env, seen, safe>>,
         pc' \in Resetting => pc \in Resetting /\ mem'.covers = mem.covers,
         \A x \in agents' \cup requests' : x.era # NoFile =>
            \E y \in agents \cup requests : y.secret = x.secret /\ y.token = x.token /\ y.era = x.era
  PROVE  Backed'
  <1>1. env.era \in Nat /\ env.era # NoFile /\ env' = env
    BY RegAssumption DEF RegInv, HostTyped, Environments
  <1>2. ASSUME NEW x \in agents' \cup requests', x.era # NoFile
        PROVE  x.era <= env.era
    BY <1>2 DEF RegInv, Backed
  <1>3. ASSUME NEW x \in agents' \cup requests', x.token # NoFile, x.era = env.era, x.token = env.token
        PROVE  /\ seen["pending"] = [secret |-> x.secret, token |-> x.token] /\ Kept(seen)
               /\ safe["pending"] = [secret |-> x.secret, token |-> x.token] /\ Kept(safe)
               /\ pc \in Resetting => mem.covers = StateFiles
    <2>1. PICK y \in agents \cup requests : y.secret = x.secret /\ y.token = x.token /\ y.era = x.era
      BY <1>1, <1>3
    <2>2. Ours(y)
      BY <1>3, <2>1 DEF Ours
    <2> QED
      BY <2>1, <2>2 DEF RegInv, Backed
  <1> QED
    BY <1>1, <1>2, <1>3 DEF Backed, Ours, Kept

(* Steps of the control plane alone leave the host in order.               *)
LEMMA HostSame ==
  ASSUME RegInv, UNCHANGED hostVars, UNCHANGED hostFaults,
         DOMAIN regTokens \subseteq DOMAIN regTokens', generated' \in Nat, generated <= generated',
         \A x \in agents' \cup requests' : x.era # NoFile =>
            \E y \in agents \cup requests : y.secret = x.secret /\ y.token = x.token /\ y.era = x.era
  PROVE  HostTyped' /\ Stored(seen)' /\ Stored(safe)' /\ HostInOrder' /\ Journaled' /\ Backed'
  <1> USE DEF hostVars
  <1>1. HostTyped'
    BY DEF RegInv, HostTyped
  <1>2. ASSUME NEW c, Stored(c)
        PROVE  c["pending"] # NoFile => c["pending"].secret <= generated' /\ c["pending"].token \in DOMAIN regTokens'
    <2>1. generated \in Nat
      BY DEF RegInv, ServerTyped
    <2>2. c["pending"] # NoFile => c["pending"].secret \in Nat
      BY <1>2 DEF Stored, PendingSecrets, Secrets
    <2>3. c["pending"] # NoFile => c["pending"].secret <= generated /\ c["pending"].token \in DOMAIN regTokens
      BY <1>2 DEF Stored
    <2> QED
      BY <2>1, <2>2, <2>3
  <1>3. Stored(seen)' /\ Stored(safe)'
    BY <1>2 DEF RegInv, Stored
  <1>4. HostInOrder' /\ Journaled'
    BY DEF RegInv, HostInOrder, RunsOnOwnState, Journaled, StateSettled, RenamePending
  <1>5. Backed'
    BY BackedStays
  <1> QED
    BY <1>1, <1>3, <1>4, <1>5

(* A secret that is claimed anew was just generated.                       *)
LEMMA ClaimsNew ==
  ASSUME RegInv, UNCHANGED <<seen, safe>>, NEW token,
         \A x \in requests' \cup agents' :
            \/ \E y \in requests \cup agents : y.secret = x.secret /\ y.token = x.token
            \/ x.secret = generated + 1 /\ x.token = token
  PROVE  OneTokenPerSecret'
  <1>1. \A s \in Secrets, t \in RegTokens \cup {NoFile} : Claims(s, t)' => Claims(s, t) \/ (s = generated + 1 /\ t = token)
    BY DEF Claims
  <1>2. \A s \in Secrets, t \in RegTokens \cup {NoFile} : Claims(s, t) => ~(s = generated + 1)
    BY ClaimsBelow DEF RegInv, ServerTyped, Secrets
  <1> QED
    BY <1>1, <1>2 DEF RegInv, OneTokenPerSecret

(* Appending to the list of tokens. *)
LEMMA AppendToken ==
  ASSUME NEW s \in Seq(TokenRows), NEW e \in TokenRows
  PROVE  /\ Append(s, e) \in Seq(TokenRows) /\ Len(Append(s, e)) = Len(s) + 1
         /\ DOMAIN s = 1..Len(s) /\ DOMAIN Append(s, e) = 1..(Len(s) + 1)
         /\ \A t \in DOMAIN s : Append(s, e)[t] = s[t]
         /\ Append(s, e)[Len(s) + 1] = e /\ Len(s) \in Nat
  OBVIOUS

(* Changing one of the tokens. *)
LEMMA ChangeToken ==
  ASSUME NEW s \in Seq(TokenRows), NEW t \in DOMAIN s, NEW e \in TokenRows
  PROVE  LET c == [s EXCEPT ![t] = e] IN
         /\ c \in Seq(TokenRows) /\ Len(c) = Len(s) /\ DOMAIN c = DOMAIN s
         /\ c[t] = e /\ \A u \in DOMAIN s \ {t} : c[u] = s[u]
  OBVIOUS

(* A token is a row. *)
LEMMA TokenIsRow ==
  ASSUME NEW s \in Seq(TokenRows), NEW t \in DOMAIN s
  PROVE  s[t] \in TokenRows
  OBVIOUS

(* A new node comes with its first token. *)
LEMMA CreatePendingNodeKeeps ==
  ASSUME RegInv, NEW n \in RegNodes, CreatePendingNode(n)
  PROVE  RegInv'
  <1> USE RegAssumption, NoFileAssumption
  <1> DEFINE e == NewToken(n)
             len == Len(regTokens)
  <1>1. /\ regStatus[n] = "none" /\ regStatus' = [regStatus EXCEPT ![n] = "pending_register"]
        /\ regTokens' = Append(regTokens, e) /\ e \in TokenRows /\ e.node = n /\ ~e.used
        /\ UNCHANGED <<agents, manual, requests, generated, env, seen, safe, pc, mem, undone, hostFaults>>
        /\ regTokens \in Seq(TokenRows) /\ len < MaxRegTokens
        /\ regStatus \in [RegNodes -> {"none", "pending_register", "agent_ready"}]
    BY DEF RegInv, CreatePendingNode, NewToken, TokenRows, ServerTyped
  <1> HIDE DEF e
  <1>2. /\ regTokens' \in Seq(TokenRows) /\ Len(regTokens') = len + 1
        /\ DOMAIN regTokens = 1..len /\ DOMAIN regTokens' = 1..(len + 1)
        /\ \A t \in DOMAIN regTokens : regTokens'[t] = regTokens[t]
        /\ regTokens'[len + 1] = e /\ len \in Nat
    BY <1>1, AppendToken
  <1> HIDE DEF len
  <1>3. \A t \in DOMAIN regTokens : regTokens[t].node # n /\ regTokens[t] \in TokenRows
    BY <1>1, <1>2 DEF RegInv, TokensInOrder
  <1>4. ServerTyped'
    BY <1>1, <1>2 DEF RegInv, ServerTyped, len
  <1>5. TokensInOrder'
    <2>1. \A t \in DOMAIN regTokens' : regStatus'[regTokens'[t].node] # "none"
      BY <1>1, <1>2, <1>3 DEF RegInv, TokensInOrder, TokenRows
    <2>2. ASSUME NEW t \in DOMAIN regTokens', NEW u \in DOMAIN regTokens',
                 regTokens'[t].node = regTokens'[u].node, ~regTokens'[t].used
          PROVE  u <= t
      BY <1>1, <1>2, <1>3, <2>2 DEF RegInv, TokensInOrder
    <2>3. \A a \in agents : a.token # NoFile =>
            /\ a.token \in DOMAIN regTokens' /\ regTokens'[a.token].used
            /\ a.node = regTokens'[a.token].node /\ regStatus'[a.node] = "agent_ready"
      BY <1>1, <1>2, <1>3 DEF RegInv, TokensInOrder
    <2> QED
      BY <1>1, <2>1, <2>2, <2>3 DEF TokensInOrder
  <1>6. NewestTokenWins'
    <2>1. \A a \in agents : a.token # NoFile => a.node # n
      BY <1>1 DEF RegInv, TokensInOrder
    <2> QED
      BY <1>1, <1>2, <2>1 DEF RegInv, NewestTokenWins
  <1>7. OneTokenPerSecret'
    BY <1>1, ClaimsOld DEF Claims
  <1>8. /\ HostTyped' /\ Stored(seen)' /\ Stored(safe)' /\ HostInOrder' /\ Journaled' /\ Backed'
    <2>1. generated \in Nat /\ generated <= generated
      BY DEF RegInv, ServerTyped
    <2> QED
      BY <1>1, <1>2, <2>1, HostSame DEF hostVars
  <1> QED
    BY <1>4, <1>5, <1>6, <1>7, <1>8 DEF RegInv

(* A new token closes the open ones of its node, which has no agent yet. *)
LEMMA IssueRegisterTokenKeeps ==
  ASSUME RegInv, NEW n \in RegNodes, IssueRegisterToken(n)
  PROVE  RegInv'
  <1> USE RegAssumption, NoFileAssumption
  <1> DEFINE e == NewToken(n)
             closed == CloseTokens(n)
             len == Len(regTokens)
  <1>0. /\ regTokens \in Seq(TokenRows) /\ len < MaxRegTokens /\ len \in Nat
        /\ regStatus \in [RegNodes -> {"none", "pending_register", "agent_ready"}]
        /\ DOMAIN regTokens = 1..len /\ \A t \in 1..len : regTokens[t] \in TokenRows
    BY DEF RegInv, IssueRegisterToken, ServerTyped
  <1>1. /\ regStatus[n] = "pending_register" /\ UNCHANGED regStatus
        /\ regTokens' = Append(closed, e) /\ e \in TokenRows /\ e.node = n /\ ~e.used
        /\ UNCHANGED <<agents, manual, requests, generated, env, seen, safe, pc, mem, undone, hostFaults>>
    BY DEF IssueRegisterToken, NewToken, TokenRows
  <1>c. /\ closed \in Seq(TokenRows) /\ Len(closed) = len /\ DOMAIN closed = 1..len
        /\ \A t \in 1..len : closed[t].node = regTokens[t].node
        /\ \A t \in 1..len : regTokens[t].used => closed[t].used
        /\ \A t \in 1..len : regTokens[t].node = n => closed[t].used
        /\ \A t \in 1..len : regTokens[t].node # n => closed[t] = regTokens[t]
    <2>1. closed = [t \in 1..len |->
             IF regTokens[t].node = n THEN [regTokens[t] EXCEPT !.used = TRUE] ELSE regTokens[t]]
      BY <1>0 DEF CloseTokens
    <2>2. \A t \in 1..len : closed[t] = IF regTokens[t].node = n THEN [regTokens[t] EXCEPT !.used = TRUE] ELSE regTokens[t]
      BY <2>1
    <2>3. \A t \in 1..len : closed[t] \in TokenRows
      BY <1>0, <2>2 DEF TokenRows
    <2> HIDE DEF closed
    <2>4. closed \in Seq(TokenRows) /\ Len(closed) = len /\ DOMAIN closed = 1..len
      BY <1>0, <2>1, <2>3
    <2> QED
      BY <1>0, <2>2, <2>4 DEF TokenRows
  <1> HIDE DEF e, closed
  <1>2. /\ regTokens' \in Seq(TokenRows) /\ Len(regTokens') = len + 1
        /\ DOMAIN regTokens' = 1..(len + 1)
        /\ \A t \in 1..len : regTokens'[t] = closed[t]
        /\ regTokens'[len + 1] = e
    BY <1>1, <1>c, AppendToken
  <1> HIDE DEF len
  <1>3. \A a \in agents : a.token # NoFile => a.node # n
    BY <1>1 DEF RegInv, TokensInOrder
  <1>4. ServerTyped'
    BY <1>0, <1>1, <1>2 DEF RegInv, ServerTyped, len
  <1>5. TokensInOrder'
    <2>1. \A t \in DOMAIN regTokens' : regStatus'[regTokens'[t].node] # "none"
      BY <1>0, <1>1, <1>2, <1>c DEF RegInv, TokensInOrder
    <2>2. ASSUME NEW t \in DOMAIN regTokens', NEW u \in DOMAIN regTokens',
                 regTokens'[t].node = regTokens'[u].node, ~regTokens'[t].used
          PROVE  u <= t
      <3>1. CASE t = len + 1
        BY <1>0, <1>2, <3>1
      <3>2. CASE t \in 1..len
        <4>1. regTokens[t].node # n /\ regTokens'[t] = regTokens[t] /\ u \in 1..len
          BY <1>0, <1>1, <1>2, <1>c, <2>2, <3>2
        <4> QED
          BY <1>0, <1>2, <1>c, <2>2, <3>2, <4>1 DEF RegInv, TokensInOrder
      <3> QED
        BY <1>0, <1>2, <3>1, <3>2
    <2>3. \A a \in agents : a.token # NoFile =>
            /\ a.token \in DOMAIN regTokens' /\ regTokens'[a.token].used
            /\ a.node = regTokens'[a.token].node /\ regStatus'[a.node] = "agent_ready"
      BY <1>0, <1>1, <1>2, <1>c DEF RegInv, TokensInOrder
    <2> QED
      BY <1>1, <2>1, <2>2, <2>3 DEF TokensInOrder
  <1>6. NewestTokenWins'
    BY <1>0, <1>1, <1>2, <1>3, <1>c DEF RegInv, NewestTokenWins
  <1>7. OneTokenPerSecret'
    BY <1>1, ClaimsOld DEF Claims
  <1>8. /\ HostTyped' /\ Stored(seen)' /\ Stored(safe)' /\ HostInOrder' /\ Journaled' /\ Backed'
    <2>1. generated \in Nat /\ generated <= generated
      BY DEF RegInv, ServerTyped
    <2> QED
      BY <1>0, <1>1, <1>2, <2>1, HostSame DEF hostVars
  <1> QED
    BY <1>4, <1>5, <1>6, <1>7, <1>8 DEF RegInv

(* A token expires. *)
LEMMA ExpireTokenKeeps ==
  ASSUME RegInv, NEW t \in DOMAIN regTokens, ExpireToken(t)
  PROVE  RegInv'
  <1> USE RegAssumption, NoFileAssumption
  <1>0. UNCHANGED <<regStatus, agents, manual, requests, generated, env, seen, safe, pc, mem, undone, hostFaults>>
    BY DEF ExpireToken
  <1>1. /\ regTokens' \in Seq(TokenRows) /\ Len(regTokens') = Len(regTokens)
        /\ DOMAIN regTokens' = DOMAIN regTokens
        /\ \A u \in DOMAIN regTokens : regTokens'[u].node = regTokens[u].node /\ regTokens'[u].used = regTokens[u].used
    <2> DEFINE e == [regTokens[t] EXCEPT !.expired = TRUE]
    <2>1. regTokens \in Seq(TokenRows) /\ regTokens[t] \in TokenRows
      BY TokenIsRow DEF RegInv, ServerTyped
    <2>2. e \in TokenRows /\ e.node = regTokens[t].node /\ e.used = regTokens[t].used
      BY <2>1 DEF TokenRows
    <2>3. regTokens' = [regTokens EXCEPT ![t] = e]
      BY DEF ExpireToken
    <2> HIDE DEF e
    <2> QED
      BY <2>1, <2>2, <2>3, ChangeToken
  <1>2. ServerTyped' /\ TokensInOrder' /\ NewestTokenWins'
    BY <1>0, <1>1 DEF RegInv, ServerTyped, TokensInOrder, NewestTokenWins
  <1>3. OneTokenPerSecret'
    BY <1>0, ClaimsOld DEF Claims
  <1>4. /\ HostTyped' /\ Stored(seen)' /\ Stored(safe)' /\ HostInOrder' /\ Journaled' /\ Backed'
    <2>1. generated \in Nat /\ generated <= generated
      BY DEF RegInv, ServerTyped
    <2> QED
      BY <1>0, <1>1, <2>1, HostSame DEF hostVars
  <1> QED
    BY <1>2, <1>3, <1>4 DEF RegInv

(* registerOnce: an open token makes the agent of its node, anything else  *)
(* leaves the rows alone.                                                  *)
LEMMA RegisterOnceKeeps ==
  ASSUME RegInv, NEW r \in [token : RegTokens, secret : Secrets, era : Nat \cup {NoFile}],
         r.token \in DOMAIN regTokens, NEW outcome, RegisterOnce(r, outcome),
         requests' \subseteq requests, generated' \in 0..MaxSecrets, generated <= generated',
         r.secret <= generated'
  PROVE  /\ ServerTyped' /\ TokensInOrder' /\ NewestTokenWins'
         /\ DOMAIN regTokens' = DOMAIN regTokens
         /\ \A t \in DOMAIN regTokens : regTokens'[t].node = regTokens[t].node
         /\ \A a \in agents' : a \in agents \/ (a.secret = r.secret /\ a.token = r.token /\ a.era = r.era)
  <1> USE RegAssumption, NoFileAssumption
  <1> DEFINE n == regTokens[r.token].node
             a0 == [node |-> n, secret |-> r.secret, token |-> r.token, era |-> r.era, live |-> TRUE]
  <1>0. /\ regTokens \in Seq(TokenRows) /\ n \in RegNodes
        /\ regStatus \in [RegNodes -> {"none", "pending_register", "agent_ready"}] /\ generated \in Nat
    <2>1. regTokens[r.token] \in TokenRows
      BY TokenIsRow DEF RegInv, ServerTyped
    <2> QED
      BY <2>1 DEF RegInv, ServerTyped, TokenRows
  <1>g. \A x \in requests \cup agents : x.secret <= generated'
    <2>1. \A x \in requests \cup agents : x.secret \in Nat /\ x.secret <= generated
      BY DEF RegInv, ServerTyped, RegRequests, AgentRows, Secrets
    <2> QED
      BY <2>1, <1>0
  <1>1. ASSUME UNCHANGED serverVars
        PROVE  /\ ServerTyped' /\ TokensInOrder' /\ NewestTokenWins'
               /\ DOMAIN regTokens' = DOMAIN regTokens
               /\ \A t \in DOMAIN regTokens : regTokens'[t].node = regTokens[t].node
               /\ \A a \in agents' : a \in agents \/ (a.secret = r.secret /\ a.token = r.token /\ a.era = r.era)
    BY <1>1, <1>g DEF RegInv, ServerTyped, TokensInOrder, NewestTokenWins, serverVars
  <1>2. ASSUME Mints(r, n), agents' = agents \cup {a0}, regTokens' = [regTokens EXCEPT ![r.token].used = TRUE],
               regStatus' = [regStatus EXCEPT ![n] = "agent_ready"], UNCHANGED manual
        PROVE  /\ ServerTyped' /\ TokensInOrder' /\ NewestTokenWins'
               /\ DOMAIN regTokens' = DOMAIN regTokens
               /\ \A t \in DOMAIN regTokens : regTokens'[t].node = regTokens[t].node
               /\ \A a \in agents' : a \in agents \/ (a.secret = r.secret /\ a.token = r.token /\ a.era = r.era)
    <2>1. ~regTokens[r.token].used /\ regStatus[n] = "pending_register"
      BY <1>2 DEF Mints
    <2>2. /\ a0 \in AgentRows /\ a0.node = n /\ a0.secret = r.secret /\ a0.token = r.token /\ a0.era = r.era
          /\ r.token # NoFile
      BY <1>0 DEF AgentRows, RegTokens
    <2>3. /\ regTokens' \in Seq(TokenRows) /\ Len(regTokens') = Len(regTokens)
          /\ DOMAIN regTokens' = DOMAIN regTokens
          /\ \A t \in DOMAIN regTokens : regTokens'[t].node = regTokens[t].node
          /\ \A t \in DOMAIN regTokens \ {r.token} : regTokens'[t] = regTokens[t]
          /\ regTokens'[r.token].used
      <3> DEFINE e == [regTokens[r.token] EXCEPT !.used = TRUE]
      <3>1. regTokens[r.token] \in TokenRows
        BY <1>0, TokenIsRow
      <3>2. e \in TokenRows /\ e.node = regTokens[r.token].node /\ e.used
        BY <3>1 DEF TokenRows
      <3>3. regTokens' = [regTokens EXCEPT ![r.token] = e]
        BY <1>2
      <3> HIDE DEF e
      <3> QED
        BY <1>0, <3>2, <3>3, ChangeToken
    <2> HIDE DEF a0
    <2>4. ServerTyped'
      BY <1>0, <1>2, <1>g, <2>2, <2>3 DEF RegInv, ServerTyped
    <2>5. \A a \in agents : a.token # NoFile => a.token # r.token /\ a.node # n
      BY <2>1 DEF RegInv, TokensInOrder
    <2>6. TokensInOrder'
      <3>1. \A t \in DOMAIN regTokens' : regStatus'[regTokens'[t].node] # "none"
        BY <1>0, <1>2, <2>3 DEF RegInv, TokensInOrder, TokenRows
      <3>2. \A t, u \in DOMAIN regTokens' :
              regTokens'[t].node = regTokens'[u].node /\ ~regTokens'[t].used => u <= t
        BY <2>3 DEF RegInv, TokensInOrder
      <3>3. \A a \in agents' : a.token # NoFile =>
              /\ a.token \in DOMAIN regTokens' /\ regTokens'[a.token].used
              /\ a.node = regTokens'[a.token].node /\ regStatus'[a.node] = "agent_ready"
        <4>1. ASSUME NEW a \in agents, a.token # NoFile
              PROVE  /\ a.token \in DOMAIN regTokens' /\ regTokens'[a.token].used
                     /\ a.node = regTokens'[a.token].node /\ regStatus'[a.node] = "agent_ready"
          BY <1>0, <1>2, <2>3, <2>5, <4>1 DEF RegInv, TokensInOrder, TokenRows
        <4>2. /\ a0.token \in DOMAIN regTokens' /\ regTokens'[a0.token].used
              /\ a0.node = regTokens'[a0.token].node /\ regStatus'[a0.node] = "agent_ready"
          BY <1>0, <1>2, <2>2, <2>3
        <4> QED
          BY <1>2, <4>1, <4>2
      <3> QED
        BY <3>1, <3>2, <3>3 DEF TokensInOrder
    <2>7. NewestTokenWins'
      <3>1. \A t \in DOMAIN regTokens : regTokens[t].node = n => t <= r.token
        BY <2>1 DEF RegInv, TokensInOrder
      <3> QED
        BY <1>2, <2>2, <2>3, <2>5, <3>1 DEF RegInv, NewestTokenWins
    <2> QED
      BY <1>2, <2>2, <2>3, <2>4, <2>6, <2>7
  <1> QED
    BY <1>1, <1>2, Zenon DEF RegisterOnce

(* The install command run elsewhere makes an agent with a secret of its own. *)
LEMMA RegisterElsewhereKeeps ==
  ASSUME RegInv, NEW t \in DOMAIN regTokens, RegisterElsewhere(t)
  PROVE  RegInv'
  <1> USE RegAssumption, NoFileAssumption
  <1> DEFINE r == [token |-> t, secret |-> generated', era |-> NoFile]
  <1>0. /\ generated' = generated + 1 /\ generated' \in Secrets /\ generated' \in 0..MaxSecrets /\ generated \in Nat
        /\ UNCHANGED <<requests, env, seen, safe, pc, mem, undone, hostFaults>>
    BY DEF RegisterElsewhere, RegInv, ServerTyped, Secrets
  <1>1. PICK outcome \in {"accepted", "refused"} : RegisterOnce(r, outcome)
    BY Zenon DEF RegisterElsewhere
  <1>2. /\ r \in [token : RegTokens, secret : Secrets, era : Nat \cup {NoFile}]
        /\ r.token \in DOMAIN regTokens /\ r.secret = generated + 1 /\ r.era = NoFile
        /\ r.secret <= generated' /\ generated <= generated'
    BY <1>0 DEF RegInv, ServerTyped, RegTokens
  <1> HIDE DEF r
  <1>3. /\ ServerTyped' /\ TokensInOrder' /\ NewestTokenWins'
        /\ DOMAIN regTokens' = DOMAIN regTokens
        /\ \A a \in agents' : a \in agents \/ (a.secret = r.secret /\ a.token = r.token /\ a.era = r.era)
    BY <1>0, <1>1, <1>2, RegisterOnceKeeps
  <1>4. OneTokenPerSecret'
    BY <1>0, <1>2, <1>3, ClaimsNew
  <1>5. /\ HostTyped' /\ Stored(seen)' /\ Stored(safe)' /\ HostInOrder' /\ Journaled' /\ Backed'
    BY <1>0, <1>2, <1>3, HostSame DEF hostVars
  <1> QED
    BY <1>3, <1>4, <1>5 DEF RegInv

(* A credential is revoked: its agent is no longer live, and nothing else. *)
LEMMA RevokeCredentialKeeps ==
  ASSUME RegInv, NEW a \in agents, RevokeCredential(a)
  PROVE  RegInv'
  <1> DEFINE b == [a EXCEPT !.live = FALSE]
  <1>1. /\ agents' = (agents \ {a}) \cup {b}
        /\ UNCHANGED <<regStatus, regTokens, manual, requests, generated, env, seen, safe, pc, mem, undone, hostFaults>>
        /\ generated \in Nat /\ generated <= generated
    BY DEF RevokeCredential, RegInv, ServerTyped
  <1>2. b \in AgentRows /\ b.node = a.node /\ b.secret = a.secret /\ b.token = a.token /\ b.era = a.era
    BY DEF RegInv, ServerTyped, AgentRows
  <1> HIDE DEF b
  <1>3. ServerTyped' /\ TokensInOrder' /\ NewestTokenWins'
    <2>1. ServerTyped'
      BY <1>1, <1>2 DEF RegInv, ServerTyped
    <2>2. \A x \in agents' : \E y \in agents : x.node = y.node /\ x.secret = y.secret /\ x.token = y.token
      BY <1>1, <1>2
    <2>3. TokensInOrder'
      BY <1>1, <2>2 DEF RegInv, TokensInOrder
    <2>4. NewestTokenWins'
      BY <1>1, <2>2 DEF RegInv, NewestTokenWins
    <2> QED
      BY <2>1, <2>3, <2>4
  <1>4. OneTokenPerSecret'
    BY <1>1, <1>2, ClaimsOld DEF Claims
  <1>5. /\ HostTyped' /\ Stored(seen)' /\ Stored(safe)' /\ HostInOrder' /\ Journaled' /\ Backed'
    BY <1>1, <1>2, HostSame DEF hostVars
  <1> QED
    BY <1>3, <1>4, <1>5 DEF RegInv

(* createCredential reads the agents it will revoke. *)
LEMMA CreateCredentialKeeps ==
  ASSUME RegInv, NEW n \in RegNodes, CreateCredential(n)
  PROVE  RegInv'
  <1>1. /\ UNCHANGED <<regStatus, regTokens, agents, requests, generated, env, seen, safe, pc, mem, undone, hostFaults>>
        /\ generated \in Nat /\ generated <= generated
    BY DEF CreateCredential, RegInv, ServerTyped
  <1>2. manual' \in [node : RegNodes \cup {NoFile}, revokes : SUBSET AgentRows]
    BY DEF CreateCredential, LiveAgents, RegInv, ServerTyped
  <1>3. ServerTyped' /\ TokensInOrder' /\ NewestTokenWins'
    BY <1>1, <1>2 DEF RegInv, ServerTyped, TokensInOrder, NewestTokenWins
  <1>4. OneTokenPerSecret'
    BY <1>1, ClaimsOld DEF Claims
  <1>5. /\ HostTyped' /\ Stored(seen)' /\ Stored(safe)' /\ HostInOrder' /\ Journaled' /\ Backed'
    BY <1>1, HostSame DEF hostVars
  <1> QED
    BY <1>3, <1>4, <1>5 DEF RegInv

(* createCredential commits: a manual agent has a secret of its own and no *)
(* token.                                                                  *)
LEMMA CommitCredentialKeeps ==
  ASSUME RegInv, CommitCredential
  PROVE  RegInv'
  <1> USE RegAssumption, NoFileAssumption
  <1> DEFINE made == [node |-> manual.node, secret |-> generated', token |-> NoFile, era |-> NoFile, live |-> TRUE]
             after(a) == IF a \in manual.revokes THEN [a EXCEPT !.live = FALSE] ELSE a
  <1>1. /\ agents' = {after(a) : a \in agents} \cup {made}
        /\ manual' = [node |-> NoFile, revokes |-> {}]
        /\ UNCHANGED <<regStatus, regTokens, requests, env, seen, safe, pc, mem, undone, hostFaults>>
    BY Zenon DEF CommitCredential
  <1>2. generated' = generated + 1 /\ generated' \in Secrets /\ generated' \in 0..MaxSecrets /\ generated \in Nat
    BY DEF CommitCredential, RegInv, ServerTyped, Secrets
  <1>3. /\ made \in AgentRows /\ made.token = NoFile /\ made.era = NoFile /\ made.secret = generated + 1
    BY <1>2 DEF CommitCredential, RegInv, ServerTyped, AgentRows
  <1>4. \A a \in agents : /\ after(a) \in AgentRows /\ after(a).node = a.node /\ after(a).secret = a.secret
                          /\ after(a).token = a.token /\ after(a).era = a.era
    BY DEF RegInv, ServerTyped, AgentRows
  <1> HIDE DEF made, after
  <1>5. \A x \in agents' : x \in AgentRows /\
           (x = made \/ \E y \in agents : x.node = y.node /\ x.secret = y.secret /\ x.token = y.token /\ x.era = y.era)
    BY <1>1, <1>3, <1>4
  <1>6. ServerTyped'
    <2>1. \A x \in requests \cup agents : x.secret \in Nat /\ x.secret <= generated
      BY DEF RegInv, ServerTyped, RegRequests, AgentRows, Secrets
    <2>2. \A x \in requests \cup agents' : x.secret <= generated'
      BY <2>1, <1>2, <1>3, <1>5
    <2> QED
      BY <1>1, <1>2, <1>5, <2>2 DEF RegInv, ServerTyped
  <1>7. TokensInOrder' /\ NewestTokenWins'
    <2>1. \A x \in agents' : x.token # NoFile =>
            \E y \in agents : x.node = y.node /\ x.secret = y.secret /\ x.token = y.token
      BY <1>3, <1>5
    <2>2. TokensInOrder'
      BY <1>1, <2>1 DEF RegInv, TokensInOrder
    <2>3. NewestTokenWins'
      BY <1>1, <2>1 DEF RegInv, NewestTokenWins
    <2> QED
      BY <2>2, <2>3
  <1>8. OneTokenPerSecret'
    BY <1>1, <1>3, <1>5, ClaimsNew
  <1>9. /\ HostTyped' /\ Stored(seen)' /\ Stored(safe)' /\ HostInOrder' /\ Journaled' /\ Backed'
    BY <1>1, <1>2, <1>3, <1>5, HostSame DEF hostVars
  <1> QED
    BY <1>6, <1>7, <1>8, <1>9 DEF RegInv

(* The control plane answers: the host has the agent's secret already, and *)
(* learns of the identity or of nothing.                                   *)
LEMMA AnswerKeeps ==
  ASSUME RegInv, NEW r \in requests, Answer(r)
  PROVE  RegInv'
  <1> USE RegAssumption, NoFileAssumption
  <1> DEFINE n == regTokens[r.token].node
             id == [node |-> n, secret |-> r.secret]
  <1>0. /\ requests' = requests \ {r} /\ UNCHANGED <<generated, env, seen, safe, undone>>
        /\ r \in [token : RegTokens, secret : Secrets, era : Nat \cup {NoFile}] /\ r.token \in DOMAIN regTokens
        /\ r.secret <= generated /\ generated \in 0..MaxSecrets /\ hostFaults \in Nat /\ mem \in Memories
    BY DEF Answer, RegInv, ServerTyped, RegRequests, HostTyped
  <1>i. id \in Identities /\ id # NoFile
    <2>1. n \in RegNodes
      BY <1>0, TokenIsRow DEF RegInv, ServerTyped, TokenRows
    <2> QED
      BY <1>0, <2>1 DEF Identities
  <1>1. PICK outcome \in {"accepted", "refused"} :
          /\ RegisterOnce(r, outcome)
          /\ \/ /\ pc = "sent" /\ pc' = "granted" /\ UNCHANGED hostFaults /\ mem' = [mem EXCEPT !.id = id]
             \/ pc = "sent" /\ Exit /\ UNCHANGED hostFaults
             \/ pc = "sent" /\ hostFaults' = hostFaults + 1 /\ Exit
             \/ UNCHANGED <<pc, mem, hostFaults>>
    BY Zenon DEF Answer
  <1>2. /\ ServerTyped' /\ TokensInOrder' /\ NewestTokenWins'
        /\ DOMAIN regTokens' = DOMAIN regTokens
        /\ \A a \in agents' : a \in agents \/ (a.secret = r.secret /\ a.token = r.token /\ a.era = r.era)
    <2>1. generated' \in 0..MaxSecrets /\ generated <= generated' /\ r.secret <= generated' /\ requests' \subseteq requests
      BY <1>0
    <2> QED
      BY <1>0, <1>1, <2>1, RegisterOnceKeeps
  <1>3. OneTokenPerSecret'
    BY <1>0, <1>2, ClaimsOld DEF Claims
  <1>4. Stored(seen)' /\ Stored(safe)'
    BY <1>0, <1>2 DEF RegInv, Stored
  <1> HIDE DEF id
  <1>5. ASSUME pc = "sent", pc' = "granted", UNCHANGED hostFaults, mem' = [mem EXCEPT !.id = id]
        PROVE  HostTyped' /\ HostInOrder' /\ Journaled' /\ Backed'
    <2>1. /\ mem' \in Memories /\ mem'.id = id /\ mem'.secret = mem.secret
      BY <1>0, <1>5, <1>i DEF Memories
    <2>2. HostTyped'
      BY <1>0, <1>2, <1>5, <2>1 DEF RegInv, HostTyped, Registering
    <2>3. HostInOrder'
      BY <1>0, <1>5, <1>i, <2>1 DEF RegInv, HostInOrder, RunsOnOwnState, Registering, Resetting
    <2>4. Journaled'
      BY <1>0, <1>5 DEF RegInv, Journaled, StateSettled, RenamePending
    <2>5. Backed'
      BY <1>0, <1>2, <1>5, BackedStays DEF Resetting
    <2> QED
      BY <2>2, <2>3, <2>4, <2>5
  <1>6. ASSUME pc = "sent", Exit, hostFaults' \in {hostFaults, hostFaults + 1}
        PROVE  HostTyped' /\ HostInOrder' /\ Journaled' /\ Backed'
    <2>1. pc' = "off" /\ mem' = NoMem /\ NoMem \in Memories /\ hostFaults' \in Nat /\ (hostFaults' = 0 => hostFaults = 0)
      BY <1>0, <1>6 DEF Exit, NoMem, Memories
    <2>2. HostTyped'
      BY <1>0, <1>2, <2>1 DEF RegInv, HostTyped
    <2>3. HostInOrder'
      BY <1>0, <2>1 DEF RegInv, HostInOrder, RunsOnOwnState, Registering, Resetting
    <2>4. Journaled'
      BY <1>0, <1>6, <2>1 DEF RegInv, Journaled, StateSettled, RenamePending, HostInOrder
    <2>5. Backed'
      BY <1>0, <1>2, <2>1, BackedStays DEF Resetting
    <2> QED
      BY <2>2, <2>3, <2>4, <2>5
  <1>7. ASSUME UNCHANGED <<pc, mem, hostFaults>>
        PROVE  HostTyped' /\ HostInOrder' /\ Journaled' /\ Backed'
    <2>1. HostTyped'
      BY <1>0, <1>2, <1>7 DEF RegInv, HostTyped
    <2>2. HostInOrder' /\ Journaled'
      BY <1>0, <1>7 DEF RegInv, HostInOrder, RunsOnOwnState, Journaled, StateSettled, RenamePending
    <2>3. Backed'
      BY <1>0, <1>2, <1>7, BackedStays
    <2> QED
      BY <2>1, <2>2, <2>3
  <1>8. HostTyped' /\ HostInOrder' /\ Journaled' /\ Backed'
    <2>1. UNCHANGED hostFaults => hostFaults' \in {hostFaults, hostFaults + 1}
      OBVIOUS
    <2>2. hostFaults' = hostFaults + 1 => hostFaults' \in {hostFaults, hostFaults + 1}
      OBVIOUS
    <2> QED
      BY <1>1, <1>5, <1>6, <1>7, <2>1, <2>2, Zenon
  <1> QED
    BY <1>2, <1>3, <1>4, <1>8 DEF RegInv

(* RegInv is inductive: no step of the host, the control plane or the      *)
(* operator, and no failure, breaks it.                                    *)
LEMMA RegStep ==
  ASSUME RegInv, [RegNext]_regVars
  PROVE  RegInv'
  <1>1. CASE RegNext
    BY <1>1, CreatePendingNodeKeeps, IssueRegisterTokenKeeps, CreateCredentialKeeps, ExpireTokenKeeps,
       RegisterElsewhereKeeps, RevokeCredentialKeeps, CommitCredentialKeeps, StartKeeps, SyncJournalKeeps,
       RenameNextKeeps, SyncArchiveKeeps, RemoveJournalKeeps, SyncClearKeeps, ResolveKeeps, PersistPendingKeeps,
       SendRegisterKeeps, SaveCredentialsKeeps, SyncCredentialsKeeps, AnswerKeeps, OpenStoreKeeps, CrashKeeps,
       PowerLossKeeps, ChangeEnvironmentKeeps, DeleteCredentialsKeeps, Zenon DEF RegNext
  <1>2. CASE UNCHANGED regVars
    <2>1. /\ UNCHANGED serverVars /\ UNCHANGED <<requests, generated, env, seen, safe, pc, mem, undone, hostFaults>>
      BY <1>2 DEF regVars, serverVars
    <2>2. ServerTyped' /\ TokensInOrder' /\ NewestTokenWins'
      BY <2>1, ServerSame
    <2>3. OneTokenPerSecret'
      BY <2>1, ClaimsOld DEF Claims, serverVars
    <2>4. /\ HostTyped' /\ Stored(seen)' /\ Stored(safe)' /\ HostInOrder' /\ Journaled' /\ Backed'
      <3>1. generated \in Nat /\ generated <= generated
        BY DEF RegInv, ServerTyped
      <3> QED
        BY <2>1, <3>1, HostSame DEF hostVars, serverVars
    <2> QED
      BY <2>2, <2>3, <2>4 DEF RegInv
  <1> QED
    BY <1>1, <1>2

(* RegInv is the inductive invariant of the registration: what the files,  *)
(* the process and the rows of the control plane say of each other.        *)
THEOREM RegInvHolds == RegSpec => []RegInv
  BY RegInitInv, RegStep, PTL DEF RegSpec

(* RegistrationRecoverable, for every number of nodes, tokens, secrets,    *)
(* environments and failures: the secret of a live agent of the host's     *)
(* present token is in one of its identity files.                          *)
THEOREM RegistrationRecoverableHolds == RegSpec => []RegistrationRecoverable
  <1>1. RegInv => RegistrationRecoverable
    BY DEF RegInv, Backed, Ours, RegistrationRecoverable
  <1> QED
    BY <1>1, RegInvHolds, PTL

(* RunsOnOwnState: an agent that runs has the database and the log of its  *)
(* own node, wherever an earlier reset and its resumption were interrupted, *)
(* unless a power loss took back the journal of a resumed reset and not    *)
(* its renames (undone).                                                   *)
THEOREM RunsOnOwnStateHolds == RegSpec => []RunsOnOwnState
  <1>1. RegInv => RunsOnOwnState
    BY DEF RegInv, HostInOrder
  <1> QED
    BY <1>1, RegInvHolds, PTL

(* TokenInvariant: a secret is never sent to register another node, and    *)
(* the newest token of a node makes its one agent.                         *)
THEOREM TokenInvariantHolds == RegSpec => []TokenInvariant
  <1>1. ASSUME RegInv PROVE RegTypeOK
    <2>1. \A a \in agents : a.node \in RegNodes /\ a.secret \in 1..generated
      BY <1>1, RegAssumption DEF RegInv, ServerTyped, AgentRows, Secrets
    <2>2. \A r \in requests : r.token \in DOMAIN regTokens /\ r.secret \in 1..generated
      BY <1>1, RegAssumption DEF RegInv, ServerTyped, RegRequests, Secrets
    <2> QED
      <3>1. undone \in BOOLEAN
        BY <1>1, Zenon DEF RegInv, Journaled
      <3>2. /\ DOMAIN seen = Files /\ DOMAIN safe = Files
            /\ pc \in {"off", "journal", "archive", "clear", "cleared", "resolve", "register",
                       "pending", "sent", "granted", "saved", "open", "running"}
        BY <1>1 DEF RegInv, HostTyped, Resetting, Registering
      <3> QED
        BY <1>1, <2>1, <2>2, <3>1, <3>2, Zenon DEF RegInv, RegTypeOK, ServerTyped
  <1>2. ASSUME RegInv PROVE NoCrossNodeSecret
    <2> SUFFICES ASSUME NEW r \in requests, NEW a \in agents, r.secret = a.secret
                 PROVE  a.node = regTokens[r.token].node
      BY DEF NoCrossNodeSecret
    <2>1. /\ r.secret \in Secrets /\ r.token \in RegTokens /\ a.token \in RegTokens \cup {NoFile}
      BY <1>2 DEF RegInv, ServerTyped, RegRequests, AgentRows
    <2>2. Claims(r.secret, r.token) /\ Claims(r.secret, a.token)
      BY DEF Claims
    <2>3. a.token = r.token /\ a.token # NoFile
      <3>1. a.token = r.token
        BY <1>2, <2>1, <2>2 DEF RegInv, OneTokenPerSecret
      <3> QED
        BY <2>1, <3>1, RegAssumption DEF RegTokens
    <2> QED
      BY <1>2, <2>3 DEF RegInv, TokensInOrder
  <1>3. RegInv => TokenInvariant
    BY <1>1, <1>2 DEF TokenInvariant, RegInv
  <1> QED
    BY <1>3, RegInvHolds, PTL
=============================================================================
