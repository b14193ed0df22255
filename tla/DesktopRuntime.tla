--------------------------- MODULE DesktopRuntime ---------------------------
(***************************************************************************)
(* The desktop client's connection: the page's connect and disconnect      *)
(* handlers (useRuntimeActions.ts, useRuntimeStatus.ts), its sign-out      *)
(* (useAuthBootstrap.ts), and the native side they call over IPC (lib.rs): *)
(* the runtime state behind a mutex, the kernel process and system proxy   *)
(* it starts, the connection generation that cancels queued starts, and    *)
(* the exit gate.                                                          *)
(*                                                                         *)
(* The page is one thread, so a handler runs without interruption from one *)
(* await to the next; each native command runs on a worker of its own.     *)
(* A command is taken to reach its capture() or invalidate() in the order  *)
(* the page sent it.                                                       *)
(***************************************************************************)
EXTENDS Naturals

CONSTANTS MaxLogins,      \* sign-ins in a behaviour
          MaxConnects,    \* connection attempts
          MaxStops,       \* disconnects the user or an event asks for
          MaxStopFaults,  \* failures of a proxy restore or of a kill
          NoLease         \* a model value: no session lease

ASSUME DesktopAssumption ==
    /\ {MaxLogins, MaxConnects, MaxStops, MaxStopFaults} \subseteq Nat
    /\ NoLease \notin Nat

VARIABLES
    signedIn,    \* sessionRef.current is set
    loginGen,    \* sessionGenerationRef
    flow,        \* handleConnect and the native command it awaits
    stop,        \* localStopInFlightRef and the native disconnect it awaits
    acting,      \* actionBusy = "disconnect"
    clearing,    \* clearSession and the native clear_session it awaits
    generation,  \* CONNECTION_GENERATION
    locked,      \* the runtime mutex is held across steps by the connect worker
    runtime,     \* RuntimeState with the kernel process and the system proxy
    exit,        \* EXIT_CLEANUP
    stoppedAt,   \* history: the generation when the last shutdown ended
    used         \* how much of each bound is spent

desktopVars == <<signedIn, loginGen, flow, stop, acting, clearing, generation,
                 locked, runtime, exit, stoppedAt, used>>

FlowStates == {"idle", "checking", "requesting", "queued", "replacing",
               "preparing", "launching", "proxied", "cleanup",
               "connected", "refused", "reading", "stopping"}

(* RuntimeState: child is the process handle, stray a kernel that still     *)
(* runs without one (its pid is on record), polled a history flag: a status *)
(* read and not the start itself called the connection connected.          *)
NoRuntime == [status |-> "idle", lease |-> NoLease, child |-> FALSE,
              stray |-> FALSE, proxy |-> FALSE, captured |-> 0,
              polled |-> FALSE]

DesktopInit ==
    /\ signedIn = TRUE /\ loginGen = 0
    /\ flow = [pc |-> "idle", login |-> 0, lease |-> NoLease, captured |-> 0]
    /\ stop = "none" /\ acting = FALSE /\ clearing = "none"
    /\ generation = 0 /\ locked = FALSE /\ runtime = NoRuntime
    /\ exit = "running" /\ stoppedAt = 0
    /\ used = [logins |-> 0, connects |-> 0, stops |-> 0, faults |-> 0]

Spend(what) == used' = [used EXCEPT ![what] = @ + 1]

(* What hasActiveRuntime and forceStopLocalRuntime count as running.       *)
Active(r) == \/ r.child \/ r.proxy \/ r.lease # NoLease
             \/ r.status \in {"starting", "connecting", "connected"}

-----------------------------------------------------------------------------
(* The native side.                                                        *)

(* Fault: the starter goes by the generation it sees now.                  *)
CurrentUnchecked == exit = "running"

(* Fault: the exit gate is not asked.                                      *)
CurrentAtExit == flow.captured = generation

(* EXIT_CLEANUP.ensure_running and CONNECTION_GENERATION.ensure_current.   *)
Current == exit = "running" /\ flow.captured = generation

(* shutdown_runtime, under the mutex: the proxy is given back, then the    *)
(* kernel is stopped; a failure of either keeps the state for a retry.     *)
Shutdown(then) ==
    /\ generation' = generation + 1
    /\ \/ /\ runtime' = NoRuntime /\ stoppedAt' = generation'
          /\ then = "ok" /\ UNCHANGED used
       \/ /\ used.faults < MaxStopFaults /\ Spend("faults")
          /\ \/ UNCHANGED runtime
             \/ runtime' = [runtime EXCEPT !.proxy = FALSE]
          /\ then = "failed" /\ UNCHANGED stoppedAt

(* The first critical section of connect_runtime_inner: a stale or late    *)
(* request is turned away, the previous kernel is stopped (a failure ends  *)
(* the attempt) and the proxy of a runtime it knows of given back (a       *)
(* failure is ignored).                                                    *)
NativeBegin ==
    LET admitted == Current /\ runtime.status \notin {"starting", "connecting"}
        hadRuntime == runtime.lease # NoLease \/ runtime.child
        stopped == [runtime EXCEPT !.child = FALSE, !.stray = FALSE,
                                   !.polled = FALSE]
        turnedAway == /\ flow' = [flow EXCEPT !.pc = "cleanup"]
                      /\ UNCHANGED <<locked, runtime>>
        replaced == /\ locked' = TRUE /\ flow' = [flow EXCEPT !.pc = "replacing"]
    IN /\ flow.pc = "queued" /\ ~locked
       /\ \/ ~admitted /\ turnedAway /\ UNCHANGED used
          \/ /\ admitted /\ replaced /\ UNCHANGED used
             /\ runtime' = [stopped EXCEPT !.proxy = @ /\ ~hadRuntime]
          \/ /\ admitted /\ used.faults < MaxStopFaults /\ Spend("faults")
             /\ \/ turnedAway
                \/ replaced /\ runtime' = stopped
       /\ UNCHANGED <<signedIn, loginGen, stop, acting, clearing, generation,
                      exit, stoppedAt>>

(* Its end: another program holds the proxy, or the attempt is adopted.    *)
NativeAdopt ==
    /\ flow.pc = "replacing"
    /\ locked' = FALSE
    /\ \/ /\ runtime' = [runtime EXCEPT !.status = "error", !.lease = NoLease]
          /\ flow' = [flow EXCEPT !.pc = "cleanup"]
       \/ /\ Current
          /\ runtime' = [runtime EXCEPT !.status = "starting",
                                        !.lease = flow.lease,
                                        !.captured = flow.captured]
          /\ flow' = [flow EXCEPT !.pc = "preparing"]
       \/ /\ ~Current
          /\ flow' = [flow EXCEPT !.pc = "cleanup"] /\ UNCHANGED runtime
    /\ UNCHANGED <<signedIn, loginGen, stop, acting, clearing, generation,
                   exit, stoppedAt, used>>

Mine == runtime.status = "starting" /\ runtime.lease = flow.lease

(* The second one: the components are missing, the configuration or the    *)
(* spawn fails, or the kernel is spawned; the worker keeps the mutex until *)
(* the connection is up or given up.                                       *)
NativeLaunch ==
    /\ flow.pc = "preparing" /\ ~locked
    /\ \/ /\ IF Current /\ runtime.lease = flow.lease
               THEN runtime' = [runtime EXCEPT !.status = "error",
                                               !.lease = NoLease]
               ELSE UNCHANGED runtime
          /\ flow' = [flow EXCEPT !.pc = "cleanup"] /\ UNCHANGED locked
       \/ /\ Current /\ Mine
          /\ \/ /\ runtime' = [runtime EXCEPT !.status = "connecting",
                                               !.child = TRUE]
                /\ flow' = [flow EXCEPT !.pc = "launching"] /\ locked' = TRUE
             \/ /\ runtime' = [runtime EXCEPT !.status = "connecting"]
                /\ flow' = [flow EXCEPT !.pc = "cleanup"] /\ UNCHANGED locked
       \/ /\ ~(Current /\ Mine)
          /\ flow' = [flow EXCEPT !.pc = "cleanup"]
          /\ UNCHANGED <<runtime, locked>>
    /\ UNCHANGED <<signedIn, loginGen, stop, acting, clearing, generation,
                   exit, stoppedAt, used>>

(* verify_runtime_ready and set_system_proxy, still under the mutex.       *)
NativeProxy ==
    /\ flow.pc = "launching"
    /\ \/ /\ flow.captured = generation
          /\ runtime' = [runtime EXCEPT !.proxy = TRUE]
          /\ flow' = [flow EXCEPT !.pc = "proxied"] /\ UNCHANGED locked
       \/ /\ flow' = [flow EXCEPT !.pc = "cleanup"] /\ locked' = FALSE
          /\ UNCHANGED runtime
    /\ UNCHANGED <<signedIn, loginGen, stop, acting, clearing, generation,
                   exit, stoppedAt, used>>

NativeConnected ==
    /\ flow.pc = "proxied"
    /\ locked' = FALSE
    /\ IF Current
         THEN /\ runtime' = [runtime EXCEPT !.status = "connected"]
              /\ flow' = [flow EXCEPT !.pc = "connected"]
         ELSE /\ flow' = [flow EXCEPT !.pc = "cleanup"] /\ UNCHANGED runtime
    /\ UNCHANGED <<signedIn, loginGen, stop, acting, clearing, generation,
                   exit, stoppedAt, used>>

(* connect_runtime_blocking takes back a failed attempt it still owns.     *)
Owns == runtime.lease = flow.lease /\ runtime.status # "connected"

(* Fault: the failed attempt is left as it is.                             *)
NativeCleanupNothing ==
    /\ flow.pc = "cleanup" /\ ~locked
    /\ flow' = [flow EXCEPT !.pc = "refused"]
    /\ UNCHANGED <<signedIn, loginGen, stop, acting, clearing, generation,
                   locked, runtime, exit, stoppedAt, used>>

NativeCleanup ==
    /\ flow.pc = "cleanup" /\ ~locked
    /\ flow' = [flow EXCEPT !.pc = "refused"]
    /\ IF Owns
         THEN \/ /\ generation' = generation + 1 /\ stoppedAt' = generation'
                 /\ runtime' = [NoRuntime EXCEPT !.status = "error"]
                 /\ UNCHANGED used
              \/ /\ used.faults < MaxStopFaults /\ Spend("faults")
                 /\ generation' = generation + 1
                 /\ \E kept \in {runtime.proxy, FALSE} :
                       runtime' = [runtime EXCEPT !.status = "error",
                                                  !.proxy = kept]
                 /\ UNCHANGED stoppedAt
         ELSE UNCHANGED <<generation, runtime, stoppedAt, used>>
    /\ UNCHANGED <<signedIn, loginGen, stop, acting, clearing, locked, exit>>

(* The kernel is gone or does not answer: the state lets go of it, keeping *)
(* the lease; the failure to give the proxy back is ignored.               *)
LetGo(alive) ==
    LET lost == [runtime EXCEPT !.status = "error", !.child = FALSE,
                                !.stray = @ \/ alive, !.polled = FALSE]
    IN \/ runtime' = [lost EXCEPT !.proxy = FALSE] /\ UNCHANGED used
       \/ runtime' = lost /\ used.faults < MaxStopFaults /\ Spend("faults")

(* refresh_child_state, which every status or log read runs under the      *)
(* mutex: the process has ended, cannot be asked or has closed its ports   *)
(* (alive: it still runs, without a handle), a start that spawned nothing  *)
(* has no ports either, and a kernel that runs makes "connecting"          *)
(* "connected", although outside the worker's own section only a failed    *)
(* start is "connecting".                                                  *)
RefreshChildState ==
    /\ ~locked /\ exit # "done"
    /\ \/ runtime.child /\ \E alive \in BOOLEAN : LetGo(alive)
       \/ ~runtime.child /\ runtime.status = "connecting" /\ LetGo(FALSE)
       \/ /\ runtime.child /\ runtime.status = "connecting"
          /\ runtime' = [runtime EXCEPT !.status = "connected", !.polled = TRUE]
          /\ UNCHANGED used
    /\ UNCHANGED <<signedIn, loginGen, flow, stop, acting, clearing, generation,
                   locked, exit, stoppedAt>>

(* The worker of disconnect_runtime.                                       *)
NativeStop ==
    /\ stop = "sent" /\ ~locked
    /\ \E end \in {"ok", "failed"} : Shutdown(end) /\ stop' = end
    /\ UNCHANGED <<signedIn, loginGen, flow, acting, clearing, locked, exit>>

(* The worker of clear_session (the stored session is SessionStore's).     *)
NativeClear ==
    /\ clearing = "sent" /\ ~locked
    /\ \E end \in {"ok", "failed"} : Shutdown(end) /\ clearing' = end
    /\ UNCHANGED <<signedIn, loginGen, flow, stop, acting, locked, exit>>

(* The user quits: starts are refused from now on, and the process leaves  *)
(* once the runtime is down; a failed cleanup opens the gate again.        *)
RequestExit ==
    /\ exit = "running" /\ used.stops < MaxStops /\ Spend("stops")
    /\ exit' = "cleaning" /\ generation' = generation + 1
    /\ UNCHANGED <<signedIn, loginGen, flow, stop, acting, clearing, locked,
                   runtime, stoppedAt>>

NativeExit ==
    /\ exit = "cleaning" /\ ~locked
    /\ \E end \in {"ok", "failed"} :
          Shutdown(end) /\ exit' = IF end = "ok" THEN "done" ELSE "running"
    /\ UNCHANGED <<signedIn, loginGen, flow, stop, acting, clearing, locked>>

-----------------------------------------------------------------------------
(* The page.                                                               *)

IsCurrentLogin == signedIn /\ flow.login = loginGen

Rest == [flow EXCEPT !.pc = "idle", !.lease = NoLease]

(* forceStopLocalRuntime joins a stop under way or sends disconnect_runtime,*)
(* which cancels queued starts before it waits for the mutex.              *)
JoinStop == IF stop = "none"
              THEN stop' = "sent" /\ generation' = generation + 1
              ELSE UNCHANGED <<stop, generation>>

(* handleConnect up to its first await.  desktopStatus, the page's copy of  *)
(* the status, may be a poll behind and an automatic reconnect passes it   *)
(* over, so it holds no attempt back.                                      *)
StartConnect ==
    /\ flow.pc = "idle" /\ signedIn /\ ~acting
    /\ used.connects < MaxConnects /\ Spend("connects")
    /\ flow' = [flow EXCEPT !.pc = "checking", !.login = loginGen]
    /\ UNCHANGED <<signedIn, loginGen, stop, acting, clearing, generation,
                   locked, runtime, exit, stoppedAt>>

(* The network check and the assets are through, or the attempt ends.      *)
RequestLease ==
    /\ flow.pc = "checking"
    /\ \/ IsCurrentLogin /\ flow' = [flow EXCEPT !.pc = "requesting"]
       \/ flow' = Rest
    /\ UNCHANGED <<signedIn, loginGen, stop, acting, clearing, generation,
                   locked, runtime, exit, stoppedAt, used>>

(* connectSession answers with a lease: a sign-out meanwhile gives it back, *)
(* otherwise connect_runtime is sent.                                      *)
LeaseGranted ==
    /\ flow.pc = "requesting"
    /\ flow' = IF IsCurrentLogin
                 THEN [flow EXCEPT !.pc = "queued", !.lease = used.connects,
                                   !.captured = generation]
                 ELSE Rest
    /\ UNCHANGED <<signedIn, loginGen, stop, acting, clearing, generation,
                   locked, runtime, exit, stoppedAt, used>>

(* A failed request or a refused start: the status is read; after a        *)
(* sign-out only the lease is given back.                                  *)
ConnectFailed ==
    /\ flow.pc \in {"requesting", "refused"}
    /\ flow' = IF IsCurrentLogin THEN [flow EXCEPT !.pc = "reading"] ELSE Rest
    /\ UNCHANGED <<signedIn, loginGen, stop, acting, clearing, generation,
                   locked, runtime, exit, stoppedAt, used>>

(* The status of the failed start is in: the local runtime is stopped.     *)
StopFailedConnect ==
    /\ flow.pc = "reading" /\ JoinStop
    /\ flow' = [flow EXCEPT !.pc = "stopping"]
    /\ UNCHANGED <<signedIn, loginGen, acting, clearing, locked, runtime,
                   exit, stoppedAt, used>>

(* connect_runtime succeeded: setRuntime, or after a sign-out the lease is *)
(* given back.                                                             *)
ConnectDone ==
    /\ flow.pc = "connected" /\ flow' = Rest
    /\ UNCHANGED <<signedIn, loginGen, stop, acting, clearing, generation,
                   locked, runtime, exit, stoppedAt, used>>

(* handleDisconnect, handleForcedGuidance, handleEmergencyDisconnect.      *)
DisconnectCurrentRuntime ==
    /\ ~acting /\ (Active(runtime) \/ flow.pc # "idle")
    /\ used.stops < MaxStops /\ Spend("stops")
    /\ acting' = TRUE /\ JoinStop
    /\ UNCHANGED <<signedIn, loginGen, flow, clearing, locked, runtime, exit,
                   stoppedAt>>

(* The stop's answer with the status read after it: everyone awaiting the  *)
(* stop goes on; only a confirmed stop lets a sign-out continue.           *)
FinishStop ==
    /\ stop \in {"ok", "failed"} /\ stop' = "none" /\ acting' = FALSE
    /\ flow' = IF flow.pc = "stopping" THEN Rest ELSE flow
    /\ IF clearing # "stopping" THEN UNCHANGED <<clearing, generation>>
       ELSE IF stop = "ok" /\ ~Active(runtime)
              THEN clearing' = "sent" /\ generation' = generation + 1
              ELSE clearing' = "none" /\ UNCHANGED generation
    /\ UNCHANGED <<signedIn, loginGen, locked, runtime, exit, stoppedAt, used>>

(* clearSession and handleLogout: operations of this login are invalidated *)
(* first, then the runtime is stopped.                                     *)
ClearSession ==
    /\ signedIn /\ clearing = "none" /\ used.stops < MaxStops /\ Spend("stops")
    /\ loginGen' = loginGen + 1 /\ clearing' = "stopping" /\ JoinStop
    /\ UNCHANGED <<signedIn, flow, acting, locked, runtime, exit, stoppedAt>>

(* clear_session answered: the page forgets the session, or keeps it when  *)
(* the native side failed.                                                 *)
FinishClear ==
    /\ clearing \in {"ok", "failed"} /\ clearing' = "none"
    /\ IF clearing = "ok"
         THEN signedIn' = FALSE /\ loginGen' = loginGen + 1
         ELSE UNCHANGED <<signedIn, loginGen>>
    /\ UNCHANGED <<flow, stop, acting, generation, locked, runtime, exit,
                   stoppedAt, used>>

(* handleLogin's setSession.                                               *)
Login ==
    /\ ~signedIn /\ used.logins < MaxLogins /\ Spend("logins")
    /\ signedIn' = TRUE /\ loginGen' = loginGen + 1
    /\ UNCHANGED <<flow, stop, acting, clearing, generation, locked, runtime,
                   exit, stoppedAt>>

-----------------------------------------------------------------------------
DesktopNext ==
    \/ NativeBegin \/ NativeAdopt \/ NativeLaunch \/ NativeProxy
    \/ NativeConnected \/ NativeCleanup \/ RefreshChildState
    \/ NativeStop \/ NativeClear
    \/ RequestExit \/ NativeExit
    \/ StartConnect \/ RequestLease \/ LeaseGranted \/ ConnectFailed
    \/ StopFailedConnect \/ ConnectDone \/ DisconnectCurrentRuntime \/ FinishStop
    \/ ClearSession \/ FinishClear \/ Login

DesktopSpec == DesktopInit /\ [][DesktopNext]_desktopVars

-----------------------------------------------------------------------------
(* Every variable of the client keeps its type.                            *)
DesktopTypeOK ==
    /\ signedIn \in BOOLEAN /\ loginGen \in Nat
    /\ flow \in [pc : FlowStates, login : Nat, lease : Nat \cup {NoLease},
                 captured : Nat]
    /\ stop \in {"none", "sent", "ok", "failed"} /\ acting \in BOOLEAN
    /\ clearing \in {"none", "stopping", "sent", "ok", "failed"}
    /\ generation \in Nat /\ locked \in BOOLEAN
    /\ runtime \in [status : {"idle", "starting", "connecting", "connected",
                              "error"},
                    lease : Nat \cup {NoLease}, child : BOOLEAN,
                    stray : BOOLEAN, proxy : BOOLEAN, captured : Nat,
                    polled : BOOLEAN]
    /\ exit \in {"running", "cleaning", "done"} /\ stoppedAt \in Nat

(* A start requested before a disconnect, a sign-out or an exit cannot     *)
(* bring the runtime back after it has been shut down: whatever runs was   *)
(* requested after the last completed shutdown.                            *)
StopWins == Active(runtime) => runtime.captured >= stoppedAt

(* When no start is under way and neither a stop nor a proxy restore has    *)
(* failed, a kernel or a system proxy is left only for a connection shown  *)
(* as connected, and a kernel without the proxy only where a status read   *)
(* came between the failure of a start and its cleanup and called it       *)
(* connected: nothing else leaks the process of a failed or cancelled      *)
(* attempt or leaves the proxy pointing at it.                             *)
NoOrphanKernel ==
    /\ flow.pc \notin {"launching", "proxied", "cleanup"} /\ used.faults = 0
    /\ runtime.child \/ runtime.proxy
    => /\ runtime.status = "connected" /\ runtime.child
       /\ runtime.proxy \/ runtime.polled

(* A kernel whose handle a status read dropped is shown as an error and     *)
(* never runs beside a newer one: whatever starts or stops the runtime     *)
(* finds it by the recorded pid first.                                     *)
StrayIsAlone == runtime.stray => runtime.status = "error" /\ ~runtime.child

(* Once the exit cleanup is complete nothing of the connection is left     *)
(* running, whatever start was queued when the user quit.                  *)
ExitLeavesNothing == exit = "done" => ~Active(runtime) /\ ~runtime.stray

(* "A completed request from a signed-out account must never start a local *)
(* connection": with nothing in flight, a signed-out client is not         *)
(* connected.                                                              *)
SignedOutIsStopped ==
    ~signedIn /\ flow.pc = "idle" /\ stop = "none" /\ clearing = "none"
        => ~Active(runtime)

(* The runtime is in order: types, no kernel or proxy without a connection *)
(* (but for a failed start a status read has called connected), no two     *)
(* kernels, and nothing left once the application has exited.              *)
RuntimeInvariant ==
    DesktopTypeOK /\ NoOrphanKernel /\ StrayIsAlone /\ ExitLeavesNothing
=============================================================================
