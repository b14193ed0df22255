---------------------------- MODULE SessionStore ----------------------------
(***************************************************************************)
(* The desktop client's login: single-use refresh tokens at the server     *)
(* (auth-session.service.ts), the credential file behind a lock, a         *)
(* tombstone epoch and a set of retired tokens (session_store.rs), the     *)
(* native refresher the heartbeat thread uses (lib.rs), and the page's     *)
(* login, sign-out and single-flight recovery (useAuthBootstrap.ts,        *)
(* desktopSessionRecovery.ts, nativeSessionRefresh.ts).                    *)
(*                                                                         *)
(* A session is named by its refresh token.  Stopping the runtime before a *)
(* sign-out is DesktopRuntime's.                                           *)
(***************************************************************************)
EXTENDS Naturals

CONSTANTS MaxTokens,   \* sessions the server issues
          MaxClears,   \* sign-outs the user asks for
          MaxRefreshes,\* refreshes the heartbeat or the page starts
          MaxStoreFaults, \* lost answers, revocations of every session, and
                          \* writes, removals and stops that fail
          NoTok        \* a model value: no session

ASSUME StoreAssumption ==
    /\ MaxTokens \in Nat \ {0} /\ NoTok \notin Nat
    /\ {MaxClears, MaxRefreshes, MaxStoreFaults} \subseteq Nat

Tokens == 1..MaxTokens
Askers == {"user", "recovery"}

VARIABLES
    issued,    \* server: how many tokens it has issued
    live,      \* server: refresh tokens neither spent, revoked nor expired
    page,      \* sessionRef.current
    epoch,     \* SessionStore.epoch: odd while the stored session is void
    next,      \* SessionStore.next: the last ticket number handed out
    order,     \* Committed.order
    retired,   \* Committed.retired
    disk,      \* the session file with the epoch of the ticket it came under
    writing,   \* the save that holds the io lock between write and publish
    native,    \* the native refresh, behind its async mutex
    events,    \* native-session-refreshed on its way to the page
    login,     \* handleLogin
    recovery,  \* recoverDesktopSessionAfterUnauthorized
    clear,     \* clearSession, as the user and as the recovery ask for it
    voided,    \* history: the epoch the last sign-out made
    spent      \* how much of each bound is used

storeVars == <<issued, live, page, epoch, next, order, retired, disk,
               writing, native, events, login, recovery, clear, voided, spent>>

NoTicket == [epoch |-> 0, order |-> 0]
NoWrite == [who |-> "none", expected |-> 0]
Resting == [pc |-> "idle", token |-> NoTok, got |-> NoTok, ticket |-> NoTicket]
NotClearing == [pc |-> "idle", expected |-> 0]
Stopping == [NotClearing EXCEPT !.pc = "stopping"]

StoreInit ==
    /\ issued = 1 /\ live = {1}
    /\ page = 1
    /\ epoch = 0 /\ next = 0 /\ order = 0 /\ retired = {}
    /\ disk = [token |-> 1, epoch |-> 0] /\ writing = NoWrite
    /\ native = Resting /\ events = {}
    /\ login = Resting /\ recovery = Resting
    /\ clear = [a \in Askers |-> NotClearing]
    /\ voided = 0
    /\ spent = [clears |-> 0, refreshes |-> 0, faults |-> 0]

Spent(what) == spent' = [spent EXCEPT ![what] = @ + 1]
StoreFault == spent.faults < MaxStoreFaults /\ Spent("faults")
Odd(n) == n % 2 = 1
Unlocked == writing.who = "none"
Readable == ~Odd(epoch) /\ disk.token # NoTok

(* Fault: the ticket is numbered ahead of the counter. *)
TicketAhead == [epoch |-> epoch, order |-> next + 2]

(* SessionStore.reserve, with next' = next + 1. *)
Ticket == [epoch |-> epoch, order |-> next + 1]

-----------------------------------------------------------------------------
(* The server.                                                             *)

(* rotateRefreshToken: one transaction revokes the presented token, if it  *)
(* is still live, and creates its successor; a dead token is refused, and  *)
(* so is one of a disabled account.  The answer may get lost on either way. *)
Rotate(t, outcome, got) ==
    \/ /\ t \in live /\ issued < MaxTokens
       /\ issued' = issued + 1 /\ live' = (live \ {t}) \cup {issued'}
       /\ \/ outcome = "granted" /\ got = issued' /\ UNCHANGED spent
          \/ /\ outcome = "lost" /\ got = NoTok
             /\ StoreFault
    \/ /\ outcome = "refused" /\ got = NoTok
       /\ UNCHANGED <<issued, live, spent>>
    \/ /\ outcome = "lost" /\ got = NoTok
       /\ StoreFault
       /\ UNCHANGED <<issued, live>>

(* revokeAllUserSessions, after a password or role change.                  *)
RevokeAllUserSessions ==
    /\ StoreFault /\ live' = {}
    /\ UNCHANGED <<issued, page, epoch, next, order, retired, disk,
                   writing, native, events, login, recovery, clear, voided>>

-----------------------------------------------------------------------------
(* The credential file.                                                    *)

(* save_inner's admission of a save: the login its ticket belongs to is    *)
(* the current one, no newer save is committed, the token is not retired.  *)
SameLogin(ticket) == \/ epoch = ticket.epoch
                     \/ Odd(ticket.epoch) /\ epoch = ticket.epoch + 1

(* Fault: a save is admitted whatever has been rotated meanwhile.          *)
AdmitsRetired(token, ticket) == SameLogin(ticket) /\ ticket.order > order

Admits(token, ticket) ==
    SameLogin(ticket) /\ ticket.order > order /\ token \notin retired

(* The write, under the io lock but not yet published.                     *)
Write(who, token, ticket) ==
    /\ disk' = [token |-> token, epoch |-> ticket.epoch]
    /\ writing' = [who |-> who, expected |-> epoch]

(* compare_exchange: a tombstone becomes the next even epoch, unless an    *)
(* invalidation came in between.                                           *)
Published == epoch = writing.expected

(* Fault: the epoch is stored without comparing it.                        *)
PublishBlind(ticket) ==
    /\ writing' = NoWrite
    /\ epoch' = writing.expected + (writing.expected % 2)
    /\ order' = IF ticket.order > order THEN ticket.order ELSE order

Publish(ticket) ==
    /\ writing' = NoWrite
    /\ IF Published
         THEN /\ epoch' = epoch + (epoch % 2)
              /\ order' = IF ticket.order > order THEN ticket.order ELSE order
         ELSE UNCHANGED <<epoch, order>>

-----------------------------------------------------------------------------
(* The native refresher.                                                   *)

(* refresh_access_session after it has its mutex: without a stored session *)
(* it fails, with one newer than the caller's it returns that one,         *)
(* otherwise it asks the server.                                           *)
Ask == [pc |-> "network", token |-> disk.token, got |-> NoTok, ticket |-> Ticket]

HeartbeatRefresh ==
    /\ native.pc = "idle" /\ Unlocked /\ Readable
    /\ spent.refreshes < MaxRefreshes /\ Spent("refreshes")
    /\ native' = Ask /\ next' = next + 1
    /\ UNCHANGED <<issued, live, page, epoch, order, retired, disk,
                   writing, events, login, recovery, clear, voided>>

RecoverNative ==
    /\ recovery.pc = "native" /\ native.pc = "idle" /\ Unlocked
    /\ next' = next + 1
    /\ IF Readable /\ disk.token = recovery.token
         THEN /\ native' = Ask
              /\ recovery' = [recovery EXCEPT !.pc = "waiting"]
         ELSE /\ recovery' = IF Readable
                    THEN [recovery EXCEPT !.pc = "save", !.got = disk.token]
                    ELSE [recovery EXCEPT !.pc = "http"]
              /\ UNCHANGED native
    /\ UNCHANGED <<issued, live, page, epoch, order, retired, disk,
                   writing, events, login, clear, voided, spent>>

NativeExchange ==
    /\ native.pc = "network"
    /\ \E outcome \in {"granted", "refused", "lost"}, got \in Tokens \cup {NoTok} :
          /\ Rotate(native.token, outcome, got)
          /\ native' = [native EXCEPT !.pc = outcome, !.got = got]
    /\ UNCHANGED <<page, epoch, next, order, retired, disk, writing, events,
                   login, recovery, clear, voided>>

(* A refresh that failed releases the mutex; a recovery falls back to HTTP. *)
NativeFailed(keep) ==
    /\ native' = Resting
    /\ recovery' = IF recovery.pc = "waiting"
                     THEN [recovery EXCEPT !.pc = "http"] ELSE recovery
    /\ UNCHANGED keep

NativeGivesUp ==
    /\ native.pc \in {"refused", "lost"} /\ NativeFailed(disk)
    /\ UNCHANGED <<issued, live, page, epoch, next, order, retired,
                   writing, events, login, clear, voided, spent>>

(* SessionStore.rotate: only the session the refresh started from is       *)
(* replaced; the write may fail.                                           *)
Replaces == SameLogin(native.ticket) /\ disk.token = native.token

NativeWrite ==
    /\ native.pc = "granted" /\ Unlocked
    /\ \/ /\ Replaces /\ Write("native", native.got, native.ticket)
          /\ UNCHANGED <<native, recovery, spent>>
       \/ /\ IF Replaces THEN StoreFault ELSE UNCHANGED spent
          /\ NativeFailed(<<disk, writing>>)
    /\ UNCHANGED <<issued, live, page, epoch, next, order, retired,
                   events, login, clear, voided>>

(* Published, the session can still fail to get its permissions: nobody    *)
(* hears of it then.                                                       *)
NativePublish ==
    /\ writing.who = "native" /\ Publish(native.ticket)
    /\ retired' = IF Published THEN retired \cup {native.token} ELSE retired
    /\ \/ /\ Published /\ UNCHANGED spent
          /\ events' = events \cup {<<native.token, native.got>>}
          /\ native' = Resting
          /\ recovery' = IF recovery.pc = "waiting"
                THEN [recovery EXCEPT !.pc = "save", !.got = native.got]
                ELSE recovery
       \/ /\ IF Published THEN StoreFault ELSE UNCHANGED spent
          /\ NativeFailed(events)
    /\ UNCHANGED <<issued, live, page, next, disk, login, clear,
                   voided>>

(* canApplyNativeSessionRefresh: the page follows a rotation of its own    *)
(* session.                                                                *)
DeliverEvent ==
    \E e \in events :
       /\ events' = events \ {e}
       /\ page' = IF page = e[1] THEN e[2] ELSE page
       /\ UNCHANGED <<issued, live, epoch, next, order, retired, disk,
                      writing, native, login, recovery, clear, voided, spent>>

-----------------------------------------------------------------------------
(* Login and recovery on the page.                                         *)

BeginLogin ==
    /\ page = NoTok /\ login.pc = "idle" /\ issued < MaxTokens
    /\ issued' = issued + 1 /\ live' = live \cup {issued'}
    /\ login' = [login EXCEPT !.pc = "save", !.got = issued']
    /\ UNCHANGED <<page, epoch, next, order, retired, disk, writing, native,
                   events, recovery, clear, voided, spent>>

(* recoverDesktopSessionAfterUnauthorized, single-flight by its task ref.  *)
StartRecovery ==
    /\ recovery.pc = "idle" /\ page # NoTok
    /\ spent.refreshes < MaxRefreshes /\ Spent("refreshes")
    /\ recovery' = [Resting EXCEPT !.pc = "native", !.token = page]
    /\ UNCHANGED <<issued, live, page, epoch, next, order, retired,
                   disk, writing, native, events, login, clear, voided>>

(* The recovery signs the page out and waits for that.                     *)
RecoveryClears ==
    /\ clear' = [clear EXCEPT !["recovery"] = Stopping]
    /\ recovery' = [recovery EXCEPT !.pc = "clearing"]

RecoverHttp ==
    /\ recovery.pc = "http"
    /\ \E outcome \in {"granted", "refused", "lost"}, got \in Tokens \cup {NoTok} :
          /\ Rotate(recovery.token, outcome, got)
          /\ \/ /\ outcome = "granted" /\ UNCHANGED clear
                /\ recovery' = [recovery EXCEPT !.pc = "save", !.got = got]
             \/ outcome = "refused" /\ RecoveryClears
             \/ outcome = "lost" /\ recovery' = Resting /\ UNCHANGED clear
    /\ UNCHANGED <<page, epoch, next, order, retired, disk, writing, native,
                   events, login, voided>>

(* save_session: the command reserves its ticket, a worker commits it.     *)
(* "keep" is a recovery that saves again the session the page holds.       *)
Reserve ==
    /\ next' = next + 1
    /\ \/ /\ login.pc = "save" /\ UNCHANGED recovery
          /\ login' = [login EXCEPT !.pc = "saving", !.ticket = Ticket]
       \/ /\ recovery.pc = "save" /\ UNCHANGED login
          /\ recovery' = [recovery EXCEPT !.pc = "saving", !.ticket = Ticket]
       \/ /\ recovery.pc = "keep" /\ UNCHANGED login
          /\ recovery' = [recovery EXCEPT !.pc = "keeping", !.ticket = Ticket]
    /\ UNCHANGED <<issued, live, page, epoch, order, retired, disk,
                   writing, native, events, clear, voided, spent>>

(* A rejected save, or one that cannot be written, ends the login or the   *)
(* recovery that asked for it.                                             *)
Refused(flow) == IF Admits(flow.got, flow.ticket) THEN StoreFault ELSE UNCHANGED spent

SaveWrite ==
    /\ Unlocked
    /\ \/ /\ login.pc = "saving" /\ UNCHANGED recovery
          /\ \/ /\ Admits(login.got, login.ticket)
                /\ Write("login", login.got, login.ticket) /\ UNCHANGED <<login, spent>>
             \/ Refused(login) /\ login' = Resting /\ UNCHANGED <<disk, writing>>
       \/ /\ recovery.pc \in {"saving", "keeping"} /\ UNCHANGED login
          /\ \/ /\ Admits(recovery.got, recovery.ticket)
                /\ Write("recovery", recovery.got, recovery.ticket)
                /\ UNCHANGED <<recovery, spent>>
             \/ Refused(recovery) /\ recovery' = Resting /\ UNCHANGED <<disk, writing>>
    /\ UNCHANGED <<issued, live, page, epoch, next, order, retired,
                   native, events, clear, voided>>

(* The answer of the save: it is an error also when the published file does *)
(* not get its permissions.                                                *)
SavePublish ==
    /\ \/ /\ writing.who = "login" /\ Publish(login.ticket) /\ UNCHANGED recovery
          /\ \/ Published /\ login' = [login EXCEPT !.pc = "boot"] /\ UNCHANGED spent
             \/ /\ IF Published THEN StoreFault ELSE UNCHANGED spent
                /\ login' = Resting
       \/ /\ writing.who = "recovery" /\ Publish(recovery.ticket) /\ UNCHANGED login
          /\ \/ /\ Published /\ recovery.pc = "saving" /\ UNCHANGED spent
                /\ recovery' = [recovery EXCEPT !.pc = "boot"]
             \/ /\ IF Published /\ recovery.pc = "saving" THEN StoreFault ELSE UNCHANGED spent
                /\ recovery' = Resting
    /\ UNCHANGED <<issued, live, page, next, retired, disk, native,
                   events, clear, voided>>

(* bootstrapSession with the new session.  The page takes it over; or the  *)
(* account may not go on and the page signs out, which handleLogin follows *)
(* by discarding what it saved; or, for any other error, it just discards. *)
BootLogin ==
    /\ login.pc = "boot"
    /\ \/ page' = login.got /\ login' = Resting /\ UNCHANGED clear
       \/ /\ clear["user"].pc = "idle"
          /\ clear' = [clear EXCEPT !["user"] = Stopping]
          /\ \E pc \in {"clearing", "discarding"} : login' = [login EXCEPT !.pc = pc]
          /\ UNCHANGED page
    /\ UNCHANGED <<issued, live, epoch, next, order, retired, disk,
                   writing, native, events, recovery, voided, spent>>

(* The same in a recovery: an account that may not go on (dead token,      *)
(* barred user, no subscription) is signed out, after any other error the  *)
(* page keeps the refreshed session and saves it again.                    *)
BootRecovery ==
    /\ recovery.pc = "boot"
    /\ \/ page' = recovery.got /\ recovery' = Resting /\ UNCHANGED clear
       \/ RecoveryClears /\ UNCHANGED page
       \/ /\ page' = recovery.got /\ UNCHANGED clear
          /\ recovery' = [recovery EXCEPT !.pc = "keep"]
    /\ UNCHANGED <<issued, live, epoch, next, order, retired, disk,
                   writing, native, events, login, voided, spent>>

-----------------------------------------------------------------------------
(* Signing out.                                                            *)

(* handleLogout: the page stops the runtime first.                         *)
SignOut ==
    /\ page # NoTok /\ clear["user"].pc = "idle"
    /\ spent.clears < MaxClears /\ Spent("clears")
    /\ clear' = [clear EXCEPT !["user"] = Stopping]
    /\ UNCHANGED <<issued, live, page, epoch, next, order, retired, disk,
                   writing, native, events, login, recovery, voided>>

(* clear_session: the stored session is void at once ((e + 2) | 1), the    *)
(* file goes when the worker has the io lock, unless a newer login saved.  *)
(* Of a user's sign-out the server hears, or not.                          *)
OfLogin == login.pc \in {"clearing", "discarding"}

Invalidate(a) ==
    /\ clear[a].pc = "stopping"
    /\ live' \in {live} \cup (IF a = "user" /\ ~OfLogin THEN {live \ {page}} ELSE {})
    /\ epoch' = IF Odd(epoch) THEN epoch + 2 ELSE epoch + 3
    /\ clear' = [clear EXCEPT ![a].pc = "sent", ![a].expected = epoch']
    /\ voided' = epoch'
    /\ UNCHANGED <<issued, page, next, order, retired, disk,
                   writing, native, events, login, recovery, spent>>

(* Fault: the worker removes the file whatever has been saved meanwhile.   *)
ClearFileAnyway(a) ==
    /\ clear[a].pc = "sent" /\ Unlocked
    /\ disk' = [disk EXCEPT !.token = NoTok]
    /\ clear' = [clear EXCEPT ![a].pc = "cleared"]
    /\ UNCHANGED <<issued, live, page, epoch, next, order, retired,
                   writing, native, events, login, recovery, voided, spent>>

ClearFile(a) ==
    /\ clear[a].pc = "sent" /\ Unlocked
    /\ disk' = IF epoch = clear[a].expected THEN [disk EXCEPT !.token = NoTok]
                                            ELSE disk
    /\ clear' = [clear EXCEPT ![a].pc = "cleared"]
    /\ UNCHANGED <<issued, live, page, epoch, next, order, retired,
                   writing, native, events, login, recovery, voided, spent>>

(* The runtime does not stop, or the file does not go: the page keeps what *)
(* it has, and a tombstone stays.  Where a refused refresh led there, the  *)
(* page keeps the session of before and saves it again.                    *)
ClearFails(a) ==
    /\ \/ clear[a].pc = "stopping" /\ ~(a = "user" /\ login.pc = "discarding")
       \/ clear[a].pc = "sent" /\ Unlocked /\ epoch = clear[a].expected
    /\ StoreFault /\ clear' = [clear EXCEPT ![a] = NotClearing]
    /\ login' = IF a = "user" /\ OfLogin THEN Resting ELSE login
    /\ \/ /\ recovery' = IF a = "recovery" THEN Resting ELSE recovery
          /\ UNCHANGED <<page>>
       \/ /\ a = "recovery" /\ recovery.pc = "clearing" /\ recovery.got = NoTok
          /\ page # NoTok
          /\ recovery' = [recovery EXCEPT !.pc = "keep", !.got = recovery.token]
          /\ page' = recovery.token
    /\ UNCHANGED <<issued, live, epoch, next, order, retired, disk,
                   writing, native, events, voided>>

(* The page forgets the session; a failed login's clear is followed by     *)
(* another, after which the page is left alone.                            *)
ForgetSession(a) ==
    /\ clear[a].pc = "cleared"
    /\ LET again == a = "user" /\ login.pc = "clearing"
       IN /\ clear' = [clear EXCEPT ![a] = IF again THEN Stopping ELSE NotClearing]
          /\ page' = IF a = "user" /\ login.pc = "discarding" THEN page ELSE NoTok
          /\ login' = IF again THEN [login EXCEPT !.pc = "discarding"]
                      ELSE IF a = "user" /\ OfLogin THEN Resting ELSE login
    /\ recovery' = IF a = "recovery" THEN Resting ELSE recovery
    /\ UNCHANGED <<issued, live, epoch, next, order, retired, disk,
                   writing, native, events, voided, spent>>

-----------------------------------------------------------------------------
StoreNext ==
    \/ HeartbeatRefresh \/ RecoverNative \/ NativeExchange \/ NativeGivesUp
    \/ NativeWrite \/ NativePublish \/ DeliverEvent
    \/ BeginLogin \/ StartRecovery \/ RecoverHttp \/ Reserve \/ SaveWrite
    \/ SavePublish \/ BootLogin \/ BootRecovery \/ SignOut
    \/ RevokeAllUserSessions
    \/ \E a \in Askers : Invalidate(a) \/ ClearFile(a) \/ ClearFails(a)
                        \/ ForgetSession(a)

StoreSpec == StoreInit /\ [][StoreNext]_storeVars

-----------------------------------------------------------------------------
(* Every variable of the login keeps its type.                             *)
StoreTypeOK ==
    LET Tok == Tokens \cup {NoTok}
        Tickets == [epoch : Nat, order : Nat]
        Flow(pcs) == [pc : pcs, token : Tok, got : Tok, ticket : Tickets]
    IN /\ issued \in Tokens /\ live \subseteq 1..issued /\ page \in Tok
       /\ epoch \in Nat /\ next \in Nat /\ order \in 0..next
       /\ retired \subseteq Tokens /\ disk \in [token : Tok, epoch : Nat]
       /\ writing \in [who : {"none", "native", "login", "recovery"}, expected : Nat]
       /\ native \in Flow({"idle", "network", "granted", "refused", "lost"})
       /\ login \in Flow({"idle", "save", "saving", "boot", "clearing", "discarding"})
       /\ recovery \in Flow({"idle", "native", "waiting", "http", "save",
                             "saving", "boot", "keep", "keeping", "clearing"})
       /\ clear \in [Askers -> [pc : {"idle", "stopping", "sent", "cleared"},
                                expected : Nat]]

(* A token the native refresher has rotated away never becomes the stored  *)
(* session again, however late the page's save of it arrives.              *)
RetiredStaysRetired == Readable /\ Unlocked => disk.token \notin retired

(* After a sign-out the stored session can only come from a ticket         *)
(* reserved after it: a save or a native refresh whose ticket was reserved *)
(* before the sign-out never brings a session back, however late it writes *)
(* and whatever failed in between, and none is readable while it is being  *)
(* cleared.  A recovery whose refresh was granted before the sign-out may  *)
(* still reserve its ticket after it, and is admitted then.                *)
ClearedStaysCleared == Readable => disk.epoch >= voided

(* A login whose save has been committed is not removed by a clear that    *)
(* was asked for before it: while the login's session is published and no  *)
(* newer sign-out was sent, the file is there.                             *)
PublishedIsStored == ~Odd(epoch) /\ Unlocked /\ epoch > 0 => disk.token # NoTok

(* The session file is in order: types, a sign-out is not undone by a      *)
(* ticket reserved before it and a published login is on disk, although    *)
(* writes, removals and stops may fail (session_store.rs).                 *)
StoreInvariant == StoreTypeOK /\ ClearedStaysCleared /\ PublishedIsStored
=============================================================================
