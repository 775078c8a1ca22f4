---------------------------- MODULE BuzzService ----------------------------
(* The lifecycle of one hosted Buzz community (bot/buzz/service.py) under    *)
(* the management calls of several clients, each of which the server         *)
(* (bot/buzz/server.py) cancels at whatever await it has reached when its    *)
(* 60 seconds are over.                                                      *)
(*                                                                           *)
(* Names, pictures and what a profile says are left out; an authorization is *)
(* a model value that names the owner who signed it.                         *)
EXTENDS Integers, FiniteSets

CONSTANTS
    Caller,     \* management clients: each has at most one call in flight
    Owner,      \* community owners
    Auth,       \* owner authorizations for this service's key
    OwnerOf,    \* the owner whose signature each authorization carries
    NoOwner, NoAuth, NoCaller,
    MaxCalls,   \* bound: calls made
    MaxStops    \* bound: stops of the process

ASSUME ServiceAssumption ==
    /\ OwnerOf \in [Auth -> Owner]
    /\ NoOwner \notin Owner /\ NoAuth \notin Auth /\ NoCaller \notin Caller
    /\ MaxCalls \in Nat /\ MaxStops \in Nat

VARIABLES
    known,      \* the communities row exists
    active,     \* communities.active
    owner,      \* communities.owner
    auth,       \* communities.auth
    up,         \* the process runs and start() is over
    lane,       \* the authorization of the runner in runners, NoAuth if none
    ending,     \* runners out of the table whose tasks still run
    held,       \* the caller inside self.lock
    pc,         \* the await each call is suspended at
    op,         \* what it was called for
    given,      \* the authorization an activate was given
    renewing,   \* its was_active
    expired,    \* its deadline has fired
    shown,      \* the authorization in the profile the Buzz relay has
    cut,        \* history: a removal was cut off while it drained its runner
    calls, stops

rowVars == <<known, active, owner, auth>>
callVars == <<pc, op, given, renewing, expired>>
vars == <<rowVars, up, lane, ending, held, callVars, shown, cut, calls, stops>>

Op == {"provision", "activate", "profile", "remove"}
Await == {"idle", "lock", "drain", "ready", "publish", "undo"}
Inside == {"drain", "ready", "publish", "undo"}

Init ==
    /\ known = FALSE /\ active = FALSE /\ owner = NoOwner /\ auth = NoAuth
    /\ up = FALSE /\ lane = NoAuth /\ ending = 0
    /\ held = NoCaller
    /\ pc = [c \in Caller |-> "idle"]
    /\ op = [c \in Caller |-> "provision"]
    /\ given = [c \in Caller |-> NoAuth]
    /\ renewing = [c \in Caller |-> FALSE]
    /\ expired = [c \in Caller |-> FALSE]
    /\ shown = NoAuth /\ cut = FALSE
    /\ calls = 0 /\ stops = 0

-----------------------------------------------------------------------------
(* The process *)

(* HostedBuzz.start: a runner for an active community, before any call.      *)
Boot ==
    /\ ~up
    /\ up' = TRUE
    /\ lane' = IF active THEN auth ELSE NoAuth
    /\ UNCHANGED <<rowVars, ending, held, callVars, shown, cut, calls, stops>>

(* close() and a crash alike: what is not in the database is gone.           *)
Stop ==
    /\ up /\ stops < MaxStops
    /\ stops' = stops + 1
    /\ up' = FALSE /\ lane' = NoAuth /\ ending' = 0
    /\ held' = NoCaller
    /\ pc' = [c \in Caller |-> "idle"]
    /\ cut' = FALSE
    /\ UNCHANGED <<rowVars, op, given, renewing, expired, shown, calls>>

(* The cancelled tasks of a runner that is being closed have come to an end. *)
Drained ==
    /\ ending > 0
    /\ ending' = ending - 1
    /\ UNCHANGED <<rowVars, up, lane, held, callVars, shown, cut, calls, stops>>

-----------------------------------------------------------------------------
(* A management call *)

(* A request is read; with the lock taken or not, its first await is there.  *)
Call(c, o, a) ==
    /\ up /\ pc[c] = "idle" /\ calls < MaxCalls
    /\ calls' = calls + 1
    /\ pc' = [pc EXCEPT ![c] = "lock"]
    /\ op' = [op EXCEPT ![c] = o]
    /\ given' = [given EXCEPT ![c] = a]
    /\ expired' = [expired EXCEPT ![c] = FALSE]
    /\ UNCHANGED <<rowVars, up, lane, ending, held, renewing, shown, cut, stops>>

Return(c) == pc' = [pc EXCEPT ![c] = "idle"]
Suspend(c, await) == pc' = [pc EXCEPT ![c] = await]

Entering(c, o) == pc[c] = "lock" /\ held = NoCaller /\ op[c] = o

Provision(c) ==
    /\ Entering(c, "provision")
    /\ known' = TRUE
    /\ Return(c)
    /\ UNCHANGED <<active, owner, auth, up, lane, ending, held, op, given, renewing,
                   expired, shown, cut, calls, stops>>

(* An operation the row does not allow raises ValueError at once.            *)
Refuse(c) ==
    /\ \/ /\ Entering(c, "activate")
          /\ ~known \/ owner \notin {NoOwner, OwnerOf[given[c]]}
       \/ Entering(c, "profile") /\ ~active
    /\ Return(c)
    /\ UNCHANGED <<rowVars, up, lane, ending, held, op, given, renewing, expired,
                   shown, cut, calls, stops>>

(* deactivate; the owner and its authorization stay in the row.              *)
Deactivated == active' = FALSE /\ UNCHANGED <<known, owner, auth>>

(* remove: the runner leaves the table before it is drained.                 *)
Remove(c) ==
    /\ Entering(c, "remove")
    /\ lane' = NoAuth
    /\ IF lane # NoAuth
       THEN /\ ending' = ending + 1
            /\ Suspend(c, "drain") /\ held' = c
            /\ UNCHANGED <<rowVars, cut>>
       ELSE /\ Deactivated /\ cut' = FALSE
            /\ Return(c) /\ held' = NoCaller
            /\ UNCHANGED ending
    /\ UNCHANGED <<up, op, given, renewing, expired, shown, calls, stops>>

Removed(c) ==
    /\ pc[c] = "drain" /\ ending = 0 /\ ~expired[c]
    /\ Deactivated /\ cut' = FALSE
    /\ Return(c) /\ held' = NoCaller
    /\ UNCHANGED <<up, lane, ending, op, given, renewing, expired, shown, calls, stops>>

(* Plausible slip for TLC: the lock is released on success only.             *)
BugCutOff(c) ==
    /\ pc[c] = "drain" /\ ending = 0 /\ expired[c]
    /\ cut' = TRUE
    /\ Return(c)
    /\ UNCHANGED <<rowVars, up, lane, ending, held, op, given, renewing, expired, shown,
                   calls, stops>>

(* A deadline that fired during the drain: gather still waits for the tasks, *)
(* then the call is cancelled and the row stays active.                      *)
CutOff(c) ==
    /\ pc[c] = "drain" /\ ending = 0 /\ expired[c]
    /\ cut' = TRUE
    /\ Return(c) /\ held' = NoCaller
    /\ UNCHANGED <<rowVars, up, lane, ending, op, given, renewing, expired, shown, calls,
                   stops>>

(* _start: the runner there is, or a new one with the authorization of the   *)
(* row.                                                                      *)
Started(a) == lane' = (IF lane = NoAuth THEN a ELSE lane) /\ cut' = FALSE

(* activate up to wait_ready: the owner is bound now, active stays as it is. *)
Activate(c) ==
    /\ Entering(c, "activate")
    /\ known /\ owner \in {NoOwner, OwnerOf[given[c]]}
    /\ owner' = OwnerOf[given[c]] /\ auth' = given[c]
    /\ renewing' = [renewing EXCEPT ![c] = active]
    /\ Started(given[c])
    /\ Suspend(c, "ready") /\ held' = c
    /\ UNCHANGED <<known, active, up, ending, op, given, expired, shown, calls, stops>>

(* profile up to wait_ready: it starts a runner too if there is none.        *)
Edit(c) ==
    /\ Entering(c, "profile")
    /\ active
    /\ Started(auth)
    /\ Suspend(c, "ready") /\ held' = c
    /\ UNCHANGED <<rowVars, up, ending, op, given, renewing, expired, shown, calls, stops>>

RelayReady(c) ==
    /\ pc[c] = "ready"
    /\ Suspend(c, "publish")
    /\ UNCHANGED <<rowVars, up, lane, ending, held, op, given, renewing, expired,
                   shown, cut, calls, stops>>

(* The relay takes the profile, whether or not its receipt comes back.       *)
RelayShows(c) ==
    /\ pc[c] = "publish"
    /\ shown' = lane
    /\ UNCHANGED <<rowVars, up, lane, ending, held, callVars, cut, calls, stops>>

(* The receipt arrived, or the profile there was needed no change.           *)
Finish(c) ==
    /\ pc[c] = "publish"
    /\ shown \in {lane, auth}
    /\ IF op[c] = "activate" THEN active' = TRUE ELSE UNCHANGED active
    /\ Return(c) /\ held' = NoCaller
    /\ UNCHANGED <<known, owner, auth, up, lane, ending, op, given, renewing, expired,
                   shown, cut, calls, stops>>

(* Plausible slip for TLC: was_active is not looked at.                      *)
BugUnwind(c) ==
    IF op[c] = "activate"
    THEN lane' = NoAuth /\ ending' = ending + 1 /\ Suspend(c, "undo") /\ UNCHANGED held
    ELSE Return(c) /\ held' = NoCaller /\ UNCHANGED <<lane, ending>>

(* What an exception at wait_ready or in _profile leads to: a first          *)
(* activation takes its runner out again and drains it.                      *)
Unwind(c) ==
    IF op[c] = "activate" /\ ~renewing[c]
    THEN lane' = NoAuth /\ ending' = ending + 1 /\ Suspend(c, "undo") /\ UNCHANGED held
    ELSE Return(c) /\ held' = NoCaller /\ UNCHANGED <<lane, ending>>

Fail(c) ==
    /\ pc[c] \in {"ready", "publish"}
    /\ Unwind(c)
    /\ UNCHANGED <<rowVars, up, op, given, renewing, expired, shown, cut, calls, stops>>

(* Plausible slip for TLC: the runner is told to close and not waited for.   *)
BugUndone(c) ==
    /\ pc[c] = "undo"
    /\ Return(c) /\ held' = NoCaller
    /\ UNCHANGED <<rowVars, up, lane, ending, op, given, renewing, expired, shown, cut,
                   calls, stops>>

Undone(c) ==
    /\ pc[c] = "undo" /\ ending = 0
    /\ Return(c) /\ held' = NoCaller
    /\ UNCHANGED <<rowVars, up, lane, ending, op, given, renewing, expired, shown, cut,
                   calls, stops>>

(* Plausible slip for TLC: except Exception, which CancelledError is not.    *)
BugExpire(c) ==
    /\ pc[c] # "idle" /\ ~expired[c]
    /\ expired' = [expired EXCEPT ![c] = TRUE]
    /\ IF pc[c] \in {"lock", "ready", "publish"}
       THEN Return(c) /\ held' = (IF held = c THEN NoCaller ELSE held)
       ELSE UNCHANGED <<pc, held>>
    /\ UNCHANGED <<rowVars, up, lane, ending, op, given, renewing, shown, cut, calls, stops>>

(* asyncio.timeout(60) cancels the call once, at the await it is in; a call  *)
(* that drains a runner goes on waiting for its tasks.                       *)
Expire(c) ==
    /\ pc[c] # "idle" /\ ~expired[c]
    /\ expired' = [expired EXCEPT ![c] = TRUE]
    /\ \/ pc[c] = "lock" /\ Return(c) /\ UNCHANGED <<lane, ending, held>>
       \/ pc[c] \in {"ready", "publish"} /\ Unwind(c)
       \/ pc[c] \in {"drain", "undo"} /\ UNCHANGED <<pc, lane, ending, held>>
    /\ UNCHANGED <<rowVars, up, op, given, renewing, shown, cut, calls, stops>>

-----------------------------------------------------------------------------
Enter(c) == Provision(c) \/ Refuse(c) \/ Remove(c) \/ Activate(c) \/ Edit(c)

Next ==
    \/ Boot \/ Stop \/ Drained
    \/ \E c \in Caller :
         \/ \E o \in Op \ {"activate"} : Call(c, o, NoAuth)
         \/ \E a \in Auth : Call(c, "activate", a)
         \/ Enter(c) \/ Removed(c) \/ CutOff(c)
         \/ RelayReady(c) \/ RelayShows(c) \/ Finish(c)
         \/ Fail(c) \/ Undone(c) \/ Expire(c)

Spec == Init /\ [][Next]_vars

(* Every deadline fires, cancelled tasks end, and a call whose runner has    *)
(* drained goes on.  Nothing is asked of the relay.                          *)
Fairness ==
    /\ WF_vars(Drained)
    /\ \A c \in Caller : WF_vars(Expire(c)) /\ WF_vars(Removed(c) \/ CutOff(c) \/ Undone(c))

FairSpec == Spec /\ Fairness

-----------------------------------------------------------------------------
(* Properties *)

(* Every variable holds a value the code can store or hold in it. *)
TypeOK ==
    /\ known \in BOOLEAN /\ active \in BOOLEAN
    /\ owner \in Owner \cup {NoOwner} /\ auth \in Auth \cup {NoAuth}
    /\ up \in BOOLEAN /\ lane \in Auth \cup {NoAuth} /\ ending \in Nat
    /\ held \in Caller \cup {NoCaller}
    /\ pc \in [Caller -> Await] /\ op \in [Caller -> Op]
    /\ given \in [Caller -> Auth \cup {NoAuth}]
    /\ renewing \in [Caller -> BOOLEAN] /\ expired \in [Caller -> BOOLEAN]
    /\ shown \in Auth \cup {NoAuth} /\ cut \in BOOLEAN
    /\ calls \in Nat /\ stops \in Nat

(* README: ownership remains bound to the verified owner, through removals,  *)
(* failed activations and restarts.                                          *)
OwnerBound == [][owner # NoOwner => owner' = owner]_vars

(* Between calls a lane runs for an active community only: whatever became   *)
(* of a first activation, it leaves no runner that answers messages behind.  *)
LaneOnlyActive == held = NoCaller /\ lane # NoAuth => active

(* Between calls an active community has its runner, unless a removal was    *)
(* cut off by its deadline after it had taken the runner out of the table.   *)
ServedUnlessCut == held = NoCaller /\ up /\ active => lane # NoAuth \/ cut

(* A community is active only after the Buzz relay has taken a profile that  *)
(* carries an authorization of the bound owner, and so does every lane.      *)
Announced ==
    /\ active => shown # NoAuth /\ OwnerOf[shown] = owner
    /\ lane # NoAuth => OwnerOf[lane] = owner

(* A runner starts only when the one before it has drained: two lanes never  *)
(* work over one inbox, whatever was cut off in between.                     *)
OneRunner == (IF lane = NoAuth THEN 0 ELSE 1) + ending <= 1

(* Stop and drain before clearing private state: the row is deactivated, and *)
(* its inbox and history erased, only when no runner of it has a task left.  *)
DrainedBeforeCleared == [][active /\ ~active' => ending = 0 /\ lane' = NoAuth]_vars

(* Whoever takes the lock gives it back, even where the relay never answers, *)
(* and every call returns.                                                   *)
LockFreed ==
    /\ held # NoCaller ~> held = NoCaller
    /\ \A c \in Caller : pc[c] # "idle" ~> pc[c] = "idle"

-----------------------------------------------------------------------------
(* The inductive invariant *)

(* The lock is held by the one call that is past it; no process, no call.    *)
HeldInv ==
    /\ \A c \in Caller : pc[c] \in Inside <=> held = c
    /\ ~up => /\ lane = NoAuth /\ held = NoCaller /\ ending = 0
              /\ \A c \in Caller : pc[c] = "idle"

(* A runner that is ending has a call that waits for it under the lock.      *)
EndingInv == ending > 0 => held # NoCaller /\ pc[held] \in {"drain", "undo"}

(* An active row has an owner and the owner's authorization.                 *)
RowInv ==
    /\ active => owner # NoOwner
    /\ owner # NoOwner => auth # NoAuth /\ OwnerOf[auth] = owner

(* What a suspended call can rely on when it goes on.                        *)
CallInv ==
    \A c \in Caller :
        /\ pc[c] # "idle" /\ op[c] = "activate" => given[c] # NoAuth
        /\ pc[c] \in {"ready", "publish"} =>
               /\ lane # NoAuth
               /\ op[c] \in {"activate", "profile"}
               /\ active <=> (op[c] = "profile" \/ renewing[c])
        /\ pc[c] \in {"drain", "undo"} => lane = NoAuth /\ (active <=> pc[c] = "drain")

IInv ==
    /\ TypeOK /\ HeldInv /\ EndingInv /\ RowInv /\ CallInv /\ OneRunner
    /\ LaneOnlyActive /\ ServedUnlessCut /\ Announced
=============================================================================
