------------------------- MODULE BuzzServiceProofs -------------------------
(* Proofs about BuzzService, for any sets of clients, owners and             *)
(* authorizations and any number of calls and stops.                         *)
EXTENDS BuzzService, TLAPS

(* The initial state satisfies the inductive invariant. *)
LEMMA InitInv ==
    ASSUME Init
    PROVE  IInv
<1>1. TypeOK
  BY ServiceAssumption DEF Init, TypeOK, Op, Await
<1>2. HeldInv /\ CallInv
  BY ServiceAssumption DEF Init, HeldInv, CallInv, Inside
<1>3. RowInv /\ LaneOnlyActive /\ ServedUnlessCut /\ Announced
  BY DEF Init, RowInv, LaneOnlyActive, ServedUnlessCut, Announced
<1>4. EndingInv /\ OneRunner
  BY DEF Init, EndingInv, OneRunner
<1>5. QED
  BY <1>1, <1>2, <1>3, <1>4 DEF IInv

(* No runner is ending while no call waits for one.                          *)
LEMMA NothingEnding ==
    ASSUME IInv, held = NoCaller \/ pc[held] \notin {"drain", "undo"}
    PROVE  ending = 0
BY DEF IInv, TypeOK, EndingInv

(* With no runner ending, one runner is the runner in the table.             *)
LEMMA QuietEnding ==
    ASSUME ending' = 0
    PROVE  EndingInv' /\ OneRunner'
BY DEF EndingInv, OneRunner

(* A call that gives up at wait_ready or in _profile leaves the invariant    *)
(* behind, whether an exception or the deadline made it give up.             *)
LEMMA UnwindInv ==
    ASSUME IInv, NEW c \in Caller, pc[c] \in {"ready", "publish"}, Unwind(c),
           UNCHANGED <<rowVars, up, op, given, renewing, shown, cut, calls, stops>>,
           expired' \in [Caller -> BOOLEAN]
    PROVE  IInv'
<1>1. held = c /\ held # NoCaller /\ up /\ ending = 0
  BY ServiceAssumption, NothingEnding DEF IInv, HeldInv, Inside
<1>2. \A d \in Caller \ {c} : pc'[d] = pc[d] /\ pc[d] \notin Inside
  BY <1>1 DEF IInv, HeldInv, TypeOK, Unwind, Return, Suspend
<1>3. CASE op[c] = "activate" /\ ~renewing[c]
  <2>1. lane' = NoAuth /\ pc'[c] = "undo" /\ held' = held /\ ~active /\ ending' = 1
        /\ pc' \in [Caller -> Await]
    BY <1>1, <1>3 DEF Unwind, Suspend, IInv, TypeOK, CallInv, Await
  <2>2. TypeOK'
    BY <2>1 DEF IInv, TypeOK, rowVars
  <2>3. HeldInv'
    BY <1>1, <1>2, <2>1 DEF HeldInv, IInv, Inside
  <2>4. CallInv'
    BY <1>1, <1>2, <2>1 DEF CallInv, IInv, Inside, rowVars
  <2>5. RowInv' /\ LaneOnlyActive' /\ ServedUnlessCut' /\ Announced'
    BY <1>1, <2>1 DEF IInv, RowInv, LaneOnlyActive, ServedUnlessCut, Announced, rowVars
  <2>6. EndingInv' /\ OneRunner'
    BY <1>1, <2>1 DEF EndingInv, OneRunner
  <2>7. QED BY <2>2, <2>3, <2>4, <2>5, <2>6 DEF IInv
<1>4. CASE ~(op[c] = "activate" /\ ~renewing[c])
  <2>1. lane' = lane /\ pc'[c] = "idle" /\ held' = NoCaller /\ active /\ lane # NoAuth
        /\ ending' = ending /\ pc' \in [Caller -> Await]
    BY <1>4 DEF Unwind, Return, IInv, TypeOK, CallInv, Await
  <2>2. TypeOK'
    BY <2>1 DEF IInv, TypeOK, rowVars
  <2>3. HeldInv'
    BY ServiceAssumption, <1>1, <1>2, <2>1 DEF HeldInv, IInv, Inside
  <2>4. CallInv'
    BY <1>1, <1>2, <2>1 DEF CallInv, IInv, Inside, rowVars
  <2>5. RowInv' /\ LaneOnlyActive' /\ ServedUnlessCut' /\ Announced'
    BY <1>1, <2>1 DEF IInv, RowInv, LaneOnlyActive, ServedUnlessCut, Announced, rowVars
  <2>6. EndingInv' /\ OneRunner'
    BY <1>1, <2>1, QuietEnding
  <2>7. QED BY <2>2, <2>3, <2>4, <2>5, <2>6 DEF IInv
<1>5. QED BY <1>3, <1>4

(* A call that takes the free lock is the only one past it. *)
LEMMA EnteringAlone ==
    ASSUME IInv, NEW c \in Caller, pc[c] = "lock", held = NoCaller
    PROVE  up /\ ending = 0 /\ \A d \in Caller : pc[d] \notin Inside
BY ServiceAssumption, NothingEnding DEF IInv, HeldInv, Inside

(* Every step preserves the inductive invariant. *)
LEMMA NextInv ==
    ASSUME IInv, [Next]_vars
    PROVE  IInv'
<1> USE ServiceAssumption
<1>1. CASE Boot
  <2>1. TypeOK'
    BY <1>1 DEF Boot, IInv, TypeOK, rowVars, callVars
  <2>2. HeldInv' /\ RowInv' /\ CallInv'
    BY <1>1 DEF Boot, IInv, HeldInv, RowInv, CallInv, rowVars, callVars, Inside
  <2>3. LaneOnlyActive' /\ ServedUnlessCut' /\ Announced'
    BY <1>1 DEF Boot, IInv, RowInv, LaneOnlyActive, ServedUnlessCut, Announced, rowVars
  <2>4. EndingInv' /\ OneRunner'
    BY <1>1, QuietEnding DEF Boot, IInv, HeldInv
  <2>5. QED BY <2>1, <2>2, <2>3, <2>4 DEF IInv
<1>2. CASE Stop
  <2>1. TypeOK'
    <3>1. pc' \in [Caller -> Await]
      BY <1>2 DEF Stop, Await
    <3>2. up' = FALSE /\ ending' = 0 /\ stops' = stops + 1
      BY <1>2 DEF Stop
    <3>3. UNCHANGED <<rowVars, op, given, renewing, expired, shown, calls>>
          /\ lane' = NoAuth /\ held' = NoCaller /\ cut' = FALSE
      BY <1>2 DEF Stop
    <3>4. (/\ known \in BOOLEAN /\ active \in BOOLEAN
           /\ owner \in Owner \cup {NoOwner} /\ auth \in Auth \cup {NoAuth})'
      BY <3>3 DEF IInv, TypeOK, rowVars
    <3>5. (up \in BOOLEAN /\ cut \in BOOLEAN)'
      BY <3>2, <3>3
    <3>6. (lane \in Auth \cup {NoAuth} /\ ending \in Nat /\ held \in Caller \cup {NoCaller})'
      BY <3>2, <3>3
    <3>7. (op \in [Caller -> Op] /\ given \in [Caller -> Auth \cup {NoAuth}])'
      BY <3>3 DEF IInv, TypeOK
    <3>8. (renewing \in [Caller -> BOOLEAN] /\ expired \in [Caller -> BOOLEAN])'
      BY <3>3 DEF IInv, TypeOK
    <3>9. (shown \in Auth \cup {NoAuth} /\ calls \in Nat /\ stops \in Nat)'
      BY <3>2, <3>3 DEF IInv, TypeOK
    <3>10. QED BY <3>1, <3>4, <3>5, <3>6, <3>7, <3>8, <3>9 DEF TypeOK
  <2>2. HeldInv' /\ RowInv' /\ CallInv'
    BY <1>2 DEF Stop, IInv, HeldInv, RowInv, CallInv, rowVars, Inside
  <2>3. LaneOnlyActive' /\ ServedUnlessCut' /\ Announced'
    BY <1>2 DEF Stop, IInv, LaneOnlyActive, ServedUnlessCut, Announced, rowVars
  <2>4. EndingInv' /\ OneRunner'
    BY <1>2, QuietEnding DEF Stop
  <2>5. QED BY <2>1, <2>2, <2>3, <2>4 DEF IInv
<1>3. CASE Drained
  <2>1. TypeOK'
    BY <1>3 DEF Drained, IInv, TypeOK, rowVars, callVars
  <2>2. HeldInv' /\ RowInv' /\ CallInv'
    BY <1>3 DEF Drained, IInv, HeldInv, RowInv, CallInv, rowVars, callVars
  <2>3. LaneOnlyActive' /\ ServedUnlessCut' /\ Announced'
    BY <1>3 DEF Drained, IInv, LaneOnlyActive, ServedUnlessCut, Announced, rowVars
  <2>4. EndingInv' /\ OneRunner'
    BY <1>3 DEF Drained, IInv, TypeOK, EndingInv, OneRunner, callVars
  <2>5. QED BY <2>1, <2>2, <2>3, <2>4 DEF IInv
<1>4. ASSUME NEW c \in Caller, NEW o \in Op, NEW a \in Auth \cup {NoAuth},
             o = "activate" => a \in Auth, Call(c, o, a)
      PROVE  IInv'
  <2>1. TypeOK'
    BY <1>4 DEF Call, IInv, TypeOK, rowVars, Await
  <2>2. HeldInv'
    BY <1>4 DEF Call, IInv, TypeOK, HeldInv, Inside
  <2>3. RowInv' /\ LaneOnlyActive' /\ ServedUnlessCut' /\ Announced'
    BY <1>4 DEF Call, IInv, RowInv, LaneOnlyActive, ServedUnlessCut, Announced, rowVars
  <2>4. CallInv'
    BY <1>4 DEF Call, IInv, TypeOK, CallInv, rowVars
  <2>5. EndingInv' /\ OneRunner'
    BY <1>4 DEF Call, IInv, TypeOK, HeldInv, EndingInv, OneRunner, Inside
  <2>6. QED BY <2>1, <2>2, <2>3, <2>4, <2>5 DEF IInv
<1>5. ASSUME NEW c \in Caller, Provision(c)
      PROVE  IInv'
  <2>1. TypeOK'
    BY <1>5 DEF Provision, Entering, Return, IInv, TypeOK, Await
  <2>2. HeldInv' /\ CallInv'
    BY <1>5, EnteringAlone DEF Provision, Entering, Return, IInv, TypeOK, HeldInv, CallInv, Inside
  <2>3. RowInv' /\ LaneOnlyActive' /\ ServedUnlessCut' /\ Announced'
    BY <1>5 DEF Provision, IInv, RowInv, LaneOnlyActive, ServedUnlessCut, Announced
  <2>4. EndingInv' /\ OneRunner'
    BY <1>5, EnteringAlone, QuietEnding DEF Provision, Entering
  <2>5. QED BY <2>1, <2>2, <2>3, <2>4 DEF IInv
<1>6. ASSUME NEW c \in Caller, Refuse(c)
      PROVE  IInv'
  <2>1. TypeOK'
    BY <1>6 DEF Refuse, Return, IInv, TypeOK, Await, rowVars
  <2>2. pc[c] = "lock" /\ held = NoCaller
    BY <1>6 DEF Refuse, Entering
  <2>3. HeldInv' /\ CallInv'
    BY <1>6, <2>2, EnteringAlone DEF Refuse, Return, IInv, TypeOK, HeldInv, CallInv, Inside, rowVars
  <2>4. RowInv' /\ LaneOnlyActive' /\ ServedUnlessCut' /\ Announced'
    BY <1>6 DEF Refuse, IInv, RowInv, LaneOnlyActive, ServedUnlessCut, Announced, rowVars
  <2>5. EndingInv' /\ OneRunner'
    BY <1>6, <2>2, EnteringAlone, QuietEnding DEF Refuse
  <2>6. QED BY <2>1, <2>3, <2>4, <2>5 DEF IInv
<1>7. ASSUME NEW c \in Caller, Remove(c)
      PROVE  IInv'
  <2>1. pc[c] = "lock" /\ held = NoCaller /\ op[c] = "remove"
        /\ up /\ ending = 0 /\ \A d \in Caller : pc[d] \notin Inside
    BY <1>7, EnteringAlone DEF Remove, Entering
  <2>2. CASE lane # NoAuth
    <3>1. active /\ pc'[c] = "drain" /\ held' = c /\ lane' = NoAuth /\ UNCHANGED rowVars
          /\ pc' \in [Caller -> Await] /\ cut' = cut /\ ending' = 1
      BY <1>7, <2>1, <2>2 DEF Remove, Suspend, IInv, LaneOnlyActive, TypeOK, Await
    <3>2. \A d \in Caller \ {c} : pc'[d] = pc[d]
      BY <1>7, <2>2 DEF Remove, Suspend, IInv, TypeOK
    <3>3. TypeOK'
      BY <1>7, <3>1 DEF Remove, IInv, TypeOK, rowVars
    <3>4. HeldInv' /\ CallInv'
      BY <1>7, <2>1, <3>1, <3>2 DEF Remove, IInv, HeldInv, CallInv, Inside, rowVars
    <3>5. RowInv' /\ LaneOnlyActive' /\ ServedUnlessCut' /\ Announced'
      BY <1>7, <3>1 DEF Remove, IInv, RowInv, LaneOnlyActive, ServedUnlessCut, Announced, rowVars
    <3>6. EndingInv' /\ OneRunner'
      BY <1>7, <3>1 DEF EndingInv, OneRunner
    <3>7. QED BY <3>3, <3>4, <3>5, <3>6 DEF IInv
  <2>3. CASE lane = NoAuth
    <3>1. ~active' /\ pc'[c] = "idle" /\ held' = NoCaller /\ lane' = NoAuth /\ cut' = FALSE
          /\ UNCHANGED <<known, owner, auth>> /\ pc' \in [Caller -> Await] /\ active' \in BOOLEAN
      BY <1>7, <2>3 DEF Remove, Return, Deactivated, IInv, TypeOK, Await
    <3>2. \A d \in Caller \ {c} : pc'[d] = pc[d]
      BY <1>7, <2>3 DEF Remove, Return, IInv, TypeOK
    <3>3. TypeOK'
      BY <1>7, <3>1 DEF Remove, IInv, TypeOK
    <3>4. HeldInv' /\ CallInv'
      BY <1>7, <2>1, <3>1, <3>2 DEF Remove, IInv, HeldInv, CallInv, Inside
    <3>5. RowInv' /\ LaneOnlyActive' /\ ServedUnlessCut' /\ Announced'
      BY <1>7, <3>1 DEF Remove, IInv, RowInv, LaneOnlyActive, ServedUnlessCut, Announced
    <3>6. EndingInv' /\ OneRunner'
      BY <1>7, <2>1, <2>3, QuietEnding DEF Remove
    <3>7. QED BY <3>3, <3>4, <3>5, <3>6 DEF IInv
  <2>4. QED BY <2>2, <2>3
<1>8. ASSUME NEW c \in Caller, Activate(c)
      PROVE  IInv'
  <2>1. pc[c] = "lock" /\ held = NoCaller /\ op[c] = "activate" /\ given[c] \in Auth
        /\ up /\ \A d \in Caller : pc[d] \notin Inside
    BY <1>8, EnteringAlone DEF Activate, Entering, IInv, CallInv, TypeOK
  <2>2. /\ owner' = OwnerOf[given[c]] /\ auth' = given[c] /\ owner' \in Owner
        /\ active => owner' = owner
        /\ lane # NoAuth => owner' = owner
    BY <1>8, <2>1 DEF Activate, IInv, RowInv, LaneOnlyActive
  <2>3. lane' # NoAuth /\ lane' \in Auth /\ OwnerOf[lane'] = owner'
    BY <1>8, <2>1, <2>2 DEF Activate, Started, IInv, Announced, TypeOK
  <2>4. pc' = [pc EXCEPT ![c] = "ready"] /\ held' = c /\ cut' = FALSE
        /\ renewing' = [renewing EXCEPT ![c] = active]
    BY <1>8 DEF Activate, Suspend, Started
  <2>5. TypeOK'
    BY <1>8, <2>2, <2>3, <2>4 DEF Activate, IInv, TypeOK, Await
  <2>6. HeldInv'
    BY <1>8, <2>1, <2>4 DEF Activate, IInv, TypeOK, HeldInv, Inside
  <2>7. CallInv'
    BY <1>8, <2>1, <2>3, <2>4 DEF Activate, IInv, TypeOK, CallInv, Inside
  <2>8. RowInv' /\ LaneOnlyActive' /\ ServedUnlessCut' /\ Announced'
    BY <1>8, <2>1, <2>2, <2>3, <2>4
       DEF Activate, IInv, RowInv, LaneOnlyActive, ServedUnlessCut, Announced
  <2>9. EndingInv' /\ OneRunner'
    BY <1>8, EnteringAlone, QuietEnding DEF Activate, Entering
  <2>10. QED BY <2>5, <2>6, <2>7, <2>8, <2>9 DEF IInv
<1>9. ASSUME NEW c \in Caller, Edit(c)
      PROVE  IInv'
  <2>1. pc[c] = "lock" /\ held = NoCaller /\ op[c] = "profile" /\ active
        /\ up /\ \A d \in Caller : pc[d] \notin Inside
    BY <1>9, EnteringAlone DEF Edit, Entering
  <2>2. lane' # NoAuth /\ lane' \in Auth /\ OwnerOf[lane'] = owner
    BY <1>9, <2>1 DEF Edit, Started, IInv, RowInv, Announced, TypeOK
  <2>3. pc' = [pc EXCEPT ![c] = "ready"] /\ held' = c /\ cut' = FALSE /\ UNCHANGED rowVars
    BY <1>9 DEF Edit, Suspend, Started
  <2>4. TypeOK'
    BY <1>9, <2>2, <2>3 DEF Edit, IInv, TypeOK, Await, rowVars
  <2>5. HeldInv'
    BY <1>9, <2>1, <2>3 DEF Edit, IInv, TypeOK, HeldInv, Inside
  <2>6. CallInv'
    BY <1>9, <2>1, <2>2, <2>3 DEF Edit, IInv, TypeOK, CallInv, Inside, rowVars
  <2>7. RowInv' /\ LaneOnlyActive' /\ ServedUnlessCut' /\ Announced'
    BY <1>9, <2>1, <2>2, <2>3
       DEF Edit, IInv, RowInv, LaneOnlyActive, ServedUnlessCut, Announced, rowVars
  <2>8. EndingInv' /\ OneRunner'
    BY <1>9, EnteringAlone, QuietEnding DEF Edit, Entering
  <2>9. QED BY <2>4, <2>5, <2>6, <2>7, <2>8 DEF IInv
<1>10. ASSUME NEW c \in Caller, Removed(c)
       PROVE  IInv'
  <2>1. held = c /\ lane = NoAuth /\ \A d \in Caller \ {c} : pc[d] \notin Inside
    BY <1>10 DEF Removed, IInv, HeldInv, CallInv, Inside
  <2>2. ~active' /\ active' \in BOOLEAN /\ pc' = [pc EXCEPT ![c] = "idle"]
        /\ held' = NoCaller /\ cut' = FALSE
        /\ UNCHANGED <<known, owner, auth, up, lane, ending, op, given, renewing, expired,
                       shown, calls, stops>>
    BY <1>10 DEF Removed, Return, Deactivated
  <2>3. TypeOK'
    BY <2>2 DEF IInv, TypeOK, Await
  <2>4. HeldInv' /\ CallInv'
    BY <2>1, <2>2 DEF IInv, TypeOK, HeldInv, CallInv, Inside
  <2>5. RowInv' /\ LaneOnlyActive' /\ ServedUnlessCut' /\ Announced'
    BY <2>1, <2>2 DEF IInv, RowInv, LaneOnlyActive, ServedUnlessCut, Announced
  <2>6. EndingInv' /\ OneRunner'
    BY <1>10, QuietEnding DEF Removed
  <2>7. QED BY <2>3, <2>4, <2>5, <2>6 DEF IInv
<1>11. ASSUME NEW c \in Caller, RelayReady(c)
       PROVE  IInv'
  <2>1. pc' = [pc EXCEPT ![c] = "publish"] /\ pc[c] = "ready"
        /\ UNCHANGED <<rowVars, up, lane, ending, held, op, given, renewing, expired,
                       shown, cut, calls, stops>>
    BY <1>11 DEF RelayReady, Suspend
  <2>2. TypeOK'
    BY <2>1 DEF IInv, TypeOK, Await, rowVars
  <2>3. HeldInv' /\ CallInv'
    BY <2>1 DEF IInv, TypeOK, HeldInv, CallInv, Inside, rowVars
  <2>4. RowInv' /\ LaneOnlyActive' /\ ServedUnlessCut' /\ Announced'
    BY <2>1 DEF IInv, RowInv, LaneOnlyActive, ServedUnlessCut, Announced, rowVars
  <2>5. EndingInv' /\ OneRunner'
    BY <1>11, <2>1, QuietEnding, NothingEnding DEF IInv, HeldInv, Inside
  <2>6. QED BY <2>2, <2>3, <2>4, <2>5 DEF IInv
<1>12. ASSUME NEW c \in Caller, RelayShows(c)
       PROVE  IInv'
  <2>1. lane # NoAuth /\ OwnerOf[lane] = owner
    BY <1>12 DEF RelayShows, IInv, CallInv, Announced
  <2>2. TypeOK'
    BY <1>12 DEF RelayShows, IInv, TypeOK, rowVars, callVars
  <2>3. HeldInv' /\ CallInv'
    BY <1>12 DEF RelayShows, IInv, HeldInv, CallInv, rowVars, callVars
  <2>4. RowInv' /\ LaneOnlyActive' /\ ServedUnlessCut' /\ Announced'
    BY <1>12, <2>1 DEF RelayShows, IInv, RowInv, LaneOnlyActive, ServedUnlessCut, Announced,
                       rowVars
  <2>5. EndingInv' /\ OneRunner'
    BY <1>12 DEF RelayShows, IInv, EndingInv, OneRunner, callVars
  <2>6. QED BY <2>2, <2>3, <2>4, <2>5 DEF IInv
<1>13. ASSUME NEW c \in Caller, Finish(c)
       PROVE  IInv'
  <2>1. held = c /\ lane # NoAuth /\ \A d \in Caller \ {c} : pc[d] \notin Inside
    BY <1>13 DEF Finish, IInv, HeldInv, CallInv, Inside
  <2>2. op[c] \in {"activate", "profile"} /\ (op[c] = "profile" => active)
        /\ owner # NoOwner /\ OwnerOf[lane] = owner /\ OwnerOf[auth] = owner /\ auth # NoAuth
    BY <1>13, <2>1 DEF Finish, IInv, CallInv, Announced, RowInv, TypeOK
  <2>3. active' = TRUE /\ pc' = [pc EXCEPT ![c] = "idle"] /\ held' = NoCaller
        /\ UNCHANGED <<known, owner, auth, up, lane, ending, op, given, renewing, expired,
                       shown, cut, calls, stops>>
    BY <1>13, <2>2 DEF Finish, Return, IInv, TypeOK
  <2>4. shown # NoAuth /\ OwnerOf[shown] = owner
    BY <1>13, <2>1, <2>2 DEF Finish
  <2>5. TypeOK'
    BY <2>3 DEF IInv, TypeOK, Await
  <2>6. HeldInv' /\ CallInv'
    BY <2>1, <2>3 DEF IInv, TypeOK, HeldInv, CallInv, Inside
  <2>7. RowInv' /\ LaneOnlyActive' /\ ServedUnlessCut' /\ Announced'
    BY <2>1, <2>2, <2>3, <2>4 DEF IInv, RowInv, LaneOnlyActive, ServedUnlessCut, Announced
  <2>8. EndingInv' /\ OneRunner'
    BY <1>13, <2>1, <2>3, QuietEnding, NothingEnding DEF Finish
  <2>9. QED BY <2>5, <2>6, <2>7, <2>8 DEF IInv
<1>14. ASSUME NEW c \in Caller, Fail(c)
       PROVE  IInv'
  <2>1. expired' \in [Caller -> BOOLEAN]
    BY <1>14 DEF Fail, IInv, TypeOK
  <2>2. QED BY <1>14, <2>1, UnwindInv DEF Fail
<1>15. ASSUME NEW c \in Caller, Undone(c)
       PROVE  IInv'
  <2>1. held = c /\ lane = NoAuth /\ ~active /\ \A d \in Caller \ {c} : pc[d] \notin Inside
    BY <1>15 DEF Undone, IInv, HeldInv, CallInv, Inside
  <2>2. pc' = [pc EXCEPT ![c] = "idle"] /\ held' = NoCaller
        /\ UNCHANGED <<rowVars, up, lane, ending, op, given, renewing, expired, shown, cut,
                       calls, stops>>
    BY <1>15 DEF Undone, Return
  <2>3. TypeOK'
    BY <2>2 DEF IInv, TypeOK, Await, rowVars
  <2>4. HeldInv' /\ CallInv'
    BY <2>1, <2>2 DEF IInv, TypeOK, HeldInv, CallInv, Inside, rowVars
  <2>5. RowInv' /\ LaneOnlyActive' /\ ServedUnlessCut' /\ Announced'
    BY <2>1, <2>2 DEF IInv, RowInv, LaneOnlyActive, ServedUnlessCut, Announced, rowVars
  <2>6. EndingInv' /\ OneRunner'
    BY <1>15, QuietEnding DEF Undone
  <2>7. QED BY <2>3, <2>4, <2>5, <2>6 DEF IInv
<1>16. ASSUME NEW c \in Caller, Expire(c)
       PROVE  IInv'
  <2>1. expired' \in [Caller -> BOOLEAN]
    BY <1>16 DEF Expire, IInv, TypeOK
  <2>2. CASE pc[c] \in {"ready", "publish"}
    BY <1>16, <2>1, <2>2, UnwindInv DEF Expire
  <2>3. CASE pc[c] = "lock"
    <3>1. pc' = [pc EXCEPT ![c] = "idle"]
          /\ UNCHANGED <<rowVars, up, lane, ending, held, op, given, renewing, shown, cut,
                         calls, stops>>
      BY <1>16, <2>3 DEF Expire, Return
    <3>2. TypeOK'
      BY <2>1, <3>1 DEF IInv, TypeOK, Await, rowVars
    <3>3. HeldInv' /\ CallInv'
      BY <2>3, <3>1 DEF IInv, TypeOK, HeldInv, CallInv, Inside, rowVars
    <3>4. RowInv' /\ LaneOnlyActive' /\ ServedUnlessCut' /\ Announced'
      BY <3>1 DEF IInv, RowInv, LaneOnlyActive, ServedUnlessCut, Announced, rowVars
    <3>5. EndingInv' /\ OneRunner'
      BY <2>3, <3>1 DEF IInv, TypeOK, HeldInv, EndingInv, OneRunner, Inside
    <3>6. QED BY <3>2, <3>3, <3>4, <3>5 DEF IInv
  <2>4. CASE pc[c] \in {"drain", "undo"}
    <3>1. UNCHANGED <<rowVars, up, lane, ending, held, pc, op, given, renewing, shown, cut,
                      calls, stops>>
      BY <1>16, <2>4 DEF Expire
    <3>2. TypeOK' /\ HeldInv'
      BY <2>1, <3>1 DEF IInv, TypeOK, HeldInv, rowVars
    <3>3. CallInv' /\ EndingInv' /\ OneRunner'
      BY <3>1 DEF IInv, CallInv, EndingInv, OneRunner, rowVars
    <3>4. RowInv' /\ LaneOnlyActive' /\ ServedUnlessCut' /\ Announced'
      BY <3>1 DEF IInv, RowInv, LaneOnlyActive, ServedUnlessCut, Announced, rowVars
    <3>5. QED BY <3>2, <3>3, <3>4 DEF IInv
  <2>5. QED BY <1>16, <2>2, <2>3, <2>4 DEF Expire
<1>17. CASE UNCHANGED vars
  <2>1. TypeOK' /\ HeldInv'
    BY <1>17 DEF vars, rowVars, callVars, IInv, TypeOK, HeldInv
  <2>2. RowInv' /\ CallInv'
    BY <1>17 DEF vars, rowVars, callVars, IInv, RowInv, CallInv
  <2>3. LaneOnlyActive' /\ ServedUnlessCut' /\ Announced'
    BY <1>17 DEF vars, rowVars, callVars, IInv, LaneOnlyActive, ServedUnlessCut, Announced
  <2>4. EndingInv' /\ OneRunner'
    BY <1>17 DEF vars, callVars, IInv, EndingInv, OneRunner
  <2>5. QED BY <2>1, <2>2, <2>3, <2>4 DEF IInv
<1>18. ASSUME NEW c \in Caller, CutOff(c)
       PROVE  IInv'
  <2>1. held = c /\ lane = NoAuth /\ \A d \in Caller \ {c} : pc[d] \notin Inside
    BY <1>18 DEF CutOff, IInv, HeldInv, CallInv, Inside
  <2>2. pc' = [pc EXCEPT ![c] = "idle"] /\ held' = NoCaller /\ cut' = TRUE /\ ending' = 0
        /\ UNCHANGED <<rowVars, up, lane, ending, op, given, renewing, expired, shown, calls,
                       stops>>
    BY <1>18 DEF CutOff, Return
  <2>3. TypeOK'
    BY <2>2 DEF IInv, TypeOK, Await, rowVars
  <2>4. HeldInv' /\ CallInv'
    BY <2>1, <2>2 DEF IInv, TypeOK, HeldInv, CallInv, Inside, rowVars
  <2>5. RowInv' /\ LaneOnlyActive' /\ ServedUnlessCut' /\ Announced'
    BY <2>1, <2>2 DEF IInv, RowInv, LaneOnlyActive, ServedUnlessCut, Announced, rowVars
  <2>6. QED BY <2>2, <2>3, <2>4, <2>5, QuietEnding DEF IInv
<1>19. QED
  BY <1>1, <1>2, <1>3, <1>4, <1>5, <1>6, <1>7, <1>8, <1>9, <1>10, <1>11, <1>12, <1>13, <1>14,
     <1>15, <1>16, <1>17, <1>18 DEF Next, Enter, Op

(* Every reachable state satisfies the inductive invariant. *)
THEOREM ServiceInvariance == Spec => []IInv
<1>1. Init => IInv
  BY InitInv
<1>2. IInv /\ [Next]_vars => IInv'
  BY NextInv
<1>3. QED BY <1>1, <1>2, PTL DEF Spec

(* No lane runs for an inactive community between calls: a first activation  *)
(* that fails, at whatever await, takes its runner with it.                  *)
THEOREM NoLaneLeftBehind == Spec => []LaneOnlyActive
<1>1. IInv => LaneOnlyActive
  BY DEF IInv
<1>2. QED BY <1>1, ServiceInvariance, PTL

(* An active community is served, unless a removal was cut off.              *)
THEOREM Served == Spec => []ServedUnlessCut
<1>1. IInv => ServedUnlessCut
  BY DEF IInv
<1>2. QED BY <1>1, ServiceInvariance, PTL

(* Active means announced under the bound owner's authorization.             *)
THEOREM AnnouncedFirst == Spec => []Announced
<1>1. IInv => Announced
  BY DEF IInv
<1>2. QED BY <1>1, ServiceInvariance, PTL

(* Ownership once bound never changes.                                       *)
THEOREM OwnershipStays == Spec => OwnerBound
<1>1. ASSUME [Next]_vars, owner # NoOwner
      PROVE  owner' = owner
  <2>1. ASSUME NEW c \in Caller, Activate(c)
        PROVE  owner' = owner
    BY <1>1, <2>1 DEF Activate
  <2>2. QED
    BY <1>1, <2>1 DEF Next, Enter, vars, rowVars, callVars, Boot, Stop, Drained, Call, Provision,
       Refuse, Remove, Edit, Removed, CutOff, RelayReady, RelayShows, Finish, Fail, Undone, Expire, Deactivated
<1>2. [Next]_vars => [owner # NoOwner => owner' = owner]_vars
  BY <1>1
<1>3. QED BY <1>2, PTL DEF Spec, OwnerBound

(* Two lanes never work over one inbox: the lock is held until the runner    *)
(* that leaves has drained.                                                  *)
THEOREM OneRunnerAtATime == Spec => []OneRunner
<1>1. IInv => OneRunner
  BY DEF IInv
<1>2. QED BY <1>1, ServiceInvariance, PTL

(* Private state is cleared only when every task of the runner has ended.    *)
THEOREM DrainedFirst == Spec => DrainedBeforeCleared
<1>1. ASSUME IInv, [Next]_vars, active, ~active'
      PROVE  ending = 0 /\ lane' = NoAuth
  <2>1. ASSUME NEW c \in Caller, Remove(c)
        PROVE  ending = 0 /\ lane' = NoAuth
    BY <1>1, <2>1, EnteringAlone DEF Remove, Entering
  <2>2. ASSUME NEW c \in Caller, Removed(c)
        PROVE  ending = 0 /\ lane' = NoAuth
    BY <1>1, <2>2 DEF Removed, IInv, CallInv
  <2>3. ASSUME NEW c \in Caller, Finish(c)
        PROVE  active'
    BY <1>1, <2>3 DEF Finish
  <2>4. QED
    BY <1>1, <2>1, <2>2, <2>3 DEF Next, Enter, vars, rowVars, callVars, Boot, Stop, Drained,
       Call, Provision, Refuse, Activate, Edit, CutOff, RelayReady, RelayShows, Fail, Undone,
       Expire
<1>2. IInv /\ [Next]_vars => [active /\ ~active' => ending = 0 /\ lane' = NoAuth]_vars
  BY <1>1
<1>3. QED BY <1>2, ServiceInvariance, PTL DEF Spec, DrainedBeforeCleared
=============================================================================
