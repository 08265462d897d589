-------------------------- MODULE ModuleMgrProofs --------------------------
(* Proofs about the module manager, for any modules, addresses and users. *)
EXTENDS ModuleMgr, SequenceTheorems, TLAPS

\* Modules have objects of their own, and only those that are loaded are called.
Distinct == \A m, n \in Loaded : module[m] = module[n] => m = n

Inv ==
  /\ TypeOK
  /\ Distinct
  /\ todo \subseteq Loaded
  /\ RunningIsLoaded
  /\ DataIsOwned
  /\ ScopeIsOfAGame

-----------------------------------------------------------------------------

\* What both reloads and requests do keeps the invariant, as long as no module
\* is running.
LEMMA ReloadKeeps ==
  ASSUME Inv, holder = None, UNCHANGED dispatch, NEW n \in Name, NEW keep \in BOOLEAN,
         DoReload(n, keep), requests' \in Seq(Request), Len(requests') =< MAX_REQUESTS
  PROVE  Inv'
<1> USE ModuleMgrAssumption
<1>0. todo' = {} /\ running' = None /\ holder' = None
  BY DEF Inv, TypeOK, dispatch
<1>1. module[n] \in Addr /\ n \in Loaded
  BY DEF DoReload, Inv, TypeOK, Loaded
<1>2. Cleaned(n) \in [Place -> [Addr -> Name \cup {None}]]
  BY DEF Inv, TypeOK, Cleaned
<1>3. ASSUME NEW new \in Addr PROVE Moved(n, new) \in [Place -> [Addr -> Name \cup {None}]]
  BY <1>1 DEF Inv, TypeOK, Moved
<1>4. TypeOK'
  <2>1. module' \in [Name -> Addr \cup {None}]
    BY DEF DoReload, Inv, TypeOK
  <2>2. owner' \in [Name -> Addr \cup {None}]
    BY DEF DoReload, Inv, TypeOK, Added
  <2>3. data' \in [Place -> [Addr -> Name \cup {None}]]
    BY <1>2, <1>3 DEF DoReload, Inv, TypeOK
  <2>4. players' \in [Name -> SUBSET User]
    BY DEF DoReload, Inv, TypeOK
  <2>5. scope' \in [User -> Name \cup {None}]
    BY DEF DoReload, Unscoped
  <2> QED BY <1>0, <2>1, <2>2, <2>3, <2>4, <2>5 DEF TypeOK
<1>5. Distinct'
  BY <1>1 DEF DoReload, Distinct, Inv, TypeOK, Loaded
<1>6. DataIsOwned'
  <2> SUFFICES ASSUME Loaded' = Name, NEW p \in Place, NEW a \in Addr, data'[p][a] # None
               PROVE  module'[data'[p][a]] = a
    BY DEF DataIsOwned
  <2>1. module'[n] # None
    BY DEF Loaded
  <2>2. PICK new \in Addr \ {module[m] : m \in Loaded \ {n}} :
          /\ module' = [module EXCEPT ![n] = new]
          /\ data' = IF keep THEN Moved(n, new) ELSE Cleaned(n)
    BY <2>1 DEF DoReload, Inv, TypeOK
  <2>3. Loaded = Name
    BY <1>1, <2>2 DEF Loaded, Inv, TypeOK
  <2>4. \A q \in Place, b \in Addr : data[q][b] # None =>
          data[q][b] \in Name /\ module[data[q][b]] = b
    BY <2>3 DEF Inv, DataIsOwned, TypeOK
  <2>5. \A q \in Place : data[q][module[n]] \in {n, None}
    BY <1>1, <2>3, <2>4 DEF Inv, Distinct
  <2>6. \A q \in Place : data[q][new] \in {n, None}
    BY <2>2, <2>3, <2>4
  <2>7. \A m \in Name \ {n} : module'[m] = module[m] /\ module[m] # new /\ module[m] # module[n]
    BY <1>1, <2>2, <2>3 DEF Inv, TypeOK, Distinct
  <2>8. module'[n] = new
    BY <2>2 DEF Inv, TypeOK
  <2>9. data[p] \in [Addr -> Name \cup {None}]
    BY DEF Inv, TypeOK
  <2>10. CASE keep
    <3>1. CASE data[p][module[n]] = None
      <4>1. data'[p] = data[p]
        BY <2>2, <2>10, <3>1 DEF Moved
      <4>2. data[p][a] # None /\ a # module[n]
        BY <3>1, <4>1
      <4>3. data[p][a] \in Name \ {n} /\ module[data[p][a]] = a
        BY <2>4, <4>2
      <4> QED BY <2>7, <4>1, <4>3
    <3>2. CASE data[p][module[n]] # None /\ data[p][new] # None
      <4>1. new = module[n]
        BY <2>4, <2>6, <3>2
      <4>2. data'[p] = data[p]
        BY <2>2, <2>10, <3>2 DEF Moved
      <4> QED BY <2>4, <2>7, <2>8, <4>1, <4>2
    <3>3. CASE data[p][module[n]] # None /\ data[p][new] = None
      <4>1. data'[p] = [data[p] EXCEPT ![module[n]] = None, ![new] = data[p][module[n]]]
        BY <2>2, <2>10, <3>3 DEF Moved
      <4>2. data[p][module[n]] = n
        BY <2>5, <3>3
      <4>3. CASE a = new
        BY <2>8, <2>9, <4>1, <4>2, <4>3
      <4>4. CASE a # new
        <5>1. a # module[n] /\ data'[p][a] = data[p][a]
          BY <2>9, <4>1, <4>4
        <5>2. data[p][a] \in Name \ {n} /\ module[data[p][a]] = a
          BY <2>4, <5>1
        <5> QED BY <2>7, <5>1, <5>2
      <4> QED BY <4>3, <4>4
    <3> QED BY <3>1, <3>2, <3>3
  <2>11. CASE ~keep
    <3>1. data'[p] = [data[p] EXCEPT ![module[n]] = None]
      BY <2>2, <2>11 DEF Cleaned
    <3>2. a # module[n] /\ data'[p][a] = data[p][a]
      BY <1>1, <2>9, <3>1
    <3>3. data[p][a] \in Name \ {n} /\ module[data[p][a]] = a
      BY <2>4, <3>2
    <3> QED BY <2>7, <3>2, <3>3
  <2> QED BY <2>10, <2>11
<1>7. ScopeIsOfAGame'
  BY DEF DoReload, ScopeIsOfAGame, Unscoped
<1> QED BY <1>0, <1>4, <1>5, <1>6, <1>7 DEF Inv, RunningIsLoaded

-----------------------------------------------------------------------------

LEMMA Initially == Init => Inv
<1> SUFFICES ASSUME Init PROVE Inv
  OBVIOUS
<1> USE ModuleMgrAssumption
<1>1. TypeOK
  BY DEF Init, TypeOK, Objects, NoData
<1> QED
  BY <1>1 DEF Init, Inv, Distinct, Objects, Loaded, RunningIsLoaded, DataIsOwned, NoData,
     ScopeIsOfAGame

\* A new process starts as the first one did.
LEMMA RestartKeeps == Restart => Inv'
<1> SUFFICES ASSUME Restart PROVE Inv'
  OBVIOUS
<1> USE ModuleMgrAssumption
<1>1. TypeOK'
  BY DEF Restart, TypeOK, Objects, NoData
<1> QED
  BY <1>1 DEF Restart, Inv, Distinct, Objects, Loaded, RunningIsLoaded, DataIsOwned, NoData,
     ScopeIsOfAGame

\* Calls change neither modules nor data.
LEMMA CallKeeps ==
  ASSUME Inv, UNCHANGED <<module, owner, attached>>,
         \/ \E t \in Thread : Call(t) \/ \E n \in Name : Command(t, n)
         \/ \E n \in Name : Enter(n)
         \/ Leave
         \/ Return
  PROVE  Inv'
<1> USE ModuleMgrAssumption
<1>1. Loaded' = Loaded
  BY DEF Loaded
<1>2. Distinct' /\ DataIsOwned' /\ ScopeIsOfAGame'
  BY <1>1 DEF Inv, Distinct, DataIsOwned, ScopeIsOfAGame, attached
<1>3. TypeOK' /\ (todo \subseteq Loaded)' /\ RunningIsLoaded'
  <2>1. CASE \E t \in Thread : Call(t)
    BY <1>1, <2>1 DEF Inv, TypeOK, Call, RunningIsLoaded, attached, Loaded, Thread
  <2>2. CASE \E t \in Thread, n \in Name : Command(t, n)
    BY <1>1, <2>2 DEF Inv, TypeOK, Command, RunningIsLoaded, attached, Loaded, Thread
  <2>3. CASE \E n \in Name : Enter(n)
    BY <1>1, <2>3 DEF Inv, TypeOK, Enter, RunningIsLoaded, attached, Loaded
  <2>4. CASE Leave
    BY <1>1, <2>4 DEF Inv, TypeOK, Leave, RunningIsLoaded, attached
  <2>5. CASE Return
    BY <1>1, <2>5 DEF Inv, TypeOK, Return, RunningIsLoaded, attached
  <2> QED BY <2>1, <2>2, <2>3, <2>4, <2>5
<1> QED BY <1>2, <1>3 DEF Inv

\* Handlers change only data of the running module, and scopes.
LEMMA HandlerKeeps ==
  ASSUME Inv, NEW u \in User, JoinGame(u) \/ LeaveGame(u) \/ Remember(u)
  PROVE  Inv'
<1> USE ModuleMgrAssumption
<1>1. running # None /\ UNCHANGED <<module, owner, dispatch, requests>>
  BY DEF JoinGame, LeaveGame, Remember
<1>2. /\ running.name \in Name /\ running.addr \in Addr
      /\ module[running.name] = running.addr
  BY <1>1 DEF Inv, TypeOK, RunningIsLoaded
<1>3. PICK p \in Place, v \in {running.name, None} :
        data' = [data EXCEPT ![p][running.addr] = v]
  BY <1>1, <1>2 DEF JoinGame, LeaveGame, Remember, Place, Finds
<1>4. data' \in [Place -> [Addr -> Name \cup {None}]]
  BY <1>2, <1>3 DEF Inv, TypeOK
<1>5. TypeOK'
  <2>1. CASE JoinGame(u)
    BY <1>2, <1>4, <2>1 DEF Inv, TypeOK, JoinGame, SetScope, dispatch
  <2>2. CASE LeaveGame(u)
    BY <1>2, <1>4, <2>2 DEF Inv, TypeOK, LeaveGame, ResetScope, dispatch
  <2>3. CASE Remember(u)
    BY <1>4, <2>3 DEF Inv, TypeOK, Remember, dispatch
  <2> QED BY <2>1, <2>2, <2>3
<1>6. DataIsOwned'
  <2> SUFFICES ASSUME Loaded' = Name, NEW q \in Place, NEW a \in Addr, data'[q][a] # None
               PROVE  module'[data'[q][a]] = a
    BY DEF DataIsOwned
  <2>1. Loaded = Name
    BY <1>1 DEF Loaded
  <2>2. data'[q][a] = data[q][a] \/ (a = running.addr /\ data'[q][a] = v)
    BY <1>2, <1>3 DEF Inv, TypeOK
  <2> QED BY <1>1, <1>2, <2>1, <2>2 DEF Inv, DataIsOwned
<1>7. ScopeIsOfAGame'
  <2>1. CASE JoinGame(u)
    BY <1>2, <2>1 DEF Inv, TypeOK, JoinGame, SetScope, ScopeIsOfAGame
  <2>2. CASE LeaveGame(u)
    BY <1>2, <2>2 DEF Inv, TypeOK, LeaveGame, ResetScope, ScopeIsOfAGame
  <2>3. CASE Remember(u)
    BY <2>3 DEF Inv, Remember, ScopeIsOfAGame
  <2> QED BY <2>1, <2>2, <2>3
<1> QED
  BY <1>1, <1>5, <1>6, <1>7 DEF Inv, Distinct, Loaded, RunningIsLoaded, dispatch

\* The channel's data goes with the channel.
LEMMA LeaveChannelKeeps == Inv /\ LeaveChannel => Inv'
<1> SUFFICES ASSUME Inv, LeaveChannel PROVE Inv'
  OBVIOUS
<1> USE ModuleMgrAssumption
<1>1. TypeOK'
  BY DEF Inv, TypeOK, LeaveChannel, dispatch, NoData
<1>2. DataIsOwned'
  BY DEF Inv, TypeOK, DataIsOwned, LeaveChannel, NoData, Loaded
<1> QED
  BY <1>1, <1>2 DEF Inv, LeaveChannel, Distinct, Loaded, RunningIsLoaded, ScopeIsOfAGame, dispatch

\* A request that is added or put back.
LEMMA RequestKeeps ==
  ASSUME Inv, UNCHANGED <<module, owner, attached, dispatch>>,
         requests' \in Seq(Request), Len(requests') =< MAX_REQUESTS
  PROVE  Inv'
  BY DEF Inv, TypeOK, Distinct, Loaded, RunningIsLoaded, DataIsOwned, ScopeIsOfAGame, attached,
     dispatch

LEMMA NextKeeps == Inv /\ [Next]_vars => Inv'
<1> SUFFICES ASSUME Inv, [Next]_vars PROVE Inv'
  OBVIOUS
<1> USE ModuleMgrAssumption
<1>0. requests \in Seq(Request) /\ Len(requests) =< MAX_REQUESTS
  BY DEF Inv, TypeOK
<1>1. CASE Restart
  BY <1>1, RestartKeeps
<1>2. CASE \E t \in Thread : Call(t) \/ \E n \in Name : Command(t, n)
  BY <1>2, CallKeeps DEF Call, Command
<1>3. CASE \E n \in Name : CommandBroken(n)
  BY <1>3, RestartKeeps DEF CommandBroken
<1>4. CASE \E n \in Name : Enter(n)
  BY <1>4, CallKeeps DEF Enter
<1>5. CASE Leave \/ Return
  BY <1>5, CallKeeps DEF Leave, Return
<1>6. CASE \E u \in User : JoinGame(u) \/ LeaveGame(u) \/ Remember(u)
  BY <1>6, HandlerKeeps
<1>7. CASE Confused
  BY <1>7, RestartKeeps DEF Confused
<1>8. CASE \E n \in Name, keep \in BOOLEAN : DelayReload(n, keep)
  <2> PICK n \in Name, keep \in BOOLEAN : DelayReload(n, keep)
    BY <1>8
  <2>1. [name |-> n, keep |-> keep] \in Request
    BY DEF Request
  <2>2. requests' \in Seq(Request) /\ Len(requests') =< MAX_REQUESTS
    BY <1>0, <2>1, AppendProperties DEF DelayReload
  <2> QED BY <2>2, RequestKeeps DEF DelayReload
<1>9. CASE \E n \in Name, keep \in BOOLEAN : Reload(n, keep)
  BY <1>0, <1>9, ReloadKeeps DEF Reload, TryLock
<1>10. CASE ProcessRequest
  <2>1. /\ Head(requests) \in Request
        /\ Tail(requests) \in Seq(Request) /\ Len(Tail(requests)) = Len(requests) - 1
        /\ Len(requests) \in Nat
    BY <1>0, <1>10, HeadTailProperties, LenProperties DEF ProcessRequest
  <2>2. Head(requests).name \in Name /\ Head(requests).keep \in BOOLEAN
    BY <2>1 DEF Request
  <2>3. requests' \in Seq(Request) /\ Len(requests') =< MAX_REQUESTS
    <3>1. CASE requests' = Tail(requests)
      BY <1>0, <2>1, <3>1
    <3>2. CASE requests' = Append(Tail(requests), Head(requests))
      BY <1>0, <2>1, <3>2, AppendProperties
    <3> QED BY <1>10, <3>1, <3>2 DEF ProcessRequest
  <2>4. CASE UNCHANGED <<module, owner, attached>>
    BY <1>10, <2>3, <2>4, RequestKeeps DEF ProcessRequest
  <2>5. CASE holder = None /\ DoReload(Head(requests).name, Head(requests).keep)
    BY <1>10, <2>2, <2>3, <2>5, ReloadKeeps DEF ProcessRequest
  <2> QED BY <1>10, <2>4, <2>5 DEF ProcessRequest, TryLock
<1>11. CASE LeaveChannel
  BY <1>11, LeaveChannelKeeps
<1>12. CASE UNCHANGED vars
  BY <1>0, <1>12, RequestKeeps DEF vars
<1> QED
  BY <1>1, <1>2, <1>3, <1>4, <1>5, <1>6, <1>7, <1>8, <1>9, <1>10, <1>11, <1>12 DEF Next

\* Invariance of Inv, from which the other theorems follow.
THEOREM Invariance == Spec => []Inv
<1>1. Init => Inv
  BY Initially
<1>2. Inv /\ [Next]_vars => Inv'
  BY NextKeeps
<1> QED BY <1>1, <1>2, PTL DEF Spec

-----------------------------------------------------------------------------

\* Modules, commands, data, scopes, the lock and the queue keep their types; in
\* particular nothing is being called when the lock is free.
THEOREM TypeCorrect == Spec => []TypeOK
<1>1. Inv => TypeOK
  BY DEF Inv
<1> QED BY <1>1, Invariance, PTL

\* A module that is being called is the one that is loaded: reloadModule never
\* deletes it meanwhile.
THEOREM CalledModulesStay == Spec => []RunningIsLoaded
<1>1. Inv => RunningIsLoaded
  BY DEF Inv
<1> QED BY <1>1, Invariance, PTL

\* Whatever is reloaded, with its data or without, all data belongs to the loaded
\* module that finds it, as long as no reload has failed.
THEOREM DataHasOwner == Spec => []DataIsOwned
<1>1. Inv => DataIsOwned
  BY DEF Inv
<1> QED BY <1>1, Invariance, PTL

\* A user has shortcuts only to a game the user takes part in.
THEOREM ScopesOfPlayers == Spec => []ScopeIsOfAGame
<1>1. Inv => ScopeIsOfAGame
  BY DEF Inv
<1> QED BY <1>1, Invariance, PTL

\* A reload that keeps data gives the new object exactly what the old one had,
\* and takes nothing from other modules.
THEOREM KeptDataMoves == Spec => KeptDataStays
<1> DEFINE Kept(n) ==
      Loaded = Name /\ DoReload(n, TRUE) /\ module'[n] # None =>
        \A m \in Name, p \in Place :
          (data[p][module[m]] = m) <=> (data'[p][module'[m]] = m)
<1>1. ASSUME Inv, NEW n \in Name PROVE Kept(n)
  <2> USE ModuleMgrAssumption
  <2> SUFFICES ASSUME Loaded = Name, DoReload(n, TRUE), module'[n] # None,
                      NEW m \in Name, NEW p \in Place
               PROVE  (data[p][module[m]] = m) <=> (data'[p][module'[m]] = m)
    OBVIOUS
  <2>1. PICK new \in Addr \ {module[k] : k \in Loaded \ {n}} :
          module' = [module EXCEPT ![n] = new] /\ data' = Moved(n, new)
    BY <1>1 DEF DoReload, Inv, TypeOK
  <2>2. data[p] \in [Addr -> Name \cup {None}] /\ module[n] \in Addr /\ module[m] \in Addr
    BY <1>1 DEF Inv, TypeOK, Loaded
  <2>3. \A b \in Addr : data[p][b] # None => data[p][b] \in Name /\ module[data[p][b]] = b
    BY <1>1, <2>2 DEF Inv, DataIsOwned
  <2>4. module'[n] = new /\ (m # n => module'[m] = module[m] /\ module[m] # new)
    BY <1>1, <2>1 DEF Inv, TypeOK
  <2>5. m # n => module[m] # module[n]
    BY <1>1 DEF Inv, Distinct
  <2>6. data[p][module[n]] \in {n, None}
    BY <1>1, <2>2, <2>3 DEF Inv, Distinct
  <2>7. data[p][new] # None => new = module[n]
    BY <2>1, <2>3
  <2>8. CASE data[p][module[n]] = None \/ data[p][new] # None
    <3>1. data'[p] = data[p]
      BY <2>1, <2>8 DEF Moved
    <3> QED BY <2>1, <2>4, <2>7, <2>8, <3>1
  <2>9. CASE data[p][module[n]] # None /\ data[p][new] = None
    <3>1. data'[p] = [data[p] EXCEPT ![module[n]] = None, ![new] = data[p][module[n]]]
      BY <2>1, <2>9 DEF Moved
    <3>2. CASE m = n
      BY <2>1, <2>2, <2>4, <2>6, <2>9, <3>1, <3>2
    <3>3. CASE m # n
      BY <2>2, <2>4, <2>5, <3>1, <3>3
    <3> QED BY <3>2, <3>3
  <2> QED BY <2>8, <2>9
<1>2. Inv => [\A n \in Name : Kept(n)]_vars
  BY <1>1
<1> QED BY <1>2, Invariance, PTL DEF KeptDataStays
=============================================================================
