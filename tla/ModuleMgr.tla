----------------------------- MODULE ModuleMgr -----------------------------
(***************************************************************************)
(* The module manager (src/core/module.cpp), the command tree              *)
(* (src/core/chatcommand.cpp) and the requests (src/core/client.cpp).      *)
(* Modules are called under a lock; a reload that finds it taken becomes a *)
(* request of the main loop.  Data of modules is attached to the channel   *)
(* and to users by the address of the module, and may be kept over a       *)
(* reload.                                                                 *)
(*                                                                         *)
(* Every module has one command of its name.  There is one channel, in     *)
(* which each module may have a game with players; a player's shortcuts    *)
(* ("$p" for "$uno p") are the player's scope.                             *)
(***************************************************************************)
EXTENDS Integers, Sequences

CONSTANTS
  Name,          \* modules, and their commands
  Addr,          \* addresses of IModule objects
  User,          \* users of the channel
  Main, Console, \* threads: the main loop, and the console client's input
  Channel,       \* the channel
  MayFail,       \* modules whose library may not load again
  MAX_REQUESTS,  \* bound: requests in the queue
  None           \* nullptr

ASSUME ModuleMgrAssumption ==
  /\ None \notin Name \cup Addr \cup User \cup {Main, Console}
  /\ Main # Console
  /\ Channel \notin User
  /\ MAX_REQUESTS \in Nat

Thread == {Main, Console}

\* What has containers.
Place == {Channel} \cup User

VARIABLES
  module,    \* the object of each module of m_modules
  owner,     \* m_module of the modules' commands in the tree
  data,      \* containers: whose data is stored under an address
  players,   \* the players of the modules' games in the channel
  scope,     \* UserCmdScopes: the command a user's shortcuts go to
  holder,    \* the thread that holds m_lock
  todo,      \* the modules its loop has still to call
  running,   \* the module it is calling
  requests   \* m_requests, as far as they are reloads

dispatch == <<holder, todo, running>>
attached == <<data, players, scope>>
vars == <<module, owner, attached, dispatch, requests>>

Loaded == {n \in Name : module[n] # None}

Request == [name : Name, keep : BOOLEAN]

NoData == [a \in Addr |-> None]

TypeOK ==
  /\ module \in [Name -> Addr \cup {None}]
  /\ owner \in [Name -> Addr \cup {None}]
  /\ data \in [Place -> [Addr -> Name \cup {None}]]
  /\ players \in [Name -> SUBSET User]
  /\ scope \in [User -> Name \cup {None}]
  /\ holder \in Thread \cup {None}
  /\ todo \subseteq Name
  /\ running \in [name : Name, addr : Addr] \cup {None}
  /\ holder = None => todo = {} /\ running = None
  /\ requests \in Seq(Request) /\ Len(requests) =< MAX_REQUESTS

\* Objects for the modules, each at an address of its own.
Objects == {o \in [Name -> Addr] : \A m, n \in Name : o[m] = o[n] => m = n}

\* ModuleMgr::loadModules of a process that has just started.
Init ==
  /\ module \in Objects
  /\ owner = module
  /\ data = [p \in Place |-> NoData]
  /\ players = [n \in Name |-> {}]
  /\ scope = [u \in User |-> None]
  /\ holder = None /\ todo = {} /\ running = None
  /\ requests = <<>>

\* The process dies, or is stopped, and starts again.
Restart ==
  /\ module' \in Objects
  /\ owner' = module'
  /\ data' = [p \in Place |-> NoData]
  /\ players' = [n \in Name |-> {}]
  /\ scope' = [u \in User |-> None]
  /\ holder' = None /\ todo' = {} /\ running' = None
  /\ requests' = <<>>

-----------------------------------------------------------------------------
(* Calls of modules                                                        *)

\* ModuleMgr::onStep, onUserJoin and the other callbacks: MutexLock waits for
\* the lock, and the loop calls every module.
Call(t) ==
  /\ holder = None
  /\ holder' = t
  /\ todo' = Loaded
  /\ UNCHANGED <<module, owner, attached, running, requests>>

\* ModuleMgr::onUserSay with a command that is in the tree: its action is
\* called on its owner, and on no other module.
Command(t, n) ==
  /\ holder = None
  /\ owner[n] # None /\ owner[n] = module[n]
  /\ holder' = t
  /\ todo' = {n}
  /\ UNCHANGED <<module, owner, attached, running, requests>>

\* The same if the owner is a deleted object, or its library was closed.  What
\* happens is undefined: the process dies here, or the call does nothing.
CommandBroken(n) ==
  /\ holder = None
  /\ owner[n] # None /\ owner[n] # module[n]
  /\ Restart

\* The loop reaches module n; std::set has them in the order of addresses.
Enter(n) ==
  /\ holder # None /\ running = None /\ n \in todo
  /\ running' = [name |-> n, addr |-> module[n]]
  /\ todo' = todo \ {n}
  /\ UNCHANGED <<module, owner, attached, holder, requests>>

\* The handler returns.
Leave ==
  /\ running # None
  /\ running' = None
  /\ UNCHANGED <<module, owner, attached, holder, todo, requests>>

\* Mutant: the lock is released when a module is called.
ReturnEarly ==
  /\ holder # None
  /\ holder' = None
  /\ todo' = {}
  /\ UNCHANGED <<module, owner, attached, running, requests>>

\* The lock is released when everyone was called, or when onUserSay has found
\* a module that handles the message.
Return ==
  /\ holder # None /\ running = None
  /\ holder' = None
  /\ todo' = {}
  /\ UNCHANGED <<module, owner, attached, running, requests>>

-----------------------------------------------------------------------------
(* What handlers do                                                        *)

\* The data that the running module finds under its address is its own.
Finds(p) == data[p][running.addr] \in {running.name, None}

\* setScope: std::map::insert keeps the scope of another game.
SetScope(u, n) == [scope EXCEPT ![u] = IF @ = None THEN n ELSE @]

\* Mutant: a scope is reset by the game that has set it only for others.
ResetNone(S) == scope

\* resetScope of some users, whichever game has set it.
ResetScope(S) == [u \in User |-> IF u \in S THEN None ELSE scope[u]]

\* GameF_internal::addPlayer, in a game that the module creates if needed.
JoinGame(u) ==
  /\ running # None /\ Finds(Channel)
  /\ u \notin players[running.name]
  /\ data' = [data EXCEPT ![Channel][running.addr] = running.name]
  /\ players' = [players EXCEPT ![running.name] = @ \cup {u}]
  /\ scope' = SetScope(u, running.name)
  /\ UNCHANGED <<module, owner, dispatch, requests>>

\* GameF_internal::removePlayer; the last one to leave ends the game.
LeaveGame(u) ==
  /\ running # None /\ Finds(Channel)
  /\ u \in players[running.name]
  /\ players' = [players EXCEPT ![running.name] = @ \ {u}]
  /\ scope' = ResetScope({u})
  /\ data' = [data EXCEPT ![Channel][running.addr] =
               IF players[running.name] = {u} THEN None ELSE @]
  /\ UNCHANGED <<module, owner, dispatch, requests>>

\* A module stores data of a user who has none of it.
Remember(u) ==
  /\ running # None
  /\ data[u][running.addr] = None
  /\ data' = [data EXCEPT ![u][running.addr] = running.name]
  /\ UNCHANGED <<module, owner, players, scope, dispatch, requests>>

\* A module uses data of another type.  This is undefined too.
Confused ==
  /\ running # None
  /\ \E p \in Place : ~Finds(p)
  /\ Restart

-----------------------------------------------------------------------------
(* Reloading                                                               *)

\* Mutant: the lock is not tried.
TriesNothing == TRUE

\* m_lock.try_lock.  A handler that reloads has the lock itself.
TryLock == holder = None

\* Mutant: the channel's containers alone are cleaned.
CleanedChannel(n) == [data EXCEPT ![Channel][module[n]] = None]

\* The containers after ModuleInternal::unload without kept data.
Cleaned(n) == [p \in Place |-> [data[p] EXCEPT ![module[n]] = None]]

\* Mutant: kept data is moved even if it replaces other data; the users' is not.
MovedChannel(n, new) ==
  [data EXCEPT ![Channel] = [@ EXCEPT ![module[n]] = None, ![new] = n]]

\* The containers after Containers::move from the old to the new object.
Moved(n, new) ==
  [p \in Place |->
    IF data[p][module[n]] = None \/ data[p][new] # None THEN data[p]
    ELSE [data[p] EXCEPT ![module[n]] = None, ![new] = data[p][module[n]]]]

\* unloadSingleModule resets all scopes.  The commands of the module stay, as the
\* pointer given to ChatCommand::remove is already null.
Unscoped == [u \in User |-> None]

\* onClientReady adds the command with ChatCommand::add: one that is there keeps
\* its owner.  (ChatCommand::move then changes copies of the commands.)
Added(n, new) == [owner EXCEPT ![n] = IF @ = None THEN new ELSE @]

\* ModuleMgr::reloadModule with the lock.
DoReload(n, keep) ==
  /\ n \in Loaded
  /\ scope' = Unscoped
  /\ players' = IF keep THEN players ELSE [players EXCEPT ![n] = {}]
  /\ \/ \E new \in Addr \ {module[m] : m \in Loaded \ {n}} :
          /\ module' = [module EXCEPT ![n] = new]
          /\ owner' = Added(n, new)
          /\ data' = IF keep THEN Moved(n, new) ELSE Cleaned(n)
     \/ /\ n \in MayFail
        /\ module' = [module EXCEPT ![n] = None]
        /\ owner' = owner
        /\ data' = IF keep THEN data ELSE Cleaned(n)

\* "$module reload" in a handler, or "reload" in the console while the main loop
\* steps the modules: the reload is delayed.
DelayReload(n, keep) ==
  /\ ~TryLock
  /\ Len(requests) < MAX_REQUESTS
  /\ requests' = Append(requests, [name |-> n, keep |-> keep])
  /\ UNCHANGED <<module, owner, attached, dispatch>>

\* "reload" in the console while no handler is running.
Reload(n, keep) ==
  /\ TryLock
  /\ DoReload(n, keep)
  /\ UNCHANGED <<dispatch, requests>>

\* IClient::processRequests takes the first request, between two steps of the
\* main loop.  If the console has the lock it is put back at the end.  A module
\* that did not load is not known.
ProcessRequest ==
  /\ holder # Main
  /\ requests # <<>>
  /\ LET r == Head(requests)
     IN  \/ /\ TryLock
            /\ requests' = Tail(requests)
            /\ IF r.name \in Loaded THEN DoReload(r.name, r.keep)
               ELSE UNCHANGED <<module, owner, attached>>
         \/ /\ ~TryLock
            /\ requests' = Append(Tail(requests), r)
            /\ UNCHANGED <<module, owner, attached>>
  /\ UNCHANGED dispatch

\* The bot leaves the channel, after the modules' onChannelLeave, and is in a new
\* one.  (The network has no lock of its own: that a handler of the other thread
\* is left with a deleted channel is not modelled.)
LeaveChannel ==
  /\ holder = None
  /\ data' = [data EXCEPT ![Channel] = NoData]
  /\ players' = [n \in Name |-> {}]
  /\ scope' = [u \in User |-> None]
  /\ UNCHANGED <<module, owner, dispatch, requests>>

Next ==
  \/ Restart
  \/ \E t \in Thread : Call(t) \/ \E n \in Name : Command(t, n)
  \/ \E n \in Name : CommandBroken(n) \/ Enter(n)
  \/ Leave
  \/ Return
  \/ \E u \in User : JoinGame(u) \/ LeaveGame(u) \/ Remember(u)
  \/ Confused
  \/ \E n \in Name, keep \in BOOLEAN : DelayReload(n, keep) \/ Reload(n, keep)
  \/ ProcessRequest
  \/ LeaveChannel

Spec == Init /\ [][Next]_vars

-----------------------------------------------------------------------------
(* Properties                                                              *)

\* No module is deleted while one of its handlers runs ("Lock indicates whether
\* the modules are currently in use").
RunningIsLoaded ==
  running # None => module[running.name] = running.addr

\* As long as every module is loaded, the data that is there belongs to a
\* module that finds it: nothing of a deleted object is left behind, and no
\* object finds the data of another module where it was created.  (If a module
\* failed to load again "it's too late to free the containers".)
DataIsOwned ==
  Loaded = Name =>
    \A p \in Place, a \in Addr :
      data[p][a] # None => module[data[p][a]] = a

\* A player's shortcuts go to a game the player takes part in.
ScopeIsOfAGame == \A u \in User : scope[u] # None => u \in players[scope[u]]

\* A reload that keeps the data leaves every module with what it had.
KeptDataStays ==
  [][\A n \in Name :
       Loaded = Name /\ DoReload(n, TRUE) /\ module'[n] # None =>
         \A m \in Name, p \in Place :
           (data[p][module[m]] = m) <=> (data'[p][module'[m]] = m)]_vars

\* "Remove all invalid module-registered commands", "Update and re-assign old
\* references": the commands of the tree belong to loaded modules.
CommandsAreLive == \A n \in Name : owner[n] # None => owner[n] = module[n]
=============================================================================
