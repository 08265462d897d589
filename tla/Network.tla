------------------------------ MODULE Network ------------------------------
(***************************************************************************)
(* The users and the channels of a client (src/core/channel.cpp) and the   *)
(* data modules attach to users (src/core/container.cpp).  The network and *)
(* every channel hold pointers to UserInstances, which count their owners  *)
(* and delete themselves when the last one drops them.                     *)
(*                                                                         *)
(* Inst are the addresses of UserInstances; a free address can be          *)
(* allocated again.  An instance that is not allocated has no references.  *)
(* The actions are the operations the clients call.                        *)
(***************************************************************************)
EXTENDS Integers, FiniteSets

CONSTANTS
  Inst,     \* addresses of UserInstances
  Nick,     \* user IDs, the nicknames
  Channel,  \* channel IDs
  Owner,    \* keys of container data: modules and STATUSUPDATE
  Testing   \* the modules: they look for existing data before they set theirs

ASSUME NetworkAssumption ==
  IsFiniteSet(Channel) /\ Testing \subseteq Owner /\ Nick # {}

VARIABLES
  channels,  \* m_channels of the network
  users,     \* m_users of the network
  members,   \* m_users of the channels
  refs,      \* m_references of the instances
  nick,      \* nickname of the instances
  data       \* m_data of the instances: absent, live, or freed but present

vars == <<channels, users, members, refs, nick, data>>

Live == {i \in Inst : refs[i] > 0}

\* The channels i is in.
In(i) == {c \in channels : i \in members[c]}

NoData == [o \in Owner |-> "absent"]

TypeOK ==
  /\ channels \subseteq Channel
  /\ users \subseteq Inst
  /\ members \in [Channel -> SUBSET Inst]
  /\ refs \in [Inst -> Nat]
  /\ nick \in [Inst -> Nick]
  /\ data \in [Inst -> [Owner -> {"absent", "live", "freed"}]]

Init ==
  /\ channels = {}
  /\ users = {}
  /\ members = [c \in Channel |-> {}]
  /\ refs = [i \in Inst |-> 0]
  /\ nick \in [Inst -> Nick]
  /\ data = [i \in Inst |-> NoData]

-----------------------------------------------------------------------------
(* Helpers                                                                 *)

\* getUser by ID.  The users are looked through in the order of their
\* addresses, so which of two with the same nickname is found is not known.
Found(S, n) == {i \in S : nick[i] = n}

\* Mutant: an owner drops its reference twice.
DroppedTooOften(r, k) == r - k - 1

\* The references left of r when k owners drop theirs; dropRef deletes the
\* instance at 0.
Dropped(r, k) == IF r > k THEN r - k ELSE 0

\* Mutant: an instance that loses an owner loses its data.
DataOfUntouched(left) == [i \in Inst |-> IF left[i] >= refs[i] THEN data[i] ELSE NoData]

\* Only instances that are left with references keep their data.
DataOf(left) == [i \in Inst |-> IF left[i] > 0 THEN data[i] ELSE NoData]

\* Mutant: a known user's new owner is not counted.
GrabNew(i) == [refs EXCEPT ![i] = IF @ = 0 THEN 2 ELSE @]

\* A channel grabs an instance, and the network one that it did not have.
Grab(i) == [refs EXCEPT ![i] = IF @ = 0 THEN 2 ELSE @ + 1]

\* Mutant: the network alone drops a removed user.
MembersKept(S) == members

\* The channels' members without S.
MembersWithout(S) == [c \in Channel |-> members[c] \ S]

\* Mutant: counts the reference of the channel that is gone.
GarbageLate(c, left) == {i \in members[c] : left[i] = 0}

\* The members of a removed channel that only the network is left to own.
Garbage(c, left) == {i \in members[c] : left[i] =< 1}

-----------------------------------------------------------------------------
(* Operations                                                              *)

\* IUserOwner::addUser of the network.  A known user is not added again.
AddToNetwork(n) ==
  /\ Found(users, n) = {}
  /\ \E i \in Inst \ Live :
       /\ users' = users \cup {i}
       /\ refs' = [refs EXCEPT ![i] = 1]
       /\ nick' = [nick EXCEPT ![i] = n]
  /\ UNCHANGED <<channels, members, data>>

\* IUserOwner::addUser of a channel: the instance comes from the network, which
\* may have to create it first.
AddToChannel(c, n) ==
  /\ c \in channels
  /\ Found(members[c], n) = {}
  /\ \E i \in IF Found(users, n) = {} THEN Inst \ Live ELSE Found(users, n) :
       /\ users' = users \cup {i}
       /\ members' = [members EXCEPT ![c] = @ \cup {i}]
       /\ refs' = Grab(i)
       /\ nick' = [nick EXCEPT ![i] = n]
  /\ UNCHANGED <<channels, data>>

\* IUserOwner::removeUser of a channel
RemoveFromChannel(c, i) ==
  /\ c \in channels
  /\ i \in members[c]
  /\ members' = [members EXCEPT ![c] = @ \ {i}]
  /\ refs' = [refs EXCEPT ![i] = Dropped(@, 1)]
  /\ data' = DataOf(refs')
  /\ UNCHANGED <<channels, users, nick>>

\* Mutant: the references of the channels are not dropped.
RemoveUncounted(i) ==
  /\ i \in users
  /\ users' = users \ {i}
  /\ refs' = [refs EXCEPT ![i] = Dropped(@, 1)]
  /\ data' = DataOf(refs')
  /\ UNCHANGED <<channels, members, nick>>

\* IUserOwner::removeUser of the network, which removes the user from all
\* channels before.
RemoveFromNetwork(i) ==
  /\ i \in users
  /\ members' = MembersWithout({i})
  /\ users' = users \ {i}
  /\ refs' = [refs EXCEPT ![i] = Dropped(@, Cardinality(In(i)) + 1)]
  /\ data' = DataOf(refs')
  /\ UNCHANGED <<channels, nick>>

\* Network::addChannel
AddChannel(c) ==
  /\ c \notin channels
  /\ channels' = channels \cup {c}
  /\ UNCHANGED <<users, members, refs, nick, data>>

\* Network::removeChannel: the channel drops its members, and those that only
\* the network is left to own are removed from the network.
RemoveChannel(c) ==
  /\ c \in channels
  /\ channels' = channels \ {c}
  /\ LET left == [i \in Inst |-> IF i \in members[c] THEN Dropped(refs[i], 1) ELSE refs[i]]
         gone == Garbage(c, left)
     IN  /\ users' = users \ gone
         /\ refs' = [i \in Inst |->
                      IF i \in gone THEN Dropped(left[i], Cardinality(In(i) \ {c}) + 1)
                      ELSE left[i]]
         /\ members' = [d \in Channel |-> IF d = c THEN {} ELSE members[d] \ gone]
  /\ data' = DataOf(refs')
  /\ UNCHANGED nick

\* ~Network: the channels drop their users, the network deletes its own.  The
\* next state is that of the next start.
Shutdown ==
  /\ channels' = {}
  /\ users' = {}
  /\ members' = [c \in Channel |-> {}]
  /\ refs' = [i \in Inst |-> IF i \in users THEN 0
                             ELSE Dropped(refs[i], Cardinality(In(i)))]
  /\ data' = DataOf(refs')
  /\ UNCHANGED nick

\* A client changes the nickname of a user (ClientIRC, "NICK").
Rename(i, n) ==
  /\ i \in users
  /\ nick' = [nick EXCEPT ![i] = n]
  /\ UNCHANGED <<channels, users, members, refs, data>>

\* Containers::set.  Existing data is deleted, but its entry in the map stays
\* what it is: std::map::insert replaces nothing.
SetData(i, o) ==
  /\ i \in users
  /\ o \in Testing => data[i][o] = "absent"
  /\ data' = [data EXCEPT ![i][o] = IF @ = "absent" THEN "live" ELSE "freed"]
  /\ UNCHANGED <<channels, users, members, refs, nick>>

\* Containers::remove
RemoveData(i, o) ==
  /\ i \in users
  /\ data[i][o] # "absent"
  /\ data' = [data EXCEPT ![i][o] = "absent"]
  /\ UNCHANGED <<channels, users, members, refs, nick>>

\* Containers::move: a reload moves the data of a module.
MoveData(i, o, p) ==
  /\ i \in users
  /\ data[i][o] # "absent"
  /\ data[i][p] = "absent"
  /\ data' = [data EXCEPT ![i][o] = "absent", ![i][p] = data[i][o]]
  /\ UNCHANGED <<channels, users, members, refs, nick>>

Next ==
  \/ \E n \in Nick : AddToNetwork(n)
  \/ \E c \in Channel, n \in Nick : AddToChannel(c, n)
  \/ \E c \in Channel, i \in Inst : RemoveFromChannel(c, i)
  \/ \E i \in Inst : RemoveFromNetwork(i)
  \/ \E c \in Channel : AddChannel(c)
  \/ \E c \in Channel : RemoveChannel(c)
  \/ Shutdown
  \/ \E i \in Inst, n \in Nick : Rename(i, n)
  \/ \E i \in Inst, o \in Owner : SetData(i, o)
  \/ \E i \in Inst, o \in Owner : RemoveData(i, o)
  \/ \E i \in Inst, o, p \in Testing : MoveData(i, o, p)

Spec == Init /\ [][Next]_vars

-----------------------------------------------------------------------------
(* Properties                                                              *)

\* No owner has a pointer to an instance that is deleted.
NoDanglingUser ==
  /\ users \subseteq Live
  /\ \A c \in channels : members[c] \subseteq Live

\* The references of an instance are its owners: it is deleted when the last
\* one drops it, neither earlier nor later.
RefsAreOwners ==
  \A i \in Inst :
    refs[i] = Cardinality(In(i)) + (IF i \in users THEN 1 ELSE 0)

\* "Network must always have a reference": every user of a channel, and every
\* instance there is, is a user of the network.
NetworkHasAll ==
  /\ \A c \in channels : members[c] \subseteq users
  /\ Live \subseteq users

\* No entry of a user's data is a pointer to deleted data ("Adds a new or
\* replaces an existing container").
EntriesAreLive == \A i \in Inst, o \in Owner : data[i][o] # "freed"

\* When a channel is removed, the last one too, those of its users that are in
\* another channel stay in it, and the others leave the network.
ChannelCleansUp ==
  [][\A c \in channels : channels' = channels \ {c} =>
       \A i \in members[c] :
         /\ In(i) = {c} => i \notin users'
         /\ In(i) # {c} => i \in users' /\ In(i)' = In(i) \ {c}]_vars

\* Data attached to a user lasts as long as the user, unless it is removed or
\* moved: joining, leaving and renaming keep it.
DataStays ==
  [][\A i \in users \cap users' : users' # users \/ members' # members =>
       data'[i] = data[i]]_vars
=============================================================================
