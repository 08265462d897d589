--------------------------- MODULE NetworkProofs ---------------------------
(***************************************************************************)
(* The reference counts of the users, for any users, nicknames, channels   *)
(* and owners.  The counts and the sets of owners hold each other up, so   *)
(* the four conjuncts of Inv are proved together.                          *)
(***************************************************************************)
EXTENDS Network, TLAPS, FiniteSetTheorems

\* A channel that does not exist has no members.
AbsentIsEmpty == \A c \in Channel \ channels : members[c] = {}

\* The inductive invariant.
Inv == TypeOK /\ AbsentIsEmpty /\ NetworkHasAll /\ RefsAreOwners

-----------------------------------------------------------------------------
(* The count of an instance                                                *)

\* The channels of an instance are finitely many.
LEMMA InIsFinite ==
  ASSUME TypeOK, NEW i
  PROVE  IsFiniteSet(In(i)) /\ Cardinality(In(i)) \in Nat
<1>1. IsFiniteSet(channels)
  BY NetworkAssumption, FS_Subset DEF TypeOK
<1>2. In(i) \subseteq channels
  BY DEF In
<1>3. QED
  BY <1>1, <1>2, FS_Subset, FS_CardinalityType

\* An instance with no references is in no channel and not in the network.
LEMMA FreeIsAlone ==
  ASSUME Inv, NEW i \in Inst \ Live
  PROVE  i \notin users /\ In(i) = {} /\ refs[i] = 0
<1>1. refs[i] = 0
  BY DEF Inv, TypeOK, Live
<1>2. Cardinality(In(i)) = 0 /\ i \notin users
  BY <1>1, InIsFinite DEF Inv, RefsAreOwners
<1>3. QED
  BY <1>1, <1>2, InIsFinite, FS_EmptySet DEF Inv

\* The references of a user: one of the network, and one of each channel.
LEMMA UserRefs ==
  ASSUME Inv, NEW i \in users
  PROVE  i \in Inst /\ refs[i] = Cardinality(In(i)) + 1
BY DEF Inv, TypeOK, RefsAreOwners

\* An instance that is no user has no references and is in no channel.
LEMMA NoUserRefs ==
  ASSUME Inv, NEW i \in Inst \ users
  PROVE  i \notin Live /\ In(i) = {} /\ refs[i] = 0
<1>1. i \notin Live
  BY DEF Inv, NetworkHasAll
<1>2. QED
  BY <1>1, FreeIsAlone

\* A member of a channel is a user, and its references tell whether it is in
\* another channel.
LEMMA MemberRefs ==
  ASSUME Inv, NEW c \in channels, NEW i \in members[c]
  PROVE  /\ i \in users /\ i \in Inst
         /\ c \in In(i)
         /\ Cardinality(In(i) \ {c}) = Cardinality(In(i)) - 1
         /\ Cardinality(In(i)) >= 1
         /\ Cardinality(In(i)) =< 1 <=> In(i) = {c}
<1>1. i \in users /\ i \in Inst /\ c \in In(i)
  BY DEF Inv, NetworkHasAll, TypeOK, In
<1>2. /\ IsFiniteSet(In(i)) /\ Cardinality(In(i)) \in Nat
      /\ IsFiniteSet(In(i) \ {c})
      /\ Cardinality(In(i) \ {c}) = Cardinality(In(i)) - 1
  BY <1>1, InIsFinite, FS_RemoveElement DEF Inv
<1>3. Cardinality(In(i) \ {c}) \in Nat
  BY <1>2, FS_CardinalityType
<1>4. Cardinality(In(i) \ {c}) = 0 <=> In(i) \ {c} = {}
  BY <1>2, FS_EmptySet
<1>5. QED
  BY <1>1, <1>2, <1>3, <1>4

-----------------------------------------------------------------------------
(* The operations                                                          *)

\* Clearing the data of deleted instances keeps its type.
LEMMA DataOfType ==
  ASSUME TypeOK, NEW left
  PROVE  DataOf(left) \in [Inst -> [Owner -> {"absent", "live", "freed"}]]
BY DEF TypeOK, DataOf, NoData

LEMMA InitOK == Init => Inv
<1> SUFFICES ASSUME Init PROVE Inv
  OBVIOUS
<1>1. TypeOK
  BY DEF Init, TypeOK, NoData
<1>2. \A i \in Inst : Cardinality(In(i)) = 0
  BY FS_EmptySet DEF Init, In
<1>3. QED
  BY <1>1, <1>2
     DEF Init, Inv, AbsentIsEmpty, NetworkHasAll, RefsAreOwners, Live

LEMMA AddToNetworkOK ==
  ASSUME Inv, NEW n \in Nick, AddToNetwork(n)
  PROVE  Inv'
<1>1. PICK i \in Inst \ Live :
        /\ users' = users \cup {i}
        /\ refs' = [refs EXCEPT ![i] = 1]
        /\ nick' = [nick EXCEPT ![i] = n]
  BY DEF AddToNetwork
<1>2. UNCHANGED <<channels, members, data>>
  BY DEF AddToNetwork
<1>3. i \notin users /\ In(i) = {} /\ Cardinality(In(i)) = 0
  BY FreeIsAlone, FS_EmptySet
<1>4. TypeOK'
  BY <1>1, <1>2 DEF Inv, TypeOK
<1>5. AbsentIsEmpty'
  BY <1>2 DEF Inv, AbsentIsEmpty
<1>6. NetworkHasAll'
  BY <1>1, <1>2 DEF Inv, TypeOK, NetworkHasAll, Live
<1>7. RefsAreOwners'
  <2> SUFFICES ASSUME NEW j \in Inst
               PROVE  refs'[j] = Cardinality(In(j)') + (IF j \in users' THEN 1 ELSE 0)
    BY DEF RefsAreOwners
  <2>1. Cardinality(In(j)') = Cardinality(In(j))
    BY <1>2 DEF In
  <2>2. CASE j = i
    <3>1. refs'[j] = 1 /\ j \in users'
      BY <1>1, <2>2 DEF Inv, TypeOK
    <3>2. Cardinality(In(j)) = 0
      BY <1>3, <2>2
    <3>3. QED
      BY <2>1, <3>1, <3>2
  <2>3. CASE j # i
    <3>1. refs'[j] = refs[j] /\ (j \in users' <=> j \in users)
      BY <1>1, <2>3 DEF Inv, TypeOK
    <3>2. QED
      BY <2>1, <3>1 DEF Inv, RefsAreOwners
  <2>4. QED
    BY <2>2, <2>3
<1>8. QED
  BY <1>4, <1>5, <1>6, <1>7 DEF Inv

LEMMA AddToChannelOK ==
  ASSUME Inv, NEW c \in Channel, NEW n \in Nick, AddToChannel(c, n)
  PROVE  Inv'
<1>1. PICK i \in IF Found(users, n) = {} THEN Inst \ Live ELSE Found(users, n) :
        /\ users' = users \cup {i}
        /\ members' = [members EXCEPT ![c] = @ \cup {i}]
        /\ refs' = Grab(i)
        /\ nick' = [nick EXCEPT ![i] = n]
  BY DEF AddToChannel
<1>2. UNCHANGED <<channels, data>> /\ c \in channels /\ Found(members[c], n) = {}
  BY DEF AddToChannel
<1>3. i \in Inst /\ c \notin In(i)
  <2>1. CASE Found(users, n) = {}
    BY <1>1, <2>1, FreeIsAlone
  <2>2. CASE Found(users, n) # {}
    BY <1>1, <1>2, <2>2 DEF Found, In, Inv, TypeOK
  <2>3. QED
    BY <2>1, <2>2
<1>4. refs' = [refs EXCEPT ![i] = IF @ = 0 THEN 2 ELSE @ + 1]
  BY <1>1 DEF Grab
<1>5. i \in users <=> refs[i] # 0
  BY <1>3, UserRefs, NoUserRefs, InIsFinite DEF Inv
<1>6. TypeOK'
  BY <1>1, <1>2, <1>3, <1>4 DEF Inv, TypeOK
<1>7. AbsentIsEmpty'
  BY <1>1, <1>2 DEF Inv, TypeOK, AbsentIsEmpty
<1>8. NetworkHasAll'
  BY <1>1, <1>2, <1>3, <1>4 DEF Inv, TypeOK, NetworkHasAll, Live
<1>9. RefsAreOwners'
  <2> SUFFICES ASSUME NEW j \in Inst
               PROVE  refs'[j] = Cardinality(In(j)') + (IF j \in users' THEN 1 ELSE 0)
    BY DEF RefsAreOwners
  <2>1. CASE j = i
    <3>1. In(j)' = In(j) \cup {c}
      BY <1>1, <1>2, <2>1 DEF In, Inv, TypeOK
    <3>2. Cardinality(In(j)') = Cardinality(In(j)) + 1
      BY <1>3, <2>1, <3>1, InIsFinite, FS_AddElement DEF Inv
    <3>3. refs[j] = Cardinality(In(j)) + (IF j \in users THEN 1 ELSE 0)
      BY DEF Inv, RefsAreOwners
    <3>4. refs'[j] = IF refs[j] = 0 THEN 2 ELSE refs[j] + 1
      BY <1>4, <2>1 DEF Inv, TypeOK
    <3>5. j \in users' /\ (j \in users <=> refs[j] # 0)
      BY <1>1, <1>5, <2>1
    <3>6. Cardinality(In(j)) \in Nat
      BY InIsFinite DEF Inv
    <3>7. QED
      BY <3>2, <3>3, <3>4, <3>5, <3>6
  <2>2. CASE j # i
    <3>1. In(j)' = In(j)
      BY <1>1, <1>2, <2>2 DEF In, Inv, TypeOK
    <3>2. QED
      BY <1>1, <1>4, <2>2, <3>1 DEF Inv, TypeOK, RefsAreOwners
  <2>3. QED
    BY <2>1, <2>2
<1>10. QED
  BY <1>6, <1>7, <1>8, <1>9 DEF Inv

LEMMA RemoveFromChannelOK ==
  ASSUME Inv, NEW c \in Channel, NEW i \in Inst, RemoveFromChannel(c, i)
  PROVE  Inv'
<1>1. /\ c \in channels /\ i \in members[c]
      /\ members' = [members EXCEPT ![c] = @ \ {i}]
      /\ refs' = [refs EXCEPT ![i] = Dropped(@, 1)]
      /\ data' = DataOf(refs')
      /\ UNCHANGED <<channels, users, nick>>
  BY DEF RemoveFromChannel
<1>2. /\ i \in users /\ refs[i] = Cardinality(In(i)) + 1 /\ Cardinality(In(i)) \in Nat
      /\ Cardinality(In(i)) >= 1 /\ c \in In(i)
  BY <1>1, MemberRefs, UserRefs, InIsFinite DEF Inv
<1>3. refs' = [refs EXCEPT ![i] = Cardinality(In(i))]
  <2>1. Dropped(refs[i], 1) = Cardinality(In(i))
    BY <1>2 DEF Dropped
  <2>2. QED
    BY <1>1, <2>1
<1>4. TypeOK'
  BY <1>1, <1>2, <1>3, DataOfType DEF Inv, TypeOK
<1>5. AbsentIsEmpty'
  BY <1>1 DEF Inv, TypeOK, AbsentIsEmpty
<1>6. NetworkHasAll'
  BY <1>1, <1>2, <1>3 DEF Inv, TypeOK, NetworkHasAll, Live
<1>7. RefsAreOwners'
  <2> SUFFICES ASSUME NEW j \in Inst
               PROVE  refs'[j] = Cardinality(In(j)') + (IF j \in users' THEN 1 ELSE 0)
    BY DEF RefsAreOwners
  <2>1. CASE j = i
    <3>1. In(j)' = In(j) \ {c}
      BY <1>1, <2>1 DEF In, Inv, TypeOK
    <3>2. Cardinality(In(j)') = Cardinality(In(j)) - 1
      BY <1>1, <2>1, <3>1, MemberRefs
    <3>3. QED
      BY <1>1, <1>2, <1>3, <2>1, <3>2 DEF Inv, TypeOK
  <2>2. CASE j # i
    <3>1. In(j)' = In(j)
      BY <1>1, <2>2 DEF In, Inv, TypeOK
    <3>2. QED
      BY <1>1, <1>3, <2>2, <3>1 DEF Inv, TypeOK, RefsAreOwners
  <2>3. QED
    BY <2>1, <2>2
<1>8. QED
  BY <1>4, <1>5, <1>6, <1>7 DEF Inv

LEMMA RemoveFromNetworkOK ==
  ASSUME Inv, NEW i \in Inst, RemoveFromNetwork(i)
  PROVE  Inv'
<1>1. /\ i \in users /\ users' = users \ {i}
      /\ members' = [c \in Channel |-> members[c] \ {i}]
      /\ refs' = [refs EXCEPT ![i] = Dropped(@, Cardinality(In(i)) + 1)]
      /\ data' = DataOf(refs')
      /\ UNCHANGED <<channels, nick>>
  BY DEF RemoveFromNetwork, MembersWithout
<1>2. refs[i] = Cardinality(In(i)) + 1 /\ Cardinality(In(i)) \in Nat
  BY <1>1, UserRefs, InIsFinite DEF Inv
<1>3. refs' = [refs EXCEPT ![i] = 0]
  <2>1. Dropped(refs[i], Cardinality(In(i)) + 1) = 0
    BY <1>2 DEF Dropped
  <2>2. QED
    BY <1>1, <2>1
<1>4. TypeOK'
  BY <1>1, <1>3, DataOfType DEF Inv, TypeOK
<1>5. AbsentIsEmpty'
  BY <1>1 DEF Inv, TypeOK, AbsentIsEmpty
<1>6. NetworkHasAll'
  BY <1>1, <1>3 DEF Inv, TypeOK, NetworkHasAll, Live
<1>7. RefsAreOwners'
  <2> SUFFICES ASSUME NEW j \in Inst
               PROVE  refs'[j] = Cardinality(In(j)') + (IF j \in users' THEN 1 ELSE 0)
    BY DEF RefsAreOwners
  <2>1. CASE j = i
    <3>1. In(j)' = {}
      BY <1>1, <2>1 DEF In, Inv, TypeOK
    <3>2. QED
      BY <1>1, <1>3, <2>1, <3>1, FS_EmptySet DEF Inv, TypeOK
  <2>2. CASE j # i
    <3>1. In(j)' = In(j)
      BY <1>1, <2>2 DEF In, Inv, TypeOK
    <3>2. QED
      BY <1>1, <1>3, <2>2, <3>1 DEF Inv, TypeOK, RefsAreOwners
  <2>3. QED
    BY <2>1, <2>2
<1>8. QED
  BY <1>4, <1>5, <1>6, <1>7 DEF Inv

\* Removing a channel takes from the network exactly those who are in no other
\* channel, with all of their references.
LEMMA RemoveChannelEffect ==
  ASSUME Inv, NEW c \in Channel, RemoveChannel(c), NEW j \in Inst
  PROVE  /\ In(j)' = In(j) \ {c}
         /\ j \in users' <=> j \in users /\ In(j) # {c}
         /\ refs'[j] = IF In(j) = {c} THEN 0
                       ELSE IF c \in In(j) THEN refs[j] - 1 ELSE refs[j]
<1> DEFINE left == [i \in Inst |-> IF i \in members[c] THEN Dropped(refs[i], 1) ELSE refs[i]]
           gone == Garbage(c, left)
<1>1. /\ c \in channels /\ channels' = channels \ {c}
      /\ users' = users \ gone
      /\ refs' = [i \in Inst |->
                   IF i \in gone THEN Dropped(left[i], Cardinality(In(i) \ {c}) + 1)
                   ELSE left[i]]
      /\ members' = [d \in Channel |-> IF d = c THEN {} ELSE members[d] \ gone]
  BY DEF RemoveChannel
<1>2. left[j] = IF j \in members[c] THEN Dropped(refs[j], 1) ELSE refs[j]
  OBVIOUS
<1>3. j \in gone <=> j \in members[c] /\ left[j] =< 1
  BY DEF Garbage
<1> HIDE DEF left, gone
<1>4. refs'[j] = IF j \in gone THEN Dropped(left[j], Cardinality(In(j) \ {c}) + 1) ELSE left[j]
  BY <1>1
<1>5. c \in In(j) <=> j \in members[c]
  BY <1>1 DEF In
<1>6. In(j)' = IF j \in gone THEN {} ELSE In(j) \ {c}
  <2>1. \A d \in channels \ {c} : members'[d] = members[d] \ gone
    BY <1>1 DEF Inv, TypeOK
  <2>2. QED
    BY <1>1, <2>1 DEF In
<1>7. CASE j \in members[c]
  <2>1. /\ j \in users /\ refs[j] = Cardinality(In(j)) + 1
        /\ Cardinality(In(j)) \in Nat /\ Cardinality(In(j)) >= 1
        /\ Cardinality(In(j) \ {c}) = Cardinality(In(j)) - 1
        /\ Cardinality(In(j)) =< 1 <=> In(j) = {c}
    BY <1>1, <1>7, MemberRefs, UserRefs, InIsFinite DEF Inv
  <2>2. left[j] = Cardinality(In(j))
    BY <1>2, <1>7, <2>1 DEF Dropped
  <2>3. j \in gone <=> In(j) = {c}
    BY <1>3, <1>7, <2>1, <2>2
  <2>4. CASE In(j) = {c}
    <3>1. Dropped(left[j], Cardinality(In(j) \ {c}) + 1) = 0
      BY <2>1, <2>2 DEF Dropped
    <3>2. QED
      BY <1>1, <1>4, <1>6, <2>3, <2>4, <3>1
  <2>5. CASE In(j) # {c}
    BY <1>1, <1>4, <1>5, <1>6, <1>7, <2>1, <2>2, <2>3, <2>5
  <2>6. QED
    BY <2>4, <2>5
<1>8. CASE j \notin members[c]
  BY <1>1, <1>2, <1>3, <1>4, <1>5, <1>6, <1>8
<1>9. QED
  BY <1>7, <1>8

LEMMA RemoveChannelOK ==
  ASSUME Inv, NEW c \in Channel, RemoveChannel(c)
  PROVE  Inv'
<1>1. /\ c \in channels /\ channels' = channels \ {c}
      /\ members' \in [Channel -> SUBSET Inst]
      /\ \A d \in Channel : members'[d] \subseteq members[d]
      /\ members'[c] = {}
      /\ users' \subseteq users
      /\ DOMAIN refs' = Inst /\ refs' = [j \in Inst |-> refs'[j]]
      /\ data' = DataOf(refs') /\ nick' = nick
  BY DEF RemoveChannel, MembersWithout, Inv, TypeOK
<1>2. \A j \in Inst :
        /\ In(j)' = In(j) \ {c}
        /\ j \in users' <=> j \in users /\ In(j) # {c}
        /\ refs'[j] = IF In(j) = {c} THEN 0
                      ELSE IF c \in In(j) THEN refs[j] - 1 ELSE refs[j]
  BY RemoveChannelEffect
<1>3. RefsAreOwners'
  <2> SUFFICES ASSUME NEW j \in Inst
               PROVE  refs'[j] = Cardinality(In(j)') + (IF j \in users' THEN 1 ELSE 0)
    BY DEF RefsAreOwners
  <2>1. CASE In(j) = {c}
    <3>1. Cardinality(In(j)') = 0
      <4>1. In(j)' = {}
        BY <1>2, <2>1
      <4>2. QED
        BY <4>1, FS_EmptySet
    <3>2. refs'[j] = 0 /\ j \notin users'
      BY <1>2, <2>1
    <3>3. QED
      BY <3>1, <3>2
  <2>2. CASE In(j) # {c} /\ c \in In(j)
    <3>1. j \in members[c]
      BY <2>2 DEF In
    <3>2. /\ j \in users /\ refs[j] = Cardinality(In(j)) + 1
          /\ Cardinality(In(j) \ {c}) = Cardinality(In(j)) - 1
          /\ Cardinality(In(j)) \in Nat
      BY <1>1, <3>1, MemberRefs, UserRefs, InIsFinite DEF Inv
    <3>3. Cardinality(In(j)') = Cardinality(In(j)) - 1
      BY <1>2, <3>2
    <3>4. j \in users' /\ refs'[j] = refs[j] - 1
      BY <1>2, <2>2, <3>2
    <3>5. QED
      BY <3>2, <3>3, <3>4
  <2>3. CASE c \notin In(j)
    <3>1. Cardinality(In(j)') = Cardinality(In(j))
      <4>1. In(j) \ {c} = In(j)
        BY <2>3
      <4>2. QED
        BY <1>2, <4>1
    <3>2. refs'[j] = refs[j] /\ (j \in users' <=> j \in users)
      BY <1>2, <2>3
    <3>3. QED
      BY <3>1, <3>2 DEF Inv, RefsAreOwners
  <2>4. QED
    BY <2>1, <2>2, <2>3
<1>4. \A j \in Inst : refs'[j] \in Nat
  <2> SUFFICES ASSUME NEW j \in Inst PROVE refs'[j] \in Nat
    OBVIOUS
  <2>1. CASE c \in In(j)
    <3>1. refs[j] = Cardinality(In(j)) + 1 /\ Cardinality(In(j)) \in Nat
      <4>1. j \in members[c]
        BY <2>1 DEF In
      <4>2. QED
        BY <1>1, <4>1, MemberRefs, UserRefs, InIsFinite DEF Inv
    <3>2. QED
      BY <1>2, <3>1
  <2>2. CASE c \notin In(j)
    BY <1>2, <2>2 DEF Inv, TypeOK
  <2>3. QED
    BY <2>1, <2>2
<1>5. TypeOK'
  <2>1. refs' \in [Inst -> Nat]
    BY <1>1, <1>4
  <2>2. QED
    BY <1>1, <2>1, DataOfType DEF Inv, TypeOK
<1>6. AbsentIsEmpty'
  BY <1>1 DEF Inv, AbsentIsEmpty
<1>7. NetworkHasAll'
  <2>1. ASSUME NEW d \in channels', NEW j \in members'[d] PROVE j \in users'
    <3>1. j \in users /\ j \in Inst
      BY <1>1, <2>1 DEF Inv, TypeOK, NetworkHasAll
    <3>2. d \in In(j)
      BY <1>1, <2>1 DEF In, Inv, TypeOK
    <3>3. QED
      BY <1>1, <1>2, <2>1, <3>1, <3>2
  <2>2. ASSUME NEW j \in Inst, refs'[j] > 0 PROVE j \in users'
    <3>1. In(j) # {c}
      BY <1>2, <2>2
    <3>2. j \in users
      <4> SUFFICES ASSUME j \notin users PROVE FALSE
        OBVIOUS
      <4>1. refs[j] = 0 /\ In(j) = {}
        BY NoUserRefs
      <4>2. QED
        BY <1>2, <2>2, <4>1
    <3>3. QED
      BY <1>2, <3>1, <3>2
  <2>3. QED
    BY <2>1, <2>2 DEF NetworkHasAll, Live
<1>8. QED
  BY <1>3, <1>5, <1>6, <1>7 DEF Inv

LEMMA ShutdownOK ==
  ASSUME Inv, Shutdown
  PROVE  Inv'
<1>1. /\ channels' = {} /\ users' = {} /\ nick' = nick
      /\ members' = [c \in Channel |-> {}]
      /\ data' = DataOf(refs')
      /\ refs' = [i \in Inst |-> IF i \in users THEN 0
                                ELSE Dropped(refs[i], Cardinality(In(i)))]
  BY DEF Shutdown
<1>2. \A i \in Inst : refs'[i] = 0
  <2> SUFFICES ASSUME NEW i \in Inst \ users
               PROVE  Dropped(refs[i], Cardinality(In(i))) = 0
    BY <1>1
  <2>1. refs[i] = 0 /\ Cardinality(In(i)) = 0
    BY NoUserRefs, FS_EmptySet
  <2>2. QED
    BY <2>1 DEF Dropped
<1>3. refs' = [i \in Inst |-> 0]
  BY <1>1, <1>2
<1>4. TypeOK'
  BY <1>1, <1>3, DataOfType DEF Inv, TypeOK
<1>5. \A i \in Inst : Cardinality(In(i)') = 0
  <2>1. \A i \in Inst : In(i)' = {}
    BY <1>1 DEF In
  <2>2. QED
    BY <2>1, FS_EmptySet
<1>6. QED
  BY <1>1, <1>3, <1>4, <1>5
     DEF Inv, AbsentIsEmpty, NetworkHasAll, RefsAreOwners, Live

\* An operation that leaves the owners and the references alone.
LEMMA SameOwnersOK ==
  ASSUME Inv, TypeOK', UNCHANGED <<channels, users, members, refs>>
  PROVE  Inv'
<1>1. \A i \in Inst : In(i)' = In(i)
  BY DEF In
<1>2. QED
  BY <1>1 DEF Inv, AbsentIsEmpty, NetworkHasAll, RefsAreOwners, Live

LEMMA AddChannelOK ==
  ASSUME Inv, NEW c \in Channel, AddChannel(c)
  PROVE  Inv'
<1>1. /\ c \notin channels /\ channels' = channels \cup {c}
      /\ UNCHANGED <<users, members, refs, nick, data>>
  BY DEF AddChannel
<1>2. members[c] = {}
  BY <1>1 DEF Inv, AbsentIsEmpty
<1>3. \A i \in Inst : In(i)' = In(i)
  BY <1>1, <1>2 DEF In
<1>4. TypeOK'
  BY <1>1 DEF Inv, TypeOK
<1>5. AbsentIsEmpty' /\ NetworkHasAll'
  BY <1>1, <1>2 DEF Inv, AbsentIsEmpty, NetworkHasAll, Live
<1>6. RefsAreOwners'
  BY <1>1, <1>3 DEF Inv, RefsAreOwners
<1>7. QED
  BY <1>4, <1>5, <1>6 DEF Inv

\* The operations on the nickname and the data of a user keep the types.
LEMMA UserDataOK ==
  ASSUME Inv,
         \/ \E i \in Inst, n \in Nick : Rename(i, n)
         \/ \E i \in Inst, o \in Owner : SetData(i, o) \/ RemoveData(i, o)
         \/ \E i \in Inst, o, p \in Testing : MoveData(i, o, p)
  PROVE  Inv'
<1>1. UNCHANGED <<channels, users, members, refs>>
  BY DEF Rename, SetData, RemoveData, MoveData
<1>2. TypeOK'
  <2>1. ASSUME NEW i \in Inst, NEW n \in Nick, Rename(i, n) PROVE TypeOK'
    BY <2>1 DEF Inv, TypeOK, Rename
  <2>2. ASSUME NEW i \in Inst, NEW o \in Owner, SetData(i, o) PROVE TypeOK'
    BY <2>2 DEF Inv, TypeOK, SetData
  <2>3. ASSUME NEW i \in Inst, NEW o \in Owner, RemoveData(i, o) PROVE TypeOK'
    BY <2>3 DEF Inv, TypeOK, RemoveData
  <2>4. ASSUME NEW i \in Inst, NEW o \in Testing, NEW p \in Testing, MoveData(i, o, p)
        PROVE  TypeOK'
    BY <2>4, NetworkAssumption DEF Inv, TypeOK, MoveData
  <2>5. QED
    BY <2>1, <2>2, <2>3, <2>4
<1>3. QED
  BY <1>1, <1>2, SameOwnersOK

-----------------------------------------------------------------------------
(* The theorems                                                            *)

\* The counts, the owners and the types are right after every operation.
LEMMA NextOK == Inv /\ [Next]_vars => Inv'
<1> SUFFICES ASSUME Inv, [Next]_vars PROVE Inv'
  OBVIOUS
<1>1. ASSUME NEW n \in Nick, AddToNetwork(n) PROVE Inv'
  BY <1>1, AddToNetworkOK
<1>2. ASSUME NEW c \in Channel, NEW n \in Nick, AddToChannel(c, n) PROVE Inv'
  BY <1>2, AddToChannelOK
<1>3. ASSUME NEW c \in Channel, NEW i \in Inst, RemoveFromChannel(c, i) PROVE Inv'
  BY <1>3, RemoveFromChannelOK
<1>4. ASSUME NEW i \in Inst, RemoveFromNetwork(i) PROVE Inv'
  BY <1>4, RemoveFromNetworkOK
<1>5. ASSUME NEW c \in Channel, AddChannel(c) PROVE Inv'
  BY <1>5, AddChannelOK
<1>6. ASSUME NEW c \in Channel, RemoveChannel(c) PROVE Inv'
  BY <1>6, RemoveChannelOK
<1>7. CASE Shutdown
  BY <1>7, ShutdownOK
<1>8. CASE \/ \E i \in Inst, n \in Nick : Rename(i, n)
           \/ \E i \in Inst, o \in Owner : SetData(i, o) \/ RemoveData(i, o)
           \/ \E i \in Inst, o, p \in Testing : MoveData(i, o, p)
  BY <1>8, UserDataOK
<1>9. CASE UNCHANGED vars
  <2>1. TypeOK'
    BY <1>9 DEF vars, Inv, TypeOK
  <2>2. QED
    BY <1>9, <2>1, SameOwnersOK DEF vars
<1>10. QED
  BY <1>1, <1>2, <1>3, <1>4, <1>5, <1>6, <1>7, <1>8, <1>9 DEF Next

\* The inductive invariant holds in every reachable state.
THEOREM Invariance == Spec => []Inv
BY InitOK, NextOK, PTL DEF Spec

\* Users, channels, counts and data keep their types.
THEOREM TypeCorrect == Spec => []TypeOK
<1>1. Inv => TypeOK
  BY DEF Inv
<1>2. QED
  BY <1>1, Invariance, PTL

\* A UserInstance has exactly as many references as it has owners, so it
\* deletes itself when the last one lets go of it and not before.
THEOREM CountsAreOwners == Spec => []RefsAreOwners
<1>1. Inv => RefsAreOwners
  BY DEF Inv
<1>2. QED
  BY <1>1, Invariance, PTL

\* Every user of a channel, and every instance there is, is a user of the
\* network.
THEOREM NetworkOwnsAll == Spec => []NetworkHasAll
<1>1. Inv => NetworkHasAll
  BY DEF Inv
<1>2. QED
  BY <1>1, Invariance, PTL

LEMMA UsersAreReferenced == Inv => NoDanglingUser
<1> SUFFICES ASSUME Inv PROVE NoDanglingUser
  OBVIOUS
<1>1. ASSUME NEW i \in users PROVE i \in Live
  <2>1. i \in Inst /\ refs[i] = Cardinality(In(i)) + 1 /\ Cardinality(In(i)) \in Nat
    BY UserRefs, InIsFinite DEF Inv
  <2>2. QED
    BY <2>1 DEF Live
<1>2. QED
  BY <1>1 DEF Inv, NetworkHasAll, NoDanglingUser

\* Neither the network nor a channel points to a deleted instance.
THEOREM UsersAreLive == Spec => []NoDanglingUser
BY Invariance, UsersAreReferenced, PTL

\* When a channel is removed, its users that are in another channel stay there,
\* and the others leave the network. The end of a network with one channel has
\* the same effect on it.
THEOREM RemovalCleansUp == Spec => ChannelCleansUp
<1> DEFINE Clean == \A c \in channels : channels' = channels \ {c} =>
                      \A i \in members[c] :
                        /\ In(i) = {c} => i \notin users'
                        /\ In(i) # {c} => i \in users' /\ In(i)' = In(i) \ {c}
<1>1. ASSUME Inv, [Next]_vars PROVE Clean
  <2> SUFFICES ASSUME NEW c \in channels, channels' = channels \ {c},
                      NEW i \in members[c]
               PROVE  /\ In(i) = {c} => i \notin users'
                      /\ In(i) # {c} => i \in users' /\ In(i)' = In(i) \ {c}
    OBVIOUS
  <2>1. (\E d \in Channel : RemoveChannel(d)) \/ Shutdown
    BY <1>1 DEF Next, vars, AddToNetwork, AddToChannel, RemoveFromChannel,
        RemoveFromNetwork, AddChannel, Rename, SetData, RemoveData, MoveData
  <2>2. ASSUME NEW d \in Channel, RemoveChannel(d)
        PROVE  /\ In(i) = {c} => i \notin users'
               /\ In(i) # {c} => i \in users' /\ In(i)' = In(i) \ {c}
    <3>1. d = c
      BY <2>2 DEF RemoveChannel
    <3>2. i \in users /\ i \in Inst
      BY <1>1, MemberRefs
    <3>3. QED
      BY <1>1, <2>2, <3>1, <3>2, RemoveChannelEffect
  <2>3. CASE Shutdown
    <3>1. channels = {c} /\ users' = {}
      BY <2>3 DEF Shutdown
    <3>2. In(i) = {c}
      BY <3>1 DEF In
    <3>3. QED
      BY <3>1, <3>2
  <2>4. QED
    BY <2>1, <2>2, <2>3
<1>2. QED
  BY <1>1, Invariance, PTL DEF Spec, ChannelCleansUp

\* The data attached to a user outlives its joins, parts and the removals of
\* channels, as long as the user does.
THEOREM DataOutlives == Spec => DataStays
<1> DEFINE Stays == \A i \in users \cap users' : users' # users \/ members' # members =>
                      data'[i] = data[i]
<1>1. ASSUME Inv, NoDanglingUser', [Next]_vars PROVE Stays
  <2> SUFFICES ASSUME NEW i \in users \cap users', users' # users \/ members' # members
               PROVE  data'[i] = data[i]
    OBVIOUS
  <2>1. i \in Inst /\ refs'[i] > 0
    <3>1. i \in Inst /\ i \in Live'
      BY <1>1 DEF Inv, TypeOK, NoDanglingUser
    <3>2. QED
      BY <3>1 DEF Live
  <2>2. data' = data \/ data' = DataOf(refs')
    BY <1>1 DEF Next, vars, AddToNetwork, AddToChannel, RemoveFromChannel,
        RemoveFromNetwork, AddChannel, RemoveChannel, Shutdown, Rename, SetData,
        RemoveData, MoveData
  <2>3. QED
    BY <2>1, <2>2 DEF DataOf
<1>2. QED
  BY <1>1, Invariance, UsersAreLive, PTL DEF Spec, DataStays
=============================================================================
