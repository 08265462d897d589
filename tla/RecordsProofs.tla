---------------------------- MODULE RecordsProofs ----------------------------
(* Proofs about the settings and the modules that keep records in them, for   *)
(* any nicknames, messages, texts and numbers of quotes.                      *)
EXTENDS Records, TLAPS

\* Nothing is under way while the bot is down, and nothing is unsaved while a
\* file is replaced or a module is loaded.
Quiet ==
  /\ ~running => ~syncing /\ next = "nothing" /\ m_modified = {}
  /\ syncing \/ next # "nothing" => m_modified = {}

\* What is not marked as modified is in the file, and what is marked is in
\* memory; what a write has accepted is in the new file.
Agreement ==
  /\ \A k \in Key : k \in m_modified => Plain(m_settings)[k] = Plain(accepted)[k]
  /\ \A k \in Key : running /\ ~syncing /\ k \notin m_modified => Plain(file)[k] = Plain(accepted)[k]
  /\ syncing => Plain(newfile) = Plain(accepted)
  /\ ~running => accepted = IF file = NoFile THEN Nothing ELSE file

\* The number of the next quote is not below that of the last one.
Numbered == running /\ accepted[Id] \in Number => m_last_id >= accepted[Id]

\* The keys of nbm_builtin, nicknames, have texts as their values.
Texts(values) == \A n \in Nick : values[n] \in Text \cup {Empty, None}
Kinds ==
  /\ Texts(m_settings)
  /\ file # NoFile => Texts(file)
  /\ newfile # NoFile => Texts(newfile)

\* What the invariant says of the settings,
Stored ==
  /\ SettingsTypeOK /\ Kinds /\ Quiet
  /\ running => syncing # (file # NoFile)
  /\ syncing = (newfile # NoFile)
  /\ NoStaleValue /\ Agreement

\* and of the modules.
Modules ==
  /\ running \in BOOLEAN /\ next \in {"nothing", "quotes", "tell", "builtin", "exit"}
  /\ m_last_id \in 1 .. MAX_QUOTES + 1
  /\ remember_text \in [Nick -> Text \cup {Empty, None}]
  /\ Numbered

Inv == Stored /\ Modules

\* Changes as the operations make them.
Changes ==
  {c \in UNION {[S -> Value \cup {Empty, None}] : S \in SUBSET Key} :
     \A n \in Nick \cap DOMAIN c : c[n] \in Text \cup {Empty, None}}

\* A reading is made only when nothing is modified.
Allowed(changes, reason) == reason = "read" => m_modified = {} /\ changes = <<>>

-----------------------------------------------------------------------------
(* The parts of Inv that speak of the settings only, as lemmas about each of  *)
(* the operations of Settings.                                                *)

LEMMA AppliedType ==
  ASSUME NEW changes \in Changes, NEW values \in Contents
  PROVE  Applied(changes, values) \in Contents
BY DEF Applied, Accepted, Contents, Changes

LEMMA AppliedTexts ==
  ASSUME NEW changes \in Changes, NEW values \in Contents, Texts(values)
  PROVE  Texts(Applied(changes, values))
BY DEF Applied, Accepted, Texts, Changes, Key

LEMMA NothingType == Nothing \in Contents
BY DEF Nothing, Contents

LEMMA FilesAreValues == ASSUME NEW f \in Contents PROVE f # NoFile
BY RecordsAssumption DEF Contents

\* A change keeps the settings right.
LEMMA ChangeKeeps ==
  ASSUME Stored, NEW changes \in Changes, Change(changes), running, ~syncing, next = "nothing",
         UNCHANGED <<file, newfile, syncing, running, next>>
  PROVE  Stored'
<1>1. SettingsTypeOK'
  <2>1. m_settings' \in Contents /\ accepted' \in Contents
    BY AppliedType DEF Change, Stored, SettingsTypeOK
  <2>2. m_modified' \subseteq Key
    BY DEF Change, Marked, Accepted, Stored, SettingsTypeOK, Changes
  <2> QED BY <2>1, <2>2 DEF SettingsTypeOK, Stored
<1>2. \A k \in Key : \/ k \in Accepted(changes) /\ k \in m_modified' /\ m_settings'[k] = accepted'[k]
                     \/ /\ k \notin Accepted(changes) /\ (k \in m_modified') = (k \in m_modified)
                        /\ m_settings'[k] = m_settings[k] /\ accepted'[k] = accepted[k]
  BY DEF Change, Applied, Marked
<1>3. NoStaleValue'
  BY <1>2 DEF Stored, NoStaleValue, Plain
<1>4. Agreement'
  BY <1>2 DEF Stored, Agreement, Plain
<1>5. Kinds'
  <2>1. m_settings' = Applied(changes, m_settings) /\ Texts(m_settings')
    BY AppliedTexts DEF Change, Stored, Kinds, SettingsTypeOK
  <2> QED BY <2>1 DEF Stored, Kinds, Texts
<1> QED BY <1>1, <1>3, <1>4, <1>5 DEF Stored, Quiet

\* A synchronisation keeps the settings right, whatever it does.
LEMMA SyncKeeps ==
  ASSUME Stored, NEW changes \in Changes, NEW reason, Allowed(changes, reason), Sync(changes, reason),
         running, ~syncing, UNCHANGED running
  PROVE  /\ SettingsTypeOK' /\ Kinds' /\ NoStaleValue' /\ Agreement' /\ m_modified' = {}
         /\ (running' => syncing' # (file' # NoFile)) /\ syncing' = (newfile' # NoFile)
<1> DEFINE values == Applied(changes, m_settings)
           modified == Marked(changes)
<1>1. values \in Contents /\ accepted' \in Contents /\ file \in Contents
  BY AppliedType DEF Sync, Stored, SettingsTypeOK
<1>0. Texts(values) /\ Texts(file) /\ file # NoFile /\ newfile = NoFile
  BY AppliedTexts, <1>1 DEF Stored, Kinds, SettingsTypeOK
<1>2. \A k \in Key : \/ k \in Accepted(changes) /\ k \in modified /\ values[k] = accepted'[k]
                     \/ /\ k \notin Accepted(changes) /\ (k \in modified) = (k \in m_modified)
                        /\ values[k] = m_settings[k] /\ accepted'[k] = accepted[k]
  BY DEF Sync, Applied, Marked
<1>3. \A k \in Key : IF k \in modified THEN Plain(values)[k] = Plain(accepted')[k]
                     ELSE Plain(file)[k] = Plain(accepted')[k]
  BY <1>2 DEF Stored, Agreement, Plain
<1>4. modified \subseteq Key
  BY DEF Marked, Accepted, Stored, SettingsTypeOK, Changes
<1>5. CASE /\ modified = {} /\ reason = "write"
           /\ UNCHANGED <<m_settings, m_modified, file, newfile, syncing>>
  <2>1. Accepted(changes) = {} /\ m_modified = {}
    BY <1>5 DEF Marked
  <2>2. \A k \in Key : accepted'[k] = accepted[k]
    BY <2>1, <1>2
  <2>3. NoStaleValue'
    BY <1>5, <2>2 DEF Stored, NoStaleValue, Plain
  <2>4. Agreement'
    BY <1>5, <2>1, <2>2 DEF Stored, Agreement, Plain
  <2>5. Kinds'
    BY <1>5 DEF Stored, Kinds, Texts
  <2> QED BY <1>1, <1>5, <2>1, <2>3, <2>4, <2>5 DEF Stored, SettingsTypeOK
<1>6. CASE /\ modified # {} /\ reason # "read"
           /\ newfile' = Merged(values, modified) /\ file' = NoFile /\ syncing' = TRUE
           /\ m_settings' = Kept(values, modified) /\ m_modified' = {}
  <2>1. newfile' \in Contents
    BY <1>1, <1>6 DEF Merged, Contents
  <2>2. m_settings' \in Contents
    BY <1>1, <1>6 DEF Kept, Contents
  <2>3. SettingsTypeOK'
    BY <1>1, <1>6, <2>1, <2>2 DEF SettingsTypeOK
  <2>4. Plain(newfile') = Plain(accepted')
    <3>1. \A k \in Key : Plain(newfile')[k] = Plain(accepted')[k]
      BY <1>3, <1>6 DEF Merged, Plain
    <3> QED BY <3>1 DEF Plain
  <2>5. NoStaleValue'
    BY <1>3, <1>6 DEF NoStaleValue, Kept, Plain
  <2>6. Agreement'
    BY <1>6, <2>4 DEF Agreement
  <2>7. Kinds'
    <3>1. \A n \in Nick : newfile'[n] \in Text \cup {Empty, None}
      BY <1>0, <1>6 DEF Texts, Merged, Key
    <3>2. \A n \in Nick : m_settings'[n] \in Text \cup {Empty, None}
      BY <1>0, <1>6 DEF Texts, Kept, Key
    <3> QED BY <1>6, <3>1, <3>2 DEF Kinds, Texts
  <2> QED BY <1>6, <2>1, <2>3, <2>5, <2>6, <2>7, FilesAreValues
<1>7. CASE /\ reason = "read" \/ (modified = {} /\ reason = "both")
           /\ m_settings' = file /\ m_modified' = {}
           /\ UNCHANGED <<file, newfile, syncing>>
  <2>1. modified = {}
    BY <1>7 DEF Allowed, Marked, Accepted
  <2>2. \A k \in Key : Plain(file)[k] = Plain(accepted')[k]
    BY <1>3, <2>1
  <2>3. NoStaleValue'
    BY <1>7, <2>2 DEF NoStaleValue, Plain
  <2>4. Agreement'
    BY <1>7, <2>2 DEF Agreement, Plain
  <2>5. Kinds'
    BY <1>0, <1>7 DEF Kinds, Texts
  <2> QED BY <1>1, <1>7, <2>3, <2>4, <2>5 DEF Stored, SettingsTypeOK
<1> QED BY <1>5, <1>6, <1>7 DEF Sync

\* What a file has is a value of the plain contents.
LEMMA PlainType ==
  ASSUME NEW values \in Contents PROVE Plain(values) \in [Key -> Value \cup {None}]
BY RecordsAssumption DEF Plain, Contents

LEMMA PlainNothing == Plain(Nothing) = Nothing
BY DEF Plain, Nothing

-----------------------------------------------------------------------------
(* The keys that each operation changes. *)

LEMMA QuoteChanges ==
  ASSUME NEW q \in Quote, m_last_id \in Number
  PROVE  [k \in {Id, m_last_id} |-> IF k = Id THEN m_last_id ELSE q] \in Changes
<1> DEFINE S == {Id, m_last_id}
           c == [k \in S |-> IF k = Id THEN m_last_id ELSE q]
<1>1. S \subseteq Key
  BY DEF Key
<1>2. c \in [S -> Value \cup {Empty, None}]
  BY DEF Value
<1>3. Nick \cap DOMAIN c = {}
  BY RecordsAssumption
<1>4. c \in Changes
  <2> HIDE DEF c
  <2> QED BY <1>1, <1>2, <1>3 DEF Changes
<1> QED BY <1>4

\* Changes of messages and remembered texts leave the quotes alone.
Others == {c \in Changes : DOMAIN c \subseteq Msg \cup Nick}

LEMMA QuotesUntouched ==
  ASSUME NEW changes \in Others, NEW values \in Contents, NEW k \in Number \cup {Id}
  PROVE  Applied(changes, values)[k] = values[k]
BY RecordsAssumption DEF Others, Applied, Accepted, Key

LEMMA NoChanges == <<>> \in Others
<1>1. <<>> \in [{} -> Value \cup {Empty, None}] /\ DOMAIN <<>> = {}
  OBVIOUS
<1> QED BY <1>1 DEF Others, Changes

LEMMA TellChanges ==
  ASSUME NEW S \in SUBSET Msg, NEW to \in Nick \cup {None}
  PROVE  [m \in S |-> to] \in Others
<1> DEFINE c == [m \in S |-> to]
<1>1. S \subseteq Key /\ DOMAIN c = S
  BY DEF Key
<1>2. c \in [S -> Value \cup {Empty, None}]
  BY DEF Value
<1>3. Nick \cap DOMAIN c = {}
  BY RecordsAssumption
<1>4. c \in Others
  <2> HIDE DEF c
  <2> QED BY <1>1, <1>2, <1>3 DEF Others, Changes
<1> QED BY <1>4

LEMMA TextChanges ==
  ASSUME NEW S \in SUBSET Nick, NEW c \in [S -> Text \cup {Empty, None}]
  PROVE  c \in Others
<1>1. S \subseteq Key /\ DOMAIN c = S
  BY DEF Key
<1>2. c \in [S -> Value \cup {Empty, None}]
  BY DEF Value
<1> QED BY <1>1, <1>2 DEF Others, Changes

LEMMA RememberedChanges == Modules => Remembered \in Others
<1> SUFFICES ASSUME Modules PROVE Remembered \in Others
  OBVIOUS
<1> DEFINE S == {u \in Nick : remember_text[u] # None}
<1>1. Remembered \in [S -> Text \cup {Empty, None}]
  BY DEF Remembered, Modules
<1> QED BY <1>1, TextChanges

-----------------------------------------------------------------------------
(* The invariant. *)

LEMMA Initially == Init => Inv
<1> SUFFICES ASSUME Init PROVE Inv
  OBVIOUS
<1>1. SettingsTypeOK
  BY NothingType DEF Init, SettingsInit, SettingsTypeOK
<1>2. Kinds
  BY DEF Init, SettingsInit, Kinds, Texts, Nothing, Key
<1>3. Quiet /\ NoStaleValue /\ Agreement
  BY DEF Init, SettingsInit, Quiet, NoStaleValue, Agreement
<1>4. Modules
  <2>1. remember_text \in [Nick -> Text \cup {Empty, None}]
    BY DEF Init, NoTexts
  <2>2. m_last_id \in 1 .. MAX_QUOTES + 1
    BY RecordsAssumption DEF Init
  <2> QED BY <2>1, <2>2 DEF Init, Modules, Numbered
<1> QED BY <1>1, <1>2, <1>3, <1>4 DEF Init, SettingsInit, Inv, Stored

\* The number of the next quote follows from the settings that were read.
LEMMA NextIdRight ==
  ASSUME NEW values \in Contents, NEW a \in Contents, Plain(values)[Id] = Plain(a)[Id]
  PROVE  /\ NextId(values) \in 1 .. MAX_QUOTES + 1
         /\ a[Id] \in Number => NextId(values) >= a[Id]
<1>1. Number \subseteq Value /\ Id \in Key /\ 1 \in 1 .. MAX_QUOTES + 1
  BY RecordsAssumption DEF Value, Key
<1>2. NextId(values) \in 1 .. MAX_QUOTES + 1
  BY <1>1, RecordsAssumption DEF NextId, Number
<1>3. ASSUME a[Id] \in Number PROVE NextId(values) >= a[Id]
  <2>1. a[Id] # Empty /\ a[Id] # None
    BY <1>1, <1>3, RecordsAssumption
  <2>2. values[Id] = a[Id]
    BY <1>1, <2>1 DEF Plain
  <2> QED BY <1>3, <2>2 DEF NextId, Number
<1> QED BY <1>2, <1>3

\* Changes of the settings in a handler.
LEMMA ChangesKeep ==
  ASSUME Inv, Ready, NEW changes \in Others, Change(changes),
         UNCHANGED <<disk, running, next, m_last_id, remember_text>>
  PROVE  Inv'
<1>1. changes \in Changes
  BY DEF Others
<1>2. Stored'
  BY <1>1, ChangeKeeps DEF Inv, Ready, disk
<1>3. accepted'[Id] = accepted[Id]
  BY QuotesUntouched DEF Change, Inv, Stored, SettingsTypeOK
<1> QED BY <1>2, <1>3 DEF Inv, Modules, Numbered

\* Synchronisations in a handler, and what becomes of the modules then.
LEMMA SyncsKeep ==
  ASSUME Inv, Ready, NEW changes \in Others, NEW reason \in {"write", "both"}, Sync(changes, reason),
         UNCHANGED <<running, m_last_id>>,
         next' \in {"nothing", "quotes", "tell", "builtin", "exit"},
         remember_text' \in [Nick -> Text \cup {Empty, None}]
  PROVE  Inv'
<1>1. changes \in Changes /\ Allowed(changes, reason)
  BY DEF Others, Allowed
<1>2. /\ SettingsTypeOK' /\ Kinds' /\ NoStaleValue' /\ Agreement' /\ m_modified' = {}
      /\ (running' => syncing' # (file' # NoFile)) /\ syncing' = (newfile' # NoFile)
  BY <1>1, SyncKeeps DEF Inv, Ready
<1>3. Quiet'
  BY <1>2 DEF Quiet, Ready
<1>4. accepted'[Id] = accepted[Id]
  BY QuotesUntouched DEF Sync, Inv, Stored, SettingsTypeOK
<1> QED BY <1>2, <1>3, <1>4 DEF Inv, Stored, Modules, Numbered

\* Changes of the users' data only.
LEMMA TextsKeep ==
  ASSUME Inv, UNCHANGED <<memory, disk, running, next, m_last_id>>,
         remember_text' \in [Nick -> Text \cup {Empty, None}]
  PROVE  Inv'
<1> USE DEF memory, disk
<1>1. SettingsTypeOK' /\ Kinds' /\ Quiet'
  BY DEF Inv, Stored, SettingsTypeOK, Kinds, Texts, Quiet
<1>2. NoStaleValue' /\ Agreement'
  BY DEF Inv, Stored, NoStaleValue, Agreement, Plain
<1> QED BY <1>1, <1>2 DEF Inv, Stored, Modules, Numbered

LEMMA QuoteKeeps ==
  ASSUME Inv, NEW q \in Quote, AddQuote(q)
  PROVE  Inv'
<1> DEFINE c == [k \in {Id, m_last_id} |-> IF k = Id THEN m_last_id ELSE q]
<1>1. m_last_id \in Number
  BY RecordsAssumption DEF AddQuote, Inv, Modules, Number
<1>2. c \in Changes
  BY <1>1, QuoteChanges
<1>3. Stored'
  <2> HIDE DEF c
  <2>1. Change(c)
    BY DEF AddQuote, c
  <2> QED BY <1>2, <2>1, ChangeKeeps DEF AddQuote, Inv, Ready, disk
<1>4. m_last_id' \in 1 .. MAX_QUOTES + 1
  BY <1>1, RecordsAssumption DEF AddQuote, Number
<1>5. accepted'[Id] = m_last_id
  <2>1. c[Id] = m_last_id /\ Id \in DOMAIN c /\ m_last_id # None /\ Id \in Key
    BY <1>1, RecordsAssumption DEF Value, Key
  <2>2. accepted' = Applied(c, accepted)
    BY DEF AddQuote, Change
  <2> HIDE DEF c
  <2> QED BY <2>1, <2>2 DEF Applied, Accepted
<1>6. Numbered'
  BY <1>1, <1>4, <1>5 DEF AddQuote, Numbered, Number
<1> QED BY <1>3, <1>4, <1>6 DEF Inv, Modules, AddQuote

LEMMA LoadKeeps == ASSUME Inv, LoadModule PROVE Inv'
<1>1. m_modified = {} /\ running
  BY DEF Inv, Stored, Quiet, LoadModule
<1>2. <<>> \in Others /\ <<>> \in Changes /\ Allowed(<<>>, "read")
  BY <1>1, NoChanges DEF Others, Allowed
<1>3. Sync(<<>>, "read") /\ UNCHANGED <<running, remember_text>> /\ next' = "nothing" /\ ~syncing
  BY DEF LoadModule
<1>4. /\ SettingsTypeOK' /\ Kinds' /\ NoStaleValue' /\ Agreement' /\ m_modified' = {}
      /\ (running' => syncing' # (file' # NoFile)) /\ syncing' = (newfile' # NoFile)
  BY <1>1, <1>2, <1>3, SyncKeeps DEF Inv
<1>5. Stored'
  BY <1>1, <1>3, <1>4 DEF Stored, Quiet
<1>6. m_settings' = file' /\ ~syncing'
  BY <1>1, <1>3 DEF Sync, Marked, Accepted
<1>7. accepted'[Id] = accepted[Id]
  BY <1>2, <1>3, QuotesUntouched DEF Sync, Inv, Stored, SettingsTypeOK
<1>8. Plain(m_settings')[Id] = Plain(accepted')[Id]
  BY <1>1, <1>3, <1>4, <1>6 DEF Agreement, Plain, Key
<1>9. /\ NextId(m_settings') \in 1 .. MAX_QUOTES + 1
      /\ accepted'[Id] \in Number => NextId(m_settings') >= accepted'[Id]
  BY <1>4, <1>8, NextIdRight DEF SettingsTypeOK
<1>10. m_last_id' \in 1 .. MAX_QUOTES + 1 /\ Numbered'
  BY <1>7, <1>9, <1>3 DEF LoadModule, Numbered, Inv, Modules
<1> QED BY <1>3, <1>5, <1>10 DEF Inv, Modules

LEMMA FinishKeeps == ASSUME Inv, FinishSync PROVE Inv'
<1>1. newfile \in Contents /\ newfile # NoFile /\ running /\ m_modified = {}
  BY DEF Inv, Stored, SettingsTypeOK, Quiet, FinishSync, RenameNew
<1>2. /\ file' = newfile /\ newfile' = NoFile /\ syncing' = FALSE
      /\ UNCHANGED <<m_settings, m_modified, accepted, running, next, m_last_id, remember_text>>
  BY DEF FinishSync, RenameNew
<1>3. SettingsTypeOK' /\ Kinds' /\ Quiet'
  BY <1>1, <1>2 DEF Inv, Stored, SettingsTypeOK, Kinds, Texts, Quiet
<1>4. Plain(file') = Plain(accepted')
  BY <1>2 DEF Inv, Stored, Agreement, FinishSync, RenameNew, Plain
<1>5. NoStaleValue' /\ Agreement'
  BY <1>1, <1>2, <1>4 DEF Inv, Stored, NoStaleValue, Agreement, Plain
<1> QED BY <1>1, <1>2, <1>3, <1>5 DEF Inv, Stored, Modules, Numbered

LEMMA DownKeeps == ASSUME Inv, Down PROVE Inv'
<1> USE DEF Down, LoseMemory
<1>1. SettingsTypeOK'
  BY NothingType DEF Inv, Stored, SettingsTypeOK
<1>2. Kinds'
  BY DEF Inv, Stored, Kinds, Texts, Nothing, Key
<1>3. Quiet' /\ NoStaleValue' /\ Agreement'
  BY DEF Quiet, NoStaleValue, Agreement
<1>4. Modules'
  <2>1. remember_text' \in [Nick -> Text \cup {Empty, None}]
    BY DEF NoTexts
  <2>2. m_last_id' \in 1 .. MAX_QUOTES + 1
    BY RecordsAssumption
  <2> QED BY <2>1, <2>2 DEF Modules, Numbered
<1> QED BY <1>1, <1>2, <1>3, <1>4 DEF Inv, Stored

LEMMA StartKeeps == ASSUME Inv, Start PROVE Inv'
<1>1. /\ file' = (IF file = NoFile THEN Nothing ELSE file) /\ m_settings' = file' /\ accepted' = file'
      /\ UNCHANGED <<m_modified, newfile, syncing, accepted, next, remember_text>>
      /\ running' /\ ~syncing /\ next = "nothing" /\ m_modified = {} /\ m_last_id' = NextId(m_settings')
  BY DEF Start, ReadAtStart, Inv, Stored, Quiet, Agreement
<1>2. file' \in Contents /\ file' # NoFile /\ Texts(file')
  <2>1. Texts(Nothing)
    BY DEF Texts, Nothing, Key
  <2> QED BY <1>1, <2>1, NothingType, FilesAreValues DEF Inv, Stored, SettingsTypeOK, Kinds
<1>3. SettingsTypeOK' /\ Kinds' /\ Quiet'
  BY <1>1, <1>2 DEF Inv, Stored, SettingsTypeOK, Kinds, Texts, Quiet
<1>4. NoStaleValue' /\ Agreement'
  BY <1>1 DEF NoStaleValue, Agreement
<1>5. m_last_id' \in 1 .. MAX_QUOTES + 1 /\ Numbered'
  BY <1>1, <1>2, NextIdRight DEF Numbered
<1> QED BY <1>1, <1>2, <1>3, <1>4, <1>5 DEF Inv, Stored, Modules, Start

LEMMA NextKeeps == Inv /\ [Next]_vars => Inv'
<1> SUFFICES ASSUME Inv, [Next]_vars PROVE Inv'
  OBVIOUS
<1>1. remember_text \in [Nick -> Text \cup {Empty, None}] /\ next \in {"nothing", "quotes", "tell", "builtin", "exit"}
  BY DEF Inv, Modules
<1>2. CASE UNCHANGED vars
  BY <1>1, <1>2, TextsKeep DEF vars
<1>3. ASSUME NEW q \in Quote, AddQuote(q) PROVE Inv'
  BY <1>3, QuoteKeeps
<1>4. ASSUME NEW m \in Msg, NEW n \in Nick, Tell(m, n) PROVE Inv'
  <2>1. [k \in {m} |-> n] \in Others
    BY TellChanges
  <2> QED BY <1>4, <2>1, ChangesKeep DEF Tell
<1>5. ASSUME NEW n \in Nick, TellTell(n) PROVE Inv'
  <2> DEFINE done == {m \in Msg : m_settings[m] \in {n, Empty}}
  <2>1. [m \in done |-> None] \in Others
    BY TellChanges
  <2> QED BY <1>5, <2>1, ChangesKeep DEF TellTell
<1>6. CASE Cleanup
  <2>1. PICK old \in SUBSET {m \in Msg : m_settings[m] \in Nick} :
          Sync([m \in old \cup {b \in Msg : m_settings[b] = Empty} |-> None], "write")
    BY <1>6 DEF Cleanup
  <2>2. [m \in old \cup {b \in Msg : m_settings[b] = Empty} |-> None] \in Others
    BY TellChanges
  <2> QED BY <1>1, <1>6, <2>1, <2>2, SyncsKeep DEF Cleanup
<1>7. ASSUME NEW n \in Nick, NEW t \in Text, Remember(n, t) PROVE Inv'
  BY <1>1, <1>7, TextsKeep DEF Remember
<1>8. ASSUME NEW n \in Nick, Recall(n) PROVE Inv'
  <2>1. TextOf(n) \in Text \cup {Empty, None}
    BY <1>1 DEF TextOf, Get, Inv, Stored, Kinds, Texts
  <2> QED BY <1>1, <1>8, <2>1, TextsKeep DEF Recall
<1>9. ASSUME NEW n \in Nick, Leave(n) PROVE Inv'
  BY <1>1, <1>9, TextsKeep DEF Leave
<1>10. ASSUME NEW n \in Nick, NEW new \in Nick, Rename(n, new) PROVE Inv'
  BY <1>1, <1>10, TextsKeep DEF Rename
<1>11. ASSUME NEW n \in Nick, NEW t \in Text \cup {None}, SettingSet(n, t) PROVE Inv'
  <2>1. [k \in {n} |-> t] \in Others
    BY TextChanges
  <2> QED BY <1>11, <2>1, ChangesKeep DEF SettingSet
<1>12. CASE SettingSave
  BY <1>1, <1>12, RememberedChanges, SyncsKeep DEF SettingSave, Inv
<1>13. ASSUME NEW reason \in {"write", "both"}, OtherSync(reason) PROVE Inv'
  BY <1>1, <1>13, NoChanges, SyncsKeep DEF OtherSync
<1>14. ASSUME NEW module \in {"quotes", "tell", "builtin"}, NEW keep_data \in BOOLEAN, Reload(module, keep_data)
       PROVE  Inv'
  <2>1. remember_text' \in [Nick -> Text \cup {Empty, None}]
    BY <1>1, <1>14 DEF Reload, NoTexts
  <2>2. PICK changes \in Others : Sync(changes, "write")
    BY <1>14, NoChanges, RememberedChanges DEF Reload, Inv
  <2> QED BY <1>14, <2>1, <2>2, SyncsKeep DEF Reload
<1>15. CASE Exit
  <2>1. remember_text' \in [Nick -> Text \cup {Empty, None}]
    BY <1>15 DEF Exit, NoTexts
  <2> QED BY <1>15, <2>1, NoChanges, SyncsKeep DEF Exit
<1>16. CASE Exited \/ Crash
  BY <1>16, DownKeeps DEF Exited, Crash
<1> QED
  BY <1>2, <1>3, <1>4, <1>5, <1>6, <1>7, <1>8, <1>9, <1>10, <1>11, <1>12, <1>13, <1>14, <1>15, <1>16,
     LoadKeeps, FinishKeeps, StartKeeps DEF Next

LEMMA Invariance == Spec => []Inv
BY Initially, NextKeeps, PTL DEF Spec

-----------------------------------------------------------------------------
(* The records implement the store, one lemma for each kind of step.          *)

LEMMA ChangeImplements ==
  ASSUME Ready, NEW changes, Change(changes), UNCHANGED <<disk, running>>, SettingsTypeOK'
  PROVE  Abstract!Change
<1>1. Plain(accepted') \in [Key -> Value \cup {None}]
  BY PlainType DEF SettingsTypeOK
<1> QED BY <1>1 DEF Ready, disk, Abstract!Change, Plain

LEMMA SyncImplements ==
  ASSUME SettingsTypeOK, SettingsTypeOK', running, ~syncing, UNCHANGED running,
         NEW changes \in Changes, NEW reason, Allowed(changes, reason), Sync(changes, reason)
  PROVE  Abstract!StartSave \/ UNCHANGED Abstract!vars
<1>1. CASE file' = NoFile /\ syncing' = TRUE
  <2>1. Plain(accepted') \in [Key -> Value \cup {None}]
    BY PlainType DEF SettingsTypeOK
  <2> QED BY <1>1, <2>1 DEF Abstract!StartSave, Abstract!Nothing, Nothing, Plain
<1>2. CASE Marked(changes) = {} /\ UNCHANGED <<file, syncing>>
  <2>1. Accepted(changes) = {} /\ accepted' = Applied(changes, accepted)
    BY <1>2 DEF Marked, Sync
  <2>2. accepted' = accepted
    BY <2>1 DEF Applied, SettingsTypeOK, Contents
  <2> QED BY <1>2, <2>2 DEF Abstract!vars, Plain
<1>3. reason = "read" => Marked(changes) = {}
  BY DEF Allowed, Marked, Accepted
<1> QED BY <1>1, <1>2, <1>3 DEF Sync

LEMMA FinishImplements == ASSUME Inv, FinishSync PROVE Abstract!EndSave
<1>1. newfile # NoFile /\ Plain(newfile) = Plain(accepted)
  BY DEF Inv, Stored, Agreement, FinishSync, RenameNew
<1> QED BY <1>1 DEF FinishSync, RenameNew, Abstract!EndSave, Plain

LEMMA DownImplements == ASSUME running, Down PROVE Abstract!Crash
<1>1. Plain(accepted') = IF file = NoFile THEN Nothing ELSE Plain(file)
  BY PlainNothing DEF Down, LoseMemory, Plain
<1> QED BY <1>1 DEF Down, LoseMemory, Abstract!Crash, Plain

LEMMA StartImplements == ASSUME Start PROVE Abstract!Restart
<1>1. Plain(file') = IF file = NoFile THEN Nothing ELSE Plain(file)
  BY PlainNothing DEF Start, ReadAtStart, Plain
<1>2. file' # NoFile
  BY NothingType, FilesAreValues DEF Start, ReadAtStart
<1> QED BY <1>1, <1>2 DEF Start, ReadAtStart, Abstract!Restart, Plain

LEMMA StepImplements == Inv /\ Inv' /\ [Next]_vars => [Abstract!Next]_(Abstract!vars)
<1> SUFFICES ASSUME Inv, Inv', [Next]_vars PROVE [Abstract!Next]_(Abstract!vars)
  OBVIOUS
<1>1. SettingsTypeOK /\ SettingsTypeOK' /\ Modules
  BY DEF Inv, Stored
<1>2. ASSUME NEW changes, Ready, Change(changes), UNCHANGED <<disk, running>>
      PROVE  Abstract!Next
  BY <1>1, <1>2, ChangeImplements DEF Abstract!Next
<1>3. ASSUME NEW changes \in Others, NEW reason \in {"write", "both"}, Ready, Sync(changes, reason), UNCHANGED running
      PROVE  [Abstract!Next]_(Abstract!vars)
  <2>1. changes \in Changes /\ Allowed(changes, reason)
    BY DEF Others, Allowed
  <2> QED BY <1>1, <1>3, <2>1, SyncImplements DEF Abstract!Next, Ready
<1>4. ASSUME UNCHANGED <<accepted, file, syncing, running>> PROVE UNCHANGED Abstract!vars
  BY <1>4 DEF Abstract!vars, Plain
<1>5. CASE UNCHANGED vars
  BY <1>4, <1>5 DEF vars, memory, disk
<1>6. ASSUME NEW q \in Quote, AddQuote(q) PROVE Abstract!Next
  BY <1>2, <1>6 DEF AddQuote
<1>7. ASSUME NEW m \in Msg, NEW n \in Nick, Tell(m, n) PROVE Abstract!Next
  BY <1>2, <1>7 DEF Tell
<1>8. ASSUME NEW n \in Nick, TellTell(n) PROVE Abstract!Next
  BY <1>2, <1>8 DEF TellTell
<1>9. ASSUME NEW n \in Nick, NEW t \in Text \cup {None}, SettingSet(n, t) PROVE Abstract!Next
  BY <1>2, <1>9 DEF SettingSet
<1>10. ASSUME NEW n \in Nick, \/ \E t \in Text : Remember(n, t)
                              \/ Recall(n) \/ Leave(n) \/ \E new \in Nick : Rename(n, new)
       PROVE  UNCHANGED Abstract!vars
  BY <1>4, <1>10 DEF Remember, Recall, Leave, Rename, memory, disk
<1>11. CASE Cleanup
  <2>1. PICK old \in SUBSET {m \in Msg : m_settings[m] \in Nick} :
          Sync([m \in old \cup {b \in Msg : m_settings[b] = Empty} |-> None], "write")
    BY <1>11 DEF Cleanup
  <2>2. [m \in old \cup {b \in Msg : m_settings[b] = Empty} |-> None] \in Others
    BY TellChanges
  <2> QED BY <1>3, <1>11, <2>1, <2>2 DEF Cleanup
<1>12. CASE SettingSave
  BY <1>1, <1>3, <1>12, RememberedChanges DEF SettingSave
<1>13. ASSUME NEW reason \in {"write", "both"}, OtherSync(reason) PROVE [Abstract!Next]_(Abstract!vars)
  BY <1>3, <1>13, NoChanges DEF OtherSync
<1>14. ASSUME NEW module \in {"quotes", "tell", "builtin"}, NEW keep_data \in BOOLEAN, Reload(module, keep_data)
       PROVE  [Abstract!Next]_(Abstract!vars)
  <2>1. PICK changes \in Others : Sync(changes, "write")
    BY <1>1, <1>14, NoChanges, RememberedChanges DEF Reload
  <2> QED BY <1>3, <1>14, <2>1 DEF Reload
<1>15. CASE LoadModule
  <2>1. m_modified = {} /\ running /\ ~syncing /\ Sync(<<>>, "read") /\ UNCHANGED running
    BY <1>15 DEF LoadModule, Inv, Stored, Quiet
  <2>2. <<>> \in Changes /\ Allowed(<<>>, "read")
    BY <2>1, NoChanges DEF Others, Allowed
  <2> QED BY <1>1, <2>1, <2>2, SyncImplements DEF Abstract!Next
<1>16. CASE FinishSync
  BY <1>16, FinishImplements DEF Abstract!Next
<1>17. CASE Exit
  BY <1>3, <1>17, NoChanges DEF Exit
<1>18. CASE Exited \/ Crash
  <2>1. running
    BY <1>18 DEF Exited, Crash, Inv, Stored, Quiet
  <2> QED BY <1>18, <2>1, DownImplements DEF Exited, Crash, Abstract!Next
<1>19. CASE Start
  BY <1>19, StartImplements DEF Abstract!Next
<1> QED
  BY <1>5, <1>6, <1>7, <1>8, <1>9, <1>10, <1>11, <1>12, <1>13, <1>14, <1>15, <1>16, <1>17, <1>18, <1>19 DEF Next

-----------------------------------------------------------------------------
(* Quotes with numbers below the last one. *)

LEMMA QuotesStay ==
  ASSUME Inv, [Next]_vars, running, running', accepted[Id] \in Number, NEW k \in 1 .. accepted[Id] - 1
  PROVE  Plain(accepted)'[k] = Plain(accepted)[k]
<1>1. accepted \in Contents /\ k \in Number /\ k \in Key
  BY RecordsAssumption DEF Inv, Stored, SettingsTypeOK, Number, Key
<1>2. ASSUME accepted'[k] = accepted[k] PROVE Plain(accepted)'[k] = Plain(accepted)[k]
  BY <1>1, <1>2 DEF Plain
<1>3. ASSUME NEW changes \in Others, accepted' = Applied(changes, accepted)
      PROVE  accepted'[k] = accepted[k]
  BY <1>1, <1>3, QuotesUntouched
<1>4. CASE UNCHANGED accepted
  BY <1>2, <1>4
<1>5. ASSUME NEW q \in Quote, AddQuote(q) PROVE accepted'[k] = accepted[k]
  <2> DEFINE c == [i \in {Id, m_last_id} |-> IF i = Id THEN m_last_id ELSE q]
  <2>1. k # m_last_id
    BY <1>1, <1>5 DEF Inv, Modules, Numbered, Number
  <2>2. k \notin DOMAIN c
    BY <1>1, <2>1, RecordsAssumption
  <2>3. accepted' = Applied(c, accepted)
    BY <1>5 DEF AddQuote, Change
  <2> HIDE DEF c
  <2> QED BY <1>1, <2>2, <2>3 DEF Applied, Accepted
<1>6. ASSUME NEW n \in Nick, TellTell(n) \/ \E m \in Msg : Tell(m, n) PROVE accepted'[k] = accepted[k]
  <2>1. PICK S \in SUBSET Msg, to \in Nick \cup {None} : Change([i \in S |-> to])
    <3>1. CASE TellTell(n)
      <4> DEFINE done == {m \in Msg : m_settings[m] \in {n, Empty}}
      <4>1. Change([m \in done |-> None])
        BY <3>1 DEF TellTell
      <4> QED BY <4>1
    <3>2. CASE \E m \in Msg : Tell(m, n)
      BY <3>2 DEF Tell
    <3> QED BY <1>6, <3>1, <3>2
  <2> QED BY <1>3, <2>1, TellChanges DEF Change
<1>7. ASSUME Cleanup PROVE accepted'[k] = accepted[k]
  <2>1. PICK S \in SUBSET Msg : Sync([i \in S |-> None], "write")
    BY <1>7 DEF Cleanup
  <2> QED BY <1>3, <2>1, TellChanges DEF Sync
<1>8. ASSUME NEW n \in Nick, NEW t \in Text \cup {None}, SettingSet(n, t) PROVE accepted'[k] = accepted[k]
  <2>1. [i \in {n} |-> t] \in Others
    BY TextChanges
  <2> QED BY <1>3, <1>8, <2>1 DEF SettingSet, Change
<1>9. ASSUME NEW n \in Nick, \/ \E t \in Text : Remember(n, t)
                             \/ Recall(n) \/ Leave(n) \/ \E new \in Nick : Rename(n, new)
      PROVE  accepted'[k] = accepted[k]
  BY <1>9 DEF Remember, Recall, Leave, Rename, memory
<1>10. ASSUME SettingSave PROVE accepted'[k] = accepted[k]
  BY <1>3, <1>10, RememberedChanges DEF SettingSave, Sync, Inv
<1>11. ASSUME NEW reason \in {"write", "both"}, OtherSync(reason) PROVE accepted'[k] = accepted[k]
  BY <1>3, <1>11, NoChanges DEF OtherSync, Sync
<1>12. ASSUME NEW module \in {"quotes", "tell", "builtin"}, NEW keep_data \in BOOLEAN, Reload(module, keep_data)
       PROVE  accepted'[k] = accepted[k]
  <2>1. PICK changes \in Others : Sync(changes, "write")
    BY <1>12, NoChanges, RememberedChanges DEF Reload, Inv
  <2> QED BY <1>3, <2>1 DEF Sync
<1>13. ASSUME LoadModule \/ Exit PROVE accepted'[k] = accepted[k]
  BY <1>3, <1>13, NoChanges DEF LoadModule, Exit, Sync
<1>14. ASSUME FinishSync PROVE accepted'[k] = accepted[k]
  BY <1>14 DEF FinishSync, RenameNew
<1>15. ~(Exited \/ Crash \/ Start)
  BY DEF Exited, Crash, Down, Start
<1>16. CASE UNCHANGED vars
  BY <1>4, <1>16 DEF vars, memory
<1>17. CASE Next
  <2>1. accepted'[k] = accepted[k]
    <3>1. CASE \E n \in Nick : \/ \E t \in Text : Remember(n, t)
                               \/ Recall(n) \/ Leave(n)
                               \/ \E new \in Nick : Rename(n, new)
                               \/ \E t \in Text \cup {None} : SettingSet(n, t)
      BY <1>8, <1>9, <3>1
    <3>2. CASE \E n \in Nick : TellTell(n) \/ \E m \in Msg : Tell(m, n)
      BY <1>6, <3>2
    <3>3. CASE (\E q \in Quote : AddQuote(q)) \/ (\E reason \in {"write", "both"} : OtherSync(reason))
      BY <1>5, <1>11, <3>3
    <3> QED
      BY <1>7, <1>10, <1>12, <1>13, <1>14, <1>15, <1>17, <3>1, <3>2, <3>3 DEF Next
  <2> QED BY <1>2, <2>1
<1> QED BY <1>16, <1>17

-----------------------------------------------------------------------------
(* The theorems about states. *)

\* The settings, both files and the modules keep their types, and there is a
\* complete file while the bot runs, except while it is replaced.
THEOREM TypeCorrect == Spec => []TypeOK
<1>1. Inv => TypeOK
  BY DEF Inv, Stored, Modules, TypeOK
<1> QED BY <1>1, Invariance, PTL

\* Memory never shows a value other than the last one accepted.
THEOREM NoOldValue == Spec => []NoStaleValue
<1>1. Inv => NoStaleValue
  BY DEF Inv, Stored
<1> QED BY <1>1, Invariance, PTL

-----------------------------------------------------------------------------
(* The theorems about steps. *)

\* Every write holds all that was accepted, a crash goes back to the last one,
\* and the file is missing only while it is replaced.
THEOREM Refinement == Spec => ImplementsStore
<1>1. Init => Abstract!Init
  BY PlainNothing DEF Init, SettingsInit, Abstract!Init, Abstract!Nothing, Nothing
<1> QED BY <1>1, StepImplements, Invariance, PTL DEF Spec, ImplementsStore, Abstract!Spec

\* No change, reload or synchronisation changes a quote before the last one.
THEOREM OldQuotesKept == Spec => OldQuotesStay
<1>1. Inv /\ [Next]_vars =>
        [running /\ running' /\ accepted[Id] \in Number =>
           \A k \in 1 .. accepted[Id] - 1 : Plain(accepted)'[k] = Plain(accepted)[k]]_vars
  BY QuotesStay
<1> QED BY <1>1, Invariance, PTL DEF Spec, OldQuotesStay
=============================================================================
