------------------------------ MODULE Records ------------------------------
(* The modules that keep records in the settings of the module manager:       *)
(* nbm_quotes (numbered quotes and the number "id" of the last one), nbm_tell *)
(* (messages that wait for a nickname) and nbm_builtin ($remember, $setting), *)
(* with reloads, crashes and restarts of the bot. Other modules appear by the *)
(* synchronisations that they cause. Cooldowns only delay commands and are    *)
(* left out, as is nbm_builtin's $setting get, which changes nothing.         *)
EXTENDS Naturals, FiniteSets

CONSTANTS
  Nick, Msg,     \* nicknames; messages, each of which has a key of its own
  Quote, Text,   \* texts of quotes, texts to remember
  Id,            \* the key "id"
  None, Empty, NoFile,
  MAX_QUOTES     \* bound: the highest number of a quote

Number == 1 .. MAX_QUOTES
Key == Number \cup {Id} \cup Msg \cup Nick
Value == Number \cup Quote \cup Nick \cup Text

\* The keys of different modules differ by the prefixes of their forks.
ASSUME RecordsAssumption ==
  /\ MAX_QUOTES \in Nat
  /\ Id \notin Number \cup Msg \cup Nick /\ Number \cap (Msg \cup Nick) = {} /\ Msg \cap Nick = {}
  /\ Empty # None /\ Empty \notin Value /\ None \notin Value
  /\ NoFile \notin [Key -> Value \cup {Empty, None}]

VARIABLES
  m_settings, m_modified, file, newfile, syncing, accepted,
  running,      \* the bot runs
  next,         \* what follows the synchronisation under way: "nothing", the
                \* constructor of the module that is reloaded, or the "exit"
  m_last_id,    \* of nbm_quotes: the number of the next quote
  remember_text \* of nbm_builtin: the texts in the users' data, None without data

INSTANCE Settings

memory == <<m_settings, m_modified, accepted>>
disk == <<file, newfile, syncing>>
vars == <<memory, disk, running, next, m_last_id, remember_text>>

Ready == running /\ ~syncing /\ next = "nothing"
NoTexts == [n \in Nick |-> None]

Init ==
  /\ SettingsInit /\ running = FALSE /\ next = "nothing"
  /\ m_last_id = 1 /\ remember_text = NoTexts

-----------------------------------------------------------------------------
(* nbm_quotes. *)

\* A quote is added unless memory has one with the same text.
AddQuote(q) ==
  /\ Ready /\ m_last_id <= MAX_QUOTES
  /\ \A k \in Number : m_settings[k] # q
  /\ Change([k \in {Id, m_last_id} |-> IF k = Id THEN m_last_id ELSE q])
  /\ m_last_id' = m_last_id + 1
  /\ UNCHANGED <<disk, running, next, remember_text>>

\* Mutant: the numbers start again.
NextIdOne(values) == 1
\* onClientReady: the number goes on from the value of "id", if there is one.
NextId(values) == IF values[Id] \in Number THEN values[Id] ELSE 1

-----------------------------------------------------------------------------
(* nbm_tell. *)

\* The same message is refused as long as memory has a valid record of it.
Tell(m, to) ==
  /\ Ready /\ m_settings[m] \notin Nick
  /\ Change([k \in {m} |-> to])
  /\ UNCHANGED <<disk, running, next, m_last_id, remember_text>>

\* tellTell, when somebody joins or talks: the messages for the nickname are
\* told and removed, and so are broken records.
TellTell(n) ==
  /\ Ready
  /\ LET done == {m \in Msg : m_settings[m] \in {n, Empty}}
     IN done # {} /\ Change([m \in done |-> None])
  /\ UNCHANGED <<disk, running, next, m_last_id, remember_text>>

\* Every hour, old and broken records are removed. Which ones are old is not
\* known: cmd_tell does not initialise the time of a record.
Cleanup ==
  /\ Ready
  /\ \E old \in SUBSET {m \in Msg : m_settings[m] \in Nick} :
       Sync([m \in old \cup {b \in Msg : m_settings[b] = Empty} |-> None], "write")
  /\ UNCHANGED <<running, next, m_last_id, remember_text>>

-----------------------------------------------------------------------------
(* nbm_builtin. *)

\* getContainer: the user's data, made from the settings on first use.
TextOf(n) == IF remember_text[n] = None THEN Get(n) ELSE remember_text[n]

Remember(n, t) ==
  /\ Ready /\ remember_text' = [remember_text EXCEPT ![n] = t]
  /\ UNCHANGED <<memory, disk, running, next, m_last_id>>

\* $remember without a text, or $updateauth.
Recall(n) ==
  /\ Ready /\ remember_text' = [remember_text EXCEPT ![n] = TextOf(n)]
  /\ UNCHANGED <<memory, disk, running, next, m_last_id>>

\* A user leaves the network, and the data with it.
Leave(n) ==
  /\ Ready /\ remember_text' = [remember_text EXCEPT ![n] = None]
  /\ UNCHANGED <<memory, disk, running, next, m_last_id>>

\* The data follows a user who changes the nickname to one that is free.
Rename(n, new) ==
  /\ Ready /\ n # new /\ remember_text[new] = None
  /\ remember_text' = [remember_text EXCEPT ![new] = remember_text[n], ![n] = None]
  /\ UNCHANGED <<memory, disk, running, next, m_last_id>>

\* $setting set with and without a value.
SettingSet(n, t) ==
  /\ Ready /\ Change([k \in {n} |-> t])
  /\ UNCHANGED <<disk, running, next, m_last_id, remember_text>>

\* saveSettings: what the users want to remember.
Remembered ==
  [n \in {u \in Nick : remember_text[u] # None} |->
     IF remember_text[n] = Empty THEN None ELSE remember_text[n]]

SettingSave ==
  /\ Ready /\ Sync(Remembered, "write")
  /\ UNCHANGED <<running, next, m_last_id, remember_text>>

-----------------------------------------------------------------------------
(* Synchronisations of other modules: the feeds write, the end of a game of   *)
(* UNO reads too. Reloads: the destructor of the old module writes, and the   *)
(* new one reads when it asks for its settings.                               *)

OtherSync(reason) ==
  /\ Ready /\ Sync(<<>>, reason)
  /\ UNCHANGED <<running, next, m_last_id, remember_text>>

\* Without keep_data, the users' data is gone before the destructor of
\* nbm_builtin could save it.
Reload(module, keep_data) ==
  /\ Ready /\ next' = module
  /\ remember_text' = IF module = "builtin" /\ ~keep_data THEN NoTexts ELSE remember_text
  /\ Sync(IF module = "builtin" /\ keep_data THEN Remembered ELSE <<>>, "write")
  /\ UNCHANGED <<running, m_last_id>>

\* getSettings reads the file once more for the new module.
LoadModule ==
  /\ ~syncing /\ next \in {"quotes", "tell", "builtin"}
  /\ next' = "nothing"
  /\ Sync(<<>>, "read")
  /\ m_last_id' = IF next = "quotes" THEN NextId(m_settings') ELSE m_last_id
  /\ UNCHANGED <<running, remember_text>>

FinishSync ==
  /\ RenameNew
  /\ UNCHANGED <<running, next, m_last_id, remember_text>>

-----------------------------------------------------------------------------
(* The end of the bot and its start. *)

\* ~ModuleMgr: the destructors of the modules write, after the users' data is
\* gone.
Exit ==
  /\ Ready /\ Sync(<<>>, "write")
  /\ next' = "exit" /\ remember_text' = NoTexts
  /\ UNCHANGED <<running, m_last_id>>

Down == running' = FALSE /\ next' = "nothing" /\ m_last_id' = 1 /\ remember_text' = NoTexts /\ LoseMemory

Exited == ~syncing /\ next = "exit" /\ Down
Crash == running /\ Down

\* The module manager reads the settings, and all modules are loaded.
Start ==
  /\ ~running /\ running' = TRUE
  /\ ReadAtStart /\ m_last_id' = NextId(m_settings')
  /\ UNCHANGED <<next, remember_text>>

Next ==
  \/ \E q \in Quote : AddQuote(q)
  \/ \E m \in Msg, n \in Nick : Tell(m, n)
  \/ \E n \in Nick : TellTell(n)
  \/ Cleanup
  \/ \E n \in Nick : \/ \E t \in Text : Remember(n, t)
                     \/ Recall(n) \/ Leave(n)
                     \/ \E new \in Nick : Rename(n, new)
                     \/ \E t \in Text \cup {None} : SettingSet(n, t)
  \/ SettingSave
  \/ \E reason \in {"write", "both"} : OtherSync(reason)
  \/ \E module \in {"quotes", "tell", "builtin"}, keep_data \in BOOLEAN : Reload(module, keep_data)
  \/ LoadModule \/ FinishSync
  \/ Exit \/ Exited \/ Crash \/ Start

Spec == Init /\ [][Next]_vars

-----------------------------------------------------------------------------
(* Properties. *)

\* Types. The file and the new file are complete whenever they exist, and the
\* file is missing only before the first start or while it is replaced.
TypeOK ==
  /\ SettingsTypeOK
  /\ running \in BOOLEAN /\ next \in {"nothing", "quotes", "tell", "builtin", "exit"}
  /\ m_last_id \in 1 .. MAX_QUOTES + 1
  /\ remember_text \in [Nick -> Text \cup {Empty, None}]
  /\ running => syncing # (file # NoFile)
  /\ syncing = (newfile # NoFile)

\* A value without the difference between an empty and a missing one.
Plain(values) == [k \in Key |-> IF values[k] = Empty THEN None ELSE values[k]]

\* Whatever was synchronised, reloaded or left unsaved in between, a key that
\* memory has shows the last value that was accepted for it. (A key that was
\* just appended to the file may be missing from memory.)
NoStaleValue ==
  \A k \in Key : running /\ m_settings[k] # None => Plain(m_settings)[k] = Plain(accepted)[k]

Abstract == INSTANCE Store WITH
  contents <- Plain(accepted),
  saved    <- IF file = NoFile THEN Nothing ELSE Plain(file),
  saving   <- syncing

\* Every write to the file holds all that was accepted before it, from all
\* modules; a crash goes back to the last write, except between the removal
\* of the old file and the renaming of the new one.
ImplementsStore == Abstract!Spec

\* The quotes before the last one never change as long as the bot runs,
\* although the number of the next one is taken from the file again by a
\* reload. (The last one may: the number that is saved is that of the last
\* quote, not of the next.)
OldQuotesStay ==
  [][running /\ running' /\ accepted[Id] \in Number =>
       \A k \in 1 .. accepted[Id] - 1 : Plain(accepted)'[k] = Plain(accepted)[k]]_vars
=============================================================================
