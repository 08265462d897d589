------------------------------ MODULE Settings ------------------------------
(* core/settings.cpp: the settings object of the module manager, which all    *)
(* modules share through forks, and its file. Keys and values are whatever    *)
(* the users of this module put in; the lines that are comments or broken are *)
(* kept or commented out by the code and not modelled. All methods run under  *)
(* m_lock; a write to the file is split where a crash makes a difference (one *)
(* before the old file is removed is like one before the write).              *)
EXTENDS FiniteSets

CONSTANTS
  Key, Value,
  None,        \* no such key
  Empty,       \* the empty string as a value
  NoFile       \* there is no file

VARIABLES
  m_settings,  \* the values in memory
  m_modified,  \* the keys that were changed since the last synchronisation
  file,        \* the values in the file
  newfile,     \* the values in the file ".~new"
  syncing,     \* the old file is removed, and the new one not yet renamed
  accepted     \* history: the values as set and remove accepted them

Nothing == [k \in Key |-> None]
Contents == [Key -> Value \cup {Empty, None}]

\* The result of get: a missing value is the empty string.
Get(k) == IF m_settings[k] = None THEN Empty ELSE m_settings[k]

(* Changes are given as a function from the keys to their values, where None  *)
(* is a call of remove. To remove a key that is not in memory is refused.     *)
Accepted(changes) == {k \in DOMAIN changes : changes[k] # None \/ m_settings[k] # None}
Applied(changes, values) ==
  [k \in Key |-> IF k \in Accepted(changes) THEN changes[k] ELSE values[k]]

\* Mutant: a removed key is not marked.
MarkedSet(changes) == m_modified \cup {k \in DOMAIN changes : changes[k] # None}
Marked(changes) == m_modified \cup Accepted(changes)

Change(changes) ==
  /\ m_settings' = Applied(changes, m_settings)
  /\ m_modified' = Marked(changes)
  /\ accepted' = Applied(changes, accepted)

\* Mutant: the line of a removed key stays.
MergedLines(values, modified) ==
  [k \in Key |->
     IF k \notin modified \/ values[k] = None THEN file[k] ELSE values[k]]

(* Of a file and changed values: modified keys of the file get their value,   *)
(* or their line is dropped; other modified keys are appended, with the       *)
(* value that operator[] makes up for a key that was removed again.           *)
Merged(values, modified) ==
  [k \in Key |->
     IF k \notin modified THEN file[k]
     ELSE IF file[k] = None /\ values[k] = None THEN Empty
     ELSE values[k]]

(* What stays in memory afterwards: the keys of the old file only. Those that *)
(* were just appended are gone until the next reading.                        *)
Kept(values, modified) ==
  [k \in Key |->
     IF file[k] = None THEN None
     ELSE IF k \in modified THEN values[k]
     ELSE file[k]]

\* syncFileContents, after the changes that the same operation makes. "write"
\* does nothing if nothing is modified; "read" never writes; "both" does what
\* is needed. A file that is missing is created unless it is only to be read.
\* When the new file is complete, std::remove deletes the old one.
Sync(changes, reason) ==
  LET values == Applied(changes, m_settings)
      modified == Marked(changes)
  IN /\ accepted' = Applied(changes, accepted)
     /\ \/ /\ modified = {} /\ reason = "write"
           /\ UNCHANGED <<m_settings, m_modified, file, newfile, syncing>>
        \/ /\ modified # {} /\ reason # "read"
           /\ newfile' = Merged(values, modified) /\ file' = NoFile /\ syncing' = TRUE
           /\ m_settings' = Kept(values, modified) /\ m_modified' = {}
        \/ /\ reason = "read" \/ (modified = {} /\ reason = "both")
           /\ m_settings' = file /\ m_modified' = {}
           /\ UNCHANGED <<file, newfile, syncing>>

\* The end of syncFileContents: std::rename.
RenameNew ==
  /\ syncing
  /\ syncing' = FALSE /\ file' = newfile /\ newfile' = NoFile
  /\ UNCHANGED <<m_settings, m_modified, accepted>>

\* The bot dies: the memory is gone, and nobody looks at the new file again.
LoseMemory ==
  /\ m_settings' = Nothing /\ m_modified' = {}
  /\ syncing' = FALSE /\ newfile' = NoFile /\ UNCHANGED file
  /\ accepted' = IF file = NoFile THEN Nothing ELSE file

\* Mutant: a missing file is not created.
ReadOnly ==
  /\ file' = file
  /\ m_settings' = IF file = NoFile THEN Nothing ELSE file
  /\ UNCHANGED <<m_modified, newfile, syncing, accepted>>

\* The constructor of the module manager creates the file or reads it.
ReadAtStart ==
  /\ file' = IF file = NoFile THEN Nothing ELSE file
  /\ m_settings' = file'
  /\ UNCHANGED <<m_modified, newfile, syncing, accepted>>

SettingsInit ==
  /\ m_settings = Nothing /\ m_modified = {} /\ accepted = Nothing
  /\ file = NoFile /\ newfile = NoFile /\ syncing = FALSE

SettingsTypeOK ==
  /\ m_settings \in Contents /\ accepted \in Contents /\ m_modified \subseteq Key
  /\ file \in Contents \cup {NoFile} /\ newfile \in Contents \cup {NoFile}
  /\ syncing \in BOOLEAN
=============================================================================
