------------------------------- MODULE Store -------------------------------
(* What the modules rely on: a map that they change, and a copy of it on disk *)
(* that holds all of it after every save. A crash goes back to the copy; only *)
(* while a save replaces the copy there is none, and a crash then loses all.  *)
CONSTANTS Key, Value, None

VARIABLES contents,    \* what the modules set
          saved,       \* what a restart would find
          saving,      \* the copy is being replaced
          running

vars == <<contents, saved, saving, running>>

Nothing == [k \in Key |-> None]

Init == contents = Nothing /\ saved = Nothing /\ saving = FALSE /\ running = FALSE

Change ==
  /\ running /\ ~saving
  /\ contents' \in [Key -> Value \cup {None}]
  /\ UNCHANGED <<saved, saving, running>>

\* A save may begin with a change of its own.
StartSave ==
  /\ running /\ ~saving /\ saved' = Nothing /\ saving' = TRUE
  /\ contents' \in [Key -> Value \cup {None}]
  /\ UNCHANGED running
EndSave == saving /\ saved' = contents /\ saving' = FALSE /\ UNCHANGED <<contents, running>>

Crash   == running /\ contents' = saved /\ saving' = FALSE /\ running' = FALSE /\ UNCHANGED saved
Restart == ~running /\ running' = TRUE /\ UNCHANGED <<contents, saved, saving>>

Next == Change \/ StartSave \/ EndSave \/ Crash \/ Restart
Spec == Init /\ [][Next]_vars
=============================================================================
