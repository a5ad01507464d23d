---------------------------- MODULE ProfileNotes ----------------------------
(* The user's notes on eSIM profiles the Mac server keeps in a file          *)
(* (cmd/djonehub-macos/main.go).  profileNotesMu serialises its operations.  *)
EXTENDS Naturals

CONSTANTS Profile, Note, MaxFailed
VARIABLES
    noted,      \* profileNotes in memory, or NotLoaded
    notesFile,  \* profile-notes.json, or NotLoaded when there is none
    legacy,     \* the file of the program's earlier name
    toldNote,   \* of a profile: the note last answered as saved
    maybe,      \* of a profile: the notes of saves that failed since
    failed      \* saves that failed so far

noteVars == <<noted, notesFile, legacy, toldNote, maybe, failed>>

None == "none"  \* no note
Notes == [Profile -> Note \cup {None}]
NotLoaded == [p \in Profile |-> "absent"]

TypeOK ==
    /\ {noted, notesFile} \subseteq Notes \cup {NotLoaded} /\ legacy \in Notes
    /\ toldNote \in Notes /\ maybe \in [Profile -> SUBSET (Note \cup {None})]
    /\ failed \in 0..MaxFailed

Init ==
    /\ legacy \in Notes /\ toldNote \in Notes
    /\ \/ notesFile = NotLoaded /\ toldNote = legacy
       \/ notesFile = toldNote
    /\ noted = NotLoaded /\ maybe = [p \in Profile |-> {}] /\ failed = 0

\* loadProfileNotesLocked
LoadedNotes ==
    IF noted # NotLoaded THEN noted
    ELSE IF notesFile # NotLoaded THEN notesFile ELSE legacy

\* listESIMNotes: what it shows is told.
List ==
    /\ noted' = LoadedNotes /\ UNCHANGED <<notesFile, legacy, toldNote, maybe, failed>>

\* saveESIMNote; an empty note is a removal.  Memory changes first, and stays
\* changed when the file could not be written: a later save writes both.
SaveNote(p, n) ==
    /\ noted' = [LoadedNotes EXCEPT ![p] = n]
    /\ \/ /\ notesFile' = noted'
          /\ toldNote' = [toldNote EXCEPT ![p] = n]
          /\ maybe' = [maybe EXCEPT ![p] = {}]
          /\ UNCHANGED failed
       \/ /\ failed < MaxFailed /\ failed' = failed + 1
          /\ maybe' = [maybe EXCEPT ![p] = @ \cup {n}]
          /\ UNCHANGED <<notesFile, toldNote>>
    /\ UNCHANGED legacy

\* The process ends between two operations, or between the change of memory and
\* the rename of the file, which is SaveNote's failure; it starts again.
Restart ==
    /\ noted # NotLoaded /\ noted' = NotLoaded
    /\ UNCHANGED <<notesFile, legacy, toldNote, maybe, failed>>

Next ==
    \/ List \/ Restart
    \/ \E p \in Profile, n \in Note \cup {None} : SaveNote(p, n)

\* A note answered as saved is in the file, for every profile and over restarts,
\* or one of a later save that failed is; the notes of the earlier program come
\* along with the first save: loadProfileNotesLocked and saveESIMNote.
OnFile == IF notesFile = NotLoaded THEN legacy ELSE notesFile
NotesAreSaved == \A p \in Profile : OnFile[p] \in {toldNote[p]} \cup maybe[p]
=============================================================================
