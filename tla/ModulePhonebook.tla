--------------------------- MODULE ModulePhonebook ---------------------------
(* The notes on eSIM profiles the Mac server keeps in the module's phonebook *)
(* (cmd/djonehub-macos/main.go).  They share a storage with what else is in  *)
(* it, and the selection of the storage with every other AT command:         *)
(* moduleNotesMu serialises the notes' requests, but the probe of the SIM's  *)
(* phonebook does not take it.                                               *)
EXTENDS FiniteSets, Naturals

CONSTANTS Profile, Note, Slots, MaxTroubles
VARIABLES
    book,       \* of "ME" and "SM": what each index holds
    selected,   \* the module's phonebook storage
    saver,      \* the request that holds moduleNotesMu
    prober,     \* what the probe does next
    disturbed,  \* the selection changed under the request
    spoiled,    \* a request wrote after that
    toldEntry,  \* of a profile: what a request said the phonebook has of it
    troubles    \* restarts of the module so far

bookVars == <<book, selected, saver, prober, disturbed, spoiled, toldEntry, troubles>>

None == "none"  \* no note
Free == <<"free", "free">>
Contact == <<"contact", "contact">>  \* an entry that is not a note
Place == 1..Slots
Entry == (Profile \X Note) \cup {Free, Contact}
Held == [ME |-> 1, SM |-> 2]  \* where a contact is
Resting == [at |-> "idle"]

TypeOK ==
    /\ \A storage \in {"ME", "SM"} : \A i \in Place : book[storage][i] \in Entry
    /\ selected \in {"ME", "SM"}
    /\ saver.at \in {"idle", "status", "read", "decide", "write"}
    /\ prober \in {"idle", "select"} /\ {disturbed, spoiled} \subseteq BOOLEAN
    /\ toldEntry \in [Profile -> Note \cup {None, "unknown"}]
    /\ troubles \in 0..MaxTroubles

Init ==
    /\ book = [storage \in {"ME", "SM"} |->
                  [i \in Place |-> IF i = Held[storage] THEN Contact ELSE Free]]
    /\ selected \in {"ME", "SM"}
    /\ saver = Resting /\ prober = "idle" /\ disturbed = FALSE /\ spoiled = FALSE
    /\ toldEntry = [p \in Profile |-> "unknown"] /\ troubles = 0

\* A command that ends the request with an error, after it did what it does or
\* before; what the phonebook has of the profile is then unknown.
Fails ==
    /\ saver' = Resting
    /\ toldEntry' = [toldEntry EXCEPT ![saver.profile] = "unknown"]
    /\ UNCHANGED <<selected, prober, disturbed, troubles>>

SaveEntry(p, n) ==
    /\ saver = Resting
    /\ saver' = [at |-> "status", profile |-> p, note |-> n, index |-> 0,
                 free |-> {}, has |-> {}]
    /\ selected' = "ME" /\ disturbed' = FALSE
    /\ UNCHANGED <<book, prober, spoiled, toldEntry, troubles>>

\* readModuleESIMNotes: AT+CPBS? must name ME; with nothing in it nothing is read.
Used == {i \in Place : book[selected][i] # Free}
Status ==
    /\ saver.at = "status"
    /\ IF selected = "ME"
       THEN /\ saver' = IF Used = {} THEN [saver EXCEPT !.at = "decide", !.free = Place]
                        ELSE [saver EXCEPT !.at = "read"]
            /\ UNCHANGED <<book, selected, prober, disturbed, spoiled, toldEntry, troubles>>
       ELSE Fails /\ UNCHANGED <<book, spoiled>>

\* AT+CPBR of all indexes of whatever is selected.
Read ==
    /\ saver.at = "read"
    /\ saver' = [saver EXCEPT !.at = "decide", !.free = Place \ Used,
                              !.has = {i \in Used : book[selected][i] \in {saver.profile} \X Note}]
    /\ UNCHANGED <<book, selected, prober, disturbed, spoiled, toldEntry, troubles>>

Fewest(S) == CHOOSE i \in S : \A j \in S : i <= j
Most(S) == CHOOSE i \in S : \A j \in S : i >= j

\* saveModuleESIMNote: the index of the profile's note (of several, the last one
\* read), or the first free one.
Decide ==
    /\ saver.at = "decide"
    /\ IF saver.has = {} /\ (saver.note = None \/ saver.free = {})
       THEN /\ saver' = Resting
            /\ toldEntry' = [toldEntry EXCEPT ![saver.profile] =
                                IF saver.note = None /\ ~disturbed THEN None ELSE "unknown"]
       ELSE /\ saver' = [saver EXCEPT !.at = "write",
                            !.index = IF saver.has # {} THEN Most(saver.has) ELSE Fewest(saver.free)]
            /\ UNCHANGED toldEntry
    /\ UNCHANGED <<book, selected, prober, disturbed, spoiled, troubles>>

\* AT+CPBW, to whatever is selected by now.
Put ==
    /\ book' = [book EXCEPT ![selected][saver.index] =
                   IF saver.note = None THEN Free ELSE <<saver.profile, saver.note>>]
    /\ spoiled' = (spoiled \/ disturbed)
Write ==
    /\ saver.at = "write" /\ Put
    /\ saver' = Resting
    /\ toldEntry' = [toldEntry EXCEPT ![saver.profile] =
                        IF disturbed THEN "unknown" ELSE saver.note]
    /\ UNCHANGED <<selected, prober, disturbed, troubles>>

CommandFails ==
    /\ saver # Resting
    /\ (saver.at = "write" /\ Put) \/ UNCHANGED <<book, spoiled>>
    /\ Fails

\* The selection leaves ME: the probe of the SIM's phonebook, which "performs only
\* AT test/read commands", or a restart of the module.
LeavesME ==
    /\ selected' = "SM"
    /\ disturbed' = (saver # Resting)
    /\ UNCHANGED <<book, saver, spoiled, toldEntry>>

\* probeESIMPhonebook: AT+CPBS=?, and if the SIM's is supported its selection; the
\* questions after it change nothing.
ProbeBegins ==
    /\ prober = "idle" /\ prober' = "select"
    /\ UNCHANGED <<book, selected, saver, disturbed, spoiled, toldEntry, troubles>>
ProbeSelects == prober = "select" /\ prober' = "idle" /\ LeavesME /\ UNCHANGED troubles
ProbeEnds ==
    /\ prober = "select" /\ prober' = "idle"
    /\ UNCHANGED <<book, selected, saver, disturbed, spoiled, toldEntry, troubles>>
ModuleRestarts ==
    /\ troubles < MaxTroubles /\ troubles' = troubles + 1
    /\ LeavesME /\ UNCHANGED prober

\* The process ends and starts again.
Restart ==
    /\ saver # Resting \/ prober # "idle"
    /\ saver' = Resting /\ prober' = "idle"
    /\ toldEntry' = IF saver = Resting THEN toldEntry
                    ELSE [toldEntry EXCEPT ![saver.profile] = "unknown"]
    /\ UNCHANGED <<book, selected, disturbed, spoiled, troubles>>

Next ==
    \/ Status \/ Read \/ Decide \/ Write \/ CommandFails \/ Restart
    \/ ProbeBegins \/ ProbeSelects \/ ProbeEnds \/ ModuleRestarts
    \/ \E p \in Profile, n \in Note \cup {None} : SaveEntry(p, n)

\* A note said to be in the phonebook is there, at one index, one said to be gone
\* is at none, and what is not a note is not overwritten - in the module's
\* phonebook whatever happens, in the SIM's unless a probe or a restart of the
\* module changed the selection under a request: saveModuleESIMNote.
OneEntry(p) ==
    Cardinality({i \in Place : book["ME"][i] \in {p} \X Note}) =
        IF toldEntry[p] = None THEN 0 ELSE 1
PhonebookIsKept ==
    /\ book["ME"][Held.ME] = Contact
    /\ spoiled \/ \A i \in Place : book["SM"][i] = IF i = Held.SM THEN Contact ELSE Free
    /\ \A p \in Profile : toldEntry[p] # "unknown" => OneEntry(p)
    /\ \A p \in Profile : toldEntry[p] \in Note =>
          <<p, toldEntry[p]>> \in {book["ME"][i] : i \in Place}
=============================================================================
