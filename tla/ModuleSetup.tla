----------------------------- MODULE ModuleSetup -----------------------------
(* The set-up of a module's call support by the Mac server                   *)
(* (cmd/djonehub-macos/module_setup.go): a request looks at the module and   *)
(* starts a worker that saves the USB composition, writes the one with audio *)
(* and IMS, restarts the module, tries the voice route, and restores the     *)
(* composition when that fails.  The status is one variable of the server;   *)
(* two requests may start two workers, and the profile's request writes the  *)
(* same composition (cmd/djonehub-macos/main.go).                            *)
EXTENDS Naturals

CONSTANTS Worker, MaxSeconds
VARIABLES
    stored,    \* USBCFG and ims as the module stores them
    inUse,     \* and as it runs with since it started
    setup,     \* moduleSetup.State
    place,     \* where each worker is
    original,  \* the composition a worker read
    backup,    \* of a second: the composition of the file named by it
    second,    \* the clock
    last,      \* the worker started last, none once a profile was written
    mixed,     \* two workers, or a worker and a profile request, overlapped
    changing   \* a profile was written and the module not restarted for it

setupVars == <<stored, inUse, setup, place, original, backup, second, last, mixed,
               changing>>

\* "uac" stands for both compositions isCallAudioCapable accepts, "mobile" for
\* what a profile request and others may leave.
Composition == {"factory", "mobile", "uac"}
NoComposition == "none"
CallCapable(c) == c = "uac"
Settings == [usb : Composition, ims : {0, 1}]
Transient == {"initializing", "restarting", "verifying"}
Ended == {"new", "done"}

TypeOK ==
    /\ stored \in Settings /\ inUse \in Settings
    /\ setup \in Transient \cup {"", "ready", "failed", "rolled_back"}
    /\ place \in [Worker -> {"new", "asked", "read", "save", "write", "readBack", "volte",
           "ims", "imsReadBack", "restart", "wait", "verify", "rollBack", "reread",
           "again", "done"}]
    /\ original \in [Worker -> Composition \cup {NoComposition}]
    /\ backup \in [1..MaxSeconds -> Composition \cup {NoComposition}]
    /\ second \in 1..MaxSeconds /\ last \subseteq Worker
    /\ {mixed, changing} \subseteq BOOLEAN

Init ==
    /\ stored \in Settings /\ inUse = stored
    /\ setup = "" /\ place = [w \in Worker |-> "new"]
    /\ original = [w \in Worker |-> NoComposition]
    /\ backup = [s \in 1..MaxSeconds |-> NoComposition]
    /\ second = 1 /\ last = {} /\ mixed = FALSE /\ changing = FALSE

module == <<stored, inUse>>
files == <<backup, second>>
ghosts == <<last, mixed, changing>>

\* inspectModuleSetup: IMS counts once the module runs with it.
CanInitialize == ~(CallCapable(stored.usb) /\ stored.ims = 1 /\ inUse.ims = 1)

Goes(w, next) == place' = [place EXCEPT ![w] = next]
Steps(w, from, to) == place[w] = from /\ Goes(w, to)

\* moduleSetupStartAPI: the state is looked at, the module is asked, and only then
\* the state is set; a worker's goroutine follows.
Ask(w) ==
    /\ setup \notin Transient
    /\ Steps(w, "new", "asked")
    /\ UNCHANGED <<module, setup, original, files, ghosts>>

Start(w) ==
    /\ place[w] = "asked"
    /\ IF CanInitialize
       THEN /\ Goes(w, "read") /\ setup' = "initializing"
            /\ mixed' = (mixed \/ changing \/ \E v \in Worker \ {w} : place[v] \notin Ended)
            /\ last' = {w}
       ELSE Goes(w, "done") /\ UNCHANGED <<setup, mixed, last>>
    /\ UNCHANGED <<module, original, files, changing>>

Refused(w) ==
    /\ Steps(w, "asked", "done")
    /\ UNCHANGED <<module, setup, original, files, ghosts>>

\* Any command, and the backup, may fail: the worker says so and stops where it is.
Fails(w) ==
    /\ place[w] \notin {"new", "asked", "wait", "verify", "done"}
    /\ Goes(w, "done") /\ setup' = "failed"
    /\ UNCHANGED <<original, files, ghosts>>

FailsBefore(w) == Fails(w) /\ UNCHANGED module

Read(w) ==
    /\ Steps(w, "read", "save")
    /\ original' = [original EXCEPT ![w] = stored.usb]
    /\ UNCHANGED <<module, setup, files, ghosts>>

\* saveModuleSetupBackup names the file by the second: a later backup of the same
\* second takes its place.  A composition with audio is left as it is.
Save(w) ==
    /\ place[w] = "save"
    /\ Goes(w, IF CallCapable(original[w]) THEN "volte" ELSE "write")
    /\ backup' = [backup EXCEPT ![second] = original[w]]
    /\ UNCHANGED <<module, setup, original, second, ghosts>>

\* The module may acknowledge a composition and keep what it has.
Stores(usb) == stored' \in {stored, [stored EXCEPT !.usb = usb]} /\ UNCHANGED inUse
Write(w) ==
    /\ Steps(w, "write", "readBack") /\ Stores("uac")
    /\ UNCHANGED <<setup, original, files, ghosts>>
WriteFails(w) == place[w] = "write" /\ Stores("uac") /\ Fails(w)

ReadBack(w) ==
    /\ Steps(w, "readBack", "volte") /\ CallCapable(stored.usb)
    /\ UNCHANGED <<module, setup, original, files, ghosts>>

\* volte_disable is 0.
Volte(w) ==
    /\ Steps(w, "volte", "ims")
    /\ UNCHANGED <<module, setup, original, files, ghosts>>

StoresIms == stored' \in {stored, [stored EXCEPT !.ims = 1]} /\ UNCHANGED inUse
Ims(w) ==
    /\ Steps(w, "ims", "imsReadBack") /\ StoresIms
    /\ UNCHANGED <<setup, original, files, ghosts>>
ImsFails(w) == place[w] = "ims" /\ StoresIms /\ Fails(w)

ImsReadBack(w) ==
    /\ Steps(w, "imsReadBack", "restart") /\ stored.ims = 1
    /\ setup' = "restarting"
    /\ UNCHANGED <<module, original, files, ghosts>>

\* AT+CFUN=1,1 and markUSBATDetached.  Its answer is not looked at: the module
\* may have refused, or restarted without answering.
Restarts == inUse' \in {inUse, stored} /\ UNCHANGED stored
Restart(w) ==
    /\ Steps(w, "restart", "wait") /\ Restarts
    /\ UNCHANGED <<setup, original, files, ghosts>>
RestartFails(w) == place[w] \in {"restart", "again"} /\ Restarts /\ Fails(w)

\* Until the module is back with IMS, or 90 seconds are over.
Wait(w) ==
    /\ place[w] = "wait"
    /\ \/ inUse.ims = 1 /\ stored.ims = 1 /\ Goes(w, "verify")
       \/ Goes(w, "rollBack")
    /\ setup' = "verifying"
    /\ UNCHANGED <<module, original, files, ghosts>>

\* ensureModuleVoiceRouteBudgeted, for 35 seconds.
Verify(w) ==
    /\ place[w] = "verify"
    /\ \/ Goes(w, "done") /\ setup' = "ready"
       \/ Goes(w, "rollBack") /\ setup' = "verifying"
    /\ UNCHANGED <<module, original, files, ghosts>>

\* rollbackModuleSetup: the composition is written, read back and taken up by a
\* restart.  IMS stays as it was set.
RollBack(w) ==
    /\ Steps(w, "rollBack", "reread") /\ Stores(original[w])
    /\ UNCHANGED <<setup, original, files, ghosts>>
RollBackFails(w) == place[w] = "rollBack" /\ Stores(original[w]) /\ Fails(w)

Reread(w) ==
    /\ Steps(w, "reread", "again") /\ stored.usb = original[w]
    /\ UNCHANGED <<module, setup, original, files, ghosts>>

Again(w) ==
    /\ Steps(w, "again", "done") /\ Restarts
    /\ setup' = "rolled_back"
    /\ UNCHANGED <<original, files, ghosts>>

\* setUSBProfile writes another composition, whatever the set-up is doing, and
\* restarts the module.
ProfileWrites ==
    /\ ~changing /\ \E c \in Composition \ {stored.usb} :
           stored' = [stored EXCEPT !.usb = c]
    /\ changing' = TRUE /\ last' = {}
    /\ mixed' = (mixed \/ \E w \in Worker : place[w] \notin Ended)
    /\ UNCHANGED <<inUse, setup, place, original, files>>

\* The module restarts; what noticed it, a profile's request or a command that
\* failed, calls markUSBATDetached and with it invalidateReadyModuleSetup.
ModuleRestarts ==
    /\ inUse' = stored /\ changing' = FALSE
    /\ setup' = IF setup = "ready" THEN "" ELSE setup
    /\ UNCHANGED <<stored, place, original, files, last, mixed>>

Tick ==
    /\ second < MaxSeconds /\ second' = second + 1
    /\ UNCHANGED <<module, setup, place, original, backup, ghosts>>

Next ==
    \/ \E w \in Worker :
          \/ Ask(w) \/ Start(w) \/ Refused(w) \/ FailsBefore(w) \/ Read(w) \/ Save(w)
          \/ Write(w) \/ WriteFails(w) \/ ReadBack(w) \/ Volte(w) \/ Ims(w)
          \/ ImsFails(w) \/ ImsReadBack(w) \/ Restart(w) \/ RestartFails(w) \/ Wait(w)
          \/ Verify(w) \/ RollBack(w) \/ RollBackFails(w) \/ Reread(w) \/ Again(w)
    \/ ProfileWrites \/ ModuleRestarts \/ Tick

\* What the set-up tells is so, unless two workers or a profile request met: a
\* module that is ready stores a composition with audio and IMS, one that was
\* rolled back stores the composition it had, and whatever a worker is about to
\* overwrite it has in a backup (module_setup.go).
ReadyIsCapable ==
    setup = "ready" /\ ~changing => CallCapable(stored.usb) /\ stored.ims = 1
BackedUp(w) == \E s \in 1..second : backup[s] = original[w]
OverwritesBackedUp ==
    \A w \in Worker :
        place[w] \in {"write", "readBack", "rollBack", "reread", "again"} => BackedUp(w)
RolledBackIsRestored ==
    setup = "rolled_back" => \A w \in last : stored.usb = original[w]
Met == mixed
SetupIsHonest == Met \/ (ReadyIsCapable /\ OverwritesBackedUp /\ RolledBackIsRestored)
=============================================================================
