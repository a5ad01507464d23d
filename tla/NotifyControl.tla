--------------------------- MODULE NotifyControl ----------------------------
(* The configuration of the notification daemon from the phone: connections  *)
(* to internal/modulepush/control.go, two at a time, each with one request   *)
(* and eight seconds, whose operations go one by one under performMu over    *)
(* the private files (config.go) and the running Sender (send.go), while     *)
(* the command line of cmd/djonehub-notify may import into the same file.    *)
CONSTANTS
    Slot,           \* the two connections that are served at a time
    Setting,        \* values a field may be given
    Default,        \* the value of a field before, and of no certificate
    NoOne
VARIABLES
    daemon,         \* "up", "down"
    sender,         \* what the Sender works with
    file,           \* what the private files hold
    conn,           \* of a slot: its connection
    turn,           \* the slot that holds performMu
    importing,      \* the config a command line has read and will write
    inEffect,       \* what the operations that succeeded have set
    doubtful,       \* fields a file may hold otherwise: a write ended in an error,
                    \*   or was not the daemon's
    misled          \* fields, not doubtful, of which a status has told another value

vars == <<daemon, sender, file, conn, turn, importing, inEffect, doubtful, misled>>

Config == {"bark", "subscription"}
Field == Config \cup {"ca"}
Value == Setting \cup {Default}

\* An operation sets a field, of which the subscription is not cleared, or is not
\* valid, or tells the status, or tests a push service for up to twelve seconds.
Sets == [field : Field, value : Value] \ {[field |-> "subscription", value |-> Default]}
Operation == Sets \cup
    [field : {"invalid", "status", "test"}, value : {Default}]

Free == [at |-> "free"]
Connection == [at : {"free", "hello"}]
    \cup [at : {"waiting", "chosen", "sending"}, op : Operation]
    \cup [at : {"write", "apply"}, op : Sets, new : [Field -> Value]]

TypeOK ==
    /\ daemon \in {"up", "down"}
    /\ sender \in [Field -> Value] /\ file \in [Field -> Value]
    /\ conn \in [Slot -> Connection] /\ turn \in Slot \cup {NoOne}
    /\ importing = NoOne \/ importing \in [Config -> Value]
    /\ inEffect \in [Field -> Value] /\ doubtful \subseteq Field /\ misled \subseteq Field

Init ==
    /\ daemon = "up" /\ sender = [f \in Field |-> Default]
    /\ file = sender /\ inEffect = sender /\ conn = [c \in Slot |-> Free]
    /\ turn = NoOne /\ importing = NoOne /\ doubtful = {} /\ misled = {}
-----------------------------------------------------------------------------
kept == <<daemon, sender, file, importing, inEffect, doubtful>>

\* Serve: a connection takes a free slot; with none free it is closed at once.
Accept(c) ==
    /\ daemon = "up" /\ conn[c] = Free
    /\ conn' = [conn EXCEPT ![c].at = "hello"] /\ UNCHANGED <<turn, misled, kept>>

\* handle: the request comes with the right tag and is performed, or the connection
\* ends, with its eight seconds or a wrong tag.
Ask(c, op) ==
    /\ conn[c].at = "hello" /\ UNCHANGED <<turn, misled, kept>>
    /\ conn' = [conn EXCEPT ![c] = [at |-> "waiting", op |-> op]]
NothingAsked(c) ==
    /\ conn[c].at = "hello" /\ UNCHANGED <<turn, misled, kept>>
    /\ conn' = [conn EXCEPT ![c] = Free]

\* The deadline is the connection's: an operation that waits for performMu, or goes
\* on, does not end with it, only its answer is not had.
\* performMu does not ask who has waited longer.
TakeTurn(c) ==
    /\ conn[c].at = "waiting" /\ turn = NoOne /\ turn' = c
    /\ conn' = [conn EXCEPT ![c].at = "chosen"] /\ UNCHANGED <<misled, kept>>

Answers(c) == turn' = NoOne /\ conn' = [conn EXCEPT ![c] = Free]

\* status: the fields from the Sender, the certificate from its file.
Status(c) ==
    /\ conn[c].at = "chosen" /\ conn[c].op.field = "status" /\ Answers(c)
    /\ LET said == [sender EXCEPT !.ca = file.ca]
       IN misled' = misled \cup ({f \in Field : said[f] # inEffect[f]} \ doubtful)
    /\ UNCHANGED kept

TestSend(c) ==
    /\ UNCHANGED <<misled, kept>>
    /\ \/ conn[c].at = "sending" /\ Answers(c)
       \/ /\ conn[c].at = "chosen" /\ conn[c].op.field = "test" /\ conn' = [conn EXCEPT ![c].at = "sending"]
          /\ UNCHANGED turn

\* ConfigSnapshot with the request's value in it, and Validate.
Validated(c) ==
    /\ conn[c].at = "chosen"
    /\ \/ conn[c].op.field = "invalid" /\ Answers(c)
       \/ /\ conn[c].op \in Sets /\ UNCHANGED turn
          /\ conn' = [conn EXCEPT ![c] = [at |-> "write", op |-> @.op,
                       new |-> [sender EXCEPT ![conn[c].op.field] = conn[c].op.value]]]
    /\ UNCHANGED <<misled, kept>>

\* WritePrivateFile, or Remove: a file in place of the old one, unless it fails
\* before; a write may fail after it, when the directory is not synced.
Saved(c) ==
    IF conn[c].op.field = "ca" THEN [file EXCEPT !.ca = conn[c].new.ca]
    ELSE [f \in Field |-> IF f \in Config THEN conn[c].new[f] ELSE file[f]]
Write(c) ==
    /\ conn[c].at = "write"
    /\ \/ file' = Saved(c) /\ conn' = [conn EXCEPT ![c].at = "apply"]
          /\ UNCHANGED <<turn, doubtful>>
       \/ Answers(c) /\ UNCHANGED <<file, doubtful>>
       \/ /\ conn[c].op # [field |-> "ca", value |-> Default]
          /\ Answers(c) /\ file' = Saved(c)
          /\ doubtful' = doubtful \cup {f \in Field : file'[f] # inEffect[f]}
    /\ UNCHANGED <<daemon, sender, importing, inEffect, misled>>

\* UpdateConfig, or ReloadCustomCA of what is in the file, which may fail.
Apply(c) ==
    /\ conn[c].at = "apply" /\ Answers(c)
    /\ \/ /\ conn[c].op.field = "ca"
          /\ \/ /\ sender' = [sender EXCEPT !.ca = file.ca] /\ doubtful' = doubtful \ {"ca"}
                /\ inEffect' = [inEffect EXCEPT !.ca = conn[c].op.value]
             \/ UNCHANGED <<sender, inEffect>> /\ doubtful' = doubtful \cup {"ca"}
       \/ /\ conn[c].op.field \in Config
          /\ sender' = [conn[c].new EXCEPT !.ca = sender.ca]
          /\ inEffect' = [inEffect EXCEPT ![conn[c].op.field] = conn[c].op.value]
          /\ doubtful' = {f \in doubtful : f = "ca" \/ file[f] # inEffect'[f]}
    /\ UNCHANGED <<daemon, file, importing, misled>>
-----------------------------------------------------------------------------
\* A command line with -bark-url-file or -subscription: it reads the config, and
\* writes it with its own field, under no lock of the daemon's.
ImportReads ==
    /\ importing = NoOne /\ importing' = [f \in Config |-> file[f]]
    /\ UNCHANGED <<daemon, sender, file, conn, turn, inEffect, doubtful, misled>>
ImportWrites(f, v) ==
    /\ importing # NoOne /\ importing' = NoOne
    /\ file' = [g \in Field |-> IF g = f THEN v
                               ELSE IF g = "ca" THEN file.ca ELSE importing[g]]
    /\ doubtful' = doubtful \cup Config
    /\ UNCHANGED <<daemon, sender, conn, turn, inEffect, misled>>

\* The daemon ends: serveManaged and run wait for the listeners, not for handlers.
Ends ==
    /\ daemon = "up" /\ daemon' = "down" /\ turn' = NoOne
    /\ conn' = [c \in Slot |-> Free]
    /\ doubtful' = IF turn # NoOne /\ conn[turn].at = "apply"
                   THEN doubtful \cup {f \in Field : file[f] # inEffect[f]} ELSE doubtful
    /\ UNCHANGED <<sender, file, importing, inEffect, misled>>

\* run: the config and the certificate of the files are the Sender's.
Starts ==
    /\ daemon = "down" /\ daemon' = "up"
    /\ sender' = file /\ inEffect' = file /\ doubtful' = {}
    /\ UNCHANGED <<file, conn, turn, importing, misled>>

Next ==
    \/ \E c \in Slot :
        \/ Accept(c) \/ (\E op \in Operation : Ask(c, op)) \/ NothingAsked(c) \/ TakeTurn(c)
        \/ Status(c) \/ TestSend(c) \/ Validated(c) \/ Write(c) \/ Apply(c)
    \/ ImportReads \/ \E f \in Config, v \in Setting : ImportWrites(f, v)
    \/ Ends \/ Starts

Spec == Init /\ [][Next]_vars

\* Between two operations the daemon works with what the operations that succeeded
\* have set and the files hold it, so that a start finds it, but for fields whose
\* write ended in an error or was a command line's; and a status has told what is
\* in effect of the others: perform and status of control.go.
ConfigurationIsKept ==
    /\ turn = NoOne /\ daemon = "up" => sender = inEffect
    /\ turn = NoOne => \A f \in Field \ doubtful : file[f] = inEffect[f]
    /\ misled = {}
=============================================================================
