------------------------------ MODULE AdbClient ------------------------------
(* adbClient of cmd/djonehub-macos/adb_darwin.go: the host's side of the ADB  *)
(* protocol over the module's USB interface.  One mutex makes the calls       *)
(* shellChecked, pushContext and pull sequential; what a call that timed out  *)
(* leaves in the pipe is read by the next one, which may belong to another    *)
(* client, opened again, whose stream numbers start at 1 again.  The module's *)
(* adbd is external: it answers in the order it reads, and a CNXN closes all  *)
(* its streams.                                                               *)

EXTENDS Sequences, Naturals

CONSTANTS
    MaxCalls,   \* bound: calls begun
    MaxClients  \* bound: openDJIUSBADB

VARIABLES
    client,   \* of the open adbClient: number, connected, nextLocalID
    call,     \* the call under way: n, kind, at, its stream's loc and rem,
              \* the sync record it writes, what it got, and how it is to end
    result,   \* history: the last call that ended: n, kind, ok, got
    toModule, fromModule,  \* the two directions of the USB pipe
    streams,  \* adbd: its open streams
    nextRemote,
    stored    \* the file on the module: the call that wrote it, and how much

adbVars == <<client, call, result, toModule, fromModule, streams, nextRemote, stored>>

Msg(cmd, from, to, body) == [cmd |-> cmd, from |-> from, to |-> to, body |-> body]
None == <<"", 0>>    \* a body is <<what, of which call>>
Torn == Msg("torn", 0, 0, None)
NoCall == [n |-> 0, kind |-> "none", at |-> "none", loc |-> 0, rem |-> 0, record |-> 1,
           got |-> <<>>, ok |-> FALSE]
\* The sync records a call writes, each acknowledged before the next.
Records == [push |-> <<"SEND", "DATA", "DONE">>, pull |-> <<"RECV">>]

Init ==
    /\ client = [number |-> 1, connected |-> FALSE, next |-> 1]
    /\ call = NoCall /\ result = NoCall
    /\ toModule = <<>> /\ fromModule = <<>>
    /\ streams = {} /\ nextRemote = 1 /\ stored = <<0, "none">>

Send(msgs) == toModule' = toModule \o msgs
moduleVars == <<streams, nextRemote, stored>>
-----------------------------------------------------------------------------
Connect == <<Msg("CNXN", 0, 0, None)>>
Open(c, l) == <<Msg("OPEN", l, 0, <<c.kind, c.n>>)>>

Begin(kind) ==
    /\ call = NoCall /\ result.n < MaxCalls
    /\ LET c == [NoCall EXCEPT !.n = result.n + 1, !.kind = kind]
       IN  IF client.connected
           THEN /\ call' = [c EXCEPT !.at = "open", !.loc = client.next]
                /\ client' = [client EXCEPT !.next = @ + 1]
                /\ Send(Open(c, client.next))
           ELSE /\ call' = [c EXCEPT !.at = "connect"]
                /\ Send(Connect) /\ UNCHANGED client
    /\ UNCHANGED <<result, fromModule, moduleVars>>

\* Close and openDJIUSBADB: what is in the pipe stays there.
Reopen ==
    /\ call = NoCall /\ client.number < MaxClients
    /\ client' = [number |-> client.number + 1, connected |-> FALSE, next |-> 1]
    /\ UNCHANGED <<call, result, toModule, fromModule, moduleVars>>

\* The ends of a receive: the call ends, with closeStreamLocked or without.
End(ok, connected) ==
    /\ call' = NoCall
    /\ result' = [call EXCEPT !.ok = ok]
    /\ client' = [client EXCEPT !.connected = @ /\ connected]

OwnStream == <<call.loc, call.rem>>
Answer(cmd, body) == Msg(cmd, call.loc, call.rem, body)

CloseWith(ok, connected) ==
    /\ call' = [call EXCEPT !.at = "close", !.ok = ok]
    /\ client' = [client EXCEPT !.connected = @ /\ connected]
    /\ Send(<<Answer("CLSE", None)>>)
    /\ UNCHANGED result

Keep == UNCHANGED <<client, call, result, toModule>>
Own(m) == m.from = call.rem /\ m.to = call.loc

CloseStale(m) == IF m.from # 0 /\ m.to # 0 THEN <<Msg("CLSE", m.to, m.from, None)>> ELSE <<>>

\* connectLocked: a message of an old stream closes that stream and connects
\* once more.
Connecting(m) ==
    CASE m.cmd = "CNXN" ->
           /\ client' = [client EXCEPT !.connected = TRUE, !.next = @ + 1]
           /\ call' = [call EXCEPT !.at = "open", !.loc = client.next]
           /\ Send(Open(call, client.next)) /\ UNCHANGED result
      [] m.cmd \in {"WRTE", "OKAY", "CLSE"} ->
           Send(CloseStale(m) \o Connect) /\ UNCHANGED <<client, call, result>>
      [] OTHER -> End(FALSE, TRUE) /\ UNCHANGED toModule

\* writeStreamLocked: the first record goes out as the stream opens.
WriteRecord(i) == Send(<<Answer("WRTE", <<Records[call.kind][i], call.n>>)>>)

\* openServiceLocked
Opening(m) ==
    CASE m.cmd = "OKAY" /\ m.to = call.loc ->
           /\ call' = [call EXCEPT !.at = IF call.kind = "shell" THEN "reply" ELSE "write",
                                   !.rem = m.from]
           /\ (IF call.kind = "shell" THEN UNCHANGED toModule
               ELSE Send(<<Msg("WRTE", call.loc, m.from, <<Records[call.kind][1], call.n>>)>>))
           /\ UNCHANGED <<client, result>>
      [] m.cmd = "CLSE" /\ m.to = call.loc -> End(FALSE, TRUE) /\ UNCHANGED toModule
      [] m.cmd \in {"WRTE", "CLSE"} /\ m.to # call.loc ->
           Send(CloseStale(m)) /\ UNCHANGED <<client, call, result>>
      [] m.cmd = "torn" -> End(FALSE, TRUE) /\ UNCHANGED toModule
      [] OTHER -> Keep

Writing(m) ==
    IF m.cmd # "OKAY" \/ ~Own(m) THEN CloseWith(FALSE, TRUE)
    ELSE /\ UNCHANGED <<client, result>>
         /\ IF call.record < Len(Records[call.kind])
            THEN /\ call' = [call EXCEPT !.record = @ + 1]
                 /\ WriteRecord(call.record + 1)
            ELSE call' = [call EXCEPT !.at = "reply"] /\ UNCHANGED toModule

Acknowledged == <<Answer("OKAY", None)>>

\* The loops of the three calls over the answer.  The sync answers are complete
\* with one message of each kind.
ShellReply(m) ==
    CASE m.cmd = "WRTE" /\ Own(m) ->
           /\ call' = [call EXCEPT !.got = Append(@, m.body)]
           /\ Send(Acknowledged) /\ UNCHANGED <<client, result>>
      [] m.cmd = "CLSE" /\ m.to = call.loc ->
           /\ LET status == <<"status", call.n>> \in {call.got[i] : i \in DOMAIN call.got}
              IN  End(status, status)          \* parseADBStatus: the token is the call's
           /\ Send(<<Answer("CLSE", None)>>)
      [] m.cmd = "torn" -> CloseWith(FALSE, FALSE)
      [] OTHER -> Keep

PushReply(m) ==
    CASE m.cmd = "WRTE" /\ Own(m) ->
           /\ call' = [call EXCEPT !.at = "close", !.ok = (m.body[1] = "OKAY")]
           /\ Send(Acknowledged \o <<Answer("CLSE", None)>>) /\ UNCHANGED <<client, result>>
      [] m.cmd = "CLSE" -> End(FALSE, TRUE) /\ UNCHANGED toModule
      [] m.cmd = "torn" -> CloseWith(FALSE, TRUE)
      [] OTHER -> Keep

PullReply(m) ==
    CASE m.cmd = "WRTE" /\ Own(m) /\ m.body[1] \notin {"DONE", "FAIL"} ->
           /\ call' = [call EXCEPT !.got = Append(@, m.body)]
           /\ Send(Acknowledged) /\ UNCHANGED <<client, result>>
      [] m.cmd = "WRTE" /\ Own(m) /\ m.body[1] \in {"DONE", "FAIL"} ->
           /\ call' = [call EXCEPT !.at = "close", !.ok = (m.body[1] = "DONE")]
           /\ Send(Acknowledged \o <<Answer("CLSE", None)>>) /\ UNCHANGED <<client, result>>
      [] m.cmd = "CLSE" -> End(FALSE, FALSE) /\ UNCHANGED toModule
      [] m.cmd = "torn" -> CloseWith(FALSE, FALSE)
      [] OTHER -> Keep

\* closeStreamLocked; shellChecked ignores its result and fails in any case.
Closing(m) ==
    CASE m.cmd = "CLSE" /\ Own(m) -> End(call.ok, TRUE) /\ UNCHANGED toModule
      [] m.cmd = "WRTE" /\ Own(m) -> Send(Acknowledged) /\ UNCHANGED <<client, call, result>>
      [] OTHER -> End(FALSE, TRUE) /\ UNCHANGED toModule

Receive ==
    /\ call # NoCall /\ fromModule # <<>>
    /\ fromModule' = Tail(fromModule)
    /\ LET m == Head(fromModule)
       IN  CASE call.at = "connect" -> Connecting(m)
             [] call.at = "open"    -> Opening(m)
             [] call.at = "write"   -> Writing(m)
             [] call.at = "reply" /\ call.kind = "shell" -> ShellReply(m)
             [] call.at = "reply" /\ call.kind = "push"  -> PushReply(m)
             [] call.at = "reply" /\ call.kind = "pull"  -> PullReply(m)
             [] call.at = "close"   -> Closing(m)
    /\ UNCHANGED moduleVars

\* A deadline, with a message still to come or in the middle of one: what is
\* left of it is no message (readExactlyLocked, receiveLocked).
TimesOut ==
    /\ call # NoCall
    /\ \/ UNCHANGED fromModule
       \/ fromModule # <<>> /\ fromModule' = <<Torn>> \o Tail(fromModule)
    /\ CASE call.at \in {"connect", "open", "close"} -> End(FALSE, TRUE) /\ UNCHANGED toModule
         [] call.at = "write" -> CloseWith(FALSE, TRUE)
         [] call.at = "reply" -> CloseWith(FALSE, call.kind = "push")
    /\ UNCHANGED moduleVars

\* The USB write of an OKAY fails: the call ends with its stream open.
WriteFails ==
    /\ call.at = "reply" /\ fromModule # <<>>
    /\ Head(fromModule).cmd = "WRTE" /\ Own(Head(fromModule))
    /\ fromModule' = Tail(fromModule)
    /\ End(FALSE, TRUE)
    /\ UNCHANGED <<toModule, moduleVars>>

-----------------------------------------------------------------------------
\* adbd (external)
Reply(msgs) == fromModule' = fromModule \o msgs
To(s, cmd, body) == <<Msg(cmd, s.rem, s.loc, body)>>
StreamOf(m) == {s \in streams : s.rem = m.to /\ s.loc = m.from}

TakesRecord(s, body) ==
    /\ streams' = (streams \ {s}) \cup {[s EXCEPT !.at = body]}
    /\ stored' = CASE body = "SEND" -> <<s.n, "part">>
                   [] body = "DATA" /\ stored = <<s.n, "part">> -> <<s.n, "whole">>
                   [] OTHER -> stored
    /\ Reply(To(s, "OKAY", None))

\* A write that ends before its DONE is removed.
Unlinked(s) ==
    stored' = IF stored[1] = s.n /\ s.at \in {"SEND", "DATA"} THEN <<0, "none">> ELSE stored

ModuleReads ==
    /\ toModule # <<>> /\ toModule' = Tail(toModule)
    /\ LET m == Head(toModule)
       IN  CASE m.cmd = "CNXN" ->
                  /\ streams' = {} /\ Reply(<<Msg("CNXN", 1, 4096, None)>>)
                  /\ UNCHANGED <<nextRemote, stored>>
             [] m.cmd = "OPEN" ->
                  LET s == [rem |-> nextRemote, loc |-> m.from, n |-> m.body[2],
                            kind |-> m.body[1], at |-> "run", ready |-> TRUE]
                  IN  /\ streams' = streams \cup {s} /\ nextRemote' = nextRemote + 1
                      /\ Reply(To(s, "OKAY", None)) /\ UNCHANGED stored
             [] m.cmd \in {"WRTE", "OKAY", "CLSE"} /\ StreamOf(m) = {} ->
                  UNCHANGED <<fromModule, streams, nextRemote, stored>>
             [] m.cmd = "WRTE" /\ StreamOf(m) # {} ->
                  \E s \in StreamOf(m) : TakesRecord(s, m.body[1]) /\ UNCHANGED nextRemote
             [] m.cmd = "OKAY" /\ StreamOf(m) # {} ->
                  \E s \in StreamOf(m) :
                    /\ streams' = (streams \ {s}) \cup {[s EXCEPT !.ready = TRUE]}
                    /\ UNCHANGED <<fromModule, nextRemote, stored>>
             [] m.cmd = "CLSE" /\ StreamOf(m) # {} ->
                  \E s \in StreamOf(m) :
                    /\ streams' = streams \ {s} /\ Reply(To(s, "CLSE", None))
                    /\ Unlinked(s) /\ UNCHANGED nextRemote
    /\ UNCHANGED <<client, call, result>>

Says(s, body, at) ==
    /\ s.ready
    /\ streams' = (streams \ {s}) \cup {[s EXCEPT !.at = at, !.ready = FALSE]}
    /\ Reply(To(s, "WRTE", body))

Hangs(s) == streams' = streams \ {s} /\ Reply(To(s, "CLSE", None)) /\ UNCHANGED stored

ModuleRuns ==
    /\ \E s \in streams :
         \/ s.kind = "shell" /\ s.at = "run"
            /\ Says(s, <<"status", s.n>>, "said") /\ UNCHANGED stored
         \/ s.kind = "shell" /\ (s.at = "said" => s.ready) /\ Hangs(s)
         \/ s.kind = "push" /\ s.at = "DONE" /\ stored # <<s.n, "part">>
            /\ Says(s, <<"OKAY", s.n>>, "said") /\ UNCHANGED stored
         \/ s.kind = "push" /\ s.at \in {"SEND", "DATA"}
            /\ Says(s, <<"FAIL", s.n>>, "said") /\ Unlinked(s)
         \/ s.kind = "pull" /\ s.at = "RECV"
            /\ Says(s, <<"status", s.n>>, "sent") /\ UNCHANGED stored
         \/ s.kind = "pull" /\ s.at = "sent"
            /\ Says(s, <<"DONE", s.n>>, "said") /\ UNCHANGED stored
         \/ s.kind = "pull" /\ s.at = "RECV"
            /\ Says(s, <<"FAIL", s.n>>, "said") /\ UNCHANGED stored
    /\ UNCHANGED <<client, call, result, toModule, nextRemote>>

Next ==
    \/ \E kind \in {"shell", "push", "pull"} : Begin(kind)
    \/ Reopen \/ Receive \/ TimesOut \/ WriteFails
    \/ ModuleReads \/ ModuleRuns

AdbSpec == Init /\ [][Next]_adbVars

TypeOK ==
    /\ client.connected \in BOOLEAN /\ client.number \in 1..MaxClients
    /\ call.n \in 0..MaxCalls
    /\ call.at \in {"none", "connect", "open", "write", "reply", "close"}
    /\ \A s \in streams : s.rem < nextRemote

\* A call that is told a success did what it was asked: the shell's status and
\* the file that was read are of this call and of no other, and the file that
\* was written is whole and stays so until the next write of one, whatever
\* calls and clients before left in the pipe.
ToldIsDone ==
    result.ok =>
      /\ result.kind \in {"shell", "pull"} => result.got = <<<<"status", result.n>>>>
      /\ result.kind = "push" /\ call.kind # "push" => stored = <<result.n, "whole">>
=============================================================================
