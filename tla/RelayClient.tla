----------------------------- MODULE RelayClient -----------------------------
(***************************************************************************)
(* The life of a client's connection and of the files that stand in for    *)
(* it, over CommunicatorWithFiles of lib/common_communicator.js, for every *)
(* transport: lib/message_relay_client.js ("tcp", with the table of        *)
(* waiting connections of client-producer/cmanager.js),                    *)
(* lib/message_relay_udp.js ("udp"), lib/message_relay_ipc.js ("parent",   *)
(* whose server is a child process it spawns) and                          *)
(* lib/message_relay_ipc_source.js ("child", whose server is its parent).  *)
(* A process is the "socket" of the last two.                              *)
(*                                                                         *)
(* A client connects by itself, or each time its manager is told that the  *)
(* server is there (every call of _connect makes a new socket), or never,  *)
(* when it is configured to write to files only.  What becomes of a        *)
(* message written to a socket is the matter of module Communicator; here  *)
(* a message is written to one, put in a file, or neither.                 *)
(***************************************************************************)
EXTENDS Integers, FiniteSets, SequencesExt

CONSTANTS MaxMessages,     \* bound on the calls of sendMessage
          Configurations,  \* the configurations a client may be made with
          MaxSockets,      \* bound on the sockets made
          MaxFiles,        \* bound on the files opened
          MaxReconnect,    \* conf.max_reconnect
          WrapLimit        \* conf.wrap_limit

Flags == [transport : {"tcp", "udp", "parent", "child"},
          managed : BOOLEAN,            \* conf._connection_manager
          files_only : BOOLEAN,
          file_shunting : BOOLEAN,
          send_on_reconnect : BOOLEAN,
          attempt_reconnect : BOOLEAN]

\* The clients that are connected as soon as they are made.
Processes == {"parent", "child"}

ASSUME RelayClientAssumption ==
    /\ Configurations \subseteq Flags
    /\ \A c \in Configurations : c.managed => c.transport = "tcp"
    /\ \A c \in Configurations : c.files_only => c.file_shunting
    /\ MaxMessages \in Nat
    /\ MaxSockets \in Nat \ {0}
    /\ MaxFiles \in Nat \ {0}
    /\ MaxReconnect \in Nat
    /\ WrapLimit \in Nat \ {0}

VARIABLES
    conf,         \* the configuration
    sock,         \* the state of each socket
    socket,       \* this.socket, 0 for none
    handlers,     \* the sets of handlers each socket has
    writer,       \* this.writer, 0 for none
    waiting,      \* the manager still has the client in _waiting_connections
    reconnects,   \* reconnect_count
    timers,       \* timeouts of _attempt_reconnect still to fire
    starting,     \* calls that await make_path before they open a file
    files_going,
    file_output,  \* the file that messages are written to, 0 for undefined
    file,         \* every file opened, in order
    count,        \* message_count
    restore,      \* _shutdown_files_going of each socket's connection
    decoded,      \* the messages it has read
    fate,         \* what sendMessage did with each message
    wire,         \* the messages written to sockets, in order
    crashed       \* an 'error' nobody listens for has ended the process

netVars == <<sock, socket, handlers, writer, waiting, reconnects, timers>>
fileVars == <<starting, files_going, file_output, file, count>>
restoreVars == <<restore, decoded>>
sendVars == <<fate, wire, crashed>>
vars == <<conf, netVars, fileVars, restoreVars, sendVars>>

Messages == 1 .. MaxMessages  \* in the order of the calls
Sockets == 1 .. MaxSockets
Files == 1 .. MaxFiles

\* text is what was written to the stream, of which flushed messages are on
\* the disk; ended is a call of close(); overlaps notes, for the properties,
\* that the file was started while an earlier one was still being read.
NoFile == [state |-> "none", ended |-> FALSE, text |-> <<>>, flushed |-> 0,
           overlaps |-> FALSE]
NewFile == [NoFile EXCEPT !.state = "opening",
                          !.overlaps = \E s \in Sockets : restore[s] = "reading"]

FileStates == [state : {"none", "opening", "open"}, ended : BOOLEAN,
               text : Seq(Messages), flushed : Nat, overlaps : BOOLEAN]

TypeOK ==
    /\ conf \in Configurations
    /\ sock \in [Sockets -> {"none", "connecting", "open", "closed"}]
    /\ socket \in 0 .. MaxSockets
    /\ handlers \in [Sockets -> Nat]
    /\ writer \in 0 .. MaxSockets
    /\ waiting \in BOOLEAN
    /\ reconnects \in Nat
    /\ timers \in Nat
    /\ starting \in Nat
    /\ files_going \in BOOLEAN
    /\ file_output \in 0 .. MaxFiles
    /\ file \in [Files -> FileStates]
    /\ \A f \in Files : file[f].flushed <= Len(file[f].text)
    /\ count \in 0 .. WrapLimit
    /\ restore \in [Sockets -> {"none", "reading", "read", "done"}]
    /\ decoded \in [Sockets -> Seq(Messages)]
    /\ fate \in [Messages -> {"unsent", "filed", "written", "nowhere", "thrown"}]
    /\ wire \in Seq(Messages)
    /\ crashed \in BOOLEAN

(* _create_connection: a managed client waits for news of its server, any  *)
(* other connects at once unless it only writes files.  A process is there *)
(* when _connect returns, with its writer, before anybody can listen for   *)
(* 'client-ready'.                                                         *)
InitConnection ==
    LET connects == ~conf.files_only /\ ~conf.managed
        process == conf.transport \in Processes
    IN  /\ sock = [s \in Sockets |-> IF ~connects \/ s # 1 THEN "none"
                                     ELSE IF process THEN "open" ELSE "connecting"]
        /\ socket = IF connects THEN 1 ELSE 0
        /\ handlers = [s \in Sockets |-> IF connects /\ s = 1 THEN 1 ELSE 0]
        /\ writer = IF connects /\ process THEN 1 ELSE 0

(* A client that only writes files begins to set up its first.             *)
Init ==
    /\ conf \in Configurations
    /\ InitConnection
    /\ waiting = (conf.managed /\ ~conf.files_only)
    /\ reconnects = 0 /\ timers = 0
    /\ starting = IF conf.files_only THEN 1 ELSE 0
    /\ files_going = conf.files_only
    /\ file_output = 0
    /\ file = [f \in Files |-> NoFile]
    /\ count = 0
    /\ restore = [s \in Sockets |-> "none"]
    /\ decoded = [s \in Sockets |-> <<>>]
    /\ fate = [m \in Messages |-> "unsent"]
    /\ wire = <<>>
    /\ crashed = FALSE

-----------------------------------------------------------------------------
(* Connecting and losing the connection                                    *)

(* A 'S' message for the label while the client is in the table: its       *)
(* connector_cb makes one more socket, with handlers, for the same client. *)
Announce ==
    /\ waiting
    /\ \E s \in Sockets :
          /\ sock[s] = "none" /\ \A r \in 1 .. s - 1 : sock[r] # "none"
          /\ sock' = [sock EXCEPT ![s] = "connecting"]
          /\ socket' = s
          /\ handlers' = [handlers EXCEPT ![s] = 1]
    /\ UNCHANGED <<conf, writer, waiting, reconnects, timers,
                   fileVars, restoreVars, sendVars>>

(* restore_send, up to its first await: the files stop, and the file is    *)
(* closed and read if it is to be sent.                                    *)
RestoreSend(s) ==
    IF files_going
    THEN /\ files_going' = FALSE
         /\ IF conf.send_on_reconnect
            THEN /\ file' = [file EXCEPT ![file_output].ended = TRUE]
                 /\ restore' = [restore EXCEPT ![s] = "reading"]
            ELSE UNCHANGED <<file, restore>>
    ELSE UNCHANGED <<files_going, file, restore>>

(* _connection_handler, called when any of the sockets is connected: the   *)
(* writer is the last socket made.  'client-ready' takes the client out of *)
(* the manager's table.                                                    *)
Connected(s) ==
    /\ sock[s] = "connecting"
    /\ sock' = [sock EXCEPT ![s] = "open"]
    /\ writer' = socket
    /\ reconnects' = 0
    /\ waiting' = FALSE
    /\ RestoreSend(s)
    /\ UNCHANGED <<conf, socket, handlers, timers, starting, file_output, count,
                   decoded, sendVars>>

(* The 'close' handler, once for every set of handlers of the socket, each *)
(* of which counts and tries again: _attempt_reconnect sets a timer; of a  *)
(* child process, it calls _connect, which does nothing as long as there   *)
(* is a _proc, and adds handlers to the process that has ended.            *)
Closes(s) ==
    /\ sock' = [sock EXCEPT ![s] = "closed"]
    /\ LET tries == {k \in 1 .. handlers[s] : reconnects + k < MaxReconnect}
       IN  IF ~conf.attempt_reconnect THEN UNCHANGED <<reconnects, timers, handlers>>
           ELSE /\ reconnects' = reconnects + handlers[s]
                /\ IF conf.transport = "parent"
                   THEN /\ handlers' = [handlers EXCEPT ![s] = @ + Cardinality(tries)]
                        /\ UNCHANGED timers
                   ELSE /\ timers' = timers + Cardinality(tries)
                        /\ UNCHANGED handlers
    /\ UNCHANGED <<conf, socket, writer, waiting, files_going,
                   file_output, file, count, restoreVars, sendVars>>

\* Mutant: the error is given to a callback of send, and no event is emitted.
NoStarts(s) == 0

(* An 'error' of the socket: how many calls of _start_file_shunting its    *)
(* handlers make.                                                          *)
ErrorStarts(s) ==
    IF conf.file_shunting /\ ~(conf.attempt_reconnect /\ reconnects < MaxReconnect)
    THEN handlers[s] ELSE 0

(* closeAll, or the peer or the child ends the connection: 'close', and    *)
(* nothing is shunted.                                                     *)
CleanClose(s) ==
    /\ conf.transport \in {"tcp", "parent"}
    /\ sock[s] = "open"
    /\ Closes(s)
    /\ UNCHANGED starting

(* A refused or broken connection: 'error', whose handler may start a file *)
(* for the messages, and then 'close'.                                     *)
Fails(s) ==
    /\ conf.transport \in {"tcp", "parent"}
    /\ sock[s] \in {"connecting", "open"}
    /\ Closes(s)
    /\ starting' = starting + ErrorStarts(s)

(* An 'error' of a datagram socket: of connecting, which then never        *)
(* happens, or of a datagram that was refused, which closes nothing.  It   *)
(* may come again and again: taken here while no file is started.          *)
DatagramError(s) ==
    /\ conf.transport = "udp"
    /\ sock[s] \in {"connecting", "open"}
    /\ starting = 0 /\ file_output = 0
    /\ sock' = [sock EXCEPT ![s] = IF @ = "connecting" THEN "closed" ELSE @]
    /\ starting' = ErrorStarts(s)
    /\ UNCHANGED <<conf, socket, handlers, writer, waiting, reconnects, timers,
                   files_going, file_output, file, count, restoreVars, sendVars>>

(* closeAll of a datagram socket disconnects it, and the parent of a child *)
(* process may go: no handler is called for either.                        *)
GoesSilent(s) ==
    /\ conf.transport \in {"udp", "child"}
    /\ sock[s] = "open"
    /\ sock' = [sock EXCEPT ![s] = "closed"]
    /\ UNCHANGED <<conf, socket, handlers, writer, waiting, reconnects, timers,
                   fileVars, restoreVars, sendVars>>

(* The timeout of _attempt_reconnect: handlers are added to this.socket,   *)
(* and no connection is made.                                              *)
ReconnectTimer ==
    /\ timers > 0
    /\ timers' = timers - 1
    /\ handlers' = [handlers EXCEPT ![socket] = @ + 1]
    /\ UNCHANGED <<conf, sock, socket, writer, waiting, reconnects,
                   fileVars, restoreVars, sendVars>>

-----------------------------------------------------------------------------
(* Files.  A stream is created at once and opened by the thread pool, and  *)
(* what is written to it waits for that.  All the files of one client have *)
(* the same path, so that a later one empties an earlier one when it       *)
(* opens, unless that was renamed (_reset_file_stream).                    *)

\* Mutant: the stream is opened to append (flags 'a').
AppendStream(f) ==
    [file EXCEPT ![f] =
        IF f = 1 THEN NewFile
        ELSE [NewFile EXCEPT !.text = file[f - 1].text,
                             !.flushed = Len(file[f - 1].text)]]

OpenStream(f) == [file EXCEPT ![f] = NewFile]

(* The rest of _start_file_shunting and of _setup_file_output; only the    *)
(* second sets message_count.                                              *)
StartFile ==
    /\ starting > 0
    /\ file_output < MaxFiles
    /\ starting' = starting - 1
    /\ file_output' = file_output + 1
    /\ file' = OpenStream(file_output + 1)
    /\ files_going' = TRUE
    /\ count' = 0
    /\ UNCHANGED <<conf, netVars, restoreVars, sendVars>>

Opened(f) ==
    /\ file[f].state = "opening"
    /\ \A e \in 1 .. f - 1 : file[e].state = "open"
    /\ file' = [file EXCEPT ![f].state = "open"]
    /\ UNCHANGED <<conf, netVars, starting, files_going, file_output, count,
                   restoreVars, sendVars>>

\* Mutant: closing a stream throws away what it has not written yet.
FlushUnlessEnded(f) ==
    /\ file[f].state = "open" /\ ~file[f].ended
    /\ file[f].flushed < Len(file[f].text)
    /\ file' = [file EXCEPT ![f].flushed = Len(file[f].text)]
    /\ UNCHANGED <<conf, netVars, starting, files_going, file_output, count,
                   restoreVars, sendVars>>

(* The stream writes all it has: close() waits for that, nothing else does. *)
Flush(f) ==
    /\ file[f].state = "open"
    /\ file[f].flushed < Len(file[f].text)
    /\ file' = [file EXCEPT ![f].flushed = Len(file[f].text)]
    /\ UNCHANGED <<conf, netVars, starting, files_going, file_output, count,
                   restoreVars, sendVars>>

OnDisk(f) == SubSeq(file[f].text, 1, file[f].flushed)

(* fsPromise.readFile in _shutdown_files_going gives what is on the path   *)
(* when it reads.                                                          *)
ReadFile(s) ==
    /\ restore[s] = "reading"
    /\ file[file_output].state = "open"
    /\ decoded' = [decoded EXCEPT ![s] = OnDisk(file_output)]
    /\ restore' = [restore EXCEPT ![s] = "read"]
    /\ UNCHANGED <<conf, netVars, fileVars, sendVars>>

-----------------------------------------------------------------------------
(* sendMessage                                                             *)

ToFile == files_going /\ file_output # 0

\* A socket takes messages while it is connecting (one of datagrams is no writer
\* by then); they are written when it is connected.
WriterUsable == writer # 0 /\ sock[writer] \in {"connecting", "open"}

(* _send_to_counted_stream: message_count is set for files_only; for       *)
(* shunting it is NaN, and never reaches the limit.                        *)
\* Mutant: the limit is looked for after it has been passed.
WrapsLate == conf.files_only /\ count > WrapLimit

Wraps == conf.files_only /\ count + 1 >= WrapLimit

AddTo(f, m) == [file EXCEPT ![f].text = Append(@, m)]

\* Mutant: message_count is not counted, as it is not for shunting.
PutUncounted(m) ==
    /\ ToFile
    /\ ~Wraps /\ ~file[file_output].ended
    /\ file' = AddTo(file_output, m)
    /\ fate' = [fate EXCEPT ![m] = "filed"]
    /\ UNCHANGED <<starting, files_going, file_output, count, wire, crashed>>

PutInFile(m) ==
    /\ ToFile
    /\ ~Wraps /\ ~file[file_output].ended
    /\ file' = AddTo(file_output, m)
    /\ count' = IF conf.files_only THEN count + 1 ELSE count
    /\ fate' = [fate EXCEPT ![m] = "filed"]
    /\ UNCHANGED <<starting, files_going, file_output, wire, crashed>>

(* _reset_file_stream: the file is closed and renamed, and the message is  *)
(* the first of a new one.                                                 *)
PutInNextFile(m) ==
    /\ ToFile
    /\ Wraps
    /\ file[file_output].state = "open"
    /\ file_output < MaxFiles
    /\ file' = [file EXCEPT ![file_output].ended = TRUE,
                            ![file_output + 1] = [NewFile EXCEPT !.text = <<m>>]]
    /\ file_output' = file_output + 1
    /\ count' = 0
    /\ fate' = [fate EXCEPT ![m] = "filed"]
    /\ UNCHANGED <<starting, files_going, wire, crashed>>

(* The file is not there yet: renameSync throws out of sendMessage, and    *)
(* leaves an ended stream as file_output.                                  *)
RenameThrows(m) ==
    /\ ToFile
    /\ Wraps
    /\ file[file_output].state = "opening"
    /\ file' = [file EXCEPT ![file_output].ended = TRUE]
    /\ count' = 0
    /\ fate' = [fate EXCEPT ![m] = "thrown"]
    /\ UNCHANGED <<starting, files_going, file_output, wire, crashed>>

(* A write to an ended stream is an 'error' event of a stream that nobody  *)
(* listens to.                                                             *)
WriteAfterEnd(m) ==
    /\ ToFile
    /\ ~Wraps /\ file[file_output].ended
    /\ crashed' = TRUE
    /\ fate' = [fate EXCEPT ![m] = "thrown"]
    /\ UNCHANGED <<fileVars, wire>>

(* _message_and_response: to the writer, or nowhere when there is none or  *)
(* its socket has closed.  The process that is gone has an 'error' for it, *)
(* which the handlers of 'error' see.                                      *)
Write(m) ==
    /\ ~ToFile
    /\ IF WriterUsable
       THEN wire' = Append(wire, m) /\ fate' = [fate EXCEPT ![m] = "written"]
       ELSE wire' = wire /\ fate' = [fate EXCEPT ![m] = "nowhere"]
    /\ starting' = IF conf.transport \in Processes /\ writer # 0 /\ ~WriterUsable
                   THEN starting + ErrorStarts(writer) ELSE starting
    /\ UNCHANGED <<files_going, file_output, file, count, crashed>>

Send(m) ==
    /\ fate[m] = "unsent" /\ \A n \in 1 .. m - 1 : fate[n] # "unsent"
    /\ \/ PutInFile(m)
       \/ PutInNextFile(m)
       \/ RenameThrows(m)
       \/ WriteAfterEnd(m)
       \/ Write(m)
    /\ UNCHANGED <<conf, netVars, restoreVars>>

\* Mutants: the last message is cut off with the last comma; the messages are
\* pushed and sent from the end.
ReplayButLast(s) ==
    /\ restore[s] = "read"
    /\ restore' = [restore EXCEPT ![s] = "done"]
    /\ wire' = IF WriterUsable /\ decoded[s] # <<>>
               THEN wire \o Front(decoded[s]) ELSE wire
    /\ UNCHANGED <<conf, netVars, fileVars, decoded, fate, crashed>>

ReplayBackwards(s) ==
    /\ restore[s] = "read"
    /\ restore' = [restore EXCEPT ![s] = "done"]
    /\ wire' = IF WriterUsable THEN wire \o Reverse(decoded[s]) ELSE wire
    /\ UNCHANGED <<conf, netVars, fileVars, decoded, fate, crashed>>

(* The rest of _shutdown_files_going: sendMessage of all that was read, in *)
(* one go, wherever messages go by now.                                    *)
Replay(s) ==
    /\ restore[s] = "read"
    /\ restore' = [restore EXCEPT ![s] = "done"]
    /\ IF ToFile
       THEN /\ file' = [file EXCEPT ![file_output].text = @ \o decoded[s]]
            /\ wire' = wire
       ELSE /\ wire' = IF WriterUsable THEN wire \o decoded[s] ELSE wire
            /\ file' = file
    /\ UNCHANGED <<conf, netVars, starting, files_going, file_output, count,
                   decoded, fate, crashed>>

-----------------------------------------------------------------------------
Next ==
    /\ ~crashed
    /\ \/ Announce
       \/ \E s \in Sockets : \/ Connected(s)
                             \/ CleanClose(s)
                             \/ Fails(s)
                             \/ DatagramError(s)
                             \/ GoesSilent(s)
                             \/ ReadFile(s)
                             \/ Replay(s)
       \/ ReconnectTimer
       \/ StartFile
       \/ \E f \in Files : Opened(f) \/ Flush(f)
       \/ \E m \in Messages : Send(m)

Spec == Init /\ [][Next]_vars

(* Timeouts fire, and file operations and what awaits them complete; no    *)
(* server has to come up, and nobody has to send.                          *)
Fairness ==
    /\ WF_vars(~crashed /\ ReconnectTimer)
    /\ WF_vars(~crashed /\ StartFile)
    /\ \A f \in Files : WF_vars(~crashed /\ (Opened(f) \/ Flush(f)))
    /\ \A s \in Sockets : WF_vars(~crashed /\ (ReadFile(s) \/ Replay(s)))

FairSpec == Spec /\ Fairness

-----------------------------------------------------------------------------
OccursIn(m, f) == m \in Range(file[f].text)

\* The message is in a file that was started, by another failure, while an
\* earlier one was still being read on the same path.
Doubled(m) == \E f \in Files : file[f].overlaps /\ OccursIn(m, f)

\* The message is in two files, or twice in one.
FiledTwice(m) ==
    \E f, g \in Files : \E i \in DOMAIN file[f].text, j \in DOMAIN file[g].text :
        /\ f # g \/ i # j
        /\ file[f].text[i] = m
        /\ file[g].text[j] = m

(* A message is written to the server at most once, although the file it   *)
(* was put in is never emptied when it is sent from - unless that file was *)
(* started while an earlier one was still being read: then both readers    *)
(* may find it.                                                            *)
ReplayedOnce ==
    \A i, j \in DOMAIN wire : wire[i] = wire[j] => i = j \/ Doubled(wire[i])

(* Messages of one file reach the server in the order they were filed in,  *)
(* except those that two readers may have found, which may come again.     *)
ReplayInOrder ==
    \A f \in Files :
        LET text == file[f].text
        IN  \A i, j \in DOMAIN text :
                i < j /\ ~Doubled(text[i]) /\ ~Doubled(text[j]) =>
                    \A k, l \in DOMAIN wire :
                        wire[k] = text[i] /\ wire[l] = text[j] => k < l

(* What _shutdown_files_going has read is sent, or put in a later file, or *)
(* the connection it was for went down while the file was read.            *)
ReplayKeeps ==
    \A s \in Sockets : restore[s] = "done" =>
        \A m \in Range(decoded[s]) :
            \/ m \in Range(wire)
            \/ FiledTwice(m)
            \/ sock[writer] = "closed"

(* A client that does not attempt to reconnect loses messages to a process *)
(* that is gone, or to datagrams that failed, only until the first error   *)
(* has started a file; from the first message in the file on, nothing is   *)
(* written to the connection again or lost - but for the message that      *)
(* renames the file of a client with files_only before it is there.        *)
LostOnlyUntilShunted ==
    conf.transport # "tcp" /\ conf.file_shunting /\ ~conf.attempt_reconnect =>
        \A m \in Messages :
            /\ fate[m] = "nowhere" /\ conf.transport \in Processes =>
                   starting > 0 \/ files_going
            /\ fate[m] = "filed" => \A n \in m .. MaxMessages :
                   \/ fate[n] \in {"unsent", "filed"}
                   \/ conf.files_only /\ fate[n] = "thrown"

(* A file is renamed and followed by another before it holds more than     *)
(* wrap_limit messages.                                                    *)
FileWithinLimit ==
    conf.files_only => \A f \in Files : Len(file[f].text) <= WrapLimit

(* Whatever sendMessage has answered "OK" for is in the end on the disk,   *)
(* through every change of file, unless the process goes down.             *)
FiledReachesDisk ==
    \A m \in Messages :
        (\E f \in Files : OccursIn(m, f))
            ~> (crashed \/ \E f \in Files : m \in Range(OnDisk(f)))

(* README.md line 1034, of a client that was connected and is configured   *)
(* with attempt_reconnect: "So, if the relay client needs to reconnect to  *)
(* the server, it will perform in the same manner": it reconnects.         *)
Reconnects ==
    (conf.attempt_reconnect /\ socket # 0 /\ sock[socket] = "closed")
        ~> \E s \in Sockets : sock[s] = "connecting"
=============================================================================
