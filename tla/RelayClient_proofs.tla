-------------------------- MODULE RelayClient_proofs --------------------------
(***************************************************************************)
(* Proofs about RelayClient, for any numbers of messages, sockets and      *)
(* files and any clients.                                                  *)
(***************************************************************************)
EXTENDS RelayClient, FiniteSetTheorems, TLAPS

(* The connection.  A client that writes only files has none; a socket     *)
(* that is made has handlers; the writer stays the last socket made, as no *)
(* more are made when one is connected.                                    *)
OneConnection ==
    /\ conf.files_only =>
          /\ \A s \in Sockets : sock[s] = "none" /\ restore[s] = "none"
          /\ socket = 0 /\ writer = 0
          /\ files_going
    /\ waiting => conf.managed /\ ~conf.files_only /\ writer = 0
    /\ ~conf.managed => \A s \in Sockets : s # 1 => sock[s] = "none"
    /\ conf.transport \in Processes /\ ~conf.files_only => writer = 1
    /\ conf.transport \in Processes => \A s \in Sockets : sock[s] # "connecting"
    /\ \A s \in Sockets : sock[s] # "none" => handlers[s] > 0 /\ socket # 0
    /\ socket # 0 => sock[socket] # "none"
    /\ writer # 0 => writer = socket

(* The files.  Only the last one made can be written to or read.           *)
FilesInTurn ==
    /\ \A f \in Files : f > file_output => file[f] = NoFile
    /\ files_going /\ file_output = 0 => conf.files_only
    /\ files_going /\ ~conf.files_only => ~file[file_output].ended

(* A connection reads files once, when it is made, and alone unless the    *)
(* file overlaps.                                                          *)
ReadersApart ==
    \A s \in Sockets : restore[s] # "none" =>
        /\ writer # 0 /\ file_output # 0
        /\ sock[s] \in {"open", "closed"}
        /\ restore[s] = "reading" /\ ~file[file_output].overlaps =>
              ~files_going /\ \A r \in Sockets : restore[r] = "reading" => r = s

SentInOrder ==
    \A m \in Messages : fate[m] # "unsent" => \A n \in 1 .. m - 1 : fate[n] # "unsent"

(* The room left in the file of a client that only writes files.           *)
RoomLeft ==
    conf.files_only =>
        /\ count < WrapLimit
        /\ file_output # 0 /\ ~file[file_output].ended =>
              Len(file[file_output].text) <= count + 1

(* A client without a server connection to go back to goes on with files.  *)
StaysWithFiles ==
    conf.transport # "tcp" =>
        /\ \A m \in Messages : fate[m] = "filed" => ToFile
        /\ \A s \in Sockets : sock[s] = "connecting" => starting = 0 /\ ~files_going

BaseInv ==
    /\ TypeOK
    /\ OneConnection
    /\ FilesInTurn
    /\ ReadersApart
    /\ SentInOrder
    /\ RoomLeft
    /\ FileWithinLimit
    /\ StaysWithFiles
    /\ LostOnlyUntilShunted

-----------------------------------------------------------------------------
(* What the actions have in common.                                        *)

LEMMA FileTypes ==
    /\ NoFile \in FileStates /\ NoFile.text = <<>> /\ NoFile.flushed = 0
    /\ NewFile \in FileStates /\ NewFile.text = <<>> /\ NewFile.flushed = 0
    /\ ~NewFile.ended /\ ~NoFile.overlaps /\ NoFile.state = "none"
    /\ NewFile.overlaps = \E s \in Sockets : restore[s] = "reading"
    /\ NewFile.state = "opening"
<1> DEFINE overlapping == \E s \in Sockets : restore[s] = "reading"
<1>1. overlapping \in BOOLEAN
  OBVIOUS
<1>2. NewFile = [NoFile EXCEPT !.state = "opening", !.overlaps = overlapping]
  BY DEF NewFile
<1> HIDE DEF overlapping
<1>3. NewFile = [state |-> "opening", ended |-> FALSE, text |-> <<>>, flushed |-> 0,
                 overlaps |-> overlapping]
  BY <1>2 DEF NoFile
<1>4. NewFile \in FileStates
  BY <1>1, <1>3 DEF FileStates
<1>5. NewFile.overlaps = \E s \in Sockets : restore[s] = "reading"
  BY <1>3 DEF overlapping
<1>6. NoFile \in FileStates
  BY DEF NoFile, FileStates
<1> QED BY <1>3, <1>4, <1>5, <1>6 DEF NoFile

(* The 'close' handlers that try again can be counted.                     *)
LEMMA TriesCounted ==
    ASSUME NEW s \in Sockets, handlers[s] \in Nat
    PROVE  Cardinality({k \in 1 .. handlers[s] : reconnects + k < MaxReconnect}) \in Nat
<1> DEFINE tries == {k \in 1 .. handlers[s] : reconnects + k < MaxReconnect}
<1>1. IsFiniteSet(1 .. handlers[s])
  BY FS_Interval, 0 + 1 = 1
<1>2. IsFiniteSet(tries)
  BY <1>1, FS_Subset, tries \subseteq 1 .. handlers[s]
<1> QED BY <1>2, FS_CardinalityType

(* The client as it is made.                                               *)
LEMMA BaseInit ==
    ASSUME Init
    PROVE  BaseInv
<1> USE RelayClientAssumption DEF Init, InitConnection, Sockets, Messages, Files, Flags, Processes
<1>1. TypeOK
  <2>6. conf.files_only \in BOOLEAN /\ conf.managed \in BOOLEAN
    BY SMT
  <2>7. (conf.managed /\ ~conf.files_only) \in BOOLEAN
    BY Zenon
  <2>1. /\ sock \in [Sockets -> {"none", "connecting", "open", "closed"}]
        /\ handlers \in [Sockets -> Nat]
        /\ socket \in {0, 1} /\ writer \in {0, 1}
    <3>1. CASE ~conf.files_only /\ ~conf.managed
      BY <3>1
    <3>2. CASE ~(~conf.files_only /\ ~conf.managed)
      BY <3>2
    <3> QED BY <3>1, <3>2
  <2>2. file \in [Files -> FileStates] /\ \A f \in Files : file[f].flushed <= Len(file[f].text)
    BY FileTypes
  <2>5. files_going \in BOOLEAN /\ waiting \in BOOLEAN
    BY <2>6, <2>7
  <2>3. /\ reconnects \in Nat /\ timers \in Nat /\ starting \in Nat
        /\ crashed \in BOOLEAN /\ conf \in Configurations
    OBVIOUS
  <2>8. file_output \in 0 .. MaxFiles /\ count \in 0 .. WrapLimit
    OBVIOUS
  <2>9. socket \in 0 .. MaxSockets /\ writer \in 0 .. MaxSockets
    BY <2>1
  <2>4. /\ restore \in [Sockets -> {"none", "reading", "read", "done"}]
        /\ decoded \in [Sockets -> Seq(Messages)]
        /\ fate \in [Messages -> {"unsent", "filed", "written", "nowhere", "thrown"}]
        /\ wire \in Seq(Messages)
    OBVIOUS
  <2> HIDE DEF Init
  <2> QED BY ONLY <2>1, <2>2, <2>3, <2>4, <2>5, <2>8, <2>9 DEF TypeOK
<1>2. OneConnection
  <2>1. conf.files_only => ~conf.managed \/ conf.managed
    OBVIOUS
  <2>2. CASE conf.files_only
    BY <2>2 DEF OneConnection
  <2>3. CASE ~conf.files_only /\ conf.managed
    BY <2>3 DEF OneConnection
  <2>4. CASE ~conf.files_only /\ ~conf.managed
    BY <2>4 DEF OneConnection
  <2> QED BY <2>2, <2>3, <2>4
<1>3. FilesInTurn
  BY DEF FilesInTurn
<1>4. ReadersApart /\ SentInOrder
  BY DEF ReadersApart, SentInOrder
<1>5. RoomLeft /\ FileWithinLimit
  BY FileTypes DEF RoomLeft, FileWithinLimit
<1>6. StaysWithFiles /\ LostOnlyUntilShunted
  BY DEF StaysWithFiles, LostOnlyUntilShunted
<1> QED BY <1>1, <1>2, <1>3, <1>4, <1>5, <1>6 DEF BaseInv

(* An 'error' starts some number of files.                                 *)
LEMMA ErrorStartsNat ==
    ASSUME TypeOK, NEW s \in Sockets
    PROVE  ErrorStarts(s) \in Nat
BY DEF TypeOK, ErrorStarts

(* Sequences: lengths and types.                                           *)
LEMMA SeqFacts ==
    ASSUME NEW S, NEW s \in Seq(S), NEW u \in Seq(S), NEW e \in S
    PROVE  /\ s \o u \in Seq(S) /\ Len(s \o u) = Len(s) + Len(u)
           /\ Append(s, e) \in Seq(S) /\ Len(Append(s, e)) = Len(s) + 1
           /\ Len(s) \in Nat /\ Len(u) \in Nat
OBVIOUS

(* A file that is closed.                                                  *)
LEMMA EndedFile ==
    ASSUME TypeOK, file_output \in Files,
           file' = [file EXCEPT ![file_output].ended = TRUE]
    PROVE  /\ file' \in [Files -> FileStates]
           /\ \A f \in Files : /\ file'[f].text = file[f].text
                               /\ file'[f].flushed = file[f].flushed
                               /\ file'[f].overlaps = file[f].overlaps
                               /\ file'[f].state = file[f].state
                               /\ f # file_output => file'[f] = file[f]
<1>1. file \in [Files -> FileStates]
  BY DEF TypeOK
<1> QED BY <1>1 DEF FileStates

(* The 'close' handlers add attempts and handlers, and take none away.     *)
LEMMA ClosesDoes ==
    ASSUME TypeOK, NEW s \in Sockets, Closes(s)
    PROVE  /\ sock' = [sock EXCEPT ![s] = "closed"]
           /\ sock' \in [Sockets -> {"none", "connecting", "open", "closed"}]
           /\ reconnects' \in Nat /\ timers' \in Nat /\ handlers' \in [Sockets -> Nat]
           /\ \A r \in Sockets : handlers'[r] >= handlers[r]
           /\ sock'[s] = "closed" /\ \A r \in Sockets : r # s => sock'[r] = sock[r]
           /\ UNCHANGED <<conf, socket, writer, waiting, files_going,
                          file_output, file, count, restoreVars>>
<1> DEFINE K == Cardinality({k \in 1 .. handlers[s] : reconnects + k < MaxReconnect})
<1>1. /\ sock \in [Sockets -> {"none", "connecting", "open", "closed"}]
      /\ reconnects \in Nat /\ timers \in Nat /\ handlers \in [Sockets -> Nat]
  BY DEF TypeOK
<1>2. K \in Nat
  BY <1>1, TriesCounted
<1>3. /\ sock' = [sock EXCEPT ![s] = "closed"]
      /\ \/ UNCHANGED <<reconnects, timers, handlers>>
         \/ /\ reconnects' = reconnects + handlers[s]
            /\ handlers' = [handlers EXCEPT ![s] = @ + K]
            /\ UNCHANGED timers
         \/ /\ reconnects' = reconnects + handlers[s]
            /\ timers' = timers + K
            /\ UNCHANGED handlers
      /\ UNCHANGED <<conf, socket, writer, waiting, files_going,
                     file_output, file, count, restoreVars>>
  BY DEF Closes
<1> HIDE DEF K
<1> QED BY <1>1, <1>2, <1>3

(* The same of two sequences put together.                                 *)
LEMMA ConcatFacts ==
    ASSUME NEW S, NEW s \in Seq(S), NEW u \in Seq(S)
    PROVE  /\ s \o u \in Seq(S) /\ Len(s \o u) = Len(s) + Len(u)
           /\ Len(s) \in Nat /\ Len(u) \in Nat
OBVIOUS

(* What is read from one file put in another.                              *)
LEMMA ReplayToFile ==
    ASSUME TypeOK, NEW s \in Sockets, Replay(s), ToFile
    PROVE  /\ file_output \in Files
           /\ file' \in [Files -> FileStates]
           /\ \A f \in Files : f # file_output => file'[f] = file[f]
           /\ file'[file_output].text = file[file_output].text \o decoded[s]
           /\ file'[file_output].flushed = file[file_output].flushed
           /\ file'[file_output].ended = file[file_output].ended
           /\ file'[file_output].overlaps = file[file_output].overlaps
           /\ \A f \in Files : file'[f].flushed <= Len(file'[f].text)
<1> DEFINE text == file[file_output].text \o decoded[s]
<1>1. file_output \in Files /\ file \in [Files -> FileStates]
  BY RelayClientAssumption DEF TypeOK, ToFile, Files
<1>2. file[file_output].text \in Seq(Messages) /\ decoded[s] \in Seq(Messages)
  BY <1>1 DEF TypeOK, FileStates
<1>3. /\ text \in Seq(Messages) /\ Len(text) = Len(file[file_output].text) + Len(decoded[s])
      /\ Len(file[file_output].text) \in Nat /\ Len(decoded[s]) \in Nat
  BY <1>2, ConcatFacts
<1>4. file' = [file EXCEPT ![file_output].text = text]
  BY DEF Replay
<1> HIDE DEF text
<1>5. /\ file' \in [Files -> FileStates]
      /\ \A f \in Files : f # file_output => file'[f] = file[f]
      /\ file'[file_output].text = text
      /\ file'[file_output].flushed = file[file_output].flushed
      /\ file'[file_output].ended = file[file_output].ended
      /\ file'[file_output].overlaps = file[file_output].overlaps
  BY <1>1, <1>3, <1>4 DEF FileStates
<1>6. file[file_output].flushed \in Nat
  BY <1>1 DEF FileStates
<1>7. \A f \in Files : file[f].flushed <= Len(file[f].text)
  BY DEF TypeOK
<1>8. \A f \in Files : file'[f].flushed <= Len(file'[f].text)
  <2>1. Len(file'[file_output].text) >= Len(file[file_output].text)
    <3>1. Len(file'[file_output].text) = Len(text)
      BY <1>5
    <3>2. ASSUME NEW a \in Nat, NEW b \in Nat
          PROVE  a + b >= a
      OBVIOUS
    <3>3. Len(file[file_output].text) + Len(decoded[s]) >= Len(file[file_output].text)
      BY <1>3, <3>2
    <3> QED BY <1>3, <3>1, <3>3
  <2>2. file'[file_output].flushed <= Len(file'[file_output].text)
    <3>1. Len(file'[file_output].text) \in Nat
      BY <1>3, <1>5
    <3> QED BY <1>1, <1>3, <1>5, <1>6, <1>7, <2>1, <3>1
  <2> QED BY <1>5, <1>7, <2>2
<1> QED BY <1>1, <1>5, <1>8 DEF text

(* What a message put in the file changes of the files.                    *)
LEMMA PutInFileDoes ==
    ASSUME TypeOK, NEW m \in Messages, PutInFile(m)
    PROVE  /\ file_output \in Files
           /\ file' \in [Files -> FileStates]
           /\ \A f \in Files : f # file_output => file'[f] = file[f]
           /\ file'[file_output].text = Append(file[file_output].text, m)
           /\ file'[file_output].flushed = file[file_output].flushed
           /\ file'[file_output].ended = file[file_output].ended
           /\ file'[file_output].overlaps = file[file_output].overlaps
           /\ \A f \in Files : file'[f].flushed <= Len(file'[f].text)
<1> DEFINE text == Append(file[file_output].text, m)
<1>1. file_output \in Files /\ file \in [Files -> FileStates]
  BY RelayClientAssumption DEF TypeOK, PutInFile, ToFile, Files
<1>2. file[file_output].text \in Seq(Messages)
  BY <1>1 DEF FileStates
<1>3. /\ text \in Seq(Messages) /\ Len(text) = Len(file[file_output].text) + 1
      /\ Len(file[file_output].text) \in Nat
  BY <1>2, SeqFacts
<1>4. file' = [file EXCEPT ![file_output].text = text]
  BY DEF PutInFile, AddTo
<1> HIDE DEF text
<1>5. /\ file' \in [Files -> FileStates]
      /\ \A f \in Files : f # file_output => file'[f] = file[f]
      /\ file'[file_output].text = text
      /\ file'[file_output].flushed = file[file_output].flushed
      /\ file'[file_output].ended = file[file_output].ended
      /\ file'[file_output].overlaps = file[file_output].overlaps
  BY <1>1, <1>3, <1>4 DEF FileStates
<1>6. file[file_output].flushed \in Nat
  BY <1>1 DEF FileStates
<1>7. \A f \in Files : file[f].flushed <= Len(file[f].text)
  BY DEF TypeOK
<1>8. \A f \in Files : file'[f].flushed <= Len(file'[f].text)
  <2>1. Len(file'[file_output].text) >= Len(file[file_output].text)
    <3>1. Len(file'[file_output].text) = Len(text)
      BY <1>5
    <3>3. Len(file[file_output].text) + 1 >= Len(file[file_output].text)
      BY <1>3
    <3> QED BY <1>3, <3>1, <3>3
  <2>2. file'[file_output].flushed <= Len(file'[file_output].text)
    <3>1. Len(file'[file_output].text) \in Nat
      BY <1>3, <1>5
    <3> QED BY <1>1, <1>3, <1>5, <1>6, <1>7, <2>1, <3>1
  <2> QED BY <1>5, <1>7, <2>2
<1> QED BY <1>1, <1>5, <1>8 DEF text

(* What _reset_file_stream and the message after it change of the files.   *)
LEMMA PutInNextFileDoes ==
    ASSUME TypeOK, NEW m \in Messages, PutInNextFile(m)
    PROVE  /\ file_output \in Files /\ file_output + 1 \in Files
           /\ file_output' = file_output + 1
           /\ file' \in [Files -> FileStates]
           /\ \A f \in Files : f # file_output /\ f # file_output' => file'[f] = file[f]
           /\ file'[file_output].text = file[file_output].text
           /\ file'[file_output].overlaps = file[file_output].overlaps
           /\ file'[file_output'].text = <<m>> /\ ~file'[file_output'].ended
           /\ file'[file_output'].overlaps = \E s \in Sockets : restore[s] = "reading"
           /\ \A f \in Files : file'[f].flushed <= Len(file'[f].text)
<1>1. /\ file_output \in Files /\ file_output + 1 \in Files /\ file \in [Files -> FileStates]
      /\ file_output' = file_output + 1
  BY SMTT(30), RelayClientAssumption DEF TypeOK, PutInNextFile, ToFile, Files
<1> DEFINE F == file_output
           one == [NewFile EXCEPT !.text = <<m>>]
           closed == [file EXCEPT ![F].ended = TRUE]
<1>2. file' = [closed EXCEPT ![F + 1] = one]
  BY DEF PutInNextFile
<1>3. /\ one \in FileStates /\ one.text = <<m>> /\ one.flushed = 0 /\ ~one.ended
      /\ one.overlaps = NewFile.overlaps
  <2>1. <<m>> \in Seq(Messages)
    OBVIOUS
  <2>2. ASSUME NEW st \in FileStates, NEW x \in Seq(Messages)
        PROVE  LET o == [st EXCEPT !.text = x]
               IN  /\ o \in FileStates /\ o.text = x /\ o.flushed = st.flushed
                   /\ o.ended = st.ended /\ o.overlaps = st.overlaps
    BY DEF FileStates
  <2> QED BY <2>1, <2>2, FileTypes
<1>4. /\ closed \in [Files -> FileStates]
      /\ \A f \in Files : f # F => closed[f] = file[f]
      /\ closed[F].text = file[F].text /\ closed[F].flushed = file[F].flushed
      /\ closed[F].overlaps = file[F].overlaps
  BY <1>1 DEF FileStates
<1> HIDE DEF one, closed
<1>5. /\ file' \in [Files -> FileStates] /\ file'[F + 1] = one
      /\ \A f \in Files : f # F + 1 => file'[f] = closed[f]
  BY <1>1, <1>2, <1>3, <1>4
<1>6. file'[F] = closed[F]
  <2>1. F # F + 1
    BY <1>1 DEF Files
  <2> QED BY <1>1, <1>5, <2>1
<1>7. \A f \in Files : file[f].flushed <= Len(file[f].text)
  BY DEF TypeOK
<1>8. ASSUME NEW f \in Files
      PROVE  file'[f].flushed <= Len(file'[f].text)
  <2>1. CASE f = F + 1
    BY <1>3, <1>5, <2>1
  <2>2. CASE f = F
    BY <1>4, <1>6, <1>7, <2>2
  <2>3. CASE f # F /\ f # F + 1
    BY <1>4, <1>5, <1>7, <2>3
  <2> QED BY <2>1, <2>2, <2>3
<1> QED BY <1>1, <1>3, <1>4, <1>5, <1>6, <1>8, FileTypes

(* The base invariant is kept by each action: the connection,              *)
LEMMA AnnounceBase ==
    ASSUME BaseInv, Announce
    PROVE  BaseInv'
<1> USE RelayClientAssumption DEF Sockets, Messages, Files, Announce, netVars, fileVars, restoreVars, sendVars
<1>0. TypeOK /\ OneConnection /\ FilesInTurn /\ ReadersApart /\ SentInOrder
      /\ RoomLeft /\ FileWithinLimit /\ StaysWithFiles /\ LostOnlyUntilShunted
  BY DEF BaseInv
<1>1. TypeOK'
  <2>1. PICK s \in Sockets : sock' = [sock EXCEPT ![s] = "connecting"] /\ socket' = s
                             /\ handlers' = [handlers EXCEPT ![s] = 1]
    OBVIOUS
  <2>2. sock' \in [Sockets -> {"none", "connecting", "open", "closed"}]
    BY <1>0, <2>1 DEF TypeOK
  <2>3. socket' \in 0 .. MaxSockets /\ handlers' \in [Sockets -> Nat]
    BY <1>0, <2>1 DEF TypeOK
  <2> QED BY <1>0, <2>2, <2>3 DEF TypeOK
<1>2. OneConnection'
  BY <1>0, FileTypes DEF TypeOK, OneConnection, Processes, Flags
<1>3. FilesInTurn'
  BY <1>0, FileTypes DEF TypeOK, FilesInTurn
<1>4. ReadersApart'
  BY <1>0, FileTypes DEF TypeOK, ReadersApart, FilesInTurn, OneConnection
<1>5. SentInOrder'
  BY <1>0, FileTypes DEF TypeOK, SentInOrder
<1>6. RoomLeft'
  BY <1>0, FileTypes DEF TypeOK, RoomLeft, OneConnection
<1>7. FileWithinLimit'
  BY <1>0, FileTypes DEF TypeOK, FileWithinLimit, RoomLeft
<1>8. StaysWithFiles'
  BY <1>0, FileTypes DEF TypeOK, StaysWithFiles, ToFile, OneConnection, FilesInTurn, Processes, Flags
<1>9. LostOnlyUntilShunted'
  BY <1>0, FileTypes DEF TypeOK, LostOnlyUntilShunted, StaysWithFiles, SentInOrder, OneConnection, Processes, Flags
<1> QED BY <1>1, <1>2, <1>3, <1>4, <1>5, <1>6, <1>7, <1>8, <1>9 DEF BaseInv

LEMMA ConnectedBase ==
    ASSUME BaseInv, NEW s \in Sockets, Connected(s)
    PROVE  BaseInv'
<1> USE RelayClientAssumption DEF Sockets, Messages, Files, Connected, RestoreSend, netVars, fileVars, restoreVars, sendVars
<1>0. TypeOK /\ OneConnection /\ FilesInTurn /\ ReadersApart /\ SentInOrder
      /\ RoomLeft /\ FileWithinLimit /\ StaysWithFiles /\ LostOnlyUntilShunted
  BY DEF BaseInv
<1>1. TypeOK'
  <2>1. sock' \in [Sockets -> {"none", "connecting", "open", "closed"}]
    BY <1>0 DEF TypeOK
  <2>2. writer' \in 0 .. MaxSockets /\ reconnects' \in Nat /\ waiting' \in BOOLEAN
    BY <1>0 DEF TypeOK
  <2>3. /\ restore' \in [Sockets -> {"none", "reading", "read", "done"}]
        /\ files_going' \in BOOLEAN
    BY <1>0 DEF TypeOK
  <2>4. CASE files_going /\ conf.send_on_reconnect
    <3>1. file_output \in Files
      BY <1>0, <2>4 DEF TypeOK, OneConnection, FilesInTurn
    <3>2. /\ file' \in [Files -> FileStates]
          /\ \A f \in Files : file'[f].flushed = file[f].flushed /\ file'[f].text = file[f].text
      BY <1>0, <2>4, <3>1, EndedFile DEF TypeOK
    <3> QED BY <1>0, <2>1, <2>2, <2>3, <3>2 DEF TypeOK
  <2>5. CASE ~(files_going /\ conf.send_on_reconnect)
    <3>1. UNCHANGED file
      BY <2>5
    <3> QED BY <1>0, <2>1, <2>2, <2>3, <3>1 DEF TypeOK
  <2> QED BY <2>4, <2>5
<1>2. OneConnection'
  BY SMTT(30), <1>0, FileTypes DEF TypeOK, OneConnection, Processes, Flags
<1>3. FilesInTurn'
  BY SMTT(30), <1>0, FileTypes DEF TypeOK, FilesInTurn
<1>4. ReadersApart'
  <2>1. socket # 0 /\ ~conf.files_only /\ restore[s] = "none"
    BY <1>0 DEF OneConnection, ReadersApart, TypeOK
  <2>2. sock'[s] = "open" /\ \A r \in Sockets \ {s} : sock'[r] = sock[r]
    BY <1>0 DEF TypeOK
  <2>3. CASE ~files_going \/ ~conf.send_on_reconnect
    BY <1>0, <2>1, <2>2, <2>3 DEF ReadersApart, TypeOK
  <2>4. CASE files_going /\ conf.send_on_reconnect
    <3>1. file_output \in Files
      BY <1>0, <2>1, <2>4 DEF FilesInTurn, TypeOK
    <3>2. file' = [file EXCEPT ![file_output].ended = TRUE]
      BY <2>4
    <3>3. file'[file_output].overlaps = file[file_output].overlaps
      BY <1>0, <3>1, <3>2, EndedFile DEF TypeOK
    <3>4. /\ restore'[s] = "reading" /\ ~files_going' /\ UNCHANGED file_output
          /\ \A r \in Sockets \ {s} : restore'[r] = restore[r]
          /\ writer' # 0
      BY <1>0, <2>1, <2>4 DEF TypeOK
    <3>5. \A r \in Sockets : restore[r] = "reading" => file[file_output].overlaps
      BY <1>0, <2>4 DEF ReadersApart
    <3>6. ASSUME NEW r \in Sockets, restore'[r] # "none"
          PROVE  /\ writer' # 0 /\ file_output' # 0
                 /\ sock'[r] \in {"open", "closed"}
                 /\ restore'[r] = "reading" /\ ~file'[file_output'].overlaps =>
                       ~files_going' /\ \A q \in Sockets : restore'[q] = "reading" => q = r
      <4>1. CASE r = s
        BY <2>2, <3>1, <3>3, <3>4, <3>5, <4>1
      <4>2. CASE r # s
        BY <1>0, <2>2, <3>1, <3>3, <3>4, <3>5, <3>6, <4>2 DEF ReadersApart
      <4> QED BY <4>1, <4>2
    <3> QED BY <3>6 DEF ReadersApart
  <2> QED BY <2>3, <2>4, <1>0 DEF TypeOK
<1>5. SentInOrder'
  BY <1>0, FileTypes DEF TypeOK, SentInOrder
<1>6. RoomLeft'
  BY <1>0, FileTypes DEF TypeOK, RoomLeft, OneConnection
<1>7. FileWithinLimit'
  <2>1. ~conf.files_only
    BY <1>0 DEF OneConnection
  <2> QED BY <2>1 DEF FileWithinLimit
<1>8. StaysWithFiles'
  BY <1>0, FileTypes DEF TypeOK, StaysWithFiles, ToFile, OneConnection, FilesInTurn, Processes, Flags
<1>9. LostOnlyUntilShunted'
  BY <1>0, FileTypes DEF TypeOK, LostOnlyUntilShunted, StaysWithFiles, SentInOrder, OneConnection, Processes, Flags
<1> QED BY <1>1, <1>2, <1>3, <1>4, <1>5, <1>6, <1>7, <1>8, <1>9 DEF BaseInv

LEMMA CleanCloseBase ==
    ASSUME BaseInv, NEW s \in Sockets, CleanClose(s)
    PROVE  BaseInv'
<1> USE RelayClientAssumption DEF Sockets, Messages, Files, CleanClose, Closes, netVars, fileVars, restoreVars, sendVars
<1>0. TypeOK /\ OneConnection /\ FilesInTurn /\ ReadersApart /\ SentInOrder
      /\ RoomLeft /\ FileWithinLimit /\ StaysWithFiles /\ LostOnlyUntilShunted
  BY DEF BaseInv
<1>1. TypeOK'
  BY <1>0, ClosesDoes DEF TypeOK
<1>2. OneConnection'
  <2>1. /\ \A r \in Sockets : handlers'[r] >= handlers[r]
        /\ sock'[s] = "closed" /\ \A r \in Sockets : r # s => sock'[r] = sock[r]
        /\ UNCHANGED <<conf, socket, writer, waiting, files_going, restore>>
    BY <1>0, ClosesDoes
  <2>2. \A r \in Sockets : sock[r] # "none" <=> sock'[r] # "none"
    BY <1>0, <2>1 DEF TypeOK
  <2>3. conf.files_only =>
           /\ \A r \in Sockets : sock'[r] = "none" /\ restore'[r] = "none"
           /\ socket' = 0 /\ writer' = 0 /\ files_going'
    BY <1>0, <2>1, <2>2 DEF OneConnection
  <2>4. /\ waiting' => conf.managed /\ ~conf.files_only /\ writer' = 0
        /\ ~conf.managed => \A r \in Sockets : r # 1 => sock'[r] = "none"
        /\ conf.transport \in Processes /\ ~conf.files_only => writer' = 1
        /\ conf.transport \in Processes => \A r \in Sockets : sock'[r] # "connecting"
    BY <1>0, <2>1, <2>2 DEF OneConnection
  <2>5. \A r \in Sockets : sock'[r] # "none" => handlers'[r] > 0 /\ socket' # 0
    <3>1. \A r \in Sockets : sock[r] # "none" => handlers[r] > 0 /\ socket # 0
      BY <1>0 DEF OneConnection
    <3>2. \A r \in Sockets : handlers[r] \in Nat /\ handlers'[r] \in Nat
      BY <1>0, <1>1 DEF TypeOK
    <3> QED BY ONLY <2>1, <2>2, <3>1, <3>2
  <2>6. /\ socket' # 0 => sock'[socket'] # "none"
        /\ writer' # 0 => writer' = socket'
    BY <1>0, <1>1, <2>1, <2>2 DEF OneConnection, TypeOK
  <2> QED BY <2>1, <2>3, <2>4, <2>5, <2>6 DEF OneConnection
<1>3. FilesInTurn'
  BY <1>0, FileTypes DEF TypeOK, FilesInTurn
<1>4. ReadersApart'
  <2>1. \A r \in Sockets : sock[r] \in {"open", "closed"} => sock'[r] \in {"open", "closed"}
    BY <1>0 DEF TypeOK
  <2>2. UNCHANGED <<writer, file_output, file, files_going, restore>>
    OBVIOUS
  <2> QED BY <1>0, <2>1, <2>2 DEF ReadersApart
<1>5. SentInOrder'
  BY <1>0, FileTypes DEF TypeOK, SentInOrder
<1>6. RoomLeft'
  BY <1>0, FileTypes DEF TypeOK, RoomLeft, OneConnection
<1>7. FileWithinLimit'
  BY <1>0, FileTypes DEF TypeOK, FileWithinLimit, RoomLeft
<1>8. StaysWithFiles'
  BY <1>0, FileTypes DEF TypeOK, StaysWithFiles, ToFile, OneConnection, FilesInTurn, Processes, Flags
<1>9. LostOnlyUntilShunted'
  BY <1>0, FileTypes DEF TypeOK, LostOnlyUntilShunted, StaysWithFiles, SentInOrder, OneConnection, Processes, Flags
<1> QED BY <1>1, <1>2, <1>3, <1>4, <1>5, <1>6, <1>7, <1>8, <1>9 DEF BaseInv

LEMMA FailsBase ==
    ASSUME BaseInv, NEW s \in Sockets, Fails(s)
    PROVE  BaseInv'
<1> USE RelayClientAssumption DEF Sockets, Messages, Files, Fails, Closes, ErrorStarts, netVars, fileVars, restoreVars, sendVars
<1>0. TypeOK /\ OneConnection /\ FilesInTurn /\ ReadersApart /\ SentInOrder
      /\ RoomLeft /\ FileWithinLimit /\ StaysWithFiles /\ LostOnlyUntilShunted
  BY DEF BaseInv
<1>1. TypeOK'
  <2>1. starting' \in Nat
    BY <1>0, ErrorStartsNat DEF TypeOK
  <2> QED BY <1>0, <2>1, ClosesDoes DEF TypeOK
<1>2. OneConnection'
  <2>1. /\ \A r \in Sockets : handlers'[r] >= handlers[r]
        /\ sock'[s] = "closed" /\ \A r \in Sockets : r # s => sock'[r] = sock[r]
        /\ UNCHANGED <<conf, socket, writer, waiting, files_going, restore>>
    BY <1>0, ClosesDoes
  <2>2. \A r \in Sockets : sock[r] # "none" <=> sock'[r] # "none"
    BY <1>0, <2>1 DEF TypeOK
  <2>3. conf.files_only =>
           /\ \A r \in Sockets : sock'[r] = "none" /\ restore'[r] = "none"
           /\ socket' = 0 /\ writer' = 0 /\ files_going'
    BY <1>0, <2>1, <2>2 DEF OneConnection
  <2>4. /\ waiting' => conf.managed /\ ~conf.files_only /\ writer' = 0
        /\ ~conf.managed => \A r \in Sockets : r # 1 => sock'[r] = "none"
        /\ conf.transport \in Processes /\ ~conf.files_only => writer' = 1
        /\ conf.transport \in Processes => \A r \in Sockets : sock'[r] # "connecting"
    BY <1>0, <2>1, <2>2 DEF OneConnection
  <2>5. \A r \in Sockets : sock'[r] # "none" => handlers'[r] > 0 /\ socket' # 0
    <3>1. \A r \in Sockets : sock[r] # "none" => handlers[r] > 0 /\ socket # 0
      BY <1>0 DEF OneConnection
    <3>2. \A r \in Sockets : handlers[r] \in Nat /\ handlers'[r] \in Nat
      BY <1>0, <1>1 DEF TypeOK
    <3> QED BY ONLY <2>1, <2>2, <3>1, <3>2
  <2>6. /\ socket' # 0 => sock'[socket'] # "none"
        /\ writer' # 0 => writer' = socket'
    BY <1>0, <1>1, <2>1, <2>2 DEF OneConnection, TypeOK
  <2> QED BY <2>1, <2>3, <2>4, <2>5, <2>6 DEF OneConnection
<1>3. FilesInTurn'
  BY <1>0, FileTypes DEF TypeOK, FilesInTurn
<1>4. ReadersApart'
  <2>1. \A r \in Sockets : sock[r] \in {"open", "closed"} => sock'[r] \in {"open", "closed"}
    BY <1>0 DEF TypeOK
  <2>2. UNCHANGED <<writer, file_output, file, files_going, restore>>
    OBVIOUS
  <2> QED BY <1>0, <2>1, <2>2 DEF ReadersApart
<1>5. SentInOrder'
  BY <1>0, FileTypes DEF TypeOK, SentInOrder
<1>6. RoomLeft'
  BY <1>0, FileTypes DEF TypeOK, RoomLeft, OneConnection
<1>7. FileWithinLimit'
  BY <1>0, FileTypes DEF TypeOK, FileWithinLimit, RoomLeft
<1>8. StaysWithFiles'
  BY <1>0, FileTypes DEF TypeOK, StaysWithFiles, ToFile, OneConnection, FilesInTurn, Processes, Flags
<1>9. LostOnlyUntilShunted'
  <2>1. starting' \in Nat /\ starting' >= starting
    BY <1>0, ErrorStartsNat DEF TypeOK
  <2>2. UNCHANGED <<conf, fate, files_going>>
    OBVIOUS
  <2>3. starting \in Nat
    BY <1>0 DEF TypeOK
  <2> QED BY ONLY <1>0, <2>1, <2>2, <2>3 DEF LostOnlyUntilShunted, Messages
<1> QED BY <1>1, <1>2, <1>3, <1>4, <1>5, <1>6, <1>7, <1>8, <1>9 DEF BaseInv

LEMMA DatagramErrorBase ==
    ASSUME BaseInv, NEW s \in Sockets, DatagramError(s)
    PROVE  BaseInv'
<1> USE RelayClientAssumption DEF Sockets, Messages, Files, DatagramError, ErrorStarts, netVars, fileVars, restoreVars, sendVars
<1>0. TypeOK /\ OneConnection /\ FilesInTurn /\ ReadersApart /\ SentInOrder
      /\ RoomLeft /\ FileWithinLimit /\ StaysWithFiles /\ LostOnlyUntilShunted
  BY DEF BaseInv
<1>1. TypeOK'
  BY <1>0, FileTypes DEF TypeOK, FileStates
<1>2. OneConnection'
  BY <1>0, FileTypes DEF TypeOK, OneConnection, Processes, Flags
<1>3. FilesInTurn'
  BY <1>0, FileTypes DEF TypeOK, FilesInTurn
<1>4. ReadersApart'
  BY <1>0, FileTypes DEF TypeOK, ReadersApart, FilesInTurn, OneConnection
<1>5. SentInOrder'
  BY <1>0, FileTypes DEF TypeOK, SentInOrder
<1>6. RoomLeft'
  BY <1>0, FileTypes DEF TypeOK, RoomLeft, OneConnection
<1>7. FileWithinLimit'
  BY <1>0, FileTypes DEF TypeOK, FileWithinLimit, RoomLeft
<1>8. StaysWithFiles'
  BY <1>0, FileTypes DEF TypeOK, StaysWithFiles, ToFile, OneConnection, FilesInTurn, Processes, Flags
<1>9. LostOnlyUntilShunted'
  BY <1>0, FileTypes DEF TypeOK, LostOnlyUntilShunted, StaysWithFiles, SentInOrder, OneConnection, Processes, Flags
<1> QED BY <1>1, <1>2, <1>3, <1>4, <1>5, <1>6, <1>7, <1>8, <1>9 DEF BaseInv

LEMMA GoesSilentBase ==
    ASSUME BaseInv, NEW s \in Sockets, GoesSilent(s)
    PROVE  BaseInv'
<1> USE RelayClientAssumption DEF Sockets, Messages, Files, GoesSilent, netVars, fileVars, restoreVars, sendVars
<1>0. TypeOK /\ OneConnection /\ FilesInTurn /\ ReadersApart /\ SentInOrder
      /\ RoomLeft /\ FileWithinLimit /\ StaysWithFiles /\ LostOnlyUntilShunted
  BY DEF BaseInv
<1>1. TypeOK'
  BY <1>0, FileTypes DEF TypeOK, FileStates
<1>2. OneConnection'
  BY SMTT(30), <1>0, FileTypes DEF TypeOK, OneConnection, Processes, Flags
<1>3. FilesInTurn'
  BY <1>0, FileTypes DEF TypeOK, FilesInTurn
<1>4. ReadersApart'
  BY SMTT(30), <1>0, FileTypes DEF TypeOK, ReadersApart, FilesInTurn, OneConnection
<1>5. SentInOrder'
  BY <1>0, FileTypes DEF TypeOK, SentInOrder
<1>6. RoomLeft'
  BY <1>0, FileTypes DEF TypeOK, RoomLeft, OneConnection
<1>7. FileWithinLimit'
  BY <1>0, FileTypes DEF TypeOK, FileWithinLimit, RoomLeft
<1>8. StaysWithFiles'
  BY <1>0, FileTypes DEF TypeOK, StaysWithFiles, ToFile, OneConnection, FilesInTurn, Processes, Flags
<1>9. LostOnlyUntilShunted'
  <2>1. UNCHANGED <<conf, fate, starting, files_going>>
    OBVIOUS
  <2> QED BY ONLY <1>0, <2>1 DEF LostOnlyUntilShunted, Messages
<1> QED BY <1>1, <1>2, <1>3, <1>4, <1>5, <1>6, <1>7, <1>8, <1>9 DEF BaseInv

(* the timeout of _attempt_reconnect,                                      *)
LEMMA ReconnectTimerBase ==
    ASSUME BaseInv, ReconnectTimer
    PROVE  BaseInv'
<1> USE RelayClientAssumption DEF Sockets, Messages, Files, ReconnectTimer, netVars, fileVars, restoreVars, sendVars
<1>0. TypeOK /\ OneConnection /\ FilesInTurn /\ ReadersApart /\ SentInOrder
      /\ RoomLeft /\ FileWithinLimit /\ StaysWithFiles /\ LostOnlyUntilShunted
  BY DEF BaseInv
<1>1. TypeOK'
  <2>1. timers' \in Nat
    BY <1>0 DEF TypeOK
  <2>2. handlers' \in [Sockets -> Nat]
    <3>1. CASE socket = 0
      <4>1. socket \notin DOMAIN handlers
        BY <1>0, <3>1 DEF TypeOK
      <4>2. handlers' = handlers
        BY <1>0, <4>1 DEF TypeOK
      <4> QED BY <1>0, <4>2 DEF TypeOK
    <3>2. CASE socket # 0
      BY SMTT(30), <1>0, <3>2 DEF TypeOK
    <3> QED BY <3>1, <3>2
  <2> QED BY <1>0, <2>1, <2>2 DEF TypeOK
<1>2. OneConnection'
  BY <1>0, FileTypes DEF TypeOK, OneConnection, Processes, Flags
<1>3. FilesInTurn'
  BY <1>0, FileTypes DEF TypeOK, FilesInTurn
<1>4. ReadersApart'
  BY <1>0, FileTypes DEF TypeOK, ReadersApart, FilesInTurn, OneConnection
<1>5. SentInOrder'
  BY <1>0, FileTypes DEF TypeOK, SentInOrder
<1>6. RoomLeft'
  BY <1>0, FileTypes DEF TypeOK, RoomLeft, OneConnection
<1>7. FileWithinLimit'
  BY <1>0, FileTypes DEF TypeOK, FileWithinLimit, RoomLeft
<1>8. StaysWithFiles'
  BY <1>0, FileTypes DEF TypeOK, StaysWithFiles, ToFile, OneConnection, FilesInTurn, Processes, Flags
<1>9. LostOnlyUntilShunted'
  BY <1>0, FileTypes DEF TypeOK, LostOnlyUntilShunted, StaysWithFiles, SentInOrder, OneConnection, Processes, Flags
<1> QED BY <1>1, <1>2, <1>3, <1>4, <1>5, <1>6, <1>7, <1>8, <1>9 DEF BaseInv

(* the files,                                                              *)
LEMMA StartFileBase ==
    ASSUME BaseInv, StartFile
    PROVE  BaseInv'
<1> USE RelayClientAssumption DEF Sockets, Messages, Files, StartFile, OpenStream, netVars, fileVars, restoreVars, sendVars
<1>0. TypeOK /\ OneConnection /\ FilesInTurn /\ ReadersApart /\ SentInOrder
      /\ RoomLeft /\ FileWithinLimit /\ StaysWithFiles /\ LostOnlyUntilShunted
  BY DEF BaseInv
<1>1. TypeOK'
  <2>1. file_output + 1 \in Files
    BY <1>0 DEF TypeOK
  <2>2. file' \in [Files -> FileStates]
    BY <1>0, <2>1, FileTypes DEF TypeOK
  <2>3. \A f \in Files : file'[f].flushed <= Len(file'[f].text)
    BY <1>0, <2>1, FileTypes DEF TypeOK
  <2>4. /\ starting' \in Nat /\ file_output' \in 0 .. MaxFiles /\ files_going' \in BOOLEAN
        /\ count' \in 0 .. WrapLimit
    BY <1>0 DEF TypeOK
  <2> QED BY <1>0, <2>2, <2>3, <2>4 DEF TypeOK
<1>2. OneConnection'
  BY <1>0, FileTypes DEF TypeOK, OneConnection, Processes, Flags
<1>3. FilesInTurn'
  BY <1>0, FileTypes DEF TypeOK, FilesInTurn
<1>4. ReadersApart'
  <2>1. file_output + 1 \in Files /\ file_output' = file_output + 1
    BY <1>0 DEF TypeOK
  <2>2. file'[file_output'].overlaps = \E r \in Sockets : restore[r] = "reading"
    BY <1>0, <2>1, FileTypes DEF TypeOK
  <2>3. UNCHANGED <<sock, writer, restore>>
    OBVIOUS
  <2>4. file_output' # 0
    BY <2>1
  <2> QED BY <1>0, <2>2, <2>3, <2>4 DEF ReadersApart
<1>5. SentInOrder'
  BY <1>0, FileTypes DEF TypeOK, SentInOrder
<1>6. RoomLeft'
  BY <1>0, FileTypes DEF TypeOK, RoomLeft, OneConnection
<1>7. FileWithinLimit'
  BY <1>0, FileTypes DEF TypeOK, FileWithinLimit, RoomLeft
<1>8. StaysWithFiles'
  BY <1>0, FileTypes DEF TypeOK, StaysWithFiles, ToFile, OneConnection, FilesInTurn, Processes, Flags
<1>9. LostOnlyUntilShunted'
  BY <1>0, FileTypes DEF TypeOK, LostOnlyUntilShunted, StaysWithFiles, SentInOrder, OneConnection, Processes, Flags
<1> QED BY <1>1, <1>2, <1>3, <1>4, <1>5, <1>6, <1>7, <1>8, <1>9 DEF BaseInv

LEMMA OpenedBase ==
    ASSUME BaseInv, NEW f \in Files, Opened(f)
    PROVE  BaseInv'
<1> USE RelayClientAssumption DEF Sockets, Messages, Files, Opened, netVars, fileVars, restoreVars, sendVars
<1>0. TypeOK /\ OneConnection /\ FilesInTurn /\ ReadersApart /\ SentInOrder
      /\ RoomLeft /\ FileWithinLimit /\ StaysWithFiles /\ LostOnlyUntilShunted
  BY DEF BaseInv
<1>1. TypeOK'
  <2>1. /\ file' \in [Files -> FileStates]
        /\ \A e \in Files : file'[e].flushed = file[e].flushed /\ file'[e].text = file[e].text
    <3>1. file \in [Files -> FileStates] /\ file' = [file EXCEPT ![f].state = "open"]
      BY <1>0 DEF TypeOK
    <3> QED BY ONLY <3>1, f \in Files DEF FileStates, Files
  <2> QED BY <1>0, <2>1 DEF TypeOK
<1>2. OneConnection'
  BY <1>0, FileTypes DEF TypeOK, OneConnection, Processes, Flags
<1>3. FilesInTurn'
  BY <1>0, FileTypes DEF TypeOK, FilesInTurn
<1>4. ReadersApart'
  BY SMTT(30), <1>0, FileTypes DEF TypeOK, ReadersApart, FilesInTurn, OneConnection
<1>5. SentInOrder'
  BY <1>0, FileTypes DEF TypeOK, SentInOrder
<1>6. RoomLeft'
  BY <1>0, FileTypes DEF TypeOK, RoomLeft, OneConnection
<1>7. FileWithinLimit'
  BY <1>0, FileTypes DEF TypeOK, FileWithinLimit, RoomLeft
<1>8. StaysWithFiles'
  BY <1>0, FileTypes DEF TypeOK, StaysWithFiles, ToFile, OneConnection, FilesInTurn, Processes, Flags
<1>9. LostOnlyUntilShunted'
  <2>1. UNCHANGED <<conf, fate, starting, files_going>>
    OBVIOUS
  <2> QED BY ONLY <1>0, <2>1 DEF LostOnlyUntilShunted, Messages
<1> QED BY <1>1, <1>2, <1>3, <1>4, <1>5, <1>6, <1>7, <1>8, <1>9 DEF BaseInv

LEMMA FlushBase ==
    ASSUME BaseInv, NEW f \in Files, Flush(f)
    PROVE  BaseInv'
<1> USE RelayClientAssumption DEF Sockets, Messages, Files, Flush, netVars, fileVars, restoreVars, sendVars
<1>0. TypeOK /\ OneConnection /\ FilesInTurn /\ ReadersApart /\ SentInOrder
      /\ RoomLeft /\ FileWithinLimit /\ StaysWithFiles /\ LostOnlyUntilShunted
  BY DEF BaseInv
<1>1. TypeOK'
  <2>1. Len(file[f].text) \in Nat
    BY SMTT(30), <1>0 DEF TypeOK, FileStates
  <2>2. /\ file' \in [Files -> FileStates]
        /\ \A e \in Files : e # f => file'[e] = file[e]
        /\ file'[f].text = file[f].text /\ file'[f].flushed = Len(file[f].text)
    <3> DEFINE n == Len(file[f].text)
    <3>1. file' = [file EXCEPT ![f].flushed = n] /\ n \in Nat /\ file \in [Files -> FileStates]
      BY <1>0, <2>1 DEF TypeOK
    <3> HIDE DEF n
    <3>2. /\ file' \in [Files -> FileStates]
          /\ \A e \in Files : e # f => file'[e] = file[e]
          /\ file'[f].text = file[f].text /\ file'[f].flushed = n
      BY ONLY <3>1, f \in Files DEF FileStates
    <3> QED BY <3>2 DEF n
  <2>3. \A e \in Files : file'[e].flushed <= Len(file'[e].text)
    BY <1>0, <2>1, <2>2 DEF TypeOK
  <2> QED BY <1>0, <2>2, <2>3 DEF TypeOK
<1>2. OneConnection'
  BY <1>0, FileTypes DEF TypeOK, OneConnection, Processes, Flags
<1>3. FilesInTurn'
  BY SMTT(30), <1>0, FileTypes DEF TypeOK, FilesInTurn
<1>4. ReadersApart'
  <2>1. \A e \in Files : file'[e].overlaps = file[e].overlaps
    BY <1>0 DEF TypeOK, FileStates
  <2>2. UNCHANGED <<sock, writer, file_output, files_going>>
    OBVIOUS
  <2>3. file_output # 0 => file_output \in Files
    BY <1>0 DEF TypeOK
  <2>4. UNCHANGED restore
    OBVIOUS
  <2> QED BY <1>0, <2>1, <2>2, <2>3, <2>4 DEF ReadersApart
<1>5. SentInOrder'
  BY <1>0, FileTypes DEF TypeOK, SentInOrder
<1>6. RoomLeft'
  BY <1>0, FileTypes DEF TypeOK, RoomLeft, OneConnection
<1>7. FileWithinLimit'
  BY <1>0, FileTypes DEF TypeOK, FileWithinLimit, RoomLeft
<1>8. StaysWithFiles'
  BY <1>0, FileTypes DEF TypeOK, StaysWithFiles, ToFile, OneConnection, FilesInTurn, Processes, Flags
<1>9. LostOnlyUntilShunted'
  <2>1. UNCHANGED <<conf, fate, starting, files_going>>
    OBVIOUS
  <2> QED BY ONLY <1>0, <2>1 DEF LostOnlyUntilShunted, Messages
<1> QED BY <1>1, <1>2, <1>3, <1>4, <1>5, <1>6, <1>7, <1>8, <1>9 DEF BaseInv

(* _shutdown_files_going,                                                  *)
LEMMA ReadFileBase ==
    ASSUME BaseInv, NEW s \in Sockets, ReadFile(s)
    PROVE  BaseInv'
<1> USE RelayClientAssumption DEF Sockets, Messages, Files, ReadFile, OnDisk, netVars, fileVars, restoreVars, sendVars
<1>0. TypeOK /\ OneConnection /\ FilesInTurn /\ ReadersApart /\ SentInOrder
      /\ RoomLeft /\ FileWithinLimit /\ StaysWithFiles /\ LostOnlyUntilShunted
  BY DEF BaseInv
<1>1. TypeOK'
  <2>1. file_output \in Files
    BY <1>0 DEF ReadersApart, TypeOK
  <2>2. /\ file[file_output].text \in Seq(Messages) /\ file[file_output].flushed \in Nat
        /\ file[file_output].flushed <= Len(file[file_output].text)
    BY <1>0, <2>1 DEF TypeOK, FileStates
  <2>3. SubSeq(file[file_output].text, 1, file[file_output].flushed) \in Seq(Messages)
    BY SMTT(30), <2>2
  <2>4. /\ decoded' \in [Sockets -> Seq(Messages)]
        /\ restore' \in [Sockets -> {"none", "reading", "read", "done"}]
    BY <1>0, <2>3 DEF TypeOK
  <2> QED BY <1>0, <2>4 DEF TypeOK
<1>2. OneConnection'
  BY <1>0, FileTypes DEF TypeOK, OneConnection, Processes, Flags
<1>3. FilesInTurn'
  BY <1>0, FileTypes DEF TypeOK, FilesInTurn
<1>4. ReadersApart'
  BY <1>0, FileTypes DEF TypeOK, ReadersApart, FilesInTurn, OneConnection
<1>5. SentInOrder'
  BY <1>0, FileTypes DEF TypeOK, SentInOrder
<1>6. RoomLeft'
  BY <1>0, FileTypes DEF TypeOK, RoomLeft, OneConnection
<1>7. FileWithinLimit'
  BY <1>0, FileTypes DEF TypeOK, FileWithinLimit, RoomLeft
<1>8. StaysWithFiles'
  BY <1>0, FileTypes DEF TypeOK, StaysWithFiles, ToFile, OneConnection, FilesInTurn, Processes, Flags
<1>9. LostOnlyUntilShunted'
  BY <1>0, FileTypes DEF TypeOK, LostOnlyUntilShunted, StaysWithFiles, SentInOrder, OneConnection, Processes, Flags
<1> QED BY <1>1, <1>2, <1>3, <1>4, <1>5, <1>6, <1>7, <1>8, <1>9 DEF BaseInv

LEMMA ReplayBase ==
    ASSUME BaseInv, NEW s \in Sockets, Replay(s)
    PROVE  BaseInv'
<1> USE RelayClientAssumption DEF Sockets, Messages, Files, Replay, ToFile, WriterUsable, netVars, fileVars, restoreVars, sendVars
<1>0. TypeOK /\ OneConnection /\ FilesInTurn /\ ReadersApart /\ SentInOrder
      /\ RoomLeft /\ FileWithinLimit /\ StaysWithFiles /\ LostOnlyUntilShunted
  BY DEF BaseInv
<1>1. TypeOK'
  <2>1. restore' \in [Sockets -> {"none", "reading", "read", "done"}]
    BY <1>0 DEF TypeOK
  <2>2. wire' \in Seq(Messages)
    <3>1. wire \in Seq(Messages) /\ decoded[s] \in Seq(Messages)
      BY <1>0 DEF TypeOK
    <3>2. wire \o decoded[s] \in Seq(Messages)
      BY <3>1, ConcatFacts
    <3>3. wire' \in {wire, wire \o decoded[s]}
      OBVIOUS
    <3> QED BY <3>1, <3>2, <3>3
  <2>3. /\ file' \in [Files -> FileStates]
        /\ \A f \in Files : file'[f].flushed <= Len(file'[f].text)
    <3>1. CASE ToFile
      BY <1>0, <3>1, ReplayToFile
    <3>2. CASE ~ToFile
      BY <1>0, <3>2 DEF TypeOK
    <3> QED BY <3>1, <3>2
  <2> QED BY <1>0, <2>1, <2>2, <2>3 DEF TypeOK
<1>2. OneConnection'
  BY <1>0, FileTypes DEF TypeOK, OneConnection, Processes, Flags
<1>3. FilesInTurn'
  <2>1. CASE ToFile
    <3>1. \A f \in Files : /\ file'[f].ended = file[f].ended
                           /\ f # file_output => file'[f] = file[f]
      BY <1>0, <2>1, ReplayToFile
    <3>2. UNCHANGED <<conf, file_output, files_going>>
      OBVIOUS
    <3>3. file_output \in Files
      BY <1>0, <2>1, ReplayToFile
    <3>4. \A f \in Files : f > file_output => f # file_output
      BY <3>3
    <3> QED BY <1>0, <3>1, <3>2, <3>3, <3>4 DEF FilesInTurn, NoFile
  <2>2. CASE ~ToFile
    BY <1>0, <2>2 DEF FilesInTurn
  <2> QED BY <2>1, <2>2
<1>4. ReadersApart'
  <2>1. \A e \in Files : file'[e].overlaps = file[e].overlaps
    <3>1. CASE ToFile
      BY <1>0, <3>1, ReplayToFile
    <3>2. CASE ~ToFile
      BY <3>2
    <3> QED BY <3>1, <3>2
  <2>2. UNCHANGED <<sock, writer, file_output, files_going>>
    OBVIOUS
  <2>3. file_output # 0 => file_output \in Files
    BY <1>0 DEF TypeOK
  <2>4. \A r \in Sockets : (restore'[r] = "reading" <=> restore[r] = "reading")
                            /\ (restore'[r] # "none" => restore[r] # "none")
    BY <1>0 DEF TypeOK
  <2> QED BY <1>0, <2>1, <2>2, <2>3, <2>4 DEF ReadersApart
<1>5. SentInOrder'
  BY <1>0, FileTypes DEF TypeOK, SentInOrder
<1>6. RoomLeft'
  BY <1>0, FileTypes DEF TypeOK, RoomLeft, OneConnection
<1>7. FileWithinLimit'
  <2>1. ~conf.files_only
    BY <1>0 DEF OneConnection
  <2> QED BY <2>1 DEF FileWithinLimit
<1>8. StaysWithFiles'
  BY <1>0, FileTypes DEF TypeOK, StaysWithFiles, OneConnection, FilesInTurn, Processes, Flags
<1>9. LostOnlyUntilShunted'
  BY <1>0, FileTypes DEF TypeOK, LostOnlyUntilShunted, StaysWithFiles, SentInOrder, OneConnection, Processes, Flags
<1> QED BY <1>1, <1>2, <1>3, <1>4, <1>5, <1>6, <1>7, <1>8, <1>9 DEF BaseInv

(* Messages are sent in the order of their calls.                          *)
LEMMA NextIsSent ==
    ASSUME TypeOK, SentInOrder, NEW m \in Messages, \A n \in 1 .. m - 1 : fate[n] # "unsent",
           NEW x, x # "unsent", fate' = [fate EXCEPT ![m] = x]
    PROVE  SentInOrder'
<1>1. fate \in [Messages -> {"unsent", "filed", "written", "nowhere", "thrown"}]
  BY DEF TypeOK
<1>2. fate'[m] # "unsent" /\ \A n \in Messages : n # m => fate'[n] = fate[n]
  BY <1>1
<1>3. \A k \in Messages : \A n \in 1 .. k - 1 : n \in Messages
  BY RelayClientAssumption DEF Messages
<1>4. ASSUME NEW k \in Messages, fate'[k] # "unsent", NEW n \in 1 .. k - 1
      PROVE  fate'[n] # "unsent"
  <2>1. CASE n = m
    BY <1>2, <2>1
  <2>2. CASE n # m
    <3>1. CASE k = m
      BY <1>2, <1>3, <1>4, <2>2, <3>1
    <3>2. CASE k # m
      BY <1>2, <1>3, <1>4, <2>2, <3>2 DEF SentInOrder
    <3> QED BY <3>1, <3>2
  <2> QED BY <2>1, <2>2
<1> QED BY <1>4 DEF SentInOrder

(* Nothing after the next message is sent yet.                             *)
LEMMA NextIsLast ==
    ASSUME TypeOK, SentInOrder, NEW m \in Messages, fate[m] = "unsent"
    PROVE  \A n \in m .. MaxMessages : n \in Messages /\ (n # m => fate[n] = "unsent")
<1> SUFFICES ASSUME NEW n \in m .. MaxMessages
             PROVE  n \in Messages /\ (n # m => fate[n] = "unsent")
  OBVIOUS
<1>1. n \in Messages /\ (n # m => m \in 1 .. n - 1)
  BY RelayClientAssumption DEF Messages
<1> QED BY <1>1 DEF SentInOrder

(* and sendMessage, of the first message that is not sent yet.             *)
LEMMA PutInFileBase ==
    ASSUME BaseInv, NEW m \in Messages, fate[m] = "unsent", \A n \in 1 .. m - 1 : fate[n] # "unsent",
           PutInFile(m),
           UNCHANGED <<conf, netVars, restoreVars>>
    PROVE  BaseInv'
<1> USE RelayClientAssumption DEF Sockets, Messages, Files, PutInFile, ToFile, Wraps, AddTo, WriterUsable, ErrorStarts, netVars, fileVars, restoreVars, sendVars
<1>0. TypeOK /\ OneConnection /\ FilesInTurn /\ ReadersApart /\ SentInOrder
      /\ RoomLeft /\ FileWithinLimit /\ StaysWithFiles /\ LostOnlyUntilShunted
  BY DEF BaseInv
<1>1. TypeOK'
  <2>1. fate' \in [Messages -> {"unsent", "filed", "written", "nowhere", "thrown"}]
    BY <1>0 DEF TypeOK
  <2>2. count' \in 0 .. WrapLimit
    BY SMTT(30), <1>0 DEF TypeOK
  <2> QED BY <1>0, <2>1, <2>2, PutInFileDoes DEF TypeOK
<1>2. OneConnection'
  BY <1>0, FileTypes DEF TypeOK, OneConnection, Processes, Flags
<1>3. FilesInTurn'
  BY <1>0, FileTypes DEF TypeOK, FilesInTurn
<1>4. ReadersApart'
  BY <1>0, FileTypes DEF TypeOK, ReadersApart, FilesInTurn, OneConnection
<1>5. SentInOrder'
  BY <1>0, NextIsSent
<1>6. RoomLeft' /\ FileWithinLimit'
  <2> SUFFICES ASSUME conf.files_only
               PROVE  /\ count' < WrapLimit
                      /\ Len(file'[file_output].text) <= count' + 1
                      /\ \A f \in Files : Len(file'[f].text) <= WrapLimit
    BY DEF RoomLeft, FileWithinLimit
  <2> DEFINE F == file_output
             u == file[F].text
  <2>1. /\ F \in Files /\ F # 0 /\ \A f \in Files : f # F => file'[f] = file[f]
        /\ file'[F].text = Append(u, m)
    BY <1>0, PutInFileDoes
  <2>2. u \in Seq(Messages)
    BY <1>0, <2>1 DEF TypeOK, FileStates
  <2>3. Len(Append(u, m)) = Len(u) + 1 /\ Len(u) \in Nat
    BY ONLY <2>2, m \in Messages, SeqFacts
  <2>4. ~file[F].ended /\ count' = count + 1 /\ count + 1 < WrapLimit /\ count \in Nat
    BY SMTT(30), <1>0 DEF TypeOK
  <2>5. Len(u) <= count + 1
    BY <1>0, <2>1, <2>4 DEF RoomLeft
  <2>6. Len(file'[F].text) <= count' + 1 /\ Len(file'[F].text) <= WrapLimit
    BY ONLY <2>1, <2>3, <2>4, <2>5, WrapLimit \in Nat
  <2>7. \A f \in Files : Len(file'[f].text) <= WrapLimit
    BY <1>0, <2>1, <2>6 DEF FileWithinLimit
  <2> QED BY <2>4, <2>6, <2>7
<1>7. FileWithinLimit'
  BY <1>6
<1>8. StaysWithFiles'
  BY <1>0, FileTypes DEF TypeOK, StaysWithFiles, OneConnection, FilesInTurn, Processes, Flags
<1>9. LostOnlyUntilShunted'
  <2>1. /\ fate'[m] = "filed" /\ \A n \in Messages : n # m => fate'[n] = fate[n]
        /\ UNCHANGED <<starting, files_going, conf>>
    BY <1>0 DEF TypeOK
  <2>2. \A n \in m .. MaxMessages : n \in Messages /\ (n # m => fate[n] = "unsent")
    BY <1>0, NextIsLast
  <2>3. \A k \in Messages : \A n \in k .. MaxMessages : n \in Messages
    OBVIOUS
  <2> HIDE DEF PutInFile, Messages
  <2> QED BY <1>0, <2>1, <2>2, <2>3 DEF LostOnlyUntilShunted
<1> QED BY <1>1, <1>2, <1>3, <1>4, <1>5, <1>6, <1>7, <1>8, <1>9 DEF BaseInv

LEMMA PutInNextFileBase ==
    ASSUME BaseInv, NEW m \in Messages, fate[m] = "unsent", \A n \in 1 .. m - 1 : fate[n] # "unsent",
           PutInNextFile(m),
           UNCHANGED <<conf, netVars, restoreVars>>
    PROVE  BaseInv'
<1> USE RelayClientAssumption DEF Sockets, Messages, Files, PutInNextFile, ToFile, Wraps, AddTo, WriterUsable, ErrorStarts, netVars, fileVars, restoreVars, sendVars
<1>0. TypeOK /\ OneConnection /\ FilesInTurn /\ ReadersApart /\ SentInOrder
      /\ RoomLeft /\ FileWithinLimit /\ StaysWithFiles /\ LostOnlyUntilShunted
  BY DEF BaseInv
<1>1. TypeOK'
  <2>1. fate' \in [Messages -> {"unsent", "filed", "written", "nowhere", "thrown"}]
    BY <1>0 DEF TypeOK
  <2>2. count' \in 0 .. WrapLimit /\ file_output' \in 0 .. MaxFiles
    BY SMTT(30), <1>0, PutInNextFileDoes DEF TypeOK
  <2> QED BY <1>0, <2>1, <2>2, PutInNextFileDoes DEF TypeOK
<1>2. OneConnection'
  BY <1>0, FileTypes DEF TypeOK, OneConnection, Processes, Flags
<1>3. FilesInTurn'
  <2>1. file_output \in Files /\ file_output + 1 \in Files /\ file_output' = file_output + 1
    BY <1>0, PutInNextFileDoes
  <2>2. \A f \in Files : f > file_output' => f > file_output /\ f # file_output /\ f # file_output'
    BY <2>1
  <2>3. \A f \in Files : f > file_output' => file'[f] = file[f]
    BY <1>0, <2>2, PutInNextFileDoes
  <2>4. conf.files_only /\ conf' = conf /\ file_output' # 0
    BY <2>1
  <2> QED BY <1>0, <2>2, <2>3, <2>4 DEF FilesInTurn, NoFile
<1>4. ReadersApart'
  BY <1>0, FileTypes DEF TypeOK, ReadersApart, FilesInTurn, OneConnection
<1>5. SentInOrder'
  BY <1>0, NextIsSent
<1>6. RoomLeft'
  BY SMTT(30), <1>0, FileTypes DEF TypeOK, RoomLeft, OneConnection
<1>7. FileWithinLimit'
  <2>1. \A f \in Files : file'[f].text \in {file[f].text, <<m>>}
    BY <1>0, PutInNextFileDoes
  <2>2. Len(<<m>>) = 1
    OBVIOUS
  <2>3. \A f \in Files : Len(file[f].text) <= WrapLimit
    BY <1>0 DEF FileWithinLimit
  <2>4. \A f \in Files : Len(file'[f].text) <= WrapLimit
    <3>1. ASSUME NEW f \in Files
          PROVE  Len(file'[f].text) <= WrapLimit
      <4>1. CASE file'[f].text = <<m>>
        BY ONLY <2>2, <4>1, RelayClientAssumption
      <4>2. CASE file'[f].text = file[f].text
        BY ONLY <2>3, <4>2, f \in Files
      <4> QED BY <2>1, <4>1, <4>2
    <3> QED BY <3>1
  <2> QED BY <2>4 DEF FileWithinLimit
<1>8. StaysWithFiles'
  BY <1>0, FileTypes DEF TypeOK, StaysWithFiles, OneConnection, FilesInTurn, Processes, Flags
<1>9. LostOnlyUntilShunted'
  <2>1. /\ fate'[m] = "filed" /\ \A n \in Messages : n # m => fate'[n] = fate[n]
        /\ UNCHANGED <<starting, files_going, conf>>
    BY <1>0 DEF TypeOK
  <2>2. \A n \in m .. MaxMessages : n \in Messages /\ (n # m => fate[n] = "unsent")
    BY <1>0, NextIsLast
  <2>3. \A k \in Messages : \A n \in k .. MaxMessages : n \in Messages
    OBVIOUS
  <2> HIDE DEF PutInNextFile, Messages
  <2> QED BY <1>0, <2>1, <2>2, <2>3 DEF LostOnlyUntilShunted
<1> QED BY <1>1, <1>2, <1>3, <1>4, <1>5, <1>6, <1>7, <1>8, <1>9 DEF BaseInv

LEMMA RenameThrowsBase ==
    ASSUME BaseInv, NEW m \in Messages, fate[m] = "unsent", \A n \in 1 .. m - 1 : fate[n] # "unsent",
           RenameThrows(m),
           UNCHANGED <<conf, netVars, restoreVars>>
    PROVE  BaseInv'
<1> USE RelayClientAssumption DEF Sockets, Messages, Files, RenameThrows, ToFile, Wraps, AddTo, WriterUsable, ErrorStarts, netVars, fileVars, restoreVars, sendVars
<1>0. TypeOK /\ OneConnection /\ FilesInTurn /\ ReadersApart /\ SentInOrder
      /\ RoomLeft /\ FileWithinLimit /\ StaysWithFiles /\ LostOnlyUntilShunted
  BY DEF BaseInv
<1>1. TypeOK'
  <2>1. file_output \in Files
    BY SMTT(30), <1>0 DEF TypeOK
  <2>2. /\ file' \in [Files -> FileStates]
        /\ \A f \in Files : file'[f].flushed = file[f].flushed /\ file'[f].text = file[f].text
    BY <1>0, <2>1, EndedFile DEF TypeOK
  <2>5. fate' \in [Messages -> {"unsent", "filed", "written", "nowhere", "thrown"}]
    BY <1>0 DEF TypeOK
  <2>6. count' \in 0 .. WrapLimit
    BY <1>0 DEF TypeOK
  <2> QED BY <1>0, <2>2, <2>5, <2>6 DEF TypeOK
<1>2. OneConnection'
  BY <1>0, FileTypes DEF TypeOK, OneConnection, Processes, Flags
<1>3. FilesInTurn'
  BY <1>0, FileTypes DEF TypeOK, FilesInTurn
<1>4. ReadersApart'
  BY <1>0, FileTypes DEF TypeOK, ReadersApart, FilesInTurn, OneConnection
<1>5. SentInOrder'
  BY <1>0, NextIsSent
<1>6. RoomLeft'
  BY <1>0, FileTypes DEF TypeOK, RoomLeft, OneConnection
<1>7. FileWithinLimit'
  BY <1>0, FileTypes DEF TypeOK, FileWithinLimit, RoomLeft
<1>8. StaysWithFiles'
  BY <1>0, FileTypes DEF TypeOK, StaysWithFiles, OneConnection, FilesInTurn, Processes, Flags
<1>9. LostOnlyUntilShunted'
  <2>1. /\ fate'[m] = "thrown" /\ \A n \in Messages : n # m => fate'[n] = fate[n]
        /\ UNCHANGED <<starting, files_going, conf>> /\ conf.files_only
    BY <1>0 DEF TypeOK
  <2>2. \A n \in m .. MaxMessages : n \in Messages /\ (n # m => fate[n] = "unsent")
    BY <1>0, NextIsLast
  <2>3. \A k \in Messages : \A n \in k .. MaxMessages : n \in Messages
    OBVIOUS
  <2> HIDE DEF RenameThrows, Messages
  <2> QED BY <1>0, <2>1, <2>2, <2>3 DEF LostOnlyUntilShunted
<1> QED BY <1>1, <1>2, <1>3, <1>4, <1>5, <1>6, <1>7, <1>8, <1>9 DEF BaseInv

LEMMA WriteAfterEndBase ==
    ASSUME BaseInv, NEW m \in Messages, fate[m] = "unsent", \A n \in 1 .. m - 1 : fate[n] # "unsent",
           WriteAfterEnd(m),
           UNCHANGED <<conf, netVars, restoreVars>>
    PROVE  BaseInv'
<1> USE RelayClientAssumption DEF Sockets, Messages, Files, WriteAfterEnd, ToFile, Wraps, AddTo, WriterUsable, ErrorStarts, netVars, fileVars, restoreVars, sendVars
<1>0. TypeOK /\ OneConnection /\ FilesInTurn /\ ReadersApart /\ SentInOrder
      /\ RoomLeft /\ FileWithinLimit /\ StaysWithFiles /\ LostOnlyUntilShunted
  BY DEF BaseInv
<1>1. TypeOK'
  BY <1>0, FileTypes DEF TypeOK, FileStates
<1>2. OneConnection'
  BY <1>0, FileTypes DEF TypeOK, OneConnection, Processes, Flags
<1>3. FilesInTurn'
  BY <1>0, FileTypes DEF TypeOK, FilesInTurn
<1>4. ReadersApart'
  BY <1>0, FileTypes DEF TypeOK, ReadersApart, FilesInTurn, OneConnection
<1>5. SentInOrder'
  BY <1>0, NextIsSent
<1>6. RoomLeft'
  BY <1>0, FileTypes DEF TypeOK, RoomLeft, OneConnection
<1>7. FileWithinLimit'
  BY <1>0, FileTypes DEF TypeOK, FileWithinLimit, RoomLeft
<1>8. StaysWithFiles'
  BY <1>0, FileTypes DEF TypeOK, StaysWithFiles, OneConnection, FilesInTurn, Processes, Flags
<1>9. LostOnlyUntilShunted'
  <2>1. conf.files_only
    BY <1>0 DEF FilesInTurn
  <2>2. fate' = [fate EXCEPT ![m] = "thrown"] /\ UNCHANGED <<conf, starting, files_going>>
    OBVIOUS
  <2>9. ASSUME conf.transport # "tcp", conf.file_shunting, ~conf.attempt_reconnect,
               NEW k \in Messages
        PROVE  /\ fate'[k] = "nowhere" /\ conf.transport \in Processes =>
                      starting' > 0 \/ files_going'
               /\ fate'[k] = "filed" => \A n \in k .. MaxMessages :
                      \/ fate'[n] \in {"unsent", "filed"}
                      \/ conf.files_only /\ fate'[n] = "thrown"
    <3>1. /\ fate[k] = "nowhere" /\ conf.transport \in Processes =>
                starting > 0 \/ files_going
          /\ fate[k] = "filed" => \A n \in k .. MaxMessages :
                \/ fate[n] \in {"unsent", "filed"}
                \/ conf.files_only /\ fate[n] = "thrown"
      BY <1>0, <2>9 DEF LostOnlyUntilShunted
    <3> QED BY <1>0, <2>1, <2>2, <3>1 DEF TypeOK
  <2> QED BY <2>2, <2>9 DEF LostOnlyUntilShunted
<1> QED BY <1>1, <1>2, <1>3, <1>4, <1>5, <1>6, <1>7, <1>8, <1>9 DEF BaseInv

LEMMA WriteBase ==
    ASSUME BaseInv, NEW m \in Messages, fate[m] = "unsent", \A n \in 1 .. m - 1 : fate[n] # "unsent",
           Write(m),
           UNCHANGED <<conf, netVars, restoreVars>>
    PROVE  BaseInv'
<1> USE RelayClientAssumption DEF Sockets, Messages, Files, Write, ToFile, Wraps, AddTo, WriterUsable, ErrorStarts, netVars, fileVars, restoreVars, sendVars
<1>0. TypeOK /\ OneConnection /\ FilesInTurn /\ ReadersApart /\ SentInOrder
      /\ RoomLeft /\ FileWithinLimit /\ StaysWithFiles /\ LostOnlyUntilShunted
  BY DEF BaseInv
<1>1. TypeOK'
  <2>1. wire' \in Seq(Messages)
    <3>1. wire' \in {wire, Append(wire, m)}
      OBVIOUS
    <3>2. wire \in Seq(Messages)
      BY <1>0 DEF TypeOK
    <3>3. Append(wire, m) \in Seq(Messages)
      BY <3>2, SeqFacts
    <3> QED BY <3>1, <3>2, <3>3
  <2>2. fate' \in [Messages -> {"unsent", "filed", "written", "nowhere", "thrown"}]
    <3>1. fate \in [Messages -> {"unsent", "filed", "written", "nowhere", "thrown"}]
      BY <1>0 DEF TypeOK
    <3>2. CASE fate' = [fate EXCEPT ![m] = "written"]
      BY ONLY <3>1, <3>2
    <3>3. CASE fate' = [fate EXCEPT ![m] = "nowhere"]
      BY ONLY <3>1, <3>3
    <3> QED BY <3>2, <3>3
  <2>3. starting' \in Nat
    BY SMTT(30), <1>0, ErrorStartsNat DEF TypeOK
  <2> QED BY <1>0, <2>1, <2>2, <2>3 DEF TypeOK
<1>2. OneConnection'
  BY <1>0, FileTypes DEF TypeOK, OneConnection, Processes, Flags
<1>3. FilesInTurn'
  BY <1>0, FileTypes DEF TypeOK, FilesInTurn
<1>4. ReadersApart'
  BY <1>0, FileTypes DEF TypeOK, ReadersApart, FilesInTurn, OneConnection
<1>5. SentInOrder'
  <2>1. \A n \in Messages : n # m => fate'[n] = fate[n]
    BY <1>0 DEF TypeOK
  <2>2. fate'[m] # "unsent"
    BY <1>0 DEF TypeOK
  <2> QED BY <1>0, <2>1, <2>2 DEF SentInOrder
<1>6. RoomLeft'
  BY <1>0, FileTypes DEF TypeOK, RoomLeft, OneConnection
<1>7. FileWithinLimit'
  BY <1>0, FileTypes DEF TypeOK, FileWithinLimit, RoomLeft
<1>8. StaysWithFiles'
  BY SMTT(30), <1>0, FileTypes DEF TypeOK, StaysWithFiles, OneConnection, FilesInTurn, Processes, Flags
<1>9. LostOnlyUntilShunted'
  <2>1. /\ fate'[m] \in {"written", "nowhere"} /\ UNCHANGED <<conf, files_going>>
        /\ \A n \in Messages : n # m => fate'[n] = fate[n]
    BY <1>0 DEF TypeOK
  <2>2. starting' \in Nat /\ starting' >= starting
    BY <1>0, ErrorStartsNat DEF TypeOK
  <2>9. ASSUME conf.transport # "tcp", conf.file_shunting, ~conf.attempt_reconnect,
               NEW k \in Messages
        PROVE  /\ fate'[k] = "nowhere" /\ conf.transport \in Processes =>
                      starting' > 0 \/ files_going'
               /\ fate'[k] = "filed" => \A n \in k .. MaxMessages :
                      \/ fate'[n] \in {"unsent", "filed"}
                      \/ conf.files_only /\ fate'[n] = "thrown"
    <3>1. /\ fate[k] = "nowhere" /\ conf.transport \in Processes =>
                starting > 0 \/ files_going
          /\ fate[k] = "filed" => \A n \in k .. MaxMessages :
                \/ fate[n] \in {"unsent", "filed"}
                \/ conf.files_only /\ fate[n] = "thrown"
      BY <1>0, <2>9 DEF LostOnlyUntilShunted
    <3>2. fate[k] # "filed"
      BY <1>0, <2>9 DEF StaysWithFiles
    <3>3. ASSUME k = m, fate'[m] = "nowhere", conf.transport \in Processes
          PROVE  starting' > 0 \/ files_going'
      <4>1. CASE conf.files_only
        BY <1>0, <2>1, <4>1 DEF OneConnection
      <4>2. CASE ~conf.files_only
        <5>1. writer = 1 /\ 1 \in Sockets
          BY <1>0, <3>3, <4>2 DEF OneConnection
        <5>2. ~WriterUsable
          BY <1>0, <3>3 DEF TypeOK
        <5>3. sock[1] # "none" /\ handlers[1] > 0
          BY <1>0, <5>1 DEF OneConnection
        <5>4. ErrorStarts(1) > 0
          BY <2>9, <5>3
        <5> QED BY <1>0, <3>3, <5>1, <5>2, <5>4, ErrorStartsNat DEF TypeOK
      <4> QED BY <4>1, <4>2
    <3> QED BY <1>0, <2>1, <2>2, <3>1, <3>2, <3>3 DEF TypeOK
  <2> QED BY <2>1, <2>9 DEF LostOnlyUntilShunted
<1> QED BY <1>1, <1>2, <1>3, <1>4, <1>5, <1>6, <1>7, <1>8, <1>9 DEF BaseInv
-----------------------------------------------------------------------------
(* Where a message may still be on its way to a server: box 0 is the wire, *)
(* box s what the reader of socket s has decoded and not sent, and the     *)
(* last one the file that is written to or is to be read.                  *)
TheFile == MaxSockets + 1
Boxes == 0 .. TheFile

InUse == files_going \/ \E s \in Sockets : restore[s] = "reading"

InBox(b) ==
    IF b = 0 THEN wire
    ELSE IF b = TheFile
         THEN IF file_output # 0 /\ InUse THEN file[file_output].text ELSE <<>>
         ELSE IF restore[b] = "read" THEN decoded[b] ELSE <<>>

Held == [b \in Boxes |-> InBox(b)]
Texts == [f \in Files |-> file[f].text]
Twice == {m \in Messages : Doubled(m)}

(* A message is in one place of one box, unless it is in D.                *)
HeldOnce(H, D) ==
    \A b, c \in Boxes : \A i \in DOMAIN H[b], j \in DOMAIN H[c] :
        H[b][i] = H[c][j] /\ H[b][i] \notin D => b = c /\ i = j

(* Wherever a message is, those that were filed before it come before it.  *)
HeldInOrder(H, T, D) ==
    \A f \in Files : \A i, j \in DOMAIN T[f] :
        i < j /\ T[f][i] \notin D /\ T[f][j] \notin D =>
            \A b \in Boxes : \A l \in DOMAIN H[b] : H[b][l] = T[f][j] =>
                \E k \in DOMAIN H[b] : k < l /\ H[b][k] = T[f][i]

(* HeldOnce and HeldInOrder, at given places.                              *)
LEMMA OnceAt ==
    ASSUME NEW H, NEW D, HeldOnce(H, D), NEW b \in Boxes, NEW c \in Boxes,
           NEW i \in DOMAIN H[b], NEW j \in DOMAIN H[c], H[b][i] = H[c][j], H[b][i] \notin D
    PROVE  b = c /\ i = j
BY DEF HeldOnce

LEMMA InOrderAt ==
    ASSUME NEW H, NEW T, NEW D, HeldInOrder(H, T, D), NEW f \in Files,
           NEW i \in DOMAIN T[f], NEW j \in DOMAIN T[f], i < j,
           T[f][i] \notin D, T[f][j] \notin D,
           NEW b \in Boxes, NEW l \in DOMAIN H[b], H[b][l] = T[f][j]
    PROVE  \E k \in DOMAIN H[b] : k < l /\ H[b][k] = T[f][i]
BY DEF HeldInOrder

(* Boxes that are emptied break neither.                                   *)
LEMMA BoxesEmptied ==
    ASSUME NEW H \in [Boxes -> Seq(Messages)], NEW K \in [Boxes -> Seq(Messages)],
           NEW T \in [Files -> Seq(Messages)],
           NEW D \in SUBSET Messages, NEW E \in SUBSET Messages, D \subseteq E,
           \A b \in Boxes : K[b] = H[b] \/ K[b] = <<>>,
           HeldOnce(H, D), HeldInOrder(H, T, D)
    PROVE  HeldOnce(K, E) /\ HeldInOrder(K, T, E)
<1>1. \A b \in Boxes : \A i \in DOMAIN K[b] : K[b] = H[b]
  OBVIOUS
<1>2. HeldOnce(K, E)
  BY <1>1 DEF HeldOnce
<1>3. HeldInOrder(K, T, E)
  BY <1>1 DEF HeldInOrder
<1> QED BY <1>2, <1>3

(* A message that is nowhere yet is put in a box, or in the file F.        *)
Adds(H, K, T, U, m, a, F) ==
    /\ \A b \in Boxes : \A i \in DOMAIN H[b] : H[b][i] # m
    /\ \A f \in Files : \A i \in DOMAIN T[f] : T[f][i] # m
    /\ K[a] = Append(H[a], m)
    /\ \A b \in Boxes : b # a => K[b] = H[b]
    /\ \A f \in Files : f # F => U[f] = T[f]
    /\ U[F] = T[F] \/ U[F] = K[a]

LEMMA MessageAdded ==
    ASSUME NEW H \in [Boxes -> Seq(Messages)], NEW K \in [Boxes -> Seq(Messages)],
           NEW T \in [Files -> Seq(Messages)], NEW U \in [Files -> Seq(Messages)],
           NEW D \in SUBSET Messages, NEW E \in SUBSET Messages, D \subseteq E,
           NEW m \in Messages, NEW a \in Boxes, NEW F \in Files,
           Adds(H, K, T, U, m, a, F),
           HeldOnce(H, D), HeldInOrder(H, T, D)
    PROVE  HeldOnce(K, E) /\ HeldInOrder(K, U, E)
<1> USE DEF Adds
<1>1. /\ \A i \in DOMAIN K[a] : \/ i \in DOMAIN H[a] /\ K[a][i] = H[a][i]
                                \/ i = Len(H[a]) + 1 /\ K[a][i] = m
      /\ DOMAIN H[a] \subseteq DOMAIN K[a] /\ \A i \in DOMAIN H[a] : K[a][i] = H[a][i]
  OBVIOUS
<1>2. \A b \in Boxes : \A i \in DOMAIN K[b] :
         \/ i \in DOMAIN H[b] /\ K[b][i] = H[b][i]
         \/ b = a /\ i = Len(H[a]) + 1 /\ K[b][i] = m
  BY <1>1
<1>3. HeldOnce(K, E)
  BY <1>2 DEF HeldOnce
<1>4. ASSUME NEW f \in Files, NEW i \in DOMAIN U[f], NEW j \in DOMAIN U[f], i < j,
             U[f][i] \notin E, U[f][j] \notin E,
             NEW b \in Boxes, NEW l \in DOMAIN K[b], K[b][l] = U[f][j]
      PROVE  \E k \in DOMAIN K[b] : k < l /\ K[b][k] = U[f][i]
  <2>1. CASE U[f] = K[a]
    <3>1. i \in DOMAIN K[a] /\ j \in DOMAIN K[a] /\ K[b][l] = K[a][j] /\ K[b][l] \notin E
      BY <1>4, <2>1
    <3>2. b = a /\ l = j
      BY ONLY <1>3, <3>1, a \in Boxes, b \in Boxes, l \in DOMAIN K[b], OnceAt
    <3> QED BY <1>4, <2>1, <3>1, <3>2
  <2>2. CASE U[f] = T[f]
    <3>1. l \in DOMAIN H[b] /\ K[b][l] = H[b][l]
      BY <1>2, <1>4, <2>2
    <3>4. /\ i \in DOMAIN T[f] /\ j \in DOMAIN T[f] /\ H[b][l] = T[f][j]
          /\ T[f][i] \notin D /\ T[f][j] \notin D
      BY <1>4, <2>2, <3>1
    <3>2. \E k \in DOMAIN H[b] : k < l /\ H[b][k] = T[f][i]
      BY ONLY <3>1, <3>4, i < j, f \in Files, b \in Boxes, HeldInOrder(H, T, D)
         DEF HeldInOrder
    <3>3. \A k \in DOMAIN H[b] : k \in DOMAIN K[b] /\ K[b][k] = H[b][k]
      BY <1>1
    <3> QED BY <2>2, <3>2, <3>3
  <2> QED BY <2>1, <2>2
<1> QED BY <1>3, <1>4 DEF HeldInOrder

(* What is in box s goes to another box, or to the file F.                 *)
Moves(H, K, T, U, s, a, F) ==
    /\ s # a
    /\ K[a] = H[a] \o H[s]
    /\ K[s] = <<>>
    /\ \A b \in Boxes : b # a /\ b # s => K[b] = H[b]
    /\ \A f \in Files : f # F => U[f] = T[f]
    /\ U[F] = T[F] \/ U[F] = K[a]

LEMMA BoxMoved ==
    ASSUME NEW H \in [Boxes -> Seq(Messages)], NEW K \in [Boxes -> Seq(Messages)],
           NEW T \in [Files -> Seq(Messages)], NEW U \in [Files -> Seq(Messages)],
           NEW D \in SUBSET Messages, NEW E \in SUBSET Messages, D \subseteq E,
           NEW s \in Boxes, NEW a \in Boxes, NEW F \in Files,
           Moves(H, K, T, U, s, a, F),
           HeldOnce(H, D), HeldInOrder(H, T, D)
    PROVE  HeldOnce(K, E) /\ HeldInOrder(K, U, E)
<1> USE DEF Moves
<1>1. H[a] \in Seq(Messages) /\ H[s] \in Seq(Messages) /\ Len(H[a]) \in Nat
  OBVIOUS
<1>2. /\ \A i \in DOMAIN H[a] : i \in DOMAIN K[a] /\ K[a][i] = H[a][i]
      /\ \A i \in DOMAIN H[s] : Len(H[a]) + i \in DOMAIN K[a] /\ K[a][Len(H[a]) + i] = H[s][i]
      /\ \A i \in DOMAIN K[a] : i \notin DOMAIN H[a] =>
            \E p \in DOMAIN H[s] : i = Len(H[a]) + p /\ K[a][i] = H[s][p]
  <2> DEFINE u == H[a]
             v == H[s]
             w == K[a]
  <2>1. u \in Seq(Messages) /\ v \in Seq(Messages) /\ w = u \o v
    BY <1>1 DEF Moves
  <2> HIDE DEF u, v, w
  <2>2. /\ \A i \in DOMAIN u : i \in DOMAIN w /\ w[i] = u[i]
        /\ \A i \in DOMAIN v : Len(u) + i \in DOMAIN w /\ w[Len(u) + i] = v[i]
    BY ONLY SMTT(30), <2>1
  <2>3. \A i \in DOMAIN w : i \notin DOMAIN u =>
           i - Len(u) \in DOMAIN v /\ i = Len(u) + (i - Len(u)) /\ w[i] = v[i - Len(u)]
    BY ONLY <2>1
  <2>4. \A i \in DOMAIN w : i \notin DOMAIN u => \E p \in DOMAIN v : i = Len(u) + p /\ w[i] = v[p]
    BY ONLY <2>3
  <2> QED BY <2>2, <2>4 DEF u, v, w
<1>3. \A b \in Boxes : \A i \in DOMAIN K[b] :
         \/ b # s /\ i \in DOMAIN H[b] /\ K[b][i] = H[b][i]
         \/ b = a /\ \E p \in DOMAIN H[s] : i = Len(H[a]) + p /\ K[b][i] = H[s][p]
  <2>1. DOMAIN K[s] = {}
    OBVIOUS
  <2> SUFFICES ASSUME NEW b \in Boxes, NEW i \in DOMAIN K[b]
               PROVE  \/ b # s /\ i \in DOMAIN H[b] /\ K[b][i] = H[b][i]
                      \/ b = a /\ \E p \in DOMAIN H[s] : i = Len(H[a]) + p /\ K[b][i] = H[s][p]
    OBVIOUS
  <2>2. CASE b = a
    BY <1>2, <2>2
  <2>3. CASE b # a
    BY <2>1, <2>3
  <2> QED BY <2>2, <2>3
<1> DEFINE From(b, i, d, p) ==
             /\ K[b][i] = H[d][p]
             /\ \/ d # s /\ d = b /\ p = i
                \/ d = s /\ b = a /\ i = Len(H[a]) + p
<1>4. \A b \in Boxes : \A i \in DOMAIN K[b] :
         \E d \in Boxes : \E p \in DOMAIN H[d] : From(b, i, d, p)
  <2> SUFFICES ASSUME NEW b \in Boxes, NEW i \in DOMAIN K[b]
               PROVE  \E d \in Boxes : \E p \in DOMAIN H[d] : From(b, i, d, p)
    OBVIOUS
  <2>1. CASE b # s /\ i \in DOMAIN H[b] /\ K[b][i] = H[b][i]
    <3>1. From(b, i, b, i)
      BY <2>1
    <3> HIDE DEF From
    <3> QED BY <2>1, <3>1
  <2>2. CASE b = a /\ \E p \in DOMAIN H[s] : i = Len(H[a]) + p /\ K[b][i] = H[s][p]
    <3>1. PICK p \in DOMAIN H[s] : From(b, i, s, p)
      BY <2>2
    <3> HIDE DEF From
    <3> QED BY <3>1
  <2> QED BY <1>3, <2>1, <2>2
<1>5. HeldOnce(K, E)
  <2>1. ASSUME NEW b \in Boxes, NEW c \in Boxes, NEW i \in DOMAIN K[b], NEW j \in DOMAIN K[c],
               K[b][i] = K[c][j], K[b][i] \notin E
        PROVE  b = c /\ i = j
    <3>1. PICK d \in Boxes : \E p \in DOMAIN H[d] : From(b, i, d, p)
      BY <2>1, <1>4
    <3>2. PICK p \in DOMAIN H[d] : From(b, i, d, p)
      BY <3>1
    <3>3. PICK e \in Boxes : \E q \in DOMAIN H[e] : From(c, j, e, q)
      BY <2>1, <1>4
    <3>4. PICK q \in DOMAIN H[e] : From(c, j, e, q)
      BY <3>3
    <3>5. H[d][p] = H[e][q] /\ H[d][p] \notin D
      BY <2>1, <3>2, <3>4
    <3>6. d = e /\ p = q
      BY ONLY SMTT(30), <3>5, d \in Boxes, e \in Boxes, p \in DOMAIN H[d], q \in DOMAIN H[e],
              HeldOnce(H, D), OnceAt
    <3> QED BY ONLY <3>2, <3>4, <3>6
  <2> QED BY <2>1 DEF HeldOnce
<1>6. ASSUME NEW f \in Files, NEW i \in DOMAIN U[f], NEW j \in DOMAIN U[f], i < j,
             U[f][i] \notin E, U[f][j] \notin E,
             NEW b \in Boxes, NEW l \in DOMAIN K[b], K[b][l] = U[f][j]
      PROVE  \E k \in DOMAIN K[b] : k < l /\ K[b][k] = U[f][i]
  <2>1. CASE U[f] = K[a]
    <3>1. i \in DOMAIN K[a] /\ j \in DOMAIN K[a] /\ K[b][l] = K[a][j] /\ K[b][l] \notin E
      BY <1>6, <2>1
    <3>2. b = a /\ l = j
      BY ONLY <1>5, <3>1, a \in Boxes, b \in Boxes, l \in DOMAIN K[b], OnceAt
    <3> QED BY <1>6, <2>1, <3>1, <3>2
  <2>2. CASE U[f] = T[f]
    <3>0. PICK d \in Boxes : \E p \in DOMAIN H[d] : From(b, l, d, p)
      BY <1>4, <1>6
    <3>1. PICK p \in DOMAIN H[d] : From(b, l, d, p)
      BY <3>0
    <3>2. /\ i \in DOMAIN T[f] /\ j \in DOMAIN T[f] /\ H[d][p] = T[f][j]
          /\ T[f][i] \notin D /\ T[f][j] \notin D
      BY <1>6, <2>2, <3>1
    <3>3. PICK k \in DOMAIN H[d] : k < p /\ H[d][k] = T[f][i]
      BY ONLY SMTT(30), <3>2, i < j, f \in Files, d \in Boxes, p \in DOMAIN H[d],
              HeldInOrder(H, T, D) DEF HeldInOrder
    <3>4. k \in Nat /\ p \in Nat
      <4>1. H[d] \in Seq(Messages)
        OBVIOUS
      <4>2. DOMAIN H[d] = 1 .. Len(H[d]) /\ Len(H[d]) \in Nat
        BY ONLY <4>1
      <4> QED BY ONLY SMTT(30), <4>2, k \in DOMAIN H[d], p \in DOMAIN H[d]
    <3>5. CASE d = s /\ b = a /\ l = Len(H[a]) + p
      <4>1. Len(H[a]) + k \in DOMAIN K[b] /\ K[b][Len(H[a]) + k] = H[d][k]
        BY <1>2, <3>5
      <4>2. Len(H[a]) + k < l
        BY <1>1, <3>3, <3>4, <3>5
      <4> QED BY <2>2, <3>3, <4>1, <4>2
    <3>6. CASE d # s /\ d = b /\ p = l
      <4>1. \A q \in DOMAIN H[b] : q \in DOMAIN K[b] /\ K[b][q] = H[b][q]
        BY <1>2, <3>6
      <4> QED BY <2>2, <3>3, <3>6, <4>1
    <3> QED BY <3>1, <3>5, <3>6
  <2> QED BY <2>1, <2>2
<1> QED BY <1>5, <1>6 DEF HeldInOrder

(* Box s is filled with the first n messages of box a, where only messages *)
(* in D stay.                                                              *)
Reads(H, K, D, s, a, n) ==
    /\ s # a
    /\ n <= Len(H[a])
    /\ K[s] = SubSeq(H[a], 1, n)
    /\ \A i \in DOMAIN K[a] : K[a][i] \in D
    /\ \A b \in Boxes : b # a /\ b # s => K[b] = H[b]

LEMMA BoxRead ==
    ASSUME NEW H \in [Boxes -> Seq(Messages)], NEW K \in [Boxes -> Seq(Messages)],
           NEW T \in [Files -> Seq(Messages)], NEW D \in SUBSET Messages,
           NEW s \in Boxes, NEW a \in Boxes, NEW n \in Nat, Reads(H, K, D, s, a, n),
           HeldOnce(H, D), HeldInOrder(H, T, D)
    PROVE  HeldOnce(K, D) /\ HeldInOrder(K, T, D)
<1> USE DEF Reads
<1>1. /\ DOMAIN K[s] = 1 .. n
      /\ \A i \in 1 .. n : i \in DOMAIN H[a] /\ K[s][i] = H[a][i]
  OBVIOUS
<1>2. \A b \in Boxes : \A i \in DOMAIN K[b] : K[b][i] \notin D =>
         \/ b = s /\ i \in DOMAIN H[a] /\ K[b][i] = H[a][i]
         \/ b # s /\ b # a /\ i \in DOMAIN H[b] /\ K[b][i] = H[b][i]
  BY <1>1
<1>3. HeldOnce(K, D)
  <2>1. ASSUME NEW b \in Boxes, NEW c \in Boxes, NEW i \in DOMAIN K[b], NEW j \in DOMAIN K[c],
               K[b][i] = K[c][j], K[b][i] \notin D
        PROVE  b = c /\ i = j
    <3>1. PICK p \in Boxes : /\ i \in DOMAIN H[p] /\ K[b][i] = H[p][i]
                             /\ \/ b = s /\ p = a
                                \/ b # s /\ b # a /\ p = b
      BY <1>2, <2>1
    <3>2. PICK q \in Boxes : /\ j \in DOMAIN H[q] /\ K[c][j] = H[q][j]
                             /\ \/ c = s /\ q = a
                                \/ c # s /\ c # a /\ q = c
      BY <1>2, <2>1
    <3>3. H[p][i] = H[q][j] /\ H[p][i] \notin D
      BY <2>1, <3>1, <3>2
    <3>4. p = q /\ i = j
      BY ONLY <3>1, <3>2, <3>3, HeldOnce(H, D), OnceAt
    <3> QED BY <3>1, <3>2, <3>4
  <2> QED BY <2>1 DEF HeldOnce
<1>4. ASSUME NEW f \in Files, NEW i \in DOMAIN T[f], NEW j \in DOMAIN T[f], i < j,
             T[f][i] \notin D, T[f][j] \notin D,
             NEW b \in Boxes, NEW l \in DOMAIN K[b], K[b][l] = T[f][j]
      PROVE  \E k \in DOMAIN K[b] : k < l /\ K[b][k] = T[f][i]
  <2>1. T[f][i] \notin D /\ T[f][j] \notin D
    BY <1>4
  <2>2. CASE b = s
    <3>1. l \in 1 .. n /\ l \in DOMAIN H[a] /\ H[a][l] = T[f][j]
      BY <1>1, <1>4, <2>2
    <3>2. PICK k \in DOMAIN H[a] : k < l /\ H[a][k] = T[f][i]
      BY <1>4, <2>1, <3>1 DEF HeldInOrder
    <3>3. k \in 1 .. n
      BY <3>1, <3>2
    <3> QED BY <1>1, <2>2, <3>2, <3>3
  <2>3. CASE b # s
    <3>1. b # a /\ K[b] = H[b]
      BY <1>2, <1>4, <2>3
    <3> QED BY <1>4, <2>1, <3>1 DEF HeldInOrder
  <2> QED BY <2>2, <2>3
<1> QED BY <1>3, <1>4 DEF HeldInOrder

-----------------------------------------------------------------------------
(* A message that was not sent yet is nowhere, and what a reader has read  *)
(* is in a file.                                                           *)
UnsentNowhere ==
    \A m \in Messages : fate[m] = "unsent" =>
        /\ \A i \in DOMAIN wire : wire[i] # m
        /\ \A s \in Sockets : \A i \in DOMAIN decoded[s] : decoded[s][i] # m
        /\ \A f \in Files : \A i \in DOMAIN file[f].text : file[f].text[i] # m

DecodedFiled ==
    \A s \in Sockets : \A i \in DOMAIN decoded[s] :
        \E f \in Files : \E j \in DOMAIN file[f].text : file[f].text[j] = decoded[s][i]

ReplayInv ==
    /\ HeldOnce(Held, Twice)
    /\ HeldInOrder(Held, Texts, Twice)
    /\ UnsentNowhere
    /\ DecodedFiled
    /\ ReplayKeeps

IInv == BaseInv /\ ReplayInv

(* The wire, the readers and the file are different boxes.                 *)
LEMMA BoxFacts ==
    /\ \A b \in Boxes : b = 0 \/ b \in Sockets \/ b = TheFile
    /\ 0 \in Boxes /\ TheFile \in Boxes /\ Sockets \subseteq Boxes
    /\ TheFile # 0 /\ TheFile \notin Sockets /\ 0 \notin Sockets
BY RelayClientAssumption DEF Boxes, TheFile, Sockets

HeldFacts ==
    /\ Held \in [Boxes -> Seq(Messages)]
    /\ Held[0] = wire
    /\ \A s \in Sockets : Held[s] = IF restore[s] = "read" THEN decoded[s] ELSE <<>>
    /\ Held[TheFile] = IF file_output # 0 /\ InUse THEN file[file_output].text ELSE <<>>

(* What is held is sequences of messages.                                  *)
LEMMA HeldNow == TypeOK => HeldFacts
<1> SUFFICES ASSUME TypeOK PROVE HeldFacts
  OBVIOUS
<1>1. /\ wire \in Seq(Messages) /\ decoded \in [Sockets -> Seq(Messages)]
      /\ <<>> \in Seq(Messages)
  BY DEF TypeOK
<1>2. file_output # 0 => file_output \in Files
  BY RelayClientAssumption DEF TypeOK, Files
<1>3. file_output # 0 => file[file_output].text \in Seq(Messages)
  BY <1>2 DEF TypeOK, FileStates
<1>4. \A b \in Boxes : InBox(b) \in Seq(Messages)
  BY <1>1, <1>3, BoxFacts DEF InBox
<1>5. Held \in [Boxes -> Seq(Messages)]
  BY <1>4 DEF Held
<1>6. \A b \in Boxes : Held[b] = InBox(b)
  BY DEF Held
<1> QED BY <1>5, <1>6, BoxFacts DEF InBox, HeldFacts

LEMMA HeldNext == TypeOK' => HeldFacts'
BY HeldNow, PTL

TextFacts ==
    /\ Texts \in [Files -> Seq(Messages)]
    /\ \A f \in Files : Texts[f] = file[f].text
    /\ Twice \in SUBSET Messages
    /\ \A m \in Messages : m \in Twice <=>
          \E f \in Files : /\ file[f].overlaps
                           /\ \E i \in DOMAIN file[f].text : file[f].text[i] = m

(* And so are the texts of the files.                                      *)
LEMMA TextNow == TypeOK => TextFacts
<1> SUFFICES ASSUME TypeOK PROVE TextFacts
  OBVIOUS
<1>1. \A f \in Files : file[f].text \in Seq(Messages)
  BY DEF TypeOK, FileStates
<1>2. Texts \in [Files -> Seq(Messages)] /\ \A f \in Files : Texts[f] = file[f].text
  BY <1>1 DEF Texts
<1>3. \A m \in Messages : m \in Twice <=> Doubled(m)
  BY DEF Twice
<1> QED BY <1>2, <1>3 DEF Twice, Doubled, OccursIn, Range, TextFacts

LEMMA TextNext == TypeOK' => TextFacts'
BY TextNow, PTL

LEMMA TypesOfParts ==
    ASSUME TypeOK
    PROVE  /\ wire \in Seq(Messages)
           /\ \A s \in Sockets : decoded[s] \in Seq(Messages)
           /\ \A f \in Files : file[f].text \in Seq(Messages)
           /\ restore \in [Sockets -> {"none", "reading", "read", "done"}]
           /\ fate \in [Messages -> {"unsent", "filed", "written", "nowhere", "thrown"}]
BY DEF TypeOK, FileStates

(* A message that was not sent is in no box and no file.                   *)
LEMMA UnsentNotHeld ==
    ASSUME TypeOK, UnsentNowhere, NEW m \in Messages, fate[m] = "unsent"
    PROVE  /\ \A b \in Boxes : \A i \in DOMAIN Held[b] : Held[b][i] # m
           /\ \A f \in Files : \A i \in DOMAIN Texts[f] : Texts[f][i] # m
<1>1. /\ \A i \in DOMAIN wire : wire[i] # m
      /\ \A s \in Sockets : \A i \in DOMAIN decoded[s] : decoded[s][i] # m
      /\ \A f \in Files : \A i \in DOMAIN file[f].text : file[f].text[i] # m
  BY DEF UnsentNowhere
<1>2. file_output # 0 => file_output \in Files
  BY RelayClientAssumption DEF TypeOK, Files
<1>3. DOMAIN <<>> = {}
  OBVIOUS
<1>4. ASSUME NEW b \in Boxes, NEW i \in DOMAIN Held[b]
      PROVE  Held[b][i] # m
  BY <1>1, <1>2, <1>3, BoxFacts, HeldNow DEF HeldFacts
<1> QED BY <1>1, <1>4, TextNow DEF TextFacts

(* The texts of files only grow.                                           *)
TextsGrow ==
    \A f \in Files : \A i \in DOMAIN file[f].text :
        /\ i \in DOMAIN file'[f].text
        /\ file'[f].text[i] = file[f].text[i]
        /\ file[f].overlaps => file'[f].overlaps

(* Texts that only grow keep what is doubled and what is filed twice.      *)
LEMMA Growing ==
    ASSUME TypeOK, TypeOK', TextsGrow
    PROVE  /\ Twice \subseteq Twice'
           /\ \A m \in Messages : FiledTwice(m) => FiledTwice(m)'
<1>1. Twice \subseteq Twice'
  <2> SUFFICES ASSUME NEW m \in Messages, m \in Twice
               PROVE  m \in Twice'
    BY TextNow DEF TextFacts
  <2>1. PICK f \in Files : file[f].overlaps /\ \E i \in DOMAIN file[f].text : file[f].text[i] = m
    BY TextNow DEF TextFacts
  <2>2. PICK i \in DOMAIN file[f].text : file[f].text[i] = m
    BY <2>1
  <2>3. file'[f].overlaps /\ i \in DOMAIN file'[f].text /\ file'[f].text[i] = m
    BY <2>1, <2>2 DEF TextsGrow
  <2> QED BY <2>3, TextNext DEF TextFacts
<1>2. ASSUME NEW m \in Messages, FiledTwice(m)
      PROVE  FiledTwice(m)'
  <2>1. PICK f \in Files, g \in Files :
           \E i \in DOMAIN file[f].text, j \in DOMAIN file[g].text :
              (f # g \/ i # j) /\ file[f].text[i] = m /\ file[g].text[j] = m
    BY <1>2 DEF FiledTwice
  <2>2. PICK i \in DOMAIN file[f].text, j \in DOMAIN file[g].text :
           (f # g \/ i # j) /\ file[f].text[i] = m /\ file[g].text[j] = m
    BY <2>1
  <2>3. /\ i \in DOMAIN file'[f].text /\ file'[f].text[i] = m
        /\ j \in DOMAIN file'[g].text /\ file'[g].text[j] = m
    BY <2>2 DEF TextsGrow
  <2> QED BY <2>2, <2>3 DEF FiledTwice
<1> QED BY <1>1, <1>2

(* What a socket has sent stays sent, filed or lost with its writer.       *)
LEMMA KeepsSent ==
    ASSUME TypeOK, TypeOK', ReadersApart, ReplayKeeps, TextsGrow,
           NEW s \in Sockets, restore[s] = "done", decoded'[s] = decoded[s],
           \A i \in DOMAIN wire : \E j \in DOMAIN wire' : wire'[j] = wire[i],
           writer # 0 /\ sock[writer] = "closed" => sock'[writer'] = "closed"
    PROVE  \A m \in Range(decoded'[s]) :
              \/ m \in Range(wire')
              \/ FiledTwice(m)'
              \/ sock'[writer'] = "closed"
<1> TAKE m \in Range(decoded'[s])
<1>1. m \in Range(decoded[s])
  OBVIOUS
<1>2. m \in Messages
  BY <1>1, TypesOfParts DEF Range
<1>3. m \in Range(wire) \/ FiledTwice(m) \/ sock[writer] = "closed"
  BY <1>1 DEF ReplayKeeps
<1>4. writer # 0
  BY DEF ReadersApart
<1>5. CASE m \in Range(wire)
  BY <1>5 DEF Range
<1>6. CASE FiledTwice(m)
  BY <1>2, <1>6, Growing
<1>7. CASE sock[writer] = "closed"
  BY <1>4, <1>7
<1> QED BY <1>3, <1>5, <1>6, <1>7

(* A step that reads, sends and files nothing.                             *)
LEMMA QuietStep ==
    ASSUME BaseInv, BaseInv', ReplayInv,
           UNCHANGED <<wire, decoded>>,
           \A m \in Messages : fate'[m] = "unsent" => fate[m] = "unsent",
           \A s \in Sockets : \/ restore'[s] = restore[s]
                              \/ restore[s] = "none" /\ restore'[s] = "reading",
           \A f \in Files : /\ file'[f].text = file[f].text
                            /\ file[f].text # <<>> => file'[f].overlaps = file[f].overlaps,
           file_output' # 0 /\ InUse' =>
              \/ file_output' = file_output /\ InUse
              \/ file'[file_output'].text = <<>>,
           writer # 0 /\ sock[writer] = "closed" => sock'[writer'] = "closed"
    PROVE  ReplayInv'
<1>0. TypeOK /\ TypeOK' /\ ReadersApart
  BY DEF BaseInv
<1>1. TextsGrow
  BY DOMAIN <<>> = {} DEF TextsGrow
<1>2. Texts' = Texts
  BY DEF Texts
<1>3. \A b \in Boxes : Held'[b] = Held[b] \/ Held'[b] = <<>>
  <2>1. Held'[0] = Held[0]
    BY <1>0, HeldNow, HeldNext DEF HeldFacts
  <2>2. \A s \in Sockets : Held'[s] = Held[s]
    BY <1>0, HeldNow, HeldNext DEF HeldFacts
  <2>3. Held'[TheFile] = Held[TheFile] \/ Held'[TheFile] = <<>>
    <3>1. file_output' # 0 => file_output' \in Files
      BY <1>0, RelayClientAssumption DEF TypeOK, Files
    <3>2. CASE file_output' # 0 /\ InUse'
      <4>1. Held'[TheFile] = file'[file_output'].text
        BY <1>0, <3>2, HeldNext DEF HeldFacts
      <4>2. CASE file_output' = file_output /\ InUse
        BY <1>0, <3>1, <3>2, <4>1, <4>2, HeldNow DEF HeldFacts
      <4>3. CASE file'[file_output'].text = <<>>
        BY <4>1, <4>3
      <4> QED BY <3>2, <4>2, <4>3
    <3>3. CASE ~(file_output' # 0 /\ InUse')
      BY <1>0, <3>3, HeldNext DEF HeldFacts
    <3> QED BY <3>2, <3>3
  <2> QED BY <2>1, <2>2, <2>3, BoxFacts
<1>4. HeldOnce(Held', Twice') /\ HeldInOrder(Held', Texts', Twice')
  <2>1. /\ Held \in [Boxes -> Seq(Messages)] /\ Held' \in [Boxes -> Seq(Messages)]
        /\ Texts \in [Files -> Seq(Messages)]
        /\ Twice \in SUBSET Messages /\ Twice' \in SUBSET Messages /\ Twice \subseteq Twice'
        /\ HeldOnce(Held, Twice) /\ HeldInOrder(Held, Texts, Twice)
    BY <1>0, <1>1, HeldNow, HeldNext, TextNow, TextNext, Growing DEF ReplayInv, HeldFacts, TextFacts
  <2> QED BY ONLY <1>2, <1>3, <2>1, BoxesEmptied
<1>5. UnsentNowhere'
  BY DEF ReplayInv, UnsentNowhere
<1>6. DecodedFiled'
  BY DEF ReplayInv, DecodedFiled
<1>7. ReplayKeeps'
  <2>1. ASSUME NEW s \in Sockets, restore'[s] = "done"
        PROVE  restore[s] = "done" /\ decoded'[s] = decoded[s]
    BY <2>1
  <2>2. \A i \in DOMAIN wire : \E j \in DOMAIN wire' : wire'[j] = wire[i]
    OBVIOUS
  <2> QED BY <1>0, <1>1, <2>1, <2>2, KeepsSent DEF ReplayInv, ReplayKeeps
<1> QED BY <1>4, <1>5, <1>6, <1>7 DEF ReplayInv

(* Steps that move no message.                                             *)
LEMMA QuietActions ==
    ASSUME BaseInv, BaseInv', ReplayInv,
           \/ Announce \/ ReconnectTimer \/ StartFile
           \/ \E s \in Sockets : \/ Connected(s) \/ CleanClose(s) \/ Fails(s)
                                 \/ DatagramError(s) \/ GoesSilent(s)
           \/ \E f \in Files : Opened(f) \/ Flush(f)
    PROVE  ReplayInv'
<1> USE DEF netVars, fileVars, restoreVars, sendVars
<1>0. TypeOK /\ OneConnection /\ FilesInTurn /\ ReadersApart
  BY DEF BaseInv
<1>1. /\ sock \in [Sockets -> {"none", "connecting", "open", "closed"}]
      /\ restore \in [Sockets -> {"none", "reading", "read", "done"}]
      /\ file \in [Files -> FileStates]
      /\ writer # 0 => writer \in Sockets
      /\ file_output # 0 => file_output \in Files
  BY <1>0, RelayClientAssumption DEF TypeOK, Sockets, Files
<1>2. CASE Announce
  <2>1. sock' \in [Sockets -> {"none", "connecting", "open", "closed"}] /\ writer = 0
    BY <1>0, <1>1, <1>2 DEF Announce, OneConnection
  <2> QED BY <1>2, <2>1, QuietStep DEF Announce, InUse
<1>3. CASE ReconnectTimer
  BY <1>3, QuietStep DEF ReconnectTimer, InUse
<1>4. CASE StartFile
  <2> DEFINE f == file_output + 1
  <2>1. f \in Files /\ f > file_output
    BY <1>0, <1>4, RelayClientAssumption DEF StartFile, TypeOK, Files
  <2>2. file' = [file EXCEPT ![f] = NewFile] /\ file_output' = f
    BY <1>4 DEF StartFile, OpenStream
  <2>3. file[f] = NoFile
    BY <1>0, <2>1 DEF FilesInTurn
  <2>4. file[f].text = <<>> /\ file'[f] = NewFile
    BY <1>1, <2>1, <2>2, <2>3, FileTypes
  <2>5. /\ file[f].text = <<>> /\ file'[f].text = <<>>
        /\ \A e \in Files : e # f => file'[e] = file[e]
    BY <1>1, <2>1, <2>2, <2>4, FileTypes
  <2>6. UNCHANGED <<wire, decoded, fate, restore, sock, writer>>
    BY <1>4 DEF StartFile
  <2> HIDE DEF f
  <2> QED BY <2>2, <2>5, <2>6, QuietStep
<1>5. ASSUME NEW s \in Sockets, Connected(s)
      PROVE  ReplayInv'
  <2>1. restore[s] = "none" /\ sock[s] = "connecting"
    BY <1>0, <1>1, <1>5 DEF Connected, ReadersApart
  <2>2. UNCHANGED <<wire, decoded, fate, file_output>>
    BY <1>5 DEF Connected
  <2>3. writer # 0 => writer' = writer
    BY <1>0, <1>5 DEF Connected, OneConnection
  <2>4. sock' = [sock EXCEPT ![s] = "open"]
    BY <1>5 DEF Connected
  <2>5. writer # 0 /\ sock[writer] = "closed" => sock'[writer'] = "closed"
    BY <1>1, <2>1, <2>3, <2>4
  <2>6. CASE files_going /\ conf.send_on_reconnect
    <3>1. /\ restore' = [restore EXCEPT ![s] = "reading"]
          /\ file' = [file EXCEPT ![file_output].ended = TRUE]
      BY <1>5, <2>6 DEF Connected, RestoreSend
    <3>2. ~conf.files_only
      BY <1>0, <2>1 DEF OneConnection
    <3>3. file_output \in Files
      BY <1>0, <1>1, <2>6, <3>2 DEF FilesInTurn
    <3>4. \A f \in Files : file'[f].text = file[f].text /\ file'[f].overlaps = file[f].overlaps
      BY <1>0, <3>1, <3>3, EndedFile
    <3>5. InUse
      BY <2>6 DEF InUse
    <3>6. \A r \in Sockets : \/ restore'[r] = restore[r]
                             \/ restore[r] = "none" /\ restore'[r] = "reading"
      BY <1>1, <2>1, <3>1
    <3> QED BY <2>2, <2>5, <3>4, <3>5, <3>6, QuietStep
  <2>7. CASE ~(files_going /\ conf.send_on_reconnect)
    <3>1. UNCHANGED <<restore, file>> /\ (files_going' => files_going)
      BY <1>5, <2>7 DEF Connected, RestoreSend
    <3>2. InUse' => InUse
      BY <3>1 DEF InUse
    <3> QED BY <2>2, <2>5, <3>1, <3>2, QuietStep
  <2> QED BY <2>6, <2>7
<1>6. ASSUME NEW s \in Sockets, CleanClose(s) \/ Fails(s)
      PROVE  ReplayInv'
  <2>1. Closes(s)
    BY <1>6 DEF CleanClose, Fails
  <2>2. /\ UNCHANGED <<wire, decoded, fate, restore, file_output, file, files_going, writer>>
        /\ sock' = [sock EXCEPT ![s] = "closed"]
    BY <2>1 DEF Closes
  <2>3. writer # 0 /\ sock[writer] = "closed" => sock'[writer'] = "closed"
    BY <1>1, <2>2
  <2> QED BY <2>2, <2>3, QuietStep DEF InUse
<1>7. ASSUME NEW s \in Sockets, DatagramError(s) \/ GoesSilent(s)
      PROVE  ReplayInv'
  <2>1. /\ UNCHANGED <<wire, decoded, fate, restore, file_output, file, files_going, writer>>
        /\ sock' \in [Sockets -> {"none", "connecting", "open", "closed"}]
        /\ \A r \in Sockets : sock[r] = "closed" => sock'[r] = "closed"
    BY <1>1, <1>7 DEF DatagramError, GoesSilent
  <2>3. writer # 0 /\ sock[writer] = "closed" => sock'[writer'] = "closed"
    BY <1>1, <2>1
  <2> QED BY <2>1, <2>3, QuietStep DEF InUse
<1>8. ASSUME NEW f \in Files, Opened(f) \/ Flush(f)
      PROVE  ReplayInv'
  <2>1. UNCHANGED <<wire, decoded, fate, restore, file_output, files_going, writer, sock>>
    BY <1>8 DEF Opened, Flush
  <2>2. \/ file' = [file EXCEPT ![f].state = "open"]
        \/ file' = [file EXCEPT ![f].flushed = Len(file[f].text)]
    BY <1>8 DEF Opened, Flush
  <2>3. \A e \in Files : file'[e].text = file[e].text /\ file'[e].overlaps = file[e].overlaps
    <3>1. CASE file' = [file EXCEPT ![f].state = "open"]
      BY ONLY <1>1, <3>1, f \in Files DEF FileStates
    <3>2. CASE file' = [file EXCEPT ![f].flushed = Len(file[f].text)]
      <4> DEFINE n == Len(file[f].text)
      <4>1. file' = [file EXCEPT ![f].flushed = n]
        BY <3>2
      <4> HIDE DEF n
      <4> QED BY ONLY <1>1, <4>1, f \in Files DEF FileStates
    <3> QED BY <2>2, <3>1, <3>2
  <2> QED BY <2>1, <2>3, QuietStep DEF InUse
<1> QED BY <1>2, <1>3, <1>4, <1>5, <1>6, <1>7, <1>8

(* The file is read: only one reader finds a message that is not doubled.  *)
LEMMA ReadFileReplay ==
    ASSUME BaseInv, BaseInv', ReplayInv, NEW s \in Sockets, ReadFile(s)
    PROVE  ReplayInv'
<1> USE DEF netVars, fileVars, restoreVars, sendVars
<1>0. TypeOK /\ TypeOK' /\ ReadersApart
  BY DEF BaseInv
<1> DEFINE F == file_output
           n == file[F].flushed
<1>1. /\ UNCHANGED <<wire, fate, file_output, file, files_going, writer, sock>>
      /\ restore[s] = "reading" /\ restore' = [restore EXCEPT ![s] = "read"]
      /\ decoded' = [decoded EXCEPT ![s] = SubSeq(file[F].text, 1, n)]
  BY DEF ReadFile, OnDisk
<1>2. /\ F \in Files /\ F # 0
      /\ ~file[F].overlaps => ~files_going /\ \A r \in Sockets : restore[r] = "reading" => r = s
  <2>1. restore[s] # "none"
    BY <1>1
  <2>2. file_output # 0
    BY <1>0, <2>1 DEF ReadersApart
  <2>3. ~file[file_output].overlaps =>
           ~files_going /\ \A r \in Sockets : restore[r] = "reading" => r = s
    BY <1>0, <1>1, <2>1 DEF ReadersApart
  <2>4. file_output \in Files
    BY <1>0, <2>2, RelayClientAssumption DEF TypeOK, Files
  <2> QED BY <2>2, <2>3, <2>4
<1>3. /\ file[F].text \in Seq(Messages) /\ n \in Nat /\ n <= Len(file[F].text)
      /\ restore \in [Sockets -> {"none", "reading", "read", "done"}]
      /\ decoded \in [Sockets -> Seq(Messages)]
  BY <1>0, <1>2 DEF TypeOK, FileStates
<1>4. /\ restore'[s] = "read" /\ decoded'[s] = SubSeq(file[F].text, 1, n)
      /\ \A r \in Sockets : r # s => restore'[r] = restore[r] /\ decoded'[r] = decoded[r]
  BY <1>1, <1>3
<1> HIDE DEF F, n
<1>5. InUse /\ file_output # 0
  BY <1>1, <1>2 DEF InUse, F
<1>6. Held[TheFile] = file[F].text
  BY <1>0, <1>5, HeldNow DEF HeldFacts, F
<1>7. Held'[s] = SubSeq(Held[TheFile], 1, n)
  BY <1>0, <1>4, <1>6, HeldNext DEF HeldFacts
<1>8. \A i \in DOMAIN Held'[TheFile] : Held'[TheFile][i] \in Twice
  <2>1. CASE ~file[F].overlaps
    <3>1. ~InUse'
      BY <1>1, <1>2, <1>4, <2>1 DEF InUse
    <3>2. Held'[TheFile] = <<>> /\ DOMAIN <<>> = {}
      BY <1>0, <3>1, HeldNext DEF HeldFacts
    <3> QED BY <3>2
  <2>2. CASE file[F].overlaps
    <3>1. Held'[TheFile] = <<>> \/ Held'[TheFile] = file[F].text
      BY <1>0, <1>1, HeldNext DEF HeldFacts, F
    <3>2. \A i \in DOMAIN file[F].text : file[F].text[i] \in Twice
      <4> SUFFICES ASSUME NEW i \in DOMAIN file[F].text
                   PROVE  file[F].text[i] \in Twice
        OBVIOUS
      <4>1. file[F].text[i] \in Messages
        BY <1>3
      <4> QED BY <1>0, <1>2, <2>2, <4>1, TextNow DEF TextFacts
    <3>3. DOMAIN <<>> = {}
      OBVIOUS
    <3> QED BY <3>1, <3>2, <3>3
  <2> QED BY <2>1, <2>2
<1>9. \A b \in Boxes : b # TheFile /\ b # s => Held'[b] = Held[b]
  <2>1. Held'[0] = Held[0]
    BY <1>0, <1>1, HeldNow, HeldNext DEF HeldFacts
  <2>2. \A r \in Sockets : r # s => Held'[r] = Held[r]
    BY <1>0, <1>4, HeldNow, HeldNext DEF HeldFacts
  <2> QED BY <2>1, <2>2, BoxFacts
<1>10. HeldOnce(Held', Twice') /\ HeldInOrder(Held', Texts', Twice')
  <2>1. Texts' = Texts /\ Twice' = Twice
    BY <1>1 DEF Texts, Twice, Doubled, OccursIn, Range
  <2>2. /\ Held \in [Boxes -> Seq(Messages)] /\ Held' \in [Boxes -> Seq(Messages)]
        /\ Texts \in [Files -> Seq(Messages)] /\ Twice \in SUBSET Messages
        /\ HeldOnce(Held, Twice) /\ HeldInOrder(Held, Texts, Twice)
        /\ s \in Boxes /\ TheFile \in Boxes /\ s # TheFile
        /\ n \in Nat /\ n <= Len(Held[TheFile])
    BY <1>0, <1>3, <1>6, HeldNow, HeldNext, TextNow, BoxFacts DEF ReplayInv, HeldFacts, TextFacts
  <2> DEFINE H == Held
             K == Held'
             T == Texts
             D == Twice
             a == TheFile
  <2>5. /\ H \in [Boxes -> Seq(Messages)] /\ K \in [Boxes -> Seq(Messages)]
        /\ T \in [Files -> Seq(Messages)] /\ D \in SUBSET Messages
        /\ HeldOnce(H, D) /\ HeldInOrder(H, T, D)
        /\ s \in Boxes /\ a \in Boxes /\ n \in Nat
        /\ Reads(H, K, D, s, a, n)
    BY ONLY <1>7, <1>8, <1>9, <2>2 DEF Reads
  <2> HIDE DEF H, K, T, D, a
  <2>6. HeldOnce(K, D) /\ HeldInOrder(K, T, D)
    BY ONLY <2>5, BoxRead
  <2>4. HeldOnce(Held', Twice) /\ HeldInOrder(Held', Texts, Twice)
    BY <2>6 DEF H, K, T, D, a
  <2> QED BY <2>1, <2>4
<1>11. \A i \in DOMAIN decoded'[s] : i \in DOMAIN file[F].text /\ decoded'[s][i] = file[F].text[i]
  BY <1>3, <1>4
<1>12. UnsentNowhere'
  <2> SUFFICES ASSUME NEW m \in Messages, fate[m] = "unsent", NEW r \in Sockets,
                      NEW i \in DOMAIN decoded'[r]
               PROVE  decoded'[r][i] # m
    BY <1>1 DEF ReplayInv, UnsentNowhere
  <2>1. CASE r = s
    BY <1>2, <1>11, <2>1 DEF ReplayInv, UnsentNowhere
  <2>2. CASE r # s
    BY <1>4, <2>2 DEF ReplayInv, UnsentNowhere
  <2> QED BY <2>1, <2>2
<1>13. DecodedFiled'
  <2>1. ASSUME NEW r \in Sockets, NEW i \in DOMAIN decoded'[r]
        PROVE  \E f \in Files : \E j \in DOMAIN file'[f].text : file'[f].text[j] = decoded'[r][i]
    <3>1. CASE r = s
      BY <1>1, <1>2, <1>11, <3>1
    <3>2. CASE r # s
      BY <1>1, <1>4, <3>2 DEF ReplayInv, DecodedFiled
    <3> QED BY <3>1, <3>2
  <2> QED BY <2>1 DEF DecodedFiled
<1>14. ReplayKeeps'
  <2>1. TextsGrow
    BY <1>1 DEF TextsGrow
  <2>2. \A i \in DOMAIN wire : \E j \in DOMAIN wire' : wire'[j] = wire[i]
    BY <1>1
  <2>3. ASSUME NEW r \in Sockets, restore'[r] = "done"
        PROVE  restore[r] = "done" /\ decoded'[r] = decoded[r]
    BY <1>4, <2>3
  <2>4. writer # 0 /\ sock[writer] = "closed" => sock'[writer'] = "closed"
    BY <1>1
  <2> QED BY <1>0, <2>1, <2>2, <2>3, <2>4, KeepsSent DEF ReplayInv, ReplayKeeps
<1> QED BY <1>10, <1>12, <1>13, <1>14 DEF ReplayInv

(* The elements of a sequence with one more at its end.                    *)
LEMMA AppendAt ==
    ASSUME NEW S, NEW u \in Seq(S), NEW e \in S, NEW w, w = u \/ w = Append(u, e)
    PROVE  /\ \A i \in DOMAIN u : i \in DOMAIN w /\ w[i] = u[i]
           /\ \A i \in DOMAIN w : (i \in DOMAIN u /\ w[i] = u[i]) \/ w[i] = e
OBVIOUS

(* A message that was not sent before is put in box a, or in the file F:   *)
(* the core of the next two lemmas.                                        *)
LEMMA MessageSent ==
    ASSUME BaseInv, BaseInv', ReplayInv,
           NEW m \in Messages, fate[m] = "unsent", fate'[m] # "unsent",
           \A n \in Messages : n # m => fate'[n] = fate[n],
           UNCHANGED <<decoded, restore, sock, writer>>,
           NEW a \in Boxes, NEW F \in Files,
           Held'[a] = Append(Held[a], m) \/ Held'[a] = <<m>>,
           \A b \in Boxes : b # a => Held'[b] = Held[b],
           \A f \in Files : f # F => file'[f].text = file[f].text,
           file'[F].text = file[F].text \/ file'[F].text = Append(file[F].text, m),
           file'[F].text = file[F].text \/ file'[F].text = Held'[a],
           \A f \in Files : file[f].text # <<>> => file'[f].overlaps = file[f].overlaps,
           wire' = wire \/ wire' = Append(wire, m)
    PROVE  ReplayInv'
<1>0. TypeOK /\ TypeOK' /\ ReadersApart
  BY DEF BaseInv
<1>1. /\ \A f \in Files : \A i \in DOMAIN file[f].text :
            i \in DOMAIN file'[f].text /\ file'[f].text[i] = file[f].text[i]
      /\ \A f \in Files : \A i \in DOMAIN file'[f].text :
            \/ i \in DOMAIN file[f].text /\ file'[f].text[i] = file[f].text[i]
            \/ file'[f].text[i] = m
  <2> SUFFICES ASSUME NEW f \in Files
               PROVE  /\ \A i \in DOMAIN file[f].text :
                            i \in DOMAIN file'[f].text /\ file'[f].text[i] = file[f].text[i]
                      /\ \A i \in DOMAIN file'[f].text :
                            \/ i \in DOMAIN file[f].text /\ file'[f].text[i] = file[f].text[i]
                            \/ file'[f].text[i] = m
    OBVIOUS
  <2> DEFINE u == file[f].text
             w == file'[f].text
  <2>1. u \in Seq(Messages)
    BY <1>0, TypesOfParts
  <2>2. w = u \/ w = Append(u, m)
    OBVIOUS
  <2> HIDE DEF u, w
  <2>3. /\ \A i \in DOMAIN u : i \in DOMAIN w /\ w[i] = u[i]
        /\ \A i \in DOMAIN w : (i \in DOMAIN u /\ w[i] = u[i]) \/ w[i] = m
    BY ONLY <2>1, <2>2, m \in Messages, AppendAt
  <2> QED BY <2>3 DEF u, w
<1>2. /\ \A i \in DOMAIN wire : i \in DOMAIN wire' /\ wire'[i] = wire[i]
      /\ \A i \in DOMAIN wire' : (i \in DOMAIN wire /\ wire'[i] = wire[i]) \/ wire'[i] = m
  <2>1. wire \in Seq(Messages)
    BY <1>0, TypesOfParts
  <2> QED BY ONLY <2>1, wire' = wire \/ wire' = Append(wire, m), m \in Messages, AppendAt
<1>3. TextsGrow
  BY <1>1, DOMAIN <<>> = {} DEF TextsGrow
<1>4. HeldOnce(Held', Twice') /\ HeldInOrder(Held', Texts', Twice')
  <2> DEFINE H == Held
             K == Held'
             T == Texts
             U == Texts'
             D == Twice
             E == Twice'
             G == [b \in Boxes |-> IF b = a /\ K[a] = <<m>> THEN <<>> ELSE H[b]]
  <2>1. /\ H \in [Boxes -> Seq(Messages)] /\ K \in [Boxes -> Seq(Messages)]
        /\ T \in [Files -> Seq(Messages)] /\ U \in [Files -> Seq(Messages)]
        /\ D \in SUBSET Messages /\ E \in SUBSET Messages /\ D \subseteq E
        /\ HeldOnce(H, D) /\ HeldInOrder(H, T, D)
    BY <1>0, <1>3, HeldNow, HeldNext, TextNow, TextNext, Growing DEF ReplayInv, HeldFacts, TextFacts
  <2>2. /\ \A b \in Boxes : \A i \in DOMAIN H[b] : H[b][i] # m
        /\ \A f \in Files : \A i \in DOMAIN T[f] : T[f][i] # m
    BY <1>0, UnsentNotHeld DEF ReplayInv
  <2>3. /\ \A f \in Files : f # F => U[f] = T[f]
        /\ U[F] = T[F] \/ U[F] = K[a]
    <3>1. \A f \in Files : Texts[f] = file[f].text /\ Texts'[f] = file'[f].text
      BY <1>0, TextNow, TextNext DEF TextFacts
    <3> QED BY <3>1
  <2>4. K[a] = Append(H[a], m) \/ K[a] = <<m>>
    OBVIOUS
  <2>5. \A b \in Boxes : b # a => K[b] = H[b]
    OBVIOUS
  <2> HIDE DEF H, K, T, U, D, E
  <2>6. G \in [Boxes -> Seq(Messages)] /\ \A b \in Boxes : G[b] = H[b] \/ G[b] = <<>>
    BY ONLY <2>1
  <2>7. HeldOnce(G, E) /\ HeldInOrder(G, T, E)
    <3> HIDE DEF G
    <3> QED BY ONLY <2>1, <2>6, BoxesEmptied
  <2>8. Adds(G, K, T, U, m, a, F)
    <3>1. \A b \in Boxes : \A i \in DOMAIN G[b] : G[b][i] # m
      BY ONLY <2>2, <2>6
    <3>2. K[a] = Append(G[a], m)
      BY ONLY <2>4, a \in Boxes, Append(<<>>, m) = <<m>>
    <3>3. \A b \in Boxes : b # a => K[b] = G[b]
      BY ONLY <2>5
    <3> HIDE DEF G
    <3> QED BY ONLY <2>2, <2>3, <3>1, <3>2, <3>3 DEF Adds
  <2>9. HeldOnce(K, E) /\ HeldInOrder(K, U, E)
    <3> HIDE DEF G
    <3> QED BY ONLY <2>1, <2>6, <2>7, <2>8, m \in Messages, a \in Boxes, F \in Files, MessageAdded
  <2> QED BY <2>9 DEF K, U, E
<1>5. UnsentNowhere'
  <2> SUFFICES ASSUME NEW n \in Messages, fate'[n] = "unsent"
               PROVE  /\ \A i \in DOMAIN wire' : wire'[i] # n
                      /\ \A s \in Sockets : \A i \in DOMAIN decoded'[s] : decoded'[s][i] # n
                      /\ \A f \in Files : \A i \in DOMAIN file'[f].text : file'[f].text[i] # n
    BY DEF UnsentNowhere
  <2>1. n # m /\ fate[n] = "unsent"
    OBVIOUS
  <2>2. /\ \A i \in DOMAIN wire : wire[i] # n
        /\ \A s \in Sockets : \A i \in DOMAIN decoded[s] : decoded[s][i] # n
        /\ \A f \in Files : \A i \in DOMAIN file[f].text : file[f].text[i] # n
    BY <2>1 DEF ReplayInv, UnsentNowhere
  <2> QED BY <1>1, <1>2, <2>1, <2>2
<1>6. DecodedFiled'
  <2>1. ASSUME NEW s \in Sockets, NEW i \in DOMAIN decoded'[s]
        PROVE  \E f \in Files : \E j \in DOMAIN file'[f].text : file'[f].text[j] = decoded'[s][i]
    <3>1. PICK f \in Files : \E j \in DOMAIN file[f].text : file[f].text[j] = decoded[s][i]
      BY <2>1 DEF ReplayInv, DecodedFiled
    <3> QED BY <1>1, <3>1
  <2> QED BY <2>1 DEF DecodedFiled
<1>7. ReplayKeeps'
  <2>1. \A i \in DOMAIN wire : \E j \in DOMAIN wire' : wire'[j] = wire[i]
    BY <1>2
  <2> QED BY <1>0, <1>3, <2>1, KeepsSent DEF ReplayInv, ReplayKeeps
<1> QED BY <1>4, <1>5, <1>6, <1>7 DEF ReplayInv

(* sendMessage to the writer.                                              *)
LEMMA SentToWire ==
    ASSUME BaseInv, BaseInv', ReplayInv,
           NEW m \in Messages, fate[m] = "unsent", fate'[m] # "unsent",
           \A n \in Messages : n # m => fate'[n] = fate[n],
           UNCHANGED <<decoded, restore, sock, writer, file_output, file, files_going>>,
           wire' = Append(wire, m)
    PROVE  ReplayInv'
<1>0. TypeOK /\ TypeOK'
  BY DEF BaseInv
<1>1. Held'[0] = Append(Held[0], m)
  BY <1>0, HeldNow, HeldNext DEF HeldFacts
<1>2. \A b \in Boxes : b # 0 => Held'[b] = Held[b]
  BY <1>0, BoxFacts, HeldNow, HeldNext DEF HeldFacts, InUse
<1>3. 1 \in Files /\ 0 \in Boxes
  BY RelayClientAssumption, BoxFacts DEF Files
<1> QED BY <1>1, <1>2, <1>3, MessageSent

(* sendMessage to the file that is written to from then on.                *)
LEMMA SentToFile ==
    ASSUME BaseInv, BaseInv', ReplayInv,
           NEW m \in Messages, fate[m] = "unsent", fate'[m] # "unsent",
           \A n \in Messages : n # m => fate'[n] = fate[n],
           UNCHANGED <<decoded, restore, sock, writer, wire, files_going>>,
           files_going,
           NEW F \in Files, file_output' = F,
           file_output = F \/ file[F].text = <<>>,
           file'[F].text = Append(file[F].text, m),
           \A f \in Files : f # F => file'[f].text = file[f].text,
           \A f \in Files : file[f].text # <<>> => file'[f].overlaps = file[f].overlaps
    PROVE  ReplayInv'
<1>0. TypeOK /\ TypeOK'
  BY DEF BaseInv
<1>1. F # 0 /\ InUse /\ InUse' /\ file_output' # 0
  BY DEF InUse, Files
<1>2. Held'[TheFile] = file'[F].text
  BY <1>0, <1>1, HeldNext DEF HeldFacts
<1>3. Held'[TheFile] = Append(Held[TheFile], m) \/ Held'[TheFile] = <<m>>
  <2>1. CASE file_output = F
    <3>1. Held[TheFile] = file[F].text
      BY <1>0, <1>1, <2>1, HeldNow DEF HeldFacts
    <3> QED BY <1>2, <3>1
  <2>2. CASE file[F].text = <<>>
    BY <1>2, <2>2, Append(<<>>, m) = <<m>>
  <2> QED BY <2>1, <2>2
<1>4. \A b \in Boxes : b # TheFile => Held'[b] = Held[b]
  BY <1>0, BoxFacts, HeldNow, HeldNext DEF HeldFacts
<1>5. TheFile \in Boxes
  BY BoxFacts
<1> QED BY <1>2, <1>3, <1>4, <1>5, MessageSent

(* sendMessage keeps the second layer.                                     *)
LEMMA SendReplay ==
    ASSUME BaseInv, BaseInv', ReplayInv, NEW m \in Messages, Send(m)
    PROVE  ReplayInv'
<1> USE DEF netVars, fileVars, restoreVars
<1>0. TypeOK /\ OneConnection /\ FilesInTurn
  BY DEF BaseInv
<1>1. /\ fate[m] = "unsent" /\ fate \in [Messages -> {"unsent", "filed", "written", "nowhere", "thrown"}]
      /\ UNCHANGED <<decoded, restore, sock, writer>>
      /\ file \in [Files -> FileStates]
  BY <1>0 DEF Send, TypeOK
<1>2. CASE PutInFile(m)
  <2>1. fate' = [fate EXCEPT ![m] = "filed"] /\ files_going
    BY <1>2 DEF PutInFile, ToFile
  <2>2. fate'[m] # "unsent" /\ \A n \in Messages : n # m => fate'[n] = fate[n]
    BY <1>1, <2>1
  <2>3. UNCHANGED <<wire, files_going, file_output>>
    BY <1>2 DEF PutInFile
  <2> DEFINE F == file_output
  <2>4. /\ F \in Files /\ file'[F].text = Append(file[F].text, m)
        /\ \A f \in Files : f # F => file'[f] = file[f]
        /\ file'[F].overlaps = file[F].overlaps
    BY <1>0, <1>2, PutInFileDoes
  <2>5. /\ file_output' = F /\ file_output = F
        /\ \A f \in Files : f # F => file'[f].text = file[f].text
        /\ \A f \in Files : file'[f].overlaps = file[f].overlaps
    BY <2>3, <2>4
  <2> HIDE DEF F
  <2> QED BY <1>1, <2>1, <2>2, <2>3, <2>4, <2>5, SentToFile
<1>3. CASE PutInNextFile(m)
  <2>1. fate' = [fate EXCEPT ![m] = "filed"] /\ files_going
    BY <1>3 DEF PutInNextFile, ToFile
  <2>2. fate'[m] # "unsent" /\ \A n \in Messages : n # m => fate'[n] = fate[n]
    BY <1>1, <2>1
  <2>3. UNCHANGED <<wire, files_going>>
    BY <1>3 DEF PutInNextFile
  <2> DEFINE F == file_output + 1
  <2>4. /\ file_output \in Files /\ F \in Files /\ file_output' = F /\ F > file_output
        /\ \A f \in Files : f # file_output /\ f # F => file'[f] = file[f]
        /\ file'[file_output].text = file[file_output].text
        /\ file'[file_output].overlaps = file[file_output].overlaps
        /\ file'[F].text = <<m>>
    <3>1. /\ file_output \in Files /\ F \in Files /\ file_output' = F
          /\ \A f \in Files : f # file_output /\ f # file_output' => file'[f] = file[f]
          /\ file'[file_output].text = file[file_output].text
          /\ file'[file_output].overlaps = file[file_output].overlaps
          /\ file'[file_output'].text = <<m>>
      BY <1>0, <1>3, PutInNextFileDoes
    <3>2. F > file_output
      BY <3>1 DEF Files
    <3> HIDE DEF F
    <3> QED BY <3>1, <3>2
  <2>5. file[F].text = <<>>
    BY <1>0, <2>4, FileTypes DEF FilesInTurn
  <2>6. /\ file'[F].text = Append(file[F].text, m)
        /\ \A f \in Files : f # F => file'[f].text = file[f].text
        /\ \A f \in Files : file[f].text # <<>> => file'[f].overlaps = file[f].overlaps
    BY <2>4, <2>5, Append(<<>>, m) = <<m>>
  <2> HIDE DEF F
  <2> QED BY <1>1, <2>1, <2>2, <2>3, <2>4, <2>5, <2>6, SentToFile
<1>4. CASE RenameThrows(m)
  <2>1. /\ UNCHANGED <<wire, files_going, file_output>>
        /\ file' = [file EXCEPT ![file_output].ended = TRUE]
        /\ fate' = [fate EXCEPT ![m] = "thrown"] /\ file_output # 0
    BY <1>4 DEF RenameThrows, ToFile
  <2>2. file_output \in Files
    BY <1>0, <2>1, RelayClientAssumption DEF TypeOK, Files
  <2>3. \A f \in Files : file'[f].text = file[f].text /\ file'[f].overlaps = file[f].overlaps
    BY <1>0, <2>1, <2>2, EndedFile
  <2>4. \A n \in Messages : fate'[n] = "unsent" => fate[n] = "unsent"
    BY <1>1, <2>1
  <2> QED BY <1>1, <2>1, <2>3, <2>4, QuietStep DEF InUse
<1>5. CASE WriteAfterEnd(m)
  <2>1. /\ UNCHANGED <<wire, files_going, file_output, file>>
        /\ fate' = [fate EXCEPT ![m] = "thrown"]
    BY <1>5 DEF WriteAfterEnd
  <2>2. \A n \in Messages : fate'[n] = "unsent" => fate[n] = "unsent"
    BY <1>1, <2>1
  <2> QED BY <1>1, <2>1, <2>2, QuietStep DEF InUse
<1>6. CASE Write(m)
  <2>1. UNCHANGED <<files_going, file_output, file>>
    BY <1>6 DEF Write
  <2>2. CASE WriterUsable
    <3>1. wire' = Append(wire, m) /\ fate' = [fate EXCEPT ![m] = "written"]
      BY <1>6, <2>2 DEF Write
    <3>2. fate'[m] # "unsent" /\ \A n \in Messages : n # m => fate'[n] = fate[n]
      BY <1>1, <3>1
    <3> QED BY <1>1, <2>1, <3>1, <3>2, SentToWire
  <2>3. CASE ~WriterUsable
    <3>1. wire' = wire /\ fate' = [fate EXCEPT ![m] = "nowhere"]
      BY <1>6, <2>3 DEF Write
    <3>2. \A n \in Messages : fate'[n] = "unsent" => fate[n] = "unsent"
      BY <1>1, <3>1
    <3> QED BY <1>1, <2>1, <3>1, <3>2, QuietStep DEF InUse
  <2> QED BY <2>2, <2>3
<1> QED BY <1>2, <1>3, <1>4, <1>5, <1>6 DEF Send

(* What two sequences put together hold.                                   *)
Joins(u, v, w) ==
    /\ \A i \in DOMAIN u : i \in DOMAIN w /\ w[i] = u[i]
    /\ \A i \in DOMAIN v : Len(u) + i \in DOMAIN w /\ w[Len(u) + i] = v[i]
    /\ \A i \in DOMAIN w : \/ \E p \in DOMAIN u : w[i] = u[p]
                           \/ \E p \in DOMAIN v : w[i] = v[p]

(* The same, by their places.                                              *)
LEMMA ConcatAt ==
    ASSUME NEW S, NEW u \in Seq(S), NEW v \in Seq(S), NEW w, w = u \o v
    PROVE  Joins(u, v, w)
<1>1. /\ \A i \in DOMAIN u : i \in DOMAIN w /\ w[i] = u[i]
      /\ \A i \in DOMAIN v : Len(u) + i \in DOMAIN w /\ w[Len(u) + i] = v[i]
  OBVIOUS
<1>2. ASSUME NEW i \in DOMAIN w
      PROVE  \/ \E p \in DOMAIN u : w[i] = u[p]
             \/ \E p \in DOMAIN v : w[i] = v[p]
  <2>1. \/ i \in DOMAIN u /\ w[i] = u[i]
        \/ i - Len(u) \in DOMAIN v /\ w[i] = v[i - Len(u)]
    OBVIOUS
  <2> QED BY <2>1
<1> QED BY <1>1, <1>2 DEF Joins

(* The rest of _shutdown_files_going: what was read goes to the file, to   *)
(* the wire, or nowhere.                                                   *)
LEMMA ReplayDoes ==
    ASSUME BaseInv, ReplayInv, NEW s \in Sockets, Replay(s)
    PROVE  /\ restore[s] = "read" /\ restore'[s] = "done"
           /\ \A r \in Sockets : r # s => restore'[r] = restore[r]
           /\ InUse' = InUse
           /\ UNCHANGED <<decoded, fate, sock, writer, file_output, files_going>>
           /\ file_output \in Files
           /\ \/ /\ InUse /\ wire' = wire
                 /\ file'[file_output].text = file[file_output].text \o decoded[s]
                 /\ \A f \in Files : f # file_output => file'[f].text = file[f].text
              \/ wire' = wire \o decoded[s] /\ file' = file
              \/ wire' = wire /\ file' = file /\ sock[writer] = "closed"
           /\ \A f \in Files : file'[f].overlaps = file[f].overlaps
<1> USE DEF netVars, fileVars, restoreVars
<1>0. TypeOK /\ OneConnection /\ ReadersApart
  BY DEF BaseInv
<1>1. /\ restore[s] = "read" /\ restore'[s] = "done"
      /\ \A r \in Sockets : r # s => restore'[r] = restore[r]
  BY <1>0, TypesOfParts DEF Replay
<1>2. /\ UNCHANGED <<decoded, fate, sock, writer, file_output, files_going>>
  BY DEF Replay
<1>3. InUse' = InUse
  <2>1. \A r \in Sockets : restore'[r] = "reading" <=> restore[r] = "reading"
    BY <1>1
  <2> QED BY <1>2, <2>1 DEF InUse
<1>4. writer # 0 /\ file_output # 0
  BY <1>0, <1>1 DEF ReadersApart
<1>5. file_output \in Files
  BY <1>0, <1>4, RelayClientAssumption DEF TypeOK, Files
<1>6. CASE ToFile
  <2>1. wire' = wire /\ InUse
    BY <1>6 DEF Replay, ToFile, InUse
  <2>2. /\ file'[file_output].text = file[file_output].text \o decoded[s]
        /\ \A f \in Files : f # file_output => file'[f] = file[f]
        /\ file'[file_output].overlaps = file[file_output].overlaps
    BY <1>0, <1>6, ReplayToFile
  <2>3. /\ \A f \in Files : f # file_output => file'[f].text = file[f].text
        /\ \A f \in Files : file'[f].overlaps = file[f].overlaps
    BY <2>2
  <2> QED BY <1>1, <1>2, <1>3, <1>5, <2>1, <2>2, <2>3
<1>7. CASE ~ToFile
  <2>1. file' = file /\ (\/ wire' = wire \o decoded[s]
                         \/ wire' = wire /\ ~WriterUsable)
    BY <1>7 DEF Replay
  <2>2. ~WriterUsable => sock[writer] = "closed"
    <3>1. writer \in Sockets /\ sock \in [Sockets -> {"none", "connecting", "open", "closed"}]
      BY <1>0, <1>4, RelayClientAssumption DEF TypeOK, Sockets
    <3>2. sock[writer] # "none"
      BY <1>0, <1>4 DEF OneConnection
    <3> QED BY <1>4, <3>1, <3>2 DEF WriterUsable
  <2> QED BY <1>1, <1>2, <1>3, <1>5, <2>1, <2>2
<1> QED BY <1>6, <1>7

(* What was read is sent, filed or lost, in its order.                     *)
LEMMA ReplayReplay ==
    ASSUME BaseInv, BaseInv', ReplayInv, NEW s \in Sockets, Replay(s)
    PROVE  ReplayInv'
<1>0. TypeOK /\ TypeOK' /\ ReadersApart
  BY DEF BaseInv
<1> DEFINE F == file_output
<1>1. /\ restore[s] = "read" /\ restore'[s] = "done"
      /\ \A r \in Sockets : r # s => restore'[r] = restore[r]
      /\ InUse' = InUse
      /\ UNCHANGED <<decoded, fate, sock, writer, file_output, files_going>>
      /\ F \in Files
      /\ \A f \in Files : file'[f].overlaps = file[f].overlaps
  BY ReplayDoes
<1> DEFINE Filed == /\ InUse /\ wire' = wire
                    /\ file'[F].text = file[F].text \o decoded[s]
                    /\ \A f \in Files : f # F => file'[f].text = file[f].text
           Wired == wire' = wire \o decoded[s] /\ file' = file
           Lost == wire' = wire /\ file' = file /\ sock[writer] = "closed"
<1>2. Filed \/ Wired \/ Lost
  BY ReplayDoes
<1>3. /\ wire \in Seq(Messages) /\ decoded[s] \in Seq(Messages) /\ file[F].text \in Seq(Messages)
  BY <1>0, <1>1, TypesOfParts
<1>4. /\ \A i \in DOMAIN wire : i \in DOMAIN wire' /\ wire'[i] = wire[i]
      /\ \A i \in DOMAIN wire' : \/ \E p \in DOMAIN wire : wire'[i] = wire[p]
                                 \/ \E p \in DOMAIN decoded[s] : wire'[i] = decoded[s][p]
  <2> DEFINE v == decoded[s]
  <2>1. wire \in Seq(Messages) /\ v \in Seq(Messages)
    BY <1>3
  <2>2. wire' = wire \/ wire' = wire \o v
    BY <1>2
  <2> HIDE DEF v
  <2>3. ASSUME wire' = wire \o v
        PROVE  /\ \A i \in DOMAIN wire : i \in DOMAIN wire' /\ wire'[i] = wire[i]
               /\ \A i \in DOMAIN wire' : \/ \E p \in DOMAIN wire : wire'[i] = wire[p]
                                          \/ \E p \in DOMAIN v : wire'[i] = v[p]
    <3> DEFINE w == wire'
    <3>1. w = wire \o v
      BY <2>3
    <3> HIDE DEF w
    <3>2. /\ \A i \in DOMAIN wire : i \in DOMAIN w /\ w[i] = wire[i]
          /\ \A i \in DOMAIN w : \/ \E p \in DOMAIN wire : w[i] = wire[p]
                                 \/ \E p \in DOMAIN v : w[i] = v[p]
      BY ONLY <2>1, <3>1, ConcatAt DEF Joins
    <3> QED BY <3>2 DEF w
  <2>4. /\ \A i \in DOMAIN wire : i \in DOMAIN wire' /\ wire'[i] = wire[i]
        /\ \A i \in DOMAIN wire' : \/ \E p \in DOMAIN wire : wire'[i] = wire[p]
                                   \/ \E p \in DOMAIN v : wire'[i] = v[p]
    BY <2>2, <2>3
  <2> QED BY <2>4 DEF v
<1>5. /\ \A f \in Files : \A i \in DOMAIN file[f].text :
            i \in DOMAIN file'[f].text /\ file'[f].text[i] = file[f].text[i]
      /\ \A f \in Files : \A i \in DOMAIN file'[f].text :
            \/ \E p \in DOMAIN file[f].text : file'[f].text[i] = file[f].text[p]
            \/ \E p \in DOMAIN decoded[s] : file'[f].text[i] = decoded[s][p]
  <2>1. CASE Filed
    <3>1. /\ \A i \in DOMAIN file[F].text :
                i \in DOMAIN file'[F].text /\ file'[F].text[i] = file[F].text[i]
          /\ \A i \in DOMAIN file'[F].text :
                \/ \E p \in DOMAIN file[F].text : file'[F].text[i] = file[F].text[p]
                \/ \E p \in DOMAIN decoded[s] : file'[F].text[i] = decoded[s][p]
      <4> DEFINE u == file[F].text
                 v == decoded[s]
                 w == file'[F].text
      <4>1. u \in Seq(Messages) /\ v \in Seq(Messages) /\ w = u \o v
        BY <1>3, <2>1
      <4> HIDE DEF u, v, w
      <4>2. /\ \A i \in DOMAIN u : i \in DOMAIN w /\ w[i] = u[i]
            /\ \A i \in DOMAIN w : \/ \E p \in DOMAIN u : w[i] = u[p]
                                   \/ \E p \in DOMAIN v : w[i] = v[p]
        <5>1. Joins(u, v, w)
          BY ONLY <4>1, ConcatAt
        <5> QED BY ONLY <5>1 DEF Joins
      <4> QED BY <4>2 DEF u, v, w
    <3>2. \A f \in Files : f # F => file'[f].text = file[f].text
      BY <2>1
    <3> HIDE DEF F, Filed
    <3>3. ASSUME NEW f \in Files
          PROVE  /\ \A i \in DOMAIN file[f].text :
                       i \in DOMAIN file'[f].text /\ file'[f].text[i] = file[f].text[i]
                 /\ \A i \in DOMAIN file'[f].text :
                       \/ \E p \in DOMAIN file[f].text : file'[f].text[i] = file[f].text[p]
                       \/ \E p \in DOMAIN decoded[s] : file'[f].text[i] = decoded[s][p]
      <4>1. CASE f = F
        BY ONLY <3>1, <4>1
      <4>2. CASE f # F
        <5>1. file'[f].text = file[f].text
          BY ONLY <3>2, <4>2, f \in Files
        <5> QED BY ONLY <5>1
      <4> QED BY ONLY <4>1, <4>2
    <3> QED BY ONLY <3>3
  <2>2. CASE file' = file
    BY <2>2
  <2> QED BY <1>2, <2>1, <2>2
<1>6. TextsGrow
  BY <1>1, <1>5 DEF TextsGrow
<1>7. F # 0
  BY <1>1 DEF Files
<1>8. /\ Held[s] = decoded[s] /\ Held'[s] = <<>>
      /\ Held[0] = wire /\ Held'[0] = wire'
      /\ \A r \in Sockets : r # s => Held'[r] = Held[r]
      /\ InUse => Held[TheFile] = file[F].text /\ Held'[TheFile] = file'[F].text
      /\ ~InUse => Held[TheFile] = <<>> /\ Held'[TheFile] = <<>>
  BY <1>0, <1>1, <1>7, HeldNow, HeldNext DEF HeldFacts
<1>9. HeldOnce(Held', Twice') /\ HeldInOrder(Held', Texts', Twice')
  <2> DEFINE H == Held
             K == Held'
             T == Texts
             U == Texts'
             D == Twice
             E == Twice'
  <2>1. /\ H \in [Boxes -> Seq(Messages)] /\ K \in [Boxes -> Seq(Messages)]
        /\ T \in [Files -> Seq(Messages)] /\ U \in [Files -> Seq(Messages)]
        /\ D \in SUBSET Messages /\ E \in SUBSET Messages /\ D \subseteq E
        /\ HeldOnce(H, D) /\ HeldInOrder(H, T, D)
    BY <1>0, <1>6, HeldNow, HeldNext, TextNow, TextNext, Growing DEF ReplayInv, HeldFacts, TextFacts
  <2>2. \A f \in Files : T[f] = file[f].text /\ U[f] = file'[f].text
    BY <1>0, TextNow, TextNext DEF TextFacts
  <2>3. CASE Filed
    <3>1. Moves(H, K, T, U, s, TheFile, F)
      <4>1. s # TheFile /\ \A b \in Boxes : b = 0 \/ b \in Sockets \/ b = TheFile
        BY BoxFacts
      <4>2. K[TheFile] = H[TheFile] \o H[s] /\ U[F] = K[TheFile]
        BY <1>1, <1>8, <2>2, <2>3
      <4>3. \A b \in Boxes : b # TheFile /\ b # s => K[b] = H[b]
        BY <1>8, <2>3, <4>1
      <4>4. \A f \in Files : f # F => U[f] = T[f]
        BY <2>2, <2>3
      <4>5. K[s] = <<>>
        BY <1>8
      <4> HIDE DEF H, K, T, U, F
      <4> QED BY ONLY <4>1, <4>2, <4>3, <4>4, <4>5 DEF Moves
    <3>2. s \in Boxes /\ TheFile \in Boxes /\ F \in Files
      BY <1>1, BoxFacts
    <3> DEFINE a == TheFile
    <3>3. Moves(H, K, T, U, s, a, F) /\ a \in Boxes
      BY <3>1, <3>2
    <3> HIDE DEF H, K, T, U, D, E, F, a
    <3>4. HeldOnce(K, E) /\ HeldInOrder(K, U, E)
      BY ONLY <2>1, <3>2, <3>3, BoxMoved
    <3> QED BY <3>4 DEF K, U, E
  <2>4. CASE Wired
    <3>1. Moves(H, K, T, U, s, 0, F)
      <4>1. s # 0 /\ \A b \in Boxes : b = 0 \/ b \in Sockets \/ b = TheFile
        BY BoxFacts
      <4>2. K[0] = H[0] \o H[s]
        BY <1>8, <2>4
      <4>3. \A b \in Boxes : b # 0 /\ b # s => K[b] = H[b]
        BY <1>8, <2>4, <4>1
      <4>4. \A f \in Files : U[f] = T[f]
        BY <2>2, <2>4
      <4>6. U[F] = T[F]
        BY <1>1, <4>4
      <4>5. K[s] = <<>>
        BY <1>8
      <4> HIDE DEF H, K, T, U, F
      <4> QED BY ONLY <4>1, <4>2, <4>3, <4>4, <4>5, <4>6 DEF Moves
    <3>2. s \in Boxes /\ 0 \in Boxes /\ F \in Files
      BY <1>1, BoxFacts
    <3> DEFINE a == 0
    <3>3. Moves(H, K, T, U, s, a, F) /\ a \in Boxes
      BY <3>1, <3>2
    <3> HIDE DEF H, K, T, U, D, E, F, a
    <3>4. HeldOnce(K, E) /\ HeldInOrder(K, U, E)
      BY ONLY <2>1, <3>2, <3>3, BoxMoved
    <3> QED BY <3>4 DEF K, U, E
  <2>5. CASE Lost
    <3>1. \A b \in Boxes : K[b] = H[b] \/ K[b] = <<>>
      BY <1>8, <2>5, BoxFacts
    <3>2. U = T
      BY <2>5 DEF Texts
    <3> HIDE DEF H, K, T, U, D, E
    <3>4. HeldOnce(K, E) /\ HeldInOrder(K, U, E)
      BY ONLY <2>1, <3>1, <3>2, BoxesEmptied
    <3> QED BY <3>4 DEF K, U, E
  <2> QED BY <1>2, <2>3, <2>4, <2>5
<1>10. UnsentNowhere'
  <2> SUFFICES ASSUME NEW n \in Messages, fate'[n] = "unsent"
               PROVE  /\ \A i \in DOMAIN wire' : wire'[i] # n
                      /\ \A r \in Sockets : \A i \in DOMAIN decoded'[r] : decoded'[r][i] # n
                      /\ \A f \in Files : \A i \in DOMAIN file'[f].text : file'[f].text[i] # n
    BY DEF UnsentNowhere
  <2>1. fate[n] = "unsent"
    BY <1>1
  <2>2. /\ \A i \in DOMAIN wire : wire[i] # n
        /\ \A r \in Sockets : \A i \in DOMAIN decoded[r] : decoded[r][i] # n
        /\ \A f \in Files : \A i \in DOMAIN file[f].text : file[f].text[i] # n
    BY <2>1 DEF ReplayInv, UnsentNowhere
  <2> QED BY <1>1, <1>4, <1>5, <2>2
<1>11. DecodedFiled'
  <2>1. ASSUME NEW r \in Sockets, NEW i \in DOMAIN decoded'[r]
        PROVE  \E f \in Files : \E j \in DOMAIN file'[f].text : file'[f].text[j] = decoded'[r][i]
    <3>1. PICK f \in Files : \E j \in DOMAIN file[f].text : file[f].text[j] = decoded[r][i]
      BY <1>1, <2>1 DEF ReplayInv, DecodedFiled
    <3> QED BY <1>1, <1>5, <3>1
  <2> QED BY <2>1 DEF DecodedFiled
<1>12. ReplayKeeps'
  <2>1. ASSUME NEW m \in Range(decoded[s])
        PROVE  m \in Range(wire') \/ FiledTwice(m)' \/ sock'[writer'] = "closed"
    <3>1. PICK i \in DOMAIN decoded[s] : decoded[s][i] = m
      BY <2>1 DEF Range
    <3>2. CASE Filed
      <4>1. PICK f \in Files : \E j \in DOMAIN file[f].text : file[f].text[j] = m
        BY <3>1 DEF ReplayInv, DecodedFiled
      <4>2. PICK j \in DOMAIN file[f].text : file[f].text[j] = m
        BY <4>1
      <4>3. /\ j \in DOMAIN file'[f].text /\ file'[f].text[j] = m
        BY <1>5, <4>2
      <4> DEFINE k == Len(file[F].text) + i
      <4>4. k \in DOMAIN file'[F].text /\ file'[F].text[k] = m
        <5> DEFINE u == file[F].text
                   v == decoded[s]
                   w == file'[F].text
        <5>1. u \in Seq(Messages) /\ v \in Seq(Messages) /\ w = u \o v /\ i \in DOMAIN v /\ v[i] = m
          BY <1>3, <3>1, <3>2
        <5> HIDE DEF u, v, w
        <5>2. Len(u) + i \in DOMAIN w /\ w[Len(u) + i] = m
          BY ONLY <5>1, ConcatAt DEF Joins
        <5> QED BY <5>2 DEF u, v, w
      <4>5. f # F \/ j # k
        <5>1. ASSUME f = F PROVE j < k
          BY <1>3, <3>1, <4>2, <5>1
        <5> QED BY <1>3, <5>1
      <4> HIDE DEF F, k
      <4> QED BY <1>1, <4>3, <4>4, <4>5 DEF FiledTwice
    <3>3. CASE Wired
      <4>1. wire'[Len(wire) + i] = m /\ Len(wire) + i \in DOMAIN wire'
        <5> DEFINE v == decoded[s]
        <5>1. wire \in Seq(Messages) /\ v \in Seq(Messages) /\ wire' = wire \o v
              /\ i \in DOMAIN v /\ v[i] = m
          BY <1>3, <3>1, <3>3
        <5> HIDE DEF v
        <5> QED BY ONLY <5>1, ConcatAt DEF Joins
      <4> QED BY <4>1 DEF Range
    <3>4. CASE Lost
      BY <1>1, <3>4
    <3> QED BY <1>2, <3>2, <3>3, <3>4
  <2>2. \A i \in DOMAIN wire : \E j \in DOMAIN wire' : wire'[j] = wire[i]
    BY <1>4
  <2>3. ASSUME NEW r \in Sockets, r # s, restore'[r] = "done"
        PROVE  \A m \in Range(decoded'[r]) :
                  m \in Range(wire') \/ FiledTwice(m)' \/ sock'[writer'] = "closed"
    <3>1. restore[r] = "done" /\ decoded'[r] = decoded[r]
      BY <1>1, <2>3
    <3>2. writer # 0 /\ sock[writer] = "closed" => sock'[writer'] = "closed"
      BY <1>1
    <3> QED BY <1>0, <1>6, <2>2, <3>1, <3>2, KeepsSent DEF ReplayInv
  <2>4. decoded'[s] = decoded[s]
    BY <1>1
  <2> QED BY <2>1, <2>3, <2>4 DEF ReplayKeeps
<1> QED BY <1>9, <1>10, <1>11, <1>12 DEF ReplayInv

-----------------------------------------------------------------------------
(* The theorems.                                                           *)

(* Nothing is anywhere when the client is made.                            *)
LEMMA ReplayInit ==
    ASSUME Init, BaseInv
    PROVE  ReplayInv
<1>0. TypeOK
  BY DEF BaseInv
<1>1. /\ wire = <<>> /\ restore = [s \in Sockets |-> "none"]
      /\ decoded = [s \in Sockets |-> <<>>] /\ file_output = 0
      /\ file = [f \in Files |-> NoFile]
  BY DEF Init
<1>2. DOMAIN <<>> = {}
  OBVIOUS
<1>3. \A f \in Files : file[f].text = <<>>
  BY <1>1, FileTypes
<1>4. \A b \in Boxes : Held[b] = <<>>
  BY <1>0, <1>1, BoxFacts, HeldNow DEF HeldFacts
<1>5. \A f \in Files : Texts[f] = <<>>
  BY <1>0, <1>3, TextNow DEF TextFacts
<1>6. HeldOnce(Held, Twice) /\ HeldInOrder(Held, Texts, Twice)
  BY <1>2, <1>4, <1>5 DEF HeldOnce, HeldInOrder
<1>7. UnsentNowhere /\ DecodedFiled
  BY <1>1, <1>2, <1>3 DEF UnsentNowhere, DecodedFiled
<1>8. ReplayKeeps
  BY <1>1 DEF ReplayKeeps
<1> QED BY <1>6, <1>7, <1>8 DEF ReplayInv

(* Each step keeps the first layer, and then the second.                   *)
LEMMA BaseNext ==
    ASSUME BaseInv, [Next]_vars
    PROVE  BaseInv'
<1>1. CASE UNCHANGED vars
  <2>1. TypeOK'
    BY <1>1 DEF BaseInv, TypeOK, vars, netVars, fileVars, restoreVars, sendVars
  <2>2. OneConnection' /\ FilesInTurn' /\ ReadersApart' /\ SentInOrder' /\ RoomLeft'
    BY <1>1 DEF BaseInv, OneConnection, FilesInTurn, ReadersApart, SentInOrder, RoomLeft,
                vars, netVars, fileVars, restoreVars, sendVars
  <2>3. FileWithinLimit' /\ StaysWithFiles' /\ LostOnlyUntilShunted'
    BY <1>1 DEF BaseInv, FileWithinLimit, StaysWithFiles, LostOnlyUntilShunted, ToFile,
                vars, netVars, fileVars, restoreVars, sendVars
  <2> QED BY <2>1, <2>2, <2>3 DEF BaseInv
<1>2. CASE Announce
  BY <1>2, AnnounceBase
<1>3. CASE ReconnectTimer
  BY <1>3, ReconnectTimerBase
<1>4. CASE StartFile
  BY <1>4, StartFileBase
<1>5. ASSUME NEW s \in Sockets,
             \/ Connected(s) \/ CleanClose(s) \/ Fails(s) \/ DatagramError(s)
             \/ GoesSilent(s) \/ ReadFile(s) \/ Replay(s)
      PROVE  BaseInv'
  BY <1>5, ConnectedBase, CleanCloseBase, FailsBase, DatagramErrorBase, GoesSilentBase,
     ReadFileBase, ReplayBase
<1>6. ASSUME NEW f \in Files, Opened(f) \/ Flush(f)
      PROVE  BaseInv'
  BY <1>6, OpenedBase, FlushBase
<1>7. ASSUME NEW m \in Messages, Send(m)
      PROVE  BaseInv'
  <2>1. /\ fate[m] = "unsent" /\ \A n \in 1 .. m - 1 : fate[n] # "unsent"
        /\ UNCHANGED <<conf, netVars, restoreVars>>
    BY <1>7 DEF Send
  <2>2. PutInFile(m) \/ PutInNextFile(m) \/ RenameThrows(m) \/ WriteAfterEnd(m) \/ Write(m)
    BY <1>7 DEF Send
  <2> QED BY <2>1, <2>2, PutInFileBase, PutInNextFileBase, RenameThrowsBase,
             WriteAfterEndBase, WriteBase
<1> QED BY <1>1, <1>2, <1>3, <1>4, <1>5, <1>6, <1>7 DEF Next

LEMMA ReplayNext ==
    ASSUME BaseInv, BaseInv', ReplayInv, [Next]_vars
    PROVE  ReplayInv'
<1>1. CASE UNCHANGED vars
  BY <1>1, QuietStep DEF InUse, vars, netVars, fileVars, restoreVars, sendVars
<1>2. CASE \/ Announce \/ ReconnectTimer \/ StartFile
           \/ \E s \in Sockets : \/ Connected(s) \/ CleanClose(s) \/ Fails(s)
                                 \/ DatagramError(s) \/ GoesSilent(s)
           \/ \E f \in Files : Opened(f) \/ Flush(f)
  BY <1>2, QuietActions
<1>3. ASSUME NEW s \in Sockets, ReadFile(s) \/ Replay(s)
      PROVE  ReplayInv'
  BY <1>3, ReadFileReplay, ReplayReplay
<1>4. ASSUME NEW m \in Messages, Send(m)
      PROVE  ReplayInv'
  BY <1>4, SendReplay
<1> QED BY <1>1, <1>2, <1>3, <1>4 DEF Next

(* The inductive invariant.                                                *)
THEOREM Invariance == Spec => []IInv
<1>1. Init => IInv
  BY BaseInit, ReplayInit DEF IInv
<1>2. IInv /\ [Next]_vars => IInv'
  BY BaseNext, ReplayNext DEF IInv
<1> QED BY <1>1, <1>2, PTL DEF Spec

(* The state has the types the constants give it.                          *)
THEOREM TypeCorrect == Spec => []TypeOK
<1>1. IInv => TypeOK
  BY DEF IInv, BaseInv
<1> QED BY <1>1, Invariance, PTL

(* No file of a client that only writes files holds more than wrap_limit   *)
(* messages when _send_to_counted_stream goes on to the next.              *)
THEOREM FilesWithinLimit == Spec => []FileWithinLimit
<1>1. IInv => FileWithinLimit
  BY DEF IInv, BaseInv
<1> QED BY <1>1, Invariance, PTL

(* A client that shunts to files and does not reconnect loses messages     *)
(* only until its first file is started, and then stays with files.        *)
THEOREM LostOnlyUntilFiles == Spec => []LostOnlyUntilShunted
<1>1. IInv => LostOnlyUntilShunted
  BY DEF IInv, BaseInv
<1> QED BY <1>1, Invariance, PTL

(* What was read from a file is sent once, however often _connect and      *)
(* _shutdown_files_going are called, but for files that overlap.           *)
THEOREM SentOnce == Spec => []ReplayedOnce
<1>1. ASSUME TypeOK, HeldOnce(Held, Twice)
      PROVE  ReplayedOnce
  <2> SUFFICES ASSUME NEW i \in DOMAIN wire, NEW j \in DOMAIN wire, wire[i] = wire[j],
                      ~Doubled(wire[i])
               PROVE  i = j
    BY DEF ReplayedOnce
  <2>1. wire[i] \notin Twice
    BY DEF Twice
  <2>2. Held[0] = wire /\ 0 \in Boxes
    BY <1>1, HeldNow, BoxFacts DEF HeldFacts
  <2> QED BY <1>1, <2>1, <2>2, OnceAt
<1>2. IInv => ReplayedOnce
  BY <1>1 DEF IInv, BaseInv, ReplayInv
<1> QED BY <1>2, Invariance, PTL

(* What was filed first is sent first, even when it went through several   *)
(* files on its way.                                                       *)
THEOREM SentInFileOrder == Spec => []ReplayInOrder
<1>1. ASSUME TypeOK, HeldOnce(Held, Twice), HeldInOrder(Held, Texts, Twice)
      PROVE  ReplayInOrder
  <2> SUFFICES ASSUME NEW f \in Files, NEW i \in DOMAIN file[f].text,
                      NEW j \in DOMAIN file[f].text, i < j,
                      ~Doubled(file[f].text[i]), ~Doubled(file[f].text[j]),
                      NEW k \in DOMAIN wire, NEW l \in DOMAIN wire,
                      wire[k] = file[f].text[i], wire[l] = file[f].text[j]
               PROVE  k < l
    BY DEF ReplayInOrder
  <2>1. file[f].text[i] \notin Twice /\ file[f].text[j] \notin Twice
    BY DEF Twice
  <2>2. Held[0] = wire /\ 0 \in Boxes /\ Texts[f] = file[f].text
    BY <1>1, HeldNow, TextNow, BoxFacts DEF HeldFacts, TextFacts
  <2>3. PICK p \in DOMAIN Held[0] : p < l /\ Held[0][p] = Texts[f][i]
    BY <1>1, <2>1, <2>2, InOrderAt
  <2>4. p = k
    BY <1>1, <2>1, <2>2, <2>3, OnceAt
  <2> QED BY <2>3, <2>4
<1>2. IInv => ReplayInOrder
  BY <1>1 DEF IInv, BaseInv, ReplayInv
<1> QED BY <1>2, Invariance, PTL

(* What _shutdown_files_going has read is sent, filed again, or lost with  *)
(* the connection it was read for.                                         *)
THEOREM NothingReadIsDropped == Spec => []ReplayKeeps
<1>1. IInv => ReplayKeeps
  BY DEF IInv, ReplayInv
<1> QED BY <1>1, Invariance, PTL
=============================================================================
