------------------------------- MODULE W5Com -------------------------------
(***************************************************************************)
(* api_cmd talking to a W5 camera: the search for it on the serial ports   *)
(* and on the I2C bus (establishConnection, w5_com.c, connection_*.c), the  *)
(* command and answer frames with their retries (protocol_uart.c,          *)
(* protocol_i2c.c), and the main loop that sends a command chunk by chunk  *)
(* and reads its result chunk by chunk (api_cmd.c).                        *)
(*                                                                         *)
(* The camera and the wire are not in this repository: they are modelled   *)
(* from how the host uses them.  Either may lose, damage, cut short or     *)
(* delay a frame; the host's 1.1 s without a byte (READ_RETRIES reads of   *)
(* 0.1 s) may end before or after an answer is on its way.                 *)
(*                                                                         *)
(* Bytes are counted in units: an acknowledgement is shorter than a        *)
(* command, and a command shorter than a result, which is all the host's   *)
(* reads by length can tell apart.                                         *)
(*                                                                         *)
(* Over I2C neither end sees the other: W5connFtdi4222Write transmits its  *)
(* counter of bytes instead of the frame, and W5connFtdi4222Read copies    *)
(* the answer over its counter instead of into the buffer, so the check    *)
(* reads what malloc left there.  As a frame damaged on the wire never has *)
(* a right checksum here, that memory never happens to be a frame.         *)
(***************************************************************************)
EXTENDS Integers, Sequences, SequencesExt

CONSTANTS
    Ports,            \* serial ports to try: MAX_COMM_PORT_NUMBER, 99
    NumWrites,        \* commands of the script, or chunks of the one command
    Chunks,           \* chunks of the result the camera keeps for a command
    MaxRead,          \* data units one result can carry (maxReadSize)
    COMMAND_RETRIES,  \* 8 in protocol.h
    MAX_QUERY_RETRY   \* 10 in api_cmd.c, and the literal of w5_com.c

ASSUME W5Assumption ==
    /\ Ports \in Nat \ {0}
    /\ NumWrites \in Nat \ {0} /\ Chunks \in Nat \ {0} /\ MaxRead \in Nat \ {0}
    /\ COMMAND_RETRIES \in Nat \ {0} /\ MAX_QUERY_RETRY \in Nat \ {0}

VARIABLES
    \* the program
    script,     \* script mode: every command is one chunk, the last of its kind
    given,      \* the protocol the command line asks for, or none
    proto,      \* the protocol of the connection in use or being tried
    port,       \* portNum of establishConnection
    pc,         \* where the program is
    call,       \* the library call in progress: info, infoq, state, write or query
    cur,        \* the command or chunk the main loop is at, 0 while connecting
    tries,      \* retries of sendW5UartCommand
    duplex,     \* uartInfo.duplex
    got,        \* what the read in progress has so far
    ret,        \* what the call returned
    rsp,        \* and the frame it returned, when ok
    msgId,      \* msgIdPtr of the last W5comCallApi
    ask,        \* the chunk number of the query
    queryRetry, \* queries left for this chunk
    readChunk,  \* readChunkNum
    toRead,     \* sizeToRead (sizeNeeded - sizeReceived while connecting), or NoSize
    output,     \* what the query loop put out for this command
    \* the wire and the camera
    line,       \* units on their way to the host, or in its tty buffer
    inbox,      \* commands on their way to the camera
    accepted,   \* what the camera took, in order; its message ids are the indices
    late        \* history: api_get_info timed out before this camera attended to it

connVars == <<given, proto, port, late>>
callVars == <<tries, got, ret, rsp>>
loopVars == <<msgId, ask, queryRetry, readChunk, toRead, output>>
camVars  == <<line, inbox, accepted>>
vars     == <<script, connVars, pc, call, cur, duplex, callVars, loopVars, camVars>>

NoSize  == -1           \* QUERY_SPECIFIER max: noSizeGiven
NoQuery == -2           \* QUERY_SPECIFIER noquery
Dup    == {"half", "full"}
Given  == {"none", "uart", "i2c"}
Code   == {"ACK", "NACK_CS", "NACK_BUSY", "NACK_ERR"}
Status == {"UNAVAILABLE", "PENDING", "DONE", "FAIL"}

---------------------------------------------------------------------------
(* Frames.  sum: the checksum matches.  last: bit 15 of the chunk number.  *)

Blank == [type |-> "echo", code |-> "ACK", id |-> 0, status |-> "DONE",
          chunk |-> 0, last |-> FALSE, len |-> 0, sum |-> TRUE]

Size(type) == CASE type = "ack" -> 1 [] type = "echo" -> 2 [] type = "result" -> 3

\* The units of a frame, in the order they cross the wire.
Units(f) == [k \in 1..Size(f.type) |-> [frame |-> f, at |-> k]]

\* What a command is known by: api_get_info, api_get_gw5_state, or its turn in
\* the main loop.
GetState == -1
Of == IF call = "state" THEN GetState ELSE cur

\* The command of the call in progress: W5comCallApi or W5comCallQuery.
IsApi == call \in {"info", "state", "write"}
Asked == IF toRead = NoSize THEN MaxRead ELSE toRead
Command == IF IsApi
           THEN [type |-> "geo", of |-> Of, id |-> 0, chunk |-> 0, size |-> 0]
           ELSE [type |-> "query", of |-> 0, id |-> msgId, chunk |-> ask,
                 size |-> Asked]

\* The answer the host reads for: rspMsgType.
Expected == IF IsApi THEN "ack" ELSE "result"

\* Mutant: whatever arrives is taken for the answer that was waited for.
FramedByLength(us, type) == TRUE

\* The frame check of receiveW5UartResponse: start, type, end.
Framed(us, type) == /\ us = Units(us[1].frame)
                    /\ us[1].frame.type = type

\* What receiveW5UartResponse returns for the units it read.  A failed
\* checksum, a NACK_ERR and a frame of another shape all end the call.
Outcome(us) ==
    IF ~Framed(us, Expected) \/ ~us[1].frame.sum THEN "failed"
    ELSE CASE us[1].frame.code = "ACK" -> "ok"
           [] us[1].frame.code = "NACK_CS" -> "cs"
           [] us[1].frame.code = "NACK_BUSY" -> "busy"
           [] us[1].frame.code = "NACK_ERR" -> "failed"

---------------------------------------------------------------------------
(* protocol_uart.c: send, receive, retry                                   *)

\* A library call begins: the command queue of one command is processed.
Begin(c) == /\ call' = c /\ pc' = "send" /\ tries' = COMMAND_RETRIES
            /\ got' = <<>> /\ ret' = "ok" /\ rsp' = Blank

\* The call returns to its caller.
Return(r, f) == /\ pc' = "back" /\ ret' = r /\ rsp' = f /\ got' = <<>>
                /\ UNCHANGED tries

\* sendW5UartCommand writes the frame, whole; half duplex: it comes back.
Send == /\ pc = "send" /\ proto = "uart"
        /\ inbox' = Append(inbox, Command)
        /\ IF duplex = "half"
           THEN pc' = "echo" /\ line' = line \o Units(Blank)
           ELSE pc' = "recv" /\ UNCHANGED line
        /\ UNCHANGED <<script, connVars, call, cur, duplex, callVars, loopVars, accepted>>

\* write() fails, or writes less than the frame: the camera ignores a stub.
SendFails == /\ pc = "send"
             /\ Return("failed", Blank)
             /\ UNCHANGED <<script, connVars, call, cur, duplex, loopVars, camVars>>

\* The read-back of a half duplex UART: as many bytes as were sent, unseen.
Echo == /\ pc = "echo" /\ line # <<>>
        /\ line' = Tail(line)
        /\ IF Len(got) + 1 = Size("echo")
           THEN pc' = "recv" /\ got' = <<>>
           ELSE pc' = "echo" /\ got' = Append(got, Head(line))
        /\ UNCHANGED <<script, connVars, call, cur, duplex, tries, ret, rsp, loopVars, inbox,
                       accepted>>

\* A read of receiveW5UartResponse that returns bytes, short of the answer.
Receive == /\ pc = "recv" /\ line # <<>> /\ Len(got) + 1 < Size(Expected)
           /\ got' = Append(got, Head(line)) /\ line' = Tail(line)
           /\ UNCHANGED <<script, connVars, pc, call, cur, duplex, tries, ret, rsp, loopVars,
                          inbox, accepted>>

\* The time-out ends api_get_info, which W5comConnect ignores, and its answer is still to come.
Overtaken == late' = (late \/ (call = "info" /\ inbox # <<>>))

\* Mutant: a time-out is retried like a refused checksum.
TimeOutResend == /\ pc = "recv" /\ proto = "uart" /\ line = <<>>
                 /\ IF tries > 1
                    THEN pc' = "send" /\ tries' = tries - 1 /\ got' = <<>>
                         /\ UNCHANGED <<ret, rsp>>
                    ELSE Return("failed", Blank)
                 /\ Overtaken
                 /\ UNCHANGED <<script, given, proto, port, call, cur, duplex, loopVars, camVars>>

\* READ_RETRIES + 1 reads in a row without a byte.
TimeOut == /\ pc = "recv" /\ proto = "uart" /\ line = <<>>
           /\ Return("failed", Blank)
           /\ Overtaken
           /\ UNCHANGED <<script, given, proto, port, call, cur, duplex, loopVars, camVars>>

\* The command is sent again after NACK_CS, COMMAND_RETRIES times in all, and
\* after NACK_BUSY without a limit.
Resend(n) == /\ pc' = "send" /\ tries' = n /\ got' = <<>> /\ UNCHANGED <<ret, rsp>>

\* Mutant: the retries after NACK_CS are not counted.
AfterUncounted(r, f) ==
    \/ r \in {"cs", "busy"} /\ Resend(tries)
    \/ r = "ok" /\ Return("ok", f)
    \/ r = "failed" /\ Return("failed", Blank)

\* What W5protoUartProcessW5Commands does with the outcome of an attempt.
After(r, f) ==
    \/ /\ r = "cs" /\ tries > 1
       /\ Resend(tries - 1)
    \/ /\ r = "cs" /\ tries = 1
       /\ Return("failed", Blank)
    \/ /\ r = "busy"
       /\ Resend(tries)
    \/ /\ r = "ok" /\ Return("ok", f)
    \/ /\ r = "failed" /\ Return("failed", Blank)

\* The read that completes the answer, the check and the retry loop.
Answered ==
    /\ pc = "recv" /\ line # <<>> /\ Len(got) + 1 = Size(Expected)
    /\ line' = Tail(line)
    /\ LET us == Append(got, Head(line)) IN After(Outcome(us), us[1].frame)
    /\ UNCHANGED <<script, connVars, call, cur, duplex, loopVars, inbox, accepted>>

---------------------------------------------------------------------------
(* protocol_i2c.c and connection_ftdi4222.c: the same over I2C             *)

\* The frames in what W5connFtdi4222Write transmits for a command: none, since
\* msg[0].buf is bytesWrittenPtr.
OnTheBus(cmd) == <<>>

\* What W5connFtdi4222Read leaves in rspBufPtr: the memory as malloc gave it.
Unread == [Blank EXCEPT !.sum = FALSE]

\* sendW5I2cCommand: the write and the read of the answer are one I2C_RDWR.
I2cSend == /\ pc = "send" /\ proto = "i2c"
           /\ pc' = "recv" /\ inbox' = inbox \o OnTheBus(Command)
           /\ UNCHANGED <<script, connVars, call, cur, duplex, callVars, loopVars, line,
                          accepted>>

\* W5protoI2cProcessW5Commands: the retries are those of the UART.
I2cAfter(r, f) == After(r, f)

\* receiveW5I2cResponse: the bytes are there, as many as were asked for.
I2cReceive == /\ pc = "recv" /\ proto = "i2c"
              /\ I2cAfter(Outcome(Units(Unread)), Unread)
              /\ UNCHANGED <<script, connVars, call, cur, duplex, loopVars, camVars>>

---------------------------------------------------------------------------
(* w5_com.c, connection_*.c, establishConnection: connecting *)

\* establishConnection after an attempt that failed: without a protocol from the
\* command line the next port, then I2C; with one, the end.
TryNext ==
    \/ /\ given = "none" /\ proto = "uart" /\ port < Ports
       /\ port' = port + 1 /\ pc' = "open" /\ UNCHANGED proto
    \/ /\ given = "none" /\ proto = "uart" /\ port = Ports
       /\ proto' = "i2c" /\ pc' = "open" /\ UNCHANGED port
    \/ /\ given # "none" \/ proto = "i2c"
       /\ pc' = "exit" /\ UNCHANGED <<proto, port>>

\* A step of W5comConnect short of the first command.
Connecting(p, from, to) ==
    /\ proto = p /\ pc = from /\ pc' = to
    /\ UNCHANGED <<script, connVars, call, cur, duplex, callVars, loopVars, camVars>>

\* W5connSerialOpen: /dev/ttyS<port> is there.
SerialOpens == Connecting("uart", "open", "config")

\* W5connSerialConfigure: the line takes the speed and the parity.
SerialConfigures == Connecting("uart", "config", "attach")

\* W5connFtdi4222Open looks for a descriptor 0: a missing device passes.
I2cOpens == Connecting("i2c", "open", "config")

\* W5connFtdi4222ConfigureI2c: ioctl I2C_SLAVE, where a missing device shows.
I2cConfigures == Connecting("i2c", "config", "attach")

\* detectDuplex writes four bytes and looks whether they come back.
DetectDuplex == duplex' \in Dup

\* W5protoUartAttach, and the first command: api_get_info.
UartAttaches == /\ proto = "uart" /\ pc = "attach" /\ DetectDuplex /\ Begin("info")
                /\ UNCHANGED <<script, connVars, cur, loopVars, camVars>>

\* W5protoI2cAttach, and the first command.
I2cAttaches == /\ proto = "i2c" /\ pc = "attach" /\ Begin("info")
               /\ UNCHANGED <<script, connVars, cur, duplex, loopVars, camVars>>

\* configureConnection or the open before it fails: the port is closed again.
ConnectFails == /\ \/ proto = "uart" /\ pc \in {"open", "config", "attach"}
                   \/ proto = "i2c" /\ pc = "config"
                /\ TryNext
                /\ UNCHANGED <<script, given, late, call, cur, duplex, callVars, loopVars, camVars>>

\* The program comes to the main loop.
Enter == /\ pc' = "next" /\ UNCHANGED <<call, tries, got>> /\ ret' = "ok" /\ rsp' = Blank

\* getMaxPayloadSizeFromW5 is over, with a size or without: W5comConnect returns
\* ok either way, and a port that was only tried is asked for the state.
Connected == /\ queryRetry' = MAX_QUERY_RETRY /\ ask' = 0 /\ toRead' = 0
             /\ IF given = "none" THEN Begin("state") ELSE Enter

\* Its next query: chunkNumber is a local that nothing set.
InfoQuery(n, left) == /\ \E c \in 0..Chunks : ask' = c
                      /\ Begin("infoq") /\ queryRetry' = n /\ toRead' = left

\* W5comCallApi(api_get_info) returns.
InfoAcked ==
    /\ pc = "back" /\ call = "info"
    /\ \/ /\ ret = "ok" /\ msgId' = rsp.id
          /\ InfoQuery(MAX_QUERY_RETRY, MaxRead)
       \/ /\ ret = "failed" /\ Connected /\ UNCHANGED msgId
    /\ UNCHANGED <<script, connVars, cur, duplex, readChunk, output, camVars>>

\* W5comCallQuery checks the message id of the answer.
QueryOk == ret = "ok" /\ rsp.id = msgId

\* W5comCallQuery returns to getMaxPayloadSizeFromW5.
InfoAnswered ==
    /\ pc = "back" /\ call = "infoq"
    /\ LET empty == rsp.status = "PENDING" \/ (rsp.status = "DONE" /\ rsp.len = 0)
       IN \/ /\ QueryOk /\ empty /\ queryRetry > 1
             /\ InfoQuery(queryRetry - 1, toRead)
          \/ /\ QueryOk /\ rsp.status = "DONE" /\ rsp.len \in 1..toRead - 1
             /\ InfoQuery(queryRetry, toRead - rsp.len)
          \/ /\ \/ ~QueryOk \/ rsp.status \in {"FAIL", "UNAVAILABLE"}
                \/ empty /\ queryRetry = 1
                \/ rsp.status = "DONE" /\ rsp.len >= toRead
             /\ Connected
    /\ UNCHANGED <<script, connVars, cur, duplex, msgId, readChunk, output, camVars>>

\* W5protoUartDetach and W5protoI2cDetach.
Detach == duplex' = "unspecified"

\* W5connSerialClose: what was on its way is lost; another port is another
\* camera.
Close == line' = <<>> /\ inbox' = <<>> /\ accepted' = <<>> /\ late' = FALSE

\* W5comDisconnect.
Disconnect == /\ Detach /\ Close /\ call' = "info" /\ msgId' = 0
              /\ tries' = COMMAND_RETRIES /\ got' = <<>> /\ ret' = "ok" /\ rsp' = Blank

\* W5comCallApi(api_get_gw5_state) returns to establishConnection.
StateAcked ==
    /\ pc = "back" /\ call = "state"
    /\ \/ /\ ret = "ok" /\ Enter
          /\ UNCHANGED <<proto, port, late, duplex, msgId, camVars>>
       \/ /\ ret = "failed" /\ Disconnect /\ TryNext
    /\ UNCHANGED <<script, given, cur, ask, queryRetry, readChunk, toRead, output>>

---------------------------------------------------------------------------
(* api_cmd.c: the main loop *)

\* In script mode each command is a chunk numbered LAST_CHUNK_MASK.
IsLast(i) == script \/ i = NumWrites

\* A command, or a chunk of the one command, goes out.
Write(i) == cur' = i /\ output' = <<>> /\ Begin("write")

\* readApiCmdFromFile finds a command in a line of the script.
NextLine == script /\ cur < NumWrites /\ Write(cur + 1)

\* The command of the command line, then the chunks of its file.
NextChunk == ~script /\ cur < NumWrites /\ Write(cur + 1)

\* Nothing is left, or a line or the file cannot be read: the loop ends.
NothingMore == pc' = "exit" /\ UNCHANGED <<cur, call, callVars, output>>

\* The top of the main loop.
NextWrite ==
    /\ pc = "next"
    /\ NextLine \/ NextChunk \/ NothingMore
    /\ UNCHANGED <<script, connVars, duplex, msgId, ask, queryRetry, readChunk, toRead, camVars>>

\* Mutant: the query keeps asking for the first chunk.
QueryFirstChunk(c) == /\ readChunk' = c /\ ask' = 0 /\ queryRetry' = MAX_QUERY_RETRY
                      /\ Begin("query")

\* Ask for chunk c of the result, from a fresh count of retries.
QueryChunk(c) == /\ readChunk' = c /\ ask' = c /\ queryRetry' = MAX_QUERY_RETRY
                 /\ Begin("query")

\* The query loop is over, or was not entered.
Leave == /\ pc' = "next" /\ ret' = "ok" /\ rsp' = Blank /\ readChunk' = 0 /\ ask' = 0
         /\ toRead' = 0 /\ queryRetry' = MAX_QUERY_RETRY /\ UNCHANGED <<call, tries, got>>

\* What parseReadSize makes of a query specifier; any other ends the program.
Specifier == {NoQuery, NoSize} \cup 0..MaxRead

\* W5comCallApi returns to the main loop, which reads the result only after the
\* last chunk, and only if the query specifier asks for it.
WriteAcked ==
    /\ pc = "back" /\ call = "write"
    /\ \/ /\ ret = "failed" /\ pc' = "exit"
          /\ UNCHANGED <<call, callVars, loopVars>>
       \/ /\ ret = "ok" /\ IsLast(cur) /\ msgId' = rsp.id
          /\ \E n \in Specifier : IF n = NoQuery THEN Leave
                                ELSE toRead' = n /\ QueryChunk(0)
          /\ UNCHANGED output
       \/ /\ ret = "ok" /\ ~IsLast(cur) /\ msgId' = rsp.id /\ Leave /\ UNCHANGED output
    /\ UNCHANGED <<script, connVars, cur, duplex, camVars>>

\* Mutant: one retry too many.
IsPendingOneMore == rsp.status = "PENDING" /\ queryRetry > 0

\* A PENDING answer with retries left asks for the same chunk again.
IsPending == rsp.status = "PENDING" /\ queryRetry > 1

Pending ==
    /\ pc = "back" /\ call = "query" /\ QueryOk /\ IsPending
    /\ ask' = rsp.chunk /\ queryRetry' = queryRetry - 1 /\ Begin("query")
    /\ UNCHANGED <<script, connVars, cur, duplex, msgId, readChunk, toRead, output, camVars>>

\* Any other good answer is put out, and the next chunk asked for until the last
\* one, or until there is nothing left to read.
Left == IF toRead = NoSize THEN NoSize ELSE toRead - rsp.len

GoOn == ~rsp.last /\ Left # 0

ChunkRead ==
    /\ pc = "back" /\ call = "query" /\ QueryOk /\ ~IsPending
    /\ output' = IF rsp.len = 0 THEN output
                 ELSE Append(output, [id |-> rsp.id, chunk |-> rsp.chunk])
    /\ IF GoOn THEN QueryChunk(readChunk + 1) /\ toRead' = Left ELSE Leave
    /\ UNCHANGED <<script, connVars, cur, duplex, msgId, camVars>>

\* A query that failed ends the command; the loop moves on to the next.
QueryFailed ==
    /\ pc = "back" /\ call = "query" /\ ~QueryOk
    /\ Leave
    /\ UNCHANGED <<script, connVars, cur, duplex, msgId, output, camVars>>

---------------------------------------------------------------------------
(* The camera and the wire (not in this repository)                        *)

Reply(cmd) == [Blank EXCEPT !.type = IF cmd.type = "geo" THEN "ack" ELSE "result"]

\* An answer reaches the host whole, with a wrong checksum, cut short, or never;
\* what a damaged one says is never looked at.
Answer(f) == LET damaged == [Blank EXCEPT !.type = f.type, !.sum = FALSE]
             IN \/ line' = line \o Units(f)
                \/ line' = line \o Units(damaged)
                \/ f.type = "result" /\ line' = line \o Front(Units(damaged))
                \/ UNCHANGED line

\* The command never reaches the camera.
LoseCommand == /\ inbox # <<>> /\ inbox' = Tail(inbox)
               /\ UNCHANGED <<line, accepted>>

\* A full queue.
Busy == /\ inbox # <<>> /\ inbox' = Tail(inbox)
        /\ Answer([Reply(Head(inbox)) EXCEPT !.code = "NACK_BUSY"])
        /\ UNCHANGED accepted

\* A damaged command, or an invalid one.
Refuse == /\ inbox # <<>> /\ inbox' = Tail(inbox)
          /\ \E c \in {"NACK_CS", "NACK_ERR"} : Answer([Reply(Head(inbox)) EXCEPT !.code = c])
          /\ UNCHANGED accepted

\* A command is taken, and given a message id.
TakeCommand == /\ inbox # <<>> /\ Head(inbox).type = "geo" /\ inbox' = Tail(inbox)
               /\ accepted' = Append(accepted, Head(inbox).of)
               /\ Answer([Reply(Head(inbox)) EXCEPT !.id = Len(accepted) + 1])

\* A query of a chunk the result has; bit 15 marks the last one.
TakeQuery ==
    /\ inbox # <<>> /\ Head(inbox).type = "query" /\ inbox' = Tail(inbox)
    /\ LET q == Head(inbox)
       IN /\ q.chunk < Chunks
          /\ \E s \in Status, l \in BOOLEAN, n \in 0..q.size :
                /\ s = "PENDING" => ~l
                /\ s = "DONE" => (l <=> q.chunk = Chunks - 1)
                /\ Answer([Reply(q) EXCEPT !.id = q.id, !.status = s, !.chunk = q.chunk,
                                           !.last = l, !.len = n])
    /\ UNCHANGED accepted

\* The camera attends to a command in some way other than "busy".
Attends == /\ LoseCommand \/ Refuse \/ TakeCommand \/ TakeQuery
           /\ UNCHANGED <<script, connVars, pc, call, cur, duplex, callVars, loopVars>>

IsBusy == /\ Busy
          /\ UNCHANGED <<script, connVars, pc, call, cur, duplex, callVars, loopVars>>

---------------------------------------------------------------------------
Init == /\ script \in BOOLEAN
        /\ given \in Given /\ proto = (IF given = "i2c" THEN "i2c" ELSE "uart") /\ port = 1
        /\ pc = "open" /\ call = "info" /\ cur = 0
        /\ duplex = "unspecified"
        /\ tries = COMMAND_RETRIES /\ got = <<>> /\ ret = "ok" /\ rsp = Blank
        /\ msgId = 0 /\ ask = 0 /\ queryRetry = MAX_QUERY_RETRY /\ readChunk = 0
        /\ toRead = 0 /\ output = <<>>
        /\ line = <<>> /\ inbox = <<>> /\ accepted = <<>> /\ late = FALSE

Connect == SerialOpens \/ SerialConfigures \/ UartAttaches \/ I2cOpens \/ I2cConfigures
           \/ I2cAttaches \/ ConnectFails \/ InfoAcked \/ InfoAnswered \/ StateAcked
Library == Connect \/ Send \/ SendFails \/ Echo \/ Receive \/ TimeOut \/ Answered
           \/ I2cSend \/ I2cReceive
MainLoop == NextWrite \/ WriteAcked \/ Pending \/ ChunkRead \/ QueryFailed
Next == Library \/ MainLoop \/ Attends \/ IsBusy

Spec == Init /\ [][Next]_vars

\* The program runs until it ends, and a camera that is asked again and again is
\* not busy every time; it may still refuse, lose or damage every frame.
Fairness == WF_vars(Library) /\ WF_vars(MainLoop) /\ SF_vars(Attends)

LiveSpec == Spec /\ Fairness
---------------------------------------------------------------------------
(* Properties *)

Frame == [type : {"ack", "echo", "result"}, code : Code, id : 0..Len(accepted),
          status : Status, chunk : 0..Chunks, last : BOOLEAN, len : 0..MaxRead,
          sum : BOOLEAN]

TypeOK ==
    /\ given \in Given /\ proto \in {"uart", "i2c"} /\ port \in 1..Ports
    /\ pc \in {"open", "config", "attach", "send", "echo", "recv", "back", "next", "exit"}
    /\ call \in {"info", "infoq", "state", "write", "query"}
    /\ script \in BOOLEAN /\ duplex \in Dup \cup {"unspecified"}
    /\ cur \in 0..NumWrites
    /\ tries \in 1..COMMAND_RETRIES /\ queryRetry \in 1..MAX_QUERY_RETRY
    /\ ret \in {"ok", "failed"} /\ rsp \in Frame
    /\ Len(got) < Size("result")
    /\ msgId \in 0..Len(accepted)
    /\ ask \in 0..Chunks /\ readChunk \in 0..Chunks
    /\ toRead \in NoSize..MaxRead
    /\ \A i \in 1..Len(line) : line[i].frame \in Frame
    /\ \A i \in 1..Len(accepted) : accepted[i] \in GetState..NumWrites

\* "Message ID assigned to the command by device" (w5_com.h:394): when W5comCallApi
\* returns ok, and as long as the program queries it, the message id is the one
\* the camera gave to the command just sent, not to an earlier one.  Nor does the
\* search end at a port ("Connected to W5 by UART-COM%d") where no camera took
\* the command that asks for its state.  The code does not keep this: when
\* api_get_info times out (protocol_uart.c:275-281), W5comConnect goes on all the
\* same (w5_com.c:277), and an answer of the camera that comes after the time-out
\* is read as that of the next command.
OwnAck == /\ (pc = "back" /\ IsApi /\ ret = "ok" => accepted[rsp.id] = Of)
          /\ (call = "query" /\ pc # "next" => accepted[msgId] = cur)
          /\ (given = "none" /\ pc = "next" => \E i \in 1..Len(accepted) : accepted[i] = GetState)

\* That exception is the only one: every acknowledgement is the command's own
\* unless api_get_info of this connection timed out before the camera attended to
\* it, whatever other frame is lost, damaged, cut short or late.
AckIsOwn == ~late => OwnAck

\* The camera takes the chunks of a command, or the commands of a script, in
\* order, each once, and the program is never further than the one it waits
\* for: a lost answer or a damaged frame neither repeats nor skips one.
InOrder ==
    /\ \A i, j \in 1..Len(accepted) :
          i < j /\ accepted[i] > 0 /\ accepted[j] > 0 => accepted[i] < accepted[j]
    /\ \A n \in 1..(cur - 1) : \E i \in 1..Len(accepted) : accepted[i] = n
    /\ \A i \in 1..Len(accepted) : accepted[i] <= cur

\* ... unless the answer to api_get_info is late, as for AckIsOwn.
ChunksInOrder == ~late => InOrder

\* What the program puts out as the result of a command is the result of that
\* command, chunk after chunk, however late the answers of earlier queries come.
OwnOutput == \A i \in 1..Len(output) :
                /\ accepted[output[i].id] = cur
                /\ i > 1 => output[i - 1].chunk < output[i].chunk

\* ... unless the answer to api_get_info is late, as for AckIsOwn.
OutputIsOwn == ~late => OwnOutput

\* The program ends: it does not retry, ask or read for ever.
Ends == <>(pc = "exit")

=============================================================================
