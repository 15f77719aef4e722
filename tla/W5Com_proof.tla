----------------------------- MODULE W5Com_proof -----------------------------
(***************************************************************************)
(* Proofs about W5Com.  The invariant holds of a connection until          *)
(* api_get_info times out before the camera has attended to it; from there *)
(* on little is known but that W5comDisconnect brings the invariant back.  *)
(***************************************************************************)
EXTENDS W5Com, SequenceTheorems, TLAPS

-----------------------------------------------------------------------------
(* The invariant.                                                          *)

Ids == 1..Len(accepted)
Commands == [type : {"geo", "query"}, of : GetState..NumWrites, id : 0..Len(accepted),
             chunk : 0..Chunks, size : 0..MaxRead]
UnitOf == [frame : Frame, at : 1..3]
Outputs == [id : Ids, chunk : 0..Chunks]

\* What the variables hold, those of the wire and the camera included.
Types ==
    /\ TypeOK
    /\ accepted \in Seq(GetState..NumWrites)
    /\ inbox \in Seq(Commands)
    /\ line \in Seq(UnitOf) /\ got \in Seq(UnitOf)
    /\ output \in Seq(Outputs)

\* Nothing is on its way to the camera or from it.
Quiet == line = <<>> /\ inbox = <<>>

\* How the places of the program, its call and what has been read go together.
PhaseInv ==
    /\ call \in {"info", "infoq", "state"} <=> cur = 0
    /\ pc \in {"open", "config", "attach"} => call = "info" /\ Quiet /\ accepted = <<>>
    /\ proto = "i2c" => Quiet
    /\ pc \notin {"echo", "recv"} => got = <<>>
    /\ pc = "echo" => Len(got) < Size("echo")
    /\ pc = "recv" => Len(got) < Size(Expected)
    /\ cur = 0 \/ call = "write" => output = <<>>
    /\ call = "infoq" /\ pc \notin {"next", "exit"} => toRead > 0
    /\ pc = "back" /\ ret = "ok" => Quiet
    /\ pc = "back" /\ call = "info" => Quiet

\* The calls that begin with nothing on its way: what is on its way and what has been read
\* are the echo and one answer at most, or the command is still to be answered.
Clean == call \in {"info", "infoq", "query"}
CleanInv ==
    Clean =>
        /\ pc = "send" => Quiet
        /\ call = "info" => \A i \in 1..Len(inbox) : inbox[i].type = "geo"
        /\ pc \in {"echo", "recv"} =>
              /\ Len(inbox) <= 1
              /\ Len(got) + Len(line) <= (IF pc = "echo" THEN Size("echo") ELSE 0)
                                         + (IF inbox = <<>> THEN Size(Expected) ELSE 0)

\* The camera has not taken the command that the main loop is at.
Untaken == call = "write" => \A i \in Ids : accepted[i] # cur
\* Commands and acknowledgements on their way are of the call in progress: one of them, the last
\* thing on its way.  Queries and results may be older.
Waiting == IsApi /\ pc \in {"echo", "recv", "back", "exit"}
CommandInv ==
    \A i \in 1..Len(inbox) : inbox[i].type = "geo" =>
        /\ i = Len(inbox) /\ inbox[i].of = Of /\ Waiting /\ Untaken
        /\ \A k \in 1..Len(line) : line[k].frame.type # "ack"
AckInv ==
    \A k \in 1..Len(line) : line[k].frame.type = "ack" =>
        /\ k = Len(line) /\ inbox = <<>> /\ Waiting
        /\ line[k].frame.sum =>
              IF line[k].frame.code = "ACK"
              THEN line[k].frame.id \in Ids /\ accepted[line[k].frame.id] = Of
              ELSE Untaken

\* The answers a query can take are those to itself.
Answers(f) == f.chunk = ask /\ f.chunk < Chunks /\ (toRead # NoSize => f.len <= toRead)
Good(f) == f.type = "result" /\ f.sum /\ f.code = "ACK"
QueryInv ==
    call = "query" /\ pc \in {"send", "echo", "recv"} =>
        /\ \A i \in 1..Len(inbox) : inbox[i].chunk = ask /\ (toRead # NoSize => inbox[i].size <= toRead)
        /\ \A k \in 1..Len(line) : Good(line[k].frame) => Answers(line[k].frame)
        /\ \A k \in 1..Len(got) : Good(got[k].frame) => Answers(got[k].frame)

\* What a call has returned.
ReturnInv ==
    pc = "back" /\ ret = "ok" =>
        /\ IsApi => rsp.id \in Ids /\ accepted[rsp.id] = Of
        /\ call = "query" => Answers(rsp)

\* The command that the main loop is at: sent once, taken once the camera has acknowledged it.
Acknowledged == pc = "next" \/ call = "query" \/ (call = "write" /\ pc = "back" /\ ret = "ok")
TakenInv ==
    /\ InOrder
    /\ pc = "send" => Untaken
    /\ Acknowledged => cur = 0 \/ \E i \in Ids : accepted[i] = cur
    /\ given = "none" /\ (pc = "next" \/ call \in {"write", "query"}) =>
          \E i \in Ids : accepted[i] = GetState

\* What the program has put out.
LoopInv ==
    /\ OwnOutput
    /\ call = "query" =>
          /\ msgId \in Ids /\ accepted[msgId] = cur
          /\ pc \in {"send", "echo", "recv", "back"} =>
                ask = readChunk /\ \A i \in 1..Len(output) : output[i].chunk < readChunk

Inv == /\ Types /\ PhaseInv /\ CleanInv /\ CommandInv /\ AckInv
       /\ QueryInv /\ ReturnInv /\ TakenInv /\ LoopInv

\* What is known once api_get_info was given up too early: what W5comDisconnect leaves alone.
Settled == /\ cur = 0 /\ output = <<>> /\ queryRetry \in 1..MAX_QUERY_RETRY
           /\ ask \in 0..Chunks /\ readChunk \in 0..Chunks /\ toRead \in NoSize..MaxRead
Adrift ==
    /\ script \in BOOLEAN /\ given \in Given /\ proto \in {"uart", "i2c"} /\ port \in 1..Ports
    /\ pc \in {"send", "echo", "recv", "back", "next", "exit"}
    /\ call \in {"info", "state", "write", "query"}
    /\ call = "info" => pc \in {"next", "exit"} \/ (pc = "back" /\ ret = "failed")
    /\ call \in {"info", "state"} => Settled

LateInv == late \in BOOLEAN /\ (late => Adrift) /\ (~late => Inv)

-----------------------------------------------------------------------------
(* Frames, units and answers.                                              *)

LEMMA BlankIsFrame == Blank \in Frame /\ \A f \in Frame : f.type \in {"ack", "echo", "result"}
BY W5Assumption DEF Blank, Frame, Code, Status

\* Frames and commands are those of the ids that have been given.
LEMMA SameIds ==
    ASSUME UNCHANGED accepted
    PROVE  Frame' = Frame /\ UnitOf' = UnitOf /\ Commands' = Commands /\ Outputs' = Outputs
           /\ Ids' = Ids
BY DEF Frame, UnitOf, Commands, Outputs, Ids

LEMMA Sizes == Size("ack") = 1 /\ Size("echo") = 2 /\ Size("result") = 3
BY DEF Size

LEMMA UnitsIn ==
    ASSUME NEW F, NEW f \in F, f.type \in {"ack", "echo", "result"}
    PROVE  /\ Units(f) \in Seq([frame : F, at : 1..3]) /\ Len(Units(f)) = Size(f.type)
           /\ \A k \in 1..Len(Units(f)) : Units(f)[k] = [frame |-> f, at |-> k]
           /\ \A k \in 1..Len(Units(f)) : Units(f)[k].frame = f
           /\ Len(Units(f)) \in 1..3
<1> DEFINE U == [frame : F, at : 1..3]
<1>1. Size(f.type) \in 1..3
  BY Sizes
<1>2. \A k \in 1..Size(f.type) : [frame |-> f, at |-> k] \in U
  BY <1>1
<1> HIDE DEF U
<1>3. /\ Units(f) \in Seq(U) /\ Len(Units(f)) = Size(f.type)
      /\ \A k \in 1..Len(Units(f)) : Units(f)[k] = [frame |-> f, at |-> k]
  BY <1>1, <1>2 DEF Units
<1>4. \A k \in 1..Len(Units(f)) : Units(f)[k].frame = f
  BY <1>3
<1>5. QED
  BY <1>1, <1>3, <1>4 DEF U

LEMMA UnitsOfFrame ==
    ASSUME NEW f \in Frame
    PROVE  /\ Units(f) \in Seq(UnitOf) /\ Len(Units(f)) = Size(f.type)
           /\ \A k \in 1..Len(Units(f)) : Units(f)[k].frame = f
           /\ Len(Units(f)) \in 1..3
BY BlankIsFrame, UnitsIn DEF UnitOf

\* What comes for an answer: units of it or of a damaged one.
LEMMA WhatArrives ==
    ASSUME NEW f \in Frame', Frame \subseteq Frame', f.type \in {"ack", "result"}, Answer(f),
           line \in Seq(UnitOf)
    PROVE  \E us \in Seq(UnitOf') :
              /\ line' = line \o us /\ Len(us) <= Size(f.type)
              /\ \A k \in 1..Len(us) : /\ us[k].frame.type = f.type
                                       /\ us[k].frame.sum => us[k].frame = f
<1> DEFINE damaged == [Blank EXCEPT !.type = f.type, !.sum = FALSE]
           F == Frame'
           U == [frame : F, at : 1..3]
<1>0. f \in F /\ Frame \subseteq F /\ U = UnitOf'
  BY DEF UnitOf
<1> HIDE DEF F
<1>1. damaged \in F /\ damaged.type = f.type /\ damaged.sum = FALSE
  BY <1>0, BlankIsFrame DEF Frame, Blank
<1>2. Size(f.type) \in 1..3
  BY Sizes
<1> HIDE DEF damaged
<1>3. CASE line' = line \o Units(f)
  <2>1. Len(Units(f)) = Size(f.type) /\ \A k \in 1..Len(Units(f)) : Units(f)[k].frame = f
    BY <1>0, UnitsIn
  <2> Units(f) \in Seq(UnitOf')
    BY <1>0, UnitsIn
  <2> WITNESS Units(f) \in Seq(UnitOf')
  <2>2. QED
    BY <1>2, <1>3, <2>1
<1>4. /\ Units(damaged) \in Seq(U) /\ Len(Units(damaged)) = Size(f.type)
      /\ \A k \in 1..Len(Units(damaged)) : Units(damaged)[k].frame = damaged
  BY <1>1, UnitsIn
<1>5. CASE line' = line \o Units(damaged)
  <2> Units(damaged) \in Seq(UnitOf')
    BY <1>0, <1>4
  <2> WITNESS Units(damaged) \in Seq(UnitOf')
  <2>1. QED
    BY <1>1, <1>2, <1>4, <1>5
<1>6. CASE line' = line \o Front(Units(damaged))
  <2> DEFINE us == Units(damaged)
  <2>1. /\ us \in Seq(U) /\ Len(us) = Size(f.type)
        /\ \A k \in 1..Len(us) : us[k].frame = damaged
    BY <1>4
  <2>5. line' = line \o Front(us)
    BY <1>6
  <2> HIDE DEF us, U
  <2>2. Front(us) \in Seq(U) /\ Len(Front(us)) = Len(us) - 1
    BY <1>2, <2>1 DEF Front
  <2>3. \A k \in 1..Len(Front(us)) : Front(us)[k] = us[k]
    BY <1>2, <2>1 DEF Front
  <2>4. \A k \in 1..Len(Front(us)) : Front(us)[k].frame = damaged
    BY <1>2, <2>1, <2>2, <2>3
  <2> Front(us) \in Seq(UnitOf')
    BY <1>0, <2>2
  <2> WITNESS Front(us) \in Seq(UnitOf')
  <2>6. QED
    BY <1>1, <1>2, <2>1, <2>2, <2>4, <2>5
<1>7. CASE UNCHANGED line
  <2>1. line' = line \o <<>> /\ Len(<<>>) = 0
    BY <1>7
  <2> <<>> \in Seq(UnitOf')
    OBVIOUS
  <2> WITNESS <<>> \in Seq(UnitOf')
  <2>2. QED
    BY <1>2, <2>1
<1>8. QED
  BY <1>3, <1>5, <1>6, <1>7 DEF Answer, damaged

\* An attempt succeeds, or is repeated, only on an answer of the kind that was waited for.
LEMMA OutcomeOf ==
    ASSUME NEW us \in Seq(UnitOf), us # <<>>, Outcome(us) # "failed"
    PROVE  /\ us[1].frame \in Frame /\ us[1].frame.type = Expected /\ us[1].frame.sum
           /\ us = Units(us[1].frame) /\ Len(us) = Size(Expected)
           /\ Outcome(us) \in {"ok", "cs", "busy"}
           /\ Outcome(us) = "ok" <=> us[1].frame.code = "ACK"
<1>1. us[1] \in UnitOf
  OBVIOUS
<1>2. us[1].frame \in Frame /\ us[1].frame.code \in {"ACK", "NACK_CS", "NACK_BUSY", "NACK_ERR"}
  BY <1>1 DEF UnitOf, Frame, Code
<1>3. Framed(us, Expected) /\ us[1].frame.sum
  BY DEF Outcome
<1>4. Outcome(us) = CASE us[1].frame.code = "ACK" -> "ok"
           [] us[1].frame.code = "NACK_CS" -> "cs"
           [] us[1].frame.code = "NACK_BUSY" -> "busy"
           [] us[1].frame.code = "NACK_ERR" -> "failed"
  BY <1>3 DEF Outcome
<1>5. /\ Outcome(us) \in {"ok", "cs", "busy"}
      /\ Outcome(us) = "ok" <=> us[1].frame.code = "ACK"
  BY <1>2, <1>4
<1>6. QED
  BY <1>2, <1>3, <1>5, UnitsOfFrame DEF Framed

\* Over I2C the host never finds an answer good.
LEMMA UnreadFails == Outcome(Units(Unread)) = "failed"
<1>1. Unread \in Frame /\ Unread.sum = FALSE
  BY BlankIsFrame DEF Unread, Frame, Blank
<1>2. Units(Unread)[1].frame = Unread
  BY <1>1, UnitsOfFrame, Sizes, BlankIsFrame
<1>3. QED
  BY <1>1, <1>2 DEF Outcome

-----------------------------------------------------------------------------
(* Steps that leave the wire alone or find it quiet.                       *)

LEMMA QuietWire ==
    ASSUME Quiet'
    PROVE  /\ CommandInv' /\ AckInv'
           /\ Len(line)' = 0 /\ Len(inbox)' = 0
BY DEF Quiet, CommandInv, AckInv

\* Outside the call that sent it no command is on its way, and no acknowledgement.
LEMMA NotWaiting ==
    ASSUME CommandInv, AckInv, ~Waiting
    PROVE  /\ \A i \in 1..Len(inbox) : inbox[i].type # "geo"
           /\ \A k \in 1..Len(line) : line[k].frame.type # "ack"
BY DEF CommandInv, AckInv

LEMMA WireKept ==
    ASSUME CommandInv, AckInv, UNCHANGED camVars,
           ~Waiting \/ (Waiting' /\ UNCHANGED <<call, cur>>)
    PROVE  CommandInv' /\ AckInv'
<1>1. UNCHANGED <<line, inbox, accepted>> /\ Ids' = Ids
  BY DEF camVars, Ids
<1>2. CASE ~Waiting
  BY <1>1, <1>2, NotWaiting DEF CommandInv, AckInv
<1>3. CASE Waiting' /\ UNCHANGED <<call, cur>>
  <2>1. Of' = Of /\ (Untaken' <=> Untaken)
    BY <1>1, <1>3 DEF Of, Untaken
  <2>2. CommandInv'
    BY <1>1, <1>3, <2>1 DEF CommandInv
  <2>3. AckInv'
    BY <1>1, <1>3, <2>1 DEF AckInv
  <2>4. QED
    BY <2>2, <2>3
<1>4. QED
  BY <1>2, <1>3

\* The camera has what it had.
LEMMA TakenKept ==
    ASSUME TakenInv, UNCHANGED <<accepted, cur, given>>,
           pc' = "send" => Untaken' \/ (pc = "send" /\ call' = call),
           Acknowledged' => Acknowledged \/ cur = 0,
           given = "none" /\ (pc' = "next" \/ call' \in {"write", "query"}) =>
              \/ pc = "next" \/ call \in {"write", "query"}
              \/ \E i \in Ids : accepted[i] = GetState
    PROVE  TakenInv'
<1>1. InOrder' /\ Ids' = Ids
  BY DEF TakenInv, InOrder, Ids
<1>2. call' = call => (Untaken' <=> Untaken)
  BY <1>1 DEF Untaken
<1>3. QED
  BY <1>1, <1>2 DEF TakenInv

LEMMA OutputKept ==
    ASSUME OwnOutput, UNCHANGED <<accepted, cur, output>>
    PROVE  OwnOutput'
BY DEF OwnOutput

LEMMA InitInv == Init => Inv
<1> SUFFICES ASSUME Init PROVE Inv
  OBVIOUS
<1>1. accepted = <<>> /\ Ids = {} /\ Quiet
  BY DEF Init, Ids, Quiet
<1>2. Types
  BY <1>1, BlankIsFrame, W5Assumption, Sizes DEF Init, Types, TypeOK, GetState, NoSize, Given
<1>3. TakenInv
  BY <1>1 DEF Init, TakenInv, InOrder, Untaken, Acknowledged
<1>4. LoopInv /\ QueryInv /\ ReturnInv
  <2>1. OwnOutput
    BY DEF Init, OwnOutput
  <2>2. QED
    BY <2>1 DEF Init, LoopInv, QueryInv, ReturnInv
<1>5. PhaseInv /\ CleanInv /\ CommandInv /\ AckInv
  BY <1>1 DEF Init, PhaseInv, CleanInv, CommandInv, AckInv
<1>6. QED
  BY <1>2, <1>3, <1>4, <1>5 DEF Inv

-----------------------------------------------------------------------------
(* Connecting.                                                             *)

LEMMA ConnectingKeepsInv ==
    ASSUME Inv, SerialOpens \/ SerialConfigures \/ I2cOpens \/ I2cConfigures
    PROVE  Inv'
<1>1. /\ pc \in {"open", "config"} /\ pc' \in {"config", "attach"}
      /\ UNCHANGED <<script, given, proto, port, call, cur, duplex, tries, got, ret, rsp, msgId, ask,
                     queryRetry, readChunk, toRead, output, line, inbox, accepted>>
  BY DEF SerialOpens, SerialConfigures, I2cOpens, I2cConfigures, Connecting, connVars, callVars,
     loopVars, camVars
<1>2. Quiet' /\ accepted' = <<>> /\ call' = "info" /\ cur' = 0
  BY <1>1 DEF Inv, PhaseInv, Quiet
<1>3. Types'
  <2>1. TypeOK'
    BY <1>1, SameIds DEF Inv, Types, TypeOK
  <2>2. QED
    BY <1>1, <2>1, SameIds DEF Inv, Types
<1>4. PhaseInv' /\ CleanInv'
  BY <1>1, <1>2 DEF Inv, PhaseInv, CleanInv, Quiet
<1>5. TakenInv'
  BY <1>1, <1>2, TakenKept DEF Inv, Acknowledged
<1>6. LoopInv' /\ QueryInv' /\ ReturnInv'
  BY <1>1, <1>2, OutputKept DEF Inv, LoopInv, QueryInv, ReturnInv
<1>7. QED
  BY <1>2, <1>3, <1>4, <1>5, <1>6, QuietWire DEF Inv

LEMMA AttachKeepsInv ==
    ASSUME Inv, UartAttaches \/ I2cAttaches
    PROVE  Inv'
<1>1. /\ pc = "attach" /\ pc' = "send" /\ call' = "info" /\ tries' = COMMAND_RETRIES /\ got' = <<>>
      /\ ret' = "ok" /\ rsp' = Blank /\ (duplex' \in Dup \/ duplex' = duplex)
      /\ UNCHANGED <<script, given, proto, port, cur, msgId, ask,
                     queryRetry, readChunk, toRead, output, line, inbox, accepted>>
  BY DEF UartAttaches, I2cAttaches, Begin, DetectDuplex, connVars, loopVars, camVars
<1>2. Quiet' /\ accepted' = <<>> /\ call = "info" /\ cur' = 0
  BY <1>1 DEF Inv, PhaseInv, Quiet
<1>3. Types'
  <2>1. TypeOK'
    BY <1>1, SameIds, BlankIsFrame, W5Assumption, Sizes DEF Inv, Types, TypeOK
  <2>2. QED
    BY <1>1, <2>1, SameIds DEF Inv, Types
<1>4. PhaseInv' /\ CleanInv'
  BY <1>1, <1>2 DEF Inv, PhaseInv, CleanInv, Quiet
<1>5. TakenInv'
  BY <1>1, <1>2, TakenKept DEF Inv, Acknowledged, Untaken
<1>6. LoopInv' /\ QueryInv' /\ ReturnInv'
  BY <1>1, <1>2, OutputKept DEF Inv, LoopInv, QueryInv, ReturnInv
<1>7. QED
  BY <1>2, <1>3, <1>4, <1>5, <1>6, QuietWire DEF Inv

LEMMA TryNextTypes ==
    ASSUME TryNext, TypeOK
    PROVE  /\ pc' \in {"open", "exit"} /\ proto' \in {"uart", "i2c"} /\ port' \in 1..Ports
BY W5Assumption DEF TryNext, TypeOK

LEMMA ConnectFailsKeepsInv ==
    ASSUME Inv, ConnectFails
    PROVE  Inv'
<1>1. /\ pc \in {"open", "config", "attach"} /\ TryNext
      /\ UNCHANGED <<script, given, call, cur, duplex, tries, got, ret, rsp, msgId, ask,
                     queryRetry, readChunk, toRead, output, line, inbox, accepted>>
  BY DEF ConnectFails, callVars, loopVars, camVars
<1>2. Quiet' /\ accepted' = <<>> /\ call' = "info" /\ cur' = 0
  BY <1>1 DEF Inv, PhaseInv, Quiet
<1>3. pc' \in {"open", "exit"} /\ proto' \in {"uart", "i2c"} /\ port' \in 1..Ports
  BY <1>1, TryNextTypes DEF Inv, Types
<1>4. Types'
  <2>1. TypeOK'
    BY <1>1, <1>3, SameIds DEF Inv, Types, TypeOK
  <2>2. QED
    BY <1>1, <1>3, <2>1, SameIds DEF Inv, Types
<1>5. PhaseInv' /\ CleanInv'
  BY <1>1, <1>2, <1>3 DEF Inv, PhaseInv, CleanInv, Quiet
<1>6. TakenInv'
  BY <1>1, <1>2, <1>3, TakenKept DEF Inv, Acknowledged
<1>7. LoopInv' /\ QueryInv' /\ ReturnInv'
  BY <1>1, <1>2, <1>3, OutputKept DEF Inv, LoopInv, QueryInv, ReturnInv
<1>8. QED
  BY <1>2, <1>4, <1>5, <1>6, <1>7, QuietWire DEF Inv

\* The program goes on to look for the state of the camera, or to its main loop.
LEMMA ConnectedKeepsInv ==
    ASSUME Inv, Connected, pc = "back", call \in {"info", "infoq"},
           UNCHANGED <<script, connVars, cur, duplex, msgId, readChunk, output, camVars>>
    PROVE  Inv'
<1>1. /\ ret' = "ok" /\ rsp' = Blank /\ queryRetry' = MAX_QUERY_RETRY /\ ask' = 0 /\ toRead' = 0
      /\ \/ given = "none" /\ pc' = "send" /\ call' = "state" /\ tries' = COMMAND_RETRIES /\ got' = <<>>
         \/ given # "none" /\ pc' = "next" /\ call' = call /\ tries' = tries /\ got' = got
      /\ UNCHANGED <<script, given, proto, port, cur, duplex, msgId, readChunk, output, line, inbox,
                     accepted>>
  BY DEF Connected, Begin, Enter, connVars, camVars
<1>2. cur = 0 /\ got = <<>> /\ got' = <<>> /\ output = <<>> /\ (call = "info" => Quiet)
  BY <1>1 DEF Inv, PhaseInv
<1>3. Types'
  <2>1. /\ pc' \in {"send", "next"} /\ call' \in {"info", "infoq", "state"}
        /\ tries' \in 1..COMMAND_RETRIES /\ got' = <<>>
    BY <1>1, <1>2, W5Assumption DEF Inv, Types, TypeOK
  <2>2. QED
    BY <1>1, <2>1, SameIds, BlankIsFrame, W5Assumption, Sizes DEF Inv, Types, TypeOK, NoSize
<1>4. PhaseInv'
  BY <1>1, <1>2 DEF Inv, PhaseInv, Quiet
<1>5. CleanInv'
  BY <1>1, <1>2 DEF Inv, CleanInv, Clean, Quiet
<1>6. CommandInv' /\ AckInv'
  <2>1. CASE call = "info"
    BY <1>1, <1>2, <2>1, QuietWire DEF Quiet
  <2>2. CASE call # "info"
    BY <1>1, <2>2, WireKept DEF Inv, Waiting, IsApi, camVars
  <2>3. QED
    BY <2>1, <2>2
<1>7. TakenInv'
  BY <1>1, <1>2, TakenKept DEF Inv, Untaken
<1>8. LoopInv' /\ QueryInv' /\ ReturnInv'
  BY <1>1, <1>2, OutputKept DEF Inv, LoopInv, QueryInv, ReturnInv
<1>9. QED
  BY <1>3, <1>4, <1>5, <1>6, <1>7, <1>8 DEF Inv

\* It asks for the answer to api_get_info.
LEMMA InfoQueryKeepsInv ==
    ASSUME Inv, NEW n \in 1..MAX_QUERY_RETRY, NEW left \in 1..MaxRead, InfoQuery(n, left),
           pc = "back", call \in {"info", "infoq"}, ret = "ok", msgId' \in 0..Len(accepted),
           UNCHANGED <<script, connVars, cur, duplex, readChunk, output, camVars>>
    PROVE  Inv'
<1>1. /\ ret' = "ok" /\ rsp' = Blank /\ queryRetry' = n /\ ask' \in 0..Chunks /\ toRead' = left
      /\ pc' = "send" /\ call' = "infoq" /\ tries' = COMMAND_RETRIES /\ got' = <<>>
      /\ UNCHANGED <<script, given, proto, port, cur, duplex, readChunk, output, line, inbox,
                     accepted>>
  BY DEF InfoQuery, Begin, connVars, camVars
<1>2. cur = 0 /\ output = <<>> /\ Quiet'
  BY <1>1 DEF Inv, PhaseInv, Quiet
<1>3. Types'
  <2>1. TypeOK'
    BY <1>1, SameIds, BlankIsFrame, W5Assumption, Sizes DEF Inv, Types, TypeOK, NoSize
  <2>2. QED
    BY <1>1, <2>1, SameIds DEF Inv, Types
<1>4. PhaseInv' /\ CleanInv'
  BY <1>1, <1>2 DEF Inv, PhaseInv, CleanInv, Clean, Quiet
<1>5. TakenInv'
  BY <1>1, <1>2, TakenKept DEF Inv, Untaken, Acknowledged
<1>6. LoopInv' /\ QueryInv' /\ ReturnInv'
  BY <1>1, <1>2, OutputKept DEF Inv, LoopInv, QueryInv, ReturnInv
<1>7. QED
  BY <1>2, <1>3, <1>4, <1>5, <1>6, QuietWire DEF Inv

LEMMA InfoAckedKeepsInv ==
    ASSUME Inv, InfoAcked
    PROVE  Inv'
<1>1. CASE ret = "ok"
  <2>1. /\ pc = "back" /\ call = "info" /\ msgId' = rsp.id /\ InfoQuery(MAX_QUERY_RETRY, MaxRead)
        /\ UNCHANGED <<script, connVars, cur, duplex, readChunk, output, camVars>>
    BY <1>1 DEF InfoAcked
  <2>2. rsp.id \in 0..Len(accepted)
    BY DEF Inv, Types, TypeOK, Frame
  <2>3. MAX_QUERY_RETRY \in 1..MAX_QUERY_RETRY /\ MaxRead \in 1..MaxRead
    BY W5Assumption
  <2>4. QED
    BY <1>1, <2>1, <2>2, <2>3, InfoQueryKeepsInv
<1>2. CASE ret = "failed"
  BY <1>2, ConnectedKeepsInv DEF InfoAcked
<1>3. QED
  BY <1>1, <1>2 DEF InfoAcked

LEMMA InfoAnsweredKeepsInv ==
    ASSUME Inv, InfoAnswered
    PROVE  Inv'
<1>1. /\ pc = "back" /\ call = "infoq"
      /\ UNCHANGED <<script, connVars, cur, duplex, msgId, readChunk, output, camVars>>
  BY DEF InfoAnswered
<1>2. /\ msgId' \in 0..Len(accepted) /\ queryRetry \in 1..MAX_QUERY_RETRY
      /\ toRead \in NoSize..MaxRead /\ rsp \in Frame
  BY <1>1 DEF Inv, Types, TypeOK
<1>3. toRead \in 1..MaxRead
  BY <1>1, <1>2, W5Assumption DEF Inv, PhaseInv, NoSize
<1>4. CASE QueryOk /\ queryRetry > 1 /\ InfoQuery(queryRetry - 1, toRead)
  <2>1. queryRetry - 1 \in 1..MAX_QUERY_RETRY /\ toRead \in 1..MaxRead
    BY <1>1, <1>2, <1>3, <1>4, W5Assumption
  <2>2. QED
    BY <1>1, <1>2, <1>4, <2>1, InfoQueryKeepsInv DEF QueryOk
<1>5. CASE QueryOk /\ rsp.len \in 1..toRead - 1 /\ InfoQuery(queryRetry, toRead - rsp.len)
  <2>1. toRead - rsp.len \in 1..MaxRead
    BY <1>1, <1>2, <1>3, <1>5, W5Assumption
  <2>2. QED
    BY <1>1, <1>2, <1>5, <2>1, InfoQueryKeepsInv DEF QueryOk
<1>6. CASE Connected
  BY <1>1, <1>6, ConnectedKeepsInv
<1>7. QED
  BY <1>4, <1>5, <1>6 DEF InfoAnswered

LEMMA StateAckedKeepsInv ==
    ASSUME Inv, StateAcked
    PROVE  Inv'
<1>1. /\ pc = "back" /\ call = "state"
      /\ UNCHANGED <<script, given, cur, ask, queryRetry, readChunk, toRead, output>>
  BY DEF StateAcked
<1>2. cur = 0 /\ got = <<>> /\ output = <<>>
  BY <1>1 DEF Inv, PhaseInv
<1>3. CASE ret = "ok"
  <2>1. /\ pc' = "next" /\ ret' = "ok" /\ rsp' = Blank
        /\ UNCHANGED <<proto, port, duplex, msgId, call, tries, got, line, inbox, accepted>>
    BY <1>3 DEF StateAcked, Enter, Disconnect, camVars
  <2>2. Quiet' /\ rsp.id \in Ids /\ accepted[rsp.id] = GetState
    BY <1>1, <1>3, <2>1 DEF Inv, PhaseInv, ReturnInv, Quiet, IsApi, Of
  <2>3. Types'
    <3>1. TypeOK'
      BY <1>1, <2>1, SameIds, BlankIsFrame DEF Inv, Types, TypeOK
    <3>2. QED
      BY <1>1, <2>1, <3>1, SameIds DEF Inv, Types
  <2>4. PhaseInv' /\ CleanInv'
    BY <1>1, <1>2, <2>1, <2>2 DEF Inv, PhaseInv, CleanInv, Clean, Quiet
  <2>5. TakenInv'
    BY <1>1, <1>2, <2>1, <2>2, TakenKept DEF Inv
  <2>6. LoopInv' /\ QueryInv' /\ ReturnInv'
    BY <1>1, <2>1, OutputKept DEF Inv, LoopInv, QueryInv, ReturnInv
  <2>7. QED
    BY <2>2, <2>3, <2>4, <2>5, <2>6, QuietWire DEF Inv
<1>4. CASE ret = "failed"
  <2>1. /\ duplex' = "unspecified" /\ line' = <<>> /\ inbox' = <<>> /\ accepted' = <<>>
        /\ call' = "info" /\ msgId' = 0 /\ tries' = COMMAND_RETRIES /\ got' = <<>> /\ ret' = "ok"
        /\ rsp' = Blank /\ TryNext
    BY <1>4 DEF StateAcked, Disconnect, Detach, Close
  <2>2. pc' \in {"open", "exit"} /\ proto' \in {"uart", "i2c"} /\ port' \in 1..Ports
    BY <2>1, TryNextTypes DEF Inv, Types
  <2>3. Quiet' /\ Ids' = {}
    BY <2>1 DEF Quiet, Ids
  <2>4. Blank \in Frame' /\ Len(accepted)' = 0
    BY <2>1, W5Assumption DEF Blank, Frame, Code, Status
  <2>5. Types'
    BY <1>1, <1>2, <2>1, <2>2, <2>4, W5Assumption, Sizes DEF Inv, Types, TypeOK
  <2>6. PhaseInv' /\ CleanInv'
    BY <1>1, <1>2, <2>1, <2>2, <2>3 DEF Inv, PhaseInv, CleanInv, Clean
  <2>7. TakenInv'
    BY <1>1, <1>2, <2>1, <2>2 DEF TakenInv, InOrder, Acknowledged
  <2>8. LoopInv' /\ QueryInv' /\ ReturnInv'
    BY <1>1, <1>2, <2>1, <2>2 DEF LoopInv, OwnOutput, QueryInv, ReturnInv
  <2>9. QED
    BY <2>3, <2>5, <2>6, <2>7, <2>8, QuietWire DEF Inv
<1>5. QED
  BY <1>3, <1>4 DEF StateAcked

-----------------------------------------------------------------------------
(* Sending and receiving.                                                  *)

LEMMA HeadAndTail ==
    ASSUME NEW S, NEW s \in Seq(S), s # <<>>
    PROVE  /\ Tail(s) \in Seq(S) /\ Len(Tail(s)) = Len(s) - 1 /\ Head(s) = s[1] /\ s[1] \in S
           /\ \A k \in 1..Len(Tail(s)) : k + 1 \in 1..Len(s) /\ Tail(s)[k] = s[k + 1]
           /\ Len(s) \in Nat /\ Len(s) >= 1
           /\ Len(s) = 1 => Tail(s) = <<>>
<1>1. /\ Tail(s) \in Seq(S) /\ Len(Tail(s)) = Len(s) - 1 /\ Head(s) = s[1] /\ s[1] \in S
      /\ \A k \in 1..Len(Tail(s)) : k + 1 \in 1..Len(s) /\ Tail(s)[k] = s[k + 1]
      /\ Len(s) \in Nat /\ Len(s) >= 1
  OBVIOUS
<1>2. QED
  BY <1>1, EmptySeq

LEMMA Appended ==
    ASSUME NEW S, NEW s \in Seq(S), NEW e \in S
    PROVE  /\ Append(s, e) \in Seq(S) /\ Len(Append(s, e)) = Len(s) + 1 /\ Len(s) \in Nat
           /\ Append(s, e) # <<>>
           /\ \A k \in 1..Len(s) : Append(s, e)[k] = s[k]
           /\ Append(s, e)[Len(s) + 1] = e
<1>1. /\ Append(s, e) \in Seq(S) /\ Len(Append(s, e)) = Len(s) + 1 /\ Len(s) \in Nat
      /\ \A k \in 1..Len(s) : Append(s, e)[k] = s[k]
      /\ Append(s, e)[Len(s) + 1] = e
  OBVIOUS
<1>2. Len(Append(s, e)) # 0
  BY <1>1
<1>3. QED
  BY <1>1, <1>2

LEMMA LineGrows ==
    ASSUME line \in Seq(UnitOf), NEW us \in Seq(UnitOf), line' = line \o us
    PROVE  /\ line' \in Seq(UnitOf) /\ Len(line') = Len(line) + Len(us) /\ Len(line) \in Nat
           /\ Len(us) \in Nat /\ \A k \in 1..Len(line) : line'[k] = line[k]
           /\ \A k \in 1..Len(line') :
                 k \in 1..Len(line) \/ (k - Len(line) \in 1..Len(us) /\ line'[k] = us[k - Len(line)])
OBVIOUS

LEMMA ExpectedSizes ==
    /\ Expected = (IF IsApi THEN "ack" ELSE "result")
    /\ Size(Expected) = (IF IsApi THEN 1 ELSE 3)
BY Sizes DEF Expected

LEMMA FramesOf ==
    ASSUME NEW s \in Seq(UnitOf)
    PROVE  \A k \in 1..Len(s) : s[k].frame \in Frame
<1>1. \A k \in 1..Len(s) : s[k] \in UnitOf
  OBVIOUS
<1>2. QED
  BY <1>1 DEF UnitOf

\* Taking a unit off the line leaves what is known of the rest.
LEMMA LineRead ==
    ASSUME Inv, line # <<>>, line' = Tail(line), UNCHANGED <<inbox, accepted, call, cur>>,
           Waiting => Waiting'
    PROVE  CommandInv' /\ AckInv'
<1>1. /\ Len(Tail(line)) = Len(line) - 1 /\ Len(line) \in Nat
      /\ \A k \in 1..Len(Tail(line)) : k + 1 \in 1..Len(line) /\ Tail(line)[k] = line[k + 1]
  BY HeadAndTail DEF Inv, Types
<1>2. Of' = Of /\ (Untaken' <=> Untaken) /\ Ids' = Ids
  BY DEF Of, Untaken, Ids
<1>3. CommandInv'
  BY <1>1, <1>2 DEF Inv, CommandInv
<1>4. AckInv'
  <2> SUFFICES ASSUME NEW k \in 1..Len(Tail(line)), Tail(line)[k].frame.type = "ack"
               PROVE  /\ k = Len(Tail(line)) /\ inbox = <<>> /\ Waiting'
                      /\ Tail(line)[k].frame.sum =>
                            IF Tail(line)[k].frame.code = "ACK"
                            THEN Tail(line)[k].frame.id \in Ids /\ accepted[Tail(line)[k].frame.id] = Of
                            ELSE Untaken
    BY <1>1, <1>2 DEF AckInv
  <2>1. k + 1 \in 1..Len(line) /\ Tail(line)[k] = line[k + 1]
    BY <1>1
  <2>2. /\ k + 1 = Len(line) /\ inbox = <<>> /\ Waiting
        /\ line[k + 1].frame.sum =>
              IF line[k + 1].frame.code = "ACK"
              THEN line[k + 1].frame.id \in Ids /\ accepted[line[k + 1].frame.id] = Of
              ELSE Untaken
    BY <2>1 DEF Inv, AckInv
  <2>3. k \in Nat /\ Len(Tail(line)) = Len(line) - 1 /\ Len(line) \in Nat
    BY <1>1
  <2>4. k = Len(Tail(line))
    BY <2>2, <2>3
  <2>5. Waiting'
    BY <2>2
  <2>6. QED
    BY <2>1, <2>2, <2>4, <2>5, Zenon
<1>5. QED
  BY <1>3, <1>4

\* A call that fails returns, whatever is still on its way.
LEMMA FailedKeepsInv ==
    ASSUME Inv, Return("failed", Blank), pc \in {"send", "recv"}, call = "info" => Quiet',
           line' = line \/ (line # <<>> /\ line' = Tail(line)),
           UNCHANGED <<script, given, proto, port, call, cur, duplex, loopVars, inbox, accepted>>
    PROVE  Inv'
<1>1. /\ pc' = "back" /\ ret' = "failed" /\ rsp' = Blank /\ got' = <<>> /\ tries' = tries
      /\ UNCHANGED <<script, given, proto, port, call, cur, duplex, msgId, ask, queryRetry, readChunk,
                     toRead, output, inbox, accepted>>
  BY DEF Return, loopVars
<1>2. line' \in Seq(UnitOf) /\ \A k \in 1..Len(line') : line'[k].frame \in Frame
  <2>1. line' \in Seq(UnitOf)
    BY HeadAndTail DEF Inv, Types
  <2>2. QED
    BY <2>1, FramesOf
<1>3. Types'
  <2>1. TypeOK'
    BY <1>1, <1>2, SameIds, BlankIsFrame, Sizes DEF Inv, Types, TypeOK
  <2>2. QED
    BY <1>1, <1>2, <2>1, SameIds DEF Inv, Types
<1>4. PhaseInv'
  BY <1>1 DEF Inv, PhaseInv, Quiet
<1>5. CleanInv'
  BY <1>1 DEF Inv, CleanInv, Clean
<1>6. CommandInv' /\ AckInv'
  <2>1. Waiting => Waiting'
    BY <1>1 DEF Waiting, IsApi
  <2>2. CASE line' = line
    <3>1. UNCHANGED camVars /\ (Waiting <=> (IsApi /\ pc = "recv"))
      BY <1>1, <2>2 DEF camVars, Waiting
    <3>2. QED
      BY <1>1, <2>1, <3>1, WireKept DEF Inv
  <2>3. CASE line # <<>> /\ line' = Tail(line)
    BY <1>1, <2>1, <2>3, LineRead
  <2>4. QED
    BY <2>2, <2>3
<1>7. TakenInv'
  BY <1>1, TakenKept DEF Inv, Acknowledged
<1>8. LoopInv' /\ QueryInv' /\ ReturnInv'
  BY <1>1, OutputKept DEF Inv, LoopInv, QueryInv, ReturnInv, Ids
<1>9. QED
  BY <1>3, <1>4, <1>5, <1>6, <1>7, <1>8 DEF Inv

\* write() fails.
LEMMA SendFailsKeepsInv ==
    ASSUME Inv, SendFails
    PROVE  Inv'
<1>1. call = "info" => Quiet'
  BY DEF SendFails, camVars, Inv, CleanInv, Clean, Quiet
<1>2. QED
  BY <1>1, FailedKeepsInv DEF SendFails, connVars, camVars

\* A call times out, but not api_get_info before the camera has attended to it.
LEMMA TimeOutKeepsInv ==
    ASSUME Inv, TimeOut, ~late'
    PROVE  Inv'
<1>1. call = "info" => Quiet'
  BY DEF TimeOut, Overtaken, camVars, Quiet
<1>2. QED
  BY <1>1, FailedKeepsInv DEF TimeOut, camVars

\* Over I2C nothing is sent, nothing comes and every attempt fails.
LEMMA I2cReceiveKeepsInv ==
    ASSUME Inv, I2cReceive
    PROVE  Inv'
<1>1. Return("failed", Blank)
  BY UnreadFails DEF I2cReceive, I2cAfter, After
<1>2. Quiet'
  BY DEF I2cReceive, camVars, Inv, PhaseInv, Quiet
<1>3. QED
  BY <1>1, <1>2, FailedKeepsInv DEF I2cReceive, connVars, camVars

LEMMA I2cSendKeepsInv ==
    ASSUME Inv, I2cSend
    PROVE  Inv'
<1>1. /\ pc = "send" /\ proto = "i2c" /\ pc' = "recv" /\ inbox' = inbox
      /\ UNCHANGED <<script, given, proto, port, call, cur, duplex, tries, got, ret, rsp, msgId, ask,
                     queryRetry, readChunk, toRead, output, line, accepted>>
  BY DEF I2cSend, OnTheBus, connVars, callVars, loopVars, Inv, Types
<1>2. Quiet' /\ got = <<>>
  BY <1>1 DEF Inv, PhaseInv, Quiet
<1>3. Types'
  <2>1. TypeOK'
    BY <1>1, SameIds DEF Inv, Types, TypeOK
  <2>2. QED
    BY <1>1, <2>1, SameIds DEF Inv, Types
<1>4. PhaseInv' /\ CleanInv'
  <2>1. Size(Expected)' \in 1..3
    BY Sizes DEF Expected
  <2>2. PhaseInv'
    BY <1>1, <1>2, <2>1 DEF Inv, PhaseInv
  <2>3. CleanInv'
    BY <1>1, <1>2, <2>1 DEF Inv, CleanInv, Quiet, Clean
  <2>4. QED
    BY <2>2, <2>3
<1>5. TakenInv'
  BY <1>1, TakenKept DEF Inv, Acknowledged
<1>6. LoopInv' /\ QueryInv' /\ ReturnInv'
  BY <1>1, <1>2, OutputKept DEF Inv, LoopInv, QueryInv, ReturnInv, Quiet, Ids
<1>7. QED
  BY <1>2, <1>3, <1>4, <1>5, <1>6, QuietWire DEF Inv

LEMMA CommandTypes ==
    ASSUME Types
    PROVE  /\ Command \in Commands /\ Command.type = (IF IsApi THEN "geo" ELSE "query")
           /\ IsApi => Command.of = Of
           /\ ~IsApi => Command.chunk = ask /\ (toRead # NoSize => Command.size = toRead)
<1>1. Of \in GetState..NumWrites
  BY W5Assumption DEF Types, TypeOK, Of, GetState
<1>2. Asked \in 0..MaxRead /\ (toRead # NoSize => Asked = toRead)
  BY W5Assumption DEF Types, TypeOK, Asked, NoSize
<1>3. msgId \in 0..Len(accepted) /\ ask \in 0..Chunks /\ Len(accepted) \in Nat
  BY DEF Types, TypeOK
<1>4. CASE IsApi
  <2>1. Command = [type |-> "geo", of |-> Of, id |-> 0, chunk |-> 0, size |-> 0]
    BY <1>4 DEF Command
  <2>2. QED
    BY <1>1, <1>3, <1>4, <2>1, W5Assumption DEF Commands
<1>5. CASE ~IsApi
  <2>1. Command = [type |-> "query", of |-> 0, id |-> msgId, chunk |-> ask, size |-> Asked]
    BY <1>5 DEF Command
  <2>2. 0 \in GetState..NumWrites
    BY W5Assumption DEF GetState
  <2>3. QED
    BY <1>2, <1>3, <1>5, <2>1, <2>2 DEF Commands
<1>6. QED
  BY <1>4, <1>5

LEMMA Echoed ==
    /\ Units(Blank) \in Seq(UnitOf) /\ Len(Units(Blank)) = 2
    /\ \A k \in 1..2 : Units(Blank)[k].frame.type = "echo"
<1>1. Blank \in Frame /\ Blank.type = "echo"
  BY BlankIsFrame DEF Blank
<1>2. Len(Units(Blank)) = 2
  BY <1>1, UnitsOfFrame, Sizes
<1>3. QED
  BY <1>1, <1>2, UnitsOfFrame

LEMMA SendKeepsInv ==
    ASSUME Inv, Send
    PROVE  Inv'
<1>1. /\ pc = "send" /\ proto = "uart" /\ inbox' = Append(inbox, Command)
      /\ \/ pc' = "echo" /\ line' = line \o Units(Blank)
         \/ pc' = "recv" /\ line' = line
      /\ UNCHANGED <<script, given, proto, port, call, cur, duplex, tries, got, ret, rsp, msgId, ask,
                     queryRetry, readChunk, toRead, output, accepted>>
  BY DEF Send, connVars, callVars, loopVars
<1>2. got = <<>> /\ line \in Seq(UnitOf) /\ inbox \in Seq(Commands) /\ Command \in Commands
  BY <1>1, CommandTypes DEF Inv, Types, PhaseInv
<1>3. /\ inbox' \in Seq(Commands) /\ Len(inbox') = Len(inbox) + 1 /\ Len(inbox) \in Nat
      /\ \A i \in 1..Len(inbox') : inbox'[i] = Command \/ (i \in 1..Len(inbox) /\ inbox'[i] = inbox[i])
      /\ \A i \in 1..Len(inbox) : inbox'[i] = inbox[i]
  BY <1>1, <1>2
<1>4. /\ line' \in Seq(UnitOf) /\ Len(line) \in Nat
      /\ Len(line') = Len(line) + (IF pc' = "echo" THEN 2 ELSE 0)
      /\ \A k \in 1..Len(line') : line'[k].frame.type = "echo" \/ (k \in 1..Len(line) /\ line'[k] = line[k])
  <2>1. CASE pc' = "recv" /\ line' = line
    BY <1>2, <2>1
  <2>2. CASE pc' = "echo" /\ line' = line \o Units(Blank)
    <3> DEFINE us == Units(Blank)
    <3>0. us \in Seq(UnitOf) /\ Len(us) = 2 /\ \A k \in 1..2 : us[k].frame.type = "echo"
      BY Echoed
    <3>1. line' = line \o us
      BY <2>2
    <3> HIDE DEF us
    <3>2. /\ line' \in Seq(UnitOf) /\ Len(line') = Len(line) + Len(us) /\ Len(line) \in Nat
          /\ \A k \in 1..Len(line) : line'[k] = line[k]
          /\ \A k \in 1..Len(line') :
                k \in 1..Len(line) \/ (k - Len(line) \in 1..Len(us) /\ line'[k] = us[k - Len(line)])
      BY <1>2, <3>0, <3>1, LineGrows
    <3>3. ASSUME NEW k \in 1..Len(line'), k \notin 1..Len(line) PROVE line'[k].frame.type = "echo"
      <4>1. k - Len(line) \in 1..2 /\ line'[k] = us[k - Len(line)]
        BY <3>0, <3>2, <3>3
      <4>2. QED
        BY <3>0, <4>1
    <3>4. QED
      BY <2>2, <3>0, <3>2, <3>3
  <2>3. QED
    BY <1>1, <2>1, <2>2
<1>5. Types'
  <2>1. \A k \in 1..Len(line') : line'[k].frame \in Frame
    BY <1>4, FramesOf
  <2>2. QED
    BY <1>1, <1>3, <1>4, <2>1, SameIds DEF Inv, Types, TypeOK
<1>6. PhaseInv'
  <2>1. Size(Expected)' \in 1..3
    BY Sizes DEF Expected
  <2>2. QED
    BY <1>1, <1>2, <2>1, Sizes DEF Inv, PhaseInv, Quiet
<1>7. CleanInv'
  <2> SUFFICES ASSUME Clean' PROVE CleanInv'
    BY DEF CleanInv
  <2>1. Clean /\ line = <<>> /\ inbox = <<>>
    BY <1>1 DEF Clean, Inv, CleanInv, Quiet
  <2>2. Len(inbox') = 1 /\ inbox' # <<>> /\ inbox'[1] = Command
    BY <1>1, <1>2, <2>1
  <2>3. Len(line') = IF pc' = "echo" THEN 2 ELSE 0
    BY <1>4, <2>1
  <2>4. call' = "info" => Command.type = "geo"
    BY <1>1, CommandTypes DEF IsApi, Inv
  <2>5. Len(got') = 0
    BY <1>1, <1>2
  <2>6. QED
    BY <1>1, <2>2, <2>3, <2>4, <2>5, Sizes DEF CleanInv
<1>8. /\ \A i \in 1..Len(inbox) : inbox[i].type # "geo"
      /\ \A k \in 1..Len(line) : line[k].frame.type # "ack"
  BY <1>1, NotWaiting DEF Inv, Waiting
<1>9. \A k \in 1..Len(line') : line'[k].frame.type # "ack"
  BY <1>4, <1>8
<1>10. CommandInv' /\ AckInv'
  <2>1. AckInv'
    BY <1>9 DEF AckInv
  <2>2. ASSUME NEW i \in 1..Len(inbox'), inbox'[i].type = "geo"
        PROVE  i = Len(inbox') /\ inbox'[i].of = Of' /\ Waiting' /\ Untaken'
    <3>1. i = Len(inbox') /\ inbox'[i] = Command
      BY <1>2, <1>3, <1>8, <2>2
    <3>2. IsApi /\ Command.of = Of
      BY <2>2, <3>1, CommandTypes DEF Inv
    <3>3. Of' = Of /\ Waiting' /\ Untaken'
      BY <1>1, <3>2 DEF Of, Waiting, IsApi, Inv, TakenInv, Untaken, Ids
    <3>4. QED
      BY <3>1, <3>2, <3>3
  <2>3. QED
    BY <1>9, <2>1, <2>2 DEF CommandInv
<1>11. TakenInv'
  BY <1>1, TakenKept DEF Inv, Acknowledged
<1>12. LoopInv' /\ ReturnInv'
  BY <1>1, OutputKept DEF Inv, LoopInv, ReturnInv, Ids
<1>13. QueryInv'
  <2> SUFFICES ASSUME call = "query" PROVE QueryInv'
    BY <1>1 DEF QueryInv
  <2>1. Command.chunk = ask /\ (toRead # NoSize => Command.size = toRead)
    BY CommandTypes DEF Inv, IsApi
  <2>2. \A i \in 1..Len(inbox') : inbox'[i].chunk = ask /\ (toRead # NoSize => inbox'[i].size <= toRead)
    <3>1. toRead \in Int
      BY W5Assumption DEF Inv, Types, TypeOK, NoSize
    <3>2. QED
      BY <1>1, <1>3, <2>1, <3>1 DEF Inv, QueryInv
  <2>3. \A k \in 1..Len(line') : Good(line'[k].frame) => Answers(line'[k].frame)
    BY <1>1, <1>4 DEF Inv, QueryInv, Good
  <2>4. got' = got /\ got = <<>> /\ ask' = ask /\ toRead' = toRead
    BY <1>1, <1>2
  <2>5. (\A k \in 1..Len(got) : Good(got[k].frame) => Answers(got[k].frame))'
    <3>1. Len(got') = 0
      BY <2>4
    <3>2. QED
      BY <3>1
  <2>6. (\A k \in 1..Len(line) : Good(line[k].frame) => Answers(line[k].frame))'
    BY <2>3, <2>4 DEF Answers, Good
  <2>7. (\A i \in 1..Len(inbox) : inbox[i].chunk = ask /\ (toRead # NoSize => inbox[i].size <= toRead))'
    BY <2>2, <2>4
  <2>8. QED
    BY <2>5, <2>6, <2>7 DEF QueryInv
<1>14. QED
  BY <1>5, <1>6, <1>7, <1>10, <1>11, <1>12, <1>13 DEF Inv

\* A read that takes a unit and goes on.
LEMMA ReadKeepsInv ==
    ASSUME Inv, Echo \/ Receive
    PROVE  Inv'
<1>1. /\ line # <<>> /\ line' = Tail(line) /\ pc \in {"echo", "recv"}
      /\ \/ pc = "echo" /\ Len(got) + 1 = Size("echo") /\ pc' = "recv" /\ got' = <<>>
         \/ pc = "echo" /\ Len(got) + 1 # Size("echo") /\ pc' = "echo" /\ got' = Append(got, Head(line))
         \/ pc = "recv" /\ Len(got) + 1 < Size(Expected) /\ pc' = "recv" /\ got' = Append(got, Head(line))
      /\ UNCHANGED <<script, given, proto, port, call, cur, duplex, tries, ret, rsp, msgId, ask,
                     queryRetry, readChunk, toRead, output, inbox, accepted>>
  BY DEF Echo, Receive, connVars, loopVars
<1>2. /\ line \in Seq(UnitOf) /\ got \in Seq(UnitOf) /\ Len(got) \in Nat /\ Len(got) < 3
      /\ pc = "echo" => Len(got) < 2
  BY <1>1, Sizes DEF Inv, Types, TypeOK, PhaseInv
<1>3. /\ line' \in Seq(UnitOf) /\ Len(line') = Len(line) - 1 /\ Head(line) = line[1] /\ line[1] \in UnitOf
      /\ Len(line) \in Nat /\ 1 \in 1..Len(line)
      /\ \A k \in 1..Len(line') : k + 1 \in 1..Len(line) /\ line'[k] = line[k + 1]
  BY <1>1, <1>2, HeadAndTail
<1>4. /\ got' \in Seq(UnitOf) /\ Len(got') = (IF got' = <<>> THEN 0 ELSE Len(got) + 1)
      /\ \A k \in 1..Len(got') : got'[k] = line[1] \/ (k \in 1..Len(got) /\ got'[k] = got[k])
  <2>1. CASE got' = <<>>
    BY <2>1
  <2>2. CASE got' = Append(got, Head(line))
    <3> DEFINE new == Append(got, Head(line))
    <3>1. /\ new \in Seq(UnitOf) /\ Len(new) = Len(got) + 1 /\ new # <<>>
          /\ \A k \in 1..Len(got) : new[k] = got[k]
          /\ new[Len(got) + 1] = line[1]
      BY <1>2, <1>3, Appended
    <3> HIDE DEF new
    <3>2. \A k \in 1..Len(new) : k \in 1..Len(got) \/ k = Len(got) + 1
      BY <1>2, <3>1
    <3>3. QED
      BY <2>2, <3>1, <3>2 DEF new
  <2>3. QED
    BY <1>1, <2>1, <2>2
<1>5. Size(Expected)' = Size(Expected) /\ Size(Expected) \in {1, 3}
  BY <1>1, Sizes DEF Expected, IsApi
<1>6. /\ pc' = "echo" => Len(got') < 2
      /\ pc' = "recv" => Len(got') < Size(Expected)
      /\ Len(got') < 3
  BY <1>1, <1>2, <1>4, <1>5, Sizes
<1>7. Types'
  <2>1. \A k \in 1..Len(line') : line'[k].frame \in Frame
    BY <1>3, FramesOf
  <2>2. QED
    BY <1>1, <1>3, <1>4, <1>6, <2>1, SameIds, Sizes DEF Inv, Types, TypeOK
<1>8. PhaseInv'
  BY <1>1, <1>5, <1>6, Sizes DEF Inv, PhaseInv, Quiet
<1>9. CleanInv'
  <2> SUFFICES ASSUME Clean' PROVE CleanInv'
    BY DEF CleanInv
  <2>1. Clean /\ Len(inbox) <= 1 /\ (call = "info" => \A i \in 1..Len(inbox) : inbox[i].type = "geo")
    BY <1>1 DEF Clean, Inv, CleanInv
  <2>2. Len(got) + Len(line) <= (IF pc = "echo" THEN 2 ELSE 0) + (IF inbox = <<>> THEN Size(Expected) ELSE 0)
    BY <1>1, <2>1, Sizes DEF Inv, CleanInv
  <2>3. Len(got') + Len(line') <= (IF pc' = "echo" THEN 2 ELSE 0) + (IF inbox = <<>> THEN Size(Expected) ELSE 0)
    <3>1. CASE pc = "echo" /\ pc' = "recv" /\ got' = <<>> /\ Len(got) = 1
      BY <1>2, <1>3, <1>4, <1>5, <2>2, <3>1
    <3>2. CASE pc' = pc /\ Len(got') <= Len(got) + 1
      BY <1>1, <1>2, <1>3, <1>4, <1>5, <2>2, <3>2
    <3>3. Len(got') <= Len(got) + 1
      BY <1>2, <1>4
    <3>4. (pc = "echo" /\ pc' = "recv" /\ got' = <<>> /\ Len(got) = 1) \/ pc' = pc
      <4>1. CASE Len(got) + 1 = Size("echo") /\ pc = "echo" /\ pc' = "recv" /\ got' = <<>>
        <5>1. Len(got) \in Nat /\ Len(got) + 1 = 2
          BY <1>2, <4>1, Sizes
        <5>2. Len(got) = 1
          BY <5>1
        <5>3. QED
          BY <4>1, <5>2
      <4>2. CASE pc' = pc
        BY <4>2
      <4>3. QED
        BY <1>1, <4>1, <4>2
    <3>5. QED
      BY <3>1, <3>2, <3>3, <3>4
  <2>4. QED
    BY <1>1, <1>5, <2>1, <2>3, Sizes DEF CleanInv
<1>10. CommandInv' /\ AckInv'
  BY <1>1, LineRead DEF Waiting, IsApi
<1>11. TakenInv'
  BY <1>1, TakenKept DEF Inv, Acknowledged
<1>12. LoopInv' /\ ReturnInv'
  BY <1>1, OutputKept DEF Inv, LoopInv, ReturnInv, Ids
<1>13. QueryInv'
  <2> SUFFICES ASSUME call = "query" PROVE QueryInv'
    BY <1>1 DEF QueryInv
  <2>1. \A k \in 1..Len(line) : Good(line[k].frame) => Answers(line[k].frame)
    BY <1>1 DEF Inv, QueryInv
  <2>2. \A k \in 1..Len(got) : Good(got[k].frame) => Answers(got[k].frame)
    BY <1>1 DEF Inv, QueryInv
  <2>3. \A k \in 1..Len(line') : Good(line'[k].frame) => Answers(line'[k].frame)
    BY <1>3, <2>1
  <2>4. \A k \in 1..Len(got') : Good(got'[k].frame) => Answers(got'[k].frame)
    BY <1>3, <1>4, <2>1, <2>2
  <2>5. \A i \in 1..Len(inbox) : inbox[i].chunk = ask /\ (toRead # NoSize => inbox[i].size <= toRead)
    BY <1>1 DEF Inv, QueryInv
  <2>6. QED
    BY <1>1, <2>3, <2>4, <2>5 DEF QueryInv, Answers, Good
<1>14. QED
  BY <1>7, <1>8, <1>9, <1>10, <1>11, <1>12, <1>13 DEF Inv

\* In a call that began quietly the last unit of the answer is the last thing on its way, and in
\* any call the acknowledgement that is waited for is.
LEMMA AnswerIsLast ==
    ASSUME Inv, pc = "recv", line # <<>>, Len(got) + 1 = Size(Expected),
           Clean \/ Outcome(Append(got, Head(line))) # "failed"
    PROVE  Tail(line) = <<>> /\ inbox = <<>>
<1>1. /\ line \in Seq(UnitOf) /\ got \in Seq(UnitOf) /\ Len(got) \in Nat /\ Head(line) = line[1]
      /\ line[1] \in UnitOf /\ Len(line) \in Nat /\ 1 \in 1..Len(line)
  BY HeadAndTail DEF Inv, Types
<1>2. Size(Expected) \in {1, 3}
  BY ExpectedSizes
<1>3. Len(line) = 1 => Tail(line) = <<>>
  BY <1>1, HeadAndTail
<1>4. CASE Clean
  <2>1. Len(got) + Len(line) <= 0 + (IF inbox = <<>> THEN Size(Expected) ELSE 0)
    BY <1>4 DEF Inv, CleanInv
  <2>2. QED
    BY <1>1, <1>2, <1>3, <2>1
<1>5. CASE ~Clean
  <2>1. IsApi /\ Expected = "ack" /\ Len(got) = 0
    BY <1>1, <1>5, ExpectedSizes DEF Clean, IsApi, Inv, Types, TypeOK
  <2>2. Append(got, Head(line)) \in Seq(UnitOf) /\ Append(got, Head(line))[1] = line[1]
    BY <1>1, <2>1
  <2>3. Append(got, Head(line)) # <<>>
    BY <1>1, Appended
  <2>4. line[1].frame.type = "ack"
    BY <1>5, <2>1, <2>2, <2>3, OutcomeOf
  <2>5. 1 = Len(line) /\ inbox = <<>>
    BY <1>1, <2>4 DEF Inv, AckInv
  <2>6. QED
    BY <1>3, <2>5
<1>6. QED
  BY <1>4, <1>5

\* The command is sent again: the camera has not taken it, and nothing is on its way.
LEMMA ResendKeepsInv ==
    ASSUME Inv, NEW n \in 1..COMMAND_RETRIES, Resend(n), pc = "recv", Quiet', Untaken,
           UNCHANGED <<script, connVars, call, cur, duplex, loopVars, inbox, accepted>>
    PROVE  Inv'
<1>1. /\ pc' = "send" /\ tries' = n /\ got' = <<>> /\ line' = <<>> /\ inbox' = <<>>
      /\ UNCHANGED <<script, given, proto, port, call, cur, duplex, ret, rsp, msgId, ask, queryRetry,
                     readChunk, toRead, output, accepted>>
  BY DEF Resend, connVars, loopVars, Quiet
<1>2. Types'
  <2>1. TypeOK'
    BY <1>1, SameIds, Sizes DEF Inv, Types, TypeOK
  <2>2. QED
    BY <1>1, <2>1, SameIds DEF Inv, Types
<1>3. PhaseInv'
  BY <1>1 DEF Inv, PhaseInv, Quiet
<1>4. CleanInv'
  BY <1>1 DEF CleanInv, Quiet
<1>5. TakenInv'
  BY <1>1, TakenKept DEF Inv, Acknowledged, Untaken, Ids
<1>6. LoopInv' /\ ReturnInv'
  BY <1>1, OutputKept DEF Inv, LoopInv, ReturnInv, Ids
<1>7. QueryInv'
  BY <1>1 DEF QueryInv
<1>8. QED
  BY <1>2, <1>3, <1>4, <1>5, <1>6, <1>7, QuietWire DEF Inv

\* The call succeeds.
LEMMA OkKeepsInv ==
    ASSUME Inv, NEW f \in Frame, Return("ok", f), pc = "recv", Quiet',
           IsApi => f.id \in Ids /\ accepted[f.id] = Of,
           call = "query" => Answers(f),
           UNCHANGED <<script, connVars, call, cur, duplex, loopVars, inbox, accepted>>
    PROVE  Inv'
<1>1. /\ pc' = "back" /\ ret' = "ok" /\ rsp' = f /\ got' = <<>> /\ line' = <<>> /\ inbox' = <<>>
      /\ UNCHANGED <<script, given, proto, port, call, cur, duplex, tries, msgId, ask, queryRetry,
                     readChunk, toRead, output, accepted>>
  BY DEF Return, connVars, loopVars, Quiet
<1>2. Types'
  <2>1. TypeOK'
    BY <1>1, SameIds, Sizes DEF Inv, Types, TypeOK
  <2>2. QED
    BY <1>1, <2>1, SameIds DEF Inv, Types
<1>3. PhaseInv'
  BY <1>1 DEF Inv, PhaseInv, Quiet
<1>4. CleanInv'
  BY <1>1 DEF CleanInv, Quiet
<1>5. ReturnInv'
  BY <1>1 DEF ReturnInv, IsApi, Of, Ids, Answers
<1>6. TakenInv'
  <2>1. CASE call = "write"
    <3>1. f.id \in Ids /\ accepted[f.id] = cur
      BY <2>1 DEF IsApi, Of
    <3>2. InOrder' /\ Ids' = Ids
      BY <1>1 DEF Inv, TakenInv, InOrder, Ids
    <3>3. QED
      BY <1>1, <3>1, <3>2 DEF Inv, TakenInv
  <2>2. CASE call # "write"
    BY <1>1, <2>2, TakenKept DEF Inv, Acknowledged
  <2>3. QED
    BY <2>1, <2>2
<1>7. LoopInv'
  BY <1>1, OutputKept DEF Inv, LoopInv, Ids
<1>8. QueryInv'
  BY <1>1 DEF QueryInv
<1>9. QED
  BY <1>2, <1>3, <1>4, <1>5, <1>6, <1>7, <1>8, QuietWire DEF Inv

LEMMA AnsweredKeepsInv ==
    ASSUME Inv, Answered
    PROVE  Inv'
<1> DEFINE us == Append(got, Head(line))
<1>1. /\ pc = "recv" /\ line # <<>> /\ Len(got) + 1 = Size(Expected) /\ line' = Tail(line)
      /\ After(Outcome(us), us[1].frame)
      /\ UNCHANGED <<script, connVars, call, cur, duplex, loopVars, inbox, accepted>>
  BY DEF Answered
<1>2. /\ line \in Seq(UnitOf) /\ got \in Seq(UnitOf) /\ Head(line) = line[1] /\ line[1] \in UnitOf
      /\ us \in Seq(UnitOf) /\ us # <<>> /\ us[Len(got) + 1] = line[1] /\ 1 \in 1..Len(line)
      /\ \A k \in 1..Len(got) : us[k] = got[k]
      /\ Len(got) \in Nat
  <2>1. /\ line \in Seq(UnitOf) /\ got \in Seq(UnitOf) /\ Head(line) = line[1] /\ line[1] \in UnitOf
        /\ 1 \in 1..Len(line)
    BY <1>1, HeadAndTail DEF Inv, Types
  <2>2. /\ us \in Seq(UnitOf) /\ us # <<>> /\ us[Len(got) + 1] = line[1]
        /\ \A k \in 1..Len(got) : us[k] = got[k]
        /\ Len(got) \in Nat
    BY <2>1, Appended
  <2>3. QED
    BY <2>1, <2>2
<1>3. CASE Outcome(us) = "failed"
  <2>1. Return("failed", Blank)
    BY <1>1, <1>3 DEF After
  <2>2. call = "info" => Quiet'
    BY <1>1, AnswerIsLast DEF Clean, Quiet
  <2>3. QED
    BY <1>1, <2>1, <2>2, FailedKeepsInv DEF connVars
<1>4. CASE Outcome(us) # "failed"
  <2> DEFINE f == us[1].frame
  <2>1. /\ f \in Frame /\ f.type = Expected /\ f.sum /\ Outcome(us) \in {"ok", "cs", "busy"}
        /\ Outcome(us) = "ok" <=> f.code = "ACK"
    BY <1>2, <1>4, OutcomeOf
  <2>2. Quiet'
    BY <1>1, <1>4, AnswerIsLast DEF Quiet
  <2>3. IsApi => f = line[1].frame /\ f.type = "ack"
    BY <1>1, <1>2, <2>1, ExpectedSizes
  <2>4. IsApi => IF f.code = "ACK" THEN f.id \in Ids /\ accepted[f.id] = Of ELSE Untaken
    BY <1>2, <2>1, <2>3 DEF Inv, AckInv
  <2>5. call = "query" /\ f.code = "ACK" => Answers(f)
    <3> SUFFICES ASSUME call = "query", f.code = "ACK" PROVE Answers(f)
      OBVIOUS
    <3>1. Good(f)
      BY <2>1, ExpectedSizes DEF Good, IsApi
    <3>2. us[1] = line[1] \/ (1 \in 1..Len(got) /\ us[1] = got[1])
      BY <1>2
    <3>3. QED
      BY <1>1, <1>2, <3>1, <3>2 DEF Inv, QueryInv
  <2> HIDE DEF f
  <2>6. CASE Outcome(us) = "ok"
    <3>1. Return("ok", f)
      BY <1>1, <2>6 DEF After, f
    <3>2. QED
      BY <1>1, <2>1, <2>2, <2>4, <2>5, <2>6, <3>1, OkKeepsInv
  <2>7. CASE Outcome(us) \in {"cs", "busy"}
    <3>1. Untaken
      BY <2>1, <2>4, <2>7 DEF Untaken, IsApi
    <3>2. tries \in 1..COMMAND_RETRIES
      BY DEF Inv, Types, TypeOK
    <3>3. CASE Return("failed", Blank)
      <4>1. QED
        BY <1>1, <2>2, <3>3, FailedKeepsInv DEF connVars
    <3>4. CASE Resend(tries)
      BY <1>1, <2>2, <3>1, <3>2, <3>4, ResendKeepsInv
    <3>5. CASE tries > 1 /\ Resend(tries - 1)
      <4>1. tries - 1 \in 1..COMMAND_RETRIES
        BY <3>2, <3>5, W5Assumption
      <4>2. QED
        BY <1>1, <2>2, <3>1, <3>5, <4>1, ResendKeepsInv
    <3>6. QED
      BY <1>1, <2>7, <3>3, <3>4, <3>5 DEF After
  <2>8. QED
    BY <2>1, <2>6, <2>7
<1>5. QED
  BY <1>3, <1>4

-----------------------------------------------------------------------------
(* The main loop.                                                          *)

\* The camera has taken every command up to the one the program is at, and none beyond it.
LEMMA NextWriteKeepsInv ==
    ASSUME Inv, NextWrite
    PROVE  Inv'
<1>1. /\ pc = "next"
      /\ UNCHANGED <<script, given, proto, port, duplex, msgId, ask, queryRetry, readChunk, toRead,
                     line, inbox, accepted>>
  BY DEF NextWrite, connVars, camVars
<1>2. CASE cur < NumWrites /\ Write(cur + 1)
  <2>1. /\ cur' = cur + 1 /\ output' = <<>> /\ call' = "write" /\ pc' = "send"
        /\ tries' = COMMAND_RETRIES /\ got' = <<>> /\ ret' = "ok" /\ rsp' = Blank
    BY <1>2 DEF Write, Begin
  <2>2. cur \in Nat /\ cur + 1 \in 0..NumWrites
    BY <1>2, W5Assumption DEF Inv, Types, TypeOK
  <2>3. Types'
    <3>1. TypeOK'
      BY <1>1, <2>1, <2>2, SameIds, BlankIsFrame, W5Assumption, Sizes DEF Inv, Types, TypeOK
    <3>2. QED
      BY <1>1, <2>1, <2>2, <3>1, SameIds DEF Inv, Types
  <2>4. PhaseInv' /\ CleanInv'
    BY <1>1, <2>1, <2>2 DEF Inv, PhaseInv, CleanInv, Clean, Quiet
  <2>5. CommandInv' /\ AckInv'
    BY <1>1, WireKept DEF Inv, Waiting, camVars
  <2>6. \A i \in Ids : accepted[i] \in Int /\ accepted[i] <= cur
    <3>1. \A i \in Ids : accepted[i] \in GetState..NumWrites /\ accepted[i] <= cur
      BY DEF Inv, Types, TypeOK, TakenInv, InOrder, Ids
    <3>2. QED
      BY <3>1, W5Assumption DEF GetState
  <2>7. \A n \in 1..cur : \E i \in Ids : accepted[i] = n
    BY <1>1, <2>2 DEF Inv, TakenInv, InOrder, Acknowledged, Ids
  <2>8. TakenInv'
    <3>1. Untaken'
      BY <1>1, <2>1, <2>2, <2>6 DEF Untaken, Ids
    <3>2. InOrder'
      BY <1>1, <2>1, <2>2, <2>6, <2>7 DEF Inv, TakenInv, InOrder, Ids
    <3>3. given = "none" => \E i \in Ids' : accepted'[i] = GetState
      BY <1>1 DEF Inv, TakenInv, Ids
    <3>4. QED
      BY <1>1, <2>1, <3>1, <3>2, <3>3 DEF TakenInv, Acknowledged
  <2>9. LoopInv' /\ QueryInv' /\ ReturnInv'
    BY <2>1 DEF LoopInv, OwnOutput, QueryInv, ReturnInv
  <2>10. QED
    BY <2>3, <2>4, <2>5, <2>8, <2>9 DEF Inv
<1>3. CASE NothingMore
  <2>1. pc' = "exit" /\ UNCHANGED <<cur, call, tries, got, ret, rsp, output>>
    BY <1>3 DEF NothingMore, callVars
  <2>2. Types'
    <3>1. TypeOK'
      BY <1>1, <2>1, SameIds DEF Inv, Types, TypeOK
    <3>2. QED
      BY <1>1, <2>1, <3>1, SameIds DEF Inv, Types
  <2>3. PhaseInv' /\ CleanInv'
    BY <1>1, <2>1 DEF Inv, PhaseInv, CleanInv, Clean, Quiet
  <2>4. CommandInv' /\ AckInv'
    BY <1>1, WireKept DEF Inv, Waiting, camVars
  <2>5. TakenInv'
    BY <1>1, <2>1, TakenKept DEF Inv, Acknowledged
  <2>6. LoopInv' /\ QueryInv' /\ ReturnInv'
    BY <1>1, <2>1, OutputKept DEF Inv, LoopInv, QueryInv, ReturnInv, Ids
  <2>7. QED
    BY <2>2, <2>3, <2>4, <2>5, <2>6 DEF Inv
<1>4. QED
  BY <1>2, <1>3 DEF NextWrite, NextLine, NextChunk

\* Back to the main loop, with the command taken.
LEMMA LeaveKeepsInv ==
    ASSUME Inv, Leave, pc = "back", call = "query" \/ (call = "write" /\ ret = "ok"),
           UNCHANGED <<script, connVars, cur, duplex, camVars>>, msgId' \in Ids,
           call = "query" => accepted[msgId'] = cur,
           output' \in Seq(Outputs), OwnOutput',
           call = "write" => output' = output
    PROVE  Inv'
<1>1. /\ pc' = "next" /\ ret' = "ok" /\ rsp' = Blank /\ readChunk' = 0 /\ ask' = 0 /\ toRead' = 0
      /\ queryRetry' = MAX_QUERY_RETRY
      /\ UNCHANGED <<script, given, proto, port, call, cur, duplex, tries, got, line, inbox, accepted>>
  BY DEF Leave, connVars, camVars
<1>2. Types'
  <2>1. msgId' \in 0..Len(accepted)
    BY DEF Ids
  <2>2. QED
    BY <1>1, <2>1, SameIds, BlankIsFrame, W5Assumption, Sizes DEF Inv, Types, TypeOK, NoSize
<1>3. PhaseInv' /\ CleanInv'
  BY <1>1 DEF Inv, PhaseInv, CleanInv, Clean, Quiet
<1>4. CommandInv' /\ AckInv'
  <2>1. CASE call = "query"
    BY <1>1, <2>1, WireKept DEF Inv, Waiting, IsApi
  <2>2. CASE ret = "ok"
    BY <1>1, <2>2, QuietWire DEF Inv, PhaseInv, Quiet
  <2>3. QED
    BY <2>1, <2>2
<1>5. TakenInv'
  BY <1>1, TakenKept DEF Inv, Acknowledged
<1>6. LoopInv' /\ QueryInv' /\ ReturnInv'
  BY <1>1 DEF LoopInv, QueryInv, ReturnInv, Ids
<1>7. QED
  BY <1>2, <1>3, <1>4, <1>5, <1>6 DEF Inv

\* The next chunk of the result is asked for, or the same one again.
LEMMA QueryKeepsInv ==
    ASSUME Inv, Begin("query"), pc = "back", ret = "ok", call \in {"write", "query"},
           UNCHANGED <<script, connVars, cur, duplex, camVars>>, msgId' \in Ids, accepted[msgId'] = cur,
           ask' \in 0..Chunks, readChunk' = ask', queryRetry' \in 1..MAX_QUERY_RETRY,
           toRead' \in NoSize..MaxRead,
           output' \in Seq(Outputs), OwnOutput',
           \A i \in 1..Len(output') : output'[i].chunk < ask'
    PROVE  Inv'
<1>1. /\ pc' = "send" /\ call' = "query" /\ tries' = COMMAND_RETRIES /\ got' = <<>> /\ ret' = "ok"
      /\ rsp' = Blank
      /\ UNCHANGED <<script, given, proto, port, cur, duplex, line, inbox, accepted>>
  BY DEF Begin, connVars, camVars
<1>2. Quiet' /\ cur # 0
  BY <1>1 DEF Inv, PhaseInv, Quiet
<1>3. Types'
  <2>1. msgId' \in 0..Len(accepted)
    BY DEF Ids
  <2>2. TypeOK'
    BY <1>1, <2>1, SameIds, BlankIsFrame, W5Assumption, Sizes DEF Inv, Types, TypeOK
  <2>3. QED
    BY <1>1, <2>2, SameIds DEF Inv, Types
<1>4. PhaseInv' /\ CleanInv'
  BY <1>1, <1>2 DEF Inv, PhaseInv, CleanInv, Clean, Quiet
<1>5. TakenInv'
  BY <1>1, TakenKept DEF Inv, Acknowledged, Untaken
<1>6. LoopInv' /\ ReturnInv'
  BY <1>1 DEF LoopInv, ReturnInv, Ids
<1>7. QueryInv'
  BY <1>1, <1>2 DEF QueryInv, Quiet
<1>8. QED
  BY <1>2, <1>3, <1>4, <1>5, <1>6, <1>7, QuietWire DEF Inv

LEMMA WriteAckedKeepsInv ==
    ASSUME Inv, WriteAcked
    PROVE  Inv'
<1>1. /\ pc = "back" /\ call = "write"
      /\ UNCHANGED <<script, connVars, cur, duplex, camVars>>
  BY DEF WriteAcked
<1>2. output = <<>>
  BY <1>1 DEF Inv, PhaseInv
<1>3. CASE ret = "failed"
  <2>1. /\ pc' = "exit"
        /\ UNCHANGED <<script, given, proto, port, call, cur, duplex, tries, got, ret, rsp, msgId, ask,
                       queryRetry, readChunk, toRead, output, line, inbox, accepted>>
    BY <1>3 DEF WriteAcked, connVars, callVars, loopVars, camVars
  <2>2. Types'
    <3>1. TypeOK'
      BY <2>1, SameIds DEF Inv, Types, TypeOK
    <3>2. QED
      BY <2>1, <3>1, SameIds DEF Inv, Types
  <2>3. PhaseInv' /\ CleanInv'
    BY <1>1, <2>1 DEF Inv, PhaseInv, CleanInv, Clean, Quiet
  <2>4. CommandInv' /\ AckInv'
    BY <1>1, <2>1, WireKept DEF Inv, Waiting, IsApi
  <2>5. TakenInv'
    BY <1>1, <2>1, TakenKept DEF Inv, Acknowledged
  <2>6. LoopInv' /\ QueryInv' /\ ReturnInv'
    BY <1>1, <2>1, OutputKept DEF Inv, LoopInv, QueryInv, ReturnInv
  <2>7. QED
    BY <2>2, <2>3, <2>4, <2>5, <2>6 DEF Inv
<1>4. CASE ret = "ok"
  <2>1. msgId' = rsp.id /\ output' = output
    BY <1>4 DEF WriteAcked
  <2>2. rsp.id \in Ids /\ accepted[rsp.id] = cur
    BY <1>1, <1>4 DEF Inv, ReturnInv, IsApi, Of
  <2>3. output' \in Seq(Outputs) /\ OwnOutput' /\ Len(output') = 0
    BY <1>2, <2>1 DEF Inv, Types, OwnOutput
  <2>4. CASE Leave
    BY <1>1, <1>4, <2>1, <2>2, <2>3, <2>4, LeaveKeepsInv
  <2>5. CASE \E n \in Specifier \ {NoQuery} : toRead' = n /\ QueryChunk(0)
    <3>1. toRead' \in NoSize..MaxRead
      BY <2>5, W5Assumption DEF Specifier, NoQuery, NoSize
    <3>2. /\ readChunk' = 0 /\ ask' = 0 /\ queryRetry' = MAX_QUERY_RETRY /\ Begin("query")
      BY <2>5 DEF QueryChunk
    <3>3. ask' \in 0..Chunks /\ readChunk' = ask' /\ queryRetry' \in 1..MAX_QUERY_RETRY
      BY <3>2, W5Assumption
    <3>4. \A i \in 1..Len(output') : output'[i].chunk < ask'
      BY <2>3
    <3>5. QED
      BY <1>1, <1>4, <2>1, <2>2, <2>3, <3>1, <3>2, <3>3, <3>4, QueryKeepsInv
  <2>6. QED
    BY <1>4, <2>4, <2>5 DEF WriteAcked
<1>5. QED
  BY <1>3, <1>4 DEF WriteAcked

\* What a query that is not over knows.
LEMMA QueryFacts ==
    ASSUME Inv, pc = "back", call = "query"
    PROVE  /\ msgId \in Ids /\ accepted[msgId] = cur /\ ask = readChunk /\ ask \in 0..Chunks
           /\ output \in Seq(Outputs) /\ OwnOutput
           /\ \A i \in 1..Len(output) : output[i].chunk < readChunk
           /\ rsp \in Frame /\ rsp.len \in 0..MaxRead /\ toRead \in NoSize..MaxRead
           /\ ret = "ok" => rsp.chunk = ask /\ ask < Chunks /\ (toRead # NoSize => rsp.len <= toRead)
<1>1. rsp \in Frame /\ toRead \in NoSize..MaxRead /\ ask \in 0..Chunks
  BY DEF Inv, Types, TypeOK
<1>2. rsp.len \in 0..MaxRead
  BY <1>1 DEF Frame
<1>3. ret = "ok" => rsp.chunk = ask /\ ask < Chunks /\ (toRead # NoSize => rsp.len <= toRead)
  BY DEF Inv, ReturnInv, Answers
<1>4. QED
  BY <1>1, <1>2, <1>3 DEF Inv, LoopInv, Types

LEMMA PendingKeepsInv ==
    ASSUME Inv, Pending
    PROVE  Inv'
<1>1. /\ pc = "back" /\ call = "query" /\ ret = "ok" /\ queryRetry > 1 /\ ask' = rsp.chunk
      /\ queryRetry' = queryRetry - 1 /\ Begin("query")
      /\ UNCHANGED <<script, connVars, cur, duplex, msgId, readChunk, toRead, output, camVars>>
  BY DEF Pending, QueryOk, IsPending
<1>2. queryRetry' \in 1..MAX_QUERY_RETRY
  BY <1>1, W5Assumption DEF Inv, Types, TypeOK
<1>3. /\ ask' = ask /\ readChunk' = ask' /\ ask' \in 0..Chunks /\ toRead' \in NoSize..MaxRead
      /\ msgId' \in Ids /\ accepted[msgId'] = cur
      /\ \A i \in 1..Len(output') : output'[i].chunk < ask'
      /\ output' \in Seq(Outputs)
  BY <1>1, QueryFacts
<1>4. OwnOutput'
  BY <1>1, OutputKept, QueryFacts DEF camVars
<1>5. QED
  BY <1>1, <1>2, <1>3, <1>4, QueryKeepsInv

\* The answer is put out: it is of this command, and of the chunk that was asked for.
LEMMA OutputGrows ==
    ASSUME Inv, ChunkRead
    PROVE  /\ output' \in Seq(Outputs) /\ OwnOutput'
           /\ \A i \in 1..Len(output') : output'[i].chunk < readChunk + 1
<1>1. /\ pc = "back" /\ call = "query" /\ ret = "ok" /\ rsp.id = msgId
      /\ output' = (IF rsp.len = 0 THEN output ELSE Append(output, [id |-> rsp.id, chunk |-> rsp.chunk]))
      /\ cur' = cur /\ accepted' = accepted
  BY DEF ChunkRead, QueryOk, camVars
<1>2. /\ msgId \in Ids /\ accepted[msgId] = cur /\ rsp.chunk = readChunk /\ rsp.chunk \in 0..Chunks
      /\ output \in Seq(Outputs) /\ OwnOutput
      /\ \A i \in 1..Len(output) : output[i].chunk < readChunk
  BY <1>1, QueryFacts
<1>3. \A i \in 1..Len(output) : output[i] \in Outputs
  BY <1>2, ElementOfSeq
<1>4. CASE output' = output
  <2>1. \A i \in 1..Len(output) : output[i].chunk \in Int
    BY <1>3 DEF Outputs
  <2>2. \A i \in 1..Len(output') : output'[i].chunk < readChunk + 1
    BY <1>2, <1>4, <2>1
  <2>3. QED
    BY <1>1, <1>2, <1>4, <2>2, OutputKept
<1>5. CASE output' = Append(output, [id |-> rsp.id, chunk |-> rsp.chunk])
  <2> DEFINE new == [id |-> rsp.id, chunk |-> rsp.chunk]
  <2>1. new \in Outputs /\ accepted[new.id] = cur /\ new.chunk = readChunk /\ readChunk \in Int
    BY <1>1, <1>2 DEF Outputs
  <2> HIDE DEF new
  <2>2. output' = Append(output, new)
    BY <1>5 DEF new
  <2>3. /\ output' \in Seq(Outputs) /\ Len(output') = Len(output) + 1
        /\ Len(output) \in Nat /\ output'[Len(output) + 1] = new
        /\ \A k \in 1..Len(output) : output'[k] = output[k]
    BY <1>2, <2>1, <2>2, Appended
  <2>4. \A i \in 1..Len(output') : i \in 1..Len(output) \/ i = Len(output) + 1
    BY <2>3
  <2>5. \A i \in 1..Len(output') : output'[i].chunk < readChunk + 1
    <3>1. \A i \in 1..Len(output) : output[i].chunk \in Int
      BY <1>3 DEF Outputs
    <3>2. \A i \in 1..Len(output) : output'[i].chunk < readChunk + 1
      BY <1>2, <2>1, <2>3, <3>1
    <3>3. output'[Len(output) + 1].chunk < readChunk + 1
      BY <2>1, <2>3
    <3>4. QED
      BY <2>4, <3>2, <3>3
  <2>6. ASSUME NEW i \in 1..Len(output')
        PROVE  accepted[output'[i].id] = cur /\ (i > 1 => output'[i - 1].chunk < output'[i].chunk)
    <3>1. CASE i \in 1..Len(output)
      <4>1. output'[i] = output[i] /\ (i > 1 => i - 1 \in 1..Len(output) /\ output'[i - 1] = output[i - 1])
        BY <2>3, <3>1
      <4>2. QED
        BY <1>2, <3>1, <4>1 DEF OwnOutput
    <3>2. CASE i = Len(output) + 1
      <4>1. output'[i] = new /\ (i > 1 => i - 1 \in 1..Len(output) /\ output'[i - 1] = output[i - 1])
        BY <2>3, <3>2
      <4>2. QED
        BY <1>2, <2>1, <4>1
    <3>3. QED
      BY <2>4, <3>1, <3>2
  <2>7. OwnOutput'
    BY <1>1, <2>6 DEF OwnOutput
  <2>8. QED
    BY <2>3, <2>5, <2>7
<1>6. QED
  BY <1>1, <1>4, <1>5

LEMMA ChunkReadKeepsInv ==
    ASSUME Inv, ChunkRead
    PROVE  Inv'
<1>1. /\ pc = "back" /\ call = "query" /\ ret = "ok"
      /\ UNCHANGED <<script, connVars, cur, duplex, msgId, camVars>>
  BY DEF ChunkRead, QueryOk
<1>2. /\ msgId' \in Ids /\ accepted[msgId'] = cur /\ readChunk + 1 \in 0..Chunks
      /\ rsp.len \in 0..MaxRead /\ toRead \in NoSize..MaxRead /\ (toRead # NoSize => rsp.len <= toRead)
  BY <1>1, QueryFacts, W5Assumption
<1>3. CASE Leave
  BY <1>1, <1>2, <1>3, OutputGrows, LeaveKeepsInv
<1>4. CASE QueryChunk(readChunk + 1) /\ toRead' = Left
  <2>1. toRead' \in NoSize..MaxRead
    BY <1>2, <1>4, W5Assumption DEF Left, NoSize
  <2>2. /\ readChunk' = ask' /\ ask' = readChunk + 1 /\ queryRetry' \in 1..MAX_QUERY_RETRY
        /\ Begin("query")
    BY <1>4, W5Assumption DEF QueryChunk
  <2>3. QED
    BY <1>1, <1>2, <2>1, <2>2, OutputGrows, QueryKeepsInv
<1>5. QED
  BY <1>3, <1>4 DEF ChunkRead

LEMMA QueryFailedKeepsInv ==
    ASSUME Inv, QueryFailed
    PROVE  Inv'
<1>1. /\ pc = "back" /\ call = "query" /\ Leave
      /\ UNCHANGED <<script, connVars, cur, duplex, msgId, output, camVars>>
  BY DEF QueryFailed
<1>2. OwnOutput'
  BY <1>1, OutputKept, QueryFacts DEF camVars
<1>3. QED
  BY <1>1, <1>2, QueryFacts, LeaveKeepsInv

-----------------------------------------------------------------------------
(* The camera.                                                             *)

\* It takes commands, and forgets none.
LEMMA AcceptedGrows ==
    ASSUME Types, NEW x \in GetState..NumWrites, accepted' = accepted \/ accepted' = Append(accepted, x)
    PROVE  /\ accepted' \in Seq(GetState..NumWrites) /\ Len(accepted) \in Nat
           /\ Len(accepted') \in Nat /\ Len(accepted) <= Len(accepted')
           /\ Ids \subseteq Ids' /\ \A i \in Ids : accepted'[i] = accepted[i]
           /\ Frame \subseteq Frame' /\ UnitOf \subseteq UnitOf' /\ Commands \subseteq Commands'
           /\ Outputs \subseteq Outputs'
           /\ accepted' = Append(accepted, x) =>
                 /\ Ids' = Ids \cup {Len(accepted) + 1} /\ accepted'[Len(accepted) + 1] = x
                 /\ Len(accepted') = Len(accepted) + 1
<1> DEFINE S == GetState..NumWrites
<1>0. accepted \in Seq(S) /\ x \in S
  BY DEF Types
<1> HIDE DEF S
<1>1. /\ accepted' \in Seq(S) /\ Len(accepted) \in Nat
      /\ Len(accepted') \in Nat /\ Len(accepted) <= Len(accepted')
      /\ \A i \in 1..Len(accepted) : accepted'[i] = accepted[i]
      /\ accepted' = Append(accepted, x) =>
            Len(accepted') = Len(accepted) + 1 /\ accepted'[Len(accepted) + 1] = x
  <2>1. CASE accepted' = accepted
    <3>1. accepted = Append(accepted, x) => Len(accepted) = Len(accepted) + 1 /\ Len(accepted) \in Nat
      BY <1>0
    <3>2. QED
      BY <1>0, <2>1, <3>1
  <2>2. CASE accepted' = Append(accepted, x)
    BY <1>0, <2>2, Appended
  <2>3. QED
    BY <2>1, <2>2
<1>2. /\ 0..Len(accepted) \subseteq 0..Len(accepted') /\ Ids \subseteq Ids'
      /\ accepted' = Append(accepted, x) => Ids' = Ids \cup {Len(accepted) + 1}
  BY <1>1 DEF Ids
<1>3. Frame \subseteq Frame'
  BY <1>2 DEF Frame
<1>4. Commands \subseteq Commands'
  BY <1>2 DEF Commands
<1>5. Outputs \subseteq Outputs'
  BY <1>2 DEF Outputs
<1>6. UnitOf \subseteq UnitOf'
  BY <1>3 DEF UnitOf
<1>7. QED
  BY <1>1, <1>2, <1>3, <1>4, <1>5, <1>6 DEF S, Ids

\* An answer that comes for q when the camera attends to it: a good acknowledgement is that of q
\* when it was taken, a good result is of the chunk that q asks for.
AnswerType(q) == IF q.type = "geo" THEN "ack" ELSE "result"
Comes(q, f) ==
    /\ f.type = AnswerType(q)
    /\ f.sum /\ q.type = "geo" =>
          IF f.code = "ACK" THEN accepted' = Append(accepted, q.of) /\ f.id = Len(accepted) + 1
          ELSE accepted' = accepted
    /\ f.sum /\ q.type = "query" /\ f.code = "ACK" =>
          f.chunk = q.chunk /\ f.chunk < Chunks /\ f.len <= q.size

LEMMA AnswerComes ==
    ASSUME Types, NEW q \in Commands, NEW f \in Frame', Answer(f), Comes(q, f),
           accepted' = accepted \/ accepted' = Append(accepted, q.of)
    PROVE  \E us \in Seq(UnitOf') :
              /\ line' = line \o us /\ Len(us) <= Size(AnswerType(q))
              /\ \A k \in 1..Len(us) :
                    us[k].frame.type = AnswerType(q) /\ (us[k].frame.sum => Comes(q, us[k].frame))
<1>1. q.of \in GetState..NumWrites
  BY DEF Commands
<1>2. Frame \subseteq Frame'
  BY <1>1, AcceptedGrows
<1>3. f.type \in {"ack", "result"} /\ f.type = AnswerType(q)
  BY DEF Comes, AnswerType
<1>4. line \in Seq(UnitOf)
  BY DEF Types
<1>5. PICK us \in Seq(UnitOf') :
          /\ line' = line \o us /\ Len(us) <= Size(f.type)
          /\ \A k \in 1..Len(us) : /\ us[k].frame.type = f.type
                                   /\ us[k].frame.sum => us[k].frame = f
  BY <1>2, <1>3, <1>4, WhatArrives
<1> us \in Seq(UnitOf')
  OBVIOUS
<1> WITNESS us \in Seq(UnitOf')
<1>6. QED
  BY <1>3, <1>5

LEMMA CameraStep ==
    ASSUME Types, Attends \/ IsBusy
    PROVE  /\ inbox # <<>> /\ inbox' = Tail(inbox) /\ Head(inbox) \in Commands
           /\ \/ accepted' = accepted
              \/ Head(inbox).type = "geo" /\ accepted' = Append(accepted, Head(inbox).of)
           /\ UNCHANGED <<script, given, proto, port, pc, call, cur, duplex, tries, got, ret, rsp, msgId,
                          ask, queryRetry, readChunk, toRead, output>>
           /\ \E us \in Seq(UnitOf') :
                 /\ line' = line \o us /\ Len(us) <= Size(AnswerType(Head(inbox)))
                 /\ \A k \in 1..Len(us) : /\ us[k].frame.type = AnswerType(Head(inbox))
                                          /\ us[k].frame.sum => Comes(Head(inbox), us[k].frame)
<1> DEFINE q == Head(inbox)
<1>1. /\ inbox # <<>> /\ inbox' = Tail(inbox)
      /\ UNCHANGED <<script, given, proto, port, pc, call, cur, duplex, tries, got, ret, rsp, msgId,
                     ask, queryRetry, readChunk, toRead, output>>
  BY DEF Attends, IsBusy, Busy, LoseCommand, Refuse, TakeCommand, TakeQuery, connVars, callVars, loopVars
<1>2. q \in Commands
  BY <1>1 DEF Types
<1>3. q.type \in {"geo", "query"} /\ q.of \in GetState..NumWrites /\ q.id \in 0..Len(accepted)
      /\ q.chunk \in 0..Chunks /\ q.size \in 0..MaxRead
  BY <1>2 DEF Commands
<1> DEFINE us0 == \E us \in Seq(UnitOf') :
                 /\ line' = line \o us /\ Len(us) <= Size(AnswerType(q))
                 /\ \A k \in 1..Len(us) : /\ us[k].frame.type = AnswerType(q)
                                          /\ us[k].frame.sum => Comes(q, us[k].frame)
<1>4. Reply(q) \in Frame /\ Reply(q).code = "ACK" /\ Reply(q).type = AnswerType(q) /\ AnswerType(q) \in {"ack", "result"}
  BY BlankIsFrame DEF Reply, AnswerType, Frame, Blank
<1>5. CASE LoseCommand
  <2>1. accepted' = accepted /\ line' = line \o <<>> /\ Len(<<>>) = 0
    BY <1>5 DEF LoseCommand, Types
  <2>2. Size(AnswerType(q)) \in 1..3
    BY <1>4, Sizes
  <2>3. us0
    <3> <<>> \in Seq(UnitOf')
      OBVIOUS
    <3> WITNESS <<>> \in Seq(UnitOf')
    <3>1. QED
      BY <2>1, <2>2
  <2>4. QED
    BY <1>1, <1>2, <2>1, <2>3
<1>6. ASSUME NEW c \in {"NACK_BUSY", "NACK_CS", "NACK_ERR"}, UNCHANGED accepted,
             Answer([Reply(q) EXCEPT !.code = c])
      PROVE  us0
  <2> DEFINE f == [Reply(q) EXCEPT !.code = c]
  <2>1. f \in Frame /\ f.type = AnswerType(q) /\ f.code # "ACK" /\ Answer(f)
    BY <1>4, <1>6 DEF Frame, Code
  <2> HIDE DEF f
  <2>2. f \in Frame' /\ Comes(q, f)
    BY <1>6, <2>1, SameIds DEF Comes
  <2>3. QED
    BY <1>2, <1>6, <2>1, <2>2, AnswerComes
<1>7. CASE Refuse \/ Busy
  BY <1>1, <1>2, <1>6, <1>7 DEF Refuse, Busy
<1>8. CASE TakeCommand
  <2> DEFINE f == [Reply(q) EXCEPT !.id = Len(accepted) + 1]
  <2>1. q.type = "geo" /\ accepted' = Append(accepted, q.of) /\ Answer(f)
    BY <1>8 DEF TakeCommand
  <2>2. f.type = "ack" /\ f.code = "ACK" /\ f.id = Len(accepted) + 1
    BY <1>4, <2>1 DEF Frame, AnswerType
  <2>3. f \in Frame'
    <3>1. Len(accepted) \in Nat /\ Len(accepted') = Len(accepted) + 1
      BY <1>3, <2>1, AcceptedGrows
    <3>2. Len(accepted) + 1 \in 0..Len(accepted')
      BY <3>1
    <3>3. Reply(q) \in Frame'
      BY <1>3, <1>4, <2>1, AcceptedGrows
    <3>4. QED
      BY <3>2, <3>3 DEF Frame
  <2> HIDE DEF f
  <2>4. Comes(q, f)
    BY <2>1, <2>2 DEF Comes, AnswerType
  <2>5. us0
    BY <1>2, <2>1, <2>3, <2>4, AnswerComes
  <2>6. QED
    BY <1>1, <1>2, <2>1, <2>5
<1>9. CASE TakeQuery
  <2>1. q.type = "query" /\ accepted' = accepted /\ q.chunk < Chunks
    BY <1>9 DEF TakeQuery
  <2>2. PICK s \in Status, l \in BOOLEAN, n \in 0..q.size :
            Answer([Reply(q) EXCEPT !.id = q.id, !.status = s, !.chunk = q.chunk, !.last = l, !.len = n])
    BY <1>9 DEF TakeQuery
  <2> DEFINE f == [Reply(q) EXCEPT !.id = q.id, !.status = s, !.chunk = q.chunk, !.last = l, !.len = n]
  <2>3. n \in 0..MaxRead /\ n <= q.size
    BY <1>3, <2>2, W5Assumption
  <2>4. f \in Frame /\ f.type = AnswerType(q) /\ f.chunk = q.chunk /\ f.len = n
    BY <1>3, <1>4, <2>2, <2>3 DEF Frame
  <2>5. Answer(f)
    BY <2>2
  <2> HIDE DEF f
  <2>6. f \in Frame' /\ Comes(q, f)
    BY <2>1, <2>3, <2>4, SameIds DEF Comes
  <2>7. us0
    BY <1>2, <2>1, <2>5, <2>6, AnswerComes
  <2>8. QED
    BY <1>1, <1>2, <2>1, <2>7
<1>10. QED
  BY <1>5, <1>7, <1>8, <1>9 DEF Attends, IsBusy

LEMMA CameraKeepsInv ==
    ASSUME Inv, Attends \/ IsBusy
    PROVE  Inv'
<1> DEFINE q == Head(inbox)
           x == q.of
<1>1. /\ inbox # <<>> /\ inbox' = Tail(inbox) /\ q \in Commands
      /\ accepted' = accepted \/ (q.type = "geo" /\ accepted' = Append(accepted, x))
      /\ UNCHANGED <<script, given, proto, port, pc, call, cur, duplex, tries, got, ret, rsp, msgId,
                     ask, queryRetry, readChunk, toRead, output>>
  BY CameraStep DEF Inv
<1>2. PICK us \in Seq(UnitOf') :
          /\ line' = line \o us /\ Len(us) <= Size(AnswerType(q))
          /\ \A k \in 1..Len(us) : us[k].frame.type = AnswerType(q) /\ (us[k].frame.sum => Comes(q, us[k].frame))
  BY CameraStep DEF Inv
<1>3. q.type \in {"geo", "query"} /\ x \in GetState..NumWrites
  BY <1>1 DEF Commands
<1>4. /\ accepted' \in Seq(GetState..NumWrites) /\ Len(accepted) \in Nat
      /\ Len(accepted') \in Nat /\ Len(accepted) <= Len(accepted')
      /\ Ids \subseteq Ids' /\ \A i \in Ids : accepted'[i] = accepted[i]
      /\ Frame \subseteq Frame' /\ UnitOf \subseteq UnitOf' /\ Commands \subseteq Commands'
      /\ Outputs \subseteq Outputs'
      /\ accepted' = Append(accepted, x) =>
            /\ Ids' = Ids \cup {Len(accepted) + 1} /\ accepted'[Len(accepted) + 1] = x
            /\ Len(accepted') = Len(accepted) + 1
  BY <1>1, <1>3, AcceptedGrows DEF Inv
<1>5. /\ inbox' \in Seq(Commands) /\ Len(inbox') = Len(inbox) - 1 /\ Len(inbox) \in Nat /\ q = inbox[1]
      /\ 1 \in 1..Len(inbox)
      /\ \A i \in 1..Len(inbox') : i + 1 \in 1..Len(inbox) /\ inbox'[i] = inbox[i + 1]
  BY <1>1, HeadAndTail DEF Inv, Types
<1>6. /\ line' \in Seq(UnitOf') /\ Len(line') = Len(line) + Len(us) /\ Len(line) \in Nat
      /\ Len(us) \in Nat
      /\ \A k \in 1..Len(line') :
            \/ k \in 1..Len(line) /\ line'[k] = line[k]
            \/ k - Len(line) \in 1..Len(us) /\ line'[k] = us[k - Len(line)]
  <2> DEFINE U == UnitOf'
  <2>1. line \in Seq(U) /\ us \in Seq(U) /\ line' = line \o us
    BY <1>2, <1>4 DEF Inv, Types
  <2> HIDE DEF U
  <2>2. line' \in Seq(U) /\ Len(line') = Len(line) + Len(us) /\ Len(line) \in Nat /\ Len(us) \in Nat
    BY <2>1
  <2>3. \A k \in 1..Len(line') :
            \/ k \in 1..Len(line) /\ line'[k] = line[k]
            \/ k - Len(line) \in 1..Len(us) /\ line'[k] = us[k - Len(line)]
    BY <2>1
  <2>4. QED
    BY <2>2, <2>3 DEF U
<1>7. \A k \in 1..Len(line') :
         \/ k \in 1..Len(line) /\ line'[k] = line[k]
         \/ /\ k \notin 1..Len(line) /\ k - Len(line) \in 1..Len(us)
            /\ line'[k].frame.type = AnswerType(q) /\ (line'[k].frame.sum => Comes(q, line'[k].frame))
  <2> SUFFICES ASSUME NEW k \in 1..Len(line'), ~(k \in 1..Len(line) /\ line'[k] = line[k])
               PROVE  /\ k \notin 1..Len(line) /\ k - Len(line) \in 1..Len(us)
                      /\ line'[k].frame.type = AnswerType(q) /\ (line'[k].frame.sum => Comes(q, line'[k].frame))
    OBVIOUS
  <2>1. k - Len(line) \in 1..Len(us) /\ line'[k] = us[k - Len(line)]
    BY <1>6
  <2>2. k \notin 1..Len(line)
    BY <1>6, <2>1
  <2>3. QED
    BY <1>2, <2>1, <2>2
<1> HIDE DEF q, x
\* A command that is answered is the only one, of the call in progress.
<1>8. q.type = "geo" =>
         /\ Len(inbox) = 1 /\ inbox' = <<>> /\ x = Of /\ Waiting /\ Untaken
         /\ Len(us) <= 1
  <2> SUFFICES ASSUME q.type = "geo"
               PROVE  /\ Len(inbox) = 1 /\ inbox' = <<>> /\ x = Of /\ Waiting /\ Untaken
                      /\ Len(us) <= 1
    OBVIOUS
  <2>1. Len(inbox) = 1 /\ inbox[1].of = Of /\ Waiting /\ Untaken
    BY <1>5 DEF Inv, CommandInv
  <2>2. inbox' = <<>>
    BY <1>5, <2>1
  <2>3. Len(us) <= 1
    BY <1>2, Sizes DEF AnswerType
  <2>4. QED
    BY <1>5, <2>1, <2>2, <2>3 DEF x
<1>9. q.type # "geo" => accepted' = accepted /\ Ids' = Ids
  BY <1>1 DEF Ids
<1>10. Of' = Of /\ (IsApi' <=> IsApi) /\ (Waiting' <=> Waiting) /\ ~Quiet
  BY <1>1 DEF Of, IsApi, Waiting, Quiet
<1>11. Types'
  <2>1. \A k \in 1..Len(line') : line'[k].frame \in Frame'
    <3>1. \A k \in 1..Len(line') : line'[k] \in UnitOf'
      BY <1>6
    <3>2. QED
      BY <3>1 DEF UnitOf
  <2>2. rsp' \in Frame' /\ msgId' \in 0..Len(accepted')
    <3>1. msgId \in 0..Len(accepted) /\ rsp \in Frame
      BY DEF Inv, Types, TypeOK
    <3>2. QED
      BY <1>1, <1>4, <3>1
  <2>3. \A i \in 1..Len(accepted') : accepted'[i] \in GetState..NumWrites
    <3>1. accepted' \in Seq(GetState..NumWrites)
      BY <1>4
    <3>2. QED
      BY <3>1, ElementOfSeq
  <2>4. TypeOK'
    BY <1>1, <2>1, <2>2, <2>3 DEF Inv, Types, TypeOK
  <2>5. inbox' \in Seq(Commands') /\ got' \in Seq(UnitOf') /\ output' \in Seq(Outputs')
    BY <1>1, <1>4, <1>5 DEF Inv, Types
  <2>6. QED
    BY <1>4, <1>6, <2>4, <2>5 DEF Types
<1>12. PhaseInv'
  BY <1>1, <1>10, Sizes DEF Inv, PhaseInv, Expected, Quiet
<1>13. CleanInv'
  <2> SUFFICES ASSUME Clean' PROVE CleanInv'
    BY DEF CleanInv
  <2>1. Clean
    BY <1>1 DEF Clean
  <2>2. pc' # "send"
    BY <1>1, <1>10, <2>1 DEF Inv, CleanInv
  <2>3. call = "info" => \A i \in 1..Len(inbox') : inbox'[i].type = "geo"
    BY <1>5, <2>1 DEF Inv, CleanInv
  <2>4. ASSUME pc \in {"echo", "recv"}
        PROVE  /\ Len(inbox') <= 1
               /\ Len(got) + Len(line') <= (IF pc = "echo" THEN Size("echo") ELSE 0)
                                           + (IF inbox' = <<>> THEN Size(Expected) ELSE 0)
    <3>1. /\ Len(inbox) <= 1
          /\ Len(got) + Len(line) <= (IF pc = "echo" THEN Size("echo") ELSE 0) + 0
      BY <1>1, <2>1, <2>4, Sizes DEF Inv, CleanInv
    <3>2. Len(inbox') = 0 /\ inbox' = <<>>
      BY <1>5, <3>1
    <3>3. AnswerType(q) = Expected
      <4>1. CASE call = "info"
        BY <1>5, <2>1, <4>1 DEF Inv, CleanInv, AnswerType, Expected, IsApi
      <4>2. CASE call # "info"
        BY <1>3, <1>8, <2>1, <4>2 DEF Clean, Waiting, AnswerType, Expected, IsApi
      <4>3. QED
        BY <4>1, <4>2
    <3>4. Len(us) <= Size(Expected) /\ Size(Expected) \in {1, 3}
      BY <1>2, <3>3, ExpectedSizes
    <3>5. Len(got) \in Nat
      BY DEF Inv, Types, TypeOK
    <3>6. QED
      BY <1>6, <3>1, <3>2, <3>4, <3>5, Sizes
  <2>5. Expected' = Expected
    BY <1>10 DEF Expected
  <2>6. QED
    BY <1>1, <2>2, <2>3, <2>4, <2>5, Sizes DEF CleanInv
<1>14. CommandInv'
  <2> SUFFICES ASSUME NEW i \in 1..Len(inbox'), inbox'[i].type = "geo"
               PROVE  /\ i = Len(inbox') /\ inbox'[i].of = Of /\ Waiting /\ Untaken'
                      /\ \A k \in 1..Len(line') : line'[k].frame.type # "ack"
    BY <1>10 DEF CommandInv
  <2>1. i + 1 \in 1..Len(inbox) /\ inbox[i + 1].type = "geo" /\ inbox'[i] = inbox[i + 1]
    BY <1>5
  <2>2. /\ i + 1 = Len(inbox) /\ inbox[i + 1].of = Of /\ Waiting /\ Untaken
        /\ \A k \in 1..Len(line) : line[k].frame.type # "ack"
    BY <2>1 DEF Inv, CommandInv
  <2>3. q.type # "geo"
    BY <1>5, <1>8, <2>1
  <2>4. Untaken'
    BY <1>1, <1>9, <2>2, <2>3 DEF Untaken
  <2>5. AnswerType(q) # "ack"
    BY <2>3 DEF AnswerType
  <2>6. QED
    BY <1>5, <1>7, <2>1, <2>2, <2>4, <2>5
<1>15. AckInv'
  <2> SUFFICES ASSUME NEW k \in 1..Len(line'), line'[k].frame.type = "ack"
               PROVE  /\ k = Len(line') /\ inbox' = <<>> /\ Waiting
                      /\ line'[k].frame.sum =>
                            IF line'[k].frame.code = "ACK"
                            THEN line'[k].frame.id \in Ids' /\ accepted'[line'[k].frame.id] = Of
                            ELSE Untaken'
    BY <1>10 DEF AckInv
  <2>1. ~(k \in 1..Len(line) /\ line'[k] = line[k])
    BY <1>1 DEF Inv, AckInv
  <2>2. /\ k \notin 1..Len(line) /\ k - Len(line) \in 1..Len(us)
        /\ AnswerType(q) = "ack" /\ (line'[k].frame.sum => Comes(q, line'[k].frame))
    BY <1>7, <2>1
  <2>3. q.type = "geo"
    BY <2>2 DEF AnswerType
  <2>4. k = Len(line')
    BY <1>6, <1>8, <2>2, <2>3
  <2>5. ASSUME line'[k].frame.sum, line'[k].frame.code = "ACK"
        PROVE  line'[k].frame.id \in Ids' /\ accepted'[line'[k].frame.id] = Of
    BY <1>4, <1>8, <2>2, <2>3, <2>5 DEF Comes, x
  <2>6. ASSUME line'[k].frame.sum, line'[k].frame.code # "ACK"
        PROVE  Untaken'
    <3>1. accepted' = accepted
      BY <2>2, <2>3, <2>6 DEF Comes
    <3>2. QED
      BY <1>1, <1>8, <2>3, <3>1 DEF Untaken, Ids
  <2>7. QED
    BY <1>8, <2>3, <2>4, <2>5, <2>6
<1>16. QueryInv'
  <2> SUFFICES ASSUME call = "query", pc \in {"send", "echo", "recv"} PROVE QueryInv'
    BY <1>1 DEF QueryInv
  <2>1. /\ \A i \in 1..Len(inbox) : inbox[i].chunk = ask /\ (toRead # NoSize => inbox[i].size <= toRead)
        /\ \A k \in 1..Len(line) : Good(line[k].frame) => Answers(line[k].frame)
        /\ \A k \in 1..Len(got) : Good(got[k].frame) => Answers(got[k].frame)
    BY DEF Inv, QueryInv
  <2>2. \A i \in 1..Len(inbox') : inbox'[i].chunk = ask /\ (toRead # NoSize => inbox'[i].size <= toRead)
    BY <1>5, <2>1
  <2>3. ASSUME NEW k \in 1..Len(line'), Good(line'[k].frame) PROVE Answers(line'[k].frame)
    <3>1. CASE k \in 1..Len(line) /\ line'[k] = line[k]
      BY <2>1, <2>3, <3>1
    <3>2. CASE ~(k \in 1..Len(line) /\ line'[k] = line[k])
      <4>1. q.type = "query"
        BY <1>3, <1>7, <2>3, <3>2 DEF Good, AnswerType
      <4>2. line'[k].frame.chunk = q.chunk /\ line'[k].frame.chunk < Chunks /\ line'[k].frame.len <= q.size
        BY <1>7, <2>3, <3>2, <4>1 DEF Good, Comes
      <4>3. line'[k].frame.len \in Int /\ q.size \in Int /\ toRead \in Int
        <5>1. line'[k] \in UnitOf'
          BY <1>6
        <5>2. line'[k].frame.len \in 0..MaxRead
          BY <5>1 DEF UnitOf, Frame
        <5>3. toRead \in NoSize..MaxRead /\ q.size \in 0..MaxRead
          BY <1>1 DEF Inv, Types, TypeOK, Commands
        <5>4. QED
          BY <5>2, <5>3, W5Assumption DEF NoSize
      <4>4. q.chunk = ask /\ (toRead # NoSize => q.size <= toRead)
        BY <1>5, <2>1
      <4>5. QED
        BY <4>2, <4>3, <4>4 DEF Answers
    <3>3. QED
      BY <3>1, <3>2
  <2>4. QED
    BY <1>1, <2>1, <2>2, <2>3 DEF QueryInv, Answers, Good
<1>17. ReturnInv'
  BY <1>1, <1>10 DEF Inv, PhaseInv, ReturnInv
<1>18. TakenInv'
  <2>1. cur \in 0..NumWrites /\ (call \in {"info", "infoq", "state"} <=> cur = 0)
    BY DEF Inv, Types, TypeOK, PhaseInv
  <2>2. \A i \in Ids : accepted[i] \in GetState..NumWrites
    BY DEF Inv, Types, TypeOK, Ids
  <2>3. ASSUME NEW i \in Ids' \ Ids
        PROVE  /\ i = Len(accepted) + 1 /\ q.type = "geo" /\ accepted'[i] = Of
               /\ \A j \in Ids' : j # i => j \in Ids
    <3>1. accepted' = Append(accepted, x) /\ q.type = "geo"
      BY <1>1, <2>3 DEF Ids, x
    <3>2. QED
      BY <1>4, <1>8, <2>3, <3>1
  <2>4. (Of <= cur /\ (Of > 0 => call = "write" /\ Of = cur)) \/ q.type # "geo"
    BY <1>8, <2>1, W5Assumption DEF Of, GetState, Waiting, IsApi
  <2>5. InOrder'
    <3> SUFFICES /\ \A i, j \in Ids' : i < j /\ accepted'[i] > 0 /\ accepted'[j] > 0
                                       => accepted'[i] < accepted'[j]
                 /\ \A n \in 1..(cur - 1) : \E i \in Ids' : accepted'[i] = n
                 /\ \A i \in Ids' : accepted'[i] <= cur
      BY <1>1 DEF InOrder, Ids
    <3>1. /\ \A i, j \in Ids : i < j /\ accepted[i] > 0 /\ accepted[j] > 0 => accepted[i] < accepted[j]
          /\ \A n \in 1..(cur - 1) : \E i \in Ids : accepted[i] = n
          /\ \A i \in Ids : accepted[i] <= cur
      BY DEF Inv, TakenInv, InOrder, Ids
    <3>2. \A n \in 1..(cur - 1) : \E i \in Ids' : accepted'[i] = n
      BY <1>4, <3>1
    <3>3. \A i \in Ids' : accepted'[i] <= cur
      BY <1>4, <2>3, <2>4, <3>1
    <3>4. ASSUME NEW i \in Ids', NEW j \in Ids', i < j, accepted'[i] > 0, accepted'[j] > 0
          PROVE  accepted'[i] < accepted'[j]
      <4>1. CASE j \in Ids
        <5>1. i \in Ids
          BY <3>4, <4>1, <1>4 DEF Ids
        <5>2. QED
          BY <1>4, <3>1, <3>4, <4>1, <5>1
      <4>2. CASE j \notin Ids
        <5>1. j = Len(accepted) + 1 /\ q.type = "geo" /\ accepted'[j] = Of /\ i \in Ids
          BY <2>3, <3>4, <4>2
        <5>2. call = "write" /\ Of = cur /\ Untaken
          BY <1>8, <2>4, <3>4, <5>1
        <5>3. accepted[i] <= cur /\ accepted[i] # cur /\ accepted'[i] = accepted[i]
          BY <1>4, <3>1, <5>1, <5>2 DEF Untaken
        <5>4. accepted[i] \in Int /\ cur \in Int
          BY <2>1, <2>2, <5>1, W5Assumption DEF GetState
        <5>5. QED
          BY <5>1, <5>2, <5>3, <5>4
      <4>3. QED
        BY <4>1, <4>2
    <3>5. QED
      BY <3>2, <3>3, <3>4
  <2>6. pc' = "send" => Untaken'
    BY <1>1, <1>8, <1>9 DEF Inv, TakenInv, Untaken, Waiting
  <2>7. /\ Acknowledged' => cur = 0 \/ \E i \in Ids' : accepted'[i] = cur
        /\ given = "none" /\ (pc = "next" \/ call \in {"write", "query"}) =>
              \E i \in Ids' : accepted'[i] = GetState
    BY <1>1, <1>4 DEF Inv, TakenInv, Acknowledged
  <2>8. QED
    BY <1>1, <2>5, <2>6, <2>7 DEF TakenInv
<1>19. LoopInv'
  <2>1. OwnOutput'
    <3>1. \A i \in 1..Len(output) : output[i].id \in Ids
      <4>1. \A i \in 1..Len(output) : output[i] \in Outputs
        BY DEF Inv, Types
      <4>2. QED
        BY <4>1 DEF Outputs
    <3>2. QED
      BY <1>1, <1>4, <3>1 DEF Inv, LoopInv, OwnOutput
  <2>2. QED
    BY <1>1, <1>4, <2>1 DEF Inv, LoopInv
<1>20. QED
  BY <1>11, <1>12, <1>13, <1>14, <1>15, <1>16, <1>17, <1>18, <1>19 DEF Inv

-----------------------------------------------------------------------------
(* Every step.                                                             *)

LEMMA NextKeepsInv ==
    ASSUME Inv, [Next]_vars, ~late'
    PROVE  Inv'
<1>1. CASE UNCHANGED vars
  <2>1. UNCHANGED <<script, given, proto, port, pc, call, cur, duplex, tries, got, ret, rsp, msgId, ask,
                    queryRetry, readChunk, toRead, output, line, inbox, accepted>>
    BY <1>1 DEF vars, connVars, callVars, loopVars, camVars
  <2>2. Types'
    <3>1. TypeOK'
      BY <2>1, SameIds DEF Inv, Types, TypeOK
    <3>2. QED
      BY <2>1, <3>1, SameIds DEF Inv, Types
  <2>3. PhaseInv' /\ CleanInv' /\ QueryInv' /\ ReturnInv'
    <3>1. /\ (IsApi' <=> IsApi) /\ Of' = Of /\ Expected' = Expected /\ (Clean' <=> Clean)
          /\ (Quiet' <=> Quiet) /\ Ids' = Ids
      BY <2>1 DEF IsApi, Of, Expected, Clean, Quiet, Ids
    <3>2. PhaseInv' /\ CleanInv'
      BY <2>1, <3>1 DEF Inv, PhaseInv, CleanInv
    <3>3. QueryInv' /\ ReturnInv'
      BY <2>1, <3>1 DEF Inv, QueryInv, ReturnInv, Answers, Good
    <3>4. QED
      BY <3>2, <3>3
  <2>4. CommandInv' /\ AckInv'
    <3>1. UNCHANGED camVars /\ (Waiting' <=> Waiting)
      BY <2>1 DEF camVars, Waiting, IsApi
    <3>2. QED
      BY <2>1, <3>1, WireKept DEF Inv
  <2>5. TakenInv'
    BY <2>1, TakenKept DEF Inv, Acknowledged
  <2>6. LoopInv'
    BY <2>1, OutputKept DEF Inv, LoopInv, Ids
  <2>7. QED
    BY <2>2, <2>3, <2>4, <2>5, <2>6 DEF Inv
<1>2. CASE Connect
  BY <1>2, ConnectingKeepsInv, AttachKeepsInv, ConnectFailsKeepsInv, InfoAckedKeepsInv,
     InfoAnsweredKeepsInv, StateAckedKeepsInv DEF Connect
<1>3. CASE Library
  BY <1>2, <1>3, SendKeepsInv, SendFailsKeepsInv, ReadKeepsInv, TimeOutKeepsInv, AnsweredKeepsInv,
     I2cSendKeepsInv, I2cReceiveKeepsInv DEF Library
<1>4. CASE MainLoop
  BY <1>4, NextWriteKeepsInv, WriteAckedKeepsInv, PendingKeepsInv, ChunkReadKeepsInv,
     QueryFailedKeepsInv DEF MainLoop
<1>5. QED
  BY <1>1, <1>3, <1>4, CameraKeepsInv DEF Next

-----------------------------------------------------------------------------
(* A late answer to api_get_info.                                          *)

\* Nothing else makes a connection late.
LEMMA OnlyTimeOutIsLate ==
    ASSUME Next, ~TimeOut
    PROVE  late' = late \/ late' = FALSE
<1>1. CASE Connect
  BY <1>1 DEF Connect, SerialOpens, SerialConfigures, I2cOpens, I2cConfigures, Connecting,
     UartAttaches, I2cAttaches, ConnectFails, InfoAcked, InfoAnswered, StateAcked, Disconnect, Close,
     connVars
<1>2. CASE Library
  BY <1>1, <1>2 DEF Library, Send, SendFails, Echo, Receive, Answered, I2cSend, I2cReceive, connVars
<1>3. CASE MainLoop
  BY <1>3 DEF MainLoop, NextWrite, WriteAcked, Pending, ChunkRead, QueryFailed, connVars
<1>4. CASE Attends \/ IsBusy
  BY <1>4 DEF Attends, IsBusy, connVars
<1>5. QED
  BY <1>2, <1>3, <1>4 DEF Next

\* And nothing but W5comDisconnect ends it.
LEMMA StaysLate ==
    ASSUME Next, ~TimeOut, ~StateAcked
    PROVE  late' = late
<1>1. CASE Connect
  BY <1>1 DEF Connect, SerialOpens, SerialConfigures, I2cOpens, I2cConfigures, Connecting,
     UartAttaches, I2cAttaches, ConnectFails, InfoAcked, InfoAnswered,
     connVars
<1>2. CASE Library
  BY <1>1, <1>2 DEF Library, Send, SendFails, Echo, Receive, Answered, I2cSend, I2cReceive, connVars
<1>3. CASE MainLoop
  BY <1>3 DEF MainLoop, NextWrite, WriteAcked, Pending, ChunkRead, QueryFailed, connVars
<1>4. CASE Attends \/ IsBusy
  BY <1>4 DEF Attends, IsBusy, connVars
<1>5. QED
  BY <1>2, <1>3, <1>4 DEF Next

LEMMA LateStarts ==
    ASSUME Inv, late = FALSE, TimeOut, late'
    PROVE  Adrift'
<1>1. call = "info"
  BY DEF TimeOut, Overtaken
<1>2. /\ pc' = "back" /\ ret' = "failed"
      /\ UNCHANGED <<script, given, proto, port, call, cur, ask, queryRetry, readChunk, toRead, output>>
  BY DEF TimeOut, Return, loopVars
<1>3. cur = 0 /\ output = <<>>
  BY <1>1 DEF Inv, PhaseInv
<1>4. QED
  BY <1>1, <1>2, <1>3 DEF Adrift, Settled, Inv, Types, TypeOK

\* The library, the main loop and the camera go on as before ...
LEMMA LateGoesOn ==
    ASSUME Adrift, [Next]_vars, ~StateAcked
    PROVE  Adrift'
<1>1. CASE UNCHANGED vars
  BY <1>1 DEF Adrift, Settled, vars, connVars, callVars, loopVars
<1>2. CASE Connect
  <2>1. InfoAcked
    BY <1>2 DEF Adrift, Connect, SerialOpens, SerialConfigures, I2cOpens, I2cConfigures, Connecting,
       UartAttaches, I2cAttaches, ConnectFails, InfoAnswered
  <2>2. /\ call = "info" /\ Connected
        /\ UNCHANGED <<script, given, proto, port, cur, readChunk, output>>
    BY <2>1 DEF Adrift, InfoAcked, connVars
  <2>3. QED
    BY <2>2, W5Assumption DEF Adrift, Settled, Connected, Begin, Enter, NoSize
<1>3. CASE Library /\ ~Connect
  <2>1. /\ pc \in {"send", "echo", "recv"} /\ pc' \in {"send", "echo", "recv", "back"}
        /\ UNCHANGED <<script, given, proto, port, call, cur, ask, queryRetry, readChunk, toRead, output>>
    BY <1>3 DEF Library, Send, SendFails, Echo, Receive, TimeOut, Answered, I2cSend, I2cReceive,
       I2cAfter, After, Resend, Return, connVars, loopVars
  <2>2. QED
    BY <2>1 DEF Adrift, Settled
<1>4. CASE MainLoop
  <2>1. UNCHANGED <<script, given, proto, port>>
    BY <1>4 DEF MainLoop, NextWrite, WriteAcked, Pending, ChunkRead, QueryFailed, connVars
  <2>2. CASE NextWrite
    <3>1. CASE Write(cur + 1)
      BY <2>1, <3>1 DEF Adrift, Write, Begin
    <3>2. CASE NothingMore
      BY <2>1, <2>2, <3>2 DEF Adrift, Settled, NextWrite, NothingMore
    <3>3. QED
      BY <2>2, <3>1, <3>2 DEF NextWrite, NextLine, NextChunk
  <2>3. CASE WriteAcked \/ Pending \/ ChunkRead \/ QueryFailed
    <3>1. /\ call \in {"write", "query"} /\ pc' \in {"send", "next", "exit"}
          /\ call' \in {"write", "query"}
      BY <2>3 DEF WriteAcked, Pending, ChunkRead, QueryFailed, Leave, QueryChunk, Begin
    <3>2. QED
      BY <2>1, <3>1 DEF Adrift
  <2>4. QED
    BY <1>4, <2>2, <2>3 DEF MainLoop
<1>5. CASE Attends \/ IsBusy
  BY <1>5 DEF Adrift, Settled, Attends, IsBusy, connVars, callVars, loopVars
<1>6. QED
  BY <1>1, <1>2, <1>3, <1>4, <1>5 DEF Next

\* ... until the port that was only tried is closed: the next one starts anew.
LEMMA LateEnds ==
    ASSUME Adrift, late = TRUE, StateAcked
    PROVE  IF late' THEN Adrift' ELSE Inv'
<1>1. /\ pc = "back" /\ call = "state" /\ Settled
      /\ UNCHANGED <<script, given, cur, ask, queryRetry, readChunk, toRead, output>>
  BY DEF StateAcked, Adrift
<1>2. CASE ret = "ok"
  <2>1. /\ pc' = "next" /\ late' = TRUE /\ UNCHANGED <<proto, port, call>>
    BY <1>2 DEF StateAcked, Enter, Disconnect
  <2>2. QED
    BY <1>1, <2>1 DEF Adrift, Settled
<1>3. CASE ret = "failed"
  <2>1. /\ duplex' = "unspecified" /\ line' = <<>> /\ inbox' = <<>> /\ accepted' = <<>>
        /\ call' = "info" /\ msgId' = 0 /\ tries' = COMMAND_RETRIES /\ got' = <<>> /\ ret' = "ok"
        /\ rsp' = Blank /\ TryNext /\ late' = FALSE
    BY <1>3 DEF StateAcked, Disconnect, Detach, Close
  <2>2. pc' \in {"open", "exit"} /\ proto' \in {"uart", "i2c"} /\ port' \in 1..Ports
    BY <2>1, W5Assumption DEF TryNext, Adrift
  <2>3. Quiet' /\ Ids' = {}
    BY <2>1 DEF Quiet, Ids
  <2>4. Blank \in Frame' /\ Len(accepted)' = 0
    BY <2>1, W5Assumption DEF Blank, Frame, Code, Status
  <2>5. Types'
    BY <1>1, <2>1, <2>2, <2>4, W5Assumption, Sizes DEF Adrift, Settled, Types, TypeOK
  <2>6. PhaseInv' /\ CleanInv'
    BY <1>1, <2>1, <2>2, <2>3 DEF Settled, PhaseInv, CleanInv, Clean
  <2>7. TakenInv'
    BY <1>1, <2>1, <2>2 DEF Settled, TakenInv, InOrder, Acknowledged
  <2>8. LoopInv' /\ QueryInv' /\ ReturnInv'
    BY <1>1, <2>1, <2>2 DEF Settled, LoopInv, OwnOutput, QueryInv, ReturnInv
  <2>9. QED
    BY <2>1, <2>3, <2>5, <2>6, <2>7, <2>8, QuietWire DEF Inv
<1>4. QED
  BY <1>2, <1>3 DEF StateAcked

LEMMA NextKeepsLateInv ==
    ASSUME LateInv, [Next]_vars
    PROVE  LateInv'
<1>1. late' \in BOOLEAN
  <2>1. CASE UNCHANGED vars
    BY <2>1 DEF LateInv, vars, connVars
  <2>2. CASE TimeOut
    BY <2>2 DEF TimeOut, Overtaken
  <2>3. CASE Next /\ ~TimeOut
    BY <2>3, OnlyTimeOutIsLate DEF LateInv
  <2>4. QED
    BY <2>1, <2>2, <2>3
<1>2. CASE late = FALSE
  <2>1. CASE late' = FALSE
    BY <1>2, <2>1, NextKeepsInv DEF LateInv
  <2>2. CASE late' = TRUE
    <3>1. TimeOut
      BY <1>2, <2>2, OnlyTimeOutIsLate DEF vars, connVars
    <3>2. QED
      BY <1>2, <2>2, <3>1, LateStarts DEF LateInv
  <2>3. QED
    BY <1>1, <2>1, <2>2
<1>3. CASE late = TRUE
  <2>1. CASE StateAcked
    BY <1>1, <1>3, <2>1, LateEnds DEF LateInv
  <2>2. CASE ~StateAcked
    <3>1. Adrift'
      BY <1>3, <2>2, LateGoesOn DEF LateInv
    <3>2. late' = TRUE
      <4>1. CASE UNCHANGED vars
        BY <1>3, <4>1 DEF vars, connVars
      <4>2. CASE TimeOut
        BY <1>3, <4>2 DEF TimeOut, Overtaken
      <4>3. CASE Next /\ ~TimeOut
        BY <1>3, <2>2, <4>3, StaysLate
      <4>4. QED
        BY <4>1, <4>2, <4>3
    <3>3. QED
      BY <3>1, <3>2 DEF LateInv
  <2>3. QED
    BY <2>1, <2>2
<1>4. QED
  BY <1>2, <1>3 DEF LateInv

LEMMA SpecKeepsInv == Spec => []LateInv
<1>1. Init => LateInv
  BY InitInv DEF Init, LateInv
<1>2. LateInv /\ [Next]_vars => LateInv'
  BY NextKeepsLateInv
<1>3. QED
  BY <1>1, <1>2, PTL DEF Spec

-----------------------------------------------------------------------------
(* The theorems.                                                           *)

\* The type invariant of W5Com.  After a late answer to api_get_info chunk numbers and
\* sizes may leave their ranges.
THEOREM TypeCorrect == Spec => [](late \in BOOLEAN /\ (~late => TypeOK))
<1>1. LateInv => late \in BOOLEAN /\ (~late => TypeOK)
  BY DEF LateInv, Inv, Types
<1>2. QED
  BY SpecKeepsInv, <1>1, PTL

\* The id that W5comCallApi returns, and the one that the queries name, is the id the camera gave
\* to the command just sent; and the search ends only at a camera that took a command: on every
\* connection whose api_get_info was not given up while the camera had still to attend to it.
THEOREM AcksAreOwn == Spec => []AckIsOwn
<1>1. Inv => OwnAck
  BY DEF Inv, OwnAck, ReturnInv, LoopInv, TakenInv, Ids
<1>2. LateInv => AckIsOwn
  BY <1>1 DEF LateInv, AckIsOwn
<1>3. QED
  BY SpecKeepsInv, <1>2, PTL

\* On such a connection the camera takes the commands, or the chunks of one, in order and each
\* once, and the program never goes past the one it waits for.
THEOREM TakenInOrder == Spec => []ChunksInOrder
<1>1. Inv => InOrder
  BY DEF Inv, TakenInv
<1>2. LateInv => ChunksInOrder
  BY <1>1 DEF LateInv, ChunksInOrder
<1>3. QED
  BY SpecKeepsInv, <1>2, PTL

\* On such a connection what the query loop puts out is of the command it asks about, chunk after
\* chunk.
THEOREM OutputsAreOwn == Spec => []OutputIsOwn
<1>1. Inv => OwnOutput
  BY DEF Inv, LoopInv
<1>2. LateInv => OutputIsOwn
  BY <1>1 DEF LateInv, OutputIsOwn
<1>3. QED
  BY SpecKeepsInv, <1>2, PTL
==============================================================================
