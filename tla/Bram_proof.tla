----------------------------- MODULE Bram_proof -----------------------------
(***************************************************************************)
(* Proofs about the two components that keep the state BRAM: StateBram,    *)
(* for every set of files and of programs, and any number of power losses, *)
(* acts of the operator and samples, and below it TaskData, whose Init,    *)
(* Next and Spec are TDInit, TDNext and TDSpec.                            *)
(***************************************************************************)
EXTENDS StateBram, TaskData, TLAPS

\* The steps of autostart before it starts a program.
Early == {"check", "move", "copy", "copying", "parse", "wait"}
Steps == Early \cup Programs \cup {"up"}

-----------------------------------------------------------------------------
(* The file of the operator.                                               *)

\* What the configuration file may be at each step of autostart, beside the file of
\* the operator: a file that is not his is never moved away.
FileInv ==
    /\ boot \in Steps
    /\ mine \in UserFiles \cup {NoFile}
    /\ file \in {mine, NoFile, CutFile, DefaultFile}
    /\ boot = "move" => file = mine /\ file # NoFile
    /\ boot \in {"copy", "copying"} => mine \in {NoFile, old}
    /\ UserConfigKept

\* The files that are not the operator's are of versions that autostart keeps.
LEMMA OthersAreKept ==
    /\ ~Differs(CutFile) /\ ~Differs(DefaultFile)
    /\ NoFile \notin UserFiles /\ CutFile # NoFile /\ DefaultFile # NoFile
BY FilesAssumption DEF Differs, CutFile, DefaultFile, NoFile, NoVersion

LEMMA InitFile == Init => FileInv
BY DEF Init, FileInv, Steps, Early, UserConfigKept

LEMMA NextFile == FileInv /\ [Next]_vars => FileInv'
<1> SUFFICES ASSUME FileInv, [Next]_vars PROVE FileInv'
  OBVIOUS
<1> USE OthersAreKept DEF FileInv, UserConfigKept, Steps, Early, Programs
<1>1. CASE CheckFile
  BY <1>1 DEF CheckFile, emmcVars
<1>2. CASE MoveAway
  BY <1>2 DEF MoveAway
<1>3. CASE CopyBegin
  BY <1>3 DEF CopyBegin
<1>4. CASE CopyEnd
  BY <1>4 DEF CopyEnd
<1>5. CASE RunParse \/ ParseDone
  BY <1>5 DEF RunParse, ParseDone, emmcVars
<1>6. ASSUME NEW p \in Programs, NEW then \in {"task-data", "task-state", "up"}, Launch(p, then)
      PROVE  FileInv'
  BY <1>6 DEF Launch, emmcVars
<1>7. CASE Edit
  BY <1>7 DEF Edit
<1>8. CASE PowerLoss
  BY <1>8 DEF PowerLoss
<1>9. ASSUME UNCHANGED <<emmcVars, boot>> PROVE FileInv'
  BY <1>9 DEF emmcVars
<1>10. CASE ConfigParse
  BY <1>9, <1>10 DEF ConfigParse
<1>11. ASSUME NEW p \in Programs, Take(p) \/ Kill(p) \/ StartByHand(p) PROVE FileInv'
  BY <1>9, <1>11 DEF Take, Kill, StartByHand
<1>12. CASE ReadSample \/ WriteSample \/ Send \/ SendFails \/ \E f \in StateFields : Collect(f)
  BY <1>9, <1>12 DEF ReadSample, WriteSample, Send, SendFails, Collect
<1>13. CASE Rerun
  BY <1>9, <1>13 DEF Rerun
<1>14. CASE UNCHANGED vars
  BY <1>9, <1>14 DEF vars
<1> QED
  BY <1>1, <1>2, <1>3, <1>4, <1>5, <1>6, <1>7, <1>8, <1>10, <1>11, <1>12, <1>13, <1>14
  DEF Next, Autostart

\* Power losses, cut and failed copies never cost the operator the file he put in place
\* last: it is the configuration file, or the one moved away (autostart:100-109).
THEOREM OperatorKeepsFile == Spec => []UserConfigKept
<1>1. FileInv => UserConfigKept
  BY DEF FileInv
<1> QED
  BY InitFile, NextFile, <1>1, PTL DEF Spec

-----------------------------------------------------------------------------
(* The state messages.                                                     *)

Numbers == [StateFields -> Nat]

\* A field goes from timesync-app (or config-parse) to the BRAM, to the copy of
\* task-state, to the message, and none is ahead of the one before it.
StateInv ==
    /\ losses \in Nat
    /\ state \in Numbers /\ sent \in Numbers
    /\ buffer \in [copy : Numbers, todo : SUBSET StateFields]
    /\ sample \in [n : Nat, held : BOOLEAN]
    /\ state.version <= 1 /\ state.time <= sample.n
    /\ \A f \in StateFields : sent[f] <= state[f]
    /\ \A f \in StateFields \ buffer.todo : sent[f] <= buffer.copy[f] /\ buffer.copy[f] <= state[f]

LEMMA InitState == Init => StateInv
BY DEF Init, StateInv, ZeroState, NoSample, NoCopy, Numbers, StateFields

\* A step that loses no power takes the messages forward.
LEMMA NextState ==
    ASSUME StateInv, [Next]_vars
    PROVE  StateInv' /\ (losses' = losses => \A f \in StateFields : sent'[f] >= sent[f])
<1> DEFINE Goal == StateInv' /\ (losses' = losses => \A f \in StateFields : sent'[f] >= sent[f])
<1> SUFFICES Goal
  OBVIOUS
<1> USE DEF StateInv, Numbers, StateFields, countVars
<1>1. ASSUME UNCHANGED <<state, buffer, sent, sample, losses>> PROVE Goal
  BY <1>1
<1>2. CASE Autostart
  <2>1. ASSUME NEW p \in Programs, NEW then \in {"task-data", "task-state", "up"}, Launch(p, then)
        PROVE  Goal
    BY <1>1, <2>1 DEF Launch
  <2>2. CASE CheckFile \/ MoveAway \/ CopyBegin \/ CopyEnd \/ RunParse \/ ParseDone
    BY <1>1, <2>2 DEF CheckFile, MoveAway, CopyBegin, CopyEnd, RunParse, ParseDone, progVars
  <2> QED
    BY <1>2, <2>1, <2>2 DEF Autostart, Programs
<1>3. CASE ConfigParse
  <2>1. UNCHANGED <<buffer, sent, sample, losses>>
    BY <1>3 DEF ConfigParse, progVars
  <2>2. state' = state \/ state' = [state EXCEPT !.version = 1]
    BY <1>3 DEF ConfigParse, Zero, SetItem, SetVersion
  <2> QED
    BY <2>1, <2>2
<1>4. ASSUME NEW p \in Programs, Take(p) \/ StartByHand(p) PROVE Goal
  BY <1>1, <1>4 DEF Take, StartByHand
<1>5. ASSUME NEW p \in Programs, Kill(p) PROVE Goal
  <2>1. buffer' \in {buffer, NoCopy} /\ UNCHANGED <<state, sent, losses>>
    BY <1>5 DEF Kill
  <2>2. sample' \in [n : Nat, held : BOOLEAN] /\ sample'.n = sample.n
    BY <1>5 DEF Kill
  <2>3. CASE buffer' = buffer
    BY <2>1, <2>2, <2>3
  <2>4. CASE buffer' = NoCopy
    BY <2>1, <2>2, <2>4 DEF NoCopy, ZeroState
  <2> QED
    BY <2>1, <2>3, <2>4
<1>6. CASE ReadSample
  BY <1>6 DEF ReadSample
<1>7. CASE WriteSample
  <2>1. /\ state' = [state EXCEPT !.time = sample.n] /\ sample' = [sample EXCEPT !.held = FALSE]
        /\ UNCHANGED <<buffer, sent, losses>>
    BY <1>7 DEF WriteSample
  <2>2. /\ state' \in Numbers /\ state'.version = state.version /\ state'.time = sample.n
        /\ sample' \in [n : Nat, held : BOOLEAN] /\ sample'.n = sample.n
    BY <2>1
  <2>3. \A f \in StateFields : state'[f] >= state[f]
    BY <2>2
  <2> QED
    BY <2>1, <2>2, <2>3
<1>8. CASE Send
  BY <1>8 DEF Send
<1>9. CASE SendFails
  BY <1>9 DEF SendFails, NoCopy, ZeroState
<1>10. ASSUME NEW f \in StateFields, Collect(f) PROVE Goal
  <2>1. /\ buffer' = [copy |-> [buffer.copy EXCEPT ![f] = state[f]], todo |-> buffer.todo \ {f}]
        /\ UNCHANGED <<state, sent, sample, losses>>
    BY <1>10 DEF Collect
  <2> QED
    BY <2>1
<1>11. CASE Edit
  BY <1>1, <1>11 DEF Edit, progVars
<1>12. CASE Rerun
  BY <1>1, <1>12 DEF Rerun
<1>13. CASE PowerLoss
  BY <1>13 DEF PowerLoss, NoCopy, ZeroState, NoSample
<1>14. CASE UNCHANGED vars
  BY <1>1, <1>14 DEF vars, progVars
<1> QED
  BY <1>2, <1>3, <1>4, <1>5, <1>6, <1>7, <1>8, <1>9, <1>10, <1>11, <1>12, <1>13, <1>14 DEF Next

\* Between two power losses no field of the state messages goes back, though three programs
\* write, clear and copy the BRAM without a lock (task-state.c:132).
THEOREM MessagesGoForward == Spec => StateNeverGoesBack
<1>1. StateInv /\ [Next]_vars =>
        StateInv' /\ [losses' = losses => \A f \in StateFields : sent'[f] >= sent[f]]_vars
  BY NextState
<1> QED
  BY InitState, <1>1, PTL DEF Spec, StateNeverGoesBack

-----------------------------------------------------------------------------
(* The configuration a program takes.                                      *)

ItemNo == 1..9  \* the numbers of the items
Values == {0} \cup {Stored(f, c.val) : f \in Item, c \in Files}
Parsers == [at : {"off", "zero", "items"}, next : 1..10, input : Files, byHand : BOOLEAN]
Progs == [at : {"off", "start", "run"}, taken : Seq(Values), given : Files, alone : BOOLEAN]

\* The first k items are those of file c, the others zero.
FilledTo(k, c) ==
    \A j \in ItemNo : config[Items[j]] = IF j <= k THEN Stored(Items[j], c.val) ELSE 0

ParserInv ==
    /\ parser \in Parsers /\ config \in [Item -> Values]
    /\ parser.at = "off" => FilledTo(parser.input.items, parser.input)
    /\ parser.at = "zero" => parser.next = 1
    /\ parser.at = "items" => FilledTo(parser.next - 1, parser.input)
                              /\ parser.next <= parser.input.items + 1
    /\ parser.at # "off" /\ ~parser.byHand => boot = "wait"

\* Before a program is started none runs; one that starts alone finds config-parse done.
ProgInv ==
    /\ prog \in [Programs -> Progs]
    /\ boot \in Early => \A p \in Programs : prog[p].at = "off"
    /\ \A p \in Programs :
          /\ prog[p].at = "start" => Len(prog[p].taken) < Len(Reads[p])
          /\ prog[p].at = "run" => Len(prog[p].taken) = Len(Reads[p])
          /\ prog[p].at = "start" /\ prog[p].alone =>
                parser.at = "off" /\ prog[p].given = parser.input
          /\ prog[p].at # "off" /\ prog[p].alone =>
                \A i \in 1..Len(prog[p].taken) :
                    prog[p].taken[i] = Expected(Reads[p][i], prog[p].given)

TakeInv == FileInv /\ ParserInv /\ ProgInv

LEMMA ItemFacts ==
    /\ Len(Items) = 9
    /\ Item = {Items[j] : j \in ItemNo}
    /\ \A j, k \in ItemNo : Items[j] = Items[k] => j = k
BY DEF Items, Item, ItemNo

LEMMA ReadsFacts ==
    ASSUME NEW p \in Programs
    PROVE  /\ Len(Reads[p]) \in Nat \ {0} /\ DOMAIN Reads[p] = 1..Len(Reads[p])
           /\ \A i \in 1..Len(Reads[p]) : Reads[p][i] \in Item
<1>1. CASE p = "timesync-app"
  BY <1>1 DEF Programs, Reads, Item, Items
<1>2. CASE p = "task-data"
  BY <1>2 DEF Programs, Reads, Item, Items
<1>3. CASE p = "task-state"
  BY <1>3 DEF Programs, Reads, Item, Items
<1> QED
  BY <1>1, <1>2, <1>3 DEF Programs

LEMMA FileItems == \A c \in Files : c.items \in 0..9
<1>1. NoFile.items = 0 /\ CutFile.items = 0 /\ DefaultFile.items = 9
  BY ItemFacts DEF NoFile, CutFile, DefaultFile
<1>2. \A c \in UserFiles : c.items \in 0..9
  BY FilesAssumption, ItemFacts
<1> QED
  BY <1>1, <1>2 DEF Files

\* What a file gives for an item depends on how many of its items can be read.
LEMMA ExpectedItem ==
    ASSUME NEW j \in ItemNo, NEW c \in Files
    PROVE  Expected(Items[j], c) = IF j <= c.items THEN Stored(Items[j], c.val) ELSE 0
<1>1. c.items \in 0..9
  BY FileItems
<1>2. (\E i \in 1..c.items : Items[i] = Items[j]) <=> j <= c.items
  BY <1>1, ItemFacts DEF ItemNo
<1> QED
  BY <1>2 DEF Expected

LEMMA TakesExpected ==
    ASSUME NEW f \in Item, NEW c \in Files, FilledTo(c.items, c)
    PROVE  config[f] = Expected(f, c)
BY ItemFacts, ExpectedItem DEF FilledTo

LEMMA InitTake == Init => TakeInv
<1> SUFFICES ASSUME Init PROVE ParserInv /\ ProgInv
  BY InitFile DEF TakeInv
<1>1. ParserInv
  <2>1. parser \in Parsers /\ parser.at = "off" /\ parser.input = NoFile
    BY DEF Init, NoParser, Parsers, Files
  <2>2. config \in [Item -> Values] /\ \A f \in Item : config[f] = 0
    BY DEF Init, ZeroConfig, Values
  <2>3. FilledTo(0, NoFile)
    BY <2>2, ItemFacts DEF FilledTo, ItemNo
  <2>4. NoFile.items = 0
    BY DEF NoFile
  <2> QED
    BY <2>1, <2>2, <2>3, <2>4 DEF ParserInv
<1>2. NoProgs \in [Programs -> Progs]
  BY DEF NoProgs, Off, Progs, Files
<1> QED
  BY <1>1, <1>2 DEF Init, ProgInv, NoProgs, Off

\* config-parse fills one item after the other.
LEMMA NextParser ==
    ASSUME TakeInv, ConfigParse
    PROVE  ParserInv'
<1> USE DEF TakeInv, ParserInv, Parsers
<1>0. boot' = boot
  BY DEF ConfigParse
<1>1. CASE Zero
  <2>1. config' \in [Item -> Values] /\ \A f \in Item : config'[f] = 0
    BY <1>1 DEF Zero, ZeroConfig, Values
  <2>2. parser' = [parser EXCEPT !.at = "items"] /\ parser.at = "zero"
    BY <1>1 DEF Zero
  <2>3. parser' \in Parsers /\ parser'.next = 1 /\ parser'.input = parser.input /\ parser'.at = "items"
        /\ parser'.byHand = parser.byHand
    BY <2>2
  <2>4. FilledTo(0, parser.input)'
    BY <2>1, <2>3, ItemFacts DEF FilledTo, ItemNo
  <2> QED
    BY <1>0, <2>1, <2>2, <2>3, <2>4, FileItems
<1>2. CASE SetItem
  <2> DEFINE j == parser.next
             c == parser.input
  <2>1. j \in ItemNo /\ j <= c.items /\ c \in Files /\ c.items \in 0..9 /\ parser.at = "items"
    BY <1>2, FileItems DEF SetItem, Readable, ItemNo
  <2>2. Items[j] \in Item /\ Stored(Items[j], c.val) \in Values
    BY <2>1, ItemFacts DEF Values
  <2>3. config' = [config EXCEPT ![Items[j]] = Stored(Items[j], c.val)]
    BY <1>2 DEF SetItem
  <2>4. parser' = [parser EXCEPT !.next = j + 1]
    BY <1>2 DEF SetItem
  <2>5. /\ parser' \in Parsers /\ parser'.next = j + 1 /\ parser'.input = c /\ parser'.at = "items"
        /\ parser'.byHand = parser.byHand
    BY <2>1, <2>4 DEF ItemNo
  <2>6. config' \in [Item -> Values]
    BY <2>2, <2>3
  <2>7. \A k \in ItemNo : config[Items[k]] = IF k <= j - 1 THEN Stored(Items[k], c.val) ELSE 0
    BY <2>1 DEF FilledTo
  <2>8. \A k \in ItemNo : config'[Items[k]] = IF k <= j THEN Stored(Items[k], c.val) ELSE 0
    BY <2>1, <2>2, <2>3, <2>7, ItemFacts DEF ItemNo
  <2>9. FilledTo(parser.next - 1, parser.input)'
    BY <2>1, <2>5, <2>8 DEF FilledTo, ItemNo
  <2> QED
    BY <1>0, <2>1, <2>5, <2>6, <2>9 DEF ItemNo
<1>3. CASE SetVersion
  <2>1. parser.at = "items" /\ ~Readable /\ parser' = [parser EXCEPT !.at = "off"] /\ config' = config
    BY <1>3 DEF SetVersion
  <2>2. parser.next - 1 = parser.input.items
    BY <2>1, FileItems DEF Readable
  <2> QED
    BY <1>0, <2>1, <2>2 DEF FilledTo
<1> QED
  BY <1>1, <1>2, <1>3 DEF ConfigParse

\* A program that starts by autostart or by hand.
LEMMA StartTakes ==
    ASSUME TakeInv, NEW p \in Programs, Start(p), boot \notin Early, boot' \notin Early,
           UNCHANGED <<config, parser>>
    PROVE  ProgInv'
<1> DEFINE new == [at |-> "start", taken |-> <<>>, given |-> parser.input,
                   alone |-> ~(parser.byHand /\ parser.at # "off")]
<1>1. new \in Progs
  BY DEF TakeInv, ParserInv, Parsers, Progs
<1>2. prog' = [prog EXCEPT ![p] = new]
  BY DEF Start
<1>3. prog' \in [Programs -> Progs] /\ prog'[p] = new /\ \A q \in Programs \ {p} : prog'[q] = prog[q]
  BY <1>1, <1>2 DEF TakeInv, ProgInv
<1>4. new.alone => parser.at = "off"
  BY DEF TakeInv, ParserInv, Early
<1>5. Len(Reads[p]) \in Nat \ {0} /\ new.taken = <<>> /\ Len(new.taken) = 0 /\ new.at = "start"
      /\ new.given = parser.input
  BY ReadsFacts
<1> HIDE DEF new
<1>6. \A q \in Programs \ {p} : prog'[q].at = "start" /\ prog'[q].alone =>
          parser.at = "off" /\ prog'[q].given = parser.input
  BY <1>3 DEF TakeInv, ProgInv
<1> QED
  BY <1>3, <1>4, <1>5, <1>6 DEF TakeInv, ProgInv

\* A program takes the next value of its list.
LEMMA TakeTakes ==
    ASSUME TakeInv, NEW p \in Programs, Take(p)
    PROVE  ProgInv'
<1> DEFINE n == Len(prog[p].taken)
           f == Reads[p][n + 1]
           new == [prog[p] EXCEPT !.taken = Append(prog[p].taken, config[f]),
                                  !.at = IF Len(Append(prog[p].taken, config[f])) = Len(Reads[p])
                                         THEN "run" ELSE "start"]
<1>1. prog[p] \in Progs /\ prog[p].at = "start" /\ n \in Nat /\ n < Len(Reads[p])
      /\ Len(Reads[p]) \in Nat
  BY ReadsFacts DEF Take, TakeInv, ProgInv, Progs
<1>2. f \in Item
  BY <1>1, ReadsFacts
<1>3. config[f] \in Values
  BY <1>2 DEF TakeInv, ParserInv
<1> DEFINE t == Append(prog[p].taken, config[f])
<1>14. /\ t \in Seq(Values) /\ Len(t) = n + 1 /\ t[n + 1] = config[f]
       /\ \A i \in 1..n : t[i] = prog[p].taken[i]
  BY <1>1, <1>3 DEF Progs
<1>4. /\ new \in Progs /\ new.at \in {"start", "run"} /\ new.given = prog[p].given
      /\ new.alone = prog[p].alone /\ Len(new.taken) = n + 1
      /\ new.at = "run" <=> n + 1 = Len(Reads[p])
      /\ \A i \in 1..n : new.taken[i] = prog[p].taken[i]
      /\ new.taken[n + 1] = config[f]
  <2>1. new.taken = t /\ new.at = IF Len(t) = Len(Reads[p]) THEN "run" ELSE "start"
    BY <1>1 DEF Progs
  <2>2. new.given = prog[p].given /\ new.alone = prog[p].alone
    BY <1>1 DEF Progs
  <2>3. new \in Progs
    BY <1>1, <1>14 DEF Progs
  <2> HIDE DEF new, t, f, n
  <2> QED
    BY <1>1, <1>14, <2>1, <2>2, <2>3
<1>5. prog' = [prog EXCEPT ![p] = new] /\ UNCHANGED <<config, parser, boot>>
  BY DEF Take, TakeInv, ProgInv
<1>6. prog' \in [Programs -> Progs] /\ prog'[p] = new /\ \A q \in Programs \ {p} : prog'[q] = prog[q]
  BY <1>4, <1>5 DEF TakeInv, ProgInv
<1>7. prog[p].alone => config[f] = Expected(f, prog[p].given)
  BY <1>1, <1>2, TakesExpected DEF TakeInv, ProgInv, ParserInv, Parsers
<1>8. prog[p].alone => \A i \in 1..n + 1 : new.taken[i] = Expected(Reads[p][i], prog[p].given)
  BY <1>1, <1>4, <1>7 DEF TakeInv, ProgInv
<1>9. boot \notin Early
  BY <1>1 DEF TakeInv, ProgInv
<1> HIDE DEF new
<1>10. prog[p].at = "start" /\ (new.at = "start" => n + 1 < Len(Reads[p]))
  BY <1>1, <1>4
<1>11. new.at = "start" /\ new.alone => parser.at = "off" /\ new.given = parser.input
  BY <1>1, <1>4 DEF TakeInv, ProgInv
<1>12. new.alone => \A i \in 1..Len(new.taken) : new.taken[i] = Expected(Reads[p][i], new.given)
  BY <1>4, <1>8
<1> HIDE DEF n, f
<1> QED
  BY <1>4, <1>5, <1>6, <1>9, <1>10, <1>11, <1>12 DEF TakeInv, ProgInv

LEMMA NextTake == TakeInv /\ [Next]_vars => TakeInv'
<1> SUFFICES ASSUME TakeInv, [Next]_vars PROVE ParserInv' /\ ProgInv'
  BY NextFile DEF TakeInv
<1>0. file \in Files
  BY DEF TakeInv, FileInv, Files
\* The steps that only move boot on keep the invariant.
<1>1. ASSUME UNCHANGED <<config, parser>>, boot = "wait" /\ parser.at # "off" => boot' = "wait"
      PROVE  ParserInv'
  BY <1>1 DEF TakeInv, ParserInv, FilledTo
<1>2. ASSUME UNCHANGED <<prog, parser>>, boot' \in Early => boot \in Early
      PROVE  ProgInv'
  BY <1>2 DEF TakeInv, ProgInv
<1>3. CASE \/ CheckFile \/ MoveAway \/ CopyBegin \/ CopyEnd
  BY <1>1, <1>2, <1>3 DEF CheckFile, MoveAway, CopyBegin, CopyEnd, progVars, Early
<1>4. ASSUME NEW byHand \in BOOLEAN, Parse(byHand), UNCHANGED config, boot' = "wait" \/ byHand
      PROVE  ParserInv'
  BY <1>0, <1>4 DEF TakeInv, ParserInv, Parsers, Parse
<1>5. CASE RunParse
  <2>1. ParserInv'
    BY <1>4, <1>5 DEF RunParse
  <2>2. ProgInv'
    BY <1>5 DEF RunParse, progVars, Early, TakeInv, ProgInv
  <2> QED
    BY <2>1, <2>2
<1>6. CASE ParseDone
  BY <1>1, <1>2, <1>6 DEF ParseDone, progVars, Early
<1>7. ASSUME NEW p \in Programs, NEW then \in {"task-data", "task-state", "up"}, Launch(p, then)
      PROVE  ParserInv' /\ ProgInv'
  <2>1. boot \notin Early /\ boot' \notin Early
    BY <1>7 DEF Launch, Early, Programs
  <2>2. ParserInv'
    BY <1>1, <1>7, <2>1 DEF Launch, Early
  <2>3. CASE Start(p)
    BY <1>7, <2>1, <2>2, <2>3, StartTakes DEF Launch
  <2>4. CASE UNCHANGED prog
    <3>1. parser' = parser /\ prog' = prog
      BY <1>7, <2>4 DEF Launch
    <3> QED
      BY <1>2, <2>1, <2>2, <3>1
  <2> QED
    BY <1>7, <2>2, <2>3, <2>4 DEF Launch
<1>8. CASE ConfigParse
  <2>1. ParserInv'
    BY <1>8, NextParser
  <2>2. parser.at # "off" /\ parser'.input = parser.input /\ UNCHANGED <<boot, prog>>
    BY <1>8 DEF ConfigParse, Zero, SetItem, SetVersion, progVars, TakeInv, ParserInv, Parsers
  <2> QED
    BY <2>1, <2>2 DEF TakeInv, ProgInv
<1>9. ASSUME NEW p \in Programs, Take(p) PROVE ParserInv' /\ ProgInv'
  BY <1>1, <1>9, TakeTakes DEF Take
<1>10. ASSUME NEW p \in Programs, prog' = [prog EXCEPT ![p] = Off], UNCHANGED <<boot, config, parser>>
       PROVE  ParserInv' /\ ProgInv'
  <2>1. Off \in Progs /\ Off.at = "off"
    BY DEF Off, Progs, Files
  <2> QED
    BY <1>1, <1>10, <2>1 DEF TakeInv, ProgInv
<1>11. ASSUME NEW p \in Programs, Kill(p) \/ SendFails PROVE ParserInv' /\ ProgInv'
  BY <1>10, <1>11 DEF Kill, SendFails, Programs
<1>12. ASSUME NEW p \in Programs, StartByHand(p) PROVE ParserInv' /\ ProgInv'
  <2>1. boot \notin Early /\ boot' \notin Early
    BY <1>12 DEF StartByHand, Early
  <2> QED
    BY <1>1, <1>12, <2>1, StartTakes DEF StartByHand
<1>13. CASE ReadSample \/ WriteSample \/ Send \/ Edit \/ \E f \in StateFields : Collect(f)
  BY <1>1, <1>2, <1>13 DEF ReadSample, WriteSample, Send, Edit, Collect, progVars
<1>14. CASE Rerun
  <2>1. ParserInv'
    BY <1>4, <1>14 DEF Rerun
  <2>2. prog' = [p \in Programs |-> IF prog[p].at = "start" THEN [prog[p] EXCEPT !.alone = FALSE]
                                    ELSE prog[p]]
        /\ boot' = boot
    BY <1>14 DEF Rerun
  <2>3. ASSUME NEW p \in Programs
        PROVE  /\ prog'[p] \in Progs /\ prog'[p].at = prog[p].at /\ prog'[p].taken = prog[p].taken
               /\ prog'[p].given = prog[p].given /\ (prog'[p].alone => prog[p].alone)
               /\ (prog'[p].at = "start" => ~prog'[p].alone)
    BY <2>2 DEF TakeInv, ProgInv, Progs
  <2>4. prog' \in [Programs -> Progs]
    BY <2>2, <2>3
  <2> QED
    BY <2>1, <2>2, <2>3, <2>4 DEF TakeInv, ProgInv
<1>15. CASE PowerLoss
  <2>1. parser' = NoParser /\ config' = ZeroConfig /\ prog' = NoProgs
    BY <1>15 DEF PowerLoss
  <2>2. ParserInv'
    <3>1. parser' \in Parsers /\ parser'.at = "off" /\ parser'.input = NoFile
      BY <2>1 DEF NoParser, Parsers, Files
    <3>2. config' \in [Item -> Values] /\ \A f \in Item : config'[f] = 0
      BY <2>1 DEF ZeroConfig, Values
    <3>3. NoFile.items = 0 /\ \A j \in ItemNo : j > 0
      BY DEF NoFile, ItemNo
    <3>4. \A j \in ItemNo : config'[Items[j]] = 0
      BY <3>2, ItemFacts
    <3>5. FilledTo(parser.input.items, parser.input)'
      BY <3>1, <3>3, <3>4 DEF FilledTo, ItemNo
    <3> QED
      BY <3>1, <3>2, <3>5 DEF ParserInv
  <2>3. NoProgs \in [Programs -> Progs] /\ \A p \in Programs : NoProgs[p].at = "off"
    BY DEF NoProgs, Off, Progs, Files
  <2> QED
    BY <2>1, <2>2, <2>3 DEF ProgInv
<1>16. CASE UNCHANGED vars
  BY <1>1, <1>2, <1>16 DEF vars, progVars
<1> QED
  BY <1>3, <1>5, <1>6, <1>7, <1>8, <1>9, <1>11, <1>12, <1>13, <1>14, <1>15, <1>16
  DEF Next, Autostart, Programs

\* A program that starts while nobody runs config-parse by hand takes all its values from
\* the file config-parse read last (config-parse.c:361), whatever the file lacks.
THEOREM OneConfigurationTaken == Spec => []OneConfiguration
<1>1. TakeInv => OneConfiguration
  <2> SUFFICES ASSUME TakeInv, NEW p \in Programs, prog[p].at = "run", prog[p].alone
               PROVE  prog[p].taken = [i \in DOMAIN Reads[p] |-> Expected(Reads[p][i], prog[p].given)]
    BY DEF OneConfiguration
  <2>1. prog[p].taken \in Seq(Values) /\ Len(prog[p].taken) = Len(Reads[p])
        /\ \A i \in 1..Len(Reads[p]) : prog[p].taken[i] = Expected(Reads[p][i], prog[p].given)
    BY DEF TakeInv, ProgInv, Progs
  <2> QED
    BY <2>1, ReadsFacts
<1> QED
  BY InitTake, NextTake, <1>1, PTL DEF Spec

-----------------------------------------------------------------------------
(* TaskData, for every number of frames, of delays and every period.       *)

\* A frame that has arrived and is not counted yet.
Pending(d) == IF at[d] \in {"send", "write", "count"} THEN 1 ELSE 0

\* Each counter holds at most the frames that arrived.
FrameInv == \A d \in Dir : perf[d].cnt + Pending(d) <= frames[d]

(***************************************************************************)
(* What has gone into a frequency is covered by uiLastCnt, or will be when *)
(* it is noted.                                                            *)
(***************************************************************************)
NoteInv ==
  \A d \in Dir :
    IF anal = "note" /\ dir = d
    THEN counted[d] <= loaded /\ perf[d].last <= loaded /\ loaded <= perf[d].cnt
    ELSE counted[d] <= perf[d].last /\ perf[d].last <= perf[d].cnt

\* Between the two halves of a reset perf_analyse() holds a delay.
ResetInv == anal = "reset" => loaded \in 0..MaxDelay

\* What main has done, from where it is.
LifeInv ==
  /\ at["up"] \in {"joinAnalyse", "joinReceive", "exit"} => sock = "shut"
  /\ sock = "shut" => ~loop /\ at["up"] \in {"joinAnalyse", "joinReceive", "exit", "done"}
  /\ at["up"] \in {"joinReceive", "exit"} => anal = "done"
  /\ at["up"] = "exit" => at["down"] = "done"
  /\ ~ept => at["up"] \in {"failed", "done"}
  /\ NoUseAfterClose

TaskInv == TDTypeOK /\ FrameInv /\ NoteInv /\ ResetInv /\ LifeInv

\* At first nothing has arrived.
LEMMA InitTask == TDInit => TaskInv
<1> SUFFICES ASSUME TDInit PROVE TaskInv
  OBVIOUS
<1> USE TaskDataAssumption DEF TDInit, Dir
<1>1. TDTypeOK
  <2>1. loop \in BOOLEAN /\ ept \in BOOLEAN
    OBVIOUS
  <2>2. QED
    BY <2>1 DEF TDTypeOK, Place
<1>2. FrameInv /\ NoteInv
  BY DEF FrameInv, NoteInv, Pending
<1>3. LifeInv
  BY DEF LifeInv, NoUseAfterClose
<1> QED
  BY <1>1, <1>2, <1>3 DEF TaskInv, ResetInv

\* The threads stay in their programs.
LEMMA StepPlaces ==
  ASSUME TDTypeOK, [TDNext]_tdVars
  PROVE  /\ at' \in [Dir -> Place]
         /\ anal' \in {"top", "frequency", "note", "publish", "publishMax", "load", "reset",
                       "done"}
         /\ dir' \in Dir
         /\ sock' \in {"open", "shut"}
<1> USE DEF TDTypeOK, Place, Go, Analyse, Rest, Dir, tdVars, threads, data
<1>1. CASE SigInt
  BY <1>1 DEF SigInt
<1>2. CASE \/ Hello \/ Failed \/ Leave \/ JoinAnalyse \/ JoinReceive \/ Exit
  BY <1>2 DEF Hello, Failed, Leave, JoinAnalyse, JoinReceive, Exit
<1>3. CASE ReadFrame \/ SendUdp \/ EnterRecv \/ RecvDatagram \/ RecvShut \/ WriteR5
  BY <1>3 DEF ReadFrame, SendUdp, EnterRecv, RecvDatagram, RecvShut, WriteR5
<1>4. ASSUME NEW d \in Dir, Perf(d)
      PROVE  /\ \E w \in {"top", "measure", "compare", "raise"} : at' = [at EXCEPT ![d] = w]
             /\ UNCHANGED <<anal, dir, sock>>
  BY <1>4 DEF Perf, Count, Measure, CompareMax, RaiseMax
<1>5. CASE PerfAnalyse
  BY <1>5 DEF PerfAnalyse, Wake, Frequency, Note, Publish, PublishMax, LoadDelay, ResetMax
<1>6. CASE UNCHANGED tdVars
  BY <1>6
<1>7. QED
  BY <1>1, <1>2, <1>3, <1>4, <1>5, <1>6 DEF TDNext, Main, Receive

\* Only LoadDelay leads to the second half of a reset.
LEMMA StepReset ==
  ASSUME TDTypeOK, ResetInv, [TDNext]_tdVars
  PROVE  ResetInv'
<1> USE DEF ResetInv, tdVars, threads, data
<1>1. ASSUME UNCHANGED <<anal, loaded>>
      PROVE  ResetInv'
  BY <1>1
<1>2. ASSUME NEW d \in Dir, Perf(d)
      PROVE  UNCHANGED <<anal, loaded>>
  BY <1>2 DEF Perf, Count, Measure, CompareMax, RaiseMax
<1>3. CASE SigInt \/ Main \/ Receive
  BY <1>1, <1>2, <1>3 DEF SigInt, Main, Receive, Hello, Failed, Leave, JoinAnalyse, JoinReceive,
     Exit, ReadFrame, SendUdp, EnterRecv, RecvDatagram, RecvShut, WriteR5, Dir
<1>4. CASE LoadDelay
  BY <1>4 DEF LoadDelay, TDTypeOK
<1>5. CASE Wake \/ Frequency \/ Note \/ Publish \/ PublishMax \/ ResetMax
  BY <1>5 DEF Wake, Frequency, Note, Publish, PublishMax, ResetMax, Analyse, Rest
<1>6. QED
  BY <1>1, <1>3, <1>4, <1>5 DEF TDNext, PerfAnalyse

\* The program ends in the order main has: shutdown, the two joins, the close.
LEMMA StepLife ==
  ASSUME TDTypeOK, LifeInv, [TDNext]_tdVars
  PROVE  LifeInv'
<1> USE DEF TDTypeOK, Place, LifeInv, NoUseAfterClose, Go, Analyse, Rest, Alive, Dir, tdVars, threads, data
<1>1. CASE SigInt
  BY <1>1 DEF SigInt
<1>2. CASE \/ Hello \/ Failed \/ Leave \/ JoinAnalyse \/ JoinReceive \/ Exit
  <2>1. CASE Hello \/ Failed
    <3>1. /\ at["up"] \in {"hello", "failed"}
          /\ \E w \in {"top", "failed", "done"} : at' = [at EXCEPT !["up"] = w]
          /\ ~ept' => at'["up"] \in {"failed", "done"}
          /\ UNCHANGED <<loop, anal, sock>>
      BY <2>1 DEF Hello, Failed
    <3>2. QED
      BY <3>1
  <2>2. CASE Leave
    BY <2>2 DEF Leave
  <2>3. CASE JoinAnalyse
    BY <2>3 DEF JoinAnalyse
  <2>4. CASE JoinReceive
    BY <2>4 DEF JoinReceive
  <2>5. CASE Exit
    BY <2>5 DEF Exit
  <2>6. QED
    BY <1>2, <2>1, <2>2, <2>3, <2>4, <2>5
<1>3. CASE ReadFrame \/ SendUdp \/ EnterRecv \/ RecvDatagram \/ RecvShut \/ WriteR5
  BY <1>3 DEF ReadFrame, SendUdp, EnterRecv, RecvDatagram, RecvShut, WriteR5
<1>4. ASSUME NEW d \in Dir, Perf(d)
      PROVE  LifeInv'
  <2>1. /\ at[d] \in {"count", "measure", "compare", "raise"} /\ Alive
        /\ \E w \in {"top", "measure", "compare", "raise"} : at' = [at EXCEPT ![d] = w]
        /\ UNCHANGED <<loop, anal, dir, sock, ept>>
    BY <1>4 DEF Perf, Count, Measure, CompareMax, RaiseMax
  <2>2. QED
    BY <2>1
<1>5. CASE PerfAnalyse
  <2>1. Alive /\ anal # "done" /\ UNCHANGED <<loop, at, sock, ept>>
    BY <1>5 DEF PerfAnalyse, Wake, Frequency, Note, Publish, PublishMax, LoadDelay, ResetMax
  <2>2. QED
    BY <2>1
<1>6. CASE UNCHANGED tdVars
  BY <1>6
<1>7. QED
  BY <1>1, <1>2, <1>3, <1>4, <1>5, <1>6 DEF TDNext, Main, Receive

\* Only perf_analyse() moves on with Rest, and it leaves "note" for "publish".
LEMMA StepData ==
  ASSUME TDTypeOK, FrameInv, NoteInv, ResetInv, [TDNext]_tdVars
  PROVE  /\ loop' \in BOOLEAN /\ ept' \in BOOLEAN
         /\ perf' \in [Dir -> [cnt : 0..MaxFrames, last : 0..MaxFrames, delay : 0..MaxDelay,
                               max : 0..MaxDelay, rounds : 0..ResetPeriod]]
         /\ bram' \in [Dir -> [cnt : 0..MaxFrames, delay : 0..MaxDelay, max : 0..MaxDelay]]
         /\ loaded' \in Nat
         /\ frames' \in [Dir -> 0..MaxFrames] /\ counted' \in [Dir -> Nat]
         /\ FrameInv' /\ NoteInv'
<1> DEFINE Record == [cnt : 0..MaxFrames, last : 0..MaxFrames, delay : 0..MaxDelay,
                      max : 0..MaxDelay, rounds : 0..ResetPeriod]
           Shown == [cnt : 0..MaxFrames, delay : 0..MaxDelay, max : 0..MaxDelay]
<1> USE TaskDataAssumption
<1>0. /\ loop \in BOOLEAN /\ ept \in BOOLEAN /\ dir \in Dir /\ loaded \in Nat
      /\ perf \in [Dir -> Record] /\ bram \in [Dir -> Shown]
      /\ at \in [Dir -> Place]
      /\ frames \in [Dir -> 0..MaxFrames] /\ counted \in [Dir -> Nat]
  <2>1. loop \in BOOLEAN /\ ept \in BOOLEAN
    BY DEF TDTypeOK
  <2>2. QED
    BY <2>1 DEF TDTypeOK
<1>1. \A d \in Dir : /\ perf[d].cnt \in 0..MaxFrames /\ perf[d].last \in 0..MaxFrames
                     /\ perf[d].delay \in 0..MaxDelay /\ perf[d].max \in 0..MaxDelay
                     /\ frames[d] \in 0..MaxFrames /\ counted[d] \in Nat
  BY <1>0
<1>2. CASE \/ SigInt \/ Hello \/ Failed \/ Leave \/ JoinAnalyse \/ JoinReceive \/ Exit
           \/ EnterRecv \/ RecvShut \/ SendUdp \/ WriteR5
  <2>1. loop' \in BOOLEAN /\ ept' \in BOOLEAN
    BY <1>0, <1>2 DEF SigInt, Hello, Failed, Leave, JoinAnalyse, JoinReceive, Exit, EnterRecv,
                      RecvShut, SendUdp, WriteR5
  <2>2. /\ UNCHANGED <<anal, dir, perf, bram, loaded, frames, counted>>
        /\ \/ UNCHANGED at
           \/ \E d \in Dir, w \in Place :
                /\ at' = [at EXCEPT ![d] = w]
                /\ w \in {"send", "write", "count"} => at[d] \in {"send", "write"}
    <3> DEFINE Moves(d, w) == /\ at' = [at EXCEPT ![d] = w]
                              /\ w \in {"send", "write", "count"} => at[d] \in {"send", "write"}
    <3>1. UNCHANGED <<anal, dir, perf, bram, loaded, frames, counted>>
      BY <1>2 DEF SigInt, Hello, Failed, Leave, JoinAnalyse, JoinReceive, Exit, EnterRecv,
                  RecvShut, SendUdp, WriteR5, data
    <3>2. CASE SigInt
      BY <3>1, <3>2 DEF SigInt, Go, Dir, Place
    <3>3. CASE \/ Hello \/ Failed \/ Leave \/ JoinAnalyse \/ JoinReceive \/ Exit \/ SendUdp
      <4>1. \E w \in Place : Moves("up", w)
        BY <3>3 DEF Hello, Failed, Leave, JoinAnalyse, JoinReceive, Exit, SendUdp, Go, Place
      <4>2. QED
        BY <3>1, <4>1 DEF Dir
    <3>4. CASE EnterRecv \/ RecvShut \/ WriteR5
      <4>1. \E w \in Place : Moves("down", w)
        BY <3>4 DEF EnterRecv, RecvShut, WriteR5, Go, Place
      <4>2. QED
        BY <3>1, <4>1 DEF Dir
    <3>5. QED
      BY <1>2, <3>2, <3>3, <3>4
  <2>3. \A d \in Dir : Pending(d)' <= Pending(d) /\ Pending(d) \in Nat /\ Pending(d)' \in Nat
    BY <1>0, <2>2 DEF Pending
  <2>4. FrameInv'
    BY <1>1, <2>2, <2>3 DEF FrameInv
  <2>5. NoteInv'
    BY <2>2 DEF NoteInv
  <2>6. QED
    BY <1>0, <2>1, <2>2, <2>4, <2>5
<1>3. CASE ReadFrame \/ RecvDatagram
  <2>1. PICK d \in Dir :
          /\ frames[d] < MaxFrames /\ at[d] \in {"top", "recv"}
          /\ frames' = [frames EXCEPT ![d] = @ + 1]
          /\ \E w \in {"send", "write"} : at' = [at EXCEPT ![d] = w]
    BY <1>3 DEF ReadFrame, RecvDatagram, Go, Dir
  <2>2. UNCHANGED <<loop, ept, anal, dir, perf, bram, loaded, counted>>
    BY <1>3 DEF ReadFrame, RecvDatagram, data
  <2>3. frames' \in [Dir -> 0..MaxFrames]
    BY <1>0, <1>1, <2>1
  <2>4. FrameInv'
    BY <1>0, <1>1, <2>1, <2>2 DEF FrameInv, Pending
  <2>5. NoteInv'
    BY <2>2 DEF NoteInv
  <2>6. QED
    BY <1>0, <2>2, <2>3, <2>4, <2>5
<1>4. ASSUME NEW d \in Dir, Count(d)
      PROVE  /\ UNCHANGED <<loop, ept, anal, dir, bram, loaded, frames, counted>>
             /\ perf' \in [Dir -> Record] /\ FrameInv' /\ NoteInv'
  <2>1. /\ UNCHANGED <<loop, ept, anal, dir, bram, loaded, frames, counted>>
        /\ perf' = [perf EXCEPT ![d].cnt = perf[d].cnt + 1]
        /\ at[d] = "count"
        /\ \E w \in {"top", "measure"} : at' = [at EXCEPT ![d] = w]
    BY <1>4 DEF Count, Go
  <2>2. perf[d].cnt + 1 <= frames[d]
    BY <2>1, <1>1 DEF FrameInv, Pending
  <2>3. perf' \in [Dir -> Record]
    BY <1>0, <1>1, <2>1, <2>2
  <2>4. \A e \in Dir : /\ perf'[e].cnt = IF e = d THEN perf[d].cnt + 1 ELSE perf[e].cnt
                       /\ perf'[e].last = perf[e].last
    BY <1>0, <2>1
  <2>5. FrameInv'
    BY <1>0, <1>1, <2>1, <2>2, <2>4 DEF FrameInv, Pending
  <2>6. NoteInv'
    BY <1>0, <1>1, <2>1, <2>4 DEF NoteInv
  <2>7. QED
    BY <2>1, <2>3, <2>5, <2>6
<1>5. ASSUME NEW d \in Dir, Measure(d) \/ CompareMax(d) \/ RaiseMax(d)
      PROVE  /\ UNCHANGED <<loop, ept, anal, dir, bram, loaded, frames, counted>>
             /\ perf' \in [Dir -> Record] /\ FrameInv' /\ NoteInv'
  <2>1. /\ UNCHANGED <<loop, ept, anal, dir, bram, loaded, frames, counted>>
        /\ \E w \in {"top", "compare", "raise"} : at' = [at EXCEPT ![d] = w]
    BY <1>5 DEF Measure, CompareMax, RaiseMax, Go, data
  <2>2. \/ \E t \in 0..MaxDelay : perf' = [perf EXCEPT ![d].delay = t]
        \/ \E t \in 0..MaxDelay : perf' = [perf EXCEPT ![d].max = t]
        \/ UNCHANGED perf
    BY <1>1, <1>5 DEF Measure, CompareMax, RaiseMax, data
  <2>3. /\ perf' \in [Dir -> Record]
        /\ \A e \in Dir : perf'[e].cnt = perf[e].cnt /\ perf'[e].last = perf[e].last
    <3>1. ASSUME NEW t \in 0..MaxDelay, perf' = [perf EXCEPT ![d].delay = t]
          PROVE  /\ perf' \in [Dir -> Record]
                 /\ \A e \in Dir : perf'[e].cnt = perf[e].cnt /\ perf'[e].last = perf[e].last
      BY <1>0, <3>1
    <3>2. ASSUME NEW t \in 0..MaxDelay, perf' = [perf EXCEPT ![d].max = t]
          PROVE  /\ perf' \in [Dir -> Record]
                 /\ \A e \in Dir : perf'[e].cnt = perf[e].cnt /\ perf'[e].last = perf[e].last
      BY <1>0, <3>2
    <3>3. QED
      BY <1>0, <2>2, <3>1, <3>2
  <2>5. \A e \in Dir : Pending(e)' <= Pending(e) /\ Pending(e) \in Nat /\ Pending(e)' \in Nat
    BY <1>0, <2>1 DEF Pending
  <2>6. FrameInv'
    BY <1>1, <2>1, <2>3, <2>5 DEF FrameInv
  <2>7. NoteInv'
    BY <2>1, <2>3 DEF NoteInv
  <2>8. QED
    BY <2>1, <2>3, <2>6, <2>7
<1>6. CASE Frequency
  <2>1. /\ UNCHANGED <<loop, at, perf, bram, ept, frames>> /\ loaded' = perf[dir].cnt
        /\ anal = "frequency"
        /\ counted' = [counted EXCEPT ![dir] = @ + (perf[dir].cnt - perf[dir].last)]
    BY <1>6 DEF Frequency, Rest, Analyse
  <2>2. perf[dir].last <= perf[dir].cnt /\ counted[dir] <= perf[dir].last
    BY <1>0, <2>1 DEF NoteInv
  <2>3. counted' \in [Dir -> Nat] /\ counted'[dir] <= perf[dir].cnt
    BY <1>0, <1>1, <2>1, <2>2
  <2>4. FrameInv'
    BY <2>1 DEF FrameInv, Pending
  <2>5. NoteInv'
    <3>1. CASE perf[dir].cnt - perf[dir].last = 0
      <4>1. anal' # "note" /\ counted' = counted
        BY <1>0, <1>1, <1>6, <2>1, <3>1 DEF Frequency, Rest, Analyse
      <4>2. QED
        BY <2>1, <4>1 DEF NoteInv
    <3>2. CASE perf[dir].cnt - perf[dir].last # 0
      <4>1. anal' = "note" /\ dir' = dir
        BY <1>6, <3>2 DEF Frequency, Analyse
      <4>2. QED
        BY <1>0, <1>1, <2>1, <2>2, <2>3, <4>1 DEF NoteInv
    <3>3. QED
      BY <3>1, <3>2
  <2>6. QED
    BY <1>0, <1>1, <2>1, <2>3, <2>4, <2>5
<1>7. CASE Note
  <2>1. PICK cnt \in {loaded, perf[dir].cnt} :
          /\ UNCHANGED <<loop, at, dir, bram, loaded, ept, frames, counted>>
          /\ anal = "note" /\ anal' = "publish"
          /\ perf' = [perf EXCEPT ![dir].last = cnt]
    BY <1>7 DEF Note, Analyse
  <2>2. counted[dir] <= cnt /\ cnt <= perf[dir].cnt /\ cnt \in 0..MaxFrames
    BY <1>0, <1>1, <2>1 DEF NoteInv
  <2>3. perf' \in [Dir -> Record]
    BY <1>0, <2>1, <2>2
  <2>4. \A e \in Dir : /\ perf'[e].last = IF e = dir THEN cnt ELSE perf[e].last
                       /\ perf'[e].cnt = perf[e].cnt
    BY <1>0, <2>1
  <2>5. FrameInv'
    BY <2>1, <2>4 DEF FrameInv, Pending
  <2>6. NoteInv'
    BY <2>1, <2>2, <2>4 DEF NoteInv
  <2>7. QED
    BY <1>0, <2>1, <2>3, <2>5, <2>6
<1>8. CASE Wake \/ Publish \/ PublishMax \/ LoadDelay \/ ResetMax
  <2>1. /\ UNCHANGED <<loop, at, ept, frames, counted>>
        /\ anal # "note" /\ anal' # "note"
    BY <1>8 DEF Wake, Publish, PublishMax, LoadDelay, ResetMax, Rest, Analyse
  <2>2. /\ loaded' \in Nat
        /\ bram' \in [Dir -> Shown]
    <3>1. CASE Wake \/ ResetMax
      BY <1>0, <3>1 DEF Wake, ResetMax, data
    <3>2. CASE Publish
      BY <1>0, <1>1, <3>2 DEF Publish
    <3>3. CASE PublishMax
      BY <1>0, <1>1, <3>3 DEF PublishMax
    <3>4. CASE LoadDelay
      BY <1>0, <1>1, <3>4 DEF LoadDelay
    <3>5. QED
      BY <1>8, <3>1, <3>2, <3>3, <3>4
  <2>3. /\ perf' \in [Dir -> Record]
        /\ \A e \in Dir : perf'[e].cnt = perf[e].cnt /\ perf'[e].last = perf[e].last
    <3>1. CASE Wake \/ Publish \/ LoadDelay
      BY <1>0, <3>1 DEF Wake, Publish, LoadDelay, data
    <3>2. CASE PublishMax
      <4>1. CASE UNCHANGED perf
        BY <1>0, <4>1
      <4>2. CASE ResetPeriod # 0
        <5>1. perf[dir].rounds + 1 \in Nat
          BY <1>0
        <5>2. (perf[dir].rounds + 1) % ResetPeriod \in 0..ResetPeriod
          BY <4>2, <5>1
        <5>3. perf' = [perf EXCEPT ![dir].rounds = (perf[dir].rounds + 1) % ResetPeriod]
          BY <3>2, <4>2 DEF PublishMax
        <5>4. QED
          BY <1>0, <5>2, <5>3
      <4>3. QED
        BY <3>2, <4>1, <4>2 DEF PublishMax
    <3>3. CASE ResetMax
      BY <1>0, <3>3 DEF ResetMax, ResetInv, Analyse, Rest
    <3>4. QED
      BY <1>8, <3>1, <3>2, <3>3
  <2>4. FrameInv' /\ NoteInv'
    BY <2>1, <2>3 DEF FrameInv, NoteInv, Pending
  <2>5. QED
    BY <1>0, <2>1, <2>2, <2>3, <2>4
<1>9. CASE UNCHANGED tdVars
  BY <1>0, <1>9 DEF tdVars, threads, data, FrameInv, NoteInv, Pending
<1>10. CASE \E d \in Dir : Perf(d)
  <2>1. PICK d \in Dir : Perf(d)
    BY <1>10
  <2>2. CASE Count(d)
    BY <1>0, <1>4, <2>2
  <2>3. CASE Measure(d) \/ CompareMax(d) \/ RaiseMax(d)
    BY <1>0, <1>5, <2>3
  <2>4. QED
    BY <2>1, <2>2, <2>3 DEF Perf
<1>11. QED
  BY <1>2, <1>3, <1>6, <1>7, <1>8, <1>9, <1>10 DEF TDNext, Main, Receive, PerfAnalyse, Dir

\* The strengthened invariant holds in every state.
THEOREM TaskInvariant == TDSpec => []TaskInv
<1>1. TaskInv /\ [TDNext]_tdVars => TaskInv'
  <2> SUFFICES ASSUME TaskInv, [TDNext]_tdVars PROVE TaskInv'
    OBVIOUS
  <2>1. TDTypeOK'
    BY StepPlaces, StepData DEF TaskInv, TDTypeOK
  <2>2. QED
    BY <2>1, StepData, StepReset, StepLife DEF TaskInv
<1>2. QED
  BY InitTask, <1>1, PTL DEF TDSpec

\* The types of task-data's state, for every bound.
THEOREM TaskTypeCorrect == TDSpec => []TDTypeOK
BY TaskInvariant, PTL DEF TaskInv

\* The endpoint and the BRAM are closed after both threads have ended.
THEOREM ClosedLast == TDSpec => []NoUseAfterClose
<1>1. TaskInv => NoUseAfterClose
  BY DEF TaskInv, LifeInv
<1>2. QED
  BY TaskInvariant, <1>1, PTL

\* No frame is reported in two frequencies, and none that was not counted.
THEOREM NothingReportedTwice == TDSpec => []AtMostOneFrequency
<1>1. TaskInv => AtMostOneFrequency
  <2> SUFFICES ASSUME TaskInv, NEW d \in Dir PROVE counted[d] <= perf[d].cnt
    BY DEF AtMostOneFrequency
  <2>1. counted[d] \in Nat /\ perf[d].cnt \in Nat /\ perf[d].last \in Nat /\ loaded \in Nat
    BY DEF TaskInv, TDTypeOK
  <2>2. QED
    BY <2>1 DEF TaskInv, NoteInv
<1>2. QED
  BY TaskInvariant, <1>1, PTL
=============================================================================
