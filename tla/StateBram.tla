------------------------------ MODULE StateBram ------------------------------
(***************************************************************************)
(* The configuration file and the block RAM that all programs share.       *)
(* autostart puts a configuration file in place at every boot (step 4),    *)
(* config-parse.c copies its items to the configuration area of the BRAM,  *)
(* timesync-app.c, task-data.c and task-state.c take what they need when   *)
(* they start, timesync-app writes its samples to the state area, and      *)
(* task-state sends copies of that area.  Power may be lost at any time,   *)
(* and an operator may replace the file, run config-parse again, and stop  *)
(* and start programs with app-control.sh.                                 *)
(*                                                                         *)
(* A file is its version, the number of leading items that config-parse    *)
(* can read, and one value for all its items.  The switches autostart_...  *)
(* of a file are taken to be on.  Four words of time are two.              *)
(***************************************************************************)
EXTENDS Integers, Sequences

CONSTANTS Current,        \* CONFIG_FILE_VERSION of autostart
          SwitchedOn,     \* the programs whose switch autostart_start_... is on
          UserFiles,      \* files an operator may put in place
          MaxPowerLosses, \* bound: power losses
          MaxActs,        \* bound: edits, runs of config-parse and kills by hand
          MaxSamples      \* bound: samples of timesync-app

\* The items in the order of config_file_a53, and the width of the integers.
Items == <<"ip_local", "ip_dest", "port_data_up", "port_data_down", "port_state",
           "time_sync_period_ms", "data_analyse_period", "state_udp_period_s",
           "data_delay_reset_period">>
Item == {Items[i] : i \in DOMAIN Items}
Width(f) == IF f \in {"state_udp_period_s", "data_delay_reset_period"} THEN 8 ELSE 16

\* What each program reads from the configuration when it starts, in order.
Programs == {"timesync-app", "task-data", "task-state"}
Reads == [p \in Programs |->
    CASE p = "timesync-app" -> <<"time_sync_period_ms">>
      [] p = "task-data" -> <<"port_data_down", "data_delay_reset_period", "port_data_up", "ip_dest">>
      [] p = "task-state" -> <<"port_state", "ip_dest", "state_udp_period_s">>]

NoVersion == "none"  \* jq prints nothing for a file that is cut
NoFile == [ver |-> "no file", items |-> 0, val |-> 0]
CutFile == [ver |-> NoVersion, items |-> 0, val |-> 0]
DefaultFile == [ver |-> Current, items |-> Len(Items), val |-> 1]
Files == UserFiles \cup {NoFile, CutFile, DefaultFile}

ASSUME SwitchAssumption == SwitchedOn \subseteq Programs
ASSUME FilesAssumption ==
    /\ Current \notin {NoVersion, NoFile.ver}
    /\ \A c \in UserFiles : /\ c.ver \notin {NoVersion, NoFile.ver}
                            /\ c.items \in 0..Len(Items) /\ c.val \in Nat

StateFields == {"version", "time"}

VARIABLES
    file, old,  \* the configuration file on the eMMC, and the one moved away
    boot,       \* the step of autostart
    config,     \* pstA53Data: [Item -> value]
    state,      \* pstA53State: [StateFields -> number of the sample it is of]
    parser,     \* config-parse: place, next item, the file it reads, run by hand
    prog,       \* per program: place, values taken, and two histories, see Start
    sample,     \* timesync-app: its samples, and whether the last is still to be written
    buffer, sent, \* task-state: s_stState with the fields still to copy; the last message
    mine,       \* history: the last file an operator put in place
    edited,     \* history: and no config-parse has started since
    losses, acts  \* counted for the bounds

emmcVars == <<file, old, mine>>
progVars == <<prog, sample, buffer, sent>>
countVars == <<losses, acts>>
vars == <<emmcVars, boot, config, state, parser, progVars, edited, countVars>>

ZeroConfig == [f \in Item |-> 0]
ZeroState == [f \in StateFields |-> 0]
Off == [at |-> "off", taken |-> <<>>, given |-> NoFile, alone |-> TRUE]
NoParser == [at |-> "off", next |-> 1, input |-> NoFile, byHand |-> FALSE]

\* What config-parse leaves of item f of a file: integers are cast to their field.
Stored(f, v) == IF f \in {"ip_local", "ip_dest"} THEN v ELSE v % 2^Width(f)
Expected(f, c) == IF \E i \in 1..c.items : Items[i] = f THEN Stored(f, c.val) ELSE 0

NoProgs == [p \in Programs |-> Off]
NoSample == [n |-> 0, held |-> FALSE]
NoCopy == [copy |-> ZeroState, todo |-> StateFields]
Init ==
    /\ file \in UserFiles \cup {NoFile} /\ old = NoFile /\ mine = file /\ edited = FALSE
    /\ boot = "check" /\ config = ZeroConfig /\ state = ZeroState /\ parser = NoParser
    /\ prog = NoProgs /\ sample = NoSample /\ buffer = NoCopy /\ sent = ZeroState
    /\ losses = 0 /\ acts = 0

-----------------------------------------------------------------------------
(* autostart, steps 4 and 8.                                               *)

DiffersQuoted(c) == c.ver # Current
\* "[ 1.6 != ]" is a syntax error, which elif takes for false.
Differs(c) == c.ver \notin {Current, NoVersion}
CheckFile ==
    /\ boot = "check"
    /\ boot' = IF file = NoFile THEN "copy" ELSE IF Differs(file) THEN "move" ELSE "parse"
    /\ UNCHANGED <<emmcVars, config, state, parser, progVars, edited, countVars>>
MoveAway ==
    /\ boot = "move" /\ boot' = "copy"
    /\ old' = file /\ file' = NoFile
    /\ UNCHANGED <<mine, config, state, parser, progVars, edited, countVars>>
CopyBegin ==
    /\ boot = "copy" /\ boot' = "copying"
    /\ file' = CutFile
    /\ UNCHANGED <<old, mine, config, state, parser, progVars, edited, countVars>>
CopyEnd ==
    /\ boot = "copying" /\ boot' = "parse"
    /\ \/ file' = DefaultFile
       \/ UNCHANGED file  \* cp failed, say on a full partition: autostart goes on
    /\ UNCHANGED <<old, mine, config, state, parser, progVars, edited, countVars>>

Parse(byHand) ==
    /\ parser.at = "off"
    /\ parser' = [at |-> "zero", next |-> 1, input |-> file, byHand |-> byHand]
    /\ edited' = FALSE
RunParse ==
    /\ boot = "parse" /\ boot' = "wait"
    /\ Parse(FALSE)
    /\ UNCHANGED <<emmcVars, config, state, progVars, countVars>>
\* The switches of a cut file are empty, which "[ 0 != ]" takes for false.
ParseDone ==
    /\ boot = "wait" /\ parser.at = "off"
    /\ boot' = IF file.ver = NoVersion THEN "up" ELSE "timesync-app"
    /\ UNCHANGED <<emmcVars, config, state, parser, progVars, edited, countVars>>

\* A program starts: given is what config-parse read last, alone whether none
\* started by hand runs while it takes its configuration.
Start(p) ==
    /\ prog[p].at = "off"
    /\ prog' = [prog EXCEPT ![p] = [at |-> "start", taken |-> <<>>, given |-> parser.input,
                                    alone |-> ~(parser.byHand /\ parser.at # "off")]]
Launch(p, then) ==
    /\ boot = p /\ boot' = then
    /\ IF p \in SwitchedOn THEN Start(p) ELSE UNCHANGED prog
    /\ UNCHANGED <<emmcVars, config, state, parser, sample, buffer, sent, edited, countVars>>

Autostart ==
    \/ CheckFile \/ MoveAway \/ CopyBegin \/ CopyEnd \/ RunParse \/ ParseDone
    \/ Launch("timesync-app", "task-data")
    \/ Launch("task-data", "task-state")
    \/ Launch("task-state", "up")

-----------------------------------------------------------------------------
(* config-parse.  A string is written in one step: a program that would    *)
(* read a part of it is not alone.                                         *)

ZeroNothing ==
    /\ parser.at = "zero" /\ parser' = [parser EXCEPT !.at = "items"]
    /\ UNCHANGED <<config, state>>
ZeroWholeBram ==
    /\ parser.at = "zero" /\ parser' = [parser EXCEPT !.at = "items"]
    /\ config' = ZeroConfig /\ state' = ZeroState
Zero ==
    /\ parser.at = "zero" /\ parser' = [parser EXCEPT !.at = "items"]
    /\ config' = ZeroConfig
    /\ UNCHANGED state
ReadableButLast == parser.next < parser.input.items
Readable == parser.next <= parser.input.items

\* config_file_a53 returns at the first item that is missing or negative, and
\* at once when there is no file or it does not parse.
SetItem ==
    /\ parser.at = "items" /\ Readable
    /\ config' = [config EXCEPT ![Items[parser.next]] = Stored(Items[parser.next], parser.input.val)]
    /\ parser' = [parser EXCEPT !.next = @ + 1]
    /\ UNCHANGED state
SetVersion ==  \* set_state_a53, whatever config_file_a53 returned
    /\ parser.at = "items" /\ ~Readable
    /\ state' = [state EXCEPT !.version = 1]
    /\ parser' = [parser EXCEPT !.at = "off"]
    /\ UNCHANGED config
ConfigParse ==
    /\ Zero \/ SetItem \/ SetVersion
    /\ UNCHANGED <<emmcVars, boot, progVars, edited, countVars>>

-----------------------------------------------------------------------------
(* The programs.                                                           *)

Take(p) ==
    LET taken == Append(prog[p].taken, config[Reads[p][Len(prog[p].taken) + 1]]) IN
    /\ prog[p].at = "start"
    /\ prog' = [prog EXCEPT ![p].taken = taken,
                            ![p].at = IF Len(taken) = Len(Reads[p]) THEN "run" ELSE "start"]
    /\ UNCHANGED <<emmcVars, boot, config, state, parser, sample, buffer, sent, edited, countVars>>

\* timesync-app reads a sample of the driver and writes it to the state area.
ReadSample ==
    /\ prog["timesync-app"].at = "run" /\ ~sample.held /\ sample.n < MaxSamples
    /\ sample' = [n |-> sample.n + 1, held |-> TRUE]
    /\ UNCHANGED <<emmcVars, boot, config, state, parser, prog, buffer, sent, edited, countVars>>
WriteSample ==
    /\ prog["timesync-app"].at = "run" /\ sample.held
    /\ state' = [state EXCEPT !.time = sample.n]
    /\ sample' = [sample EXCEPT !.held = FALSE]
    /\ UNCHANGED <<emmcVars, boot, config, parser, prog, buffer, sent, edited, countVars>>

\* task-state: sleep and memcpy, whose order within an area nothing fixes.
Collect(f) ==
    /\ prog["task-state"].at = "run" /\ f \in buffer.todo
    /\ buffer' = [copy |-> [buffer.copy EXCEPT ![f] = state[f]], todo |-> buffer.todo \ {f}]
    /\ UNCHANGED <<emmcVars, boot, config, state, parser, prog, sample, sent, edited, countVars>>
\* Port 0 and an empty address are refused; the network may be down.
Refused == 0 \in {prog["task-state"].taken[1], prog["task-state"].taken[2]}
Send ==
    /\ prog["task-state"].at = "run" /\ buffer.todo = {} /\ ~Refused
    /\ sent' = buffer.copy
    /\ buffer' = [buffer EXCEPT !.todo = StateFields]
    /\ UNCHANGED <<emmcVars, boot, config, state, parser, prog, sample, edited, countVars>>
SendFails ==  \* break: the program ends
    /\ prog["task-state"].at = "run" /\ buffer.todo = {}
    /\ prog' = [prog EXCEPT !["task-state"] = Off]
    /\ buffer' = NoCopy
    /\ UNCHANGED <<emmcVars, boot, config, state, parser, sample, sent, edited, countVars>>

-----------------------------------------------------------------------------
(* The operator and the power.                                             *)

Edit ==
    /\ acts < MaxActs /\ acts' = acts + 1
    /\ boot = "up"
    /\ \E c \in UserFiles : file' = c /\ mine' = c
    /\ edited' = TRUE
    /\ UNCHANGED <<old, boot, config, state, parser, progVars, losses>>
Rerun ==
    /\ acts < MaxActs /\ acts' = acts + 1
    /\ Parse(TRUE)
    /\ prog' = [p \in Programs |-> IF prog[p].at = "start" THEN [prog[p] EXCEPT !.alone = FALSE]
                                   ELSE prog[p]]
    /\ UNCHANGED <<emmcVars, boot, config, state, sample, buffer, sent, losses>>
\* app-control.sh: kill -9, and the program again.
Kill(p) ==
    /\ acts < MaxActs /\ acts' = acts + 1
    /\ prog[p].at # "off"
    /\ prog' = [prog EXCEPT ![p] = Off]
    /\ sample' = IF p = "timesync-app" THEN [sample EXCEPT !.held = FALSE] ELSE sample
    /\ buffer' = IF p = "task-state" THEN NoCopy ELSE buffer
    /\ UNCHANGED <<emmcVars, boot, config, state, parser, sent, edited, losses>>
StartByHand(p) ==
    /\ boot = "up" /\ p \in SwitchedOn /\ Start(p)
    /\ UNCHANGED <<emmcVars, boot, config, state, parser, sample, buffer, sent, edited, countVars>>
\* A file whose copy was not synced may be gone as well as cut.
PowerLoss ==
    /\ losses < MaxPowerLosses /\ losses' = losses + 1
    /\ file' \in {file} \cup (IF boot = "copying" THEN {NoFile} ELSE {})
    /\ boot' = "check" /\ config' = ZeroConfig /\ state' = ZeroState /\ parser' = NoParser
    /\ prog' = NoProgs /\ sample' = NoSample /\ buffer' = NoCopy /\ sent' = ZeroState
    /\ UNCHANGED <<old, mine, edited, acts>>

Next ==
    \/ Autostart \/ ConfigParse
    \/ \E p \in Programs : Take(p) \/ Kill(p) \/ StartByHand(p)
    \/ ReadSample \/ WriteSample \/ Send \/ SendFails
    \/ \E f \in StateFields : Collect(f)
    \/ Edit \/ Rerun \/ PowerLoss

Spec == Init /\ [][Next]_vars /\ WF_vars(Autostart) /\ WF_vars(ConfigParse)

-----------------------------------------------------------------------------
(* Properties.                                                             *)

\* A program that starts while nobody runs config-parse by hand takes all its
\* values from the one file config-parse read last, and zero for what that file
\* lacks: autostart waits for config-parse, and the memset leaves nothing of an
\* older file (config-parse.c:361).
OneConfiguration ==
    \A p \in Programs : prog[p].at = "run" /\ prog[p].alone =>
        prog[p].taken = [i \in DOMAIN Reads[p] |-> Expected(Reads[p][i], prog[p].given)]

\* Whatever power losses and failed copies do, the last file of the operator is
\* still there, in its place or as .old (autostart:100-109).
UserConfigKept == mine # NoFile => mine \in {file, old}

\* In the end autostart comes through, and the BRAM holds the file, as far as
\* config-parse can read it - unless the operator has just replaced it.
ConfigComesBack ==
    <>[](boot = "up" /\ (edited \/ \A f \in Item : config[f] = Expected(f, file)))

\* In one session no field of the state messages goes back, though config-parse,
\* timesync-app and task-state write, clear and copy the same BRAM without a lock.
StateNeverGoesBack ==
    [][losses' = losses => \A f \in StateFields : sent'[f] >= sent[f]]_vars

\* The types of the variables.
TypeOK ==
    /\ file \in Files /\ old \in Files /\ mine \in Files /\ edited \in BOOLEAN
    /\ boot \in {"check", "move", "copy", "copying", "parse", "wait", "up"} \cup Programs
    /\ config \in [Item -> Nat] /\ state \in [StateFields -> 0..MaxSamples + 1]
    /\ parser \in [at : {"off", "zero", "items"}, next : 1..Len(Items) + 1, input : Files,
                   byHand : BOOLEAN]
    /\ \A p \in Programs : /\ prog[p].at \in {"off", "start", "run"} /\ prog[p].given \in Files
                           /\ prog[p].at = "run" => Len(prog[p].taken) = Len(Reads[p])
    /\ sample.n \in 0..MaxSamples
    /\ buffer.todo \subseteq StateFields /\ sent \in [StateFields -> 0..MaxSamples + 1]
=============================================================================
