----------------------------- MODULE ConfigUpdate -----------------------------
(***************************************************************************)
(* The functions of mylibrary/cfg_util.c: programs that share one          *)
(* configuration file, read it and rewrite it as a whole.                  *)
(*                                                                         *)
(* What a file holds is the value that lookupConfig finds for each of its  *)
(* parameters, which are numbered in the order of their lines; an empty    *)
(* file, which is read without an error, holds none.  The file fits into   *)
(* the buffer of a stream: nothing of it is written before fclose.  The    *)
(* system may lose its power at any time, or one program may be killed.    *)
(***************************************************************************)
EXTENDS Integers, FiniteSets

CONSTANTS
    Procs,      \* the programs
    NumNames,   \* the parameters of the file are 1 .. NumNames
    Values,     \* values of parameters that can be read and updated
    ListValue,  \* a list, which cannot
    Cut,        \* what is left of a value of which the end was not written
    Broken,     \* a file with a syntax error
    Missing     \* there is no file

ASSUME NumNamesAssumption == NumNames \in Nat \ {0}

Lines == 1 .. NumNames
Empty == <<>>

\* The configurations, whole and not, and what a file may hold.
Whole == [Lines -> Values \cup {ListValue}]
Config == UNION {[S -> Values \cup {ListValue, Cut}] : S \in SUBSET Lines}
Content == Config \cup {Broken, Missing}

\* A file that cannot be read holds no configuration, and a list is not a value.
ASSUME ContentAssumption == Broken \notin Config /\ Missing \notin Config /\ ListValue \notin Values

\* The parameters and new values a caller gives to update_bim_cfg.
Requests == UNION {[S -> Values] : S \in (SUBSET Lines) \ {{}}}

\* The values of f, and for the parameters f has not, those of g.
Over(f, g) == [i \in DOMAIN f \cup DOMAIN g |-> IF i \in DOMAIN f THEN f[i] ELSE g[i]]

VARIABLES
    file,     \* what the programs see of the file
    disk,     \* what of it is on the disk
    backup,   \* the file in /etc
    pc,       \* where each program is in update_bim_cfg: "idle", "parsed", "opened"
    cfg,      \* the ConfigCB of the update
    result,   \* what the call that just ended returned and the values it read, or <<>>
    alone,    \* history: no other program has written since this one read
    intact    \* history: the parameters that could be read at first, while nothing
              \* has gone wrong that could lose them

files == <<file, disk, backup>>
history == <<alone, intact>>
vars == <<files, pc, cfg, result, history>>

Idle == [p \in Procs |-> "idle"]

\* parseConfig returns 0.
Parses(content) == content \notin {Broken, Missing}

\* lookupConfig finds a value that is not a list.
Has(content, i) == Parses(content) /\ i \in DOMAIN content /\ content[i] # ListValue

Init ==
    /\ file \in Whole \cup {Broken, Missing} /\ disk = file
    /\ backup \in {[i \in Lines |-> v] : v \in Values} \cup {Missing}
    /\ pc = Idle
    /\ cfg = [p \in Procs |-> Empty]
    /\ result = <<>>
    /\ alone = [p \in Procs |-> TRUE]
    /\ intact = {i \in Lines : Has(file, i)}

\* The macros lock_config and unlock_config expand to nothing.
lock_config == TRUE

Return(p, ret, values) ==
    /\ result' = <<ret, values>>
    /\ pc' = [pc EXCEPT ![p] = "idle"]
    /\ cfg' = [cfg EXCEPT ![p] = Empty]

-----------------------------------------------------------------------------

\* The active file, or else the backup.
open_bim_system_cfg(p) ==
    /\ pc[p] = "idle" /\ lock_config
    /\ \/ Parses(file) /\ Return(p, 0, file)
       \/ ~Parses(file) /\ Parses(backup) /\ Return(p, 0, backup)
       \/ ~Parses(file) /\ ~Parses(backup) /\ Return(p, -1, Empty)
    /\ UNCHANGED <<files, history>>

\* The values that are copied before the first parameter that is missing.
read_bim_cfg(p, wanted) ==
    LET missing == {i \in wanted : ~Has(file, i)}
        got == {i \in wanted : \A j \in missing : i < j}
    IN /\ pc[p] = "idle" /\ lock_config
       /\ \/ ~Parses(file) /\ Return(p, -1, Empty)
          \/ Parses(file) /\ Return(p, IF missing = {} THEN 0 ELSE -1, [i \in got |-> file[i]])
       /\ UNCHANGED <<files, history>>

\* Mutant: a parameter that is missing is added.
ChangesAdding(content, request) == {Over(request, c) : c \in {d \in {content} : Parses(d)}}

\* Mutant: only the parameters that were given are written.
ChangesOnly(content, request) == {request : c \in {d \in {content} : \A i \in DOMAIN request : Has(d, i)}}

\* The loop over the arguments of update_bim_cfg: the configuration to write, if
\* none of the parameters is missing.
Changes(content, request) ==
    {Over(request, c) : c \in {d \in {content} : \A i \in DOMAIN request : Has(d, i)}}

\* The lock, if there were one, is held for parseConfig and given up.
update_bim_cfg(p, request) ==
    /\ pc[p] = "idle" /\ lock_config
    /\ \/ Changes(file, request) = {} /\ Return(p, -1, Empty) /\ UNCHANGED alone
       \/ \E new \in Changes(file, request) :
            /\ pc' = [pc EXCEPT ![p] = "parsed"]
            /\ cfg' = [cfg EXCEPT ![p] = new]
            /\ result' = <<>>
            /\ alone' = [alone EXCEPT ![p] = \A q \in Procs : pc[q] # "opened"]
    /\ UNCHANGED <<files, intact>>

\* Nobody else is alone any more when p writes.
Disturb(p) == alone' = [q \in Procs |-> q = p /\ alone[p]]

\* Mutant: fopen(config_path, "r+") in writeConfig.
OpenWriteKeeping(p) ==
    /\ pc[p] = "parsed" /\ lock_config
    /\ pc' = [pc EXCEPT ![p] = "opened"]
    /\ result' = <<>>
    /\ Disturb(p)
    /\ UNCHANGED <<files, cfg, intact>>

\* fopen(config_path, "w") in writeConfig.
OpenWrite(p) ==
    /\ pc[p] = "parsed" /\ lock_config
    /\ file' = Empty
    /\ pc' = [pc EXCEPT ![p] = "opened"]
    /\ result' = <<>>
    /\ Disturb(p)
    /\ UNCHANGED <<disk, backup, cfg, intact>>

\* What a file holds when the text of mine is written over its beginning: mine,
\* and where it was longer, its last lines, the first of which is cut.
Overwriting(mine, old) ==
    IF old \in {Empty, Missing} THEN {mine}
    ELSE {mine, Broken} \cup
         (IF old = Broken THEN {}
          ELSE {Over(mine, [i \in DOMAIN old \cap (j .. NumNames) |-> old[i]]) : j \in Lines})

\* fclose at the end of writeConfig, and the return.
CloseWrite(p) ==
    /\ pc[p] = "opened"
    /\ file' \in Overwriting(cfg[p], file)
    /\ Return(p, 0, Empty)
    /\ Disturb(p)
    /\ intact' = IF \E q \in Procs \ {p} : pc[q] = "opened" THEN {} ELSE intact
    /\ UNCHANGED <<disk, backup>>

-----------------------------------------------------------------------------
(* The system.                                                             *)

\* The pages of the file reach the disk; nothing in writeConfig waits for it,
\* because fsync comes before the buffer of the stream is written.
WriteBack ==
    /\ disk # file /\ disk' = file
    /\ result' = <<>>
    /\ UNCHANGED <<file, backup, pc, cfg, history>>

\* A program is killed, or fopen fails and it writes through NULL.
Kill(p) ==
    /\ pc[p] # "idle"
    /\ pc' = [pc EXCEPT ![p] = "idle"]
    /\ cfg' = [cfg EXCEPT ![p] = Empty]
    /\ result' = <<>>
    /\ intact' = IF pc[p] = "opened" THEN {} ELSE intact
    /\ UNCHANGED <<files, alone>>

\* The beginnings of a configuration: some lines are missing, and the last value
\* may be cut.
Beginnings(c) ==
    LET upTo(n) == [i \in DOMAIN c \cap (1 .. n) |-> c[i]] IN
    UNION {{upTo(n), [i \in DOMAIN upTo(n) |-> IF i = n THEN Cut ELSE c[i]]} : n \in 0 .. NumNames}

\* What may be on the disk when the power fails while a file is written back.
Surviving == {disk} \cup (IF file = disk THEN {} ELSE
                 {file, Empty} \cup (IF Parses(file) THEN Beginnings(file) \cup {Broken} ELSE {}))

PowerLoss ==
    /\ file' \in Surviving /\ disk' = file'
    /\ pc' = Idle
    /\ cfg' = [p \in Procs |-> Empty]
    /\ result' = <<>>
    /\ alone' = [p \in Procs |-> TRUE]
    /\ intact' = {}
    /\ UNCHANGED backup

Update(p) == OpenWrite(p) \/ CloseWrite(p)

Next ==
    \/ \E p \in Procs : \/ open_bim_system_cfg(p)
                        \/ \E wanted \in SUBSET Lines : read_bim_cfg(p, wanted)
                        \/ \E request \in Requests : update_bim_cfg(p, request)
                        \/ Update(p) \/ Kill(p)
    \/ WriteBack
    \/ PowerLoss

Spec == Init /\ [][Next]_vars

-----------------------------------------------------------------------------
(* Properties.                                                             *)

\* An update that no other program's writing comes between, from its reading to
\* its end, leaves in the file what it read with the values it was given, whatever
\* was in the file before.
UpdatesAloneHold == [][\A p \in Procs : CloseWrite(p) /\ alone[p] => file' = cfg[p]]_vars

\* As long as no program is killed while it writes, no two write at once and the
\* power does not fail, no number of updates, read before or after each other's,
\* costs a parameter: whenever nobody has the file open, every parameter that
\* could be read at first can be read.
ParametersSurvive ==
    [][\A p \in Procs, wanted \in (SUBSET intact) \ {{}} :
          read_bim_cfg(p, wanted) /\ (\A q \in Procs : pc[q] # "opened") => result'[1] = 0]_vars

\* part holds nothing but what is in whole, up to a last value that was cut.
BeginningOf(part, whole) ==
    /\ DOMAIN part \subseteq DOMAIN whole
    /\ \A i \in DOMAIN part : part[i] # whole[i] => part[i] = Cut /\ \A j \in DOMAIN part : j <= i

\* However the programs are interleaved, killed or cut off from their power,
\* a file that can be read holds the values of one update or of the file as it was,
\* never a mixture, and never a parameter that was lost before: what a broken
\* update has lost no later one brings back.
NoMixture ==
    [][Parses(file') =>
          \E whole \in ({file, disk} \cup {cfg[p] : p \in Procs}) \ {Broken, Missing} :
              BeginningOf(file', whole)]_vars

=============================================================================
