-------------------------------- MODULE Config --------------------------------
(***************************************************************************)
(* The configuration loader of mylibrary/cfg_loader.c: one ConfigCB and    *)
(* the file it is read from and written to.                                *)
(*                                                                         *)
(* phase is                                                                *)
(*   "fresh"    the program has started, cfg is not initialised            *)
(*   "ready"    parseConfig has returned, whatever it returned             *)
(*   "hung"     parseConfig is in comment() and will not return            *)
(*   "crashed"  a NULL was dereferenced, or memory is no longer what its   *)
(*              type says                                                  *)
(* A program that hangs or crashes is started again, as one that loses its *)
(* power is.  Every function is one action.                                *)
(*                                                                         *)
(* malloc may refuse a ConfigParameter or a ParamValue; strdup and the     *)
(* array of a list always find memory.                                     *)
(***************************************************************************)
EXTENDS ConfigText

CONSTANTS
    Given,     \* the values clients add
    Texts,     \* the files written by hand
    NoFile,    \* the file cannot be opened
    MaxParams, \* bound: clients add to shorter lists only
    MaxCount   \* bound: and while numParams is less

ASSUME FileAssumption == NoFile \notin Texts /\ Texts \subseteq Seq(Tokens)

ASSUME GivenAssumption == Given \subseteq ParamValues

VARIABLES
    phase,      \* see above
    parm_list,  \* cfg->parm_list: a sequence of [name, val]
    numParams,  \* cfg->numParams
    text        \* the text of the file, or NoFile

loaderVars == <<phase, parm_list, numParams, text>>

LoaderInit ==
    /\ phase = "fresh"
    /\ parm_list = <<>>
    /\ numParams = 0
    /\ text \in Texts \cup {NoFile}

HasValue(ps) == \A i \in DOMAIN ps : ps[i].val # NoVal

\* What is in memory does not matter any more.
Crash ==
    /\ phase' = "crashed"
    /\ UNCHANGED <<parm_list, numParams>>

-----------------------------------------------------------------------------
(* Looking up.                                                             *)

\* The position of the first parameter called name from position i on, or 0.
FirstFrom(i, name) ==
    LET found == {j \in i .. Len(parm_list) : parm_list[j].name = name} IN
    IF found = {} THEN 0 ELSE Min(found)

lookupConfig(name) == FirstFrom(1, name)

\* Mutant: the list is advanced before list_for_each_entry_continue does.
lookupAfterNext(current, name) == FirstFrom(current + 2, name)

lookupNextConfig(current, name) == FirstFrom(current + 1, name)

-----------------------------------------------------------------------------
(* Adding, changing and deleting.                                          *)

\* A parameter that is to be added: it is, with its value or with none, or not
\* at all.
Outcomes(p) == {<<>>, <<p>>, <<Param(p.name, NoVal)>>}

\* Mutant: addParameter does not count.
addUncounted(added) ==
    /\ parm_list' = parm_list \o added
    /\ UNCHANGED <<phase, numParams, text>>

addParameters(added) ==
    /\ parm_list' = parm_list \o added
    /\ numParams' = numParams + Len(added)
    /\ UNCHANGED <<phase, text>>

\* The add functions.  In addListValue an element without memory is linked all
\* the same, through NULL.
addValue(name, v) ==
    /\ phase = "ready"
    /\ Len(parm_list) < MaxParams /\ numParams < MaxCount
    /\ \/ \E added \in Outcomes(Param(name, v)) : addParameters(added)
       \/ v.type = "List" /\ v.word # <<>> /\ Crash /\ UNCHANGED text

\* freePValue of no value crashes.
delParameter(i) ==
    /\ phase = "ready"
    /\ \/ /\ parm_list[i].val # NoVal
          /\ parm_list' = RemoveAt(parm_list, i)
          /\ numParams' = numParams - 1
          /\ UNCHANGED phase
       \/ parm_list[i].val = NoVal /\ Crash
    /\ UNCHANGED text

\* numParams is not reset.
freeConfig ==
    /\ phase = "ready"
    /\ \/ HasValue(parm_list) /\ parm_list' = <<>> /\ UNCHANGED <<phase, numParams>>
       \/ ~HasValue(parm_list) /\ Crash
    /\ UNCHANGED text

\* setParamString, setParamInteger and setParamBool store into the union without
\* a look at its type; an int and a boolean share their member.
Fits(old, v) ==
    old # NoVal /\ (old.type = v.type \/ {old.type, v.type} = {"Integer", "Boolean"})

setParam(name, v) ==
    /\ phase = "ready"
    /\ v.type \in {"String", "Integer", "Boolean"}
    /\ LET i == lookupConfig(name) IN
         \/ i = 0 /\ addValue(name, v)
         \/ /\ i # 0 /\ Fits(parm_list[i].val, v)
            /\ parm_list' = [parm_list EXCEPT ![i].val.word = v.word]
            /\ UNCHANGED <<phase, numParams, text>>
         \/ i # 0 /\ ~Fits(parm_list[i].val, v) /\ Crash /\ UNCHANGED text

-----------------------------------------------------------------------------
(* The file.                                                               *)

\* What a list of parameters that is read becomes in memory.
Loads(ps) ==
    FoldLeft(LAMBDA loads, p : UNION {{l \o o : o \in Outcomes(p)} : l \in loads}, {<<>>}, ps)

parseHangs ==
    /\ text # NoFile /\ Hangs(text)
    /\ phase' = "hung"
    /\ UNCHANGED <<parm_list, numParams>>

parseFails ==
    /\ text = NoFile
    /\ phase' = "ready"
    /\ parm_list' = <<>>
    /\ numParams' = 0

\* Up to the error every parameter was added, and numParams still says so.
parseError ==
    /\ text # NoFile /\ ~Hangs(text) /\ ~Accepts(text)
    /\ \E ps \in Loads(Parsed(text)) :
         \/ HasValue(ps) /\ phase' = "ready" /\ parm_list' = <<>> /\ numParams' = Len(ps)
         \/ ~HasValue(ps) /\ phase' = "crashed" /\ parm_list' = ps /\ numParams' = Len(ps)

parseLoads ==
    /\ text # NoFile /\ ~Hangs(text) /\ Accepts(text)
    /\ \E ps \in Loads(Parsed(text)) :
         phase' = "ready" /\ parm_list' = ps /\ numParams' = Len(ps)

\* An element of a list finds no memory, and is linked all the same.
parseCrashes ==
    /\ text # NoFile
    /\ \E n \in DOMAIN text : Parsing(SubSeq(text, 1, n)).expects = "more"
    /\ Crash

parseConfig ==
    /\ phase \in {"fresh", "ready"}
    /\ parseHangs \/ parseFails \/ parseError \/ parseLoads \/ parseCrashes
    /\ UNCHANGED text

\* Mutant: fopen(path, "a").
appendConfig ==
    /\ phase = "ready"
    /\ HasValue(parm_list)
    /\ text' = (IF text = NoFile THEN <<>> ELSE text) \o Written(parm_list)
    /\ UNCHANGED <<phase, parm_list, numParams>>

writeConfig ==
    /\ phase = "ready"
    /\ HasValue(parm_list)
    /\ text' = Written(parm_list)
    /\ UNCHANGED <<phase, parm_list, numParams>>

\* The parameters before the first one that has no value.
Printable ==
    SubSeq(parm_list, 1, Max({n \in 0 .. Len(parm_list) : HasValue(SubSeq(parm_list, 1, n))}))

\* fopen fails; or a parameter has no value; or the machine loses its power.
\* fopen has emptied the file, and fsync comes before the buffer of the stream is
\* written, so that any part of the text may be lost.
writeCrashes ==
    /\ phase = "ready"
    /\ \/ UNCHANGED text
       \/ text' \in Torn(Written(Printable))
    /\ Crash

\* The program ends and starts again.
Restart ==
    /\ phase \in {"hung", "crashed"}
    /\ phase' = "fresh"
    /\ parm_list' = <<>>
    /\ numParams' = 0
    /\ UNCHANGED text

LoaderNext ==
    \/ \E name \in Names, v \in Given : addValue(name, v) \/ setParam(name, v)
    \/ \E i \in DOMAIN parm_list : delParameter(i)
    \/ freeConfig
    \/ parseConfig
    \/ writeConfig
    \/ writeCrashes
    \/ Restart

LoaderSpec == LoaderInit /\ [][LoaderNext]_loaderVars

-----------------------------------------------------------------------------
(* Properties.                                                             *)

\* Type correctness; numParams never falls behind the list, so that no client
\* who counts with it takes a non-empty configuration for an empty one.
TypeOK ==
    /\ phase \in {"fresh", "ready", "hung", "crashed"}
    /\ parm_list \in Seq([name : Names, val : {NoVal} \cup ParamValues])
    /\ numParams \in Nat /\ numParams >= Len(parm_list)

\* A walk with lookupConfig and then lookupNextConfig comes to every parameter of
\* a name, those read from the file and those added later, and to no other.
WalkVisitsAll ==
    \A name \in Names :
        LET walk[i \in 0 .. Len(parm_list)] ==
              IF i = 0 THEN {} ELSE {i} \cup walk[lookupNextConfig(i, name)]
        IN  walk[lookupConfig(name)] = {i \in DOMAIN parm_list : parm_list[i].name = name}

\* A configuration that writeConfig has written reads back as itself, but for
\* signs, digits and booleans other than 0 and 1: as many parameters, in the same
\* order, of the same types.
WriteStep ==
    writeConfig /\ (\A i \in DOMAIN parm_list : Storable(parm_list[i].val)) =>
        Accepts(text') /\ Parsed(text') = Normals(parm_list)

ReadsBack == [][WriteStep]_loaderVars

\* Any file that can be read, one written by hand included, can be written and
\* read again: no parameter or element is lost, but for the sign of a hexadecimal
\* number and the digits of a float no value changes, and writing what was then
\* read gives the same text.
RereadsTheSame ==
    text # NoFile /\ Accepts(text) =>
        LET again == Written(Parsed(text)) IN
        /\ Accepts(again)
        /\ Parsed(again) = Normals(Parsed(text))
        /\ Written(Parsed(again)) = again

\* However a write of the file ends, what can then be read of it is the beginning
\* of the configuration in memory: only the last value may be another.
FileStep ==
    text' # text /\ Accepts(text') =>
        LET got == Parsed(text')
            want == Normals(Printable)
        IN  /\ Len(got) <= Len(want)
            /\ \A i \in DOMAIN got : got[i].name = want[i].name
            /\ \A i \in DOMAIN got : i < Len(got) => got[i] = want[i]

ReadsABeginning == [][FileStep]_loaderVars

\* The comment of writeConfig: it writes the contents of the control block to the
\* file, and says so by returning 0.
WroteStep ==
    writeConfig /\ (\A i \in DOMAIN parm_list : Storable(parm_list[i].val)) =>
        Accepts(text') /\ Parsed(text') = parm_list

WrittenReadsBack == [][WroteStep]_loaderVars

=============================================================================
