---------------------------- MODULE ConfigProofs ----------------------------
(***************************************************************************)
(* Proofs about ConfigUpdate, for any number of programs and parameters    *)
(* and any values, and about Config, for any file and any sequence of      *)
(* calls.                                                                  *)
(*                                                                         *)
(* ConfigUpdate: IInv is inductive.  Its parts say why the updates that    *)
(* nothing goes wrong with lose nothing although nobody holds a lock: a    *)
(* program that opened the file and was alone still finds it empty         *)
(* (AloneEmpties); the programs that update the file at one time all read  *)
(* as many parameters from it, and it holds as many or none (SameLines);   *)
(* and what could be read at first is in the file, or, while it is open,   *)
(* in what every program is about to write (Kept).                         *)
(*                                                                         *)
(* Config: LoaderInv is inductive: the types, and that the file is a text  *)
(* that the scanner can return.  What is said of the parser, of the        *)
(* writer and of the walk by name is said of texts and lists of any        *)
(* length, by induction: the numbers that have a property are a set, UpTo  *)
(* takes it from 0 to n.  ParsingAppend says what one more token does;     *)
(* ReadElement and ReadOneMore what one more element and one more          *)
(* parameter do; Sound, that no place a text can be cut at lets more be    *)
(* read than was to be written.                                            *)
(***************************************************************************)
EXTENDS ConfigUpdate, Config, SequenceTheorems, FiniteSetTheorems, WellFoundedInduction, TLAPS

Active == {p \in Procs : pc[p] # "idle"}

Opened == {p \in Procs : pc[p] = "opened"}

UpdateTypeOK ==
    /\ file \in Content
    /\ disk \in Content
    /\ pc \in [Procs -> {"idle", "parsed", "opened"}]
    /\ cfg \in [Procs -> Config]
    /\ alone \in [Procs -> BOOLEAN]
    /\ intact \subseteq Lines
    /\ file # disk => Procs # {}

AloneEmpties == \A p \in Opened : alone[p] => file = Empty

SameLines ==
    \A p \in Active :
        /\ \A q \in Active : DOMAIN cfg[p] = DOMAIN cfg[q]
        /\ Parses(file) => DOMAIN file \in {{}, DOMAIN cfg[p]}

Kept ==
    /\ Opened = {} => \A i \in intact : Has(file, i)
    /\ Opened # {} /\ intact # {} => file = Empty
    /\ \A p \in Active : \A i \in intact : Has(cfg[p], i)

IInv == UpdateTypeOK /\ AloneEmpties /\ SameLines /\ Kept

-----------------------------------------------------------------------------
(* Configurations.                                                         *)

\* A configuration is a function from some of the parameters.
LEMMA ConfigDef ==
    ASSUME NEW c
    PROVE  c \in Config <=> /\ c = [i \in DOMAIN c |-> c[i]]
                            /\ DOMAIN c \subseteq Lines
                            /\ \A i \in DOMAIN c : c[i] \in Values \cup {ListValue, Cut}
<1> DEFINE V == Values \cup {ListValue, Cut}
<1>1. ASSUME c \in Config
      PROVE  /\ c = [i \in DOMAIN c |-> c[i]] /\ DOMAIN c \subseteq Lines
             /\ \A i \in DOMAIN c : c[i] \in V
  <2>1. PICK S \in SUBSET Lines : c \in [S -> V]
    BY <1>1 DEF Config
  <2> QED BY <2>1
<1>2. ASSUME c = [i \in DOMAIN c |-> c[i]], DOMAIN c \subseteq Lines,
             \A i \in DOMAIN c : c[i] \in V
      PROVE  c \in Config
  <2>1. c \in [DOMAIN c -> V]
    BY <1>2
  <2> QED BY <1>2, <2>1 DEF Config
<1> QED BY <1>1, <1>2

\* An empty file can be read.
LEMMA EmptyConfig == Empty \in Config /\ DOMAIN Empty = {} /\ Parses(Empty)
<1>1. DOMAIN Empty = {} /\ Empty = [i \in {} |-> Empty[i]]
  BY DEF Empty
<1>2. Empty \in Config
  BY <1>1, ConfigDef
<1> QED BY <1>1, <1>2, ContentAssumption DEF Parses

\* What can be read holds a configuration.
LEMMA ParsedConfig ==
    ASSUME NEW c
    PROVE  /\ c \in Content /\ Parses(c) => c \in Config
           /\ c \in Config => c \in Content /\ Parses(c)
BY ContentAssumption DEF Content, Parses

\* f with the values of g for what f has not.
LEMMA Merge ==
    ASSUME NEW f \in Config, NEW g \in Config
    PROVE  /\ Over(f, g) \in Config
           /\ DOMAIN Over(f, g) = DOMAIN f \cup DOMAIN g
           /\ \A i \in DOMAIN f \cup DOMAIN g : Over(f, g)[i] = IF i \in DOMAIN f THEN f[i] ELSE g[i]
           /\ DOMAIN g \subseteq DOMAIN f => Over(f, g) = f
<1>1. Over(f, g) = [i \in DOMAIN f \cup DOMAIN g |-> IF i \in DOMAIN f THEN f[i] ELSE g[i]]
  BY DEF Over
<1>2. /\ f = [i \in DOMAIN f |-> f[i]]
      /\ DOMAIN f \subseteq Lines /\ DOMAIN g \subseteq Lines
      /\ \A i \in DOMAIN f : f[i] \in Values \cup {ListValue, Cut}
      /\ \A i \in DOMAIN g : g[i] \in Values \cup {ListValue, Cut}
  BY ConfigDef
<1>3. Over(f, g) \in Config
  BY <1>1, <1>2, ConfigDef
<1> QED BY <1>1, <1>2, <1>3

\* What a caller gives is a configuration, without lists.
LEMMA RequestConfig ==
    ASSUME NEW request \in Requests
    PROVE  /\ request \in Config /\ DOMAIN request # {}
           /\ \A i \in DOMAIN request : request[i] # ListValue
<1>1. PICK S \in (SUBSET Lines) \ {{}} : request \in [S -> Values]
  BY DEF Requests
<1>2. /\ request = [i \in DOMAIN request |-> request[i]] /\ DOMAIN request = S
      /\ \A i \in DOMAIN request : request[i] \in Values
  BY <1>1
<1>3. request \in Config
  BY <1>1, <1>2, ConfigDef
<1> QED BY <1>1, <1>2, <1>3, ContentAssumption

\* What update_bim_cfg parsed and changed: all parameters it was given can be
\* read, and the others are as they were.
LEMMA ChangesLemma ==
    ASSUME NEW content \in Content, NEW request \in Requests,
           NEW new \in Changes(content, request)
    PROVE  /\ content \in Config /\ new \in Config
           /\ DOMAIN new = DOMAIN content /\ DOMAIN content # {}
           /\ \A i \in Lines : Has(content, i) => Has(new, i)
<1>1. new = Over(request, content) /\ \A i \in DOMAIN request : Has(content, i)
  BY DEF Changes
<1>2. /\ request \in Config /\ DOMAIN request # {}
      /\ \A i \in DOMAIN request : request[i] # ListValue
  BY RequestConfig
<1>3. content \in Config /\ DOMAIN request \subseteq DOMAIN content
  BY <1>1, <1>2, ParsedConfig DEF Has
<1>4. /\ new \in Config /\ DOMAIN new = DOMAIN content
      /\ \A i \in DOMAIN content : new[i] = IF i \in DOMAIN request THEN request[i] ELSE content[i]
  <2>1. DOMAIN request \cup DOMAIN content = DOMAIN content
    BY <1>3
  <2>2. Over(request, content) \in Config
    BY <1>2, <1>3, Merge
  <2>3. /\ DOMAIN Over(request, content) = DOMAIN content
        /\ \A i \in DOMAIN content :
             Over(request, content)[i] = IF i \in DOMAIN request THEN request[i] ELSE content[i]
    BY <2>1 DEF Over
  <2> QED BY <1>1, <2>2, <2>3
<1>5. Parses(new)
  BY <1>4, ParsedConfig
<1>6. \A i \in Lines : Has(content, i) => Has(new, i)
  BY <1>2, <1>4, <1>5 DEF Has
<1> QED BY <1>2, <1>3, <1>4, <1>6

\* A configuration cut off below some line.
LEMMA TailConfig ==
    ASSUME NEW old \in Config, NEW j \in Lines
    PROVE  LET rest == [i \in DOMAIN old \cap (j .. NumNames) |-> old[i]]
           IN  rest \in Config /\ DOMAIN rest \subseteq DOMAIN old
<1> DEFINE rest == [i \in DOMAIN old \cap (j .. NumNames) |-> old[i]]
<1>1. DOMAIN old \subseteq Lines /\ \A i \in DOMAIN old : old[i] \in Values \cup {ListValue, Cut}
  BY ConfigDef
<1>2. /\ DOMAIN rest \subseteq DOMAIN old /\ rest = [i \in DOMAIN rest |-> rest[i]]
      /\ \A i \in DOMAIN rest : rest[i] = old[i]
  OBVIOUS
<1> HIDE DEF rest
<1>3. rest \in Config
  BY <1>1, <1>2, ConfigDef
<1> QED BY <1>2, <1>3 DEF rest

\* A file that holds no other lines than what is written over it holds just
\* that afterwards, or cannot be read.
LEMMA OverwritingLemma ==
    ASSUME NEW mine \in Config, NEW old \in Content, NEW new \in Overwriting(mine, old),
           Parses(old) => DOMAIN old \in {{}, DOMAIN mine}
    PROVE  new \in Content /\ (new = mine \/ ~Parses(new))
<1>1. CASE new = mine
  BY <1>1, ParsedConfig
<1>2. CASE new = Broken
  BY <1>2 DEF Content, Parses
<1>3. CASE new # mine /\ new # Broken
  <2>1. PICK j \in Lines :
          old \notin {Broken, Missing}
            /\ new = Over(mine, [i \in DOMAIN old \cap (j .. NumNames) |-> old[i]])
    BY <1>3, Zenon DEF Overwriting
  <2>2. old \in Config
    BY <2>1 DEF Content
  <2>3. DOMAIN old \subseteq DOMAIN mine
    BY <2>2, ParsedConfig
  <2> DEFINE rest == [i \in DOMAIN old \cap (j .. NumNames) |-> old[i]]
  <2>4. rest \in Config /\ DOMAIN rest \subseteq DOMAIN old
    BY <2>2, TailConfig
  <2> HIDE DEF rest
  <2>5. Over(mine, rest) = mine
    BY <2>3, <2>4, Merge
  <2>6. new = mine
    BY <2>1, <2>5 DEF rest
  <2> QED BY <1>3, <2>6
<1> QED BY <1>1, <1>2, <1>3

\* A configuration is a beginning of itself, and an empty file one of any.
LEMMA BeginningLemma ==
    /\ \A c : BeginningOf(c, c)
    /\ \A c : BeginningOf(Empty, c)
BY EmptyConfig DEF BeginningOf

\* What is left of a configuration whose writing was cut short.
LEMMA CutShort ==
    ASSUME NEW c \in Config, NEW part \in Beginnings(c)
    PROVE  part \in Config /\ BeginningOf(part, c)
<1>1. DOMAIN c \subseteq Lines /\ \A i \in DOMAIN c : c[i] \in Values \cup {ListValue, Cut}
  BY ConfigDef
<1> DEFINE upTo(n) == [i \in DOMAIN c \cap (1 .. n) |-> c[i]]
           cut(n) == [i \in DOMAIN upTo(n) |-> IF i = n THEN Cut ELSE c[i]]
<1>2. PICK n \in 0 .. NumNames : part = upTo(n) \/ part = cut(n)
  BY DEF Beginnings
<1>3. /\ DOMAIN part = DOMAIN c \cap (1 .. n)
      /\ part = [i \in DOMAIN part |-> part[i]]
      /\ \A i \in DOMAIN part : part[i] = c[i] \/ (i = n /\ part[i] = Cut)
  BY <1>2
<1>4. part \in Config
  BY <1>1, <1>3, ConfigDef
<1>5. \A i, j \in DOMAIN part : i = n => j <= i
  BY <1>3
<1>6. BeginningOf(part, c)
  BY <1>3, <1>5 DEF BeginningOf
<1> QED BY <1>4, <1>6

-----------------------------------------------------------------------------
(* The invariant.                                                          *)

LEMMA InitIInv == Init => IInv
<1> SUFFICES ASSUME Init PROVE IInv
  OBVIOUS
<1>1. Whole \subseteq Config
  <2> SUFFICES ASSUME NEW c \in Whole PROVE c \in Config
    OBVIOUS
  <2>1. /\ c = [i \in DOMAIN c |-> c[i]] /\ DOMAIN c = Lines
        /\ \A i \in DOMAIN c : c[i] \in Values \cup {ListValue, Cut}
    BY DEF Whole
  <2> QED BY <2>1, ConfigDef
<1>2. Active = {} /\ Opened = {}
  BY DEF Init, Idle, Active, Opened
<1>3. UpdateTypeOK
  BY <1>1, EmptyConfig DEF Init, Idle, UpdateTypeOK, Content
<1>4. AloneEmpties /\ SameLines
  BY <1>2 DEF AloneEmpties, SameLines
<1>5. Kept
  BY <1>2 DEF Init, Kept
<1> QED BY <1>3, <1>4, <1>5 DEF IInv

\* A program that returns, or is killed, leaves the rest as it was.
LEMMA Leaving ==
    ASSUME IInv, NEW p \in Procs,
           pc' = [pc EXCEPT ![p] = "idle"], cfg' = [cfg EXCEPT ![p] = Empty]
    PROVE  /\ pc' \in [Procs -> {"idle", "parsed", "opened"}] /\ cfg' \in [Procs -> Config]
           /\ Active' = Active \ {p} /\ Opened' = Opened \ {p}
           /\ \A q \in Active' : cfg'[q] = cfg[q]
BY EmptyConfig DEF IInv, UpdateTypeOK, Active, Opened

\* A program that only reads.
LEMMA ReadingIInv ==
    ASSUME IInv, NEW p \in Procs, pc[p] = "idle", UNCHANGED <<files, history>>,
           pc' = [pc EXCEPT ![p] = "idle"], cfg' = [cfg EXCEPT ![p] = Empty]
    PROVE  IInv'
<1>1. /\ pc' \in [Procs -> {"idle", "parsed", "opened"}] /\ cfg' \in [Procs -> Config]
      /\ Active' = Active /\ Opened' = Opened
      /\ \A q \in Active' : cfg'[q] = cfg[q]
  BY Leaving DEF Active, Opened
<1>2. UNCHANGED <<file, disk, alone, intact>>
  BY DEF files, history
<1>3. UpdateTypeOK'
  BY <1>1, <1>2 DEF IInv, UpdateTypeOK
<1>4. AloneEmpties'
  BY <1>1, <1>2 DEF IInv, AloneEmpties
<1>5. SameLines'
  BY <1>1, <1>2 DEF IInv, SameLines
<1>6. Kept'
  BY <1>1, <1>2 DEF IInv, Kept, Has, Parses
<1> QED BY <1>3, <1>4, <1>5, <1>6 DEF IInv

\* update_bim_cfg, when it found everything it was given.
LEMMA UpdateIInv ==
    ASSUME IInv, NEW p \in Procs, NEW request \in Requests,
           NEW new \in Changes(file, request),
           pc[p] = "idle", UNCHANGED <<files, intact>>,
           pc' = [pc EXCEPT ![p] = "parsed"], cfg' = [cfg EXCEPT ![p] = new],
           alone' = [alone EXCEPT ![p] = \A q \in Procs : pc[q] # "opened"]
    PROVE  IInv'
<1>1. /\ file \in Config /\ new \in Config
      /\ DOMAIN new = DOMAIN file /\ DOMAIN file # {}
      /\ \A i \in Lines : Has(file, i) => Has(new, i)
  BY ChangesLemma DEF IInv, UpdateTypeOK
<1>2. UNCHANGED <<file, disk, intact>> /\ Parses(file)
  BY <1>1, ParsedConfig DEF files
<1>3. /\ pc' \in [Procs -> {"idle", "parsed", "opened"}] /\ cfg' \in [Procs -> Config]
      /\ alone' \in [Procs -> BOOLEAN]
      /\ Active' = Active \cup {p} /\ Opened' = Opened /\ p \notin Opened
      /\ cfg'[p] = new
      /\ \A q \in Active : cfg'[q] = cfg[q]
      /\ \A q \in Opened : alone'[q] = alone[q]
  BY <1>1 DEF IInv, UpdateTypeOK, Active, Opened
<1>4. UpdateTypeOK'
  BY <1>2, <1>3 DEF IInv, UpdateTypeOK
<1>5. AloneEmpties'
  BY <1>2, <1>3 DEF IInv, AloneEmpties
<1>6. \A q \in Active : DOMAIN cfg[q] = DOMAIN file
  BY <1>1, <1>2 DEF IInv, SameLines
<1>7. SameLines'
  BY <1>1, <1>2, <1>3, <1>6 DEF SameLines
<1>8. Kept'
  <2>1. Opened # {} => intact = {}
    BY <1>1, EmptyConfig DEF IInv, Kept
  <2>2. \A i \in intact : Has(file, i) /\ i \in Lines
    BY <2>1 DEF IInv, Kept, UpdateTypeOK
  <2>3. \A i \in intact : Has(new, i)
    BY <1>1, <2>2
  <2>4. \A q \in Active' : \A i \in intact : Has(cfg'[q], i)
    BY <1>3, <2>3 DEF IInv, Kept
  <2> QED BY <1>2, <1>3, <2>1, <2>2, <2>4 DEF Kept, Has, Parses
<1> QED BY <1>4, <1>5, <1>7, <1>8 DEF IInv

\* writeConfig opens the file.
LEMMA OpenIInv ==
    ASSUME IInv, NEW p \in Procs, OpenWrite(p)
    PROVE  IInv'
<1>1. /\ pc[p] = "parsed" /\ pc' = [pc EXCEPT ![p] = "opened"] /\ file' = Empty
      /\ alone' = [q \in Procs |-> q = p /\ alone[p]]
      /\ UNCHANGED <<disk, cfg, intact>>
  BY DEF OpenWrite, Disturb
<1>2. /\ pc' \in [Procs -> {"idle", "parsed", "opened"}] /\ alone' \in [Procs -> BOOLEAN]
      /\ Active' = Active /\ Opened' = Opened \cup {p}
  BY <1>1 DEF IInv, UpdateTypeOK, Active, Opened
<1>3. Empty \in Content /\ DOMAIN Empty = {}
  BY EmptyConfig, ParsedConfig
<1>4. UpdateTypeOK'
  BY <1>1, <1>2, <1>3 DEF IInv, UpdateTypeOK
<1>5. AloneEmpties'
  BY <1>1 DEF AloneEmpties
<1>6. SameLines'
  BY <1>1, <1>2, <1>3 DEF IInv, SameLines
<1>7. Kept'
  BY <1>1, <1>2 DEF IInv, Kept, Has, Parses
<1> QED BY <1>4, <1>5, <1>6, <1>7 DEF IInv

\* What fclose leaves in the file is what the program wrote, or cannot be read.
LEMMA CloseLemma ==
    ASSUME IInv, NEW p \in Procs, CloseWrite(p)
    PROVE  /\ cfg[p] \in Config /\ file' \in Content
           /\ file' = cfg[p] \/ ~Parses(file')
           /\ file = Empty => file' = cfg[p]
<1>1. pc[p] = "opened" /\ file' \in Overwriting(cfg[p], file) /\ cfg[p] \in Config /\ file \in Content
  BY DEF CloseWrite, IInv, UpdateTypeOK
<1>2. p \in Active
  BY <1>1 DEF Active
<1>3. Parses(file) => DOMAIN file \in {{}, DOMAIN cfg[p]}
  BY <1>2 DEF IInv, SameLines
<1>4. file' \in Content /\ (file' = cfg[p] \/ ~Parses(file'))
  BY <1>1, <1>3, OverwritingLemma
<1>5. file = Empty => file' = cfg[p]
  BY <1>1 DEF Overwriting
<1> QED BY <1>1, <1>4, <1>5

LEMMA CloseIInv ==
    ASSUME IInv, NEW p \in Procs, CloseWrite(p)
    PROVE  IInv'
<1>1. /\ pc[p] = "opened"
      /\ pc' = [pc EXCEPT ![p] = "idle"] /\ cfg' = [cfg EXCEPT ![p] = Empty]
      /\ alone' = [q \in Procs |-> q = p /\ alone[p]]
      /\ intact' = IF \E q \in Procs \ {p} : pc[q] = "opened" THEN {} ELSE intact
      /\ UNCHANGED disk
  BY DEF CloseWrite, Disturb, Return
<1>2. /\ pc' \in [Procs -> {"idle", "parsed", "opened"}] /\ cfg' \in [Procs -> Config]
      /\ Active' = Active \ {p} /\ Opened' = Opened \ {p}
      /\ \A q \in Active' : cfg'[q] = cfg[q]
  BY <1>1, Leaving
<1>3. /\ cfg[p] \in Config /\ file' \in Content
      /\ file' = cfg[p] \/ ~Parses(file')
      /\ file = Empty => file' = cfg[p]
  BY CloseLemma
<1>4. p \in Opened /\ p \in Active
  BY <1>1 DEF Opened, Active
<1>5. alone' \in [Procs -> BOOLEAN]
  BY <1>1 DEF IInv, UpdateTypeOK
<1>6. UpdateTypeOK'
  BY <1>1, <1>2, <1>3, <1>5 DEF IInv, UpdateTypeOK
<1>7. AloneEmpties'
  <2>1. \A q \in Opened' : q \in Procs /\ ~alone'[q]
    BY <1>1, <1>2 DEF Opened
  <2> QED BY <2>1 DEF AloneEmpties
<1>8. SameLines'
  BY <1>2, <1>3, <1>4 DEF IInv, SameLines
<1>9. Kept'
  <2>1. Opened' # {} => intact' = {}
    BY <1>1, <1>2 DEF Opened
  <2>2. intact' # {} => intact' = intact /\ file = Empty
    BY <1>1, <1>4 DEF IInv, Kept
  <2>3. \A i \in intact' : Has(file', i)
    BY <1>3, <1>4, <2>2 DEF IInv, Kept
  <2>4. \A q \in Active' : \A i \in intact' : Has(cfg'[q], i)
    BY <1>2, <2>2 DEF IInv, Kept
  <2> QED BY <2>1, <2>3, <2>4 DEF Kept, Has, Parses
<1> QED BY <1>6, <1>7, <1>8, <1>9 DEF IInv

LEMMA KillIInv ==
    ASSUME IInv, NEW p \in Procs, Kill(p)
    PROVE  IInv'
<1>1. /\ pc' = [pc EXCEPT ![p] = "idle"] /\ cfg' = [cfg EXCEPT ![p] = Empty]
      /\ intact' = IF pc[p] = "opened" THEN {} ELSE intact
      /\ UNCHANGED <<file, disk, alone>>
  BY DEF Kill, files
<1>2. /\ pc' \in [Procs -> {"idle", "parsed", "opened"}] /\ cfg' \in [Procs -> Config]
      /\ Active' = Active \ {p} /\ Opened' = Opened \ {p}
      /\ \A q \in Active' : cfg'[q] = cfg[q]
  BY <1>1, Leaving
<1>3. UpdateTypeOK'
  BY <1>1, <1>2 DEF IInv, UpdateTypeOK
<1>4. AloneEmpties'
  BY <1>1, <1>2 DEF IInv, AloneEmpties
<1>5. SameLines'
  BY <1>1, <1>2 DEF IInv, SameLines
<1>6. Kept'
  <2>1. intact' # {} => intact' = intact /\ Opened' = Opened
    BY <1>1, <1>2 DEF Opened
  <2>2. \A q \in Active' : \A i \in intact' : Has(cfg'[q], i)
    BY <1>2, <2>1 DEF IInv, Kept
  <2>3. Opened' = {} => \A i \in intact' : Has(file, i)
    BY <2>1 DEF IInv, Kept
  <2>4. Opened' # {} /\ intact' # {} => file = Empty
    BY <2>1 DEF IInv, Kept
  <2> QED BY <1>1, <2>2, <2>3, <2>4 DEF Kept, Has, Parses
<1> QED BY <1>3, <1>4, <1>5, <1>6 DEF IInv

\* What a loss of power leaves of the file.
LEMMA SurvivingLemma ==
    ASSUME IInv, NEW left \in Surviving
    PROVE  /\ left \in Content
           /\ Parses(left) =>
                \E whole \in ({file, disk} \cup {cfg[p] : p \in Procs}) \ {Broken, Missing} :
                    BeginningOf(left, whole)
<1>1. file \in Content /\ disk \in Content
  BY DEF IInv, UpdateTypeOK
<1>2. CASE left = disk \/ left = file
  BY <1>1, <1>2, BeginningLemma DEF Parses
<1>3. CASE left = Empty /\ file # disk
  <2>1. PICK p \in Procs : TRUE
    BY <1>3 DEF IInv, UpdateTypeOK
  <2>2. cfg[p] \notin {Broken, Missing}
    BY <2>1, ContentAssumption DEF IInv, UpdateTypeOK
  <2> QED BY <1>3, <2>2, BeginningLemma, EmptyConfig, ParsedConfig
<1>4. CASE Parses(file) /\ left = Broken
  BY <1>4 DEF Content, Parses
<1>5. CASE Parses(file) /\ left \in Beginnings(file)
  <2>1. file \in Config
    BY <1>1, <1>5, ParsedConfig
  <2>2. left \in Config /\ BeginningOf(left, file)
    BY <1>5, <2>1, CutShort
  <2> QED BY <1>5, <2>2, ParsedConfig DEF Parses
<1> QED BY <1>2, <1>3, <1>4, <1>5 DEF Surviving

LEMMA PowerLossIInv ==
    ASSUME IInv, PowerLoss
    PROVE  IInv'
<1>1. /\ file' \in Content /\ disk' = file' /\ pc' = Idle /\ cfg' = [p \in Procs |-> Empty]
      /\ alone' = [p \in Procs |-> TRUE] /\ intact' = {}
  BY SurvivingLemma DEF PowerLoss
<1>2. Active' = {} /\ Opened' = {}
  BY <1>1 DEF Idle, Active, Opened
<1>3. UpdateTypeOK'
  BY <1>1, EmptyConfig DEF Idle, UpdateTypeOK
<1> QED BY <1>1, <1>2, <1>3 DEF IInv, AloneEmpties, SameLines, Kept

LEMMA NextIInv == IInv /\ [Next]_vars => IInv'
<1> SUFFICES ASSUME IInv, [Next]_vars PROVE IInv'
  OBVIOUS
<1>1. ASSUME NEW p \in Procs, open_bim_system_cfg(p)
      PROVE  IInv'
  BY <1>1, ReadingIInv DEF open_bim_system_cfg, Return
<1>2. ASSUME NEW p \in Procs, NEW wanted \in SUBSET Lines, read_bim_cfg(p, wanted)
      PROVE  IInv'
  BY <1>2, ReadingIInv DEF read_bim_cfg, Return
<1>3. ASSUME NEW p \in Procs, NEW request \in Requests, update_bim_cfg(p, request)
      PROVE  IInv'
  <2>1. pc[p] = "idle" /\ UNCHANGED <<files, intact>>
    BY <1>3 DEF update_bim_cfg
  <2>2. CASE Return(p, -1, Empty) /\ UNCHANGED alone
    BY <2>1, <2>2, ReadingIInv DEF Return, history
  <2>3. CASE \E new \in Changes(file, request) :
               /\ pc' = [pc EXCEPT ![p] = "parsed"]
               /\ cfg' = [cfg EXCEPT ![p] = new]
               /\ result' = <<>>
               /\ alone' = [alone EXCEPT ![p] = \A q \in Procs : pc[q] # "opened"]
    BY <2>1, <2>3, UpdateIInv
  <2> QED BY <1>3, <2>2, <2>3 DEF update_bim_cfg
<1>4. ASSUME WriteBack
      PROVE  IInv'
  <2>1. disk' = file /\ UNCHANGED <<file, pc, cfg, alone, intact>>
    BY <1>4 DEF WriteBack, history
  <2>2. Active' = Active /\ Opened' = Opened
    BY <2>1 DEF Active, Opened
  <2>3. UpdateTypeOK'
    BY <2>1 DEF IInv, UpdateTypeOK
  <2>4. AloneEmpties' /\ SameLines' /\ Kept'
    BY <2>1, <2>2 DEF IInv, AloneEmpties, SameLines, Kept, Has, Parses
  <2> QED BY <2>3, <2>4 DEF IInv
<1>5. ASSUME UNCHANGED vars
      PROVE  IInv'
  BY <1>5 DEF vars, files, history, IInv, UpdateTypeOK, AloneEmpties, SameLines, Kept, Has, Parses,
              Active, Opened
<1> QED BY <1>1, <1>2, <1>3, <1>4, <1>5, OpenIInv, CloseIInv, KillIInv, PowerLossIInv
        DEF Next, Update

\* The invariant holds however the programs are interleaved and cut short.
THEOREM Invariance == Spec => []IInv
<1>1. IInv /\ [Next]_vars => IInv'
  BY NextIInv
<1> QED BY <1>1, InitIInv, PTL DEF Spec

-----------------------------------------------------------------------------
(* The properties.                                                         *)

\* An update nobody wrote in between leaves what it wrote.
THEOREM AloneHolds == Spec => UpdatesAloneHold
<1>1. IInv /\ [Next]_vars
        => [\A p \in Procs : CloseWrite(p) /\ alone[p] => file' = cfg[p]]_vars
  <2> SUFFICES ASSUME IInv, NEW p \in Procs, CloseWrite(p), alone[p]
               PROVE  file' = cfg[p]
    OBVIOUS
  <2>1. p \in Opened
    BY DEF CloseWrite, Opened
  <2>2. file = Empty
    BY <2>1 DEF IInv, AloneEmpties
  <2> QED BY <2>2, CloseLemma
<1> QED BY <1>1, Invariance, PTL DEF Spec, UpdatesAloneHold

\* A file that can be read holds, after every step, what it held before, what was
\* on the disk, or what one program wrote, but for an end that a loss of power cut.
THEOREM NeverMixed == Spec => NoMixture
<1> DEFINE Sources == ({file, disk} \cup {cfg[p] : p \in Procs}) \ {Broken, Missing}
           Unmixed == Parses(file') => \E whole \in Sources : BeginningOf(file', whole)
<1>1. IInv /\ [Next]_vars => [Unmixed]_vars
  <2> SUFFICES ASSUME IInv, Next PROVE Unmixed
    OBVIOUS
  <2>1. CASE UNCHANGED file
    BY <2>1, BeginningLemma DEF Parses
  <2>2. \A p \in Procs : cfg[p] \in Sources
    BY ContentAssumption DEF IInv, UpdateTypeOK
  <2>3. ASSUME NEW p \in Procs, OpenWrite(p)
        PROVE  Unmixed
    BY <2>2, <2>3, BeginningLemma DEF OpenWrite
  <2>4. ASSUME NEW p \in Procs, CloseWrite(p)
        PROVE  Unmixed
    BY <2>2, <2>4, BeginningLemma, CloseLemma
  <2>5. ASSUME PowerLoss
        PROVE  Unmixed
    BY <2>5, SurvivingLemma DEF PowerLoss
  <2> QED BY <2>1, <2>3, <2>4, <2>5
          DEF Next, Update, open_bim_system_cfg, read_bim_cfg, update_bim_cfg, Kill, WriteBack, files
<1> QED BY <1>1, Invariance, PTL DEF Spec, NoMixture

\* Updates alone cost no parameter.
THEOREM NothingForgotten == Spec => ParametersSurvive
<1>1. IInv /\ [Next]_vars
        => [\A p \in Procs, wanted \in (SUBSET intact) \ {{}} :
              read_bim_cfg(p, wanted) /\ (\A q \in Procs : pc[q] # "opened") => result'[1] = 0]_vars
  <2> SUFFICES ASSUME IInv, NEW p \in Procs, NEW wanted \in (SUBSET intact) \ {{}},
                      read_bim_cfg(p, wanted), \A q \in Procs : pc[q] # "opened"
               PROVE  result'[1] = 0
    OBVIOUS
  <2>1. \A i \in wanted : Has(file, i)
    BY DEF IInv, Kept, Opened
  <2>2. {i \in wanted : ~Has(file, i)} = {} /\ Parses(file)
    BY <2>1 DEF Has
  <2> DEFINE got == {i \in wanted : \A j \in {k \in wanted : ~Has(file, k)} : i < j}
  <2>3. result' = <<0, [i \in got |-> file[i]]>>
    BY <2>2 DEF read_bim_cfg, Return
  <2> QED BY <2>3
<1> QED BY <1>1, Invariance, PTL DEF Spec, ParametersSurvive

-----------------------------------------------------------------------------
(* The loader.  Numbers.                                                   *)

LEMMA Least ==
    ASSUME NEW n \in Nat, NEW B \in SUBSET (0 .. n), B # {}
    PROVE  \E k \in B : \A j \in B : k <= j
<1> DEFINE U == {1 .. k : k \in B}
<1>1. U \in SUBSET FiniteSubsetsOf(1 .. n) /\ U # {}
  <2>1. ASSUME NEW k \in B PROVE 1 .. k \in FiniteSubsetsOf(1 .. n)
    <3>1. (1 .. k) \subseteq (1 .. n) /\ IsFiniteSet(1 .. k)
      BY FS_Interval
    <3> QED BY <3>1 DEF FiniteSubsetsOf
  <2> QED BY <2>1
<1>2. PICK V \in U : \A W \in U : <<W, V>> \notin StrictSubsetOrdering(1 .. n)
  <2> HIDE DEF U
  <2> QED BY <1>1, FS_Interval, FS_StrictSubsetOrderingWellFounded, WFMin
<1>3. PICK k \in B : V = 1 .. k
  OBVIOUS
<1>4. ASSUME NEW j \in B, j < k PROVE FALSE
  <2>1. j \in 0 .. n /\ k \in 1 .. n
    BY <1>4
  <2>2. k \in 1 .. k /\ k \notin 1 .. j /\ 1 .. j \subseteq 1 .. k
    BY <1>4, <2>1
  <2>3. V \in SUBSET (1 .. n) /\ 1 .. j \in SUBSET (1 .. n) /\ 1 .. j \in U
    BY <2>1
  <2> QED BY <1>2, <1>3, <2>2, <2>3 DEF StrictSubsetOrdering
<1>5. \A j \in B : j \in Int /\ k \in Int
  OBVIOUS
<1> QED BY <1>4, <1>5

\* Induction up to n, for a property given by the set of the numbers that have it.
LEMMA UpTo ==
    ASSUME NEW n \in Nat, NEW T, 0 \in T, \A k \in 1 .. n : k - 1 \in T => k \in T
    PROVE  n \in T
<1> DEFINE B == {k \in 0 .. n : k \notin T}
<1> SUFFICES ASSUME B # {} PROVE FALSE
  OBVIOUS
<1>1. PICK k \in B : \A j \in B : k <= j
  BY Least
<1>2. k \in 1 .. n /\ k - 1 \in 0 .. n
  OBVIOUS
<1>3. k - 1 \notin B
  BY <1>1, <1>2
<1> QED BY <1>2, <1>3

\* So Min of the community modules returns it.
LEMMA MinIs ==
    ASSUME NEW n \in Nat, NEW B \in SUBSET (0 .. n), B # {}
    PROVE  Min(B) \in B /\ \A j \in B : Min(B) <= j
BY Least DEF Min

\* Max returns k from a set of numbers up to k that holds k.
LEMMA MaxIs ==
    ASSUME NEW k \in Nat, NEW s \in SUBSET (1 .. k), k \in s
    PROVE  Max(s) = k
<1>1. \A y \in s : k >= y
  OBVIOUS
<1>2. Max(s) \in s /\ \A y \in s : Max(s) >= y
  BY <1>1 DEF Max
<1>3. Max(s) \in 1 .. k
  BY <1>2
<1> QED BY <1>2, <1>3

\* The function that FoldLeft chooses.
ShiftStep(f, t, s) == IF s = {} THEN Start ELSE Shift(f[s \ {Max(s)}], t[Max(s)])

IsShifts(f, t, D) == f = [s \in SUBSET D |-> ShiftStep(f, t, s)]

\* The fold of Parsing is a recursive function on the sets of positions.
LEMMA ParsingIs ==
    ASSUME NEW t
    PROVE  Parsing(t) = (CHOOSE f : IsShifts(f, t, DOMAIN t))[DOMAIN t]
BY DEF Parsing, FoldLeft, MapThenFoldSet, IsShifts, ShiftStep

\* There is such a function: it is defined by the number of positions.
LEMMA ShiftsExist ==
    ASSUME NEW S, NEW t \in Seq(S)
    PROVE  \E f : IsShifts(f, t, DOMAIN t)
<1> DEFINE T == {k \in 0 .. Len(t) : \E f : IsShifts(f, t, 1 .. k)}
<1>1. Len(t) \in Nat /\ DOMAIN t = 1 .. Len(t)
  BY LenProperties
<1>2. 0 \in T
  <2> DEFINE f == [s \in SUBSET (1 .. 0) |-> Start]
  <2>1. IsShifts(f, t, 1 .. 0)
    BY DEF IsShifts, ShiftStep
  <2> QED BY <1>1, <2>1
<1>3. ASSUME NEW k \in 1 .. Len(t), k - 1 \in T PROVE k \in T
  <2>1. PICK f : IsShifts(f, t, 1 .. k - 1)
    BY <1>3
  <2> DEFINE g == [s \in SUBSET (1 .. k) |-> IF k \in s THEN Shift(f[s \ {k}], t[k]) ELSE f[s]]
  <2>2. ASSUME NEW s \in SUBSET (1 .. k) PROVE g[s] = ShiftStep(g, t, s)
    <3>1. CASE k \in s
      <4>1. Max(s) = k
        BY <1>1, <3>1, MaxIs
      <4>2. s \ {k} \in SUBSET (1 .. k) /\ k \notin s \ {k}
        OBVIOUS
      <4>3. g[s \ {k}] = f[s \ {k}]
        BY <4>2
      <4> QED BY <3>1, <4>1, <4>3 DEF ShiftStep
    <3>2. CASE k \notin s
      <4>1. s \in SUBSET (1 .. k - 1) /\ s \ {Max(s)} \in SUBSET (1 .. k) /\ k \notin s \ {Max(s)}
        <5>1. \A x \in s : x \in 1 .. k - 1
          BY <1>1, <3>2
        <5> QED BY <3>2, <5>1
      <4>2. f[s] = ShiftStep(f, t, s)
        BY <2>1, <4>1 DEF IsShifts
      <4>3. g[s \ {Max(s)}] = f[s \ {Max(s)}] /\ g[s] = f[s]
        BY <3>2, <4>1
      <4> HIDE DEF g
      <4> QED BY <4>2, <4>3, Zenon DEF ShiftStep
    <3> QED BY <3>1, <3>2
  <2>3. g = [s \in SUBSET (1 .. k) |-> g[s]]
    OBVIOUS
  <2> HIDE DEF g
  <2>4. g = [s \in SUBSET (1 .. k) |-> ShiftStep(g, t, s)]
    BY <2>2, <2>3
  <2> QED BY <2>4 DEF IsShifts
<1>4. Len(t) \in T
  <2> HIDE DEF T
  <2> QED BY <1>1, <1>2, <1>3, UpTo
<1> QED BY <1>1, <1>4

\* The states of the parser on its way through a text.
States(R, t) ==
    /\ R[0] = Start
    /\ \A k \in 1 .. Len(t) : R[k] = Shift(R[k - 1], t[k])
    /\ R[Len(t)] = Parsing(t)

\* A text has a sequence of states, one for every number of its tokens.
LEMMA ParserSteps ==
    ASSUME NEW S, NEW t \in Seq(S)
    PROVE  \E R : States(R, t)
<1>1. Len(t) \in Nat /\ DOMAIN t = 1 .. Len(t)
  BY LenProperties
<1>2. PICK f : f = (CHOOSE g : IsShifts(g, t, DOMAIN t))
  OBVIOUS
<1>3. IsShifts(f, t, 1 .. Len(t)) /\ Parsing(t) = f[1 .. Len(t)]
  BY <1>1, <1>2, ShiftsExist, ParsingIs
<1> DEFINE R == [k \in 0 .. Len(t) |-> f[1 .. k]]
<1>4. R[0] = Start
  <2>1. 1 .. 0 = {} /\ {} \in SUBSET (1 .. Len(t))
    BY <1>1
  <2> QED BY <1>1, <1>3, <2>1 DEF IsShifts, ShiftStep
<1>5. ASSUME NEW k \in 1 .. Len(t) PROVE R[k] = Shift(R[k - 1], t[k])
  <2>1. 1 .. k \in SUBSET (1 .. Len(t)) /\ k \in 1 .. k /\ k \in Nat
    BY <1>1
  <2>2. Max(1 .. k) = k
    BY <2>1, MaxIs
  <2>3. (1 .. k) \ {k} = 1 .. k - 1
    BY <2>1
  <2>4. f[1 .. k] = ShiftStep(f, t, 1 .. k)
    BY <1>3, <2>1 DEF IsShifts
  <2>5. f[1 .. k] = Shift(f[1 .. k - 1], t[k])
    BY <2>1, <2>2, <2>3, <2>4 DEF ShiftStep
  <2> QED BY <1>1, <2>5
<1>6. R[Len(t)] = Parsing(t)
  BY <1>1, <1>3
<1> HIDE DEF R
<1> QED BY <1>4, <1>5, <1>6 DEF States

\* The parser of an empty text is where it starts.
LEMMA ParsingEmpty == Parsing(<<>>) = Start
<1>1. <<>> \in Seq({}) /\ Len(<<>>) = 0
  BY EmptySeq
<1>2. PICK R : States(R, <<>>)
  BY <1>1, ParserSteps
<1> QED BY <1>1, <1>2 DEF States

\* One more token is one more Shift, the only thing the proofs need of the fold.
LEMMA ParsingAppend ==
    ASSUME NEW S, NEW t \in Seq(S), NEW x \in S
    PROVE  Parsing(Append(t, x)) = Shift(Parsing(t), x)
<1>1. PICK u : u = Append(t, x)
  OBVIOUS
<1>2. /\ u \in Seq(S) /\ Len(u) = Len(t) + 1 /\ Len(t) \in Nat
      /\ \A k \in 1 .. Len(t) : u[k] = t[k]
      /\ u[Len(t) + 1] = x
  BY <1>1, AppendProperties, LenProperties
<1>3. PICK R : States(R, t)
  BY ParserSteps
<1>4. PICK Q : States(Q, u)
  BY <1>2, ParserSteps
<1> DEFINE T == {k \in 0 .. Len(t) : Q[k] = R[k]}
<1>5. ASSUME NEW k \in 1 .. Len(t), k - 1 \in T PROVE k \in T
  BY <1>2, <1>3, <1>4, <1>5 DEF States
<1>6. Len(t) \in T
  <2>1. 0 \in T
    BY <1>2, <1>3, <1>4 DEF States
  <2> HIDE DEF T
  <2> QED BY <1>2, <1>5, <2>1, UpTo
<1>7. Q[Len(t) + 1] = Shift(Q[Len(t)], x)
  <2>1. Len(t) + 1 \in 1 .. Len(u) /\ Len(t) + 1 - 1 = Len(t)
    BY <1>2
  <2> QED BY <1>2, <1>4, <2>1 DEF States
<1> QED BY <1>1, <1>2, <1>3, <1>4, <1>6, <1>7 DEF States

\* What parseConfig may have loaded, parameter by parameter.
Grown(loads, p) == UNION {{l \o o : o \in Outcomes(p)} : l \in loads}

LoadStep(f, ps, s) == IF s = {} THEN {<<>>} ELSE Grown(f[s \ {Max(s)}], ps[Max(s)])

IsLoads(f, ps, D) == f = [s \in SUBSET D |-> LoadStep(f, ps, s)]

\* What Grown holds.
LEMMA GrownIs ==
    ASSUME NEW A, NEW p, NEW x \in Grown(A, p)
    PROVE  \E l \in A : \E o \in Outcomes(p) : x = l \o o
BY Zenon DEF Grown

\* The fold of Loads is a recursive function, as that of Parsing is.
LEMMA LoadsIs ==
    ASSUME NEW ps
    PROVE  Loads(ps) = (CHOOSE f : IsLoads(f, ps, DOMAIN ps))[DOMAIN ps]
BY DEF Loads, FoldLeft, MapThenFoldSet, IsLoads, LoadStep, Grown

\* There is such a function.
LEMMA LoadsExist ==
    ASSUME NEW S, NEW t \in Seq(S)
    PROVE  \E f : IsLoads(f, t, DOMAIN t)
<1> DEFINE T == {k \in 0 .. Len(t) : \E f : IsLoads(f, t, 1 .. k)}
<1>1. Len(t) \in Nat /\ DOMAIN t = 1 .. Len(t)
  BY LenProperties
<1>2. 0 \in T
  <2> DEFINE f == [s \in SUBSET (1 .. 0) |-> {<<>>}]
  <2>1. IsLoads(f, t, 1 .. 0)
    BY DEF IsLoads, LoadStep
  <2> QED BY <1>1, <2>1
<1>3. ASSUME NEW k \in 1 .. Len(t), k - 1 \in T PROVE k \in T
  <2>1. PICK f : IsLoads(f, t, 1 .. k - 1)
    BY <1>3
  <2> DEFINE g == [s \in SUBSET (1 .. k) |-> IF k \in s THEN Grown(f[s \ {k}], t[k]) ELSE f[s]]
  <2>2. ASSUME NEW s \in SUBSET (1 .. k) PROVE g[s] = LoadStep(g, t, s)
    <3>1. CASE k \in s
      <4>1. Max(s) = k
        BY <1>1, <3>1, MaxIs
      <4>2. s \ {k} \in SUBSET (1 .. k) /\ k \notin s \ {k}
        OBVIOUS
      <4>3. g[s \ {k}] = f[s \ {k}]
        BY <4>2
      <4> QED BY <3>1, <4>1, <4>3 DEF LoadStep
    <3>2. CASE k \notin s
      <4>1. s \in SUBSET (1 .. k - 1) /\ s \ {Max(s)} \in SUBSET (1 .. k) /\ k \notin s \ {Max(s)}
        <5>1. \A x \in s : x \in 1 .. k - 1
          BY <1>1, <3>2
        <5> QED BY <3>2, <5>1
      <4>2. f[s] = LoadStep(f, t, s)
        BY <2>1, <4>1 DEF IsLoads
      <4>3. g[s \ {Max(s)}] = f[s \ {Max(s)}] /\ g[s] = f[s]
        BY <3>2, <4>1
      <4> HIDE DEF g
      <4> QED BY <4>2, <4>3, Zenon DEF LoadStep
    <3> QED BY <3>1, <3>2
  <2>3. g = [s \in SUBSET (1 .. k) |-> g[s]]
    OBVIOUS
  <2> HIDE DEF g
  <2>4. g = [s \in SUBSET (1 .. k) |-> LoadStep(g, t, s)]
    BY <2>2, <2>3
  <2> QED BY <2>4 DEF IsLoads
<1>4. Len(t) \in T
  <2> HIDE DEF T
  <2> QED BY <1>1, <1>2, <1>3, UpTo
<1> QED BY <1>1, <1>4

\* One more parameter keeps a list of parameters one.
LEMMA GrownTyped ==
    ASSUME NEW P, \A q \in P : Param(q.name, NoVal) \in P, NEW A \in SUBSET Seq(P), NEW p \in P
    PROVE  Grown(A, p) \subseteq Seq(P)
<1>1. ASSUME NEW o \in Outcomes(p) PROVE o \in Seq(P)
  <2>1. <<>> \in Seq(P) /\ \A x \in P : <<x>> \in Seq(P)
    OBVIOUS
  <2> QED BY <2>1 DEF Outcomes
<1>2. ASSUME NEW x \in Grown(A, p) PROVE x \in Seq(P)
  <2>1. PICK l \in A : \E o \in Outcomes(p) : x = l \o o
    BY ONLY <1>2, GrownIs
  <2>2. PICK o \in Outcomes(p) : x = l \o o
    BY <2>1
  <2> QED BY <1>1, <2>2, ConcatProperties
<1> QED BY <1>2

\* What is loaded of parameters is a sequence of such, some of them without their
\* values.
LEMMA LoadsTyped ==
    ASSUME NEW P, \A q \in P : Param(q.name, NoVal) \in P, NEW t \in Seq(P)
    PROVE  Loads(t) \subseteq Seq(P)
<1>1. Len(t) \in Nat /\ DOMAIN t = 1 .. Len(t)
  BY LenProperties
<1>2. PICK f : f = (CHOOSE g : IsLoads(g, t, DOMAIN t))
  OBVIOUS
<1>3. IsLoads(f, t, 1 .. Len(t)) /\ Loads(t) = f[1 .. Len(t)]
  BY <1>1, <1>2, LoadsExist, LoadsIs
<1> DEFINE T == {k \in 0 .. Len(t) : f[1 .. k] \subseteq Seq(P)}
<1>4. 0 \in T
  <2>1. 1 .. 0 = {} /\ {} \in SUBSET (1 .. Len(t))
    BY <1>1
  <2>2. f[{}] = {<<>>}
    BY <1>3, <2>1 DEF IsLoads, LoadStep
  <2>3. <<>> \in Seq(P)
    OBVIOUS
  <2>4. f[1 .. 0] \subseteq Seq(P)
    BY <2>1, <2>2, <2>3
  <2>5. 0 \in 0 .. Len(t)
    BY <1>1
  <2> QED BY <2>4, <2>5
<1>5. ASSUME NEW k \in 1 .. Len(t), k - 1 \in T PROVE k \in T
  <2>1. 1 .. k \in SUBSET (1 .. Len(t)) /\ k \in 1 .. k /\ k \in Nat
    BY <1>1
  <2>2. Max(1 .. k) = k
    BY <2>1, MaxIs
  <2>3. (1 .. k) \ {k} = 1 .. k - 1
    BY <2>1
  <2>4. f[1 .. k] = LoadStep(f, t, 1 .. k)
    BY <1>3, <2>1 DEF IsLoads
  <2>5. f[1 .. k] = Grown(f[1 .. k - 1], t[k])
    BY <2>1, <2>2, <2>3, <2>4 DEF LoadStep
  <2>6. t[k] \in P
    BY ElementOfSeq
  <2>7. f[1 .. k - 1] \in SUBSET Seq(P)
    BY <1>5
  <2>10. f[1 .. k] \subseteq Seq(P)
    BY <2>5, <2>6, <2>7, GrownTyped, Zenon
  <2>11. k \in 0 .. Len(t)
    BY <1>1
  <2> QED BY <2>10, <2>11
<1>6. Len(t) \in T
  <2> HIDE DEF T
  <2> QED BY <1>1, <1>4, <1>5, UpTo
<1> QED BY <1>3, <1>6

-----------------------------------------------------------------------------
(* Writing.                                                                *)

\* A text that is put together of parts, part by part.
Flattens(G, ss) ==
    /\ G[0] = <<>>
    /\ \A k \in 1 .. Len(ss) : G[k] = G[k - 1] \o ss[k]
    /\ G[Len(ss)] = FlattenSeq(ss)

IsFlatten(f, ss, n) == f = [i \in 1 .. n |-> IF i = 1 THEN ss[i] ELSE f[i - 1] \o ss[i]]

\* FlattenSeq is a recursive function: there is one.
LEMMA FlattenExists ==
    ASSUME NEW S, NEW ss \in Seq(S)
    PROVE  \E f : IsFlatten(f, ss, Len(ss))
<1> DEFINE T == {k \in 0 .. Len(ss) : \E f : IsFlatten(f, ss, k)}
<1>1. Len(ss) \in Nat
  BY LenProperties
<1>2. 0 \in T
  <2> DEFINE f == [s \in 1 .. 0 |-> {}]
  <2>1. IsFlatten(f, ss, 0)
    BY DEF IsFlatten
  <2> QED BY <1>1, <2>1
<1>3. ASSUME NEW k \in 1 .. Len(ss), k - 1 \in T PROVE k \in T
  <2>1. PICK f : IsFlatten(f, ss, k - 1)
    BY <1>3
  <2> DEFINE g == [i \in 1 .. k |->
                    IF i = k THEN (IF i = 1 THEN ss[i] ELSE f[i - 1] \o ss[i]) ELSE f[i]]
  <2>2. ASSUME NEW i \in 1 .. k PROVE g[i] = IF i = 1 THEN ss[i] ELSE g[i - 1] \o ss[i]
    <3>1. i # 1 => g[i - 1] = f[i - 1]
      BY <1>1
    <3>2. ASSUME i # k PROVE f[i] = IF i = 1 THEN ss[i] ELSE f[i - 1] \o ss[i]
      <4>1. i \in 1 .. k - 1
        BY <1>1, <3>2
      <4> QED BY <2>1, <4>1, Zenon DEF IsFlatten
    <3>3. g[i] = IF i = k THEN (IF i = 1 THEN ss[i] ELSE f[i - 1] \o ss[i]) ELSE f[i]
      OBVIOUS
    <3> HIDE DEF g
    <3> QED BY <3>1, <3>2, <3>3
  <2>3. g = [i \in 1 .. k |-> g[i]]
    OBVIOUS
  <2> HIDE DEF g
  <2>4. g = [i \in 1 .. k |-> IF i = 1 THEN ss[i] ELSE g[i - 1] \o ss[i]]
    BY <2>2, <2>3
  <2>5. IsFlatten(g, ss, k)
    BY <2>4, Zenon DEF IsFlatten
  <2>6. k \in 0 .. Len(ss)
    BY <1>1
  <2> QED BY <2>5, <2>6
<1>4. Len(ss) \in T
  <2> HIDE DEF T
  <2> QED BY <1>1, <1>2, <1>3, UpTo
<1> QED BY <1>4

\* What the parts make together, one part after the other.
LEMMA FlattenSteps ==
    ASSUME NEW S, NEW ss \in Seq(Seq(S))
    PROVE  \E G \in [0 .. Len(ss) -> Seq(S)] : Flattens(G, ss)
<1>1. Len(ss) \in Nat /\ \A k \in 1 .. Len(ss) : ss[k] \in Seq(S)
  BY LenProperties, ElementOfSeq
<1>2. PICK f : f = CHOOSE g : IsFlatten(g, ss, Len(ss))
  OBVIOUS
<1>3. IsFlatten(f, ss, Len(ss))
  BY <1>2, FlattenExists
<1>4. FlattenSeq(ss) = IF Len(ss) = 0 THEN ss ELSE f[Len(ss)]
  BY <1>2 DEF FlattenSeq, IsFlatten
<1> DEFINE G == [k \in 0 .. Len(ss) |-> IF k = 0 THEN <<>> ELSE f[k]]
           T == {k \in 0 .. Len(ss) : G[k] \in Seq(S)}
<1>5. G[0] = <<>> /\ <<>> \in Seq(S)
  BY <1>1
<1>6. G[Len(ss)] = FlattenSeq(ss)
  BY <1>1, <1>4, EmptySeq
<1>7. ASSUME NEW k \in 1 .. Len(ss), k # 1 PROVE G[k] = G[k - 1] \o ss[k]
  <2>1. k - 1 \in 0 .. Len(ss) /\ k \in 0 .. Len(ss) /\ k - 1 # 0 /\ k # 0
    BY <1>1, <1>7
  <2>2. f[k] = f[k - 1] \o ss[k]
    BY <1>3, <1>7, Zenon DEF IsFlatten
  <2> QED BY <2>1, <2>2
<1>8. 1 \in 1 .. Len(ss) => G[1] = ss[1]
  BY <1>1, <1>3 DEF IsFlatten
<1>9. \A k \in 0 .. Len(ss) : G[k] = G[k]
  OBVIOUS
<1>10. G = [k \in 0 .. Len(ss) |-> G[k]]
  OBVIOUS
<1> HIDE DEF G
<1>11. ASSUME NEW k \in 1 .. Len(ss) PROVE G[k] = G[k - 1] \o ss[k]
  <2>1. 1 \in 1 .. Len(ss) => G[1] = G[1 - 1] \o ss[1]
    <3>1. 1 \in 1 .. Len(ss) => <<>> \o ss[1] = ss[1]
      BY <1>1, ConcatEmptySeq
    <3>2. 1 - 1 = 0
      OBVIOUS
    <3> QED BY <1>5, <1>8, <3>1, <3>2, Zenon
  <2>2. CASE k = 1
    BY <2>1, <2>2
  <2>3. CASE k # 1
    BY <1>7, <2>3
  <2> QED BY <2>2, <2>3
<1>12. \A k \in 0 .. Len(ss) : k \in T
  <2> SUFFICES ASSUME NEW n \in 0 .. Len(ss) PROVE n \in T
    OBVIOUS
  <2>1. n \in Nat /\ 0 \in 0 .. Len(ss)
    BY <1>1
  <2>2. 0 \in T
    BY <1>5, <2>1
  <2>3. ASSUME NEW k \in 1 .. n, k - 1 \in T PROVE k \in T
    <3>1. k \in 1 .. Len(ss) /\ k \in 0 .. Len(ss)
      BY <1>1
    <3>2. G[k - 1] \o ss[k] \in Seq(S)
      BY <1>1, <2>3, <3>1, ConcatProperties
    <3>3. G[k] \in Seq(S)
      BY <1>11, <3>1, <3>2
    <3> QED BY <3>1, <3>3
  <2> HIDE DEF T
  <2> QED BY <2>1, <2>2, <2>3, UpTo
<1>13. G \in [0 .. Len(ss) -> Seq(S)]
  BY <1>10, <1>12
<1> QED BY <1>5, <1>6, <1>11, <1>13 DEF Flattens

-----------------------------------------------------------------------------
(* Looking up.                                                             *)

Matches(i, name) == {j \in i .. Len(parm_list) : parm_list[j].name = name}

\* FirstFrom returns the first parameter of that name, or 0 when there is none.
LEMMA FirstFromIs ==
    ASSUME NEW S, parm_list \in Seq(S), NEW name, NEW i \in 1 .. Len(parm_list) + 1
    PROVE  LET m == FirstFrom(i, name) IN
           \/ m = 0 /\ Matches(i, name) = {}
           \/ m \in i .. Len(parm_list) /\ Matches(i, name) = {m} \cup Matches(m + 1, name)
<1> DEFINE found == {j \in i .. Len(parm_list) : parm_list[j].name = name}
<1>1. Len(parm_list) \in Nat
  BY LenProperties
<1>2. FirstFrom(i, name) = IF found = {} THEN 0 ELSE Min(found)
  BY DEF FirstFrom
<1>3. CASE found = {}
  BY <1>2, <1>3 DEF Matches
<1>4. CASE found # {}
  <2>1. PICK m : m = Min(found)
    OBVIOUS
  <2>2. found \in SUBSET (0 .. Len(parm_list))
    BY <1>1
  <2>3. m \in found /\ \A j \in found : m <= j
    <3> HIDE DEF found
    <3> QED BY <1>1, <1>4, <2>1, <2>2, MinIs
  <2>4. m \in i .. Len(parm_list) /\ parm_list[m].name = name
    BY <2>3
  <2>5. \A j \in found : j # m => j \in m + 1 .. Len(parm_list)
    BY <1>1, <2>3, <2>4
  <2>6. Matches(i, name) = {m} \cup Matches(m + 1, name)
    BY <1>1, <2>3, <2>4, <2>5 DEF Matches
  <2> QED BY <1>2, <1>4, <2>1, <2>4, <2>6
<1> QED BY <1>3, <1>4

IsWalk(w, name) ==
    w = [i \in 0 .. Len(parm_list) |-> IF i = 0 THEN {} ELSE {i} \cup w[lookupNextConfig(i, name)]]

\* What the walk from i comes to.
Walked(i, name) == IF i = 0 THEN {} ELSE {i} \cup Matches(i + 1, name)

\* lookupNextConfig goes on behind the parameter it is given.
LEMMA NextIs ==
    ASSUME NEW S, parm_list \in Seq(S), NEW name, NEW i \in 1 .. Len(parm_list)
    PROVE  LET m == lookupNextConfig(i, name) IN
           /\ m \in 0 .. Len(parm_list)
           /\ m # 0 => m > i
           /\ Walked(m, name) = Matches(i + 1, name)
<1>1. Len(parm_list) \in Nat
  BY LenProperties
<1>2. i + 1 \in 1 .. Len(parm_list) + 1
  BY <1>1
<1>3. PICK m : m = lookupNextConfig(i, name)
  OBVIOUS
<1>4. \/ m = 0 /\ Matches(i + 1, name) = {}
      \/ m \in i + 1 .. Len(parm_list) /\ Matches(i + 1, name) = {m} \cup Matches(m + 1, name)
  BY <1>2, <1>3, FirstFromIs DEF lookupNextConfig
<1>5. CASE m = 0 /\ Matches(i + 1, name) = {}
  BY <1>1, <1>3, <1>5 DEF Walked
<1>6. CASE m \in i + 1 .. Len(parm_list) /\ Matches(i + 1, name) = {m} \cup Matches(m + 1, name)
  <2>1. m \in 1 .. Len(parm_list) /\ m > i /\ m # 0
    BY <1>1, <1>6
  <2> QED BY <1>1, <1>3, <1>6, <2>1 DEF Walked
<1> QED BY <1>4, <1>5, <1>6

\* The function WalkVisitsAll walks with exists: each place refers to later ones only.
LEMMA WalkExists ==
    ASSUME NEW S, parm_list \in Seq(S), NEW name
    PROVE  \E w : IsWalk(w, name)
<1> DEFINE w == [i \in 0 .. Len(parm_list) |-> Walked(i, name)]
<1>1. ASSUME NEW i \in 0 .. Len(parm_list)
      PROVE  Walked(i, name) = IF i = 0 THEN {} ELSE {i} \cup w[lookupNextConfig(i, name)]
  <2>1. CASE i = 0
    BY <2>1 DEF Walked
  <2>2. CASE i # 0
    <3>1. i \in 1 .. Len(parm_list)
      BY <2>2, LenProperties
    <3>2. w[lookupNextConfig(i, name)] = Matches(i + 1, name)
      BY <3>1, NextIs
    <3> HIDE DEF w
    <3> QED BY <2>2, <3>2 DEF Walked
  <2> QED BY <2>1, <2>2
<1>2. \A i \in 0 .. Len(parm_list) : w[i] = Walked(i, name)
  OBVIOUS
<1>3. w = [i \in 0 .. Len(parm_list) |-> w[i]]
  OBVIOUS
<1> HIDE DEF w
<1>4. w = [i \in 0 .. Len(parm_list) |->
            IF i = 0 THEN {} ELSE {i} \cup w[lookupNextConfig(i, name)]]
  BY <1>1, <1>2, <1>3
<1> QED BY <1>4 DEF IsWalk

\* From any place, the walk visits that place and all later ones of the name.
LEMMA WalkIs ==
    ASSUME NEW S, parm_list \in Seq(S), NEW name, NEW w, IsWalk(w, name),
           NEW i \in 0 .. Len(parm_list)
    PROVE  w[i] = Walked(i, name)
<1> DEFINE n == Len(parm_list)
           T == {k \in 0 .. n : \A j \in 0 .. n : j > n - k => w[j] = Walked(j, name)}
<1>1. n \in Nat
  BY LenProperties
<1>2. w[0] = Walked(0, name)
  BY <1>1 DEF IsWalk, Walked
<1>3. 0 \in T
  BY <1>1
<1>4. ASSUME NEW k \in 1 .. n, k - 1 \in T PROVE k \in T
  <2>1. PICK j : j = n - k + 1
    OBVIOUS
  <2>2. j \in 1 .. n /\ j \in 0 .. n /\ j # 0
    BY <1>1, <2>1
  <2>3. PICK m : m = lookupNextConfig(j, name)
    OBVIOUS
  <2>4. m \in 0 .. n /\ (m # 0 => m > j) /\ Walked(m, name) = Matches(j + 1, name)
    BY <2>2, <2>3, NextIs
  <2>5. w[m] = Walked(m, name)
    <3>1. m # 0 => m > n - (k - 1)
      BY <1>1, <2>1, <2>2, <2>4
    <3> QED BY <1>2, <1>4, <2>4, <3>1
  <2>6. w[j] = {j} \cup w[m]
    BY <2>2, <2>3 DEF IsWalk
  <2>7. w[j] = Walked(j, name)
    BY <2>2, <2>4, <2>5, <2>6 DEF Walked
  <2>8. ASSUME NEW x \in 0 .. n, x > n - k PROVE w[x] = Walked(x, name)
    <3>1. x = j \/ x > n - (k - 1)
      BY <1>1, <2>1, <2>8
    <3> QED BY <1>4, <2>7, <3>1
  <2>9. k \in 0 .. n
    BY <1>1
  <2> QED BY <2>8, <2>9
<1>5. n \in T
  <2> HIDE DEF T, n
  <2> QED BY <1>1, <1>3, <1>4, UpTo
<1>6. i # 0 => i > n - n
  BY <1>1
<1> QED BY <1>2, <1>5, <1>6

\* From the first one, it visits them all.
LEMMA WalkComplete ==
    ASSUME NEW S, parm_list \in Seq(S)
    PROVE  WalkVisitsAll
<1> SUFFICES ASSUME NEW name \in Names
             PROVE  (CHOOSE w : IsWalk(w, name))[lookupConfig(name)]
                      = {i \in DOMAIN parm_list : parm_list[i].name = name}
  BY DEF WalkVisitsAll, IsWalk
<1>1. PICK w : w = CHOOSE v : IsWalk(v, name)
  OBVIOUS
<1>2. IsWalk(w, name)
  BY <1>1, WalkExists
<1>3. Len(parm_list) \in Nat /\ DOMAIN parm_list = 1 .. Len(parm_list)
  BY LenProperties
<1>4. PICK m : m = lookupConfig(name)
  OBVIOUS
<1>5. \/ m = 0 /\ Matches(1, name) = {}
      \/ m \in 1 .. Len(parm_list) /\ Matches(1, name) = {m} \cup Matches(m + 1, name)
  <2>1. 1 \in 1 .. Len(parm_list) + 1
    BY <1>3
  <2> QED BY <1>4, <2>1, FirstFromIs DEF lookupConfig
<1>6. m \in 0 .. Len(parm_list) /\ Walked(m, name) = Matches(1, name)
  <2>1. m \in 1 .. Len(parm_list) => m # 0 /\ m \in 0 .. Len(parm_list)
    BY <1>3
  <2> QED BY <1>3, <1>5, <2>1 DEF Walked
<1>7. w[m] = Walked(m, name)
  BY <1>2, <1>6, WalkIs
<1> QED BY <1>1, <1>3, <1>4, <1>6, <1>7 DEF Matches

-----------------------------------------------------------------------------
(* Reading.                                                                *)

\* The parser's state, by its parts.
State(expects, params, name, elements) ==
    [expects |-> expects, params |-> params, name |-> name, elements |-> elements]

\* The parts of a state of the parser.
LEMMA StateParts ==
    ASSUME NEW e, NEW ps, NEW n, NEW es
    PROVE  /\ State(e, ps, n, es).expects = e
           /\ State(e, ps, n, es).params = ps
           /\ State(e, ps, n, es).name = n
           /\ State(e, ps, n, es).elements = es
BY DEF State

\* Where the parser starts.
LEMMA StartIs == Start = State("name", <<>>, NoVal, <<>>)
BY DEF Start, State

\* The state after the last token of a parameter.
LEMMA CompleteIs ==
    ASSUME NEW e, NEW ps, NEW n, NEW es, NEW v
    PROVE  Complete(State(e, ps, n, es), v) = State("name", Append(ps, Param(n, v)), n, <<>>)
BY StateParts DEF Complete, State

\* The tokens that are values.
LEMMA LiteralTypes == DOMAIN Literals = {"STRING_LITERAL", "DECIMAL", "FLOAT", "BOOLEAN"}
BY DEF Literals

\* What the next token makes of a state that expects it.
LEMMA ShiftIs ==
    ASSUME NEW ps, NEW n, NEW es, NEW t
    PROVE  /\ t.type = "PARAMETER" =>
                Shift(State("name", ps, n, es), t) = State("assignment", ps, t.word, es)
           /\ t.type = "ASSIGNMENT" =>
                Shift(State("assignment", ps, n, es), t) = State("value", ps, n, es)
           /\ t.type = "LIST_OPEN" =>
                Shift(State("value", ps, n, es), t) = State("element", ps, n, es)
           /\ t.type \in DOMAIN Literals =>
                Shift(State("value", ps, n, es), t) =
                    State("name", Append(ps, Param(n, Literal(t))), n, <<>>)
           /\ t.type \in DOMAIN Literals =>
                Shift(State("element", ps, n, es), t) = State("more", ps, n, Append(es, Literal(t)))
           /\ t.type = "COMMA" => Shift(State("more", ps, n, es), t) = State("element", ps, n, es)
           /\ t.type = "LIST_CLOSE" =>
                Shift(State("more", ps, n, es), t) =
                    State("name", Append(ps, Param(n, Value("List", es))), n, <<>>)
<1>1. t.type = "PARAMETER" =>
        Shift(State("name", ps, n, es), t) = State("assignment", ps, t.word, es)
  BY StateParts DEF Shift, State
<1>2. t.type = "ASSIGNMENT" => Shift(State("assignment", ps, n, es), t) = State("value", ps, n, es)
  BY StateParts DEF Shift, State
<1>3. t.type = "LIST_OPEN" => Shift(State("value", ps, n, es), t) = State("element", ps, n, es)
  <2>1. t.type = "LIST_OPEN" =>
          Shift(State("value", ps, n, es), t)
            = [State("value", ps, n, es) EXCEPT !.expects = "element"]
    BY LiteralTypes, StateParts DEF Shift
  <2> QED BY <2>1 DEF State
<1>4. t.type \in DOMAIN Literals =>
        Shift(State("value", ps, n, es), t)
          = State("name", Append(ps, Param(n, Literal(t))), n, <<>>)
  <2>1. t.type \in DOMAIN Literals =>
          Shift(State("value", ps, n, es), t) = Complete(State("value", ps, n, es), Literal(t))
    BY LiteralTypes, StateParts DEF Shift
  <2> QED BY <2>1, CompleteIs
<1>5. t.type \in DOMAIN Literals =>
        Shift(State("element", ps, n, es), t) = State("more", ps, n, Append(es, Literal(t)))
  BY StateParts DEF Shift, State
<1>6. t.type = "COMMA" => Shift(State("more", ps, n, es), t) = State("element", ps, n, es)
  BY StateParts DEF Shift, State
<1>7. t.type = "LIST_CLOSE" =>
        Shift(State("more", ps, n, es), t)
          = State("name", Append(ps, Param(n, Value("List", es))), n, <<>>)
  <2>1. t.type = "LIST_CLOSE" =>
          Shift(State("more", ps, n, es), t) = Complete(State("more", ps, n, es), Value("List", es))
    BY StateParts DEF Shift
  <2> QED BY <2>1, CompleteIs
<1> QED BY <1>1, <1>2, <1>3, <1>4, <1>5, <1>6, <1>7

\* And of a state that does not.
LEMMA ShiftRejects ==
    ASSUME NEW e, NEW ps, NEW n, NEW es, NEW t,
           \/ e = "name" /\ t.type # "PARAMETER"
           \/ e = "assignment" /\ t.type # "ASSIGNMENT"
           \/ e = "value" /\ t.type \notin {"LIST_OPEN"} \cup DOMAIN Literals
           \/ e = "element" /\ t.type \notin DOMAIN Literals
           \/ e = "more" /\ t.type \notin {"COMMA", "LIST_CLOSE"}
           \/ e = "nothing"
    PROVE  Shift(State(e, ps, n, es), t) = State("nothing", ps, n, es)
<1>1. Shift(State(e, ps, n, es), t) = [State(e, ps, n, es) EXCEPT !.expects = "nothing"]
  BY StateParts DEF Shift
<1> QED BY <1>1 DEF State

\* What is left of a string with a quote in it is scanned as a name.
AllTokens == Tokens \cup [type : {"PARAMETER"}, word : DOMAIN Fragment]

\* The texts a file may have: it is only an error that follows such a name.
Scannable(t) ==
    /\ t \in Seq(AllTokens)
    /\ \A i \in 1 .. Len(t) :
         i < Len(t) /\ t[i].type = "PARAMETER" /\ t[i + 1].type = "ASSIGNMENT"
           => t[i].word \in Names

\* The values a file can have, as they are read.
ReadPrimitives ==
    [type : {"String"}, word : Strings \ DOMAIN Fragment]
    \cup [type : {"Float"}, word : Floats]
    \cup [type : {"Integer"}, word : Int]
    \cup [type : {"Boolean"}, word : {0, 1}]

ReadValues == ReadPrimitives \cup [type : {"List"}, word : Seq(ReadPrimitives) \ {<<>>}]

ReadParams == [name : Names, val : ReadValues]

ParserOK(p) ==
    /\ p = State(p.expects, p.params, p.name, p.elements)
    /\ p.expects \in {"name", "assignment", "value", "element", "more", "nothing"}
    /\ p.params \in Seq(ReadParams)
    /\ p.elements \in Seq(ReadPrimitives)
    /\ p.expects \in {"value", "element", "more"} => p.name \in Names
    /\ p.expects = "more" => p.elements # <<>>

\* A literal is a value the parser can return.
LEMMA LiteralTyped ==
    ASSUME NEW t \in AllTokens, t.type \in DOMAIN Literals
    PROVE  Literal(t) \in ReadPrimitives
<1>1. DOMAIN Literals = {"STRING_LITERAL", "DECIMAL", "FLOAT", "BOOLEAN"}
  BY DEF Literals
<1>2. /\ Literals["STRING_LITERAL"] = "String" /\ Literals["DECIMAL"] = "Integer"
      /\ Literals["FLOAT"] = "Float" /\ Literals["BOOLEAN"] = "Boolean"
  BY DEF Literals
<1>3. Literal(t) = [type |-> Literals[t.type], word |-> t.word]
  BY DEF Literal, Value
<1>4. CASE t.type = "STRING_LITERAL"
  <2>1. t.word \in Strings \ DOMAIN Fragment
    BY <1>4 DEF AllTokens, Tokens, Mark, Token
  <2> QED BY <1>2, <1>3, <1>4, <2>1 DEF ReadPrimitives
<1>5. CASE t.type = "DECIMAL"
  <2>1. t.word \in Int
    BY <1>5 DEF AllTokens, Tokens, Mark, Token
  <2> QED BY <1>2, <1>3, <1>5, <2>1 DEF ReadPrimitives
<1>6. CASE t.type = "FLOAT"
  <2>1. t.word \in Floats
    BY <1>6 DEF AllTokens, Tokens, Mark, Token
  <2> QED BY <1>2, <1>3, <1>6, <2>1 DEF ReadPrimitives
<1>7. CASE t.type = "BOOLEAN"
  <2>1. t.word \in {0, 1}
    BY <1>7 DEF AllTokens, Tokens, Mark, Token
  <2> QED BY <1>2, <1>3, <1>7, <2>1 DEF ReadPrimitives
<1> QED BY <1>1, <1>4, <1>5, <1>6, <1>7

\* When a state keeps what ParserOK says.
LEMMA StateOK ==
    ASSUME NEW e \in {"name", "assignment", "value", "element", "more", "nothing"},
           NEW ps \in Seq(ReadParams), NEW n, NEW es \in Seq(ReadPrimitives),
           e \in {"value", "element", "more"} => n \in Names,
           e = "more" => es # <<>>
    PROVE  ParserOK(State(e, ps, n, es))
BY StateParts DEF ParserOK

\* A parameter that is complete keeps it.
LEMMA CompleteOK ==
    ASSUME NEW ps \in Seq(ReadParams), NEW n \in Names, NEW v \in ReadValues
    PROVE  ParserOK(State("name", Append(ps, Param(n, v)), n, <<>>))
<1>1. Param(n, v) \in ReadParams
  BY DEF Param, ReadParams
<1>2. Append(ps, Param(n, v)) \in Seq(ReadParams)
  BY <1>1, AppendProperties
<1>3. <<>> \in Seq(ReadPrimitives)
  BY EmptySeq
<1> QED BY <1>2, <1>3, StateOK

\* One token keeps the parser in its types.
LEMMA ShiftOK ==
    ASSUME NEW p, ParserOK(p), NEW t \in AllTokens,
           p.expects = "assignment" /\ t.type = "ASSIGNMENT" => p.name \in Names
    PROVE  ParserOK(Shift(p, t))
<1> DEFINE e == p.expects
           ps == p.params
           n == p.name
           es == p.elements
<1>0. /\ p = State(e, ps, n, es) /\ ps \in Seq(ReadParams) /\ es \in Seq(ReadPrimitives)
      /\ e \in {"name", "assignment", "value", "element", "more", "nothing"}
      /\ e \in {"value", "element", "more"} => n \in Names
      /\ e = "more" => es # <<>>
      /\ e = "assignment" /\ t.type = "ASSIGNMENT" => n \in Names
  BY DEF ParserOK
<1> HIDE DEF e, ps, n, es
<1>1. CASE e = "name" /\ t.type = "PARAMETER"
  <2>1. Shift(p, t) = State("assignment", ps, t.word, es)
    BY <1>0, <1>1, ShiftIs
  <2> QED BY <1>0, <2>1, StateOK
<1>2. CASE e = "assignment" /\ t.type = "ASSIGNMENT"
  <2>1. Shift(p, t) = State("value", ps, n, es)
    BY <1>0, <1>2, ShiftIs
  <2> QED BY <1>0, <1>2, <2>1, StateOK
<1>3. CASE e = "value" /\ t.type = "LIST_OPEN"
  <2>1. Shift(p, t) = State("element", ps, n, es)
    BY <1>0, <1>3, ShiftIs
  <2> QED BY <1>0, <1>3, <2>1, StateOK
<1>4. CASE e = "value" /\ t.type \in DOMAIN Literals
  <2>1. Literal(t) \in ReadValues
    BY <1>4, LiteralTyped DEF ReadValues
  <2>2. Shift(p, t) = State("name", Append(ps, Param(n, Literal(t))), n, <<>>)
    BY <1>0, <1>4, ShiftIs
  <2>3. n \in Names
    BY <1>0, <1>4
  <2> QED BY <1>0, <2>1, <2>2, <2>3, CompleteOK
<1>5. CASE e = "element" /\ t.type \in DOMAIN Literals
  <2>1. Literal(t) \in ReadPrimitives
    BY <1>5, LiteralTyped
  <2>2. Append(es, Literal(t)) \in Seq(ReadPrimitives) /\ Append(es, Literal(t)) # <<>>
    BY <1>0, <2>1, AppendProperties
  <2>3. Shift(p, t) = State("more", ps, n, Append(es, Literal(t)))
    BY <1>0, <1>5, ShiftIs
  <2> QED BY <1>0, <1>5, <2>2, <2>3, StateOK
<1>6. CASE e = "more" /\ t.type = "COMMA"
  <2>1. Shift(p, t) = State("element", ps, n, es)
    BY <1>0, <1>6, ShiftIs
  <2> QED BY <1>0, <1>6, <2>1, StateOK
<1>7. CASE e = "more" /\ t.type = "LIST_CLOSE"
  <2>1. es \in Seq(ReadPrimitives) \ {<<>>} /\ n \in Names
    BY <1>0, <1>7
  <2>2. Value("List", es) \in ReadValues
    BY <2>1 DEF Value, ReadValues
  <2>3. Shift(p, t) = State("name", Append(ps, Param(n, Value("List", es))), n, <<>>)
    BY <1>0, <1>7, ShiftIs
  <2> QED BY <1>0, <2>1, <2>2, <2>3, CompleteOK
<1>8. CASE \/ e = "name" /\ t.type # "PARAMETER"
           \/ e = "assignment" /\ t.type # "ASSIGNMENT"
           \/ e = "value" /\ t.type \notin {"LIST_OPEN"} \cup DOMAIN Literals
           \/ e = "element" /\ t.type \notin DOMAIN Literals
           \/ e = "more" /\ t.type \notin {"COMMA", "LIST_CLOSE"}
           \/ e = "nothing"
  <2>1. Shift(p, t) = State("nothing", ps, n, es)
    BY <1>0, <1>8, ShiftRejects
  <2> QED BY <1>0, <2>1, StateOK
<1> QED BY <1>0, <1>1, <1>2, <1>3, <1>4, <1>5, <1>6, <1>7, <1>8

\* Only a name leads to where an equals sign is awaited.
LEMMA ShiftToAssignment ==
    ASSUME NEW p, ParserOK(p), NEW t \in AllTokens, Shift(p, t).expects = "assignment"
    PROVE  t.type = "PARAMETER" /\ Shift(p, t).name = t.word
<1> DEFINE e == p.expects
           ps == p.params
           n == p.name
           es == p.elements
<1>0. /\ p = State(e, ps, n, es)
      /\ e \in {"name", "assignment", "value", "element", "more", "nothing"}
  BY DEF ParserOK
<1> HIDE DEF e, ps, n, es
<1>1. CASE e = "name" /\ t.type = "PARAMETER"
  <2>1. Shift(p, t) = State("assignment", ps, t.word, es)
    BY <1>0, <1>1, ShiftIs
  <2> QED BY <1>1, <2>1, StateParts
<1>2. CASE \/ e = "assignment" /\ t.type = "ASSIGNMENT"
           \/ e = "value" /\ t.type \in {"LIST_OPEN"} \cup DOMAIN Literals
           \/ e = "element" /\ t.type \in DOMAIN Literals
           \/ e = "more" /\ t.type \in {"COMMA", "LIST_CLOSE"}
  <2>1. Shift(p, t).expects \in {"value", "name", "element", "more"}
    BY <1>0, <1>2, ShiftIs, StateParts
  <2> QED BY <2>1
<1>3. CASE \/ e = "name" /\ t.type # "PARAMETER"
           \/ e = "assignment" /\ t.type # "ASSIGNMENT"
           \/ e = "value" /\ t.type \notin {"LIST_OPEN"} \cup DOMAIN Literals
           \/ e = "element" /\ t.type \notin DOMAIN Literals
           \/ e = "more" /\ t.type \notin {"COMMA", "LIST_CLOSE"}
           \/ e = "nothing"
  <2>1. Shift(p, t) = State("nothing", ps, n, es)
    BY <1>0, <1>3, ShiftRejects
  <2> QED BY <2>1, StateParts
<1> QED BY <1>0, <1>1, <1>2, <1>3

\* The state after k tokens, and what it is to be after a name.
Read(t, R, k) ==
    /\ ParserOK(R[k])
    /\ R[k].expects = "assignment" =>
         k > 0 /\ t[k].type = "PARAMETER" /\ R[k].name = t[k].word

\* A text that the scanner can return keeps the parser in its types.
LEMMA ParsingOK ==
    ASSUME NEW t, Scannable(t)
    PROVE  ParserOK(Parsing(t))
<1>1. t \in Seq(AllTokens) /\ Len(t) \in Nat
  BY LenProperties DEF Scannable
<1>2. PICK R : States(R, t)
  BY <1>1, ParserSteps
<1> DEFINE T == {k \in 0 .. Len(t) : Read(t, R, k)}
<1>3. 0 \in T
  <2>1. R[0] = State("name", <<>>, NoVal, <<>>)
    BY <1>2, StartIs DEF States
  <2>2. <<>> \in Seq(ReadParams) /\ <<>> \in Seq(ReadPrimitives)
    BY EmptySeq
  <2>5. ParserOK(State("name", <<>>, NoVal, <<>>))
    BY <2>2, StateOK
  <2>3. ParserOK(R[0]) /\ R[0].expects = "name"
    BY <2>1, <2>5, StateParts
  <2>4. 0 \in 0 .. Len(t) /\ Read(t, R, 0)
    BY <1>1, <2>3 DEF Read
  <2> QED BY <2>4
<1>4. ASSUME NEW k \in 1 .. Len(t), k - 1 \in T PROVE k \in T
  <2>0. Read(t, R, k - 1)
    BY <1>4
  <2> HIDE DEF T
  <2>1. t[k] \in AllTokens /\ k \in 0 .. Len(t) /\ k > 0
    BY <1>1, ElementOfSeq
  <2>5. R[k] = Shift(R[k - 1], t[k]) /\ ParserOK(R[k - 1])
    BY <1>2, <2>0 DEF States, Read
  <2>2. ASSUME R[k - 1].expects = "assignment", t[k].type = "ASSIGNMENT"
        PROVE R[k - 1].name \in Names
    <3>1. k - 1 \in 1 .. Len(t) /\ k - 1 < Len(t) /\ k - 1 + 1 = k
      BY <1>1, <2>0, <2>2 DEF Read
    <3>2. t[k - 1].word \in Names
      BY <2>0, <2>2, <3>1 DEF Scannable, Read
    <3> QED BY <2>0, <2>2, <3>2 DEF Read
  <2>3. ParserOK(R[k])
    BY <2>1, <2>2, <2>5, ShiftOK
  <2>4. ASSUME R[k].expects = "assignment" PROVE t[k].type = "PARAMETER" /\ R[k].name = t[k].word
    BY <2>1, <2>5, <2>4, ShiftToAssignment
  <2>6. Read(t, R, k)
    BY <2>1, <2>3, <2>4 DEF Read
  <2> QED BY <2>1, <2>6 DEF T
<1>5. Len(t) \in T
  <2> HIDE DEF T
  <2> QED BY <1>1, <1>3, <1>4, UpTo
<1>6. Read(t, R, Len(t))
  BY <1>5
<1> QED BY <1>2, <1>6 DEF States, Read

-----------------------------------------------------------------------------
(* What is written.                                                        *)

\* Some tokens.
LEMMA TokensIn ==
    /\ \A n \in Names \cup DOMAIN Fragment : Token("PARAMETER", n) \in AllTokens
    /\ \A s \in Strings \ DOMAIN Fragment : Token("STRING_LITERAL", s) \in AllTokens
    /\ \A n \in Int : Token("DECIMAL", n) \in AllTokens
    /\ \A f \in Floats : Token("FLOAT", f) \in AllTokens
    /\ \A b \in {0, 1} : Token("BOOLEAN", b) \in AllTokens
    /\ \A type \in {"ASSIGNMENT", "COMMA", "LIST_OPEN", "LIST_CLOSE", "OPEN_COMMENT"} :
         Mark(type) \in AllTokens
<1>1. \A n \in Names \cup DOMAIN Fragment : Token("PARAMETER", n) \in AllTokens
  BY DEF Token, AllTokens, Tokens
<1>2. \A s \in Strings \ DOMAIN Fragment : Token("STRING_LITERAL", s) \in AllTokens
  BY DEF Token, AllTokens, Tokens
<1>3. \A n \in Int : Token("DECIMAL", n) \in AllTokens
  BY DEF Token, AllTokens, Tokens
<1>4. \A f \in Floats : Token("FLOAT", f) \in AllTokens
  BY DEF Token, AllTokens, Tokens
<1>5. \A b \in {0, 1} : Token("BOOLEAN", b) \in AllTokens
  BY DEF Token, AllTokens, Tokens
<1>6. \A type \in {"ASSIGNMENT", "COMMA", "LIST_OPEN", "LIST_CLOSE", "OPEN_COMMENT"} :
         Mark(type) \in AllTokens
  BY DEF AllTokens, Tokens
<1> QED BY <1>1, <1>2, <1>3, <1>4, <1>5, <1>6

\* A literal, and what it is read as.
IsLiteral(x) == x \in AllTokens /\ x.type \in DOMAIN Literals

\* The values of the literals that are written.
LEMMA LiteralIs ==
    /\ \A w : Literal(Token("STRING_LITERAL", w)) = Value("String", w)
    /\ \A w : Literal(Token("DECIMAL", w)) = Value("Integer", w)
    /\ \A w : Literal(Token("FLOAT", w)) = Value("Float", w)
    /\ \A w : Literal(Token("BOOLEAN", w)) = Value("Boolean", w)
BY DEF Literal, Token, Literals

\* A value is one of a String, a Float, an Integer and a Boolean.
LEMMA PrimitiveIs ==
    ASSUME NEW v \in Primitives
    PROVE  /\ v = Value(v.type, v.word)
           /\ v.type \in {"String", "Float", "Integer", "Boolean"}
           /\ v.type = "String" => v.word \in Strings
           /\ v.type = "Float" => v.word \in Floats
           /\ v.type \in {"Integer", "Boolean"} => v.word \in Int
BY DEF Primitives, Value

\* A value is printed as one token, which is read as its normal form; but a
\* string with a quote in it as two, the second of them a name.
LEMMA WriteValueIs ==
    ASSUME NEW v \in Primitives
    PROVE  \E x \in AllTokens :
             /\ IsLiteral(x)
             /\ Quotable(v) => writeValue(v) = <<x>> /\ Literal(x) = NormalValue(v)
             /\ ~Quotable(v) =>
                  \E y \in AllTokens : y.type = "PARAMETER" /\ writeValue(v) = <<x, y>>
<1>1. CASE v.type = "Boolean"
  <2>1. PICK b \in {0, 1} : b = IF v.word = 0 THEN 0 ELSE 1
    OBVIOUS
  <2>2. writeValue(v) = <<Token("BOOLEAN", b)>> /\ NormalValue(v) = Value("Boolean", b)
          /\ Quotable(v)
    BY <1>1, <2>1 DEF writeValue, NormalValue, Quotable
  <2>3. IsLiteral(Token("BOOLEAN", b))
    BY TokensIn, LiteralTypes DEF IsLiteral, Token
  <2> QED BY <2>2, <2>3, LiteralIs, TokensIn
<1>2. CASE v.type = "Integer"
  <2>1. Abs(v.word) \in Int
    BY <1>2, PrimitiveIs DEF Abs
  <2>2. writeValue(v) = <<Token("DECIMAL", Abs(v.word))>>
          /\ NormalValue(v) = Value("Integer", Abs(v.word)) /\ Quotable(v)
    BY <1>2 DEF writeValue, NormalValue, Quotable
  <2>3. IsLiteral(Token("DECIMAL", Abs(v.word)))
    BY <2>1, TokensIn, LiteralTypes DEF IsLiteral, Token
  <2> QED BY <2>1, <2>2, <2>3, LiteralIs, TokensIn
<1>3. CASE v.type = "Float"
  <2>1. Printed[v.word] \in Floats
    BY <1>3, PrimitiveIs, TextAssumption
  <2>2. writeValue(v) = <<Token("FLOAT", Printed[v.word])>>
          /\ NormalValue(v) = Value("Float", Printed[v.word]) /\ Quotable(v)
    BY <1>3 DEF writeValue, NormalValue, Quotable
  <2>3. IsLiteral(Token("FLOAT", Printed[v.word]))
    BY <2>1, TokensIn, LiteralTypes DEF IsLiteral, Token
  <2> QED BY <2>1, <2>2, <2>3, LiteralIs, TokensIn
<1>4. CASE v.type = "String" /\ v.word \notin DOMAIN Fragment
  <2>1. v.word \in Strings \ DOMAIN Fragment
    BY <1>4, PrimitiveIs
  <2>2. writeValue(v) = <<Token("STRING_LITERAL", v.word)>>
          /\ NormalValue(v) = Value("String", v.word) /\ Quotable(v)
    BY <1>4, PrimitiveIs DEF writeValue, NormalValue, Quotable
  <2>3. IsLiteral(Token("STRING_LITERAL", v.word))
    BY <2>1, TokensIn, LiteralTypes DEF IsLiteral, Token
  <2> QED BY <2>1, <2>2, <2>3, LiteralIs, TokensIn
<1>5. CASE v.type = "String" /\ v.word \in DOMAIN Fragment
  <2>1. Fragment[v.word] \in Strings \ DOMAIN Fragment
    BY <1>5, TextAssumption
  <2>2. /\ writeValue(v) = <<Token("STRING_LITERAL", Fragment[v.word]), Token("PARAMETER", v.word)>>
        /\ ~Quotable(v)
    BY <1>5 DEF writeValue, Quotable
  <2>3. IsLiteral(Token("STRING_LITERAL", Fragment[v.word]))
    BY <2>1, TokensIn, LiteralTypes DEF IsLiteral, Token
  <2>4. Token("PARAMETER", v.word) \in AllTokens /\ Token("PARAMETER", v.word).type = "PARAMETER"
    BY <1>5, TokensIn DEF Token
  <2> QED BY <2>1, <2>2, <2>3, <2>4, TokensIn
<1> QED BY <1>1, <1>2, <1>3, <1>4, <1>5, PrimitiveIs

\* Texts without tokens of some types.
Lacks(s, types) == s \in Seq(AllTokens) /\ \A i \in 1 .. Len(s) : s[i].type \notin types

\* One token.
LEMMA TokenLacks ==
    ASSUME NEW types, NEW x \in AllTokens, x.type \notin types
    PROVE  Lacks(<<x>>, types)
<1>1. <<x>> \in Seq(AllTokens) /\ Len(<<x>>) = 1 /\ <<x>>[1] = x
  OBVIOUS
<1> QED BY <1>1 DEF Lacks

\* Two parts.
LEMMA ConcatLacks ==
    ASSUME NEW types, NEW a, NEW b, Lacks(a, types), Lacks(b, types)
    PROVE  Lacks(a \o b, types)
<1>1. a \in Seq(AllTokens) /\ b \in Seq(AllTokens) /\ Len(a) \in Nat /\ Len(b) \in Nat
  BY LenProperties DEF Lacks
<1>2. /\ a \o b \in Seq(AllTokens) /\ Len(a \o b) = Len(a) + Len(b)
      /\ \A i \in 1 .. Len(a) + Len(b) : (a \o b)[i] = IF i <= Len(a) THEN a[i] ELSE b[i - Len(a)]
  BY <1>1, ConcatProperties
<1>3. PICK c : c = a \o b
  OBVIOUS
<1>4. ASSUME NEW i \in 1 .. Len(c) PROVE c[i].type \notin types
  <2>1. i <= Len(a) => i \in 1 .. Len(a)
    BY <1>1, <1>2, <1>3
  <2>2. i > Len(a) => i - Len(a) \in 1 .. Len(b)
    BY <1>1, <1>2, <1>3
  <2>3. c[i] = IF i <= Len(a) THEN a[i] ELSE b[i - Len(a)]
    BY <1>2, <1>3
  <2> QED BY <1>1, <2>1, <2>2, <2>3 DEF Lacks
<1> QED BY <1>2, <1>3, <1>4 DEF Lacks

\* What is neither in a value nor in the elements of a list.
Ends == {"ASSIGNMENT", "LIST_CLOSE"}

\* A part without both has none of either.
LEMMA LacksLess ==
    ASSUME NEW s, Lacks(s, Ends)
    PROVE  Lacks(s, {"ASSIGNMENT"})
BY DEF Lacks, Ends

\* What is written of a value ends no list and begins no parameter.
LEMMA ValueLacks ==
    ASSUME NEW v \in Primitives
    PROVE  Lacks(writeValue(v), Ends)
<1>1. PICK x \in AllTokens :
             /\ IsLiteral(x)
             /\ Quotable(v) => writeValue(v) = <<x>> /\ Literal(x) = NormalValue(v)
             /\ ~Quotable(v) =>
                  \E y \in AllTokens : y.type = "PARAMETER" /\ writeValue(v) = <<x, y>>
  BY WriteValueIs
<1>2. Lacks(<<x>>, Ends)
  BY <1>1, LiteralTypes, TokenLacks DEF IsLiteral, Ends
<1>3. ASSUME ~Quotable(v) PROVE Lacks(writeValue(v), Ends)
  <2>1. PICK y \in AllTokens : y.type = "PARAMETER" /\ writeValue(v) = <<x, y>>
    BY <1>1, <1>3
  <2>2. Lacks(<<y>>, Ends) /\ <<x, y>> = <<x>> \o <<y>>
    BY <2>1, TokenLacks DEF Ends
  <2> QED BY <1>2, <2>1, <2>2, ConcatLacks
<1> QED BY <1>1, <1>2, <1>3

\* One element of a list, as it is written.
Element(vs, i) == writeValue(vs[i]) \o (IF i < Len(vs) THEN <<Mark("COMMA")>> ELSE <<>>)

\* Nor does an element with its comma.
LEMMA ElementLacks ==
    ASSUME NEW vs \in Seq(Primitives), NEW i \in 1 .. Len(vs)
    PROVE  Lacks(Element(vs, i), Ends)
<1>1. Lacks(<<Mark("COMMA")>>, Ends)
  BY TokensIn, TokenLacks DEF Mark, Token, Ends
<1>2. Lacks(<<>>, Ends)
  BY EmptySeq DEF Lacks
<1>3. Lacks(writeValue(vs[i]), Ends)
  BY ElementOfSeq, ValueLacks
<1> QED BY <1>1, <1>2, <1>3, ConcatLacks DEF Element

\* A list is written element by element.
LEMMA ListSteps ==
    ASSUME NEW vs \in Seq(Primitives)
    PROVE  \E G \in [0 .. Len(vs) -> Seq(AllTokens)] :
             /\ G[0] = <<>> /\ G[Len(vs)] = writeList(vs)
             /\ \A k \in 1 .. Len(vs) : G[k] = G[k - 1] \o Element(vs, k)
<1>1. Len(vs) \in Nat /\ DOMAIN vs = 1 .. Len(vs)
  BY LenProperties
<1>2. PICK ss : ss = [i \in 1 .. Len(vs) |-> Element(vs, i)]
  OBVIOUS
<1>3. ss \in Seq(Seq(AllTokens)) /\ Len(ss) = Len(vs)
  <2>1. \A i \in 1 .. Len(vs) : Element(vs, i) \in Seq(AllTokens)
    BY ElementLacks DEF Lacks
  <2> QED BY <1>1, <1>2, <2>1
<1>4. writeList(vs) = FlattenSeq(ss)
  BY <1>1, <1>2 DEF writeList, Element
<1>5. PICK G \in [0 .. Len(vs) -> Seq(AllTokens)] : Flattens(G, ss)
  BY <1>3, FlattenSteps
<1>6. \A k \in 1 .. Len(vs) : G[k] = G[k - 1] \o Element(vs, k)
  BY <1>2, <1>3, <1>5 DEF Flattens
<1> QED BY <1>3, <1>4, <1>5, <1>6 DEF Flattens

\* Nor do the elements of a list.
LEMMA ListLacks ==
    ASSUME NEW vs \in Seq(Primitives)
    PROVE  Lacks(writeList(vs), Ends)
<1>1. Len(vs) \in Nat
  BY LenProperties
<1>2. PICK G \in [0 .. Len(vs) -> Seq(AllTokens)] :
             /\ G[0] = <<>> /\ G[Len(vs)] = writeList(vs)
             /\ \A k \in 1 .. Len(vs) : G[k] = G[k - 1] \o Element(vs, k)
  BY ListSteps
<1> DEFINE T == {k \in 0 .. Len(vs) : Lacks(G[k], Ends)}
<1>3. 0 \in T
  BY <1>1, <1>2, EmptySeq DEF Lacks
<1>4. ASSUME NEW k \in 1 .. Len(vs), k - 1 \in T PROVE k \in T
  <2>1. Lacks(G[k - 1], Ends) /\ k \in 0 .. Len(vs) /\ G[k] = G[k - 1] \o Element(vs, k)
    BY <1>1, <1>2, <1>4
  <2>2. Lacks(G[k], Ends)
    BY <2>1, ElementLacks, ConcatLacks
  <2> QED BY <2>1, <2>2
<1>5. Len(vs) \in T
  <2> HIDE DEF T
  <2> QED BY <1>1, <1>3, <1>4, UpTo
<1> QED BY <1>2, <1>5

\* What is written of the value of a parameter.
Rest(p) ==
    IF p.val.type = "List"
    THEN <<Mark("LIST_OPEN")>> \o writeList(p.val.word) \o <<Mark("LIST_CLOSE")>>
    ELSE writeValue(p.val)

\* Parameters that can be written.
Writables == [name : Names, val : ParamValues]

\* A value that is no list is a primitive one.
LEMMA ParamValueIs ==
    ASSUME NEW v \in ParamValues
    PROVE  /\ v.type = "List" => v.word \in Seq(Primitives) /\ v = Value("List", v.word)
           /\ v.type # "List" => v \in Primitives
BY PrimitiveIs DEF ParamValues, Value

\* What is written of a parameter behind its equals sign has no equals sign.
LEMMA RestLacks ==
    ASSUME NEW p \in Writables
    PROVE  Lacks(Rest(p), {"ASSIGNMENT"})
<1>1. p.val \in ParamValues
  BY DEF Writables
<1>2. CASE p.val.type = "List"
  <2>1. Lacks(writeList(p.val.word), {"ASSIGNMENT"})
    BY <1>1, <1>2, ParamValueIs, ListLacks, LacksLess
  <2>2. Lacks(<<Mark("LIST_OPEN")>>, {"ASSIGNMENT"})
          /\ Lacks(<<Mark("LIST_CLOSE")>>, {"ASSIGNMENT"})
    BY TokensIn, TokenLacks DEF Mark, Token
  <2>3. Lacks(<<Mark("LIST_OPEN")>> \o writeList(p.val.word), {"ASSIGNMENT"})
    BY <2>1, <2>2, ConcatLacks
  <2> QED BY <1>2, <2>2, <2>3, ConcatLacks DEF Rest
<1>3. CASE p.val.type # "List"
  BY <1>1, <1>3, ParamValueIs, ValueLacks, LacksLess DEF Rest
<1> QED BY <1>2, <1>3

\* One parameter, as it is written.
LEMMA WriteParameterIs ==
    ASSUME NEW p \in Writables
    PROVE  /\ writeParameter(p) = <<Token("PARAMETER", p.name), Mark("ASSIGNMENT")>> \o Rest(p)
           /\ writeParameter(p) \in Seq(AllTokens)
           /\ Len(writeParameter(p)) = Len(Rest(p)) + 2 /\ Len(Rest(p)) \in Nat
           /\ writeParameter(p)[1] = Token("PARAMETER", p.name)
           /\ writeParameter(p)[2] = Mark("ASSIGNMENT")
           /\ \A i \in 1 .. Len(writeParameter(p)) :
                i # 2 => writeParameter(p)[i].type # "ASSIGNMENT"
<1>1. PICK a : a = <<Token("PARAMETER", p.name), Mark("ASSIGNMENT")>>
  OBVIOUS
<1>2. p.name \in Names
  BY DEF Writables
<1>3. /\ a \in Seq(AllTokens) /\ Len(a) = 2
      /\ a[1] = Token("PARAMETER", p.name) /\ a[2] = Mark("ASSIGNMENT")
  BY <1>1, <1>2, TokensIn
<1>4. PICK r : r = Rest(p)
  OBVIOUS
<1>5. r \in Seq(AllTokens) /\ Len(r) \in Nat /\ \A i \in 1 .. Len(r) : r[i].type # "ASSIGNMENT"
  BY <1>4, RestLacks, LenProperties DEF Lacks
<1>6. PICK w : w = writeParameter(p)
  OBVIOUS
<1>7. w = a \o r
  BY <1>1, <1>4, <1>6 DEF writeParameter, Rest
<1>8. /\ w \in Seq(AllTokens) /\ Len(w) = 2 + Len(r)
      /\ \A i \in 1 .. 2 + Len(r) : w[i] = IF i <= 2 THEN a[i] ELSE r[i - 2]
  <2>1. /\ w \in Seq(AllTokens) /\ Len(w) = Len(a) + Len(r)
        /\ \A i \in 1 .. Len(a) + Len(r) : w[i] = IF i <= Len(a) THEN a[i] ELSE r[i - Len(a)]
    BY <1>3, <1>5, <1>7, ConcatProperties
  <2> QED BY <1>3, <2>1
<1>9. w[1] = a[1] /\ w[2] = a[2]
  BY <1>5, <1>8
<1>10. ASSUME NEW i \in 1 .. Len(w), i # 2 PROVE w[i].type # "ASSIGNMENT"
  <2>1. CASE i = 1
    BY <1>3, <1>9, <2>1 DEF Token
  <2>2. CASE i > 2
    <3>1. i - 2 \in 1 .. Len(r) /\ w[i] = r[i - 2]
      BY <1>5, <1>8, <2>2
    <3> QED BY <1>5, <3>1
  <2> QED BY <1>5, <1>8, <1>10, <2>1, <2>2
<1> QED BY <1>1, <1>3, <1>4, <1>5, <1>6, <1>7, <1>8, <1>9, <1>10

\* Texts that can be put together.
Joinable(t) == Scannable(t) /\ (t # <<>> => t[1].type # "ASSIGNMENT")

\* Two texts the scanner can return make one.
LEMMA ScannableConcat ==
    ASSUME NEW a, NEW b, Scannable(a), Joinable(b)
    PROVE  Scannable(a \o b)
<1>1. a \in Seq(AllTokens) /\ b \in Seq(AllTokens) /\ Len(a) \in Nat /\ Len(b) \in Nat
  BY LenProperties DEF Scannable, Joinable
<1>2. PICK c : c = a \o b
  OBVIOUS
<1>3. /\ c \in Seq(AllTokens) /\ Len(c) = Len(a) + Len(b)
      /\ \A i \in 1 .. Len(a) + Len(b) : c[i] = IF i <= Len(a) THEN a[i] ELSE b[i - Len(a)]
  BY <1>1, <1>2, ConcatProperties
<1>4. ASSUME NEW i \in 1 .. Len(c), i < Len(c), c[i].type = "PARAMETER",
             c[i + 1].type = "ASSIGNMENT"
      PROVE  c[i].word \in Names
  <2>0. i + 1 \in 1 .. Len(a) + Len(b) /\ i \in 1 .. Len(a) + Len(b)
    BY <1>1, <1>3, <1>4
  <2>1. CASE i < Len(a)
    <3>1. c[i] = a[i] /\ c[i + 1] = a[i + 1] /\ i \in 1 .. Len(a)
      BY <1>1, <1>3, <2>0, <2>1
    <3> QED BY <1>4, <2>1, <3>1 DEF Scannable
  <2>2. CASE i = Len(a)
    <3>1. i + 1 - Len(a) = 1 /\ ~ (i + 1 <= Len(a)) /\ Len(b) >= 1
      BY <1>1, <1>3, <1>4, <2>2
    <3>2. c[i + 1] = b[1]
      BY <1>3, <2>0, <3>1
    <3>3. b # <<>>
      BY <3>1, EmptySeq
    <3> QED BY <1>4, <3>2, <3>3 DEF Joinable
  <2>3. CASE i > Len(a)
    <3>1. i - Len(a) \in 1 .. Len(b) /\ i - Len(a) < Len(b) /\ i + 1 - Len(a) = (i - Len(a)) + 1
      BY <1>1, <1>3, <1>4, <2>3
    <3>2. c[i] = b[i - Len(a)] /\ c[i + 1] = b[(i - Len(a)) + 1]
      BY <1>1, <1>3, <2>0, <2>3, <3>1
    <3> QED BY <1>4, <3>1, <3>2 DEF Scannable, Joinable
  <2> QED BY <1>1, <2>1, <2>2, <2>3
<1> QED BY <1>2, <1>3, <1>4 DEF Scannable

\* What writeParameter prints is such a text.
LEMMA JoinableParameter ==
    ASSUME NEW p \in Writables
    PROVE  Joinable(writeParameter(p))
<1>1. PICK w : w = writeParameter(p)
  OBVIOUS
<1>2. /\ w \in Seq(AllTokens) /\ Len(w) = Len(Rest(p)) + 2 /\ Len(Rest(p)) \in Nat
      /\ w[1] = Token("PARAMETER", p.name)
      /\ \A i \in 1 .. Len(w) : i # 2 => w[i].type # "ASSIGNMENT"
  BY <1>1, WriteParameterIs
<1>3. p.name \in Names
  BY DEF Writables
<1>4. ASSUME NEW i \in 1 .. Len(w), i < Len(w), w[i + 1].type = "ASSIGNMENT"
      PROVE w[i].word \in Names
  <2>1. i + 1 \in 1 .. Len(w)
    BY <1>2, <1>4
  <2>2. i + 1 = 2 => i = 1
    BY <1>4
  <2> QED BY <1>2, <1>3, <1>4, <2>1, <2>2 DEF Token
<1>5. w[1].type # "ASSIGNMENT"
  BY <1>2 DEF Token
<1> QED BY <1>1, <1>2, <1>4, <1>5 DEF Joinable, Scannable

\* A configuration is written parameter by parameter.
WrittenSoFar(G, ps) ==
    /\ G \in [0 .. Len(ps) -> Seq(AllTokens)]
    /\ G[0] = <<>> /\ G[Len(ps)] = Written(ps)
    /\ \A k \in 1 .. Len(ps) : G[k] = G[k - 1] \o writeParameter(ps[k])

\* What is written of the first k parameters, for every k.
LEMMA WrittenSteps ==
    ASSUME NEW ps \in Seq(Writables)
    PROVE  \E G : WrittenSoFar(G, ps)
<1>1. Len(ps) \in Nat /\ DOMAIN ps = 1 .. Len(ps) /\ \A i \in 1 .. Len(ps) : ps[i] \in Writables
  BY LenProperties, ElementOfSeq
<1>2. PICK ss : ss = [i \in 1 .. Len(ps) |-> writeParameter(ps[i])]
  OBVIOUS
<1>3. ss \in Seq(Seq(AllTokens)) /\ Len(ss) = Len(ps)
  <2>1. \A i \in 1 .. Len(ps) : writeParameter(ps[i]) \in Seq(AllTokens)
    BY <1>1, WriteParameterIs
  <2> QED BY <1>1, <1>2, <2>1
<1>4. Written(ps) = FlattenSeq(ss)
  BY <1>1, <1>2 DEF Written
<1>5. PICK G \in [0 .. Len(ps) -> Seq(AllTokens)] : Flattens(G, ss)
  BY <1>3, FlattenSteps
<1>6. \A k \in 1 .. Len(ps) : G[k] = G[k - 1] \o writeParameter(ps[k])
  BY <1>2, <1>3, <1>5 DEF Flattens
<1> QED BY <1>3, <1>4, <1>5, <1>6 DEF Flattens, WrittenSoFar

\* So what is written is a text the scanner can return,
LEMMA WrittenScannable ==
    ASSUME NEW ps \in Seq(Writables)
    PROVE  Scannable(Written(ps))
<1>1. Len(ps) \in Nat /\ \A i \in 1 .. Len(ps) : ps[i] \in Writables
  BY LenProperties, ElementOfSeq
<1>2. PICK G : WrittenSoFar(G, ps)
  BY WrittenSteps
<1> DEFINE T == {k \in 0 .. Len(ps) : Scannable(G[k])}
<1>3. 0 \in T
  <2>1. Scannable(<<>>)
    BY EmptySeq DEF Scannable
  <2> QED BY <1>1, <1>2, <2>1 DEF WrittenSoFar
<1>4. ASSUME NEW k \in 1 .. Len(ps), k - 1 \in T PROVE k \in T
  <2>0. G[k] = G[k - 1] \o writeParameter(ps[k])
    BY <1>2 DEF WrittenSoFar
  <2>1. Scannable(G[k - 1]) /\ k \in 0 .. Len(ps)
    BY <1>1, <1>4
  <2>2. Scannable(G[k])
    BY <1>1, <2>0, <2>1, JoinableParameter, ScannableConcat
  <2> QED BY <2>1, <2>2
<1>5. Len(ps) \in T
  <2> HIDE DEF T
  <2> QED BY <1>1, <1>3, <1>4, UpTo
<1> QED BY <1>2, <1>5 DEF WrittenSoFar

\* and so is the beginning of one,
LEMMA ScannablePrefix ==
    ASSUME NEW t, Scannable(t), NEW n \in 0 .. Len(t)
    PROVE  /\ Scannable(SubSeq(t, 1, n))
           /\ Len(SubSeq(t, 1, n)) = n
           /\ \A i \in 1 .. n : SubSeq(t, 1, n)[i] = t[i]
<1>1. t \in Seq(AllTokens) /\ Len(t) \in Nat
  BY LenProperties DEF Scannable
<1>2. PICK h : h = SubSeq(t, 1, n)
  OBVIOUS
<1>3. \A i \in 1 .. n : t[i] \in AllTokens
  BY <1>1, ElementOfSeq
<1>4. /\ h \in Seq(AllTokens) /\ Len(h) = n
      /\ \A i \in 1 .. n : h[i] = t[i]
  <2>1. /\ h \in Seq(AllTokens) /\ Len(h) = (IF 1 <= n THEN n - 1 + 1 ELSE 0)
        /\ \A i \in 1 .. n - 1 + 1 : h[i] = t[1 + i - 1]
    BY <1>1, <1>2, <1>3, SubSeqProperties
  <2>2. n \in Nat /\ n - 1 + 1 = n /\ \A i \in 1 .. n : 1 + i - 1 = i
    BY <1>1
  <2>3. \A i \in 1 .. n : h[i] = t[i]
    BY <2>1, <2>2
  <2> QED BY <2>1, <2>2, <2>3
<1>5. ASSUME NEW i \in 1 .. n, i < n
      PROVE h[i] = t[i] /\ h[i + 1] = t[i + 1] /\ i < Len(t) /\ i \in 1 .. Len(t)
  <2>1. i + 1 \in 1 .. n
    BY <1>1, <1>5
  <2> QED BY <1>1, <1>4, <1>5, <2>1
<1>6. ASSUME NEW i \in 1 .. n, i < n, h[i].type = "PARAMETER", h[i + 1].type = "ASSIGNMENT"
      PROVE  h[i].word \in Names
  BY <1>5, <1>6 DEF Scannable
<1> QED BY <1>2, <1>4, <1>6 DEF Scannable

\* also with one more token that is no equals sign.
LEMMA ScannableAppend ==
    ASSUME NEW t, Scannable(t), NEW x \in AllTokens, x.type # "ASSIGNMENT"
    PROVE  Scannable(t \o <<x>>)
<1>1. <<x>> \in Seq(AllTokens) /\ Len(<<x>>) = 1 /\ <<x>>[1] = x
  OBVIOUS
<1>2. Joinable(<<x>>)
  BY <1>1 DEF Joinable, Scannable
<1> QED BY <1>2, ScannableConcat

\* So is what is left of it.
LEMMA TornScannable ==
    ASSUME NEW t, Scannable(t), NEW u \in Torn(t)
    PROVE  Scannable(u)
<1>1. t \in Seq(AllTokens) /\ Len(t) \in Nat
  BY LenProperties DEF Scannable
<1>2. CASE \E n \in 0 .. Len(t) : u = SubSeq(t, 1, n)
  BY <1>2, ScannablePrefix
<1>3. ASSUME NEW n \in 0 .. Len(t), NEW h, h = SubSeq(t, 1, n), h # <<>>, Last(h).type = "DECIMAL",
             u = Front(h) \o <<Token("DECIMAL", Last(h).word \div 10)>>
      PROVE  Scannable(u)
  <2>1. Scannable(h) /\ h \in Seq(AllTokens) /\ Len(h) \in Nat \ {0}
    BY <1>1, <1>3, ScannablePrefix, EmptySeq DEF Scannable
  <2>2. Front(h) = SubSeq(h, 1, Len(h) - 1) /\ Len(h) - 1 \in 0 .. Len(h)
    BY <2>1 DEF Front
  <2>3. Scannable(Front(h))
    BY <2>1, <2>2, ScannablePrefix
  <2>4. Last(h) = h[Len(h)] /\ Len(h) \in 1 .. Len(h)
    BY <2>1 DEF Last
  <2>5. Last(h) \in AllTokens
    BY <2>1, <2>4, ElementOfSeq
  <2>6. Last(h).word \in Int
    BY <1>3, <2>5 DEF AllTokens, Tokens, Mark, Token
  <2>7. Last(h).word \div 10 \in Int
    BY <2>6
  <2>8. Token("DECIMAL", Last(h).word \div 10) \in AllTokens
    BY <2>7, TokensIn
  <2>9. Token("DECIMAL", Last(h).word \div 10).type # "ASSIGNMENT"
    BY DEF Token
  <2> QED BY <1>3, <2>3, <2>8, <2>9, ScannableAppend
<1>4. CASE u = <<Mark("OPEN_COMMENT")>>
  <2>1. Lacks(u, {"ASSIGNMENT"})
    BY <1>4, TokensIn, TokenLacks DEF Mark, Token
  <2> QED BY <2>1 DEF Lacks, Scannable
<1> QED BY <1>2, <1>3, <1>4 DEF Torn

-----------------------------------------------------------------------------
(* The types of the loader.                                                *)

\* The parameters in memory.
Params == [name : Names, val : {NoVal} \cup ParamValues]

LoaderInv == TypeOK /\ (text = NoFile \/ Scannable(text))

\* Max returns a member of a set of numbers up to n.
LEMMA MaxUpTo ==
    ASSUME NEW n \in Nat, NEW B \in SUBSET (0 .. n), B # {}
    PROVE  Max(B) \in B
<1> DEFINE C == {n - k : k \in B}
<1>1. C \in SUBSET (0 .. n) /\ C # {}
  <2>1. \A k \in B : n - k \in 0 .. n
    OBVIOUS
  <2>2. PICK k : k \in B
    OBVIOUS
  <2>3. n - k \in C
    BY <2>2
  <2> QED BY <2>1, <2>3
<1>2. PICK c \in C : \A d \in C : c <= d
  <2> HIDE DEF C
  <2> QED BY <1>1, Least
<1>3. PICK k \in B : c = n - k
  OBVIOUS
<1>4. \A j \in B : k >= j
  <2>1. ASSUME NEW j \in B PROVE k >= j
    <3>1. c <= n - j
      BY <1>2
    <3> QED BY <1>3, <3>1
  <2> QED BY <2>1
<1> QED BY <1>4 DEF Max

\* A parameter whose value could not be kept is a parameter.
LEMMA ParamsClosed ==
    ASSUME NEW q \in Params
    PROVE  Param(q.name, NoVal) \in Params
BY DEF Params, Param

\* What is read is a parameter, and could be written.
LEMMA ReadIsParam == ReadParams \subseteq Params /\ ReadParams \subseteq Writables
<1>1. ReadPrimitives \subseteq Primitives
  BY DEF ReadPrimitives, Primitives
<1>2. Seq(ReadPrimitives) \subseteq Seq(Primitives)
  BY <1>1
<1>3. ReadValues \subseteq ParamValues
  BY <1>1, <1>2 DEF ReadValues, ParamValues
<1> QED BY <1>3 DEF ReadParams, Params, Writables

\* So what is read of a text are parameters.
LEMMA ParsedTyped ==
    ASSUME NEW t, Scannable(t)
    PROVE  Parsed(t) \in Seq(ReadParams) /\ Parsed(t) \in Seq(Params)
             /\ Parsed(t) \in Seq(Writables)
<1>1. Parsed(t) \in Seq(ReadParams)
  BY ParsingOK DEF ParserOK, Parsed
<1>2. Seq(ReadParams) \subseteq Seq(Params) /\ Seq(ReadParams) \subseteq Seq(Writables)
  BY ReadIsParam
<1> QED BY <1>1, <1>2

\* What is loaded is as long as what was read, or shorter.
LEMMA LoadedTyped ==
    ASSUME NEW t, Scannable(t), NEW ps \in Loads(Parsed(t))
    PROVE  ps \in Seq(Params)
BY ParsedTyped, ParamsClosed, LoadsTyped

\* A list where each parameter has a value can be written.
LEMMA WithValues ==
    ASSUME NEW ps \in Seq(Params), HasValue(ps)
    PROVE  ps \in Seq(Writables)
<1>1. Len(ps) \in Nat /\ ps \in [1 .. Len(ps) -> Params] /\ DOMAIN ps = 1 .. Len(ps)
  BY LenProperties
<1>2. \A i \in 1 .. Len(ps) : ps[i] \in Writables
  BY <1>1 DEF HasValue, Params, Writables
<1>3. ps \in [1 .. Len(ps) -> Writables]
  BY <1>1, <1>2
<1> QED BY <1>1, <1>3, SeqDef

\* The parameters that are printed are the first ones, with their values.
LEMMA PrintableIs ==
    ASSUME parm_list \in Seq(Params)
    PROVE  /\ \E n \in 0 .. Len(parm_list) : Printable = SubSeq(parm_list, 1, n)
           /\ Printable \in Seq(Writables)
<1>1. Len(parm_list) \in Nat /\ DOMAIN parm_list = 1 .. Len(parm_list)
  BY LenProperties
<1> DEFINE B == {n \in 0 .. Len(parm_list) : HasValue(SubSeq(parm_list, 1, n))}
<1>2. B # {}
  <2>1. SubSeq(parm_list, 1, 0) = <<>>
    BY SubSeqEmpty
  <2>2. HasValue(<<>>)
    BY EmptySeq DEF HasValue
  <2>3. 0 \in 0 .. Len(parm_list)
    BY <1>1
  <2> QED BY <2>1, <2>2, <2>3
<1>3. Max(B) \in B
  <2>1. B \in SUBSET (0 .. Len(parm_list))
    OBVIOUS
  <2> HIDE DEF B
  <2> QED BY <1>1, <1>2, <2>1, MaxUpTo
<1>4. PICK n : n = Max(B)
  OBVIOUS
<1>5. n \in 0 .. Len(parm_list) /\ HasValue(SubSeq(parm_list, 1, n))
  BY <1>3, <1>4
<1>6. Printable = SubSeq(parm_list, 1, n)
  BY <1>4 DEF Printable
<1>7. \A i \in 1 .. n : parm_list[i] \in Params
  BY <1>1, <1>5, ElementOfSeq
<1>8. n \in Int
  BY <1>1, <1>5
<1>9. SubSeq(parm_list, 1, n) \in Seq(Params)
  BY <1>7, <1>8, SubSeqProperties
<1> QED BY <1>5, <1>6, <1>9, WithValues

\* The calls keep the types: addValue,
LEMMA AddTyped ==
    ASSUME LoaderInv, NEW name \in Names, NEW v \in Given, addValue(name, v)
    PROVE  LoaderInv'
<1>1. parm_list \in Seq(Params) /\ Len(parm_list) \in Nat
  BY LenProperties DEF LoaderInv, TypeOK, Params
<1>2. CASE \E added \in Outcomes(Param(name, v)) : addParameters(added)
  <2>1. PICK added \in Outcomes(Param(name, v)) : addParameters(added)
    BY <1>2
  <2>2. Param(name, v) \in Params
    BY GivenAssumption DEF Param, Params
  <2>3. Param(Param(name, v).name, NoVal) \in Params
    BY <2>2, ParamsClosed
  <2>4. added \in Seq(Params) /\ Len(added) \in Nat
    <3>1. <<>> \in Seq(Params) /\ \A x \in Params : <<x>> \in Seq(Params)
      OBVIOUS
    <3>2. added \in Seq(Params)
      BY <2>2, <2>3, <3>1 DEF Outcomes
    <3> QED BY <3>2, LenProperties
  <2>5. parm_list' \in Seq(Params) /\ Len(parm_list') = Len(parm_list) + Len(added)
    BY <1>1, <2>1, <2>4, ConcatProperties DEF addParameters
  <2> QED BY <1>1, <2>1, <2>4, <2>5 DEF LoaderInv, TypeOK, Params, addParameters
<1>3. CASE Crash /\ UNCHANGED text
  BY <1>3 DEF LoaderInv, TypeOK, Crash
<1> QED BY <1>2, <1>3 DEF addValue

\* delParameter,
LEMMA DeleteTyped ==
    ASSUME LoaderInv, NEW i \in DOMAIN parm_list, delParameter(i)
    PROVE  LoaderInv'
<1>1. parm_list \in Seq(Params) /\ Len(parm_list) \in Nat /\ i \in 1 .. Len(parm_list)
  BY LenProperties DEF LoaderInv, TypeOK, Params
<1>2. CASE parm_list' = RemoveAt(parm_list, i) /\ numParams' = numParams - 1
             /\ UNCHANGED phase /\ UNCHANGED text
  <2>1. \A j \in 1 .. Len(parm_list) : parm_list[j] \in Params
    BY <1>1, ElementOfSeq
  <2>2. PICK a : a = SubSeq(parm_list, 1, i - 1)
    OBVIOUS
  <2>3. PICK b : b = SubSeq(parm_list, i + 1, Len(parm_list))
    OBVIOUS
  <2>4. a \in Seq(Params) /\ Len(a) = i - 1
    BY <1>1, <2>1, <2>2, SubSeqProperties
  <2>5. b \in Seq(Params) /\ Len(b) = Len(parm_list) - i
    BY <1>1, <2>1, <2>3, SubSeqProperties
  <2>6. parm_list' = a \o b
    BY <1>2, <2>2, <2>3 DEF RemoveAt
  <2>7. parm_list' \in Seq(Params) /\ Len(parm_list') = Len(parm_list) - 1
    BY <1>1, <2>4, <2>5, <2>6, ConcatProperties
  <2>8. numParams' \in Nat /\ numParams' >= Len(parm_list')
    BY <1>1, <1>2, <2>7 DEF LoaderInv, TypeOK
  <2> QED BY <1>2, <2>7, <2>8 DEF LoaderInv, TypeOK, Params
<1>3. CASE Crash /\ UNCHANGED text
  BY <1>3 DEF LoaderInv, TypeOK, Crash
<1> QED BY <1>2, <1>3 DEF delParameter

\* setParam,
LEMMA SetTyped ==
    ASSUME LoaderInv, NEW name \in Names, NEW v \in Given, setParam(name, v)
    PROVE  LoaderInv'
<1>1. parm_list \in Seq(Params) /\ Len(parm_list) \in Nat
  BY LenProperties DEF LoaderInv, TypeOK, Params
<1>2. PICK i : i = lookupConfig(name)
  OBVIOUS
<1>3. CASE addValue(name, v)
  BY <1>3, AddTyped
<1>4. CASE Crash /\ UNCHANGED text
  BY <1>4 DEF LoaderInv, TypeOK, Crash
<1>5. CASE /\ i # 0 /\ Fits(parm_list[i].val, v)
           /\ parm_list' = [parm_list EXCEPT ![i].val.word = v.word]
           /\ UNCHANGED <<phase, numParams, text>>
  <2>1. i \in 1 .. Len(parm_list)
    BY <1>1, <1>2, <1>5, FirstFromIs DEF lookupConfig
  <2>2. parm_list[i] \in Params
    BY <1>1, <2>1, ElementOfSeq
  <2>3. v.type \in {"String", "Integer", "Boolean"} /\ v \in ParamValues
    BY GivenAssumption DEF setParam
  <2>4. v \in Primitives
    BY <2>3, ParamValueIs
  <2>5. PICK q : q = [parm_list[i] EXCEPT !.val.word = v.word]
    OBVIOUS
  <2>6. /\ parm_list[i].val \in ParamValues
        /\ parm_list[i].val.type = v.type
             \/ {parm_list[i].val.type, v.type} = {"Integer", "Boolean"}
    BY <1>5, <2>2 DEF Fits, Params
  <2>7. PICK w : w = parm_list[i].val
    OBVIOUS
  <2>8. w \in Primitives /\ w.type \in {"String", "Integer", "Boolean"}
    BY <1>5, <2>2, <2>3, <2>7, ParamValueIs DEF Fits, Params
  <2>9. [w EXCEPT !.word = v.word] = Value(w.type, v.word)
    BY <2>8, PrimitiveIs DEF Value
  <2>10. Value(w.type, v.word) \in Primitives
    <3>1. CASE w.type = "String"
      <4>1. v.type = "String"
        BY <1>5, <2>7, <3>1 DEF Fits
      <4> QED BY <2>4, <3>1, <4>1, PrimitiveIs DEF Value, Primitives
    <3>2. CASE w.type \in {"Integer", "Boolean"}
      <4>1. v.type \in {"Integer", "Boolean"}
        BY <1>5, <2>7, <3>2 DEF Fits
      <4> QED BY <2>4, <3>2, <4>1, PrimitiveIs DEF Value, Primitives
    <3> QED BY <2>8, <3>1, <3>2
  <2>11. q = [name |-> parm_list[i].name, val |-> [w EXCEPT !.word = v.word]]
    BY <2>2, <2>5, <2>7 DEF Params
  <2>12. q \in Params
    BY <2>2, <2>9, <2>10, <2>11 DEF Params, ParamValues
  <2>13. parm_list' = [parm_list EXCEPT ![i] = q]
    BY <1>5, <2>5
  <2>14. parm_list' \in Seq(Params) /\ Len(parm_list') = Len(parm_list)
    BY <1>1, <2>1, <2>12, <2>13, ExceptSeq
  <2> QED BY <1>5, <2>14 DEF LoaderInv, TypeOK, Params
<1> QED BY <1>2, <1>3, <1>4, <1>5 DEF setParam

\* parseConfig,
LEMMA ParseTyped ==
    ASSUME LoaderInv, parseConfig
    PROVE  LoaderInv'
<1>1. UNCHANGED text
  BY DEF parseConfig
<1>2. <<>> \in Seq(Params) /\ Len(<<>>) = 0
  BY EmptySeq
<1>3. CASE parseHangs \/ parseCrashes
  BY <1>1, <1>3 DEF LoaderInv, TypeOK, parseHangs, parseCrashes, Crash
<1>4. CASE parseFails
  BY <1>1, <1>2, <1>4 DEF LoaderInv, TypeOK, parseFails, Params
<1>5. CASE parseError
  <2>1. Scannable(text)
    BY <1>5 DEF LoaderInv, parseError
  <2>2. PICK ps \in Loads(Parsed(text)) :
          \/ HasValue(ps) /\ phase' = "ready" /\ parm_list' = <<>> /\ numParams' = Len(ps)
          \/ ~HasValue(ps) /\ phase' = "crashed" /\ parm_list' = ps /\ numParams' = Len(ps)
    BY <1>5 DEF parseError
  <2>3. ps \in Seq(Params) /\ Len(ps) \in Nat
    BY <2>1, LoadedTyped, LenProperties
  <2>4. CASE phase' = "ready" /\ parm_list' = <<>> /\ numParams' = Len(ps)
    BY <1>1, <1>2, <2>1, <2>3, <2>4 DEF LoaderInv, TypeOK, Params
  <2>5. CASE phase' = "crashed" /\ parm_list' = ps /\ numParams' = Len(ps)
    BY <1>1, <2>1, <2>3, <2>5 DEF LoaderInv, TypeOK, Params
  <2> QED BY <2>2, <2>4, <2>5
<1>6. CASE parseLoads
  <2>1. Scannable(text)
    BY <1>6 DEF LoaderInv, parseLoads
  <2>2. PICK ps \in Loads(Parsed(text)) : phase' = "ready" /\ parm_list' = ps
               /\ numParams' = Len(ps)
    BY <1>6 DEF parseLoads
  <2>3. ps \in Seq(Params) /\ Len(ps) \in Nat
    BY <2>1, LoadedTyped, LenProperties
  <2> QED BY <1>1, <2>1, <2>2, <2>3 DEF LoaderInv, TypeOK, Params
<1> QED BY <1>3, <1>4, <1>5, <1>6 DEF parseConfig

\* writeConfig, also when the program ends in it.
LEMMA WriteTyped ==
    ASSUME LoaderInv, writeConfig \/ writeCrashes
    PROVE  LoaderInv'
<1>1. parm_list \in Seq(Params)
  BY DEF LoaderInv, TypeOK, Params
<1>2. CASE writeConfig
  <2>1. Scannable(Written(parm_list))
    BY <1>1, <1>2, WithValues, WrittenScannable DEF writeConfig
  <2> QED BY <1>2, <2>1 DEF LoaderInv, TypeOK, writeConfig
<1>3. CASE writeCrashes
  <2>1. text' = text \/ Scannable(text')
    BY <1>1, <1>3, PrintableIs, WrittenScannable, TornScannable DEF writeCrashes
  <2> QED BY <1>3, <2>1 DEF LoaderInv, TypeOK, writeCrashes, Crash
<1> QED BY <1>2, <1>3

\* The types hold, and the text of the file is one that a scanner can return.
THEOREM LoaderTypes == LoaderSpec => []LoaderInv
<1>1. LoaderInit => LoaderInv
  <2> SUFFICES ASSUME LoaderInit PROVE LoaderInv
    OBVIOUS
  <2>1. <<>> \in Seq(Params) /\ Len(<<>>) = 0
    BY EmptySeq
  <2>2. ASSUME text \in Texts PROVE Scannable(text)
    <3>1. text \in Seq(Tokens)
      BY <2>2, FileAssumption
    <3>2. text \in Seq(AllTokens)
      BY <3>1, SeqMonotonic DEF AllTokens
    <3>3. \A i \in 1 .. Len(text) : text[i] \in Tokens
      BY <3>1, ElementOfSeq
    <3>4. \A i \in 1 .. Len(text) : text[i].type = "PARAMETER" => text[i].word \in Names
      BY <3>3 DEF Tokens, Mark, Token
    <3> QED BY <3>2, <3>4 DEF Scannable
  <2> QED BY <2>1, <2>2 DEF LoaderInit, LoaderInv, TypeOK, Params
<1>2. LoaderInv /\ [LoaderNext]_loaderVars => LoaderInv'
  <2> SUFFICES ASSUME LoaderInv, [LoaderNext]_loaderVars PROVE LoaderInv'
    OBVIOUS
  <2>0. <<>> \in Seq(Params) /\ Len(<<>>) = 0
    BY EmptySeq
  <2>1. ASSUME NEW name \in Names, NEW v \in Given, addValue(name, v) \/ setParam(name, v)
        PROVE  LoaderInv'
    BY <2>1, AddTyped, SetTyped
  <2>2. ASSUME NEW i \in DOMAIN parm_list, delParameter(i) PROVE LoaderInv'
    BY <2>2, DeleteTyped
  <2>3. CASE freeConfig
    <3>1. CASE parm_list' = <<>> /\ UNCHANGED <<phase, numParams, text>>
      BY <2>0, <3>1 DEF LoaderInv, TypeOK, Params
    <3>2. CASE Crash /\ UNCHANGED text
      BY <3>2 DEF LoaderInv, TypeOK, Crash
    <3> QED BY <2>3, <3>1, <3>2 DEF freeConfig
  <2>4. CASE parseConfig
    BY <2>4, ParseTyped
  <2>5. CASE writeConfig \/ writeCrashes
    BY <2>5, WriteTyped
  <2>6. CASE Restart
    BY <2>0, <2>6 DEF LoaderInv, TypeOK, Params, Restart
  <2>7. CASE UNCHANGED loaderVars
    BY <2>7 DEF LoaderInv, TypeOK, loaderVars
  <2> QED BY <2>1, <2>2, <2>3, <2>4, <2>5, <2>6, <2>7 DEF LoaderNext
<1> QED BY <1>1, <1>2, PTL DEF LoaderSpec

\* Type correctness of the loader: addValue, setParam, delParameter, parseConfig and
\* writeConfig, the end of the program within one included, keep the list a list of
\* parameters and numParams no smaller than the number of them.
THEOREM LoaderTypeOK == LoaderSpec => []TypeOK
<1>1. LoaderInv => TypeOK
  BY DEF LoaderInv
<1> QED BY <1>1, LoaderTypes, PTL

\* A walk with lookupConfig and lookupNextConfig comes to every parameter of the
\* name and to no other.
THEOREM WalkVisits == LoaderSpec => []WalkVisitsAll
<1>1. LoaderInv => WalkVisitsAll
  BY WalkComplete DEF LoaderInv, TypeOK
<1> QED BY <1>1, LoaderTypes, PTL

-----------------------------------------------------------------------------
(* Reading what was written.                                               *)

\* Putting texts together.
TokenSeqs == Seq(AllTokens)

\* Tokens join to texts.
LEMMA Joins ==
    /\ \A a, b \in TokenSeqs : a \o b \in TokenSeqs
    /\ \A a, b, c \in TokenSeqs : (a \o b) \o c = a \o (b \o c)
    /\ \A a \in TokenSeqs : a \o <<>> = a /\ <<>> \o a = a
    /\ \A x \in AllTokens : <<x>> \in TokenSeqs
    /\ <<>> \in TokenSeqs
<1>1. \A a, b \in TokenSeqs : a \o b \in TokenSeqs
  BY ConcatProperties DEF TokenSeqs
<1>2. \A a, b, c \in TokenSeqs : (a \o b) \o c = a \o (b \o c)
  BY ConcatAssociative DEF TokenSeqs
<1>3. \A a \in TokenSeqs : a \o <<>> = a /\ <<>> \o a = a
  BY ConcatEmptySeq, Zenon DEF TokenSeqs
<1>4. \A x \in AllTokens : <<x>> \in TokenSeqs
  BY DEF TokenSeqs
<1>5. <<>> \in TokenSeqs
  BY EmptySeq DEF TokenSeqs
<1> QED BY <1>1, <1>2, <1>3, <1>4, <1>5, Zenon

\* ParsingAppend, for texts.
LEMMA ReadToken ==
    ASSUME NEW a \in TokenSeqs, NEW x \in AllTokens
    PROVE  Parsing(a \o <<x>>) = Shift(Parsing(a), x)
<1>1. Append(a, x) = a \o <<x>>
  BY AppendIsConcat DEF TokenSeqs
<1>2. Parsing(Append(a, x)) = Shift(Parsing(a), x)
  BY ParsingAppend DEF TokenSeqs
<1> QED BY <1>1, <1>2, Zenon

\* Reading token by token.
LEMMA ReadNext ==
    ASSUME NEW a \in TokenSeqs, NEW s \in TokenSeqs, NEW k \in 1 .. Len(s)
    PROVE  Parsing(a \o SubSeq(s, 1, k)) = Shift(Parsing(a \o SubSeq(s, 1, k - 1)), s[k])
<1>1. Len(s) \in Nat /\ s[k] \in AllTokens /\ \A i \in 1 .. k - 1 : s[i] \in AllTokens
  BY LenProperties, ElementOfSeq DEF TokenSeqs
<1>2. PICK h : h = SubSeq(s, 1, k - 1)
  OBVIOUS
<1>3. SubSeq(s, 1, k) = h \o <<s[k]>>
  <2>1. 1 \in 1 .. Len(s)
    BY <1>1
  <2> QED BY <1>2, <2>1, SubSeqRecursiveSecond DEF TokenSeqs
<1>4. h \in TokenSeqs
  BY <1>1, <1>2, SubSeqProperties DEF TokenSeqs
<1>5. a \o SubSeq(s, 1, k) = (a \o h) \o <<s[k]>> /\ a \o h \in TokenSeqs
  <2>1. <<s[k]>> \in TokenSeqs /\ a \o h \in TokenSeqs
    BY <1>1, <1>4, Joins, Zenon
  <2>2. (a \o h) \o <<s[k]>> = a \o (h \o <<s[k]>>)
    BY <1>4, <2>1, Joins, Zenon
  <2> QED BY <1>3, <2>1, <2>2, Zenon
<1>6. Parsing((a \o h) \o <<s[k]>>) = Shift(Parsing(a \o h), s[k])
  BY <1>1, <1>5, ReadToken
<1> QED BY <1>2, <1>5, <1>6, Zenon

\* The shortest and the longest beginning of a text.
LEMMA NothingOf ==
    ASSUME NEW a \in TokenSeqs, NEW s \in TokenSeqs
    PROVE  a \o SubSeq(s, 1, 0) = a /\ a \o SubSeq(s, 1, Len(s)) = a \o s
<1>1. SubSeq(s, 1, 0) = <<>>
  BY SubSeqEmpty
<1>2. SubSeq(s, 1, Len(s)) = s
  BY SubSeqFull DEF TokenSeqs
<1> QED BY <1>1, <1>2, Joins, Zenon

\* A set of states that no token of a text leads out of.
LEMMA Stays ==
    ASSUME NEW a \in TokenSeqs, NEW s \in TokenSeqs, NEW Q, Parsing(a) \in Q,
           \A p \in Q : \A i \in 1 .. Len(s) : Shift(p, s[i]) \in Q
    PROVE  \A k \in 0 .. Len(s) : Parsing(a \o SubSeq(s, 1, k)) \in Q
<1>1. Len(s) \in Nat
  BY LenProperties DEF TokenSeqs
<1> SUFFICES ASSUME NEW n \in 0 .. Len(s) PROVE Parsing(a \o SubSeq(s, 1, n)) \in Q
  OBVIOUS
<1> DEFINE T == {k \in 0 .. n : Parsing(a \o SubSeq(s, 1, k)) \in Q}
<1>2. 0 \in T
  <2>1. Parsing(a \o SubSeq(s, 1, 0)) \in Q
    BY NothingOf, Zenon
  <2>2. 0 \in 0 .. n
    BY <1>1
  <2> QED BY <2>1, <2>2
<1>3. ASSUME NEW k \in 1 .. n, k - 1 \in T PROVE k \in T
  <2>1. k \in 1 .. Len(s) /\ k \in 0 .. n /\ Parsing(a \o SubSeq(s, 1, k - 1)) \in Q
    BY <1>1, <1>3
  <2>2. Parsing(a \o SubSeq(s, 1, k)) \in Q
    BY <2>1, ReadNext
  <2> QED BY <2>1, <2>2
<1>4. n \in T
  <2> HIDE DEF T
  <2> QED BY <1>1, <1>2, <1>3, UpTo
<1> QED BY <1>4

\* After an error nothing is read.
LEMMA NothingStays ==
    ASSUME NEW a \in TokenSeqs, NEW s \in TokenSeqs, NEW ps, NEW n, NEW es,
           Parsing(a) = State("nothing", ps, n, es)
    PROVE  /\ \A k \in 0 .. Len(s) : Parsing(a \o SubSeq(s, 1, k)) = State("nothing", ps, n, es)
           /\ Parsing(a \o s) = State("nothing", ps, n, es)
<1>1. \A k \in 0 .. Len(s) : Parsing(a \o SubSeq(s, 1, k)) \in {State("nothing", ps, n, es)}
  <2>1. \A p \in {State("nothing", ps, n, es)} : \A i \in 1 .. Len(s) :
          Shift(p, s[i]) \in {State("nothing", ps, n, es)}
    BY ShiftRejects
  <2> QED BY <2>1, Stays
<1>2. Len(s) \in 0 .. Len(s)
  BY LenProperties DEF TokenSeqs
<1> QED BY <1>1, <1>2, NothingOf

\* A value.
LEMMA NormalTyped ==
    /\ \A v \in Primitives : NormalValue(v) \in Primitives
    /\ \A v \in ParamValues : Normal(v) \in ParamValues
<1>1. ASSUME NEW v \in Primitives PROVE NormalValue(v) \in Primitives
  <2>1. CASE v.type = "Boolean"
    BY <2>1 DEF NormalValue, Value, Primitives
  <2>2. CASE v.type = "Integer"
    <3>1. Abs(v.word) \in Int
      BY <2>2, PrimitiveIs DEF Abs
    <3> QED BY <2>2, <3>1 DEF NormalValue, Value, Primitives
  <2>3. CASE v.type = "Float"
    <3>1. Printed[v.word] \in Floats
      BY <2>3, PrimitiveIs, TextAssumption
    <3> QED BY <2>3, <3>1 DEF NormalValue, Value, Primitives
  <2>4. CASE v.type = "String"
    BY <2>4 DEF NormalValue
  <2> QED BY <2>1, <2>2, <2>3, <2>4, PrimitiveIs
<1>2. ASSUME NEW v \in ParamValues PROVE Normal(v) \in ParamValues
  <2>1. CASE v.type = "List"
    <3>1. v.word \in Seq(Primitives)
      BY <2>1, ParamValueIs
    <3>2. Len(v.word) \in Nat /\ DOMAIN v.word = 1 .. Len(v.word)
            /\ \A i \in 1 .. Len(v.word) : v.word[i] \in Primitives
      BY <3>1, LenProperties, ElementOfSeq
    <3>3. PICK ns : ns = [i \in DOMAIN v.word |-> NormalValue(v.word[i])]
      OBVIOUS
    <3>4. ns \in Seq(Primitives)
      BY <1>1, <3>2, <3>3
    <3> QED BY <2>1, <3>3, <3>4 DEF Normal, Value, ParamValues
  <2>2. CASE v.type # "List"
    BY <1>1, <2>2, ParamValueIs DEF Normal, ParamValues
  <2> QED BY <2>1, <2>2
<1> QED BY <1>1, <1>2

NormalList(vs) == [i \in DOMAIN vs |-> NormalValue(vs[i])]

\* The elements of a list that was read.
LEMMA NormalListIs ==
    ASSUME NEW vs \in Seq(Primitives)
    PROVE  /\ NormalList(vs) \in Seq(Primitives)
           /\ Len(NormalList(vs)) = Len(vs)
           /\ \A i \in 1 .. Len(vs) : NormalList(vs)[i] = NormalValue(vs[i])
<1>1. Len(vs) \in Nat /\ DOMAIN vs = 1 .. Len(vs) /\ \A i \in 1 .. Len(vs) : vs[i] \in Primitives
  BY LenProperties, ElementOfSeq
<1>2. \A i \in 1 .. Len(vs) : NormalValue(vs[i]) \in Primitives
  BY <1>1, NormalTyped
<1> QED BY <1>1, <1>2 DEF NormalList

\* A beginning and one more.
LEMMA NextPrefix ==
    ASSUME NEW S, NEW s \in Seq(S), NEW k \in 1 .. Len(s)
    PROVE  SubSeq(s, 1, k) = Append(SubSeq(s, 1, k - 1), s[k]) /\ SubSeq(s, 1, k - 1) \in Seq(S)
<1>1. Len(s) \in Nat /\ s[k] \in S /\ \A i \in 1 .. k - 1 : s[i] \in S
  BY LenProperties, ElementOfSeq
<1>2. 1 \in 1 .. Len(s)
  BY <1>1
<1>3. SubSeq(s, 1, k) = SubSeq(s, 1, k - 1) \o <<s[k]>>
  BY <1>2, SubSeqRecursiveSecond
<1>4. SubSeq(s, 1, k - 1) \in Seq(S)
  BY <1>1, SubSeqProperties
<1> QED BY <1>1, <1>3, <1>4, AppendIsConcat

\* The state of the parser after k elements of a list.
ListRead(p, vs, ps, n, k) ==
    IF \A i \in 1 .. k : Quotable(vs[i])
    THEN p = State(IF k > 0 /\ k = Len(vs) THEN "more" ELSE "element",
                   ps, n, SubSeq(NormalList(vs), 1, k))
    ELSE \E es : p = State("nothing", ps, n, es)

\* One more element is read.
LEMMA ReadElement ==
    ASSUME NEW a \in TokenSeqs, NEW vs \in Seq(Primitives), NEW k \in 1 .. Len(vs), NEW ps, NEW n,
           ListRead(Parsing(a), vs, ps, n, k - 1)
    PROVE  ListRead(Parsing(a \o Element(vs, k)), vs, ps, n, k)
<1>1. /\ Len(vs) \in Nat /\ vs[k] \in Primitives /\ k - 1 # Len(vs)
      /\ Element(vs, k) \in TokenSeqs /\ writeValue(vs[k]) \in TokenSeqs
  <2>1. Len(vs) \in Nat /\ vs[k] \in Primitives
    BY LenProperties, ElementOfSeq
  <2>2. k - 1 # Len(vs)
    BY <2>1
  <2>3. Element(vs, k) \in TokenSeqs
    BY ElementLacks DEF Lacks, TokenSeqs
  <2>4. writeValue(vs[k]) \in TokenSeqs
    BY <2>1, ValueLacks DEF Lacks, TokenSeqs
  <2> QED BY <2>1, <2>2, <2>3, <2>4
<1>2. CASE \E i \in 1 .. k - 1 : ~Quotable(vs[i])
  <2>1. PICK es : Parsing(a) = State("nothing", ps, n, es)
    BY <1>2 DEF ListRead
  <2>2. Parsing(a \o Element(vs, k)) = State("nothing", ps, n, es)
    BY <1>1, <2>1, NothingStays
  <2>3. \E i \in 1 .. k : ~Quotable(vs[i])
    BY <1>1, <1>2
  <2> QED BY <2>2, <2>3 DEF ListRead
<1>3. CASE \A i \in 1 .. k - 1 : Quotable(vs[i])
  <2>0. PICK es : es = SubSeq(NormalList(vs), 1, k - 1)
    OBVIOUS
  <2>1. Parsing(a) = State("element", ps, n, es)
    BY <1>1, <1>3, <2>0 DEF ListRead
  <2>2. PICK x \in AllTokens :
             /\ IsLiteral(x)
             /\ Quotable(vs[k]) => writeValue(vs[k]) = <<x>> /\ Literal(x) = NormalValue(vs[k])
             /\ ~Quotable(vs[k]) =>
                  \E y \in AllTokens : y.type = "PARAMETER" /\ writeValue(vs[k]) = <<x, y>>
    BY <1>1, WriteValueIs
  <2>3. PICK b : b = a \o <<x>>
    OBVIOUS
  <2>4. Parsing(b) = State("more", ps, n, Append(es, Literal(x))) /\ b \in TokenSeqs
    <3>1. b \in TokenSeqs
      BY <2>3, Joins, Zenon
    <3>2. Parsing(b) = Shift(Parsing(a), x)
      BY <2>3, ReadToken, Zenon
    <3>3. Shift(State("element", ps, n, es), x) = State("more", ps, n, Append(es, Literal(x)))
      BY <2>2, ShiftIs DEF IsLiteral
    <3> QED BY <2>1, <3>1, <3>2, <3>3, Zenon
  <2>5. PICK tail : tail = IF k < Len(vs) THEN <<Mark("COMMA")>> ELSE <<>>
    OBVIOUS
  <2>6. tail \in TokenSeqs
    BY <2>5, TokensIn, Joins
  <2>7. Element(vs, k) = writeValue(vs[k]) \o tail
    BY <2>5, Zenon DEF Element
  <2>8. a \o Element(vs, k) = (a \o writeValue(vs[k])) \o tail
    <3>1. (a \o writeValue(vs[k])) \o tail = a \o (writeValue(vs[k]) \o tail)
      BY <1>1, <2>6, Joins, Zenon
    <3> QED BY <2>7, <3>1, Zenon
  <2>9. CASE Quotable(vs[k])
    <3>1. Append(es, Literal(x)) = SubSeq(NormalList(vs), 1, k)
      <4>1. k \in 1 .. Len(NormalList(vs)) /\ NormalList(vs)[k] = NormalValue(vs[k])
              /\ NormalList(vs) \in Seq(Primitives)
        BY NormalListIs
      <4>2. SubSeq(NormalList(vs), 1, k)
              = Append(SubSeq(NormalList(vs), 1, k - 1), NormalList(vs)[k])
        BY <4>1, NextPrefix
      <4> QED BY <2>0, <2>2, <2>9, <4>1, <4>2, Zenon
    <3>2. \A i \in 1 .. k : Quotable(vs[i])
      BY <1>1, <1>3, <2>9
    <3>3. a \o Element(vs, k) = b \o tail
      BY <2>2, <2>3, <2>8, <2>9, Zenon
    <3>4. CASE k < Len(vs)
      <4>1. Mark("COMMA") \in AllTokens /\ Mark("COMMA").type = "COMMA"
        BY TokensIn DEF Mark, Token
      <4>2. Parsing(b \o <<Mark("COMMA")>>) = Shift(Parsing(b), Mark("COMMA"))
        BY <2>4, <4>1, ReadToken
      <4>3. Shift(Parsing(b), Mark("COMMA")) = State("element", ps, n, SubSeq(NormalList(vs), 1, k))
        BY <2>4, <3>1, <4>1, ShiftIs
      <4>4. Parsing(a \o Element(vs, k)) = State("element", ps, n, SubSeq(NormalList(vs), 1, k))
        BY <2>5, <3>3, <3>4, <4>2, <4>3, Zenon
      <4> QED BY <1>1, <3>2, <3>4, <4>4 DEF ListRead
    <3>5. CASE k = Len(vs)
      <4>1. tail = <<>>
        BY <1>1, <2>5, <3>5
      <4>2. Parsing(a \o Element(vs, k)) = State("more", ps, n, SubSeq(NormalList(vs), 1, k))
        BY <2>4, <3>1, <3>3, <4>1, Joins, Zenon
      <4> QED BY <1>1, <3>2, <3>5, <4>2 DEF ListRead
    <3> QED BY <1>1, <3>4, <3>5
  <2>10. CASE ~Quotable(vs[k])
    <3>1. PICK y \in AllTokens : y.type = "PARAMETER" /\ writeValue(vs[k]) = <<x, y>>
      BY <2>2, <2>10
    <3>2. writeValue(vs[k]) = <<x>> \o <<y>>
      BY <3>1
    <3>3. a \o writeValue(vs[k]) = b \o <<y>> /\ a \o writeValue(vs[k]) \in TokenSeqs
      <4>1. <<x>> \in TokenSeqs /\ <<y>> \in TokenSeqs
        BY Joins, Zenon
      <4>2. (a \o <<x>>) \o <<y>> = a \o (<<x>> \o <<y>>)
        BY <4>1, Joins, Zenon
      <4>3. a \o writeValue(vs[k]) \in TokenSeqs
        BY <1>1, Joins, Zenon
      <4> QED BY <2>3, <3>2, <4>2, <4>3, Zenon
    <3>4. Parsing(b \o <<y>>) = State("nothing", ps, n, Append(es, Literal(x)))
      <4>1. Parsing(b \o <<y>>) = Shift(Parsing(b), y)
        BY <2>4, ReadToken
      <4> QED BY <2>4, <3>1, <4>1, ShiftRejects
    <3>5. Parsing(a \o writeValue(vs[k])) = State("nothing", ps, n, Append(es, Literal(x)))
      BY <3>3, <3>4, Zenon
    <3>6. Parsing((a \o writeValue(vs[k])) \o tail)
            = State("nothing", ps, n, Append(es, Literal(x)))
      BY <2>6, <3>3, <3>5, NothingStays
    <3>7. \E i \in 1 .. k : ~Quotable(vs[i])
      BY <1>1, <2>10
    <3>8. \E fs : Parsing(a \o Element(vs, k)) = State("nothing", ps, n, fs)
      BY <2>8, <3>6, Zenon
    <3> QED BY <3>7, <3>8, Zenon DEF ListRead
  <2> QED BY <2>9, <2>10
<1> QED BY <1>2, <1>3

\* The elements of a list.
LEMMA ReadList ==
    ASSUME NEW a \in TokenSeqs, NEW vs \in Seq(Primitives), NEW ps, NEW n,
           Parsing(a) = State("element", ps, n, <<>>)
    PROVE  ListRead(Parsing(a \o writeList(vs)), vs, ps, n, Len(vs))
<1>1. Len(vs) \in Nat
  BY LenProperties
<1>2. PICK G \in [0 .. Len(vs) -> Seq(AllTokens)] :
             /\ G[0] = <<>> /\ G[Len(vs)] = writeList(vs)
             /\ \A k \in 1 .. Len(vs) : G[k] = G[k - 1] \o Element(vs, k)
  BY ListSteps
<1> DEFINE T == {k \in 0 .. Len(vs) : ListRead(Parsing(a \o G[k]), vs, ps, n, k)}
<1>3. 0 \in T
  <2>1. a \o G[0] = a
    BY <1>2, Joins, Zenon
  <2>2. SubSeq(NormalList(vs), 1, 0) = <<>>
    BY SubSeqEmpty
  <2>3. ListRead(Parsing(a), vs, ps, n, 0)
    BY <2>2 DEF ListRead
  <2>4. ListRead(Parsing(a \o G[0]), vs, ps, n, 0)
    BY <2>1, <2>3, Zenon
  <2>5. 0 \in 0 .. Len(vs)
    BY <1>1
  <2> QED BY <2>4, <2>5
<1>4. ASSUME NEW k \in 1 .. Len(vs), k - 1 \in T PROVE k \in T
  <2>0. ListRead(Parsing(a \o G[k - 1]), vs, ps, n, k - 1)
    BY <1>4
  <2> HIDE DEF T
  <2>1. k \in 0 .. Len(vs) /\ k - 1 \in 0 .. Len(vs)
    BY <1>1
  <2>2. G[k - 1] \in TokenSeqs /\ Element(vs, k) \in TokenSeqs
    BY <1>2, <2>1, ElementLacks DEF Lacks, TokenSeqs
  <2>3. G[k] = G[k - 1] \o Element(vs, k)
    BY <1>2
  <2>4. a \o G[k] = (a \o G[k - 1]) \o Element(vs, k) /\ a \o G[k - 1] \in TokenSeqs
    <3>1. (a \o G[k - 1]) \o Element(vs, k) = a \o (G[k - 1] \o Element(vs, k))
      BY <2>2, Joins, Zenon
    <3>2. a \o G[k - 1] \in TokenSeqs
      BY <2>2, Joins, Zenon
    <3> QED BY <2>3, <3>1, <3>2, Zenon
  <2>5. ListRead(Parsing((a \o G[k - 1]) \o Element(vs, k)), vs, ps, n, k)
    BY <2>0, <2>4, ReadElement
  <2>6. ListRead(Parsing(a \o G[k]), vs, ps, n, k)
    BY <2>4, <2>5, Zenon
  <2> QED BY <2>1, <2>6 DEF T
<1>5. Len(vs) \in T
  <2> HIDE DEF T
  <2> QED BY <1>1, <1>3, <1>4, UpTo
<1> QED BY <1>2, <1>5

\* The states after an error between two parameters.
Dead(p) == \E e \in {"nothing", "assignment"} : \E ps, n, es : p = State(e, ps, n, es)

\* The first two tokens of a parameter.
Headed(a, p) == (a \o <<Token("PARAMETER", p.name)>>) \o <<Mark("ASSIGNMENT")>>

\* The first two tokens.
LEMMA HeadTokens ==
    ASSUME NEW p \in Writables
    PROVE  /\ Token("PARAMETER", p.name) \in AllTokens /\ Mark("ASSIGNMENT") \in AllTokens
           /\ Token("PARAMETER", p.name).type = "PARAMETER"
           /\ Token("PARAMETER", p.name).word = p.name
           /\ Mark("ASSIGNMENT").type = "ASSIGNMENT"
<1>1. p.name \in Names
  BY DEF Writables
<1>2. Token("PARAMETER", p.name) \in AllTokens /\ Mark("ASSIGNMENT") \in AllTokens
  BY <1>1, TokensIn
<1> QED BY <1>2 DEF Token, Mark

\* What comes behind them is a text,
LEMMA RestIn ==
    ASSUME NEW p \in Writables
    PROVE  Rest(p) \in TokenSeqs
BY RestLacks DEF Lacks, TokenSeqs

\* and the three are what writeParameter prints.
LEMMA HeadedIs ==
    ASSUME NEW a \in TokenSeqs, NEW p \in Writables
    PROVE  /\ a \o <<Token("PARAMETER", p.name)>> \in TokenSeqs
           /\ Headed(a, p) \in TokenSeqs
           /\ a \o writeParameter(p) = Headed(a, p) \o Rest(p)
           /\ writeParameter(p) =
                (<<Token("PARAMETER", p.name)>> \o <<Mark("ASSIGNMENT")>>) \o Rest(p)
<1>1. PICK x \in AllTokens : x = Token("PARAMETER", p.name)
  BY HeadTokens
<1>2. PICK y \in AllTokens : y = Mark("ASSIGNMENT")
  BY HeadTokens
<1>3. <<x>> \in TokenSeqs /\ <<y>> \in TokenSeqs
  BY Joins, Zenon
<1>4. PICK r \in TokenSeqs : r = Rest(p)
  BY RestIn
<1>5. writeParameter(p) = <<x, y>> \o r
  BY <1>1, <1>2, <1>4, WriteParameterIs
<1>6. <<x, y>> = <<x>> \o <<y>>
  OBVIOUS
<1>7. a \o <<x>> \in TokenSeqs /\ <<x>> \o <<y>> \in TokenSeqs
  BY <1>3, Joins, Zenon
<1>8. (a \o <<x>>) \o <<y>> \in TokenSeqs
  BY <1>3, <1>7, Joins, Zenon
<1>9. (a \o <<x>>) \o <<y>> = a \o (<<x>> \o <<y>>)
  BY <1>3, Joins, Zenon
<1>10. (a \o (<<x>> \o <<y>>)) \o r = a \o ((<<x>> \o <<y>>) \o r)
  <2>1. PICK z \in TokenSeqs : z = <<x>> \o <<y>>
    BY <1>7, Zenon
  <2>2. (a \o z) \o r = a \o (z \o r)
    BY Joins, Zenon
  <2> QED BY <2>1, <2>2, Zenon
<1>11. writeParameter(p) = (<<x>> \o <<y>>) \o r
  BY <1>5, <1>6, Zenon
<1>12. Headed(a, p) = (a \o <<x>>) \o <<y>>
  BY <1>1, <1>2, Zenon DEF Headed
<1>13. a \o writeParameter(p) = Headed(a, p) \o r
  BY <1>9, <1>10, <1>11, <1>12, Zenon
<1> QED BY <1>1, <1>2, <1>4, <1>7, <1>8, <1>11, <1>12, <1>13, Zenon

\* After a name and an equals sign a value is awaited.
LEMMA ReadHead ==
    ASSUME NEW a \in TokenSeqs, NEW p \in Writables, NEW ps, NEW n,
           Parsing(a) = State("name", ps, n, <<>>)
    PROVE  /\ Parsing(a \o <<Token("PARAMETER", p.name)>>) = State("assignment", ps, p.name, <<>>)
           /\ Parsing(Headed(a, p)) = State("value", ps, p.name, <<>>)
<1>1. PICK x \in AllTokens : x = Token("PARAMETER", p.name)
  BY HeadTokens
<1>2. PICK y \in AllTokens : y = Mark("ASSIGNMENT")
  BY HeadTokens
<1>3. x.type = "PARAMETER" /\ x.word = p.name /\ y.type = "ASSIGNMENT"
  BY <1>1, <1>2, HeadTokens
<1>4. Parsing(a \o <<x>>) = State("assignment", ps, p.name, <<>>)
  <2>1. Parsing(a \o <<x>>) = Shift(Parsing(a), x)
    BY ReadToken, Zenon
  <2> QED BY <1>3, <2>1, ShiftIs
<1>5. a \o <<x>> \in TokenSeqs
  BY <1>1, HeadedIs
<1>6. Parsing((a \o <<x>>) \o <<y>>) = State("value", ps, p.name, <<>>)
  <2>1. Parsing((a \o <<x>>) \o <<y>>) = Shift(Parsing(a \o <<x>>), y)
    BY <1>5, ReadToken, Zenon
  <2> QED BY <1>3, <1>4, <2>1, ShiftIs
<1> QED BY <1>1, <1>2, <1>4, <1>6, Zenon DEF Headed

\* A value that is no list.
LEMMA ReadSimple ==
    ASSUME NEW b \in TokenSeqs, NEW v \in Primitives, NEW ps, NEW n,
           Parsing(b) = State("value", ps, n, <<>>)
    PROVE  /\ Quotable(v) =>
                Parsing(b \o writeValue(v))
                  = State("name", Append(ps, Param(n, NormalValue(v))), n, <<>>)
           /\ ~Quotable(v) => Dead(Parsing(b \o writeValue(v)))
<1>1. PICK x \in AllTokens :
             /\ IsLiteral(x)
             /\ Quotable(v) => writeValue(v) = <<x>> /\ Literal(x) = NormalValue(v)
             /\ ~Quotable(v) =>
                  \E y \in AllTokens : y.type = "PARAMETER" /\ writeValue(v) = <<x, y>>
  BY WriteValueIs
<1>2. Parsing(b \o <<x>>) = State("name", Append(ps, Param(n, Literal(x))), n, <<>>)
  <2>1. Parsing(b \o <<x>>) = Shift(Parsing(b), x)
    BY ReadToken, Zenon
  <2> QED BY <1>1, <2>1, ShiftIs DEF IsLiteral
<1>3. ASSUME ~Quotable(v) PROVE Dead(Parsing(b \o writeValue(v)))
  <2>1. PICK y \in AllTokens : y.type = "PARAMETER" /\ writeValue(v) = <<x, y>>
    BY <1>1, <1>3
  <2>2. writeValue(v) = <<x>> \o <<y>>
    BY <2>1
  <2>3. <<x>> \in TokenSeqs /\ <<y>> \in TokenSeqs /\ b \o <<x>> \in TokenSeqs
    BY Joins, Zenon
  <2>4. (b \o <<x>>) \o <<y>> = b \o (<<x>> \o <<y>>)
    BY <2>3, Joins, Zenon
  <2>5. Parsing((b \o <<x>>) \o <<y>>) = Shift(Parsing(b \o <<x>>), y)
    BY <2>3, ReadToken, Zenon
  <2>6. Shift(Parsing(b \o <<x>>), y)
          = State("assignment", Append(ps, Param(n, Literal(x))), y.word, <<>>)
    BY <1>2, <2>1, ShiftIs
  <2>7. Parsing(b \o writeValue(v))
          = State("assignment", Append(ps, Param(n, Literal(x))), y.word, <<>>)
    BY <2>2, <2>4, <2>5, <2>6, Zenon
  <2> QED BY <2>7 DEF Dead
<1>4. ASSUME Quotable(v)
      PROVE  Parsing(b \o writeValue(v))
               = State("name", Append(ps, Param(n, NormalValue(v))), n, <<>>)
  BY <1>1, <1>2, <1>4, Zenon
<1> QED BY <1>3, <1>4

\* A list, with its brackets.
Bracketed(vs) == (<<Mark("LIST_OPEN")>> \o writeList(vs)) \o <<Mark("LIST_CLOSE")>>

\* The parts of a list in brackets.
LEMMA BracketedIs ==
    ASSUME NEW b \in TokenSeqs, NEW vs \in Seq(Primitives)
    PROVE  /\ b \o Bracketed(vs)
                = ((b \o <<Mark("LIST_OPEN")>>) \o writeList(vs)) \o <<Mark("LIST_CLOSE")>>
           /\ b \o <<Mark("LIST_OPEN")>> \in TokenSeqs
           /\ (b \o <<Mark("LIST_OPEN")>>) \o writeList(vs) \in TokenSeqs
           /\ writeList(vs) \in TokenSeqs
           /\ Mark("LIST_OPEN") \in AllTokens /\ Mark("LIST_CLOSE") \in AllTokens
           /\ Mark("LIST_OPEN").type = "LIST_OPEN" /\ Mark("LIST_CLOSE").type = "LIST_CLOSE"
<1>1. /\ Mark("LIST_OPEN") \in AllTokens /\ Mark("LIST_CLOSE") \in AllTokens
      /\ Mark("LIST_OPEN").type = "LIST_OPEN" /\ Mark("LIST_CLOSE").type = "LIST_CLOSE"
  BY TokensIn DEF Mark, Token
<1>2. PICK o \in TokenSeqs : o = <<Mark("LIST_OPEN")>>
  BY <1>1, Joins
<1>3. PICK c \in TokenSeqs : c = <<Mark("LIST_CLOSE")>>
  BY <1>1, Joins
<1>4. PICK l \in TokenSeqs : l = writeList(vs)
  BY ListLacks DEF Lacks, TokenSeqs
<1>5. b \o o \in TokenSeqs /\ o \o l \in TokenSeqs
  BY Joins, Zenon
<1>6. (b \o o) \o l \in TokenSeqs
  BY <1>5, Joins, Zenon
<1>7. (b \o o) \o l = b \o (o \o l)
  BY Joins, Zenon
<1>8. (b \o (o \o l)) \o c = b \o ((o \o l) \o c)
  BY <1>5, Joins, Zenon
<1>9. Bracketed(vs) = (o \o l) \o c
  BY <1>2, <1>3, <1>4, Zenon DEF Bracketed
<1>10. b \o Bracketed(vs) = ((b \o o) \o l) \o c
  BY <1>7, <1>8, <1>9, Zenon
<1> QED BY <1>1, <1>2, <1>3, <1>4, <1>5, <1>6, <1>10, Zenon

\* A list is read if it is not empty and each of its elements is.
LEMMA ReadBracketed ==
    ASSUME NEW b \in TokenSeqs, NEW vs \in Seq(Primitives), NEW ps, NEW n,
           Parsing(b) = State("value", ps, n, <<>>)
    PROVE  IF vs # <<>> /\ \A i \in DOMAIN vs : Quotable(vs[i])
           THEN Parsing(b \o Bracketed(vs)) =
                    State("name", Append(ps, Param(n, Value("List", NormalList(vs)))), n, <<>>)
           ELSE Dead(Parsing(b \o Bracketed(vs)))
<1>1. Len(vs) \in Nat /\ DOMAIN vs = 1 .. Len(vs) /\ (vs # <<>> <=> Len(vs) > 0)
  BY LenProperties, EmptySeq
<1>2. PICK c \in TokenSeqs : c = b \o <<Mark("LIST_OPEN")>>
  BY BracketedIs
<1>3. Parsing(c) = State("element", ps, n, <<>>)
  <2>1. Parsing(c) = Shift(Parsing(b), Mark("LIST_OPEN"))
    BY <1>2, BracketedIs, ReadToken, Zenon
  <2> QED BY <2>1, BracketedIs, ShiftIs
<1>4. PICK d \in TokenSeqs : d = c \o writeList(vs)
  BY <1>2, BracketedIs
<1>5. ListRead(Parsing(d), vs, ps, n, Len(vs))
  BY <1>3, <1>4, ReadList
<1>6. Parsing(b \o Bracketed(vs)) = Shift(Parsing(d), Mark("LIST_CLOSE"))
  <2>1. b \o Bracketed(vs) = d \o <<Mark("LIST_CLOSE")>>
    BY <1>2, <1>4, BracketedIs, Zenon
  <2>2. Mark("LIST_CLOSE") \in AllTokens
    BY BracketedIs
  <2>3. Parsing(d \o <<Mark("LIST_CLOSE")>>) = Shift(Parsing(d), Mark("LIST_CLOSE"))
    BY <2>2, ReadToken
  <2> QED BY <2>1, <2>3, Zenon
<1>7. Mark("LIST_CLOSE").type = "LIST_CLOSE"
  BY BracketedIs
<1>8. CASE \E i \in 1 .. Len(vs) : ~Quotable(vs[i])
  <2>1. PICK es : Parsing(d) = State("nothing", ps, n, es)
    BY <1>5, <1>8 DEF ListRead
  <2>2. Parsing(b \o Bracketed(vs)) = State("nothing", ps, n, es)
    BY <1>6, <2>1, ShiftRejects
  <2>3. Dead(Parsing(b \o Bracketed(vs)))
    BY <2>2 DEF Dead
  <2> QED BY <1>1, <1>8, <2>3
<1>9. CASE \A i \in 1 .. Len(vs) : Quotable(vs[i])
  <2>1. CASE Len(vs) > 0
    <3>1. SubSeq(NormalList(vs), 1, Len(vs)) = NormalList(vs)
      BY NormalListIs, SubSeqFull
    <3>2. Parsing(d) = State("more", ps, n, NormalList(vs))
      BY <1>5, <1>9, <2>1, <3>1 DEF ListRead
    <3>3. Parsing(b \o Bracketed(vs)) =
            State("name", Append(ps, Param(n, Value("List", NormalList(vs)))), n, <<>>)
      BY <1>6, <1>7, <3>2, ShiftIs
    <3> QED BY <1>1, <1>9, <2>1, <3>3
  <2>2. CASE Len(vs) = 0
    <3>1. Parsing(d) = State("element", ps, n, SubSeq(NormalList(vs), 1, Len(vs)))
      BY <1>5, <1>9, <2>2 DEF ListRead
    <3>2. Shift(Parsing(d), Mark("LIST_CLOSE"))
            = State("nothing", ps, n, SubSeq(NormalList(vs), 1, Len(vs)))
      BY <1>7, <3>1, LiteralTypes, ShiftRejects
    <3>3. Dead(Parsing(b \o Bracketed(vs)))
      BY <1>6, <3>2 DEF Dead
    <3> QED BY <1>1, <2>2, <3>3
  <2> QED BY <1>1, <2>1, <2>2
<1> QED BY <1>8, <1>9

\* A parameter is read as its normal form, or leads to an error.
LEMMA ReadParameter ==
    ASSUME NEW a \in TokenSeqs, NEW p \in Writables, NEW ps, NEW n,
           Parsing(a) = State("name", ps, n, <<>>)
    PROVE  IF Storable(p.val)
           THEN Parsing(a \o writeParameter(p)) =
                    State("name", Append(ps, Param(p.name, Normal(p.val))), p.name, <<>>)
           ELSE Dead(Parsing(a \o writeParameter(p)))
<1>1. PICK b \in TokenSeqs : b = Headed(a, p)
  BY HeadedIs
<1>2. Parsing(b) = State("value", ps, p.name, <<>>)
  BY <1>1, ReadHead
<1>3. a \o writeParameter(p) = b \o Rest(p)
  BY <1>1, HeadedIs
<1>4. p.val \in ParamValues
  BY DEF Writables
<1>5. CASE p.val.type = "List"
  <2>1. PICK vs \in Seq(Primitives) : vs = p.val.word
    BY <1>4, <1>5, ParamValueIs
  <2>2. Rest(p) = Bracketed(vs)
    BY <1>5, <2>1 DEF Rest, Bracketed
  <2>3. Normal(p.val) = Value("List", NormalList(vs))
    BY <1>5, <2>1 DEF Normal, NormalList
  <2>4. Storable(p.val) <=> vs # <<>> /\ \A i \in DOMAIN vs : Quotable(vs[i])
    BY <1>5, <2>1 DEF Storable
  <2>5. IF vs # <<>> /\ \A i \in DOMAIN vs : Quotable(vs[i])
        THEN Parsing(b \o Bracketed(vs)) =
                 State("name", Append(ps, Param(p.name, Value("List", NormalList(vs)))), p.name,
                   <<>>)
        ELSE Dead(Parsing(b \o Bracketed(vs)))
    BY <1>2, ReadBracketed
  <2> QED BY <1>3, <2>2, <2>3, <2>4, <2>5, Zenon
<1>6. CASE p.val.type # "List"
  <2>1. PICK v \in Primitives : v = p.val
    BY <1>4, <1>6, ParamValueIs
  <2>2. Rest(p) = writeValue(v) /\ Normal(p.val) = NormalValue(v)
          /\ (Storable(p.val) <=> Quotable(v))
    BY <1>6, <2>1 DEF Rest, Normal, Storable
  <2>3. /\ Quotable(v) =>
             Parsing(b \o writeValue(v))
               = State("name", Append(ps, Param(p.name, NormalValue(v))), p.name, <<>>)
        /\ ~Quotable(v) => Dead(Parsing(b \o writeValue(v)))
    BY <1>2, ReadSimple
  <2> QED BY <1>3, <2>2, <2>3, Zenon
<1> QED BY <1>5, <1>6

\* Nothing is read of a parameter after an error.
LEMMA DeadStays ==
    ASSUME NEW a \in TokenSeqs, NEW p \in Writables, Dead(Parsing(a))
    PROVE  \E ps, n, es :
             /\ Parsing(a \o writeParameter(p)) = State("nothing", ps, n, es)
             /\ \A k \in 1 .. Len(writeParameter(p)) :
                  Parsing(a \o SubSeq(writeParameter(p), 1, k)) = State("nothing", ps, n, es)
<1>1. PICK e \in {"nothing", "assignment"} : \E ps, n, es : Parsing(a) = State(e, ps, n, es)
  BY DEF Dead
<1>2. PICK ps, n, es : Parsing(a) = State(e, ps, n, es)
  BY <1>1
<1>3. PICK w \in TokenSeqs : w = writeParameter(p)
  BY WriteParameterIs DEF TokenSeqs
<1>4. Len(w) \in Nat /\ Len(w) >= 2 /\ w[1].type = "PARAMETER"
  <2>1. Len(w) = Len(Rest(p)) + 2 /\ Len(Rest(p)) \in Nat /\ w[1] = Token("PARAMETER", p.name)
    BY <1>3, WriteParameterIs
  <2>2. w[1].type = "PARAMETER"
    BY <2>1, HeadTokens
  <2> QED BY <2>1, <2>2
<1>5. Parsing(a \o SubSeq(w, 1, 1)) = State("nothing", ps, n, es)
  <2>1. 1 \in 1 .. Len(w) /\ 1 - 1 = 0
    BY <1>4
  <2>2. Parsing(a \o SubSeq(w, 1, 1)) = Shift(Parsing(a \o SubSeq(w, 1, 1 - 1)), w[1])
    BY <2>1, ReadNext
  <2>3. Parsing(a \o SubSeq(w, 1, 1)) = Shift(Parsing(a), w[1])
    BY <2>1, <2>2, NothingOf, Zenon
  <2> QED BY <1>2, <1>4, <2>3, ShiftRejects
<1> DEFINE T == {k \in 0 .. Len(w) :
                  k = 0 \/ Parsing(a \o SubSeq(w, 1, k)) = State("nothing", ps, n, es)}
<1>6. ASSUME NEW m \in 0 .. Len(w) PROVE m \in T
  <2>1. 0 \in T
    BY <1>4
  <2>2. ASSUME NEW k \in 1 .. m, k - 1 \in T PROVE k \in T
    <3>1. k \in 1 .. Len(w) /\ k \in 0 .. Len(w)
      BY <1>4
    <3>2. CASE k = 1
      BY <1>5, <3>1, <3>2
    <3>3. CASE k # 1
      <4>1. k - 1 # 0
        BY <3>3
      <4>2. Parsing(a \o SubSeq(w, 1, k - 1)) = State("nothing", ps, n, es)
        BY <2>2, <4>1
      <4>3. Parsing(a \o SubSeq(w, 1, k)) = State("nothing", ps, n, es)
        BY <3>1, <4>2, ReadNext, ShiftRejects
      <4> QED BY <3>1, <4>3
    <3> QED BY <3>2, <3>3
  <2> HIDE DEF T
  <2> QED BY <1>4, <2>1, <2>2, UpTo
<1>7. \A k \in 1 .. Len(w) : Parsing(a \o SubSeq(w, 1, k)) = State("nothing", ps, n, es)
  <2>1. ASSUME NEW k \in 1 .. Len(w)
        PROVE Parsing(a \o SubSeq(w, 1, k)) = State("nothing", ps, n, es)
    <3>1. k \in 0 .. Len(w) /\ k # 0
      BY <1>4
    <3> QED BY <1>6, <3>1
  <2> QED BY <2>1
<1>8. Parsing(a \o w) = State("nothing", ps, n, es)
  <2>1. Len(w) \in 1 .. Len(w)
    BY <1>4
  <2> QED BY <1>7, <2>1, NothingOf, Zenon
<1> QED BY <1>3, <1>7, <1>8, Zenon

\* got is the beginning of want, but for its last value.
Begins(got, want) ==
    /\ Len(got) <= Len(want)
    /\ \A i \in DOMAIN got : got[i].name = want[i].name
    /\ \A i \in DOMAIN got : i < Len(got) => got[i] = want[i]

\* A list that agrees up to k - 1 agrees up to the last but one when k is added.
LEMMA BeginsAppend ==
    ASSUME NEW S, NEW want \in Seq(S), NEW k \in 1 .. Len(want), NEW v
    PROVE  Begins(Append(SubSeq(want, 1, k - 1), Param(want[k].name, v)), want)
<1>1. Len(want) \in Nat
  BY LenProperties
<1>2. PICK x : x = Param(want[k].name, v)
  OBVIOUS
<1>3. PICK h : h = SubSeq(want, 1, k - 1)
  OBVIOUS
<1>4. PICK U : U = S \cup {x}
  OBVIOUS
<1>5. \A i \in 1 .. k - 1 : want[i] \in U
  BY <1>1, <1>4, ElementOfSeq
<1>6. h \in Seq(U) /\ Len(h) = k - 1 /\ \A i \in 1 .. k - 1 : h[i] = want[i]
  <2>1. /\ h \in Seq(U) /\ Len(h) = (IF 1 <= k - 1 THEN (k - 1) - 1 + 1 ELSE 0)
        /\ \A i \in 1 .. (k - 1) - 1 + 1 : h[i] = want[1 + i - 1]
    BY <1>1, <1>3, <1>5, SubSeqProperties
  <2>2. (k - 1) - 1 + 1 = k - 1 /\ \A i \in 1 .. k - 1 : 1 + i - 1 = i
    BY <1>1
  <2>3. Len(h) = k - 1
    BY <1>1, <2>1
  <2>4. \A i \in 1 .. k - 1 : h[i] = want[i]
    BY <2>1, <2>2
  <2> QED BY <2>1, <2>3, <2>4
<1>7. PICK g : g = Append(h, x)
  OBVIOUS
<1>8. /\ g \in Seq(U) /\ Len(g) = k /\ \A i \in 1 .. k - 1 : g[i] = h[i]
      /\ g[k] = x /\ DOMAIN g = 1 .. k
  <2>1. x \in U
    BY <1>4
  <2>2. /\ g \in Seq(U) /\ Len(g) = Len(h) + 1 /\ \A i \in 1 .. Len(h) : g[i] = h[i]
        /\ g[Len(h) + 1] = x
    BY <1>6, <1>7, <2>1, AppendProperties
  <2>3. Len(h) + 1 = k
    BY <1>1, <1>6
  <2> QED BY <1>6, <2>2, <2>3, LenProperties
<1>9. ASSUME NEW i \in 1 .. k PROVE g[i].name = want[i].name /\ (i < k => g[i] = want[i])
  <2>1. CASE i = k
    BY <1>1, <1>2, <1>8, <2>1 DEF Param
  <2>2. CASE i # k
    <3>1. i \in 1 .. k - 1
      BY <1>1, <2>2
    <3> QED BY <1>6, <1>8, <3>1
  <2> QED BY <2>1, <2>2
<1>10. Begins(g, want)
  BY <1>8, <1>9 DEF Begins
<1> QED BY <1>2, <1>3, <1>7, <1>10

\* Wherever s is cut, what can be read of it after a is the beginning of want.
Sound(a, s, want) ==
    \A k \in 1 .. Len(s) :
        Accepts(a \o SubSeq(s, 1, k)) => Begins(Parsed(a \o SubSeq(s, 1, k)), want)

\* One token.
LEMMA SoundToken ==
    ASSUME NEW a \in TokenSeqs, NEW x \in AllTokens, NEW want,
           Parsing(a \o <<x>>).expects = "name" => Begins(Parsing(a \o <<x>>).params, want)
    PROVE  Sound(a, <<x>>, want)
<1>1. <<x>> \in TokenSeqs /\ Len(<<x>>) = 1
  BY Joins
<1>2. SubSeq(<<x>>, 1, 1) = <<x>>
  BY <1>1, SubSeqFull DEF TokenSeqs
<1>3. ASSUME NEW k \in 1 .. Len(<<x>>) PROVE k = 1
  BY <1>1, <1>3
<1> QED BY <1>2, <1>3 DEF Sound, Accepts, Parsed

\* A part in which no parameter ends.
LEMMA SoundNever ==
    ASSUME NEW a, NEW s, NEW want,
           \A k \in 1 .. Len(s) : Parsing(a \o SubSeq(s, 1, k)).expects # "name"
    PROVE  Sound(a, s, want)
BY DEF Sound, Accepts

\* Two parts.
LEMMA SoundConcat ==
    ASSUME NEW a \in TokenSeqs, NEW s \in TokenSeqs, NEW u \in TokenSeqs, NEW want,
           Sound(a, s, want), Sound(a \o s, u, want)
    PROVE  Sound(a, s \o u, want)
<1>1. Len(s) \in Nat /\ Len(u) \in Nat /\ s \o u \in TokenSeqs /\ Len(s \o u) = Len(s) + Len(u)
  BY LenProperties, ConcatProperties DEF TokenSeqs
<1>2. ASSUME NEW k \in 1 .. Len(s) + Len(u), Accepts(a \o SubSeq(s \o u, 1, k))
      PROVE  Begins(Parsed(a \o SubSeq(s \o u, 1, k)), want)
  <2>1. CASE k <= Len(s)
    <3>1. k \in 1 .. Len(s) /\ 1 \in 1 .. Len(s)
      BY <1>1, <2>1
    <3>2. SubSeq(s \o u, 1, k) = SubSeq(s, 1, k)
      BY <3>1, SubSeqOfConcat1 DEF TokenSeqs
    <3> QED BY <1>2, <3>1, <3>2 DEF Sound
  <2>2. CASE k > Len(s)
    <3>0. k - Len(s) \in 1 .. Len(u)
      BY <1>1, <2>2
    <3>1. PICK j \in 1 .. Len(u) : j = k - Len(s)
      BY <3>0
    <3>2. PICK h : h = SubSeq(u, 1, j)
      OBVIOUS
    <3>3. SubSeq(s \o u, 1, k) = s \o h
      <4>1. SubSeq(s \o u, 1, k) \in TokenSeqs /\ Len(SubSeq(s \o u, 1, k)) = k
            /\ \A i \in 1 .. k : SubSeq(s \o u, 1, k)[i] = (s \o u)[i]
        <5>1. \A i \in 1 .. k : (s \o u)[i] \in AllTokens
          <6>1. \A i \in 1 .. k : i \in 1 .. Len(s \o u)
            BY <1>1
          <6> QED BY <1>1, <6>1, ElementOfSeq DEF TokenSeqs
        <5>2. /\ SubSeq(s \o u, 1, k) \in Seq(AllTokens)
              /\ Len(SubSeq(s \o u, 1, k)) = (IF 1 <= k THEN k - 1 + 1 ELSE 0)
              /\ \A i \in 1 .. k - 1 + 1 : SubSeq(s \o u, 1, k)[i] = (s \o u)[1 + i - 1]
          BY <1>1, <5>1, SubSeqProperties
        <5>3. k - 1 + 1 = k /\ \A i \in 1 .. k : 1 + i - 1 = i
          BY <1>1
        <5>4. \A i \in 1 .. k : SubSeq(s \o u, 1, k)[i] = (s \o u)[i]
          BY <5>2, <5>3
        <5> QED BY <1>1, <5>2, <5>3, <5>4 DEF TokenSeqs
      <4>2. h \in TokenSeqs /\ Len(h) = j /\ \A i \in 1 .. j : h[i] = u[i]
        <5>1. \A i \in 1 .. j : u[i] \in AllTokens
          <6>1. \A i \in 1 .. j : i \in 1 .. Len(u)
            BY <1>1
          <6> QED BY <6>1, ElementOfSeq DEF TokenSeqs
        <5>2. /\ h \in Seq(AllTokens) /\ Len(h) = (IF 1 <= j THEN j - 1 + 1 ELSE 0)
              /\ \A i \in 1 .. j - 1 + 1 : h[i] = u[1 + i - 1]
          BY <1>1, <3>2, <5>1, SubSeqProperties
        <5>3. j - 1 + 1 = j /\ \A i \in 1 .. j : 1 + i - 1 = i
          BY <1>1
        <5>4. \A i \in 1 .. j : h[i] = u[i]
          BY <5>2, <5>3
        <5> QED BY <1>1, <5>2, <5>3, <5>4 DEF TokenSeqs
      <4>3. /\ s \o h \in TokenSeqs /\ Len(s \o h) = Len(s) + j
            /\ \A i \in 1 .. Len(s) + j : (s \o h)[i] = IF i <= Len(s) THEN s[i] ELSE h[i - Len(s)]
        BY <4>2, ConcatProperties DEF TokenSeqs
      <4>4. \A i \in 1 .. Len(s) + Len(u) :
              (s \o u)[i] = IF i <= Len(s) THEN s[i] ELSE u[i - Len(s)]
        BY ConcatProperties DEF TokenSeqs
      <4>5. Len(s) + j = k
        BY <1>1, <3>1
      <4>6. ASSUME NEW i \in 1 .. k PROVE (s \o u)[i] = (s \o h)[i]
        <5>1. i \in 1 .. Len(s) + Len(u) /\ i \in 1 .. Len(s) + j
          BY <1>1, <4>5
        <5>2. CASE i <= Len(s)
          BY <4>3, <4>4, <5>1, <5>2
        <5>3. CASE ~ (i <= Len(s))
          <6>1. i - Len(s) \in 1 .. j
            BY <1>1, <5>1, <5>3
          <6>2. (s \o u)[i] = u[i - Len(s)] /\ (s \o h)[i] = h[i - Len(s)]
            BY <4>3, <4>4, <5>1, <5>3
          <6> QED BY <4>2, <6>1, <6>2
        <5> QED BY <5>2, <5>3
      <4>7. \A i \in 1 .. k : SubSeq(s \o u, 1, k)[i] = (s \o h)[i]
        BY <4>1, <4>6
      <4>8. PICK l : l = SubSeq(s \o u, 1, k)
        OBVIOUS
      <4>9. PICK r : r = s \o h
        OBVIOUS
      <4>10. l \in Seq(AllTokens) /\ r \in Seq(AllTokens) /\ Len(l) = Len(r)
               /\ \A i \in 1 .. Len(l) : l[i] = r[i]
        BY <4>1, <4>3, <4>5, <4>7, <4>8, <4>9 DEF TokenSeqs
      <4>11. l = r
        BY <4>10, SeqEqual
      <4> QED BY <4>8, <4>9, <4>11
    <3>4. h \in TokenSeqs
      <4>1. \A i \in 1 .. j : u[i] \in AllTokens
        <5>1. \A i \in 1 .. j : i \in 1 .. Len(u)
          BY <1>1
        <5> QED BY <5>1, ElementOfSeq DEF TokenSeqs
      <4> QED BY <1>1, <3>2, <4>1, SubSeqProperties DEF TokenSeqs
    <3>5. (a \o s) \o h = a \o (s \o h)
      BY <3>4, Joins, Zenon
    <3>6. a \o SubSeq(s \o u, 1, k) = (a \o s) \o SubSeq(u, 1, j)
      BY <3>2, <3>3, <3>5, Zenon
    <3>7. Accepts((a \o s) \o SubSeq(u, 1, j)) => Begins(Parsed((a \o s) \o SubSeq(u, 1, j)), want)
      BY DEF Sound
    <3> QED BY <1>2, <3>6, <3>7, Zenon
  <2> QED BY <1>1, <2>1, <2>2
<1> QED BY <1>1, <1>2 DEF Sound


\* The states of the parser inside a list.
AnyLiteral == {Literal(t) : t \in AllTokens}

InList(ps, n) ==
    [expects : {"element", "more", "nothing"}, params : {ps}, name : {n},
      elements : Seq(AnyLiteral)]

\* The parts of such a state.
LEMMA InListIs ==
    ASSUME NEW ps, NEW n, NEW p \in InList(ps, n)
    PROVE  p = State(p.expects, ps, n, p.elements)
BY DEF InList, State

\* Only a closing bracket leaves a list.
LEMMA InListStays ==
    ASSUME NEW ps, NEW n, NEW p \in InList(ps, n), NEW t \in AllTokens, t.type # "LIST_CLOSE"
    PROVE  Shift(p, t) \in InList(ps, n)
<1>1. PICK e \in {"element", "more", "nothing"} : e = p.expects
  BY DEF InList
<1>2. PICK es \in Seq(AnyLiteral) : es = p.elements
  BY DEF InList
<1>3. p = State(e, ps, n, es)
  BY <1>1, <1>2, InListIs
<1>4. ASSUME NEW f \in {"element", "more", "nothing"}, NEW fs \in Seq(AnyLiteral)
      PROVE  State(f, ps, n, fs) \in InList(ps, n)
  BY DEF State, InList
<1>5. CASE e = "element" /\ t.type \in DOMAIN Literals
  <2>1. Literal(t) \in AnyLiteral
    BY DEF AnyLiteral
  <2>2. Append(es, Literal(t)) \in Seq(AnyLiteral)
    BY <2>1, AppendProperties
  <2>3. Shift(p, t) = State("more", ps, n, Append(es, Literal(t)))
    BY <1>3, <1>5, ShiftIs
  <2> QED BY <1>4, <2>2, <2>3
<1>6. CASE e = "more" /\ t.type = "COMMA"
  <2>1. Shift(p, t) = State("element", ps, n, es)
    BY <1>3, <1>6, ShiftIs
  <2> QED BY <1>4, <2>1
<1>7. CASE \/ e = "element" /\ t.type \notin DOMAIN Literals
           \/ e = "more" /\ t.type # "COMMA"
           \/ e = "nothing"
  <2>1. Shift(p, t) = State("nothing", ps, n, es)
    BY <1>3, <1>7, ShiftRejects
  <2> QED BY <1>4, <2>1
<1> QED BY <1>5, <1>6, <1>7

\* The elements of a list lead to no parameter before the bracket.
LEMMA SoundList ==
    ASSUME NEW c \in TokenSeqs, NEW vs \in Seq(Primitives), NEW ps, NEW n,
           Parsing(c) = State("element", ps, n, <<>>), NEW want
    PROVE  /\ Sound(c, writeList(vs), want)
           /\ \E e \in {"element", "more", "nothing"} : \E es :
                Parsing(c \o writeList(vs)) = State(e, ps, n, es)
<1>1. PICK l \in TokenSeqs : l = writeList(vs)
  BY ListLacks DEF Lacks, TokenSeqs
<1>2. \A i \in 1 .. Len(l) : l[i] \in AllTokens /\ l[i].type # "LIST_CLOSE"
  <2>1. \A i \in 1 .. Len(l) : l[i].type # "LIST_CLOSE"
    BY <1>1, ListLacks DEF Lacks, Ends
  <2> QED BY <2>1, ElementOfSeq DEF TokenSeqs
<1>3. Len(l) \in Nat
  BY LenProperties DEF TokenSeqs
<1>4. \A k \in 0 .. Len(l) : Parsing(c \o SubSeq(l, 1, k)) \in InList(ps, n)
  <2>1. Parsing(c) \in InList(ps, n)
    <3>1. <<>> \in Seq(AnyLiteral)
      BY EmptySeq
    <3> QED BY <3>1 DEF InList, State
  <2>2. \A p \in InList(ps, n) : \A i \in 1 .. Len(l) : Shift(p, l[i]) \in InList(ps, n)
    BY <1>2, InListStays
  <2> QED BY <2>1, <2>2, Stays
<1>5. Sound(c, l, want)
  <2>1. ASSUME NEW k \in 1 .. Len(l) PROVE Parsing(c \o SubSeq(l, 1, k)).expects # "name"
    <3>1. k \in 0 .. Len(l)
      BY <1>3
    <3> QED BY <1>4, <3>1 DEF InList
  <2> QED BY <2>1, SoundNever
<1>6. Parsing(c \o l) \in InList(ps, n)
  <2>1. Len(l) \in 0 .. Len(l)
    BY <1>3
  <2>2. c \o SubSeq(l, 1, Len(l)) = c \o l
    BY NothingOf
  <2> QED BY <1>4, <2>1, <2>2
<1>7. \E e \in {"element", "more", "nothing"} : \E es : Parsing(c \o l) = State(e, ps, n, es)
  <2>1. Parsing(c \o l).expects \in {"element", "more", "nothing"}
    BY <1>6 DEF InList
  <2> QED BY <1>6, <2>1, InListIs
<1> QED BY <1>1, <1>5, <1>7

\* A value that is the last of the text may be another.
LEMMA SoundSimple ==
    ASSUME NEW S, NEW want \in Seq(S), NEW k \in 1 .. Len(want), NEW b \in TokenSeqs,
           NEW v \in Primitives,
           Parsing(b) = State("value", SubSeq(want, 1, k - 1), want[k].name, <<>>)
    PROVE  Sound(b, writeValue(v), want)
<1>1. PICK x \in AllTokens :
             /\ IsLiteral(x)
             /\ Quotable(v) => writeValue(v) = <<x>> /\ Literal(x) = NormalValue(v)
             /\ ~Quotable(v) =>
                  \E y \in AllTokens : y.type = "PARAMETER" /\ writeValue(v) = <<x, y>>
  BY WriteValueIs
<1>2. PICK ps : ps = SubSeq(want, 1, k - 1)
  OBVIOUS
<1>3. PICK n : n = want[k].name
  OBVIOUS
<1>4. Parsing(b \o <<x>>) = State("name", Append(ps, Param(n, Literal(x))), n, <<>>)
  <2>1. Parsing(b \o <<x>>) = Shift(Parsing(b), x)
    BY ReadToken, Zenon
  <2> QED BY <1>1, <1>2, <1>3, <2>1, ShiftIs DEF IsLiteral
<1>5. Begins(Append(ps, Param(n, Literal(x))), want)
  BY <1>2, <1>3, BeginsAppend
<1>6. Sound(b, <<x>>, want)
  BY <1>4, <1>5, StateParts, SoundToken
<1>7. ASSUME ~Quotable(v) PROVE Sound(b, writeValue(v), want)
  <2>1. PICK y \in AllTokens : y.type = "PARAMETER" /\ writeValue(v) = <<x, y>>
    BY <1>1, <1>7
  <2>2. writeValue(v) = <<x>> \o <<y>>
    BY <2>1
  <2>3. <<x>> \in TokenSeqs /\ <<y>> \in TokenSeqs /\ b \o <<x>> \in TokenSeqs
    BY Joins, Zenon
  <2>4. Parsing((b \o <<x>>) \o <<y>>)
          = State("assignment", Append(ps, Param(n, Literal(x))), y.word, <<>>)
    <3>1. Parsing((b \o <<x>>) \o <<y>>) = Shift(Parsing(b \o <<x>>), y)
      BY <2>3, ReadToken, Zenon
    <3> QED BY <1>4, <2>1, <3>1, ShiftIs
  <2>5. Sound(b \o <<x>>, <<y>>, want)
    BY <2>3, <2>4, StateParts, SoundToken
  <2>6. Sound(b, <<x>> \o <<y>>, want)
    BY <1>6, <2>3, <2>5, SoundConcat
  <2> QED BY <2>2, <2>6, Zenon
<1> QED BY <1>1, <1>6, <1>7

\* A list in brackets.
LEMMA SoundBracketed ==
    ASSUME NEW S, NEW want \in Seq(S), NEW k \in 1 .. Len(want), NEW b \in TokenSeqs,
           NEW vs \in Seq(Primitives),
           Parsing(b) = State("value", SubSeq(want, 1, k - 1), want[k].name, <<>>)
    PROVE  Sound(b, Bracketed(vs), want)
<1>1. PICK ps : ps = SubSeq(want, 1, k - 1)
  OBVIOUS
<1>2. PICK n : n = want[k].name
  OBVIOUS
<1>3. PICK o \in AllTokens : o = Mark("LIST_OPEN") /\ o.type = "LIST_OPEN"
  BY BracketedIs
<1>4. PICK q \in AllTokens : q = Mark("LIST_CLOSE") /\ q.type = "LIST_CLOSE"
  BY BracketedIs
<1>5. PICK l \in TokenSeqs : l = writeList(vs)
  BY BracketedIs
<1>6. Bracketed(vs) = (<<o>> \o l) \o <<q>>
  BY <1>3, <1>4, <1>5, Zenon DEF Bracketed
<1>7. PICK c \in TokenSeqs : c = b \o <<o>>
  BY <1>3, BracketedIs
<1>8. Parsing(c) = State("element", ps, n, <<>>)
  <2>1. Parsing(c) = Shift(Parsing(b), o)
    BY <1>7, ReadToken, Zenon
  <2> QED BY <1>1, <1>2, <1>3, <2>1, ShiftIs
<1>9. Sound(b, <<o>>, want)
  BY <1>7, <1>8, StateParts, SoundToken
<1>10. Sound(c, l, want) /\ \E e \in {"element", "more", "nothing"} : \E es :
         Parsing(c \o l) = State(e, ps, n, es)
  BY <1>5, <1>8, SoundList
<1>11. <<o>> \in TokenSeqs /\ <<q>> \in TokenSeqs /\ <<o>> \o l \in TokenSeqs
  <2>1. <<o>> \in TokenSeqs /\ <<q>> \in TokenSeqs
    BY Joins, Zenon
  <2> QED BY <2>1, Joins, Zenon
<1>12. Sound(b, <<o>> \o l, want)
  BY <1>7, <1>9, <1>10, <1>11, SoundConcat
<1>13. PICK d \in TokenSeqs : d = c \o l
  <2>1. c \o l \in TokenSeqs
    BY Joins, Zenon
  <2> QED BY <2>1
<1>14. d = b \o (<<o>> \o l)
  <2>1. PICK z \in TokenSeqs : z = <<o>>
    BY <1>11, Zenon
  <2>2. (b \o z) \o l = b \o (z \o l)
    BY Joins, Zenon
  <2> QED BY <1>7, <1>13, <2>1, <2>2, Zenon
<1>15. Sound(d, <<q>>, want)
  <2>1. PICK e \in {"element", "more", "nothing"} : \E es : Parsing(d) = State(e, ps, n, es)
    BY <1>10, <1>13
  <2>2. PICK es : Parsing(d) = State(e, ps, n, es)
    BY <2>1
  <2>3. Parsing(d \o <<q>>) = Shift(Parsing(d), q)
    BY ReadToken, Zenon
  <2>4. CASE e = "more"
    <3>1. Parsing(d \o <<q>>) = State("name", Append(ps, Param(n, Value("List", es))), n, <<>>)
      BY <1>4, <2>2, <2>3, <2>4, ShiftIs
    <3>2. Begins(Append(ps, Param(n, Value("List", es))), want)
      BY <1>1, <1>2, BeginsAppend
    <3> QED BY <3>1, <3>2, StateParts, SoundToken
  <2>5. CASE e # "more"
    <3>1. Parsing(d \o <<q>>) = State("nothing", ps, n, es)
      BY <1>4, <2>2, <2>3, <2>5, LiteralTypes, ShiftRejects
    <3> QED BY <3>1, StateParts, SoundToken
  <2> QED BY <2>4, <2>5
<1>16. Sound(b, (<<o>> \o l) \o <<q>>, want)
  BY <1>11, <1>12, <1>14, <1>15, SoundConcat
<1> QED BY <1>6, <1>16, Zenon

\* A whole parameter.
LEMMA SoundParameter ==
    ASSUME NEW S, NEW want \in Seq(S), NEW k \in 1 .. Len(want), NEW a \in TokenSeqs,
           NEW p \in Writables,
           NEW n, Parsing(a) = State("name", SubSeq(want, 1, k - 1), n, <<>>), p.name = want[k].name
    PROVE  Sound(a, writeParameter(p), want)
<1>1. PICK x \in AllTokens : x = Token("PARAMETER", p.name)
  BY HeadTokens
<1>2. PICK y \in AllTokens : y = Mark("ASSIGNMENT")
  BY HeadTokens
<1>3. PICK r \in TokenSeqs : r = Rest(p)
  BY RestIn
<1>4. <<x>> \in TokenSeqs /\ <<y>> \in TokenSeqs /\ a \o <<x>> \in TokenSeqs
  BY Joins, Zenon
<1>5. PICK b \in TokenSeqs : b = (a \o <<x>>) \o <<y>>
  BY <1>4, Joins, Zenon
<1>6. b = Headed(a, p)
  BY <1>1, <1>2, <1>5, Zenon DEF Headed
<1>7. /\ Parsing(a \o <<x>>) = State("assignment", SubSeq(want, 1, k - 1), p.name, <<>>)
      /\ Parsing(b) = State("value", SubSeq(want, 1, k - 1), p.name, <<>>)
  BY <1>1, <1>6, ReadHead
<1>8. Sound(a, <<x>>, want)
  BY <1>7, StateParts, SoundToken
<1>9. Sound(a \o <<x>>, <<y>>, want)
  BY <1>4, <1>5, <1>7, StateParts, SoundToken
<1>10. Sound(a, <<x>> \o <<y>>, want)
  BY <1>4, <1>8, <1>9, SoundConcat
<1>11. Sound(b, r, want)
  <2>1. p.val \in ParamValues
    BY DEF Writables
  <2>2. CASE p.val.type = "List"
    <3>1. PICK vs \in Seq(Primitives) : vs = p.val.word
      BY <2>1, <2>2, ParamValueIs
    <3>2. r = Bracketed(vs)
      BY <1>3, <2>2, <3>1 DEF Rest, Bracketed
    <3> QED BY <1>7, <3>2, SoundBracketed
  <2>3. CASE p.val.type # "List"
    <3>1. PICK v \in Primitives : v = p.val
      BY <2>1, <2>3, ParamValueIs
    <3>2. r = writeValue(v)
      BY <1>3, <2>3, <3>1 DEF Rest
    <3> QED BY <1>7, <3>2, SoundSimple
  <2> QED BY <2>2, <2>3
<1>12. b = a \o (<<x>> \o <<y>>) /\ <<x>> \o <<y>> \in TokenSeqs
  <2>1. <<x>> \in TokenSeqs /\ <<y>> \in TokenSeqs
    BY <1>4, Joins, Zenon
  <2>2. (a \o <<x>>) \o <<y>> = a \o (<<x>> \o <<y>>)
    BY <2>1, Joins, Zenon
  <2>3. <<x>> \o <<y>> \in TokenSeqs
    BY <2>1, Joins, Zenon
  <2> QED BY <1>5, <2>2, <2>3, Zenon
<1>13. Sound(a, (<<x>> \o <<y>>) \o r, want)
  BY <1>10, <1>11, <1>12, SoundConcat
<1>14. writeParameter(p) = (<<x>> \o <<y>>) \o r
  BY <1>1, <1>2, <1>3, HeadedIs
<1> QED BY <1>13, <1>14, Zenon

\* What a file is to say of a list of parameters.
LEMMA NormalsIs ==
    ASSUME NEW ps \in Seq(Writables)
    PROVE  /\ Normals(ps) \in Seq(Writables) /\ Len(Normals(ps)) = Len(ps) /\ Len(ps) \in Nat
           /\ \A i \in 1 .. Len(ps) : ps[i] \in Writables
           /\ \A i \in 1 .. Len(ps) : Normals(ps)[i] = Param(ps[i].name, Normal(ps[i].val))
           /\ \A i \in 1 .. Len(ps) : Normals(ps)[i].name = ps[i].name
<1>1. Len(ps) \in Nat /\ DOMAIN ps = 1 .. Len(ps) /\ \A i \in 1 .. Len(ps) : ps[i] \in Writables
  BY LenProperties, ElementOfSeq
<1>2. \A i \in 1 .. Len(ps) : Param(ps[i].name, Normal(ps[i].val)) \in Writables
  BY <1>1, NormalTyped DEF Param, Writables
<1>3. Normals(ps) = [i \in 1 .. Len(ps) |-> Param(ps[i].name, Normal(ps[i].val))]
  BY <1>1 DEF Normals
<1>4. Normals(ps) \in Seq(Writables) /\ Len(Normals(ps)) = Len(ps)
  BY <1>1, <1>2, <1>3
<1>5. \A i \in 1 .. Len(ps) : Normals(ps)[i] = Param(ps[i].name, Normal(ps[i].val))
  BY <1>3
<1>6. \A i \in 1 .. Len(ps) : Normals(ps)[i].name = ps[i].name
  <2>1. ASSUME NEW i \in 1 .. Len(ps) PROVE Normals(ps)[i].name = ps[i].name
    <3>1. Param(ps[i].name, Normal(ps[i].val)).name = ps[i].name
      BY DEF Param
    <3> QED BY <1>5, <3>1, Zenon
  <2> QED BY <2>1
<1> QED BY <1>1, <1>4, <1>5, <1>6

\* The state of the parser after k of the parameters of a written configuration.
ParamsRead(p, ps, k) ==
    IF \A i \in 1 .. k : Storable(ps[i].val)
    THEN \E n : p = State("name", SubSeq(Normals(ps), 1, k), n, <<>>)
    ELSE Dead(p)

\* One more parameter is read, and no place it can be cut at lets more be read.
LEMMA ReadOneMore ==
    ASSUME NEW ps \in Seq(Writables), NEW k \in 1 .. Len(ps), NEW a \in TokenSeqs,
           ParamsRead(Parsing(a), ps, k - 1), Sound(<<>>, a, Normals(ps))
    PROVE  /\ ParamsRead(Parsing(a \o writeParameter(ps[k])), ps, k)
           /\ Sound(<<>>, a \o writeParameter(ps[k]), Normals(ps))
<1>1. /\ Len(ps) \in Nat /\ ps[k] \in Writables /\ Normals(ps) \in Seq(Writables)
      /\ k \in 1 .. Len(Normals(ps)) /\ Normals(ps)[k] = Param(ps[k].name, Normal(ps[k].val))
      /\ Normals(ps)[k].name = ps[k].name
  BY NormalsIs
<1>2. PICK w \in TokenSeqs : w = writeParameter(ps[k])
  BY <1>1, WriteParameterIs DEF TokenSeqs
<1>3. <<>> \in TokenSeqs /\ <<>> \o a = a
  BY Joins, Zenon
<1>4. ASSUME Sound(a, w, Normals(ps)) PROVE Sound(<<>>, a \o w, Normals(ps))
  BY <1>3, <1>4, SoundConcat
<1>5. CASE \A i \in 1 .. k - 1 : Storable(ps[i].val)
  <2>1. PICK n : Parsing(a) = State("name", SubSeq(Normals(ps), 1, k - 1), n, <<>>)
    BY <1>5 DEF ParamsRead
  <2>2. Sound(a, w, Normals(ps))
    BY <1>1, <1>2, <2>1, SoundParameter
  <2>3. CASE Storable(ps[k].val)
    <3>1. SubSeq(Normals(ps), 1, k) = Append(SubSeq(Normals(ps), 1, k - 1), Normals(ps)[k])
      BY <1>1, NextPrefix
    <3>2. Parsing(a \o w) =
            State("name", Append(SubSeq(Normals(ps), 1, k - 1),
              Param(ps[k].name, Normal(ps[k].val))),
                  ps[k].name, <<>>)
      BY <1>1, <1>2, <2>1, <2>3, ReadParameter
    <3>3. Parsing(a \o w) = State("name", SubSeq(Normals(ps), 1, k), ps[k].name, <<>>)
      BY <1>1, <3>1, <3>2, Zenon
    <3>4. \A i \in 1 .. k : Storable(ps[i].val)
      BY <1>1, <1>5, <2>3
    <3>5. ParamsRead(Parsing(a \o w), ps, k)
      BY <3>3, <3>4, Zenon DEF ParamsRead
    <3> QED BY <1>2, <1>4, <2>2, <3>5
  <2>4. CASE ~Storable(ps[k].val)
    <3>1. Dead(Parsing(a \o w))
      BY <1>1, <1>2, <2>1, <2>4, ReadParameter
    <3>2. ~ \A i \in 1 .. k : Storable(ps[i].val)
      BY <1>1, <2>4
    <3>3. ParamsRead(Parsing(a \o w), ps, k)
      BY <3>1, <3>2, Zenon DEF ParamsRead
    <3> QED BY <1>2, <1>4, <2>2, <3>3
  <2> QED BY <2>3, <2>4
<1>6. CASE ~ \A i \in 1 .. k - 1 : Storable(ps[i].val)
  <2>1. Dead(Parsing(a))
    BY <1>6 DEF ParamsRead
  <2>2. PICK qs, n, es :
             /\ Parsing(a \o w) = State("nothing", qs, n, es)
             /\ \A j \in 1 .. Len(w) : Parsing(a \o SubSeq(w, 1, j)) = State("nothing", qs, n, es)
    BY <1>1, <1>2, <2>1, DeadStays
  <2>3. Sound(a, w, Normals(ps))
    BY <2>2, StateParts, SoundNever
  <2>4. Dead(Parsing(a \o w))
    BY <2>2 DEF Dead
  <2>5. ~ \A i \in 1 .. k : Storable(ps[i].val)
    BY <1>1, <1>6
  <2>6. ParamsRead(Parsing(a \o w), ps, k)
    BY <2>4, <2>5, Zenon DEF ParamsRead
  <2> QED BY <1>2, <1>4, <2>3, <2>6
<1> QED BY <1>5, <1>6

\* What is read of a configuration that was written, and of any beginning of it.
LEMMA WrittenRead ==
    ASSUME NEW ps \in Seq(Writables)
    PROVE  /\ ParamsRead(Parsing(Written(ps)), ps, Len(ps))
           /\ Sound(<<>>, Written(ps), Normals(ps))
<1>1. Len(ps) \in Nat
  BY LenProperties
<1>2. PICK G : WrittenSoFar(G, ps)
  BY WrittenSteps
<1> DEFINE T == {k \in 0 .. Len(ps) : ParamsRead(Parsing(G[k]), ps, k)
             /\ Sound(<<>>, G[k], Normals(ps))}
<1>3. 0 \in T
  <2>1. G[0] = <<>>
    BY <1>2 DEF WrittenSoFar
  <2>2. SubSeq(Normals(ps), 1, 0) = <<>>
    BY SubSeqEmpty
  <2>3. Parsing(<<>>) = State("name", SubSeq(Normals(ps), 1, 0), NoVal, <<>>)
    BY <2>2, ParsingEmpty, StartIs
  <2>4. ParamsRead(Parsing(<<>>), ps, 0)
    BY <2>3 DEF ParamsRead
  <2>5. Sound(<<>>, <<>>, Normals(ps))
    <3>1. Len(<<>>) = 0
      BY EmptySeq
    <3> QED BY <3>1 DEF Sound
  <2>6. 0 \in 0 .. Len(ps)
    BY <1>1
  <2> QED BY <2>1, <2>4, <2>5, <2>6
<1>4. ASSUME NEW k \in 1 .. Len(ps), k - 1 \in T PROVE k \in T
  <2>0. ParamsRead(Parsing(G[k - 1]), ps, k - 1) /\ Sound(<<>>, G[k - 1], Normals(ps))
    BY <1>4
  <2> HIDE DEF T
  <2>1. k \in 0 .. Len(ps) /\ k - 1 \in 0 .. Len(ps)
    BY <1>1
  <2>2. G[k - 1] \in TokenSeqs /\ G[k] = G[k - 1] \o writeParameter(ps[k])
    BY <1>2, <2>1 DEF WrittenSoFar, TokenSeqs
  <2>3. /\ ParamsRead(Parsing(G[k - 1] \o writeParameter(ps[k])), ps, k)
        /\ Sound(<<>>, G[k - 1] \o writeParameter(ps[k]), Normals(ps))
    BY <2>0, <2>2, ReadOneMore
  <2>4. ParamsRead(Parsing(G[k]), ps, k) /\ Sound(<<>>, G[k], Normals(ps))
    BY <2>2, <2>3, Zenon
  <2> QED BY <2>1, <2>4 DEF T
<1>5. Len(ps) \in T
  <2> HIDE DEF T
  <2> QED BY <1>1, <1>3, <1>4, UpTo
<1>6. ParamsRead(Parsing(G[Len(ps)]), ps, Len(ps)) /\ Sound(<<>>, G[Len(ps)], Normals(ps))
  BY <1>5
<1>7. G[Len(ps)] = Written(ps)
  BY <1>2 DEF WrittenSoFar
<1> QED BY <1>6, <1>7, Zenon

\* A list whose every value can be written is read back.
LEMMA StorableReadsBack ==
    ASSUME NEW ps \in Seq(Writables), \A i \in 1 .. Len(ps) : Storable(ps[i].val)
    PROVE  Accepts(Written(ps)) /\ Parsed(Written(ps)) = Normals(ps)
<1>1. PICK n : Parsing(Written(ps)) = State("name", SubSeq(Normals(ps), 1, Len(ps)), n, <<>>)
  BY WrittenRead DEF ParamsRead
<1>2. SubSeq(Normals(ps), 1, Len(ps)) = Normals(ps)
  BY NormalsIs, SubSeqFull
<1>3. Parsing(Written(ps)) = State("name", Normals(ps), n, <<>>)
  BY <1>1, <1>2, Zenon
<1> QED BY <1>3, StateParts DEF Accepts, Parsed

\* What writeConfig prints of a configuration all of whose values can be stored,
\* parseConfig reads back.
THEOREM WriteReadsBack == LoaderSpec => ReadsBack
<1>1. LoaderInv => WriteStep
  <2> SUFFICES ASSUME LoaderInv, writeConfig, \A i \in DOMAIN parm_list : Storable(parm_list[i].val)
               PROVE  Accepts(text') /\ Parsed(text') = Normals(parm_list)
    BY DEF WriteStep
  <2>1. parm_list \in Seq(Params) /\ HasValue(parm_list) /\ text' = Written(parm_list)
    BY DEF LoaderInv, TypeOK, Params, writeConfig
  <2>2. parm_list \in Seq(Writables) /\ DOMAIN parm_list = 1 .. Len(parm_list)
    BY <2>1, WithValues, LenProperties
  <2> QED BY <2>1, <2>2, StorableReadsBack
<1>2. [LoaderNext]_loaderVars /\ LoaderInv => [WriteStep]_loaderVars
  BY <1>1
<1> QED BY <1>2, LoaderTypes, PTL DEF LoaderSpec, ReadsBack

-----------------------------------------------------------------------------
(* Reading again.                                                          *)

\* What was read is written as what it was read from,
LEMMA NormalAgain ==
    ASSUME NEW v \in Primitives
    PROVE  Quotable(v) => Quotable(NormalValue(v)) /\ writeValue(NormalValue(v)) = writeValue(v)
<1>1. CASE v.type = "Boolean"
  <2>1. PICK b \in {0, 1} : b = IF v.word = 0 THEN 0 ELSE 1
    OBVIOUS
  <2>2. writeValue(v) = <<Token("BOOLEAN", b)>> /\ NormalValue(v) = Value("Boolean", b)
    BY <1>1, <2>1 DEF writeValue, NormalValue
  <2>3. writeValue(Value("Boolean", b)) = <<Token("BOOLEAN", IF b = 0 THEN 0 ELSE 1)>>
    BY DEF writeValue, Value
  <2>4. (IF b = 0 THEN 0 ELSE 1) = b
    OBVIOUS
  <2>5. Quotable(Value("Boolean", b))
    BY DEF Quotable, Value
  <2> QED BY <2>2, <2>3, <2>4, <2>5, Zenon
<1>2. CASE v.type = "Integer"
  <2>1. Abs(v.word) \in Int /\ Abs(Abs(v.word)) = Abs(v.word)
    BY <1>2, PrimitiveIs DEF Abs
  <2>2. writeValue(v) = <<Token("DECIMAL", Abs(v.word))>>
          /\ NormalValue(v) = Value("Integer", Abs(v.word))
    BY <1>2 DEF writeValue, NormalValue
  <2>3. writeValue(Value("Integer", Abs(v.word))) = <<Token("DECIMAL", Abs(Abs(v.word)))>>
    BY DEF writeValue, Value
  <2>4. Quotable(Value("Integer", Abs(v.word)))
    BY DEF Quotable, Value
  <2> QED BY <2>1, <2>2, <2>3, <2>4, Zenon
<1>3. CASE v.type = "Float"
  <2>1. Printed[Printed[v.word]] = Printed[v.word]
    BY <1>3, PrimitiveIs, TextAssumption
  <2>2. writeValue(v) = <<Token("FLOAT", Printed[v.word])>>
          /\ NormalValue(v) = Value("Float", Printed[v.word])
    BY <1>3 DEF writeValue, NormalValue
  <2>3. writeValue(Value("Float", Printed[v.word])) = <<Token("FLOAT", Printed[Printed[v.word]])>>
    BY DEF writeValue, Value
  <2>4. Quotable(Value("Float", Printed[v.word]))
    BY DEF Quotable, Value
  <2> QED BY <2>1, <2>2, <2>3, <2>4, Zenon
<1>4. CASE v.type = "String"
  BY <1>4 DEF NormalValue
<1> QED BY <1>1, <1>2, <1>3, <1>4, PrimitiveIs

\* The normal forms of values that can be stored are written as the values are.
LEMMA NormalParameter ==
    ASSUME NEW p \in Writables, Storable(p.val)
    PROVE  writeParameter(Param(p.name, Normal(p.val))) = writeParameter(p)
<1>1. p.val \in ParamValues
  BY DEF Writables
<1>2. CASE p.val.type = "List"
  <2>1. PICK vs \in Seq(Primitives) : vs = p.val.word
    BY <1>1, <1>2, ParamValueIs
  <2>2. DOMAIN vs = 1 .. Len(vs) /\ \A i \in 1 .. Len(vs) : vs[i] \in Primitives /\ Quotable(vs[i])
    BY <1>2, <2>1, LenProperties, ElementOfSeq DEF Storable
  <2>3. PICK ns : ns = NormalList(vs)
    OBVIOUS
  <2>4. ns \in Seq(Primitives) /\ Len(ns) = Len(vs)
          /\ \A i \in 1 .. Len(vs) : ns[i] = NormalValue(vs[i])
    BY <2>3, NormalListIs
  <2>5. DOMAIN ns = DOMAIN vs
    BY <2>2, <2>4, LenProperties
  <2>6. \A i \in DOMAIN vs : Element(ns, i) = Element(vs, i)
    BY <2>2, <2>4, NormalAgain DEF Element
  <2>7. [i \in DOMAIN ns |-> Element(ns, i)] = [i \in DOMAIN vs |-> Element(vs, i)]
    BY <2>5, <2>6
  <2>8. writeList(ns) = writeList(vs)
    BY <2>7, Zenon DEF writeList, Element
  <2>9. Normal(p.val) = Value("List", ns)
    BY <1>2, <2>1, <2>3 DEF Normal, NormalList
  <2>10. PICK q : q = Param(p.name, Normal(p.val))
    OBVIOUS
  <2>11. q.name = p.name /\ q.val.type = "List" /\ q.val.word = ns
    BY <2>9, <2>10 DEF Param, Value
  <2>12. Rest(q) = Rest(p)
    BY <1>2, <2>1, <2>8, <2>11 DEF Rest
  <2> QED BY <2>10, <2>11, <2>12 DEF writeParameter, Rest
<1>3. CASE p.val.type # "List"
  <2>1. PICK v \in Primitives : v = p.val
    BY <1>1, <1>3, ParamValueIs
  <2>2. Normal(p.val) = NormalValue(v) /\ Quotable(v)
    BY <1>3, <2>1 DEF Normal, Storable
  <2>3. NormalValue(v) \in Primitives /\ writeValue(NormalValue(v)) = writeValue(v)
    BY <2>2, NormalTyped, NormalAgain
  <2>4. NormalValue(v).type # "List"
    BY <2>3, PrimitiveIs
  <2>5. PICK q : q = Param(p.name, Normal(p.val))
    OBVIOUS
  <2>6. q.name = p.name /\ q.val = NormalValue(v)
    BY <2>2, <2>5 DEF Param
  <2>7. Rest(q) = Rest(p)
    BY <1>3, <2>1, <2>3, <2>4, <2>6 DEF Rest
  <2> QED BY <2>5, <2>6, <2>7 DEF writeParameter, Rest
<1> QED BY <1>2, <1>3

\* also a whole list of it.
LEMMA NormalsWritten ==
    ASSUME NEW ps \in Seq(Writables), \A i \in 1 .. Len(ps) : Storable(ps[i].val)
    PROVE  Written(Normals(ps)) = Written(ps)
<1>1. DOMAIN ps = 1 .. Len(ps) /\ DOMAIN Normals(ps) = 1 .. Len(ps)
  BY NormalsIs, LenProperties
<1>2. \A i \in 1 .. Len(ps) : writeParameter(Normals(ps)[i]) = writeParameter(ps[i])
  BY NormalsIs, NormalParameter
<1>3. [i \in DOMAIN Normals(ps) |-> writeParameter(Normals(ps)[i])]
        = [i \in DOMAIN ps |-> writeParameter(ps[i])]
  BY <1>1, <1>2
<1> QED BY <1>3, Zenon DEF Written

\* What is read can be stored.
LEMMA ReadStorable ==
    ASSUME NEW ps \in Seq(ReadParams), NEW i \in 1 .. Len(ps)
    PROVE  Storable(ps[i].val)
<1>1. ps[i].val \in ReadValues
  <2>1. ps[i] \in ReadParams
    BY ElementOfSeq
  <2> QED BY <2>1 DEF ReadParams
<1>2. ASSUME NEW v \in ReadPrimitives PROVE Quotable(v) /\ v.type # "List"
  BY DEF ReadPrimitives, Quotable
<1>3. CASE ps[i].val \in ReadPrimitives
  BY <1>2, <1>3 DEF Storable
<1>4. CASE ps[i].val \in [type : {"List"}, word : Seq(ReadPrimitives) \ {<<>>}]
  <2>1. PICK vs \in Seq(ReadPrimitives) : vs = ps[i].val.word
    BY <1>4
  <2>2. \A j \in DOMAIN vs : vs[j] \in ReadPrimitives
    BY LenProperties, ElementOfSeq
  <2> QED BY <1>2, <1>4, <2>1, <2>2 DEF Storable
<1> QED BY <1>1, <1>3, <1>4 DEF ReadValues

\* What parseConfig read of any file, writeConfig prints such that it is read again.
THEOREM RereadSame == LoaderSpec => []RereadsTheSame
<1>1. LoaderInv => RereadsTheSame
  <2> SUFFICES ASSUME LoaderInv, text # NoFile
               PROVE  LET again == Written(Parsed(text)) IN
                      /\ Accepts(again)
                      /\ Parsed(again) = Normals(Parsed(text))
                      /\ Written(Parsed(again)) = again
    BY DEF RereadsTheSame
  <2>1. PICK ps : ps = Parsed(text)
    OBVIOUS
  <2>2. ps \in Seq(ReadParams) /\ ps \in Seq(Writables)
    BY <2>1, ParsedTyped DEF LoaderInv
  <2>3. \A i \in 1 .. Len(ps) : Storable(ps[i].val)
    BY <2>2, ReadStorable
  <2>4. Accepts(Written(ps)) /\ Parsed(Written(ps)) = Normals(ps)
    BY <2>2, <2>3, StorableReadsBack
  <2>5. Written(Normals(ps)) = Written(ps)
    BY <2>2, <2>3, NormalsWritten
  <2> QED BY <2>1, <2>4, <2>5
<1> QED BY <1>1, LoaderTypes, PTL

-----------------------------------------------------------------------------
(* What a write that ends early leaves.                                    *)

\* The value of the last parameter does not matter.
LEMMA BeginsLast ==
    ASSUME NEW S, NEW ps \in Seq(S), NEW n, NEW v, NEW w, NEW want,
           Begins(Append(ps, Param(n, v)), want)
    PROVE  Begins(Append(ps, Param(n, w)), want)
<1>1. PICK x : x = Param(n, v)
  OBVIOUS
<1>2. PICK y : y = Param(n, w)
  OBVIOUS
<1>3. x.name = n /\ y.name = n
  BY <1>1, <1>2 DEF Param
<1>4. PICK U : U = S \cup {x, y}
  OBVIOUS
<1>5. ps \in Seq(U) /\ x \in U /\ y \in U /\ Len(ps) \in Nat
  BY <1>4, SeqMonotonic, LenProperties
<1>6. PICK f : f = Append(ps, x)
  OBVIOUS
<1>7. PICK g : g = Append(ps, y)
  OBVIOUS
<1>8. /\ f \in Seq(U) /\ Len(f) = Len(ps) + 1 /\ \A i \in 1 .. Len(ps) : f[i] = ps[i]
      /\ f[Len(ps) + 1] = x
  BY <1>5, <1>6, AppendProperties
<1>9. /\ g \in Seq(U) /\ Len(g) = Len(ps) + 1 /\ \A i \in 1 .. Len(ps) : g[i] = ps[i]
      /\ g[Len(ps) + 1] = y
  BY <1>5, <1>7, AppendProperties
<1>10. DOMAIN f = 1 .. Len(ps) + 1 /\ DOMAIN g = 1 .. Len(ps) + 1
  BY <1>8, <1>9, LenProperties
<1>11. Begins(f, want)
  BY <1>1, <1>6
<1>12. ASSUME NEW i \in 1 .. Len(ps) + 1
       PROVE  g[i].name = want[i].name /\ (i < Len(ps) + 1 => g[i] = want[i])
  <2>1. CASE i = Len(ps) + 1
    <3>1. f[i].name = want[i].name
      BY <1>10, <1>11 DEF Begins
    <3> QED BY <1>3, <1>8, <1>9, <2>1, <3>1
  <2>2. CASE i # Len(ps) + 1
    <3>1. i \in 1 .. Len(ps) /\ i < Len(ps) + 1
      BY <1>5, <2>2
    <3>2. f[i].name = want[i].name /\ f[i] = want[i]
      BY <1>8, <1>10, <1>11, <3>1 DEF Begins
    <3> QED BY <1>8, <1>9, <3>1, <3>2
  <2> QED BY <2>1, <2>2
<1>13. Len(g) <= Len(want)
  BY <1>8, <1>9, <1>11 DEF Begins
<1>14. Begins(g, want)
  BY <1>9, <1>10, <1>12, <1>13 DEF Begins
<1> QED BY <1>2, <1>7, <1>14

\* A text that is cut between two tokens.
LEMMA PrefixBegins ==
    ASSUME NEW ps \in Seq(Writables), NEW n \in 0 .. Len(Written(ps)),
           Accepts(SubSeq(Written(ps), 1, n))
    PROVE  Begins(Parsed(SubSeq(Written(ps), 1, n)), Normals(ps))
<1>1. PICK w \in TokenSeqs : w = Written(ps)
  BY WrittenScannable DEF Scannable, TokenSeqs
<1>2. PICK h : h = SubSeq(w, 1, n)
  OBVIOUS
<1>3. n \in Nat
  BY <1>1, LenProperties DEF TokenSeqs
<1>4. CASE n = 0
  <2>1. h = <<>>
    BY <1>2, <1>4, SubSeqEmpty
  <2>2. Parsed(h) = <<>>
    BY <2>1, ParsingEmpty DEF Parsed, Start
  <2>3. Len(<<>>) = 0 /\ DOMAIN <<>> = {}
    BY EmptySeq
  <2>4. Len(Normals(ps)) \in Nat
    BY NormalsIs
  <2>5. Begins(<<>>, Normals(ps))
    BY <2>3, <2>4 DEF Begins
  <2> QED BY <1>1, <1>2, <2>2, <2>5, Zenon
<1>5. CASE n # 0
  <2>1. n \in 1 .. Len(w)
    BY <1>1, <1>3, <1>5
  <2>2. Accepts(<<>> \o h) => Begins(Parsed(<<>> \o h), Normals(ps))
    BY <1>1, <1>2, <2>1, WrittenRead DEF Sound
  <2>3. h \in TokenSeqs
    <3>1. Scannable(w)
      BY <1>1, WrittenScannable
    <3>2. Scannable(h)
      BY <1>1, <1>2, <3>1, ScannablePrefix
    <3> QED BY <3>2 DEF Scannable, TokenSeqs
  <2>4. <<>> \o h = h
    BY <2>3, Joins, Zenon
  <2> QED BY <1>1, <1>2, <2>2, <2>4, Zenon
<1> QED BY <1>4, <1>5

\* What is read where the parser is.
LEMMA ReadsTo ==
    ASSUME NEW t, NEW e, NEW ps, NEW n, NEW es, Parsing(t) = State(e, ps, n, es)
    PROVE  (Accepts(t) <=> e = "name") /\ Parsed(t) = ps
BY StateParts DEF Accepts, Parsed

\* A number that is cut is another value of the same parameter.
LEMMA CutBegins ==
    ASSUME NEW ps \in Seq(Writables), NEW n \in 0 .. Len(Written(ps)),
           NEW h, h = SubSeq(Written(ps), 1, n), h # <<>>, Last(h).type = "DECIMAL",
           NEW u, u = Front(h) \o <<Token("DECIMAL", Last(h).word \div 10)>>, Accepts(u)
    PROVE  Begins(Parsed(u), Normals(ps))
<1>1. Scannable(h) /\ h \in TokenSeqs
  BY WrittenScannable, ScannablePrefix DEF Scannable, TokenSeqs
<1>2. Len(h) \in Nat \ {0}
  BY <1>1, LenProperties, EmptySeq DEF TokenSeqs
<1>3. PICK f : f = Front(h)
  OBVIOUS
<1>4. f = SubSeq(h, 1, Len(h) - 1) /\ Len(h) - 1 \in 0 .. Len(h)
  BY <1>2, <1>3 DEF Front
<1>5. Scannable(f) /\ f \in TokenSeqs
  BY <1>1, <1>4, ScannablePrefix DEF Scannable, TokenSeqs
<1>6. PICK x \in AllTokens : x = h[Len(h)]
  <2>1. Len(h) \in 1 .. Len(h)
    BY <1>2
  <2> QED BY <1>1, <2>1, ElementOfSeq DEF TokenSeqs
<1>7. Last(h) = x /\ x.type = "DECIMAL"
  BY <1>6 DEF Last
<1>8. h = f \o <<x>>
  <2>1. Len(h) \in 1 .. Len(h) /\ 1 \in 1 .. Len(h)
    BY <1>2
  <2>2. SubSeq(h, 1, Len(h)) = SubSeq(h, 1, Len(h) - 1) \o <<h[Len(h)]>>
    BY <1>1, <2>1, SubSeqRecursiveSecond DEF TokenSeqs
  <2>3. SubSeq(h, 1, Len(h)) = h
    BY <1>1, SubSeqFull DEF TokenSeqs
  <2> QED BY <1>4, <1>6, <2>2, <2>3, Zenon
<1>9. x.word \in Int
  BY <1>7 DEF AllTokens, Tokens, Mark, Token
<1>10. PICK y \in AllTokens : y = Token("DECIMAL", x.word \div 10)
  <2>1. x.word \div 10 \in Int
    BY <1>9
  <2> QED BY <2>1, TokensIn
<1>11. y.type = "DECIMAL" /\ x.type \in DOMAIN Literals /\ y.type \in DOMAIN Literals
  BY <1>7, <1>10, LiteralTypes DEF Token
<1>12. u = f \o <<y>>
  BY <1>3, <1>7, <1>10, Zenon
<1>13. Parsing(u) = Shift(Parsing(f), y) /\ Parsing(h) = Shift(Parsing(f), x)
  BY <1>5, <1>8, <1>12, ReadToken, Zenon
<1>14. ParserOK(Parsing(f))
  BY <1>5, ParsingOK
<1>15. PICK e \in {"name", "assignment", "value", "element", "more", "nothing"} :
              e = Parsing(f).expects
  BY <1>14 DEF ParserOK
<1>16. PICK qs \in Seq(ReadParams) : qs = Parsing(f).params
  BY <1>14 DEF ParserOK
<1>17. PICK m : m = Parsing(f).name
  OBVIOUS
<1>18. PICK es : es = Parsing(f).elements
  OBVIOUS
<1>19. Parsing(f) = State(e, qs, m, es)
  BY <1>14, <1>15, <1>16, <1>17, <1>18, Zenon DEF ParserOK
<1>20. CASE e = "value"
  <2>1. Parsing(u) = State("name", Append(qs, Param(m, Literal(y))), m, <<>>)
    BY <1>11, <1>13, <1>19, <1>20, ShiftIs
  <2>2. Parsing(h) = State("name", Append(qs, Param(m, Literal(x))), m, <<>>)
    BY <1>11, <1>13, <1>19, <1>20, ShiftIs
  <2>3. Accepts(h) /\ Parsed(h) = Append(qs, Param(m, Literal(x)))
    BY <2>2, ReadsTo
  <2>4. Begins(Append(qs, Param(m, Literal(x))), Normals(ps))
    BY <2>3, PrefixBegins
  <2>5. Begins(Append(qs, Param(m, Literal(y))), Normals(ps))
    BY <2>4, BeginsLast
  <2>6. Parsed(u) = Append(qs, Param(m, Literal(y)))
    BY <2>1, ReadsTo
  <2> QED BY <2>5, <2>6, Zenon
<1>21. CASE e = "element"
  <2>1. Parsing(u) = State("more", qs, m, Append(es, Literal(y)))
    BY <1>11, <1>13, <1>19, <1>21, ShiftIs
  <2> QED BY <2>1, StateParts DEF Accepts
<1>22. CASE e \in {"name", "assignment", "more", "nothing"}
  <2>1. /\ y.type # "PARAMETER" /\ y.type # "ASSIGNMENT"
        /\ y.type \notin {"COMMA", "LIST_CLOSE"}
    BY <1>11
  <2>2. Shift(State(e, qs, m, es), y) = State("nothing", qs, m, es)
    BY <1>22, <2>1, ShiftRejects
  <2>3. Parsing(u) = State("nothing", qs, m, es)
    BY <1>13, <1>19, <2>2, Zenon
  <2> QED BY <2>3, ReadsTo
<1> QED BY <1>20, <1>21, <1>22

\* A text that is cut anywhere.
LEMMA TornBegins ==
    ASSUME NEW ps \in Seq(Writables), NEW u \in Torn(Written(ps)), Accepts(u)
    PROVE  Begins(Parsed(u), Normals(ps))
<1>1. CASE \E n \in 0 .. Len(Written(ps)) : u = SubSeq(Written(ps), 1, n)
  BY <1>1, PrefixBegins
<1>2. ASSUME NEW n \in 0 .. Len(Written(ps)), NEW h, h = SubSeq(Written(ps), 1, n), h # <<>>,
             Last(h).type = "DECIMAL", u = Front(h) \o <<Token("DECIMAL", Last(h).word \div 10)>>
      PROVE  Begins(Parsed(u), Normals(ps))
  BY <1>2, CutBegins
<1>3. CASE u = <<Mark("OPEN_COMMENT")>>
  <2>1. PICK x \in AllTokens : x = Mark("OPEN_COMMENT") /\ x.type = "OPEN_COMMENT"
    BY TokensIn DEF Mark, Token
  <2>2. <<>> \in TokenSeqs /\ <<x>> \in TokenSeqs
    BY Joins, Zenon
  <2>3. <<>> \o <<x>> = <<x>>
    BY <2>2, Joins, Zenon
  <2>4. Parsing(<<x>>) = Shift(Parsing(<<>>), x)
    BY <2>2, <2>3, ReadToken, Zenon
  <2>5. Parsing(<<x>>) = State("nothing", <<>>, NoVal, <<>>)
    BY <2>1, <2>4, ParsingEmpty, StartIs, ShiftRejects
  <2> QED BY <1>3, <2>1, <2>5, StateParts DEF Accepts
<1> QED BY <1>1, <1>2, <1>3 DEF Torn

\* A list where each parameter has a value is printed as a whole.
LEMMA AllPrintable ==
    ASSUME parm_list \in Seq(Params), HasValue(parm_list)
    PROVE  Printable = parm_list
<1>1. Len(parm_list) \in Nat
  BY LenProperties
<1> DEFINE B == {n \in 0 .. Len(parm_list) : HasValue(SubSeq(parm_list, 1, n))}
<1>2. SubSeq(parm_list, 1, Len(parm_list)) = parm_list
  BY SubSeqFull
<1>3. Len(parm_list) \in B /\ \A n \in B : Len(parm_list) >= n
  <2>1. Len(parm_list) \in 0 .. Len(parm_list)
    BY <1>1
  <2>2. HasValue(SubSeq(parm_list, 1, Len(parm_list)))
    BY <1>2, Zenon
  <2>3. \A n \in 0 .. Len(parm_list) : Len(parm_list) >= n
    BY <1>1
  <2> QED BY <2>1, <2>2, <2>3
<1>4. Max(B) = Len(parm_list)
  <2> HIDE DEF B
  <2>1. Max(B) \in B /\ \A n \in B : Max(B) >= n
    BY <1>3 DEF Max
  <2>2. \A n \in B : n \in Nat
    BY <1>1 DEF B
  <2>3. Len(parm_list) >= Max(B) /\ Max(B) >= Len(parm_list) /\ Max(B) \in Nat
    BY <1>3, <2>1, <2>2
  <2> QED BY <1>1, <2>3
<1> QED BY <1>2, <1>4 DEF Printable

\* However writeConfig ends, what can then be read is a beginning of the
\* configuration that was to be written.
THEOREM WriteLeavesABeginning == LoaderSpec => ReadsABeginning
<1>1. LoaderInv /\ LoaderNext => FileStep
  <2> SUFFICES ASSUME LoaderInv, LoaderNext, text' # text, Accepts(text')
               PROVE  Begins(Parsed(text'), Normals(Printable))
    BY DEF FileStep, Begins
  <2>1. parm_list \in Seq(Params)
    BY DEF LoaderInv, TypeOK, Params
  <2>2. CASE writeConfig
    <3>1. HasValue(parm_list) /\ text' = Written(parm_list)
      BY <2>2 DEF writeConfig
    <3>2. parm_list \in Seq(Writables) /\ Printable = parm_list
      BY <2>1, <3>1, WithValues, AllPrintable
    <3>3. PICK n : n = Len(Written(parm_list))
      OBVIOUS
    <3>4. Written(parm_list) \in Seq(AllTokens)
      BY <3>2, WrittenScannable DEF Scannable
    <3>5. SubSeq(Written(parm_list), 1, n) = Written(parm_list)
            /\ n \in 0 .. Len(Written(parm_list))
      BY <3>3, <3>4, SubSeqFull, LenProperties
    <3> QED BY <3>1, <3>2, <3>5, PrefixBegins
  <2>3. CASE writeCrashes
    <3>1. text' \in Torn(Written(Printable))
      BY <2>3 DEF writeCrashes
    <3> QED BY <2>1, <3>1, PrintableIs, TornBegins
  <2>4. ASSUME NEW name \in Names, NEW v \in Given, addValue(name, v) \/ setParam(name, v)
        PROVE FALSE
    BY <2>4 DEF addValue, setParam, addParameters
  <2>5. ASSUME NEW i \in DOMAIN parm_list, delParameter(i) PROVE FALSE
    BY <2>5 DEF delParameter
  <2>6. CASE freeConfig \/ parseConfig \/ Restart
    BY <2>6 DEF freeConfig, parseConfig, Restart
  <2> QED BY <2>2, <2>3, <2>4, <2>5, <2>6 DEF LoaderNext
<1> QED BY <1>1, LoaderTypes, PTL DEF LoaderSpec, ReadsABeginning

=============================================================================
