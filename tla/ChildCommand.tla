----------------------------- MODULE ChildCommand -----------------------------
(***************************************************************************)
(* What the child process is given: its environment block and its command   *)
(* line (crates/windows-launcher/src/lib.rs, and bundled_r_environment of   *)
(* crates/windows-lifecycle/src/lib.rs).                                    *)
(*                                                                         *)
(* A variable's name is a word and a spelling of it; Windows compares the   *)
(* words alone.  A character is one of the four kinds the quoting rules     *)
(* tell apart, or NUL.                                                      *)
(***************************************************************************)
EXTENDS Naturals, Sequences, SequencesExt

CONSTANTS CommandLineLimit,   \* WINDOWS_COMMAND_LINE_LIMIT
          Words,              \* the names of variables, in Windows' ordinal order
          ValueUnits          \* what the values of variables are made of, NUL excepted

Nul == "nul"

(* AMBIENT_R_VARIABLES                                                       *)
AmbientRVariables == <<"R_HOME", "R_LIBS", "R_PROFILE", "RPACKIT_LAUNCH_PROTOCOL">>

(* The hidden per-drive names Windows keeps ("=C:") hold an equals sign.      *)
DriveName == "=C:"

ASSUME CommandLineLimitAssumption == CommandLineLimit \in Nat \ {0}

(* A name holds neither a NUL nor an equals sign.                             *)
ASSUME WordsAssumption ==
  /\ Words \in Seq(ToSet(Words))
  /\ {"PATH"} \cup ToSet(AmbientRVariables) \subseteq ToSet(Words)
  /\ ToSet(Words) \cap {Nul, "=", DriveName} = {}

ASSUME ValueUnitsAssumption ==
  Nul \notin ValueUnits /\ {"bundle", "2", "x64", "bin"} \subseteq ValueUnits

(***************************************************************************)
(* A loop over a sequence: base, and then step[.][s[n]] for each n in turn.  *)
(***************************************************************************)
Loop(step, base, s) ==
  LET after[n \in 0..Len(s)] == IF n = 0 THEN base ELSE step[after[n - 1]][s[n]]
  IN  after[Len(s)]

-------------------------------------------------------------------------------
(* LaunchEnvironment.                                                        *)

Variable(word, spelling, value) == [word |-> word, spelling |-> spelling, value |-> value]

Spelling == {"upper", "mixed"}

(* EnvironmentEntry                                                          *)
Entries == [word : ToSet(Words), spelling : Spelling, value : Seq(ValueUnits)]

(* What the owner's own environment can hold.                                *)
AmbientEntries ==
  [word : ToSet(Words) \cup {DriveName}, spelling : Spelling,
   value : Seq(ValueUnits \cup {Nul})]

(* environment_name and environment_value                                    *)
ValidName(v) == v.word # DriveName
ValidValue(v) == Nul \notin ToSet(v.value)

Rank(word) == CHOOSE i \in DOMAIN Words : Words[i] = word

(* Mutant: names are compared as they are spelled.                           *)
SameNameExact(v, w) == v.word = w.word /\ v.spelling = w.spelling

(* compare_environment_names(..) == Equal                                    *)
SameName(v, w) == v.word = w.word

(* The inner loop of sort_entries: an entry moves down until the one below   *)
(* it is not greater.                                                        *)
Insert(sorted, v) ==
  LET k == Max({0} \cup {i \in DOMAIN sorted : Rank(sorted[i].word) <= Rank(v.word)})
  IN  InsertAt(sorted, k + 1, v)

SortEntries(env) == Loop([sorted \in Seq(Entries) |-> [v \in Entries |-> Insert(sorted, v)]],
                         <<>>, env)

(* LaunchEnvironment::set replaces the entry with the same name in place, or *)
(* appends, and sorts.                                                       *)
SetVariable(env, v) ==
  LET same == {i \in DOMAIN env : SameName(env[i], v)}
  IN  SortEntries(IF same = {} THEN Append(env, v) ELSE [env EXCEPT ![Min(same)] = v])

(* LaunchEnvironment::remove drops the first entry with the name.            *)
RemoveVariable(env, v) ==
  LET same == {i \in DOMAIN env : SameName(env[i], v)}
  IN  IF same = {} THEN env ELSE RemoveAt(env, Min(same))

(* set, called for each of the variables in turn.                            *)
SetAll(env, variables) ==
  Loop([e \in Seq(Entries) |-> [v \in Entries |-> SetVariable(e, v)]], env, variables)

RemoveAll(env, words) ==
  Loop([e \in Seq(Entries) |->
          [w \in ToSet(Words) |-> RemoveVariable(e, Variable(w, "upper", <<>>))]],
       env, words)

FromCurrent(ambient) == SetAll(<<>>, ambient)

(***************************************************************************)
(* std::env::var_os: the first entry of that name, whatever its spelling.   *)
(***************************************************************************)
VarOs(ambient, word) ==
  LET found == {i \in DOMAIN ambient : ambient[i].word = word}
  IN  IF found = {} THEN <<>>
      ELSE ambient[CHOOSE i \in found : \A j \in found : i <= j].value

(***************************************************************************)
(* bundled_r_environment: the ambient block, without the R variables, then  *)
(* with the bundle's own and a PATH that begins with the bundled            *)
(* interpreter.  R_LIBS stands for the three library variables.             *)
(***************************************************************************)
BundledREnvironment(ambient) ==
  LET cleared == RemoveAll(FromCurrent(ambient), AmbientRVariables)
      owned   == <<Variable("R_HOME", "upper", <<"bundle">>),
                   Variable("R_LIBS", "upper", <<"bundle">>),
                   Variable("RPACKIT_LAUNCH_PROTOCOL", "upper", <<"2">>),
                   Variable("PATH", "upper", <<"x64", "bin">> \o VarOs(ambient, "PATH"))>>
  IN  SetAll(cleared, owned)

(***************************************************************************)
(* What the child may see of an ambient block: one entry per name, in order; *)
(* the bundle's own values for the variables the owner sets, and for every   *)
(* other name the last value that the ambient block has for it; no other R   *)
(* setting, and nothing else left out.                                       *)
(***************************************************************************)
BundledExactly(env, ambient) ==
  /\ \A i, j \in DOMAIN env : i < j => Rank(env[i].word) < Rank(env[j].word)
  /\ \A i \in DOMAIN env :
       CASE env[i].word \in {"R_HOME", "R_LIBS"} -> env[i].value = <<"bundle">>
         [] env[i].word = "RPACKIT_LAUNCH_PROTOCOL" -> env[i].value = <<"2">>
         [] env[i].word = "PATH" ->
              env[i].value = <<"x64", "bin">> \o VarOs(ambient, "PATH")
         [] OTHER -> \E n \in DOMAIN ambient :
                       /\ ambient[n] = env[i]
                       /\ \A m \in DOMAIN ambient : ambient[m].word = env[i].word => m <= n
  /\ {env[i].word : i \in DOMAIN env} =
       {"R_HOME", "R_LIBS", "RPACKIT_LAUNCH_PROTOCOL", "PATH"}
         \cup ({ambient[n].word : n \in DOMAIN ambient} \ ToSet(AmbientRVariables))

(* What a block is made of; a name is written as its word and its spelling.   *)
Units == ToSet(Words) \cup Spelling \cup {"=", Nul} \cup ValueUnits

(***************************************************************************)
(* encoded_block: NAME=VALUE and a NUL for each entry, and a NUL at the end; *)
(* an empty block has two.                                                   *)
(***************************************************************************)
EncodeEntry(block, v) == block \o <<v.word, v.spelling, "=">> \o v.value \o <<Nul>>

EncodedBlock(env) ==
  Loop([b \in Seq(Units) |-> [v \in Entries |-> EncodeEntry(b, v)]], <<>>, env)
    \o (IF env = <<>> THEN <<Nul, Nul>> ELSE <<Nul>>)

(* The block as the child reads it: up to the first empty string.            *)
ReadUnit(b, c) ==
  CASE b.done -> b
    [] ~b.done /\ c # Nul -> [env |-> b.env, cur |-> Append(b.cur, c), done |-> FALSE]
    [] OTHER ->
         IF b.cur = <<>> THEN [env |-> b.env, cur |-> <<>>, done |-> TRUE]
         ELSE [env |-> Append(b.env, Variable(b.cur[1], b.cur[2],
                                              SubSeq(b.cur, 4, Len(b.cur)))),
               cur |-> <<>>, done |-> FALSE]

ReadState ==
  [env : Seq([word : Units, spelling : Units, value : Seq(Units)]),
   cur : Seq(Units), done : BOOLEAN]

ReadBlock(block) ==
  Loop([b \in ReadState |-> [c \in Units |-> ReadUnit(b, c)]],
       [env |-> <<>>, cur |-> <<>>, done |-> FALSE], block).env

-------------------------------------------------------------------------------
(* The command line.                                                         *)

Char == {"a", "bs", "qt", "sp", Nul}

Repeated(c, n) == [i \in 1..n |-> c]

(* quote_windows_argument, without the closing quote, one character at a     *)
(* time: backslashes are held back until the next character is known.        *)
QuoteChar(acc, c) ==
  CASE c = "bs" -> [acc EXCEPT !.slashes = @ + 1]
    [] c = "qt" -> [out |-> acc.out \o Repeated("bs", 2 * acc.slashes + 1) \o <<c>>,
                    slashes |-> 0]
    [] OTHER    -> [out |-> acc.out \o Repeated("bs", acc.slashes) \o <<c>>, slashes |-> 0]

QuoteState == [out : Seq(Char), slashes : Nat]

QuoteWindowsArgument(s) ==
  IF s # <<>> /\ ToSet(s) \cap {"sp", "qt"} = {} THEN s
  ELSE LET acc == Loop([q \in QuoteState |-> [c \in Char |-> QuoteChar(q, c)]],
                       [out |-> <<"qt">>, slashes |-> 0], s)
       IN  acc.out \o Repeated("bs", 2 * acc.slashes) \o <<"qt">>

BuildCommandLine(program, arguments) ==
  Loop([line \in Seq(Char) |->
          [s \in Seq(Char) |-> line \o <<"sp">> \o QuoteWindowsArgument(s)]],
       QuoteWindowsArgument(program), arguments) \o <<Nul>>

(* The path of a file: Windows allows no quote in one, and a name does not    *)
(* end with the separator.                                                   *)
FilePath(s) == "qt" \notin ToSet(s) /\ (s # <<>> => s[Len(s)] # "bs")

(* The strings that build_command_line refuses to pass on.                   *)
CommandLineRefused(program, arguments) ==
  \/ \E s \in {program} \cup ToSet(arguments) : Nul \in ToSet(s)
  \/ Len(BuildCommandLine(program, arguments)) > CommandLineLimit

(***************************************************************************)
(* How the C runtime of the child takes a command line apart.  In the       *)
(* program's name, which comes first, a quote only says whether a blank      *)
(* ends it, and a backslash is a backslash.                                  *)
(***************************************************************************)
ParseProgramChar(p, c) ==
  CASE c = "qt" -> [p EXCEPT !.quoted = ~@]
    [] c = Nul \/ (c = "sp" /\ ~p.quoted) ->
         [argv |-> <<p.cur>>, cur |-> <<>>, slashes |-> 0, quoted |-> FALSE, open |-> FALSE]
    [] OTHER -> [p EXCEPT !.cur = Append(@, c)]

(* In an argument, 2n backslashes and a quote are n backslashes and a        *)
(* delimiter, 2n + 1 are n backslashes and a quote, others are themselves.   *)
ParseArgumentChar(p, c) ==
  LET slashes == Repeated("bs", p.slashes \div 2)
      literal == p.cur \o Repeated("bs", p.slashes)
  IN  CASE c = "bs" -> [p EXCEPT !.slashes = @ + 1, !.open = TRUE]
        [] c = "qt" /\ p.slashes % 2 = 1 ->
             [p EXCEPT !.cur = @ \o slashes \o <<c>>, !.slashes = 0]
        [] c = "qt" /\ p.slashes % 2 = 0 ->
             [p EXCEPT !.cur = @ \o slashes, !.slashes = 0, !.quoted = ~@, !.open = TRUE]
        [] c \in {"sp", Nul} /\ ~p.quoted ->
             [argv |-> IF p.open THEN Append(p.argv, literal) ELSE p.argv,
              cur |-> <<>>, slashes |-> 0, quoted |-> FALSE, open |-> FALSE]
        [] OTHER -> [p EXCEPT !.cur = Append(literal, c), !.slashes = 0, !.open = TRUE]

ParseChar(p, c) ==
  IF p.argv = <<>> THEN ParseProgramChar(p, c) ELSE ParseArgumentChar(p, c)

ParseState ==
  [argv : Seq(Seq(Char)), cur : Seq(Char), slashes : Nat, quoted : BOOLEAN, open : BOOLEAN]

ParseStart == [argv |-> <<>>, cur |-> <<>>, slashes |-> 0, quoted |-> FALSE, open |-> FALSE]

ParseCommandLine(line) ==
  Loop([p \in ParseState |-> [c \in Char |-> ParseChar(p, c)]], ParseStart, line).argv

===============================================================================
