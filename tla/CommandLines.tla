---------------------------- MODULE CommandLines ----------------------------
(***************************************************************************)
(* What szr runs in place of what was typed.  A command may sit behind     *)
(* wrappers that only change its surroundings (env, nice, assignments) and *)
(* inside the string of a shell's -c.  The engine first adds what the      *)
(* project prefers, looks through both to choose a profile, lets the       *)
(* profile put lists of flags into the command it sees, and puts the       *)
(* result back where the command was.  The hooks of agents rewrite a typed *)
(* line into one that calls szr.                                           *)
(*                                                                         *)
(* A word is a value with the properties the code asks of its characters.  *)
(* What is typed into a shell is a sequence of lexemes: a word and how it  *)
(* is written, or an operator.  An option with a value of its own is one   *)
(* word.                                                                   *)
(***************************************************************************)
EXTENDS Integers, Sequences, SequencesExt, Loops

CONSTANTS
  Assignments,  \* words NAME=value
  Tildes,       \* those of them whose value begins with a tilde
  Dashed,       \* words that begin with a dash
  Expanding,    \* words with a parameter expansion
  Unplain,      \* words with a character that joinShellWords quotes
  Clusters,     \* words of a dash and letters
  Strings,      \* what those words that hold a line for a shell hold
  Preferences,  \* what the project adds to commands, in its order
  Profiles,     \* the profiles, in the order of their precedence
  Typable,      \* what may be typed: a set of lexemes for each way of asking
  MaxTyped      \* bound of the model: lexemes of a line

Forms == {"bare", "single", "double", "part", "operator"}
Options == {"-u", "-uX", "-i", "-n", "-p", "-c", "-y"}
Programs == {"env", "command", "nice", "time", "npx", "sh", "bash", "szr", "proxy", "ls", "tree", "tsc", "git", "."}

(* A list of flags, where it is put and when it is left out: when one of   *)
(* skip is there already, or, for lists meant for a search of the current  *)
(* directory (here), when another is searched.                             *)
EditOf(places) == [skip : SUBSET STRING, here : BOOLEAN, add : Seq(STRING), place : places]

Places == {"head", "second", "terminator", "end"}
Preference == [head : STRING, skip : SUBSET STRING, here : BOOLEAN, add : Seq(STRING), place : Places]
Profile == [name : STRING, by : {"command", "display", "head"}, head : STRING \ {""},
            edits : Seq(EditOf(Places \cup {"replace"})), source : {"project", "builtin"}]

Replaces(p) == \E i \in DOMAIN p.edits : p.edits[i].place = "replace"

(* Options and names of programs hold no "=" and nothing that expands,     *)
(* what expands is quoted, and only a rule of the project replaces a       *)
(* command.                                                                *)
LinesAssumption ==
  /\ Options \cup {"--"} \subseteq Dashed \ Assignments
  /\ Programs \cap (Assignments \cup Dashed \cup Expanding) = {}
  /\ Expanding \subseteq Unplain
  /\ {"-c", "-l", "-lc"} \subseteq Clusters /\ Clusters \subseteq Dashed
  /\ Preferences \in Seq(Preference)
  /\ Profiles \in Seq(Profile)
  /\ \A i \in DOMAIN Profiles : /\ Profiles[i].head \notin Assignments
                                /\ Replaces(Profiles[i]) => Profiles[i].source = "project"
  /\ \A way \in DOMAIN Typable : Typable[way] \subseteq [word : STRING, form : Forms]

ASSUME LinesAreLines == LinesAssumption

VARIABLES
  asked,  \* "argv": szr with an argv; "string": a shell's -c; "hook": a line to rewrite
  typed   \* the lexemes so far

lineVars == <<asked, typed>>

Bare(w) == [word |-> w, form |-> "bare"]
Single(w) == [word |-> w, form |-> "single"]
From(s, k) == SubSeq(s, k, Len(s))
Words(lexemes) == [i \in DOMAIN lexemes |-> lexemes[i].word]
OnlyAssignments(words) == words # <<>> /\ \A i \in DOMAIN words : words[i] \in Assignments

-----------------------------------------------------------------------------
(* Wrappers of an argv.  Commands are told by the place they begin at.     *)

Skipped(wrapper) ==
  IF wrapper = "env" THEN Assignments \cup {"-uX"} ELSE IF wrapper = "command" THEN {"-p"} ELSE {}

(* Broken: nice is taken for a wrapper without options. *)
ValuedOnlyByEnv(wrapper, nth) == IF wrapper = "env" THEN {"-u"} ELSE {}

(* nice takes its priority first only. *)
Valued(wrapper, nth) ==
  IF wrapper = "env" THEN {"-u"} ELSE IF wrapper = "nice" /\ nth = 1 THEN {"-n"} ELSE {}

(* Where the command behind the wrapper at i begins; 0 when an option is   *)
(* not one that szr knows.                                                 *)
Operand(args, i) ==
  LET n == Len(args)
      skipped(k) == args[k] \in Skipped(args[i])
      valued(k) == args[k] \in Valued(args[i], k - i)
      end == WalkEnd(n, {k \in 1 .. n : ~skipped(k) /\ ~(valued(k) /\ k < n)},
                     [k \in 1 .. n |-> IF skipped(k) THEN k + 1 ELSE k + 2], i + 1)
  IN  IF end <= n /\ (valued(end) \/ args[end] \in Dashed) THEN 0 ELSE end

PastAssignments(args, i) ==
  WalkEnd(Len(args), {k \in DOMAIN args : args[k] \notin Assignments},
          [k \in DOMAIN args |-> k + 1], i)

TransparentWrapperWidth(args, i) ==
  IF args[i] \in Assignments THEN PastAssignments(args, i) - i
  ELSE IF args[i] \in {"env", "command", "nice", "time"} THEN Operand(args, i) - i
  ELSE 0

(* Where the command behind all wrappers begins.  A wrapper of nothing is  *)
(* a command.                                                              *)
InnerAt(args) ==
  LET n == Len(args)
      width(i) == TransparentWrapperWidth(args, i)
  IN  WalkEnd(n, {i \in 1 .. n : width(i) <= 0 \/ width(i) >= n - i + 1},
              [i \in 1 .. n |-> i + width(i)], 1)

StripTransparentPrefix(args) == From(args, InnerAt(args))

(* Classification looks through more than that. *)
PastOptions(args, i, skipped, valued) ==
  LET n == Len(args)
      option(k) == args[k] # "--" /\ args[k] \in Dashed \cup skipped \cup valued
      end == WalkEnd(n, {k \in 1 .. n : ~option(k)},
                     [k \in 1 .. n |-> IF args[k] \in valued /\ k < n THEN k + 2 ELSE k + 1], i)
  IN  IF end <= n /\ args[end] = "--" THEN end + 1 ELSE end

StripCommandWrappers(args) ==
  WalkEnd(Len(args),
          {i \in DOMAIN args : args[i] \notin {"env", "command", "builtin"} \cup Assignments},
          [i \in DOMAIN args |-> IF args[i] = "env" THEN PastOptions(args, i + 1, Assignments, {"-u"})
                                 ELSE IF args[i] \in Assignments THEN PastAssignments(args, i)
                                 ELSE i + 1], 1)

NpxValued == {"-p", "-c"}
StripNodeToolWrappers(args, i) ==
  WalkEnd(Len(args), {k \in DOMAIN args : args[k] # "npx"},
          [k \in DOMAIN args |-> PastOptions(args, k + 1, {}, NpxValued)], i)

-----------------------------------------------------------------------------
(* The string of a shell's -c. *)

Separators == {"&&", ";"}
Operator(l) == l.form = "operator"

(* The parser does not look for a tilde inside a word. *)
Risky(l) == l.form \in {"bare", "double"} /\ l.word \in Expanding

(* The segments, by the places they begin at. Empty ones are dropped. *)
ParseShellSegments(lexemes) ==
  LET n == Len(lexemes)
      operators == {i \in 1 .. n : Operator(lexemes[i])}
      starts == {i \in (1 .. n) \ operators : i = 1 \/ i - 1 \in operators}
      end(i) == Min({k \in i .. n : k = n \/ k + 1 \in operators})
  IN  [ok |-> \A i \in operators : lexemes[i].word \in Separators,
       segments |-> [i \in starts |->
                       [words |-> Words(SubSeq(lexemes, i, end(i))), start |-> i,
                        safe |-> \A k \in i .. end(i) : ~Risky(lexemes[k])]]]

IsShellSetupSegment(words) ==
  \/ words[1] \in {"source", ".", "cd", "export", "set", "unset"}
  \/ words[1] = "eval" /\ OnlyAssignments(Tail(words))
  \/ OnlyAssignments(words)

WithCommand == {"-c", "-lc"}

(* The place of the command string in the argv of a shell, or 0. *)
ShellWrapperCommandIndex(args) ==
  LET found == {i \in 2..Len(args) - 1 : /\ args[i] \in WithCommand
                                         /\ \A k \in 2..i - 1 : args[k] \in Clusters \ WithCommand}
  IN  IF Len(args) >= 3 /\ args[1] \in {"sh", "bash"} /\ found # {}
      THEN (CHOOSE i \in found : TRUE) + 1 ELSE 0

NotWrapped == [start |-> 0, safe |-> FALSE, words |-> <<>>]

LastOf(parsed) ==
  LET starts == DOMAIN parsed.segments
      last == parsed.segments[Max(starts)]
  IN  IF /\ parsed.ok /\ starts # {}
         /\ \A i \in starts \ {Max(starts)} : IsShellSetupSegment(parsed.segments[i].words)
         /\ ShellWrapperCommandIndex(last.words) = 0
      THEN last ELSE NotWrapped

FinalCommandSegment(lexemes) == LastOf(ParseShellSegments(lexemes))

QuoteShellWord(w) == IF w \in Unplain THEN Single(w) ELSE Bare(w)
JoinShellWords(words) == [i \in DOMAIN words |-> QuoteShellWord(words[i])]

-----------------------------------------------------------------------------
(* The engine: profile, flags and splice. *)

(* The program behind the wrappers that classification knows. *)
HeadBehind(args) ==
  LET inner == StripNodeToolWrappers(args, StripCommandWrappers(args))
  IN  IF inner > Len(args) THEN "" ELSE args[inner]

(* What a word holds that is given to a shell; most hold themselves only. *)
Held(word) == IF word \in DOMAIN Strings THEN Strings[word] ELSE <<Bare(word)>>

(* The string of a shell is looked through here as well, in a command that *)
(* runs the shell behind wrappers.                                         *)
ClassifiedHead(display) ==
  LET string == ShellWrapperCommandIndex(display)
      words == IF string = 0 THEN <<>> ELSE FinalCommandSegment(Held(display[string])).words
  IN  HeadBehind(IF words = <<>> THEN display ELSE words)

Fallback == [name |-> "passthrough", by |-> "none", head |-> "", edits |-> <<>>, source |-> "fallback"]

(* Some profiles look at the command, some at what was typed, some at what *)
(* that is classified as.                                                  *)
MatchesProfile(p, command, display) ==
  /\ command # <<>>
  /\ \/ p.by = "command" /\ p.head = command[1]
     \/ p.by = "display" /\ display # <<>> /\ p.head = display[1]
     \/ p.by = "head" /\ p.head = ClassifiedHead(display)

MatchProfile(command, display) ==
  LET hits == {i \in DOMAIN Profiles : MatchesProfile(Profiles[i], command, display)}
  IN  IF hits = {} THEN Fallback ELSE Profiles[Min(hits)]

(* Behind a "--" every word is an operand.                                 *)
Terminated(args, i) == \E k \in 1 .. i - 1 : args[k] = "--"
IsOperand(args, i) == Terminated(args, i) \/ args[i] \notin Dashed
Elsewhere(args) ==
  \E k, i \in DOMAIN args : k < i /\ IsOperand(args, k) /\ IsOperand(args, i) /\ args[i] # "."

LeftOut(e, args) ==
  \/ e.add = <<>>
  \/ \E i \in DOMAIN args : args[i] \in e.skip /\ (e.here => ~Terminated(args, i))
  \/ e.here /\ Elsewhere(args)

(* The word a list is put behind, 0 if it has no place: find is given one  *)
(* behind the current directory only.                                      *)
Slot(command, place) ==
  LET n == Len(command)
      terminators == {i \in 2 .. n : command[i] = "--"}
  IN  IF place = "head" THEN 1
      ELSE IF place = "second" THEN IF n > 1 /\ command[2] = "." THEN 2 ELSE 0
      ELSE IF place = "terminator" /\ terminators # {} THEN Min(terminators) - 1
      ELSE n

Edited(command, e) ==
  LET slot == Slot(command, e.place)
  IN  IF slot = 0 \/ LeftOut(e, Tail(command)) THEN command
      ELSE IF e.place = "replace" THEN e.add
      ELSE SubSeq(command, 1, slot) \o e.add \o From(command, slot + 1)

(* One list after the other. *)
Rewritten(command, edits) ==
  LET after[i \in 0 .. Len(edits)] == IF i = 0 THEN command ELSE Edited(after[i - 1], edits[i])
  IN  after[Len(edits)]

Prepare(p, command) == Rewritten(command, p.edits)

(* What the project prefers to what was typed, which is looked at as a     *)
(* whole.                                                                  *)
Preferred(argv) ==
  IF argv = <<>> THEN argv
  ELSE Rewritten(argv, KeepAt(Preferences, {i \in DOMAIN Preferences : Preferences[i].head = argv[1]}))

(* What is run instead of an argv that is no call of a shell. *)
ExecArgv(words) ==
  LET argv == Preferred(words)
      inner == StripTransparentPrefix(argv)
  IN  SubSeq(argv, 1, InnerAt(argv) - 1)
        \o Prepare(MatchProfile(inner, StripTransparentPrefix(words)), inner)

(* Broken: the prepared words are put back without asking whether they may be. *)
ExecStringAlways(lexemes) ==
  LET last == FinalCommandSegment(lexemes)
      inner == StripTransparentPrefix(last.words)
      prefix == SubSeq(last.words, 1, InnerAt(last.words) - 1)
      profile == MatchProfile(inner, inner)
      prepared == IF profile.source = "project" THEN inner ELSE Prepare(profile, inner)
  IN  IF last.words = <<>> \/ prepared = inner THEN lexemes
      ELSE SubSeq(lexemes, 1, last.start - 1) \o JoinShellWords(prefix \o prepared)

(* What stands in the string of the shell that is run instead. A project   *)
(* prefers nothing to a string: what it adds to the call of the shell is   *)
(* no part of it.                                                          *)
ExecString(lexemes) ==
  LET last == FinalCommandSegment(lexemes)
      inner == StripTransparentPrefix(last.words)
      prefix == SubSeq(last.words, 1, InnerAt(last.words) - 1)
      profile == MatchProfile(inner, inner)
      prepared == IF profile.source = "project" THEN inner ELSE Prepare(profile, inner)
  IN  IF last.words = <<>> \/ prepared = inner \/ ~last.safe THEN lexemes
      ELSE SubSeq(lexemes, 1, last.start - 1) \o JoinShellWords(prefix \o prepared)

-----------------------------------------------------------------------------
(* The rewrite of a typed line for the hooks of agents. *)

(* Broken: a list is cut at its pipes and semicolons only. *)
SplitAtPipes(lexemes) ==
  LET cuts == {i \in DOMAIN lexemes : Operator(lexemes[i]) /\ lexemes[i].word \in {"|", ";"}}
      cut == Min(cuts \cup {Len(lexemes) + 1})
  IN  [producer |-> SubSeq(lexemes, 1, cut - 1), suffix |-> From(lexemes, cut)]

Cuts == {"|", ";", "&&"}

(* The first command and what follows it, from its operator on. *)
SplitProducer(lexemes) ==
  LET cuts == {i \in DOMAIN lexemes : Operator(lexemes[i]) /\ lexemes[i].word \in Cuts}
      cut == Min(cuts \cup {Len(lexemes) + 1})
  IN  [producer |-> SubSeq(lexemes, 1, cut - 1), suffix |-> From(lexemes, cut)]

Unrouted == [ok |-> FALSE, structured |-> FALSE, args |-> <<>>]
Verbatim == [ok |-> TRUE, structured |-> FALSE, args |-> <<>>]
Structured(args) == [ok |-> TRUE, structured |-> TRUE, args |-> args]

CanonicalRewriteWords(words) ==
  IF words # <<>> /\ words[1] = "npx" THEN From(words, PastOptions(words, 2, {}, NpxValued)) ELSE words

(* szr's own listing takes a path, or none and then the current directory. *)
RewriteLS(words) ==
  IF Len(words) = 1 THEN Structured(<<"ls", ".">>)
  ELSE IF Len(words) = 2 /\ words[2] \notin Dashed THEN Structured(<<"ls", words[2]>>)
  ELSE Unrouted

AutoRewriteCommand(given) ==
  LET words == CanonicalRewriteWords(given)
  IN  IF words = <<>> THEN Unrouted
      ELSE IF words[1] \in {"ls", "tree"} THEN RewriteLS(words)
      ELSE IF words[1] = "tsc" THEN Structured(words)
      ELSE IF words[1] = "git" /\ Len(words) > 1
              /\ words[2] \in {"status", "diff", "log", "show", "ls-files"} THEN Verbatim
      ELSE Unrouted

(* Empty when the line is left as it is. *)
Analyze(lexemes) ==
  LET parts == SplitProducer(lexemes)
      words == Words(parts.producer)
      route == AutoRewriteCommand(words)
  IN  IF words = <<>> THEN <<>>
      ELSE IF words[1] = "szr" \/ ~route.ok THEN <<>>
      ELSE IF parts.suffix # <<>>
           THEN IF route.structured THEN <<>>
                ELSE <<Bare("szr"), Bare("proxy")>> \o lexemes
      ELSE <<Bare("szr")>> \o (IF route.structured THEN JoinShellWords(route.args) ELSE lexemes)
-----------------------------------------------------------------------------
LineInit == asked \in DOMAIN Typable /\ typed = <<>>

Type ==
  /\ Len(typed) < MaxTyped
  /\ \E l \in Typable[asked] : typed' = Append(typed, l)
  /\ UNCHANGED asked

LineNext == Type
LineSpec == LineInit /\ [][LineNext]_lineVars

LineTypeOK ==
  /\ asked \in DOMAIN Typable
  /\ typed \in Seq(Typable[asked])

-----------------------------------------------------------------------------
(* What the shell and the wrappers make of a line. They are no part of szr. *)

(* A word is assigned when its name is bare and only assignments are before *)
(* it in its command; a tilde in what is assigned expands when it is bare.  *)
Names(l) == l.form \in {"bare", "part"} /\ l.word \in Assignments
Assigns(lexemes, i) ==
  \E k \in 1 .. i : /\ k = 1 \/ Operator(lexemes[k - 1])
                   /\ \A j \in k .. i : Names(lexemes[j])

Meaning(lexemes) ==
  LET expands(i) == \/ Risky(lexemes[i])
                    \/ /\ Assigns(lexemes, i)
                       /\ lexemes[i].form = "bare" /\ lexemes[i].word \in Tildes
      role(i) == IF Operator(lexemes[i]) THEN "operator"
                 ELSE IF Assigns(lexemes, i) THEN "assignment" ELSE "word"
  IN  [i \in DOMAIN lexemes |-> <<role(i), lexemes[i].word, expands(i)>>]

Literal(word) == <<"word", word, FALSE>>
PlainCommand(meaning) == \A i \in DOMAIN meaning : meaning[i][1] # "operator"

(* Lines the shell accepts: a command on either side of every operator. *)
Accepted(lexemes) ==
  \A i \in DOMAIN lexemes : Operator(lexemes[i]) =>
    i > 1 /\ i < Len(lexemes) /\ ~Operator(lexemes[i - 1])

(* Where the program begins that the wrappers of an argv finally run, 0 if *)
(* one of them refuses its options. env takes assignments after options.   *)
Wrappers == {"env", "nice", "command", "time", "npx"}

FlagsOf(w) ==
  IF w = "env" THEN {"-i", "-uX"} ELSE IF w \in {"command", "time"} THEN {"-p"}
  ELSE IF w = "npx" THEN {"-y"} ELSE {}

ValuedOf(w) ==
  IF w = "env" THEN {"-u"} ELSE IF w = "nice" THEN {"-n"} ELSE IF w = "npx" THEN {"-p", "-c"} ELSE {}

OptionsEnd(argv, i) ==
  LET n == Len(argv)
  IN  WalkEnd(n, {k \in 1 .. n : argv[k] \notin FlagsOf(argv[i]) \cup ValuedOf(argv[i])},
              [k \in 1 .. n |-> IF argv[k] \in FlagsOf(argv[i]) \/ k = n THEN k + 1 ELSE k + 2],
              i + 1)

ProgramAt(argv) ==
  LET n == Len(argv)
      refused == Dashed \cup Assignments
      end == WalkEnd(n, {i \in 1 .. n : argv[i] \notin Wrappers \ refused},
                     [i \in 1 .. n |-> IF argv[i] = "env" THEN PastAssignments(argv, OptionsEnd(argv, i))
                                       ELSE OptionsEnd(argv, i)], 1)
  IN  IF end <= n /\ argv[end] \notin refused THEN end ELSE 0

-----------------------------------------------------------------------------
(* Looking through wrappers never goes past the program they run, and ends *)
(* exactly there unless a wrapper or an option in front is one szr leaves  *)
(* alone: the flags of a profile are meant for that program, and flags for *)
(* another would change or break the command.                              *)
LeftAlone(argv, i) ==
  \/ argv[i] \in {"-i", "npx"}
  \/ argv[i] = "-p" /\ \E k \in 1 .. i - 1 : argv[k] = "time"
  \/ argv[i] = "-n" /\ i > 2 /\ argv[i - 2] = "-n"

MatchedIsWhatRuns ==
  LET argv == Words(typed)
      p == ProgramAt(argv)
      inner == StripTransparentPrefix(argv)
  IN  asked = "argv" /\ p # 0 =>
        /\ Len(inner) >= Len(argv) - p + 1
        /\ (\A i \in 1 .. p - 1 : ~LeftAlone(argv, i)) => inner = From(argv, p)

(* What runs in place of what was typed, after the preferences of the      *)
(* project, differs from it by words that the lists of the matched profile *)
(* hold, and those are read by the program it was matched for: the same    *)
(* setup before it, the same assignments, the same words in their order,   *)
(* expanded by the shell or not as they were, and no word in front of a    *)
(* "--" now behind one, unless a list is for the end.                      *)
AddedBy(profile) == UNION {ToSet(profile.edits[i].add) : i \in DOMAIN profile.edits}
Ends(profile) == IF \E i \in DOMAIN profile.edits : profile.edits[i].place = "end" THEN {} ELSE {"--"}

FlagsAreAdded(before, after, added, program, ends) ==
  \E R \in SUBSET {i \in program + 1 .. Len(after) : after[i] \in added} :
    /\ KeepAt(after, DOMAIN after \ R) = before
    /\ \A r \in R : \A i \in (program + 1 .. r) \ R : after[i] \notin ends

LastCommandAt(lexemes) == Max({0} \cup {i \in DOMAIN lexemes : Operator(lexemes[i])})
LastCommand(lexemes) == Words(From(lexemes, LastCommandAt(lexemes) + 1))

StringIsKept ==
  LET inner == StripTransparentPrefix(FinalCommandSegment(typed).words)
      profile == MatchProfile(inner, inner)
      added == IF profile.source = "project" THEN {} ELSE AddedBy(profile)
  IN  asked = "string" /\ Accepted(typed) =>
        FlagsAreAdded(Meaning(typed), Meaning(ExecString(typed)), {Literal(w) : w \in added},
                      LastCommandAt(typed) + InnerAt(LastCommand(typed)),
                      {Literal(w) : w \in Ends(profile)})

(* An assignment in front of the command is put back with the quotes of a  *)
(* word, and is then none.                                                 *)
AssignsBare(lexemes) ==
  \A i \in DOMAIN lexemes :
    lexemes[i].word \in Assignments => lexemes[i] = Bare(lexemes[i].word) /\ lexemes[i].word \notin Unplain

(* A shell behind wrappers is matched for what is in its string, and gets  *)
(* the flags itself.                                                       *)
OnlyFlagsAreAdded ==
  /\ AssignsBare(typed) => StringIsKept
  /\ LET words == Words(typed)
         argv == Preferred(words)
         p == ProgramAt(argv)
         command == From(argv, p)
         profile == MatchProfile(command, StripTransparentPrefix(words))
     IN  asked = "argv" /\ p # 0 /\ ShellWrapperCommandIndex(words) = 0
           /\ StripTransparentPrefix(argv) = command /\ ~Replaces(profile) =>
           /\ FlagsAreAdded(argv, ExecArgv(words), AddedBy(profile), p, Ends(profile))
           /\ argv = words /\ command[1] # "builtin" /\ ShellWrapperCommandIndex(command) = 0 =>
                profile.head \in {"", command[1]}

(* A line rewritten for an agent means szr in front of what was typed, or  *)
(* szr with the command of its own that stands for it. The arguments of    *)
(* those are quoted one by one, so nothing is said of lines in which the   *)
(* shell would have expanded or redirected.                                *)
HookKeepsTheLine ==
  LET after == Meaning(Analyze(typed))
      words == CanonicalRewriteWords(Words(typed))
      listing == words[1] \in {"ls", "tree"}
      args == IF listing /\ Len(words) = 1 THEN <<".">> ELSE Tail(words)
      own == <<"szr", IF listing THEN "ls" ELSE words[1]>> \o args
      shellWork == \E i \in DOMAIN typed :
        Risky(typed[i]) \/ (Operator(typed[i]) /\ typed[i].word \notin Cuts)
  IN  asked = "hook" /\ Accepted(typed) /\ after # <<>> =>
        \/ after = <<Literal("szr")>> \o Meaning(typed)
        \/ after = <<Literal("szr"), Literal("proxy")>> \o Meaning(typed) /\ ~PlainCommand(Meaning(typed))
        \/ PlainCommand(Meaning(typed)) /\ after = [i \in DOMAIN own |-> Literal(own[i])]
        \/ shellWork
=============================================================================
