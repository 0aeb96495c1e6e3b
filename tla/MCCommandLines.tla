--------------------------- MODULE MCCommandLines ---------------------------
(***************************************************************************)
(* An instance of CommandLines for TLC: one word of every kind the code    *)
(* tells apart, written in every way that makes a difference, a profile    *)
(* for every place a list of flags is put at and every way of matching,    *)
(* and preferences of a project.                                           *)
(***************************************************************************)
EXTENDS CommandLines

Lexeme(w, f) == [word |-> w, form |-> f]
BareWords(S) == {Lexeme(w, "bare") : w \in S}
OperatorsOf(S) == {Lexeme(w, "operator") : w \in S}

Edit(skip, add, place) == [skip |-> skip, here |-> FALSE, add |-> add, place |-> place]
Matched(name, by, head, edits, source) ==
  [name |-> name, by |-> by, head |-> head, edits |-> edits, source |-> source]
SearchExcludes == [skip |-> {"-u", "-g"}, here |-> TRUE, add |-> <<"-g", "!out">>, place |-> "head"]
ProfileList ==
  <<Matched("rule", "command", "make", <<Edit({}, <<"true">>, "replace")>>, "project"),
    Matched("lint", "command", "x", <<Edit({"-y"}, <<"-e", "-v">>, "terminator")>>, "project"),
    Matched("go-test-json", "command", "go", <<Edit({"-json"}, <<"-json">>, "end")>>, "builtin"),
    Matched("ripgrep", "head", "rg",
            <<Edit({"-n"}, <<"-n">>, "head"), Edit({"-H"}, <<"-H">>, "head"), SearchExcludes>>, "builtin"),
    Matched("path-find", "display", "find", <<Edit({"-path"}, <<"-not", "-path">>, "second")>>, "builtin")>>
PreferenceList ==
  <<[head |-> "rg", skip |-> {"-i"}, here |-> FALSE, add |-> <<"-i">>, place |-> "terminator"],
    [head |-> "env", skip |-> {"x"}, here |-> FALSE, add |-> <<"x">>, place |-> "end"]>>

(* The word rgx holds a call of rg. *)
ShellStrings == [w \in {"rgx"} |-> <<Lexeme("rg", "bare"), Lexeme("x", "bare")>>]

Argv == BareWords({"env", "-u", "-i", "nice", "-n", "command", "-p", "time", "A=1", "npx", "--",
                   "go", "rg", "x", "make", "find", ".", "sh", "-c", "rgx"})
ShellString ==
  BareWords({"A=1", "A=~x", "$X", "cd", "go", "rg", "x", "-json", "--", "make", "env", "sh", "-c", "rgx"})
    \cup {Lexeme("A=a b", "part"), Lexeme("A=1", "single"), Lexeme("$X", "single"),
          Lexeme("$X", "double")}
    \cup OperatorsOf({"&&", "|"})
AgentLine ==
  BareWords({"git", "log", "ls", "tsc", "npx", "-y", "x", "$X", "szr"})
    \cup {Lexeme("$X", "single")} \cup OperatorsOf({"|", "&&", ">"})

AssignmentWords == {"A=1", "A=a b", "A=~x"}
TildeWords == {"A=~x"}
DashedWords == Options \cup {"--", "-l", "-lc", "-json", "-e", "-v", "-g", "-H", "-not", "-path"}
ClusterWords == DashedWords \ {"--"}
ExpandingWords == {"$X"}
UnplainWords == {"!out", "A=a b", "A=~x", "$X", ">", "|", "&&"}
WaysOfTyping == [argv |-> Argv, string |-> ShellString, hook |-> AgentLine]
=============================================================================
