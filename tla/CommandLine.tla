----------------------------- MODULE CommandLine -----------------------------
(***************************************************************************)
(* How the command line client reads its arguments                         *)
(* (src/internal/cli/cli.go): boolean flags are taken out first, wherever  *)
(* they stand, then parseArgs pairs every other flag with the argument     *)
(* after it; runStart adds the environment.                                *)
(*                                                                         *)
(* An argument is a word ("page.html"), a flag ("--tag") or a flag with a  *)
(* value of its own ("--auth=false").                                      *)
(***************************************************************************)
EXTENDS Lists

Switches == {"auth", "protect-previews", "allow-registration"}

CONSTANTS
    Words,          \* what does not begin with "--"
    Flags,          \* names of the flags that take a value
    Values          \* what may be written after the "=" of a switch

ASSUME FlagsAssumption == "" \notin Flags /\ Flags \cap Switches = {}

Word(w) == [kind |-> "word", name |-> w, value |-> ""]
Flag(f) == [kind |-> "flag", name |-> f, value |-> ""]
Setting(f, value) == [kind |-> "setting", name |-> f, value |-> value]
Trues == {"true", "1"}
Falses == {"false", "0"}

\* A switch given twice, or set to something else than true or false.
Wrong(hits) ==
    Len(hits) > 1 \/ \E i \in DOMAIN hits : hits[i].kind = "setting" /\ hits[i].value \notin Trues \cup Falses
SaysTrue(a) == a.kind = "flag" \/ a.value \in Trues

(***************************************************************************)
(* popBoolFlag and popBoolFlagWithPresence: the arguments without the      *)
(* switch, whether it was there, and its value.                            *)
(***************************************************************************)
PopBoolFlag(args, switch) ==
    LET mine == {i \in DOMAIN args : args[i].kind # "word" /\ args[i].name = switch}
        hits == Entries(args, mine)
    IN  [ok |-> ~Wrong(hits), args |-> Entries(args, DOMAIN args \ mine), present |-> hits # <<>>,
         value |-> ~Wrong(hits) /\ hits # <<>> /\ SaysTrue(hits[1])]

(***************************************************************************)
(* parseArgs.  open is the flag whose value is expected; a setting that    *)
(* nobody took out is a flag with an odd name.                             *)
(***************************************************************************)
NothingParsed == [ok |-> TRUE, flags |-> {}, positionals |-> <<>>, open |-> <<>>]

\* A plausible bug: the value of a flag is a positional argument as well.
ParseKeepsValue(st, a) ==
    IF a.kind = "word"
        THEN [st EXCEPT !.positionals = Append(@, a.name), !.open = <<>>,
                        !.flags = IF st.open = <<>> THEN @ ELSE @ \cup {<<st.open[1], a.name>>}]
        ELSE [st EXCEPT !.ok = @ /\ st.open = <<>> /\ ~\E f \in st.flags : f[1] = a, !.open = <<a>>]

ParseOne(st, a) ==
    IF a.kind = "word" /\ st.open = <<>> THEN [st EXCEPT !.positionals = Append(@, a.name)]
    ELSE IF a.kind = "word"
        THEN [ok |-> st.ok, flags |-> st.flags \cup {<<st.open[1], a.name>>},
              positionals |-> st.positionals, open |-> <<>>]
    ELSE [ok |-> st.ok /\ a # Flag("") /\ st.open = <<>> /\ ~\E f \in st.flags : f[1] = a,
          flags |-> st.flags, positionals |-> st.positionals, open |-> <<a>>]

ParseAll(args) ==
    LET st[n \in 0..Len(args)] == IF n = 0 THEN NothingParsed ELSE ParseOne(st[n - 1], args[n])
    IN  st[Len(args)]

ParseArgs(args) ==
    LET end == ParseAll(args)
    IN  [ok |-> end.ok /\ end.open = <<>>, flags |-> end.flags, positionals |-> end.positionals]

(***************************************************************************)
(* runStart: the switches in the order they are taken out, and the posture *)
(* that follows from them and from the environment.                        *)
(***************************************************************************)
ReadStart(args) ==
    LET auth == PopBoolFlag(args, "auth")
        protect == PopBoolFlag(auth.args, "protect-previews")
        register == PopBoolFlag(protect.args, "allow-registration")
        parsed == ParseArgs(register.args)
    IN  [ok |-> auth.ok /\ protect.ok /\ register.ok /\ parsed.ok, parsed |-> parsed,
         auth |-> auth, protect |-> protect, register |-> register]

\* A plausible bug: --auth=false cannot overrule the environment.
ResolveBoolEither(popped, env, default) ==
    popped.value \/ env \in Trues \/ (default /\ env \notin Falses)

\* resolveBool and resolveBoolDefaultTrue.
ResolveBool(popped, env, default) ==
    IF popped.present THEN popped.value ELSE env \in Trues \/ (default /\ env \notin Falses)

\* The posture: registration is open only where there is authentication.
Posture(read, env) ==
    LET protect == ResolveBool(read.protect, env["protect-previews"], FALSE)
        auth == protect \/ ResolveBool(read.auth, env["auth"], FALSE)
        register == ResolveBool(read.register, env["allow-registration"], TRUE)
    IN  [auth |-> auth, protect |-> protect, register |-> auth /\ register]

(***************************************************************************)
(* What a command line means: pieces are the switches, the flags with      *)
(* their values and the words its author wrote, in any order.              *)
(***************************************************************************)
Pieces ==
    {<<Word(w)>> : w \in Words} \cup {<<Flag(f), Word(w)>> : f \in Flags, w \in Words}
      \cup {<<Flag(s)>> : s \in Switches} \cup {<<Setting(s, v)>> : s \in Switches, v \in Values}

IsWord(piece) == Len(piece) = 1 /\ piece[1].kind = "word"
IsSwitch(piece) == Len(piece) = 1 /\ piece[1].kind # "word"
IsFlag(piece) == Len(piece) = 2
NamedTwice(pieces) ==
    \E i, j \in DOMAIN pieces : i # j /\ pieces[i][1].kind # "word" /\ pieces[i][1].name = pieces[j][1].name
                                      /\ pieces[j][1].kind # "word"
Nonsense(pieces) ==
    \E i \in DOMAIN pieces : pieces[i][1].kind = "setting" /\ pieces[i][1].value \notin Trues \cup Falses

(***************************************************************************)
(* However the pieces are ordered, each flag gets the value written after  *)
(* it, each word that belongs to no flag is positional, in order, and no   *)
(* switch takes an argument; a line that names something twice, or sets a  *)
(* switch to something else than true or false, is refused (parseArgs,     *)
(* popBoolFlagWithPresence).                                               *)
(***************************************************************************)
ArgumentsReadBack(pieces) ==
    LET read == ReadStart(FlattenSeq(pieces))
        words == Entries(pieces, {i \in DOMAIN pieces : IsWord(pieces[i])})
        flags == {pieces[i] : i \in {k \in DOMAIN pieces : IsFlag(pieces[k])}}
    IN  /\ read.ok <=> ~NamedTwice(pieces) /\ ~Nonsense(pieces)
        /\ read.ok => /\ read.parsed.positionals = [i \in DOMAIN words |-> words[i][1].name]
                      /\ read.parsed.flags = {<<f[1], f[2].name>> : f \in flags}

(***************************************************************************)
(* The server never starts more open than it was told: what the command    *)
(* line says of a switch holds whatever the environment says, the          *)
(* environment speaks only where the line is silent, previews are never    *)
(* protected without authentication (runStart, resolveBool,                *)
(* resolveBoolDefaultTrue).                                                *)
(***************************************************************************)
PostureIsAsAsked(pieces, env) ==
    LET read == ReadStart(FlattenSeq(pieces))
        posture == Posture(read, env)
        said(s) == {p[1] : p \in {q \in ToSet(pieces) : IsSwitch(q) /\ q[1].name = s}}
        asked(s) == IF said(s) = {} THEN env[s] \in Trues ELSE \E a \in said(s) : SaysTrue(a)
        denied(s) == IF said(s) = {} THEN env[s] \in Falses ELSE ~\E a \in said(s) : SaysTrue(a)
        protect == asked("protect-previews")
        auth == protect \/ asked("auth")
        register == auth /\ ~denied("allow-registration")
    IN  read.ok => posture = [auth |-> auth, protect |-> protect, register |-> register]
=============================================================================
