----------------------------- MODULE ComposeArgs -----------------------------
(***************************************************************************)
(* How vaka reads its command line and where it puts its override among    *)
(* the files of docker compose (cmd/vaka/invocation.go, inject.go), and    *)
(* how docker compose reads the result.  A token stands for those that are *)
(* treated alike; one with "=" at its end has its value behind it.  No     *)
(* value is empty, or glued to a flag of one letter.                       *)
(***************************************************************************)
EXTENDS Integers, Sequences

CONSTANTS
  Words,    \* tokens that begin with no dash: verbs, files and other values
  Defaults, \* the files docker compose finds if none is given
  Override, \* the path of the inherited descriptor
  MaxTokens \* bound, on the tokens of a command line

\* Flags of compose that take the next token as their value, or have one.
TakesNext == {"-f", "--profile"}
HasValue == {"--file=", "--profile="}
ComposeFlags == TakesNext \union HasValue \union {"--verbose", "--help"}

\* Flags of docker itself, and of vaka.
DockerFlags == {"-H", "--debug"}
VakaFlags == {"--vaka-file=", "--vaka-init-present"}
UnknownVaka == {"--vaka-fil="}

FlagTokens ==
  ComposeFlags \union DockerFlags \union VakaFlags \union UnknownVaka \union {"--build"}

Tokens == Words \union FlagTokens \union {"--", "compose"}

IsFlag(tok) == tok \in FlagTokens

ASSUME WordsAssumption ==
  /\ (Words \union {Override}) \intersect (FlagTokens \union {"--"}) = {}
  /\ Defaults \in Seq(Words)
  /\ MaxTokens \in Nat

Least(S) == IF S = {} THEN 0 ELSE CHOOSE i \in S : \A j \in S : i <= j
Greatest(S) == IF S = {} THEN 0 ELSE CHOOSE i \in S : \A j \in S : j <= i

-----------------------------------------------------------------------------
\* extractVakaFlags: the flags of vaka come before the command, and only they do.
CommandAt(argv) == Least({i \in DOMAIN argv : ~ IsFlag(argv[i])})

Misplaced(argv) ==
  LET at == CommandAt(argv)
      dash == Least({i \in DOMAIN argv : argv[i] = "--"})
      end == IF dash = 0 THEN Len(argv) ELSE dash IN
  \/ \E i \in DOMAIN argv : (at = 0 \/ i < at) /\ argv[i] \notin VakaFlags \union {"--help"}
  \/ at # 0 /\ \E i \in at + 1 .. end : argv[i] \in VakaFlags

\* What is left for docker compose: "compose" goes, a shorthand stays.
Unflagged(argv) == SelectSeq(argv, LAMBDA tok : tok \notin VakaFlags)

Rest(argv) ==
  LET at == CommandAt(argv)
      tail == SubSeq(argv, at, Len(argv)) IN
  IF at = 0 THEN Unflagged(argv) ELSE IF argv[at] = "compose" THEN Tail(tail) ELSE tail

-----------------------------------------------------------------------------
\* parseValueTakingToken: how many tokens, 1 or none, each takes as its value.
Takes(args) ==
  LET f[i \in 0 .. Len(args)] ==
        IF i = 0 THEN 0 ELSE IF f[i - 1] = 0 /\ args[i] \in TakesNext THEN 1 ELSE 0 IN f

\* A token starts a flag, or is the verb, if it is not the value of the one before.
Starts(args, i) == Takes(args)[i - 1] = 0

\* Where the scan ends: at the verb, at "--", or at a flag it refuses; or nowhere.
End(args) ==
  Least({i \in DOMAIN args : Starts(args, i) /\ (~ IsFlag(args[i]) \/ args[i] \in DockerFlags)})

Refused(args) == End(args) # 0 /\ args[End(args)] \in DockerFlags

\* The verb, if there is one.
Verb(args) ==
  IF End(args) = 0 THEN "" ELSE IF args[End(args)] \in {"--"} \union DockerFlags THEN ""
  ELSE args[End(args)]

\* Where the value of a file flag is.
IsFile(args, i) ==
  \/ args[i] = "--file=" /\ Starts(args, i)
  \/ i > 1 /\ args[i - 1] = "-f" /\ ~ Starts(args, i)

\* Bug: the flag is taken for the value.
LastFile_Flag(args) ==
  Greatest({i \in 1 .. End(args) - 1 : Starts(args, i) /\ args[i] \in {"-f", "--file="}})

LastFile(args) == Greatest({i \in 1 .. End(args) - 1 : IsFile(args, i)})

\* detectBuildRequested.
BuildRequested(args) ==
  /\ Verb(args) # ""
  /\ \E i \in End(args) + 1 .. Len(args) :
       args[i] = "--build" /\ \A j \in End(args) + 1 .. i : args[j] # "--"

\* injectFDOverride; without a file of the user's, the ones found come first.
Inject(args) ==
  LET at == LastFile(args)
      own == <<"-f", Override>>
      default == [k \in 1 .. 2 * Len(Defaults) |->
                    IF k % 2 = 1 THEN "-f" ELSE Defaults[k \div 2]] IN
  IF at = 0 THEN default \o own \o args
  ELSE SubSeq(args, 1, at) \o own \o SubSeq(args, at + 1, Len(args))

-----------------------------------------------------------------------------
\* The files docker compose has read after each token; a flag takes the one after it.
FilesRead(args) ==
  LET f[i \in 0 .. Len(args)] ==
        IF i = 0 THEN <<>>
        ELSE IF IsFile(args, i) THEN Append(f[i - 1], args[i]) ELSE f[i - 1] IN f

\* Those that it has read before the verb.
Files(args) == FilesRead(args)[End(args) - 1]

\* Where the flags of its verb end.
Flags(args) ==
  LET dash == Least({i \in End(args) + 1 .. Len(args) : args[i] = "--"}) IN
  {args[i] : i \in End(args) + 1 .. IF dash = 0 THEN Len(args) ELSE dash - 1}

\* The command lines of at most MaxTokens tokens that vaka takes, and runs a verb for.
Lines ==
  LET all == UNION {[1 .. n -> Tokens] : n \in 1 .. MaxTokens} IN
  {Rest(argv) : argv \in {a \in all : CommandAt(a) # 0 /\ ~ Misplaced(a)}}

Run == {args \in Lines : ~ Refused(args) /\ Verb(args) # ""}

\* What vaka made of a command line is what docker compose makes of it.
Alike(args) ==
  LET run == Inject(args) IN
  /\ Files(run) = (IF Files(args) = <<>> THEN Defaults ELSE Files(args)) \o <<Override>>
  /\ SubSeq(run, End(run), Len(run)) = SubSeq(args, End(args), Len(args))
  /\ \A i \in DOMAIN run : run[i] \in VakaFlags => \E j \in 1 .. i - 1 : run[j] = "--"
  /\ "--build" \in Flags(args) => BuildRequested(args)

Misread == {args \in Run : ~ Alike(args)}

=============================================================================
