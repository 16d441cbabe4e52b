------------------------------ MODULE Options ------------------------------
(***************************************************************************)
(* The command line: getopt as the repository ports it to Windows          *)
(* (getopt-port.cpp), and ArgsAnalysis (main.cpp), which calls it until it *)
(* answers -1, takes the next argument for the source file, and starts     *)
(* over with the arguments behind it.                                      *)
(*                                                                         *)
(* An argument is the sequence of its characters.                          *)
(***************************************************************************)
EXTENDS Integers, SequencesExt

Flags  == {"h", "S", "T", "I", "A", "D", "c"}      \* "ho:STIADO:t:c"
Valued == {"o", "O", "t"}

VARIABLES
  argv,            \* what ArgsAnalysis passes to getopt; argv[1] is skipped
  optind,          \* index of the next argument, argv[1] being number 0
  place,           \* the rest of a group of options like -SI
  nonopt_start,    \* the block of operands that were passed over, or -1
  nonopt_end,
  permutes,        \* POSIXLY_CORRECT is set: operands are passed over
  config,          \* the option variables of main.cpp
  analysis         \* "running", "ok", "refused" (usage), "terminated"

optVars == << argv, optind, place, nonopt_start, nonopt_end, permutes, config, analysis >>

None == << >>

Unset ==
  [help |-> FALSE, symbol |-> FALSE, ast |-> FALSE, lineIR |-> FALSE, asmIR |-> FALSE, frontEnd |-> "bison",
   output |-> None, optLevel |-> << "0" >>, target |-> << "ARM32" >>, input |-> None]

Given(args) ==
  /\ argv = << << "minic" >> >> \o args
  /\ optind = 1 /\ place = << >> /\ nonopt_start = -1 /\ nonopt_end = -1
  /\ permutes \in BOOLEAN
  /\ config = Unset
  /\ analysis = "running"

-----------------------------------------------------------------------------
nargc == Len(argv)
Arg(i) == argv[i + 1]

IsOption(arg) == Len(arg) > 1 /\ Head(arg) = "-"

(* permute_args: exchange two neighbouring blocks of arguments.            *)
permute_args(args, start, end, opt_end) ==
  SubSeq(args, 1, start) \o SubSeq(args, end + 1, opt_end) \o SubSeq(args, start + 1, end)
    \o SubSeq(args, opt_end + 1, Len(args))

(* The switch of ArgsAnalysis.                                             *)
IsNumber(arg) == arg[1] \in {"0", "1", "2"}

Set(c, opt, arg) ==
  CASE opt = "h" -> [c EXCEPT !.help = TRUE]
    [] opt = "o" -> [c EXCEPT !.output = arg]
    [] opt = "S" -> [c EXCEPT !.symbol = TRUE]
    [] opt = "T" -> [c EXCEPT !.ast = TRUE]
    [] opt = "I" -> [c EXCEPT !.lineIR = TRUE]
    [] opt = "A" -> [c EXCEPT !.frontEnd = "antlr"]
    [] opt = "D" -> [c EXCEPT !.frontEnd = "rd"]
    [] opt = "O" -> [c EXCEPT !.optLevel = arg]
    [] opt = "t" -> [c EXCEPT !.target = arg]
    [] opt = "c" -> [c EXCEPT !.asmIR = TRUE]

-----------------------------------------------------------------------------
(* getopt *)

Scanning == analysis = "running"

(* Start on the next argument, a group of options.                         *)
LoadArgument ==
  /\ Scanning /\ place = << >>
  /\ optind < nargc /\ IsOption(Arg(optind)) /\ Arg(optind) # << "-", "-" >>
  /\ place' = Tail(Arg(optind))
  /\ nonopt_end' = IF nonopt_start # -1 /\ nonopt_end = -1 THEN optind ELSE nonopt_end
  /\ UNCHANGED << argv, optind, nonopt_start, permutes, config, analysis >>

(* Pass over an operand; the operands passed over form one block.          *)
SkipOperand ==
  /\ Scanning /\ place = << >>
  /\ optind < nargc /\ ~IsOption(Arg(optind)) /\ permutes
  /\ IF nonopt_start # -1 /\ nonopt_end # -1
     THEN /\ argv' = permute_args(argv, nonopt_start, nonopt_end, optind)
          /\ nonopt_start' = optind - (nonopt_end - nonopt_start)
          /\ nonopt_end' = -1
     ELSE /\ nonopt_start' = IF nonopt_start = -1 THEN optind ELSE nonopt_start
          /\ UNCHANGED << argv, nonopt_end >>
  /\ optind' = optind + 1
  /\ UNCHANGED << place, permutes, config, analysis >>

TakeFlag ==
  /\ Scanning /\ place # << >> /\ Head(place) \in Flags
  /\ place' = Tail(place)
  /\ optind' = IF Tail(place) = << >> THEN optind + 1 ELSE optind
  /\ config' = Set(config, Head(place), None)
  /\ UNCHANGED << argv, nonopt_start, nonopt_end, permutes, analysis >>

(* The value is the rest of the argument, or else the next argument.       *)
TakeValued ==
  LET adjacent == Tail(place) # << >>
      value    == IF adjacent THEN Tail(place) ELSE Arg(optind + 1)
  IN  /\ Scanning /\ place # << >> /\ Head(place) \in Valued
      /\ adjacent \/ optind + 1 < nargc
      /\ place' = << >>
      /\ optind' = IF adjacent THEN optind + 1 ELSE optind + 2
      /\ IF Head(place) = "O" /\ ~IsNumber(value)
         THEN analysis' = "terminated" /\ config' = config          \* std::stoi throws
         ELSE config' = Set(config, Head(place), value) /\ analysis' = analysis
      /\ UNCHANGED << argv, nonopt_start, nonopt_end, permutes >>

(* The value is missing, or the letter is no option.                       *)
BadOption ==
  /\ Scanning /\ place \notin {<< >>, << "-" >>}
  /\ \/ Head(place) \in Valued /\ Tail(place) = << >> /\ optind + 1 >= nargc
     \/ Head(place) \notin Flags \cup Valued
  /\ analysis' = "refused"
  /\ UNCHANGED << argv, optind, place, nonopt_start, nonopt_end, permutes, config >>

-----------------------------------------------------------------------------
(* ArgsAnalysis, after the last option                                     *)

Accepted(c) == c.input # None /\ c.symbol /\ ~(c.ast /\ c.lineIR)

DefaultOutput(c) ==
  IF c.output # None THEN c
  ELSE [c EXCEPT !.output = IF c.ast THEN << "png" >> ELSE IF c.lineIR THEN << "ir" >> ELSE << "s" >>]

Conclude(c) ==
  /\ analysis' = IF Accepted(c) THEN "ok" ELSE "refused"
  /\ config' = IF Accepted(c) THEN DefaultOutput(c) ELSE c

(* Wrong: options behind the source file are not read. *)
OperandsFollowOnce(rest) ==
  /\ place' = << >> /\ nonopt_start' = -1 /\ nonopt_end' = -1 /\ permutes' = permutes
  /\ Conclude(IF rest = << >> THEN config ELSE [config EXCEPT !.input = rest[1]])
  /\ UNCHANGED << argv, optind >>

(* getopt has answered -1: the arguments rest were not scanned.            *)
OperandsFollow(rest) ==
  /\ place' = << >> /\ nonopt_start' = -1 /\ nonopt_end' = -1 /\ permutes' = permutes
  /\ LET named == [config EXCEPT !.input = rest[1]]
     IN  CASE rest = << >>         -> Conclude(config) /\ UNCHANGED << argv, optind >>
           [] config.input # None /\ rest # << >> ->
                analysis' = "refused" /\ UNCHANGED << argv, optind, config >>
           [] config.input = None /\ Len(rest) = 1 -> Conclude(named) /\ UNCHANGED << argv, optind >>
           [] config.input = None /\ Len(rest) > 1 ->
                argv' = rest /\ optind' = 1 /\ config' = named /\ analysis' = analysis

(* The arguments from optind on, the block of operands put before them.    *)
Unscanned(next) ==
  LET back == IF nonopt_end # -1 THEN nonopt_end - nonopt_start ELSE 0
      args == IF nonopt_end # -1 THEN permute_args(argv, nonopt_start, nonopt_end, next) ELSE argv
  IN  SubSeq(args, next - back + 1, Len(args))

EndOfArguments ==
  /\ Scanning /\ place = << >> /\ optind >= nargc
  /\ OperandsFollow(IF nonopt_end = -1 /\ nonopt_start # -1 THEN SubSeq(argv, nonopt_start + 1, nargc)
                    ELSE Unscanned(optind))

OperandStops ==
  /\ Scanning /\ place = << >> /\ optind < nargc /\ ~IsOption(Arg(optind)) /\ ~permutes
  /\ OperandsFollow(SubSeq(argv, optind + 1, nargc))

(* "--" ends the options that this scan reads.                             *)
DoubleDash ==
  /\ Scanning /\ place = << >> /\ optind < nargc /\ Arg(optind) = << "-", "-" >>
  /\ OperandsFollow(IF nonopt_start # -1 /\ nonopt_end = -1
                    THEN SubSeq(permute_args(argv, nonopt_start, optind, optind + 1), nonopt_start + 2, nargc)
                    ELSE Unscanned(optind + 1))

(* A group that ends in "-" ends the scan where the group stands.          *)
TrailingDash ==
  /\ Scanning /\ place = << "-" >>
  /\ OperandsFollow(SubSeq(argv, optind + 1, nargc))

ArgsNext ==
  LoadArgument \/ SkipOperand \/ TakeFlag \/ TakeValued \/ BadOption
    \/ EndOfArguments \/ OperandStops \/ DoubleDash \/ TrailingDash

-----------------------------------------------------------------------------
(* What a command line says, read from left to right: a sequence of        *)
(* options with their values, and operands.                                *)
RECURSIVE Said(_)
Said(args) ==
  LET arg  == Head(args)
      rest == Tail(args)
      Word(opt, value) == << [opt |-> opt, value |-> value] >>
  IN  IF args = << >> THEN << >>
      ELSE IF ~IsOption(arg) THEN Word("operand", arg) \o Said(rest)
      ELSE IF arg[2] \in Flags
           THEN Word(arg[2], None) \o Said(IF Len(arg) = 2 THEN rest ELSE << << "-" >> \o SubSeq(arg, 3, Len(arg)) >> \o rest)
      ELSE IF arg[2] \in Valued /\ Len(arg) > 2 THEN Word(arg[2], SubSeq(arg, 3, Len(arg))) \o Said(rest)
      ELSE IF arg[2] \in Valued /\ rest # << >> THEN Word(arg[2], Head(rest)) \o Said(Tail(rest))
      ELSE Word("?", None)

(* What it asks for: every flag that occurs, the last value of the others, *)
(* and the front end of the last of -A and -D.                             *)
Asked(args) ==
  LET said == Said(args)
      Latest(opts) == Max({0} \cup {k \in DOMAIN said : said[k].opt \in opts})
      Has(opt) == Latest({opt}) > 0
      ValueOf(opt, default) == IF Has(opt) THEN said[Latest({opt})].value ELSE default
      chosen == Latest({"A", "D"})
  IN  [help |-> Has("h"), symbol |-> Has("S"), ast |-> Has("T"), lineIR |-> Has("I"), asmIR |-> Has("c"),
       frontEnd |-> IF chosen = 0 THEN "bison" ELSE IF said[chosen].opt = "A" THEN "antlr" ELSE "rd",
       output |-> ValueOf("o", None), optLevel |-> ValueOf("O", << "0" >>),
       target |-> ValueOf("t", << "ARM32" >>), input |-> ValueOf("operand", None)]

(* The command line names one file, knows all its options, and asks for    *)
(* one kind of output.                                                     *)
Proper(args) ==
  LET said == Said(args)
      With(opt) == {k \in DOMAIN said : said[k].opt = opt}
  IN  /\ With("?") = {}
      /\ \E k \in DOMAIN said : With("operand") = {k}
      /\ \A k \in With("O") : IsNumber(said[k].value)
      /\ Accepted(Asked(args))
=============================================================================
