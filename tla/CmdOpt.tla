------------------------------- MODULE CmdOpt ------------------------------
(***************************************************************************)
(* tools/cmdopt.cc: the command lines of the tools.  cmdopt_get returns    *)
(* the options of a command line one after the other and moves the other   *)
(* arguments to its end, so that a tool finds them behind optind when      *)
(* there are no more options.  Each action is a pass through the loop of   *)
(* cmdopt_main; a tool calls cmdopt_get until the options are at an end or *)
(* one of them is wrong.                                                   *)
(*                                                                         *)
(* An argument is a sequence of characters, and argv has the positions of  *)
(* its arguments in the command line as it was given, from 1: position 0   *)
(* is the tool's name.  nextchar counts from 0 in the current argument.    *)
(* Warnings, and options that write a variable (no tool has one), are left *)
(* out.                                                                    *)
(***************************************************************************)
EXTENDS Integers, SequencesExt

CONSTANTS
  CommandLines,  \* sequences of arguments
  ShortOptions,  \* optstring: [character -> "none", "required" or "optional"]
  LongOptions    \* longopts: a sequence of [name, hasArg, val]

ASSUME CommandLinesAssumption == CommandLines \subseteq Seq(Seq(STRING))

VARIABLES
  line,     \* the command line as given
  argv, optind, optnum, nextchar,
  results,  \* what cmdopt_get has returned: the value, optarg and optlong
  status    \* "parsing", "end" (-1 was returned) or "error" (the tool gives up)

optVars == <<line, argv, optind, optnum, nextchar, results, status>>

NoChar == -1
NoArg  == <<"nullptr">>
NoWord == 0

Word == line[argv[optind]]
From(word, n) == SubSeq(word, n + 1, Len(word))

\* 0 is an argument that is no option; "-" alone is one, and "--" is the option
\* character "-".
Check(word) ==
  IF word = <<>> \/ word[1] # "-" \/ Len(word) = 1 THEN 0
  ELSE IF word[2] = "-" /\ Len(word) > 2 THEN 2 ELSE 1

InitOpt ==
  /\ line \in CommandLines
  /\ argv = [i \in 1 .. Len(line) |-> i]
  /\ optind = 1 /\ optnum = Len(line) + 1
  /\ nextchar = NoChar
  /\ results = <<>> /\ status = "parsing"

---------------------------------------------------------------------------
\* The arguments from a position on: the first of them goes to the end.
Rotated(v, i) == SubSeq(v, 1, i - 1) \o SubSeq(v, i + 1, Len(v)) \o <<v[i]>>

\* As many as are before optnum: they end up behind all that were moved.
RotatedRest(v, i, end) ==
  SubSeq(v, 1, i - 1) \o SubSeq(v, end, Len(v)) \o SubSeq(v, i, end - 1)

\* Mutant: the moved argument still counts as one before optnum.
ShiftKeepsNum ==
  /\ status = "parsing" /\ optind < optnum /\ nextchar = NoChar /\ Check(Word) = 0
  /\ argv' = Rotated(argv, optind)
  /\ UNCHANGED <<line, optind, optnum, nextchar, results, status>>

Shift ==
  /\ status = "parsing" /\ optind < optnum /\ nextchar = NoChar /\ Check(Word) = 0
  /\ argv' = Rotated(argv, optind) /\ optnum' = optnum - 1
  /\ UNCHANGED <<line, optind, nextchar, results, status>>

BeginOption ==
  /\ status = "parsing" /\ optind < optnum /\ nextchar = NoChar /\ Check(Word) = 1
  /\ nextchar' = 1
  /\ UNCHANGED <<line, argv, optind, optnum, results, status>>

EndOfWord ==
  /\ status = "parsing" /\ optind < optnum /\ nextchar = Len(Word)
  /\ optind' = optind + 1 /\ nextchar' = NoChar
  /\ UNCHANGED <<line, argv, optnum, results, status>>

EndOfArguments ==
  /\ status = "parsing" /\ optind >= optnum
  /\ status' = "end"
  /\ UNCHANGED <<line, argv, optind, optnum, nextchar, results>>

---------------------------------------------------------------------------
\* A value is returned; the tools give up at ":" and "?".
Return(value, arg, word) ==
  /\ results' = Append(results, [value |-> value, optarg |-> arg, optlong |-> word])
  /\ status' = IF value \in {":", "?"} THEN "error" ELSE status

\* Mutant: an argument that was moved to the end is taken for the option's.
FollowingArgMoved ==
  IF optind + 1 <= Len(line) THEN [arg |-> line[argv[optind + 1]], optind |-> optind + 2]
  ELSE [arg |-> NoArg, optind |-> optind + 1]

\* An option's argument in the word after its own, and where that leaves optind.
FollowingArg ==
  IF optind + 1 < optnum THEN [arg |-> line[argv[optind + 1]], optind |-> optind + 2]
  ELSE [arg |-> NoArg, optind |-> optind + 1]

\* cmdopt_search: the rest of the word is the argument, if there is a rest.
ShortOption ==
  /\ status = "parsing" /\ optind < optnum
  /\ nextchar # NoChar /\ nextchar < Len(Word)
  /\ LET optopt == Word[nextchar + 1]
         rest   == From(Word, nextchar + 1)
         taken  == IF rest # <<>> THEN [arg |-> rest, optind |-> optind + 1] ELSE FollowingArg
     IN \/ /\ optopt \in DOMAIN ShortOptions /\ ShortOptions[optopt] = "none"
           /\ Return(optopt, NoArg, NoWord)
           /\ nextchar' = nextchar + 1
           /\ UNCHANGED <<argv, optind, optnum>>
        \/ /\ optopt \in DOMAIN ShortOptions /\ ShortOptions[optopt] # "none"
           /\ Return(IF taken.arg = NoArg /\ ShortOptions[optopt] = "required" THEN ":"
                     ELSE optopt, taken.arg, NoWord)
           /\ optind' = taken.optind
           /\ nextchar' = IF taken.arg = NoArg THEN 0 ELSE NoChar
           /\ UNCHANGED <<argv, optnum>>
        \/ /\ optopt \notin DOMAIN ShortOptions /\ optopt # "-"
           /\ Return("?", NoArg, NoWord)
           /\ nextchar' = nextchar + 1
           /\ UNCHANGED <<argv, optind, optnum>>
  /\ UNCHANGED line

\* The character "-": what follows are no options.
EndOfOptions ==
  /\ status = "parsing" /\ optind < optnum
  /\ nextchar # NoChar /\ nextchar < Len(Word)
  /\ Word[nextchar + 1] = "-" /\ "-" \notin DOMAIN ShortOptions
  /\ argv' = RotatedRest(argv, optind + 1, optnum)
  /\ optind' = optind + 1 /\ optnum' = optind + 1
  /\ nextchar' = NoChar
  /\ status' = "end"
  /\ UNCHANGED <<line, results>>

---------------------------------------------------------------------------
\* A long option's name as typed: without "--", up to "=".
NameEnd(word) ==
  LET ends == {n \in 2 .. Len(word) - 1 : word[n + 1] = "="}
  IN IF ends = {} THEN Len(word) ELSE Min(ends)
Typed(word) == SubSeq(word, 3, NameEnd(word))

\* cmdopt_match_len stops at the end of what was typed, never at the name's.
MatchLen(i, typed) == IF IsPrefix(typed, LongOptions[i].name) THEN - Len(typed) ELSE 0

\* cmdopt_match: the first perfect match, or the longest if it is the only one.
LongIndex(typed) ==
  LET indices == DOMAIN LongOptions
      perfect == {i \in indices : MatchLen(i, typed) < 0}
      longest == {i \in indices : /\ MatchLen(i, typed) > 0
                                  /\ \A j \in indices : MatchLen(j, typed) <= MatchLen(i, typed)}
  IN IF perfect # {} THEN Min(perfect)
     ELSE IF Cardinality(longest) = 1 THEN Min(longest) ELSE 0

\* cmdopt_search_long.
LongOption ==
  /\ status = "parsing" /\ optind < optnum /\ nextchar = NoChar /\ Check(Word) = 2
  /\ LET index == LongIndex(Typed(Word))
         end   == NameEnd(Word)
         taken == IF end < Len(Word)
                  THEN [arg |-> From(Word, end + 1), optind |-> optind + 1] ELSE FollowingArg
     IN \/ /\ index = 0
           /\ Return("?", NoArg, argv[optind])
           /\ optind' = optind + 1 /\ nextchar' = NoChar
        \/ /\ index # 0 /\ LongOptions[index].hasArg # 0
           /\ Return(IF taken.arg = NoArg THEN ":" ELSE LongOptions[index].val,
                     taken.arg, argv[optind])
           /\ optind' = taken.optind /\ nextchar' = NoChar
        \/ /\ index # 0 /\ LongOptions[index].hasArg = 0 /\ end < Len(Word)
           /\ Return("?", taken.arg, argv[optind])
           /\ optind' = taken.optind /\ nextchar' = NoChar
        \/ /\ index # 0 /\ LongOptions[index].hasArg = 0 /\ end = Len(Word)
           /\ Return(LongOptions[index].val, NoArg, argv[optind])
           /\ nextchar' = end
           /\ UNCHANGED optind
  /\ UNCHANGED <<line, argv, optnum>>

NextOpt ==
  \/ Shift \/ BeginOption \/ EndOfWord \/ EndOfArguments
  \/ ShortOption \/ EndOfOptions \/ LongOption

SpecOpt == InitOpt /\ [][NextOpt]_optVars

---------------------------------------------------------------------------
Increasing(s) == \A i, j \in DOMAIN s : i < j => s[i] < s[j]

\* The arguments that are no options are behind the others, and no rotation
\* changes the order in which either were given: a tool reads its file names in
\* the order of the command line, also those after "--" (cmdopt.cc:8-20, 82-88).
OperandsInOrder ==
  /\ Increasing(SubSeq(argv, 1, optnum - 1))
  /\ Increasing(SubSeq(argv, optnum, Len(argv)))
  /\ ToSet(argv) = DOMAIN line

\* What a reader of the command line expects from position i on: the returns of
\* cmdopt_get and the arguments that are left, found without moving anything.
Expected(words) ==
  LET n == Len(words)
      Result(v, a, w) == <<[value |-> v, optarg |-> a, optlong |-> w]>>
      Before(rs, e) == [returns |-> rs \o e.returns, left |-> e.left]
      Error(rs, v, a, w) == [returns |-> rs \o Result(v, a, w), left |-> <<>>]
      exp[i \in 1 .. n + 2] ==
        IF i > n THEN [returns |-> <<>>, left |-> <<>>]
        ELSE LET word  == words[i]
                 type  == Check(word)
                 opts  == {k \in 2 .. Len(word) :
                             word[k] \notin DOMAIN ShortOptions \/ ShortOptions[word[k]] # "none"}
                 k     == IF opts = {} THEN Len(word) + 1 ELSE Min(opts)
                 plain == [j \in 1 .. k - 2 |-> Result(word[j + 1], NoArg, NoWord)[1]]
                 index == LongIndex(Typed(word))
                 end   == NameEnd(word)
             IN CASE type = 0 -> [exp[i + 1] EXCEPT !.left = <<i>> \o @]
                  [] type = 1 /\ opts = {} -> Before(plain, exp[i + 1])
                  [] type = 1 /\ opts # {} /\ word[k] = "-" ->
                       [returns |-> plain, left |-> [j \in 1 .. n - i |-> i + j]]
                  [] type = 1 /\ opts # {} /\ word[k] # "-" ->
                       IF word[k] \notin DOMAIN ShortOptions THEN Error(plain, "?", NoArg, NoWord)
                       ELSE IF k < Len(word)
                       THEN Before(plain \o Result(word[k], From(word, k), NoWord), exp[i + 1])
                       ELSE IF i < n
                       THEN Before(plain \o Result(word[k], words[i + 1], NoWord), exp[i + 2])
                       ELSE IF ShortOptions[word[k]] = "required"
                       THEN Error(plain, ":", NoArg, NoWord)
                       ELSE Before(plain \o Result(word[k], NoArg, NoWord), exp[i + 1])
                  [] type = 2 ->
                       IF index = 0 THEN Error(<<>>, "?", NoArg, i)
                       ELSE LET opt == LongOptions[index]
                            IN CASE opt.hasArg # 0 /\ end < Len(word) ->
                                      Before(Result(opt.val, From(word, end + 1), i), exp[i + 1])
                                 [] opt.hasArg # 0 /\ end = Len(word) /\ i < n ->
                                      Before(Result(opt.val, words[i + 1], i), exp[i + 2])
                                 [] opt.hasArg # 0 /\ end = Len(word) /\ i = n ->
                                      Error(<<>>, ":", NoArg, i)
                                 [] opt.hasArg = 0 /\ end < Len(word) ->
                                      Error(<<>>, "?", From(word, end + 1), i)
                                 [] opt.hasArg = 0 /\ end = Len(word) ->
                                      Before(Result(opt.val, NoArg, i), exp[i + 1])
  IN exp[1]

\* Moving arguments while options are read changes nothing of what is read: the
\* options come back as they stand in the command line, each with the argument
\* that follows it there, and the arguments that are left are behind optind when
\* the options are at an end (cmdopt.cc:46-94, 150-238).
OptionsAsGiven ==
  LET e == Expected(line)
  IN /\ IsPrefix(results, e.returns)
     /\ status # "parsing" => results = e.returns
     /\ status = "end" => SubSeq(argv, optind, Len(argv)) = e.left

\* A match is perfect if the whole name was typed (cmdopt.cc:109), and a prefix
\* of several names has other candidates and chooses none (cmdopt.cc:138-140).
PrefixesAreUnambiguous ==
  \A i \in DOMAIN results :
    results[i].optlong # NoWord /\ results[i].value \notin {"?", ":"} =>
      LET typed == Typed(line[results[i].optlong])
      IN \/ \E o \in DOMAIN LongOptions : LongOptions[o].name = typed
         \/ Cardinality({o \in DOMAIN LongOptions : IsPrefix(typed, LongOptions[o].name)}) = 1

===========================================================================
