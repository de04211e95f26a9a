------------------------------ MODULE CliWords ------------------------------
(***************************************************************************)
(* The functions of CliMatch tried on registries, lines and words: what    *)
(* completion offers, and how a line is taken apart.                       *)
(*                                                                         *)
(* A definition that stands before another one and is used nowhere is that *)
(* other with a mistake in it.                                             *)
(***************************************************************************)
EXTENDS CliMatch

CONSTANTS
  Letters,      \* characters that mean nothing
  MaxTyped,     \* bound: words of a line
  MaxArgs,      \* SPD_MAX_ARGS
  MaxChars      \* bound: characters of an argument

VARIABLES typed \* what the functions are tried on, or {}

Chars == Letters \cup {"blank", "quote", "escape"}
Typed == Words \cup {s[1] : s \in StartOf}

UpTo(S, n) == UNION {[1 .. k -> S] : k \in 0 .. n}

\* The registry after the entries were registered in an order.
Registered(order) == FoldLeft(Insert, <<>>, order)

\* A line whose last word is extended, or, if word is "", the one that follows.
TryLine ==
  /\ typed = {}
  /\ \E S \in SUBSET Entries : \E order \in SetToSeqs(S), line \in UpTo(Typed, MaxTyped) :
       \E word \in {""} \cup {line[i] : i \in {Len(line)} \ {0}} :
         typed' = {[kind |-> "line", list |-> Registered(order), argv |-> Line(line), word |-> word]}

TryArguments ==
  /\ typed = {}
  /\ \E args \in UpTo(UpTo(Chars, MaxChars), MaxArgs) : typed' = {[kind |-> "args", args |-> args]}

Init == typed = {}
Next == TryLine \/ TryArguments
Spec == Init /\ [][Next]_typed

----------------------------------------------------------------------------
Asked(x, kind) == {y \in x : y.kind = kind}

\* The words of a line before the one that is completed.
Earlier(x) == IF x.word = "" THEN x.argv ELSE Front(x.argv)

\* What an entry has to offer: those of its next words that begin as typed, if the earlier
\* ones are its own.
Offered(x, e) ==
  LET k == Len(Earlier(x))
  IN  IF Matched(Earlier(x), e) = k /\ k < Len(Pattern[e])
      THEN {t \in Range(Pattern[e][k + 1].of) : Begins(x.word, t)} ELSE {}

\* Excepted: an entry with nothing left but what its handler offers, which is not counted,
\* so that the entries behind it lose places (cli.c:573); and one whose optional last word
\* is completed though it is not the last that was typed (cli.c:558).
Excepted(x, e) ==
  LET k == Matched(Earlier(x), e)
  IN  ~MoreWords(e, k) /\ IF k = Len(Pattern[e]) THEN Offers[e] # <<>> ELSE k < Len(Earlier(x))

\* Whatever is typed, and in whatever order the entries came, completion offers the next
\* words of the entries whose words have been typed so far, each of them and nothing else;
\* and the number of matches is that of different words, since equal ones stand together in
\* the order of the registry (cli.c:437-599).
CompletionAgrees ==
  \A x \in Asked(typed, "line") :
    LET got == CompletionMatches(x.list, x.argv, x.word, Cardinality(Entries) * 2 + 1)
        all == UNION {Offered(x, e) : e \in Range(x.list)}
        fixed == \A e \in Range(x.list) : \A i \in DOMAIN Pattern[e] : Pattern[e][i].kind = "word"
    IN  (\A e \in Range(x.list) : ~Excepted(x, e)) =>
          /\ Range(got) = all
          /\ fixed => NumMatches(x.list, x.argv, x.word, Len(got) + 1) = Cardinality(all)

Escaped(arg) == FlattenSeq([i \in DOMAIN arg |->
                  IF arg[i] \in {"quote", "escape"} THEN <<"escape", arg[i]>> ELSE <<arg[i]>>])
Quoted(arg) == <<"quote">> \o Escaped(arg) \o <<"quote">>

\* Arguments that are quoted are taken for what they are, whatever they hold and though
\* they are empty, and never more than there is room for; but the last one that has room is
\* cut off behind its first character (cli.c:393).
ArgumentsAgree ==
  \A x \in Asked(typed, "args") :
    LET line == FlattenSeq([i \in DOMAIN x.args |-> Quoted(x.args[i]) \o <<"blank">>])
        got == ParseArgs(line, MaxArgs)
        fit == Min({Len(x.args), MaxArgs - 2})
    IN  /\ Len(got) = Min({Len(x.args), MaxArgs - 1})
        /\ SubSeq(got, 1, fit) = SubSeq(x.args, 1, fit)

WordsAgree == CompletionAgrees /\ ArgumentsAgree

=============================================================================
