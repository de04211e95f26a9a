------------------------------ MODULE CliMatch ------------------------------
(***************************************************************************)
(* How src/src/cli.c splits a command line, finds the entry for it, keeps  *)
(* the registry in order and completes a word: functions of the registry   *)
(* (a sequence of entries) and of the words typed.                         *)
(*                                                                         *)
(* A word of an entry is a record: its kind is "word" (one plain word),    *)
(* "one" ({a|b}), "opt" ([a|b]) or "any" (%), and "of" lists the words it  *)
(* offers.  Words typed are plain.                                         *)
(*                                                                         *)
(* A definition that stands before another one and is used nowhere is that *)
(* other with a mistake in it.                                             *)
(***************************************************************************)
EXTENDS Integers, Sequences, SequencesExt, FiniteSetsExt

CONSTANTS
  Words,      \* plain words, all of one length
  Rank,       \* [Words -> Nat]: their alphabetical order
  StartOf,    \* \subseteq Words \X Words: the beginnings of words that are typed
  Entries,
  Pattern,    \* [Entries -> Seq of the words of an entry]: cmda
  Offers,     \* [Entries -> Seq(Words)]: what the handler completes with
  NoEntry

ASSUME PatternsAssumption ==
  /\ Pattern \in [Entries -> Seq([kind : {"word", "one", "opt", "any"}, of : Seq(Words)])]
  /\ \A e \in Entries : \A i \in DOMAIN Pattern[e] :
       Pattern[e][i].kind = "word" => Len(Pattern[e][i].of) = 1
  /\ Rank \in [Words -> Nat]
  /\ NoEntry \notin Entries

Plain(w) == [kind |-> "word", of |-> <<w>>]
Pat(kind, of) == [kind |-> kind, of |-> of]
Line(ws) == [i \in DOMAIN ws |-> Plain(ws[i])]

----------------------------------------------------------------------------
(* Finding.                                                                *)

\* Register compares patterns with patterns: a pattern as the word typed is
\* matched by % only.
WordMatch(w, p) ==
  p.kind = "any" \/ (w.kind = "word" /\ w.of[1] \in Range(p.of))

\* The number of leading words that match.
Matched(cmds, e) ==
  Max({k \in 0 .. Min({Len(cmds), Len(Pattern[e])}) :
         \A i \in 1 .. k : WordMatch(cmds[i], Pattern[e][i])})

\* No word of the entry is left but perhaps an optional last one.
Exhausted(k, e) ==
  k >= Len(Pattern[e]) \/ (k + 1 = Len(Pattern[e]) /\ Pattern[e][k + 1].kind = "opt")

Exact(cmds, e) == LET k == Matched(cmds, e) IN k = Len(cmds) /\ Exhausted(k, e)

\* What is remembered while no exact match has been seen, by match_type.
Candidate(cmds, e, type) ==
  LET k == Matched(cmds, e) IN
  /\ k < Len(cmds)
  /\ IF Exhausted(k, e) THEN type = 0
     ELSE type = -1 /\ k + 1 = Len(cmds) /\ k + 1 = Len(Pattern[e])

\* Later candidates of the same length do not replace the first, so that it is the
\* entry's place that counts.
FindCli(list, cmds, type) ==
  LET exact == {i \in DOMAIN list : Exact(cmds, list[i])}
      cands == {i \in DOMAIN list : Candidate(cmds, list[i], type)}
      longest == {i \in cands : \A j \in cands :
                    Matched(cmds, list[j]) <= Matched(cmds, list[i])}
  IN  IF exact # {} THEN list[Min(exact)]
      ELSE IF cands # {} THEN list[Min(longest)] ELSE NoEntry

----------------------------------------------------------------------------
(* The order of the registry.                                              *)

\* spd_cli_set_full_cmd: cmdlen ends before the first reserved character.
Fixed(e) ==
  LET p == Pattern[e]
      n == Max({k \in 0 .. Len(p) : \A i \in 1 .. k : p[i].kind = "word"})
  IN  [i \in 1 .. n |-> Rank[p[i].of[1]]]

\* strncasecmp over the shorter of the two.
Before(a, b) ==
  \E i \in 1 .. Min({Len(Fixed(a)), Len(Fixed(b))}) :
    /\ Fixed(a)[i] < Fixed(b)[i]
    /\ \A j \in 1 .. i - 1 : Fixed(a)[j] = Fixed(b)[j]

InsertTail(list, e) == Append(list, e)
Insert(list, e) ==
  LET after == {i \in DOMAIN list : Before(e, list[i])}
  IN  IF after = {} THEN Append(list, e) ELSE InsertAt(list, Min(after), e)

----------------------------------------------------------------------------
(* Completion.                                                             *)

Begins(word, token) == word = "" \/ word = token \/ <<word, token>> \in StartOf

\* is_prefix: the tokens a word of an entry offers for what is typed.
Tokens(word, p) ==
  IF p.kind = "any" THEN <<>> ELSE SelectSeq(p.of, LAMBDA t : Begins(word, t))

MoreWords(e, k) == \E i \in k + 1 .. Len(Pattern[e]) : Pattern[e][i].kind # "opt"

\* One entry of the loop of __spd_cli_generator: acc.num matches so far, acc.ret the
\* one at position "state" once it is found.  The words before the last one are
\* matched; the last one, perhaps empty, is extended.  A handler's offers are not counted.
Generate(acc, e, argv, word, state) ==
  LET index == IF word # "" THEN Len(argv) - 1 ELSE Len(argv)
      k == Matched(SubSeq(argv, 1, index), e)
      last == IF k < Len(argv) THEN argv[k + 1].of[1] ELSE ""
      toks == IF k < Len(Pattern[e]) THEN Tokens(last, Pattern[e][k + 1]) ELSE <<>>
      pos == state - acc.num
  IN  IF acc.ret # "" \/ (k # index /\ MoreWords(e, k)) THEN acc
      ELSE IF pos < Len(toks) THEN [acc EXCEPT !.ret = toks[pos + 1]]
      ELSE IF k < Len(Pattern[e]) THEN [acc EXCEPT !.num = @ + Len(toks)]
      ELSE IF pos < Len(Offers[e]) THEN [acc EXCEPT !.ret = Offers[e][pos + 1]] ELSE acc

Generator(list, argv, word, state) ==
  FoldLeft(LAMBDA acc, e : Generate(acc, e, argv, word, state),
           [num |-> 0, ret |-> ""], list).ret

\* spd_cli_completion_matches asks for positions until there is none.
CompletionMatches(list, argv, word, limit) ==
  LET got == [s \in 1 .. limit |-> Generator(list, argv, word, s - 1)]
      end == CHOOSE n \in 0 .. limit :
               /\ \A s \in 1 .. n : got[s] # ""
               /\ n = limit \/ got[n + 1] = ""
  IN  SubSeq(got, 1, end)

\* spd_cli_generatornummatches counts a match that repeats the one before it once.
NumMatches(list, argv, word, limit) ==
  LET got == CompletionMatches(list, argv, word, limit)
  IN  Quantify(DOMAIN got, LAMBDA i : i = 1 \/ got[i] # got[i - 1])

----------------------------------------------------------------------------
(* parse_args.  A character is "blank", "quote", "escape" or a letter.       *)

NewArg(st) ==
  IF st.white THEN [st EXCEPT !.args = Append(@, <<>>), !.white = FALSE] ELSE st

\* A full argv ends the scan, even in the middle of its last argument.
ParseStep(st, ch, max) ==
  LET full == Len(st.args) >= max - 1
      put == NewArg(st)
  IN  IF full THEN st
      ELSE IF ch = "quote" /\ ~st.escaped THEN
        [(IF st.quoted THEN st ELSE NewArg(st)) EXCEPT !.quoted = ~st.quoted]
      ELSE IF ch = "blank" /\ ~st.quoted /\ ~st.escaped THEN [st EXCEPT !.white = TRUE]
      ELSE IF ch = "escape" /\ ~st.escaped THEN [st EXCEPT !.escaped = TRUE]
      ELSE [put EXCEPT !.args[Len(put.args)] = Append(@, ch), !.escaped = FALSE]

ParseArgs(chars, max) ==
  FoldLeft(LAMBDA st, ch : ParseStep(st, ch, max),
           [args |-> <<>>, white |-> TRUE, quoted |-> FALSE, escaped |-> FALSE],
           chars).args

=============================================================================
