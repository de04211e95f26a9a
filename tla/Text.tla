-------------------------------- MODULE Text --------------------------------
(***************************************************************************)
(* Functions on characters: the comments of a configuration file           *)
(* (src/src/config.c), addresses split into host and port (socket.c), the  *)
(* words of strings.c, and the colours and directories of utils.c.  Each   *)
(* is stated as what it makes of a string, a sequence of characters, and   *)
(* checked against what it is for.                                         *)
(*                                                                         *)
(* A definition that stands before another one and is used nowhere is that *)
(* other with a mistake in it.                                             *)
(***************************************************************************)
EXTENDS Integers, Sequences, SequencesExt, FiniteSetsExt

CONSTANTS
  Letters,
  MaxNest,      \* MAX_NEXT_COMMENT
  MaxLen        \* bound: of the texts put together

VARIABLES input \* what the functions are tried on, or {}

----------------------------------------------------------------------------
(* Comments: ";" to the end of the line, and ";-- ... --;", which nest and *)
(* may go on over lines.                                                   *)

Find(s, ch) == SelectInSeq(s, LAMBDA x : x = ch)
Is(s, i, ch) == i \in DOMAIN s /\ s[i] = ch
From(s, i) == SubSeq(s, i, Len(s))

\* One semicolon: st.text is what is left to be processed of what has been looked at,
\* st.rest what has not, and st.cut says that the text ends here.  At the deepest nesting
\* the loop does not go on.
Semicolon(st) ==
  LET k == Find(st.rest, ";")
      upTo(i) == IF st.cut THEN st.text ELSE st.text \o SubSeq(st.rest, 1, i)
  IN  IF k > 1 /\ Is(st.rest, k - 1, "\\")
      THEN [st EXCEPT !.text = upTo(k), !.rest = From(@, k + 1)]
      ELSE IF Is(st.rest, k + 1, "-") /\ Is(st.rest, k + 2, "-") /\ ~Is(st.rest, k + 3, "-")
      THEN IF st.nest = MaxNest THEN [st EXCEPT !.loops = TRUE]
           ELSE [st EXCEPT !.text = upTo(k - 1), !.rest = From(@, k + 3), !.cut = TRUE, !.nest = @ + 1]
      ELSE IF k > 2 /\ Is(st.rest, k - 1, "-") /\ Is(st.rest, k - 2, "-")
      THEN [st EXCEPT !.text = upTo(k), !.rest = From(@, k + 1), !.nest = @ - 1,
                      !.cut = IF st.nest = 1 THEN FALSE ELSE @]
      ELSE IF st.nest = 0 THEN [st EXCEPT !.text = upTo(k - 1), !.rest = <<>>, !.cut = TRUE]
      ELSE [st EXCEPT !.text = upTo(k), !.rest = From(@, k + 1)]

\* A line inside a comment that began on an earlier one is taken for text.
UncommentedEachLine(line, nest) ==
  LET end == FoldLeft(LAMBDA st, any : IF st.loops \/ Find(st.rest, ";") = 0 THEN st ELSE Semicolon(st),
                      [text |-> <<>>, rest |-> line, nest |-> nest, cut |-> FALSE, loops |-> FALSE],
                      line)
  IN  [text |-> IF end.cut THEN end.text ELSE end.text \o end.rest,
       nest |-> end.nest, loops |-> end.loops]
\* A line of a file, read at a depth of nesting.
Uncommented(line, nest) ==
  LET end == FoldLeft(LAMBDA st, any : IF st.loops \/ Find(st.rest, ";") = 0 THEN st ELSE Semicolon(st),
                      [text |-> <<>>, rest |-> line, nest |-> nest, cut |-> nest # 0, loops |-> FALSE],
                      line)
  IN  [text |-> IF end.cut THEN end.text ELSE end.text \o end.rest,
       nest |-> end.nest, loops |-> end.loops]

----------------------------------------------------------------------------
(* spd_sockaddr_stringto_hostport.  No port is {}.                         *)

SplitUnbracketed(s) ==
  LET colons == {i \in DOMAIN s : s[i] = ":"}
      one == CHOOSE i \in colons : TRUE
  IN  IF Cardinality(colons) = 1
      THEN [host |-> SubSeq(s, 1, one - 1), port |-> {From(s, one + 1)}]
      ELSE [host |-> s, port |-> {}]

Split(s) ==
  LET bracket == Find(s, "]")
      end == IF bracket = 0 THEN Len(s) + 1 ELSE bracket
  IN  IF ~Is(s, 1, "[") THEN SplitUnbracketed(s)
      ELSE [host |-> SubSeq(s, 2, end - 1),
            port |-> IF Is(s, end + 1, ":") THEN {From(s, end + 2)} ELSE {}]

\* What the flags make of it; {} if the function refuses.
HostPort(s, flags) ==
  LET r == Split(s) IN
  CASE flags = "ignore"  -> {[r EXCEPT !.port = {}]}
    [] flags = "require" -> {x \in {r} : x.port # {}}
    [] flags = "forbid"  -> {x \in {r} : x.port = {}}
    [] OTHER             -> {r}

----------------------------------------------------------------------------
(* strings.c.                                                              *)

Blank(ch) == ch = " "

\* spd_strip: the blanks at both ends.
Stripped(s) ==
  LET kept == {i \in DOMAIN s : ~Blank(s[i])}
  IN  IF kept = {} THEN <<>> ELSE SubSeq(s, Min(kept), Max(kept))

\* spd_copy_string into size > 0 bytes.
Copied(s, size) == SubSeq(s, 1, Min({Len(s), size - 1}))

\* spd_stringindex, from 0, and spd_strcontains: -1 if there is no sub that begins in the
\* first size characters.
StringIndex(s, size, sub) ==
  LET at == {i \in 0 .. Len(s) - Len(sub) : SubSeq(s, i + 1, i + Len(sub)) = sub}
  IN  IF at = {} \/ Min(at) >= size THEN -1 ELSE Min(at)
StrContains(s, size, sub) == StringIndex(s, size, sub) >= 0

\* spd_str_join into len > 0 bytes; the blank between two words is not tested for.
Joined(words, len) ==
  LET add(acc, word) ==
        IF Len(acc.s) >= len THEN acc
        ELSE LET s == IF acc.first THEN acc.s ELSE Append(acc.s, " ")
                 n == Min({Len(word), len - Len(s)})
             IN  [s |-> s \o SubSeq(word, 1, n), first |-> FALSE]
      all == FoldLeft(add, [s |-> <<>>, first |-> TRUE], words).s
  IN  IF Len(all) = len THEN Front(all) ELSE all

\* spd_strtok, called until there is no token.
Tokens(s, sep) ==
  LET starts == {i \in DOMAIN s : s[i] # sep /\ (i = 1 \/ s[i - 1] = sep)}
      token(i) == SubSeq(s, i, Max({j \in i .. Len(s) : \A k \in i .. j : s[k] # sep}))
  IN  [n \in 1 .. Cardinality(starts) |->
         token(CHOOSE i \in starts : Cardinality({j \in starts : j <= i}) = n)]

\* spd_unescape_semicolon: the backslash before each semicolon goes.
Unescaped(s) ==
  FoldLeft(LAMBDA acc, ch : IF ch = ";" /\ acc # <<>> /\ Last(acc) = "\\" THEN Append(Front(acc), ch)
                            ELSE Append(acc, ch), <<>>, s)

----------------------------------------------------------------------------
(* utils.c.                                                                *)

\* term_color: a colour is "none", "dim" or "bright".
Colored(s, fg, bg) ==
  LET bright == IF fg = "bright" THEN <<"1", ";">> ELSE <<>>
      front == IF fg = "none" THEN <<>> ELSE <<"3", "n", ";">>
  IN  IF fg = bg /\ fg # "dim" THEN s
      ELSE <<"esc", "[">> \o bright \o front \o <<"4", "n", "m">> \o s
           \o <<"esc", "[", "0", ";", "3", "n", ";", "4", "n", "m">>

\* term_filter_escapes: an escape that does not begin one of these becomes a blank.
Filtered(s) ==
  [i \in DOMAIN s |->
     IF s[i] = "esc" /\ ~(Is(s, i + 1, "[") /\ i + 2 \in DOMAIN s /\ s[i + 2] \in {"0", "1", "3"})
     THEN " " ELSE s[i]]

\* spd_mkdir, if each mkdir succeeds or finds the directory: what is before the first slash
\* is not looked at.
Made(path) ==
  LET slashes == {i \in DOMAIN path : path[i] = "/"}
      end(i) == Min({j \in slashes : j > i} \cup {Len(path) + 1}) - 1
  IN  {SubSeq(path, Min(slashes), end(i)) : i \in slashes}

----------------------------------------------------------------------------
Texts(chars) == UNION {[1 .. n -> chars] : n \in 0 .. MaxLen}

Try ==
  /\ input = {}
  /\ \E a \in Texts(Letters \cup {"-", "\\"}), b, c \in Texts(Letters \cup {" ", ":"}) :
       input' = {<<a, b, c>>}

Init == input = {}
Next == Try
Spec == Init /\ [][Next]_input

\* A comment that is put into a line, on one line or over two, alone or around another one,
\* leaves what stands around it as it was; one at the end of a line is cut off; a semicolon
\* behind a backslash is none.  ";----;" opens no comment, and as many as MaxNest may be
\* open (config.c:822-866).
CommentsGo(a, b, c) ==
  LET open == <<";", "-", "-">>
      close == <<"-", "-", ";">>
      plain == a = <<>> \/ Last(a) # "\\"
      inner == open \o c \o close
      first == Uncommented(a \o open \o c, 0)
      second == Uncommented(c \o close \o b, 1)
  IN  c # <<>> =>
      /\ plain => Uncommented(a \o inner \o b, 0) = [text |-> a \o b, nest |-> 0, loops |-> FALSE]
      /\ plain => Uncommented(a \o open \o c \o inner \o c \o close \o b, 0).text = a \o b
      /\ plain => first = [text |-> a, nest |-> 1, loops |-> FALSE]
      /\ second = [text |-> b, nest |-> 0, loops |-> FALSE]
      /\ ~plain => Uncommented(a \o <<";">> \o b, 0).text = a \o <<";">> \o b
      /\ (plain /\ ~(Len(a) > 1 /\ a[Len(a)] = "-" /\ a[Len(a) - 1] = "-")) =>
           Uncommented(a \o <<";">> \o c, 0).text = a
      /\ Uncommented(open \o c \o close, MaxNest - 1).nest = MaxNest - 1

\* The host and the port of an address are found where they were put, and an address that
\* has more colons than one and no brackets is a host (socket.c:289-352).
AddressesSplit(b, c) ==
  LET host == SelectSeq(b, LAMBDA x : x # ":")
      bracketed == <<"[">> \o b \o <<"]">>
  IN  /\ Find(c, ":") = 0 => HostPort(host \o <<":">> \o c, "require") = {[host |-> host, port |-> {c}]}
      /\ HostPort(bracketed \o <<":">> \o c, "any") = {[host |-> b, port |-> {c}]}
      /\ HostPort(bracketed, "forbid") = {[host |-> b, port |-> {}]}
      /\ HostPort(bracketed, "require") = {}
      /\ HostPort(b \o <<":">> \o c, "forbid") # {} <=> Find(b \o c, ":") # 0

\* Words that are joined and taken apart again are the words, as far as they fit, and a
\* copy or a join never takes more room than it was given; a word is found in what it was
\* joined to, and nothing is found behind the size that is looked at (strings.c:133-227).
WordsKept(b, c) ==
  LET words == <<Stripped(b), Stripped(c)>>
      whole == Stripped(b) \o <<" ">> \o Stripped(c)
  IN  /\ Joined(words, 2 * MaxLen + 2) = whole
      /\ \A len \in 2 .. 2 * MaxLen + 1 :
           len > 1 + Len(Stripped(b)) \/ Stripped(b) = <<>> =>
             Joined(words, len) = SubSeq(whole, 1, Min({Len(whole), len - 1}))
      /\ Tokens(whole, " ") = Tokens(Stripped(b), " ") \o Tokens(Stripped(c), " ")
      /\ FlattenSeq(Tokens(b, " ")) = SelectSeq(b, LAMBDA x : ~Blank(x))
      /\ \A size \in 1 .. MaxLen + 1 : Len(Copied(b, size)) < size
      /\ StrContains(whole, Len(whole) + 1, Stripped(c))
      /\ \A size \in 0 .. Len(whole) :
           StrContains(whole, size, <<" ">>) <=> size > StringIndex(whole, Len(whole), <<" ">>)

\* What is escaped semicolon by semicolon is got back; a line that the program has coloured
\* passes the filter of the log unless it has no foreground, and no other escape does; of
\* an absolute path every directory is made, and of a relative one what is below its first
\* piece, under the root (strings.c:118-131, utils.c:70-100, 153-216).
LinesShown(a, b, c) ==
  LET escaped == FlattenSeq([i \in DOMAIN a |-> IF a[i] = "-" THEN <<"\\", ";">> ELSE <<a[i]>>])
      colours == {"none", "dim", "bright"}
      d == SelectSeq(c, LAMBDA x : x # " ")
  IN  /\ Unescaped(escaped) = [i \in DOMAIN a |-> IF a[i] = "-" THEN ";" ELSE a[i]]
      /\ \A fg, bg \in colours :
           Filtered(Colored(b, fg, bg)) = Colored(b, fg, bg) <=> fg # "none" \/ bg = "none"
      /\ Filtered(b \o <<"esc">> \o c) = b \o <<" ">> \o c
      /\ Made(b \o <<"/">> \o d) = {<<"/">> \o d}
      /\ Made(<<"/">> \o b \o <<"/">> \o d) = {<<"/">> \o b, <<"/">> \o b \o <<"/">> \o d}

TextAgrees ==
  \A x \in input : CommentsGo(x[1], x[2], x[3]) /\ AddressesSplit(x[2], x[3]) /\ WordsKept(x[2], x[3])
                  /\ LinesShown(x[1], x[2], x[3])

=============================================================================
