------------------------------- MODULE DynStr -------------------------------
(***************************************************************************)
(* The two growing strings: spd_dynamic_str (threadprivdata.c), which each *)
(* thread has one of for each purpose, and spd_str (str.c, str.h), for the *)
(* replies of the console and the reports of tests.  A text is printed     *)
(* into what there is; if it did not fit, the buffer is made larger, up to *)
(* a limit the caller may give, and the text printed again.  An spd_str    *)
(* also takes a part of another text, with its commas escaped or not, and  *)
(* nothing keeps that part within the buffer.                              *)
(*                                                                         *)
(* A text is a sequence of marks, one for each character; it ends at the   *)
(* first NUL, so that what is written behind one is not seen.  The helper  *)
(* of the first string ends without a return, which the build makes the    *)
(* length, and so neither "retry" nor "failed".                            *)
(*                                                                         *)
(* A definition that stands before another one and is used nowhere is that *)
(* other with a mistake in it.                                             *)
(***************************************************************************)
EXTENDS Integers, Sequences, SequencesExt

CONSTANTS
  InitLen,     \* the size a string begins with
  Lengths,     \* of the texts
  Limits,      \* max_len: 0 for none
  MaxCalls     \* bound

VARIABLES
  dyn,         \* spd_dynamic_str: its text, what len says and the memory it has
  str,         \* spd_str: its text, len, used, and what became of it: "ok", "loops"
               \* when the helper goes on for ever, "overrun" when memory behind the
               \* buffer was written
  before,      \* history: the last call, its limit, the text it was to make, and how
               \* many marks of that it found
  calls

vars == <<dyn, str, before, calls>>

\* spd_dynamic_str_create, and spd_dynamic_str_get for the string of a thread.
NewDyn(len) == [text |-> <<>>, len |-> len, memory |-> len]

\* spd_str_create.
NewStr(len) == [text |-> <<>>, len |-> len, used |-> 0, state |-> "ok"]

Init ==
  /\ dyn = NewDyn(InitLen)
  /\ str = NewStr(InitLen)
  /\ before = [of |-> "dyn", text |-> <<>>, from |-> 0, result |-> "ok", limit |-> 0]
  /\ calls = 0

Text(n) == [i \in 1 .. n |-> calls]

Cut(text, n) == SubSeq(text, 1, IF n < Len(text) THEN n ELSE Len(text))

\* A text to which others are put at an offset; behind its end they are not seen.
Joined(text, offset, new) ==
  IF offset > Len(text) THEN text ELSE Cut(text, offset) \o new

\* vsnprintf: what does not fit is cut, and nothing is written where nothing fits.
Printed(text, offset, new, len) ==
  IF offset >= len THEN text ELSE Cut(Joined(text, offset, new), len - 1)

Call(of, text, offset, n, limit) ==
  /\ calls < MaxCalls /\ calls' = calls + 1
  /\ before' = [of |-> of, text |-> Joined(text, offset, Text(n)), from |-> offset,
                result |-> "ok", limit |-> limit]

\* spd_thread_dynamic_str_build_helper, twice if the buffer had to grow.  If there is no
\* memory, len has been changed already.
BuildForgetsOffset(append, n, limit) ==
  LET offset == IF append THEN Len(dyn.text) ELSE 0
      need == n + 1
      len == IF limit # 0 /\ limit < need THEN limit ELSE need
      grows == need > dyn.len /\ (limit = 0 \/ dyn.len < limit)
  IN  /\ dyn' = [dyn EXCEPT !.text = Printed(@, offset, Text(n), IF grows THEN len ELSE dyn.len),
                            !.len = IF grows THEN len ELSE @, !.memory = IF grows THEN len ELSE @]
      /\ Call("dyn", dyn.text, offset, n, limit)
Build(append, n, limit) ==
  LET offset == IF append THEN Len(dyn.text) ELSE 0
      need == offset + n + 1
      len == IF limit # 0 /\ limit < need THEN limit ELSE need
      grows == need > dyn.len /\ (limit = 0 \/ dyn.len < limit)
  IN  /\ dyn' = [dyn EXCEPT !.text = Printed(@, offset, Text(n), IF grows THEN len ELSE dyn.len),
                            !.len = IF grows THEN len ELSE @, !.memory = IF grows THEN len ELSE @]
      /\ Call("dyn", dyn.text, offset, n, limit)

\* After a failure the string of the thread is written past its end: nobody calls again.
Usable == dyn.len = dyn.memory

BuildDyn ==
  /\ Usable
  /\ \E append \in BOOLEAN, n \in Lengths, limit \in Limits : Build(append, n, limit)
  /\ UNCHANGED str

BuildFails ==
  /\ Usable
  /\ \E append \in BOOLEAN, n \in Lengths :
       LET offset == IF append THEN Len(dyn.text) ELSE 0 IN
       /\ offset + n + 1 > dyn.len
       /\ dyn' = [dyn EXCEPT !.text = Printed(@, offset, Text(n), dyn.len), !.len = offset + n + 1]
  /\ calls < MaxCalls /\ calls' = calls + 1
  /\ before' = [before EXCEPT !.of = "dyn", !.result = "failed"]
  /\ UNCHANGED str

\* spd_str_make_space does nothing for a string that is not larger already, and says that
\* it is done.
MakesSpace(new) == str.len > new

\* The NUL that ends a text, or the text itself, is written where the buffer is no more.
Written(end, text, used) ==
  str' = [str EXCEPT !.text = text, !.used = used, !.state = IF end >= str.len THEN "overrun" ELSE @]

Offset(append) == IF append THEN str.used ELSE 0

\* A limit of -1 is the size the string has.  The helper that was told of new space tries
\* again, without end if there is none.  Where used is past the buffer, the room left for
\* vsnprintf is less than nothing, which is taken for a great deal.
Helper(append, n, limit) ==
  LET offset == Offset(append)
      max == IF limit < 0 THEN str.len ELSE limit
      need == offset + n + 1
      new == IF max = 0 THEN need + 16 + need \div 4 ELSE IF max < need THEN max ELSE need
      printed == Printed(str.text, offset, Text(n), str.len)
  IN  IF offset > str.len THEN str' = [str EXCEPT !.state = "overrun"]
      ELSE IF need > str.len /\ (max = 0 \/ str.len < max)
      THEN /\ ~MakesSpace(new)
           /\ str' = [str EXCEPT !.text = printed, !.state = "loops"]
      ELSE str' = [str EXCEPT !.text = printed,
                     !.used = IF n + offset > str.len THEN str.len - 1 ELSE n + offset]

\* spd_str_set and spd_str_append.
BuildStr ==
  /\ str.state = "ok"
  /\ \E append \in BOOLEAN, n \in Lengths, limit \in Limits \cup {-1} :
       /\ Helper(append, n, limit)
       /\ Call("str", str.text, Offset(append), n, limit)
  /\ UNCHANGED dyn

\* Where a part with room for max marks ends: escaping, there must be room for two.
Ends(max, escaped) == IF ~escaped THEN {max} ELSE IF max = 1 THEN {0} ELSE {max - 1, max}

\* __spd_str_helper2: a part of n marks, those that escape included, goes to the end of the
\* string or to its beginning, and used grows by it in both cases.  It stops where the limit
\* is, at w marks, of which the last may give way to the NUL; but from three before the end
\* of the buffer on, each mark finds the "new" space, and the limit is as good as forgotten.
Substring(append, n, limit, escaped) ==
  LET offset == Offset(append)
      max == IF limit < 1 THEN str.len ELSE limit
      stops(w) == n >= w /\ (w = 0 \/ offset + w < str.len - 3)
      takes(visible, w) ==
        Written(offset + visible, Joined(str.text, offset, Text(visible)), str.used + w)
  IN  \E w \in Ends(max, escaped) : IF stops(w) THEN takes(max - 1, w) ELSE takes(n, n)

\* spd_str_append_substr, spd_str_set_escapecommas and spd_str_append_escapecommas.
CopySubstring ==
  /\ str.state = "ok"
  /\ \E append, escaped \in BOOLEAN, n \in Lengths, limit \in Limits \cup {-1} :
       /\ append \/ escaped
       /\ Substring(append, n, limit, escaped)
       /\ Call("part", str.text, Offset(append), n, limit)
  /\ UNCHANGED dyn

\* spd_str_truncate: to a length, or by as much.
Shortened(used) == Written(used, Cut(str.text, used), used)
Truncate ==
  /\ str.state = "ok"
  /\ \E n \in Lengths : Shortened(n) \/ Shortened(IF n > str.used THEN 0 ELSE str.used - n)
  /\ Call("str", str'.text, Len(str'.text), 0, 0)
  /\ UNCHANGED dyn

\* spd_str_reset and spd_str_updata, the calls that a string may be left to when used is not
\* the length of its text.
Reset == str' = [str EXCEPT !.used = 0, !.text = <<>>]
Update == str' = [str EXCEPT !.used = Len(str.text)]

Mend ==
  /\ str.state = "ok"
  /\ Reset \/ Update
  /\ Call("str", str'.text, Len(str'.text), 0, 0)
  /\ UNCHANGED dyn

Next == BuildDyn \/ BuildFails \/ BuildStr \/ CopySubstring \/ Truncate \/ Mend
Spec == Init /\ [][Next]_vars

----------------------------------------------------------------------------
\* A call without a limit leaves the whole text, and one with a limit as much of it as the
\* limit or the larger size it has had allows; the text is always within the memory.
DynWhole ==
  before.of = "dyn" /\ before.result = "ok" =>
    /\ dyn.len = dyn.memory /\ Len(dyn.text) < dyn.memory
    /\ IsPrefix(dyn.text, before.text)
    /\ dyn.text # before.text => before.limit # 0 /\ Len(dyn.text) = dyn.memory - 1

\* A call on a string that is within its buffer leaves what it was to make, cut at the end of
\* the buffer or, a part, at its limit, and nothing less; what is put at the end of a string
\* whose used is past its text is not seen, and used is never before the end of the text, so
\* that nothing appended covers what there was.
StrWhole ==
  before.of # "dyn" /\ str.state = "ok" =>
    /\ IsPrefix(str.text, before.text)
    /\ Len(str.text) <= str.used /\ Len(str.text) < str.len
    /\ Len(str.text) < Len(before.text) =>
         \/ Len(str.text) = str.len - 1
         \/ before.of = "part" /\ Len(str.text) = before.from + before.limit - 1

\* As long as no call of an spd_str has tried for ever to extend it or has written past its
\* end, what is in a string is what was printed into it (threadprivdata.c:62-95,
\* str.c:29-124).
StringsKept == DynWhole /\ StrWhole

=============================================================================
