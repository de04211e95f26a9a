------------------------------- MODULE Config -------------------------------
(***************************************************************************)
(* The lists of src/src/config.c as they are in memory: sections and       *)
(* variables are cells with a next pointer, and the configuration and each *)
(* section keep pointers to the first and the last of their lists.  A cell *)
(* that is freed is given out again, the lowest first.                     *)
(*                                                                         *)
(* A file is read line by line, a line being a header with its options or  *)
(* a variable: #include is parsed and does nothing (its call is commented  *)
(* out).                                                                   *)
(*                                                                         *)
(* A definition that stands before another one and is used nowhere is that *)
(* other with a mistake in it.                                             *)
(***************************************************************************)
EXTENDS Integers, Sequences, SequencesExt, FiniteSets

CONSTANTS
  SectionNames, VarNames, Values,
  MaxSections, MaxVariables,  \* bounds: cells
  MaxOps                      \* bound: calls and lines

VARIABLES
  conf,     \* struct spd_config, and the cells
  cat,      \* the section a file being read is in, Nil before its first; NotLoading
  ops

vars == <<conf, cat, ops>>

Nil == 0
NotLoading == -1
Secs == 1 .. MaxSections
Vars == 1 .. MaxVariables

NoSection == [live |-> FALSE, name |-> "", ignored |-> FALSE, root |-> Nil, last |-> Nil, next |-> Nil]
NoVariable == [live |-> FALSE, name |-> "", value |-> "", next |-> Nil]

New ==
  [root |-> Nil, last |-> Nil, current |-> Nil, browse |-> Nil,
   sec |-> [s \in Secs |-> NoSection], var |-> [v \in Vars |-> NoVariable]]

Init == conf = New /\ cat = NotLoading /\ ops = 0

\* The cells from one on, as far as the bound goes.
Walk(cells, first) ==
  LET at[i \in 0 .. Cardinality(DOMAIN cells)] ==
        IF i = 0 THEN first ELSE LET x == at[i - 1] IN IF x = Nil THEN Nil ELSE cells[x].next
  IN  IF first = Nil THEN <<>>
      ELSE SelectSeq([i \in 1 .. Cardinality(DOMAIN cells) + 1 |-> at[i - 1]], LAMBDA x : x # Nil)

VarsOf(c, s) == Walk(c.var, c.sec[s].root)
Listed(c) == Walk(c.sec, c.root)

FreeCell(cells) == CHOOSE x \in DOMAIN cells :
                     ~cells[x].live /\ \A y \in DOMAIN cells : ~cells[y].live => x <= y
FreeCells(cells) == Cardinality({x \in DOMAIN cells : ~cells[x].live})

----------------------------------------------------------------------------
(* Variables.                                                              *)

VariableNew(c, v, n, value) ==
  [c EXCEPT !.var[v] = [live |-> TRUE, name |-> n, value |-> value, next |-> Nil]]

\* What is appended may be a chain.
VariableAppend(c, s, v) ==
  LET linked == IF c.sec[s].last # Nil THEN [c EXCEPT !.var[c.sec[s].last].next = v]
                ELSE [c EXCEPT !.sec[s].root = v]
  IN  IF v = Nil THEN c
      ELSE [linked EXCEPT !.sec[s].last = Last(Walk(linked.var, v))]

VariablesDestroy(c, first) ==
  [c EXCEPT !.var = [v \in Vars |-> IF v \in Range(Walk(c.var, first)) THEN NoVariable ELSE @[v]]]

\* What "prev" or the section points to becomes "to".
Relink(c, s, prev, to) ==
  IF prev # Nil THEN [c EXCEPT !.var[prev].next = to] ELSE [c EXCEPT !.sec[s].root = to]

Prev(list, x) == LET i == CHOOSE j \in DOMAIN list : list[j] = x
                 IN  IF i = 1 THEN Nil ELSE list[i - 1]

UnlinkKeepsLast(c, s, v) ==
  LET prev == Prev(VarsOf(c, s), v)
      cut == Relink(c, s, prev, c.var[v].next)
  IN  [cut EXCEPT !.var[v] = NoVariable]
Unlink(c, s, v) ==
  LET prev == Prev(VarsOf(c, s), v)
      cut == Relink(c, s, prev, c.var[v].next)
  IN  [cut EXCEPT !.sec[s].last = IF @ = v THEN prev ELSE @, !.var[v] = NoVariable]

\* An empty match is "", which every value matches.
Hits(c, s, n, match) ==
  SelectSeq(VarsOf(c, s), LAMBDA v : c.var[v].name = n /\ match \in {"", c.var[v].value})

VariableDelete(c, s, n, match) ==
  FoldLeft(LAMBDA acc, v : Unlink(acc, s, v), c, Hits(c, s, n, match))

\* If none is replaced, the new one is linked at the end, and last is left as it is.
VariableUpdate(c, s, v, n, value, match) ==
  LET made == VariableNew(c, v, n, value)
      list == VarsOf(c, s)
      hits == Hits(c, s, n, match)
      old == hits[1]
      put == Relink([made EXCEPT !.var[v].next = c.var[old].next], s, Prev(list, old), v)
  IN  IF hits = <<>>
      THEN Relink(made, s, IF list = <<>> THEN Nil ELSE Last(list), v)
      ELSE [put EXCEPT !.sec[s].last = IF @ = old THEN v ELSE @, !.var[old] = NoVariable]

----------------------------------------------------------------------------
(* Sections.                                                               *)

\* section_get by name.
SectionGet(c, n, ignored) ==
  LET hits == SelectSeq(Listed(c), LAMBDA s : c.sec[s].name = n /\ (ignored \/ ~c.sec[s].ignored))
  IN  IF hits = <<>> THEN Nil ELSE hits[1]

SectionAppend(c, s) ==
  [(IF c.last # Nil THEN [c EXCEPT !.sec[c.last].next = s] ELSE [c EXCEPT !.root = s])
     EXCEPT !.last = s, !.current = s]

SectionDestroy(c, s) == [VariablesDestroy(c, c.sec[s].root) EXCEPT !.sec[s] = NoSection]

\* current and last_browse are left as they are.
SectionDeleteKeepsLast(c, s) ==
  LET prev == Prev(Listed(c), s)
      cut == IF prev # Nil THEN [c EXCEPT !.sec[prev].next = c.sec[s].next]
             ELSE [c EXCEPT !.root = c.sec[s].next]
  IN  SectionDestroy(cut, s)
SectionDelete(c, s) ==
  LET prev == Prev(Listed(c), s)
      cut == IF prev # Nil THEN [c EXCEPT !.sec[prev].next = c.sec[s].next]
             ELSE [c EXCEPT !.root = c.sec[s].next]
  IN  SectionDestroy([cut EXCEPT !.last = IF @ = s THEN prev ELSE @], s)

\* Each variable of the base is cloned and appended.
Inherit(c, s, base) ==
  FoldLeft(LAMBDA acc, v :
             LET new == FreeCell(acc.var)
             IN  VariableAppend(VariableNew(acc, new, acc.var[v].name, acc.var[v].value), s, new),
           c, VarsOf(c, base))

MoveVariables(c, from, to) ==
  VariableAppend([c EXCEPT !.sec[from].root = Nil], to, c.sec[from].root)

\* One option of a header; h is the configuration, the section *cat, newcat and whether
\* nothing has failed.
Option(h, o, n) ==
  IF ~h.ok THEN h
  ELSE IF o = "!" THEN [h EXCEPT !.c.sec[h.cat].ignored = TRUE]
  ELSE IF o = "+" THEN
    LET have == SectionGet(h.c, n, TRUE)
        moved == IF h.new # Nil THEN SectionDestroy(MoveVariables(h.c, h.new, have), h.new) ELSE h.c
    IN  IF have = Nil THEN [h EXCEPT !.ok = FALSE]
        ELSE [h EXCEPT !.c = moved, !.cat = have, !.new = Nil]
  ELSE LET base == SectionGet(h.c, o, TRUE)
       IN  IF base = Nil THEN [h EXCEPT !.ok = FALSE]
           ELSE [h EXCEPT !.c = Inherit(h.c, h.cat, base)]

Header(c, n, options) ==
  LET s == FreeCell(c.sec)
      made == [c EXCEPT !.sec[s] = [NoSection EXCEPT !.live = TRUE, !.name = n]]
      h == FoldLeft(LAMBDA acc, o : Option(acc, o, n),
                    [c |-> made, cat |-> s, new |-> s, ok |-> TRUE], options)
  IN  IF h.ok /\ h.new # Nil THEN [h EXCEPT !.c = SectionAppend(h.c, h.cat)] ELSE h

\* spd_section_browse; prev is the address of the name it has returned before.
Browse(c, prev) ==
  LET skip(from) == LET rest == SelectSeq(Walk(c.sec, from), LAMBDA s : ~c.sec[s].ignored)
                    IN  IF rest = <<>> THEN Nil ELSE rest[1]
      after(p) == LET i == CHOOSE j \in DOMAIN Listed(c) : Listed(c)[j] = p
                      same == SelectSeq(Listed(c), LAMBDA s : c.sec[s].name = c.sec[p].name)
                  IN  IF i < Len(Listed(c)) THEN Listed(c)[i + 1] ELSE c.sec[same[1]].next
      sec == IF prev = Nil THEN c.root
             ELSE IF c.browse = prev THEN c.sec[prev].next ELSE after(prev)
  IN  [c EXCEPT !.browse = skip(sec)]

\* process_text_line.  A line is a header with its options or a variable; r is the
\* configuration, the section the line is in and whether nothing has failed.  The bound on
\* cells is the caller's matter.
TextLine(r, line) ==
  LET v == FreeCell(r.c.var) IN
  IF ~r.ok THEN r
  ELSE IF line.kind = "header" THEN
    LET h == Header(r.c, line.name, line.options) IN [c |-> h.c, cat |-> h.cat, ok |-> h.ok]
  ELSE IF r.cat = Nil THEN [r EXCEPT !.ok = FALSE]
  ELSE [r EXCEPT !.c = VariableAppend(VariableNew(r.c, v, line.name, line.value), r.cat, v)]

HeaderLine(n, options) == [kind |-> "header", name |-> n, options |-> options]
VariableLine(n, x) == [kind |-> "variable", name |-> n, value |-> x]

\* A new configuration from a file.
Load(lines) == FoldLeft(TextLine, [c |-> New, cat |-> Nil, ok |-> TRUE], lines)

SavedSectionPlain(c, s) ==
  LET list == VarsOf(c, s)
  IN  <<HeaderLine(c.sec[s].name, <<>>)>>
      \o [i \in DOMAIN list |-> VariableLine(c.var[list[i]].name, c.var[list[i]].value)]
\* What config_text_file_save writes of a section.  A template's name is lost, since no
\* instance is ever recorded; what was inherited is written out.
SavedSection(c, s) ==
  LET list == VarsOf(c, s)
  IN  <<HeaderLine(c.sec[s].name, IF c.sec[s].ignored THEN <<"!">> ELSE <<>>)>>
      \o [i \in DOMAIN list |-> VariableLine(c.var[list[i]].name, c.var[list[i]].value)]

Saved(c) == FoldLeft(LAMBDA lines, s : lines \o SavedSection(c, s), <<>>, Listed(c))

\* spd_variable_retrive: {} if there is no variable of the name.  In a named section it is the
\* variable's name that is returned, and its value if no section is given (AnySection).
AnySection == ""
Named(c, list, n) == SelectSeq(list, LAMBDA v : c.var[v].name = n)
Retrieve(c, section, n) ==
  LET s == SectionGet(c, section, FALSE)
      here == IF s = Nil THEN <<>> ELSE Named(c, VarsOf(c, s), n)
      anywhere == FlattenSeq([i \in DOMAIN Listed(c) |-> Named(c, VarsOf(c, Listed(c)[i]), n)])
      first == {v \in Range(anywhere) : v = Head(anywhere)}
  IN  IF section = AnySection THEN {c.var[v].value : v \in first}
      ELSE {c.var[v].name : v \in Range(here)}

ConfigOption(c, section, n) ==
  IF Retrieve(c, section, n) # {} THEN Retrieve(c, section, n) ELSE Retrieve(c, "general", n)

----------------------------------------------------------------------------
(* Calls of the program, while no file is read.                            *)

\* Memory for what the call needs is there.
Do(c) == /\ ops < MaxOps /\ ops' = ops + 1
         /\ conf' = c

Calling == cat = NotLoading /\ UNCHANGED cat

AppendVariable ==
  /\ Calling /\ FreeCells(conf.var) > 0
  /\ \E s \in Range(Listed(conf)), n \in VarNames, x \in Values :
       LET v == FreeCell(conf.var) IN Do(VariableAppend(VariableNew(conf, v, n, x), s, v))

UpdateVariable ==
  /\ Calling /\ FreeCells(conf.var) > 0
  /\ \E s \in Range(Listed(conf)), n \in VarNames, x \in Values, match \in Values \cup {""} :
       Do(VariableUpdate(conf, s, FreeCell(conf.var), n, x, match))

\* The name is first taken for the address of a variable's name.
DeleteOne ==
  /\ Calling
  /\ \E s \in Range(Listed(conf)) : \E v \in Range(VarsOf(conf, s)) : Do(Unlink(conf, s, v))

DeleteNamed ==
  /\ Calling
  /\ \E s \in Range(Listed(conf)), n \in VarNames, match \in Values \cup {""} :
       Do(VariableDelete(conf, s, n, match))

\* The function returns nothing, so that the chain is lost; its cells count as free.
DetachVariables ==
  /\ Calling
  /\ \E s \in Range(Listed(conf)) :
       Do([VariablesDestroy(conf, conf.sec[s].root) EXCEPT !.sec[s].root = Nil, !.sec[s].last = Nil])

\* By the address of its name, or the first of a name.
DeleteSection ==
  /\ Calling
  /\ \E s \in Range(Listed(conf)) : Do(SectionDelete(conf, s))

RenameSection ==
  /\ Calling
  /\ \E s \in Range(Listed(conf)), n \in SectionNames : Do([conf EXCEPT !.sec[s].name = n])

SetCurrent ==
  /\ Calling
  /\ \E s \in Range(Listed(conf)) : Do([conf EXCEPT !.current = s])

BrowseSections ==
  /\ Calling
  /\ \E prev \in Range(Listed(conf)) \cup {Nil} : Do(Browse(conf, prev))

----------------------------------------------------------------------------
(* config_text_file_load.                                                  *)

\* A file may be read into a configuration that is in use.  Its current section must not
\* have been deleted: the load would write to freed memory.
StartLoad ==
  /\ cat = NotLoading
  /\ conf.current # Nil => conf.current \in Range(Listed(conf))
  /\ cat' = conf.current
  /\ Do(conf)

EndLoad == cat # NotLoading /\ cat' = NotLoading /\ UNCHANGED <<conf, ops>>

\* The configuration is destroyed; what the failed header had made is lost.
Fail == Do(New) /\ cat' = NotLoading

Read(line) ==
  /\ cat # NotLoading
  /\ LET r == TextLine([c |-> conf, cat |-> cat, ok |-> TRUE], line)
     IN  IF r.ok THEN Do(r.c) /\ cat' = r.cat ELSE Fail

\* "+" with the section itself as the base would clone for ever.
ReadHeader(n, options) ==
  /\ FreeCells(conf.sec) > 0
  /\ ~("+" \in Range(options) /\ n \in Range(options))
  /\ FreeCells(conf.var) >= Cardinality({v \in Vars : conf.var[v].live})
  /\ Read(HeaderLine(n, options))

ReadVariable(n, x) == FreeCells(conf.var) > 0 /\ Read(VariableLine(n, x))

Options == {<<>>, <<"!">>} \cup {<<b>> : b \in SectionNames} \cup
           {<<b, "+">> : b \in SectionNames} \cup {<<"+", b>> : b \in SectionNames} \cup
           {<<"!", b>> : b \in SectionNames} \cup {<<"+", "!">>}

Next ==
  \/ AppendVariable \/ UpdateVariable \/ DeleteOne \/ DeleteNamed \/ DetachVariables
  \/ DeleteSection \/ RenameSection \/ SetCurrent \/ BrowseSections
  \/ StartLoad \/ EndLoad
  \/ \E n \in SectionNames, o \in Options : ReadHeader(n, o)
  \/ \E n \in VarNames, x \in Values : ReadVariable(n, x)

Spec == Init /\ [][Next]_vars

----------------------------------------------------------------------------
(* Properties.                                                             *)

Content(c, s) ==
  LET list == VarsOf(c, s)
  IN  [name |-> c.sec[s].name, ignored |-> c.sec[s].ignored,
       vars |-> [i \in DOMAIN list |-> [name |-> c.var[list[i]].name, value |-> c.var[list[i]].value]],
       loose |-> IF c.sec[s].last = Nil THEN Len(list)
                 ELSE Len(list) - SelectInSeq(list, LAMBDA v : v = c.sec[s].last)]

\* The pointers implement the sequences of sections and variables: no call, in whatever
\* order, loses, repeats or mixes up sections or variables, but for what an update has
\* added and an append cuts off (config.c:397-528).
Contents(c) == LET list == Listed(c) IN [i \in DOMAIN list |-> Content(c, list[i])]
Promised == INSTANCE Sections WITH sections <- Contents(conf)
LastPointers ==
  /\ conf.last = IF conf.root = Nil THEN Nil ELSE Last(Listed(conf))
  /\ \A s \in Range(Listed(conf)) : conf.sec[s].last \in Range(VarsOf(conf, s)) \cup {Nil}
SectionsKept == Promised!Spec /\ LastPointers /\ [][LastPointers']_<<conf, cat, ops>>

\* The loop of calls of spd_section_browse, which starts in whatever state another one has
\* left last_browse.
BrowseAll(c) ==
  LET at[i \in 0 .. MaxSections + 1] ==
        IF i = 0 THEN Browse(c, Nil)
        ELSE LET d == at[i - 1] IN IF d.browse = Nil THEN d ELSE Browse(d, d.browse)
  IN  SelectSeq([i \in 1 .. MaxSections + 2 |-> at[i - 1].browse], LAMBDA s : s # Nil)

\* A program that browses sees each section that is no template once and in order, and a
\* configuration that is saved and loaded again has the same sections, templates and
\* variables, and gives the same answers about options (config.c:180-211, 330-360, 946-1025).
SeenAndSaved ==
  LET r == Load(Saved(conf))
  IN  /\ BrowseAll(conf) = SelectSeq(Listed(conf), LAMBDA s : ~conf.sec[s].ignored)
      /\ r.ok
      /\ Contents(r.c) = LET now == Contents(conf)
                         IN  [i \in DOMAIN now |-> [now[i] EXCEPT !.loose = 0]]
      /\ \A n \in VarNames, section \in SectionNames \cup {AnySection} :
           ConfigOption(r.c, section, n) = ConfigOption(conf, section, n)

=============================================================================
