------------------------------ MODULE Sections ------------------------------
(***************************************************************************)
(* What the sections of a configuration promise: a sequence of sections,   *)
(* each with a sequence of variables.  The one oddity a caller can see is  *)
(* in the record: "loose" variables at the end of a section, which an      *)
(* update has added, go when the next variable is appended (config.c:478). *)
(*                                                                         *)
(* Each operation is a relation between the sequence before it, s, and the *)
(* one after it, t.                                                        *)
(***************************************************************************)
EXTENDS Integers, Sequences

CONSTANTS SectionNames, VarNames, Values

VARIABLES sections

Variables == [name : VarNames, value : Values]

\* The values a call is about: one, or any.
Matched == {{x} : x \in Values} \cup {Values}

AppendTo(sec, vs) ==
  IF vs = <<>> THEN sec
  ELSE [sec EXCEPT !.vars = SubSeq(@, 1, Len(@) - sec.loose) \o vs, !.loose = 0]

AppendVariable(s, t) ==
  \E i \in DOMAIN s, v \in Variables : t = [s EXCEPT ![i] = AppendTo(@, <<v>>)]

\* The first of that name, and of that value if one is asked for, is replaced in its place.
Update(s, t) ==
  \E i \in DOMAIN s, v \in Variables, match \in Matched :
    LET hits == {k \in DOMAIN s[i].vars : s[i].vars[k].name = v.name /\ s[i].vars[k].value \in match}
    IN  t = [s EXCEPT ![i] =
          IF hits # {} THEN [@ EXCEPT !.vars[CHOOSE k \in hits : \A m \in hits : k <= m] = v]
          ELSE [@ EXCEPT !.vars = Append(@, v), !.loose = @ + 1]]

\* One variable, or all that have a name.
Delete(s, t) ==
  \E i \in DOMAIN s :
    LET vs == s[i].vars
        named == {{k \in DOMAIN vs : vs[k].name = n /\ vs[k].value \in match} :
                    n \in VarNames, match \in Matched}
    IN  \E gone \in named \cup {{k} : k \in DOMAIN vs} :
          LET kept == SelectSeq([k \in DOMAIN vs |-> k], LAMBDA k : k \notin gone)
          IN  t = [s EXCEPT ![i].vars = [k \in DOMAIN kept |-> vs[kept[k]]],
                            ![i].loose = Len(SelectSeq(kept, LAMBDA k : k > Len(vs) - @))]

Detach(s, t) == \E i \in DOMAIN s : t = [s EXCEPT ![i].vars = <<>>, ![i].loose = 0]

\* A new section may inherit from one that exists.
Bases(s) == {<<>>} \cup {s[b].vars : b \in DOMAIN s}

NewSection(s, t) ==
  \E n \in SectionNames, ignored \in BOOLEAN, base \in Bases(s) :
    t = Append(s, [name |-> n, ignored |-> ignored, vars |-> base, loose |-> 0])

\* A header may add to a section what another has, or make it a template.
Extend(s, t) ==
  \E i \in DOMAIN s, template \in BOOLEAN, base \in Bases(s) :
    t = [s EXCEPT ![i] = [AppendTo(@, base) EXCEPT !.ignored = @ \/ template]]

DeleteSection(s, t) == \E i \in DOMAIN s : t = SubSeq(s, 1, i - 1) \o SubSeq(s, i + 1, Len(s))

Rename(s, t) == \E i \in DOMAIN s, n \in SectionNames : t = [s EXCEPT ![i].name = n]

\* A load that fails.
Clear(t) == t = <<>>

Step(s, t) ==
  \/ AppendVariable(s, t) \/ Update(s, t) \/ Delete(s, t) \/ Detach(s, t)
  \/ NewSection(s, t) \/ Extend(s, t) \/ DeleteSection(s, t) \/ Rename(s, t) \/ Clear(t)

Init == sections \in Seq([name : SectionNames, ignored : BOOLEAN, vars : Seq(Variables), loose : {0}])

Next == \E s \in {sections}, t \in {sections'} : Step(s, t)

Spec == Init /\ [][Next]_sections

=============================================================================
