------------------------- MODULE InflectionTables --------------------------
(***************************************************************************)
(* Inflection tables of Morceus: templates that have endings of their own  *)
(* and take over those of other templates, with a prefix before them and   *)
(* grammatical data that narrow theirs.  They are expanded round by round, *)
(* those first whose templates are expanded already.                       *)
(***************************************************************************)
EXTENDS Inflections, Folds, SequencesExt

CONSTANT Registries
\* Contents of the template directories: functions from names to records
\* [endings, templates], sequences of [ending, codes] and of [name, prefix, args].

VARIABLES
  registry,  \* the templates
  expanded,  \* the tables that are made
  left,      \* templateDeps: names of templates that are not expanded
  expansion  \* "waiting", "running", "failed"

tableVars == <<registry, expanded, left, expansion>>

-----------------------------------------------------------------------------
\* loadTemplate: a line with an ending must say something about it.
ReadLine(line) == ToInflectionData(EmptyContext, line.codes)
IsLoadable(template) ==
  /\ template.endings # <<>> \/ template.templates # <<>>
  /\ \A line \in ToSet(template.endings) :
       ReadLine(line) # Throws /\ ReadLine(line).data # Nothing

OwnEndings(template) ==
  [i \in DOMAIN template.endings |->
    [ending |-> template.endings[i].ending, context |-> ReadLine(template.endings[i])]]

\* expandSingleTable: endings that the data do not fit are left out.
ExpandSingleTable(prefix, context, table) ==
  SelectSeq([i \in DOMAIN table |->
              [ending |-> prefix \o table[i].ending,
               context |-> ExpandSingleEnding(context, table[i].context)]],
            LAMBDA e : e.context # Incompatible)

Args(t) == ToInflectionData(EmptyContext, t.args)

\* Mutant: the prefix of the first template is that of all.
ExpandTemplateWithOnePrefix(template, tables) ==
  OwnEndings(template) \o
  FlattenSeq([i \in DOMAIN template.templates |->
    ExpandSingleTable(template.templates[1].prefix, Args(template.templates[i]),
                      tables[template.templates[i].name])])

ExpandTemplate(template, tables) ==
  OwnEndings(template) \o
  FlattenSeq([i \in DOMAIN template.templates |->
    ExpandSingleTable(template.templates[i].prefix, Args(template.templates[i]),
                      tables[template.templates[i].name])])

\* The assertions of expandTemplate.
CanExpand(template, tables) ==
  /\ \A t \in ToSet(template.templates) : Args(t) # Throws
  /\ ExpandTemplate(template, tables) # <<>>

-----------------------------------------------------------------------------
TypeOK == expansion \in {"waiting", "running", "failed"}

Init == registry = <<>> /\ expanded = <<>> /\ left = {} /\ expansion = "waiting"

LoadTemplates ==
  /\ expansion = "waiting"
  /\ registry' \in Registries
  /\ left' = DOMAIN registry'
  /\ expansion' = IF \A name \in DOMAIN registry' : IsLoadable(registry'[name])
                  THEN "running" ELSE "failed"
  /\ UNCHANGED expanded

Dependencies(name) == {t.name : t \in ToSet(registry[name].templates)}

ExpandRound ==
  /\ expansion = "running" /\ left # {}
  /\ \E expandable \in {{name \in left : Dependencies(name) \subseteq DOMAIN expanded}} :
       IF expandable = {} \/ \E name \in expandable : ~ CanExpand(registry[name], expanded)
       THEN expansion' = "failed" /\ UNCHANGED <<expanded, left>>
       ELSE /\ expanded' = [name \in DOMAIN expanded \cup expandable |->
                 IF name \in expandable THEN ExpandTemplate(registry[name], expanded)
                 ELSE expanded[name]]
            /\ left' = left \ expandable
            /\ UNCHANGED expansion
  /\ UNCHANGED registry

Next == LoadTemplates \/ ExpandRound
Fairness == WF_tableVars(ExpandRound)
Spec == Init /\ [][Next]_tableVars /\ Fairness

-----------------------------------------------------------------------------
\* A way from a template through others to a template with an ending.
Ways(name) ==
  UNION {{way \in [1 .. n -> UNION {DOMAIN registry[x].templates : x \in DOMAIN registry}] :
            \E names \in [1 .. n + 1 -> DOMAIN registry] :
              /\ names[1] = name
              /\ \A i \in 1 .. n : /\ way[i] \in DOMAIN registry[names[i]].templates
                                   /\ registry[names[i]].templates[way[i]].name = names[i + 1]} :
           n \in 0 .. Cardinality(DOMAIN registry) - 1}

\* Where a way leads to, and the prefixes and data that it collects.
Follow(name, way) ==
  FoldLeft(LAMBDA at, i :
      LET t == registry[at.name].templates[i]
      IN [name |-> t.name, prefix |-> at.prefix \o t.prefix, args |-> <<Args(t)>> \o at.args],
    [name |-> name, prefix |-> <<>>, args |-> <<>>], way)

\* The endings at the end of a way, narrowed by the nearest template first.
EndingsAt(end) ==
  {e \in {[ending |-> end.prefix \o own.ending,
           context |-> FoldLeft(LAMBDA c, a : IF c = Incompatible THEN c ELSE ExpandSingleEnding(a, c),
                                own.context, end.args)] : own \in ToSet(OwnEndings(registry[end.name]))} :
     e.context # Incompatible}

\* A table has the endings that some way through the templates leads to, and
\* each of them.
TablesAreTheWays ==
  \A name \in DOMAIN expanded :
    ToSet(expanded[name]) = UNION {EndingsAt(Follow(name, way)) : way \in Ways(name)}

NeedsItself(name) ==
  \E n \in 1 .. Cardinality(DOMAIN registry) :
    \E names \in [1 .. n + 1 -> DOMAIN registry] :
      names[1] = name /\ names[n + 1] = name /\ \A i \in 1 .. n : names[i + 1] \in Dependencies(names[i])

\* Why an expansion may fail: a template is missing or needs itself, or lines
\* say nothing or contradict each other.
FailsForAReason ==
  \E name \in DOMAIN registry :
    \/ ~ IsLoadable(registry[name])
    \/ ~ (Dependencies(name) \subseteq DOMAIN registry) \/ NeedsItself(name)
    \/ \E t \in ToSet(registry[name].templates) : Args(t) = Throws
    \/ Dependencies(name) \subseteq DOMAIN expanded /\ ExpandTemplate(registry[name], expanded) = <<>>

\* The tables of Morceus are made of all the templates, each with the endings
\* that it should have, or not at all and for a reason.
TablesComplete ==
  /\ [](TablesAreTheWays /\ (expansion = "failed" => FailsForAReason))
  /\ expansion = "running" ~> (left = {} \/ expansion = "failed")

=============================================================================
