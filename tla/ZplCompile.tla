------------------------------ MODULE ZplCompile -----------------------------
(***************************************************************************)
(* From the text of a rule set to the rule set that ZplEngine evaluates:   *)
(* zpl/zpl_parser.py, zpl/class_schema.py and checker.compile_rules.  An   *)
(* administrator writes the text one statement after the other.            *)
(*                                                                         *)
(* A statement is a record of its kind, of how it ends, of the number of   *)
(* its lines that begin with one of the words Define, Declare, Allow and   *)
(* Never, and of                                                           *)
(*   define         name, aka, parent, attrs                               *)
(*   declare        name, class, attrs                                     *)
(*   allow, never   subject, accessor, verb, object, server, condition     *)
(*   broken         first: the parser raises an error behind this word     *)
(* It ends in a period; with a word, and the next statement begins; or it  *)
(* is open, its last class or parent is missing.  The value of an          *)
(* attribute of a Define that has none is the word None.  Names of         *)
(* attributes and first words are written in lower case.                   *)
(***************************************************************************)
EXTENDS ZplEngine

CONSTANTS
    Statement,     \* the statements an administrator may write
    StartText,     \* the texts to begin with
    MaxStatements, \* bound: the length of a text
    Call,          \* the calls to decide
    resource,      \* path with a query -> the path without it
    BadCEL         \* a condition that is no CEL expression

ASSUME TextAssumption ==
    /\ MaxStatements \in Nat
    /\ StartText \subseteq Seq(Statement) /\ \A s \in StartText : Len(s) <= MaxStatements

VARIABLES
    text,          \* the statements written so far
    crs            \* what compile_rules makes of them

vars == <<text, crs>>

-----------------------------------------------------------------------------
(* The parser: which statements it keeps.                                   *)

\* The first word of a statement.
First(s) == IF s.kind = "broken" THEN s.first ELSE s.kind

\* The word that an open statement takes for its class is the first of the next.
Beheaded(s, i) == i > 1 /\ s[i - 1].ends = "open"

\* Without its first word only `Never allow ...' is a statement.
Fails(s, i) == \/ s[i].kind = "broken"
               \/ Beheaded(s, i) /\ s[i].kind # "never"
               \/ s[i].ends = "open" /\ i = Len(s)

\* After an error the parser goes on behind the next period.
Lost(s, i) == \E j \in 1..i : Fails(s, j) /\ \A k \in j..(i - 1) : s[k].ends # "period"

Filled(s, word) ==
    CASE s.kind = "define" -> [s EXCEPT !.parent = word]
      [] s.kind = "declare" -> [s EXCEPT !.class = word]
      [] s.kind \in {"allow", "never"} /\ s.server # None ->
            [s EXCEPT !.server = [class |-> word, attrs |-> @.attrs]]
      [] s.kind \in {"allow", "never"} /\ s.server = None ->
            [s EXCEPT !.object = [class |-> word, attrs |-> @.attrs]]
      [] OTHER -> s

\* A Never without its first word is an Allow.
Headless(s) == IF s.kind = "never" THEN [s EXCEPT !.kind = "allow"] ELSE s

\* What the parser makes of a statement in its place.
Read(s, i) ==
    LET headed == IF Beheaded(s, i) THEN Headless(s[i]) ELSE s[i] IN
    IF s[i].ends = "open" THEN Filled(headed, First(s[i + 1])) ELSE headed

\* The statements of these kinds that are kept, by their places in the text.
Kept(s, kinds) ==
    [i \in {j \in DOMAIN s : ~Lost(s, j) /\ Read(s, j).kind \in kinds} |-> Read(s, i)]

builtin_aliases == [user |-> "users", endpoint |-> "endpoints",
                    service |-> "services", server |-> "servers"]

Alias(w) == IF w \in DOMAIN builtin_aliases THEN builtin_aliases[w] ELSE w

\* The class a word stands for as a parent or in a rule.
ClassName(w) == Alias(Lower(w))

-----------------------------------------------------------------------------
(* The class schema.  Its operators take the Define statements; a class has *)
(* the name it was first written with, until the names are folded.          *)

Roots == {"users", "endpoints", "services"}
Builtin == Roots \cup {"servers"}

Names(defines) == {defines[i].name : i \in DOMAIN defines}

\* The first Define makes the class: it gives the parent and the alias.
Place(defines, n) == Min({i \in DOMAIN defines : defines[i].name = n})
Maker(defines, n) == defines[Place(defines, n)]

\* A second Define adds attributes, and values to lists of values; one of a
\* verb adds nothing.
Adding(defines, n, k) ==
    {i \in DOMAIN defines :
        /\ defines[i].name = n /\ k \in DOMAIN defines[i].attrs
        /\ (i = Place(defines, n) \/ Lower(defines[i].parent) # "verb")}

Merged(defines, n, k) ==
    LET values == {defines[i].attrs[k] : i \in Adding(defines, n, k)}
        first == defines[Min(Adding(defines, n, k))].attrs[k]
        words == (UNION {v.of : v \in {w \in values : w.list}}) \ {None}
    IN IF first.list /\ words # {} THEN List(words) ELSE first

MergedAttrs(defines, n) ==
    [k \in {j \in UNION {DOMAIN defines[i].attrs : i \in DOMAIN defines} :
               Adding(defines, n, j) # {}} |-> Merged(defines, n, k)]

\* No two classes fold to one name, nor to that of a built-in.
NoDuplicate(defines) ==
    \A n, m \in Names(defines) : /\ Lower(n) \notin Builtin
                                 /\ Lower(n) = Lower(m) => n = m

Written(defines, c) == CHOOSE n \in Names(defines) : Lower(n) = c

Classes(defines) == Builtin \cup {Lower(n) : n \in Names(defines)}

Parent(defines) ==
    [c \in Classes(defines) |->
        IF c \in Roots THEN None
        ELSE IF c = "servers" THEN "endpoints"
        ELSE ClassName(Maker(defines, Written(defines, c)).parent)]

\* A class and its ancestors, by as many steps as there are classes.
Line(parent, c) ==
    LET up[n \in Nat] == IF n = 0 THEN {c}
                         ELSE LET below == up[n - 1] IN
                              below \cup ({parent[d] : d \in below} \ {None})
    IN up[Cardinality(DOMAIN parent)]

\* Mutant: the schema checks each parent on its own.
ParentsKnown(defines) ==
    /\ NoDuplicate(defines)
    /\ LET parent == Parent(defines) IN
       \A c \in Classes(defines) \ Roots : parent[c] \in Classes(defines) \ {c}

\* ClassSchema._load and _validate: no duplicate, no unknown parent, no cycle.
Valid(defines) ==
    /\ NoDuplicate(defines)
    /\ LET parent == Parent(defines) IN
       /\ \A c \in Classes(defines) \ Roots : parent[c] \in Classes(defines)
       /\ \A c \in Classes(defines) \ Roots : c \notin Line(parent, parent[c])

\* An alias that is also a class is none; the last class of two takes it.
Aka(defines) ==
    LET alias(n) == Lower(Maker(defines, n).aka)
        given == {n \in Names(defines) : /\ Maker(defines, n).aka # None
                                         /\ alias(n) \notin Classes(defines)}
        last(a) == Max({Place(defines, n) : n \in {m \in given : alias(m) = a}})
    IN [a \in {alias(n) : n \in given} |-> Lower(defines[last(a)].name)]

\* The values that a class or, where it has no such attribute, the nearest of
\* its ancestors fixes.  An empty list is one that nothing has.
Fixed(defines, line) ==
    LET own == [c \in Classes(defines) |->
                   IF c \in Builtin THEN <<>>
                   ELSE FoldAttrs(MergedAttrs(defines, Written(defines, c)))]
        having(c, k) == {d \in line[c] : k \in DOMAIN own[d]}
        nearest(c, k) == CHOOSE d \in having(c, k) :
                            \A e \in having(c, k) : e \in line[d]
        keys(c) == UNION {DOMAIN own[d] : d \in line[c]}
    IN [c \in Classes(defines) \ Builtin |->
           [k \in {j \in keys(c) : None \notin own[nearest(c, j)][j].of} |->
               own[nearest(c, k)][k]]]

-----------------------------------------------------------------------------
(* Declared entities and rules.                                             *)

\* The last Declare of a name counts; a class the schema does not have may be
\* the alias of a built-in one.
Entities(declares, classes) ==
    LET last(n) == declares[Max({i \in DOMAIN declares : Lower(declares[i].name) = n})]
        class(w) == IF w \in classes THEN w ELSE Alias(w)
    IN [n \in {Lower(declares[i].name) : i \in DOMAIN declares} |->
           [class |-> class(Lower(last(n).class)), attrs |-> FoldAttrs(last(n).attrs)]]

FoldSpec(spec) == IF spec = None THEN None
                  ELSE [class |-> ClassName(spec.class), attrs |-> FoldAttrs(spec.attrs)]

FoldRule(s) == [result |-> s.kind, verb |-> Lower(s.verb),
                subject |-> FoldSpec(s.subject), accessor |-> FoldSpec(s.accessor),
                object |-> FoldSpec(s.object), server |-> FoldSpec(s.server),
                condition |-> s.condition]

\* Mutant: rules of one name replace each other, as Declare'd entities do.
LastOfAName(rules) ==
    LET label(r) == <<r.kind, r.subject.class, r.verb, r.object.class>> IN
    [i \in {j \in DOMAIN rules : \A k \in DOMAIN rules :
               label(rules[k]) = label(rules[j]) => k <= j} |-> FoldRule(rules[i])]

FoldRules(rules) == [i \in DOMAIN rules |-> FoldRule(rules[i])]

\* A Never rule has no condition, and a condition compiles.
ConditionsCompile(rules) ==
    \A i \in DOMAIN rules : \/ rules[i].condition = None
                            \/ rules[i].kind = "allow" /\ rules[i].condition # BadCEL

\* compile_rules raises ZPLCompileError: no rule set.
CompileError == [error |-> TRUE]

Definitions(defines, declares) ==
    LET parent == Parent(defines)
        line == [c \in Classes(defines) |-> Line(parent, c)]
        aka == Aka(defines)
    IN [line |-> line, aka |-> aka, fixed |-> Fixed(defines, line),
        entities |-> Entities(declares, DOMAIN line \cup DOMAIN aka)]

Compiled(defines, declares, rules) ==
    IF ~Valid(defines) \/ ~ConditionsCompile(rules) THEN CompileError
    ELSE [defs |-> Definitions(defines, declares), rules |-> FoldRules(rules)]

compile_rules(s) == Compiled(Kept(s, {"define"}), Kept(s, {"declare"}),
                             Kept(s, {"allow", "never"}))

-----------------------------------------------------------------------------
\* What the parser may make of a statement somewhere.
Readings ==
    LET headed == Statement \cup {Headless(s) : s \in Statement} IN
    headed \cup {Filled(s, First(t)) : s \in headed, t \in Statement}

\* None is no name and no spec; names are strings, and statements are finite.
ASSUME StatementAssumption ==
    /\ None \notin Builtin
    /\ \A s \in Readings :
          /\ s.kind = "define" => /\ Lower(s.name) # None
                                  /\ alphabetical[Lower(s.name)] \in Nat
                                  /\ IsFiniteSet(DOMAIN s.attrs)
          /\ s.kind = "allow" => FoldSpec(s.subject) # None

Init == /\ text \in StartText
        /\ crs = compile_rules(text)

\* The rule set is edited and bound again.
Write(s) == /\ Len(text) < MaxStatements
            /\ text' = Append(text, s)
            /\ crs' = compile_rules(text')

Next == \E s \in Statement : Write(s)

Spec == Init /\ [][Next]_vars
-----------------------------------------------------------------------------
(* Properties.                                                              *)

Ok == crs # CompileError

\* A rule set that compiles has a sound class hierarchy, whatever was written:
\* each class descends from one built-in root through classes that are there
\* (class_schema.py 101-151), each Define'd class has its fixed attributes, no
\* alias hides a class, and no Never rule has a condition.
CompiledOK ==
    /\ text \in Seq(Statement) /\ Len(text) <= MaxStatements
    /\ Ok =>
       /\ \A c \in DOMAIN crs.defs.line : /\ c \in crs.defs.line[c]
                                     /\ Cardinality(crs.defs.line[c] \cap Roots) = 1
                                     /\ \A a \in crs.defs.line[c] : crs.defs.line[a] \subseteq crs.defs.line[c]
       /\ \A a \in DOMAIN crs.defs.aka : /\ a \notin DOMAIN crs.defs.line
                                    /\ crs.defs.aka[a] \in DOMAIN crs.defs.line \ Builtin
       /\ DOMAIN crs.defs.fixed = DOMAIN crs.defs.line \ Builtin
       /\ \A i \in DOMAIN crs.rules : crs.rules[i].condition = None
                                       \/ crs.rules[i].result = "allow"

\* A call that is allowed on a service could also open its session there: the
\* gate for handshakes (service_reachable) never shuts out a principal that
\* check lets through, so an allowed tool is never out of reach.
AllowedReachable ==
    Ok => \A call \in Call : allowed(crs, call) /\ call.service # None
                                 => service_reachable(crs, call)

\* Writing an Allow rule takes nothing from anybody, and writing a Never rule
\* gives nothing to anybody, whatever else the text holds, statements that are
\* lost included (checker.py 23-24), unless the text ends in an open statement:
\* that one takes the first word of the new rule.
EditsMonotone ==
    \A s \in Statement :
        /\ text' = Append(text, s) /\ Ok /\ Ok'
        /\ text # <<>> => text[Len(text)].ends # "open"
        /\ s.kind \in {"allow", "never"}
        => \A call \in Call :
              IF s.kind = "allow" THEN allowed(crs, call) => allowed(crs', call)
              ELSE allowed(crs', call) => allowed(crs, call)

RulesMonotone == [][EditsMonotone]_vars

\* No name is defined, declared or given as an alias twice; nothing is lost or
\* read as something else.
Unambiguous(s) ==
    /\ \A i \in DOMAIN s : s[i].kind # "broken" /\ s[i].ends # "open"
    /\ \A i, j \in DOMAIN s :
          s[i].kind = s[j].kind /\ i # j =>
              /\ s[i].kind \in {"define", "declare"} => Lower(s[i].name) # Lower(s[j].name)
              /\ s[i].kind = "define" /\ s[i].aka # None /\ s[j].aka # None
                    => Lower(s[i].aka) # Lower(s[j].aka)

\* Where the text leaves nothing to be settled by position, position means
\* nothing: a rule may stand before the class it names and an Allow before a
\* Never.  Turning the text round changes neither a verdict nor whether it
\* compiles.
OrderIrrelevant ==
    Unambiguous(text) =>
        LET turned == compile_rules(Reverse(text)) IN
        IF turned = CompileError THEN ~Ok
        ELSE Ok /\ \A call \in Call : allowed(crs, call) <=> allowed(turned, call)

FoldedStatement(s) ==
    LET spec(p) == IF p = None THEN None
                   ELSE [class |-> Lower(p.class), attrs |-> FoldAttrs(p.attrs)]
    IN CASE s.kind = "define" ->
              [s EXCEPT !.name = Lower(@), !.aka = IF @ = None THEN None ELSE Lower(@),
                        !.parent = Lower(@), !.attrs = FoldAttrs(@)]
         [] s.kind = "declare" ->
              [s EXCEPT !.name = Lower(@), !.class = Lower(@), !.attrs = FoldAttrs(@)]
         [] s.kind \in {"allow", "never"} ->
              [s EXCEPT !.subject = spec(@), !.accessor = spec(@), !.verb = Lower(@),
                        !.object = spec(@), !.server = spec(@)]
         [] OTHER -> s

\* Statements and calls have the fields of their kind, None is no spelling and
\* no spec, and what is in lower case stays as it is, first words with it.  For names, replacing
\* characters (zpl_token) and folding case commute: they do for names in ASCII.
ASSUME FoldingAssumption ==
    /\ None \notin DOMAIN lower
    /\ \A w \in DOMAIN lower : lower[w] # None /\ Lower(lower[w]) = lower[w]
    /\ \A s \in Statement : Lower(First(s)) = First(s)
    /\ \A s \in Readings :
          LET valued(attrs) == \A k \in DOMAIN attrs : DOMAIN attrs[k] = {"list", "of"} IN
          /\ {"kind", "ends"} \subseteq DOMAIN s
          /\ s.kind = "define" => /\ {"name", "aka", "parent", "attrs"} \subseteq DOMAIN s
                                  /\ valued(s.attrs)
          /\ s.kind = "declare" => /\ {"name", "class", "attrs"} \subseteq DOMAIN s
                                   /\ valued(s.attrs)
          /\ s.kind \in {"allow", "never"} =>
                /\ Slot \cup {"verb", "condition"} \subseteq DOMAIN s
                /\ \A slot \in Slot :
                      s[slot] # None =>
                          /\ valued(s[slot].attrs)
                          /\ FoldedStatement(s)[slot] # None
                          /\ \A t \in Statement : Filled(s, First(t))[slot] # None
                /\ s.object # None
    /\ \A call \in Call :
          /\ {"user", "agent", "service", "verb", "tool", "args", "roles", "context"} \subseteq DOMAIN call
          /\ \A w \in {call.user, call.agent, call.service} :
                   Lower(Token(Lower(w))) = Lower(Token(w))
          /\ \A k \in DOMAIN call.args : DOMAIN call.args[k] = {"list", "of"}
          /\ call.roles # None => /\ DOMAIN call.roles = {"list", "of"}
                                  /\ FoldValue("role", call.roles) # None

\* The call in lower case, but for its path.
InLower(call) ==
    [call EXCEPT !.user = Lower(@), !.agent = Lower(@), !.service = Lower(@), !.tool = Lower(@),
                 !.args = FoldAttrs(@), !.roles = IF @ = None THEN None ELSE FoldValue("role", @)]

\* Case tells nothing apart but paths and conditions (checker.py 92-97): a text
\* that compiles decides every call as the same text in lower case decides the
\* call in lower case.
CaseInsensitive ==
    Ok => LET folded == compile_rules([i \in DOMAIN text |-> FoldedStatement(text[i])]) IN
          \A call \in Call :
              allowed(crs, call) <=>
              allowed(folded, InLower(call))

\* Somebody with no role, whom no Declare names and whom no user class could
\* have among its instances: each one fixes another name or something that
\* only a role or a Declare could give.
Unknown(call) ==
    /\ call.roles = None
    /\ Name(call.user) \notin DOMAIN crs.defs.entities
    /\ \A c \in DOMAIN crs.defs.fixed :
          "users" \in crs.defs.line[c] =>
              \E k \in DOMAIN crs.defs.fixed[c] : k # "name" \/ Name(call.user) \notin crs.defs.fixed[c][k].of

\* "Unknown identities therefore fall to default deny under any subject-
\* constrained rule set" (checker.py 20-21).
UnknownIdentityDenied ==
    Ok /\ (\A i \in Rules(crs, "allow") : crs.rules[i].subject.class # "users") =>
        \A call \in Call : Unknown(call) => ~allowed(crs, call)

\* Roles are a value of an attribute.
ASSUME RolesAssumption ==
    \A call \in Call :
        call.roles # None => call.roles = [list |-> call.roles.list, of |-> call.roles.of]

\* A list of roles (hub.py 55, identity.py 22) counts where a rule names roles
\* (addon.py 247-248) and nowhere else: it makes nobody a member of a class and
\* takes nobody out of one (checker.py 197-206), so rules that name none decide
\* a call with roles as one without.  A single role, the claim of a token
\* (jwt_verify.py 60), does make its bearer a member.
RolesOnlyFilter ==
    Ok /\ (\A i \in DOMAIN crs.rules :
              crs.rules[i].subject # None =>
                  {"role", "roles"} \cap DOMAIN crs.rules[i].subject.attrs = {}) =>
        \A call \in Call :
            call.roles # None /\ call.roles.list =>
                (allowed(crs, call) <=> allowed(crs, [call EXCEPT !.roles = None]))

\* "Depth wins" (checker.py 16-17): a call is never taken for a class when it
\* satisfies a subclass of it, however few attributes that one fixes.
MostSpecific ==
    Ok => \A call \in Call :
             LET class == Request(crs.defs, call).object.class IN
             \A c \in Candidates(crs.defs, "services", CallAttrs(call), None) :
                 is_subclass(crs.defs, c, class) => c = class

WithoutConditions(which) ==
    [crs EXCEPT !.rules = [i \in DOMAIN @ |->
                              IF i \in which THEN [@[i] EXCEPT !.condition = None] ELSE @[i]]]

\* "Conditions only narrow" (zpl_engine.py 102-104, 280): without its conditions
\* a rule set allows whatever it allows with them.
ConditionOnlyNarrows ==
    Ok => \A call \in Call :
             allowed(crs, call) => allowed(WithoutConditions(DOMAIN crs.rules), call)

\* The reason of a default denial names a condition only if that condition is
\* all that stands between the call and the verdict allow (checker.py 448-450).
ConditionBlamed ==
    Ok => \A call \in Call :
             LET blamed == check(crs, call).condition IN
             blamed # 0 => /\ ~allowed(crs, call)
                           /\ allowed(WithoutConditions({blamed}), call)

-----------------------------------------------------------------------------
(* What comments of the code say and the code does not do.                  *)

\* "Raised when a rule set fails to parse" (checker.py 53).
BrokenTextRefused == (\E i \in DOMAIN text : text[i].kind = "broken") => ~Ok

\* "A rule path covers itself and everything under it" (zpl_engine.py 334-335):
\* a Never rule for a path denies that path, with a query as well.
PathCovered ==
    Ok => \A call \in Call, plain \in Call :
             /\ "path" \in DOMAIN call.args /\ "path" \in DOMAIN plain.args
             /\ \A q \in call.args["path"].of, p \in plain.args["path"].of :
                   q \in DOMAIN resource /\ resource[q] = p
             /\ [call EXCEPT !.args = plain.args, !.tool = plain.tool] = plain
             /\ check(crs, plain).rule \in Rules(crs, "never")
             => ~allowed(crs, call)
=============================================================================
