------------------------------- MODULE ZplLint -------------------------------
(***************************************************************************)
(* The warnings that are returned with a rule set that compiles            *)
(* (checker.lint_rules): statements that were lost, classes that match     *)
(* everything, and rules and identities that can never match.  Left out    *)
(* are the two that need the tools of an upstream or read a CEL text.      *)
(***************************************************************************)
EXTENDS ZplCompile

Verbs == {"access", "use", "call", "read", "write"}

\* Mutant: the built-in classes are counted as statements.
ParsedWithBuiltins == Cardinality(DOMAIN crs.rules) + Cardinality(DOMAIN crs.defs.line)
                         + Cardinality(DOMAIN crs.defs.entities)

\* What the rule set has of the statements.
Parsed == Cardinality(DOMAIN crs.rules) + Cardinality(DOMAIN crs.defs.fixed)
             + Cardinality(DOMAIN crs.defs.entities)

\* The lines that begin with one of the four words, one or two in a statement
\* or, behind another on its line or misspelt, none.
StatementLines == {p \in (DOMAIN text) \X (1..2) : p[2] <= text[p[1]].lines}

ASSUME LinesAssumption == \A s \in Statement : s.lines \in 0..2

\* "n statement(s) did not parse".
Vanished == Cardinality(StatementLines) - Parsed

\* The classes of these that an undeclared name or a call is looked for in.
Inferable(root) ==
    {c \in DOMAIN crs.defs.fixed :
        /\ is_subclass(crs.defs, c, root)
        /\ root = "endpoints" => ~is_subclass(crs.defs, c, "servers")}

\* "it matches EVERY call", "ANY identity matches it", "any agent matches it".
Unpinned(root) ==
    {c \in Inferable(root) : /\ crs.defs.fixed[c] = <<>>
                             /\ root = "users" => c \notin DOMAIN crs.defs.entities}

\* Mutant: an alias is taken for an undefined class.
UndefinedOrAlias(c) == c \notin DOMAIN crs.defs.line

Undefined(c) == ~has(crs.defs, c)

\* "references undefined class": the slots of a rule that do.
UndefinedSlots(rule) ==
    {slot \in Slot : rule[slot] # None /\ Undefined(rule[slot].class)}

\* "calls are checked with verb 'access'".
UnknownVerb(rule) == rule.verb \notin Verbs

\* Declare: "this identity matches no rule".
Strangers ==
    {n \in DOMAIN crs.defs.entities : Undefined(crs.defs.entities[n].class)}

DeclaredKeys == UNION {DOMAIN crs.defs.entities[n].attrs : n \in DOMAIN crs.defs.entities}

\* The attributes of a class, its ancestors' included, with a value or without.
ClassKeys(c) ==
    LET defines == Kept(text, {"define"}) IN
    IF Undefined(c) THEN {}
    ELSE UNION {DOMAIN MergedAttrs(defines, Written(defines, a)) :
                   a \in crs.defs.line[canonical(crs.defs, c)] \ Builtin}

\* "no Declare statement carries": the filters of a slot that none meets.
UnmetFilters(rule, slot) ==
    IF slot \notin {"subject", "accessor"} \/ rule[slot] = None THEN {}
    ELSE DOMAIN rule[slot].attrs
            \ ({"name"} \cup DeclaredKeys \cup ClassKeys(rule[slot].class))

-----------------------------------------------------------------------------
(* Properties.                                                              *)

\* A text that compiles although statements of it were lost is returned with a
\* warning that counts them all (checker.py 269-280), whatever was merged on the
\* way, unless as many statements have no line of their own.  A Never that is
\* read as an Allow is not missing.
LostIsReported ==
    Ok => Cardinality({i \in DOMAIN text : Lost(text, i)})
             <= Vanished + Cardinality({i \in DOMAIN text : text[i].lines = 0})

\* The unpinned classes that no other class is deep enough to take a call from.
Unrivalled(root) ==
    {c \in Unpinned(root) :
        \A d \in Inferable(root) :
            ~is_subclass(crs.defs, d, c) => Depth(crs.defs, d) < Depth(crs.defs, c)}

\* What a warning says will never match matches no call: a rule with an
\* undefined class, unless a Declare names that class too; a rule with an
\* unknown verb, for calls of tools; a subject or agent filtered by an
\* attribute nobody has, unless it is a role, which the hub gives.  What it
\* says matches every call, any identity or any agent does, in itself or in a
\* subclass, unless a class elsewhere is as deep or the name is Declare'd.
WarningsTrue ==
    Ok => \A call \in Call :
       LET req == Request(crs.defs, call)
           taken(class, root) == \A c \in Unrivalled(root) : is_subclass(crs.defs, class, c)
       IN
       /\ \A i \in DOMAIN crs.rules :
             LET rule == crs.rules[i]
                 undefined == {slot \in UndefinedSlots(rule) :
                                 \A n \in Strangers : crs.defs.entities[n].class # rule[slot].class}
                 unmet == (UNION {UnmetFilters(rule, slot) : slot \in Slot}) \ {"role", "roles"}
             IN \/ undefined # {}
                \/ UnknownVerb(rule) /\ call.verb = "access"
                \/ unmet # {}
                => ~SpecsMatch(crs.defs, rule, req)
       /\ taken(req.object.class, "services")
       /\ Name(call.user) \notin DOMAIN crs.defs.entities => taken(req.subject.class, "users")
       /\ Name(call.agent) \notin DOMAIN crs.defs.entities => taken(req.accessor.class, "endpoints")
=============================================================================
