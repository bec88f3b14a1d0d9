------------------------------ MODULE ZplEngine ------------------------------
(***************************************************************************)
(* The policy engine of zpl-engine: what a compiled rule set says of a     *)
(* call.  These are the functions of checker.py, zpl/zpl_engine.py and the *)
(* queries of zpl/class_schema.py; ZplCompile builds the rule sets.        *)
(*                                                                         *)
(* A compiled rule set, crs, is a record of its definitions, defs, which   *)
(* are a record of                                                         *)
(*   line      class -> the class and its ancestors                        *)
(*   aka       alias -> class                                              *)
(*   fixed     Define'd class -> its fixed attributes, inherited ones too  *)
(*   entities  Declare'd name -> class and attributes                      *)
(* and of its rules, a function from the position in the text to the rule. *)
(* A rule set from the parser has one priority for all its rules, so they  *)
(* are tried in the order of their positions, Never rules first.           *)
(*                                                                         *)
(* The value of an attribute is a word or a list of words: a record of     *)
(* both, with one word or none in the first case.  Words are atoms; what   *)
(* the code does to their characters is the constants below.  A `when:'    *)
(* condition is the set of the contexts in which its value is true to      *)
(* Python: any other value, and any error, fails it.                       *)
(***************************************************************************)
EXTENDS Naturals, Sequences, FiniteSets, FiniteSetsExt, SequencesExt, TLC

CONSTANTS
    None,         \* Python's None: no spec, no condition, no service ...
    lower,        \* spelling -> its lower case, for words that have another
    token,        \* spelling -> zpl_token of it, for words it changes
    segments,     \* path -> its segments, the last with the query string
    alphabetical  \* class name -> its place in the order of strings

Lower(w) == IF w \in DOMAIN lower THEN lower[w] ELSE w
Token(w) == IF w \in DOMAIN token THEN token[w] ELSE w

One(w) == [list |-> FALSE, of |-> {w}]
List(words) == [list |-> TRUE, of |-> words]
Star == One("*")

\* The attributes f, and those of g that f does not have.
Over(f, g) == [k \in DOMAIN f \cup DOMAIN g |-> IF k \in DOMAIN f THEN f[k] ELSE g[k]]

-----------------------------------------------------------------------------
(* ClassSchema.                                                             *)

has(defs, c) == c \in DOMAIN defs.line \cup DOMAIN defs.aka

canonical(defs, c) == IF c \in DOMAIN defs.line THEN c ELSE defs.aka[c]

is_subclass(defs, c, a) == canonical(defs, a) \in defs.line[canonical(defs, c)]

Depth(defs, c) == Cardinality(defs.line[c]) - 1

-----------------------------------------------------------------------------
(* Which class a name or a call belongs to.                                 *)

\* Mutant: only what the call has is compared.
KnownMatch(fixed, attrs) ==
    \A k \in DOMAIN fixed \cap DOMAIN attrs :
        ~attrs[k].list /\ attrs[k].of \subseteq fixed[k].of

\* Mutant: a list in the call has a fixed value if that is one of its own.
ListMeets(fixed, attrs) ==
    \A k \in DOMAIN fixed : k \in DOMAIN attrs /\ attrs[k].of \cap fixed[k].of # {}

\* Every fixed attribute of the class is in the call with that value, or with
\* one of those values; a list in the call never is.
FixedMatch(fixed, attrs) ==
    \A k \in DOMAIN fixed : /\ k \in DOMAIN attrs /\ ~attrs[k].list
                            /\ attrs[k].of \subseteq fixed[k].of

\* The classes under root, and not under excluded, that attrs satisfy.
Candidates(defs, root, attrs, excluded) ==
    {c \in DOMAIN defs.fixed :
        /\ is_subclass(defs, c, root)
        /\ (excluded = None \/ ~is_subclass(defs, c, excluded))
        /\ FixedMatch(defs.fixed[c], attrs)}

\* Mutant: the number of fixed attributes counts before the depth.
BroadFirst(defs, c, d) ==
    LET n == Cardinality(DOMAIN defs.fixed[c])
        m == Cardinality(DOMAIN defs.fixed[d])
    IN n > m \/ (n = m /\ alphabetical[c] >= alphabetical[d])

\* The key of _infer_class: depth, then number of fixed attributes, then name.
Outranks(defs, c, d) ==
    LET n == Cardinality(DOMAIN defs.fixed[c])
        m == Cardinality(DOMAIN defs.fixed[d])
    IN \/ Depth(defs, c) > Depth(defs, d)
       \/ /\ Depth(defs, c) = Depth(defs, d)
          /\ n > m \/ (n = m /\ alphabetical[c] >= alphabetical[d])

\* One class, or root.
InferClass(defs, root, attrs, excluded) ==
    LET found == Candidates(defs, root, attrs, excluded) IN
    IF found = {} THEN root
    ELSE CHOOSE c \in found : \A d \in found : Outranks(defs, c, d)

\* _resolve: Declare'd, or inferred, or the bare root.
Resolve(defs, name, root, attrs, excluded) ==
    LET named == [k \in {"name"} |-> One(name)] IN
    IF name \in DOMAIN defs.entities
    THEN [class |-> defs.entities[name].class,
          attrs |-> Over(attrs, Over(defs.entities[name].attrs, named))]
    ELSE [class |-> InferClass(defs, root, Over(attrs, named), excluded),
          attrs |-> Over(attrs, named)]

-----------------------------------------------------------------------------
(* Whether a rule matches.                                                  *)

AttrMatches(spec, attrs, k) ==
    k \in DOMAIN attrs /\ (spec = Star \/ spec.of \cap attrs[k].of # {})

\* Trailing slashes of a rule's path do not count.
Stripped(path) ==
    SubSeq(segments[path], 1,
           Max({0} \cup {i \in DOMAIN segments[path] : segments[path][i] # ""}))

PathMatches(spec, attrs) ==
    /\ "path" \in DOMAIN attrs
    /\ \/ spec = Star
       \/ ~attrs["path"].list /\ \E prefix \in spec.of, path \in attrs["path"].of :
             IsPrefix(Stripped(prefix), segments[path])

ClassMatches(defs, specClass, class) ==
    IF has(defs, class) /\ has(defs, specClass)
    THEN is_subclass(defs, class, specClass)
    ELSE ~has(defs, class) /\ ~has(defs, specClass) /\ class = specClass

\* A slot of a rule against an entity of the request; the parser makes no
\* spec that names an entity.
MatchSpec(defs, slot, spec, entity) ==
    \/ spec = None
    \/ /\ entity # None
       /\ ClassMatches(defs, spec.class, entity.class)
       /\ \A k \in DOMAIN spec.attrs :
             IF slot = "object" /\ k = "path"
             THEN PathMatches(spec.attrs[k], entity.attrs)
             ELSE AttrMatches(spec.attrs[k], entity.attrs, k)

Slot == {"subject", "accessor", "object", "server"}

SpecsMatch(defs, rule, req) ==
    /\ \A slot \in Slot : MatchSpec(defs, slot, rule[slot], req[slot])
    /\ rule.verb = req.verb

Holds(condition, context) == condition = None \/ context \in condition

MatchRule(defs, rule, req) ==
    /\ SpecsMatch(defs, rule, req)
    /\ Holds(rule.condition, req.context)

Rules(crs, result) == {i \in DOMAIN crs.rules : crs.rules[i].result = result}

\* Mutant: the rules are tried in the order of the text alone.
FirstMatch(crs, req) ==
    LET matching == {i \in DOMAIN crs.rules : MatchRule(crs.defs, crs.rules[i], req)} IN
    IF matching = {} THEN [verdict |-> "deny", rule |-> 0]
    ELSE [verdict |-> IF crs.rules[Min(matching)].result = "allow"
                      THEN "allow" ELSE "deny",
          rule |-> Min(matching)]

\* Never rules, then Allow rules, then the default; rule 0 is no rule.
evaluate(crs, req) ==
    LET matching(result) == {i \in Rules(crs, result) :
                                MatchRule(crs.defs, crs.rules[i], req)}
    IN IF matching("never") # {}
       THEN [verdict |-> "deny", rule |-> Min(matching("never"))]
       ELSE IF matching("allow") # {}
       THEN [verdict |-> "allow", rule |-> Min(matching("allow"))]
       ELSE [verdict |-> "deny", rule |-> 0]

-----------------------------------------------------------------------------
(* The two checks the proxy makes.  A call is a record of user, agent,      *)
(* service, verb, tool, args, roles (a list, one word that a token has for  *)
(* its claim, or None) and context.                                        *)

\* Values are folded like those of the rules, except a path.
FoldValue(k, v) == IF k = "path" THEN v ELSE [v EXCEPT !.of = {Lower(w) : w \in @}]
FoldAttrs(attrs) == [k \in DOMAIN attrs |-> FoldValue(k, attrs[k])]

\* Mutant: names are compared as they are written.
NameAsWritten(w) == Token(w)

Name(w) == Lower(Token(w))

RoleAttrs(call) == IF call.roles = None THEN <<>>
                   ELSE FoldAttrs([k \in {"role", "roles"} |-> call.roles])

\* An argument named tool does not displace the tool.
CallAttrs(call) == Over([k \in {"tool"} |-> One(Lower(call.tool))], FoldAttrs(call.args))

Subject(defs, call) == Resolve(defs, Name(call.user), "users", RoleAttrs(call), None)
Accessor(defs, call) == Resolve(defs, Name(call.agent), "endpoints", <<>>, "servers")
Server(defs, call) == IF call.service = None THEN None
                     ELSE Resolve(defs, Name(call.service), "servers", <<>>, None)

Request(defs, call) ==
    [subject  |-> Subject(defs, call),
     accessor |-> Accessor(defs, call),
     object   |-> [class |-> InferClass(defs, "services", CallAttrs(call), None),
                   attrs |-> CallAttrs(call)],
     server   |-> Server(defs, call),
     verb     |-> call.verb,
     context  |-> call.context]

\* Mutant: any Allow rule with a condition that fails is blamed.
AnyCondition(crs, req) == {i \in Rules(crs, "allow") :
                              ~Holds(crs.rules[i].condition, req.context)}

\* The Allow rules that only their condition kept from matching; the first of
\* them is named in the reason of a default denial.
Blamed(crs, req) == {i \in Rules(crs, "allow") :
                        /\ SpecsMatch(crs.defs, crs.rules[i], req)
                        /\ ~MatchRule(crs.defs, crs.rules[i], req)}

check(crs, call) ==
    LET req == Request(crs.defs, call)
        result == evaluate(crs, req)
    IN [verdict |-> result.verdict, rule |-> result.rule,
        condition |-> IF result.rule = 0 /\ Blamed(crs, req) # {}
                      THEN Min(Blamed(crs, req)) ELSE 0]

allowed(crs, call) == check(crs, call).verdict = "allow"

\* Mutant: a leading Never hides the rest.
ReachableUnlessNever(crs, call) ==
    /\ call.service # None
    /\ \E i \in Rules(crs, "allow") :
          /\ \A slot \in Slot \ {"object"} :
                MatchSpec(crs.defs, slot, crs.rules[i][slot], Request(crs.defs, call)[slot])
          /\ \A j \in Rules(crs, "never") : i < j

\* Some Allow rule grants this principal something on this server; object,
\* verb and condition are not looked at, and neither are the Never rules.
service_reachable(crs, call) ==
    /\ call.service # None
    /\ \E i \in Rules(crs, "allow") : \A slot \in Slot \ {"object"} :
          MatchSpec(crs.defs, slot, crs.rules[i][slot], Request(crs.defs, call)[slot])
=============================================================================
